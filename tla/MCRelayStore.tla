---------------------------- MODULE MCRelayStore ----------------------------
(* Small instances of RelayStore: requests and peers are each interchangeable. *)
EXTENDS RelayStore, TLC

Symmetry == Permutations(Request) \union Permutations(Peer)
=============================================================================
