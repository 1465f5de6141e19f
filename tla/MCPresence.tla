----------------------------- MODULE MCPresence -----------------------------
(* A small organisation: peer "ann" is logged in on two machines, "bob" on *)
(* one.                                                                    *)
EXTENDS Presence

MCDaemon == {"a1", "a2", "b1"}
MCPeer == {"ann", "bob"}
MCPeerOf == [d \in MCDaemon |-> IF d = "b1" THEN "bob" ELSE "ann"]

=============================================================================
