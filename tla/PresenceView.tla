---------------------------- MODULE PresenceView ----------------------------
(***************************************************************************)
(* What the PresenceStores promise to those who read them, whatever the    *)
(* relay and the network do: nobody is shown online until the snapshot of  *)
(* the connection has come, then one peer at a time comes or goes, and the *)
(* view is empty again when the connection is lost.                        *)
(***************************************************************************)
CONSTANTS Store, Peer

VARIABLES
  phase,      \* of each store: "down", "open" (no snapshot yet) or "seeded"
  view        \* the peers it shows as online

vars == <<phase, view>>

Init ==
  /\ phase = [s \in Store |-> "down"]
  /\ view = [s \in Store |-> {}]

Open(s) ==
  /\ phase[s] = "down"
  /\ phase' = [phase EXCEPT ![s] = "open"]
  /\ UNCHANGED view

Seed(s) ==
  /\ phase[s] = "open"
  /\ phase' = [phase EXCEPT ![s] = "seeded"]
  /\ \E online \in SUBSET Peer : view' = [view EXCEPT ![s] = online]

Change(s) ==
  /\ phase[s] = "seeded"
  /\ \E p \in Peer : \/ view' = [view EXCEPT ![s] = @ \union {p}]
                     \/ view' = [view EXCEPT ![s] = @ \ {p}]
  /\ UNCHANGED phase

Close(s) ==
  /\ phase[s] # "down"
  /\ phase' = [phase EXCEPT ![s] = "down"]
  /\ view' = [view EXCEPT ![s] = {}]

Next == \E s \in Store : Open(s) \/ Seed(s) \/ Change(s) \/ Close(s)

Spec == Init /\ [][Next]_vars

=============================================================================
