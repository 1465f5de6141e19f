---------------------------- MODULE MCLifecycle ----------------------------
(* Instances of DaemonLifecycle for TLC. *)
EXTENDS DaemonLifecycle

CONSTANTS c1, c2, c3

(* Three launches one after the other, with users, crashes and doctor runs *)
(* between them, in a profile's home and in the default one; and two at    *)
(* once, with slow daemons and one such act.                               *)
Solo(profile, bound) ==
  [solo |-> TRUE, profile |-> profile, launches |-> {c1, c2, c3}, maxActs |-> bound]
Race == [solo |-> FALSE, profile |-> TRUE, launches |-> {c1, c2}, maxActs |-> 1]

MCScenarios == {Solo(TRUE, 4), Solo(FALSE, 3), Race}
=============================================================================
