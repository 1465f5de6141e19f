--------------------------- MODULE MCAutoUpgrade ---------------------------
(* Instances of AutoUpgrade: three launches in turn, or two at once. *)
EXTENDS AutoUpgrade

MCLaunch == {"l1", "l2", "l3"}

InTurn == [launches |-> MCLaunch, solo |-> TRUE]
AtOnce == [launches |-> {"l1", "l2"}, solo |-> FALSE]

MCScenarios == {InTurn, AtOnce}
OnlyAtOnce == {AtOnce}

=============================================================================
