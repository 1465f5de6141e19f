------------------------------ MODULE MCTuiApp ------------------------------
(* Two peers, one of them with a thread; calls answered in order without   *)
(* failures, or in any order with one failure.                             *)
EXTENDS TuiApp

InOrder == [known |-> {"ann"}, inOrder |-> TRUE, posts |-> 2, sends |-> 1, faults |-> 0, calls |-> 3]
AnyOrder == [known |-> {"ann"}, inOrder |-> FALSE, posts |-> 1, sends |-> 1, faults |-> 1, calls |-> 2]

MCScenarios == {InOrder, AnyOrder}

=============================================================================
