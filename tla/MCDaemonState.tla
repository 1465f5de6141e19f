--------------------------- MODULE MCDaemonState ---------------------------
(* Instances of DaemonState.  Every connection starts two syncs, so two    *)
(* can be under way; they are interchangeable.                             *)
EXTENDS DaemonState, TLC

SyncSymmetry == Permutations(SyncTask)

(* The threads are interchangeable too: the first message is in t1. *)
FirstInT1 == messages = <<>> \/ messages[1].thread = "t1"

=============================================================================
