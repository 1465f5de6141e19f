----------------------------- MODULE MCPairing -----------------------------
(* Two machines, two codes, two names, and one address in two spellings. *)
EXTENDS Pairing

MCMailbox == [e \in Spelling |-> "ann"]

MCGroup(m, hooks) == [matcher |-> m, hooks |-> hooks]

(* A user's hooks on both sides of an older entry of lyy, and an older     *)
(* entry of lyy alone in its group.                                        *)
MCEdits ==
  { <<MCGroup("m", <<"u1", "old lyy", "u2">>), MCGroup(None, <<"old lyy">>), MCGroup(None, <<"u3">>)>> }

=============================================================================
