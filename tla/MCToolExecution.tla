-------------------------- MODULE MCToolExecution --------------------------
(* Small instances of ToolExecution. *)
EXTENDS ToolExecution

CONSTANTS t1, t2, t3

TwoCalls == {t1, t2}
ThreeCalls == {t1, t2, t3}
SymmetricTwo == Permutations(TwoCalls)

Values == {"value", "nothing"}

=============================================================================
