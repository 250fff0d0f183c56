-------------------------- MODULE MCToolExecutions --------------------------
(* A small instance of ToolExecutions. *)
EXTENDS ToolExecutions

CONSTANTS r1, r2, t1, t2, write

MCTwoRuns == {r1, r2}
MCTwoCalls == {t1, t2}
=============================================================================
