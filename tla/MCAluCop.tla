------------------------------- MODULE MCAluCop -------------------------------
(***************************************************************************)
(* Two operations with different results.                                  *)
(***************************************************************************)
EXTENDS AluCop

NoOp == [a |-> 1, b |-> 1, c |-> 0]
TwoOps == { NoOp, [a |-> 1, b |-> 2, c |-> 1] }
===============================================================================
