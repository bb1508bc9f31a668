--------------------------- MODULE MCPaymentSystem ---------------------------
(***************************************************************************)
(* PaymentSystem for TLC: checkout operations are interchangeable - an     *)
(* operation is an anonymous goroutine, no action or property names one -  *)
(* so states that differ by their permutation are one.  Events are not:    *)
(* Idle names one of them.                                                 *)
(***************************************************************************)
EXTENDS PaymentSystem, TLC

OperationSymmetry == Permutations(Operations)
=============================================================================
