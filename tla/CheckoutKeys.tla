---------------------------- MODULE CheckoutKeys ----------------------------
(***************************************************************************)
(* Requests to check out carry an idempotency key; the holds, the intent   *)
(* and the order of a checkout are named by it.                            *)
(***************************************************************************)
EXTENDS FiniteSets

CONSTANTS Keys    \* checkout idempotency keys

ASSUME KeysAssumption == IsFiniteSet(Keys)
=============================================================================
