------------------------- MODULE GatewayOperations -------------------------
(***************************************************************************)
(* application.GatewayService: a merchant creates a QRIS payment by the    *)
(* API and may ask to cancel it.  The rows are the ones of the hosted      *)
(* checkout, and so are the jobs: a payment of the gateway expires and is  *)
(* reconciled by CheckoutOperations.  The same goroutines serve both, with *)
(* the steps of an operation shared where the statements are the same.     *)
(***************************************************************************)
EXTENDS CheckoutOperations

IsGateway(i) == pay[i].source = "QRIS_API"

(* CreatePayment: order, intent and event in one transaction, no stock and *)
(* no coupon; then the provider is called as for a checkout.               *)
CreatePayment(q, i) ==
  /\ At(q, "idle")
  /\ pay[i].status = "NONE"
  /\ pay' = [pay EXCEPT ![i] = [@ EXCEPT !.source = "QRIS_API",
                                         !.status = "REQUIRES_PAYMENT"]]
  /\ UpdateOrderStatus(i, "PENDING")
  /\ Enter(q, i, "create_call")
  /\ UNCHANGED <<provider, settlement, effects, locked>>

----------------------------------------------------------------------------
(* CancelPayment.  The request is a compare-and-set on the status read; a  *)
(* finished, cancelling or unknown payment is returned as it is, one that  *)
(* is expiring is refused.                                                 *)

RequestCancel(q, i) ==
  /\ At(q, "idle")
  /\ IsGateway(i)
  /\ pay[i].status \in {"REQUIRES_PAYMENT", "PENDING"}
  /\ Unlocked(i)
  /\ pay' = [pay EXCEPT ![i] = [@ EXCEPT !.status = "CANCEL_PENDING"]]
  /\ Enter(q, i, IF pay[i].hasRef THEN "cancel_call" ELSE "cancel_unknown")
  /\ UNCHANGED <<provider, order, settlement, effects, locked>>

CancelUnknown(q) ==
  /\ At(q, "cancel_unknown")
  /\ Unlocked(Row(q))
  /\ ForceStatus(Row(q), "UNKNOWN_OUTCOME", "CANCEL")
  /\ Move(q, "idle")
  /\ UNCHANGED <<provider, order, settlement, effects, locked>>

BlindCancel   == "force_cancelled"       \* faulty: a timeout is taken for a cancellation
CancelTimeout == "cancel_unknown"

(* An expired or pending payment stays CANCEL_PENDING. *)
CancelDecision(answer) ==
  CASE answer = "CANCELLED" -> "force_cancelled"
    [] answer = "PAID"      -> "force_paid"
    [] OTHER                -> "idle"

(* The provider voids a payment that is still open, or does not (one has   *)
(* no such call, and a void that failed is followed by a status query).    *)
(* What comes back is the state it is in, a timeout or another error.      *)
CallCancel(q) ==
  /\ At(q, "cancel_call")
  /\ \E facts \in Ended(Row(q), "CANCELLED") :
       /\ provider' = [provider EXCEPT ![Row(q)] = facts]
       /\ \/ Move(q, CancelTimeout) \/ Move(q, CancelDecision(AnswerOf(facts)))
          \/ Move(q, "idle")
  /\ UNCHANGED <<rows, locked>>

GatewayStep ==
  \E q \in Operations :
    \/ \E i \in Intents : CreatePayment(q, i) \/ RequestCancel(q, i)
    \/ CancelUnknown(q) \/ CallCancel(q)
=============================================================================
