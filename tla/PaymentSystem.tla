--------------------------- MODULE PaymentSystem ---------------------------
(***************************************************************************)
(* Provider callbacks, checkout and gateway operations over the same rows: *)
(* a buyer, a job or a merchant expires, reconciles or cancels an intent   *)
(* while callbacks for it arrive and are processed.                        *)
(***************************************************************************)
EXTENDS ProviderCallbacks, GatewayOperations

systemVars == <<vars, op>>

SystemInit == CheckoutInit /\ CallbacksInit

CallbacksRun == CallbackStep /\ UNCHANGED op
CheckoutRuns == CheckoutStep /\ UNCHANGED callbackVars
GatewayRuns  == GatewayStep /\ UNCHANGED callbackVars
ProviderActs == ProviderStep /\ UNCHANGED op

(***************************************************************************)
(* Holds have other ends than the payment.  The stock and coupon expiry    *)
(* jobs go by the clock alone, and a request that loses the race for its   *)
(* idempotency key releases the rows it shares with the one that won.      *)
(***************************************************************************)
HoldsLapse(i) ==
  /\ pay[i].status # "NONE" /\ pay[i].source = "STOREFRONT"
  /\ Perform(i, "HOLDS_LAPSED")
  /\ UNCHANGED <<provider, pay, order, settlement, locked>>

HoldsEnd == (\E i \in Intents : HoldsLapse(i)) /\ UNCHANGED <<callbackVars, op>>

SystemNext == CallbacksRun \/ CheckoutRuns \/ GatewayRuns \/ ProviderActs \/ HoldsEnd

SystemSpec == SystemInit /\ [][SystemNext]_systemVars

----------------------------------------------------------------------------
(* Every row, handler and operation has its type. *)
SystemTypeOK == RowsTypeOK /\ CallbacksTypeOK /\ CheckoutTypeOK

(* An order the buyer sees as paid has its settlement, although lookups    *)
(* and expiries write the status of the intent alone (postSettlement is    *)
(* the only caller of InsertSettlement, in the transaction of MarkOrderPaid)*)
PaidOrderIsSettled ==
  \A i \in Intents : order[i] = "PAID" => settlement[i] # "NONE"

(* Whatever ends a payment - a refused creation, ExpireIntent, a lookup, an *)
(* event - gives no stock or coupon back while the QR code shown to the    *)
(* buyer can still be paid: they wait for the provider's answer.  The holds*)
(* may be gone all the same, for HoldsLapse asks nobody; what a lapse leads*)
(* to is StorefrontOrders!OneBuyerPerUnit.                                 *)
EndersKeepHolds ==
  \A i \in Intents :
    pay[i].hasRef /\ provider[i] = {"CREATED"} => ~Has(i, "HOLDS_RELEASED")

(* An intent or order ends EXPIRED or CANCELLED only when the provider has *)
(* ended the payment so: a request, a timeout or a lookup that remembers   *)
(* another operation is no proof (BACKEND_PRODUCTION_TASKS 5.3: "Only a    *)
(* verified provider response/event/reference lookup may finalize").       *)
TerminalIsVerified ==
  \A i \in Intents : {pay[i].status, order[i]} \cap UnpaidEnd \subseteq provider[i]

(* One settlement for ever: however often the intent is overwritten and    *)
(* captured again, its settlement is not rewritten (journal_reference).    *)
SettlementIsFinal ==
  [][\A i \in Intents : settlement[i] # "NONE" => settlement'[i] = settlement[i]]_systemVars

(* A verified PAID event that was processed stands: its intent and its     *)
(* order are PAID from then on, whoever else works on them (finalizePaid,  *)
(* "transition payment/order to PAID"; applyNormalized: "Never move PAID   *)
(* backward").                                                             *)
PaidEventStands ==
  \A e \in Events :
    event[e].state = "PROCESSED" /\ event[e].matches /\ event[e].type = "PAID"
      => IsPaid(event[e].intent) /\ order[event[e].intent] = "PAID"
=============================================================================
