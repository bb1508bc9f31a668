---------------------------- MODULE PaymentRows ----------------------------
(***************************************************************************)
(* The rows of PostgreSQL that the provider-callback path, the hosted      *)
(* checkout and the merchant gateway share, and the facts the external     *)
(* payment provider knows.  ProviderCallbacks and CheckoutOperations       *)
(* EXTEND this module; each write below is one SQL statement (or one       *)
(* statement list inside a single transaction) of                          *)
(* adapters/postgres/queries.                                              *)
(***************************************************************************)
EXTENDS Naturals, FiniteSets

CONSTANTS Intents     \* payment_intents rows; each owns exactly one orders row

ASSUME IntentAssumption == Intents # {}

VARIABLES
  provider,    \* what the provider knows of each intent (external)
  pay,         \* payment_intents: status, provider reference, flags
  order,       \* orders.payment_status
  settlement,  \* payment_settlements, unique by journal_reference of the intent
  effects,     \* what was done for an intent outside the payment transaction
  locked       \* intents whose row a callback transaction holds FOR UPDATE

rows == <<pay, order, settlement, effects>>

OpenStatus     == {"REQUIRES_PAYMENT", "PENDING", "UNKNOWN_OUTCOME", "EXPIRE_PENDING",
                   "CANCEL_PENDING"}
TerminalUnpaid == {"FAILED", "EXPIRED", "CANCELLED"}
Status         == OpenStatus \cup TerminalUnpaid \cup {"NONE", "PAID"}
OrderStatus    == {"NONE", "PENDING", "PAID", "EXPIRED", "FAILED", "CANCELLED"}
Source         == {"STOREFRONT", "QRIS_API"}     \* hosted checkout or merchant gateway
Operation      == {"NONE", "CREATE", "EXPIRE", "CANCEL"}
Settlement     == {"NONE", "ON_TIME", "LATE"}
Effect         == {"SELLER_WEBHOOK", "LEDGER", "FULFILLED",
                   "HOLDS_RELEASED",   \* by code that ends the payment
                   "HOLDS_LAPSED"}     \* by code that does not ask what became of it
Fact           == {"CREATED", "EXPIRED", "CANCELLED", "PAID"}

PayRow == [source : Source, status : Status, hasRef : BOOLEAN, unknownOp : Operation,
           paidLate : BOOLEAN, held : BOOLEAN]

RowsTypeOK ==
  /\ provider \in [Intents -> SUBSET Fact]
  /\ pay \in [Intents -> PayRow]
  /\ order \in [Intents -> OrderStatus]
  /\ settlement \in [Intents -> Settlement]
  /\ effects \in [Intents -> SUBSET Effect]
  /\ locked \in SUBSET Intents

Unlocked(i) == i \notin locked
Has(i, x)  == x \in effects[i]
IsPaid(i)  == pay[i].status = "PAID"
Paid(i)    == "PAID" \in provider[i]      \* the customer's money is with the provider

(***************************************************************************)
(* ForceUpdatePaymentIntent: no guard on the current status;               *)
(* unknown_operation is overwritten, provider_reference is kept.           *)
(***************************************************************************)
ForceStatus(i, to, operation) ==
  pay' = [pay EXCEPT ![i] = [@ EXCEPT !.status = to, !.unknownOp = operation]]

(* UpdateOrderStatus: no guard on the current status. *)
UpdateOrderStatus(i, to) == order' = [order EXCEPT ![i] = to]

Perform(i, x) == effects' = [effects EXCEPT ![i] = @ \cup {x}]

(* Stock and coupon, which an intent of the gateway does not have.         *)
ReleaseReservations(i) ==
  \/ pay[i].source = "STOREFRONT" /\ Perform(i, "HOLDS_RELEASED")
  \/ pay[i].source = "QRIS_API" /\ UNCHANGED effects

(***************************************************************************)
(* The provider (external): a created QRIS payment is paid by the customer *)
(* or expires; an expired or cancelled one may still be paid, which the    *)
(* code calls paid_late.                                                   *)
(***************************************************************************)
CustomerPays(i) ==
  /\ "CREATED" \in provider[i]
  /\ ~Paid(i)
  /\ provider' = [provider EXCEPT ![i] = @ \cup {"PAID"}]

ProviderExpires(i) ==
  /\ provider[i] = {"CREATED"}
  /\ provider' = [provider EXCEPT ![i] = @ \cup {"EXPIRED"}]

(* What a request to end a payment may make of it: an open one ends so, or *)
(* it stays as it is.                                                      *)
Ended(i, end) ==
  {provider[i], IF provider[i] = {"CREATED"} THEN {"CREATED", end} ELSE provider[i]}

(* What a status query answers now: payment beats expiry and cancellation. *)
AnswerOf(facts) ==
  IF "PAID" \in facts THEN "PAID"
  ELSE IF "CANCELLED" \in facts THEN "CANCELLED"
  ELSE IF "EXPIRED" \in facts THEN "EXPIRED" ELSE "PENDING"

Answer(i) == AnswerOf(provider[i])
=============================================================================
