------------------------- MODULE ProviderCallbacks -------------------------
(***************************************************************************)
(* application.CallbackService and jobs.CallbackWorker: the durable        *)
(* acceptance of a provider event, its processing in one transaction that  *)
(* locks the event and the intent, the effects that run on connections of  *)
(* their own (before and after the commit), the outbox row that retries    *)
(* it, admin replay, and the loss of a process between any two steps.      *)
(*                                                                         *)
(* Processing states PROCESSING and FAILED are written only inside a       *)
(* transaction that overwrites or rolls them back, so no other connection  *)
(* ever reads them: the committed states are the ones of EventState.       *)
(***************************************************************************)
EXTENDS PaymentRows

CONSTANTS
  Events,           \* canonical event identities (provider, scope, mode, id)
  IngressHandlers,  \* HTTP goroutines serving a provider callback
  ReplayHandlers,   \* HTTP goroutines serving an admin replay
  Workers,          \* processes polling the provider_callback.process outbox
  Crashable,        \* the handlers whose process may die
  LeftOpen,         \* the open states a checkout leaves its intents in
  MaxFaults         \* bound on crashes and failed database calls

Handlers == IngressHandlers \cup ReplayHandlers \cup Workers

ASSUME CallbackAssumption ==
  /\ Events # {}
  /\ Crashable \subseteq Handlers
  /\ LeftOpen \subseteq OpenStatus
  /\ MaxFaults \in Nat

VARIABLES
  event,    \* payment_provider_events
  outbox,   \* outbox_events.status of the event's row
  handler,  \* what each handler is doing and for which event
  faults    \* crashes and failed calls so far

callbackVars == <<event, outbox, handler, faults>>

EventType  == {"PAID", "EXPIRED", "CANCELLED", "REVERSAL", "PENDING"}
EndOrPending == {"EXPIRED", "CANCELLED", "PENDING"}     \* faulty: anything but paid
UnpaidEnd  == {"EXPIRED", "CANCELLED"}
EventState == {"NONE", "ACCEPTED", "PROCESSED", "QUARANTINED"}
EventRow   == [state : EventState, intent : Intents, type : EventType, matches : BOOLEAN]
Outbox     == {"none", "pending", "processing", "completed", "failed"}
Step       == {"idle", "process", "enqueue_webhook", "release_holds", "commit",
               "ledger", "fulfil", "finish", "finish_failed"}

CallbacksTypeOK ==
  /\ event \in [Events -> EventRow]
  /\ outbox \in [Events -> Outbox]
  /\ handler \in [Handlers -> [at : Step, for : Events]]
  /\ faults \in 0..MaxFaults

InTransaction(p) == handler[p].at \in {"enqueue_webhook", "release_holds", "commit"}
EventLocked(e)   == \E p \in Handlers : InTransaction(p) /\ handler[p].for = e
Subject(p)       == event[handler[p].for].intent

Idle        == [at |-> "idle", for |-> CHOOSE e \in Events : TRUE]
GoIdle(p)   == handler' = [handler EXCEPT ![p] = Idle]
Goto(p, at) == handler' = [handler EXCEPT ![p] = [@ EXCEPT !.at = at]]
Start(p, e) == handler' = [handler EXCEPT ![p] = [at |-> "process", for |-> e]]

SetState(e, s) == event' = [event EXCEPT ![e] = [@ EXCEPT !.state = s]]

(***************************************************************************)
(* What an authentic event may say (external): PAID only of a paid intent  *)
(* for its amount, EXPIRED (which stands for FAILED as well) or CANCELLED  *)
(* only of one that did end so, REVERSAL only after payment.               *)
(* An event that does not match - no intent, ambiguous scope, amount or    *)
(* currency differ - may say anything.                                     *)
(***************************************************************************)
Authentic(r) ==
  \/ ~r.matches
  \/ r.type \in {"PAID", "REVERSAL"} /\ Paid(r.intent)
  \/ r.type \in UnpaidEnd /\ r.type \in provider[r.intent]
  \/ r.type = "PENDING" /\ "CREATED" \in provider[r.intent]

----------------------------------------------------------------------------
(* Acceptance, claim and replay: how a handler gets an event to process.   *)

EnqueueNothing(e) == UNCHANGED outbox    \* faulty: the insert relies on this handler
Enqueue(e)        == outbox' = [outbox EXCEPT ![e] = "pending"]

(* The event row and its outbox row are inserted in one transaction. *)
AcceptNew(p, e, r) ==
  /\ p \in IngressHandlers
  /\ handler[p].at = "idle"
  /\ event[e].state = "NONE"
  /\ Authentic(r)
  /\ event' = [event EXCEPT ![e] = r]
  /\ Enqueue(e)
  /\ Start(p, e)
  /\ UNCHANGED <<provider, rows, locked, faults>>

(* A redelivery conflicts on the canonical key and is processed again. *)
AcceptDuplicate(p, e) ==
  /\ p \in IngressHandlers
  /\ handler[p].at = "idle"
  /\ event[e].state # "NONE"
  /\ Start(p, e)
  /\ UNCHANGED <<provider, rows, locked, event, outbox, faults>>

(* Only pending and failed rows are claimed; a processing row is not. *)
ClaimOutbox(p, e) ==
  /\ p \in Workers
  /\ handler[p].at = "idle"
  /\ outbox[e] \in {"pending", "failed"}
  /\ outbox' = [outbox EXCEPT ![e] = "processing"]
  /\ Start(p, e)
  /\ UNCHANGED <<provider, rows, locked, event, faults>>

(* The reset commits on its own, whatever the state of the event was. *)
ReplayInbound(p, e) ==
  /\ p \in ReplayHandlers
  /\ handler[p].at = "idle"
  /\ event[e].state # "NONE"
  /\ ~EventLocked(e)
  /\ SetState(e, "ACCEPTED")
  /\ Start(p, e)
  /\ UNCHANGED <<provider, rows, locked, outbox, faults>>

----------------------------------------------------------------------------
(* ProcessEvent.  LockProviderEvent and the FOR UPDATE read of the intent  *)
(* wait for a transaction that holds them.                                 *)

HasEvent(p) ==
  /\ handler[p].at = "process"
  /\ ~EventLocked(handler[p].for)

(* The committed event and its intent agree in scope, amount and currency. *)
VerifiedNever(e) == TRUE                 \* faulty: nothing is compared
Verified(e)      == event[e].matches

(* What follows the commit: the effects, if the intent reloaded is paid.   *)
AfterCommitAlways(i) == "ledger"         \* faulty: whatever was applied
AfterCommit(i)       == IF pay'[i].status = "PAID" THEN "ledger" ELSE "finish"

RepairNothing(i) == "finish"             \* faulty: PROCESSED is done for good
Repair(i)        == AfterCommit(i)

(* A PROCESSED event re-runs the effects of a paid intent, nothing else;   *)
(* the intent is read without a lock.                                      *)
AlreadyProcessed(p) ==
  /\ HasEvent(p)
  /\ event[handler[p].for].state = "PROCESSED"
  /\ UNCHANGED <<provider, rows, locked, event, outbox, faults>>
  /\ Goto(p, Repair(Subject(p)))

Quarantine(p) ==
  /\ HasEvent(p)
  /\ event[handler[p].for].state # "PROCESSED"
  /\ ~Verified(handler[p].for)
  /\ SetState(handler[p].for, "QUARANTINED")
  /\ Goto(p, "finish")
  /\ UNCHANGED <<provider, rows, locked, outbox, faults>>

Applies(p) ==
  /\ HasEvent(p)
  /\ Unlocked(Subject(p))
  /\ event[handler[p].for].state # "PROCESSED"
  /\ Verified(handler[p].for)

NeedsSettlement(i)     == ~IsPaid(i) \/ settlement[i] = "NONE"
NeedsTerminalOrPaid(i) == pay[i].status \notin TerminalUnpaid   \* faulty: may be PAID
NeedsTerminal(i)       == pay[i].status \notin {"PAID"} \cup TerminalUnpaid

(* Pending and unknown events, reversals of unpaid intents, terminal       *)
(* events after a terminal or paid state, PAID of a settled intent.        *)
ApplyNothing(p) ==
  LET i == Subject(p)  t == event[handler[p].for].type IN
  /\ Applies(p)
  /\ \/ t = "PENDING"
     \/ t = "REVERSAL" /\ ~IsPaid(i)
     \/ t \in UnpaidEnd /\ ~NeedsTerminal(i)
     \/ t = "PAID" /\ ~NeedsSettlement(i)
  /\ SetState(handler[p].for, "PROCESSED")
  /\ UNCHANGED <<provider, rows, locked, outbox, faults>>
  /\ Goto(p, AfterCommit(i))

(* SetFinancialState(PROVIDER_REVERSAL_HELD); PAID itself is kept. *)
ApplyReversal(p) ==
  LET i == Subject(p) IN
  /\ Applies(p)
  /\ event[handler[p].for].type = "REVERSAL"
  /\ IsPaid(i)
  /\ pay' = [pay EXCEPT ![i] = [@ EXCEPT !.held = TRUE]]
  /\ SetState(handler[p].for, "PROCESSED")
  /\ UNCHANGED <<provider, order, settlement, effects, locked, outbox, faults>>
  /\ Goto(p, AfterCommit(i))

(* The rows are locked; the statements of the transaction become visible   *)
(* at CommitPaid or CommitTerminal.                                        *)
BeginPaid(p) ==
  /\ Applies(p)
  /\ event[handler[p].for].type = "PAID"
  /\ NeedsSettlement(Subject(p))
  /\ locked' = locked \cup {Subject(p)}
  /\ Goto(p, IF settlement[Subject(p)] = "NONE" THEN "enqueue_webhook" ELSE "commit")
  /\ UNCHANGED <<provider, rows, event, outbox, faults>>

BeginTerminal(p) ==
  /\ Applies(p)
  /\ event[handler[p].for].type \in UnpaidEnd
  /\ NeedsTerminal(Subject(p))
  /\ locked' = locked \cup {Subject(p)}
  /\ Goto(p, "release_holds")
  /\ UNCHANGED <<provider, rows, event, outbox, faults>>

(* WebhookService and the Inventory and Coupon services take their own     *)
(* connection: what they write is committed before the outer transaction.  *)
EnqueueSellerWebhook(p) ==
  /\ handler[p].at = "enqueue_webhook"
  /\ Perform(Subject(p), "SELLER_WEBHOOK")
  /\ Goto(p, "commit")
  /\ UNCHANGED <<provider, pay, order, settlement, locked, event, outbox, faults>>

ReleaseHolds(p) ==
  /\ handler[p].at = "release_holds"
  /\ ReleaseReservations(Subject(p))
  /\ Goto(p, "commit")
  /\ UNCHANGED <<provider, pay, order, settlement, locked, event, outbox, faults>>

NeverLate(i) == FALSE                    \* faulty: the preceding status is lost
Late(i)      == pay[i].status \in TerminalUnpaid

SettledOnTime(i)   == IF settlement[i] = "NONE" THEN "ON_TIME" ELSE settlement[i]  \* faulty
SettledUpserted(i) == IF Late(i) THEN "LATE" ELSE "ON_TIME"                        \* faulty
Settled(i) ==
  IF settlement[i] # "NONE" THEN settlement[i] ELSE IF Late(i) THEN "LATE" ELSE "ON_TIME"

(* finalizePaid: MarkPaymentPaid and MarkOrderPaid unless the intent is    *)
(* already paid, then the settlement, unless its journal reference exists. *)
CommitPaid(p) ==
  LET i == Subject(p) IN
  /\ handler[p].at = "commit"
  /\ event[handler[p].for].type = "PAID"
  /\ \/ /\ IsPaid(i)
        /\ UNCHANGED <<pay, order>>
     \/ /\ ~IsPaid(i)
        /\ pay' = [pay EXCEPT ![i] = [@ EXCEPT !.status = "PAID", !.unknownOp = "NONE",
                                               !.paidLate = Late(i)]]
        /\ order' = [order EXCEPT ![i] = "PAID"]
  /\ settlement' = [settlement EXCEPT ![i] = Settled(i)]
  /\ SetState(handler[p].for, "PROCESSED")
  /\ locked' = locked \ {i}
  /\ Goto(p, "ledger")
  /\ UNCHANGED <<provider, effects, outbox, faults>>

(* MarkPaymentTerminal, whose WHERE repeats what BeginTerminal saw under   *)
(* the lock, and MarkOrderTerminal unless the order is paid.               *)
CommitTerminal(p) ==
  LET i == Subject(p)  t == event[handler[p].for].type IN
  /\ handler[p].at = "commit"
  /\ t \in UnpaidEnd
  /\ pay' = [pay EXCEPT ![i] = [@ EXCEPT !.status = t]]
  /\ order' = [order EXCEPT ![i] = IF @ = "PAID" THEN @ ELSE t]
  /\ SetState(handler[p].for, "PROCESSED")
  /\ locked' = locked \ {i}
  /\ Goto(p, "finish")
  /\ UNCHANGED <<provider, settlement, effects, outbox, faults>>

(* A failed statement or commit undoes the rows, not the other connections. *)
Rollback(p) ==
  /\ handler[p].at = "process" \/ InTransaction(p)
  /\ faults < MaxFaults
  /\ faults' = faults + 1
  /\ locked' = IF InTransaction(p) THEN locked \ {Subject(p)} ELSE locked
  /\ Goto(p, "finish_failed")
  /\ UNCHANGED <<provider, rows, event, outbox>>

----------------------------------------------------------------------------
(* After the commit: postLedgerForPaid, then sideEffectsPaid.  Both are    *)
(* idempotent and both only log an error.                                  *)

PostLedger(p) ==
  /\ handler[p].at = "ledger"
  /\ Perform(Subject(p), "LEDGER")
  /\ Goto(p, "fulfil")
  /\ UNCHANGED <<provider, pay, order, settlement, locked, event, outbox, faults>>

FulfilPaid(p) ==
  /\ handler[p].at = "fulfil"
  /\ Perform(Subject(p), "FULFILLED")
  /\ Goto(p, "finish")
  /\ UNCHANGED <<provider, pay, order, settlement, locked, event, outbox, faults>>

(* The error of an effect is swallowed and the handler goes on. *)
EffectFails(p) ==
  /\ faults < MaxFaults
  /\ faults' = faults + 1
  /\ \/ handler[p].at \in {"enqueue_webhook", "release_holds"} /\ Goto(p, "commit")
     \/ handler[p].at = "ledger" /\ Goto(p, "fulfil")
     \/ handler[p].at = "fulfil" /\ Goto(p, "finish")
  /\ UNCHANGED <<provider, rows, locked, event, outbox>>

RowAfterRetry(at) == IF at = "finish" THEN "completed" ELSE "retry"   \* faulty: no such status
RowAfter(at)      == IF at = "finish" THEN "completed" ELSE "failed"

(* A worker closes its outbox row; an ingress handler answers 200 anyway. *)
Finish(p) ==
  /\ handler[p].at \in {"finish", "finish_failed"}
  /\ outbox' = IF p \notin Workers THEN outbox
               ELSE [outbox EXCEPT ![handler[p].for] = RowAfter(handler[p].at)]
  /\ GoIdle(p)
  /\ UNCHANGED <<provider, rows, locked, event, faults>>

(* The process dies: its transaction rolls back, its outbox row stays.     *)
Crash(p) ==
  /\ p \in Crashable
  /\ handler[p].at # "idle"
  /\ faults < MaxFaults
  /\ faults' = faults + 1
  /\ locked' = IF InTransaction(p) THEN locked \ {Subject(p)} ELSE locked
  /\ GoIdle(p)
  /\ UNCHANGED <<provider, rows, event, outbox>>

----------------------------------------------------------------------------
ProcessEvent(p) ==
  \/ AlreadyProcessed(p) \/ Quarantine(p) \/ ApplyNothing(p) \/ ApplyReversal(p)
  \/ BeginPaid(p) \/ BeginTerminal(p)
  \/ EnqueueSellerWebhook(p) \/ ReleaseHolds(p)
  \/ CommitPaid(p) \/ CommitTerminal(p)
  \/ PostLedger(p) \/ FulfilPaid(p) \/ Finish(p)

(* Nothing reads the type of an event that does not match: the one that    *)
(* could do most harm stands for all.                                      *)
Deliver(p) ==
  \E e \in Events :
    \/ \E i \in Intents, t \in EventType, m \in BOOLEAN :
         /\ m \/ t = "PAID"
         /\ AcceptNew(p, e, [state |-> "ACCEPTED", intent |-> i, type |-> t, matches |-> m])
    \/ AcceptDuplicate(p, e)

CallbackStep ==
  \E p \in Handlers :
    \/ Deliver(p)
    \/ \E e \in Events : ClaimOutbox(p, e) \/ ReplayInbound(p, e)
    \/ ProcessEvent(p) \/ Rollback(p) \/ EffectFails(p) \/ Crash(p)

NoEvent ==
  [state |-> "NONE", intent |-> CHOOSE i \in Intents : TRUE, type |-> "PENDING", matches |-> FALSE]

CallbacksInit ==
  /\ event = [e \in Events |-> NoEvent]
  /\ outbox = [e \in Events |-> "none"]
  /\ handler = [p \in Handlers |-> Idle]
  /\ faults = 0

----------------------------------------------------------------------------
(* The callback path on its own: intents a checkout has left open, and no  *)
(* checkout request or job running any more.  PaymentSystem adds those.    *)

vars == <<provider, rows, locked, callbackVars>>

Init ==
  /\ provider = [i \in Intents |-> {"CREATED"}]
  /\ pay \in [Intents -> [source : {"STOREFRONT"}, status : LeftOpen, hasRef : {TRUE},
                          unknownOp : {"NONE"}, paidLate : {FALSE}, held : {FALSE}]]
  /\ order = [i \in Intents |-> "PENDING"]
  /\ settlement = [i \in Intents |-> "NONE"]
  /\ effects = [i \in Intents |-> {}]
  /\ locked = {}
  /\ CallbacksInit

ProviderStep ==
  /\ \E i \in Intents : CustomerPays(i) \/ ProviderExpires(i)
  /\ UNCHANGED <<rows, locked, callbackVars>>

Next == CallbackStep \/ ProviderStep

(***************************************************************************)
(* A goroutine runs on unless its process dies; PostgreSQL grants a row    *)
(* lock to a waiter in turn; the poll query takes rows oldest first, so a  *)
(* row that stays claimable is claimed.  Nothing forces the provider to    *)
(* redeliver, an administrator to replay, or a call to fail.               *)
(***************************************************************************)
Fairness ==
  /\ \A p \in Handlers : SF_vars(ProcessEvent(p))
  /\ \A p \in Workers, e \in Events : SF_vars(ClaimOutbox(p, e))

Spec == Init /\ [][Next]_vars /\ Fairness

----------------------------------------------------------------------------
(* Properties *)

(* Every row and every handler has its type. *)
TypeOK == RowsTypeOK /\ CallbacksTypeOK

(* Nothing of a sale - PAID status, settlement, capture journal, seller    *)
(* webhook, delivery - exists for an intent whose money the provider does  *)
(* not have: processing quarantines what does not match, and effects run   *)
(* only for a paid intent (ProcessEvent, finalizePaid).                    *)
SaleNeedsPayment ==
  \A i \in Intents :
    \/ Paid(i)
    \/ /\ ~IsPaid(i) /\ order[i] # "PAID" /\ settlement[i] = "NONE"
       /\ effects[i] \cap {"SELLER_WEBHOOK", "LEDGER", "FULFILLED"} = {}

(* Between transactions the three rows of a payment tell one story: paid   *)
(* intent, paid order and one settlement, late exactly when the intent is  *)
(* flagged paid_late (finalizePaid, InsertSettlement).                     *)
RowsAgree ==
  \A i \in Intents :
    /\ IsPaid(i) <=> order[i] = "PAID"
    /\ IsPaid(i) <=> settlement[i] # "NONE"
    /\ pay[i].paidLate <=> settlement[i] = "LATE"

(* The capture journal and the delivery come after the settlement is       *)
(* durable (comment above postLedgerForPaid).                              *)
EffectsFollowSettlement ==
  \A i \in Intents : Has(i, "LEDGER") \/ Has(i, "FULFILLED") => settlement[i] # "NONE"

(* PAID is never left, neither by the intent nor by its order, and a       *)
(* settlement is never rewritten ("Never move PAID backward").             *)
PaidIsFinal ==
  [][\A i \in Intents :
       /\ IsPaid(i) => pay'[i].status = "PAID"
       /\ order[i] = "PAID" => order'[i] = "PAID"
       /\ settlement[i] # "NONE" => settlement'[i] = settlement[i]]_vars

(* The holds of an intent are given back only when the provider answered   *)
(* that it was not paid (applyNormalized: release only for unpaid terminal)*)
ReleaseNeedsEvidence ==
  \A i \in Intents : Has(i, "HOLDS_RELEASED") => provider[i] # {"CREATED"}

(* An accepted event is eventually processed or quarantined, whichever     *)
(* handler is lost on the way (outbox provider_callback.process).          *)
AcceptedIsResolved ==
  \A e \in Events :
    event[e].state = "ACCEPTED" ~> event[e].state \in {"PROCESSED", "QUARANTINED"}

(* A paid intent eventually has its capture journal and its delivery.      *)
PaidIsBooked ==
  \A i \in Intents : IsPaid(i) ~> Has(i, "LEDGER") /\ Has(i, "FULFILLED")

(***************************************************************************)
(* The callback path implements VerifiedPayment: every step of a handler,  *)
(* crash and retry is one step of it or none.                              *)
(***************************************************************************)
PhaseOf(i) ==
  IF IsPaid(i) THEN "CAPTURED"
  ELSE IF pay[i].status \in TerminalUnpaid THEN "CLOSED_UNPAID" ELSE "OPEN"

Promise == INSTANCE VerifiedPayment WITH
  received <- {i \in Intents : Paid(i)},
  sale <- [i \in Intents |->
             [phase |-> PhaseOf(i), settlement |-> settlement[i],
              booked |-> Has(i, "LEDGER"), delivered |-> Has(i, "FULFILLED")]]

(* A captured sale is captured once, atomically, for received money, and   *)
(* forever (finalizePaid under the row locks of ProcessEvent).             *)
ImplementsVerifiedPayment == Promise!Spec
=============================================================================
