---------------------------- MODULE PaymentProofs ----------------------------
(***************************************************************************)
(* Theorems about the payment core, for every set of intents, events,      *)
(* handlers and operations and every bound on faults.                      *)
(***************************************************************************)
EXTENDS PaymentSystem, TLAPS

(* The resting values are in their types: there is an event and an intent. *)
LEMMA RestingTypes ==
  /\ Idle \in [at : Step, for : Events]
  /\ NoEvent \in EventRow
  /\ Resting \in [at : OpStep, for : Intents, seenStatus : Status, seenOp : Operation]
<1>1. (CHOOSE e \in Events : TRUE) \in Events
  BY CallbackAssumption
<1>2. (CHOOSE i \in Intents : TRUE) \in Intents
  BY IntentAssumption
<1>3. Idle \in [at : Step, for : Events]
  BY <1>1 DEF Idle, Step
<1>4. NoEvent \in EventRow
  BY <1>2 DEF NoEvent, EventRow, EventState, EventType
<1>5. Resting \in [at : OpStep, for : Intents, seenStatus : Status, seenOp : Operation]
  BY <1>2 DEF Resting, OpStep, Status, Operation
<1>6. QED
  BY <1>3, <1>4, <1>5

(* What the statements on payment_intents assign leaves a row of that type. *)
LEMMA PayRowUpdates ==
  ASSUME NEW row \in PayRow, NEW s \in Status, NEW o \in Operation, NEW b \in BOOLEAN
  PROVE  /\ [row EXCEPT !.status = s] \in PayRow
         /\ \A x \in Source : [row EXCEPT !.source = x, !.status = s] \in PayRow
         /\ [row EXCEPT !.status = s, !.unknownOp = o] \in PayRow
         /\ [row EXCEPT !.status = s, !.unknownOp = o, !.paidLate = b] \in PayRow
         /\ [row EXCEPT !.status = s, !.hasRef = TRUE, !.unknownOp = o] \in PayRow
  BY DEF PayRow

LEMMA TypeInit == Init => TypeOK
<1>1. SUFFICES ASSUME Init PROVE TypeOK
  OBVIOUS
<1>2. RowsTypeOK
  BY <1>1, CallbackAssumption DEF Init, RowsTypeOK, PayRow, Source, Status, OpenStatus, OrderStatus, Operation,
     Settlement, Effect, Fact
<1>3. CallbacksTypeOK
  BY <1>1, RestingTypes, CallbackAssumption DEF Init, CallbacksInit, CallbacksTypeOK, Outbox
<1>4. QED
  BY <1>2, <1>3 DEF TypeOK

(* A handler that moves keeps its event; one that starts takes one.        *)
LEMMA HandlerTypes ==
  ASSUME CallbacksTypeOK, NEW p \in Handlers
  PROVE  /\ \A at \in Step : Goto(p, at) => handler' \in [Handlers -> [at : Step, for : Events]]
         /\ \A e \in Events : Start(p, e) => handler' \in [Handlers -> [at : Step, for : Events]]
         /\ GoIdle(p) => handler' \in [Handlers -> [at : Step, for : Events]]
         /\ handler[p].for \in Events
         /\ Subject(p) \in Intents
<1>1. /\ handler \in [Handlers -> [at : Step, for : Events]]
      /\ event \in [Events -> EventRow]
  BY DEF CallbacksTypeOK
<1>2. \A at \in Step : Goto(p, at) => handler' \in [Handlers -> [at : Step, for : Events]]
  BY <1>1 DEF Goto
<1>3. \A e \in Events : Start(p, e) => handler' \in [Handlers -> [at : Step, for : Events]]
  BY <1>1 DEF Start, Step
<1>4. GoIdle(p) => handler' \in [Handlers -> [at : Step, for : Events]]
  BY <1>1, RestingTypes DEF GoIdle
<1>5. handler[p].for \in Events /\ Subject(p) \in Intents
  BY <1>1 DEF Subject, EventRow
<1>6. QED
  BY <1>2, <1>3, <1>4, <1>5

LEMMA AcceptanceType ==
  ASSUME TypeOK, NEW p \in Handlers, NEW e \in Events,
         \/ \E r \in EventRow : AcceptNew(p, e, r)
         \/ AcceptDuplicate(p, e) \/ ClaimOutbox(p, e) \/ ReplayInbound(p, e)
  PROVE  TypeOK'
<1> USE DEF TypeOK, CallbacksTypeOK, RowsTypeOK, rows
<1>0. Start(p, e) => handler' \in [Handlers -> [at : Step, for : Events]]
  BY HandlerTypes
<1>1. CASE \E r \in EventRow : AcceptNew(p, e, r)
  BY <1>0, <1>1 DEF AcceptNew, Enqueue, Outbox
<1>2. CASE AcceptDuplicate(p, e)
  BY <1>0, <1>2 DEF AcceptDuplicate
<1>3. CASE ClaimOutbox(p, e)
  BY <1>0, <1>3 DEF ClaimOutbox, Outbox
<1>4. CASE ReplayInbound(p, e)
  BY <1>0, <1>4 DEF ReplayInbound, SetState, EventRow, EventState
<1>5. QED
  BY <1>1, <1>2, <1>3, <1>4

LEMMA ProcessingType ==
  ASSUME TypeOK, NEW p \in Handlers, ProcessEvent(p)
  PROVE  TypeOK'
<1> USE DEF TypeOK, CallbacksTypeOK, RowsTypeOK, rows
<1>0. /\ handler[p].for \in Events /\ Subject(p) \in Intents
      /\ \A at \in Step : Goto(p, at) => handler' \in [Handlers -> [at : Step, for : Events]]
      /\ GoIdle(p) => handler' \in [Handlers -> [at : Step, for : Events]]
  BY HandlerTypes
<1>1. \A s \in EventState : SetState(handler[p].for, s) => event' \in [Events -> EventRow]
  BY <1>0 DEF SetState, EventRow
<1>2. \A x \in Effect : Perform(Subject(p), x) => effects' \in [Intents -> SUBSET Effect]
  BY <1>0 DEF Perform
<1>3. AfterCommit(Subject(p)) \in Step
  BY DEF AfterCommit, Step
<1>4. CASE AlreadyProcessed(p)
  BY <1>0, <1>3, <1>4 DEF AlreadyProcessed, Repair
<1>5. CASE Quarantine(p)
  BY <1>0, <1>1, <1>5 DEF Quarantine, EventState, Step
<1>6. CASE ApplyNothing(p)
  BY <1>0, <1>1, <1>3, <1>6 DEF ApplyNothing, EventState
<1>7. CASE ApplyReversal(p)
  <2>1. pay' \in [Intents -> PayRow]
    BY <1>0, <1>7 DEF ApplyReversal, PayRow
  <2>2. event' \in [Events -> EventRow] /\ handler' \in [Handlers -> [at : Step, for : Events]]
    BY <1>0, <1>1, <1>3, <1>7 DEF ApplyReversal, EventState
  <2>3. QED
    BY <1>7, <2>1, <2>2 DEF ApplyReversal
<1>8. CASE BeginPaid(p)
  BY <1>0, <1>8 DEF BeginPaid, Step
<1>9. CASE BeginTerminal(p)
  BY <1>0, <1>9 DEF BeginTerminal, Step
<1>10. CASE EnqueueSellerWebhook(p)
  BY <1>0, <1>2, <1>10 DEF EnqueueSellerWebhook, Effect, Step
<1>11. CASE ReleaseHolds(p)
  BY <1>0, <1>2, <1>11 DEF ReleaseHolds, ReleaseReservations, Effect, Step
<1>12. CASE CommitPaid(p)
  <2> DEFINE paid == [pay[Subject(p)] EXCEPT !.status = "PAID", !.unknownOp = "NONE",
                                            !.paidLate = Late(Subject(p))]
  <2>a. Late(Subject(p)) \in BOOLEAN
    BY DEF Late
  <2>b. paid \in PayRow
    BY <1>0, <2>a, PayRowUpdates DEF Status, Operation
  <2>1. pay' \in [Intents -> PayRow] /\ order' \in [Intents -> OrderStatus]
    <3>1. pay' = pay \/ pay' = [pay EXCEPT ![Subject(p)] = paid]
      BY <1>12 DEF CommitPaid
    <3>2. order' = order \/ order' = [order EXCEPT ![Subject(p)] = "PAID"]
      BY <1>12 DEF CommitPaid
    <3>3. QED
      BY <1>0, <2>b, <3>1, <3>2 DEF OrderStatus
  <2>2. settlement' \in [Intents -> Settlement]
    BY <1>0, <1>12 DEF CommitPaid, Settlement, Settled
  <2>3. event' \in [Events -> EventRow] /\ handler' \in [Handlers -> [at : Step, for : Events]]
    BY <1>0, <1>1, <1>12 DEF CommitPaid, EventState, Step
  <2>4. QED
    BY <1>12, <2>1, <2>2, <2>3 DEF CommitPaid
<1>13. CASE CommitTerminal(p)
  <2>1. pay' \in [Intents -> PayRow] /\ order' \in [Intents -> OrderStatus]
    BY <1>0, <1>13 DEF CommitTerminal, UnpaidEnd, PayRow, Status, TerminalUnpaid, OrderStatus
  <2>2. event' \in [Events -> EventRow] /\ handler' \in [Handlers -> [at : Step, for : Events]]
    BY <1>0, <1>1, <1>13 DEF CommitTerminal, EventState, Step
  <2>3. QED
    BY <1>13, <2>1, <2>2 DEF CommitTerminal
<1>14. CASE PostLedger(p)
  BY <1>0, <1>2, <1>14 DEF PostLedger, Effect, Step
<1>15. CASE FulfilPaid(p)
  BY <1>0, <1>2, <1>15 DEF FulfilPaid, Effect, Step
<1>16. CASE Finish(p)
  BY <1>0, <1>16 DEF Finish, RowAfter, Outbox
<1>17. QED
  BY <1>4, <1>5, <1>6, <1>7, <1>8, <1>9, <1>10, <1>11, <1>12, <1>13, <1>14, <1>15, <1>16
     DEF ProcessEvent

LEMMA FaultType ==
  ASSUME TypeOK, NEW p \in Handlers, Rollback(p) \/ EffectFails(p) \/ Crash(p)
  PROVE  TypeOK'
<1> USE DEF TypeOK, CallbacksTypeOK, RowsTypeOK, rows
<1>0. /\ \A at \in Step : Goto(p, at) => handler' \in [Handlers -> [at : Step, for : Events]]
      /\ GoIdle(p) => handler' \in [Handlers -> [at : Step, for : Events]]
  BY HandlerTypes
<1>1. faults' \in 0..MaxFaults
  BY CallbackAssumption DEF Rollback, EffectFails, Crash
<1>2. CASE Rollback(p)
  BY <1>0, <1>1, <1>2 DEF Rollback, Step
<1>3. CASE EffectFails(p)
  BY <1>0, <1>1, <1>3 DEF EffectFails, Step
<1>4. CASE Crash(p)
  BY <1>0, <1>1, <1>4 DEF Crash
<1>5. QED
  BY <1>2, <1>3, <1>4

LEMMA CallbackStepType == TypeOK /\ CallbackStep => TypeOK'
<1>1. SUFFICES ASSUME TypeOK, CallbackStep PROVE TypeOK'
  OBVIOUS
<1>2. PICK p \in Handlers :
        \/ Deliver(p)
        \/ \E e \in Events : ClaimOutbox(p, e) \/ ReplayInbound(p, e)
        \/ ProcessEvent(p) \/ Rollback(p) \/ EffectFails(p) \/ Crash(p)
  BY <1>1 DEF CallbackStep
<1>3. CASE Deliver(p)
  <2>1. PICK e \in Events :
          \/ \E i \in Intents, t \in EventType, m \in BOOLEAN :
               AcceptNew(p, e, [state |-> "ACCEPTED", intent |-> i, type |-> t, matches |-> m])
          \/ AcceptDuplicate(p, e)
    BY <1>3 DEF Deliver
  <2>2. \A i \in Intents, t \in EventType, m \in BOOLEAN :
          [state |-> "ACCEPTED", intent |-> i, type |-> t, matches |-> m] \in EventRow
    BY DEF EventRow, EventState
  <2>3. QED
    BY <1>1, <2>1, <2>2, AcceptanceType
<1>4. CASE \E e \in Events : ClaimOutbox(p, e) \/ ReplayInbound(p, e)
  BY <1>1, <1>4, AcceptanceType
<1>5. CASE ProcessEvent(p)
  BY <1>1, <1>5, ProcessingType
<1>6. CASE Rollback(p) \/ EffectFails(p) \/ Crash(p)
  BY <1>1, <1>6, FaultType
<1>7. QED
  BY <1>2, <1>3, <1>4, <1>5, <1>6

LEMMA ProviderStepType == TypeOK /\ ProviderStep => TypeOK'
<1>1. SUFFICES ASSUME TypeOK, ProviderStep PROVE TypeOK'
  OBVIOUS
<1>2. PICK i \in Intents : CustomerPays(i) \/ ProviderExpires(i)
  BY <1>1 DEF ProviderStep
<1>3. provider' \in [Intents -> SUBSET Fact]
  BY <1>1, <1>2 DEF TypeOK, RowsTypeOK, CustomerPays, ProviderExpires, Fact
<1>4. QED
  BY <1>1, <1>3 DEF ProviderStep, TypeOK, RowsTypeOK, CallbacksTypeOK, rows, callbackVars

(* Every row and handler of the callback path keeps its type, whatever is  *)
(* delivered, replayed, retried, rolled back or lost.                      *)
THEOREM CallbackTypes == Spec => []TypeOK
<1>1. Init => TypeOK
  BY TypeInit
<1>2. TypeOK /\ [Next]_vars => TypeOK'
  <2>1. TypeOK /\ UNCHANGED vars => TypeOK'
    BY DEF vars, rows, callbackVars, TypeOK, RowsTypeOK, CallbacksTypeOK
  <2>2. QED
    BY <2>1, CallbackStepType, ProviderStepType DEF Next
<1>3. QED
  BY <1>1, <1>2, PTL DEF Spec

----------------------------------------------------------------------------
(* An operation that moves keeps its intent; one that starts takes one.    *)
LEMMA OperationTypes ==
  ASSUME CheckoutTypeOK, NEW q \in Operations
  PROVE  /\ \A s \in OpStep : Move(q, s) => CheckoutTypeOK'
         /\ \A i \in Intents, s \in OpStep : Enter(q, i, s) => CheckoutTypeOK'
         /\ Row(q) \in Intents
<1>1. \A i \in Intents, s \in OpStep : Enter(q, i, s) => CheckoutTypeOK'
  BY DEF CheckoutTypeOK, Enter, Status, Operation
<1>2. Row(q) \in Intents
  BY DEF CheckoutTypeOK, Row
<1>3. \A s \in OpStep : Move(q, s) => CheckoutTypeOK'
  BY <1>1, <1>2, RestingTypes DEF CheckoutTypeOK, Move
<1>4. QED
  BY <1>1, <1>2, <1>3

(* What a statement of an operation writes has its type.                   *)
LEMMA RowWrites ==
  ASSUME RowsTypeOK, NEW i \in Intents
  PROVE  /\ \A s \in Status, o \in Operation :
              ForceStatus(i, s, o) => pay' \in [Intents -> PayRow]
         /\ \A s \in OrderStatus : UpdateOrderStatus(i, s) => order' \in [Intents -> OrderStatus]
         /\ ReleaseReservations(i) => effects' \in [Intents -> SUBSET Effect]
         /\ \A s \in Status :
              /\ [pay EXCEPT ![i] = [@ EXCEPT !.status = s]] \in [Intents -> PayRow]
              /\ \A x \in Source :
                   [pay EXCEPT ![i] = [@ EXCEPT !.source = x, !.status = s]]
                     \in [Intents -> PayRow]
<1>1. /\ pay \in [Intents -> PayRow] /\ order \in [Intents -> OrderStatus]
      /\ effects \in [Intents -> SUBSET Effect]
  BY DEF RowsTypeOK
<1>2. ASSUME NEW s \in Status, NEW o \in Operation, ForceStatus(i, s, o)
      PROVE  pay' \in [Intents -> PayRow]
  <2>1. [pay[i] EXCEPT !.status = s, !.unknownOp = o] \in PayRow
    BY <1>1, PayRowUpdates
  <2>2. pay' = [pay EXCEPT ![i] = [pay[i] EXCEPT !.status = s, !.unknownOp = o]]
    BY <1>2 DEF ForceStatus
  <2>3. QED
    BY <1>1, <2>1, <2>2
<1>3. \A s \in OrderStatus : UpdateOrderStatus(i, s) => order' \in [Intents -> OrderStatus]
  BY <1>1 DEF UpdateOrderStatus
<1>4. ReleaseReservations(i) => effects' \in [Intents -> SUBSET Effect]
  BY <1>1 DEF ReleaseReservations, Perform, Effect
<1>5. ASSUME NEW s \in Status
      PROVE  /\ [pay EXCEPT ![i] = [@ EXCEPT !.status = s]] \in [Intents -> PayRow]
             /\ \A x \in Source :
                  [pay EXCEPT ![i] = [@ EXCEPT !.source = x, !.status = s]]
                    \in [Intents -> PayRow]
  BY <1>1, PayRowUpdates DEF Operation
<1>6. QED
  BY <1>2, <1>3, <1>4, <1>5

(* A payment that is asked to end keeps the facts it had.                  *)
LEMMA EndedFacts ==
  ASSUME provider \in [Intents -> SUBSET Fact], NEW i \in Intents, NEW end \in UnpaidEnd,
         NEW facts \in Ended(i, end)
  PROVE  /\ provider[i] \subseteq facts
         /\ [provider EXCEPT ![i] = facts] \in [Intents -> SUBSET Fact]
         /\ "PAID" \in facts <=> Paid(i)
         /\ provider[i] = {"CREATED"} => facts \subseteq {"CREATED", end}
  BY DEF Ended, UnpaidEnd, Fact, Paid

LEMMA CheckoutStepType ==
  SystemTypeOK /\ CheckoutStep /\ UNCHANGED callbackVars => SystemTypeOK'
<1>1. SUFFICES ASSUME SystemTypeOK, CheckoutStep, UNCHANGED callbackVars PROVE SystemTypeOK'
  OBVIOUS
<1>2. CallbacksTypeOK'
  BY <1>1 DEF SystemTypeOK, CallbacksTypeOK, callbackVars
<1>3. PICK q \in Operations :
        \/ \E i \in Intents : CreateIntent(q, i) \/ RequestExpire(q, i) \/ ClaimLookup(q, i)
        \/ OperationStep(q) \/ WriteFails(q) \/ Abandon(q)
  BY <1>1 DEF CheckoutStep
<1> USE DEF RowsTypeOK, rows
<1>4. /\ Row(q) \in Intents
      /\ \A s \in OpStep : Move(q, s) => CheckoutTypeOK'
      /\ \A i \in Intents, s \in OpStep : Enter(q, i, s) => CheckoutTypeOK'
  BY <1>1, OperationTypes DEF SystemTypeOK
<1>5. /\ RowsTypeOK /\ CheckoutTypeOK
      /\ \A i \in Intents : pay[i] \in PayRow
  BY <1>1 DEF SystemTypeOK
<1>6. \A i \in Intents, s \in Status, o \in Operation :
        ForceStatus(i, s, o) => pay' \in [Intents -> PayRow]
  BY <1>5, RowWrites
<1>7. \A i \in Intents, s \in OrderStatus :
        UpdateOrderStatus(i, s) => order' \in [Intents -> OrderStatus]
  BY <1>5, RowWrites
<1>8. \A i \in Intents : ReleaseReservations(i) => effects' \in [Intents -> SUBSET Effect]
  BY <1>5, RowWrites
<1>9. \A i \in Intents, s \in Status :
        /\ [pay EXCEPT ![i] = [@ EXCEPT !.status = s]] \in [Intents -> PayRow]
        /\ \A x \in Source :
             [pay EXCEPT ![i] = [@ EXCEPT !.source = x, !.status = s]] \in [Intents -> PayRow]
  BY <1>5, RowWrites
<1> HIDE DEF RowsTypeOK
<1>10. RowsTypeOK' /\ CheckoutTypeOK'
  <2>1. CASE \E i \in Intents : CreateIntent(q, i) \/ RequestExpire(q, i) \/ ClaimLookup(q, i)
    <3>1. PICK i \in Intents : CreateIntent(q, i) \/ RequestExpire(q, i) \/ ClaimLookup(q, i)
      BY <2>1
    <3>2. CASE CreateIntent(q, i)
      BY <1>4, <1>5, <1>7, <1>9, <3>2
         DEF CreateIntent, OpStep, Source, Status, OpenStatus, OrderStatus, RowsTypeOK
    <3>3. CASE RequestExpire(q, i)
      BY <1>4, <1>5, <1>9, <3>3 DEF RequestExpire, OpStep, Status, OpenStatus, RowsTypeOK
    <3>4. CASE ClaimLookup(q, i)
      BY <1>4, <1>5, <3>4 DEF ClaimLookup, OpStep, RowsTypeOK
    <3>5. QED
      BY <3>1, <3>2, <3>3, <3>4
  <2>2. CASE CallCreate(q)
    BY <1>4, <1>5, <2>2 DEF CallCreate, Rejected, OpStep, Fact, RowsTypeOK
  <2>3. CASE ActivateIntent(q)
    <3>1. pay[Row(q)].unknownOp \in Operation
      BY <1>4, <1>5 DEF PayRow
    <3> DEFINE kept == IF pay[Row(q)].status = "REQUIRES_PAYMENT"
                       THEN pay[Row(q)].unknownOp ELSE "NONE"
    <3>a. pay' = [pay EXCEPT ![Row(q)] = [pay[Row(q)] EXCEPT !.status = "PENDING",
                                            !.hasRef = TRUE, !.unknownOp = kept]]
      BY <2>3 DEF ActivateIntent, Row
    <3>b. kept \in Operation
      BY <3>1 DEF Operation
    <3> HIDE DEF kept
    <3>2. [pay[Row(q)] EXCEPT !.status = "PENDING", !.hasRef = TRUE, !.unknownOp = kept] \in PayRow
      BY <1>4, <1>5, <3>b, PayRowUpdates DEF Status, OpenStatus
    <3>4. pay' \in [Intents -> PayRow]
      BY <1>4, <1>5, <3>a, <3>2 DEF RowsTypeOK
    <3>5. QED
      BY <1>4, <1>5, <2>3, <3>4 DEF ActivateIntent, OpStep, RowsTypeOK
  <2>4. CASE CreateUnknown(q) \/ ExpireUnknown(q)
    BY <1>4, <1>5, <1>6, <2>4
       DEF CreateUnknown, ExpireUnknown, OpStep, Status, OpenStatus, Operation, RowsTypeOK
  <2>5. CASE RejectRelease(q) \/ ReleaseExpired(q)
    BY <1>4, <1>5, <1>8, <2>5 DEF RejectRelease, ReleaseExpired, OpStep, RowsTypeOK
  <2>6. CASE RejectForce(q) \/ ForceExpired(q) \/ ForcePending(q) \/ ForcePaid(q)
             \/ ForceCancelled(q)
    BY <1>4, <1>5, <1>6, <2>6 DEF RejectForce, ForceExpired, ForcePending, ForcePaid,
       ForceCancelled, OpStep, Status, OpenStatus, TerminalUnpaid, Operation, RowsTypeOK
  <2>7. CASE RejectOrder(q) \/ ExpireOrder(q) \/ CancelOrder(q)
    BY <1>4, <1>5, <1>7, <2>7 DEF RejectOrder, ExpireOrder, CancelOrder, OpStep, OrderStatus,
       RowsTypeOK
  <2>8. CASE CallExpire(q)
    <3>1. provider' \in [Intents -> SUBSET Fact]
      BY <1>4, <1>5, <2>8, EndedFacts DEF CallExpire, UnpaidEnd, RowsTypeOK
    <3>2. \A facts : ExpireDecision(AnswerOf(facts)) \in OpStep
      BY DEF ExpireDecision, AnswerOf, OpStep
    <3>3. CheckoutTypeOK'
      BY <1>4, <2>8, <3>2 DEF CallExpire, ExpireTimeout, OpStep
    <3>4. QED
      BY <1>5, <2>8, <3>1, <3>3 DEF CallExpire, RowsTypeOK
  <2>9. CASE ReadForLookup(q)
    <3>1. /\ pay[Row(q)].status \in Status /\ pay[Row(q)].unknownOp \in Operation
      BY <1>4, <1>5 DEF PayRow
    <3>2. CheckoutTypeOK'
      BY <1>4, <1>5, <2>9, <3>1 DEF ReadForLookup, CheckoutTypeOK, OpStep
    <3>3. QED
      BY <1>5, <2>9, <3>2 DEF ReadForLookup, RowsTypeOK
  <2>10. CASE CallLookup(q)
    <3>1. LookupDecision(q) \in OpStep
      BY DEF LookupDecision, OpStep
    <3>2. QED
      BY <1>4, <1>5, <2>10, <3>1 DEF CallLookup, OpStep, RowsTypeOK
  <2>11. CASE WriteFails(q) \/ Abandon(q)
    BY <1>4, <1>5, <2>11 DEF WriteFails, Abandon, OpStep, RowsTypeOK
  <2>12. QED
    BY <1>3, <2>1, <2>2, <2>3, <2>4, <2>5, <2>6, <2>7, <2>8, <2>9, <2>10, <2>11
       DEF OperationStep
<1>11. QED
  BY <1>2, <1>10 DEF SystemTypeOK

(* The gateway's own steps keep the types as well.                         *)
LEMMA GatewayStepType ==
  SystemTypeOK /\ GatewayStep /\ UNCHANGED callbackVars => SystemTypeOK'
<1>1. SUFFICES ASSUME SystemTypeOK, GatewayStep, UNCHANGED callbackVars PROVE SystemTypeOK'
  OBVIOUS
<1>2. CallbacksTypeOK'
  BY <1>1 DEF SystemTypeOK, CallbacksTypeOK, callbackVars
<1>3. PICK q \in Operations :
        \/ \E i \in Intents : CreatePayment(q, i) \/ RequestCancel(q, i)
        \/ CancelUnknown(q) \/ CallCancel(q)
  BY <1>1 DEF GatewayStep
<1>4. /\ Row(q) \in Intents
      /\ \A s \in OpStep : Move(q, s) => CheckoutTypeOK'
      /\ \A i \in Intents, s \in OpStep : Enter(q, i, s) => CheckoutTypeOK'
  BY <1>1, OperationTypes DEF SystemTypeOK
<1>5. RowsTypeOK /\ provider \in [Intents -> SUBSET Fact]
  BY <1>1 DEF SystemTypeOK, RowsTypeOK
<1>6. CASE \E i \in Intents : CreatePayment(q, i) \/ RequestCancel(q, i)
  <2>1. PICK i \in Intents : CreatePayment(q, i) \/ RequestCancel(q, i)
    BY <1>6
  <2>2. CASE CreatePayment(q, i)
    <3>1. pay' \in [Intents -> PayRow] /\ order' \in [Intents -> OrderStatus]
      BY <1>5, <2>2, RowWrites
         DEF CreatePayment, Source, Status, OpenStatus, OrderStatus
    <3>2. QED
      BY <1>2, <1>4, <1>5, <2>2, <3>1 DEF CreatePayment, OpStep, RowsTypeOK, SystemTypeOK
  <2>3. CASE RequestCancel(q, i)
    <3>1. pay' \in [Intents -> PayRow]
      BY <1>5, <2>3, RowWrites DEF RequestCancel, Status, OpenStatus
    <3>2. QED
      BY <1>2, <1>4, <1>5, <2>3, <3>1 DEF RequestCancel, OpStep, RowsTypeOK, SystemTypeOK
  <2>4. QED
    BY <2>1, <2>2, <2>3
<1>7. CASE CancelUnknown(q)
  <2>1. pay' \in [Intents -> PayRow]
    BY <1>4, <1>5, <1>7, RowWrites DEF CancelUnknown, Status, OpenStatus, Operation
  <2>2. QED
    BY <1>2, <1>4, <1>5, <1>7, <2>1 DEF CancelUnknown, OpStep, RowsTypeOK, SystemTypeOK
<1>8. CASE CallCancel(q)
  <2>1. provider' \in [Intents -> SUBSET Fact]
    BY <1>4, <1>5, <1>8, EndedFacts DEF CallCancel, UnpaidEnd
  <2>2. \A facts : CancelDecision(AnswerOf(facts)) \in OpStep
    BY DEF CancelDecision, AnswerOf, OpStep
  <2>3. CheckoutTypeOK'
    BY <1>4, <1>8, <2>2 DEF CallCancel, CancelTimeout, OpStep
  <2>4. QED
    BY <1>2, <1>5, <1>8, <2>1, <2>3 DEF CallCancel, RowsTypeOK, rows, SystemTypeOK
<1>9. QED
  BY <1>3, <1>6, <1>7, <1>8

LEMMA SystemTypeInit == SystemInit => SystemTypeOK
<1>1. SUFFICES ASSUME SystemInit PROVE SystemTypeOK
  OBVIOUS
<1>2. RowsTypeOK
  BY <1>1 DEF SystemInit, CheckoutInit, RowsTypeOK, PayRow, Source, Status, OrderStatus, Operation,
     Settlement, Effect, Fact
<1>3. CallbacksTypeOK
  BY <1>1, RestingTypes, CallbackAssumption
     DEF SystemInit, CallbacksInit, CallbacksTypeOK, Outbox
<1>4. CheckoutTypeOK
  BY <1>1, RestingTypes DEF SystemInit, CheckoutInit, CheckoutTypeOK
<1>5. QED
  BY <1>2, <1>3, <1>4 DEF SystemTypeOK

(* A lapse of the holds adds that to the effects and leaves the rest.      *)
OthersKept ==
  \A i \in Intents : \A x \in Effect \ {"HOLDS_LAPSED"} : Has(i, x)' <=> Has(i, x)

LEMMA HoldsEndKeeps ==
  ASSUME SystemTypeOK, HoldsEnd
  PROVE  /\ UNCHANGED <<provider, pay, order, settlement, locked, callbackVars, op>>
         /\ effects' \in [Intents -> SUBSET Effect]
         /\ OthersKept
<1>1. PICK i \in Intents : HoldsLapse(i)
  BY DEF HoldsEnd
<1>2. effects' = [effects EXCEPT ![i] = @ \cup {"HOLDS_LAPSED"}]
  BY <1>1 DEF HoldsLapse, Perform
<1>3. effects \in [Intents -> SUBSET Effect]
  BY DEF SystemTypeOK, RowsTypeOK
<1>4. effects' \in [Intents -> SUBSET Effect]
  BY <1>2, <1>3 DEF Effect
<1>5. OthersKept
  BY <1>2, <1>3 DEF OthersKept, Has
<1>6. QED
  BY <1>1, <1>4, <1>5 DEF HoldsEnd, HoldsLapse

LEMMA SystemTypeStep == SystemTypeOK /\ [SystemNext]_systemVars => SystemTypeOK'
<1>1. SystemTypeOK <=> TypeOK /\ CheckoutTypeOK
  BY DEF SystemTypeOK, TypeOK
<1>2. SystemTypeOK' <=> TypeOK' /\ CheckoutTypeOK'
  BY DEF SystemTypeOK, TypeOK
<1>3. CheckoutTypeOK /\ UNCHANGED op => CheckoutTypeOK'
  BY DEF CheckoutTypeOK
<1>4. SystemTypeOK /\ CallbacksRun => SystemTypeOK'
  BY <1>1, <1>2, <1>3, CallbackStepType DEF CallbacksRun
<1>5. SystemTypeOK /\ CheckoutRuns => SystemTypeOK'
  BY CheckoutStepType DEF CheckoutRuns
<1>6. SystemTypeOK /\ GatewayRuns => SystemTypeOK'
  BY GatewayStepType DEF GatewayRuns
<1>7. SystemTypeOK /\ ProviderActs => SystemTypeOK'
  BY <1>1, <1>2, <1>3, ProviderStepType DEF ProviderActs
<1>8. SystemTypeOK /\ UNCHANGED systemVars => SystemTypeOK'
  BY DEF systemVars, vars, rows, callbackVars, SystemTypeOK, RowsTypeOK, CallbacksTypeOK,
     CheckoutTypeOK
<1>9. SystemTypeOK /\ HoldsEnd => SystemTypeOK'
  <2>1. SUFFICES ASSUME SystemTypeOK, HoldsEnd PROVE SystemTypeOK'
    OBVIOUS
  <2>2. QED
    BY <2>1, HoldsEndKeeps DEF callbackVars, SystemTypeOK, RowsTypeOK, CallbacksTypeOK,
       CheckoutTypeOK
<1>10. QED
  BY <1>4, <1>5, <1>6, <1>7, <1>8, <1>9 DEF SystemNext

(* Callbacks, checkout and gateway operations together keep every type.             *)
THEOREM SystemTypes == SystemSpec => []SystemTypeOK
  BY SystemTypeInit, SystemTypeStep, PTL DEF SystemSpec

----------------------------------------------------------------------------
(* Why a sale needs a payment.  An accepted event says only what is true   *)
(* (or does not match), an event row never changes what it says, and a     *)
(* handler that is about to capture or to run effects holds such an event. *)

EventsAreAuthentic ==
  /\ \A e \in Events : Authentic(event[e])
  /\ \A e \in Events : outbox[e] # "none" => event[e].state # "NONE"

Knows(p) ==
  /\ handler[p].at # "idle" => event[handler[p].for].state # "NONE"
  /\ handler[p].at = "enqueue_webhook" => event[handler[p].for].type = "PAID"
  /\ InTransaction(p) => Verified(handler[p].for)
  /\ handler[p].at \in {"ledger", "fulfil"} => Paid(Subject(p))

Evidence ==
  /\ SaleNeedsPayment
  /\ EventsAreAuthentic
  /\ \A p \in Handlers : Knows(p)

(* What a step keeps: money stays received, an accepted event stays what   *)
(* it is.                                                                  *)
MoneyStays == \A i \in Intents : provider[i] \subseteq provider'[i]
EventsStay ==
  \A e \in Events : event[e].state # "NONE" =>
    /\ event'[e].state # "NONE"
    /\ event'[e].intent = event[e].intent
    /\ event'[e].type = event[e].type
    /\ event'[e].matches = event[e].matches

LEMMA AuthenticStays ==
  ASSUME TypeOK, TypeOK', EventsAreAuthentic, MoneyStays, EventsStay,
         \A e \in Events : event[e].state = "NONE" => event'[e] = event[e] \/ Authentic(event'[e]),
         \A e \in Events : outbox'[e] # "none" => event'[e].state # "NONE"
  PROVE  EventsAreAuthentic'
<1>1. SUFFICES ASSUME NEW e \in Events PROVE Authentic(event[e])'
  BY DEF EventsAreAuthentic
<1>2. event[e].intent \in Intents /\ event'[e].intent \in Intents
  BY DEF TypeOK, CallbacksTypeOK, EventRow
<1>3. Authentic(event[e])
  BY DEF EventsAreAuthentic
<1>4. CASE event'[e].intent = event[e].intent /\ event'[e].type = event[e].type
           /\ event'[e].matches = event[e].matches
  BY <1>2, <1>3, <1>4 DEF Authentic, MoneyStays, Paid
<1>5. CASE event[e].state = "NONE" /\ Authentic(event'[e])
  BY <1>2, <1>5 DEF Authentic, MoneyStays, Paid
<1>6. QED
  BY <1>4, <1>5 DEF EventsStay

LEMMA OthersKnow ==
  ASSUME TypeOK, NEW q \in Handlers, Knows(q), handler'[q] = handler[q], MoneyStays, EventsStay
  PROVE  Knows(q)'
<1>1. handler[q].for \in Events /\ Subject(q) \in Intents
  BY DEF TypeOK, CallbacksTypeOK, EventRow, Subject
<1>2. QED
  BY <1>1 DEF Knows, EventsStay, MoneyStays, Paid, Subject, InTransaction, Verified

LEMMA SaleStays ==
  ASSUME SaleNeedsPayment, MoneyStays,
         \A i \in Intents : pay'[i].status = "PAID" => IsPaid(i) \/ Paid(i),
         \A i \in Intents : order'[i] = "PAID" => order[i] = "PAID" \/ Paid(i),
         \A i \in Intents : settlement'[i] # "NONE" => settlement[i] # "NONE" \/ Paid(i),
         \A i \in Intents : effects'[i] \subseteq effects[i] \cup {"HOLDS_RELEASED"} \/ Paid(i)
  PROVE  SaleNeedsPayment'
<1>1. SUFFICES ASSUME NEW i \in Intents, ~Paid(i)'
               PROVE  /\ ~IsPaid(i)' /\ order'[i] # "PAID" /\ settlement'[i] = "NONE"
                      /\ effects'[i] \cap {"SELLER_WEBHOOK", "LEDGER", "FULFILLED"} = {}
  BY DEF SaleNeedsPayment
<1>2. ~Paid(i)
  BY <1>1 DEF MoneyStays, Paid
<1>3. QED
  BY <1>2 DEF SaleNeedsPayment, IsPaid

LEMMA AcceptanceEvidence ==
  ASSUME TypeOK, TypeOK', Evidence, NEW p \in Handlers, NEW e \in Events,
         \/ \E r \in EventRow : r.state = "ACCEPTED" /\ AcceptNew(p, e, r)
         \/ AcceptDuplicate(p, e) \/ ClaimOutbox(p, e) \/ ReplayInbound(p, e)
  PROVE  Evidence'
<1>1. /\ event \in [Events -> EventRow] /\ outbox \in [Events -> Outbox]
      /\ handler \in [Handlers -> [at : Step, for : Events]]
  BY DEF TypeOK, CallbacksTypeOK
<1>2. /\ handler' = [handler EXCEPT ![p] = [at |-> "process", for |-> e]]
      /\ UNCHANGED <<provider, rows>>
  BY DEF AcceptNew, AcceptDuplicate, ClaimOutbox, ReplayInbound, Start
<1>3. /\ EventsStay
      /\ event'[e].state # "NONE"
      /\ \A x \in Events : event[x].state = "NONE" => event'[x] = event[x] \/ Authentic(event'[x])
      /\ \A x \in Events : outbox'[x] # "none" => event'[x].state # "NONE"
  <2>1. CASE \E r \in EventRow : r.state = "ACCEPTED" /\ AcceptNew(p, e, r)
    <3>1. PICK r \in EventRow : r.state = "ACCEPTED" /\ AcceptNew(p, e, r)
      BY <2>1
    <3>2. event' = [event EXCEPT ![e] = r] /\ outbox' = [outbox EXCEPT ![e] = "pending"]
          /\ event[e].state = "NONE" /\ Authentic(r)
      BY <3>1 DEF AcceptNew, Enqueue
    <3>3. QED
      BY <1>1, <3>1, <3>2 DEF EventsStay, Evidence, EventsAreAuthentic
  <2>2. CASE AcceptDuplicate(p, e)
    BY <2>2 DEF AcceptDuplicate, EventsStay, Evidence, EventsAreAuthentic
  <2>3. CASE ClaimOutbox(p, e)
    <3>1. outbox[e] # "none" /\ outbox' = [outbox EXCEPT ![e] = "processing"] /\ event' = event
      BY <2>3 DEF ClaimOutbox
    <3>2. QED
      BY <1>1, <3>1 DEF EventsStay, Evidence, EventsAreAuthentic
  <2>4. CASE ReplayInbound(p, e)
    <3>1. event' = [event EXCEPT ![e] = [event[e] EXCEPT !.state = "ACCEPTED"]]
          /\ outbox' = outbox /\ event[e].state # "NONE"
      BY <2>4 DEF ReplayInbound, SetState
    <3>2. QED
      BY <1>1, <3>1 DEF EventsStay, Evidence, EventsAreAuthentic, EventRow
  <2>5. QED
    BY <2>1, <2>2, <2>3, <2>4
<1>4. MoneyStays
  BY <1>2 DEF MoneyStays
<1>5. EventsAreAuthentic'
  BY <1>3, <1>4, AuthenticStays DEF Evidence
<1>6. SaleNeedsPayment'
  BY <1>2, <1>4, SaleStays DEF Evidence, rows, IsPaid
<1>7. ASSUME NEW q \in Handlers PROVE Knows(q)'
  <2>1. CASE q = p
    BY <1>1, <1>2, <1>3, <2>1 DEF Knows, InTransaction
  <2>2. CASE q # p
    BY <1>1, <1>2, <1>3, <1>4, <2>2, OthersKnow DEF Evidence
  <2>3. QED
    BY <2>1, <2>2
<1>8. QED
  BY <1>5, <1>6, <1>7 DEF Evidence

(* The handler of a processing step: what it leaves behind, by its step.   *)
LEMMA StepEvidence ==
  ASSUME TypeOK, TypeOK', Evidence, NEW p \in Handlers, NEW at \in Step,
         UNCHANGED provider,
         handler' = [handler EXCEPT ![p] = [@ EXCEPT !.at = at]],
         event' = event \/ \E s \in EventState \ {"NONE"} : SetState(handler[p].for, s),
         outbox' = outbox,
         handler[p].at # "idle",
         at = "enqueue_webhook" => event[handler[p].for].type = "PAID",
         at \in {"enqueue_webhook", "release_holds", "commit"} => Verified(handler[p].for),
         at \in {"ledger", "fulfil"} => Paid(Subject(p)),
         SaleNeedsPayment'
  PROVE  Evidence'
<1>1. /\ event \in [Events -> EventRow]
      /\ handler \in [Handlers -> [at : Step, for : Events]]
      /\ handler[p].for \in Events
  BY DEF TypeOK, CallbacksTypeOK
<1>2. event[handler[p].for].state # "NONE"
  BY DEF Evidence, Knows
<1>3. EventsStay
  <2>1. CASE event' = event
    BY <2>1 DEF EventsStay
  <2>2. CASE \E s \in EventState \ {"NONE"} : SetState(handler[p].for, s)
    <3>1. PICK s \in EventState \ {"NONE"} :
            event' = [event EXCEPT ![handler[p].for] = [event[handler[p].for] EXCEPT !.state = s]]
      BY <2>2 DEF SetState
    <3>2. QED
      BY <1>1, <3>1 DEF EventsStay, EventRow
  <2>3. QED
    BY <2>1, <2>2
<1>4. MoneyStays
  BY DEF MoneyStays
<1>5. EventsAreAuthentic'
  <2>1. \A e \in Events : event[e].state = "NONE" => event'[e] = event[e]
    BY <1>1, <1>2 DEF SetState
  <2>2. \A e \in Events : outbox'[e] # "none" => event'[e].state # "NONE"
    BY <1>3 DEF Evidence, EventsAreAuthentic, EventsStay
  <2>3. QED
    BY <1>3, <1>4, <2>1, <2>2, AuthenticStays DEF Evidence
<1>6. ASSUME NEW q \in Handlers PROVE Knows(q)'
  <2>1. CASE q = p
    <3>1. handler'[p].at = at /\ handler'[p].for = handler[p].for
      BY <1>1
    <3>2. QED
      BY <1>1, <1>2, <1>3, <2>1, <3>1
         DEF Knows, InTransaction, EventsStay, Verified, Subject, Paid
  <2>2. CASE q # p
    BY <1>1, <1>3, <1>4, <2>2, OthersKnow DEF Evidence
  <2>3. QED
    BY <2>1, <2>2
<1>7. QED
  BY <1>5, <1>6 DEF Evidence

(* A handler that comes to rest, closing its outbox row or lost.           *)
LEMMA RestEvidence ==
  ASSUME TypeOK, TypeOK', Evidence, NEW p \in Handlers,
         UNCHANGED <<provider, event>>, handler' = [handler EXCEPT ![p] = Idle],
         \A e \in Events : outbox'[e] # "none" => event'[e].state # "NONE",
         SaleNeedsPayment'
  PROVE  Evidence'
<1>1. EventsStay /\ MoneyStays
  BY DEF EventsStay, MoneyStays
<1>2. EventsAreAuthentic'
  BY <1>1, AuthenticStays DEF Evidence
<1>3. ASSUME NEW q \in Handlers PROVE Knows(q)'
  <2>1. handler \in [Handlers -> [at : Step, for : Events]]
    BY DEF TypeOK, CallbacksTypeOK
  <2>2. CASE q = p
    BY <2>1, <2>2 DEF Knows, InTransaction, Idle
  <2>3. CASE q # p
    BY <1>1, <2>1, <2>3, OthersKnow DEF Evidence
  <2>4. QED
    BY <2>2, <2>3
<1>4. QED
  BY <1>2, <1>3 DEF Evidence

(* A verified PAID event is evidence of the money.                         *)
LEMMA PaidEvent ==
  ASSUME TypeOK, Evidence, NEW p \in Handlers,
         event[handler[p].for].type = "PAID", Verified(handler[p].for)
  PROVE  Paid(Subject(p))
<1>1. handler[p].for \in Events
  BY DEF TypeOK, CallbacksTypeOK
<1>2. QED
  BY <1>1 DEF Evidence, EventsAreAuthentic, Authentic, UnpaidEnd, Verified, Subject

LEMMA ProcessingEvidence ==
  ASSUME TypeOK, TypeOK', Evidence, NEW p \in Handlers, ProcessEvent(p)
  PROVE  Evidence'
<1>1. /\ SaleNeedsPayment /\ Knows(p)
      /\ pay \in [Intents -> PayRow] /\ order \in [Intents -> OrderStatus]
      /\ settlement \in [Intents -> Settlement] /\ effects \in [Intents -> SUBSET Effect]
      /\ Subject(p) \in Intents
  BY DEF Evidence, TypeOK, RowsTypeOK, CallbacksTypeOK, EventRow, Subject
<1>2. IsPaid(Subject(p)) => Paid(Subject(p))
  BY <1>1 DEF SaleNeedsPayment
<1>3. UNCHANGED provider => MoneyStays
  BY DEF MoneyStays
<1>4. UNCHANGED <<provider, rows>> => SaleNeedsPayment'
  BY <1>1, <1>3, SaleStays DEF rows, IsPaid
<1>5. CASE AlreadyProcessed(p)
  <2>1. PICK at \in {"ledger", "finish"} :
          /\ handler' = [handler EXCEPT ![p] = [@ EXCEPT !.at = at]]
          /\ at = "ledger" => IsPaid(Subject(p))
    BY <1>5 DEF AlreadyProcessed, Goto, Repair, AfterCommit, IsPaid, rows
  <2>2. /\ UNCHANGED <<provider, rows, event, outbox>>
        /\ handler[p].at = "process"
    BY <1>5 DEF AlreadyProcessed, HasEvent
  <2>3. QED
    BY <1>2, <1>4, <2>1, <2>2, StepEvidence DEF Step
<1>6. CASE Quarantine(p)
  <2>1. /\ handler' = [handler EXCEPT ![p] = [@ EXCEPT !.at = "finish"]]
        /\ UNCHANGED <<provider, rows, outbox>>
        /\ SetState(handler[p].for, "QUARANTINED")
        /\ handler[p].at = "process"
    BY <1>6 DEF Quarantine, HasEvent, Goto
  <2>2. QED
    BY <1>4, <2>1, StepEvidence DEF Step, EventState
<1>7. CASE ApplyNothing(p)
  <2>1. PICK at \in {"ledger", "finish"} :
          /\ handler' = [handler EXCEPT ![p] = [@ EXCEPT !.at = at]]
          /\ at = "ledger" => IsPaid(Subject(p))
    BY <1>7 DEF ApplyNothing, Goto, AfterCommit, IsPaid, rows
  <2>2. /\ UNCHANGED <<provider, rows, outbox>>
        /\ SetState(handler[p].for, "PROCESSED")
        /\ handler[p].at = "process"
    BY <1>7 DEF ApplyNothing, Applies, HasEvent
  <2>3. QED
    BY <1>2, <1>4, <2>1, <2>2, StepEvidence DEF Step, EventState
<1>8. CASE ApplyReversal(p)
  <2>1. PICK at \in {"ledger", "finish"} :
          handler' = [handler EXCEPT ![p] = [@ EXCEPT !.at = at]]
    BY <1>8 DEF ApplyReversal, Goto, AfterCommit
  <2>2. /\ UNCHANGED <<provider, order, settlement, effects, outbox>>
        /\ SetState(handler[p].for, "PROCESSED")
        /\ handler[p].at = "process"
        /\ IsPaid(Subject(p))
    BY <1>8 DEF ApplyReversal, Applies, HasEvent
  <2>3. \A i \in Intents : pay'[i].status = pay[i].status
    BY <1>1, <1>8 DEF ApplyReversal, PayRow
  <2>4. SaleNeedsPayment'
    BY <1>1, <1>3, <2>2, <2>3, SaleStays DEF IsPaid
  <2>5. QED
    BY <1>2, <2>1, <2>2, <2>4, StepEvidence DEF Step, EventState
<1>9. CASE BeginPaid(p)
  <2>1. PICK at \in {"enqueue_webhook", "commit"} :
          handler' = [handler EXCEPT ![p] = [@ EXCEPT !.at = at]]
    BY <1>9 DEF BeginPaid, Goto
  <2>2. /\ UNCHANGED <<provider, rows, event, outbox>>
        /\ handler[p].at = "process"
        /\ event[handler[p].for].type = "PAID" /\ Verified(handler[p].for)
    BY <1>9 DEF BeginPaid, Applies, HasEvent
  <2>3. QED
    BY <1>4, <2>1, <2>2, StepEvidence DEF Step
<1>10. CASE BeginTerminal(p)
  <2>1. /\ handler' = [handler EXCEPT ![p] = [@ EXCEPT !.at = "release_holds"]]
        /\ UNCHANGED <<provider, rows, event, outbox>>
        /\ handler[p].at = "process" /\ Verified(handler[p].for)
    BY <1>10 DEF BeginTerminal, Applies, HasEvent, Goto
  <2>2. QED
    BY <1>4, <2>1, StepEvidence DEF Step
<1>11. CASE EnqueueSellerWebhook(p)
  <2>1. /\ handler' = [handler EXCEPT ![p] = [@ EXCEPT !.at = "commit"]]
        /\ UNCHANGED <<provider, pay, order, settlement, event, outbox>>
        /\ effects' = [effects EXCEPT ![Subject(p)] = @ \cup {"SELLER_WEBHOOK"}]
        /\ handler[p].at = "enqueue_webhook"
    BY <1>11 DEF EnqueueSellerWebhook, Goto, Perform
  <2>2. Verified(handler[p].for) /\ Paid(Subject(p))
    BY <1>1, <2>1, PaidEvent DEF Knows, InTransaction
  <2>3. SaleNeedsPayment'
    BY <1>1, <1>3, <2>1, <2>2, SaleStays DEF IsPaid
  <2>4. QED
    BY <2>1, <2>2, <2>3, StepEvidence DEF Step
<1>12. CASE ReleaseHolds(p)
  <2>1. /\ handler' = [handler EXCEPT ![p] = [@ EXCEPT !.at = "commit"]]
        /\ UNCHANGED <<provider, pay, order, settlement, event, outbox>>
        /\ \A i \in Intents : effects'[i] \subseteq effects[i] \cup {"HOLDS_RELEASED"}
        /\ handler[p].at = "release_holds"
    BY <1>1, <1>12 DEF ReleaseHolds, Goto, ReleaseReservations, Perform
  <2>2. Verified(handler[p].for)
    BY <1>1, <2>1 DEF Knows, InTransaction
  <2>3. SaleNeedsPayment'
    BY <1>1, <1>3, <2>1, SaleStays DEF IsPaid
  <2>4. QED
    BY <2>1, <2>2, <2>3, StepEvidence DEF Step
<1>13. CASE CommitPaid(p)
  <2>1. /\ handler' = [handler EXCEPT ![p] = [@ EXCEPT !.at = "ledger"]]
        /\ UNCHANGED <<provider, effects, outbox>>
        /\ SetState(handler[p].for, "PROCESSED")
        /\ handler[p].at = "commit" /\ event[handler[p].for].type = "PAID"
    BY <1>13 DEF CommitPaid, Goto
  <2>2. Paid(Subject(p))
    BY <1>1, <2>1, PaidEvent DEF Knows, InTransaction
  <2>3. \A i \in Intents \ {Subject(p)} :
          pay'[i] = pay[i] /\ order'[i] = order[i] /\ settlement'[i] = settlement[i]
    BY <1>1, <1>13 DEF CommitPaid
  <2>4. SaleNeedsPayment'
    BY <1>1, <1>3, <2>1, <2>2, <2>3, SaleStays DEF IsPaid
  <2>5. QED
    BY <2>1, <2>2, <2>4, StepEvidence DEF Step, EventState
<1>14. CASE CommitTerminal(p)
  <2>1. /\ handler' = [handler EXCEPT ![p] = [@ EXCEPT !.at = "finish"]]
        /\ UNCHANGED <<provider, settlement, effects, outbox>>
        /\ SetState(handler[p].for, "PROCESSED")
        /\ handler[p].at = "commit"
    BY <1>14 DEF CommitTerminal, Goto
  <2>2. /\ \A i \in Intents : pay'[i].status = "PAID" => IsPaid(i)
        /\ \A i \in Intents : order'[i] = "PAID" => order[i] = "PAID"
    BY <1>1, <1>14 DEF CommitTerminal, UnpaidEnd, IsPaid, PayRow
  <2>3. SaleNeedsPayment'
    BY <1>1, <1>3, <2>1, <2>2, SaleStays
  <2>4. QED
    BY <2>1, <2>3, StepEvidence DEF Step, EventState
<1>15. CASE PostLedger(p) \/ FulfilPaid(p)
  <2>1. PICK at \in {"fulfil", "finish"} :
          handler' = [handler EXCEPT ![p] = [@ EXCEPT !.at = at]]
    BY <1>15 DEF PostLedger, FulfilPaid, Goto
  <2>2. /\ UNCHANGED <<provider, pay, order, settlement, event, outbox>>
        /\ \E x : effects' = [effects EXCEPT ![Subject(p)] = @ \cup {x}]
        /\ handler[p].at \in {"ledger", "fulfil"}
    BY <1>15 DEF PostLedger, FulfilPaid, Perform
  <2>3. Paid(Subject(p))
    BY <1>1, <2>2 DEF Knows
  <2>4. SaleNeedsPayment'
    BY <1>1, <1>3, <2>2, <2>3, SaleStays DEF IsPaid
  <2>5. QED
    BY <2>1, <2>2, <2>3, <2>4, StepEvidence DEF Step
<1>16. CASE Finish(p)
  <2>1. /\ UNCHANGED <<provider, rows, event>>
        /\ handler' = [handler EXCEPT ![p] = Idle]
        /\ handler[p].at \in {"finish", "finish_failed"}
        /\ \A e \in Events : outbox'[e] = outbox[e] \/ e = handler[p].for
    BY <1>16 DEF Finish, GoIdle, TypeOK, CallbacksTypeOK
  <2>2. \A e \in Events : outbox'[e] # "none" => event'[e].state # "NONE"
    BY <1>1, <2>1 DEF Knows, Evidence, EventsAreAuthentic
  <2>3. QED
    BY <1>4, <2>1, <2>2, RestEvidence
<1>17. QED
  BY <1>5, <1>6, <1>7, <1>8, <1>9, <1>10, <1>11, <1>12, <1>13, <1>14, <1>15, <1>16
     DEF ProcessEvent

LEMMA FaultEvidence ==
  ASSUME TypeOK, TypeOK', Evidence, NEW p \in Handlers,
         Rollback(p) \/ EffectFails(p) \/ Crash(p)
  PROVE  Evidence'
<1>1. UNCHANGED <<provider, rows, event, outbox>>
  BY DEF Rollback, EffectFails, Crash
<1>2. SaleNeedsPayment'
  BY <1>1, SaleStays DEF Evidence, MoneyStays, rows, IsPaid
<1>3. CASE Rollback(p)
  <2>1. /\ handler' = [handler EXCEPT ![p] = [@ EXCEPT !.at = "finish_failed"]]
        /\ handler[p].at # "idle"
    BY <1>3 DEF Rollback, Goto, InTransaction
  <2>2. QED
    BY <1>1, <1>2, <2>1, StepEvidence DEF Step
<1>4. CASE EffectFails(p)
  <2>1. PICK at \in {"commit", "fulfil", "finish"} :
          /\ handler' = [handler EXCEPT ![p] = [@ EXCEPT !.at = at]]
          /\ at = "commit" => handler[p].at \in {"enqueue_webhook", "release_holds"}
          /\ at = "fulfil" => handler[p].at = "ledger"
          /\ handler[p].at # "idle"
    BY <1>4 DEF EffectFails, Goto
  <2>2. Knows(p)
    BY DEF Evidence
  <2>3. /\ at = "commit" => Verified(handler[p].for)
        /\ at = "fulfil" => Paid(Subject(p))
    BY <2>1, <2>2 DEF Knows, InTransaction
  <2>4. QED
    BY <1>1, <1>2, <2>1, <2>3, StepEvidence DEF Step
<1>5. CASE Crash(p)
  <2>1. handler' = [handler EXCEPT ![p] = Idle]
    BY <1>5 DEF Crash, GoIdle
  <2>2. \A e \in Events : outbox'[e] # "none" => event'[e].state # "NONE"
    BY <1>1 DEF Evidence, EventsAreAuthentic
  <2>3. QED
    BY <1>1, <1>2, <2>1, <2>2, RestEvidence
<1>6. QED
  BY <1>3, <1>4, <1>5

LEMMA CallbackStepEvidence == TypeOK /\ TypeOK' /\ Evidence /\ CallbackStep => Evidence'
<1>1. SUFFICES ASSUME TypeOK, TypeOK', Evidence, CallbackStep PROVE Evidence'
  OBVIOUS
<1>2. PICK p \in Handlers :
        \/ Deliver(p)
        \/ \E e \in Events : ClaimOutbox(p, e) \/ ReplayInbound(p, e)
        \/ ProcessEvent(p) \/ Rollback(p) \/ EffectFails(p) \/ Crash(p)
  BY <1>1 DEF CallbackStep
<1>3. CASE Deliver(p)
  <2>1. PICK e \in Events :
          \/ \E i \in Intents, t \in EventType, m \in BOOLEAN :
               AcceptNew(p, e, [state |-> "ACCEPTED", intent |-> i, type |-> t, matches |-> m])
          \/ AcceptDuplicate(p, e)
    BY <1>3 DEF Deliver
  <2>2. \A i \in Intents, t \in EventType, m \in BOOLEAN :
          [state |-> "ACCEPTED", intent |-> i, type |-> t, matches |-> m] \in EventRow
    BY DEF EventRow, EventState
  <2>3. \/ \E r \in EventRow : r.state = "ACCEPTED" /\ AcceptNew(p, e, r)
        \/ AcceptDuplicate(p, e)
    BY <2>1, <2>2
  <2>4. QED
    BY <1>1, <2>3, AcceptanceEvidence
<1>4. CASE \E e \in Events : ClaimOutbox(p, e) \/ ReplayInbound(p, e)
  BY <1>1, <1>4, AcceptanceEvidence
<1>5. CASE ProcessEvent(p)
  BY <1>1, <1>5, ProcessingEvidence
<1>6. CASE Rollback(p) \/ EffectFails(p) \/ Crash(p)
  BY <1>1, <1>6, FaultEvidence
<1>7. QED
  BY <1>2, <1>3, <1>4, <1>5, <1>6

(* Steps of others: handlers and events stay, what they know stays true.   *)
LEMMA EvidenceStays ==
  ASSUME TypeOK, TypeOK', Evidence, UNCHANGED callbackVars, MoneyStays, SaleNeedsPayment'
  PROVE  Evidence'
<1>1. EventsStay /\ UNCHANGED <<event, outbox, handler>>
  BY DEF EventsStay, callbackVars
<1>2. EventsAreAuthentic'
  BY <1>1, AuthenticStays DEF Evidence, EventsAreAuthentic
<1>3. \A q \in Handlers : Knows(q)'
  BY <1>1, OthersKnow DEF Evidence
<1>4. QED
  BY <1>2, <1>3 DEF Evidence

LEMMA ProviderStepEvidence == TypeOK /\ TypeOK' /\ Evidence /\ ProviderStep => Evidence'
<1>1. SUFFICES ASSUME TypeOK, TypeOK', Evidence, ProviderStep PROVE Evidence'
  OBVIOUS
<1>2. MoneyStays
  BY <1>1 DEF TypeOK, RowsTypeOK, ProviderStep, CustomerPays, ProviderExpires, MoneyStays
<1>3. SaleNeedsPayment'
  BY <1>1, <1>2, SaleStays DEF ProviderStep, Evidence, rows, IsPaid
<1>4. QED
  BY <1>1, <1>2, <1>3, EvidenceStays DEF ProviderStep

LEMMA EvidenceInit ==
  ASSUME CallbacksInit, TypeOK, SaleNeedsPayment
  PROVE  Evidence
<1>1. \A e \in Events : event[e].matches = FALSE /\ outbox[e] = "none"
  BY DEF CallbacksInit, NoEvent
<1>2. \A p \in Handlers : handler[p].at = "idle"
  BY DEF CallbacksInit, Idle
<1>3. QED
  BY <1>1, <1>2 DEF Evidence, EventsAreAuthentic, Authentic, Knows, InTransaction

LEMMA TypeAndEvidenceStep == TypeOK /\ Evidence /\ [Next]_vars => TypeOK' /\ Evidence'
<1>1. SUFFICES ASSUME TypeOK, Evidence, [Next]_vars PROVE TypeOK' /\ Evidence'
  OBVIOUS
<1>2. CASE Next
  BY <1>1, <1>2, CallbackStepType, ProviderStepType, CallbackStepEvidence,
     ProviderStepEvidence DEF Next
<1>3. CASE UNCHANGED vars
  <2>1. UNCHANGED callbackVars /\ UNCHANGED <<provider, rows, locked>>
    BY <1>3 DEF vars
  <2>2. TypeOK'
    BY <1>1, <2>1 DEF rows, callbackVars, TypeOK, RowsTypeOK, CallbacksTypeOK
  <2>3. MoneyStays
    BY <2>1 DEF MoneyStays
  <2>4. SaleNeedsPayment'
    BY <1>1, <2>1, <2>3, SaleStays DEF Evidence, rows, IsPaid
  <2>5. QED
    BY <1>1, <2>1, <2>2, <2>3, <2>4, EvidenceStays
<1>4. QED
  BY <1>1, <1>2, <1>3

(* Nothing of a sale exists without the customer's money, however events   *)
(* are delivered, retried, replayed, rolled back or lost half way.         *)
THEOREM CallbackSaleNeedsPayment == Spec => []SaleNeedsPayment
<1>1. Init => TypeOK /\ Evidence
  <2>1. Init => SaleNeedsPayment
    BY CallbackAssumption DEF Init, SaleNeedsPayment, IsPaid, OpenStatus
  <2>2. QED
    BY <2>1, TypeInit, EvidenceInit DEF Init
<1>2. TypeOK /\ Evidence /\ [Next]_vars => TypeOK' /\ Evidence'
  BY TypeAndEvidenceStep
<1>3. Evidence => SaleNeedsPayment
  BY DEF Evidence
<1>4. QED
  BY <1>1, <1>2, <1>3, PTL DEF Spec

----------------------------------------------------------------------------
(* In the composition, an operation forces PAID, EXPIRED or CANCELLED only *)
(* on the provider's answer, and no other write of an operation makes      *)
(* anything paid.                                                          *)

RestsOn(at, facts) ==
  /\ at = "force_paid" => "PAID" \in facts
  /\ at \in {"force_expired", "expired_order"} => "EXPIRED" \in facts
  /\ at \in {"force_cancelled", "cancelled_order"} => "CANCELLED" \in facts

OperationsKnow == \A q \in Operations : RestsOn(op[q].at, provider[Row(q)])

(* The steps that rest on no answer.                                       *)
Uninformed == OpStep \ {"force_paid", "force_expired", "expired_order",
                        "force_cancelled", "cancelled_order"}

LEMMA CallbackStepMoney == CallbackStep => MoneyStays
<1>1. SUFFICES ASSUME CallbackStep PROVE UNCHANGED provider
  BY DEF MoneyStays
<1>2. PICK p \in Handlers :
        \/ Deliver(p)
        \/ \E e \in Events : ClaimOutbox(p, e) \/ ReplayInbound(p, e)
        \/ ProcessEvent(p) \/ Rollback(p) \/ EffectFails(p) \/ Crash(p)
  BY <1>1 DEF CallbackStep
<1>3. CASE Deliver(p) \/ \E e \in Events : ClaimOutbox(p, e) \/ ReplayInbound(p, e)
  BY <1>3 DEF Deliver, AcceptNew, AcceptDuplicate, ClaimOutbox, ReplayInbound
<1>4. CASE ProcessEvent(p)
  BY <1>4 DEF ProcessEvent, AlreadyProcessed, Quarantine, ApplyNothing, ApplyReversal, BeginPaid,
     BeginTerminal, EnqueueSellerWebhook, ReleaseHolds, CommitPaid, CommitTerminal,
     PostLedger, FulfilPaid, Finish
<1>5. CASE Rollback(p) \/ EffectFails(p) \/ Crash(p)
  BY <1>5 DEF Rollback, EffectFails, Crash
<1>6. QED
  BY <1>2, <1>3, <1>4, <1>5

LEMMA AnswersKnow ==
  /\ \A q \in Operations : RestsOn(LookupDecision(q), provider[Row(q)])
  /\ \A facts : RestsOn(ExpireDecision(AnswerOf(facts)), facts)
  /\ \A facts : RestsOn(CancelDecision(AnswerOf(facts)), facts)
<1>1. \A q \in Operations : RestsOn(LookupDecision(q), provider[Row(q)])
  BY DEF LookupDecision, Answer, AnswerOf, RestsOn
<1>2. \A facts : RestsOn(ExpireDecision(AnswerOf(facts)), facts)
  BY DEF ExpireDecision, AnswerOf, RestsOn
<1>3. \A facts : RestsOn(CancelDecision(AnswerOf(facts)), facts)
  BY DEF CancelDecision, AnswerOf, RestsOn
<1>4. QED
  BY <1>1, <1>2, <1>3

LEMMA OperationStepMoney ==
  ASSUME SystemTypeOK, CheckoutStep \/ GatewayStep
  PROVE  MoneyStays
<1>1. provider \in [Intents -> SUBSET Fact]
  BY DEF SystemTypeOK, RowsTypeOK
<1>2. CASE UNCHANGED provider
  BY <1>2 DEF MoneyStays
<1>3. CASE \E q \in Operations : CallCreate(q)
  BY <1>1, <1>3 DEF MoneyStays, CallCreate
<1>4. CASE \E q \in Operations : CallExpire(q) \/ CallCancel(q)
  <2>1. PICK q \in Operations : CallExpire(q) \/ CallCancel(q)
    BY <1>4
  <2>2. Row(q) \in Intents
    BY DEF SystemTypeOK, CheckoutTypeOK, Row
  <2>3. PICK end \in UnpaidEnd : \E facts \in Ended(Row(q), end) :
          provider' = [provider EXCEPT ![Row(q)] = facts]
    BY <2>1 DEF CallExpire, CallCancel, UnpaidEnd
  <2>4. PICK facts \in Ended(Row(q), end) : provider' = [provider EXCEPT ![Row(q)] = facts]
    BY <2>3
  <2>5. provider[Row(q)] \subseteq facts
    BY <1>1, <2>2, EndedFacts
  <2>6. QED
    BY <1>1, <2>2, <2>4, <2>5 DEF MoneyStays
<1>5. CASE CheckoutStep
  BY <1>2, <1>3, <1>4, <1>5 DEF CheckoutStep, OperationStep, CreateIntent, RequestExpire,
     ClaimLookup, ActivateIntent, CreateUnknown, RejectRelease, RejectForce, RejectOrder,
     ExpireUnknown, ReadForLookup, CallLookup, ForcePending, ForcePaid, ForceExpired,
     ExpireOrder, ReleaseExpired, ForceCancelled, CancelOrder, WriteFails, Abandon
<1>6. CASE GatewayStep
  BY <1>2, <1>4, <1>6 DEF GatewayStep, CreatePayment, RequestCancel, CancelUnknown
<1>7. QED
  BY <1>5, <1>6

LEMMA CheckoutStepSale ==
  ASSUME SystemTypeOK, SaleNeedsPayment, OperationsKnow, MoneyStays, CheckoutStep
  PROVE  SaleNeedsPayment'
<1>1. PICK q \in Operations :
        \/ \E i \in Intents : CreateIntent(q, i) \/ RequestExpire(q, i) \/ ClaimLookup(q, i)
        \/ OperationStep(q) \/ WriteFails(q) \/ Abandon(q)
  BY DEF CheckoutStep
<1>2. /\ pay \in [Intents -> PayRow] /\ order \in [Intents -> OrderStatus]
      /\ effects \in [Intents -> SUBSET Effect]
  BY DEF SystemTypeOK, RowsTypeOK
<1>3. UNCHANGED settlement
  BY <1>1 DEF OperationStep, CallCreate, CallExpire, CreateIntent, RequestExpire, ClaimLookup,
     ActivateIntent, CreateUnknown, RejectRelease, RejectForce, RejectOrder,
     ExpireUnknown, ReadForLookup, CallLookup, ForcePending, ForcePaid, ForceExpired,
     ExpireOrder, ReleaseExpired, ForceCancelled, CancelOrder, WriteFails, Abandon, rows
<1>4. \A i \in Intents : effects'[i] \subseteq effects[i] \cup {"HOLDS_RELEASED"}
  <2>1. UNCHANGED effects \/ RejectRelease(q) \/ ReleaseExpired(q)
    BY <1>1 DEF OperationStep, CallCreate, CallExpire, CreateIntent, RequestExpire, ClaimLookup,
       ActivateIntent, CreateUnknown, RejectForce, RejectOrder, ExpireUnknown,
       ReadForLookup, CallLookup, ForcePending, ForcePaid, ForceExpired, ExpireOrder,
       ForceCancelled, CancelOrder, WriteFails, Abandon, rows
  <2>2. QED
    BY <1>2, <2>1 DEF RejectRelease, ReleaseExpired, ReleaseReservations, Perform
<1>5. \A i \in Intents : order'[i] = "PAID" => order[i] = "PAID"
  <2>1. \/ UNCHANGED order \/ RejectOrder(q) \/ ExpireOrder(q) \/ CancelOrder(q)
        \/ \E i \in Intents : CreateIntent(q, i)
    BY <1>1 DEF OperationStep, CallCreate, CallExpire, RequestExpire, ClaimLookup,
       ActivateIntent, CreateUnknown, RejectRelease, RejectForce, ExpireUnknown,
       ReadForLookup, CallLookup, ForcePending, ForcePaid, ForceExpired, ReleaseExpired,
       ForceCancelled, WriteFails, Abandon, rows
  <2>2. QED
    BY <1>2, <2>1 DEF RejectOrder, ExpireOrder, CancelOrder, CreateIntent, UpdateOrderStatus
<1>6. \A i \in Intents : pay'[i].status = "PAID" => IsPaid(i) \/ Paid(i)
  <2>1. CASE UNCHANGED pay
    BY <2>1 DEF IsPaid
  <2>2. CASE \E i \in Intents : CreateIntent(q, i) \/ RequestExpire(q, i)
    BY <1>2, <2>2 DEF CreateIntent, RequestExpire, PayRow, IsPaid
  <2>3. CASE ActivateIntent(q)
    <3>1. \A i \in Intents : pay'[i].status \in {pay[i].status, "PENDING"}
      BY <1>2, <2>3 DEF ActivateIntent, PayRow
    <3>2. QED
      BY <3>1 DEF IsPaid
  <2>4. CASE ForcePaid(q)
    <3>1. Paid(Row(q))
      BY <2>4 DEF ForcePaid, OperationsKnow, RestsOn, At, Paid
    <3>2. \A i \in Intents : i = Row(q) \/ pay'[i] = pay[i]
      BY <1>2, <2>4 DEF ForcePaid, ForceStatus
    <3>3. QED
      BY <3>1, <3>2 DEF IsPaid
  <2>5. CASE CreateUnknown(q) \/ ExpireUnknown(q) \/ RejectForce(q)
             \/ ForcePending(q) \/ ForceExpired(q) \/ ForceCancelled(q)
    <3>1. PICK s \in Status \ {"PAID"}, o \in Operation : ForceStatus(Row(q), s, o)
      BY <2>5 DEF CreateUnknown, ExpireUnknown, RejectForce, ForcePending,
         ForceExpired, ForceCancelled, Status, OpenStatus, TerminalUnpaid, Operation
    <3>2. \A i \in Intents : pay'[i].status \in {pay[i].status, s}
      BY <1>2, <3>1 DEF ForceStatus, PayRow
    <3>3. QED
      BY <3>2 DEF IsPaid
  <2>6. QED
    BY <1>1, <2>1, <2>2, <2>3, <2>4, <2>5 DEF OperationStep, CallCreate, CallExpire,
       ClaimLookup, RejectRelease, RejectOrder, ReadForLookup, CallLookup, ExpireOrder,
       ReleaseExpired, CancelOrder, WriteFails, Abandon, rows
<1>7. QED
  BY <1>3, <1>4, <1>5, <1>6, SaleStays

(* A gateway step makes nothing paid and writes no effect.                 *)
LEMMA GatewayStepSale ==
  ASSUME SystemTypeOK, SaleNeedsPayment, MoneyStays, GatewayStep
  PROVE  SaleNeedsPayment'
<1>1. PICK q \in Operations :
        \/ \E i \in Intents : CreatePayment(q, i) \/ RequestCancel(q, i)
        \/ CancelUnknown(q) \/ CallCancel(q)
  BY DEF GatewayStep
<1>2. pay \in [Intents -> PayRow] /\ order \in [Intents -> OrderStatus]
  BY DEF SystemTypeOK, RowsTypeOK
<1>3. UNCHANGED <<settlement, effects>>
  BY <1>1 DEF CreatePayment, RequestCancel, CancelUnknown, CallCancel, rows
<1>4. \A i \in Intents : order'[i] = "PAID" => order[i] = "PAID"
  BY <1>1, <1>2 DEF CreatePayment, RequestCancel, CancelUnknown, CallCancel, rows,
     UpdateOrderStatus
<1>5. \A i \in Intents :
        pay'[i].status \in {pay[i].status, "REQUIRES_PAYMENT", "CANCEL_PENDING", "UNKNOWN_OUTCOME"}
  BY <1>1, <1>2 DEF CreatePayment, RequestCancel, CancelUnknown, CallCancel, ForceStatus, rows,
     PayRow
<1>6. QED
  BY <1>3, <1>4, <1>5, SaleStays DEF IsPaid

(* What an operation knows when it moves on.                               *)
LEMMA KnowledgeStays ==
  ASSUME SystemTypeOK, OperationsKnow, MoneyStays, NEW q \in Operations,
         \/ \E i \in Intents, s \in Uninformed : Enter(q, i, s)
         \/ \E s \in OpStep : Move(q, s) /\ RestsOn(s, provider'[Row(q)])
         \/ /\ \A x \in Operations \ {q} : op'[x] = op[x]
            /\ op'[q].at \in Uninformed
  PROVE  OperationsKnow'
<1>1. op \in [Operations -> [at : OpStep, for : Intents, seenStatus : Status, seenOp : Operation]]
  BY DEF SystemTypeOK, CheckoutTypeOK
<1>2. \A s \in Uninformed : \A facts : RestsOn(s, facts)
  BY DEF Uninformed, RestsOn
<1>3. "idle" \in Uninformed
  BY DEF Uninformed, OpStep
<1>4. \A x \in Operations \ {q} : op'[x] = op[x]
  BY <1>1 DEF Enter, Move
<1>5. ASSUME NEW x \in Operations \ {q} PROVE RestsOn(op[x].at, provider[Row(x)])'
  BY <1>1, <1>4 DEF OperationsKnow, MoneyStays, RestsOn, Row
<1>6. RestsOn(op[q].at, provider[Row(q)])'
  <2>1. CASE op'[q].at \in Uninformed
    BY <1>2, <2>1
  <2>2. CASE \E i \in Intents, s \in Uninformed : Enter(q, i, s)
    BY <1>1, <2>1, <2>2 DEF Enter
  <2>3. CASE \E s \in OpStep : Move(q, s) /\ RestsOn(s, provider'[Row(q)])
    <3>1. PICK s \in OpStep : Move(q, s) /\ RestsOn(s, provider'[Row(q)])
      BY <2>3
    <3>2. CASE s = "idle"
      BY <1>1, <1>3, <2>1, <3>1, <3>2 DEF Move, Resting
    <3>3. CASE s # "idle"
      <4>1. op'[q].at = s /\ op'[q].for = op[q].for
        BY <1>1, <3>1, <3>3 DEF Move, Enter, Row
      <4>2. QED
        BY <3>1, <4>1 DEF Row
    <3>4. QED
      BY <3>2, <3>3
  <2>4. QED
    BY <2>1, <2>2, <2>3
<1>7. QED
  BY <1>5, <1>6 DEF OperationsKnow

LEMMA CheckoutStepKnows ==
  ASSUME SystemTypeOK, OperationsKnow, MoneyStays, CheckoutStep
  PROVE  OperationsKnow'
<1>1. PICK q \in Operations :
        \/ \E i \in Intents : CreateIntent(q, i) \/ RequestExpire(q, i) \/ ClaimLookup(q, i)
        \/ OperationStep(q) \/ WriteFails(q) \/ Abandon(q)
  BY DEF CheckoutStep
<1>2. /\ op \in [Operations -> [at : OpStep, for : Intents, seenStatus : Status, seenOp : Operation]]
      /\ provider \in [Intents -> SUBSET Fact]
      /\ Row(q) \in Intents
  BY DEF SystemTypeOK, CheckoutTypeOK, RowsTypeOK, Row
<1>3. /\ RestsOn(op[q].at, provider[Row(q)]) /\ provider[Row(q)] \subseteq provider'[Row(q)]
  BY <1>2 DEF OperationsKnow, MoneyStays
<1>4. \A s \in Uninformed : \A facts : RestsOn(s, facts)
  BY DEF Uninformed, RestsOn
<1>5. CASE \E s \in Uninformed : Move(q, s)
  BY <1>4, <1>5, KnowledgeStays DEF Uninformed
<1>6. CASE CallLookup(q)
  <2>1. LookupDecision(q) \in OpStep
    BY DEF LookupDecision, OpStep
  <2>2. RestsOn(LookupDecision(q), provider'[Row(q)])
    BY <1>3, AnswersKnow DEF RestsOn
  <2>3. Move(q, LookupDecision(q)) \/ Move(q, "idle")
    BY <1>6 DEF CallLookup
  <2>4. QED
    BY <1>5, <2>1, <2>2, <2>3, KnowledgeStays DEF Uninformed, OpStep
<1>7. CASE CallExpire(q)
  <2>1. PICK facts : /\ provider' = [provider EXCEPT ![Row(q)] = facts]
                     /\ \/ Move(q, ExpireTimeout) \/ Move(q, ExpireDecision(AnswerOf(facts)))
                        \/ Move(q, "idle")
    BY <1>7 DEF CallExpire
  <2>2. ExpireDecision(AnswerOf(facts)) \in OpStep
    BY DEF ExpireDecision, AnswerOf, OpStep
  <2>3. RestsOn(ExpireDecision(AnswerOf(facts)), provider'[Row(q)])
    BY <1>2, <2>1, AnswersKnow
  <2>4. QED
    BY <1>5, <2>1, <2>2, <2>3, KnowledgeStays DEF ExpireTimeout, Uninformed, OpStep
<1>8. CASE ReadForLookup(q)
  <2>1. CASE Move(q, "idle")
    BY <1>5, <2>1 DEF Uninformed, OpStep
  <2>2. CASE op' = [op EXCEPT ![q] = [at |-> "lookup_call", for |-> Row(q),
                      seenStatus |-> pay[Row(q)].status, seenOp |-> pay[Row(q)].unknownOp]]
    BY <1>2, <2>2, KnowledgeStays DEF Uninformed, OpStep
  <2>3. QED
    BY <1>8, <2>1, <2>2 DEF ReadForLookup
<1>9. CASE \E i \in Intents : CreateIntent(q, i) \/ RequestExpire(q, i) \/ ClaimLookup(q, i)
  <2>1. \E i \in Intents, s \in Uninformed : Enter(q, i, s)
    BY <1>9 DEF CreateIntent, RequestExpire, ClaimLookup, Uninformed, OpStep
  <2>2. QED
    BY <2>1, KnowledgeStays
<1>10. CASE ForceExpired(q) \/ ForceCancelled(q) \/ WriteFails(q)
  <2>1. CASE At(q, "force_expired") /\ Move(q, "expired_order")
    BY <1>3, <2>1, KnowledgeStays DEF At, RestsOn, OpStep
  <2>2. CASE At(q, "force_cancelled") /\ Move(q, "cancelled_order")
    BY <1>3, <2>2, KnowledgeStays DEF At, RestsOn, OpStep
  <2>3. QED
    BY <1>5, <1>10, <2>1, <2>2 DEF ForceExpired, ForceCancelled, WriteFails, Uninformed, OpStep
<1>11. CASE CallCreate(q)
  BY <1>5, <1>11 DEF CallCreate, Rejected, Uninformed, OpStep
<1>12. QED
  BY <1>1, <1>5, <1>6, <1>7, <1>8, <1>9, <1>10, <1>11 DEF OperationStep, ActivateIntent,
     CreateUnknown, RejectRelease, RejectForce, RejectOrder, ExpireUnknown,
     ForcePending, ForcePaid, ExpireOrder, ReleaseExpired, CancelOrder, Abandon, Uninformed,
     OpStep

LEMMA GatewayStepKnows ==
  ASSUME SystemTypeOK, OperationsKnow, MoneyStays, GatewayStep
  PROVE  OperationsKnow'
<1>1. PICK q \in Operations :
        \/ \E i \in Intents : CreatePayment(q, i) \/ RequestCancel(q, i)
        \/ CancelUnknown(q) \/ CallCancel(q)
  BY DEF GatewayStep
<1>2. provider \in [Intents -> SUBSET Fact] /\ Row(q) \in Intents
  BY DEF SystemTypeOK, CheckoutTypeOK, RowsTypeOK, Row
<1>3. CASE \E s \in Uninformed : Move(q, s)
  BY <1>3, KnowledgeStays DEF Uninformed, RestsOn
<1>4. CASE \E i \in Intents : CreatePayment(q, i) \/ RequestCancel(q, i)
  <2>1. \E i \in Intents, s \in Uninformed : Enter(q, i, s)
    BY <1>4 DEF CreatePayment, RequestCancel, Uninformed, OpStep
  <2>2. QED
    BY <2>1, KnowledgeStays
<1>5. CASE CallCancel(q)
  <2>1. PICK facts : /\ provider' = [provider EXCEPT ![Row(q)] = facts]
                     /\ \/ Move(q, CancelTimeout) \/ Move(q, CancelDecision(AnswerOf(facts)))
                        \/ Move(q, "idle")
    BY <1>5 DEF CallCancel
  <2>2. CancelDecision(AnswerOf(facts)) \in OpStep
    BY DEF CancelDecision, AnswerOf, OpStep
  <2>3. RestsOn(CancelDecision(AnswerOf(facts)), provider'[Row(q)])
    BY <1>2, <2>1, AnswersKnow
  <2>4. QED
    BY <1>3, <2>1, <2>2, <2>3, KnowledgeStays DEF CancelTimeout, Uninformed, OpStep
<1>6. QED
  BY <1>1, <1>3, <1>4, <1>5 DEF CancelUnknown, Uninformed, OpStep

LEMMA SystemStepMoney == SystemTypeOK /\ [SystemNext]_systemVars => MoneyStays
<1>1. SUFFICES ASSUME SystemTypeOK, [SystemNext]_systemVars PROVE MoneyStays
  OBVIOUS
<1>2. CASE CallbacksRun
  BY <1>2, CallbackStepMoney DEF CallbacksRun
<1>3. CASE CheckoutRuns \/ GatewayRuns
  BY <1>1, <1>3, OperationStepMoney DEF CheckoutRuns, GatewayRuns
<1>4. CASE ProviderActs
  BY <1>1, <1>4 DEF ProviderActs, ProviderStep, CustomerPays, ProviderExpires, MoneyStays,
     SystemTypeOK, RowsTypeOK
<1>5. CASE UNCHANGED systemVars
  BY <1>5 DEF systemVars, vars, MoneyStays
<1>6. CASE HoldsEnd
  BY <1>1, <1>6, HoldsEndKeeps DEF MoneyStays
<1>7. QED
  BY <1>1, <1>2, <1>3, <1>4, <1>5, <1>6 DEF SystemNext

SystemEvidence == SystemTypeOK /\ Evidence /\ OperationsKnow

LEMMA SystemEvidenceInit == SystemInit => SystemEvidence
<1>1. SystemInit => SaleNeedsPayment
  BY DEF SystemInit, CheckoutInit, SaleNeedsPayment, IsPaid
<1>2. SystemInit => OperationsKnow
  BY DEF SystemInit, CheckoutInit, OperationsKnow, RestsOn, Resting
<1>3. SystemTypeOK => TypeOK
  BY DEF SystemTypeOK, TypeOK
<1>4. QED
  BY <1>1, <1>2, <1>3, SystemTypeInit, EvidenceInit DEF SystemInit, SystemEvidence

LEMMA SystemEvidenceStep == SystemEvidence /\ [SystemNext]_systemVars => SystemEvidence'
<1>1. SUFFICES ASSUME SystemTypeOK, Evidence, OperationsKnow, [SystemNext]_systemVars
               PROVE  SystemEvidence'
  BY DEF SystemEvidence
<1>2. SystemTypeOK'
  BY <1>1, SystemTypeStep
<1>3. TypeOK /\ TypeOK'
  BY <1>1, <1>2 DEF SystemTypeOK, TypeOK
<1>4. MoneyStays
  BY <1>1, SystemStepMoney
<1>5. UNCHANGED op => OperationsKnow'
  <2>1. ASSUME NEW q \in Operations PROVE Row(q) \in Intents
    BY <1>1, <2>1 DEF SystemTypeOK, CheckoutTypeOK, Row
  <2>2. QED
    BY <1>1, <1>4, <2>1 DEF OperationsKnow, MoneyStays, RestsOn, Row
<1>6. CASE CallbacksRun
  BY <1>1, <1>2, <1>3, <1>5, <1>6, CallbackStepEvidence DEF CallbacksRun, SystemEvidence
<1>7. CASE CheckoutRuns
  <2>1. SaleNeedsPayment'
    BY <1>1, <1>4, <1>7, CheckoutStepSale DEF CheckoutRuns, Evidence
  <2>2. QED
    BY <1>1, <1>2, <1>3, <1>4, <1>7, <2>1, EvidenceStays, CheckoutStepKnows
       DEF CheckoutRuns, SystemEvidence
<1>8. CASE GatewayRuns
  <2>1. SaleNeedsPayment'
    BY <1>1, <1>4, <1>8, GatewayStepSale DEF GatewayRuns, Evidence
  <2>2. QED
    BY <1>1, <1>2, <1>3, <1>4, <1>8, <2>1, EvidenceStays, GatewayStepKnows
       DEF GatewayRuns, SystemEvidence
<1>9. CASE ProviderActs
  BY <1>1, <1>2, <1>3, <1>5, <1>9, ProviderStepEvidence DEF ProviderActs, SystemEvidence
<1>10. CASE UNCHANGED systemVars
  <2>1. UNCHANGED <<provider, rows, callbackVars, op>>
    BY <1>10 DEF systemVars, vars
  <2>2. SaleNeedsPayment'
    BY <1>1, <1>4, <2>1, SaleStays DEF Evidence, rows, IsPaid
  <2>3. QED
    BY <1>1, <1>2, <1>3, <1>4, <1>5, <2>1, <2>2, EvidenceStays DEF SystemEvidence
<1>11. CASE HoldsEnd
  <2>1. UNCHANGED <<provider, pay, order, settlement, callbackVars, op>> /\ OthersKept
    BY <1>1, <1>11, HoldsEndKeeps
  <2>2. SaleNeedsPayment'
    BY <2>1, <1>1 DEF Evidence, SaleNeedsPayment, OthersKept, Has, Effect, Paid, IsPaid
  <2>3. QED
    BY <1>1, <1>2, <1>3, <1>4, <1>5, <2>1, <2>2, EvidenceStays DEF callbackVars, SystemEvidence
<1>12. QED
  BY <1>1, <1>6, <1>7, <1>8, <1>9, <1>10, <1>11 DEF SystemNext

(* The same holds while operations of the checkout and the gateway expire, *)
(* cancel, look up and overwrite the rows the callbacks work on.           *)
THEOREM SystemSaleNeedsPayment == SystemSpec => []SaleNeedsPayment
<1>1. SystemEvidence => SaleNeedsPayment
  BY DEF SystemEvidence, Evidence
<1>2. QED
  BY <1>1, SystemEvidenceInit, SystemEvidenceStep, PTL DEF SystemSpec

----------------------------------------------------------------------------
(* An unpaid end of an intent or an order that a step writes is one the    *)
(* provider has reached: an authentic event says so, or an answer did.     *)

EndsAreKnown ==
  \A i \in Intents :
    /\ pay'[i].status \in UnpaidEnd => pay'[i].status \in {pay[i].status} \cup provider[i]
    /\ order'[i] \in UnpaidEnd => order'[i] \in {order[i]} \cup provider[i]

LEMMA CallbackStepEnds ==
  ASSUME SystemEvidence, CallbackStep
  PROVE  EndsAreKnown
<1>1. PICK p \in Handlers :
        \/ Deliver(p)
        \/ \E e \in Events : ClaimOutbox(p, e) \/ ReplayInbound(p, e)
        \/ ProcessEvent(p) \/ Rollback(p) \/ EffectFails(p) \/ Crash(p)
  BY DEF CallbackStep
<1>2. /\ pay \in [Intents -> PayRow] /\ order \in [Intents -> OrderStatus]
      /\ handler[p].for \in Events /\ Subject(p) \in Intents
  BY DEF SystemEvidence, SystemTypeOK, RowsTypeOK, CallbacksTypeOK, EventRow, Subject
<1>3. CASE UNCHANGED <<pay, order>>
  BY <1>3 DEF EndsAreKnown
<1>4. CASE ApplyReversal(p)
  <2>1. /\ UNCHANGED order
        /\ \A i \in Intents : pay'[i].status = pay[i].status
    BY <1>2, <1>4 DEF ApplyReversal, PayRow
  <2>2. QED
    BY <2>1 DEF EndsAreKnown
<1>5. CASE CommitPaid(p)
  <2>1. /\ \A i \in Intents : pay'[i].status \in {pay[i].status, "PAID"}
        /\ \A i \in Intents : order'[i] \in {order[i], "PAID"}
    BY <1>2, <1>5 DEF CommitPaid, PayRow
  <2>2. QED
    BY <2>1 DEF EndsAreKnown, UnpaidEnd
<1>6. CASE CommitTerminal(p)
  <2>1. event[handler[p].for].type \in UnpaidEnd /\ Verified(handler[p].for)
    BY <1>1, <1>6 DEF CommitTerminal, SystemEvidence, Evidence, Knows, InTransaction
  <2>2. event[handler[p].for].type \in provider[Subject(p)]
    BY <1>2, <2>1 DEF SystemEvidence, Evidence, EventsAreAuthentic, Authentic, Verified, Subject,
       UnpaidEnd
  <2>3. \A i \in Intents : i = Subject(p) \/ (pay'[i] = pay[i] /\ order'[i] = order[i])
    BY <1>2, <1>6 DEF CommitTerminal
  <2>4. /\ pay'[Subject(p)].status = event[handler[p].for].type
        /\ order'[Subject(p)] \in {order[Subject(p)], event[handler[p].for].type}
    <3>1. /\ pay[Subject(p)] \in PayRow
          /\ pay' = [pay EXCEPT ![Subject(p)] =
                      [pay[Subject(p)] EXCEPT !.status = event[handler[p].for].type]]
      BY <1>2, <1>6 DEF CommitTerminal
    <3>2. pay'[Subject(p)].status = event[handler[p].for].type
      BY <1>2, <3>1 DEF PayRow
    <3>3. order'[Subject(p)] \in {order[Subject(p)], event[handler[p].for].type}
      BY <1>2, <1>6 DEF CommitTerminal
    <3>4. QED
      BY <3>2, <3>3
  <2>5. QED
    BY <2>2, <2>3, <2>4 DEF EndsAreKnown
<1>7. QED
  BY <1>1, <1>3, <1>4, <1>5, <1>6 DEF Deliver, AcceptNew, AcceptDuplicate, ClaimOutbox,
     ReplayInbound, ProcessEvent, AlreadyProcessed, Quarantine, ApplyNothing, BeginPaid,
     BeginTerminal, EnqueueSellerWebhook, ReleaseHolds, PostLedger, FulfilPaid, Finish,
     Rollback, EffectFails, Crash, rows

LEMMA OperationStepEnds ==
  ASSUME SystemEvidence, CheckoutStep \/ GatewayStep
  PROVE  EndsAreKnown
<1>1. PICK q \in Operations :
        \/ \E i \in Intents : \/ CreateIntent(q, i) \/ RequestExpire(q, i) \/ ClaimLookup(q, i)
                             \/ CreatePayment(q, i) \/ RequestCancel(q, i)
        \/ OperationStep(q) \/ WriteFails(q) \/ Abandon(q)
        \/ CancelUnknown(q) \/ CallCancel(q)
  BY DEF CheckoutStep, GatewayStep
<1>2. /\ pay \in [Intents -> PayRow] /\ order \in [Intents -> OrderStatus]
      /\ Row(q) \in Intents /\ RestsOn(op[q].at, provider[Row(q)])
  BY DEF SystemEvidence, SystemTypeOK, RowsTypeOK, CheckoutTypeOK, OperationsKnow, Row
<1>3. \A i \in Intents :
        pay'[i].status \in UnpaidEnd => pay'[i].status \in {pay[i].status} \cup provider[i]
  <2>1. CASE UNCHANGED pay
    BY <2>1
  <2>2. CASE \E i \in Intents : \/ CreateIntent(q, i) \/ RequestExpire(q, i)
                               \/ CreatePayment(q, i) \/ RequestCancel(q, i)
    <3>1. \A i \in Intents : pay'[i].status \in
            {pay[i].status, "REQUIRES_PAYMENT", "EXPIRE_PENDING", "CANCEL_PENDING"}
      BY <1>2, <2>2 DEF CreateIntent, RequestExpire, CreatePayment, RequestCancel, PayRow
    <3>2. QED
      BY <3>1 DEF UnpaidEnd
  <2>3. CASE ActivateIntent(q)
    <3>1. \A i \in Intents : pay'[i].status \in {pay[i].status, "PENDING"}
      BY <1>2, <2>3 DEF ActivateIntent, PayRow
    <3>2. QED
      BY <3>1 DEF UnpaidEnd
  <2>4. CASE \/ CreateUnknown(q) \/ ExpireUnknown(q) \/ RejectForce(q)
             \/ ForcePending(q) \/ ForcePaid(q) \/ ForceExpired(q) \/ ForceCancelled(q)
             \/ CancelUnknown(q)
    <3>1. PICK s \in Status, o \in Operation :
            /\ ForceStatus(Row(q), s, o)
            /\ s \in UnpaidEnd => s \in provider[Row(q)]
      <4> USE DEF Status, OpenStatus, TerminalUnpaid, Operation
      <4>1. CASE ForceExpired(q)
        <5>1. ForceStatus(Row(q), "EXPIRED", "NONE") /\ At(q, "force_expired")
          BY <4>1 DEF ForceExpired
        <5>2. "EXPIRED" \in provider[Row(q)]
          BY <1>2, <5>1 DEF RestsOn, At
        <5>3. QED
          BY <5>1, <5>2
      <4>2. CASE ForceCancelled(q)
        <5>1. ForceStatus(Row(q), "CANCELLED", "NONE") /\ At(q, "force_cancelled")
          BY <4>2 DEF ForceCancelled
        <5>2. "CANCELLED" \in provider[Row(q)]
          BY <1>2, <5>1 DEF RestsOn, At
        <5>3. QED
          BY <5>1, <5>2
      <4>3. CASE \/ CreateUnknown(q) \/ ExpireUnknown(q) \/ RejectForce(q)
                 \/ ForcePending(q) \/ ForcePaid(q) \/ CancelUnknown(q)
        BY <4>3 DEF CreateUnknown, ExpireUnknown, RejectForce, ForcePending, ForcePaid,
           CancelUnknown, UnpaidEnd
      <4>4. QED
        BY <2>4, <4>1, <4>2, <4>3
    <3>2. /\ \A i \in Intents \ {Row(q)} : pay'[i].status = pay[i].status
          /\ pay'[Row(q)].status = s
      BY <1>2, <3>1 DEF ForceStatus, PayRow
    <3>3. QED
      BY <3>1, <3>2
  <2>5. QED
    BY <1>1, <2>1, <2>2, <2>3, <2>4 DEF OperationStep, CallCreate, CallExpire, CallCancel,
       ClaimLookup, RejectRelease, RejectOrder, ReadForLookup, CallLookup, ExpireOrder,
       ReleaseExpired, CancelOrder, WriteFails, Abandon, rows
<1>4. \A i \in Intents :
        order'[i] \in UnpaidEnd => order'[i] \in {order[i]} \cup provider[i]
  <2>1. CASE UNCHANGED order
    BY <2>1
  <2>2. CASE RejectOrder(q) \/ \E i \in Intents : CreateIntent(q, i) \/ CreatePayment(q, i)
    <3>1. \A i \in Intents : order'[i] \in {order[i], "FAILED", "PENDING"}
      BY <1>2, <2>2 DEF RejectOrder, CreateIntent, CreatePayment, UpdateOrderStatus
    <3>2. QED
      BY <3>1 DEF UnpaidEnd
  <2>3. CASE ExpireOrder(q) \/ CancelOrder(q)
    <3>1. PICK s : UpdateOrderStatus(Row(q), s) /\ s \in provider[Row(q)]
      BY <1>2, <2>3 DEF ExpireOrder, CancelOrder, RestsOn, At
    <3>2. QED
      BY <1>2, <3>1 DEF UpdateOrderStatus
  <2>4. QED
    BY <1>1, <2>1, <2>2, <2>3 DEF OperationStep, CallCreate, CallExpire, RequestExpire,
       ClaimLookup, ActivateIntent, CreateUnknown, RejectRelease, RejectForce,
       ExpireUnknown, ReadForLookup, CallLookup, ForcePending, ForcePaid, ForceExpired,
       ReleaseExpired, ForceCancelled, WriteFails, Abandon, RequestCancel, CancelUnknown,
       CallCancel, rows
<1>5. QED
  BY <1>3, <1>4 DEF EndsAreKnown

(* No intent and no order is EXPIRED or CANCELLED on anything less than    *)
(* the provider's word, whichever callbacks, jobs and requests interleave. *)
THEOREM SystemTerminalIsVerified == SystemSpec => []TerminalIsVerified
<1>1. SystemInit => TerminalIsVerified
  BY DEF SystemInit, CheckoutInit, TerminalIsVerified, UnpaidEnd
<1>2. SystemEvidence /\ TerminalIsVerified /\ [SystemNext]_systemVars => TerminalIsVerified'
  <2>1. SUFFICES ASSUME SystemEvidence, TerminalIsVerified, [SystemNext]_systemVars
                 PROVE  TerminalIsVerified'
    OBVIOUS
  <2>2. MoneyStays
    BY <2>1, SystemStepMoney DEF SystemEvidence
  <2>3. EndsAreKnown
    <3>1. CASE CallbacksRun
      BY <2>1, <3>1, CallbackStepEnds DEF CallbacksRun
    <3>2. CASE CheckoutRuns \/ GatewayRuns
      BY <2>1, <3>2, OperationStepEnds DEF CheckoutRuns, GatewayRuns
    <3>3. CASE UNCHANGED <<pay, order>>
      BY <3>3 DEF EndsAreKnown
    <3>4. QED
      BY <2>1, <3>1, <3>2, <3>3 DEF SystemNext, ProviderActs, ProviderStep, HoldsEnd, HoldsLapse,
         systemVars, vars, rows
  <2>4. QED
    BY <2>1, <2>2, <2>3 DEF TerminalIsVerified, EndsAreKnown, MoneyStays
<1>3. QED
  BY <1>1, <1>2, SystemEvidenceInit, SystemEvidenceStep, PTL DEF SystemSpec

----------------------------------------------------------------------------
(* Settlements, in the composition: only the capture writes them.          *)

SettlementsStay == \A i \in Intents : settlement[i] # "NONE" => settlement'[i] = settlement[i]
PaidWithSettlement ==
  \A i \in Intents : order'[i] = "PAID" => order[i] = "PAID" \/ settlement'[i] # "NONE"

LEMMA CallbackStepSettlements ==
  ASSUME SystemTypeOK, CallbackStep
  PROVE  SettlementsStay /\ PaidWithSettlement
<1>1. PICK p \in Handlers :
        \/ Deliver(p)
        \/ \E e \in Events : ClaimOutbox(p, e) \/ ReplayInbound(p, e)
        \/ ProcessEvent(p) \/ Rollback(p) \/ EffectFails(p) \/ Crash(p)
  BY DEF CallbackStep
<1>2. /\ order \in [Intents -> OrderStatus] /\ settlement \in [Intents -> Settlement]
      /\ Subject(p) \in Intents
  BY DEF SystemTypeOK, RowsTypeOK, CallbacksTypeOK, EventRow, Subject
<1>3. CASE UNCHANGED <<order, settlement>>
  BY <1>3 DEF SettlementsStay, PaidWithSettlement
<1>4. CASE CommitPaid(p)
  <2>1. /\ settlement' = [settlement EXCEPT ![Subject(p)] = Settled(Subject(p))]
        /\ order' = order \/ order' = [order EXCEPT ![Subject(p)] = "PAID"]
    BY <1>4 DEF CommitPaid
  <2>2. /\ Settled(Subject(p)) # "NONE"
        /\ settlement[Subject(p)] # "NONE" => Settled(Subject(p)) = settlement[Subject(p)]
    BY DEF Settled
  <2>3. QED
    BY <1>2, <2>1, <2>2 DEF SettlementsStay, PaidWithSettlement
<1>5. CASE CommitTerminal(p)
  <2>1. /\ UNCHANGED settlement
        /\ \A i \in Intents : order'[i] = "PAID" => order[i] = "PAID"
    BY <1>2, <1>5 DEF CommitTerminal, UnpaidEnd
  <2>2. QED
    BY <2>1 DEF SettlementsStay, PaidWithSettlement
<1>6. QED
  BY <1>1, <1>3, <1>4, <1>5 DEF Deliver, AcceptNew, AcceptDuplicate, ClaimOutbox, ReplayInbound,
     ProcessEvent, AlreadyProcessed, Quarantine, ApplyNothing, ApplyReversal, BeginPaid,
     BeginTerminal, EnqueueSellerWebhook, ReleaseHolds, PostLedger, FulfilPaid, Finish,
     Rollback, EffectFails, Crash, rows

LEMMA CheckoutStepSettlements ==
  ASSUME SystemTypeOK, CheckoutStep
  PROVE  SettlementsStay /\ PaidWithSettlement
<1>1. PICK q \in Operations :
        \/ \E i \in Intents : CreateIntent(q, i) \/ RequestExpire(q, i) \/ ClaimLookup(q, i)
        \/ OperationStep(q) \/ WriteFails(q) \/ Abandon(q)
  BY DEF CheckoutStep
<1>2. UNCHANGED settlement
  BY <1>1 DEF OperationStep, CallCreate, CallExpire, CreateIntent, RequestExpire, ClaimLookup,
     ActivateIntent, CreateUnknown, RejectRelease, RejectForce, RejectOrder,
     ExpireUnknown, ReadForLookup, CallLookup, ForcePending, ForcePaid, ForceExpired,
     ExpireOrder, ReleaseExpired, ForceCancelled, CancelOrder, WriteFails, Abandon, rows
<1>3. \/ UNCHANGED order \/ RejectOrder(q) \/ ExpireOrder(q) \/ CancelOrder(q)
      \/ \E i \in Intents : CreateIntent(q, i)
  BY <1>1 DEF OperationStep, CallCreate, CallExpire, RequestExpire, ClaimLookup,
     ActivateIntent, CreateUnknown, RejectRelease, RejectForce, ExpireUnknown,
     ReadForLookup, CallLookup, ForcePending, ForcePaid, ForceExpired, ReleaseExpired,
     ForceCancelled, WriteFails, Abandon, rows
<1>4. order \in [Intents -> OrderStatus]
  BY DEF SystemTypeOK, RowsTypeOK
<1>5. \A i \in Intents : order'[i] = "PAID" => order[i] = "PAID"
  BY <1>3, <1>4 DEF RejectOrder, ExpireOrder, CancelOrder, CreateIntent, UpdateOrderStatus
<1>6. QED
  BY <1>2, <1>5 DEF SettlementsStay, PaidWithSettlement

LEMMA GatewayStepSettlements ==
  ASSUME SystemTypeOK, GatewayStep
  PROVE  SettlementsStay /\ PaidWithSettlement
<1>1. PICK q \in Operations :
        \/ \E i \in Intents : CreatePayment(q, i) \/ RequestCancel(q, i)
        \/ CancelUnknown(q) \/ CallCancel(q)
  BY DEF GatewayStep
<1>2. UNCHANGED settlement /\ order \in [Intents -> OrderStatus]
  BY <1>1 DEF CreatePayment, RequestCancel, CancelUnknown, CallCancel, rows, SystemTypeOK,
     RowsTypeOK
<1>3. \A i \in Intents : order'[i] = "PAID" => order[i] = "PAID"
  BY <1>1, <1>2 DEF CreatePayment, RequestCancel, CancelUnknown, CallCancel, rows,
     UpdateOrderStatus
<1>4. QED
  BY <1>2, <1>3 DEF SettlementsStay, PaidWithSettlement

LEMMA SystemStepSettlements ==
  ASSUME SystemTypeOK, [SystemNext]_systemVars
  PROVE  SettlementsStay /\ PaidWithSettlement
<1>1. CASE UNCHANGED <<order, settlement>>
  BY <1>1 DEF SettlementsStay, PaidWithSettlement
<1>2. CASE CallbacksRun
  BY <1>2, CallbackStepSettlements DEF CallbacksRun
<1>3. CASE CheckoutRuns
  BY <1>3, CheckoutStepSettlements DEF CheckoutRuns
<1>4. CASE GatewayRuns
  BY <1>4, GatewayStepSettlements DEF GatewayRuns
<1>5. QED
  BY <1>1, <1>2, <1>3, <1>4 DEF SystemNext, systemVars, vars, rows, ProviderActs, ProviderStep,
     HoldsEnd, HoldsLapse

(* An order is paid only together with its settlement, also while checkout *)
(* operations overwrite the status of the intent.                          *)
THEOREM SystemPaidOrderIsSettled == SystemSpec => []PaidOrderIsSettled
<1>1. SystemInit => PaidOrderIsSettled
  BY DEF SystemInit, CheckoutInit, PaidOrderIsSettled
<1>2. SystemTypeOK /\ PaidOrderIsSettled /\ [SystemNext]_systemVars => PaidOrderIsSettled'
  BY SystemStepSettlements DEF PaidOrderIsSettled, SettlementsStay, PaidWithSettlement
<1>3. QED
  BY <1>1, <1>2, SystemTypeInit, SystemTypeStep, PTL DEF SystemSpec

(* A settlement is never rewritten, even when an intent that was           *)
(* overwritten is captured a second time.                                  *)
THEOREM SystemSettlementIsFinal == SystemSpec => SettlementIsFinal
<1>1. SystemTypeOK /\ [SystemNext]_systemVars => [SettlementsStay]_systemVars
  BY SystemStepSettlements
<1>2. QED
  BY <1>1, SystemTypeInit, SystemTypeStep, PTL DEF SystemSpec, SettlementIsFinal, SettlementsStay
=============================================================================
