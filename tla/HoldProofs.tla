----------------------------- MODULE HoldProofs -----------------------------
(***************************************************************************)
(* The stock and the coupon of a payment, in the composition: while a QR   *)
(* code shown to the buyer can still be paid, nothing that ends payments   *)
(* gives them back, for every set of intents, events, handlers and         *)
(* operations.  HoldsLapse, which asks nobody, is left to do so.           *)
(***************************************************************************)
EXTENDS PaymentProofs

(* The payment has left the state in which it was created.                 *)
Over(i)     == provider[i] \cap {"EXPIRED", "CANCELLED", "PAID"} # {}
Released(i) == Has(i, "HOLDS_RELEASED")

(* Where a creation may still show the code or give the holds back.        *)
Making   == {"create_call", "create_ok"}
Maker(q) == op[q].at \in Making \cup {"reject_release"}

----------------------------------------------------------------------------
(* The inductive invariant.                                                *)

(* An intent is created once, and has no reference until that is done.     *)
MakersAreAlone ==
  /\ \A q, r \in Operations : Maker(q) /\ Maker(r) /\ Row(q) = Row(r) => q = r
  /\ \A q \in Operations : Maker(q) => pay[Row(q)].status # "NONE" /\ pay[Row(q)].hasRef = FALSE
  /\ \A i \in Intents : pay[i].status = "NONE" => pay[i].hasRef = FALSE

(* Who is about to release knows that the payment is over.                 *)
ReleasersKnow ==
  /\ \A q \in Operations : op[q].at = "expired_release" => Over(Row(q))
  /\ \A p \in Handlers : handler[p].at = "release_holds" => event[handler[p].for].type \in UnpaidEnd

(* Holds released before that are those of a rejected creation.            *)
EarlyReleases ==
  \A i \in Intents : Released(i) /\ ~Over(i) =>
    /\ pay[i].status # "NONE" /\ pay[i].hasRef = FALSE
    /\ \A q \in Operations : Row(q) = i => op[q].at \notin Making

HoldInv == MakersAreAlone /\ ReleasersKnow /\ EarlyReleases

----------------------------------------------------------------------------
(* What most steps do: no reference is set, holds are released only when   *)
(* the payment is over, and no creation starts or gets nearer to its end.  *)

PayKept ==
  \A i \in Intents : /\ pay'[i].hasRef = pay[i].hasRef
                     /\ pay'[i].status = "NONE" => pay[i].status = "NONE"
HoldsKept == \A i \in Intents : Released(i)' => Released(i) \/ Over(i)
OpKept(q) ==
  Maker(q)' => /\ Maker(q) /\ Row(q)' = Row(q)
               /\ op'[q].at \in Making => op[q].at \in Making

LEMMA OverStays ==
  ASSUME MoneyStays, NEW i \in Intents, Over(i)
  PROVE  Over(i)'
BY DEF Over, MoneyStays

LEMMA KeptStep ==
  ASSUME SystemTypeOK, MakersAreAlone, EarlyReleases, MoneyStays, PayKept, HoldsKept,
         \A q \in Operations : OpKept(q)
  PROVE  MakersAreAlone' /\ EarlyReleases'
<1>1. \A q \in Operations : Row(q) \in Intents
  BY OperationTypes DEF SystemTypeOK
<1>2. MakersAreAlone'
  <2>1. ASSUME NEW q \in Operations, Maker(q)' PROVE Maker(q) /\ Row(q)' = Row(q)
    BY <2>1 DEF OpKept
  <2>2. ASSUME NEW q \in Operations, NEW r \in Operations, Maker(q)', Maker(r)', Row(q)' = Row(r)'
        PROVE  q = r
    BY <2>1, <2>2 DEF MakersAreAlone
  <2>3. ASSUME NEW q \in Operations, Maker(q)'
        PROVE  pay'[Row(q)'].status # "NONE" /\ pay'[Row(q)'].hasRef = FALSE
    <3>1. pay[Row(q)].status # "NONE" /\ pay[Row(q)].hasRef = FALSE /\ Row(q)' = Row(q)
      BY <2>1, <2>3 DEF MakersAreAlone
    <3>2. QED
      BY <1>1, <3>1 DEF PayKept
  <2>4. \A i \in Intents : pay'[i].status = "NONE" => pay'[i].hasRef = FALSE
    BY DEF MakersAreAlone, PayKept
  <2>5. QED
    BY <2>2, <2>3, <2>4 DEF MakersAreAlone
<1>3. EarlyReleases'
  <2>1. SUFFICES ASSUME NEW i \in Intents, Released(i)', ~Over(i)'
                 PROVE  /\ pay'[i].status # "NONE" /\ pay'[i].hasRef = FALSE
                        /\ \A q \in Operations : Row(q)' = i => op'[q].at \notin Making
    BY DEF EarlyReleases
  <2>2. ~Over(i) /\ Released(i)
    BY <2>1, OverStays DEF HoldsKept
  <2>3. /\ pay[i].status # "NONE" /\ pay[i].hasRef = FALSE
        /\ \A q \in Operations : Row(q) = i => op[q].at \notin Making
    BY <2>2 DEF EarlyReleases
  <2>4. ASSUME NEW q \in Operations, Row(q)' = i PROVE op'[q].at \notin Making
    <3>1. SUFFICES ASSUME op'[q].at \in Making PROVE FALSE
      OBVIOUS
    <3>2. OpKept(q) /\ Maker(q)'
      BY <3>1 DEF Maker
    <3>3. Row(q) = i /\ op[q].at \in Making
      BY <2>4, <3>1, <3>2 DEF OpKept
    <3>4. QED
      BY <2>3, <3>3
  <2>5. QED
    BY <2>3, <2>4 DEF PayKept
<1>4. QED
  BY <1>2, <1>3

----------------------------------------------------------------------------
(* Callbacks.                                                              *)

LEMMA CallbackStepKeepsPay ==
  ASSUME SystemTypeOK, CallbackStep
  PROVE  PayKept
<1>1. PICK p \in Handlers :
        \/ Deliver(p)
        \/ \E e \in Events : ClaimOutbox(p, e) \/ ReplayInbound(p, e)
        \/ ProcessEvent(p) \/ Rollback(p) \/ EffectFails(p) \/ Crash(p)
  BY DEF CallbackStep
<1>2. pay \in [Intents -> PayRow]
  BY DEF SystemTypeOK, RowsTypeOK
<1>3. CASE UNCHANGED pay
  BY <1>3 DEF PayKept
<1>4. CASE ApplyReversal(p)
  BY <1>2, <1>4 DEF ApplyReversal, PayKept, PayRow
<1>5. CASE CommitPaid(p)
  <2>1. CASE UNCHANGED pay
    BY <1>3, <2>1
  <2>2. CASE pay' = [pay EXCEPT ![Subject(p)] = [@ EXCEPT !.status = "PAID", !.unknownOp = "NONE",
                                                          !.paidLate = Late(Subject(p))]]
    BY <1>2, <2>2 DEF PayKept, PayRow
  <2>3. QED
    BY <1>5, <2>1, <2>2 DEF CommitPaid
<1>6. CASE CommitTerminal(p)
  BY <1>2, <1>6 DEF CommitTerminal, PayKept, PayRow, UnpaidEnd
<1>7. QED
  BY <1>1, <1>3, <1>4, <1>5, <1>6 DEF Deliver, AcceptNew, AcceptDuplicate, ClaimOutbox,
     ReplayInbound, ProcessEvent, AlreadyProcessed, Quarantine, ApplyNothing, BeginPaid,
     BeginTerminal, EnqueueSellerWebhook, ReleaseHolds, PostLedger, FulfilPaid, Finish,
     Rollback, EffectFails, Crash, rows

(* A handler releases on an event that says how the payment ended, and     *)
(* events are authentic.                                                   *)
LEMMA CallbackStepKeepsHolds ==
  ASSUME SystemEvidence, ReleasersKnow, CallbackStep
  PROVE  HoldsKept
<1>1. PICK p \in Handlers :
        \/ Deliver(p)
        \/ \E e \in Events : ClaimOutbox(p, e) \/ ReplayInbound(p, e)
        \/ ProcessEvent(p) \/ Rollback(p) \/ EffectFails(p) \/ Crash(p)
  BY DEF CallbackStep
<1>2. /\ effects \in [Intents -> SUBSET Effect]
      /\ handler[p].for \in Events /\ Subject(p) \in Intents
  BY DEF SystemEvidence, SystemTypeOK, RowsTypeOK, CallbacksTypeOK, EventRow, Subject
<1>3. CASE UNCHANGED effects
  BY <1>3 DEF HoldsKept, Released, Has
<1>4. CASE EnqueueSellerWebhook(p) \/ PostLedger(p) \/ FulfilPaid(p)
  BY <1>2, <1>4 DEF EnqueueSellerWebhook, PostLedger, FulfilPaid, Perform, HoldsKept, Released, Has
<1>5. CASE ReleaseHolds(p)
  <2>1. event[handler[p].for].type \in UnpaidEnd /\ Verified(handler[p].for)
    BY <1>1, <1>5 DEF ReleaseHolds, ReleasersKnow, SystemEvidence, Evidence, Knows, InTransaction
  <2>2. event[handler[p].for].type \in provider[Subject(p)]
    BY <1>2, <2>1 DEF SystemEvidence, Evidence, EventsAreAuthentic, Authentic, Verified, Subject,
       UnpaidEnd
  <2>3. Over(Subject(p))
    BY <2>1, <2>2 DEF Over, UnpaidEnd
  <2>4. \A i \in Intents : i = Subject(p) \/ effects'[i] = effects[i]
    BY <1>2, <1>5 DEF ReleaseHolds, ReleaseReservations, Perform
  <2>5. QED
    BY <2>3, <2>4 DEF HoldsKept, Released, Has
<1>6. QED
  BY <1>1, <1>3, <1>4, <1>5 DEF Deliver, AcceptNew, AcceptDuplicate, ClaimOutbox,
     ReplayInbound, ProcessEvent, AlreadyProcessed, Quarantine, ApplyNothing, ApplyReversal,
     BeginPaid, BeginTerminal, CommitPaid, CommitTerminal, Finish, Rollback, EffectFails, Crash,
     rows

(* BeginTerminal alone comes to a release; an accepted event keeps its type. *)
LEMMA CallbackStepReleasers ==
  ASSUME SystemEvidence, ReleasersKnow, CallbackStep
  PROVE  \A x \in Handlers :
           handler'[x].at = "release_holds" => event'[handler'[x].for].type \in UnpaidEnd
<1>1. PICK p \in Handlers :
        \/ Deliver(p)
        \/ \E e \in Events : ClaimOutbox(p, e) \/ ReplayInbound(p, e)
        \/ ProcessEvent(p) \/ Rollback(p) \/ EffectFails(p) \/ Crash(p)
  BY DEF CallbackStep
<1>2. /\ handler \in [Handlers -> [at : Step, for : Events]]
      /\ event \in [Events -> EventRow]
  BY DEF SystemEvidence, SystemTypeOK, CallbacksTypeOK
<1>3. \A x \in Handlers \ {p} : handler'[x] = handler[x]
  BY <1>1, <1>2 DEF Deliver, AcceptNew, AcceptDuplicate, ClaimOutbox, ReplayInbound, Start,
     ProcessEvent, AlreadyProcessed, Quarantine, ApplyNothing, ApplyReversal, BeginPaid,
     BeginTerminal, EnqueueSellerWebhook, ReleaseHolds, CommitPaid, CommitTerminal, PostLedger,
     FulfilPaid, Finish, Goto, GoIdle, Rollback, EffectFails, Crash
<1>4. \A e \in Events : event[e].state # "NONE" => event'[e].type = event[e].type
  <2>1. CASE UNCHANGED event \/ \E e \in Events, s \in EventState : SetState(e, s)
    BY <1>2, <2>1 DEF SetState, EventRow
  <2>2. CASE \E e \in Events : \E r : AcceptNew(p, e, r)
    BY <1>2, <2>2 DEF AcceptNew
  <2>3. handler[p].for \in Events
    BY <1>1, <1>2
  <2>4. QED
    BY <1>1, <2>1, <2>2, <2>3 DEF Deliver, AcceptDuplicate, ClaimOutbox, ReplayInbound,
     ProcessEvent, AlreadyProcessed, Quarantine, ApplyNothing, ApplyReversal, BeginPaid,
     BeginTerminal, EnqueueSellerWebhook, ReleaseHolds, CommitPaid, CommitTerminal, PostLedger,
     FulfilPaid, Finish, Rollback, EffectFails, Crash, EventState
<1>5. ASSUME NEW x \in Handlers \ {p}, handler'[x].at = "release_holds"
      PROVE  event'[handler'[x].for].type \in UnpaidEnd
  <2>1. handler[x].at = "release_holds" /\ handler[x].for \in Events
    BY <1>2, <1>3, <1>5
  <2>2. event[handler[x].for].state # "NONE"
    BY <2>1 DEF SystemEvidence, Evidence, Knows
  <2>3. QED
    BY <1>3, <1>4, <2>1, <2>2 DEF ReleasersKnow
<1>6. ASSUME handler'[p].at = "release_holds" PROVE event'[handler'[p].for].type \in UnpaidEnd
  <2>1. Idle.at # "release_holds"
    BY DEF Idle
  <2>2. BeginTerminal(p)
    <3>1. ASSUME NEW s, Goto(p, s) PROVE s = "release_holds"
      BY <1>1, <1>2, <1>6, <3>1 DEF Goto
    <3>2. ~GoIdle(p) /\ \A e \in Events : ~Start(p, e)
      BY <1>1, <1>2, <1>6, <2>1 DEF GoIdle, Start
    <3>3. ASSUME AlreadyProcessed(p) \/ ApplyNothing(p) \/ ApplyReversal(p) \/ BeginPaid(p) PROVE FALSE
      <4>1. \E s : s # "release_holds" /\ Goto(p, s)
        BY <3>3 DEF AlreadyProcessed, ApplyNothing, ApplyReversal, BeginPaid, Repair, AfterCommit
      <4>2. QED
        BY <3>1, <4>1
    <3>4. ASSUME \/ Quarantine(p) \/ EnqueueSellerWebhook(p) \/ ReleaseHolds(p) \/ CommitPaid(p)
                 \/ CommitTerminal(p) \/ PostLedger(p) \/ FulfilPaid(p) \/ Rollback(p)
                 \/ EffectFails(p)
          PROVE FALSE
      <4>1. \E s : s # "release_holds" /\ Goto(p, s)
        BY <3>4 DEF Quarantine, EnqueueSellerWebhook, ReleaseHolds, CommitPaid, CommitTerminal,
           PostLedger, FulfilPaid, Rollback, EffectFails
      <4>2. QED
        BY <3>1, <4>1
    <3>5. QED
      BY <1>1, <3>2, <3>3, <3>4 DEF Deliver, AcceptNew, AcceptDuplicate, ClaimOutbox,
         ReplayInbound, ProcessEvent, Finish, Crash
  <2>3. handler'[p].for = handler[p].for /\ UNCHANGED event
    BY <1>1, <1>2, <2>2 DEF BeginTerminal, Goto
  <2>4. QED
    BY <2>2, <2>3 DEF BeginTerminal
<1>7. QED
  BY <1>5, <1>6

----------------------------------------------------------------------------
(* Operations of the checkout and the gateway.                             *)

(* What an operation may do on the way of a creation, or outside it.       *)
OpMoves(q) ==
  /\ \A x \in Operations \ {q} : op'[x] = op[x]
  /\ \/ ~Maker(q)' /\ op'[q].at # "expired_release"
     \/ ~Maker(q)' /\ Over(Row(q)) /\ Row(q)' = Row(q)
     \/ op[q].at = "create_call" /\ op'[q].at # "expired_release" /\ Row(q)' = Row(q)

LEMMA OpMovesKeep ==
  ASSUME SystemTypeOK, MoneyStays, ReleasersKnow, NEW q \in Operations, OpMoves(q)
  PROVE  /\ \A x \in Operations : OpKept(x)
         /\ \A x \in Operations : op'[x].at = "expired_release" => Over(Row(x))'
<1>1. \A x \in Operations : Row(x) \in Intents
  BY OperationTypes DEF SystemTypeOK
<1>2. ASSUME NEW x \in Operations PROVE OpKept(x)
  <2>1. CASE x # q
    BY <2>1 DEF OpMoves, OpKept, Maker, Row
  <2>2. CASE x = q
    BY <2>2 DEF OpMoves, OpKept, Maker, Making
  <2>3. QED
    BY <2>1, <2>2
<1>3. ASSUME NEW x \in Operations, op'[x].at = "expired_release" PROVE Over(Row(x))'
  <2>1. Over(Row(x)) /\ Row(x)' = Row(x)
    BY <1>3 DEF OpMoves, ReleasersKnow, Row
  <2>2. QED
    BY <1>1, <2>1 DEF Over, MoneyStays
<1>4. QED
  BY <1>2, <1>3

LEMMA Moving ==
  ASSUME SystemTypeOK, NEW q \in Operations
  PROVE  /\ \A s \in OpStep : Move(q, s) =>
              /\ op'[q].at = s /\ (s # "idle" => Row(q)' = Row(q))
              /\ \A x \in Operations \ {q} : op'[x] = op[x]
         /\ \A i \in Intents, s \in OpStep : Enter(q, i, s) =>
              /\ op'[q].at = s /\ Row(q)' = i
              /\ \A x \in Operations \ {q} : op'[x] = op[x]
BY DEF SystemTypeOK, CheckoutTypeOK, Move, Enter, Resting, Row

(* Steps but those that start a creation or go on with it.                 *)
LEMMA PlainMoves ==
  ASSUME SystemTypeOK, OperationsKnow, NEW q \in Operations,
         \/ ReadForLookup(q) \/ CallLookup(q) \/ CallExpire(q) \/ CallCancel(q) \/ CallCreate(q)
         \/ WriteFails(q) \/ ExpireOrder(q)
         \/ \E s \in OpStep \ (Making \cup {"reject_release", "expired_release"}) :
              Move(q, s) \/ \E i \in Intents : Enter(q, i, s)
  PROVE  OpMoves(q)
<1> DEFINE Plain == OpStep \ (Making \cup {"reject_release", "expired_release"})
<1>1. ASSUME NEW s \in Plain, Move(q, s) \/ \E i \in Intents : Enter(q, i, s) PROVE OpMoves(q)
  <2>1. op'[q].at = s /\ \A x \in Operations \ {q} : op'[x] = op[x]
    BY <1>1, Moving
  <2>2. QED
    BY <2>1 DEF OpMoves, Maker
<1>2. CASE ReadForLookup(q)
  <2>1. CASE Move(q, "idle")
    BY <1>1, <2>1 DEF OpStep, Making
  <2>2. CASE op' = [op EXCEPT ![q] = [at |-> "lookup_call", for |-> Row(q),
                      seenStatus |-> pay[Row(q)].status, seenOp |-> pay[Row(q)].unknownOp]]
    BY <2>2 DEF OpMoves, Maker, Making, SystemTypeOK, CheckoutTypeOK
  <2>3. QED
    BY <1>2, <2>1, <2>2 DEF ReadForLookup
<1>3. CASE CallLookup(q)
  <2>1. LookupDecision(q) \in Plain /\ "idle" \in Plain
    BY DEF LookupDecision, OpStep, Making
  <2>2. QED
    BY <1>1, <1>3, <2>1 DEF CallLookup
<1>4. CASE CallExpire(q) \/ CallCancel(q)
  <2>1. \A answer : AnswerOf(answer) \in {"PAID", "CANCELLED", "EXPIRED", "PENDING"}
    BY DEF AnswerOf
  <2>2. /\ {"idle", ExpireTimeout, CancelTimeout} \subseteq Plain
        /\ \A facts : {ExpireDecision(AnswerOf(facts)), CancelDecision(AnswerOf(facts))} \subseteq Plain
    BY <2>1 DEF ExpireDecision, CancelDecision, ExpireTimeout, CancelTimeout, OpStep, Making
  <2>3. \E s \in Plain : Move(q, s)
    BY <1>4, <2>2 DEF CallExpire, CallCancel
  <2>4. QED
    BY <1>1, <2>3
<1>5. CASE CallCreate(q)
  <2>1. Rejected(Row(q)) \in {"reject_force", "reject_release"}
    BY DEF Rejected
  <2>2. PICK s \in {"create_ok", "create_unknown", "reject_force", "reject_release"} : Move(q, s)
    BY <1>5, <2>1 DEF CallCreate
  <2>3. s \in OpStep /\ s # "idle" /\ s # "expired_release"
    BY <2>2 DEF OpStep
  <2>4. /\ op'[q].at = s /\ Row(q)' = Row(q)
        /\ \A x \in Operations \ {q} : op'[x] = op[x]
    BY <2>2, <2>3, Moving
  <2>5. QED
    BY <1>5, <2>3, <2>4 DEF OpMoves, CallCreate, At
<1>6. CASE At(q, "expired_order") /\ Move(q, "expired_release")
  <2>1. Over(Row(q))
    BY <1>6 DEF At, OperationsKnow, RestsOn, Over
  <2>2. /\ op'[q].at = "expired_release" /\ Row(q)' = Row(q)
        /\ \A x \in Operations \ {q} : op'[x] = op[x]
    BY <1>6, Moving DEF OpStep
  <2>3. QED
    BY <2>1, <2>2 DEF OpMoves, Maker, Making
<1>7. CASE WriteFails(q)
  BY <1>1, <1>6, <1>7 DEF WriteFails, OpStep, Making
<1>8. QED
  BY <1>1, <1>2, <1>3, <1>4, <1>5, <1>6, <1>7 DEF ExpireOrder

LEMMA CreateHolds ==
  ASSUME SystemTypeOK, HoldInv, NEW q \in Operations, NEW i \in Intents,
         CreateIntent(q, i) \/ CreatePayment(q, i)
  PROVE  /\ MakersAreAlone' /\ EarlyReleases'
         /\ \A x \in Operations : op'[x].at = "expired_release" => Over(Row(x))'
<1>1. /\ op'[q].at = "create_call" /\ Row(q)' = i
      /\ \A x \in Operations \ {q} : op'[x] = op[x] /\ Row(x)' = Row(x)
  BY Moving DEF CreateIntent, CreatePayment, OpStep, Row
<1>2. /\ pay[i].status = "NONE" /\ pay[i].hasRef = FALSE
      /\ UNCHANGED <<provider, effects>>
  BY DEF CreateIntent, CreatePayment, HoldInv, MakersAreAlone
<1>3. /\ pay'[i].status # "NONE" /\ pay'[i].hasRef = FALSE
      /\ \A j \in Intents \ {i} : pay'[j] = pay[j]
  BY <1>2 DEF CreateIntent, CreatePayment, SystemTypeOK, RowsTypeOK, PayRow
<1>4. \A x \in Operations \ {q} : Maker(x)' => Maker(x) /\ Row(x) \in Intents \ {i}
  <2>1. SUFFICES ASSUME NEW x \in Operations \ {q}, Maker(x)' PROVE Maker(x) /\ Row(x) # i /\ Row(x) \in Intents
    OBVIOUS
  <2>2. Maker(x)
    BY <1>1, <2>1 DEF Maker
  <2>3. Row(x) \in Intents
    BY OperationTypes DEF SystemTypeOK
  <2>4. QED
    BY <1>2, <2>2, <2>3 DEF HoldInv, MakersAreAlone
<1>5. MakersAreAlone'
  <2>1. ASSUME NEW x \in Operations, NEW y \in Operations, Maker(x)', Maker(y)', Row(x)' = Row(y)'
        PROVE  x = y
    BY <1>1, <1>4, <2>1 DEF HoldInv, MakersAreAlone
  <2>2. ASSUME NEW x \in Operations, Maker(x)'
        PROVE  pay'[Row(x)'].status # "NONE" /\ pay'[Row(x)'].hasRef = FALSE
    <3>1. CASE x = q
      BY <1>1, <1>3, <3>1
    <3>2. CASE x # q
      BY <1>1, <1>3, <1>4, <2>2, <3>2 DEF HoldInv, MakersAreAlone
    <3>3. QED
      BY <3>1, <3>2
  <2>3. \A j \in Intents : pay'[j].status = "NONE" => pay'[j].hasRef = FALSE
    BY <1>3 DEF HoldInv, MakersAreAlone
  <2>4. QED
    BY <2>1, <2>2, <2>3 DEF MakersAreAlone
<1>6. EarlyReleases'
  <2>1. SUFFICES ASSUME NEW j \in Intents, Released(j)', ~Over(j)'
                 PROVE  /\ pay'[j].status # "NONE" /\ pay'[j].hasRef = FALSE
                        /\ \A x \in Operations : Row(x)' = j => op'[x].at \notin Making
    BY DEF EarlyReleases
  <2>2. Released(j) /\ ~Over(j)
    BY <1>2, <2>1 DEF Released, Has, Over
  <2>3. /\ pay[j].status # "NONE" /\ pay[j].hasRef = FALSE
        /\ \A x \in Operations : Row(x) = j => op[x].at \notin Making
    BY <2>2 DEF HoldInv, EarlyReleases
  <2>4. j # i
    BY <1>2, <2>3
  <2>5. QED
    BY <1>1, <1>3, <2>3, <2>4
<1>7. ASSUME NEW x \in Operations, op'[x].at = "expired_release" PROVE Over(Row(x))'
  BY <1>1, <1>2, <1>7 DEF HoldInv, ReleasersKnow, Over
<1>8. QED
  BY <1>5, <1>6, <1>7

(* The reference is set by the only creation there is, which has released  *)
(* nothing.                                                                *)
LEMMA ActivateHolds ==
  ASSUME SystemTypeOK, HoldInv, NEW q \in Operations, ActivateIntent(q)
  PROVE  MakersAreAlone' /\ EarlyReleases'
<1> DEFINE i == Row(q)
<1>1. /\ i \in Intents /\ Maker(q) /\ op[q].at \in Making
      /\ \A x \in Operations : Row(x) \in Intents
  BY OperationTypes DEF SystemTypeOK, ActivateIntent, At, Maker, Making
<1>2. /\ op'[q].at = "idle" /\ \A x \in Operations \ {q} : op'[x] = op[x] /\ Row(x)' = Row(x)
      /\ UNCHANGED <<provider, effects>>
  BY Moving DEF ActivateIntent, OpStep, Row
<1>3. pay'[i].status # "NONE" /\ \A j \in Intents \ {i} : pay'[j] = pay[j]
  BY <1>1 DEF ActivateIntent, SystemTypeOK, RowsTypeOK, PayRow
<1>4. \A x \in Operations : Maker(x)' => /\ x # q /\ Maker(x) /\ Row(x)' = Row(x) /\ Row(x) # i
  BY <1>1, <1>2 DEF Maker, Making, HoldInv, MakersAreAlone
<1>5. MakersAreAlone'
  <2>1. ASSUME NEW x \in Operations, NEW y \in Operations, Maker(x)', Maker(y)', Row(x)' = Row(y)'
        PROVE  x = y
    BY <1>4, <2>1 DEF HoldInv, MakersAreAlone
  <2>2. ASSUME NEW x \in Operations, Maker(x)'
        PROVE  pay'[Row(x)'].status # "NONE" /\ pay'[Row(x)'].hasRef = FALSE
    BY <1>1, <1>3, <1>4, <2>2 DEF HoldInv, MakersAreAlone
  <2>3. \A j \in Intents : pay'[j].status = "NONE" => pay'[j].hasRef = FALSE
    BY <1>3 DEF HoldInv, MakersAreAlone
  <2>4. QED
    BY <2>1, <2>2, <2>3 DEF MakersAreAlone
<1>6. EarlyReleases'
  <2>1. SUFFICES ASSUME NEW j \in Intents, Released(j)', ~Over(j)'
                 PROVE  /\ pay'[j].status # "NONE" /\ pay'[j].hasRef = FALSE
                        /\ \A x \in Operations : Row(x)' = j => op'[x].at \notin Making
    BY DEF EarlyReleases
  <2>2. Released(j) /\ ~Over(j)
    BY <1>2, <2>1 DEF Released, Has, Over
  <2>3. /\ pay[j].status # "NONE" /\ pay[j].hasRef = FALSE
        /\ \A x \in Operations : Row(x) = j => op[x].at \notin Making
    BY <2>2 DEF HoldInv, EarlyReleases
  <2>4. j # i
    BY <1>1, <2>3
  <2>5. QED
    BY <1>2, <1>3, <2>3, <2>4 DEF Making
<1>7. QED
  BY <1>5, <1>6

(* A rejected creation gives back what it holds, and shows no code.        *)
LEMMA RejectHolds ==
  ASSUME SystemTypeOK, HoldInv, NEW q \in Operations, RejectRelease(q)
  PROVE  MakersAreAlone' /\ EarlyReleases'
<1> DEFINE i == Row(q)
<1>1. /\ i \in Intents /\ Maker(q)
  BY OperationTypes DEF SystemTypeOK, RejectRelease, At, Maker
<1>2. /\ op'[q].at = "reject_force"
      /\ \A x \in Operations : Row(x)' = Row(x) /\ (x # q => op'[x] = op[x])
      /\ UNCHANGED <<provider, pay>>
  BY Moving DEF RejectRelease, OpStep, Row
<1>3. \A j \in Intents \ {i} : effects'[j] = effects[j]
  BY <1>1 DEF RejectRelease, ReleaseReservations, Perform, SystemTypeOK, RowsTypeOK
<1>4. /\ pay[i].status # "NONE" /\ pay[i].hasRef = FALSE
      /\ \A x \in Operations \ {q} : Row(x) = i => ~Maker(x)
  BY <1>1 DEF HoldInv, MakersAreAlone
<1>5. MakersAreAlone'
  BY <1>2 DEF HoldInv, MakersAreAlone, Maker, Making
<1>6. EarlyReleases'
  <2>1. SUFFICES ASSUME NEW j \in Intents, Released(j)', ~Over(j)'
                 PROVE  /\ pay'[j].status # "NONE" /\ pay'[j].hasRef = FALSE
                        /\ \A x \in Operations : Row(x)' = j => op'[x].at \notin Making
    BY DEF EarlyReleases
  <2>2. CASE j = i
    BY <1>2, <1>4, <2>2 DEF Maker, Making
  <2>3. CASE j # i
    <3>1. Released(j) /\ ~Over(j)
      BY <1>2, <1>3, <2>1, <2>3 DEF Released, Has, Over
    <3>2. QED
      BY <1>2, <3>1 DEF HoldInv, EarlyReleases, Making
  <2>4. QED
    BY <2>2, <2>3
<1>7. QED
  BY <1>5, <1>6

LEMMA OperationStepHolds ==
  ASSUME SystemEvidence, HoldInv, MoneyStays, CheckoutStep \/ GatewayStep
  PROVE  /\ MakersAreAlone' /\ EarlyReleases'
         /\ \A x \in Operations : op'[x].at = "expired_release" => Over(Row(x))'
<1>1. PICK q \in Operations :
        \/ \E i \in Intents : \/ CreateIntent(q, i) \/ RequestExpire(q, i) \/ ClaimLookup(q, i)
                             \/ CreatePayment(q, i) \/ RequestCancel(q, i)
        \/ OperationStep(q) \/ WriteFails(q) \/ Abandon(q)
        \/ CancelUnknown(q) \/ CallCancel(q)
  BY DEF CheckoutStep, GatewayStep
<1>2. /\ SystemTypeOK /\ OperationsKnow /\ MakersAreAlone /\ ReleasersKnow /\ EarlyReleases
      /\ pay \in [Intents -> PayRow] /\ effects \in [Intents -> SUBSET Effect]
      /\ Row(q) \in Intents
  BY DEF SystemEvidence, HoldInv, SystemTypeOK, RowsTypeOK, CheckoutTypeOK, Row
<1>3. CASE \E i \in Intents : CreateIntent(q, i) \/ CreatePayment(q, i)
  BY <1>2, <1>3, CreateHolds
<1>4. ASSUME ~\E i \in Intents : CreateIntent(q, i) \/ CreatePayment(q, i)
      PROVE  OpMoves(q)
  <2> DEFINE Plain == OpStep \ (Making \cup {"reject_release", "expired_release"})
  <2>1. CASE \/ ReadForLookup(q) \/ CallLookup(q) \/ CallExpire(q) \/ CallCancel(q) \/ CallCreate(q)
             \/ WriteFails(q) \/ ExpireOrder(q)
    BY <1>2, <2>1, PlainMoves
  <2>2. CASE \E s \in Plain : Move(q, s) \/ \E i \in Intents : Enter(q, i, s)
    BY <1>2, <2>2, PlainMoves
  <2>3. CASE \E i \in Intents : RequestExpire(q, i) \/ ClaimLookup(q, i) \/ RequestCancel(q, i)
    BY <2>2, <2>3 DEF RequestExpire, ClaimLookup, RequestCancel, OpStep, Making
  <2>4. QED
    BY <1>1, <1>4, <2>1, <2>2, <2>3 DEF OperationStep, ActivateIntent, CreateUnknown, RejectRelease,
       RejectForce, RejectOrder, ExpireUnknown, ForcePending, ForcePaid, ForceExpired,
       ReleaseExpired, ForceCancelled, CancelOrder, Abandon, CancelUnknown, OpStep, Making
<1>5. CASE ActivateIntent(q) \/ RejectRelease(q)
  <2>1. ~\E i \in Intents : CreateIntent(q, i) \/ CreatePayment(q, i)
    BY <1>5 DEF ActivateIntent, RejectRelease, CreateIntent, CreatePayment, At
  <2>2. \A x \in Operations : op'[x].at = "expired_release" => Over(Row(x))'
    BY <1>2, <1>4, <2>1, OpMovesKeep
  <2>3. QED
    BY <1>2, <1>5, <2>2, ActivateHolds, RejectHolds
<1>6. ASSUME ~ActivateIntent(q), ~\E i \in Intents : CreateIntent(q, i) \/ CreatePayment(q, i)
      PROVE  PayKept
  <2>1. CASE UNCHANGED pay
    BY <2>1 DEF PayKept
  <2>2. CASE \E i \in Intents : RequestExpire(q, i) \/ RequestCancel(q, i)
    BY <1>2, <2>2 DEF RequestExpire, RequestCancel, PayKept, PayRow
  <2>3. CASE \E s \in Status \ {"NONE"}, o \in Operation : ForceStatus(Row(q), s, o)
    BY <1>2, <2>3 DEF ForceStatus, PayKept, PayRow
  <2>4. CASE \/ CreateUnknown(q) \/ ExpireUnknown(q) \/ RejectForce(q)
             \/ ForcePending(q) \/ ForcePaid(q) \/ ForceExpired(q) \/ ForceCancelled(q)
             \/ CancelUnknown(q)
    BY <2>3, <2>4 DEF CreateUnknown, ExpireUnknown, RejectForce, ForcePending, ForcePaid,
       ForceExpired, ForceCancelled, CancelUnknown, Status, OpenStatus, TerminalUnpaid, Operation
  <2>5. QED
    BY <1>1, <1>6, <2>1, <2>2, <2>4 DEF OperationStep, CallCreate, CallExpire, CallCancel,
       ClaimLookup, RejectRelease, RejectOrder, ReadForLookup, CallLookup, ExpireOrder,
       ReleaseExpired, CancelOrder, WriteFails, Abandon, rows
<1>7. ASSUME ~RejectRelease(q)
      PROVE  HoldsKept
  <2>1. CASE UNCHANGED effects
    BY <2>1 DEF HoldsKept, Released, Has
  <2>2. CASE ReleaseExpired(q)
    <3>1. Over(Row(q))
      BY <1>2, <2>2 DEF ReleaseExpired, At, ReleasersKnow
    <3>2. \A i \in Intents : i = Row(q) \/ effects'[i] = effects[i]
      BY <1>2, <2>2 DEF ReleaseExpired, ReleaseReservations, Perform
    <3>3. QED
      BY <3>1, <3>2 DEF HoldsKept, Released, Has
  <2>3. QED
    BY <1>1, <1>7, <2>1, <2>2 DEF OperationStep, CallCreate, CallExpire, CallCancel, CreateIntent,
       CreatePayment, RequestExpire, RequestCancel, CancelUnknown, ClaimLookup, ActivateIntent,
       CreateUnknown, RejectForce, RejectOrder, ExpireUnknown, ReadForLookup, CallLookup,
       ForcePending, ForcePaid, ForceExpired, ExpireOrder, ForceCancelled, CancelOrder, WriteFails,
       Abandon, rows
<1>8. CASE /\ ~ActivateIntent(q) /\ ~RejectRelease(q)
           /\ ~\E i \in Intents : CreateIntent(q, i) \/ CreatePayment(q, i)
  BY <1>2, <1>4, <1>6, <1>7, <1>8, OpMovesKeep, KeptStep
<1>9. QED
  BY <1>3, <1>5, <1>8

----------------------------------------------------------------------------
(* The theorem.                                                            *)

LEMMA HoldInit == SystemInit => HoldInv
<1> SUFFICES ASSUME SystemInit PROVE HoldInv
  OBVIOUS
<1>1. /\ \A q \in Operations : op[q].at = "idle"
      /\ \A p \in Handlers : handler[p].at = "idle"
      /\ \A i \in Intents : pay[i].hasRef = FALSE /\ effects[i] = {}
  BY DEF SystemInit, CheckoutInit, CallbacksInit, Resting, Idle
<1>2. \A q \in Operations : ~Maker(q)
  BY <1>1 DEF Maker, Making
<1>3. \A i \in Intents : ~Released(i)
  BY <1>1 DEF Released, Has
<1>4. QED
  BY <1>1, <1>2, <1>3 DEF HoldInv, MakersAreAlone, ReleasersKnow, EarlyReleases

LEMMA HoldStep == SystemEvidence /\ HoldInv /\ [SystemNext]_systemVars => HoldInv'
<1> SUFFICES ASSUME SystemEvidence, HoldInv, [SystemNext]_systemVars PROVE HoldInv'
  OBVIOUS
<1>1. SystemTypeOK /\ MoneyStays /\ MakersAreAlone /\ ReleasersKnow /\ EarlyReleases
  BY SystemStepMoney DEF SystemEvidence, HoldInv
<1>2. \A x \in Operations : Row(x) \in Intents
  BY <1>1, OperationTypes DEF SystemTypeOK
<1>3. ASSUME UNCHANGED op
      PROVE  /\ \A q \in Operations : OpKept(q)
             /\ \A q \in Operations : op'[q].at = "expired_release" => Over(Row(q))'
  BY <1>1, <1>2, <1>3 DEF OpKept, Maker, Row, ReleasersKnow, Over, MoneyStays
<1>4. ASSUME UNCHANGED <<handler, event>>
      PROVE  \A p \in Handlers :
               handler'[p].at = "release_holds" => event'[handler'[p].for].type \in UnpaidEnd
  BY <1>1, <1>4 DEF ReleasersKnow
<1>5. CASE CallbacksRun
  BY <1>1, <1>3, <1>5, KeptStep, CallbackStepKeepsPay, CallbackStepKeepsHolds, CallbackStepReleasers
     DEF CallbacksRun, HoldInv, ReleasersKnow
<1>6. CASE CheckoutRuns \/ GatewayRuns
  BY <1>1, <1>4, <1>6, OperationStepHolds
     DEF CheckoutRuns, GatewayRuns, callbackVars, HoldInv, ReleasersKnow
<1>7. CASE ProviderActs \/ UNCHANGED systemVars
  <2>1. UNCHANGED <<pay, effects, op, handler, event>>
    BY <1>7 DEF ProviderActs, ProviderStep, systemVars, vars, rows, callbackVars
  <2>2. PayKept /\ HoldsKept
    BY <2>1 DEF PayKept, HoldsKept, Released, Has
  <2>3. QED
    BY <1>1, <1>3, <1>4, <2>1, <2>2, KeptStep DEF HoldInv, ReleasersKnow
<1>8. CASE HoldsEnd
  <2>1. UNCHANGED <<pay, op, handler, event>> /\ OthersKept
    BY <1>1, <1>8, HoldsEndKeeps DEF callbackVars
  <2>2. PayKept /\ HoldsKept
    BY <2>1 DEF PayKept, HoldsKept, Released, OthersKept, Effect
  <2>3. QED
    BY <1>1, <1>3, <1>4, <2>1, <2>2, KeptStep DEF HoldInv, ReleasersKnow
<1>9. QED
  BY <1>5, <1>6, <1>7, <1>8 DEF SystemNext

(* ExpireIntent, LookupProvider and the callbacks release stock and coupon *)
(* only when the provider has ended the payment, and a creation only       *)
(* before the buyer has a code: none of them takes the stock from under a  *)
(* payment that may still arrive.  A lapse of the holds is not one of them.*)
THEOREM SystemEndersKeepHolds == SystemSpec => []EndersKeepHolds
<1>1. SystemEvidence /\ HoldInv => EndersKeepHolds
  <2> SUFFICES ASSUME SystemEvidence, HoldInv, NEW i \in Intents,
                      pay[i].hasRef, provider[i] = {"CREATED"}, Has(i, "HOLDS_RELEASED")
               PROVE  FALSE
    BY DEF EndersKeepHolds
  <2>1. ~Over(i)
    BY DEF Over
  <2>2. pay[i].hasRef = FALSE
    BY <2>1 DEF HoldInv, EarlyReleases, Released
  <2>3. QED
    BY <2>2
<1>2. QED
  BY <1>1, HoldInit, HoldStep, SystemEvidenceInit, SystemEvidenceStep, PTL DEF SystemSpec
=============================================================================
