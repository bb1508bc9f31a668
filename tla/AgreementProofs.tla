---------------------------- MODULE AgreementProofs ----------------------------
(***************************************************************************)
(* The callback path alone, without the checkout's unguarded writes: why   *)
(* the intent, the order and the settlement always agree.  The argument    *)
(* rests on the row locks: between the step that reads an intent FOR       *)
(* UPDATE and the commit, nobody else changes its status.                  *)
(***************************************************************************)
EXTENDS PaymentProofs

TransactionsExclude ==
  \A p \in Handlers : InTransaction(p) =>
    /\ Subject(p) \in locked
    /\ \A q \in Handlers \ {p} : InTransaction(q) => Subject(q) # Subject(p)

(* What a handler read under the lock, or before the effects, still holds. *)
Holds(p) ==
  /\ handler[p].at = "release_holds" => event[handler[p].for].type \in UnpaidEnd
  /\ InTransaction(p) /\ event[handler[p].for].type \in UnpaidEnd => NeedsTerminal(Subject(p))
  /\ handler[p].at \in {"ledger", "fulfil"} => IsPaid(Subject(p))

Agreement ==
  /\ TransactionsExclude
  /\ \A p \in Handlers : Holds(p)
  /\ RowsAgree
  /\ EffectsFollowSettlement

----------------------------------------------------------------------------
(* Frames: what steps of one handler leave to the others.                  *)

OthersWait(p) == \A q \in Handlers \ {p} : handler'[q] = handler[q]

(* What a step of p may do to locks and transactions.                      *)
Ends(p)    == /\ ~InTransaction(p)'
              /\ locked \ (IF InTransaction(p) THEN {Subject(p)} ELSE {}) \subseteq locked'
Goes(p)    == InTransaction(p) /\ locked' = locked
Begins(p)  == Unlocked(Subject(p)) /\ locked' = locked \cup {Subject(p)}
Locking(p) == Ends(p) \/ (Subject(p)' = Subject(p) /\ (Goes(p) \/ Begins(p)))

(* A working handler's event says the same afterwards.                     *)
LEMMA SubjectStays ==
  ASSUME TypeOK, NEW q \in Handlers, Knows(q), handler'[q].for = handler[q].for,
         handler[q].at # "idle", EventsStay
  PROVE  /\ Subject(q)' = Subject(q)
         /\ event'[handler'[q].for].type = event[handler[q].for].type
<1>1. handler[q].for \in Events
  BY DEF TypeOK, CallbacksTypeOK
<1>2. QED
  BY <1>1 DEF Knows, EventsStay, Subject

LEMMA LocksStay ==
  ASSUME TypeOK, Evidence, TransactionsExclude, NEW p \in Handlers,
         OthersWait(p), EventsStay, Locking(p)
  PROVE  TransactionsExclude'
<1>1. ASSUME NEW q \in Handlers \ {p}
      PROVE  /\ InTransaction(q)' <=> InTransaction(q)
             /\ InTransaction(q) => Subject(q)' = Subject(q)
  <2>1. handler'[q] = handler[q] /\ Knows(q)
    BY <1>1 DEF OthersWait, Evidence
  <2>2. InTransaction(q) => handler[q].at # "idle"
    BY DEF InTransaction
  <2>3. QED
    BY <1>1, <2>1, <2>2, SubjectStays DEF InTransaction
<1>2. CASE Ends(p)
  <2>1. SUFFICES ASSUME NEW q \in Handlers, InTransaction(q)'
                 PROVE  /\ Subject(q)' \in locked'
                        /\ \A x \in Handlers \ {q} : InTransaction(x)' => Subject(x)' # Subject(q)'
    BY DEF TransactionsExclude
  <2>2. q # p /\ InTransaction(q) /\ Subject(q)' = Subject(q)
    BY <1>1, <1>2, <2>1 DEF Ends
  <2>3. Subject(q) \in locked /\ (InTransaction(p) => Subject(p) # Subject(q))
    BY <2>1, <2>2 DEF TransactionsExclude
  <2>4. ASSUME NEW x \in Handlers \ {q}, InTransaction(x)' PROVE Subject(x)' # Subject(q)'
    <3>1. x # p /\ InTransaction(x) /\ Subject(x)' = Subject(x)
      BY <1>1, <1>2, <2>4 DEF Ends
    <3>2. QED
      BY <2>1, <2>2, <2>4, <3>1 DEF TransactionsExclude
  <2>5. QED
    BY <1>2, <2>2, <2>3, <2>4 DEF Ends
<1>3. CASE Subject(p)' = Subject(p) /\ Goes(p)
  BY <1>1, <1>3 DEF TransactionsExclude, Goes
<1>4. CASE Subject(p)' = Subject(p) /\ Begins(p)
  <2>1. \A q \in Handlers \ {p} : InTransaction(q)' => Subject(q)' # Subject(p)'
    BY <1>1, <1>4 DEF Begins, Unlocked, TransactionsExclude
  <2>2. QED
    BY <1>1, <1>4, <2>1 DEF Begins, TransactionsExclude
<1>5. QED
  BY <1>2, <1>3, <1>4 DEF Locking

LEMMA OthersHold ==
  ASSUME TypeOK, Evidence, NEW q \in Handlers, Holds(q), handler'[q] = handler[q], EventsStay,
         InTransaction(q) => pay'[Subject(q)].status = pay[Subject(q)].status,
         \A i \in Intents : IsPaid(i) => pay'[i].status = "PAID"
  PROVE  Holds(q)'
<1>1. Subject(q) \in Intents
  BY DEF TypeOK, CallbacksTypeOK, EventRow, Subject
<1>2. CASE handler[q].at = "idle"
  BY <1>2 DEF Holds, InTransaction
<1>3. CASE handler[q].at # "idle"
  <2>1. /\ Subject(q)' = Subject(q)
        /\ event'[handler'[q].for].type = event[handler[q].for].type
    BY <1>3, SubjectStays DEF Evidence
  <2>2. QED
    BY <1>1, <2>1 DEF Holds, InTransaction, NeedsTerminal, IsPaid
<1>4. QED
  BY <1>2, <1>3

(* The rows of a payment as RowsAgree reads them.                          *)
Quiet ==
  \A i \in Intents : /\ pay'[i].status = pay[i].status /\ pay'[i].paidLate = pay[i].paidLate
                     /\ order'[i] = order[i] /\ settlement'[i] = settlement[i]

(* New effects outside the rows: sale effects only of a paid intent.       *)
EffectsOfPaid ==
  \A i \in Intents : (Has(i, "LEDGER") \/ Has(i, "FULFILLED"))' =>
                       IsPaid(i) \/ Has(i, "LEDGER") \/ Has(i, "FULFILLED")

(* A step that leaves the rows alone keeps the agreement.                  *)
LEMMA QuietStep ==
  ASSUME TypeOK, Evidence, Agreement, NEW p \in Handlers,
         OthersWait(p), EventsStay, Locking(p), Quiet, EffectsOfPaid, Holds(p)'
  PROVE  Agreement'
<1>1. TransactionsExclude'
  BY LocksStay DEF Agreement
<1>2. ASSUME NEW q \in Handlers PROVE Holds(q)'
  <2>1. Subject(q) \in Intents
    BY DEF TypeOK, CallbacksTypeOK, EventRow, Subject
  <2>2. QED
    BY <2>1, OthersHold DEF Agreement, OthersWait, Quiet, IsPaid
<1>3. RowsAgree'
  BY DEF Agreement, RowsAgree, Quiet, IsPaid
<1>4. EffectsFollowSettlement'
  BY DEF Agreement, RowsAgree, EffectsFollowSettlement, EffectsOfPaid, Quiet
<1>5. QED
  BY <1>1, <1>2, <1>3, <1>4 DEF Agreement

----------------------------------------------------------------------------
(* Every step of the callback path keeps what accepted events say.         *)
LEMMA SetStateStays ==
  ASSUME TypeOK, NEW e \in Events, NEW s \in EventState \ {"NONE"}, SetState(e, s)
  PROVE  EventsStay
<1>1. event' = [event EXCEPT ![e] = [event[e] EXCEPT !.state = s]]
  BY DEF SetState
<1>2. event \in [Events -> EventRow]
  BY DEF TypeOK, CallbacksTypeOK
<1>3. QED
  BY <1>1, <1>2 DEF EventsStay, EventRow

(* A handler of a processing step, and its event, afterwards.              *)
LEMMA Moved ==
  ASSUME TypeOK, Evidence, NEW p \in Handlers, NEW at \in Step, Goto(p, at),
         handler[p].at # "idle",
         event' = event \/ \E s \in EventState \ {"NONE"} : SetState(handler[p].for, s)
  PROVE  /\ OthersWait(p) /\ EventsStay
         /\ handler'[p].at = at
         /\ Subject(p)' = Subject(p)
         /\ event'[handler'[p].for].type = event[handler[p].for].type
<1>1. handler' = [handler EXCEPT ![p] = [handler[p] EXCEPT !.at = at]]
  BY DEF Goto
<1>2. handler \in [Handlers -> [at : Step, for : Events]]
  BY DEF TypeOK, CallbacksTypeOK
<1>3. EventsStay
  <2>1. handler[p].for \in Events
    BY <1>2
  <2>2. CASE event' = event
    BY <2>2 DEF EventsStay
  <2>3. CASE \E s \in EventState \ {"NONE"} : SetState(handler[p].for, s)
    BY <2>1, <2>3, SetStateStays
  <2>4. QED
    BY <2>2, <2>3
<1>4. OthersWait(p) /\ handler'[p].at = at /\ handler'[p].for = handler[p].for
  BY <1>1, <1>2 DEF OthersWait
<1>5. QED
  BY <1>3, <1>4, SubjectStays DEF Evidence

(* A step out of a transaction, or outside any, that touches no row.       *)
LEMMA PlainStep ==
  ASSUME TypeOK, Evidence, Agreement, NEW p \in Handlers,
         NEW at \in {"ledger", "fulfil", "finish", "finish_failed"}, Goto(p, at),
         handler[p].at # "idle",
         event' = event \/ \E s \in EventState \ {"NONE"} : SetState(handler[p].for, s),
         locked' = IF InTransaction(p) THEN locked \ {Subject(p)} ELSE locked,
         Quiet, EffectsOfPaid, at \in {"ledger", "fulfil"} => IsPaid(Subject(p))
  PROVE  Agreement'
<1>1. /\ OthersWait(p) /\ EventsStay /\ handler'[p].at = at /\ Subject(p)' = Subject(p)
  BY Moved DEF Step
<1>2. Subject(p) \in Intents
  BY DEF TypeOK, CallbacksTypeOK, EventRow, Subject
<1>3. Locking(p)
  BY <1>1 DEF Locking, Ends, InTransaction
<1>4. Holds(p)'
  BY <1>1, <1>2 DEF Holds, InTransaction, Quiet, IsPaid
<1>5. QED
  BY <1>1, <1>3, <1>4, QuietStep

(* A handler that comes to rest, its work done or its process lost.        *)
LEMMA RestStep ==
  ASSUME TypeOK, Evidence, Agreement, NEW p \in Handlers,
         GoIdle(p), UNCHANGED event, Quiet, EffectsOfPaid,
         locked' = IF InTransaction(p) THEN locked \ {Subject(p)} ELSE locked
  PROVE  Agreement'
<1>1. handler' = [handler EXCEPT ![p] = Idle]
  BY DEF GoIdle
<1>2. handler \in [Handlers -> [at : Step, for : Events]]
  BY DEF TypeOK, CallbacksTypeOK
<1>3. OthersWait(p) /\ handler'[p].at = "idle"
  BY <1>1, <1>2 DEF OthersWait, Idle
<1>4. EventsStay
  BY DEF EventsStay
<1>5. Locking(p) /\ Holds(p)'
  BY <1>3 DEF Locking, Ends, InTransaction, Holds
<1>6. QED
  BY <1>3, <1>4, <1>5, QuietStep

(* A step within a transaction.                                            *)
LEMMA InnerStep ==
  ASSUME TypeOK, Evidence, Agreement, NEW p \in Handlers,
         handler[p].at \in {"enqueue_webhook", "release_holds"}, Goto(p, "commit"),
         UNCHANGED <<pay, order, settlement, event, locked>>, EffectsOfPaid
  PROVE  Agreement'
<1>1. /\ OthersWait(p) /\ EventsStay /\ handler'[p].at = "commit" /\ Subject(p)' = Subject(p)
      /\ event'[handler'[p].for].type = event[handler[p].for].type
  BY Moved DEF Step
<1>2. Quiet
  BY DEF Quiet
<1>3. InTransaction(p) /\ Locking(p)
  BY <1>1 DEF Locking, Goes, InTransaction
<1>4. Holds(p)'
  BY <1>1, <1>3 DEF Agreement, Holds, NeedsTerminal, InTransaction
<1>5. QED
  BY <1>1, <1>2, <1>3, <1>4, QuietStep

(* A step that takes the locks.                                            *)
LEMMA BeginStep ==
  ASSUME TypeOK, Evidence, Agreement, NEW p \in Handlers, BeginPaid(p) \/ BeginTerminal(p)
  PROVE  Agreement'
<1>1. PICK at \in {"enqueue_webhook", "release_holds", "commit"} :
        /\ Goto(p, at)
        /\ at = "release_holds" => event[handler[p].for].type \in UnpaidEnd
        /\ event[handler[p].for].type \in UnpaidEnd => NeedsTerminal(Subject(p))
  BY DEF BeginPaid, BeginTerminal, UnpaidEnd
<1>2. /\ UNCHANGED <<rows, event>> /\ handler[p].at = "process"
      /\ Unlocked(Subject(p)) /\ locked' = locked \cup {Subject(p)}
  BY DEF BeginPaid, BeginTerminal, Applies, HasEvent
<1>3. /\ OthersWait(p) /\ EventsStay /\ handler'[p].at = at /\ Subject(p)' = Subject(p)
      /\ event'[handler'[p].for].type = event[handler[p].for].type
  BY <1>1, <1>2, Moved DEF Step
<1>4. Quiet /\ EffectsOfPaid
  BY <1>2 DEF Quiet, EffectsOfPaid, rows, Has
<1>5. Locking(p)
  BY <1>2, <1>3 DEF Locking, Begins
<1>6. Holds(p)'
  BY <1>1, <1>2, <1>3 DEF Holds, NeedsTerminal, rows, InTransaction
<1>7. QED
  BY <1>3, <1>4, <1>5, <1>6, QuietStep

(* The capture: whatever the rows were, they agree afterwards.             *)
LEMMA CommitPaidStep ==
  ASSUME TypeOK, Evidence, Agreement, NEW p \in Handlers, CommitPaid(p)
  PROVE  /\ Agreement'
         /\ \A i \in Intents \ {Subject(p)} :
              pay'[i] = pay[i] /\ order'[i] = order[i] /\ settlement'[i] = settlement[i]
         /\ pay'[Subject(p)].status = "PAID"
         /\ order'[Subject(p)] = "PAID"
         /\ settlement'[Subject(p)] = Settled(Subject(p))
<1>1. /\ pay \in [Intents -> PayRow] /\ order \in [Intents -> OrderStatus]
      /\ settlement \in [Intents -> Settlement] /\ Subject(p) \in Intents
  BY DEF TypeOK, RowsTypeOK, CallbacksTypeOK, EventRow, Subject
<1>2. /\ Goto(p, "ledger") /\ SetState(handler[p].for, "PROCESSED") /\ UNCHANGED effects
      /\ handler[p].at = "commit" /\ event[handler[p].for].type = "PAID"
      /\ locked' = locked \ {Subject(p)}
      /\ settlement' = [settlement EXCEPT ![Subject(p)] = Settled(Subject(p))]
  BY DEF CommitPaid
<1>3. /\ OthersWait(p) /\ EventsStay /\ handler'[p].at = "ledger" /\ Subject(p)' = Subject(p)
  BY <1>2, Moved DEF Step, EventState
<1>4. InTransaction(p) /\ Locking(p)
  BY <1>2, <1>3 DEF Locking, Ends, InTransaction
<1>5. \A i \in Intents \ {Subject(p)} :
        pay'[i] = pay[i] /\ order'[i] = order[i] /\ settlement'[i] = settlement[i]
  BY <1>1, <1>2 DEF CommitPaid
<1>6. /\ pay'[Subject(p)].status = "PAID" /\ order'[Subject(p)] = "PAID"
      /\ settlement'[Subject(p)] = Settled(Subject(p))
      /\ pay'[Subject(p)].paidLate <=> settlement'[Subject(p)] = "LATE"
  <2>1. settlement'[Subject(p)] = Settled(Subject(p))
    BY <1>1, <1>2
  <2>2. CASE IsPaid(Subject(p))
    <3>1. pay' = pay /\ order' = order
      BY <2>2 DEF CommitPaid
    <3>2. QED
      BY <1>1, <2>1, <2>2, <3>1 DEF Agreement, RowsAgree, Settled, IsPaid
  <2>3. CASE ~IsPaid(Subject(p))
    <3>1. /\ pay' = [pay EXCEPT ![Subject(p)] =
                       [@ EXCEPT !.status = "PAID", !.unknownOp = "NONE",
                                 !.paidLate = Late(Subject(p))]]
          /\ order' = [order EXCEPT ![Subject(p)] = "PAID"]
      BY <2>3 DEF CommitPaid
    <3>2. /\ pay'[Subject(p)].status = "PAID" /\ pay'[Subject(p)].paidLate = Late(Subject(p))
          /\ order'[Subject(p)] = "PAID"
      BY <1>1, <3>1 DEF PayRow
    <3>3. settlement[Subject(p)] = "NONE"
      BY <1>1, <2>3 DEF Agreement, RowsAgree
    <3>4. QED
      BY <2>1, <3>2, <3>3 DEF Settled, Late
  <2>4. QED
    BY <2>2, <2>3
<1>7. \A i \in Intents : IsPaid(i) => pay'[i].status = "PAID"
  BY <1>5, <1>6 DEF IsPaid
<1>8. Settled(Subject(p)) # "NONE"
  BY DEF Settled
<1>9. TransactionsExclude'
  BY <1>3, <1>4, LocksStay DEF Agreement
<1>10. ASSUME NEW q \in Handlers PROVE Holds(q)'
  <2>1. CASE q = p
    BY <1>3, <1>6, <2>1 DEF Holds, InTransaction, IsPaid
  <2>2. CASE q # p
    <3>1. Subject(q) \in Intents
      BY DEF TypeOK, CallbacksTypeOK, EventRow, Subject
    <3>2. InTransaction(q) => Subject(q) # Subject(p)
      BY <1>4, <2>2 DEF Agreement, TransactionsExclude
    <3>3. QED
      BY <1>3, <1>5, <1>7, <2>2, <3>1, <3>2, OthersHold DEF Agreement, OthersWait
  <2>3. QED
    BY <2>1, <2>2
<1>11. RowsAgree'
  BY <1>5, <1>6, <1>8 DEF Agreement, RowsAgree, IsPaid
<1>12. EffectsFollowSettlement'
  BY <1>2, <1>5, <1>6, <1>8 DEF Agreement, EffectsFollowSettlement, Has
<1>13. QED
  BY <1>5, <1>6, <1>9, <1>10, <1>11, <1>12 DEF Agreement

(* The unpaid end: the lock kept the intent unpaid since it was read.      *)
LEMMA CommitTerminalStep ==
  ASSUME TypeOK, Evidence, Agreement, NEW p \in Handlers, CommitTerminal(p)
  PROVE  /\ Agreement'
         /\ NeedsTerminal(Subject(p)) /\ ~IsPaid(Subject(p)) /\ order[Subject(p)] # "PAID"
         /\ \A i \in Intents \ {Subject(p)} : pay'[i] = pay[i] /\ order'[i] = order[i]
         /\ pay'[Subject(p)].status \in UnpaidEnd
         /\ UNCHANGED <<settlement, effects>>
<1>1. /\ pay \in [Intents -> PayRow] /\ order \in [Intents -> OrderStatus]
      /\ Subject(p) \in Intents
  BY DEF TypeOK, RowsTypeOK, CallbacksTypeOK, EventRow, Subject
<1>2. /\ Goto(p, "finish") /\ SetState(handler[p].for, "PROCESSED")
      /\ UNCHANGED <<settlement, effects>>
      /\ handler[p].at = "commit" /\ event[handler[p].for].type \in UnpaidEnd
      /\ locked' = locked \ {Subject(p)}
  BY DEF CommitTerminal
<1>3. /\ OthersWait(p) /\ EventsStay /\ handler'[p].at = "finish" /\ Subject(p)' = Subject(p)
  BY <1>2, Moved DEF Step, EventState
<1>4. InTransaction(p) /\ Locking(p)
  BY <1>2, <1>3 DEF Locking, Ends, InTransaction
<1>5. NeedsTerminal(Subject(p)) /\ ~IsPaid(Subject(p)) /\ order[Subject(p)] # "PAID"
  BY <1>1, <1>2, <1>4 DEF Agreement, Holds, RowsAgree, NeedsTerminal, IsPaid
<1>6. /\ \A i \in Intents \ {Subject(p)} : pay'[i] = pay[i] /\ order'[i] = order[i]
      /\ pay'[Subject(p)].status \in UnpaidEnd /\ order'[Subject(p)] \in UnpaidEnd
      /\ pay'[Subject(p)].paidLate = pay[Subject(p)].paidLate
  BY <1>1, <1>5 DEF CommitTerminal, PayRow
<1>7. \A i \in Intents : IsPaid(i) => pay'[i].status = "PAID"
  BY <1>5, <1>6 DEF IsPaid
<1>8. TransactionsExclude'
  BY <1>3, <1>4, LocksStay DEF Agreement
<1>9. ASSUME NEW q \in Handlers PROVE Holds(q)'
  <2>1. CASE q = p
    BY <1>3, <2>1 DEF Holds, InTransaction
  <2>2. CASE q # p
    <3>1. Subject(q) \in Intents
      BY DEF TypeOK, CallbacksTypeOK, EventRow, Subject
    <3>2. InTransaction(q) => Subject(q) # Subject(p)
      BY <1>4, <2>2 DEF Agreement, TransactionsExclude
    <3>3. QED
      BY <1>3, <1>6, <1>7, <2>2, <3>1, <3>2, OthersHold DEF Agreement, OthersWait
  <2>3. QED
    BY <2>1, <2>2
<1>10. RowsAgree'
  BY <1>1, <1>2, <1>5, <1>6 DEF Agreement, RowsAgree, IsPaid, UnpaidEnd
<1>11. EffectsFollowSettlement'
  BY <1>2 DEF Agreement, EffectsFollowSettlement, Has
<1>12. QED
  BY <1>2, <1>5, <1>6, <1>8, <1>9, <1>10, <1>11 DEF Agreement

----------------------------------------------------------------------------
(* The steps in between, and the whole of ProcessEvent.                    *)

LEMMA ProcessingAgreement ==
  ASSUME TypeOK, TypeOK', Evidence, Agreement, NEW p \in Handlers, ProcessEvent(p)
  PROVE  Agreement'
<1>1. /\ pay \in [Intents -> PayRow] /\ effects \in [Intents -> SUBSET Effect]
      /\ Subject(p) \in Intents /\ Holds(p)
  BY DEF TypeOK, RowsTypeOK, CallbacksTypeOK, EventRow, Subject, Agreement
<1>2. UNCHANGED rows => Quiet /\ EffectsOfPaid
  BY DEF Quiet, EffectsOfPaid, rows, Has
<1>3. CASE AlreadyProcessed(p)
  <2>1. PICK at \in {"ledger", "finish"} : Goto(p, at) /\ (at = "ledger" => IsPaid(Subject(p)))
    BY <1>3 DEF AlreadyProcessed, Repair, AfterCommit, IsPaid, rows
  <2>2. UNCHANGED <<rows, locked, event>> /\ handler[p].at = "process"
    BY <1>3 DEF AlreadyProcessed, HasEvent
  <2>3. QED
    BY <1>2, <2>1, <2>2, PlainStep DEF InTransaction
<1>4. CASE Quarantine(p)
  <2>1. /\ Goto(p, "finish") /\ SetState(handler[p].for, "QUARANTINED")
        /\ UNCHANGED <<rows, locked>> /\ handler[p].at = "process"
    BY <1>4 DEF Quarantine, HasEvent
  <2>2. QED
    BY <1>2, <2>1, PlainStep DEF InTransaction, EventState
<1>5. CASE ApplyNothing(p)
  <2>1. PICK at \in {"ledger", "finish"} : Goto(p, at) /\ (at = "ledger" => IsPaid(Subject(p)))
    BY <1>5 DEF ApplyNothing, AfterCommit, IsPaid, rows
  <2>2. /\ SetState(handler[p].for, "PROCESSED")
        /\ UNCHANGED <<rows, locked>> /\ handler[p].at = "process"
    BY <1>5 DEF ApplyNothing, Applies, HasEvent
  <2>3. QED
    BY <1>2, <2>1, <2>2, PlainStep DEF InTransaction, EventState
<1>6. CASE ApplyReversal(p)
  <2>1. PICK at \in {"ledger", "finish"} : Goto(p, at)
    BY <1>6 DEF ApplyReversal, AfterCommit
  <2>2. /\ SetState(handler[p].for, "PROCESSED") /\ IsPaid(Subject(p))
        /\ UNCHANGED <<order, settlement, effects, locked>> /\ handler[p].at = "process"
    BY <1>6 DEF ApplyReversal, Applies, HasEvent
  <2>3. pay' = [pay EXCEPT ![Subject(p)] = [pay[Subject(p)] EXCEPT !.held = TRUE]]
    BY <1>6 DEF ApplyReversal
  <2>4. Quiet
    BY <1>1, <2>2, <2>3 DEF Quiet, PayRow
  <2>5. EffectsOfPaid
    BY <2>2 DEF EffectsOfPaid, Has
  <2>6. QED
    BY <2>1, <2>2, <2>4, <2>5, PlainStep DEF InTransaction, EventState
<1>7. CASE BeginPaid(p) \/ BeginTerminal(p)
  BY <1>7, BeginStep
<1>8. CASE EnqueueSellerWebhook(p)
  <2>1. /\ Goto(p, "commit") /\ handler[p].at = "enqueue_webhook"
        /\ UNCHANGED <<pay, order, settlement, event, locked>>
        /\ effects' = [effects EXCEPT ![Subject(p)] = @ \cup {"SELLER_WEBHOOK"}]
    BY <1>8 DEF EnqueueSellerWebhook, Perform
  <2>2. EffectsOfPaid
    BY <1>1, <2>1 DEF EffectsOfPaid, Has
  <2>3. QED
    BY <2>1, <2>2, InnerStep
<1>9. CASE ReleaseHolds(p)
  <2>1. /\ Goto(p, "commit") /\ handler[p].at = "release_holds"
        /\ UNCHANGED <<pay, order, settlement, event, locked>>
        /\ \A i \in Intents : effects'[i] \subseteq effects[i] \cup {"HOLDS_RELEASED"}
    BY <1>1, <1>9 DEF ReleaseHolds, ReleaseReservations, Perform
  <2>2. EffectsOfPaid
    BY <1>1, <2>1 DEF EffectsOfPaid, Has
  <2>3. QED
    BY <2>1, <2>2, InnerStep
<1>10. CASE CommitPaid(p)
  BY <1>10, CommitPaidStep
<1>11. CASE CommitTerminal(p)
  BY <1>11, CommitTerminalStep
<1>12. CASE PostLedger(p) \/ FulfilPaid(p)
  <2>1. PICK at \in {"fulfil", "finish"} : Goto(p, at)
    BY <1>12 DEF PostLedger, FulfilPaid
  <2>2. /\ UNCHANGED <<pay, order, settlement, event, locked>>
        /\ handler[p].at \in {"ledger", "fulfil"}
        /\ \E x : effects' = [effects EXCEPT ![Subject(p)] = @ \cup {x}]
    BY <1>12 DEF PostLedger, FulfilPaid, Perform
  <2>3. IsPaid(Subject(p))
    BY <1>1, <2>2 DEF Holds
  <2>4. Quiet /\ EffectsOfPaid
    BY <1>1, <2>2, <2>3 DEF Quiet, EffectsOfPaid, Has
  <2>5. QED
    BY <2>1, <2>2, <2>3, <2>4, PlainStep DEF InTransaction
<1>13. CASE Finish(p)
  BY <1>2, <1>13, RestStep DEF Finish, InTransaction
<1>14. QED
  BY <1>3, <1>4, <1>5, <1>6, <1>7, <1>8, <1>9, <1>10, <1>11, <1>12, <1>13 DEF ProcessEvent

LEMMA CallbackStepAgreement ==
  ASSUME TypeOK, TypeOK', Evidence, Agreement, CallbackStep
  PROVE  Agreement'
<1>1. PICK p \in Handlers :
        \/ Deliver(p)
        \/ \E e \in Events : ClaimOutbox(p, e) \/ ReplayInbound(p, e)
        \/ ProcessEvent(p) \/ Rollback(p) \/ EffectFails(p) \/ Crash(p)
  BY DEF CallbackStep
<1>2. UNCHANGED rows => Quiet /\ EffectsOfPaid
  BY DEF Quiet, EffectsOfPaid, rows, Has
<1>3. CASE Deliver(p) \/ \E e \in Events : ClaimOutbox(p, e) \/ ReplayInbound(p, e)
  <2>1. PICK e \in Events :
          /\ Start(p, e) /\ UNCHANGED <<rows, locked>> /\ handler[p].at = "idle"
          /\ \/ event' = event
             \/ event[e].state = "NONE" /\ \E r \in EventRow : event' = [event EXCEPT ![e] = r]
             \/ SetState(e, "ACCEPTED")
    <3>1. \A i \in Intents, t \in EventType, m \in BOOLEAN :
            [state |-> "ACCEPTED", intent |-> i, type |-> t, matches |-> m] \in EventRow
      BY DEF EventRow, EventState
    <3>2. QED
      BY <1>3, <3>1 DEF Deliver, AcceptNew, AcceptDuplicate, ClaimOutbox, ReplayInbound
  <2>2. handler' = [handler EXCEPT ![p] = [at |-> "process", for |-> e]]
    BY <2>1 DEF Start
  <2>3. /\ handler \in [Handlers -> [at : Step, for : Events]]
        /\ event \in [Events -> EventRow]
    BY DEF TypeOK, CallbacksTypeOK
  <2>4. EventsStay
    <3>1. CASE event' = event
      BY <3>1 DEF EventsStay
    <3>2. CASE event[e].state = "NONE" /\ \E r \in EventRow : event' = [event EXCEPT ![e] = r]
      BY <2>3, <3>2 DEF EventsStay
    <3>3. CASE SetState(e, "ACCEPTED")
      BY <3>3, SetStateStays DEF EventState
    <3>4. QED
      BY <2>1, <3>1, <3>2, <3>3
  <2>5. OthersWait(p) /\ Locking(p) /\ Holds(p)'
    BY <2>1, <2>2, <2>3 DEF OthersWait, Locking, Ends, InTransaction, Holds
  <2>6. QED
    BY <1>2, <2>1, <2>4, <2>5, QuietStep
<1>4. CASE ProcessEvent(p)
  BY <1>4, ProcessingAgreement
<1>5. CASE Rollback(p)
  <2>1. /\ Goto(p, "finish_failed") /\ UNCHANGED <<rows, event>> /\ handler[p].at # "idle"
        /\ locked' = IF InTransaction(p) THEN locked \ {Subject(p)} ELSE locked
    BY <1>5 DEF Rollback, InTransaction
  <2>2. QED
    BY <1>2, <2>1, PlainStep
<1>6. CASE EffectFails(p)
  <2>1. UNCHANGED <<rows, locked, event>>
    BY <1>6 DEF EffectFails
  <2>2. CASE handler[p].at \in {"enqueue_webhook", "release_holds"} /\ Goto(p, "commit")
    BY <1>2, <2>1, <2>2, InnerStep DEF rows
  <2>3. CASE \/ handler[p].at = "ledger" /\ Goto(p, "fulfil")
             \/ handler[p].at = "fulfil" /\ Goto(p, "finish")
    <3>1. IsPaid(Subject(p))
      BY <2>3 DEF Agreement, Holds
    <3>2. QED
      BY <1>2, <2>1, <2>3, <3>1, PlainStep DEF InTransaction
  <2>4. QED
    BY <1>6, <2>2, <2>3 DEF EffectFails
<1>7. CASE Crash(p)
  BY <1>2, <1>7, RestStep DEF Crash
<1>8. QED
  BY <1>1, <1>3, <1>4, <1>5, <1>6, <1>7

----------------------------------------------------------------------------
IInv == TypeOK /\ Evidence /\ Agreement

LEMMA AgreementInit == Init => IInv
<1>1. SUFFICES ASSUME Init PROVE IInv
  OBVIOUS
<1>2. TypeOK /\ SaleNeedsPayment
  BY <1>1, TypeInit, CallbackAssumption DEF Init, SaleNeedsPayment, IsPaid, OpenStatus
<1>3. Evidence
  BY <1>1, <1>2, EvidenceInit DEF Init
<1>4. \A p \in Handlers : ~InTransaction(p) /\ Holds(p)
  BY <1>1 DEF Init, CallbacksInit, Idle, InTransaction, Holds
<1>5. RowsAgree /\ EffectsFollowSettlement
  BY <1>1, CallbackAssumption DEF Init, RowsAgree, EffectsFollowSettlement, IsPaid, Has, OpenStatus
<1>6. QED
  BY <1>2, <1>3, <1>4, <1>5 DEF IInv, Agreement, TransactionsExclude

LEMMA AgreementStep == IInv /\ [Next]_vars => IInv'
<1>1. SUFFICES ASSUME TypeOK, Evidence, Agreement, [Next]_vars PROVE IInv'
  BY DEF IInv
<1>2. TypeOK' /\ Evidence'
  BY <1>1, TypeAndEvidenceStep
<1>3. CASE CallbackStep
  BY <1>1, <1>2, <1>3, CallbackStepAgreement DEF IInv
<1>4. CASE ProviderStep \/ UNCHANGED vars
  <2>1. UNCHANGED <<rows, locked, callbackVars>>
    BY <1>4 DEF ProviderStep, vars
  <2>2. Agreement'
    BY <1>1, <2>1 DEF rows, callbackVars, Agreement, TransactionsExclude, InTransaction, Subject,
       Holds, NeedsTerminal, IsPaid, Has, RowsAgree, EffectsFollowSettlement
  <2>3. QED
    BY <1>2, <2>2 DEF IInv
<1>5. QED
  BY <1>1, <1>3, <1>4 DEF Next

(* Intent, order and settlement agree after every commit, however handlers *)
(* interleave, fail or die.                                                *)
THEOREM CallbackRowsAgree == Spec => []RowsAgree
<1>1. IInv => RowsAgree
  BY DEF IInv, Agreement
<1>2. QED
  BY <1>1, AgreementInit, AgreementStep, PTL DEF Spec

(* Journal and delivery exist only after the settlement.                   *)
THEOREM CallbackEffectsFollowSettlement == Spec => []EffectsFollowSettlement
<1>1. IInv => EffectsFollowSettlement
  BY DEF IInv, Agreement
<1>2. QED
  BY <1>1, AgreementInit, AgreementStep, PTL DEF Spec
=============================================================================
