--------------------------- MODULE RefinementProofs ---------------------------
(***************************************************************************)
(* What the agreement of the rows buys: PAID is final, holds are released  *)
(* on evidence only, and the callback path implements VerifiedPayment.     *)
(***************************************************************************)
EXTENDS AgreementProofs

(* The part of a payment that VerifiedPayment sees stays as it is.         *)
SaleStill ==
  /\ Quiet
  /\ \A i \in Intents : /\ Has(i, "LEDGER")' <=> Has(i, "LEDGER")
                        /\ Has(i, "FULFILLED")' <=> Has(i, "FULFILLED")

ReleasedOnly ==
  \A i \in Intents : Has(i, "HOLDS_RELEASED")' =>
    \/ Has(i, "HOLDS_RELEASED")
    \/ \E p \in Handlers : ReleaseHolds(p) /\ i = Subject(p)

(* Every step of the callback path is one of these.                        *)
LEMMA CallbackStepKinds ==
  ASSUME TypeOK, CallbackStep
  PROVE  /\ UNCHANGED provider
         /\ ReleasedOnly
         /\ \/ SaleStill
            \/ \E p \in Handlers : \/ CommitPaid(p) \/ CommitTerminal(p)
                                   \/ PostLedger(p) \/ FulfilPaid(p)
<1> DEFINE Kinds == /\ UNCHANGED provider
                    /\ ReleasedOnly
                    /\ \/ SaleStill
                       \/ \E p \in Handlers : \/ CommitPaid(p) \/ CommitTerminal(p)
                                              \/ PostLedger(p) \/ FulfilPaid(p)
<1>1. PICK p \in Handlers :
        \/ Deliver(p)
        \/ \E e \in Events : ClaimOutbox(p, e) \/ ReplayInbound(p, e)
        \/ ProcessEvent(p) \/ Rollback(p) \/ EffectFails(p) \/ Crash(p)
  BY DEF CallbackStep
<1>2. /\ pay \in [Intents -> PayRow] /\ effects \in [Intents -> SUBSET Effect]
      /\ Subject(p) \in Intents
  BY DEF TypeOK, RowsTypeOK, CallbacksTypeOK, EventRow, Subject
<1>3. UNCHANGED rows => SaleStill /\ ReleasedOnly
  BY DEF SaleStill, Quiet, ReleasedOnly, rows, Has
<1>4. CASE UNCHANGED <<provider, rows>>
  BY <1>3, <1>4
<1>5. CASE ApplyReversal(p)
  <2>1. /\ pay' = [pay EXCEPT ![Subject(p)] = [pay[Subject(p)] EXCEPT !.held = TRUE]]
        /\ UNCHANGED <<provider, order, settlement, effects>>
    BY <1>5 DEF ApplyReversal
  <2>2. QED
    BY <1>2, <2>1 DEF SaleStill, Quiet, ReleasedOnly, PayRow, Has
<1>6. CASE EnqueueSellerWebhook(p) \/ ReleaseHolds(p)
  <2>1. /\ UNCHANGED <<provider, pay, order, settlement>>
        /\ \/ effects' = [effects EXCEPT ![Subject(p)] = @ \cup {"SELLER_WEBHOOK"}]
           \/ /\ ReleaseHolds(p)
              /\ \A i \in Intents : i = Subject(p) \/ effects'[i] = effects[i]
              /\ effects'[Subject(p)] \in
                   {effects[Subject(p)], effects[Subject(p)] \cup {"HOLDS_RELEASED"}}
    BY <1>2, <1>6 DEF EnqueueSellerWebhook, ReleaseHolds, ReleaseReservations, Perform
  <2>2. SaleStill
    BY <1>2, <2>1 DEF SaleStill, Quiet, Has
  <2>3. ReleasedOnly
    BY <1>2, <2>1 DEF ReleasedOnly, Has
  <2>4. QED
    BY <2>1, <2>2, <2>3
<1>7. CASE CommitPaid(p) \/ CommitTerminal(p)
  <2>1. UNCHANGED <<provider, effects>>
    BY <1>7 DEF CommitPaid, CommitTerminal
  <2>2. QED
    BY <1>7, <2>1 DEF ReleasedOnly, Has
<1>8. CASE PostLedger(p) \/ FulfilPaid(p)
  <2>1. /\ UNCHANGED provider
        /\ \/ effects' = [effects EXCEPT ![Subject(p)] = @ \cup {"LEDGER"}]
           \/ effects' = [effects EXCEPT ![Subject(p)] = @ \cup {"FULFILLED"}]
    BY <1>8 DEF PostLedger, FulfilPaid, Perform
  <2>2. ReleasedOnly
    BY <1>2, <2>1 DEF ReleasedOnly, Has
  <2>3. QED
    BY <1>8, <2>1, <2>2
<1>9. CASE \/ AlreadyProcessed(p) \/ Quarantine(p) \/ ApplyNothing(p)
           \/ BeginPaid(p) \/ BeginTerminal(p) \/ Finish(p)
  BY <1>4, <1>9 DEF AlreadyProcessed, Quarantine, ApplyNothing, BeginPaid, BeginTerminal, Finish
<1>10. CASE Deliver(p) \/ \E e \in Events : ClaimOutbox(p, e) \/ ReplayInbound(p, e)
  BY <1>4, <1>10 DEF Deliver, AcceptNew, AcceptDuplicate, ClaimOutbox, ReplayInbound
<1>11. CASE Rollback(p) \/ EffectFails(p) \/ Crash(p)
  BY <1>4, <1>11 DEF Rollback, EffectFails, Crash
<1>12. QED
  BY <1>1, <1>5, <1>6, <1>7, <1>8, <1>9, <1>10, <1>11 DEF ProcessEvent

----------------------------------------------------------------------------
(* PAID is final for intent and order, and a settlement is never rewritten, *)
(* whatever order events arrive in and however handlers overlap or fail.   *)
THEOREM CallbackPaidIsFinal == Spec => PaidIsFinal
<1> DEFINE Final == \A i \in Intents :
                      /\ IsPaid(i) => pay'[i].status = "PAID"
                      /\ order[i] = "PAID" => order'[i] = "PAID"
                      /\ settlement[i] # "NONE" => settlement'[i] = settlement[i]
<1>1. IInv /\ [Next]_vars => [Final]_vars
  <2>1. SUFFICES ASSUME TypeOK, Evidence, Agreement, Next PROVE Final
    BY DEF IInv
  <2>2. Quiet => Final
    BY DEF Quiet, IsPaid
  <2>3. CASE ProviderStep
    BY <2>2, <2>3 DEF ProviderStep, Quiet, rows
  <2>4. CASE CallbackStep
    <3>1. CASE \E p \in Handlers : CommitPaid(p)
      BY <2>1, <3>1, CommitPaidStep DEF Settled, IsPaid
    <3>2. CASE \E p \in Handlers : CommitTerminal(p)
      BY <2>1, <3>2, CommitTerminalStep DEF IsPaid
    <3>3. CASE \E p \in Handlers : PostLedger(p) \/ FulfilPaid(p)
      BY <2>2, <3>3 DEF PostLedger, FulfilPaid, Quiet
    <3>4. QED
      BY <2>1, <2>2, <2>4, <3>1, <3>2, <3>3, CallbackStepKinds DEF SaleStill
  <2>5. QED
    BY <2>1, <2>3, <2>4 DEF Next
<1>2. QED
  BY <1>1, AgreementInit, AgreementStep, PTL DEF Spec, PaidIsFinal

(* Stock and coupon go back only for an intent the provider has answered   *)
(* about: the event under which they are released is verified and was read *)
(* in the transaction that releases them.                                  *)
THEOREM CallbackReleaseNeedsEvidence == Spec => []ReleaseNeedsEvidence
<1>1. Init => ReleaseNeedsEvidence
  BY DEF Init, ReleaseNeedsEvidence, Has
<1>2. IInv /\ ReleaseNeedsEvidence /\ [Next]_vars => ReleaseNeedsEvidence'
  <2>1. SUFFICES ASSUME TypeOK, Evidence, Agreement, ReleaseNeedsEvidence, [Next]_vars
                 PROVE  ReleaseNeedsEvidence'
    BY DEF IInv
  <2>2. provider \in [Intents -> SUBSET Fact]
    BY <2>1 DEF TypeOK, RowsTypeOK
  <2>3. CASE UNCHANGED vars
    BY <2>1, <2>3 DEF vars, rows, ReleaseNeedsEvidence, Has
  <2>4. CASE ProviderStep
    <3>1. /\ UNCHANGED effects
          /\ \A i \in Intents : \/ provider'[i] = provider[i]
                                \/ {"PAID", "EXPIRED"} \cap provider'[i] # {}
      BY <2>2, <2>4 DEF ProviderStep, CustomerPays, ProviderExpires, rows
    <3>2. QED
      BY <2>1, <3>1 DEF ReleaseNeedsEvidence, Has
  <2>5. CASE CallbackStep
    <3>1. UNCHANGED provider /\ ReleasedOnly
      BY <2>1, <2>5, CallbackStepKinds
    <3>2. ASSUME NEW p \in Handlers, ReleaseHolds(p) PROVE provider[Subject(p)] # {"CREATED"}
      <4>1. /\ handler[p].for \in Events /\ handler[p].at = "release_holds"
            /\ event[handler[p].for].type \in UnpaidEnd /\ Verified(handler[p].for)
        BY <2>1, <3>2 DEF TypeOK, CallbacksTypeOK, ReleaseHolds, Agreement, Holds, Evidence, Knows,
           InTransaction
      <4>2. Authentic(event[handler[p].for])
        BY <2>1, <4>1 DEF Evidence, EventsAreAuthentic
      <4>3. QED
        BY <4>1, <4>2 DEF Authentic, Verified, Subject, UnpaidEnd
    <3>3. QED
      BY <2>1, <3>1, <3>2 DEF ReleaseNeedsEvidence, ReleasedOnly
  <2>6. QED
    BY <2>1, <2>3, <2>4, <2>5 DEF Next
<1>3. QED
  BY <1>1, <1>2, AgreementInit, AgreementStep, PTL DEF Spec

----------------------------------------------------------------------------
(* The refinement: each step of the callback path is one of the promise.   *)

PromiseStep == Promise!Next \/ UNCHANGED Promise!vars

SaleRow(i) ==
  [phase |-> PhaseOf(i), settlement |-> settlement[i],
   booked |-> Has(i, "LEDGER"), delivered |-> Has(i, "FULFILLED")]

Received == {i \in Intents : Paid(i)}
Sales    == [i \in Intents |-> SaleRow(i)]

LEMMA PromiseInit == Init => Promise!Init
<1>1. SUFFICES ASSUME Init PROVE Promise!Init
  OBVIOUS
<1>2. Received = {}
  BY <1>1 DEF Init, Received, Paid
<1>3. ASSUME NEW i \in Intents
      PROVE  SaleRow(i) = [phase |-> "OPEN", settlement |-> "NONE",
                           booked |-> FALSE, delivered |-> FALSE]
  <2>1. pay[i].status \in OpenStatus /\ settlement[i] = "NONE" /\ effects[i] = {}
    BY <1>1, CallbackAssumption DEF Init
  <2>2. PhaseOf(i) = "OPEN"
    BY <2>1 DEF PhaseOf, IsPaid, OpenStatus, TerminalUnpaid
  <2>3. Has(i, "LEDGER") = FALSE /\ Has(i, "FULFILLED") = FALSE
    BY <2>1 DEF Has
  <2>4. QED
    BY <2>1, <2>2, <2>3 DEF SaleRow
<1>4. Sales = [i \in Intents |-> [phase |-> "OPEN", settlement |-> "NONE",
                                  booked |-> FALSE, delivered |-> FALSE]]
  BY <1>3 DEF Sales
<1>5. QED
  BY <1>2, <1>4 DEF Promise!Init, Received, Sales, SaleRow

LEMMA StillStep ==
  ASSUME SaleStill, UNCHANGED provider
  PROVE  PromiseStep
<1>1. Received' = Received
  BY DEF Received, Paid
<1>2. ASSUME NEW i \in Intents PROVE SaleRow(i)' = SaleRow(i)
  <2>1. PhaseOf(i)' = PhaseOf(i) /\ settlement'[i] = settlement[i]
    BY DEF SaleStill, Quiet, PhaseOf, IsPaid
  <2>2. Has(i, "LEDGER")' = Has(i, "LEDGER") /\ Has(i, "FULFILLED")' = Has(i, "FULFILLED")
    BY DEF SaleStill, Has
  <2>3. QED
    BY <2>1, <2>2 DEF SaleRow
<1>3. Sales' = Sales
  BY <1>2 DEF Sales
<1>4. QED
  BY <1>1, <1>3 DEF PromiseStep, Promise!vars, Received, Sales, SaleRow

(* Sales that agree in their fields are equal.                             *)
SaleRows == [phase : {"OPEN", "CLOSED_UNPAID", "CAPTURED"}, settlement : Settlement,
             booked : BOOLEAN, delivered : BOOLEAN]

LEMMA SaleUpdates ==
  ASSUME NEW r \in SaleRows, NEW s \in SaleRows
  PROVE  /\ s.phase = r.phase /\ s.settlement = r.settlement /\ s.booked = TRUE
              /\ s.delivered = r.delivered => s = [r EXCEPT !.booked = TRUE]
         /\ s.phase = r.phase /\ s.settlement = r.settlement /\ s.booked = r.booked
              /\ s.delivered = TRUE => s = [r EXCEPT !.delivered = TRUE]
         /\ s.booked = r.booked /\ s.delivered = r.delivered =>
              s = [r EXCEPT !.phase = s.phase, !.settlement = s.settlement]
  BY DEF SaleRows

LEMMA SaleRowFields ==
  ASSUME NEW i \in Intents, TypeOK, TypeOK'
  PROVE  /\ SaleRow(i) \in SaleRows /\ SaleRow(i)' \in SaleRows
         /\ SaleRow(i).phase = PhaseOf(i) /\ SaleRow(i)'.phase = PhaseOf(i)'
         /\ SaleRow(i).settlement = settlement[i] /\ SaleRow(i)'.settlement = settlement'[i]
         /\ (SaleRow(i).booked <=> "LEDGER" \in effects[i])
         /\ (SaleRow(i)'.booked <=> "LEDGER" \in effects'[i])
         /\ (SaleRow(i).delivered <=> "FULFILLED" \in effects[i])
         /\ (SaleRow(i)'.delivered <=> "FULFILLED" \in effects'[i])
<1>1. settlement[i] \in Settlement /\ settlement'[i] \in Settlement
  BY DEF TypeOK, RowsTypeOK
<1>2. /\ SaleRow(i) \in SaleRows /\ SaleRow(i)' \in SaleRows
      /\ SaleRow(i).phase = PhaseOf(i) /\ SaleRow(i)'.phase = PhaseOf(i)'
      /\ SaleRow(i).settlement = settlement[i] /\ SaleRow(i)'.settlement = settlement'[i]
  BY <1>1 DEF SaleRow, SaleRows, PhaseOf, Has
<1>3. /\ SaleRow(i).booked = Has(i, "LEDGER") /\ SaleRow(i)'.booked = Has(i, "LEDGER")'
      /\ SaleRow(i).delivered = Has(i, "FULFILLED") /\ SaleRow(i)'.delivered = Has(i, "FULFILLED")'
  BY DEF SaleRow, Has
<1>4. /\ (SaleRow(i).booked <=> "LEDGER" \in effects[i])
      /\ (SaleRow(i)'.booked <=> "LEDGER" \in effects'[i])
      /\ (SaleRow(i).delivered <=> "FULFILLED" \in effects[i])
      /\ (SaleRow(i)'.delivered <=> "FULFILLED" \in effects'[i])
  BY <1>3 DEF Has
<1>5. QED
  BY <1>2, <1>4

(* A step that changes the sale of one intent.                             *)
LEMMA OneSale ==
  ASSUME NEW j \in Intents, \A i \in Intents \ {j} : SaleRow(i)' = SaleRow(i)
  PROVE  Sales' = [Sales EXCEPT ![j] = SaleRow(j)']
  BY DEF Sales

LEMMA CloseStep ==
  ASSUME TypeOK, Evidence, Agreement, UNCHANGED provider, NEW p \in Handlers, CommitTerminal(p)
  PROVE  PromiseStep
<1>0. PICK j \in Intents : j = Subject(p)
  BY DEF TypeOK, CallbacksTypeOK, EventRow, Subject
<1>1. /\ NeedsTerminal(j) /\ ~IsPaid(j)
      /\ \A i \in Intents \ {j} : pay'[i] = pay[i]
      /\ pay'[j].status \in UnpaidEnd /\ UNCHANGED <<settlement, effects>>
  BY <1>0, CommitTerminalStep
<1>2. PhaseOf(j) = "OPEN" /\ PhaseOf(j)' = "CLOSED_UNPAID"
  BY <1>1 DEF PhaseOf, NeedsTerminal, IsPaid, TerminalUnpaid, UnpaidEnd
<1>3. SaleRow(j)' = [SaleRow(j) EXCEPT !.phase = "CLOSED_UNPAID"]
  BY <1>1, <1>2 DEF SaleRow, Has
<1>4. \A i \in Intents \ {j} : SaleRow(i)' = SaleRow(i)
  BY <1>1 DEF SaleRow, PhaseOf, IsPaid, Has
<1>5. Sales' = [Sales EXCEPT ![j] = SaleRow(j)']
  BY <1>1, <1>4, OneSale
<1>6. Sales[j] = SaleRow(j) /\ Sales[j].phase = "OPEN" /\ Received' = Received
  BY <1>1, <1>2 DEF Sales, SaleRow, Received, Paid
<1>7. Sales' = [Sales EXCEPT ![j].phase = "CLOSED_UNPAID"]
  BY <1>3, <1>5, <1>6
<1>8. Promise!Close(j)
  BY <1>6, <1>7 DEF Promise!Close, Received, Sales, SaleRow
<1>9. QED
  BY <1>1, <1>8 DEF PromiseStep, Promise!Next

(* A capture of an intent already paid changes nothing the promise sees.   *)
LEMMA CaptureStep ==
  ASSUME TypeOK, TypeOK', Evidence, Agreement, UNCHANGED provider, NEW p \in Handlers, CommitPaid(p)
  PROVE  PromiseStep
<1>0. PICK j \in Intents : j = Subject(p)
  BY DEF TypeOK, CallbacksTypeOK, EventRow, Subject
<1>1. /\ \A i \in Intents \ {j} : pay'[i] = pay[i] /\ settlement'[i] = settlement[i]
      /\ pay'[j].status = "PAID" /\ settlement'[j] = Settled(j) /\ UNCHANGED effects
  BY <1>0, CommitPaidStep DEF CommitPaid
<1>2. Paid(j)
  <2>1. /\ handler[p].at = "commit" /\ event[handler[p].for].type = "PAID"
        /\ Verified(handler[p].for)
    BY DEF CommitPaid, Evidence, Knows, InTransaction
  <2>2. QED
    BY <1>0, <2>1, PaidEvent
<1>3. \A i \in Intents \ {j} : SaleRow(i)' = SaleRow(i)
  BY <1>1 DEF SaleRow, PhaseOf, IsPaid, Has
<1>4. PhaseOf(j)' = "CAPTURED" /\ Received' = Received
  BY <1>1 DEF PhaseOf, IsPaid, Received, Paid
<1>5. CASE IsPaid(j)
  <2>1. settlement'[j] = settlement[j] /\ PhaseOf(j) = "CAPTURED"
    BY <1>1, <1>5 DEF Agreement, RowsAgree, Settled, PhaseOf
  <2>2. SaleRow(j)' = SaleRow(j)
    BY <1>1, <1>4, <2>1 DEF SaleRow, Has
  <2>3. Sales' = Sales
    BY <1>3, <2>2 DEF Sales
  <2>4. QED
    BY <1>4, <2>3 DEF PromiseStep, Promise!vars, Received, Sales, SaleRow
<1>6. CASE ~IsPaid(j)
  <2>1. /\ PhaseOf(j) # "CAPTURED"
        /\ settlement'[j] = IF PhaseOf(j) = "OPEN" THEN "ON_TIME" ELSE "LATE"
    BY <1>1, <1>6 DEF Agreement, RowsAgree, Settled, Late, PhaseOf, IsPaid
  <2>2. SaleRow(j)' = [SaleRow(j) EXCEPT !.phase = "CAPTURED", !.settlement = settlement'[j]]
    <3>1. /\ SaleRow(j) \in SaleRows /\ SaleRow(j)' \in SaleRows
          /\ SaleRow(j)'.phase = "CAPTURED" /\ SaleRow(j)'.settlement = settlement'[j]
      BY <1>4, SaleRowFields
    <3>2. /\ (SaleRow(j)'.booked <=> SaleRow(j).booked)
          /\ (SaleRow(j)'.delivered <=> SaleRow(j).delivered)
      BY <1>1, SaleRowFields
    <3>3. SaleRow(j)'.booked = SaleRow(j).booked /\ SaleRow(j)'.delivered = SaleRow(j).delivered
      BY <3>1, <3>2 DEF SaleRows
    <3>4. QED
      BY <3>1, <3>3, SaleUpdates
  <2>3. Sales' = [Sales EXCEPT ![j] = SaleRow(j)']
    BY <1>3, OneSale
  <2>4. Sales[j] = SaleRow(j) /\ Sales[j].phase = PhaseOf(j)
    BY DEF Sales, SaleRow
  <2>5. Sales' = [Sales EXCEPT ![j].phase = "CAPTURED",
                    ![j].settlement = IF Sales[j].phase = "OPEN" THEN "ON_TIME" ELSE "LATE"]
    BY <2>1, <2>2, <2>3, <2>4
  <2>6. Promise!Capture(j)
    BY <1>2, <1>4, <2>1, <2>4, <2>5 DEF Promise!Capture, Received, Sales, SaleRow
  <2>7. QED
    BY <2>6 DEF PromiseStep, Promise!Next
<1>7. QED
  BY <1>5, <1>6

LEMMA EffectStep ==
  ASSUME TypeOK, TypeOK', Agreement, UNCHANGED provider, NEW p \in Handlers,
         PostLedger(p) \/ FulfilPaid(p)
  PROVE  PromiseStep
<1>0. PICK j \in Intents : j = Subject(p)
  BY DEF TypeOK, CallbacksTypeOK, EventRow, Subject
<1>1. UNCHANGED <<pay, settlement>> /\ effects \in [Intents -> SUBSET Effect]
  BY DEF PostLedger, FulfilPaid, TypeOK, RowsTypeOK
<1>2. IsPaid(j)
  BY <1>0 DEF PostLedger, FulfilPaid, Agreement, Holds
<1>3. \A i \in Intents : PhaseOf(i)' = PhaseOf(i)
  BY <1>1 DEF PhaseOf, IsPaid
<1>4. /\ Sales[j] = SaleRow(j) /\ Sales[j].phase = "CAPTURED"
      /\ Received' = Received
  BY <1>2 DEF Sales, SaleRow, PhaseOf, Received, Paid
<1>5. CASE PostLedger(p)
  <2>1. effects' = [effects EXCEPT ![j] = effects[j] \cup {"LEDGER"}]
    BY <1>0, <1>5 DEF PostLedger, Perform
  <2>2. \A i \in Intents \ {j} : SaleRow(i)' = SaleRow(i)
    BY <1>1, <1>3, <2>1 DEF SaleRow, Has
  <2>3. "LEDGER" \in effects'[j] /\ ("FULFILLED" \in effects'[j] <=> "FULFILLED" \in effects[j])
    BY <1>1, <2>1
  <2>4. SaleRow(j)' = [SaleRow(j) EXCEPT !.booked = TRUE]
    <3>1. /\ SaleRow(j) \in SaleRows /\ SaleRow(j)' \in SaleRows
          /\ SaleRow(j)'.phase = SaleRow(j).phase /\ SaleRow(j)'.settlement = SaleRow(j).settlement
      BY <1>1, <1>3, SaleRowFields
    <3>2. SaleRow(j)'.booked = TRUE /\ SaleRow(j)'.delivered = SaleRow(j).delivered
      <4>1. SaleRow(j)'.booked /\ (SaleRow(j)'.delivered <=> SaleRow(j).delivered)
        BY <2>3, SaleRowFields
      <4>2. QED
        BY <3>1, <4>1 DEF SaleRows
    <3>3. QED
      BY <3>1, <3>2, SaleUpdates
  <2>5. Sales' = [Sales EXCEPT ![j].booked = TRUE]
    BY <1>4, <2>2, <2>4, OneSale
  <2>6. Promise!Book(j)
    BY <1>4, <2>5 DEF Promise!Book, Received, Sales, SaleRow
  <2>7. QED
    BY <2>6 DEF PromiseStep, Promise!Next
<1>6. CASE FulfilPaid(p)
  <2>1. effects' = [effects EXCEPT ![j] = effects[j] \cup {"FULFILLED"}]
    BY <1>0, <1>6 DEF FulfilPaid, Perform
  <2>2. \A i \in Intents \ {j} : SaleRow(i)' = SaleRow(i)
    BY <1>1, <1>3, <2>1 DEF SaleRow, Has
  <2>3. "FULFILLED" \in effects'[j] /\ ("LEDGER" \in effects'[j] <=> "LEDGER" \in effects[j])
    BY <1>1, <2>1
  <2>4. SaleRow(j)' = [SaleRow(j) EXCEPT !.delivered = TRUE]
    <3>1. /\ SaleRow(j) \in SaleRows /\ SaleRow(j)' \in SaleRows
          /\ SaleRow(j)'.phase = SaleRow(j).phase /\ SaleRow(j)'.settlement = SaleRow(j).settlement
      BY <1>1, <1>3, SaleRowFields
    <3>2. SaleRow(j)'.delivered = TRUE /\ SaleRow(j)'.booked = SaleRow(j).booked
      <4>1. SaleRow(j)'.delivered /\ (SaleRow(j)'.booked <=> SaleRow(j).booked)
        BY <2>3, SaleRowFields
      <4>2. QED
        BY <3>1, <4>1 DEF SaleRows
    <3>3. QED
      BY <3>1, <3>2, SaleUpdates
  <2>5. Sales' = [Sales EXCEPT ![j].delivered = TRUE]
    BY <1>4, <2>2, <2>4, OneSale
  <2>6. Promise!Deliver(j)
    BY <1>4, <2>5 DEF Promise!Deliver, Received, Sales, SaleRow
  <2>7. QED
    BY <2>6 DEF PromiseStep, Promise!Next
<1>7. QED
  BY <1>5, <1>6

(* The customer's payment is the money received; an expiry is a stutter.   *)
LEMMA MoneyStep ==
  ASSUME TypeOK, ProviderStep
  PROVE  PromiseStep
<1>1. PICK i \in Intents : CustomerPays(i) \/ ProviderExpires(i)
  BY DEF ProviderStep
<1>2. provider \in [Intents -> SUBSET Fact]
  BY DEF TypeOK, RowsTypeOK
<1>3. Received' = Received \/ Received' = Received \cup {i}
  BY <1>1, <1>2 DEF CustomerPays, ProviderExpires, Received, Paid
<1>4. UNCHANGED <<pay, settlement, effects>>
  BY DEF ProviderStep, rows
<1>5. \A j \in Intents : SaleRow(j)' = SaleRow(j)
  BY <1>4 DEF SaleRow, PhaseOf, IsPaid, Has
<1>6. Sales' = Sales
  BY <1>5 DEF Sales
<1>7. CASE Received' = Received
  BY <1>6, <1>7 DEF PromiseStep, Promise!vars, Received, Sales, SaleRow
<1>8. CASE Received' = Received \cup {i}
  <2>1. Promise!Receive(i)
    BY <1>6, <1>8 DEF Promise!Receive, Received, Sales, SaleRow
  <2>2. QED
    BY <2>1 DEF PromiseStep, Promise!Next
<1>9. QED
  BY <1>3, <1>7, <1>8

LEMMA PromiseNext == IInv /\ [Next]_vars => PromiseStep
<1>1. SUFFICES ASSUME TypeOK, Evidence, Agreement, [Next]_vars PROVE PromiseStep
  BY DEF IInv
<1>2. CASE CallbackStep
  BY <1>1, <1>2, TypeAndEvidenceStep, CallbackStepKinds, StillStep, CloseStep,
     CaptureStep, EffectStep
<1>3. CASE ProviderStep
  BY <1>1, <1>3, MoneyStep
<1>4. CASE UNCHANGED vars
  BY <1>4, StillStep DEF vars, rows, SaleStill, Quiet, Has
<1>5. QED
  BY <1>1, <1>2, <1>3, <1>4 DEF Next

(* The callback path implements VerifiedPayment: a sale is captured at most *)
(* once, in one atomic step, for received money, late exactly when it had  *)
(* been closed unpaid, and journal and delivery follow the capture.        *)
THEOREM CallbackImplementsVerifiedPayment == Spec => ImplementsVerifiedPayment
<1>1. IInv /\ [Next]_vars => [Promise!Next]_(Promise!vars)
  BY PromiseNext DEF PromiseStep
<1>2. QED
  BY <1>1, PromiseInit, AgreementInit, AgreementStep, PTL
     DEF Spec, ImplementsVerifiedPayment, Promise!Spec
=============================================================================
