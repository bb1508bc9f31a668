--------------------------- MODULE WithdrawalProofs ---------------------------
(***************************************************************************)
(* What WithdrawalService never does with a merchant's money, for every    *)
(* number of withdrawals, lots and goroutines.                             *)
(***************************************************************************)
EXTENDS Withdrawals, FiniteSetTheorems, TLAPS

----------------------------------------------------------------------------
(* The wallet.  A transaction commits a ledger that Fits.                  *)

(* Balances that may still have to be checked. *)
Sums == [pending : Int, available : Int, bySource : [Sources -> Int], posted : SUBSET Journals]

LEMMA PostType ==
  ASSUME NEW l \in Sums, NEW j \in Journals, NEW p \in Int, NEW a \in Int, NEW source
  PROVE  /\ Post(l, j, p, a, source) \in Sums
         /\ Post(l, j, p, a, source).posted = l.posted \cup {j}
BY DEF Post, Sums, Sources

LEMMA FitsType ==
  ASSUME NEW l \in Sums, Fits(l)
  PROVE  l \in Ledgers
BY DEF Fits, Sums, Ledgers, Sources

LEMMA LedgerIsSum == ASSUME NEW l \in Ledgers PROVE l \in Sums /\ Fits(l)
BY DEF Fits, Sums, Ledgers

LEMMA JournalType ==
  ASSUME NEW t \in Templates, NEW x \in Withdrawals \cup Lots
  PROVE  /\ Journal(t, x) \in Journals
         /\ \A s, y : Journal(s, y) = Journal(t, x) => s = t /\ y = x
BY DEF Journal, Journals

(* The settlement actions keep the types, and post no journal of a         *)
(* withdrawal.                                                             *)
OnlyOf(T) == \A t \in Templates \ T, x \in Withdrawals :
               Journal(t, x) \in ledger'.posted => Journal(t, x) \in ledger.posted

LEMMA LedgerStepType ==
  ASSUME LedgerTypeOK, LedgerNext
  PROVE  LedgerTypeOK' /\ OnlyOf({"CAPTURE", "SETTLE"})
<1>1. /\ ledger \in Sums /\ Fits(ledger) /\ ledger \in Ledgers
      /\ {"CAPTURE", "SETTLE"} \subseteq Templates
  BY LedgerIsSum DEF LedgerTypeOK, Templates
<1>2. ASSUME NEW n \in Lots
      PROVE  /\ Original[n] \in Nat /\ -Original[n] \in Int /\ n \in Withdrawals \cup Lots
             /\ Journal("CAPTURE", n) \in Journals /\ Journal("SETTLE", n) \in Journals
  BY <1>1, <1>2, LedgerAssumption, JournalType
<1>3. ASSUME NEW n \in Lots, NEW r \in {"PENDING", "AVAILABLE"}, NEW k \in Nat,
             lots' = [lots EXCEPT ![n] = [status |-> r, remaining |-> k]]
      PROVE  lots' \in [Lots -> LotRows]
  BY <1>3 DEF LedgerTypeOK, LotRows
<1>4. ASSUME ledger'.posted = ledger.posted \/ \E n \in Lots :
               ledger'.posted \subseteq ledger.posted \cup {Journal("CAPTURE", n), Journal("SETTLE", n)}
      PROVE  OnlyOf({"CAPTURE", "SETTLE"})
  BY <1>4 DEF OnlyOf, Journal
<1>5. ASSUME NEW n \in Lots, CaptureLot(n)
      PROVE  LedgerTypeOK' /\ OnlyOf({"CAPTURE", "SETTLE"})
  <2> DEFINE captured == Post(ledger, Journal("CAPTURE", n), Original[n], 0, Source[n])
             settled  == Post(captured, Journal("SETTLE", n), -Original[n], Original[n], Source[n])
  <2>1. captured \in Sums /\ captured.posted = ledger.posted \cup {Journal("CAPTURE", n)}
    BY <1>1, <1>2, PostType
  <2>2. settled \in Sums /\ settled.posted = captured.posted \cup {Journal("SETTLE", n)}
    BY <1>2, <2>1, PostType
  <2>3. Fits(captured)
    BY <1>1, <1>2 DEF Post, Fits, Ledgers, Sources
  <2>4. ledger' = captured \/ (ledger' = settled /\ Fits(settled))
    BY <1>5 DEF CaptureLot
  <2>5. ledger' \in Ledgers
    BY <2>1, <2>2, <2>3, <2>4, FitsType
  <2>6. lots' \in [Lots -> LotRows]
    BY <1>2, <1>3, <1>5 DEF CaptureLot
  <2>7. OnlyOf({"CAPTURE", "SETTLE"})
    BY <1>4, <2>1, <2>2, <2>4
  <2>8. QED
    BY <2>5, <2>6, <2>7 DEF LedgerTypeOK
<1>6. ASSUME NEW n \in Lots, ReleaseLot(n)
      PROVE  LedgerTypeOK' /\ OnlyOf({"CAPTURE", "SETTLE"})
  <2> DEFINE l == Post(ledger, Journal("SETTLE", n), -Original[n], Original[n], Source[n])
  <2>1. l \in Sums /\ l.posted = ledger.posted \cup {Journal("SETTLE", n)}
    BY <1>1, <1>2, PostType
  <2>2. Fits(l) /\ ledger' = l
    BY <1>6 DEF ReleaseLot
  <2>3. ledger' \in Ledgers
    BY <2>1, <2>2, FitsType
  <2>4. lots' \in [Lots -> LotRows]
    BY <1>2, <1>3, <1>6 DEF ReleaseLot, Refill
  <2>5. OnlyOf({"CAPTURE", "SETTLE"})
    BY <1>4, <2>1, <2>2
  <2>6. QED
    BY <2>3, <2>4, <2>5 DEF LedgerTypeOK
<1>7. QED
  BY <1>5, <1>6 DEF LedgerNext

----------------------------------------------------------------------------
(* What goroutines and rows know.                                          *)

(* A withdrawal past its review. *)
Cleared(w) == wd[w].status \notin {"NONE", "UNDER_REVIEW", "HELD", "REJECTED"}

Before == {"idle", "reserve", "submit"}      \* steps before a withdrawal is PROCESSING

(* What a goroutine needs to know to be at step s for withdrawal w.        *)
Warranted(s, w) ==
  /\ s \notin Before => Cleared(w)
  /\ s = "complete" => Answered(w, "COMPLETED")
  /\ s \in {"bind", "fail"} => Answered(w, "FAILED")
  /\ s \in {"give_up", "refused"} => FirstErred(w)

JobsKnow == \A g \in Goroutines : Warranted(job[g].at, job[g].of)

SentAreCleared == \A w \in Withdrawals, e \in Endpoints : payout[w][e] # {} => Cleared(w)
RefsAreCleared == \A w \in Withdrawals : wd[w].ref \in Endpoints => Cleared(w)

(* What no step breaks, and what it needs to do something new.             *)
PayoutsGrow   == \A w \in Withdrawals, e \in Endpoints : payout[w][e] \subseteq payout'[w][e]
ClearedStays  == \A w \in Withdrawals : Cleared(w) => Cleared(w)'
RejectedStays == \A w \in Withdrawals : wd[w].status = "REJECTED" => wd'[w].status = "REJECTED"
NewSent       == \A w \in Withdrawals : payout'[w] # payout[w] => Cleared(w)
NewRefs       == \A w \in Withdrawals : wd'[w].ref \in Endpoints => wd[w].ref \in Endpoints \/ Cleared(w)
NewCompletion == \A w \in Withdrawals :
                   Posted("COMPLETE", w)' => Posted("COMPLETE", w) \/ Answered(w, "COMPLETED")
NewRelease    == \A w \in Withdrawals :
                   Posted("RELEASE", w)' =>
                     \/ Posted("RELEASE", w)
                     \/ wd'[w].status = "REJECTED"
                     \/ Answered(w, "FAILED")
                     \/ FirstErred(w)

RowsObey == ClearedStays /\ RejectedStays /\ NewRefs
CallsObey == PayoutsGrow /\ NewSent
MoneyObeys == NewCompletion /\ NewRelease

IInv ==
  /\ TypeOK
  /\ JobsKnow
  /\ SentAreCleared
  /\ RefsAreCleared
  /\ CompletionNeedsSuccess
  /\ TimeoutKeepsReserve

LEMMA AnswersStay ==
  ASSUME PayoutsGrow, NEW w \in Withdrawals, NEW s, Answered(w, s)
  PROVE  Answered(w, s)'
BY DEF PayoutsGrow, Answered

LEMMA ErrorStays ==
  ASSUME PayoutsGrow, NEW w \in Withdrawals, FirstErred(w)
  PROVE  FirstErred(w)'
BY DEF PayoutsGrow, FirstErred, Endpoints

LEMMA StepKeeps ==
  ASSUME IInv, TypeOK', JobsKnow', RowsObey, CallsObey, MoneyObeys
  PROVE  IInv'
<1>1. SentAreCleared'
  <2>1. SUFFICES ASSUME NEW w \in Withdrawals, NEW e \in Endpoints, payout'[w][e] # {}
                 PROVE  Cleared(w)'
    BY DEF SentAreCleared
  <2>2. Cleared(w)
    BY <2>1 DEF IInv, SentAreCleared, CallsObey, NewSent
  <2>3. QED
    BY <2>2 DEF RowsObey, ClearedStays
<1>2. RefsAreCleared'
  <2>1. SUFFICES ASSUME NEW w \in Withdrawals, wd'[w].ref \in Endpoints PROVE Cleared(w)'
    BY DEF RefsAreCleared, Endpoints
  <2>2. Cleared(w)
    BY <2>1 DEF IInv, RefsAreCleared, RowsObey, NewRefs
  <2>3. QED
    BY <2>2 DEF RowsObey, ClearedStays
<1>3. CompletionNeedsSuccess'
  <2>1. SUFFICES ASSUME NEW w \in Withdrawals, Posted("COMPLETE", w)'
                 PROVE  Answered(w, "COMPLETED")'
    BY DEF CompletionNeedsSuccess
  <2>2. Answered(w, "COMPLETED")
    BY <2>1 DEF IInv, CompletionNeedsSuccess, MoneyObeys, NewCompletion
  <2>3. QED
    BY <2>2, AnswersStay DEF CallsObey
<1>4. TimeoutKeepsReserve'
  <2>1. SUFFICES ASSUME NEW w \in Withdrawals, Posted("RELEASE", w)'
                 PROVE  Answered(w, "FAILED")' \/ FirstErred(w)' \/ wd'[w].status = "REJECTED"
    BY DEF TimeoutKeepsReserve
  <2>2. Answered(w, "FAILED") \/ FirstErred(w) \/ wd'[w].status = "REJECTED"
    BY <2>1 DEF IInv, TimeoutKeepsReserve, MoneyObeys, NewRelease, RowsObey, RejectedStays
  <2>3. QED
    BY <2>2, AnswersStay, ErrorStays DEF CallsObey
<1>5. QED
  BY <1>1, <1>2, <1>3, <1>4 DEF IInv

----------------------------------------------------------------------------
(* Steps of a goroutine.                                                   *)

JobRows == [Goroutines -> [at : Step, of : Withdrawals, ref : Refs]]

(* Goroutine g goes to step s for withdrawal w, and the others stay.       *)
Moved(g, s, w) ==
  /\ job' \in JobRows
  /\ \A h \in Goroutines \ {g} : job'[h] = job[h]
  /\ job'[g].at = s
  /\ job'[g].of = w

LEMMA Moves ==
  ASSUME TypeOK, NEW g \in Goroutines
  PROVE  /\ \A s \in Step : Go(g, s) => Moved(g, s, job[g].of)
         /\ \A s \in Step, e \in Refs : GoWith(g, s, e) => Moved(g, s, job[g].of)
         /\ \A s \in Step, w \in Withdrawals, e \in Refs : Start(g, s, w, e) => Moved(g, s, w)
         /\ Rest(g) => \E w \in Withdrawals : Moved(g, "idle", w)
<1>1. job \in JobRows /\ "idle" \in Step /\ "NONE" \in Refs
  BY DEF TypeOK, JobRows, Step, Refs
<1>2. \A s \in Step : Go(g, s) => Moved(g, s, job[g].of)
  BY <1>1 DEF Go, JobRows, Moved
<1>3. ASSUME NEW s \in Step, NEW e \in Refs, GoWith(g, s, e) PROVE Moved(g, s, job[g].of)
  <2>1. job' = [job EXCEPT ![g] = [job[g] EXCEPT !.at = s, !.ref = e]]
    BY <1>1, <1>3 DEF GoWith, JobRows
  <2>2. QED
    BY <1>1, <2>1 DEF JobRows, Moved
<1>4. \A s \in Step, w \in Withdrawals, e \in Refs : Start(g, s, w, e) => Moved(g, s, w)
  BY <1>1 DEF Start, JobRows, Moved
<1>5. ASSUME Rest(g) PROVE \E w \in Withdrawals : Moved(g, "idle", w)
  <2>1. PICK w \in Withdrawals : w = CHOOSE v \in Withdrawals : TRUE
    BY WithdrawalAssumption
  <2>2. job' = [job EXCEPT ![g] = [at |-> "idle", of |-> w, ref |-> "NONE"]]
    BY <1>5, <2>1 DEF Rest, Resting
  <2>3. QED
    BY <1>1, <2>2 DEF JobRows, Moved
<1>6. QED
  BY <1>2, <1>3, <1>4, <1>5

LEMMA WarrantStays ==
  ASSUME PayoutsGrow, ClearedStays, NEW s, NEW w \in Withdrawals, Warranted(s, w)
  PROVE  Warranted(s, w)'
BY AnswersStay, ErrorStays DEF Warranted, ClearedStays

LEMMA JobsStayKnown ==
  ASSUME TypeOK, JobsKnow, PayoutsGrow, ClearedStays, UNCHANGED job
  PROVE  JobsKnow'
<1>1. \A g \in Goroutines : job[g].of \in Withdrawals
  BY DEF TypeOK
<1>2. QED
  BY <1>1, WarrantStays DEF JobsKnow

LEMMA KnowsAfter ==
  ASSUME TypeOK, JobsKnow, PayoutsGrow, ClearedStays, NEW g \in Goroutines,
         NEW s, NEW w \in Withdrawals, Moved(g, s, w), Warranted(s, w)'
  PROVE  JobsKnow'
<1>1. SUFFICES ASSUME NEW h \in Goroutines PROVE Warranted(job[h].at, job[h].of)'
  BY DEF JobsKnow
<1>2. CASE h = g
  BY <1>2 DEF Moved
<1>3. CASE h # g
  <2>1. job'[h] = job[h] /\ job[h].of \in Withdrawals /\ Warranted(job[h].at, job[h].of)
    BY <1>3 DEF Moved, TypeOK, JobsKnow
  <2>2. Warranted(job[h].at, job[h].of)'
    BY <2>1, WarrantStays DEF Warranted, Cleared, Answered, FirstErred
  <2>3. QED
    BY <2>2
<1>4. QED
  BY <1>2, <1>3

Payouts == [Withdrawals -> [Endpoints -> SUBSET Outcome]]
Rows    == [Withdrawals -> WdRows]

LEMMA TypeParts == /\ TypeOK <=> LedgerTypeOK /\ wd \in Rows /\ payout \in Payouts /\ job \in JobRows
                   /\ TypeOK' <=> LedgerTypeOK' /\ wd' \in Rows /\ payout' \in Payouts /\ job' \in JobRows
  BY DEF TypeOK, Rows, Payouts, JobRows

LEMMA StillFrames ==
  ASSUME TypeOK
  PROVE  /\ UNCHANGED wd => RowsObey /\ wd' \in Rows
         /\ UNCHANGED payout => CallsObey /\ payout' \in Payouts
         /\ UNCHANGED <<ledger, lots>> => MoneyObeys /\ LedgerTypeOK'
<1>1. TypeOK => wd \in Rows /\ payout \in Payouts /\ LedgerTypeOK
  BY TypeParts
<1>2. UNCHANGED wd => RowsObey
  BY DEF RowsObey, ClearedStays, RejectedStays, NewRefs, Cleared
<1>3. UNCHANGED payout => CallsObey
  BY DEF CallsObey, PayoutsGrow, NewSent
<1>4. UNCHANGED <<ledger, lots>> => MoneyObeys /\ (LedgerTypeOK => LedgerTypeOK')
  BY DEF MoneyObeys, NewCompletion, NewRelease, Posted, LedgerTypeOK
<1>5. QED
  BY <1>1, <1>2, <1>3, <1>4

(* A step of goroutine g that does all it should.                          *)
LEMMA GoodStep ==
  ASSUME IInv, NEW g \in Goroutines, NEW s, NEW w \in Withdrawals,
         Moved(g, s, w), Warranted(s, w) \/ Warranted(s, w)',
         LedgerTypeOK', wd' \in Rows, payout' \in Payouts,
         RowsObey, CallsObey, MoneyObeys
  PROVE  IInv'
<1>1. Warranted(s, w)'
  BY WarrantStays DEF CallsObey, RowsObey
<1>2. TypeOK'
  BY TypeParts DEF Moved
<1>3. JobsKnow'
  BY <1>1, KnowsAfter DEF IInv, CallsObey, RowsObey
<1>4. QED
  BY <1>2, <1>3, StepKeeps

(* A step that leaves money and rows alone.                                *)
LEMMA GoodQuietStep ==
  ASSUME IInv, NEW g \in Goroutines, NEW s, NEW w \in Withdrawals,
         Moved(g, s, w), Warranted(s, w),
         UNCHANGED <<ledger, lots, wd, payout>>
  PROVE  IInv'
BY GoodStep, StillFrames DEF IInv

(* A row of which the status changes, and perhaps the reference.           *)
LEMMA RowChange ==
  ASSUME wd \in Rows, NEW w \in Withdrawals, NEW r \in WdRows, wd' = [wd EXCEPT ![w] = r],
         r.status # "NONE" /\ (wd[w].status = "REJECTED" => r.status = "REJECTED"),
         Cleared(w) => r.status \notin {"NONE", "UNDER_REVIEW", "HELD", "REJECTED"},
         r.ref = wd[w].ref \/ Cleared(w) \/ r.ref \notin Endpoints
  PROVE  RowsObey /\ wd' \in Rows
<1>1. wd' \in Rows /\ wd'[w] = r /\ \A v \in Withdrawals \ {w} : wd'[v] = wd[v]
  BY DEF Rows
<1>2. ClearedStays /\ RejectedStays
  BY <1>1 DEF ClearedStays, RejectedStays, Cleared
<1>3. NewRefs
  BY <1>1 DEF NewRefs
<1>4. QED
  BY <1>1, <1>2, <1>3 DEF RowsObey

LEMMA StatusChange ==
  ASSUME wd \in Rows, NEW w \in Withdrawals, NEW s \in Status, SetStatus(w, s), s # "NONE",
         wd[w].status = "REJECTED" => s = "REJECTED",
         Cleared(w) => s \notin {"UNDER_REVIEW", "HELD", "REJECTED"}
  PROVE  RowsObey /\ wd' \in Rows /\ wd'[w].status = s
<1> DEFINE r == [wd[w] EXCEPT !.status = s]
<1>1. wd[w] \in WdRows
  BY DEF Rows
<1>2. r \in WdRows /\ r.status = s /\ r.ref = wd[w].ref
  BY <1>1 DEF WdRows
<1>3. wd' = [wd EXCEPT ![w] = r]
  BY DEF SetStatus
<1>4. RowsObey /\ wd' \in Rows
  BY <1>2, <1>3, RowChange
<1>5. QED
  BY <1>2, <1>3, <1>4 DEF Rows

----------------------------------------------------------------------------
(* Journals of a withdrawal.                                               *)

LEMMA Posting ==
  ASSUME NEW l \in Ledgers, NEW t \in Templates, NEW w \in Withdrawals, NEW d \in Int, NEW source,
         Fits(Post(l, Journal(t, w), 0, d, source))
  PROVE  /\ Post(l, Journal(t, w), 0, d, source) \in Ledgers
         /\ \A u, v : Journal(u, v) \in Post(l, Journal(t, w), 0, d, source).posted
                        => Journal(u, v) \in l.posted \/ (u = t /\ v = w)
<1>1. l \in Sums /\ 0 \in Int /\ w \in Withdrawals \cup Lots
  BY LedgerIsSum
<1>2. Journal(t, w) \in Journals /\ \A u, v : Journal(u, v) = Journal(t, w) => u = t /\ v = w
  BY <1>1, JournalType
<1>3. /\ Post(l, Journal(t, w), 0, d, source) \in Sums
      /\ Post(l, Journal(t, w), 0, d, source).posted = l.posted \cup {Journal(t, w)}
  BY <1>1, <1>2, PostType
<1>4. QED
  BY <1>2, <1>3, FitsType

LEMMA AmountsAreInts ==
  ASSUME NEW w \in Withdrawals
  PROVE  Amount[w] \in Nat /\ Amount[w] > 0 /\ Amount[w] \in Int /\ -Amount[w] \in Int
BY WithdrawalAssumption

LEMMA TemplatesOf ==
  /\ {"RESERVE", "RELEASE", "COMPLETE", "RECAPTURE"} \subseteq Templates
  /\ {"FAILED", "REJECTED", "COMPLETED", "APPROVED", "UNDER_REVIEW", "HELD", "PROCESSING",
      "UNKNOWN_OUTCOME"} \subseteq Status
BY DEF Templates, Status

LEMMA LotsRestored ==
  ASSUME TypeOK, NEW w \in Withdrawals
  PROVE  [n \in Lots |-> Restored(w, n)] \in [Lots -> LotRows]
<1>1. ASSUME NEW n \in Lots PROVE Restored(w, n) \in LotRows
  <2>1. lots[n] \in LotRows /\ wd[w].alloc[n] \in Nat
    BY DEF TypeOK, LedgerTypeOK, WdRows
  <2>2. QED
    BY <2>1 DEF Restored, LotRows
<1>2. QED
  BY <1>1

(* The reserve given back, or found given back, with a verdict for it.     *)
LEMMA Closing ==
  ASSUME TypeOK, NEW w \in Withdrawals, NEW s \in {"FAILED", "REJECTED"},
         CloseReleased(w, s), wd[w].released \/ CanRelease(w),
         wd[w].status = "REJECTED" => s = "REJECTED",
         Cleared(w) => s # "REJECTED",
         s = "REJECTED" \/ Answered(w, "FAILED") \/ FirstErred(w)
  PROVE  RowsObey /\ wd' \in Rows /\ MoneyObeys /\ LedgerTypeOK'
<1>1. wd \in Rows /\ wd[w] \in WdRows /\ ledger \in Ledgers /\ LedgerTypeOK /\ s \in Status
  BY TypeParts, TemplatesOf DEF Rows, LedgerTypeOK
<1>2. CASE wd[w].released
  <2>1. SetStatus(w, s) /\ UNCHANGED <<ledger, lots>>
    BY <1>2 DEF CloseReleased
  <2>2. QED
    BY <1>1, <2>1, StatusChange, StillFrames
<1>3. CASE ~wd[w].released
  <2> DEFINE r == [wd[w] EXCEPT !.status = s, !.released = TRUE]
  <2>1. /\ ledger' = Released(w) /\ lots' = [n \in Lots |-> Restored(w, n)]
        /\ wd' = [wd EXCEPT ![w].status = s, ![w].released = TRUE]
        /\ CanRelease(w)
    BY <1>3 DEF CloseReleased, ReleaseReserve
  <2>2. wd' = [wd EXCEPT ![w] = r] /\ r \in WdRows /\ r.status = s /\ r.ref = wd[w].ref
    BY <1>1, <2>1 DEF Rows, WdRows
  <2>3. RowsObey /\ wd' \in Rows
    BY <1>1, <2>2, RowChange
  <2>4. /\ ledger' \in Ledgers
        /\ \A u, v : Journal(u, v) \in ledger'.posted
                        => Journal(u, v) \in ledger.posted \/ (u = "RELEASE" /\ v = w)
    <3>1. "RELEASE" \in Templates /\ Fits(Released(w)) /\ Amount[w] \in Int
      BY <2>1, TemplatesOf, AmountsAreInts DEF CanRelease
    <3>2. QED
      BY <1>1, <2>1, <3>1, Posting DEF Released
  <2>5. LedgerTypeOK'
    BY <1>1, <2>1, <2>4, LotsRestored DEF LedgerTypeOK
  <2>6. wd'[w].status = s
    BY <1>1, <2>2 DEF Rows
  <2>7. NewCompletion
    BY <2>4 DEF NewCompletion, Posted
  <2>8. NewRelease
    BY <2>4, <2>6 DEF NewRelease, Posted
  <2>9. QED
    BY <2>3, <2>5, <2>7, <2>8 DEF MoneyObeys
<1>4. QED
  BY <1>2, <1>3

(* Administrators. *)
LEMMA ReviewStep ==
  ASSUME IInv, NEW g \in Goroutines, NEW w \in Withdrawals,
         Reject(g, w) \/ Hold(g, w) \/ Approve(g, w)
  PROVE  IInv'
<1>1. TypeOK /\ wd \in Rows
  BY TypeParts DEF IInv
<1>2. ASSUME UNCHANGED job, LedgerTypeOK', wd' \in Rows, UNCHANGED payout, RowsObey, MoneyObeys
      PROVE  IInv'
  <2>1. payout' \in Payouts /\ CallsObey /\ job' \in JobRows
    BY <1>1, <1>2, StillFrames, TypeParts
  <2>2. TypeOK'
    BY <1>2, <2>1, TypeParts
  <2>3. JobsKnow'
    BY <1>1, <1>2, <2>1, JobsStayKnown DEF IInv, CallsObey, RowsObey
  <2>4. QED
    BY <1>2, <2>1, <2>2, <2>3, StepKeeps
<1>3. CASE Reject(g, w)
  <2>1. RowsObey /\ wd' \in Rows /\ MoneyObeys /\ LedgerTypeOK'
    BY <1>1, <1>3, Closing DEF Reject, Cleared
  <2>2. QED
    BY <1>2, <1>3, <2>1 DEF Reject
<1>4. CASE Hold(g, w)
  <2>1. RowsObey /\ wd' \in Rows
    BY <1>1, <1>4, StatusChange, TemplatesOf DEF Hold, Cleared
  <2>2. QED
    BY <1>1, <1>2, <1>4, <2>1, StillFrames DEF Hold
<1>5. CASE Approve(g, w)
  <2>1. RowsObey /\ wd' \in Rows
    BY <1>1, <1>5, StatusChange, TemplatesOf DEF Approve, Cleared
  <2>2. Moved(g, "submit", w)
    BY <1>1, <1>5, Moves DEF Approve, Step, Refs
  <2>3. Warranted("submit", w)
    BY DEF Warranted, Before
  <2>4. QED
    BY <1>1, <1>5, <2>1, <2>2, <2>3, GoodStep, StillFrames DEF Approve
<1>6. QED
  BY <1>3, <1>4, <1>5

(* The request and its reserve. *)
LEMMA RequestStep ==
  ASSUME IInv, NEW g \in Goroutines,
         \/ \E w \in Withdrawals : Request(g, w)
         \/ ReserveFails(g)
  PROVE  IInv'
<1>1. TypeOK
  BY DEF IInv
<1>2. ASSUME NEW w \in Withdrawals, Request(g, w) PROVE IInv'
  <2>1. Moved(g, "reserve", w) /\ Warranted("reserve", w)
    BY <1>1, <1>2, Moves DEF Request, Step, Refs, Warranted, Before
  <2>2. QED
    BY <1>2, <2>1, GoodQuietStep DEF Request
<1>3. CASE ReserveFails(g)
  <2>1. PICK w \in Withdrawals : Moved(g, "idle", w)
    BY <1>1, <1>3, Moves DEF ReserveFails
  <2>2. Warranted("idle", w)
    BY DEF Warranted, Before
  <2>3. QED
    BY <1>3, <2>1, <2>2, GoodQuietStep DEF ReserveFails
<1>4. QED
  BY <1>2, <1>3

LEMMA ReserveStep ==
  ASSUME IInv, NEW g \in Goroutines, Reserve(g)
  PROVE  IInv'
<1> DEFINE w == job[g].of
<1>1. TypeOK /\ w \in Withdrawals /\ wd \in Rows /\ wd[w] \in WdRows /\ ledger \in Ledgers
      /\ lots \in [Lots -> LotRows] /\ LedgerTypeOK
  BY TypeParts DEF IInv, TypeOK, LedgerTypeOK
<1>2. /\ wd[w].status = "NONE" /\ UNCHANGED payout
      /\ \E a \in Reservable(w), s \in {"APPROVED", "UNDER_REVIEW"} :
           /\ ledger' = Reserved(w, a)
           /\ lots' = [n \in Lots |-> IF a[n] > 0 THEN Consumed(n, a[n]) ELSE lots[n]]
           /\ wd' = [wd EXCEPT ![w] = [@ EXCEPT !.status = s, !.alloc = a, !.source = SourceOf(a)]]
           /\ IF s = "APPROVED" THEN Go(g, "submit") ELSE Rest(g)
  BY DEF Reserve
<1>3. PICK a \in Reservable(w), s \in {"APPROVED", "UNDER_REVIEW"} :
           /\ ledger' = Reserved(w, a)
           /\ lots' = [n \in Lots |-> IF a[n] > 0 THEN Consumed(n, a[n]) ELSE lots[n]]
           /\ wd' = [wd EXCEPT ![w] = [@ EXCEPT !.status = s, !.alloc = a, !.source = SourceOf(a)]]
           /\ IF s = "APPROVED" THEN Go(g, "submit") ELSE Rest(g)
  BY <1>2
<1>4. a \in [Lots -> 0 .. Amount[w]] /\ IsFifo(a) /\ Fits(Reserved(w, a))
  BY DEF Reservable, Allocations
<1>5. a \in [Lots -> Nat] /\ SourceOf(a) \in Sources \cup {"MIXED"}
  BY <1>1, <1>4, AmountsAreInts DEF SourceOf, Sources
<1>6. lots' \in [Lots -> LotRows]
  <2>1. ASSUME NEW n \in Lots, a[n] > 0 PROVE Consumed(n, a[n]) \in LotRows
    <3>1. lots[n].remaining \in Nat /\ a[n] \in Nat /\ a[n] <= lots[n].remaining
      BY <1>1, <1>4, <1>5, <2>1 DEF IsFifo, LotRows
    <3>2. QED
      BY <3>1 DEF Consumed, LotRows
  <2>2. QED
    BY <1>1, <1>3, <2>1
<1>7. /\ ledger' \in Ledgers
      /\ \A u, v : Journal(u, v) \in ledger'.posted
                      => Journal(u, v) \in ledger.posted \/ (u = "RESERVE" /\ v = w)
  BY <1>1, <1>3, <1>4, Posting, TemplatesOf, AmountsAreInts DEF Reserved
<1>8. LedgerTypeOK' /\ MoneyObeys
  <2>1. NewCompletion /\ NewRelease
    BY <1>7 DEF NewCompletion, NewRelease, Posted
  <2>2. QED
    BY <1>1, <1>2, <1>6, <1>7, <2>1 DEF LedgerTypeOK, MoneyObeys
<1>9. RowsObey /\ wd' \in Rows
  <2> DEFINE r == [wd[w] EXCEPT !.status = s, !.alloc = a, !.source = SourceOf(a)]
  <2>1. r \in WdRows /\ r.status = s /\ r.ref = wd[w].ref
    BY <1>1, <1>5, TemplatesOf DEF WdRows
  <2>2. wd' = [wd EXCEPT ![w] = r]
    BY <1>3
  <2>3. QED
    BY <1>1, <1>2, <2>1, <2>2, RowChange DEF Cleared
<1>10. payout' \in Payouts /\ CallsObey
  BY <1>1, <1>2, StillFrames
<1>11. Moved(g, "submit", w) \/ \E v \in Withdrawals : Moved(g, "idle", v)
  BY <1>1, <1>3, Moves DEF Step
<1>12. \A v : Warranted("submit", v) /\ Warranted("idle", v)
  BY DEF Warranted, Before
<1>13. QED
  BY <1>1, <1>8, <1>9, <1>10, <1>11, <1>12, GoodStep

(* The claim of the row. *)
LEMMA SubmitStep ==
  ASSUME IInv, NEW g \in Goroutines, Submit(g)
  PROVE  IInv'
<1> DEFINE w == job[g].of
<1>1. TypeOK /\ w \in Withdrawals /\ wd \in Rows /\ wd[w] \in WdRows
  BY TypeParts DEF IInv, TypeOK, Rows
<1>2. CASE wd[w].status \in {"APPROVED", "PROCESSING"}
  <2>1. SetStatus(w, "PROCESSING") /\ Go(g, "pay") /\ UNCHANGED <<ledger, lots, payout>>
    BY <1>2 DEF Submit
  <2>2. RowsObey /\ wd' \in Rows
    BY <1>1, <1>2, <2>1, StatusChange, TemplatesOf
  <2>3. Moved(g, "pay", w) /\ Warranted("pay", w)
    BY <1>1, <1>2, <2>1, Moves DEF Step, Warranted, Cleared, Before
  <2>4. QED
    BY <1>1, <2>1, <2>2, <2>3, GoodStep, StillFrames
<1>3. CASE wd[w].status \notin {"APPROVED", "PROCESSING"}
  <2>1. Rest(g) /\ UNCHANGED <<ledger, lots, wd, payout>>
    BY <1>3 DEF Submit
  <2>2. PICK v \in Withdrawals : Moved(g, "idle", v)
    BY <1>1, <2>1, Moves
  <2>3. Warranted("idle", v)
    BY DEF Warranted, Before
  <2>4. QED
    BY <2>1, <2>2, <2>3, GoodQuietStep
<1>4. QED
  BY <1>2, <1>3

----------------------------------------------------------------------------
(* The provider's side of a payout.                                        *)

LEMMA OutcomesAdded ==
  ASSUME payout \in Payouts, NEW w \in Withdrawals, NEW e \in Endpoints, NEW h \in SUBSET Outcome,
         payout[w][e] \subseteq h, payout' = [payout EXCEPT ![w][e] = h], Cleared(w)
  PROVE  payout' \in Payouts /\ CallsObey /\ payout'[w][e] = h
<1>1. /\ payout' \in Payouts
      /\ \A v \in Withdrawals \ {w} : payout'[v] = payout[v]
      /\ payout'[w][e] = h
      /\ \A f \in Endpoints \ {e} : payout'[w][f] = payout[w][f]
  BY DEF Payouts
<1>2. PayoutsGrow
  BY <1>1 DEF PayoutsGrow
<1>3. NewSent
  BY <1>1 DEF NewSent
<1>4. QED
  BY <1>1, <1>2, <1>3 DEF CallsObey

LEMMA SettleStep ==
  ASSUME IInv, NEW w \in Withdrawals, NEW e \in Endpoints, Settle(w, e)
  PROVE  IInv'
<1>1. TypeOK /\ payout \in Payouts /\ job \in JobRows
  BY TypeParts DEF IInv
<1>2. Cleared(w)
  BY DEF Settle, Exists, IInv, SentAreCleared
<1>3. \E s \in {"COMPLETED", "FAILED"} : payout' = [payout EXCEPT ![w][e] = @ \cup {s}]
  BY DEF Settle
<1>4. payout' \in Payouts /\ CallsObey
  <2>1. PICK s \in {"COMPLETED", "FAILED"} : payout' = [payout EXCEPT ![w][e] = payout[w][e] \cup {s}]
    BY <1>3
  <2>2. payout[w][e] \cup {s} \in SUBSET Outcome
    BY <1>1 DEF Payouts, Outcome
  <2>3. QED
    BY <1>1, <1>2, <2>1, <2>2, OutcomesAdded
<1>5. UNCHANGED <<ledger, lots, wd, job>>
  BY DEF Settle
<1>6. RowsObey /\ wd' \in Rows /\ MoneyObeys /\ LedgerTypeOK'
  BY <1>1, <1>5, StillFrames
<1>7. TypeOK'
  BY <1>1, <1>4, <1>5, <1>6, TypeParts
<1>8. JobsKnow'
  BY <1>1, <1>4, <1>5, <1>6, JobsStayKnown DEF IInv, CallsObey, RowsObey
<1>9. QED
  BY <1>4, <1>6, <1>7, <1>8, StepKeeps

(* What an answer warrants.                                                *)
LEMMA AnswerWarrants ==
  ASSUME NEW w \in Withdrawals, Cleared(w), NEW e \in Endpoints, NEW s \in {"PENDING", "COMPLETED", "FAILED"},
         s \in payout[w][e]
  PROVE  Answer(s) \in Step /\ Warranted(Answer(s), w)
<1>1. CASE s = "PENDING"
  BY <1>1 DEF Answer, Warranted, Step
<1>2. CASE s = "COMPLETED"
  BY <1>2 DEF Answer, Warranted, Step, Answered
<1>3. CASE s = "FAILED"
  BY <1>3 DEF Answer, Warranted, Step, Answered
<1>4. QED
  BY <1>1, <1>2, <1>3

LEMMA CurrentIsAnOutcome ==
  ASSUME NEW h, Exists(h)
  PROVE  Current(h) \in h /\ Current(h) \in {"PENDING", "COMPLETED", "FAILED"}
BY DEF Current, Exists

(* One call of an endpoint. *)
LEMMA CallStep ==
  ASSUME IInv, NEW g \in Goroutines, job[g].at \notin Before, NEW e \in Endpoints,
         NEW timeout \in {"fall_back", "unknown", "refused"},
         NEW error \in {"give_up", "unknown", "refused"},
         CallEndpoint(g, e, timeout, error), UNCHANGED <<ledger, lots, wd>>,
         Warranted(timeout, job[g].of),
         e = "payouts" \/ Warranted(error, job[g].of)
  PROVE  IInv'
<1>1. PICK w \in Withdrawals : w = job[g].of
  BY DEF IInv, TypeOK
<1>2. TypeOK /\ payout \in Payouts /\ Cleared(w)
  BY <1>1, TypeParts DEF IInv, JobsKnow, Warranted
<1>3. RowsObey /\ wd' \in Rows /\ MoneyObeys /\ LedgerTypeOK' /\ Cleared(w)'
  BY <1>2, StillFrames DEF Cleared
<1>4. timeout \in Step /\ error \in Step /\ e \in Refs
  BY DEF Step, Refs
<1> DEFINE had  == payout[w][e]
           made == had \cup {"PENDING"}
           all  == {had, made, had \cup {"ERROR"}, made \cup {"ERROR"}}
           Has(h) == payout' = [payout EXCEPT ![w][e] = h]
<1>5. ASSUME NEW h \in all, Has(h)
      PROVE  payout' \in Payouts /\ CallsObey /\ payout'[w][e] = h
  <2>1. h \in SUBSET Outcome /\ payout[w][e] \subseteq h
    BY <1>2 DEF Payouts, Outcome
  <2>2. QED
    BY <1>2, <1>5, <2>1, OutcomesAdded
<1>6. ASSUME NEW s \in {timeout, error}, Go(g, s), payout' \in Payouts, CallsObey,
             Warranted(s, w) \/ Warranted(s, w)'
      PROVE  IInv'
  <2>1. Moved(g, s, w)
    BY <1>1, <1>2, <1>4, <1>6, Moves
  <2>2. QED
    BY <1>3, <1>6, <2>1, GoodStep
<1>7. CASE (Has(had) \/ Has(made)) /\ Go(g, timeout)
  BY <1>1, <1>5, <1>6, <1>7
<1>8. CASE /\ \/ Has(had) /\ e \notin Serving
              \/ Has(had \cup {"ERROR"})
              \/ Has(made \cup {"ERROR"})
           /\ Go(g, error)
  <2>1. /\ payout' \in Payouts /\ CallsObey
        /\ e \notin Serving \/ "ERROR" \in payout'[w][e]
    <3>1. CASE Has(had) /\ e \notin Serving
      BY <1>5, <3>1
    <3>2. CASE Has(had \cup {"ERROR"})
      BY <1>5, <3>2
    <3>3. CASE Has(made \cup {"ERROR"})
      BY <1>5, <3>3
    <3>4. QED
      BY <1>8, <3>1, <3>2, <3>3
  <2>2. Warranted(error, w) \/ Warranted(error, w)'
    BY <1>1, <1>3, <2>1 DEF Warranted, FirstErred
  <2>3. QED
    BY <1>6, <1>8, <2>1, <2>2
<1>9. CASE Has(made) /\ GoWith(g, Answer(Current(made)), e)
  <2>1. payout' \in Payouts /\ CallsObey /\ payout'[w][e] = made
    BY <1>5, <1>9
  <2>2. PICK h : h = made
    OBVIOUS
  <2>3. Exists(h)
    BY <2>2 DEF Exists
  <2>4. PICK c \in {"PENDING", "COMPLETED", "FAILED"} : c = Current(h) /\ c \in h
    BY <2>3, CurrentIsAnOutcome
  <2>5. Answer(c) \in Step /\ (Answer(c) \in {"pending", "complete", "bind"})
    BY DEF Answer, Step
  <2>6. Warranted(Answer(c), w)'
    <3>1. c \in payout'[w][e]
      BY <2>1, <2>2, <2>4
    <3>2. Answered(w, c)'
      BY <3>1 DEF Answered
    <3>3. QED
      BY <1>3, <3>2 DEF Warranted, Answer
  <2>7. Moved(g, Answer(c), w)
    BY <1>1, <1>2, <1>4, <1>9, <2>2, <2>4, <2>5, Moves
  <2>8. QED
    BY <1>3, <2>1, <2>6, <2>7, GoodStep
<1>10. QED
  BY <1>1, <1>7, <1>8, <1>9 DEF CallEndpoint

LEMMA PayStep ==
  ASSUME IInv, NEW g \in Goroutines, Pay(g) \/ FallBack(g)
  PROVE  IInv'
<1>1. job[g].of \in Withdrawals /\ Warranted(job[g].at, job[g].of)
  BY DEF IInv, TypeOK, JobsKnow
<1>2. CASE Pay(g)
  <2>1. job[g].at = "pay" /\ job[g].at \notin Before
    BY <1>2 DEF Pay, At, Before
  <2>2. Cleared(job[g].of)
    BY <1>1, <2>1 DEF Warranted
  <2>3. Warranted("fall_back", job[g].of)
    BY <2>2 DEF Warranted
  <2>4. QED
    BY <1>2, <2>1, <2>3, CallStep DEF Pay, Endpoints
<1>3. CASE FallBack(g)
  <2>1. job[g].at \in {"fall_back", "give_up"} /\ job[g].at \notin Before
    BY <1>3 DEF FallBack, At, Before
  <2>2. PICK verdict \in {"unknown", "refused"} :
              /\ verdict = IF At(g, "fall_back") THEN "unknown" ELSE "refused"
              /\ CallEndpoint(g, "disbursements", verdict, verdict)
    BY <1>3 DEF FallBack
  <2>3. Warranted(verdict, job[g].of)
    BY <1>1, <2>1, <2>2 DEF Warranted, At
  <2>4. QED
    BY <1>3, <2>1, <2>2, <2>3, CallStep DEF FallBack, Endpoints
<1>4. QED
  BY <1>2, <1>3

----------------------------------------------------------------------------
(* What an outcome does to the row.                                        *)

LEMMA CompletionLedger ==
  ASSUME TypeOK, NEW w \in Withdrawals, Fits(Completion(w).ledger)
  PROVE  /\ Completion(w).ledger \in Ledgers
         /\ \A t, v : Journal(t, v) \in Completion(w).ledger.posted
                        => Journal(t, v) \in ledger.posted \/ (t \in {"RECAPTURE", "COMPLETE"} /\ v = w)
<1> DEFINE late == wd[w].status = "FAILED" /\ wd[w].released
           a    == IF ledger.available < Amount[w] THEN ledger.available ELSE Amount[w]
           l    == IF late THEN Post(ledger, Journal("RECAPTURE", w), 0, -a, wd[w].source) ELSE ledger
           m    == Post(l, Journal("COMPLETE", w), 0, 0, wd[w].source)
<1>1. /\ ledger \in Ledgers /\ ledger \in Sums /\ w \in Withdrawals \cup Lots
      /\ "RECAPTURE" \in Templates /\ "COMPLETE" \in Templates
  BY LedgerIsSum, TemplatesOf DEF TypeOK, LedgerTypeOK
<1>2. -a \in Int
  BY <1>1, AmountsAreInts DEF Ledgers
<1>3. /\ \A t, v : Journal(t, v) = Journal("RECAPTURE", w) => t = "RECAPTURE" /\ v = w
      /\ \A t, v : Journal(t, v) = Journal("COMPLETE", w) => t = "COMPLETE" /\ v = w
      /\ Journal("RECAPTURE", w) \in Journals /\ Journal("COMPLETE", w) \in Journals
  BY <1>1, JournalType
<1>4. l \in Sums /\ (l.posted = ledger.posted \/ l.posted = ledger.posted \cup {Journal("RECAPTURE", w)})
  <2>1. CASE late
    <3>1. l = Post(ledger, Journal("RECAPTURE", w), 0, -a, wd[w].source)
      BY <2>1
    <3>2. QED
      BY <1>1, <1>2, <1>3, <3>1, PostType
  <2>2. CASE ~late
    BY <1>1, <2>2
  <2>3. QED
    BY <2>1, <2>2
<1>5. m \in Sums /\ m.posted = l.posted \cup {Journal("COMPLETE", w)}
  <2> HIDE DEF l
  <2>1. QED
    BY <1>3, <1>4, PostType
<1>6. Completion(w).ledger = m
  BY DEF Completion
<1>7. QED
  <2> HIDE DEF m, l
  <2>1. QED
    BY <1>3, <1>4, <1>5, <1>6, FitsType

LEMMA CompletionRow ==
  ASSUME TypeOK, NEW w \in Withdrawals, NEW e \in Refs
  PROVE  LET r == [Completion(w).row EXCEPT !.ref = e] IN
         r \in WdRows /\ r.status = "COMPLETED" /\ r.ref = e
<1>1. wd[w] \in WdRows /\ "COMPLETED" \in Status
  BY TemplatesOf DEF TypeOK
<1>2. \E p \in BOOLEAN : Completion(w).row = [wd[w] EXCEPT !.status = "COMPLETED", !.released = p]
  BY <1>1 DEF Completion, WdRows
<1>3. QED
  BY <1>1, <1>2 DEF WdRows

LEMMA CompleteStep ==
  ASSUME IInv, NEW g \in Goroutines, Complete(g)
  PROVE  IInv'
<1>1. PICK w \in Withdrawals : w = job[g].of
  BY DEF IInv, TypeOK
<1>2. TypeOK /\ wd \in Rows /\ LedgerTypeOK /\ job[g].ref \in Refs
  BY TypeParts DEF IInv, TypeOK
<1>3. Cleared(w) /\ Answered(w, "COMPLETED")
  BY <1>1 DEF Complete, At, IInv, JobsKnow, Warranted, Before
<1>4. PICK v \in Withdrawals : Moved(g, "idle", v)
  BY <1>2, Moves DEF Complete
<1>5. Warranted("idle", v)
  BY DEF Warranted, Before
<1>6. CASE CanComplete(w)
  <2>1. /\ ledger' = Completion(w).ledger /\ UNCHANGED <<lots, payout>>
        /\ wd' = [wd EXCEPT ![w] = [Completion(w).row EXCEPT !.ref = job[g].ref]]
    BY <1>1, <1>6 DEF Complete
  <2>2. RowsObey /\ wd' \in Rows
    <3>1. wd[w].status # "REJECTED"
      BY <1>3 DEF Cleared
    <3>2. QED
      BY <1>2, <1>3, <2>1, <3>1, CompletionRow, RowChange
  <2>3. /\ ledger' \in Ledgers
        /\ \A t, x : Journal(t, x) \in ledger'.posted
                        => Journal(t, x) \in ledger.posted \/ (t \in {"RECAPTURE", "COMPLETE"} /\ x = w)
    BY <1>2, <1>6, <2>1, CompletionLedger DEF CanComplete
  <2>4. LedgerTypeOK'
    BY <1>2, <2>1, <2>3 DEF LedgerTypeOK
  <2>5. NewCompletion /\ NewRelease
    BY <1>3, <2>3 DEF NewCompletion, NewRelease, Posted
  <2>6. payout' \in Payouts /\ CallsObey
    BY <1>2, <2>1, StillFrames
  <2>7. QED
    BY <1>4, <1>5, <2>2, <2>4, <2>5, <2>6, GoodStep DEF MoneyObeys
<1>7. CASE ~CanComplete(w)
  BY <1>1, <1>4, <1>5, <1>7, GoodQuietStep DEF Complete
<1>8. QED
  BY <1>6, <1>7

LEMMA FailStep ==
  ASSUME IInv, NEW g \in Goroutines, FailAndRelease(g)
  PROVE  IInv'
<1>1. PICK w \in Withdrawals : w = job[g].of
  BY DEF IInv, TypeOK
<1>2. TypeOK /\ job[g].at \in {"fail", "refused"}
  BY DEF IInv, FailAndRelease, At
<1>3. Cleared(w) /\ (Answered(w, "FAILED") \/ FirstErred(w))
  BY <1>1, <1>2 DEF IInv, JobsKnow, Warranted, Before
<1>4. PICK v \in Withdrawals : Moved(g, "idle", v)
  BY <1>2, Moves DEF FailAndRelease
<1>5. Warranted("idle", v)
  BY DEF Warranted, Before
<1>6. CASE CloseReleased(w, "FAILED") /\ (wd[w].released \/ CanRelease(w))
  <2>1. UNCHANGED payout /\ wd[w].status # "REJECTED"
    BY <1>3 DEF FailAndRelease, Cleared
  <2>2. RowsObey /\ wd' \in Rows /\ MoneyObeys /\ LedgerTypeOK'
    BY <1>2, <1>3, <1>6, <2>1, Closing
  <2>3. payout' \in Payouts /\ CallsObey
    BY <1>2, <2>1, StillFrames
  <2>4. QED
    BY <1>4, <1>5, <2>2, <2>3, GoodStep
<1>7. CASE UNCHANGED <<ledger, lots, wd>>
  BY <1>4, <1>5, <1>7, GoodQuietStep DEF FailAndRelease
<1>8. QED
  BY <1>1, <1>6, <1>7 DEF FailAndRelease

(* A row change by a goroutine that moves no money. *)
LEMMA RowStep ==
  ASSUME IInv, NEW g \in Goroutines,
         \/ MarkUnknown(g) \/ BackToProcessing(g) \/ ScheduleLookup(g) \/ BindRef(g)
  PROVE  IInv'
<1>1. PICK w \in Withdrawals : w = job[g].of
  BY DEF IInv, TypeOK
<1>2. TypeOK /\ wd \in Rows /\ wd[w] \in WdRows /\ job[g].ref \in Refs
  BY TypeParts DEF IInv, TypeOK
<1>3. job[g].at \notin Before /\ Warranted(job[g].at, w)
  BY <1>1 DEF MarkUnknown, BackToProcessing, ScheduleLookup, BindRef, At, Before, IInv, JobsKnow
<1>4. Cleared(w)
  BY <1>3 DEF Warranted
<1>5. UNCHANGED <<ledger, lots, payout>>
  BY DEF MarkUnknown, BackToProcessing, ScheduleLookup, BindRef
<1>6. ASSUME NEW s, NEW v \in Withdrawals, Moved(g, s, v), Warranted(s, v), RowsObey, wd' \in Rows
      PROVE  IInv'
  BY <1>2, <1>5, <1>6, GoodStep, StillFrames
<1>7. ASSUME NEW r \in WdRows, wd' = [wd EXCEPT ![w] = r],
             r.status \notin {"NONE", "UNDER_REVIEW", "HELD", "REJECTED"}
      PROVE  RowsObey /\ wd' \in Rows
  BY <1>2, <1>4, <1>7, RowChange DEF Cleared
<1>8. ASSUME Rest(g), RowsObey, wd' \in Rows PROVE IInv'
  <2>1. PICK v \in Withdrawals : Moved(g, "idle", v)
    BY <1>2, <1>8, Moves
  <2>2. Warranted("idle", v)
    BY DEF Warranted, Before
  <2>3. QED
    BY <1>6, <1>8, <2>1, <2>2
<1>9. CASE MarkUnknown(g)
  <2>1. CASE wd' = wd
    BY <1>2, <1>8, <1>9, <2>1, StillFrames DEF MarkUnknown
  <2>2. CASE wd' # wd
    <3> DEFINE r == [wd[w] EXCEPT !.status = "UNKNOWN_OUTCOME",
                                  !.ref = IF wd[w].ref = "NONE" THEN "PENDING" ELSE wd[w].ref]
    <3>1. wd' = [wd EXCEPT ![w].status = "UNKNOWN_OUTCOME",
                           ![w].ref = IF wd[w].ref = "NONE" THEN "PENDING" ELSE wd[w].ref]
      BY <1>1, <1>9, <2>2 DEF MarkUnknown
    <3>2. wd' = [wd EXCEPT ![w] = r]
      BY <1>2, <3>1 DEF Rows, WdRows
    <3>3. r \in WdRows /\ r.status = "UNKNOWN_OUTCOME"
      BY <1>2, TemplatesOf DEF WdRows, Refs
    <3>4. RowsObey /\ wd' \in Rows
      BY <1>7, <3>2, <3>3
    <3>5. QED
      BY <1>8, <1>9, <3>4 DEF MarkUnknown
  <2>3. QED
    BY <2>1, <2>2
<1>10. CASE BackToProcessing(g)
  <2> DEFINE r == [wd[w] EXCEPT !.status = "PROCESSING", !.ref = job[g].ref]
  <2>1. r \in WdRows /\ r.status = "PROCESSING" /\ wd' = [wd EXCEPT ![w] = r]
    BY <1>1, <1>2, <1>10, TemplatesOf DEF BackToProcessing, WdRows
  <2>2. RowsObey /\ wd' \in Rows
    BY <1>7, <2>1
  <2>3. QED
    BY <1>8, <1>10, <2>2 DEF BackToProcessing
<1>11. CASE ScheduleLookup(g)
  <2>1. RowsObey /\ wd' \in Rows
    BY <1>1, <1>2, <1>4, <1>11, StatusChange, TemplatesOf DEF ScheduleLookup, Cleared
  <2>2. QED
    BY <1>8, <1>11, <2>1 DEF ScheduleLookup
<1>12. CASE BindRef(g)
  <2> DEFINE r == [wd[w] EXCEPT !.ref = job[g].ref]
  <2>1. r \in WdRows /\ r.status = wd[w].status
    BY <1>2 DEF WdRows
  <2>2. wd' = [wd EXCEPT ![w] = r]
    BY <1>1, <1>2, <1>12 DEF BindRef
  <2>3. RowsObey /\ wd' \in Rows
    BY <1>4, <1>7, <2>1, <2>2 DEF Cleared
  <2>4. Moved(g, "fail", w) /\ Warranted("fail", w)
    <3>1. Moved(g, "fail", w)
      BY <1>1, <1>2, <1>12, Moves DEF BindRef, Step
    <3>2. job[g].at = "bind"
      BY <1>12 DEF BindRef, At
    <3>3. QED
      BY <1>3, <1>4, <3>1, <3>2 DEF Warranted
  <2>5. QED
    BY <1>6, <2>3, <2>4
<1>13. QED
  BY <1>9, <1>10, <1>11, <1>12

----------------------------------------------------------------------------
(* Lookups and callbacks.                                                  *)

LEMMA AskStep ==
  ASSUME IInv, NEW g \in Goroutines,
         \/ \E w \in Withdrawals : Resolve(g, w) \/ Callback(g, w)
         \/ Lookup(g)
         \/ Die(g)
  PROVE  IInv'
<1>1. TypeOK
  BY DEF IInv
<1>2. \A s \in {"lookup", "schedule"} : s \in Step /\ \A w : Cleared(w) => Warranted(s, w)
  BY DEF Step, Warranted
<1>3. ASSUME NEW w \in Withdrawals, Resolve(g, w) PROVE IInv'
  <2>1. Cleared(w) /\ wd[w].ref \in Refs
    BY <1>1, <1>3 DEF Resolve, Cleared, TypeOK, WdRows
  <2>2. \E s \in {"lookup", "schedule"} : Moved(g, s, w)
    BY <1>1, <1>2, <1>3, <2>1, Moves DEF Resolve
  <2>3. QED
    BY <1>2, <1>3, <2>1, <2>2, GoodQuietStep DEF Resolve
<1>4. ASSUME NEW w \in Withdrawals, Callback(g, w) PROVE IInv'
  <2>1. wd[w].ref \in Endpoints /\ wd[w].ref \in Refs /\ Cleared(w)
    BY <1>4 DEF Callback, Refs, IInv, RefsAreCleared
  <2>2. UNCHANGED <<ledger, lots, wd, payout>>
    BY <1>4 DEF Callback
  <2>3. CASE Start(g, "schedule", w, wd[w].ref)
    <3>1. Moved(g, "schedule", w)
      BY <1>1, <1>2, <2>1, <2>3, Moves
    <3>2. QED
      BY <1>2, <2>1, <2>2, <3>1, GoodQuietStep
  <2>4. CASE \E s \in payout[w][wd[w].ref] \ {"ERROR"} : Start(g, Answer(s), w, wd[w].ref)
    <3>1. PICK s \in payout[w][wd[w].ref] \ {"ERROR"} : Start(g, Answer(s), w, wd[w].ref)
      BY <2>4
    <3>2. s \in {"PENDING", "COMPLETED", "FAILED"}
      <4>1. payout[w][wd[w].ref] \subseteq Outcome
        BY <1>1, <2>1, TypeParts DEF Payouts
      <4>2. QED
        BY <3>1, <4>1 DEF Outcome
    <3>3. Answer(s) \in Step /\ Warranted(Answer(s), w)
      BY <2>1, <3>1, <3>2, AnswerWarrants
    <3>4. Moved(g, Answer(s), w)
      BY <1>1, <2>1, <3>1, <3>3, Moves
    <3>5. QED
      BY <2>2, <3>3, <3>4, GoodQuietStep
  <2>5. QED
    BY <1>4, <2>3, <2>4 DEF Callback
<1>5. CASE Lookup(g)
  <2>1. PICK w \in Withdrawals : w = job[g].of
    BY <1>1 DEF TypeOK
  <2>2. Cleared(w)
    BY <1>5, <2>1 DEF Lookup, At, Before, IInv, JobsKnow, Warranted
  <2>3. UNCHANGED <<ledger, lots, wd, payout>>
    BY <1>5 DEF Lookup
  <2>4. CASE Go(g, "schedule")
    <3>1. Moved(g, "schedule", w)
      BY <1>1, <1>2, <2>1, <2>4, Moves
    <3>2. QED
      BY <1>2, <2>2, <2>3, <3>1, GoodQuietStep
  <2>5. CASE \E e \in Endpoints : Exists(payout[w][e]) /\ GoWith(g, Answer(Current(payout[w][e])), e)
    <3>1. PICK e \in Endpoints : Exists(payout[w][e]) /\ GoWith(g, Answer(Current(payout[w][e])), e)
      BY <2>5
    <3>2. PICK s \in {"PENDING", "COMPLETED", "FAILED"} :
            s = Current(payout[w][e]) /\ s \in payout[w][e]
      BY <3>1, CurrentIsAnOutcome
    <3>3. Answer(s) \in Step /\ Warranted(Answer(s), w) /\ e \in Refs
      BY <2>2, <3>2, AnswerWarrants DEF Refs
    <3>4. Moved(g, Answer(s), w)
      BY <1>1, <2>1, <3>1, <3>2, <3>3, Moves
    <3>5. QED
      BY <2>3, <3>3, <3>4, GoodQuietStep
  <2>6. job[g].ref \in Endpoints => {job[g].ref} \subseteq Endpoints
    OBVIOUS
  <2>7. QED
    BY <1>5, <2>1, <2>4, <2>5, <2>6 DEF Lookup
<1>6. CASE Die(g)
  <2>1. PICK w \in Withdrawals : Moved(g, "idle", w)
    BY <1>1, <1>6, Moves DEF Die
  <2>2. Warranted("idle", w)
    BY DEF Warranted, Before
  <2>3. QED
    BY <1>6, <2>1, <2>2, GoodQuietStep DEF Die
<1>7. QED
  BY <1>3, <1>4, <1>5, <1>6

LEMMA WalletStep ==
  ASSUME IInv, LedgerNext, UNCHANGED <<wd, payout, job>>
  PROVE  IInv'
<1>1. TypeOK /\ LedgerTypeOK /\ job \in JobRows
  BY TypeParts DEF IInv
<1>2. LedgerTypeOK' /\ OnlyOf({"CAPTURE", "SETTLE"})
  BY <1>1, LedgerStepType
<1>3. NewCompletion /\ NewRelease
  BY <1>2, TemplatesOf DEF OnlyOf, NewCompletion, NewRelease, Posted
<1>4. RowsObey /\ CallsObey /\ wd' \in Rows /\ payout' \in Payouts
  BY <1>1, StillFrames
<1>5. TypeOK'
  BY <1>1, <1>2, <1>4, TypeParts
<1>6. JobsKnow'
  BY <1>1, <1>4, JobsStayKnown DEF IInv, RowsObey, CallsObey
<1>7. QED
  BY <1>3, <1>4, <1>5, <1>6, StepKeeps DEF MoneyObeys

LEMMA IInvInit == Init => IInv
<1>1. SUFFICES ASSUME Init PROVE IInv
  OBVIOUS
<1>2. PICK w0 \in Withdrawals : w0 = CHOOSE v \in Withdrawals : TRUE
  BY WithdrawalAssumption
<1>3. /\ ledger = [pending |-> 0, available |-> 0, bySource |-> [s \in Sources |-> 0], posted |-> {}]
      /\ lots = [n \in Lots |-> [status |-> "NONE", remaining |-> 0]]
      /\ wd = [w \in Withdrawals |->
                 [status |-> "NONE", ref |-> "NONE", source |-> "MIXED",
                  alloc |-> [n \in Lots |-> 0], released |-> FALSE]]
      /\ payout = [w \in Withdrawals |-> [e \in Endpoints |-> {}]]
      /\ job = [g \in Goroutines |-> [at |-> "idle", of |-> w0, ref |-> "NONE"]]
  BY <1>1, <1>2 DEF Init, LedgerInit, Resting
<1>4. LedgerTypeOK
  BY <1>3, LedgerAssumption DEF LedgerTypeOK, Ledgers, LotRows, Sources
<1>5. wd \in Rows /\ payout \in Payouts
  BY <1>3 DEF Rows, WdRows, Payouts, Status, Refs
<1>6. job \in JobRows
  BY <1>3 DEF JobRows, Step, Refs
<1>7. JobsKnow
  BY <1>3 DEF JobsKnow, Warranted, Before
<1>8. SentAreCleared /\ RefsAreCleared
  BY <1>3 DEF SentAreCleared, RefsAreCleared, Endpoints
<1>9. CompletionNeedsSuccess /\ TimeoutKeepsReserve
  BY <1>3 DEF CompletionNeedsSuccess, TimeoutKeepsReserve, Posted
<1>10. QED
  BY <1>4, <1>5, <1>6, <1>7, <1>8, <1>9, TypeParts DEF IInv

LEMMA IInvStep == IInv /\ [Next]_vars => IInv'
<1>1. SUFFICES ASSUME IInv, [Next]_vars PROVE IInv'
  OBVIOUS
<1>2. CASE UNCHANGED vars
  <2>1. UNCHANGED <<ledger, lots>> /\ UNCHANGED wd /\ UNCHANGED payout /\ UNCHANGED job
    BY <1>2 DEF vars
  <2>2. RowsObey /\ CallsObey /\ MoneyObeys /\ LedgerTypeOK' /\ wd' \in Rows /\ payout' \in Payouts
    BY <1>1, <2>1, StillFrames DEF IInv
  <2>3. TypeOK'
    BY <1>1, <2>1, <2>2, TypeParts DEF IInv
  <2>4. JobsKnow'
    BY <1>1, <2>1, <2>2, JobsStayKnown DEF IInv, RowsObey, CallsObey
  <2>5. QED
    BY <1>1, <2>2, <2>3, <2>4, StepKeeps
<1>3. CASE LedgerNext /\ UNCHANGED <<wd, payout, job>>
  BY <1>1, <1>3, WalletStep
<1>4. CASE \E w \in Withdrawals, e \in Endpoints : Settle(w, e)
  BY <1>1, <1>4, SettleStep
<1>5. ASSUME NEW g \in Goroutines,
             \/ \E w \in Withdrawals :
                  \/ Request(g, w) \/ Reject(g, w) \/ Hold(g, w) \/ Approve(g, w)
                  \/ Resolve(g, w) \/ Callback(g, w)
             \/ Reserve(g) \/ ReserveFails(g) \/ Submit(g) \/ Pay(g) \/ FallBack(g)
             \/ MarkUnknown(g) \/ BackToProcessing(g) \/ ScheduleLookup(g) \/ Complete(g)
             \/ BindRef(g) \/ FailAndRelease(g) \/ Lookup(g) \/ Die(g)
      PROVE  IInv'
  BY <1>1, <1>5, RequestStep, ReviewStep, ReserveStep, SubmitStep, PayStep, RowStep,
     CompleteStep, FailStep, AskStep
<1>6. QED
  BY <1>1, <1>2, <1>3, <1>4, <1>5 DEF Next

LEMMA Invariance == Spec => []IInv
  BY IInvInit, IInvStep, PTL DEF Spec

(* The wallet, its lots, the withdrawals, the payouts and the goroutines   *)
(* keep their types; in particular no balance is ever negative.            *)
THEOREM TypeCorrect == Spec => []TypeOK
  BY Invariance, PTL DEF IInv

(* AdminReview: what was rejected or is held was never sent, however many  *)
(* administrators and payouts race.                                        *)
THEOREM RefusedStaysHome == Spec => []RefusedIsNeverSent
<1>1. IInv => RefusedIsNeverSent
  BY DEF IInv, SentAreCleared, RefusedIsNeverSent, Cleared
<1>2. QED
  BY <1>1, Invariance, PTL

(* completeWithdrawal: no completion without the provider's success.       *)
THEOREM CompletionIsEarned == Spec => []CompletionNeedsSuccess
  BY Invariance, PTL DEF IInv

(* Real.CreateDisbursement, markUnknown: the timeout of the first endpoint *)
(* never gives the reserve back, whatever the second one answers, however  *)
(* calls may fail and whichever endpoints are open to the account.         *)
THEOREM TimeoutsKeepReserves == Spec => []TimeoutKeepsReserve
<1>1. IInv => TimeoutKeepsReserve
  BY DEF IInv
<1>2. QED
  BY <1>1, Invariance, PTL

----------------------------------------------------------------------------
(* Sums over the lots, as counts of coins.                                 *)

Sizes == [Lots -> Nat]

LEMMA CoinsAre ==
  ASSUME NEW f \in Sizes, NEW c
  PROVE  c \in Coins(f) <=> c \in Lots \X (Nat \ {0}) /\ c[2] <= f[c[1]]
BY DEF Coins, Sizes

LEMMA BlockCount ==
  ASSUME NEW x, NEW k \in Nat
  PROVE  IsFiniteSet({x} \X (1 .. k)) /\ Cardinality({x} \X (1 .. k)) = k
<1>1. IsFiniteSet({x}) /\ Cardinality({x}) = 1
  BY FS_Singleton
<1>2. IsFiniteSet(1 .. k) /\ Cardinality(1 .. k) = k
  BY FS_Interval
<1> DEFINE A == {x}
           B == 1 .. k
<1>3. IsFiniteSet(A \X B) /\ Cardinality(A \X B) = 1 * k
  <2> HIDE DEF A, B
  <2>1. IsFiniteSet(A) /\ Cardinality(A) = 1 /\ IsFiniteSet(B) /\ Cardinality(B) = k
    BY <1>1, <1>2 DEF A, B
  <2>2. QED
    BY <2>1, FS_Product
<1>4. QED
  BY <1>3

LEMMA TotalType ==
  ASSUME NEW f \in Sizes
  PROVE  IsFiniteSet(Coins(f)) /\ Total(f) \in Nat
<1> DEFINE S == {{n} \X (1 .. f[n]) : n \in Lots}
           block == [n \in Lots |-> {n} \X (1 .. f[n])]
<1>1. IsFiniteSet(Lots)
  BY FS_Interval, LedgerAssumption DEF Lots
<1>2. block \in Surjection(Lots, S)
  BY DEF Surjection
<1>3. IsFiniteSet(S)
  BY <1>1, <1>2, FS_Surjection
<1>4. ASSUME NEW T \in S PROVE IsFiniteSet(T)
  <2>1. PICK n \in Lots : T = {n} \X (1 .. f[n])
    OBVIOUS
  <2>2. f[n] \in Nat
    BY DEF Sizes
  <2>3. QED
    BY <2>1, <2>2, BlockCount
<1>5. IsFiniteSet(UNION S)
  BY <1>3, <1>4, FS_UNION
<1>6. QED
  BY <1>5, FS_CardinalityType DEF Coins, Total

LEMMA TotalGrows ==
  ASSUME NEW f \in Sizes, NEW h \in Sizes, \A n \in Lots : f[n] <= h[n]
  PROVE  Coins(f) \subseteq Coins(h) /\ Total(f) <= Total(h)
<1>1. ASSUME NEW c \in Coins(f) PROVE c \in Coins(h)
  <2>1. c \in Lots \X (Nat \ {0}) /\ c[2] <= f[c[1]]
    BY CoinsAre
  <2>2. c[2] <= h[c[1]]
    BY <2>1 DEF Sizes
  <2>3. QED
    BY <2>1, <2>2, CoinsAre
<1>2. QED
  BY <1>1, TotalType, FS_Subset DEF Total

(* The coins that h has and f lacks are those of a, moved up.              *)
LEMMA TotalAdds ==
  ASSUME NEW f \in Sizes, NEW a \in Sizes, NEW h \in Sizes,
         \A n \in Lots : h[n] = f[n] + a[n]
  PROVE  Total(h) = Total(f) + Total(a)
<1> DEFINE New == Coins(h) \ Coins(f)
           up  == [c \in Coins(a) |-> <<c[1], f[c[1]] + c[2]>>]
<1>1. \A c \in Coins(a) : c \in Lots \X (Nat \ {0}) /\ c[2] <= a[c[1]]
  BY CoinsAre
<1>2. \A c \in New : c \in Lots \X (Nat \ {0}) /\ c[2] <= h[c[1]] /\ ~(c[2] <= f[c[1]])
  BY CoinsAre
<1>3. \A n \in Lots : f[n] \in Nat /\ a[n] \in Nat /\ h[n] \in Nat
  BY DEF Sizes
<1>4. ASSUME NEW c \in Coins(a) PROVE up[c] \in New
  <2>1. PICK n \in Lots, k \in Nat \ {0} : c = <<n, k>> /\ k <= a[n]
    BY <1>1
  <2>2. up[c] = <<n, f[n] + k>>
    BY <2>1
  <2>3. f[n] + k \in Nat \ {0} /\ f[n] + k <= h[n] /\ ~(f[n] + k <= f[n])
    BY <1>3, <2>1
  <2>4. <<n, f[n] + k>> \in Coins(h) /\ <<n, f[n] + k>> \notin Coins(f)
    BY <2>3, CoinsAre
  <2>5. QED
    BY <2>2, <2>4
<1>5. ASSUME NEW c \in Coins(a), NEW d \in Coins(a), up[c] = up[d] PROVE c = d
  <2>1. PICK n \in Lots, k \in Nat \ {0} : c = <<n, k>>
    BY <1>1
  <2>2. PICK m \in Lots, j \in Nat \ {0} : d = <<m, j>>
    BY <1>1
  <2>3. n = m /\ f[n] + k = f[m] + j
    BY <1>5, <2>1, <2>2
  <2>4. QED
    BY <1>3, <2>1, <2>2, <2>3
<1>6. ASSUME NEW t \in New PROVE \E c \in Coins(a) : up[c] = t
  <2>1. PICK n \in Lots, k \in Nat \ {0} : t = <<n, k>> /\ k <= h[n] /\ ~(k <= f[n])
    BY <1>2
  <2>2. k - f[n] \in Nat \ {0} /\ k - f[n] <= a[n] /\ f[n] + (k - f[n]) = k
    BY <1>3, <2>1
  <2>3. <<n, k - f[n]>> \in Coins(a)
    BY <2>2, CoinsAre
  <2>4. up[<<n, k - f[n]>>] = t
    BY <2>1, <2>2, <2>3
  <2>5. QED
    BY <2>3, <2>4
<1>7. up \in Bijection(Coins(a), New)
  <2>1. up \in [Coins(a) -> New]
    BY <1>4
  <2>2. QED
    BY <1>5, <1>6, <2>1 DEF Bijection, Injection, Surjection, IsInjective
<1>8. ExistsBijection(Coins(a), New)
  BY <1>7 DEF ExistsBijection
<1>9. IsFiniteSet(Coins(a)) /\ IsFiniteSet(Coins(f)) /\ IsFiniteSet(Coins(h))
      /\ Total(a) \in Nat /\ Total(f) \in Nat /\ Total(h) \in Nat
  BY TotalType
<1>10. Cardinality(New) = Total(a)
  <2> HIDE DEF New, up
  <2>1. QED
    BY <1>8, <1>9, FS_Bijection DEF Total
<1>11. Coins(h) \cap Coins(f) = Coins(f)
  BY <1>3, TotalGrows
<1>12. Cardinality(New) = Total(h) - Total(f)
  <2>1. Cardinality(New) = Cardinality(Coins(h)) - Cardinality(Coins(h) \cap Coins(f))
    BY <1>9, FS_Difference, Zenon
  <2>2. QED
    BY <1>11, <2>1, Zenon DEF Total
<1>13. QED
  <2> HIDE DEF New
  <2>1. QED
    BY <1>9, <1>10, <1>12

(* One lot that had nothing gets k. *)
LEMMA TotalFills ==
  ASSUME NEW f \in Sizes, NEW h \in Sizes, NEW n \in Lots,
         f[n] = 0, \A m \in Lots \ {n} : h[m] = f[m]
  PROVE  Total(h) = Total(f) + h[n]
<1> DEFINE a == [m \in Lots |-> IF m = n THEN h[n] ELSE 0]
<1>1. a \in Sizes /\ h[n] \in Nat
  BY DEF Sizes
<1>2. \A m \in Lots : h[m] = f[m] + a[m]
  BY DEF Sizes
<1>3. Total(h) = Total(f) + Total(a)
  BY <1>1, <1>2, TotalAdds
<1>4. Coins(a) = {n} \X (1 .. h[n])
  BY <1>1 DEF Coins
<1>5. Total(a) = h[n]
  <2> HIDE DEF a
  <2>1. Cardinality({n} \X (1 .. h[n])) = h[n]
    BY <1>1, BlockCount
  <2>2. QED
    BY <1>4, <2>1 DEF Total
<1>6. QED
  BY <1>3, <1>5

----------------------------------------------------------------------------
(* Lots and source rows cover the wallet.                                  *)

(* What the source rows have beyond the wallet.                            *)
Gap(l) == l.bySource["STOREFRONT"] + l.bySource["QRIS_API"] - l.available

LEMMA PostIs ==
  ASSUME NEW l \in Sums, NEW j \in Journals, NEW p \in Int, NEW a \in Int,
         NEW source \in Sources \cup {"MIXED"}
  PROVE  LET m == Post(l, j, p, a, source) IN
         /\ m \in Sums /\ m.posted = l.posted \cup {j}
         /\ j \in l.posted => m = l
         /\ j \notin l.posted => /\ m.available = l.available + a
                                 /\ source = "MIXED" => Gap(m) = Gap(l) - a
                                 /\ source # "MIXED" => Gap(m) = Gap(l)
<1> DEFINE m == Post(l, j, p, a, source)
<1>1. m \in Sums /\ m.posted = l.posted \cup {j}
  BY PostType
<1>2. CASE j \in l.posted
  BY <1>1, <1>2 DEF Post
<1>3. CASE j \notin l.posted
  <2>1. /\ m.available = l.available + a
        /\ \A s \in Sources : m.bySource[s] = l.bySource[s] + (IF s = source THEN a ELSE 0)
    BY <1>3 DEF Post
  <2>2. /\ m.bySource["STOREFRONT"] = l.bySource["STOREFRONT"] + (IF "STOREFRONT" = source THEN a ELSE 0)
        /\ m.bySource["QRIS_API"] = l.bySource["QRIS_API"] + (IF "QRIS_API" = source THEN a ELSE 0)
        /\ {l.bySource["STOREFRONT"], l.bySource["QRIS_API"], l.available} \subseteq Int
        /\ source \in {"STOREFRONT", "QRIS_API", "MIXED"}
    BY <2>1 DEF Sources, Sums
  <2> HIDE DEF m
  <2>3. /\ source = "MIXED" => Gap(m) = Gap(l) - a
        /\ source # "MIXED" => Gap(m) = Gap(l)
    BY <2>1, <2>2 DEF Gap
  <2>4. QED
    BY <1>1, <1>3, <2>1, <2>3 DEF m
<1>4. QED
  BY <1>2, <1>3

(* What is left in a lot is there to be taken only once it was settled,    *)
(* and never more than was captured.                                       *)
LotsAreSound ==
  \A n \in Lots :
    /\ lots[n].remaining <= Original[n]
    /\ ~Open(n) => lots[n].remaining = 0
    /\ Open(n) => Posted("SETTLE", n)

(* Every withdrawal but a new one reserved its amount, all of it from lots *)
(* that were settled.                                                      *)
ReserveIsSound(w) ==
  /\ wd[w].status = "NONE" <=> ~Posted("RESERVE", w)
  /\ wd[w].status # "NONE" => Total(wd[w].alloc) = Amount[w]
  /\ \A n \in Lots : wd[w].alloc[n] > 0 => Posted("SETTLE", n)

ReservesAreSound == \A w \in Withdrawals : ReserveIsSound(w)

Left == [n \in Lots |-> lots[n].remaining]
LeftCovers == Total(Left) >= ledger.available

(* What the source rows will lack when a withdrawal of source MIXED is     *)
(* given back.                                                             *)
Mixed == {w \in Withdrawals : /\ wd[w].source = "MIXED"
                              /\ Posted("RESERVE", w)
                              /\ ~Posted("RELEASE", w)}
Part(w) == {w} \X (1 .. Amount[w])
Owed == UNION {Part(w) : w \in Mixed}
GapCovers == IsFiniteSet(Owed) /\ Gap(ledger) >= Cardinality(Owed)

Funded == LotsAreSound /\ ReservesAreSound /\ LeftCovers /\ GapCovers

(* The per source balances fall short of the wallet in no state.           *)
SourcesReachBalance ==
  ledger.bySource["STOREFRONT"] + ledger.bySource["QRIS_API"] >= ledger.available

LEMMA FundedIsCovered ==
  ASSUME TypeOK, Funded
  PROVE  LotsCoverBalance /\ SourcesReachBalance
<1>1. ledger \in Ledgers /\ lots \in [Lots -> LotRows]
  BY DEF TypeOK, LedgerTypeOK
<1>2. [n \in Lots |-> IF Open(n) THEN lots[n].remaining ELSE 0] = Left
  BY DEF Funded, LotsAreSound, Left
<1>3. LotsCoverBalance
  BY <1>2 DEF LotsCoverBalance, Funded, LeftCovers
<1>4. /\ Cardinality(Owed) \in Nat /\ Gap(ledger) >= Cardinality(Owed)
      /\ {ledger.bySource["STOREFRONT"], ledger.bySource["QRIS_API"], ledger.available} \subseteq Nat
  BY <1>1, FS_CardinalityType DEF Funded, GapCovers, Ledgers, Sources
<1>5. SourcesReachBalance
  BY <1>4 DEF SourcesReachBalance, Gap
<1>6. QED
  BY <1>3, <1>5

(* The kinds of steps.                                                     *)
SameReserve(w) == /\ wd'[w].alloc = wd[w].alloc
                  /\ wd'[w].source = wd[w].source
                  /\ wd'[w].status = "NONE" <=> wd[w].status = "NONE"
SameReserves == \A w \in Withdrawals : SameReserve(w)

TakesReserve(w, a) ==
  /\ wd[w].status = "NONE"
  /\ a \in Reservable(w)
  /\ ledger' = Reserved(w, a)
  /\ lots' = [n \in Lots |-> IF a[n] > 0 THEN Consumed(n, a[n]) ELSE lots[n]]
  /\ wd'[w].status # "NONE" /\ wd'[w].alloc = a /\ wd'[w].source = SourceOf(a)
  /\ \A v \in Withdrawals \ {w} : SameReserve(v)

GivesBack(w) ==
  /\ wd[w].status # "NONE" /\ SameReserves
  /\ CanRelease(w) /\ ReleaseReserve(w)

Completes(w) ==
  /\ SameReserves
  /\ ledger' = Completion(w).ledger /\ UNCHANGED lots

Keeps == SameReserves /\ UNCHANGED <<ledger, lots>>

LEMMA RowKeepsReserves ==
  ASSUME wd \in Rows, NEW w \in Withdrawals, NEW r, wd' = [wd EXCEPT ![w] = r],
         r.alloc = wd[w].alloc, r.source = wd[w].source, r.status = "NONE" <=> wd[w].status = "NONE"
  PROVE  SameReserves
BY DEF Rows, SameReserves, SameReserve

LEMMA ClosingKind ==
  ASSUME TypeOK, NEW w \in Withdrawals, NEW s \in {"FAILED", "REJECTED"},
         CloseReleased(w, s), wd[w].released \/ CanRelease(w), wd[w].status # "NONE"
  PROVE  Keeps \/ GivesBack(w)
<1>1. wd \in Rows /\ wd[w] \in WdRows
  BY TypeParts DEF Rows
<1>2. CASE wd[w].released
  <2>1. wd' = [wd EXCEPT ![w] = [wd[w] EXCEPT !.status = s]] /\ UNCHANGED <<ledger, lots>>
    BY <1>2 DEF CloseReleased, SetStatus
  <2>2. SameReserves
    BY <1>1, <2>1, RowKeepsReserves DEF WdRows
  <2>3. QED
    BY <2>1, <2>2 DEF Keeps
<1>3. CASE ~wd[w].released
  <2>1. wd' = [wd EXCEPT ![w] = [wd[w] EXCEPT !.status = s, !.released = TRUE]]
        /\ ReleaseReserve(w) /\ CanRelease(w)
    BY <1>1, <1>3 DEF CloseReleased, Rows, WdRows
  <2>2. SameReserves
    BY <1>1, <2>1, RowKeepsReserves DEF WdRows
  <2>3. QED
    BY <2>1, <2>2 DEF GivesBack
<1>4. QED
  BY <1>2, <1>3

LEMMA KindOfStep ==
  ASSUME IInv, Next
  PROVE  \/ Keeps
         \/ LedgerNext /\ SameReserves
         \/ \E w \in Withdrawals : \/ \E a \in Reservable(w) : TakesReserve(w, a)
                                   \/ GivesBack(w)
                                   \/ Completes(w)
<1>1. TypeOK /\ wd \in Rows
  BY TypeParts DEF IInv
<1>2. UNCHANGED wd => SameReserves
  BY DEF SameReserves, SameReserve
<1>3. ASSUME NEW w \in Withdrawals, NEW s \in Status \ {"NONE"}, SetStatus(w, s),
             wd[w].status # "NONE", UNCHANGED <<ledger, lots>>
      PROVE  Keeps
  <2>1. wd[w] \in WdRows /\ wd' = [wd EXCEPT ![w] = [wd[w] EXCEPT !.status = s]]
    BY <1>1, <1>3 DEF SetStatus, Rows
  <2>2. QED
    BY <1>1, <1>3, <2>1, RowKeepsReserves DEF WdRows, Keeps
<1>4. ASSUME NEW g \in Goroutines, job[g].at \notin Before
      PROVE  job[g].of \in Withdrawals /\ Cleared(job[g].of) /\ wd[job[g].of].status # "NONE"
             /\ wd[job[g].of] \in WdRows
  BY <1>1, <1>4 DEF IInv, TypeOK, JobsKnow, Warranted, Cleared
<1>5. CASE LedgerNext /\ UNCHANGED <<wd, payout, job>>
  BY <1>2, <1>5
<1>6. CASE \E w \in Withdrawals, e \in Endpoints : Settle(w, e)
  BY <1>2, <1>6 DEF Settle, Keeps
<1>7. ASSUME NEW g \in Goroutines, NEW w \in Withdrawals,
             Request(g, w) \/ Resolve(g, w) \/ Callback(g, w)
      PROVE  Keeps
  BY <1>2, <1>7 DEF Request, Resolve, Callback, Keeps
<1>8. ASSUME NEW g \in Goroutines, NEW w \in Withdrawals, Reject(g, w)
      PROVE  Keeps \/ GivesBack(w)
  BY <1>1, <1>8, ClosingKind DEF Reject
<1>9. ASSUME NEW g \in Goroutines, NEW w \in Withdrawals, Hold(g, w) \/ Approve(g, w)
      PROVE  Keeps
  BY <1>3, <1>9, TemplatesOf DEF Hold, Approve
<1>10. ASSUME NEW g \in Goroutines,
              ReserveFails(g) \/ Pay(g) \/ FallBack(g) \/ Lookup(g) \/ Die(g)
       PROVE  Keeps
  BY <1>2, <1>10 DEF ReserveFails, Pay, FallBack, Lookup, Die, Keeps
<1>11. ASSUME NEW g \in Goroutines, Reserve(g)
       PROVE  \E w \in Withdrawals : \E a \in Reservable(w) : TakesReserve(w, a)
  <2> DEFINE w == job[g].of
  <2>1. w \in Withdrawals /\ wd[w] \in WdRows /\ wd[w].status = "NONE"
    BY <1>1, <1>11 DEF TypeOK, Reserve
  <2>2. PICK a \in Reservable(w), s \in {"APPROVED", "UNDER_REVIEW"} :
           /\ ledger' = Reserved(w, a)
           /\ lots' = [n \in Lots |-> IF a[n] > 0 THEN Consumed(n, a[n]) ELSE lots[n]]
           /\ wd' = [wd EXCEPT ![w] = [@ EXCEPT !.status = s, !.alloc = a, !.source = SourceOf(a)]]
    BY <1>11 DEF Reserve
  <2>3. /\ wd'[w].status = s /\ wd'[w].alloc = a /\ wd'[w].source = SourceOf(a)
        /\ \A v \in Withdrawals \ {w} : wd'[v] = wd[v]
    BY <1>1, <2>1, <2>2 DEF Rows, WdRows
  <2>4. TakesReserve(w, a)
    BY <2>1, <2>2, <2>3 DEF TakesReserve, SameReserve
  <2>5. QED
    BY <2>1, <2>4
<1>12. ASSUME NEW g \in Goroutines, Submit(g) PROVE Keeps
  <2>1. job[g].of \in Withdrawals
    BY <1>1 DEF TypeOK
  <2>2. CASE UNCHANGED wd
    BY <1>2, <1>12, <2>2 DEF Submit, Keeps
  <2>3. CASE SetStatus(job[g].of, "PROCESSING") /\ wd[job[g].of].status \in {"APPROVED", "PROCESSING"}
    BY <1>3, <1>12, <2>1, <2>3, TemplatesOf DEF Submit
  <2>4. QED
    BY <1>12, <2>2, <2>3 DEF Submit
<1>13. ASSUME NEW g \in Goroutines, MarkUnknown(g) \/ BackToProcessing(g) \/ BindRef(g) \/ ScheduleLookup(g)
       PROVE  Keeps
  <2> DEFINE w == job[g].of
  <2>1. w \in Withdrawals /\ wd[w].status # "NONE" /\ wd[w] \in WdRows
    BY <1>4, <1>13 DEF MarkUnknown, BackToProcessing, BindRef, ScheduleLookup, At, Before
  <2>2. UNCHANGED <<ledger, lots>>
    BY <1>13 DEF MarkUnknown, BackToProcessing, BindRef, ScheduleLookup
  <2>3. UNCHANGED wd \/ \E s \in {wd[w].status, "UNKNOWN_OUTCOME", "PROCESSING"} : \E e :
          wd' = [wd EXCEPT ![w] = [wd[w] EXCEPT !.status = s, !.ref = e]]
    <3>1. CASE MarkUnknown(g)
      BY <1>1, <2>1, <3>1 DEF MarkUnknown, Rows, WdRows
    <3>2. CASE BackToProcessing(g)
      BY <1>1, <2>1, <3>2 DEF BackToProcessing, Rows, WdRows
    <3>3. CASE BindRef(g)
      <4>1. wd' = [wd EXCEPT ![w] = [wd[w] EXCEPT !.ref = job[g].ref]]
        BY <1>1, <2>1, <3>3 DEF BindRef, Rows
      <4>2. [wd[w] EXCEPT !.ref = job[g].ref] = [wd[w] EXCEPT !.status = wd[w].status, !.ref = job[g].ref]
        BY <2>1 DEF WdRows
      <4>3. QED
        BY <4>1, <4>2
    <3>4. CASE ScheduleLookup(g)
      <4>1. wd' = [wd EXCEPT ![w] = [wd[w] EXCEPT !.status = "UNKNOWN_OUTCOME"]]
        BY <1>1, <2>1, <3>4 DEF ScheduleLookup, SetStatus, Rows
      <4>2. [wd[w] EXCEPT !.status = "UNKNOWN_OUTCOME"]
              = [wd[w] EXCEPT !.status = "UNKNOWN_OUTCOME", !.ref = wd[w].ref]
        BY <2>1 DEF WdRows
      <4>3. QED
        BY <4>1, <4>2
    <3>5. QED
      BY <1>13, <3>1, <3>2, <3>3, <3>4
  <2>4. CASE UNCHANGED wd
    BY <1>2, <2>2, <2>4 DEF Keeps
  <2>5. ASSUME NEW s \in {wd[w].status, "UNKNOWN_OUTCOME", "PROCESSING"}, NEW e,
               wd' = [wd EXCEPT ![w] = [wd[w] EXCEPT !.status = s, !.ref = e]]
        PROVE  Keeps
    BY <1>1, <2>1, <2>2, <2>5, RowKeepsReserves DEF WdRows, Keeps
  <2>6. QED
    BY <2>3, <2>4, <2>5
<1>14. ASSUME NEW g \in Goroutines, Complete(g)
       PROVE  Keeps \/ \E w \in Withdrawals : Completes(w)
  <2> DEFINE w == job[g].of
  <2>1. w \in Withdrawals /\ wd[w].status # "NONE" /\ wd[w] \in WdRows
    BY <1>4, <1>14 DEF Complete, At, Before
  <2>2. CASE CanComplete(w)
    <3>1. /\ ledger' = Completion(w).ledger /\ UNCHANGED lots
          /\ wd' = [wd EXCEPT ![w] = [Completion(w).row EXCEPT !.ref = job[g].ref]]
      BY <1>14, <2>2 DEF Complete
    <3>2. LET r == [Completion(w).row EXCEPT !.ref = job[g].ref] IN
          r.alloc = wd[w].alloc /\ r.source = wd[w].source /\ r.status = "COMPLETED"
      BY <2>1 DEF Completion, WdRows
    <3>3. SameReserves
      BY <1>1, <2>1, <3>1, <3>2, RowKeepsReserves
    <3>4. QED
      BY <2>1, <3>1, <3>3 DEF Completes
  <2>3. CASE ~CanComplete(w)
    BY <1>2, <1>14, <2>3 DEF Complete, Keeps
  <2>4. QED
    BY <2>2, <2>3
<1>15. ASSUME NEW g \in Goroutines, FailAndRelease(g)
       PROVE  Keeps \/ \E w \in Withdrawals : GivesBack(w)
  <2> DEFINE w == job[g].of
  <2>1. w \in Withdrawals /\ wd[w].status # "NONE"
    BY <1>4, <1>15 DEF FailAndRelease, At, Before
  <2>2. CASE CloseReleased(w, "FAILED") /\ (wd[w].released \/ CanRelease(w))
    BY <1>1, <2>1, <2>2, ClosingKind
  <2>3. CASE UNCHANGED <<ledger, lots, wd>>
    BY <1>2, <2>3 DEF Keeps
  <2>4. QED
    BY <1>15, <2>2, <2>3 DEF FailAndRelease
<1>16. QED
  BY <1>5, <1>6, <1>7, <1>8, <1>9, <1>10, <1>11, <1>12, <1>13, <1>14, <1>15 DEF Next

LEMMA PostedStays ==
  ASSUME ledger.posted \subseteq ledger'.posted, NEW t, NEW x, Posted(t, x)
  PROVE  Posted(t, x)'
BY DEF Posted

(* Steps of the lots: a capture, or a settlement.                          *)
LotStep(n) ==
  /\ \A m \in Lots \ {n} : lots'[m] = lots[m]
  /\ Gap(ledger') = Gap(ledger)
  /\ ledger.posted \subseteq ledger'.posted
  /\ \A w \in Withdrawals, t \in {"RESERVE", "RELEASE"} : Posted(t, w)' <=> Posted(t, w)
  /\ \/ /\ lots[n].status = "NONE"
        /\ lots'[n] = [status |-> "PENDING", remaining |-> 0]
        /\ ledger'.available = ledger.available
     \/ /\ lots'[n] = [status |-> "AVAILABLE", remaining |-> Original[n]]
        /\ Posted("SETTLE", n)'
        /\ ledger'.available = ledger.available + (IF Posted("SETTLE", n) THEN 0 ELSE Original[n])

LEMMA LedgerStepIsLotStep ==
  ASSUME LedgerTypeOK, LedgerNext
  PROVE  \E n \in Lots : LotStep(n)
<1>1. ledger \in Sums /\ lots \in [Lots -> LotRows]
  BY LedgerIsSum DEF LedgerTypeOK
<1>2. ASSUME NEW n \in Lots
      PROVE  /\ Original[n] \in Int /\ -Original[n] \in Int
             /\ Source[n] \in Sources \cup {"MIXED"} /\ Source[n] # "MIXED"
             /\ Journal("CAPTURE", n) \in Journals /\ Journal("SETTLE", n) \in Journals
             /\ Journal("CAPTURE", n) # Journal("SETTLE", n)
  <2>1. n \in Withdrawals \cup Lots /\ "CAPTURE" \in Templates /\ "SETTLE" \in Templates
    BY <1>2 DEF Templates
  <2>2. Original[n] \in Nat /\ Source[n] \in Sources
    BY <1>2, LedgerAssumption
  <2>3. Journal("CAPTURE", n) \in Journals /\ Journal("SETTLE", n) \in Journals
    BY <2>1, JournalType
  <2>4. Journal("CAPTURE", n) # Journal("SETTLE", n)
    BY DEF Journal
  <2>5. Source[n] # "MIXED" /\ Original[n] \in Int /\ -Original[n] \in Int
    BY <2>2 DEF Sources
  <2>6. QED
    BY <2>2, <2>3, <2>4, <2>5
<1>3. ASSUME NEW n \in Lots,
             ledger'.posted \in {ledger.posted \cup {Journal("CAPTURE", n)},
                                 ledger.posted \cup {Journal("SETTLE", n)},
                                 ledger.posted \cup {Journal("CAPTURE", n)} \cup {Journal("SETTLE", n)}}
      PROVE  /\ ledger.posted \subseteq ledger'.posted
             /\ \A w \in Withdrawals, t \in {"RESERVE", "RELEASE"} : Posted(t, w)' <=> Posted(t, w)
  BY <1>3 DEF Posted, Journal
<1>4. ASSUME NEW n \in Lots, NEW r, lots' = [lots EXCEPT ![n] = r]
      PROVE  lots'[n] = r /\ \A m \in Lots \ {n} : lots'[m] = lots[m]
  BY <1>1, <1>4
<1>5. ASSUME NEW n \in Lots, ReleaseLot(n) PROVE LotStep(n)
  <2>1. ledger' = Post(ledger, Journal("SETTLE", n), -Original[n], Original[n], Source[n])
        /\ lots' = [lots EXCEPT ![n] = [status |-> "AVAILABLE", remaining |-> Original[n]]]
    BY <1>5 DEF ReleaseLot, Refill
  <2>2. /\ ledger'.posted = ledger.posted \cup {Journal("SETTLE", n)}
        /\ Posted("SETTLE", n) => ledger' = ledger
        /\ ~Posted("SETTLE", n) => /\ ledger'.available = ledger.available + Original[n]
                                   /\ Gap(ledger') = Gap(ledger)
    BY <1>1, <1>2, <2>1, PostIs DEF Posted
  <2>3. ledger'.available = ledger.available + (IF Posted("SETTLE", n) THEN 0 ELSE Original[n])
        /\ Gap(ledger') = Gap(ledger)
    BY <1>1, <2>2 DEF Sums
  <2>4. QED
    BY <1>3, <1>4, <2>1, <2>2, <2>3 DEF LotStep, Posted
<1>6. ASSUME NEW n \in Lots, CaptureLot(n) PROVE LotStep(n)
  <2> DEFINE captured == Post(ledger, Journal("CAPTURE", n), Original[n], 0, Source[n])
             settled  == Post(captured, Journal("SETTLE", n), -Original[n], Original[n], Source[n])
  <2>1. /\ captured \in Sums /\ captured.posted = ledger.posted \cup {Journal("CAPTURE", n)}
        /\ captured.available = ledger.available /\ Gap(captured) = Gap(ledger)
    <3>1. /\ captured \in Sums /\ captured.posted = ledger.posted \cup {Journal("CAPTURE", n)}
          /\ Journal("CAPTURE", n) \in ledger.posted => captured = ledger
          /\ Journal("CAPTURE", n) \notin ledger.posted =>
               captured.available = ledger.available + 0 /\ Gap(captured) = Gap(ledger)
      BY <1>1, <1>2, PostIs
    <3> HIDE DEF captured
    <3>2. QED
      BY <1>1, <3>1 DEF Sums
  <2>2. Journal("SETTLE", n) \in captured.posted <=> Posted("SETTLE", n)
    BY <1>2, <2>1 DEF Posted
  <2>3. /\ settled.posted = captured.posted \cup {Journal("SETTLE", n)}
        /\ settled.available = ledger.available + (IF Posted("SETTLE", n) THEN 0 ELSE Original[n])
        /\ Gap(settled) = Gap(ledger)
    <3> HIDE DEF captured
    <3>1. /\ settled.posted = captured.posted \cup {Journal("SETTLE", n)}
          /\ Posted("SETTLE", n) => settled = captured
          /\ ~Posted("SETTLE", n) =>
               settled.available = captured.available + Original[n] /\ Gap(settled) = Gap(captured)
      BY <1>2, <2>1, <2>2, PostIs
    <3> HIDE DEF settled
    <3>2. QED
      BY <1>1, <2>1, <3>1 DEF Sums
  <2>4. \/ /\ lots[n].status = "NONE" /\ ledger' = captured
           /\ lots' = [lots EXCEPT ![n] = [status |-> "PENDING", remaining |-> 0]]
        \/ /\ ledger' = settled
           /\ lots' = [lots EXCEPT ![n] = [status |-> "AVAILABLE", remaining |-> Original[n]]]
    BY <1>6 DEF CaptureLot
  <2> HIDE DEF captured, settled
  <2>5. CASE /\ lots[n].status = "NONE" /\ ledger' = captured
             /\ lots' = [lots EXCEPT ![n] = [status |-> "PENDING", remaining |-> 0]]
    BY <1>3, <1>4, <2>1, <2>5 DEF LotStep
  <2>6. CASE /\ ledger' = settled
             /\ lots' = [lots EXCEPT ![n] = [status |-> "AVAILABLE", remaining |-> Original[n]]]
    <3>1. ledger'.posted = ledger.posted \cup {Journal("CAPTURE", n)} \cup {Journal("SETTLE", n)}
      BY <2>1, <2>3, <2>6
    <3>2. Posted("SETTLE", n)'
      BY <3>1 DEF Posted
    <3>3. QED
      BY <1>3, <1>4, <2>3, <2>6, <3>1, <3>2 DEF LotStep
  <2>7. QED
    BY <2>4, <2>5, <2>6
<1>7. QED
  BY <1>5, <1>6 DEF LedgerNext

LEMMA LeftType ==
  /\ TypeOK => Left \in Sizes /\ ledger.available \in Nat /\ Gap(ledger) \in Int
  /\ TypeOK' => Left' \in Sizes /\ ledger'.available \in Nat /\ Gap(ledger') \in Int
<1>1. ASSUME NEW m \in [Lots -> LotRows] PROVE [n \in Lots |-> m[n].remaining] \in Sizes
  BY DEF LotRows, Sizes
<1>2. ASSUME NEW l \in Ledgers PROVE l.available \in Nat /\ Gap(l) \in Int
  BY DEF Ledgers, Gap, Sources
<1>3. QED
  BY <1>1, <1>2 DEF TypeOK, LedgerTypeOK, Left

LEMMA OwedStays ==
  ASSUME SameReserves, \A w \in Withdrawals, t \in {"RESERVE", "RELEASE"} : Posted(t, w)' <=> Posted(t, w)
  PROVE  Owed' = Owed
<1>1. Mixed' = Mixed
  BY DEF SameReserves, SameReserve, Mixed
<1>2. QED
  BY <1>1 DEF Owed, Part

LEMMA LotStepFunded ==
  ASSUME TypeOK, TypeOK', Funded, SameReserves, NEW n \in Lots, LotStep(n)
  PROVE  Funded'
<1>1. lots \in [Lots -> LotRows] /\ lots' \in [Lots -> LotRows] /\ Original[n] \in Nat
  BY LedgerAssumption DEF TypeOK, LedgerTypeOK
<1>2. \A m \in Lots \ {n} : lots'[m] = lots[m] /\ (Open(m)' <=> Open(m))
  BY DEF LotStep, Open
<1>3. ledger.posted \subseteq ledger'.posted
  BY DEF LotStep
<1>4. LotsAreSound'
  <2>1. ASSUME NEW m \in Lots \ {n}
        PROVE  /\ lots'[m].remaining <= Original[m]
               /\ ~Open(m)' => lots'[m].remaining = 0
               /\ Open(m)' => Posted("SETTLE", m)'
    BY <1>2, <1>3, PostedStays DEF Funded, LotsAreSound
  <2>2. /\ lots'[n].remaining <= Original[n]
        /\ ~Open(n)' => lots'[n].remaining = 0
        /\ Open(n)' => Posted("SETTLE", n)'
    BY <1>1 DEF LotStep, Open
  <2>3. QED
    BY <2>1, <2>2 DEF LotsAreSound
<1>5. ReservesAreSound'
  <2>1. SUFFICES ASSUME NEW w \in Withdrawals PROVE ReserveIsSound(w)'
    BY DEF ReservesAreSound
  <2>2. ReserveIsSound(w) /\ SameReserve(w) /\ (Posted("RESERVE", w)' <=> Posted("RESERVE", w))
    BY DEF Funded, ReservesAreSound, SameReserves, LotStep
  <2>3. QED
    BY <1>3, <2>2, PostedStays DEF ReserveIsSound, SameReserve
<1>6. LeftCovers'
  <2>1. /\ Left \in Sizes /\ Left' \in Sizes
        /\ Left[n] = lots[n].remaining /\ Left'[n] = lots'[n].remaining
        /\ \A m \in Lots \ {n} : Left'[m] = Left[m]
    BY <1>2, LeftType DEF Left
  <2>2. Total(Left) \in Nat /\ Total(Left') \in Nat /\ ledger.available \in Nat /\ ledger'.available \in Nat
    BY <2>1, TotalType, LeftType
  <2>3. CASE Posted("SETTLE", n) /\ lots'[n].remaining = Original[n]
    <3>1. \A m \in Lots : Left[m] <= Left'[m]
      BY <1>1, <2>1, <2>3 DEF Funded, LotsAreSound, Sizes
    <3>2. Total(Left) <= Total(Left')
      BY <2>1, <3>1, TotalGrows
    <3>3. ledger'.available = ledger.available
      BY <2>2, <2>3 DEF LotStep
    <3>4. QED
      BY <2>2, <3>2, <3>3 DEF LeftCovers, Funded, Total, Coins
  <2>4. CASE ~Posted("SETTLE", n) \/ lots[n].status = "NONE"
    <3>1. Left[n] = 0
      BY <2>1, <2>4 DEF Funded, LotsAreSound, Open
    <3>2. Total(Left') = Total(Left) + Left'[n]
      BY <2>1, <3>1, TotalFills
    <3>3. ledger'.available <= ledger.available + Left'[n]
      BY <1>1, <2>1, <2>2 DEF LotStep
    <3>4. QED
      BY <2>1, <2>2, <3>2, <3>3 DEF LeftCovers, Funded, Total, Coins, Sizes
  <2>5. QED
    BY <2>3, <2>4 DEF LotStep
<1>7. GapCovers'
  <2>1. Owed' = Owed
    BY OwedStays DEF LotStep
  <2>2. QED
    BY <2>1 DEF GapCovers, Funded, LotStep, Gap
<1>8. QED
  BY <1>4, <1>5, <1>6, <1>7 DEF Funded

(* What a journal of the withdrawal w changes.                             *)
LEMMA JournalOf ==
  ASSUME TypeOK, NEW w \in Withdrawals, NEW t \in Templates, NEW d \in Int,
         NEW source \in Sources \cup {"MIXED"},
         ledger' = Post(ledger, Journal(t, w), 0, d, source)
  PROVE  /\ ledger.posted \subseteq ledger'.posted
         /\ Posted(t, w)'
         /\ \A u, v : Posted(u, v)' <=> Posted(u, v) \/ (u = t /\ v = w)
         /\ Posted(t, w) => ledger' = ledger
         /\ ~Posted(t, w) => /\ ledger'.available = ledger.available + d
                             /\ source = "MIXED" => Gap(ledger') = Gap(ledger) - d
                             /\ source # "MIXED" => Gap(ledger') = Gap(ledger)
<1>1. ledger \in Sums /\ w \in Withdrawals \cup Lots
  BY LedgerIsSum DEF TypeOK, LedgerTypeOK
<1>2. Journal(t, w) \in Journals /\ \A u, v : Journal(u, v) = Journal(t, w) => u = t /\ v = w
  BY <1>1, JournalType
<1>3. /\ ledger'.posted = ledger.posted \cup {Journal(t, w)}
      /\ Journal(t, w) \in ledger.posted => ledger' = ledger
      /\ Journal(t, w) \notin ledger.posted =>
           /\ ledger'.available = ledger.available + d
           /\ source = "MIXED" => Gap(ledger') = Gap(ledger) - d
           /\ source # "MIXED" => Gap(ledger') = Gap(ledger)
  BY <1>1, <1>2, PostIs
<1>4. \A u, v : Posted(u, v)' <=> Posted(u, v) \/ (u = t /\ v = w)
  BY <1>2, <1>3 DEF Posted
<1>5. QED
  BY <1>3, <1>4 DEF Posted

LEMMA PartCount ==
  ASSUME NEW w \in Withdrawals
  PROVE  IsFiniteSet(Part(w)) /\ Cardinality(Part(w)) = Amount[w] /\ Amount[w] \in Nat
BY AmountsAreInts, BlockCount DEF Part

LEMMA OwedParts ==
  ASSUME NEW c
  PROVE  /\ c \in Owed <=> \E w \in Mixed : c \in Part(w)
         /\ c \in Owed' <=> \E w \in Mixed' : c \in Part(w)
BY DEF Owed, Part

LEMMA OwedShrinks ==
  ASSUME TypeOK, TypeOK', Funded, Mixed' \subseteq Mixed, Gap(ledger') >= Gap(ledger)
  PROVE  GapCovers'
<1>1. Owed' \subseteq Owed /\ IsFiniteSet(Owed) /\ Gap(ledger) >= Cardinality(Owed)
  BY OwedParts DEF Funded, GapCovers
<1>2. PICK new : new = Owed'
  OBVIOUS
<1>3. IsFiniteSet(new) /\ Cardinality(new) <= Cardinality(Owed)
  BY <1>1, <1>2, FS_Subset
<1>4. Cardinality(new) \in Nat /\ Cardinality(Owed) \in Nat
  BY <1>1, <1>3, FS_CardinalityType
<1>5. Gap(ledger)' = Gap(ledger') /\ Gap(ledger') \in Int /\ Gap(ledger) \in Int
  BY LeftType DEF Gap
<1>6. Gap(ledger') >= Cardinality(new)
  BY <1>1, <1>3, <1>4, <1>5
<1>7. QED
  BY <1>2, <1>3, <1>5, <1>6 DEF GapCovers

LEMMA ConsumedIs ==
  ASSUME NEW n, NEW k
  PROVE  /\ Consumed(n, k).remaining = lots[n].remaining - k
         /\ Consumed(n, k).status = IF lots[n].remaining - k <= 0 THEN "CONSUMED" ELSE "PARTIALLY_CONSUMED"
BY DEF Consumed

LEMMA RestoredIs ==
  ASSUME NEW w, NEW n
  PROVE  /\ wd[w].alloc[n] = 0 => Restored(w, n) = lots[n]
         /\ wd[w].alloc[n] # 0 => /\ Restored(w, n).remaining = lots[n].remaining + wd[w].alloc[n]
                                  /\ Restored(w, n).status \in {"AVAILABLE", "PARTIALLY_CONSUMED"}
BY DEF Restored

LEMMA TakesReserveFunded ==
  ASSUME TypeOK, TypeOK', Funded, NEW w \in Withdrawals, NEW a \in Reservable(w), TakesReserve(w, a)
  PROVE  Funded'
<1>1. /\ lots \in [Lots -> LotRows] /\ Amount[w] \in Nat /\ -Amount[w] \in Int
      /\ a \in [Lots -> 0 .. Amount[w]] /\ Total(a) = Amount[w] /\ IsFifo(a)
  BY AmountsAreInts DEF TypeOK, LedgerTypeOK, Reservable, Allocations
<1>2. a \in Sizes /\ SourceOf(a) \in Sources \cup {"MIXED"}
  BY <1>1 DEF Sizes, SourceOf, Sources
<1>3. ~Posted("RESERVE", w)
  BY DEF Funded, ReservesAreSound, ReserveIsSound, TakesReserve
<1>4. /\ ledger.posted \subseteq ledger'.posted /\ Posted("RESERVE", w)'
      /\ \A u, v : Posted(u, v)' <=> Posted(u, v) \/ (u = "RESERVE" /\ v = w)
      /\ ledger'.available = ledger.available + (-Amount[w])
      /\ SourceOf(a) = "MIXED" => Gap(ledger') = Gap(ledger) - (-Amount[w])
      /\ SourceOf(a) # "MIXED" => Gap(ledger') = Gap(ledger)
  BY <1>1, <1>2, <1>3, JournalOf, TemplatesOf DEF TakesReserve, Reserved
<1>5. ASSUME NEW n \in Lots
      PROVE  /\ lots[n].remaining \in Nat /\ a[n] \in Nat
             /\ a[n] > 0 => Open(n) /\ a[n] <= lots[n].remaining
             /\ a[n] > 0 => lots'[n].remaining = lots[n].remaining - a[n]
             /\ a[n] > 0 /\ ~Open(n)' => lots'[n].remaining = 0
             /\ ~(a[n] > 0) => a[n] = 0 /\ lots'[n] = lots[n]
  <2>1. /\ lots[n].remaining \in Nat /\ a[n] \in Nat
        /\ a[n] > 0 => Open(n) /\ a[n] <= lots[n].remaining /\ lots'[n] = Consumed(n, a[n])
        /\ ~(a[n] > 0) => a[n] = 0 /\ lots'[n] = lots[n]
    BY <1>1, <1>2, <1>5 DEF LotRows, IsFifo, Sizes, TakesReserve
  <2>2. ASSUME a[n] > 0
        PROVE  /\ lots'[n].remaining = lots[n].remaining - a[n]
               /\ lots'[n].status = IF lots[n].remaining - a[n] <= 0 THEN "CONSUMED" ELSE "PARTIALLY_CONSUMED"
    BY <2>1, <2>2, ConsumedIs
  <2>3. a[n] > 0 => Open(n)' \/ lots'[n].remaining = 0
    BY <2>1, <2>2 DEF Open
  <2>4. QED
    BY <2>1, <2>2, <2>3
<1>6. LotsAreSound'
  <2>1. SUFFICES ASSUME NEW n \in Lots
                 PROVE  /\ lots'[n].remaining <= Original[n]
                        /\ ~Open(n)' => lots'[n].remaining = 0
                        /\ Open(n)' => Posted("SETTLE", n)'
    BY DEF LotsAreSound
  <2>2. /\ lots[n].remaining <= Original[n] /\ Original[n] \in Nat
        /\ ~Open(n) => lots[n].remaining = 0
        /\ Open(n) => Posted("SETTLE", n)
    BY LedgerAssumption DEF Funded, LotsAreSound
  <2>3. Open(n) => Posted("SETTLE", n)'
    BY <1>4, <2>2, PostedStays
  <2>4. CASE a[n] > 0
    BY <1>5, <2>2, <2>3, <2>4
  <2>5. CASE ~(a[n] > 0)
    BY <1>5, <2>2, <2>3, <2>5 DEF Open
  <2>6. QED
    BY <2>4, <2>5
<1>7. ReservesAreSound'
  <2>1. SUFFICES ASSUME NEW v \in Withdrawals PROVE ReserveIsSound(v)'
    BY DEF ReservesAreSound
  <2>2. CASE v = w
    <3>1. \A n \in Lots : wd'[w].alloc[n] > 0 => Posted("SETTLE", n)'
      BY <1>4, <1>5, PostedStays DEF TakesReserve, Funded, LotsAreSound
    <3>2. wd'[w].status # "NONE" /\ wd'[w].alloc = a
      BY DEF TakesReserve
    <3>3. QED
      BY <1>1, <1>4, <2>2, <3>1, <3>2 DEF ReserveIsSound, Total, Coins
  <2>3. CASE v # w
    <3>1. ReserveIsSound(v) /\ SameReserve(v) /\ (Posted("RESERVE", v)' <=> Posted("RESERVE", v))
      BY <1>4, <2>3 DEF Funded, ReservesAreSound, TakesReserve
    <3>2. QED
      BY <1>4, <3>1, PostedStays DEF ReserveIsSound, SameReserve
  <2>4. QED
    BY <2>2, <2>3
<1>8. LeftCovers'
  <2>1. /\ Left \in Sizes /\ Left' \in Sizes
        /\ \A n \in Lots : Left[n] = lots[n].remaining /\ Left'[n] = lots'[n].remaining
    BY LeftType DEF Left
  <2>2. \A n \in Lots : Left[n] = Left'[n] + a[n]
    BY <1>5, <2>1
  <2>3. Total(Left) = Total(Left') + Amount[w]
    BY <1>1, <1>2, <2>1, <2>2, TotalAdds
  <2>4. /\ Total(Left) \in Nat /\ Total(Left') \in Nat
        /\ ledger.available \in Nat /\ ledger'.available \in Nat
    BY <2>1, TotalType, LeftType
  <2>5. Total(Left') >= ledger'.available
    BY <1>1, <1>4, <2>3, <2>4 DEF Funded, LeftCovers
  <2>6. QED
    BY <2>5 DEF LeftCovers, Total, Coins
<1>9. GapCovers'
  <2>1. \A v \in Mixed' : v \in Mixed \/ (v = w /\ SourceOf(a) = "MIXED")
    BY <1>4 DEF Mixed, TakesReserve, SameReserve
  <2>2. CASE SourceOf(a) # "MIXED"
    <3>1. Mixed' \subseteq Mixed
      BY <2>1, <2>2
    <3>2. Gap(ledger') >= Gap(ledger)
      BY <1>4, <2>2, LeftType
    <3>3. QED
      BY <3>1, <3>2, OwedShrinks
  <2>3. CASE SourceOf(a) = "MIXED"
    <3>1. PICK new : new = Owed'
      OBVIOUS
    <3>2. new \subseteq Owed \cup Part(w)
      BY <2>1, <3>1, OwedParts
    <3>3. /\ IsFiniteSet(Owed) /\ Gap(ledger) >= Cardinality(Owed)
          /\ IsFiniteSet(Part(w)) /\ Cardinality(Part(w)) = Amount[w]
      BY PartCount DEF Funded, GapCovers
    <3>4. /\ IsFiniteSet(Owed \cup Part(w))
          /\ Cardinality(Owed \cup Part(w))
               = Cardinality(Owed) + Cardinality(Part(w)) - Cardinality(Owed \cap Part(w))
          /\ IsFiniteSet(Owed \cap Part(w))
      BY <3>3, FS_Union, FS_Intersection
    <3>5. IsFiniteSet(new) /\ Cardinality(new) <= Cardinality(Owed \cup Part(w))
      BY <3>2, <3>4, FS_Subset
    <3>6. /\ Cardinality(new) \in Nat /\ Cardinality(Owed) \in Nat
          /\ Cardinality(Owed \cap Part(w)) \in Nat /\ Cardinality(Owed \cup Part(w)) \in Nat
      BY <3>3, <3>4, <3>5, FS_CardinalityType
    <3>7. Gap(ledger') = Gap(ledger) + Amount[w] /\ Gap(ledger) \in Int
      BY <1>1, <1>4, <2>3, LeftType
    <3>8. Gap(ledger') >= Cardinality(new)
      BY <1>1, <3>3, <3>4, <3>5, <3>6, <3>7
    <3>9. QED
      BY <3>1, <3>5, <3>8 DEF GapCovers, Gap
  <2>4. QED
    BY <2>2, <2>3
<1>10. QED
  BY <1>6, <1>7, <1>8, <1>9 DEF Funded

LEMMA GivesBackFunded ==
  ASSUME TypeOK, TypeOK', Funded, NEW w \in Withdrawals, GivesBack(w)
  PROVE  Funded'
<1>1. /\ lots \in [Lots -> LotRows] /\ Amount[w] \in Nat /\ Amount[w] \in Int
      /\ wd[w].alloc \in Sizes /\ wd[w].source \in Sources \cup {"MIXED"}
  BY AmountsAreInts DEF TypeOK, LedgerTypeOK, WdRows, Sizes
<1>2. /\ Posted("RESERVE", w) /\ Total(wd[w].alloc) = Amount[w]
      /\ \A n \in Lots : wd[w].alloc[n] > 0 => Posted("SETTLE", n)
  BY DEF Funded, ReservesAreSound, ReserveIsSound, GivesBack
<1>3. /\ ledger.posted \subseteq ledger'.posted
      /\ \A u, v : Posted(u, v)' <=> Posted(u, v) \/ (u = "RELEASE" /\ v = w)
      /\ Posted("RELEASE", w) => ledger' = ledger
      /\ ~Posted("RELEASE", w) =>
           /\ ledger'.available = ledger.available + Amount[w]
           /\ wd[w].source = "MIXED" => Gap(ledger') = Gap(ledger) - Amount[w]
           /\ wd[w].source # "MIXED" => Gap(ledger') = Gap(ledger)
  BY <1>1, JournalOf, TemplatesOf DEF GivesBack, ReleaseReserve, Released
<1>4. ASSUME NEW n \in Lots
      PROVE  /\ lots[n].remaining \in Nat /\ wd[w].alloc[n] \in Nat /\ Original[n] \in Nat
             /\ wd[w].alloc[n] = 0 => lots'[n] = lots[n]
             /\ wd[w].alloc[n] # 0 => /\ lots'[n].remaining = lots[n].remaining + wd[w].alloc[n]
                                      /\ lots'[n].remaining <= Original[n]
                                      /\ lots'[n].status \in {"AVAILABLE", "PARTIALLY_CONSUMED"}
  <2>1. /\ lots[n].remaining \in Nat /\ wd[w].alloc[n] \in Nat /\ Original[n] \in Nat
        /\ lots'[n] = Restored(w, n)
        /\ wd[w].alloc[n] > 0 => lots[n].remaining + wd[w].alloc[n] <= Original[n]
    BY <1>1, <1>4, LedgerAssumption DEF GivesBack, ReleaseReserve, CanRelease, LotsFit, Sizes, LotRows
  <2>2. QED
    BY <2>1, RestoredIs
<1>5. LotsAreSound'
  <2>1. SUFFICES ASSUME NEW n \in Lots
                 PROVE  /\ lots'[n].remaining <= Original[n]
                        /\ ~Open(n)' => lots'[n].remaining = 0
                        /\ Open(n)' => Posted("SETTLE", n)'
    BY DEF LotsAreSound
  <2>2. /\ lots[n].remaining <= Original[n]
        /\ ~Open(n) => lots[n].remaining = 0
        /\ Open(n) => Posted("SETTLE", n)'
    BY <1>3, PostedStays DEF Funded, LotsAreSound
  <2>3. CASE wd[w].alloc[n] = 0
    BY <1>4, <2>2, <2>3 DEF Open
  <2>4. CASE wd[w].alloc[n] # 0
    <3>1. wd[w].alloc[n] > 0 /\ Posted("SETTLE", n)'
      BY <1>2, <1>3, <1>4, <2>4, PostedStays
    <3>2. QED
      BY <1>4, <2>4, <3>1 DEF Open
  <2>5. QED
    BY <2>3, <2>4
<1>6. ReservesAreSound'
  <2>1. SUFFICES ASSUME NEW v \in Withdrawals PROVE ReserveIsSound(v)'
    BY DEF ReservesAreSound
  <2>2. ReserveIsSound(v) /\ SameReserve(v) /\ (Posted("RESERVE", v)' <=> Posted("RESERVE", v))
    BY <1>3 DEF Funded, ReservesAreSound, GivesBack, SameReserves
  <2>3. QED
    BY <1>3, <2>2, PostedStays DEF ReserveIsSound, SameReserve
<1>7. LeftCovers'
  <2>1. /\ Left \in Sizes /\ Left' \in Sizes
        /\ \A n \in Lots : Left[n] = lots[n].remaining /\ Left'[n] = lots'[n].remaining
    BY LeftType DEF Left
  <2>2. \A n \in Lots : Left'[n] = Left[n] + wd[w].alloc[n]
    BY <1>4, <2>1
  <2>3. Total(Left') = Total(Left) + Amount[w]
    BY <1>1, <1>2, <2>1, <2>2, TotalAdds
  <2>4. /\ Total(Left) \in Nat /\ Total(Left') \in Nat
        /\ ledger.available \in Nat /\ ledger'.available \in Nat
    BY <2>1, TotalType, LeftType
  <2>5. ledger'.available <= ledger.available + Amount[w]
    BY <1>1, <1>3, <2>4
  <2>6. Total(Left') >= ledger'.available
    BY <1>1, <2>3, <2>4, <2>5 DEF Funded, LeftCovers
  <2>7. QED
    BY <2>6 DEF LeftCovers, Total, Coins
<1>8. GapCovers'
  <2>1. \A v \in Mixed' : v \in Mixed /\ (v = w => Posted("RELEASE", w)')
    BY <1>3 DEF Mixed, GivesBack, SameReserves, SameReserve
  <2>2. Posted("RELEASE", w)' /\ w \notin Mixed'
    BY <1>3 DEF Mixed
  <2>3. CASE Posted("RELEASE", w) \/ wd[w].source # "MIXED"
    <3>1. Gap(ledger') >= Gap(ledger)
      BY <1>3, <2>3, LeftType
    <3>2. QED
      BY <2>1, <3>1, OwedShrinks
  <2>4. CASE ~Posted("RELEASE", w) /\ wd[w].source = "MIXED"
    <3>1. PICK new : new = Owed'
      OBVIOUS
    <3>2. w \in Mixed
      BY <1>2, <2>4 DEF Mixed
    <3>3. new \subseteq Owed \ Part(w)
      <4>1. SUFFICES ASSUME NEW c \in new PROVE c \in Owed /\ c \notin Part(w)
        OBVIOUS
      <4>2. PICK v \in Mixed' : c \in Part(v)
        BY <3>1, <4>1, OwedParts
      <4>3. v # w /\ v \in Mixed
        BY <2>1, <2>2
      <4>4. c[1] = v
        BY <4>2 DEF Part
      <4>5. QED
        BY <4>2, <4>3, <4>4, OwedParts DEF Part
    <3>4. Owed \cap Part(w) = Part(w)
      BY <3>2, OwedParts
    <3>5. /\ IsFiniteSet(Owed) /\ Gap(ledger) >= Cardinality(Owed)
          /\ Cardinality(Part(w)) = Amount[w]
      BY PartCount DEF Funded, GapCovers
    <3>6. /\ IsFiniteSet(Owed \ Part(w))
          /\ Cardinality(Owed \ Part(w)) = Cardinality(Owed) - Cardinality(Owed \cap Part(w))
      BY <3>5, FS_Difference
    <3>7. IsFiniteSet(new) /\ Cardinality(new) <= Cardinality(Owed \ Part(w))
      BY <3>3, <3>6, FS_Subset
    <3>8. /\ Cardinality(new) \in Nat /\ Cardinality(Owed) \in Nat
          /\ Cardinality(Owed \ Part(w)) = Cardinality(Owed) - Amount[w]
      BY <3>4, <3>5, <3>6, <3>7, FS_CardinalityType
    <3>9. Gap(ledger') = Gap(ledger) - Amount[w] /\ Gap(ledger) \in Int
      BY <1>3, <2>4, LeftType
    <3>10. Gap(ledger') >= Cardinality(new)
      BY <1>1, <3>5, <3>7, <3>8, <3>9
    <3>11. QED
      BY <3>1, <3>7, <3>10 DEF GapCovers, Gap
  <2>5. QED
    BY <2>3, <2>4
<1>9. QED
  BY <1>5, <1>6, <1>7, <1>8 DEF Funded

(* A step that leaves the lots and the reserves, and takes from the wallet *)
(* at most what it takes from the source rows and more.                    *)
LEMMA OnlyTakesFunded ==
  ASSUME TypeOK, TypeOK', Funded, SameReserves, UNCHANGED lots,
         ledger.posted \subseteq ledger'.posted,
         \A w \in Withdrawals, t \in {"RESERVE", "RELEASE"} : Posted(t, w)' <=> Posted(t, w),
         ledger'.available <= ledger.available, Gap(ledger') >= Gap(ledger)
  PROVE  Funded'
<1>1. LotsAreSound'
  <2>1. SUFFICES ASSUME NEW n \in Lots
                 PROVE  /\ lots'[n].remaining <= Original[n]
                        /\ ~Open(n)' => lots'[n].remaining = 0
                        /\ Open(n)' => Posted("SETTLE", n)'
    BY DEF LotsAreSound
  <2>2. QED
    BY PostedStays DEF Funded, LotsAreSound, Open
<1>2. ReservesAreSound'
  <2>1. SUFFICES ASSUME NEW w \in Withdrawals PROVE ReserveIsSound(w)'
    BY DEF ReservesAreSound
  <2>2. ReserveIsSound(w) /\ SameReserve(w) /\ (Posted("RESERVE", w)' <=> Posted("RESERVE", w))
    BY DEF Funded, ReservesAreSound, SameReserves
  <2>3. QED
    BY <2>2, PostedStays DEF ReserveIsSound, SameReserve
<1>3. LeftCovers'
  <2>1. Left' = Left /\ Total(Left) \in Nat /\ ledger.available \in Nat /\ ledger'.available \in Nat
    BY LeftType, TotalType DEF Left
  <2>2. Total(Left') >= ledger'.available
    BY <2>1 DEF Funded, LeftCovers
  <2>3. QED
    BY <2>2 DEF LeftCovers, Total, Coins
<1>4. GapCovers'
  <2>1. Mixed' \subseteq Mixed
    BY DEF Mixed, SameReserves, SameReserve
  <2>2. QED
    BY <2>1, OwedShrinks
<1>5. QED
  BY <1>1, <1>2, <1>3, <1>4 DEF Funded

LEMMA CompletesFunded ==
  ASSUME TypeOK, TypeOK', Funded, NEW w \in Withdrawals, Completes(w)
  PROVE  Funded'
<1> DEFINE late == wd[w].status = "FAILED" /\ wd[w].released
           a    == IF ledger.available < Amount[w] THEN ledger.available ELSE Amount[w]
           l    == IF late THEN Post(ledger, Journal("RECAPTURE", w), 0, -a, wd[w].source) ELSE ledger
           m    == Post(l, Journal("COMPLETE", w), 0, 0, wd[w].source)
<1>1. /\ ledger \in Sums /\ ledger.available \in Nat /\ Amount[w] \in Nat
      /\ wd[w].source \in Sources \cup {"MIXED"} /\ w \in Withdrawals \cup Lots
  BY LedgerIsSum, AmountsAreInts DEF TypeOK, LedgerTypeOK, WdRows, Ledgers
<1>2. a \in Nat /\ -a \in Int
  BY <1>1
<1>3. /\ Journal("RECAPTURE", w) \in Journals /\ Journal("COMPLETE", w) \in Journals
      /\ \A u, v : Journal(u, v) = Journal("RECAPTURE", w) => u = "RECAPTURE"
      /\ \A u, v : Journal(u, v) = Journal("COMPLETE", w) => u = "COMPLETE"
  BY <1>1, JournalType, TemplatesOf
<1>4. \A r \in Sums : r.available \in Int /\ Gap(r) \in Int
  BY DEF Sums, Gap, Sources
<1>5. /\ l \in Sums /\ l.posted \in {ledger.posted, ledger.posted \cup {Journal("RECAPTURE", w)}}
      /\ l.available <= ledger.available /\ Gap(l) >= Gap(ledger)
  <2>1. CASE late
    <3> DEFINE r == Post(ledger, Journal("RECAPTURE", w), 0, -a, wd[w].source)
    <3>1. /\ r \in Sums /\ r.posted = ledger.posted \cup {Journal("RECAPTURE", w)}
          /\ Journal("RECAPTURE", w) \in ledger.posted => r = ledger
          /\ Journal("RECAPTURE", w) \notin ledger.posted =>
               /\ r.available = ledger.available + (-a)
               /\ wd[w].source = "MIXED" => Gap(r) = Gap(ledger) - (-a)
               /\ wd[w].source # "MIXED" => Gap(r) = Gap(ledger)
      <4> HIDE DEF a
      <4>1. QED
        BY <1>1, <1>2, <1>3, PostIs
    <3>2. l = r
      BY <2>1
    <3>3. QED
      <4> HIDE DEF a, r, l
      <4>1. QED
        BY <1>1, <1>2, <1>4, <3>1, <3>2
  <2>2. CASE ~late
    <3>1. l = ledger
      BY <2>2
    <3>2. QED
      <4> HIDE DEF l
      <4>1. QED
        BY <1>1, <1>4, <3>1
  <2>3. QED
    BY <2>1, <2>2
<1>6. /\ m.posted = l.posted \cup {Journal("COMPLETE", w)}
      /\ m \in Sums /\ m.available = l.available /\ Gap(m) = Gap(l)
  <2> HIDE DEF l
  <2>1. /\ m \in Sums /\ m.posted = l.posted \cup {Journal("COMPLETE", w)}
        /\ Journal("COMPLETE", w) \in l.posted => m = l
        /\ Journal("COMPLETE", w) \notin l.posted =>
             /\ m.available = l.available + 0
             /\ wd[w].source = "MIXED" => Gap(m) = Gap(l) - 0
             /\ wd[w].source # "MIXED" => Gap(m) = Gap(l)
    BY <1>1, <1>3, <1>5, PostIs
  <2> HIDE DEF m
  <2>2. QED
    BY <1>4, <1>5, <2>1
<1>7. ledger' = m
  BY DEF Completes, Completion
<1> HIDE DEF l, m
<1>8. ledger'.posted \subseteq ledger.posted \cup {Journal("RECAPTURE", w), Journal("COMPLETE", w)}
      /\ ledger.posted \subseteq ledger'.posted
  BY <1>5, <1>6, <1>7
<1>9. \A v \in Withdrawals, t \in {"RESERVE", "RELEASE"} : Posted(t, v)' <=> Posted(t, v)
  BY <1>3, <1>8 DEF Posted
<1>10. QED
  BY <1>5, <1>6, <1>7, <1>8, <1>9, OnlyTakesFunded DEF Completes

LEMMA FundedInit == Init => Funded
<1>1. SUFFICES ASSUME Init PROVE Funded
  OBVIOUS
<1>2. /\ ledger = [pending |-> 0, available |-> 0, bySource |-> [s \in Sources |-> 0], posted |-> {}]
      /\ lots = [n \in Lots |-> [status |-> "NONE", remaining |-> 0]]
      /\ wd = [w \in Withdrawals |->
                 [status |-> "NONE", ref |-> "NONE", source |-> "MIXED",
                  alloc |-> [n \in Lots |-> 0], released |-> FALSE]]
  BY <1>1 DEF Init, LedgerInit
<1>3. LotsAreSound
  BY <1>2, LedgerAssumption DEF LotsAreSound, Open
<1>4. ReservesAreSound
  BY <1>2 DEF ReservesAreSound, ReserveIsSound, Posted
<1>5. LeftCovers
  <2>1. Left \in Sizes
    BY <1>2 DEF Left, Sizes
  <2>2. Total(Left) \in Nat
    BY <2>1, TotalType
  <2>3. QED
    BY <1>2, <2>2 DEF LeftCovers
<1>6. GapCovers
  <2>1. Owed = {}
    BY <1>2 DEF Owed, Mixed, Posted
  <2>2. Gap(ledger) = 0
    BY <1>2 DEF Gap, Sources
  <2>3. QED
    BY <2>1, <2>2, FS_EmptySet DEF GapCovers
<1>7. QED
  BY <1>3, <1>4, <1>5, <1>6 DEF Funded

LEMMA FundedStep == IInv /\ Funded /\ [Next]_vars => Funded'
<1>1. SUFFICES ASSUME IInv, Funded, [Next]_vars PROVE Funded'
  OBVIOUS
<1>2. TypeOK /\ TypeOK'
  BY <1>1, IInvStep DEF IInv
<1>3. CASE SameReserves /\ UNCHANGED <<ledger, lots>>
  <2>1. \A t, w : Posted(t, w)' <=> Posted(t, w)
    BY <1>3 DEF Posted
  <2>2. ledger'.available <= ledger.available /\ Gap(ledger') >= Gap(ledger)
    BY <1>2, <1>3, LeftType
  <2>3. QED
    BY <1>1, <1>2, <1>3, <2>1, <2>2, OnlyTakesFunded
<1>4. CASE UNCHANGED vars
  BY <1>3, <1>4 DEF vars, SameReserves, SameReserve
<1>5. CASE Next
  <2>1. CASE Keeps
    BY <1>3, <2>1 DEF Keeps
  <2>2. CASE LedgerNext /\ SameReserves
    BY <1>1, <1>2, <2>2, LedgerStepIsLotStep, LotStepFunded DEF TypeOK
  <2>3. ASSUME NEW w \in Withdrawals, NEW a \in Reservable(w), TakesReserve(w, a) PROVE Funded'
    BY <1>1, <1>2, <2>3, TakesReserveFunded
  <2>4. ASSUME NEW w \in Withdrawals, GivesBack(w) PROVE Funded'
    BY <1>1, <1>2, <2>4, GivesBackFunded
  <2>5. ASSUME NEW w \in Withdrawals, Completes(w) PROVE Funded'
    BY <1>1, <1>2, <2>5, CompletesFunded
  <2>6. QED
    BY <1>1, <1>5, <2>1, <2>2, <2>3, <2>4, <2>5, KindOfStep
<1>6. QED
  BY <1>1, <1>4, <1>5

LEMMA FundsInvariance == Spec => [](IInv /\ Funded)
<1>1. Init => IInv /\ Funded
  BY IInvInit, FundedInit
<1>2. IInv /\ Funded /\ [Next]_vars => (IInv /\ Funded)'
  BY IInvStep, FundedStep
<1>3. QED
  BY <1>1, <1>2, PTL DEF Spec

(* AllocateWithdrawalFIFO: what the balance allows the open lots hold, for *)
(* any number of lots, withdrawals and overlapping settlements.            *)
THEOREM LotsAlwaysCover == Spec => []LotsCoverBalance
<1>1. IInv /\ Funded => LotsCoverBalance
  BY FundedIsCovered DEF IInv
<1>2. QED
  BY <1>1, FundsInvariance, PTL

(* post_ledger_transaction, a journal of source MIXED: the source rows may *)
(* drift from the wallet, but only above it, whatever mixed withdrawals    *)
(* fail, are released and are recaptured.                                  *)
THEOREM SourcesDriftUpward == Spec => []SourcesReachBalance
<1>1. IInv /\ Funded => SourcesReachBalance
  BY FundedIsCovered DEF IInv
<1>2. QED
  BY <1>1, FundsInvariance, PTL

----------------------------------------------------------------------------
(* AllocateWithdrawalFIFO: existence and uniqueness of what it returns.    *)

LEMMA Least ==
  ASSUME NEW T \in SUBSET Nat, NEW t \in T
  PROVE  \E m \in T : \A n \in T : m <= n
<1> DEFINE R == OpToRel(<, Nat)
<1>1. IsWellFoundedOn(R, Nat)
  BY NatLessThanWellFounded
<1>2. \A x, y \in Nat : <<x, y>> \in R <=> x < y
  BY DEF OpToRel
<1> HIDE DEF R
<1>3. PICK m \in T : \A n \in T : <<n, m>> \notin R
  BY <1>1, WFMin
<1>4. ASSUME NEW n \in T PROVE m <= n
  <2>1. m \in Nat /\ n \in Nat
    OBVIOUS
  <2>2. <<n, m>> \notin R
    BY <1>3
  <2>3. ~(n < m)
    BY <1>2, <2>1, <2>2
  <2>4. QED
    BY <2>1, <2>3
<1>5. QED
  BY <1>3, <1>4

LEMMA TotalOfNothing ==
  /\ [n \in Lots |-> 0] \in Sizes
  /\ Total([n \in Lots |-> 0]) = 0
<1>1. Coins([n \in Lots |-> 0]) = {}
  BY DEF Coins
<1>2. QED
  BY <1>1, FS_EmptySet DEF Total, Sizes

LEMMA PartOfTotal ==
  ASSUME NEW f \in Sizes, NEW n \in Lots
  PROVE  f[n] <= Total(f)
<1> DEFINE zero == [m \in Lots |-> 0]
           only == [m \in Lots |-> IF m = n THEN f[n] ELSE 0]
<1>1. /\ zero \in Sizes /\ only \in Sizes /\ zero[n] = 0 /\ only[n] = f[n] /\ f[n] \in Nat
      /\ \A m \in Lots \ {n} : only[m] = zero[m]
      /\ \A m \in Lots : only[m] <= f[m]
  BY DEF Sizes
<1>2. Total(zero) = 0
  BY TotalOfNothing
<1>3. Total(only) <= Total(f)
  <2> HIDE DEF only
  <2>1. QED
    BY <1>1, TotalGrows
<1>4. Total(only) = Total(zero) + f[n]
  <2> HIDE DEF only, zero
  <2>1. QED
    BY <1>1, TotalFills
<1>5. QED
  BY <1>1, <1>2, <1>3, <1>4

(* One unit more is taken from lot n. *)
OneMore(a, n) == [a EXCEPT ![n] = @ + 1]

LEMMA TotalOfOneMore ==
  ASSUME NEW a \in Sizes, NEW n \in Lots
  PROVE  /\ OneMore(a, n) \in Sizes
         /\ Total(OneMore(a, n)) = Total(a) + 1
<1> DEFINE zero == [m \in Lots |-> 0]
           unit == [m \in Lots |-> IF m = n THEN 1 ELSE 0]
<1>1. /\ zero \in Sizes /\ unit \in Sizes /\ zero[n] = 0 /\ unit[n] = 1
      /\ \A m \in Lots \ {n} : unit[m] = zero[m]
  BY DEF Sizes
<1>2. OneMore(a, n) \in Sizes /\ \A m \in Lots : OneMore(a, n)[m] = a[m] + unit[m]
  BY DEF OneMore, Sizes
<1>3. Total(zero) = 0
  BY TotalOfNothing
<1>4. Total(unit) = Total(zero) + 1
  <2> HIDE DEF unit, zero
  <2>1. QED
    BY <1>1, TotalFills
<1>5. Total(OneMore(a, n)) = Total(a) + Total(unit)
  <2> HIDE DEF unit
  <2>1. QED
    BY <1>1, <1>2, TotalAdds
<1>6. Total(a) \in Nat
  BY TotalType
<1>7. QED
  BY <1>2, <1>3, <1>4, <1>5, <1>6

(* A FIFO allocation that leaves something in the lots goes on with the    *)
(* oldest lot that has something left.                                     *)
LEMMA FifoGoesOn ==
  ASSUME TypeOK, LotsAreSound, NEW a \in Sizes, IsFifo(a), Total(a) < Total(Left)
  PROVE  \E b \in Sizes : IsFifo(b) /\ Total(b) = Total(a) + 1
<1>1. lots \in [Lots -> LotRows] /\ Left \in Sizes /\ Lots \subseteq Nat
  BY DEF TypeOK, LedgerTypeOK, Left, LotRows, Sizes, Lots
<1> DEFINE T == {n \in Lots : a[n] < Left[n]}
<1>2. T # {}
  <2>1. SUFFICES ASSUME T = {} PROVE FALSE
    OBVIOUS
  <2>2. \A n \in Lots : Left[n] <= a[n]
    BY <1>1, <2>1 DEF Sizes
  <2>3. Total(Left) <= Total(a) /\ Total(a) \in Nat /\ Total(Left) \in Nat
    BY <1>1, <2>2, TotalGrows, TotalType
  <2>4. QED
    BY <2>3
<1>3. PICK n \in T : \A m \in T : n <= m
  BY <1>1, <1>2, Least
<1>4. /\ n \in Lots /\ a[n] \in Nat /\ lots[n].remaining \in Nat
      /\ a[n] < lots[n].remaining /\ Open(n)
  BY <1>1, <1>3 DEF Left, Sizes, LotRows, LotsAreSound
<1>5. \A m \in 1 .. n - 1 : Open(m) => a[m] = lots[m].remaining
  <2>1. SUFFICES ASSUME NEW m \in 1 .. n - 1, Open(m) PROVE a[m] = lots[m].remaining
    OBVIOUS
  <2>2. m \in Lots /\ ~(n <= m)
    BY <1>4, LedgerAssumption DEF Lots
  <2>3. ~(a[m] < lots[m].remaining)
    BY <1>3, <2>2 DEF Left
  <2>4. a[m] \in Nat /\ lots[m].remaining \in Nat
    BY <1>1, <2>2 DEF Sizes, LotRows
  <2>5. a[m] > 0 => a[m] <= lots[m].remaining
    BY <2>2 DEF IsFifo
  <2>6. QED
    BY <2>3, <2>4, <2>5
<1> DEFINE b == OneMore(a, n)
<1>6. b \in Sizes /\ Total(b) = Total(a) + 1
  BY <1>4, TotalOfOneMore
<1>7. b[n] = a[n] + 1 /\ \A m \in Lots \ {n} : b[m] = a[m]
  BY <1>4 DEF OneMore, Sizes
<1> HIDE DEF b
<1>8. ASSUME NEW x \in Lots, b[x] > 0
      PROVE  /\ Open(x) /\ b[x] <= lots[x].remaining
             /\ \A m \in 1 .. x - 1 : Open(m) => b[m] = lots[m].remaining
  <2>1. \A m \in 1 .. x - 1 : m \in Lots /\ m # x
    BY LedgerAssumption DEF Lots
  <2>2. CASE x = n
    BY <1>4, <1>5, <1>7, <2>1, <2>2
  <2>3. CASE x # n
    <3>1. b[x] = a[x] /\ a[x] > 0
      BY <1>7, <1>8, <2>3
    <3>2. /\ Open(x) /\ a[x] <= lots[x].remaining
          /\ \A m \in 1 .. x - 1 : Open(m) => a[m] = lots[m].remaining
      BY <3>1 DEF IsFifo
    <3>3. n \notin 1 .. x - 1
      BY <1>4, <3>2
    <3>4. QED
      BY <1>7, <2>1, <3>1, <3>2, <3>3
  <2>4. QED
    BY <2>2, <2>3
<1>9. IsFifo(b)
  BY <1>8 DEF IsFifo
<1>10. QED
  BY <1>6, <1>9

LEMMA FifoExists ==
  ASSUME TypeOK, LotsAreSound, NEW k \in Nat, Total(Left) >= k
  PROVE  \E a \in Sizes : IsFifo(a) /\ Total(a) = k
<1> DEFINE zero      == [n \in Lots |-> 0]
           Within(a) == IsFifo(a) /\ Total(a) <= k
           Short     == {k - Total(a) : a \in {a \in Sizes : Within(a)}}
<1>1. \A a \in Sizes : Total(a) \in Nat
  BY TotalType
<1>2. Left \in Sizes
  BY DEF TypeOK, LedgerTypeOK, Left, LotRows, Sizes
<1>3. Short \subseteq Nat
  BY <1>1
<1>4. k - Total(zero) \in Short
  BY TotalOfNothing DEF IsFifo
<1>5. PICK m \in Short : \A s \in Short : m <= s
  <2> HIDE DEF Short
  <2>1. QED
    BY <1>3, <1>4, Least
<1>6. PICK a \in Sizes : IsFifo(a) /\ Total(a) <= k /\ m = k - Total(a)
  BY <1>5
<1>7. Total(a) = k
  <2>1. SUFFICES ASSUME Total(a) # k PROVE FALSE
    OBVIOUS
  <2>2. Total(a) < k /\ Total(a) < Total(Left)
    BY <1>1, <1>2, <1>6, <2>1
  <2>3. PICK b \in Sizes : IsFifo(b) /\ Total(b) = Total(a) + 1
    BY <1>6, <2>2, FifoGoesOn
  <2>4. k - Total(b) \in Short
    BY <1>1, <1>6, <2>2, <2>3
  <2>5. m <= k - Total(b)
    BY <1>5, <2>4
  <2>6. QED
    BY <1>1, <1>6, <2>3, <2>5
<1>8. QED
  BY <1>6, <1>7

(* Of two allocations of one amount neither takes less from the oldest lot *)
(* on which they differ: it would take nothing from the younger ones.      *)
LEMMA FifoIsLeast ==
  ASSUME TypeOK, NEW a \in Sizes, NEW b \in Sizes, IsFifo(a), IsFifo(b), NEW n \in Lots,
         \A m \in Lots : m < n => a[m] = b[m], a[n] < b[n]
  PROVE  Total(a) < Total(b)
<1>1. lots \in [Lots -> LotRows] /\ Lots \subseteq Nat /\ a[n] \in Nat /\ b[n] \in Nat
  BY DEF TypeOK, LedgerTypeOK, Sizes, Lots
<1>2. Open(n) /\ a[n] < lots[n].remaining
  <2>1. b[n] > 0
    BY <1>1
  <2>2. Open(n) /\ b[n] <= lots[n].remaining
    BY <2>1 DEF IsFifo
  <2>3. lots[n].remaining \in Nat
    BY <1>1 DEF LotRows
  <2>4. QED
    BY <1>1, <2>2, <2>3
<1>3. ASSUME NEW m \in Lots PROVE OneMore(a, n)[m] <= b[m]
  <2>1. m \in Nat /\ n \in Nat /\ a[m] \in Nat /\ b[m] \in Nat
    BY <1>1 DEF Sizes
  <2>2. CASE m = n
    BY <1>1, <2>2 DEF OneMore, Sizes
  <2>3. CASE m < n
    BY <2>1, <2>3 DEF OneMore, Sizes
  <2>4. CASE m > n
    <3>1. n \in 1 .. m - 1
      BY <2>1, <2>4, LedgerAssumption DEF Lots
    <3>2. ~(a[m] > 0)
      BY <1>1, <1>2, <3>1 DEF IsFifo
    <3>3. OneMore(a, n)[m] = a[m]
      BY <2>1, <2>4 DEF OneMore, Sizes
    <3>4. QED
      BY <2>1, <3>2, <3>3
  <2>5. QED
    BY <2>1, <2>2, <2>3, <2>4
<1>4. /\ OneMore(a, n) \in Sizes /\ Total(OneMore(a, n)) = Total(a) + 1
      /\ Total(a) \in Nat /\ Total(b) \in Nat
  BY TotalOfOneMore, TotalType
<1>5. Total(OneMore(a, n)) <= Total(b)
  BY <1>3, <1>4, TotalGrows
<1>6. QED
  BY <1>4, <1>5

LEMMA FifoIsUnique ==
  ASSUME TypeOK, NEW a \in Sizes, NEW b \in Sizes, IsFifo(a), IsFifo(b), Total(a) = Total(b)
  PROVE  a = b
<1> DEFINE T == {n \in Lots : a[n] # b[n]}
<1>1. SUFFICES ASSUME NEW t \in T PROVE FALSE
  BY DEF Sizes
<1>2. Lots \subseteq Nat
  BY DEF Lots
<1>3. PICK n \in T : \A m \in T : n <= m
  BY <1>2, Least
<1>4. n \in Lots /\ a[n] \in Nat /\ b[n] \in Nat /\ a[n] # b[n]
  BY <1>3 DEF Sizes
<1>5. \A m \in Lots : m < n => a[m] = b[m]
  BY <1>2, <1>3, <1>4
<1>6. Total(a) \in Nat
  BY TotalType
<1>7. CASE a[n] < b[n]
  BY <1>4, <1>5, <1>6, <1>7, FifoIsLeast
<1>8. CASE b[n] < a[n]
  BY <1>4, <1>5, <1>6, <1>8, FifoIsLeast
<1>9. QED
  BY <1>4, <1>7, <1>8

LEMMA CoveredIsAllocated ==
  ASSUME TypeOK, Funded
  PROVE  CoveredHasOneAllocation
<1>1. SUFFICES ASSUME NEW w \in Withdrawals, ledger.available >= Amount[w]
               PROVE  Cardinality(Allocations(w)) = 1
  BY DEF CoveredHasOneAllocation
<1>2. Amount[w] \in Nat /\ ledger.available \in Nat /\ Left \in Sizes
  BY AmountsAreInts, WithdrawalAssumption
     DEF TypeOK, LedgerTypeOK, Ledgers, Left, LotRows, Sizes
<1>3. Total(Left) >= Amount[w]
  BY <1>1, <1>2, TotalType DEF Funded, LeftCovers
<1>4. PICK a \in Sizes : IsFifo(a) /\ Total(a) = Amount[w]
  BY <1>2, <1>3, FifoExists DEF Funded
<1>5. a \in Allocations(w)
  <2>1. \A n \in Lots : a[n] \in 0 .. Amount[w]
    BY <1>2, <1>4, PartOfTotal DEF Sizes
  <2>2. QED
    BY <1>4, <2>1 DEF Allocations, Sizes
<1>6. ASSUME NEW b \in Allocations(w) PROVE b = a
  <2>1. b \in Sizes /\ IsFifo(b) /\ Total(b) = Amount[w]
    BY <1>2 DEF Allocations, Sizes
  <2>2. QED
    BY <1>4, <2>1, FifoIsUnique
<1>7. Allocations(w) = {a}
  BY <1>5, <1>6
<1>8. QED
  BY <1>7, FS_Singleton

(* RequestWithdrawal: what passes the balance check is never refused for   *)
(* want of lots, and which lots it consumes is settled, for any number of  *)
(* lots and any amounts.                                                   *)
THEOREM CoveredIsAlwaysAllocated == Spec => []CoveredHasOneAllocation
<1>1. IInv /\ Funded => CoveredHasOneAllocation
  BY CoveredIsAllocated DEF IInv
<1>2. QED
  BY <1>1, FundsInvariance, PTL

=============================================================================
