----------------------------- MODULE Withdrawals -----------------------------
(***************************************************************************)
(* application.WithdrawalService: a request reserves the amount, an        *)
(* administrator may review it, a payout is created at the provider        *)
(* outside any transaction and its outcome comes back as the answer of the *)
(* call, as a lookup or as a callback.  Every write locks the withdrawal's *)
(* row, but what is written was often decided before the lock was taken.   *)
(* A goroutine does one transaction or one provider call per step and may  *)
(* die, or have its request cancelled, between two of them.                *)
(* A withdrawal is named by the quote it consumes.                         *)
(***************************************************************************)
EXTENDS MerchantLedger

CONSTANTS Goroutines,         \* HTTP requests and lookup jobs
          Amount,             \* amount_idr quoted for each withdrawal
          Serving,            \* provider endpoints open to the platform's account
          Faults,             \* how a call to an open endpoint may fail: see CallEndpoint
          LookupByExternal,   \* TRUE for the Fake adapter, FALSE for Real
          LateSuccess         \* withdrawals the provider may report paid after a failure

Endpoints == {"payouts", "disbursements"}   \* tried in this order

ASSUME WithdrawalAssumption ==
  /\ Withdrawals # {}
  /\ Amount \in [Withdrawals -> Nat \ {0}]
  /\ Serving \subseteq Endpoints
  /\ Faults \subseteq {"TIMEOUT", "UNAVAILABLE", "REFUSED"}
  /\ LookupByExternal \in BOOLEAN
  /\ LateSuccess \subseteq Withdrawals

VARIABLES wd,       \* withdrawals, with their allocations
          payout,   \* what each endpoint did about each withdrawal (external)
          job       \* what each goroutine is doing

vars == <<ledger, lots, wd, payout, job>>

Status  == {"NONE", "UNDER_REVIEW", "APPROVED", "HELD", "PROCESSING", "UNKNOWN_OUTCOME",
            "COMPLETED", "FAILED", "REJECTED"}
Refs    == {"NONE", "PENDING"} \cup Endpoints     \* PENDING is "pending:" ++ external id
WdRows  == [status : Status, ref : Refs, source : Sources \cup {"MIXED"},
            alloc : [Lots -> Nat], released : BOOLEAN]
Outcome == {"PENDING", "COMPLETED", "FAILED", "ERROR"}
Step    == {"idle", "reserve", "submit", "pay", "fall_back", "give_up", "unknown", "refused",
            "pending", "complete", "bind", "fail", "lookup", "schedule"}

TypeOK ==
  /\ LedgerTypeOK
  /\ wd \in [Withdrawals -> WdRows]
  /\ payout \in [Withdrawals -> [Endpoints -> SUBSET Outcome]]
  /\ job \in [Goroutines -> [at : Step, of : Withdrawals, ref : Refs]]

At(g, s)       == job[g].at = s
Go(g, s)       == job' = [job EXCEPT ![g].at = s]
GoWith(g, s, e) == job' = [job EXCEPT ![g].at = s, ![g].ref = e]
Start(g, s, w, e) == job' = [job EXCEPT ![g] = [at |-> s, of |-> w, ref |-> e]]
Resting        == [at |-> "idle", of |-> CHOOSE w \in Withdrawals : TRUE, ref |-> "NONE"]
Rest(g)        == job' = [job EXCEPT ![g] = Resting]

SetStatus(w, s) == wd' = [wd EXCEPT ![w].status = s]

----------------------------------------------------------------------------
(* RequestWithdrawal: the checks outside the transaction.  merchantFrozen  *)
(* is none that can be relied on: it lets every request pass when its read *)
(* fails, and sees only the last twenty withdrawals.  So the freeze that a *)
(* late success may set is left out.                                       *)

Request(g, w) ==
  /\ At(g, "idle")
  /\ wd[w].status = "NONE"                         \* the quote is ACTIVE
  /\ Start(g, "reserve", w, "NONE")
  /\ UNCHANGED <<ledger, lots, wd, payout>>

(* AllocateWithdrawalFIFO: a lot is touched only when every older one  *)
(* is used up.                                                             *)
Open(n)     == lots[n].status \in {"AVAILABLE", "PARTIALLY_CONSUMED"}
Coins(a)    == UNION {{n} \X (1 .. a[n]) : n \in Lots}       \* one pair per unit of money
Total(a)    == Cardinality(Coins(a))

InAnyOrder(a) ==                \* faulty: the lots are not sorted
  \A n \in Lots : a[n] > 0 => Open(n) /\ a[n] <= lots[n].remaining

IsFifo(a)   == \A n \in Lots :
                 /\ a[n] > 0 => Open(n) /\ a[n] <= lots[n].remaining
                 /\ a[n] > 0 => \A m \in 1 .. n - 1 : Open(m) => a[m] = lots[m].remaining
Allocations(w) == {a \in [Lots -> 0 .. Amount[w]] : Total(a) = Amount[w] /\ IsFifo(a)}
Uses(a, s)  == \E n \in Lots : a[n] > 0 /\ Source[n] = s
SourceOf(a) == IF ~Uses(a, "QRIS_API") THEN "STOREFRONT"
               ELSE IF ~Uses(a, "STOREFRONT") THEN "QRIS_API" ELSE "MIXED"

Overdrawn(n, k) ==              \* faulty: more is taken than the lot has left
  [status    |-> "PARTIALLY_CONSUMED",
   remaining |-> lots[n].remaining - k - 1]

Consumed(n, k) ==
  [status    |-> IF lots[n].remaining - k <= 0 THEN "CONSUMED" ELSE "PARTIALLY_CONSUMED",
   remaining |-> lots[n].remaining - k]

Reserved(w, a) == Post(ledger, Journal("RESERVE", w), 0, -Amount[w], SourceOf(a))
Reservable(w)  == {a \in Allocations(w) : ledger.available >= Amount[w] /\ Fits(Reserved(w, a))}

(* The transaction: balance lock, lots, quote, journal, row.               *)
Reserve(g) ==
  LET w == job[g].of IN
  /\ At(g, "reserve")
  /\ wd[w].status = "NONE"
  /\ \E a \in Reservable(w), s \in {"APPROVED", "UNDER_REVIEW"} :   \* withdrawal_auto_approve
       /\ ledger' = Reserved(w, a)
       /\ lots' = [n \in Lots |-> IF a[n] > 0 THEN Consumed(n, a[n]) ELSE lots[n]]
       /\ wd' = [wd EXCEPT ![w] = [@ EXCEPT !.status = s, !.alloc = a, !.source = SourceOf(a)]]
       /\ IF s = "APPROVED" THEN Go(g, "submit") ELSE Rest(g)
  /\ UNCHANGED payout

ReserveFails(g) ==
  /\ At(g, "reserve")
  /\ wd[job[g].of].status # "NONE" \/ Reservable(job[g].of) = {}
  /\ Rest(g)
  /\ UNCHANGED <<ledger, lots, wd, payout>>

----------------------------------------------------------------------------
(* releaseReserve: the journal and the lots.  A lot that was refilled in   *)
(* the meantime would pass its original amount, which its CHECK refuses    *)
(* and the whole transaction with it.                                      *)

Released(w)  == Post(ledger, Journal("RELEASE", w), 0, Amount[w], wd[w].source)
LotsFit(w)   == \A n \in Lots : wd[w].alloc[n] > 0 =>
                                  lots[n].remaining + wd[w].alloc[n] <= Original[n]
CanRelease(w) == Fits(Released(w)) /\ LotsFit(w)
Restored(w, n) ==
  LET k == wd[w].alloc[n] IN
  IF k = 0 THEN lots[n]
  ELSE [status    |-> IF lots[n].remaining + k >= Original[n] THEN "AVAILABLE"
                      ELSE "PARTIALLY_CONSUMED",
        remaining |-> lots[n].remaining + k]

JournalOnly(w) == ledger' = Released(w) /\ UNCHANGED lots   \* faulty: the lots stay consumed

ReleaseReserve(w) == /\ ledger' = Released(w)
                     /\ lots' = [n \in Lots |-> Restored(w, n)]

(* Close the row with status s and give the reserve back once. *)
CloseReleased(w, s) ==
  IF wd[w].released
  THEN SetStatus(w, s) /\ UNCHANGED <<ledger, lots>>
  ELSE /\ ReleaseReserve(w)
       /\ wd' = [wd EXCEPT ![w].status = s, ![w].released = TRUE]

----------------------------------------------------------------------------
(* AdminReview, with CanTransition's edges.                                *)

RejectAnyway(g, w) ==           \* faulty: no look at the transition matrix
  /\ At(g, "idle")
  /\ wd[w].status \notin {"NONE", "REJECTED"}
  /\ wd[w].released \/ CanRelease(w)
  /\ CloseReleased(w, "REJECTED")
  /\ UNCHANGED <<payout, job>>

Reject(g, w) ==
  /\ At(g, "idle")
  /\ wd[w].status \in {"UNDER_REVIEW", "HELD"}
  /\ wd[w].released \/ CanRelease(w)
  /\ CloseReleased(w, "REJECTED")
  /\ UNCHANGED <<payout, job>>

Hold(g, w) ==
  /\ At(g, "idle")
  /\ wd[w].status = "UNDER_REVIEW"
  /\ SetStatus(w, "HELD")
  /\ UNCHANGED <<ledger, lots, payout, job>>

(* Approving what is APPROVED already goes on to pay as well. *)
Approve(g, w) ==
  /\ At(g, "idle")
  /\ wd[w].status \in {"UNDER_REVIEW", "APPROVED"}
  /\ SetStatus(w, "APPROVED")
  /\ Start(g, "submit", w, "NONE")
  /\ UNCHANGED <<ledger, lots, payout>>

----------------------------------------------------------------------------
(* DisburseWithdrawal: claim the row.  A row that is PROCESSING already    *)
(* passes the test after the transaction and is paid again under the same  *)
(* external id.                                                            *)

Submit(g) ==
  LET w == job[g].of IN
  /\ At(g, "submit")
  /\ IF wd[w].status \in {"APPROVED", "PROCESSING"}
     THEN SetStatus(w, "PROCESSING") /\ Go(g, "pay")
     ELSE UNCHANGED wd /\ Rest(g)
  /\ UNCHANGED <<ledger, lots, payout>>

----------------------------------------------------------------------------
(* The provider (external).  An endpoint keeps one payout per external id; *)
(* its history of outcomes never shrinks, and records as well that a call  *)
(* has come to an ERROR.                                                   *)

Exists(h)  == "PENDING" \in h
Current(h) == CASE "COMPLETED" \in h -> "COMPLETED"
                [] "COMPLETED" \notin h /\ "FAILED" \in h -> "FAILED"
                [] OTHER -> "PENDING"

Settle(w, e) ==
  LET h == payout[w][e] IN
  /\ Exists(h)
  /\ \/ /\ h \cap {"COMPLETED", "FAILED"} = {}
        /\ \E s \in {"COMPLETED", "FAILED"} : payout' = [payout EXCEPT ![w][e] = @ \cup {s}]
     \/ /\ w \in LateSuccess
        /\ "FAILED" \in h
        /\ "COMPLETED" \notin h
        /\ payout' = [payout EXCEPT ![w][e] = @ \cup {"COMPLETED"}]
  /\ UNCHANGED <<ledger, lots, wd, job>>

(* What one answer means to the caller. *)
AnswerOptimistic(s) == IF s = "FAILED" THEN "bind" ELSE "complete"     \* faulty
Answer(s) == CASE s = "COMPLETED" -> "complete"
               [] s = "FAILED"    -> "bind"
               [] s = "PENDING"   -> "pending"

(* One POST.  timeout and error are the caller's next steps.  A timeout    *)
(* and a 5xx or a broken connection may leave a payout behind, but only    *)
(* the timeout counts as an unknown outcome (IsUnknownOutcome).            *)
CallEndpoint(g, e, timeout, error) ==
  LET w      == job[g].of
      had    == payout[w][e]
      made   == had \cup {"PENDING"}
      Has(h) == payout' = [payout EXCEPT ![w][e] = h]
  IN
  IF e \notin Serving
  THEN Has(had) /\ Go(g, error)
  ELSE \/ Has(made) /\ GoWith(g, Answer(Current(made)), e)
       \/ /\ "TIMEOUT" \in Faults
          /\ Has(had) \/ Has(made)
          /\ Go(g, timeout)
       \/ /\ "UNAVAILABLE" \in Faults
          /\ Has(had \cup {"ERROR"}) \/ Has(made \cup {"ERROR"})
          /\ Go(g, error)
       \/ /\ "REFUSED" \in Faults
          /\ Has(had \cup {"ERROR"})
          /\ Go(g, error)

(* Real.CreateDisbursement: any error of /v2/payouts is followed by a call *)
(* of /disbursements; when both fail the first error is returned.          *)
Pay(g) ==
  /\ At(g, "pay")
  /\ CallEndpoint(g, "payouts", "fall_back", "give_up")
  /\ UNCHANGED <<ledger, lots, wd>>

FallBack(g) ==
  /\ At(g, "fall_back") \/ At(g, "give_up")
  /\ LET verdict == IF At(g, "fall_back") THEN "unknown" ELSE "refused" IN
     CallEndpoint(g, "disbursements", verdict, verdict)
  /\ UNCHANGED <<ledger, lots, wd>>

----------------------------------------------------------------------------
(* What the outcome does to the row, always under its lock.                *)

TimeoutReleases(g) ==           \* faulty: an unknown outcome is treated as a failure
  LET w == job[g].of IN
  /\ At(g, "unknown")
  /\ wd[w].status \notin {"FAILED", "COMPLETED"}
  /\ wd[w].released \/ CanRelease(w)
  /\ CloseReleased(w, "FAILED")
  /\ Rest(g)
  /\ UNCHANGED payout

MarkUnknown(g) ==
  LET w == job[g].of IN
  /\ At(g, "unknown")
  /\ wd' = IF wd[w].status \in {"COMPLETED", "FAILED"} THEN wd
           ELSE [wd EXCEPT ![w].status = "UNKNOWN_OUTCOME",
                           ![w].ref = IF wd[w].ref = "NONE" THEN "PENDING" ELSE wd[w].ref]
  /\ Rest(g)
  /\ UNCHANGED <<ledger, lots, payout>>

(* A pending answer writes PROCESSING over whatever the row holds. *)
BackToProcessing(g) ==
  /\ At(g, "pending")
  /\ wd' = [wd EXCEPT ![job[g].of] = [@ EXCEPT !.status = "PROCESSING", !.ref = job[g].ref]]
  /\ Rest(g)
  /\ UNCHANGED <<ledger, lots, payout>>

(* So does scheduleLookup with UNKNOWN_OUTCOME. *)
ScheduleLookup(g) ==
  /\ At(g, "schedule")
  /\ SetStatus(job[g].of, "UNKNOWN_OUTCOME")
  /\ Rest(g)
  /\ UNCHANGED <<ledger, lots, payout>>

(* completeWithdrawal: recapture a reserve that a failure gave back, post  *)
(* the completion, close the row, all in one transaction.  The fee journal *)
(* moves no account of the merchant.                                       *)
Completion(w) ==
  LET late == wd[w].status = "FAILED" /\ wd[w].released
      a    == IF ledger.available < Amount[w] THEN ledger.available ELSE Amount[w]
      l    == IF late THEN Post(ledger, Journal("RECAPTURE", w), 0, -a, wd[w].source) ELSE ledger
  IN [ledger |-> Post(l, Journal("COMPLETE", w), 0, 0, wd[w].source),
      row    |-> [wd[w] EXCEPT !.status = "COMPLETED", !.released = @ /\ ~late]]

CanComplete(w) == /\ wd[w].status \notin {"COMPLETED", "UNDER_REVIEW", "HELD", "REJECTED"}
                  /\ Fits(Completion(w).ledger)

Complete(g) ==
  LET w == job[g].of IN
  /\ At(g, "complete")
  /\ IF CanComplete(w)
     THEN /\ ledger' = Completion(w).ledger
          /\ wd' = [wd EXCEPT ![w] = [Completion(w).row EXCEPT !.ref = job[g].ref]]
     ELSE UNCHANGED <<ledger, wd>>
  /\ Rest(g)
  /\ UNCHANGED <<lots, payout>>

(* bindProviderRef, then failAndRelease in a transaction of its own. *)
BindRef(g) ==
  /\ At(g, "bind")
  /\ wd' = [wd EXCEPT ![job[g].of].ref = job[g].ref]
  /\ Go(g, "fail")
  /\ UNCHANGED <<ledger, lots, payout>>

FailAndRelease(g) ==
  LET w == job[g].of IN
  /\ At(g, "fail") \/ At(g, "refused")
  /\ IF wd[w].status \notin {"FAILED", "COMPLETED"} /\ (wd[w].released \/ CanRelease(w))
     THEN CloseReleased(w, "FAILED")
     ELSE UNCHANGED <<ledger, lots, wd>>
  /\ Rest(g)
  /\ UNCHANGED payout

----------------------------------------------------------------------------
(* ResolveUnknownOutcome reads the row without a lock, then the provider.  *)
(* Without a provider reference only the Fake adapter can be asked.        *)

Resolve(g, w) ==
  /\ At(g, "idle")
  /\ wd[w].status \in {"UNKNOWN_OUTCOME", "PROCESSING"}
  /\ Start(g, IF wd[w].ref \in Endpoints \/ LookupByExternal THEN "lookup" ELSE "schedule",
           w, wd[w].ref)
  /\ UNCHANGED <<ledger, lots, wd, payout>>

Lookup(g) ==
  LET w     == job[g].of
      asked == IF job[g].ref \in Endpoints THEN {job[g].ref} ELSE Endpoints
  IN
  /\ At(g, "lookup")
  /\ \/ \E e \in asked : /\ Exists(payout[w][e])
                          /\ GoWith(g, Answer(Current(payout[w][e])), e)
     \/ Go(g, "schedule")              \* not found, or the lookup failed
  /\ UNCHANGED <<ledger, lots, wd, payout>>

(* HandleDisbursementCallback: any outcome the payout ever had, late and   *)
(* repeated, for a row that holds its reference; or NOT_FOUND.             *)
Callback(g, w) ==
  /\ At(g, "idle")
  /\ wd[w].ref \in Endpoints
  /\ \/ \E s \in payout[w][wd[w].ref] \ {"ERROR"} : Start(g, Answer(s), w, wd[w].ref)
     \/ Start(g, "schedule", w, wd[w].ref)
  /\ UNCHANGED <<ledger, lots, wd, payout>>

Die(g) ==
  /\ ~At(g, "idle")
  /\ Rest(g)
  /\ UNCHANGED <<ledger, lots, wd, payout>>

----------------------------------------------------------------------------

Init ==
  /\ LedgerInit
  /\ wd = [w \in Withdrawals |->
             [status |-> "NONE", ref |-> "NONE", source |-> "MIXED",
              alloc |-> [n \in Lots |-> 0], released |-> FALSE]]
  /\ payout = [w \in Withdrawals |-> [e \in Endpoints |-> {}]]
  /\ job = [g \in Goroutines |-> Resting]

Next ==
  \/ LedgerNext /\ UNCHANGED <<wd, payout, job>>
  \/ \E w \in Withdrawals, e \in Endpoints : Settle(w, e)
  \/ \E g \in Goroutines :
       \/ \E w \in Withdrawals :
            \/ Request(g, w)
            \/ Reject(g, w)
            \/ Hold(g, w)
            \/ Approve(g, w)
            \/ Resolve(g, w)
            \/ Callback(g, w)
       \/ Reserve(g)
       \/ ReserveFails(g)
       \/ Submit(g)
       \/ Pay(g)
       \/ FallBack(g)
       \/ MarkUnknown(g)
       \/ BackToProcessing(g)
       \/ ScheduleLookup(g)
       \/ Complete(g)
       \/ BindRef(g)
       \/ FailAndRelease(g)
       \/ Lookup(g)
       \/ Die(g)

Spec == Init /\ [][Next]_vars

----------------------------------------------------------------------------

Posted(t, w) == Journal(t, w) \in ledger.posted
Answered(w, s) == \E e \in Endpoints : s \in payout[w][e]

(* Whatever a withdrawal may take from the balance can be taken from the   *)
(* open lots: RequestWithdrawal never passes its balance check and then    *)
(* finds too few lots, also after recaptures and overlapping releases.     *)
LotsCoverBalance ==
  Total([n \in Lots |-> IF Open(n) THEN lots[n].remaining ELSE 0]) >= ledger.available

(* AllocateWithdrawalFIFO: a withdrawal the balance covers has one FIFO    *)
(* allocation and only one.  It is never refused for want of lots, and     *)
(* which lots it consumes is decided by the lots alone.                    *)
CoveredHasOneAllocation ==
  \A w \in Withdrawals : ledger.available >= Amount[w] => Cardinality(Allocations(w)) = 1

(* VerifySourceTotalsSum, "source breakdown sums to one authoritative      *)
(* balance": the per source balances add up to the wallet.  A withdrawal   *)
(* from lots of both sources moves the wallet alone.                       *)
SourcesSumToBalance ==
  ledger.bySource["STOREFRONT"] + ledger.bySource["QRIS_API"] = ledger.available

(* AdminReview: what an administrator rejected or holds was never sent to  *)
(* the provider and never will be, though approvals and automatic payouts  *)
(* race with the review.                                                   *)
RefusedIsNeverSent ==
  \A w \in Withdrawals :
    wd[w].status \in {"REJECTED", "HELD"} => \A e \in Endpoints : payout[w][e] = {}

(* completeWithdrawal: the completion journal is posted only for a payout  *)
(* the provider reported as completed, whichever of the answer, a lookup   *)
(* or a callback brought the news, and when.                               *)
CompletionNeedsSuccess ==
  \A w \in Withdrawals : Posted("COMPLETE", w) => Answered(w, "COMPLETED")

(* Real.CreateDisbursement, markUnknown: that /v2/payouts timed out never   *)
(* gives the reserve back, whatever /disbursements then answers and        *)
(* however retries, lookups and late callbacks meet; what does is another  *)
(* error of /v2/payouts, a reported failure or a rejection.                *)
FirstErred(w) == "payouts" \notin Serving \/ "ERROR" \in payout[w]["payouts"]

TimeoutKeepsReserve ==
  \A w \in Withdrawals :
    Posted("RELEASE", w) =>
      Answered(w, "FAILED") \/ FirstErred(w) \/ wd[w].status = "REJECTED"

(* "Definitive rejection before accept": the reserve of a payout that      *)
(* exists is given back only when the provider reports its failure.        *)
ReleaseNeedsVerdict ==
  \A w \in Withdrawals :
    Posted("RELEASE", w) =>
      Answered(w, "FAILED") \/ \A e \in Endpoints : ~Exists(payout[w][e])
=============================================================================
