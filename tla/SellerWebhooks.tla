--------------------------- MODULE SellerWebhooks ---------------------------
(***************************************************************************)
(* application.WebhookService and jobs.WebhookWorker: a delivery row per   *)
(* event and endpoint, and outbox rows that each ask for one attempt at    *)
(* it.  A worker claims an outbox row, reads the delivery, posts, then     *)
(* writes the whole delivery row back and, to try again, inserts the next  *)
(* outbox row, whose dedupe key names the attempt.  No lock or transaction *)
(* spans these steps; an administrator's retry does the same with a key of *)
(* its own.  Each step may be the last one of its goroutine, and the       *)
(* errors of the two writes are dropped.                                   *)
(***************************************************************************)
EXTENDS Integers, FiniteSets

CONSTANTS Deliveries,    \* payment.paid events to be delivered
          Workers,       \* goroutines of the seller.webhook_outbox job
          Admins,        \* retry requests of administrators
          MaxAttempts,   \* max_attempts
          MaxWaves,      \* bound: administrators' retries of one delivery
          MaxFaults      \* bound: failed statements, of reads and of writes

ASSUME WebhookAssumption ==
  /\ Deliveries # {}
  /\ Workers \cap Admins = {}
  /\ MaxAttempts \in Nat \ {0}
  /\ MaxWaves \in Nat
  /\ MaxFaults \in Nat

VARIABLES delivery,   \* webhook_deliveries
          outbox,     \* outbox_events of topic seller_webhook.deliver, by dedupe key
          posts,      \* requests the endpoint has received (external)
          accepted,   \* deliveries the endpoint has answered with a 2xx (external)
          job,        \* what each goroutine is doing
          faults,     \* failed statements so far
          troubled    \* history: deliveries that lost a goroutine, a write or a row

vars == <<delivery, outbox, posts, accepted, job, faults, troubled>>

Goroutines == Workers \cup Admins
Attempts   == 0 .. MaxAttempts - 1      \* "...:a<n>"; 0 is the key of the first row
Waves      == 1 .. MaxWaves             \* "...:retry:..."
Rows       == [kind : {"ATTEMPT"}, n : Attempts] \cup [kind : {"WAVE"}, n : Waves]
Attempt(n) == [kind |-> "ATTEMPT", n |-> n]
Wave(n)    == [kind |-> "WAVE", n |-> n]

Status == {"NONE", "QUEUED", "RETRYING", "DELIVERED", "DEAD_LETTER"}
Open   == {"QUEUED", "RETRYING"}
Deliv  == [status : Status, count : Nat]
RowStatus == {"NONE", "pending", "processing", "failed", "completed", "dead"}
Step   == {"idle", "read", "post", "save", "insert", "finish"}

TypeOK ==
  /\ delivery \in [Deliveries -> Deliv]
  /\ outbox \in [Deliveries -> [Rows -> RowStatus]]
  /\ posts \in [Deliveries -> Nat]
  /\ accepted \subseteq Deliveries
  /\ job \in [Goroutines -> [at : Step, of : Deliveries, row : Rows,
                             seen : Deliv, result : Deliv]]
  /\ faults \in 0 .. MaxFaults
  /\ troubled \subseteq Deliveries

At(g, s) == job[g].at = s
Of(g)    == job[g].of
NoDeliv  == [status |-> "NONE", count |-> 0]
Resting  == [at |-> "idle", of |-> CHOOSE d \in Deliveries : TRUE, row |-> Attempt(0),
             seen |-> NoDeliv, result |-> NoDeliv]
Rest(g)  == job' = [job EXCEPT ![g] = Resting]
End(g)   == job' = [job EXCEPT ![g] = [Resting EXCEPT !.at = "finish", !.of = Of(g),
                                                      !.row = job[g].row]]

SetRow(d, r, s) == outbox' = [outbox EXCEPT ![d][r] = s]

----------------------------------------------------------------------------
(* EnqueuePaymentPaid: delivery and first outbox row in one transaction,   *)
(* nothing if the delivery exists.                                         *)

Enqueue(d) ==
  /\ delivery[d].status = "NONE"
  /\ delivery' = [delivery EXCEPT ![d] = [status |-> "QUEUED", count |-> 0]]
  /\ SetRow(d, Attempt(0), "pending")
  /\ UNCHANGED <<posts, accepted, job, faults, troubled>>

----------------------------------------------------------------------------
(* WebhookWorker.ProcessReady and ProcessDelivery.  A row that is          *)
(* processing is never claimed again.                                      *)

ClaimProcessing(w, d, r) ==           \* faulty: a processing row may be claimed
  /\ At(w, "idle")
  /\ outbox[d][r] \in {"pending", "failed", "processing"}
  /\ SetRow(d, r, "processing")
  /\ job' = [job EXCEPT ![w] = [Resting EXCEPT !.at = "read", !.of = d, !.row = r]]
  /\ UNCHANGED <<delivery, posts, accepted, faults, troubled>>

ClaimPending(w, d, r) ==              \* faulty: a failed row is left alone
  /\ At(w, "idle")
  /\ outbox[d][r] = "pending"
  /\ SetRow(d, r, "processing")
  /\ job' = [job EXCEPT ![w] = [Resting EXCEPT !.at = "read", !.of = d, !.row = r]]
  /\ UNCHANGED <<delivery, posts, accepted, faults, troubled>>

Claim(w, d, r) ==
  /\ At(w, "idle")
  /\ outbox[d][r] \in {"pending", "failed"}
  /\ SetRow(d, r, "processing")
  /\ job' = [job EXCEPT ![w] = [Resting EXCEPT !.at = "read", !.of = d, !.row = r]]
  /\ UNCHANGED <<delivery, posts, accepted, faults, troubled>>

Fault     == faults < MaxFaults /\ faults' = faults + 1
Suffer(d) == troubled' = troubled \cup {d}

(* The row waits for the next tick, or is dead after the worker's own      *)
(* twelve attempts: they are not counted here, and any may be the last.    *)
ReadFails(w) ==
  /\ w \in Workers
  /\ At(w, "read")
  /\ Fault
  /\ \/ SetRow(Of(w), job[w].row, "failed") /\ UNCHANGED troubled
     \/ SetRow(Of(w), job[w].row, "dead") /\ Suffer(Of(w))
  /\ Rest(w)
  /\ UNCHANGED <<delivery, posts, accepted>>

Read(w) ==
  /\ w \in Workers
  /\ At(w, "read")
  /\ IF delivery[Of(w)].status = "DELIVERED" THEN End(w)
     ELSE job' = [job EXCEPT ![w].at = "post", ![w].seen = delivery[Of(w)]]
  /\ UNCHANGED <<delivery, outbox, posts, accepted, faults, troubled>>

(* scheduleRetry, or the dead letter after the last attempt; a dead letter *)
(* for any other reason keeps the old attempt count.                       *)
Again(seen) ==
  [status |-> IF seen.count + 1 >= MaxAttempts THEN "DEAD_LETTER" ELSE "RETRYING",
   count  |-> seen.count + 1]
DeadAsFailed(seen) == [seen EXCEPT !.status = "FAILED"]                          \* faulty
DeadAsSent(seen) == [status |-> "DELIVERED", count |-> seen.count + 1]           \* faulty
Dead(seen) == [seen EXCEPT !.status = "DEAD_LETTER"]
Sent(seen) == [status |-> "DELIVERED", count |-> seen.count + 1]

Post(w) ==
  LET d == Of(w)  seen == job[w].seen IN
  /\ w \in Workers
  /\ At(w, "post")
  /\ \/ /\ posts' = [posts EXCEPT ![d] = @ + 1]
        /\ \/ /\ accepted' = accepted \cup {d}               \* 2xx
              /\ job' = [job EXCEPT ![w].at = "save", ![w].result = Sent(seen)]
           \/ /\ \E r \in {Again(seen), Dead(seen)} :        \* 5xx, 408, 429; any other 4xx
                   job' = [job EXCEPT ![w].at = "save", ![w].result = r]
              /\ UNCHANGED accepted
           \/ /\ accepted' = accepted \cup {d}               \* 2xx lost on the way back
              /\ job' = [job EXCEPT ![w].at = "save", ![w].result = Again(seen)]
     \/ /\ \E r \in {Again(seen), Dead(seen)} :              \* endpoint inactive; address refused
             job' = [job EXCEPT ![w].at = "save", ![w].result = r]
        /\ UNCHANGED <<posts, accepted>>
  /\ UNCHANGED <<delivery, outbox, faults, troubled>>

GoOn(g) ==
  IF job[g].result.status \in Open
  THEN job' = [job EXCEPT ![g].at = "insert", ![g].seen = NoDeliv]
  ELSE End(g)

(* UpdateDelivery writes every column of what was read before the post.    *)
Save(g) ==
  LET d == Of(g) IN
  /\ At(g, "save")
  /\ delivery' = [delivery EXCEPT ![d] = job[g].result]
  /\ IF delivery[d] = job[g].seen THEN UNCHANGED troubled ELSE Suffer(d)
  /\ GoOn(g)
  /\ UNCHANGED <<outbox, posts, accepted, faults>>

(* A worker does not look at its error and goes on as if it had written;   *)
(* an administrator's request ends there, which is a death.                *)
SaveFails(w) ==
  /\ w \in Workers
  /\ At(w, "save")
  /\ Fault
  /\ Suffer(Of(w))
  /\ GoOn(w)
  /\ UNCHANGED <<delivery, outbox, posts, accepted>>

(* A key that is in the table already, in whatever state, makes the insert *)
(* fail, and the error is dropped.                                         *)
NextRowLate(g) == job[g].row          \* faulty: the key of the attempt just made
NextRow(g) == IF g \in Workers THEN Attempt(job[g].result.count) ELSE job[g].row

InsertOutbox(g) ==
  /\ At(g, "insert")
  /\ IF outbox[Of(g)][NextRow(g)] = "NONE" THEN SetRow(Of(g), NextRow(g), "pending")
     ELSE UNCHANGED outbox
  /\ End(g)
  /\ UNCHANGED <<delivery, posts, accepted, faults, troubled>>

(* So does any other failure of the insert, with a key that stays free.    *)
InsertFails(g) ==
  /\ At(g, "insert")
  /\ Fault
  /\ Suffer(Of(g))
  /\ End(g)
  /\ UNCHANGED <<delivery, outbox, posts, accepted>>

Finish(g) ==
  /\ At(g, "finish")
  /\ IF g \in Workers THEN SetRow(Of(g), job[g].row, "completed") ELSE UNCHANGED outbox
  /\ Rest(g)
  /\ UNCHANGED <<delivery, posts, accepted, faults, troubled>>

(* The process dies, the job's timeout cancels what is left to do, or the  *)
(* statement that closes the outbox row fails, which is dropped as well.   *)
Die(g) ==
  /\ ~At(g, "idle")
  /\ Rest(g)
  /\ Suffer(Of(g))
  /\ UNCHANGED <<delivery, outbox, posts, accepted, faults>>

----------------------------------------------------------------------------
(* AdminRetry: QUEUED again, unless DELIVERED when it was read.            *)

UsedWaves(d) == {n \in Waves : outbox[d][Wave(n)] # "NONE"
                               \/ \E g \in Admins : ~At(g, "idle") /\ Of(g) = d /\ job[g].row = Wave(n)}

AdminRetry(a, d) ==
  /\ At(a, "idle")
  /\ delivery[d].status \notin {"NONE", "DELIVERED"}
  /\ \E n \in Waves \ UsedWaves(d) :
       job' = [job EXCEPT ![a] = [at |-> "save", of |-> d, row |-> Wave(n), seen |-> delivery[d],
                                  result |-> [delivery[d] EXCEPT !.status = "QUEUED"]]]
  /\ UNCHANGED <<delivery, outbox, posts, accepted, faults, troubled>>

----------------------------------------------------------------------------

Init ==
  /\ delivery = [d \in Deliveries |-> NoDeliv]
  /\ outbox = [d \in Deliveries |-> [r \in Rows |-> "NONE"]]
  /\ posts = [d \in Deliveries |-> 0]
  /\ accepted = {}
  /\ job = [g \in Goroutines |-> Resting]
  /\ faults = 0
  /\ troubled = {}

Proceed(g) == Read(g) \/ Post(g) \/ Save(g) \/ InsertOutbox(g) \/ Finish(g)
ClaimAny(w) == \E d \in Deliveries, r \in Rows : Claim(w, d, r)

Next ==
  \/ \E d \in Deliveries : Enqueue(d)
  \/ \E w \in Workers : ClaimAny(w) \/ ReadFails(w) \/ SaveFails(w)
  \/ \E a \in Admins, d \in Deliveries : AdminRetry(a, d)
  \/ \E g \in Goroutines : Proceed(g) \/ InsertFails(g) \/ Die(g)

(* The runner ticks the job for ever, and a goroutine that does not die    *)
(* comes to the end of its request or batch.                               *)
Fairness == /\ \A w \in Workers : WF_vars(ClaimAny(w))
            /\ \A g \in Goroutines : WF_vars(Proceed(g))

Spec == Init /\ [][Next]_vars /\ Fairness

----------------------------------------------------------------------------

(* ProcessDelivery: a delivery is recorded DELIVERED only if the endpoint  *)
(* did accept it, though stale rows are written over newer ones.           *)
DeliveredWasAccepted ==
  \A d \in Deliveries : delivery[d].status = "DELIVERED" => d \in accepted

(* The dedupe keys of scheduleRetry: an endpoint receives no more requests *)
(* than max_attempts and one for every retry of an administrator, even     *)
(* when racing workers set the attempt count back.                         *)
PostsAreBounded ==
  \A d \in Deliveries :
    posts[d] <= MaxAttempts + Cardinality({n \in Waves : outbox[d][Wave(n)] # "NONE"})

(* scheduleRetry, AdminRetry: a delivery that is to be tried again has a   *)
(* row in the outbox or a goroutine about to write it.  There is no other  *)
(* way to be left behind than those troubled records: a goroutine died on  *)
(* it, wrote over a row it had not read, lost a write to a failed          *)
(* statement, or its outbox row is dead.                                   *)
Pending(d) == \/ \E r \in Rows : outbox[d][r] \in {"pending", "failed"}
              \/ \E g \in Goroutines : Of(g) = d /\ job[g].at \in Step \ {"idle", "finish"}

OpenHasWork ==
  \A d \in Deliveries : delivery[d].status \in Open => Pending(d) \/ d \in troubled

(* WebhookWorker: a delivery that none of this happens to is in the end    *)
(* delivered or dead-lettered, whatever the endpoint answers and however   *)
(* workers and administrators race.                                        *)
DeliveriesEnd ==
  \A d \in Deliveries :
    [](d \notin troubled) => (delivery[d].status \in Open ~> delivery[d].status \notin Open)
=============================================================================
