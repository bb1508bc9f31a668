# Formal model of the Fersaku payment backend

Fersaku sells digital goods and a QRIS payment API. The backend
(`src/backend`, Go, PostgreSQL) takes checkouts, asks an external payment
provider for a QRIS payment, learns from the provider's callbacks that the
customer paid, and then books, delivers and later pays out the money. The
modules in this directory model the part of it where money and concurrency
meet; this file says what they model, what TLC checks of it on small instances
and what TLAPS proves for every instance.

## 1. The system

| Component | State it keeps | Operations | Correct when |
| --- | --- | --- | --- |
| Provider callbacks (`application/callback_service.go`) | `payment_provider_events`, `payment_settlements`, rejections | accept, process, quarantine, replay; ledger and delivery after the commit | an event is processed once in effect, a sale needs money, PAID is final, every accepted event is resolved |
| Callback worker (`jobs/callback_worker.go`) | `outbox_events` of topic `provider_callback.process` | select, claim, process, close | no accepted event is left behind |
| Hosted checkout (`application/checkout_service.go`, two jobs in `jobs/handlers.go`) | `orders`, `payment_intents` | create, expire, look up | holds are released only on evidence, a concurrent payment is not overwritten |
| Payment status machine (`domain/payments`) | none | `Transition`, `MapProviderStatus` | transitions of task document section 5.3 |
| Ledger (`ledger_service.go`, `migrations/000018_ledger.up.sql`) | journals, balances, balances per source, settlement lots | post capture, settle, and the journals of withdrawals | no journal twice, no negative balance, the open lots cover the balance |
| Withdrawals (`withdrawal_service.go`, `adapters/xendit/client.go`) | withdrawals, their allocations, payouts at the provider | request, review, pay, look up, callback | nothing refused is paid, a timeout keeps the reserve, completion needs success |
| Inventory, delivery (`inventory_service.go`, `delivery_service.go`) | stock items, reservations, grants, invoices | reserve, release, expire by TTL, allocate, grant, reveal, revoke | unit and reservation agree, a unit is sold to the checkout it is held for |
| Coupons (`coupon_service.go`) | coupons, reservations, redemptions | reserve, hold, convert, release, expire | counters equal what they count, the usage limit holds |
| Merchant gateway (`gateway_service.go`) | intents with source `QRIS_API`, idempotency records | create, cancel, get, event log | as checkout; CANCELLED only on the provider's word |
| Job leases, runner, scheduler (`jobs/lease.go`, `runner.go`) | `job_leases`; `nextDue` in each process | poll, acquire, run, mark, drain | runs of two owner names do not overlap, a dead holder is soon replaced |
| Seller webhooks (`webhook_service.go`, `jobs/webhook_worker.go`) | deliveries, outbox rows | enqueue, claim, post, retry, dead-letter, retry by an administrator | DELIVERED only if accepted, requests bounded, an open delivery has work queued and ends |
| Notifications, accounts, authorization, onboarding, KYC, domains, credentials, catalog, reviews, buyers, analytics, fees, audit, admin, objects | one or two rows each | mostly versioned CRUD | ordinary request validation |
| Frontend (`src/frontend`) | none that counts | client of the API | - |

How they interact. A checkout reserves stock and coupon, inserts order and
intent in one transaction, and calls the provider outside any transaction. The
provider calls back; the callback is stored with an outbox row in one
transaction and processed at once by the same goroutine. The worker process
polls the outbox and processes again. Processing runs in one transaction that
locks the event row and the intent row. Three things escape from that
transaction: the inventory and coupon services and the webhook service open a
connection of their own (each repository keys its transaction under a context
key of its own, so an outer transaction is invisible to them), and ledger,
coupon conversion, allocation and delivery are done after the commit. The
checkout's own writes (`ForceUpdatePaymentIntent`, `UpdateOrderStatus`) take no
lock beyond the statement and look at no current status.

A withdrawal draws on the balance and the lots that captures and the settlement
job fill. Its payout is created outside any transaction, and its outcome comes
back as the answer of the call, as a lookup or as a callback, in any order. The
seller's webhook worker polls the same outbox table as the callback worker, but
takes no lock across its read, its post and its write.

What is hard here: callbacks that arrive twice, late, or in the wrong order,
and race with the worker and with an administrator's replay; holds that a
clock frees while the payment they belong to is still undecided; rows written
back whole after they have gone stale; effects committed
on another connection before or after the transaction they belong to; processes
that die between two statements; provider calls whose outcome is unknown; and
writes decided on a row that was read before the provider was asked. The list
in `PROJECT.json` (`hazards`) names each at its line.

## 2. Modules

```
PaymentRows            rows of PostgreSQL both sides write, and the provider
  |-- ProviderCallbacks    callbacks, worker, replay, crashes   --> VerifiedPayment
  |-- CheckoutOperations   create, expire, lookup                   (what they promise)
  |     `-- GatewayOperations  create and cancel by a merchant
  `-- PaymentSystem        all of them over the same rows
        |-- MCPaymentSystem  symmetry for TLC
        `-- PaymentProofs    types; a sale needs money; settlements
              |-- HoldProofs        what ends a payment keeps its holds
              `-- AgreementProofs   the rows agree (callback path)
                    `-- RefinementProofs  PAID is final, refinement of VerifiedPayment

CheckoutKeys           idempotency keys, which name holds and orders
  |-- Inventory            units and stock reservations
  |-- Coupons              counters and coupon reservations
  `-- StorefrontOrders     an order of a code product over both  --> UnitSale
        |-- MCStorefront
        `-- StorefrontProofs

MerchantLedger         balances, journals, lots, settlement job
  `-- Withdrawals          requests, payouts, outcomes
        |-- MCWithdrawals
        `-- WithdrawalProofs

SellerWebhooks         deliveries, outbox, workers, retries
  |-- MCSellerWebhooks
  `-- WebhookProofs

JobLeases              one job's lease, the replicas that poll it, time
  |-- MCJobLeases
  `-- JobLeaseProofs
```

**PaymentRows.** `pay[i]` is a `payment_intents` row: source, status, whether
`provider_reference` is set, `unknown_operation`, `paid_late`, and whether
`provider_financial_state` is held. `order[i]` is `orders.payment_status`,
`settlement[i]` the row of `payment_settlements` (unique by journal reference)
with its `paid_late`. `effects[i]` is what other connections committed for the
intent: seller webhook, capture journal, fulfilment, holds released by whoever
ends the payment, holds lapsed.
`provider[i]` is what the external provider knows. `locked` holds the intents a
callback transaction has read `FOR UPDATE`; any other writer of the row waits.
`NONE` stands for a row that is not there. `Ended` is what a request to expire or
to void a payment may make of it, `AnswerOf` the status the provider reports.

**ProviderCallbacks.** A handler is a goroutine that serves a callback or a
replay, or a worker. It is at one of nine points, the places between which
another connection can observe something. A transaction is two steps: `Begin...`
takes the locks, `Commit...` makes all its statements visible at once, and what
a nested service commits on its own connection is a step in between. Branches
with nothing in between (`Quarantine`, `ApplyNothing`, `ApplyReversal`,
`AlreadyProcessed`) are one step. `Rollback` is any error inside the
transaction, `EffectFails` any error that the code only logs, `Crash` the loss
of a process at any point; the three share the bound `MaxFaults`. Whether an
event resolves to one intent and its amount and currency agree is the Boolean
`matches`; the event types of `applyNormalized` that differ in what they do are
named; `EXPIRED` covers `FAILED`, which is treated alike, and `PENDING` the
unknown type. Nothing reads the type of an event that does not match, so
`Deliver` sends one type of those, PAID, which would do most harm if it did.
`LeftOpen` names the open states in which a run finds its intents: all five in
`callbacks_safety`, and for the theorems any of them. The states `PROCESSING` and `FAILED` of an event are only ever
written inside a transaction that overwrites them or is rolled back.

**CheckoutOperations.** An operation is a goroutine in `CreateIntent`,
`ExpireIntent` or `LookupProvider`, one step per statement or provider call. A
call that times out may or may not have had its effect. `WriteFails` is an
ignored error of a write that other writes follow; `Abandon` the loss of the
goroutine anywhere.

**GatewayOperations** adds `GatewayService` as further operations of the same
goroutines: a merchant creates a payment (rows of source `QRIS_API`, which have
no reservations) and asks to cancel it. The steps that a gateway payment shares
with a checkout are not written twice: its provider call and what follows it are
`CallCreate` to `RejectOrder`, it is expired and looked up by the same jobs, and
`ForceCancelled` and `CancelOrder` end both a cancel call and a lookup that
remembers one. A cancel call that times out leaves `UNKNOWN_OUTCOME` and the
operation `CANCEL`; any other error, and the answers `EXPIRED` and pending, leave
`CANCEL_PENDING` as the code does. Whether the provider has a void at all differs
between the two adapters; `Ended` allows both.

**PaymentSystem** runs all of them over the same rows from an empty database, so
that a payment of either source meets callbacks, jobs and requests. `HoldsEnd` is
everything else that frees the holds of an intent, and asks nobody about its
payment: the two expiry jobs (`jobs/handlers.go:60-77`) and the loser of two
requests with one idempotency key (`checkout_service.go:523-529`). What becomes
of stock and coupon then is the business of `StorefrontOrders`.

**VerifiedPayment** is the promise: a sale is open, closed unpaid or captured;
capture is one atomic step, allowed only for received money, never undone, and
late exactly when the sale was closed; journal and delivery follow it.
`ImplementsVerifiedPayment` maps the rows and effects to it and is checked as a
property of every behaviour of `ProviderCallbacks`.

**Inventory** and **Coupons** are the two services, one operator per
transaction. `unit[u]` is `stock_items.status`, `hold[k]` the row of
`stock_reservations` for checkout key `k` (a unique index gives a key one
reservation for ever, so a retried checkout gets its old one back in any state);
`coupon` holds `reserved_count` and `redeemed_count`, `slot[k]` the coupon
reservation. `ExpireReservation` and `ExpireReservations` are one turn of the two
expiry jobs; what a job has listed and not yet released is not state of its own,
because its release looks at the row again.

**StorefrontOrders** runs them as the code does: `CreateIntent` takes the coupon
slot, then the unit, then inserts the intent, then calls the provider; a failure
gives the holds back in separate transactions; `ExpireIntent`, `LookupProvider`
and the provider's events end the payment; `sideEffectsPaid` redeems, allocates
and grants. A goroutine does one transaction or provider call per step and may
die (`Die`) between any two. `qr[k]` is the provider's history of the QR
(`OPEN`, `EXPIRED`, `PAID`), of which lookups see the current state and events any entry.
The intent's own states are those of `PaymentRows`, folded to the five that the
holds depend on: `OPEN` is `REQUIRES_PAYMENT` or `PENDING`, `UNSURE` is
`EXPIRE_PENDING` or `UNKNOWN_OUTCOME`. `MarkUnknown` is the forced write of the
latter after a timeout. Two requests with one key share their reservations:
`Claimed` lets those that race with a claim of the last unit find it locked and
give the coupon back, `InsertIntent` the second one give back both. `Free` is the row lock an expiry event
keeps while it releases holds on other connections. Time is not modelled: a
key's reservations and QR share one `expires_at`, and it may have come at any
step, so an expiry job may take any reservation that is held.

**UnitSale** is what the stock promises: a unit is free, held for one checkout,
sold to the checkout it was held for, or withdrawn; sold stays sold.

**MerchantLedger** is one merchant's wallet. `Post` is `post_ledger_transaction`:
a journal is posted once (`ledger.posted`), a journal of source `MIXED` moves no
per-source row, and a ledger that would not `Fit` its CHECK constraints aborts
the transaction. `Refill` writes a lot without looking at it, as
`LedgerUpdateLotAfterRelease` does. The settlement job reads the due lots outside
any transaction and nothing keeps two ticks of it apart, so `ReleaseLot` may open
any lot that was pending once, whatever became of it since. Lots are numbered in
the order of `available_at`.

**Withdrawals** adds the requests. `wd[w]` is the row of `withdrawals` with its
allocations, `payout[w][e]` what endpoint `e` of the provider ever did about it,
`job[g]` where a goroutine is between two transactions and what it heard. The
FIFO allocation is stated by its result (`IsFifo`), a sum over lots by the
number of units of money it stands for (`Total` counts `Coins`), the provider call by
how it can end: answered, timed out (the only unknown outcome), unavailable or
refused, each of the middle two with or without a payout left behind. That a call
ended in an error other than a timeout stays in `payout` as `ERROR`, which no
step reads. `CallEndpoint` also has the fallback of the adapter: any error of
`/v2/payouts` is followed by a call of `/disbursements`.

**SellerWebhooks** has `delivery[d]` (status and attempt count), the outbox rows
by dedupe key (`Attempt(n)` is `...:a<n>`, `Wave(n)` the key of an
administrator's retry), `posts` and `accepted` at the endpoint, and goroutines
that carry the delivery they read (`seen`) and what they will write (`result`)
and forget both when they are done (`End`). The code drops the errors of
`UpdateDelivery` and `InsertOutbox` and goes on: `SaveFails` and `InsertFails` are
those, `ReadFails` a row that could not be read, which waits again or, after the
worker's twelve attempts, is `dead` (the attempts are not counted; any failure
may be the last). The three share the bound `MaxFaults`. `troubled` is history:
deliveries on which a goroutine died, wrote over a row it had not read, lost a
statement or lost the outbox row.

**JobLeases** is one job of the registry (each has a row of its own) and the
replicas that poll it. `lease` is the row of `job_leases` (`left` is
`lease_until - now`), `due[r]` the time to `nextDue`, `run[g]` a goroutine of
`executeJob`: in its batch (`running`) or about to mark the row (`ended`), with
its age. `Start`, `Refused` and `Missed` are the three outcomes of `TryAcquire`,
each with the `nextDue` of the tick; `Mark` is `MarkSuccess` and `MarkFailure`,
which free the row alike if it still has the run's name. A replica that drains
ends its batches, but can no longer mark them: the statement is given the
cancelled context. `Exit` is the end of a drain, the time limit of it or a kill.
`Tick` lets one unit of time pass, but not past a poll that is due nor past the
end of a run: a batch obeys its timeout within `Grace`, a mark takes at most
`MarkDelay`. `joined` is history: runs that ever shared their name with another
unfinished one. `quiet` counts how long no batch has been running.

## 3. What the runs show

| Run | Bounds | Result |
| --- | --- | --- |
| `callbacks_safety` | 1 intent, 2 events, 1 ingress handler, 1 replay, 1 worker, 1 fault; all three may die | rows agree between transactions, effects follow the settlement, holds are released on evidence only, PAID and the settlement are final, and the path implements `VerifiedPayment` |
| `callbacks_liveness` | 1 intent left `PENDING` or `UNKNOWN_OUTCOME`, 2 events, ingress handler that may die, surviving worker, 1 fault | accepted events are resolved, paid intents are booked and delivered |
| `callbacks_booking_lost` | 1 event, ingress handler and worker, which may die, 2 faults | **violated**: a paid intent whose row is left in `processing`, after a rollback of the other handler, is never booked |
| `system_safety` | 1 intent, 2 events, 1 ingress handler, 2 operations | a sale needs money, a paid order is settled, nobody who ends a payment frees the holds of a QR code that can still be paid, EXPIRED and CANCELLED are the provider's word, one settlement for ever |
| `system_paid_lost` | 1 intent, 1 event, 1 ingress handler, 1 operation | **violated**: `CreateIntent` forces PENDING over a payment whose PAID event was processed |
| `stock_safety` | 1 unit, 2 checkouts with coupon, 1 use, 2 goroutines, both expiry jobs, a revocation; no payment after expiry | units match reservations, counters match rows, only the paid are served, and the inventory implements `UnitSale` |
| `stock_sold_twice` | 1 unit, 2 checkouts without coupon, 1 goroutine | **violated**: two orders are granted one unit |
| `withdrawals_safety` | 2 lots of different sources, 2 withdrawals (one needs both lots), 2 goroutines, overlapping settlement ticks; timeouts, 5xx answers, refusals, success after failure for the larger withdrawal | the open lots cover the balance, what it covers has one FIFO allocation, nothing refused is sent, completion needs success, a timeout keeps the reserve |
| `withdrawals_sources_drift` | the same | **violated**: a withdrawal over both sources leaves the per-source balances above the wallet |
| `withdrawals_released_unasked` | the same, every failure a 5xx or broken connection | **violated**: the reserve goes back while the payout is being made |
| `webhooks` | 1 delivery of 3 attempts, 2 workers, 1 retry by an administrator, 1 failed read, write or insert | DELIVERED was accepted, requests are bounded, open deliveries have work and end unless something was lost of them |
| `job_leases` | 3 replicas, two of them under one name, 3 goroutines, cadence 2, timeout 2, lease 3, late marks, 1 failed statement | two names exclude each other, runs of a replica are spaced, failover is bounded, the job keeps running |

The five violated runs show the findings of `PROJECT.json`; each states what a
document or comment of the repository says. Two contrasts are worth reading
together. `PaidIsFinal` and `RowsAgree` hold of the callback path alone, for
which they are checked (and proved, section 5), and fail as soon as the checkout
writes the same rows without looking: the composition keeps only what
`system_safety` lists. In the composition the journal may also precede the
settlement (an intent forced to PAID makes an old processed event run its
effects), so `EffectsFollowSettlement` is not among them. And `PaidIsBooked`
holds with one fault because the outbox row or the inline call is a second
chance. It fails with two. In `callbacks_booking_lost` the ingress handler rolls
back while the worker holds the claimed row, and the worker commits PAID and dies
before the journal: the row has a lease, but no poll reads it
(`callback_worker.go:40`). With a worker that lives (`Crashable = {}`) two failed
posts do the same, because a logged error is not retried
(`callback_service.go:854`).

`PaidEventStands` says that a PAID event, once processed, leaves intent and order
PAID, and fails in two ways. In the run's trace `CreateIntent` forces PENDING over
a capture that came before it was done. The other way is that a lookup or an
expiry forced the intent to PAID before the event came: `finalizePaid` then
repairs the settlement and leaves the order unpaid (`callback_service.go:686`).

The same holds of the stock. `stock_safety` shows that the tables never
contradict each other and that `InventoryService` keeps the promise of
`UnitSale`; `stock_sold_twice` shows that the grant does not ask the inventory:
a unit released by the clock, or by the loser of two requests with one key, is
sold again, and the first payment is granted it all the same, although its
allocation failed.

For the reserve of a withdrawal, `TimeoutKeepsReserve` is what the code keeps: if
the first endpoint timed out, only a reported failure or a rejection gives the
reserve back, whatever the fallback answers. The documents ask for more
(`docs/BACKEND_PRODUCTION_TASKS.md:1098`, `TASK/05-ADMIN-CONSOLE.md:293`): a call
that may have reached the provider freezes the reserve. `ReleaseNeedsVerdict`
says that, and fails: a 5xx or a broken connection counts as a rejection
(`withdrawal_service.go:787`, `xendit/client.go:326`), so the reserve goes back
while the payout exists. `SourcesSumToBalance` is the acceptance matrix
(`docs/BACKEND_PRODUCTION_TASKS.md:4354`, "source breakdown sums to one
authoritative balance") and the code's own `VerifySourceTotalsSum`; it fails at
the first withdrawal over both sources, because a `MIXED` journal moves no source
row. The drift has a direction (`SourcesDriftUpward`, section 5): the sources add
up to more than the wallet, never to less. Nor is the breakdown for reporting only, as
`domain/ledger/allocation.go:11` says: `CoveredHasOneAllocation` shows that a
withdrawal the wallet covers finds its lots, but with `Reservable(w) # {}` in
place of `Allocations(w)`, and amounts of one unit each, TLC finds a request that
cannot be journalled. A second settlement tick has refilled a consumed STOREFRONT
lot, FIFO takes it, and the source row, which holds nothing, breaks its CHECK
(`migrations/000018_ledger.up.sql:250`).

Why these bounds. All interference between handlers goes through one intent row,
one event row and one outbox row: handlers of different intents share nothing.
One intent therefore shows every race; two events are the least with which types
meet (PAID and EXPIRED, two PAID, PAID and REVERSAL) and with which one event is
redelivered while another is processed. Three handlers, one of each kind, give
every pair of callers of `ProcessEvent`. `system_safety` uses two operations so
that an expiry overlaps a lookup or a creation; they are interchangeable and the
run uses that symmetry. They give the pairs the gateway adds as well: a
cancellation beside a lookup, an expiry, a creation or another cancellation, each
with callbacks in between (2.1 million states; `callbacks_safety` has 0.9
million, `withdrawals_safety` 1.4, `webhooks` and `stock_safety` 1.0 each).
`EndersKeepHolds` is about whoever ends a payment. It does not say that the holds
are still there: `HoldsEnd` may free them at any time, by the clock or for a lost
idempotency race, and `stock_sold_twice` shows what that leads to. It speaks of
intents that have a
provider reference: a create call that fails with a 5xx releases the holds of a
QR code that may exist (hazard at `checkout_service.go:604`), whose code the
buyer has not been shown.

For the stock, two checkouts and one unit are the least with which a unit can
pass from one to the other, and one coupon use the least with which the limit
binds; a third checkout adds no new pair of interfering transactions. Checkouts
are interchangeable, and goroutines are: the run uses both symmetries.
`LatePayment` is off in the runs: the duplicate sale is found without payments
after expiry, and the theorems cover both values. For withdrawals, one lot of each source and
amounts one and two give a single-source and a mixed allocation, a partial and
a full wallet, and a recapture that finds less than it needs; two goroutines
give an answer racing a lookup or a review. A success after a failure is
reported for one withdrawal only, the larger: it concerns no other, and the two
meet only in the wallet.
Each lot is one unit of money, so `PARTIALLY_CONSUMED` is not reached in the
runs (the theorems allow any amounts). `disbursements` is closed in the runs:
which endpoints serve an account is not in the repository, and a closed endpoint
answers with an error. For webhooks, deliveries share nothing but the time of
the workers, so one shows every race; three attempts are the least with a middle
one, whose number a stale write can repeat.

For the job leases, the third replica with a name of its own is the least with
which a lease is taken over while two runs share the other name, and three
goroutines let a replica overlap with itself and be joined by its namesake. A
timeout as long as the cadence makes that overlap happen; the lease is the
shortest the assumption allows, so it expires while an ended run is still to be
marked. `JobLeases` assumes of the times only what the registry keeps
(`Timeout + Grace < LeaseTTL`); the theorems hold for all of them.

## 4. Fairness

The callback path, the seller webhooks and the job leases have liveness
properties. For the callback path, assumed: a handler whose next
step is possible again and again takes it (`SF` on `ProcessEvent`: goroutines
are scheduled, and PostgreSQL queues lock waiters, so a row lock that keeps
coming free is eventually granted), and a row that stays claimable is claimed
(`SF` on `ClaimOutbox`: the worker polls for ever and takes rows oldest first).
Not assumed: that the provider redelivers, that the customer pays, that anybody
replays, that a fault happens or that a crashed handler's work is redone.

For the webhooks (`SellerWebhooks!Fairness`), assumed: a worker that has a row to
claim claims one (`WF` on `ClaimAny`: the runner ticks the job for ever), and a
goroutine comes to the end of what it is doing unless it dies (`WF` on
`Proceed`). `DeliveriesEnd` is conditional, since the code keeps no promise
without the condition: of a delivery on which a goroutine died the row stays in
`processing`; after a stale write the next outbox key may be taken; and after one
lost `UpdateDelivery` or `InsertOutbox`, whose errors are dropped, nothing is left
to drive it (`troubled`, which holds these deliveries and no others). What it
shows is that nothing else, no race of workers, retries and answers, stops a
delivery. Not
assumed: that the endpoint ever answers, or that an administrator retries.

For the job leases (`JobLeases!Fairness`), assumed: time passes (`WF` on `Tick`), a
replica whose job is due polls it (`WF` on `Poll`: the ticker's loop blocks on
nothing), a batch returns and its row is marked or fails to be (`WF` on `End` and
`Mark`: the context has a deadline). One replica, `Steady`, never stops; that the
others ever stop, or come back, is not assumed.

The stock and the withdrawals state no fairness: their jobs do not make what is
stuck move again (a payment without a reference, a payout that died in
`PROCESSING`), and no property here says they do.

## 5. What is proved

**Payments.** In `PaymentProofs`, `HoldProofs`, `AgreementProofs` and
`RefinementProofs`, for every set of intents, events, handlers and operations and every number of
faults, from the assumptions `IntentAssumption` (there is an
intent) and `CallbackAssumption` (there is an event, only handlers crash, intents
are left in open states, the fault bound is a natural number):

- `CallbackTypes`, `SystemTypes`: the type invariants, of the callback path and
  of the composition with checkout and gateway.
- `CallbackSaleNeedsPayment`, `SystemSaleNeedsPayment`: nothing of a sale exists
  without the customer's money, for the callback path alone and composed with
  checkout and gateway. `SaleNeedsPayment` is not inductive: that a commit may mark the
  intent paid depends on what the event being processed says. The invariant
  `Evidence` adds that every accepted event is authentic, that what an event
  says never changes, and that a handler about to capture or to run effects
  holds such an event; `OperationsKnow` adds that an operation about to force PAID,
  EXPIRED or CANCELLED heard it from the provider. One lemma per kind of step shows what it keeps.
- `SystemTerminalIsVerified`: an intent or order ends EXPIRED or CANCELLED only
  if the provider ended the payment so. It follows from the same invariant
  (`SystemEvidence`): `EndsAreKnown` says that an unpaid end which a step writes
  was there before or is among the provider's facts, and facts are never lost.
- `SystemPaidOrderIsSettled`, `SystemSettlementIsFinal`: in the composition an
  order is paid only together with its settlement, and a settlement is never
  rewritten. Only the capture writes settlements, and it keeps one it finds.
- `SystemEndersKeepHolds`: in the composition, nobody who ends a payment (a refused
  creation, an expiry, a lookup, an event) gives stock and coupon back while the QR
  can be paid. It is a statement about them and not about the holds, which the
  clock frees without asking (`HoldsEnd`). They release at two kinds of steps. After an end
  or a late answer, `ReleasersKnow` says that whoever is about to release knows the
  payment is over at the provider, and it stays over. After a rejected creation the
  payment may yet exist, so `EarlyReleases` says such an intent has no reference
  and nobody is left who would write one: `MakersAreAlone` adds that an intent is
  created by one operation, and has no reference until that one is done.
- `CallbackRowsAgree`, `CallbackEffectsFollowSettlement` (callback path): intent,
  order and settlement agree after every commit, and journal and delivery follow
  the settlement. A commit writes on the strength of what was read some steps
  before, so `Agreement` adds two things: transactions exclude each other on an
  intent (`TransactionsExclude`, the `FOR UPDATE` read), and what a handler read
  still holds (`Holds`: the intent is still open when a terminal event commits,
  still paid when its effects run). `IInv` is types, evidence and agreement.
  `QuietStep` covers every step that leaves the rows alone; `CommitPaidStep` and
  `CommitTerminalStep` are the two that do not.
- `CallbackPaidIsFinal`, `CallbackReleaseNeedsEvidence`: PAID and the settlement
  are never left, and holds go back only after an answer of the provider; both
  from `IInv` and from a classification of the steps (`CallbackStepKinds`).
- `CallbackImplementsVerifiedPayment`: the callback path implements
  `VerifiedPayment` (its safety part is the whole of it: `VerifiedPayment` states
  no fairness). A commit of a terminal event is `Close`; a commit of a PAID event
  is `Capture`, or a stutter if the intent was paid already; `Book`, `Deliver`
  and `Receive` are the effects and the customer's payment; everything else
  stutters.

**Stock and coupons.** `StorefrontProofs`, for any finite set of keys, any units,
goroutines, limit and late payments, from `KeysAssumption`,
`InventoryAssumption`, `CouponAssumption` and `StorefrontAssumption`:
`TypeCorrect`, `UnitsAgree`, `CountersAgree`, `ServedArePaid` and
`StockImplementsUnitSale`. The inductive invariant adds to these properties
`RowsAreWhole` (a reservation that exists has a unit) and `JobsKnow` (a goroutine
about to redeem, allocate or grant acts for a key whose QR was paid). Every
action is at most one transaction of each service: the lemma `Kinds` reduces
the whole next-state relation to `StockStep`, `CouponStep` and what they keep,
so that `UnitsAgree` and the refinement are argued over four inventory
transactions and `CountersAgree` over four coupon transactions. Cardinalities
change by one, by the theorems on finite sets.

**Withdrawals.** `WithdrawalProofs`, for any lots, amounts, sources, endpoints and
goroutines, from `LedgerAssumption` and `WithdrawalAssumption`: `TypeCorrect`
(no balance and no lot is ever negative), `RefusedStaysHome`,
`CompletionIsEarned` and `TimeoutsKeepReserves`, all without any hypothesis on how
calls fail or which endpoints serve the account. None is inductive: a step acts on what its goroutine heard earlier.
`JobsKnow` says what a goroutine at each point must have heard (`Warranted`),
`SentAreCleared` that only an approved withdrawal ever reached an endpoint, and
`RefsAreCleared` the same of one that has a provider reference.

`LotsAlwaysCover` and `SourcesDriftUpward`, for any wallet: the open lots, and the
balances by source, add up to at least what is available. So a reservation that the
balance allows finds the lots it needs, and `SourcesSumToBalance`, which is false,
fails in one direction only. Sums are cardinalities of sets of coins;
`TotalGrows`, `TotalAdds` and `TotalFills` say how the sum moves with one lot or
many. Neither property is inductive: they must survive a reserve that is given
back. The invariant `Funded` says that a lot holds something only while it is
open, never more than was captured, and opens only with its settlement posted, so
that opening it again adds nothing to the balance (`LotsAreSound`); and that a
withdrawal's allocation comes from settled lots and adds up to its amount
(`ReservesAreSound`). `LeftCovers` is the sum over lots. `GapCovers` is stronger
than the sum over sources: what the source rows have beyond the wallet is at
least the amounts of all withdrawals of source `MIXED` that may still be given back, since
such a release adds to the wallet and to no source. `KindOfStep` reduces the
next-state relation to a step of the ledger, a reservation, a reserve given back
and a completion; every other step leaves wallet, lots and reserves alone.

`CoveredIsAlwaysAllocated` adds that what the wallet covers has exactly one FIFO
allocation, so a request that passes the balance check is not refused for want
of lots and `IsFifo` determines what `AllocateWithdrawalFIFO` returns. It exists
because among the FIFO allocations of at most the amount one takes most, and one
that leaves something in the lots can take one unit more, from the oldest lot that
has it (`FifoGoesOn`); it is unique because on the oldest lot on which two of
them differ, the one that takes less takes nothing from younger lots
(`FifoIsLeast`). Both use the least element of a set of natural numbers, from the
well-foundedness of `<`, in place of an induction over the lots.

**Webhooks.** `WebhookProofs`, for any deliveries, workers, attempts and waves,
from `WebhookAssumption`: `TypeCorrect`, `DeliveredIsAccepted`, `PostsBounded`,
`OpenAlwaysHasWork`.
The bound needs a count: `Counted` says that the requests of a delivery are at
most the outbox rows claimed for it whose worker has posted or given up
(`Burnt`), `Owned` that two workers never hold one row, `Rooted` that a row exists only with its delivery, and `Truthful` that a
goroutine about to write DELIVERED posted and was answered.
`OpenAlwaysHasWork` (a delivery to be tried again has a row that waits or a
goroutine that works on it, unless somebody died, wrote over a row unread or lost a
statement on it)
depends on every insert finding its dedupe key free, and so on the history of each
key. `Worked` adds to it that no attempt has a row before its number is reached
(`RowsKeepUp`), that a worker that will try again counts one up and an administrator
none (`SavesAreNext`), and that whoever is about to insert finds the key unused and
is the only one who would use it (`InsertsAreNew`, `WavesAreNew`). `OpenHasWork`
itself is then argued once for all actions, in `WorkStaysBut`: a row stops waiting
only in the hands of a goroutine, and that goroutine leaves a row behind or has
nothing left to do.

**Job leases.** `JobLeaseProofs`, for any replicas, names, goroutines and times, from
`LeaseAssumption`: `TypeCorrect`, `LoneRunsExclude`, `RunsSpaced` and
`FailoverBounded`. The inductive invariant relates clocks: a lone run holds a
lease of at least `LeaseTTL` minus its age (`LoneRunsHold`), and a batch returns
before that is used up (`BatchesReturn`); the age of a replica's last run and the
time to its next poll make up a cadence (`DueIsLater`); the quiet and the rest of
the lease, or of the surviving replica's cadence, stay within the bound
(`QuietEnds`); `SharersKnow` makes `joined` complete. One more theorem has a
hypothesis on the constants and says what the lease is worth as deployed. With one
name for all, `TryAcquire` refuses nobody, ever
(`SharedNameExcludesNobody`), and one name is what `RunWorker` gives every
process (`"fersaku-worker"`, `cmd/worker/main.go:14`): the jobs of several
processes exclude each other only by what their batches lock, which is why the
models of the callback and webhook workers and of the settlement and expiry jobs
let runs overlap.

Model-checked only: the four liveness properties (`AcceptedIsResolved`,
`PaidIsBooked`, `DeliveriesEnd`, `JobKeepsRunning`), which are out of the prover's
reach. Every invariant and every action property of a passing run, and both
refinements, are theorems; of the five violated claims none is.

## 6. Not modelled, and why

Signature and token checks, parsing and formats (a rejected request never
reaches the modelled state); `available_at`, lease and lookup timestamps (no
guard on the modelled paths reads a lease; delays only postpone a step, and a
step may always be postponed); fees and amounts of payments (checked once at
processing, part of `matches`); `SimulatePayment`, disabled in production;
connection pool limits.

Gateway: API keys, capabilities, redirect origins, webhook endpoints and rate
limits (checked before the rows are written); idempotency records (the key is
unique within the transaction that inserts the intent, and a repeated request
returns the row it finds); the log of gateway events, which nothing reads back
into a decision. A cancellation that nobody finishes is in the model and in the
hazards (`checkout_service.go:929`); no property promises that it ends.

Stock: the import of units, reveal, invoices and access counters (each a single
row of its own), and the administrator's delivery commands; the automatic grant
is the one that races. Coupons: administration, discounts, and the limit per
customer, a second count taken under the same lock. Withdrawals: quotes before
they are consumed (a withdrawal is named by its quote, which is consumed in the
transaction that reserves), bank accounts, withdrawal locks, fees (they move no
account of the merchant), `CANCELLED`, which no code writes, and the freeze a
late success may set (`merchantFrozen`, `withdrawal_service.go:692-706`): it reads the
last twenty withdrawals only and lets the request pass when that read fails, so a
request it would stop may always be made. Webhooks: endpoints and secrets, and
dead-letter rows. Job leases: the
run-once mode (one pass over the registry), counters and last errors of the row,
`LeaseStore.Release` (nothing calls it), clocks of replicas that differ, and the
time `TryAcquire` itself takes; in the model it happens at the tick.

The components of section 1 without a module are listed in `PROJECT.json` with
the reason.

## 7. Plan

Built, in this order: callbacks, checkout, their composition, stock and coupons,
ledger and withdrawals, seller webhooks, the gateway within the composition, and
the job leases, each with its runs and its theorems.
What would come next:

1. **Reconciliation liveness**: which unresolved payments the lookup job does end
   (a provider reference and an operation it remembers) and which it cannot
   (`checkout_service.go:898` and `:929`), under the fairness of the job.
2. **Delivery**: the grant and the invoice as separate rows
   (`callback_service.go:898`), and the administrator's retry after
   `DELIVERY_FAILED`.
3. **Notifications**, with the shape of `SellerWebhooks`.

Nothing that a run checks of safety is left to prove over the existing modules.
What would be worth proving next are conditional forms of the violated claims:
which restriction of the program (no unconditional write after a capture, no
release of an open payment by the clock) makes each of them hold.
