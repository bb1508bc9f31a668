-------------------------- MODULE StorefrontOrders --------------------------
(***************************************************************************)
(* A storefront order of a code product, from checkout to the grant of the *)
(* code: CreateIntent takes a coupon slot and a stock unit, writes the     *)
(* intent and calls the provider; expiry, lookup and the provider's events *)
(* end the payment; a verified payment converts the slot, allocates the    *)
(* unit and grants the code.  Each of these is a transaction of its own,   *)
(* run one after the other by a goroutine that may die in between, while   *)
(* the two expiry jobs free what is past its time.  The payment's own      *)
(* states are those of CheckoutOperations and ProviderCallbacks, here      *)
(* reduced to what the holds depend on.                                    *)
(***************************************************************************)
EXTENDS Inventory, Coupons

CONSTANTS Goroutines,     \* HTTP requests, callback handlers and payment jobs
          NoKey,          \* the key of a goroutine at rest
          Discounted,     \* checkouts that carry the coupon code
          LatePayment     \* may a QR be paid after it has expired

ASSUME StorefrontAssumption ==
  /\ NoKey \notin Keys
  /\ Discounted \subseteq Keys
  /\ LatePayment \in BOOLEAN

VARIABLES intent,   \* payment_intents, one per key
          qr,       \* what ever became of the QR at the provider (external)
          grant,    \* keys whose order item has an ACTIVE delivery grant
          job       \* what each goroutine is doing

tables == <<unit, hold, coupon, slot, intent, grant>>
vars   == <<tables, qr, job>>

Status == {"NONE", "OPEN", "UNSURE", "CLOSED", "PAID"}
              \* OPEN: REQUIRES_PAYMENT, PENDING; UNSURE: EXPIRE_PENDING, UNKNOWN_OUTCOME
Step   == {"idle", "coupon", "stock", "intent", "create", "unknown", "hold_coupon", "expire", "lookup",
           "mark_paid", "reopen", "close", "drop_stock", "drop_coupon",
           "convert", "allocate", "grant"}
Reason == {"NONE", "LOSER", "REJECTED", "CONFIRMED", "EVENT"}   \* why holds are dropped

TypeOK ==
  /\ InventoryTypeOK
  /\ CouponTypeOK
  /\ intent \in [Keys -> [status : Status, ref : BOOLEAN]]
  /\ qr \in [Keys -> SUBSET {"OPEN", "EXPIRED", "PAID"}]
  /\ grant \subseteq Keys
  /\ job \in [Goroutines -> [at : Step, of : Keys \cup {NoKey}, why : Reason]]

At(g, s)   == job[g].at = s
Of(g)      == job[g].of
Go(g, s)   == job' = [job EXCEPT ![g].at = s]
GoWhy(g, s, r) == job' = [job EXCEPT ![g].at = s, ![g].why = r]
Start(g, s, k, r) == job' = [job EXCEPT ![g] = [at |-> s, of |-> k, why |-> r]]
Resting    == [at |-> "idle", of |-> NoKey, why |-> "NONE"]
Rest(g)    == job' = [job EXCEPT ![g] = Resting]

(* An expiry event holds the intent's row lock from before it drops the    *)
(* holds, on connections of their own, until it commits.                   *)
Free(g, k) == \A h \in Goroutines \ {g} : job[h].why = "EVENT" => job[h].of # k

SetStatus(k, s) == intent' = [intent EXCEPT ![k].status = s]

stockRows  == <<unit, hold>>
couponRows == <<coupon, slot>>

----------------------------------------------------------------------------
(* CreateIntent *)

Checkout(g, k) ==
  /\ At(g, "idle")
  /\ intent[k].status = "NONE"                   \* otherwise the intent is replayed
  /\ Start(g, IF k \in Discounted THEN "coupon" ELSE "stock", k, "NONE")
  /\ UNCHANGED <<tables, qr>>

ReserveCoupon(g) ==
  LET k == Of(g) IN
  /\ At(g, "coupon")
  /\ \/ TakeSlot(k) /\ Go(g, "stock")
     \/ slot[k] # "NONE" /\ UNCHANGED <<coupon, slot>> /\ Go(g, "stock")
     \/ slot[k] = "NONE" /\ GlobalLimitReached /\ UNCHANGED <<coupon, slot>> /\ Rest(g)
  /\ UNCHANGED <<stockRows, intent, qr, grant>>

(* Out of stock: the coupon reservation is given back.  So it goes with a  *)
(* request of the same key that finds the last unit locked by the one that *)
(* is claiming it, though the coupon is the other's as well.               *)
Outrun(g) == {h \in Goroutines \ {g} : At(h, "stock") /\ Of(h) = Of(g)}

Claimed(g, losers) ==
  job' = [h \in Goroutines |->
            IF h = g THEN [job[h] EXCEPT !.at = "intent"]
            ELSE IF h \in losers THEN [job[h] EXCEPT !.at = "drop_coupon", !.why = "LOSER"]
            ELSE job[h]]

ReserveStock(g) ==
  LET k == Of(g) IN
  /\ At(g, "stock")
  /\ \/ /\ ClaimUnit(k)
        /\ \E losers \in SUBSET Outrun(g) :
             /\ losers # {} => \A u \in Units : unit'[u] # "AVAILABLE"
             /\ Claimed(g, losers)
     \/ Replayed(k) /\ UNCHANGED stockRows /\ Go(g, "intent")
     \/ /\ ~Replayed(k)
        /\ \A u \in Units : unit[u] # "AVAILABLE"
        /\ UNCHANGED stockRows
        /\ GoWhy(g, "drop_coupon", "LOSER")
  /\ UNCHANGED <<couponRows, intent, qr, grant>>

(* Of two requests with one key the second loses here and, as after any    *)
(* error, gives back the reservations, which it shares with the first.     *)
InsertIntent(g) ==
  LET k == Of(g) IN
  /\ At(g, "intent")
  /\ \/ /\ intent[k].status = "NONE"
        /\ SetStatus(k, "OPEN")
        /\ Go(g, "create")
     \/ UNCHANGED intent /\ GoWhy(g, "drop_stock", "LOSER")
  /\ UNCHANGED <<stockRows, couponRows, qr, grant>>

(* CreateQRIS: created; unknown, when a timeout hides whether it was; or   *)
(* an error taken for a rejection, a 5xx among them.                       *)
CallCreate(g) ==
  LET k == Of(g)
      opened == [qr EXCEPT ![k] = @ \cup {"OPEN"}] IN
  /\ At(g, "create")
  /\ Free(g, k)
  /\ \/ /\ qr' = opened
        /\ intent' = [intent EXCEPT ![k] = [status |-> "OPEN", ref |-> TRUE]]
        /\ Rest(g)
     \/ /\ qr' = opened \/ UNCHANGED qr
        /\ UNCHANGED intent
        /\ Go(g, "unknown")
     \/ /\ qr' = opened \/ UNCHANGED qr
        /\ UNCHANGED intent
        /\ GoWhy(g, "drop_stock", "REJECTED")
  /\ UNCHANGED <<stockRows, couponRows, grant>>

(* UNKNOWN_OUTCOME is forced upon the row after a timeout of a creation or *)
(* an expiry, or when there is no reference to expire, whatever became of  *)
(* it meanwhile; then the coupon is held.                                  *)
MarkUnknown(g) ==
  /\ At(g, "unknown")
  /\ Free(g, Of(g))
  /\ SetStatus(Of(g), "UNSURE")
  /\ Go(g, "hold_coupon")
  /\ UNCHANGED <<stockRows, couponRows, qr, grant>>

(* Stock has nothing of the kind: it stays RESERVED. *)
HoldCoupon(g) ==
  /\ At(g, "hold_coupon")
  /\ HoldSlot(Of(g))
  /\ Rest(g)
  /\ UNCHANGED <<stockRows, intent, qr, grant>>

----------------------------------------------------------------------------
(* ExpireIntent and LookupProvider.  Their writes are forced: whatever the *)
(* row holds by then is overwritten.                                       *)

Expire(g, k) ==
  /\ At(g, "idle")
  /\ intent[k].status = "OPEN"
  /\ Free(g, k)
  /\ SetStatus(k, "UNSURE")
  /\ Start(g, IF intent[k].ref THEN "expire" ELSE "unknown", k, "NONE")
  /\ UNCHANGED <<stockRows, couponRows, qr, grant>>

CallExpire(g) ==
  LET k == Of(g)
      expired == [qr EXCEPT ![k] = @ \cup {"EXPIRED"}] IN
  /\ At(g, "expire")
  /\ \/ "PAID" \in qr[k] /\ UNCHANGED qr /\ Go(g, "mark_paid")
     \/ "PAID" \notin qr[k] /\ qr' = expired /\ GoWhy(g, "close", "CONFIRMED")
     \/ /\ UNCHANGED qr \/ ("PAID" \notin qr[k] /\ qr' = expired)     \* timeout
        /\ Go(g, "unknown")
     \/ UNCHANGED qr /\ Rest(g)                                       \* any other error
  /\ UNCHANGED tables

(* Only an intent with a provider reference can be looked up. *)
Lookup(g, k) ==
  /\ At(g, "idle")
  /\ intent[k].status = "UNSURE"
  /\ intent[k].ref
  /\ \/ "PAID" \in qr[k] /\ Start(g, "mark_paid", k, "NONE")
     \/ "PAID" \notin qr[k] /\ "EXPIRED" \in qr[k] /\ Start(g, "close", k, "CONFIRMED")
     \/ qr[k] = {"OPEN"} /\ Start(g, "reopen", k, "NONE")
  /\ UNCHANGED <<tables, qr>>

Reopen(g) ==
  /\ At(g, "reopen")
  /\ Free(g, Of(g))
  /\ SetStatus(Of(g), "OPEN")
  /\ Rest(g)
  /\ UNCHANGED <<stockRows, couponRows, qr, grant>>

(* PAID, and nothing else: the holds wait for the provider's event. *)
MarkPaid(g) ==
  /\ At(g, "mark_paid")
  /\ Free(g, Of(g))
  /\ SetStatus(Of(g), "PAID")
  /\ Rest(g)
  /\ UNCHANGED <<stockRows, couponRows, qr, grant>>

----------------------------------------------------------------------------
(* Giving the holds back: before the intent is closed after a rejection    *)
(* and inside the transaction of an expiry event, after it otherwise.      *)

Close(g) ==
  /\ At(g, "close")
  /\ Free(g, Of(g))
  /\ SetStatus(Of(g), "CLOSED")
  /\ IF job[g].why = "CONFIRMED" THEN Go(g, "drop_stock") ELSE Rest(g)
  /\ UNCHANGED <<stockRows, couponRows, qr, grant>>

DropStock(g) ==
  /\ At(g, "drop_stock")
  /\ ReleaseReservation(Of(g))
  /\ Go(g, "drop_coupon")
  /\ UNCHANGED <<couponRows, intent, qr, grant>>

DropCoupon(g) ==
  /\ At(g, "drop_coupon")
  /\ ReleaseSlot(Of(g))
  /\ IF job[g].why \in {"REJECTED", "EVENT"} THEN Go(g, "close") ELSE Rest(g)
  /\ UNCHANGED <<stockRows, intent, qr, grant>>

(* The provider says the QR expired, possibly long ago. *)
ExpiredEvent(g, k) ==
  /\ At(g, "idle")
  /\ "EXPIRED" \in qr[k]
  /\ intent[k].status \in {"OPEN", "UNSURE"}
  /\ Free(g, k)
  /\ Start(g, "drop_stock", k, "EVENT")
  /\ UNCHANGED <<tables, qr>>

----------------------------------------------------------------------------
(* The provider says the QR was paid: finalizePaid commits, then           *)
(* sideEffectsPaid; a repeated event runs the effects again.               *)

PaidOnAnyEvent(k) == qr[k] # {}         \* faulty: the event's type is not looked at
Settles(k)        == "PAID" \in qr[k]

PaidEvent(g, k) ==
  /\ At(g, "idle")
  /\ Settles(k)
  /\ intent[k].status # "NONE"
  /\ Free(g, k)
  /\ SetStatus(k, "PAID")
  /\ Start(g, "convert", k, "NONE")
  /\ UNCHANGED <<stockRows, couponRows, qr, grant>>

Convert(g) ==
  /\ At(g, "convert")
  /\ RedeemSlot(Of(g))
  /\ Go(g, "allocate")
  /\ UNCHANGED <<stockRows, intent, qr, grant>>

Allocate(g) ==
  /\ At(g, "allocate")
  /\ AllocateOnFulfillment(Of(g))
  /\ Go(g, "grant")
  /\ UNCHANGED <<couponRows, intent, qr, grant>>

(* ensureDeliveryGrant: the unit named in the order item, whatever came of *)
(* its allocation.                                                         *)
Grant(g) ==
  /\ At(g, "grant")
  /\ grant' = grant \cup {Of(g)}
  /\ Rest(g)
  /\ UNCHANGED <<stockRows, couponRows, intent, qr>>

Die(g) ==
  /\ ~At(g, "idle")
  /\ Rest(g)
  /\ UNCHANGED <<tables, qr>>

----------------------------------------------------------------------------
(* Buyers and the clock.  What is past its expires_at is not recorded: an  *)
(* action that needs time to have passed may happen at any time, and       *)
(* nothing is forbidden to what is overdue.                                *)

Pay(k) ==
  /\ "OPEN" \in qr[k]
  /\ "EXPIRED" \in qr[k] => LatePayment
  /\ qr' = [qr EXCEPT ![k] = @ \cup {"PAID"}]
  /\ UNCHANGED <<tables, job>>

LapseAtProvider(k) ==
  /\ qr[k] = {"OPEN"}
  /\ qr' = [qr EXCEPT ![k] = @ \cup {"EXPIRED"}]
  /\ UNCHANGED <<tables, job>>

ExpireStock ==
  /\ ExpireReservations
  /\ UNCHANGED <<couponRows, intent, qr, grant, job>>

ExpireCoupons ==
  /\ ExpireReservation
  /\ UNCHANGED <<stockRows, intent, qr, grant, job>>

Revoke(u) ==
  /\ RevokeItem(u)
  /\ UNCHANGED <<couponRows, intent, qr, grant, job>>

----------------------------------------------------------------------------

Init ==
  /\ InventoryInit
  /\ CouponInit
  /\ intent = [k \in Keys |-> [status |-> "NONE", ref |-> FALSE]]
  /\ qr = [k \in Keys |-> {}]
  /\ grant = {}
  /\ job = [g \in Goroutines |-> Resting]

GoroutineStep(g) ==
  \/ \E k \in Keys : \/ Checkout(g, k) \/ Expire(g, k) \/ Lookup(g, k)
                     \/ ExpiredEvent(g, k) \/ PaidEvent(g, k)
  \/ ReserveCoupon(g) \/ ReserveStock(g) \/ InsertIntent(g) \/ CallCreate(g)
  \/ MarkUnknown(g) \/ HoldCoupon(g) \/ CallExpire(g) \/ Reopen(g) \/ MarkPaid(g)
  \/ Close(g) \/ DropStock(g) \/ DropCoupon(g)
  \/ Convert(g) \/ Allocate(g) \/ Grant(g) \/ Die(g)

Next ==
  \/ \E g \in Goroutines : GoroutineStep(g)
  \/ \E k \in Keys : Pay(k) \/ LapseAtProvider(k)
  \/ ExpireStock
  \/ ExpireCoupons
  \/ \E u \in Units : Revoke(u)

Spec == Init /\ [][Next]_vars

----------------------------------------------------------------------------

Live(k)    == hold[k].status = "RESERVED"
Buyers(u)  == {k \in Keys : hold[k].unit = u /\ hold[k].status \in {"RESERVED", "DELIVERED"}}

(* ReserveStock, ReleaseReservation, AllocateOnFulfillment: units and      *)
(* reservations, updated apart by compare-and-set, tell one story: a       *)
(* RESERVED or DELIVERED unit has exactly one reservation of that status,  *)
(* and a live reservation has a unit, unless the seller revoked it.        *)
UnitsMatchReservations ==
  /\ \A u \in Units :
       /\ \A j, k \in Buyers(u) : j = k
       /\ unit[u] \in {"RESERVED", "DELIVERED"} =>
            \E k \in Buyers(u) : hold[k].status = unit[u]
       /\ unit[u] = "AVAILABLE" => Buyers(u) = {}
  /\ \A k \in Keys : hold[k].status = "DELIVERED" => unit[hold[k].unit] = "DELIVERED"

(* AdjustCouponCounters: however checkouts, payments and expiry race, the  *)
(* counters equal what the reservations and redemptions add up to, and     *)
(* together never pass max_total_uses.                                     *)
CountersMatchRows ==
  /\ coupon.reserved = Cardinality({k \in Keys : Holding(k)})
  /\ coupon.redeemed = Cardinality({k \in Keys : slot[k] = "CONSUMED"})
  /\ coupon.reserved + coupon.redeemed <= MaxUses

(* sideEffectsPaid: a unit is delivered, a coupon use consumed and a code  *)
(* granted only for a checkout the provider has been paid for.             *)
OnlyPaidOrdersAreServed ==
  \A k \in Keys :
    hold[k].status = "DELIVERED" \/ slot[k] = "CONSUMED" \/ k \in grant => "PAID" \in qr[k]

(* docs, "Atomic reservation/expiry prevents double delivery": a unit is   *)
(* granted to one order.                                                   *)
OneBuyerPerUnit ==
  \A j, k \in grant : hold[j].unit = hold[k].unit => j = k

(* The inventory is what UnitSale promises. *)
SaleState(u) == CASE unit[u] = "AVAILABLE" -> "FREE"
                  [] unit[u] = "RESERVED"  -> "HELD"
                  [] unit[u] = "DELIVERED" -> "SOLD"
                  [] unit[u] = "REVOKED"   -> "WITHDRAWN"

Sale == INSTANCE UnitSale
          WITH phase  <- [u \in Units |-> SaleState(u)],
               buyers <- [u \in Units |-> IF unit[u] = "REVOKED" THEN {} ELSE Buyers(u)]

(* InventoryService as a whole: a unit is held for one checkout at a time, *)
(* sold only to the checkout it is held for, and once sold stays sold.     *)
SaleIsKept == Sale!Spec
=============================================================================
