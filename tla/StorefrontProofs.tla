--------------------------- MODULE StorefrontProofs ---------------------------
(***************************************************************************)
(* The stock and the coupon of a storefront, for every number of units,    *)
(* checkouts and goroutines.  Each action does at most one transaction of  *)
(* InventoryService and one of CouponService; what has to be shown about   *)
(* the stock and the counters is shown of those transactions.              *)
(***************************************************************************)
EXTENDS StorefrontOrders, FiniteSetTheorems, TLAPS

(* What an action may do to the stock, and what to the coupon.             *)
StockStep ==
  \/ \E k \in Keys : ClaimUnit(k) \/ AllocateOnFulfillment(k)
  \/ \E S \in SUBSET {k \in Keys : hold[k].status = "RESERVED"} : Release(S)
  \/ \E u \in Units : RevokeItem(u)
  \/ UNCHANGED <<unit, hold>>

CouponStep ==
  \/ \E k \in Keys : TakeSlot(k) \/ ReleaseSlot(k) \/ HoldSlot(k) \/ RedeemSlot(k)
  \/ UNCHANGED <<coupon, slot>>

(* A reservation row names a unit as long as it is live or delivered.      *)
RowsAreWhole == \A k \in Keys : hold[k].status # "NONE" <=> hold[k].unit \in Units

----------------------------------------------------------------------------
(* Transactions keep the types.                                            *)

LEMMA StockTypes ==
  ASSUME InventoryTypeOK, RowsAreWhole, StockStep
  PROVE  InventoryTypeOK' /\ RowsAreWhole'
<1>1. ASSUME NEW k \in Keys, ClaimUnit(k) PROVE InventoryTypeOK' /\ RowsAreWhole'
  BY <1>1, InventoryAssumption
  DEF ClaimUnit, Replayed, InventoryTypeOK, RowsAreWhole, UnitStatus, HoldRows
<1>2. ASSUME NEW k \in Keys, AllocateOnFulfillment(k) PROVE InventoryTypeOK' /\ RowsAreWhole'
  BY <1>2, InventoryAssumption
  DEF AllocateOnFulfillment, InventoryTypeOK, RowsAreWhole, UnitStatus, HoldRows
<1>3. ASSUME NEW S \in SUBSET {k \in Keys : hold[k].status = "RESERVED"}, Release(S)
      PROVE  InventoryTypeOK' /\ RowsAreWhole'
  BY <1>3 DEF Release, InventoryTypeOK, RowsAreWhole, UnitStatus, HoldRows
<1>4. ASSUME NEW u \in Units, RevokeItem(u) PROVE InventoryTypeOK' /\ RowsAreWhole'
  BY <1>4 DEF RevokeItem, InventoryTypeOK, RowsAreWhole, UnitStatus, HoldRows
<1>5. CASE UNCHANGED <<unit, hold>>
  BY <1>5 DEF InventoryTypeOK, RowsAreWhole
<1>6. QED
  BY <1>1, <1>2, <1>3, <1>4, <1>5 DEF StockStep

CounterTypeOK == coupon \in [reserved : Nat, redeemed : Nat] /\ slot \in [Keys -> SlotState]

LEMMA AdjustType ==
  ASSUME coupon \in [reserved : Nat, redeemed : Nat], NEW r \in Int, NEW d \in Int, Adjust(r, d)
  PROVE  coupon' \in [reserved : Nat, redeemed : Nat]
BY DEF Adjust

LEMMA CouponTypes ==
  ASSUME CounterTypeOK, CouponStep
  PROVE  CounterTypeOK'
<1>1. ASSUME NEW k \in Keys, NEW s \in SlotState, SetSlot(k, s)
      PROVE  slot' \in [Keys -> SlotState]
  BY <1>1 DEF SetSlot, CounterTypeOK
<1>2. {"RESERVED", "RELEASED", "HELD_UNKNOWN", "CONSUMED"} \subseteq SlotState
  BY DEF SlotState
<1>3. ASSUME NEW k \in Keys, TakeSlot(k) PROVE CounterTypeOK'
  BY <1>1, <1>2, <1>3, AdjustType DEF TakeSlot, CounterTypeOK
<1>4. ASSUME NEW k \in Keys, ReleaseSlot(k) PROVE CounterTypeOK'
  BY <1>1, <1>2, <1>4, AdjustType DEF ReleaseSlot, CounterTypeOK
<1>5. ASSUME NEW k \in Keys, HoldSlot(k) PROVE CounterTypeOK'
  BY <1>1, <1>2, <1>5 DEF HoldSlot, CounterTypeOK
<1>6. ASSUME NEW k \in Keys, RedeemSlot(k) PROVE CounterTypeOK'
  BY <1>1, <1>2, <1>6, AdjustType DEF RedeemSlot, CounterTypeOK
<1>7. QED
  BY <1>3, <1>4, <1>5, <1>6 DEF CouponStep, CounterTypeOK

----------------------------------------------------------------------------
(* Transactions keep units and reservations together.                      *)

LEMMA StockAgreement ==
  ASSUME InventoryTypeOK, RowsAreWhole, UnitsMatchReservations, StockStep
  PROVE  UnitsMatchReservations'
<1>1. ASSUME NEW k \in Keys, ClaimUnit(k) PROVE UnitsMatchReservations'
  <2>1. PICK u \in Units : /\ unit[u] = "AVAILABLE"
                           /\ unit' = [unit EXCEPT ![u] = "RESERVED"]
                           /\ hold' = [hold EXCEPT ![k] = [status |-> "RESERVED", unit |-> u]]
    BY <1>1 DEF ClaimUnit
  <2>2. hold[k].status = "NONE" /\ hold[k].unit \notin Units
    BY <1>1 DEF ClaimUnit, Replayed, RowsAreWhole
  <2>3. Buyers(u) = {} /\ Buyers(u)' = {k}
    BY <2>1, <2>2 DEF Buyers, UnitsMatchReservations, InventoryTypeOK
  <2>4. \A v \in Units \ {u} : Buyers(v)' = Buyers(v) /\ unit'[v] = unit[v]
    BY <2>1, <2>2 DEF Buyers, InventoryTypeOK
  <2>5. hold'[k].status = "RESERVED" /\ unit'[u] = "RESERVED"
        /\ \A j \in Keys \ {k} : hold'[j] = hold[j]
    BY <2>1 DEF InventoryTypeOK
  <2>6. \A v \in Units \ {u} : k \notin Buyers(v)
    BY <2>2 DEF Buyers
  <2>7. \A j \in Keys : hold[j].status = "DELIVERED" => j # k /\ hold[j].unit # u
    BY <2>1, <2>2 DEF UnitsMatchReservations
  <2>8. QED
    BY <2>3, <2>4, <2>5, <2>6, <2>7 DEF UnitsMatchReservations, Buyers, RowsAreWhole
<1>2. ASSUME NEW k \in Keys, AllocateOnFulfillment(k), UNCHANGED <<unit, hold>> => FALSE
      PROVE  UnitsMatchReservations'
  <2> DEFINE u == hold[k].unit
  <2>1. /\ hold[k].status = "RESERVED"
        /\ unit[u] \in {"RESERVED", "AVAILABLE"}
        /\ unit' = [unit EXCEPT ![u] = "DELIVERED"]
        /\ hold' = [hold EXCEPT ![k].status = "DELIVERED"]
    BY <1>2 DEF AllocateOnFulfillment
  <2>2. u \in Units
    BY <2>1 DEF RowsAreWhole
  <2>3. k \in Buyers(u) /\ \A v \in Units : Buyers(v)' = Buyers(v)
    BY <2>1 DEF Buyers, InventoryTypeOK, HoldRows
  <2>4. /\ unit'[u] = "DELIVERED" /\ \A v \in Units \ {u} : unit'[v] = unit[v]
        /\ hold'[k].status = "DELIVERED" /\ hold'[k].unit = u
        /\ \A j \in Keys \ {k} : hold'[j] = hold[j]
    BY <2>1, <2>2 DEF InventoryTypeOK, HoldRows
  <2>5. \A v \in Units \ {u} : k \notin Buyers(v)
    BY DEF Buyers
  <2>6. \A v \in Units : Buyers(v) \subseteq Keys
    BY DEF Buyers
  <2>7. \A j \in Keys : hold[j].status = "DELIVERED" =>
                          hold[j].unit \in Units /\ unit[hold[j].unit] = "DELIVERED"
    BY DEF UnitsMatchReservations, RowsAreWhole
  <2>8. \A j \in Keys : hold'[j].status = "DELIVERED" => unit'[hold'[j].unit] = "DELIVERED"
    BY <2>4, <2>7
  <2>9. \A v \in Units \ {u} :
          /\ \A i, j \in Buyers(v) : i = j
          /\ unit[v] \in {"RESERVED", "DELIVERED"} => \E j \in Buyers(v) : hold[j].status = unit[v]
          /\ unit[v] = "AVAILABLE" => Buyers(v) = {}
    BY DEF UnitsMatchReservations
  <2>10. \A i, j \in Buyers(u) : i = j
    BY <2>2 DEF UnitsMatchReservations
  <2>11. \A v \in Units \ {u} : \A j \in Buyers(v) : hold'[j] = hold[j]
    BY <2>4, <2>5, <2>6
  <2>12. ASSUME NEW v \in Units
         PROVE  /\ \A i, j \in Buyers(v)' : i = j
                /\ unit'[v] \in {"RESERVED", "DELIVERED"} =>
                     \E j \in Buyers(v)' : hold'[j].status = unit'[v]
                /\ unit'[v] = "AVAILABLE" => Buyers(v)' = {}
    <3>1. CASE v = u
      BY <2>3, <2>4, <2>10, <3>1
    <3>2. CASE v # u
      BY <2>3, <2>4, <2>9, <2>11, <3>2
    <3>3. QED
      BY <3>1, <3>2
  <2>13. QED
    BY <2>8, <2>12 DEF UnitsMatchReservations
<1>3. ASSUME NEW S \in SUBSET {k \in Keys : hold[k].status = "RESERVED"}, Release(S)
      PROVE  UnitsMatchReservations'
  <2>1. /\ \A k \in S : hold'[k].status = "RELEASED"
        /\ \A k \in Keys \ S : hold'[k] = hold[k]
        /\ \A k \in Keys : hold'[k].unit = hold[k].unit
    BY <1>3 DEF Release, InventoryTypeOK, HoldRows
  <2>2. \A u \in Units : Buyers(u)' = Buyers(u) \ S
    BY <2>1 DEF Buyers
  <2>3. \A u \in Units : unit'[u] = IF unit[u] = "RESERVED" /\ \E k \in S : hold[k].unit = u
                                    THEN "AVAILABLE" ELSE unit[u]
    BY <1>3 DEF Release
  <2>4. ASSUME NEW u \in Units, unit[u] = "DELIVERED" PROVE Buyers(u) \cap S = {}
    BY <2>4 DEF UnitsMatchReservations, Buyers
  <2>5. ASSUME NEW u \in Units
        PROVE  /\ \A j, k \in Buyers(u)' : j = k
               /\ unit'[u] \in {"RESERVED", "DELIVERED"} =>
                    \E k \in Buyers(u)' : hold'[k].status = unit'[u]
               /\ unit'[u] = "AVAILABLE" => Buyers(u)' = {}
    <3>1. CASE unit[u] = "RESERVED" /\ \E k \in S : hold[k].unit = u
      <4>1. PICK k \in S : hold[k].unit = u
        BY <3>1
      <4>2. k \in Buyers(u)
        BY <4>1 DEF Buyers
      <4>3. Buyers(u) \subseteq S
        BY <4>2 DEF UnitsMatchReservations
      <4>4. QED
        BY <2>2, <2>3, <3>1, <4>3
    <3>2. CASE ~(unit[u] = "RESERVED" /\ \E k \in S : hold[k].unit = u)
      <4>1. unit'[u] = unit[u] /\ \A j, k \in Buyers(u) : j = k
        BY <2>3, <3>2 DEF UnitsMatchReservations
      <4>2. unit[u] \in {"RESERVED", "DELIVERED"} => Buyers(u) \cap S = {}
        BY <2>4, <3>2 DEF Buyers
      <4>3. unit[u] \in {"RESERVED", "DELIVERED"} => \E k \in Buyers(u) : hold[k].status = unit[u]
        BY DEF UnitsMatchReservations
      <4>4. unit[u] = "AVAILABLE" => Buyers(u) = {}
        BY DEF UnitsMatchReservations
      <4>5. Buyers(u) \subseteq Keys
        BY DEF Buyers
      <4>6. QED
        BY <2>1, <2>2, <4>1, <4>2, <4>3, <4>4, <4>5
    <3>3. QED
      BY <3>1, <3>2
  <2>6. ASSUME NEW k \in Keys, hold'[k].status = "DELIVERED"
        PROVE  unit'[hold'[k].unit] = "DELIVERED"
    <3>1. hold[k].status = "DELIVERED" /\ hold'[k].unit = hold[k].unit
      BY <2>1, <2>6
    <3>2. unit[hold[k].unit] = "DELIVERED" /\ hold[k].unit \in Units
      BY <3>1 DEF UnitsMatchReservations, RowsAreWhole
    <3>3. QED
      BY <2>3, <3>1, <3>2
  <2>7. QED
    BY <2>5, <2>6 DEF UnitsMatchReservations
<1>4. ASSUME NEW u \in Units, RevokeItem(u) PROVE UnitsMatchReservations'
  <2>1. /\ hold' = hold /\ unit[u] \in {"AVAILABLE", "RESERVED"}
        /\ unit'[u] = "REVOKED" /\ \A v \in Units \ {u} : unit'[v] = unit[v]
    BY <1>4 DEF RevokeItem, InventoryTypeOK
  <2>2. \A v \in Units : Buyers(v)' = Buyers(v)
    BY <2>1 DEF Buyers
  <2>3. \A k \in Keys : hold[k].status = "DELIVERED" =>
                          hold[k].unit \in Units /\ hold[k].unit # u
    BY <2>1 DEF UnitsMatchReservations, RowsAreWhole
  <2>4. QED
    BY <2>1, <2>2, <2>3 DEF UnitsMatchReservations
<1>5. CASE UNCHANGED <<unit, hold>>
  BY <1>5 DEF UnitsMatchReservations, Buyers
<1>6. QED
  BY <1>1, <1>2, <1>3, <1>4, <1>5 DEF StockStep

----------------------------------------------------------------------------
(* Transactions keep the counters in step with the rows.                   *)

Slots(s) == {k \in Keys : slot[k] \in s}
Used     == Slots({"RESERVED", "HELD_UNKNOWN"})
Spent    == Slots({"CONSUMED"})

CounterRows ==
  /\ coupon.reserved = Cardinality(Used)
  /\ coupon.redeemed = Cardinality(Spent)
  /\ coupon.reserved + coupon.redeemed <= MaxUses

LEMMA SlotSetsFinite ==
  /\ IsFiniteSet(Used) /\ Cardinality(Used) \in Nat
  /\ IsFiniteSet(Spent) /\ Cardinality(Spent) \in Nat
<1>1. Used \in SUBSET Keys /\ Spent \in SUBSET Keys
  BY DEF Used, Spent, Slots
<1>2. QED
  BY <1>1, KeysAssumption, FS_Subset, FS_CardinalityType

LEMMA CountersAsSets ==
  /\ CountersMatchRows <=> CounterRows
  /\ CountersMatchRows' <=> CounterRows'
<1>1. Used = {k \in Keys : Holding(k)} /\ Spent = {k \in Keys : slot[k] = "CONSUMED"}
  BY DEF Used, Spent, Slots, Holding
<1>2. /\ Used' = {k \in Keys : slot'[k] \in {"RESERVED", "HELD_UNKNOWN"}}
      /\ Spent' = {k \in Keys : slot'[k] = "CONSUMED"}
  BY DEF Used, Spent, Slots
<1>3. QED
  BY <1>1, <1>2 DEF CountersMatchRows, CounterRows, Holding

(* What taking k from a held set, or adding it, does to the count.         *)
LEMMA CountOfSlots ==
  ASSUME NEW S, IsFiniteSet(S), NEW k
  PROVE  /\ k \notin S => Cardinality(S \cup {k}) = Cardinality(S) + 1
         /\ k \in S => Cardinality(S \ {k}) = Cardinality(S) - 1 /\ Cardinality(S) >= 1
<1>1. Cardinality(S) \in Nat /\ (Cardinality(S) = 0 <=> S = {})
  BY FS_CardinalityType, FS_EmptySet
<1>2. Cardinality(S \cup {k}) = IF k \in S THEN Cardinality(S) ELSE Cardinality(S) + 1
  BY FS_AddElement
<1>3. Cardinality(S \ {k}) = IF k \in S THEN Cardinality(S) - 1 ELSE Cardinality(S)
  BY FS_RemoveElement
<1>4. QED
  BY <1>1, <1>2, <1>3

LEMMA CounterAgreement ==
  ASSUME CounterTypeOK, CountersMatchRows, CouponStep
  PROVE  CountersMatchRows'
<1>1. /\ coupon.reserved = Cardinality(Used) /\ coupon.redeemed = Cardinality(Spent)
      /\ coupon.reserved + coupon.redeemed <= MaxUses
      /\ coupon.reserved \in Nat /\ coupon.redeemed \in Nat
  BY CountersAsSets DEF CounterTypeOK, CounterRows
<1>2. SUFFICES CounterRows'
  BY CountersAsSets
<1>3. MaxUses \in Nat
  BY CouponAssumption
<1>4. ASSUME NEW k \in Keys, SetSlot(k, "RELEASED"), Holding(k)
      PROVE  Used' = Used \ {k} /\ Spent' = Spent /\ k \in Used
  BY <1>4 DEF SetSlot, Used, Spent, Slots, Holding, CounterTypeOK
<1>5. ASSUME NEW k \in Keys, TakeSlot(k) PROVE CounterRows'
  <2>1. slot[k] = "NONE" /\ SetSlot(k, "RESERVED") /\ Adjust(1, 0) /\ ~GlobalLimitReached
    BY <1>5 DEF TakeSlot
  <2>2. Used' = Used \cup {k} /\ Spent' = Spent /\ k \notin Used
    BY <2>1 DEF SetSlot, Used, Spent, Slots, CounterTypeOK
  <2>3. coupon' = [reserved |-> coupon.reserved + 1, redeemed |-> coupon.redeemed + 0]
        /\ coupon.reserved + coupon.redeemed < MaxUses
    BY <1>1, <1>3, <2>1 DEF Adjust, GlobalLimitReached
  <2>4. Cardinality(Used') = Cardinality(Used) + 1
    BY <2>2, CountOfSlots, SlotSetsFinite
  <2>5. QED
    BY <1>1, <1>3, <2>2, <2>3, <2>4 DEF CounterRows
<1>6. ASSUME NEW k \in Keys, ReleaseSlot(k), Holding(k) PROVE CounterRows'
  <2>1. Used' = Used \ {k} /\ Spent' = Spent /\ k \in Used
    BY <1>4, <1>6 DEF ReleaseSlot
  <2>2. Cardinality(Used') = Cardinality(Used) - 1 /\ Cardinality(Used) >= 1
    BY <2>1, CountOfSlots, SlotSetsFinite
  <2>3. coupon' = [reserved |-> coupon.reserved + (-1), redeemed |-> coupon.redeemed + 0]
    BY <1>1, <1>6, <2>2 DEF ReleaseSlot, Adjust
  <2>4. QED
    BY <1>1, <1>3, <2>1, <2>2, <2>3 DEF CounterRows
<1>7. ASSUME NEW k \in Keys, RedeemSlot(k), Holding(k) PROVE CounterRows'
  <2>1. SetSlot(k, "CONSUMED") /\ Adjust(-1, 1)
    BY <1>7 DEF RedeemSlot
  <2>2. Used' = Used \ {k} /\ Spent' = Spent \cup {k} /\ k \in Used /\ k \notin Spent
    BY <1>7, <2>1 DEF SetSlot, Used, Spent, Slots, Holding, CounterTypeOK
  <2>3. /\ Cardinality(Used') = Cardinality(Used) - 1 /\ Cardinality(Used) >= 1
        /\ Cardinality(Spent') = Cardinality(Spent) + 1
    BY <2>2, CountOfSlots, SlotSetsFinite
  <2>4. coupon' = [reserved |-> coupon.reserved + (-1), redeemed |-> coupon.redeemed + 1]
    BY <1>1, <2>1, <2>3 DEF Adjust
  <2>5. QED
    BY <1>1, <1>3, <2>2, <2>3, <2>4 DEF CounterRows
<1>8. ASSUME Used' = Used, Spent' = Spent, coupon' = coupon PROVE CounterRows'
  BY <1>1, <1>8 DEF CounterRows
<1>9. ASSUME NEW k \in Keys, HoldSlot(k) PROVE CounterRows'
  <2>1. Used' = Used /\ Spent' = Spent /\ coupon' = coupon
    BY <1>9 DEF HoldSlot, SetSlot, Used, Spent, Slots, CounterTypeOK
  <2>2. QED
    BY <1>8, <2>1
<1>10. CASE UNCHANGED <<coupon, slot>>
  BY <1>8, <1>10 DEF Used, Spent, Slots
<1>11. QED
  BY <1>5, <1>6, <1>7, <1>9, <1>10 DEF CouponStep, ReleaseSlot, RedeemSlot

----------------------------------------------------------------------------
(* Every action is at most one transaction of each service.                *)

(* A goroutine at work has a checkout, and one that serves a payment has   *)
(* seen the provider's word for it.                                        *)
JobsKnow ==
  \A g \in Goroutines :
    /\ job[g].at # "idle" => job[g].of \in Keys
    /\ job[g].at \in {"convert", "allocate", "grant"} => "PAID" \in qr[job[g].of]

LEMMA GoroutineKinds ==
  ASSUME JobsKnow, NEW g \in Goroutines, GoroutineStep(g)
  PROVE  StockStep /\ CouponStep
<1>1. ~At(g, "idle") => Of(g) \in Keys
  BY DEF JobsKnow, At, Of
<1>2. (\E k \in Keys : Checkout(g, k) \/ Expire(g, k) \/ Lookup(g, k) \/ ExpiredEvent(g, k)
                         \/ PaidEvent(g, k))
      => UNCHANGED <<unit, hold, coupon, slot>>
  BY DEF Checkout, Expire, Lookup, ExpiredEvent, PaidEvent, tables, stockRows, couponRows
<1>3. InsertIntent(g) \/ CallCreate(g) \/ MarkUnknown(g) \/ CallExpire(g) \/ Reopen(g) \/ MarkPaid(g) \/ Close(g)
        \/ Grant(g) \/ Die(g)
      => UNCHANGED <<unit, hold, coupon, slot>>
  BY DEF InsertIntent, CallCreate, MarkUnknown, CallExpire, Reopen, MarkPaid, Close, Grant, Die,
         tables, stockRows, couponRows
<1>4. CASE UNCHANGED <<unit, hold, coupon, slot>>
  BY <1>4 DEF StockStep, CouponStep
<1>5. CASE ReserveCoupon(g)
  <2>1. Of(g) \in Keys /\ UNCHANGED <<unit, hold>>
    BY <1>1, <1>5 DEF ReserveCoupon, At, stockRows
  <2>2. TakeSlot(Of(g)) \/ UNCHANGED <<coupon, slot>>
    BY <1>5 DEF ReserveCoupon
  <2>3. QED
    BY <2>1, <2>2 DEF StockStep, CouponStep
<1>6. CASE ReserveStock(g)
  <2>1. Of(g) \in Keys /\ UNCHANGED <<coupon, slot>>
    BY <1>1, <1>6 DEF ReserveStock, At, couponRows
  <2>2. ClaimUnit(Of(g)) \/ UNCHANGED <<unit, hold>>
    BY <1>6 DEF ReserveStock, stockRows
  <2>3. QED
    BY <2>1, <2>2 DEF StockStep, CouponStep
<1>7. CASE HoldCoupon(g)
  <2>1. Of(g) \in Keys /\ UNCHANGED <<unit, hold>> /\ HoldSlot(Of(g))
    BY <1>1, <1>7 DEF HoldCoupon, At, stockRows
  <2>2. QED
    BY <2>1 DEF StockStep, CouponStep
<1>8. CASE DropStock(g)
  <2>1. Of(g) \in Keys /\ UNCHANGED <<coupon, slot>> /\ ReleaseReservation(Of(g))
    BY <1>1, <1>8 DEF DropStock, At, couponRows
  <2>2. CASE hold[Of(g)].status = "RESERVED"
    <3>1. Release({Of(g)}) /\ {Of(g)} \in SUBSET {k \in Keys : hold[k].status = "RESERVED"}
      BY <2>1, <2>2 DEF ReleaseReservation
    <3>2. QED
      BY <2>1, <3>1 DEF StockStep, CouponStep
  <2>3. CASE hold[Of(g)].status # "RESERVED"
    BY <2>1, <2>3 DEF ReleaseReservation, StockStep, CouponStep
  <2>4. QED
    BY <2>2, <2>3
<1>9. CASE DropCoupon(g)
  <2>1. Of(g) \in Keys /\ UNCHANGED <<unit, hold>> /\ ReleaseSlot(Of(g))
    BY <1>1, <1>9 DEF DropCoupon, At, stockRows
  <2>2. QED
    BY <2>1 DEF StockStep, CouponStep
<1>10. CASE Convert(g)
  <2>1. Of(g) \in Keys /\ UNCHANGED <<unit, hold>> /\ RedeemSlot(Of(g))
    BY <1>1, <1>10 DEF Convert, At, stockRows
  <2>2. QED
    BY <2>1 DEF StockStep, CouponStep
<1>11. CASE Allocate(g)
  <2>1. Of(g) \in Keys /\ UNCHANGED <<coupon, slot>> /\ AllocateOnFulfillment(Of(g))
    BY <1>1, <1>11 DEF Allocate, At, couponRows
  <2>2. QED
    BY <2>1 DEF StockStep, CouponStep
<1>12. QED
  BY <1>2, <1>3, <1>4, <1>5, <1>6, <1>7, <1>8, <1>9, <1>10, <1>11 DEF GoroutineStep

LEMMA Kinds ==
  ASSUME TypeOK, JobsKnow, [Next]_vars
  PROVE  StockStep /\ CouponStep
<1>1. ASSUME NEW g \in Goroutines, GoroutineStep(g) PROVE StockStep /\ CouponStep
  BY <1>1, GoroutineKinds
<1>2. CASE \/ \E k \in Keys : Pay(k) \/ LapseAtProvider(k)
           \/ UNCHANGED vars
  BY <1>2 DEF Pay, LapseAtProvider, vars, tables, stockRows,
              StockStep, CouponStep
<1>3. CASE ExpireStock
  <2>1. UNCHANGED <<coupon, slot>>
    BY <1>3 DEF ExpireStock, couponRows
  <2>2. PICK S \in SUBSET {k \in Keys : hold[k].status = "RESERVED"} : Release(S)
    BY <1>3 DEF ExpireStock, ExpireReservations
  <2>3. QED
    BY <2>1, <2>2 DEF StockStep, CouponStep
<1>4. CASE ExpireCoupons
  BY <1>4 DEF ExpireCoupons, ExpireReservation, stockRows, StockStep, CouponStep
<1>5. ASSUME NEW u \in Units, Revoke(u) PROVE StockStep /\ CouponStep
  BY <1>5 DEF Revoke, couponRows, StockStep, CouponStep
<1>6. QED
  BY <1>1, <1>2, <1>3, <1>4, <1>5 DEF Next

----------------------------------------------------------------------------
(* Types.                                                                  *)

(* What the two services' lemmas say nothing about. *)
JobRows    == [Goroutines -> [at : Step, of : Keys \cup {NoKey}, why : Reason]]
IntentRows == [Keys -> [status : Status, ref : BOOLEAN]]

RestTypeOK ==
  /\ intent \in IntentRows
  /\ qr \in [Keys -> SUBSET {"OPEN", "EXPIRED", "PAID"}]
  /\ grant \subseteq Keys
  /\ job \in JobRows

LEMMA TypeParts == /\ TypeOK <=> InventoryTypeOK /\ CounterTypeOK /\ RestTypeOK
                   /\ TypeOK' <=> InventoryTypeOK' /\ CounterTypeOK' /\ RestTypeOK'
  BY DEF TypeOK, CouponTypeOK, CounterTypeOK, RestTypeOK, JobRows, IntentRows

(* Goroutine g goes to step s for checkout k, and the others stay.         *)
Moved(g, s, k) ==
  /\ job' \in JobRows
  /\ \A h \in Goroutines \ {g} : job'[h] = job[h]
  /\ job'[g].at = s
  /\ job'[g].of = k

LEMMA Moves ==
  ASSUME RestTypeOK, NEW g \in Goroutines
  PROVE  /\ \A s \in Step : Go(g, s) => Moved(g, s, Of(g))
         /\ \A s \in Step, r \in Reason : GoWhy(g, s, r) => Moved(g, s, Of(g))
         /\ \A s \in Step, k \in Keys, r \in Reason : Start(g, s, k, r) => Moved(g, s, k)
         /\ Rest(g) => Moved(g, "idle", NoKey)
         /\ \A k \in Keys, s \in Status : SetStatus(k, s) => intent' \in IntentRows
<1>1. \A s \in Step : Go(g, s) => Moved(g, s, Of(g))
  BY DEF Go, RestTypeOK, JobRows, Moved, Of
<1>2. \A s \in Step, r \in Reason : GoWhy(g, s, r) => Moved(g, s, Of(g))
  <2>1. SUFFICES ASSUME NEW s \in Step, NEW r \in Reason, GoWhy(g, s, r)
                 PROVE  Moved(g, s, Of(g))
    OBVIOUS
  <2>2. job \in JobRows /\ job' = [job EXCEPT ![g].at = s, ![g].why = r]
    BY <2>1 DEF GoWhy, RestTypeOK
  <2>3. job' = [job EXCEPT ![g] = [job[g] EXCEPT !.at = s, !.why = r]]
    BY <2>2 DEF JobRows
  <2>4. QED
    BY <2>2, <2>3 DEF JobRows, Moved, Of
<1>3. \A s \in Step, k \in Keys, r \in Reason : Start(g, s, k, r) => Moved(g, s, k)
  BY DEF Start, RestTypeOK, JobRows, Moved
<1>4. Rest(g) => Moved(g, "idle", NoKey)
  BY DEF Rest, Resting, RestTypeOK, Step, Reason, JobRows, Moved
<1>5. \A k \in Keys, s \in Status : SetStatus(k, s) => intent' \in IntentRows
  BY DEF SetStatus, RestTypeOK, IntentRows
<1>6. QED
  BY <1>1, <1>2, <1>3, <1>4, <1>5

(* A step of g that knows what it needs keeps what all goroutines know.    *)
PaymentsStay == \A k \in Keys : "PAID" \in qr[k] => "PAID" \in qr'[k]

Serving == {"convert", "allocate", "grant"}

LEMMA KnowsAfter ==
  ASSUME RestTypeOK, JobsKnow, PaymentsStay,
         NEW g \in Goroutines, NEW s, NEW k, Moved(g, s, k),
         s # "idle" => k \in Keys,
         s \in Serving => "PAID" \in qr[k]
  PROVE  JobsKnow'
<1>1. SUFFICES ASSUME NEW h \in Goroutines
               PROVE  /\ job'[h].at # "idle" => job'[h].of \in Keys
                      /\ job'[h].at \in Serving => "PAID" \in qr'[job'[h].of]
  BY DEF JobsKnow, Serving
<1>2. CASE h = g
  BY <1>2 DEF Moved, PaymentsStay, Serving
<1>3. CASE h # g
  BY <1>3 DEF Moved, PaymentsStay, JobsKnow, Serving
<1>4. QED
  BY <1>2, <1>3

(* The claim of a unit moves the goroutines it leaves without one, too.    *)
LEMMA ClaimMoves ==
  ASSUME RestTypeOK, NEW g \in Goroutines, At(g, "stock"),
         NEW losers \in SUBSET Outrun(g), Claimed(g, losers)
  PROVE  /\ job' \in JobRows
         /\ \A h \in Goroutines : /\ job'[h].of = job[h].of
                                  /\ job'[h].at \in Serving \cup {"idle"} => job'[h].at = job[h].at
                                  /\ job'[h].at # "idle" => job[h].at # "idle"
<1>1. ASSUME NEW h \in Goroutines
      PROVE  /\ job'[h] \in [at : Step, of : Keys \cup {NoKey}, why : Reason]
             /\ job'[h].of = job[h].of
             /\ job'[h] = job[h] \/ (job'[h].at \in {"intent", "drop_coupon"} /\ At(h, "stock"))
  <2>1. job[h] \in [at : Step, of : Keys \cup {NoKey}, why : Reason]
    BY DEF RestTypeOK, JobRows
  <2>2. CASE h = g
    BY <2>1, <2>2 DEF Claimed, Step
  <2>3. CASE h # g /\ h \in losers
    <3>1. job'[h] = [job[h] EXCEPT !.at = "drop_coupon", !.why = "LOSER"]
      BY <2>3 DEF Claimed
    <3>2. At(h, "stock")
      BY <2>3 DEF Outrun
    <3>3. QED
      BY <2>1, <3>1, <3>2 DEF Step, Reason
  <2>4. CASE h # g /\ h \notin losers
    <3>1. job'[h] = job[h]
      BY <2>4 DEF Claimed
    <3>2. QED
      BY <2>1, <3>1
  <2>5. QED
    BY <2>2, <2>3, <2>4
<1>2. job' \in JobRows
  BY <1>1 DEF Claimed, JobRows
<1>3. ASSUME NEW h \in Goroutines
      PROVE  /\ job'[h].at \in Serving \cup {"idle"} => job'[h].at = job[h].at
             /\ job'[h].at # "idle" => job[h].at # "idle"
  <2>1. CASE job'[h] = job[h]
    BY <2>1
  <2>2. CASE job'[h].at \in {"intent", "drop_coupon"} /\ At(h, "stock")
    BY <2>2 DEF At, Serving
  <2>3. QED
    BY <1>1, <2>1, <2>2
<1>4. QED
  BY <1>1, <1>2, <1>3

(* The goroutines' steps, apart from what they do to stock and coupon.     *)
LEMMA GoroutineStepKnows ==
  ASSUME RestTypeOK, JobsKnow, NEW g \in Goroutines, GoroutineStep(g)
  PROVE  RestTypeOK' /\ JobsKnow' /\ PaymentsStay
<1> DEFINE Fine == RestTypeOK' /\ JobsKnow' /\ PaymentsStay
<1> USE DEF Serving
<1>1. /\ ~At(g, "idle") => Of(g) \in Keys
      /\ At(g, "convert") \/ At(g, "allocate") \/ At(g, "grant") => "PAID" \in qr[Of(g)]
  BY DEF JobsKnow, At, Of
<1>2. qr' = qr => PaymentsStay
  BY DEF PaymentsStay
<1>3. ASSUME NEW s \in Step, NEW k, Moved(g, s, k), s # "idle" => k \in Keys,
             s \in Serving => "PAID" \in qr[k],
             intent' \in IntentRows,
             PaymentsStay, qr' \in [Keys -> SUBSET {"OPEN", "EXPIRED", "PAID"}],
             grant' \subseteq Keys
      PROVE  Fine
  BY <1>3, KnowsAfter DEF RestTypeOK, Moved
<1>4. ASSUME NEW k \in Keys, Checkout(g, k) PROVE Fine
  <2>1. \E s \in {"coupon", "stock"} : Moved(g, s, k)
    BY <1>4, Moves DEF Checkout, Step, Reason
  <2>2. QED
    BY <1>2, <1>3, <1>4, <2>1 DEF Checkout, tables, RestTypeOK, Step
<1>5. CASE ReserveCoupon(g)
  <2>1. Moved(g, "stock", Of(g)) \/ Moved(g, "idle", NoKey)
    BY <1>5, Moves DEF ReserveCoupon, Step
  <2>2. QED
    BY <1>1, <1>2, <1>3, <1>5, <2>1 DEF ReserveCoupon, stockRows, RestTypeOK, Step, At
<1>6. CASE ReserveStock(g)
  <2>1. CASE Moved(g, "intent", Of(g)) \/ Moved(g, "drop_coupon", Of(g))
    BY <1>1, <1>2, <1>3, <1>6, <2>1 DEF ReserveStock, couponRows, RestTypeOK, Step, At
  <2>2. ASSUME NEW losers \in SUBSET Outrun(g), Claimed(g, losers) PROVE Fine
    <3>1. /\ job' \in JobRows
          /\ \A h \in Goroutines : /\ job'[h].of = job[h].of
                                   /\ job'[h].at \in Serving \cup {"idle"} => job'[h].at = job[h].at
                                   /\ job'[h].at # "idle" => job[h].at # "idle"
      BY <1>6, <2>2, ClaimMoves DEF ReserveStock
    <3>2. UNCHANGED <<intent, qr, grant>>
      BY <1>6 DEF ReserveStock
    <3>3. JobsKnow'
      <4>1. SUFFICES ASSUME NEW h \in Goroutines
                     PROVE  /\ job'[h].at # "idle" => job'[h].of \in Keys
                            /\ job'[h].at \in Serving => "PAID" \in qr[job'[h].of]
        BY <3>2 DEF JobsKnow
      <4>2. /\ job[h].at # "idle" => job[h].of \in Keys
            /\ job[h].at \in Serving => "PAID" \in qr[job[h].of]
        BY DEF JobsKnow
      <4>3. /\ job'[h].of = job[h].of
            /\ job'[h].at \in Serving => job'[h].at = job[h].at
            /\ job'[h].at # "idle" => job[h].at # "idle"
        BY <3>1
      <4>4. QED
        BY <4>2, <4>3
    <3>4. QED
      BY <1>2, <3>1, <3>2, <3>3 DEF RestTypeOK
  <2>3. QED
    BY <1>6, <2>1, <2>2, Moves DEF ReserveStock, Step, Reason
<1>7. CASE InsertIntent(g)
  <2>1. Of(g) \in Keys
    BY <1>1, <1>7 DEF InsertIntent, At
  <2>2. /\ Moved(g, "create", Of(g)) \/ Moved(g, "drop_stock", Of(g))
        /\ intent' \in IntentRows
    BY <1>7, <2>1, Moves DEF InsertIntent, Step, Reason, Status, RestTypeOK
  <2>3. QED
    BY <1>2, <1>3, <1>7, <2>1, <2>2 DEF InsertIntent, couponRows, RestTypeOK, Step
<1>8. CASE CallCreate(g)
  <2>1. Of(g) \in Keys
    BY <1>1, <1>8 DEF CallCreate, At
  <2>2. Moved(g, "idle", NoKey) \/ Moved(g, "unknown", Of(g)) \/ Moved(g, "drop_stock", Of(g))
    BY <1>8, Moves DEF CallCreate, Step, Reason
  <2>3. intent' \in IntentRows
    <3>1. CASE intent' = [intent EXCEPT ![Of(g)] = [status |-> "OPEN", ref |-> TRUE]]
      BY <3>1 DEF Status, RestTypeOK, IntentRows
    <3>2. CASE UNCHANGED intent
      BY <3>2 DEF RestTypeOK
    <3>3. QED
      BY <1>8, <3>1, <3>2 DEF CallCreate
  <2>4. PaymentsStay /\ qr' \in [Keys -> SUBSET {"OPEN", "EXPIRED", "PAID"}]
    BY <1>8, <2>1 DEF CallCreate, PaymentsStay, RestTypeOK
  <2>5. QED
    BY <1>3, <1>8, <2>1, <2>2, <2>3, <2>4 DEF CallCreate, couponRows, RestTypeOK, Step
<1>9. CASE HoldCoupon(g)
  BY <1>2, <1>3, <1>9, Moves DEF HoldCoupon, stockRows, RestTypeOK, Step
<1>10. ASSUME NEW k \in Keys, Expire(g, k) PROVE Fine
  <2>1. /\ \E s \in {"expire", "unknown"} : Moved(g, s, k)
        /\ intent' \in IntentRows
    BY <1>10, Moves DEF Expire, Step, Reason, Status
  <2>2. QED
    BY <1>2, <1>3, <1>10, <2>1 DEF Expire, couponRows, RestTypeOK, Step
<1>11. CASE CallExpire(g)
  <2>1. Of(g) \in Keys
    BY <1>1, <1>11 DEF CallExpire, At
  <2>2. Moved(g, "idle", NoKey) \/ \E s \in {"mark_paid", "close", "unknown"} : Moved(g, s, Of(g))
    BY <1>11, Moves DEF CallExpire, Step, Reason
  <2>3. PaymentsStay /\ qr' \in [Keys -> SUBSET {"OPEN", "EXPIRED", "PAID"}]
    BY <1>11, <2>1 DEF CallExpire, PaymentsStay, RestTypeOK
  <2>4. QED
    BY <1>3, <1>11, <2>1, <2>2, <2>3 DEF CallExpire, tables, RestTypeOK, Step
<1>12. ASSUME NEW k \in Keys, Lookup(g, k) PROVE Fine
  <2>1. \E s \in {"mark_paid", "close", "reopen"} : Moved(g, s, k)
    BY <1>12, Moves DEF Lookup, Step, Reason
  <2>2. QED
    BY <1>2, <1>3, <1>12, <2>1 DEF Lookup, tables, RestTypeOK, Step
<1>13. CASE MarkUnknown(g) \/ Reopen(g) \/ MarkPaid(g) \/ Close(g)
  <2>1. Of(g) \in Keys
    BY <1>1, <1>13 DEF MarkUnknown, Reopen, MarkPaid, Close, At
  <2>2. /\ Moved(g, "idle", NoKey) \/ \E s \in {"hold_coupon", "drop_stock"} : Moved(g, s, Of(g))
        /\ intent' \in IntentRows
    BY <1>13, <2>1, Moves DEF MarkUnknown, Reopen, MarkPaid, Close, Step, Status
  <2>3. QED
    BY <1>2, <1>3, <1>13, <2>1, <2>2
       DEF MarkUnknown, Reopen, MarkPaid, Close, couponRows, RestTypeOK, Step
<1>14. CASE DropStock(g)
  <2>1. Of(g) \in Keys
    BY <1>1, <1>14 DEF DropStock, At
  <2>2. QED
    BY <1>2, <1>3, <1>14, <2>1, Moves DEF DropStock, couponRows, RestTypeOK, Step
<1>15. CASE DropCoupon(g)
  <2>1. Of(g) \in Keys
    BY <1>1, <1>15 DEF DropCoupon, At
  <2>2. Moved(g, "idle", NoKey) \/ Moved(g, "close", Of(g))
    BY <1>15, Moves DEF DropCoupon, Step
  <2>3. QED
    BY <1>2, <1>3, <1>15, <2>1, <2>2 DEF DropCoupon, stockRows, RestTypeOK, Step
<1>16. ASSUME NEW k \in Keys, ExpiredEvent(g, k) PROVE Fine
  <2>1. Moved(g, "drop_stock", k)
    BY <1>16, Moves DEF ExpiredEvent, Step, Reason
  <2>2. QED
    BY <1>2, <1>3, <1>16, <2>1 DEF ExpiredEvent, tables, RestTypeOK, Step
<1>17. ASSUME NEW k \in Keys, PaidEvent(g, k) PROVE Fine
  <2>1. Moved(g, "convert", k) /\ intent' \in IntentRows
    BY <1>17, Moves DEF PaidEvent, Step, Reason, Status
  <2>2. QED
    BY <1>2, <1>3, <1>17, <2>1 DEF PaidEvent, Settles, couponRows, RestTypeOK, Step
<1>18. CASE Convert(g)
  <2>1. Of(g) \in Keys /\ "PAID" \in qr[Of(g)]
    BY <1>1, <1>18 DEF Convert, At
  <2>2. QED
    BY <1>2, <1>3, <1>18, <2>1, Moves DEF Convert, stockRows, RestTypeOK, Step
<1>19. CASE Allocate(g)
  <2>1. Of(g) \in Keys /\ "PAID" \in qr[Of(g)]
    BY <1>1, <1>19 DEF Allocate, At
  <2>2. QED
    BY <1>2, <1>3, <1>19, <2>1, Moves DEF Allocate, couponRows, RestTypeOK, Step
<1>20. CASE Grant(g)
  <2>1. Of(g) \in Keys
    BY <1>1, <1>20 DEF Grant, At
  <2>2. QED
    BY <1>2, <1>3, <1>20, <2>1, Moves DEF Grant, couponRows, RestTypeOK, Step
<1>21. CASE Die(g)
  BY <1>2, <1>3, <1>21, Moves DEF Die, tables, RestTypeOK, Step
<1>22. QED
  BY <1>4, <1>5, <1>6, <1>7, <1>8, <1>9, <1>10, <1>11, <1>12, <1>13, <1>14, <1>15, <1>16,
     <1>17, <1>18, <1>19, <1>20, <1>21 DEF GoroutineStep

----------------------------------------------------------------------------
(* The inductive invariant.  The rows are whole and agree because each     *)
(* transaction leaves them so; what is served is paid because goroutines   *)
(* know it before they serve.                                              *)
IInv ==
  /\ TypeOK
  /\ RowsAreWhole
  /\ JobsKnow
  /\ UnitsMatchReservations
  /\ CountersMatchRows
  /\ OnlyPaidOrdersAreServed

LEMMA IInvInit == Init => IInv
<1>1. SUFFICES ASSUME Init PROVE IInv
  OBVIOUS
<1>2. /\ unit = [u \in Units |-> "AVAILABLE"]
      /\ hold = [k \in Keys |-> [status |-> "NONE", unit |-> NoUnit]]
      /\ coupon = [reserved |-> 0, redeemed |-> 0]
      /\ slot = [k \in Keys |-> "NONE"]
      /\ intent = [k \in Keys |-> [status |-> "NONE", ref |-> FALSE]]
      /\ qr = [k \in Keys |-> {}] /\ grant = {}
      /\ job = [g \in Goroutines |-> [at |-> "idle", of |-> NoKey, why |-> "NONE"]]
  BY <1>1 DEF Init, InventoryInit, CouponInit, Resting
<1>3. InventoryTypeOK /\ RowsAreWhole
  BY <1>2, InventoryAssumption DEF InventoryTypeOK, RowsAreWhole, UnitStatus, HoldRows
<1>4. CounterTypeOK /\ RestTypeOK
  BY <1>2 DEF CounterTypeOK, RestTypeOK, SlotState, JobRows, IntentRows, Status, Step, Reason
<1>5. JobsKnow
  BY <1>2 DEF JobsKnow
<1>6. UnitsMatchReservations
  BY <1>2 DEF UnitsMatchReservations, Buyers
<1>7. CountersMatchRows
  <2>1. Used = {} /\ Spent = {}
    BY <1>2 DEF Used, Spent, Slots
  <2>2. QED
    BY <1>2, <2>1, CountersAsSets, FS_EmptySet, CouponAssumption DEF CounterRows
<1>8. OnlyPaidOrdersAreServed
  BY <1>2 DEF OnlyPaidOrdersAreServed
<1>9. QED
  BY <1>3, <1>4, <1>5, <1>6, <1>7, <1>8, TypeParts DEF IInv

(* What is served in a step is served by a goroutine that may.             *)
LEMMA PaidIsServed ==
  ASSUME TypeOK, JobsKnow, OnlyPaidOrdersAreServed, PaymentsStay, [Next]_vars
  PROVE  OnlyPaidOrdersAreServed'
<1> DEFINE Served(k) == hold[k].status = "DELIVERED" \/ slot[k] = "CONSUMED" \/ k \in grant
<1>1. SUFFICES ASSUME NEW k \in Keys, Served(k)' PROVE Served(k) \/ "PAID" \in qr[k]
  BY DEF OnlyPaidOrdersAreServed, PaymentsStay
<1>2. ASSUME NEW g \in Goroutines, At(g, "convert") \/ At(g, "allocate") \/ At(g, "grant")
      PROVE  Of(g) \in Keys /\ "PAID" \in qr[Of(g)]
  BY <1>2 DEF JobsKnow, At, Of
<1>3. ASSUME NEW g \in Goroutines, Convert(g) PROVE Served(k) \/ "PAID" \in qr[k]
  <2>1. Of(g) \in Keys /\ "PAID" \in qr[Of(g)]
    BY <1>2, <1>3 DEF Convert
  <2>2. k # Of(g) => slot'[k] = slot[k]
    BY <1>3, <2>1 DEF Convert, RedeemSlot, SetSlot, TypeOK, CouponTypeOK
  <2>3. hold' = hold /\ grant' = grant
    BY <1>3 DEF Convert, stockRows
  <2>4. QED
    BY <1>1, <2>1, <2>2, <2>3
<1>4. ASSUME NEW g \in Goroutines, Allocate(g) PROVE Served(k) \/ "PAID" \in qr[k]
  <2>1. Of(g) \in Keys /\ "PAID" \in qr[Of(g)]
    BY <1>2, <1>4 DEF Allocate
  <2>2. k # Of(g) => hold'[k] = hold[k]
    BY <1>4, <2>1 DEF Allocate, AllocateOnFulfillment, TypeOK, InventoryTypeOK
  <2>3. slot' = slot /\ grant' = grant
    BY <1>4 DEF Allocate, couponRows
  <2>4. QED
    BY <1>1, <2>1, <2>2, <2>3
<1>5. ASSUME NEW g \in Goroutines, Grant(g) PROVE Served(k) \/ "PAID" \in qr[k]
  <2>1. Of(g) \in Keys /\ "PAID" \in qr[Of(g)]
    BY <1>2, <1>5 DEF Grant
  <2>2. QED
    BY <1>1, <1>5, <2>1 DEF Grant, stockRows, couponRows
<1>6. ASSUME NEW j \in Keys, ReleaseSlot(j) \/ HoldSlot(j) \/ TakeSlot(j)
      PROVE  slot'[k] = "CONSUMED" => slot[k] = "CONSUMED"
  BY <1>6 DEF ReleaseSlot, HoldSlot, TakeSlot, SetSlot, TypeOK, CouponTypeOK
<1>7. ASSUME NEW S, Release(S) PROVE hold'[k].status = "DELIVERED" => hold[k].status = "DELIVERED"
  BY <1>7 DEF Release, TypeOK, InventoryTypeOK, HoldRows
<1>8. ASSUME NEW j \in Keys, ClaimUnit(j)
      PROVE  hold'[k].status = "DELIVERED" => hold[k].status = "DELIVERED"
  BY <1>8 DEF ClaimUnit, TypeOK, InventoryTypeOK
<1>9. ASSUME NEW g \in Goroutines, GoroutineStep(g) PROVE Served(k) \/ "PAID" \in qr[k]
  <2>1. ~At(g, "idle") => Of(g) \in Keys
    BY DEF JobsKnow, At, Of
  <2>2. CASE UNCHANGED <<hold, slot, grant>>
    BY <1>1, <2>2
  <2>3. (\E j \in Keys : Checkout(g, j) \/ Expire(g, j) \/ Lookup(g, j) \/ ExpiredEvent(g, j)
                           \/ PaidEvent(g, j))
        => UNCHANGED <<hold, slot, grant>>
    BY DEF Checkout, Expire, Lookup, ExpiredEvent, PaidEvent, tables, stockRows, couponRows
  <2>4. InsertIntent(g) \/ CallCreate(g) \/ MarkUnknown(g) \/ CallExpire(g) \/ Reopen(g) \/ MarkPaid(g) \/ Close(g)
          \/ Die(g)
        => UNCHANGED <<hold, slot, grant>>
    BY DEF InsertIntent, CallCreate, MarkUnknown, CallExpire, Reopen, MarkPaid, Close, Die,
           tables, stockRows, couponRows
  <2>5. CASE ReserveCoupon(g) \/ HoldCoupon(g) \/ DropCoupon(g)
    <3>1. Of(g) \in Keys /\ UNCHANGED <<hold, grant>>
      BY <2>1, <2>5 DEF ReserveCoupon, HoldCoupon, DropCoupon, At, stockRows
    <3>2. slot'[k] = "CONSUMED" => slot[k] = "CONSUMED"
      BY <1>6, <2>5, <3>1 DEF ReserveCoupon, HoldCoupon, DropCoupon
    <3>3. QED
      BY <1>1, <3>1, <3>2
  <2>6. CASE ReserveStock(g) \/ DropStock(g)
    <3>1. Of(g) \in Keys /\ UNCHANGED <<slot, grant>>
      BY <2>1, <2>6 DEF ReserveStock, DropStock, At, couponRows
    <3>2. hold'[k].status = "DELIVERED" => hold[k].status = "DELIVERED"
      BY <1>7, <1>8, <2>6, <3>1 DEF ReserveStock, DropStock, ReleaseReservation, stockRows
    <3>3. QED
      BY <1>1, <3>1, <3>2
  <2>7. QED
    BY <1>3, <1>4, <1>5, <1>9, <2>2, <2>3, <2>4, <2>5, <2>6 DEF GoroutineStep
<1>10. CASE \/ \E j \in Keys : Pay(j) \/ LapseAtProvider(j)
            \/ \E u \in Units : Revoke(u)
            \/ UNCHANGED vars
  BY <1>1, <1>10 DEF Pay, LapseAtProvider, Revoke, RevokeItem,
                     vars, tables, stockRows, couponRows
<1>11. CASE ExpireStock
  <2>1. hold'[k].status = "DELIVERED" => hold[k].status = "DELIVERED"
    BY <1>7, <1>11 DEF ExpireStock, ExpireReservations
  <2>2. QED
    BY <1>1, <1>11, <2>1 DEF ExpireStock, couponRows
<1>12. CASE ExpireCoupons
  <2>1. slot'[k] = "CONSUMED" => slot[k] = "CONSUMED"
    BY <1>6, <1>12 DEF ExpireCoupons, ExpireReservation
  <2>2. QED
    BY <1>1, <1>12, <2>1 DEF ExpireCoupons, stockRows
<1>13. QED
  BY <1>9, <1>10, <1>11, <1>12 DEF Next

LEMMA OtherStepsKnow ==
  ASSUME RestTypeOK, JobsKnow,
         \/ \E k \in Keys : Pay(k) \/ LapseAtProvider(k)
         \/ ExpireStock \/ ExpireCoupons
         \/ \E u \in Units : Revoke(u)
         \/ UNCHANGED vars
  PROVE  RestTypeOK' /\ JobsKnow' /\ PaymentsStay
<1>1. UNCHANGED <<intent, grant, job>>
  BY DEF Pay, LapseAtProvider, ExpireStock, ExpireCoupons, Revoke,
         vars, tables
<1>2. PaymentsStay /\ qr' \in [Keys -> SUBSET {"OPEN", "EXPIRED", "PAID"}]
  BY DEF Pay, LapseAtProvider, ExpireStock, ExpireCoupons, Revoke,
         vars, RestTypeOK, PaymentsStay
<1>3. JobsKnow'
  BY <1>1, <1>2 DEF JobsKnow, PaymentsStay
<1>4. QED
  BY <1>1, <1>2, <1>3 DEF RestTypeOK

LEMMA IInvStep == IInv /\ [Next]_vars => IInv'
<1>1. SUFFICES ASSUME IInv, [Next]_vars PROVE IInv'
  OBVIOUS
<1>2. StockStep /\ CouponStep
  BY <1>1, Kinds DEF IInv
<1>3. InventoryTypeOK' /\ RowsAreWhole' /\ UnitsMatchReservations'
  BY <1>1, <1>2, StockTypes, StockAgreement, TypeParts DEF IInv
<1>4. CounterTypeOK' /\ CountersMatchRows'
  BY <1>1, <1>2, CouponTypes, CounterAgreement, TypeParts DEF IInv
<1>5. RestTypeOK' /\ JobsKnow' /\ PaymentsStay
  BY <1>1, GoroutineStepKnows, OtherStepsKnow, TypeParts DEF IInv, Next
<1>6. OnlyPaidOrdersAreServed'
  BY <1>1, <1>5, PaidIsServed DEF IInv
<1>7. QED
  BY <1>3, <1>4, <1>5, <1>6, TypeParts DEF IInv

LEMMA Invariance == Spec => []IInv
  BY IInvInit, IInvStep, PTL DEF Spec

(* Every variable of stock, coupon, orders and goroutines keeps its type.  *)
THEOREM TypeCorrect == Spec => []TypeOK
  BY Invariance, PTL DEF IInv

(* ReserveStock, ReleaseReservation, AllocateOnFulfillment, RevokeItem and *)
(* the TTL job: a unit taken has one reservation of its status, a free one *)
(* none, however many checkouts and goroutines race.                       *)
THEOREM UnitsAgree == Spec => []UnitsMatchReservations
  BY Invariance, PTL DEF IInv

(* AdjustCouponCounters: the counters are what reservations and            *)
(* redemptions add up to, and the coupon is never used too often.          *)
THEOREM CountersAgree == Spec => []CountersMatchRows
  BY Invariance, PTL DEF IInv

(* sideEffectsPaid: nothing is delivered, redeemed or granted before the   *)
(* provider was paid.                                                      *)
THEOREM ServedArePaid == Spec => []OnlyPaidOrdersAreServed
  BY Invariance, PTL DEF IInv

----------------------------------------------------------------------------
(* The refinement: each transaction on the stock is one step of UnitSale.  *)

Phases == [u \in Units |-> SaleState(u)]
Shown  == [u \in Units |-> IF unit[u] = "REVOKED" THEN {} ELSE Buyers(u)]

SaleStep == Sale!Next \/ UNCHANGED Sale!vars

LEMMA SaleInit == Init => Sale!Init
<1>1. SUFFICES ASSUME Init PROVE Sale!Init
  OBVIOUS
<1>2. /\ unit = [u \in Units |-> "AVAILABLE"]
      /\ hold = [k \in Keys |-> [status |-> "NONE", unit |-> NoUnit]]
  BY <1>1 DEF Init, InventoryInit
<1>3. \A u \in Units : SaleState(u) = "FREE" /\ Buyers(u) = {}
  BY <1>2 DEF SaleState, Buyers
<1>4. Phases = [u \in Units |-> "FREE"] /\ Shown = [u \in Units |-> {}]
  BY <1>2, <1>3 DEF Phases, Shown
<1>5. QED
  BY <1>4 DEF Sale!Init, Phases, Shown

LEMMA SaleStepOfStock == IInv /\ StockStep => SaleStep
<1>1. SUFFICES ASSUME IInv, StockStep PROVE SaleStep
  OBVIOUS
<1> USE DEF SaleStep
<1>2. InventoryTypeOK /\ RowsAreWhole /\ UnitsMatchReservations
  BY <1>1, TypeParts DEF IInv
<1>3. ASSUME NEW k \in Keys, ClaimUnit(k) PROVE SaleStep
  <2>1. PICK u \in Units : /\ unit[u] = "AVAILABLE"
                           /\ unit' = [unit EXCEPT ![u] = "RESERVED"]
                           /\ hold' = [hold EXCEPT ![k] = [status |-> "RESERVED", unit |-> u]]
    BY <1>3 DEF ClaimUnit
  <2>2. hold[k].unit \notin Units
    BY <1>2, <1>3 DEF ClaimUnit, Replayed, RowsAreWhole
  <2>3. Buyers(u) = {} /\ Buyers(u)' = {k}
    BY <1>2, <2>1, <2>2 DEF Buyers, UnitsMatchReservations, InventoryTypeOK
  <2>4. \A v \in Units \ {u} : Buyers(v)' = Buyers(v) /\ unit'[v] = unit[v]
    BY <1>2, <2>1, <2>2 DEF Buyers, InventoryTypeOK
  <2>5. unit'[u] = "RESERVED"
    BY <1>2, <2>1 DEF InventoryTypeOK
  <2>6. SaleState(u) = "FREE" /\ SaleState(u)' = "HELD"
    BY <2>1, <2>5 DEF SaleState
  <2>7. \A v \in Units \ {u} : SaleState(v)' = SaleState(v)
    BY <2>4 DEF SaleState
  <2>8. Phases[u] = "FREE" /\ Phases' = [Phases EXCEPT ![u] = "HELD"]
    BY <2>6, <2>7 DEF Phases
  <2>9. Shown' = [Shown EXCEPT ![u] = {k}]
    BY <2>3, <2>4, <2>5 DEF Shown
  <2>10. Sale!Hold(u, k)
    BY <2>8, <2>9 DEF Sale!Hold, Phases, Shown
  <2>11. QED
    BY <2>10 DEF Sale!Next
<1>4. ASSUME NEW k \in Keys, AllocateOnFulfillment(k) PROVE SaleStep
  <2>1. CASE UNCHANGED <<unit, hold>>
    BY <2>1 DEF Sale!vars, SaleState, Buyers
  <2>2. CASE ~UNCHANGED <<unit, hold>>
    <3>1. hold[k].status = "RESERVED" /\ hold[k].unit \in Units
      BY <1>2, <1>4, <2>2 DEF AllocateOnFulfillment, RowsAreWhole
    <3>2. PICK u \in Units : /\ hold[k].unit = u
                             /\ unit[u] \in {"RESERVED", "AVAILABLE"}
                             /\ unit' = [unit EXCEPT ![u] = "DELIVERED"]
                             /\ hold' = [hold EXCEPT ![k].status = "DELIVERED"]
      BY <1>4, <2>2, <3>1 DEF AllocateOnFulfillment
    <3>3. k \in Buyers(u) /\ \A v \in Units : Buyers(v)' = Buyers(v)
      BY <1>2, <3>1, <3>2 DEF Buyers, InventoryTypeOK, HoldRows
    <3>4. unit[u] = "RESERVED"
      BY <1>2, <3>1, <3>2, <3>3 DEF UnitsMatchReservations
    <3>5. unit'[u] = "DELIVERED" /\ \A v \in Units \ {u} : unit'[v] = unit[v]
      BY <1>2, <3>2 DEF InventoryTypeOK
    <3>6. /\ SaleState(u) = "HELD" /\ SaleState(u)' = "SOLD"
          /\ \A v \in Units \ {u} : SaleState(v)' = SaleState(v)
      BY <3>4, <3>5 DEF SaleState
    <3>7. Phases[u] = "HELD" /\ Phases' = [Phases EXCEPT ![u] = "SOLD"]
      BY <3>2, <3>6 DEF Phases
    <3>8. Shown' = Shown
      BY <3>3, <3>4, <3>5 DEF Shown
    <3>9. Sale!Sell(u)
      BY <3>7, <3>8 DEF Sale!Sell, Phases, Shown
    <3>10. QED
      BY <3>2, <3>9 DEF Sale!Next
  <2>3. QED
    BY <2>1, <2>2
<1>5. ASSUME NEW S \in SUBSET {k \in Keys : hold[k].status = "RESERVED"}, Release(S)
      PROVE  SaleStep
  <2>0. PICK T : T = {v \in Units : unit[v] = "RESERVED" /\ \E k \in S : hold[k].unit = v}
    OBVIOUS
  <2>1. /\ \A k \in S : hold'[k].status = "RELEASED"
        /\ \A k \in Keys \ S : hold'[k] = hold[k]
        /\ \A k \in Keys : hold'[k].unit = hold[k].unit
    BY <1>2, <1>5 DEF Release, InventoryTypeOK, HoldRows
  <2>2. \A u \in Units : Buyers(u)' = Buyers(u) \ S
    BY <2>1 DEF Buyers
  <2>3. \A u \in Units : unit'[u] = IF u \in T THEN "AVAILABLE" ELSE unit[u]
    BY <1>5, <2>0 DEF Release
  <2>4. ASSUME NEW u \in T PROVE Buyers(u) \subseteq S
    <3>1. PICK k \in S : hold[k].unit = u
      BY <2>0
    <3>2. k \in Buyers(u)
      BY <3>1 DEF Buyers
    <3>3. QED
      BY <1>2, <2>0, <3>2 DEF UnitsMatchReservations
  <2>5. ASSUME NEW u \in Units \ T, unit[u] # "REVOKED" PROVE Buyers(u) \cap S = {}
    <3>1. unit[u] \in {"AVAILABLE", "RESERVED", "DELIVERED"}
      BY <1>2, <2>5 DEF InventoryTypeOK, UnitStatus
    <3>2. CASE unit[u] = "DELIVERED"
      BY <1>2, <3>2 DEF UnitsMatchReservations, Buyers
    <3>3. CASE unit[u] = "AVAILABLE"
      BY <1>2, <3>3 DEF UnitsMatchReservations
    <3>4. CASE unit[u] = "RESERVED"
      BY <2>0, <3>4 DEF Buyers
    <3>5. QED
      BY <3>1, <3>2, <3>3, <3>4
  <2>6. \A u \in Units : SaleState(u)' = IF u \in T THEN "FREE" ELSE SaleState(u)
    <3>1. ASSUME NEW u \in T PROVE SaleState(u)' = "FREE"
      BY <2>0, <2>3, <3>1 DEF SaleState
    <3>2. ASSUME NEW u \in Units \ T PROVE SaleState(u)' = SaleState(u)
      BY <2>3, <3>2 DEF SaleState
    <3>3. QED
      BY <3>1, <3>2
  <2>7. \A u \in T : Phases[u] = "HELD"
    BY <2>0 DEF Phases, SaleState
  <2>8. Phases' = [u \in Units |-> IF u \in T THEN "FREE" ELSE Phases[u]]
    BY <2>6 DEF Phases
  <2>9. Shown' = [u \in Units |-> IF u \in T THEN {} ELSE Shown[u]]
    <3>1. ASSUME NEW u \in T PROVE Shown'[u] = {} /\ u \in Units
      BY <2>0, <2>2, <2>3, <2>4, <3>1 DEF Shown
    <3>2. ASSUME NEW u \in Units \ T PROVE Shown'[u] = Shown[u]
      BY <2>2, <2>3, <2>5, <3>2 DEF Shown
    <3>3. QED
      BY <3>1, <3>2 DEF Shown
  <2>10. Sale!LetGo(T)
    BY <2>7, <2>8, <2>9 DEF Sale!LetGo, Phases, Shown
  <2>11. QED
    BY <2>0, <2>10 DEF Sale!Next
<1>6. ASSUME NEW u \in Units, RevokeItem(u) PROVE SaleStep
  <2>1. /\ hold' = hold /\ unit[u] \in {"AVAILABLE", "RESERVED"}
        /\ unit'[u] = "REVOKED" /\ \A v \in Units \ {u} : unit'[v] = unit[v]
    BY <1>2, <1>6 DEF RevokeItem, InventoryTypeOK
  <2>2. \A v \in Units : Buyers(v)' = Buyers(v)
    BY <2>1 DEF Buyers
  <2>3. /\ SaleState(u) \in {"FREE", "HELD"} /\ SaleState(u)' = "WITHDRAWN"
        /\ \A v \in Units \ {u} : SaleState(v)' = SaleState(v)
    BY <2>1 DEF SaleState
  <2>4. Phases[u] \in {"FREE", "HELD"} /\ Phases' = [Phases EXCEPT ![u] = "WITHDRAWN"]
    BY <2>3 DEF Phases
  <2>5. Shown' = [Shown EXCEPT ![u] = {}]
    BY <2>1, <2>2 DEF Shown
  <2>6. Sale!Withdraw(u)
    BY <2>4, <2>5 DEF Sale!Withdraw, Phases, Shown
  <2>7. QED
    BY <2>6 DEF Sale!Next
<1>7. CASE UNCHANGED <<unit, hold>>
  BY <1>7 DEF Sale!vars, SaleState, Buyers
<1>8. QED
  BY <1>1, <1>3, <1>4, <1>5, <1>6, <1>7 DEF StockStep

(* InventoryService keeps the promise of UnitSale: whatever checkouts,     *)
(* payments and jobs do, a unit is sold only to the checkout it is held    *)
(* for, and stays sold.                                                    *)
THEOREM StockImplementsUnitSale == Spec => SaleIsKept
<1>1. IInv /\ [Next]_vars => StockStep
  BY Kinds DEF IInv
<1>2. IInv /\ [Next]_vars => [Sale!Next]_(Sale!vars)
  BY <1>1, SaleStepOfStock DEF SaleStep
<1>3. QED
  BY <1>2, Invariance, SaleInit, PTL DEF Spec, SaleIsKept, Sale!Spec
=============================================================================
