------------------------------ MODULE Coupons ------------------------------
(***************************************************************************)
(* application.CouponService: the use counters of one active coupon and    *)
(* the reservations checkouts hold on it, one per checkout key.  The       *)
(* redemption row is inserted with the CONSUMED state.  Every transaction  *)
(* that moves a counter locks the coupon row first.                        *)
(***************************************************************************)
EXTENDS CheckoutKeys, Integers

CONSTANTS MaxUses    \* max_total_uses

ASSUME CouponAssumption == MaxUses \in Nat

VARIABLES coupon,    \* reserved_count and redeemed_count
          slot       \* coupon_reservations.state

SlotState == {"NONE", "RESERVED", "HELD_UNKNOWN", "RELEASED", "CONSUMED"}

CouponTypeOK ==
  /\ coupon \in [reserved : Nat, redeemed : Nat]
  /\ slot \in [Keys -> SlotState]

Holding(k)  == slot[k] \in {"RESERVED", "HELD_UNKNOWN"}
SetSlot(k, s) == slot' = [slot EXCEPT ![k] = s]

(* AdjustCouponCounters: an update that would make a counter negative      *)
(* matches no row, and nobody looks.                                       *)
Adjust(reserved, redeemed) ==
  coupon' = IF coupon.reserved + reserved >= 0 /\ coupon.redeemed + redeemed >= 0
            THEN [reserved |-> coupon.reserved + reserved, redeemed |-> coupon.redeemed + redeemed]
            ELSE coupon

----------------------------------------------------------------------------
(* Reserve: as with stock, a key gets its reservation back in any state.   *)

GlobalLimitReached == coupon.reserved + coupon.redeemed >= MaxUses

TakeSlot(k) ==
  /\ slot[k] = "NONE"
  /\ ~GlobalLimitReached
  /\ SetSlot(k, "RESERVED")
  /\ Adjust(1, 0)

ReleaseSlot(k) ==
  IF Holding(k) THEN SetSlot(k, "RELEASED") /\ Adjust(-1, 0)
  ELSE UNCHANGED <<coupon, slot>>

(* MarkReservationHeldUnknown *)
HoldAsUnknown(k) ==            \* faulty: the intent's status, not the reservation's
  IF slot[k] = "RESERVED" THEN SetSlot(k, "UNKNOWN_OUTCOME") /\ UNCHANGED coupon
  ELSE UNCHANGED <<coupon, slot>>

HoldSlot(k) ==
  IF slot[k] = "RESERVED" THEN SetSlot(k, "HELD_UNKNOWN") /\ UNCHANGED coupon
  ELSE UNCHANGED <<coupon, slot>>

(* ConvertReservationToRedemption: a RELEASED reservation is refused. *)
RedeemWithoutSlot(k) ==        \* faulty: the reserved use is not given up
  IF Holding(k) THEN SetSlot(k, "CONSUMED") /\ Adjust(0, 1)
  ELSE UNCHANGED <<coupon, slot>>

RedeemSlot(k) ==
  IF Holding(k) THEN SetSlot(k, "CONSUMED") /\ Adjust(-1, 1)
  ELSE UNCHANGED <<coupon, slot>>

(* ExpireReservations: a run reads the due RESERVED rows, then releases    *)
(* each in a transaction that takes HELD_UNKNOWN as well.  Runs overlap    *)
(* and may be long, and any row was RESERVED at first: some run may by now *)
(* hold any row, whatever has become of it since it was read.              *)
ExpireReservation == \E k \in Keys : slot[k] # "NONE" /\ ReleaseSlot(k)

----------------------------------------------------------------------------

CouponInit ==
  /\ coupon = [reserved |-> 0, redeemed |-> 0]
  /\ slot = [k \in Keys |-> "NONE"]
=============================================================================
