----------------------------- MODULE Inventory -----------------------------
(***************************************************************************)
(* application.InventoryService: the units of one code product and their   *)
(* reservations.  The unique index on product and idempotency key gives a  *)
(* checkout key one reservation for ever, so a reservation is named by its *)
(* key.  A transaction is one operator; its compare-and-set updates let it *)
(* read without locks.  Nothing writes HELD_UNKNOWN to a reservation.      *)
(***************************************************************************)
EXTENDS CheckoutKeys

CONSTANTS Units,    \* stock_items of the product, imported
          NoUnit    \* the unit of a reservation that does not exist

ASSUME InventoryAssumption == NoUnit \notin Units

VARIABLES unit,     \* stock_items.status
          hold      \* stock_reservations

UnitStatus == {"AVAILABLE", "RESERVED", "DELIVERED", "REVOKED"}
HoldRows   == [status : {"NONE", "RESERVED", "RELEASED", "DELIVERED"}, unit : Units \cup {NoUnit}]

InventoryTypeOK ==
  /\ unit \in [Units -> UnitStatus]
  /\ hold \in [Keys -> HoldRows]

----------------------------------------------------------------------------
(* ReserveStock: a key that has a reservation gets it back, in whatever    *)
(* state it is; otherwise a unit is claimed.                               *)

Replayed(k) == hold[k].status # "NONE"

ClaimUnit(k) ==
  /\ ~Replayed(k)
  /\ \E u \in Units :
       /\ unit[u] = "AVAILABLE"
       /\ unit' = [unit EXCEPT ![u] = "RESERVED"]
       /\ hold' = [hold EXCEPT ![k] = [status |-> "RESERVED", unit |-> u]]

(* ReleaseReservation and the loop of ExpireReservations: the unit goes    *)
(* back only if it is RESERVED still.                                      *)
ReleaseOnly(S) ==              \* faulty: the unit is forgotten
  /\ hold' = [k \in Keys |-> IF k \in S THEN [hold[k] EXCEPT !.status = "RELEASED"] ELSE hold[k]]
  /\ UNCHANGED unit

Release(S) ==
  /\ hold' = [k \in Keys |-> IF k \in S THEN [hold[k] EXCEPT !.status = "RELEASED"] ELSE hold[k]]
  /\ unit' = [u \in Units |->
                IF unit[u] = "RESERVED" /\ \E k \in S : hold[k].unit = u THEN "AVAILABLE"
                ELSE unit[u]]

ReleaseReservation(k) ==
  IF hold[k].status = "RESERVED" THEN Release({k}) ELSE UNCHANGED <<unit, hold>>

(* One transaction over a batch of due rows, which may be any by now; rows *)
(* another transaction has locked are skipped.  Neither order nor intent   *)
(* is looked at.                                                           *)
ExpireReservations ==
  \E S \in SUBSET {k \in Keys : hold[k].status = "RESERVED"} : S # {} /\ Release(S)

(* AllocateOnFulfillment, to be called with an existing reservation: from  *)
(* RESERVED or, failing that, from AVAILABLE; else nothing is written.     *)
AllocateReleased(k) ==         \* faulty: no look at the reservation's status
  LET u == hold[k].unit IN
  IF unit[u] \in {"RESERVED", "AVAILABLE"}
  THEN /\ unit' = [unit EXCEPT ![u] = "DELIVERED"]
       /\ hold' = [hold EXCEPT ![k].status = "DELIVERED"]
  ELSE UNCHANGED <<unit, hold>>

AllocateOnFulfillment(k) ==
  LET u == hold[k].unit IN
  IF hold[k].status = "RESERVED" /\ unit[u] \in {"RESERVED", "AVAILABLE"}
  THEN /\ unit' = [unit EXCEPT ![u] = "DELIVERED"]
       /\ hold' = [hold EXCEPT ![k].status = "DELIVERED"]
  ELSE UNCHANGED <<unit, hold>>

RevokeItem(u) ==
  /\ unit[u] \in {"AVAILABLE", "RESERVED"}
  /\ unit' = [unit EXCEPT ![u] = "REVOKED"]
  /\ UNCHANGED hold

----------------------------------------------------------------------------

InventoryInit ==
  /\ unit = [u \in Units |-> "AVAILABLE"]
  /\ hold = [k \in Keys |-> [status |-> "NONE", unit |-> NoUnit]]
=============================================================================
