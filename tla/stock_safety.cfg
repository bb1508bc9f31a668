\* Two checkouts, one unit, one coupon use; no payment after expiry.
SPECIFICATION Spec
CONSTANTS
  Units = {u1}
  Keys = {k1, k2}
  NoUnit = NoUnit
  NoKey = NoKey
  MaxUses = 1
  Goroutines = {g1, g2}
  Discounted = {k1, k2}
  LatePayment = FALSE
INVARIANTS TypeOK UnitsMatchReservations CountersMatchRows OnlyPaidOrdersAreServed
PROPERTIES SaleIsKept
SYMMETRY StorefrontSymmetry
\* Everything may be sold or closed.
CHECK_DEADLOCK FALSE
