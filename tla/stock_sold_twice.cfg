\* Two checkouts, one unit, no coupon; every payment is made in time.
SPECIFICATION Spec
CONSTANTS
  Units = {u1}
  Keys = {k1, k2}
  NoUnit = NoUnit
  NoKey = NoKey
  MaxUses = 0
  Goroutines = {g1}
  Discounted = {}
  LatePayment = FALSE
INVARIANTS OneBuyerPerUnit
\* Everything may be sold or closed.
CHECK_DEADLOCK FALSE
