---------------------------- MODULE MCStorefront ----------------------------
(***************************************************************************)
(* Two checkouts compete for one unit and for the last use of the coupon.  *)
(***************************************************************************)
EXTENDS StorefrontOrders, TLC

StorefrontSymmetry == Permutations(Goroutines) \cup Permutations(Keys)
=============================================================================
