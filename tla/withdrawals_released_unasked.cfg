\* The wallet of withdrawals_safety and a provider whose answer may be lost with a 5xx or
\* a broken connection.
SPECIFICATION Spec
CONSTANTS
  d1 = d1
  d2 = d2
  Withdrawals <- MCWithdrawalIds
  NumLots = 2
  Original <- MCOriginal
  Source <- MCSource
  Immediate = {2}
  Goroutines = {g1, g2}
  Amount <- MCAmount
  Serving = {"payouts"}
  Faults = {"UNAVAILABLE"}
  LookupByExternal = FALSE
  LateSuccess = {d2}
INVARIANT ReleaseNeedsVerdict
SYMMETRY WithdrawalSymmetry
\* Everything may be closed.
CHECK_DEADLOCK FALSE
