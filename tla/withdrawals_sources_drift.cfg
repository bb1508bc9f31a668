\* The wallet and calls of withdrawals_safety: a withdrawal that needs both lots takes from
\* the wallet and from no source.
SPECIFICATION Spec
CONSTANTS
  d1 = d1
  d2 = d2
  Withdrawals <- MCWithdrawalIds
  NumLots = 2
  Original <- MCOriginal
  Source <- MCSource
  Immediate = {2}
  Goroutines = {g1, g2}
  Amount <- MCAmount
  Serving = {"payouts"}
  Faults = {"TIMEOUT", "UNAVAILABLE", "REFUSED"}
  LookupByExternal = FALSE
  LateSuccess = {d2}
INVARIANT SourcesSumToBalance
SYMMETRY WithdrawalSymmetry
\* Everything may be closed.
CHECK_DEADLOCK FALSE
