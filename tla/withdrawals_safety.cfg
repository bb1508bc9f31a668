\* Two withdrawals of one wallet, two goroutines, the settlement job; calls may fail in
\* every way, and of d2 the provider may report success after a failure.
SPECIFICATION Spec
CONSTANTS
  d1 = d1
  d2 = d2
  Withdrawals <- MCWithdrawalIds
  NumLots = 2
  Original <- MCOriginal
  Source <- MCSource
  Immediate = {2}
  Goroutines = {g1, g2}
  Amount <- MCAmount
  Serving = {"payouts"}
  Faults = {"TIMEOUT", "UNAVAILABLE", "REFUSED"}
  LookupByExternal = FALSE
  LateSuccess = {d2}
INVARIANTS TypeOK LotsCoverBalance CoveredHasOneAllocation RefusedIsNeverSent CompletionNeedsSuccess TimeoutKeepsReserve
SYMMETRY WithdrawalSymmetry
\* Everything may be closed.
CHECK_DEADLOCK FALSE
