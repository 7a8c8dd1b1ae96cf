\* Any counts in one answer; two overlapping requests on one window; two windows and plans.
SPECIFICATION Spec
CONSTANTS
  MaxTokens = 8
  short = short
  long = long
  Windows <- MCWindows
  LimitOf <- MCLimitOf
  LengthOf <- MCLengthOf
  Jitter = 0
  Horizon = 5
  Requests = {r1, r2}
  Plans = {"", "plus"}
  Offered <- MCOffered
  Shares = {0}
  Elsewhere = {60}
  Truths <- MCTruths
  Garbled <- MCGarbled
  Prices <- MCPrices
  MaxReports = 4
  MaxTime = 3
  MaxResets = 1
CONSTRAINT Bounded
SYMMETRY Symmetry
INVARIANTS PaidInFull PartsRecovered LatestAgrees PeriodsOrdered NoneInvented
