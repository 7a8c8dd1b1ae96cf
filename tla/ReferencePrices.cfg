\* Two calls, two managers of one database, three lists that may be published.
SPECIFICATION Spec
CONSTANTS
  m = m
  auto = auto
  r1 = r1
  r2 = r2
  x = x
  y = y
  Names <- NameSet
  Plain <- Same
  KeyOf <- Same
  TierOf <- Same
  AutoName = auto
  NoRates = NoRates
  NoPrice = NoPrice
  Calls = {c1, c2}
  Requested <- RequestedSet
  Lists <- ListSet
  OldList <- Published1
  CacheCapacity = 1
  StaleAfter = 1
  MissingAfter = 0
  BackoffUnit = 1
  BackoffCap = 2
  MaxManagers = 2
  MaxCalls = 2
  StartTime = 3
  MaxTime = 4
INVARIANTS LiveAgrees CacheInForce OneRefresh
PROPERTIES BackoffKept CallsReturn
