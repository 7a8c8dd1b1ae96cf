\* Three credentials in turns and by weight; sessions of two keys on two pools.
SPECIFICATION Spec
CONSTANTS
  NoSession = NoSession
  Scopes = {s1, s2}
  Pools = {p1, p2}
  Sessions = {x}
  Credentials = {1, 2, 3}
  Strategies = {"round-robin", "weighted-round-robin", "fill-first"}
  Weights = {0, 1, 2}
  Priorities = {0, 1}
  TTL = 2
  MaxPools = 1
  MaxSessions = 2
  MaxCredits = 3
  MaxScore = 100
  MaxTime = 2
CONSTRAINT Bounded
SYMMETRY Symmetry
INVARIANTS SessionsStick NoneSkipped CreditsBalance
