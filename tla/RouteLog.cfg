\* Requests of one key whose rules change between its admission and its check.
SPECIFICATION Spec
CONSTANTS
  Nil = Nil
  Nobody = Nobody
  k1 = k1
  k2 = k2
  file = file
  configured1 = configured1
  p1 = p1
  p2 = p2
  m1 = m1
  m2 = m2
  Keys = {k1}
  RouteIDs = {}
  Models = {m1}
  Credentials = {file, configured1}
  Requests = {r1}
  MaxPending = 1
  Rules <- ModelRules
  HostIdentities <- MCHostIdentities
INVARIANT NotReachedUnselected
