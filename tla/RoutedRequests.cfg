\* Two keys and two rules; then requests of one key with a rule of its own.
SPECIFICATION BoundedSpec
CONSTANTS
  Nil = Nil
  Nobody = Nobody
  k1 = k1
  k2 = k2
  file = file
  configured1 = configured1
  p1 = p1
  p2 = p2
  m1 = m1
  m2 = m2
  Keys = {k1, k2}
  RouteIDs = {a}
  Models = {m1, m2}
  Credentials = {file, configured1}
  Requests = {r1}
  MaxPending = 1
  Rules <- MCRules
  HostIdentities <- MCHostIdentities
INVARIANTS BindingsResolve RestartKeepsDecisions DenyWins TrustedFromHost
PROPERTIES DeleteAsAnnounced AdmittedWasAllowed
