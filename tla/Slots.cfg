\* Three requests of two keys whose limits change under them, under fair handlers and a
\* host that completes its requests.
SPECIFICATION FairSpec
CONSTANTS
  Nil = Nil
  Keys = {k1, k2}
  Requests = {r1, r2, r3}
  Credentials = {c}
  Limits = {0, 1, 2}
INVARIANTS CountsHolders HeldInFlight
PROPERTIES SemaphoreSpec SlotsReturn
