\* What the code comment says of UsageSince, against late attempts and stale instants.
SPECIFICATION Spec
CONSTANTS
  Nil = Nil
  Keys = {k1}
  Plans = {p}
  Windows = {w}
  Requests = {r1, r2}
  Periods = {2}
  Anchors = {4}
  Limits = {1}
  Usages = {1}
  MaxCount = 1
  StartTime = 3
  MaxTime = 5
SYMMETRY Symmetry
INVARIANT UsageSinceExcludes
