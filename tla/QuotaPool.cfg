\* Two keys of one plan that may be shared, two reset schedules.
SPECIFICATION Spec
CONSTANTS
  Nil = Nil
  Keys = {k1, k2}
  Plans = {p}
  Windows = {w}
  Requests = {r1}
  Periods = {2}
  Anchors = {4, 5}
  Limits = {1}
  Usages = {1}
  MaxCount = 1
  StartTime = 3
  MaxTime = 6
SYMMETRY Symmetry
INVARIANTS Loadable PoolBacksMembers SameReset
PROPERTIES PoolKeepsUsage
