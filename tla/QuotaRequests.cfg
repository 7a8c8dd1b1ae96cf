\* Two requests of one key at once, in every mode of its plan.
SPECIFICATION Spec
CONSTANTS
  Nil = Nil
  Keys = {k1}
  Plans = {p}
  Windows = {w}
  Requests = {r1, r2}
  Periods = {2}
  Anchors = {0, 4}
  Limits = {2}
  Usages = {1, 2}
  MaxCount = 2
  StartTime = 3
  MaxTime = 5
SYMMETRY Symmetry
INVARIANT NoFreeUsage
PROPERTY NoAdmissionOverLimit
