\* A key that moves between two plans of one window; every edit of a plan of two windows.
SPECIFICATION Spec
CONSTANTS
  Nil = Nil
  Keys = {k1}
  Plans = {p1, p2}
  Windows = {w1, w2}
  Requests = {r1}
  Periods = {1, 2}
  Anchors = {0, 4}
  Limits = {1}
  Usages = {1}
  MaxCount = 1
  StartTime = 3
  MaxTime = 5
CONSTRAINT Bounded
SYMMETRY EditSymmetry
INVARIANT IInv
