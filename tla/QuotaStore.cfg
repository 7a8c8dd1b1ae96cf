\* Two keys of one plan on a database that fails and restarts.
SPECIFICATION StoreSpec
CONSTANTS
  Nil = Nil
  Keys = {k1, k2}
  Plans = {p}
  Windows = {w}
  Requests = {r1}
  Periods = {2}
  Anchors = {0, 4}
  Limits = {1}
  Usages = {1}
  MaxCount = 1
  StartTime = 3
  MaxTime = 6
CONSTRAINT Bounded
SYMMETRY Symmetry
INVARIANTS PendingCovers EditsAreSaved DiskLoads
