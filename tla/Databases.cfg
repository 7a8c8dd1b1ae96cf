\* Databases of every version; in a new one five records, two of each kind may wait, kept for
\* a day or two.
SPECIFICATION DatabasesSpec
CONSTANTS
  Nil = Nil
  g = g
  all = all
  m1 = m1
  m2 = m2
  Routes = {g, all}
  SystemAll = all
  MaxPeriod = 365
  Found <- FoundFiles
  MaxPending = 2
  Retentions = {1, 2}
  Ages = {0, 1, 2}
  MaxDelay = 1
  MaxRecords = 5
  MaxTime = 4
CONSTRAINT Bounded
INVARIANTS WholeOrUntouched SoundOpens MigrationKeeps WrittenOnce GoneForGood
PROPERTIES LatestWait CutoffsKept
