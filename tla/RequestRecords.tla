--------------------------- MODULE RequestRecords ---------------------------
(***************************************************************************)
(* Records of requests and of their errors: they wait with the other       *)
(* changes while saves fail, are written with whatever is saved next,      *)
(* leave when they are older than the retention, and can be cleared.       *)
(*                                                                         *)
(* A record is usage that was reported; its time is that of its request,   *)
(* which lies before the report.  Every operation holds the store's lock.  *)
(* Databases composes them with the opening of the database they are in.   *)
(***************************************************************************)
EXTENDS Integers, FiniteSets, Sequences, SequencesExt, FiniteSetsExt

CONSTANTS
  MaxPending,  \* maxPendingRequestRecords
  Retentions,  \* days an administrator keeps records
  Ages,        \* ages in days an administrator clears, 0 for all
  MaxDelay,    \* days between a request and its report
  MaxRecords, MaxTime  \* records and days of a run (bounds)

ASSUME RequestRecordsAssumption ==
  /\ MaxPending \in Nat \ {0}
  /\ Retentions \subseteq Nat \ {0}
  /\ Ages \cup {MaxDelay, MaxRecords, MaxTime} \subseteq Nat
  /\ IsFiniteSet(Retentions \cup Ages)   \* maxRetentionDays

VARIABLES
  clock,
  retention,  \* of the configuration in force, or for which a database is being loaded
  opened,     \* the store has a database
  dirty,      \* the changes that wait: records of both kinds, and a cutoff
  rows,       \* request_events, with what request_errors says of each
  recorded,   \* history: number of records so far
  gone,       \* history: records that were deleted from the database
  due         \* history: the latest cutoff of a change since the last save

vars == <<clock, retention, opened, dirty, rows, recorded, gone, due>>

\* RetentionDays.cutoff; 0 stands for the zero time.
Cutoff(days, now) == IF days = 0 THEN 0 ELSE now - days

NoChanges == [normal |-> <<>>, failed |-> <<>>, cutoff |-> 0]

\* Changes.withBoundedRequestRecords
Latest(records) == SubSeq(records, Max({1, Len(records) - MaxPending + 1}), Len(records))

\* mutant of Merged: the cutoff is that of the change at hand
MergedNext(changes, next) ==
  [normal |-> Latest(changes.normal \o next.normal), failed |-> Latest(changes.failed \o next.failed),
   cutoff |-> next.cutoff]

\* Changes.merge
Merged(changes, next) ==
  [normal |-> Latest(changes.normal \o next.normal), failed |-> Latest(changes.failed \o next.failed),
   cutoff |-> Max({changes.cutoff, next.cutoff})]

\* DELETE ... WHERE at < cutoff
Pruned(table, cutoff) == {row \in table : cutoff = 0 \/ row.at >= cutoff}

\* The rows a successful save leaves: each record is added, then old ones leave.
Saved(table, changes) ==
  LET added == {[r EXCEPT !.failed = FALSE] : r \in ToSet(changes.normal)}
                 \cup {[r EXCEPT !.failed = TRUE] : r \in ToSet(changes.failed)}
      copies(id) == Cardinality({r \in table : r.id = id})
  IN  Pruned(table \cup {[r EXCEPT !.copy = copies(r.id)] : r \in added}, changes.cutoff)

Waiting == ToSet(dirty.normal) \cup ToSet(dirty.failed)

\* mutant of Write: what was saved waits on
WriteAgain(changes) ==
  /\ rows' = Saved(rows, changes)
  /\ dirty' = changes
  /\ due' = 0
  /\ UNCHANGED gone

\* Records that a save of these changes deletes, or does not write at all, for their age.
Expired(changes) ==
  {r.id : r \in rows \cup ToSet(changes.normal) \cup ToSet(changes.failed)} \ {r.id : r \in Saved(rows, changes)}

Write(changes) ==
  /\ rows' = Saved(rows, changes)
  /\ gone' = gone \cup Expired(changes)
  /\ dirty' = NoChanges
  /\ due' = 0

----------------------------------------------------------------------------
(* Operations *)

\* mutant of Unsaved: the change at hand is kept, those that waited are not
UnsavedLast(changes, next) == Merged(NoChanges, next)

\* What waits after a failed save.
Unsaved(changes, next) == Merged(changes, next)

\* recordUsage: usage has happened, and is kept when it cannot be saved.
RecordUsage(failed, at, ok) ==
  LET record == [id |-> recorded + 1, at |-> at, failed |-> failed, copy |-> 0]
      next == [normal |-> IF failed THEN <<>> ELSE <<record>>,
               failed |-> IF failed THEN <<record>> ELSE <<>>,
               cutoff |-> Cutoff(retention, clock)]
  IN  /\ recorded < MaxRecords
      /\ recorded' = recorded + 1
      /\ CASE ~opened -> UNCHANGED <<dirty, rows, gone, due>>
           [] opened /\ ok -> Write(Merged(dirty, next))
           [] OTHER -> /\ dirty' = Unsaved(dirty, next)
                       /\ due' = Max({due, next.cutoff})
                       /\ UNCHANGED <<rows, gone>>
      /\ UNCHANGED <<clock, retention, opened>>

\* editConfiguration, of anything: what waits is saved with it or goes on waiting.
Edit(ok) ==
  /\ opened
  /\ IF ok THEN Write(Merged(dirty, NoChanges)) ELSE UNCHANGED <<dirty, rows, gone, due>>
  /\ UNCHANGED <<clock, retention, opened, recorded>>

\* mutant of Flushed: pending records are left to the next save
FlushedLater(changes) == NoChanges

\* flushChanges before records are cleared
Flushed(changes) == Merged(changes, NoChanges)

\* ClearRequestEvents: what waits is saved first, or nothing is cleared.
ClearRequestEvents(days, saved, ok) ==
  LET before == Cutoff(days, clock)
      flushed == Saved(rows, Flushed(dirty))
      cleared(table) == {r \in table : before = 0 \/ r.at < before}
  IN  /\ opened
      /\ CASE saved /\ ok ->
                /\ rows' = flushed \ cleared(flushed)
                /\ gone' = gone \cup Expired(Flushed(dirty)) \cup {r.id : r \in cleared(rows \cup Waiting)}
                /\ dirty' = IF Flushed(dirty) = NoChanges THEN dirty ELSE NoChanges
                /\ due' = 0
           [] saved /\ ~ok -> Write(Flushed(dirty))
           [] OTHER -> UNCHANGED <<dirty, rows, gone, due>>
      /\ UNCHANGED <<clock, retention, opened, recorded>>

\* Configure with the same database: another retention is applied at once, or not at all.
SetRetention(days, ok) ==
  /\ opened /\ days # retention
  /\ IF ok THEN /\ retention' = days
                /\ Write(Merged(dirty, [NoChanges EXCEPT !.cutoff = Cutoff(days, clock)]))
     ELSE UNCHANGED <<retention, dirty, rows, gone, due>>
  /\ UNCHANGED <<clock, opened, recorded>>

\* Close, or the end of the process: what waits is lost.
CloseStore ==
  /\ opened
  /\ opened' = FALSE
  /\ dirty' = NoChanges
  /\ due' = 0
  /\ UNCHANGED <<clock, retention, rows, recorded, gone>>

\* Load: old records leave the database before any of it is read.
PruneAtLoad(days) ==
  /\ ~opened
  /\ retention' = days
  /\ rows' = Pruned(rows, Cutoff(days, clock))
  /\ gone' = gone \cup {r.id : r \in rows \ rows'}
  /\ UNCHANGED <<clock, opened, dirty, recorded, due>>

\* Configure, once it has been loaded.
Open ==
  /\ ~opened
  /\ opened' = TRUE
  /\ UNCHANGED <<clock, retention, dirty, rows, recorded, gone, due>>

Tick ==
  /\ clock < MaxTime
  /\ clock' = clock + 1
  /\ UNCHANGED <<retention, opened, dirty, rows, recorded, gone, due>>

\* A store that has not been configured, and a database that holds n records of the day before.
StartRecords(n) ==
  /\ clock = Max(Retentions \cup Ages \cup {MaxDelay}) + 1
  /\ retention \in Retentions
  /\ opened = FALSE
  /\ dirty = NoChanges
  /\ rows = {[id |-> i, at |-> clock - 1, failed |-> FALSE, copy |-> 0] : i \in 1 .. n}
  /\ recorded = n
  /\ gone = {}
  /\ due = 0

\* What is done with records, whether the store has a database or not.
UseRecords ==
  \/ \E failed, ok \in BOOLEAN, at \in clock - MaxDelay .. clock : RecordUsage(failed, at, ok)
  \/ \E ok \in BOOLEAN : Edit(ok)
  \/ \E days \in Ages, saved, ok \in BOOLEAN : ClearRequestEvents(days, saved, ok)
  \/ \E days \in Retentions, ok \in BOOLEAN : SetRetention(days, ok)

----------------------------------------------------------------------------
(* Properties *)

PendingIds == {r.id : r \in Waiting}

\* A record is written once, however many saves fail and whatever is saved next: it waits or
\* has a row, never both and never two.
WrittenOnce ==
  /\ \A r, s \in rows : r.id = s.id => r = s
  /\ PendingIds \cap {r.id : r \in rows} = {}

\* What was cleared, or was too old, does not come back with a save that is tried again.
GoneForGood == gone \cap ({r.id : r \in rows} \cup PendingIds) = {}

\* Only a record too many makes the oldest of its kind give way, while a save fails or with
\* the one that succeeds at last; any other record that waited is written, is deleted for
\* its age or at an administrator's word, or waits on.
LatestWait ==
  [][\A kind \in {"normal", "failed"}, r \in Waiting :
       opened /\ opened' /\ r \in ToSet(dirty[kind]) =>
         \/ r \in ToSet(dirty'[kind]) \/ r.id \in gone' \/ \E row \in rows' : row.id = r.id
         \/ /\ Cardinality({s \in ToSet(dirty[kind]) : s.id > r.id}) >= MaxPending - 1
            /\ recorded' = recorded + 1]_vars

\* A cutoff that could not be applied is, by whatever is saved next: no row is left that
\* a failed save should have deleted.
CutoffsKept ==
  [][opened /\ opened' /\ due > 0 /\ due' = 0 => \A row \in rows' : row.at >= due]_vars
=============================================================================
