-------------------------- MODULE ReferencePrices --------------------------
(***************************************************************************)
(* The manager of reference prices: lookups through a cache, one refresh   *)
(* for all that need one, its retries, and the replacement of the manager  *)
(* when the store is closed and configured again on the same database.     *)
(*                                                                         *)
(* storageMu is a reader-writer lock: a lookup holds it for reading from   *)
(* its query to the insertion in the cache (pc "query"), so what needs it  *)
(* for writing waits for those.  Downloads hold no lock.  Every critical   *)
(* section of mu is one step.                                              *)
(***************************************************************************)
EXTENDS ModelPrices

CONSTANTS
  Calls,         \* requests and refreshes in flight
  Requested,     \* pairs of an upstream and a requested model
  Lists,         \* lists of entries models.dev may publish
  CacheCapacity, \* referencePriceCacheCapacity
  StaleAfter,    \* age after which prices are downloaded again
  MissingAfter,  \* the same when a model has none
  BackoffUnit,   \* wait after the first failure
  BackoffCap,    \* the longest wait
  OldList,       \* the one the database may hold already
  StartTime,     \* the first instant
  MaxManagers, MaxCalls, MaxTime \* managers and calls of a run, and its last instant (bounds)

ASSUME ReferencePricesAssumption ==
  /\ Requested \subseteq Names \X Names
  /\ OldList \in Lists /\ Acceptable(OldList)
  /\ CacheCapacity \in Nat \ {0}
  /\ {StaleAfter, MissingAfter, BackoffUnit, BackoffCap, MaxManagers, MaxCalls, MaxTime} \subseteq Nat
  /\ StartTime \in Nat \ {0}

VARIABLES
  clock,
  disk,      \* the prices and the metadata of the database
  current,   \* the manager the store uses, 0 for none
  managers,  \* those opened, the closed ones included
  calls,
  begun,     \* calls begun
  attempts   \* history: failed refreshes in a row and when the last one ended

vars == <<clock, disk, current, managers, calls, begun, attempts>>

\* Version 0 has no prices.  A list stands for its hash.
NoMetadata == [version |-> 0, list |-> {}, fetchedAt |-> 0, retryAfter |-> 0, failures |-> 0]

Usable(metadata) == metadata.list # {}

NewManager(metadata) ==
  [closed |-> FALSE, metadata |-> metadata, sequence |-> 0, refreshing |-> FALSE,
   failed |-> FALSE, entries |-> <<>>]

Idle == [pc |-> "idle", kind |-> "none", models |-> <<AutoName, AutoName>>, manager |-> 0, found |-> FALSE,
         metadata |-> NoMetadata, next |-> NoMetadata, changed |-> FALSE, failed |-> FALSE,
         observed |-> 0, again |-> FALSE]

Manager(c) == managers[calls[c].manager]

\* Nothing holds the manager's storageMu for reading.
NoReader(m) == \A c \in Calls : calls[c].manager = m => calls[c].pc # "query"

Keys(c) == ReferencePriceKeys(calls[c].models[1], calls[c].models[2])

Goto(c, pc) == calls' = [calls EXCEPT ![c].pc = pc]

SetManager(c, manager) == managers' = [managers EXCEPT ![calls[c].manager] = manager]

----------------------------------------------------------------------------
(* Lookup *)

\* A request whose model has neither a custom nor a builtin price asks for a reference price.
Resolve(c, models, refresh) ==
  /\ calls[c].pc = "idle" /\ begun < MaxCalls
  /\ begun' = begun + 1
  /\ calls' = [calls EXCEPT ![c] = [Idle EXCEPT !.pc = "lookup", !.models = models, !.manager = current,
                                      !.kind = IF refresh THEN "admission" ELSE "usage"]]
  /\ UNCHANGED <<clock, disk, current, managers, attempts>>

Cached(manager, keys) == {i \in DOMAIN manager.entries : manager.entries[i].keys = keys}

\* What a lookup goes on with: a refresh when an admission finds none, or old prices.
NeedRefresh(metadata, found) ==
  \/ ~Usable(metadata)
  \/ clock - metadata.fetchedAt > StaleAfter
  \/ ~found /\ clock - metadata.fetchedAt > MissingAfter

After(call, found, metadata) ==
  IF call.kind = "admission" /\ ~call.again /\ NeedRefresh(metadata, found) THEN "refresh" ELSE "recheck"

Found(c, price) ==
  LET pc == After(calls[c], price # NoPrice, Manager(c).metadata)
  IN  calls' = [calls EXCEPT ![c] = [@ EXCEPT !.pc = pc, !.found = price # NoPrice, !.observed = Manager(c).sequence]]

\* An entry of the cache is used, and is then the most recent one.
LookupHit(c) ==
  /\ calls[c].pc = "lookup" /\ calls[c].manager # 0
  /\ \E i \in Cached(Manager(c), Keys(c)) :
       /\ SetManager(c, [Manager(c) EXCEPT !.entries = <<@[i]>> \o RemoveAt(@, i)])
       /\ Found(c, Manager(c).entries[i].price)
  /\ UNCHANGED <<clock, disk, current, attempts, begun>>

\* Otherwise the database is asked, unless the manager is closed or has no prices yet.
LookupMiss(c) ==
  /\ calls[c].pc = "lookup"
  /\ IF calls[c].manager = 0
       THEN Goto(c, "recheck")
       ELSE /\ Cached(Manager(c), Keys(c)) = {}
            /\ CASE Manager(c).closed -> Goto(c, "recheck")
                 [] ~Manager(c).closed /\ ~Usable(Manager(c).metadata) -> Found(c, NoPrice)
                 [] OTHER -> Goto(c, "query")
  /\ UNCHANGED <<clock, disk, current, managers, attempts, begun>>

Forget(entries, keys) ==
  IF \A i \in DOMAIN entries : entries[i].keys # keys THEN entries
  ELSE RemoveAt(entries, CHOOSE i \in DOMAIN entries : entries[i].keys = keys)

Remember(entries, entry) ==
  LET added == <<entry>> \o Forget(entries, entry.keys)
  IN  IF Len(added) > CacheCapacity THEN Front(added) ELSE added

LookupQuery(c, ok) ==
  LET price == MatchReferencePriceKeys(disk.prices, Keys(c))
  IN  /\ calls[c].pc = "query"
      /\ IF ok
           THEN /\ SetManager(c, [Manager(c) EXCEPT !.entries = Remember(@, [keys |-> Keys(c), price |-> price])])
                /\ Found(c, price)
           ELSE Goto(c, "recheck") /\ UNCHANGED managers
      /\ UNCHANGED <<clock, disk, current, attempts, begun>>

\* In the end custom prices are asked again, and a manager replaced meanwhile is no answer:
\* the call returns whatever it is.
Recheck(c) ==
  /\ calls[c].pc = "recheck"
  /\ calls' = [calls EXCEPT ![c] = Idle]
  /\ UNCHANGED <<clock, disk, current, managers, attempts, begun>>

----------------------------------------------------------------------------
(* Refresh *)

\* An administrator forces a refresh; the plugin ensures one when it starts.
Ask(c, kind) ==
  /\ calls[c].pc = "idle" /\ current # 0 /\ begun < MaxCalls
  /\ begun' = begun + 1
  /\ calls' = [calls EXCEPT ![c] = [Idle EXCEPT !.pc = "refresh", !.kind = kind, !.manager = current,
                                      !.observed = managers[current].sequence]]
  /\ UNCHANGED <<clock, disk, current, managers, attempts>>

Waiting(call) == [Idle EXCEPT !.kind = call.kind, !.models = call.models, !.manager = call.manager]

\* mutant of Refreshed: an admission looks and may refresh again
RefreshedAnew(call, failed) ==
  IF call.kind # "admission" THEN Idle
  ELSE [Waiting(call) EXCEPT !.pc = IF failed THEN "recheck" ELSE "lookup"]

\* Where a call goes when a refresh it made, waited for or did without has ended: an
\* admission looks a second and last time, unless it failed.
Refreshed(call, failed) ==
  IF call.kind # "admission" THEN Idle
  ELSE [Waiting(call) EXCEPT !.pc = IF failed THEN "recheck" ELSE "lookup", !.again = TRUE]

Due(call, manager) ==
  \/ call.kind = "force"
  \/ /\ NeedRefresh(manager.metadata, call.kind # "admission" \/ call.found)
     /\ clock >= manager.metadata.retryAfter

\* Another call refreshes: its end answers for this one.
Join(c) ==
  /\ calls[c].pc = "refresh" /\ Manager(c).refreshing
  /\ calls' = [calls EXCEPT ![c] = [@ EXCEPT !.pc = "join", !.observed = Manager(c).sequence]]
  /\ UNCHANGED <<clock, disk, current, managers, attempts, begun>>

\* The channel is closed when its refresh ends; a later one has a channel of its own.
Joined(c) ==
  /\ calls[c].pc = "join" /\ Manager(c).sequence # calls[c].observed
  /\ calls' = [calls EXCEPT ![c] = Refreshed(@, Manager(c).failed)]
  /\ UNCHANGED <<clock, disk, current, managers, attempts, begun>>

\* The time a call may take is over while it waits.
GiveUp(c) ==
  /\ calls[c].pc = "join"
  /\ calls' = [calls EXCEPT ![c] = Refreshed(@, TRUE)]
  /\ UNCHANGED <<clock, disk, current, managers, attempts, begun>>

\* A refresh that has ended since the call looked, or one that is not due, is not repeated.
SkipRefresh(c) ==
  /\ calls[c].pc = "refresh" /\ ~Manager(c).refreshing
  /\ \/ /\ calls[c].observed # Manager(c).sequence
        /\ calls' = [calls EXCEPT ![c] = Refreshed(@, Manager(c).failed)]
     \/ /\ calls[c].observed = Manager(c).sequence /\ ~Due(calls[c], Manager(c))
        /\ calls' = [calls EXCEPT ![c] = Refreshed(@, FALSE)]
  /\ UNCHANGED <<clock, disk, current, managers, attempts, begun>>

\* mutant of StartRefresh: whoever finds a refresh due makes one
StartRefreshToo(c) ==
  /\ calls[c].pc = "refresh" /\ Due(calls[c], Manager(c))
  /\ SetManager(c, [Manager(c) EXCEPT !.refreshing = TRUE])
  /\ calls' = [calls EXCEPT ![c] = [@ EXCEPT !.pc = "download", !.metadata = Manager(c).metadata]]
  /\ UNCHANGED <<clock, disk, current, attempts, begun>>

\* The call keeps the metadata of before, for a failure.
StartRefresh(c) ==
  /\ calls[c].pc = "refresh" /\ ~Manager(c).refreshing
  /\ calls[c].observed = Manager(c).sequence /\ Due(calls[c], Manager(c))
  /\ SetManager(c, [Manager(c) EXCEPT !.refreshing = TRUE])
  /\ calls' = [calls EXCEPT ![c] = [@ EXCEPT !.pc = "download", !.metadata = Manager(c).metadata]]
  /\ UNCHANGED <<clock, disk, current, attempts, begun>>

\* The list arrives, or it or the metadata it follows, that of the database, cannot be read.
Download(c, list) ==
  /\ calls[c].pc = "download"
  /\ calls' = [calls EXCEPT ![c] =
       IF list = {} \/ Manager(c).closed \/ (list # disk.metadata.list /\ ~Acceptable(list))
       THEN [@ EXCEPT !.pc = "failing", !.failed = TRUE]
       ELSE [@ EXCEPT !.pc = "commit", !.changed = list # disk.metadata.list,
               !.next = [disk.metadata EXCEPT !.list = list, !.fetchedAt = clock, !.failures = 0, !.retryAfter = 0,
                                              !.version = IF list = disk.metadata.list THEN @ ELSE @ + 1]]]
  /\ UNCHANGED <<clock, disk, current, managers, attempts, begun>>

\* mutant of Published: new prices, and the cache of the old ones
PublishedOver(manager, next, changed) == [manager EXCEPT !.metadata = next]

\* New prices empty the cache; the same ones keep it.
Published(manager, next, changed) ==
  [manager EXCEPT !.metadata = next, !.entries = IF changed THEN <<>> ELSE @]

NoAttempts == [count |-> 0, at |-> 0, lost |-> FALSE]

\* mutant of Open: a closed manager is written through
AnyManager(manager) == TRUE

Open(manager) == ~manager.closed

\* Prices and metadata are written in one transaction, and published before any lookup goes on.
Commit(c, saved) ==
  /\ calls[c].pc = "commit" /\ NoReader(calls[c].manager)
  /\ IF Open(Manager(c)) /\ saved
       THEN /\ disk' = [prices |-> calls[c].next.list, metadata |-> calls[c].next]
            /\ SetManager(c, Published(Manager(c), calls[c].next, calls[c].changed))
            /\ Goto(c, "finish")
            /\ attempts' = NoAttempts
       ELSE /\ calls' = [calls EXCEPT ![c] = [@ EXCEPT !.pc = "failing", !.failed = TRUE]]
            /\ UNCHANGED <<disk, managers, attempts>>
  /\ UNCHANGED <<clock, current, begun>>

Shorter(a, b) == IF a < b THEN a ELSE b

Backoff(failures) == Shorter(BackoffUnit * 2^Shorter(failures - 1, 6), BackoffCap)

\* mutant of Failed: each failure is the first
FailedOnce(metadata) == [metadata EXCEPT !.failures = 1, !.retryAfter = clock + Backoff(1)]

\* A failure keeps the prices and says when to try again.
Failed(metadata) ==
  [metadata EXCEPT !.failures = @ + 1, !.retryAfter = clock + Backoff(metadata.failures + 1)]

\* The metadata of a failure is saved if it can be.
Fail(c, saved) ==
  LET next == Failed(calls[c].metadata)
      live == Open(Manager(c))
  IN  /\ calls[c].pc = "failing" /\ NoReader(calls[c].manager)
      /\ disk' = IF live /\ saved THEN [disk EXCEPT !.metadata = next] ELSE disk
      /\ calls' = [calls EXCEPT ![c] = [@ EXCEPT !.pc = "finish", !.next = next]]
      /\ attempts' = IF live THEN [count |-> attempts.count + 1, at |-> clock, lost |-> attempts.lost \/ ~saved]
                     ELSE attempts
      /\ UNCHANGED <<clock, current, managers, begun>>

\* The end of the refresh is told to all that wait for it.
Finish(c) ==
  /\ calls[c].pc = "finish"
  /\ SetManager(c, [Manager(c) EXCEPT !.metadata = calls[c].next, !.failed = calls[c].failed,
                                      !.sequence = @ + 1, !.refreshing = FALSE])
  /\ calls' = [calls EXCEPT ![c] = Refreshed(@, calls[c].failed)]
  /\ UNCHANGED <<clock, disk, current, attempts, begun>>

----------------------------------------------------------------------------
(* The store *)

\* Configure opens a manager on what the database holds, once the one before is closed.
OpenReferencePrices ==
  /\ current = 0 /\ \A m \in DOMAIN managers : managers[m].closed
  /\ Len(managers) < MaxManagers
  /\ managers' = Append(managers, NewManager(disk.metadata))
  /\ current' = Len(managers')
  /\ attempts' = IF attempts.lost THEN NoAttempts ELSE attempts
  /\ UNCHANGED <<clock, disk, calls, begun>>

\* Close takes the manager from the store, then waits for its readers.
CloseStore ==
  /\ current # 0
  /\ current' = 0
  /\ UNCHANGED <<clock, disk, managers, calls, attempts, begun>>

CloseManager(m) ==
  /\ current # m /\ ~managers[m].closed /\ NoReader(m)
  /\ managers' = [managers EXCEPT ![m].closed = TRUE]
  /\ UNCHANGED <<clock, disk, current, calls, attempts, begun>>

\* The process ends and starts again: the database is all that is left.
Crash ==
  /\ current' = 0
  /\ managers' = <<>>
  /\ calls' = [c \in Calls |-> Idle]
  /\ UNCHANGED <<clock, disk, attempts, begun>>

Tick ==
  /\ clock < MaxTime
  /\ clock' = clock + 1
  /\ UNCHANGED <<disk, current, managers, calls, attempts, begun>>

\* The database holds a list, or a download has failed before.
Init ==
  /\ clock = StartTime
  /\ \/ /\ attempts = NoAttempts
        /\ disk = [prices |-> OldList,
                   metadata |-> [NoMetadata EXCEPT !.version = 1, !.list = OldList, !.fetchedAt = 1]]
     \/ /\ attempts = [NoAttempts EXCEPT !.count = 1, !.at = StartTime - 1]
        /\ disk = [prices |-> {},
                   metadata |-> [NoMetadata EXCEPT !.failures = 1, !.retryAfter = attempts.at + Backoff(1)]]
  /\ current = 0
  /\ managers = <<>>
  /\ calls = [c \in Calls |-> Idle]
  /\ begun = 0

\* What a call does until it returns.
Step(c) ==
  \/ LookupHit(c) \/ LookupMiss(c) \/ (\E ok \in BOOLEAN : LookupQuery(c, ok))
  \/ Recheck(c)
  \/ Join(c) \/ Joined(c) \/ SkipRefresh(c) \/ StartRefresh(c)
  \/ \E list \in Lists \cup {{}} : Download(c, list)
  \/ \E saved \in BOOLEAN : Commit(c, saved) \/ Fail(c, saved)
  \/ Finish(c)

Next ==
  \/ \E c \in Calls, models \in Requested, refresh \in BOOLEAN : Resolve(c, models, refresh)
  \/ \E c \in Calls, kind \in {"force", "ensure"} : Ask(c, kind)
  \/ \E c \in Calls : Step(c) \/ GiveUp(c)
  \/ OpenReferencePrices \/ CloseStore \/ Crash
  \/ \E m \in DOMAIN managers : CloseManager(m)
  \/ Tick

\* Every goroutine of a call runs; time need not pass, nor a wait be given up.
Fairness == \A c \in Calls : WF_vars(Step(c))

Spec == Init /\ [][Next]_vars /\ Fairness

----------------------------------------------------------------------------
(* Properties *)

\* What is written of prices and of their metadata belongs together, and the manager in use
\* knows it, whatever a refresh of a closed manager or one before a restart still did.
LiveAgrees ==
  /\ disk.prices = disk.metadata.list
  /\ current # 0 =>
       \A field \in {"version", "list", "fetchedAt"} : managers[current].metadata[field] = disk.metadata[field]

\* No cached match outlives the prices it was made of, and no key has two.
CacheInForce ==
  \A m \in DOMAIN managers :
    LET entries == managers[m].entries
    IN  /\ m = current => \A i \in DOMAIN entries :
                            entries[i].price = MatchReferencePriceKeys(disk.prices, entries[i].keys)
        /\ \A i, j \in DOMAIN entries : entries[i].keys = entries[j].keys => i = j

Refreshing(m) == {c \in Calls : calls[c].manager = m /\ calls[c].pc \in {"download", "commit", "failing", "finish"}}

\* One call refreshes a manager at a time, and a manager is refreshing only while one does:
\* the others have something to wait for that ends.
OneRefresh ==
  \A m \in DOMAIN managers :
    /\ Cardinality(Refreshing(m)) = IF managers[m].refreshing THEN 1 ELSE 0
    /\ \A c \in Calls : calls[c].manager = m /\ calls[c].pc = "join" /\ calls[c].observed = managers[m].sequence
         => managers[m].refreshing

\* After failures in a row nobody but an administrator downloads before the wait is over,
\* whoever saw which failure, and restarts included unless the last one could not be saved.
BackoffKept ==
  [][\A c \in Calls :
       /\ calls[c].pc = "refresh" /\ calls'[c].pc = "download"
       /\ calls[c].kind # "force" /\ calls[c].manager = current /\ attempts.count > 0
       => clock >= attempts.at + Backoff(attempts.count)]_vars

\* Every call returns: a refresh that fails, is skipped or brings no price for the model
\* is not tried over and over by one call, and none waits for a refresh nobody makes.
CallsReturn == \A c \in Calls : calls[c].pc # "idle" ~> calls[c].pc = "idle"
=============================================================================
