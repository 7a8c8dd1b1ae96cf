----------------------------- MODULE Databases -----------------------------
(***************************************************************************)
(* Opening the database of the request records: an older one is brought up *)
(* to date in one transaction, then loaded, and only then put to use.      *)
(*                                                                         *)
(* The process may end at any step.  A database that cannot be migrated or *)
(* loaded is refused; the host may configure the plugin again at any time. *)
(* One file is modelled: that a refused file leaves the one in use alone   *)
(* is the order of Configure and not a step of this module.                *)
(***************************************************************************)
EXTENDS RequestRecords, Migrations

CONSTANT Found   \* the databases that may be found

\* The fields of a database, whatever is in them.
IsDatabase(db) ==
  db \in [version : Nat, columns : {db.columns}, indexes : {db.indexes},
         plan : [id : {db.plan.id}, kind : {db.plan.kind}, period : Nat, limit : {db.plan.limit}],
         key : [plan : {db.key.plan}, list : {db.key.list},
                cycle : [plan : {db.key.cycle.plan}, start : Nat, end : Nat, spent : {db.key.cycle.spent}],
                bindings : [routes : {db.key.bindings.routes}, models : {db.key.bindings.models},
                            credentials : {db.key.bindings.credentials}, providers : {db.key.bindings.providers}]],
         routes : {db.routes},
         event : [provider : {db.event.provider}, account : {db.event.account}, headers : {db.event.headers},
                  report : BOOLEAN],
         stored : {db.stored}, configured : {db.configured}, noted : {db.noted}, damaged : {db.damaged}]

ASSUME FoundAssumption == \A db \in Found : IsDatabase(db)

VARIABLES
  stage,    \* "closed", "migrating", "migrated", "pruned" or "open"
  tx,       \* the transaction: the database as it has made it, and the steps left
  file,     \* the database file
  found,    \* history: the file as it was found
  refused   \* history: the file has been refused

dbVars == <<stage, tx, file, found, refused>>

NoTx == [db |-> Nil, left |-> <<>>]

\* A new file gets the schema.
Fresh(db) == [db EXCEPT !.columns = SchemaColumns]

Refuse ==
  /\ stage' = "closed"
  /\ tx' = NoTx
  /\ refused' = TRUE
  /\ UNCHANGED <<vars, file, found>>

\* Open reads the version: a file without tables is new, any other must have a known version.
Begin ==
  /\ stage = "closed"
  /\ stage' = "migrating"
  /\ \/ /\ file.version \in Migratable
        /\ tx' = [db |-> file, left |-> StepsFrom(file.version)]
     \/ /\ file.version = SchemaVersion
        /\ tx' = [db |-> file, left |-> <<>>]
     \/ /\ file.version = 0 /\ file.columns = {}
        /\ tx' = [db |-> Fresh(file), left |-> <<>>]
  /\ UNCHANGED <<vars, file, found, refused>>

Unsupported ==
  /\ stage = "closed"
  /\ file.version \notin Migratable \cup {SchemaVersion}
  /\ file.version = 0 => file.columns # {}
  /\ Refuse

\* mutant of MigrateStep: the change is made in the file
MigrateStepInFile ==
  /\ stage = "migrating" /\ tx.left # <<>>
  /\ Applies(Head(tx.left), tx.db)
  /\ tx' = [db |-> Applied(Head(tx.left), tx.db), left |-> Tail(tx.left)]
  /\ file' = Applied(Head(tx.left), tx.db)
  /\ UNCHANGED <<vars, stage, found, refused>>

MigrateStep ==
  /\ stage = "migrating" /\ tx.left # <<>>
  /\ Applies(Head(tx.left), tx.db)
  /\ tx' = [db |-> Applied(Head(tx.left), tx.db), left |-> Tail(tx.left)]
  /\ UNCHANGED <<vars, stage, file, found, refused>>

StepRefused ==
  /\ stage = "migrating" /\ tx.left # <<>>
  /\ ~Applies(Head(tx.left), tx.db)
  /\ Refuse

\* Version and indexes are part of the transaction.
CommitMigration ==
  /\ stage = "migrating" /\ tx.left = <<>>
  /\ IndexNamesFree(tx.db)
  /\ file' = [tx.db EXCEPT !.version = SchemaVersion, !.indexes = SyncedIndexes(@)]
  /\ stage' = "migrated"
  /\ tx' = NoTx
  /\ UNCHANGED <<vars, found, refused>>

IndexesRefused ==
  /\ stage = "migrating" /\ tx.left = <<>>
  /\ ~IndexNamesFree(tx.db)
  /\ Refuse

\* Configure, once the file is open: old records leave it, outside any transaction.
Prune(days) ==
  /\ stage = "migrated"
  /\ PruneAtLoad(days)
  /\ stage' = "pruned"
  /\ UNCHANGED <<tx, file, found, refused>>

\* The rest is loaded, then replaces what was in use.
Load ==
  /\ stage = "pruned"
  /\ Loads(file)
  /\ Open
  /\ stage' = "open"
  /\ UNCHANGED <<tx, file, found, refused>>

LoadRefused ==
  /\ stage = "pruned"
  /\ ~Loads(file)
  /\ Refuse

\* The end of the process, or an error of the disk, while the file is being opened.
Interrupted ==
  /\ stage \in {"migrating", "migrated", "pruned"}
  /\ stage' = "closed"
  /\ tx' = NoTx
  /\ UNCHANGED <<vars, file, found, refused>>

Shutdown ==
  /\ stage = "open"
  /\ CloseStore
  /\ stage' = "closed"
  /\ UNCHANGED <<tx, file, found, refused>>

\* Requests and edits, while the database is in use; usage and the clock go on without it.
Work ==
  /\ \/ UseRecords
     \/ Tick
  /\ UNCHANGED dbVars

InitDatabases ==
  /\ file \in Found
  /\ found = file
  /\ stage = "closed"
  /\ tx = NoTx
  /\ refused = FALSE
  /\ StartRecords(IF file.version \in Migratable THEN 1 ELSE 0)

NextDatabases ==
  \/ Begin \/ Unsupported \/ MigrateStep \/ StepRefused \/ CommitMigration \/ IndexesRefused
  \/ \E days \in Retentions : Prune(days)
  \/ Load \/ LoadRefused \/ Interrupted \/ Shutdown \/ Work

DatabasesSpec == InitDatabases /\ [][NextDatabases]_<<vars, dbVars>>

----------------------------------------------------------------------------
(* Databases as the programs of their time wrote them *)

OldestColumns ==
  {"plans.amount_usd", "plans.period_seconds", "plans.period_kind", "api_keys.cycle_plan_id",
   "api_keys.cycle_start_at", "api_keys.cycle_end_at", "api_keys.cycle_spent_usd", "prices.pattern", "credentials",
   "request_errors.reason", "request_events.total_usd", "request_events.uncached_input_usd",
   "request_events.cache_read_usd", "request_events.cache_write_usd", "request_events.output_usd",
   "key_model_groups", "key_allowed_models", "model_group_models", "model_groups"}

\* What each schema from 11 on changed.
News ==
  <<{"modelGroups"}, {"subscriptionPeriods"}, {"modelPricing", "quotaWindows"}, {"credentials"}, {"responseHeaders"},
    {"requestErrorReason"}, {"upstreamResponseReports"}, {"requestInfo"}, {"executionMetadata"}, {"quotaReports"},
    {"clientHeaders"}, {"configuredProviders"}, {"credentialNotes"}, {"currencies"}, {"sharedQuotas"}>>

ColumnsAfter(steps) ==
  (OldestColumns \cup UNION {Change[s].adds : s \in steps}) \ UNION {Change[s].drops : s \in steps}

ColumnsOf(version) == ColumnsAfter(UNION {News[v - 10] : v \in 11 .. version})

PeriodOf(plan) ==
  CASE plan.kind = "daily" -> 1
    [] plan.kind = "weekly" -> 7
    [] plan.kind = "monthly" -> 30
    [] plan.kind = "never" -> 0
    [] OTHER -> plan.period

\* Periods had a kind until 11 and could be endless until 12; limits were columns until then.
SoundPlan(db) ==
  /\ IF db.version <= 11
       THEN /\ db.plan.kind \in PeriodKinds
            /\ db.plan.kind = "custom" => db.plan.period \in 1 .. MaxPeriod
       ELSE /\ db.plan.kind = Nil
            /\ db.plan.period \in (IF db.version = 12 THEN 0 ELSE 1) .. MaxPeriod
  /\ db.plan.limit = IF db.version <= 12 THEN "column" ELSE IF db.version <= 23 THEN "amount_usd" ELSE "amount"

\* A cycle started, for the plan of its key, and lasts a period; one that never renews has no end.
SoundCycle(db) ==
  LET c == db.key.cycle
  IN  c # NoCycle =>
        /\ Bound(db) /\ c.plan = db.key.plan /\ c.start > 0
        /\ c.end = IF PeriodOf(db.plan) = 0 THEN 0 ELSE c.start + PeriodOf(db.plan)

\* Version 11 alone kept a key's bindings in one list.
SoundBindings(db) ==
  /\ db.key.bindings.routes \subseteq DOMAIN db.routes
  /\ db.version # 11 => db.key.list = {}
  /\ db.version = 11 => db.key.bindings = NoBindings
  /\ ReadableBindings(db)
  /\ {b.value : b \in {c \in db.key.list : c.kind = "route"}} \subseteq DOMAIN db.routes \ {SystemAll}

\* Credentials were stored until 13, headers from 15 to 19, reports from 20 on.
SoundEvent(db) ==
  /\ db.version > 13 => db.stored = Nil
  /\ db.event.headers \in IF db.version \in 15 .. 19 THEN {"none", "quota", "other"} ELSE {"none"}
  /\ db.version <= 19 => ~db.event.report

Sound(db) ==
  /\ db.damaged = {}
  /\ \/ /\ db.version = 0 /\ db.columns = {}
        /\ db.plan.id = Nil
        /\ db.key = [plan |-> Nil, cycle |-> NoCycle, list |-> {}, bindings |-> NoBindings]
     \/ /\ db.version \in Migratable \cup {SchemaVersion}
        /\ db.columns = ColumnsOf(db.version)
        /\ db.key.plan \in {Nil, db.plan.id}
        /\ SoundPlan(db) /\ SoundCycle(db) /\ SoundBindings(db) /\ SoundEvent(db)

----------------------------------------------------------------------------
(* Properties *)

\* Wherever the process ends, the file is as it was found or is whole: of the current schema,
\* with every column of a new database if none of its version's was missing, and fit to be
\* loaded if it was sound.
WholeOrUntouched ==
  file # found =>
    /\ file.version = SchemaVersion
    /\ found.version = 0 \/ ColumnsOf(found.version) \subseteq found.columns => SchemaColumns \subseteq file.columns
    /\ Sound(found) => file.columns = SchemaColumns /\ Loads(file)

\* A database as any supported version wrote it is not refused, by no step of any version's
\* migration.
SoundOpens == refused => ~Sound(found)

\* The models that a key's groups, or routes, and its own list allow it.
AllowedModels(db) ==
  LET listed(kind) == {b.value : b \in {c \in db.key.list : c.kind = kind}}
      routes == (db.key.bindings.routes \cup listed("route")) \cap DOMAIN db.routes
  IN  db.key.bindings.models \cup listed("model") \cup UNION {db.routes[r] : r \in routes}

\* The key has used as much of a cycle that began when it did and lasts a period of its plan,
\* may use the same models, its event has the account it was sent with, and a report only if
\* one was made.
Keeps(db, was) ==
  /\ [db.key.cycle EXCEPT !.end = 0] = [was.key.cycle EXCEPT !.end = 0]
  /\ db.plan.period = IF PeriodOf(was.plan) = 0 THEN 365 ELSE PeriodOf(was.plan)
  /\ db.key.cycle # NoCycle => db.key.cycle.end = db.key.cycle.start + db.plan.period
  /\ AllowedModels(db) = AllowedModels(was)
  /\ db.event.account = IF was.stored = Nil THEN was.event.account ELSE was.stored.account
  /\ was.event.provider # Nil => db.event.provider = was.event.provider
  /\ db.event.report = (was.event.report \/ was.event.headers = "quota")

\* An old database is brought up to date without anything being lost or made up.
MigrationKeeps ==
  found.version \in Migratable /\ file.version = SchemaVersion /\ Sound(found) => Keeps(file, found)
=============================================================================
