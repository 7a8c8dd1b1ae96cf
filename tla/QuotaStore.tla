----------------------------- MODULE QuotaStore -----------------------------
(***************************************************************************)
(* The quotas of Quota with the database behind them: what each operation  *)
(* saves, what happens when saving fails, and what a restart finds.        *)
(*                                                                         *)
(* Admission, usage and views change the state in memory first; when the   *)
(* save fails their changes stay pending and go with the next write.  An   *)
(* administrator's edit is made on a copy and published only once it is    *)
(* saved, together with whatever is pending, in one transaction.  A failed *)
(* edit changes nothing and is not a step.                                 *)
(*                                                                         *)
(* No operation saves "everything": it lists the keys and the pools it     *)
(* touched.  A restart, after a crash or a reload of the plugin, has the   *)
(* database and nothing else.                                              *)
(***************************************************************************)
EXTENDS Quota

VARIABLES
  disk,       \* the database
  dirty       \* the changes pending after failed saves

storeVars == <<disk, dirty>>

allVars == <<vars, storeVars>>

\* The state in memory, as a database would hold it.
Memory ==
  [status |-> status, bound |-> bound, cycles |-> cycles,
   plans |-> plans, shared |-> shared, windows |-> windows, pool |-> pool]

(***************************************************************************)
(* Changes: the keys to write, whether to replace all plans, and the pools *)
(* to write.  Only edits replace plans.                                    *)
(***************************************************************************)
Changes == [keys : SUBSET Keys, plans : BOOLEAN, pools : SUBSET Plans]

Changed(ks, ps) == [keys |-> ks, plans |-> FALSE, pools |-> ps]
Nothing == Changed({}, {})

Merge(old, new) ==
  [keys |-> old.keys \cup new.keys, plans |-> old.plans \/ new.plans,
   pools |-> old.pools \cup new.pools]

\* The database d after one transaction of changes from the state m.
Saved(d, m, changes) ==
  LET written == {p \in Plans : changes.plans \/ (p \in changes.pools /\ p \in d.plans /\ p \in m.plans)}
  IN  [status  |-> [k \in Keys |-> IF k \in changes.keys THEN m.status[k] ELSE d.status[k]],
       bound   |-> [k \in Keys |-> IF k \in changes.keys THEN m.bound[k] ELSE d.bound[k]],
       cycles  |-> [k \in Keys |-> IF k \in changes.keys THEN m.cycles[k] ELSE d.cycles[k]],
       plans   |-> IF changes.plans THEN m.plans ELSE d.plans,
       shared  |-> IF changes.plans THEN m.shared ELSE d.shared,
       windows |-> IF changes.plans THEN m.windows ELSE d.windows,
       pool    |-> [p \in Plans |-> IF p \in written THEN m.pool[p] ELSE d.pool[p]]]

Commit(changes) ==
  /\ \E m \in {Memory'} : disk' = Saved(disk, m, changes)
  /\ dirty' = Nothing

\* updateResult: memory has changed whether or not the save succeeds.
Keep(changes) ==
  LET all == Merge(dirty, changes)
  IN  \/ Commit(all)
      \/ all # Nothing /\ dirty' = all /\ UNCHANGED disk

\* mutant of Publish: an edit that cannot be saved stays in memory
PublishUnsaved(changes) ==
  \/ Commit(Merge(dirty, changes))
  \/ UNCHANGED storeVars

\* editConfiguration, once the save has succeeded
Publish(changes) == Commit(Merge(dirty, changes))

----------------------------------------------------------------------------
(* What each operation lists *)

Settles(cs, now) == \E w \in Windows : Started(cs[w]) /\ now >= cs[w].end
Activates(cs, ws) == \E w \in Windows : Present(ws[w]) /\ ~Started(cs[w])

\* The pools of a set of plans that settling at the instant now changes.
SettledPools(ps, now) == {p \in ps \cap plans : Settles(pool[p], now)}

\* The plan of key k, if it has one.
PlanOf(k) == {bound[k]} \ {Nil}

SaveRefused(r) ==
  LET k == requests[r].key
      at == requests[r].at
  IN  Changed(IF Settles(cycles[k], at) THEN {k} ELSE {}, SettledPools(PlanOf(k), at))

SaveAdmitted(r) ==
  LET k == requests[r].key
      p == bound[k]
      own == Activates(SettledKey(r), windows[p])
      common == shared[p] /\ Activates(SettledPool(r), windows[p])
  IN  Merge(SaveRefused(r), Changed(IF own THEN {k} ELSE {}, IF common THEN {p} ELSE {}))

SaveUsage(r, timed, now) ==
  LET k == requests[r].key
      at == IF timed THEN requests[r].at ELSE 0
      charged == {p \in PlanOf(k) :
                    /\ shared[p]
                    /\ \E w \in Windows : Accepts(cycles[k][w], p, at) /\ Accepts(pool[p][w], p, at)}
  IN  Changed({k}, charged \cup SettledPools(PlanOf(k), now))

SaveKeyViews(now) ==
  Changed({k \in Keys : Live(k) /\ Settles(cycles[k], now)}, SettledPools(plans, now))

SaveKeyView(k) ==
  Changed(IF Settles(cycles[k], clock) THEN {k} ELSE {}, SettledPools(PlanOf(k), clock))

SavePlanViews(now) == Changed({}, SettledPools({p \in plans : shared[p]}, now))

SaveSync(listed) ==
  LET changed == {k \in Keys : k \in listed <=> status[k] # "config"}
  IN  Changed(IF changed # {} THEN Keys ELSE {}, {})

SaveBinding(k, p) == Changed(IF bound[k] # p THEN {k} ELSE {}, {})

\* mutant of SavePlans: the keys that an edit of plans touches are not listed
SavePlansOnly(ks) == [keys |-> {}, plans |-> TRUE, pools |-> {}]

SavePlans(ks) == [keys |-> ks, plans |-> TRUE, pools |-> {}]

\* mutant of SaveReset: members that CPA no longer lists are not saved
SaveResetLive(ks, ps) ==
  LET pools == ps \cup {p \in plans : shared[p] /\ \E k \in ks : bound[k] = p}
  IN  Changed({k \in Keys : k \in ks \/ (Live(k) /\ bound[k] \in pools)}, pools)

SaveReset(ks, ps) ==
  LET pools == ps \cup {p \in plans : shared[p] /\ \E k \in ks : bound[k] = p}
  IN  Changed({k \in Keys : k \in ks \/ bound[k] \in pools}, pools)

----------------------------------------------------------------------------
(* Operations of the store itself *)

\* A change of retention and the clearing of records write what is pending.
Flush ==
  /\ dirty # Nothing
  /\ UNCHANGED vars
  /\ Commit(dirty)

\* The plugin starts again on its database.  Requests are over if the host went down
\* with it, and go on, their cycles gone, if it only reloaded the plugin.
Restart(hostLives) ==
  /\ status' = disk.status /\ bound' = disk.bound /\ cycles' = disk.cycles
  /\ plans' = disk.plans /\ shared' = disk.shared /\ windows' = disk.windows
  /\ pool' = disk.pool
  /\ dirty' = Nothing
  /\ requests' = IF hostLives THEN CutKeys(Keys) ELSE [r \in Requests |-> Idle]
  /\ UNCHANGED <<clock, disk>>

----------------------------------------------------------------------------
(* Specification *)

StoreInit == Init /\ disk = Memory /\ dirty = Nothing

\* What the host does between its calls of the plugin.
HostStep ==
  /\ \/ Tick
     \/ \E r \in Requests :
          \/ \E k \in Keys : Arrive(r, k) \/ HelperCall(r, k)
          \/ StartAttempt(r)
          \/ \E next \in Requests : Retry(r, next)
          \/ Abandon(r)
  /\ UNCHANGED storeVars

StoreRequest(r) ==
  \/ AuthorizeUnlimited(r) /\ Keep(Nothing)
  \/ AuthorizeAdmit(r) /\ Keep(SaveAdmitted(r))
  \/ AuthorizeRefuse(r) /\ Keep(SaveRefused(r))
  \/ \E usage \in Usages, timed \in BOOLEAN, now \in Instants :
       RecordUsage(r, usage, timed, now) /\ Keep(SaveUsage(r, timed, now))

StoreView ==
  \/ \E now \in Instants : \/ KeyViews(now) /\ Keep(SaveKeyViews(now))
                           \/ PlanViews(now) /\ Keep(SavePlanViews(now))
  \/ \E k \in Keys : KeyViewForScope(k) /\ Keep(SaveKeyView(k))

StoreKeys ==
  \/ \E listed \in SUBSET Keys, allowEmpty \in BOOLEAN :
       SyncKeys(listed, allowEmpty) /\ Publish(SaveSync(listed))
  \/ \E k \in Keys :
       \/ UnbindKey(k) /\ Publish(SaveBinding(k, Nil))
       \/ \E p \in Plans : BindKey(k, p) /\ Publish(SaveBinding(k, p))

StorePlan(p) ==
  \/ \E ws \in [Windows -> WindowInputs], isShared \in BOOLEAN :
       \/ UpdatePlan(p, ws, isShared, FALSE, {}) /\ Publish(SavePlans(Keys))
       \/ \E selected \in SUBSET Keys :
            \/ CreatePlan(p, ws, isShared, selected) /\ Publish(SavePlans(selected))
            \/ UpdatePlan(p, ws, isShared, TRUE, selected) /\ Publish(SavePlans(Keys))
  \/ DeletePlan(p) /\ Publish(SavePlans(Keys))

StoreReset ==
  \/ ResetGlobal /\ Publish(SaveReset({k \in Keys : Live(k) /\ bound[k] # Nil},
                                      {p \in plans : shared[p]}))
  \/ \E ks \in SUBSET Keys : ResetKeys(ks) /\ Publish(SaveReset(ks, {}))
  \/ \E p \in Plans : ResetPlanQuota(p) /\ Publish(SaveReset({}, {p}))

StoreNext ==
  \/ HostStep
  \/ \E r \in Requests : StoreRequest(r)
  \/ StoreView
  \/ StoreKeys
  \/ \E p \in Plans : StorePlan(p)
  \/ StoreReset
  \/ Flush
  \/ \E hostLives \in BOOLEAN : Restart(hostLives)

StoreSpec == StoreInit /\ [][StoreNext]_allVars

----------------------------------------------------------------------------
(* Properties *)

\* The state that a restart would find.
OnDisk == INSTANCE Quota WITH
  status <- disk.status, bound <- disk.bound, cycles <- disk.cycles, plans <- disk.plans,
  shared <- disk.shared, windows <- disk.windows, pool <- disk.pool

\* Whatever memory has and the database has not is pending: nothing an operation
\* changes is forgotten when it lists what to save, so one successful write brings
\* the database up to date.
PendingCovers ==
  /\ ~dirty.plans
  /\ \A k \in Keys \ dirty.keys :
       disk.status[k] = status[k] /\ disk.bound[k] = bound[k] /\ disk.cycles[k] = cycles[k]
  /\ \A p \in Plans \ dirty.pools : disk.pool[p] = pool[p]

\* What an administrator is told was done survives a restart, whatever the database
\* refused before: plans, bindings and the list of keys are never ahead of it.
EditsAreSaved ==
  /\ disk.plans = plans /\ disk.shared = shared /\ disk.windows = windows
  /\ disk.bound = bound
  /\ \A k \in Keys : status[k] \in {"config", "deleted"} => disk.status[k] = status[k]

\* The database can be loaded at any moment, however many saves have failed before:
\* it never holds one half of a change.
DiskLoads == OnDisk!Loadable
=============================================================================
