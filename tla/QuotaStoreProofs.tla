-------------------------- MODULE QuotaStoreProofs --------------------------
(***************************************************************************)
(* The quotas on a database that fails and restarts.                       *)
(*                                                                         *)
(* The argument: what each operation lists covers what it changes, so one  *)
(* successful write makes the database equal to memory; otherwise the      *)
(* database stays as good as it was, and is what a restart finds.          *)
(***************************************************************************)
EXTENDS QuotaStore, QuotaProofs

----------------------------------------------------------------------------
(* The invariant *)

DiskTyped ==
  /\ disk.status \in [Keys -> Statuses]
  /\ disk.bound \in [Keys -> Plans \cup {Nil}]
  /\ disk.cycles \in [Keys -> [Windows -> Cycle]]
  /\ disk.plans \in SUBSET Plans
  /\ disk.shared \in [Plans -> BOOLEAN]
  /\ disk.windows \in [Plans -> [Windows -> Window]]
  /\ disk.pool \in [Plans -> [Windows -> Cycle]]

DiskKeyGood(k) ==
  IF disk.bound[k] = Nil THEN disk.cycles[k] = NoCycles
  ELSE /\ disk.bound[k] \in disk.plans
       /\ Good(disk.cycles[k], disk.windows[disk.bound[k]], disk.bound[k], clock)

DiskPlanGood(p) ==
  /\ p \in disk.plans => /\ ValidPlan(disk.windows[p], disk.shared[p])
                         /\ Good(disk.pool[p], disk.windows[p], p, clock)
  /\ p \notin disk.plans \/ ~disk.shared[p] => disk.pool[p] = NoCycles

DiskKeyBacked(k) ==
  disk.bound[k] # Nil /\ disk.shared[disk.bound[k]]
    => Backs(disk.cycles[k], disk.pool[disk.bound[k]], clock)

DiskGood ==
  /\ DiskTyped
  /\ \A k \in Keys : DiskKeyGood(k) /\ DiskKeyBacked(k)
  /\ \A p \in Plans : DiskPlanGood(p)

StoreInv == IInv /\ DiskGood /\ PendingCovers /\ EditsAreSaved

LEMMA InvParts ==
  ASSUME IInv
  PROVE  /\ TypeOK /\ clock \in Nat
         /\ \A k \in Keys : KeyGood(k) /\ KeyBacked(k)
         /\ \A p \in Plans : PlanGood(p)
BY IInvParts DEF IInv, Parts, TypeOK

LEMMA InvPartsNext ==
  IInv' => /\ TypeOK' /\ clock' \in Nat
           /\ \A k \in Keys : KeyGood(k)' /\ KeyBacked(k)'
           /\ \A p \in Plans : PlanGood(p)'
<1>1. IInv' => TypeOK'
  BY DEF IInv
<1>2. IInv' /\ TypeOK' => Parts'
  BY IInvPartsNext
<1>3. TypeOK' => clock' \in Nat
  BY DEF TypeOK
<1> QED
  BY <1>1, <1>2, <1>3 DEF Parts

----------------------------------------------------------------------------
(* The database as time passes and writes succeed *)

LEMMA GoodLater ==
  ASSUME NEW cs \in [Windows -> Cycle], NEW ws, NEW p, NEW now \in Nat, NEW later \in Nat,
         now <= later, Good(cs, ws, p, now)
  PROVE  Good(cs, ws, p, later)
BY DEF Good, GoodCycle, Cycle

LEMMA BacksLater ==
  ASSUME NEW cs \in [Windows -> Cycle], NEW ps, NEW now \in Nat, NEW later \in Nat,
         now <= later, Backs(cs, ps, now)
  PROVE  Backs(cs, ps, later)
BY DEF Backs, Cycle

LEMMA DiskStays ==
  ASSUME DiskGood, disk' = disk, clock \in Nat, clock' \in Nat, clock <= clock'
  PROVE  DiskGood'
<1>1. DiskTyped'
  BY DEF DiskGood, DiskTyped
<1>2. ASSUME NEW k \in Keys PROVE DiskKeyGood(k)'
  <2>1. DiskKeyGood(k) /\ disk.cycles[k] \in [Windows -> Cycle]
    BY DEF DiskGood, DiskTyped
  <2> QED
    BY <2>1, GoodLater DEF DiskKeyGood
<1>3. ASSUME NEW k \in Keys PROVE DiskKeyBacked(k)'
  <2>1. DiskKeyBacked(k) /\ disk.cycles[k] \in [Windows -> Cycle]
    BY DEF DiskGood, DiskTyped
  <2> QED
    BY <2>1, BacksLater DEF DiskKeyBacked
<1>4. ASSUME NEW p \in Plans PROVE DiskPlanGood(p)'
  <2>1. DiskPlanGood(p) /\ disk.pool[p] \in [Windows -> Cycle]
    BY DEF DiskGood, DiskTyped
  <2> QED
    BY <2>1, GoodLater DEF DiskPlanGood
<1> QED
  BY <1>1, <1>2, <1>3, <1>4 DEF DiskGood

LEMMA DiskIsMemory ==
  ASSUME IInv', disk' = Memory'
  PROVE  DiskGood'
<1>1. /\ disk'.status = status' /\ disk'.bound = bound' /\ disk'.cycles = cycles'
      /\ disk'.plans = plans' /\ disk'.shared = shared' /\ disk'.windows = windows'
      /\ disk'.pool = pool'
  BY DEF Memory
<1>2. DiskTyped'
  BY <1>1, InvPartsNext DEF DiskTyped, TypeOK
<1>3. ASSUME NEW k \in Keys PROVE DiskKeyGood(k)' /\ DiskKeyBacked(k)'
  BY <1>1, InvPartsNext DEF DiskKeyGood, DiskKeyBacked, KeyGood, KeyBacked
<1>4. ASSUME NEW p \in Plans PROVE DiskPlanGood(p)'
  BY <1>1, InvPartsNext DEF DiskPlanGood, PlanGood
<1> QED
  BY <1>2, <1>3, <1>4 DEF DiskGood

\* The changes all name everything in which the new memory differs from the database.
Names(all) ==
  /\ all.plans \/ (disk.plans = plans' /\ disk.shared = shared' /\ disk.windows = windows')
  /\ \A k \in Keys \ all.keys :
       disk.status[k] = status'[k] /\ disk.bound[k] = bound'[k] /\ disk.cycles[k] = cycles'[k]
  /\ \A p \in Plans \ all.pools : all.plans \/ disk.pool[p] = pool'[p]

LEMMA CommitSaves ==
  ASSUME IInv', DiskGood, NEW all, Names(all), Commit(all)
  PROVE  disk' = Memory' /\ dirty' = Nothing
<1>1. disk' = Saved(disk, Memory', all) /\ dirty' = Nothing
  BY DEF Commit
<1>2. TypeOK' /\ \A p \in Plans : PlanGood(p)'
  BY InvPartsNext
<1>3. /\ Memory'.status = status' /\ Memory'.bound = bound' /\ Memory'.cycles = cycles'
      /\ Memory'.plans = plans' /\ Memory'.shared = shared' /\ Memory'.windows = windows'
      /\ Memory'.pool = pool'
  BY DEF Memory
<1>4. /\ [k \in Keys |-> IF k \in all.keys THEN status'[k] ELSE disk.status[k]] = status'
      /\ [k \in Keys |-> IF k \in all.keys THEN bound'[k] ELSE disk.bound[k]] = bound'
      /\ [k \in Keys |-> IF k \in all.keys THEN cycles'[k] ELSE disk.cycles[k]] = cycles'
  BY <1>2 DEF Names, TypeOK
<1>5. /\ (IF all.plans THEN plans' ELSE disk.plans) = plans'
      /\ (IF all.plans THEN shared' ELSE disk.shared) = shared'
      /\ (IF all.plans THEN windows' ELSE disk.windows) = windows'
  BY DEF Names
<1> DEFINE written == {p \in Plans : all.plans \/ (p \in all.pools /\ p \in disk.plans /\ p \in plans')}
<1>6. ASSUME NEW p \in Plans, p \notin written PROVE disk.pool[p] = pool'[p]
  <2>1. CASE p \notin all.pools
    BY <1>6, <2>1 DEF Names
  <2>2. CASE p \in all.pools
    <3>1. p \notin disk.plans /\ p \notin plans'
      BY <1>6, <2>2 DEF Names
    <3>2. disk.pool[p] = NoCycles
      BY <3>1 DEF DiskGood, DiskPlanGood
    <3>3. pool'[p] = NoCycles
      BY <1>2, <3>1 DEF PlanGood
    <3> QED
      BY <3>2, <3>3
  <2> QED
    BY <2>1, <2>2
<1> HIDE DEF written
<1>7. [p \in Plans |-> IF p \in written THEN pool'[p] ELSE disk.pool[p]] = pool'
  BY <1>2, <1>6 DEF TypeOK
<1> QED
  BY <1>1, <1>3, <1>4, <1>5, <1>7 DEF Saved, Memory, written

----------------------------------------------------------------------------
(* Keeping and publishing changes *)

\* A database equal to memory leaves nothing pending.
LEMMA SavedInv ==
  ASSUME IInv', disk' = Memory', dirty' = Nothing
  PROVE  StoreInv'
<1>1. /\ disk'.status = status' /\ disk'.bound = bound' /\ disk'.cycles = cycles'
      /\ disk'.plans = plans' /\ disk'.shared = shared' /\ disk'.windows = windows'
      /\ disk'.pool = pool'
  BY DEF Memory
<1>2. DiskGood'
  BY DiskIsMemory
<1>3. ~dirty'.plans
  BY DEF Nothing, Changed
<1>4. PendingCovers'
  BY <1>1, <1>3 DEF PendingCovers
<1>5. EditsAreSaved'
  BY <1>1 DEF EditsAreSaved
<1> QED
  BY <1>2, <1>4, <1>5 DEF StoreInv

\* The changes of a step name everything that the step does to memory.
Covers(changes) ==
  /\ changes.plans \/ UNCHANGED <<plans, shared, windows>>
  /\ \A k \in Keys \ changes.keys :
       status'[k] = status[k] /\ bound'[k] = bound[k] /\ cycles'[k] = cycles[k]
  /\ \A p \in Plans \ changes.pools : changes.plans \/ pool'[p] = pool[p]

LEMMA MergeFields ==
  ASSUME NEW old, NEW new
  PROVE  /\ Merge(old, new).keys = old.keys \cup new.keys
         /\ Merge(old, new).plans = (old.plans \/ new.plans)
         /\ Merge(old, new).pools = old.pools \cup new.pools
BY DEF Merge

LEMMA CoversNames ==
  ASSUME StoreInv, NEW changes, Covers(changes)
  PROVE  Names(Merge(dirty, changes))
<1> DEFINE all == Merge(dirty, changes)
<1>1. /\ all.keys = dirty.keys \cup changes.keys
      /\ all.plans = (dirty.plans \/ changes.plans)
      /\ all.pools = dirty.pools \cup changes.pools
  BY MergeFields
<1> HIDE DEF all
<1>2. PendingCovers /\ EditsAreSaved
  BY DEF StoreInv
<1>3. all.plans \/ (disk.plans = plans' /\ disk.shared = shared' /\ disk.windows = windows')
  BY <1>1, <1>2 DEF Covers, EditsAreSaved
<1>4. ASSUME NEW k \in Keys \ all.keys
      PROVE  disk.status[k] = status'[k] /\ disk.bound[k] = bound'[k] /\ disk.cycles[k] = cycles'[k]
  BY <1>1, <1>2 DEF Covers, PendingCovers
<1>5. ASSUME NEW p \in Plans \ all.pools PROVE all.plans \/ disk.pool[p] = pool'[p]
  BY <1>1, <1>2 DEF Covers, PendingCovers
<1> QED
  BY <1>3, <1>4, <1>5 DEF Names, all

LEMMA PublishInv ==
  ASSUME StoreInv, IInv', NEW changes, Covers(changes), Publish(changes)
  PROVE  StoreInv'
<1>1. DiskGood
  BY DEF StoreInv
<1> QED
  BY <1>1, CoversNames, CommitSaves, SavedInv DEF Publish

\* Admission, usage and views leave to edits what only edits may change.
Lasting ==
  /\ UNCHANGED <<clock, bound, plans, shared, windows>>
  /\ \A k \in Keys : status'[k] \in {"config", "deleted"} => status'[k] = status[k]

LEMMA KeepInv ==
  ASSUME StoreInv, IInv', Lasting, NEW changes, ~changes.plans, Covers(changes), Keep(changes)
  PROVE  StoreInv'
<1> DEFINE all == Merge(dirty, changes)
<1>1. DiskGood /\ PendingCovers /\ EditsAreSaved /\ clock \in Nat
  BY InvParts DEF StoreInv
<1>2. Names(all)
  BY CoversNames
<1>3. /\ all.keys = dirty.keys \cup changes.keys
      /\ all.plans = (dirty.plans \/ changes.plans)
      /\ all.pools = dirty.pools \cup changes.pools
  BY MergeFields
<1>4. CASE Commit(all)
  BY <1>1, <1>2, <1>4, CommitSaves, SavedInv
<1>5. CASE dirty' = all /\ UNCHANGED disk
  <2> HIDE DEF all
  <2>1. DiskGood'
    BY <1>1, <1>5, DiskStays DEF Lasting
  <2>2. ~dirty'.plans
    BY <1>1, <1>3, <1>5 DEF PendingCovers
  <2>3. PendingCovers'
    BY <1>2, <1>5, <2>2 DEF PendingCovers, Names
  <2>4. EditsAreSaved'
    BY <1>1, <1>5 DEF EditsAreSaved, Lasting
  <2> QED
    BY <2>1, <2>3, <2>4 DEF StoreInv
<1> QED
  BY <1>4, <1>5 DEF Keep

\* Writing what is pending, and nothing else.
LEMMA FlushInv ==
  ASSUME StoreInv, IInv', Flush
  PROVE  StoreInv'
<1>1. DiskGood /\ PendingCovers /\ EditsAreSaved
  BY DEF StoreInv
<1>2. UNCHANGED <<status, bound, cycles, plans, shared, windows, pool>>
  BY DEF Flush, vars, keyVars, planVars
<1>3. Names(dirty)
  BY <1>1, <1>2 DEF Names, PendingCovers, EditsAreSaved
<1> QED
  BY <1>1, <1>3, CommitSaves, SavedInv DEF Flush

----------------------------------------------------------------------------
(* A restart *)

LEMMA RestartInv ==
  ASSUME StoreInv, NEW hostLives \in BOOLEAN, Restart(hostLives)
  PROVE  StoreInv'
<1>1. /\ TypeOK /\ clock \in Nat /\ DiskGood /\ clock' = clock /\ disk' = disk
      /\ status' = disk.status /\ bound' = disk.bound /\ cycles' = disk.cycles
      /\ plans' = disk.plans /\ shared' = disk.shared /\ windows' = disk.windows
      /\ pool' = disk.pool /\ dirty' = Nothing
  BY InvParts DEF StoreInv, Restart
<1>2. /\ requests' \in [Requests -> Request]
      /\ \A r \in Requests :
           /\ requests'[r].stage # "idle" => requests'[r].key \in Keys
           /\ requests'[r].stage \in {"arrived", "running", "helper"} => requests'[r].at \in StartTime..clock
           /\ requests'[r].stage \in {"admitted", "running"} => \A w \in Windows : requests'[r].ends[w] = 0
  <2>1. CASE hostLives
    <3> DEFINE gone == [k \in Keys |-> IF k \in Keys THEN Windows ELSE {}]
    <3>1. requests' = CutKeys(Keys) /\ requests' = CutWindows(gone)
      BY <2>1 DEF Restart, CutKeys
    <3>2. gone \in [Keys -> SUBSET Windows] /\ \A k \in Keys : gone[k] = Windows
      OBVIOUS
    <3> HIDE DEF gone
    <3>3. ASSUME NEW r \in Requests, NEW w \in Windows, requests'[r].stage \in {"admitted", "running"}
          PROVE  requests'[r].ends[w] = 0
      <4>1. requests[r].stage \in {"admitted", "running"} /\ requests[r].key \in Keys
        BY <1>1, <3>1, <3>2, <3>3, CutWindowsType DEF TypeOK
      <4> QED
        BY <1>1, <3>1, <3>2, <4>1, CutWindowsEnds
    <3>4. /\ requests' \in [Requests -> Request]
          /\ \A r \in Requests : /\ requests'[r].stage = requests[r].stage
                                 /\ requests'[r].key = requests[r].key
                                 /\ requests'[r].at = requests[r].at
      BY ZenonT(60), <1>1, <3>1, CutKeysType
    <3>5. \A r \in Requests :
            /\ requests[r].stage # "idle" => requests[r].key \in Keys
            /\ requests[r].stage \in {"arrived", "running", "helper"} => requests[r].at \in StartTime..clock
      BY <1>1 DEF TypeOK
    <3> QED
      BY <3>3, <3>4, <3>5
  <2>2. CASE ~hostLives
    <3>1. \A r \in Requests : requests'[r] = Idle
      BY <2>2 DEF Restart
    <3>2. requests' \in [Requests -> Request]
      BY <2>2, IdleType DEF Restart
    <3> QED
      BY <3>1, <3>2, IdleType
  <2> QED
    BY <2>1, <2>2
<1>3. TypeOK'
  BY <1>1, <1>2 DEF TypeOK, DiskGood, DiskTyped
<1>4. ASSUME NEW k \in Keys PROVE KeyGood(k)' /\ KeyBacked(k)'
  BY <1>1 DEF DiskGood, DiskKeyGood, DiskKeyBacked, KeyGood, KeyBacked
<1>5. ASSUME NEW p \in Plans PROVE PlanGood(p)'
  BY <1>1 DEF DiskGood, DiskPlanGood, PlanGood
<1>6. ASSUME NEW r \in Requests PROVE RequestHeld(r)'
  BY SMTT(30), <1>1, <1>2 DEF RequestHeld, HeldBy
<1>7. IInv'
  BY <1>3, <1>4, <1>5, <1>6, IInvPartsNext DEF Parts
<1>8. DiskGood'
  BY <1>1, DiskStays
<1>9. PendingCovers' /\ EditsAreSaved'
  BY <1>1 DEF PendingCovers, EditsAreSaved, Nothing, Changed
<1> QED
  BY <1>7, <1>8, <1>9 DEF StoreInv

----------------------------------------------------------------------------
(* What operations list covers what they change: expiry *)

Dated(cs) == \A w \in Windows : cs[w] # ZeroCycle => 0 < cs[w].start

LEMMA AllDated ==
  ASSUME IInv
  PROVE  /\ \A k \in Keys : cycles[k] \in [Windows -> Cycle] /\ Dated(cycles[k])
         /\ \A p \in Plans : pool[p] \in [Windows -> Cycle] /\ Dated(pool[p])
BY DEF IInv, TypeOK, Dates, Past, Dated

LEMMA SettleSame ==
  ASSUME NEW cs \in [Windows -> Cycle], Dated(cs), NEW now, ~Settles(cs, now)
  PROVE  Settle(cs, now) = cs
<1>1. ASSUME NEW w \in Windows, now >= cs[w].end PROVE cs[w] = ZeroCycle
  <2>1. ~Started(cs[w]) /\ cs[w].start \in Nat
    BY <1>1 DEF Settles, Cycle
  <2> QED
    BY <2>1 DEF Dated, Started
<1> QED
  BY <1>1 DEF Settle

\* A pool that is looked at and not listed has nothing to expire.
LEMMA PoolSettleSame ==
  ASSUME IInv, NEW ps, NEW p \in ps \cap Plans, NEW now \in Nat, p \notin SettledPools(ps, now)
  PROVE  Settle(pool[p], now) = pool[p]
<1>1. CASE p \in plans
  <2>1. ~Settles(pool[p], now)
    BY <1>1 DEF SettledPools
  <2> QED
    BY <2>1, AllDated, SettleSame
<1>2. CASE p \notin plans
  <2>1. pool[p] = NoCycles
    BY <1>2 DEF IInv, Loadable
  <2> QED
    BY <2>1 DEF Settle, NoCycles, ZeroCycle
<1> QED
  BY <1>1, <1>2

LEMMA ArrivedPlan ==
  ASSUME IInv, NEW r \in Requests, requests[r].stage # "idle"
  PROVE  /\ requests[r].key \in Keys /\ requests[r].at \in Nat
         /\ bound[requests[r].key] \in Plans \cup {Nil}
         /\ bound[requests[r].key] # Nil => /\ bound[requests[r].key] \in Plans \cap plans
                                           /\ PlanOf(requests[r].key) = {bound[requests[r].key]}
<1>1. requests[r].key \in Keys /\ requests[r].at \in Nat
  BY DEF IInv, TypeOK, Request
<1>2. bound[requests[r].key] \in Plans \cup {Nil}
  BY <1>1 DEF IInv, TypeOK
<1>3. bound[requests[r].key] # Nil => bound[requests[r].key] \in plans
  BY <1>1 DEF IInv, Loadable
<1> QED
  BY <1>1, <1>2, <1>3 DEF PlanOf

LEMMA RefuseCovers ==
  ASSUME IInv, NEW r \in Requests, AuthorizeRefuse(r)
  PROVE  Covers(SaveRefused(r)) /\ Lasting
<1> DEFINE k == requests[r].key
           p == bound[k]
           at == requests[r].at
<1>1. /\ cycles' = [cycles EXCEPT ![k] = Settle(cycles[k], at)]
      /\ pool' = [pool EXCEPT ![p] = Settle(pool[p], at)]
      /\ UNCHANGED <<clock, status, bound, plans, shared, windows>>
      /\ p # Nil /\ requests[r].stage # "idle"
  BY DEF AuthorizeRefuse, SettledKey, SettledPool
<1>2. /\ SaveRefused(r).keys = IF Settles(cycles[k], at) THEN {k} ELSE {}
      /\ SaveRefused(r).pools = SettledPools(PlanOf(k), at)
  BY DEF SaveRefused, Changed
<1>3. k \in Keys /\ at \in Nat /\ p \in Plans /\ PlanOf(k) = {p}
  BY <1>1, ArrivedPlan
<1> HIDE DEF k, p, at
<1>4. ASSUME NEW j \in Keys \ SaveRefused(r).keys PROVE cycles'[j] = cycles[j]
  BY <1>1, <1>2, <1>3, <1>4, AllDated, SettleSame DEF IInv, TypeOK
<1>5. ASSUME NEW o \in Plans \ SaveRefused(r).pools PROVE pool'[o] = pool[o]
  <2>1. CASE o # p
    BY <1>1, <2>1 DEF IInv, TypeOK
  <2>2. CASE o = p
    <3>1. Settle(pool[p], at) = pool[p]
      BY <1>2, <1>3, <1>5, <2>2, PoolSettleSame
    <3> QED
      BY <1>1, <2>2, <3>1 DEF IInv, TypeOK
  <2> QED
    BY <2>1, <2>2
<1> QED
  BY <1>1, <1>4, <1>5 DEF Covers, Lasting

LEMMA ActivateSame ==
  ASSUME NEW cs \in [Windows -> Cycle], NEW ws, NEW p, NEW at, ~Activates(cs, ws)
  PROVE  Activate(cs, ws, p, at) = cs
BY DEF Activates, Activate

LEMMA AdmitCovers ==
  ASSUME IInv, NEW r \in Requests, AuthorizeAdmit(r)
  PROVE  Covers(SaveAdmitted(r)) /\ Lasting
<1> DEFINE k == requests[r].key
           p == bound[k]
           at == requests[r].at
           own == Activates(SettledKey(r), windows[p])
           common == shared[p] /\ Activates(SettledPool(r), windows[p])
           cs == Activate(SettledKey(r), windows[p], p, at)
           ps == IF shared[p] THEN Activate(SettledPool(r), windows[p], p, at) ELSE SettledPool(r)
<1>1. /\ cycles' = [cycles EXCEPT ![k] = cs]
      /\ pool' = [pool EXCEPT ![p] = ps]
      /\ UNCHANGED <<clock, status, bound, plans, shared, windows>>
      /\ p # Nil /\ requests[r].stage # "idle"
  BY DEF AuthorizeAdmit
<1>2. /\ SaveAdmitted(r).keys = (IF Settles(cycles[k], at) THEN {k} ELSE {})
                                  \cup (IF own THEN {k} ELSE {})
      /\ SaveAdmitted(r).pools = SettledPools(PlanOf(k), at) \cup (IF common THEN {p} ELSE {})
  BY MergeFields DEF SaveAdmitted, SaveRefused, Changed
<1>3. k \in Keys /\ at \in Nat /\ p \in Plans /\ PlanOf(k) = {p}
  BY <1>1, ArrivedPlan
<1>4. SettledKey(r) = Settle(cycles[k], at) /\ SettledPool(r) = Settle(pool[p], at)
  BY DEF SettledKey, SettledPool
<1>5. SettledKey(r) \in [Windows -> Cycle] /\ SettledPool(r) \in [Windows -> Cycle]
  BY <1>3, <1>4, AllDated, SettleType
<1>6. ASSUME k \notin SaveAdmitted(r).keys PROVE cs = cycles[k]
  <2>1. ~own /\ ~Settles(cycles[k], at)
    BY <1>2, <1>6
  <2>2. cs = SettledKey(r)
    BY <1>5, <2>1, ActivateSame
  <2> QED
    BY <1>3, <1>4, <2>1, <2>2, AllDated, SettleSame
<1>7. ASSUME p \notin SaveAdmitted(r).pools PROVE ps = pool[p]
  <2>1. ~common /\ p \notin SettledPools(PlanOf(k), at)
    BY <1>2, <1>7
  <2>2. ps = SettledPool(r)
    BY <1>5, <2>1, ActivateSame
  <2> QED
    BY <1>3, <1>4, <2>1, <2>2, PoolSettleSame
<1> HIDE DEF k, p, at, own, common, cs, ps
<1>8. ASSUME NEW j \in Keys \ SaveAdmitted(r).keys PROVE cycles'[j] = cycles[j]
  BY <1>1, <1>6, <1>8 DEF IInv, TypeOK
<1>9. ASSUME NEW o \in Plans \ SaveAdmitted(r).pools PROVE pool'[o] = pool[o]
  BY <1>1, <1>7, <1>9 DEF IInv, TypeOK
<1> QED
  BY <1>1, <1>8, <1>9 DEF Covers, Lasting

----------------------------------------------------------------------------
(* Usage and views *)

\* A pool no window of which is charged stays what it is.
LEMMA ChargePoolSame ==
  ASSUME NEW ps \in [Windows -> Cycle], NEW cs, NEW p, NEW at, NEW usage,
         ~\E w \in Windows : Accepts(cs[w], p, at) /\ Accepts(ps[w], p, at)
  PROVE  ChargePool(ps, cs, p, at, usage) = ps
BY DEF ChargePool

LEMMA UsageCovers ==
  ASSUME IInv, NEW r \in Requests, NEW usage \in Usages, NEW timed \in BOOLEAN, NEW now \in Instants,
         RecordUsage(r, usage, timed, now)
  PROVE  Covers(SaveUsage(r, timed, now)) /\ Lasting
<1> DEFINE k == requests[r].key
           p == bound[k]
           at == IF timed THEN requests[r].at ELSE 0
           cs == Settle(ChargeKey(cycles[k], p, at, usage), now)
           charged == IF shared[p] THEN ChargePool(pool[p], cycles[k], p, at, usage) ELSE pool[p]
           chargedPools == {o \in PlanOf(k) :
                              /\ shared[o]
                              /\ \E w \in Windows : Accepts(cycles[k][w], o, at) /\ Accepts(pool[o][w], o, at)}
<1>1. /\ status' = [status EXCEPT ![k] = IF @ = "unknown" THEN "traffic" ELSE @]
      /\ cycles' = [cycles EXCEPT ![k] = cs]
      /\ UNCHANGED <<clock, bound, plans, shared, windows>>
      /\ requests[r].stage # "idle"
  BY DEF RecordUsage
<1>2. pool' = IF p = Nil THEN pool ELSE [pool EXCEPT ![p] = Settle(charged, now)]
  BY DEF RecordUsage
<1>3. /\ SaveUsage(r, timed, now).keys = {k}
      /\ SaveUsage(r, timed, now).pools = chargedPools \cup SettledPools(PlanOf(k), now)
  BY DEF SaveUsage, Changed
<1>4. k \in Keys /\ now \in Nat /\ (p # Nil => p \in Plans /\ PlanOf(k) = {p})
  BY <1>1, ArrivedPlan, QuotaAssumption DEF Instants
<1>5. ASSUME p # Nil, p \notin SaveUsage(r, timed, now).pools PROVE Settle(charged, now) = pool[p]
  <2>1. p \notin chargedPools /\ p \notin SettledPools(PlanOf(k), now)
    BY <1>3, <1>5
  <2>2. charged = pool[p]
    <3>1. CASE shared[p]
      <4>1. ~\E w \in Windows : Accepts(cycles[k][w], p, at) /\ Accepts(pool[p][w], p, at)
        BY <1>4, <1>5, <2>1, <3>1
      <4>2. pool[p] \in [Windows -> Cycle]
        BY <1>4, <1>5, AllDated
      <4> QED
        BY <3>1, <4>1, <4>2, ChargePoolSame
    <3>2. CASE ~shared[p]
      BY <3>2
    <3> QED
      BY <3>1, <3>2
  <2>3. p \in PlanOf(k) \cap Plans
    BY <1>4, <1>5
  <2> QED
    BY <1>4, <2>1, <2>2, <2>3, PoolSettleSame
<1> HIDE DEF k, p, at, cs, charged, chargedPools
<1>6. ASSUME NEW j \in Keys \ SaveUsage(r, timed, now).keys
      PROVE  cycles'[j] = cycles[j] /\ status'[j] = status[j]
  BY <1>1, <1>3, <1>6 DEF IInv, TypeOK
<1>7. ASSUME NEW o \in Plans \ SaveUsage(r, timed, now).pools PROVE pool'[o] = pool[o]
  <2>1. CASE p = Nil \/ o # p
    BY <1>2, <2>1 DEF IInv, TypeOK
  <2>2. CASE p # Nil /\ o = p
    BY <1>2, <1>5, <1>7, <2>2 DEF IInv, TypeOK
  <2> QED
    BY <2>1, <2>2
<1>8. ASSUME NEW j \in Keys, status'[j] \in {"config", "deleted"} PROVE status'[j] = status[j]
  BY <1>1, <1>8 DEF IInv, TypeOK
<1> QED
  BY <1>1, <1>6, <1>7, <1>8 DEF Covers, Lasting

LEMMA KeyViewsCovers ==
  ASSUME IInv, NEW now \in Instants, KeyViews(now)
  PROVE  Covers(SaveKeyViews(now)) /\ Lasting
<1>1. UNCHANGED <<clock, status, bound, plans, shared, windows>> /\ now \in Nat
  BY QuotaAssumption DEF KeyViews, Instants
<1>2. /\ SaveKeyViews(now).keys = {k \in Keys : Live(k) /\ Settles(cycles[k], now)}
      /\ SaveKeyViews(now).pools = SettledPools(plans, now)
  BY DEF SaveKeyViews, Changed
<1>3. ASSUME NEW k \in Keys \ SaveKeyViews(now).keys PROVE cycles'[k] = cycles[k]
  <2>1. CASE Live(k)
    BY <1>2, <1>3, <2>1, AllDated, SettleSame DEF KeyViews
  <2>2. CASE ~Live(k)
    BY <2>2 DEF KeyViews
  <2> QED
    BY <2>1, <2>2
<1>4. ASSUME NEW p \in Plans \ SaveKeyViews(now).pools PROVE pool'[p] = pool[p]
  <2>1. SettledPools(Plans, now) = SettledPools(plans, now)
    BY DEF SettledPools, IInv, TypeOK
  <2>2. Settle(pool[p], now) = pool[p]
    BY <1>1, <1>2, <1>4, <2>1, PoolSettleSame
  <2> QED
    BY <2>2 DEF KeyViews
<1> QED
  BY <1>1, <1>3, <1>4 DEF Covers, Lasting

LEMMA PlanViewsCovers ==
  ASSUME IInv, NEW now \in Instants, PlanViews(now)
  PROVE  Covers(SavePlanViews(now)) /\ Lasting
<1>1. UNCHANGED <<clock, status, bound, cycles, plans, shared, windows>> /\ now \in Nat
  BY QuotaAssumption DEF PlanViews, Instants, keyVars
<1>2. SavePlanViews(now).pools = SettledPools({p \in plans : shared[p]}, now)
  BY DEF SavePlanViews, Changed
<1>3. ASSUME NEW p \in Plans \ SavePlanViews(now).pools PROVE pool'[p] = pool[p]
  <2>1. CASE shared[p]
    <3>1. p \notin SettledPools(Plans, now)
      BY <1>2, <1>3, <2>1 DEF SettledPools
    <3>2. Settle(pool[p], now) = pool[p]
      BY <1>1, <3>1, PoolSettleSame
    <3> QED
      BY <3>2, <2>1 DEF PlanViews
  <2>2. CASE ~shared[p]
    BY <2>2 DEF PlanViews
  <2> QED
    BY <2>1, <2>2
<1> QED
  BY <1>1, <1>3 DEF Covers, Lasting

LEMMA KeyViewCovers ==
  ASSUME IInv, NEW k \in Keys, KeyViewForScope(k)
  PROVE  Covers(SaveKeyView(k)) /\ Lasting
<1>1. /\ UNCHANGED <<clock, status, bound, plans, shared, windows>>
      /\ cycles' = [cycles EXCEPT ![k] = Settle(cycles[k], clock)]
      /\ pool' = IF bound[k] = Nil THEN pool
                 ELSE [pool EXCEPT ![bound[k]] = Settle(pool[bound[k]], clock)]
  BY DEF KeyViewForScope
<1>2. /\ SaveKeyView(k).keys = IF Settles(cycles[k], clock) THEN {k} ELSE {}
      /\ SaveKeyView(k).pools = SettledPools(PlanOf(k), clock)
  BY DEF SaveKeyView, Changed
<1>3. clock \in Nat /\ bound[k] \in Plans \cup {Nil}
  BY DEF IInv, TypeOK
<1>4. ASSUME NEW j \in Keys \ SaveKeyView(k).keys PROVE cycles'[j] = cycles[j]
  BY <1>1, <1>2, <1>4, AllDated, SettleSame DEF IInv, TypeOK
<1>5. ASSUME NEW o \in Plans \ SaveKeyView(k).pools PROVE pool'[o] = pool[o]
  <2>1. CASE bound[k] = Nil \/ o # bound[k]
    BY <1>1, <2>1 DEF IInv, TypeOK
  <2>2. CASE bound[k] # Nil /\ o = bound[k]
    <3>1. o \in PlanOf(k) \cap Plans
      BY <2>2 DEF PlanOf
    <3>2. Settle(pool[o], clock) = pool[o]
      BY <1>2, <1>3, <1>5, <3>1, PoolSettleSame
    <3> QED
      BY <1>1, <2>2, <3>2 DEF IInv, TypeOK
  <2> QED
    BY <2>1, <2>2
<1> QED
  BY <1>1, <1>4, <1>5 DEF Covers, Lasting

----------------------------------------------------------------------------
(* Edits *)

LEMMA SyncCovers ==
  ASSUME IInv, NEW listed \in SUBSET Keys, NEW allowEmpty \in BOOLEAN, SyncKeys(listed, allowEmpty)
  PROVE  Covers(SaveSync(listed))
<1>1. UNCHANGED <<bound, cycles, plans, shared, windows, pool>>
  BY DEF SyncKeys, planVars
<1> DEFINE changed == {k \in Keys : k \in listed <=> status[k] # "config"}
<1>2. SaveSync(listed).keys = IF changed # {} THEN Keys ELSE {}
  BY DEF SaveSync, Changed
<1>3. ASSUME NEW k \in Keys \ SaveSync(listed).keys PROVE status'[k] = status[k]
  <2>1. ~(k \in listed <=> status[k] # "config")
    BY <1>2, <1>3
  <2> QED
    BY <2>1 DEF SyncKeys
<1> QED
  BY <1>1, <1>3 DEF Covers

LEMMA BindCovers ==
  ASSUME IInv, NEW k \in Keys, NEW p \in Plans \cup {Nil}, BindPlan({k}, p),
         UNCHANGED <<status, planVars>>
  PROVE  Covers(SaveBinding(k, p))
<1>1. SaveBinding(k, p).keys = IF bound[k] # p THEN {k} ELSE {}
  BY DEF SaveBinding, Changed
<1>2. ASSUME NEW j \in Keys \ SaveBinding(k, p).keys
      PROVE  bound'[j] = bound[j] /\ cycles'[j] = cycles[j]
  BY <1>1, <1>2 DEF BindPlan
<1> QED
  BY <1>2 DEF Covers, planVars

LEMMA PlansCover ==
  ASSUME NEW ks,
         \A k \in Keys \ ks : status'[k] = status[k] /\ bound'[k] = bound[k] /\ cycles'[k] = cycles[k]
  PROVE  Covers(SavePlans(ks))
BY DEF Covers, SavePlans

LEMMA CreateCovers ==
  ASSUME NEW p, NEW ws, NEW isShared, NEW selected, CreatePlan(p, ws, isShared, selected)
  PROVE  Covers(SavePlans(selected))
<1>1. BindPlan(selected, p) /\ status' = status
  BY DEF CreatePlan
<1>2. \A k \in Keys \ selected : bound'[k] = bound[k] /\ cycles'[k] = cycles[k]
  BY <1>1 DEF BindPlan
<1> QED
  BY <1>1, <1>2, PlansCover

LEMMA ResetCovers ==
  ASSUME NEW ks, NEW ps, ResetQuotas(ks, ps)
  PROVE  Covers(SaveReset(ks, ps))
<1> DEFINE pools == ps \cup {p \in plans : shared[p] /\ \E k \in ks : bound[k] = p}
           reset == {k \in Keys : k \in ks \/ bound[k] \in pools}
<1>1. SaveReset(ks, ps).keys = reset /\ SaveReset(ks, ps).pools = pools
  BY DEF SaveReset, Changed
<1>2. /\ pool' = [p \in Plans |-> IF p \in pools THEN NoCycles ELSE pool[p]]
      /\ cycles' = [k \in Keys |-> IF k \in reset THEN NoCycles ELSE cycles[k]]
      /\ UNCHANGED <<status, bound, plans, shared, windows>>
  BY DEF ResetQuotas
<1> HIDE DEF pools, reset
<1> QED
  BY <1>1, <1>2 DEF Covers

----------------------------------------------------------------------------
(* Every step *)

LEMMA HostInv ==
  ASSUME StoreInv, IInv', HostStep
  PROVE  StoreInv'
<1>1. DiskGood /\ PendingCovers /\ EditsAreSaved /\ clock \in Nat
  BY InvParts DEF StoreInv
<1>2. UNCHANGED <<status, bound, cycles, plans, shared, windows, pool, disk, dirty>>
  BY DEF HostStep, Tick, Arrive, HelperCall, StartAttempt, Retry, Abandon, keyVars, planVars, storeVars
<1>3. clock' = clock \/ clock' = clock + 1
  BY DEF HostStep, Tick, Arrive, HelperCall, StartAttempt, Retry, Abandon
<1>4. DiskGood'
  BY <1>1, <1>2, <1>3, DiskStays
<1>5. PendingCovers' /\ EditsAreSaved'
  BY <1>1, <1>2 DEF PendingCovers, EditsAreSaved
<1> QED
  BY <1>4, <1>5 DEF StoreInv

\* Only edits replace plans.
LEMMA KeepsPlans ==
  /\ ~Nothing.plans
  /\ \A r \in Requests : ~SaveRefused(r).plans /\ ~SaveAdmitted(r).plans
  /\ \A r \in Requests, timed \in BOOLEAN, now \in Instants : ~SaveUsage(r, timed, now).plans
  /\ \A now \in Instants : ~SaveKeyViews(now).plans /\ ~SavePlanViews(now).plans
  /\ \A k \in Keys : ~SaveKeyView(k).plans
BY DEF Nothing, Changed, Merge, SaveRefused, SaveAdmitted, SaveUsage, SaveKeyViews, SavePlanViews, SaveKeyView

LEMMA RequestStoreInv ==
  ASSUME StoreInv, IInv', NEW r \in Requests, StoreRequest(r)
  PROVE  StoreInv'
<1>1. IInv
  BY DEF StoreInv
<1>2. CASE AuthorizeUnlimited(r) /\ Keep(Nothing)
  <2>1. UNCHANGED <<clock, status, bound, cycles, plans, shared, windows, pool>>
    BY <1>2 DEF AuthorizeUnlimited, keyVars, planVars
  <2>2. Covers(Nothing) /\ Lasting
    BY <2>1 DEF Covers, Lasting
  <2> QED
    BY <1>2, <2>2, KeepsPlans, KeepInv
<1>3. CASE AuthorizeAdmit(r) /\ Keep(SaveAdmitted(r))
  BY <1>1, <1>3, AdmitCovers, KeepsPlans, KeepInv
<1>4. CASE AuthorizeRefuse(r) /\ Keep(SaveRefused(r))
  BY <1>1, <1>4, RefuseCovers, KeepsPlans, KeepInv
<1>5. ASSUME NEW usage \in Usages, NEW timed \in BOOLEAN, NEW now \in Instants,
             RecordUsage(r, usage, timed, now), Keep(SaveUsage(r, timed, now))
      PROVE  StoreInv'
  BY <1>1, <1>5, UsageCovers, KeepsPlans, KeepInv
<1> QED
  BY <1>2, <1>3, <1>4, <1>5 DEF StoreRequest

LEMMA ViewStoreInv ==
  ASSUME StoreInv, IInv', StoreView
  PROVE  StoreInv'
<1>1. IInv
  BY DEF StoreInv
<1>2. ASSUME NEW now \in Instants, KeyViews(now), Keep(SaveKeyViews(now)) PROVE StoreInv'
  BY <1>1, <1>2, KeyViewsCovers, KeepsPlans, KeepInv
<1>3. ASSUME NEW now \in Instants, PlanViews(now), Keep(SavePlanViews(now)) PROVE StoreInv'
  BY <1>1, <1>3, PlanViewsCovers, KeepsPlans, KeepInv
<1>4. ASSUME NEW k \in Keys, KeyViewForScope(k), Keep(SaveKeyView(k)) PROVE StoreInv'
  BY <1>1, <1>4, KeyViewCovers, KeepsPlans, KeepInv
<1> QED
  BY <1>2, <1>3, <1>4 DEF StoreView

LEMMA KeyStoreInv ==
  ASSUME StoreInv, IInv', StoreKeys
  PROVE  StoreInv'
<1>1. IInv
  BY DEF StoreInv
<1>2. ASSUME NEW listed \in SUBSET Keys, NEW allowEmpty \in BOOLEAN,
             SyncKeys(listed, allowEmpty), Publish(SaveSync(listed))
      PROVE  StoreInv'
  BY <1>1, <1>2, SyncCovers, PublishInv
<1>3. ASSUME NEW k \in Keys, UnbindKey(k), Publish(SaveBinding(k, Nil)) PROVE StoreInv'
  <2>1. BindPlan({k}, Nil) /\ UNCHANGED <<status, planVars>>
    BY <1>3 DEF UnbindKey
  <2> QED
    BY <1>1, <1>3, <2>1, BindCovers, PublishInv
<1>4. ASSUME NEW k \in Keys, NEW p \in Plans, BindKey(k, p), Publish(SaveBinding(k, p))
      PROVE  StoreInv'
  <2>1. BindPlan({k}, p) /\ UNCHANGED <<status, planVars>>
    BY <1>4 DEF BindKey
  <2> QED
    BY <1>1, <1>4, <2>1, BindCovers, PublishInv
<1> QED
  BY <1>2, <1>3, <1>4 DEF StoreKeys

LEMMA PlanStoreInv ==
  ASSUME StoreInv, IInv', NEW p \in Plans, StorePlan(p)
  PROVE  StoreInv'
<1>1. Covers(SavePlans(Keys))
  BY PlansCover
<1>2. CASE Publish(SavePlans(Keys))
  BY <1>1, <1>2, PublishInv
<1>3. ASSUME NEW ws \in [Windows -> WindowInputs], NEW isShared \in BOOLEAN, NEW selected \in SUBSET Keys,
             CreatePlan(p, ws, isShared, selected), Publish(SavePlans(selected))
      PROVE  StoreInv'
  BY <1>3, CreateCovers, PublishInv
<1> QED
  BY <1>2, <1>3 DEF StorePlan

LEMMA ResetStoreInv ==
  ASSUME StoreInv, IInv', StoreReset
  PROVE  StoreInv'
<1>1. PICK ks, ps : ResetQuotas(ks, ps) /\ Publish(SaveReset(ks, ps))
  BY DEF StoreReset, ResetGlobal, ResetKeys, ResetPlanQuota
<1> QED
  BY <1>1, ResetCovers, PublishInv

\* A step of the store is a step of the quotas, unless it restarts them.
LEMMA StoreSteps ==
  ASSUME StoreNext, ~\E hostLives \in BOOLEAN : Restart(hostLives)
  PROVE  [Next]_vars
<1>1. HostStep => Next
  BY DEF HostStep, Next, RequestStep
<1>2. ASSUME NEW r \in Requests PROVE StoreRequest(r) => Next
  BY DEF StoreRequest, Next, RequestStep
<1>3. StoreView => Next
  BY DEF StoreView, Next, ViewStep
<1>4. StoreKeys => Next
  BY DEF StoreKeys, Next, KeyStep
<1>5. ASSUME NEW p \in Plans PROVE StorePlan(p) => Next
  BY DEF StorePlan, Next, PlanStep
<1>6. StoreReset => Next
  BY DEF StoreReset, Next, ResetStep
<1>7. Flush => UNCHANGED vars
  BY DEF Flush
<1> QED
  BY <1>1, <1>2, <1>3, <1>4, <1>5, <1>6, <1>7 DEF StoreNext

LEMMA InitStore == StoreInit => StoreInv
<1> SUFFICES ASSUME StoreInit PROVE StoreInv
  OBVIOUS
<1>1. IInv
  BY InitInv DEF StoreInit
<1>2. /\ disk.status = status /\ disk.bound = bound /\ disk.cycles = cycles
      /\ disk.plans = plans /\ disk.shared = shared /\ disk.windows = windows
      /\ disk.pool = pool /\ ~dirty.plans
  BY DEF StoreInit, Memory, Nothing, Changed
<1>3. DiskTyped
  BY <1>1, <1>2, InvParts DEF DiskTyped, TypeOK
<1>4. ASSUME NEW k \in Keys PROVE DiskKeyGood(k) /\ DiskKeyBacked(k)
  BY <1>1, <1>2, InvParts DEF DiskKeyGood, DiskKeyBacked, KeyGood, KeyBacked
<1>5. ASSUME NEW p \in Plans PROVE DiskPlanGood(p)
  BY <1>1, <1>2, InvParts DEF DiskPlanGood, PlanGood
<1>6. PendingCovers /\ EditsAreSaved
  BY <1>2 DEF PendingCovers, EditsAreSaved
<1> QED
  BY <1>1, <1>3, <1>4, <1>5, <1>6 DEF StoreInv, DiskGood

LEMMA NextStore == StoreInv /\ [StoreNext]_allVars => StoreInv'
<1> SUFFICES ASSUME StoreInv, [StoreNext]_allVars PROVE StoreInv'
  OBVIOUS
<1>1. CASE UNCHANGED allVars
  <2>1. UNCHANGED vars /\ UNCHANGED <<disk, dirty>>
    BY <1>1 DEF allVars, storeVars
  <2>2. IInv'
    BY <2>1, NextInv DEF StoreInv
  <2>3. UNCHANGED <<clock, status, bound, cycles, plans, shared, windows, pool>>
    BY <2>1 DEF vars, keyVars, planVars
  <2>4. DiskGood'
    BY <2>1, <2>3, InvParts, DiskStays DEF StoreInv
  <2>5. PendingCovers' /\ EditsAreSaved'
    BY <2>1, <2>3 DEF StoreInv, PendingCovers, EditsAreSaved
  <2> QED
    BY <2>2, <2>4, <2>5 DEF StoreInv
<1>2. ASSUME NEW hostLives \in BOOLEAN, Restart(hostLives) PROVE StoreInv'
  BY <1>2, RestartInv
<1>3. CASE StoreNext /\ ~\E hostLives \in BOOLEAN : Restart(hostLives)
  <2>1. IInv'
    BY <1>3, StoreSteps, NextInv DEF StoreInv
  <2>2. CASE HostStep
    BY <2>1, <2>2, HostInv
  <2>3. ASSUME NEW r \in Requests, StoreRequest(r) PROVE StoreInv'
    BY <2>1, <2>3, RequestStoreInv
  <2>4. CASE StoreView
    BY <2>1, <2>4, ViewStoreInv
  <2>5. CASE StoreKeys
    BY <2>1, <2>5, KeyStoreInv
  <2>6. ASSUME NEW p \in Plans, StorePlan(p) PROVE StoreInv'
    BY <2>1, <2>6, PlanStoreInv
  <2>7. CASE StoreReset
    BY <2>1, <2>7, ResetStoreInv
  <2>8. CASE Flush
    BY <2>1, <2>8, FlushInv
  <2> QED
    BY <1>3, <2>2, <2>3, <2>4, <2>5, <2>6, <2>7, <2>8 DEF StoreNext
<1> QED
  BY <1>1, <1>2, <1>3

----------------------------------------------------------------------------
(* Theorems *)

\* With a database that fails and restarts, the quotas keep their invariant, the
\* database stays one that can be loaded, and nothing it lacks is forgotten.
THEOREM StoreInductive == StoreSpec => []StoreInv
BY InitStore, NextStore, PTL DEF StoreSpec

\* Whatever the database lacks is pending.
THEOREM NothingForgotten == StoreSpec => []PendingCovers
<1>1. StoreInv => PendingCovers
  BY DEF StoreInv
<1> QED
  BY <1>1, StoreInductive, PTL

\* An edit that succeeded survives any restart.
THEOREM EditsSurvive == StoreSpec => []EditsAreSaved
<1>1. StoreInv => EditsAreSaved
  BY DEF StoreInv
<1> QED
  BY <1>1, StoreInductive, PTL

\* A shared plan counts what its members use, through failed writes and restarts.
THEOREM PoolSurvives == StoreSpec => []PoolBacksMembers
<1>1. StoreInv => PoolBacksMembers
  BY DEF StoreInv, IInv
<1> QED
  BY <1>1, StoreInductive, PTL

LEMMA SamePlans ==
  ASSUME NEW ws, NEW isShared, ValidPlan(ws, isShared)
  PROVE  OnDisk!ValidPlan(ws, isShared)
BY DEF ValidPlan, Present, Anchored, OnDisk!ValidPlan, OnDisk!Present, OnDisk!Anchored

LEMMA SameCycles ==
  ASSUME NEW cs, NEW ws, NEW p, NEW now, Good(cs, ws, p, now)
  PROVE  OnDisk!ValidCycles(cs, ws, p)
BY DEF Good, GoodCycle, ValidCycle, CycleStart, Present, Anchored, ZeroCycle,
       OnDisk!ValidCycles, OnDisk!ValidCycle, OnDisk!CycleStart, OnDisk!Present, OnDisk!Anchored,
       OnDisk!ZeroCycle

LEMMA DiskGoodLoads == DiskGood => DiskLoads
<1> SUFFICES ASSUME DiskGood PROVE OnDisk!Loadable
  BY DEF DiskLoads
<1>1. OnDisk!NoCycles = NoCycles
  BY DEF NoCycles, ZeroCycle, OnDisk!NoCycles, OnDisk!ZeroCycle
<1>2. ASSUME NEW p \in disk.plans PROVE OnDisk!ValidPlan(disk.windows[p], disk.shared[p])
  BY SamePlans DEF DiskGood, DiskTyped, DiskPlanGood
<1>3. ASSUME NEW p \in Plans
      PROVE  /\ p \in disk.plans => OnDisk!ValidCycles(disk.pool[p], disk.windows[p], p)
             /\ p \notin disk.plans \/ ~disk.shared[p] => disk.pool[p] = OnDisk!NoCycles
  BY <1>1, SameCycles DEF DiskGood, DiskPlanGood
<1>4. ASSUME NEW k \in Keys
      PROVE  IF disk.bound[k] = Nil THEN disk.cycles[k] = OnDisk!NoCycles
             ELSE /\ disk.bound[k] \in disk.plans
                  /\ OnDisk!ValidCycles(disk.cycles[k], disk.windows[disk.bound[k]], disk.bound[k])
  BY <1>1, SameCycles DEF DiskGood, DiskKeyGood
<1> QED
  BY <1>2, <1>3, <1>4 DEF OnDisk!Loadable

\* The database can be loaded after any prefix of successful writes.
THEOREM AlwaysLoads == StoreSpec => []DiskLoads
<1>1. StoreInv => DiskLoads
  BY DiskGoodLoads DEF StoreInv
<1> QED
  BY <1>1, StoreInductive, PTL
=============================================================================
