------------------------------- MODULE Quota -------------------------------
(***************************************************************************)
(* Subscription quotas: the admission of requests, the usage they report   *)
(* later, and the administrator's edits of keys and plans in between.      *)
(*                                                                         *)
(* Every store operation holds the store's lock, so it is one step.  What  *)
(* is not atomic is a request: the plugin reads the clock before it takes  *)
(* the lock to authorize, the host starts an attempt (RequestedAt) some    *)
(* time after that, may retry with another credential, and delivers the    *)
(* usage record at any later time.  A request slot is one such attempt.    *)
(*                                                                         *)
(* Whether a step is saved to the database is the business of QuotaStore. *)
(***************************************************************************)
EXTENDS QuotaCycles

CONSTANTS
  Keys,       \* API key scopes
  Plans,      \* subscription plan IDs
  Requests,   \* attempts that can be in flight at once
  Periods,    \* window lengths an administrator uses
  Anchors,    \* cycle starts an administrator uses, 0 for none
  Limits,     \* window limits an administrator uses
  Usages,     \* what one usage record can consume
  StartTime,  \* the first instant
  MaxTime     \* the last instant (bounds the model)

\* No period reaches from an instant of a run back to the zero time.
ASSUME QuotaAssumption ==
  /\ Nil \notin Keys /\ Nil \notin Plans
  /\ Periods \subseteq Nat \ {0} /\ Limits \subseteq Nat \ {0}
  /\ Anchors \subseteq Nat /\ Usages \subseteq Nat
  /\ StartTime \in Nat \ {0} /\ MaxTime \in Nat
  /\ \A period \in Periods : period < StartTime

VARIABLES
  clock,
  status,     \* of each key: see Live and Known
  bound,      \* PlanID of each key, Nil for none
  cycles,     \* quota cycles of each key
  plans,      \* the plans that exist
  shared,     \* SharedQuota of each plan
  windows,    \* quota windows of each plan
  pool,       \* quota cycles of each shared plan
  requests    \* requests in flight

keyVars  == <<status, bound, cycles>>
planVars == <<plans, shared, windows, pool>>
vars     == <<clock, keyVars, planVars, requests>>

(***************************************************************************)
(* unknown: no record; traffic: seen in usage only; config: CPA holds it;  *)
(* deleted: CPA held it and no longer does.                                *)
(***************************************************************************)
Statuses == {"unknown", "traffic", "config", "deleted"}

Live(k) == status[k] \in {"traffic", "config"}

Members(p) == {k \in Keys : bound[k] = p}

(***************************************************************************)
(* A request: "arrived" holds the instant the plugin read before asking to *)
(* be authorized; "running" and "helper" hold RequestedAt, a helper being  *)
(* a call that no admission precedes.  The last two fields are history:    *)
(* the ends of the cycles its key was left with when the request was       *)
(* admitted, zero for none and for those an edit has removed since; and    *)
(* the windows such edits touched.                                         *)
(***************************************************************************)
Request ==
  [stage : {"idle", "arrived", "admitted", "running", "helper"},
   key : Keys \cup {Nil}, at : Nat,
   ends : [Windows -> Nat], cut : SUBSET Windows]

NoEnds == [w \in Windows |-> 0]
Idle == [stage |-> "idle", key |-> Nil, at |-> 0, ends |-> NoEnds, cut |-> {}]

\* History: an edit takes the cycles of the windows ws[k] of each key k away.
CutWindows(ws) ==
  [r \in Requests |->
     IF requests[r].stage \in {"admitted", "running"}
       THEN [requests[r] EXCEPT !.cut = @ \cup ws[requests[r].key],
                                !.ends = [w \in Windows |-> IF w \in ws[requests[r].key] THEN 0 ELSE @[w]]]
       ELSE requests[r]]

CutKeys(ks) == CutWindows([k \in Keys |-> IF k \in ks THEN Windows ELSE {}])

----------------------------------------------------------------------------
(* Requests *)

\* before-auth interception, up to reading the clock
Arrive(r, k) ==
  /\ requests[r].stage = "idle"
  /\ requests' = [requests EXCEPT ![r] = [Idle EXCEPT !.stage = "arrived", !.key = k, !.at = clock]]
  /\ UNCHANGED <<clock, keyVars, planVars>>

Admitted(r, cs) ==
  requests' = [requests EXCEPT ![r].stage = "admitted", ![r].at = 0,
                               ![r].ends = [w \in Windows |-> cs[w].end]]

AuthorizeUnlimited(r) ==
  /\ requests[r].stage = "arrived"
  /\ bound[requests[r].key] = Nil
  /\ Admitted(r, NoCycles)
  /\ UNCHANGED <<clock, keyVars, planVars>>

\* The cycles a decision looks at, after those over at the request's instant are gone.
SettledKey(r)  == Settle(cycles[requests[r].key], requests[r].at)
SettledPool(r) == Settle(pool[bound[requests[r].key]], requests[r].at)

Blocked(r) ==
  LET p == bound[requests[r].key]
  IN  Exhausted(IF shared[p] THEN SettledPool(r) ELSE SettledKey(r), windows[p])

AuthorizeAdmit(r) ==
  LET k == requests[r].key
      p == bound[k]
      cs == Activate(SettledKey(r), windows[p], p, requests[r].at)
      ps == Activate(SettledPool(r), windows[p], p, requests[r].at)
  IN  /\ requests[r].stage = "arrived"
      /\ p # Nil
      /\ ~Blocked(r)
      /\ cycles' = [cycles EXCEPT ![k] = cs]
      /\ pool' = [pool EXCEPT ![p] = IF shared[p] THEN ps ELSE SettledPool(r)]
      /\ Admitted(r, cs)
      /\ UNCHANGED <<clock, status, bound, plans, shared, windows>>

AuthorizeRefuse(r) ==
  LET k == requests[r].key
      p == bound[k]
  IN  /\ requests[r].stage = "arrived"
      /\ p # Nil
      /\ Blocked(r)
      /\ cycles' = [cycles EXCEPT ![k] = SettledKey(r)]
      /\ pool' = [pool EXCEPT ![p] = SettledPool(r)]
      /\ requests' = [requests EXCEPT ![r] = Idle]
      /\ UNCHANGED <<clock, status, bound, plans, shared, windows>>

\* The host starts an attempt.
StartAttempt(r) ==
  /\ requests[r].stage = "admitted"
  /\ requests' = [requests EXCEPT ![r].stage = "running", ![r].at = clock]
  /\ UNCHANGED <<clock, keyVars, planVars>>

\* The host retries request r with another credential; r's own record may be late.
Retry(r, next) ==
  /\ requests[r].stage = "running" /\ requests[next].stage = "idle"
  /\ requests' = [requests EXCEPT ![next] = [requests[r] EXCEPT !.at = clock]]
  /\ UNCHANGED <<clock, keyVars, planVars>>

\* A plugin's helper call is billed to the client without being admitted.
HelperCall(r, k) ==
  /\ requests[r].stage = "idle"
  /\ requests' = [requests EXCEPT ![r] = [Idle EXCEPT !.stage = "helper", !.key = k, !.at = clock]]
  /\ UNCHANGED <<clock, keyVars, planVars>>

\* An attempt ends without a usage record.
Abandon(r) ==
  /\ requests[r].stage \in {"admitted", "running", "helper"}
  /\ requests' = [requests EXCEPT ![r] = Idle]
  /\ UNCHANGED <<clock, keyVars, planVars>>

\* The record arrives, with the attempt's start or without (timed); its handler
\* reads the clock (now) before it takes the lock.
RecordUsage(r, usage, timed, now) ==
  LET k == requests[r].key
      at == IF timed THEN requests[r].at ELSE 0
      p == bound[k]
      cs == ChargeKey(cycles[k], p, at, usage)
      ps == ChargePool(pool[p], cycles[k], p, at, usage)
  IN  /\ requests[r].stage \in {"running", "helper"}
      /\ requests[r].at <= now /\ now <= clock
      /\ status' = [status EXCEPT ![k] = IF @ = "unknown" THEN "traffic" ELSE @]
      /\ cycles' = [cycles EXCEPT ![k] = Settle(cs, now)]
      /\ pool' = IF p = Nil THEN pool
                 ELSE [pool EXCEPT ![p] = Settle(IF shared[p] THEN ps ELSE @, now)]
      /\ requests' = [requests EXCEPT ![r] = Idle]
      /\ UNCHANGED <<clock, bound, plans, shared, windows>>

----------------------------------------------------------------------------
(* Reading quotas, which ends cycles that are over *)

\* now is read before the lock is taken.
KeyViews(now) ==
  /\ now <= clock
  /\ cycles' = [k \in Keys |-> IF Live(k) THEN Settle(cycles[k], now) ELSE cycles[k]]
  /\ pool' = [p \in Plans |-> Settle(pool[p], now)]
  /\ UNCHANGED <<clock, status, bound, plans, shared, windows, requests>>

KeyViewForScope(k) ==
  /\ Live(k)
  /\ cycles' = [cycles EXCEPT ![k] = Settle(@, clock)]
  /\ pool' = IF bound[k] = Nil THEN pool ELSE [pool EXCEPT ![bound[k]] = Settle(@, clock)]
  /\ UNCHANGED <<clock, status, bound, plans, shared, windows, requests>>

PlanViews(now) ==
  /\ now <= clock
  /\ pool' = [p \in Plans |-> IF shared[p] THEN Settle(pool[p], now) ELSE pool[p]]
  /\ UNCHANGED <<clock, keyVars, plans, shared, windows, requests>>

----------------------------------------------------------------------------
(* Keys *)

\* Keys missing from the list are deleted only if an earlier sync saw them.
SyncKeys(listed, allowEmpty) ==
  /\ listed # {} \/ allowEmpty
  /\ status' = [k \in Keys |-> IF k \in listed THEN "config"
                               ELSE IF status[k] = "config" THEN "deleted" ELSE status[k]]
  /\ UNCHANGED <<clock, bound, cycles, planVars, requests>>

\* mutant of BindPlan: the cycles of the old plan stay
BindPlanKeep(ks, p) ==
  /\ bound' = [k \in Keys |-> IF k \in ks THEN p ELSE bound[k]]
  /\ UNCHANGED cycles
  /\ requests' = CutKeys({k \in ks : bound[k] # p})

\* mutant of BindPlan: binding a key to its own plan refunds it
BindPlanAlways(ks, p) ==
  /\ bound' = [k \in Keys |-> IF k \in ks THEN p ELSE bound[k]]
  /\ cycles' = [k \in Keys |-> IF k \in ks THEN NoCycles ELSE cycles[k]]
  /\ requests' = CutKeys({k \in ks : bound[k] # p})

\* Binding each key k of ks to the plan p removes the cycles of those it rebinds.
BindPlan(ks, p) ==
  /\ bound' = [k \in Keys |-> IF k \in ks THEN p ELSE bound[k]]
  /\ cycles' = [k \in Keys |-> IF k \in ks /\ bound[k] # p THEN NoCycles ELSE cycles[k]]
  /\ requests' = CutKeys({k \in ks : bound[k] # p})

BindKey(k, p) ==
  /\ p \in plans /\ Live(k)
  /\ BindPlan({k}, p)
  /\ UNCHANGED <<clock, status, planVars>>

\* mutant of UnbindKey: what a leaving member used is refunded to the pool
UnbindKeyRefund(k) ==
  /\ Live(k) /\ bound[k] # Nil
  /\ BindPlan({k}, Nil)
  /\ pool' = [pool EXCEPT ![bound[k]] = NoCycles]
  /\ UNCHANGED <<clock, status, plans, shared, windows>>

UnbindKey(k) ==
  /\ Live(k) /\ bound[k] # Nil
  /\ BindPlan({k}, Nil)
  /\ UNCHANGED <<clock, status, planVars>>

----------------------------------------------------------------------------
(* Plans *)

WindowInputs == [period : Periods, anchor : Anchors, limit : Limits] \cup {ZeroWindow}

CreatePlan(p, ws, isShared, selected) ==
  /\ p \notin plans
  /\ Preparable(ws, NoWindows, clock) /\ ValidPlan(ws, isShared)
  /\ \A k \in selected : Live(k) /\ bound[k] = Nil
  /\ plans' = plans \cup {p}
  /\ shared' = [shared EXCEPT ![p] = isShared]
  /\ windows' = [windows EXCEPT ![p] = ws]
  /\ pool' = [pool EXCEPT ![p] = NoCycles]
  /\ BindPlan(selected, p)
  /\ UNCHANGED <<clock, status>>

\* mutant of ResetWindows: a change of mode keeps every cycle
ResetWindowsAnyMode(p, ws, isShared) ==
  {w \in Windows : Present(windows[p][w]) /\ ~KeepsSchedule(ws[w], windows[p][w])}

\* mutant of ResetWindows: only a new period ends the cycles
ResetWindowsByPeriod(p, ws, isShared) ==
  {w \in Windows : /\ Present(windows[p][w])
                   /\ isShared # shared[p] \/ ws[w].period # windows[p][w].period}

\* The windows of plan p whose cycles do not survive an edit.
ResetWindows(p, ws, isShared) ==
  {w \in Windows : /\ Present(windows[p][w])
                   /\ isShared # shared[p] \/ ~KeepsSchedule(ws[w], windows[p][w])}

\* selected replaces the plan's keys, unless replace is false.
UpdatePlan(p, patch, isShared, replace, selected) ==
  LET ws == Prepared(patch, windows[p])
      reset == ResetWindows(p, ws, isShared)
      left == IF replace THEN Members(p) \ selected ELSE {}
      joined == IF replace THEN selected \ Members(p) ELSE {}
      kept == Members(p) \ left
  IN  /\ p \in plans
      /\ Preparable(patch, windows[p], clock) /\ ValidPlan(ws, isShared)
      /\ replace => \A k \in selected : /\ Live(k) \/ bound[k] = p
                                        /\ bound[k] \in {Nil, p}
      /\ windows' = [windows EXCEPT ![p] = ws]
      /\ shared' = [shared EXCEPT ![p] = isShared]
      /\ pool' = [pool EXCEPT ![p] = Without(@, reset)]
      /\ bound' = [k \in Keys |-> IF k \in left THEN Nil ELSE IF k \in joined THEN p ELSE bound[k]]
      /\ cycles' = [k \in Keys |-> IF k \in left \cup joined THEN NoCycles
                                   ELSE IF k \in kept THEN Without(cycles[k], reset)
                                   ELSE cycles[k]]
      /\ requests' = CutWindows([k \in Keys |-> IF k \in left \cup joined THEN Windows
                                               ELSE IF k \in kept THEN reset ELSE {}])
      /\ UNCHANGED <<clock, status, plans>>

DeletePlan(p) ==
  /\ p \in plans
  /\ plans' = plans \ {p}
  /\ shared' = [shared EXCEPT ![p] = FALSE]
  /\ windows' = [windows EXCEPT ![p] = NoWindows]
  /\ pool' = [pool EXCEPT ![p] = NoCycles]
  /\ BindPlan(Members(p), Nil)
  /\ UNCHANGED <<clock, status>>

----------------------------------------------------------------------------
(* Administrative resets *)

\* mutant of ResetQuotas: members that CPA no longer lists are forgotten
ResetQuotasLive(ks, ps) ==
  LET pools == ps \cup {p \in plans : shared[p] /\ \E k \in ks : bound[k] = p}
      reset == {k \in Keys : k \in ks \/ (Live(k) /\ bound[k] \in pools)}
  IN  /\ pool' = [p \in Plans |-> IF p \in pools THEN NoCycles ELSE pool[p]]
      /\ cycles' = [k \in Keys |-> IF k \in reset THEN NoCycles ELSE cycles[k]]
      /\ requests' = CutKeys(reset)
      /\ UNCHANGED <<clock, status, bound, plans, shared, windows>>

\* Resetting a key of a shared plan resets the pool and all its members,
\* the deleted ones included.
ResetQuotas(ks, ps) ==
  LET pools == ps \cup {p \in plans : shared[p] /\ \E k \in ks : bound[k] = p}
      reset == {k \in Keys : k \in ks \/ bound[k] \in pools}
  IN  /\ pool' = [p \in Plans |-> IF p \in pools THEN NoCycles ELSE pool[p]]
      /\ cycles' = [k \in Keys |-> IF k \in reset THEN NoCycles ELSE cycles[k]]
      /\ requests' = CutKeys(reset)
      /\ UNCHANGED <<clock, status, bound, plans, shared, windows>>

ResetGlobal ==
  ResetQuotas({k \in Keys : Live(k) /\ bound[k] # Nil}, {p \in plans : shared[p]})

ResetKeys(ks) ==
  /\ ks # {}
  /\ \A k \in ks : Live(k) /\ bound[k] # Nil
  /\ ResetQuotas(ks, {})

ResetPlanQuota(p) ==
  /\ p \in plans /\ shared[p]
  /\ ResetQuotas({}, {p})

----------------------------------------------------------------------------
(* Specification *)

Tick ==
  /\ clock < MaxTime
  /\ clock' = clock + 1
  /\ UNCHANGED <<keyVars, planVars, requests>>

\* A fresh database.
Init ==
  /\ clock = StartTime
  /\ status = [k \in Keys |-> "unknown"]
  /\ bound = [k \in Keys |-> Nil]
  /\ cycles = [k \in Keys |-> NoCycles]
  /\ plans = {}
  /\ shared = [p \in Plans |-> FALSE]
  /\ windows = [p \in Plans |-> NoWindows]
  /\ pool = [p \in Plans |-> NoCycles]
  /\ requests = [r \in Requests |-> Idle]

Instants == StartTime..MaxTime

RequestStep(r) ==
  \/ \E k \in Keys : Arrive(r, k) \/ HelperCall(r, k)
  \/ AuthorizeUnlimited(r) \/ AuthorizeAdmit(r) \/ AuthorizeRefuse(r)
  \/ StartAttempt(r)
  \/ \E next \in Requests : Retry(r, next)
  \/ Abandon(r)
  \/ \E usage \in Usages, timed \in BOOLEAN, now \in Instants : RecordUsage(r, usage, timed, now)

ViewStep ==
  \/ \E now \in Instants : KeyViews(now) \/ PlanViews(now)
  \/ \E k \in Keys : KeyViewForScope(k)

KeyStep ==
  \/ \E listed \in SUBSET Keys, allowEmpty \in BOOLEAN : SyncKeys(listed, allowEmpty)
  \/ \E k \in Keys : UnbindKey(k) \/ \E p \in Plans : BindKey(k, p)

PlanStep(p) ==
  \/ \E ws \in [Windows -> WindowInputs], isShared \in BOOLEAN :
       \/ UpdatePlan(p, ws, isShared, FALSE, {})
       \/ \E selected \in SUBSET Keys :
            CreatePlan(p, ws, isShared, selected) \/ UpdatePlan(p, ws, isShared, TRUE, selected)
  \/ DeletePlan(p)

ResetStep ==
  \/ ResetGlobal
  \/ \E ks \in SUBSET Keys : ResetKeys(ks)
  \/ \E p \in Plans : ResetPlanQuota(p)

Next ==
  \/ Tick
  \/ \E r \in Requests : RequestStep(r)
  \/ ViewStep
  \/ KeyStep
  \/ \E p \in Plans : PlanStep(p)
  \/ ResetStep

Spec == Init /\ [][Next]_vars

----------------------------------------------------------------------------
(* Properties *)

Window == [period : Periods \cup {0}, anchor : Anchors \cup {0}, limit : Limits \cup {0}]
Cycle  == [plan : Plans \cup {Nil}, start : Nat, end : Nat, since : Nat, used : 0..MaxCount]

\* Every variable holds a value of its type, and a request the key and the instant
\* its stage needs.
TypeOK ==
  /\ clock \in Nat /\ clock >= StartTime
  /\ status \in [Keys -> Statuses]
  /\ bound \in [Keys -> Plans \cup {Nil}]
  /\ cycles \in [Keys -> [Windows -> Cycle]]
  /\ plans \in SUBSET Plans
  /\ shared \in [Plans -> BOOLEAN]
  /\ windows \in [Plans -> [Windows -> Window]]
  /\ pool \in [Plans -> [Windows -> Cycle]]
  /\ requests \in [Requests -> Request]
  /\ \A r \in Requests :
       /\ requests[r].stage # "idle" => requests[r].key \in Keys
       /\ requests[r].stage \in {"arrived", "running", "helper"}
            => requests[r].at \in StartTime..clock

\* Whatever edits, admissions and late records came before, Load would accept
\* the state: plans are valid, a key is bound to an existing plan, its cycles fit
\* that plan's present windows, and only shared plans have pools (ValidateCycles
\* of keys and plans; a state that fails it can be saved but never loaded).
Loadable ==
  /\ \A p \in plans : ValidPlan(windows[p], shared[p])
  /\ \A p \in Plans :
       /\ p \in plans => ValidCycles(pool[p], windows[p], p)
       /\ p \notin plans \/ ~shared[p] => pool[p] = NoCycles
  /\ \A k \in Keys :
       IF bound[k] = Nil THEN cycles[k] = NoCycles
       ELSE bound[k] \in plans /\ ValidCycles(cycles[k], windows[bound[k]], bound[k])

Current(cycle) == Started(cycle) /\ clock < cycle.end

\* While a member's cycle is current its pool has the same cycle: no member of a
\* shared plan can use quota that the pool does not count (chargeQuota charges
\* the pool only where it finds such a cycle).
PoolBacksMembers ==
  \A k \in Keys, w \in Windows :
    bound[k] # Nil /\ shared[bound[k]] /\ Current(cycles[k][w])
      => pool[bound[k]][w].start = cycles[k][w].start

\* An admitted request cannot escape its quota: until the cycle it was admitted in
\* is over, or an edit or reset removes that cycle, the cycle is still there and
\* takes the usage of the request's attempt, and so does the pool of a shared plan.
NoFreeUsage ==
  \A r \in Requests, w \in Windows :
    LET q == requests[r]
        p == bound[q.key]
    IN  q.stage = "running" /\ clock < q.ends[w]
          => /\ cycles[q.key][w].end = q.ends[w]
             /\ Accepts(cycles[q.key][w], p, q.at)
             /\ shared[p] => Accepts(pool[p][w], p, q.at)

\* "All keys reset at the configured time": two keys of a plan with a reset
\* schedule are never in different cycles of one window.
SameReset ==
  \A j, k \in Keys, w \in Windows :
    /\ bound[j] # Nil /\ bound[j] = bound[k]
    /\ Anchored(windows[bound[k]][w])
    /\ Current(cycles[j][w]) /\ Current(cycles[k][w])
    => cycles[j][w].start = cycles[k][w].start

Counting(k) == IF shared[bound[k]] THEN pool[bound[k]] ELSE cycles[k]

\* No request is admitted while a current cycle of its quota is used up, however
\* old the instant it asks with.
NoAdmissionOverLimit ==
  [][\A r \in Requests :
       requests[r].stage = "arrived" /\ requests'[r].stage = "admitted"
         => \A w \in Windows :
              LET k == requests[r].key
              IN  bound[k] # Nil /\ Current(Counting(k)[w])
                    => Counting(k)[w].used < windows[bound[k]][w].limit]_vars

\* Unbinding, rebinding, deleting or expiring a member never refunds a pool: usage
\* of a current cycle goes away only with the plan, its mode or its schedule, or in
\* a reset, which clears the whole pool and every member with it.
PoolKeepsUsage ==
  [][\A p \in Plans, w \in Windows :
       \/ ~Current(pool[p][w])
       \/ pool'[p][w].start = pool[p][w].start /\ pool'[p][w].used >= pool[p][w].used
       \/ p \notin plans' \/ ~shared'[p] \/ ~KeepsSchedule(windows'[p][w], windows[p][w])
       \/ /\ bound' = bound
          /\ pool'[p] = NoCycles /\ \A k \in Keys : bound[k] = p => cycles'[k] = NoCycles]_vars

\* A cycle excludes requests admitted before the key was bound or reset, as the
\* comment on QuotaCycle says of UsageSince.  The code compares UsageSince with the
\* start of the attempt.  Attempts of the very instant the cycle began are left out
\* of the claim: the code's instants are finer than the model's.
UsageSinceExcludes ==
  \A r \in Requests, w \in Windows :
    LET q == requests[r]
        cycle == cycles[q.key][w]
    IN  q.stage = "running" /\ w \in q.cut /\ cycle.since < q.at
          => ~Accepts(cycle, bound[q.key], q.at)

----------------------------------------------------------------------------
(* The inductive invariant: what the safety properties rest on. *)

Past(cycle) == cycle # ZeroCycle => 0 < cycle.start /\ cycle.start <= clock /\ cycle.since <= clock

\* No cycle begins in the future, although instants are read before the lock is taken.
Dates ==
  /\ \A k \in Keys, w \in Windows : Past(cycles[k][w])
  /\ \A p \in Plans, w \in Windows : Past(pool[p][w])

\* The cycles a request was admitted in stay until they are over or an edit removes them.
Held ==
  \A r \in Requests, w \in Windows :
    requests[r].stage \in {"admitted", "running"} /\ clock < requests[r].ends[w]
      => cycles[requests[r].key][w].end = requests[r].ends[w]

\* Every step preserves this invariant; Loadable, PoolBacksMembers, NoFreeUsage and
\* SameReset follow from it.
IInv == TypeOK /\ Loadable /\ Dates /\ PoolBacksMembers /\ Held /\ NoFreeUsage
=============================================================================
