---------------------------- MODULE QuotaCycles ----------------------------
(***************************************************************************)
(* The quota arithmetic of internal/billing: windows, cycles and what a    *)
(* cycle does when time passes, a request is admitted or usage arrives.    *)
(*                                                                         *)
(* A plan's windows and the cycles counted against them are Go maps keyed  *)
(* by window ID.  Here both are functions over all of Windows whose value  *)
(* outside the map is the zero value, as a Go map read returns it.         *)
(*                                                                         *)
(* Amount, tokens and requests are three dimensions that behave alike: one *)
(* counter and one limit stand for them.                                   *)
(***************************************************************************)
EXTENDS Integers

CONSTANTS
  Windows,    \* quota window IDs
  Nil,        \* no plan, no key
  MaxCount    \* math.MaxInt64, where counters saturate

ASSUME MaxCountAssumption == MaxCount \in Nat

ZeroWindow == [period |-> 0, anchor |-> 0, limit |-> 0]
ZeroCycle  == [plan |-> Nil, start |-> 0, end |-> 0, since |-> 0, used |-> 0]
NoWindows  == [w \in Windows |-> ZeroWindow]
NoCycles   == [w \in Windows |-> ZeroCycle]

Present(window) == window.period # 0
Anchored(window) == window.anchor # 0
Started(cycle) == cycle.start # 0

----------------------------------------------------------------------------
(* Windows *)

\* Two schedules agree when their cycles begin at the same instants.
SameSchedule(a, b) ==
  /\ a.period = b.period
  /\ Anchored(a) <=> Anchored(b)
  /\ a.anchor = b.anchor \/ (a.anchor - b.anchor) % a.period = 0

KeepsSchedule(new, old) == Present(new) /\ Present(old) /\ SameSchedule(new, old)

\* An edited window whose schedule is unchanged keeps the stored anchor.
Prepared(new, old) ==
  [w \in Windows |->
     IF Anchored(new[w]) /\ KeepsSchedule(new[w], old[w])
       THEN [new[w] EXCEPT !.anchor = old[w].anchor]
       ELSE new[w]]

\* Any other anchor is the start of the next cycle.
Preparable(new, old, now) ==
  \A w \in Windows :
    Anchored(new[w]) /\ ~KeepsSchedule(new[w], old[w])
      => now < new[w].anchor /\ new[w].anchor <= now + new[w].period

ValidPlan(ws, isShared) ==
  /\ \E w \in Windows : Present(ws[w])
  /\ \A v, w \in Windows :
       Present(ws[v]) /\ Present(ws[w])
         => /\ Anchored(ws[v]) <=> Anchored(ws[w])
            /\ v # w => ws[v].period # ws[w].period
  /\ \A w \in Windows :
       Present(ws[w]) => ws[w].limit > 0 /\ (isShared => Anchored(ws[w]))

----------------------------------------------------------------------------
(* Cycles *)

CycleStart(window, now) ==
  IF Anchored(window) THEN now - ((now - window.anchor) % window.period) ELSE now

NewCycle(window, plan, now) ==
  [plan  |-> plan,
   start |-> CycleStart(window, now),
   end   |-> CycleStart(window, now) + window.period,
   since |-> IF Anchored(window) THEN now ELSE 0,
   used  |-> 0]

\* Expiry only ends cycles.
Settle(cs, now) == [w \in Windows |-> IF now >= cs[w].end THEN ZeroCycle ELSE cs[w]]

\* Admission starts a cycle for every window that has none.
Activate(cs, ws, plan, now) ==
  [w \in Windows |->
     IF Present(ws[w]) /\ ~Started(cs[w]) THEN NewCycle(ws[w], plan, now) ELSE cs[w]]

\* mutant of Exhausted: a limit is exceeded before it blocks
ExhaustedAbove(cs, ws) ==
  \E w \in Windows : ws[w].limit > 0 /\ cs[w].used > ws[w].limit

Exhausted(cs, ws) ==
  \E w \in Windows : ws[w].limit > 0 /\ cs[w].used >= ws[w].limit

Accepts(cycle, plan, at) ==
  /\ plan # Nil /\ cycle.plan = plan
  /\ at # 0
  /\ cycle.start <= at /\ cycle.since <= at /\ at < cycle.end

AddQuotaCount(current, delta) ==
  IF delta > MaxCount - current THEN MaxCount ELSE current + delta

Charge(cycle, usage) == [cycle EXCEPT !.used = AddQuotaCount(@, usage)]

\* A key's own cycles, charged with usage of a request made at the instant at.
ChargeKey(cs, plan, at, usage) ==
  [w \in Windows |-> IF Accepts(cs[w], plan, at) THEN Charge(cs[w], usage) ELSE cs[w]]

\* The pool is charged only where the key's own cycle was.
ChargePool(ps, cs, plan, at, usage) ==
  [w \in Windows |->
     IF Accepts(cs[w], plan, at) /\ Accepts(ps[w], plan, at)
       THEN Charge(ps[w], usage) ELSE ps[w]]

Without(cs, ws) == [w \in Windows |-> IF w \in ws THEN ZeroCycle ELSE cs[w]]

----------------------------------------------------------------------------
(* What Load demands of the cycles in a database: a row that fails it      *)
(* makes Configure fail, and with it the plugin.                           *)

ValidCycle(cycle, window, plan) ==
  /\ plan # Nil /\ Present(window)
  /\ cycle.plan = plan
  /\ cycle.end = cycle.start + window.period
  /\ Anchored(window) => CycleStart(window, cycle.start) = cycle.start
  /\ cycle.since # 0 => cycle.start <= cycle.since /\ cycle.since < cycle.end

ValidCycles(cs, ws, plan) ==
  \A w \in Windows : cs[w] # ZeroCycle => ValidCycle(cs[w], ws[w], plan)
=============================================================================
