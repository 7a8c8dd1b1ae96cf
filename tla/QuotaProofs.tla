---------------------------- MODULE QuotaProofs ----------------------------
(***************************************************************************)
(* For all keys, plans, windows, requests, schedules and limits: the types *)
(* of Quota, its inductive invariant and the safety properties that follow *)
(* from it, and what a step may never do.                                  *)
(*                                                                         *)
(* The argument is about one key, its plan and one request at a time.  Its *)
(* steps are of three sorts: those that only charge and expire cycles and  *)
(* move requests along (QuietStep), the admission that begins cycles, and  *)
(* the edits that take cycles away (EditStep).                             *)
(***************************************************************************)
EXTENDS Quota, TLAPS

----------------------------------------------------------------------------
(* Arithmetic of schedules *)

\* The cycle that newCycle computes holds the instant it is computed for.
LEMMA CycleStartBounds ==
  ASSUME NEW a \in Nat, NEW P \in Nat \ {0}, NEW now \in Nat
  PROVE  /\ now - ((now - a) % P) \in Int
         /\ now - ((now - a) % P) <= now
         /\ now < now - ((now - a) % P) + P
<1>1. now - a \in Int
  OBVIOUS
<1>2. (now - a) % P \in 0..(P - 1)
  BY <1>1
<1> QED
  BY <1>2

\* Its start is a start of the schedule: computing again from it changes nothing.
LEMMA CycleStartAligned ==
  ASSUME NEW a \in Nat, NEW P \in Nat \ {0}, NEW now \in Nat
  PROVE  ((now - ((now - a) % P)) - a) % P = 0
<1>1. now - a \in Int
  OBVIOUS
<1> QED
  BY <1>1

\* Two starts of one schedule less than a period apart are the same start.
LEMMA SameStart ==
  ASSUME NEW a \in Nat, NEW P \in Nat \ {0}, NEW s \in Nat, NEW t \in Nat,
         (s - a) % P = 0, (t - a) % P = 0, s < t + P, t < s + P
  PROVE  s = t
<1> DEFINE p == (s - a) \div P
           q == (t - a) \div P
<1>1. /\ p \in Int /\ q \in Int
      /\ s - a = P * p /\ t - a = P * q
  OBVIOUS
<1> HIDE DEF p, q
<1>2. ~(p < q)
  <2> SUFFICES ASSUME p < q PROVE FALSE
    OBVIOUS
  <2>1. P * (p + 1) <= P * q
    BY <1>1
  <2>2. P * (p + 1) = P * p + P
    BY <1>1
  <2> QED
    BY <1>1, <2>1, <2>2
<1>3. ~(q < p)
  <2> SUFFICES ASSUME q < p PROVE FALSE
    OBVIOUS
  <2>1. P * (q + 1) <= P * p
    BY <1>1
  <2>2. P * (q + 1) = P * q + P
    BY <1>1
  <2> QED
    BY <1>1, <2>1, <2>2
<1>4. p = q
  BY <1>1, <1>2, <1>3
<1> QED
  BY <1>1, <1>4

----------------------------------------------------------------------------
(* Types *)

\* Periods of stored windows are real ones.
LEMMA WindowType ==
  ASSUME NEW window \in Window, Present(window)
  PROVE  /\ window.period \in Nat \ {0} /\ window.anchor \in Nat /\ window.limit \in Nat
         /\ window.period < StartTime
<1>1. /\ window.period \in Periods \cup {0} /\ window.anchor \in Anchors \cup {0}
      /\ window.limit \in Limits \cup {0}
  BY DEF Window
<1>2. window.period \in Periods
  BY <1>1 DEF Present
<1>3. window.period \in Nat \ {0} /\ window.period < StartTime
  BY <1>2, QuotaAssumption
<1>4. Anchors \cup {0} \subseteq Nat /\ Limits \cup {0} \subseteq Nat
  BY QuotaAssumption
<1> QED
  BY <1>1, <1>3, <1>4

LEMMA NoCyclesType == NoCycles \in [Windows -> Cycle]
BY MaxCountAssumption DEF NoCycles, ZeroCycle, Cycle

LEMMA NoWindowsType == NoWindows \in [Windows -> Window]
BY DEF NoWindows, ZeroWindow, Window

LEMMA SettleType ==
  ASSUME NEW cs \in [Windows -> Cycle], NEW now
  PROVE  Settle(cs, now) \in [Windows -> Cycle]
BY NoCyclesType DEF Settle, NoCycles

LEMMA NewCycleType ==
  ASSUME NEW window \in Window, Present(window), NEW p \in Plans,
         NEW now \in Nat, now >= StartTime
  PROVE  NewCycle(window, p, now) \in Cycle
<1>1. CycleStart(window, now) \in Nat
  <2>1. CASE Anchored(window)
    <3>1. now - ((now - window.anchor) % window.period) \in Int
          /\ now < now - ((now - window.anchor) % window.period) + window.period
      BY WindowType, CycleStartBounds
    <3> QED
      BY <2>1, <3>1, WindowType, QuotaAssumption DEF CycleStart
  <2>2. CASE ~Anchored(window)
    BY <2>2 DEF CycleStart
  <2> QED
    BY <2>1, <2>2
<1> QED
  BY <1>1, WindowType, MaxCountAssumption DEF NewCycle, Cycle

LEMMA ActivateType ==
  ASSUME NEW cs \in [Windows -> Cycle], NEW ws \in [Windows -> Window], NEW p \in Plans,
         NEW now \in Nat, now >= StartTime
  PROVE  Activate(cs, ws, p, now) \in [Windows -> Cycle]
BY NewCycleType DEF Activate

\* Counters saturate (addQuotaCount).
LEMMA ChargeType ==
  ASSUME NEW cycle \in Cycle, NEW usage \in Usages
  PROVE  Charge(cycle, usage) \in Cycle
<1>1. AddQuotaCount(cycle.used, usage) \in 0..MaxCount
  BY QuotaAssumption, MaxCountAssumption DEF AddQuotaCount, Cycle
<1> QED
  BY <1>1 DEF Charge, Cycle

LEMMA ChargeKeyType ==
  ASSUME NEW cs \in [Windows -> Cycle], NEW p, NEW at, NEW usage \in Usages
  PROVE  ChargeKey(cs, p, at, usage) \in [Windows -> Cycle]
BY ChargeType DEF ChargeKey

LEMMA ChargePoolType ==
  ASSUME NEW ps \in [Windows -> Cycle], NEW cs, NEW p, NEW at, NEW usage \in Usages
  PROVE  ChargePool(ps, cs, p, at, usage) \in [Windows -> Cycle]
BY ChargeType DEF ChargePool

LEMMA WithoutType ==
  ASSUME NEW cs \in [Windows -> Cycle], NEW ws
  PROVE  Without(cs, ws) \in [Windows -> Cycle]
BY NoCyclesType DEF Without, NoCycles

LEMMA InputType == [Windows -> WindowInputs] \subseteq [Windows -> Window]
BY DEF WindowInputs, Window, ZeroWindow

LEMMA PreparedType ==
  ASSUME NEW new \in [Windows -> Window], NEW old \in [Windows -> Window]
  PROVE  Prepared(new, old) \in [Windows -> Window]
BY DEF Prepared, Window

LEMMA IdleType ==
  /\ Idle \in Request /\ NoEnds \in [Windows -> Nat]
  /\ Idle.stage = "idle"
BY DEF Idle, NoEnds, Request

\* An edit's history of a request keeps the request otherwise.
LEMMA CutWindowsType ==
  ASSUME TypeOK, NEW ws \in [Keys -> SUBSET Windows]
  PROVE  /\ CutWindows(ws) \in [Requests -> Request]
         /\ \A r \in Requests : /\ CutWindows(ws)[r].stage = requests[r].stage
                                /\ CutWindows(ws)[r].key = requests[r].key
                                /\ CutWindows(ws)[r].at = requests[r].at
<1> SUFFICES ASSUME NEW r \in Requests
             PROVE  /\ CutWindows(ws)[r] \in Request
                    /\ CutWindows(ws)[r].stage = requests[r].stage
                    /\ CutWindows(ws)[r].key = requests[r].key
                    /\ CutWindows(ws)[r].at = requests[r].at
  BY DEF CutWindows
<1>1. requests[r] \in Request /\ (requests[r].stage # "idle" => requests[r].key \in Keys)
  BY DEF TypeOK
<1>2. CASE requests[r].stage \in {"admitted", "running"}
  <2> DEFINE gone == ws[requests[r].key]
             ends == [w \in Windows |-> IF w \in gone THEN 0 ELSE requests[r].ends[w]]
  <2>1. gone \subseteq Windows
    BY <1>1, <1>2
  <2>2. ends \in [Windows -> Nat]
    BY <1>1 DEF Request
  <2>3. CutWindows(ws)[r] = [requests[r] EXCEPT !.cut = @ \cup gone, !.ends = ends]
    BY <1>1, <1>2 DEF CutWindows, Request
  <2> HIDE DEF gone, ends
  <2> QED
    BY <1>1, <2>1, <2>2, <2>3 DEF Request
<1>3. CASE requests[r].stage \notin {"admitted", "running"}
  BY <1>1, <1>3 DEF CutWindows
<1> QED
  BY <1>2, <1>3

LEMMA CutKeysType ==
  ASSUME TypeOK, NEW ks
  PROVE  /\ CutKeys(ks) \in [Requests -> Request]
         /\ \A r \in Requests : /\ CutKeys(ks)[r].stage = requests[r].stage
                                /\ CutKeys(ks)[r].key = requests[r].key
                                /\ CutKeys(ks)[r].at = requests[r].at
<1>1. [k \in Keys |-> IF k \in ks THEN Windows ELSE {}] \in [Keys -> SUBSET Windows]
  OBVIOUS
<1> QED
  BY <1>1, CutWindowsType DEF CutKeys

\* Requests stay well-typed when one of them changes.
LEMMA OneRequestType ==
  ASSUME TypeOK, clock' = clock, NEW r \in Requests, NEW q \in Request,
         requests' = [requests EXCEPT ![r] = q],
         q.stage # "idle" => q.key \in Keys,
         q.stage \in {"arrived", "running", "helper"} => q.at \in StartTime..clock
  PROVE  /\ requests' \in [Requests -> Request]
         /\ \A i \in Requests :
              /\ requests'[i].stage # "idle" => requests'[i].key \in Keys
              /\ requests'[i].stage \in {"arrived", "running", "helper"}
                   => requests'[i].at \in StartTime..clock'
BY DEF TypeOK

LEMMA AdmittedType ==
  ASSUME TypeOK, NEW r \in Requests, NEW cs \in [Windows -> Cycle], Admitted(r, cs),
         requests[r].stage = "arrived"
  PROVE  \E q \in Request : /\ requests' = [requests EXCEPT ![r] = q]
                            /\ q.stage = "admitted" /\ q.key \in Keys
<1> DEFINE ends == [w \in Windows |-> cs[w].end]
           q == [requests[r] EXCEPT !.stage = "admitted", !.at = 0, !.ends = ends]
<1>1. requests[r] \in Request /\ requests[r].key \in Keys
  BY DEF TypeOK
<1>2. ends \in [Windows -> Nat]
  BY DEF Cycle
<1>3. requests' = [requests EXCEPT ![r] = q]
  BY DEF Admitted, TypeOK
<1> HIDE DEF ends
<1>4. q \in Request /\ q.stage = "admitted" /\ q.key \in Keys
  BY <1>1, <1>2 DEF Request
<1> QED
  BY <1>3, <1>4

LEMMA RequestStepType ==
  ASSUME TypeOK, NEW r \in Requests, RequestStep(r)
  PROVE  TypeOK'
<1>1. /\ requests[r] \in Request
      /\ requests[r].stage # "idle" => requests[r].key \in Keys
      /\ clock \in StartTime..clock
  BY QuotaAssumption DEF TypeOK
<1>2. ASSUME NEW k \in Keys, Arrive(r, k) PROVE TypeOK'
  <2> DEFINE q == [Idle EXCEPT !.stage = "arrived", !.key = k, !.at = clock]
  <2>1. q \in Request /\ q.key = k /\ q.at = clock
    BY IdleType DEF Request, TypeOK
  <2>2. requests' = [requests EXCEPT ![r] = q] /\ clock' = clock
    BY <1>2 DEF Arrive
  <2> HIDE DEF q
  <2> QED
    BY <1>1, <1>2, <2>1, <2>2, OneRequestType DEF Arrive, TypeOK, keyVars, planVars
<1>3. ASSUME NEW k \in Keys, HelperCall(r, k) PROVE TypeOK'
  <2> DEFINE q == [Idle EXCEPT !.stage = "helper", !.key = k, !.at = clock]
  <2>1. q \in Request /\ q.key = k /\ q.at = clock
    BY IdleType DEF Request, TypeOK
  <2>2. requests' = [requests EXCEPT ![r] = q] /\ clock' = clock
    BY <1>3 DEF HelperCall
  <2> HIDE DEF q
  <2> QED
    BY <1>1, <1>3, <2>1, <2>2, OneRequestType DEF HelperCall, TypeOK, keyVars, planVars
<1>4. CASE AuthorizeUnlimited(r)
  <2>1. PICK q \in Request : /\ requests' = [requests EXCEPT ![r] = q]
                             /\ q.stage = "admitted" /\ q.key \in Keys
    BY <1>4, AdmittedType, NoCyclesType DEF AuthorizeUnlimited
  <2> QED
    BY <1>4, <2>1, OneRequestType DEF AuthorizeUnlimited, TypeOK, keyVars, planVars
<1>5. CASE AuthorizeAdmit(r)
  <2> DEFINE k == requests[r].key
             p == bound[k]
             cs == Activate(SettledKey(r), windows[p], p, requests[r].at)
             ps == Activate(SettledPool(r), windows[p], p, requests[r].at)
  <2>1. k \in Keys /\ p \in Plans /\ requests[r].at \in Nat /\ requests[r].at >= StartTime
    BY <1>5, <1>1, QuotaAssumption DEF AuthorizeAdmit, TypeOK
  <2>2. SettledKey(r) \in [Windows -> Cycle] /\ SettledPool(r) \in [Windows -> Cycle]
    BY <2>1, SettleType DEF SettledKey, SettledPool, TypeOK
  <2>3. cs \in [Windows -> Cycle] /\ ps \in [Windows -> Cycle]
    BY <2>1, <2>2, ActivateType DEF TypeOK
  <2>4. /\ cycles' = [cycles EXCEPT ![k] = cs]
        /\ pool' = [pool EXCEPT ![p] = IF shared[p] THEN ps ELSE SettledPool(r)]
        /\ Admitted(r, cs)
    BY <1>5 DEF AuthorizeAdmit
  <2> HIDE DEF cs, ps
  <2>5. PICK q \in Request : /\ requests' = [requests EXCEPT ![r] = q]
                             /\ q.stage = "admitted" /\ q.key \in Keys
    BY <1>5, <2>3, <2>4, AdmittedType DEF AuthorizeAdmit
  <2>6. cycles' \in [Keys -> [Windows -> Cycle]] /\ pool' \in [Plans -> [Windows -> Cycle]]
    BY <2>2, <2>3, <2>4 DEF TypeOK
  <2> QED
    BY <1>5, <2>5, <2>6, OneRequestType DEF AuthorizeAdmit, TypeOK
<1>6. CASE AuthorizeRefuse(r)
  <2> DEFINE k == requests[r].key
             p == bound[k]
  <2>1. k \in Keys /\ p \in Plans
    BY <1>6, <1>1 DEF AuthorizeRefuse, TypeOK
  <2>2. SettledKey(r) \in [Windows -> Cycle] /\ SettledPool(r) \in [Windows -> Cycle]
    BY <2>1, SettleType DEF SettledKey, SettledPool, TypeOK
  <2>3. cycles' \in [Keys -> [Windows -> Cycle]] /\ pool' \in [Plans -> [Windows -> Cycle]]
    BY <1>6, <2>2 DEF AuthorizeRefuse, TypeOK
  <2> QED
    BY <1>6, <2>3, IdleType, OneRequestType DEF AuthorizeRefuse, TypeOK
<1>7. CASE StartAttempt(r)
  <2> DEFINE q == [requests[r] EXCEPT !.stage = "running", !.at = clock]
  <2>1. q \in Request /\ q.key = requests[r].key /\ q.at = clock /\ q.stage = "running"
    BY <1>1 DEF Request, TypeOK
  <2>2. requests' = [requests EXCEPT ![r] = q] /\ clock' = clock
    BY <1>7 DEF StartAttempt, TypeOK
  <2> HIDE DEF q
  <2> QED
    BY <1>1, <1>7, <2>1, <2>2, OneRequestType DEF StartAttempt, TypeOK, keyVars, planVars
<1>8. ASSUME NEW next \in Requests, Retry(r, next) PROVE TypeOK'
  <2> DEFINE q == [requests[r] EXCEPT !.at = clock]
  <2>1. q \in Request /\ q.key = requests[r].key /\ q.at = clock /\ q.stage = "running"
    BY <1>1, <1>8 DEF Request, TypeOK, Retry
  <2>2. requests' = [requests EXCEPT ![next] = q] /\ clock' = clock
    BY <1>8 DEF Retry, TypeOK
  <2> HIDE DEF q
  <2> QED
    BY <1>1, <1>8, <2>1, <2>2, OneRequestType DEF Retry, TypeOK, keyVars, planVars
<1>9. CASE Abandon(r)
  BY <1>9, IdleType, OneRequestType DEF Abandon, TypeOK, keyVars, planVars
<1>10. ASSUME NEW usage \in Usages, NEW timed \in BOOLEAN, NEW now \in Instants,
              RecordUsage(r, usage, timed, now)
       PROVE  TypeOK'
  <2> DEFINE k == requests[r].key
             at == IF timed THEN requests[r].at ELSE 0
             p == bound[k]
             cs == ChargeKey(cycles[k], p, at, usage)
             ps == ChargePool(pool[p], cycles[k], p, at, usage)
  <2>1. k \in Keys
    BY <1>10, <1>1 DEF RecordUsage
  <2>2. Settle(cs, now) \in [Windows -> Cycle]
    BY <2>1, ChargeKeyType, SettleType DEF TypeOK
  <2>3. p \in Plans => Settle(IF shared[p] THEN ps ELSE pool[p], now) \in [Windows -> Cycle]
    BY <2>1, ChargePoolType, SettleType DEF TypeOK
  <2>4. /\ cycles' = [cycles EXCEPT ![k] = Settle(cs, now)]
        /\ pool' = IF p = Nil THEN pool
                   ELSE [pool EXCEPT ![p] = Settle(IF shared[p] THEN ps ELSE pool[p], now)]
        /\ status' = [status EXCEPT ![k] = IF @ = "unknown" THEN "traffic" ELSE @]
    BY <1>10, <2>1 DEF RecordUsage, TypeOK
  <2>5. cycles' \in [Keys -> [Windows -> Cycle]]
    BY <2>1, <2>2, <2>4 DEF TypeOK
  <2>6. pool' \in [Plans -> [Windows -> Cycle]]
    BY <2>1, <2>3, <2>4 DEF TypeOK
  <2>7. status' \in [Keys -> Statuses]
    BY <2>1, <2>4 DEF TypeOK, Statuses
  <2> HIDE DEF k, at, p, cs, ps
  <2> QED
    BY <1>10, <2>5, <2>6, <2>7, IdleType, OneRequestType DEF RecordUsage, TypeOK
<1> QED
  BY <1>2, <1>3, <1>4, <1>5, <1>6, <1>7, <1>8, <1>9, <1>10 DEF RequestStep

LEMMA ViewStepType ==
  ASSUME TypeOK, ViewStep
  PROVE  TypeOK'
<1>1. ASSUME NEW now \in Instants, KeyViews(now) PROVE TypeOK'
  <2>1. cycles' \in [Keys -> [Windows -> Cycle]] /\ pool' \in [Plans -> [Windows -> Cycle]]
    BY <1>1, SettleType DEF KeyViews, TypeOK
  <2> QED
    BY <1>1, <2>1 DEF KeyViews, TypeOK
<1>2. ASSUME NEW now \in Instants, PlanViews(now) PROVE TypeOK'
  <2>1. pool' \in [Plans -> [Windows -> Cycle]]
    BY <1>2, SettleType DEF PlanViews, TypeOK
  <2> QED
    BY <1>2, <2>1 DEF PlanViews, TypeOK, keyVars
<1>3. ASSUME NEW k \in Keys, KeyViewForScope(k) PROVE TypeOK'
  <2>1. Settle(cycles[k], clock) \in [Windows -> Cycle]
    BY SettleType DEF TypeOK
  <2>2. bound[k] # Nil => Settle(pool[bound[k]], clock) \in [Windows -> Cycle]
    BY SettleType DEF TypeOK
  <2>3. cycles' \in [Keys -> [Windows -> Cycle]] /\ pool' \in [Plans -> [Windows -> Cycle]]
    BY <1>3, <2>1, <2>2 DEF KeyViewForScope, TypeOK
  <2> QED
    BY <1>3, <2>3 DEF KeyViewForScope, TypeOK
<1> QED
  BY <1>1, <1>2, <1>3 DEF ViewStep

LEMMA BindPlanType ==
  ASSUME TypeOK, NEW ks, NEW p \in Plans \cup {Nil}, BindPlan(ks, p), clock' = clock
  PROVE  /\ bound' \in [Keys -> Plans \cup {Nil}]
         /\ cycles' \in [Keys -> [Windows -> Cycle]]
         /\ requests' \in [Requests -> Request]
         /\ \A r \in Requests :
              /\ requests'[r].stage # "idle" => requests'[r].key \in Keys
              /\ requests'[r].stage \in {"arrived", "running", "helper"}
                   => requests'[r].at \in StartTime..clock'
<1>1. cycles' \in [Keys -> [Windows -> Cycle]]
  BY NoCyclesType DEF BindPlan, TypeOK
<1>2. bound' \in [Keys -> Plans \cup {Nil}]
  BY DEF BindPlan, TypeOK
<1>3. PICK cut : requests' = CutKeys(cut)
  BY DEF BindPlan
<1>4. /\ requests' \in [Requests -> Request]
      /\ \A r \in Requests : /\ requests'[r].stage = requests[r].stage
                             /\ requests'[r].key = requests[r].key
                             /\ requests'[r].at = requests[r].at
  BY <1>3, CutKeysType
<1> QED
  BY <1>1, <1>2, <1>4 DEF TypeOK

LEMMA KeyStepType ==
  ASSUME TypeOK, KeyStep
  PROVE  TypeOK'
<1>1. ASSUME NEW listed \in SUBSET Keys, NEW allowEmpty \in BOOLEAN, SyncKeys(listed, allowEmpty)
      PROVE  TypeOK'
  <2>1. status' \in [Keys -> Statuses]
    BY <1>1 DEF SyncKeys, TypeOK, Statuses
  <2> QED
    BY <1>1, <2>1 DEF SyncKeys, TypeOK, planVars
<1>2. ASSUME NEW k \in Keys, UnbindKey(k) PROVE TypeOK'
  BY <1>2, BindPlanType DEF UnbindKey, TypeOK, planVars
<1>3. ASSUME NEW k \in Keys, NEW p \in Plans, BindKey(k, p) PROVE TypeOK'
  BY <1>3, BindPlanType DEF BindKey, TypeOK, planVars
<1> QED
  BY <1>1, <1>2, <1>3 DEF KeyStep

LEMMA PlanStepType ==
  ASSUME TypeOK, NEW p \in Plans, PlanStep(p)
  PROVE  TypeOK'
<1>1. ASSUME NEW ws \in [Windows -> WindowInputs], NEW isShared \in BOOLEAN,
             NEW selected \in SUBSET Keys, CreatePlan(p, ws, isShared, selected)
      PROVE  TypeOK'
  <2>1. /\ plans' \in SUBSET Plans
        /\ shared' \in [Plans -> BOOLEAN]
        /\ windows' \in [Plans -> [Windows -> Window]]
        /\ pool' \in [Plans -> [Windows -> Cycle]]
    BY <1>1, InputType, NoCyclesType DEF CreatePlan, TypeOK
  <2> QED
    BY <1>1, <2>1, BindPlanType DEF CreatePlan, TypeOK
<1>2. ASSUME NEW patch \in [Windows -> WindowInputs], NEW isShared \in BOOLEAN,
             NEW replace \in BOOLEAN, NEW selected \in SUBSET Keys,
             UpdatePlan(p, patch, isShared, replace, selected)
      PROVE  TypeOK'
  <2> DEFINE ws == Prepared(patch, windows[p])
             reset == ResetWindows(p, ws, isShared)
             left == IF replace THEN Members(p) \ selected ELSE {}
             joined == IF replace THEN selected \ Members(p) ELSE {}
             kept == Members(p) \ left
             gone == [k \in Keys |-> IF k \in left \cup joined THEN Windows
                                     ELSE IF k \in kept THEN reset ELSE {}]
  <2>1. ws \in [Windows -> Window]
    BY InputType, PreparedType DEF TypeOK
  <2>2. gone \in [Keys -> SUBSET Windows]
    BY DEF ResetWindows
  <2>3. /\ windows' = [windows EXCEPT ![p] = ws]
        /\ shared' = [shared EXCEPT ![p] = isShared]
        /\ pool' = [pool EXCEPT ![p] = Without(@, reset)]
        /\ bound' = [k \in Keys |-> IF k \in left THEN Nil
                                    ELSE IF k \in joined THEN p ELSE bound[k]]
        /\ cycles' = [k \in Keys |-> IF k \in left \cup joined THEN NoCycles
                                     ELSE IF k \in kept THEN Without(cycles[k], reset)
                                     ELSE cycles[k]]
        /\ requests' = CutWindows(gone)
        /\ UNCHANGED <<clock, status, plans>>
    BY <1>2 DEF UpdatePlan
  <2> HIDE DEF ws, reset, left, joined, kept, gone
  <2>4. /\ windows' \in [Plans -> [Windows -> Window]]
        /\ shared' \in [Plans -> BOOLEAN]
        /\ bound' \in [Keys -> Plans \cup {Nil}]
    BY <2>1, <2>3 DEF TypeOK
  <2>5. pool' \in [Plans -> [Windows -> Cycle]]
    BY <2>3, WithoutType DEF TypeOK
  <2>6. cycles' \in [Keys -> [Windows -> Cycle]]
    BY <2>3, WithoutType, NoCyclesType DEF TypeOK
  <2>7. /\ requests' \in [Requests -> Request]
        /\ \A r \in Requests : /\ requests'[r].stage = requests[r].stage
                               /\ requests'[r].key = requests[r].key
                               /\ requests'[r].at = requests[r].at
    BY <2>2, <2>3, CutWindowsType
  <2> QED
    BY <2>3, <2>4, <2>5, <2>6, <2>7 DEF TypeOK
<1>3. CASE DeletePlan(p)
  <2>1. /\ plans' \in SUBSET Plans
        /\ shared' \in [Plans -> BOOLEAN]
        /\ windows' \in [Plans -> [Windows -> Window]]
        /\ pool' \in [Plans -> [Windows -> Cycle]]
    BY <1>3, NoWindowsType, NoCyclesType DEF DeletePlan, TypeOK
  <2> QED
    BY <1>3, <2>1, BindPlanType DEF DeletePlan, TypeOK
<1>4. ASSUME NEW ws \in [Windows -> WindowInputs], NEW isShared \in BOOLEAN,
             UpdatePlan(p, ws, isShared, FALSE, {})
      PROVE  TypeOK'
  <2>1. {} \in SUBSET Keys /\ FALSE \in BOOLEAN
    OBVIOUS
  <2> QED
    BY <1>4, <1>2, <2>1, Zenon
<1> QED
  BY <1>1, <1>2, <1>3, <1>4 DEF PlanStep

LEMMA ResetQuotasType ==
  ASSUME TypeOK, NEW ks, NEW ps, ResetQuotas(ks, ps)
  PROVE  TypeOK'
<1>1. cycles' \in [Keys -> [Windows -> Cycle]] /\ pool' \in [Plans -> [Windows -> Cycle]]
  BY NoCyclesType DEF ResetQuotas, TypeOK
<1>2. PICK cut : requests' = CutKeys(cut)
  BY DEF ResetQuotas
<1>3. /\ requests' \in [Requests -> Request]
      /\ \A r \in Requests : /\ requests'[r].stage = requests[r].stage
                             /\ requests'[r].key = requests[r].key
                             /\ requests'[r].at = requests[r].at
  BY <1>2, CutKeysType
<1>4. UNCHANGED <<clock, status, bound, plans, shared, windows>>
  BY DEF ResetQuotas
<1> QED
  BY <1>1, <1>3, <1>4 DEF TypeOK

LEMMA ResetStepResets ==
  ASSUME ResetStep
  PROVE  \E ks \in SUBSET Keys, ps \in SUBSET plans : ResetQuotas(ks, ps)
BY DEF ResetStep, ResetGlobal, ResetKeys, ResetPlanQuota

LEMMA TickType ==
  ASSUME TypeOK, Tick
  PROVE  TypeOK'
<1>1. clock \in Nat /\ clock >= StartTime /\ clock' = clock + 1
  BY DEF Tick, TypeOK
<1>2. \A t \in StartTime..clock : t \in StartTime..clock'
  BY <1>1, QuotaAssumption
<1>3. clock' \in Nat /\ clock' >= StartTime
  BY <1>1, QuotaAssumption
<1> QED
  BY <1>2, <1>3 DEF Tick, TypeOK, keyVars, planVars

LEMMA TypeInit == Init => TypeOK
BY QuotaAssumption, IdleType, NoCyclesType, NoWindowsType DEF Init, TypeOK, Statuses

LEMMA TypeNext == TypeOK /\ [Next]_vars => TypeOK'
<1> SUFFICES ASSUME TypeOK, [Next]_vars PROVE TypeOK'
  OBVIOUS
<1>1. CASE Tick
  BY <1>1, TickType
<1>2. ASSUME NEW r \in Requests, RequestStep(r) PROVE TypeOK'
  BY <1>2, RequestStepType
<1>3. CASE ViewStep
  BY <1>3, ViewStepType
<1>4. CASE KeyStep
  BY <1>4, KeyStepType
<1>5. ASSUME NEW p \in Plans, PlanStep(p) PROVE TypeOK'
  BY <1>5, PlanStepType
<1>6. CASE ResetStep
  BY <1>6, ResetStepResets, ResetQuotasType
<1>7. CASE UNCHANGED vars
  BY <1>7 DEF vars, keyVars, planVars, TypeOK
<1> QED
  BY <1>1, <1>2, <1>3, <1>4, <1>5, <1>6, <1>7 DEF Next

\* Every variable always holds a value of its type, whatever the constants are:
\* counters stay within MaxCount (addQuotaCount), instants are real ones.
THEOREM TypeCorrect == Spec => []TypeOK
BY TypeInit, TypeNext, PTL DEF Spec

----------------------------------------------------------------------------
(* The invariant, one key, plan or request at a time *)

GoodCycle(c, window, p, now) ==
  c # ZeroCycle => ValidCycle(c, window, p) /\ 0 < c.start /\ c.start <= now /\ c.since <= now

Good(cs, ws, p, now) == \A w \in Windows : GoodCycle(cs[w], ws[w], p, now)

KeyGood(k) ==
  IF bound[k] = Nil THEN cycles[k] = NoCycles
  ELSE bound[k] \in plans /\ Good(cycles[k], windows[bound[k]], bound[k], clock)

PlanGood(p) ==
  /\ p \in plans => ValidPlan(windows[p], shared[p]) /\ Good(pool[p], windows[p], p, clock)
  /\ p \notin plans \/ ~shared[p] => pool[p] = NoCycles

Backs(cs, ps, now) ==
  \A w \in Windows : Started(cs[w]) /\ now < cs[w].end => ps[w].start = cs[w].start

KeyBacked(k) == bound[k] # Nil /\ shared[bound[k]] => Backs(cycles[k], pool[bound[k]], clock)

HeldBy(q, cs, ps, p, isShared, now) ==
  \A w \in Windows :
    q.stage \in {"admitted", "running"} /\ now < q.ends[w]
      => /\ cs[w].end = q.ends[w]
         /\ q.stage = "running" => /\ Accepts(cs[w], p, q.at)
                                   /\ isShared => Accepts(ps[w], p, q.at)

RequestHeld(r) ==
  LET k == requests[r].key
  IN  HeldBy(requests[r], cycles[k], pool[bound[k]], bound[k], shared[bound[k]], clock)

Parts ==
  /\ \A k \in Keys : KeyGood(k) /\ KeyBacked(k)
  /\ \A p \in Plans : PlanGood(p)
  /\ \A r \in Requests : RequestHeld(r)

LEMMA IInvParts == TypeOK => (IInv <=> Parts)
<1> SUFFICES ASSUME TypeOK PROVE IInv <=> Parts
  OBVIOUS
<1>1. (Loadable /\ Dates) <=> ((\A k \in Keys : KeyGood(k)) /\ (\A p \in Plans : PlanGood(p)))
  <2>1. ASSUME Loadable, Dates PROVE (\A k \in Keys : KeyGood(k)) /\ (\A p \in Plans : PlanGood(p))
    BY <2>1 DEF Loadable, Dates, Past, KeyGood, PlanGood, Good, GoodCycle, ValidCycles, TypeOK
  <2>2. ASSUME \A k \in Keys : KeyGood(k), \A p \in Plans : PlanGood(p) PROVE Loadable
    BY <2>2 DEF Loadable, KeyGood, PlanGood, Good, GoodCycle, ValidCycles, TypeOK
  <2>3. ASSUME \A k \in Keys : KeyGood(k), \A p \in Plans : PlanGood(p) PROVE Dates
    <3>1. ASSUME NEW k \in Keys, NEW w \in Windows PROVE Past(cycles[k][w])
      BY <2>3, <3>1 DEF KeyGood, Good, GoodCycle, Past, NoCycles
    <3>2. ASSUME NEW p \in Plans, NEW w \in Windows PROVE Past(pool[p][w])
      BY <2>3, <3>2 DEF PlanGood, Good, GoodCycle, Past, NoCycles
    <3> QED
      BY <3>1, <3>2 DEF Dates
  <2> QED
    BY <2>1, <2>2, <2>3
<1>2. PoolBacksMembers <=> \A k \in Keys : KeyBacked(k)
  BY DEF PoolBacksMembers, KeyBacked, Backs, Current
<1>3. (Held /\ NoFreeUsage) <=> \A r \in Requests : RequestHeld(r)
  <2>1. ASSUME Held, NoFreeUsage, NEW r \in Requests PROVE RequestHeld(r)
    BY <2>1 DEF Held, NoFreeUsage, RequestHeld, HeldBy
  <2>2. ASSUME \A r \in Requests : RequestHeld(r) PROVE Held /\ NoFreeUsage
    BY <2>2 DEF Held, NoFreeUsage, RequestHeld, HeldBy
  <2> QED
    BY <2>1, <2>2
<1> QED
  BY <1>1, <1>2, <1>3 DEF IInv, Parts

LEMMA IInvPartsNext == TypeOK' => (IInv' <=> Parts')
BY IInvParts, PTL

----------------------------------------------------------------------------
(* What the operations do to cycles *)

SameSpan(c, d) == c.plan = d.plan /\ c.start = d.start /\ c.end = d.end /\ c.since = d.since

\* ds has no cycle that cs has not, up to usage.
NoNewCycle(cs, ds) ==
  \A w \in Windows : ds[w] = ZeroCycle \/ (cs[w] # ZeroCycle /\ SameSpan(cs[w], ds[w]))

\* ds still has the cycles of cs that are not over.
KeepsCurrent(cs, ds, now) == \A w \in Windows : now < cs[w].end => SameSpan(cs[w], ds[w])

LEMMA Unchanged ==
  ASSUME NEW cs \in [Windows -> Cycle], NEW now
  PROVE  NoNewCycle(cs, cs) /\ KeepsCurrent(cs, cs, now)
BY DEF NoNewCycle, KeepsCurrent, SameSpan

LEMMA QuietTransitive ==
  ASSUME NEW cs \in [Windows -> Cycle], NEW ds \in [Windows -> Cycle],
         NEW es \in [Windows -> Cycle], NEW now \in Nat,
         NoNewCycle(cs, ds), KeepsCurrent(cs, ds, now),
         NoNewCycle(ds, es), KeepsCurrent(ds, es, now)
  PROVE  NoNewCycle(cs, es) /\ KeepsCurrent(cs, es, now)
BY DEF NoNewCycle, KeepsCurrent, SameSpan

\* An instant that is not in the future ends only cycles that are over.
LEMMA SettleQuiet ==
  ASSUME NEW cs \in [Windows -> Cycle], NEW now \in Nat, NEW at \in Nat, at <= now
  PROVE  NoNewCycle(cs, Settle(cs, at)) /\ KeepsCurrent(cs, Settle(cs, at), now)
<1>1. \A w \in Windows : cs[w].end \in Nat
  BY DEF Cycle
<1> QED
  BY <1>1 DEF NoNewCycle, KeepsCurrent, SameSpan, Settle

LEMMA ChargeQuiet ==
  ASSUME NEW cycle \in Cycle, NEW usage \in Usages
  PROVE  SameSpan(cycle, Charge(cycle, usage))
BY DEF SameSpan, Charge, Cycle

LEMMA ChargeKeyQuiet ==
  ASSUME NEW cs \in [Windows -> Cycle], NEW p, NEW at, NEW usage \in Usages, NEW now \in Nat
  PROVE  NoNewCycle(cs, ChargeKey(cs, p, at, usage))
         /\ KeepsCurrent(cs, ChargeKey(cs, p, at, usage), now)
<1> SUFFICES ASSUME NEW w \in Windows
             PROVE  LET d == ChargeKey(cs, p, at, usage)[w]
                    IN  d = cs[w] \/ (cs[w] # ZeroCycle /\ SameSpan(cs[w], d))
  BY DEF NoNewCycle, KeepsCurrent, SameSpan
<1>1. CASE Accepts(cs[w], p, at)
  BY <1>1, ChargeQuiet DEF ChargeKey, Accepts, ZeroCycle
<1>2. CASE ~Accepts(cs[w], p, at)
  BY <1>2 DEF ChargeKey
<1> QED
  BY <1>1, <1>2

LEMMA ChargePoolQuiet ==
  ASSUME NEW ps \in [Windows -> Cycle], NEW cs, NEW p, NEW at, NEW usage \in Usages,
         NEW now \in Nat
  PROVE  NoNewCycle(ps, ChargePool(ps, cs, p, at, usage))
         /\ KeepsCurrent(ps, ChargePool(ps, cs, p, at, usage), now)
<1> SUFFICES ASSUME NEW w \in Windows
             PROVE  LET d == ChargePool(ps, cs, p, at, usage)[w]
                    IN  d = ps[w] \/ (ps[w] # ZeroCycle /\ SameSpan(ps[w], d))
  BY DEF NoNewCycle, KeepsCurrent, SameSpan
<1>1. CASE Accepts(cs[w], p, at) /\ Accepts(ps[w], p, at)
  BY <1>1, ChargeQuiet DEF ChargePool, Accepts, ZeroCycle
<1>2. CASE ~(Accepts(cs[w], p, at) /\ Accepts(ps[w], p, at))
  BY <1>2 DEF ChargePool
<1> QED
  BY <1>1, <1>2

----------------------------------------------------------------------------
(* What that does to the invariant *)

LEMMA GoodQuiet ==
  ASSUME NEW cs, NEW ds, NEW ws, NEW p, NEW now, Good(cs, ws, p, now), NoNewCycle(cs, ds)
  PROVE  Good(ds, ws, p, now)
BY DEF Good, GoodCycle, ValidCycle, NoNewCycle, SameSpan

\* A current cycle is one of its plan's, and begins neither at zero nor after now.
LEMMA CurrentGood ==
  ASSUME NEW cs \in [Windows -> Cycle], NEW ws \in [Windows -> Window], NEW p, NEW now \in Nat,
         Good(cs, ws, p, now), NEW w \in Windows, Started(cs[w]) \/ now < cs[w].end
  PROVE  /\ Started(cs[w]) /\ cs[w].plan = p /\ p # Nil /\ Present(ws[w])
         /\ cs[w].end = cs[w].start + ws[w].period
         /\ cs[w].start <= now /\ cs[w].since <= now
<1>1. cs[w] # ZeroCycle
  BY DEF ZeroCycle, Started
<1> QED
  BY <1>1 DEF Good, GoodCycle, ValidCycle, Started

LEMMA BacksQuiet ==
  ASSUME NEW cs \in [Windows -> Cycle], NEW ps \in [Windows -> Cycle],
         NEW ds, NEW qs, NEW ws \in [Windows -> Window], NEW p, NEW now \in Nat,
         Good(cs, ws, p, now), Good(ps, ws, p, now), Backs(cs, ps, now),
         NoNewCycle(cs, ds), KeepsCurrent(ps, qs, now)
  PROVE  Backs(ds, qs, now)
<1> SUFFICES ASSUME NEW w \in Windows, Started(ds[w]), now < ds[w].end
             PROVE  qs[w].start = ds[w].start
  BY DEF Backs
<1>1. cs[w].start = ds[w].start /\ cs[w].end = ds[w].end /\ Started(cs[w])
  BY DEF NoNewCycle, SameSpan, Started, ZeroCycle
<1>2. ps[w].start = cs[w].start /\ Started(ps[w])
  BY <1>1 DEF Backs, Started
<1>3. now < ps[w].end
  BY <1>1, <1>2, CurrentGood
<1> QED
  BY <1>1, <1>2, <1>3 DEF KeepsCurrent, SameSpan

LEMMA HeldQuiet ==
  ASSUME NEW cs \in [Windows -> Cycle], NEW ps \in [Windows -> Cycle],
         NEW ds, NEW qs, NEW ws \in [Windows -> Window], NEW p, NEW isShared \in BOOLEAN,
         NEW now \in Nat, NEW q,
         Good(cs, ws, p, now), isShared => Good(ps, ws, p, now) /\ Backs(cs, ps, now),
         HeldBy(q, cs, ps, p, isShared, now),
         KeepsCurrent(cs, ds, now), KeepsCurrent(ps, qs, now)
  PROVE  HeldBy(q, ds, qs, p, isShared, now)
<1> SUFFICES ASSUME NEW w \in Windows, q.stage \in {"admitted", "running"}, now < q.ends[w]
             PROVE  /\ ds[w].end = q.ends[w]
                    /\ q.stage = "running" => /\ Accepts(ds[w], p, q.at)
                                              /\ isShared => Accepts(qs[w], p, q.at)
  BY DEF HeldBy
<1>1. cs[w].end = q.ends[w] /\ now < cs[w].end
  BY DEF HeldBy
<1>2. SameSpan(cs[w], ds[w])
  BY <1>1 DEF KeepsCurrent
<1>3. ASSUME isShared PROVE SameSpan(ps[w], qs[w])
  <2>1. Started(cs[w]) /\ cs[w].end = cs[w].start + ws[w].period
    BY <1>1, CurrentGood
  <2>2. ps[w].start = cs[w].start /\ Started(ps[w])
    BY <1>1, <1>3, <2>1 DEF Backs, Started
  <2>3. now < ps[w].end
    BY <1>1, <1>3, <2>1, <2>2, CurrentGood
  <2> QED
    BY <2>3 DEF KeepsCurrent
<1>4. ds[w].end = q.ends[w]
  BY <1>1, <1>2 DEF SameSpan
<1>5. ASSUME q.stage = "running" PROVE Accepts(ds[w], p, q.at)
  <2>1. Accepts(cs[w], p, q.at)
    BY <1>5 DEF HeldBy
  <2> QED
    BY <1>2, <2>1 DEF SameSpan, Accepts
<1>6. ASSUME q.stage = "running", isShared PROVE Accepts(qs[w], p, q.at)
  <2>1. Accepts(ps[w], p, q.at)
    BY <1>6 DEF HeldBy
  <2>2. SameSpan(ps[w], qs[w])
    BY <1>3, <1>6
  <2> QED
    BY <2>1, <2>2 DEF SameSpan, Accepts
<1> QED
  BY <1>4, <1>5, <1>6


----------------------------------------------------------------------------
(* Steps that charge and expire cycles and move requests along *)

\* An attempt that begins now is one the cycles of its request's admission accept.
LEMMA AttemptHeld ==
  ASSUME IInv, NEW r \in Requests, requests[r].stage \in {"admitted", "running"},
         NEW q, q.stage = "running", q.key = requests[r].key, q.ends = requests[r].ends,
         q.at = clock
  PROVE  LET k == q.key IN HeldBy(q, cycles[k], pool[bound[k]], bound[k], shared[bound[k]], clock)
<1> DEFINE k == q.key
           p == bound[k]
<1> SUFFICES ASSUME NEW w \in Windows, clock < q.ends[w]
             PROVE  /\ cycles[k][w].end = q.ends[w]
                    /\ Accepts(cycles[k][w], p, q.at)
                    /\ shared[p] => Accepts(pool[p][w], p, q.at)
  BY DEF HeldBy
<1>1. TypeOK /\ k \in Keys /\ clock \in Nat \ {0}
  BY QuotaAssumption DEF IInv, TypeOK
<1>2. /\ KeyGood(k) /\ KeyBacked(k) /\ RequestHeld(r)
      /\ \A i \in Plans : PlanGood(i)
  BY <1>1, IInvParts DEF IInv, Parts
<1>3. cycles[k] \in [Windows -> Cycle]
  BY <1>1 DEF TypeOK
<1>4. cycles[k][w].end = q.ends[w] /\ clock < cycles[k][w].end
  BY <1>2 DEF RequestHeld, HeldBy
<1>5. p # Nil /\ p \in plans /\ Good(cycles[k], windows[p], p, clock)
  BY <1>2, <1>4, <1>1 DEF KeyGood, NoCycles, ZeroCycle
<1>6. p \in Plans /\ windows[p] \in [Windows -> Window] /\ pool[p] \in [Windows -> Cycle]
  BY <1>1, <1>5 DEF TypeOK
<1>7. /\ Started(cycles[k][w]) /\ cycles[k][w].plan = p
      /\ cycles[k][w].end = cycles[k][w].start + windows[p][w].period
      /\ cycles[k][w].start <= clock /\ cycles[k][w].since <= clock
  BY <1>1, <1>3, <1>4, <1>5, <1>6, CurrentGood
<1>8. Accepts(cycles[k][w], p, q.at)
  BY <1>1, <1>4, <1>5, <1>7 DEF Accepts
<1>9. ASSUME shared[p] PROVE Accepts(pool[p][w], p, q.at)
  <2>1. pool[p][w].start = cycles[k][w].start
    BY <1>2, <1>4, <1>5, <1>7, <1>9 DEF KeyBacked, Backs
  <2>2. Good(pool[p], windows[p], p, clock)
    BY <1>2, <1>5, <1>6 DEF PlanGood
  <2>3. /\ Started(pool[p][w]) /\ pool[p][w].plan = p
        /\ pool[p][w].end = pool[p][w].start + windows[p][w].period
        /\ pool[p][w].start <= clock /\ pool[p][w].since <= clock
    <3> DEFINE ps == pool[p]
               ws == windows[p]
    <3>1. ps \in [Windows -> Cycle] /\ ws \in [Windows -> Window] /\ Good(ps, ws, p, clock) /\ clock \in Nat
      BY <1>1, <1>6, <2>2
    <3>2. ps[w].start = cycles[k][w].start /\ Started(ps[w])
      BY <1>7, <2>1 DEF Started
    <3> HIDE DEF ps, ws
    <3>3. /\ Started(ps[w]) /\ ps[w].plan = p /\ ps[w].end = ps[w].start + ws[w].period
          /\ ps[w].start <= clock /\ ps[w].since <= clock
      BY <3>1, <3>2, CurrentGood
    <3> QED
      BY <3>3 DEF ps, ws
  <2> QED
    BY <1>1, <1>4, <1>5, <1>7, <2>1, <2>3 DEF Accepts
<1> QED
  BY <1>4, <1>8, <1>9

LEMMA QuietStep ==
  ASSUME IInv, TypeOK', UNCHANGED <<clock, bound, plans, shared, windows>>,
         \A k \in Keys : /\ NoNewCycle(cycles[k], cycles'[k])
                         /\ KeepsCurrent(cycles[k], cycles'[k], clock),
         \A p \in Plans : /\ NoNewCycle(pool[p], pool'[p])
                          /\ KeepsCurrent(pool[p], pool'[p], clock),
         \A r \in Requests :
           requests'[r].stage \in {"admitted", "running"}
             => LET k == requests'[r].key
                IN  HeldBy(requests'[r], cycles[k], pool[bound[k]], bound[k], shared[bound[k]], clock)
  PROVE  IInv'
<1>1. TypeOK /\ clock \in Nat
  BY DEF IInv, TypeOK
<1>2. /\ \A k \in Keys : KeyGood(k) /\ KeyBacked(k)
      /\ \A p \in Plans : PlanGood(p)
  BY <1>1, IInvParts DEF IInv, Parts
<1>3. ASSUME NEW k \in Keys PROVE KeyGood(k)' /\ KeyBacked(k)'
  <2>1. /\ cycles[k] \in [Windows -> Cycle] /\ cycles'[k] \in [Windows -> Cycle]
        /\ NoNewCycle(cycles[k], cycles'[k])
    BY <1>1 DEF TypeOK
  <2>2. CASE bound[k] = Nil
    <3>1. cycles'[k] = NoCycles
      BY <1>2, <2>1, <2>2 DEF KeyGood, NoNewCycle, NoCycles
    <3> QED
      BY <2>2, <3>1 DEF KeyGood, KeyBacked
  <2>3. CASE bound[k] # Nil
    <3> DEFINE p == bound[k]
    <3>1. /\ p \in plans /\ p \in Plans /\ Good(cycles[k], windows[p], p, clock)
          /\ PlanGood(p)
      BY <1>1, <1>2, <2>3 DEF KeyGood, TypeOK
    <3>2. Good(cycles'[k], windows[p], p, clock)
      BY <2>1, <3>1, GoodQuiet
    <3>3. ASSUME shared[p] PROVE Backs(cycles'[k], pool'[p], clock)
      <4>1. Good(pool[p], windows[p], p, clock) /\ Backs(cycles[k], pool[p], clock)
        BY <1>2, <2>3, <3>1, <3>3 DEF PlanGood, KeyBacked
      <4>2. /\ windows[p] \in [Windows -> Window] /\ pool[p] \in [Windows -> Cycle]
            /\ KeepsCurrent(pool[p], pool'[p], clock)
        BY <1>1, <3>1 DEF TypeOK
      <4> QED
        BY <1>1, <2>1, <3>1, <4>1, <4>2, BacksQuiet
    <3> QED
      BY <2>3, <3>1, <3>2, <3>3 DEF KeyGood, KeyBacked
  <2> QED
    BY <2>2, <2>3
<1>4. ASSUME NEW p \in Plans PROVE PlanGood(p)'
  <2>1. /\ pool[p] \in [Windows -> Cycle] /\ pool'[p] \in [Windows -> Cycle]
        /\ NoNewCycle(pool[p], pool'[p]) /\ PlanGood(p)
    BY <1>1, <1>2 DEF TypeOK
  <2>2. pool[p] = NoCycles => pool'[p] = NoCycles
    BY <2>1 DEF NoNewCycle, NoCycles
  <2>3. Good(pool[p], windows[p], p, clock) => Good(pool'[p], windows[p], p, clock)
    BY <2>1, GoodQuiet
  <2> QED
    BY <2>1, <2>2, <2>3 DEF PlanGood
<1>5. ASSUME NEW r \in Requests PROVE RequestHeld(r)'
  <2> DEFINE q == requests'[r]
             k == q.key
             p == bound[k]
  <2>1. CASE q.stage \notin {"admitted", "running"}
    BY <2>1 DEF RequestHeld, HeldBy
  <2>2. CASE q.stage \in {"admitted", "running"}
    <3>1. k \in Keys /\ cycles[k] \in [Windows -> Cycle] /\ KeepsCurrent(cycles[k], cycles'[k], clock)
      BY <1>1, <2>2 DEF TypeOK
    <3>2. HeldBy(q, cycles[k], pool[p], p, shared[p], clock)
      BY <2>2
    <3>3. CASE p = Nil
      <4>1. cycles[k] = NoCycles
        BY <1>2, <3>1, <3>3 DEF KeyGood
      <4>2. \A w \in Windows : ~(clock < q.ends[w])
        BY <1>1, <2>2, <3>2, <4>1 DEF HeldBy, NoCycles, ZeroCycle
      <4> QED
        BY <4>2 DEF RequestHeld, HeldBy
    <3>4. CASE p # Nil
      <4>1. /\ p \in Plans /\ shared[p] \in BOOLEAN
            /\ windows[p] \in [Windows -> Window] /\ pool[p] \in [Windows -> Cycle]
        BY <1>1, <3>1, <3>4 DEF TypeOK
      <4>2. /\ Good(cycles[k], windows[p], p, clock)
            /\ KeepsCurrent(pool[p], pool'[p], clock)
        BY <1>2, <3>1, <3>4, <4>1 DEF KeyGood
      <4>3. shared[p] => Good(pool[p], windows[p], p, clock) /\ Backs(cycles[k], pool[p], clock)
        BY <1>2, <3>1, <3>4, <4>1 DEF KeyGood, PlanGood, KeyBacked
      <4>4. HeldBy(q, cycles'[k], pool'[p], p, shared[p], clock)
        BY <1>1, <3>1, <3>2, <4>1, <4>2, <4>3, HeldQuiet
      <4> QED
        BY <4>4 DEF RequestHeld
    <3> QED
      BY <3>3, <3>4
  <2> QED
    BY <2>1, <2>2
<1> QED
  BY <1>3, <1>4, <1>5, IInvPartsNext DEF Parts

\* The requests a step leaves are held by the cycles it found.
HeldNext ==
  \A r \in Requests :
    requests'[r].stage \in {"admitted", "running"}
      => LET k == requests'[r].key
         IN  HeldBy(requests'[r], cycles[k], pool[bound[k]], bound[k], shared[bound[k]], clock)

LEMMA OneRequestHeld ==
  ASSUME IInv, NEW r \in Requests, NEW q, requests' = [requests EXCEPT ![r] = q],
         q.stage \in {"admitted", "running"}
           => LET k == q.key
              IN  HeldBy(q, cycles[k], pool[bound[k]], bound[k], shared[bound[k]], clock)
  PROVE  HeldNext
<1>1. TypeOK /\ \A i \in Requests : RequestHeld(i)
  BY IInvParts DEF IInv, Parts
<1> SUFFICES ASSUME NEW i \in Requests, requests'[i].stage \in {"admitted", "running"}
             PROVE  LET k == requests'[i].key
                    IN  HeldBy(requests'[i], cycles[k], pool[bound[k]], bound[k], shared[bound[k]], clock)
  BY DEF HeldNext
<1>2. CASE i = r
  <2>1. requests'[i] = q
    BY <1>1, <1>2 DEF TypeOK
  <2> QED
    BY <2>1
<1>3. CASE i # r
  <2>1. requests'[i] = requests[i] /\ RequestHeld(i)
    BY <1>1, <1>3 DEF TypeOK
  <2> QED
    BY <2>1 DEF RequestHeld
<1> QED
  BY <1>2, <1>3

LEMMA SameRequestsHeld ==
  ASSUME IInv, requests' = requests
  PROVE  HeldNext
<1>1. \A i \in Requests : RequestHeld(i)
  BY IInvParts DEF IInv, Parts
<1> QED
  BY <1>1 DEF HeldNext, RequestHeld

LEMMA SameCyclesQuiet ==
  ASSUME TypeOK
  PROVE  /\ \A k \in Keys : NoNewCycle(cycles[k], cycles[k]) /\ KeepsCurrent(cycles[k], cycles[k], clock)
         /\ \A p \in Plans : NoNewCycle(pool[p], pool[p]) /\ KeepsCurrent(pool[p], pool[p], clock)
BY Unchanged DEF TypeOK

\* A step that leaves keys and plans alone.
LEMMA RequestOnlyStep ==
  ASSUME IInv, TypeOK', UNCHANGED <<clock, bound, cycles, planVars>>, HeldNext
  PROVE  IInv'
<1>1. /\ \A k \in Keys : NoNewCycle(cycles[k], cycles'[k]) /\ KeepsCurrent(cycles[k], cycles'[k], clock)
      /\ \A p \in Plans : NoNewCycle(pool[p], pool'[p]) /\ KeepsCurrent(pool[p], pool'[p], clock)
  BY SameCyclesQuiet DEF IInv, planVars
<1> QED
  BY <1>1, QuietStep DEF HeldNext, planVars

LEMMA QuietRequestInv ==
  ASSUME IInv, TypeOK', NEW r \in Requests, RequestStep(r), ~AuthorizeAdmit(r)
  PROVE  IInv'
<1>1. /\ TypeOK /\ clock \in Nat /\ requests[r] \in Request
      /\ requests[r].stage # "idle" => requests[r].key \in Keys
      /\ requests[r].stage \in {"arrived", "running", "helper"}
           => requests[r].at \in StartTime..clock
  BY DEF IInv, TypeOK
<1>2. ASSUME NEW k \in Keys, Arrive(r, k) PROVE IInv'
  <2> DEFINE q == [Idle EXCEPT !.stage = "arrived", !.key = k, !.at = clock]
  <2>1. requests' = [requests EXCEPT ![r] = q] /\ q.stage = "arrived"
    BY <1>2 DEF Arrive, Idle
  <2> HIDE DEF q
  <2>2. HeldNext
    BY <2>1, OneRequestHeld
  <2> QED
    BY <1>2, <2>2, RequestOnlyStep DEF Arrive, keyVars, planVars
<1>3. ASSUME NEW k \in Keys, HelperCall(r, k) PROVE IInv'
  <2> DEFINE q == [Idle EXCEPT !.stage = "helper", !.key = k, !.at = clock]
  <2>1. requests' = [requests EXCEPT ![r] = q] /\ q.stage = "helper"
    BY <1>3 DEF HelperCall, Idle
  <2> HIDE DEF q
  <2>2. HeldNext
    BY <2>1, OneRequestHeld
  <2> QED
    BY <1>3, <2>2, RequestOnlyStep DEF HelperCall, keyVars, planVars
<1>4. CASE AuthorizeUnlimited(r)
  <2> DEFINE q == [requests[r] EXCEPT !.stage = "admitted", !.at = 0,
                                      !.ends = [w \in Windows |-> NoCycles[w].end]]
  <2>1. requests' = [requests EXCEPT ![r] = q]
    BY <1>1, <1>4 DEF AuthorizeUnlimited, Admitted, TypeOK
  <2>2. \A w \in Windows : ~(clock < q.ends[w])
    BY <1>1 DEF Request, NoCycles, ZeroCycle
  <2> HIDE DEF q
  <2>3. HeldNext
    BY <2>1, <2>2, OneRequestHeld DEF HeldBy
  <2> QED
    BY <1>4, <2>3, RequestOnlyStep DEF AuthorizeUnlimited, keyVars, planVars
<1>5. CASE AuthorizeRefuse(r)
  <2> DEFINE k == requests[r].key
             p == bound[k]
  <2>1. k \in Keys /\ p \in Plans /\ requests[r].at \in Nat /\ requests[r].at <= clock
    BY <1>1, <1>5, QuotaAssumption DEF AuthorizeRefuse, TypeOK
  <2>2. /\ cycles' = [cycles EXCEPT ![k] = Settle(cycles[k], requests[r].at)]
        /\ pool' = [pool EXCEPT ![p] = Settle(pool[p], requests[r].at)]
    BY <1>5 DEF AuthorizeRefuse, SettledKey, SettledPool
  <2>3. \A i \in Keys : NoNewCycle(cycles[i], cycles'[i]) /\ KeepsCurrent(cycles[i], cycles'[i], clock)
    BY <1>1, <2>1, <2>2, SameCyclesQuiet, SettleQuiet DEF TypeOK
  <2>4. \A i \in Plans : NoNewCycle(pool[i], pool'[i]) /\ KeepsCurrent(pool[i], pool'[i], clock)
    BY <1>1, <2>1, <2>2, SameCyclesQuiet, SettleQuiet DEF TypeOK
  <2>5. HeldNext
    BY <1>5, IdleType, OneRequestHeld DEF AuthorizeRefuse
  <2> QED
    BY <1>5, <2>3, <2>4, <2>5, QuietStep DEF AuthorizeRefuse, HeldNext
<1>6. CASE StartAttempt(r)
  <2> DEFINE q == [requests[r] EXCEPT !.stage = "running", !.at = clock]
  <2>1. /\ q.stage = "running" /\ q.key = requests[r].key /\ q.ends = requests[r].ends
        /\ q.at = clock
    BY <1>1 DEF Request
  <2>2. requests' = [requests EXCEPT ![r] = q] /\ requests[r].stage = "admitted"
    BY <1>1, <1>6 DEF StartAttempt, TypeOK
  <2> HIDE DEF q
  <2>3. HeldNext
    BY <2>1, <2>2, AttemptHeld, OneRequestHeld
  <2> QED
    BY <1>6, <2>3, RequestOnlyStep DEF StartAttempt, keyVars, planVars
<1>7. ASSUME NEW next \in Requests, Retry(r, next) PROVE IInv'
  <2> DEFINE q == [requests[r] EXCEPT !.at = clock]
  <2>1. /\ q.stage = "running" /\ q.key = requests[r].key /\ q.ends = requests[r].ends
        /\ q.at = clock /\ requests[r].stage = "running"
    BY <1>1, <1>7 DEF Request, Retry
  <2>2. requests' = [requests EXCEPT ![next] = q]
    BY <1>7 DEF Retry
  <2> HIDE DEF q
  <2>3. HeldNext
    BY <2>1, <2>2, AttemptHeld, OneRequestHeld
  <2> QED
    BY <1>7, <2>3, RequestOnlyStep DEF Retry, keyVars, planVars
<1>8. CASE Abandon(r)
  <2>1. HeldNext
    BY <1>8, IdleType, OneRequestHeld DEF Abandon
  <2> QED
    BY <1>8, <2>1, RequestOnlyStep DEF Abandon, keyVars, planVars
<1>9. ASSUME NEW usage \in Usages, NEW timed \in BOOLEAN, NEW now \in Instants,
             RecordUsage(r, usage, timed, now)
      PROVE  IInv'
  <2> DEFINE k == requests[r].key
             at == IF timed THEN requests[r].at ELSE 0
             p == bound[k]
             cs == ChargeKey(cycles[k], p, at, usage)
             ps == ChargePool(pool[p], cycles[k], p, at, usage)
  <2>1. k \in Keys /\ now \in Nat /\ now <= clock
    BY <1>1, <1>9, QuotaAssumption DEF RecordUsage, Instants
  <2>2. /\ cycles' = [cycles EXCEPT ![k] = Settle(cs, now)]
        /\ pool' = IF p = Nil THEN pool
                   ELSE [pool EXCEPT ![p] = Settle(IF shared[p] THEN ps ELSE pool[p], now)]
    BY <1>1, <1>9 DEF RecordUsage, TypeOK
  <2>3. /\ NoNewCycle(cycles[k], Settle(cs, now))
        /\ KeepsCurrent(cycles[k], Settle(cs, now), clock)
    <3>1. cycles[k] \in [Windows -> Cycle] /\ cs \in [Windows -> Cycle]
      BY <1>1, <2>1, ChargeKeyType DEF TypeOK
    <3>2. NoNewCycle(cycles[k], cs) /\ KeepsCurrent(cycles[k], cs, clock)
      BY <1>1, <3>1, ChargeKeyQuiet
    <3> HIDE DEF cs
    <3>3. NoNewCycle(cs, Settle(cs, now)) /\ KeepsCurrent(cs, Settle(cs, now), clock)
      BY <1>1, <2>1, <3>1, SettleQuiet
    <3>4. Settle(cs, now) \in [Windows -> Cycle]
      BY <3>1, SettleType
    <3> QED
      BY <1>1, <3>1, <3>2, <3>3, <3>4, QuietTransitive
  <2>4. ASSUME p # Nil
        PROVE  LET qs == Settle(IF shared[p] THEN ps ELSE pool[p], now)
               IN  NoNewCycle(pool[p], qs) /\ KeepsCurrent(pool[p], qs, clock)
    <3>1. pool[p] \in [Windows -> Cycle] /\ ps \in [Windows -> Cycle]
      <4>1. pool[p] \in [Windows -> Cycle]
        BY <1>1, <2>1, <2>4 DEF TypeOK
      <4> HIDE DEF at
      <4> QED
        BY <4>1, ChargePoolType
    <3>2. NoNewCycle(pool[p], ps) /\ KeepsCurrent(pool[p], ps, clock)
      BY <1>1, <3>1, ChargePoolQuiet
    <3> HIDE DEF ps
    <3>3. /\ NoNewCycle(ps, Settle(ps, now)) /\ KeepsCurrent(ps, Settle(ps, now), clock)
          /\ NoNewCycle(pool[p], Settle(pool[p], now))
          /\ KeepsCurrent(pool[p], Settle(pool[p], now), clock)
      BY <1>1, <2>1, <3>1, SettleQuiet
    <3>4. Settle(ps, now) \in [Windows -> Cycle]
      BY <3>1, SettleType
    <3>5. NoNewCycle(pool[p], Settle(ps, now)) /\ KeepsCurrent(pool[p], Settle(ps, now), clock)
      BY <1>1, <3>1, <3>2, <3>3, <3>4, QuietTransitive
    <3> QED
      BY <3>3, <3>5
  <2> HIDE DEF at, cs, ps
  <2>5. \A i \in Keys : NoNewCycle(cycles[i], cycles'[i]) /\ KeepsCurrent(cycles[i], cycles'[i], clock)
    BY <1>1, <2>1, <2>2, <2>3, SameCyclesQuiet DEF TypeOK
  <2>6. \A i \in Plans : NoNewCycle(pool[i], pool'[i]) /\ KeepsCurrent(pool[i], pool'[i], clock)
    BY <1>1, <2>1, <2>2, <2>4, SameCyclesQuiet DEF TypeOK
  <2>7. HeldNext
    BY <1>9, IdleType, OneRequestHeld DEF RecordUsage
  <2> QED
    BY <1>9, <2>5, <2>6, <2>7, QuietStep DEF RecordUsage, HeldNext
<1> QED
  BY <1>2, <1>3, <1>4, <1>5, <1>6, <1>7, <1>8, <1>9 DEF RequestStep

LEMMA ViewStepInv ==
  ASSUME IInv, TypeOK', ViewStep
  PROVE  IInv'
<1>1. TypeOK /\ clock \in Nat
  BY DEF IInv, TypeOK
<1>2. ASSUME NEW now \in Instants, KeyViews(now) PROVE IInv'
  <2>1. now \in Nat /\ now <= clock
    BY <1>1, <1>2, QuotaAssumption DEF KeyViews, Instants
  <2>2. \A k \in Keys : NoNewCycle(cycles[k], cycles'[k]) /\ KeepsCurrent(cycles[k], cycles'[k], clock)
    BY <1>1, <1>2, <2>1, SettleQuiet, Unchanged DEF KeyViews, TypeOK
  <2>3. \A p \in Plans : NoNewCycle(pool[p], pool'[p]) /\ KeepsCurrent(pool[p], pool'[p], clock)
    BY <1>1, <1>2, <2>1, SettleQuiet DEF KeyViews, TypeOK
  <2>4. HeldNext
    BY <1>2, SameRequestsHeld DEF KeyViews
  <2> QED
    BY <1>2, <2>2, <2>3, <2>4, QuietStep DEF KeyViews, HeldNext
<1>3. ASSUME NEW now \in Instants, PlanViews(now) PROVE IInv'
  <2>1. now \in Nat /\ now <= clock
    BY <1>1, <1>3, QuotaAssumption DEF PlanViews, Instants
  <2>2. \A k \in Keys : NoNewCycle(cycles[k], cycles'[k]) /\ KeepsCurrent(cycles[k], cycles'[k], clock)
    BY <1>1, <1>3, SameCyclesQuiet DEF PlanViews, keyVars
  <2>3. \A p \in Plans : NoNewCycle(pool[p], pool'[p]) /\ KeepsCurrent(pool[p], pool'[p], clock)
    BY <1>1, <1>3, <2>1, SettleQuiet, Unchanged DEF PlanViews, TypeOK
  <2>4. HeldNext
    BY <1>3, SameRequestsHeld DEF PlanViews
  <2> QED
    BY <1>3, <2>2, <2>3, <2>4, QuietStep DEF PlanViews, HeldNext, keyVars
<1>4. ASSUME NEW k \in Keys, KeyViewForScope(k) PROVE IInv'
  <2>1. ASSUME NEW i \in Keys
        PROVE  NoNewCycle(cycles[i], cycles'[i]) /\ KeepsCurrent(cycles[i], cycles'[i], clock)
    <3>1. cycles[i] \in [Windows -> Cycle]
      BY <1>1 DEF TypeOK
    <3>2. cycles'[i] = cycles[i] \/ cycles'[i] = Settle(cycles[i], clock)
      BY <1>1, <1>4 DEF KeyViewForScope, TypeOK
    <3> QED
      BY <1>1, <3>1, <3>2, SettleQuiet, Unchanged
  <2>2. ASSUME NEW p \in Plans
        PROVE  NoNewCycle(pool[p], pool'[p]) /\ KeepsCurrent(pool[p], pool'[p], clock)
    <3>1. pool[p] \in [Windows -> Cycle]
      BY <1>1 DEF TypeOK
    <3>2. pool'[p] = pool[p] \/ pool'[p] = Settle(pool[p], clock)
      BY <1>1, <1>4 DEF KeyViewForScope, TypeOK
    <3> QED
      BY <1>1, <3>1, <3>2, SettleQuiet, Unchanged
  <2>3. HeldNext
    BY <1>4, SameRequestsHeld DEF KeyViewForScope
  <2> QED
    BY <1>4, <2>1, <2>2, <2>3, QuietStep DEF KeyViewForScope, HeldNext
<1> QED
  BY <1>2, <1>3, <1>4 DEF ViewStep

LEMMA SyncKeysInv ==
  ASSUME IInv, TypeOK', NEW listed, NEW allowEmpty, SyncKeys(listed, allowEmpty)
  PROVE  IInv'
<1>1. HeldNext
  BY SameRequestsHeld DEF SyncKeys
<1> QED
  BY <1>1, RequestOnlyStep DEF SyncKeys

LEMMA TickInv ==
  ASSUME IInv, TypeOK', Tick
  PROVE  IInv'
<1>1. /\ TypeOK /\ clock \in Nat /\ clock' = clock + 1
      /\ UNCHANGED <<status, bound, cycles, plans, shared, windows, pool, requests>>
  BY DEF IInv, TypeOK, Tick, keyVars, planVars
<1>2. Loadable'
  BY <1>1 DEF IInv, Loadable
<1>3. Dates'
  <2>1. \A k \in Keys, w \in Windows : cycles[k][w] \in Cycle
    BY <1>1 DEF TypeOK
  <2>2. \A p \in Plans, w \in Windows : pool[p][w] \in Cycle
    BY <1>1 DEF TypeOK
  <2>3. ASSUME NEW c \in Cycle, Past(c) PROVE Past(c)'
    BY <1>1, <2>3 DEF Past, Cycle
  <2> QED
    BY <1>1, <2>1, <2>2, <2>3 DEF IInv, Dates
<1>4. PoolBacksMembers'
  <2>1. \A k \in Keys, w \in Windows : cycles[k][w].end \in Nat
    BY <1>1 DEF TypeOK, Cycle
  <2> QED
    BY <1>1, <2>1 DEF IInv, PoolBacksMembers, Current
<1>5. \A r \in Requests, w \in Windows : requests[r].ends[w] \in Nat
  BY <1>1 DEF TypeOK, Request
<1>6. Held'
  BY <1>1, <1>5 DEF IInv, Held
<1>7. NoFreeUsage'
  BY <1>1, <1>5 DEF IInv, NoFreeUsage
<1> QED
  BY <1>2, <1>3, <1>4, <1>6, <1>7 DEF IInv

----------------------------------------------------------------------------
(* Admission *)

LEMMA NewCycleGood ==
  ASSUME NEW window \in Window, Present(window), NEW p \in Plans, NEW now \in Nat,
         NEW at \in Nat, at >= StartTime, at <= now
  PROVE  /\ GoodCycle(NewCycle(window, p, at), window, p, now)
         /\ Started(NewCycle(window, p, at))
<1> DEFINE c == NewCycle(window, p, at)
<1>1. /\ window.period \in Nat \ {0} /\ window.anchor \in Nat /\ window.period < StartTime
      /\ StartTime \in Nat /\ p # Nil
  BY WindowType, QuotaAssumption
<1>2. /\ c.plan = p /\ c.start = CycleStart(window, at) /\ c.end = c.start + window.period
      /\ c.since = IF Anchored(window) THEN at ELSE 0
  BY DEF NewCycle
<1>3. /\ c.start \in Nat /\ 0 < c.start /\ c.start <= at /\ at < c.start + window.period
      /\ Anchored(window) => CycleStart(window, c.start) = c.start
  <2>1. CASE Anchored(window)
    <3>1. c.start = at - ((at - window.anchor) % window.period)
      BY <1>2, <2>1 DEF CycleStart
    <3> HIDE DEF c
    <3>2. /\ c.start \in Int /\ c.start <= at /\ at < c.start + window.period
          /\ (c.start - window.anchor) % window.period = 0
      <4>1. /\ at - ((at - window.anchor) % window.period) \in Int
            /\ at - ((at - window.anchor) % window.period) <= at
            /\ at < at - ((at - window.anchor) % window.period) + window.period
        BY <1>1, CycleStartBounds, Zenon
      <4>2. ((at - ((at - window.anchor) % window.period)) - window.anchor) % window.period = 0
        BY <1>1, CycleStartAligned, Zenon
      <4> QED
        BY <3>1, <4>1, <4>2, Zenon
    <3>3. c.start \in Nat /\ 0 < c.start
      BY <1>1, <3>2
    <3>4. CycleStart(window, c.start) = c.start - ((c.start - window.anchor) % window.period)
      BY <2>1 DEF CycleStart
    <3> QED
      BY <3>2, <3>3, <3>4
  <2>2. CASE ~Anchored(window)
    BY <1>1, <1>2, <2>2 DEF CycleStart
  <2> QED
    BY <2>1, <2>2
<1> HIDE DEF c
<1>4. ValidCycle(c, window, p)
  <2>1. c.since # 0 => c.start <= c.since /\ c.since < c.end
    BY <1>2, <1>3
  <2> QED
    BY <1>1, <1>2, <1>3, <2>1 DEF ValidCycle
<1>5. 0 < c.start /\ c.start <= now /\ c.since <= now
  BY <1>2, <1>3
<1>6. GoodCycle(c, window, p, now) /\ Started(c)
  BY <1>4, <1>5 DEF GoodCycle, Started
<1> QED
  BY <1>6 DEF c

LEMMA ActivateGood ==
  ASSUME NEW cs, NEW ws \in [Windows -> Window], NEW p \in Plans, NEW now \in Nat,
         NEW at \in Nat, at >= StartTime, at <= now, Good(cs, ws, p, now)
  PROVE  Good(Activate(cs, ws, p, at), ws, p, now)
BY NewCycleGood DEF Good, Activate

\* Admission takes no current cycle away.
LEMMA AdmitKeeps ==
  ASSUME NEW cs \in [Windows -> Cycle], NEW ws \in [Windows -> Window], NEW p \in Plans,
         NEW now \in Nat, NEW at \in Nat, at <= now, Good(cs, ws, p, now)
  PROVE  KeepsCurrent(cs, Activate(Settle(cs, at), ws, p, at), now)
<1> SUFFICES ASSUME NEW w \in Windows, now < cs[w].end
             PROVE  Activate(Settle(cs, at), ws, p, at)[w] = cs[w]
  BY DEF KeepsCurrent, SameSpan
<1>1. Started(cs[w])
  BY CurrentGood
<1>2. Settle(cs, at)[w] = cs[w]
  <2>1. cs[w].end \in Nat
    BY DEF Cycle
  <2> QED
    BY <2>1 DEF Settle
<1> QED
  BY <1>1, <1>2 DEF Activate

\* Where the instant of an admission is stale, the pool it meets may be ahead of it:
\* the cycle it begins for the key is still the pool's.
LEMMA AdmitBacks ==
  ASSUME NEW cs \in [Windows -> Cycle], NEW ps \in [Windows -> Cycle],
         NEW ws \in [Windows -> Window], NEW p \in Plans,
         NEW now \in Nat, NEW at \in Nat, at >= StartTime, at <= now,
         Good(cs, ws, p, now), Good(ps, ws, p, now), Backs(cs, ps, now), ValidPlan(ws, TRUE)
  PROVE  Backs(Activate(Settle(cs, at), ws, p, at), Activate(Settle(ps, at), ws, p, at), now)
<1> DEFINE ds == Activate(Settle(cs, at), ws, p, at)
           qs == Activate(Settle(ps, at), ws, p, at)
<1> SUFFICES ASSUME NEW w \in Windows, Started(ds[w]), now < ds[w].end
             PROVE  qs[w].start = ds[w].start
  BY DEF Backs
<1>1. Present(ws[w])
  <2> SUFFICES ASSUME ~Present(ws[w]) PROVE FALSE
    OBVIOUS
  <2>1. cs[w] = ZeroCycle
    BY DEF Good, GoodCycle, ValidCycle
  <2> QED
    BY <2>1 DEF Activate, Settle, Started, ZeroCycle
<1>2. Anchored(ws[w])
  BY <1>1 DEF ValidPlan
<1> DEFINE P == ws[w].period
           a == ws[w].anchor
           s == CycleStart(ws[w], at)
<1>3. P \in Nat \ {0} /\ a \in Nat
  BY <1>1, WindowType
<1>4. /\ s \in Nat /\ s <= at /\ at < s + P /\ (s - a) % P = 0
  <2>1. s = at - ((at - a) % P)
    BY <1>2 DEF CycleStart
  <2>2. s \in Nat
    BY <1>1, NewCycleType DEF NewCycle, Cycle
  <2> HIDE DEF s, P, a
  <2> QED
    BY <1>3, <2>1, <2>2, CycleStartBounds, CycleStartAligned
<1>5. CASE Started(Settle(cs, at)[w])
  <2>1. Settle(cs, at)[w] = cs[w] /\ ds[w] = cs[w]
    BY <1>5 DEF Settle, Activate, Started, ZeroCycle
  <2>2. ps[w].start = cs[w].start /\ Started(ps[w])
    BY <2>1 DEF Backs, Started
  <2>3. now < ps[w].end /\ ps[w].end \in Nat
    <3>1. cs[w].end = cs[w].start + P /\ ps[w].end = ps[w].start + P
      BY <2>1, <2>2, CurrentGood
    <3>2. ps[w].end \in Nat
      BY DEF Cycle
    <3> QED
      BY <2>1, <2>2, <3>1, <3>2
  <2>4. qs[w] = ps[w]
    BY <2>2, <2>3 DEF Settle, Activate
  <2> QED
    BY <2>1, <2>2, <2>4
<1>6. CASE ~Started(Settle(cs, at)[w])
  <2>1. ds[w].start = s /\ ds[w].end = s + P
    BY <1>1, <1>6 DEF Activate, NewCycle
  <2>2. CASE ~Started(Settle(ps, at)[w])
    BY <1>1, <2>1, <2>2 DEF Activate, NewCycle
  <2>3. CASE Started(Settle(ps, at)[w])
    <3>1. Settle(ps, at)[w] = ps[w] /\ qs[w] = ps[w] /\ Started(ps[w]) /\ ~(at >= ps[w].end)
      BY <2>3 DEF Settle, Activate, Started, ZeroCycle
    <3>2. /\ ps[w].end = ps[w].start + P /\ ps[w].start <= now
      BY <3>1, CurrentGood
    <3> DEFINE t == ps[w].start
    <3>3. t \in Nat /\ ps[w].end \in Nat
      BY DEF Cycle
    <3>4. (t - a) % P = 0
      <4>1. CycleStart(ws[w], t) = t
        BY <1>2, <3>1 DEF Good, GoodCycle, ValidCycle, Started, ZeroCycle
      <4>2. t - ((t - a) % P) = t
        BY <1>2, <4>1 DEF CycleStart
      <4>3. (t - a) % P \in Int
        BY <1>3, <3>3
      <4> QED
        BY <3>3, <4>2, <4>3
    <3>5. at < t + P /\ t <= now /\ now < s + P
      BY <2>1, <3>1, <3>2, <3>3
    <3> HIDE DEF s, t, P, a
    <3>6. s < t + P /\ t < s + P
      BY <1>3, <1>4, <3>3, <3>5
    <3>7. s = t
      BY <1>3, <1>4, <3>3, <3>4, <3>6, SameStart
    <3> QED
      BY <2>1, <3>1, <3>7 DEF t
  <2> QED
    BY <2>2, <2>3
<1> QED
  BY <1>5, <1>6

LEMMA AdmitInv ==
  ASSUME IInv, TypeOK', NEW r \in Requests, AuthorizeAdmit(r)
  PROVE  IInv'
<1> DEFINE k == requests[r].key
           p == bound[k]
           at == requests[r].at
           cs == Activate(Settle(cycles[k], at), windows[p], p, at)
           ps == Activate(Settle(pool[p], at), windows[p], p, at)
<1>1. /\ TypeOK /\ clock \in Nat /\ requests[r] \in Request
      /\ k \in Keys /\ p \in Plans /\ at \in Nat /\ at >= StartTime /\ at <= clock
  <2>1. requests[r].stage = "arrived" /\ p # Nil
    BY DEF AuthorizeAdmit
  <2>2. TypeOK /\ clock \in Nat /\ StartTime \in Nat
    BY QuotaAssumption DEF IInv, TypeOK
  <2>3. requests[r] \in Request /\ k \in Keys /\ at \in StartTime .. clock
    BY <2>1, <2>2 DEF TypeOK
  <2>4. p \in Plans
    BY <2>1, <2>2, <2>3 DEF TypeOK
  <2>5. at \in Nat /\ at >= StartTime /\ at <= clock
    BY <2>2, <2>3
  <2> QED
    BY <2>2, <2>3, <2>4, <2>5
<1>2. /\ \A i \in Keys : KeyGood(i) /\ KeyBacked(i)
      /\ \A i \in Plans : PlanGood(i)
      /\ \A i \in Requests : RequestHeld(i)
  BY <1>1, IInvParts DEF IInv, Parts
<1>3. /\ cycles' = [cycles EXCEPT ![k] = cs]
      /\ pool' = [pool EXCEPT ![p] = IF shared[p] THEN ps ELSE Settle(pool[p], at)]
      /\ Admitted(r, cs)
      /\ UNCHANGED <<clock, status, bound, plans, shared, windows>>
  BY DEF AuthorizeAdmit, SettledKey, SettledPool
<1>4. /\ cycles[k] \in [Windows -> Cycle] /\ pool[p] \in [Windows -> Cycle]
      /\ windows[p] \in [Windows -> Window] /\ shared[p] \in BOOLEAN
      /\ cs \in [Windows -> Cycle] /\ ps \in [Windows -> Cycle]
  BY <1>1, SettleType, ActivateType DEF TypeOK
<1>5. /\ p # Nil /\ p \in plans /\ Good(cycles[k], windows[p], p, clock)
      /\ Good(pool[p], windows[p], p, clock) /\ ValidPlan(windows[p], shared[p])
      /\ ~shared[p] => pool[p] = NoCycles
      /\ shared[p] => Backs(cycles[k], pool[p], clock)
  BY <1>1, <1>2 DEF KeyGood, PlanGood, KeyBacked, AuthorizeAdmit
<1>6. Good(cs, windows[p], p, clock) /\ Good(ps, windows[p], p, clock)
  <2>1. /\ NoNewCycle(cycles[k], Settle(cycles[k], at))
        /\ NoNewCycle(pool[p], Settle(pool[p], at))
    BY <1>1, <1>4, SettleQuiet
  <2>2. /\ Good(Settle(cycles[k], at), windows[p], p, clock)
        /\ Good(Settle(pool[p], at), windows[p], p, clock)
    BY <1>5, <2>1, GoodQuiet
  <2> QED
    BY <1>1, <1>4, <2>2, ActivateGood
<1>7. KeepsCurrent(cycles[k], cs, clock) /\ KeepsCurrent(pool[p], ps, clock)
  BY <1>1, <1>4, <1>5, AdmitKeeps
<1> HIDE DEF cs, ps
<1>8. pool'[p] = IF shared[p] THEN ps ELSE NoCycles
  <2>1. Settle(NoCycles, at) = NoCycles
    BY DEF Settle, NoCycles
  <2> QED
    BY <1>1, <1>3, <1>5, <2>1 DEF TypeOK
<1>9. cycles'[k] = cs
  BY <1>1, <1>3 DEF TypeOK
<1>10. \A i \in Plans : i # p => pool'[i] = pool[i]
  BY <1>1, <1>3 DEF TypeOK
<1>11. \A i \in Keys : i # k => cycles'[i] = cycles[i]
  BY <1>1, <1>3 DEF TypeOK
<1>12. ASSUME NEW i \in Keys PROVE KeyGood(i)' /\ KeyBacked(i)'
  <2>1. CASE i = k
    <3>1. KeyGood(i)'
      BY <1>3, <1>5, <1>6, <1>9, <2>1 DEF KeyGood
    <3>2. ASSUME shared[p] PROVE Backs(cs, ps, clock)
      <4>1. ValidPlan(windows[p], TRUE)
        BY <1>5, <3>2 DEF ValidPlan
      <4> QED
        BY <1>1, <1>4, <1>5, <3>2, <4>1, AdmitBacks DEF cs, ps
    <3> QED
      BY <1>3, <1>8, <1>9, <2>1, <3>1, <3>2 DEF KeyBacked
  <2>2. CASE i # k
    <3>1. KeyGood(i)'
      BY <1>2, <1>3, <1>11, <2>2 DEF KeyGood
    <3>2. ASSUME bound[i] = p, shared[p] PROVE Backs(cycles[i], ps, clock)
      <4>1. /\ cycles[i] \in [Windows -> Cycle] /\ NoNewCycle(cycles[i], cycles[i])
            /\ Good(cycles[i], windows[p], p, clock) /\ Backs(cycles[i], pool[p], clock)
        BY <1>1, <1>2, <1>5, <3>2, Unchanged DEF KeyGood, KeyBacked, TypeOK
      <4> QED
        <5> DEFINE ds == cycles[i]
                   qs == pool[p]
                   ws == windows[p]
        <5>1. /\ ds \in [Windows -> Cycle] /\ qs \in [Windows -> Cycle] /\ ws \in [Windows -> Window] /\ clock \in Nat
              /\ Good(ds, ws, p, clock) /\ Good(qs, ws, p, clock) /\ Backs(ds, qs, clock)
              /\ NoNewCycle(ds, ds) /\ KeepsCurrent(qs, ps, clock)
          BY <1>1, <1>4, <1>5, <1>7, <4>1
        <5> HIDE DEF ds, qs, ws
        <5>2. Backs(ds, ps, clock)
          BY <5>1, BacksQuiet
        <5> QED
          BY <5>2 DEF ds
    <3>3. KeyBacked(i)'
      <4>1. CASE bound[i] = p
        BY <1>3, <1>8, <1>11, <2>2, <3>2, <4>1 DEF KeyBacked
      <4>2. CASE bound[i] # p
        <5>1. bound[i] = Nil \/ bound[i] \in Plans
          BY <1>1 DEF TypeOK
        <5> QED
          BY <1>2, <1>3, <1>10, <1>11, <2>2, <4>2, <5>1 DEF KeyBacked
      <4> QED
        BY <4>1, <4>2
    <3> QED
      BY <3>1, <3>3
  <2> QED
    BY <2>1, <2>2
<1>13. ASSUME NEW i \in Plans PROVE PlanGood(i)'
  <2>1. CASE i = p
    <3>1. Good(NoCycles, windows[p], p, clock)
      BY DEF Good, GoodCycle, NoCycles
    <3> QED
      BY <1>3, <1>5, <1>6, <1>8, <2>1, <3>1 DEF PlanGood
  <2>2. CASE i # p
    BY <1>2, <1>3, <1>10, <2>2 DEF PlanGood
  <2> QED
    BY <2>1, <2>2
<1>14. ASSUME NEW i \in Requests PROVE RequestHeld(i)'
  <2>1. CASE i = r
    <3> DEFINE q == [requests[r] EXCEPT !.stage = "admitted", !.at = 0,
                                        !.ends = [w \in Windows |-> cs[w].end]]
    <3>1. requests'[r] = q
      BY <1>1, <1>3 DEF Admitted, TypeOK
    <3>2. /\ q.stage = "admitted" /\ q.key = k
          /\ q.ends = [w \in Windows |-> cs[w].end]
      BY <1>1 DEF Request
    <3> HIDE DEF q
    <3>3. HeldBy(q, cs, pool'[p], p, shared[p], clock)
      BY <3>2 DEF HeldBy
    <3> QED
      BY <1>3, <1>9, <2>1, <3>1, <3>2, <3>3 DEF RequestHeld
  <2>2. CASE i # r
    <3> DEFINE q == requests[i]
    <3>1. requests'[i] = q /\ RequestHeld(i)
      BY <1>1, <1>2, <1>3, <2>2 DEF Admitted, TypeOK
    <3>2. CASE q.stage \notin {"admitted", "running"}
      BY <3>1, <3>2 DEF RequestHeld, HeldBy
    <3>3. CASE q.stage \in {"admitted", "running"} /\ bound[q.key] # p
      <4>1. q.key \in Keys /\ q.key # k
        BY <1>1, <3>3 DEF TypeOK
      <4>2. cycles'[q.key] = cycles[q.key]
        BY <1>11, <4>1
      <4>3. CASE bound[q.key] = Nil
        <5>1. cycles[q.key] = NoCycles
          BY <1>2, <4>1, <4>3 DEF KeyGood
        <5>2. \A w \in Windows : ~(clock < q.ends[w])
          BY <1>1, <3>1, <3>3, <5>1 DEF RequestHeld, HeldBy, NoCycles, ZeroCycle
        <5> QED
          BY <1>3, <3>1, <5>2 DEF RequestHeld, HeldBy
      <4>4. CASE bound[q.key] # Nil
        <5>1. bound[q.key] \in Plans
          BY <1>1, <4>1, <4>4 DEF TypeOK
        <5>2. pool'[bound[q.key]] = pool[bound[q.key]]
          BY <1>10, <3>3, <5>1
        <5> QED
          BY <1>3, <3>1, <4>2, <5>2 DEF RequestHeld
      <4> QED
        BY <4>3, <4>4
    <3>4. CASE q.stage \in {"admitted", "running"} /\ bound[q.key] = p
      <4>1. /\ q.key \in Keys /\ cycles[q.key] \in [Windows -> Cycle]
            /\ KeyGood(q.key) /\ KeyBacked(q.key)
        BY <1>1, <1>2, <3>4 DEF TypeOK
      <4>2. /\ Good(cycles[q.key], windows[p], p, clock)
            /\ shared[p] => Good(pool[p], windows[p], p, clock)
                             /\ Backs(cycles[q.key], pool[p], clock)
        BY <1>5, <3>4, <4>1 DEF KeyGood, KeyBacked
      <4>3. HeldBy(q, cycles[q.key], pool[p], p, shared[p], clock)
        BY <3>1, <3>4 DEF RequestHeld
      <4>4. KeepsCurrent(cycles[q.key], cycles'[q.key], clock)
        BY <1>7, <1>9, <1>11, <4>1, Unchanged
      <4>5. HeldBy(q, cycles'[q.key], ps, p, shared[p], clock)
        BY <1>1, <1>4, <1>7, <4>1, <4>2, <4>3, <4>4, HeldQuiet
      <4>6. HeldBy(q, cycles'[q.key], pool'[p], p, shared[p], clock)
        BY <1>4, <1>8, <4>5 DEF HeldBy
      <4> QED
        BY <1>3, <3>1, <3>4, <4>6 DEF RequestHeld
    <3> QED
      BY <3>2, <3>3, <3>4
  <2> QED
    BY <2>1, <2>2
<1> QED
  BY <1>12, <1>13, <1>14, IInvPartsNext DEF Parts

----------------------------------------------------------------------------
(* Edits that take cycles away *)

\* What an edit may do to the cycle of key k in window w, gone being the windows it
\* takes from each key.
Edited(k, w, gone) ==
  \/ cycles'[k][w] = ZeroCycle /\ (w \in gone[k] \/ cycles[k][w] = ZeroCycle)
  \/ /\ w \notin gone[k]
     /\ cycles'[k][w] = cycles[k][w] /\ bound'[k] = bound[k]
     /\ shared'[bound[k]] => shared[bound[k]] /\ pool'[bound[k]][w] = pool[bound[k]][w]

LEMMA CutWindowsEnds ==
  ASSUME TypeOK, NEW gone \in [Keys -> SUBSET Windows], NEW r \in Requests, NEW w \in Windows,
         requests[r].stage \in {"admitted", "running"}
  PROVE  CutWindows(gone)[r].ends[w] = IF w \in gone[requests[r].key] THEN 0 ELSE requests[r].ends[w]
BY DEF CutWindows, TypeOK, Request

LEMMA EditStep ==
  ASSUME IInv, TypeOK', clock' = clock, NEW gone \in [Keys -> SUBSET Windows],
         requests' = CutWindows(gone),
         \A k \in Keys : KeyGood(k)', \A p \in Plans : PlanGood(p)',
         \A k \in Keys, w \in Windows : Edited(k, w, gone)
  PROVE  IInv'
<1>1. TypeOK /\ clock \in Nat
  BY DEF IInv, TypeOK
<1>2. /\ \A k \in Keys : KeyGood(k) /\ KeyBacked(k)
      /\ \A r \in Requests : RequestHeld(r)
  BY <1>1, IInvParts DEF IInv, Parts
<1>3. ASSUME NEW k \in Keys PROVE KeyBacked(k)'
  <2> SUFFICES ASSUME bound'[k] # Nil, shared'[bound'[k]], NEW w \in Windows,
                      Started(cycles'[k][w]), clock < cycles'[k][w].end
               PROVE  pool'[bound'[k]][w].start = cycles'[k][w].start
    BY DEF KeyBacked, Backs
  <2>1. cycles'[k][w] # ZeroCycle
    BY DEF Started, ZeroCycle
  <2>2. /\ cycles'[k][w] = cycles[k][w] /\ bound'[k] = bound[k]
        /\ shared[bound[k]] /\ pool'[bound[k]][w] = pool[bound[k]][w]
    BY <2>1 DEF Edited
  <2> QED
    BY <1>2, <2>2 DEF KeyBacked, Backs
<1>4. ASSUME NEW r \in Requests PROVE RequestHeld(r)'
  <2> DEFINE q == requests'[r]
             k == q.key
  <2> SUFFICES ASSUME NEW w \in Windows, q.stage \in {"admitted", "running"}, clock < q.ends[w]
               PROVE  /\ cycles'[k][w].end = q.ends[w]
                      /\ q.stage = "running" =>
                           /\ Accepts(cycles'[k][w], bound'[k], q.at)
                           /\ shared'[bound'[k]] => Accepts(pool'[bound'[k]][w], bound'[k], q.at)
    BY DEF RequestHeld, HeldBy
  <2>1. q.stage = requests[r].stage /\ k = requests[r].key /\ q.at = requests[r].at
    BY <1>1, CutWindowsType
  <2>2. k \in Keys
    BY <1>1, <2>1 DEF TypeOK
  <2>3. w \notin gone[k] /\ q.ends[w] = requests[r].ends[w]
    BY <1>1, <2>1, CutWindowsEnds
  <2>4. cycles[k][w].end = q.ends[w]
    BY <1>2, <2>1, <2>3 DEF RequestHeld, HeldBy
  <2>5. cycles[k][w] # ZeroCycle
    BY <1>1, <2>4 DEF ZeroCycle
  <2>6. /\ cycles'[k][w] = cycles[k][w] /\ bound'[k] = bound[k]
        /\ shared'[bound[k]] => shared[bound[k]] /\ pool'[bound[k]][w] = pool[bound[k]][w]
    BY <2>2, <2>3, <2>5 DEF Edited
  <2>7. ASSUME q.stage = "running" PROVE Accepts(cycles'[k][w], bound'[k], q.at)
    <3>1. Accepts(cycles[k][w], bound[k], q.at)
      BY <1>2, <2>1, <2>3, <2>7 DEF RequestHeld, HeldBy
    <3> QED
      BY <2>6, <3>1
  <2>8. ASSUME q.stage = "running", shared'[bound'[k]]
        PROVE  Accepts(pool'[bound'[k]][w], bound'[k], q.at)
    <3>1. shared[bound[k]] /\ pool'[bound'[k]][w] = pool[bound[k]][w] /\ bound'[k] = bound[k]
      BY <2>6, <2>8
    <3>2. Accepts(pool[bound[k]][w], bound[k], q.at)
      BY <1>2, <2>1, <2>3, <2>8, <3>1 DEF RequestHeld, HeldBy
    <3> QED
      BY <3>1, <3>2
  <2> QED
    BY <2>4, <2>6, <2>7, <2>8
<1> QED
  BY <1>3, <1>4, IInvPartsNext DEF Parts

LEMMA NoCyclesGood ==
  ASSUME NEW ws, NEW p, NEW now
  PROVE  Good(NoCycles, ws, p, now)
BY DEF Good, GoodCycle, NoCycles

\* The windows a binding takes from each key.
Rebound(ks, p) == [k \in Keys |-> IF k \in ks /\ bound[k] # p THEN Windows ELSE {}]

LEMMA BindPlanEdits ==
  ASSUME IInv, NEW ks \in SUBSET Keys, NEW p, BindPlan(ks, p),
         \A k \in Keys : bound[k] \in plans /\ ~(k \in ks /\ bound[k] # p)
           => /\ shared'[bound[k]] = shared[bound[k]]
              /\ pool'[bound[k]] = pool[bound[k]]
  PROVE  /\ Rebound(ks, p) \in [Keys -> SUBSET Windows]
         /\ requests' = CutWindows(Rebound(ks, p))
         /\ \A k \in Keys, w \in Windows : Edited(k, w, Rebound(ks, p))
<1>1. Rebound(ks, p) \in [Keys -> SUBSET Windows]
  BY DEF Rebound
<1>2. requests' = CutWindows(Rebound(ks, p))
  <2>1. [k \in Keys |-> IF k \in {i \in ks : bound[i] # p} THEN Windows ELSE {}] = Rebound(ks, p)
    BY DEF Rebound
  <2> QED
    BY <2>1 DEF BindPlan, CutKeys
<1>3. ASSUME NEW k \in Keys, NEW w \in Windows PROVE Edited(k, w, Rebound(ks, p))
  <2>1. TypeOK /\ KeyGood(k)
    BY IInvParts DEF IInv, Parts
  <2>2. CASE k \in ks /\ bound[k] # p
    BY <2>2 DEF BindPlan, Rebound, Edited, NoCycles
  <2>3. CASE ~(k \in ks /\ bound[k] # p)
    <3>1. /\ cycles'[k] = cycles[k] /\ bound'[k] = bound[k] /\ Rebound(ks, p)[k] = {}
      BY <2>3 DEF BindPlan, Rebound
    <3>2. CASE bound[k] = Nil
      BY <2>1, <3>1, <3>2 DEF KeyGood, NoCycles, Edited
    <3>3. CASE bound[k] # Nil
      BY <2>1, <2>3, <3>1, <3>3 DEF KeyGood, Edited
    <3> QED
      BY <3>2, <3>3
  <2> QED
    BY <2>2, <2>3
<1> QED
  BY <1>1, <1>2, <1>3

\* Binding keys to a plan or to none, plans being left alone.
LEMMA BindOnlyInv ==
  ASSUME IInv, TypeOK', NEW ks \in SUBSET Keys, NEW p \in plans \cup {Nil}, BindPlan(ks, p),
         UNCHANGED <<clock, planVars>>
  PROVE  IInv'
<1>1. TypeOK /\ (\A k \in Keys : KeyGood(k)) /\ (\A i \in Plans : PlanGood(i))
  BY IInvParts DEF IInv, Parts
<1>2. /\ Rebound(ks, p) \in [Keys -> SUBSET Windows]
      /\ requests' = CutWindows(Rebound(ks, p))
      /\ \A k \in Keys, w \in Windows : Edited(k, w, Rebound(ks, p))
  BY BindPlanEdits DEF planVars
<1>3. ASSUME NEW k \in Keys PROVE KeyGood(k)'
  <2>1. CASE k \in ks /\ bound[k] # p
    <3>1. cycles'[k] = NoCycles /\ bound'[k] = p
      BY <2>1 DEF BindPlan
    <3> QED
      BY <3>1, NoCyclesGood DEF KeyGood, planVars
  <2>2. CASE ~(k \in ks /\ bound[k] # p)
    <3>1. cycles'[k] = cycles[k] /\ bound'[k] = bound[k]
      BY <2>2 DEF BindPlan
    <3> QED
      BY <1>1, <3>1 DEF KeyGood, planVars
  <2> QED
    BY <2>1, <2>2
<1>4. \A i \in Plans : PlanGood(i)'
  BY <1>1 DEF PlanGood, planVars
<1> QED
  BY <1>2, <1>3, <1>4, EditStep

LEMMA KeyStepInv ==
  ASSUME IInv, TypeOK', KeyStep
  PROVE  IInv'
<1>1. ASSUME NEW k \in Keys, UnbindKey(k) PROVE IInv'
  BY <1>1, BindOnlyInv DEF UnbindKey
<1>2. ASSUME NEW k \in Keys, NEW p \in Plans, BindKey(k, p) PROVE IInv'
  BY <1>2, BindOnlyInv DEF BindKey
<1> QED
  BY <1>1, <1>2, SyncKeysInv DEF KeyStep

\* A window that keeps its schedule keeps the stored anchor, so its cycles stay valid.
LEMMA EditGood ==
  ASSUME NEW p \in Plans, NEW patch \in [Windows -> Window], NEW isShared, NEW now,
         windows[p] \in [Windows -> Window], NEW cs,
         Good(cs, windows[p], p, now)
  PROVE  LET ws == Prepared(patch, windows[p])
         IN  Good(Without(cs, ResetWindows(p, ws, isShared)), ws, p, now)
<1> DEFINE ws == Prepared(patch, windows[p])
           reset == ResetWindows(p, ws, isShared)
<1> SUFFICES ASSUME NEW w \in Windows, w \notin reset, cs[w] # ZeroCycle
             PROVE  GoodCycle(cs[w], ws[w], p, now)
  BY DEF Good, GoodCycle, Without
<1>1. GoodCycle(cs[w], windows[p][w], p, now) /\ ValidCycle(cs[w], windows[p][w], p)
  BY DEF Good, GoodCycle
<1>2. KeepsSchedule(ws[w], windows[p][w])
  BY <1>1 DEF ResetWindows, ValidCycle
<1>3. ws[w].period = windows[p][w].period /\ ws[w].anchor = windows[p][w].anchor
  <2>1. patch[w] \in Window /\ windows[p][w] \in Window
    OBVIOUS
  <2>2. CASE Anchored(patch[w]) /\ KeepsSchedule(patch[w], windows[p][w])
    <3>1. ws[w] = [patch[w] EXCEPT !.anchor = windows[p][w].anchor]
      BY <2>2 DEF Prepared
    <3> QED
      BY <2>1, <2>2, <3>1 DEF KeepsSchedule, SameSchedule, Window
  <2>3. CASE ~(Anchored(patch[w]) /\ KeepsSchedule(patch[w], windows[p][w]))
    <3>1. ws[w] = patch[w]
      BY <2>3 DEF Prepared
    <3>2. ~Anchored(patch[w])
      BY <1>2, <2>3, <3>1
    <3> QED
      BY <1>2, <3>1, <3>2 DEF KeepsSchedule, SameSchedule, Anchored
  <2> QED
    BY <2>2, <2>3
<1> HIDE DEF ws
<1> QED
  BY <1>1, <1>3 DEF GoodCycle, ValidCycle, Present, Anchored, CycleStart

LEMMA UpdatePlanInv ==
  ASSUME IInv, TypeOK', NEW p \in Plans, NEW patch \in [Windows -> WindowInputs],
         NEW isShared \in BOOLEAN, NEW replace \in BOOLEAN, NEW selected \in SUBSET Keys,
         UpdatePlan(p, patch, isShared, replace, selected)
  PROVE  IInv'
<1> DEFINE ws == Prepared(patch, windows[p])
           reset == ResetWindows(p, ws, isShared)
           left == IF replace THEN Members(p) \ selected ELSE {}
           joined == IF replace THEN selected \ Members(p) ELSE {}
           kept == Members(p) \ left
           gone == [k \in Keys |-> IF k \in left \cup joined THEN Windows
                                   ELSE IF k \in kept THEN reset ELSE {}]
<1>1. /\ TypeOK /\ (\A k \in Keys : KeyGood(k)) /\ (\A i \in Plans : PlanGood(i))
      /\ windows[p] \in [Windows -> Window] /\ patch \in [Windows -> Window]
  BY IInvParts, InputType DEF IInv, Parts, TypeOK
<1>2. /\ p \in plans /\ ValidPlan(ws, isShared)
      /\ windows' = [windows EXCEPT ![p] = ws]
      /\ shared' = [shared EXCEPT ![p] = isShared]
      /\ pool' = [pool EXCEPT ![p] = Without(@, reset)]
      /\ bound' = [k \in Keys |-> IF k \in left THEN Nil
                                  ELSE IF k \in joined THEN p ELSE bound[k]]
      /\ cycles' = [k \in Keys |-> IF k \in left \cup joined THEN NoCycles
                                   ELSE IF k \in kept THEN Without(cycles[k], reset)
                                   ELSE cycles[k]]
      /\ requests' = CutWindows(gone)
      /\ UNCHANGED <<clock, status, plans>>
  BY DEF UpdatePlan
<1>3. gone \in [Keys -> SUBSET Windows]
  BY DEF ResetWindows
<1>4. /\ windows'[p] = ws /\ shared'[p] = isShared /\ pool'[p] = Without(pool[p], reset)
      /\ \A i \in Plans : i # p => /\ windows'[i] = windows[i] /\ shared'[i] = shared[i]
                                   /\ pool'[i] = pool[i]
  BY <1>1, <1>2 DEF TypeOK
<1>5. /\ \A k \in left : k \in Keys /\ bound[k] = p
      /\ \A k \in joined : k \in Keys /\ bound[k] # p
      /\ \A k \in Keys : k \in kept <=> bound[k] = p /\ k \notin left
  BY DEF Members
<1>6. \A cs : Good(cs, windows[p], p, clock) => Good(Without(cs, reset), ws, p, clock)
  BY <1>1, EditGood
\* A change of mode resets every window, and an absent window has no cycle.
<1>7. ASSUME isShared # shared[p], NEW cs, Good(cs, windows[p], p, clock)
      PROVE  Without(cs, reset) = NoCycles
  BY <1>7 DEF ResetWindows, Without, NoCycles, Good, GoodCycle, ValidCycle
<1> HIDE DEF ws, reset, left, joined, kept
<1>8. ASSUME NEW k \in Keys PROVE KeyGood(k)'
  <2>1. CASE k \in left \cup joined
    <3>1. cycles'[k] = NoCycles /\ (bound'[k] = Nil \/ bound'[k] = p)
      BY <1>2, <2>1
    <3> QED
      BY <1>2, <3>1, NoCyclesGood DEF KeyGood
  <2>2. CASE k \in kept /\ k \notin left \cup joined
    <3>1. bound[k] = p /\ bound'[k] = p /\ cycles'[k] = Without(cycles[k], reset) /\ p # Nil
      BY <1>2, <1>5, <2>2, QuotaAssumption
    <3>2. Good(cycles[k], windows[p], p, clock)
      BY <1>1, <3>1 DEF KeyGood
    <3> QED
      BY <1>2, <1>4, <1>6, <3>1, <3>2 DEF KeyGood
  <2>3. CASE k \notin kept /\ k \notin left \cup joined
    <3>1. bound[k] # p /\ bound'[k] = bound[k] /\ cycles'[k] = cycles[k]
      BY <1>2, <1>5, <2>3
    <3>2. bound[k] = Nil \/ bound[k] \in Plans
      BY <1>1 DEF TypeOK
    <3> QED
      BY <1>1, <1>2, <1>4, <3>1, <3>2 DEF KeyGood
  <2> QED
    BY <2>1, <2>2, <2>3
<1>9. ASSUME NEW i \in Plans PROVE PlanGood(i)'
  <2>1. CASE i = p
    <3>1. Good(pool[p], windows[p], p, clock) /\ (~shared[p] => pool[p] = NoCycles)
      BY <1>1, <1>2 DEF PlanGood
    <3>2. ~isShared => Without(pool[p], reset) = NoCycles
      <4>1. CASE shared[p] # isShared
        BY <1>7, <3>1, <4>1
      <4>2. CASE shared[p] = isShared
        BY <3>1, <4>2 DEF Without, NoCycles
      <4> QED
        BY <4>1, <4>2
    <3> QED
      BY <1>2, <1>4, <1>6, <2>1, <3>1, <3>2 DEF PlanGood
  <2>2. CASE i # p
    BY <1>1, <1>2, <1>4, <2>2 DEF PlanGood
  <2> QED
    BY <2>1, <2>2
<1>10. ASSUME NEW k \in Keys, NEW w \in Windows PROVE Edited(k, w, gone)
  <2>1. CASE k \in left \cup joined
    BY <1>2, <2>1 DEF Edited, NoCycles
  <2>2. CASE k \in kept /\ k \notin left \cup joined
    <3>1. /\ bound[k] = p /\ bound'[k] = p /\ cycles'[k] = Without(cycles[k], reset)
          /\ gone[k] = reset /\ p # Nil
      BY <1>2, <1>5, <2>2, QuotaAssumption
    <3>2. Good(cycles[k], windows[p], p, clock)
      BY <1>1, <3>1 DEF KeyGood
    <3>3. CASE w \in reset
      BY <3>1, <3>3 DEF Edited, Without
    <3>4. CASE w \notin reset /\ isShared # shared[p]
      <4>1. Without(cycles[k], reset)[w] = ZeroCycle /\ cycles[k][w] = ZeroCycle
        BY <1>7, <3>2, <3>4 DEF NoCycles, Without
      <4> QED
        BY <3>1, <4>1 DEF Edited
    <3>5. CASE w \notin reset /\ isShared = shared[p]
      BY <1>4, <3>1, <3>5 DEF Edited, Without
    <3> QED
      BY <3>3, <3>4, <3>5
  <2>3. CASE k \notin kept /\ k \notin left \cup joined
    <3>1. bound[k] # p /\ bound'[k] = bound[k] /\ cycles'[k] = cycles[k] /\ gone[k] = {}
      BY <1>2, <1>5, <2>3
    <3>2. CASE bound[k] = Nil
      BY <1>1, <3>1, <3>2 DEF KeyGood, NoCycles, Edited
    <3>3. CASE bound[k] # Nil
      <4>1. bound[k] \in Plans
        BY <1>1, <3>3 DEF TypeOK
      <4> QED
        BY <1>4, <3>1, <4>1 DEF Edited
    <3> QED
      BY <3>2, <3>3
  <2> QED
    BY <2>1, <2>2, <2>3
<1> HIDE DEF gone
<1> QED
  BY <1>2, <1>3, <1>8, <1>9, <1>10, EditStep

LEMMA CreatePlanInv ==
  ASSUME IInv, TypeOK', NEW p \in Plans, NEW ws \in [Windows -> WindowInputs],
         NEW isShared \in BOOLEAN, NEW selected \in SUBSET Keys,
         CreatePlan(p, ws, isShared, selected)
  PROVE  IInv'
<1>1. TypeOK /\ (\A k \in Keys : KeyGood(k)) /\ (\A i \in Plans : PlanGood(i))
  BY IInvParts DEF IInv, Parts
<1>2. /\ p \notin plans /\ ValidPlan(ws, isShared) /\ plans' = plans \cup {p}
      /\ shared' = [shared EXCEPT ![p] = isShared]
      /\ windows' = [windows EXCEPT ![p] = ws]
      /\ pool' = [pool EXCEPT ![p] = NoCycles]
      /\ BindPlan(selected, p) /\ clock' = clock
  BY DEF CreatePlan
<1>3. /\ windows'[p] = ws /\ shared'[p] = isShared /\ pool'[p] = NoCycles
      /\ \A i \in Plans : i # p => /\ windows'[i] = windows[i] /\ shared'[i] = shared[i]
                                   /\ pool'[i] = pool[i]
  BY <1>1, <1>2 DEF TypeOK
<1>4. \A k \in Keys : bound[k] = Nil \/ (bound[k] \in plans /\ bound[k] \in Plans /\ bound[k] # p)
  BY <1>1, <1>2 DEF KeyGood, TypeOK
<1>5. /\ Rebound(selected, p) \in [Keys -> SUBSET Windows]
      /\ requests' = CutWindows(Rebound(selected, p))
      /\ \A k \in Keys, w \in Windows : Edited(k, w, Rebound(selected, p))
  <2>1. \A k \in Keys : bound[k] \in plans =>
          shared'[bound[k]] = shared[bound[k]] /\ pool'[bound[k]] = pool[bound[k]]
    BY <1>1, <1>2, <1>3 DEF TypeOK
  <2> QED
    BY <1>2, <2>1, BindPlanEdits
<1>6. ASSUME NEW k \in Keys PROVE KeyGood(k)'
  <2>1. CASE k \in selected
    <3>1. cycles'[k] = NoCycles /\ bound'[k] = p
      BY <1>2, <1>4, <2>1, QuotaAssumption DEF BindPlan
    <3> QED
      BY <1>2, <3>1, NoCyclesGood DEF KeyGood
  <2>2. CASE k \notin selected
    <3>1. cycles'[k] = cycles[k] /\ bound'[k] = bound[k]
      BY <1>2, <2>2 DEF BindPlan
    <3> QED
      BY <1>1, <1>2, <1>3, <1>4, <3>1 DEF KeyGood
  <2> QED
    BY <2>1, <2>2
<1>7. ASSUME NEW i \in Plans PROVE PlanGood(i)'
  <2>1. CASE i = p
    BY <1>2, <1>3, <2>1, NoCyclesGood DEF PlanGood
  <2>2. CASE i # p
    BY <1>1, <1>2, <1>3, <2>2 DEF PlanGood
  <2> QED
    BY <2>1, <2>2
<1> QED
  BY <1>2, <1>5, <1>6, <1>7, EditStep

LEMMA DeletePlanInv ==
  ASSUME IInv, TypeOK', NEW p \in Plans, DeletePlan(p)
  PROVE  IInv'
<1>1. TypeOK /\ (\A k \in Keys : KeyGood(k)) /\ (\A i \in Plans : PlanGood(i))
  BY IInvParts DEF IInv, Parts
<1>2. /\ p \in plans /\ plans' = plans \ {p}
      /\ shared' = [shared EXCEPT ![p] = FALSE]
      /\ windows' = [windows EXCEPT ![p] = NoWindows]
      /\ pool' = [pool EXCEPT ![p] = NoCycles]
      /\ BindPlan(Members(p), Nil) /\ clock' = clock
  BY DEF DeletePlan
<1>3. /\ pool'[p] = NoCycles
      /\ \A i \in Plans : i # p => /\ windows'[i] = windows[i] /\ shared'[i] = shared[i]
                                   /\ pool'[i] = pool[i]
  BY <1>1, <1>2 DEF TypeOK
<1>4. \A k \in Keys : k \in Members(p) <=> bound[k] = p
  BY DEF Members
<1>5. p # Nil /\ Members(p) \in SUBSET Keys
  BY QuotaAssumption DEF Members
<1>6. /\ Rebound(Members(p), Nil) \in [Keys -> SUBSET Windows]
      /\ requests' = CutWindows(Rebound(Members(p), Nil))
      /\ \A k \in Keys, w \in Windows : Edited(k, w, Rebound(Members(p), Nil))
  <2>1. \A k \in Keys : bound[k] \in plans /\ ~(k \in Members(p) /\ bound[k] # Nil) =>
          shared'[bound[k]] = shared[bound[k]] /\ pool'[bound[k]] = pool[bound[k]]
    BY <1>1, <1>3, <1>4, <1>5 DEF TypeOK
  <2> QED
    BY <1>2, <1>5, <2>1, BindPlanEdits
<1>7. ASSUME NEW k \in Keys PROVE KeyGood(k)'
  <2>1. CASE bound[k] = p
    <3>1. cycles'[k] = NoCycles /\ bound'[k] = Nil
      BY <1>2, <1>4, <1>5, <2>1 DEF BindPlan
    <3> QED
      BY <3>1 DEF KeyGood
  <2>2. CASE bound[k] # p
    <3>1. cycles'[k] = cycles[k] /\ bound'[k] = bound[k]
      BY <1>2, <1>4, <2>2 DEF BindPlan
    <3>2. bound[k] = Nil \/ bound[k] \in Plans
      BY <1>1 DEF TypeOK
    <3> QED
      BY <1>1, <1>2, <1>3, <2>2, <3>1, <3>2 DEF KeyGood
  <2> QED
    BY <2>1, <2>2
<1>8. ASSUME NEW i \in Plans PROVE PlanGood(i)'
  BY <1>1, <1>2, <1>3 DEF PlanGood
<1> QED
  BY <1>2, <1>6, <1>7, <1>8, EditStep

LEMMA PlanStepInv ==
  ASSUME IInv, TypeOK', NEW p \in Plans, PlanStep(p)
  PROVE  IInv'
<1>1. ASSUME NEW ws \in [Windows -> WindowInputs], NEW isShared \in BOOLEAN,
             UpdatePlan(p, ws, isShared, FALSE, {})
      PROVE  IInv'
  <2>1. {} \in SUBSET Keys /\ FALSE \in BOOLEAN
    OBVIOUS
  <2> QED
    BY <1>1, <2>1, UpdatePlanInv, Zenon
<1>2. ASSUME NEW ws \in [Windows -> WindowInputs], NEW isShared \in BOOLEAN,
             NEW selected \in SUBSET Keys, UpdatePlan(p, ws, isShared, TRUE, selected)
      PROVE  IInv'
  <2>1. TRUE \in BOOLEAN
    OBVIOUS
  <2> QED
    BY <1>2, <2>1, UpdatePlanInv, Zenon
<1>3. ASSUME NEW ws \in [Windows -> WindowInputs], NEW isShared \in BOOLEAN,
             NEW selected \in SUBSET Keys, CreatePlan(p, ws, isShared, selected)
      PROVE  IInv'
  BY <1>3, CreatePlanInv
<1>4. CASE DeletePlan(p)
  BY <1>4, DeletePlanInv
<1> QED
  BY <1>1, <1>2, <1>3, <1>4 DEF PlanStep

\* A reset clears a pool together with every member.
LEMMA ResetQuotasInv ==
  ASSUME IInv, TypeOK', NEW ks \in SUBSET Keys, NEW ps \in SUBSET plans, ResetQuotas(ks, ps)
  PROVE  IInv'
<1> DEFINE pools == ps \cup {p \in plans : shared[p] /\ \E k \in ks : bound[k] = p}
           reset == {k \in Keys : k \in ks \/ bound[k] \in pools}
           gone == [k \in Keys |-> IF k \in reset THEN Windows ELSE {}]
<1>1. TypeOK /\ (\A k \in Keys : KeyGood(k)) /\ (\A i \in Plans : PlanGood(i))
  BY IInvParts DEF IInv, Parts
<1>2. /\ pool' = [p \in Plans |-> IF p \in pools THEN NoCycles ELSE pool[p]]
      /\ cycles' = [k \in Keys |-> IF k \in reset THEN NoCycles ELSE cycles[k]]
      /\ requests' = CutWindows(gone)
      /\ UNCHANGED <<clock, status, bound, plans, shared, windows>>
  BY DEF ResetQuotas, CutKeys
<1>3. \A k \in Keys : bound[k] \in pools => k \in reset
  OBVIOUS
<1>4. gone \in [Keys -> SUBSET Windows]
  OBVIOUS
<1> HIDE DEF pools, reset
<1>5. ASSUME NEW k \in Keys PROVE KeyGood(k)'
  BY <1>1, <1>2, NoCyclesGood DEF KeyGood
<1>6. ASSUME NEW p \in Plans PROVE PlanGood(p)'
  BY <1>1, <1>2, NoCyclesGood DEF PlanGood
<1>7. ASSUME NEW k \in Keys, NEW w \in Windows PROVE Edited(k, w, gone)
  <2>1. CASE k \in reset
    BY <1>2, <2>1 DEF Edited, NoCycles
  <2>2. CASE k \notin reset /\ bound[k] = Nil
    BY <1>1, <1>2, <2>2 DEF Edited, KeyGood, NoCycles
  <2>3. CASE k \notin reset /\ bound[k] # Nil
    <3>1. bound[k] \in Plans /\ bound[k] \notin pools
      BY <1>1, <1>3, <2>3 DEF TypeOK
    <3> QED
      BY <1>2, <2>3, <3>1 DEF Edited
  <2> QED
    BY <2>1, <2>2, <2>3
<1> HIDE DEF gone
<1> QED
  BY <1>2, <1>4, <1>5, <1>6, <1>7, EditStep

----------------------------------------------------------------------------
(* Theorems *)

LEMMA InitInv == Init => IInv
<1> SUFFICES ASSUME Init PROVE IInv
  OBVIOUS
<1>1. TypeOK
  BY TypeInit
<1>2. \A k \in Keys : KeyGood(k) /\ KeyBacked(k)
  BY DEF Init, KeyGood, KeyBacked
<1>3. \A p \in Plans : PlanGood(p)
  BY DEF Init, PlanGood
<1>4. \A r \in Requests : RequestHeld(r)
  BY DEF Init, Idle, RequestHeld, HeldBy
<1> QED
  BY <1>1, <1>2, <1>3, <1>4, IInvParts DEF Parts

LEMMA NextInv == IInv /\ [Next]_vars => IInv'
<1> SUFFICES ASSUME IInv, [Next]_vars PROVE IInv'
  OBVIOUS
<1>1. TypeOK'
  BY TypeNext DEF IInv
<1>2. CASE Tick
  BY <1>1, <1>2, TickInv
<1>3. ASSUME NEW r \in Requests, RequestStep(r) PROVE IInv'
  BY <1>1, <1>3, AdmitInv, QuietRequestInv
<1>4. CASE ViewStep
  BY <1>1, <1>4, ViewStepInv
<1>5. CASE KeyStep
  BY <1>1, <1>5, KeyStepInv
<1>6. ASSUME NEW p \in Plans, PlanStep(p) PROVE IInv'
  BY <1>1, <1>6, PlanStepInv
<1>7. CASE ResetStep
  BY <1>1, <1>7, ResetStepResets, ResetQuotasInv
<1>8. CASE UNCHANGED vars
  <2>1. UNCHANGED <<clock, bound, cycles, planVars>> /\ requests' = requests
    BY <1>8 DEF vars, keyVars
  <2> QED
    BY <1>1, <2>1, SameRequestsHeld, RequestOnlyStep
<1> QED
  BY <1>2, <1>3, <1>4, <1>5, <1>6, <1>7, <1>8 DEF Next

\* Every reachable state of Quota has what the safety properties rest on.
THEOREM Inductive == Spec => []IInv
BY InitInv, NextInv, PTL DEF Spec

\* Every state that the store reaches, and so every one it saves, is one that Load accepts.
THEOREM AlwaysLoadable == Spec => []Loadable
<1>1. IInv => Loadable
  BY DEF IInv
<1> QED
  BY <1>1, Inductive, PTL

\* No member of a shared plan has a current cycle that its pool has not.
THEOREM PoolAlwaysBacksMembers == Spec => []PoolBacksMembers
<1>1. IInv => PoolBacksMembers
  BY DEF IInv
<1> QED
  BY <1>1, Inductive, PTL

\* The usage of an admitted request is charged while the cycles it was admitted in
\* last, to the key and to the pool.
THEOREM NoUsageEscapes == Spec => []NoFreeUsage
<1>1. IInv => NoFreeUsage
  BY DEF IInv
<1> QED
  BY <1>1, Inductive, PTL

\* Two current cycles of a window with a reset schedule are the same cycle.
LEMMA SameResetInv == IInv => SameReset
<1> SUFFICES ASSUME IInv, NEW j \in Keys, NEW k \in Keys, NEW w \in Windows,
                    bound[j] # Nil, bound[j] = bound[k], Anchored(windows[bound[k]][w]),
                    Current(cycles[j][w]), Current(cycles[k][w])
             PROVE  cycles[j][w].start = cycles[k][w].start
  BY DEF SameReset
<1> DEFINE p == bound[k]
           window == windows[p][w]
           P == window.period
           a == window.anchor
<1>1. /\ TypeOK /\ clock \in Nat /\ p \in Plans /\ windows[p] \in [Windows -> Window]
      /\ \A i \in {j, k} : /\ cycles[i] \in [Windows -> Cycle]
                           /\ Good(cycles[i], windows[p], p, clock)
  BY IInvParts DEF IInv, Parts, TypeOK, KeyGood
<1>2. ASSUME NEW i \in {j, k}
      PROVE  /\ cycles[i][w].start \in Nat /\ cycles[i][w].start <= clock
             /\ clock < cycles[i][w].start + P /\ Present(window)
             /\ CycleStart(window, cycles[i][w].start) = cycles[i][w].start
  <2>1. Started(cycles[i][w]) /\ clock < cycles[i][w].end
    BY DEF Current
  <2>2. cycles[i][w] # ZeroCycle /\ cycles[i][w].start \in Nat
    BY <1>1, <2>1 DEF Started, ZeroCycle, Cycle
  <2>3. ValidCycle(cycles[i][w], window, p) /\ cycles[i][w].start <= clock
    BY <1>1, <2>2 DEF Good, GoodCycle
  <2> QED
    BY <2>1, <2>2, <2>3 DEF ValidCycle
<1>3. P \in Nat \ {0} /\ a \in Nat
  BY <1>1, <1>2, WindowType
<1>4. ASSUME NEW i \in {j, k} PROVE (cycles[i][w].start - a) % P = 0
  <2> DEFINE t == cycles[i][w].start
  <2>1. t \in Nat /\ t - ((t - a) % P) = t
    BY <1>2 DEF CycleStart
  <2> HIDE DEF t, a, P
  <2>2. (t - a) % P \in Int
    BY <1>3, <2>1
  <2>3. (t - a) % P = 0
    BY <2>1, <2>2
  <2> QED
    BY <2>3 DEF t
<1> HIDE DEF P, a, window
<1> DEFINE s == cycles[j][w].start
           t == cycles[k][w].start
<1>5. s \in Nat /\ t \in Nat /\ s < t + P /\ t < s + P
  BY <1>1, <1>2, <1>3
<1>6. (s - a) % P = 0 /\ (t - a) % P = 0
  BY <1>4
<1> HIDE DEF s, t
<1>7. s = t
  BY <1>3, <1>5, <1>6, SameStart
<1> QED
  BY <1>7 DEF s, t

\* All keys of a plan with a reset schedule reset at the same time.
THEOREM AlwaysSameReset == Spec => []SameReset
BY SameResetInv, Inductive, PTL

----------------------------------------------------------------------------
(* Admissions *)

LEMMA RequestFacts ==
  ASSUME IInv, NEW r \in Requests, requests[r].stage # "idle"
  PROVE  /\ requests[r].key \in Keys
         /\ requests[r].stage = "arrived" => requests[r].at \in Nat /\ requests[r].at <= clock
<1>1. requests[r].key \in Keys
  BY DEF IInv, TypeOK
<1>2. ASSUME requests[r].stage = "arrived" PROVE requests[r].at \in StartTime..clock
  BY <1>2 DEF IInv, TypeOK
<1>3. StartTime \in Nat /\ clock \in Nat
  BY QuotaAssumption DEF IInv, TypeOK
<1> QED
  BY <1>1, <1>2, <1>3

\* Only an authorization admits a request.
LEMMA WhoAdmits ==
  ASSUME IInv, Next, NEW r \in Requests,
         requests[r].stage = "arrived", requests'[r].stage = "admitted"
  PROVE  AuthorizeUnlimited(r) \/ AuthorizeAdmit(r)
<1>1. TypeOK
  BY DEF IInv
<1>2. requests \in [Requests -> Request]
  BY <1>1 DEF TypeOK
<1>3. ASSUME requests' = requests PROVE FALSE
  BY <1>3
<1>4. ASSUME NEW gone \in [Keys -> SUBSET Windows], requests' = CutWindows(gone) PROVE FALSE
  BY <1>1, <1>4, CutWindowsType
<1>5. ASSUME NEW ks, requests' = CutKeys(ks) PROVE FALSE
  BY <1>1, <1>5, CutKeysType
<1>6. CASE Tick \/ ViewStep
  BY <1>3, <1>6 DEF Tick, ViewStep, KeyViews, PlanViews, KeyViewForScope
<1>7. CASE KeyStep
  BY <1>3, <1>5, <1>7 DEF KeyStep, SyncKeys, UnbindKey, BindKey, BindPlan
<1>8. ASSUME NEW p \in Plans, PlanStep(p) PROVE FALSE
  <2>1. ASSUME NEW ws, NEW isShared, NEW replace, NEW selected,
               UpdatePlan(p, ws, isShared, replace, selected)
        PROVE  FALSE
    <3> DEFINE new == Prepared(ws, windows[p])
               reset == ResetWindows(p, new, isShared)
               left == IF replace THEN Members(p) \ selected ELSE {}
               joined == IF replace THEN selected \ Members(p) ELSE {}
               gone == [k \in Keys |-> IF k \in left \cup joined THEN Windows
                                       ELSE IF k \in Members(p) \ left THEN reset ELSE {}]
    <3>1. requests' = CutWindows(gone)
      BY <2>1 DEF UpdatePlan
    <3>2. reset \subseteq Windows
      BY DEF ResetWindows
    <3> HIDE DEF reset, left, joined
    <3>3. gone \in [Keys -> SUBSET Windows]
      BY <3>2
    <3> QED
      BY <1>4, <3>1, <3>3
  <2>2. ASSUME NEW ws, NEW isShared, NEW selected, CreatePlan(p, ws, isShared, selected) PROVE FALSE
    BY <1>5, <2>2 DEF CreatePlan, BindPlan
  <2>3. CASE DeletePlan(p)
    BY <1>5, <2>3 DEF DeletePlan, BindPlan
  <2> QED
    BY <1>8, <2>1, <2>2, <2>3 DEF PlanStep
<1>9. CASE ResetStep
  BY <1>5, <1>9 DEF ResetStep, ResetGlobal, ResetKeys, ResetPlanQuota, ResetQuotas
<1>10. ASSUME NEW i \in Requests, RequestStep(i) PROVE AuthorizeUnlimited(r) \/ AuthorizeAdmit(r)
  <2>1. CASE \E k \in Keys : Arrive(i, k) \/ HelperCall(i, k)
    BY <1>2, <2>1 DEF Arrive, HelperCall, Idle
  <2>2. CASE AuthorizeUnlimited(i) \/ AuthorizeAdmit(i)
    <3>1. i = r
      BY <1>2, <2>2 DEF AuthorizeUnlimited, AuthorizeAdmit, Admitted
    <3> QED
      BY <2>2, <3>1
  <2>3. CASE AuthorizeRefuse(i) \/ Abandon(i)
    BY <1>2, <2>3 DEF AuthorizeRefuse, Abandon, Idle
  <2>4. CASE StartAttempt(i)
    BY <1>2, <2>4 DEF StartAttempt
  <2>5. CASE \E next \in Requests : Retry(i, next)
    BY <1>2, <2>5 DEF Retry
  <2>6. CASE \E usage \in Usages, timed \in BOOLEAN, now \in Instants : RecordUsage(i, usage, timed, now)
    BY <1>2, <2>6 DEF RecordUsage, Idle
  <2> QED
    BY <1>10, <2>1, <2>2, <2>3, <2>4, <2>5, <2>6 DEF RequestStep
<1> QED
  BY <1>6, <1>7, <1>8, <1>9, <1>10 DEF Next

LEMMA AdmitsBelow ==
  ASSUME IInv, NEW r \in Requests, AuthorizeAdmit(r), NEW w \in Windows,
         Current(Counting(requests[r].key)[w])
  PROVE  Counting(requests[r].key)[w].used < windows[bound[requests[r].key]][w].limit
<1> DEFINE k == requests[r].key
           p == bound[k]
           at == requests[r].at
           cs == Counting(k)
           settled == IF shared[p] THEN SettledPool(r) ELSE SettledKey(r)
<1>1. k \in Keys /\ at \in Nat /\ at <= clock /\ p # Nil
  BY RequestFacts DEF AuthorizeAdmit
<1>2. p \in plans /\ p \in Plans
  BY <1>1 DEF IInv, Loadable, TypeOK
<1>3. cs \in [Windows -> Cycle] /\ windows[p] \in [Windows -> Window] /\ clock \in Nat
  BY <1>1, <1>2 DEF Counting, IInv, TypeOK
<1>4. ValidCycles(cs, windows[p], p) /\ ValidPlan(windows[p], shared[p])
  BY <1>1, <1>2 DEF IInv, Loadable, Counting
<1>5. settled[w] = cs[w]
  <2>1. ~(at >= cs[w].end)
    BY <1>1, <1>3 DEF Current, Cycle
  <2>2. settled = Settle(cs, at)
    BY DEF SettledPool, SettledKey, Counting
  <2> HIDE DEF settled, cs, at
  <2> QED
    BY <2>1, <2>2 DEF Settle
<1>6. windows[p][w].limit > 0
  <2>1. cs[w] # ZeroCycle
    BY DEF Current, Started, ZeroCycle
  <2>2. Present(windows[p][w])
    BY <1>4, <2>1 DEF ValidCycles, ValidCycle
  <2> QED
    BY <1>4, <2>2 DEF ValidPlan
<1>7. ~(settled[w].used >= windows[p][w].limit)
  BY <1>6 DEF AuthorizeAdmit, Blocked, Exhausted
<1>8. cs[w].used \in Int /\ windows[p][w].limit \in Int
  <2>1. cs[w] \in Cycle /\ windows[p][w] \in Window
    BY <1>3
  <2>2. cs[w].used \in 0..MaxCount /\ windows[p][w].limit \in Limits \cup {0}
    <3> HIDE DEF cs, p
    <3> QED
      BY <2>1 DEF Cycle, Window
  <2>3. MaxCount \in Int /\ Limits \subseteq Int
    BY MaxCountAssumption, QuotaAssumption
  <2>4. \A n \in 0..MaxCount : n \in Int
    OBVIOUS
  <2>5. \A n \in Limits \cup {0} : n \in Int
    BY <2>3
  <2> QED
    BY <2>2, <2>4, <2>5, Zenon
<1> QED
  BY <1>5, <1>7, <1>8

\* No request is admitted while a current cycle of its quota is used up.
THEOREM NeverAdmittedOverLimit == Spec => NoAdmissionOverLimit
<1> DEFINE Property ==
      \A r \in Requests :
        requests[r].stage = "arrived" /\ requests'[r].stage = "admitted"
          => \A w \in Windows :
               LET k == requests[r].key
               IN  bound[k] # Nil /\ Current(Counting(k)[w])
                     => Counting(k)[w].used < windows[bound[k]][w].limit
<1>1. IInv /\ [Next]_vars => [Property]_vars
  <2> SUFFICES ASSUME IInv, Next PROVE Property
    OBVIOUS
  <2> SUFFICES ASSUME NEW r \in Requests, requests[r].stage = "arrived", requests'[r].stage = "admitted",
                      NEW w \in Windows, bound[requests[r].key] # Nil,
                      Current(Counting(requests[r].key)[w])
               PROVE  Counting(requests[r].key)[w].used < windows[bound[requests[r].key]][w].limit
    OBVIOUS
  <2>1. AuthorizeAdmit(r)
    BY WhoAdmits DEF AuthorizeUnlimited
  <2> QED
    BY <2>1, AdmitsBelow
<1> QED
  BY <1>1, Inductive, PTL DEF Spec, NoAdmissionOverLimit

----------------------------------------------------------------------------
(* What a pool has counted *)

\* The usage that cs counts in current cycles is in ds.
KeepsUsage(cs, ds) ==
  \A w \in Windows : Current(cs[w]) => ds[w].start = cs[w].start /\ ds[w].used >= cs[w].used

Disturbs(p, w) ==
  \/ p \notin plans' \/ ~shared'[p] \/ ~KeepsSchedule(windows'[p][w], windows[p][w])
  \/ /\ bound' = bound
     /\ pool'[p] = NoCycles /\ \A k \in Keys : bound[k] = p => cycles'[k] = NoCycles

\* No pool loses usage in a step but for the reasons PoolKeepsUsage names.
PoolKept ==
  \A p \in Plans, w \in Windows :
    \/ ~Current(pool[p][w])
    \/ pool'[p][w].start = pool[p][w].start /\ pool'[p][w].used >= pool[p][w].used
    \/ Disturbs(p, w)

LEMMA CountType ==
  ASSUME NEW cs \in [Windows -> Cycle], NEW w \in Windows
  PROVE  cs[w].used \in Nat /\ cs[w].end \in Nat
BY MaxCountAssumption DEF Cycle

LEMMA SameUsage ==
  ASSUME NEW cs \in [Windows -> Cycle]
  PROVE  KeepsUsage(cs, cs)
BY CountType DEF KeepsUsage

LEMMA SettleUsage ==
  ASSUME TypeOK, NEW cs \in [Windows -> Cycle], NEW at \in Nat, at <= clock
  PROVE  KeepsUsage(cs, Settle(cs, at))
<1> SUFFICES ASSUME NEW w \in Windows, Current(cs[w])
             PROVE  Settle(cs, at)[w].start = cs[w].start /\ Settle(cs, at)[w].used >= cs[w].used
  BY DEF KeepsUsage
<1>1. cs[w].used \in Nat /\ cs[w].end \in Nat /\ clock \in Nat
  BY CountType DEF TypeOK
<1>2. ~(at >= cs[w].end)
  BY <1>1 DEF Current
<1>3. Settle(cs, at)[w] = cs[w]
  BY <1>2 DEF Settle
<1> QED
  BY <1>1, <1>3

LEMMA ActivateUsage ==
  ASSUME TypeOK, NEW cs \in [Windows -> Cycle], NEW ws, NEW p, NEW at \in Nat, at <= clock
  PROVE  KeepsUsage(cs, Activate(Settle(cs, at), ws, p, at))
<1> SUFFICES ASSUME NEW w \in Windows, Current(cs[w])
             PROVE  LET d == Activate(Settle(cs, at), ws, p, at)[w]
                    IN  d.start = cs[w].start /\ d.used >= cs[w].used
  BY DEF KeepsUsage
<1>1. cs[w].used \in Nat /\ cs[w].end \in Nat /\ clock \in Nat
  BY CountType DEF TypeOK
<1>2. ~(at >= cs[w].end)
  BY <1>1 DEF Current
<1>3. Settle(cs, at)[w] = cs[w]
  BY <1>2 DEF Settle
<1>4. Activate(Settle(cs, at), ws, p, at)[w] = cs[w]
  BY <1>3 DEF Activate, Current
<1> QED
  BY <1>1, <1>4

\* A charge adds to what was counted, and saturates (addQuotaCount).
LEMMA ChargeUsage ==
  ASSUME NEW cycle \in Cycle, NEW usage \in Usages
  PROVE  Charge(cycle, usage).start = cycle.start /\ Charge(cycle, usage).used >= cycle.used
<1>1. cycle.used \in 0..MaxCount /\ usage \in Nat /\ MaxCount \in Nat
  BY QuotaAssumption, MaxCountAssumption DEF Cycle
<1>2. AddQuotaCount(cycle.used, usage) >= cycle.used
  BY <1>1 DEF AddQuotaCount
<1> QED
  BY <1>2 DEF Charge, Cycle

LEMMA ChargePoolUsage ==
  ASSUME TypeOK, NEW ps \in [Windows -> Cycle], NEW cs, NEW p, NEW at, NEW usage \in Usages,
         NEW now \in Nat, now <= clock
  PROVE  KeepsUsage(ps, Settle(ChargePool(ps, cs, p, at, usage), now))
<1> DEFINE ds == ChargePool(ps, cs, p, at, usage)
<1>1. ds \in [Windows -> Cycle]
  BY ChargePoolType
<1>2. \A w \in Windows : /\ ds[w].start = ps[w].start /\ ds[w].used >= ps[w].used
                         /\ ds[w].end = ps[w].end
  <2> SUFFICES ASSUME NEW w \in Windows
               PROVE  ds[w].start = ps[w].start /\ ds[w].used >= ps[w].used /\ ds[w].end = ps[w].end
    OBVIOUS
  <2>1. CASE ds[w] = ps[w]
    BY <2>1, CountType
  <2>2. CASE ds[w] = Charge(ps[w], usage)
    BY <2>2, ChargeUsage, ChargeQuiet DEF SameSpan
  <2> QED
    BY <2>1, <2>2 DEF ChargePool
<1>3. KeepsUsage(ds, Settle(ds, now))
  BY <1>1, SettleUsage
<1> HIDE DEF ds
<1> SUFFICES ASSUME NEW w \in Windows, Current(ps[w])
             PROVE  Settle(ds, now)[w].start = ps[w].start /\ Settle(ds, now)[w].used >= ps[w].used
  BY DEF KeepsUsage, ds
<1>4. Current(ds[w])
  BY <1>2 DEF Current, Started
<1>5. Settle(ds, now)[w].start = ds[w].start /\ Settle(ds, now)[w].used >= ds[w].used
  BY <1>3, <1>4 DEF KeepsUsage
<1>6. Settle(ds, now) \in [Windows -> Cycle]
  BY <1>1, SettleType
<1>7. ds[w].used \in Nat /\ ps[w].used \in Nat /\ Settle(ds, now)[w].used \in Nat
  BY <1>1, <1>6, CountType
<1> QED
  BY <1>2, <1>5, <1>7

LEMMA KeptByUsage ==
  ASSUME \A p \in Plans : KeepsUsage(pool[p], pool'[p])
  PROVE  PoolKept
BY DEF PoolKept, KeepsUsage

LEMMA SamePoolKept ==
  ASSUME TypeOK, pool' = pool
  PROVE  PoolKept
<1>1. \A p \in Plans : pool[p] \in [Windows -> Cycle]
  BY DEF TypeOK
<1> QED
  BY <1>1, SameUsage, KeptByUsage

LEMMA OnePoolKept ==
  ASSUME TypeOK, NEW p \in Plans, NEW qs, KeepsUsage(pool[p], qs), pool' = [pool EXCEPT ![p] = qs]
  PROVE  PoolKept
<1>1. \A i \in Plans : pool[i] \in [Windows -> Cycle] /\ pool'[i] = IF i = p THEN qs ELSE pool[i]
  BY DEF TypeOK
<1> QED
  BY <1>1, SameUsage, KeptByUsage

LEMMA RequestStepKept ==
  ASSUME IInv, NEW r \in Requests, RequestStep(r)
  PROVE  PoolKept
<1>1. TypeOK /\ clock \in Nat
  BY DEF IInv, TypeOK
<1> DEFINE k == requests[r].key
           p == bound[k]
           at == requests[r].at
<1>2. ASSUME p # Nil, k \in Keys PROVE p \in Plans /\ pool[p] \in [Windows -> Cycle]
  BY <1>1, <1>2 DEF TypeOK
<1>3. ASSUME requests[r].stage # "idle" PROVE k \in Keys
  BY <1>3, RequestFacts
<1>4. CASE AuthorizeAdmit(r)
  <2>1. p \in Plans /\ pool[p] \in [Windows -> Cycle] /\ at \in Nat /\ at <= clock
    BY <1>2, <1>4, RequestFacts DEF AuthorizeAdmit
  <2> DEFINE settled == Settle(pool[p], at)
             started == Activate(settled, windows[p], p, at)
             qs == IF shared[p] THEN started ELSE settled
  <2>2. pool' = [pool EXCEPT ![p] = qs]
    BY <1>4 DEF AuthorizeAdmit, SettledPool
  <2>3. KeepsUsage(pool[p], settled) /\ KeepsUsage(pool[p], started)
    BY <1>1, <2>1, SettleUsage, ActivateUsage
  <2> HIDE DEF settled, started
  <2>4. KeepsUsage(pool[p], qs)
    BY <2>3
  <2> HIDE DEF p, qs
  <2> QED
    BY <1>1, <2>1, <2>2, <2>4, OnePoolKept
<1>5. CASE AuthorizeRefuse(r)
  <2>1. p \in Plans /\ pool[p] \in [Windows -> Cycle] /\ at \in Nat /\ at <= clock
    BY <1>2, <1>5, RequestFacts DEF AuthorizeRefuse
  <2>2. pool' = [pool EXCEPT ![p] = Settle(pool[p], at)]
    BY <1>5 DEF AuthorizeRefuse, SettledPool
  <2> HIDE DEF p, at
  <2> QED
    BY <1>1, <2>1, <2>2, SettleUsage, OnePoolKept
<1>6. ASSUME NEW usage \in Usages, NEW timed \in BOOLEAN, NEW now \in Instants,
             RecordUsage(r, usage, timed, now)
      PROVE  PoolKept
  <2>1. CASE p = Nil
    BY <1>1, <1>6, <2>1, SamePoolKept DEF RecordUsage
  <2>2. CASE p # Nil
    <3> DEFINE on == IF timed THEN at ELSE 0
               qs == Settle(IF shared[p] THEN ChargePool(pool[p], cycles[k], p, on, usage)
                            ELSE pool[p], now)
    <3>1. p \in Plans /\ pool[p] \in [Windows -> Cycle] /\ now \in Nat /\ now <= clock
      BY <1>2, <1>3, <1>6, <2>2, QuotaAssumption DEF RecordUsage, Instants
    <3>2. pool' = [pool EXCEPT ![p] = qs]
      BY <1>6, <2>2 DEF RecordUsage
    <3>3. KeepsUsage(pool[p], qs)
      <4> HIDE DEF p, k, on
      <4>1. CASE shared[p]
        BY <1>1, <3>1, <4>1, ChargePoolUsage
      <4>2. CASE ~shared[p]
        BY <1>1, <3>1, <4>2, SettleUsage
      <4> QED
        BY <4>1, <4>2
    <3> HIDE DEF p, qs
    <3> QED
      BY <1>1, <3>1, <3>2, <3>3, OnePoolKept
  <2> QED
    BY <2>1, <2>2
<1>7. ASSUME UNCHANGED pool PROVE PoolKept
  BY <1>1, <1>7, SamePoolKept
<1>8. CASE \E key \in Keys : Arrive(r, key) \/ HelperCall(r, key)
  BY <1>7, <1>8 DEF Arrive, HelperCall, planVars
<1>9. CASE \E next \in Requests : Retry(r, next)
  BY <1>7, <1>9 DEF Retry, planVars
<1>10. CASE AuthorizeUnlimited(r) \/ StartAttempt(r) \/ Abandon(r)
  BY <1>7, <1>10 DEF AuthorizeUnlimited, StartAttempt, Abandon, planVars
<1> QED
  BY <1>4, <1>5, <1>6, <1>8, <1>9, <1>10 DEF RequestStep

LEMMA ViewStepKept ==
  ASSUME IInv, ViewStep
  PROVE  PoolKept
<1>1. TypeOK /\ clock \in Nat /\ pool \in [Plans -> [Windows -> Cycle]]
  BY DEF IInv, TypeOK
<1>2. ASSUME NEW now \in Instants, KeyViews(now) \/ PlanViews(now) PROVE PoolKept
  <2>1. now \in Nat /\ now <= clock
    BY <1>2, QuotaAssumption DEF Instants, KeyViews, PlanViews
  <2>2. \A p \in Plans : pool'[p] = pool[p] \/ pool'[p] = Settle(pool[p], now)
    BY <1>2 DEF KeyViews, PlanViews
  <2> QED
    BY <1>1, <2>1, <2>2, SameUsage, SettleUsage, KeptByUsage
<1>3. ASSUME NEW k \in Keys, KeyViewForScope(k) PROVE PoolKept
  <2>1. CASE bound[k] = Nil
    BY <1>1, <1>3, <2>1, SamePoolKept DEF KeyViewForScope
  <2>2. CASE bound[k] # Nil
    <3>1. bound[k] \in Plans /\ pool[bound[k]] \in [Windows -> Cycle]
      BY <1>1, <2>2 DEF TypeOK
    <3>2. pool' = [pool EXCEPT ![bound[k]] = Settle(pool[bound[k]], clock)]
      BY <1>3, <2>2 DEF KeyViewForScope
    <3>3. KeepsUsage(pool[bound[k]], Settle(pool[bound[k]], clock))
      BY <1>1, <3>1, SettleUsage
    <3> QED
      BY <1>1, <3>1, <3>2, <3>3, OnePoolKept
  <2> QED
    BY <2>1, <2>2
<1> QED
  BY <1>2, <1>3 DEF ViewStep

\* A plan's edit ends cycles of its pool only with its mode or their schedules.
LEMMA PlanStepKept ==
  ASSUME IInv, NEW p \in Plans, PlanStep(p)
  PROVE  PoolKept
<1>1. TypeOK /\ pool \in [Plans -> [Windows -> Cycle]] /\ windows \in [Plans -> [Windows -> Window]]
      /\ shared \in [Plans -> BOOLEAN]
  BY DEF IInv, TypeOK
<1>2. ASSUME NEW i \in Plans, i # p, pool'[i] = pool[i], NEW w \in Windows, Current(pool[i][w])
      PROVE  pool'[i][w].start = pool[i][w].start /\ pool'[i][w].used >= pool[i][w].used
  BY <1>1, <1>2, CountType
<1>3. ASSUME NoCycles = pool[p], NEW w \in Windows, Current(pool[p][w]) PROVE FALSE
  BY <1>3 DEF NoCycles, ZeroCycle, Current, Started
<1>4. ASSUME NEW ws, NEW isShared, NEW selected, CreatePlan(p, ws, isShared, selected)
      PROVE  PoolKept
  <2>1. pool' = [pool EXCEPT ![p] = NoCycles] /\ p \notin plans
    BY <1>4 DEF CreatePlan
  <2>2. pool[p] = NoCycles
    BY <2>1 DEF IInv, Loadable
  <2> QED
    BY <1>1, <1>2, <1>3, <2>1, <2>2 DEF PoolKept
<1>5. ASSUME NEW patch, NEW isShared \in BOOLEAN, NEW replace, NEW selected,
             UpdatePlan(p, patch, isShared, replace, selected)
      PROVE  PoolKept
  <2> DEFINE ws == Prepared(patch, windows[p])
             reset == ResetWindows(p, ws, isShared)
  <2>1. pool' = [pool EXCEPT ![p] = Without(pool[p], reset)]
        /\ shared' = [shared EXCEPT ![p] = isShared] /\ windows' = [windows EXCEPT ![p] = ws]
    BY <1>5 DEF UpdatePlan
  <2>2. shared'[p] = isShared /\ windows'[p] = ws /\ pool'[p] = Without(pool[p], reset)
    BY <1>1, <2>1
  <2>3. ASSUME NEW w \in Windows, Current(pool[p][w])
        PROVE  \/ pool'[p][w].start = pool[p][w].start /\ pool'[p][w].used >= pool[p][w].used
               \/ Disturbs(p, w)
    <3>1. shared[p] /\ p \in plans
      BY <1>3, <2>3 DEF IInv, Loadable
    <3>2. CASE w \notin reset
      <4> HIDE DEF reset
      <4>1. pool'[p][w] = pool[p][w]
        BY <2>2, <3>2 DEF Without
      <4>2. pool[p][w].used \in Nat
        BY <1>1, CountType
      <4> QED
        BY <4>1, <4>2
    <3>3. CASE w \in reset
      <4> HIDE DEF ws
      <4>1. isShared # shared[p] \/ ~KeepsSchedule(ws[w], windows[p][w])
        BY <3>3 DEF ResetWindows
      <4> QED
        BY <1>1, <2>2, <3>1, <4>1 DEF Disturbs
    <3> QED
      BY <3>2, <3>3
  <2>4. \A i \in Plans : i # p => pool'[i] = pool[i]
    BY <1>1, <2>1
  <2> HIDE DEF ws, reset
  <2> QED
    BY <1>2, <2>3, <2>4 DEF PoolKept
<1>6. CASE DeletePlan(p)
  <2>1. p \notin plans' /\ \A i \in Plans : i # p => pool'[i] = pool[i]
    BY <1>1, <1>6 DEF DeletePlan
  <2> QED
    BY <1>2, <2>1 DEF PoolKept, Disturbs
<1> QED
  BY <1>4, <1>5, <1>6 DEF PlanStep

\* A reset clears a pool together with all its members.
LEMMA ResetStepKept ==
  ASSUME IInv, ResetStep
  PROVE  PoolKept
<1>1. TypeOK /\ pool \in [Plans -> [Windows -> Cycle]]
  BY DEF IInv, TypeOK
<1>2. PICK ks \in SUBSET Keys, ps \in SUBSET plans : ResetQuotas(ks, ps)
  BY ResetStepResets
<1> DEFINE pools == ps \cup {p \in plans : shared[p] /\ \E k \in ks : bound[k] = p}
           reset == {k \in Keys : k \in ks \/ bound[k] \in pools}
<1>3. /\ pool' = [p \in Plans |-> IF p \in pools THEN NoCycles ELSE pool[p]]
      /\ cycles' = [k \in Keys |-> IF k \in reset THEN NoCycles ELSE cycles[k]]
      /\ bound' = bound
  BY <1>2 DEF ResetQuotas
<1> SUFFICES ASSUME NEW p \in Plans, NEW w \in Windows, Current(pool[p][w])
             PROVE  \/ pool'[p][w].start = pool[p][w].start /\ pool'[p][w].used >= pool[p][w].used
                    \/ Disturbs(p, w)
  BY DEF PoolKept
<1>4. CASE p \in pools
  <2>1. \A k \in Keys : bound[k] = p => k \in reset
    BY <1>4
  <2> HIDE DEF pools, reset
  <2>2. pool'[p] = NoCycles /\ \A k \in Keys : bound[k] = p => cycles'[k] = NoCycles
    BY <1>3, <1>4, <2>1
  <2> QED
    BY <1>3, <2>2 DEF Disturbs
<1>5. CASE p \notin pools
  <2> HIDE DEF pools
  <2>1. pool'[p] = pool[p]
    BY <1>3, <1>5
  <2> QED
    BY <1>1, <2>1, CountType
<1> QED
  BY <1>4, <1>5

\* Unbinding, rebinding, deleting or expiring a member never refunds a pool.
THEOREM PoolNeverRefunded == Spec => PoolKeepsUsage
<1> DEFINE Property ==
      \A p \in Plans, w \in Windows :
        \/ ~Current(pool[p][w])
        \/ pool'[p][w].start = pool[p][w].start /\ pool'[p][w].used >= pool[p][w].used
        \/ p \notin plans' \/ ~shared'[p] \/ ~KeepsSchedule(windows'[p][w], windows[p][w])
        \/ /\ bound' = bound
           /\ pool'[p] = NoCycles /\ \A k \in Keys : bound[k] = p => cycles'[k] = NoCycles
<1>1. IInv /\ [Next]_vars => [Property]_vars
  <2> SUFFICES ASSUME IInv, Next PROVE PoolKept
    BY DEF PoolKept, Disturbs
  <2>1. ASSUME pool' = pool PROVE PoolKept
    BY <2>1, SamePoolKept DEF IInv
  <2>2. CASE Tick \/ KeyStep
    BY <2>1, <2>2 DEF Tick, KeyStep, SyncKeys, UnbindKey, BindKey, planVars
  <2> QED
    BY <2>2, RequestStepKept, ViewStepKept, PlanStepKept, ResetStepKept DEF Next
<1> QED
  BY <1>1, Inductive, PTL DEF Spec, PoolKeepsUsage

=============================================================================
