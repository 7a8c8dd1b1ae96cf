----------------------------- MODULE Scheduler -----------------------------
(***************************************************************************)
(* The scheduler of credentials under routing rules: configure, pick and   *)
(* prune of subsetScheduler.                                               *)
(*                                                                         *)
(* For each key (scope) and each pool (provider, model and rules) it keeps *)
(* the state of a rotation; for each session of a pool the credential it   *)
(* is bound to, in a list whose front was used last.  Candidates come,     *)
(* go and change their weight and priority from pick to pick.  Both tables *)
(* are bounded, and a pick reads the time before it takes the lock, so     *)
(* picks happen out of the order of their instants.                        *)
(***************************************************************************)
EXTENDS Integers, FiniteSets, Sequences, SequencesExt

CONSTANTS
  Scopes,         \* keys
  Pools,          \* pool keys
  Sessions,       \* session IDs
  NoSession,      \* a request without one
  Credentials,    \* credential IDs, in their order: a set of positive integers
  Strategies,     \* those an administrator uses
  Weights,        \* weights of credentials, 0 among them to exclude one
  Priorities,     \* priorities of credentials
  TTL,            \* sessionTTL
  MaxPools,       \* maxPoolsPerKey
  MaxSessions,    \* maxSessionBindings
  MaxCredits,     \* maxCredentialsPerPool
  MaxScore,       \* the largest integer
  MaxTime         \* the last instant (bounds the model)

ASSUME SchedulerAssumption ==
  /\ Credentials \subseteq Nat \ {0} /\ IsFiniteSet(Credentials)
  /\ Strategies \subseteq {"round-robin", "weighted-round-robin", "fill-first"}
  /\ Weights \subseteq Nat /\ Priorities \subseteq Int
  /\ NoSession \notin Sessions
  /\ {TTL, MaxPools, MaxSessions, MaxCredits, MaxScore} \subseteq Nat \ {0}
  /\ MaxTime \in Nat

VARIABLES
  clock,
  strategy, affinity,  \* the configuration in force
  offer,               \* weight and priority the host gives each credential
  rotations,           \* of each scope and pool, NoRotation for none
  sessionOrder,        \* session bindings, the one used last in front
  waits,               \* history: picks by turns of each pool since each credential was
                       \* picked while it was a candidate of them all
  uses,                \* history: each session's last pick and the sessions used since
  misfits              \* history: credentials given to a request they were not eligible for

configVars == <<strategy, affinity>>
vars == <<clock, configVars, offer, rotations, sessionOrder, waits, uses, misfits>>

Zero == [c \in Credentials |-> 0]

NoRotation == [lastUsed |-> -1, lastPicked |-> 0, current |-> Zero, weights |-> Zero]
NewRotation == [NoRotation EXCEPT !.lastUsed = 0]

Exists(rotation) == rotation.lastUsed >= 0

SessionKeys == Scopes \X Pools \X Sessions

NoUse == [auth |-> 0, at |-> 0, others |-> {}]
NoUses == [key \in SessionKeys |-> NoUse]

NoWaits == [s \in Scopes |-> [p \in Pools |-> Zero]]

----------------------------------------------------------------------------
(* subsetScheduleState.pick *)

Least(ids) == CHOOSE c \in ids : \A d \in ids : c <= d

\* mutant of NextInTurn: the turn is a position among the candidates of the moment
NextByIndex(rotation, candidates) ==
  LET position == Cardinality({c \in Credentials : c <= rotation.lastPicked}) % Cardinality(candidates)
  IN  CHOOSE c \in candidates : Cardinality({d \in candidates : d < c}) = position

\* The first candidate after the one picked last, whichever are there now.
NextInTurn(rotation, candidates) ==
  LET later == {c \in candidates : c > rotation.lastPicked}
  IN  Least(IF later = {} THEN candidates ELSE later)

\* schedulingScore
Score(value, delta) ==
  IF value + delta > MaxScore THEN MaxScore
  ELSE IF value + delta < -MaxScore - 1 THEN -MaxScore - 1 ELSE value + delta

LastId == CHOOSE c \in Credentials \cup {0} : \A d \in Credentials : d <= c

\* In the order of the IDs.
Total(ids) ==
  LET total[n \in 0 .. LastId] ==
        IF n = 0 THEN 0
        ELSE IF n \in ids THEN Score(total[n - 1], offer[n].weight) ELSE total[n - 1]
  IN  total[LastId]

\* Weights as last seen: any change makes all credits void.  Missing candidates keep their
\* credits unless the table is full.
Reweighed(rotation, candidates) ==
  LET seen == {c \in Credentials : rotation.weights[c] # 0}
      changed == \E c \in candidates \cap seen : rotation.weights[c] # offer[c].weight
      full == Cardinality(seen \cup candidates) > MaxCredits
  IN  [rotation EXCEPT
         !.current = [c \in Credentials |-> IF changed \/ (full /\ c \notin candidates) THEN 0 ELSE @[c]],
         !.weights = [c \in Credentials |->
                        IF c \in candidates THEN offer[c].weight
                        ELSE IF full THEN 0 ELSE @[c]]]

\* mutant of Charged: the turn costs nothing
ChargedNothing(credits, selected, candidates) == credits

\* The one selected pays for the turn what all were credited.
Charged(credits, selected, candidates) ==
  [credits EXCEPT ![selected] = Score(@, -Total(candidates))]

Weighted(rotation, candidates) ==
  LET reweighed == Reweighed(rotation, candidates)
      credits == [c \in Credentials |-> IF c \in candidates THEN Score(reweighed.current[c], offer[c].weight)
                                        ELSE reweighed.current[c]]
      highest == {c \in candidates : \A d \in candidates : credits[c] >= credits[d]}
      selected == Least(highest)
  IN  [selected |-> selected,
       rotation |-> [reweighed EXCEPT !.current = Charged(credits, selected, candidates)]]

Turn(rotation, candidates) ==
  CASE strategy = "fill-first" -> [selected |-> Least(candidates), rotation |-> rotation]
    [] strategy = "round-robin" ->
         LET c == NextInTurn(rotation, candidates)
         IN  [selected |-> c, rotation |-> [rotation EXCEPT !.lastPicked = c]]
    [] OTHER -> Weighted(rotation, candidates)

----------------------------------------------------------------------------
(* Sessions *)

Expired(binding, now) == now >= binding.expires

\* Idle bindings leave from the back, up to the first that has not expired.
Swept(now) ==
  LET kept == {i \in DOMAIN sessionOrder : ~Expired(sessionOrder[i], now)}
      last == CHOOSE i \in kept \cup {0} : \A j \in kept : j <= i
  IN  SubSeq(sessionOrder, 1, last)

Unbound(order, key) ==
  IF \A i \in DOMAIN order : order[i].key # key THEN order
  ELSE RemoveAt(order, CHOOSE i \in DOMAIN order : order[i].key = key)

\* mutant of Renewed: the binding stays where it is in the list
RenewedInPlace(order, key, auth, now) ==
  [i \in DOMAIN order |-> IF order[i].key = key THEN [order[i] EXCEPT !.expires = now + TTL] ELSE order[i]]

Renewed(order, key, auth, now) ==
  <<[key |-> key, auth |-> auth, expires |-> now + TTL]>> \o Unbound(order, key)

\* A full table loses the binding at the back before a new one is added.
Added(order, key, auth, now) ==
  <<[key |-> key, auth |-> auth, expires |-> now + TTL]>>
    \o (IF Len(order) >= MaxSessions THEN Front(order) ELSE order)

BindingOf(order, key) == {binding \in ToSet(order) : binding.key = key}

Used(key, auth, now) ==
  uses' = [k \in SessionKeys |->
             IF k = key THEN [auth |-> auth, at |-> now, others |-> {}]
             ELSE IF uses[k] = NoUse THEN NoUse
             ELSE [uses[k] EXCEPT !.others = @ \cup {key}]]

----------------------------------------------------------------------------
(* pick *)

Eligible(offered) ==
  {c \in offered : strategy # "weighted-round-robin" \/ offer[c].weight > 0}

Given(auth, eligible) == misfits' = misfits \cup ({auth} \ eligible)

\* Priority applies to cold picks alone.
Highest(eligible) == {c \in eligible : \A d \in eligible : offer[c].priority >= offer[d].priority}

\* mutant of Serving: a binding serves although its credential may not be used any more
ServingAnyway(key, offered, now) ==
  {binding \in BindingOf(Swept(now), key) : ~Expired(binding, now)}

\* A session's binding serves while it has not expired and its credential is offered.
Serving(key, offered, now) ==
  {binding \in BindingOf(Swept(now), key) : ~Expired(binding, now) /\ binding.auth \in Eligible(offered)}

Reuse(scope, pool, session, offered, now) ==
  LET key == <<scope, pool, session>>
  IN  /\ affinity /\ session # NoSession
      /\ \E binding \in Serving(key, offered, now) :
           /\ sessionOrder' = Renewed(Swept(now), key, binding.auth, now)
           /\ Used(key, binding.auth, now)
           /\ Given(binding.auth, Eligible(offered))
      /\ rotations' = [rotations EXCEPT ![scope][pool] = IF Exists(@) THEN [@ EXCEPT !.lastUsed = now] ELSE @]
      /\ UNCHANGED <<clock, configVars, offer, waits>>

\* Which pool of a scope makes way for a new one: one used longest ago.
Evicted(scope, pool) ==
  LET present == {p \in Pools : Exists(rotations[scope][p])}
  IN  IF pool \in present \/ Cardinality(present) < MaxPools THEN {{}}
      ELSE {{p} : p \in {q \in present :
              \A other \in present : rotations[scope][q].lastUsed <= rotations[scope][other].lastUsed}}

CountWaits(scope, pool, candidates, selected, evicted, renewed) ==
  waits' = [waits EXCEPT ![scope] = [p \in Pools |->
              IF p \in evicted THEN Zero
              ELSE IF p # pool THEN @[p]
              ELSE [c \in Credentials |-> IF strategy = "fill-first" \/ c = selected \/ c \notin candidates THEN 0
                                          ELSE IF renewed THEN 1 ELSE @[p][c] + 1]]]

\* Without a binding of use, the rotation of the pool decides, and binds the session.
Cold(scope, pool, session, offered, now) ==
  LET key == <<scope, pool, session>>
      candidates == Highest(Eligible(offered))
      bindable == affinity /\ session # NoSession
      order == IF bindable THEN Unbound(Swept(now), key) ELSE Swept(now)
      old == IF Exists(rotations[scope][pool]) THEN rotations[scope][pool] ELSE NewRotation
      turn == Turn(old, candidates)
  IN  /\ Eligible(offered) # {}
      /\ bindable => Serving(key, offered, now) = {}
      /\ \E evicted \in Evicted(scope, pool) :
           /\ rotations' = [rotations EXCEPT ![scope] = [p \in Pools |->
                              IF p \in evicted THEN NoRotation
                              ELSE IF p = pool THEN [turn.rotation EXCEPT !.lastUsed = now] ELSE @[p]]]
           /\ CountWaits(scope, pool, candidates, turn.selected, evicted,
                \E c \in candidates : old.weights[c] \notin {0, offer[c].weight})
      /\ sessionOrder' = IF bindable THEN Added(order, key, turn.selected, now) ELSE order
      /\ IF bindable THEN Used(key, turn.selected, now) ELSE UNCHANGED uses
      /\ Given(turn.selected, Eligible(offered))
      /\ UNCHANGED <<clock, configVars, offer>>

Instants == {now \in {clock - 1, clock} : now >= 0}

Pick(scope, pool, session) ==
  \E offered \in SUBSET Credentials \ {{}}, now \in Instants :
    Reuse(scope, pool, session, offered, now) \/ Cold(scope, pool, session, offered, now)

----------------------------------------------------------------------------
(* Configuration *)

Forget ==
  /\ rotations' = [s \in Scopes |-> [p \in Pools |-> NoRotation]]
  /\ sessionOrder' = <<>>
  /\ waits' = NoWaits
  /\ uses' = NoUses

\* A change of the configuration, or a disabled plugin, starts anew; the same one does not.
Configure(newStrategy, newAffinity, enabled) ==
  /\ strategy' = newStrategy
  /\ affinity' = newAffinity
  /\ IF enabled /\ <<newStrategy, newAffinity>> = configVars
       THEN UNCHANGED <<rotations, sessionOrder, waits, uses>> ELSE Forget
  /\ UNCHANGED <<clock, offer, misfits>>

\* The list with the elements at some positions, in their order: one, in a set.
Restricted(order, kept) ==
  {[i \in DOMAIN p |-> order[p[i]]] :
     p \in {f \in [1 .. Cardinality(kept) -> kept] : \A i, j \in DOMAIN f : i < j => f[i] < f[j]}}

\* After a synchronization of keys only the live ones keep their state.
Prune(live) ==
  /\ rotations' = [s \in Scopes |-> IF s \in live THEN rotations[s] ELSE [p \in Pools |-> NoRotation]]
  /\ sessionOrder' \in Restricted(sessionOrder, {i \in DOMAIN sessionOrder : sessionOrder[i].key[1] \in live})
  /\ waits' = [s \in Scopes |-> IF s \in live THEN waits[s] ELSE [p \in Pools |-> Zero]]
  /\ uses' = [k \in SessionKeys |-> IF k[1] \in live THEN uses[k] ELSE NoUse]
  /\ UNCHANGED <<clock, configVars, offer, misfits>>

\* The host changes what it says of a credential.
HostEdits(c, weight, priority) ==
  /\ offer' = [offer EXCEPT ![c] = [weight |-> weight, priority |-> priority]]
  /\ UNCHANGED <<clock, configVars, rotations, sessionOrder, waits, uses, misfits>>

Tick ==
  /\ clock < MaxTime
  /\ clock' = clock + 1
  /\ UNCHANGED <<configVars, offer, rotations, sessionOrder, waits, uses, misfits>>

Init ==
  /\ clock = 0
  /\ strategy \in Strategies
  /\ affinity \in BOOLEAN
  /\ offer \in [Credentials -> [weight : Weights, priority : Priorities]]
  /\ rotations = [s \in Scopes |-> [p \in Pools |-> NoRotation]]
  /\ sessionOrder = <<>>
  /\ waits = NoWaits
  /\ uses = NoUses
  /\ misfits = {}

Next ==
  \/ \E scope \in Scopes, pool \in Pools, session \in Sessions \cup {NoSession} : Pick(scope, pool, session)
  \/ \E s \in Strategies, a \in BOOLEAN, enabled \in BOOLEAN : Configure(s, a, enabled)
  \/ \E live \in SUBSET Scopes : Prune(live)
  \/ \E c \in Credentials, weight \in Weights, priority \in Priorities : HostEdits(c, weight, priority)
  \/ Tick

Spec == Init /\ [][Next]_vars

----------------------------------------------------------------------------
(* Properties *)

\* A session keeps its binding, whatever else is picked, expires or is evicted, until its
\* time has passed or the table is full of sessions used after it; but no request is given a
\* credential that is not eligible for it, be it bound to its session or not.  The table does
\* not grow past its size.
SessionsStick ==
  /\ Len(sessionOrder) <= MaxSessions
  /\ misfits = {}
  /\ \A key \in SessionKeys :
       LET use == uses[key]
       IN  use # NoUse /\ clock < use.at + TTL /\ Cardinality(use.others) < MaxSessions
             => \E binding \in ToSet(sessionOrder) : binding.key = key /\ binding.auth = use.auth

\* A credential that stays a candidate of a pool gets its turn within as many picks as there
\* are credentials, however the others come and go.
TurnsTaken ==
  strategy = "round-robin" =>
    \A s \in Scopes, p \in Pools, c \in Credentials : waits[s][p][c] < Cardinality(Credentials)

MaxWeight == CHOOSE w \in Weights : \A v \in Weights : v <= w

\* Credentials and weights are few and small enough that no credit is dropped or cut short.
Fitting ==
  LET n == Cardinality(Credentials) IN n <= MaxCredits /\ \A w \in Weights : n * n * w <= MaxScore

\* No candidate is skipped: each gets its turn, or by weight, while the weights stay, is
\* picked before its credits exceed what all others together can owe.
NoneSkipped ==
  /\ TurnsTaken
  /\ strategy # "round-robin" /\ Fitting =>
       \A s \in Scopes, p \in Pools, c \in Credentials :
         waits[s][p][c] <= Cardinality(Credentials) * (Cardinality(Credentials) - 1) * MaxWeight

SumOf(f) ==
  LET sum[n \in 0 .. LastId] ==
        IF n = 0 THEN 0 ELSE sum[n - 1] + IF n \in DOMAIN f THEN f[n] ELSE 0
  IN  sum[LastId]

\* The credits of a pool stay in balance: what a turn costs is what was credited for it,
\* candidates that are missing for a while included.
CreditsBalance ==
  Fitting => \A s \in Scopes, p \in Pools : SumOf(rotations[s][p].current) = 0
=============================================================================
