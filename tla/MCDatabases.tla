---------------------------- MODULE MCDatabases ----------------------------
(* Databases for TLC: every version, sound or damaged in one place. *)
EXTENDS Databases

CONSTANTS g, all, m1, m2

Db(v, plan, key, routes, event, stored) ==
  [version |-> v,
   columns |-> IF v \in 10 .. SchemaVersion THEN ColumnsOf(v) ELSE {},
   indexes |-> {[name |-> "request_events_at", current |-> v = SchemaVersion], [name |-> Nil, current |-> FALSE]},
   plan |-> plan, key |-> key, routes |-> routes, event |-> event, stored |-> stored,
   configured |-> IF v \in 14 .. SchemaVersion THEN {"ref"} ELSE {}, noted |-> IF v >= 23 THEN {"ref"} ELSE {},
   damaged |-> {}]

\* Plans of a version, the damaged ones too.
PlansOf(v) ==
  CASE v \in {10, 11} ->
         [id : {"plan"}, kind : {"daily", "monthly", "never"}, period : {0}, limit : {"column"}]
           \cup [id : {"plan"}, kind : {"custom"}, period : {0, 2}, limit : {"column"}]
           \cup [id : {"plan"}, kind : {"yearly"}, period : {0}, limit : {"column"}]
    [] v = 12 -> [id : {"plan"}, kind : {Nil}, period : {0, 2}, limit : {"column"}]
    [] v \in 13 .. 23 -> [id : {"plan"}, kind : {Nil}, period : {2}, limit : {"amount_usd"}]
    [] OTHER -> [id : {"plan"}, kind : {Nil}, period : {2}, limit : {"amount"}]

CyclesOf(plan) ==
  {NoCycle} \cup {[plan |-> "plan", start |-> s, spent |-> 1,
                   end |-> IF PeriodOf(plan) = 0 THEN 0 ELSE 3 + PeriodOf(plan)] : s \in {0, 3}}

Legacy11 == [kind : {"route"}, value : {g, all}] \cup [kind : {"model", "group"}, value : {m2}]

ListsOf(v) == IF v = 11 THEN {b \in SUBSET Legacy11 : Cardinality(b) <= 2} ELSE {{}}

BindingsOf(v) ==
  IF v = 11 THEN {NoBindings}
  ELSE [routes : {{}, {g}}, models : {{}, {m2}}, credentials : {{}}, providers : {{}}]

RoutesOf(v) ==
  IF v = 11 THEN {[r \in {g, all} |-> IF r = g THEN {m1} ELSE {}]}
  ELSE {[r \in {g} |-> {m1}], [r \in {g} |-> {}]}

EventsOf(v) ==
  CASE v <= 13 -> [provider : {Nil, "codex"}, account : {Nil}, headers : {"none"}, report : {FALSE}]
    [] v \in 15 .. 19 ->
         [provider : {"codex"}, account : {Nil, "user"}, headers : {"none", "quota", "other", "damaged"}, report : {FALSE}]
    [] OTHER -> [provider : {"codex"}, account : {Nil}, headers : {"none"}, report : {FALSE}]

StoredOf(v) == IF v <= 13 THEN {Nil, [provider |-> "claude", account |-> "user"]} ELSE {Nil}

Versions == 10 .. SchemaVersion

Good(v) ==
  UNION {{Db(v, plan, [plan |-> k, cycle |-> c, list |-> l, bindings |-> b], routes, event, stored) :
            k \in {Nil, "plan"}, c \in CyclesOf(plan), l \in ListsOf(v), b \in BindingsOf(v), routes \in RoutesOf(v),
            event \in EventsOf(v), stored \in StoredOf(v)} : plan \in PlansOf(v)}

\* A column or table that is there too early, one that is not known, a name taken.
Strays ==
  {"reference_prices_metadata", "config_credentials", "request_events.response_headers_json",
   "credentials.unknown_field", "request_events_at", "plans.windows_json"}

\* Who may refuse rows of a version for what is in them.
ReadersOf(v) ==
  {"load"} \cup (IF v = 10 THEN {"modelGroups"} ELSE {}) \cup (IF v = 11 THEN {"legacyRouteBindings"} ELSE {})
    \cup (IF v <= 12 THEN {"modelPricing"} ELSE {}) \cup (IF v <= 13 THEN {"credentials"} ELSE {})
    \cup (IF v \in 13 .. 23 THEN {"currencies"} ELSE {})

Plain(v) ==
  LET plan == CHOOSE p \in PlansOf(v) : p.kind \notin {"yearly", "never"} /\ (p.kind = Nil => p.period = 2)
  IN  Db(v, plan, [plan |-> Nil, cycle |-> NoCycle, list |-> {}, bindings |-> NoBindings],
         [r \in {g} |-> {m1}], CHOOSE e \in EventsOf(v) : e.headers = "none", Nil)

NewFile ==
  Db(0, [id |-> Nil, kind |-> Nil, period |-> 0, limit |-> "column"],
     [plan |-> Nil, cycle |-> NoCycle, list |-> {}, bindings |-> NoBindings], [r \in {} |-> {}],
     [provider |-> Nil, account |-> Nil, headers |-> "none", report |-> FALSE], Nil)

FoundFiles ==
  UNION {Good(v) : v \in Versions}
    \cup {[Plain(v) EXCEPT !.columns = @ \cup {s}] : v \in Versions, s \in Strays}
    \cup UNION {{[Plain(v) EXCEPT !.damaged = {reader}] : reader \in ReadersOf(v)} : v \in Versions}
    \cup {[Plain(v) EXCEPT !.version = w] : v \in {12}, w \in {0, 9, 26}}
    \cup {[NewFile EXCEPT !.indexes = {}]}

\* Records are added to a new database only.
Bounded == found.version = 0 \/ (recorded <= 1 /\ clock = Max(Retentions \cup Ages \cup {MaxDelay}) + 1)
=============================================================================
