------------------------------ MODULE Routing ------------------------------
(***************************************************************************)
(* Routing rules and the bindings of keys to them: CreateRoute,            *)
(* UpdateRoute, SetKeyRoutes and DeleteRoute of the store, what they write *)
(* to the database, and the decision a request gets from them.             *)
(*                                                                         *)
(* A rule allows or denies models, credentials and groups of credentials   *)
(* (selectors).  A key is bound to any number of rules and has one of its  *)
(* own; their union decides, and a deny wins over an allow.  Order and     *)
(* spelling of the lists do not matter, so they are sets here.             *)
(*                                                                         *)
(* Each edit is made on a copy, saved, and published only when saved.  It  *)
(* lists what it changed; a restart has what was listed and nothing else.  *)
(***************************************************************************)
EXTENDS Naturals, FiniteSets

CONSTANTS
  Keys,       \* API key scopes
  RouteIDs,   \* identifiers of routing rules
  Models,     \* billing models
  Rules,      \* rules an administrator writes, the invalid ones included
  Nil         \* no rule, no model

ASSUME RoutingAssumption == IsFiniteSet(Keys) /\ Nil \notin Rules \cup Models

VARIABLES
  routes,     \* the rule of each identifier, Nil for none
  bindings,   \* of each key: ids of rules, and a rule of its own
  status,     \* of each key: see Live and Known
  disk        \* the database: routes, bindings and status

routingVars == <<routes, bindings, status, disk>>

----------------------------------------------------------------------------
(* Rules and decisions *)

Dimensions == {"models", "credentials", "selectors"}

\* A rule, and a decision, is a pair of allows and denies in each dimension.
NoRule == [d \in Dimensions |-> [allow |-> {}, deny |-> {}]]

\* NormalizeRouteRule: within one rule each item has exactly one state.
ValidRule(rule) == \A d \in Dimensions : rule[d].allow \cap rule[d].deny = {}

Live(k) == status[k] \in {"traffic", "config"}
Known(k) == status[k] # "unknown"

Unbound == [ids |-> {}, own |-> NoRule]

RulesOf(rs, b) == {rs[id] : id \in b.ids} \cup {b.own}

\* mutant of Resolve: what one rule denies is taken from what another allows
ResolveSubtracting(rs, b) ==
  [d \in Dimensions |->
     LET allow == UNION {rule[d].allow : rule \in RulesOf(rs, b)}
         deny == UNION {rule[d].deny : rule \in RulesOf(rs, b)}
     IN  [allow |-> allow \ deny, deny |-> deny]]

\* Each dimension is merged on its own, and allows are never reduced by denies.
Resolve(rs, b) ==
  [d \in Dimensions |->
     [allow |-> UNION {rule[d].allow : rule \in RulesOf(rs, b)},
      deny |-> UNION {rule[d].deny : rule \in RulesOf(rs, b)}]]

\* The decision for key k; a key that was never seen is unrestricted.
Decision(k) == IF Known(k) THEN Resolve(routes, bindings[k]) ELSE NoRule

RestrictsModels(decision) == decision["models"] # NoRule["models"]

RestrictsCredentials(decision) ==
  \E d \in {"credentials", "selectors"} : decision[d] # NoRule[d]

\* An empty allow list allows everything that is not denied, and every decision a request
\* that names no model.
AllowsModel(decision, m) ==
  m # Nil => /\ m \notin decision["models"].deny
             /\ decision["models"].allow = {} \/ m \in decision["models"].allow

\* Whether a credential of which source and provider are known, or "" if they are not,
\* may be one that the selector names.
MayMatch(known, selector) ==
  /\ known.source \in {"", selector.source}
  /\ known.provider \in {"", selector.provider}

\* Incomplete metadata cannot show that a credential is outside a denied group.
AllowsCredential(decision, c, known) ==
  /\ c \notin decision["credentials"].deny
  /\ ~\E s \in decision["selectors"].deny : MayMatch(known, s)
  /\ \/ decision["credentials"].allow = {} /\ decision["selectors"].allow = {}
     \/ c \in decision["credentials"].allow
     \/ known \in decision["selectors"].allow

Restricted(rs, b) == RestrictsModels(Resolve(rs, b)) \/ RestrictsCredentials(Resolve(rs, b))

----------------------------------------------------------------------------
(* Edits: editConfiguration once the save has succeeded *)

\* The rules are replaced as a whole, keys are written one by one.
Publish(wholeRoutes, ks) ==
  disk' = [routes |-> IF wholeRoutes THEN routes' ELSE disk.routes,
           bindings |-> [k \in Keys |-> IF k \in ks THEN bindings'[k] ELSE disk.bindings[k]],
           status |-> [k \in Keys |-> IF k \in ks THEN status'[k] ELSE disk.status[k]]]

BoundTo(id) == {k \in Keys : Known(k) /\ id \in bindings[k].ids}

Bind(ks, id) ==
  bindings' = [k \in Keys |-> IF k \in ks THEN [bindings[k] EXCEPT !.ids = @ \cup {id}] ELSE bindings[k]]

Rebind(ks, id) ==
  bindings' = [k \in Keys |-> IF k \in ks THEN [bindings[k] EXCEPT !.ids = @ \cup {id}]
                              ELSE [bindings[k] EXCEPT !.ids = @ \ {id}]]

CreateRoute(id, rule, ks) ==
  /\ \A k \in ks : Live(k)
  /\ routes[id] = Nil
  /\ ValidRule(rule)
  /\ routes' = [routes EXCEPT ![id] = rule]
  /\ Bind(ks, id)
  /\ UNCHANGED status
  /\ Publish(TRUE, ks)

\* A rule's text alone is edited, its keys stay.
UpdateRule(id, rule) ==
  /\ routes[id] # Nil
  /\ ValidRule(rule)
  /\ routes' = [routes EXCEPT ![id] = rule]
  /\ UNCHANGED <<bindings, status>>
  /\ Publish(TRUE, {})

\* mutant of UpdateRoute: the keys that lose the rule are not listed
UpdateRouteAdded(id, rule, ks) ==
  /\ routes[id] # Nil
  /\ ValidRule(rule)
  /\ \A k \in ks : Live(k) \/ k \in BoundTo(id)
  /\ routes' = [routes EXCEPT ![id] = rule]
  /\ Rebind(ks, id)
  /\ UNCHANGED status
  /\ Publish(TRUE, ks \ BoundTo(id))

\* A deleted key may keep the rule or lose it, but gets no new one.
UpdateRoute(id, rule, ks) ==
  /\ routes[id] # Nil
  /\ ValidRule(rule)
  /\ \A k \in ks : Live(k) \/ k \in BoundTo(id)
  /\ routes' = [routes EXCEPT ![id] = rule]
  /\ Rebind(ks, id)
  /\ UNCHANGED status
  /\ Publish(TRUE, (ks \ BoundTo(id)) \cup (BoundTo(id) \ ks))

SetKeyRoutes(k, ids, own) ==
  /\ ValidRule(own)
  /\ Live(k)
  /\ \A id \in ids : routes[id] # Nil
  /\ bindings' = [bindings EXCEPT ![k] = [ids |-> ids, own |-> own]]
  /\ UNCHANGED <<routes, status>>
  /\ Publish(FALSE, {k})

\* mutant of DeleteRoute: keys that CPA no longer lists keep the binding
DeleteRouteLive(id) ==
  /\ routes[id] # Nil
  /\ routes' = [routes EXCEPT ![id] = Nil]
  /\ Rebind({k \in BoundTo(id) : ~Live(k)}, id)
  /\ UNCHANGED status
  /\ Publish(TRUE, {k \in BoundTo(id) : Live(k)})

\* Every key loses the rule, the deleted ones too.
DeleteRoute(id) ==
  /\ routes[id] # Nil
  /\ routes' = [routes EXCEPT ![id] = Nil]
  /\ Rebind({}, id)
  /\ UNCHANGED status
  /\ Publish(TRUE, BoundTo(id))

\* mutant of RouteView: a key's own rule is forgotten
RouteViewByIds(id) ==
  [bound |-> Cardinality(BoundTo(id)),
   deleted |-> Cardinality({k \in BoundTo(id) : ~Live(k)}),
   unrestricted |-> Cardinality({k \in BoundTo(id) : Live(k) /\ bindings[k].ids = {id}})]

\* What an administrator is shown before deleting a rule.
RouteView(id) ==
  [bound |-> Cardinality(BoundTo(id)),
   deleted |-> Cardinality({k \in BoundTo(id) : ~Live(k)}),
   unrestricted |-> Cardinality({k \in BoundTo(id) :
                      Live(k) /\ ~Restricted(routes, [bindings[k] EXCEPT !.ids = @ \ {id}])})]

\* SyncKeys: keys CPA lists are live, the others it once listed are deleted and keep
\* their bindings.
SyncKeys(listed) ==
  /\ status' = [k \in Keys |-> IF k \in listed THEN "config"
                               ELSE IF status[k] = "config" THEN "deleted" ELSE status[k]]
  /\ UNCHANGED <<routes, bindings>>
  /\ Publish(FALSE, IF status' # status THEN Keys ELSE {})

\* Usage of a key nobody listed creates it.
SeeKey(k) ==
  /\ ~Known(k)
  /\ status' = [status EXCEPT ![k] = "traffic"]
  /\ UNCHANGED <<routes, bindings>>
  /\ Publish(FALSE, {k})

\* The plugin starts again on its database.
RestartRouting ==
  /\ routes' = disk.routes
  /\ bindings' = disk.bindings
  /\ status' = disk.status
  /\ UNCHANGED disk

RoutingInit ==
  /\ routes = [id \in RouteIDs |-> Nil]
  /\ bindings = [k \in Keys |-> Unbound]
  /\ status = [k \in Keys |-> "unknown"]
  /\ disk = [routes |-> routes, bindings |-> bindings, status |-> status]

EditRoute(id) ==
  \/ \E rule \in Rules, ks \in SUBSET Keys : CreateRoute(id, rule, ks) \/ UpdateRoute(id, rule, ks)
  \/ \E rule \in Rules : UpdateRule(id, rule)
  \/ DeleteRoute(id)

RoutingNext ==
  \/ \E id \in RouteIDs : EditRoute(id)
  \/ \E k \in Keys, ids \in SUBSET RouteIDs, own \in Rules : SetKeyRoutes(k, ids, own)
  \/ \E listed \in SUBSET Keys : SyncKeys(listed)
  \/ \E k \in Keys : SeeKey(k)
  \/ RestartRouting

RoutingSpec == RoutingInit /\ [][RoutingNext]_routingVars

----------------------------------------------------------------------------
(* Properties *)

\* Every rule a key is bound to exists, in memory and on disk.  Load refuses a
\* database in which one does not, and the plugin would not start again; and a rule
\* created later under the same identifier would silently restrict the key.
BindingsResolve ==
  \A k \in Keys :
    /\ \A id \in bindings[k].ids : routes[id] # Nil
    /\ \A id \in disk.bindings[k].ids : disk.routes[id] # Nil

\* A restart neither widens nor narrows what a key may use: the rules listed as
\* changed by every sequence of edits are those that did.
RestartKeepsDecisions ==
  \A k \in Keys : Known(k) => Decision(k) = Resolve(disk.routes, disk.bindings[k])

\* Deleting a rule frees from all restriction exactly as many keys as the view of the
\* rule announced.
DeleteAsAnnounced ==
  [][\A id \in RouteIDs : DeleteRoute(id) =>
       Cardinality({k \in BoundTo(id) : Live(k) /\ ~Restricted(routes', bindings'[k])})
         = RouteView(id).unrestricted]_routingVars
=============================================================================
