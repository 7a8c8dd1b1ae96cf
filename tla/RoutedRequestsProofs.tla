------------------------ MODULE RoutedRequestsProofs ------------------------
(***************************************************************************)
(* Of the rules, for any keys, rules and identifiers: bindings resolve, a  *)
(* restart changes no decision, denies win, and deletions do what their    *)
(* preview said.  All of it rests on the lists of changed keys being       *)
(* complete, so that the database always equals memory.                    *)
(*                                                                         *)
(* Of requests under them, for any requests and credentials too: an        *)
(* identity taken on trust came from the host, and a request whose check   *)
(* needed an identity goes only where the rules at the start of the check  *)
(* let it.  The composition implements Routing, so what holds of the rules *)
(* holds of it.                                                            *)
(***************************************************************************)
EXTENDS RoutedRequests, TLAPS

----------------------------------------------------------------------------
(* Rules *)

Binding == [ids : SUBSET RouteIDs, own : Rules \cup {NoRule}]

RoutingTypeOK ==
  /\ routes \in [RouteIDs -> Rules \cup {Nil}]
  /\ bindings \in [Keys -> Binding]
  /\ status \in [Keys -> {"unknown", "traffic", "config", "deleted"}]

\* Every edit has saved all it changed.
DiskIsMemory == disk = [routes |-> routes, bindings |-> bindings, status |-> status]

\* Only a key that has been seen is bound.
UnknownUnbound == \A k \in Keys : ~Known(k) => bindings[k].ids = {}

RulesExist == \A k \in Keys : \A id \in bindings[k].ids : routes[id] # Nil

RoutingInv == RoutingTypeOK /\ DiskIsMemory /\ UnknownUnbound /\ RulesExist

----------------------------------------------------------------------------
(* What the parts of an edit do *)

\* A save that lists every key that changed leaves the database equal to memory.
LEMMA PublishComplete ==
  ASSUME RoutingTypeOK, RoutingTypeOK', DiskIsMemory, NEW whole \in BOOLEAN, NEW ks,
         Publish(whole, ks), whole \/ routes' = routes,
         \A k \in Keys \ ks : bindings'[k] = bindings[k] /\ status'[k] = status[k]
  PROVE  DiskIsMemory'
<1>1. (IF whole THEN routes' ELSE disk.routes) = routes'
  BY DEF DiskIsMemory
<1>2. [k \in Keys |-> IF k \in ks THEN bindings'[k] ELSE disk.bindings[k]] = bindings'
  BY DEF DiskIsMemory, RoutingTypeOK
<1>3. [k \in Keys |-> IF k \in ks THEN status'[k] ELSE disk.status[k]] = status'
  BY DEF DiskIsMemory, RoutingTypeOK
<1> QED
  BY <1>1, <1>2, <1>3 DEF Publish, DiskIsMemory

\* A binding to other rules keeps the key's own.
LEMMA OtherIds ==
  ASSUME NEW b \in Binding, NEW ids \in SUBSET RouteIDs, NEW c, c = [b EXCEPT !.ids = ids]
  PROVE  /\ c \in Binding
         /\ c.ids = ids
         /\ c.own = b.own
         /\ ids = b.ids => c = b
BY DEF Binding

\* The keys whose rules change are those that gain the rule and those that lose it.
LEMMA RebindChanges ==
  ASSUME RoutingTypeOK, UnknownUnbound, NEW ks \in SUBSET Keys, NEW id \in RouteIDs, Rebind(ks, id)
  PROVE  /\ bindings' \in [Keys -> Binding]
         /\ \A k \in Keys : /\ bindings'[k].ids = IF k \in ks THEN bindings[k].ids \cup {id} ELSE bindings[k].ids \ {id}
                            /\ bindings'[k].own = bindings[k].own
         /\ \A k \in Keys \ ((ks \ BoundTo(id)) \cup (BoundTo(id) \ ks)) : bindings'[k] = bindings[k]
<1> DEFINE new(k) == IF k \in ks THEN bindings[k].ids \cup {id} ELSE bindings[k].ids \ {id}
<1>1. ASSUME NEW k \in Keys
      PROVE  /\ bindings'[k] \in Binding
             /\ bindings'[k].ids = new(k)
             /\ bindings'[k].own = bindings[k].own
             /\ new(k) = bindings[k].ids => bindings'[k] = bindings[k]
  <2>1. bindings[k] \in Binding
    BY DEF RoutingTypeOK
  <2>2. new(k) \in SUBSET RouteIDs
    BY <2>1 DEF Binding
  <2>3. bindings'[k] = [bindings[k] EXCEPT !.ids = new(k)]
    BY DEF Rebind
  <2> HIDE DEF new
  <2> QED
    BY ZenonT(60), <2>1, <2>2, <2>3, OtherIds
<1>2. bindings' = [k \in Keys |-> bindings'[k]]
  BY DEF Rebind
<1>3. ASSUME NEW k \in Keys, k \notin ks \ BoundTo(id), k \notin BoundTo(id) \ ks
      PROVE  new(k) = bindings[k].ids
  BY <1>3 DEF BoundTo, UnknownUnbound
<1> HIDE DEF new
<1>4. \A k \in Keys \ ((ks \ BoundTo(id)) \cup (BoundTo(id) \ ks)) : bindings'[k] = bindings[k]
  BY <1>1, <1>3
<1>5. bindings' \in [Keys -> Binding]
  BY <1>1, <1>2
<1> QED
  BY <1>1, <1>4, <1>5 DEF new

\* Binding more keys to a rule changes no others.
LEMMA BindChanges ==
  ASSUME RoutingTypeOK, NEW ks \in SUBSET Keys, NEW id \in RouteIDs, Bind(ks, id)
  PROVE  /\ bindings' \in [Keys -> Binding]
         /\ \A k \in Keys : bindings'[k].ids \subseteq bindings[k].ids \cup {id}
         /\ \A k \in Keys \ ks : bindings'[k] = bindings[k]
<1>1. ASSUME NEW k \in Keys
      PROVE  /\ bindings'[k] \in Binding
             /\ bindings'[k].ids \subseteq bindings[k].ids \cup {id}
             /\ k \notin ks => bindings'[k] = bindings[k]
  <2>1. bindings[k] \in Binding
    BY DEF RoutingTypeOK
  <2>2. CASE k \in ks
    <3>1. bindings[k].ids \cup {id} \in SUBSET RouteIDs
      BY <2>1 DEF Binding
    <3>2. bindings'[k] = [bindings[k] EXCEPT !.ids = bindings[k].ids \cup {id}]
      BY <2>2 DEF Bind
    <3> QED
      BY <2>1, <2>2, <3>1, <3>2, OtherIds
  <2>3. CASE k \notin ks
    BY <2>1, <2>3 DEF Bind
  <2> QED
    BY <2>2, <2>3
<1>2. bindings' = [k \in Keys |-> bindings'[k]]
  BY DEF Bind
<1> QED
  BY <1>1, <1>2

----------------------------------------------------------------------------
(* The inductive invariant *)

LEMMA CreateRouteInv ==
  ASSUME RoutingInv, NEW id \in RouteIDs, NEW rule \in Rules, NEW ks \in SUBSET Keys, CreateRoute(id, rule, ks)
  PROVE  RoutingInv'
<1>1. RoutingTypeOK'
  BY BindChanges DEF RoutingInv, RoutingTypeOK, CreateRoute
<1>2. DiskIsMemory'
  <2>1. \A k \in Keys \ ks : bindings'[k] = bindings[k] /\ status'[k] = status[k]
    BY BindChanges DEF RoutingInv, CreateRoute
  <2> QED
    BY <1>1, <2>1, PublishComplete DEF RoutingInv, CreateRoute
<1>3. UnknownUnbound'
  <2> SUFFICES ASSUME NEW k \in Keys, ~Known(k)' PROVE bindings'[k].ids = {}
    BY DEF UnknownUnbound
  <2>1. k \notin ks
    BY DEF CreateRoute, Live, Known
  <2>2. bindings'[k] = bindings[k]
    BY <2>1, BindChanges DEF RoutingInv, CreateRoute
  <2> QED
    BY <2>2 DEF RoutingInv, UnknownUnbound, CreateRoute, Known
<1>4. RulesExist'
  <2> SUFFICES ASSUME NEW k \in Keys, NEW i \in bindings'[k].ids PROVE routes'[i] # Nil
    BY DEF RulesExist
  <2>1. i \in bindings[k].ids \cup {id}
    BY BindChanges DEF RoutingInv, CreateRoute
  <2>2. i \in RouteIDs
    BY <1>1 DEF RoutingTypeOK, Binding
  <2> QED
    BY <2>1, <2>2, RoutingAssumption DEF RoutingInv, RulesExist, RoutingTypeOK, CreateRoute
<1> QED
  BY <1>1, <1>2, <1>3, <1>4 DEF RoutingInv

LEMMA UpdateRuleInv ==
  ASSUME RoutingInv, NEW id \in RouteIDs, NEW rule \in Rules, UpdateRule(id, rule)
  PROVE  RoutingInv'
<1>1. RoutingTypeOK'
  BY DEF RoutingInv, RoutingTypeOK, UpdateRule
<1>2. DiskIsMemory'
  BY <1>1, PublishComplete DEF RoutingInv, UpdateRule
<1>3. UnknownUnbound'
  BY DEF RoutingInv, UnknownUnbound, UpdateRule, Known
<1>4. RulesExist'
  BY RoutingAssumption DEF RoutingInv, RulesExist, RoutingTypeOK, Binding, UpdateRule
<1> QED
  BY <1>1, <1>2, <1>3, <1>4 DEF RoutingInv

\* Edits that give a rule exactly these keys, and keep it or delete it.
LEMMA RebindInv ==
  ASSUME RoutingInv, NEW id \in RouteIDs, NEW rule \in Rules \cup {Nil}, NEW ks \in SUBSET Keys,
         rule = Nil => ks = {}, \A k \in ks : Known(k),
         routes' = [routes EXCEPT ![id] = rule], Rebind(ks, id), UNCHANGED status,
         Publish(TRUE, (ks \ BoundTo(id)) \cup (BoundTo(id) \ ks))
  PROVE  RoutingInv'
<1>0. /\ bindings' \in [Keys -> Binding]
      /\ \A k \in Keys : /\ bindings'[k].ids = IF k \in ks THEN bindings[k].ids \cup {id} ELSE bindings[k].ids \ {id}
                         /\ bindings'[k].own = bindings[k].own
      /\ \A k \in Keys \ ((ks \ BoundTo(id)) \cup (BoundTo(id) \ ks)) : bindings'[k] = bindings[k]
  <2>1. RoutingTypeOK /\ UnknownUnbound
    BY DEF RoutingInv
  <2> QED
    BY <2>1, RebindChanges, Zenon
<1>1. RoutingTypeOK'
  BY <1>0 DEF RoutingInv, RoutingTypeOK
<1>2. DiskIsMemory'
  <2> DEFINE changed == (ks \ BoundTo(id)) \cup (BoundTo(id) \ ks)
  <2>1. \A k \in Keys \ changed : bindings'[k] = bindings[k] /\ status'[k] = status[k]
    BY <1>0
  <2>2. Publish(TRUE, changed)
    OBVIOUS
  <2> HIDE DEF changed
  <2> QED
    BY <1>1, <2>1, <2>2, PublishComplete DEF RoutingInv
<1>3. UnknownUnbound'
  <2> SUFFICES ASSUME NEW k \in Keys, ~Known(k)' PROVE bindings'[k].ids = {}
    BY DEF UnknownUnbound
  <2>1. ~Known(k)
    BY DEF Known
  <2>2. bindings'[k].ids = bindings[k].ids \ {id}
    BY <1>0, <2>1
  <2> QED
    BY <2>1, <2>2 DEF RoutingInv, UnknownUnbound
<1>4. RulesExist'
  <2> SUFFICES ASSUME NEW k \in Keys, NEW i \in bindings'[k].ids PROVE routes'[i] # Nil
    BY DEF RulesExist
  <2>1. i \in RouteIDs
    BY <1>1 DEF RoutingTypeOK, Binding
  <2>2. bindings'[k].ids = IF k \in ks THEN bindings[k].ids \cup {id} ELSE bindings[k].ids \ {id}
    BY <1>0
  <2>3. CASE i = id
    <3>1. rule # Nil
      BY <2>2, <2>3
    <3> QED
      BY <2>3, <3>1, RoutingAssumption DEF RoutingInv, RoutingTypeOK
  <2>4. CASE i # id
    BY <2>1, <2>2, <2>4 DEF RoutingInv, RulesExist, RoutingTypeOK
  <2> QED
    BY <2>3, <2>4
<1> QED
  BY <1>1, <1>2, <1>3, <1>4 DEF RoutingInv

LEMMA UpdateRouteInv ==
  ASSUME RoutingInv, NEW id \in RouteIDs, NEW rule \in Rules, NEW ks \in SUBSET Keys, UpdateRoute(id, rule, ks)
  PROVE  RoutingInv'
<1>1. \A k \in ks : Known(k)
  BY DEF UpdateRoute, Live, Known, BoundTo
<1>2. rule # Nil
  BY RoutingAssumption
<1> QED
  BY <1>1, <1>2, RebindInv DEF UpdateRoute

LEMMA DeleteRouteInv ==
  ASSUME RoutingInv, NEW id \in RouteIDs, DeleteRoute(id)
  PROVE  RoutingInv'
<1>1. ({} \ BoundTo(id)) \cup (BoundTo(id) \ {}) = BoundTo(id)
  OBVIOUS
<1>2. Publish(TRUE, ({} \ BoundTo(id)) \cup (BoundTo(id) \ {}))
  BY <1>1 DEF DeleteRoute
<1>3. routes' = [routes EXCEPT ![id] = Nil] /\ Rebind({}, id) /\ UNCHANGED status
  BY DEF DeleteRoute
<1> QED
  BY <1>2, <1>3, RebindInv

LEMMA SetKeyRoutesInv ==
  ASSUME RoutingInv, NEW k \in Keys, NEW ids \in SUBSET RouteIDs, NEW own \in Rules, SetKeyRoutes(k, ids, own)
  PROVE  RoutingInv'
<1>1. [ids |-> ids, own |-> own] \in Binding
  BY DEF Binding
<1>2. RoutingTypeOK'
  BY <1>1 DEF RoutingInv, RoutingTypeOK, SetKeyRoutes
<1>3. \A j \in Keys \ {k} : bindings'[j] = bindings[j] /\ status'[j] = status[j]
  BY DEF RoutingInv, RoutingTypeOK, SetKeyRoutes
<1>4. DiskIsMemory'
  BY <1>2, <1>3, PublishComplete DEF RoutingInv, SetKeyRoutes
<1>5. UnknownUnbound'
  BY <1>3 DEF RoutingInv, UnknownUnbound, SetKeyRoutes, Known, Live
<1>6. RulesExist'
  <2>1. bindings'[k].ids = ids
    BY DEF RoutingInv, RoutingTypeOK, SetKeyRoutes
  <2> QED
    BY <1>3, <2>1 DEF RoutingInv, RulesExist, SetKeyRoutes
<1> QED
  BY <1>2, <1>4, <1>5, <1>6 DEF RoutingInv

LEMMA KeysInv ==
  ASSUME RoutingInv,
         (\E listed \in SUBSET Keys : SyncKeys(listed)) \/ (\E k \in Keys : SeeKey(k))
  PROVE  RoutingInv'
<1>1. RoutingTypeOK'
  BY DEF RoutingInv, RoutingTypeOK, SyncKeys, SeeKey
<1>2. \A k \in Keys : Known(k) => Known(k)'
  BY DEF RoutingInv, RoutingTypeOK, SyncKeys, SeeKey, Known
<1>3. DiskIsMemory'
  <2>1. ASSUME NEW listed \in SUBSET Keys, SyncKeys(listed) PROVE DiskIsMemory'
    <3> DEFINE ks == IF status' # status THEN Keys ELSE {}
    <3>1. \A k \in Keys \ ks : bindings'[k] = bindings[k] /\ status'[k] = status[k]
      BY <2>1 DEF SyncKeys
    <3>2. Publish(FALSE, ks) /\ routes' = routes
      BY <2>1 DEF SyncKeys
    <3> HIDE DEF ks
    <3> QED
      BY <1>1, <3>1, <3>2, PublishComplete DEF RoutingInv
  <2>2. ASSUME NEW k \in Keys, SeeKey(k) PROVE DiskIsMemory'
    <3>1. \A j \in Keys \ {k} : bindings'[j] = bindings[j] /\ status'[j] = status[j]
      BY <2>2 DEF RoutingInv, RoutingTypeOK, SeeKey
    <3>2. Publish(FALSE, {k}) /\ routes' = routes
      BY <2>2 DEF SeeKey
    <3> QED
      BY <1>1, <3>1, <3>2, PublishComplete DEF RoutingInv
  <2> QED
    BY <2>1, <2>2
<1>4. UnknownUnbound'
  BY <1>2 DEF RoutingInv, UnknownUnbound, SyncKeys, SeeKey
<1>5. RulesExist'
  BY DEF RoutingInv, RulesExist, SyncKeys, SeeKey
<1> QED
  BY <1>1, <1>3, <1>4, <1>5 DEF RoutingInv

LEMMA RestartInv ==
  ASSUME RoutingInv, RestartRouting
  PROVE  RoutingInv'
<1>1. UNCHANGED routingVars
  BY DEF RoutingInv, DiskIsMemory, RestartRouting, routingVars
<1> QED
  BY <1>1 DEF routingVars, RoutingInv, RoutingTypeOK, DiskIsMemory, UnknownUnbound, RulesExist, Known

LEMMA RoutingInitInv == RoutingInit => RoutingInv
<1> SUFFICES ASSUME RoutingInit PROVE RoutingInv
  OBVIOUS
<1>1. Unbound \in Binding
  BY DEF Unbound, Binding
<1>2. RoutingTypeOK
  BY <1>1 DEF RoutingInit, RoutingTypeOK
<1>3. \A k \in Keys : bindings[k].ids = {}
  BY DEF RoutingInit, Unbound
<1> QED
  BY <1>2, <1>3 DEF RoutingInit, RoutingInv, DiskIsMemory, UnknownUnbound, RulesExist

LEMMA RoutingNextInv == RoutingInv /\ [RoutingNext]_routingVars => RoutingInv'
<1> SUFFICES ASSUME RoutingInv, [RoutingNext]_routingVars PROVE RoutingInv'
  OBVIOUS
<1>1. ASSUME NEW id \in RouteIDs, EditRoute(id) PROVE RoutingInv'
  BY <1>1, CreateRouteInv, UpdateRuleInv, UpdateRouteInv, DeleteRouteInv DEF EditRoute
<1>2. ASSUME NEW k \in Keys, NEW ids \in SUBSET RouteIDs, NEW own \in Rules, SetKeyRoutes(k, ids, own)
      PROVE  RoutingInv'
  BY <1>2, SetKeyRoutesInv
<1>3. CASE UNCHANGED routingVars
  BY <1>3 DEF routingVars, RoutingInv, RoutingTypeOK, DiskIsMemory, UnknownUnbound, RulesExist, Known
<1> QED
  BY <1>1, <1>2, <1>3, KeysInv, RestartInv DEF RoutingNext

\* The types, the agreement of memory and database and the existence of every bound rule hold
\* together through all edits, synchronisations and restarts.
THEOREM RoutingInductive == RoutingSpec => []RoutingInv
BY RoutingInitInv, RoutingNextInv, PTL DEF RoutingSpec

----------------------------------------------------------------------------
(* What follows *)

LEMMA InvResolves == RoutingInv => BindingsResolve
BY DEF RoutingInv, DiskIsMemory, RulesExist, BindingsResolve

LEMMA InvKeepsDecisions == RoutingInv => RestartKeepsDecisions
BY DEF RoutingInv, DiskIsMemory, RestartKeepsDecisions, Decision

\* What the united lists allow, in a dimension, is what the rules do one by one.
LEMMA UnionOf ==
  ASSUME NEW k \in Keys, Known(k), NEW d \in Dimensions
  PROVE  LET rules == RulesOf(routes, bindings[k])
         IN  /\ \A x : x \in Decision(k)[d].deny <=> \E rule \in rules : x \in rule[d].deny
             /\ \A x : x \in Decision(k)[d].allow <=> \E rule \in rules : x \in rule[d].allow
             /\ Decision(k)[d].allow = {} <=> \A rule \in rules : rule[d].allow = {}
<1> DEFINE rules == RulesOf(routes, bindings[k])
           allow == UNION {rule[d].allow : rule \in rules}
           deny == UNION {rule[d].deny : rule \in rules}
<1>1. Decision(k)[d] = [allow |-> allow, deny |-> deny]
  BY DEF Decision, Resolve
<1>2. Decision(k)[d].allow = allow /\ Decision(k)[d].deny = deny
  BY <1>1
<1> HIDE DEF rules
<1>3. \A x : x \in deny <=> \E rule \in rules : x \in rule[d].deny
  OBVIOUS
<1>4. \A x : x \in allow <=> \E rule \in rules : x \in rule[d].allow
  OBVIOUS
<1>5. allow = {} <=> \A rule \in rules : rule[d].allow = {}
  OBVIOUS
<1> HIDE DEF allow, deny
<1> QED
  BY <1>2, <1>3, <1>4, <1>5 DEF rules

\* A decision allows what no rule denies and, if rules list what they allow, one of them lists.
LEMMA UnionDecides == DenyWins
<1> SUFFICES ASSUME NEW k \in Keys, Known(k)
             PROVE  LET rules == RulesOf(routes, bindings[k])
                    IN  /\ \A m \in Models :
                             AllowsModel(Decision(k), m) <=>
                               /\ \A rule \in rules : m \notin rule["models"].deny
                               /\ \/ \A rule \in rules : rule["models"].allow = {}
                                  \/ \E rule \in rules : m \in rule["models"].allow
                        /\ \A c \in Credentials, known \in KnownIdentities :
                             AllowsCredential(Decision(k), c, known) <=>
                               /\ \A rule \in rules : /\ c \notin rule["credentials"].deny
                                                      /\ ~\E s \in rule["selectors"].deny : MayMatch(known, s)
                               /\ \/ \A rule \in rules : rule["credentials"].allow = {} /\ rule["selectors"].allow = {}
                                  \/ \E rule \in rules : \/ c \in rule["credentials"].allow
                                                         \/ known \in rule["selectors"].allow
  BY Zenon DEF DenyWins
<1> DEFINE rules == RulesOf(routes, bindings[k])
           decision == Decision(k)
<1>1. \A d \in Dimensions :
        /\ \A x : x \in decision[d].deny <=> \E rule \in rules : x \in rule[d].deny
        /\ \A x : x \in decision[d].allow <=> \E rule \in rules : x \in rule[d].allow
        /\ decision[d].allow = {} <=> \A rule \in rules : rule[d].allow = {}
  BY UnionOf
<1> HIDE DEF rules, decision
<1>2. "models" \in Dimensions /\ "credentials" \in Dimensions /\ "selectors" \in Dimensions
  BY DEF Dimensions
<1>3. ASSUME NEW m \in Models
      PROVE  AllowsModel(decision, m) <=>
               /\ \A rule \in rules : m \notin rule["models"].deny
               /\ \/ \A rule \in rules : rule["models"].allow = {}
                  \/ \E rule \in rules : m \in rule["models"].allow
  <2>1. m # Nil
    BY RoutingAssumption
  <2> QED
    BY <1>1, <1>2, <2>1 DEF AllowsModel
<1>4. ASSUME NEW c \in Credentials, NEW known \in KnownIdentities
      PROVE  AllowsCredential(decision, c, known) <=>
               /\ \A rule \in rules : /\ c \notin rule["credentials"].deny
                                      /\ ~\E s \in rule["selectors"].deny : MayMatch(known, s)
               /\ \/ \A rule \in rules : rule["credentials"].allow = {} /\ rule["selectors"].allow = {}
                  \/ \E rule \in rules : c \in rule["credentials"].allow \/ known \in rule["selectors"].allow
  <2>1. c \in decision["credentials"].deny <=> \E rule \in rules : c \in rule["credentials"].deny
    BY <1>1, <1>2
  <2>2. (\E s \in decision["selectors"].deny : MayMatch(known, s))
          <=> \E rule \in rules : \E s \in rule["selectors"].deny : MayMatch(known, s)
    <3>1. \A s : s \in decision["selectors"].deny <=> \E rule \in rules : s \in rule["selectors"].deny
      BY <1>1, <1>2
    <3> QED
      BY <3>1
  <2>3. /\ decision["credentials"].allow = {} <=> \A rule \in rules : rule["credentials"].allow = {}
        /\ decision["selectors"].allow = {} <=> \A rule \in rules : rule["selectors"].allow = {}
    BY <1>1, <1>2
  <2>4. /\ c \in decision["credentials"].allow <=> \E rule \in rules : c \in rule["credentials"].allow
        /\ known \in decision["selectors"].allow <=> \E rule \in rules : known \in rule["selectors"].allow
    BY <1>1, <1>2
  <2> QED
    BY <2>1, <2>2, <2>3, <2>4 DEF AllowsCredential
<1> QED
  BY <1>3, <1>4 DEF rules, decision

\* Every rule a key is bound to exists, in memory and in the database.
THEOREM BindingsAlwaysResolve == RoutingSpec => []BindingsResolve
BY RoutingInductive, InvResolves, PTL

\* A restart changes no decision.
THEOREM RestartsKeepDecisions == RoutingSpec => []RestartKeepsDecisions
BY RoutingInductive, InvKeepsDecisions, PTL

\* No rule's allow undoes another's deny, in any state at all.
THEOREM DenyAlwaysWins == RoutingSpec => []DenyWins
BY UnionDecides, PTL

----------------------------------------------------------------------------
(* Deletions *)

\* A key that is no longer bound to the deleted rule is decided by what it was left with.
LEMMA DeletedDecides ==
  ASSUME RoutingInv, NEW id \in RouteIDs, DeleteRoute(id), NEW k \in Keys
  PROVE  Restricted(routes', bindings'[k]) <=> Restricted(routes, [bindings[k] EXCEPT !.ids = @ \ {id}])
<1> DEFINE left == [bindings[k] EXCEPT !.ids = bindings[k].ids \ {id}]
<1>1. bindings'[k] = left
  BY DEF DeleteRoute, Rebind
<1>2. bindings[k] \in Binding /\ bindings[k].ids \ {id} \in SUBSET RouteIDs
  BY DEF RoutingInv, RoutingTypeOK, Binding
<1>3. left.ids = bindings[k].ids \ {id}
  BY <1>2, OtherIds
<1> HIDE DEF left
<1>4. \A i \in left.ids : routes'[i] = routes[i]
  BY <1>2, <1>3 DEF RoutingInv, RoutingTypeOK, DeleteRoute
<1>5. RulesOf(routes', left) = RulesOf(routes, left)
  BY <1>4 DEF RulesOf
<1>6. Resolve(routes', left) = Resolve(routes, left)
  BY <1>5 DEF Resolve
<1> QED
  BY <1>1, <1>6 DEF Restricted, left

LEMMA DeletionFrees ==
  ASSUME RoutingInv, NEW id \in RouteIDs, DeleteRoute(id)
  PROVE  Cardinality({k \in BoundTo(id) : Live(k) /\ ~Restricted(routes', bindings'[k])})
           = RouteView(id).unrestricted
<1> DEFINE free == {k \in BoundTo(id) : Live(k) /\ ~Restricted(routes', bindings'[k])}
           announced == {k \in BoundTo(id) :
                           Live(k) /\ ~Restricted(routes, [bindings[k] EXCEPT !.ids = @ \ {id}])}
<1>1. \A k \in BoundTo(id) : Restricted(routes', bindings'[k])
                               <=> Restricted(routes, [bindings[k] EXCEPT !.ids = @ \ {id}])
  BY DeletedDecides DEF BoundTo
<1>2. free = announced
  BY <1>1
<1>3. RouteView(id).unrestricted = Cardinality(announced)
  BY DEF RouteView
<1> HIDE DEF free, announced
<1> QED
  BY <1>2, <1>3 DEF free

\* A deletion frees as many keys of all restriction as the view of the rule announced.
THEOREM DeletionsAsAnnounced == RoutingSpec => DeleteAsAnnounced
<1> DEFINE Announced == \A id \in RouteIDs : DeleteRoute(id) =>
             Cardinality({k \in BoundTo(id) : Live(k) /\ ~Restricted(routes', bindings'[k])})
               = RouteView(id).unrestricted
<1>1. RoutingInv /\ [RoutingNext]_routingVars => [Announced]_routingVars
  BY DeletionFrees
<1> QED
  BY <1>1, RoutingInductive, PTL DEF RoutingSpec, DeleteAsAnnounced

----------------------------------------------------------------------------
(* Requests under the rules *)

\* A request is a record of these fields, whatever is in them.
IsRequest(q) ==
  q \in [stage : {q.stage}, key : {q.key}, model : {q.model}, selected : {q.selected},
         decision : {q.decision}, answer : {q.answer}, result : {q.result}]

RequestsOK ==
  /\ request = [r \in Requests |-> request[r]]
  /\ \A r \in Requests : IsRequest(request[r])

InventoryInv ==
  /\ host = [c \in Credentials |-> host[c]]
  /\ identities = [c \in Credentials |-> identities[c]]
  /\ \A c \in Credentials : host[c] # Nobody => host[c] \in HostIdentities[c]
  /\ TrustedFromHost

InCheck(q) == q.stage \in {"resolved", "asking", "verified"}

\* A check decides by the rules it began with and by an identity the host gave the
\* credential meanwhile or gives it for good.
CheckOK(q, watched) ==
  /\ q.stage = "selected" \/ InCheck(q) => q.selected \in Credentials
  /\ InCheck(q) => q.decision = watched.policy
  /\ q.stage = "verified" =>
       /\ q.answer # Nobody
       /\ q.answer \in HostIdentities[q.selected]
       /\ q.answer \in watched.identities \cup Fixed(q.selected)

ChecksOK == \A r \in Requests : CheckOK(request[r], since[r])

RoutedInv == RequestsOK /\ InventoryInv /\ ChecksOK

----------------------------------------------------------------------------
(* Requests *)

\* A changed request is a request, and the others stay.
LEMMA BecomesRequest ==
  ASSUME RequestsOK, NEW r \in Requests, NEW changed, IsRequest(changed), Becomes(r, changed)
  PROVE  /\ RequestsOK'
         /\ request'[r] = changed
         /\ \A o \in Requests \ {r} : request'[o] = request[o]
<1>1. request' = [o \in Requests |-> IF o = r THEN changed ELSE request[o]]
  BY DEF Becomes, RequestsOK
<1> QED
  BY <1>1 DEF RequestsOK

LEMMA MovedRequest ==
  ASSUME NEW q, IsRequest(q), NEW stage
  PROVE  /\ IsRequest([q EXCEPT !.stage = stage])
         /\ [q EXCEPT !.stage = stage].stage = stage
         /\ [q EXCEPT !.stage = stage].selected = q.selected
         /\ [q EXCEPT !.stage = stage].decision = q.decision
BY DEF IsRequest

LEMMA ResolvedRequest ==
  ASSUME NEW q, IsRequest(q), NEW decision
  PROVE  /\ IsRequest([q EXCEPT !.stage = "resolved", !.decision = decision])
         /\ [q EXCEPT !.stage = "resolved", !.decision = decision].stage = "resolved"
         /\ [q EXCEPT !.stage = "resolved", !.decision = decision].selected = q.selected
         /\ [q EXCEPT !.stage = "resolved", !.decision = decision].decision = decision
BY DEF IsRequest

LEMMA VerifiedRequest ==
  ASSUME NEW q, IsRequest(q), NEW answer
  PROVE  /\ IsRequest([q EXCEPT !.stage = "verified", !.answer = answer])
         /\ [q EXCEPT !.stage = "verified", !.answer = answer].stage = "verified"
         /\ [q EXCEPT !.stage = "verified", !.answer = answer].selected = q.selected
         /\ [q EXCEPT !.stage = "verified", !.answer = answer].decision = q.decision
         /\ [q EXCEPT !.stage = "verified", !.answer = answer].answer = answer
BY DEF IsRequest

LEMMA SelectedRequest ==
  ASSUME NEW q, IsRequest(q), NEW c
  PROVE  /\ IsRequest([q EXCEPT !.stage = "selected", !.selected = c])
         /\ [q EXCEPT !.stage = "selected", !.selected = c].stage = "selected"
         /\ [q EXCEPT !.stage = "selected", !.selected = c].selected = c
BY DEF IsRequest

\* A check that has ended, or not begun, is nothing to watch.
LEMMA EndedRequest ==
  ASSUME RequestsOK, NEW r \in Requests, NEW stage, NEW result, Ends(r, stage, result),
         stage \in {"sent", "refused"}
  PROVE  /\ RequestsOK'
         /\ request'[r].stage = stage
         /\ \A o \in Requests \ {r} : request'[o] = request[o]
<1> DEFINE q == request[r]
           ended == [q EXCEPT !.stage = stage, !.result = result, !.decision = NoRule, !.answer = Nobody]
<1>1. IsRequest(q)
  BY DEF RequestsOK
<1> HIDE DEF q
<1>2. IsRequest(ended) /\ ended.stage = stage
  BY <1>1 DEF IsRequest
<1>3. Becomes(r, ended)
  BY DEF Ends, q
<1> HIDE DEF ended
<1> QED
  BY <1>2, <1>3, BecomesRequest

----------------------------------------------------------------------------
(* The inventory *)

LEMMA RememberInventory ==
  ASSUME InventoryInv, NEW c \in Credentials, NEW i \in HostIdentities[c], RememberIdentity(c, i)
  PROVE  InventoryInv'
BY DEF InventoryInv, TrustedFromHost, RememberIdentity

\* A candidate whose source is not told stands for nobody.
LEMMA OfferedIdentity ==
  ASSUME InventoryInv, NEW offered \in Offers, NEW c \in DOMAIN offered
  PROVE  c \in Credentials /\ (offered[c].source = "" \/ offered[c].provider = "" \/ offered[c] \in HostIdentities[c])
<1>1. PICK cs \in SUBSET {d \in Credentials : host[d] # Nobody} :
        /\ offered \in [cs -> UNION {Told(host[d]) : d \in cs}]
        /\ \A d \in cs : offered[d] \in Told(host[d])
  BY DEF Offers
<1>2. c \in cs /\ c \in Credentials /\ host[c] # Nobody
  BY <1>1
<1>3. host[c] \in HostIdentities[c]
  BY <1>2 DEF InventoryInv
<1>4. host[c] = [source |-> host[c].source, provider |-> host[c].provider]
  BY <1>2, <1>3, InventoryAssumption
<1>5. Unsourced(host[c]).source = "" /\ Unnamed(host[c]).provider = ""
  BY <1>4 DEF Unsourced, Unnamed
<1> QED
  BY <1>1, <1>2, <1>3, <1>5 DEF Told

LEMMA ObserveInventory ==
  ASSUME InventoryInv, NEW offered \in Offers, ObserveCandidates(offered)
  PROVE  InventoryInv'
<1>1. \A c \in Credentials :
        identities'[c] # Nobody /\ identities'[c].source = Config /\ identities'[c].provider # ""
          => identities'[c] \in HostIdentities[c]
  BY OfferedIdentity DEF InventoryInv, TrustedFromHost, ObserveCandidates
<1> QED
  BY <1>1 DEF InventoryInv, TrustedFromHost, ObserveCandidates

LEMMA InventoryNextInv ==
  ASSUME InventoryInv, InventoryNext
  PROVE  InventoryInv'
<1>1. ASSUME NEW c \in Credentials, HostChanges(c) PROVE InventoryInv'
  BY <1>1 DEF InventoryInv, TrustedFromHost, HostChanges
<1>2. ASSUME NEW listing \in Listings, Refresh(listing) PROVE InventoryInv'
  <2>1. \A c \in Credentials : listing[c] \in HostIdentities[c] \cup {Nobody}
    BY DEF Listings
  <2>2. \A c \in Credentials : identities'[c] \in {listing[c], identities[c], Nobody}
    BY <1>2 DEF Refresh
  <2>3. identities' = [c \in Credentials |-> identities'[c]] /\ host' = host
    BY <1>2 DEF Refresh
  <2> QED
    BY <2>1, <2>2, <2>3 DEF InventoryInv, TrustedFromHost
<1>3. ASSUME NEW next \in SUBSET Credentials, SyncConfigured(next) PROVE InventoryInv'
  BY <1>3 DEF InventoryInv, TrustedFromHost, SyncConfigured, ReplaceSynced
<1> QED
  BY <1>1, <1>2, <1>3 DEF InventoryNext

----------------------------------------------------------------------------
(* Checks *)

LEMMA Watched ==
  ASSUME Watch, NEW r \in Requests, InCheck(request'[r])
  PROVE  /\ since'[r].policy = IF request[r].stage = "selected" THEN Decision(request[r].key) ELSE since[r].policy
         /\ since'[r].identities = since[r].identities \cup {host[request[r].selected]}
                                                     \cup {host'[request[r].selected]}
BY DEF Watch, Checking, InCheck

\* While others act, what a check began with stays and what it may rely on grows.
LEMMA KeptCheck ==
  ASSUME RoutedInv, Watch, NEW r \in Requests, request'[r] = request[r]
  PROVE  CheckOK(request'[r], since'[r])
BY Watched DEF RoutedInv, ChecksOK, CheckOK, InCheck

\* A request that is in no check has only its selection to answer for.
LEMMA NoCheckOK ==
  ASSUME NEW q, NEW watched, ~InCheck(q), q.stage = "selected" => q.selected \in Credentials
  PROVE  CheckOK(q, watched)
BY DEF CheckOK, InCheck

\* What has to be shown of each step of a request.
LEMMA StepSuffices ==
  ASSUME RoutedInv, Watch, NEW r \in Requests, RequestsOK', InventoryInv',
         \A o \in Requests \ {r} : request'[o] = request[o], CheckOK(request'[r], since'[r])
  PROVE  RoutedInv'
BY KeptCheck DEF RoutedInv, ChecksOK

LEMMA SameInventory ==
  ASSUME InventoryInv, UNCHANGED inventoryVars
  PROVE  InventoryInv'
BY DEF InventoryInv, inventoryVars, TrustedFromHost

\* Steps that end a check, or begin none.
LEMMA EndsInv ==
  ASSUME RoutedInv, Watch, NEW r \in Requests, InventoryInv', NEW stage \in {"sent", "refused"},
         NEW result, Ends(r, stage, result)
  PROVE  RoutedInv'
<1>1. /\ RequestsOK'
      /\ request'[r].stage = stage
      /\ \A o \in Requests \ {r} : request'[o] = request[o]
  BY EndedRequest DEF RoutedInv
<1>2. CheckOK(request'[r], since'[r])
  BY <1>1, NoCheckOK DEF InCheck
<1> QED
  BY <1>1, <1>2, StepSuffices

LEMMA ConcludeInv ==
  ASSUME RoutedInv, Watch, NEW r \in Requests, InventoryInv', NEW entries, NEW result,
         Conclude(r, entries, result)
  PROVE  RoutedInv'
BY EndsInv DEF Conclude

LEMMA SelectInv ==
  ASSUME RoutedInv, Watch, NEW r \in Requests, InventoryInv', NEW c \in Credentials, Select(r, c)
  PROVE  RoutedInv'
<1> DEFINE chosen == [request[r] EXCEPT !.stage = "selected", !.selected = c]
<1>1. IsRequest(request[r])
  BY DEF RoutedInv, RequestsOK
<1>2. IsRequest(chosen) /\ chosen.stage = "selected" /\ chosen.selected = c
  BY <1>1, SelectedRequest
<1>3. Becomes(r, chosen)
  BY DEF Select
<1> HIDE DEF chosen
<1>4. RequestsOK' /\ request'[r] = chosen /\ \A o \in Requests \ {r} : request'[o] = request[o]
  BY <1>2, <1>3, BecomesRequest DEF RoutedInv
<1>5. CheckOK(request'[r], since'[r])
  BY <1>2, <1>4, NoCheckOK DEF InCheck
<1> QED
  BY <1>4, <1>5, StepSuffices

----------------------------------------------------------------------------
(* The steps of a request *)

LEMMA InterceptBeforeInv ==
  ASSUME RoutedInv, Watch, NEW r \in Requests, NEW k, NEW m, InterceptBefore(r, k, m)
  PROVE  RoutedInv'
<1> DEFINE stage == IF AllowsModel(Decision(k), m) THEN "running" ELSE "refused"
           begun == [Idle EXCEPT !.stage = stage, !.key = k, !.model = m]
<1>1. IsRequest(begun) /\ begun.stage = stage
  BY DEF Idle, IsRequest
<1>2. Becomes(r, begun)
  BY DEF InterceptBefore
<1>3. begun.stage \in {"running", "refused"}
  BY <1>1
<1> HIDE DEF begun
<1>4. RequestsOK' /\ request'[r] = begun /\ \A o \in Requests \ {r} : request'[o] = request[o]
  BY <1>1, <1>2, BecomesRequest DEF RoutedInv
<1>5. CheckOK(request'[r], since'[r])
  BY <1>3, <1>4, NoCheckOK DEF InCheck
<1>6. InventoryInv'
  BY SameInventory DEF RoutedInv, InterceptBefore
<1> QED
  BY <1>4, <1>5, <1>6, StepSuffices

LEMMA PickInv ==
  ASSUME RoutedInv, Watch, NEW r \in Requests, NEW offered \in Offers, Pick(r, offered)
  PROVE  RoutedInv'
<1>1. InventoryInv'
  BY ObserveInventory DEF RoutedInv, Pick
<1>2. \/ \E c \in DOMAIN offered : Select(r, c)
      \/ \E shortfall \in Shortfalls : Ends(r, "refused", shortfall)
  BY DEF Pick, Allowed
<1>3. \A c \in DOMAIN offered : c \in Credentials
  BY OfferedIdentity DEF RoutedInv
<1>4. ASSUME NEW shortfall \in Shortfalls, Ends(r, "refused", shortfall) PROVE RoutedInv'
  BY <1>1, <1>4, EndsInv
<1>5. ASSUME NEW c \in Credentials, Select(r, c) PROVE RoutedInv'
  BY <1>1, <1>5, SelectInv
<1> QED
  BY <1>2, <1>3, <1>4, <1>5

LEMMA PickElsewhereInv ==
  ASSUME RoutedInv, Watch, NEW r \in Requests, NEW c \in Credentials, PickElsewhere(r, c)
  PROVE  RoutedInv'
<1>1. InventoryInv'
  BY SameInventory DEF RoutedInv, PickElsewhere
<1> QED
  BY <1>1, SelectInv DEF PickElsewhere

\* The rules are read: a check begins with them, unless the ID alone decides.
LEMMA InterceptAfterInv ==
  ASSUME RoutedInv, Watch, NEW r \in Requests, InterceptAfter(r)
  PROVE  RoutedInv'
<1> DEFINE q == request[r]
           decision == Decision(q.key)
           resolved == [q EXCEPT !.stage = "resolved", !.decision = decision]
<1>1. InventoryInv'
  BY SameInventory DEF RoutedInv, InterceptAfter
<1>2. \/ \E entries, result : Conclude(r, entries, result)
      \/ Becomes(r, resolved)
  BY DEF InterceptAfter
<1>3. q.stage = "selected" /\ q.selected \in Credentials
  BY DEF InterceptAfter, RoutedInv, ChecksOK, CheckOK
<1>4. IsRequest(q)
  BY DEF RoutedInv, RequestsOK
<1>5. CASE Becomes(r, resolved)
  <2>1. /\ IsRequest(resolved) /\ resolved.stage = "resolved"
        /\ resolved.selected = q.selected /\ resolved.decision = decision
    <3> HIDE DEF q, decision
    <3> QED
      BY <1>4, ResolvedRequest
  <2> HIDE DEF resolved
  <2>2. RequestsOK' /\ request'[r] = resolved /\ \A o \in Requests \ {r} : request'[o] = request[o]
    BY <1>5, <2>1, BecomesRequest DEF RoutedInv
  <2>3. since'[r].policy = decision
    BY <1>3, <2>1, <2>2, Watched DEF InCheck
  <2>4. CheckOK(request'[r], since'[r])
    BY <1>3, <2>1, <2>2, <2>3 DEF CheckOK
  <2> QED
    BY <1>1, <2>2, <2>4, StepSuffices
<1>6. ASSUME NEW entries, NEW result, Conclude(r, entries, result) PROVE RoutedInv'
  BY <1>1, <1>6, ConcludeInv
<1> QED
  BY <1>2, <1>5, <1>6

\* A check that goes on with an identity.
LEMMA VerifiedInv ==
  ASSUME RoutedInv, Watch, NEW r \in Requests, UNCHANGED inventoryVars,
         request[r].stage \in {"resolved", "asking"}, NEW answer,
         Becomes(r, [request[r] EXCEPT !.stage = "verified", !.answer = answer]),
         answer # Nobody, answer \in HostIdentities[request[r].selected],
         answer = host[request[r].selected] \/ answer \in Fixed(request[r].selected)
  PROVE  RoutedInv'
<1> DEFINE q == request[r]
           verified == [q EXCEPT !.stage = "verified", !.answer = answer]
<1>1. InventoryInv'
  BY SameInventory DEF RoutedInv
<1>2. IsRequest(q) /\ q.selected \in Credentials /\ q.decision = since[r].policy
  BY DEF RoutedInv, RequestsOK, ChecksOK, CheckOK, InCheck
<1>3. /\ IsRequest(verified) /\ verified.stage = "verified" /\ verified.selected = q.selected
      /\ verified.decision = q.decision /\ verified.answer = answer
  <2> HIDE DEF q
  <2> QED
    BY ONLY <1>2, VerifiedRequest
<1>4. Becomes(r, verified)
  OBVIOUS
<1> HIDE DEF verified
<1>5. RequestsOK' /\ request'[r] = verified /\ \A o \in Requests \ {r} : request'[o] = request[o]
  BY <1>3, <1>4, BecomesRequest DEF RoutedInv
<1>6. /\ since'[r].policy = since[r].policy
      /\ host[q.selected] \in since'[r].identities
  BY <1>3, <1>5, Watched DEF InCheck
<1>7. CheckOK(request'[r], since'[r])
  BY <1>2, <1>3, <1>5, <1>6 DEF CheckOK
<1> QED
  BY <1>1, <1>5, <1>7, StepSuffices

LEMMA ReadIdentityInv ==
  ASSUME RoutedInv, Watch, NEW r \in Requests, ReadIdentity(r)
  PROVE  RoutedInv'
<1> DEFINE q == request[r]
           identity == identities[q.selected]
           asking == [q EXCEPT !.stage = "asking"]
<1>1. /\ IsRequest(q) /\ q.stage = "resolved" /\ q.selected \in Credentials
      /\ q.decision = since[r].policy
  BY DEF ReadIdentity, RoutedInv, RequestsOK, ChecksOK, CheckOK, InCheck
<1>2. CASE Trusted(identity) /\ identity.provider # ""
  <2>1. identity \in HostIdentities[q.selected] /\ identity \in Fixed(q.selected) /\ identity # Nobody
    BY <1>1, <1>2 DEF Trusted, Fixed, RoutedInv, InventoryInv, TrustedFromHost
  <2>2. Becomes(r, [q EXCEPT !.stage = "verified", !.answer = identity]) /\ UNCHANGED inventoryVars
    BY <1>2 DEF ReadIdentity
  <2> HIDE DEF identity
  <2> QED
    BY <1>1, <2>1, <2>2, VerifiedInv
<1>3. CASE ~Trusted(identity)
  <2>1. /\ IsRequest(asking) /\ asking.stage = "asking" /\ asking.selected = q.selected
        /\ asking.decision = q.decision
    <3> HIDE DEF q
    <3> QED
      BY <1>1, MovedRequest
  <2>2. Becomes(r, asking)
    BY <1>3 DEF ReadIdentity, Moves
  <2> HIDE DEF asking
  <2>3. RequestsOK' /\ request'[r] = asking /\ \A o \in Requests \ {r} : request'[o] = request[o]
    BY <2>1, <2>2, BecomesRequest DEF RoutedInv
  <2>4. since'[r].policy = since[r].policy
    BY <1>1, <2>1, <2>3, Watched DEF InCheck
  <2>5. CheckOK(request'[r], since'[r])
    BY <1>1, <2>1, <2>3, <2>4 DEF CheckOK
  <2>6. InventoryInv'
    BY SameInventory DEF RoutedInv, ReadIdentity
  <2> QED
    BY <2>3, <2>5, <2>6, StepSuffices
<1>4. CASE Trusted(identity) /\ identity.provider = ""
  <2>1. Conclude(r, pending, "unverified") /\ UNCHANGED inventoryVars
    BY <1>4 DEF ReadIdentity
  <2>2. InventoryInv'
    BY <2>1, SameInventory DEF RoutedInv
  <2> QED
    BY <2>1, <2>2, ConcludeInv
<1> QED
  BY <1>2, <1>3, <1>4

LEMMA HostAnswersInv ==
  ASSUME RoutedInv, Watch, NEW r \in Requests, HostAnswers(r)
  PROVE  RoutedInv'
<1>1. request[r].selected \in Credentials
  BY DEF HostAnswers, RoutedInv, ChecksOK, CheckOK, InCheck
<1>2. host[request[r].selected] \in HostIdentities[request[r].selected]
  BY <1>1 DEF HostAnswers, RoutedInv, InventoryInv
<1> QED
  BY <1>2, VerifiedInv DEF HostAnswers

LEMMA HostFailsInv ==
  ASSUME RoutedInv, Watch, NEW r \in Requests, HostFails(r)
  PROVE  RoutedInv'
<1>1. InventoryInv'
  BY SameInventory DEF RoutedInv, HostFails
<1> QED
  BY <1>1, ConcludeInv DEF HostFails

LEMMA VerdictInv ==
  ASSUME RoutedInv, Watch, NEW r \in Requests, Verdict(r)
  PROVE  RoutedInv'
<1>1. request[r].selected \in Credentials /\ request[r].answer \in HostIdentities[request[r].selected]
  BY DEF Verdict, RoutedInv, ChecksOK, CheckOK, InCheck
<1>2. InventoryInv'
  BY <1>1, RememberInventory DEF RoutedInv, Verdict
<1> QED
  BY <1>2, ConcludeInv DEF Verdict

LEMMA CompleteInv ==
  ASSUME RoutedInv, Watch, NEW r \in Requests, Complete(r)
  PROVE  RoutedInv'
<1>1. IsRequest(Idle) /\ Idle.stage = "idle"
  BY DEF Idle, IsRequest
<1>2. RequestsOK' /\ request'[r] = Idle /\ \A o \in Requests \ {r} : request'[o] = request[o]
  BY <1>1, BecomesRequest DEF Complete, RoutedInv
<1>3. CheckOK(request'[r], since'[r])
  BY <1>1, <1>2, NoCheckOK DEF InCheck
<1>4. InventoryInv'
  BY SameInventory DEF RoutedInv, Complete
<1> QED
  BY <1>2, <1>3, <1>4, StepSuffices

----------------------------------------------------------------------------
(* The inductive invariant *)

LEMMA OthersInv ==
  ASSUME RoutedInv, Watch, UNCHANGED request, InventoryInv'
  PROVE  RoutedInv'
<1>1. RequestsOK'
  BY DEF RoutedInv, RequestsOK
<1>2. \A r \in Requests : CheckOK(request'[r], since'[r])
  BY KeptCheck
<1> QED
  BY <1>1, <1>2 DEF RoutedInv, ChecksOK

LEMMA InitRoutedInv == Init => RoutedInv
<1> SUFFICES ASSUME Init PROVE RoutedInv
  OBVIOUS
<1>1. RequestsOK
  BY DEF Init, RequestsOK, Idle, IsRequest
<1>2. InventoryInv
  BY DEF Init, InventoryInit, InventoryInv, TrustedFromHost
<1>3. ChecksOK
  BY DEF Init, ChecksOK, CheckOK, InCheck, Idle
<1> QED
  BY <1>1, <1>2, <1>3 DEF RoutedInv

LEMMA NextRoutedInv == RoutedInv /\ [Next]_vars => RoutedInv'
<1> SUFFICES ASSUME RoutedInv, [Next]_vars PROVE RoutedInv'
  OBVIOUS
<1>1. ASSUME Watch, NEW r \in Requests, RequestStep(r) PROVE RoutedInv'
  BY <1>1, InterceptBeforeInv, PickInv, PickElsewhereInv, InterceptAfterInv, ReadIdentityInv,
     HostAnswersInv, HostFailsInv, VerdictInv, CompleteInv DEF RequestStep
<1>2. ASSUME Watch, InventoryNext, UNCHANGED request PROVE RoutedInv'
  BY <1>2, InventoryNextInv, OthersInv DEF RoutedInv
<1>3. ASSUME Watch, UNCHANGED inventoryVars, UNCHANGED request PROVE RoutedInv'
  BY <1>3, SameInventory, OthersInv DEF RoutedInv
<1>4. CASE UNCHANGED vars
  BY <1>4 DEF vars, inventoryVars, RoutedInv, RequestsOK, InventoryInv, TrustedFromHost, ChecksOK
<1> QED
  BY <1>1, <1>2, <1>3, <1>4 DEF Next

\* Every identity remembered as a configured credential's, and every identity and set of rules
\* a check holds, is one that was in force, through all requests, edits and changes of the host.
THEOREM RoutedInductive == Spec => []RoutedInv
BY InitRoutedInv, NextRoutedInv, PTL DEF Spec

----------------------------------------------------------------------------
(* What follows *)

\* What a check takes on trust has come from the host.
THEOREM TrustOnlyHost == Spec => []TrustedFromHost
<1>1. RoutedInv => TrustedFromHost
  BY DEF RoutedInv, InventoryInv
<1> QED
  BY <1>1, RoutedInductive, PTL

\* Only the verdict of a check sends a request on.
LEMMA VerdictAdmits ==
  ASSUME RoutedInv, Next, NEW r \in Requests, Admitted(r)
  PROVE  Verdict(r)
<1>1. request[r].stage = "verified" /\ request'[r].stage = "sent" /\ request'[r] # request[r]
  BY DEF Admitted
<1>2. PICK o \in Requests : RequestStep(o)
  BY <1>1 DEF Next
<1>3. CASE o = r
  BY <1>1, <1>2, <1>3 DEF RequestStep, InterceptBefore, Pick, PickElsewhere, InterceptAfter,
     ReadIdentity, HostAnswers, HostFails, Complete
<1>4. CASE o # r
  <2>1. \E changed : Becomes(o, changed)
    BY <1>2 DEF RequestStep, InterceptBefore, Pick, PickElsewhere, InterceptAfter, ReadIdentity,
       HostAnswers, HostFails, Verdict, Complete, Conclude, Select, Ends, Moves
  <2>2. request'[r] = request[r]
    BY <1>4, <2>1 DEF Becomes, RoutedInv, RequestsOK
  <2> QED
    BY <1>1, <2>2
<1> QED
  BY <1>3, <1>4

LEMMA AdmittedByRules ==
  ASSUME RoutedInv, Next, NEW r \in Requests, Admitted(r)
  PROVE  \E i \in (since[r].identities \cup Fixed(request[r].selected)) \ {Nobody} :
           AllowsCredential(since[r].policy, request[r].selected, i)
<1> DEFINE q == request[r]
<1>1. Verdict(r)
  BY VerdictAdmits
<1>2. /\ q.stage = "verified" /\ q.decision = since[r].policy /\ q.answer # Nobody
      /\ q.answer \in since[r].identities \cup Fixed(q.selected)
  BY <1>1 DEF Verdict, RoutedInv, ChecksOK, CheckOK, InCheck
<1>3. AllowsCredential(q.decision, q.selected, q.answer)
  <2> SUFFICES ASSUME ~AllowsCredential(q.decision, q.selected, q.answer) PROVE FALSE
    OBVIOUS
  <2>1. Ends(r, "refused", "deny")
    BY <1>1 DEF Verdict, Conclude
  <2>2. request'[r].stage = "refused"
    BY <2>1, EndedRequest DEF RoutedInv
  <2> QED
    BY <2>2 DEF Admitted
<1> QED
  BY <1>2, <1>3

\* Whatever is edited, replaced or remembered during a check, the request it admits was allowed
\* by the rules at its start for an identity the host gave the credential.
THEOREM AdmissionsAllowed == Spec => AdmittedWasAllowed
<1> DEFINE Allows == \A r \in Requests : Admitted(r) =>
             \E i \in (since[r].identities \cup Fixed(request[r].selected)) \ {Nobody} :
               AllowsCredential(since[r].policy, request[r].selected, i)
<1>1. RoutedInv /\ [Next]_vars => [Allows]_vars
  BY AdmittedByRules
<1> QED
  BY <1>1, RoutedInductive, PTL DEF Spec, AdmittedWasAllowed

\* Requests and the inventory leave the rules alone: what is proved of Routing holds here.
THEOREM RoutedImplementsRouting == Spec => RoutingSpec
<1>1. Init => RoutingInit
  BY DEF Init
<1>2. [Next]_vars => [RoutingNext]_routingVars
  BY DEF Next, vars, routingVars, RequestStep, InterceptBefore, Pick, PickElsewhere, InterceptAfter,
     ReadIdentity, HostAnswers, HostFails, Verdict, Complete
<1> QED
  BY <1>1, <1>2, PTL DEF Spec, RoutingSpec

\* So under requests, too, bindings resolve, restarts change no decision, denies win and deletions
\* do as announced.
THEOREM RulesKeptUnderRequests ==
  Spec => [](BindingsResolve /\ RestartKeepsDecisions /\ DenyWins) /\ DeleteAsAnnounced
BY RoutedImplementsRouting, BindingsAlwaysResolve, RestartsKeepDecisions, DenyAlwaysWins,
   DeletionsAsAnnounced, PTL
=============================================================================
