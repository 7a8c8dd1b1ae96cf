-------------------------- MODULE MCRoutedRequests --------------------------
(* Instances of RoutedRequests for TLC. *)
EXTENDS RoutedRequests, TLC

CONSTANTS k1, k2, file, configured1, p1, p2, m1, m2

FileAt(p) == [source |-> Files, provider |-> p]
ConfiguredAt(p) == [source |-> Config, provider |-> p]

\* The auth file changes its provider, the configured credential has one for good.
MCHostIdentities ==
  (file :> {FileAt(p1), FileAt(p2), Nobody}) @@ (configured1 :> {ConfiguredAt(p1), Nobody})

Rule(d, allow, deny) == [NoRule EXCEPT ![d] = [allow |-> allow, deny |-> deny]]

DenyByName == Rule("credentials", {}, {configured1})

\* No rule, rules for models and one that is not valid, and rules for credentials.
MCRules ==
  {NoRule, DenyByName, Rule("models", {m1}, {}), Rule("models", {}, {m1}), Rule("models", {m1}, {m1}),
   Rule("selectors", {FileAt(p1)}, {}), Rule("selectors", {}, {FileAt(p1)}),
   [Rule("selectors", {FileAt(p2)}, {}) EXCEPT !["credentials"].allow = {configured1}]}

ModelRules == {NoRule, Rule("models", {m1}, {}), Rule("models", {}, {m1})}

\* Rules of all kinds before the first request and without credentials of the host; or none
\* but a key's own, for one key, and everything that happens to its requests.
Bounded ==
  \/ /\ \A r \in Requests : request[r] = Idle
     /\ view[file] = "" /\ \A c \in Credentials : host[c] = Nobody /\ identities[c] = Nobody
  \/ /\ routes = [id \in RouteIDs |-> Nil]
     /\ bindings[k1].own # Rule("selectors", {FileAt(p1)}, {})
     /\ \A k \in Keys \ {k1} : bindings[k] = Unbound /\ ~Known(k)
     /\ configured \subseteq {configured1}
     /\ identities[file] # Nobody => identities[file].provider # ""
     /\ status[k1] = "config" /\ ~RestrictsModels(bindings[k1].own)
     /\ shown = Named \/ \A r \in Requests : request[r] = Idle
     /\ bindings[k1].own = DenyByName => \A c \in Credentials : identities[c] = Nobody
     /\ \A r \in Requests :
          /\ request[r].key \in {k1, Nil} /\ request[r].model \in {m1, Nil}
          /\ request[r].stage # "idle" /\ request[r].model = Nil => request[r].stage = "running"
          /\ request[r].result \in Shortfalls => request[r].result = "no_match"

\* Steps out of bounds are not taken.
BoundedSpec == Init /\ [][Next /\ Bounded']_vars
=============================================================================
