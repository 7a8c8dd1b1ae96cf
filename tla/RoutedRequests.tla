--------------------------- MODULE RoutedRequests ---------------------------
(***************************************************************************)
(* Requests under routing rules: interceptBeforeAuth, pickCredential,      *)
(* interceptAfterAuth and completeRequest, with the rules of Routing and   *)
(* the credentials of Inventory changing under them.                       *)
(*                                                                         *)
(* A request asks for the rules of its key three times, at admission, when *)
(* a credential is picked and when one has been selected, by this plugin   *)
(* or by another.  The last check decides; it reads the rules, then the    *)
(* remembered identity of the credential, asks the host for it, writes it  *)
(* back, and all of that in critical sections of their own.                *)
(*                                                                         *)
(* A request under rules has an entry in a bounded table, from which its   *)
(* completion writes one line of the plugin's log.                         *)
(***************************************************************************)
EXTENDS Routing, Inventory, Sequences

CONSTANTS
  Requests,    \* request IDs, unique among those in flight
  MaxPending   \* maxPendingRouteLogs

ASSUME RoutedAssumption == MaxPending \in Nat \ {0}

VARIABLES
  request,  \* where each request is: see Idle
  pending,  \* entries of requests under rules, oldest first
  since,    \* history: the rules at the start of the current check, and every identity
            \* the host has given its credential since
  shown     \* history: credentials that a rule may name and that have been on display

vars == <<routingVars, inventoryVars, request, pending, since, shown>>

NoCheck == [policy |-> NoRule, identities |-> {}]

\* selected: the credential, Nobody for none; answer: its identity, once found; result of
\* the last check, or the shortfall for which no credential was picked
Idle == [stage |-> "idle", key |-> Nil, model |-> Nil, selected |-> Nobody,
         decision |-> NoRule, answer |-> Nobody, result |-> ""]

Becomes(r, changed) == request' = [request EXCEPT ![r] = changed]
Moves(r, stage) == Becomes(r, [request[r] EXCEPT !.stage = stage])
Ends(r, stage, result) == Becomes(r, [request[r] EXCEPT !.stage = stage, !.result = result,
                                        !.decision = NoRule, !.answer = Nobody])

----------------------------------------------------------------------------
(* The table of pending entries *)

HasEntry(r) == \E i \in DOMAIN pending : pending[i].request = r
Entry(r) == pending[CHOOSE i \in DOMAIN pending : pending[i].request = r]

NewEntry(r, decision, m) ==
  [request |-> r, modelDenied |-> ~AllowsModel(decision, m),
   restricted |-> RestrictsCredentials(decision), result |-> ""]

\* beginRouteLog: unrestricted requests have no entry, an entry is never replaced, and a
\* full table loses its oldest.
Begun(r, decision, m) ==
  IF decision = NoRule \/ HasEntry(r) THEN pending
  ELSE Append(IF Len(pending) >= MaxPending THEN Tail(pending) ELSE pending, NewEntry(r, decision, m))

\* observeRouteCredential
Observed(r, entries, result) ==
  [i \in DOMAIN entries |->
     IF entries[i].request = r
       THEN [entries[i] EXCEPT !.result = result, !.restricted = result # "unrestricted"]
       ELSE entries[i]]

\* routingShortfalls: why no credential was picked, as the host can tell
Shortfalls == {"unavailable", "no_credential", "no_match"}

\* The credential's part of the line that finishRouteLog writes.
Row(r) ==
  IF Entry(r).modelDenied THEN "not_reached"
  ELSE IF ~Entry(r).restricted THEN "unrestricted"
  ELSE IF Entry(r).result # "" THEN Entry(r).result
  ELSE IF request[r].result \in Shortfalls THEN request[r].result ELSE "not_observed"

----------------------------------------------------------------------------
(* request.intercept_before *)

\* The rules admit the model, or refuse the request before it asks for a slot or quota.
InterceptBefore(r, k, m) ==
  LET decision == Decision(k)
  IN  /\ request[r].stage = "idle"
      /\ Becomes(r, [Idle EXCEPT !.stage = IF AllowsModel(decision, m) THEN "running" ELSE "refused",
                                 !.key = k, !.model = m])
      /\ pending' = Begun(r, decision, m)
      /\ UNCHANGED <<routingVars, inventoryVars>>

----------------------------------------------------------------------------
(* scheduler.pick, again after each failed attempt *)

Allowed(offered, decision) ==
  {c \in DOMAIN offered : AllowsCredential(decision, c, offered[c])}

Select(r, c) == Becomes(r, [request[r] EXCEPT !.stage = "selected", !.selected = c])

\* Without rules for credentials the host picks; of several that are allowed the scheduler
\* picks any (Scheduler says which).  It picks none if none is allowed, or if their weights
\* are all zero.
Pick(r, offered) ==
  LET decision == Decision(request[r].key)
  IN  /\ request[r].stage \in {"running", "sent"}
      /\ ObserveCandidates(offered)
      /\ IF ~RestrictsCredentials(decision) THEN \E c \in DOMAIN offered : Select(r, c)
         ELSE \/ \E c \in Allowed(offered, decision) : Select(r, c)
              \/ \E shortfall \in Shortfalls : Ends(r, "refused", shortfall)
      /\ UNCHANGED <<routingVars, pending>>

\* Another plugin's scheduler made the selection.
PickElsewhere(r, c) ==
  /\ request[r].stage \in {"running", "sent"}
  /\ host[c] # Nobody
  /\ Select(r, c)
  /\ UNCHANGED <<routingVars, inventoryVars, pending>>

----------------------------------------------------------------------------
(* request.intercept_after and selectedCredentialAllowed *)

Refuses(decision, c) ==
  \/ c \in decision["credentials"].deny
  \/ /\ decision["selectors"].allow = {}
     /\ decision["credentials"].allow # {}
     /\ c \notin decision["credentials"].allow

NeedsNoIdentity(decision, c) ==
  decision["selectors"].deny = {} /\ AllowsCredential(decision, c, [source |-> "", provider |-> ""])

\* The check ends: the request goes to its credential or is refused.
Conclude(r, entries, result) ==
  /\ Ends(r, IF result \in {"allow", "unrestricted"} THEN "sent" ELSE "refused", result)
  /\ pending' = Observed(r, entries, result)

\* The rules are read again; the ID alone may decide, and has to be reported.
InterceptAfter(r) ==
  LET decision == Decision(request[r].key)
      c == request[r].selected
      entries == Begun(r, decision, request[r].model)
  IN  /\ request[r].stage = "selected"
      /\ IF ~RestrictsCredentials(decision) THEN Conclude(r, entries, "unrestricted")
         ELSE \/ Conclude(r, entries, "unverified")
              \/ IF Refuses(decision, c) THEN Conclude(r, entries, "deny")
                 ELSE IF NeedsNoIdentity(decision, c) THEN Conclude(r, entries, "allow")
                 ELSE /\ Becomes(r, [request[r] EXCEPT !.stage = "resolved", !.decision = decision])
                      /\ pending' = entries
      /\ UNCHANGED <<routingVars, inventoryVars>>

\* mutant of Trusted: an auth file is taken for what it was
TrustedAlways(identity) == identity # Nobody

\* Only a configured credential is what it was when the host last named it.
Trusted(identity) == identity # Nobody /\ identity.source = Config

\* The host is asked unless the identity is trusted, which is of no use without a provider.
ReadIdentity(r) ==
  LET identity == identities[request[r].selected]
  IN  /\ request[r].stage = "resolved"
      /\ IF ~Trusted(identity) THEN Moves(r, "asking") /\ UNCHANGED pending
         ELSE IF identity.provider = "" THEN Conclude(r, pending, "unverified")
         ELSE /\ Becomes(r, [request[r] EXCEPT !.stage = "verified", !.answer = identity])
              /\ UNCHANGED pending
      /\ UNCHANGED <<routingVars, inventoryVars>>

\* host.auth.get_runtime, with no lock held
HostAnswers(r) ==
  /\ request[r].stage = "asking"
  /\ host[request[r].selected] # Nobody
  /\ Becomes(r, [request[r] EXCEPT !.stage = "verified", !.answer = host[request[r].selected]])
  /\ UNCHANGED <<routingVars, inventoryVars, pending>>

\* The host cannot answer, answers for another credential, or does not tell its source or
\* its provider.
HostFails(r) ==
  /\ request[r].stage = "asking"
  /\ Conclude(r, pending, "unverified")
  /\ UNCHANGED <<routingVars, inventoryVars>>

Verdict(r) ==
  LET q == request[r]
  IN  /\ q.stage = "verified"
      /\ RememberIdentity(q.selected, q.answer)
      /\ Conclude(r, pending, IF AllowsCredential(q.decision, q.selected, q.answer) THEN "allow" ELSE "deny")
      /\ UNCHANGED routingVars

----------------------------------------------------------------------------
(* request.complete *)

\* Between the calls of the host a request may be cancelled at any time.
Complete(r) ==
  /\ request[r].stage \in {"running", "selected", "sent", "refused"}
  /\ Becomes(r, Idle)
  /\ pending' = SelectSeq(pending, LAMBDA entry : entry.request # r)
  /\ UNCHANGED <<routingVars, inventoryVars>>

----------------------------------------------------------------------------
(* Specification *)

RequestStep(r) ==
  \/ \E k \in Keys, m \in Models \cup {Nil} : InterceptBefore(r, k, m)
  \/ \E offered \in Offers : Pick(r, offered)
  \/ \E c \in Credentials : PickElsewhere(r, c)
  \/ InterceptAfter(r)
  \/ ReadIdentity(r)
  \/ HostAnswers(r)
  \/ HostFails(r)
  \/ Verdict(r)
  \/ Complete(r)

Init ==
  /\ RoutingInit /\ InventoryInit
  /\ request = [r \in Requests |-> Idle]
  /\ pending = <<>>
  /\ since = [r \in Requests |-> NoCheck]
  /\ shown = {}

RefsOf(rule) == IF rule = Nil THEN {} ELSE rule["credentials"].allow \cup rule["credentials"].deny

Named == UNION {RefsOf(rule) : rule \in Rules}

\* A check runs from the step that reads the rules to the one that concludes.
Checking(r) == request'[r].stage \in {"resolved", "asking", "verified"}

Watch ==
  /\ shown' = shown \cup (Displayed' \cap Named)
  /\ since' = [r \in Requests |->
                IF ~Checking(r) THEN NoCheck
                ELSE [policy |-> IF request[r].stage = "selected" THEN Decision(request[r].key) ELSE since[r].policy,
                      identities |-> since[r].identities \cup {host[request[r].selected]} \cup {host'[request[r].selected]}]]

\* createRoute, updateRoute and setKeyRoutes read the credentials a rule names, refresh the
\* inventory and look up those that are new (validateNewCredentialRefs), all before the lock
\* of the edit: by then they may be gone again.
NewRefsShown ==
  /\ \A id \in RouteIDs : RefsOf(routes'[id]) \ RefsOf(routes[id]) \subseteq shown
  /\ \A k \in Keys : RefsOf(bindings'[k].own) \ RefsOf(bindings[k].own) \subseteq shown

Next ==
  /\ \/ \E r \in Requests : RequestStep(r)
     \/ InventoryNext /\ UNCHANGED <<routingVars, request, pending>>
     \/ RoutingNext /\ NewRefsShown /\ UNCHANGED <<inventoryVars, request, pending>>
  /\ Watch

Spec == Init /\ [][Next]_vars

----------------------------------------------------------------------------
(* Properties *)

\* What may be known of a credential.
KnownIdentities ==
  UNION {Told(i) : i \in UNION {HostIdentities[c] : c \in Credentials} \ {Nobody}} \cup {[source |-> "", provider |-> ""]}

\* The rules of a key decide together as they would one by one: a deny in any of them wins,
\* by name, by credential or by what is known of the credential, and once one of them has an
\* allow list some rule must allow what is used, a credential in either of two ways.  So an
\* allow list stays a restriction even when all of it is denied.
DenyWins ==
  \A k \in Keys : Known(k) =>
    LET rules == RulesOf(routes, bindings[k])
    IN  /\ \A m \in Models :
             AllowsModel(Decision(k), m) <=>
               /\ \A rule \in rules : m \notin rule["models"].deny
               /\ \/ \A rule \in rules : rule["models"].allow = {}
                  \/ \E rule \in rules : m \in rule["models"].allow
        /\ \A c \in Credentials, known \in KnownIdentities :
             AllowsCredential(Decision(k), c, known) <=>
               /\ \A rule \in rules : /\ c \notin rule["credentials"].deny
                                      /\ ~\E s \in rule["selectors"].deny : MayMatch(known, s)
               /\ \/ \A rule \in rules : rule["credentials"].allow = {} /\ rule["selectors"].allow = {}
                  \/ \E rule \in rules : c \in rule["credentials"].allow \/ known \in rule["selectors"].allow

Admitted(r) == request[r].stage = "verified" /\ request'[r].stage = "sent"

\* The identities a credential has for good.
Fixed(c) == {i \in HostIdentities[c] : i # Nobody /\ i.source = Config}

\* A request goes to a credential that needed an identity only if the rules in force when
\* the check began allow it for an identity that the host gave it during the check or
\* gives it for good, whatever was edited, replaced or remembered meanwhile.
AdmittedWasAllowed ==
  [][\A r \in Requests : Admitted(r) =>
       \E i \in (since[r].identities \cup Fixed(request[r].selected)) \ {Nobody} :
         AllowsCredential(since[r].policy, request[r].selected, i)]_vars

\* The log says "selection not reached" only of requests no credential was selected for:
\* what the panel shows for the line a request would leave if it completed now.
NotReachedUnselected ==
  \A r \in Requests :
    HasEntry(r) /\ request[r].stage \in {"running", "selected", "sent", "refused"} /\ Row(r) = "not_reached"
      => request[r].selected = Nobody
=============================================================================
