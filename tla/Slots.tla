------------------------------- MODULE Slots -------------------------------
(***************************************************************************)
(* Concurrency slots: AcquireSlot, AssignSlotCredential, ReleaseSlot and   *)
(* SetConcurrencyLimit of the store, and the interceptors that call them   *)
(* in the course of a request.                                             *)
(*                                                                         *)
(* A request passes through several calls of the host, and its slot must   *)
(* survive exactly as long: intercept_before reserves it, asks for quota   *)
(* in a second critical section and gives it back when that is refused;    *)
(* intercept_after names the credential, again on every retry; complete    *)
(* releases it.  The store keeps the slots twice, by request and counted   *)
(* by key, and in between the plugin may be closed and configured again.   *)
(*                                                                         *)
(* The host's request IDs are unique among the requests in flight.         *)
(***************************************************************************)
EXTENDS Naturals, FiniteSets

CONSTANTS
  Keys,         \* API key scopes
  Requests,     \* request IDs
  Credentials,  \* upstream credentials
  Limits,       \* concurrency limits an administrator uses, 0 for none
  Nil           \* no key, no credential

ASSUME SlotsAssumption ==
  /\ IsFiniteSet(Requests)
  /\ Limits \subseteq Nat /\ 0 \in Limits
  /\ Nil \notin Keys

VARIABLES
  limit,           \* ConcurrencyLimit of each key
  activeRequests,  \* the slot of each request, NoSlot for none
  activeByScope,   \* slots counted for each key, 0 for no entry
  request          \* where each request is, and whose it is

vars == <<limit, activeRequests, activeByScope, request>>

NoSlot == [scope |-> Nil, credential |-> Nil]

Idle == [stage |-> "idle", key |-> Nil]

InFlight(r, k, stage) == request' = [request EXCEPT ![r] = [stage |-> stage, key |-> k]]

Full(k) == limit[k] > 0 /\ activeByScope[k] >= limit[k]

AcquireSlot(r, k) ==
  /\ activeRequests' = [activeRequests EXCEPT ![r] = [NoSlot EXCEPT !.scope = k]]
  /\ activeByScope' = [activeByScope EXCEPT ![k] = @ + 1]

\* mutant of ReleaseSlot: the count of the key stays
ReleaseSlotOnly(r) ==
  /\ activeRequests' = [activeRequests EXCEPT ![r] = NoSlot]
  /\ UNCHANGED activeByScope

\* Releasing a request without a slot, or one forgotten by Close, does nothing.
ReleaseSlot(r) ==
  LET k == activeRequests[r].scope
  IN  /\ activeRequests' = [activeRequests EXCEPT ![r] = NoSlot]
      /\ activeByScope' = IF k = Nil THEN activeByScope
                          ELSE [activeByScope EXCEPT ![k] = IF @ > 1 THEN @ - 1 ELSE 0]

----------------------------------------------------------------------------
(* request.intercept_before *)

\* mutant of Reserve: one request too many
ReserveAbove(r, k) ==
  /\ request[r].stage = "idle"
  /\ limit[k] = 0 \/ activeByScope[k] <= limit[k]
  /\ AcquireSlot(r, k)
  /\ InFlight(r, k, "reserved")
  /\ UNCHANGED limit

\* A generating request takes a slot and goes on to ask for quota.
Reserve(r, k) ==
  /\ request[r].stage = "idle"
  /\ ~Full(k)
  /\ AcquireSlot(r, k)
  /\ InFlight(r, k, "reserved")
  /\ UNCHANGED limit

\* Its key is at its limit.
RefuseSlot(r, k) ==
  /\ request[r].stage = "idle"
  /\ Full(k)
  /\ InFlight(r, k, "refused")
  /\ UNCHANGED <<limit, activeRequests, activeByScope>>

\* Requests that do not generate, helper calls and those of a disabled plugin take none.
PassWithoutSlot(r, k) ==
  /\ request[r].stage = "idle"
  /\ InFlight(r, k, "running")
  /\ UNCHANGED <<limit, activeRequests, activeByScope>>

GrantQuota(r) ==
  /\ request[r].stage = "reserved"
  /\ InFlight(r, request[r].key, "running")
  /\ UNCHANGED <<limit, activeRequests, activeByScope>>

\* mutant of RefuseQuota: the slot is left to a completion that need not come
RefuseQuotaKeepSlot(r) ==
  /\ request[r].stage = "reserved"
  /\ InFlight(r, request[r].key, "refused")
  /\ UNCHANGED <<limit, activeRequests, activeByScope>>

\* A request refused for its quota gives its slot back at once.
RefuseQuota(r) ==
  /\ request[r].stage = "reserved"
  /\ ReleaseSlot(r)
  /\ InFlight(r, request[r].key, "refused")
  /\ UNCHANGED limit

----------------------------------------------------------------------------
(* The rest of a request *)

\* request.intercept_after, once for each credential tried
AssignSlotCredential(r, c) ==
  /\ request[r].stage = "running"
  /\ activeRequests' = [activeRequests EXCEPT ![r] =
                          IF @ = NoSlot THEN NoSlot ELSE [@ EXCEPT !.credential = c]]
  /\ UNCHANGED <<limit, activeByScope, request>>

\* mutant of Complete: a request is done, its slot is not
CompleteKeepSlot(r) ==
  /\ request[r].stage \in {"running", "refused"}
  /\ request' = [request EXCEPT ![r] = Idle]
  /\ UNCHANGED <<limit, activeRequests, activeByScope>>

\* request.complete, also of refused requests
Complete(r) ==
  /\ request[r].stage \in {"running", "refused"}
  /\ ReleaseSlot(r)
  /\ request' = [request EXCEPT ![r] = Idle]
  /\ UNCHANGED limit

----------------------------------------------------------------------------
(* Administration *)

\* An edit that is refused, or that cannot be saved, changes nothing.
SetConcurrencyLimit(k, n) ==
  /\ limit' = [limit EXCEPT ![k] = n]
  /\ UNCHANGED <<activeRequests, activeByScope, request>>

\* Another database brings its own limits; the slots stay.
Configure ==
  /\ limit' \in [Keys -> Limits]
  /\ UNCHANGED <<activeRequests, activeByScope, request>>

\* The plugin forgets its slots while the host still runs their requests.
Close ==
  /\ activeRequests' = [r \in Requests |-> NoSlot]
  /\ activeByScope' = [k \in Keys |-> 0]
  /\ UNCHANGED <<limit, request>>

----------------------------------------------------------------------------
(* Specification *)

Init ==
  /\ limit \in [Keys -> Limits]
  /\ activeRequests = [r \in Requests |-> NoSlot]
  /\ activeByScope = [k \in Keys |-> 0]
  /\ request = [r \in Requests |-> Idle]

RequestStep(r) ==
  \/ \E k \in Keys : Reserve(r, k) \/ RefuseSlot(r, k) \/ PassWithoutSlot(r, k)
  \/ GrantQuota(r)
  \/ RefuseQuota(r)
  \/ \E c \in Credentials : AssignSlotCredential(r, c)
  \/ Complete(r)

Next ==
  \/ \E r \in Requests : RequestStep(r)
  \/ \E k \in Keys, n \in Limits : SetConcurrencyLimit(k, n)
  \/ Configure
  \/ Close

Spec == Init /\ [][Next]_vars

\* A handler runs on, and the host completes every request it has begun.
Fairness == \A r \in Requests : WF_vars(GrantQuota(r) \/ RefuseQuota(r)) /\ WF_vars(Complete(r))

FairSpec == Spec /\ Fairness

----------------------------------------------------------------------------
(* Properties *)

Slot == [scope : Keys \cup {Nil}, credential : Credentials \cup {Nil}]

TypeOK ==
  /\ limit \in [Keys -> Limits]
  /\ activeRequests \in [Requests -> Slot]
  /\ activeByScope \in [Keys -> Nat]
  /\ request \in [Requests -> [stage : {"idle", "reserved", "running", "refused"}, key : Keys \cup {Nil}]]

Holders(k) == {r \in Requests : activeRequests[r].scope = k}

\* The two records of the slots agree: what AcquireSlot compares with the limit is the
\* number of requests that hold a slot of the key.
CountsHolders == \A k \in Keys : activeByScope[k] = Cardinality(Holders(k))

\* A slot belongs to a request of that key that is still in flight and was not
\* refused: whatever way a request ends, it leaves no slot behind.
HeldInFlight ==
  \A r \in Requests :
    IF activeRequests[r].scope = Nil THEN activeRequests[r] = NoSlot
    ELSE request[r].stage \in {"reserved", "running"} /\ request[r].key = activeRequests[r].scope

\* Slots are semaphores, one for each key.
Semaphore == INSTANCE Semaphores WITH holders <- [k \in Keys |-> Holders(k)]
SemaphoreSpec == Semaphore!Spec

\* Every slot is given back, so a key at its limit does not stay there.
SlotsReturn == \A r \in Requests : activeRequests[r] # NoSlot ~> activeRequests[r] = NoSlot

SlotInv == TypeOK /\ CountsHolders /\ HeldInFlight
=============================================================================
