----------------------------- MODULE Semaphores -----------------------------
(***************************************************************************)
(* What concurrency limits promise: each key is a counting semaphore whose *)
(* size may change at any time.  Nobody joins a full semaphore; whoever is *)
(* inside when it shrinks stays.                                           *)
(***************************************************************************)
EXTENDS Naturals, FiniteSets

CONSTANTS
  Keys,       \* the semaphores
  Requests,   \* who holds them
  Limits      \* their sizes, 0 for unlimited

VARIABLES
  limit,      \* of each key
  holders     \* the requests that hold each key

vars == <<limit, holders>>

Init ==
  /\ limit \in [Keys -> Limits]
  /\ holders = [k \in Keys |-> {}]

Full(k) == limit[k] > 0 /\ Cardinality(holders[k]) >= limit[k]

Acquire(k, r) ==
  /\ \A other \in Keys : r \notin holders[other]
  /\ ~Full(k)
  /\ holders' = [holders EXCEPT ![k] = @ \cup {r}]
  /\ UNCHANGED limit

Release(k, r) ==
  /\ r \in holders[k]
  /\ holders' = [holders EXCEPT ![k] = @ \ {r}]
  /\ UNCHANGED limit

\* Any change of the limits leaves the holders alone.
Resize ==
  /\ limit' \in [Keys -> Limits]
  /\ UNCHANGED holders

\* The plugin was closed: it forgets who is inside.
Forget ==
  /\ holders' = [k \in Keys |-> {}]
  /\ UNCHANGED limit

Next ==
  \/ \E k \in Keys, r \in Requests : Acquire(k, r) \/ Release(k, r)
  \/ Resize
  \/ Forget

Spec == Init /\ [][Next]_vars
=============================================================================
