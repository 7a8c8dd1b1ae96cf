---------------------------- MODULE SlotsProofs ----------------------------
(***************************************************************************)
(* For any number of keys, requests and limits: the count of a key is the  *)
(* number of its requests that hold a slot, slots are held by requests in  *)
(* flight alone, and each key is a counting semaphore.                     *)
(***************************************************************************)
EXTENDS Slots, FiniteSetTheorems, TLAPS

----------------------------------------------------------------------------
(* What taking and releasing a slot do to the sets of holders *)

\* The requests that hold slots of a key can be counted.
LEMMA HoldersFinite ==
  ASSUME NEW k \in Keys
  PROVE  IsFiniteSet(Holders(k)) /\ Cardinality(Holders(k)) \in Nat
<1>1. Holders(k) \in SUBSET Requests
  BY DEF Holders
<1> QED
  BY <1>1, FS_Subset, FS_CardinalityType, SlotsAssumption

\* A request without a slot holds no key.
LEMMA NoSlotHoldsNothing ==
  ASSUME NEW r \in Requests, activeRequests[r] = NoSlot, NEW k \in Keys
  PROVE  r \notin Holders(k)
BY SlotsAssumption DEF Holders, NoSlot

\* Taking a slot adds the request to the holders of its key and to no others.
LEMMA AcquireHolders ==
  ASSUME TypeOK, NEW r \in Requests, NEW k \in Keys,
         activeRequests[r] = NoSlot, AcquireSlot(r, k)
  PROVE  \A j \in Keys : Holders(j)' = IF j = k THEN Holders(j) \cup {r} ELSE Holders(j)
<1>1. \A q \in Requests : activeRequests'[q].scope = IF q = r THEN k ELSE activeRequests[q].scope
  BY DEF TypeOK, AcquireSlot, NoSlot
<1>2. activeRequests[r].scope = Nil
  BY DEF NoSlot
<1> QED
  BY <1>1, <1>2, SlotsAssumption DEF Holders

\* Releasing removes the request from the holders of its key.
LEMMA ReleaseHolders ==
  ASSUME TypeOK, NEW r \in Requests, ReleaseSlot(r)
  PROVE  \A j \in Keys : Holders(j)' = Holders(j) \ {r}
<1>1. \A q \in Requests : activeRequests'[q].scope = IF q = r THEN Nil ELSE activeRequests[q].scope
  BY DEF TypeOK, ReleaseSlot, NoSlot
<1> QED
  BY <1>1, SlotsAssumption DEF Holders

\* Taking a slot keeps the two records in agreement.
LEMMA AcquireCounts ==
  ASSUME TypeOK, CountsHolders, NEW r \in Requests, NEW k \in Keys,
         activeRequests[r] = NoSlot, AcquireSlot(r, k)
  PROVE  CountsHolders'
<1> SUFFICES ASSUME NEW j \in Keys
             PROVE  activeByScope'[j] = Cardinality(Holders(j)')
  BY DEF CountsHolders
<1>1. Holders(j)' = IF j = k THEN Holders(j) \cup {r} ELSE Holders(j)
  BY AcquireHolders
<1>2. activeByScope'[j] = IF j = k THEN activeByScope[j] + 1 ELSE activeByScope[j]
  BY DEF TypeOK, AcquireSlot
<1>3. activeByScope[j] = Cardinality(Holders(j))
  BY DEF CountsHolders
<1>4. Cardinality(Holders(j) \cup {r}) = Cardinality(Holders(j)) + 1
  BY HoldersFinite, NoSlotHoldsNothing, FS_AddElement
<1> QED
  BY <1>1, <1>2, <1>3, <1>4

\* So does releasing one.
LEMMA ReleaseCounts ==
  ASSUME TypeOK, CountsHolders, NEW r \in Requests, ReleaseSlot(r)
  PROVE  CountsHolders'
<1> SUFFICES ASSUME NEW j \in Keys
             PROVE  activeByScope'[j] = Cardinality(Holders(j)')
  BY DEF CountsHolders
<1> DEFINE k == activeRequests[r].scope
<1>1. Holders(j)' = Holders(j) \ {r}
  BY ReleaseHolders
<1>2. activeByScope[j] = Cardinality(Holders(j)) /\ activeByScope[j] \in Nat
  BY DEF CountsHolders, TypeOK
<1>3. Cardinality(Holders(j) \ {r}) =
        IF r \in Holders(j) THEN Cardinality(Holders(j)) - 1 ELSE Cardinality(Holders(j))
  BY HoldersFinite, FS_RemoveElement
<1>4. r \in Holders(j) <=> k = j
  BY DEF Holders
<1>5. CASE k = j
  <2>1. activeByScope'[j] = IF activeByScope[j] > 1 THEN activeByScope[j] - 1 ELSE 0
    BY <1>5, SlotsAssumption DEF ReleaseSlot, TypeOK
  <2>2. activeByScope[j] >= 1
    <3>1. Cardinality(Holders(j)) # 0
      BY <1>4, <1>5, HoldersFinite, FS_EmptySet
    <3> QED
      BY <1>2, <3>1
  <2> QED
    BY <1>1, <1>2, <1>3, <1>4, <1>5, <2>1, <2>2
<1>6. CASE k # j
  <2>1. activeByScope'[j] = activeByScope[j]
    BY <1>6 DEF ReleaseSlot, TypeOK
  <2> QED
    BY <1>1, <1>2, <1>3, <1>4, <1>6, <2>1
<1> QED
  BY <1>5, <1>6
----------------------------------------------------------------------------
(* The inductive invariant *)

\* A step of a request that leaves its slot alone and moves it from a stage to the
\* next keeps the invariant, as long as a slot is not taken to an end.
LEMMA StageInv ==
  ASSUME SlotInv, NEW r \in Requests, NEW k \in Keys \cup {Nil},
         NEW stage \in {"running", "refused"},
         InFlight(r, k, stage), UNCHANGED <<limit, activeRequests, activeByScope>>,
         activeRequests[r] # NoSlot => k = request[r].key /\ stage = "running"
  PROVE  SlotInv'
<1>1. TypeOK'
  BY DEF SlotInv, TypeOK, InFlight
<1>2. CountsHolders'
  BY DEF SlotInv, CountsHolders, Holders
<1>3. HeldInFlight'
  <2> SUFFICES ASSUME NEW q \in Requests, activeRequests[q].scope # Nil
               PROVE  /\ request'[q].stage \in {"reserved", "running"}
                      /\ request'[q].key = activeRequests[q].scope
    BY DEF SlotInv, HeldInFlight
  <2>1. CASE q = r
    BY <2>1, SlotsAssumption DEF SlotInv, TypeOK, HeldInFlight, InFlight, NoSlot
  <2>2. CASE q # r
    BY <2>2 DEF SlotInv, TypeOK, HeldInFlight, InFlight
  <2> QED
    BY <2>1, <2>2
<1> QED
  BY <1>1, <1>2, <1>3 DEF SlotInv

\* A request that releases its slot may go anywhere.
LEMMA ReleaseInv ==
  ASSUME SlotInv, NEW r \in Requests, ReleaseSlot(r), UNCHANGED limit,
         NEW q \in [stage : {"idle", "refused"}, key : Keys \cup {Nil}],
         request' = [request EXCEPT ![r] = q]
  PROVE  SlotInv'
<1>1. TypeOK'
  <2>1. activeRequests' \in [Requests -> Slot]
    BY DEF SlotInv, TypeOK, ReleaseSlot, NoSlot, Slot
  <2>2. activeByScope' \in [Keys -> Nat]
    <3>1. CASE activeRequests[r].scope = Nil
      BY <3>1 DEF SlotInv, TypeOK, ReleaseSlot
    <3>2. CASE activeRequests[r].scope # Nil
      <4> DEFINE n == activeByScope[activeRequests[r].scope]
      <4>1. activeRequests[r].scope \in Keys
        BY <3>2 DEF SlotInv, TypeOK, Slot
      <4>2. (IF n > 1 THEN n - 1 ELSE 0) \in Nat
        BY <4>1 DEF SlotInv, TypeOK
      <4> QED
        BY <3>2, <4>2 DEF SlotInv, TypeOK, ReleaseSlot
    <3> QED
      BY <3>1, <3>2
  <2>3. request' \in [Requests -> [stage : {"idle", "reserved", "running", "refused"}, key : Keys \cup {Nil}]]
    BY DEF SlotInv, TypeOK
  <2> QED
    BY <2>1, <2>2, <2>3 DEF SlotInv, TypeOK
<1>2. CountsHolders'
  BY ReleaseCounts DEF SlotInv
<1>3. HeldInFlight'
  <2> SUFFICES ASSUME NEW o \in Requests
               PROVE  HeldInFlight!(o)'
    BY DEF HeldInFlight
  <2>1. CASE o = r
    BY <2>1 DEF SlotInv, TypeOK, ReleaseSlot, NoSlot
  <2>2. CASE o # r
    <3>1. activeRequests'[o] = activeRequests[o] /\ request'[o] = request[o]
      BY <2>2 DEF SlotInv, TypeOK, ReleaseSlot
    <3> QED
      BY <3>1 DEF SlotInv, HeldInFlight
  <2> QED
    BY <2>1, <2>2
<1> QED
  BY <1>1, <1>2, <1>3 DEF SlotInv

\* Every step of a request keeps the invariant.
LEMMA RequestInv ==
  ASSUME SlotInv, NEW r \in Requests, RequestStep(r)
  PROVE  SlotInv'
<1>1. ASSUME NEW k \in Keys, Reserve(r, k)
      PROVE  SlotInv'
  <2>1. activeRequests[r] = NoSlot
    BY <1>1 DEF SlotInv, HeldInFlight, Reserve
  <2>2. TypeOK'
    BY <1>1 DEF SlotInv, TypeOK, Reserve, AcquireSlot, InFlight, NoSlot, Slot
  <2>3. CountsHolders'
    BY <1>1, <2>1, AcquireCounts DEF SlotInv, Reserve
  <2>4. HeldInFlight'
    BY <1>1, SlotsAssumption DEF SlotInv, TypeOK, HeldInFlight, Reserve, AcquireSlot, InFlight, NoSlot
  <2> QED
    BY <2>2, <2>3, <2>4 DEF SlotInv
<1>2. ASSUME NEW k \in Keys, RefuseSlot(r, k) \/ PassWithoutSlot(r, k)
      PROVE  SlotInv'
  <2>1. activeRequests[r] = NoSlot
    BY <1>2 DEF SlotInv, HeldInFlight, RefuseSlot, PassWithoutSlot
  <2> QED
    BY <1>2, <2>1, StageInv DEF RefuseSlot, PassWithoutSlot
<1>3. CASE GrantQuota(r)
  <2>1. request[r].key \in Keys \cup {Nil}
    BY DEF SlotInv, TypeOK
  <2> QED
    BY <1>3, <2>1, StageInv DEF GrantQuota
<1>4. CASE RefuseQuota(r)
  <2>1. [stage |-> "refused", key |-> request[r].key] \in [stage : {"idle", "refused"}, key : Keys \cup {Nil}]
    BY DEF SlotInv, TypeOK
  <2> QED
    BY <1>4, <2>1, ReleaseInv DEF RefuseQuota, InFlight
<1>5. ASSUME NEW c \in Credentials, AssignSlotCredential(r, c)
      PROVE  SlotInv'
  <2>1. \A q \in Requests : /\ activeRequests'[q].scope = activeRequests[q].scope
                            /\ activeRequests[q] = NoSlot => activeRequests'[q] = NoSlot
                            /\ activeRequests'[q] \in Slot
    BY <1>5 DEF SlotInv, TypeOK, AssignSlotCredential, NoSlot, Slot
  <2>2. TypeOK'
    BY <1>5, <2>1 DEF SlotInv, TypeOK, AssignSlotCredential
  <2>3. CountsHolders'
    BY <1>5, <2>1 DEF SlotInv, CountsHolders, Holders, AssignSlotCredential
  <2>4. HeldInFlight'
    BY <1>5, <2>1 DEF SlotInv, HeldInFlight, AssignSlotCredential
  <2> QED
    BY <2>2, <2>3, <2>4 DEF SlotInv
<1>6. CASE Complete(r)
  <2>1. Idle \in [stage : {"idle", "refused"}, key : Keys \cup {Nil}]
    BY DEF Idle
  <2> QED
    BY <1>6, <2>1, ReleaseInv DEF Complete
<1> QED
  BY <1>1, <1>2, <1>3, <1>4, <1>5, <1>6 DEF RequestStep

\* No slot is held at first.
LEMMA InitSlots == Init => SlotInv
<1> SUFFICES ASSUME Init PROVE SlotInv
  OBVIOUS
<1>1. TypeOK /\ HeldInFlight
  BY DEF Init, TypeOK, HeldInFlight, NoSlot, Slot, Idle
<1>2. CountsHolders
  <2>1. \A k \in Keys : Holders(k) = {}
    BY SlotsAssumption DEF Init, Holders, NoSlot
  <2> QED
    BY <2>1, FS_EmptySet DEF Init, CountsHolders
<1> QED
  BY <1>1, <1>2 DEF SlotInv

\* Closing the plugin keeps the invariant: both records are emptied.
LEMMA CloseInv == SlotInv /\ Close => SlotInv'
<1> SUFFICES ASSUME SlotInv, Close PROVE SlotInv'
  OBVIOUS
<1>1. TypeOK' /\ HeldInFlight'
  BY DEF SlotInv, Close, TypeOK, HeldInFlight, NoSlot, Slot
<1>2. CountsHolders'
  <2>1. \A k \in Keys : Holders(k)' = {}
    BY SlotsAssumption DEF Close, Holders, NoSlot
  <2> QED
    BY <2>1, FS_EmptySet DEF Close, CountsHolders
<1> QED
  BY <1>1, <1>2 DEF SlotInv

\* Every step keeps the invariant.
LEMMA NextSlots == SlotInv /\ [Next]_vars => SlotInv'
<1> SUFFICES ASSUME SlotInv, [Next]_vars PROVE SlotInv'
  OBVIOUS
<1>1. ASSUME NEW r \in Requests, RequestStep(r)
      PROVE  SlotInv'
  BY <1>1, RequestInv
<1>2. ASSUME limit' \in [Keys -> Limits], UNCHANGED <<activeRequests, activeByScope, request>>
      PROVE  SlotInv'
  BY <1>2 DEF SlotInv, TypeOK, CountsHolders, Holders, HeldInFlight
<1>3. ASSUME NEW k \in Keys, NEW n \in Limits, SetConcurrencyLimit(k, n)
      PROVE  SlotInv'
  BY <1>2, <1>3 DEF SetConcurrencyLimit, SlotInv, TypeOK
<1>4. CASE Configure
  BY <1>2, <1>4 DEF Configure
<1>5. CASE Close
  BY <1>5, CloseInv
<1>6. CASE UNCHANGED vars
  BY <1>6 DEF vars, SlotInv, TypeOK, CountsHolders, Holders, HeldInFlight
<1> QED
  BY <1>1, <1>3, <1>4, <1>5, <1>6 DEF Next

\* The invariant of the slots, which the three results below rest on.
THEOREM SlotsInductive == Spec => []SlotInv
<1>1. SlotInv /\ [Next]_vars => SlotInv'
  BY NextSlots
<1> QED
  BY <1>1, InitSlots, PTL DEF Spec

\* What AcquireSlot compares with the limit is the number of slots of the key.
THEOREM SlotsCounted == Spec => []CountsHolders
BY SlotsInductive, PTL DEF SlotInv

\* No request that is over or was refused holds a slot.
THEOREM NoSlotLeft == Spec => []HeldInFlight
BY SlotsInductive, PTL DEF SlotInv
----------------------------------------------------------------------------
(* Slots implement semaphores *)

\* A key is full exactly when its semaphore is.
LEMMA FullIsFull ==
  ASSUME SlotInv, NEW k \in Keys
  PROVE  Full(k) <=> Semaphore!Full(k)
<1>1. Semaphore!Cardinality(Holders(k)) = Cardinality(Holders(k))
  BY DEF Semaphore!Cardinality, Cardinality
<1> QED
  BY <1>1 DEF SlotInv, CountsHolders, Full, Semaphore!Full

\* A released slot is a released semaphore, and a request without one stutters.
LEMMA ReleaseRefines ==
  ASSUME SlotInv, NEW r \in Requests, ReleaseSlot(r), UNCHANGED limit
  PROVE  [Semaphore!Next]_Semaphore!vars
<1> DEFINE k == activeRequests[r].scope
<1>1. \A j \in Keys : Holders(j)' = Holders(j) \ {r}
  BY ReleaseHolders DEF SlotInv
<1>2. \A j \in Keys : r \in Holders(j) <=> k = j
  BY DEF Holders
<1>3. CASE k = Nil
  <2>1. \A j \in Keys : Holders(j)' = Holders(j)
    BY <1>1, <1>2, <1>3, SlotsAssumption
  <2> QED
    BY <2>1 DEF Semaphore!vars
<1>4. CASE k # Nil
  <2>1. k \in Keys
    BY <1>4 DEF SlotInv, TypeOK, Slot
  <2>2. [j \in Keys |-> Holders(j)]' = [[j \in Keys |-> Holders(j)] EXCEPT ![k] = @ \ {r}]
    <3>1. \A j \in Keys : Holders(j)' = IF j = k THEN Holders(j) \ {r} ELSE Holders(j)
      BY <1>1, <1>2
    <3> QED
      BY <2>1, <3>1
  <2>3. Semaphore!Release(k, r)
    BY <1>2, <2>1, <2>2 DEF Semaphore!Release
  <2> QED
    BY <2>1, <2>3 DEF Semaphore!Next
<1> QED
  BY <1>3, <1>4

\* Every step of Slots is a step of the semaphores or none.
LEMMA StepRefines == SlotInv /\ [Next]_vars => [Semaphore!Next]_Semaphore!vars
<1> SUFFICES ASSUME SlotInv, [Next]_vars PROVE [Semaphore!Next]_Semaphore!vars
  OBVIOUS
<1>1. ASSUME UNCHANGED <<limit, activeRequests>>
      PROVE  [Semaphore!Next]_Semaphore!vars
  BY <1>1 DEF Semaphore!vars, Holders
<1>2. ASSUME limit' \in [Keys -> Limits], UNCHANGED activeRequests
      PROVE  [Semaphore!Next]_Semaphore!vars
  BY <1>2 DEF Semaphore!Next, Semaphore!Resize, Holders
<1>3. ASSUME NEW r \in Requests, NEW k \in Keys, Reserve(r, k)
      PROVE  [Semaphore!Next]_Semaphore!vars
  <2>1. activeRequests[r] = NoSlot
    BY <1>3 DEF SlotInv, HeldInFlight, Reserve
  <2>2. ~Semaphore!Full(k)
    BY <1>3, FullIsFull DEF Reserve
  <2>3. \A j \in Keys : Holders(j)' = IF j = k THEN Holders(j) \cup {r} ELSE Holders(j)
    BY <1>3, <2>1, AcquireHolders DEF SlotInv, Reserve
  <2>4. [j \in Keys |-> Holders(j)]' = [[j \in Keys |-> Holders(j)] EXCEPT ![k] = @ \cup {r}]
    BY <2>3
  <2>5. Semaphore!Acquire(k, r)
    BY <1>3, <2>1, <2>2, <2>4, NoSlotHoldsNothing DEF Semaphore!Acquire, Reserve
  <2> QED
    BY <2>5 DEF Semaphore!Next
<1>4. ASSUME NEW r \in Requests, RefuseQuota(r) \/ Complete(r)
      PROVE  [Semaphore!Next]_Semaphore!vars
  BY <1>4, ReleaseRefines DEF RefuseQuota, Complete
<1>5. ASSUME NEW r \in Requests, NEW c \in Credentials, AssignSlotCredential(r, c)
      PROVE  [Semaphore!Next]_Semaphore!vars
  <2>1. \A q \in Requests : activeRequests'[q].scope = activeRequests[q].scope
    BY <1>5 DEF SlotInv, TypeOK, AssignSlotCredential, NoSlot, Slot
  <2>2. \A j \in Keys : Holders(j)' = Holders(j)
    BY <2>1 DEF Holders
  <2> QED
    BY <1>5, <2>2 DEF Semaphore!vars, AssignSlotCredential
<1>6. ASSUME NEW k \in Keys, NEW n \in Limits, SetConcurrencyLimit(k, n)
      PROVE  [Semaphore!Next]_Semaphore!vars
  BY <1>2, <1>6 DEF SetConcurrencyLimit, SlotInv, TypeOK
<1>7. CASE Configure
  BY <1>2, <1>7 DEF Configure
<1>8. CASE Close
  <2>1. \A k \in Keys : Holders(k)' = {}
    BY <1>8, SlotsAssumption DEF Close, Holders, NoSlot
  <2>2. Semaphore!Forget
    BY <1>8, <2>1 DEF Semaphore!Forget, Close
  <2> QED
    BY <2>2 DEF Semaphore!Next
<1>9. CASE UNCHANGED vars
  BY <1>1, <1>9 DEF vars
<1>10. ASSUME NEW r \in Requests, RequestStep(r)
       PROVE  [Semaphore!Next]_Semaphore!vars
  BY <1>1, <1>3, <1>4, <1>5, <1>10 DEF RequestStep, RefuseSlot, PassWithoutSlot, GrantQuota
<1> QED
  BY <1>6, <1>7, <1>8, <1>9, <1>10 DEF Next

\* Slots implement semaphores: no key ever has more requests inside than the limit in
\* force when the last of them came, whatever the order of calls, edits and restarts.
THEOREM SlotsAreSemaphores == Spec => SemaphoreSpec
<1>1. Init => Semaphore!Init
  <2> SUFFICES ASSUME Init PROVE Semaphore!Init
    OBVIOUS
  <2>1. \A k \in Keys : Holders(k) = {}
    BY SlotsAssumption DEF Init, Holders, NoSlot
  <2> QED
    BY <2>1 DEF Init, Semaphore!Init
<1>2. SlotInv /\ [Next]_vars => [Semaphore!Next]_Semaphore!vars
  BY StepRefines
<1> QED
  BY <1>1, <1>2, SlotsInductive, PTL DEF Spec, SemaphoreSpec, Semaphore!Spec
=============================================================================
