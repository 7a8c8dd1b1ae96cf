--------------------------- MODULE SchedulerProofs ---------------------------
(***************************************************************************)
(* For any keys, pools, sessions and credentials: a session keeps its      *)
(* binding until its time has passed or the table is full of sessions used *)
(* after it; in turns, who stays a candidate is picked within as many      *)
(* picks as there are credentials; by weight, the credits of a pool stay   *)
(* in balance and nobody is skipped.                                       *)
(*                                                                         *)
(* Each change of the list of bindings takes some away and may then put    *)
(* one in front: what the invariant says of a binding is that it is in the *)
(* list and that those in front of it were used since.  Of a turn it says  *)
(* that those picked meanwhile lie between the credential and the one that *)
(* was picked last.  By weight, no n of N credentials are ever credited,   *)
(* together, more than half of n (N - n) turns at the highest price: a     *)
(* group that has not paid gains, but with the one that pays it has not,   *)
(* and without one of its candidates it had the room; and who waits has    *)
(* been credited for each pick it waited.                                  *)
(***************************************************************************)
EXTENDS Scheduler, SequenceTheorems, FiniteSetTheorems, WellFoundedInduction, TLAPS

----------------------------------------------------------------------------
(* The invariant *)

\* Which credentials there are to bind to does not matter.
Binding(auths) == [key : SessionKeys, auth : auths, expires : Nat]
Use(auths) == [auth : auths, at : Nat, others : SUBSET SessionKeys]

TypeOK ==
  /\ clock \in Nat
  /\ \E auths : sessionOrder \in Seq(Binding(auths)) /\ uses \in [SessionKeys -> Use(auths)]

KeysDiffer(order) == \A i, j \in 1 .. Len(order) : order[i].key = order[j].key => i = j

\* The binding of a session's last use, behind none but those used since.
HoldsAt(order, key, use, i) ==
  /\ order[i].key = key /\ order[i].auth = use.auth /\ order[i].expires = use.at + TTL
  /\ \A j \in 1 .. Len(order) : j < i => order[j].key \in use.others

Holds(order, key, use) == \E i \in 1 .. Len(order) : HoldsAt(order, key, use, i)

UseOK(order, key, use) ==
  /\ IsFiniteSet(use.others)
  /\ use # NoUse => \/ clock >= use.at + TTL
                    \/ Cardinality(use.others) >= MaxSessions
                    \/ Holds(order, key, use)

SessionsInv ==
  /\ TypeOK
  /\ Len(sessionOrder) <= MaxSessions
  /\ KeysDiffer(sessionOrder)
  /\ \A key \in SessionKeys : UseOK(sessionOrder, key, uses[key])

LEMMA SessionsInvImplies ==
  ASSUME SessionsInv, misfits = {}
  PROVE  SessionsStick
<1>1. Len(sessionOrder) <= MaxSessions
  BY DEF SessionsInv
<1>2. ASSUME NEW key \in SessionKeys, uses[key] # NoUse, clock < uses[key].at + TTL,
             Cardinality(uses[key].others) < MaxSessions
      PROVE  \E binding \in ToSet(sessionOrder) : binding.key = key /\ binding.auth = uses[key].auth
  <2> DEFINE use == uses[key]
  <2>1. PICK auths : sessionOrder \in Seq(Binding(auths)) /\ uses \in [SessionKeys -> Use(auths)]
    BY DEF SessionsInv, TypeOK
  <2>2. use.at \in Nat /\ IsFiniteSet(use.others) /\ clock \in Nat
    BY <2>1 DEF Use, SessionsInv, TypeOK, UseOK
  <2>3. Cardinality(use.others) \in Nat /\ TTL \in Nat /\ MaxSessions \in Nat
    BY <2>2, FS_CardinalityType, SchedulerAssumption
  <2>4. UseOK(sessionOrder, key, use)
    BY DEF SessionsInv
  <2> HIDE DEF use
  <2>5. Holds(sessionOrder, key, use)
    BY <1>2, <2>2, <2>3, <2>4 DEF UseOK, use
  <2>6. PICK i \in 1 .. Len(sessionOrder) : HoldsAt(sessionOrder, key, use, i)
    BY <2>5 DEF Holds
  <2>7. sessionOrder[i] \in ToSet(sessionOrder)
    BY <2>1 DEF ToSet
  <2> QED
    BY <2>6, <2>7 DEF HoldsAt, use
<1> QED
  BY <1>1, <1>2 DEF SessionsStick

----------------------------------------------------------------------------
(* Numbers and sequences *)

\* A set of natural numbers that is not empty has a least element.
LEMMA LeastNatural ==
  ASSUME NEW T \in SUBSET Nat, T # {}
  PROVE  \E x \in T : \A y \in T : x <= y
<1>1. PICK x \in T : \A y \in T : ~(<<y, x>> \in OpToRel(<, Nat))
  BY WFMin, NatLessThanWellFounded
<1>2. \A y \in T : ~(y < x)
  BY <1>1 DEF OpToRel
<1> QED
  BY <1>2

\* One with a bound has a greatest.
LEMMA GreatestNatural ==
  ASSUME NEW n \in Nat, NEW T \in SUBSET (0 .. n), T # {}
  PROVE  \E x \in T : \A y \in T : y <= x
<1> DEFINE gaps == {n - x : x \in T}
<1>1. gaps \in SUBSET Nat /\ gaps # {}
  <2>1. \A x \in T : n - x \in Nat
    OBVIOUS
  <2> QED
    BY <2>1
<1>2. PICK g \in gaps : \A h \in gaps : g <= h
  BY <1>1, LeastNatural
<1>3. PICK x \in T : g = n - x
  BY <1>2
<1>4. \A y \in T : n - x <= n - y
  BY <1>2, <1>3
<1> QED
  BY <1>4

\* p tells where each element of a list stood in the list it was taken from.
Places(p, new, order) ==
  /\ p \in [1 .. Len(new) -> 1 .. Len(order)]
  /\ \A i, j \in 1 .. Len(new) : i < j => p[i] < p[j]
  /\ \A i \in 1 .. Len(new) : new[i] = order[p[i]]

\* What remains of a list keeps its keys apart, and a binding that is among it is still
\* behind none but those used since.
LEMMA WhatRemains ==
  ASSUME NEW S, NEW new \in Seq(S), NEW order \in Seq(S), NEW p, Places(p, new, order), KeysDiffer(order)
  PROVE  /\ KeysDiffer(new)
         /\ \A key, use : \A i \in 1 .. Len(new) : HoldsAt(order, key, use, p[i]) => HoldsAt(new, key, use, i)
<1>1. Len(new) \in Nat /\ Len(order) \in Nat /\ \A i \in 1 .. Len(new) : p[i] \in 1 .. Len(order)
  BY SMTT(30) DEF Places
<1>2. \A i, j \in 1 .. Len(new) : p[i] = p[j] => i = j
  <2> SUFFICES ASSUME NEW i \in 1 .. Len(new), NEW j \in 1 .. Len(new), p[i] = p[j], i # j PROVE FALSE
    OBVIOUS
  <2>1. i < j \/ j < i
    BY <1>1
  <2>2. p[i] < p[j] \/ p[j] < p[i]
    BY <2>1 DEF Places
  <2> QED
    BY <1>1, <2>2
<1>3. KeysDiffer(new)
  BY <1>1, <1>2 DEF Places, KeysDiffer
<1>4. ASSUME NEW key, NEW use, NEW i \in 1 .. Len(new), HoldsAt(order, key, use, p[i]) PROVE HoldsAt(new, key, use, i)
  BY <1>1, <1>4 DEF Places, HoldsAt
<1> QED
  BY <1>3, <1>4

LEMMA RemoveAtPlaces ==
  ASSUME NEW S, NEW s \in Seq(S), NEW i \in 1 .. Len(s)
  PROVE  /\ RemoveAt(s, i) \in Seq(S) /\ Len(RemoveAt(s, i)) = Len(s) - 1
         /\ Places([j \in 1 .. Len(s) - 1 |-> IF j < i THEN j ELSE j + 1], RemoveAt(s, i), s)
<1> DEFINE a == SubSeq(s, 1, i - 1)
           b == SubSeq(s, i + 1, Len(s))
           p == [j \in 1 .. Len(s) - 1 |-> IF j < i THEN j ELSE j + 1]
<1>1. Len(s) \in Nat
  OBVIOUS
<1>2. a \in Seq(S) /\ Len(a) = i - 1 /\ \A j \in 1 .. i - 1 : a[j] = s[j]
  BY <1>1, SubSeqProperties
<1>3. b \in Seq(S) /\ Len(b) = Len(s) - i /\ \A j \in 1 .. Len(s) - i : b[j] = s[i + j]
  BY <1>1, SubSeqProperties
<1>4. RemoveAt(s, i) = a \o b
  BY DEF RemoveAt
<1> HIDE DEF a, b
<1>5. a \o b \in Seq(S) /\ Len(a \o b) = Len(a) + Len(b)
      /\ \A j \in 1 .. Len(a) + Len(b) : (a \o b)[j] = IF j <= Len(a) THEN a[j] ELSE b[j - Len(a)]
  BY <1>2, <1>3, ConcatProperties
<1>6. ASSUME NEW j \in 1 .. Len(s) - 1 PROVE (a \o b)[j] = s[p[j]]
  <2>1. CASE j < i
    BY <2>1, <1>1, <1>2, <1>3, <1>5
  <2>2. CASE ~(j < i)
    <3>1. j - Len(a) \in 1 .. Len(s) - i /\ i + (j - Len(a)) = j + 1 /\ ~(j <= Len(a)) /\ j \in 1 .. Len(a) + Len(b)
      BY <2>2, <1>1, <1>2, <1>3
    <3>2. (a \o b)[j] = b[j - Len(a)]
      BY <3>1, <1>5
    <3> QED
      BY <2>2, <3>1, <3>2, <1>3
  <2> QED
    BY <2>1, <2>2
<1>7. p \in [1 .. Len(s) - 1 -> 1 .. Len(s)] /\ \A j, k \in 1 .. Len(s) - 1 : j < k => p[j] < p[k]
  BY <1>1
<1>8. Len(a \o b) = Len(s) - 1
  BY <1>1, <1>2, <1>3, <1>5
<1> HIDE DEF p
<1>9. Places(p, a \o b, s)
  BY <1>6, <1>7, <1>8 DEF Places
<1> QED
  BY <1>4, <1>5, <1>8, <1>9 DEF p

\* The front part of a list.
LEMMA PrefixPlaces ==
  ASSUME NEW S, NEW s \in Seq(S), NEW n \in 0 .. Len(s)
  PROVE  /\ SubSeq(s, 1, n) \in Seq(S) /\ Len(SubSeq(s, 1, n)) = n
         /\ Places([i \in 1 .. n |-> i], SubSeq(s, 1, n), s)
<1> DEFINE front == SubSeq(s, 1, n)
           p == [i \in 1 .. n |-> i]
<1>1. Len(s) \in Nat /\ n \in Int /\ n \in Nat
  OBVIOUS
<1>2. \A i \in 1 .. n : s[i] \in S
  BY <1>1, ElementOfSeq
<1>3. /\ front \in Seq(S) /\ Len(front) = (IF 1 <= n THEN n - 1 + 1 ELSE 0)
      /\ \A i \in 1 .. n - 1 + 1 : front[i] = s[1 + i - 1]
  BY <1>1, <1>2, SubSeqProperties
<1> HIDE DEF front
<1>4. Len(front) = n /\ \A i \in 1 .. n : front[i] = s[i]
  <2>1. (IF 1 <= n THEN n - 1 + 1 ELSE 0) = n /\ n - 1 + 1 = n /\ \A i \in 1 .. n : 1 + i - 1 = i
    BY <1>1
  <2> QED
    BY <1>3, <2>1
<1>5. p \in [1 .. n -> 1 .. Len(s)] /\ \A i \in 1 .. n : p[i] = i
  BY <1>1
<1> HIDE DEF p
<1>6. Places(p, front, s)
  BY <1>1, <1>4, <1>5 DEF Places
<1> QED
  BY <1>3, <1>4, <1>6 DEF p, front

----------------------------------------------------------------------------
(* What happens to the list of bindings *)

\* The bindings swept have expired.
LEMMA SweptKeeps ==
  ASSUME NEW auths, sessionOrder \in Seq(Binding(auths)), KeysDiffer(sessionOrder), NEW now \in Nat
  PROVE  /\ Swept(now) \in Seq(Binding(auths)) /\ Len(Swept(now)) <= Len(sessionOrder)
         /\ KeysDiffer(Swept(now))
         /\ \A key, use : Holds(sessionOrder, key, use) /\ now < use.at + TTL => Holds(Swept(now), key, use)
<1> DEFINE kept == {i \in DOMAIN sessionOrder : ~Expired(sessionOrder[i], now)}
           last == CHOOSE i \in kept \cup {0} : \A j \in kept : j <= i
<1>1. Len(sessionOrder) \in Nat /\ DOMAIN sessionOrder = 1 .. Len(sessionOrder)
  OBVIOUS
<1>2. kept \cup {0} \in SUBSET (0 .. Len(sessionOrder))
  BY <1>1
<1>3. \E i \in kept \cup {0} : \A j \in kept : j <= i
  BY <1>1, <1>2, GreatestNatural
<1>4. last \in kept \cup {0} /\ \A j \in kept : j <= last
  BY <1>3
<1>5. last \in 0 .. Len(sessionOrder)
  BY <1>2, <1>4
<1>6. Swept(now) = SubSeq(sessionOrder, 1, last)
  BY DEF Swept
<1> HIDE DEF last
<1> DEFINE p == [i \in 1 .. last |-> i]
<1>7. Swept(now) \in Seq(Binding(auths)) /\ Len(Swept(now)) = last /\ Places(p, Swept(now), sessionOrder)
  BY <1>5, <1>6, PrefixPlaces
<1>8. KeysDiffer(Swept(now)) /\ \A key, use : \A i \in 1 .. last : HoldsAt(sessionOrder, key, use, p[i]) => HoldsAt(Swept(now), key, use, i)
  BY <1>7, WhatRemains
<1>9. ASSUME NEW key, NEW use, Holds(sessionOrder, key, use), now < use.at + TTL PROVE Holds(Swept(now), key, use)
  <2>1. PICK i \in 1 .. Len(sessionOrder) : HoldsAt(sessionOrder, key, use, i)
    BY <1>9 DEF Holds
  <2>2. sessionOrder[i] \in Binding(auths)
    BY <2>1, ElementOfSeq
  <2>3. sessionOrder[i].expires \in Nat /\ sessionOrder[i].expires = use.at + TTL
    BY <2>1, <2>2 DEF HoldsAt, Binding
  <2>4. i \in kept
    BY <1>1, <1>9, <2>1, <2>3 DEF Expired
  <2>5. i \in 1 .. last /\ p[i] = i
    BY <1>1, <1>4, <1>5, <2>4
  <2> QED
    BY <1>7, <1>8, <2>1, <2>5 DEF Holds
<1> QED
  BY <1>1, <1>5, <1>7, <1>8, <1>9

\* Without the binding of one session, which is then not in the list.
LEMMA UnboundKeeps ==
  ASSUME NEW auths, NEW order \in Seq(Binding(auths)), KeysDiffer(order), NEW key
  PROVE  LET new == Unbound(order, key)
         IN  /\ new \in Seq(Binding(auths)) /\ Len(new) <= Len(order) /\ KeysDiffer(new)
             /\ (\E i \in 1 .. Len(order) : order[i].key = key) => Len(new) < Len(order)
             /\ \A i \in 1 .. Len(new) : new[i].key # key
             /\ \A k, use : k # key /\ Holds(order, k, use) => Holds(new, k, use)
<1> DEFINE new == Unbound(order, key)
<1>1. Len(order) \in Nat /\ DOMAIN order = 1 .. Len(order)
  OBVIOUS
<1>2. CASE \A i \in DOMAIN order : order[i].key # key
  BY <1>1, <1>2 DEF Unbound
<1>3. CASE ~(\A i \in DOMAIN order : order[i].key # key)
  <2> DEFINE at == CHOOSE i \in DOMAIN order : order[i].key = key
             p == [j \in 1 .. Len(order) - 1 |-> IF j < at THEN j ELSE j + 1]
  <2>1. at \in 1 .. Len(order) /\ order[at].key = key
    BY <1>1, <1>3
  <2>2. new = RemoveAt(order, at)
    BY <1>3 DEF Unbound
  <2> HIDE DEF at, new
  <2>3. new \in Seq(Binding(auths)) /\ Len(new) = Len(order) - 1 /\ Places(p, new, order)
    BY <2>1, <2>2, RemoveAtPlaces
  <2>4. KeysDiffer(new) /\ \A k, use : \A i \in 1 .. Len(new) : HoldsAt(order, k, use, p[i]) => HoldsAt(new, k, use, i)
    BY <2>3, WhatRemains
  <2>5. ASSUME NEW i \in 1 .. Len(new) PROVE new[i].key # key
    <3>1. p[i] \in 1 .. Len(order) /\ p[i] # at /\ new[i] = order[p[i]]
      BY <1>1, <2>1, <2>3 DEF Places
    <3> QED
      BY <2>1, <3>1 DEF KeysDiffer
  <2>6. ASSUME NEW k, NEW use, k # key, Holds(order, k, use) PROVE Holds(new, k, use)
    <3>1. PICK i \in 1 .. Len(order) : HoldsAt(order, k, use, i)
      BY <2>6 DEF Holds
    <3>2. i # at
      BY <2>1, <2>6, <3>1 DEF HoldsAt
    <3> DEFINE j == IF i < at THEN i ELSE i - 1
    <3>3. j \in 1 .. Len(new) /\ p[j] = i
      BY <1>1, <2>1, <2>3, <3>2
    <3> QED
      BY <2>4, <3>1, <3>3 DEF Holds
  <2>7. Len(new) < Len(order)
    BY <1>1, <2>3
  <2> HIDE DEF p
  <2> QED
    BY <1>1, <2>3, <2>4, <2>5, <2>6, <2>7 DEF new
<1> QED
  BY <1>2, <1>3

\* All but the binding at the back.
LEMMA FrontKeeps ==
  ASSUME NEW auths, NEW order \in Seq(Binding(auths)), KeysDiffer(order), Len(order) > 0
  PROVE  /\ Front(order) \in Seq(Binding(auths)) /\ Len(Front(order)) = Len(order) - 1 /\ KeysDiffer(Front(order))
         /\ \A key : (\A i \in 1 .. Len(order) : order[i].key # key)
                        => \A i \in 1 .. Len(Front(order)) : Front(order)[i].key # key
         /\ \A key, use : Holds(order, key, use) => HoldsAt(order, key, use, Len(order)) \/ Holds(Front(order), key, use)
<1> DEFINE n == Len(order) - 1
           new == Front(order)
           p == [i \in 1 .. n |-> i]
<1>1. Len(order) \in Nat
  OBVIOUS
<1>2. n \in 0 .. Len(order)
  BY <1>1
<1>3. new = SubSeq(order, 1, n)
  BY DEF Front
<1> HIDE DEF new
<1>4. new \in Seq(Binding(auths)) /\ Len(new) = n /\ Places(p, new, order)
  BY <1>2, <1>3, PrefixPlaces
<1>5. KeysDiffer(new) /\ \A k, use : \A i \in 1 .. Len(new) : HoldsAt(order, k, use, p[i]) => HoldsAt(new, k, use, i)
  BY <1>4, WhatRemains
<1>6. ASSUME NEW key, NEW use, NEW i \in 1 .. Len(order), HoldsAt(order, key, use, i), i # Len(order)
      PROVE  Holds(new, key, use)
  <2>1. i \in 1 .. Len(new) /\ p[i] = i
    BY <1>1, <1>4, <1>6
  <2> QED
    BY <1>5, <1>6, <2>1 DEF Holds
<1>7. \A key : (\A i \in 1 .. Len(order) : order[i].key # key) => \A i \in 1 .. Len(new) : new[i].key # key
  BY <1>4 DEF Places
<1> HIDE DEF p
<1> QED
  BY <1>4, <1>5, <1>6, <1>7 DEF new, Holds

\* A binding put in front, and those behind it.
LEMMA InFrontKeeps ==
  ASSUME NEW auths, NEW order \in Seq(Binding(auths)), KeysDiffer(order),
         NEW key \in SessionKeys, NEW auth \in auths, NEW now \in Nat, \A i \in 1 .. Len(order) : order[i].key # key
  PROVE  LET new == <<[key |-> key, auth |-> auth, expires |-> now + TTL]>> \o order
         IN  /\ new \in Seq(Binding(auths)) /\ Len(new) = Len(order) + 1 /\ KeysDiffer(new)
             /\ Holds(new, key, [auth |-> auth, at |-> now, others |-> {}])
             /\ \A k, use : \A later :
                  Holds(order, k, use) /\ later.auth = use.auth /\ later.at = use.at /\ later.others = use.others \cup {key}
                    => Holds(new, k, later)
<1> DEFINE b == [key |-> key, auth |-> auth, expires |-> now + TTL]
           new == <<b>> \o order
<1>1. b \in Binding(auths) /\ b.key = key /\ b.auth = auth /\ b.expires = now + TTL
  BY SchedulerAssumption DEF Binding
<1> HIDE DEF b
<1>2. <<b>> \in Seq(Binding(auths)) /\ Len(<<b>>) = 1 /\ <<b>>[1] = b
  BY <1>1
<1>3. Len(order) \in Nat
  OBVIOUS
<1>4. /\ new \in Seq(Binding(auths)) /\ Len(new) = 1 + Len(order)
      /\ \A i \in 1 .. 1 + Len(order) : new[i] = IF i <= 1 THEN <<b>>[i] ELSE order[i - 1]
  BY <1>2, ConcatProperties
<1>5. new[1] = b /\ \A i \in 2 .. Len(new) : i - 1 \in 1 .. Len(order) /\ new[i] = order[i - 1]
  BY <1>2, <1>3, <1>4
<1> HIDE DEF new
<1>6. \A i \in 1 .. Len(new) : i = 1 \/ i \in 2 .. Len(new)
  BY <1>3, <1>4
<1>7. KeysDiffer(new)
  <2> SUFFICES ASSUME NEW i \in 1 .. Len(new), NEW j \in 1 .. Len(new), new[i].key = new[j].key PROVE i = j
    BY DEF KeysDiffer
  <2>1. CASE i = 1 /\ j = 1
    BY <2>1
  <2>2. CASE i = 1 /\ j \in 2 .. Len(new)
    BY <2>2, <1>1, <1>5
  <2>3. CASE i \in 2 .. Len(new) /\ j = 1
    BY <2>3, <1>1, <1>5
  <2>4. CASE i \in 2 .. Len(new) /\ j \in 2 .. Len(new)
    <3>1. i - 1 = j - 1
      BY <2>4, <1>5 DEF KeysDiffer
    <3> QED
      BY <3>1
  <2> QED
    BY <1>6, <2>1, <2>2, <2>3, <2>4
<1>8. Holds(new, key, [auth |-> auth, at |-> now, others |-> {}])
  <2>1. HoldsAt(new, key, [auth |-> auth, at |-> now, others |-> {}], 1)
    BY <1>1, <1>5 DEF HoldsAt
  <2>2. 1 \in 1 .. Len(new)
    BY <1>3, <1>4
  <2> QED
    BY <2>1, <2>2 DEF Holds
<1>9. ASSUME NEW k, NEW use, NEW later, Holds(order, k, use),
             later.auth = use.auth, later.at = use.at, later.others = use.others \cup {key}
      PROVE  Holds(new, k, later)
  <2>1. PICK i \in 1 .. Len(order) : HoldsAt(order, k, use, i)
    BY <1>9 DEF Holds
  <2>2. i + 1 \in 2 .. Len(new) /\ i + 1 \in 1 .. Len(new) /\ new[i + 1] = order[i]
    BY <1>3, <1>4, <1>5
  <2>3. ASSUME NEW j \in 1 .. Len(new), j < i + 1 PROVE new[j].key \in later.others
    <3>1. CASE j = 1
      BY <1>1, <1>5, <1>9, <3>1
    <3>2. CASE j \in 2 .. Len(new)
      <4>1. j - 1 \in 1 .. Len(order) /\ j - 1 < i
        BY <1>5, <2>3, <3>2
      <4> QED
        BY <1>5, <1>9, <2>1, <3>2, <4>1 DEF HoldsAt
    <3> QED
      BY <1>6, <3>1, <3>2
  <2>4. HoldsAt(new, k, later, i + 1)
    BY <1>9, <2>1, <2>2, <2>3 DEF HoldsAt
  <2> QED
    BY <2>2, <2>4 DEF Holds
<1>10. \A k, use : \A later :
         Holds(order, k, use) /\ later.auth = use.auth /\ later.at = use.at /\ later.others = use.others \cup {key}
           => Holds(new, k, later)
  BY ONLY <1>9
<1>11. new \in Seq(Binding(auths)) /\ Len(new) = Len(order) + 1
  BY <1>3, <1>4
<1> QED
  BY <1>7, <1>8, <1>10, <1>11 DEF new, b

\* Who is at the back of a full list when another session is bound has seen as many others
\* used since.
LEMMA CrowdedOut ==
  ASSUME NEW auths, NEW order \in Seq(Binding(auths)), KeysDiffer(order), Len(order) > 0,
         NEW key, \A i \in 1 .. Len(order) : order[i].key # key,
         NEW k, NEW use, HoldsAt(order, k, use, Len(order)), IsFiniteSet(use.others)
  PROVE  Cardinality(use.others \cup {key}) >= Len(order)
<1> DEFINE n == Len(order)
           since == use.others \cup {key}
           f == [i \in 1 .. n |-> IF i = n THEN key ELSE order[i].key]
<1>1. n \in Nat /\ n > 0
  OBVIOUS
<1>2. \A i \in 1 .. n : i # n => i < n /\ f[i] = order[i].key /\ order[i].key \in use.others
  BY <1>1 DEF HoldsAt
<1>3. f[n] = key /\ n \in 1 .. n
  BY <1>1
<1>4. f \in [1 .. n -> since]
  BY <1>2
<1>5. \A i, j \in 1 .. n : f[i] = f[j] => i = j
  BY <1>2, <1>3 DEF KeysDiffer
<1>6. f \in Injection(1 .. n, since)
  BY <1>4, <1>5 DEF Injection, IsInjective
<1>7. IsFiniteSet(since)
  BY FS_AddElement
<1>8. Cardinality(1 .. n) <= Cardinality(since)
  BY <1>6, <1>7, FS_Injection
<1>9. Cardinality(1 .. n) = n
  <2>1. 1 \in Int /\ n \in Int /\ ~(1 > n) /\ n - 1 + 1 = n
    BY <1>1
  <2> HIDE DEF n
  <2> QED
    BY <2>1, FS_Interval
<1>10. Cardinality(since) \in Nat
  BY <1>7, FS_CardinalityType
<1> QED
  BY <1>1, <1>8, <1>9, <1>10

----------------------------------------------------------------------------
(* Steps *)

LEMMA BindingsGrow ==
  ASSUME NEW auths, NEW auth, NEW order \in Seq(Binding(auths))
  PROVE  order \in Seq(Binding(auths \cup {auth}))
<1>1. Binding(auths) \subseteq Binding(auths \cup {auth})
  BY DEF Binding
<1>2. Len(order) \in Nat /\ order \in [1 .. Len(order) -> Binding(auths)]
  OBVIOUS
<1> DEFINE few == Binding(auths)
           more == Binding(auths \cup {auth})
           n == Len(order)
<1>3. few \subseteq more /\ order \in [1 .. n -> few] /\ n \in Nat
  BY <1>1, <1>2
<1> HIDE DEF few, more, n
<1>4. order \in [1 .. n -> more]
  BY ONLY <1>3
<1>5. order \in Seq(more)
  BY <1>3, <1>4, SeqDef
<1> QED
  BY <1>5 DEF more

\* What the uses become when a session is bound.
LEMMA UsedTyped ==
  ASSUME NEW auths, uses \in [SessionKeys -> Use(auths)], NEW key \in SessionKeys, NEW auth \in auths, NEW now \in Nat,
         NoUse.auth \in auths, Used(key, auth, now)
  PROVE  /\ uses' \in [SessionKeys -> Use(auths)]
         /\ uses'[key] = [auth |-> auth, at |-> now, others |-> {}]
         /\ \A k \in SessionKeys : k # key => uses'[k] = IF uses[k] = NoUse THEN NoUse
                                                         ELSE [uses[k] EXCEPT !.others = @ \cup {key}]
<1>1. NoUse \in Use(auths)
  BY DEF NoUse, Use
<1>2. [auth |-> auth, at |-> now, others |-> {}] \in Use(auths)
  BY DEF Use
<1>3. \A k \in SessionKeys : [uses[k] EXCEPT !.others = @ \cup {key}] \in Use(auths)
  <2> SUFFICES ASSUME NEW k \in SessionKeys PROVE [uses[k] EXCEPT !.others = @ \cup {key}] \in Use(auths)
    OBVIOUS
  <2>1. uses[k] \in Use(auths) /\ uses[k].others \cup {key} \in SUBSET SessionKeys
    BY DEF Use
  <2> QED
    BY <2>1 DEF Use
<1> QED
  BY <1>1, <1>2, <1>3 DEF Used

\* A session is bound: its binding goes in front of a list without it.
LEMMA BindStep ==
  ASSUME SessionsInv, NEW auths, sessionOrder \in Seq(Binding(auths)), uses \in [SessionKeys -> Use(auths)],
         NEW key \in SessionKeys, NEW auth, NEW now \in Nat,
         NEW order \in Seq(Binding(auths)), KeysDiffer(order), Len(order) < MaxSessions,
         \A i \in 1 .. Len(order) : order[i].key # key,
         \A k \in SessionKeys :
           k # key /\ Holds(sessionOrder, k, uses[k]) /\ clock < uses[k].at + TTL
             => Holds(order, k, uses[k]) \/ Cardinality(uses[k].others \cup {key}) >= MaxSessions,
         sessionOrder' = <<[key |-> key, auth |-> auth, expires |-> now + TTL]>> \o order,
         Used(key, auth, now), clock' = clock
  PROVE  SessionsInv'
<1> DEFINE all == (auths \cup {NoUse.auth}) \cup {auth}
<1>1. order \in Seq(Binding(all)) /\ auth \in all /\ NoUse.auth \in all
  BY BindingsGrow
<1>2. uses \in [SessionKeys -> Use(all)]
  BY DEF Use
<1> HIDE DEF all
<1>3. /\ sessionOrder' \in Seq(Binding(all)) /\ Len(sessionOrder') = Len(order) + 1 /\ KeysDiffer(sessionOrder')
      /\ Holds(sessionOrder', key, [auth |-> auth, at |-> now, others |-> {}])
      /\ \A k, use : \A later :
           Holds(order, k, use) /\ later.auth = use.auth /\ later.at = use.at /\ later.others = use.others \cup {key}
             => Holds(sessionOrder', k, later)
  <2> DEFINE new == <<[key |-> key, auth |-> auth, expires |-> now + TTL]>> \o order
  <2>1. /\ new \in Seq(Binding(all)) /\ Len(new) = Len(order) + 1 /\ KeysDiffer(new)
        /\ Holds(new, key, [auth |-> auth, at |-> now, others |-> {}])
        /\ \A k, use : \A later :
             Holds(order, k, use) /\ later.auth = use.auth /\ later.at = use.at /\ later.others = use.others \cup {key}
               => Holds(new, k, later)
    BY <1>1, InFrontKeeps
  <2>2. sessionOrder' = new
    OBVIOUS
  <2> HIDE DEF new
  <2> QED
    BY ZenonT(60), <2>1, <2>2
<1>4. /\ uses' \in [SessionKeys -> Use(all)]
      /\ uses'[key] = [auth |-> auth, at |-> now, others |-> {}]
      /\ \A k \in SessionKeys : k # key => uses'[k] = IF uses[k] = NoUse THEN NoUse
                                                      ELSE [uses[k] EXCEPT !.others = @ \cup {key}]
  BY <1>1, <1>2, UsedTyped
<1>5. TypeOK'
  BY <1>3, <1>4 DEF SessionsInv, TypeOK
<1>6. Len(sessionOrder') <= MaxSessions
  <2>1. Len(order) \in Nat /\ MaxSessions \in Nat
    BY SchedulerAssumption
  <2> QED
    BY <1>3, <2>1
<1>7. ASSUME NEW k \in SessionKeys PROVE UseOK(sessionOrder, k, uses[k])'
  <2>1. CASE k = key
    <3> DEFINE use == [auth |-> auth, at |-> now, others |-> {}]
    <3>1. uses'[k] = use /\ Holds(sessionOrder', k, use) /\ use.others = {}
      BY <2>1, <1>3, <1>4
    <3> HIDE DEF use
    <3> QED
      BY <3>1, FS_EmptySet DEF UseOK
  <2>2. CASE k # key /\ uses[k] = NoUse
    <3>1. uses'[k] = NoUse
      BY <2>2, <1>4
    <3>2. NoUse.others = {}
      BY DEF NoUse
    <3> QED
      BY <3>1, <3>2, FS_EmptySet DEF UseOK
  <2>3. CASE k # key /\ uses[k] # NoUse
    <3> DEFINE use == uses[k]
               later == [use EXCEPT !.others = @ \cup {key}]
    <3>1. uses'[k] = later
      BY <2>3, <1>4
    <3>2. use \in Use(all)
      BY <1>2
    <3>3. later.auth = use.auth /\ later.at = use.at /\ later.others = use.others \cup {key}
      BY <3>2 DEF Use
    <3>4. UseOK(sessionOrder, k, use)
      BY DEF SessionsInv
    <3> HIDE DEF later
    <3>5. IsFiniteSet(use.others) /\ IsFiniteSet(later.others) /\ Cardinality(use.others) <= Cardinality(later.others)
      <4>1. IsFiniteSet(use.others)
        BY <3>4 DEF UseOK
      <4>2. IsFiniteSet(later.others) /\ use.others \in SUBSET later.others
        BY ZenonT(60), <3>3, <4>1, FS_AddElement
      <4> QED
        BY <4>1, <4>2, FS_Subset
    <3>6. Cardinality(use.others) \in Nat /\ Cardinality(later.others) \in Nat /\ MaxSessions \in Nat
      BY <3>5, FS_CardinalityType, SchedulerAssumption
    <3>7. clock \in Nat /\ use.at \in Nat /\ TTL \in Nat
      BY <3>2, SchedulerAssumption DEF Use, SessionsInv, TypeOK
    <3>8. \/ clock >= later.at + TTL
          \/ Cardinality(later.others) >= MaxSessions
          \/ Holds(sessionOrder', k, later)
      <4>1. CASE clock >= use.at + TTL
        BY <4>1, <3>3
      <4>2. CASE Cardinality(use.others) >= MaxSessions
        BY <4>2, <3>5, <3>6
      <4>3. CASE Holds(sessionOrder, k, use) /\ clock < use.at + TTL
        <5>1. CASE Holds(order, k, use)
          BY <5>1, <1>3, <3>3
        <5>2. CASE Cardinality(use.others \cup {key}) >= MaxSessions
          BY <5>2, <3>3
        <5> QED
          BY <2>3, <4>3, <5>1, <5>2
      <4> QED
        BY <2>3, <3>4, <3>7, <4>1, <4>2, <4>3 DEF UseOK
    <3> QED
      BY <3>1, <3>5, <3>8 DEF UseOK
  <2> QED
    BY <2>1, <2>2, <2>3
<1> QED
  BY <1>3, <1>5, <1>6, <1>7 DEF SessionsInv

\* Bindings go that nothing is lost with, or whose uses are forgotten.
LEMMA DropStep ==
  ASSUME SessionsInv, NEW auths, NEW order \in Seq(Binding(auths)), sessionOrder' = order,
         KeysDiffer(order), Len(order) <= Len(sessionOrder),
         uses' \in [SessionKeys -> Use(auths)], clock' \in Nat, clock <= clock',
         \A k \in SessionKeys :
           uses'[k] = NoUse \/ (/\ uses'[k] = uses[k]
                                /\ Holds(sessionOrder, k, uses[k]) /\ clock < uses[k].at + TTL => Holds(order, k, uses[k]))
  PROVE  SessionsInv'
<1>1. TypeOK'
  BY DEF TypeOK
<1>2. Len(sessionOrder') <= MaxSessions
  <2>1. Len(order) \in Nat /\ Len(sessionOrder) \in Nat /\ Len(sessionOrder) <= MaxSessions /\ MaxSessions \in Nat
    BY SchedulerAssumption DEF SessionsInv, TypeOK
  <2> QED
    BY <2>1
<1>3. ASSUME NEW k \in SessionKeys PROVE UseOK(sessionOrder, k, uses[k])'
  <2>1. CASE uses'[k] = NoUse
    BY <2>1, FS_EmptySet DEF UseOK, NoUse
  <2>2. CASE uses'[k] # NoUse
    <3>1. /\ uses'[k] = uses[k] /\ UseOK(sessionOrder, k, uses[k])
          /\ Holds(sessionOrder, k, uses[k]) /\ clock < uses[k].at + TTL => Holds(order, k, uses[k])
      BY <2>2 DEF SessionsInv
    <3>2. uses'[k].at \in Nat /\ TTL \in Nat /\ clock \in Nat
      BY SchedulerAssumption DEF Use, SessionsInv, TypeOK
    <3>3. clock >= uses[k].at + TTL => clock' >= uses[k].at + TTL
      BY <3>1, <3>2
    <3>4. clock >= uses[k].at + TTL \/ clock < uses[k].at + TTL
      BY <3>1, <3>2
    <3> QED
      BY <3>1, <3>3, <3>4 DEF UseOK
  <2> QED
    BY <2>1, <2>2
<1> QED
  BY <1>1, <1>2, <1>3 DEF SessionsInv

LEMMA ReuseStep ==
  ASSUME SessionsInv, NEW scope \in Scopes, NEW pool \in Pools, NEW session \in Sessions \cup {NoSession},
         NEW offered, NEW now \in Instants, Reuse(scope, pool, session, offered, now)
  PROVE  SessionsInv'
<1> DEFINE key == <<scope, pool, session>>
           swept == Swept(now)
           order == Unbound(swept, key)
<1>1. PICK auths : sessionOrder \in Seq(Binding(auths)) /\ uses \in [SessionKeys -> Use(auths)]
  BY DEF SessionsInv, TypeOK
<1>2. now \in Nat /\ now <= clock /\ clock \in Nat
  BY DEF Instants, SessionsInv, TypeOK
<1>3. key \in SessionKeys
  BY DEF Reuse, SessionKeys
<1>4. PICK binding \in BindingOf(swept, key) : sessionOrder' = Renewed(swept, key, binding.auth, now) /\ Used(key, binding.auth, now)
  BY DEF Reuse, Serving
<1>5. /\ swept \in Seq(Binding(auths)) /\ Len(swept) <= Len(sessionOrder) /\ KeysDiffer(swept)
      /\ \A k, use : Holds(sessionOrder, k, use) /\ now < use.at + TTL => Holds(swept, k, use)
  BY <1>1, <1>2, SweptKeeps DEF SessionsInv
<1> HIDE DEF swept, key
<1>6. \E i \in 1 .. Len(swept) : swept[i].key = key
  <2>1. binding \in ToSet(swept) /\ binding.key = key
    BY <1>4 DEF BindingOf
  <2> QED
    BY <1>5, <2>1 DEF ToSet
<1>7. /\ order \in Seq(Binding(auths)) /\ Len(order) < Len(swept) /\ KeysDiffer(order)
      /\ \A i \in 1 .. Len(order) : order[i].key # key
      /\ \A k, use : k # key /\ Holds(swept, k, use) => Holds(order, k, use)
  BY <1>5, <1>6, UnboundKeeps
<1>8. sessionOrder' = <<[key |-> key, auth |-> binding.auth, expires |-> now + TTL]>> \o order
  BY <1>4 DEF Renewed
<1> HIDE DEF order
<1>9. Len(order) < MaxSessions
  <2>1. Len(order) \in Nat /\ Len(swept) \in Nat /\ Len(sessionOrder) \in Nat /\ MaxSessions \in Nat
    BY <1>1, <1>5, <1>7, SchedulerAssumption
  <2>2. Len(sessionOrder) <= MaxSessions
    BY DEF SessionsInv
  <2> QED
    BY <1>5, <1>7, <2>1, <2>2
<1>10. ASSUME NEW k \in SessionKeys, k # key, Holds(sessionOrder, k, uses[k]), clock < uses[k].at + TTL
       PROVE  Holds(order, k, uses[k])
  <2>1. uses[k].at \in Nat /\ TTL \in Nat
    BY <1>1, SchedulerAssumption DEF Use
  <2>2. now < uses[k].at + TTL
    BY <1>2, <1>10, <2>1
  <2> QED
    BY <1>5, <1>7, <1>10, <2>2
<1>11. clock' = clock
  BY DEF Reuse
<1> QED
  BY <1>1, <1>2, <1>3, <1>4, <1>7, <1>8, <1>9, <1>10, <1>11, BindStep

LEMMA ColdStep ==
  ASSUME SessionsInv, NEW scope \in Scopes, NEW pool \in Pools, NEW session \in Sessions \cup {NoSession},
         NEW offered, NEW now \in Instants, Cold(scope, pool, session, offered, now)
  PROVE  SessionsInv'
<1> DEFINE key == <<scope, pool, session>>
           swept == Swept(now)
           bindable == affinity /\ session # NoSession
           old == IF Exists(rotations[scope][pool]) THEN rotations[scope][pool] ELSE NewRotation
           auth == Turn(old, Highest(Eligible(offered))).selected
<1>1. PICK auths : sessionOrder \in Seq(Binding(auths)) /\ uses \in [SessionKeys -> Use(auths)]
  BY DEF SessionsInv, TypeOK
<1>2. now \in Nat /\ now <= clock /\ clock \in Nat
  BY DEF Instants, SessionsInv, TypeOK
<1>3. /\ swept \in Seq(Binding(auths)) /\ Len(swept) <= Len(sessionOrder) /\ KeysDiffer(swept)
      /\ \A k, use : Holds(sessionOrder, k, use) /\ now < use.at + TTL => Holds(swept, k, use)
  BY <1>1, <1>2, SweptKeeps DEF SessionsInv
<1>4. Len(swept) \in Nat /\ Len(sessionOrder) \in Nat /\ MaxSessions \in Nat /\ MaxSessions > 0 /\ Len(sessionOrder) <= MaxSessions
  BY <1>1, <1>3, SchedulerAssumption DEF SessionsInv
<1>5. ASSUME NEW k \in SessionKeys, Holds(sessionOrder, k, uses[k]), clock < uses[k].at + TTL
      PROVE  Holds(swept, k, uses[k])
  <2>1. uses[k].at \in Nat /\ TTL \in Nat
    BY <1>1, SchedulerAssumption DEF Use
  <2>2. now < uses[k].at + TTL
    BY <1>2, <1>5, <2>1
  <2> QED
    BY <1>3, <1>5, <2>2
<1>6. clock' = clock
  BY DEF Cold
<1>7. CASE ~bindable
  <2>1. sessionOrder' = swept /\ UNCHANGED uses
    BY <1>7 DEF Cold
  <2> HIDE DEF swept
  <2> QED
    BY <1>1, <1>2, <1>3, <1>5, <1>6, <2>1, DropStep
<1>8. CASE bindable
  <2> DEFINE order == Unbound(swept, key)
             rest == IF Len(order) >= MaxSessions THEN Front(order) ELSE order
  <2>1. sessionOrder' = Added(order, key, auth, now) /\ Used(key, auth, now)
    BY <1>8 DEF Cold
  <2>2. sessionOrder' = <<[key |-> key, auth |-> auth, expires |-> now + TTL]>> \o rest
    BY <2>1 DEF Added
  <2>3. key \in SessionKeys
    BY <1>8 DEF SessionKeys
  <2> HIDE DEF swept, key, auth
  <2>4. /\ order \in Seq(Binding(auths)) /\ Len(order) <= Len(swept) /\ KeysDiffer(order)
        /\ \A i \in 1 .. Len(order) : order[i].key # key
        /\ \A k, use : k # key /\ Holds(swept, k, use) => Holds(order, k, use)
    BY <1>3, UnboundKeeps
  <2> HIDE DEF order
  <2>5. Len(order) \in Nat /\ Len(order) <= MaxSessions
    BY <1>3, <1>4, <2>4
  <2>6. CASE Len(order) < MaxSessions
    <3>1. rest = order
      BY <1>4, <2>5, <2>6
    <3>2. \A k \in SessionKeys : k # key /\ Holds(sessionOrder, k, uses[k]) /\ clock < uses[k].at + TTL => Holds(order, k, uses[k])
      BY <1>5, <2>4
    <3> HIDE DEF rest
    <3> QED
      BY <1>1, <1>2, <1>6, <2>1, <2>2, <2>3, <2>4, <2>6, <3>1, <3>2, BindStep
  <2>7. CASE ~(Len(order) < MaxSessions)
    <3>1. rest = Front(order) /\ Len(order) = MaxSessions /\ Len(order) > 0
      BY <1>4, <2>5, <2>7
    <3> HIDE DEF rest
    <3>2. /\ rest \in Seq(Binding(auths)) /\ Len(rest) = Len(order) - 1 /\ KeysDiffer(rest)
          /\ \A i \in 1 .. Len(rest) : rest[i].key # key
          /\ \A k, use : Holds(order, k, use) => HoldsAt(order, k, use, Len(order)) \/ Holds(rest, k, use)
      BY <2>4, <3>1, FrontKeeps
    <3>3. Len(rest) < MaxSessions
      BY <1>4, <3>1, <3>2
    <3>4. ASSUME NEW k \in SessionKeys, k # key, Holds(sessionOrder, k, uses[k]), clock < uses[k].at + TTL
          PROVE  Holds(rest, k, uses[k]) \/ Cardinality(uses[k].others \cup {key}) >= MaxSessions
      <4>1. Holds(order, k, uses[k])
        BY <1>5, <2>4, <3>4
      <4>2. CASE HoldsAt(order, k, uses[k], Len(order))
        <5>1. IsFiniteSet(uses[k].others)
          BY DEF SessionsInv, UseOK
        <5> QED
          BY <2>4, <3>1, <4>2, <5>1, CrowdedOut
      <4> QED
        BY <3>2, <4>1, <4>2
    <3> QED
      BY <1>1, <1>2, <1>6, <2>1, <2>2, <2>3, <3>2, <3>3, <3>4, BindStep
  <2> QED
    BY <2>6, <2>7
<1> QED
  BY <1>7, <1>8

\* The list restricted to some of its positions.
LEMMA RestrictedKeeps ==
  ASSUME NEW auths, NEW order \in Seq(Binding(auths)), KeysDiffer(order),
         NEW kept \in SUBSET (DOMAIN order), NEW new \in Restricted(order, kept)
  PROVE  /\ new \in Seq(Binding(auths)) /\ Len(new) <= Len(order) /\ KeysDiffer(new)
         /\ \A key, use : \A i \in kept : HoldsAt(order, key, use, i) => Holds(new, key, use)
<1> DEFINE n == Cardinality(kept)
<1>1. Len(order) \in Nat /\ DOMAIN order = 1 .. Len(order)
  OBVIOUS
<1>2. IsFiniteSet(1 .. Len(order)) /\ Cardinality(1 .. Len(order)) = Len(order)
  <2>1. 1 \in Int /\ Len(order) \in Int /\ (1 > Len(order) => Len(order) = 0) /\ Len(order) - 1 + 1 = Len(order)
    BY <1>1
  <2> QED
    BY <2>1, FS_Interval
<1>3. IsFiniteSet(kept) /\ n \in Nat /\ n <= Len(order)
  BY <1>1, <1>2, FS_Subset, FS_CardinalityType
<1>4. PICK p \in [1 .. n -> kept] : (\A i, j \in DOMAIN p : i < j => p[i] < p[j]) /\ new = [i \in DOMAIN p |-> order[p[i]]]
  BY DEF Restricted
<1>5. \A i \in 1 .. n : p[i] \in 1 .. Len(order) /\ new[i] = order[p[i]] /\ new[i] \in Binding(auths)
  BY <1>1, <1>4, ElementOfSeq
<1>6. new \in [1 .. n -> Binding(auths)]
  BY <1>4, <1>5
<1> HIDE DEF n
<1>7. new \in Seq(Binding(auths)) /\ Len(new) = n
  BY <1>3, <1>6, SeqDef, LenProperties
<1>8. Places(p, new, order)
  BY <1>1, <1>4, <1>5, <1>7 DEF Places
<1>9. KeysDiffer(new) /\ \A key, use : \A i \in 1 .. Len(new) : HoldsAt(order, key, use, p[i]) => HoldsAt(new, key, use, i)
  BY <1>7, <1>8, WhatRemains
<1>10. p \in Surjection(1 .. n, kept)
  <2>1. \A i, j \in 1 .. n : p[i] = p[j] => i = j
    <3> SUFFICES ASSUME NEW i \in 1 .. n, NEW j \in 1 .. n, p[i] = p[j], i # j PROVE FALSE
      OBVIOUS
    <3>1. i < j \/ j < i
      BY <1>3
    <3>2. p[i] < p[j] \/ p[j] < p[i]
      BY <3>1, <1>4
    <3> QED
      BY <1>5, <3>2
  <2>2. p \in Injection(1 .. n, kept)
    BY <1>4, <2>1 DEF Injection, IsInjective
  <2>3. IsFiniteSet(1 .. n) /\ Cardinality(1 .. n) = n
    <3>1. 1 \in Int /\ n \in Int /\ (1 > n => n = 0) /\ n - 1 + 1 = n
      BY <1>3
    <3> QED
      BY <3>1, FS_Interval
  <2> QED
    BY <2>2, <2>3, <1>3, FS_Injection DEF n
<1>11. ASSUME NEW key, NEW use, NEW i \in kept, HoldsAt(order, key, use, i) PROVE Holds(new, key, use)
  <2>1. PICK j \in 1 .. n : p[j] = i
    BY <1>10 DEF Surjection
  <2> QED
    BY <1>7, <1>9, <1>11, <2>1 DEF Holds
<1> QED
  BY <1>3, <1>7, <1>9, <1>11

LEMMA PruneStep ==
  ASSUME SessionsInv, NEW live \in SUBSET Scopes, Prune(live)
  PROVE  SessionsInv'
<1> DEFINE kept == {i \in DOMAIN sessionOrder : sessionOrder[i].key[1] \in live}
<1>1. PICK auths : sessionOrder \in Seq(Binding(auths)) /\ uses \in [SessionKeys -> Use(auths)]
  BY DEF SessionsInv, TypeOK
<1> DEFINE all == auths \cup {NoUse.auth}
<1>2. sessionOrder \in Seq(Binding(all)) /\ uses \in [SessionKeys -> Use(all)] /\ NoUse \in Use(all)
  <2>1. NoUse \in Use(all)
    BY DEF Use, NoUse
  <2>2. uses \in [SessionKeys -> Use(all)]
    BY <1>1 DEF Use
  <2> QED
    BY <1>1, <2>1, <2>2, BindingsGrow
<1> HIDE DEF all
<1>3. sessionOrder' \in Restricted(sessionOrder, kept)
  BY DEF Prune
<1>4. uses' = [k \in SessionKeys |-> IF k[1] \in live THEN uses[k] ELSE NoUse] /\ clock' = clock
  BY DEF Prune
<1>5. /\ sessionOrder' \in Seq(Binding(all)) /\ Len(sessionOrder') <= Len(sessionOrder) /\ KeysDiffer(sessionOrder')
      /\ \A key, use : \A i \in kept : HoldsAt(sessionOrder, key, use, i) => Holds(sessionOrder', key, use)
  BY <1>2, <1>3, RestrictedKeeps DEF SessionsInv
<1>6. uses' \in [SessionKeys -> Use(all)]
  BY <1>2, <1>4
<1>7. ASSUME NEW k \in SessionKeys
      PROVE  uses'[k] = NoUse \/ (/\ uses'[k] = uses[k]
                                  /\ Holds(sessionOrder, k, uses[k]) => Holds(sessionOrder', k, uses[k]))
  <2>1. CASE k[1] \notin live
    BY <1>4, <2>1
  <2>2. CASE k[1] \in live
    <3>1. uses'[k] = uses[k]
      BY <1>4, <2>2
    <3>2. ASSUME Holds(sessionOrder, k, uses[k]) PROVE Holds(sessionOrder', k, uses[k])
      <4>1. PICK i \in 1 .. Len(sessionOrder) : HoldsAt(sessionOrder, k, uses[k], i)
        BY <3>2 DEF Holds
      <4>2. i \in kept
        BY <1>1, <2>2, <4>1 DEF HoldsAt
      <4> HIDE DEF kept
      <4> QED
        BY <1>5, <4>1, <4>2
    <3> QED
      BY <3>1, <3>2
  <2> QED
    BY <2>1, <2>2
<1>8. clock \in Nat
  BY DEF SessionsInv, TypeOK
<1> DEFINE new == sessionOrder'
<1>9. new \in Seq(Binding(all)) /\ Len(new) <= Len(sessionOrder) /\ KeysDiffer(new) /\ sessionOrder' = new
  BY <1>5
<1> HIDE DEF kept
<1> QED
  BY <1>4, <1>6, <1>7, <1>8, <1>9, DropStep

\* A start from nothing.
LEMMA FreshSessions ==
  ASSUME sessionOrder' = <<>>, uses' = NoUses, clock' \in Nat
  PROVE  SessionsInv'
<1>1. Len(sessionOrder') = 0 /\ MaxSessions \in Nat
  BY SchedulerAssumption
<1>2. TypeOK'
  <2>1. sessionOrder' \in Seq(Binding({NoUse.auth}))
    OBVIOUS
  <2>2. NoUse \in Use({NoUse.auth})
    BY DEF Use, NoUse
  <2>3. uses' \in [SessionKeys -> Use({NoUse.auth})]
    BY <2>2 DEF NoUses
  <2> QED
    BY <2>1, <2>3 DEF TypeOK
<1>3. KeysDiffer(sessionOrder')
  BY DEF KeysDiffer
<1>4. ASSUME NEW k \in SessionKeys PROVE UseOK(sessionOrder, k, uses[k])'
  <2>1. uses'[k] = NoUse
    BY DEF NoUses
  <2>2. NoUse.others = {}
    BY DEF NoUse
  <2> QED
    BY <2>1, <2>2, FS_EmptySet DEF UseOK
<1> QED
  BY <1>1, <1>2, <1>3, <1>4 DEF SessionsInv

\* Time passes, or nothing changes.
LEMMA LaterStep ==
  ASSUME SessionsInv, UNCHANGED <<sessionOrder, uses>>, clock' \in Nat, clock <= clock'
  PROVE  SessionsInv'
<1>1. PICK auths : sessionOrder \in Seq(Binding(auths)) /\ uses \in [SessionKeys -> Use(auths)]
  BY DEF SessionsInv, TypeOK
<1>2. KeysDiffer(sessionOrder) /\ Len(sessionOrder) <= Len(sessionOrder)
  BY <1>1 DEF SessionsInv
<1> QED
  BY <1>1, <1>2, DropStep

LEMMA ConfigureStep ==
  ASSUME SessionsInv, NEW s, NEW a, NEW enabled, Configure(s, a, enabled)
  PROVE  SessionsInv'
<1>1. clock' = clock /\ clock \in Nat
  BY DEF Configure, SessionsInv, TypeOK
<1>2. (sessionOrder' = <<>> /\ uses' = NoUses) \/ UNCHANGED <<sessionOrder, uses>>
  BY DEF Configure, Forget
<1> QED
  BY <1>1, <1>2, FreshSessions, LaterStep

LEMMA SessionsStep ==
  ASSUME SessionsInv, [Next]_vars
  PROVE  SessionsInv'
<1>0. clock \in Nat
  BY DEF SessionsInv, TypeOK
<1>1. ASSUME NEW scope \in Scopes, NEW pool \in Pools, NEW session \in Sessions \cup {NoSession}, Pick(scope, pool, session)
      PROVE  SessionsInv'
  <2>1. PICK offered \in SUBSET Credentials \ {{}}, now \in Instants :
          Reuse(scope, pool, session, offered, now) \/ Cold(scope, pool, session, offered, now)
    BY <1>1 DEF Pick
  <2> QED
    BY <2>1, ReuseStep, ColdStep
<1>2. ASSUME NEW s \in Strategies, NEW a \in BOOLEAN, NEW enabled \in BOOLEAN, Configure(s, a, enabled)
      PROVE  SessionsInv'
  BY <1>2, ConfigureStep
<1>3. ASSUME NEW live \in SUBSET Scopes, Prune(live) PROVE SessionsInv'
  BY <1>3, PruneStep
<1>4. ASSUME NEW c \in Credentials, NEW weight \in Weights, NEW priority \in Priorities, HostEdits(c, weight, priority)
      PROVE  SessionsInv'
  BY <1>0, <1>4, LaterStep DEF HostEdits
<1>5. CASE Tick
  BY <1>0, <1>5, LaterStep DEF Tick
<1>6. CASE UNCHANGED vars
  BY <1>0, <1>6, LaterStep DEF vars
<1> QED
  BY <1>1, <1>2, <1>3, <1>4, <1>5, <1>6 DEF Next

----------------------------------------------------------------------------
(* Turns *)

\* The credentials that may have been picked since c was, when the last one was picked: those
\* between the two, in their order.
Passed(c, last) == {d \in Credentials : IF c <= last THEN c < d /\ d <= last ELSE c < d \/ d <= last}

Idling(s, p) == rotations[s][p].lastUsed < 0 => rotations[s][p].lastPicked = 0

Rotations == [lastUsed : Int, lastPicked : Nat, current : {Zero}, weights : {Zero}]

TurnsInv ==
  /\ offer \in [Credentials -> [weight : Weights, priority : Priorities]]
  /\ strategy = "round-robin" =>
       /\ rotations \in [Scopes -> [Pools -> Rotations]]
       /\ waits \in [Scopes -> [Pools -> [Credentials -> Nat]]]
       /\ \A s \in Scopes, p \in Pools : Idling(s, p)
       /\ \A s \in Scopes, p \in Pools, c \in Credentials :
            waits[s][p][c] <= Cardinality(Passed(c, rotations[s][p].lastPicked))

LEMMA PassedFinite ==
  ASSUME NEW c, NEW last
  PROVE  IsFiniteSet(Passed(c, last)) /\ Cardinality(Passed(c, last)) \in Nat
<1>1. Passed(c, last) \subseteq Credentials
  BY DEF Passed
<1> QED
  BY <1>1, SchedulerAssumption, FS_Subset, FS_CardinalityType

\* Nobody has been passed by itself.
LEMMA PassedByOthers ==
  ASSUME NEW c \in Credentials, NEW last \in Nat
  PROVE  Cardinality(Passed(c, last)) < Cardinality(Credentials)
<1>1. Passed(c, last) \subseteq Credentials \ {c}
  BY SchedulerAssumption DEF Passed
<1>2. IsFiniteSet(Credentials \ {c}) /\ Cardinality(Credentials \ {c}) = Cardinality(Credentials) - 1
  BY SchedulerAssumption, FS_RemoveElement
<1>3. Cardinality(Passed(c, last)) <= Cardinality(Credentials \ {c})
  BY <1>1, <1>2, FS_Subset
<1>4. Cardinality(Credentials) \in Nat
  BY SchedulerAssumption, FS_CardinalityType
<1> QED
  BY <1>2, <1>3, <1>4, PassedFinite

\* Least picks the first.
LEMMA LeastIs ==
  ASSUME NEW ids \in SUBSET Credentials, ids # {}
  PROVE  Least(ids) \in ids /\ \A d \in ids : Least(ids) <= d
<1>1. \E c \in ids : \A d \in ids : c <= d
  BY SchedulerAssumption, LeastNatural
<1> QED
  BY <1>1 DEF Least

\* Among some credentials one has the greatest of any numbers.
LEMMA GreatestAmong ==
  ASSUME NEW ids \in SUBSET Credentials, ids # {}, NEW f, \A c \in ids : f[c] \in Int
  PROVE  \E c \in ids : \A d \in ids : f[c] >= f[d]
<1> DEFINE Above(c) == {d \in ids : ~(f[c] >= f[d])}
           Counts == {Cardinality(Above(c)) : c \in ids}
<1>1. \A c \in ids : IsFiniteSet(Above(c)) /\ Cardinality(Above(c)) \in Nat
  <2>1. \A c \in ids : Above(c) \subseteq Credentials
    OBVIOUS
  <2> QED
    BY <2>1, SchedulerAssumption, FS_Subset, FS_CardinalityType
<1>2. PICK c \in ids : \A d \in ids : Cardinality(Above(c)) <= Cardinality(Above(d))
  <2>1. Counts \in SUBSET Nat /\ Counts # {}
    BY <1>1
  <2> HIDE DEF Above
  <2>2. \E x \in Counts : \A y \in Counts : x <= y
    BY <2>1, LeastNatural
  <2> QED
    BY <2>2
<1>3. ASSUME NEW d \in Above(c) PROVE FALSE
  <2>1. d \in ids /\ f[c] < f[d]
    BY <1>3
  <2>2. Above(d) \subseteq Above(c) /\ d \notin Above(d)
    BY <2>1
  <2>3. Above(d) \subseteq Above(c) \ {d}
    BY <2>2
  <2> HIDE DEF Above
  <2>4. IsFiniteSet(Above(c) \ {d}) /\ Cardinality(Above(c) \ {d}) = Cardinality(Above(c)) - 1
    BY <1>1, <1>3, FS_RemoveElement
  <2>5. Cardinality(Above(d)) <= Cardinality(Above(c)) - 1
    BY <2>3, <2>4, FS_Subset
  <2> QED
    BY <1>1, <1>2, <2>1, <2>5
<1> QED
  BY <1>3

\* Whoever may be picked has one of the highest priority.
LEMMA HighestIs ==
  ASSUME TurnsInv, NEW eligible \in SUBSET Credentials, eligible # {}
  PROVE  Highest(eligible) \in SUBSET Credentials /\ Highest(eligible) # {}
<1> DEFINE f == [c \in Credentials |-> offer[c].priority]
<1>1. \A c \in eligible : f[c] = offer[c].priority /\ f[c] \in Int
  BY SchedulerAssumption DEF TurnsInv
<1> HIDE DEF f
<1>2. \E c \in eligible : \A d \in eligible : f[c] >= f[d]
  BY <1>1, GreatestAmong
<1> QED
  BY <1>1, <1>2 DEF Highest

\* A candidate that is not picked has been passed by one more.
LEMMA TurnPasses ==
  ASSUME NEW candidates \in SUBSET Credentials, candidates # {}, NEW rotation, rotation.lastPicked \in Nat
  PROVE  LET selected == NextInTurn(rotation, candidates)
         IN  /\ selected \in candidates
             /\ \A c \in candidates \ {selected} :
                  Cardinality(Passed(c, selected)) > Cardinality(Passed(c, rotation.lastPicked))
<1> DEFINE last == rotation.lastPicked
           later == {c \in candidates : c > last}
           among == IF later = {} THEN candidates ELSE later
           selected == NextInTurn(rotation, candidates)
<1>1. selected = Least(among)
  BY DEF NextInTurn
<1>2. among \in SUBSET Credentials /\ among # {} /\ among \subseteq candidates
  OBVIOUS
<1>3. selected \in among /\ \A d \in among : selected <= d
  BY <1>1, <1>2, LeastIs
<1>4. candidates \subseteq Nat
  BY SchedulerAssumption
<1> HIDE DEF selected
<1>5. ASSUME NEW c \in candidates \ {selected}
      PROVE  Cardinality(Passed(c, selected)) > Cardinality(Passed(c, last))
  <2>1. /\ selected \notin Passed(c, last) /\ selected \in Passed(c, selected)
        /\ Passed(c, last) \subseteq Passed(c, selected)
    <3>0. selected \in Credentials /\ selected \in Nat /\ c \in Nat /\ last \in Nat /\ c # selected
      BY <1>2, <1>3, <1>4
    <3>1. CASE later = {}
      <4>1. c <= last /\ selected < c
        BY <1>3, <3>0, <3>1
      <4> HIDE DEF last
      <4> QED
        BY <3>0, <4>1, SchedulerAssumption DEF Passed
    <3>2. CASE later # {}
      <4>1. selected > last /\ (c > last => selected <= c)
        BY <1>3, <3>2
      <4>2. c > last => selected < c
        BY <3>0, <4>1
      <4>3. \A d \in Credentials : d \in Nat
        BY SchedulerAssumption
      <4> HIDE DEF last
      <4>4. CASE c <= last
        <5>1. c <= selected /\ last < selected
          BY <3>0, <4>1, <4>4
        <5>2. selected \notin Passed(c, last)
          BY <3>0, <4>3, <4>4, <5>1 DEF Passed
        <5>3. selected \in Passed(c, selected)
          BY <3>0, <4>3, <4>4, <5>1 DEF Passed
        <5>4. ASSUME NEW d \in Passed(c, last) PROVE d \in Passed(c, selected)
          <6>1. d \in Credentials /\ d \in Nat
            BY <4>3 DEF Passed
          <6> QED
            BY <3>0, <4>4, <5>1, <5>4, <6>1 DEF Passed
        <5> QED
          BY <5>2, <5>3, <5>4
      <4>5. CASE c > last
        <5>1. ~(c <= selected) /\ ~(c <= last) /\ last < selected
          BY <3>0, <4>1, <4>2, <4>5
        <5>2. selected \notin Passed(c, last)
          BY <3>0, <4>2, <4>3, <5>1 DEF Passed
        <5>3. selected \in Passed(c, selected)
          BY <3>0, <4>2, <4>3, <5>1 DEF Passed
        <5>4. ASSUME NEW d \in Passed(c, last) PROVE d \in Passed(c, selected)
          <6>1. d \in Credentials /\ d \in Nat
            BY <4>3 DEF Passed
          <6> QED
            BY <3>0, <4>2, <5>1, <5>4, <6>1 DEF Passed
        <5> QED
          BY <5>2, <5>3, <5>4
      <4> QED
        BY <3>0, <4>4, <4>5
    <3> QED
      BY <3>1, <3>2
  <2>2. Passed(c, last) \cup {selected} \subseteq Passed(c, selected)
    BY <2>1
  <2>3. Cardinality(Passed(c, last) \cup {selected}) = Cardinality(Passed(c, last)) + 1
    BY <2>1, PassedFinite, FS_AddElement
  <2>4. Cardinality(Passed(c, last) \cup {selected}) <= Cardinality(Passed(c, selected))
    BY <2>2, PassedFinite, FS_Subset
  <2> QED
    BY <2>3, <2>4, PassedFinite
<1> QED
  BY <1>2, <1>3, <1>5 DEF selected

LEMMA TurnsColdStep ==
  ASSUME SessionsInv, TurnsInv, strategy = "round-robin",
         NEW scope \in Scopes, NEW pool \in Pools, NEW session, NEW offered \in SUBSET Credentials,
         NEW now \in Instants, Cold(scope, pool, session, offered, now)
  PROVE  TurnsInv'
<1> DEFINE candidates == Highest(Eligible(offered))
           old == IF Exists(rotations[scope][pool]) THEN rotations[scope][pool] ELSE NewRotation
           selected == NextInTurn(old, candidates)
           turned == [old EXCEPT !.lastPicked = selected]
           used == [turned EXCEPT !.lastUsed = now]
           renewed == \E c \in candidates : old.weights[c] \notin {0, offer[c].weight}
<1>1. /\ rotations \in [Scopes -> [Pools -> Rotations]]
      /\ waits \in [Scopes -> [Pools -> [Credentials -> Nat]]]
      /\ \A s \in Scopes, p \in Pools : Idling(s, p)
      /\ \A s \in Scopes, p \in Pools, c \in Credentials :
           waits[s][p][c] <= Cardinality(Passed(c, rotations[s][p].lastPicked))
  BY DEF TurnsInv
<1>2. now \in Nat /\ UNCHANGED <<strategy, offer>>
  <2>1. now \in Nat
    BY DEF Instants, SessionsInv, TypeOK
  <2>2. UNCHANGED <<strategy, offer>>
    BY DEF Cold, configVars
  <2> QED
    BY <2>1, <2>2
<1>3. candidates \in SUBSET Credentials /\ candidates # {}
  <2>1. Eligible(offered) \in SUBSET Credentials /\ Eligible(offered) # {}
    BY DEF Eligible, Cold
  <2> QED
    BY <2>1, HighestIs
<1>4. old \in Rotations /\ old.lastPicked = rotations[scope][pool].lastPicked /\ old.lastPicked \in Nat
  <2>1. rotations[scope][pool] \in Rotations /\ Idling(scope, pool)
    BY <1>1
  <2>2. NewRotation \in Rotations /\ NewRotation.lastPicked = 0
    BY DEF NewRotation, NoRotation, Rotations
  <2> QED
    BY <2>1, <2>2 DEF Rotations, Idling, Exists
<1>5. Turn(old, candidates) = [selected |-> selected, rotation |-> turned]
  BY DEF Turn
<1> DEFINE turn == Turn(old, candidates)
           last == [turn.rotation EXCEPT !.lastUsed = now]
<1>6. PICK evicted \in Evicted(scope, pool) :
        /\ rotations' = [rotations EXCEPT ![scope] = [p \in Pools |->
                           IF p \in evicted THEN NoRotation ELSE IF p = pool THEN last ELSE @[p]]]
        /\ CountWaits(scope, pool, candidates, turn.selected, evicted, renewed)
  BY DEF Cold
<1> HIDE DEF turn
<1>7. turn.selected = selected /\ last = used
  <2> HIDE DEF candidates, old, selected, turned
  <2>1. turn = [selected |-> selected, rotation |-> turned]
    BY <1>5 DEF turn
  <2> QED
    BY <2>1
<1> HIDE DEF renewed
<1>8. waits' = [waits EXCEPT ![scope] = [p \in Pools |->
                 IF p \in evicted THEN Zero
                 ELSE IF p # pool THEN @[p]
                 ELSE [c \in Credentials |-> IF c = selected \/ c \notin candidates THEN 0
                                             ELSE IF renewed THEN 1 ELSE @[p][c] + 1]]]
  <2> HIDE DEF last, selected, candidates
  <2> QED
    BY <1>6, <1>7 DEF CountWaits
<1> HIDE DEF candidates, old, selected
<1>9. selected \in candidates /\ selected \in Nat
  <2>1. selected \in candidates
    BY <1>3, <1>4, TurnPasses DEF selected
  <2> QED
    BY <1>3, <2>1, SchedulerAssumption
<1>10. last \in Rotations /\ last.lastPicked = selected /\ last.lastUsed = now
  <2>1. turned \in Rotations /\ turned.lastPicked = selected
    BY <1>4, <1>9 DEF Rotations
  <2> HIDE DEF turned
  <2>2. used \in Rotations /\ used.lastPicked = selected /\ used.lastUsed = now
    BY <1>2, <2>1 DEF Rotations
  <2> HIDE DEF last, used
  <2> QED
    BY <1>7, <2>2
<1>11. NoRotation \in Rotations /\ NoRotation.lastPicked = 0 /\ Zero \in [Credentials -> Nat] /\ \A c \in Credentials : Zero[c] = 0
  BY DEF NoRotation, Rotations, Zero
<1> HIDE DEF last
<1>12. rotations' \in [Scopes -> [Pools -> Rotations]]
  BY <1>1, <1>6, <1>10, <1>11
<1>13. waits' \in [Scopes -> [Pools -> [Credentials -> Nat]]]
  <2>1. ASSUME NEW p \in Pools
        PROVE  [c \in Credentials |-> IF c = selected \/ c \notin candidates THEN 0
                                       ELSE IF renewed THEN 1 ELSE waits[scope][p][c] + 1] \in [Credentials -> Nat]
    BY <1>1
  <2> QED
    BY <1>1, <1>8, <1>11, <2>1
<1>14. ASSUME NEW s \in Scopes, NEW p \in Pools
       PROVE  /\ Idling(s, p)'
              /\ \A c \in Credentials : waits'[s][p][c] <= Cardinality(Passed(c, rotations'[s][p].lastPicked))
  <2>1. CASE s = scope /\ p \in evicted
    <3>1. rotations'[s][p] = NoRotation /\ waits'[s][p] = Zero
      BY <1>1, <1>6, <1>8, <2>1
    <3> QED
      BY <1>11, <3>1, PassedFinite DEF Idling
  <2>2. CASE s = scope /\ p = pool /\ p \notin evicted
    <3>1. rotations'[s][p] = last
      BY <1>1, <1>6, <2>2
    <3>2. Idling(s, p)'
      BY <1>2, <1>10, <3>1 DEF Idling
    <3>3. ASSUME NEW c \in Credentials PROVE waits'[s][p][c] <= Cardinality(Passed(c, selected))
      <4>1. waits'[s][p][c] = IF c = selected \/ c \notin candidates THEN 0
                              ELSE IF renewed THEN 1 ELSE waits[s][p][c] + 1
        BY <1>1, <1>8, <2>2
      <4>2. CASE c = selected \/ c \notin candidates
        BY <4>1, <4>2, PassedFinite
      <4>3. CASE ~(c = selected \/ c \notin candidates)
        <5>1. Cardinality(Passed(c, selected)) > Cardinality(Passed(c, old.lastPicked))
          BY <1>3, <1>4, <4>3, TurnPasses DEF selected
        <5>2. waits[s][p][c] <= Cardinality(Passed(c, old.lastPicked)) /\ waits[s][p][c] \in Nat
          BY <1>1, <1>4, <2>2
        <5>3. waits'[s][p][c] <= waits[s][p][c] + 1 /\ waits'[s][p][c] \in Nat
          BY <4>1, <4>3, <5>2
        <5> QED
          BY <5>1, <5>2, <5>3, PassedFinite
      <4> QED
        BY <4>2, <4>3
    <3> QED
      BY <1>10, <3>1, <3>2, <3>3
  <2>3. CASE ~(s = scope /\ (p \in evicted \/ p = pool))
    <3>1. rotations'[s][p] = rotations[s][p] /\ waits'[s][p] = waits[s][p]
      BY <1>1, <1>6, <1>8, <2>3
    <3> QED
      BY <1>1, <3>1 DEF Idling
  <2> QED
    BY <2>1, <2>2, <2>3
<1>15. offer' \in [Credentials -> [weight : Weights, priority : Priorities]]
  BY <1>2 DEF TurnsInv
<1> QED
  BY <1>12, <1>13, <1>14, <1>15 DEF TurnsInv

LEMMA TurnsReuseStep ==
  ASSUME SessionsInv, TurnsInv, strategy = "round-robin",
         NEW scope \in Scopes, NEW pool \in Pools, NEW session, NEW offered,
         NEW now \in Instants, Reuse(scope, pool, session, offered, now)
  PROVE  TurnsInv'
<1>1. /\ rotations \in [Scopes -> [Pools -> Rotations]]
      /\ \A s \in Scopes, p \in Pools : Idling(s, p)
  BY DEF TurnsInv
<1>2. now \in Nat /\ UNCHANGED <<strategy, offer, waits>>
  BY DEF Reuse, Instants, SessionsInv, TypeOK, configVars
<1> DEFINE r == rotations[scope][pool]
           used == IF Exists(r) THEN [r EXCEPT !.lastUsed = now] ELSE r
<1>3. rotations' = [rotations EXCEPT ![scope][pool] = used]
  BY DEF Reuse
<1>4. used \in Rotations /\ used.lastPicked = r.lastPicked /\ (used.lastUsed < 0 => used.lastPicked = 0)
  <2>1. r \in Rotations /\ Idling(scope, pool)
    BY <1>1
  <2> QED
    BY <1>2, <2>1 DEF Rotations, Idling
<1> HIDE DEF used
<1>5. rotations' \in [Scopes -> [Pools -> Rotations]]
  BY <1>1, <1>3, <1>4
<1>6. \A s \in Scopes, p \in Pools : Idling(s, p)' /\ rotations'[s][p].lastPicked = rotations[s][p].lastPicked
  BY <1>1, <1>3, <1>4 DEF Idling
<1> QED
  BY <1>2, <1>5, <1>6 DEF TurnsInv

\* All rotations may be forgotten.
LEMMA FreshTurns ==
         /\ NoRotation \in Rotations /\ Zero \in [Credentials -> Nat]
         /\ \A c \in Credentials : Zero[c] <= Cardinality(Passed(c, NoRotation.lastPicked))
         /\ NoRotation.lastPicked = 0
<1>1. NoRotation \in Rotations /\ Zero \in [Credentials -> Nat] /\ NoRotation.lastPicked = 0 /\ \A c \in Credentials : Zero[c] = 0
  BY DEF NoRotation, Rotations, Zero
<1> QED
  BY <1>1, PassedFinite

LEMMA TurnsConfigureStep ==
  ASSUME TurnsInv, NEW s, NEW a, NEW enabled, Configure(s, a, enabled)
  PROVE  TurnsInv'
<1>1. offer' \in [Credentials -> [weight : Weights, priority : Priorities]]
  BY DEF Configure, TurnsInv
<1>2. CASE UNCHANGED <<rotations, waits>> /\ strategy' = strategy
  BY <1>1, <1>2 DEF TurnsInv, Idling
<1>3. CASE Forget
  <2>1. rotations' = [x \in Scopes |-> [p \in Pools |-> NoRotation]] /\ waits' = [x \in Scopes |-> [p \in Pools |-> Zero]]
    BY <1>3 DEF Forget, NoWaits
  <2> QED
    BY <1>1, <2>1, FreshTurns DEF TurnsInv, Idling
<1> QED
  BY <1>2, <1>3 DEF Configure, configVars

LEMMA TurnsPruneStep ==
  ASSUME TurnsInv, NEW live, Prune(live)
  PROVE  TurnsInv'
<1>1. UNCHANGED <<strategy, offer>>
  BY DEF Prune, configVars
<1>2. /\ rotations' = [s \in Scopes |-> IF s \in live THEN rotations[s] ELSE [p \in Pools |-> NoRotation]]
      /\ waits' = [s \in Scopes |-> IF s \in live THEN waits[s] ELSE [p \in Pools |-> Zero]]
  BY DEF Prune
<1>3. ASSUME strategy = "round-robin"
      PROVE  /\ rotations' \in [Scopes -> [Pools -> Rotations]]
             /\ waits' \in [Scopes -> [Pools -> [Credentials -> Nat]]]
             /\ \A s \in Scopes, p \in Pools : Idling(s, p)'
             /\ \A s \in Scopes, p \in Pools, c \in Credentials :
                  waits'[s][p][c] <= Cardinality(Passed(c, rotations'[s][p].lastPicked))
  BY <1>2, <1>3, FreshTurns DEF TurnsInv, Idling
<1> QED
  BY <1>1, <1>3 DEF TurnsInv

LEMMA TurnsStep ==
  ASSUME SessionsInv, TurnsInv, [Next]_vars
  PROVE  TurnsInv'
<1>1. ASSUME NEW scope \in Scopes, NEW pool \in Pools, NEW session \in Sessions \cup {NoSession}, Pick(scope, pool, session)
      PROVE  TurnsInv'
  <2>1. PICK offered \in SUBSET Credentials \ {{}}, now \in Instants :
          Reuse(scope, pool, session, offered, now) \/ Cold(scope, pool, session, offered, now)
    BY <1>1 DEF Pick
  <2>2. CASE strategy = "round-robin"
    BY <2>1, <2>2, TurnsReuseStep, TurnsColdStep
  <2>3. CASE strategy # "round-robin"
    <3>1. UNCHANGED <<strategy, offer>>
      BY <2>1 DEF Reuse, Cold, configVars
    <3> QED
      BY <2>3, <3>1 DEF TurnsInv
  <2> QED
    BY <2>2, <2>3
<1>2. ASSUME NEW s \in Strategies, NEW a \in BOOLEAN, NEW enabled \in BOOLEAN, Configure(s, a, enabled)
      PROVE  TurnsInv'
  BY <1>2, TurnsConfigureStep
<1>3. ASSUME NEW live \in SUBSET Scopes, Prune(live) PROVE TurnsInv'
  BY <1>3, TurnsPruneStep
<1>4. ASSUME NEW c \in Credentials, NEW weight \in Weights, NEW priority \in Priorities, HostEdits(c, weight, priority)
      PROVE  TurnsInv'
  BY <1>4 DEF HostEdits, TurnsInv, Idling, configVars
<1>5. ASSUME UNCHANGED <<strategy, offer, rotations, waits>> PROVE TurnsInv'
  BY <1>5 DEF TurnsInv, Idling
<1>6. CASE Tick
  BY <1>5, <1>6 DEF Tick, configVars
<1>7. CASE UNCHANGED vars
  BY <1>5, <1>7 DEF vars, configVars
<1> QED
  BY <1>1, <1>2, <1>3, <1>4, <1>6, <1>7 DEF Next

LEMMA TurnsAtFirst ==
  ASSUME Init PROVE TurnsInv
<1>1. rotations = [x \in Scopes |-> [p \in Pools |-> NoRotation]] /\ waits = [x \in Scopes |-> [p \in Pools |-> Zero]]
  BY DEF Init, NoWaits
<1> QED
  BY <1>1, FreshTurns DEF Init, TurnsInv, Idling

LEMMA TurnsInvImplies ==
  ASSUME TurnsInv PROVE TurnsTaken
<1> SUFFICES ASSUME strategy = "round-robin", NEW s \in Scopes, NEW p \in Pools, NEW c \in Credentials
             PROVE  waits[s][p][c] < Cardinality(Credentials)
  BY DEF TurnsTaken
<1>1. /\ rotations[s][p] \in Rotations /\ waits[s][p][c] \in Nat
      /\ waits[s][p][c] <= Cardinality(Passed(c, rotations[s][p].lastPicked))
  BY DEF TurnsInv
<1>2. Cardinality(Passed(c, rotations[s][p].lastPicked)) < Cardinality(Credentials)
  BY <1>1, PassedByOthers DEF Rotations
<1>3. Cardinality(Credentials) \in Nat
  BY SchedulerAssumption, FS_CardinalityType
<1> QED
  BY <1>1, <1>2, <1>3, PassedFinite

----------------------------------------------------------------------------
(* Sums over credentials *)

\* The sum of f over some credentials.
Sum(f, ids) ==
  LET sum[n \in 0 .. LastId] ==
        IF n = 0 THEN 0 ELSE sum[n - 1] + IF n \in ids THEN f[n] ELSE 0
  IN  sum[LastId]

\* s is the list of the sums of f over those up to each.
Sums(s, f, ids, length) ==
  /\ s \in [0 .. length -> Int] /\ s[0] = 0
  /\ \A n \in 1 .. length : s[n] = s[n - 1] + IF n \in ids THEN f[n] ELSE 0

\* Two such lists over the same numbers are one.
LEMMA SumsAgree ==
  ASSUME NEW length \in Nat, NEW f, NEW g, NEW ids, NEW s, NEW t,
         Sums(s, f, ids, length), DOMAIN t = 0 .. length, t[0] = 0,
         \A n \in 1 .. length : t[n] = t[n - 1] + IF n \in ids THEN f[n] ELSE 0
  PROVE  \A n \in 0 .. length : t[n] = s[n]
<1> DEFINE wrong == {n \in 0 .. length : t[n] # s[n]}
<1>1. SUFFICES ASSUME wrong # {} PROVE FALSE
  OBVIOUS
<1>2. PICK n \in wrong : \A m \in wrong : n <= m
  <2>1. wrong \in SUBSET Nat
    OBVIOUS
  <2> HIDE DEF wrong
  <2> QED
    BY <1>1, <2>1, LeastNatural
<1>3. n \in 0 .. length /\ t[n] # s[n] /\ n # 0
  BY <1>2 DEF Sums
<1>4. n \in 1 .. length /\ n - 1 \in 0 .. length /\ ~(n <= n - 1)
  BY <1>3
<1>5. t[n - 1] = s[n - 1]
  BY <1>2, <1>4
<1> QED
  BY <1>3, <1>4, <1>5 DEF Sums

\* What the list of sums ends with is the sum.
LEMMA SumIs ==
  ASSUME LastId \in Nat, NEW f, NEW ids, NEW s, Sums(s, f, ids, LastId)
  PROVE  Sum(f, ids) = s[LastId]
<1> DEFINE all == CHOOSE sum : sum = [n \in 0 .. LastId |->
                    IF n = 0 THEN 0 ELSE sum[n - 1] + IF n \in ids THEN f[n] ELSE 0]
<1>1. s = [n \in 0 .. LastId |-> IF n = 0 THEN 0 ELSE s[n - 1] + IF n \in ids THEN f[n] ELSE 0]
  BY DEF Sums
<1>2. all = [n \in 0 .. LastId |-> IF n = 0 THEN 0 ELSE all[n - 1] + IF n \in ids THEN f[n] ELSE 0]
  BY <1>1
<1>3. Sum(f, ids) = all[LastId]
  BY DEF Sum
<1> HIDE DEF all
<1>4. DOMAIN all = 0 .. LastId /\ all[0] = 0
  BY <1>2
<1>5. \A n \in 1 .. LastId : all[n] = all[n - 1] + IF n \in ids THEN f[n] ELSE 0
  BY <1>2
<1>6. all[LastId] = s[LastId]
  BY <1>4, <1>5, SumsAgree
<1> QED
  BY <1>3, <1>6

\* There is such a list for all integers.
LEMMA SumsExist ==
  ASSUME NEW length \in Nat, NEW f, NEW ids, \A n \in ids : f[n] \in Int
  PROVE  \E s : Sums(s, f, ids, length)
<1> DEFINE missing == {n \in Nat : ~\E s : Sums(s, f, ids, n)}
<1>1. SUFFICES ASSUME missing # {} PROVE FALSE
  BY <1>1
<1>2. PICK n \in missing : \A k \in missing : n <= k
  <2>1. missing \in SUBSET Nat
    OBVIOUS
  <2> HIDE DEF missing
  <2> QED
    BY <1>1, <2>1, LeastNatural
<1>3. n # 0
  <2> DEFINE s == [m \in 0 .. 0 |-> 0]
  <2>1. Sums(s, f, ids, 0)
    BY DEF Sums
  <2> QED
    BY <2>1
<1>4. n \in Nat /\ n - 1 \in Nat /\ n - 1 \notin missing
  BY <1>2, <1>3
<1>5. PICK s : Sums(s, f, ids, n - 1)
  BY <1>4
<1> DEFINE here == IF n \in ids THEN f[n] ELSE 0
           t == [m \in 0 .. n |-> IF m = n THEN s[n - 1] + here ELSE s[m]]
<1>6. here \in Int /\ s[n - 1] \in Int
  BY <1>4, <1>5 DEF Sums
<1>7. Sums(t, f, ids, n)
  <2>1. t \in [0 .. n -> Int]
    BY <1>4, <1>5, <1>6 DEF Sums
  <2>2. t[0] = 0
    BY <1>3, <1>4, <1>5 DEF Sums
  <2>3. ASSUME NEW m \in 1 .. n PROVE t[m] = t[m - 1] + IF m \in ids THEN f[m] ELSE 0
    <3>1. m \in 0 .. n /\ m - 1 \in 0 .. n /\ m - 1 # n
      BY <1>4
    <3>2. t[m - 1] = s[m - 1]
      BY <3>1
    <3>3. CASE m = n
      BY <3>1, <3>2, <3>3
    <3>4. CASE m # n
      <4>1. m \in 1 .. n - 1
        BY <1>4, <3>4
      <4> QED
        BY <1>5, <3>1, <3>2, <3>4, <4>1 DEF Sums
    <3> QED
      BY <3>3, <3>4
  <2> HIDE DEF t
  <2> QED
    BY <2>1, <2>2, <2>3 DEF Sums
<1> QED
  BY <1>2, <1>7

LEMMA LastIdIs ==
  LastId \in Nat /\ \A c \in Credentials : c \in 1 .. LastId
<1> DEFINE unbounded == {n \in Nat : \E ids \in SUBSET Credentials :
                           IsFiniteSet(ids) /\ Cardinality(ids) = n
                             /\ ~\E c \in ids \cup {0} : \A d \in ids : d <= c}
<1>1. unbounded = {}
  <2> SUFFICES ASSUME unbounded # {} PROVE FALSE
    OBVIOUS
  <2>1. PICK n \in unbounded : \A m \in unbounded : n <= m
    <3>1. unbounded \in SUBSET Nat
      OBVIOUS
    <3> HIDE DEF unbounded
    <3> QED
      BY <3>1, LeastNatural
  <2>2. PICK ids \in SUBSET Credentials : IsFiniteSet(ids) /\ Cardinality(ids) = n
                             /\ ~\E c \in ids \cup {0} : \A d \in ids : d <= c
    BY <2>1
  <2>3. PICK e \in ids : TRUE
    BY <2>2
  <2>4. IsFiniteSet(ids \ {e}) /\ Cardinality(ids \ {e}) = n - 1
    BY <2>2, <2>3, FS_RemoveElement
  <2>5. n - 1 \in Nat /\ ~(n <= n - 1)
    BY <2>1, <2>4, FS_CardinalityType
  <2>6. PICK c \in (ids \ {e}) \cup {0} : \A d \in ids \ {e} : d <= c
    BY <2>1, <2>4, <2>5
  <2>7. \A d \in ids : d \in Nat \ {0}
    BY SchedulerAssumption
  <2>8. c \in Nat /\ e \in Nat
    BY <2>3, <2>6, <2>7
  <2>9. CASE e <= c
    BY <2>2, <2>6, <2>9
  <2>10. CASE ~(e <= c)
    <3>1. \A d \in ids : d <= e
      BY <2>6, <2>7, <2>8, <2>10
    <3> QED
      BY <2>2, <2>3, <3>1
  <2> QED
    BY <2>9, <2>10
<1>2. Cardinality(Credentials) \in Nat
  BY SchedulerAssumption, FS_CardinalityType
<1>3. \E c \in Credentials \cup {0} : \A d \in Credentials : d <= c
  BY <1>1, <1>2, SchedulerAssumption
<1>4. LastId \in Credentials \cup {0} /\ \A d \in Credentials : d <= LastId
  BY <1>3 DEF LastId
<1> QED
  BY <1>4, SchedulerAssumption

LEMMA SumsOf ==
  ASSUME NEW ids \in SUBSET Credentials, NEW f, \A c \in ids : f[c] \in Int
  PROVE  \E s : Sums(s, f, ids, LastId) /\ Sum(f, ids) = s[LastId] /\ Sum(f, ids) \in Int
<1>1. PICK s : Sums(s, f, ids, LastId)
  BY LastIdIs, SumsExist
<1>2. s[LastId] \in Int
  BY <1>1, LastIdIs DEF Sums
<1> QED
  BY <1>1, <1>2, LastIdIs, SumIs

\* Where each part is the sum of two, so is the whole.
LEMMA SumAdds ==
  ASSUME NEW a \in SUBSET Credentials, NEW b \in SUBSET Credentials, NEW c \in SUBSET Credentials, NEW f, NEW g, NEW h,
         \A n \in b : f[n] \in Int, \A n \in c : g[n] \in Int, \A n \in a : h[n] \in Int,
         \A n \in Credentials :
           (IF n \in a THEN h[n] ELSE 0) = (IF n \in b THEN f[n] ELSE 0) + (IF n \in c THEN g[n] ELSE 0)
  PROVE  Sum(h, a) = Sum(f, b) + Sum(g, c)
<1>1. PICK s : Sums(s, f, b, LastId) /\ Sum(f, b) = s[LastId]
  BY SumsOf
<1>2. PICK r : Sums(r, g, c, LastId) /\ Sum(g, c) = r[LastId]
  BY SumsOf
<1> DEFINE t == [n \in 0 .. LastId |-> s[n] + r[n]]
<1>3. LastId \in Nat
  BY LastIdIs
<1>4. t \in [0 .. LastId -> Int] /\ t[0] = 0
  BY <1>1, <1>2, <1>3 DEF Sums
<1>5. ASSUME NEW n \in 1 .. LastId PROVE t[n] = t[n - 1] + IF n \in a THEN h[n] ELSE 0
  <2> DEFINE x == IF n \in b THEN f[n] ELSE 0
             y == IF n \in c THEN g[n] ELSE 0
             z == IF n \in a THEN h[n] ELSE 0
  <2>1. x \in Int /\ y \in Int /\ z \in Int
    OBVIOUS
  <2>2. z = x + y
    <3>1. CASE n \in Credentials
      BY <3>1
    <3>2. CASE n \notin Credentials
      BY <3>2
    <3> QED
      BY <3>1, <3>2
  <2>3. s[n] = s[n - 1] + x /\ r[n] = r[n - 1] + y
    BY <1>1, <1>2 DEF Sums
  <2> HIDE DEF x, y, z
  <2>4. n \in 0 .. LastId /\ n - 1 \in 0 .. LastId
    BY <1>3
  <2>5. s[n - 1] \in Int /\ r[n - 1] \in Int
    BY <1>1, <1>2, <2>4 DEF Sums
  <2>6. t[n] = t[n - 1] + z
    BY <2>1, <2>2, <2>3, <2>4, <2>5
  <2> QED
    BY <2>6 DEF z
<1>6. t[LastId] = s[LastId] + r[LastId]
  BY <1>3
<1> HIDE DEF t
<1>7. Sums(t, h, a, LastId)
  BY <1>4, <1>5 DEF Sums
<1> QED
  BY <1>1, <1>2, <1>3, <1>6, <1>7, SumIs

\* Where all parts are the same, so is the sum.
LEMMA SumAgrees ==
  ASSUME NEW a \in SUBSET Credentials, NEW b \in SUBSET Credentials, NEW f, NEW g, \A n \in a : f[n] \in Int,
         \A n \in Credentials : (IF n \in b THEN g[n] ELSE 0) = (IF n \in a THEN f[n] ELSE 0)
  PROVE  Sum(g, b) = Sum(f, a)
<1>1. PICK s : Sums(s, f, a, LastId) /\ Sum(f, a) = s[LastId]
  BY SumsOf
<1>2. \A n \in 1 .. LastId : (IF n \in b THEN g[n] ELSE 0) = (IF n \in a THEN f[n] ELSE 0)
  <2> SUFFICES ASSUME NEW n \in 1 .. LastId
               PROVE  (IF n \in b THEN g[n] ELSE 0) = (IF n \in a THEN f[n] ELSE 0)
    OBVIOUS
  <2>1. CASE n \in Credentials
    BY <2>1
  <2>2. CASE n \notin Credentials
    <3>1. n \notin a /\ n \notin b
      BY <2>2
    <3> QED
      BY <3>1
  <2> QED
    BY <2>1, <2>2
<1>3. Sums(s, g, b, LastId)
  <2>1. s \in [0 .. LastId -> Int] /\ s[0] = 0
    BY <1>1 DEF Sums
  <2>2. \A n \in 1 .. LastId : s[n] = s[n - 1] + IF n \in a THEN f[n] ELSE 0
    BY <1>1 DEF Sums
  <2>3. ASSUME NEW n \in 1 .. LastId PROVE s[n] = s[n - 1] + IF n \in b THEN g[n] ELSE 0
    <3> DEFINE x == IF n \in a THEN f[n] ELSE 0
               y == IF n \in b THEN g[n] ELSE 0
    <3>1. s[n] = s[n - 1] + x /\ x = y
      BY <1>2, <2>2
    <3> HIDE DEF x, y
    <3>2. s[n] = s[n - 1] + y
      BY <3>1
    <3> QED
      BY <3>2 DEF y
  <2> QED
    BY <2>1, <2>3 DEF Sums
<1> QED
  BY <1>1, <1>3, LastIdIs, SumIs

\* No credentials, or numbers that are nothing, sum up to nothing.
LEMMA SumOfNone == \A f : Sum(f, {}) = 0
<1> SUFFICES ASSUME NEW f PROVE Sum(f, {}) = 0
  OBVIOUS
<1> DEFINE t == [n \in 0 .. LastId |-> 0]
<1>1. LastId \in Nat
  BY LastIdIs
<1>2. t \in [0 .. LastId -> Int] /\ \A n \in 0 .. LastId : t[n] = 0
  OBVIOUS
<1> HIDE DEF t
<1>3. \A n \in 1 .. LastId : t[n] = t[n - 1] + IF n \in {} THEN f[n] ELSE 0
  <2> SUFFICES ASSUME NEW n \in 1 .. LastId PROVE t[n] = t[n - 1] + 0
    OBVIOUS
  <2>1. n \in 0 .. LastId /\ n - 1 \in 0 .. LastId
    BY <1>1
  <2> QED
    BY <1>2, <2>1
<1>4. Sums(t, f, {}, LastId)
  BY <1>1, <1>2, <1>3 DEF Sums
<1> QED
  BY <1>1, <1>2, <1>4, SumIs

LEMMA SumOfZeros ==
  ASSUME NEW f, NEW ids \in SUBSET Credentials, \A c \in ids : f[c] = 0
  PROVE  Sum(f, ids) = 0
<1> DEFINE nobody == {}
<1>1. nobody \in SUBSET Credentials /\ (\A c \in nobody : f[c] \in Int) /\ \A c : c \notin nobody
  OBVIOUS
<1>2. Sum(f, nobody) = 0
  BY SumOfNone
<1> HIDE DEF nobody
<1>3. \A c \in Credentials : (IF c \in ids THEN f[c] ELSE 0) = (IF c \in nobody THEN f[c] ELSE 0)
  BY <1>1
<1>4. Sum(f, ids) = Sum(f, nobody)
  BY <1>1, <1>3, SumAgrees
<1> QED
  BY <1>2, <1>4

LEMMA SumOfOne ==
  ASSUME NEW c \in Credentials, NEW f, f[c] \in Int
  PROVE  Sum(f, {c}) = f[c]
<1> DEFINE t == [n \in 0 .. LastId |-> IF n < c THEN 0 ELSE f[c]]
<1>1. LastId \in Nat /\ c \in 1 .. LastId
  BY LastIdIs
<1>2. t \in [0 .. LastId -> Int] /\ t[0] = 0 /\ t[LastId] = f[c]
  BY <1>1
<1>3. ASSUME NEW n \in 1 .. LastId PROVE t[n] = t[n - 1] + IF n \in {c} THEN f[n] ELSE 0
  <2>1. n \in 0 .. LastId /\ n - 1 \in 0 .. LastId /\ n \in Int /\ c \in Int
    BY <1>1
  <2>2. t[n] = (IF n < c THEN 0 ELSE f[c]) /\ t[n - 1] = (IF n - 1 < c THEN 0 ELSE f[c])
    BY <2>1
  <2> HIDE DEF t
  <2>3. CASE n = c
    BY <2>1, <2>2, <2>3
  <2>4. CASE n < c
    BY <2>1, <2>2, <2>4
  <2>5. CASE n > c
    BY <2>1, <2>2, <2>5
  <2> QED
    BY <2>1, <2>3, <2>4, <2>5
<1> HIDE DEF t
<1>4. Sums(t, f, {c}, LastId)
  BY <1>2, <1>3 DEF Sums
<1> QED
  BY <1>1, <1>2, <1>4, SumIs

\* One more, or one less.
LEMMA SumOfMore ==
  ASSUME NEW ids \in SUBSET Credentials, NEW c \in Credentials \ ids, NEW f, \A n \in ids \cup {c} : f[n] \in Int
  PROVE  Sum(f, ids \cup {c}) = Sum(f, ids) + f[c]
<1>1. Sum(f, {c}) = f[c]
  BY SumOfOne
<1>2. {c} \in SUBSET Credentials /\ ids \cup {c} \in SUBSET Credentials
  OBVIOUS
<1>3. \A n \in Credentials :
           (IF n \in ids \cup {c} THEN f[n] ELSE 0) = (IF n \in ids THEN f[n] ELSE 0) + (IF n \in {c} THEN f[n] ELSE 0)
  OBVIOUS
<1>4. Sum(f, ids \cup {c}) = Sum(f, ids) + Sum(f, {c})
  BY <1>2, <1>3, SumAdds
<1> QED
  BY <1>1, <1>4

LEMMA CountOf ==
  ASSUME NEW ids \in SUBSET Credentials
  PROVE  /\ IsFiniteSet(ids) /\ Cardinality(ids) \in Nat /\ Cardinality(ids) <= Cardinality(Credentials)
         /\ Cardinality(Credentials) \in Nat
         /\ \A c \in ids : Cardinality(ids \ {c}) = Cardinality(ids) - 1
         /\ \A c \in Credentials \ ids : Cardinality(ids \cup {c}) = Cardinality(ids) + 1
<1>1. IsFiniteSet(ids) /\ Cardinality(ids) <= Cardinality(Credentials)
  BY SchedulerAssumption, FS_Subset
<1> QED
  BY <1>1, SchedulerAssumption, FS_CardinalityType, FS_RemoveElement, FS_AddElement

\* The sum of numbers that are no greater than b.
LEMMA SumAtMost ==
  ASSUME NEW ids \in SUBSET Credentials, NEW f, NEW b \in Int, \A c \in ids : f[c] \in Int /\ f[c] <= b
  PROVE  Sum(f, ids) <= b * Cardinality(ids)
<1> DEFINE wrong == {n \in Nat : \E some \in SUBSET ids : Cardinality(some) = n /\ ~(Sum(f, some) <= b * n)}
<1>1. SUFFICES ASSUME wrong # {} PROVE FALSE
  BY <1>1, CountOf
<1>2. PICK n \in wrong : \A m \in wrong : n <= m
  <2>1. wrong \in SUBSET Nat
    OBVIOUS
  <2> HIDE DEF wrong
  <2> QED
    BY <1>1, <2>1, LeastNatural
<1>3. PICK some \in SUBSET ids : Cardinality(some) = n /\ ~(Sum(f, some) <= b * n)
  BY <1>2
<1>4. some \in SUBSET Credentials /\ some # {}
  <2>1. Cardinality({}) = 0
    BY FS_EmptySet
  <2>2. b * 0 = 0
    OBVIOUS
  <2> QED
    BY <1>3, <2>1, <2>2, SumOfNone
<1>5. PICK c \in some : TRUE
  BY <1>4
<1> DEFINE rest == some \ {c}
<1>6. Cardinality(rest) = n - 1 /\ Cardinality(rest) \in Nat
  BY <1>3, <1>4, <1>5, CountOf
<1>7. rest \in SUBSET ids /\ rest \in SUBSET Credentials /\ c \in Credentials \ rest /\ rest \cup {c} = some
  BY <1>4, <1>5
<1> HIDE DEF rest
<1>8. Sum(f, some) = Sum(f, rest) + f[c] /\ Sum(f, rest) \in Int /\ f[c] \in Int /\ f[c] <= b
  <2>1. \A m \in rest : f[m] \in Int
    BY <1>7
  <2> QED
    BY <1>3, <1>7, <2>1, SumOfMore, SumsOf
<1>9. Sum(f, rest) <= b * (n - 1)
  <2>1. n - 1 \in Nat /\ n - 1 \notin wrong
    BY <1>2, <1>6
  <2> QED
    BY <1>6, <1>7, <2>1
<1>10. b * (n - 1) + b = b * n /\ b * (n - 1) \in Int
  BY <1>2
<1> QED
  BY <1>3, <1>8, <1>9, <1>10

\* Natural numbers add up to no less for more of them.
LEMMA SumOfNaturals ==
  ASSUME NEW f, NEW ids \in SUBSET Credentials, \A c \in ids : f[c] \in Nat, NEW some \in SUBSET ids
  PROVE  0 <= Sum(f, some) /\ Sum(f, some) <= Sum(f, ids) /\ Sum(f, some) \in Int /\ Sum(f, ids) \in Int
<1>1. ASSUME NEW any \in SUBSET ids PROVE 0 <= Sum(f, any) /\ Sum(f, any) \in Int
  <2> DEFINE less == [c \in Credentials |-> IF c \in any THEN -f[c] ELSE 0]
             none == [c \in Credentials |-> 0]
  <2>1. any \in SUBSET Credentials /\ (\A c \in any : f[c] \in Int) /\ (\A c \in any : less[c] \in Int /\ less[c] <= 0)
    OBVIOUS
  <2>2. Sum(less, any) <= 0 * Cardinality(any)
    <3>1. \A c \in any : less[c] \in Int /\ less[c] <= 0
      BY <2>1
    <3> HIDE DEF less
    <3> QED
      BY <2>1, <3>1, SumAtMost
  <2>3. \A c \in any : none[c] = 0 /\ none[c] = f[c] + less[c]
    OBVIOUS
  <2>4. \A c \in Credentials :
           (IF c \in any THEN none[c] ELSE 0) = (IF c \in any THEN f[c] ELSE 0) + (IF c \in any THEN less[c] ELSE 0)
    BY <2>3
  <2> HIDE DEF less, none
  <2>5. Sum(none, any) = Sum(f, any) + Sum(less, any)
    <3>1. \A c \in any : none[c] \in Int
      BY <2>3
    <3> QED
      BY <2>1, <2>4, <3>1, SumAdds
  <2>6. Sum(f, any) \in Int /\ Sum(less, any) \in Int
    BY <2>1, SumsOf
  <2>7. 0 * Cardinality(any) = 0
    BY <2>1, CountOf
  <2>8. Sum(none, any) = 0
    BY <2>1, <2>3, SumOfZeros
  <2> QED
    BY <2>2, <2>5, <2>6, <2>7, <2>8
<1> DEFINE others == ids \ some
<1>2. others \in SUBSET ids /\ others \in SUBSET Credentials /\ some \in SUBSET Credentials
  OBVIOUS
<1>3. \A c \in Credentials :
           (IF c \in ids THEN f[c] ELSE 0) = (IF c \in some THEN f[c] ELSE 0) + (IF c \in others THEN f[c] ELSE 0)
  OBVIOUS
<1>4. Sum(f, ids) = Sum(f, some) + Sum(f, others)
  BY <1>2, <1>3, SumAdds
<1> QED
  BY <1>1, <1>2, <1>4

\* What the list of sums holds at n is the sum over those up to n.
LEMMA SumSoFar ==
  ASSUME NEW f, NEW ids \in SUBSET Credentials, \A c \in ids : f[c] \in Nat, NEW s, Sums(s, f, ids, LastId),
         NEW n \in 0 .. LastId
  PROVE  0 <= s[n] /\ s[n] <= Sum(f, ids) /\ s[n] \in Int /\ Sum(f, ids) \in Int
<1> DEFINE first == {c \in ids : c <= n}
           t == [m \in 0 .. LastId |-> IF m <= n THEN s[m] ELSE s[n]]
<1>1. LastId \in Nat /\ n \in Nat /\ n <= LastId
  BY LastIdIs
<1>2. t \in [0 .. LastId -> Int] /\ t[0] = 0 /\ t[LastId] = s[n]
  BY <1>1 DEF Sums
<1>3. ASSUME NEW m \in 1 .. LastId PROVE t[m] = t[m - 1] + IF m \in first THEN f[m] ELSE 0
  <2>1. m \in 0 .. LastId /\ m - 1 \in 0 .. LastId /\ m \in Int /\ s[n] \in Int
    BY <1>1 DEF Sums
  <2>2. t[m] = (IF m <= n THEN s[m] ELSE s[n]) /\ t[m - 1] = (IF m - 1 <= n THEN s[m - 1] ELSE s[n])
    BY <2>1
  <2> HIDE DEF t
  <2>3. CASE m <= n
    <3>1. m - 1 <= n /\ (m \in first <=> m \in ids) /\ s[m] = s[m - 1] + IF m \in ids THEN f[m] ELSE 0
      BY <1>1, <2>1, <2>3 DEF Sums
    <3> QED
      BY <2>2, <2>3, <3>1
  <2>4. CASE ~(m <= n)
    <3>1. m \notin first /\ (m - 1 <= n => m - 1 = n)
      BY <1>1, <2>1, <2>4
    <3>2. t[m] = s[n] /\ t[m - 1] = s[n]
      BY <2>2, <2>4, <3>1
    <3> QED
      BY <2>1, <3>1, <3>2
  <2> QED
    BY <2>3, <2>4
<1> HIDE DEF t
<1>4. Sums(t, f, first, LastId)
  BY <1>2, <1>3 DEF Sums
<1>5. Sum(f, first) = s[n]
  BY <1>1, <1>2, <1>4, SumIs
<1>6. first \in SUBSET ids
  OBVIOUS
<1> HIDE DEF first
<1> QED
  BY <1>5, <1>6, SumOfNaturals

WeightsOffered == [c \in Credentials |-> offer[c].weight]

\* Weights whose sum is an integer of the program are added up without being cut short.
LEMMA TotalIs ==
  ASSUME NEW ids \in SUBSET Credentials, \A c \in Credentials : offer[c].weight \in Nat,
         Sum(WeightsOffered, ids) <= MaxScore
  PROVE  Total(ids) = Sum(WeightsOffered, ids)
<1> DEFINE f == WeightsOffered
           Step(total, n) == IF n = 0 THEN 0
                             ELSE IF n \in ids THEN Score(total[n - 1], offer[n].weight) ELSE total[n - 1]
           all == CHOOSE total : total = [n \in 0 .. LastId |-> Step(total, n)]
<1>1. \A c \in ids : f[c] = offer[c].weight /\ f[c] \in Nat /\ f[c] \in Int
  BY DEF WeightsOffered
<1> HIDE DEF f
<1>2. PICK s : Sums(s, f, ids, LastId) /\ Sum(f, ids) = s[LastId]
  BY <1>1, SumsOf
<1>3. LastId \in Nat /\ MaxScore \in Nat
  BY LastIdIs, SchedulerAssumption
<1>4. ASSUME NEW n \in 1 .. LastId
      PROVE  s[n] = IF n \in ids THEN Score(s[n - 1], offer[n].weight) ELSE s[n - 1]
  <2>1. n \in 0 .. LastId /\ n - 1 \in 0 .. LastId /\ n # 0
    BY <1>3
  <2>2. 0 <= s[n] /\ s[n] <= Sum(f, ids) /\ s[n] \in Int /\ s[n - 1] \in Int /\ Sum(f, ids) \in Int
    BY <1>1, <1>2, <2>1, SumSoFar
  <2>3. Sum(f, ids) <= MaxScore
    BY DEF f
  <2>4. s[n] = s[n - 1] + IF n \in ids THEN f[n] ELSE 0
    BY <1>2 DEF Sums
  <2>5. CASE n \in ids
    <3>1. s[n] = s[n - 1] + offer[n].weight
      BY <1>1, <2>4, <2>5
    <3>2. ~(s[n - 1] + offer[n].weight > MaxScore) /\ ~(s[n - 1] + offer[n].weight < -MaxScore - 1)
      BY <1>3, <2>2, <2>3, <3>1
    <3> QED
      BY <2>5, <3>1, <3>2 DEF Score
  <2>6. CASE n \notin ids
    BY <2>2, <2>4, <2>6
  <2> QED
    BY <2>5, <2>6
<1>5. s = [n \in 0 .. LastId |-> Step(s, n)]
  <2>1. DOMAIN s = 0 .. LastId /\ s = [n \in 0 .. LastId |-> s[n]]
    BY <1>2 DEF Sums
  <2>2. s[0] = 0
    BY <1>2 DEF Sums
  <2>3. ASSUME NEW n \in 0 .. LastId PROVE s[n] = Step(s, n)
    <3>1. n = 0 \/ n \in 1 .. LastId
      BY <1>3
    <3>2. n \in 1 .. LastId => n # 0
      BY <1>3
    <3> QED
      BY <1>4, <2>2, <3>1, <3>2
  <2> HIDE DEF Step
  <2> QED
    BY <2>1, <2>3
<1>6. Total(ids) = all[LastId]
  BY DEF Total
<1> HIDE DEF Step
<1>7. all = [n \in 0 .. LastId |-> Step(all, n)]
  BY <1>5
<1> HIDE DEF all
<1> DEFINE wrong == {n \in 0 .. LastId : all[n] # s[n]}
<1>8. wrong = {}
  <2> SUFFICES ASSUME wrong # {} PROVE FALSE
    OBVIOUS
  <2>1. PICK n \in wrong : \A m \in wrong : n <= m
    <3>1. wrong \in SUBSET Nat
      OBVIOUS
    <3> HIDE DEF wrong
    <3> QED
      BY <3>1, LeastNatural
  <2>2. n \in 0 .. LastId /\ all[n] # s[n]
    BY <2>1
  <2>3. all[n] = Step(all, n) /\ s[n] = Step(s, n)
    BY <1>5, <1>7, <2>2
  <2>4. n # 0
    BY <2>2, <2>3 DEF Step
  <2>5. n - 1 \in 0 .. LastId /\ ~(n <= n - 1)
    BY <1>3, <2>2, <2>4
  <2>6. all[n - 1] = s[n - 1]
    BY <2>1, <2>5
  <2> QED
    BY <2>2, <2>3, <2>4, <2>6 DEF Step
<1>9. all[LastId] = s[LastId]
  BY <1>3, <1>8
<1> QED
  BY <1>2, <1>6, <1>9 DEF f

----------------------------------------------------------------------------
(* Credits *)

Count == Cardinality(Credentials)

\* What a turn may cost.
Turnover == Count * MaxWeight

\* Twice what n credentials may have been credited together.
Room(n) == Turnover * (n * (Count - n))

Balanced(credits) ==
  /\ credits \in [Credentials -> Int]
  /\ Sum(credits, Credentials) = 0
  /\ \A ids \in SUBSET Credentials : 2 * Sum(credits, ids) <= Room(Cardinality(ids))

LEMMA FittingIs ==
  ASSUME Fitting, Weights # {}, Credentials # {}
  PROVE  /\ Count \in Nat /\ Count >= 1
         /\ MaxWeight \in Nat /\ \A w \in Weights : w <= MaxWeight
         /\ Count * Count * MaxWeight <= MaxScore /\ MaxScore \in Nat
         /\ Turnover \in Nat
<1>1. Count \in Nat /\ Count >= 1
  <2>1. Count \in Nat /\ Count # 0
    BY SchedulerAssumption, FS_CardinalityType, FS_EmptySet DEF Count
  <2> QED
    BY <2>1
<1>2. MaxScore \in Nat /\ Weights \subseteq Nat
  BY SchedulerAssumption
<1>3. \A w \in Weights : Count * Count * w <= MaxScore
  BY DEF Fitting, Count
<1>4. Weights \in SUBSET (0 .. MaxScore)
  <2> SUFFICES ASSUME NEW w \in Weights PROVE w \in 0 .. MaxScore
    OBVIOUS
  <2>1. w \in Nat /\ Count * Count * w <= MaxScore
    BY <1>2, <1>3
  <2>2. Count * Count >= 1 /\ Count * Count \in Nat
    BY <1>1
  <2>3. ASSUME NEW p \in Nat, p >= 1 PROVE w <= p * w
    BY <2>1, <2>3
  <2>4. w <= Count * Count * w /\ Count * Count * w \in Nat
    BY <2>1, <2>2, <2>3
  <2> QED
    BY <1>2, <2>1, <2>4
<1>5. \E w \in Weights : \A v \in Weights : v <= w
  BY <1>2, <1>4, GreatestNatural
<1>6. MaxWeight \in Weights /\ \A w \in Weights : w <= MaxWeight
  BY <1>5 DEF MaxWeight
<1>7. MaxWeight \in Nat
  BY <1>2, <1>6
<1>8. Turnover \in Nat
  BY <1>1, <1>7 DEF Turnover
<1> QED
  BY <1>1, <1>2, <1>3, <1>6, <1>7, <1>8

LEMMA RoomIs ==
  ASSUME Count \in Nat, Turnover \in Nat
  PROVE  /\ \A n \in Int : Room(n) \in Int /\ Room(n - 1) + Room(n + 1) = 2 * Room(n) - 2 * Turnover
         /\ Room(1) = Turnover * (Count - 1) /\ Room(Count - 1) = Turnover * (Count - 1)
         /\ \A n \in 0 .. Count : 0 <= Room(n)
<1> DEFINE T == Turnover
           N == Count
<1>1. T \in Nat /\ N \in Nat
  OBVIOUS
<1>2. \A n : Room(n) = T * (n * (N - n))
  BY DEF Room
<1> HIDE DEF T, N
<1>3. ASSUME NEW n \in Int
      PROVE  /\ T * (n * (N - n)) \in Int
             /\ T * ((n - 1) * (N - (n - 1))) + T * ((n + 1) * (N - (n + 1))) = 2 * (T * (n * (N - n))) - 2 * T
  BY ONLY <1>1, n \in Int
<1>4. T * (1 * (N - 1)) = T * (N - 1) /\ T * ((N - 1) * (N - (N - 1))) = T * (N - 1)
  BY ONLY <1>1
<1>5. ASSUME NEW n \in 0 .. N PROVE 0 <= T * (n * (N - n))
  <2>1. n \in Nat /\ N - n \in Nat
    BY <1>1
  <2>2. n * (N - n) \in Nat
    BY <2>1
  <2> DEFINE a == n * (N - n)
  <2> HIDE DEF a
  <2>3. a \in Nat
    BY <2>2 DEF a
  <2>4. T * a \in Nat
    BY ONLY <1>1, <2>3
  <2>5. 0 <= T * a
    BY <2>4
  <2> QED
    BY <2>5 DEF a
<1> QED
  BY <1>2, <1>3, <1>4, <1>5 DEF T, N

\* The credits of one lie between those of all others and nothing.
LEMMA BalancedRange ==
  ASSUME Count \in Nat, Turnover \in Nat, NEW x, Balanced(x), NEW c \in Credentials
  PROVE  x[c] \in Int /\ 2 * x[c] <= Turnover * (Count - 1) /\ -(2 * x[c]) <= Turnover * (Count - 1)
<1> DEFINE others == Credentials \ {c}
<1>1. x \in [Credentials -> Int] /\ \A n \in Credentials : x[n] \in Int
  BY DEF Balanced
<1>2. {c} \in SUBSET Credentials /\ others \in SUBSET Credentials /\ c \in Credentials \ others /\ others \cup {c} = Credentials
  OBVIOUS
<1>3. Cardinality({c}) = 1 /\ Cardinality(others) = Count - 1
  BY CountOf, FS_Singleton DEF Count
<1> HIDE DEF others
<1>4. Sum(x, {c}) = x[c]
  BY <1>1, SumOfOne
<1>5. Sum(x, Credentials) = Sum(x, others) + x[c] /\ Sum(x, others) \in Int
  <2>1. \A n \in others : x[n] \in Int
    BY <1>1, <1>2
  <2>2. \A n \in others \cup {c} : x[n] \in Int
    BY <1>1, <1>2
  <2>3. Sum(x, others \cup {c}) = Sum(x, others) + x[c]
    BY <1>2, <2>2, SumOfMore
  <2> QED
    BY <1>2, <2>1, <2>3, SumsOf
<1>6. 2 * Sum(x, {c}) <= Room(1) /\ 2 * Sum(x, others) <= Room(Count - 1) /\ Sum(x, Credentials) = 0
  BY <1>2, <1>3 DEF Balanced
<1> QED
  BY <1>1, <1>4, <1>5, <1>6, RoomIs

\* Credits after a turn: those of the candidates have grown by their weights u, and the one
\* that has the most, of which there is no more, has paid their total.
LEMMA TurnBalances ==
  ASSUME Count \in Nat, Turnover \in Nat, NEW x, Balanced(x), NEW S \in SUBSET Credentials, NEW sel \in S,
         NEW u, u \in [Credentials -> Nat], \A c \in Credentials \ S : u[c] = 0,
         Sum(u, Credentials) <= Turnover,
         \A c \in S : x[c] + u[c] <= x[sel] + u[sel]
  PROVE  Balanced([c \in Credentials |-> IF c = sel THEN x[c] + u[c] - Sum(u, Credentials) ELSE x[c] + u[c]])
<1> DEFINE total == Sum(u, Credentials)
           y == [c \in Credentials |-> IF c = sel THEN x[c] + u[c] - total ELSE x[c] + u[c]]
           v == [c \in Credentials |-> IF c = sel THEN -total ELSE 0]
           z == [c \in Credentials |-> x[c] + u[c]]
<1>1. x \in [Credentials -> Int] /\ Sum(x, Credentials) = 0
      /\ \A ids \in SUBSET Credentials : 2 * Sum(x, ids) <= Room(Cardinality(ids))
  BY DEF Balanced
<1>2. ASSUME NEW ids \in SUBSET Credentials
      PROVE  0 <= Sum(u, ids) /\ Sum(u, ids) <= total /\ Sum(u, ids) \in Int /\ total \in Int
  <2>1. Credentials \in SUBSET Credentials /\ \A c \in Credentials : u[c] \in Nat
    OBVIOUS
  <2> QED
    BY <2>1, SumOfNaturals
<1>3. total \in Int
  BY <1>2
<1> HIDE DEF total
<1>4. /\ \A c \in Credentials : x[c] \in Int /\ u[c] \in Int /\ v[c] \in Int /\ z[c] \in Int /\ y[c] \in Int
      /\ \A c \in Credentials : z[c] = x[c] + u[c] /\ y[c] = z[c] + v[c]
      /\ v[sel] = -total /\ \A c \in Credentials : c # sel => v[c] = 0
      /\ y \in [Credentials -> Int]
  BY <1>1, <1>3
<1> HIDE DEF v, y, z
<1>5. ASSUME NEW ids \in SUBSET Credentials
      PROVE  /\ Sum(y, ids) = Sum(x, ids) + Sum(u, ids) + (IF sel \in ids THEN -total ELSE 0)
             /\ Sum(x, ids) \in Int /\ Sum(u, ids) \in Int /\ Sum(y, ids) \in Int
  <2>1. \A c \in ids : x[c] \in Int /\ u[c] \in Int /\ v[c] \in Int /\ z[c] \in Int /\ y[c] \in Int
    BY <1>4
  <2>2. Sum(x, ids) \in Int /\ Sum(u, ids) \in Int /\ Sum(v, ids) \in Int /\ Sum(y, ids) \in Int /\ Sum(z, ids) \in Int
    BY <2>1, SumsOf
  <2>3. Sum(z, ids) = Sum(x, ids) + Sum(u, ids)
    <3>1. \A c \in Credentials :
            (IF c \in ids THEN z[c] ELSE 0) = (IF c \in ids THEN x[c] ELSE 0) + (IF c \in ids THEN u[c] ELSE 0)
      BY <1>4
    <3> QED
      BY <2>1, <3>1, SumAdds
  <2>4. Sum(y, ids) = Sum(z, ids) + Sum(v, ids)
    <3>1. \A c \in Credentials :
            (IF c \in ids THEN y[c] ELSE 0) = (IF c \in ids THEN z[c] ELSE 0) + (IF c \in ids THEN v[c] ELSE 0)
      BY <1>4
    <3> QED
      BY <2>1, <3>1, SumAdds
  <2>5. Sum(v, ids) = IF sel \in ids THEN -total ELSE 0
    <3>1. CASE sel \in ids
      <4>1. \A c \in Credentials : (IF c \in ids THEN v[c] ELSE 0) = (IF c \in {sel} THEN v[c] ELSE 0)
        BY <1>4, <3>1
      <4>2. {sel} \in SUBSET Credentials /\ \A c \in {sel} : v[c] \in Int
        BY <1>4
      <4>3. Sum(v, ids) = Sum(v, {sel})
        BY <4>1, <4>2, SumAgrees
      <4>4. Sum(v, {sel}) = v[sel]
        BY <1>4, SumOfOne
      <4> QED
        BY <1>4, <3>1, <4>3, <4>4
    <3>2. CASE sel \notin ids
      <4>1. \A c \in ids : v[c] = 0
        BY <1>4, <3>2
      <4> QED
        BY <3>2, <4>1, SumOfZeros
    <3> QED
      BY <3>1, <3>2
  <2> QED
    BY <2>2, <2>3, <2>4, <2>5
<1>6. Sum(y, Credentials) = 0
  <2>1. Sum(y, Credentials) = Sum(x, Credentials) + Sum(u, Credentials) + -total
    BY <1>5
  <2>2. Sum(u, Credentials) = total
    BY DEF total
  <2> QED
    BY <1>1, <1>3, <2>1, <2>2
<1>7. ASSUME NEW ids \in SUBSET Credentials, sel \in ids PROVE 2 * Sum(y, ids) <= Room(Cardinality(ids))
  <2>1. Sum(y, ids) = Sum(x, ids) + Sum(u, ids) + -total /\ Sum(x, ids) \in Int /\ Sum(u, ids) \in Int /\ Sum(y, ids) \in Int
    BY <1>5, <1>7
  <2>2. Sum(u, ids) <= total
    BY <1>2
  <2>3. 2 * Sum(x, ids) <= Room(Cardinality(ids)) /\ Room(Cardinality(ids)) \in Int
    <3>1. Cardinality(ids) \in Int
      BY CountOf
    <3>2. Room(Cardinality(ids)) \in Int
      BY <3>1, RoomIs
    <3> QED
      BY <1>1, <3>2
  <2>4. Sum(y, ids) <= Sum(x, ids)
    BY <1>3, <2>1, <2>2
  <2> QED
    BY <2>1, <2>3, <2>4
<1> DEFINE wrong == {n \in Nat : \E ids \in SUBSET Credentials : Cardinality(ids) = n /\ ~(2 * Sum(y, ids) <= Room(n))}
<1>8. wrong = {}
  <2> SUFFICES ASSUME wrong # {} PROVE FALSE
    OBVIOUS
  <2>1. PICK n \in wrong : \A m \in wrong : n <= m
    <3>1. wrong \in SUBSET Nat
      OBVIOUS
    <3> HIDE DEF wrong
    <3> QED
      BY <3>1, LeastNatural
  <2>2. PICK ids \in SUBSET Credentials : Cardinality(ids) = n /\ ~(2 * Sum(y, ids) <= Room(n))
    BY <2>1
  <2>3. sel \notin ids
    BY <1>7, <2>2
  <2>4. Sum(y, ids) = Sum(x, ids) + Sum(u, ids) /\ Sum(x, ids) \in Int /\ Sum(u, ids) \in Int /\ Sum(y, ids) \in Int
    BY <1>5, <2>3
  <2>5. n \in Nat /\ Room(n) \in Int /\ 2 * Sum(x, ids) <= Room(n)
    BY <1>1, <2>1, <2>2, RoomIs
  <2>6. ids \cap S # {}
    <3> SUFFICES ASSUME ids \cap S = {} PROVE FALSE
      OBVIOUS
    <3>1. \A c \in ids : u[c] \in Int /\ u[c] <= 0
      BY <1>4
    <3>2. Sum(u, ids) <= 0 * Cardinality(ids)
      BY <3>1, SumAtMost
    <3>3. 0 * n = 0
      BY <2>5
    <3>4. Sum(u, ids) <= 0
      BY <2>2, <3>2, <3>3
    <3> QED
      BY <2>2, <2>4, <2>5, <3>4
  <2>7. PICK i \in ids \cap S : TRUE
    BY <2>6
  <2> DEFINE less == ids \ {i}
             more == ids \cup {sel}
  <2>8. less \in SUBSET Credentials /\ more \in SUBSET Credentials /\ i \in Credentials \ less /\ less \cup {i} = ids
        /\ sel \in Credentials \ ids /\ sel \in more /\ i # sel
    BY <2>3, <2>7
  <2>9. Cardinality(less) = n - 1 /\ Cardinality(more) = n + 1 /\ Cardinality(less) \in Nat
    BY <2>2, <2>7, <2>8, CountOf
  <2>10. Sum(y, ids) = Sum(y, less) + y[i] /\ Sum(y, less) \in Int
    <3>1. \A c \in less \cup {i} : y[c] \in Int
      BY <1>4, <2>8
    <3> HIDE DEF less
    <3>2. Sum(y, less \cup {i}) = Sum(y, less) + y[i]
      BY <2>8, <3>1, SumOfMore
    <3> QED
      BY <1>5, <2>8, <3>2
  <2>11. Sum(y, more) = Sum(y, ids) + y[sel] /\ Sum(y, more) \in Int
    <3>1. \A c \in ids \cup {sel} : y[c] \in Int
      BY <1>4, <2>8
    <3>2. Sum(y, ids \cup {sel}) = Sum(y, ids) + y[sel]
      BY <2>8, <3>1, SumOfMore
    <3> QED
      BY <1>5, <2>8, <3>2
  <2>12. 2 * Sum(y, less) <= Room(n - 1)
    <3>1. n - 1 \in Nat /\ ~(n <= n - 1)
      BY <2>5, <2>9
    <3> HIDE DEF less
    <3> QED
      BY <2>1, <2>8, <2>9, <3>1
  <2>13. 2 * Sum(y, more) <= Room(n + 1)
    BY <1>7, <2>8, <2>9
  <2> HIDE DEF less, more
  <2>14. y[i] = x[i] + u[i] /\ y[sel] = x[sel] + u[sel] - total /\ y[i] \in Int /\ y[sel] \in Int
    BY <1>3, <1>4, <2>8
  <2>15. y[i] <= y[sel] + total
    <3>1. x[i] + u[i] <= x[sel] + u[sel]
      BY <2>7
    <3>2. x[i] \in Int /\ u[i] \in Int /\ x[sel] \in Int /\ u[sel] \in Int
      BY <1>4
    <3> QED
      BY <1>3, <2>14, <3>1, <3>2
  <2>16. total <= Turnover
    BY DEF total
  <2>17. Room(n - 1) + Room(n + 1) = 2 * Room(n) - 2 * Turnover /\ Room(n - 1) \in Int /\ Room(n + 1) \in Int
    BY <2>5, RoomIs
  <2>18. 2 * Sum(y, ids) <= Room(n)
    <3>1. 2 * (Sum(y, ids) - y[i]) + 2 * (Sum(y, ids) + y[sel]) <= 2 * Room(n) - 2 * Turnover
      BY <2>4, <2>5, <2>10, <2>11, <2>12, <2>13, <2>14, <2>17
    <3> QED
      BY <1>3, <2>4, <2>5, <2>14, <2>15, <2>16, <3>1
  <2> QED
    BY <2>2, <2>18
<1>9. \A ids \in SUBSET Credentials : 2 * Sum(y, ids) <= Room(Cardinality(ids))
  BY <1>8, CountOf
<1>10. Balanced(y)
  BY <1>4, <1>6, <1>9 DEF Balanced
<1> QED
  BY <1>10 DEF y, total

\* One of those with the most credits.
LEMMA GreatestOf ==
  ASSUME NEW S, NEW f, NEW b \in Nat, S # {}, \A c \in S : f[c] \in Int /\ -b <= f[c] /\ f[c] <= b
  PROVE  \E c \in S : \A d \in S : f[c] >= f[d]
<1> DEFINE heights == {f[c] + b : c \in S}
<1>1. b + b \in Nat
  OBVIOUS
<1>2. heights \in SUBSET (0 .. b + b) /\ heights # {}
  OBVIOUS
<1>3. \E h \in heights : \A g \in heights : g <= h
  <2> HIDE DEF heights
  <2> QED
    BY <1>1, <1>2, GreatestNatural
<1>4. PICK c \in S : \A g \in heights : g <= f[c] + b
  BY <1>3
<1>5. \A d \in S : f[d] + b <= f[c] + b
  BY <1>4
<1> QED
  BY <1>5

LEMMA ZeroBalanced ==
  ASSUME Count \in Nat, Turnover \in Nat
  PROVE  Balanced(Zero) /\ Zero \in [Credentials -> Nat] /\ \A c \in Credentials : Zero[c] = 0
<1>1. Zero \in [Credentials -> Nat] /\ Zero \in [Credentials -> Int] /\ \A c \in Credentials : Zero[c] = 0
  BY DEF Zero
<1>2. ASSUME NEW ids \in SUBSET Credentials PROVE Sum(Zero, ids) = 0
  <2>1. \A c \in ids : Zero[c] = 0
    BY <1>1
  <2> QED
    BY <2>1, SumOfZeros
<1>3. ASSUME NEW ids \in SUBSET Credentials PROVE 2 * Sum(Zero, ids) <= Room(Cardinality(ids))
  <2>1. Cardinality(ids) \in 0 .. Count
    BY CountOf DEF Count
  <2>2. \A n \in 0 .. Count : 0 <= Room(n)
    BY RoomIs
  <2>3. 0 <= Room(Cardinality(ids))
    BY ONLY <2>1, <2>2
  <2> QED
    BY <1>2, <2>3
<1> QED
  BY <1>1, <1>2, <1>3 DEF Balanced

\* A turn by weight: the credits remain in balance, and of all candidates only the one
\* selected does not gain.
LEMMA WeightedBalances ==
  ASSUME Fitting, offer \in [Credentials -> [weight : Weights, priority : Priorities]],
         NEW S \in SUBSET Credentials, S # {}, \A c \in S : offer[c].weight > 0,
         NEW old, Balanced(old.current), old.weights \in [Credentials -> Nat],
         old = [lastUsed |-> old.lastUsed, lastPicked |-> old.lastPicked, current |-> old.current, weights |-> old.weights],
         NEW renewed \in BOOLEAN, renewed <=> \E c \in S : old.weights[c] \notin {0, offer[c].weight}
  PROVE  LET selected == Weighted(old, S).selected
             new == Weighted(old, S).rotation
         IN  /\ selected \in S
             /\ Balanced(new.current) /\ new.weights \in [Credentials -> Nat]
             /\ new = [lastUsed |-> old.lastUsed, lastPicked |-> old.lastPicked, current |-> new.current, weights |-> new.weights]
             /\ \A c \in S \ {selected} :
                  new.current[c] >= (IF renewed THEN 0 ELSE old.current[c]) + 1
<1> DEFINE selected == Weighted(old, S).selected
           new == Weighted(old, S).rotation
           w == WeightsOffered
<1>1. Credentials # {} /\ Weights # {} /\ \A c \in Credentials : offer[c].weight \in Weights
  OBVIOUS
<1>2. /\ Count \in Nat /\ Count >= 1 /\ MaxWeight \in Nat /\ \A c \in Credentials : offer[c].weight <= MaxWeight
      /\ Count * Count * MaxWeight <= MaxScore /\ MaxScore \in Nat /\ Turnover \in Nat /\ Turnover = Count * MaxWeight
  BY <1>1, FittingIs DEF Turnover
<1>3. \A c \in Credentials : offer[c].weight \in Nat
  BY <1>1, SchedulerAssumption
<1> DEFINE seen == {c \in Credentials : old.weights[c] # 0}
           changed == \E c \in S \cap seen : old.weights[c] # offer[c].weight
           full == Cardinality(seen \cup S) > MaxCredits
           x == IF renewed THEN Zero ELSE old.current
           known == [c \in Credentials |-> IF c \in S THEN offer[c].weight ELSE old.weights[c]]
<1>4. ~full
  <2>1. seen \cup S \in SUBSET Credentials
    OBVIOUS
  <2> DEFINE all == seen \cup S
  <2> HIDE DEF all
  <2>2. all \in SUBSET Credentials
    BY <2>1 DEF all
  <2>3. Cardinality(all) \in Nat /\ Cardinality(all) <= Cardinality(Credentials) /\ Cardinality(Credentials) \in Nat
    BY <2>2, CountOf
  <2>4. Cardinality(Credentials) <= MaxCredits /\ MaxCredits \in Nat
    BY SchedulerAssumption DEF Fitting
  <2>5. ~(Cardinality(all) > MaxCredits)
    BY <2>3, <2>4
  <2> QED
    BY <2>5 DEF all
<1>5. changed <=> renewed
  OBVIOUS
<1>6. Balanced(x) /\ x \in [Credentials -> Int] /\ old.current \in [Credentials -> Int]
  BY <1>2, ZeroBalanced DEF Balanced
<1> DEFINE reweighed == Reweighed(old, S)
<1>7. /\ reweighed.current = x /\ reweighed.weights = known
      /\ reweighed.lastUsed = old.lastUsed /\ reweighed.lastPicked = old.lastPicked
      /\ reweighed = [lastUsed |-> old.lastUsed, lastPicked |-> old.lastPicked, current |-> x, weights |-> known]
  <2> DEFINE current == [c \in Credentials |-> IF changed \/ (full /\ c \notin S) THEN 0 ELSE old.current[c]]
             weights == [c \in Credentials |-> IF c \in S THEN offer[c].weight ELSE IF full THEN 0 ELSE old.weights[c]]
  <2>1. reweighed = [old EXCEPT !.current = current, !.weights = weights]
    BY DEF Reweighed
  <2>2. weights = known
    BY <1>4
  <2>3. current = x
    <3>1. CASE renewed
      BY <1>5, <3>1 DEF Zero
    <3>2. CASE ~renewed
      <4>1. current = [c \in Credentials |-> old.current[c]]
        BY <1>4, <1>5, <3>2
      <4> QED
        BY <1>6, <3>2, <4>1
    <3> QED
      BY <3>1, <3>2
  <2> HIDE DEF current, weights, known, x, reweighed
  <2>4. reweighed = [old EXCEPT !.current = x, !.weights = known]
    BY <2>1, <2>2, <2>3
  <2> QED
    BY <2>4
<1> HIDE DEF reweighed, seen, changed, full
<1>8. known \in [Credentials -> Nat]
  BY <1>3
<1> HIDE DEF known
<1> DEFINE u == [c \in Credentials |-> IF c \in S THEN offer[c].weight ELSE 0]
           y == [c \in Credentials |-> IF c \in S THEN Score(x[c], offer[c].weight) ELSE x[c]]
<1>9. u \in [Credentials -> Nat] /\ (\A c \in Credentials \ S : u[c] = 0) /\ \A c \in S : u[c] = offer[c].weight /\ u[c] > 0
  BY <1>3
<1>10. Sum(u, Credentials) = Sum(w, S) /\ Sum(u, Credentials) \in Nat /\ Sum(u, Credentials) <= Turnover
  <2>1. \A c \in Credentials : w[c] = offer[c].weight /\ w[c] \in Int /\ w[c] <= MaxWeight /\ u[c] \in Nat /\ u[c] \in Int
    BY <1>2, <1>3, <1>9 DEF WeightsOffered
  <2>2. \A c \in Credentials :
          (IF c \in Credentials THEN u[c] ELSE 0) = (IF c \in S THEN w[c] ELSE 0)
    BY <1>9, <2>1
  <2>3. Credentials \in SUBSET Credentials /\ \A c \in S : w[c] \in Int
    BY <2>1
  <2> HIDE DEF u, w
  <2>4. Sum(u, Credentials) = Sum(w, S)
    BY <2>2, <2>3, SumAgrees
  <2>5. Sum(w, S) \in Int
    BY <2>1, SumsOf
  <2>6. Sum(w, S) <= MaxWeight * Cardinality(S)
    <3>1. \A c \in S : w[c] \in Int /\ w[c] <= MaxWeight
      BY <2>1
    <3>2. MaxWeight \in Int
      BY <1>2
    <3> QED
      BY <3>1, <3>2, SumAtMost
  <2>7. 0 <= Sum(u, Credentials)
    BY <2>1, <2>3, SumOfNaturals
  <2>8. MaxWeight * Cardinality(S) <= Turnover /\ MaxWeight * Cardinality(S) \in Nat
    <3>1. Cardinality(S) \in Nat /\ Cardinality(S) <= Count
      BY CountOf DEF Count
    <3>2. \A a, b, c \in Nat : a <= b => c * a <= b * c /\ c * a \in Nat
      OBVIOUS
    <3> QED
      BY <1>2, <3>1, <3>2
  <2> QED
    BY <1>2, <2>4, <2>5, <2>6, <2>7, <2>8
<1> HIDE DEF u
<1>11. ASSUME NEW c \in Credentials
       PROVE  /\ x[c] \in Int /\ 2 * x[c] <= Turnover * (Count - 1) /\ -(2 * x[c]) <= Turnover * (Count - 1)
  BY <1>2, <1>6, BalancedRange
<1>12. /\ Turnover * (Count - 1) \in Nat
       /\ \A a \in Int, b \in Nat : 2 * a <= Turnover * (Count - 1) /\ -(2 * a) <= Turnover * (Count - 1) /\ b <= MaxWeight
            => a + b <= MaxScore /\ -MaxScore - 1 <= a + b - Turnover /\ -MaxScore - 1 <= a + b
       /\ Turnover <= MaxScore
  <2> DEFINE N == Count
             W == MaxWeight
             M == N * N * W
  <2>1. N \in Nat /\ N >= 1 /\ W \in Nat /\ M <= MaxScore /\ MaxScore \in Nat /\ Turnover = N * W
    BY <1>2
  <2> DEFINE T == N * W
  <2>2. T \in Nat /\ M \in Nat /\ T * (N - 1) = M - T
    BY <2>1
  <2>3. W <= T /\ T <= M
    <3>1. \A a, b \in Nat : b >= 1 => a <= b * a
      <4> SUFFICES ASSUME NEW a \in Nat, NEW b \in Nat, b >= 1 PROVE a <= b * a
        OBVIOUS
      <4>1. b - 1 \in Nat
        OBVIOUS
      <4>2. (b - 1) * a \in Nat
        BY ONLY <4>1, a \in Nat
      <4>3. b * a = (b - 1) * a + a
        BY ONLY a \in Nat, b \in Nat
      <4> QED
        BY ONLY <4>2, <4>3, a \in Nat
    <3>2. M = N * T
      BY <2>1
    <3> HIDE DEF M, N, W
    <3> QED
      BY <2>1, <2>2, <3>1, <3>2
  <2> HIDE DEF M, T
  <2>4. T * (N - 1) \in Nat
    BY <2>2, <2>3
  <2>5. ASSUME NEW a \in Int, NEW b \in Nat, 2 * a <= M - T, -(2 * a) <= M - T, b <= W
        PROVE  a + b <= MaxScore /\ -MaxScore - 1 <= a + b - T /\ -MaxScore - 1 <= a + b
    BY <2>1, <2>2, <2>3, <2>5
  <2>6. Turnover = T
    BY <2>1 DEF T
  <2> QED
    BY <2>1, <2>2, <2>3, <2>4, <2>5, <2>6
<1>13. ASSUME NEW c \in Credentials PROVE y[c] = x[c] + u[c] /\ y[c] \in Int /\ u[c] \in Nat
  <2>1. x[c] \in Int /\ u[c] \in Nat
    BY <1>9, <1>11
  <2>2. CASE c \in S
    <3>1. y[c] = Score(x[c], u[c])
      BY <1>9, <2>2
    <3>2. u[c] <= MaxWeight
      BY <1>2, <1>9, <2>2
    <3>3. x[c] + u[c] <= MaxScore /\ -MaxScore - 1 <= x[c] + u[c]
      BY <1>11, <1>12, <2>1, <3>2
    <3>4. ~(x[c] + u[c] > MaxScore) /\ ~(x[c] + u[c] < -MaxScore - 1)
      BY <1>2, <2>1, <3>3
    <3> QED
      BY <2>1, <3>1, <3>4 DEF Score
  <2>3. CASE c \notin S
    <3>1. y[c] = x[c] /\ u[c] = 0
      BY <1>9, <2>3
    <3> QED
      BY <2>1, <3>1
  <2> QED
    BY <2>2, <2>3
<1> DEFINE highest == {c \in S : \A d \in S : y[c] >= y[d]}
           best == Least(highest)
           charged == Charged(y, best, S)
<1>14. Weighted(old, S) = [selected |-> best, rotation |-> [reweighed EXCEPT !.current = charged]]
  <2> DEFINE credits == [c \in Credentials |-> IF c \in S THEN Score(reweighed.current[c], offer[c].weight)
                                                ELSE reweighed.current[c]]
  <2>1. credits = y
    BY <1>7
  <2>2. Weighted(old, S) = [selected |-> Least({c \in S : \A d \in S : credits[c] >= credits[d]}),
                           rotation |-> [reweighed EXCEPT !.current =
                             Charged(credits, Least({c \in S : \A d \in S : credits[c] >= credits[d]}), S)]]
    BY DEF Weighted, reweighed
  <2> HIDE DEF credits, y
  <2> QED
    BY <2>1, <2>2
<1>15. y = [c \in Credentials |-> y[c]]
  OBVIOUS
<1> HIDE DEF y, x
<1>16. best \in S /\ \A d \in S : y[d] <= y[best]
  <2>1. \E c \in S : \A d \in S : y[c] >= y[d]
    <3>1. \A c \in S : y[c] \in Int /\ -MaxScore <= y[c] /\ y[c] <= MaxScore
      <4> SUFFICES ASSUME NEW c \in S PROVE y[c] \in Int /\ -MaxScore <= y[c] /\ y[c] <= MaxScore
        OBVIOUS
      <4>1. u[c] <= MaxWeight /\ y[c] = x[c] + u[c] /\ u[c] \in Nat /\ x[c] \in Int
        BY <1>2, <1>9, <1>11, <1>13
      <4>2. x[c] + u[c] <= MaxScore
        BY <1>11, <1>12, <4>1
      <4>3. -MaxScore - 1 <= x[c] + 0 - Turnover
        BY <1>2, <1>11, <1>12, <4>1
      <4>4. 1 <= Turnover
        <5>1. MaxWeight >= 1
          BY <1>2, <1>9, <4>1
        <5> QED
          BY <1>2, <5>1
      <4> QED
        BY <1>2, <4>1, <4>2, <4>3, <4>4
    <3> QED
      BY <1>2, <3>1, GreatestOf
  <2>2. highest \in SUBSET Credentials /\ highest # {}
    BY <2>1
  <2>3. best \in highest
    <3> HIDE DEF highest
    <3> QED
      BY <2>2, LeastIs
  <2> QED
    BY <1>13, <2>3
<1> HIDE DEF highest, best
<1> DEFINE after == [c \in Credentials |-> IF c = best THEN x[c] + u[c] - Sum(u, Credentials) ELSE x[c] + u[c]]
<1>17. charged = after
  <2>1. Total(S) = Sum(u, Credentials)
    <3>1. Sum(WeightsOffered, S) <= MaxScore
      BY <1>2, <1>10, <1>12
    <3> QED
      BY <1>3, <1>10, <3>1, TotalIs
  <2>2. Score(y[best], -Total(S)) = x[best] + u[best] - Sum(u, Credentials)
    <3>1. best \in Credentials /\ u[best] <= MaxWeight /\ y[best] = x[best] + u[best] /\ x[best] \in Int /\ u[best] \in Nat
      BY <1>2, <1>9, <1>11, <1>13, <1>16
    <3>2. y[best] <= MaxScore /\ -MaxScore - 1 <= y[best] - Turnover
      <4>1. x[best] + u[best] <= MaxScore /\ -MaxScore - 1 <= x[best] + u[best] - Turnover
        <5>1. 2 * x[best] <= Turnover * (Count - 1) /\ -(2 * x[best]) <= Turnover * (Count - 1)
          BY <1>11, <3>1
        <5> QED
          BY <1>12, <3>1, <5>1
      <4> QED
        BY <1>2, <3>1, <4>1
    <3>3. ~(y[best] + -Total(S) > MaxScore) /\ ~(y[best] + -Total(S) < -MaxScore - 1)
      BY <1>2, <1>10, <2>1, <3>1, <3>2
    <3>4. y[best] + -Total(S) = x[best] + u[best] - Sum(u, Credentials)
      BY <1>10, <2>1, <3>1
    <3> QED
      BY <3>3, <3>4 DEF Score
  <2>3. charged = [y EXCEPT ![best] = Score(y[best], -Total(S))]
    BY DEF Charged
  <2>4. charged = [c \in Credentials |-> IF c = best THEN x[c] + u[c] - Sum(u, Credentials) ELSE y[c]]
    BY <1>15, <1>16, <2>2, <2>3
  <2> QED
    BY <1>13, <2>4
<1> HIDE DEF charged
<1>18. selected = best /\ new = [reweighed EXCEPT !.current = after]
  BY <1>14, <1>17
<1>19. Balanced(after)
  <2>1. \A c \in S : x[c] + u[c] <= x[best] + u[best]
    BY <1>13, <1>16
  <2> QED
    BY <1>2, <1>6, <1>9, <1>10, <1>16, <2>1, TurnBalances
<1>20. \A c \in S \ {best} : after[c] >= (IF renewed THEN 0 ELSE old.current[c]) + 1
  <2> SUFFICES ASSUME NEW c \in S \ {best} PROVE after[c] >= (IF renewed THEN 0 ELSE old.current[c]) + 1
    OBVIOUS
  <2>1. after[c] = x[c] + u[c] /\ u[c] >= 1 /\ u[c] \in Nat /\ x[c] \in Int
    BY <1>9, <1>11
  <2>2. x[c] = IF renewed THEN 0 ELSE old.current[c]
    BY DEF x, Zero
  <2> HIDE DEF after
  <2> QED
    BY <2>1, <2>2
<1> HIDE DEF after, selected, new
<1>21. new.current = after /\ new.weights = known
       /\ new = [lastUsed |-> old.lastUsed, lastPicked |-> old.lastPicked, current |-> after, weights |-> known]
  BY <1>7, <1>18
<1> QED
  BY <1>8, <1>16, <1>18, <1>19, <1>20, <1>21 DEF selected, new

Schedules == [lastUsed : Int, lastPicked : Nat, current : [Credentials -> Int], weights : [Credentials -> Nat]]

\* How long each candidate has waited is made up for by what it has been credited.
Owed(credits, waited) ==
  /\ Balanced(credits)
  /\ waited \in [Credentials -> Nat]
  /\ \A c \in Credentials : 2 * (waited[c] - credits[c]) <= Turnover * (Count - 1)

CreditsInv ==
  /\ strategy \in Strategies
  /\ Fitting /\ Credentials # {} /\ strategy # "round-robin" =>
       /\ rotations \in [Scopes -> [Pools -> Schedules]]
       /\ waits \in [Scopes -> [Pools -> [Credentials -> Nat]]]
       /\ \A s \in Scopes, p \in Pools :
            /\ ~Exists(rotations[s][p]) => rotations[s][p].current = Zero
            /\ Owed(rotations[s][p].current, waits[s][p])

LEMMA CountsAre ==
  ASSUME TurnsInv, Fitting, Credentials # {}
  PROVE  Count \in Nat /\ Count >= 1 /\ Turnover \in Nat /\ Turnover * (Count - 1) \in Nat
<1>1. Weights # {}
  BY DEF TurnsInv
<1>2. Count \in Nat /\ Count >= 1 /\ Turnover \in Nat
  BY <1>1, FittingIs
<1>3. \A a, b \in Nat : b >= 1 => a * (b - 1) \in Nat
  OBVIOUS
<1> QED
  BY <1>2, <1>3

\* Nothing is owed in the beginning.
LEMMA FreshCredits ==
  ASSUME TurnsInv, Fitting, Credentials # {}
  PROVE  NoRotation \in Schedules /\ NoRotation.current = Zero /\ Zero \in [Credentials -> Nat] /\ Owed(Zero, Zero)
<1>1. Count \in Nat /\ Count >= 1 /\ Turnover \in Nat /\ Turnover * (Count - 1) \in Nat
  BY CountsAre
<1>2. Balanced(Zero) /\ Zero \in [Credentials -> Nat] /\ \A c \in Credentials : Zero[c] = 0
  BY <1>1, ZeroBalanced
<1>3. NoRotation \in Schedules /\ NoRotation.current = Zero
  BY <1>2 DEF NoRotation, Schedules
<1> QED
  BY <1>1, <1>2, <1>3 DEF Owed

\* Who has not waited is owed nothing more.
LEMMA WaitsOver ==
  ASSUME TurnsInv, Fitting, Credentials # {}, NEW x, Balanced(x), NEW c \in Credentials
  PROVE  2 * (0 - x[c]) <= Turnover * (Count - 1) /\ x[c] \in Int /\ 2 * x[c] <= Turnover * (Count - 1)
<1>1. Count \in Nat /\ Turnover \in Nat /\ Turnover * (Count - 1) \in Nat
  BY CountsAre
<1>2. x[c] \in Int /\ 2 * x[c] <= Turnover * (Count - 1) /\ -(2 * x[c]) <= Turnover * (Count - 1)
  BY <1>1, BalancedRange
<1> QED
  BY <1>1, <1>2

\* How long each has waited after a turn.
Counted(waited, candidates, selected, renewed) ==
  [c \in Credentials |-> IF strategy = "fill-first" \/ c = selected \/ c \notin candidates THEN 0
                         ELSE IF renewed THEN 1 ELSE waited[c] + 1]

\* One turn of a pool.
LEMMA CreditsTurn ==
  ASSUME TurnsInv, Fitting, Credentials # {}, strategy \in Strategies, strategy # "round-robin",
         NEW offered \in SUBSET Credentials, NEW old \in Schedules, NEW waited, Owed(old.current, waited),
         NEW S, S = Highest(Eligible(offered)), S # {},
         NEW renewed \in BOOLEAN, renewed <=> \E c \in S : old.weights[c] \notin {0, offer[c].weight},
         NEW turn, turn = Turn(old, S)
  PROVE  turn.rotation \in Schedules /\ Owed(turn.rotation.current, Counted(waited, S, turn.selected, renewed))
<1> DEFINE now == Counted(waited, S, turn.selected, renewed)
           new == turn.rotation
<1>1. S \in SUBSET Credentials /\ S \subseteq Eligible(offered)
  BY DEF Highest, Eligible
<1>2. Balanced(old.current) /\ waited \in [Credentials -> Nat]
      /\ \A c \in Credentials : 2 * (waited[c] - old.current[c]) <= Turnover * (Count - 1)
  BY DEF Owed
<1>3. now \in [Credentials -> Nat]
  BY <1>2 DEF Counted
<1>4. CASE strategy = "fill-first"
  <2>1. turn = [selected |-> Least(S), rotation |-> old]
    BY <1>4 DEF Turn
  <2>2. new = old
    BY <2>1
  <2>3. \A c \in Credentials : now[c] = 0
    BY <1>4 DEF Counted
  <2> HIDE DEF now, new
  <2>4. \A c \in Credentials : 2 * (now[c] - new.current[c]) <= Turnover * (Count - 1)
    BY <1>2, <2>2, <2>3, WaitsOver
  <2>5. new \in Schedules /\ Owed(new.current, now)
    BY <1>2, <1>3, <2>2, <2>4 DEF Owed
  <2> QED
    BY <2>5 DEF now, new
<1>5. CASE strategy # "fill-first"
  <2>1. strategy = "weighted-round-robin"
    BY <1>5, SchedulerAssumption
  <2>2. turn = Weighted(old, S)
    BY <1>5 DEF Turn
  <2>3. \A c \in S : offer[c].weight > 0
    BY <1>1, <2>1 DEF Eligible
  <2>4. offer \in [Credentials -> [weight : Weights, priority : Priorities]]
    BY DEF TurnsInv
  <2>5. /\ old.weights \in [Credentials -> Nat] /\ old.lastUsed \in Int /\ old.lastPicked \in Nat
        /\ old = [lastUsed |-> old.lastUsed, lastPicked |-> old.lastPicked, current |-> old.current, weights |-> old.weights]
    BY DEF Schedules
  <2>6. /\ turn.selected \in S
        /\ Balanced(new.current) /\ new.weights \in [Credentials -> Nat]
        /\ new = [lastUsed |-> old.lastUsed, lastPicked |-> old.lastPicked, current |-> new.current, weights |-> new.weights]
        /\ \A c \in S \ {turn.selected} : new.current[c] >= (IF renewed THEN 0 ELSE old.current[c]) + 1
    BY ZenonT(60), <1>1, <1>2, <2>2, <2>3, <2>4, <2>5, WeightedBalances
  <2> HIDE DEF new
  <2>7. new \in Schedules
    <3>1. new.current \in [Credentials -> Int]
      BY <2>6 DEF Balanced
    <3> QED
      BY <2>5, <2>6, <3>1 DEF Schedules
  <2>8. ASSUME NEW c \in Credentials PROVE 2 * (now[c] - new.current[c]) <= Turnover * (Count - 1)
    <3>1. CASE c = turn.selected \/ c \notin S
      <4>1. now[c] = 0
        BY <3>1 DEF Counted
      <4> HIDE DEF now
      <4> QED
        BY <2>6, <4>1, WaitsOver
    <3>2. CASE ~(c = turn.selected \/ c \notin S)
      <4>1. now[c] = IF renewed THEN 1 ELSE waited[c] + 1
        BY <1>5, <3>2 DEF Counted
      <4>2. new.current[c] >= (IF renewed THEN 0 ELSE old.current[c]) + 1 /\ new.current[c] \in Int
        BY <2>6, <3>2, WaitsOver
      <4>3. Turnover * (Count - 1) \in Nat /\ waited[c] \in Nat /\ old.current[c] \in Int
        BY <1>2, CountsAre, WaitsOver
      <4>4. 2 * (waited[c] - old.current[c]) <= Turnover * (Count - 1)
        BY <1>2
      <4> HIDE DEF now
      <4>5. CASE renewed
        BY <4>1, <4>2, <4>3, <4>5
      <4>6. CASE ~renewed
        BY <4>1, <4>2, <4>3, <4>4, <4>6
      <4> QED
        BY <4>5, <4>6
    <3> QED
      BY <3>1, <3>2
  <2> HIDE DEF now
  <2>9. Owed(new.current, now)
    BY <1>3, <2>6, <2>8 DEF Owed
  <2> QED
    BY <2>7, <2>9 DEF now, new
<1> QED
  BY <1>4, <1>5

LEMMA CreditsColdStep ==
  ASSUME SessionsInv, TurnsInv, CreditsInv, Fitting, Credentials # {}, strategy # "round-robin",
         NEW scope \in Scopes, NEW pool \in Pools, NEW session, NEW offered \in SUBSET Credentials,
         NEW now \in Instants, Cold(scope, pool, session, offered, now)
  PROVE  CreditsInv'
<1> DEFINE S == Highest(Eligible(offered))
           old == IF Exists(rotations[scope][pool]) THEN rotations[scope][pool] ELSE NewRotation
           renewed == \E c \in S : old.weights[c] \notin {0, offer[c].weight}
           turn == Turn(old, S)
           waited == Counted(waits[scope][pool], S, turn.selected, renewed)
           last == [turn.rotation EXCEPT !.lastUsed = now]
<1>1. /\ strategy \in Strategies
      /\ rotations \in [Scopes -> [Pools -> Schedules]]
      /\ waits \in [Scopes -> [Pools -> [Credentials -> Nat]]]
      /\ \A s \in Scopes, p \in Pools :
           /\ ~Exists(rotations[s][p]) => rotations[s][p].current = Zero
           /\ Owed(rotations[s][p].current, waits[s][p])
  BY DEF CreditsInv
<1>2. now \in Nat /\ UNCHANGED <<strategy, offer>>
  <2>1. now \in Nat
    BY DEF Instants, SessionsInv, TypeOK
  <2>2. UNCHANGED <<strategy, offer>>
    BY DEF Cold, configVars
  <2> QED
    BY <2>1, <2>2
<1>3. S \in SUBSET Credentials /\ S # {}
  <2>1. Eligible(offered) \in SUBSET Credentials /\ Eligible(offered) # {}
    BY DEF Eligible, Cold
  <2> QED
    BY <2>1, HighestIs
<1>4. NoRotation \in Schedules /\ NoRotation.current = Zero /\ Zero \in [Credentials -> Nat] /\ Owed(Zero, Zero)
  BY FreshCredits
<1>5. old \in Schedules /\ Owed(old.current, waits[scope][pool])
  <2>1. rotations[scope][pool] \in Schedules
    BY <1>1
  <2>2. NewRotation \in Schedules /\ NewRotation.current = Zero
    BY <1>4 DEF NewRotation, Schedules, NoRotation
  <2> QED
    BY <1>1, <2>1, <2>2
<1>6. PICK evicted \in Evicted(scope, pool) :
        /\ rotations' = [rotations EXCEPT ![scope] = [p \in Pools |->
                           IF p \in evicted THEN NoRotation ELSE IF p = pool THEN last ELSE @[p]]]
        /\ CountWaits(scope, pool, S, turn.selected, evicted, renewed)
  BY DEF Cold
<1>7. waits' = [waits EXCEPT ![scope] = [p \in Pools |->
                 IF p \in evicted THEN Zero
                 ELSE IF p # pool THEN @[p]
                 ELSE [c \in Credentials |-> IF strategy = "fill-first" \/ c = turn.selected \/ c \notin S THEN 0
                                             ELSE IF renewed THEN 1 ELSE @[p][c] + 1]]]
  <2> HIDE DEF last, turn, S, renewed
  <2> QED
    BY <1>6 DEF CountWaits
<1> HIDE DEF turn
<1>8. turn.rotation \in Schedules /\ Owed(turn.rotation.current, waited)
  <2>1. turn = Turn(old, S) /\ S = Highest(Eligible(offered)) /\ renewed \in BOOLEAN
        /\ (renewed <=> \E c \in S : old.weights[c] \notin {0, offer[c].weight})
    BY DEF turn
  <2> HIDE DEF old, S, renewed
  <2> QED
    BY <1>1, <1>3, <1>5, <2>1, CreditsTurn
<1> HIDE DEF renewed, old, S
<1>9. last \in Schedules /\ last.current = turn.rotation.current /\ Exists(last)
  BY <1>2, <1>8 DEF Schedules, Exists
<1>10. waited \in [Credentials -> Nat]
  BY <1>8 DEF Owed
<1> HIDE DEF last
<1>11. rotations' \in [Scopes -> [Pools -> Schedules]]
  BY <1>1, <1>4, <1>6, <1>9
<1>12. ASSUME NEW s \in Scopes, NEW p \in Pools
       PROVE  waits'[s][p] = IF s # scope THEN waits[s][p] ELSE IF p \in evicted THEN Zero
                             ELSE IF p = pool THEN waited ELSE waits[s][p]
  <2>1. CASE s = scope
    <3>1. waits'[s][p] = IF p \in evicted THEN Zero
                         ELSE IF p # pool THEN waits[s][p]
                         ELSE [c \in Credentials |-> IF strategy = "fill-first" \/ c = turn.selected \/ c \notin S THEN 0
                                                     ELSE IF renewed THEN 1 ELSE waits[s][p][c] + 1]
      BY <1>1, <1>7, <2>1
    <3> QED
      BY <2>1, <3>1 DEF Counted
  <2>2. CASE s # scope
    BY <1>1, <1>7, <2>2
  <2> QED
    BY <2>1, <2>2
<1>13. waits' \in [Scopes -> [Pools -> [Credentials -> Nat]]]
  <2> HIDE DEF waited
  <2>1. waits' = [s \in Scopes |-> [p \in Pools |-> waits'[s][p]]]
    <3>1. \A s \in Scopes : waits'[s] = [p \in Pools |-> waits'[s][p]]
      BY <1>1, <1>7
    <3>2. waits' = [s \in Scopes |-> waits'[s]]
      BY <1>1, <1>7
    <3> QED
      BY <3>1, <3>2
  <2>2. ASSUME NEW s \in Scopes, NEW p \in Pools PROVE waits'[s][p] \in [Credentials -> Nat]
    <3>1. waits'[s][p] \in {waits[s][p], Zero, waited}
      BY <1>12
    <3>2. waits[s][p] \in [Credentials -> Nat]
      BY <1>1
    <3> QED
      BY <1>4, <1>10, <3>1, <3>2
  <2> QED
    BY <2>1, <2>2
<1>14. ASSUME NEW s \in Scopes, NEW p \in Pools
       PROVE  /\ ~Exists(rotations'[s][p]) => rotations'[s][p].current = Zero
              /\ Owed(rotations'[s][p].current, waits'[s][p])
  <2> HIDE DEF waited
  <2>1. CASE s = scope /\ p \in evicted
    <3>1. rotations'[s][p] = NoRotation /\ waits'[s][p] = Zero
      BY <1>1, <1>6, <1>12, <2>1
    <3> QED
      BY <1>4, <3>1
  <2>2. CASE s = scope /\ p = pool /\ p \notin evicted
    <3>1. rotations'[s][p] = last /\ waits'[s][p] = waited
      BY <1>1, <1>6, <1>12, <2>2
    <3> QED
      BY <1>8, <1>9, <3>1
  <2>3. CASE ~(s = scope /\ (p \in evicted \/ p = pool))
    <3>1. rotations'[s][p] = rotations[s][p] /\ waits'[s][p] = waits[s][p]
      BY <1>1, <1>6, <1>12, <2>3
    <3> QED
      BY <1>1, <3>1
  <2> QED
    BY <2>1, <2>2, <2>3
<1>15. \A s \in Scopes, p \in Pools :
         (Owed(rotations[s][p].current, waits[s][p]))' <=> Owed(rotations'[s][p].current, waits'[s][p])
  BY DEF Owed, Balanced, Sum
<1> QED
  BY <1>1, <1>2, <1>11, <1>13, <1>14, <1>15 DEF CreditsInv, Fitting

LEMMA CreditsReuseStep ==
  ASSUME SessionsInv, CreditsInv,
         NEW scope \in Scopes, NEW pool \in Pools, NEW session, NEW offered,
         NEW now \in Instants, Reuse(scope, pool, session, offered, now)
  PROVE  CreditsInv'
<1>1. now \in Nat /\ UNCHANGED <<strategy, waits>>
  BY DEF Reuse, Instants, SessionsInv, TypeOK, configVars
<1> DEFINE r == rotations[scope][pool]
           used == IF Exists(r) THEN [r EXCEPT !.lastUsed = now] ELSE r
<1>2. rotations' = [rotations EXCEPT ![scope][pool] = used]
  BY DEF Reuse
<1>3. SUFFICES ASSUME Fitting, Credentials # {}, strategy # "round-robin"
               PROVE  /\ rotations' \in [Scopes -> [Pools -> Schedules]]
                      /\ waits' \in [Scopes -> [Pools -> [Credentials -> Nat]]]
                      /\ \A s \in Scopes, p \in Pools :
                           /\ ~Exists(rotations'[s][p]) => rotations'[s][p].current = Zero
                           /\ Owed(rotations'[s][p].current, waits'[s][p])
  BY <1>1 DEF CreditsInv, Fitting, Owed, Balanced, Sum
<1>4. /\ rotations \in [Scopes -> [Pools -> Schedules]]
      /\ waits \in [Scopes -> [Pools -> [Credentials -> Nat]]]
      /\ \A s \in Scopes, p \in Pools :
           /\ ~Exists(rotations[s][p]) => rotations[s][p].current = Zero
           /\ Owed(rotations[s][p].current, waits[s][p])
  BY <1>3 DEF CreditsInv
<1>5. used \in Schedules /\ used.current = r.current /\ (~Exists(used) => used.current = Zero)
  <2>1. r \in Schedules /\ (~Exists(r) => r.current = Zero)
    BY <1>4
  <2>2. CASE Exists(r)
    BY <1>1, <2>1, <2>2 DEF Schedules, Exists
  <2>3. CASE ~Exists(r)
    BY <2>1, <2>3
  <2> QED
    BY <2>2, <2>3
<1> HIDE DEF used
<1>6. rotations' \in [Scopes -> [Pools -> Schedules]]
  BY <1>2, <1>4, <1>5
<1>7. ASSUME NEW s \in Scopes, NEW p \in Pools
      PROVE  /\ ~Exists(rotations'[s][p]) => rotations'[s][p].current = Zero
             /\ Owed(rotations'[s][p].current, waits'[s][p])
  <2>1. CASE s = scope /\ p = pool
    <3>1. rotations'[s][p] = used /\ waits'[s][p] = waits[s][p]
      BY <1>1, <1>2, <1>4, <2>1
    <3> QED
      BY <1>4, <1>5, <2>1, <3>1
  <2>2. CASE ~(s = scope /\ p = pool)
    <3>1. rotations'[s][p] = rotations[s][p] /\ waits'[s][p] = waits[s][p]
      BY <1>1, <1>2, <1>4, <2>2
    <3> QED
      BY <1>4, <3>1
  <2> QED
    BY <2>1, <2>2
<1> QED
  BY <1>1, <1>4, <1>6, <1>7

\* Where nothing changes but what is forgotten.
LEMMA CreditsForgotten ==
  ASSUME TurnsInv, CreditsInv, strategy' \in Strategies,
         NEW live,
         strategy' = strategy \/ live = {},
         rotations' = [s \in Scopes |-> IF s \in live THEN rotations[s] ELSE [p \in Pools |-> NoRotation]],
         waits' = [s \in Scopes |-> IF s \in live THEN waits[s] ELSE [p \in Pools |-> Zero]]
  PROVE  CreditsInv'
<1>1. SUFFICES ASSUME Fitting, Credentials # {}, strategy' # "round-robin"
               PROVE  /\ rotations' \in [Scopes -> [Pools -> Schedules]]
                      /\ waits' \in [Scopes -> [Pools -> [Credentials -> Nat]]]
                      /\ \A s \in Scopes, p \in Pools :
                           /\ ~Exists(rotations'[s][p]) => rotations'[s][p].current = Zero
                           /\ Owed(rotations'[s][p].current, waits'[s][p])
  BY DEF CreditsInv, Fitting, Owed, Balanced, Sum
<1>2. NoRotation \in Schedules /\ NoRotation.current = Zero /\ Zero \in [Credentials -> Nat] /\ Owed(Zero, Zero)
  BY <1>1, FreshCredits
<1>3. ASSUME NEW s \in Scopes, s \notin live
      PROVE  /\ rotations'[s] = [p \in Pools |-> NoRotation] /\ rotations'[s] \in [Pools -> Schedules]
             /\ waits'[s] = [p \in Pools |-> Zero] /\ waits'[s] \in [Pools -> [Credentials -> Nat]]
  BY <1>2, <1>3
<1>4. ASSUME NEW s \in Scopes, s \in live
      PROVE  /\ rotations'[s] = rotations[s] /\ rotations[s] \in [Pools -> Schedules]
             /\ waits'[s] = waits[s] /\ waits[s] \in [Pools -> [Credentials -> Nat]]
             /\ \A p \in Pools :
                  /\ ~Exists(rotations[s][p]) => rotations[s][p].current = Zero
                  /\ Owed(rotations[s][p].current, waits[s][p])
  <2>1. strategy # "round-robin"
    BY <1>1, <1>4
  <2>2. /\ rotations \in [Scopes -> [Pools -> Schedules]]
        /\ waits \in [Scopes -> [Pools -> [Credentials -> Nat]]]
        /\ \A p \in Pools :
             /\ ~Exists(rotations[s][p]) => rotations[s][p].current = Zero
             /\ Owed(rotations[s][p].current, waits[s][p])
    BY <1>1, <2>1 DEF CreditsInv
  <2> QED
    BY <1>4, <2>2
<1>5. \A s \in Scopes : rotations'[s] \in [Pools -> Schedules] /\ waits'[s] \in [Pools -> [Credentials -> Nat]]
  BY <1>3, <1>4
<1>6. rotations' = [s \in Scopes |-> rotations'[s]] /\ waits' = [s \in Scopes |-> waits'[s]]
  OBVIOUS
<1>7. rotations' \in [Scopes -> [Pools -> Schedules]] /\ waits' \in [Scopes -> [Pools -> [Credentials -> Nat]]]
  BY <1>5, <1>6
<1>8. ASSUME NEW s \in Scopes, NEW p \in Pools
      PROVE  /\ ~Exists(rotations'[s][p]) => rotations'[s][p].current = Zero
             /\ Owed(rotations'[s][p].current, waits'[s][p])
  <2>1. CASE s \in live
    BY <1>4, <2>1
  <2>2. CASE s \notin live
    <3>1. rotations'[s][p] = NoRotation /\ waits'[s][p] = Zero
      BY <1>3, <2>2
    <3> QED
      BY <1>2, <3>1
  <2> QED
    BY <2>1, <2>2
<1> QED
  BY <1>7, <1>8

LEMMA CreditsSame ==
  ASSUME CreditsInv, UNCHANGED <<strategy, rotations, waits>>
  PROVE  CreditsInv'
<1>1. \A s \in Scopes, p \in Pools :
        (Owed(rotations[s][p].current, waits[s][p]))' <=> Owed(rotations'[s][p].current, waits'[s][p])
  BY DEF Owed, Balanced, Sum
<1> QED
  BY <1>1 DEF CreditsInv, Fitting, Exists

LEMMA CreditsStep ==
  ASSUME SessionsInv, TurnsInv, CreditsInv, [Next]_vars
  PROVE  CreditsInv'
<1>1. ASSUME NEW scope \in Scopes, NEW pool \in Pools, NEW session \in Sessions \cup {NoSession}, Pick(scope, pool, session)
      PROVE  CreditsInv'
  <2>1. PICK offered \in SUBSET Credentials \ {{}}, now \in Instants :
          Reuse(scope, pool, session, offered, now) \/ Cold(scope, pool, session, offered, now)
    BY <1>1 DEF Pick
  <2>2. CASE Reuse(scope, pool, session, offered, now)
    BY <2>2, CreditsReuseStep
  <2>3. CASE Cold(scope, pool, session, offered, now)
    <3>1. CASE Fitting /\ Credentials # {} /\ strategy # "round-robin"
      BY <2>3, <3>1, CreditsColdStep
    <3>2. CASE ~(Fitting /\ Credentials # {} /\ strategy # "round-robin")
      <4>1. strategy' = strategy /\ strategy \in Strategies
        BY <2>3 DEF Cold, configVars, CreditsInv
      <4> QED
        BY <3>2, <4>1 DEF CreditsInv, Fitting
    <3> QED
      BY <3>1, <3>2
  <2> QED
    BY <2>1, <2>2, <2>3
<1>2. ASSUME NEW s \in Strategies, NEW a \in BOOLEAN, NEW enabled \in BOOLEAN, Configure(s, a, enabled)
      PROVE  CreditsInv'
  <2>1. CASE UNCHANGED <<rotations, waits>> /\ strategy' = strategy
    BY <2>1, CreditsSame
  <2>2. CASE Forget
    <3> DEFINE live == {}
    <3>1. rotations' = [x \in Scopes |-> [p \in Pools |-> NoRotation]] /\ waits' = [x \in Scopes |-> [p \in Pools |-> Zero]]
      BY <2>2 DEF Forget, NoWaits
    <3>2. /\ rotations' = [x \in Scopes |-> IF x \in live THEN rotations[x] ELSE [p \in Pools |-> NoRotation]]
          /\ waits' = [x \in Scopes |-> IF x \in live THEN waits[x] ELSE [p \in Pools |-> Zero]]
      BY <3>1
    <3>3. strategy' \in Strategies
      BY <1>2 DEF Configure
    <3>4. live = {}
      OBVIOUS
    <3> HIDE DEF live
    <3> QED
      BY <3>2, <3>3, <3>4, CreditsForgotten
  <2> QED
    BY <1>2, <2>1, <2>2 DEF Configure, configVars
<1>3. ASSUME NEW live \in SUBSET Scopes, Prune(live) PROVE CreditsInv'
  <2>1. /\ rotations' = [s \in Scopes |-> IF s \in live THEN rotations[s] ELSE [p \in Pools |-> NoRotation]]
        /\ waits' = [s \in Scopes |-> IF s \in live THEN waits[s] ELSE [p \in Pools |-> Zero]]
        /\ strategy' = strategy /\ strategy \in Strategies
    BY <1>3 DEF Prune, configVars, CreditsInv
  <2> QED
    BY <2>1, CreditsForgotten
<1>4. ASSUME NEW c \in Credentials, NEW weight \in Weights, NEW priority \in Priorities, HostEdits(c, weight, priority)
      PROVE  CreditsInv'
  BY <1>4, CreditsSame DEF HostEdits, configVars
<1>5. CASE Tick
  BY <1>5, CreditsSame DEF Tick, configVars
<1>6. CASE UNCHANGED vars
  BY <1>6, CreditsSame DEF vars, configVars
<1> QED
  BY <1>1, <1>2, <1>3, <1>4, <1>5, <1>6 DEF Next

LEMMA CreditsAtFirst ==
  ASSUME Init PROVE CreditsInv
<1>1. rotations = [x \in Scopes |-> [p \in Pools |-> NoRotation]] /\ waits = [x \in Scopes |-> [p \in Pools |-> Zero]]
      /\ strategy \in Strategies
  BY DEF Init, NoWaits
<1>2. SUFFICES ASSUME Fitting, Credentials # {} PROVE CreditsInv
  BY <1>1 DEF CreditsInv
<1>3. NoRotation \in Schedules /\ NoRotation.current = Zero /\ Zero \in [Credentials -> Nat] /\ Owed(Zero, Zero)
  BY <1>2, TurnsAtFirst, FreshCredits
<1> QED
  BY <1>1, <1>3 DEF CreditsInv

LEMMA CreditsInvImplies ==
  ASSUME TurnsInv, CreditsInv
  PROVE  CreditsBalance /\ NoneSkipped
<1>1. ASSUME Fitting, NEW s \in Scopes, NEW p \in Pools PROVE SumOf(rotations[s][p].current) = 0
  <2> DEFINE x == rotations[s][p].current
  <2>1. CASE Credentials = {}
    <3>1. LastId = 0
      BY <2>1 DEF LastId
    <3> DEFINE sum[n \in 0 .. 0] == IF n = 0 THEN 0 ELSE sum[n - 1] + IF n \in DOMAIN x THEN x[n] ELSE 0
    <3>2. sum[0] = 0
      <4> DEFINE f == [n \in 0 .. 0 |-> 0]
      <4>1. f = [n \in 0 .. 0 |-> IF n = 0 THEN 0 ELSE f[n - 1] + IF n \in DOMAIN x THEN x[n] ELSE 0]
        OBVIOUS
      <4> HIDE DEF f
      <4>2. sum = [n \in 0 .. 0 |-> IF n = 0 THEN 0 ELSE sum[n - 1] + IF n \in DOMAIN x THEN x[n] ELSE 0]
        BY <4>1
      <4> HIDE DEF sum
      <4> QED
        BY <4>2
    <3> QED
      BY <3>1, <3>2 DEF SumOf
  <2>2. CASE Credentials # {}
    <3>1. Balanced(x)
      <4>1. CASE strategy = "round-robin"
        <5>1. x = Zero
          BY <4>1 DEF TurnsInv, Rotations
        <5>2. Count \in Nat /\ Turnover \in Nat
          BY <1>1, <2>2, CountsAre
        <5> QED
          BY <5>1, <5>2, ZeroBalanced
      <4>2. CASE strategy # "round-robin"
        BY <1>1, <2>2, <4>2 DEF CreditsInv, Owed
      <4> QED
        BY <4>1, <4>2
    <3> HIDE DEF x
    <3>2. DOMAIN x = Credentials /\ Sum(x, Credentials) = 0
      BY <3>1 DEF Balanced
    <3>3. SumOf(x) = Sum(x, DOMAIN x)
      BY DEF SumOf, Sum
    <3> QED
      BY <3>2, <3>3 DEF x
  <2> QED
    BY <2>1, <2>2
<1>2. ASSUME strategy # "round-robin", Fitting, NEW s \in Scopes, NEW p \in Pools, NEW c \in Credentials
      PROVE  waits[s][p][c] <= Cardinality(Credentials) * (Cardinality(Credentials) - 1) * MaxWeight
  <2> DEFINE x == rotations[s][p].current
             w == waits[s][p]
  <2>1. Credentials # {}
    OBVIOUS
  <2>2. Owed(x, w)
    BY <1>2, <2>1 DEF CreditsInv
  <2> HIDE DEF x, w
  <2>3. Balanced(x) /\ w[c] \in Nat /\ 2 * (w[c] - x[c]) <= Turnover * (Count - 1)
    BY <2>2 DEF Owed
  <2>4. x[c] \in Int /\ 2 * x[c] <= Turnover * (Count - 1)
    BY <1>2, <2>1, <2>3, WaitsOver
  <2>5. Weights # {}
    BY <2>1 DEF TurnsInv
  <2>6. Count \in Nat /\ MaxWeight \in Nat /\ Turnover = Count * MaxWeight
    BY <1>2, <2>1, <2>5, FittingIs DEF Turnover
  <2>7. Turnover * (Count - 1) = Count * (Count - 1) * MaxWeight /\ Turnover * (Count - 1) \in Int
    BY <2>6
  <2>8. w[c] <= Count * (Count - 1) * MaxWeight
    BY <2>3, <2>4, <2>7
  <2> QED
    BY <2>8 DEF w, Count
<1> QED
  BY <1>1, <1>2, TurnsInvImplies DEF CreditsBalance, NoneSkipped

----------------------------------------------------------------------------
(* Who is picked was a candidate *)

LEMMA ScoreIs ==
  ASSUME NEW value \in Int, NEW delta \in Int
  PROVE  Score(value, delta) \in Int
BY SchedulerAssumption DEF Score

\* Weights add up to a number, cut short or not.
LEMMA TotalTyped ==
  ASSUME NEW ids, \A c \in ids : offer[c].weight \in Int
  PROVE  Total(ids) \in Int
<1> DEFINE Step(total, n) == IF n = 0 THEN 0
                             ELSE IF n \in ids THEN Score(total[n - 1], offer[n].weight) ELSE total[n - 1]
           Totals(s, length) == s \in [0 .. length -> Int] /\ \A n \in 0 .. length : s[n] = Step(s, n)
           Possible(length) == \E s : Totals(s, length)
           missing == {n \in Nat : ~Possible(n)}
<1>1. ASSUME NEW n \in missing, \A k \in missing : n <= k PROVE FALSE
  <2>1. n # 0
    <3> DEFINE s == [m \in 0 .. 0 |-> 0]
    <3>1. Totals(s, 0)
      OBVIOUS
    <3> QED
      BY <3>1, <1>1
  <2>2. n \in Nat /\ n - 1 \in Nat /\ Possible(n - 1)
    <3> HIDE DEF Possible
    <3> QED
      BY <1>1, <2>1
  <2>3. PICK s : Totals(s, n - 1)
    BY <2>2
  <2> DEFINE here == IF n \in ids THEN Score(s[n - 1], offer[n].weight) ELSE s[n - 1]
             t == [m \in 0 .. n |-> IF m = n THEN here ELSE s[m]]
  <2>4. s[n - 1] \in Int /\ here \in Int
    <3>1. s[n - 1] \in Int
      <4>1. s \in [0 .. n - 1 -> Int] /\ n - 1 \in 0 .. n - 1
        BY <2>2, <2>3
      <4> QED
        BY <4>1
    <3>2. CASE n \in ids
      <4>1. Score(s[n - 1], offer[n].weight) \in Int
        BY <3>1, <3>2, ScoreIs
      <4> QED
        BY <3>1, <3>2, <4>1
    <3>3. CASE n \notin ids
      BY <3>1, <3>3
    <3> QED
      BY <3>1, <3>2, <3>3
  <2> HIDE DEF here
  <2>5. t \in [0 .. n -> Int]
    BY <2>2, <2>3, <2>4
  <2>6. ASSUME NEW m \in 0 .. n PROVE t[m] = Step(t, m)
    <3>1. CASE m = n
      <4>1. t[n] = here /\ t[n - 1] = s[n - 1]
        BY <2>2
      <4> HIDE DEF t
      <4> QED
        BY <2>1, <3>1, <4>1 DEF here
    <3>2. CASE m # n
      <4>1. m \in 0 .. n - 1 /\ t[m] = s[m] /\ s[m] = Step(s, m)
        BY <2>2, <2>3, <3>2
      <4>2. CASE m = 0
        BY <4>1, <4>2
      <4>3. CASE m # 0
        <5>1. m - 1 \in 0 .. n /\ m - 1 # n /\ t[m - 1] = s[m - 1]
          BY <2>2, <4>1, <4>3
        <5> HIDE DEF t
        <5> QED
          BY <4>1, <4>3, <5>1
      <4> QED
        BY <4>2, <4>3
    <3> QED
      BY <3>1, <3>2
  <2> HIDE DEF t, Step
  <2> QED
    BY <1>1, <2>5, <2>6
<1>2. missing = {}
  <2>1. missing \in SUBSET Nat
    OBVIOUS
  <2> HIDE DEF missing
  <2> QED
    BY <1>1, <2>1, LeastNatural
<1>3. LastId \in Nat /\ LastId \in 0 .. LastId
  BY LastIdIs
<1>4. PICK s : Totals(s, LastId)
  BY <1>2, <1>3
<1> DEFINE all == CHOOSE total : total = [n \in 0 .. LastId |-> Step(total, n)]
<1>5. Total(ids) = all[LastId]
  BY DEF Total
<1> HIDE DEF Step
<1>6. s = [n \in 0 .. LastId |-> Step(s, n)] /\ s \in [0 .. LastId -> Int]
  BY <1>4
<1>7. all = [n \in 0 .. LastId |-> Step(all, n)]
  BY <1>6
<1> HIDE DEF all
<1> DEFINE wrong == {n \in 0 .. LastId : all[n] # s[n]}
<1>8. wrong = {}
  <2> SUFFICES ASSUME wrong # {} PROVE FALSE
    OBVIOUS
  <2>1. PICK n \in wrong : \A m \in wrong : n <= m
    <3>1. wrong \in SUBSET Nat
      OBVIOUS
    <3> HIDE DEF wrong
    <3> QED
      BY <3>1, LeastNatural
  <2>2. n \in 0 .. LastId /\ all[n] # s[n]
    BY <2>1
  <2>3. all[n] = Step(all, n) /\ s[n] = Step(s, n)
    BY <1>6, <1>7, <2>2
  <2>4. n # 0
    BY <2>2, <2>3 DEF Step
  <2>5. n - 1 \in 0 .. LastId /\ ~(n <= n - 1)
    BY <1>3, <2>2, <2>4
  <2>6. all[n - 1] = s[n - 1]
    BY <2>1, <2>5
  <2> QED
    BY <2>2, <2>3, <2>4, <2>6 DEF Step
<1> QED
  BY <1>3, <1>5, <1>6, <1>8

\* Who has the highest credits is one of the candidates, whatever was cut short.
LEMMA WeightedTyped ==
  ASSUME \A c \in Credentials : offer[c].weight \in Nat,
         NEW candidates \in SUBSET Credentials, candidates # {}, NEW old \in Schedules
  PROVE  Weighted(old, candidates).selected \in candidates /\ Weighted(old, candidates).rotation \in Schedules
<1> DEFINE reweighed == Reweighed(old, candidates)
           credits == [c \in Credentials |-> IF c \in candidates THEN Score(reweighed.current[c], offer[c].weight)
                                             ELSE reweighed.current[c]]
           highest == {c \in candidates : \A d \in candidates : credits[c] >= credits[d]}
           selected == Least(highest)
           charged == Charged(credits, selected, candidates)
<1>1. reweighed \in Schedules
  <2> DEFINE seen == {c \in Credentials : old.weights[c] # 0}
             changed == \E c \in candidates \cap seen : old.weights[c] # offer[c].weight
             full == Cardinality(seen \cup candidates) > MaxCredits
             current == [c \in Credentials |-> IF changed \/ (full /\ c \notin candidates) THEN 0 ELSE old.current[c]]
             weights == [c \in Credentials |-> IF c \in candidates THEN offer[c].weight
                                               ELSE IF full THEN 0 ELSE old.weights[c]]
  <2>1. reweighed = [old EXCEPT !.current = current, !.weights = weights]
    BY DEF Reweighed
  <2>2. old.current \in [Credentials -> Int] /\ old.weights \in [Credentials -> Nat]
    BY DEF Schedules
  <2> HIDE DEF changed, full, reweighed
  <2>3. current \in [Credentials -> Int]
    BY <2>2
  <2>4. weights \in [Credentials -> Nat]
    BY <2>2
  <2> HIDE DEF current, weights
  <2> QED
    BY <2>1, <2>3, <2>4 DEF Schedules
<1>2. Weighted(old, candidates) = [selected |-> selected, rotation |-> [reweighed EXCEPT !.current = charged]]
  BY DEF Weighted
<1> HIDE DEF reweighed
<1>3. ASSUME NEW c \in Credentials PROVE credits[c] \in Int
  <2>1. reweighed.current[c] \in Int
    BY <1>1 DEF Schedules
  <2>2. offer[c].weight \in Int
    OBVIOUS
  <2>3. Score(reweighed.current[c], offer[c].weight) \in Int
    BY <2>1, <2>2, ScoreIs
  <2> QED
    BY <2>1, <2>3
<1>4. credits \in [Credentials -> Int]
  <2>1. credits = [c \in Credentials |-> credits[c]]
    OBVIOUS
  <2> HIDE DEF credits
  <2> QED
    BY <1>3, <2>1
<1> HIDE DEF credits
<1>5. highest \in SUBSET Credentials /\ highest # {}
  <2>1. \E c \in candidates : \A d \in candidates : credits[c] >= credits[d]
    BY <1>3, GreatestAmong
  <2> QED
    BY <2>1
<1>6. selected \in highest
  <2> HIDE DEF highest
  <2> QED
    BY <1>5, LeastIs
<1>7. selected \in candidates
  BY <1>6
<1> HIDE DEF selected
<1>8. charged \in [Credentials -> Int]
  <2>1. Total(candidates) \in Int
    BY TotalTyped
  <2>2. -Total(candidates) \in Int /\ credits[selected] \in Int
    BY <1>3, <1>7, <2>1
  <2>3. Score(credits[selected], -Total(candidates)) \in Int
    BY <2>2, ScoreIs
  <2>4. charged = [credits EXCEPT ![selected] = Score(credits[selected], -Total(candidates))]
    BY DEF Charged
  <2> HIDE DEF charged
  <2> QED
    BY <1>4, <2>3, <2>4
<1> HIDE DEF charged
<1>9. [reweighed EXCEPT !.current = charged] \in Schedules
  BY <1>1, <1>8 DEF Schedules
<1> QED
  BY <1>2, <1>7, <1>9

LEMMA TurnTyped ==
  ASSUME strategy \in Strategies, \A c \in Credentials : offer[c].weight \in Nat,
         NEW candidates \in SUBSET Credentials, candidates # {}, NEW old \in Schedules
  PROVE  Turn(old, candidates).selected \in candidates /\ Turn(old, candidates).rotation \in Schedules
<1>1. CASE strategy = "fill-first"
  <2>1. Turn(old, candidates) = [selected |-> Least(candidates), rotation |-> old]
    BY <1>1 DEF Turn
  <2>2. Least(candidates) \in candidates
    BY LeastIs
  <2> QED
    BY <2>1, <2>2
<1>2. CASE strategy = "round-robin"
  <2> DEFINE c == NextInTurn(old, candidates)
  <2>1. Turn(old, candidates) = [selected |-> c, rotation |-> [old EXCEPT !.lastPicked = c]]
    BY <1>2 DEF Turn
  <2>2. c \in candidates
    <3>1. old.lastPicked \in Nat
      BY DEF Schedules
    <3> QED
      BY <3>1, TurnPasses
  <2> HIDE DEF c
  <2>3. c \in Nat
    BY <2>2, SchedulerAssumption
  <2>4. [old EXCEPT !.lastPicked = c] \in Schedules
    BY <2>3 DEF Schedules
  <2> QED
    BY <2>1, <2>2, <2>4
<1>3. CASE strategy \notin {"fill-first", "round-robin"}
  <2>1. Turn(old, candidates) = Weighted(old, candidates)
    BY <1>3 DEF Turn
  <2> QED
    BY <2>1, WeightedTyped
<1> QED
  BY <1>1, <1>2, <1>3

\* No request has been given a credential that is not eligible; and for that, credits are
\* numbers, which have a greatest.
PicksInv ==
  /\ misfits = {}
  /\ strategy \in Strategies
  /\ rotations \in [Scopes -> [Pools -> Schedules]]

LEMMA PicksReuseStep ==
  ASSUME PicksInv, NEW scope \in Scopes, NEW pool \in Pools, NEW session, NEW offered,
         NEW now \in Nat, Reuse(scope, pool, session, offered, now)
  PROVE  PicksInv'
<1> DEFINE r == rotations[scope][pool]
           used == IF Exists(r) THEN [r EXCEPT !.lastUsed = now] ELSE r
<1>1. rotations' = [rotations EXCEPT ![scope][pool] = used] /\ strategy' = strategy
  BY DEF Reuse, configVars
<1>2. used \in Schedules
  <2>1. r \in Schedules
    BY DEF PicksInv
  <2>2. [r EXCEPT !.lastUsed = now] \in Schedules
    BY <2>1 DEF Schedules
  <2> QED
    BY <2>1, <2>2
<1> HIDE DEF used
<1>3. rotations' \in [Scopes -> [Pools -> Schedules]]
  BY <1>1, <1>2 DEF PicksInv
<1>4. misfits' = {}
  <2>1. PICK binding \in Serving(<<scope, pool, session>>, offered, now) : Given(binding.auth, Eligible(offered))
    BY DEF Reuse
  <2>2. binding.auth \in Eligible(offered)
    BY <2>1 DEF Serving
  <2> QED
    BY <2>1, <2>2 DEF Given, PicksInv
<1> QED
  BY <1>1, <1>3, <1>4 DEF PicksInv

LEMMA PicksColdStep ==
  ASSUME TurnsInv, PicksInv, NEW scope \in Scopes, NEW pool \in Pools, NEW session, NEW offered \in SUBSET Credentials,
         NEW now \in Nat, Cold(scope, pool, session, offered, now)
  PROVE  PicksInv'
<1> DEFINE candidates == Highest(Eligible(offered))
           old == IF Exists(rotations[scope][pool]) THEN rotations[scope][pool] ELSE NewRotation
           turn == Turn(old, candidates)
           used == [turn.rotation EXCEPT !.lastUsed = now]
<1>1. Eligible(offered) \in SUBSET Credentials /\ Eligible(offered) # {}
  BY DEF Eligible, Cold
<1>2. candidates \in SUBSET Credentials /\ candidates # {} /\ candidates \subseteq Eligible(offered)
  <2>1. Highest(Eligible(offered)) \subseteq Eligible(offered)
    BY DEF Highest
  <2> QED
    BY <1>1, <2>1, HighestIs
<1>3. NewRotation \in Schedules /\ NoRotation \in Schedules
  BY DEF NewRotation, NoRotation, Schedules, Zero
<1>4. old \in Schedules
  <2>1. rotations[scope][pool] \in Schedules
    BY DEF PicksInv
  <2> QED
    BY <1>3, <2>1
<1>5. \A c \in Credentials : offer[c].weight \in Nat
  BY SchedulerAssumption DEF TurnsInv
<1>6. PICK evicted \in Evicted(scope, pool) :
        rotations' = [rotations EXCEPT ![scope] = [p \in Pools |->
                        IF p \in evicted THEN NoRotation
                        ELSE IF p = pool THEN used ELSE rotations[scope][p]]]
  BY DEF Cold
<1>7. Given(turn.selected, Eligible(offered)) /\ strategy' = strategy
  BY DEF Cold, configVars
<1> HIDE DEF candidates, old
<1>8. turn.selected \in candidates /\ turn.rotation \in Schedules
  <2>1. strategy \in Strategies
    BY DEF PicksInv
  <2> QED
    BY <1>2, <1>4, <1>5, <2>1, TurnTyped
<1>9. misfits' = {}
  BY <1>2, <1>7, <1>8 DEF Given, PicksInv
<1> HIDE DEF turn
<1>10. used \in Schedules
  BY <1>8 DEF Schedules
<1> HIDE DEF used
<1>11. rotations' \in [Scopes -> [Pools -> Schedules]]
  <2> DEFINE row == [p \in Pools |-> IF p \in evicted THEN NoRotation
                                     ELSE IF p = pool THEN used ELSE rotations[scope][p]]
  <2>1. row \in [Pools -> Schedules]
    BY <1>3, <1>10 DEF PicksInv
  <2>2. rotations' = [rotations EXCEPT ![scope] = row]
    BY <1>6
  <2> HIDE DEF row
  <2> QED
    BY <2>1, <2>2 DEF PicksInv
<1> QED
  BY <1>7, <1>9, <1>11 DEF PicksInv

LEMMA PicksStep ==
  ASSUME SessionsInv, TurnsInv, PicksInv, [Next]_vars
  PROVE  PicksInv'
<1>1. ASSUME NEW scope \in Scopes, NEW pool \in Pools, NEW session \in Sessions \cup {NoSession}, Pick(scope, pool, session)
      PROVE  PicksInv'
  <2>1. PICK offered \in SUBSET Credentials \ {{}}, now \in Instants :
          Reuse(scope, pool, session, offered, now) \/ Cold(scope, pool, session, offered, now)
    BY <1>1 DEF Pick
  <2>2. now \in Nat
    BY DEF Instants, SessionsInv, TypeOK
  <2> QED
    BY <2>1, <2>2, PicksReuseStep, PicksColdStep
<1>2. NoRotation \in Schedules
  BY DEF NoRotation, Schedules, Zero
<1>3. ASSUME NEW s \in Strategies, NEW a \in BOOLEAN, NEW enabled \in BOOLEAN, Configure(s, a, enabled)
      PROVE  PicksInv'
  <2>1. misfits' = misfits /\ strategy' \in Strategies
    BY <1>3 DEF Configure
  <2>2. rotations' = rotations \/ rotations' = [x \in Scopes |-> [p \in Pools |-> NoRotation]]
    BY <1>3 DEF Configure, Forget
  <2> QED
    BY <1>2, <2>1, <2>2 DEF PicksInv
<1>4. ASSUME NEW live \in SUBSET Scopes, Prune(live) PROVE PicksInv'
  <2>1. misfits' = misfits /\ strategy' = strategy
    BY <1>4 DEF Prune, configVars
  <2>2. rotations' = [s \in Scopes |-> IF s \in live THEN rotations[s] ELSE [p \in Pools |-> NoRotation]]
    BY <1>4 DEF Prune
  <2> QED
    BY <1>2, <2>1, <2>2 DEF PicksInv
<1>5. ASSUME UNCHANGED <<strategy, rotations, misfits>> PROVE PicksInv'
  BY <1>5 DEF PicksInv
<1>6. ASSUME NEW c \in Credentials, NEW weight \in Weights, NEW priority \in Priorities, HostEdits(c, weight, priority)
      PROVE  PicksInv'
  BY <1>5, <1>6 DEF HostEdits, configVars
<1>7. CASE Tick
  BY <1>5, <1>7 DEF Tick, configVars
<1>8. CASE UNCHANGED vars
  BY <1>5, <1>8 DEF vars, configVars
<1> QED
  BY <1>1, <1>3, <1>4, <1>6, <1>7, <1>8 DEF Next

LEMMA PicksAtFirst ==
  ASSUME Init PROVE PicksInv
<1>1. NoRotation \in Schedules
  BY DEF NoRotation, Schedules, Zero
<1> QED
  BY <1>1 DEF Init, PicksInv

----------------------------------------------------------------------------
(* Theorems *)

LEMMA SessionsAtFirst ==
  ASSUME Init PROVE SessionsInv
<1>1. Len(sessionOrder) = 0 /\ MaxSessions \in Nat
  BY SchedulerAssumption DEF Init
<1>2. TypeOK
  <2>1. sessionOrder \in Seq(Binding({NoUse.auth}))
    BY DEF Init
  <2>2. NoUse \in Use({NoUse.auth})
    BY DEF Use, NoUse
  <2>3. uses \in [SessionKeys -> Use({NoUse.auth})]
    BY <2>2 DEF NoUses, Init
  <2> QED
    BY <2>1, <2>3 DEF TypeOK, Init
<1>3. KeysDiffer(sessionOrder)
  BY DEF KeysDiffer, Init
<1>4. ASSUME NEW k \in SessionKeys PROVE UseOK(sessionOrder, k, uses[k])
  <2>1. uses[k] = NoUse
    BY DEF NoUses, Init
  <2>2. NoUse.others = {}
    BY DEF NoUse
  <2> QED
    BY <2>1, <2>2, FS_EmptySet DEF UseOK
<1> QED
  BY <1>1, <1>2, <1>3, <1>4 DEF SessionsInv

\* Each session that was picked is in the list with the credential it was given, behind none
\* but sessions used since, unless its time is over or as many were used since as the table
\* holds (pick, removeSession and prune of subsetScheduler).
THEOREM SessionsInvariant == Spec => []SessionsInv
BY SessionsAtFirst, SessionsStep, PTL DEF Spec

\* In turns, a candidate of a pool has waited for no more picks than there are credentials
\* between it and the one picked last (NextInTurn, round-robin of subsetScheduleState.pick).
THEOREM TurnsInvariant == Spec => []TurnsInv
<1>1. Init => TurnsInv
  BY TurnsAtFirst
<1>2. SessionsInv /\ TurnsInv /\ [Next]_vars => TurnsInv'
  BY TurnsStep
<1> QED
  BY <1>1, <1>2, SessionsInvariant, PTL DEF Spec

\* No request has been given a credential that is not eligible for it, and the credits that
\* decide by weight are numbers, cut short or not (pick of subsetScheduler).
THEOREM PicksInvariant == Spec => []PicksInv
<1>1. Init => PicksInv
  BY PicksAtFirst
<1>2. SessionsInv /\ TurnsInv /\ PicksInv /\ [Next]_vars => PicksInv'
  BY PicksStep
<1> QED
  BY <1>1, <1>2, SessionsInvariant, TurnsInvariant, PTL DEF Spec

\* A session keeps its binding, whatever else is picked, expires or is evicted, until its
\* time has passed or the table is full of sessions used after it; yet no request is given a
\* credential that is not eligible for it (subsetScheduler).
THEOREM SessionsKeepTheirBinding == Spec => []SessionsStick
<1>1. SessionsInv /\ PicksInv => SessionsStick
  BY SessionsInvImplies DEF PicksInv
<1> QED
  BY <1>1, SessionsInvariant, PicksInvariant, PTL

\* A credential that stays a candidate of a pool gets its turn within as many picks as there
\* are credentials, whatever the others do: the part of NoneSkipped about round-robin.
THEOREM EverybodyGetsATurn == Spec => []TurnsTaken
BY TurnsInvariant, TurnsInvImplies, PTL

\* By weight, all credits of a pool sum up to nothing, no group of its credentials has been
\* credited more than the others can owe it, and who waits has been credited for it
\* (subsetScheduleState.pick).
THEOREM CreditsInvariant == Spec => []CreditsInv
<1>1. Init => CreditsInv
  BY CreditsAtFirst
<1>2. SessionsInv /\ TurnsInv /\ CreditsInv /\ [Next]_vars => CreditsInv'
  BY CreditsStep
<1> QED
  BY <1>1, <1>2, SessionsInvariant, TurnsInvariant, PTL DEF Spec

\* What a turn costs is what was credited for it, for candidates that are missing for a while
\* and after changes of weights too (subsetScheduleState.pick).
THEOREM CreditsStayInBalance == Spec => []CreditsBalance
BY CreditsInvariant, TurnsInvariant, CreditsInvImplies, PTL

\* No candidate is skipped, by turns or by weight (subsetScheduleState.pick).
THEOREM NobodySkipped == Spec => []NoneSkipped
BY CreditsInvariant, TurnsInvariant, CreditsInvImplies, PTL
=============================================================================
