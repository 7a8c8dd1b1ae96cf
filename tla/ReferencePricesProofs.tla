----------------------- MODULE ReferencePricesProofs -----------------------
(***************************************************************************)
(* For any calls, lists and bounds: the manager in use knows what the      *)
(* database holds, its cache is of the prices in force, one call refreshes *)
(* it at a time, and the wait after failures is kept.                      *)
(*                                                                         *)
(* At most one manager is open, the one opened last.  What the invariant   *)
(* says of a call that refreshes, it says only while its manager is open:  *)
(* until then nothing else writes prices.                                  *)
(***************************************************************************)
EXTENDS ReferencePrices, SequenceTheorems, FiniteSetTheorems, TLAPS

----------------------------------------------------------------------------
(* Types *)

ListsOrNone == Lists \cup {{}}

Metadata == [version : Nat, list : ListsOrNone, fetchedAt : Nat, retryAfter : Nat, failures : Nat]

Models == Requested \cup {<<AutoName, AutoName>>}

KeySet == {ReferencePriceKeys(models[1], models[2]) : models \in Models}

Price == {MatchReferencePriceKeys(list, keys) : list \in ListsOrNone, keys \in KeySet}

Entries == Seq([keys : KeySet, price : Price])

ManagerRecord ==
  [closed : BOOLEAN, metadata : Metadata, sequence : Nat, refreshing : BOOLEAN, failed : BOOLEAN, entries : Entries]

CallRecord ==
  [pc : {"idle", "lookup", "query", "recheck", "refresh", "join", "download", "commit", "failing", "finish"},
   kind : {"none", "admission", "usage", "force", "ensure"}, models : Models, manager : Nat, found : BOOLEAN,
   metadata : Metadata, next : Metadata, changed : BOOLEAN, failed : BOOLEAN, observed : Nat, again : BOOLEAN]

Attempts == [count : Nat, at : Nat, lost : BOOLEAN]

TypeOK ==
  /\ clock \in Nat /\ begun \in Nat
  /\ disk \in [prices : ListsOrNone, metadata : Metadata]
  /\ attempts \in Attempts
  /\ managers \in Seq(ManagerRecord)
  /\ calls \in [Calls -> CallRecord]

----------------------------------------------------------------------------
(* The invariant *)

Agrees(metadata, other) ==
  /\ metadata.version = other.version
  /\ metadata.list = other.list
  /\ metadata.fetchedAt = other.fetchedAt

\* No fewer failures than there were, nor a shorter wait.
Remembers(metadata, tries) ==
  /\ metadata.failures >= tries.count
  /\ tries.count > 0 => metadata.retryAfter >= tries.at + Backoff(tries.count)

Works(q) == q.pc \in {"download", "commit", "failing", "finish"}

\* A database, and what was tried since it last got prices.
DiskOK(d, tries) ==
  /\ d.prices = d.metadata.list
  /\ ~tries.lost => Remembers(d.metadata, tries)

\* The manager in use is the one opened last, and only that one may be open.
OpenOK(ms, m) ==
  /\ m \in 0 .. Len(ms)
  /\ m # 0 => m = Len(ms) /\ ~ms[m].closed
  /\ \A n \in 1 .. Len(ms) : ~ms[n].closed => n = Len(ms)

KeysDiffer(entries) == \A i, j \in 1 .. Len(entries) : entries[i].keys = entries[j].keys => i = j

InForce(entries, prices) ==
  \A i \in 1 .. Len(entries) : entries[i].price = MatchReferencePriceKeys(prices, entries[i].keys)

ManagerOK(manager, d, tries) ==
  /\ KeysDiffer(manager.entries)
  /\ ~manager.closed =>
       /\ Agrees(manager.metadata, d.metadata)
       /\ ~manager.refreshing => Remembers(manager.metadata, tries)
       /\ InForce(manager.entries, d.prices)

\* A refresh of an open manager goes on from what the database holds.
RefreshOK(q, d, tries) ==
  /\ q.pc \in {"download", "commit", "failing"} => Agrees(q.metadata, d.metadata) /\ Remembers(q.metadata, tries)
  /\ q.pc = "commit" /\ ~q.changed => q.next.list = d.metadata.list
  /\ q.pc = "finish" => Agrees(q.next, d.metadata) /\ Remembers(q.next, tries)

\* Who waits for a refresh has seen no later one end.
JoinOK(q, manager) ==
  q.pc = "join" =>
    /\ q.observed <= manager.sequence
    /\ q.observed = manager.sequence => manager.refreshing

CallOK(q, ms, d, tries) ==
  /\ q.manager \in 0 .. Len(ms)
  /\ q.pc \in {"query", "refresh", "join"} \/ Works(q) => q.manager # 0
  /\ q.manager # 0 =>
       /\ JoinOK(q, ms[q.manager])
       /\ ~ms[q.manager].closed => RefreshOK(q, d, tries)

\* A manager is refreshing while one call refreshes it, and no more than one does.
OneWorks(cs, ms) ==
  \A m \in 1 .. Len(ms) :
    /\ ms[m].refreshing <=> \E c \in Calls : Works(cs[c]) /\ cs[c].manager = m
    /\ \A c, e \in Calls :
         Works(cs[c]) /\ cs[c].manager = m /\ Works(cs[e]) /\ cs[e].manager = m => c = e

PricesInv ==
  /\ TypeOK
  /\ DiskOK(disk, attempts)
  /\ OpenOK(managers, current)
  /\ \A m \in 1 .. Len(managers) : ManagerOK(managers[m], disk, attempts)
  /\ \A c \in Calls : CallOK(calls[c], managers, disk, attempts)
  /\ OneWorks(calls, managers)

----------------------------------------------------------------------------
(* Waits *)

\* The wait does not get shorter with more failures.
LEMMA BackoffGrows ==
  ASSUME NEW m \in Nat \ {0}, NEW n \in Nat, m <= n
  PROVE  Backoff(m) \in Nat /\ Backoff(n) \in Nat /\ Backoff(m) <= Backoff(n)
<1> DEFINE factor(k) == 2^Shorter(k - 1, 6)
<1>1. BackoffUnit \in Nat /\ BackoffCap \in Nat
  BY ReferencePricesAssumption
<1>2. ASSUME NEW k \in Nat \ {0} PROVE Shorter(k - 1, 6) \in 0 .. 6
  BY DEF Shorter
<1> DEFINE power(e) == 2^e
<1>3. power(0) = 1 /\ power(1) = 2 /\ power(2) = 4 /\ power(3) = 8 /\ power(4) = 16 /\ power(5) = 32 /\ power(6) = 64
  OBVIOUS
<1> HIDE DEF power
<1>4. \A e, f \in 0 .. 6 : e <= f => power(e) \in Nat /\ power(f) \in Nat /\ power(e) <= power(f)
  <2> TAKE e \in 0 .. 6, f \in 0 .. 6
  <2>1. e = 0 \/ e = 1 \/ e = 2 \/ e = 3 \/ e = 4 \/ e = 5 \/ e = 6
    OBVIOUS
  <2>2. f = 0 \/ f = 1 \/ f = 2 \/ f = 3 \/ f = 4 \/ f = 5 \/ f = 6
    OBVIOUS
  <2> QED
    BY <2>1, <2>2, <1>3
<1>5. Shorter(m - 1, 6) <= Shorter(n - 1, 6)
  BY DEF Shorter
<1>6. factor(m) \in Nat /\ factor(n) \in Nat /\ factor(m) <= factor(n)
  <2>1. Shorter(m - 1, 6) \in 0 .. 6 /\ Shorter(n - 1, 6) \in 0 .. 6
    BY <1>2
  <2> QED
    BY <1>4, <1>5, <2>1 DEF power
<1> HIDE DEF factor
<1>7. BackoffUnit * factor(m) \in Nat /\ BackoffUnit * factor(n) \in Nat
      /\ BackoffUnit * factor(m) <= BackoffUnit * factor(n)
  <2>1. \A u, x, y \in Nat : x <= y => u * x \in Nat /\ u * y \in Nat /\ u * x <= u * y
    OBVIOUS
  <2> QED
    BY <1>1, <1>6, <2>1
<1>8. Backoff(m) = Shorter(BackoffUnit * factor(m), BackoffCap) /\ Backoff(n) = Shorter(BackoffUnit * factor(n), BackoffCap)
  BY DEF Backoff, factor
<1> QED
  BY <1>1, <1>7, <1>8 DEF Shorter

LEMMA FailedTyped ==
  ASSUME NEW metadata \in Metadata, clock \in Nat
  PROVE  /\ Failed(metadata) \in Metadata
         /\ Failed(metadata).failures = metadata.failures + 1
         /\ Failed(metadata).retryAfter = clock + Backoff(metadata.failures + 1)
         /\ Agrees(Failed(metadata), metadata)
<1> DEFINE failures == metadata.failures + 1
           retryAfter == clock + Backoff(failures)
           next == [metadata EXCEPT !.failures = failures, !.retryAfter = retryAfter]
<1>1. failures \in Nat \ {0}
  BY DEF Metadata
<1>2. retryAfter \in Nat
  BY <1>1, BackoffGrows
<1>3. Failed(metadata) = next
  BY DEF Failed
<1> HIDE DEF failures, retryAfter
<1>4. next \in Metadata /\ next.failures = failures /\ next.retryAfter = retryAfter /\ Agrees(next, metadata)
  BY <1>1, <1>2 DEF Metadata, Agrees
<1> QED
  BY <1>3, <1>4 DEF failures, retryAfter

\* A failure is added to those remembered, and its wait is long enough.
LEMMA FailedRemembers ==
  ASSUME NEW metadata \in Metadata, NEW tries \in Attempts, NEW lost \in BOOLEAN, clock \in Nat,
         Remembers(metadata, tries)
  PROVE  /\ Agrees(Failed(metadata), metadata)
         /\ Remembers(Failed(metadata), [count |-> tries.count + 1, at |-> clock, lost |-> lost])
<1>1. metadata.failures \in Nat /\ tries.count \in Nat /\ tries.count <= metadata.failures
  BY DEF Metadata, Attempts, Remembers
<1>2. /\ Backoff(metadata.failures + 1) \in Nat /\ Backoff(tries.count + 1) \in Nat
      /\ Backoff(tries.count + 1) <= Backoff(metadata.failures + 1)
  BY <1>1, BackoffGrows
<1>3. /\ Failed(metadata).failures = metadata.failures + 1
      /\ Failed(metadata).retryAfter = clock + Backoff(metadata.failures + 1)
      /\ Agrees(Failed(metadata), metadata)
  BY FailedTyped
<1> QED
  BY <1>1, <1>2, <1>3 DEF Remembers

----------------------------------------------------------------------------
(* The cache *)

LEMMA RemoveAtProperties ==
  ASSUME NEW S, NEW s \in Seq(S), NEW i \in 1 .. Len(s)
  PROVE  /\ RemoveAt(s, i) \in Seq(S) /\ Len(RemoveAt(s, i)) = Len(s) - 1
         /\ \A j \in 1 .. Len(s) - 1 : RemoveAt(s, i)[j] = IF j < i THEN s[j] ELSE s[j + 1]
<1> DEFINE a == SubSeq(s, 1, i - 1)
           b == SubSeq(s, i + 1, Len(s))
<1>1. Len(s) \in Nat
  OBVIOUS
<1>2. a \in Seq(S) /\ Len(a) = i - 1 /\ \A j \in 1 .. i - 1 : a[j] = s[j]
  BY <1>1, SubSeqProperties
<1>3. b \in Seq(S) /\ Len(b) = Len(s) - i /\ \A j \in 1 .. Len(s) - i : b[j] = s[i + j]
  BY <1>1, SubSeqProperties
<1>4. RemoveAt(s, i) = a \o b
  BY DEF RemoveAt
<1> HIDE DEF a, b
<1>5. a \o b \in Seq(S) /\ Len(a \o b) = Len(a) + Len(b)
      /\ \A j \in 1 .. Len(a) + Len(b) : (a \o b)[j] = IF j <= Len(a) THEN a[j] ELSE b[j - Len(a)]
  BY <1>2, <1>3, ConcatProperties
<1>6. ASSUME NEW j \in 1 .. Len(s) - 1 PROVE (a \o b)[j] = IF j < i THEN s[j] ELSE s[j + 1]
  <2>1. CASE j < i
    BY <2>1, <1>1, <1>2, <1>3, <1>5
  <2>2. CASE ~(j < i)
    <3>1. j - Len(a) \in 1 .. Len(s) - i /\ i + (j - Len(a)) = j + 1 /\ ~(j <= Len(a)) /\ j \in 1 .. Len(a) + Len(b)
      BY <2>2, <1>1, <1>2, <1>3
    <3>2. (a \o b)[j] = b[j - Len(a)]
      BY <3>1, <1>5
    <3> QED
      BY <2>2, <3>1, <3>2, <1>3
  <2> QED
    BY <2>1, <2>2
<1>7. Len(a) + Len(b) = Len(s) - 1
  BY <1>1, <1>2, <1>3
<1>8. RemoveAt(s, i) \in Seq(S) /\ Len(RemoveAt(s, i)) = Len(s) - 1
  BY <1>4, <1>5, <1>7
<1> QED
  BY <1>4, <1>6, <1>8

LEMMA ButLast ==
  ASSUME NEW S, NEW s \in Seq(S), Len(s) > 0
  PROVE  Front(s) \in Seq(S) /\ Len(Front(s)) = Len(s) - 1 /\ \A i \in 1 .. Len(s) - 1 : Front(s)[i] = s[i]
<1> DEFINE front == SubSeq(s, 1, Len(s) - 1)
<1>1. Len(s) \in Nat
  OBVIOUS
<1>2. front \in Seq(S) /\ Len(front) = Len(s) - 1 /\ \A i \in 1 .. Len(s) - 1 : front[i] = s[i]
  <2>1. \A i \in 1 .. Len(s) - 1 : s[i] \in S
    BY <1>1, ElementOfSeq
  <2>2. Len(s) - 1 \in Int /\ (1 <= Len(s) - 1 => Len(s) - 1 - 1 + 1 = Len(s) - 1) /\ (~(1 <= Len(s) - 1) => Len(s) - 1 = 0)
    <3>1. ASSUME NEW n \in Nat, n > 0
          PROVE  n - 1 \in Int /\ (1 <= n - 1 => n - 1 - 1 + 1 = n - 1) /\ (~(1 <= n - 1) => n - 1 = 0)
      BY ONLY <3>1
    <3> QED
      BY <1>1, <3>1
  <2>3. /\ front \in Seq(S)
        /\ Len(front) = IF 1 <= Len(s) - 1 THEN Len(s) - 1 - 1 + 1 ELSE 0
        /\ \A i \in 1 .. Len(s) - 1 - 1 + 1 : front[i] = s[1 + i - 1]
    BY <2>1, <2>2, SubSeqProperties
  <2> HIDE DEF front
  <2> QED
    BY <1>1, <2>2, <2>3
<1> QED
  BY <1>2 DEF Front

\* An entry put in front of some others, with keys none of them has, is one more sound cache.
LEMMA InFront ==
  ASSUME NEW prices, NEW entries \in Entries, NEW open \in BOOLEAN, KeysDiffer(entries), open => InForce(entries, prices),
         NEW entry \in [keys : KeySet, price : Price], open => entry.price = MatchReferencePriceKeys(prices, entry.keys),
         \A i \in 1 .. Len(entries) : entries[i].keys # entry.keys
  PROVE  /\ <<entry>> \o entries \in Entries
         /\ KeysDiffer(<<entry>> \o entries) /\ (open => InForce(<<entry>> \o entries, prices))
<1> DEFINE added == <<entry>> \o entries
<1>1. Len(entries) \in Nat
  BY DEF Entries
<1>2. <<entry>> \in Entries /\ Len(<<entry>>) = 1 /\ <<entry>>[1] = entry
  BY DEF Entries
<1>3. /\ added \in Entries /\ Len(added) = 1 + Len(entries)
      /\ \A i \in 1 .. 1 + Len(entries) : added[i] = IF i <= 1 THEN <<entry>>[i] ELSE entries[i - 1]
  BY <1>2, ConcatProperties DEF Entries
<1>4. added[1] = entry /\ \A i \in 2 .. Len(added) : i - 1 \in 1 .. Len(entries) /\ added[i] = entries[i - 1]
  BY <1>1, <1>2, <1>3
<1> HIDE DEF added
<1>5. \A i \in 1 .. Len(added) : i = 1 \/ i \in 2 .. Len(added)
  BY <1>1, <1>3
<1>6. KeysDiffer(added)
  <2> SUFFICES ASSUME NEW i \in 1 .. Len(added), NEW j \in 1 .. Len(added), added[i].keys = added[j].keys PROVE i = j
    BY DEF KeysDiffer
  <2>1. CASE i = 1 /\ j = 1
    BY <2>1
  <2>2. CASE i = 1 /\ j \in 2 .. Len(added)
    BY <2>2, <1>4
  <2>3. CASE i \in 2 .. Len(added) /\ j = 1
    BY <2>3, <1>4
  <2>4. CASE i \in 2 .. Len(added) /\ j \in 2 .. Len(added)
    <3>1. i - 1 = j - 1
      BY SMTT(30), <2>4, <1>4 DEF KeysDiffer
    <3> QED
      BY <3>1
  <2> QED
    BY <1>5, <2>1, <2>2, <2>3, <2>4
<1>7. (open => InForce(added, prices))
  BY <1>4, <1>5 DEF InForce
<1> QED
  BY <1>3, <1>6, <1>7 DEF added

\* What is left without an entry is sound, and has its keys nowhere.
LEMMA WithoutOne ==
  ASSUME NEW prices, NEW entries \in Entries, NEW open \in BOOLEAN, KeysDiffer(entries), open => InForce(entries, prices), NEW i \in 1 .. Len(entries)
  PROVE  /\ RemoveAt(entries, i) \in Entries
         /\ KeysDiffer(RemoveAt(entries, i)) /\ (open => InForce(RemoveAt(entries, i), prices))
         /\ \A j \in 1 .. Len(RemoveAt(entries, i)) : RemoveAt(entries, i)[j].keys # entries[i].keys
<1> DEFINE left == RemoveAt(entries, i)
           old(j) == IF j < i THEN j ELSE j + 1
<1>1. Len(entries) \in Nat
  BY DEF Entries
<1>2. left \in Entries /\ Len(left) = Len(entries) - 1
      /\ \A j \in 1 .. Len(entries) - 1 : left[j] = IF j < i THEN entries[j] ELSE entries[j + 1]
  BY RemoveAtProperties DEF Entries
<1> HIDE DEF left
<1>3. \A j \in 1 .. Len(left) : old(j) \in 1 .. Len(entries) /\ old(j) # i /\ left[j] = entries[old(j)]
  BY <1>1, <1>2
<1>4. \A j, k \in 1 .. Len(left) : old(j) = old(k) => j = k
  BY <1>1, <1>2
<1> HIDE DEF old
<1>5. KeysDiffer(left)
  BY SMTT(30), <1>3, <1>4 DEF KeysDiffer
<1>6. (open => InForce(left, prices))
  BY <1>3 DEF InForce
<1>7. \A j \in 1 .. Len(left) : left[j].keys # entries[i].keys
  BY <1>3 DEF KeysDiffer
<1> QED
  BY <1>2, <1>5, <1>6, <1>7 DEF left

\* A cache that begins with another one is sound.
LEMMA WithoutLast ==
  ASSUME NEW prices, NEW entries \in Entries, NEW open \in BOOLEAN, KeysDiffer(entries), open => InForce(entries, prices), Len(entries) > 0
  PROVE  Front(entries) \in Entries /\ KeysDiffer(Front(entries)) /\ (open => InForce(Front(entries), prices))
<1> DEFINE front == Front(entries)
<1>1. Len(entries) \in Nat
  BY DEF Entries
<1>2. front \in Entries /\ Len(front) = Len(entries) - 1 /\ \A i \in 1 .. Len(entries) - 1 : front[i] = entries[i]
  BY ButLast DEF Entries
<1> HIDE DEF front
<1>3. \A i \in 1 .. Len(front) : i \in 1 .. Len(entries) /\ front[i] = entries[i]
  BY <1>1, <1>2
<1>4. KeysDiffer(front) /\ (open => InForce(front, prices))
  BY <1>3 DEF KeysDiffer, InForce
<1> QED
  BY <1>2, <1>4 DEF front

\* An entry that is used moves to the front of a sound cache.
LEMMA UsedSound ==
  ASSUME NEW prices, NEW entries \in Entries, NEW open \in BOOLEAN, KeysDiffer(entries), open => InForce(entries, prices), NEW i \in 1 .. Len(entries)
  PROVE  LET used == <<entries[i]>> \o RemoveAt(entries, i)
         IN  used \in Entries /\ KeysDiffer(used) /\ (open => InForce(used, prices))
<1> DEFINE entry == entries[i]
           left == RemoveAt(entries, i)
<1>1. entry \in [keys : KeySet, price : Price]
  BY ElementOfSeq DEF Entries
<1>2. open => entry.price = MatchReferencePriceKeys(prices, entry.keys)
  BY DEF InForce
<1>3. left \in Entries /\ KeysDiffer(left) /\ (open => InForce(left, prices)) /\ \A j \in 1 .. Len(left) : left[j].keys # entry.keys
  BY WithoutOne
<1> HIDE DEF entry, left
<1>4. <<entry>> \o left \in Entries /\ KeysDiffer(<<entry>> \o left) /\ (open => InForce(<<entry>> \o left, prices))
  BY <1>1, <1>2, <1>3, InFront
<1> QED
  BY <1>4 DEF entry, left

\* What is remembered of the prices in force keeps the cache sound.
LEMMA RememberSound ==
  ASSUME NEW prices, NEW entries \in Entries, NEW open \in BOOLEAN, KeysDiffer(entries), open => InForce(entries, prices),
         NEW entry \in [keys : KeySet, price : Price], open => entry.price = MatchReferencePriceKeys(prices, entry.keys)
  PROVE  LET next == Remember(entries, entry)
         IN  next \in Entries /\ KeysDiffer(next) /\ (open => InForce(next, prices))
<1> DEFINE left == Forget(entries, entry.keys)
           added == <<entry>> \o left
<1>1. left \in Entries /\ KeysDiffer(left) /\ (open => InForce(left, prices)) /\ \A j \in 1 .. Len(left) : left[j].keys # entry.keys
  <2>1. DOMAIN entries = 1 .. Len(entries)
    BY LenProperties DEF Entries
  <2>2. CASE \A i \in DOMAIN entries : entries[i].keys # entry.keys
    BY <2>1, <2>2 DEF Forget
  <2>3. CASE ~(\A i \in DOMAIN entries : entries[i].keys # entry.keys)
    <3> DEFINE at == CHOOSE i \in DOMAIN entries : entries[i].keys = entry.keys
    <3>1. at \in 1 .. Len(entries) /\ entries[at].keys = entry.keys
      BY <2>1, <2>3
    <3>2. left = RemoveAt(entries, at)
      BY <2>3 DEF Forget
    <3> HIDE DEF at, left
    <3> QED
      BY <3>1, <3>2, WithoutOne
  <2> QED
    BY <2>2, <2>3
<1> HIDE DEF left
<1>2. added \in Entries /\ KeysDiffer(added) /\ (open => InForce(added, prices))
  BY <1>1, InFront
<1>3. Remember(entries, entry) = IF Len(added) > CacheCapacity THEN Front(added) ELSE added
  BY DEF Remember, left
<1> HIDE DEF added
<1>4. CASE Len(added) > CacheCapacity
  <2>1. Len(added) > 0
    BY <1>4, <1>2, ReferencePricesAssumption DEF Entries
  <2> QED
    BY <1>2, <1>3, <1>4, <2>1, WithoutLast
<1>5. CASE ~(Len(added) > CacheCapacity)
  BY <1>2, <1>3, <1>5
<1> QED
  BY <1>4, <1>5

----------------------------------------------------------------------------
(* Steps of a call *)

BackoffStep ==
  \A c \in Calls :
    /\ calls[c].pc = "refresh" /\ calls'[c].pc = "download"
    /\ calls[c].kind # "force" /\ calls[c].manager = current /\ attempts.count > 0
    => clock >= attempts.at + Backoff(attempts.count)

StepOK == PricesInv' /\ BackoffStep

Quiet(q) == q.pc \in {"idle", "lookup", "recheck"}

LEMMA QuietOK ==
  ASSUME NEW q, NEW ms, NEW d, NEW tries, Quiet(q), q.manager \in 0 .. Len(ms)
  PROVE  CallOK(q, ms, d, tries) /\ ~Works(q)
BY DEF CallOK, Works, Quiet, JoinOK, RefreshOK

\* Who works where is what it was when the call that steps works as it did.
LEMMA WorkKept ==
  ASSUME TypeOK, OneWorks(calls, managers), NEW c \in Calls, NEW q, calls' = [calls EXCEPT ![c] = q],
         Works(q) <=> Works(calls[c]), Works(q) => q.manager = calls[c].manager,
         NEW ms, Len(ms) = Len(managers),
         \A m \in 1 .. Len(managers) : ms[m].refreshing = managers[m].refreshing
  PROVE  OneWorks(calls', ms)
<1>1. \A e \in Calls : calls'[e] = IF e = c THEN q ELSE calls[e]
  BY DEF TypeOK
<1>2. \A e \in Calls, m \in 1 .. Len(managers) :
        Works(calls'[e]) /\ calls'[e].manager = m <=> Works(calls[e]) /\ calls[e].manager = m
  BY <1>1
<1> QED
  BY <1>2 DEF OneWorks

\* A step of a call that leaves the managers and the database as they are.
LEMMA CallStep ==
  ASSUME PricesInv, NEW c \in Calls, NEW q \in CallRecord, calls' = [calls EXCEPT ![c] = q],
         CallOK(q, managers, disk, attempts),
         Works(q) <=> Works(calls[c]), Works(q) => q.manager = calls[c].manager,
         q.pc = "download" => calls[c].pc # "refresh",
         UNCHANGED <<clock, disk, current, managers, attempts>>, begun' \in Nat
  PROVE  StepOK
<1>1. calls \in [Calls -> CallRecord] /\ \A e \in Calls : calls'[e] = IF e = c THEN q ELSE calls[e]
  BY DEF PricesInv, TypeOK
<1>2. TypeOK'
  BY <1>1 DEF PricesInv, TypeOK
<1>3. DiskOK(disk, attempts)' /\ OpenOK(managers, current)'
      /\ (\A m \in 1 .. Len(managers) : ManagerOK(managers[m], disk, attempts))'
  BY DEF PricesInv
<1>4. (\A e \in Calls : CallOK(calls[e], managers, disk, attempts))'
  BY <1>1 DEF PricesInv
<1>5. OneWorks(calls, managers)'
  <2>1. OneWorks(calls', managers)
    BY WorkKept DEF PricesInv
  <2> QED
    BY <2>1
<1>6. BackoffStep
  BY <1>1 DEF BackoffStep
<1> QED
  BY <1>2, <1>3, <1>4, <1>5, <1>6 DEF StepOK, PricesInv

\* A step of a call on its manager, and what it writes if it is a refresh of an open one.
LEMMA ManagerStep ==
  ASSUME PricesInv, NEW c \in Calls, NEW q \in CallRecord, calls' = [calls EXCEPT ![c] = q],
         NEW m \in 1 .. Len(managers), calls[c].manager = m,
         NEW manager \in ManagerRecord, managers' = [managers EXCEPT ![m] = manager],
         manager.closed = managers[m].closed,
         \/ manager.sequence = managers[m].sequence /\ (managers[m].refreshing => manager.refreshing)
         \/ manager.sequence = managers[m].sequence + 1,
         ManagerOK(manager, disk', attempts'), CallOK(q, managers', disk', attempts'), OneWorks(calls', managers'),
         disk' \in [prices : ListsOrNone, metadata : Metadata], attempts' \in Attempts, DiskOK(disk', attempts'),
         UNCHANGED <<disk, attempts>> \/ (Works(calls[c]) /\ ~managers[m].closed),
         UNCHANGED <<clock, current, begun>>
  PROVE  PricesInv' /\ ((q.pc = "download" => calls[c].pc # "refresh") => BackoffStep)
<1>1. calls \in [Calls -> CallRecord] /\ \A e \in Calls : calls'[e] = IF e = c THEN q ELSE calls[e]
  BY DEF PricesInv, TypeOK
<1>2. managers \in Seq(ManagerRecord) /\ Len(managers) \in Nat
  BY DEF PricesInv, TypeOK
<1>3. managers' \in Seq(ManagerRecord) /\ Len(managers') = Len(managers)
      /\ \A n \in 1 .. Len(managers) : managers'[n] = IF n = m THEN manager ELSE managers[n]
  BY <1>2
<1>4. TypeOK'
  BY <1>1, <1>3 DEF PricesInv, TypeOK
<1>5. OpenOK(managers, current)'
  BY <1>2, <1>3 DEF PricesInv, OpenOK
<1>6. ~managers[m].closed => \A n \in 1 .. Len(managers) : n # m => managers[n].closed
  BY DEF PricesInv, OpenOK
<1>7. ASSUME NEW n \in 1 .. Len(managers) PROVE ManagerOK(managers'[n], disk', attempts')
  <2>1. CASE n = m
    BY <2>1, <1>3
  <2>2. CASE n # m /\ UNCHANGED <<disk, attempts>>
    BY <2>2, <1>3 DEF PricesInv
  <2>3. CASE n # m /\ ~managers[m].closed
    BY <2>3, <1>3, <1>6 DEF PricesInv, ManagerOK
  <2> QED
    BY <2>1, <2>2, <2>3
<1>8. ASSUME NEW e \in Calls PROVE CallOK(calls'[e], managers', disk', attempts')
  <2>1. CASE e = c
    BY <2>1, <1>1
  <2>2. CASE e # c
    <3> DEFINE p == calls[e]
               n == p.manager
    <3>1. p \in CallRecord /\ calls'[e] = p /\ n \in Nat /\ p.observed \in Nat
      BY <1>1, <2>2 DEF CallRecord
    <3>2. /\ n \in 0 .. Len(managers)
          /\ p.pc \in {"query", "refresh", "join"} \/ Works(p) => n # 0
          /\ n # 0 => JoinOK(p, managers[n]) /\ (~managers[n].closed => RefreshOK(p, disk, attempts))
      BY DEF PricesInv, CallOK
    <3>3. n # 0 => JoinOK(p, managers'[n])
      <4>1. managers[m].sequence \in Nat
        <5>1. managers[m] \in ManagerRecord
          BY <1>2, ElementOfSeq
        <5> QED
          BY <5>1 DEF ManagerRecord
      <4>2. CASE n = m
        BY <4>1, <4>2, <3>1, <3>2, <1>3 DEF JoinOK
      <4>3. CASE n # m
        BY <4>3, <3>2, <1>3
      <4> QED
        BY <4>2, <4>3
    <3>4. n # 0 /\ ~managers'[n].closed => RefreshOK(p, disk', attempts')
      <4>1. CASE UNCHANGED <<disk, attempts>>
        BY <4>1, <3>2, <1>3
      <4>2. CASE Works(calls[c]) /\ ~managers[m].closed
        <5>1. n # 0 /\ ~managers'[n].closed => n = m
          BY <4>2, <3>2, <1>3, <1>6
        <5>2. n = m => ~Works(p)
          BY <4>2, <2>2 DEF PricesInv, OneWorks
        <5> QED
          BY <5>1, <5>2 DEF RefreshOK, Works
      <4> QED
        BY <4>1, <4>2
    <3> QED
      BY <3>1, <3>2, <3>3, <3>4, <1>3 DEF CallOK
  <2> QED
    BY <2>1, <2>2
<1>9. (q.pc = "download" => calls[c].pc # "refresh") => BackoffStep
  BY <1>1 DEF BackoffStep
<1>10. (\A n \in 1 .. Len(managers) : ManagerOK(managers[n], disk, attempts))'
  BY <1>3, <1>7
<1> QED
  BY <1>4, <1>5, <1>8, <1>9, <1>10 DEF PricesInv

\* What holds of a call and of its manager.
LEMMA CallFacts ==
  ASSUME PricesInv, NEW c \in Calls
  PROVE  /\ calls[c] \in CallRecord /\ calls[c].manager \in 0 .. Len(managers)
         /\ CallOK(calls[c], managers, disk, attempts)
         /\ calls[c].manager # 0 =>
              /\ calls[c].manager \in 1 .. Len(managers)
              /\ Manager(c) = managers[calls[c].manager] /\ Manager(c) \in ManagerRecord
              /\ ManagerOK(Manager(c), disk, attempts)
<1>1. calls[c] \in CallRecord /\ managers \in Seq(ManagerRecord) /\ Len(managers) \in Nat
  BY DEF PricesInv, TypeOK
<1>2. calls[c].manager \in 0 .. Len(managers) /\ CallOK(calls[c], managers, disk, attempts)
  BY DEF PricesInv, CallOK
<1>3. CASE calls[c].manager # 0
  <2>1. calls[c].manager \in 1 .. Len(managers)
    BY <1>1, <1>2, <1>3
  <2>2. managers[calls[c].manager] \in ManagerRecord
    BY <1>1, <2>1, ElementOfSeq
  <2> QED
    BY <1>1, <1>2, <2>1, <2>2 DEF Manager, PricesInv
<1> QED
  BY <1>1, <1>2, <1>3

LEMMA IdleTyped ==
  /\ NoMetadata \in Metadata /\ Idle \in CallRecord
  /\ Idle.pc = "idle" /\ Idle.manager = 0
<1>1. NoMetadata \in Metadata
  BY DEF NoMetadata, Metadata, ListsOrNone
<1> QED
  BY <1>1 DEF Idle, CallRecord, Models

LEMMA RefreshedTyped ==
  ASSUME NEW q \in CallRecord, NEW failed \in BOOLEAN
  PROVE  LET next == Refreshed(q, failed)
         IN  next \in CallRecord /\ Quiet(next) /\ next.manager \in {0, q.manager}
<1> DEFINE pc == IF failed THEN "recheck" ELSE "lookup"
           waiting == [Idle EXCEPT !.kind = q.kind, !.models = q.models, !.manager = q.manager]
           next == [waiting EXCEPT !.pc = pc, !.again = TRUE]
<1>1. pc \in {"recheck", "lookup"}
  OBVIOUS
<1>2. q.kind \in {"none", "admission", "usage", "force", "ensure"} /\ q.models \in Models /\ q.manager \in Nat
  BY DEF CallRecord
<1>3. waiting \in CallRecord /\ waiting.manager = q.manager
  BY <1>2, IdleTyped DEF CallRecord
<1> HIDE DEF pc
<1>4. next \in CallRecord /\ next.manager = q.manager /\ next.pc = pc
  <2> HIDE DEF waiting
  <2> QED
    BY <1>1, <1>3 DEF CallRecord
<1> HIDE DEF next
<1>5. Refreshed(q, failed) = IF q.kind # "admission" THEN Idle ELSE next
  BY DEF Refreshed, Waiting, waiting, next, pc
<1> QED
  BY <1>1, <1>4, <1>5, IdleTyped DEF Quiet

LEMMA KeysTyped ==
  ASSUME NEW c \in Calls, calls[c] \in CallRecord
  PROVE  Keys(c) \in KeySet
<1>1. calls[c].models \in Models
  BY DEF CallRecord
<1> QED
  BY <1>1 DEF Keys, KeySet

LEMMA CurrentTyped ==
  ASSUME PricesInv
  PROVE  /\ current \in 0 .. Len(managers) /\ current \in Nat
         /\ current # 0 => managers[current] \in ManagerRecord
<1>1. managers \in Seq(ManagerRecord) /\ Len(managers) \in Nat /\ current \in 0 .. Len(managers)
  BY DEF PricesInv, TypeOK, OpenOK
<1>2. current # 0 => current \in 1 .. Len(managers)
  BY <1>1
<1> QED
  BY <1>1, <1>2, ElementOfSeq

LEMMA ResolveStep ==
  ASSUME PricesInv, NEW c \in Calls, NEW models \in Requested, NEW refresh \in BOOLEAN, Resolve(c, models, refresh)
  PROVE  StepOK
<1> DEFINE kind == IF refresh THEN "admission" ELSE "usage"
           q == [Idle EXCEPT !.pc = "lookup", !.models = models, !.manager = current, !.kind = kind]
<1>1. kind \in {"admission", "usage"}
  OBVIOUS
<1> HIDE DEF kind
<1>2. q \in CallRecord /\ q.pc = "lookup" /\ q.manager = current
  BY <1>1, IdleTyped, CurrentTyped DEF CallRecord, Models
<1>3. calls[c].pc = "idle" /\ calls' = [calls EXCEPT ![c] = q] /\ begun' = begun + 1
  BY DEF Resolve, kind
<1> HIDE DEF q
<1>4. CallOK(q, managers, disk, attempts) /\ ~Works(q) /\ ~Works(calls[c])
  BY <1>2, <1>3, CurrentTyped, QuietOK DEF Quiet, Works
<1>5. begun' \in Nat
  BY <1>3 DEF PricesInv, TypeOK
<1> QED
  BY <1>2, <1>3, <1>4, <1>5, CallStep DEF Resolve

LEMMA AskStep ==
  ASSUME PricesInv, NEW c \in Calls, NEW kind \in {"force", "ensure"}, Ask(c, kind)
  PROVE  StepOK
<1> DEFINE q == [Idle EXCEPT !.pc = "refresh", !.kind = kind, !.manager = current, !.observed = managers[current].sequence]
<1>1. current # 0 /\ managers[current].sequence \in Nat
  BY CurrentTyped DEF Ask, ManagerRecord
<1>2. q \in CallRecord /\ q.pc = "refresh" /\ q.manager = current
  BY <1>1, IdleTyped, CurrentTyped DEF CallRecord
<1>3. calls[c].pc = "idle" /\ calls' = [calls EXCEPT ![c] = q] /\ begun' = begun + 1
  BY DEF Ask
<1> HIDE DEF q
<1>4. CallOK(q, managers, disk, attempts) /\ ~Works(q) /\ ~Works(calls[c])
  BY <1>1, <1>2, <1>3, CurrentTyped DEF CallOK, JoinOK, RefreshOK, Works
<1>5. begun' \in Nat
  BY <1>3 DEF PricesInv, TypeOK
<1> QED
  BY <1>1, <1>2, <1>3, <1>4, <1>5, CallStep DEF Ask

\* A call that goes on where it holds nothing, or ends, when it did not refresh.
LEMMA QuietStep ==
  ASSUME PricesInv, NEW c \in Calls, NEW q \in CallRecord, calls' = [calls EXCEPT ![c] = q],
         Quiet(q), q.manager \in {0, calls[c].manager}, ~Works(calls[c]),
         UNCHANGED <<clock, disk, current, managers, attempts, begun>>
  PROVE  StepOK
<1>1. q.manager \in 0 .. Len(managers) /\ begun' \in Nat
  BY CallFacts DEF PricesInv, TypeOK
<1>2. CallOK(q, managers, disk, attempts) /\ ~Works(q) /\ q.pc # "download"
  BY <1>1, QuietOK DEF Quiet
<1> QED
  BY <1>1, <1>2, CallStep

LEMMA RecheckStep ==
  ASSUME PricesInv, NEW c \in Calls, Recheck(c)
  PROVE  StepOK
BY IdleTyped, QuietStep DEF Recheck, Quiet, Works

LEMMA GiveUpStep ==
  ASSUME PricesInv, NEW c \in Calls, GiveUp(c)
  PROVE  StepOK
BY CallFacts, RefreshedTyped, QuietStep DEF GiveUp, Works

LEMMA JoinedStep ==
  ASSUME PricesInv, NEW c \in Calls, Joined(c)
  PROVE  StepOK
<1>1. calls[c].pc = "join" /\ Manager(c).failed \in BOOLEAN
  BY CallFacts DEF Joined, CallOK, ManagerRecord
<1> QED
  BY <1>1, CallFacts, RefreshedTyped, QuietStep DEF Joined, Works

LEMMA SkipStep ==
  ASSUME PricesInv, NEW c \in Calls, SkipRefresh(c)
  PROVE  StepOK
<1>1. calls[c].pc = "refresh" /\ Manager(c).failed \in BOOLEAN
  BY CallFacts DEF SkipRefresh, CallOK, ManagerRecord
<1>2. PICK failed \in BOOLEAN : calls' = [calls EXCEPT ![c] = Refreshed(calls[c], failed)]
  BY <1>1 DEF SkipRefresh
<1> DEFINE q == Refreshed(calls[c], failed)
<1>3. q \in CallRecord /\ Quiet(q) /\ q.manager \in {0, calls[c].manager}
  BY CallFacts, RefreshedTyped
<1>4. ~Works(calls[c]) /\ calls' = [calls EXCEPT ![c] = q]
  BY <1>1, <1>2 DEF Works
<1> HIDE DEF q
<1> QED
  BY <1>3, <1>4, QuietStep DEF SkipRefresh

LEMMA JoinStep ==
  ASSUME PricesInv, NEW c \in Calls, Join(c)
  PROVE  StepOK
<1> DEFINE q == [calls[c] EXCEPT !.pc = "join", !.observed = Manager(c).sequence]
<1>1. calls[c].pc = "refresh" /\ Manager(c).refreshing /\ calls' = [calls EXCEPT ![c] = q]
  BY DEF Join
<1>2. /\ calls[c] \in CallRecord /\ calls[c].manager \in 0 .. Len(managers) /\ calls[c].manager # 0
      /\ Manager(c) = managers[calls[c].manager] /\ Manager(c).sequence \in Nat
  BY <1>1, CallFacts DEF CallOK, ManagerRecord
<1>3. q \in CallRecord /\ q.pc = "join" /\ q.manager = calls[c].manager /\ q.observed = Manager(c).sequence
  BY <1>2 DEF CallRecord
<1> HIDE DEF q
<1>4. JoinOK(q, managers[q.manager]) /\ RefreshOK(q, disk, attempts)
  BY <1>1, <1>2, <1>3 DEF JoinOK, RefreshOK
<1>5. CallOK(q, managers, disk, attempts) /\ ~Works(q) /\ ~Works(calls[c])
  BY <1>1, <1>2, <1>3, <1>4 DEF CallOK, Works
<1> QED
  BY <1>1, <1>3, <1>5, CallStep DEF Join, PricesInv, TypeOK

\* What a lookup goes on with after an answer.
LEMMA FoundTyped ==
  ASSUME PricesInv, NEW c \in Calls, calls[c].manager # 0, calls[c].pc \in {"lookup", "query"}, NEW price, Found(c, price)
  PROVE  \E q \in CallRecord : /\ calls' = [calls EXCEPT ![c] = q]
                               /\ q.pc \in {"refresh", "recheck"} /\ q.manager = calls[c].manager
<1> DEFINE pc == After(calls[c], price # NoPrice, Manager(c).metadata)
           found == price # NoPrice
           q == [calls[c] EXCEPT !.pc = pc, !.found = found, !.observed = Manager(c).sequence]
<1>1. calls[c] \in CallRecord /\ Manager(c).sequence \in Nat
  BY CallFacts DEF ManagerRecord
<1>2. pc \in {"refresh", "recheck"} /\ found \in BOOLEAN
  BY DEF After
<1>3. calls' = [calls EXCEPT ![c] = q]
  BY DEF Found
<1> HIDE DEF pc, found
<1>4. q \in CallRecord /\ q.pc = pc /\ q.manager = calls[c].manager
  BY <1>1, <1>2 DEF CallRecord
<1> QED
  BY <1>2, <1>3, <1>4

\* A lookup that goes on holds nothing of a refresh.
LEMMA LookupOK ==
  ASSUME NEW q, NEW ms, NEW d, NEW tries, q.pc \in {"query", "refresh", "recheck"}, q.manager \in 0 .. Len(ms), q.manager # 0
  PROVE  CallOK(q, ms, d, tries) /\ ~Works(q)
BY DEF CallOK, JoinOK, RefreshOK, Works

LEMMA GotoTyped ==
  ASSUME PricesInv, NEW c \in Calls, NEW pc \in {"query", "recheck"}, Goto(c, pc)
  PROVE  \E q \in CallRecord : calls' = [calls EXCEPT ![c] = q] /\ q.pc = pc /\ q.manager = calls[c].manager
<1> DEFINE q == [calls[c] EXCEPT !.pc = pc]
<1>1. calls[c] \in CallRecord /\ calls \in [Calls -> CallRecord]
  BY DEF PricesInv, TypeOK
<1>2. calls' = [calls EXCEPT ![c] = q]
  BY DEF Goto
<1>3. q \in CallRecord /\ q.pc = pc /\ q.manager = calls[c].manager
  BY <1>1 DEF CallRecord
<1> QED
  BY <1>2, <1>3

LEMMA LookupMissStep ==
  ASSUME PricesInv, NEW c \in Calls, LookupMiss(c)
  PROVE  StepOK
<1>1. calls[c].pc = "lookup" /\ UNCHANGED <<clock, disk, current, managers, attempts, begun>>
  BY DEF LookupMiss
<1>2. calls[c].manager \in 0 .. Len(managers) /\ ~Works(calls[c]) /\ begun' \in Nat
  BY <1>1, CallFacts DEF Works, PricesInv, TypeOK
<1>3. CASE Goto(c, "recheck")
  <2>1. PICK q \in CallRecord : calls' = [calls EXCEPT ![c] = q] /\ q.pc = "recheck" /\ q.manager = calls[c].manager
    BY <1>3, GotoTyped
  <2> QED
    BY <1>1, <1>2, <2>1, QuietStep DEF Quiet
<1>4. CASE calls[c].manager # 0 /\ Found(c, NoPrice)
  <2>1. PICK q \in CallRecord : /\ calls' = [calls EXCEPT ![c] = q]
                                /\ q.pc \in {"refresh", "recheck"} /\ q.manager = calls[c].manager
    BY <1>1, <1>4, FoundTyped
  <2>2. CallOK(q, managers, disk, attempts) /\ ~Works(q) /\ q.pc # "download"
    BY <1>2, <1>4, <2>1, LookupOK
  <2> QED
    BY <1>1, <1>2, <2>1, <2>2, CallStep
<1>5. CASE calls[c].manager # 0 /\ Goto(c, "query")
  <2>1. PICK q \in CallRecord : calls' = [calls EXCEPT ![c] = q] /\ q.pc = "query" /\ q.manager = calls[c].manager
    BY <1>5, GotoTyped
  <2>2. CallOK(q, managers, disk, attempts) /\ ~Works(q) /\ q.pc # "download"
    BY <1>2, <1>5, <2>1, LookupOK
  <2> QED
    BY <1>1, <1>2, <2>1, <2>2, CallStep
<1> QED
  BY <1>3, <1>4, <1>5 DEF LookupMiss

\* A lookup that uses or fills the cache of its manager.
LEMMA CacheStep ==
  ASSUME PricesInv, NEW c \in Calls, calls[c].manager # 0, calls[c].pc \in {"lookup", "query"},
         NEW entries, SetManager(c, [Manager(c) EXCEPT !.entries = entries]), NEW price, Found(c, price),
         entries \in Entries, KeysDiffer(entries), ~Manager(c).closed => InForce(entries, disk.prices),
         UNCHANGED <<clock, disk, current, attempts, begun>>
  PROVE  StepOK
<1> DEFINE m == calls[c].manager
           manager == [Manager(c) EXCEPT !.entries = entries]
<1>1. PICK q \in CallRecord : /\ calls' = [calls EXCEPT ![c] = q]
                              /\ q.pc \in {"refresh", "recheck"} /\ q.manager = m
  BY FoundTyped
<1>2. m \in 1 .. Len(managers) /\ Manager(c) = managers[m] /\ Manager(c) \in ManagerRecord
      /\ ManagerOK(managers[m], disk, attempts) /\ m # 0
  BY CallFacts
<1>3. /\ manager \in ManagerRecord /\ manager.entries = entries
      /\ manager.closed = managers[m].closed /\ manager.metadata = managers[m].metadata
      /\ manager.sequence = managers[m].sequence /\ manager.refreshing = managers[m].refreshing
  BY <1>2 DEF ManagerRecord
<1>4. managers' = [managers EXCEPT ![m] = manager]
  BY DEF SetManager
<1>5. managers \in Seq(ManagerRecord)
  BY DEF PricesInv, TypeOK
<1> HIDE DEF m, manager
<1>6. ManagerOK(manager, disk, attempts)
  BY <1>2, <1>3 DEF ManagerOK
<1>7. Len(managers') = Len(managers) /\ \A n \in 1 .. Len(managers) : managers'[n].refreshing = managers[n].refreshing
  BY <1>2, <1>3, <1>4, <1>5
<1>8. CallOK(q, managers', disk, attempts) /\ ~Works(q) /\ ~Works(calls[c])
  <2>1. q.manager \in 0 .. Len(managers') /\ q.manager # 0
    BY <1>1, <1>2, <1>7
  <2> QED
    BY <1>1, <2>1, LookupOK DEF Works
<1>9. OneWorks(calls', managers')
  BY <1>1, <1>7, <1>8, WorkKept DEF PricesInv
<1>10. disk' \in [prices : ListsOrNone, metadata : Metadata] /\ attempts' \in Attempts /\ DiskOK(disk', attempts')
  BY DEF PricesInv, TypeOK
<1> QED
  BY <1>1, <1>2, <1>3, <1>4, <1>6, <1>8, <1>9, <1>10, ManagerStep DEF StepOK, m

LEMMA LookupHitStep ==
  ASSUME PricesInv, NEW c \in Calls, LookupHit(c)
  PROVE  StepOK
<1>1. PICK i \in Cached(Manager(c), Keys(c)) :
        /\ SetManager(c, [Manager(c) EXCEPT !.entries = <<@[i]>> \o RemoveAt(@, i)])
        /\ Found(c, Manager(c).entries[i].price)
  BY DEF LookupHit
<1>2. calls[c].manager # 0 /\ calls[c].pc = "lookup"
  BY DEF LookupHit
<1> DEFINE entries == Manager(c).entries
           used == <<entries[i]>> \o RemoveAt(entries, i)
<1>3. entries \in Entries /\ KeysDiffer(entries) /\ (~Manager(c).closed => InForce(entries, disk.prices))
  BY <1>2, CallFacts DEF ManagerOK, ManagerRecord
<1>4. i \in 1 .. Len(entries)
  BY <1>1, <1>3 DEF Cached, Entries
<1>5. SetManager(c, [Manager(c) EXCEPT !.entries = used])
  BY <1>1
<1> HIDE DEF entries
<1>6. used \in Entries /\ KeysDiffer(used) /\ (~Manager(c).closed => InForce(used, disk.prices))
  BY <1>3, <1>4, UsedSound
<1> HIDE DEF used
<1> QED
  BY <1>1, <1>2, <1>5, <1>6, CacheStep DEF LookupHit

LEMMA LookupQueryStep ==
  ASSUME PricesInv, NEW c \in Calls, NEW ok \in BOOLEAN, LookupQuery(c, ok)
  PROVE  StepOK
<1> DEFINE price == MatchReferencePriceKeys(disk.prices, Keys(c))
           entry == [keys |-> Keys(c), price |-> price]
           entries == Manager(c).entries
           next == Remember(entries, entry)
<1>1. calls[c].pc = "query" /\ UNCHANGED <<clock, disk, current, attempts, begun>>
  BY DEF LookupQuery
<1>2. calls[c].manager # 0
  BY <1>1, CallFacts DEF CallOK
<1>3. CASE ok
  <2>1. SetManager(c, [Manager(c) EXCEPT !.entries = next]) /\ Found(c, price)
    BY <1>3 DEF LookupQuery
  <2>2. entries \in Entries /\ KeysDiffer(entries) /\ (~Manager(c).closed => InForce(entries, disk.prices))
    BY <1>2, CallFacts DEF ManagerOK, ManagerRecord
  <2>3. Keys(c) \in KeySet /\ disk.prices \in ListsOrNone
    BY CallFacts, KeysTyped DEF PricesInv, TypeOK
  <2>4. entry \in [keys : KeySet, price : Price] /\ entry.price = MatchReferencePriceKeys(disk.prices, entry.keys)
    BY <2>3 DEF Price
  <2> HIDE DEF entries, entry, price
  <2>5. next \in Entries /\ KeysDiffer(next) /\ (~Manager(c).closed => InForce(next, disk.prices))
    BY <2>2, <2>4, RememberSound
  <2> HIDE DEF next
  <2> QED
    BY <1>1, <1>2, <2>1, <2>5, CacheStep
<1>4. CASE ~ok
  <2>1. PICK q \in CallRecord : calls' = [calls EXCEPT ![c] = q] /\ q.pc = "recheck" /\ q.manager = calls[c].manager
    BY <1>4, GotoTyped DEF LookupQuery
  <2>2. UNCHANGED managers /\ ~Works(calls[c])
    BY <1>1, <1>4 DEF LookupQuery, Works
  <2> QED
    BY <1>1, <2>1, <2>2, QuietStep DEF Quiet
<1> QED
  BY <1>3, <1>4

\* The refresh that begins is the only one, and the wait after failures is over.
LEMMA StartStep ==
  ASSUME PricesInv, NEW c \in Calls, StartRefresh(c)
  PROVE  StepOK
<1> DEFINE m == calls[c].manager
           q == [calls[c] EXCEPT !.pc = "download", !.metadata = Manager(c).metadata]
           manager == [Manager(c) EXCEPT !.refreshing = TRUE]
<1>1. /\ calls[c].pc = "refresh" /\ ~Manager(c).refreshing /\ Due(calls[c], Manager(c))
      /\ calls' = [calls EXCEPT ![c] = q] /\ managers' = [managers EXCEPT ![m] = manager]
      /\ UNCHANGED <<clock, disk, current, attempts, begun>>
  BY DEF StartRefresh, SetManager
<1>2. /\ calls[c] \in CallRecord /\ m # 0 /\ m \in 1 .. Len(managers)
      /\ Manager(c) = managers[m] /\ managers[m] \in ManagerRecord /\ ManagerOK(managers[m], disk, attempts)
  BY <1>1, CallFacts DEF CallOK
<1>3. /\ manager \in ManagerRecord /\ manager.closed = managers[m].closed /\ manager.entries = managers[m].entries
      /\ manager.metadata = managers[m].metadata /\ manager.sequence = managers[m].sequence /\ manager.refreshing
  BY <1>2 DEF ManagerRecord
<1>4. q \in CallRecord /\ q.pc = "download" /\ q.manager = m /\ q.metadata = managers[m].metadata
  BY <1>2 DEF CallRecord, ManagerRecord
<1>5. managers \in Seq(ManagerRecord) /\ calls \in [Calls -> CallRecord] /\ Len(managers) \in Nat
  BY DEF PricesInv, TypeOK
<1> HIDE DEF q, manager, m
<1>6. ManagerOK(manager, disk, attempts)
  BY <1>2, <1>3 DEF ManagerOK
<1>7. /\ Len(managers') = Len(managers)
      /\ \A n \in 1 .. Len(managers) : managers'[n] = IF n = m THEN manager ELSE managers[n]
      /\ \A e \in Calls : calls'[e] = IF e = c THEN q ELSE calls[e]
  BY <1>1, <1>2, <1>5
<1>8. CallOK(q, managers', disk, attempts)
  <2>1. q.manager \in 0 .. Len(managers') /\ q.manager # 0
    BY <1>2, <1>4, <1>5, <1>7
  <2>2. JoinOK(q, managers'[q.manager])
    BY <1>4 DEF JoinOK
  <2>3. ~managers'[q.manager].closed => RefreshOK(q, disk, attempts)
    BY <1>1, <1>2, <1>3, <1>4, <1>7 DEF RefreshOK, ManagerOK
  <2> QED
    BY <2>1, <2>2, <2>3 DEF CallOK
<1>9. OneWorks(calls', managers')
  <2>1. \A e \in Calls : calls[e].manager = m => ~Works(calls[e])
    BY <1>1, <1>2 DEF PricesInv, OneWorks
  <2>2. \A e \in Calls : Works(calls'[e]) /\ calls'[e].manager = m <=> e = c
    BY <1>4, <1>7, <2>1 DEF Works
  <2>3. \A e \in Calls, n \in 1 .. Len(managers) : n # m =>
          (Works(calls'[e]) /\ calls'[e].manager = n <=> Works(calls[e]) /\ calls[e].manager = n)
    <3>1. ~Works(calls[c])
      BY <1>1 DEF Works
    <3> QED
      BY <1>4, <1>7, <3>1
  <2> SUFFICES ASSUME NEW n \in 1 .. Len(managers)
               PROVE  /\ managers'[n].refreshing <=> \E e \in Calls : Works(calls'[e]) /\ calls'[e].manager = n
                      /\ \A e, f \in Calls :
                           Works(calls'[e]) /\ calls'[e].manager = n /\ Works(calls'[f]) /\ calls'[f].manager = n => e = f
    BY <1>7 DEF OneWorks
  <2>4. CASE n = m
    BY <2>2, <2>4, <1>3, <1>7
  <2>5. CASE n # m
    BY <2>3, <2>5, <1>7 DEF PricesInv, OneWorks
  <2> QED
    BY <2>4, <2>5
<1>10. disk' \in [prices : ListsOrNone, metadata : Metadata] /\ attempts' \in Attempts /\ DiskOK(disk', attempts')
  BY <1>1 DEF PricesInv, TypeOK
<1>11. PricesInv'
  BY <1>1, <1>2, <1>3, <1>4, <1>6, <1>8, <1>9, <1>10, ManagerStep DEF m
<1>12. ASSUME calls[c].kind # "force", m = current, attempts.count > 0
       PROVE  clock >= attempts.at + Backoff(attempts.count)
  <2>1. ~managers[m].closed /\ Remembers(managers[m].metadata, attempts)
    BY <1>1, <1>2, <1>12 DEF PricesInv, OpenOK, ManagerOK
  <2>2. attempts.count \in Nat \ {0} /\ attempts.at \in Nat /\ clock \in Nat /\ managers[m].metadata.retryAfter \in Nat
    <3>1. attempts \in Attempts /\ clock \in Nat
      BY DEF PricesInv, TypeOK
    <3>2. attempts.count \in Nat /\ attempts.at \in Nat
      BY <3>1 DEF Attempts
    <3>3. managers[m].metadata \in Metadata
      BY <1>2 DEF ManagerRecord
    <3>4. managers[m].metadata.retryAfter \in Nat
      BY <3>3 DEF Metadata
    <3> QED
      BY <1>12, <3>1, <3>2, <3>4
  <2>3. Backoff(attempts.count) \in Nat
    BY <2>2, BackoffGrows
  <2>4. clock >= managers[m].metadata.retryAfter
    BY <1>1, <1>2, <1>12 DEF Due
  <2> QED
    BY <1>12, <2>1, <2>2, <2>3, <2>4 DEF Remembers
<1>13. BackoffStep
  BY <1>7, <1>12 DEF BackoffStep, m
<1> QED
  BY <1>11, <1>13 DEF StepOK

LEMMA DownloadStep ==
  ASSUME PricesInv, NEW c \in Calls, NEW list \in Lists \cup {{}}, Download(c, list)
  PROVE  StepOK
<1> DEFINE p == calls[c]
           version == IF list = disk.metadata.list THEN disk.metadata.version ELSE disk.metadata.version + 1
           changed == list # disk.metadata.list
           next == [disk.metadata EXCEPT !.list = list, !.fetchedAt = clock, !.failures = 0, !.retryAfter = 0, !.version = version]
           failing == [p EXCEPT !.pc = "failing", !.failed = TRUE]
           commit == [p EXCEPT !.pc = "commit", !.changed = changed, !.next = next]
<1>1. p.pc = "download" /\ UNCHANGED <<clock, disk, current, managers, attempts, begun>>
  BY DEF Download
<1>2. calls' = [calls EXCEPT ![c] = failing] \/ calls' = [calls EXCEPT ![c] = commit]
  BY DEF Download
<1>3. /\ p \in CallRecord /\ p.manager \in 0 .. Len(managers) /\ p.manager # 0
      /\ ~managers[p.manager].closed => Agrees(p.metadata, disk.metadata) /\ Remembers(p.metadata, attempts)
  BY <1>1, CallFacts DEF CallOK, Works, RefreshOK
<1>4. disk.metadata \in Metadata /\ clock \in Nat /\ version \in Nat /\ changed \in BOOLEAN
  BY DEF PricesInv, TypeOK, Metadata
<1> HIDE DEF p, version
<1>5. next \in Metadata /\ next.list = list
  BY <1>4 DEF Metadata, ListsOrNone
<1> HIDE DEF next
<1>6. failing \in CallRecord /\ failing.pc = "failing" /\ failing.manager = p.manager /\ failing.metadata = p.metadata
  BY <1>3 DEF CallRecord
<1>7. /\ commit \in CallRecord /\ commit.pc = "commit" /\ commit.manager = p.manager /\ commit.metadata = p.metadata
      /\ commit.next = next /\ commit.changed = changed
  BY <1>3, <1>4, <1>5 DEF CallRecord
<1> HIDE DEF failing, commit
<1>8. CallOK(failing, managers, disk, attempts)
  BY <1>3, <1>6 DEF CallOK, JoinOK, RefreshOK
<1>9. CallOK(commit, managers, disk, attempts)
  BY <1>3, <1>5, <1>7 DEF CallOK, JoinOK, RefreshOK
<1>10. Works(p) /\ Works(failing) /\ Works(commit) /\ begun' \in Nat
  BY <1>1, <1>6, <1>7 DEF Works, PricesInv, TypeOK
<1> USE DEF p
<1>11. CASE calls' = [calls EXCEPT ![c] = failing]
  BY <1>1, <1>6, <1>8, <1>10, <1>11, CallStep
<1>12. CASE calls' = [calls EXCEPT ![c] = commit]
  BY <1>1, <1>7, <1>9, <1>10, <1>12, CallStep
<1> QED
  BY <1>2, <1>11, <1>12

LEMMA NoAttemptsRemembered ==
  ASSUME NEW metadata \in Metadata
  PROVE  NoAttempts \in Attempts /\ Remembers(metadata, NoAttempts)
BY DEF NoAttempts, Attempts, Remembers, Metadata

\* New prices, or the same ones again, are written and published in one step.
LEMMA CommitStep ==
  ASSUME PricesInv, NEW c \in Calls, NEW saved \in BOOLEAN, Commit(c, saved)
  PROVE  StepOK
<1> DEFINE p == calls[c]
           m == p.manager
           next == p.next
<1>1. p.pc = "commit" /\ UNCHANGED <<clock, current, begun>>
  BY DEF Commit
<1>2. /\ p \in CallRecord /\ m # 0 /\ m \in 1 .. Len(managers)
      /\ Manager(c) = managers[m] /\ managers[m] \in ManagerRecord /\ ManagerOK(managers[m], disk, attempts)
      /\ ~managers[m].closed => RefreshOK(p, disk, attempts)
  BY <1>1, CallFacts DEF CallOK, Works
<1>3. next \in Metadata
  BY <1>2 DEF CallRecord
<1>4. managers \in Seq(ManagerRecord) /\ calls \in [Calls -> CallRecord] /\ Len(managers) \in Nat /\ begun' \in Nat
  BY <1>1 DEF PricesInv, TypeOK
<1>5. CASE Open(Manager(c)) /\ saved
  <2> DEFINE q == [p EXCEPT !.pc = "finish"]
             entries == IF p.changed THEN <<>> ELSE managers[m].entries
             manager == [managers[m] EXCEPT !.metadata = next, !.entries = entries]
             d == [prices |-> next.list, metadata |-> next]
  <2>1. disk' = d /\ attempts' = NoAttempts /\ managers' = [managers EXCEPT ![m] = manager]
    BY <1>2, <1>5 DEF Commit, SetManager, Published
  <2>2. calls' = [calls EXCEPT ![c] = q]
    BY <1>4, <1>5 DEF Commit, Goto
  <2>3. q \in CallRecord /\ q.pc = "finish" /\ q.manager = m /\ q.next = next
    BY <1>2 DEF CallRecord
  <2>4. ~managers[m].closed
    BY <1>2, <1>5 DEF Open
  <2>5. d \in [prices : ListsOrNone, metadata : Metadata] /\ d.prices = next.list /\ d.metadata = next
    BY <1>3 DEF Metadata
  <2>6. entries \in Entries /\ KeysDiffer(entries) /\ InForce(entries, next.list)
    <3>1. CASE p.changed
      BY <3>1 DEF Entries, KeysDiffer, InForce
    <3>2. CASE ~p.changed
      <4>1. next.list = disk.prices
        BY <1>1, <1>2, <2>4, <3>2 DEF RefreshOK, PricesInv, DiskOK
      <4> QED
        BY <1>2, <2>4, <3>2, <4>1 DEF ManagerOK, ManagerRecord
    <3> QED
      BY <3>1, <3>2
  <2> HIDE DEF entries
  <2>7. /\ manager \in ManagerRecord /\ manager.closed = managers[m].closed /\ manager.entries = entries
        /\ manager.metadata = next /\ manager.sequence = managers[m].sequence
        /\ manager.refreshing = managers[m].refreshing
    BY <1>2, <1>3, <2>6 DEF ManagerRecord
  <2> HIDE DEF q, manager, d
  <2>8. attempts' \in Attempts /\ Remembers(next, attempts')
    BY <1>3, <2>1, NoAttemptsRemembered
  <2>9. DiskOK(disk', attempts') /\ Agrees(next, disk'.metadata)
    BY <2>1, <2>5, <2>8 DEF DiskOK, Agrees
  <2>10. ManagerOK(manager, disk', attempts')
    BY <2>1, <2>5, <2>6, <2>7, <2>8, <2>9 DEF ManagerOK
  <2>11. Len(managers') = Len(managers) /\ \A n \in 1 .. Len(managers) : managers'[n].refreshing = managers[n].refreshing
    BY <1>2, <1>4, <2>1, <2>7
  <2>12. RefreshOK(q, disk', attempts') /\ JoinOK(q, managers'[q.manager]) /\ q.manager \in 0 .. Len(managers') /\ q.manager # 0
    BY <1>2, <1>4, <2>3, <2>8, <2>9, <2>11 DEF RefreshOK, JoinOK
  <2>13. CallOK(q, managers', disk', attempts')
    BY <2>12 DEF CallOK
  <2>14. Works(p) /\ Works(q)
    BY <1>1, <2>3 DEF Works
  <2>15. OneWorks(calls', managers')
    BY <2>2, <2>3, <2>11, <2>14, WorkKept DEF PricesInv
  <2> HIDE DEF next
  <2> QED
    BY <1>1, <1>2, <2>1, <2>2, <2>3, <2>4, <2>5, <2>7, <2>8, <2>9, <2>10, <2>13, <2>14, <2>15, ManagerStep DEF StepOK
<1>6. CASE ~(Open(Manager(c)) /\ saved)
  <2> DEFINE q == [p EXCEPT !.pc = "failing", !.failed = TRUE]
  <2>1. calls' = [calls EXCEPT ![c] = q] /\ UNCHANGED <<disk, managers, attempts>>
    BY <1>6 DEF Commit
  <2>2. q \in CallRecord /\ q.pc = "failing" /\ q.manager = m /\ q.metadata = p.metadata
    BY <1>2 DEF CallRecord
  <2> HIDE DEF q
  <2>3. CallOK(q, managers, disk, attempts) /\ Works(p) /\ Works(q)
    BY <1>1, <1>2, <2>2 DEF CallOK, JoinOK, RefreshOK, Works
  <2> QED
    BY <1>1, <1>4, <2>1, <2>2, <2>3, CallStep
<1> QED
  BY <1>5, <1>6

LEMMA FailStep ==
  ASSUME PricesInv, NEW c \in Calls, NEW saved \in BOOLEAN, Fail(c, saved)
  PROVE  StepOK
<1> DEFINE p == calls[c]
           m == p.manager
           next == Failed(p.metadata)
           q == [p EXCEPT !.pc = "finish", !.next = next]
<1>1. /\ p.pc = "failing" /\ UNCHANGED <<clock, current, managers, begun>>
      /\ calls' = [calls EXCEPT ![c] = q]
  BY DEF Fail
<1>2. /\ p \in CallRecord /\ m # 0 /\ m \in 1 .. Len(managers)
      /\ Manager(c) = managers[m] /\ managers[m] \in ManagerRecord /\ ManagerOK(managers[m], disk, attempts)
      /\ ~managers[m].closed => RefreshOK(p, disk, attempts)
  BY <1>1, CallFacts DEF CallOK, Works
<1>3. p.metadata \in Metadata /\ clock \in Nat /\ attempts \in Attempts /\ begun' \in Nat
  BY <1>1, <1>2 DEF CallRecord, PricesInv, TypeOK
<1>4. next \in Metadata
  BY <1>3, FailedTyped
<1> HIDE DEF next
<1>5. q \in CallRecord /\ q.pc = "finish" /\ q.manager = m /\ q.next = next
  BY <1>2, <1>4 DEF CallRecord
<1> HIDE DEF q
<1>6. Works(p) /\ Works(q)
  BY <1>1, <1>5 DEF Works
<1>7. CASE Open(Manager(c))
  <2> DEFINE lost == attempts.lost \/ ~saved
             d == IF saved THEN [disk EXCEPT !.metadata = next] ELSE disk
  <2>1. disk' = d
    BY <1>7 DEF Fail, next
  <2>2. attempts' = [count |-> attempts.count + 1, at |-> clock, lost |-> lost]
    BY <1>7 DEF Fail
  <2>3. ~managers[m].closed
    BY <1>2, <1>7 DEF Open
  <2>4. Agrees(p.metadata, disk.metadata) /\ Remembers(p.metadata, attempts)
    BY <1>1, <1>2, <2>3 DEF RefreshOK
  <2>5. attempts.count \in Nat /\ lost \in BOOLEAN /\ (~saved => lost)
    BY <1>3 DEF Attempts
  <2> HIDE DEF lost
  <2>6. Agrees(next, p.metadata) /\ Remembers(next, attempts')
    BY <1>3, <2>2, <2>4, <2>5, FailedRemembers DEF next
  <2>7. attempts' \in Attempts /\ (~saved => attempts'.lost)
    <3>1. attempts' \in Attempts
      BY <1>3, <2>2, <2>5 DEF Attempts
    <3>2. attempts'.lost = lost
      BY <2>2
    <3> QED
      BY <2>5, <3>1, <3>2, Zenon
  <2>8. disk \in [prices : ListsOrNone, metadata : Metadata] /\ disk.prices = disk.metadata.list
    BY DEF PricesInv, TypeOK, DiskOK
  <2>9. d \in [prices : ListsOrNone, metadata : Metadata] /\ d.prices = disk.prices
        /\ d.metadata = IF saved THEN next ELSE disk.metadata
    BY <1>4, <2>8
  <2> HIDE DEF d
  <2>10. DiskOK(disk', attempts')
    BY <2>1, <2>4, <2>6, <2>7, <2>8, <2>9 DEF DiskOK, Agrees
  <2>11. Agrees(next, disk'.metadata) /\ (\A other : Agrees(other, disk.metadata) => Agrees(other, disk'.metadata))
    BY <2>1, <2>4, <2>6, <2>9 DEF Agrees
  <2>12. managers[m].refreshing
    BY <1>2, <1>6 DEF PricesInv, OneWorks
  <2>13. ManagerOK(managers[m], disk', attempts')
    BY <1>2, <2>1, <2>3, <2>9, <2>11, <2>12 DEF ManagerOK
  <2>14. RefreshOK(q, disk', attempts') /\ JoinOK(q, managers[m])
    BY <1>5, <2>6, <2>11 DEF RefreshOK, JoinOK
  <2>15. CallOK(q, managers', disk', attempts')
    <3>1. q.manager \in 0 .. Len(managers') /\ q.manager # 0
      BY <1>1, <1>2, <1>5
    <3> QED
      BY <1>1, <1>5, <2>14, <3>1 DEF CallOK
  <2>16. managers' = [managers EXCEPT ![m] = managers[m]]
    BY <1>1, <1>2 DEF PricesInv, TypeOK
  <2>17. OneWorks(calls', managers')
    BY <1>1, <1>5, <1>6, WorkKept DEF PricesInv
  <2>18. disk' \in [prices : ListsOrNone, metadata : Metadata]
    BY <2>1, <2>9
  <2> QED
    BY <1>1, <1>2, <1>5, <1>6, <2>3, <2>7, <2>10, <2>13, <2>15, <2>16, <2>17, <2>18, ManagerStep DEF StepOK
<1>8. CASE ~Open(Manager(c))
  <2>1. UNCHANGED <<disk, attempts>>
    BY <1>8 DEF Fail
  <2>2. managers[m].closed
    BY <1>2, <1>8 DEF Open
  <2>3. q.manager \in 0 .. Len(managers) /\ JoinOK(q, managers[m])
    BY <1>2, <1>5, CallFacts DEF JoinOK
  <2>4. CallOK(q, managers, disk, attempts)
    BY <1>2, <1>5, <2>2, <2>3 DEF CallOK
  <2> QED
    BY <1>1, <1>3, <1>5, <1>6, <2>1, <2>4, CallStep
<1> QED
  BY <1>7, <1>8

LEMMA FinishStep ==
  ASSUME PricesInv, NEW c \in Calls, Finish(c)
  PROVE  StepOK
<1> DEFINE p == calls[c]
           m == p.manager
           sequence == managers[m].sequence + 1
           manager == [managers[m] EXCEPT !.metadata = p.next, !.failed = p.failed, !.sequence = sequence, !.refreshing = FALSE]
           q == Refreshed(p, p.failed)
<1>1. p.pc = "finish" /\ UNCHANGED <<clock, disk, current, attempts, begun>> /\ calls' = [calls EXCEPT ![c] = q]
  BY DEF Finish
<1>2. /\ p \in CallRecord /\ m # 0 /\ m \in 1 .. Len(managers)
      /\ Manager(c) = managers[m] /\ managers[m] \in ManagerRecord /\ ManagerOK(managers[m], disk, attempts)
      /\ ~managers[m].closed => RefreshOK(p, disk, attempts)
  BY <1>1, CallFacts DEF CallOK, Works
<1>3. managers' = [managers EXCEPT ![m] = manager]
  BY <1>2 DEF Finish, SetManager
<1>4. p.next \in Metadata /\ p.failed \in BOOLEAN /\ sequence \in Nat
  BY <1>2 DEF CallRecord, ManagerRecord
<1>5. q \in CallRecord /\ Quiet(q) /\ q.manager \in {0, m}
  BY <1>2, <1>4, RefreshedTyped
<1> HIDE DEF q, sequence
<1>6. /\ manager \in ManagerRecord /\ manager.closed = managers[m].closed /\ manager.entries = managers[m].entries
      /\ manager.metadata = p.next /\ manager.sequence = sequence /\ ~manager.refreshing
  BY <1>2, <1>4 DEF ManagerRecord
<1> HIDE DEF manager
<1>7. ManagerOK(manager, disk, attempts)
  BY <1>1, <1>2, <1>6 DEF ManagerOK, RefreshOK
<1>8. managers \in Seq(ManagerRecord) /\ calls \in [Calls -> CallRecord] /\ Len(managers) \in Nat
  BY DEF PricesInv, TypeOK
<1>9. /\ Len(managers') = Len(managers)
      /\ \A n \in 1 .. Len(managers) : managers'[n] = IF n = m THEN manager ELSE managers[n]
      /\ \A e \in Calls : calls'[e] = IF e = c THEN q ELSE calls[e]
  BY <1>1, <1>2, <1>3, <1>8
<1>10. CallOK(q, managers', disk, attempts) /\ ~Works(q)
  <2>1. q.manager \in 0 .. Len(managers')
    BY <1>2, <1>5, <1>8, <1>9
  <2> QED
    BY <1>5, <2>1, QuietOK
<1>11. OneWorks(calls', managers')
  <2>1. Works(p)
    BY <1>1 DEF Works
  <2>2. \A e \in Calls : ~(Works(calls'[e]) /\ calls'[e].manager = m)
    BY <1>2, <1>9, <1>10, <2>1 DEF PricesInv, OneWorks
  <2>3. \A e \in Calls, n \in 1 .. Len(managers) : n # m =>
          (Works(calls'[e]) /\ calls'[e].manager = n <=> Works(calls[e]) /\ calls[e].manager = n)
    BY <1>9, <1>10
  <2> SUFFICES ASSUME NEW n \in 1 .. Len(managers)
               PROVE  /\ managers'[n].refreshing <=> \E e \in Calls : Works(calls'[e]) /\ calls'[e].manager = n
                      /\ \A e, f \in Calls :
                           Works(calls'[e]) /\ calls'[e].manager = n /\ Works(calls'[f]) /\ calls'[f].manager = n => e = f
    BY <1>9 DEF OneWorks
  <2>4. CASE n = m
    BY <2>2, <2>4, <1>6, <1>9
  <2>5. CASE n # m
    BY <2>3, <2>5, <1>9 DEF PricesInv, OneWorks
  <2> QED
    BY <2>4, <2>5
<1>12. disk' \in [prices : ListsOrNone, metadata : Metadata] /\ attempts' \in Attempts /\ DiskOK(disk', attempts')
  BY <1>1 DEF PricesInv, TypeOK
<1>13. manager.sequence = managers[m].sequence + 1 /\ q.pc # "download"
  BY <1>5, <1>6 DEF sequence, Quiet
<1> QED
  BY <1>1, <1>2, <1>3, <1>5, <1>6, <1>7, <1>10, <1>11, <1>12, <1>13, ManagerStep DEF StepOK

----------------------------------------------------------------------------
(* Steps of the store *)

LEMMA OpenStep ==
  ASSUME PricesInv, OpenReferencePrices
  PROVE  StepOK
<1> DEFINE manager == NewManager(disk.metadata)
           n == Len(managers)
<1>1. /\ managers' = Append(managers, manager) /\ current' = Len(managers')
      /\ \A m \in DOMAIN managers : managers[m].closed
      /\ attempts' = IF attempts.lost THEN NoAttempts ELSE attempts
      /\ UNCHANGED <<clock, disk, calls, begun>>
  BY DEF OpenReferencePrices
<1>2. managers \in Seq(ManagerRecord) /\ n \in Nat /\ DOMAIN managers = 1 .. n
  BY DEF PricesInv, TypeOK
<1>3. disk.metadata \in Metadata /\ attempts \in Attempts
  BY DEF PricesInv, TypeOK
<1>4. /\ manager \in ManagerRecord /\ ~manager.closed /\ ~manager.refreshing
      /\ manager.metadata = disk.metadata /\ manager.entries = <<>>
  BY <1>3 DEF NewManager, ManagerRecord, Entries
<1> HIDE DEF manager
<1>5. /\ managers' \in Seq(ManagerRecord) /\ Len(managers') = n + 1 /\ managers'[n + 1] = manager
      /\ \A m \in 1 .. n : managers'[m] = managers[m]
  BY <1>1, <1>2, <1>4, AppendProperties
<1>6. attempts' \in Attempts /\ DiskOK(disk, attempts') /\ Remembers(disk.metadata, attempts')
  <2>1. CASE attempts.lost
    BY <1>1, <1>3, <2>1, NoAttemptsRemembered DEF PricesInv, DiskOK
  <2>2. CASE ~attempts.lost
    BY <1>1, <1>3, <2>2 DEF PricesInv, DiskOK
  <2> QED
    BY <2>1, <2>2
<1> HIDE DEF n
<1>7. TypeOK'
  BY <1>1, <1>5, <1>6 DEF PricesInv, TypeOK
<1>8. OpenOK(managers, current)'
  BY <1>1, <1>2, <1>4, <1>5 DEF OpenOK
<1>9. \A m \in 1 .. n + 1 : m = n + 1 \/ m \in 1 .. n
  BY <1>2
<1>10. ASSUME NEW m \in 1 .. n + 1 PROVE ManagerOK(managers'[m], disk, attempts')
  <2>1. CASE m = n + 1
    <3>1. KeysDiffer(<<>>) /\ InForce(<<>>, disk.prices) /\ Agrees(disk.metadata, disk.metadata)
      BY DEF KeysDiffer, InForce, Agrees
    <3> QED
      BY <2>1, <3>1, <1>4, <1>5, <1>6 DEF ManagerOK
  <2>2. CASE m \in 1 .. n
    BY <2>2, <1>1, <1>2, <1>5 DEF PricesInv, ManagerOK, n
  <2> QED
    BY <2>1, <2>2, <1>9
<1>11. ASSUME NEW c \in Calls PROVE CallOK(calls[c], managers', disk, attempts')
  <2>1. calls[c].manager \in 0 .. n /\ CallOK(calls[c], managers, disk, attempts)
    BY CallFacts DEF n
  <2>2. calls[c].manager # 0 => calls[c].manager \in 1 .. n
    BY <1>2, <2>1
  <2>3. calls[c].manager \in 0 .. Len(managers')
    BY <1>2, <1>5, <2>1
  <2> QED
    BY <1>1, <1>2, <1>5, <2>1, <2>2, <2>3 DEF CallOK
<1>12. OneWorks(calls, managers')
  <2>1. \A c \in Calls : calls[c].manager # n + 1
    BY <1>2, CallFacts DEF n
  <2> QED
    BY <1>4, <1>5, <1>9, <2>1 DEF PricesInv, OneWorks, n
<1>13. BackoffStep
  BY <1>1 DEF BackoffStep
<1> QED
  BY <1>1, <1>5, <1>6, <1>7, <1>8, <1>10, <1>11, <1>12, <1>13 DEF StepOK, PricesInv

LEMMA CloseStoreStep ==
  ASSUME PricesInv, CloseStore
  PROVE  StepOK
<1>1. current' = 0 /\ UNCHANGED <<clock, disk, managers, calls, attempts, begun>>
  BY DEF CloseStore
<1>2. TypeOK'
  BY <1>1 DEF PricesInv, TypeOK
<1>3. OpenOK(managers, current)'
  BY <1>1 DEF PricesInv, TypeOK, OpenOK
<1>4. BackoffStep
  BY <1>1 DEF BackoffStep
<1> QED
  BY <1>1, <1>2, <1>3, <1>4 DEF StepOK, PricesInv

LEMMA CloseManagerStep ==
  ASSUME PricesInv, NEW m \in DOMAIN managers, CloseManager(m)
  PROVE  StepOK
<1> DEFINE manager == [managers[m] EXCEPT !.closed = TRUE]
<1>1. current # m /\ managers' = [managers EXCEPT ![m] = manager] /\ UNCHANGED <<clock, disk, current, calls, attempts, begun>>
  BY DEF CloseManager
<1>2. managers \in Seq(ManagerRecord) /\ Len(managers) \in Nat /\ m \in 1 .. Len(managers) /\ managers[m] \in ManagerRecord
  <2>1. managers \in Seq(ManagerRecord)
    BY DEF PricesInv, TypeOK
  <2> QED
    BY <2>1, ElementOfSeq
<1>3. /\ manager \in ManagerRecord /\ manager.closed /\ manager.entries = managers[m].entries
      /\ manager.sequence = managers[m].sequence /\ manager.refreshing = managers[m].refreshing
  BY <1>2 DEF ManagerRecord
<1> HIDE DEF manager
<1>4. /\ managers' \in Seq(ManagerRecord) /\ Len(managers') = Len(managers)
      /\ \A n \in 1 .. Len(managers) : managers'[n] = IF n = m THEN manager ELSE managers[n]
  BY <1>1, <1>2, <1>3
<1>5. TypeOK'
  BY <1>1, <1>4 DEF PricesInv, TypeOK
<1>6. OpenOK(managers, current)'
  BY <1>1, <1>2, <1>3, <1>4 DEF PricesInv, OpenOK
<1>7. (\A n \in 1 .. Len(managers) : ManagerOK(managers[n], disk, attempts))'
  BY <1>1, <1>3, <1>4 DEF PricesInv, ManagerOK
<1>8. ASSUME NEW c \in Calls PROVE CallOK(calls[c], managers', disk, attempts)
  <2>1. CallOK(calls[c], managers, disk, attempts) /\ (calls[c].manager # 0 => calls[c].manager \in 1 .. Len(managers))
    BY CallFacts
  <2> QED
    BY <1>3, <1>4, <2>1 DEF CallOK, JoinOK
<1>9. OneWorks(calls, managers')
  BY <1>3, <1>4 DEF PricesInv, OneWorks
<1>10. BackoffStep
  BY <1>1 DEF BackoffStep
<1>11. DiskOK(disk, attempts)'
  BY <1>1 DEF PricesInv
<1> QED
  BY <1>1, <1>5, <1>6, <1>7, <1>8, <1>9, <1>10, <1>11 DEF StepOK, PricesInv

\* Nothing runs and no manager is there.
LEMMA NothingRuns ==
  ASSUME NEW d, NEW tries
  PROVE  /\ [c \in Calls |-> Idle] \in [Calls -> CallRecord] /\ <<>> \in Seq(ManagerRecord)
         /\ OpenOK(<<>>, 0) /\ OneWorks([c \in Calls |-> Idle], <<>>)
         /\ \A m \in 1 .. Len(<<>>) : FALSE
         /\ \A c \in Calls : CallOK([e \in Calls |-> Idle][c], <<>>, d, tries)
<1>1. CallOK(Idle, <<>>, d, tries)
  BY IdleTyped, QuietOK DEF Quiet
<1> QED
  BY <1>1, IdleTyped DEF OpenOK, OneWorks

LEMMA CrashStep ==
  ASSUME PricesInv, Crash
  PROVE  StepOK
<1>1. /\ current' = 0 /\ managers' = <<>> /\ calls' = [c \in Calls |-> Idle]
      /\ UNCHANGED <<clock, disk, attempts, begun>>
  BY DEF Crash
<1>2. TypeOK'
  BY <1>1, NothingRuns DEF PricesInv, TypeOK
<1>3. BackoffStep
  BY <1>1, IdleTyped DEF BackoffStep
<1>4. DiskOK(disk, attempts)'
  BY <1>1 DEF PricesInv
<1>5. /\ OpenOK(managers, current)' /\ OneWorks(calls, managers)'
      /\ (\A m \in 1 .. Len(managers) : ManagerOK(managers[m], disk, attempts))'
      /\ (\A c \in Calls : CallOK(calls[c], managers, disk, attempts))'
  BY <1>1, NothingRuns
<1> QED
  BY <1>2, <1>3, <1>4, <1>5 DEF StepOK, PricesInv

LEMMA TickStep ==
  ASSUME PricesInv, Tick
  PROVE  StepOK
<1>1. clock' = clock + 1 /\ UNCHANGED <<disk, current, managers, calls, attempts, begun>>
  BY DEF Tick
<1>2. TypeOK'
  BY <1>1 DEF PricesInv, TypeOK
<1>3. BackoffStep
  BY <1>1 DEF BackoffStep
<1> QED
  BY <1>1, <1>2, <1>3 DEF StepOK, PricesInv

LEMMA StutterStep ==
  ASSUME PricesInv, UNCHANGED vars
  PROVE  StepOK
<1>1. UNCHANGED <<clock, disk, current, managers, calls, begun, attempts>>
  BY DEF vars
<1>2. BackoffStep
  BY <1>1 DEF BackoffStep
<1>3. TypeOK'
  BY <1>1 DEF PricesInv, TypeOK
<1> QED
  BY <1>1, <1>2, <1>3 DEF StepOK, PricesInv

----------------------------------------------------------------------------
(* Theorems *)

LEMMA NoAttemptsCount ==
  ASSUME NEW at
  PROVE  NoAttempts # [NoAttempts EXCEPT !.count = 1, !.at = at]
<1> DEFINE other == [NoAttempts EXCEPT !.count = 1, !.at = at]
<1>1. other.count = 1
  BY DEF NoAttempts
<1>2. NoAttempts.count = 0
  BY DEF NoAttempts
<1> HIDE DEF other
<1>3. NoAttempts # other
  BY <1>1, <1>2
<1> QED
  BY <1>3 DEF other

LEMMA PricesInit ==
  ASSUME Init
  PROVE  PricesInv
<1>1. /\ current = 0 /\ managers = <<>> /\ calls = [c \in Calls |-> Idle] /\ begun = 0 /\ clock = StartTime
      /\ StartTime \in Nat \ {0}
  BY ReferencePricesAssumption DEF Init
<1>2. disk \in [prices : ListsOrNone, metadata : Metadata] /\ attempts \in Attempts /\ DiskOK(disk, attempts)
  <2>1. CASE attempts = NoAttempts
    <3> DEFINE metadata == [NoMetadata EXCEPT !.version = 1, !.list = OldList, !.fetchedAt = 1]
    <3>1. OldList \in ListsOrNone
      BY ReferencePricesAssumption DEF ListsOrNone
    <3>2. metadata \in Metadata /\ metadata.list = OldList
      BY <3>1, IdleTyped DEF Metadata
    <3>3. disk = [prices |-> OldList, metadata |-> metadata]
      <4>1. NoAttempts # [NoAttempts EXCEPT !.count = 1, !.at = StartTime - 1]
        BY NoAttemptsCount
      <4> QED
        BY <2>1, <4>1 DEF Init
    <3> HIDE DEF metadata
    <3>4. disk \in [prices : ListsOrNone, metadata : Metadata] /\ disk.prices = disk.metadata.list /\ disk.metadata = metadata
      BY <3>1, <3>2, <3>3
    <3> QED
      BY <2>1, <3>2, <3>4, NoAttemptsRemembered DEF DiskOK
  <2>2. CASE attempts = [NoAttempts EXCEPT !.count = 1, !.at = StartTime - 1]
    <3> DEFINE until == attempts.at + Backoff(1)
               metadata == [NoMetadata EXCEPT !.failures = 1, !.retryAfter = until]
    <3>1. attempts \in Attempts /\ attempts.count = 1 /\ attempts.at \in Nat
      <4>1. StartTime - 1 \in Nat
        BY <1>1
      <4> QED
        BY <2>2, <4>1 DEF NoAttempts, Attempts
    <3>2. until \in Nat
      BY <3>1, BackoffGrows
    <3>3. disk = [prices |-> {}, metadata |-> metadata]
      <4>1. NoAttempts # attempts
        BY <2>2, NoAttemptsCount
      <4> QED
        BY <4>1 DEF Init
    <3>4. Remembers(metadata, attempts)
      BY <3>1, <3>2 DEF Remembers, NoMetadata
    <3> HIDE DEF until
    <3>5. metadata \in Metadata /\ metadata.list = {}
      BY <3>2, IdleTyped DEF Metadata, NoMetadata
    <3> HIDE DEF metadata
    <3>6. disk \in [prices : ListsOrNone, metadata : Metadata] /\ disk.prices = disk.metadata.list /\ disk.metadata = metadata
      BY <3>3, <3>5 DEF ListsOrNone
    <3> QED
      BY <3>1, <3>4, <3>6 DEF DiskOK
  <2> QED
    BY <2>1, <2>2 DEF Init
<1>3. TypeOK
  BY <1>1, <1>2, NothingRuns DEF TypeOK
<1> QED
  BY <1>1, <1>2, <1>3, NothingRuns DEF PricesInv

LEMMA PricesStep ==
  ASSUME PricesInv, [Next]_vars
  PROVE  StepOK
<1>1. ASSUME NEW c \in Calls, NEW models \in Requested, NEW refresh \in BOOLEAN, Resolve(c, models, refresh) PROVE StepOK
  BY <1>1, ResolveStep
<1>2. ASSUME NEW c \in Calls, NEW kind \in {"force", "ensure"}, Ask(c, kind) PROVE StepOK
  BY <1>2, AskStep
<1>3. ASSUME NEW c \in Calls, Step(c) PROVE StepOK
  BY <1>3, LookupHitStep, LookupMissStep, LookupQueryStep, RecheckStep, JoinStep, JoinedStep, SkipStep, StartStep,
     DownloadStep, CommitStep, FailStep, FinishStep DEF Step
<1>4. ASSUME NEW c \in Calls, GiveUp(c) PROVE StepOK
  BY <1>4, GiveUpStep
<1>5. ASSUME NEW m \in DOMAIN managers, CloseManager(m) PROVE StepOK
  BY <1>5, CloseManagerStep
<1> QED
  BY <1>1, <1>2, <1>3, <1>4, <1>5, OpenStep, CloseStoreStep, CrashStep, TickStep, StutterStep DEF Next

\* The database, the managers and the calls keep their types, and all that the properties
\* of reference prices rest on.
THEOREM PricesInvariant == Spec => []PricesInv
<1>1. Init => PricesInv
  BY PricesInit
<1>2. PricesInv /\ [Next]_vars => PricesInv'
  BY PricesStep DEF StepOK
<1> QED
  BY <1>1, <1>2, PTL DEF Spec

\* The manager in use knows the prices the database holds, and their metadata, whatever
\* refreshes of closed managers or before a restart did.
THEOREM PricesAgree == Spec => []LiveAgrees
<1>1. PricesInv => LiveAgrees
  <2> SUFFICES ASSUME PricesInv PROVE LiveAgrees
    OBVIOUS
  <2>1. disk.prices = disk.metadata.list
    BY DEF PricesInv, DiskOK
  <2>2. ASSUME current # 0
        PROVE  \A field \in {"version", "list", "fetchedAt"} : managers[current].metadata[field] = disk.metadata[field]
    <3>1. current \in 1 .. Len(managers) /\ ~managers[current].closed
      BY <2>2, CurrentTyped DEF PricesInv, OpenOK, TypeOK
    <3>2. Agrees(managers[current].metadata, disk.metadata)
      BY <3>1 DEF PricesInv, ManagerOK
    <3> QED
      BY <3>2 DEF Agrees
  <2> QED
    BY <2>1, <2>2 DEF LiveAgrees
<1> QED
  BY <1>1, PricesInvariant, PTL

\* What the cache of the manager in use answers is what the database would, and each key
\* is cached once.
THEOREM CacheOfPricesInForce == Spec => []CacheInForce
<1>1. PricesInv => CacheInForce
  <2> SUFFICES ASSUME PricesInv, NEW m \in DOMAIN managers
               PROVE  LET entries == managers[m].entries
                      IN  /\ m = current => \A i \in DOMAIN entries :
                               entries[i].price = MatchReferencePriceKeys(disk.prices, entries[i].keys)
                          /\ \A i, j \in DOMAIN entries : entries[i].keys = entries[j].keys => i = j
    BY DEF CacheInForce
  <2> DEFINE entries == managers[m].entries
  <2>1. managers \in Seq(ManagerRecord) /\ m \in 1 .. Len(managers)
    BY DEF PricesInv, TypeOK
  <2>2. entries \in Entries
    <3>1. managers[m] \in ManagerRecord
      BY <2>1, ElementOfSeq
    <3> QED
      BY <3>1 DEF ManagerRecord
  <2>3. KeysDiffer(entries) /\ (~managers[m].closed => InForce(entries, disk.prices))
    BY <2>1 DEF PricesInv, ManagerOK
  <2>4. m = current => ~managers[m].closed
    BY <2>1 DEF PricesInv, OpenOK
  <2>5. DOMAIN entries = 1 .. Len(entries)
    BY <2>2 DEF Entries
  <2> HIDE DEF entries
  <2>6. m = current => \A i \in DOMAIN entries :
                         entries[i].price = MatchReferencePriceKeys(disk.prices, entries[i].keys)
    BY <2>3, <2>4, <2>5 DEF InForce
  <2>7. \A i, j \in DOMAIN entries : entries[i].keys = entries[j].keys => i = j
    BY <2>3, <2>5 DEF KeysDiffer
  <2> QED
    BY <2>6, <2>7 DEF entries
<1> QED
  BY <1>1, PricesInvariant, PTL

\* A manager is refreshing while exactly one call refreshes it, and who waits for a refresh
\* waits for one that goes on.
THEOREM RefreshesOneAtATime == Spec => []OneRefresh
<1>1. PricesInv => OneRefresh
  <2> SUFFICES ASSUME PricesInv, NEW m \in DOMAIN managers
               PROVE  /\ Cardinality(Refreshing(m)) = IF managers[m].refreshing THEN 1 ELSE 0
                      /\ \A c \in Calls : calls[c].manager = m /\ calls[c].pc = "join"
                                          /\ calls[c].observed = managers[m].sequence => managers[m].refreshing
    BY DEF OneRefresh
  <2>1. managers \in Seq(ManagerRecord) /\ m \in 1 .. Len(managers) /\ m # 0
    BY DEF PricesInv, TypeOK
  <2>2. Refreshing(m) = {c \in Calls : Works(calls[c]) /\ calls[c].manager = m}
    BY DEF Refreshing, Works
  <2>3. CASE managers[m].refreshing
    <3>1. PICK c \in Calls : Works(calls[c]) /\ calls[c].manager = m
      BY <2>1, <2>3 DEF PricesInv, OneWorks
    <3>2. Refreshing(m) = {c}
      BY <2>1, <2>2, <3>1 DEF PricesInv, OneWorks
    <3> QED
      BY <2>3, <3>2, FS_Singleton
  <2>4. CASE ~managers[m].refreshing
    <3>1. Refreshing(m) = {}
      BY <2>1, <2>2, <2>4 DEF PricesInv, OneWorks
    <3>2. \A c \in Calls : calls[c].manager = m => JoinOK(calls[c], managers[m])
      BY <2>1 DEF PricesInv, CallOK
    <3> QED
      BY <2>4, <3>1, <3>2, FS_EmptySet DEF JoinOK
  <2> QED
    BY <2>3, <2>4
<1> QED
  BY <1>1, PricesInvariant, PTL

\* While refreshes fail, nobody but an administrator downloads before the wait is over.
THEOREM WaitAfterFailures == Spec => BackoffKept
<1>1. PricesInv /\ [Next]_vars => [BackoffStep]_vars
  BY PricesStep DEF StepOK
<1> QED
  BY <1>1, PricesInvariant, PTL DEF Spec, BackoffKept, BackoffStep
=============================================================================
