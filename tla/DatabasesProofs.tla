-------------------------- MODULE DatabasesProofs --------------------------
(***************************************************************************)
(* For any databases, retentions and bounds.                               *)
(*                                                                         *)
(* Records: one is written once and does not come back, what must wait     *)
(* waits, and a cutoff that could not be applied is applied by the next    *)
(* save.                                                                   *)
(*                                                                         *)
(* Migrations: the file is untouched or whole, a sound one is never        *)
(* refused, and nothing of it is lost or made up.  The steps follow one    *)
(* path; a version begins somewhere on it.  At each place of the path it   *)
(* is known which columns there are, and what has become of the rows of    *)
(* the database that was found.                                            *)
(***************************************************************************)
EXTENDS Databases, SequenceTheorems, FiniteSetTheorems, TLAPS

----------------------------------------------------------------------------
(* Numbers *)

\* A set of natural numbers that is not empty has a least element.
LEMMA LeastNatural ==
  ASSUME NEW T \in SUBSET Nat, T # {}
  PROVE  \E x \in T : \A y \in T : x <= y
<1>1. PICK x \in T : \A y \in T : ~(<<y, x>> \in OpToRel(<, Nat))
  BY WFMin, NatLessThanWellFounded
<1>2. \A y \in T : ~(y < x)
  BY <1>1 DEF OpToRel
<1> QED
  BY <1>2

\* Max picks the largest of some finite numbers.
LEMMA FiniteMax ==
  ASSUME NEW S \in SUBSET Nat, IsFiniteSet(S), S # {}
  PROVE  /\ Max(S) \in S
         /\ \A x \in S : x <= Max(S)
<1> DEFINE Above(x) == {y \in S : y > x}
           Counts == {Cardinality(Above(x)) : x \in S}
<1>1. \A x \in S : IsFiniteSet(Above(x)) /\ Cardinality(Above(x)) \in Nat
  BY FS_Subset, FS_CardinalityType
<1>2. PICK n \in Counts : \A k \in Counts : n <= k
  <2>1. Counts \in SUBSET Nat /\ Counts # {}
    BY <1>1
  <2> QED
    BY <2>1, LeastNatural
<1>3. PICK m \in S : n = Cardinality(Above(m))
  OBVIOUS
<1>4. ASSUME NEW y \in S, y > m PROVE FALSE
  <2>1. Above(y) \in SUBSET Above(m) /\ Above(y) # Above(m)
    <3>1. y \in Above(m) /\ y \notin Above(y)
      BY <1>4
    <3>2. ASSUME NEW z \in Above(y) PROVE z \in Above(m)
      BY <1>4
    <3> QED
      BY <3>1, <3>2
  <2>2. IsFiniteSet(Above(m)) /\ Cardinality(Above(m)) \in Nat /\ Cardinality(Above(y)) \in Nat
    BY <1>1
  <2>3. Cardinality(Above(m)) <= Cardinality(Above(y))
    BY <1>2, <1>3
  <2> HIDE DEF Above
  <2>4. Cardinality(Above(y)) <= Cardinality(Above(m)) /\ Cardinality(Above(y)) # Cardinality(Above(m))
    BY <2>1, <2>2, FS_Subset
  <2> QED
    BY <2>2, <2>3, <2>4
<1>5. \A y \in S : m >= y
  BY <1>4
<1> QED
  BY <1>5 DEF Max

\* Max of two numbers
LEMMA PairMax ==
  ASSUME NEW a \in Nat, NEW b \in Nat
  PROVE  /\ Max({a, b}) \in Nat
         /\ Max({a, b}) = IF a <= b THEN b ELSE a
<1> DEFINE m == IF a <= b THEN b ELSE a
<1>1. m \in {a, b} /\ \A y \in {a, b} : m >= y
  OBVIOUS
<1>2. \A x \in {a, b} : (\A y \in {a, b} : x >= y) => x = m
  OBVIOUS
<1> HIDE DEF m
<1>3. Max({a, b}) = m
  BY <1>1, <1>2 DEF Max
<1> QED
  BY <1>3 DEF m

----------------------------------------------------------------------------
(* The latest records *)

\* Latest drops from the front what is too much and nothing else.
LEMMA LatestIsSuffix ==
  ASSUME NEW S, NEW s \in Seq(S)
  PROVE  /\ Latest(s) \in Seq(S)
         /\ \E k \in 0 .. Len(s) :
              /\ Len(Latest(s)) = Len(s) - k
              /\ Len(s) - k <= MaxPending
              /\ k > 0 => Len(s) - k = MaxPending
              /\ \A i \in 1 .. Len(s) - k : Latest(s)[i] = s[i + k]
<1> DEFINE k == IF Len(s) <= MaxPending THEN 0 ELSE Len(s) - MaxPending
           m == k + 1
<1>1. Len(s) \in Nat /\ MaxPending \in Nat \ {0} /\ k \in 0 .. Len(s) /\ m \in Int
  BY LenProperties, RequestRecordsAssumption
<1>2. Max({1, Len(s) - MaxPending + 1}) = m
  <2>1. CASE Len(s) <= MaxPending
    <3> DEFINE b == Len(s) - MaxPending + 1
    <3>1. b \in Int /\ b <= 1
      BY <1>1, <2>1
    <3> HIDE DEF b
    <3>2. \A x \in {1, b} : (\A y \in {1, b} : x >= y) <=> x = 1
      BY <3>1
    <3>3. Max({1, b}) = 1
      BY <3>2 DEF Max
    <3> QED
      BY <3>3, <2>1, <1>1 DEF b
  <2>2. CASE Len(s) > MaxPending
    <3>1. Len(s) - MaxPending + 1 \in Nat /\ 1 <= Len(s) - MaxPending + 1
      BY <1>1, <2>2
    <3> QED
      BY <3>1, <2>2, <1>1, PairMax
  <2> QED
    BY <2>1, <2>2, <1>1
<1>3. Latest(s) = SubSeq(s, m, Len(s))
  BY <1>2 DEF Latest
<1>4. \A i \in m .. Len(s) : s[i] \in S
  BY <1>1, ElementOfSeq
<1> HIDE DEF m
<1>5. /\ Latest(s) \in Seq(S)
      /\ Len(Latest(s)) = IF m <= Len(s) THEN Len(s) - m + 1 ELSE 0
      /\ \A i \in 1 .. Len(s) - m + 1 : Latest(s)[i] = s[m + i - 1]
  BY <1>1, <1>3, <1>4, SubSeqProperties
<1> QED
  <2> USE DEF m
  <2>1. Latest(s) \in Seq(S)
    BY <1>5
  <2>2. Len(Latest(s)) = Len(s) - k
    <3>1. m = k + 1
      OBVIOUS
    <3> HIDE DEF k, m
    <3> QED
      BY <3>1, <1>1, <1>5
  <2>3. \A i \in 1 .. Len(s) - k : Latest(s)[i] = s[i + k]
    BY <1>1, <1>5
  <2>4. Len(s) - k <= MaxPending /\ (k > 0 => Len(s) - k = MaxPending)
    BY <1>1
  <2> HIDE DEF k
  <2> QED
    BY <2>1, <2>2, <2>3, <2>4, <1>1

\* Nothing is dropped while there is room.
LEMMA LatestOfFew ==
  ASSUME NEW S, NEW s \in Seq(S), Len(s) <= MaxPending
  PROVE  Latest(s) = s
<1>1. PICK k \in 0 .. Len(s) :
        /\ Len(Latest(s)) = Len(s) - k
        /\ k > 0 => Len(s) - k = MaxPending
        /\ \A i \in 1 .. Len(s) - k : Latest(s)[i] = s[i + k]
  BY LatestIsSuffix
<1>2. Latest(s) \in Seq(S) /\ Len(s) \in Nat /\ MaxPending \in Nat
  BY LatestIsSuffix, LenProperties, RequestRecordsAssumption
<1>3. k = 0
  BY <1>1, <1>2
<1>4. \A i \in 1 .. Len(Latest(s)) : Latest(s)[i] = s[i]
  BY <1>1, <1>2, <1>3
<1>5. Len(Latest(s)) = Len(s)
  BY <1>1, <1>2, <1>3
<1> HIDE DEF Latest
<1> QED
  BY <1>2, <1>4, <1>5, SeqEqual

----------------------------------------------------------------------------
(* The invariant of the records *)

Record == [id : Nat, at : Int, failed : BOOLEAN, copy : {0}]

Changes == [normal : Seq(Record), failed : Seq(Record), cutoff : Nat]

\* The records of a kind that wait, in the order they were made, n having been made.
QueueOK(s, n) ==
  /\ Len(s) <= MaxPending
  /\ \A i \in 1 .. Len(s) : s[i].id \in 1 .. n
  /\ \A i, j \in 1 .. Len(s) : i < j => s[i].id < s[j].id

Pending(changes) == ToSet(changes.normal) \cup ToSet(changes.failed)

ChangesOK(changes, n) ==
  /\ changes \in Changes
  /\ QueueOK(changes.normal, n)
  /\ QueueOK(changes.failed, n)
  /\ \A r \in ToSet(changes.normal), s \in ToSet(changes.failed) : r.id # s.id

TableOK(table, lost, n) ==
  /\ table \subseteq Record
  /\ lost \subseteq 1 .. n
  /\ \A row \in table : row.id \in 1 .. n /\ row.id \notin lost
  /\ \A row, other \in table : row.id = other.id => row = other

\* What waits is in no table and was not deleted.
Apart(pending, table, lost) ==
  \A r \in pending : r.id \notin lost /\ \A row \in table : row.id # r.id

ClockOK ==
  /\ clock \in Nat
  /\ \A days \in Retentions \cup Ages : days < clock

\* A cutoff that is due waits with the records, and a store without a database keeps nothing.
RecordsInv ==
  /\ ClockOK
  /\ retention \in Retentions /\ opened \in BOOLEAN /\ recorded \in Nat /\ due \in Nat
  /\ ChangesOK(dirty, recorded)
  /\ TableOK(rows, gone, recorded)
  /\ Apart(Pending(dirty), rows, gone)
  /\ due <= dirty.cutoff
  /\ ~opened => dirty = NoChanges /\ due = 0

\* The invariant is what the runs check.
LEMMA RecordsInvImplies == RecordsInv => WrittenOnce /\ GoneForGood
<1> SUFFICES ASSUME RecordsInv
             PROVE  WrittenOnce /\ GoneForGood
  OBVIOUS
<1>1. TableOK(rows, gone, recorded) /\ Apart(Pending(dirty), rows, gone)
  BY DEF RecordsInv
<1>2. Waiting = Pending(dirty)
  BY DEF Waiting, Pending
<1>3. \A id \in PendingIds : id \notin gone /\ \A row \in rows : row.id # id
  BY <1>1, <1>2 DEF Apart, PendingIds
<1> QED
  BY <1>1, <1>3 DEF TableOK, WrittenOnce, GoneForGood

LEMMA NothingWaits ==
  /\ NoChanges \in Changes
  /\ Pending(NoChanges) = {}
  /\ \A n \in Nat : ChangesOK(NoChanges, n)
<1>1. Len(<<>>) = 0 /\ <<>> \in Seq(Record) /\ MaxPending \in Nat
  BY EmptySeq, RequestRecordsAssumption
<1>2. NoChanges \in Changes /\ NoChanges.normal = <<>> /\ NoChanges.failed = <<>>
  BY <1>1 DEF NoChanges, Changes
<1>3. ToSet(<<>>) = {}
  BY DEF ToSet
<1>4. \A n \in Nat : QueueOK(<<>>, n)
  BY <1>1 DEF QueueOK
<1> QED
  BY <1>2, <1>3, <1>4 DEF ChangesOK, Pending

\* An age of days reaches back to an instant.
LEMMA CutoffIsInstant ==
  ASSUME ClockOK, NEW days \in Retentions \cup Ages
  PROVE  Cutoff(days, clock) \in Nat
BY RequestRecordsAssumption DEF Cutoff, ClockOK

----------------------------------------------------------------------------
(* Adding a record to what waits *)

\* A queue to which the newest record is added keeps its order and its bound.
LEMMA QueueGrows ==
  ASSUME NEW n \in Nat, NEW s \in Seq(Record), QueueOK(s, n),
         NEW r \in Record, r.id = n + 1
  PROVE  /\ Latest(s \o <<r>>) \in Seq(Record)
         /\ QueueOK(Latest(s \o <<r>>), n + 1)
         /\ ToSet(Latest(s \o <<r>>)) \subseteq ToSet(s) \cup {r}
<1> DEFINE t == s \o <<r>>
<1>1. Len(s) \in Nat /\ <<r>> \in Seq(Record) /\ Len(<<r>>) = 1 /\ <<r>>[1] = r
  BY LenProperties
<1>2. t \in Seq(Record) /\ Len(t) = Len(s) + 1
  BY <1>1, ConcatProperties
<1>3. \A i \in 1 .. Len(t) : t[i] = IF i <= Len(s) THEN s[i] ELSE r
  BY <1>1, ConcatProperties
<1> HIDE DEF t
<1>4. \A i \in 1 .. Len(t) : t[i].id \in 1 .. n + 1
  BY <1>1, <1>2, <1>3 DEF QueueOK
<1>5. \A i, j \in 1 .. Len(t) : i < j => t[i].id < t[j].id
  BY <1>1, <1>2, <1>3 DEF QueueOK
<1>6. PICK k \in 0 .. Len(t) :
        /\ Len(Latest(t)) = Len(t) - k
        /\ Len(t) - k <= MaxPending
        /\ \A i \in 1 .. Len(t) - k : Latest(t)[i] = t[i + k]
  BY <1>2, LatestIsSuffix
<1>7. Latest(t) \in Seq(Record)
  BY <1>2, LatestIsSuffix
<1> HIDE DEF Latest
<1>8. \A i \in 1 .. Len(Latest(t)) : i + k \in 1 .. Len(t) /\ Latest(t)[i] = t[i + k]
  BY <1>1, <1>2, <1>6
<1>9. QueueOK(Latest(t), n + 1)
  <2>1. Len(Latest(t)) <= MaxPending
    BY <1>6
  <2>2. \A i \in 1 .. Len(Latest(t)) : Latest(t)[i].id \in 1 .. n + 1
    BY <1>4, <1>8
  <2>3. ASSUME NEW i \in 1 .. Len(Latest(t)), NEW j \in 1 .. Len(Latest(t)), i < j
        PROVE  Latest(t)[i].id < Latest(t)[j].id
    <3>1. i + k < j + k /\ i + k \in 1 .. Len(t) /\ j + k \in 1 .. Len(t)
      BY <1>8, <2>3
    <3>2. t[i + k].id < t[j + k].id
      BY <1>5, <3>1
    <3> QED
      BY <3>2, <1>8
  <2> QED
    BY <2>1, <2>2, <2>3 DEF QueueOK
<1>10. ToSet(Latest(t)) \subseteq ToSet(s) \cup {r}
  <2> SUFFICES ASSUME NEW i \in 1 .. Len(Latest(t))
               PROVE  Latest(t)[i] \in ToSet(s) \cup {r}
    BY <1>7, LenProperties DEF ToSet
  <2>1. Latest(t)[i] = t[i + k] /\ i + k \in 1 .. Len(t)
    BY <1>8
  <2>2. DOMAIN s = 1 .. Len(s)
    BY LenProperties
  <2> QED
    BY SMTT(30), <1>1, <1>2, <1>3, <2>1, <2>2 DEF ToSet
<1> QED
  BY <1>7, <1>9, <1>10 DEF t

\* Merging changes without records only moves the cutoff.
LEMMA MergedCutoff ==
  ASSUME NEW n \in Nat, NEW changes, ChangesOK(changes, n),
         NEW next \in Changes, next.normal = <<>>, next.failed = <<>>
  PROVE  /\ ChangesOK(Merged(changes, next), n)
         /\ Merged(changes, next).normal = changes.normal
         /\ Merged(changes, next).failed = changes.failed
         /\ changes.cutoff <= Merged(changes, next).cutoff
         /\ next.cutoff <= Merged(changes, next).cutoff
         /\ next.cutoff = 0 => Merged(changes, next) = changes
<1>1. /\ changes.normal \in Seq(Record) /\ changes.failed \in Seq(Record)
      /\ changes.cutoff \in Nat /\ next.cutoff \in Nat
  BY DEF ChangesOK, Changes
<1>2. changes.normal \o <<>> = changes.normal /\ changes.failed \o <<>> = changes.failed
  BY <1>1, ConcatEmptySeq
<1>3. Latest(changes.normal) = changes.normal /\ Latest(changes.failed) = changes.failed
  BY <1>1, LatestOfFew DEF ChangesOK, QueueOK
<1> DEFINE cutoff == Max({changes.cutoff, next.cutoff})
<1>4. cutoff \in Nat /\ changes.cutoff <= cutoff /\ next.cutoff <= cutoff
      /\ (next.cutoff = 0 => cutoff = changes.cutoff)
  BY <1>1, PairMax
<1> HIDE DEF cutoff
<1>5. Merged(changes, next) = [normal |-> changes.normal, failed |-> changes.failed, cutoff |-> cutoff]
  BY <1>2, <1>3 DEF Merged, cutoff
<1> HIDE DEF Merged
<1>6. ChangesOK(Merged(changes, next), n)
  BY <1>1, <1>4, <1>5 DEF ChangesOK, Changes
<1>7. next.cutoff = 0 => Merged(changes, next) = changes
  BY <1>4, <1>5 DEF ChangesOK, Changes
<1> QED
  BY <1>4, <1>5, <1>6, <1>7

\* What waits with a new record of one kind is what waited and that record, less the oldest
\* of its kind when there is no room.
LEMMA MergedRecord ==
  ASSUME NEW n \in Nat, NEW changes, ChangesOK(changes, n),
         NEW next \in Changes, NEW r \in Record, r.id = n + 1,
         \/ next.normal = <<r>> /\ next.failed = <<>>
         \/ next.normal = <<>> /\ next.failed = <<r>>
  PROVE  /\ ChangesOK(Merged(changes, next), n + 1)
         /\ Pending(Merged(changes, next)) \subseteq Pending(changes) \cup {r}
         /\ changes.cutoff <= Merged(changes, next).cutoff
         /\ next.cutoff <= Merged(changes, next).cutoff
<1>1. /\ changes.normal \in Seq(Record) /\ changes.failed \in Seq(Record)
      /\ changes.cutoff \in Nat /\ next.cutoff \in Nat
  BY DEF ChangesOK, Changes
<1>2. changes.normal \o <<>> = changes.normal /\ changes.failed \o <<>> = changes.failed
  BY <1>1, ConcatEmptySeq
<1>3. Latest(changes.normal) = changes.normal /\ Latest(changes.failed) = changes.failed
  BY <1>1, LatestOfFew DEF ChangesOK, QueueOK
<1> DEFINE m == Merged(changes, next)
<1>4. m.cutoff \in Nat /\ changes.cutoff <= m.cutoff /\ next.cutoff <= m.cutoff
  BY <1>1, PairMax DEF Merged
<1>5. m = [normal |-> m.normal, failed |-> m.failed, cutoff |-> m.cutoff]
  BY DEF Merged
<1>6. /\ QueueOK(changes.normal, n + 1) /\ QueueOK(changes.failed, n + 1)
      /\ \A s \in Pending(changes) : s.id # n + 1
  <2>1. DOMAIN changes.normal = 1 .. Len(changes.normal) /\ DOMAIN changes.failed = 1 .. Len(changes.failed)
    BY <1>1, LenProperties
  <2>2. \A s \in Pending(changes) : s.id \in 1 .. n
    BY <2>1 DEF ChangesOK, QueueOK, Pending, ToSet
  <2> QED
    BY <2>2 DEF ChangesOK, QueueOK
<1>7. CASE next.normal = <<r>> /\ next.failed = <<>>
  <2>1. m.normal = Latest(changes.normal \o <<r>>) /\ m.failed = changes.failed
    BY <1>2, <1>3, <1>7 DEF Merged
  <2> HIDE DEF m
  <2>2. /\ m.normal \in Seq(Record) /\ QueueOK(m.normal, n + 1)
        /\ ToSet(m.normal) \subseteq ToSet(changes.normal) \cup {r}
    BY <1>1, <2>1, QueueGrows DEF ChangesOK
  <2>3. m \in Changes
    BY <1>1, <1>4, <1>5, <2>1, <2>2 DEF Changes
  <2>4. \A s \in ToSet(m.normal), u \in ToSet(m.failed) : s.id # u.id
    BY <1>6, <2>1, <2>2 DEF ChangesOK, Pending
  <2>5. Pending(m) \subseteq Pending(changes) \cup {r}
    BY <2>1, <2>2 DEF Pending
  <2> QED
    BY <1>4, <1>6, <2>1, <2>2, <2>3, <2>4, <2>5 DEF ChangesOK, m
<1>8. CASE next.normal = <<>> /\ next.failed = <<r>>
  <2>1. m.failed = Latest(changes.failed \o <<r>>) /\ m.normal = changes.normal
    BY <1>2, <1>3, <1>8 DEF Merged
  <2> HIDE DEF m
  <2>2. /\ m.failed \in Seq(Record) /\ QueueOK(m.failed, n + 1)
        /\ ToSet(m.failed) \subseteq ToSet(changes.failed) \cup {r}
    BY <1>1, <2>1, QueueGrows DEF ChangesOK
  <2>3. m \in Changes
    BY <1>1, <1>4, <1>5, <2>1, <2>2 DEF Changes
  <2>4. \A s \in ToSet(m.normal), u \in ToSet(m.failed) : s.id # u.id
    BY <1>6, <2>1, <2>2 DEF ChangesOK, Pending
  <2>5. Pending(m) \subseteq Pending(changes) \cup {r}
    BY <2>1, <2>2 DEF Pending
  <2> QED
    BY <1>4, <1>6, <2>1, <2>2, <2>3, <2>4, <2>5 DEF ChangesOK, m
<1> QED
  BY <1>7, <1>8

----------------------------------------------------------------------------
(* Saving *)

\* A save leaves the rows there were and one for each record that waited, but what is too
\* old; no two rows are of one record.
LEMMA SavedRows ==
  ASSUME NEW n \in Nat, NEW changes, ChangesOK(changes, n),
         NEW table, NEW lost, TableOK(table, lost, n), Apart(Pending(changes), table, lost)
  PROVE  LET kept(at) == changes.cutoff = 0 \/ at >= changes.cutoff
             saved == Saved(table, changes)
         IN  /\ saved \subseteq Record
             /\ \A row \in saved :
                  /\ kept(row.at)
                  /\ row \in table \/ \E r \in Pending(changes) : row.id = r.id /\ row.at = r.at
             /\ \A row \in table : kept(row.at) => row \in saved
             /\ \A r \in Pending(changes) : kept(r.at) => \E row \in saved : row.id = r.id
             /\ \A row, other \in saved : row.id = other.id => row = other
<1> DEFINE kept(at) == changes.cutoff = 0 \/ at >= changes.cutoff
           saved == Saved(table, changes)
           normal == {[r EXCEPT !.failed = FALSE] : r \in ToSet(changes.normal)}
           failed == {[r EXCEPT !.failed = TRUE] : r \in ToSet(changes.failed)}
<1>1. ToSet(changes.normal) \subseteq Record /\ ToSet(changes.failed) \subseteq Record
  <2>1. changes.normal \in Seq(Record) /\ changes.failed \in Seq(Record)
    BY DEF ChangesOK, Changes
  <2> QED
    BY <2>1, LenProperties, ElementOfSeq DEF ToSet
<1>2. normal \subseteq Record /\ failed \subseteq Record
  BY <1>1 DEF Record
<1>3. /\ \A a \in normal : \E r \in ToSet(changes.normal) : a = [r EXCEPT !.failed = FALSE] /\ a.id = r.id /\ a.at = r.at
      /\ \A r \in ToSet(changes.normal) : \E a \in normal : a.id = r.id /\ a.at = r.at
  <2>1. \A r \in ToSet(changes.normal) : [r EXCEPT !.failed = FALSE].id = r.id /\ [r EXCEPT !.failed = FALSE].at = r.at
    BY <1>1 DEF Record
  <2> QED
    BY <2>1
<1>4. /\ \A a \in failed : \E r \in ToSet(changes.failed) : a = [r EXCEPT !.failed = TRUE] /\ a.id = r.id /\ a.at = r.at
      /\ \A r \in ToSet(changes.failed) : \E a \in failed : a.id = r.id /\ a.at = r.at
  <2>1. \A r \in ToSet(changes.failed) : [r EXCEPT !.failed = TRUE].id = r.id /\ [r EXCEPT !.failed = TRUE].at = r.at
    BY <1>1 DEF Record
  <2> QED
    BY <2>1
<1>5. \A a \in normal \cup failed : Cardinality({row \in table : row.id = a.id}) = 0
  <2>1. \A a \in normal \cup failed : {row \in table : row.id = a.id} = {}
    BY <1>3, <1>4 DEF Apart, Pending
  <2> QED
    BY <2>1, FS_EmptySet
<1>6. \A a \in Record : [a EXCEPT !.copy = 0] = a
  BY DEF Record
<1>7. saved = {row \in table \cup normal \cup failed : kept(row.at)}
  <2> DEFINE counted == {[a EXCEPT !.copy = Cardinality({row \in table : row.id = a.id})] : a \in normal \cup failed}
  <2>1. counted = normal \cup failed
    <3>1. \A a \in normal \cup failed : [a EXCEPT !.copy = Cardinality({row \in table : row.id = a.id})] = a
      BY <1>2, <1>5, <1>6
    <3> HIDE DEF normal, failed
    <3> QED
      BY <3>1
  <2>2. saved = Pruned(table \cup counted, changes.cutoff)
    BY DEF Saved
  <2> HIDE DEF counted, normal, failed, saved
  <2> QED
    BY <2>1, <2>2 DEF Pruned
<1>8. \A a, b \in normal \cup failed : a.id = b.id => a = b
  <2>1. \A r, s \in ToSet(changes.normal) : r.id = s.id => r = s
    <3>1. changes.normal \in Seq(Record)
      BY DEF ChangesOK, Changes
    <3>2. Len(changes.normal) \in Nat /\ DOMAIN changes.normal = 1 .. Len(changes.normal)
      BY <3>1, LenProperties
    <3> QED
      BY <3>2, <1>1 DEF ChangesOK, QueueOK, ToSet, Record
  <2>2. \A r, s \in ToSet(changes.failed) : r.id = s.id => r = s
    <3>1. changes.failed \in Seq(Record)
      BY DEF ChangesOK, Changes
    <3>2. Len(changes.failed) \in Nat /\ DOMAIN changes.failed = 1 .. Len(changes.failed)
      BY <3>1, LenProperties
    <3> QED
      BY <3>2, <1>1 DEF ChangesOK, QueueOK, ToSet, Record
  <2>3. \A r \in ToSet(changes.normal), s \in ToSet(changes.failed) : r.id # s.id
    BY DEF ChangesOK
  <2> HIDE DEF normal, failed
  <2>4. ASSUME NEW a \in normal, NEW b \in normal, a.id = b.id PROVE a = b
    <3>1. PICK r \in ToSet(changes.normal) : a = [r EXCEPT !.failed = FALSE] /\ a.id = r.id
      BY <1>3
    <3>2. PICK t \in ToSet(changes.normal) : b = [t EXCEPT !.failed = FALSE] /\ b.id = t.id
      BY <1>3
    <3>3. r = t
      BY <3>1, <3>2, <2>1, <2>4
    <3> QED
      BY <3>1, <3>2, <3>3
  <2>5. ASSUME NEW a \in failed, NEW b \in failed, a.id = b.id PROVE a = b
    <3>1. PICK r \in ToSet(changes.failed) : a = [r EXCEPT !.failed = TRUE] /\ a.id = r.id
      BY <1>4
    <3>2. PICK t \in ToSet(changes.failed) : b = [t EXCEPT !.failed = TRUE] /\ b.id = t.id
      BY <1>4
    <3>3. r = t
      BY <3>1, <3>2, <2>2, <2>5
    <3> QED
      BY <3>1, <3>2, <3>3
  <2>6. ASSUME NEW a \in normal, NEW b \in failed PROVE a.id # b.id
    <3>1. PICK r \in ToSet(changes.normal) : a.id = r.id
      BY <1>3
    <3>2. PICK s \in ToSet(changes.failed) : b.id = s.id
      BY <1>4
    <3> QED
      BY <3>1, <3>2, <2>3
  <2> QED
    BY <2>4, <2>5, <2>6
<1>9. table \subseteq Record
  BY DEF TableOK
<1> HIDE DEF normal, failed, saved
<1>10. saved \subseteq Record
  BY <1>2, <1>7, <1>9
<1>11. \A row \in saved : row \in table \/ \E r \in Pending(changes) : row.id = r.id /\ row.at = r.at
  BY <1>3, <1>4, <1>7 DEF Pending
<1>12. \A row, other \in saved : row.id = other.id => row = other
  BY <1>3, <1>4, <1>7, <1>8 DEF TableOK, Apart, Pending
<1>13. \A r \in Pending(changes) : kept(r.at) => \E row \in saved : row.id = r.id
  BY <1>3, <1>4, <1>7 DEF Pending
<1> QED
  BY <1>7, <1>10, <1>11, <1>12, <1>13 DEF saved

\* A record that gives way to a new one is the oldest of its kind, and all the others wait.
LEMMA QueueDrops ==
  ASSUME NEW n \in Nat, NEW s \in Seq(Record), QueueOK(s, n),
         NEW r \in Record, NEW i \in 1 .. Len(s)
  PROVE  \/ s[i] \in ToSet(Latest(s \o <<r>>))
         \/ Cardinality({u \in ToSet(s) : u.id > s[i].id}) >= MaxPending - 1
<1> DEFINE t == s \o <<r>>
           U == {u \in ToSet(s) : u.id > s[i].id}
<1>1. Len(s) \in Nat /\ DOMAIN s = 1 .. Len(s) /\ <<r>> \in Seq(Record) /\ Len(<<r>>) = 1
  BY LenProperties
<1>2. t \in Seq(Record) /\ Len(t) = Len(s) + 1 /\ \A j \in 1 .. Len(s) : t[j] = s[j]
  BY <1>1, ConcatProperties
<1> HIDE DEF t
<1>3. PICK k \in 0 .. Len(t) :
        /\ Len(Latest(t)) = Len(t) - k
        /\ k > 0 => Len(t) - k = MaxPending
        /\ \A j \in 1 .. Len(t) - k : Latest(t)[j] = t[j + k]
  BY <1>2, LatestIsSuffix
<1>4. Latest(t) \in Seq(Record) /\ DOMAIN Latest(t) = 1 .. Len(Latest(t))
  BY <1>2, LatestIsSuffix, LenProperties
<1>5. CASE i > k
  <2>1. i - k \in 1 .. Len(t) - k
    BY <1>1, <1>2, <1>3, <1>5
  <2>2. Latest(t)[i - k] = t[(i - k) + k]
    BY <1>3, <2>1
  <2>3. (i - k) + k = i
    OBVIOUS
  <2>4. Latest(t)[i - k] = s[i]
    BY <1>2, <2>2, <2>3
  <2>5. i - k \in DOMAIN Latest(t)
    BY <1>3, <1>4, <2>1
  <2> QED
    BY <2>4, <2>5 DEF ToSet, t
<1>6. CASE i <= k
  <2>1. MaxPending \in Nat /\ Len(s) <= MaxPending
    BY RequestRecordsAssumption DEF QueueOK
  <2>2. i = 1 /\ Len(s) = MaxPending
    <3>1. k \in Nat /\ i \in Nat /\ i >= 1 /\ k >= i
      BY <1>1, <1>2, <1>6
    <3>2. Len(t) - k = MaxPending /\ Len(t) = Len(s) + 1
      BY <1>2, <1>3, <3>1
    <3>3. Len(s) \in Nat
      BY <1>1
    <3>4. k = 1
      BY ONLY <2>1, <3>1, <3>2, <3>3
    <3> QED
      BY ONLY <2>1, <3>1, <3>2, <3>3, <3>4
  <2> DEFINE others == [j \in 2 .. Len(s) |-> s[j]]
             all == [j \in 1 .. Len(s) |-> s[j]]
  <2>3. all \in Surjection(1 .. Len(s), ToSet(s))
    BY <1>1 DEF Surjection, ToSet
  <2>4. IsFiniteSet(1 .. Len(s)) /\ IsFiniteSet(2 .. Len(s)) /\ Cardinality(2 .. Len(s)) = Len(s) - 1
    <3>1. 2 \in Int /\ 1 \in Int /\ Len(s) \in Int /\ Len(s) >= 1
      BY <1>1
    <3>2. Cardinality(2 .. Len(s)) = IF 2 > Len(s) THEN 0 ELSE Len(s) - 2 + 1
      BY <3>1, FS_Interval
    <3> QED
      BY <3>1, <3>2, FS_Interval
  <2>5. IsFiniteSet(ToSet(s))
    BY <2>3, <2>4, FS_Surjection
  <2>6. IsFiniteSet(U) /\ Cardinality(U) \in Nat
    BY <2>5, FS_Subset, FS_CardinalityType
  <2>7. others \in Injection(2 .. Len(s), U)
    <3>1. \A j \in 2 .. Len(s) : s[j] \in ToSet(s)
      BY <1>1 DEF ToSet
    <3>2. \A j \in 2 .. Len(s) : s[j].id > s[1].id
      BY <1>1 DEF QueueOK
    <3>3. \A j, l \in 2 .. Len(s) : s[j] = s[l] => j = l
      <4> SUFFICES ASSUME NEW j \in 2 .. Len(s), NEW l \in 2 .. Len(s), s[j] = s[l], j # l
                   PROVE  FALSE
        OBVIOUS
      <4>1. s[j].id < s[l].id \/ s[l].id < s[j].id
        BY <1>1 DEF QueueOK
      <4>2. s[j].id \in Nat
        <5>1. s[j] \in Record
          BY <1>1, ElementOfSeq
        <5> QED
          BY <5>1 DEF Record
      <4> QED
        BY <4>1, <4>2
    <3>4. others \in [2 .. Len(s) -> U]
      BY <2>2, <3>1, <3>2
    <3> QED
      BY <3>3, <3>4 DEF Injection, IsInjective
  <2>8. Cardinality(2 .. Len(s)) <= Cardinality(U)
    BY <2>6, <2>7, FS_Injection
  <2> QED
    BY <2>2, <2>4, <2>8
<1> QED
  BY <1>5, <1>6, <1>1, <1>3

----------------------------------------------------------------------------
(* Every operation keeps the invariant and does what the action properties say *)

Dropped(kind, r) ==
  /\ Cardinality({s \in ToSet(dirty[kind]) : s.id > r.id}) >= MaxPending - 1
  /\ recorded' = recorded + 1

WaitOn ==
  \A kind \in {"normal", "failed"}, r \in Waiting :
    opened /\ opened' /\ r \in ToSet(dirty[kind]) =>
      \/ r \in ToSet(dirty'[kind]) \/ r.id \in gone' \/ \E row \in rows' : row.id = r.id
      \/ /\ Cardinality({s \in ToSet(dirty[kind]) : s.id > r.id}) >= MaxPending - 1
         /\ recorded' = recorded + 1

CutoffApplied == opened /\ opened' /\ due > 0 /\ due' = 0 => \A row \in rows' : row.at >= due

StepOK == RecordsInv' /\ WaitOn /\ CutoffApplied

LEMMA TableGrows ==
  ASSUME NEW table, NEW lost, NEW n \in Nat, TableOK(table, lost, n)
  PROVE  TableOK(table, lost, n + 1)
BY DEF TableOK

\* A save of all that waits, and of what is merged with it.
LEMMA WriteStep ==
  ASSUME RecordsInv, NEW n \in Nat, n \in {recorded, recorded + 1}, recorded' = n,
         NEW changes, ChangesOK(changes, n), Apart(Pending(changes), rows, gone),
         due <= changes.cutoff, Write(changes),
         \A kind \in {"normal", "failed"} : \A r \in ToSet(dirty[kind]) :
           r \in Pending(changes) \/ Dropped(kind, r),
         clock' = clock, opened' = opened, retention' \in Retentions
  PROVE  StepOK
<1>1. TableOK(rows, gone, n) /\ due \in Nat /\ changes.cutoff \in Nat
  BY TableGrows DEF RecordsInv, ChangesOK, Changes
<1> DEFINE kept(at) == changes.cutoff = 0 \/ at >= changes.cutoff
<1>2. rows' = Saved(rows, changes) /\ dirty' = NoChanges /\ due' = 0
  BY DEF Write
<1>3. /\ rows' \subseteq Record
      /\ \A row \in rows' :
           /\ kept(row.at)
           /\ row \in rows \/ \E r \in Pending(changes) : row.id = r.id /\ row.at = r.at
      /\ \A row, other \in rows' : row.id = other.id => row = other
  BY <1>1, <1>2, SavedRows
<1>4. \A id : id \in gone' <=>
              \/ id \in gone
              \/ /\ \E row \in rows \cup Pending(changes) : id = row.id
                 /\ \A row \in rows' : row.id # id
  BY DEF Write, Expired, Pending
<1>5. \A r \in Pending(changes) : r.id \in 1 .. n
  <2>1. changes.normal \in Seq(Record) /\ changes.failed \in Seq(Record)
    BY DEF ChangesOK, Changes
  <2>2. DOMAIN changes.normal = 1 .. Len(changes.normal) /\ DOMAIN changes.failed = 1 .. Len(changes.failed)
    BY <2>1, LenProperties
  <2> QED
    BY <2>2 DEF ChangesOK, QueueOK, Pending, ToSet
<1>6. TableOK(rows', gone', n)
  <2>1. \A row \in rows' : row.id \in 1 .. n /\ row.id \notin gone
    BY <1>1, <1>3, <1>5 DEF TableOK, Apart
  <2>2. \A row \in rows' : row.id \notin gone'
    BY <1>4, <2>1
  <2>3. ASSUME NEW id \in gone' PROVE id \in 1 .. n
    <3>1. id \in gone \/ \E row \in rows \cup Pending(changes) : id = row.id
      BY <1>4
    <3> QED
      BY <1>1, <1>5, <3>1 DEF TableOK
  <2> QED
    BY <1>3, <2>1, <2>2, <2>3 DEF TableOK
<1>7. RecordsInv'
  <2>1. ClockOK' /\ retention' \in Retentions /\ opened' \in BOOLEAN
    BY DEF RecordsInv, ClockOK
  <2>2. ChangesOK(dirty', n) /\ Apart(Pending(dirty'), rows', gone')
    BY <1>2, NothingWaits DEF Apart
  <2>3. due' <= dirty'.cutoff
    BY <1>2 DEF NoChanges
  <2> QED
    BY <1>2, <1>6, <2>1, <2>2, <2>3 DEF RecordsInv
<1>8. \A r \in Pending(changes) : r.id \in gone' \/ \E row \in rows' : row.id = r.id
  BY <1>4
<1>9. WaitOn
  BY <1>8 DEF WaitOn, Dropped
<1>10. CutoffApplied
  <2> SUFFICES ASSUME due > 0, NEW row \in rows' PROVE row.at >= due
    BY DEF CutoffApplied
  <2>1. row.at >= changes.cutoff
    BY <1>1, <1>3
  <2>2. row.at \in Int
    BY <1>3 DEF Record
  <2> QED
    BY <1>1, <2>1, <2>2
<1> QED
  BY <1>7, <1>9, <1>10 DEF StepOK

\* A step that saves nothing.
LEMMA KeepStep ==
  ASSUME RecordsInv, NEW n \in Nat, n \in {recorded, recorded + 1}, recorded' = n,
         ChangesOK(dirty', n), Apart(Pending(dirty'), rows, gone),
         rows' = rows, gone' = gone, due' \in Nat, due' <= dirty'.cutoff, due' = 0 => due = 0,
         \A kind \in {"normal", "failed"} : \A r \in ToSet(dirty[kind]) :
           r \in ToSet(dirty'[kind]) \/ Dropped(kind, r),
         clock' = clock, opened' = opened, retention' \in Retentions,
         ~opened => dirty' = NoChanges /\ due' = 0
  PROVE  StepOK
<1>1. TableOK(rows, gone, n)
  BY TableGrows DEF RecordsInv
<1>2. RecordsInv'
  <2>1. ClockOK' /\ retention' \in Retentions /\ opened' \in BOOLEAN
    BY DEF RecordsInv, ClockOK
  <2> QED
    BY <1>1, <2>1 DEF RecordsInv
<1>3. WaitOn
  BY DEF WaitOn, Dropped
<1>4. CutoffApplied
  BY DEF CutoffApplied, RecordsInv
<1> QED
  BY <1>2, <1>3, <1>4 DEF StepOK

\* What waits, and what it says of the queues of both kinds.
LEMMA WaitingParts ==
  ASSUME NEW n \in Nat, NEW changes, ChangesOK(changes, n)
  PROVE  /\ changes.normal \in Seq(Record) /\ changes.failed \in Seq(Record) /\ changes.cutoff \in Nat
         /\ \A kind \in {"normal", "failed"} : changes[kind] \in Seq(Record) /\ QueueOK(changes[kind], n)
         /\ \A kind \in {"normal", "failed"} : ToSet(changes[kind]) \subseteq Pending(changes)
BY DEF ChangesOK, Changes, Pending

LEMMA RecordUsageStep ==
  ASSUME RecordsInv, NEW failed \in BOOLEAN, NEW at \in Int, NEW ok \in BOOLEAN,
         RecordUsage(failed, at, ok)
  PROVE  StepOK
<1> DEFINE record == [id |-> recorded + 1, at |-> at, failed |-> failed, copy |-> 0]
           next == [normal |-> IF failed THEN <<>> ELSE <<record>>,
                    failed |-> IF failed THEN <<record>> ELSE <<>>,
                    cutoff |-> Cutoff(retention, clock)]
           n == recorded + 1
           merged == Merged(dirty, next)
<1>1. recorded \in Nat /\ n \in Nat /\ due \in Nat /\ ChangesOK(dirty, recorded) /\ recorded' = n
  BY DEF RecordsInv, RecordUsage
<1>2. record \in Record /\ record.id = n
  BY <1>1 DEF Record
<1>3. Cutoff(retention, clock) \in Nat
  BY CutoffIsInstant DEF RecordsInv
<1>4. /\ next.cutoff = Cutoff(retention, clock)
      /\ next.normal = IF failed THEN <<>> ELSE <<record>>
      /\ next.failed = IF failed THEN <<record>> ELSE <<>>
      /\ next = [normal |-> next.normal, failed |-> next.failed, cutoff |-> next.cutoff]
  OBVIOUS
<1> HIDE DEF record
<1>5. next \in Changes
  <2>1. next.normal \in Seq(Record) /\ next.failed \in Seq(Record)
    BY <1>2, <1>4, EmptySeq
  <2> HIDE DEF next
  <2> QED
    BY <1>3, <1>4, <2>1 DEF Changes
<1>6. /\ ChangesOK(merged, n)
      /\ Pending(merged) \subseteq Pending(dirty) \cup {record}
      /\ dirty.cutoff <= merged.cutoff /\ next.cutoff <= merged.cutoff
  <2> HIDE DEF next, merged, n
  <2>1. \/ next.normal = <<record>> /\ next.failed = <<>>
        \/ next.normal = <<>> /\ next.failed = <<record>>
    BY <1>4
  <2>2. record.id = recorded + 1
    BY <1>2 DEF n
  <2> QED
    BY <1>1, <1>2, <1>5, <2>1, <2>2, MergedRecord DEF merged, n
<1>7. Apart(Pending(merged), rows, gone)
  <2>1. record.id \notin gone /\ \A row \in rows : row.id # record.id
    BY <1>1, <1>2 DEF RecordsInv, TableOK
  <2> HIDE DEF merged
  <2> QED
    BY <1>6, <2>1 DEF RecordsInv, Apart
<1>8. \A kind \in {"normal", "failed"} : \A r \in ToSet(dirty[kind]) : r \in ToSet(merged[kind]) \/ Dropped(kind, r)
  <2> SUFFICES ASSUME NEW kind \in {"normal", "failed"}, NEW r \in ToSet(dirty[kind])
               PROVE  r \in ToSet(merged[kind]) \/ Dropped(kind, r)
    OBVIOUS
  <2>1. dirty[kind] \in Seq(Record) /\ QueueOK(dirty[kind], recorded)
    BY <1>1, WaitingParts
  <2>2. PICK i \in 1 .. Len(dirty[kind]) : r = dirty[kind][i]
    BY <2>1, LenProperties DEF ToSet
  <2>6. merged[kind] = Latest(dirty[kind] \o next[kind])
    <3> HIDE DEF next, Latest
    <3>1. merged.normal = Latest(dirty.normal \o next.normal) /\ merged.failed = Latest(dirty.failed \o next.failed)
      BY DEF Merged
    <3> HIDE DEF merged
    <3>2. CASE kind = "normal"
      BY <3>1, <3>2
    <3>3. CASE kind = "failed"
      BY <3>1, <3>3
    <3> QED
      BY <3>2, <3>3
  <2> HIDE DEF merged, next
  <2>3. CASE next[kind] = <<record>>
    <3>1. merged[kind] = Latest(dirty[kind] \o <<record>>)
      BY <2>3, <2>6
    <3>2. \/ dirty[kind][i] \in ToSet(Latest(dirty[kind] \o <<record>>))
          \/ Cardinality({u \in ToSet(dirty[kind]) : u.id > dirty[kind][i].id}) >= MaxPending - 1
      BY <1>1, <1>2, <2>1, QueueDrops
    <3> QED
      BY <1>1, <2>2, <3>1, <3>2 DEF Dropped
  <2>4. CASE next[kind] = <<>>
    <3>1. merged[kind] = Latest(dirty[kind] \o <<>>)
      BY <2>4, <2>6
    <3>2. dirty[kind] \o <<>> = dirty[kind]
      BY <2>1, ConcatEmptySeq
    <3>3. Latest(dirty[kind]) = dirty[kind]
      BY <2>1, LatestOfFew DEF QueueOK
    <3> QED
      BY <3>1, <3>2, <3>3
  <2>5. next[kind] \in {<<>>, <<record>>}
    BY <1>4
  <2> QED
    BY <2>3, <2>4, <2>5
<1>9. \/ ~opened /\ UNCHANGED <<dirty, rows, gone, due>>
      \/ opened /\ Write(merged)
      \/ opened /\ dirty' = merged /\ due' = Max({due, next.cutoff}) /\ UNCHANGED <<rows, gone>>
  BY DEF RecordUsage, Unsaved, record
<1>10. UNCHANGED <<clock, retention, opened>> /\ retention \in Retentions
  BY DEF RecordUsage, RecordsInv
<1>11. due <= dirty.cutoff /\ (~opened => dirty = NoChanges /\ due = 0)
  BY DEF RecordsInv
<1>12. dirty.cutoff \in Nat /\ next.cutoff \in Nat /\ merged.cutoff \in Nat
  <2> HIDE DEF merged, next
  <2> QED
    BY <1>1, <1>6, <1>5, WaitingParts DEF Changes
<1> HIDE DEF merged, next, n
<1>13. CASE ~opened /\ UNCHANGED <<dirty, rows, gone, due>>
  <2>1. ChangesOK(dirty', n) /\ Pending(dirty') = {} /\ dirty' = NoChanges
    BY <1>1, <1>11, <1>13, NothingWaits
  <2>2. \A kind \in {"normal", "failed"} : \A r \in ToSet(dirty[kind]) : r \in ToSet(dirty'[kind])
    BY <1>13
  <2>3. Apart(Pending(dirty'), rows, gone)
    BY <2>1 DEF Apart
  <2> QED
    BY <1>1, <1>10, <1>11, <1>13, <2>1, <2>2, <2>3, KeepStep DEF n
<1>14. CASE opened /\ Write(merged)
  <2>1. \A kind \in {"normal", "failed"} : ToSet(merged[kind]) \subseteq Pending(merged)
    BY <1>1, <1>6, WaitingParts
  <2>2. due <= merged.cutoff
    BY <1>1, <1>6, <1>11, <1>12
  <2> QED
    BY <1>1, <1>6, <1>7, <1>8, <1>10, <1>14, <2>1, <2>2, WriteStep DEF n
<1>15. CASE opened /\ dirty' = merged /\ due' = Max({due, next.cutoff}) /\ UNCHANGED <<rows, gone>>
  <2>1. due' \in Nat /\ due' = IF due <= next.cutoff THEN next.cutoff ELSE due
    BY <1>1, <1>12, <1>15, PairMax
  <2>2. due' <= dirty'.cutoff /\ (due' = 0 => due = 0)
    BY <1>1, <1>6, <1>11, <1>12, <1>15, <2>1
  <2> QED
    BY <1>1, <1>6, <1>7, <1>8, <1>10, <1>15, <2>1, <2>2, KeepStep DEF n
<1> QED
  BY <1>9, <1>13, <1>14, <1>15

\* What waits is merged with a change that has no records.
LEMMA CutoffMerged ==
  ASSUME RecordsInv, NEW cutoff \in Nat, NEW next,
         next = [normal |-> <<>>, failed |-> <<>>, cutoff |-> cutoff]
  PROVE  /\ ChangesOK(Merged(dirty, next), recorded)
         /\ Pending(Merged(dirty, next)) = Pending(dirty)
         /\ due <= Merged(dirty, next).cutoff
         /\ cutoff = 0 => Merged(dirty, next) = dirty
         /\ \A kind \in {"normal", "failed"} : ToSet(dirty[kind]) \subseteq Pending(Merged(dirty, next))
<1> DEFINE merged == Merged(dirty, next)
<1>1. ChangesOK(dirty, recorded) /\ recorded \in Nat /\ due \in Nat /\ due <= dirty.cutoff
  BY DEF RecordsInv
<1>2. next \in Changes /\ next.normal = <<>> /\ next.failed = <<>> /\ next.cutoff = cutoff
  BY EmptySeq DEF Changes
<1>3. /\ ChangesOK(merged, recorded)
      /\ merged.normal = dirty.normal /\ merged.failed = dirty.failed
      /\ dirty.cutoff <= merged.cutoff
      /\ next.cutoff = 0 => merged = dirty
  BY <1>1, <1>2, MergedCutoff
<1> HIDE DEF merged
<1>4. dirty.cutoff \in Nat /\ merged.cutoff \in Nat
  BY <1>1, <1>3, WaitingParts
<1>5. Pending(merged) = Pending(dirty)
  BY <1>3 DEF Pending
<1>6. \A kind \in {"normal", "failed"} : ToSet(dirty[kind]) \subseteq Pending(dirty)
  BY <1>1, WaitingParts
<1>7. due <= merged.cutoff
  BY <1>1, <1>3, <1>4
<1> QED
  BY <1>2, <1>3, <1>5, <1>6, <1>7 DEF merged

\* A step that changes nothing but the retention or the clock of what is kept.
LEMMA IdleStep ==
  ASSUME RecordsInv, UNCHANGED <<clock, opened, dirty, rows, recorded, gone, due>>, retention' \in Retentions
  PROVE  StepOK
<1>1. /\ recorded \in Nat /\ ChangesOK(dirty, recorded) /\ Apart(Pending(dirty), rows, gone)
      /\ due \in Nat /\ due <= dirty.cutoff /\ (~opened => dirty = NoChanges /\ due = 0)
  BY DEF RecordsInv
<1> QED
  BY <1>1, KeepStep

LEMMA EditStep ==
  ASSUME RecordsInv, NEW ok \in BOOLEAN, Edit(ok)
  PROVE  StepOK
<1>1. /\ ChangesOK(Merged(dirty, NoChanges), recorded)
      /\ Pending(Merged(dirty, NoChanges)) = Pending(dirty)
      /\ due <= Merged(dirty, NoChanges).cutoff
      /\ \A kind \in {"normal", "failed"} : ToSet(dirty[kind]) \subseteq Pending(Merged(dirty, NoChanges))
  BY CutoffMerged DEF NoChanges
<1>2. recorded \in Nat /\ Apart(Pending(dirty), rows, gone) /\ retention \in Retentions
  BY DEF RecordsInv
<1>3. CASE ok
  <2>1. Write(Merged(dirty, NoChanges)) /\ UNCHANGED <<clock, retention, opened, recorded>>
    BY <1>3 DEF Edit
  <2> QED
    BY <1>1, <1>2, <2>1, WriteStep
<1>4. CASE ~ok
  BY <1>2, <1>4, IdleStep DEF Edit
<1> QED
  BY <1>3, <1>4

LEMMA SetRetentionStep ==
  ASSUME RecordsInv, NEW days \in Retentions, NEW ok \in BOOLEAN, SetRetention(days, ok)
  PROVE  StepOK
<1> DEFINE next == [NoChanges EXCEPT !.cutoff = Cutoff(days, clock)]
<1>1. Cutoff(days, clock) \in Nat
  BY CutoffIsInstant DEF RecordsInv
<1>2. next = [normal |-> <<>>, failed |-> <<>>, cutoff |-> Cutoff(days, clock)]
  BY DEF NoChanges
<1>3. recorded \in Nat /\ Apart(Pending(dirty), rows, gone) /\ retention \in Retentions
  BY DEF RecordsInv
<1>4. CASE ok
  <2>1. Write(Merged(dirty, next)) /\ retention' = days /\ UNCHANGED <<clock, opened, recorded>>
    BY <1>4 DEF SetRetention
  <2> HIDE DEF next
  <2>2. /\ ChangesOK(Merged(dirty, next), recorded)
        /\ Pending(Merged(dirty, next)) = Pending(dirty)
        /\ due <= Merged(dirty, next).cutoff
        /\ \A kind \in {"normal", "failed"} : ToSet(dirty[kind]) \subseteq Pending(Merged(dirty, next))
    BY <1>1, <1>2, CutoffMerged
  <2> QED
    BY <1>3, <2>1, <2>2, WriteStep
<1>5. CASE ~ok
  BY <1>3, <1>5, IdleStep DEF SetRetention
<1> QED
  BY <1>4, <1>5

\* What waits is saved, and of it and of the rows what is old enough is deleted.
LEMMA ClearRequestEventsStep ==
  ASSUME RecordsInv, NEW days \in Ages, NEW saved \in BOOLEAN, NEW ok \in BOOLEAN,
         ClearRequestEvents(days, saved, ok)
  PROVE  StepOK
<1> DEFINE before == Cutoff(days, clock)
           flushed == Saved(rows, dirty)
           cleared(table) == {r \in table : before = 0 \/ r.at < before}
<1>1. Merged(dirty, NoChanges) = dirty
  BY CutoffMerged DEF NoChanges
<1>2. Flushed(dirty) = dirty
  BY <1>1 DEF Flushed
<1>3. /\ recorded \in Nat /\ Apart(Pending(dirty), rows, gone) /\ retention \in Retentions
      /\ ChangesOK(dirty, recorded) /\ TableOK(rows, gone, recorded) /\ due \in Nat /\ due <= dirty.cutoff
  BY DEF RecordsInv
<1>4. opened /\ UNCHANGED <<clock, retention, opened, recorded>>
  BY DEF ClearRequestEvents
<1>5. \A kind \in {"normal", "failed"} : ToSet(dirty[kind]) \subseteq Pending(dirty)
  BY <1>3, WaitingParts
<1>6. CASE saved /\ ~ok
  <2>1. Write(dirty)
    BY <1>2, <1>4, <1>6 DEF ClearRequestEvents
  <2> QED
    BY <1>3, <1>4, <1>5, <2>1, WriteStep
<1>7. CASE ~saved
  BY <1>3, <1>4, <1>7, IdleStep DEF ClearRequestEvents
<1>8. CASE saved /\ ok
  <2> DEFINE kept(at) == dirty.cutoff = 0 \/ at >= dirty.cutoff
             clears(at) == before = 0 \/ at < before
  <2>1. /\ rows' = flushed \ cleared(flushed)
        /\ gone' = gone \cup Expired(dirty) \cup {r.id : r \in cleared(rows \cup Waiting)}
        /\ dirty' = IF dirty = NoChanges THEN dirty ELSE NoChanges
        /\ due' = 0
    BY <1>2, <1>4, <1>8 DEF ClearRequestEvents
  <2>2. /\ flushed \subseteq Record
        /\ \A row \in flushed :
             /\ kept(row.at)
             /\ row \in rows \/ \E r \in Pending(dirty) : row.id = r.id /\ row.at = r.at
        /\ \A row, other \in flushed : row.id = other.id => row = other
        /\ \A r \in Pending(dirty) : kept(r.at) => \E row \in flushed : row.id = r.id
    BY <1>3, SavedRows
  <2>3. Waiting = Pending(dirty)
    BY DEF Waiting, Pending
  <2> HIDE DEF flushed
  <2>4. \A row : row \in rows' <=> row \in flushed /\ ~clears(row.at)
    BY <2>1
  <2>5. \A id : id \in gone' <=>
              \/ id \in gone
              \/ /\ \E r \in rows \cup Pending(dirty) : id = r.id
                 /\ \A row \in flushed : row.id # id
              \/ \E r \in rows \cup Pending(dirty) : clears(r.at) /\ id = r.id
    <3>1. \A id : id \in Expired(dirty) <=>
                   /\ \E r \in rows \cup Pending(dirty) : id = r.id
                   /\ \A row \in flushed : row.id # id
      BY DEF Expired, Pending, flushed
    <3>2. \A r : r \in cleared(rows \cup Waiting) <=> r \in rows \cup Pending(dirty) /\ clears(r.at)
      BY <2>3
    <3> HIDE DEF cleared, clears
    <3> QED
      BY <2>1, <3>1, <3>2
  <2>6. dirty' = NoChanges
    BY <2>1
  <2>7. \A r \in Pending(dirty) : r.id \in 1 .. recorded
    <3>1. /\ DOMAIN dirty.normal = 1 .. Len(dirty.normal) /\ DOMAIN dirty.failed = 1 .. Len(dirty.failed)
      BY <1>3, WaitingParts, LenProperties
    <3> QED
      BY <1>3, <3>1 DEF ChangesOK, QueueOK, Pending, ToSet
  <2> HIDE DEF clears, kept
  <2>8. \A row \in rows' : row.id \in 1 .. recorded /\ row.id \notin gone'
    <3> SUFFICES ASSUME NEW row \in rows'
                 PROVE  row.id \in 1 .. recorded /\ row.id \notin gone'
      OBVIOUS
    <3>1. row \in flushed /\ ~clears(row.at)
      BY <2>4
    <3>2. CASE row \in rows
      <4>1. row.id \in 1 .. recorded /\ row.id \notin gone
        BY <1>3, <3>2 DEF TableOK
      <4>2. \A r \in rows : r.id = row.id => r = row
        BY <1>3, <3>2 DEF TableOK
      <4>3. \A r \in Pending(dirty) : r.id # row.id
        BY <1>3, <3>2 DEF Apart
      <4> QED
        BY <2>5, <3>1, <4>1, <4>2, <4>3
    <3>3. ASSUME NEW p \in Pending(dirty), row.id = p.id, row.at = p.at
          PROVE  row.id \in 1 .. recorded /\ row.id \notin gone'
      <4>1. row.id \in 1 .. recorded /\ row.id \notin gone
        BY <1>3, <2>7, <3>3 DEF Apart
      <4>2. \A r \in rows : r.id # row.id
        BY <1>3, <3>3 DEF Apart
      <4>3. \A r \in Pending(dirty) : r.id = row.id => r.at = row.at
        <5>1. dirty.normal \in Seq(Record) /\ dirty.failed \in Seq(Record)
          BY <1>3, WaitingParts
        <5>2. /\ Len(dirty.normal) \in Nat /\ DOMAIN dirty.normal = 1 .. Len(dirty.normal)
              /\ Len(dirty.failed) \in Nat /\ DOMAIN dirty.failed = 1 .. Len(dirty.failed)
          BY <5>1, LenProperties
        <5>3. \A r, s \in ToSet(dirty.normal) : r.id = s.id => r = s
          BY <1>3, <5>2 DEF ChangesOK, QueueOK, ToSet
        <5>4. \A r, s \in ToSet(dirty.failed) : r.id = s.id => r = s
          BY <1>3, <5>2 DEF ChangesOK, QueueOK, ToSet
        <5>5. \A r \in ToSet(dirty.normal), s \in ToSet(dirty.failed) : r.id # s.id
          BY <1>3 DEF ChangesOK
        <5> QED
          BY <3>3, <5>3, <5>4, <5>5 DEF Pending
      <4> QED
        BY <2>5, <3>1, <4>1, <4>2, <4>3
    <3> QED
      BY <2>2, <3>1, <3>2, <3>3
  <2>9. TableOK(rows', gone', recorded)
    <3>1. ASSUME NEW id \in gone' PROVE id \in 1 .. recorded
      <4>1. id \in gone \/ \E r \in rows \cup Pending(dirty) : id = r.id
        BY <2>5
      <4> QED
        BY <1>3, <2>7, <4>1 DEF TableOK
    <3> QED
      BY <2>2, <2>4, <2>8, <3>1 DEF TableOK
  <2>10. RecordsInv'
    <3>1. ClockOK' /\ retention' \in Retentions /\ opened' \in BOOLEAN
      BY <1>4 DEF RecordsInv, ClockOK
    <3>2. ChangesOK(dirty', recorded') /\ Apart(Pending(dirty'), rows', gone')
      BY <1>3, <1>4, <2>6, NothingWaits DEF Apart
    <3>3. due' <= dirty'.cutoff
      BY <2>1, <2>6 DEF NoChanges
    <3> QED
      BY <1>3, <1>4, <2>1, <2>6, <2>9, <3>1, <3>2, <3>3 DEF RecordsInv
  <2>11. WaitOn
    <3> SUFFICES ASSUME NEW r \in Pending(dirty)
                 PROVE  r.id \in gone' \/ \E row \in rows' : row.id = r.id
      BY <2>3 DEF WaitOn
    <3>1. CASE \A row \in flushed : row.id # r.id
      BY <2>5, <3>1
    <3>2. ASSUME NEW row \in flushed, row.id = r.id
          PROVE  r.id \in gone' \/ row \in rows'
      <4>1. PICK p \in rows \cup Pending(dirty) : row.id = p.id /\ row.at = p.at
        BY <2>2
      <4> QED
        BY <2>4, <2>5, <3>2, <4>1
    <3> QED
      BY <3>1, <3>2
  <2>12. CutoffApplied
    <3> SUFFICES ASSUME due > 0, NEW row \in rows' PROVE row.at >= due
      BY DEF CutoffApplied
    <3>1. row.at \in Int /\ dirty.cutoff \in Nat
      BY <1>3, <2>2, <2>4, WaitingParts DEF Record
    <3>2. kept(row.at)
      BY <2>2, <2>4
    <3> QED
      BY <1>3, <3>1, <3>2 DEF kept
  <2> QED
    BY <2>10, <2>11, <2>12 DEF StepOK
<1> QED
  BY <1>6, <1>7, <1>8

\* What waits is lost with the process, and the rows stay.
LEMMA CloseStoreStep ==
  ASSUME RecordsInv, CloseStore
  PROVE  StepOK
<1>1. recorded \in Nat /\ TableOK(rows, gone, recorded) /\ retention \in Retentions /\ ClockOK
  BY DEF RecordsInv
<1>2. /\ opened' = FALSE /\ dirty' = NoChanges /\ due' = 0
      /\ UNCHANGED <<clock, retention, rows, recorded, gone>>
  BY DEF CloseStore
<1>3. ChangesOK(dirty', recorded') /\ Apart(Pending(dirty'), rows', gone') /\ due' <= dirty'.cutoff
  BY <1>1, <1>2, NothingWaits DEF Apart, NoChanges
<1>4. ClockOK'
  BY <1>1, <1>2 DEF ClockOK
<1>5. RecordsInv'
  BY <1>1, <1>2, <1>3, <1>4 DEF RecordsInv
<1> QED
  BY <1>2, <1>5 DEF StepOK, WaitOn, CutoffApplied

\* The rows a database loses before it is loaded are rows it had.
LEMMA PruneAtLoadStep ==
  ASSUME RecordsInv, NEW days \in Retentions, PruneAtLoad(days)
  PROVE  StepOK
<1>1. recorded \in Nat /\ TableOK(rows, gone, recorded) /\ ClockOK /\ dirty = NoChanges /\ due = 0
  BY DEF RecordsInv, PruneAtLoad
<1>2. /\ opened = FALSE /\ opened' = FALSE /\ retention' = days
      /\ rows' \subseteq rows
      /\ gone' = gone \cup {r.id : r \in rows \ rows'}
      /\ UNCHANGED <<clock, dirty, recorded, due>>
  BY DEF PruneAtLoad, Pruned, RecordsInv
<1>3. ChangesOK(dirty', recorded') /\ Apart(Pending(dirty'), rows', gone') /\ due' <= dirty'.cutoff
  BY <1>1, <1>2, NothingWaits DEF Apart, NoChanges
<1>4. TableOK(rows', gone', recorded')
  BY <1>1, <1>2 DEF TableOK
<1>5. RecordsInv'
  BY <1>1, <1>2, <1>3, <1>4 DEF RecordsInv, ClockOK
<1> QED
  BY <1>2, <1>5 DEF StepOK, WaitOn, CutoffApplied

LEMMA OpenStep ==
  ASSUME RecordsInv, Open
  PROVE  StepOK
<1>1. recorded \in Nat /\ TableOK(rows, gone, recorded) /\ retention \in Retentions /\ ClockOK
      /\ dirty = NoChanges /\ due = 0
  BY DEF RecordsInv, Open
<1>2. opened = FALSE /\ opened' = TRUE /\ UNCHANGED <<clock, retention, dirty, rows, recorded, gone, due>>
  BY DEF Open, RecordsInv
<1>3. ChangesOK(dirty', recorded') /\ Apart(Pending(dirty'), rows', gone') /\ due' <= dirty'.cutoff
  BY <1>1, <1>2, NothingWaits DEF Apart, NoChanges
<1>4. ClockOK'
  BY <1>1, <1>2 DEF ClockOK
<1>5. RecordsInv'
  BY <1>1, <1>2, <1>3, <1>4 DEF RecordsInv
<1> QED
  BY <1>2, <1>5 DEF StepOK, WaitOn, CutoffApplied

LEMMA TickStep ==
  ASSUME RecordsInv, Tick
  PROVE  StepOK
<1>1. UNCHANGED <<retention, opened, dirty, rows, recorded, gone, due>> /\ clock' = clock + 1
  BY DEF Tick
<1>2. ClockOK'
  BY <1>1, RequestRecordsAssumption DEF RecordsInv, ClockOK
<1>3. RecordsInv'
  BY <1>1, <1>2 DEF RecordsInv
<1> QED
  BY <1>1, <1>3 DEF StepOK, WaitOn, CutoffApplied

\* What is done with records.
LEMMA UseRecordsStep ==
  ASSUME RecordsInv, UseRecords
  PROVE  StepOK
<1>1. \A at \in clock - MaxDelay .. clock : at \in Int
  BY RequestRecordsAssumption DEF RecordsInv, ClockOK
<1>2. ASSUME NEW failed \in BOOLEAN, NEW ok \in BOOLEAN, NEW at \in clock - MaxDelay .. clock,
             RecordUsage(failed, at, ok)
      PROVE  StepOK
  BY <1>1, <1>2, RecordUsageStep
<1>3. ASSUME NEW ok \in BOOLEAN, Edit(ok) PROVE StepOK
  BY <1>3, EditStep
<1>4. ASSUME NEW days \in Ages, NEW saved \in BOOLEAN, NEW ok \in BOOLEAN, ClearRequestEvents(days, saved, ok)
      PROVE  StepOK
  BY <1>4, ClearRequestEventsStep
<1>5. ASSUME NEW days \in Retentions, NEW ok \in BOOLEAN, SetRetention(days, ok) PROVE StepOK
  BY <1>5, SetRetentionStep
<1> QED
  BY <1>2, <1>3, <1>4, <1>5 DEF UseRecords

LEMMA StartRecordsOK ==
  ASSUME NEW n \in {0, 1}, StartRecords(n)
  PROVE  RecordsInv
<1> DEFINE Days == Retentions \cup Ages \cup {MaxDelay}
<1>1. Days \in SUBSET Nat /\ IsFiniteSet(Days) /\ Days # {}
  BY RequestRecordsAssumption, FS_AddElement
<1>2. Max(Days) \in Nat /\ \A days \in Days : days <= Max(Days)
  BY <1>1, FiniteMax
<1>3. clock = Max(Days) + 1
  BY DEF StartRecords
<1>4. clock \in Nat /\ \A days \in Days : days < clock
  <2> HIDE DEF Days
  <2> QED
    BY <1>1, <1>2, <1>3
<1>5. ClockOK
  BY <1>4 DEF ClockOK
<1>6. /\ retention \in Retentions /\ opened = FALSE /\ dirty = NoChanges /\ recorded = n /\ gone = {} /\ due = 0
      /\ rows = {[id |-> i, at |-> clock - 1, failed |-> FALSE, copy |-> 0] : i \in 1 .. n}
  BY DEF StartRecords
<1>7. TableOK(rows, gone, recorded)
  <2>1. ASSUME NEW row \in rows PROVE row \in Record /\ n = 1 /\ row = [id |-> 1, at |-> clock - 1, failed |-> FALSE, copy |-> 0]
    <3>1. PICK i \in 1 .. n : row = [id |-> i, at |-> clock - 1, failed |-> FALSE, copy |-> 0]
      BY <1>6
    <3>2. n = 1 /\ i = 1
      OBVIOUS
    <3> QED
      BY <1>4, <3>1, <3>2 DEF Record
  <2>2. recorded = n /\ gone = {}
    BY <1>6
  <2>3. \A row \in rows : row.id = 1
    BY <2>1
  <2>4. \A row, other \in rows : row = other
    BY <2>1
  <2> QED
    BY <2>1, <2>2, <2>3, <2>4 DEF TableOK
<1>8. ChangesOK(dirty, recorded) /\ Apart(Pending(dirty), rows, gone) /\ due <= dirty.cutoff
  BY <1>6, NothingWaits DEF Apart, NoChanges
<1>9. /\ retention \in Retentions /\ opened \in BOOLEAN /\ recorded \in Nat /\ due \in Nat
      /\ dirty = NoChanges /\ due = 0
  <2>1. retention \in Retentions /\ opened = FALSE /\ dirty = NoChanges /\ recorded = n /\ due = 0
    BY <1>6
  <2>2. opened \in BOOLEAN
    BY <2>1, Zenon
  <2>3. recorded \in Nat /\ due \in Nat
    BY <2>1
  <2> QED
    BY <2>1, <2>2, <2>3
<1> QED
  BY <1>5, <1>7, <1>8, <1>9 DEF RecordsInv

----------------------------------------------------------------------------
(* The records in databases of any kind *)

\* Only loading, work and the end of the process touch what is recorded.
LEMMA DatabasesStep ==
  ASSUME RecordsInv, [NextDatabases]_<<vars, dbVars>>
  PROVE  StepOK \/ (RecordsInv' /\ UNCHANGED vars)
<1>1. CASE UNCHANGED vars
  <2>1. RecordsInv'
    BY <1>1 DEF vars, RecordsInv, ClockOK
  <2> QED
    BY <1>1, <2>1
<1>2. ASSUME NEW days \in Retentions, Prune(days) PROVE StepOK
  BY <1>2, PruneAtLoadStep DEF Prune
<1>3. CASE Load
  BY <1>3, OpenStep DEF Load
<1>4. CASE Shutdown
  BY <1>4, CloseStoreStep DEF Shutdown
<1>5. CASE Work
  BY <1>5, UseRecordsStep, TickStep DEF Work
<1>6. CASE Begin \/ Unsupported \/ MigrateStep \/ StepRefused \/ CommitMigration \/ IndexesRefused
             \/ LoadRefused \/ Interrupted
  <2>1. UNCHANGED vars
    BY <1>6 DEF Begin, Unsupported, MigrateStep, StepRefused, CommitMigration, IndexesRefused,
                LoadRefused, Interrupted, Refuse
  <2> QED
    BY <1>1, <2>1
<1> QED
  BY <1>1, <1>2, <1>3, <1>4, <1>5, <1>6 DEF NextDatabases

\* The strengthened invariant holds of the records of every database.
THEOREM RecordsInvariant == DatabasesSpec => []RecordsInv
<1>1. InitDatabases => RecordsInv
  <2> SUFFICES ASSUME InitDatabases PROVE RecordsInv
    OBVIOUS
  <2>1. StartRecords(IF file.version \in Migratable THEN 1 ELSE 0)
    BY DEF InitDatabases
  <2> QED
    BY <2>1, StartRecordsOK
<1>2. RecordsInv /\ [NextDatabases]_<<vars, dbVars>> => RecordsInv'
  BY DatabasesStep DEF StepOK
<1> QED
  BY <1>1, <1>2, PTL DEF DatabasesSpec

\* A record is written once, however many saves fail and whatever is saved next.
THEOREM RecordsWrittenOnce == DatabasesSpec => []WrittenOnce
<1>1. RecordsInv => WrittenOnce
  BY RecordsInvImplies
<1> QED
  BY <1>1, RecordsInvariant, PTL

\* What was cleared, or was too old, does not come back.
THEOREM RecordsGoneForGood == DatabasesSpec => []GoneForGood
<1>1. RecordsInv => GoneForGood
  BY RecordsInvImplies
<1> QED
  BY <1>1, RecordsInvariant, PTL

\* Only a record too many makes the oldest of its kind give way; any other that waits is
\* written, is deleted, or waits on.
THEOREM RecordsWaitOn == DatabasesSpec => LatestWait
<1> DEFINE Step ==
      \A kind \in {"normal", "failed"}, r \in Waiting :
        opened /\ opened' /\ r \in ToSet(dirty[kind]) =>
          \/ r \in ToSet(dirty'[kind]) \/ r.id \in gone' \/ \E row \in rows' : row.id = r.id
          \/ /\ Cardinality({s \in ToSet(dirty[kind]) : s.id > r.id}) >= MaxPending - 1
             /\ recorded' = recorded + 1
<1>1. RecordsInv /\ [NextDatabases]_<<vars, dbVars>> => [Step]_vars
  BY DatabasesStep DEF StepOK, WaitOn
<1> QED
  BY <1>1, RecordsInvariant, PTL DEF DatabasesSpec, LatestWait

\* No row is left that a failed save should have deleted, once any save succeeds.
THEOREM CutoffsApplied == DatabasesSpec => CutoffsKept
<1> DEFINE Step == opened /\ opened' /\ due > 0 /\ due' = 0 => \A row \in rows' : row.at >= due
<1>1. RecordsInv /\ [NextDatabases]_<<vars, dbVars>> => [Step]_vars
  BY DatabasesStep DEF StepOK, CutoffApplied
<1> QED
  BY <1>1, RecordsInvariant, PTL DEF DatabasesSpec, CutoffsKept

----------------------------------------------------------------------------
(* The path of the steps *)

\* What all versions before 12 have in common, once their bindings are of use.
Path ==
  <<"subscriptionPeriods", "modelPricing", "quotaWindows", "credentials", "responseHeaders", "requestErrorReason",
    "upstreamResponseReports", "requestInfo", "executionMetadata", "quotaReports", "clientHeaders",
    "configuredProviders", "credentialNotes", "currencies", "sharedQuotas">>

StepAt(version, p) ==
  IF p = 0 THEN (IF version = 10 THEN "modelGroups" ELSE "legacyRouteBindings") ELSE Path[p]

StepNames == DOMAIN Change

\* Where a version begins.
Place(version) == IF version <= 11 THEN 0 ELSE IF version = 12 THEN 2 ELSE version - 9

\* The path of a version as far as the place q.
PathTo(s, version, q) ==
  /\ s \in Seq(StepNames)
  /\ Len(s) = IF Place(version) <= q THEN q - Place(version) + 1 ELSE 0
  /\ \A i \in 1 .. Len(s) : s[i] = StepAt(version, Place(version) + i - 1)

LEMMA PlaceType ==
  ASSUME NEW v \in Migratable
  PROVE  Place(v) \in 0 .. 15
BY DEF Migratable, SchemaVersion, Place

LEMMA ShortSeqs ==
  ASSUME NEW S, NEW a \in S, NEW b \in S
  PROVE  /\ <<a>> \in Seq(S) /\ Len(<<a>>) = 1
         /\ <<a, b>> \in Seq(S) /\ Len(<<a, b>>) = 2
<1>1. <<a, b>> \in [1 .. 2 -> S]
  OBVIOUS
<1> QED
  BY <1>1, SeqDef

LEMMA PathGrows ==
  ASSUME NEW v \in Migratable, NEW last \in Nat, NEW q \in Nat, NEW n \in Nat, NEW s, PathTo(s, v, q),
         NEW t \in Seq(StepNames), Len(t) = n, \A j \in 1 .. n : t[j] = Path[q + j],
         v <= last => Place(v) <= q + 1, v > last => Place(v) > q + n
  PROVE  PathTo(s \o (IF v <= last THEN t ELSE <<>>), v, q + n)
<1> DEFINE m == Place(v)
<1>1. m \in Nat /\ Len(s) \in Nat /\ s \in Seq(StepNames)
  <2>1. m \in Nat
    BY SMTT(30), PlaceType
  <2>2. s \in Seq(StepNames)
    BY DEF PathTo
  <2> HIDE DEF m
  <2> QED
    BY <2>1, <2>2, LenProperties
<1> HIDE DEF m
<1>2. v <= last \/ v > last
  <2>1. v \in Nat
    BY DEF Migratable, SchemaVersion
  <2> QED
    BY <2>1
<1>3. CASE v <= last
  <2>1. /\ s \o t \in Seq(StepNames) /\ Len(s \o t) = Len(s) + n
        /\ \A i \in 1 .. Len(s) + n : (s \o t)[i] = IF i <= Len(s) THEN s[i] ELSE t[i - Len(s)]
    BY <1>1, ConcatProperties
  <2>2. Len(s) = q - m + 1 /\ m <= q + 1
    BY <1>1, <1>3 DEF PathTo, m
  <2>3. Len(s \o t) = (q + n) - m + 1 /\ (m <= q + n \/ (n = 0 /\ Len(s \o t) = 0))
    BY <1>1, <2>1, <2>2
  <2>4. ASSUME NEW i \in 1 .. Len(s) + n PROVE (s \o t)[i] = StepAt(v, m + i - 1)
    <3>1. CASE i <= Len(s)
      BY <1>1, <2>1, <3>1 DEF PathTo, m
    <3>2. CASE i > Len(s)
      <4>1. i - Len(s) \in 1 .. n /\ m + i - 1 = q + (i - Len(s)) /\ m + i - 1 # 0 /\ ~(i <= Len(s))
        BY <1>1, <2>2, <3>2
      <4> QED
        BY <2>1, <4>1 DEF StepAt
    <3> QED
      BY <1>1, <3>1, <3>2
  <2> QED
    BY <1>1, <1>3, <2>1, <2>3, <2>4 DEF PathTo, m
<1>4. CASE v > last
  <2>1. s \o <<>> = s
    BY <1>1, ConcatEmptySeq
  <2>2. m > q + n
    BY <1>4 DEF m
  <2>3. ~(m <= q) /\ ~(m <= q + n) /\ ~(v <= last)
    BY <1>1, <1>4, <2>2 DEF Migratable, SchemaVersion
  <2> QED
    BY <1>1, <2>1, <2>3 DEF PathTo, m
<1> QED
  BY <1>2, <1>3, <1>4

\* The steps from a version are its path.
LEMMA StepsArePath ==
  ASSUME NEW v \in Migratable
  PROVE  PathTo(StepsFrom(v), v, 15)
<1> DEFINE since(last, steps) == IF v <= last THEN steps ELSE <<>>
           s0 == IF v = 10 THEN <<"modelGroups">> ELSE since(11, <<"legacyRouteBindings">>)
           s1 == s0 \o since(11, <<"subscriptionPeriods">>)
           s3 == s1 \o since(12, <<"modelPricing", "quotaWindows">>)
           s4 == s3 \o since(13, <<"credentials">>)
           s5 == s4 \o since(14, <<"responseHeaders">>)
           s6 == s5 \o since(15, <<"requestErrorReason">>)
           s7 == s6 \o since(16, <<"upstreamResponseReports">>)
           s8 == s7 \o since(17, <<"requestInfo">>)
           s9 == s8 \o since(18, <<"executionMetadata">>)
           s10 == s9 \o since(19, <<"quotaReports">>)
           s11 == s10 \o since(20, <<"clientHeaders">>)
           s12 == s11 \o since(21, <<"configuredProviders">>)
           s13 == s12 \o since(22, <<"credentialNotes">>)
           s14 == s13 \o since(23, <<"currencies">>)
           s15 == s14 \o since(24, <<"sharedQuotas">>)
<1>0. v \in 10 .. 24
  BY DEF Migratable, SchemaVersion
<1>1. StepsFrom(v) = s15
  <2>1. StepsFrom(v) = s14 \o <<"sharedQuotas">>
    BY ZenonT(60) DEF StepsFrom
  <2> HIDE DEF s14
  <2>2. v <= 24
    BY <1>0
  <2> QED
    BY <2>1, <2>2
<1>2. PathTo(s0, v, 0)
  <2> DEFINE first == StepAt(v, 0)
  <2>1. CASE v <= 11
    <3>1. s0 = <<first>> /\ Place(v) = 0
      BY <1>0, <2>1 DEF StepAt, Place
    <3>2. first \in StepNames
      BY DEF StepAt, StepNames, Change
    <3> HIDE DEF s0, first
    <3>3. s0 \in Seq(StepNames) /\ Len(s0) = 1 /\ s0[1] = first
      BY <3>1, <3>2, ShortSeqs
    <3>4. \A i \in 1 .. 1 : s0[i] = StepAt(v, 0 + i - 1)
      BY <3>3 DEF first
    <3> QED
      BY <3>1, <3>3, <3>4 DEF PathTo
  <2>2. CASE v > 11
    <3>1. s0 = <<>> /\ ~(Place(v) <= 0)
      BY <1>0, <2>2 DEF Place
    <3> HIDE DEF s0
    <3> QED
      BY <3>1 DEF PathTo
  <2> QED
    BY <1>0, <2>1, <2>2
<1> HIDE DEF s0, s1, s3, s4, s5, s6, s7, s8, s9, s10, s11, s12, s13, s14, s15
<1>3. PathTo(s1, v, 1)
  <2> DEFINE t == <<"subscriptionPeriods">>
  <2>1. t \in Seq(StepNames) /\ Len(t) = 1
    <3>1. "subscriptionPeriods" \in StepNames
      BY DEF StepNames, Change
    <3> QED
      BY <3>1, ShortSeqs
  <2>2. \A j \in 1 .. 1 : t[j] = Path[0 + j]
    BY DEF Path
  <2>3. s1 = s0 \o (IF v <= 11 THEN t ELSE <<>>)
    BY DEF s1
  <2> HIDE DEF t
  <2>4. (v <= 11 => Place(v) <= 0 + 1) /\ (v > 11 => Place(v) > 0 + 1)
    BY <1>0 DEF Place
  <2>5. PathTo(s1, v, 0 + 1)
    BY <1>2, <2>1, <2>2, <2>3, <2>4, PathGrows
  <2> QED
    BY <2>5
<1>4. PathTo(s3, v, 3)
  <2> DEFINE t == <<"modelPricing", "quotaWindows">>
  <2>1. t \in Seq(StepNames) /\ Len(t) = 2
    <3>1. "modelPricing" \in StepNames /\ "quotaWindows" \in StepNames
      BY DEF StepNames, Change
    <3> QED
      BY <3>1, ShortSeqs
  <2>2. \A j \in 1 .. 2 : t[j] = Path[1 + j]
    BY DEF Path
  <2>3. s3 = s1 \o (IF v <= 12 THEN t ELSE <<>>)
    BY DEF s3
  <2> HIDE DEF t
  <2>4. (v <= 12 => Place(v) <= 1 + 1) /\ (v > 12 => Place(v) > 1 + 2)
    BY <1>0 DEF Place
  <2>5. PathTo(s3, v, 1 + 2)
    BY <1>3, <2>1, <2>2, <2>3, <2>4, PathGrows
  <2> QED
    BY <2>5
<1>5. PathTo(s4, v, 4)
  <2> DEFINE t == <<"credentials">>
  <2>1. t \in Seq(StepNames) /\ Len(t) = 1
    <3>1. "credentials" \in StepNames
      BY DEF StepNames, Change
    <3> QED
      BY <3>1, ShortSeqs
  <2>2. \A j \in 1 .. 1 : t[j] = Path[3 + j]
    BY DEF Path
  <2>3. s4 = s3 \o (IF v <= 13 THEN t ELSE <<>>)
    BY DEF s4
  <2> HIDE DEF t
  <2>4. (v <= 13 => Place(v) <= 3 + 1) /\ (v > 13 => Place(v) > 3 + 1)
    BY <1>0 DEF Place
  <2>5. PathTo(s4, v, 3 + 1)
    BY <1>4, <2>1, <2>2, <2>3, <2>4, PathGrows
  <2> QED
    BY <2>5
<1>6. PathTo(s5, v, 5)
  <2> DEFINE t == <<"responseHeaders">>
  <2>1. t \in Seq(StepNames) /\ Len(t) = 1
    <3>1. "responseHeaders" \in StepNames
      BY DEF StepNames, Change
    <3> QED
      BY <3>1, ShortSeqs
  <2>2. \A j \in 1 .. 1 : t[j] = Path[4 + j]
    BY DEF Path
  <2>3. s5 = s4 \o (IF v <= 14 THEN t ELSE <<>>)
    BY DEF s5
  <2> HIDE DEF t
  <2>4. (v <= 14 => Place(v) <= 4 + 1) /\ (v > 14 => Place(v) > 4 + 1)
    BY <1>0 DEF Place
  <2>5. PathTo(s5, v, 4 + 1)
    BY <1>5, <2>1, <2>2, <2>3, <2>4, PathGrows
  <2> QED
    BY <2>5
<1>7. PathTo(s6, v, 6)
  <2> DEFINE t == <<"requestErrorReason">>
  <2>1. t \in Seq(StepNames) /\ Len(t) = 1
    <3>1. "requestErrorReason" \in StepNames
      BY DEF StepNames, Change
    <3> QED
      BY <3>1, ShortSeqs
  <2>2. \A j \in 1 .. 1 : t[j] = Path[5 + j]
    BY DEF Path
  <2>3. s6 = s5 \o (IF v <= 15 THEN t ELSE <<>>)
    BY DEF s6
  <2> HIDE DEF t
  <2>4. (v <= 15 => Place(v) <= 5 + 1) /\ (v > 15 => Place(v) > 5 + 1)
    BY <1>0 DEF Place
  <2>5. PathTo(s6, v, 5 + 1)
    BY <1>6, <2>1, <2>2, <2>3, <2>4, PathGrows
  <2> QED
    BY <2>5
<1>8. PathTo(s7, v, 7)
  <2> DEFINE t == <<"upstreamResponseReports">>
  <2>1. t \in Seq(StepNames) /\ Len(t) = 1
    <3>1. "upstreamResponseReports" \in StepNames
      BY DEF StepNames, Change
    <3> QED
      BY <3>1, ShortSeqs
  <2>2. \A j \in 1 .. 1 : t[j] = Path[6 + j]
    BY DEF Path
  <2>3. s7 = s6 \o (IF v <= 16 THEN t ELSE <<>>)
    BY DEF s7
  <2> HIDE DEF t
  <2>4. (v <= 16 => Place(v) <= 6 + 1) /\ (v > 16 => Place(v) > 6 + 1)
    BY <1>0 DEF Place
  <2>5. PathTo(s7, v, 6 + 1)
    BY <1>7, <2>1, <2>2, <2>3, <2>4, PathGrows
  <2> QED
    BY <2>5
<1>9. PathTo(s8, v, 8)
  <2> DEFINE t == <<"requestInfo">>
  <2>1. t \in Seq(StepNames) /\ Len(t) = 1
    <3>1. "requestInfo" \in StepNames
      BY DEF StepNames, Change
    <3> QED
      BY <3>1, ShortSeqs
  <2>2. \A j \in 1 .. 1 : t[j] = Path[7 + j]
    BY DEF Path
  <2>3. s8 = s7 \o (IF v <= 17 THEN t ELSE <<>>)
    BY DEF s8
  <2> HIDE DEF t
  <2>4. (v <= 17 => Place(v) <= 7 + 1) /\ (v > 17 => Place(v) > 7 + 1)
    BY <1>0 DEF Place
  <2>5. PathTo(s8, v, 7 + 1)
    BY <1>8, <2>1, <2>2, <2>3, <2>4, PathGrows
  <2> QED
    BY <2>5
<1>10. PathTo(s9, v, 9)
  <2> DEFINE t == <<"executionMetadata">>
  <2>1. t \in Seq(StepNames) /\ Len(t) = 1
    <3>1. "executionMetadata" \in StepNames
      BY DEF StepNames, Change
    <3> QED
      BY <3>1, ShortSeqs
  <2>2. \A j \in 1 .. 1 : t[j] = Path[8 + j]
    BY DEF Path
  <2>3. s9 = s8 \o (IF v <= 18 THEN t ELSE <<>>)
    BY DEF s9
  <2> HIDE DEF t
  <2>4. (v <= 18 => Place(v) <= 8 + 1) /\ (v > 18 => Place(v) > 8 + 1)
    BY <1>0 DEF Place
  <2>5. PathTo(s9, v, 8 + 1)
    BY <1>9, <2>1, <2>2, <2>3, <2>4, PathGrows
  <2> QED
    BY <2>5
<1>11. PathTo(s10, v, 10)
  <2> DEFINE t == <<"quotaReports">>
  <2>1. t \in Seq(StepNames) /\ Len(t) = 1
    <3>1. "quotaReports" \in StepNames
      BY DEF StepNames, Change
    <3> QED
      BY <3>1, ShortSeqs
  <2>2. \A j \in 1 .. 1 : t[j] = Path[9 + j]
    BY DEF Path
  <2>3. s10 = s9 \o (IF v <= 19 THEN t ELSE <<>>)
    BY DEF s10
  <2> HIDE DEF t
  <2>4. (v <= 19 => Place(v) <= 9 + 1) /\ (v > 19 => Place(v) > 9 + 1)
    BY <1>0 DEF Place
  <2>5. PathTo(s10, v, 9 + 1)
    BY <1>10, <2>1, <2>2, <2>3, <2>4, PathGrows
  <2> QED
    BY <2>5
<1>12. PathTo(s11, v, 11)
  <2> DEFINE t == <<"clientHeaders">>
  <2>1. t \in Seq(StepNames) /\ Len(t) = 1
    <3>1. "clientHeaders" \in StepNames
      BY DEF StepNames, Change
    <3> QED
      BY <3>1, ShortSeqs
  <2>2. \A j \in 1 .. 1 : t[j] = Path[10 + j]
    BY DEF Path
  <2>3. s11 = s10 \o (IF v <= 20 THEN t ELSE <<>>)
    BY DEF s11
  <2> HIDE DEF t
  <2>4. (v <= 20 => Place(v) <= 10 + 1) /\ (v > 20 => Place(v) > 10 + 1)
    BY <1>0 DEF Place
  <2>5. PathTo(s11, v, 10 + 1)
    BY <1>11, <2>1, <2>2, <2>3, <2>4, PathGrows
  <2> QED
    BY <2>5
<1>13. PathTo(s12, v, 12)
  <2> DEFINE t == <<"configuredProviders">>
  <2>1. t \in Seq(StepNames) /\ Len(t) = 1
    <3>1. "configuredProviders" \in StepNames
      BY DEF StepNames, Change
    <3> QED
      BY <3>1, ShortSeqs
  <2>2. \A j \in 1 .. 1 : t[j] = Path[11 + j]
    BY DEF Path
  <2>3. s12 = s11 \o (IF v <= 21 THEN t ELSE <<>>)
    BY DEF s12
  <2> HIDE DEF t
  <2>4. (v <= 21 => Place(v) <= 11 + 1) /\ (v > 21 => Place(v) > 11 + 1)
    BY <1>0 DEF Place
  <2>5. PathTo(s12, v, 11 + 1)
    BY <1>12, <2>1, <2>2, <2>3, <2>4, PathGrows
  <2> QED
    BY <2>5
<1>14. PathTo(s13, v, 13)
  <2> DEFINE t == <<"credentialNotes">>
  <2>1. t \in Seq(StepNames) /\ Len(t) = 1
    <3>1. "credentialNotes" \in StepNames
      BY DEF StepNames, Change
    <3> QED
      BY <3>1, ShortSeqs
  <2>2. \A j \in 1 .. 1 : t[j] = Path[12 + j]
    BY DEF Path
  <2>3. s13 = s12 \o (IF v <= 22 THEN t ELSE <<>>)
    BY DEF s13
  <2> HIDE DEF t
  <2>4. (v <= 22 => Place(v) <= 12 + 1) /\ (v > 22 => Place(v) > 12 + 1)
    BY <1>0 DEF Place
  <2>5. PathTo(s13, v, 12 + 1)
    BY <1>13, <2>1, <2>2, <2>3, <2>4, PathGrows
  <2> QED
    BY <2>5
<1>15. PathTo(s14, v, 14)
  <2> DEFINE t == <<"currencies">>
  <2>1. t \in Seq(StepNames) /\ Len(t) = 1
    <3>1. "currencies" \in StepNames
      BY DEF StepNames, Change
    <3> QED
      BY <3>1, ShortSeqs
  <2>2. \A j \in 1 .. 1 : t[j] = Path[13 + j]
    BY DEF Path
  <2>3. s14 = s13 \o (IF v <= 23 THEN t ELSE <<>>)
    BY DEF s14
  <2> HIDE DEF t
  <2>4. (v <= 23 => Place(v) <= 13 + 1) /\ (v > 23 => Place(v) > 13 + 1)
    BY <1>0 DEF Place
  <2>5. PathTo(s14, v, 13 + 1)
    BY <1>14, <2>1, <2>2, <2>3, <2>4, PathGrows
  <2> QED
    BY <2>5
<1>16. PathTo(s15, v, 15)
  <2> DEFINE t == <<"sharedQuotas">>
  <2>1. t \in Seq(StepNames) /\ Len(t) = 1
    <3>1. "sharedQuotas" \in StepNames
      BY DEF StepNames, Change
    <3> QED
      BY <3>1, ShortSeqs
  <2>2. \A j \in 1 .. 1 : t[j] = Path[14 + j]
    BY DEF Path
  <2>3. s15 = s14 \o (IF v <= 24 THEN t ELSE <<>>)
    BY DEF s15
  <2> HIDE DEF t
  <2>4. (v <= 24 => Place(v) <= 14 + 1) /\ (v > 24 => Place(v) > 14 + 1)
    BY <1>0 DEF Place
  <2>5. PathTo(s15, v, 14 + 1)
    BY <1>15, <2>1, <2>2, <2>3, <2>4, PathGrows
  <2> QED
    BY <2>5
<1> QED
  BY <1>1, <1>16

----------------------------------------------------------------------------
(* What the steps do to columns and tables *)

\* No two steps add the same column, and none adds what the oldest databases had.
LEMMA AddsApart ==
  ASSUME NEW s \in StepNames, NEW c \in Change[s].adds
  PROVE  c \notin OldestColumns /\ \A t \in StepNames : c \in Change[t].adds => t = s
BY SMTT(60) DEF StepNames, Change, OldestColumns,
         ModelGroupsStep, LegacyRouteBindingsStep, SubscriptionPeriodsStep, ModelPricingStep, QuotaWindowsStep,
         CredentialsStep, ResponseHeadersStep, RequestErrorReasonStep, UpstreamResponseReportsStep, RequestInfoStep,
         ExecutionMetadataStep, QuotaReportsStep, ClientHeadersStep, ConfiguredProvidersStep, CredentialNotesStep,
         CurrenciesStep, SharedQuotasStep

\* No two drop the same, and what is dropped was there from the first, but for the headers.
LEMMA DropsApart ==
  ASSUME NEW s \in StepNames, NEW c \in Change[s].drops
  PROVE  /\ \A t \in StepNames : c \in Change[t].drops => t = s
         /\ c \in OldestColumns \/ (s = "quotaReports" /\ c \in Change["responseHeaders"].adds)
BY DEF StepNames, Change, OldestColumns,
         ModelGroupsStep, LegacyRouteBindingsStep, SubscriptionPeriodsStep, ModelPricingStep, QuotaWindowsStep,
         CredentialsStep, ResponseHeadersStep, RequestErrorReasonStep, UpstreamResponseReportsStep, RequestInfoStep,
         ExecutionMetadataStep, QuotaReportsStep, ClientHeadersStep, ConfiguredProvidersStep, CredentialNotesStep,
         CurrenciesStep, SharedQuotasStep

\* A new database has what the steps add and do not drop again.
LEMMA AddsKept ==
  ASSUME NEW s \in StepNames, NEW c \in Change[s].adds
  PROVE  c \in SchemaColumns \/ (s = "responseHeaders" /\ c \in Change["quotaReports"].drops)
BY DEF StepNames, Change, SchemaColumns,
         ModelGroupsStep, LegacyRouteBindingsStep, SubscriptionPeriodsStep, ModelPricingStep, QuotaWindowsStep,
         CredentialsStep, ResponseHeadersStep, RequestErrorReasonStep, UpstreamResponseReportsStep, RequestInfoStep,
         ExecutionMetadataStep, QuotaReportsStep, ClientHeadersStep, ConfiguredProvidersStep, CredentialNotesStep,
         CurrenciesStep, SharedQuotasStep

LEMMA SchemaAdded ==
  ASSUME NEW c \in SchemaColumns
  PROVE  \E s \in StepNames \ {"legacyRouteBindings"} : c \in Change[s].adds
<1>1. \/ c \in Change["modelGroups"].adds
      \/ c \in Change["modelPricing"].adds
      \/ c \in Change["quotaWindows"].adds
      \/ c \in Change["credentials"].adds
      \/ c \in Change["responseHeaders"].adds
      \/ c \in Change["upstreamResponseReports"].adds
      \/ c \in Change["requestInfo"].adds
      \/ c \in Change["executionMetadata"].adds
      \/ c \in Change["quotaReports"].adds
      \/ c \in Change["clientHeaders"].adds
      \/ c \in Change["configuredProviders"].adds
      \/ c \in Change["credentialNotes"].adds
      \/ c \in Change["currencies"].adds
      \/ c \in Change["sharedQuotas"].adds
  BY DEF Change, SchemaColumns,
         ModelGroupsStep, LegacyRouteBindingsStep, SubscriptionPeriodsStep, ModelPricingStep, QuotaWindowsStep,
         CredentialsStep, ResponseHeadersStep, RequestErrorReasonStep, UpstreamResponseReportsStep, RequestInfoStep,
         ExecutionMetadataStep, QuotaReportsStep, ClientHeadersStep, ConfiguredProvidersStep, CredentialNotesStep,
         CurrenciesStep, SharedQuotasStep
<1>2. \A s \in {"modelGroups", "modelPricing", "quotaWindows", "credentials", "responseHeaders", "upstreamResponseReports", "requestInfo", "executionMetadata", "quotaReports", "clientHeaders", "configuredProviders", "credentialNotes", "currencies", "sharedQuotas"} :
        s \in StepNames \ {"legacyRouteBindings"}
  BY DEF StepNames, Change
<1> QED
  BY <1>1, <1>2

LEMMA SchemaStays ==
  ASSUME NEW s \in StepNames, NEW c \in Change[s].drops
  PROVE  c \notin SchemaColumns
BY DEF StepNames, Change, SchemaColumns,
         ModelGroupsStep, LegacyRouteBindingsStep, SubscriptionPeriodsStep, ModelPricingStep, QuotaWindowsStep,
         CredentialsStep, ResponseHeadersStep, RequestErrorReasonStep, UpstreamResponseReportsStep, RequestInfoStep,
         ExecutionMetadataStep, QuotaReportsStep, ClientHeadersStep, ConfiguredProvidersStep, CredentialNotesStep,
         CurrenciesStep, SharedQuotasStep

LEMMA OldestDropped ==
  ASSUME NEW c \in OldestColumns
  PROVE  \E s \in StepNames : c \in Change[s].drops
BY DEF StepNames, Change, OldestColumns,
         ModelGroupsStep, LegacyRouteBindingsStep, SubscriptionPeriodsStep, ModelPricingStep, QuotaWindowsStep,
         CredentialsStep, ResponseHeadersStep, RequestErrorReasonStep, UpstreamResponseReportsStep, RequestInfoStep,
         ExecutionMetadataStep, QuotaReportsStep, ClientHeadersStep, ConfiguredProvidersStep, CredentialNotesStep,
         CurrenciesStep, SharedQuotasStep

\* The steps that made a database at a place of the path, for which bindings of the list of
\* version 11 count as made.
Before(version, p) ==
  (IF p = 0 /\ version = 10 THEN {} ELSE {"modelGroups"}) \cup {Path[i] : i \in 1 .. p - 1}

LEMMA PathDiffers ==
  /\ \A i \in 1 .. 15 : Path[i] \in StepNames \ {"modelGroups", "legacyRouteBindings"}
  /\ \A i, j \in 1 .. 15 : Path[i] = Path[j] => i = j
  /\ Path[5] = "responseHeaders" /\ Path[10] = "quotaReports"
BY DEF Path, StepNames, Change

LEMMA AllSteps ==
  ASSUME NEW s \in StepNames
  PROVE  s \in {"modelGroups", "legacyRouteBindings"} \/ \E i \in 1 .. 15 : s = Path[i]
<1>1. \/ s \in {"modelGroups", "legacyRouteBindings"}
      \/ s = Path[1] \/ s = Path[2] \/ s = Path[3] \/ s = Path[4] \/ s = Path[5] \/ s = Path[6] \/ s = Path[7]
      \/ s = Path[8] \/ s = Path[9] \/ s = Path[10] \/ s = Path[11] \/ s = Path[12] \/ s = Path[13] \/ s = Path[14]
      \/ s = Path[15]
  BY DEF Path, StepNames, Change
<1> QED
  BY <1>1

LEMMA BeforeSteps ==
  ASSUME NEW v \in Nat, NEW p \in 0 .. 16
  PROVE  Before(v, p) \in SUBSET StepNames
<1>1. \A i \in 1 .. p - 1 : i \in 1 .. 15
  OBVIOUS
<1>2. "modelGroups" \in StepNames
  BY DEF StepNames, Change
<1> QED
  BY <1>1, <1>2, PathDiffers DEF Before

\* What a version has is what the steps before its place made.
LEMMA ColumnsAtPlace ==
  ASSUME NEW v \in Migratable \cup {SchemaVersion}
  PROVE  ColumnsOf(v) = ColumnsAfter(Before(v, Place(v)))
<1> DEFINE news(w) == UNION {News[u - 10] : u \in 11 .. w}
<1>0. v \in 10 .. 25
  BY DEF Migratable, SchemaVersion
<1>1. CASE v = 10
  BY <1>1 DEF ColumnsOf, Before, Place
<1>2. CASE v = 11
  <2>1. news(11) = Before(11, 0)
    BY DEF News, Before
  <2> QED
    BY <1>2, <2>1 DEF ColumnsOf, Place
<1>3. CASE v = 12
  <2>1. news(12) = Before(12, 2)
    BY DEF News, Before, Path
  <2> QED
    BY <1>3, <2>1 DEF ColumnsOf, Place
<1>4. CASE v \in 13 .. 25
  <2>1. news(v) = Before(v, v - 9)
    <3>1. \A i \in 1 .. v - 10 : i \in 1 .. 15
      BY <1>4
    <3>2. news(v) = UNION {News[i] : i \in 1 .. v - 10}
      <4>1. ASSUME NEW c \in news(v) PROVE c \in UNION {News[i] : i \in 1 .. v - 10}
        <5>1. PICK u \in 11 .. v : c \in News[u - 10]
          OBVIOUS
        <5>2. u - 10 \in 1 .. v - 10
          BY <1>4
        <5> QED
          BY <5>1, <5>2
      <4>2. ASSUME NEW i \in 1 .. v - 10 PROVE News[i] \subseteq news(v)
        <5>1. i + 10 \in 11 .. v /\ (i + 10) - 10 = i
          BY <1>4
        <5> QED
          BY <5>1
      <4> QED
        BY <4>1, <4>2
    <3>3. News[1] = {"modelGroups"} /\ News[2] = {Path[1]} /\ News[3] = {Path[2], Path[3]}
          /\ \A i \in 4 .. 15 : News[i] = {Path[i]}
      BY DEF News, Path
    <3>4. ASSUME NEW c PROVE (\E i \in 1 .. v - 10 : c \in News[i]) <=> c = "modelGroups" \/ \E i \in 1 .. v - 10 : c = Path[i]
      <4>1. \A i \in 1 .. v - 10 : i = 1 \/ i = 2 \/ i = 3 \/ i \in 4 .. 15
        BY <3>1
      <4>2. 1 \in 1 .. v - 10 /\ 2 \in 1 .. v - 10 /\ 3 \in 1 .. v - 10
        BY <1>4
      <4> QED
        BY <3>3, <4>1, <4>2
    <3>5. Before(v, v - 9) = {"modelGroups"} \cup {Path[i] : i \in 1 .. v - 10}
      <4>1. ~(v - 9 = 0) /\ (v - 9) - 1 = v - 10
        BY <1>4
      <4> QED
        BY <4>1 DEF Before
    <3>6. ASSUME NEW c PROVE c \in news(v) <=> c \in Before(v, v - 9)
      <4>1. c \in news(v) <=> \E i \in 1 .. v - 10 : c \in News[i]
        BY <3>2
      <4>2. c \in Before(v, v - 9) <=> c = "modelGroups" \/ \E i \in 1 .. v - 10 : c = Path[i]
        BY <3>5
      <4> QED
        BY <3>4, <4>1, <4>2
    <3> QED
      BY <3>6
  <2>2. Place(v) = v - 9
    BY <1>4 DEF Place
  <2> QED
    BY <2>1, <2>2 DEF ColumnsOf
<1> QED
  BY <1>0, <1>1, <1>2, <1>3, <1>4

\* A step applies to what those before it made, and makes what is there at the next place.
LEMMA ColumnsAtNext ==
  ASSUME NEW v \in Migratable, NEW p \in 0 .. 15
  PROVE  LET change == Change[StepAt(v, p)]
             columns == ColumnsAfter(Before(v, p))
         IN  /\ change.adds \cap columns = {} /\ change.drops \subseteq columns
             /\ (columns \ change.drops) \cup change.adds = ColumnsAfter(Before(v, p + 1))
<1> DEFINE step == StepAt(v, p)
           done == Before(v, p)
           columns == ColumnsAfter(done)
<1>1. CASE step = "legacyRouteBindings"
  <2>1. p = 0 /\ v # 10
    BY <1>1, PathDiffers DEF StepAt
  <2>2. Before(v, p + 1) = Before(v, p)
    BY <2>1 DEF Before
  <2>3. Change[step].adds = {} /\ Change[step].drops = {}
    BY <1>1 DEF Change, LegacyRouteBindingsStep
  <2> QED
    BY <2>2, <2>3
<1>2. CASE step # "legacyRouteBindings"
  <2>1. step \in StepNames /\ done \in SUBSET StepNames
    <3>1. CASE p = 0
      BY <3>1, BeforeSteps DEF StepAt, StepNames, Change, Migratable
    <3>2. CASE p # 0
      BY <3>2, PathDiffers, BeforeSteps DEF StepAt, Migratable
    <3> QED
      BY <3>1, <3>2
  <2>2. step \notin done /\ Before(v, p + 1) = done \cup {step}
    <3>1. CASE p = 0
      <4>1. v = 10 /\ step = "modelGroups"
        BY <1>2, <3>1 DEF StepAt
      <4>2. \A q \in {0, 1} : {Path[i] : i \in 1 .. q - 1} = {}
        OBVIOUS
      <4> QED
        BY <3>1, <4>1, <4>2 DEF Before
    <3>2. CASE p # 0
      <4>1. step = Path[p] /\ p \in 1 .. 15 /\ ~(p + 1 = 0) /\ (p + 1) - 1 = p
        BY <3>2 DEF StepAt
      <4>2. \A i \in 1 .. p - 1 : i \in 1 .. 15 /\ i # p
        OBVIOUS
      <4>3. 1 .. p = (1 .. p - 1) \cup {p}
        BY <4>1
      <4>4. done = {"modelGroups"} \cup {Path[i] : i \in 1 .. p - 1}
        BY <3>2 DEF Before
      <4>5. Before(v, p + 1) = {"modelGroups"} \cup {Path[i] : i \in 1 .. p}
        BY <4>1 DEF Before
      <4> QED
        BY <4>1, <4>2, <4>3, <4>4, <4>5, PathDiffers
    <3> QED
      BY <3>1, <3>2
  <2>3. "quotaReports" \in done => step # "responseHeaders"
    <3>1. ASSUME "quotaReports" \in done, step = "responseHeaders" PROVE FALSE
      <4>1. p = 5
        BY <3>1, PathDiffers DEF StepAt
      <4>2. PICK i \in 1 .. 4 : Path[i] = "quotaReports"
        BY <3>1, <4>1, PathDiffers DEF Before
      <4> QED
        BY <4>2, PathDiffers
    <3> QED
      BY <3>1
  <2>4. step = "quotaReports" => "responseHeaders" \in done
    <3>1. ASSUME step = "quotaReports" PROVE "responseHeaders" \in done
      <4>1. p = 10
        BY <3>1, PathDiffers DEF StepAt
      <4> QED
        BY <4>1, PathDiffers DEF Before
    <3> QED
      BY <3>1
  <2> HIDE DEF step, done
  <2>5. Change[step].adds \cap columns = {}
    BY <2>1, <2>2, AddsApart DEF ColumnsAfter
  <2>6. Change[step].drops \subseteq columns
    BY <2>1, <2>2, <2>4, DropsApart DEF ColumnsAfter
  <2>7. \A c \in Change[step].adds : \A t \in done \cup {step} : c \notin Change[t].drops
    <3> SUFFICES ASSUME NEW c \in Change[step].adds, NEW t \in done \cup {step}, c \in Change[t].drops PROVE FALSE
      OBVIOUS
    <3>1. c \notin OldestColumns /\ t \in StepNames
      BY <2>1, AddsApart
    <3>2. t = "quotaReports" /\ c \in Change["responseHeaders"].adds
      BY <3>1, DropsApart
    <3>3. "responseHeaders" \in StepNames
      BY DEF StepNames, Change
    <3>4. step = "responseHeaders"
      BY <2>1, <3>2, <3>3, AddsApart
    <3> QED
      BY <2>3, <3>2, <3>4
  <2>8. (columns \ Change[step].drops) \cup Change[step].adds = ColumnsAfter(done \cup {step})
    BY <2>7 DEF ColumnsAfter
  <2> QED
    BY <2>2, <2>5, <2>6, <2>8 DEF step, done
<1> QED
  BY <1>1, <1>2

\* At the end there is what a new database has.
LEMMA ColumnsAtEnd ==
  ASSUME NEW v \in Nat
  PROVE  ColumnsAfter(Before(v, 16)) = SchemaColumns
<1> DEFINE done == Before(v, 16)
<1>1. done \in SUBSET StepNames
  BY BeforeSteps
<1>2. ASSUME NEW s \in StepNames \ {"legacyRouteBindings"} PROVE s \in done
  BY <1>2, AllSteps DEF Before
<1>3. Change["legacyRouteBindings"].drops = {} /\ Change["legacyRouteBindings"].adds = {}
  BY DEF Change, LegacyRouteBindingsStep
<1>4. "quotaReports" \in done
  BY <1>2 DEF StepNames, Change
<1> HIDE DEF done
<1>5. ASSUME NEW c \in SchemaColumns PROVE c \in ColumnsAfter(done)
  <2>1. PICK s \in StepNames \ {"legacyRouteBindings"} : c \in Change[s].adds
    BY SchemaAdded
  <2>2. \A t \in done : c \notin Change[t].drops
    BY <1>1, SchemaStays
  <2> QED
    BY <1>2, <2>1, <2>2 DEF ColumnsAfter
<1>6. ASSUME NEW c \in ColumnsAfter(done) PROVE c \in SchemaColumns
  <2>1. c \notin OldestColumns
    <3>1. ASSUME c \in OldestColumns PROVE FALSE
      <4>1. PICK s \in StepNames : c \in Change[s].drops
        BY <3>1, OldestDropped
      <4>2. s \in done
        BY <1>2, <1>3, <4>1
      <4> QED
        BY <4>1, <4>2 DEF ColumnsAfter
    <3> QED
      BY <3>1
  <2>2. PICK s \in done : c \in Change[s].adds
    BY <2>1 DEF ColumnsAfter
  <2>3. c \notin Change["quotaReports"].drops
    BY <1>4 DEF ColumnsAfter
  <2> QED
    BY <1>1, <2>2, <2>3, AddsKept
<1> QED
  BY <1>5, <1>6 DEF done

\* What is missing of a new database is added by a step to come.
ToCome(columns, version, p) ==
  \A c \in SchemaColumns : c \in columns \/ \E i \in p .. 15 : c \in Change[StepAt(version, i)].adds

LEMMA ToComeAtPlace ==
  ASSUME NEW v \in Migratable, NEW columns, ColumnsOf(v) \subseteq columns
  PROVE  ToCome(columns, v, Place(v))
<1> SUFFICES ASSUME NEW c \in SchemaColumns
             PROVE  c \in columns \/ \E i \in Place(v) .. 15 : c \in Change[StepAt(v, i)].adds
  BY DEF ToCome
<1> DEFINE p == Place(v)
<1>1. p \in 0 .. 15 /\ v \in Nat
  BY PlaceType DEF Migratable
<1>2. PICK s \in StepNames \ {"legacyRouteBindings"} : c \in Change[s].adds
  BY SchemaAdded
<1>3. Before(v, p) \in SUBSET StepNames
  BY <1>1, BeforeSteps
<1>4. ColumnsAfter(Before(v, p)) \subseteq columns
  BY ColumnsAtPlace
<1> HIDE DEF p
<1>5. CASE s \in Before(v, p)
  BY <1>2, <1>3, <1>4, <1>5, SchemaStays DEF ColumnsAfter
<1>6. CASE s \notin Before(v, p)
  <2>1. \E i \in p .. 15 : s = StepAt(v, i)
    <3>1. CASE s = "modelGroups"
      <4>1. p = 0 /\ v = 10
        BY <1>6, <3>1 DEF Before
      <4> QED
        BY <3>1, <4>1 DEF StepAt
    <3>2. CASE s # "modelGroups"
      <4>1. PICK i \in 1 .. 15 : s = Path[i]
        BY <3>2, AllSteps
      <4>2. ~(i \in 1 .. p - 1)
        BY <1>6, <4>1 DEF Before
      <4>3. i \in p .. 15 /\ ~(i = 0)
        BY <1>1, <4>2
      <4> QED
        BY <4>1, <4>3 DEF StepAt
    <3> QED
      BY <3>1, <3>2
  <2> QED
    BY <1>2, <2>1 DEF p
<1> QED
  BY <1>5, <1>6

LEMMA ToComeAtNext ==
  ASSUME NEW v \in Migratable, NEW p \in 0 .. 15, NEW columns, ToCome(columns, v, p)
  PROVE  LET change == Change[StepAt(v, p)]
         IN  ToCome((columns \ change.drops) \cup change.adds, v, p + 1)
<1> DEFINE change == Change[StepAt(v, p)]
<1> SUFFICES ASSUME NEW c \in SchemaColumns
             PROVE  c \in (columns \ change.drops) \cup change.adds
                      \/ \E i \in p + 1 .. 15 : c \in Change[StepAt(v, i)].adds
  BY DEF ToCome
<1>1. c \notin change.drops
  <2>1. StepAt(v, p) \in StepNames
    <3>1. CASE p = 0
      BY <3>1 DEF StepAt, StepNames, Change
    <3>2. CASE p # 0
      BY <3>2, PathDiffers DEF StepAt
    <3> QED
      BY <3>1, <3>2
  <2> QED
    BY <2>1, SchemaStays
<1>2. c \in columns \/ \E i \in p .. 15 : c \in Change[StepAt(v, i)].adds
  BY DEF ToCome
<1>3. \A i \in p .. 15 : i = p \/ i \in p + 1 .. 15
  OBVIOUS
<1> QED
  BY <1>1, <1>2, <1>3

----------------------------------------------------------------------------
(* What becomes of the rows *)

\* How long the window of a plan is in the end, and the cycle of its key.
Length(plan) == IF PeriodOf(plan) = 0 THEN 365 ELSE PeriodOf(plan)

Renewing(was) ==
  LET c == was.key.cycle
  IN  IF c = NoCycle THEN c
      ELSE [plan |-> c.plan, start |-> c.start, end |-> c.start + Length(was.plan), spent |-> c.spent]

AccountOf(was) == IF was.stored = Nil THEN was.event.account ELSE was.stored.account

\* The rows of a database on its way from the one that was found.
RowsOnTheWay(db, was, p) ==
  /\ IsDatabase(db) /\ db.version = was.version /\ db.damaged = {}
  /\ p = 0 => db = was
  /\ db.plan.id = was.plan.id /\ db.key.plan = was.key.plan
  /\ p <= 1 => db.plan.kind = was.plan.kind /\ db.plan.period = was.plan.period
  /\ p \in 2 .. 3 => db.plan.period = PeriodOf(was.plan)
  /\ p <= 3 => db.key.cycle = was.key.cycle
  /\ p >= 4 => db.plan.period = Length(was.plan) /\ db.key.cycle = Renewing(was)
  /\ p \in 4 .. 14 => db.plan.limit \in {"amount_usd", "amount"}
  /\ p >= 15 => db.plan.limit = "amount"
  /\ AllowedModels(db) = AllowedModels(was) /\ db.key.bindings.routes \subseteq DOMAIN db.routes
  /\ p <= 4 => db.stored = was.stored /\ db.event.account = was.event.account
  /\ p >= 5 => db.event.account = AccountOf(was)
  /\ was.event.provider # Nil => db.event.provider = was.event.provider
  /\ p <= 10 => db.event.headers = was.event.headers /\ db.event.report = was.event.report
  /\ p >= 11 => db.event.report = (was.event.report \/ was.event.headers = "quota")

OnTheWay(db, was, p) ==
  RowsOnTheWay(db, was, p) /\ db.columns = ColumnsAfter(Before(was.version, p))

\* The lengths of sound plans.
LEMMA SoundLength ==
  ASSUME NEW was, IsDatabase(was), was.version \in Migratable \cup {SchemaVersion}, SoundPlan(was)
  PROVE  /\ PeriodOf(was.plan) \in Nat /\ Length(was.plan) \in 1 .. MaxPeriod
         /\ was.version > 12 => PeriodOf(was.plan) = was.plan.period /\ Length(was.plan) = was.plan.period
         /\ was.version = 12 => PeriodOf(was.plan) = was.plan.period
<1> DEFINE plan == was.plan
<1>1. plan.period \in Nat /\ MaxPeriod \in Nat /\ MaxPeriod >= 365 /\ was.version \in 10 .. 25
  BY MigrationsAssumption DEF IsDatabase, Migratable, SchemaVersion
<1>2. CASE was.version <= 11
  <2>1. plan.kind \in PeriodKinds /\ (plan.kind = "custom" => plan.period \in 1 .. MaxPeriod)
    BY <1>2 DEF SoundPlan
  <2> HIDE DEF plan
  <2>2. PeriodOf(plan) \in 0 .. MaxPeriod
    BY <1>1, <2>1 DEF PeriodOf, PeriodKinds
  <2> QED
    BY <1>1, <1>2, <2>2 DEF Length, plan
<1>3. CASE was.version > 11
  <2>1. plan.kind = Nil /\ plan.period \in (IF was.version = 12 THEN 0 ELSE 1) .. MaxPeriod
    BY <1>1, <1>3 DEF SoundPlan
  <2> HIDE DEF plan
  <2>2. PeriodOf(plan) = plan.period
    BY <2>1, MigrationsAssumption DEF PeriodOf, PeriodKinds
  <2> QED
    BY <1>1, <1>3, <2>1, <2>2 DEF Length, plan
<1> QED
  BY <1>1, <1>2, <1>3

LEMMA AtFirst ==
  ASSUME NEW was, IsDatabase(was), was.version \in Migratable \cup {SchemaVersion}, Sound(was)
  PROVE  OnTheWay(was, was, Place(was.version))
<1> DEFINE p == Place(was.version)
           v == was.version
           c == was.key.cycle
<1>1. v \in 10 .. 25
  BY DEF Migratable, SchemaVersion
<1>2. /\ was.columns = ColumnsOf(v) /\ SoundPlan(was) /\ SoundCycle(was)
      /\ SoundBindings(was) /\ SoundEvent(was) /\ was.damaged = {}
  BY <1>1 DEF Sound
<1>3. /\ (p <= 1 => v <= 11) /\ (p <= 3 => v <= 12) /\ (p >= 4 => v >= 13) /\ (p \in 4 .. 14 => v <= 23)
      /\ (p >= 15 => v >= 24) /\ (p >= 5 => v >= 14) /\ (p >= 11 => v >= 20) /\ (p \in 2 .. 3 => v = 12)
  BY <1>1 DEF Place
<1>4. was.columns = ColumnsAfter(Before(v, p))
  BY <1>2, ColumnsAtPlace
<1>5. /\ p >= 4 => was.plan.period = Length(was.plan) /\ was.plan.period = PeriodOf(was.plan) /\ PeriodOf(was.plan) # 0
      /\ p \in 2 .. 3 => was.plan.period = PeriodOf(was.plan)
  BY <1>1, <1>2, <1>3, SoundLength
<1>6. p >= 4 => was.key.cycle = Renewing(was)
  <2> SUFFICES ASSUME p >= 4, c # NoCycle PROVE c = Renewing(was)
    BY DEF Renewing
  <2>1. c.end = c.start + Length(was.plan)
    BY <1>2, <1>5 DEF SoundCycle
  <2>2. c = [plan |-> c.plan, start |-> c.start, end |-> c.end, spent |-> c.spent]
    BY DEF IsDatabase
  <2> QED
    BY <2>1, <2>2 DEF Renewing
<1>7. /\ p \in 4 .. 14 => was.plan.limit = "amount_usd"
      /\ p >= 15 => was.plan.limit = "amount"
  BY <1>1, <1>2, <1>3 DEF SoundPlan
<1>8. was.key.bindings.routes \subseteq DOMAIN was.routes
  BY <1>2 DEF SoundBindings
<1>9. p >= 5 => was.event.account = AccountOf(was)
  BY <1>1, <1>2, <1>3 DEF SoundEvent, AccountOf
<1>10. p >= 11 => was.event.report = (was.event.report \/ was.event.headers = "quota")
  <2>1. was.event.report \in BOOLEAN
    BY DEF IsDatabase
  <2>2. p >= 11 => was.event.headers = "none"
    BY <1>1, <1>2, <1>3 DEF SoundEvent
  <2> QED
    BY <2>1, <2>2
<1> HIDE DEF p
<1>11. OnTheWay(was, was, p)
  BY <1>2, <1>4, <1>5, <1>6, <1>7, <1>8, <1>9, <1>10 DEF OnTheWay, RowsOnTheWay
<1> QED
  BY <1>11 DEF p

LEMMA RenewingKeeps ==
  ASSUME NEW was, IsDatabase(was), was.version \in Migratable \cup {SchemaVersion}, Sound(was)
  PROVE  /\ [Renewing(was) EXCEPT !.end = 0] = [was.key.cycle EXCEPT !.end = 0]
         /\ Renewing(was) # NoCycle =>
              /\ was.key.plan # Nil /\ Renewing(was).plan = was.key.plan /\ Renewing(was).start > 0
              /\ Renewing(was).end = Renewing(was).start + Length(was.plan)
<1> DEFINE c == was.key.cycle
<1>1. SoundCycle(was)
  BY DEF Sound, Migratable, SchemaVersion
<1>2. c = [plan |-> c.plan, start |-> c.start, end |-> c.end, spent |-> c.spent]
  BY DEF IsDatabase
<1>3. CASE c = NoCycle
  BY <1>3 DEF Renewing
<1>4. CASE c # NoCycle
  <2>1. was.key.plan # Nil /\ c.plan = was.key.plan /\ c.start > 0
    BY <1>1, <1>4 DEF SoundCycle, Bound
  <2>2. Renewing(was) = [plan |-> c.plan, start |-> c.start, end |-> c.start + Length(was.plan), spent |-> c.spent]
    BY <1>4 DEF Renewing
  <2>3. [Renewing(was) EXCEPT !.end = 0] = [c EXCEPT !.end = 0]
    BY <1>2, <2>2
  <2> QED
    BY <2>1, <2>2, <2>3
<1> QED
  BY <1>3, <1>4

LEMMA PlanAndKeyValid ==
  ASSUME NEW was, IsDatabase(was), was.version \in Migratable \cup {SchemaVersion}, Sound(was),
         NEW db, db.plan.id = was.plan.id, db.key.plan = was.key.plan, db.plan.limit = "amount",
         db.plan.period = Length(was.plan), db.key.cycle = Renewing(was)
  PROVE  ValidPlan(db.plan) /\ ValidKey(db)
<1>1. SoundPlan(was) /\ was.key.plan \in {Nil, was.plan.id}
  BY DEF Sound, Migratable, SchemaVersion
<1>2. Length(was.plan) \in 1 .. MaxPeriod
  BY <1>1, SoundLength
<1>3. ValidPlan(db.plan)
  BY <1>2 DEF ValidPlan
<1>4. ValidCycle(db)
  BY RenewingKeeps DEF ValidCycle, Bound
<1> QED
  BY <1>1, <1>3, <1>4 DEF ValidKey

\* What it has come to can be loaded and has kept everything.
LEMMA AtLast ==
  ASSUME NEW was, IsDatabase(was), was.version \in Migratable \cup {SchemaVersion}, Sound(was),
         NEW db, OnTheWay(db, was, 16)
  PROVE  db.columns = SchemaColumns /\ Loads(db) /\ Keeps(db, was)
<1>1. was.version \in Nat
  BY DEF IsDatabase
<1>2. db.columns = SchemaColumns
  BY <1>1, ColumnsAtEnd DEF OnTheWay, RowsOnTheWay
<1>3. /\ db.plan.id = was.plan.id /\ db.key.plan = was.key.plan /\ db.plan.limit = "amount"
      /\ db.plan.period = Length(was.plan) /\ db.key.cycle = Renewing(was)
  BY DEF OnTheWay, RowsOnTheWay
<1>4. Loads(db)
  BY <1>3, PlanAndKeyValid DEF Loads, OnTheWay, RowsOnTheWay
<1>5. Keeps(db, was)
  <2>1. db.key.cycle # NoCycle => db.key.cycle.end = db.key.cycle.start + db.plan.period
    BY <1>3, RenewingKeeps
  <2>2. [db.key.cycle EXCEPT !.end = 0] = [was.key.cycle EXCEPT !.end = 0]
    BY <1>3, RenewingKeeps
  <2>3. db.plan.period = IF PeriodOf(was.plan) = 0 THEN 365 ELSE PeriodOf(was.plan)
    BY <1>3 DEF Length
  <2>4. /\ AllowedModels(db) = AllowedModels(was)
        /\ db.event.account = IF was.stored = Nil THEN was.event.account ELSE was.stored.account
        /\ was.event.provider # Nil => db.event.provider = was.event.provider
        /\ db.event.report = (was.event.report \/ was.event.headers = "quota")
    BY DEF OnTheWay, RowsOnTheWay, AccountOf
  <2> QED
    BY <2>1, <2>2, <2>3, <2>4 DEF Keeps
<1> QED
  BY <1>2, <1>4, <1>5

----------------------------------------------------------------------------
(* Each step converts rows as they are at its place *)

\* Steps that convert nothing.
Plain == {"modelPricing", "responseHeaders", "requestErrorReason", "upstreamResponseReports", "requestInfo",
          "executionMetadata", "clientHeaders", "configuredProviders", "sharedQuotas"}

LEMMA PlainStep ==
  ASSUME NEW step \in Plain, NEW db, db.damaged = {}
  PROVE  Readable(step, db) /\ Converted(step, db) = db
BY DEF Plain, Readable, Converted

LEMMA PlainRows ==
  ASSUME NEW was, NEW db, NEW p \in {2, 5, 6, 7, 8, 9, 11, 12, 15}, RowsOnTheWay(db, was, p)
  PROVE  RowsOnTheWay(db, was, p + 1)
BY DEF RowsOnTheWay

LEMMA ModelGroupsRows ==
  ASSUME NEW was, IsDatabase(was), was.version = 10, Sound(was)
  PROVE  RowsOnTheWay(ModelGroups(was), was, 1) /\ ModelGroups(was).columns = was.columns
<1> DEFINE new == ModelGroups(was)
           left == {g \in was.key.bindings.routes : g \in DOMAIN was.routes /\ was.routes[g] # {}}
<1>1. /\ new = [was EXCEPT !.key.bindings.routes = left]
  BY DEF ModelGroups
<1> HIDE DEF left, new
<1>2. /\ new.version = was.version /\ new.columns = was.columns /\ new.indexes = was.indexes /\ new.plan = was.plan
      /\ new.routes = was.routes /\ new.event = was.event /\ new.stored = was.stored
      /\ new.configured = was.configured /\ new.noted = was.noted /\ new.damaged = was.damaged
      /\ new.key = [was.key EXCEPT !.bindings.routes = left]
  BY <1>1 DEF IsDatabase
<1>3. /\ new.key.plan = was.key.plan /\ new.key.list = was.key.list /\ new.key.cycle = was.key.cycle
      /\ new.key.bindings = [was.key.bindings EXCEPT !.routes = left]
  BY <1>2 DEF IsDatabase
<1>4. new.key.bindings.routes = left /\ new.key.bindings.models = was.key.bindings.models
  BY <1>3 DEF IsDatabase
<1>5. IsDatabase(new)
  BY <1>1, <1>2, <1>3 DEF IsDatabase
<1>6. AllowedModels(new) = AllowedModels(was)
  <2> DEFINE listed(kind) == {b.value : b \in {c \in was.key.list : c.kind = kind}}
             before == (was.key.bindings.routes \cup listed("route")) \cap DOMAIN was.routes
             after == (left \cup listed("route")) \cap DOMAIN was.routes
  <2>1. AllowedModels(was) = was.key.bindings.models \cup listed("model") \cup UNION {was.routes[r] : r \in before}
    BY DEF AllowedModels
  <2>2. AllowedModels(new) = was.key.bindings.models \cup listed("model") \cup UNION {was.routes[r] : r \in after}
    BY <1>2, <1>3, <1>4 DEF AllowedModels
  <2>3. after \subseteq before /\ \A r \in before : r \in after \/ was.routes[r] = {}
    BY DEF left
  <2> HIDE DEF listed, before, after
  <2>4. UNION {was.routes[r] : r \in before} = UNION {was.routes[r] : r \in after}
    BY <2>3
  <2> QED
    BY <2>1, <2>2, <2>4
<1>7. left \subseteq DOMAIN was.routes
  BY DEF left
<1>8. was.damaged = {}
  BY DEF Sound
<1> QED
  BY <1>2, <1>3, <1>4, <1>5, <1>6, <1>7, <1>8 DEF RowsOnTheWay, new

LEMMA LegacyRouteBindingsRows ==
  ASSUME NEW was, IsDatabase(was), was.version = 11, Sound(was)
  PROVE  RowsOnTheWay(LegacyRouteBindings(was), was, 1) /\ LegacyRouteBindings(was).columns = was.columns
<1> DEFINE new == LegacyRouteBindings(was)
           values(kind) == {b.value : b \in {c \in was.key.list : c.kind = kind}}
           bound == [routes |-> values("route"), models |-> values("model"),
                     credentials |-> values("credential"), providers |-> values("credential_provider")]
           routes == [r \in DOMAIN was.routes \ {SystemAll} |-> was.routes[r]]
<1>1. new = [was EXCEPT !.key.list = {}, !.key.bindings = bound, !.routes = routes]
  BY DEF LegacyRouteBindings
<1>2. bound.routes = values("route") /\ bound.models = values("model") /\ bound = [bound EXCEPT !.routes = @]
  OBVIOUS
<1>3. /\ was.key.bindings = NoBindings /\ values("route") \subseteq DOMAIN was.routes \ {SystemAll}
  BY DEF Sound, SoundBindings, Migratable, SchemaVersion
<1>4. bound \in [routes : {bound.routes}, models : {bound.models}, credentials : {bound.credentials},
                 providers : {bound.providers}]
  OBVIOUS
<1> HIDE DEF values, bound, routes, new
<1>5. /\ new.version = was.version /\ new.columns = was.columns /\ new.indexes = was.indexes /\ new.plan = was.plan
      /\ new.routes = routes /\ new.event = was.event /\ new.stored = was.stored
      /\ new.configured = was.configured /\ new.noted = was.noted /\ new.damaged = was.damaged
      /\ new.key = [was.key EXCEPT !.list = {}, !.bindings = bound]
  BY <1>1 DEF IsDatabase
<1>6. /\ new.key.plan = was.key.plan /\ new.key.list = {} /\ new.key.cycle = was.key.cycle
      /\ new.key.bindings = bound
  BY <1>5 DEF IsDatabase
<1>7. IsDatabase(new)
  BY ZenonT(60), <1>1, <1>4, <1>5, <1>6 DEF IsDatabase
<1>8. DOMAIN routes = DOMAIN was.routes \ {SystemAll} /\ \A r \in DOMAIN routes : routes[r] = was.routes[r]
  BY DEF routes
<1>9. AllowedModels(new) = AllowedModels(was)
  <2>1. AllowedModels(was) = values("model") \cup UNION {was.routes[r] : r \in values("route") \cap DOMAIN was.routes}
    BY <1>3 DEF AllowedModels, NoBindings, values
  <2>2. AllowedModels(new) = values("model") \cup UNION {routes[r] : r \in values("route") \cap DOMAIN routes}
    BY <1>2, <1>5, <1>6 DEF AllowedModels
  <2> QED
    BY <1>3, <1>8, <2>1, <2>2
<1>10. was.damaged = {}
  BY DEF Sound
<1> QED
  BY <1>2, <1>3, <1>5, <1>6, <1>7, <1>8, <1>9, <1>10 DEF RowsOnTheWay, new

LEMMA SubscriptionPeriodsRows ==
  ASSUME NEW was, IsDatabase(was), was.version \in 10 .. 11, Sound(was), NEW db, RowsOnTheWay(db, was, 1)
  PROVE  /\ ReadablePeriod(db.plan)
         /\ RowsOnTheWay(SubscriptionPeriods(db), was, 2) /\ SubscriptionPeriods(db).columns = db.columns
<1> DEFINE new == SubscriptionPeriods(db)
           length == CASE db.plan.kind = "daily" -> 1
                       [] db.plan.kind = "weekly" -> 7
                       [] db.plan.kind = "monthly" -> 30
                       [] db.plan.kind = "custom" -> db.plan.period
                       [] OTHER -> 0
<1>1. /\ db.plan.kind = was.plan.kind /\ db.plan.period = was.plan.period
      /\ was.plan.kind \in PeriodKinds /\ (was.plan.kind = "custom" => was.plan.period \in 1 .. MaxPeriod)
  BY DEF RowsOnTheWay, Sound, SoundPlan, Migratable, SchemaVersion
<1>2. length = PeriodOf(was.plan)
  BY <1>1 DEF PeriodOf, PeriodKinds
<1>3. PeriodOf(was.plan) \in Nat
  BY SoundLength DEF Sound, Migratable, SchemaVersion
<1>4. new = [db EXCEPT !.plan.kind = Nil, !.plan.period = length]
  BY DEF SubscriptionPeriods
<1>5. IsDatabase(db)
  BY DEF RowsOnTheWay
<1> HIDE DEF length, new
<1>6. /\ new.version = db.version /\ new.columns = db.columns /\ new.indexes = db.indexes /\ new.key = db.key
      /\ new.routes = db.routes /\ new.event = db.event /\ new.stored = db.stored
      /\ new.configured = db.configured /\ new.noted = db.noted /\ new.damaged = db.damaged
      /\ new.plan = [db.plan EXCEPT !.kind = Nil, !.period = length]
  BY <1>4, <1>5 DEF IsDatabase
<1>7. new.plan.id = db.plan.id /\ new.plan.period = length /\ new.plan.kind = Nil
  BY <1>5, <1>6 DEF IsDatabase
<1>8. IsDatabase(new)
  BY ZenonT(60), <1>2, <1>3, <1>4, <1>5, <1>6, <1>7 DEF IsDatabase
<1>9. ReadablePeriod(db.plan)
  BY <1>1 DEF ReadablePeriod
<1>10. AllowedModels(new) = AllowedModels(db)
  BY <1>6 DEF AllowedModels
<1> QED
  BY <1>2, <1>6, <1>7, <1>8, <1>9, <1>10 DEF RowsOnTheWay, new

LEMMA QuotaWindowsRows ==
  ASSUME NEW was, IsDatabase(was), was.version \in 10 .. 12, Sound(was), NEW db, RowsOnTheWay(db, was, 3)
  PROVE  /\ ReadableWindows(db)
         /\ RowsOnTheWay(QuotaWindows(db), was, 4) /\ QuotaWindows(db).columns = db.columns
<1> DEFINE new == QuotaWindows(db)
           c == db.key.cycle
           never == db.plan.period = 0 /\ db.key.plan = db.plan.id
           end == IF never /\ c.start # 0 /\ c.end = 0 THEN c.start + 365 ELSE c.end
           plan == [db.plan EXCEPT !.limit = "amount", !.period = IF @ = 0 THEN 365 ELSE @]
<1>1. IsDatabase(db) /\ c = was.key.cycle /\ db.plan.period = PeriodOf(was.plan)
      /\ db.plan.id = was.plan.id /\ db.key.plan = was.key.plan
  BY DEF RowsOnTheWay
<1>2. SoundPlan(was) /\ SoundCycle(was) /\ was.key.plan \in {Nil, was.plan.id} /\ was.version \in Migratable
  BY DEF Sound, Migratable, SchemaVersion
<1>3. PeriodOf(was.plan) \in Nat /\ Length(was.plan) \in 1 .. MaxPeriod
  BY <1>2, SoundLength
<1>4. /\ plan.id = was.plan.id /\ plan.limit = "amount" /\ plan.period = Length(was.plan) /\ plan.kind = db.plan.kind
      /\ plan \in [id : {plan.id}, kind : {plan.kind}, period : Nat, limit : {plan.limit}]
  <2> DEFINE old == db.plan
             period == IF old.period = 0 THEN 365 ELSE old.period
  <2>1. old \in [id : {old.id}, kind : {old.kind}, period : Nat, limit : {old.limit}]
    BY <1>1 DEF IsDatabase
  <2>2. plan = [old EXCEPT !.limit = "amount", !.period = period]
    BY <2>1
  <2>3. period = Length(was.plan)
    BY <1>1 DEF Length
  <2> HIDE DEF old, period, plan
  <2>4. /\ plan.id = old.id /\ plan.limit = "amount" /\ plan.period = period /\ plan.kind = old.kind
        /\ plan \in [id : {old.id}, kind : {old.kind}, period : {period}, limit : {"amount"}]
    BY <2>1, <2>2
  <2> QED
    BY <1>1, <1>3, <2>3, <2>4 DEF old
<1>5. c \in [plan : {c.plan}, start : Nat, end : Nat, spent : {c.spent}]
  BY <1>1 DEF IsDatabase
<1>6. end \in Nat /\ [c EXCEPT !.end = end] = Renewing(was)
  <2>1. CASE c = NoCycle
    <3>1. c.start = 0 /\ c.end = 0 /\ end = c.end
      BY <2>1 DEF NoCycle
    <3>2. [c EXCEPT !.end = c.end] = c
      BY <1>5
    <3> QED
      BY <1>1, <2>1, <3>1, <3>2 DEF Renewing
  <2>2. CASE c # NoCycle
    <3>1. /\ was.key.plan # Nil /\ c.start > 0
          /\ c.end = IF PeriodOf(was.plan) = 0 THEN 0 ELSE c.start + PeriodOf(was.plan)
      BY <1>1, <1>2, <2>2 DEF SoundCycle, Bound
    <3>2. end = c.start + Length(was.plan)
      BY <1>1, <1>2, <1>3, <1>5, <3>1 DEF Length
    <3> HIDE DEF end
    <3>3. [c EXCEPT !.end = end] = [plan |-> c.plan, start |-> c.start, end |-> end, spent |-> c.spent]
      BY <1>5
    <3>4. Renewing(was) = [plan |-> c.plan, start |-> c.start, end |-> c.start + Length(was.plan), spent |-> c.spent]
      BY <1>1, <2>2 DEF Renewing
    <3> QED
      BY <1>3, <1>5, <3>2, <3>3, <3>4
  <2> QED
    BY <2>1, <2>2
<1>7. new = [db EXCEPT !.plan = plan, !.key.cycle.end = end]
  BY DEF QuotaWindows
<1> HIDE DEF end, plan, never, new
<1>8. /\ new.version = db.version /\ new.columns = db.columns /\ new.indexes = db.indexes /\ new.plan = plan
      /\ new.routes = db.routes /\ new.event = db.event /\ new.stored = db.stored
      /\ new.configured = db.configured /\ new.noted = db.noted /\ new.damaged = db.damaged
      /\ new.key = [db.key EXCEPT !.cycle.end = end]
  BY <1>1, <1>7 DEF IsDatabase
<1>9. /\ new.key.plan = db.key.plan /\ new.key.list = db.key.list /\ new.key.bindings = db.key.bindings
      /\ new.key.cycle = [c EXCEPT !.end = end]
  BY <1>1, <1>8 DEF IsDatabase
<1>10. IsDatabase(new)
  <2> DEFINE cycle == [c EXCEPT !.end = end]
  <2>1. cycle \in [plan : {cycle.plan}, start : Nat, end : Nat, spent : {cycle.spent}]
    BY <1>5, <1>6
  <2>2. new.key.cycle = cycle
    BY <1>9
  <2> HIDE DEF cycle
  <2>3. new.key \in [plan : {new.key.plan}, list : {new.key.list}, bindings : {new.key.bindings}, cycle : {cycle}]
    BY <1>1, <1>8, <2>2 DEF IsDatabase
  <2>4. new.key.bindings \in
          [routes : {new.key.bindings.routes}, models : {new.key.bindings.models},
           credentials : {new.key.bindings.credentials}, providers : {new.key.bindings.providers}]
    BY <1>1, <1>9 DEF IsDatabase
  <2>5. new.key \in [plan : {new.key.plan}, list : {new.key.list},
                     cycle : [plan : {new.key.cycle.plan}, start : Nat, end : Nat, spent : {new.key.cycle.spent}],
                     bindings : [routes : {new.key.bindings.routes}, models : {new.key.bindings.models},
                                 credentials : {new.key.bindings.credentials}, providers : {new.key.bindings.providers}]]
    <3> DEFINE cycles == [plan : {new.key.cycle.plan}, start : Nat, end : Nat, spent : {new.key.cycle.spent}]
               bindings == [routes : {new.key.bindings.routes}, models : {new.key.bindings.models},
                            credentials : {new.key.bindings.credentials}, providers : {new.key.bindings.providers}]
    <3>1. cycle \in cycles /\ new.key.bindings \in bindings
      BY <2>1, <2>2, <2>4
    <3> HIDE DEF cycles, bindings
    <3>2. new.key \in [plan : {new.key.plan}, list : {new.key.list}, cycle : cycles, bindings : bindings]
      BY <2>3, <3>1
    <3> QED
      BY <3>2 DEF cycles, bindings
  <2>6. new.plan \in [id : {new.plan.id}, kind : {new.plan.kind}, period : Nat, limit : {new.plan.limit}]
    BY <1>1, <1>4, <1>8 DEF IsDatabase
  <2>7. /\ new.version \in Nat
        /\ new.event \in [provider : {new.event.provider}, account : {new.event.account}, headers : {new.event.headers},
                          report : BOOLEAN]
    BY <1>1, <1>8 DEF IsDatabase
  <2>8. new = [version |-> new.version, columns |-> new.columns, indexes |-> new.indexes, plan |-> new.plan,
               key |-> new.key, routes |-> new.routes, event |-> new.event, stored |-> new.stored,
               configured |-> new.configured, noted |-> new.noted, damaged |-> new.damaged]
    BY <1>1, <1>7 DEF IsDatabase
  <2> QED
    BY <2>5, <2>6, <2>7, <2>8 DEF IsDatabase
<1>11. ReadableWindows(db)
  <2>1. ValidPlan(new.plan) /\ ValidKey(new)
    BY ZenonT(60), <1>1, <1>2, <1>4, <1>6, <1>8, <1>9, PlanAndKeyValid
  <2> QED
    BY <2>1 DEF ReadableWindows, new
<1>12. AllowedModels(new) = AllowedModels(db)
  BY <1>8, <1>9 DEF AllowedModels
<1> QED
  BY <1>1, <1>4, <1>6, <1>8, <1>9, <1>10, <1>11, <1>12 DEF RowsOnTheWay, new

LEMMA CredentialsRows ==
  ASSUME NEW was, NEW db, RowsOnTheWay(db, was, 4)
  PROVE  RowsOnTheWay(Credentials(db), was, 5) /\ Credentials(db).columns = db.columns
<1> DEFINE new == Credentials(db)
           e == db.event
           event == IF db.stored = Nil THEN e
                    ELSE [e EXCEPT !.account = db.stored.account,
                                   !.provider = IF @ = Nil THEN db.stored.provider ELSE @]
<1>1. IsDatabase(db)
  BY DEF RowsOnTheWay
<1>2. e \in [provider : {e.provider}, account : {e.account}, headers : {e.headers}, report : BOOLEAN]
  BY <1>1 DEF IsDatabase
<1>3. /\ event \in [provider : {event.provider}, account : {event.account}, headers : {e.headers}, report : {e.report}]
      /\ event.account = IF db.stored = Nil THEN e.account ELSE db.stored.account
      /\ e.provider # Nil => event.provider = e.provider
  <2>1. CASE db.stored = Nil
    BY <2>1, <1>2
  <2>2. CASE db.stored # Nil
    <3> DEFINE provider == IF e.provider = Nil THEN db.stored.provider ELSE e.provider
               account == db.stored.account
    <3> HIDE DEF e
    <3>1. event = [e EXCEPT !.account = account, !.provider = provider]
      BY <2>2, <1>2
    <3>2. e.provider # Nil => provider = e.provider
      OBVIOUS
    <3> HIDE DEF provider, account, event
    <3>3. event = [provider |-> provider, account |-> account, headers |-> e.headers, report |-> e.report]
      BY <1>2, <3>1
    <3> QED
      BY <2>2, <3>2, <3>3 DEF account
  <2> QED
    BY <2>1, <2>2
<1>4. new = [db EXCEPT !.event = event, !.stored = Nil]
  BY DEF Credentials
<1> HIDE DEF event, new
<1>5. /\ new.version = db.version /\ new.columns = db.columns /\ new.indexes = db.indexes /\ new.plan = db.plan
      /\ new.key = db.key /\ new.routes = db.routes /\ new.event = event /\ new.stored = Nil
      /\ new.configured = db.configured /\ new.noted = db.noted /\ new.damaged = db.damaged
  BY <1>1, <1>4 DEF IsDatabase
<1>6. event.headers = e.headers /\ event.report = e.report /\ e.report \in BOOLEAN
  BY <1>2, <1>3
<1>7. IsDatabase(new)
  BY <1>1, <1>3, <1>4, <1>5, <1>6 DEF IsDatabase
<1>8. AllowedModels(new) = AllowedModels(db)
  BY <1>5 DEF AllowedModels
<1> QED
  BY <1>3, <1>5, <1>6, <1>7, <1>8 DEF RowsOnTheWay, AccountOf, new

LEMMA QuotaReportsRows ==
  ASSUME NEW was, IsDatabase(was), was.version \in 10 .. 19, SoundEvent(was), NEW db, RowsOnTheWay(db, was, 10)
  PROVE  /\ db.event.headers # "damaged"
         /\ RowsOnTheWay(QuotaReports(db), was, 11) /\ QuotaReports(db).columns = db.columns
<1> DEFINE new == QuotaReports(db)
           e == db.event
           report == db.event.headers = "quota"
<1>1. IsDatabase(db) /\ e.headers = was.event.headers
  BY DEF RowsOnTheWay
<1>2. new = [db EXCEPT !.event.report = report, !.event.headers = "none"]
  BY DEF QuotaReports
<1>3. report \in BOOLEAN /\ report = (was.event.report \/ was.event.headers = "quota")
  <2>1. ~was.event.report
    BY DEF SoundEvent
  <2> QED
    BY <1>1, <2>1
<1>8. e.headers # "damaged"
  BY <1>1 DEF SoundEvent
<1> HIDE DEF new, report
<1>4. /\ new.version = db.version /\ new.columns = db.columns /\ new.indexes = db.indexes /\ new.plan = db.plan
      /\ new.key = db.key /\ new.routes = db.routes /\ new.stored = db.stored
      /\ new.configured = db.configured /\ new.noted = db.noted /\ new.damaged = db.damaged
      /\ new.event = [e EXCEPT !.report = report, !.headers = "none"]
  BY <1>1, <1>2 DEF IsDatabase
<1>5. /\ new.event.account = e.account /\ new.event.provider = e.provider /\ new.event.report = report
      /\ new.event \in [provider : {e.provider}, account : {e.account}, headers : {"none"}, report : {report}]
  BY <1>1, <1>4 DEF IsDatabase
<1>6. IsDatabase(new)
  <2>1. new.event \in [provider : {new.event.provider}, account : {new.event.account},
                       headers : {new.event.headers}, report : BOOLEAN]
    BY <1>3, <1>5
  <2>2. new = [version |-> new.version, columns |-> new.columns, indexes |-> new.indexes, plan |-> new.plan,
               key |-> new.key, routes |-> new.routes, event |-> new.event, stored |-> new.stored,
               configured |-> new.configured, noted |-> new.noted, damaged |-> new.damaged]
    BY <1>1, <1>2 DEF IsDatabase
  <2>3. /\ new.version \in Nat
        /\ new.plan \in [id : {new.plan.id}, kind : {new.plan.kind}, period : Nat, limit : {new.plan.limit}]
        /\ new.key \in [plan : {new.key.plan}, list : {new.key.list},
                     cycle : [plan : {new.key.cycle.plan}, start : Nat, end : Nat, spent : {new.key.cycle.spent}],
                     bindings : [routes : {new.key.bindings.routes}, models : {new.key.bindings.models},
                                 credentials : {new.key.bindings.credentials}, providers : {new.key.bindings.providers}]]
    BY <1>1, <1>4 DEF IsDatabase
  <2> QED
    BY <2>1, <2>2, <2>3 DEF IsDatabase
<1>7. AllowedModels(new) = AllowedModels(db)
  BY <1>4 DEF AllowedModels
<1> QED
  BY <1>3, <1>4, <1>5, <1>6, <1>7, <1>8 DEF RowsOnTheWay, new

LEMMA CredentialNotesRows ==
  ASSUME NEW was, NEW db, RowsOnTheWay(db, was, 13)
  PROVE  RowsOnTheWay(CredentialNotes(db), was, 14) /\ CredentialNotes(db).columns = db.columns
<1> DEFINE new == CredentialNotes(db)
<1>1. IsDatabase(db) /\ new = [db EXCEPT !.noted = db.configured]
  BY DEF RowsOnTheWay, CredentialNotes
<1> HIDE DEF new
<1>2. /\ new.version = db.version /\ new.columns = db.columns /\ new.indexes = db.indexes /\ new.plan = db.plan
      /\ new.key = db.key /\ new.routes = db.routes /\ new.event = db.event /\ new.stored = db.stored
      /\ new.configured = db.configured /\ new.damaged = db.damaged
  BY <1>1 DEF IsDatabase
<1>3. IsDatabase(new)
  BY <1>1, <1>2 DEF IsDatabase
<1>4. AllowedModels(new) = AllowedModels(db)
  BY <1>2 DEF AllowedModels
<1> QED
  BY <1>2, <1>3, <1>4 DEF RowsOnTheWay, new

LEMMA CurrenciesRows ==
  ASSUME NEW was, NEW db, RowsOnTheWay(db, was, 14)
  PROVE  RowsOnTheWay(Currencies(db), was, 15) /\ Currencies(db).columns = db.columns
<1> DEFINE new == Currencies(db)
           limit == IF db.plan.limit = "amount_usd" THEN "amount" ELSE db.plan.limit
<1>1. IsDatabase(db) /\ new = [db EXCEPT !.plan.limit = limit]
  BY DEF RowsOnTheWay, Currencies
<1>2. limit = "amount"
  BY DEF RowsOnTheWay
<1> HIDE DEF new, limit
<1>3. /\ new.version = db.version /\ new.columns = db.columns /\ new.indexes = db.indexes
      /\ new.key = db.key /\ new.routes = db.routes /\ new.event = db.event /\ new.stored = db.stored
      /\ new.configured = db.configured /\ new.noted = db.noted /\ new.damaged = db.damaged
      /\ new.plan = [db.plan EXCEPT !.limit = limit]
  BY <1>1 DEF IsDatabase
<1>4. /\ new.plan.id = db.plan.id /\ new.plan.period = db.plan.period /\ new.plan.kind = db.plan.kind
      /\ new.plan.limit = limit
  BY <1>1, <1>3 DEF IsDatabase
<1>5. IsDatabase(new)
  BY <1>1, <1>3, <1>4 DEF IsDatabase
<1>6. AllowedModels(new) = AllowedModels(db)
  BY <1>3 DEF AllowedModels
<1> QED
  BY <1>2, <1>3, <1>4, <1>5, <1>6 DEF RowsOnTheWay, new

\* No step adds the column that no version knows.
LEMMA NoUnknownField ==
  ASSUME NEW steps \in SUBSET StepNames
  PROVE  "credentials.unknown_field" \notin ColumnsAfter(steps)
<1>1. "credentials.unknown_field" \notin OldestColumns
  BY DEF OldestColumns
<1>2. ASSUME NEW s \in StepNames PROVE "credentials.unknown_field" \notin Change[s].adds
  BY DEF StepNames, Change,
         ModelGroupsStep, LegacyRouteBindingsStep, SubscriptionPeriodsStep, ModelPricingStep, QuotaWindowsStep,
         CredentialsStep, ResponseHeadersStep, RequestErrorReasonStep, UpstreamResponseReportsStep, RequestInfoStep,
         ExecutionMetadataStep, QuotaReportsStep, ClientHeadersStep, ConfiguredProvidersStep, CredentialNotesStep,
         CurrenciesStep, SharedQuotasStep
<1> QED
  BY <1>1, <1>2 DEF ColumnsAfter

\* Rows are the same whatever the columns.
LEMMA RowsWithColumns ==
  ASSUME NEW was, NEW db, NEW p \in Nat \ {0}, RowsOnTheWay(db, was, p), NEW columns
  PROVE  RowsOnTheWay([db EXCEPT !.columns = columns], was, p) /\ [db EXCEPT !.columns = columns].columns = columns
<1> DEFINE new == [db EXCEPT !.columns = columns]
<1>1. IsDatabase(db) /\ new = [db EXCEPT !.columns = columns]
  BY DEF RowsOnTheWay
<1> HIDE DEF new
<1>2. /\ new.version = db.version /\ new.columns = columns /\ new.indexes = db.indexes /\ new.plan = db.plan
      /\ new.key = db.key /\ new.routes = db.routes /\ new.event = db.event /\ new.stored = db.stored
      /\ new.configured = db.configured /\ new.noted = db.noted /\ new.damaged = db.damaged
  BY <1>1 DEF IsDatabase
<1>3. IsDatabase(new)
  BY <1>1, <1>2 DEF IsDatabase
<1>4. AllowedModels(new) = AllowedModels(db)
  BY <1>2 DEF AllowedModels
<1>5. RowsOnTheWay(new, was, p)
  BY <1>2, <1>3, <1>4 DEF RowsOnTheWay
<1> QED
  BY <1>2, <1>5 DEF new

\* Each step applies at its place of the path, and makes what is there at the next.
LEMMA StepOnTheWay ==
  ASSUME NEW was, IsDatabase(was), was.version \in Migratable, Sound(was),
         NEW p \in 0 .. 15, p >= Place(was.version), NEW db, OnTheWay(db, was, p)
  PROVE  LET step == StepAt(was.version, p)
         IN  Applies(step, db) /\ OnTheWay(Applied(step, db), was, p + 1)
<1> DEFINE step == StepAt(was.version, p)
           new == Converted(step, db)
<1>1. was.version \in 10 .. 24 /\ was.version \in Nat
  BY DEF Migratable, SchemaVersion
<1>2. (p <= 1 => was.version \in 10 .. 11) /\ (p <= 3 => was.version \in 10 .. 12) /\ (p <= 10 => was.version <= 19)
  BY <1>1 DEF Place
<1>3. RowsOnTheWay(db, was, p) /\ db.columns = ColumnsAfter(Before(was.version, p)) /\ db.damaged = {}
  BY DEF OnTheWay, RowsOnTheWay
<1>4. Readable(step, db) /\ RowsOnTheWay(new, was, p + 1) /\ new.columns = db.columns
  <2>1. CASE p = 0 /\ was.version = 10
    <3>1. step = "modelGroups" /\ db = was
      BY <1>3, <2>1 DEF StepAt, RowsOnTheWay
    <3> QED
      BY <1>3, <2>1, <3>1, ModelGroupsRows DEF Readable, Converted
  <2>2. CASE p = 0 /\ was.version = 11
    <3>1. step = "legacyRouteBindings" /\ db = was
      BY <1>3, <2>2 DEF StepAt, RowsOnTheWay
    <3>2. ReadableBindings(was)
      BY <2>2 DEF Sound, SoundBindings
    <3> QED
      BY <1>3, <2>2, <3>1, <3>2, LegacyRouteBindingsRows DEF Readable, Converted
  <2>3. CASE p = 1
    <3>1. step = "subscriptionPeriods"
      BY <2>3 DEF StepAt, Path
    <3> QED
      BY <1>2, <1>3, <2>3, <3>1, SubscriptionPeriodsRows DEF Readable, Converted
  <2>4. CASE p = 3
    <3>1. step = "quotaWindows"
      BY <2>4 DEF StepAt, Path
    <3> QED
      BY <1>2, <1>3, <2>4, <3>1, QuotaWindowsRows DEF Readable, Converted
  <2>5. CASE p = 4
    <3>1. step = "credentials"
      BY <2>5 DEF StepAt, Path
    <3>2. "credentials.unknown_field" \notin db.columns
      BY <1>1, <1>3, BeforeSteps, NoUnknownField
    <3> QED
      BY <1>3, <2>5, <3>1, <3>2, CredentialsRows DEF Readable, Converted
  <2>6. CASE p = 10
    <3>1. step = "quotaReports"
      BY <2>6 DEF StepAt, Path
    <3>2. SoundEvent(was) /\ was.version \in 10 .. 19
      BY <1>1, <1>2, <2>6 DEF Sound
    <3> QED
      BY <1>3, <2>6, <3>1, <3>2, QuotaReportsRows DEF Readable, Converted
  <2>7. CASE p = 13
    <3>1. step = "credentialNotes"
      BY <2>7 DEF StepAt, Path
    <3> QED
      BY <1>3, <2>7, <3>1, CredentialNotesRows DEF Readable, Converted
  <2>8. CASE p = 14
    <3>1. step = "currencies"
      BY <2>8 DEF StepAt, Path
    <3> QED
      BY <1>3, <2>8, <3>1, CurrenciesRows DEF Readable, Converted
  <2>9. CASE p \in {2, 5, 6, 7, 8, 9, 11, 12, 15}
    <3>1. step \in Plain
      BY <2>9 DEF StepAt, Path, Plain
    <3> HIDE DEF step
    <3>2. Readable(step, db) /\ new = db
      BY <1>3, <3>1, PlainStep
    <3> QED
      BY <1>3, <2>9, <3>2, PlainRows
  <2> QED
    BY <1>2, <2>1, <2>2, <2>3, <2>4, <2>5, <2>6, <2>7, <2>8, <2>9
<1> DEFINE columns == (new.columns \ Change[step].drops) \cup Change[step].adds
<1>5. Applied(step, db) = [new EXCEPT !.columns = columns]
  BY DEF Applied
<1>6. /\ Change[step].adds \cap db.columns = {} /\ Change[step].drops \subseteq db.columns
      /\ columns = ColumnsAfter(Before(was.version, p + 1))
  BY <1>3, <1>4, ColumnsAtNext
<1>7. p + 1 \in Nat \ {0}
  OBVIOUS
<1> HIDE DEF step, new, columns
<1>8. OnTheWay(Applied(step, db), was, p + 1)
  <2> DEFINE made == [new EXCEPT !.columns = columns]
  <2>1. RowsOnTheWay(made, was, p + 1) /\ made.columns = columns
    BY <1>4, <1>7, RowsWithColumns
  <2> HIDE DEF made
  <2>2. OnTheWay(made, was, p + 1)
    BY <1>6, <2>1 DEF OnTheWay
  <2> QED
    BY <1>5, <2>2 DEF made
<1>9. Applies(step, db)
  BY <1>4, <1>6 DEF Applies
<1> QED
  BY <1>8, <1>9 DEF step

----------------------------------------------------------------------------
(* The file, and the transaction that replaces it *)

Fields ==
  {"version", "columns", "indexes", "plan", "key", "routes", "event", "stored", "configured", "noted", "damaged"}

HasFields(db) == DOMAIN db = Fields /\ db = [f \in Fields |-> db[f]]

\* The database that was found lacks nothing that its version had.
Complete(was) == was.version = 0 \/ ColumnsOf(was.version) \subseteq was.columns

\* A database that may take the place of the one that was found.
Fit(db, was) ==
  /\ HasFields(db)
  /\ Complete(was) => SchemaColumns \subseteq db.columns
  /\ Sound(was) => db.columns = SchemaColumns /\ Loads(db)
  /\ Sound(was) /\ was.version \in Migratable => Keeps(db, was)

\* The steps of a version from the place p on.
LeftFrom(left, version, p) ==
  /\ left \in Seq(StepNames) /\ Len(left) = 16 - p
  /\ \A i \in 1 .. Len(left) : left[i] = StepAt(version, p + i - 1)

\* The transaction has come to the place p.
Under(db, was, p) ==
  /\ HasFields(db)
  /\ Complete(was) => ToCome(db.columns, was.version, p)
  /\ Sound(was) => OnTheWay(db, was, p)

Migrating ==
  \/ tx.left = <<>> /\ Fit(tx.db, found)
  \/ /\ found.version \in Migratable
     /\ \E p \in Place(found.version) .. 15 : LeftFrom(tx.left, found.version, p) /\ Under(tx.db, found, p)

OpeningInv ==
  /\ found \in Found
  /\ file # found => file.version = SchemaVersion /\ Fit(file, found)
  /\ stage \in {"closed", "migrating", "migrated", "pruned", "open"}
  /\ stage = "migrating" => Migrating
  /\ stage \in {"migrated", "pruned"} => file.version = SchemaVersion /\ Fit(file, found)
  /\ refused => ~Sound(found)

LEMMA FieldsOfDatabase ==
  ASSUME NEW db, IsDatabase(db)
  PROVE  HasFields(db)
BY DEF IsDatabase, HasFields, Fields

\* Whatever a step converts, its columns are changed by themselves.
LEMMA StepKeepsFields ==
  ASSUME NEW db, HasFields(db), NEW step
  PROVE  /\ HasFields(Applied(step, db))
         /\ Applied(step, db).columns = (db.columns \ Change[step].drops) \cup Change[step].adds
<1> DEFINE new == Converted(step, db)
<1>1. HasFields(new) /\ new.columns = db.columns
  <2>1. HasFields(ModelGroups(db)) /\ ModelGroups(db).columns = db.columns
    BY DEF ModelGroups, HasFields, Fields
  <2>2. HasFields(LegacyRouteBindings(db)) /\ LegacyRouteBindings(db).columns = db.columns
    BY DEF LegacyRouteBindings, HasFields, Fields
  <2>3. HasFields(SubscriptionPeriods(db)) /\ SubscriptionPeriods(db).columns = db.columns
    BY DEF SubscriptionPeriods, HasFields, Fields
  <2>4. HasFields(QuotaWindows(db)) /\ QuotaWindows(db).columns = db.columns
    <3> DEFINE never == db.plan.period = 0 /\ db.key.plan = db.plan.id
               c == db.key.cycle
               plan == [db.plan EXCEPT !.limit = "amount", !.period = IF @ = 0 THEN 365 ELSE @]
               end == IF never /\ c.start # 0 /\ c.end = 0 THEN c.start + 365 ELSE c.end
    <3>1. QuotaWindows(db) = [db EXCEPT !.plan = plan, !.key.cycle.end = end]
      BY DEF QuotaWindows
    <3> HIDE DEF plan, end
    <3> QED
      BY <3>1 DEF HasFields, Fields
  <2>5. HasFields(Credentials(db)) /\ Credentials(db).columns = db.columns
    BY DEF Credentials, HasFields, Fields
  <2>6. HasFields(QuotaReports(db)) /\ QuotaReports(db).columns = db.columns
    BY DEF QuotaReports, HasFields, Fields
  <2>7. HasFields(CredentialNotes(db)) /\ CredentialNotes(db).columns = db.columns
    BY DEF CredentialNotes, HasFields, Fields
  <2>8. HasFields(Currencies(db)) /\ Currencies(db).columns = db.columns
    BY DEF Currencies, HasFields, Fields
  <2> QED
    BY <2>1, <2>2, <2>3, <2>4, <2>5, <2>6, <2>7, <2>8 DEF Converted
<1>2. Applied(step, db) = [new EXCEPT !.columns = (new.columns \ Change[step].drops) \cup Change[step].adds]
  BY DEF Applied
<1> HIDE DEF new
<1> QED
  BY <1>1, <1>2 DEF HasFields, Fields

Committed(db, version, indexes) == [db EXCEPT !.version = version, !.indexes = indexes]

\* A new version and new indexes change nothing else.
LEMMA CommittedFits ==
  ASSUME NEW was, NEW db, Fit(db, was), NEW version, NEW indexes
  PROVE  LET made == Committed(db, version, indexes)
         IN  Fit(made, was) /\ made.version = version
<1> DEFINE made == Committed(db, version, indexes)
<1>1. /\ HasFields(made) /\ made.version = version /\ made.columns = db.columns /\ made.plan = db.plan
      /\ made.key = db.key /\ made.routes = db.routes /\ made.event = db.event /\ made.damaged = db.damaged
  BY DEF Fit, HasFields, Fields, Committed
<1> HIDE DEF made
<1>2. Loads(db) => Loads(made)
  BY <1>1 DEF Loads, ValidPlan, ValidKey, ValidCycle, Bound
<1>3. AllowedModels(made) = AllowedModels(db)
  BY <1>1 DEF AllowedModels
<1>4. Keeps(db, was) => Keeps(made, was)
  BY <1>1, <1>3 DEF Keeps
<1>5. Fit(made, was)
  BY <1>1, <1>2, <1>4 DEF Fit
<1> QED
  BY <1>1, <1>5 DEF made

\* A database of the current schema, or a new one with the schema, is fit as it is.
LEMMA CurrentFits ==
  ASSUME NEW was, IsDatabase(was), was.version = SchemaVersion
  PROVE  Fit(was, was)
<1>1. ColumnsOf(was.version) = SchemaColumns
  <2>1. Place(was.version) = 16 /\ was.version \in Nat
    BY DEF Place, SchemaVersion
  <2> QED
    BY <2>1, ColumnsAtPlace, ColumnsAtEnd
<1>2. Sound(was) => was.columns = SchemaColumns /\ Loads(was)
  <2>1. Place(was.version) = 16
    BY DEF Place, SchemaVersion
  <2> QED
    BY <2>1, AtFirst, AtLast
<1>3. was.version \notin Migratable /\ was.version # 0
  BY DEF Migratable, SchemaVersion
<1> QED
  BY <1>1, <1>2, <1>3, FieldsOfDatabase DEF Fit, Complete

LEMMA NewFits ==
  ASSUME NEW was, IsDatabase(was), was.version = 0
  PROVE  Fit(Fresh(was), was)
<1> DEFINE new == Fresh(was)
<1>1. HasFields(was)
  BY FieldsOfDatabase
<1>2. /\ HasFields(new) /\ new.columns = SchemaColumns /\ new.plan = was.plan
      /\ new.key = was.key /\ new.routes = was.routes /\ new.damaged = was.damaged
  BY <1>1 DEF HasFields, Fields, Fresh
<1>3. was.version \notin Migratable \cup {SchemaVersion}
  BY DEF Migratable, SchemaVersion
<1>4. ASSUME Sound(was) PROVE Loads(new)
  <2>1. /\ was.plan.id = Nil /\ was.key = [plan |-> Nil, cycle |-> NoCycle, list |-> {}, bindings |-> NoBindings]
        /\ was.damaged = {}
    BY <1>3, <1>4 DEF Sound
  <2>2. was.key.plan = Nil /\ was.key.cycle = NoCycle /\ was.key.bindings.routes = {}
    BY <2>1 DEF NoBindings
  <2> HIDE DEF new
  <2> QED
    BY <1>2, <2>1, <2>2 DEF Loads, ValidPlan, ValidKey, ValidCycle
<1> HIDE DEF new
<1>5. Fit(new, was)
  BY <1>2, <1>3, <1>4 DEF Fit
<1> QED
  BY <1>5 DEF new

----------------------------------------------------------------------------
(* The transaction *)

LEMMA FirstUnder ==
  ASSUME NEW was, IsDatabase(was), was.version \in Migratable
  PROVE  /\ Place(was.version) \in Place(was.version) .. 15
         /\ LeftFrom(StepsFrom(was.version), was.version, Place(was.version))
         /\ Under(was, was, Place(was.version))
<1> DEFINE v == was.version
           p == Place(v)
<1>1. p \in 0 .. 15
  BY PlaceType
<1>2. LeftFrom(StepsFrom(v), v, p)
  <2>1. PathTo(StepsFrom(v), v, 15)
    BY StepsArePath
  <2> DEFINE s == StepsFrom(v)
  <2> HIDE DEF s
  <2>2. /\ s \in Seq(StepNames) /\ Len(s) = IF p <= 15 THEN 15 - p + 1 ELSE 0
        /\ \A i \in 1 .. Len(s) : s[i] = StepAt(v, p + i - 1)
    BY <2>1 DEF PathTo, s
  <2> HIDE DEF p
  <2>3. Len(s) = 16 - p
    BY <1>1, <2>2
  <2>4. LeftFrom(s, v, p)
    BY <2>2, <2>3 DEF LeftFrom
  <2> QED
    BY <2>4 DEF p, s
<1>3. v # 0
  BY DEF Migratable, SchemaVersion
<1>4. Under(was, was, p)
  BY <1>3, FieldsOfDatabase, ToComeAtPlace, AtFirst DEF Under, Complete
<1> QED
  BY <1>1, <1>2, <1>4

LEMMA NextLeft ==
  ASSUME NEW v \in Migratable, NEW p \in 0 .. 15, NEW left, LeftFrom(left, v, p)
  PROVE  /\ left # <<>> /\ Head(left) = StepAt(v, p)
         /\ p < 15 => LeftFrom(Tail(left), v, p + 1)
         /\ p = 15 => Tail(left) = <<>>
<1>1. left \in Seq(StepNames) /\ Len(left) = 16 - p /\ \A i \in 1 .. Len(left) : left[i] = StepAt(v, p + i - 1)
  BY DEF LeftFrom
<1>2. left # <<>> /\ Len(left) >= 1
  BY <1>1
<1>3. /\ Head(left) = left[1] /\ Tail(left) \in Seq(StepNames) /\ Len(Tail(left)) = Len(left) - 1
      /\ \A i \in 1 .. Len(Tail(left)) : Tail(left)[i] = left[i + 1]
  BY <1>1, <1>2, HeadTailProperties
<1>4. left[1] = StepAt(v, p)
  <2>1. 1 \in 1 .. Len(left) /\ p + 1 - 1 = p
    BY <1>1, <1>2
  <2> QED
    BY <1>1, <2>1
<1>5. ASSUME NEW i \in 1 .. Len(Tail(left)) PROVE Tail(left)[i] = StepAt(v, (p + 1) + i - 1)
  <2>1. i + 1 \in 1 .. Len(left) /\ p + (i + 1) - 1 = (p + 1) + i - 1
    BY <1>1, <1>3
  <2> QED
    BY <1>1, <1>3, <2>1
<1>6. Len(Tail(left)) = 16 - (p + 1)
  BY <1>1, <1>3
<1>7. LeftFrom(Tail(left), v, p + 1)
  BY <1>3, <1>5, <1>6 DEF LeftFrom
<1>8. p = 15 => Tail(left) = <<>>
  <2> DEFINE rest == Tail(left)
  <2>1. p = 15 => Len(rest) = 0
    BY <1>6
  <2>2. rest \in Seq(StepNames)
    BY <1>3
  <2> HIDE DEF rest
  <2>3. rest # <<>> => Len(rest) \in Nat \ {0}
    BY <2>2, EmptySeq
  <2>4. p = 15 => rest = <<>>
    BY <2>1, <2>3
  <2> QED
    BY <2>4 DEF rest
<1> QED
  BY <1>2, <1>3, <1>4, <1>7, <1>8

LEMMA NextUnder ==
  ASSUME NEW was, IsDatabase(was), was.version \in Migratable,
         NEW p \in 0 .. 15, p >= Place(was.version), NEW db, Under(db, was, p)
  PROVE  LET step == StepAt(was.version, p)
         IN  Under(Applied(step, db), was, p + 1) /\ (Sound(was) => Applies(step, db))
<1> DEFINE step == StepAt(was.version, p)
           new == Applied(step, db)
<1>1. HasFields(new) /\ new.columns = (db.columns \ Change[step].drops) \cup Change[step].adds
  BY StepKeepsFields DEF Under
<1>2. Complete(was) => ToCome(new.columns, was.version, p + 1)
  <2>1. Complete(was) => ToCome(db.columns, was.version, p)
    BY DEF Under
  <2> HIDE DEF new
  <2> QED
    BY <1>1, <2>1, ToComeAtNext
<1>3. Sound(was) => OnTheWay(new, was, p + 1) /\ Applies(step, db)
  <2>1. Sound(was) => OnTheWay(db, was, p)
    BY DEF Under
  <2> QED
    BY <2>1, StepOnTheWay
<1> HIDE DEF new, step
<1>4. Under(new, was, p + 1)
  BY <1>1, <1>2, <1>3 DEF Under
<1> QED
  BY <1>3, <1>4 DEF new, step

LEMMA LastFits ==
  ASSUME NEW was, IsDatabase(was), was.version \in Migratable, NEW db, Under(db, was, 16)
  PROVE  Fit(db, was)
<1>1. Complete(was) => SchemaColumns \subseteq db.columns
  <2>1. \A i \in 16 .. 15 : FALSE
    OBVIOUS
  <2> QED
    BY <2>1 DEF Under, ToCome
<1>2. Sound(was) => db.columns = SchemaColumns /\ Loads(db) /\ Keeps(db, was)
  BY AtLast DEF Under
<1> QED
  BY <1>1, <1>2 DEF Fit, Under

----------------------------------------------------------------------------
(* The invariant *)

LEMMA OpeningInit ==
  ASSUME InitDatabases
  PROVE  OpeningInv
BY DEF InitDatabases, OpeningInv

LEMMA BeginKeeps ==
  ASSUME OpeningInv, Begin
  PROVE  OpeningInv'
<1>1. /\ found \in Found /\ (file # found => file.version = SchemaVersion /\ Fit(file, found))
      /\ refused => ~Sound(found)
  BY DEF OpeningInv
<1>2. IsDatabase(found)
  BY <1>1, FoundAssumption
<1>3. UNCHANGED <<file, found, refused>> /\ stage' = "migrating"
  BY DEF Begin
<1>4. Migrating'
  <2>1. CASE /\ file.version \in Migratable
             /\ tx' = [db |-> file, left |-> StepsFrom(file.version)]
    <3>1. file = found
      BY <1>1, <2>1 DEF Migratable, SchemaVersion
    <3>2. tx'.db = found /\ tx'.left = StepsFrom(found.version)
      BY <2>1, <3>1
    <3>3. \E p \in Place(found.version) .. 15 : LeftFrom(tx'.left, found.version, p) /\ Under(tx'.db, found, p)
      BY <1>2, <2>1, <3>1, <3>2, FirstUnder
    <3> QED
      BY <1>3, <2>1, <3>1, <3>3 DEF Migrating
  <2>2. CASE /\ file.version = SchemaVersion
             /\ tx' = [db |-> file, left |-> <<>>]
    <3>1. Fit(file, found)
      BY <1>1, <1>2, <2>2, CurrentFits
    <3> QED
      BY <1>3, <2>2, <3>1 DEF Migrating
  <2>3. CASE /\ file.version = 0
             /\ tx' = [db |-> Fresh(file), left |-> <<>>]
    <3>1. file = found
      BY <1>1, <2>3 DEF SchemaVersion
    <3>2. Fit(Fresh(file), found)
      BY <1>2, <2>3, <3>1, NewFits
    <3> QED
      BY <1>3, <2>3, <3>2 DEF Migrating
  <2> QED
    BY <2>1, <2>2, <2>3 DEF Begin
<1> QED
  BY <1>1, <1>3, <1>4 DEF OpeningInv

\* What is refused was not sound.
LEMMA RefuseKeeps ==
  ASSUME OpeningInv, Refuse, ~Sound(found)
  PROVE  OpeningInv'
BY DEF OpeningInv, Refuse

LEMMA UnsupportedKeeps ==
  ASSUME OpeningInv, Unsupported
  PROVE  OpeningInv'
<1>1. file.version \notin Migratable \cup {SchemaVersion} /\ (file.version = 0 => file.columns # {}) /\ Refuse
  BY DEF Unsupported
<1>2. file = found
  BY <1>1 DEF OpeningInv
<1>3. ~Sound(found)
  BY <1>1, <1>2 DEF Sound
<1> QED
  BY <1>1, <1>3, RefuseKeeps

LEMMA MigrateStepKeeps ==
  ASSUME OpeningInv, MigrateStep
  PROVE  OpeningInv'
<1>1. /\ stage = "migrating" /\ tx.left # <<>> /\ UNCHANGED <<stage, file, found, refused>>
      /\ tx' = [db |-> Applied(Head(tx.left), tx.db), left |-> Tail(tx.left)]
  BY DEF MigrateStep
<1>2. found.version \in Migratable /\ IsDatabase(found)
  BY <1>1, FoundAssumption DEF OpeningInv, Migrating
<1> DEFINE v == found.version
<1>3. PICK p \in Place(v) .. 15 : LeftFrom(tx.left, v, p) /\ Under(tx.db, found, p)
  BY <1>1 DEF OpeningInv, Migrating
<1>4. p \in 0 .. 15 /\ p >= Place(v)
  BY <1>2, PlaceType
<1>5. tx'.left = Tail(tx.left) /\ tx'.db = Applied(StepAt(v, p), tx.db)
  BY <1>1, <1>2, <1>3, <1>4, NextLeft
<1>6. Under(tx'.db, found, p + 1)
  BY <1>2, <1>3, <1>4, <1>5, NextUnder
<1>7. Migrating'
  <2>1. CASE p < 15
    <3>1. LeftFrom(tx'.left, v, p + 1)
      BY <1>2, <1>3, <1>4, <1>5, <2>1, NextLeft
    <3>2. p + 1 \in Place(v) .. 15
      BY <1>2, <1>4, <2>1, PlaceType
    <3> QED
      BY <1>1, <1>2, <1>6, <3>1, <3>2 DEF Migrating
  <2>2. CASE p = 15
    <3>1. tx'.left = <<>>
      BY <1>2, <1>3, <1>4, <1>5, <2>2, NextLeft
    <3>2. Under(tx'.db, found, 16)
      BY <1>6, <2>2
    <3>3. Fit(tx'.db, found)
      BY <1>2, <3>2, LastFits
    <3> QED
      BY <1>1, <3>1, <3>3 DEF Migrating
  <2> QED
    BY <1>4, <2>1, <2>2
<1> QED
  BY <1>1, <1>7 DEF OpeningInv

LEMMA StepRefusedKeeps ==
  ASSUME OpeningInv, StepRefused
  PROVE  OpeningInv'
<1>1. stage = "migrating" /\ tx.left # <<>> /\ ~Applies(Head(tx.left), tx.db) /\ Refuse
  BY DEF StepRefused
<1>2. found.version \in Migratable /\ IsDatabase(found)
  BY <1>1, FoundAssumption DEF OpeningInv, Migrating
<1> DEFINE v == found.version
<1>3. PICK p \in Place(v) .. 15 : LeftFrom(tx.left, v, p) /\ Under(tx.db, found, p)
  BY <1>1 DEF OpeningInv, Migrating
<1>4. p \in 0 .. 15 /\ p >= Place(v)
  BY <1>2, PlaceType
<1>5. ~Applies(StepAt(v, p), tx.db)
  BY <1>1, <1>2, <1>3, <1>4, NextLeft
<1>6. ~Sound(found)
  BY <1>2, <1>3, <1>4, <1>5, NextUnder
<1> QED
  BY <1>1, <1>6, RefuseKeeps

LEMMA EndOfSteps ==
  ASSUME OpeningInv, stage = "migrating", tx.left = <<>>
  PROVE  Fit(tx.db, found)
<1>1. ASSUME NEW p \in Place(found.version) .. 15, found.version \in Migratable,
             LeftFrom(tx.left, found.version, p)
      PROVE  FALSE
  <2>1. p \in 0 .. 15
    BY <1>1, PlaceType
  <2> QED
    BY <1>1, <2>1, NextLeft
<1> QED
  BY <1>1 DEF OpeningInv, Migrating

LEMMA CommitMigrationKeeps ==
  ASSUME OpeningInv, CommitMigration
  PROVE  OpeningInv'
<1> DEFINE indexes == SyncedIndexes(tx.db.indexes)
<1>1. stage = "migrating" /\ tx.left = <<>> /\ stage' = "migrated" /\ UNCHANGED <<found, refused>>
  BY DEF CommitMigration
<1>2. file' = Committed(tx.db, SchemaVersion, indexes)
  BY DEF CommitMigration, Committed
<1>3. Fit(tx.db, found)
  BY <1>1, EndOfSteps
<1> HIDE DEF indexes
<1>4. Fit(file', found) /\ file'.version = SchemaVersion
  BY <1>2, <1>3, CommittedFits
<1> QED
  BY <1>1, <1>4 DEF OpeningInv

LEMMA IndexesRefusedKeeps ==
  ASSUME OpeningInv, IndexesRefused
  PROVE  OpeningInv'
<1>1. stage = "migrating" /\ tx.left = <<>> /\ ~IndexNamesFree(tx.db) /\ Refuse
  BY DEF IndexesRefused
<1>2. Sound(found) => tx.db.columns = SchemaColumns
  BY <1>1, EndOfSteps DEF Fit
<1>3. "request_events_at" \notin SchemaColumns
  BY DEF SchemaColumns
<1>4. ~Sound(found)
  BY <1>1, <1>2, <1>3 DEF IndexNamesFree
<1> QED
  BY <1>1, <1>4, RefuseKeeps

LEMMA LoadRefusedKeeps ==
  ASSUME OpeningInv, LoadRefused
  PROVE  OpeningInv'
<1>1. stage = "pruned" /\ ~Loads(file) /\ Refuse
  BY DEF LoadRefused
<1>2. ~Sound(found)
  BY <1>1 DEF OpeningInv, Fit
<1> QED
  BY <1>1, <1>2, RefuseKeeps

LEMMA OpeningStep ==
  ASSUME OpeningInv, [NextDatabases]_<<vars, dbVars>>
  PROVE  OpeningInv'
<1>1. CASE Begin
  BY <1>1, BeginKeeps
<1>2. CASE Unsupported
  BY <1>2, UnsupportedKeeps
<1>3. CASE MigrateStep
  BY <1>3, MigrateStepKeeps
<1>4. CASE StepRefused
  BY <1>4, StepRefusedKeeps
<1>5. CASE CommitMigration
  BY <1>5, CommitMigrationKeeps
<1>6. CASE IndexesRefused
  BY <1>6, IndexesRefusedKeeps
<1>7. ASSUME NEW days \in Retentions, Prune(days) PROVE OpeningInv'
  <2>1. stage = "migrated" /\ stage' = "pruned" /\ UNCHANGED <<file, found, refused>>
    BY <1>7 DEF Prune
  <2> QED
    BY <2>1 DEF OpeningInv
<1>8. CASE Load
  <2>1. stage' = "open" /\ UNCHANGED <<file, found, refused>>
    BY <1>8 DEF Load
  <2> QED
    BY <2>1 DEF OpeningInv
<1>9. CASE LoadRefused
  BY <1>9, LoadRefusedKeeps
<1>10. CASE Interrupted
  BY <1>10 DEF Interrupted, OpeningInv
<1>11. CASE Shutdown
  <2>1. stage' = "closed" /\ UNCHANGED <<file, found, refused>>
    BY <1>11 DEF Shutdown
  <2> QED
    BY <2>1 DEF OpeningInv
<1>12. ASSUME UNCHANGED dbVars PROVE OpeningInv'
  BY <1>12 DEF OpeningInv, Migrating, dbVars
<1>13. CASE Work
  BY <1>12, <1>13 DEF Work
<1>14. CASE UNCHANGED <<vars, dbVars>>
  BY <1>12, <1>14
<1> QED
  BY <1>1, <1>2, <1>3, <1>4, <1>5, <1>6, <1>7, <1>8, <1>9, <1>10, <1>11, <1>13, <1>14 DEF NextDatabases

----------------------------------------------------------------------------
(* What follows *)

LEMMA FileIsWhole ==
  ASSUME OpeningInv
  PROVE  WholeOrUntouched
BY DEF OpeningInv, WholeOrUntouched, Fit, Complete

LEMMA FileKeeps ==
  ASSUME OpeningInv
  PROVE  MigrationKeeps
<1>1. found.version \in Migratable => found.version # SchemaVersion
  BY DEF Migratable, SchemaVersion
<1> QED
  BY <1>1 DEF OpeningInv, MigrationKeeps, Fit

\* Between any two steps: the file is as it was found or fit to take its place, a transaction
\* has come to some place of the path of its version, and nothing sound has been refused.
THEOREM OpeningInvariant == DatabasesSpec => []OpeningInv
<1>1. InitDatabases => OpeningInv
  BY OpeningInit
<1>2. OpeningInv /\ [NextDatabases]_<<vars, dbVars>> => OpeningInv'
  BY OpeningStep
<1> QED
  BY <1>1, <1>2, PTL DEF DatabasesSpec

\* Wherever the process ends, the file is as it was found or is whole.
THEOREM FileWholeOrUntouched == DatabasesSpec => []WholeOrUntouched
<1>1. OpeningInv => WholeOrUntouched
  BY FileIsWhole
<1> QED
  BY <1>1, OpeningInvariant, PTL

\* A database as any supported version wrote it is refused by no step of any migration, by no
\* index and not when it is loaded.
THEOREM SoundAlwaysOpens == DatabasesSpec => []SoundOpens
<1>1. OpeningInv => SoundOpens
  BY DEF OpeningInv, SoundOpens
<1> QED
  BY <1>1, OpeningInvariant, PTL

\* What a key has used, what it may use, and what its event tells of credential and quota are
\* the same after a migration from any version.
THEOREM NothingLostInMigration == DatabasesSpec => []MigrationKeeps
<1>1. OpeningInv => MigrationKeeps
  BY FileKeeps
<1> QED
  BY <1>1, OpeningInvariant, PTL
=============================================================================
