------------------------- MODULE UsageReportsProofs -------------------------
(***************************************************************************)
(* What is proved of usage.handle: every token that is counted is counted  *)
(* once and paid for once, parts are restored or not known, the periods of *)
(* a window follow each other, and the newest reports show the quota that  *)
(* all of them show.                                                       *)
(*                                                                         *)
(* Each reading of a report is followed case by case: what it refuses is   *)
(* kept as unclassified, what it accepts adds up.  Then the counts of a    *)
(* use whose parts are known are read as the accounting they came from.    *)
(* A history of reports keeps an invariant at each report it takes in, so  *)
(* by its least counterexample at all of them.  So do the quota of the     *)
(* first reports and the quota of what is left of them: the one shows the  *)
(* last report that tells of each thing, the other the report picked for   *)
(* it, and of sorted reports these are the same.                           *)
(***************************************************************************)
EXTENDS UsageReports, SequenceTheorems, FiniteSetTheorems, WellFoundedInduction, TLAPS

----------------------------------------------------------------------------
(* Sums of counts *)

LEMMA SumOfTwo ==
  ASSUME NEW a \in Int, NEW b \in Int
  PROVE  SumOf(<<a, b>>) = a + b
<1> DEFINE s == <<a, b>>
           Sums(f) == f = [n \in 0 .. Len(s) |-> IF n = 0 THEN 0 ELSE f[n - 1] + s[n]]
           sums == [n \in 0 .. 2 |-> IF n = 0 THEN 0 ELSE IF n = 1 THEN a ELSE a + b]
<1>1. Len(s) = 2 /\ s[1] = a /\ s[2] = b
  OBVIOUS
<1>2. Sums(sums)
  BY <1>1
<1>3. \A f : Sums(f) => f[Len(s)] = a + b
  BY <1>1
<1>4. SumOf(s) = (CHOOSE f : Sums(f))[Len(s)]
  BY DEF SumOf
<1> HIDE DEF s, Sums
<1> QED
  BY <1>2, <1>3, <1>4 DEF s

LEMMA SumOfThree ==
  ASSUME NEW a \in Int, NEW b \in Int, NEW c \in Int
  PROVE  SumOf(<<a, b, c>>) = a + b + c
<1> DEFINE s == <<a, b, c>>
           Sums(f) == f = [n \in 0 .. Len(s) |-> IF n = 0 THEN 0 ELSE f[n - 1] + s[n]]
           sums == [n \in 0 .. 3 |-> IF n = 0 THEN 0 ELSE IF n = 1 THEN a ELSE IF n = 2 THEN a + b ELSE a + b + c]
<1>1. Len(s) = 3 /\ s[1] = a /\ s[2] = b /\ s[3] = c
  OBVIOUS
<1>2. Sums(sums)
  BY <1>1
<1>3. \A f : Sums(f) => f[Len(s)] = a + b + c
  BY <1>1
<1>4. SumOf(s) = (CHOOSE f : Sums(f))[Len(s)]
  BY DEF SumOf
<1> HIDE DEF s, Sums
<1> QED
  BY <1>2, <1>3, <1>4 DEF s

\* checkedTokenSum of two and of three counts.
LEMMA FitsTwo ==
  ASSUME NEW a \in Int, NEW b \in Int
  PROVE  /\ Fits(<<a, b>>) <=> a >= 0 /\ b >= 0 /\ a + b <= MaxTokens
         /\ Sum(<<a, b>>) = IF a >= 0 /\ b >= 0 /\ a + b <= MaxTokens THEN a + b ELSE 0
<1>1. Fits(<<a, b>>) <=> a >= 0 /\ b >= 0 /\ a + b <= MaxTokens
  <2>1. DOMAIN <<a, b>> = 1 .. 2 /\ <<a, b>>[1] = a /\ <<a, b>>[2] = b
    OBVIOUS
  <2>2. (\A i \in DOMAIN <<a, b>> : <<a, b>>[i] >= 0) <=> a >= 0 /\ b >= 0
    BY <2>1
  <2> QED
    BY <2>2, SumOfTwo DEF Fits
<1> QED
  BY <1>1, SumOfTwo DEF Sum

LEMMA FitsThree ==
  ASSUME NEW a \in Int, NEW b \in Int, NEW c \in Int
  PROVE  /\ Fits(<<a, b, c>>) <=> a >= 0 /\ b >= 0 /\ c >= 0 /\ a + b + c <= MaxTokens
         /\ Sum(<<a, b, c>>) = IF a >= 0 /\ b >= 0 /\ c >= 0 /\ a + b + c <= MaxTokens THEN a + b + c ELSE 0
<1>1. Fits(<<a, b, c>>) <=> a >= 0 /\ b >= 0 /\ c >= 0 /\ a + b + c <= MaxTokens
  <2>1. DOMAIN <<a, b, c>> = 1 .. 3 /\ <<a, b, c>>[1] = a /\ <<a, b, c>>[2] = b /\ <<a, b, c>>[3] = c
    OBVIOUS
  <2>2. (\A i \in DOMAIN <<a, b, c>> : <<a, b, c>>[i] >= 0) <=> a >= 0 /\ b >= 0 /\ c >= 0
    BY <2>1
  <2> QED
    BY <2>2, SumOfThree DEF Fits
<1> QED
  BY <1>1, SumOfThree DEF Sum

----------------------------------------------------------------------------
(* Readings *)

Qualities == {"complete", "unclassified", "inconsistent"}

Breakdowns == [quality : Qualities, total : Nat, parts : [Parts -> Nat], unclassified : Nat]

Details == [input : Int, output : Int, reasoning : Int, cached : Int, cacheRead : Int, cacheWrite : Int, total : Int]

\* A breakdown of report d whose parts add up to its total, which is that of the report if it has one.
Faithful(b, d) == b \in Breakdowns /\ Valid(b) /\ b.total <= MaxTokens /\ (d.total > 0 => b.total = d.total)

\* completeBreakdown adds up.
LEMMA CompleteReading ==
  ASSUME NEW u \in Nat, NEW r \in Nat, NEW w \in Nat, NEW n \in Nat, NEW s \in Nat, NEW t \in Nat,
         t = u + r + w + n + s
  PROVE  Complete(u, r, w, n, s, t) \in Breakdowns /\ Valid(Complete(u, r, w, n, s, t))
<1> DEFINE parts == [uncached |-> u, cacheRead |-> r, cacheWrite |-> w, nonReasoning |-> n, reasoning |-> s]
<1>1. parts \in [Parts -> Nat]
  BY DEF Parts
<1> QED
  BY <1>1 DEF Complete, Breakdowns, Valid, InputTotal, OutputTotal, Qualities, Parts

\* inconsistentBreakdown keeps the total that was reported, all of it unclassified.
LEMMA InconsistentReading ==
  ASSUME NEW t \in Int, NEW c \in Nat, t <= MaxTokens, c <= MaxTokens
  PROVE  LET b == Inconsistent(t, c) IN
         b \in Breakdowns /\ Valid(b) /\ b.total <= MaxTokens /\ (t > 0 => b.total = t) /\ b.quality = "inconsistent"
BY UsageAssumption DEF Inconsistent, Larger, NoParts, Breakdowns, Valid, InputTotal, OutputTotal, Qualities, Parts

\* So does unclassifiedBreakdown.
LEMMA UnclassifiedReading ==
  ASSUME NEW t \in Int, t <= MaxTokens
  PROVE  LET b == Unclassified(t) IN
         b \in Breakdowns /\ Valid(b) /\ b.total <= MaxTokens /\ (t > 0 => b.total = t) /\ (t # 0 => b.quality # "complete")
<1>1. CASE t < 0
  <2>1. Unclassified(t) = Inconsistent(t, 0)
    BY <1>1 DEF Unclassified
  <2> QED
    BY <1>1, <2>1, InconsistentReading, UsageAssumption
<1>2. CASE t >= 0
  <2> DEFINE b == [quality |-> IF t = 0 THEN "complete" ELSE "unclassified", total |-> t, parts |-> NoParts, unclassified |-> t]
  <2>1. Unclassified(t) = b
    <3>1. CASE t = 0
      <4>1. Unclassified(t) = [Unreported EXCEPT !.quality = "complete"]
        BY <3>1 DEF Unclassified
      <4>2. b = [quality |-> "complete", total |-> 0, parts |-> NoParts, unclassified |-> 0]
        BY <3>1
      <4> QED
        BY <4>1, <4>2 DEF Unreported
    <3>2. CASE t > 0
      BY <3>2 DEF Unclassified
    <3> QED
      BY <1>2, <3>1, <3>2
  <2>2. NoParts \in [Parts -> Nat] /\ InputTotal(b) = 0 /\ OutputTotal(b) = 0
    BY DEF NoParts, Parts, InputTotal, OutputTotal
  <2>3. b \in Breakdowns
    BY <1>2, <2>2 DEF Breakdowns, Qualities
  <2>4. Valid(b)
    BY <1>2, <2>2, <2>3 DEF Valid, Breakdowns
  <2> QED
    BY <1>2, <2>1, <2>3, <2>4
<1> QED
  BY <1>1, <1>2

\* The readings of a report, whatever its counts.
LEMMA SubsetReading ==
  ASSUME NEW d \in Details, d.total <= MaxTokens
  PROVE  Faithful(SubsetBreakdown(d), d)
<1> DEFINE expected == Sum(<<d.input, d.output>>)
           cache == Sum(<<d.cacheRead, d.cacheWrite>>)
           read == Complete(d.input - cache, d.cacheRead, d.cacheWrite, d.output - d.reasoning, d.reasoning, expected)
           refused == \/ ~Fits(<<d.input, d.output>>) \/ ~Fits(<<d.cacheRead, d.cacheWrite>>)
                      \/ cache > d.input \/ d.reasoning < 0 \/ d.reasoning > d.output
                      \/ d.total < 0 \/ d.total \in 1..(expected - 1)
                      \/ d.total > expected /\ d.input > 0 /\ d.output > 0
<1> USE DEF Details
<1>1. /\ Fits(<<d.input, d.output>>) => d.input >= 0 /\ d.output >= 0 /\ expected = d.input + d.output
      /\ Fits(<<d.cacheRead, d.cacheWrite>>) => d.cacheRead >= 0 /\ d.cacheWrite >= 0 /\ cache = d.cacheRead + d.cacheWrite
      /\ expected \in Nat /\ expected <= MaxTokens
      /\ cache \in Nat
  BY FitsTwo, UsageAssumption
<1>2. CASE refused
  <2>1. SubsetBreakdown(d) = Inconsistent(d.total, expected)
    BY <1>2 DEF SubsetBreakdown
  <2> QED
    BY <1>1, <2>1, InconsistentReading DEF Faithful
<1>3. CASE ~refused
  <2>1. SubsetBreakdown(d) = IF d.total > expected
          THEN [read EXCEPT !.quality = "unclassified", !.total = d.total, !.unclassified = d.total - expected]
          ELSE read
    BY <1>3 DEF SubsetBreakdown
  <2>2. /\ d.input - cache \in Nat /\ d.cacheRead \in Nat /\ d.cacheWrite \in Nat
        /\ d.output - d.reasoning \in Nat /\ d.reasoning \in Nat
        /\ expected = (d.input - cache) + d.cacheRead + d.cacheWrite + (d.output - d.reasoning) + d.reasoning
    BY <1>1, <1>3
  <2>3. read \in Breakdowns /\ Valid(read) /\ read.total = expected /\ read.unclassified = 0
    <3> HIDE DEF expected, cache
    <3>1. read \in Breakdowns /\ Valid(read)
      BY <1>1, <2>2, CompleteReading
    <3> QED
      BY <3>1 DEF Complete
  <2>4. d.total <= 0 \/ d.total >= expected
    BY <1>1, <1>3
  <2> HIDE DEF read, expected, refused
  <2>5. CASE d.total > expected
    <3> DEFINE more == [quality |-> "unclassified", total |-> d.total, parts |-> read.parts,
                        unclassified |-> d.total - expected]
    <3>1. SubsetBreakdown(d) = more
      BY <2>1, <2>3, <2>5 DEF Breakdowns
    <3>2. /\ read.parts \in [Parts -> Nat] /\ \A p \in Parts : read.parts[p] >= 0
          /\ expected = InputTotal(read) + OutputTotal(read) /\ InputTotal(read) \in Nat /\ OutputTotal(read) \in Nat
      <4>1. read.parts \in [Parts -> Nat]
        BY <2>3 DEF Breakdowns
      <4>2. InputTotal(read) \in Nat /\ OutputTotal(read) \in Nat
        BY <4>1 DEF InputTotal, OutputTotal, Parts
      <4>3. \A q \in Parts : read.parts[q] >= 0
        BY <4>1
      <4>4. read.total = InputTotal(read) + OutputTotal(read) + read.unclassified
        BY <2>3 DEF Valid
      <4> QED
        BY <2>3, <4>1, <4>2, <4>3, <4>4
    <3>3. InputTotal(more) = InputTotal(read) /\ OutputTotal(more) = OutputTotal(read)
      BY DEF InputTotal, OutputTotal
    <3>4. more \in Breakdowns
      BY <1>1, <2>5, <3>2 DEF Breakdowns, Qualities
    <3>5. Valid(more)
      <4>1. more.total = InputTotal(more) + OutputTotal(more) + more.unclassified
        BY <1>1, <2>5, <3>2, <3>3 DEF Details
      <4>2. more.parts = read.parts /\ more.total >= 0 /\ more.unclassified >= 0 /\ more.quality = "unclassified"
        BY <1>1, <2>5
      <4> HIDE DEF more
      <4> QED
        BY <3>2, <4>1, <4>2 DEF Valid
    <3> QED
      BY <3>1, <3>4, <3>5 DEF Faithful
  <2>6. CASE ~(d.total > expected)
    BY <1>1, <2>1, <2>3, <2>4, <2>6 DEF Faithful
  <2> QED
    BY <2>5, <2>6
<1> QED
  BY <1>2, <1>3

LEMMA IndependentReading ==
  ASSUME NEW d \in Details, d.total <= MaxTokens
  PROVE  Faithful(IndependentBreakdown(d), d)
<1> DEFINE input == <<d.input, d.cacheRead, d.cacheWrite>>
           output == <<d.output, d.reasoning>>
           in == Sum(input)
           out == Sum(output)
           expected == Sum(<<in, out>>)
           refused == ~Fits(input) \/ ~Fits(output) \/ ~Fits(<<in, out>>) \/ d.total \notin {0, expected}
<1> USE DEF Details
<1>1. /\ Fits(input) => d.input >= 0 /\ d.cacheRead >= 0 /\ d.cacheWrite >= 0 /\ in = d.input + d.cacheRead + d.cacheWrite
      /\ Fits(output) => d.output >= 0 /\ d.reasoning >= 0 /\ out = d.output + d.reasoning
      /\ in \in Nat /\ out \in Nat
  BY FitsTwo, FitsThree, UsageAssumption
<1>2. /\ Fits(<<in, out>>) => expected = in + out
      /\ expected \in Nat /\ expected <= MaxTokens
  <2> HIDE DEF in, out
  <2> QED
    BY <1>1, FitsTwo, UsageAssumption
<1>3. CASE refused
  <2>1. IndependentBreakdown(d) = Inconsistent(d.total, expected)
    BY <1>3 DEF IndependentBreakdown
  <2> QED
    BY <1>2, <2>1, InconsistentReading DEF Faithful
<1>4. CASE ~refused
  <2> DEFINE read == Complete(d.input, d.cacheRead, d.cacheWrite, d.output, d.reasoning, expected)
  <2>1. IndependentBreakdown(d) = read
    BY <1>4 DEF IndependentBreakdown
  <2>2. /\ d.input \in Nat /\ d.cacheRead \in Nat /\ d.cacheWrite \in Nat /\ d.output \in Nat /\ d.reasoning \in Nat
        /\ expected = d.input + d.cacheRead + d.cacheWrite + d.output + d.reasoning
    BY <1>1, <1>2, <1>4
  <2>3. d.total \in {0, expected}
    BY <1>4
  <2>4. read \in Breakdowns /\ Valid(read) /\ read.total = expected
    <3> HIDE DEF expected
    <3>1. read \in Breakdowns /\ Valid(read)
      BY <1>2, <2>2, CompleteReading
    <3> QED
      BY <3>1 DEF Complete
  <2> HIDE DEF read, expected
  <2> QED
    BY <1>2, <2>1, <2>3, <2>4 DEF Faithful
<1> QED
  BY <1>3, <1>4

LEMMA ProviderReading ==
  ASSUME NEW d \in Details, d.total <= MaxTokens
  PROVE  Faithful(ProviderIndependentBreakdown(d), d)
<1> DEFINE e == [d EXCEPT !.output = @ - d.reasoning]
<1>1. Faithful(Inconsistent(d.total, 0), d)
  BY InconsistentReading, UsageAssumption DEF Faithful, Details
<1>2. Faithful(IndependentBreakdown(d), d)
  BY IndependentReading
<1>3. Faithful(IndependentBreakdown(e), d)
  <2>1. e \in Details /\ e.total = d.total
    BY DEF Details
  <2> HIDE DEF e
  <2> QED
    BY <2>1, IndependentReading DEF Faithful
<1> QED
  BY <1>1, <1>2, <1>3 DEF ProviderIndependentBreakdown

LEMMA SeparateReading ==
  ASSUME NEW d \in Details, d.total <= MaxTokens
  PROVE  Faithful(SeparateReasoningBreakdown(d), d)
<1> DEFINE cache == Sum(<<d.cacheRead, d.cacheWrite>>)
           output == <<d.output, d.reasoning>>
           out == Sum(output)
           expected == Sum(<<d.input, out>>)
           refusedInput == d.input < 0 \/ ~Fits(<<d.cacheRead, d.cacheWrite>>) \/ cache > d.input
           refused == ~Fits(output) \/ ~Fits(<<d.input, out>>) \/ d.total \notin {0, expected}
<1> USE DEF Details
<1>1. /\ Fits(<<d.cacheRead, d.cacheWrite>>) => d.cacheRead >= 0 /\ d.cacheWrite >= 0 /\ cache = d.cacheRead + d.cacheWrite
      /\ Fits(output) => d.output >= 0 /\ d.reasoning >= 0 /\ out = d.output + d.reasoning
      /\ cache \in Nat /\ out \in Nat
  BY FitsTwo, UsageAssumption
<1>2. /\ Fits(<<d.input, out>>) => expected = d.input + out
      /\ expected \in Nat /\ expected <= MaxTokens
  <2> HIDE DEF out
  <2> QED
    BY <1>1, FitsTwo, UsageAssumption
<1>3. CASE refusedInput
  <2>1. SeparateReasoningBreakdown(d) = Inconsistent(d.total, 0)
    BY <1>3 DEF SeparateReasoningBreakdown
  <2> QED
    BY <2>1, InconsistentReading, UsageAssumption DEF Faithful
<1>4. CASE ~refusedInput /\ refused
  <2>1. SeparateReasoningBreakdown(d) = Inconsistent(d.total, expected)
    BY <1>4 DEF SeparateReasoningBreakdown
  <2> QED
    BY <1>2, <2>1, InconsistentReading DEF Faithful
<1>5. CASE ~refusedInput /\ ~refused
  <2> DEFINE read == Complete(d.input - cache, d.cacheRead, d.cacheWrite, d.output, d.reasoning, expected)
  <2>1. SeparateReasoningBreakdown(d) = read
    BY <1>5 DEF SeparateReasoningBreakdown
  <2>2. /\ d.input - cache \in Nat /\ d.cacheRead \in Nat /\ d.cacheWrite \in Nat /\ d.output \in Nat /\ d.reasoning \in Nat
        /\ expected = (d.input - cache) + d.cacheRead + d.cacheWrite + d.output + d.reasoning
    BY <1>1, <1>2, <1>5
  <2>3. d.total \in {0, expected}
    BY <1>5
  <2>4. read \in Breakdowns /\ Valid(read) /\ read.total = expected
    <3> HIDE DEF expected, cache
    <3>1. read \in Breakdowns /\ Valid(read)
      BY <1>2, <2>2, CompleteReading
    <3> QED
      BY <3>1 DEF Complete
  <2> HIDE DEF read, expected
  <2> QED
    BY <1>2, <2>1, <2>3, <2>4 DEF Faithful
<1> QED
  BY <1>3, <1>4, <1>5

\* unclassifiedLowerBound fits an integer.
LEMMA BoundFits ==
  ASSUME NEW d \in Details
  PROVE  LowerBound(d) \in Nat /\ LowerBound(d) <= MaxTokens
<1> DEFINE input == Larger(Larger(d.input, Sum(<<d.cacheRead, d.cacheWrite>>)), d.cached)
           output == Larger(d.output, d.reasoning)
<1>1. Sum(<<d.cacheRead, d.cacheWrite>>) \in Nat
  BY FitsTwo DEF Details
<1>2. input \in Int /\ output \in Int
  BY <1>1 DEF Larger, Details
<1>3. LowerBound(d) = Sum(<<input, output>>)
  BY DEF LowerBound, BoundParts
<1> HIDE DEF input, output
<1> QED
  BY <1>2, <1>3, FitsTwo, UsageAssumption

\* semanticBreakdown
LEMMA EveryReading ==
  ASSUME NEW d \in Details, d.total <= MaxTokens, NEW a \in Semantics
  PROVE  Faithful(Read(d, a), d)
<1>1. d.total > 0 => Faithful(Unclassified(d.total), d)
  BY UnclassifiedReading DEF Faithful, Details
<1>2. Faithful(Inconsistent(d.total, 0), d)
  BY InconsistentReading, UsageAssumption DEF Faithful, Details
<1>3. d.total = 0 => Faithful(Unclassified(LowerBound(d)), d)
  BY UnclassifiedReading, BoundFits DEF Faithful
<1>4. Faithful(ProviderIndependentBreakdown(d), d) /\ Faithful(SeparateReasoningBreakdown(d), d)
  BY ProviderReading, SeparateReading
<1>5. Faithful(SubsetBreakdown(Orphaned(d)), d)
  <2>1. Orphaned(d) \in Details /\ Orphaned(d).total = d.total
    BY DEF Orphaned, Details
  <2> QED
    BY <2>1, SubsetReading DEF Faithful
<1> QED
  BY <1>1, <1>2, <1>3, <1>4, <1>5 DEF Read, Semantics

\* unclassifiedUsage
LEMMA UnknownReading ==
  ASSUME NEW d \in Details, d.total <= MaxTokens
  PROVE  Faithful(UnclassifiedUsage(d), d)
<1>1. Faithful(Inconsistent(d.total, 0), d)
  BY InconsistentReading, UsageAssumption DEF Faithful, Details
<1>2. d.total = 0 => Faithful(Unclassified(LowerBound(d)), d)
  BY UnclassifiedReading, BoundFits DEF Faithful
<1>3. Faithful(Unclassified(d.total), d)
  BY UnclassifiedReading DEF Faithful, Details
<1> QED
  BY <1>1, <1>2, <1>3 DEF UnclassifiedUsage

\* usageBreakdown
LEMMA BreakdownFaithful ==
  ASSUME NEW d \in Details, d.total <= MaxTokens, NEW a \in Semantics \cup {"unknown"}
  PROVE  \/ UsageBreakdown(d, a) = Unreported /\ d.total = 0
         \/ Faithful(UsageBreakdown(d, a), d)
<1> DEFINE nothing == d.total = 0 /\ (\A i \in 1..6 : PartCounts(d)[i] = 0)
           readings == {b \in {Read(d, s) : s \in Semantics} : b.quality # "inconsistent"}
<1>1. CASE nothing
  BY <1>1 DEF UsageBreakdown
<1>2. CASE ~nothing
  <2>1. UsageBreakdown(d, a) =
          IF a # "unknown" THEN Read(d, a)
          ELSE IF Agreed(readings) THEN CHOOSE b \in readings : b.quality = "complete"
          ELSE UnclassifiedUsage(d)
    BY <1>2 DEF UsageBreakdown
  <2>2. Agreed(readings) => Faithful(CHOOSE b \in readings : b.quality = "complete", d)
    <3>1. \A b \in readings : Faithful(b, d)
      BY EveryReading
    <3>2. Agreed(readings) => (CHOOSE b \in readings : b.quality = "complete") \in readings
      BY DEF Agreed
    <3> QED
      BY <3>1, <3>2
  <2> QED
    BY <2>1, <2>2, EveryReading, UnknownReading
<1> QED
  BY <1>1, <1>2

----------------------------------------------------------------------------
(* Reports of known parts *)

Counted(p) == p["uncached"] + p["cacheRead"] + p["cacheWrite"] + p["nonReasoning"] + p["reasoning"]

\* Parts that can be read: their counts fit an integer with the reasoning counted twice.
Countable(p) == p \in [Parts -> Nat] /\ Counted(p) + p["reasoning"] <= MaxTokens

LEMMA FlattenedDetails ==
  ASSUME NEW p, Countable(p), NEW a \in Accountings, NEW told \in BOOLEAN
  PROVE  LET d == Flattened(p, a, told) IN
         /\ d \in Details
         /\ d.total = IF told \/ a = "beside" THEN Counted(p) ELSE 0
         /\ d.total <= MaxTokens
         /\ d.cacheRead = p["cacheRead"] /\ d.cacheWrite = p["cacheWrite"] /\ d.cached = p["cacheRead"]
         /\ d.reasoning = p["reasoning"]
         /\ d.input = IF a \in {"independent", "beside"} THEN p["uncached"]
                      ELSE p["uncached"] + p["cacheRead"] + p["cacheWrite"]
         /\ d.output = IF a \in {"separate", "beside"} THEN p["nonReasoning"] ELSE p["nonReasoning"] + p["reasoning"]
<1>1. /\ p["uncached"] \in Nat /\ p["cacheRead"] \in Nat /\ p["cacheWrite"] \in Nat
      /\ p["nonReasoning"] \in Nat /\ p["reasoning"] \in Nat
  BY DEF Countable, Parts
<1>2. CASE told \/ a = "beside"
  BY <1>1, <1>2, UsageAssumption DEF Flattened, Details, Counted, Countable
<1>3. CASE ~(told \/ a = "beside")
  BY <1>1, <1>3, UsageAssumption DEF Flattened, Details
<1> QED
  BY <1>2, <1>3

LEMMA CompleteParts ==
  ASSUME NEW p \in [Parts -> Nat], NEW t
  PROVE  LET b == Complete(p["uncached"], p["cacheRead"], p["cacheWrite"], p["nonReasoning"], p["reasoning"], t) IN
         b.quality = "complete" /\ b.parts = p
<1> DEFINE parts == [uncached |-> p["uncached"], cacheRead |-> p["cacheRead"], cacheWrite |-> p["cacheWrite"],
                     nonReasoning |-> p["nonReasoning"], reasoning |-> p["reasoning"]]
<1>1. parts = p
  <2>1. parts \in [Parts -> Nat]
    BY DEF Parts
  <2>2. \A q \in Parts : parts[q] = p[q]
    BY DEF Parts
  <2> QED
    BY <2>1, <2>2
<1> QED
  BY <1>1 DEF Complete

LEMMA NoneZero ==
  ASSUME NEW p \in [Parts -> Nat], p # NoParts
  PROVE  Counted(p) > 0
<1>1. \E q \in Parts : p[q] # 0
  BY DEF NoParts
<1> QED
  BY <1>1 DEF Counted, Parts

\* The reading of the accounting that reported restores the parts.
LEMMA TrueReading ==
  ASSUME NEW p, Countable(p), p # NoParts, NEW a \in Accountings, NEW told \in BOOLEAN
  PROVE  LET d == Flattened(p, a, told) IN
         /\ ~(d.total = 0 /\ \A i \in 1..6 : PartCounts(d)[i] = 0)
         /\ Read(d, SemanticsOf(a)).quality = "complete" /\ Read(d, SemanticsOf(a)).parts = p
<1> DEFINE d == Flattened(p, a, told)
           u == p["uncached"]
           r == p["cacheRead"]
           w == p["cacheWrite"]
           n == p["nonReasoning"]
           s == p["reasoning"]
           total == Counted(p)
           cache == Sum(<<d.cacheRead, d.cacheWrite>>)
           nothing == d.total = 0 /\ \A i \in 1..6 : PartCounts(d)[i] = 0
<1>1. u \in Nat /\ r \in Nat /\ w \in Nat /\ n \in Nat /\ s \in Nat /\ total = u + r + w + n + s /\ total + s <= MaxTokens
  BY DEF Countable, Parts, Counted
<1>2. total > 0
  BY NoneZero DEF Countable
<1>3. /\ d \in Details
      /\ d.total = IF told \/ a = "beside" THEN total ELSE 0
      /\ d.cacheRead = r /\ d.cacheWrite = w /\ d.cached = r /\ d.reasoning = s
      /\ d.input = IF a \in {"independent", "beside"} THEN u ELSE u + r + w
      /\ d.output = IF a \in {"separate", "beside"} THEN n ELSE n + s
  BY FlattenedDetails
<1>4. Complete(u, r, w, n, s, total).quality = "complete" /\ Complete(u, r, w, n, s, total).parts = p
  BY CompleteParts DEF Countable
<1>5. /\ PartCounts(d)[1] = d.cacheRead /\ PartCounts(d)[2] = d.cacheWrite /\ PartCounts(d)[4] = d.input
      /\ PartCounts(d)[5] = d.output /\ PartCounts(d)[6] = d.reasoning
  <2> HIDE DEF d
  <2> QED
    BY DEF PartCounts, CacheCounts
<1> DEFINE in == u + r + w
           out == n + s
<1>11. in \in Nat /\ out \in Nat /\ in = u + r + w /\ out = n + s /\ total = in + out
  BY <1>1
<1> HIDE DEF d, u, r, w, n, s, total, in, out, cache
<1>6. \E i \in 1..6 : PartCounts(d)[i] # 0
  <2>1. d.input # 0 \/ d.output # 0 \/ r # 0 \/ w # 0 \/ s # 0
    BY <1>1, <1>2, <1>3
  <2> QED
    BY <1>3, <1>5, <2>1
<1>7. /\ Fits(<<r, w>>) /\ Sum(<<r, w>>) = r + w
      /\ Fits(<<u, r, w>>) /\ Sum(<<u, r, w>>) = in
      /\ Fits(<<n, s>>) /\ Sum(<<n, s>>) = out
      /\ Fits(<<in, out>>) /\ Sum(<<in, out>>) = total
      /\ Fits(<<in, out, s>>) /\ Sum(<<in, out, s>>) = total + s
      /\ Fits(<<in, n>>)
      /\ Fits(<<in, n, s>>) /\ Sum(<<in, n, s>>) = total
  <2>1. r + w <= MaxTokens /\ n + s <= MaxTokens /\ u + r + w <= MaxTokens /\ in + out <= MaxTokens
        /\ in + out + s <= MaxTokens /\ in + n <= MaxTokens /\ in + n + s = total /\ in + n + s <= MaxTokens
    BY <1>1, <1>11, UsageAssumption
  <2>2. Fits(<<r, w>>) /\ Sum(<<r, w>>) = r + w
    BY <1>1, <2>1, FitsTwo
  <2>3. Fits(<<u, r, w>>) /\ Sum(<<u, r, w>>) = in
    BY <1>1, <1>11, <2>1, FitsThree
  <2>4. Fits(<<n, s>>) /\ Sum(<<n, s>>) = out
    BY <1>1, <1>11, <2>1, FitsTwo
  <2>5. Fits(<<in, out>>) /\ Sum(<<in, out>>) = total
    BY <1>11, <2>1, FitsTwo
  <2>6. Fits(<<in, out, s>>) /\ Sum(<<in, out, s>>) = total + s
    BY <1>1, <1>11, <2>1, FitsThree
  <2>7. Fits(<<in, n>>)
    BY <1>1, <1>11, <2>1, FitsTwo
  <2>8. Fits(<<in, n, s>>) /\ Sum(<<in, n, s>>) = total
    BY <1>1, <1>11, <2>1, FitsThree
  <2> QED
    BY <2>2, <2>3, <2>4, <2>5, <2>6, <2>7, <2>8
<1>8. ASSUME a = "subset"
     PROVE  Read(d, a).quality = "complete" /\ Read(d, a).parts = p
  <2>1. Orphaned(d) = d
    <3>1. /\ d.input = 0 => d.cacheRead = 0 /\ d.cacheWrite = 0
          /\ d.output = 0 => d.reasoning = 0
      BY <1>1, <1>3, <1>8
    <3> QED
      BY <1>3, <3>1 DEF Orphaned, Details
  <2>2. ~(d.total = 0 /\ d.input = 0 /\ d.output = 0)
    BY <1>1, <1>2, <1>3, <1>8
  <2>3. Read(d, a) = SubsetBreakdown(d)
    BY <1>6, <1>8, <2>1, <2>2 DEF Read
  <2>4. d.input = in /\ d.output = out
    BY <1>3, <1>8, <1>11
  <2>5. SubsetBreakdown(d) = Complete(d.input - (r + w), r, w, d.output - s, s, total)
    <3>1. d.total \in {0, total}
      BY <1>3
    <3>2. ~(\/ ~Fits(<<d.input, d.output>>) \/ ~Fits(<<d.cacheRead, d.cacheWrite>>)
            \/ r + w > d.input \/ d.reasoning < 0 \/ d.reasoning > d.output
            \/ d.total < 0 \/ d.total \in 1..(total - 1)
            \/ d.total > total /\ d.input > 0 /\ d.output > 0)
      BY <1>1, <1>3, <1>7, <1>11, <2>4, <3>1
    <3>3. Sum(<<d.input, d.output>>) = total /\ Sum(<<d.cacheRead, d.cacheWrite>>) = r + w
      BY <1>3, <1>7, <2>4
    <3>4. ~(d.total > total)
      BY <1>1, <3>1
    <3> QED
      BY <1>3, <3>2, <3>3, <3>4 DEF SubsetBreakdown
  <2>6. d.input - (r + w) = u /\ d.output - s = n
    BY <1>1, <1>11, <2>4
  <2> QED
    BY <1>4, <2>3, <2>5, <2>6
<1>9. ASSUME a = "independent"
     PROVE  Read(d, a).quality = "complete" /\ Read(d, a).parts = p
  <2>1. HasBound(d)
    <3>1. Fits(<<d.cacheRead, d.cacheWrite>>) /\ Sum(<<d.cacheRead, d.cacheWrite>>) = r + w
      BY <1>3, <1>7
    <3>2. d.input = u /\ d.output = out /\ d.reasoning = s /\ d.cached = r
      BY <1>3, <1>9, <1>11
    <3>3. /\ Larger(Larger(d.input, r + w), d.cached) \in 0 .. in
          /\ Larger(d.output, d.reasoning) = out
      BY <1>1, <1>11, <3>2 DEF Larger
    <3>4. BoundParts(d) = <<Larger(Larger(d.input, r + w), d.cached), out>>
      BY <3>1, <3>3 DEF BoundParts
    <3>5. Fits(BoundParts(d))
      <4> DEFINE x == Larger(Larger(d.input, r + w), d.cached)
      <4>1. x \in Nat /\ x + out <= MaxTokens
        BY <1>1, <1>11, <3>3, UsageAssumption
      <4> HIDE DEF x
      <4> QED
        BY <1>11, <3>4, <4>1, FitsTwo DEF x
    <3> QED
      BY <1>1, <1>11, <3>1, <3>2, <3>5 DEF HasBound
  <2>2. Read(d, a) = ProviderIndependentBreakdown(d)
    BY <1>9, <2>1 DEF Read
  <2>4. <<d.input, d.cacheRead, d.cacheWrite>> = <<u, r, w>> /\ d.output = out /\ d.reasoning = s
    BY <1>3, <1>9, <1>11
  <2>5. \A e \in Details :
          e.input = u /\ e.cacheRead = r /\ e.cacheWrite = w /\ e.output = n /\ e.reasoning = s /\ e.total \in {0, total}
            => IndependentBreakdown(e) = Complete(u, r, w, n, s, total)
    BY <1>7 DEF IndependentBreakdown
  <2>6. CASE d.total = total + s
    <3>1. s = 0 /\ out = n
      BY <1>1, <1>2, <1>3, <1>11, <2>6
    <3>2. ProviderIndependentBreakdown(d) = IndependentBreakdown(d)
      BY <1>7, <2>4, <2>6 DEF ProviderIndependentBreakdown
    <3>3. d.input = u /\ d.output = n /\ d.reasoning = s /\ d.total \in {0, total}
      BY <1>1, <1>3, <2>4, <3>1
    <3> QED
      BY <1>3, <1>4, <2>2, <2>5, <3>2, <3>3
  <2>7. CASE d.total # total + s
    <3> DEFINE e == [d EXCEPT !.output = @ - d.reasoning]
    <3>1. ~(d.reasoning < 0 \/ d.reasoning > d.output)
      BY <1>1, <1>11, <2>4
    <3>2. ProviderIndependentBreakdown(d) = IndependentBreakdown(e)
      BY <1>7, <2>4, <2>7, <3>1 DEF ProviderIndependentBreakdown
    <3>3. d.output - d.reasoning = n /\ d.output - d.reasoning \in Int
      BY <1>1, <1>11, <2>4
    <3>4. /\ e \in Details /\ e.input = d.input /\ e.cacheRead = r /\ e.cacheWrite = w
          /\ e.output = n /\ e.reasoning = s /\ e.total = d.total
      BY <1>3, <3>3 DEF Details
    <3>5. d.input = u /\ d.total \in {0, total}
      BY <1>3, <1>9
    <3> HIDE DEF e
    <3> QED
      BY <1>4, <2>2, <2>5, <3>2, <3>4, <3>5
  <2> QED
    BY <2>6, <2>7
<1>10. ASSUME a = "separate"
     PROVE  Read(d, a).quality = "complete" /\ Read(d, a).parts = p
  <2>1. d.input = in /\ d.output = n /\ d.total \in {0, total}
    BY <1>3, <1>10, <1>11
  <2>2. ~(/\ d.total = 0 /\ d.input = 0 /\ d.output = 0
          /\ \E i \in 1..3 : CacheCounts(d)[i] > 0)
    <3>1. CacheCounts(d) = <<r, w, r>>
      BY <1>3 DEF CacheCounts
    <3> QED
      BY <1>1, <1>11, <2>1, <3>1
  <2>3. HasBound(d) \/ ~(d.total = 0 /\ d.input = 0 /\ d.output = 0)
    <3>1. SUFFICES ASSUME d.input = 0, d.output = 0
                   PROVE  HasBound(d)
      OBVIOUS
    <3>2. r = 0 /\ w = 0
      BY <1>1, <1>11, <2>1, <3>1
    <3>3. Fits(<<d.cacheRead, d.cacheWrite>>) /\ Sum(<<d.cacheRead, d.cacheWrite>>) = 0
      BY <1>3, <1>7, <3>2
    <3>4. BoundParts(d) = <<0, s>>
      BY <1>1, <1>3, <3>1, <3>2, <3>3 DEF BoundParts, Larger
    <3>5. Fits(BoundParts(d))
      BY <1>1, <3>4, FitsTwo, UsageAssumption
    <3> QED
      BY <1>1, <1>3, <3>1, <3>2, <3>3, <3>5 DEF HasBound
  <2>4. Read(d, a) = SeparateReasoningBreakdown(d)
    BY <1>10, <2>2, <2>3 DEF Read
  <2>6. SeparateReasoningBreakdown(d) = Complete(d.input - (r + w), r, w, n, s, total)
    BY <1>1, <1>3, <1>7, <1>11, <2>1 DEF SeparateReasoningBreakdown
  <2>7. d.input - (r + w) = u
    BY <1>1, <1>11, <2>1
  <2> QED
    BY <1>4, <2>4, <2>6, <2>7
<1>12. ASSUME a = "beside"
      PROVE  Read(d, "independent").quality = "complete" /\ Read(d, "independent").parts = p
  <2>1. /\ <<d.input, d.cacheRead, d.cacheWrite>> = <<u, r, w>>
        /\ d.output = n /\ d.reasoning = s /\ d.total = total /\ d.total # 0
    BY <1>1, <1>2, <1>3, <1>12
  <2>2. Read(d, "independent") = ProviderIndependentBreakdown(d)
    BY <2>1 DEF Read
  <2>3. ProviderIndependentBreakdown(d) = IndependentBreakdown(d)
    BY <1>7, <2>1 DEF ProviderIndependentBreakdown
  <2>4. IndependentBreakdown(d) = Complete(u, r, w, n, s, total)
    BY <1>3, <1>7, <2>1 DEF IndependentBreakdown
  <2> QED
    BY <1>4, <2>2, <2>3, <2>4
<1>13. SemanticsOf(a) = IF a = "beside" THEN "independent" ELSE a
  BY DEF SemanticsOf
<1> QED
  BY <1>6, <1>8, <1>9, <1>10, <1>12, <1>13 DEF Accountings, Semantics, d

\* A report that tells of any use has used something at least.
LEMMA SomethingBound ==
  ASSUME NEW d \in Details, HasBound(d), d.total = 0, ~ \A i \in 1..6 : PartCounts(d)[i] = 0
  PROVE  LowerBound(d) # 0
<1> DEFINE cache == Sum(<<d.cacheRead, d.cacheWrite>>)
           input == Larger(Larger(d.input, cache), d.cached)
           output == Larger(d.output, d.reasoning)
<1>1. /\ d.cacheRead >= 0 /\ d.cacheWrite >= 0 /\ cache = d.cacheRead + d.cacheWrite
      /\ d.input >= 0 /\ d.output >= 0 /\ d.reasoning >= 0 /\ d.cached >= 0
  BY FitsTwo DEF HasBound, Details
<1> HIDE DEF cache
<1>2. /\ input \in Nat /\ input >= d.input /\ input >= cache /\ input >= d.cached
      /\ output \in Nat /\ output >= d.output /\ output >= d.reasoning
  BY <1>1 DEF Larger, Details
<1>3. BoundParts(d) = <<input, output>>
  BY DEF BoundParts, cache
<1> HIDE DEF input, output
<1>4. LowerBound(d) = input + output
  BY <1>2, <1>3, FitsTwo DEF LowerBound, HasBound
<1>5. d.cacheRead # 0 \/ d.cacheWrite # 0 \/ d.cached # 0 \/ d.input # 0 \/ d.output # 0 \/ d.reasoning # 0
  <2>1. /\ PartCounts(d)[1] = d.cacheRead /\ PartCounts(d)[2] = d.cacheWrite /\ PartCounts(d)[3] = d.cached
        /\ PartCounts(d)[4] = d.input /\ PartCounts(d)[5] = d.output /\ PartCounts(d)[6] = d.reasoning
    BY DEF PartCounts, CacheCounts
  <2>2. PICK i \in 1..6 : PartCounts(d)[i] # 0
    OBVIOUS
  <2>3. i = 1 \/ i = 2 \/ i = 3 \/ i = 4 \/ i = 5 \/ i = 6
    OBVIOUS
  <2> QED
    BY <2>1, <2>2, <2>3
<1> QED
  BY <1>1, <1>2, <1>4, <1>5 DEF Details

\* Under an accounting the plugin knows, the parts are restored.
LEMMA KnownRecovered ==
  ASSUME NEW p, Countable(p), p # NoParts, NEW a \in Accountings, NEW told \in BOOLEAN
  PROVE  LET b == UsageBreakdown(Flattened(p, a, told), SemanticsOf(a)) IN Billable(b) /\ b.parts = p
<1> DEFINE d == Flattened(p, a, told)
           semantics == SemanticsOf(a)
<1>1. semantics \in Semantics
  BY DEF SemanticsOf, Accountings, Semantics
<1> HIDE DEF semantics
<1>2. UsageBreakdown(d, semantics) = Read(d, semantics)
  BY <1>1, TrueReading DEF UsageBreakdown, Semantics, semantics
<1>3. Valid(Read(d, semantics))
  BY <1>1, FlattenedDetails, EveryReading DEF Faithful
<1> QED
  BY <1>2, <1>3, TrueReading DEF Billable, semantics

\* Under one it does not know, they are restored or not known: the true reading is among those
\* that must agree.
LEMMA UnknownRecovered ==
  ASSUME NEW p, Countable(p), p # NoParts, NEW a \in Accountings, NEW told \in BOOLEAN
  PROVE  LET b == UsageBreakdown(Flattened(p, a, told), "unknown") IN Billable(b) => b.parts = p
<1> DEFINE d == Flattened(p, a, told)
           true == Read(d, SemanticsOf(a))
           readings == {b \in {Read(d, s) : s \in Semantics} : b.quality # "inconsistent"}
<1>1. d \in Details /\ d.total <= MaxTokens
  BY FlattenedDetails
<1>2. /\ ~(d.total = 0 /\ \A i \in 1..6 : PartCounts(d)[i] = 0)
      /\ true.quality = "complete" /\ true.parts = p
  BY TrueReading
<1>7. true \in {Read(d, s) : s \in Semantics}
  BY DEF SemanticsOf, Accountings, Semantics
<1> HIDE DEF d, true
<1>3. UsageBreakdown(d, "unknown") =
        IF Agreed(readings) THEN CHOOSE b \in readings : b.quality = "complete" ELSE UnclassifiedUsage(d)
  BY <1>2 DEF UsageBreakdown
<1>4. true \in readings
  BY <1>2, <1>7
<1>5. CASE Agreed(readings)
  <2>1. (CHOOSE b \in readings : b.quality = "complete") = true
    BY <1>4, <1>5 DEF Agreed
  <2> QED
    BY <1>2, <1>3, <1>5, <2>1 DEF d
<1>6. CASE ~Agreed(readings)
  <2>1. UsageBreakdown(d, "unknown") = UnclassifiedUsage(d)
    BY <1>3, <1>6
  <2>2. UnclassifiedUsage(d).quality # "complete"
    <3>1. Inconsistent(d.total, 0).quality # "complete"
      BY DEF Inconsistent
    <3>2. d.total # 0 => Unclassified(d.total).quality # "complete"
      BY <1>1, UnclassifiedReading DEF Details
    <3>3. HasBound(d) /\ d.total = 0 => LowerBound(d) # 0
      BY <1>1, <1>2, SomethingBound
    <3>4. HasBound(d) /\ d.total = 0 => Unclassified(LowerBound(d)).quality # "complete"
      BY <1>1, <3>3, BoundFits, UnclassifiedReading
    <3> QED
      BY <3>1, <3>2, <3>4 DEF UnclassifiedUsage
  <2> QED
    BY <2>1, <2>2 DEF Billable, d
<1> QED
  BY <1>5, <1>6

\* Where all kinds of token cost the same, the whole is paid at that rate.
LEMMA UniformCost ==
  ASSUME NEW price \in Prices, NEW b \in Breakdowns, Billable(b),
         Uniform(IF InputTotal(b) > price.threshold THEN price.long ELSE price.short)
  PROVE  ComputeCost(price, b) =
           (IF InputTotal(b) > price.threshold THEN price.long ELSE price.short).input * b.total
<1> DEFINE rates == IF InputTotal(b) > price.threshold THEN price.long ELSE price.short
           x == rates.input
           r == Inherited(rates)
<1>1. rates \in [input : Nat, cacheRead : Nat \cup {-1}, cacheWrite : Nat \cup {-1}, output : Nat]
  BY UsageReportsAssumption
<1>2. Uniform(rates)
  OBVIOUS
<1>3. Applied(price, b) = r
  BY DEF Applied
<1> HIDE DEF rates
<1>4. /\ DOMAIN rates = {"input", "cacheRead", "cacheWrite", "output"}
      /\ rates["input"] = rates.input /\ rates["cacheRead"] = rates.cacheRead
      /\ rates["cacheWrite"] = rates.cacheWrite /\ rates["output"] = rates.output
  BY <1>1
<1>5. /\ x \in Nat /\ rates.cacheRead \in {x, -1} /\ rates.cacheWrite \in {x, -1}
      /\ rates.output \in {x, -1} /\ rates.output \in Nat
  BY <1>1, <1>2, <1>4 DEF Uniform
<1>6. r.input = x /\ r.cacheRead = x /\ r.cacheWrite = x /\ r.output = x
  BY <1>1, <1>5 DEF Inherited
<1> HIDE DEF r, x
<1> DEFINE u == b.parts["uncached"]
           cr == b.parts["cacheRead"]
           cw == b.parts["cacheWrite"]
           out == OutputTotal(b)
<1>7. ComputeCost(price, b) = u * r.input + cr * r.cacheRead + cw * r.cacheWrite + out * r.output
  BY <1>3 DEF ComputeCost
<1>8. u \in Nat /\ cr \in Nat /\ cw \in Nat /\ out \in Nat
  BY DEF Breakdowns, Parts, OutputTotal
<1>9. b.total = u + cr + cw + out
  <2>1. b.unclassified = 0 /\ b.total = InputTotal(b) + OutputTotal(b) + b.unclassified
    BY DEF Billable, Valid
  <2> QED
    BY <1>8, <2>1 DEF InputTotal
<1> HIDE DEF u, cr, cw, out
<1>10. u * x + cr * x + cw * x + out * x = x * (u + cr + cw + out)
  BY <1>5, <1>8
<1> QED
  BY <1>6, <1>7, <1>9, <1>10 DEF rates, x

----------------------------------------------------------------------------
(* Answers and events *)

\* The last event is none, or that of the answer all responses give.
EventInv ==
  /\ answer \in Answers
  /\ event \in {NoEvent, Event(answer)}

LEMMA TruthsCountable ==
  ASSUME NEW p \in Truths
  PROVE  Countable(p)
<1>1. p \in [Parts -> Nat]
  BY UsageReportsAssumption
<1>2. p["uncached"] + p["cacheRead"] + p["cacheWrite"] + p["nonReasoning"] + 2 * p["reasoning"] <= MaxTokens
  BY UsageReportsAssumption
<1> QED
  BY <1>1, <1>2, UsageAssumption DEF Countable, Counted, Parts

\* Whatever is answered is of the form the readings are made for, and its price is one of Prices.
LEMMA AnswersReadable ==
  ASSUME NEW a \in Answers
  PROVE  /\ a.detail \in Details /\ a.detail.total <= MaxTokens
         /\ a.semantics \in Semantics \cup {"unknown"}
         /\ a.price \in Prices
<1>1. CASE \E p \in Truths, s \in Accountings, told \in BOOLEAN, price \in Prices :
             a = [parts |-> p, semantics |-> "unknown", detail |-> Flattened(p, s, told), price |-> price]
  BY <1>1, TruthsCountable, FlattenedDetails
<1>2. CASE \E p \in Truths, s \in Accountings, told \in BOOLEAN, price \in Prices :
             a = [parts |-> p, semantics |-> SemanticsOf(s), detail |-> Flattened(p, s, told), price |-> price]
  BY <1>2, TruthsCountable, FlattenedDetails DEF SemanticsOf, Accountings, Semantics
<1>3. CASE \E s \in Semantics \cup {"unknown"}, d \in Garbled, price \in Prices :
             a = [parts |-> NoParts, semantics |-> s, detail |-> d, price |-> price]
  BY <1>3, UsageReportsAssumption DEF Details
<1> QED
  BY <1>1, <1>2, <1>3 DEF Answers

LEMMA NothingToBill == ~Billable(Unreported)
<1>1. Unreported.quality = ""
  BY DEF Unreported
<1> QED
  BY <1>1 DEF Billable, Valid

\* What an event records is paid for.
LEMMA AnswerPaid ==
  ASSUME EventInv
  PROVE  PaidInFull
<1> DEFINE b == event.breakdown
           rates == IF InputTotal(b) > answer.price.threshold THEN answer.price.long ELSE answer.price.short
<1>1. /\ answer.detail \in Details /\ answer.detail.total <= MaxTokens
      /\ answer.semantics \in Semantics \cup {"unknown"} /\ answer.price \in Prices
  BY AnswersReadable DEF EventInv
<1>2. CASE event = NoEvent
  <2>1. b = Unreported /\ event.cost = 0
    BY <1>2 DEF NoEvent
  <2>2. ~Billable(b)
    BY <2>1, NothingToBill
  <2> QED
    BY <1>2, <2>1, <2>2 DEF PaidInFull
<1>3. CASE event = Event(answer)
  <2>1. b = UsageBreakdown(answer.detail, answer.semantics) /\ event.cost = ComputeCost(answer.price, b)
    BY <1>3 DEF Event
  <2>2. \/ b = Unreported /\ answer.detail.total = 0
        \/ Faithful(b, answer.detail)
    BY <1>1, <2>1, BreakdownFaithful
  <2>3. ~Billable(b) => event.cost = 0
    BY <2>1 DEF ComputeCost
  <2>4. Billable(b) /\ Uniform(rates) => event.cost = rates.input * b.total
    <3>1. Billable(b) => b \in Breakdowns
      BY <2>2, NothingToBill DEF Faithful
    <3> HIDE DEF b
    <3> QED
      BY <1>1, <2>1, <3>1, UniformCost
  <2>5. (b # Unreported => Valid(b) /\ b.total <= MaxTokens) /\ (answer.detail.total > 0 => b.total = answer.detail.total)
    BY <1>1, <2>2 DEF Faithful, Details
  <2> QED
    BY <2>3, <2>4, <2>5 DEF PaidInFull
<1> QED
  BY <1>2, <1>3 DEF EventInv

\* What an event records is what was used.
LEMMA AnswerRecovered ==
  ASSUME EventInv
  PROVE  PartsRecovered
<1> SUFFICES ASSUME event # NoEvent, answer.parts # NoParts
             PROVE  /\ Billable(event.breakdown) => event.breakdown.parts = answer.parts
                    /\ answer.semantics # "unknown" => Billable(event.breakdown)
  BY DEF PartsRecovered
<1>1. event.breakdown = UsageBreakdown(answer.detail, answer.semantics)
  BY DEF EventInv, Event
<1>2. CASE \E p \in Truths, s \in Accountings, told \in BOOLEAN, price \in Prices :
             answer = [parts |-> p, semantics |-> "unknown", detail |-> Flattened(p, s, told), price |-> price]
  BY <1>1, <1>2, TruthsCountable, UnknownRecovered
<1>3. CASE \E p \in Truths, s \in Accountings, told \in BOOLEAN, price \in Prices :
             answer = [parts |-> p, semantics |-> SemanticsOf(s), detail |-> Flattened(p, s, told), price |-> price]
  BY <1>1, <1>3, TruthsCountable, KnownRecovered
<1> QED
  BY <1>2, <1>3 DEF EventInv, Answers

\* The answer is chosen once, and an event is always its own.
THEOREM EventIsAnswers == Spec => []EventInv
<1>1. Init => EventInv
  BY DEF Init, EventInv
<1>2. ASSUME EventInv, [Next]_vars
      PROVE  EventInv'
  <2>1. answer' = answer
    BY <1>2 DEF Next, vars, Begin, HandleUsage, UseElsewhere, UpstreamReset, PlanChanges, Tick
  <2>2. event' = event \/ event' = Event(answer)
    BY <1>2 DEF Next, vars, Begin, HandleUsage, UseElsewhere, UpstreamReset, PlanChanges, Tick
  <2> QED
    BY <1>2, <2>1, <2>2 DEF EventInv
<1> QED
  BY <1>1, <1>2, PTL DEF Spec

\* usageBreakdown and ComputeCost: for any counts a host may send, and any prices, the parts
\* recorded add up to the total, which is the one reported if there is one, fits an integer,
\* and is paid for once.
THEOREM TokensPaidInFull == Spec => []PaidInFull
<1>1. EventInv => PaidInFull
  BY AnswerPaid
<1> QED
  BY <1>1, EventIsAnswers, PTL

\* usageBreakdown: the parts a response used are restored from its counts under each
\* accounting the plugin knows, and for one it does not know they are never another's.
THEOREM UsedPartsRecovered == Spec => []PartsRecovered
<1>1. EventInv => PartsRecovered
  BY AnswerRecovered
<1> QED
  BY <1>1, EventIsAnswers, PTL

----------------------------------------------------------------------------
(* A history of reports and the periods in it *)

Reasons == {"", "scheduled", "early_reset"}
PeriodSet == [start : Int, end : Nat, resetAt : Nat, reason : Reasons, used : Int]
ResetSet == [at : Nat, resetAt : Nat, prior : Int, moved : BOOLEAN]
ReportSet == [at : Nat, used : Int, resetAt : Nat]
HistorySet == [periods : Seq(PeriodSet), current : PeriodSet, last : ReportSet, reset : ResetSet]

\* Periods that have ended, each after the one before.
Follow(periods) ==
  \A i \in 1 .. Len(periods) :
    /\ periods[i].end # 0
    /\ periods[i].start <= periods[i].end
    /\ i > 1 => periods[i - 1].end <= periods[i].start

\* What runs started after them.
RunsLast(h) ==
  /\ h.current.end = 0
  /\ Len(h.periods) > 0 => h.periods[Len(h.periods)].end <= h.current.start

\* The invariant of QuotaWindowHistories: what a reset undone goes back to is there.
HistoryInv(h) ==
  /\ h \in HistorySet
  /\ Follow(h.periods)
  /\ Runs(h) => RunsLast(h) /\ h.last.at > 0
  /\ h.reset.at # 0 => Len(h.periods) > 0

\* Nothing seen is a history.
LEMMA NoneTyped == NoPeriod \in PeriodSet /\ NoReset \in ResetSet
  BY DEF NoPeriod, NoReset, PeriodSet, ResetSet, Reasons

LEMMA NoReportsInv == HistoryInv(NoReports)
<1>1. NoReports.periods = <<>> /\ NoReports.current = NoPeriod /\ NoReports.reset = NoReset
  BY DEF NoReports
<1>2. NoReports \in HistorySet
  <2>1. <<>> \in Seq(PeriodSet)
    OBVIOUS
  <2>2. [at |-> 0, used |-> 0, resetAt |-> 0] \in ReportSet
    BY DEF ReportSet
  <2> QED
    BY <2>1, <2>2, NoneTyped DEF NoReports, HistorySet
<1>3. Len(NoReports.periods) = 0
  BY <1>1
<1>4. NoReset.at = 0
  BY DEF NoReset
<1> QED
  BY <1>1, <1>2, <1>3, <1>4 DEF HistoryInv, Follow, Runs

\* A first part of a sequence is one, and has its elements.
LEMMA Prefix ==
  ASSUME NEW S, NEW s \in Seq(S), NEW m \in 0 .. Len(s)
  PROVE  SubSeq(s, 1, m) \in Seq(S) /\ Len(SubSeq(s, 1, m)) = m /\ \A i \in 1 .. m : SubSeq(s, 1, m)[i] = s[i]
<1>1. m \in Nat /\ Len(s) \in Nat /\ \A i \in 1 .. m : s[i] \in S
  <2>1. Len(s) \in Nat /\ \A i \in 1 .. Len(s) : s[i] \in S
    BY ElementOfSeq
  <2> QED
    BY <2>1
<1>2. /\ SubSeq(s, 1, m) \in Seq(S)
      /\ Len(SubSeq(s, 1, m)) = IF 1 <= m THEN m - 1 + 1 ELSE 0
      /\ \A i \in 1 .. m - 1 + 1 : SubSeq(s, 1, m)[i] = s[1 + i - 1]
  BY <1>1, SubSeqProperties
<1>3. \A k \in Nat : (IF 1 <= k THEN k - 1 + 1 ELSE 0) = k /\ k - 1 + 1 = k
  OBVIOUS
<1>4. \A i \in 1 .. m : 1 + i - 1 = i
  OBVIOUS
<1> QED
  BY <1>1, <1>2, <1>3, <1>4

\* A period that ends after the last one follows.
LEMMA AppendFollows ==
  ASSUME NEW periods \in Seq(PeriodSet), Follow(periods), NEW p \in PeriodSet, p.end # 0, p.start <= p.end,
         Len(periods) > 0 => periods[Len(periods)].end <= p.start
  PROVE  Follow(Append(periods, p))
<1> DEFINE new == Append(periods, p)
           n == Len(periods)
<1>1. n \in Nat /\ Len(new) = n + 1 /\ (\A i \in 1 .. n : new[i] = periods[i]) /\ new[n + 1] = p
  BY AppendProperties
<1> HIDE DEF new
<1> SUFFICES ASSUME NEW i \in 1 .. Len(new)
             PROVE  /\ new[i].end # 0 /\ new[i].start <= new[i].end
                    /\ i > 1 => new[i - 1].end <= new[i].start
  BY DEF Follow, new
<1>2. CASE i <= n
  <2>1. i \in 1 .. n /\ (i > 1 => i - 1 \in 1 .. n)
    BY <1>1, <1>2
  <2> QED
    BY <1>1, <2>1 DEF Follow
<1>3. CASE i = n + 1
  <2>1. i > 1 => i - 1 = n /\ n \in 1 .. n /\ n > 0
    BY <1>1, <1>3
  <2> QED
    BY <1>1, <1>3, <2>1
<1> QED
  BY <1>1, <1>2, <1>3

\* The periods but the last follow each other, and the last one follows them.
LEMMA ButLastFollows ==
  ASSUME NEW periods \in Seq(PeriodSet), Follow(periods), Len(periods) > 0
  PROVE  /\ Front(periods) \in Seq(PeriodSet) /\ Follow(Front(periods))
         /\ Last(periods) \in PeriodSet
         /\ Len(Front(periods)) > 0 => Front(periods)[Len(Front(periods))].end <= Last(periods).start
<1> DEFINE n == Len(periods)
           front == SubSeq(periods, 1, n - 1)
<1>1. n \in Nat /\ n > 0 /\ \A i \in 1 .. n : periods[i] \in PeriodSet
  BY ElementOfSeq
<1>2. front \in Seq(PeriodSet) /\ Len(front) = n - 1 /\ \A i \in 1 .. n - 1 : front[i] = periods[i]
  <2>1. n - 1 \in 0 .. n
    BY <1>1
  <2> QED
    BY <2>1, Prefix
<1>3. Front(periods) = front /\ Last(periods) = periods[n]
  BY DEF Front, Last
<1> HIDE DEF front
<1>4. Follow(front)
  <2> SUFFICES ASSUME NEW i \in 1 .. Len(front)
               PROVE  /\ front[i].end # 0 /\ front[i].start <= front[i].end
                      /\ i > 1 => front[i - 1].end <= front[i].start
    BY DEF Follow
  <2>1. i \in 1 .. n - 1 /\ i \in 1 .. n /\ (i > 1 => i - 1 \in 1 .. n - 1)
    BY <1>1, <1>2
  <2> QED
    BY <1>2, <2>1 DEF Follow
<1>5. Len(front) > 0 => front[Len(front)].end <= periods[n].start
  <2> SUFFICES ASSUME Len(front) > 0
               PROVE  front[Len(front)].end <= periods[n].start
    OBVIOUS
  <2>1. n \in 1 .. n /\ n > 1 /\ n - 1 \in 1 .. n - 1 /\ Len(front) = n - 1
    BY <1>1, <1>2
  <2> QED
    BY <1>2, <2>1 DEF Follow
<1> QED
  BY <1>1, <1>2, <1>3, <1>4, <1>5

\* end: the period that runs ends where it starts or later, and nothing runs.
LEMMA EndedInv ==
  ASSUME NEW h, HistoryInv(h), Runs(h), NEW at \in Nat \ {0}, NEW reason \in Reasons
  PROVE  LET new == Ended(h, at, reason) IN
         /\ HistoryInv(new) /\ ~Runs(new) /\ Len(new.periods) > 0 /\ new.last = h.last
<1> DEFINE current == h.current
           due == current.resetAt # 0 /\ at >= current.resetAt
           end == Later(IF due THEN current.resetAt ELSE at, current.start)
           why == IF due THEN "scheduled" ELSE reason
           ended == [current EXCEPT !.end = end, !.reason = why]
           new == Ended(h, at, reason)
<1>1. /\ h \in HistorySet /\ Follow(h.periods) /\ current \in PeriodSet /\ h.periods \in Seq(PeriodSet)
      /\ RunsLast(h) /\ h.last \in ReportSet
  BY DEF HistoryInv, HistorySet
<1>2. end \in Nat /\ end # 0 /\ current.start <= end /\ why \in Reasons
  <2> DEFINE t == IF due THEN current.resetAt ELSE at
  <2>1. t \in Nat /\ t # 0 /\ current.start \in Int
    BY <1>1 DEF PeriodSet
  <2>2. why \in Reasons
    BY DEF Reasons
  <2> HIDE DEF t, why
  <2> QED
    BY <2>1, <2>2 DEF Later, t
<1>3. new = [h EXCEPT !.periods = Append(@, ended), !.current = NoPeriod, !.reset = NoReset]
  BY DEF Ended
<1> HIDE DEF end, why
<1>4. ended \in PeriodSet /\ ended.end = end /\ ended.start = current.start
  BY <1>1, <1>2 DEF PeriodSet
<1> HIDE DEF ended, new
<1>5. /\ new.periods = Append(h.periods, ended) /\ new.current = NoPeriod /\ new.reset = NoReset /\ new.last = h.last
      /\ DOMAIN new = DOMAIN h
  BY <1>1, <1>3 DEF HistorySet
<1>6. /\ Append(h.periods, ended) \in Seq(PeriodSet) /\ Len(Append(h.periods, ended)) > 0
      /\ Follow(Append(h.periods, ended))
  <2>1. Append(h.periods, ended) \in Seq(PeriodSet) /\ Len(Append(h.periods, ended)) = Len(h.periods) + 1
    BY <1>1, <1>4, AppendProperties
  <2>2. Len(h.periods) \in Nat
    BY <1>1
  <2> QED
    BY <1>1, <1>2, <1>4, <2>1, <2>2, AppendFollows DEF RunsLast
<1>7. new \in HistorySet
  BY <1>1, <1>3, <1>5, <1>6, NoneTyped DEF HistorySet
<1>8. NoReset.at = 0
  BY DEF NoReset
<1> QED
  BY <1>5, <1>6, <1>7, <1>8 DEF HistoryInv, Runs, new

\* A period that a reset ended too early runs again, after those before it.
LEMMA RejoinedInv ==
  ASSUME NEW h, HistoryInv(h), NEW report \in ReportSet
  PROVE  HistoryInv(Rejoined(h, report)) /\ Rejoined(h, report).last = h.last
<1> DEFINE new == Rejoined(h, report)
           p == Last(h.periods)
           used == Later(p.used, h.current.used)
           c == [p EXCEPT !.end = 0, !.reason = "", !.used = Later(@, h.current.used)]
<1>1. CASE ~ShowsOld(h, report)
  BY <1>1 DEF Rejoined
<1>2. CASE ShowsOld(h, report)
  <2>1. Runs(h) /\ h.reset.at # 0 /\ Len(h.periods) > 0
    BY <1>2 DEF ShowsOld, HistoryInv
  <2>2. h \in HistorySet /\ h.periods \in Seq(PeriodSet) /\ h.current \in PeriodSet /\ Follow(h.periods) /\ h.last.at > 0
    BY <2>1 DEF HistoryInv, HistorySet
  <2>3. /\ Front(h.periods) \in Seq(PeriodSet) /\ Follow(Front(h.periods)) /\ p \in PeriodSet
        /\ Len(Front(h.periods)) > 0 => Front(h.periods)[Len(Front(h.periods))].end <= p.start
    BY <2>1, <2>2, ButLastFollows
  <2>4. new = [h EXCEPT !.periods = Front(@), !.reset = NoReset, !.current = c]
    BY <1>2 DEF Rejoined
  <2> HIDE DEF p, new
  <2>5. c = [p EXCEPT !.end = 0, !.reason = "", !.used = used]
    BY <2>3
  <2>6. used \in Int
    BY <2>2, <2>3 DEF PeriodSet, Later
  <2> HIDE DEF used, c
  <2>7. c \in PeriodSet /\ c.end = 0 /\ c.start = p.start
    BY <2>3, <2>5, <2>6 DEF PeriodSet, Reasons
  <2>8. /\ new.periods = Front(h.periods) /\ new.current = c /\ new.reset = NoReset /\ new.last = h.last
    BY <2>2, <2>4 DEF HistorySet
  <2>9. new \in HistorySet
    BY <2>2, <2>3, <2>4, <2>7, NoneTyped DEF HistorySet
  <2>10. NoReset.at = 0
    BY DEF NoReset
  <2> QED
    BY <2>2, <2>3, <2>7, <2>8, <2>9, <2>10 DEF HistoryInv, RunsLast, new
<1> QED
  BY <1>1, <1>2

\* A window may have begun before the first instant.
LEMMA BeginsInt ==
  ASSUME NEW length \in Nat, NEW report \in ReportSet
  PROVE  Begins(length, report) \in Int
BY DEF Begins, Earlier, ReportSet

\* An early reset ends the period.
LEMMA EndedEarlyInv ==
  ASSUME NEW length \in Nat, NEW h, HistoryInv(h), Runs(h), NEW report \in ReportSet, report.at > 0
  PROVE  LET new == EndedEarly(length, h, report) IN
         HistoryInv(new) /\ ~Runs(new) /\ new.last = h.last
<1> DEFINE moved == Moved(h.current, report)
           at == IF moved THEN Later(Begins(length, report), h.last.at) ELSE report.at
           next == Ended(h, at, "early_reset")
           reset == [at |-> Last(next.periods).end, resetAt |-> h.current.resetAt, prior |-> h.last.used, moved |-> moved]
           new == EndedEarly(length, h, report)
<1>1. h \in HistorySet /\ h.last \in ReportSet /\ h.last.at > 0 /\ h.current \in PeriodSet
  BY DEF HistoryInv, HistorySet
<1>2. at \in Nat \ {0}
  <2>1. Later(Begins(length, report), h.last.at) \in Nat \ {0}
    <3>1. Begins(length, report) \in Int /\ h.last.at \in Nat /\ h.last.at > 0
      BY <1>1, BeginsInt DEF ReportSet
    <3> QED
      BY <3>1 DEF Later
  <2> QED
    BY <2>1 DEF ReportSet
<1>3. HistoryInv(next) /\ ~Runs(next) /\ Len(next.periods) > 0 /\ next.last = h.last
  <2>1. "early_reset" \in Reasons
    BY DEF Reasons
  <2> HIDE DEF at
  <2> QED
    BY <1>2, <2>1, EndedInv
<1>4. new = IF Last(next.periods).reason # "early_reset" THEN next ELSE [next EXCEPT !.reset = reset]
  BY DEF EndedEarly
<1> HIDE DEF next, new
<1>5. next \in HistorySet /\ next.periods \in Seq(PeriodSet) /\ Follow(next.periods)
  BY <1>3 DEF HistoryInv, HistorySet
<1>6. reset \in ResetSet
  <2>1. Last(next.periods) \in PeriodSet
    BY <1>3, <1>5, ButLastFollows
  <2>2. moved \in BOOLEAN
    BY DEF Moved
  <2> HIDE DEF moved
  <2> QED
    BY <1>1, <2>1, <2>2 DEF ResetSet, PeriodSet, ReportSet
<1> HIDE DEF reset
<1>7. CASE new = next
  BY <1>3, <1>7 DEF new
<1>8. CASE new = [next EXCEPT !.reset = reset]
  <2>1. new.periods = next.periods /\ new.current = next.current /\ new.last = next.last
    BY <1>5, <1>8 DEF HistorySet
  <2>2. new \in HistorySet
    BY <1>5, <1>6, <1>8 DEF HistorySet
  <2> QED
    BY <1>3, <1>5, <2>1, <2>2 DEF HistoryInv, Runs, new
<1> QED
  BY <1>4, <1>7, <1>8

\* A period only ever starts later.
LEMMA RescheduledInv ==
  ASSUME NEW length \in Nat, NEW h, HistoryInv(h), Runs(h), NEW report \in ReportSet
  PROVE  LET new == Rescheduled(length, h, report) IN HistoryInv(new) /\ new.last = h.last
<1> DEFINE start == IF h.current.used = 0 THEN Later(h.current.start, Begins(length, report)) ELSE h.current.start
           c == [h.current EXCEPT !.resetAt = report.resetAt, !.start = start]
           new == Rescheduled(length, h, report)
<1>1. h \in HistorySet /\ h.current \in PeriodSet /\ RunsLast(h) /\ h.last.at > 0 /\ h.periods \in Seq(PeriodSet)
  BY DEF HistoryInv, HistorySet
<1>2. start \in Int /\ h.current.start <= start
  <2>1. Begins(length, report) \in Int /\ h.current.start \in Int
    BY <1>1, BeginsInt DEF PeriodSet
  <2> QED
    BY <2>1 DEF Later
<1>3. new.periods = h.periods /\ new.current = c /\ new.last = h.last /\ new.reset = h.reset
  BY <1>1 DEF Rescheduled, HistorySet, PeriodSet
<1>4. new = [h EXCEPT !.current = c]
  BY <1>1 DEF Rescheduled, HistorySet, PeriodSet
<1> HIDE DEF start
<1>5. c \in PeriodSet /\ c.end = h.current.end /\ c.start = start
  BY <1>1, <1>2 DEF PeriodSet, ReportSet
<1> HIDE DEF c, new
<1>6. new \in HistorySet
  BY <1>1, <1>4, <1>5 DEF HistorySet
<1>7. RunsLast(new)
  <2> SUFFICES ASSUME Len(h.periods) > 0
               PROVE  h.periods[Len(h.periods)].end <= start
    BY <1>1, <1>3, <1>5 DEF RunsLast
  <2>1. h.periods[Len(h.periods)].end <= h.current.start
    BY <1>1 DEF RunsLast
  <2>2. h.periods[Len(h.periods)] \in PeriodSet
    <3>1. Len(h.periods) \in 1 .. Len(h.periods)
      BY <1>1
    <3> QED
      BY <1>1, <3>1, ElementOfSeq
  <2>3. h.periods[Len(h.periods)].end \in Int /\ h.current.start \in Int
    BY SMTT(30), <1>1, <2>2 DEF PeriodSet
  <2> QED
    BY ONLY <1>2, <2>1, <2>3
<1> QED
  BY <1>1, <1>3, <1>6, <1>7 DEF HistoryInv, new

\* Whatever a report says of the period that runs, the history stays one.
LEMMA JudgedInv ==
  ASSUME NEW length \in Nat, NEW h, HistoryInv(h), Runs(h), NEW report \in ReportSet, report.at > 0
  PROVE  HistoryInv(Judged(length, h, report)) /\ Judged(length, h, report).last = h.last
<1> DEFINE over == Moved(h.current, report) /\ Begins(length, report) >= h.current.resetAt - Jitter
<1>1. h.current \in PeriodSet
  BY DEF HistoryInv, HistorySet
<1>2. CASE over
  <2>1. h.current.resetAt \in Nat \ {0} /\ "scheduled" \in Reasons
    BY <1>1, <1>2 DEF Moved, PeriodSet, Reasons
  <2>2. Judged(length, h, report) = Ended(h, h.current.resetAt, "scheduled")
    BY <1>2 DEF Judged
  <2> QED
    BY <2>1, <2>2, EndedInv
<1>3. CASE ~over /\ ResetEarly(h, report)
  <2>1. Judged(length, h, report) = EndedEarly(length, h, report)
    BY <1>3 DEF Judged
  <2> QED
    BY <2>1, EndedEarlyInv
<1>4. CASE ~over /\ ~ResetEarly(h, report)
  <2>1. Judged(length, h, report) \in {h, Rescheduled(length, h, report)}
    BY <1>4 DEF Judged
  <2> QED
    BY <2>1, RescheduledInv
<1> QED
  BY <1>2, <1>3, <1>4

\* What runs now did not start before the last period ended.
LEMMA OpenedInv ==
  ASSUME NEW length \in Nat, NEW before, NEW h, HistoryInv(h), NEW report \in ReportSet
  PROVE  LET new == Opened(length, before, h, report) IN
         new \in HistorySet /\ new.periods = h.periods /\ new.reset = h.reset /\ RunsLast(new)
<1> DEFINE new == Opened(length, before, h, report)
<1>1. h \in HistorySet /\ h.current \in PeriodSet /\ h.periods \in Seq(PeriodSet)
  BY DEF HistoryInv, HistorySet
<1>2. CASE Runs(h)
  <2>1. new = h
    BY <1>2 DEF Opened
  <2> QED
    BY <1>1, <1>2, <2>1 DEF HistoryInv
<1>3. CASE ~Runs(h)
  <2> DEFINE early == Runs(before) /\ ~(Moved(before.current, report)
                                          /\ Begins(length, report) >= before.current.resetAt - Jitter)
             ended == IF h.periods = <<>> THEN 0 ELSE Last(h.periods).end
             start == IF early THEN ended ELSE Later(Begins(length, report), ended)
             due == IF Scheduled(report) THEN report.resetAt ELSE 0
             c == [NoPeriod EXCEPT !.start = start, !.resetAt = due]
  <2>1. new = [h EXCEPT !.current = c]
    BY <1>3 DEF Opened
  <2>2. ended \in Nat /\ (Len(h.periods) > 0 => ended = h.periods[Len(h.periods)].end)
    <3>1. CASE h.periods = <<>>
      BY <3>1
    <3>2. CASE h.periods # <<>>
      <4>1. h.periods[Len(h.periods)] \in PeriodSet /\ Last(h.periods) = h.periods[Len(h.periods)]
        BY <1>1, <3>2, ElementOfSeq DEF Last
      <4> QED
        BY <3>2, <4>1 DEF PeriodSet
    <3> QED
      BY <3>1, <3>2
  <2>3. start \in Int /\ ended <= start
    <3>1. Begins(length, report) \in Int
      BY BeginsInt
    <3> HIDE DEF ended, early
    <3> QED
      BY <2>2, <3>1 DEF Later
  <2>4. due \in Nat
    BY DEF ReportSet
  <2> HIDE DEF start, due, ended, new
  <2>5. c \in PeriodSet /\ c.start = start /\ c.end = 0
    <3>1. NoPeriod \in PeriodSet /\ NoPeriod.end = 0
      BY NoneTyped DEF NoPeriod
    <3> QED
      BY <2>3, <2>4, <3>1 DEF PeriodSet
  <2> HIDE DEF c
  <2>6. new.periods = h.periods /\ new.reset = h.reset /\ new.current = c
    BY <1>1, <2>1 DEF HistorySet
  <2>7. new \in HistorySet
    BY <1>1, <2>1, <2>5 DEF HistorySet
  <2> QED
    BY <2>2, <2>3, <2>5, <2>6, <2>7 DEF RunsLast, new
<1> QED
  BY <1>2, <1>3

\* One report more.
LEMMA AbsorbedInv ==
  ASSUME NEW length \in Nat, NEW h, HistoryInv(h), NEW report \in ReportSet, report.at > 0
  PROVE  HistoryInv(Absorbed(length, h, report))
<1> DEFINE before == Rejoined(h, report)
           judged == IF Runs(before) THEN Judged(length, before, report) ELSE before
           opened == Opened(length, before, judged, report)
           used == Later(opened.current.used, report.used)
           new == Absorbed(length, h, report)
<1>1. HistoryInv(before)
  BY RejoinedInv
<1>2. HistoryInv(judged)
  <2> HIDE DEF before
  <2> QED
    BY <1>1, JudgedInv
<1>3. new = [opened EXCEPT !.current.used = Later(@, report.used), !.last = report]
  BY DEF Absorbed
<1> HIDE DEF judged, before
<1>4. opened \in HistorySet /\ opened.periods = judged.periods /\ opened.reset = judged.reset /\ RunsLast(opened)
  BY <1>2, OpenedInv
<1> HIDE DEF opened, new
<1>5. opened.current \in PeriodSet
  BY <1>4 DEF HistorySet
<1>6. used \in Int
  BY <1>5 DEF PeriodSet, ReportSet, Later
<1> DEFINE c == [opened.current EXCEPT !.used = used]
<1>7. new.periods = opened.periods /\ new.reset = opened.reset /\ new.current = c /\ new.last = report
  BY <1>3, <1>4, <1>5 DEF HistorySet, PeriodSet
<1>8. new = [opened EXCEPT !.current = c, !.last = report]
  BY <1>3, <1>4, <1>5 DEF HistorySet, PeriodSet
<1> HIDE DEF used
<1>9. c \in PeriodSet /\ c.end = opened.current.end /\ c.start = opened.current.start
  BY <1>5, <1>6 DEF PeriodSet
<1> HIDE DEF c
<1>10. new \in HistorySet
  BY <1>4, <1>8, <1>9 DEF HistorySet
<1>11. RunsLast(new)
  BY <1>4, <1>7, <1>9 DEF RunsLast
<1> QED
  BY <1>2, <1>4, <1>7, <1>10, <1>11 DEF HistoryInv, new

----------------------------------------------------------------------------
(* The history of a list of reports *)

LEMMA LeastNatural ==
  ASSUME NEW T \in SUBSET Nat, T # {}
  PROVE  \E x \in T : \A y \in T : x <= y
<1>1. PICK x \in T : \A y \in T : ~(<<y, x>> \in OpToRel(<, Nat))
  BY WFMin, NatLessThanWellFounded
<1>2. \A y \in T : ~(y < x)
  BY <1>1 DEF OpToRel
<1> QED
  BY <1>2

\* A report that does not list a window says nothing of it.
Step(w, report, h) ==
  IF w \in DOMAIN report.windows THEN Absorbed(LengthOf[w], h, Reported(report, w)) ELSE h

\* f is the histories of the first 0 .. n reports.
Follows(f, w, stored, n) ==
  /\ DOMAIN f = 0 .. n
  /\ f[0] = NoReports
  /\ \A m \in 1 .. n : f[m] = Step(w, stored[m], f[m - 1])

\* The histories of all first parts of a list of reports exist.
LEMMA HistoriesExist ==
  ASSUME NEW w \in Windows, NEW stored, NEW length \in Nat
  PROVE  \E f : Follows(f, w, stored, length)
<1> DEFINE missing == {n \in Nat : ~\E f : Follows(f, w, stored, n)}
<1>1. SUFFICES ASSUME missing # {} PROVE FALSE
  BY <1>1
<1>2. PICK n \in missing : \A k \in missing : n <= k
  <2>1. missing \in SUBSET Nat
    OBVIOUS
  <2> HIDE DEF missing
  <2> QED
    BY <1>1, <2>1, LeastNatural
<1>3. n # 0
  <2> DEFINE f == [m \in 0 .. 0 |-> NoReports]
  <2>1. Follows(f, w, stored, 0)
    BY DEF Follows
  <2> QED
    BY <2>1
<1>4. n \in Nat /\ n - 1 \in Nat /\ n - 1 \notin missing
  BY <1>2, <1>3
<1>5. PICK f : Follows(f, w, stored, n - 1)
  BY <1>4
<1> DEFINE g == [m \in 0 .. n |-> IF m = n THEN Step(w, stored[n], f[n - 1]) ELSE f[m]]
<1>6. Follows(g, w, stored, n)
  <2>1. DOMAIN g = 0 .. n
    OBVIOUS
  <2>2. g[0] = NoReports
    BY <1>3, <1>4, <1>5 DEF Follows
  <2>3. ASSUME NEW m \in 1 .. n
        PROVE  g[m] = Step(w, stored[m], g[m - 1])
    <3>1. m \in 0 .. n /\ m - 1 \in 0 .. n /\ m - 1 # n
      BY <1>4
    <3>2. g[m - 1] = f[m - 1]
      BY <3>1
    <3>3. CASE m = n
      BY <3>1, <3>2, <3>3
    <3>4. CASE m # n
      <4>1. m \in 1 .. n - 1
        BY <1>4, <3>4
      <4> QED
        BY <1>5, <3>1, <3>2, <3>4, <4>1 DEF Follows
    <3> QED
      BY <3>3, <3>4
  <2> HIDE DEF g
  <2> QED
    BY <2>1, <2>2, <2>3 DEF Follows
<1> QED
  BY <1>2, <1>6

\* A stored report: its request began at some instant.
Stored(report) ==
  /\ report.at \in Nat \ {0}
  /\ \A w \in DOMAIN report.windows : report.windows[w].used \in Int /\ report.windows[w].resetAt \in Nat

\* A report that is stored keeps a history one.
LEMMA StepInv ==
  ASSUME NEW w \in Windows, NEW report, Stored(report), NEW h, HistoryInv(h)
  PROVE  HistoryInv(Step(w, report, h))
<1>1. CASE w \in DOMAIN report.windows
  <2>1. Reported(report, w) \in ReportSet /\ Reported(report, w).at > 0
    BY <1>1 DEF Reported, ReportSet, Stored
  <2>2. LengthOf[w] \in Nat
    BY CredentialQuotasAssumption
  <2> QED
    BY <1>1, <2>1, <2>2, AbsorbedInv DEF Step
<1>2. CASE w \notin DOMAIN report.windows
  BY <1>2 DEF Step
<1> QED
  BY <1>1, <1>2

\* Were there a list whose histories are wrong, a shortest would end in a step that is.
LEMMA HistoriesInv ==
  ASSUME NEW w \in Windows, NEW stored, NEW length \in Nat, \A n \in 1 .. length : Stored(stored[n]),
         NEW f, Follows(f, w, stored, length)
  PROVE  \A n \in 0 .. length : HistoryInv(f[n])
<1> DEFINE wrong == {n \in 0 .. length : ~HistoryInv(f[n])}
<1>1. SUFFICES ASSUME wrong # {} PROVE FALSE
  BY <1>1
<1>2. PICK n \in wrong : \A k \in wrong : n <= k
  <2>1. wrong \in SUBSET Nat
    OBVIOUS
  <2> HIDE DEF wrong
  <2> QED
    BY <1>1, <2>1, LeastNatural
<1>3. n # 0
  BY <1>2, NoReportsInv DEF Follows
<1>4. n \in 1 .. length /\ n - 1 \in 0 .. length /\ n - 1 \notin wrong
  BY <1>2, <1>3
<1>5. HistoryInv(f[n - 1]) /\ f[n] = Step(w, stored[n], f[n - 1])
  BY <1>4 DEF Follows
<1>6. HistoryInv(f[n])
  BY <1>4, <1>5, StepInv
<1> QED
  BY <1>2, <1>6

\* QuotaWindowHistories builds a history.
LEMMA HistoryOfStored ==
  ASSUME NEW w \in Windows, NEW stored, Len(stored) \in Nat, \A n \in 1 .. Len(stored) : Stored(stored[n])
  PROVE  HistoryInv(History(w, stored))
<1> DEFINE Histories(f) ==
             f = [n \in 0 .. Len(stored) |->
                    IF n = 0 THEN NoReports
                    ELSE IF w \in DOMAIN stored[n].windows
                      THEN Absorbed(LengthOf[w], f[n - 1], Reported(stored[n], w))
                    ELSE f[n - 1]]
           all == CHOOSE f : Histories(f)
<1>1. PICK f : Follows(f, w, stored, Len(stored))
  BY HistoriesExist
<1> DEFINE g == [n \in 0 .. Len(stored) |-> f[n]]
<1>2. Histories(g)
  <2>1. \A n \in 0 .. Len(stored) :
          g[n] = IF n = 0 THEN NoReports
                 ELSE IF w \in DOMAIN stored[n].windows
                   THEN Absorbed(LengthOf[w], g[n - 1], Reported(stored[n], w))
                 ELSE g[n - 1]
    <3> SUFFICES ASSUME NEW n \in 0 .. Len(stored), n # 0
                 PROVE  g[n] = IF w \in DOMAIN stored[n].windows
                                 THEN Absorbed(LengthOf[w], g[n - 1], Reported(stored[n], w))
                               ELSE g[n - 1]
      BY <1>1 DEF Follows
    <3>1. n \in 1 .. Len(stored) /\ n - 1 \in 0 .. Len(stored)
      OBVIOUS
    <3>2. g[n] = f[n] /\ g[n - 1] = f[n - 1]
      BY <3>1
    <3>3. f[n] = Step(w, stored[n], f[n - 1])
      BY <1>1, <3>1 DEF Follows
    <3> HIDE DEF g
    <3> QED
      BY <3>2, <3>3 DEF Step
  <2> QED
    BY <2>1
<1>3. Histories(all)
  BY <1>2
<1>4. Follows(all, w, stored, Len(stored))
  <2>1. DOMAIN all = 0 .. Len(stored)
    BY <1>3
  <2>2. \A n \in 0 .. Len(stored) :
          all[n] = IF n = 0 THEN NoReports
                   ELSE IF w \in DOMAIN stored[n].windows
                     THEN Absorbed(LengthOf[w], all[n - 1], Reported(stored[n], w))
                   ELSE all[n - 1]
    BY <1>3
  <2> HIDE DEF all
  <2>3. ASSUME NEW n \in 1 .. Len(stored)
        PROVE  all[n] = Step(w, stored[n], all[n - 1])
    BY <2>2 DEF Step
  <2>4. all[0] = NoReports
    BY <2>2
  <2> QED
    BY <2>1, <2>3, <2>4 DEF Follows
<1>5. History(w, stored) = all[Len(stored)]
  BY DEF History
<1> HIDE DEF all
<1> QED
  BY <1>4, <1>5, HistoriesInv

\* QuotaWindowPeriods, with the period that runs ended or not.
LEMMA PeriodsFollow ==
  ASSUME NEW w \in Windows, NEW stored, Len(stored) \in Nat, \A n \in 1 .. Len(stored) : Stored(stored[n]), NEW now
  PROVE  \A i \in DOMAIN Periods(w, stored, now) : LET periods == Periods(w, stored, now) IN
           /\ periods[i].end = 0 => i = Len(periods)
           /\ periods[i].end # 0 => periods[i].start <= periods[i].end
           /\ i > 1 => periods[i - 1].end <= periods[i].start
<1> DEFINE h == History(w, stored)
           periods == Periods(w, stored, now)
           over == Runs(h) /\ h.current.resetAt # 0 /\ now >= h.current.resetAt
<1>1. HistoryInv(h)
  BY HistoryOfStored
<1> HIDE DEF h
<1>2. h.current \in PeriodSet /\ h.periods \in Seq(PeriodSet) /\ Follow(h.periods)
  BY <1>1 DEF HistoryInv, HistorySet
<1>3. CASE over
  <2>1. periods = Ended(h, h.current.resetAt, "scheduled").periods
    BY <1>3 DEF Periods, h
  <2>2. h.current.resetAt \in Nat \ {0} /\ "scheduled" \in Reasons
    BY <1>2, <1>3 DEF PeriodSet, Reasons
  <2>3. HistoryInv(Ended(h, h.current.resetAt, "scheduled"))
    BY <1>1, <1>3, <2>2, EndedInv
  <2>4. Follow(periods) /\ periods \in Seq(PeriodSet)
    BY <2>1, <2>3 DEF HistoryInv, HistorySet
  <2> HIDE DEF periods
  <2> QED
    BY <2>4 DEF Follow, periods
<1>4. CASE ~over /\ Runs(h)
  <2> DEFINE n == Len(h.periods)
  <2>1. periods = Append(h.periods, h.current)
    BY <1>4 DEF Periods, h
  <2>2. /\ periods \in Seq(PeriodSet) /\ n \in Nat /\ Len(periods) = n + 1
        /\ \A i \in 1 .. n : periods[i] = h.periods[i]
        /\ periods[n + 1] = h.current
    BY <1>2, <2>1, AppendProperties
  <2>3. RunsLast(h)
    BY <1>1, <1>4 DEF HistoryInv
  <2> HIDE DEF periods
  <2>4. ASSUME NEW i \in 1 .. n + 1
        PROVE  /\ periods[i].end = 0 => i = Len(periods)
               /\ periods[i].end # 0 => periods[i].start <= periods[i].end
               /\ i > 1 => periods[i - 1].end <= periods[i].start
    <3>1. CASE i <= n
      <4>1. i \in 1 .. n /\ (i > 1 => i - 1 \in 1 .. n)
        BY <2>2, <3>1
      <4> QED
        BY <1>2, <2>2, <4>1 DEF Follow
    <3>2. CASE i = n + 1
      <4>1. i > 1 => i - 1 = n /\ n \in 1 .. n /\ n > 0
        BY <2>2, <3>2
      <4> QED
        BY <2>2, <2>3, <3>2, <4>1 DEF RunsLast
    <3> QED
      BY <2>2, <3>1, <3>2
  <2>5. DOMAIN periods = 1 .. n + 1
    BY <2>2
  <2> QED
    BY <2>4, <2>5 DEF periods
<1>5. CASE ~over /\ ~Runs(h)
  <2>1. periods = h.periods
    BY <1>5 DEF Periods, h
  <2> HIDE DEF periods
  <2>2. DOMAIN periods = 1 .. Len(periods)
    BY <1>2, <2>1
  <2> QED
    BY <1>2, <2>1, <2>2 DEF Follow, periods
<1> QED
  BY <1>3, <1>4, <1>5

----------------------------------------------------------------------------
(* The reports that are stored *)

Says == [used : Nat, resetAt : Nat]

Reports == [at : Nat \ {0}, plan : Plans, windows : UNION {[listed -> Says] : listed \in SUBSET Windows}]

\* A request in flight has begun at an instant of the clock, and so has every report's.
ReportsInv ==
  /\ clock \in Nat \ {0}
  /\ upstream \in [Windows -> [used : Nat, resetAt : Nat, resets : Nat]]
  /\ begun \in [Requests -> Nat]
  /\ reports \in Seq(Reports)

\* A typed report is what a history is built from.
LEMMA ReportsAreStored ==
  ASSUME NEW report \in Reports
  PROVE  Stored(report)
<1>1. PICK listed \in SUBSET Windows : report.windows \in [listed -> Says]
  BY DEF Reports
<1> QED
  BY <1>1 DEF Reports, Stored, Says

\* Insertion at any place, the ends included.
LEMMA InsertAtTyped ==
  ASSUME NEW S, NEW s \in Seq(S), NEW i \in 1 .. Len(s) + 1, NEW e \in S
  PROVE  InsertAt(s, i, e) \in Seq(S)
<1> DEFINE a == SubSeq(s, 1, i - 1)
           b == SubSeq(s, i, Len(s))
<1>1. Len(s) \in Nat /\ i \in Int
  OBVIOUS
<1>2. a \in Seq(S)
  <2>1. i - 1 \in 0 .. Len(s)
    BY <1>1
  <2> QED
    BY <2>1, Prefix
<1>3. b \in Seq(S)
  <2>1. \A j \in i .. Len(s) : s[j] \in S
    BY <1>1, ElementOfSeq
  <2> QED
    BY <1>1, <2>1, SubSeqProperties
<1>4. InsertAt(s, i, e) = a \o <<e>> \o b
  BY DEF InsertAt
<1> HIDE DEF a, b
<1>5. <<e>> \in Seq(S)
  OBVIOUS
<1>6. a \o <<e>> \in Seq(S)
  BY <1>2, <1>5, ConcatProperties
<1>7. a \o <<e>> \o b \in Seq(S)
  BY <1>3, <1>6, ConcatProperties
<1> QED
  BY <1>4, <1>7

\* insertQuotaReport stores what it is given, wherever that goes.
LEMMA InsertedIsReports ==
  ASSUME reports \in Seq(Reports), NEW report \in Reports
  PROVE  Inserted(report) \in Seq(Reports)
<1> DEFINE before == {i \in DOMAIN reports : reports[i].at <= report.at}
           n == Cardinality(before)
<1>1. Len(reports) \in Nat /\ DOMAIN reports = 1 .. Len(reports)
  OBVIOUS
<1>2. n \in 0 .. Len(reports)
  <2>1. IsFiniteSet(1 .. Len(reports)) /\ Cardinality(1 .. Len(reports)) = Len(reports)
    BY <1>1, FS_Interval
  <2>2. before \in SUBSET (1 .. Len(reports))
    BY <1>1
  <2> HIDE DEF before
  <2>3. IsFiniteSet(before) /\ n <= Len(reports)
    BY <2>1, <2>2, FS_Subset
  <2>4. n \in Nat
    BY <2>3, FS_CardinalityType
  <2> QED
    BY <1>1, <2>3, <2>4
<1>3. Inserted(report) = InsertAt(reports, 1 + n, report)
  BY DEF Inserted
<1> HIDE DEF n
<1>4. 1 + n \in 1 .. Len(reports) + 1
  BY <1>1, <1>2
<1> QED
  BY <1>3, <1>4, InsertAtTyped

\* Use is counted, and a window that runs has a reset time.
LEMMA UsedUpstream ==
  ASSUME ReportsInv, NEW share \in Nat, UpstreamUse(share)
  PROVE  upstream' \in [Windows -> [used : Nat, resetAt : Nat, resets : Nat]]
<1> DEFINE State == [used : Nat, resetAt : Nat, resets : Nat]
           next(w) == IF share = 0 \/ w \notin offered THEN upstream[w]
                      ELSE [upstream[w] EXCEPT !.used = @ + share,
                                               !.resetAt = IF @ = 0 THEN clock + LengthOf[w] ELSE @]
<1>1. ASSUME NEW w \in Windows
      PROVE  next(w) \in State
  <2>1. upstream[w] \in State /\ clock + LengthOf[w] \in Nat
    BY CredentialQuotasAssumption DEF ReportsInv
  <2> DEFINE s == upstream[w]
             used == s.used + share
             due == IF s.resetAt = 0 THEN clock + LengthOf[w] ELSE s.resetAt
  <2>2. used \in Nat /\ due \in Nat
    BY <2>1
  <2>3. [s EXCEPT !.used = @ + share, !.resetAt = IF @ = 0 THEN clock + LengthOf[w] ELSE @]
          = [s EXCEPT !.used = used, !.resetAt = due]
    BY <2>1
  <2> HIDE DEF used, due
  <2>4. [s EXCEPT !.used = used, !.resetAt = due] \in State
    BY <2>1, <2>2
  <2> QED
    BY <2>1, <2>3, <2>4
<1>2. upstream' = [w \in Windows |-> next(w)]
  BY DEF UpstreamUse
<1> HIDE DEF next, State
<1>3. upstream' \in [Windows -> State]
  BY <1>1, <1>2
<1> QED
  BY <1>3 DEF State

\* handleUsage stores what the windows say at the instant the request began.
LEMMA HandleUsageStores ==
  ASSUME ReportsInv, NEW r \in Requests, NEW share \in Shares, NEW plan \in Plans, NEW windows \in SUBSET Windows,
         HandleUsage(r, share, plan, windows)
  PROVE  [at |-> begun[r], plan |-> plan, windows |-> [w \in windows |-> Shown(upstream'[w], w)]] \in Reports
<1>1. begun[r] \in Nat \ {0}
  BY DEF HandleUsage, ReportsInv
<1>2. upstream' \in [Windows -> [used : Nat, resetAt : Nat, resets : Nat]]
  <2>1. share \in Nat
    BY UsageReportsAssumption
  <2> QED
    BY <2>1, UsedUpstream DEF HandleUsage
<1>3. \A w \in windows : Shown(upstream'[w], w) \in Says
  <2> SUFFICES ASSUME NEW w \in windows
               PROVE  Shown(upstream'[w], w) \in Says
    OBVIOUS
  <2>1. w \in Windows /\ clock + LengthOf[w] \in Nat
    BY CredentialQuotasAssumption DEF ReportsInv
  <2>2. upstream'[w] \in [used : Nat, resetAt : Nat, resets : Nat]
    BY <1>2, <2>1
  <2> QED
    BY <2>1, <2>2 DEF Shown, Says
<1>4. [w \in windows |-> Shown(upstream'[w], w)] \in [windows -> Says]
  BY <1>3
<1> QED
  BY <1>1, <1>4 DEF Reports

LEMMA HandleUsageReports ==
  ASSUME ReportsInv, NEW r \in Requests, NEW share \in Shares, NEW plan \in Plans, NEW windows \in SUBSET Windows,
         HandleUsage(r, share, plan, windows)
  PROVE  ReportsInv'
<1> DEFINE report == [at |-> begun[r], plan |-> plan, windows |-> [w \in windows |-> Shown(upstream'[w], w)]]
<1>1. share \in Nat
  BY UsageReportsAssumption
<1>2. upstream' \in [Windows -> [used : Nat, resetAt : Nat, resets : Nat]]
  BY <1>1, UsedUpstream DEF HandleUsage
<1>3. clock' = clock /\ clock' \in Nat \ {0} /\ begun' \in [Requests -> Nat]
  BY DEF HandleUsage, ReportsInv
<1>4. report \in Reports
  BY HandleUsageStores
<1>5. reports' = reports \/ reports' = Inserted(report)
  BY DEF HandleUsage
<1> HIDE DEF report
<1>6. reports' \in Seq(Reports)
  BY <1>4, <1>5, InsertedIsReports DEF ReportsInv
<1> QED
  BY <1>2, <1>3, <1>6 DEF ReportsInv

\* A reset leaves a window unused.
LEMMA UpstreamResetReports ==
  ASSUME ReportsInv, NEW w \in Windows, NEW anew \in BOOLEAN, UpstreamReset(w, anew)
  PROVE  ReportsInv'
<1> DEFINE State == [used : Nat, resetAt : Nat, resets : Nat]
           s == [used |-> 0, resetAt |-> IF anew THEN 0 ELSE upstream[w].resetAt, resets |-> upstream[w].resets + 1]
<1>1. upstream[w] \in State
  BY DEF ReportsInv
<1>2. s \in State
  BY <1>1
<1>3. upstream' = [upstream EXCEPT ![w] = s]
  BY DEF UpstreamReset, ReportsInv
<1> HIDE DEF s
<1>4. upstream' \in [Windows -> State]
  BY <1>2, <1>3 DEF ReportsInv
<1> QED
  BY <1>4 DEF ReportsInv, UpstreamReset

\* Windows whose time has come are unused.
LEMMA TickReports ==
  ASSUME ReportsInv, Tick
  PROVE  ReportsInv'
<1> DEFINE State == [used : Nat, resetAt : Nat, resets : Nat]
           next(w) == IF upstream[w].resetAt = clock' THEN [Fresh EXCEPT !.resets = upstream[w].resets + 1] ELSE upstream[w]
<1>1. ASSUME NEW w \in Windows
      PROVE  next(w) \in State
  <2>1. upstream[w] \in State
    BY DEF ReportsInv
  <2>2. upstream[w].resets + 1 \in Nat
    BY <2>1
  <2>3. [Fresh EXCEPT !.resets = upstream[w].resets + 1] \in State
    BY <2>2 DEF Fresh
  <2> QED
    BY <2>1, <2>3
<1>2. upstream' = [w \in Windows |-> next(w)]
  BY DEF Tick
<1>3. clock' \in Nat \ {0}
  BY DEF Tick, ReportsInv
<1> HIDE DEF next
<1>4. upstream' \in [Windows -> State]
  BY <1>1, <1>2
<1> QED
  BY <1>3, <1>4 DEF ReportsInv, Tick

\* Whatever overlaps, a stored report has the instant of a request and tells of windows
\* their use and when they reset.
THEOREM ReportsTyped == Spec => []ReportsInv
<1>1. Init => ReportsInv
  <2> SUFFICES ASSUME Init
               PROVE  ReportsInv
    OBVIOUS
  <2>1. upstream \in [Windows -> [used : Nat, resetAt : Nat, resets : Nat]]
    BY DEF Init, Fresh
  <2> QED
    BY <2>1 DEF Init, ReportsInv
<1>2. ASSUME ReportsInv, [Next]_vars
      PROVE  ReportsInv'
  <2>1. ASSUME NEW r \in Requests, Begin(r)
        PROVE  ReportsInv'
    BY <1>2, <2>1 DEF Begin, ReportsInv
  <2>2. ASSUME NEW r \in Requests, NEW share \in Shares, NEW plan \in Plans, NEW windows \in SUBSET Windows,
               HandleUsage(r, share, plan, windows)
        PROVE  ReportsInv'
    BY <1>2, <2>2, HandleUsageReports
  <2>3. CASE UseElsewhere
    <3>1. PICK share \in Elsewhere : UpstreamUse(share)
      BY <2>3 DEF UseElsewhere
    <3>2. upstream' \in [Windows -> [used : Nat, resetAt : Nat, resets : Nat]]
      BY <1>2, <3>1, UsedUpstream, UsageReportsAssumption
    <3> QED
      BY <1>2, <2>3, <3>2 DEF UseElsewhere, ReportsInv
  <2>4. ASSUME NEW w \in Windows, NEW anew \in BOOLEAN, UpstreamReset(w, anew)
        PROVE  ReportsInv'
    BY <1>2, <2>4, UpstreamResetReports
  <2>5. ASSUME NEW windows \in Offered, PlanChanges(windows)
        PROVE  ReportsInv'
    BY <1>2, <2>5 DEF PlanChanges, ReportsInv
  <2>6. CASE Tick
    BY <1>2, <2>6, TickReports
  <2>7. CASE UNCHANGED vars
    BY <1>2, <2>7 DEF vars, ReportsInv
  <2> QED
    BY <1>2, <2>1, <2>2, <2>3, <2>4, <2>5, <2>6, <2>7 DEF Next
<1> QED
  BY <1>1, <1>2, PTL DEF Spec

\* QuotaWindowPeriods: whatever the reports say and in whatever order overlapping requests
\* stored them, the periods of a window do not overlap, do not end before they start, and
\* only the last one may still run.
THEOREM PeriodsInOrder == Spec => []PeriodsOrdered
<1>1. ReportsInv => PeriodsOrdered
  <2> SUFFICES ASSUME ReportsInv, NEW w \in Windows
               PROVE  \A i \in DOMAIN PeriodsOf(w) : LET periods == PeriodsOf(w) IN
                        /\ periods[i].end = 0 => i = Len(periods)
                        /\ periods[i].end # 0 => periods[i].start <= periods[i].end
                        /\ i > 1 => periods[i - 1].end <= periods[i].start
    BY DEF PeriodsOrdered
  <2>1. Len(reports) \in Nat /\ \A n \in 1 .. Len(reports) : Stored(reports[n])
    <3>1. \A n \in 1 .. Len(reports) : reports[n] \in Reports
      BY ElementOfSeq DEF ReportsInv
    <3> QED
      BY <3>1, ReportsAreStored DEF ReportsInv
  <2> QED
    BY <2>1, PeriodsFollow DEF PeriodsOf
<1> QED
  BY <1>1, ReportsTyped, PTL

----------------------------------------------------------------------------
(* The quota now *)

Keeps(report) == report.plan # "" \/ DOMAIN report.windows # {}

\* The quota after each report, and what is left of the reports up to each.
Quotas(q, stored, n) ==
  /\ DOMAIN q = 0 .. n
  /\ q[0] = NothingObserved
  /\ \A m \in 1 .. n : q[m] = Updated(q[m - 1], stored[m])

Latests(l, stored, pick, n) ==
  /\ DOMAIN l = 0 .. n
  /\ l[0] = <<>>
  /\ \A m \in 1 .. n :
       l[m] = IF Keeps(Reduced(stored[m], pick, m)) THEN Append(l[m - 1], Reduced(stored[m], pick, m)) ELSE l[m - 1]

\* The quotas after all first parts of a list of reports exist.
LEMMA QuotasExist ==
  ASSUME NEW stored, NEW length \in Nat
  PROVE  \E q : Quotas(q, stored, length)
<1> DEFINE missing == {n \in Nat : ~\E q : Quotas(q, stored, n)}
<1>1. SUFFICES ASSUME missing # {} PROVE FALSE
  BY <1>1
<1>2. PICK n \in missing : \A k \in missing : n <= k
  <2>1. missing \in SUBSET Nat
    OBVIOUS
  <2> HIDE DEF missing
  <2> QED
    BY <1>1, <2>1, LeastNatural
<1>3. n # 0
  <2> DEFINE q == [m \in 0 .. 0 |-> NothingObserved]
  <2>1. Quotas(q, stored, 0)
    BY DEF Quotas
  <2> QED
    BY <2>1
<1>4. n \in Nat /\ n - 1 \in Nat /\ n - 1 \notin missing
  BY <1>2, <1>3
<1>5. PICK q : Quotas(q, stored, n - 1)
  BY <1>4
<1> DEFINE r == [m \in 0 .. n |-> IF m = n THEN Updated(q[n - 1], stored[n]) ELSE q[m]]
<1>6. Quotas(r, stored, n)
  <2>1. DOMAIN r = 0 .. n
    OBVIOUS
  <2>2. r[0] = NothingObserved
    BY <1>3, <1>4, <1>5 DEF Quotas
  <2>3. ASSUME NEW m \in 1 .. n
        PROVE  r[m] = Updated(r[m - 1], stored[m])
    <3>1. m \in 0 .. n /\ m - 1 \in 0 .. n /\ m - 1 # n
      BY <1>4
    <3>2. r[m - 1] = q[m - 1]
      BY <3>1
    <3>3. CASE m = n
      BY <3>1, <3>2, <3>3
    <3>4. CASE m # n
      <4>1. m \in 1 .. n - 1
        BY <1>4, <3>4
      <4> QED
        BY <1>5, <3>1, <3>2, <3>4, <4>1 DEF Quotas
    <3> QED
      BY <3>3, <3>4
  <2> HIDE DEF r
  <2> QED
    BY <2>1, <2>2, <2>3 DEF Quotas
<1> QED
  BY <1>2, <1>6

\* So does what is left of them.
LEMMA LatestsExist ==
  ASSUME NEW stored, NEW pick, NEW length \in Nat
  PROVE  \E l : Latests(l, stored, pick, length)
<1> DEFINE missing == {n \in Nat : ~\E l : Latests(l, stored, pick, n)}
           Next1(list, n) == IF Keeps(Reduced(stored[n], pick, n)) THEN Append(list, Reduced(stored[n], pick, n)) ELSE list
<1>1. SUFFICES ASSUME missing # {} PROVE FALSE
  BY <1>1
<1>2. PICK n \in missing : \A k \in missing : n <= k
  <2>1. missing \in SUBSET Nat
    OBVIOUS
  <2> HIDE DEF missing
  <2> QED
    BY <1>1, <2>1, LeastNatural
<1>3. n # 0
  <2> DEFINE l == [m \in 0 .. 0 |-> <<>>]
  <2>1. Latests(l, stored, pick, 0)
    BY DEF Latests
  <2> QED
    BY <2>1
<1>4. n \in Nat /\ n - 1 \in Nat /\ n - 1 \notin missing
  BY <1>2, <1>3
<1>5. PICK l : Latests(l, stored, pick, n - 1)
  BY <1>4
<1> DEFINE r == [m \in 0 .. n |-> IF m = n THEN Next1(l[n - 1], n) ELSE l[m]]
<1>6. Latests(r, stored, pick, n)
  <2>1. DOMAIN r = 0 .. n
    OBVIOUS
  <2>2. r[0] = <<>>
    BY <1>3, <1>4, <1>5 DEF Latests
  <2>3. ASSUME NEW m \in 1 .. n
        PROVE  r[m] = Next1(r[m - 1], m)
    <3>1. m \in 0 .. n /\ m - 1 \in 0 .. n /\ m - 1 # n
      BY <1>4
    <3> HIDE DEF Next1
    <3>2. r[m - 1] = l[m - 1]
      BY <3>1
    <3>3. CASE m = n
      BY <3>1, <3>2, <3>3
    <3>4. CASE m # n
      <4>1. m \in 1 .. n - 1
        BY <1>4, <3>4
      <4>2. l[m] = Next1(l[m - 1], m)
        BY <1>5, <4>1 DEF Latests, Next1
      <4> QED
        BY <3>1, <3>2, <3>4, <4>2
    <3> QED
      BY <3>3, <3>4
  <2> HIDE DEF r
  <2> QED
    BY <2>1, <2>2, <2>3 DEF Latests
<1> QED
  BY <1>2, <1>6

\* What is observed of the reports is what the quota is after the last of them.
LEMMA ObservedIs ==
  ASSUME NEW stored, Len(stored) \in Nat, NEW q, Quotas(q, stored, Len(stored))
  PROVE  Observed(stored) = [q[Len(stored)] EXCEPT !.rows = {row \in @ : ~Dropped(q[Len(stored)].rows, row)}]
<1> DEFINE n == Len(stored)
           all == CHOOSE f : f = [m \in 0 .. n |-> IF m = 0 THEN NothingObserved ELSE Updated(f[m - 1], stored[m])]
<1>1. q = [m \in 0 .. n |-> IF m = 0 THEN NothingObserved ELSE Updated(q[m - 1], stored[m])]
  <2>1. q = [m \in 0 .. n |-> q[m]]
    <3> DEFINE k == n
    <3>1. DOMAIN q = 0 .. k
      BY DEF Quotas
    <3> QED
      BY <3>1
  <2>2. ASSUME NEW m \in 0 .. n PROVE q[m] = IF m = 0 THEN NothingObserved ELSE Updated(q[m - 1], stored[m])
    <3>1. m = 0 \/ m \in 1 .. n
      OBVIOUS
    <3>2. m \in 1 .. n => m # 0
      OBVIOUS
    <3> QED
      BY <3>1, <3>2 DEF Quotas
  <2> QED
    BY <2>1, <2>2
<1>2. all = [m \in 0 .. n |-> IF m = 0 THEN NothingObserved ELSE Updated(all[m - 1], stored[m])]
  BY <1>1
<1>3. Observed(stored) = [all[n] EXCEPT !.rows = {row \in @ : ~Dropped(all[n].rows, row)}]
  BY DEF Observed
<1> HIDE DEF all
<1> DEFINE wrong == {m \in 0 .. n : all[m] # q[m]}
<1>4. wrong = {}
  <2> SUFFICES ASSUME wrong # {} PROVE FALSE
    OBVIOUS
  <2>1. PICK m \in wrong : \A k \in wrong : m <= k
    <3>1. wrong \in SUBSET Nat
      OBVIOUS
    <3> HIDE DEF wrong
    <3> QED
      BY <3>1, LeastNatural
  <2>2. m \in 0 .. n /\ all[m] # q[m]
    BY <2>1
  <2>3. /\ all[m] = IF m = 0 THEN NothingObserved ELSE Updated(all[m - 1], stored[m])
        /\ q[m] = IF m = 0 THEN NothingObserved ELSE Updated(q[m - 1], stored[m])
    BY <1>1, <1>2, <2>2
  <2>4. m # 0
    BY <2>2, <2>3
  <2>5. m - 1 \in 0 .. n /\ ~(m <= m - 1)
    BY <2>2, <2>4
  <2>6. all[m - 1] = q[m - 1]
    BY <2>1, <2>5
  <2> QED
    BY <2>2, <2>3, <2>4, <2>6
<1>5. all[n] = q[n]
  BY <1>4
<1> QED
  BY <1>3, <1>5

\* What is left of the reports is what is left of them up to the last.
LEMMA LatestIs ==
  ASSUME NEW stored, Len(stored) \in Nat, NEW pick, NEW l, Latests(l, stored, pick, Len(stored))
  PROVE  Latest(stored, pick) = l[Len(stored)]
<1> DEFINE n == Len(stored)
           Next1(list, m) == LET report == Reduced(stored[m], pick, m)
                             IN  IF report.plan # "" \/ DOMAIN report.windows # {} THEN Append(list, report) ELSE list
           all == CHOOSE f : f = [m \in 0 .. n |-> IF m = 0 THEN <<>> ELSE Next1(f[m - 1], m)]
<1>1. l = [m \in 0 .. n |-> IF m = 0 THEN <<>> ELSE Next1(l[m - 1], m)]
  <2>1. l = [m \in 0 .. n |-> l[m]]
    <3> DEFINE k == n
    <3>1. DOMAIN l = 0 .. k
      BY DEF Latests
    <3> QED
      BY <3>1
  <2>2. ASSUME NEW m \in 0 .. n PROVE l[m] = IF m = 0 THEN <<>> ELSE Next1(l[m - 1], m)
    <3>1. m = 0 \/ m \in 1 .. n
      OBVIOUS
    <3>2. m \in 1 .. n => m # 0
      OBVIOUS
    <3> QED
      BY <3>1, <3>2 DEF Latests, Keeps
  <2> HIDE DEF Next1
  <2> QED
    BY <2>1, <2>2
<1>2. Latest(stored, pick) = all[n]
  BY DEF Latest
<1> HIDE DEF Next1
<1>3. all = [m \in 0 .. n |-> IF m = 0 THEN <<>> ELSE Next1(all[m - 1], m)]
  BY <1>1
<1> HIDE DEF all
<1> DEFINE wrong == {m \in 0 .. n : all[m] # l[m]}
<1>4. wrong = {}
  <2> SUFFICES ASSUME wrong # {} PROVE FALSE
    OBVIOUS
  <2>1. PICK m \in wrong : \A k \in wrong : m <= k
    <3>1. wrong \in SUBSET Nat
      OBVIOUS
    <3> HIDE DEF wrong
    <3> QED
      BY <3>1, LeastNatural
  <2>2. m \in 0 .. n /\ all[m] # l[m]
    BY <2>1
  <2>3. /\ all[m] = IF m = 0 THEN <<>> ELSE Next1(all[m - 1], m)
        /\ l[m] = IF m = 0 THEN <<>> ELSE Next1(l[m - 1], m)
    BY <1>1, <1>3, <2>2
  <2>4. m # 0
    BY <2>2, <2>3
  <2>5. m - 1 \in 0 .. n /\ ~(m <= m - 1)
    BY <2>2, <2>4
  <2>6. all[m - 1] = l[m - 1]
    BY <2>1, <2>5
  <2> QED
    BY <2>2, <2>3, <2>4, <2>6
<1>5. all[n] = l[n]
  BY <1>4
<1> QED
  BY <1>2, <1>5

\* A report, told by position, that is the last to tell something.
IsLast(stored, i, m, item) ==
  /\ i \in 1 .. m /\ Tells(stored[i], item)
  /\ \A j \in 1 .. m : Tells(stored[j], item) => j <= i

Row(report, w) ==
  [window |-> w, at |-> report.at, used |-> report.windows[w].used, resetAt |-> report.windows[w].resetAt]

LastRows(stored, m) ==
  {Row(stored[x[1]], x[2]) : x \in {y \in (1 .. m) \X Windows : IsLast(stored, y[1], m, y[2])}}

PickedRows(stored, pick, m) == {Row(stored[pick[w]], w) : w \in {v \in Windows : pick[v] \in 1 .. m}}

IsQuota(quota) ==
  quota = [fetchedAt |-> quota.fetchedAt, plan |-> quota.plan, planAt |-> quota.planAt, rows |-> quota.rows]

\* The quota after the first reports, whole or with what they are picked for.
ShowsLast(stored, quota, m) ==
  /\ IsQuota(quota)
  /\ quota.rows = LastRows(stored, m)
  /\ m # 0 => quota.fetchedAt = stored[m].at
  /\ \A i \in 1 .. m : IsLast(stored, i, m, "plan") => quota.plan = stored[i].plan /\ quota.planAt = stored[i].at
  /\ (\A j \in 1 .. m : ~Tells(stored[j], "plan")) => quota.plan = "" /\ quota.planAt = 0

ShowsPicked(stored, pick, quota, m) ==
  LET p == pick["plan"]
  IN  /\ IsQuota(quota)
      /\ quota.rows = PickedRows(stored, pick, m)
      /\ quota.plan = (IF p \in 1 .. m THEN stored[p].plan ELSE "")
      /\ quota.planAt = (IF p \in 1 .. m THEN stored[p].at ELSE 0)
      /\ m # 0 /\ Keeps(Reduced(stored[m], pick, m)) => quota.fetchedAt = stored[m].at

\* Some report that tells it is picked for each thing that is told.
Picked(stored, pick, n) ==
  /\ pick \in [Items -> 0 .. n]
  /\ \A item \in Items : pick[item] # 0 => Tells(stored[pick[item]], item)

\* One report more.
LEMMA ShowsLastStep ==
  ASSUME NEW stored, NEW quota, NEW m \in Nat \ {0}, ShowsLast(stored, quota, m - 1), stored[m] \in Reports
  PROVE  ShowsLast(stored, Updated(quota, stored[m]), m)
<1> DEFINE report == stored[m]
           listed == DOMAIN report.windows
           new == Updated(quota, report)
           rows == LastRows(stored, m - 1)
<1>1. listed \in SUBSET Windows /\ "plan" \notin Windows
  BY CredentialQuotasAssumption DEF Reports
<1>2. m \in 1 .. m /\ m - 1 \in Nat /\ (\A i : i \in 1 .. m <=> (i \in 1 .. m - 1 \/ i = m)) /\ m \notin 1 .. m - 1
      /\ \A i \in 1 .. m : i <= m
  OBVIOUS
<1>3. \A w \in Windows : \A i : Tells(stored[i], w) <=> w \in DOMAIN stored[i].windows
  BY <1>1 DEF Tells
<1>4. ASSUME NEW i, NEW item
      PROVE  IsLast(stored, i, m, item) <=> IF Tells(report, item) THEN i = m ELSE IsLast(stored, i, m - 1, item)
  <2>1. CASE Tells(report, item)
    <3>1. ASSUME IsLast(stored, i, m, item) PROVE i = m
      <4>1. i \in 1 .. m /\ m <= i
        BY <1>2, <2>1, <3>1 DEF IsLast
      <4> QED
        BY <4>1
    <3>2. IsLast(stored, m, m, item)
      BY <1>2, <2>1 DEF IsLast
    <3> QED
      BY <2>1, <3>1, <3>2
  <2>2. CASE ~Tells(report, item)
    <3>1. IsLast(stored, i, m, item) => i # m
      BY <2>2 DEF IsLast
    <3> QED
      BY <1>2, <2>2, <3>1 DEF IsLast
  <2> QED
    BY <2>1, <2>2
<1>5. \A w \in Windows : w \in listed <=> Tells(report, w)
  BY <1>3
<1>6. quota.rows = rows
  BY DEF ShowsLast
<1>7. new.rows = {row \in rows : row.window \notin listed} \cup {Row(report, w) : w \in listed}
  BY <1>6 DEF Updated, Row
<1>8. new.rows = LastRows(stored, m)
  <2>1. ASSUME NEW row \in new.rows PROVE row \in LastRows(stored, m)
    <3>1. CASE row \in rows /\ row.window \notin listed
      <4>1. PICK i \in 1 .. m - 1, w \in Windows : row = Row(stored[i], w) /\ IsLast(stored, i, m - 1, w)
        <5>1. PICK x \in (1 .. m - 1) \X Windows : row = Row(stored[x[1]], x[2]) /\ IsLast(stored, x[1], m - 1, x[2])
          BY <3>1 DEF LastRows
        <5> QED
          BY <5>1
      <4>2. w \notin listed
        BY <3>1, <4>1 DEF Row
      <4>3. IsLast(stored, i, m, w)
        BY <1>4, <1>5, <4>1, <4>2
      <4>4. <<i, w>> \in (1 .. m) \X Windows
        BY <1>2, <4>1
      <4> QED
        BY <4>1, <4>3, <4>4 DEF LastRows
    <3>2. ASSUME NEW w \in listed, row = Row(report, w) PROVE row \in LastRows(stored, m)
      <4>1. w \in Windows /\ IsLast(stored, m, m, w)
        BY <1>1, <1>4, <1>5
      <4>2. <<m, w>> \in (1 .. m) \X Windows
        BY <1>2, <4>1
      <4> QED
        BY <3>2, <4>1, <4>2 DEF LastRows
    <3> QED
      BY <1>7, <3>1, <3>2
  <2>2. ASSUME NEW row \in LastRows(stored, m) PROVE row \in new.rows
    <3>1. PICK i \in 1 .. m, w \in Windows : row = Row(stored[i], w) /\ IsLast(stored, i, m, w)
      <4>1. PICK x \in (1 .. m) \X Windows : row = Row(stored[x[1]], x[2]) /\ IsLast(stored, x[1], m, x[2])
        BY DEF LastRows
      <4> QED
        BY <4>1
    <3>2. CASE w \in listed
      <4>1. i = m
        BY <1>4, <1>5, <3>1, <3>2
      <4> QED
        BY <1>7, <3>1, <3>2, <4>1
    <3>3. CASE w \notin listed
      <4>1. IsLast(stored, i, m - 1, w)
        BY <1>4, <1>5, <3>1, <3>3
      <4>2. <<i, w>> \in (1 .. m - 1) \X Windows
        BY <4>1 DEF IsLast
      <4>3. row \in rows /\ row.window = w
        BY <3>1, <4>1, <4>2 DEF LastRows, Row
      <4> QED
        BY <1>7, <3>3, <4>3
    <3> QED
      BY <3>2, <3>3
  <2> HIDE DEF new
  <2> QED
    BY <2>1, <2>2
<1>9. /\ IsQuota(new)
      /\ new.fetchedAt = report.at
      /\ new.plan = (IF report.plan # "" THEN report.plan ELSE quota.plan)
      /\ new.planAt = (IF report.plan # "" THEN report.at ELSE quota.planAt)
  BY DEF Updated, IsQuota
<1> HIDE DEF new
<1>10. \A i \in 1 .. m : IsLast(stored, i, m, "plan") => new.plan = stored[i].plan /\ new.planAt = stored[i].at
  <2> SUFFICES ASSUME NEW i \in 1 .. m, IsLast(stored, i, m, "plan")
               PROVE  new.plan = stored[i].plan /\ new.planAt = stored[i].at
    OBVIOUS
  <2>1. CASE report.plan # ""
    <3>1. i = m
      BY <1>4, <2>1 DEF Tells
    <3> QED
      BY <1>9, <2>1, <3>1
  <2>2. CASE report.plan = ""
    <3>1. IsLast(stored, i, m - 1, "plan")
      BY <1>4, <2>2 DEF Tells
    <3>2. i \in 1 .. m - 1
      BY <3>1 DEF IsLast
    <3> QED
      BY <1>9, <2>2, <3>1, <3>2 DEF ShowsLast
  <2> QED
    BY <2>1, <2>2
<1>11. (\A j \in 1 .. m : ~Tells(stored[j], "plan")) => new.plan = "" /\ new.planAt = 0
  <2> SUFFICES ASSUME \A j \in 1 .. m : ~Tells(stored[j], "plan") PROVE new.plan = "" /\ new.planAt = 0
    OBVIOUS
  <2>1. report.plan = ""
    BY <1>2 DEF Tells
  <2>2. quota.plan = "" /\ quota.planAt = 0
    BY <1>2 DEF ShowsLast
  <2> QED
    BY <1>9, <2>1, <2>2
<1>12. ShowsLast(stored, new, m)
  BY <1>8, <1>9, <1>10, <1>11 DEF ShowsLast
<1> QED
  BY <1>12 DEF new

\* The same for what is left of it, which may be nothing.
LEMMA ShowsPickedStep ==
  ASSUME NEW stored, NEW quota, NEW pick, NEW n \in Nat, NEW m \in 1 .. n, Picked(stored, pick, n),
         ShowsPicked(stored, pick, quota, m - 1), stored[m] \in Reports
  PROVE  LET report == Reduced(stored[m], pick, m)
         IN  ShowsPicked(stored, pick, IF Keeps(report) THEN Updated(quota, report) ELSE quota, m)
<1> DEFINE whole == stored[m]
           report == Reduced(whole, pick, m)
           kept == {w \in DOMAIN whole.windows : pick[w] = m}
           p == pick["plan"]
           rows == PickedRows(stored, pick, m - 1)
           old == quota
<1>1. /\ DOMAIN whole.windows \in SUBSET Windows /\ "plan" \notin Windows
      /\ "plan" \in Items /\ Windows \subseteq Items
  BY CredentialQuotasAssumption DEF Reports, Items
<1>2. m \in Nat /\ m # 0 /\ (\A i : i \in 1 .. m <=> (i \in 1 .. m - 1 \/ i = m)) /\ m \notin 1 .. m - 1
  OBVIOUS
<1>3. kept = {w \in Windows : pick[w] = m}
  <2>1. ASSUME NEW w \in Windows, pick[w] = m PROVE w \in DOMAIN whole.windows
    BY <1>1, <1>2, <2>1 DEF Picked, Tells
  <2> QED
    BY <1>1, <2>1
<1>4. p = m => whole.plan # ""
  BY <1>1, <1>2 DEF Picked, Tells
<1>5. /\ report.at = whole.at /\ report.plan = (IF p = m THEN whole.plan ELSE "") /\ DOMAIN report.windows = kept
      /\ \A w \in kept : report.windows[w] = whole.windows[w]
  BY DEF Reduced
<1>6. /\ IsQuota(quota)
      /\ quota.plan = (IF p \in 1 .. m - 1 THEN stored[p].plan ELSE "")
      /\ quota.planAt = (IF p \in 1 .. m - 1 THEN stored[p].at ELSE 0)
      /\ quota.rows = rows
  BY DEF ShowsPicked
<1>7. PickedRows(stored, pick, m) = {row \in rows : row.window \notin kept} \cup {Row(whole, w) : w \in kept}
  <2>1. ASSUME NEW row \in PickedRows(stored, pick, m)
        PROVE  row \in {r \in rows : r.window \notin kept} \cup {Row(whole, w) : w \in kept}
    <3>1. PICK w \in Windows : row = Row(stored[pick[w]], w) /\ pick[w] \in 1 .. m
      BY DEF PickedRows
    <3>2. CASE pick[w] = m
      BY <1>3, <3>1, <3>2
    <3>3. CASE pick[w] # m
      <4>1. pick[w] \in 1 .. m - 1
        BY <1>2, <3>1, <3>3
      <4>2. row \in rows /\ row.window = w
        BY <3>1, <4>1 DEF PickedRows, Row
      <4> QED
        BY <1>3, <3>3, <4>2
    <3> QED
      BY <3>2, <3>3
  <2>2. ASSUME NEW row \in rows PROVE row \in PickedRows(stored, pick, m)
    <3>1. PICK w \in Windows : row = Row(stored[pick[w]], w) /\ pick[w] \in 1 .. m - 1
      BY DEF PickedRows
    <3>2. pick[w] \in 1 .. m
      BY <1>2, <3>1
    <3> QED
      BY <3>1, <3>2 DEF PickedRows
  <2>3. ASSUME NEW w \in kept PROVE Row(whole, w) \in PickedRows(stored, pick, m)
    <3>1. w \in Windows /\ pick[w] = m /\ pick[w] \in 1 .. m
      BY <1>2, <1>3
    <3> QED
      BY <3>1 DEF PickedRows
  <2> QED
    BY <2>1, <2>2, <2>3
<1> HIDE DEF report, rows, kept
<1>8. CASE ~Keeps(report)
  <2>1. kept = {} /\ p # m
    BY <1>4, <1>5, <1>8 DEF Keeps
  <2>2. PickedRows(stored, pick, m) = rows
    BY <1>7, <2>1
  <2>3. p \in 1 .. m <=> p \in 1 .. m - 1
    BY <1>2, <2>1
  <2>4. ShowsPicked(stored, pick, quota, m)
    BY <1>6, <1>8, <2>2, <2>3 DEF ShowsPicked, report
  <2> QED
    BY <1>8, <2>4 DEF report
<1>9. CASE Keeps(report)
  <2> DEFINE new == Updated(quota, report)
  <2>1. /\ IsQuota(new)
        /\ new.fetchedAt = whole.at
        /\ new.plan = (IF report.plan # "" THEN report.plan ELSE quota.plan)
        /\ new.planAt = (IF report.plan # "" THEN whole.at ELSE quota.planAt)
        /\ new.rows = {row \in quota.rows : row.window \notin DOMAIN report.windows}
                        \cup {Row(report, w) : w \in DOMAIN report.windows}
    BY <1>5 DEF Updated, Row, IsQuota
  <2>2. new.rows = PickedRows(stored, pick, m)
    <3>1. \A w \in kept : Row(report, w) = Row(whole, w)
      BY <1>5 DEF Row
    <3> HIDE DEF new
    <3>2. new.rows = {row \in rows : row.window \notin kept} \cup {Row(report, w) : w \in kept}
      BY <1>5, <1>6, <2>1
    <3> QED
      BY <1>7, <3>1, <3>2
  <2> HIDE DEF new
  <2>3. /\ new.plan = (IF p \in 1 .. m THEN stored[p].plan ELSE "")
        /\ new.planAt = (IF p \in 1 .. m THEN stored[p].at ELSE 0)
    <3>1. CASE p = m
      <4>1. report.plan = whole.plan /\ report.plan # "" /\ p \in 1 .. m
        BY <1>2, <1>4, <1>5, <3>1
      <4> QED
        BY <2>1, <3>1, <4>1
    <3>2. CASE p # m
      <4>1. report.plan = "" /\ (p \in 1 .. m <=> p \in 1 .. m - 1)
        BY <1>2, <1>5, <3>2
      <4> QED
        BY <1>6, <2>1, <4>1
    <3> QED
      BY <3>1, <3>2
  <2>4. ShowsPicked(stored, pick, new, m)
    BY <2>1, <2>2, <2>3 DEF ShowsPicked
  <2> QED
    BY <1>9, <2>4 DEF report, new
<1> QED
  BY <1>8, <1>9

\* A set of indices has a last one.
LEMMA LastIndex ==
  ASSUME NEW n \in Nat, NEW T \in SUBSET (1 .. n), T # {}
  PROVE  \E x \in T : \A y \in T : y <= x
<1> DEFINE turned == {n - x : x \in T}
<1>1. \A x \in 1 .. n : n - x \in Nat
  OBVIOUS
<1>2. turned \in SUBSET Nat /\ turned # {}
  BY <1>1
<1>3. PICK k \in turned : \A x \in turned : k <= x
  <2> HIDE DEF turned
  <2> QED
    BY <1>2, LeastNatural
<1>4. PICK x \in T : k = n - x
  BY <1>3
<1>5. \A y \in T : n - x <= n - y
  BY <1>3, <1>4
<1> QED
  BY <1>4, <1>5

\* Whole reports: the quota shows the last that tells of each thing.
LEMMA ShowsLastAll ==
  ASSUME NEW stored \in Seq(Reports), NEW q, Quotas(q, stored, Len(stored))
  PROVE  \A m \in 0 .. Len(stored) : ShowsLast(stored, q[m], m)
<1> DEFINE n == Len(stored)
           wrong == {m \in 0 .. n : ~ShowsLast(stored, q[m], m)}
<1>1. n \in Nat
  OBVIOUS
<1>2. SUFFICES ASSUME wrong # {} PROVE FALSE
  BY <1>2
<1>3. PICK m \in wrong : \A k \in wrong : m <= k
  <2>1. wrong \in SUBSET Nat
    BY <1>1
  <2> HIDE DEF wrong
  <2> QED
    BY <1>2, <2>1, LeastNatural
<1>4. m \in 0 .. n /\ ~ShowsLast(stored, q[m], m)
  BY <1>3
<1>5. m # 0
  <2>1. IsQuota(NothingObserved)
    BY DEF IsQuota, NothingObserved
  <2>2. LastRows(stored, 0) = {}
    BY DEF LastRows
  <2>3. ShowsLast(stored, NothingObserved, 0)
    <3>1. 1 .. 0 = {}
      OBVIOUS
    <3> QED
      BY <2>1, <2>2, <3>1 DEF ShowsLast, NothingObserved
  <2>4. q[0] = NothingObserved
    BY DEF Quotas
  <2> QED
    BY <1>4, <2>3, <2>4
<1>6. m \in 1 .. n /\ m \in Nat \ {0} /\ m - 1 \in 0 .. n /\ ~(m <= m - 1)
  BY <1>1, <1>4, <1>5
<1>7. ShowsLast(stored, q[m - 1], m - 1)
  BY <1>3, <1>6
<1>8. stored[m] \in Reports /\ q[m] = Updated(q[m - 1], stored[m])
  BY <1>6, ElementOfSeq DEF Quotas
<1>9. ShowsLast(stored, Updated(q[m - 1], stored[m]), m)
  BY <1>6, <1>7, <1>8, ShowsLastStep
<1> QED
  BY <1>4, <1>8, <1>9

\* A report more at the end updates the quota before it.
LEMMA QuotasAppend ==
  ASSUME NEW S, NEW list \in Seq(S), NEW e \in S, NEW p, Quotas(p, list, Len(list))
  PROVE  /\ Append(list, e) \in Seq(S) /\ Len(Append(list, e)) = Len(list) + 1
         /\ \E r : Quotas(r, Append(list, e), Len(list) + 1) /\ r[Len(list) + 1] = Updated(p[Len(list)], e)
<1> DEFINE n == Len(list)
           longer == Append(list, e)
           r == [m \in 0 .. n + 1 |-> IF m = n + 1 THEN Updated(p[n], e) ELSE p[m]]
<1>1. n \in Nat /\ longer \in Seq(S) /\ Len(longer) = n + 1 /\ longer[n + 1] = e
      /\ \A m \in 1 .. n : longer[m] = list[m]
  BY AppendProperties
<1> HIDE DEF longer
<1>2. Quotas(r, longer, n + 1)
  <2>1. DOMAIN r = 0 .. n + 1
    OBVIOUS
  <2>2. r[0] = NothingObserved
    <3>1. 0 \in 0 .. n + 1 /\ 0 # n + 1
      BY <1>1
    <3> QED
      BY <3>1 DEF Quotas
  <2>3. ASSUME NEW m \in 1 .. n + 1
        PROVE  r[m] = Updated(r[m - 1], longer[m])
    <3>1. m \in 0 .. n + 1 /\ m - 1 \in 0 .. n + 1 /\ m - 1 # n + 1
      BY <1>1
    <3>2. r[m - 1] = p[m - 1]
      BY <3>1
    <3>3. CASE m = n + 1
      <4>1. m - 1 = n
        BY <1>1, <3>3
      <4> QED
        BY <1>1, <3>1, <3>2, <3>3, <4>1
    <3>4. CASE m # n + 1
      <4>1. m \in 1 .. n
        BY <1>1, <3>4
      <4>2. p[m] = Updated(p[m - 1], list[m])
        BY <4>1 DEF Quotas
      <4>3. r[m] = p[m]
        BY <3>1, <3>4
      <4> QED
        BY <1>1, <3>2, <4>1, <4>2, <4>3
    <3> QED
      BY <3>3, <3>4
  <2> HIDE DEF r
  <2> QED
    BY <2>1, <2>2, <2>3 DEF Quotas
<1>3. r[n + 1] = Updated(p[n], e)
  BY <1>1
<1> HIDE DEF r
<1> QED
  BY <1>1, <1>2, <1>3 DEF longer

\* What the reports are picked for: the quota of the first of them, after what is left of each.
LeftOf(stored, pick) == {Reduced(stored[i], pick, i) : i \in 1 .. Len(stored)}

ShownBy(list, stored, pick, m) ==
  /\ list \in Seq(LeftOf(stored, pick))
  /\ \E p : Quotas(p, list, Len(list)) /\ ShowsPicked(stored, pick, p[Len(list)], m)

\* What is left of one report more shows what it is picked for as well.
LEMMA ShownByStep ==
  ASSUME NEW stored \in Seq(Reports), NEW pick, Picked(stored, pick, Len(stored)), NEW list,
         NEW m \in 1 .. Len(stored), ShownBy(list, stored, pick, m - 1)
  PROVE  LET report == Reduced(stored[m], pick, m)
         IN  ShownBy(IF Keeps(report) THEN Append(list, report) ELSE list, stored, pick, m)
<1> DEFINE n == Len(stored)
           report == Reduced(stored[m], pick, m)
           S == LeftOf(stored, pick)
<1>1. n \in Nat /\ stored[m] \in Reports
  BY ElementOfSeq
<1>2. PICK p : Quotas(p, list, Len(list)) /\ ShowsPicked(stored, pick, p[Len(list)], m - 1)
  BY DEF ShownBy
<1>3. report \in S /\ list \in Seq(S)
  BY DEF LeftOf, ShownBy
<1>4. ShowsPicked(stored, pick, IF Keeps(report) THEN Updated(p[Len(list)], report) ELSE p[Len(list)], m)
  BY <1>1, <1>2, ShowsPickedStep
<1> HIDE DEF report, S
<1>5. CASE Keeps(report)
  <2>1. /\ Append(list, report) \in Seq(S) /\ Len(Append(list, report)) = Len(list) + 1
        /\ \E r : Quotas(r, Append(list, report), Len(list) + 1) /\ r[Len(list) + 1] = Updated(p[Len(list)], report)
    BY <1>2, <1>3, QuotasAppend
  <2>2. ShownBy(Append(list, report), stored, pick, m)
    BY <1>4, <1>5, <2>1 DEF ShownBy, S
  <2> QED
    BY <1>5, <2>2 DEF report
<1>6. CASE ~Keeps(report)
  <2>1. ShownBy(list, stored, pick, m)
    BY <1>2, <1>3, <1>4, <1>6 DEF ShownBy, S
  <2> QED
    BY <1>6, <2>1 DEF report
<1> QED
  BY <1>5, <1>6

\* So what is left of all shows what all are picked for.
LEMMA ShownByLatest ==
  ASSUME NEW stored \in Seq(Reports), NEW pick, Picked(stored, pick, Len(stored))
  PROVE  ShownBy(Latest(stored, pick), stored, pick, Len(stored))
<1> DEFINE n == Len(stored)
<1>1. n \in Nat
  OBVIOUS
<1>2. PICK l : Latests(l, stored, pick, n)
  BY <1>1, LatestsExist
<1>3. Latest(stored, pick) = l[n]
  BY <1>1, <1>2, LatestIs
<1> DEFINE wrong == {m \in 0 .. n : ~ShownBy(l[m], stored, pick, m)}
<1>4. SUFFICES ASSUME wrong # {} PROVE FALSE
  <2>1. n \in 0 .. n
    BY <1>1
  <2> QED
    BY <1>3, <1>4, <2>1
<1>5. PICK m \in wrong : \A k \in wrong : m <= k
  <2>1. wrong \in SUBSET Nat
    BY <1>1
  <2> HIDE DEF wrong
  <2> QED
    BY <1>4, <2>1, LeastNatural
<1>6. m \in 0 .. n /\ ~ShownBy(l[m], stored, pick, m)
  BY <1>5
<1>7. m # 0
  <2> DEFINE p == [k \in 0 .. 0 |-> NothingObserved]
  <2>1. Quotas(p, <<>>, 0) /\ p[0] = NothingObserved
    BY DEF Quotas
  <2> HIDE DEF p
  <2>2. PickedRows(stored, pick, 0) = {}
    BY DEF PickedRows
  <2>3. ShowsPicked(stored, pick, NothingObserved, 0)
    <3>1. 1 .. 0 = {} /\ IsQuota(NothingObserved)
      BY DEF IsQuota, NothingObserved
    <3> QED
      BY <2>2, <3>1 DEF ShowsPicked, NothingObserved
  <2>4. <<>> \in Seq(LeftOf(stored, pick)) /\ Len(<<>>) = 0
    OBVIOUS
  <2>5. ShownBy(<<>>, stored, pick, 0)
    BY <2>1, <2>3, <2>4 DEF ShownBy
  <2>6. l[0] = <<>>
    BY <1>2 DEF Latests
  <2> QED
    BY <1>6, <2>5, <2>6
<1>8. m \in 1 .. n /\ m - 1 \in 0 .. n /\ ~(m <= m - 1)
  BY <1>1, <1>6, <1>7
<1>9. ShownBy(l[m - 1], stored, pick, m - 1)
  BY <1>5, <1>8
<1> DEFINE report == Reduced(stored[m], pick, m)
<1>10. l[m] = IF Keeps(report) THEN Append(l[m - 1], report) ELSE l[m - 1]
  BY <1>2, <1>8 DEF Latests
<1>11. ShownBy(IF Keeps(report) THEN Append(l[m - 1], report) ELSE l[m - 1], stored, pick, m)
  BY <1>8, <1>9, ShownByStep
<1> HIDE DEF report
<1> QED
  BY <1>6, <1>10, <1>11

\* Reports are stored in the order of their instants, and none that tells nothing.
Sorted(stored) == \A i, j \in DOMAIN stored : i < j => stored[i].at <= stored[j].at

\* Of sorted reports of different instants, the newest that tells something is the last.
LEMMA PickIsLast ==
  ASSUME NEW stored \in Seq(Reports), Sorted(stored), NEW pick \in Picks(stored), NEW item \in Items,
         \A i, j \in DOMAIN stored : stored[i].at = stored[j].at => i = j
  PROVE  /\ pick \in [Items -> 0 .. Len(stored)]
         /\ pick[item] # 0 => IsLast(stored, pick[item], Len(stored), item)
         /\ pick[item] = 0 => \A i \in 1 .. Len(stored) : ~Tells(stored[i], item)
<1> DEFINE n == Len(stored)
           telling == {i \in DOMAIN stored : Tells(stored[i], item)}
           newest == Newest(stored, item)
<1>1. n \in Nat /\ DOMAIN stored = 1 .. n /\ telling \in SUBSET (1 .. n)
      /\ \A i \in 1 .. n : i \in telling <=> Tells(stored[i], item)
  OBVIOUS
<1>2. \A i \in 1 .. n : stored[i] \in Reports /\ stored[i].at \in Nat
  <2>1. \A i \in 1 .. n : stored[i] \in Reports
    BY ElementOfSeq
  <2> QED
    BY <2>1 DEF Reports
<1>3. pick \in [Items -> 0 .. n] /\ (IF newest = {} THEN pick[item] = 0 ELSE pick[item] \in newest)
  BY DEF Picks
<1>4. newest = {i \in telling : \A j \in telling : stored[j].at <= stored[i].at}
  BY DEF Newest
<1> HIDE DEF newest, telling
<1>5. CASE telling = {}
  <2>1. newest = {} /\ pick[item] = 0
    BY <1>3, <1>4, <1>5
  <2> QED
    BY <1>1, <1>3, <1>5, <2>1
<1>6. CASE telling # {}
  <2>1. PICK i \in telling : \A j \in telling : j <= i
    BY <1>1, <1>6, LastIndex
  <2>2. i \in newest
    <3>1. ASSUME NEW j \in telling PROVE stored[j].at <= stored[i].at
      <4>1. i \in 1 .. n /\ j \in 1 .. n /\ j <= i
        BY <1>1, <2>1
      <4>2. i = j \/ j < i
        BY <4>1
      <4>3. stored[i].at \in Nat /\ stored[j].at \in Nat
        BY <1>2, <4>1
      <4>4. j < i => stored[j].at <= stored[i].at
        BY <1>1, <4>1 DEF Sorted
      <4> QED
        BY <4>2, <4>3, <4>4
    <3> QED
      BY <1>4, <2>1, <3>1
  <2> DEFINE p == pick[item]
  <2>3. p \in telling /\ p \in 1 .. n /\ \A j \in telling : stored[j].at <= stored[p].at
    BY <1>1, <1>3, <1>4, <2>2
  <2> HIDE DEF p
  <2>4. ASSUME NEW j \in 1 .. n, Tells(stored[j], item) PROVE j <= p
    <3>1. j \in telling /\ stored[j].at <= stored[p].at
      BY <1>1, <2>3, <2>4
    <3>2. SUFFICES ASSUME p < j PROVE FALSE
      BY <2>3, <3>2
    <3>3. stored[p].at <= stored[j].at
      BY <1>1, <2>3, <3>2 DEF Sorted
    <3>4. stored[p].at \in Nat /\ stored[j].at \in Nat
      BY <1>2, <2>3
    <3>5. stored[p].at = stored[j].at
      BY <3>1, <3>3, <3>4
    <3>6. p = j
      BY <1>1, <2>3, <3>5
    <3> QED
      BY <2>3, <3>2, <3>6
  <2>5. IsLast(stored, p, n, item) /\ p # 0
    BY <1>1, <2>3, <2>4 DEF IsLast
  <2> QED
    BY <1>3, <2>5 DEF p
<1> QED
  BY <1>5, <1>6

\* Then what is left of the reports shows the quota they show.
LEMMA LatestObserved ==
  ASSUME NEW stored \in Seq(Reports), Sorted(stored), \A i \in 1 .. Len(stored) : Keeps(stored[i]),
         \A i, j \in DOMAIN stored : stored[i].at = stored[j].at => i = j, NEW pick \in Picks(stored)
  PROVE  Observed(Latest(stored, pick)) = Observed(stored)
<1> DEFINE n == Len(stored)
           left == Latest(stored, pick)
<1>1. n \in Nat /\ n \in 0 .. n
  OBVIOUS
<1>2. /\ pick \in [Items -> 0 .. n]
      /\ \A item \in Items : /\ pick[item] # 0 => IsLast(stored, pick[item], n, item)
                             /\ pick[item] = 0 => \A i \in 1 .. n : ~Tells(stored[i], item)
  <2>1. "plan" \in Items
    BY DEF Items
  <2> QED
    BY <2>1, PickIsLast
<1>3. Picked(stored, pick, n)
  BY <1>2 DEF Picked, IsLast
<1>4. ShownBy(left, stored, pick, n)
  BY <1>3, ShownByLatest
<1> HIDE DEF left
<1>5. CASE n = 0
  <2>1. LeftOf(stored, pick) = {}
    BY <1>5 DEF LeftOf
  <2>2. left \in Seq({})
    BY <1>4, <2>1 DEF ShownBy
  <2>3. left = stored
    BY <1>5, <2>2
  <2> QED
    BY <2>3 DEF left
<1>6. CASE n # 0
  <2>1. PICK q : Quotas(q, stored, n)
    BY <1>1, QuotasExist
  <2>2. left \in Seq(LeftOf(stored, pick)) /\ Len(left) \in Nat
    BY <1>4 DEF ShownBy
  <2>3. PICK p : Quotas(p, left, Len(left)) /\ ShowsPicked(stored, pick, p[Len(left)], n)
    BY <1>4 DEF ShownBy
  <2> DEFINE all == q[n]
             some == p[Len(left)]
             newest == pick["plan"]
  <2>4. ShowsLast(stored, all, n)
    BY <1>1, <2>1, ShowsLastAll
  <2>5. Observed(stored) = [all EXCEPT !.rows = {row \in @ : ~Dropped(all.rows, row)}]
    BY <1>1, <2>1, ObservedIs
  <2>6. Observed(left) = [some EXCEPT !.rows = {row \in @ : ~Dropped(some.rows, row)}]
    BY <2>2, <2>3, ObservedIs
  <2>7. "plan" \in Items /\ Windows \subseteq Items
    BY DEF Items
  <2> HIDE DEF all, some
  <2>8. ASSUME NEW item \in Items, NEW i, IsLast(stored, i, n, item) PROVE i = pick[item]
    <3>1. i \in 1 .. n /\ Tells(stored[i], item) /\ \A j \in 1 .. n : Tells(stored[j], item) => j <= i
      BY <2>8 DEF IsLast
    <3>2. pick[item] # 0 /\ IsLast(stored, pick[item], n, item)
      BY <1>2, <3>1
    <3>3. pick[item] \in 1 .. n /\ Tells(stored[pick[item]], item) /\ i <= pick[item]
      BY <3>1, <3>2 DEF IsLast
    <3>4. pick[item] <= i
      BY <3>1, <3>3
    <3> QED
      BY <3>1, <3>3, <3>4
  <2>9. ASSUME NEW item \in Items, pick[item] \in 1 .. n PROVE IsLast(stored, pick[item], n, item)
    BY <1>2, <2>9
  <2>10. all.rows = some.rows
    <3>1. all.rows = LastRows(stored, n) /\ some.rows = PickedRows(stored, pick, n)
      BY <2>3, <2>4 DEF ShowsLast, ShowsPicked, some
    <3>2. ASSUME NEW row \in LastRows(stored, n) PROVE row \in PickedRows(stored, pick, n)
      <4>1. PICK x \in (1 .. n) \X Windows : row = Row(stored[x[1]], x[2]) /\ IsLast(stored, x[1], n, x[2])
        BY DEF LastRows
      <4>2. PICK i \in 1 .. n, w \in Windows : row = Row(stored[i], w) /\ IsLast(stored, i, n, w)
        BY <4>1
      <4>3. i = pick[w]
        BY <2>7, <2>8, <4>2
      <4> QED
        BY <4>2, <4>3 DEF PickedRows
    <3>3. ASSUME NEW row \in PickedRows(stored, pick, n) PROVE row \in LastRows(stored, n)
      <4>1. PICK w \in Windows : row = Row(stored[pick[w]], w) /\ pick[w] \in 1 .. n
        BY DEF PickedRows
      <4>2. IsLast(stored, pick[w], n, w)
        BY <2>7, <2>9, <4>1
      <4>3. <<pick[w], w>> \in (1 .. n) \X Windows
        BY <4>1
      <4> QED
        BY <4>1, <4>2, <4>3 DEF LastRows
    <3>4. LastRows(stored, n) = PickedRows(stored, pick, n)
      BY ONLY <3>2, <3>3
    <3> QED
      BY <3>1, <3>4
  <2>11. all.plan = some.plan /\ all.planAt = some.planAt
    <3>1. CASE newest \in 1 .. n
      <4>1. IsLast(stored, newest, n, "plan")
        BY <2>7, <2>9, <3>1
      <4>2. all.plan = stored[newest].plan /\ all.planAt = stored[newest].at
        BY <2>4, <3>1, <4>1 DEF ShowsLast
      <4>3. some.plan = stored[newest].plan /\ some.planAt = stored[newest].at
        BY <2>3, <3>1 DEF ShowsPicked, some
      <4> QED
        BY <4>2, <4>3
    <3>2. CASE newest \notin 1 .. n
      <4>1. newest = 0
        BY <1>1, <1>2, <2>7, <3>2
      <4>2. \A i \in 1 .. n : ~Tells(stored[i], "plan")
        BY <1>2, <2>7, <4>1
      <4>3. all.plan = "" /\ all.planAt = 0
        BY <2>4, <4>2 DEF ShowsLast
      <4>4. some.plan = "" /\ some.planAt = 0
        BY <2>3, <3>2 DEF ShowsPicked, some
      <4> QED
        BY <4>3, <4>4
    <3> QED
      BY <3>1, <3>2
  <2>12. all.fetchedAt = some.fetchedAt
    <3>1. n \in 1 .. n /\ \A j \in 1 .. n : j <= n
      BY <1>1, <1>6
    <3>2. stored[n] \in Reports /\ Keeps(stored[n])
      BY <3>1, ElementOfSeq
    <3>3. ASSUME NEW item \in Items, Tells(stored[n], item) PROVE pick[item] = n
      <4>1. IsLast(stored, n, n, item)
        BY <3>1, <3>3 DEF IsLast
      <4> QED
        BY <2>8, <4>1
    <3>4. Keeps(Reduced(stored[n], pick, n))
      <4>1. CASE stored[n].plan # ""
        <5>1. Tells(stored[n], "plan")
          BY <4>1 DEF Tells
        <5>2. pick["plan"] = n
          BY <2>7, <3>3, <5>1
        <5> QED
          BY <4>1, <5>2 DEF Keeps, Reduced
      <4>2. CASE stored[n].plan = ""
        <5>1. PICK w : w \in DOMAIN stored[n].windows
          BY <3>2, <4>2 DEF Keeps
        <5>2. w \in Windows /\ w # "plan"
          BY <3>2, <5>1, CredentialQuotasAssumption DEF Reports
        <5>3. pick[w] = n
          BY <2>7, <3>3, <5>1, <5>2 DEF Tells
        <5>4. w \in DOMAIN Reduced(stored[n], pick, n).windows
          BY <5>1, <5>3 DEF Reduced
        <5> QED
          BY <5>4 DEF Keeps
      <4> QED
        BY <4>1, <4>2
    <3>5. some.fetchedAt = stored[n].at
      BY <1>6, <2>3, <3>4 DEF ShowsPicked, some
    <3>6. all.fetchedAt = stored[n].at
      BY <1>6, <2>4 DEF ShowsLast
    <3> QED
      BY <3>5, <3>6
  <2>13. IsQuota(all) /\ IsQuota(some)
    BY <2>3, <2>4 DEF ShowsLast, ShowsPicked, some
  <2>14. all = some
    <3> DEFINE a1 == all.fetchedAt
               a2 == all.plan
               a3 == all.planAt
               a4 == all.rows
    <3>1. all = [fetchedAt |-> a1, plan |-> a2, planAt |-> a3, rows |-> a4]
      BY <2>13 DEF IsQuota
    <3>2. some = [fetchedAt |-> a1, plan |-> a2, planAt |-> a3, rows |-> a4]
      BY <2>10, <2>11, <2>12, <2>13 DEF IsQuota
    <3> HIDE DEF a1, a2, a3, a4
    <3> QED
      BY <3>1, <3>2
  <2>15. Observed(left) = Observed(stored)
    BY <2>5, <2>6, <2>14
  <2> QED
    BY <2>15 DEF left
<1> QED
  BY <1>5, <1>6

----------------------------------------------------------------------------
(* The order of the reports *)

\* The elements of a sequence after an insertion at any place, the ends included.
LEMMA InsertAtElements ==
  ASSUME NEW S, NEW s \in Seq(S), NEW i \in 1 .. Len(s) + 1, NEW e \in S
  PROVE  /\ Len(InsertAt(s, i, e)) = Len(s) + 1
         /\ \A k \in 1 .. Len(s) + 1 :
              InsertAt(s, i, e)[k] = IF k < i THEN s[k] ELSE IF k = i THEN e ELSE s[k - 1]
<1> DEFINE n == Len(s)
           a == SubSeq(s, 1, i - 1)
           b == SubSeq(s, i, n)
           ae == a \o <<e>>
           all == ae \o b
<1>1. n \in Nat /\ i \in Int /\ 1 <= i /\ i <= n + 1
  OBVIOUS
<1>2. a \in Seq(S) /\ Len(a) = i - 1 /\ \A k \in 1 .. i - 1 : a[k] = s[k]
  <2>1. i - 1 \in 0 .. n
    BY <1>1
  <2>2. \A j \in 1 .. i - 1 : s[j] \in S
    BY <1>1, ElementOfSeq
  <2>3. a \in Seq(S) /\ Len(a) = (IF 1 <= i - 1 THEN i - 1 - 1 + 1 ELSE 0)
        /\ \A k \in 1 .. i - 1 - 1 + 1 : a[k] = s[1 + k - 1]
    BY <1>1, <2>2, SubSeqProperties
  <2> HIDE DEF a
  <2> QED
    BY <1>1, <2>3
<1>3. b \in Seq(S) /\ Len(b) = n - i + 1 /\ \A k \in 1 .. n - i + 1 : b[k] = s[i + k - 1]
  <2>1. \A j \in i .. n : s[j] \in S
    BY <1>1, ElementOfSeq
  <2>2. b \in Seq(S) /\ Len(b) = (IF i <= n THEN n - i + 1 ELSE 0) /\ \A k \in 1 .. n - i + 1 : b[k] = s[i + k - 1]
    BY <1>1, <2>1, SubSeqProperties
  <2> HIDE DEF b
  <2> QED
    BY <1>1, <2>2
<1>4. InsertAt(s, i, e) = all
  BY DEF InsertAt
<1> HIDE DEF a, b
<1>5. <<e>> \in Seq(S) /\ Len(<<e>>) = 1 /\ <<e>>[1] = e
  OBVIOUS
<1>6. ae \in Seq(S) /\ Len(ae) = i /\ \A k \in 1 .. i : ae[k] = IF k < i THEN s[k] ELSE e
  <2> DEFINE one == <<e>>
  <2>1. one \in Seq(S) /\ Len(one) = 1 /\ one[1] = e
    BY <1>5
  <2> HIDE DEF one
  <2>2. a \o one \in Seq(S) /\ Len(a \o one) = Len(a) + Len(one)
        /\ \A k \in 1 .. Len(a) + Len(one) : (a \o one)[k] = IF k <= Len(a) THEN a[k] ELSE one[k - Len(a)]
    BY <1>2, <2>1, ConcatProperties
  <2>3. ASSUME NEW k \in 1 .. i PROVE (a \o one)[k] = IF k < i THEN s[k] ELSE e
    <3>1. (a \o one)[k] = IF k <= i - 1 THEN a[k] ELSE one[k - (i - 1)]
      BY <1>1, <1>2, <2>1, <2>2
    <3>2. CASE k < i
      <4>1. k \in 1 .. i - 1 /\ k <= i - 1
        BY <1>1, <3>2
      <4> QED
        BY <1>2, <3>1, <3>2, <4>1
    <3>3. CASE k = i
      <4>1. k - (i - 1) = 1 /\ ~(k <= i - 1) /\ ~(k < i)
        BY <1>1, <3>3
      <4> QED
        BY <2>1, <3>1, <4>1
    <3>4. k < i \/ k = i
      BY <1>1
    <3> QED
      BY <3>2, <3>3, <3>4
  <2>4. Len(a \o one) = i
    BY <1>1, <1>2, <2>1, <2>2
  <2> QED
    BY <2>2, <2>3, <2>4 DEF one
<1> HIDE DEF ae
<1>7. Len(all) = Len(ae) + Len(b) /\ \A k \in 1 .. Len(ae) + Len(b) : all[k] = IF k <= Len(ae) THEN ae[k] ELSE b[k - Len(ae)]
  BY <1>3, <1>6, ConcatProperties
<1>8. Len(all) = n + 1
  BY <1>1, <1>3, <1>6, <1>7
<1>9. ASSUME NEW k \in 1 .. n + 1
      PROVE  all[k] = IF k < i THEN s[k] ELSE IF k = i THEN e ELSE s[k - 1]
  <2>1. all[k] = IF k <= i THEN ae[k] ELSE b[k - i]
    BY <1>1, <1>3, <1>6, <1>7
  <2>2. CASE k <= i
    <3>1. k \in 1 .. i
      BY <1>1, <2>2
    <3>2. all[k] = IF k < i THEN s[k] ELSE e
      BY <1>6, <2>1, <2>2, <3>1
    <3> QED
      BY <1>1, <2>2, <3>2
  <2>3. CASE ~(k <= i)
    <3>1. k - i \in 1 .. n - i + 1 /\ i + (k - i) - 1 = k - 1 /\ ~(k < i) /\ k # i
      BY <1>1, <2>3
    <3>2. b[k - i] = s[k - 1]
      BY <1>3, <3>1
    <3> QED
      BY <2>1, <2>3, <3>1, <3>2
  <2> QED
    BY <2>2, <2>3
<1> HIDE DEF all
<1> QED
  BY <1>4, <1>8, <1>9

\* Reports that are in order stay so when one more is inserted after those no later than it.
LEMMA InsertedSorted ==
  ASSUME reports \in Seq(Reports), Sorted(reports), \A i \in 1 .. Len(reports) : Keeps(reports[i]),
         NEW report \in Reports, Keeps(report)
  PROVE  Sorted(Inserted(report)) /\ \A i \in 1 .. Len(Inserted(report)) : Keeps(Inserted(report)[i])
<1> DEFINE n == Len(reports)
           before == {i \in DOMAIN reports : reports[i].at <= report.at}
           c == Cardinality(before)
           new == Inserted(report)
<1>1. n \in Nat /\ DOMAIN reports = 1 .. n /\ before \in SUBSET (1 .. n)
      /\ \A i \in 1 .. n : i \in before <=> reports[i].at <= report.at
  OBVIOUS
<1>2. report.at \in Nat /\ \A i \in 1 .. n : reports[i] \in Reports /\ reports[i].at \in Nat
  <2>1. \A i \in 1 .. n : reports[i] \in Reports
    BY ElementOfSeq
  <2> QED
    BY <2>1 DEF Reports
<1>3. new = InsertAt(reports, 1 + c, report)
  BY DEF Inserted
<1> HIDE DEF before
<1>4. c \in 0 .. n /\ before = 1 .. c
  <2>1. ASSUME NEW i \in before, NEW j \in 1 .. n, j <= i PROVE j \in before
    <3>1. i \in 1 .. n /\ reports[i].at <= report.at /\ (j = i \/ j < i)
      BY <1>1, <2>1
    <3>2. j < i => reports[j].at <= reports[i].at
      BY <1>1, <3>1 DEF Sorted
    <3>3. reports[j].at <= report.at
      BY <1>2, <3>1, <3>2
    <3> QED
      BY <1>1, <3>3
  <2>2. CASE before = {}
    <3>1. c = 0 /\ 1 .. 0 = {}
      BY <2>2, FS_EmptySet
    <3> QED
      BY <1>1, <2>2, <3>1
  <2>3. CASE before # {}
    <3>1. PICK g \in before : \A j \in before : j <= g
      BY <1>1, <2>3, LastIndex
    <3>5. g \in 1 .. n /\ \A j \in before : j \in 1 .. n /\ j <= g
      BY <1>1, <3>1
    <3>6. \A j : j \in before <=> j \in 1 .. g
      <4>1. ASSUME NEW j \in 1 .. g PROVE j \in before
        <5>1. j \in 1 .. n /\ j <= g
          BY <1>1, <3>5
        <5> QED
          BY <2>1, <5>1
      <4>2. ASSUME NEW j \in before PROVE j \in 1 .. g
        BY <3>5
      <4> QED
        BY <4>1, <4>2
    <3>7. before = 1 .. g
      BY <3>6
    <3>8. Cardinality(1 .. g) = g
      BY <3>5, FS_Interval
    <3> QED
      BY <1>1, <3>5, <3>7, <3>8
  <2> QED
    BY <2>2, <2>3
<1> HIDE DEF c
<1>5. 1 + c \in 1 .. n + 1 /\ c \in Nat /\ c <= n
  BY <1>1, <1>4
<1>6. /\ Len(new) = n + 1
      /\ \A k \in 1 .. n + 1 : new[k] = IF k < 1 + c THEN reports[k] ELSE IF k = 1 + c THEN report ELSE reports[k - 1]
  <2> DEFINE i == 1 + c
  <2>1. i \in 1 .. n + 1
    BY <1>5
  <2> HIDE DEF i, new
  <2>2. /\ Len(InsertAt(reports, i, report)) = n + 1
        /\ \A k \in 1 .. n + 1 :
             InsertAt(reports, i, report)[k] = IF k < i THEN reports[k] ELSE IF k = i THEN report ELSE reports[k - 1]
    BY <2>1, InsertAtElements
  <2> QED
    BY <1>3, <2>2 DEF i
<1>7. \A i \in 1 .. n : IF i <= c THEN reports[i].at <= report.at ELSE report.at <= reports[i].at
  <2> SUFFICES ASSUME NEW i \in 1 .. n
               PROVE  IF i <= c THEN reports[i].at <= report.at ELSE report.at <= reports[i].at
    OBVIOUS
  <2>1. i \in before <=> i <= c
    BY <1>1, <1>4
  <2> QED
    BY <1>1, <1>2, <2>1
<1> HIDE DEF new
<1>8. new \in Seq(Reports) /\ DOMAIN new = 1 .. n + 1
  <2>1. new \in Seq(Reports)
    BY InsertedIsReports DEF new
  <2> QED
    BY <1>6, <2>1
<1>9. ASSUME NEW i \in 1 .. n + 1, NEW j \in 1 .. n + 1, i < j
      PROVE  new[i].at <= new[j].at
  <2>1. /\ new[i] = IF i < 1 + c THEN reports[i] ELSE IF i = 1 + c THEN report ELSE reports[i - 1]
        /\ new[j] = IF j < 1 + c THEN reports[j] ELSE IF j = 1 + c THEN report ELSE reports[j - 1]
    BY <1>6
  <2>2. \A x, y \in 1 .. n : x < y => reports[x].at <= reports[y].at
    BY <1>1 DEF Sorted
  <2>3. CASE i < 1 + c
    <3>1. i \in 1 .. n /\ i <= c
      BY <1>1, <1>5, <2>3
    <3>2. CASE j < 1 + c
      <4>1. j \in 1 .. n
        BY <1>1, <1>5, <3>2
      <4> QED
        BY <1>9, <2>1, <2>2, <2>3, <3>1, <3>2, <4>1
    <3>3. CASE j = 1 + c
      <4>1. reports[i].at <= report.at
        BY <1>7, <3>1
      <4> QED
        BY <1>5, <2>1, <2>3, <3>3, <4>1
    <3>4. CASE j > 1 + c
      <4>1. j - 1 \in 1 .. n /\ i < j - 1
        BY <1>1, <1>5, <2>3, <3>4
      <4>2. new[i] = reports[i] /\ new[j] = reports[j - 1]
        BY <1>5, <2>1, <2>3, <3>4
      <4> QED
        BY <2>2, <3>1, <4>1, <4>2
    <3> QED
      BY <1>5, <3>2, <3>3, <3>4
  <2>4. CASE i = 1 + c
    <3>1. j - 1 \in 1 .. n /\ ~(j - 1 <= c)
      BY <1>1, <1>5, <1>9, <2>4
    <3>2. report.at <= reports[j - 1].at
      BY <1>7, <3>1
    <3>3. new[i] = report /\ new[j] = reports[j - 1]
      BY <1>5, <1>9, <2>1, <2>4
    <3> QED
      BY <3>2, <3>3
  <2>5. CASE i > 1 + c
    <3>1. i - 1 \in 1 .. n /\ j - 1 \in 1 .. n /\ i - 1 < j - 1
      BY <1>1, <1>5, <1>9, <2>5
    <3>2. new[i] = reports[i - 1] /\ new[j] = reports[j - 1]
      BY <1>5, <1>9, <2>1, <2>5
    <3> QED
      BY <2>2, <3>1, <3>2
  <2> QED
    BY <1>5, <2>3, <2>4, <2>5
<1>10. ASSUME NEW k \in 1 .. n + 1 PROVE Keeps(new[k])
  <2>1. new[k] = IF k < 1 + c THEN reports[k] ELSE IF k = 1 + c THEN report ELSE reports[k - 1]
    BY <1>6
  <2>2. CASE k < 1 + c
    <3>1. k \in 1 .. n
      BY <1>1, <1>5, <2>2
    <3> QED
      BY <2>1, <2>2, <3>1
  <2>3. CASE k = 1 + c
    BY <1>5, <2>1, <2>3
  <2>4. CASE k > 1 + c
    <3>1. k - 1 \in 1 .. n
      BY <1>1, <1>5, <2>4
    <3> QED
      BY <1>5, <2>1, <2>4, <3>1
  <2> QED
    BY <1>5, <2>2, <2>3, <2>4
<1>11. Sorted(new)
  BY <1>8, <1>9 DEF Sorted
<1> QED
  BY <1>6, <1>10, <1>11 DEF new

\* The reports are in order, and each tells something.
SortedInv ==
  /\ Sorted(reports)
  /\ \A i \in 1 .. Len(reports) : Keeps(reports[i])

\* insertQuotaReport: overlapping requests store their reports in the order they began, not
\* in that of their answers, and nothing is stored of an answer that tells nothing.
THEOREM ReportsInOrder == Spec => []SortedInv
<1>1. Init => SortedInv
  BY DEF Init, SortedInv, Sorted
<1>2. ASSUME ReportsInv, SortedInv, [Next]_vars
      PROVE  SortedInv'
  <2>1. ASSUME UNCHANGED reports PROVE SortedInv'
    BY <1>2, <2>1 DEF SortedInv, Sorted
  <2>2. ASSUME NEW r \in Requests, NEW share \in Shares, NEW plan \in Plans, NEW windows \in SUBSET Windows,
               HandleUsage(r, share, plan, windows)
        PROVE  SortedInv'
    <3> DEFINE report == [at |-> begun[r], plan |-> plan, windows |-> [w \in windows |-> Shown(upstream'[w], w)]]
    <3>1. CASE plan = "" /\ windows = {}
      BY <2>1, <2>2, <3>1 DEF HandleUsage
    <3>2. CASE ~(plan = "" /\ windows = {})
      <4>1. report \in Reports
        BY <1>2, <2>2, HandleUsageStores
      <4>2. Keeps(report)
        BY <3>2 DEF Keeps
      <4>3. reports' = Inserted(report)
        BY <2>2, <3>2 DEF HandleUsage
      <4> HIDE DEF report
      <4>4. Sorted(Inserted(report)) /\ \A i \in 1 .. Len(Inserted(report)) : Keeps(Inserted(report)[i])
        BY <1>2, <4>1, <4>2, InsertedSorted DEF ReportsInv, SortedInv
      <4> QED
        BY <4>3, <4>4 DEF SortedInv
    <3> QED
      BY <3>1, <3>2
  <2>3. ASSUME NEW r \in Requests, Begin(r) PROVE SortedInv'
    BY <2>1, <2>3 DEF Begin
  <2>4. CASE UseElsewhere
    BY <2>1, <2>4 DEF UseElsewhere
  <2>5. ASSUME NEW w \in Windows, NEW anew \in BOOLEAN, UpstreamReset(w, anew) PROVE SortedInv'
    BY <2>1, <2>5 DEF UpstreamReset
  <2>6. ASSUME NEW windows \in Offered, PlanChanges(windows) PROVE SortedInv'
    BY <2>1, <2>6 DEF PlanChanges
  <2>7. CASE Tick
    BY <2>1, <2>7 DEF Tick
  <2>8. CASE UNCHANGED vars
    BY <2>1, <2>8 DEF vars
  <2> QED
    BY <1>2, <2>2, <2>3, <2>4, <2>5, <2>6, <2>7, <2>8 DEF Next
<1> QED
  BY <1>1, <1>2, ReportsTyped, PTL DEF Spec

\* LatestQuotaReports: a credential's quota, rebuilt of the newest report of each window and of
\* the plan, is that of all its reports: nothing that is left out would have changed it.
THEOREM LatestShowsAll == Spec => []LatestAgrees
<1>1. ReportsInv /\ SortedInv => LatestAgrees
  BY LatestObserved DEF ReportsInv, SortedInv, LatestAgrees
<1> QED
  BY <1>1, ReportsTyped, ReportsInOrder, PTL
=============================================================================
