------------------------------- MODULE Usage -------------------------------
(***************************************************************************)
(* What a response used and what it costs: the breakdown of the token      *)
(* counts a provider reported, and its price.                              *)
(*                                                                         *)
(* The host flattens its own accounting into seven counts.  Whether cached *)
(* input is part of the input, and reasoning part of the output, depends   *)
(* on the provider; the plugin restores it, and for a provider it does not *)
(* know only when every reading that fits says the same.                   *)
(*                                                                         *)
(* Counts are 64-bit integers of any value, MaxTokens the largest.  Rates  *)
(* are per token here and costs integers; the code's are floating-point    *)
(* and per million.                                                        *)
(***************************************************************************)
EXTENDS Integers, Sequences, SequencesExt

CONSTANT MaxTokens  \* the largest integer

ASSUME UsageAssumption == MaxTokens \in Nat \ {0}

Semantics == {"subset", "independent", "separate"}

----------------------------------------------------------------------------
(* Breakdowns *)

Parts == {"uncached", "cacheRead", "cacheWrite", "nonReasoning", "reasoning"}

NoParts == [p \in Parts |-> 0]

InputTotal(b) == b.parts["uncached"] + b.parts["cacheRead"] + b.parts["cacheWrite"]
OutputTotal(b) == b.parts["nonReasoning"] + b.parts["reasoning"]

\* checkedTokenSum: no count is negative and their sum does not overflow
SumOf(values) ==
  LET sum[n \in 0 .. Len(values)] == IF n = 0 THEN 0 ELSE sum[n - 1] + values[n]
  IN  sum[Len(values)]

\* mutant of Fits: only negative counts are refused
FitsUnbounded(values) == \A i \in DOMAIN values : values[i] >= 0

Fits(values) == (\A i \in DOMAIN values : values[i] >= 0) /\ SumOf(values) <= MaxTokens
Sum(values) == IF Fits(values) THEN SumOf(values) ELSE 0

Larger(a, b) == IF a > b THEN a ELSE b

\* usageBreakdown of a response that reports no usage, which is not the same as none
Unreported == [quality |-> "", total |-> 0, parts |-> NoParts, unclassified |-> 0]

Complete(uncached, cacheRead, cacheWrite, nonReasoning, reasoning, total) ==
  [quality |-> "complete", total |-> total, unclassified |-> 0,
   parts |-> [uncached |-> uncached, cacheRead |-> cacheRead, cacheWrite |-> cacheWrite,
              nonReasoning |-> nonReasoning, reasoning |-> reasoning]]

Inconsistent(total, computed) ==
  LET kept == Larger(0, IF total <= 0 THEN computed ELSE total)
  IN  [quality |-> "inconsistent", total |-> kept, parts |-> NoParts, unclassified |-> kept]

Unclassified(total) ==
  IF total < 0 THEN Inconsistent(total, 0)
  ELSE IF total = 0 THEN [Unreported EXCEPT !.quality = "complete"]
  ELSE [quality |-> "unclassified", total |-> total, parts |-> NoParts, unclassified |-> total]

\* TokenBreakdown.Valid
Valid(b) ==
  /\ b.quality # ""
  /\ \A p \in Parts : b.parts[p] >= 0
  /\ b.total >= 0 /\ b.unclassified >= 0
  /\ b.total = InputTotal(b) + OutputTotal(b) + b.unclassified
  /\ b.quality = "complete" => b.unclassified = 0

Billable(b) == Valid(b) /\ b.quality = "complete"

----------------------------------------------------------------------------
(* The three readings of a report d *)

\* Cached input is part of the input, reasoning part of the output.
SubsetBreakdown(d) ==
  LET expected == Sum(<<d.input, d.output>>)
      cache == Sum(<<d.cacheRead, d.cacheWrite>>)
      read == Complete(d.input - cache, d.cacheRead, d.cacheWrite, d.output - d.reasoning, d.reasoning, expected)
  IN  IF \/ ~Fits(<<d.input, d.output>>) \/ ~Fits(<<d.cacheRead, d.cacheWrite>>)
         \/ cache > d.input \/ d.reasoning < 0 \/ d.reasoning > d.output
         \/ d.total < 0 \/ d.total \in 1..(expected - 1)
         \/ d.total > expected /\ d.input > 0 /\ d.output > 0
        THEN Inconsistent(d.total, expected)
      ELSE IF d.total > expected
        THEN [read EXCEPT !.quality = "unclassified", !.total = d.total, !.unclassified = d.total - expected]
      ELSE read

\* Every count is a part of its own, and the total is their sum or missing.
IndependentBreakdown(d) ==
  LET input == <<d.input, d.cacheRead, d.cacheWrite>>
      output == <<d.output, d.reasoning>>
      expected == Sum(<<Sum(input), Sum(output)>>)
  IN  IF ~Fits(input) \/ ~Fits(output) \/ ~Fits(<<Sum(input), Sum(output)>>) \/ d.total \notin {0, expected}
        THEN Inconsistent(d.total, expected)
        ELSE Complete(d.input, d.cacheRead, d.cacheWrite, d.output, d.reasoning, expected)

\* As above, but reasoning is part of the output unless the total says otherwise.
ProviderIndependentBreakdown(d) ==
  LET input == <<d.input, d.cacheRead, d.cacheWrite>>
      all == <<Sum(input), d.output, d.reasoning>>
  IN  IF ~Fits(input) \/ ~Fits(all) THEN Inconsistent(d.total, 0)
      ELSE IF d.total = Sum(all) THEN IndependentBreakdown(d)
      ELSE IF d.reasoning < 0 \/ d.reasoning > d.output THEN Inconsistent(d.total, 0)
      ELSE IndependentBreakdown([d EXCEPT !.output = @ - d.reasoning])

\* Cached input is part of the input, reasoning is not part of the output.
SeparateReasoningBreakdown(d) ==
  LET cache == Sum(<<d.cacheRead, d.cacheWrite>>)
      output == <<d.output, d.reasoning>>
      expected == Sum(<<d.input, Sum(output)>>)
  IN  IF d.input < 0 \/ ~Fits(<<d.cacheRead, d.cacheWrite>>) \/ cache > d.input THEN Inconsistent(d.total, 0)
      ELSE IF ~Fits(output) \/ ~Fits(<<d.input, Sum(output)>>) \/ d.total \notin {0, expected}
        THEN Inconsistent(d.total, expected)
      ELSE Complete(d.input - cache, d.cacheRead, d.cacheWrite, d.output, d.reasoning, expected)

\* unclassifiedLowerBound: what was used at least, however the counts overlap
BoundParts(d) == <<Larger(Larger(d.input, Sum(<<d.cacheRead, d.cacheWrite>>)), d.cached), Larger(d.output, d.reasoning)>>

HasBound(d) ==
  /\ Fits(<<d.cacheRead, d.cacheWrite>>)
  /\ d.input >= 0 /\ d.output >= 0 /\ d.reasoning >= 0 /\ d.cached >= 0
  /\ Fits(BoundParts(d))

LowerBound(d) == Sum(BoundParts(d))

CacheCounts(d) == <<d.cacheRead, d.cacheWrite, d.cached>>
PartCounts(d) == CacheCounts(d) \o <<d.input, d.output, d.reasoning>>

\* A child of a count that is zero has no parent: it was not reported.
Orphaned(d) ==
  [d EXCEPT !.cacheRead = IF d.input = 0 THEN 0 ELSE @, !.cacheWrite = IF d.input = 0 THEN 0 ELSE @,
            !.reasoning = IF d.output = 0 THEN 0 ELSE @]

\* semanticBreakdown
Read(d, semantics) ==
  LET empty == d.total = 0 /\ d.input = 0 /\ d.output = 0
  IN  CASE semantics = "subset" /\ d.total > 0 /\ (\A i \in 1..6 : PartCounts(d)[i] = 0) -> Unclassified(d.total)
        [] empty /\ ~HasBound(d) -> Inconsistent(d.total, 0)
        [] /\ empty /\ HasBound(d) /\ LowerBound(d) > 0
           /\ semantics = "subset" \/ (semantics = "separate" /\ \E i \in 1..3 : CacheCounts(d)[i] > 0)
           -> Unclassified(LowerBound(d))
        [] OTHER -> CASE semantics = "independent" -> ProviderIndependentBreakdown(d)
                      [] semantics = "separate" -> SeparateReasoningBreakdown(d)
                      [] OTHER -> SubsetBreakdown(Orphaned(d))

UnclassifiedUsage(d) ==
  IF ~HasBound(d) THEN Inconsistent(d.total, 0)
  ELSE Unclassified(IF d.total = 0 THEN LowerBound(d) ELSE d.total)

\* mutant of Agreed: the first reading that is complete is taken
AgreedFirst(readings) == {b \in readings : b.quality = "complete"} # {}

\* All readings the counts do not contradict are the same, and complete.
Agreed(readings) ==
  \E b \in readings : b.quality = "complete" /\ readings = {b}

\* usageBreakdown
UsageBreakdown(d, semantics) ==
  LET readings == {b \in {Read(d, s) : s \in Semantics} : b.quality # "inconsistent"}
  IN  CASE d.total = 0 /\ (\A i \in 1..6 : PartCounts(d)[i] = 0) -> Unreported
        [] d.total # 0 \/ (\E i \in 1..6 : PartCounts(d)[i] # 0) ->
             IF semantics # "unknown" THEN Read(d, semantics)
             ELSE IF Agreed(readings) THEN CHOOSE b \in readings : b.quality = "complete"
             ELSE UnclassifiedUsage(d)

----------------------------------------------------------------------------
(* Cost *)

\* PriceRates.resolve: a cache rate that is not set, here -1, is the input rate
Inherited(rates) ==
  [rates EXCEPT !.cacheRead = IF @ = -1 THEN rates.input ELSE @,
                !.cacheWrite = IF @ = -1 THEN rates.input ELSE @]

\* Long input has rates of its own, for all of it and for the output.
Applied(price, b) == Inherited(IF InputTotal(b) > price.threshold THEN price.long ELSE price.short)

\* What is not classified costs nothing.
ComputeCost(price, b) ==
  IF ~Billable(b) THEN 0
  ELSE LET r == Applied(price, b)
       IN  b.parts["uncached"] * r.input + b.parts["cacheRead"] * r.cacheRead
             + b.parts["cacheWrite"] * r.cacheWrite + OutputTotal(b) * r.output

\* The tokens that count for quotas.
ChargedTokens(b) == IF Valid(b) /\ b.quality # "inconsistent" THEN b.total ELSE 0
=============================================================================
