--------------------------- MODULE MCUsageReports ---------------------------
(* Instances of UsageReports for TLC: any counts in one answer, or plain answers of *)
(* overlapping requests. *)
EXTENDS UsageReports, TLC

CONSTANTS short, long

MCWindows == {short, long}
MCLimitOf == [w \in Windows |-> "main"]
MCLengthOf == (short :> 1) @@ (long :> 2)
MCOffered == {{short, long}, {long}}

MCTruths == {[uncached |-> u, cacheRead |-> r, cacheWrite |-> w, nonReasoning |-> n, reasoning |-> s]
               : u \in 0..2, r \in 0..1, w \in 0..1, n \in 0..2, s \in 0..1}

Counts == {-1, 0, 1, 4}

MCGarbled ==
  [input : Counts, output : Counts, reasoning : Counts, total : Counts,
   cacheRead : Counts, cacheWrite : Counts \ {4}, cached : Counts \ {1}]

Rate(input, cacheRead, cacheWrite, output) ==
  [input |-> input, cacheRead |-> cacheRead, cacheWrite |-> cacheWrite, output |-> output]

MCPrices == {[short |-> Rate(1, -1, 1, 1), long |-> Rate(2, 2, -1, 2), threshold |-> 2]}

Plain == answer.parts = [NoParts EXCEPT !["uncached"] = 1] /\ answer.semantics = "subset" /\ answer.detail.total = 1

InFlight == {r \in Requests : begun[r] # 0}
Unused == \A w \in Windows : upstream[w] = Fresh

\* Counts of any kind in the first answer; reports on one window of requests that overlap;
\* reports on two unused windows and plans, one after the other.
Bounded ==
  \/ /\ clock = 1 /\ reports = <<>> /\ offered = {long} /\ Unused
     /\ Cardinality(InFlight) <= (IF event = NoEvent THEN 1 ELSE 0)
  \/ Plain /\ offered = {long} /\ \A i \in DOMAIN reports : reports[i].plan = "" /\ DOMAIN reports[i].windows = {long}
  \/ Plain /\ Unused /\ Cardinality(InFlight) <= 1 /\ Len(reports) <= 3

Symmetry == Permutations(Requests)
=============================================================================
