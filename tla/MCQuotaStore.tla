---------------------------- MODULE MCQuotaStore ----------------------------
(* Instances of QuotaStore for TLC. *)
EXTENDS QuotaStore, TLC

Symmetry == Permutations(Keys) \cup Permutations(Requests)

\* Two keys on short runs with resets, one key on long ones.
Bounded == clock <= 4 \/ \E k \in Keys : status[k] = "unknown"
=============================================================================
