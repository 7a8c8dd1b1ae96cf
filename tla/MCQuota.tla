------------------------------ MODULE MCQuota ------------------------------
(* Instances of Quota for TLC. *)
EXTENDS Quota, FiniteSets, TLC

Symmetry == Permutations(Keys) \cup Permutations(Requests)

\* Keys, plans and windows are alike where their names are not told apart.
EditSymmetry == UNION {Permutations(Keys), Permutations(Requests), Permutations(Plans), Permutations(Windows)}

\* Either one plan of any windows, or plans that have the same window only.
Bounded ==
  \/ Cardinality(plans) < 2
  \/ \A p, q \in plans : \A v, w \in Windows : Present(windows[p][v]) /\ Present(windows[q][w]) => v = w
=============================================================================
