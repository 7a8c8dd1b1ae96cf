---------------------------- MODULE MCScheduler ----------------------------
(* Instance of Scheduler for TLC. *)
EXTENDS Scheduler, TLC

Symmetry == Permutations(Scopes) \cup Permutations(Pools)

Existing == {<<s, p>> \in Scopes \X Pools : Exists(rotations[s][p])}

\* Long rotations of one pool without sessions; or sessions and pools in each other's way.
Bounded ==
  \/ /\ ~affinity /\ clock = 0 /\ Cardinality(Existing) <= 1
     /\ \A c \in Credentials : offer[c].priority = 0
     /\ strategy # "weighted-round-robin" => \A c \in Credentials : offer[c].weight = 1
  \/ /\ affinity /\ strategy = "round-robin"
     /\ \A c \in Credentials : offer[c].weight = 1 /\ (offer[c].priority = 1 => c = 2)
     /\ \A s \in Scopes, p \in Pools : waits[s][p][3] = 0 /\ rotations[s][p].lastPicked < 3
     /\ Cardinality({key \in SessionKeys : uses[key] # NoUse}) <= 3
     /\ Cardinality(Existing) <= 1
=============================================================================
