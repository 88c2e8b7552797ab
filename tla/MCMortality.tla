---------------------------- MODULE MCMortality ----------------------------
(* Small instances of Mortality for TLC. *)
EXTENDS Mortality, TLC

\* Threads and node ids are interchangeable.
Symmetry == Permutations(Threads) \cup Permutations(Nodes)

\* A bound on the states: the last dying event is written in a fabric of one node.
LastDyingAlone == dying < MaxTriggers \/ Cardinality(used) <= 1
=============================================================================
