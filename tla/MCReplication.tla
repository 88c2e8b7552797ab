--------------------------- MODULE MCReplication ---------------------------
(* Small instances of Replication for TLC. *)
EXTENDS Replication, TLC

\* Node ids are interchangeable, and so are replicas.
Symmetry == Permutations(Nodes) \cup Permutations(Replicas)
=============================================================================
