--------------------------- MODULE MCSemanticEdit ---------------------------
(* Small instances of SemanticEdit for TLC. *)
EXTENDS SemanticEdit, TLC

\* Threads are interchangeable, and so are ids of one kind: no expression
\* orders or chooses among them.
CallerSymmetry == Permutations(Callers)
IdSymmetry == Permutations(Callers) \cup Permutations(Checkouts) \cup Permutations(Proposals)
=============================================================================
