--------------------------- MODULE MCGenerationQueue ---------------------------
(* Values for the constants of GenerationQueue: every task belongs to u1. *)
EXTENDS GenerationQueue, TLC

CONSTANT u1

MCOwner == [t \in Tasks |-> u1]
Symmetry == Permutations(Tasks)
=============================================================================
