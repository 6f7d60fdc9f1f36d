------------------------------- MODULE MCQueue -------------------------------
(* MPMCQueue and its refinement, instantiated for TLC. *)
EXTENDS MPMCQueueImpl, TLC

Symmetry == Permutations(Producers) \cup Permutations(Consumers)

=============================================================================
