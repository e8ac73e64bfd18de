---------------------------- MODULE MCMemoryPool ----------------------------
(* MemoryPool for TLC: threads and images are interchangeable. *)
EXTENDS MemoryPool, TLC

Symmetry == Permutations(Threads) \cup Permutations(Images)

=============================================================================
