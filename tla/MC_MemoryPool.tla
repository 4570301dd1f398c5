--------------------------- MODULE MC_MemoryPool ---------------------------
(* Instance of MemoryPool for TLC: three callers, a pool that can be cut   *)
(* into four blocks and no more.                                           *)
EXTENDS MemoryPool, TLC

Symmetry == Permutations(Callers) \cup Permutations(Blocks)

=============================================================================
