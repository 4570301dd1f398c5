-------------------------- MODULE MC_MemoryTracker --------------------------
(* Instance of MemoryTracker for TLC: two threads, three addresses, a      *)
(* table of two entries, so that it runs full.                             *)
EXTENDS MemoryTracker, TLC

Symmetry == Permutations(Threads) \cup Permutations(Ptrs)

=============================================================================
