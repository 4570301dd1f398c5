------------------------------ MODULE MC_Cache ------------------------------
(* Instance of Cache for TLC: two threads, two keys in one of two buckets, *)
(* data of two sizes, a clock that runs past the timeout.                  *)
EXTENDS Cache, TLC

MCKeys == {"k1", "k2"}
HashSame == [k \in MCKeys |-> 0]
Identity == [k \in MCKeys |-> k]
MCSize == [v \in {"small", "large"} |-> IF v = "small" THEN 1 ELSE 2]

Symmetry == Permutations(Threads)

=============================================================================
