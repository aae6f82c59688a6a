-------------------------- MODULE MCFutureAllocator --------------------------
(* FutureAllocator on small pages and few threads.                         *)
EXTENDS FutureAllocator

Symmetry == Permutations(Threads) \cup Permutations(Futures)

(* The bisection finds the number of futures of a page that starts with    *)
(* futures and ends with NULL, whatever the capacity.                      *)
ASSUME OccupancyIsCount ==
  \A capacity \in 1 .. 17 : \A n \in 0 .. capacity :
    OccupancyOf([i \in 1 .. capacity |-> IF i <= n THEN i ELSE NULL], capacity) = n
=============================================================================
