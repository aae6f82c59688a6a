---------------------------- MODULE MCThreadCache ----------------------------
(* ThreadCache on a small set of threads.                                  *)
EXTENDS ThreadCache, TLC

Symmetry == Permutations(Threads)
=============================================================================
