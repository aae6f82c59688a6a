--------------------------- MODULE MCCustomFuture ---------------------------
(* CustomFuture on small sets of threads.                                  *)
EXTENDS CustomFuture, TLC

Symmetry ==
  Permutations(Clients) \cup Permutations(Workers) \cup Permutations(Payloads)
=============================================================================
