-------------------------- MODULE MCBenchmarkClock --------------------------
(* Instances of BenchmarkClock for TLC. *)
EXTENDS BenchmarkClock
=============================================================================
