-------------------------- MODULE MCRealtimeMemory --------------------------
(* Instances of RealtimeMemory for TLC. *)
EXTENDS RealtimeMemory

\* Soft and hard limits: none, just short, room below the hard limit (with a
\* doubling that ends below it or beyond it), infinite.  No infinite hard limit
\* over a finite soft one: see AllocateReturns.
MCLimits == {<<0, 12>>, <<3, 4>>, <<2, 24>>, <<5, 12>>, <<127, 127>>}
=============================================================================
