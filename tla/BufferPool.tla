----------------------------- MODULE BufferPool -----------------------------
(***************************************************************************)
(* What a buffer allocator promises: it owns `count` buffers between its   *)
(* initialization and its finalization; an allocation hands out a buffer   *)
(* that nobody holds and is rejected only when there is none; finalization *)
(* with a buffer still held stops the program.                             *)
(***************************************************************************)
EXTENDS Naturals

CONSTANT MaxBuffers

VARIABLES phase,  \* "off", "on" or "dead"
          count,  \* number of buffers owned
          held    \* the buffers that were handed out

poolVars == <<phase, count, held>>

Init == phase = "off" /\ count = 0 /\ held = {}

Open ==
    /\ phase = "off"
    /\ \/ phase' = "on" /\ count' \in 1..MaxBuffers /\ UNCHANGED held
       \/ phase' = "dead" /\ UNCHANGED <<count, held>>

Take ==
    /\ phase = "on"
    /\ \E b \in (0..(count - 1)) \ held : held' = held \cup {b}
    /\ UNCHANGED <<phase, count>>

Return ==
    /\ phase = "on"
    /\ \E b \in held : held' = held \ {b}
    /\ UNCHANGED <<phase, count>>

Close ==
    /\ phase = "on"
    /\ IF held = {} THEN phase' = "off" /\ count' = 0 /\ UNCHANGED held
       ELSE phase' = "dead" /\ UNCHANGED <<count, held>>

Next == Open \/ Take \/ Return \/ Close

Spec == Init /\ [][Next]_poolVars
=============================================================================
