----------------------------- MODULE BoundedStack ---------------------------
(***************************************************************************)
(* What a cache of synchronization objects promises to its thread, without *)
(* ring indices: the object that was given back last is reused first, and  *)
(* an object that does not fit pushes out the one that waited longest.     *)
(***************************************************************************)
EXTENDS Sequences, Naturals

CONSTANTS Owners, Capacity

VARIABLE stacks     \* one stack of objects for each owner

StacksInit == stacks = [o \in Owners |-> <<>>]

\* Some object goes on top.
Push(o) ==
  LET kept == IF Len(stacks[o]) = Capacity THEN Tail(stacks[o]) ELSE stacks[o]
  IN  /\ stacks'[o] # <<>>
      /\ stacks' = [stacks EXCEPT ![o] = Append(kept, stacks'[o][Len(stacks'[o])])]

Pop(o) ==
  /\ stacks[o] # <<>>
  /\ stacks' = [stacks EXCEPT ![o] = SubSeq(@, 1, Len(@) - 1)]

\* The thread of some stacks exits: everything in them is destroyed.
Clear(os) ==
  stacks' = [o \in Owners |-> IF o \in os THEN <<>> ELSE stacks[o]]

StacksNext ==
  \/ \E o \in Owners : Push(o) \/ Pop(o)
  \/ \E os \in SUBSET Owners : Clear(os)

StacksSpec == StacksInit /\ [][StacksNext]_stacks
=============================================================================
