-------------------------- MODULE ThreadCacheProofs -------------------------
(***************************************************************************)
(* Proofs about ThreadCache, for any finite set of threads: with the       *)
(* destructor that thread_cache.h asks for, the two halves of the          *)
(* finalization of a cache neither collide nor forget anything, however    *)
(* they interleave.                                                        *)
(*                                                                         *)
(* The inductive invariant says that everything which the two halves share *)
(* is a function of how far each of them is: the thread's half is at       *)
(* pc[t], the context's half at Stage(t), and flags, memory and content of *)
(* the cache follow from these two positions.                              *)
(***************************************************************************)
EXTENDS ThreadCache, FiniteSetTheorems, TLAPS

(* Where a thread can be, and where udipe_finalize() can be.               *)
ThreadLocs  == {"idle", "register", "free_cache", "gone"} \cup ThreadHalf
ContextLocs == {"idle", "next", "free_cache", "lock_global", "destroy_global",
                "close_logger", "discard", "free_context", "gone"} \cup ContextHalf

(* udipe_finalize() is at work on the cache at its index.                  *)
AtCache == pc[Context] \in ContextHalf \cup {"free_cache"}

(* The cache of t is in the array, and udipe_finalize() has come to it.    *)
Listed(t)  == \E i \in 1 .. Len(caches) : caches[i] = t
Visited(t) == \E i \in 1 .. index : caches[i] = t

(* How far the context's half of the finalization of t's cache is: not     *)
(* begun, at a program point, or over.                                     *)
Stage(t) == IF ~Visited(t) THEN "idle"
            ELSE IF AtCache /\ caches[index] = t THEN pc[Context] ELSE "next"

(* Positions from which a half has still to see what the other one did.    *)
Undecided == {"idle", "context_dying", "await", "asleep", "reload"}
Awaiting  == {"await", "asleep", "reload", "spin"}
Spilling  == {"spill", "spilling", "thread_emptied"}
Emptied   == {"wake", "release", "free_context", "thread_done", "free_cache", "gone"}

-----------------------------------------------------------------------------
(* The inductive invariant.                                                *)

PlacesFit ==
  /\ \A t \in Threads : pc[t] \in ThreadLocs
  /\ pc[Context] \in ContextLocs
  /\ \A i, j \in 1 .. Len(caches) : caches[i] = caches[j] => i = j
  /\ pc[Context] = "idle" => index = 0
  /\ AtCache => index # 0
  /\ pc[Context] \in {"lock_global", "destroy_global", "close_logger", "discard",
                      "free_context", "gone"} => index = Len(caches)
  /\ pc[Context] # "idle" => \A t \in Threads : pc[t] # "register"

(* Each flag tells the position of one of the halves, EMPTIED that of the  *)
(* half which disposes of the content.                                     *)
FlagsFit(t) ==
  /\ "THREAD_DYING" \in flags[t] <=>
       pc[t] \in (ThreadHalf \ {"thread_dying"}) \cup {"free_cache", "gone"}
  /\ "THREAD_DONE" \in flags[t] <=> pc[t] \in {"free_cache", "gone"}
  /\ "CONTEXT_DYING" \in flags[t] <=>
       Stage(t) \in (ContextHalf \ {"context_dying"}) \cup {"free_cache", "next"}
  /\ "CONTEXT_DONE" \in flags[t] <=> Stage(t) \in {"free_cache", "next"}
  /\ "EMPTIED" \in flags[t] <=>
       \/ Stage(t) \in {"spin", "context_done", "free_cache", "next"}
       \/ Stage(t) \in Undecided /\ pc[t] \in Emptied

(* Positions that exclude each other.                                      *)
HalvesFit(t) ==
  /\ pc[t] \in Spilling => Stage(t) \in Undecided
  /\ pc[t] = "wake" => Stage(t) \in Awaiting
  /\ pc[t] = "free_cache" => Stage(t) = "next"
  /\ Stage(t) \in Awaiting => pc[t] \in Spilling \cup Emptied
  /\ Stage(t) = "free_cache" => pc[t] = "gone"

StorageFits(t) ==
  /\ t \in slot => pc[t] = "idle"
  /\ Listed(t) <=> t \in slot \/ pc[t] \in ThreadHalf \cup {"free_cache", "gone"}
  /\ memory[t] = IF ~Listed(t) THEN "none"
                 ELSE IF Stage(t) = "next" /\ pc[t] = "gone" THEN "freed" ELSE "allocated"
  /\ \/ Stage(t) = "destroy"
     \/ /\ Listed(t) /\ pc[t] \in {"idle", "thread_dying", "spill", "spilling"}
        /\ Stage(t) \in Undecided
     => content[t] = "full"

CacheFits(t) == FlagsFit(t) /\ HalvesFit(t) /\ StorageFits(t)

(* What udipe_finalize() knows of the flags may be old, never wrong.       *)
PreviousFits ==
  pc[Context] \in {"await", "asleep"} => previous[Context] \subseteq flags[caches[index]]

(* The TSS key and the context struct go with the last reference, the      *)
(* other parts of the context in the course of udipe_finalize().           *)
KeyFits ==
  /\ tss.reachable <=> pc[Context] \notin {"free_context", "gone"}
  /\ key = "deleted" <=> ~tss.reachable /\ tss.refcount = 0
  /\ "struct" \in context <=> key = "alive" \/ \E p \in Procs : pc[p] = "free_context"
  /\ \A p \in Procs : pc[p] = "free_context" => key = "deleted"
  /\ \A p, q \in Procs : pc[p] = "free_context" /\ pc[q] = "free_context" => p = q
  /\ "global_cache" \in context <=>
       pc[Context] \notin {"close_logger", "discard", "free_context", "gone"}
  /\ "logger" \in context <=> pc[Context] \notin {"discard", "free_context", "gone"}

CountFits == tss.refcount = Cardinality({t \in Threads : Unreleased(t)})

CInv ==
  /\ TypeOK
  /\ PlacesFit
  /\ \A t \in Threads : CacheFits(t)
  /\ PreviousFits
  /\ KeyFits
  /\ CountFits

-----------------------------------------------------------------------------
(* Counting slots.                                                         *)

(* The slots that count are finitely many.                                 *)
LEMMA SlotsFinite ==
  ASSUME NEW S, S \subseteq Threads
  PROVE  IsFiniteSet(S) /\ Cardinality(S) \in Nat
  BY ThreadsAssumption, FS_Subset, FS_CardinalityType

(* A step that neither creates nor releases a slot keeps the count.        *)
LEMMA CountKept ==
  ASSUME CountFits, tss'.refcount = tss.refcount,
         \A u \in Threads : Unreleased(u)' <=> Unreleased(u)
  PROVE  CountFits'
<1>1. {u \in Threads : Unreleased(u)}' = {u \in Threads : Unreleased(u)}
  OBVIOUS
<1> QED
  BY <1>1 DEF CountFits

(* A thread that creates its slot adds one...                              *)
LEMMA CountUp ==
  ASSUME CountFits, NEW t \in Threads, tss'.refcount = tss.refcount + 1,
         ~Unreleased(t), Unreleased(t)',
         \A u \in Threads \ {t} : Unreleased(u)' <=> Unreleased(u)
  PROVE  CountFits'
<1> DEFINE S == {u \in Threads : Unreleased(u)}
<1>1. {u \in Threads : Unreleased(u)}' = S \cup {t}
  OBVIOUS
<1>2. Cardinality(S \cup {t}) = Cardinality(S) + 1
  BY SlotsFinite, FS_AddElement
<1> QED
  BY <1>1, <1>2 DEF CountFits

(* ... and one that releases it removes one, which was counted.            *)
LEMMA CountDown ==
  ASSUME CountFits, NEW t \in Threads, tss'.refcount = tss.refcount - 1,
         Unreleased(t), ~Unreleased(t)',
         \A u \in Threads \ {t} : Unreleased(u)' <=> Unreleased(u)
  PROVE  CountFits'
<1> DEFINE S == {u \in Threads : Unreleased(u)}
<1>1. {u \in Threads : Unreleased(u)}' = S \ {t}
  OBVIOUS
<1>2. Cardinality(S \ {t}) = Cardinality(S) - 1
  BY SlotsFinite, FS_RemoveElement
<1> QED
  BY <1>1, <1>2 DEF CountFits

(* A slot that is not released is counted.                                 *)
LEMMA CountPositive ==
  ASSUME CountFits, NEW t \in Threads, Unreleased(t)
  PROVE  tss.refcount \in Nat /\ tss.refcount > 0
<1> DEFINE S == {u \in Threads : Unreleased(u)}
<1>1. IsFiniteSet(S) /\ Cardinality(S) \in Nat
  BY SlotsFinite
<1>2. Cardinality(S) # 0
  BY <1>1, FS_EmptySet
<1> QED
  BY <1>1, <1>2 DEF CountFits

-----------------------------------------------------------------------------
(* The position of the context's half.                                     *)

(* A step of a thread does not move it.                                    *)
LEMMA StageKept ==
  ASSUME NEW u \in Threads, UNCHANGED <<caches, index>>, pc'[Context] = pc[Context]
  PROVE  Stage(u)' = Stage(u) /\ Listed(u)' = Listed(u) /\ AtCache' = AtCache
  BY DEF Stage, Visited, AtCache, Listed

(* While udipe_finalize() works on a cache, that of the cache moves and no *)
(* other.                                                                  *)
LEMMA StageMoved ==
  ASSUME TypeOK, PlacesFit, UNCHANGED <<caches, index>>, AtCache,
         AtCache' \/ pc'[Context] = "next"
  PROVE  /\ index \in 1 .. Len(caches) /\ caches[index] \in Threads
         /\ Stage(caches[index]) = pc[Context]
         /\ Stage(caches[index])' = pc'[Context]
         /\ \A u \in Threads \ {caches[index]} : Stage(u)' = Stage(u)
         /\ \A u \in Threads : Listed(u)' = Listed(u)
         /\ Listed(caches[index])
<1>1. index \in 1 .. Len(caches) /\ caches[index] \in Threads
  BY DEF TypeOK, PlacesFit
<1>2. Visited(caches[index]) /\ Visited(caches[index])' /\ Listed(caches[index])
  BY <1>1 DEF Visited, Listed
<1>3. \A u \in Threads \ {caches[index]} : Stage(u)' = Stage(u)
  BY <1>1 DEF Stage, Visited
<1> QED
  BY <1>1, <1>2, <1>3 DEF Stage, Listed, AtCache

(* Away from the caches, it stays where it is.                             *)
LEMMA StageAway ==
  ASSUME UNCHANGED <<caches, index>>, ~AtCache, ~AtCache'
  PROVE  \A u \in Threads : Stage(u)' = Stage(u) /\ Listed(u)' = Listed(u)
  BY DEF Stage, Visited, Listed

(* After the loop over the caches it is over for each of them.             *)
LEMMA StageOver ==
  ASSUME TypeOK, PlacesFit, index = Len(caches), ~AtCache,
         NEW u \in Threads, Listed(u)
  PROVE  Stage(u) = "next"
  BY DEF Stage, Visited, Listed, TypeOK

-----------------------------------------------------------------------------
(* Frames.                                                                 *)

(* What fits a cache depends on its thread, the two positions and what the *)
(* halves share of it.                                                     *)
LEMMA CacheFrame ==
  ASSUME NEW u \in Threads, CacheFits(u),
         pc'[u] = pc[u], Stage(u)' = Stage(u), Listed(u)' <=> Listed(u),
         u \in slot' <=> u \in slot,
         flags'[u] = flags[u], memory'[u] = memory[u], content'[u] = content[u]
  PROVE  CacheFits(u)'
  BY DEF CacheFits, FlagsFit, HalvesFit, StorageFits

(***************************************************************************)
(* A step of thread t that leaves the array of caches and the other        *)
(* threads alone.                                                          *)
(***************************************************************************)
OnlyThread(t) ==
  /\ UNCHANGED <<caches, index>>
  /\ \A p \in Procs \ {t} : pc'[p] = pc[p] /\ previous'[p] = previous[p]
  /\ \A u \in Threads \ {t} : /\ flags'[u] = flags[u] /\ memory'[u] = memory[u]
                              /\ content'[u] = content[u] /\ (u \in slot' <=> u \in slot)
  /\ flags[t] \subseteq flags'[t]

LEMMA ThreadFrame ==
  ASSUME CInv, TypeOK', NEW t \in Threads, OnlyThread(t),
         pc'[t] \in ThreadLocs, pc'[t] = "register" => pc[Context] = "idle",
         CacheFits(t)', KeyFits', CountFits'
  PROVE  CInv'
<1>1. t # Context /\ Context \in Procs /\ Threads \subseteq Procs
  BY ThreadsAssumption DEF Procs
<1>2. pc'[Context] = pc[Context] /\ previous'[Context] = previous[Context]
  BY <1>1 DEF OnlyThread
<1>3. PlacesFit'
  BY <1>1, <1>2 DEF CInv, PlacesFit, OnlyThread, AtCache
<1>4. ASSUME NEW u \in Threads PROVE CacheFits(u)'
  <2>1. CASE u # t
    BY <1>1, <1>2, <1>4, <2>1, StageKept, CacheFrame DEF CInv, OnlyThread
  <2> QED
    BY <2>1
<1>5. PreviousFits'
  <2> SUFFICES ASSUME pc[Context] \in {"await", "asleep"}
               PROVE  previous[Context] \subseteq flags'[caches[index]]
    BY <1>2 DEF PreviousFits, OnlyThread
  <2>1. AtCache /\ caches[index] \in Threads
    BY DEF CInv, TypeOK, PlacesFit, AtCache, ContextHalf
  <2>2. previous[Context] \subseteq flags[caches[index]]
    BY DEF CInv, PreviousFits
  <2> QED
    BY <2>1, <2>2 DEF OnlyThread
<1> QED
  BY <1>3, <1>4, <1>5 DEF CInv

(***************************************************************************)
(* A step of udipe_finalize() within the context's half, on the cache of   *)
(* thread u.                                                               *)
(***************************************************************************)
OnlyHalf ==
  /\ UNCHANGED <<caches, index, slot, tss, key, context>>
  /\ \A t \in Threads : pc'[t] = pc[t]
  /\ \A t \in Threads \ {caches[index]} : /\ flags'[t] = flags[t] /\ memory'[t] = memory[t]
                                          /\ content'[t] = content[t]

LEMMA HalfFrame ==
  ASSUME CInv, TypeOK', AtCache, OnlyHalf, AtCache' \/ pc'[Context] = "next",
         CacheFits(caches[index])', PreviousFits'
  PROVE  CInv'
<1>1. \A t \in Threads : t \in Procs /\ t # Context
  BY ThreadsAssumption DEF Procs
<1>2. pc[Context] \in ContextHalf \cup {"free_cache"} /\ pc'[Context] \in ContextHalf \cup {"free_cache", "next"}
  BY DEF AtCache
<1>3. PlacesFit'
  BY <1>2 DEF CInv, PlacesFit, OnlyHalf, AtCache, ContextLocs, ContextHalf
<1>4. ASSUME NEW t \in Threads, t # caches[index] PROVE CacheFits(t)'
  BY <1>4, StageMoved, CacheFrame DEF CInv, OnlyHalf
<1>5. KeyFits'
  BY <1>1, <1>2 DEF CInv, KeyFits, OnlyHalf, Procs, ContextHalf
<1>6. CountFits'
  BY CountKept DEF CInv, OnlyHalf, Unreleased
<1> QED
  BY <1>3, <1>4, <1>5, <1>6 DEF CInv, OnlyHalf

(* A step of a thread that leaves the reference count alone.               *)
LEMMA QuietFrame ==
  ASSUME CInv, TypeOK', NEW t \in Threads, OnlyThread(t), UNCHANGED <<tss, key, context>>,
         pc'[t] \in ThreadLocs, pc'[t] # "register",
         pc[t] # "free_context", pc'[t] # "free_context",
         Unreleased(t)' <=> Unreleased(t), CacheFits(t)'
  PROVE  CInv'
<1>1. t # Context /\ Context \in Procs /\ Threads \subseteq Procs
  BY ThreadsAssumption DEF Procs
<1>2. \A u \in Threads \ {t} : Unreleased(u)' <=> Unreleased(u)
  BY <1>1 DEF OnlyThread, Unreleased
<1>3. CountFits'
  BY <1>2, CountKept DEF CInv
<1>4. KeyFits'
  BY <1>1 DEF CInv, KeyFits, OnlyThread
<1> QED
  BY <1>3, <1>4, ThreadFrame

-----------------------------------------------------------------------------
(* The steps of a thread.                                                  *)

(* Facts that every step of a thread starts from.                          *)
LEMMA ThreadFacts ==
  ASSUME CInv, NEW t \in Threads
  PROVE  /\ t # Context /\ t \in Procs /\ Context \in Procs /\ Target(t) = t
         /\ TypeOK /\ CacheFits(t) /\ pc[t] \in ThreadLocs
         /\ Stage(t) \in ContextHalf \cup {"idle", "free_cache", "next"}
<1>1. Stage(t) \in ContextHalf \cup {"idle", "free_cache", "next"}
  BY DEF Stage, AtCache
<1> QED
  BY <1>1, ThreadsAssumption DEF CInv, PlacesFit, Procs, Target

LEMMA CreateSlotStep ==
  ASSUME CInv, NEW t \in Threads, CreateSlot(t)
  PROVE  CInv'
<1> USE DEF CreateSlot, Goto, sharedVars
<1>1. TypeOK'
  BY ThreadFacts DEF TypeOK, Locs
<1>2. OnlyThread(t) /\ pc'[t] = "register" /\ pc'[Context] = "idle" /\ pc[Context] = "idle"
  BY ThreadFacts DEF TypeOK, OnlyThread
<1>3. CacheFits(t)'
  BY <1>2, StageKept, ThreadFacts
  DEF CacheFits, FlagsFit, HalvesFit, StorageFits, ThreadHalf, Spilling, Emptied, Awaiting
<1>4. KeyFits'
  BY <1>2, ThreadFacts DEF CInv, KeyFits, TypeOK
<1>5. CountFits'
  <2>1. ~Unreleased(t) /\ Unreleased(t)' /\ tss'.refcount = tss.refcount + 1
    BY <1>2, ThreadFacts DEF Unreleased, TypeOK
  <2>2. \A u \in Threads \ {t} : Unreleased(u)' <=> Unreleased(u)
    BY <1>2, ThreadFacts DEF Unreleased, TypeOK
  <2> QED
    BY <2>1, <2>2, CountUp DEF CInv
<1> QED
  BY <1>1, <1>2, <1>3, <1>4, <1>5, ThreadFrame DEF ThreadLocs

(* The thread exits with its slot, so that the key is alive.               *)
LEMMA ThreadExitStep ==
  ASSUME CInv, Destructor = "from_thread", NEW t \in Threads, ThreadExit(t)
  PROVE  CInv'
<1> USE DEF ThreadExit, Goto, sharedVars
<1>1. key # "deleted"
  BY CountPositive DEF CInv, KeyFits, Unreleased
<1>2. TypeOK'
  BY ThreadFacts DEF TypeOK, Locs, ThreadHalf
<1>3. OnlyThread(t) /\ pc'[t] = "thread_dying" /\ pc[t] = "idle" /\ t \in slot /\ t \notin slot'
  BY <1>1, ThreadFacts DEF TypeOK, OnlyThread
<1>4. CacheFits(t)'
  BY <1>3, StageKept, ThreadFacts
  DEF CacheFits, FlagsFit, HalvesFit, StorageFits, ThreadHalf, Spilling, Emptied, Awaiting
<1> QED
  BY <1>2, <1>3, <1>4, QuietFrame DEF ThreadLocs, ThreadHalf, Unreleased

(* The thread's half raises THREAD_DYING.                                  *)
LEMMA MarkThreadDyingStep ==
  ASSUME CInv, NEW t \in Threads, MarkThreadDying(t)
  PROVE  CInv'
<1> USE DEF MarkThreadDying, FetchOr, Goto, sharedVars, contextVars
<1>1. TypeOK'
  BY ThreadFacts DEF TypeOK, Locs, ThreadHalf, Flags
<1>2. /\ OnlyThread(t) /\ pc[t] = "thread_dying"
      /\ pc'[t] = IF "CONTEXT_DYING" \in flags[t] THEN "release" ELSE "spill"
      /\ flags'[t] = flags[t] \cup {"THREAD_DYING"}
  BY ThreadFacts DEF TypeOK, OnlyThread
<1>3. CacheFits(t)'
  BY <1>2, StageKept, ThreadFacts
  DEF CacheFits, FlagsFit, HalvesFit, StorageFits, ThreadHalf, ContextHalf, Spilling,
      Emptied, Awaiting, Undecided
<1> QED
  BY <1>1, <1>2, <1>3, QuietFrame DEF ThreadLocs, ThreadHalf, Unreleased

(* The thread takes the mutex of the context cache...                      *)
LEMMA SpillLockStep ==
  ASSUME CInv, NEW t \in Threads, SpillLock(t)
  PROVE  CInv'
<1> USE DEF SpillLock, Goto, sharedVars
<1>1. TypeOK'
  BY ThreadFacts DEF TypeOK, Locs, ThreadHalf
<1>2. OnlyThread(t) /\ pc[t] = "spill" /\ pc'[t] = "spilling"
  BY ThreadFacts DEF TypeOK, OnlyThread
<1>3. CacheFits(t)'
  BY <1>2, StageKept, ThreadFacts
  DEF CacheFits, FlagsFit, HalvesFit, StorageFits, ThreadHalf, Spilling, Emptied, Awaiting
<1> QED
  BY <1>1, <1>2, <1>3, QuietFrame DEF ThreadLocs, ThreadHalf, Unreleased

(* ... moves its content to the global cache...                            *)
LEMMA SpillStep ==
  ASSUME CInv, NEW t \in Threads, Spill(t)
  PROVE  CInv'
<1> USE DEF Spill, Goto
<1>1. TypeOK'
  BY ThreadFacts DEF TypeOK, Locs, ThreadHalf
<1>2. OnlyThread(t) /\ pc[t] = "spilling" /\ pc'[t] = "thread_emptied"
  BY ThreadFacts DEF TypeOK, OnlyThread
<1>3. CacheFits(t)'
  BY <1>2, StageKept, ThreadFacts
  DEF CacheFits, FlagsFit, HalvesFit, StorageFits, ThreadHalf, Spilling, Emptied,
      Awaiting, Undecided
<1> QED
  BY <1>1, <1>2, <1>3, QuietFrame DEF ThreadLocs, ThreadHalf, Unreleased

(* ... and says so.                                                        *)
LEMMA MarkThreadEmptiedStep ==
  ASSUME CInv, NEW t \in Threads, MarkThreadEmptied(t)
  PROVE  CInv'
<1> USE DEF MarkThreadEmptied, FetchOr, Goto, sharedVars, contextVars
<1>1. TypeOK'
  BY ThreadFacts DEF TypeOK, Locs, ThreadHalf, Flags
<1>2. /\ OnlyThread(t) /\ pc[t] = "thread_emptied"
      /\ pc'[t] = IF "CONTEXT_DYING" \in flags[t] THEN "wake" ELSE "release"
      /\ flags'[t] = flags[t] \cup {"EMPTIED"}
  BY ThreadFacts DEF TypeOK, OnlyThread
<1>3. CacheFits(t)'
  BY <1>2, StageKept, ThreadFacts
  DEF CacheFits, FlagsFit, HalvesFit, StorageFits, ThreadHalf, ContextHalf, Spilling,
      Emptied, Awaiting, Undecided
<1> QED
  BY <1>1, <1>2, <1>3, QuietFrame DEF ThreadLocs, ThreadHalf, Unreleased

(* The reference is released; the last one takes the key along.            *)
LEMMA ReleaseStep ==
  ASSUME CInv, NEW t \in Threads, Release(t)
  PROVE  CInv'
<1> USE DEF Release, Goto, sharedVars
<1>1. pc[t] = "release" /\ Unreleased(t) /\ tss.refcount \in Nat /\ tss.refcount > 0
  BY CountPositive DEF CInv, Unreleased
<1>2. TypeOK'
  BY <1>1, ThreadFacts DEF TypeOK, Locs, ThreadHalf
<1>3. /\ OnlyThread(t) /\ pc'[Context] = pc[Context]
      /\ pc'[t] = IF tss.refcount = 1 /\ ~tss.reachable THEN "free_context" ELSE "thread_done"
      /\ tss'.refcount = tss.refcount - 1 /\ tss'.reachable = tss.reachable
      /\ key' = IF tss.refcount = 1 /\ ~tss.reachable THEN "deleted" ELSE key
  BY ThreadFacts DEF TypeOK, OnlyThread
<1>4. CacheFits(t)'
  BY <1>1, <1>3, StageKept, ThreadFacts
  DEF CacheFits, FlagsFit, HalvesFit, StorageFits, ThreadHalf, ContextHalf, Spilling,
      Emptied, Awaiting, Undecided
<1>5. KeyFits'
  <2>1. key = "alive" /\ \A p \in Procs : pc[p] # "free_context"
    BY <1>1, ThreadFacts DEF CInv, KeyFits, TypeOK
  <2>2. \A p \in Procs \ {t} : pc'[p] = pc[p]
    BY <1>3 DEF OnlyThread
  <2> QED
    BY <1>1, <1>3, <2>1, <2>2, ThreadFacts DEF CInv, KeyFits, TypeOK
<1>6. CountFits'
  <2>1. ~Unreleased(t)'
    BY <1>1, <1>3, ThreadFacts DEF Unreleased, CacheFits, StorageFits
  <2>2. \A u \in Threads \ {t} : Unreleased(u)' <=> Unreleased(u)
    BY <1>3, ThreadFacts DEF Unreleased, OnlyThread, Procs
  <2> QED
    BY <1>1, <1>3, <2>1, <2>2, CountDown DEF CInv
<1> QED
  BY <1>2, <1>3, <1>4, <1>5, <1>6, ThreadFrame DEF ThreadLocs, ThreadHalf

(* The thread's half is over.                                              *)
LEMMA MarkThreadDoneStep ==
  ASSUME CInv, NEW t \in Threads, MarkThreadDone(t)
  PROVE  CInv'
<1> USE DEF MarkThreadDone, FetchOr, Goto, sharedVars, contextVars
<1>1. TypeOK'
  BY ThreadFacts DEF TypeOK, Locs, ThreadHalf, Flags
<1>2. /\ OnlyThread(t) /\ pc[t] = "thread_done"
      /\ pc'[t] = IF "CONTEXT_DONE" \in flags[t] THEN "free_cache" ELSE "gone"
      /\ flags'[t] = flags[t] \cup {"THREAD_DONE"}
  BY ThreadFacts DEF TypeOK, OnlyThread
<1>3. CacheFits(t)'
  BY <1>2, StageKept, ThreadFacts
  DEF CacheFits, FlagsFit, HalvesFit, StorageFits, ThreadHalf, ContextHalf, Spilling,
      Emptied, Awaiting, Undecided
<1> QED
  BY <1>1, <1>2, <1>3, QuietFrame DEF ThreadLocs, ThreadHalf, Unreleased

(* The thread frees its cache, because the context was done before it.     *)
LEMMA ThreadFreesCache ==
  ASSUME CInv, NEW t \in Threads, FreeCache(t)
  PROVE  CInv'
<1> USE DEF FreeCache, Afterwards, Goto, contextVars
<1>1. TypeOK'
  BY ThreadFacts DEF TypeOK, Locs
<1>2. OnlyThread(t) /\ pc[t] = "free_cache" /\ pc'[t] = "gone" /\ memory'[t] = "freed"
  BY ThreadFacts DEF TypeOK, OnlyThread
<1>3. CacheFits(t)'
  BY <1>2, StageKept, ThreadFacts
  DEF CacheFits, FlagsFit, HalvesFit, StorageFits, ThreadHalf, ContextHalf, Spilling,
      Emptied, Awaiting, Undecided
<1> QED
  BY <1>1, <1>2, <1>3, QuietFrame DEF ThreadLocs, ThreadHalf, Unreleased

(* The thread frees the context, because it released the last reference.   *)
LEMMA ThreadFreesContext ==
  ASSUME CInv, NEW t \in Threads, FreeContext(t)
  PROVE  CInv'
<1> USE DEF FreeContext, Goto, sharedVars
<1>1. TypeOK'
  BY ThreadFacts DEF TypeOK, Locs, ThreadHalf
<1>2. OnlyThread(t) /\ pc[t] = "free_context" /\ pc'[t] = "thread_done" /\ pc'[Context] = pc[Context]
  BY ThreadFacts DEF TypeOK, OnlyThread
<1>3. CacheFits(t)'
  BY <1>2, StageKept, ThreadFacts
  DEF CacheFits, FlagsFit, HalvesFit, StorageFits, ThreadHalf, ContextHalf, Spilling,
      Emptied, Awaiting, Undecided
<1>4. KeyFits'
  <2>1. key = "deleted" /\ \A p \in Procs \ {t} : pc[p] # "free_context" /\ pc'[p] = pc[p]
    BY <1>2, ThreadFacts DEF CInv, KeyFits, OnlyThread
  <2> QED
    BY <1>2, <2>1, ThreadFacts DEF CInv, KeyFits
<1>5. CountFits'
  <2>1. \A u \in Threads : Unreleased(u)' <=> Unreleased(u)
    BY <1>2, ThreadFacts DEF Unreleased, OnlyThread, Procs
  <2> QED
    BY <2>1, CountKept DEF CInv
<1> QED
  BY <1>1, <1>2, <1>3, <1>4, <1>5, ThreadFrame DEF ThreadLocs, ThreadHalf

(***************************************************************************)
(* The first use of the context by a thread.  udipe_finalize() has not     *)
(* begun, so that the array may grow.                                      *)
(***************************************************************************)
LEMMA RegisterStep ==
  ASSUME CInv, NEW t \in Threads, Register(t)
  PROVE  CInv'
<1> USE DEF Register, Goto
<1>1. TypeOK'
  <2>1. Append(caches, t) \in Seq(Threads) /\ Len(Append(caches, t)) = Len(caches) + 1
    BY DEF CInv, TypeOK
  <2> QED
    BY <2>1, ThreadFacts DEF TypeOK, Locs
<1>2. /\ pc[t] = "register" /\ pc'[t] = "idle" /\ pc[Context] = "idle" /\ index = 0
      /\ \A p \in Procs \ {t} : pc'[p] = pc[p]
  BY ThreadFacts DEF CInv, PlacesFit, TypeOK
<1>3. ~Listed(t) /\ t \notin slot
  BY <1>2, ThreadFacts DEF CacheFits, StorageFits, ThreadHalf
<1>4. /\ Len(caches') = Len(caches) + 1 /\ caches'[Len(caches) + 1] = t
      /\ \A i \in 1 .. Len(caches) : caches'[i] = caches[i]
  BY DEF CInv, TypeOK
<1>5. Len(caches) \in Nat /\ caches \in Seq(Threads)
  BY DEF CInv, TypeOK
<1>6. \A u \in Threads : Stage(u) = "idle" /\ Stage(u)' = "idle"
  BY <1>2 DEF Stage, Visited
<1>7. Listed(t)' /\ \A u \in Threads \ {t} : Listed(u)' <=> Listed(u)
  BY <1>4, <1>5 DEF Listed
<1>8. PlacesFit'
  <2>1. ASSUME NEW i \in 1 .. Len(caches'), NEW j \in 1 .. Len(caches'),
               caches'[i] = caches'[j]
        PROVE  i = j
    BY <1>3, <1>4, <1>5, <2>1 DEF CInv, PlacesFit, Listed
  <2>2. /\ \A u \in Threads : pc'[u] \in ThreadLocs
        /\ pc'[Context] = "idle" /\ index' = 0 /\ ~AtCache'
    BY <1>2, ThreadFacts DEF CInv, PlacesFit, ThreadLocs, Procs, AtCache, ContextHalf
  <2> QED
    BY <2>1, <2>2 DEF PlacesFit, ContextLocs
<1>9. ASSUME NEW u \in Threads PROVE CacheFits(u)'
  <2>1. CASE u # t
    BY <1>2, <1>6, <1>7, <2>1, CacheFrame DEF CInv, TypeOK, Procs
  <2>2. CASE u = t
    BY <1>2, <1>3, <1>6, <1>7, <2>2, ThreadFacts
    DEF CacheFits, FlagsFit, HalvesFit, StorageFits, ThreadHalf, ContextHalf, Spilling,
        Emptied, Awaiting, Undecided, TypeOK
  <2> QED
    BY <2>1, <2>2
<1>10. PreviousFits' /\ KeyFits'
  BY <1>2, ThreadFacts DEF CInv, PreviousFits, KeyFits
<1>11. CountFits'
  <2>1. \A u \in Threads : Unreleased(u)' <=> Unreleased(u)
    BY <1>2, ThreadFacts DEF Unreleased, Procs
  <2> QED
    BY <2>1, CountKept DEF CInv
<1> QED
  BY <1>1, <1>8, <1>9, <1>10, <1>11 DEF CInv

(* The thread wakes udipe_finalize() if that is asleep on its cache.       *)
LEMMA WakeStep ==
  ASSUME CInv, NEW t \in Threads, Wake(t)
  PROVE  CInv'
<1> USE DEF Wake, sharedVars, contextVars
<1>1. TypeOK'
  BY ThreadFacts DEF TypeOK, Locs, ThreadHalf, ContextHalf
<1>2. /\ pc[t] = "wake" /\ pc'[t] = "release"
      /\ \A u \in Threads \ {t} : pc'[u] = pc[u]
  <2>1. \A u \in Threads : pc[u] # "asleep"
    BY DEF CInv, PlacesFit, ThreadLocs, ThreadHalf
  <2> QED
    BY <2>1, ThreadFacts DEF Procs
<1>3. CASE pc'[Context] = pc[Context]
  <2>1. OnlyThread(t)
    BY <1>2, <1>3, ThreadFacts DEF OnlyThread, Procs
  <2>2. CacheFits(t)'
    BY <1>2, <1>3, StageKept, ThreadFacts
    DEF CacheFits, FlagsFit, HalvesFit, StorageFits, ThreadHalf, ContextHalf, Spilling,
        Emptied, Awaiting, Undecided
  <2> QED
    BY <1>1, <1>2, <2>1, <2>2, QuietFrame DEF ThreadLocs, ThreadHalf, Unreleased
<1>4. CASE pc'[Context] # pc[Context]
  <2>1. pc[Context] = "asleep" /\ pc'[Context] = "reload" /\ caches[index] = t /\ AtCache /\ AtCache'
    BY <1>4, ThreadFacts DEF Target, AtCache, ContextHalf
  <2>2. CacheFits(t)'
    BY <1>2, <2>1, StageMoved, ThreadFacts
    DEF CInv, CacheFits, FlagsFit, HalvesFit, StorageFits, ThreadHalf, ContextHalf, Spilling,
        Emptied, Awaiting, Undecided
  <2>3. ASSUME NEW u \in Threads, u # t PROVE CacheFits(u)'
    BY <1>2, <2>1, <2>3, StageMoved, CacheFrame DEF CInv
  <2>4. PlacesFit' /\ PreviousFits'
    BY <1>2, <2>1 DEF CInv, PlacesFit, PreviousFits, AtCache, ThreadLocs, ThreadHalf,
       ContextLocs, ContextHalf
  <2>5. KeyFits'
    BY <1>2, <2>1, ThreadFacts DEF CInv, KeyFits, Procs
  <2>6. CountFits'
    BY <1>2, CountKept, ThreadFacts DEF CInv, Unreleased, CacheFits, StorageFits
  <2> QED
    BY <1>1, <2>2, <2>3, <2>4, <2>5, <2>6 DEF CInv
<1> QED
  BY <1>3, <1>4

-----------------------------------------------------------------------------
(* The steps of udipe_finalize() on a cache.                               *)

(* Facts that every such step starts from.                                 *)
LEMMA HalfFacts ==
  ASSUME CInv, AtCache
  PROVE  /\ TypeOK /\ Context \in Procs /\ Target(Context) = caches[index]
         /\ index \in 1 .. Len(caches) /\ caches[index] \in Threads
         /\ Threads \subseteq Procs /\ Context \notin Threads
         /\ CacheFits(caches[index]) /\ pc[caches[index]] \in ThreadLocs
         /\ Stage(caches[index]) = pc[Context] /\ Listed(caches[index])
<1>1. index \in 1 .. Len(caches) /\ caches[index] \in Threads
  BY DEF CInv, TypeOK, PlacesFit
<1>2. Visited(caches[index]) /\ Listed(caches[index])
  BY <1>1 DEF Visited, Listed
<1> QED
  BY <1>1, <1>2, ThreadsAssumption DEF CInv, PlacesFit, Procs, Target, Stage

LEMMA MarkContextDyingStep ==
  ASSUME CInv, MarkContextDying(Context)
  PROVE  CInv'
<1> USE DEF MarkContextDying, FetchOr, Goto, sharedVars, contextVars
<1>0. AtCache
  BY DEF AtCache, ContextHalf
<1>1. TypeOK'
  BY <1>0, HalfFacts DEF TypeOK, Locs, ContextHalf, Flags
<1>2. /\ OnlyHalf /\ AtCache' /\ pc[Context] = "context_dying"
      /\ pc'[Context] = IF "THREAD_DYING" \in flags[caches[index]] THEN "await" ELSE "destroy"
      /\ flags'[caches[index]] = flags[caches[index]] \cup {"CONTEXT_DYING"}
      /\ previous'[Context] = flags[caches[index]]
  BY <1>0, HalfFacts DEF TypeOK, OnlyHalf, AtCache, ContextHalf
<1>3. CacheFits(caches[index])'
  BY <1>0, <1>2, StageMoved, HalfFacts
  DEF CInv, OnlyHalf, CacheFits, FlagsFit, HalvesFit, StorageFits, ThreadHalf, ContextHalf,
      ThreadLocs, Spilling, Emptied, Awaiting, Undecided
<1>4. PreviousFits'
  BY <1>2 DEF PreviousFits, OnlyHalf
<1> QED
  BY <1>0, <1>1, <1>2, <1>3, <1>4, HalfFrame

(* The context's half destroys the content, which nobody else touches...   *)
LEMMA DestroyStep ==
  ASSUME CInv, Destroy(Context)
  PROVE  CInv'
<1> USE DEF Destroy, Goto, contextVars
<1>0. AtCache
  BY DEF AtCache, ContextHalf
<1>1. TypeOK'
  BY <1>0, HalfFacts DEF TypeOK, Locs, ContextHalf, Flags
<1>2. /\ OnlyHalf /\ AtCache'
      /\ pc[Context] = "destroy" /\ pc'[Context] = "context_emptied"
  BY <1>0, HalfFacts DEF TypeOK, OnlyHalf, AtCache, ContextHalf
<1>3. CacheFits(caches[index])'
  BY <1>0, <1>2, StageMoved, HalfFacts
  DEF CInv, OnlyHalf, CacheFits, FlagsFit, HalvesFit, StorageFits, ThreadHalf, ContextHalf,
      ThreadLocs, Spilling, Emptied, Awaiting, Undecided
<1>4. PreviousFits'
  BY <1>2 DEF PreviousFits
<1> QED
  BY <1>0, <1>1, <1>2, <1>3, <1>4, HalfFrame

(* ... and says so.                                                        *)
LEMMA MarkContextEmptiedStep ==
  ASSUME CInv, MarkContextEmptied(Context)
  PROVE  CInv'
<1> USE DEF MarkContextEmptied, Goto, FetchOr, sharedVars, contextVars
<1>0. AtCache
  BY DEF AtCache, ContextHalf
<1>1. TypeOK'
  BY <1>0, HalfFacts DEF TypeOK, Locs, ContextHalf, Flags
<1>2. /\ OnlyHalf /\ AtCache'
      /\ pc[Context] = "context_emptied" /\ pc'[Context] = "context_done"
      /\ flags'[caches[index]] = flags[caches[index]] \cup {"EMPTIED"}
  BY <1>0, HalfFacts DEF TypeOK, OnlyHalf, AtCache, ContextHalf
<1>3. CacheFits(caches[index])'
  BY <1>0, <1>2, StageMoved, HalfFacts
  DEF CInv, OnlyHalf, CacheFits, FlagsFit, HalvesFit, StorageFits, ThreadHalf, ContextHalf,
      ThreadLocs, Spilling, Emptied, Awaiting, Undecided
<1>4. PreviousFits'
  BY <1>2 DEF PreviousFits
<1> QED
  BY <1>0, <1>1, <1>2, <1>3, <1>4, HalfFrame

(* One round of its wait for the thread...                                 *)
LEMMA AwaitStep ==
  ASSUME CInv, Await(Context)
  PROVE  CInv'
<1> USE DEF Await, Goto, sharedVars, contextVars
<1>0. AtCache
  BY DEF AtCache, ContextHalf
<1>1. TypeOK'
  BY <1>0, HalfFacts DEF TypeOK, Locs, ContextHalf, Flags
<1>2. /\ OnlyHalf /\ AtCache' /\ UNCHANGED <<flags, previous>>
      /\ pc[Context] = "await" /\ pc'[Context] \in {"spin", "asleep", "reload"}
      /\ pc'[Context] = "spin" => "EMPTIED" \in previous[Context]
      /\ previous[Context] \subseteq flags[caches[index]]
  BY <1>0, HalfFacts DEF CInv, PreviousFits, TypeOK, OnlyHalf, AtCache, ContextHalf
<1>3. CacheFits(caches[index])'
  BY <1>0, <1>2, StageMoved, HalfFacts
  DEF CInv, OnlyHalf, CacheFits, FlagsFit, HalvesFit, StorageFits, ThreadHalf, ContextHalf,
      ThreadLocs, Spilling, Emptied, Awaiting, Undecided
<1>4. PreviousFits'
  BY <1>2 DEF PreviousFits, OnlyHalf
<1> QED
  BY <1>0, <1>1, <1>2, <1>3, <1>4, HalfFrame

(* ... which a signal interrupts...                                        *)
LEMMA InterruptedStep ==
  ASSUME CInv, Interrupted(Context)
  PROVE  CInv'
<1> USE DEF Interrupted, Goto, sharedVars, contextVars
<1>0. AtCache
  BY DEF AtCache, ContextHalf
<1>1. TypeOK'
  BY <1>0, HalfFacts DEF TypeOK, Locs, ContextHalf, Flags
<1>2. /\ OnlyHalf /\ AtCache' /\ UNCHANGED <<flags, previous>>
      /\ pc[Context] = "asleep" /\ pc'[Context] = "await"
  BY <1>0, HalfFacts DEF TypeOK, OnlyHalf, AtCache, ContextHalf
<1>3. CacheFits(caches[index])'
  BY <1>0, <1>2, StageMoved, HalfFacts
  DEF CInv, OnlyHalf, CacheFits, FlagsFit, HalvesFit, StorageFits, ThreadHalf, ContextHalf,
      ThreadLocs, Spilling, Emptied, Awaiting, Undecided
<1>4. PreviousFits'
  BY <1>2 DEF CInv, PreviousFits, OnlyHalf
<1> QED
  BY <1>0, <1>1, <1>2, <1>3, <1>4, HalfFrame

(* ... with a fresh copy of the flags...                                   *)
LEMMA ReloadStep ==
  ASSUME CInv, Reload(Context)
  PROVE  CInv'
<1> USE DEF Reload, Goto, sharedVars, contextVars
<1>0. AtCache
  BY DEF AtCache, ContextHalf
<1>1. TypeOK'
  BY <1>0, HalfFacts DEF TypeOK, Locs, ContextHalf, Flags
<1>2. /\ OnlyHalf /\ AtCache' /\ UNCHANGED flags
      /\ pc[Context] = "reload" /\ pc'[Context] = "await"
      /\ previous'[Context] = flags[caches[index]]
  BY <1>0, HalfFacts DEF TypeOK, OnlyHalf, AtCache, ContextHalf
<1>3. CacheFits(caches[index])'
  BY <1>0, <1>2, StageMoved, HalfFacts
  DEF CInv, OnlyHalf, CacheFits, FlagsFit, HalvesFit, StorageFits, ThreadHalf, ContextHalf,
      ThreadLocs, Spilling, Emptied, Awaiting, Undecided
<1>4. PreviousFits'
  BY <1>2 DEF PreviousFits, OnlyHalf
<1> QED
  BY <1>0, <1>1, <1>2, <1>3, <1>4, HalfFrame

(* ... until the thread has left the cache.                                *)
LEMMA SpinStep ==
  ASSUME CInv, Spin(Context)
  PROVE  CInv'
<1> USE DEF Spin, Goto, sharedVars, contextVars
<1>0. AtCache
  BY DEF AtCache, ContextHalf
<1>1. TypeOK'
  BY <1>0, HalfFacts DEF TypeOK, Locs, ContextHalf, Flags
<1>2. /\ OnlyHalf /\ AtCache' /\ UNCHANGED flags
      /\ pc[Context] = "spin"
      /\ pc'[Context] = IF "THREAD_DONE" \in flags[caches[index]] THEN "context_done" ELSE "spin"
  BY <1>0, HalfFacts DEF TypeOK, OnlyHalf, AtCache, ContextHalf
<1>3. CacheFits(caches[index])'
  BY <1>0, <1>2, StageMoved, HalfFacts
  DEF CInv, OnlyHalf, CacheFits, FlagsFit, HalvesFit, StorageFits, ThreadHalf, ContextHalf,
      ThreadLocs, Spilling, Emptied, Awaiting, Undecided
<1>4. PreviousFits'
  BY <1>2 DEF PreviousFits
<1> QED
  BY <1>0, <1>1, <1>2, <1>3, <1>4, HalfFrame

(* The context's half is over.                                             *)
LEMMA MarkContextDoneStep ==
  ASSUME CInv, MarkContextDone(Context)
  PROVE  CInv'
<1> USE DEF MarkContextDone, Goto, FetchOr, Afterwards, sharedVars, contextVars
<1>0. AtCache
  BY DEF AtCache, ContextHalf
<1>1. TypeOK'
  BY <1>0, HalfFacts DEF TypeOK, Locs, ContextHalf, Flags
<1>2. /\ OnlyHalf /\ (AtCache' \/ pc'[Context] = "next")
      /\ pc[Context] = "context_done"
      /\ pc'[Context] = IF "THREAD_DONE" \in flags[caches[index]] THEN "free_cache" ELSE "next"
      /\ flags'[caches[index]] = flags[caches[index]] \cup {"CONTEXT_DONE"}
  BY <1>0, HalfFacts DEF TypeOK, OnlyHalf, AtCache, ContextHalf
<1>3. CacheFits(caches[index])'
  BY <1>0, <1>2, StageMoved, HalfFacts
  DEF CInv, OnlyHalf, CacheFits, FlagsFit, HalvesFit, StorageFits, ThreadHalf, ContextHalf,
      ThreadLocs, Spilling, Emptied, Awaiting, Undecided
<1>4. PreviousFits'
  BY <1>2 DEF PreviousFits
<1> QED
  BY <1>0, <1>1, <1>2, <1>3, <1>4, HalfFrame

(* udipe_finalize() frees the cache, because the thread was done before it.*)
LEMMA ContextFreesCache ==
  ASSUME CInv, FreeCache(Context)
  PROVE  CInv'
<1> USE DEF FreeCache, Goto, Afterwards, contextVars
<1>0. AtCache
  BY DEF AtCache, ContextHalf
<1>1. TypeOK'
  BY <1>0, HalfFacts DEF TypeOK, Locs
<1>2. /\ OnlyHalf /\ pc'[Context] = "next"
      /\ pc[Context] = "free_cache" /\ memory'[caches[index]] = "freed"
  BY <1>0, HalfFacts DEF TypeOK, OnlyHalf, AtCache, ContextHalf
<1>3. CacheFits(caches[index])'
  BY <1>0, <1>2, StageMoved, HalfFacts
  DEF CInv, OnlyHalf, CacheFits, FlagsFit, HalvesFit, StorageFits, ThreadHalf, ContextHalf,
      ThreadLocs, Spilling, Emptied, Awaiting, Undecided
<1>4. PreviousFits'
  BY <1>2 DEF PreviousFits
<1> QED
  BY <1>0, <1>1, <1>2, <1>3, <1>4, HalfFrame

-----------------------------------------------------------------------------
(* The other steps of udipe_finalize().                                    *)

(* They move udipe_finalize() and nothing else that belongs to a cache.    *)
OnlyContext ==
  /\ UNCHANGED <<flags, content, memory, caches, slot, previous>>
  /\ tss'.refcount = tss.refcount
  /\ \A t \in Threads : pc'[t] = pc[t]

LEMMA ContextFacts ==
  ASSUME CInv
  PROVE  /\ TypeOK /\ Context \in Procs /\ Threads \subseteq Procs /\ Context \notin Threads
         /\ \A t \in Threads : t \in Procs /\ t # Context
  BY ThreadsAssumption DEF CInv, Procs

LEMMA ContextFrame ==
  ASSUME CInv, TypeOK', OnlyContext, index' = index, ~AtCache, ~AtCache',
         PlacesFit', KeyFits'
  PROVE  CInv'
<1>1. ASSUME NEW t \in Threads PROVE CacheFits(t)'
  BY <1>1, StageAway, CacheFrame DEF CInv, OnlyContext
<1>2. PreviousFits'
  BY DEF PreviousFits, AtCache, ContextHalf
<1>3. CountFits'
  BY CountKept DEF CInv, OnlyContext, Unreleased
<1> QED
  BY <1>1, <1>2, <1>3 DEF CInv

(* udipe_finalize() begins, with nobody left in another call.              *)
LEMMA FinalizeStartStep ==
  ASSUME CInv, Finalize
  PROVE  CInv'
<1> USE DEF Finalize, Goto, sharedVars, contextVars
<1>1. TypeOK' /\ OnlyContext
  BY ContextFacts DEF TypeOK, Locs, OnlyContext
<1>2. pc[Context] = "idle" /\ pc'[Context] = "next" /\ ~AtCache /\ ~AtCache'
  BY ContextFacts DEF TypeOK, AtCache, ContextHalf
<1>3. PlacesFit'
  BY <1>1, <1>2 DEF CInv, PlacesFit, ContextLocs, OnlyContext
<1>4. KeyFits'
  BY <1>1, <1>2, ContextFacts DEF CInv, KeyFits, Procs, OnlyContext
<1> QED
  BY <1>1, <1>2, <1>3, <1>4, ContextFrame

(* The loop over the caches comes to the next one, or ends.                *)
LEMMA NextCacheStep ==
  ASSUME CInv, NextCache
  PROVE  CInv'
<1> USE DEF NextCache, Goto, sharedVars, contextVars
<1>1. TypeOK' /\ OnlyContext /\ pc[Context] = "next" /\ ~AtCache
  BY ContextFacts DEF TypeOK, Locs, ContextHalf, OnlyContext, AtCache
<1>2. CASE ~(index < Len(caches))
  <2>1. index' = index /\ index = Len(caches) /\ pc'[Context] = "lock_global" /\ ~AtCache'
    BY <1>1, <1>2, ContextFacts DEF TypeOK, AtCache, ContextHalf
  <2>2. PlacesFit'
    BY <1>1, <2>1 DEF CInv, PlacesFit, ContextLocs, OnlyContext
  <2>3. KeyFits'
    BY <1>1, <2>1, ContextFacts DEF CInv, KeyFits, Procs, OnlyContext
  <2> QED
    BY <1>1, <2>1, <2>2, <2>3, ContextFrame
<1>3. CASE index < Len(caches)
  <2>0. PICK c \in Threads : c = caches[index + 1]
    BY <1>3, ContextFacts DEF TypeOK
  <2>1. /\ index' = index + 1 /\ index \in Nat /\ index + 1 \in 1 .. Len(caches)
        /\ pc'[Context] = "context_dying" /\ AtCache' /\ caches' = caches
    BY <1>1, <1>3, ContextFacts DEF TypeOK, AtCache, ContextHalf
  <2>2. ~Visited(c) /\ Visited(c)' /\ Listed(c)
    BY <2>0, <2>1 DEF CInv, PlacesFit, TypeOK, Visited, Listed
  <2>3. Stage(c) = "idle" /\ Stage(c)' = "context_dying"
    BY <2>0, <2>1, <2>2 DEF Stage
  <2>4. \A t \in Threads : Listed(t)' = Listed(t)
    BY DEF Listed
  <2>5. ASSUME NEW t \in Threads, t # c PROVE Stage(t)' = Stage(t)
    <3>1. Visited(t)' <=> Visited(t)
      BY <2>0, <2>1, <2>5 DEF Visited
    <3> QED
      BY <1>1, <2>0, <2>1, <2>5, <3>1 DEF Stage
  <2>6. CacheFits(c)'
    BY <1>1, <2>1, <2>2, <2>3, <2>4, ThreadFacts
    DEF CInv, OnlyContext, CacheFits, FlagsFit, HalvesFit, StorageFits, ThreadHalf,
        ContextHalf, ThreadLocs, Spilling, Emptied, Awaiting, Undecided
  <2>7. ASSUME NEW t \in Threads, t # c PROVE CacheFits(t)'
    BY <1>1, <2>4, <2>5, <2>7, CacheFrame DEF CInv, OnlyContext
  <2>8. PlacesFit' /\ PreviousFits'
    BY <1>1, <2>1 DEF CInv, PlacesFit, PreviousFits, ContextLocs, ContextHalf, OnlyContext, AtCache
  <2>9. KeyFits'
    BY <1>1, <2>1, ContextFacts DEF CInv, KeyFits, Procs, OnlyContext
  <2>10. CountFits'
    BY <1>1, CountKept DEF CInv, OnlyContext, Unreleased
  <2> QED
    BY <1>1, <2>6, <2>7, <2>8, <2>9, <2>10 DEF CInv
<1> QED
  BY <1>2, <1>3

(* The global cache is locked...                                           *)
LEMMA LockGlobalStep ==
  ASSUME CInv, LockGlobal
  PROVE  CInv'
<1> USE DEF LockGlobal, Goto, sharedVars
<1>1. TypeOK' /\ OnlyContext /\ index' = index
  BY ContextFacts DEF TypeOK, Locs, OnlyContext, ContextParts, ThreadHalf
<1>2. pc[Context] = "lock_global" /\ pc'[Context] \in {"destroy_global"} /\ ~AtCache /\ ~AtCache'
  BY ContextFacts DEF TypeOK, AtCache, ContextHalf
<1>3. PlacesFit'
  BY <1>1, <1>2 DEF CInv, PlacesFit, ContextLocs, OnlyContext
<1>4. KeyFits'
  BY <1>1, <1>2, ContextFacts DEF CInv, KeyFits, Procs, OnlyContext, TypeOK
<1> QED
  BY <1>1, <1>2, <1>3, <1>4, ContextFrame

(* ... and destroyed; no thread is left that would spill into it.          *)
LEMMA DestroyGlobalStep ==
  ASSUME CInv, DestroyGlobal
  PROVE  CInv'
<1> USE DEF DestroyGlobal, Goto, sharedVars
<1>1. TypeOK' /\ OnlyContext /\ index' = index
  BY ContextFacts DEF TypeOK, Locs, OnlyContext, ContextParts, ThreadHalf
<1>2. pc[Context] = "destroy_global" /\ pc'[Context] \in {"close_logger"} /\ ~AtCache /\ ~AtCache'
  BY ContextFacts DEF TypeOK, AtCache, ContextHalf
<1>3. PlacesFit'
  BY <1>1, <1>2 DEF CInv, PlacesFit, ContextLocs, OnlyContext
<1>4. KeyFits'
  BY <1>1, <1>2, ContextFacts DEF CInv, KeyFits, Procs, OnlyContext, TypeOK
<1> QED
  BY <1>1, <1>2, <1>3, <1>4, ContextFrame

(* The logger goes...                                                      *)
LEMMA CloseLoggerStep ==
  ASSUME CInv, CloseLogger
  PROVE  CInv'
<1> USE DEF CloseLogger, Goto, sharedVars
<1>1. TypeOK' /\ OnlyContext /\ index' = index
  BY ContextFacts DEF TypeOK, Locs, OnlyContext, ContextParts, ThreadHalf
<1>2. pc[Context] = "close_logger" /\ pc'[Context] \in {"discard"} /\ ~AtCache /\ ~AtCache'
  BY ContextFacts DEF TypeOK, AtCache, ContextHalf
<1>3. PlacesFit'
  BY <1>1, <1>2 DEF CInv, PlacesFit, ContextLocs, OnlyContext
<1>4. KeyFits'
  BY <1>1, <1>2, ContextFacts DEF CInv, KeyFits, Procs, OnlyContext, TypeOK
<1> QED
  BY <1>1, <1>2, <1>3, <1>4, ContextFrame

(* ... then the reference of the context to the TSS key...                 *)
LEMMA DiscardStep ==
  ASSUME CInv, Discard
  PROVE  CInv'
<1> USE DEF Discard, Goto, sharedVars
<1>1. TypeOK' /\ OnlyContext /\ index' = index
  BY ContextFacts DEF TypeOK, Locs, OnlyContext, ContextParts, ThreadHalf
<1>2. pc[Context] = "discard" /\ pc'[Context] \in {"free_context", "gone"} /\ ~AtCache /\ ~AtCache'
  BY ContextFacts DEF TypeOK, AtCache, ContextHalf
<1>3. PlacesFit'
  BY <1>1, <1>2 DEF CInv, PlacesFit, ContextLocs, OnlyContext
<1>4. KeyFits'
  BY <1>1, <1>2, ContextFacts DEF CInv, KeyFits, Procs, OnlyContext, TypeOK
<1> QED
  BY <1>1, <1>2, <1>3, <1>4, ContextFrame

(* ... and the context itself, if nobody else had one.                     *)
LEMMA ContextFreesContext ==
  ASSUME CInv, FreeContext(Context)
  PROVE  CInv'
<1> USE DEF FreeContext, Goto, sharedVars
<1>1. TypeOK' /\ OnlyContext /\ index' = index
  BY ContextFacts DEF TypeOK, Locs, OnlyContext, ContextParts, ThreadHalf
<1>2. pc[Context] = "free_context" /\ pc'[Context] \in {"gone"} /\ ~AtCache /\ ~AtCache'
  BY ContextFacts DEF TypeOK, AtCache, ContextHalf
<1>3. PlacesFit'
  BY <1>1, <1>2 DEF CInv, PlacesFit, ContextLocs, OnlyContext
<1>4. KeyFits'
  BY <1>1, <1>2, ContextFacts DEF CInv, KeyFits, Procs, OnlyContext, TypeOK
<1> QED
  BY <1>1, <1>2, <1>3, <1>4, ContextFrame

-----------------------------------------------------------------------------
(* udipe_initialize() leaves no cache and no flag.                         *)
LEMMA InitCInv == Init => CInv
<1> SUFFICES ASSUME Init PROVE CInv
  OBVIOUS
<1>0. Threads \subseteq Procs /\ Context \in Procs
  BY DEF Procs
<1>1. TypeOK
  BY DEF Init, TypeOK, ContextParts, Locs
<1>2. Len(caches) = 0 /\ index = 0 /\ pc[Context] = "idle" /\ ~AtCache
  BY <1>0 DEF Init, AtCache, ContextHalf
<1>3. \A t \in Threads : pc[t] = "idle" /\ ~Listed(t) /\ Stage(t) = "idle"
  BY <1>0, <1>2 DEF Init, Listed, Stage, Visited
<1>4. PlacesFit /\ PreviousFits
  BY <1>2, <1>3 DEF PlacesFit, PreviousFits, ThreadLocs, ContextLocs
<1>5. \A t \in Threads : CacheFits(t)
  BY <1>3 DEF Init, CacheFits, FlagsFit, HalvesFit, StorageFits, ThreadHalf, ContextHalf,
     Spilling, Emptied, Awaiting, Undecided
<1>6. KeyFits
  BY <1>2 DEF Init, KeyFits, ContextParts
<1>7. CountFits
  <2>1. {t \in Threads : Unreleased(t)} = {}
    BY <1>3 DEF Unreleased, Init
  <2> QED
    BY <2>1, FS_EmptySet DEF CountFits, Init
<1> QED
  BY <1>1, <1>4, <1>5, <1>6, <1>7 DEF CInv

(* A thread with the right destructor is never in the context's half.      *)
LEMMA ThreadHalfStep ==
  ASSUME CInv, NEW t \in Threads, HalfStep(t) \/ Interrupted(t)
  PROVE  FreeCache(t) \/ FreeContext(t)
<1>1. pc[t] \notin ContextHalf
  BY DEF CInv, PlacesFit, ThreadLocs, ThreadHalf, ContextHalf
<1> QED
  BY <1>1 DEF HalfStep, Interrupted, MarkContextDying, Destroy, MarkContextEmptied, Await,
     Reload, Spin, MarkContextDone, ContextHalf

LEMMA NextCInv ==
  ASSUME Destructor = "from_thread", CInv, [Next]_vars
  PROVE  CInv'
<1>1. ASSUME NEW t \in Threads, CreateSlot(t) \/ ThreadExit(t) \/ ThreadStep(t)
      PROVE  CInv'
  BY <1>1, CreateSlotStep, ThreadExitStep, RegisterStep, MarkThreadDyingStep, SpillLockStep,
     SpillStep, MarkThreadEmptiedStep, WakeStep, ReleaseStep, MarkThreadDoneStep
  DEF ThreadStep
<1>2. ASSUME NEW t \in Threads, HalfStep(t) \/ Interrupted(t)
      PROVE  CInv'
  BY <1>2, ThreadHalfStep, ThreadFreesCache, ThreadFreesContext
<1>3. ASSUME HalfStep(Context) \/ Interrupted(Context)
      PROVE  CInv'
  BY <1>3, MarkContextDyingStep, DestroyStep, MarkContextEmptiedStep, AwaitStep,
     InterruptedStep, ReloadStep, SpinStep, MarkContextDoneStep, ContextFreesCache,
     ContextFreesContext
  DEF HalfStep
<1>4. ASSUME Finalize \/ FinalizeStep
      PROVE  CInv'
  BY <1>4, FinalizeStartStep, NextCacheStep, LockGlobalStep, DestroyGlobalStep,
     CloseLoggerStep, DiscardStep
  DEF FinalizeStep
<1>5. CASE UNCHANGED vars
  <2>1. \A t \in Threads : /\ Stage(t)' = Stage(t) /\ Listed(t)' = Listed(t)
                           /\ Unreleased(t)' = Unreleased(t)
    BY <1>5 DEF vars, sharedVars, contextVars, Stage, Visited, AtCache, Listed, Unreleased
  <2>2. \A t \in Threads : CacheFits(t)'
    BY <1>5, <2>1, CacheFrame DEF vars, sharedVars, contextVars, CInv
  <2>3. CountFits'
    BY <1>5, <2>1, CountKept DEF vars, contextVars, CInv
  <2> QED
    BY <1>5, <2>2, <2>3 DEF vars, sharedVars, contextVars, CInv, TypeOK, PlacesFit,
       PreviousFits, KeyFits, AtCache
<1> QED
  BY <1>1, <1>2, <1>3, <1>4, <1>5 DEF Next, Procs

-----------------------------------------------------------------------------
(* What the invariant means for the caller of the library.                 *)

(* Nobody uses a cache, a context, a logger or a key that is gone.         *)
LEMMA InvNothingFreedEarly == CInv => NothingFreedEarly
<1> SUFFICES ASSUME CInv PROVE NothingFreedEarly
  OBVIOUS
<1>1. ASSUME NEW t \in Threads
      PROVE  /\ UsesCache(t) => memory[Target(t)] = "allocated"
             /\ UsesStruct(t) => "struct" \in context
             /\ UsesLogger(t) => {"global_cache", "logger"} \subseteq context
  <2>1. UsesCache(t) => memory[Target(t)] = "allocated"
    BY ThreadFacts DEF UsesCache, CacheFits, HalvesFit, StorageFits, ThreadLocs, ThreadHalf, ContextHalf
  <2>2. UsesStruct(t) => "struct" \in context
    <3>1. CASE pc[t] = "free_context"
      BY <3>1, ThreadFacts DEF CInv, KeyFits
    <3>2. CASE pc[t] # "free_context" /\ UsesStruct(t)
      <4>1. pc[t] # "discard"
        BY ThreadFacts DEF ThreadLocs, ThreadHalf
      <4>2. Unreleased(t)
        BY <3>2, <4>1 DEF UsesStruct, Unreleased
      <4>3. key = "alive"
        BY <4>2, CountPositive DEF CInv, KeyFits, TypeOK
      <4> QED
        BY <4>3 DEF CInv, KeyFits
    <3> QED
      BY <3>1, <3>2
  <2>3. ASSUME UsesLogger(t) PROVE {"global_cache", "logger"} \subseteq context
    <3>1. Listed(t) /\ Stage(t) # "next"
      BY <2>3, ThreadFacts DEF UsesLogger, CacheFits, HalvesFit, StorageFits, ThreadHalf,
         Spilling, Undecided, Awaiting
    <3>2. pc[Context] \notin {"close_logger", "discard", "free_context", "gone"}
      BY <3>1, StageOver DEF CInv, PlacesFit, AtCache, ContextHalf
    <3> QED
      BY <3>2 DEF CInv, KeyFits
  <2> QED
    BY <2>1, <2>2, <2>3
<1>2. UsesCache(Context) => memory[Target(Context)] = "allocated"
  <2> SUFFICES ASSUME UsesCache(Context) PROVE memory[Target(Context)] = "allocated"
    OBVIOUS
  <2>1. AtCache
    BY DEF CInv, PlacesFit, UsesCache, AtCache, ContextLocs, ThreadHalf, ContextHalf
  <2>2. Stage(caches[index]) # "next"
    BY <2>1, HalfFacts DEF AtCache, ContextHalf
  <2> QED
    BY <2>1, <2>2, HalfFacts DEF CacheFits, StorageFits
<1>3. UsesStruct(Context) => "struct" \in context
  BY ContextFacts DEF CInv, PlacesFit, KeyFits, TypeOK, UsesStruct, ContextLocs, ContextHalf
<1>4. ~UsesLogger(Context)
  BY DEF CInv, PlacesFit, UsesLogger, ContextLocs, ContextHalf
<1>5. NoUseAfterFree
  BY <1>1, <1>2, <1>3, <1>4 DEF NoUseAfterFree, Procs
<1>6. ASSUME slot # {} PROVE key = "alive"
  <2>1. PICK t \in Threads : t \in slot
    BY <1>6 DEF CInv, TypeOK
  <2> QED
    BY <2>1, CountPositive DEF CInv, KeyFits, TypeOK, Unreleased
<1> QED
  BY <1>5, <1>6 DEF NothingFreedEarly, KeyOutlivesSlots, CInv, CountFits

(* No assertion on the flags fails and no content is disposed of twice.    *)
LEMMA InvFlagsProtocolKept == CInv => FlagsProtocolKept
<1> SUFFICES ASSUME CInv PROVE FlagsProtocolKept
  OBVIOUS
<1>1. ASSUME NEW t \in Threads PROVE FlagAsserts(t)
  <2>1. pc[t] = "release" => tss.refcount > 0
    BY CountPositive DEF CInv, Unreleased
  <2>2. pc[t] \notin ContextHalf
    BY ThreadFacts DEF ThreadLocs, ThreadHalf, ContextHalf
  <2> QED
    BY <2>1, <2>2, ThreadFacts
    DEF FlagAsserts, CacheFits, FlagsFit, HalvesFit, ThreadHalf, ContextHalf, Spilling,
        Emptied, Awaiting, Undecided
<1>2. FlagAsserts(Context)
  <2>1. pc[Context] \notin {"thread_dying", "thread_emptied", "release", "thread_done"}
    BY DEF CInv, PlacesFit, ContextLocs, ContextHalf
  <2>2. CASE AtCache
    BY <2>1, <2>2, HalfFacts
    DEF FlagAsserts, CacheFits, FlagsFit, HalvesFit, ThreadLocs, ThreadHalf, ContextHalf,
        Spilling, Emptied, Awaiting, Undecided
  <2>3. CASE ~AtCache
    BY <2>1, <2>3 DEF FlagAsserts, AtCache, ContextHalf
  <2> QED
    BY <2>2, <2>3
<1>3. AssertsHold
  BY <1>1, <1>2 DEF AssertsHold, CInv, PlacesFit, KeyFits, Procs
<1>4. ASSUME NEW t \in Threads
      PROVE  /\ (\E p \in Procs : Disposes(p, t)) => content[t] = "full"
             /\ \A p, q \in Procs : Disposes(p, t) /\ Disposes(q, t) => p = q
  <2>1. ASSUME NEW u \in Threads, Disposes(u, t)
        PROVE  u = t /\ content[t] = "full" /\ Stage(t) # "destroy"
    BY <2>1, ThreadFacts
    DEF Disposes, CacheFits, HalvesFit, StorageFits, ThreadLocs, ThreadHalf, Spilling, Undecided
  <2>2. Disposes(Context, t) => Stage(t) = "destroy" /\ content[t] = "full"
    <3> SUFFICES ASSUME Disposes(Context, t) PROVE Stage(t) = "destroy" /\ content[t] = "full"
      OBVIOUS
    <3>1. pc[Context] = "destroy" /\ AtCache /\ Target(Context) = t
      BY DEF Disposes, CInv, PlacesFit, ContextLocs, ContextHalf, AtCache
    <3> QED
      BY <3>1, HalfFacts DEF CacheFits, StorageFits
  <2> QED
    BY <2>1, <2>2 DEF Procs
<1> QED
  BY <1>3, <1>4 DEF FlagsProtocolKept, ContentDisposedOnce, CInv

(* When everybody is gone, nothing is left.                                *)
LEMMA InvNothingLeaks == CInv => NothingLeaks
<1> SUFFICES ASSUME CInv,
                    \A p \in Procs : pc[p] = "gone" \/ (pc[p] = "idle" /\ p # Context /\ p \notin slot)
             PROVE  /\ context = {} /\ key = "deleted"
                    /\ \A t \in Threads : memory[t] # "allocated"
  BY DEF NothingLeaks
<1>1. pc[Context] = "gone" /\ ~tss.reachable
  BY ContextFacts DEF CInv, KeyFits
<1>2. {t \in Threads : Unreleased(t)} = {}
  BY ThreadFacts DEF Unreleased, CacheFits, StorageFits
<1>3. key = "deleted"
  BY <1>1, <1>2, FS_EmptySet DEF CInv, KeyFits, CountFits
<1>4. context = {}
  <2>1. "struct" \notin context
    BY <1>3 DEF CInv, KeyFits
  <2>2. "global_cache" \notin context /\ "logger" \notin context
    BY <1>1 DEF CInv, KeyFits
  <2> QED
    BY <2>1, <2>2 DEF CInv, TypeOK, ContextParts
<1>5. ASSUME NEW t \in Threads PROVE memory[t] # "allocated"
  <2>1. CASE ~Listed(t)
    BY <2>1, ThreadFacts DEF CacheFits, StorageFits
  <2>2. CASE Listed(t)
    <3>1. pc[t] = "gone"
      BY <2>2, ThreadFacts DEF CacheFits, StorageFits, ThreadHalf
    <3>2. Stage(t) = "next"
      BY <1>1, <2>2, StageOver DEF CInv, PlacesFit, AtCache, ContextHalf
    <3> QED
      BY <3>1, <3>2, ThreadFacts DEF CacheFits, StorageFits
  <2> QED
    BY <2>1, <2>2
<1> QED
  BY <1>3, <1>4, <1>5

-----------------------------------------------------------------------------
(***************************************************************************)
(* What the two halves share is a function of how far they are, in every   *)
(* interleaving of any number of threads with udipe_finalize().            *)
(***************************************************************************)
THEOREM CacheInvariance ==
  ASSUME Destructor = "from_thread"
  PROVE  Spec => []CInv
<1>1. CInv /\ [Next]_vars => CInv'
  BY NextCInv
<1> QED
  BY <1>1, InitCInv, PTL DEF Spec

(***************************************************************************)
(* Use after free: neither future_thread_cache_finalize_from_thread() nor  *)
(* ..._from_context() touches a cache that the other one freed, and the    *)
(* TSS key, the context, its global cache and its logger are there for     *)
(* every thread that still needs them.                                     *)
(***************************************************************************)
THEOREM CacheNotFreedEarly ==
  ASSUME Destructor = "from_thread"
  PROVE  Spec => []NothingFreedEarly
  BY CacheInvariance, InvNothingFreedEarly, PTL

(***************************************************************************)
(* The assertions of both halves on previous_flags hold, and the content   *)
(* of a cache is spilled or destroyed, never both and never twice.         *)
(***************************************************************************)
THEOREM CacheProtocolKept ==
  ASSUME Destructor = "from_thread"
  PROVE  Spec => []FlagsProtocolKept
  BY CacheInvariance, InvFlagsProtocolKept, PTL

(***************************************************************************)
(* Once udipe_finalize() has returned and the threads with a cache are     *)
(* gone, every cache, the TSS key and the context have been given back.    *)
(***************************************************************************)
THEOREM CacheNeverLeaks ==
  ASSUME Destructor = "from_thread"
  PROVE  Spec => []NothingLeaks
  BY CacheInvariance, InvNothingLeaks, PTL
=============================================================================
