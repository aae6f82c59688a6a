----------------------------- MODULE ThreadCache -----------------------------
(***************************************************************************)
(* The end of the thread-local future caches.  A cache has two owners: the *)
(* thread that uses it, whose exit runs a TSS destructor, and the context, *)
(* which udipe_finalize() destroys.  Both ends may come in any order or at *)
(* the same time.  The atomic word `flags` of each cache decides who       *)
(* disposes of its content and who frees it; the reference count of the    *)
(* TSS key decides who deletes the key and frees the context struct        *)
(* (src/src/future/allocator/thread_cache.c, src/src/refcounted_tss.c,     *)
(* src/src/context.c, src/src/future/allocator/context_cache.c).           *)
(*                                                                         *)
(* A step performs at most one operation on shared memory, or one section  *)
(* under the mutex of the context cache.  What the caches hold is reduced  *)
(* to whether it is still there: PointerCache and FutureAllocator model    *)
(* it.  The array of caches grows without bound in the code, here with the *)
(* set of threads.                                                         *)
(***************************************************************************)
EXTENDS Integers, FiniteSets, Sequences

CONSTANTS
  Threads,      \* the threads that use the context
  Context,      \* the thread of udipe_finalize(), in that role
  Nobody,       \* owner of a free mutex
  Destructor    \* the function called by future_thread_cache_destructor()

(* context.c calls "from_context"; thread_cache.h asks for "from_thread".  *)
Destructors == {"from_thread", "from_context"}

ASSUME ThreadsAssumption ==
  /\ IsFiniteSet(Threads)
  /\ Context \notin Threads /\ Nobody \notin Threads \cup {Context}

ASSUME DestructorAssumption == Destructor \in Destructors

Procs == Threads \cup {Context}

Flags == {"THREAD_DYING", "CONTEXT_DYING", "EMPTIED", "THREAD_DONE", "CONTEXT_DONE"}

VARIABLES
  flags,      \* future_thread_cache_t::flags of each thread's cache
  content,    \* what became of the content of each cache
  memory,     \* the allocation of each cache
  caches,     \* future_context_cache_t::thread_caches
  index,      \* position of udipe_finalize() in that array
  slot,       \* the threads with a value in their TSS slot
  tss,        \* refcounted_tss_t::refcount_and_reachability
  key,        \* its TSS key
  context,    \* the parts of the udipe_context_t that still exist
  mutex,      \* owner of future_context_cache_t::mutex
  pc,         \* where each thread and udipe_finalize() are
  previous    \* previous_flags of each of them

sharedVars  == <<content, memory, caches>>
contextVars == <<slot, tss, key, context, mutex>>
vars == <<flags, sharedVars, index, contextVars, pc, previous>>

(* Program points of future_thread_cache_finalize_from_thread()...         *)
ThreadHalf  == {"thread_dying", "spill", "spilling", "thread_emptied", "wake",
                "release", "free_context", "thread_done"}
(* ... of future_thread_cache_finalize_from_context()...                   *)
ContextHalf == {"context_dying", "destroy", "context_emptied", "await", "asleep",
                "reload", "spin", "context_done"}
(* ... and of their callers.                                               *)
Locs == ThreadHalf \cup ContextHalf \cup
        {"idle", "register", "free_cache", "gone",
         "next", "lock_global", "destroy_global", "close_logger", "discard"}

ContextParts == {"struct", "global_cache", "logger"}

TypeOK ==
  /\ flags \in [Threads -> SUBSET Flags]
  /\ content \in [Threads -> {"none", "full", "spilled", "destroyed"}]
  /\ memory \in [Threads -> {"none", "allocated", "freed"}]
  /\ caches \in Seq(Threads)
  /\ index \in 0 .. Len(caches)
  /\ slot \subseteq Threads
  /\ tss \in [refcount : Nat, reachable : BOOLEAN]
  /\ key \in {"alive", "deleted"}
  /\ context \subseteq ContextParts
  /\ mutex \in Procs \cup {Nobody}
  /\ pc \in [Procs -> Locs]
  /\ previous \in [Procs -> SUBSET Flags]

(* udipe_initialize().                                                     *)
Init ==
  /\ flags = [t \in Threads |-> {}]
  /\ content = [t \in Threads |-> "none"]
  /\ memory = [t \in Threads |-> "none"]
  /\ caches = << >>
  /\ index = 0
  /\ slot = {}
  /\ tss = [refcount |-> 0, reachable |-> TRUE]
  /\ key = "alive"
  /\ context = ContextParts
  /\ mutex = Nobody
  /\ pc = [p \in Procs |-> "idle"]
  /\ previous = [p \in Procs |-> {}]

-----------------------------------------------------------------------------
Goto(p, loc) == pc' = [pc EXCEPT ![p] = loc]

(* The cache that p works on.                                              *)
Target(p) == IF p = Context THEN caches[index] ELSE p

(* atomic_fetch_or() on the flags of that cache.                           *)
FetchOr(p, flag) ==
  /\ previous' = [previous EXCEPT ![p] = flags[Target(p)]]
  /\ flags' = [flags EXCEPT ![Target(p)] = @ \cup {flag}]

(* Where p goes on after its half of the finalization.                     *)
Afterwards(p) == IF p = Context THEN "next" ELSE "gone"

-----------------------------------------------------------------------------
(* First use of the context by a thread: refcounted_tss_create_slot() and  *)
(* future_thread_cache_initialize().  Races between udipe_finalize() and   *)
(* other functions of the library are excluded by its contract.            *)

CreateSlot(t) ==
  /\ pc[t] = "idle" /\ t \notin slot
  /\ pc[Context] = "idle"
  /\ tss' = [tss EXCEPT !.refcount = @ + 1]
  /\ Goto(t, "register")
  /\ UNCHANGED <<flags, sharedVars, index, slot, key, context, mutex, previous>>

(* future_context_cache_register_thread(), under the mutex.                *)
Register(t) ==
  /\ pc[t] = "register"
  /\ mutex = Nobody
  /\ memory' = [memory EXCEPT ![t] = "allocated"]
  /\ content' = [content EXCEPT ![t] = "full"]
  /\ caches' = Append(caches, t)
  /\ slot' = slot \cup {t}
  /\ Goto(t, "idle")
  /\ UNCHANGED <<flags, index, tss, key, context, mutex, previous>>

(* The thread exits.  The implementation of TSS clears the slot and calls  *)
(* the destructor, unless the key has been deleted.                        *)
ThreadExit(t) ==
  /\ pc[t] = "idle" /\ t \in slot
  /\ slot' = slot \ {t}
  /\ Goto(t, IF key = "deleted" THEN "gone"
             ELSE IF Destructor = "from_thread" THEN "thread_dying" ELSE "context_dying")
  /\ UNCHANGED <<flags, sharedVars, index, tss, key, context, mutex, previous>>

-----------------------------------------------------------------------------
(* future_thread_cache_finalize_from_thread().                             *)

(* Mutant: the thread spills whatever the context does.                    *)
MarkThreadDyingBlind(t) ==
  /\ pc[t] = "thread_dying"
  /\ FetchOr(t, "THREAD_DYING")
  /\ Goto(t, "spill")
  /\ UNCHANGED <<sharedVars, index, contextVars>>

MarkThreadDying(t) ==
  /\ pc[t] = "thread_dying"
  /\ FetchOr(t, "THREAD_DYING")
  /\ Goto(t, IF "CONTEXT_DYING" \in flags[t] THEN "release" ELSE "spill")
  /\ UNCHANGED <<sharedVars, index, contextVars>>

SpillLock(t) ==
  /\ pc[t] = "spill"
  /\ mutex = Nobody
  /\ mutex' = t
  /\ Goto(t, "spilling")
  /\ UNCHANGED <<flags, sharedVars, index, slot, tss, key, context, previous>>

(* future_pointer_cache_spill(), mtx_unlock(), and the finalization of the *)
(* caches of synchronization objects.                                      *)
Spill(t) ==
  /\ pc[t] = "spilling"
  /\ content' = [content EXCEPT ![t] = "spilled"]
  /\ mutex' = Nobody
  /\ Goto(t, "thread_emptied")
  /\ UNCHANGED <<flags, memory, caches, index, slot, tss, key, context, previous>>

(* Mutant: nobody wakes udipe_finalize().                                  *)
MarkThreadEmptiedQuiet(t) ==
  /\ pc[t] = "thread_emptied"
  /\ FetchOr(t, "EMPTIED")
  /\ Goto(t, "release")
  /\ UNCHANGED <<sharedVars, index, contextVars>>

MarkThreadEmptied(t) ==
  /\ pc[t] = "thread_emptied"
  /\ FetchOr(t, "EMPTIED")
  /\ Goto(t, IF "CONTEXT_DYING" \in flags[t] THEN "wake" ELSE "release")
  /\ UNCHANGED <<sharedVars, index, contextVars>>

Wake(t) ==
  /\ pc[t] = "wake"
  /\ pc' = [p \in Procs |->
              CASE p = t -> "release"
                [] p # t /\ pc[p] = "asleep" /\ Target(p) = t -> "reload"
                [] OTHER -> pc[p]]
  /\ UNCHANGED <<flags, sharedVars, index, contextVars, previous>>

(* refcounted_tss_release(): the atomic decrement, and the deletion of the *)
(* key that follows it if it was the last reference.                       *)
Release(t) ==
  /\ pc[t] = "release"
  /\ tss' = [tss EXCEPT !.refcount = @ - 1]
  /\ IF tss.refcount = 1 /\ ~tss.reachable
     THEN key' = "deleted" /\ Goto(t, "free_context")
     ELSE UNCHANGED key /\ Goto(t, "thread_done")
  /\ UNCHANGED <<flags, sharedVars, index, slot, context, mutex, previous>>

(* Mutant: the thread does not look for a context that is done.            *)
MarkThreadDoneLeaks(t) ==
  /\ pc[t] = "thread_done"
  /\ FetchOr(t, "THREAD_DONE")
  /\ Goto(t, "gone")
  /\ UNCHANGED <<sharedVars, index, contextVars>>

MarkThreadDone(t) ==
  /\ pc[t] = "thread_done"
  /\ FetchOr(t, "THREAD_DONE")
  /\ Goto(t, IF "CONTEXT_DONE" \in flags[t] THEN "free_cache" ELSE "gone")
  /\ UNCHANGED <<sharedVars, index, contextVars>>

-----------------------------------------------------------------------------
(* future_thread_cache_finalize_from_context().                            *)

MarkContextDying(p) ==
  /\ pc[p] = "context_dying"
  /\ FetchOr(p, "CONTEXT_DYING")
  /\ Goto(p, IF "THREAD_DYING" \in flags[Target(p)] THEN "await" ELSE "destroy")
  /\ UNCHANGED <<sharedVars, index, contextVars>>

Destroy(p) ==
  /\ pc[p] = "destroy"
  /\ content' = [content EXCEPT ![Target(p)] = "destroyed"]
  /\ Goto(p, "context_emptied")
  /\ UNCHANGED <<flags, memory, caches, index, contextVars, previous>>

MarkContextEmptied(p) ==
  /\ pc[p] = "context_emptied"
  /\ FetchOr(p, "EMPTIED")
  /\ Goto(p, "context_done")
  /\ UNCHANGED <<sharedVars, index, contextVars>>

(* Mutant: udipe_finalize() does not wait for THREAD_DONE.                 *)
AwaitEmptiedOnly(p) ==
  /\ pc[p] = "await"
  /\ Goto(p, IF "EMPTIED" \in previous[p] THEN "context_done"
             ELSE IF flags[Target(p)] = previous[p] THEN "asleep" ELSE "reload")
  /\ UNCHANGED <<flags, sharedVars, index, contextVars, previous>>

(* One round of the loop around wait_on_address().                         *)
Await(p) ==
  /\ pc[p] = "await"
  /\ Goto(p, IF "EMPTIED" \in previous[p] THEN "spin"
             ELSE IF flags[Target(p)] = previous[p] THEN "asleep" ELSE "reload")
  /\ UNCHANGED <<flags, sharedVars, index, contextVars, previous>>

(* A signal ends FUTEX_WAIT.                                               *)
Interrupted(p) ==
  /\ pc[p] = "asleep"
  /\ Goto(p, "await")
  /\ UNCHANGED <<flags, sharedVars, index, contextVars, previous>>

Reload(p) ==
  /\ pc[p] = "reload"
  /\ previous' = [previous EXCEPT ![p] = flags[Target(p)]]
  /\ Goto(p, "await")
  /\ UNCHANGED <<flags, sharedVars, index, contextVars>>

(* One round of the busy-wait for THREAD_DONE.                             *)
Spin(p) ==
  /\ pc[p] = "spin"
  /\ previous' = [previous EXCEPT ![p] = flags[Target(p)]]
  /\ Goto(p, IF "THREAD_DONE" \in flags[Target(p)] THEN "context_done" ELSE "spin")
  /\ UNCHANGED <<flags, sharedVars, index, contextVars>>

MarkContextDone(p) ==
  /\ pc[p] = "context_done"
  /\ FetchOr(p, "CONTEXT_DONE")
  /\ Goto(p, IF "THREAD_DONE" \in flags[Target(p)] THEN "free_cache" ELSE Afterwards(p))
  /\ UNCHANGED <<sharedVars, index, contextVars>>

(* free(cache), by whoever was last.                                       *)
FreeCache(p) ==
  /\ pc[p] = "free_cache"
  /\ memory' = [memory EXCEPT ![Target(p)] = "freed"]
  /\ Goto(p, Afterwards(p))
  /\ UNCHANGED <<flags, content, caches, index, contextVars, previous>>

-----------------------------------------------------------------------------
(* udipe_finalize() and future_context_cache_finalize().                   *)

Finalize ==
  /\ pc[Context] = "idle"
  /\ \A t \in Threads : pc[t] # "register"
  /\ Goto(Context, "next")
  /\ UNCHANGED <<flags, sharedVars, index, contextVars, previous>>

(* The loop over the thread caches, which does not take the mutex.         *)
NextCache ==
  /\ pc[Context] = "next"
  /\ IF index < Len(caches)
     THEN index' = index + 1 /\ Goto(Context, "context_dying")
     ELSE UNCHANGED index /\ Goto(Context, "lock_global")
  /\ UNCHANGED <<flags, sharedVars, contextVars, previous>>

LockGlobal ==
  /\ pc[Context] = "lock_global"
  /\ mutex = Nobody
  /\ mutex' = Context
  /\ Goto(Context, "destroy_global")
  /\ UNCHANGED <<flags, sharedVars, index, slot, tss, key, context, previous>>

DestroyGlobal ==
  /\ pc[Context] = "destroy_global"
  /\ context' = context \ {"global_cache"}
  /\ mutex' = Nobody
  /\ Goto(Context, "close_logger")
  /\ UNCHANGED <<flags, sharedVars, index, slot, tss, key, previous>>

CloseLogger ==
  /\ pc[Context] = "close_logger"
  /\ context' = context \ {"logger"}
  /\ Goto(Context, "discard")
  /\ UNCHANGED <<flags, sharedVars, index, slot, tss, key, mutex, previous>>

(* refcounted_tss_discard().                                               *)
Discard ==
  /\ pc[Context] = "discard"
  /\ tss' = [tss EXCEPT !.reachable = FALSE]
  /\ IF tss.refcount = 0
     THEN key' = "deleted" /\ Goto(Context, "free_context")
     ELSE UNCHANGED key /\ Goto(Context, "gone")
  /\ UNCHANGED <<flags, sharedVars, index, slot, context, mutex, previous>>

(* free(context), by whoever was last.                                     *)
FreeContext(p) ==
  /\ pc[p] = "free_context"
  /\ context' = context \ {"struct"}
  /\ Goto(p, IF p = Context THEN "gone" ELSE "thread_done")
  /\ UNCHANGED <<flags, sharedVars, index, slot, tss, key, mutex, previous>>

-----------------------------------------------------------------------------
ThreadStep(t) ==
  \/ Register(t)
  \/ MarkThreadDying(t) \/ SpillLock(t) \/ Spill(t) \/ MarkThreadEmptied(t)
  \/ Wake(t) \/ Release(t) \/ MarkThreadDone(t)

HalfStep(p) ==
  \/ MarkContextDying(p) \/ Destroy(p) \/ MarkContextEmptied(p)
  \/ Await(p) \/ Reload(p) \/ Spin(p) \/ MarkContextDone(p)
  \/ FreeCache(p) \/ FreeContext(p)

FinalizeStep ==
  NextCache \/ LockGlobal \/ DestroyGlobal \/ CloseLogger \/ Discard

Next ==
  \/ \E t \in Threads : CreateSlot(t) \/ ThreadExit(t) \/ ThreadStep(t)
  \/ \E p \in Procs : HalfStep(p) \/ Interrupted(p)
  \/ Finalize
  \/ FinalizeStep

Spec == Init /\ [][Next]_vars

(* Threads that are inside the library or in a destructor are scheduled;   *)
(* nobody has to exit, to use the context or to finalize it.               *)
Fairness ==
  /\ \A t \in Threads : WF_vars(ThreadStep(t))
  /\ \A p \in Procs : WF_vars(HalfStep(p))
  /\ WF_vars(FinalizeStep)

FairSpec == Spec /\ Fairness

-----------------------------------------------------------------------------
(***************************************************************************)
(* Nobody touches a cache that was freed, or a part of the context that is *)
(* gone: the cache in any step of a half, the struct and its TSS key in    *)
(* every step of the thread's half up to the release, the global cache and *)
(* the logger while the thread's half spills and notifies.                 *)
(***************************************************************************)
UsesCache(p)  == pc[p] \in (ThreadHalf \cup ContextHalf \cup {"free_cache"}) \
                           (IF p = Context THEN {"free_context"} ELSE {})
UsesStruct(p) == pc[p] \in {"thread_dying", "spill", "spilling", "thread_emptied",
                            "wake", "release", "free_context", "discard"}
UsesLogger(p) == pc[p] \in {"spill", "spilling", "thread_emptied", "wake"}

NoUseAfterFree ==
  \A p \in Procs :
    /\ UsesCache(p) => memory[Target(p)] = "allocated"
    /\ UsesStruct(p) => "struct" \in context
    /\ UsesLogger(p) => {"global_cache", "logger"} \subseteq context

(***************************************************************************)
(* The content of a cache is disposed of once, by one of its owners: who   *)
(* is about to spill or destroy it finds it whole, and no second thread is *)
(* about to do the same.                                                   *)
(***************************************************************************)
Disposes(p, t) ==
  pc[p] \in {"spill", "spilling", "destroy"} /\ Target(p) = t

ContentDisposedOnce ==
  \A t \in Threads :
    /\ (\E p \in Procs : Disposes(p, t)) => content[t] = "full"
    /\ \A p, q \in Procs : Disposes(p, t) /\ Disposes(q, t) => p = q

(***************************************************************************)
(* The TSS key lives as long as a thread has a slot, so that every         *)
(* destructor runs; its count is the number of slots not yet released.     *)
(***************************************************************************)
Unreleased(t) ==
  \/ t \in slot
  \/ pc[t] = "register"
  \/ pc[t] \in {"thread_dying", "spill", "spilling", "thread_emptied", "wake", "release"}

KeyOutlivesSlots ==
  /\ tss.refcount = Cardinality({t \in Threads : Unreleased(t)})
  /\ slot # {} => key = "alive"

(***************************************************************************)
(* Everything is given back: once udipe_finalize() has returned and every  *)
(* thread that had a cache is gone, no cache and no context is left        *)
(* ("what remains of the future_thread_cache_t struct will be              *)
(* deallocated", thread_cache.h).                                          *)
(***************************************************************************)
NothingLeaks ==
  (\A p \in Procs : pc[p] = "gone" \/ (pc[p] = "idle" /\ p # Context /\ p \notin slot)) =>
    /\ context = {}
    /\ key = "deleted"
    /\ \A t \in Threads : memory[t] # "allocated"

(* The assertions on previous_flags and on the reference count hold.       *)
FlagAsserts(p) ==
  LET f == flags[Target(p)]
  IN  /\ pc[p] = "thread_dying" => f \cap {"THREAD_DYING", "THREAD_DONE"} = {}
      /\ pc[p] = "thread_emptied" => f \cap {"EMPTIED", "THREAD_DONE"} = {}
      /\ pc[p] = "release" => tss.refcount > 0
      /\ pc[p] = "thread_done" =>
           /\ "THREAD_DONE" \notin f
           /\ "CONTEXT_DONE" \in f => {"CONTEXT_DYING", "EMPTIED"} \subseteq f
      /\ pc[p] = "context_dying" => f \cap {"CONTEXT_DYING", "CONTEXT_DONE"} = {}
      /\ pc[p] = "context_emptied" => f \cap {"EMPTIED", "CONTEXT_DONE"} = {}
      /\ pc[p] = "context_done" =>
           /\ "CONTEXT_DONE" \notin f
           /\ "THREAD_DONE" \in f => {"THREAD_DYING", "EMPTIED"} \subseteq f

AssertsHold ==
  /\ \A p \in Procs : FlagAsserts(p)
  /\ \A t \in Threads : pc[t] = "register" => tss.reachable
  /\ pc[Context] = "discard" => tss.reachable

(***************************************************************************)
(* The two halves of the flags protocol never contradict each other: the   *)
(* types, the assertions on the flags that each half finds, and a single   *)
(* disposal of each content.                                               *)
(***************************************************************************)
FlagsProtocolKept == TypeOK /\ AssertsHold /\ ContentDisposedOnce

(***************************************************************************)
(* Nothing is used after it was freed: caches, context, logger, and the    *)
(* TSS key, whose deletion would keep the destructors of other threads     *)
(* from running.                                                           *)
(***************************************************************************)
NothingFreedEarly == NoUseAfterFree /\ KeyOutlivesSlots

(* Liveness: udipe_finalize() returns, even if it has to wait for threads  *)
(* that are exiting.                                                       *)
FinalizeReturns == (pc[Context] = "next") ~> (pc[Context] = "gone")
=============================================================================
