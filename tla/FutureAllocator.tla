--------------------------- MODULE FutureAllocator ---------------------------
(***************************************************************************)
(* Allocation and liberation of futures: every thread has a cache of       *)
(* pointers of its own, backed by a cache of the context under a mutex,    *)
(* backed by storage pages that are never given back before the context    *)
(* ends (src/src/future/allocator.c, src/src/future/allocator/).           *)
(*                                                                         *)
(* A section under the mutex of the context cache is one step, together    *)
(* with the operations on the thread's own cache around it.  Every thread  *)
(* brings LOCAL_FUTURE_POINTER_PAGES new pages, which stay in the context  *)
(* cache when it exits: a thread attaches once, so that Threads bounds the *)
(* number of pages.                                                        *)
(***************************************************************************)
EXTENDS PointerCache

CONSTANTS
  Threads,          \* the threads that use the context
  STORAGE_LENGTH,   \* future_storage_page_length()
  Destructor        \* what the TSS destructor calls, see ThreadCache

ASSUME ThreadsAssumption == IsFiniteSet(Threads)

(* assert(future_storage_page_length() <= future_pointer_page_capacity()). *)
ASSUME StorageAssumption == STORAGE_LENGTH \in 1 .. PAGE_CAPACITY

ASSUME DestructorAssumption == Destructor \in {"from_thread", "from_context"}

VARIABLES
  storage,    \* the futures of the storage pages allocated so far
  used,       \* the futures that the application holds
  local,      \* future_thread_cache_t::futures of each thread
  global,     \* future_context_cache_t::futures
  pc,         \* where each thread is
  freeing,    \* the future that a thread is liberating, or NULL
  hand        \* the page that it has taken from its cache

vars == <<storage, used, local, global, pc, freeing, hand>>

Caches == [pages : Seq(Pages), top : Nat, num_top_futures : 0 .. PAGE_CAPACITY]

TypeOK ==
  /\ storage \subseteq Futures
  /\ used \subseteq Futures
  /\ local \in [Threads -> Caches]
  /\ global \in Caches
  /\ pc \in [Threads -> {"detached", "ready", "refill", "spill", "exited"}]
  /\ freeing \in [Threads -> Futures \cup {NULL}]
  /\ hand \in [Threads -> Pages]

Init ==
  /\ storage = {}
  /\ used = {}
  /\ local = [t \in Threads |-> GlobalCache]
  /\ global = GlobalCache
  /\ pc = [t \in Threads |-> "detached"]
  /\ freeing = [t \in Threads |-> NULL]
  /\ hand = [t \in Threads |-> EmptyPage]

(* future_thread_cache(): the first use of the context by a thread.        *)
Attach(t) ==
  /\ pc[t] = "detached"
  /\ local' = [local EXCEPT ![t] = LocalCache]
  /\ pc' = [pc EXCEPT ![t] = "ready"]
  /\ UNCHANGED <<storage, used, global, freeing, hand>>

(* future_pointer_cache_allocate_local() on `c', then the return from      *)
(* future_allocate_uninitialized().                                        *)
TakeFrom(t, c) ==
  /\ used' = used \cup {TopFuture(c)}
  /\ local' = [local EXCEPT ![t] = Pop(c)]

(* future_allocate_uninitialized(), without the context cache...           *)
Allocate(t) ==
  /\ pc[t] = "ready"
  /\ \/ /\ local[t].num_top_futures # 0
        /\ TakeFrom(t, local[t])
        /\ UNCHANGED pc
     \/ /\ local[t].num_top_futures = 0
        /\ pc' = [pc EXCEPT ![t] = "refill"]
        /\ UNCHANGED <<used, local>>
  /\ UNCHANGED <<storage, global, freeing, hand>>

(* ... with a page of futures from the context cache...                    *)
Refill(t) ==
  /\ pc[t] = "refill"
  /\ HasFutures(global)
  /\ global' = InsertEmpty(WithoutBottom(global), EmptyOf(local[t]))
  /\ TakeFrom(t, InsertFutures(WithoutEmpty(local[t]), BottomPage(global)))
  /\ pc' = [pc EXCEPT ![t] = "ready"]
  /\ UNCHANGED <<storage, freeing, hand>>

(* future_storage_allocate(): the futures of a new page, in any order.     *)
NewStoragePages ==
  UNION {SetToSeqs(S) : S \in {T \in SUBSET (Futures \ storage) :
                                 Cardinality(T) = STORAGE_LENGTH}}

(* Mutant: new storage is allocated although the context has futures.      *)
GrowEagerly(t) ==
  /\ pc[t] = "refill"
  /\ \E futures \in NewStoragePages :
       /\ storage' = storage \cup Range(futures)
       /\ TakeFrom(t, RefillLocal(local[t], futures))
  /\ pc' = [pc EXCEPT ![t] = "ready"]
  /\ UNCHANGED <<global, freeing, hand>>

(* ... and with a new storage page.  The set Futures bounds the storage.   *)
Grow(t) ==
  /\ pc[t] = "refill"
  /\ ~HasFutures(global)
  /\ \E futures \in NewStoragePages :
       /\ storage' = storage \cup Range(futures)
       /\ TakeFrom(t, RefillLocal(local[t], futures))
  /\ pc' = [pc EXCEPT ![t] = "ready"]
  /\ UNCHANGED <<global, freeing, hand>>

(* future_liberate_uninitialized(), by any thread: into its own cache, or  *)
(* after the extraction of a page if that is full...                       *)
Liberate(t, f) ==
  /\ pc[t] = "ready" /\ f \in used
  /\ used' = used \ {f}
  /\ \/ /\ HasRoom(local[t])
        /\ local' = [local EXCEPT ![t] = Push(@, f)]
        /\ UNCHANGED <<pc, freeing, hand>>
     \/ /\ ~HasRoom(local[t])
        /\ hand' = [hand EXCEPT ![t] = BottomPage(local[t])]
        /\ local' = [local EXCEPT ![t] = WithoutBottom(@)]
        /\ freeing' = [freeing EXCEPT ![t] = f]
        /\ pc' = [pc EXCEPT ![t] = "spill"]
  /\ UNCHANGED <<storage, global>>

(* ... which goes to the context cache in exchange for an empty page.      *)
SpillPage(t) ==
  LET inserted == InsertFutures(global, hand[t])
  IN  /\ pc[t] = "spill"
      /\ global' = WithoutEmpty(inserted)
      /\ local' = [local EXCEPT ![t] =
           Push(InsertEmpty(local[t], EmptyOf(inserted)), freeing[t])]
      /\ hand' = [hand EXCEPT ![t] = EmptyPage]
      /\ freeing' = [freeing EXCEPT ![t] = NULL]
      /\ pc' = [pc EXCEPT ![t] = "ready"]
      /\ UNCHANGED <<storage, used>>

(* The TSS destructor: the content of the cache is spilled into the        *)
(* context cache, or dropped if the destructor is the context's.           *)
ThreadExit(t) ==
  /\ pc[t] = "ready"
  /\ global' = IF Destructor = "from_thread" THEN Spill(local[t], global) ELSE global
  /\ local' = [local EXCEPT ![t] = GlobalCache]
  /\ pc' = [pc EXCEPT ![t] = "exited"]
  /\ UNCHANGED <<storage, used, freeing, hand>>

Next ==
  \E t \in Threads :
    \/ Attach(t) \/ Allocate(t) \/ Refill(t) \/ Grow(t)
    \/ \E f \in used : Liberate(t, f)
    \/ SpillPage(t) \/ ThreadExit(t)

Spec == Init /\ [][Next]_vars

-----------------------------------------------------------------------------
(* A thread in the library has the fixed number of pages, one fewer while  *)
(* it exchanges one with the context.                                      *)
LocalPagesFixed ==
  \A t \in Threads :
    Len(local[t].pages) = CASE pc[t] \in {"ready", "refill"} -> LOCAL_FUTURE_POINTER_PAGES
                            [] pc[t] = "spill" -> LOCAL_FUTURE_POINTER_PAGES - 1
                            [] OTHER -> 0

(* Every cache keeps the shape that its documentation describes, on which  *)
(* pop, push, extraction and the bisection rely without looking, and no    *)
(* thread ends up with a page too few or too many.                         *)
CachesKeepShape ==
  /\ TypeOK
  /\ LocalPagesFixed
  /\ StackShape(global)
  /\ \A t \in Threads : StackShape(local[t])

(***************************************************************************)
(* Conservation: a future of the storage is in one place, with the         *)
(* application, in one slot of one cache, or on its way between caches; so *)
(* it is neither allocated twice nor lost when threads exit.               *)
(***************************************************************************)
Places(f) ==
       ({<<"used">>} \X ({f} \cap used))
  \cup ({<<"global">>} \X CacheSpots(global, f))
  \cup UNION {      ({<<"local", t>>} \X CacheSpots(local[t], f))
              \cup ({<<"hand", t>>} \X PageSpots(hand[t], f))
              \cup ({<<"freeing", t>>} \X ({f} \cap {freeing[t]})) : t \in Threads}

EachFutureInOnePlace ==
  \A f \in Futures : Cardinality(Places(f)) = (IF f \in storage THEN 1 ELSE 0)

(***************************************************************************)
(* "unbounded future leaks are avoided by bounding the size of local       *)
(* caches" (pointer_cache.h): storage grows only if all the futures there  *)
(* are, but for what the other threads may keep in their caches, are in    *)
(* use.                                                                    *)
(***************************************************************************)
Others(t) == {u \in Threads \ {t} : pc[u] \in {"ready", "refill", "spill"}}

HoardingBounded ==
  [][\A t \in Threads : (pc[t] = "refill" /\ storage' # storage /\ pc'[t] # pc[t]) =>
       Cardinality(storage) <=
         Cardinality(used) + Cardinality({u \in Threads : freeing[u] # NULL})
         + Cardinality(Others(t)) * LOCAL_FUTURE_POINTER_PAGES * PAGE_CAPACITY]_vars
=============================================================================
