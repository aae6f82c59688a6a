--------------------------- MODULE RealtimeMemory ---------------------------
(***************************************************************************)
(* realtime_allocate() and realtime_liberate() (src/memory.c) called by    *)
(* several threads of one process.  A buffer is mapped and then locked     *)
(* into RAM; when the soft RLIMIT_MEMLOCK is in the way it is raised under *)
(* a mutex, because the kernel only lets a process read and write it, and  *)
(* locking is tried once more.  A buffer that cannot be locked is at least *)
(* pre-faulted.                                                            *)
(*                                                                         *)
(* Bytes are in bytes and have LimitBits bits; each thread has at most one *)
(* buffer, and nobody outside udipe touches the limit.                     *)
(***************************************************************************)
EXTENDS Integers, FiniteSets, FiniteSetsExt

CONSTANTS Threads,
          Requests,      \* bound: sizes that are asked for, in bytes
          Granularity,   \* system_allocation_granularity, a power of two
          LimitBits,     \* width of rlim_t and size_t
          InitialLimits, \* the <<soft, hard>> limits the process may start with
          Privileged     \* whether it has CAP_SYS_RESOURCE (not CAP_IPC_LOCK)

ASSUME MemoryAssumption ==
    /\ Threads # {} /\ IsFiniteSet(Threads)
    /\ Granularity \in Nat \ {0} /\ LimitBits \in Nat \ {0}
    /\ 2^LimitBits \in Nat \ {0}   \* arithmetic, for the proofs
    /\ Requests \subseteq 1..(2^LimitBits - Granularity)
    /\ InitialLimits \subseteq {l \in (0..(2^LimitBits - 1)) \X (0..(2^LimitBits - 1)) :
                                   l[1] <= l[2]}
    /\ Privileged \in BOOLEAN

VARIABLES pc,      \* where each thread is
          size,    \* rounded size of its buffer, 0 if it has none
          backing, \* what became of it: "none", "locked" or "prefaulted"
          limit,   \* <<rlim_cur, rlim_max>> in the kernel
          mutex,   \* holders of mlock_budget_mutex, at most one
          initial, \* the limit each thread read with getrlimit()
          wanted   \* mlock_limit: the limit it is going to set

vars == <<pc, size, backing, limit, mutex, initial, wanted>>

locals == <<initial, wanted>>

Bytes == 0..(2^LimitBits - 1)
RLIM_INFINITY == 2^LimitBits - 1

\* allocation_size(): up to the next multiple of the granularity.
allocation_size(n) ==
    IF n % Granularity # 0 THEN n + (Granularity - (n % Granularity)) ELSE n

Locked == MapThenSumSet(LAMBDA t : size[t],
                        {t \in Threads : backing[t] = "locked"})

TypeOK ==
    /\ pc \in [Threads -> {"idle", "mapped", "blocked", "query", "raise",
                           "set", "relock", "prefault"}]
    /\ size \in [Threads -> Bytes]
    /\ backing \in [Threads -> {"none", "locked", "prefaulted"}]
    /\ limit \in Bytes \X Bytes
    /\ mutex \in SUBSET Threads
    /\ initial \in [Threads -> Bytes \X Bytes]
    /\ wanted \in [Threads -> Bytes \X Bytes]

Init ==
    /\ pc = [t \in Threads |-> "idle"]
    /\ size = [t \in Threads |-> 0]
    /\ backing = [t \in Threads |-> "none"]
    /\ limit \in InitialLimits
    /\ mutex = {}
    /\ initial = [t \in Threads |-> <<0, 0>>]
    /\ wanted = [t \in Threads |-> <<0, 0>>]

\* realtime_allocate(): the size is rounded up and pages are mapped.
Allocate(t) ==
    /\ pc[t] = "idle"
    /\ size[t] = 0
    /\ \E n \in Requests : size' = [size EXCEPT ![t] = allocation_size(n)]
    /\ pc' = [pc EXCEPT ![t] = "mapped"]
    /\ UNCHANGED <<backing, limit, mutex, locals>>

(***************************************************************************)
(* The kernel's mlock(), as the error handling of realtime_allocate()      *)
(* lists its answers: success within the budget, EPERM without one, ENOMEM *)
(* above it or, whatever the budget, when there are too many mappings, and *)
(* EAGAIN, an unspecified failure, at any time.                            *)
(***************************************************************************)
Fits(t) == limit[1] # 0 /\ (Locked + size[t] <= limit[1] \/ limit[1] = RLIM_INFINITY)

MlockAnswers(t) ==
    {"EAGAIN"}
    \cup (IF Fits(t) THEN {"success"} ELSE {})
    \cup (IF limit[1] = 0 THEN {"EPERM"} ELSE {"ENOMEM"})

Lock(t) ==
    /\ backing' = [backing EXCEPT ![t] = "locked"]
    /\ pc' = [pc EXCEPT ![t] = "idle"]
    /\ UNCHANGED <<size, limit, mutex, locals>>

\* First mlock(): done, or a limit to raise first, or no hope.
TryLock(t) ==
    /\ pc[t] = "mapped"
    /\ \/ "success" \in MlockAnswers(t) /\ Lock(t)
       \/ /\ "ENOMEM" \in MlockAnswers(t)
          /\ pc' = [pc EXCEPT ![t] = "blocked"]
          /\ UNCHANGED <<size, backing, limit, mutex, locals>>
       \/ /\ MlockAnswers(t) \cap {"EAGAIN", "EPERM"} # {}
          /\ pc' = [pc EXCEPT ![t] = "prefault"]
          /\ UNCHANGED <<size, backing, limit, mutex, locals>>

\* Mutant: nobody waits for the mutex.
LockMutexBarging(t) ==
    /\ pc[t] = "blocked"
    /\ mutex' = {t}
    /\ pc' = [pc EXCEPT ![t] = "query"]
    /\ UNCHANGED <<size, backing, limit, locals>>

\* try_increase_mlock_budget(): mtx_lock().
LockMutex(t) ==
    /\ pc[t] = "blocked"
    /\ mutex = {}
    /\ mutex' = {t}
    /\ pc' = [pc EXCEPT ![t] = "query"]
    /\ UNCHANGED <<size, backing, limit, locals>>

\* getrlimit()
QueryLimit(t) ==
    /\ pc[t] = "query"
    /\ initial' = [initial EXCEPT ![t] = limit]
    /\ wanted' = [wanted EXCEPT ![t] = limit]
    /\ pc' = [pc EXCEPT ![t] = "raise"]
    /\ UNCHANGED <<size, backing, limit, mutex>>

\* What the soft limit has to reach; the sum wraps.
Needed(t) == (initial[t][1] + size[t]) % 2^LimitBits

\* One turn of the doubling loop; the product wraps.
DoubleLimit(t) ==
    /\ pc[t] = "raise"
    /\ wanted[t][1] < Needed(t)
    /\ wanted' = [wanted EXCEPT ![t][1] = (2 * @) % 2^LimitBits]
    /\ UNCHANGED <<pc, size, backing, limit, mutex, initial>>

\* Mutant: always saturate at the hard limit.
FitHardLimitSaturates(t) ==
    /\ pc[t] = "raise"
    /\ wanted[t][1] >= Needed(t)
    /\ wanted' = [wanted EXCEPT ![t] =
                    IF @[1] <= @[2] THEN @ ELSE <<@[2], @[2]>>]
    /\ pc' = [pc EXCEPT ![t] = "set"]
    /\ UNCHANGED <<size, backing, limit, mutex, initial>>

\* The loop is over: saturate at the hard limit or try to raise it too.
FitHardLimit(t) ==
    /\ pc[t] = "raise"
    /\ wanted[t][1] >= Needed(t)
    /\ LET cur == wanted[t][1]
           max == wanted[t][2]
       IN  wanted' = [wanted EXCEPT ![t] =
                        IF cur <= max THEN @
                        ELSE IF max - initial[t][1] >= size[t] THEN <<max, max>>
                             ELSE <<cur, cur>>]
    /\ pc' = [pc EXCEPT ![t] = "set"]
    /\ UNCHANGED <<size, backing, limit, mutex, initial>>

\* setrlimit(): EPERM if the hard limit would grow without the privilege.
\* The mutex is released either way.
SetLimit(t) ==
    /\ pc[t] = "set"
    /\ \/ /\ wanted[t][2] <= limit[2] \/ Privileged
          /\ limit' = wanted[t]
          /\ pc' = [pc EXCEPT ![t] = "relock"]
       \/ /\ wanted[t][2] > limit[2] /\ ~Privileged
          /\ pc' = [pc EXCEPT ![t] = "prefault"]
          /\ UNCHANGED limit
    /\ mutex' = mutex \ {t}
    /\ initial' = [initial EXCEPT ![t] = <<0, 0>>]
    /\ wanted' = [wanted EXCEPT ![t] = <<0, 0>>]
    /\ UNCHANGED <<size, backing>>

\* Mutant: mlock() is called until it succeeds.
RelockInsists(t) ==
    /\ pc[t] = "relock"
    /\ \/ "success" \in MlockAnswers(t) /\ Lock(t)
       \/ MlockAnswers(t) # {"success"} /\ UNCHANGED vars

\* Second and last mlock().
Relock(t) ==
    /\ pc[t] = "relock"
    /\ \/ "success" \in MlockAnswers(t) /\ Lock(t)
       \/ /\ MlockAnswers(t) # {"success"}
          /\ pc' = [pc EXCEPT ![t] = "prefault"]
          /\ UNCHANGED <<size, backing, limit, mutex, locals>>

\* Mutant: the pages are not touched.
PrefaultSkipped(t) ==
    /\ pc[t] = "prefault"
    /\ pc' = [pc EXCEPT ![t] = "idle"]
    /\ UNCHANGED <<size, backing, limit, mutex, locals>>

\* Write to every page instead.
Prefault(t) ==
    /\ pc[t] = "prefault"
    /\ backing' = [backing EXCEPT ![t] = "prefaulted"]
    /\ pc' = [pc EXCEPT ![t] = "idle"]
    /\ UNCHANGED <<size, limit, mutex, locals>>

\* realtime_liberate() with the size that was asked for: munmap() unlocks the
\* pages; the limit stays.
Liberate(t) ==
    /\ pc[t] = "idle"
    /\ size[t] # 0
    /\ size' = [size EXCEPT ![t] = 0]
    /\ backing' = [backing EXCEPT ![t] = "none"]
    /\ UNCHANGED <<pc, limit, mutex, locals>>

Step(t) ==
    \/ TryLock(t) \/ LockMutex(t) \/ QueryLimit(t) \/ DoubleLimit(t)
    \/ FitHardLimit(t) \/ SetLimit(t) \/ Relock(t) \/ Prefault(t)

Next == \E t \in Threads : Allocate(t) \/ Step(t) \/ Liberate(t)

\* A thread inside realtime_allocate() keeps running, and mtx_lock() does not
\* pass over a thread for ever.
Fairness == \A t \in Threads : WF_vars(Step(t)) /\ SF_vars(LockMutex(t))

Spec == Init /\ [][Next]_vars

FairSpec == Spec /\ Fairness
-----------------------------------------------------------------------------
(***************************************************************************)
(* No buffer is handed out that the kernel may still have to fault in: an  *)
(* allocated buffer is locked or pre-faulted, and covers what was asked.   *)
(***************************************************************************)
BuffersResident ==
    \A t \in Threads : pc[t] = "idle" =>
        IF size[t] = 0 THEN backing[t] = "none"
        ELSE backing[t] # "none" /\ size[t] % Granularity = 0

(***************************************************************************)
(* The limit that try_increase_mlock_budget() read is still the kernel's   *)
(* limit while it computes and until it writes: the mutex makes the read   *)
(* and the write one transaction among udipe threads.                      *)
(***************************************************************************)
LimitNotStale ==
    \A t \in Threads :
       /\ pc[t] \in {"query", "raise", "set"} => mutex = {t}
       /\ pc[t] \in {"raise", "set"} =>
             initial[t] = limit /\ wanted[t][1] >= limit[1]

(***************************************************************************)
(* What is locked never exceeds the budget, so that raising the budget by  *)
(* the size of an allocation is enough for it.                             *)
(***************************************************************************)
LockedWithinBudget == Locked <= limit[1]

(***************************************************************************)
(* Whatever the kernel answered, and to whom: buffers are resident, and    *)
(* the locked ones fit in the budget.                                      *)
(***************************************************************************)
MemoryConsistent == TypeOK /\ BuffersResident /\ LockedWithinBudget

(***************************************************************************)
(* A raise makes room: when setrlimit() succeeds, the buffer for which the *)
(* limit was raised fits at that moment.                                   *)
(***************************************************************************)
RaiseMakesRoom ==
    [][\A t \in Threads : pc[t] = "set" /\ pc'[t] = "relock"
          => Fits(t)']_vars

(***************************************************************************)
(* realtime_allocate() returns, whichever of its answers mlock() gives:    *)
(* the doubling loop ends and the mutex is released on every path.  This   *)
(* is claimed of processes whose hard limit is at most half the range of   *)
(* rlim_t, less a request, or whose soft limit is infinite too.  Below an  *)
(* infinite hard limit it is false: each ENOMEM for too many mappings      *)
(* doubles the soft limit, which wraps around to zero in the end, and then *)
(* the loop doubles zero for ever with the mutex held.                     *)
(***************************************************************************)
AllocateReturns ==
    \A t \in Threads : pc[t] # "idle" ~> pc[t] = "idle"
=============================================================================
