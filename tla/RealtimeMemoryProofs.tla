------------------------ MODULE RealtimeMemoryProofs ------------------------
(***************************************************************************)
(* Proofs about RealtimeMemory, for every number of threads, width of the  *)
(* limits, page size and set of requests: what realtime_allocate() returns *)
(* is resident, try_increase_mlock_budget() reads and writes the limit as  *)
(* one transaction, and what is locked fits in the limit of the kernel.    *)
(***************************************************************************)
EXTENDS RealtimeMemory, FiniteSetTheorems, WellFoundedInduction, TLAPS

-----------------------------------------------------------------------------
(* Arithmetic.                                                             *)

\* A natural number is its quotient and its remainder.
LEMMA Division ==
    ASSUME NEW i \in Nat, NEW B \in Nat, B > 0
    PROVE  /\ i \div B \in Nat
           /\ i % B \in Nat
           /\ i % B < B
           /\ i = (i \div B) * B + (i % B)
<1>1. i \div B \in Int /\ i % B \in Int /\ 0 <= i % B /\ i % B < B
  OBVIOUS
<1>2. i = (i \div B) * B + (i % B)
  OBVIOUS
<1>3. i \div B >= 0
  BY <1>1, <1>2
<1>4. QED
  BY <1>1, <1>2, <1>3

\* Numbers are ordered by their quotients first.
LEMMA DivisionOrder ==
    ASSUME NEW B \in Nat, NEW v \in Int, NEW w \in Int, v < w,
           NEW o \in Nat, o < B, NEW p \in Nat
    PROVE  v * B + o < w * B + p
<1>1. (v + 1) * B <= w * B
  OBVIOUS
<1>2. (v + 1) * B = v * B + B
  OBVIOUS
<1>3. v * B \in Int /\ w * B \in Int
  OBVIOUS
<1>4. QED
  BY <1>1, <1>2, <1>3

\* Quotient and remainder are the only such numbers.
LEMMA DivisionUnique ==
    ASSUME NEW B \in Nat, NEW q \in Nat, NEW r \in Nat, r < B
    PROVE  /\ q * B + r \in Nat
           /\ (q * B + r) \div B = q
           /\ (q * B + r) % B = r
<1>1. PICK i : i = q * B + r
  OBVIOUS
<1>2. i \in Nat
  BY <1>1
<1>3. /\ i \div B \in Nat /\ i % B \in Nat /\ i % B < B
      /\ i = (i \div B) * B + (i % B)
  BY <1>2, Division
<1>4. ~(i \div B < q)
  BY <1>1, <1>2, <1>3, DivisionOrder
<1>5. ~(q < i \div B)
  BY <1>1, <1>2, <1>3, DivisionOrder
<1>6. i \div B = q
  <2>1. PICK n \in Nat : n = i \div B
    BY <1>3
  <2>2. QED
    BY <1>4, <1>5, <2>1
<1>7. q * B \in Nat
  OBVIOUS
<1>8. i % B = r
  BY <1>1, <1>3, <1>6, <1>7
<1>9. QED
  BY <1>1, <1>2, <1>6, <1>8

\* Sizes are rounded up to whole pages and stay below the width of size_t.
LEMMA SizesFit ==
    ASSUME NEW n \in Requests
    PROVE  /\ allocation_size(n) \in Bytes /\ allocation_size(n) # 0
           /\ allocation_size(n) % Granularity = 0
<1>1. /\ Granularity \in Nat /\ Granularity > 0 /\ 2^LimitBits \in Nat
      /\ n \in 1..(2^LimitBits - Granularity)
  BY MemoryAssumption
<1>2. PICK P \in Nat : P = 2^LimitBits
  BY <1>1
<1>3. n \in Nat /\ n > 0 /\ n <= P - Granularity /\ Bytes = 0..(P - 1)
  BY <1>1, <1>2 DEF Bytes
<1>4. PICK q \in Nat, m \in Nat : /\ q = n \div Granularity /\ m = n % Granularity
                                  /\ m < Granularity /\ n = q * Granularity + m
  BY <1>1, <1>3, Division
<1>5. CASE m = 0
  <2>1. allocation_size(n) = n
    BY <1>4, <1>5 DEF allocation_size
  <2>2. QED
    BY <1>1, <1>3, <1>4, <1>5, <2>1
<1>6. CASE m # 0
  <2>1. allocation_size(n) = n + (Granularity - m)
    BY <1>4, <1>6 DEF allocation_size
  <2>2. (q + 1) * Granularity = q * Granularity + Granularity /\ q * Granularity \in Nat
    BY <1>1
  <2>3. allocation_size(n) = (q + 1) * Granularity + 0
    BY <1>1, <1>4, <2>1, <2>2
  <2>4. ((q + 1) * Granularity + 0) % Granularity = 0
    <3>1. q + 1 \in Nat /\ 0 \in Nat /\ 0 < Granularity
      BY <1>1
    <3>2. QED
      BY <1>1, <3>1, DivisionUnique
  <2>5. allocation_size(n) \in 0..(P - 1) /\ allocation_size(n) # 0
    BY <1>1, <1>3, <1>4, <1>6, <2>1
  <2>6. QED
    BY <1>3, <2>3, <2>4, <2>5
<1>7. QED
  BY <1>5, <1>6

\* Remainders have the width of a limit, and small sums do not wrap.
LEMMA Wrapped ==
    ASSUME NEW x \in Nat
    PROVE  /\ x % 2^LimitBits \in Bytes
           /\ x < 2^LimitBits => x % 2^LimitBits = x
<1>1. PICK P \in Nat : P = 2^LimitBits /\ P > 0
  BY MemoryAssumption
<1>2. x % P \in Nat /\ x % P < P
  BY <1>1, Division
<1>3. x < P => x % P = x
  BY <1>1
<1>4. QED
  BY <1>1, <1>2, <1>3 DEF Bytes

-----------------------------------------------------------------------------
(* The invariant, thread by thread.                                        *)

Places == {"idle", "mapped", "blocked", "query", "raise", "set", "relock", "prefault"}

\* A thread in realtime_allocate() has a size, and what it returned with is
\* resident.
Resident(t) ==
    /\ pc[t] # "idle" => size[t] # 0
    /\ size[t] % Granularity = 0
    /\ pc[t] = "idle" => (backing[t] = "none" <=> size[t] = 0)

\* Who computes a limit holds the mutex, and started from the kernel's limit.
Transacts(t) ==
    /\ pc[t] \in {"query", "raise", "set"} => mutex = {t}
    /\ pc[t] \in {"raise", "set"} => initial[t] = limit

MInv == TypeOK /\ \A t \in Threads : Resident(t) /\ Transacts(t)

LEMMA InitHolds ==
    ASSUME Init
    PROVE  MInv
<1>1. PICK P \in Nat : P = 2^LimitBits /\ P > 0
  BY MemoryAssumption
<1>2. 0 \in Bytes /\ InitialLimits \subseteq Bytes \X Bytes
  BY <1>1, MemoryAssumption DEF Bytes
<1>3. TypeOK
  BY <1>2 DEF Init, TypeOK
<1>4. 0 % Granularity = 0
  BY MemoryAssumption
<1>5. QED
  BY <1>3, <1>4 DEF Init, MInv, Resident, Transacts

\* A step of thread t that leaves limit and mutex alone.
LEMMA LocalStep ==
    ASSUME MInv, NEW t \in Threads, TypeOK', limit' = limit, mutex' = mutex,
           \A s \in Threads : s # t => /\ pc'[s] = pc[s] /\ size'[s] = size[s]
                                       /\ backing'[s] = backing[s]
                                       /\ initial'[s] = initial[s],
           Resident(t)', Transacts(t)'
    PROVE  MInv'
<1>1. ASSUME NEW s \in Threads, s # t
      PROVE  Resident(s)' /\ Transacts(s)'
  BY <1>1 DEF MInv, Resident, Transacts
<1>2. QED
  BY <1>1 DEF MInv

LEMMA AllocateHolds ==
    ASSUME MInv, NEW t \in Threads, Allocate(t)
    PROVE  MInv'
<1>1. PICK n \in Requests : size' = [size EXCEPT ![t] = allocation_size(n)]
  BY DEF Allocate
<1>2. /\ allocation_size(n) \in Bytes /\ allocation_size(n) # 0
      /\ allocation_size(n) % Granularity = 0
  BY SizesFit
<1>3. TypeOK'
  BY <1>1, <1>2 DEF MInv, TypeOK, Allocate, locals
<1>4. size'[t] = allocation_size(n) /\ pc'[t] = "mapped"
  BY <1>1 DEF MInv, TypeOK, Allocate
<1>5. Resident(t)' /\ Transacts(t)'
  BY <1>2, <1>4 DEF Resident, Transacts
<1>6. /\ limit' = limit /\ mutex' = mutex
      /\ \A s \in Threads : s # t => /\ pc'[s] = pc[s] /\ size'[s] = size[s]
                                     /\ backing'[s] = backing[s]
                                     /\ initial'[s] = initial[s]
  BY <1>1 DEF MInv, TypeOK, Allocate, locals
<1>7. QED
  BY <1>3, <1>5, <1>6, LocalStep

\* The steps that end or direct an attempt to lock.
LEMMA LockingHolds ==
    ASSUME MInv, NEW t \in Threads, TryLock(t) \/ Relock(t) \/ Prefault(t)
    PROVE  MInv'
<1>1. \E p \in {"blocked", "prefault", "idle"}, b \in {"locked", "prefaulted", backing[t]} :
         /\ pc' = [pc EXCEPT ![t] = p] /\ backing' = [backing EXCEPT ![t] = b]
         /\ p = "idle" => b # "none"
  <2>1. backing = [backing EXCEPT ![t] = backing[t]]
    BY DEF MInv, TypeOK
  <2>2. CASE TryLock(t)
    BY <2>1, <2>2 DEF TryLock, Lock
  <2>3. CASE Relock(t)
    BY <2>1, <2>3 DEF Relock, Lock
  <2>4. CASE Prefault(t)
    BY <2>4 DEF Prefault
  <2>5. QED
    BY <2>2, <2>3, <2>4
<1>2. UNCHANGED <<size, limit, mutex, initial, wanted>> /\ pc[t] # "idle"
  BY DEF TryLock, Relock, Prefault, Lock, locals
<1>3. PICK p \in {"blocked", "prefault", "idle"}, b \in {"locked", "prefaulted", backing[t]} :
         /\ pc' = [pc EXCEPT ![t] = p] /\ backing' = [backing EXCEPT ![t] = b]
         /\ p = "idle" => b # "none"
  BY <1>1
<1>4. b \in {"none", "locked", "prefaulted"}
  BY DEF MInv, TypeOK
<1>5. TypeOK'
  BY <1>2, <1>3, <1>4 DEF MInv, TypeOK
<1>6. pc'[t] = p /\ backing'[t] = b
  BY <1>3 DEF MInv, TypeOK
<1>7. size[t] # 0 /\ size[t] % Granularity = 0
  BY <1>2 DEF MInv, Resident
<1>8. Resident(t)' /\ Transacts(t)'
  BY <1>2, <1>3, <1>6, <1>7 DEF Resident, Transacts
<1>9. \A s \in Threads : s # t => /\ pc'[s] = pc[s] /\ size'[s] = size[s]
                                  /\ backing'[s] = backing[s]
                                  /\ initial'[s] = initial[s]
  BY <1>2, <1>3 DEF MInv, TypeOK
<1>10. QED
  BY <1>2, <1>5, <1>8, <1>9, LocalStep

LEMMA LiberateHolds ==
    ASSUME MInv, NEW t \in Threads, Liberate(t)
    PROVE  MInv'
<1>1. 0 \in Bytes /\ 0 % Granularity = 0
  BY MemoryAssumption DEF Bytes
<1>2. TypeOK'
  BY <1>1 DEF MInv, TypeOK, Liberate, locals
<1>3. /\ size'[t] = 0 /\ backing'[t] = "none" /\ pc'[t] = "idle"
      /\ limit' = limit /\ mutex' = mutex
      /\ \A s \in Threads : s # t => /\ pc'[s] = pc[s] /\ size'[s] = size[s]
                                     /\ backing'[s] = backing[s]
                                     /\ initial'[s] = initial[s]
  BY DEF MInv, TypeOK, Liberate, locals
<1>4. Resident(t)' /\ Transacts(t)'
  BY <1>1, <1>3 DEF Resident, Transacts
<1>5. QED
  BY <1>2, <1>3, <1>4, LocalStep

LEMMA LockMutexHolds ==
    ASSUME MInv, NEW t \in Threads, LockMutex(t)
    PROVE  MInv'
<1>1. TypeOK'
  BY DEF MInv, TypeOK, LockMutex, locals
<1>2. /\ pc'[t] = "query" /\ mutex' = {t} /\ mutex = {}
      /\ UNCHANGED <<size, backing, limit, initial>>
      /\ \A s \in Threads : s # t => pc'[s] = pc[s]
  BY DEF MInv, TypeOK, LockMutex, locals
<1>3. pc[t] # "idle"
  BY DEF LockMutex
<1>4. ASSUME NEW s \in Threads
      PROVE  Resident(s)' /\ Transacts(s)'
  BY <1>2, <1>3 DEF MInv, Resident, Transacts
<1>5. QED
  BY <1>1, <1>4 DEF MInv

LEMMA QueryHolds ==
    ASSUME MInv, NEW t \in Threads, QueryLimit(t)
    PROVE  MInv'
<1>1. TypeOK'
  BY DEF MInv, TypeOK, QueryLimit
<1>2. /\ pc[t] = "query" /\ pc'[t] = "raise" /\ initial'[t] = limit
      /\ UNCHANGED <<size, backing, limit, mutex>>
      /\ \A s \in Threads : s # t => /\ pc'[s] = pc[s] /\ size'[s] = size[s]
                                     /\ backing'[s] = backing[s]
                                     /\ initial'[s] = initial[s]
  BY DEF MInv, TypeOK, QueryLimit
<1>3. Resident(t)' /\ Transacts(t)'
  BY <1>2 DEF MInv, Resident, Transacts
<1>4. QED
  BY <1>1, <1>2, <1>3, LocalStep

\* The values that the computation of a limit may have.
LEMMA DoubleEffect ==
    ASSUME MInv, NEW t \in Threads, DoubleLimit(t)
    PROVE  /\ wanted' \in [Threads -> Bytes \X Bytes]
           /\ wanted'[t][1] = (2 * wanted[t][1]) % 2^LimitBits
           /\ wanted'[t][2] = wanted[t][2]
           /\ \A s \in Threads : s # t => wanted'[s] = wanted[s]
<1>1. PICK a \in Bytes, b \in Bytes : wanted[t] = <<a, b>>
  BY DEF MInv, TypeOK
<1>2. a \in Nat
  BY MemoryAssumption DEF Bytes
<1>3. PICK c \in Bytes : c = (2 * a) % 2^LimitBits
  <2>1. PICK x \in Nat : x = 2 * a
    BY <1>2
  <2>2. x % 2^LimitBits \in Bytes
    BY <2>1, Wrapped
  <2>3. QED
    BY <2>1, <2>2
<1>4. wanted' = [wanted EXCEPT ![t] = [wanted[t] EXCEPT ![1] = (2 * wanted[t][1]) % 2^LimitBits]]
  BY DEF DoubleLimit
<1>5. [wanted[t] EXCEPT ![1] = (2 * wanted[t][1]) % 2^LimitBits] = <<c, b>>
  BY <1>1, <1>3
<1>6. wanted' = [wanted EXCEPT ![t] = <<c, b>>]
  BY <1>4, <1>5
<1>7. QED
  BY <1>1, <1>3, <1>6 DEF MInv, TypeOK

LEMMA FitEffect ==
    ASSUME MInv, NEW t \in Threads, FitHardLimit(t)
    PROVE  /\ wanted' \in [Threads -> Bytes \X Bytes]
           /\ \/ wanted[t][1] <= wanted[t][2] /\ wanted'[t] = wanted[t]
              \/ /\ wanted[t][1] > wanted[t][2]
                 /\ wanted'[t] = <<wanted[t][2], wanted[t][2]>>
              \/ /\ wanted[t][1] > wanted[t][2]
                 /\ wanted'[t] = <<wanted[t][1], wanted[t][1]>>
           /\ \A s \in Threads : s # t => wanted'[s] = wanted[s]
<1>1. PICK a \in Bytes, b \in Bytes : wanted[t] = <<a, b>>
  BY DEF MInv, TypeOK
<1>2. a \in Nat /\ b \in Nat
  BY MemoryAssumption DEF Bytes
<1>3. wanted' = [wanted EXCEPT ![t] =
                   IF a <= b THEN wanted[t]
                   ELSE IF b - initial[t][1] >= size[t] THEN <<b, b>> ELSE <<a, a>>]
  BY <1>1 DEF FitHardLimit
<1>4. PICK w \in Bytes \X Bytes : /\ wanted' = [wanted EXCEPT ![t] = w]
                                  /\ \/ a <= b /\ w = <<a, b>>
                                     \/ ~(a <= b) /\ w = <<b, b>>
                                     \/ ~(a <= b) /\ w = <<a, a>>
  BY <1>1, <1>3
<1>5. wanted'[t] = w /\ wanted' \in [Threads -> Bytes \X Bytes]
  BY <1>4 DEF MInv, TypeOK
<1>6. QED
  BY <1>1, <1>2, <1>4, <1>5 DEF MInv, TypeOK

LEMMA RaiseHolds ==
    ASSUME MInv, NEW t \in Threads, DoubleLimit(t) \/ FitHardLimit(t)
    PROVE  MInv'
<1>1. wanted' \in [Threads -> Bytes \X Bytes]
  BY DoubleEffect, FitEffect
<1>2. /\ pc[t] = "raise" /\ UNCHANGED <<size, backing, limit, mutex, initial>>
      /\ pc' = pc \/ pc' = [pc EXCEPT ![t] = "set"]
  BY DEF DoubleLimit, FitHardLimit
<1>3. TypeOK'
  BY <1>1, <1>2 DEF MInv, TypeOK
<1>4. pc'[t] \in {"raise", "set"} /\ \A s \in Threads : s # t => pc'[s] = pc[s]
  BY <1>2 DEF MInv, TypeOK
<1>5. Resident(t)' /\ Transacts(t)'
  BY <1>2, <1>4 DEF MInv, Resident, Transacts
<1>6. QED
  BY <1>2, <1>3, <1>4, <1>5, LocalStep

LEMMA SetEffect ==
    ASSUME MInv, NEW t \in Threads, SetLimit(t)
    PROVE  /\ TypeOK' /\ pc[t] = "set" /\ mutex = {t} /\ initial[t] = limit
           /\ pc'[t] \in {"relock", "prefault"} /\ size' = size /\ backing' = backing
           /\ limit' = limit \/ (limit' = wanted[t] /\ (wanted[t][2] <= limit[2] \/ Privileged))
           /\ \A s \in Threads : s # t => /\ pc'[s] = pc[s] /\ initial'[s] = initial[s]
                                          /\ wanted'[s] = wanted[s]
<1>1. <<0, 0>> \in Bytes \X Bytes /\ wanted[t] \in Bytes \X Bytes
  BY MemoryAssumption DEF Bytes, MInv, TypeOK
<1>2. TypeOK'
  BY <1>1 DEF MInv, TypeOK, SetLimit
<1>3. pc[t] = "set" /\ mutex = {t} /\ initial[t] = limit
  BY DEF MInv, Transacts, SetLimit
<1>4. QED
  BY <1>2, <1>3 DEF MInv, TypeOK, SetLimit

LEMMA SetHolds ==
    ASSUME MInv, NEW t \in Threads, SetLimit(t)
    PROVE  MInv'
<1>1. ASSUME NEW s \in Threads
      PROVE  Resident(s)' /\ Transacts(s)'
  <2>1. CASE s = t
    BY <2>1, SetEffect DEF MInv, Resident, Transacts
  <2>2. CASE s # t
    <3>1. pc[s] \notin {"query", "raise", "set"}
      BY <2>2, SetEffect DEF MInv, Transacts
    <3>2. QED
      BY <2>2, <3>1, SetEffect DEF MInv, Resident, Transacts
  <2>3. QED
    BY <2>1, <2>2
<1>2. QED
  BY <1>1, SetEffect DEF MInv

LEMMA NextHolds ==
    ASSUME MInv, [Next]_vars
    PROVE  MInv'
<1>1. CASE Next
  <2>1. PICK t \in Threads : Allocate(t) \/ Step(t) \/ Liberate(t)
    BY <1>1 DEF Next
  <2>2. QED
    BY <2>1, AllocateHolds, LiberateHolds, LockingHolds, LockMutexHolds, QueryHolds,
       RaiseHolds, SetHolds DEF Step
<1>2. CASE UNCHANGED vars
  BY <1>2 DEF vars, MInv, TypeOK, Resident, Transacts
<1>3. QED
  BY <1>1, <1>2

(***************************************************************************)
(* For every number of threads and every answer of the kernel, privileged  *)
(* or not: a buffer that realtime_allocate() returned is locked or         *)
(* pre-faulted, and has the size that allocation_size() promises.          *)
(***************************************************************************)
THEOREM MemoryResident == Spec => [](TypeOK /\ BuffersResident)
<1>1. Init => MInv
  BY InitHolds
<1>2. MInv /\ [Next]_vars => MInv'
  BY NextHolds
<1>3. MInv => TypeOK /\ BuffersResident
  BY DEF MInv, Resident, BuffersResident
<1>4. QED
  BY <1>1, <1>2, <1>3, PTL DEF Spec

(***************************************************************************)
(* mlock_budget_mutex makes getrlimit() and setrlimit() one transaction:   *)
(* while a thread computes a limit, the one it has read is the kernel's.   *)
(***************************************************************************)
THEOREM MemoryTransaction == Spec => [](\A t \in Threads : Transacts(t))
<1>1. Init => MInv
  BY InitHolds
<1>2. MInv /\ [Next]_vars => MInv'
  BY NextHolds
<1>3. MInv => \A t \in Threads : Transacts(t)
  BY DEF MInv
<1>4. QED
  BY <1>1, <1>2, <1>3, PTL DEF Spec

-----------------------------------------------------------------------------
(* The doubling loop.  It stays below the width of rlim_t if twice the     *)
(* hard limit and any request fit, and only a privileged process may raise *)
(* the hard limit.                                                         *)

NoWrap ==
    /\ ~Privileged
    /\ \A l \in InitialLimits, n \in Requests :
          2 * (l[2] + allocation_size(n)) <= 2^LimitBits

SizeFits(x, hard) == 2 * (hard + x) <= 2^LimitBits

\* The soft limit is below the hard one, for the kernel and for the thread
\* that is about to write them; no thread lowers the soft limit.
Raises(t) ==
    /\ size[t] # 0 => SizeFits(size[t], limit[2])
    /\ pc[t] \in {"raise", "set"} => wanted[t][1] >= limit[1]
    /\ pc[t] = "raise" => wanted[t][2] = limit[2]
    /\ pc[t] = "set" => wanted[t][1] <= wanted[t][2]

BInv ==
    /\ limit[1] <= limit[2]
    /\ \A n \in Requests : SizeFits(allocation_size(n), limit[2])
    /\ \A t \in Threads : Raises(t)

LEMMA LimitsAreNumbers ==
    ASSUME MInv
    PROVE  /\ 2^LimitBits \in Nat /\ Bytes \subseteq Nat
           /\ limit[1] \in Nat /\ limit[2] \in Nat
           /\ \A t \in Threads : /\ wanted[t][1] \in Nat /\ wanted[t][2] \in Nat
                                 /\ size[t] \in Nat
<1>1. 2^LimitBits \in Nat /\ Bytes \subseteq Nat
  BY MemoryAssumption DEF Bytes
<1>2. limit \in Bytes \X Bytes /\ wanted \in [Threads -> Bytes \X Bytes]
      /\ size \in [Threads -> Bytes]
  BY DEF MInv, TypeOK
<1>3. limit[1] \in Bytes /\ limit[2] \in Bytes
  BY <1>2
<1>4. ASSUME NEW t \in Threads
      PROVE  wanted[t][1] \in Bytes /\ wanted[t][2] \in Bytes /\ size[t] \in Bytes
  <2>1. wanted[t] \in Bytes \X Bytes /\ size[t] \in Bytes
    BY <1>2
  <2>2. QED
    BY <2>1
<1>5. QED
  BY <1>1, <1>3, <1>4

\* Threads that a step of t does not concern.
LEMMA OthersRaise ==
    ASSUME BInv, NEW t \in Threads, limit' = limit,
           \A s \in Threads : s # t => /\ pc'[s] = pc[s] /\ size'[s] = size[s]
                                       /\ wanted'[s] = wanted[s],
           Raises(t)'
    PROVE  BInv'
<1>1. ASSUME NEW s \in Threads, s # t
      PROVE  Raises(s)'
  BY <1>1 DEF BInv, Raises
<1>2. QED
  BY <1>1 DEF BInv

LEMMA DoubleRaises ==
    ASSUME MInv, BInv, NEW t \in Threads, DoubleLimit(t)
    PROVE  BInv'
<1>1. PICK P \in Nat, w \in Nat, c \in Nat, h \in Nat, z \in Nat :
         /\ P = 2^LimitBits /\ w = wanted[t][1] /\ c = limit[1] /\ h = limit[2]
         /\ z = size[t]
  BY LimitsAreNumbers
<1>2. pc[t] = "raise" /\ initial[t] = limit /\ size[t] # 0
  BY DEF DoubleLimit, MInv, Transacts, Resident
<1>3. c <= h /\ 2 * (h + z) <= P /\ w >= c
  BY <1>1, <1>2 DEF BInv, Raises, SizeFits
<1>4. c + z < P
  <2>1. z > 0
    BY <1>1, <1>2
  <2>2. QED
    BY <1>3, <2>1
<1>5. (c + z) % 2^LimitBits = c + z
  <2>1. PICK x \in Nat : x = c + z
    OBVIOUS
  <2>2. x < 2^LimitBits => x % 2^LimitBits = x
    BY <2>1, Wrapped
  <2>3. QED
    BY <1>1, <1>4, <2>1, <2>2
<1>6. w < c + z
  BY <1>1, <1>2, <1>5 DEF DoubleLimit, Needed
<1>7. (2 * w) % 2^LimitBits = 2 * w
  <2>1. PICK x \in Nat : x = 2 * w
    OBVIOUS
  <2>2. x < 2^LimitBits => x % 2^LimitBits = x
    BY <2>1, Wrapped
  <2>3. x < P
    BY <1>3, <1>6, <2>1
  <2>4. QED
    BY <1>1, <2>1, <2>2, <2>3
<1>8. /\ wanted'[t][1] = 2 * w /\ wanted'[t][2] = wanted[t][2]
      /\ \A s \in Threads : s # t => wanted'[s] = wanted[s]
  BY <1>1, <1>7, DoubleEffect
<1>9. UNCHANGED <<pc, size, limit>>
  BY DEF DoubleLimit
<1>10. 2 * w >= c
  BY <1>3
<1>11. Raises(t)'
  BY <1>1, <1>2, <1>8, <1>9, <1>10 DEF BInv, Raises
<1>12. QED
  BY <1>8, <1>9, <1>11, OthersRaise

LEMMA FitRaises ==
    ASSUME MInv, BInv, NEW t \in Threads, FitHardLimit(t)
    PROVE  BInv'
<1>1. PICK a \in Nat, b \in Nat, c \in Nat :
         /\ wanted[t][1] = a /\ wanted[t][2] = b /\ limit[1] = c
  BY LimitsAreNumbers
<1>2. /\ pc[t] = "raise" /\ limit' = limit /\ size' = size /\ pc'[t] = "set"
      /\ \A s \in Threads : s # t => pc'[s] = pc[s]
  BY DEF FitHardLimit, MInv, TypeOK
<1>3. a >= c /\ b >= c
  BY <1>1, <1>2, LimitsAreNumbers DEF BInv, Raises
<1>4. /\ \/ a <= b /\ wanted'[t] = wanted[t]
         \/ a > b /\ wanted'[t] = <<b, b>>
         \/ a > b /\ wanted'[t] = <<a, a>>
      /\ \A s \in Threads : s # t => wanted'[s] = wanted[s]
  BY <1>1, FitEffect
<1>5. wanted'[t][1] >= c /\ wanted'[t][1] <= wanted'[t][2]
  BY <1>1, <1>3, <1>4
<1>6. Raises(t)'
  BY <1>1, <1>2, <1>5 DEF BInv, Raises
<1>7. QED
  BY <1>2, <1>4, <1>6, OthersRaise

LEMMA SetRaises ==
    ASSUME ~Privileged, MInv, BInv, NEW t \in Threads, SetLimit(t)
    PROVE  BInv'
<1>1. /\ pc[t] = "set" /\ mutex = {t}
      /\ pc'[t] \in {"relock", "prefault"} /\ size' = size
      /\ limit' = limit \/ (limit' = wanted[t] /\ wanted[t][2] <= limit[2])
      /\ \A s \in Threads : s # t => pc'[s] = pc[s] /\ wanted'[s] = wanted[s]
  BY SetEffect
<1>2. wanted[t][1] <= wanted[t][2]
  BY <1>1 DEF BInv, Raises
<1>3. limit'[1] <= limit'[2] /\ limit'[2] <= limit[2] /\ limit'[2] \in Nat
  BY <1>1, <1>2, LimitsAreNumbers DEF BInv
<1>4. ASSUME NEW x \in Nat, SizeFits(x, limit[2])
      PROVE  SizeFits(x, limit'[2])
  BY <1>3, <1>4, LimitsAreNumbers DEF SizeFits
<1>5. ASSUME NEW n \in Requests
      PROVE  SizeFits(allocation_size(n), limit'[2])
  BY <1>4, SizesFit, LimitsAreNumbers DEF BInv
<1>6. ASSUME NEW s \in Threads
      PROVE  Raises(s)'
  <2>1. size'[s] # 0 => SizeFits(size'[s], limit'[2])
    BY <1>1, <1>4, LimitsAreNumbers DEF BInv, Raises
  <2>2. pc'[s] \notin {"raise", "set"}
    BY <1>1 DEF MInv, Transacts
  <2>3. QED
    BY <2>1, <2>2 DEF Raises
<1>7. QED
  BY <1>3, <1>5, <1>6 DEF BInv

LEMMA NextRaises ==
    ASSUME ~Privileged, MInv, BInv, [Next]_vars
    PROVE  BInv'
<1>1. ASSUME NEW t \in Threads, Allocate(t)
      PROVE  BInv'
  <2>1. PICK n \in Requests : size' = [size EXCEPT ![t] = allocation_size(n)]
    BY <1>1 DEF Allocate
  <2>2. /\ limit' = limit /\ wanted' = wanted /\ size'[t] = allocation_size(n)
        /\ pc'[t] = "mapped"
        /\ \A s \in Threads : s # t => pc'[s] = pc[s] /\ size'[s] = size[s]
    BY <1>1, <2>1 DEF Allocate, MInv, TypeOK, locals
  <2>3. Raises(t)'
    BY <2>2 DEF BInv, Raises
  <2>4. QED
    BY <2>2, <2>3, OthersRaise
<1>2. ASSUME NEW t \in Threads, Liberate(t)
      PROVE  BInv'
  <2>1. /\ limit' = limit /\ wanted' = wanted /\ size'[t] = 0 /\ pc'[t] = "idle"
        /\ \A s \in Threads : s # t => pc'[s] = pc[s] /\ size'[s] = size[s]
    BY <1>2 DEF Liberate, MInv, TypeOK, locals
  <2>2. Raises(t)'
    BY <2>1 DEF Raises
  <2>3. QED
    BY <2>1, <2>2, OthersRaise
<1>3. ASSUME NEW t \in Threads, TryLock(t) \/ Relock(t) \/ Prefault(t) \/ LockMutex(t)
      PROVE  BInv'
  <2>1. /\ limit' = limit /\ wanted' = wanted /\ size' = size
        /\ \E p \in {"idle", "blocked", "prefault", "query"} : pc' = [pc EXCEPT ![t] = p]
    BY <1>3 DEF TryLock, Relock, Prefault, LockMutex, Lock, locals
  <2>2. pc'[t] \notin {"raise", "set"} /\ \A s \in Threads : s # t => pc'[s] = pc[s]
    BY <2>1 DEF MInv, TypeOK
  <2>3. Raises(t)'
    BY <2>1, <2>2 DEF BInv, Raises
  <2>4. QED
    BY <2>1, <2>2, <2>3, OthersRaise
<1>4. ASSUME NEW t \in Threads, QueryLimit(t)
      PROVE  BInv'
  <2>1. /\ limit' = limit /\ size' = size /\ pc'[t] = "raise" /\ wanted'[t] = limit
        /\ \A s \in Threads : s # t => pc'[s] = pc[s] /\ wanted'[s] = wanted[s]
    BY <1>4 DEF QueryLimit, MInv, TypeOK
  <2>2. Raises(t)'
    BY <2>1, LimitsAreNumbers DEF BInv, Raises
  <2>3. QED
    BY <2>1, <2>2, OthersRaise
<1>5. CASE Next
  <2>1. PICK t \in Threads : Allocate(t) \/ Step(t) \/ Liberate(t)
    BY <1>5 DEF Next
  <2>2. QED
    BY <1>1, <1>2, <1>3, <1>4, <2>1, DoubleRaises, FitRaises, SetRaises DEF Step
<1>6. CASE UNCHANGED vars
  BY <1>6 DEF vars, BInv, Raises
<1>7. QED
  BY <1>5, <1>6

LEMMA InitRaises ==
    ASSUME NoWrap, Init
    PROVE  BInv
<1>1. limit \in InitialLimits /\ limit[1] <= limit[2]
  BY MemoryAssumption DEF Init
<1>2. \A n \in Requests : SizeFits(allocation_size(n), limit[2])
  BY <1>1 DEF NoWrap, SizeFits
<1>3. QED
  BY <1>1, <1>2 DEF Init, BInv, Raises

(***************************************************************************)
(* Without CAP_SYS_RESOURCE and with a hard limit that is not close to the *)
(* width of rlim_t, try_increase_mlock_budget() never works on a limit     *)
(* that is out of date and never lowers the soft limit: the doubling loop  *)
(* does not wrap.                                                          *)
(***************************************************************************)
THEOREM MemoryLimitNotStale == NoWrap /\ Spec => []LimitNotStale
<1>1. Init => MInv
  BY InitHolds
<1>2. MInv /\ [Next]_vars => MInv'
  BY NextHolds
<1>3. NoWrap /\ Init => BInv
  BY InitRaises
<1>4. NoWrap /\ MInv /\ BInv /\ [Next]_vars => BInv'
  BY NextRaises DEF NoWrap
<1>5. MInv /\ BInv => LimitNotStale
  BY DEF MInv, BInv, Transacts, Raises, LimitNotStale
<1>6. NoWrap => []NoWrap
  <2>1. NoWrap => NoWrap'
    BY DEF NoWrap
  <2>2. QED
    BY <2>1, PTL
<1>7. QED
  BY <1>1, <1>2, <1>3, <1>4, <1>5, <1>6, PTL DEF Spec

-----------------------------------------------------------------------------
(* What is locked.  The sum of the sizes of the locked buffers is the      *)
(* library's fold over a set, a recursive function on its subsets; what is *)
(* needed of it follows from the least number for which it would fail.     *)

\* Every non-empty set of natural numbers has a least element.  The inductions
\* below look at the least number for which a claim fails.
LEMMA LeastNumber ==
  ASSUME NEW N, N \subseteq Nat, N # {}
  PROVE  \E n \in N : \A m \in N : n <= m
<1> DEFINE T == {0 .. n : n \in N}
<1>1. T \subseteq FiniteSubsetsOf(Nat) /\ T # {}
  <2>1. \A n \in N : 0 .. n \in SUBSET Nat /\ IsFiniteSet(0 .. n)
    BY FS_Interval
  <2>2. QED
    BY <2>1 DEF FiniteSubsetsOf
<1>2. PICK x \in T : \A y \in T : <<y, x>> \notin StrictSubsetOrdering(Nat)
  <2>1. IsWellFoundedOn(StrictSubsetOrdering(Nat), FiniteSubsetsOf(Nat))
    BY FS_StrictSubsetOrderingWellFounded
  <2> HIDE DEF T
  <2>2. QED
    BY <1>1, <2>1, WFMin
<1>3. PICK n \in N : x = 0 .. n
  OBVIOUS
<1>4. ASSUME NEW m \in N, m < n
      PROVE  FALSE
  <2>1. 0 .. m \in T /\ 0 .. m \subseteq 0 .. n /\ 0 .. m # 0 .. n
    <3>1. n \in 0 .. n /\ n \notin 0 .. m
      BY <1>4
    <3>2. QED
      BY <1>4, <3>1
  <2>2. <<0 .. m, 0 .. n>> \in StrictSubsetOrdering(Nat)
    <3>1. 0 .. m \in SUBSET Nat /\ 0 .. n \in SUBSET Nat
      OBVIOUS
    <3>2. QED
      BY <2>1, <3>1 DEF StrictSubsetOrdering
  <2>3. QED
    BY <1>2, <1>3, <2>1, <2>2
<1>5. QED
  BY <1>4

\* The member of s that a sum takes first.
First(s) == CHOOSE x \in s : TRUE

\* One turn of the sum of f over a set, and the sums over all subsets of S.
SumTurn(f, g, s) == IF s = {} THEN 0 ELSE f[First(s)] + g[s \ {First(s)}]

Sums(g, f, S) == g = [s \in SUBSET S |-> SumTurn(f, g, s)]

SumOf(f, S) == MapThenSumSet(LAMBDA x : f[x], S)

\* A sum is what its last turn computes.
LEMMA SumIsTurn ==
  ASSUME NEW f, NEW S
  PROVE  SumOf(f, S) = (CHOOSE g : Sums(g, f, S))[S]
BY DEF SumOf, MapThenSumSet, MapThenFoldSet, Sums, SumTurn, First

\* What is known of the subset that is left in a turn.
LEMMA OneLess ==
  ASSUME NEW S, IsFiniteSet(S), NEW s \in SUBSET S
  PROVE  /\ IsFiniteSet(s) /\ Cardinality(s) \in Nat
         /\ Cardinality(s) = 0 <=> s = {}
         /\ s # {} => First(s) \in s
         /\ \A x \in s : /\ s \ {x} \in SUBSET S /\ Cardinality(s \ {x}) = Cardinality(s) - 1
                         /\ Cardinality(s \ {x}) \in Nat
<1>1. IsFiniteSet(s) /\ Cardinality(s) \in Nat
  BY FS_Subset, FS_CardinalityType
<1>2. Cardinality(s) = 0 <=> s = {}
  BY <1>1, FS_EmptySet
<1>3. s # {} => First(s) \in s
  BY DEF First
<1>4. ASSUME NEW x \in s
      PROVE  /\ s \ {x} \in SUBSET S /\ Cardinality(s \ {x}) = Cardinality(s) - 1
             /\ Cardinality(s \ {x}) \in Nat
  BY <1>1, FS_RemoveElement, FS_CardinalityType
<1>5. QED
  BY <1>1, <1>2, <1>3, <1>4

\* The sums over the subsets of a finite set are well defined: over the ones
\* with at most k members, by the least k for which they are not.
LEMMA SumsExist ==
  ASSUME NEW f, NEW S, IsFiniteSet(S)
  PROVE  \E g : Sums(g, f, S)
<1> DEFINE Small(k) == {s \in SUBSET S : Cardinality(s) <= k}
           Upto(g, k) == \A s \in Small(k) : g[s] = SumTurn(f, g, s)
           Bad == {k \in Nat : ~\E g : Upto(g, k)}
<1>1. ASSUME Bad # {} PROVE FALSE
  <2>1. PICK k \in Bad : \A x \in Bad : k <= x
    BY <1>1, LeastNumber
  <2>2. k \in Nat /\ ~\E g : Upto(g, k)
    BY <2>1
  <2>3. CASE k = 0
    <3>1. PICK g : g = [s \in SUBSET S |-> 0]
      OBVIOUS
    <3>2. ASSUME NEW s \in Small(k) PROVE g[s] = SumTurn(f, g, s)
      <4>1. s = {}
        BY <2>3, OneLess
      <4>2. QED
        BY <3>1, <4>1 DEF SumTurn
    <3>3. QED
      BY <2>2, <3>2
  <2>4. CASE k # 0
    <3>1. k - 1 \in Nat /\ k - 1 \notin Bad
      BY <2>1, <2>2, <2>4
    <3>2. PICK g : Upto(g, k - 1)
      BY <3>1
    <3>3. PICK h : h = [s \in SUBSET S |-> IF Cardinality(s) <= k - 1 THEN g[s] ELSE SumTurn(f, g, s)]
      OBVIOUS
    <3>4. ASSUME NEW s \in Small(k) PROVE h[s] = SumTurn(f, h, s)
      <4>1. h[s] = SumTurn(f, g, s)
        BY <3>2, <3>3
      <4>2. CASE s = {}
        BY <4>1, <4>2 DEF SumTurn
      <4>3. CASE s # {}
        <5>1. PICK r : r = s \ {First(s)}
          OBVIOUS
        <5>2. r \in SUBSET S /\ Cardinality(r) <= k - 1
          BY <2>2, <4>3, <5>1, OneLess
        <5>3. h[r] = g[r]
          BY <3>3, <5>2
        <5>4. QED
          BY <4>1, <4>3, <5>1, <5>3 DEF SumTurn
      <4>4. QED
        BY <4>2, <4>3
    <3>5. QED
      BY <2>2, <3>4
  <2>5. QED
    BY <2>3, <2>4
<1>2. Cardinality(S) \in Nat /\ \A s \in SUBSET S : s \in Small(Cardinality(S))
  BY FS_CardinalityType, FS_Subset
<1>3. PICK g : Upto(g, Cardinality(S))
  BY <1>1, <1>2
<1>4. PICK h : h = [s \in SUBSET S |-> g[s]]
  OBVIOUS
<1>5. \A s \in SUBSET S : h[s] = SumTurn(f, h, s)
  <2>1. TAKE s \in SUBSET S
  <2>2. g[s] = SumTurn(f, g, s) /\ h[s] = g[s]
    BY <1>2, <1>3, <1>4
  <2>3. s # {} => h[s \ {First(s)}] = g[s \ {First(s)}]
    BY <1>4
  <2>4. QED
    BY <2>2, <2>3 DEF SumTurn
<1>6. h = [s \in SUBSET S |-> h[s]]
  BY <1>4
<1>7. Sums(h, f, S)
  BY <1>5, <1>6, Zenon DEF Sums
<1>8. QED
  BY <1>7

\* Sums over the subsets of different sets agree where the summands do, since
\* they agree on a smallest set on which they would not.
LEMMA SumsAgree ==
  ASSUME NEW f, NEW A, IsFiniteSet(A), NEW g, Sums(g, f, A),
         NEW e, NEW B, NEW h, Sums(h, e, B),
         NEW S, S \subseteq A, S \subseteq B, \A x \in S : f[x] = e[x]
  PROVE  g[S] = h[S]
<1> DEFINE Wrong == {s \in SUBSET S : g[s] # h[s]}
           Bad == {Cardinality(s) : s \in Wrong}
<1>0. IsFiniteSet(S)
  BY FS_Subset
<1>1. SUFFICES ASSUME Wrong # {} PROVE FALSE
  OBVIOUS
<1>2. Bad \subseteq Nat /\ Bad # {}
  BY <1>0, <1>1, OneLess
<1>3. PICK n \in Bad : \A x \in Bad : n <= x
  <2> HIDE DEF Bad
  <2>1. QED
    BY <1>2, LeastNumber
<1>4. PICK s \in Wrong : n = Cardinality(s)
  BY <1>3
<1>5. s \in SUBSET A /\ s \in SUBSET B
  OBVIOUS
<1>6. g[s] = SumTurn(f, g, s)
  BY <1>5, Zenon DEF Sums
<1>7. h[s] = SumTurn(e, h, s)
  BY <1>5, Zenon DEF Sums
<1>8. CASE s = {}
  BY <1>6, <1>7, <1>8 DEF SumTurn
<1>9. CASE s # {}
  <2>1. PICK x, r : x = First(s) /\ r = s \ {First(s)}
    OBVIOUS
  <2>2. x \in s /\ r \in SUBSET S /\ Cardinality(r) = n - 1 /\ n \in Nat /\ Cardinality(r) \in Nat
    BY <1>0, <1>4, <1>9, <2>1, OneLess
  <2>3. Cardinality(r) \notin Bad
    BY <1>3, <2>2
  <2>4. g[r] = h[r]
    BY <2>2, <2>3
  <2>5. f[x] = e[x]
    BY <2>2
  <2>6. QED
    BY <1>4, <1>6, <1>7, <1>9, <2>1, <2>4, <2>5 DEF SumTurn
<1>10. QED
  BY <1>8, <1>9

\* A sum starts from nothing...
LEMMA SumEmpty ==
  ASSUME NEW f
  PROVE  SumOf(f, {}) = 0
<1>1. PICK g : g = CHOOSE h : Sums(h, f, {})
  OBVIOUS
<1>2. Sums(g, f, {})
  BY <1>1, SumsExist, FS_EmptySet
<1>3. g[{}] = SumTurn(f, g, {})
  <2>1. {} \in SUBSET {}
    OBVIOUS
  <2>2. QED
    BY <1>2, <2>1, Zenon DEF Sums
<1>4. QED
  BY <1>1, <1>3, SumIsTurn DEF SumTurn

\* ... and adds the first member to the sum over the others.
LEMMA SumFirst ==
  ASSUME NEW f, NEW S, IsFiniteSet(S), S # {}
  PROVE  First(S) \in S /\ SumOf(f, S) = f[First(S)] + SumOf(f, S \ {First(S)})
<1>1. PICK x, r : x = First(S) /\ r = S \ {First(S)}
  OBVIOUS
<1>2. x \in S /\ IsFiniteSet(r) /\ r \subseteq S
  BY <1>1, OneLess, FS_RemoveElement
<1>3. PICK g : g = CHOOSE h : Sums(h, f, S)
  OBVIOUS
<1>4. PICK q : q = CHOOSE h : Sums(h, f, r)
  OBVIOUS
<1>5. Sums(g, f, S) /\ Sums(q, f, r)
  BY <1>2, <1>3, <1>4, SumsExist
<1>6. g[r] = q[r]
  BY <1>2, <1>5, SumsAgree
<1>7. g[S] = SumTurn(f, g, S)
  <2>1. S \in SUBSET S
    OBVIOUS
  <2>2. QED
    BY <1>5, <2>1, Zenon DEF Sums
<1>8. SumOf(f, S) = g[S] /\ SumOf(f, r) = q[r]
  BY <1>3, <1>4, SumIsTurn
<1>9. QED
  BY <1>1, <1>2, <1>6, <1>7, <1>8 DEF SumTurn

\* Only the summands matter.
LEMMA SumSame ==
  ASSUME NEW f, NEW e, NEW S, IsFiniteSet(S), \A x \in S : f[x] = e[x]
  PROVE  SumOf(f, S) = SumOf(e, S)
<1>1. PICK g, h : g = (CHOOSE k : Sums(k, f, S)) /\ h = (CHOOSE k : Sums(k, e, S))
  OBVIOUS
<1>2. Sums(g, f, S) /\ Sums(h, e, S)
  BY <1>1, SumsExist
<1>3. g[S] = h[S]
  BY <1>2, SumsAgree
<1>4. QED
  BY <1>1, <1>3, SumIsTurn

\* A sum of naturals is one, by a smallest set for which it is not.
LEMMA SumNat ==
  ASSUME NEW f, NEW S, IsFiniteSet(S), \A x \in S : f[x] \in Nat
  PROVE  SumOf(f, S) \in Nat
<1> DEFINE Wrong == {s \in SUBSET S : SumOf(f, s) \notin Nat}
           Bad == {Cardinality(s) : s \in Wrong}
<1>1. SUFFICES ASSUME Wrong # {} PROVE FALSE
  OBVIOUS
<1>2. Bad \subseteq Nat /\ Bad # {}
  BY <1>1, OneLess
<1>3. PICK n \in Bad : \A x \in Bad : n <= x
  <2> HIDE DEF Bad
  <2>1. QED
    BY <1>2, LeastNumber
<1>4. PICK s \in Wrong : n = Cardinality(s)
  BY <1>3
<1>5. s # {}
  BY <1>4, SumEmpty
<1>6. PICK x, r : x = First(s) /\ r = s \ {First(s)}
  OBVIOUS
<1>7. x \in s /\ r \in SUBSET S /\ Cardinality(r) = n - 1 /\ n \in Nat /\ Cardinality(r) \in Nat
      /\ IsFiniteSet(s)
  BY <1>4, <1>5, <1>6, OneLess
<1>8. r \notin Wrong
  BY <1>3, <1>7
<1>9. SumOf(f, s) = f[x] + SumOf(f, r)
  BY <1>5, <1>6, <1>7, SumFirst
<1>10. SumOf(f, r) \in Nat /\ f[x] \in Nat
  BY <1>4, <1>7, <1>8
<1>11. SumOf(f, s) \in Nat
  BY <1>9, <1>10
<1>12. QED
  BY <1>4, <1>11

\* Any member may be taken first, by a smallest set for which that is wrong.
LEMMA SumWithout ==
  ASSUME NEW f, NEW S, IsFiniteSet(S), \A x \in S : f[x] \in Nat, NEW x \in S
  PROVE  /\ SumOf(f, S) = f[x] + SumOf(f, S \ {x})
         /\ SumOf(f, S \ {x}) \in Nat
<1> DEFINE Wrong == {s \in SUBSET S : \E y \in s : SumOf(f, s) # f[y] + SumOf(f, s \ {y})}
           Bad == {Cardinality(s) : s \in Wrong}
<1>1. \A s \in SUBSET S : SumOf(f, s) \in Nat
  BY SumNat, FS_Subset
<1>2. ASSUME Wrong # {} PROVE FALSE
  <2>1. Bad \subseteq Nat /\ Bad # {}
    BY <1>2, OneLess
  <2>2. PICK n \in Bad : \A k \in Bad : n <= k
    <3> HIDE DEF Bad
    <3>1. QED
      BY <2>1, LeastNumber
  <2>3. PICK s \in Wrong : n = Cardinality(s)
    BY <2>2
  <2>4. PICK y \in s : SumOf(f, s) # f[y] + SumOf(f, s \ {y})
    OBVIOUS
  <2>5. PICK z : z = First(s)
    OBVIOUS
  <2>6. z \in s /\ SumOf(f, s) = f[z] + SumOf(f, s \ {z})
    <3>1. IsFiniteSet(s) /\ s # {}
      BY <2>4, OneLess
    <3>2. QED
      BY <2>5, <3>1, SumFirst
  <2>7. y # z
    BY <2>4, <2>6
  <2>8. PICK a, b, c : a = s \ {y} /\ b = s \ {z} /\ c = s \ {y, z}
    OBVIOUS
  <2>9. /\ a \in SUBSET S /\ b \in SUBSET S /\ c \in SUBSET S
        /\ a \ {z} = c /\ b \ {y} = c /\ z \in a /\ y \in b
    BY <2>6, <2>7, <2>8
  <2>10. /\ Cardinality(a) \in Nat /\ Cardinality(b) \in Nat /\ n \in Nat
         /\ Cardinality(a) = n - 1 /\ Cardinality(b) = n - 1
    BY <2>3, <2>6, <2>8, OneLess
  <2>11. a \notin Wrong /\ b \notin Wrong
    <3>1. Cardinality(a) \notin Bad /\ Cardinality(b) \notin Bad
      <4> HIDE DEF Bad
      <4>1. QED
        BY <2>2, <2>10
    <3>2. QED
      BY <3>1
  <2>12. SumOf(f, a) = f[z] + SumOf(f, c) /\ SumOf(f, b) = f[y] + SumOf(f, c)
    BY <2>9, <2>11
  <2>13. f[y] \in Nat /\ f[z] \in Nat /\ SumOf(f, c) \in Nat
    BY <1>1, <2>6, <2>9
  <2>14. SumOf(f, s) = f[y] + SumOf(f, a)
    BY <2>6, <2>8, <2>12, <2>13
  <2>15. QED
    BY <2>4, <2>8, <2>14
<1>3. S \notin Wrong
  BY <1>2
<1>4. QED
  BY <1>1, <1>3

-----------------------------------------------------------------------------
(* The locked buffers are within the budget.                               *)

LockedThreads == {t \in Threads : backing[t] = "locked"}

\* A raised limit has room for the buffer that it was raised for, on top of
\* the limit that there was.
MakesRoom(t) == pc[t] = "set" => wanted[t][1] >= limit[1] + size[t]

KInv ==
    /\ \A t \in Threads : pc[t] # "idle" => backing[t] = "none"
    /\ SumOf(size, LockedThreads) <= limit[1]
    /\ \A t \in Threads : MakesRoom(t)

\* The sum is the one that the model uses.
LEMMA LockedIsSum ==
    ASSUME MInv
    PROVE  /\ Locked = SumOf(size, LockedThreads) /\ Locked' = SumOf(size', LockedThreads')
           /\ IsFiniteSet(LockedThreads)
           /\ \A t \in LockedThreads : size[t] \in Nat
           /\ SumOf(size, LockedThreads) \in Nat
<1>1. Locked = SumOf(size, LockedThreads) /\ Locked' = SumOf(size', LockedThreads')
  BY DEF Locked, SumOf, LockedThreads, MapThenSumSet, MapThenFoldSet
<1>2. IsFiniteSet(LockedThreads)
  BY MemoryAssumption, FS_Subset DEF LockedThreads
<1>3. \A t \in LockedThreads : size[t] \in Nat
  BY LimitsAreNumbers DEF LockedThreads
<1>4. QED
  BY <1>1, <1>2, <1>3, SumNat

\* A thread that does not have a locked buffer may change its size.
LEMMA UnlockedResize ==
    ASSUME MInv, KInv, NEW t \in Threads, t \notin LockedThreads, LockedThreads' = LockedThreads,
           \A s \in Threads : s # t => size'[s] = size[s]
    PROVE  SumOf(size', LockedThreads') = SumOf(size, LockedThreads)
<1>1. IsFiniteSet(LockedThreads) /\ \A s \in LockedThreads : size'[s] = size[s]
  BY LockedIsSum DEF LockedThreads
<1>2. PICK S, f, e : S = LockedThreads /\ f = size /\ e = size'
  OBVIOUS
<1>3. SumOf(e, S) = SumOf(f, S)
  BY <1>1, <1>2, SumSame
<1>4. QED
  BY <1>2, <1>3

\* Below a limit that is not infinite, mlock() succeeds only within the budget.
LEMMA SuccessFits ==
    ASSUME MInv, BInv, NEW t \in Threads, size[t] # 0, "success" \in MlockAnswers(t)
    PROVE  SumOf(size, LockedThreads) + size[t] <= limit[1]
<1>1. Fits(t)
  BY DEF MlockAnswers
<1>2. PICK P \in Nat, z \in Nat, c \in Nat, h \in Nat :
        P = 2^LimitBits /\ z = size[t] /\ c = limit[1] /\ h = limit[2]
  BY LimitsAreNumbers
<1>3. c <= h /\ 2 * (h + z) <= P /\ z # 0
  BY <1>2 DEF BInv, Raises, SizeFits
<1>4. c # P - 1
  BY <1>3
<1>5. limit[1] # RLIM_INFINITY
  BY <1>2, <1>4 DEF RLIM_INFINITY
<1>6. QED
  BY <1>1, <1>5, LockedIsSum DEF Fits

LEMMA LockFits ==
    ASSUME MInv, BInv, KInv, NEW t \in Threads, pc[t] # "idle",
           "success" \in MlockAnswers(t), Lock(t)
    PROVE  KInv'
<1>1. /\ size' = size /\ limit' = limit /\ wanted' = wanted
      /\ pc' = [pc EXCEPT ![t] = "idle"] /\ backing' = [backing EXCEPT ![t] = "locked"]
  BY DEF Lock, locals
<1>2. backing[t] = "none" /\ size[t] # 0 /\ TypeOK
  BY DEF KInv, MInv, Resident
<1>3. SumOf(size, LockedThreads) + size[t] <= limit[1]
  BY <1>2, SuccessFits
<1>4. PICK S, R : S = LockedThreads /\ R = LockedThreads'
  OBVIOUS
<1>5. t \in R /\ R \ {t} = S /\ R \subseteq Threads
  BY <1>1, <1>2, <1>4 DEF LockedThreads, TypeOK
<1>6. IsFiniteSet(R) /\ \A s \in R : size[s] \in Nat
  BY <1>5, MemoryAssumption, FS_Subset, LimitsAreNumbers
<1>7. SumOf(size, R) = size[t] + SumOf(size, S) /\ SumOf(size, S) \in Nat
  BY <1>5, <1>6, SumWithout
<1>8. SumOf(size, R) <= limit[1]
  BY <1>3, <1>4, <1>7, LimitsAreNumbers
<1>9. (SumOf(size, LockedThreads) <= limit[1])'
  BY <1>1, <1>4, <1>8
<1>10. \A s \in Threads : /\ pc'[s] # "idle" => backing'[s] = "none"
                          /\ MakesRoom(s)'
  BY <1>1, <1>2 DEF KInv, TypeOK, MakesRoom
<1>11. QED
  BY <1>9, <1>10 DEF KInv

\* Steps that lock and unlock nothing and leave the limit alone.
LEMMA QuietFits ==
    ASSUME MInv, KInv, NEW t \in Threads, backing' = backing, size' = size, limit' = limit,
           \A s \in Threads : s # t => pc'[s] = pc[s] /\ wanted'[s] = wanted[s],
           pc[t] # "idle", MakesRoom(t)'
    PROVE  KInv'
<1>1. LockedThreads' = LockedThreads
  BY DEF LockedThreads
<1>2. SumOf(size', LockedThreads') <= limit'[1]
  BY <1>1 DEF KInv
<1>3. (SumOf(size, LockedThreads) <= limit[1])'
  BY <1>2
<1>4. \A s \in Threads : /\ pc'[s] # "idle" => backing'[s] = "none"
                         /\ MakesRoom(s)'
  BY DEF KInv, MakesRoom
<1>5. QED
  BY <1>3, <1>4 DEF KInv

LEMMA AllocateFits ==
    ASSUME MInv, KInv, NEW t \in Threads, Allocate(t)
    PROVE  KInv'
<1>1. /\ pc[t] = "idle" /\ size[t] = 0 /\ backing' = backing /\ limit' = limit /\ wanted' = wanted
      /\ pc' = [pc EXCEPT ![t] = "mapped"]
      /\ \A s \in Threads : s # t => size'[s] = size[s]
  BY DEF Allocate, locals, MInv, TypeOK
<1>2. backing[t] = "none" /\ TypeOK
  BY <1>1 DEF MInv, Resident
<1>3. LockedThreads' = LockedThreads /\ t \notin LockedThreads
  BY <1>1, <1>2 DEF LockedThreads
<1>4. SumOf(size', LockedThreads') <= limit'[1]
  BY <1>1, <1>3, UnlockedResize DEF KInv
<1>5. (SumOf(size, LockedThreads) <= limit[1])'
  BY <1>4
<1>6. \A s \in Threads : /\ pc'[s] # "idle" => backing'[s] = "none"
                         /\ MakesRoom(s)'
  BY <1>1, <1>2 DEF KInv, MakesRoom, TypeOK
<1>7. QED
  BY <1>5, <1>6 DEF KInv

LEMMA LiberateFits ==
    ASSUME MInv, KInv, NEW t \in Threads, Liberate(t)
    PROVE  KInv'
<1>1. /\ pc[t] = "idle" /\ limit' = limit /\ wanted' = wanted /\ pc' = pc
      /\ backing' = [backing EXCEPT ![t] = "none"]
      /\ \A s \in Threads : s # t => size'[s] = size[s]
  BY DEF Liberate, locals, MInv, TypeOK
<1>2. TypeOK /\ IsFiniteSet(LockedThreads) /\ \A s \in LockedThreads : size[s] \in Nat
  BY LockedIsSum DEF MInv
<1>3. PICK S, R, f, e : S = LockedThreads /\ R = LockedThreads' /\ f = size /\ e = size'
  OBVIOUS
<1>4. R = S \ {t} /\ IsFiniteSet(R) /\ \A s \in R : e[s] = f[s]
  <2>1. R = S \ {t}
    BY <1>1, <1>2, <1>3 DEF LockedThreads, TypeOK
  <2>2. QED
    BY <1>1, <1>2, <1>3, <2>1, FS_RemoveElement DEF LockedThreads
<1>5. SumOf(e, R) = SumOf(f, R)
  BY <1>4, SumSame
<1>6. SumOf(f, R) <= SumOf(f, S) /\ SumOf(f, R) \in Nat /\ SumOf(f, S) \in Nat
  <2>1. CASE t \in S
    <3>1. IsFiniteSet(S) /\ (\A s \in S : f[s] \in Nat) /\ f[t] \in Nat
      BY <1>2, <1>3, <2>1
    <3>2. SumOf(f, S) = f[t] + SumOf(f, R) /\ SumOf(f, R) \in Nat
      <4>1. /\ SumOf(f, S) = f[t] + SumOf(f, S \ {t})
            /\ SumOf(f, S \ {t}) \in Nat
        BY <2>1, <3>1, SumWithout
      <4>2. R = S \ {t}
        BY <1>4
      <4>3. QED
        BY <4>1, <4>2
    <3>3. QED
      BY <3>1, <3>2
  <2>2. CASE t \notin S
    <3>1. R = S /\ SumOf(f, S) \in Nat
      BY <1>3, <1>4, <2>2, LockedIsSum
    <3>2. QED
      BY <3>1
  <2>3. QED
    BY <2>1, <2>2
<1>7. SumOf(e, R) <= limit[1]
  BY <1>3, <1>5, <1>6, LimitsAreNumbers DEF KInv
<1>8. (SumOf(size, LockedThreads) <= limit[1])'
  BY <1>1, <1>3, <1>7
<1>9. \A s \in Threads : /\ pc'[s] # "idle" => backing'[s] = "none"
                         /\ MakesRoom(s)'
  BY <1>1, <1>2 DEF KInv, MakesRoom, TypeOK
<1>10. QED
  BY <1>8, <1>9 DEF KInv

LEMMA PrefaultFits ==
    ASSUME MInv, KInv, NEW t \in Threads, Prefault(t)
    PROVE  KInv'
<1>1. /\ pc[t] = "prefault" /\ size' = size /\ limit' = limit /\ wanted' = wanted
      /\ pc' = [pc EXCEPT ![t] = "idle"] /\ backing' = [backing EXCEPT ![t] = "prefaulted"]
  BY DEF Prefault, locals
<1>2. backing[t] = "none" /\ TypeOK
  BY <1>1 DEF KInv, MInv
<1>3. LockedThreads' = LockedThreads
  BY <1>1, <1>2 DEF LockedThreads, TypeOK
<1>4. SumOf(size', LockedThreads') <= limit'[1]
  BY <1>1, <1>3 DEF KInv
<1>5. (SumOf(size, LockedThreads) <= limit[1])'
  BY <1>4
<1>6. \A s \in Threads : /\ pc'[s] # "idle" => backing'[s] = "none"
                         /\ MakesRoom(s)'
  BY <1>1, <1>2 DEF KInv, MakesRoom, TypeOK
<1>7. QED
  BY <1>5, <1>6 DEF KInv

\* The loop ends above the sum that it aims at, and the hard limit is only
\* taken instead if it is above that too.
LEMMA FitMakesRoom ==
    ASSUME MInv, BInv, KInv, NEW t \in Threads, FitHardLimit(t)
    PROVE  KInv'
<1>1. PICK P \in Nat, a \in Nat, b \in Nat, c \in Nat, h \in Nat, z \in Nat :
         /\ P = 2^LimitBits /\ a = wanted[t][1] /\ b = wanted[t][2] /\ c = limit[1]
         /\ h = limit[2] /\ z = size[t]
  BY LimitsAreNumbers
<1>2. /\ pc[t] = "raise" /\ limit' = limit /\ size' = size /\ backing' = backing /\ pc'[t] = "set"
      /\ \A s \in Threads : s # t => pc'[s] = pc[s]
  BY DEF FitHardLimit, MInv, TypeOK
<1>3. initial[t] = limit /\ z # 0 /\ c <= h /\ 2 * (h + z) <= P
  BY <1>1, <1>2 DEF MInv, Transacts, Resident, BInv, Raises, SizeFits
<1>4. (c + z) % 2^LimitBits = c + z
  <2>1. PICK x \in Nat : x = c + z
    OBVIOUS
  <2>2. x < 2^LimitBits => x % 2^LimitBits = x
    BY <2>1, Wrapped
  <2>3. x < P
    BY <1>3, <2>1
  <2>4. QED
    BY <1>1, <2>1, <2>2, <2>3
<1>5. a >= c + z
  BY <1>1, <1>3, <1>4 DEF FitHardLimit, Needed
<1>6. \A s \in Threads : s # t => wanted'[s] = wanted[s]
  BY FitEffect
<1>7. wanted'[t][1] >= c + z
  <2>1. wanted'[t] = IF a <= b THEN wanted[t]
                     ELSE IF b - c >= z THEN <<b, b>> ELSE <<a, a>>
    BY <1>1, <1>3 DEF FitHardLimit, MInv, TypeOK
  <2>2. CASE a <= b
    BY <1>1, <1>5, <2>1, <2>2
  <2>3. CASE ~(a <= b) /\ b - c >= z
    BY <2>1, <2>3
  <2>4. CASE ~(a <= b) /\ ~(b - c >= z)
    BY <1>5, <2>1, <2>4
  <2>5. QED
    BY <2>2, <2>3, <2>4
<1>8. MakesRoom(t)'
  BY <1>1, <1>2, <1>7 DEF MakesRoom
<1>9. QED
  BY <1>2, <1>6, <1>8, QuietFits

LEMMA SetFits ==
    ASSUME MInv, BInv, KInv, NEW t \in Threads, SetLimit(t)
    PROVE  /\ KInv'
           /\ pc'[t] = "relock" => Fits(t)'
<1>1. /\ TypeOK' /\ pc[t] = "set" /\ mutex = {t} /\ pc'[t] \in {"relock", "prefault"}
      /\ size' = size /\ backing' = backing
      /\ limit' = limit \/ limit' = wanted[t]
      /\ pc'[t] = "relock" => limit' = wanted[t]
      /\ \A s \in Threads : s # t => pc'[s] = pc[s] /\ wanted'[s] = wanted[s]
  BY SetEffect DEF SetLimit, MInv, TypeOK
<1>2. PICK S \in Nat, w \in Nat, c \in Nat, z \in Nat, P \in Nat :
         /\ S = SumOf(size, LockedThreads) /\ w = wanted[t][1] /\ c = limit[1] /\ z = size[t]
         /\ P = 2^LimitBits
  BY LockedIsSum, LimitsAreNumbers
<1>3. w >= c + z /\ S <= c /\ z # 0
  BY <1>1, <1>2 DEF KInv, MakesRoom, MInv, Resident
<1>4. LockedThreads' = LockedThreads
  BY <1>1 DEF LockedThreads
<1>5. S + z <= w /\ w # 0 /\ S <= w
  BY <1>3
<1>6. SumOf(size', LockedThreads') = S /\ size'[t] = z /\ (limit'[1] = c \/ limit'[1] = w)
  BY <1>1, <1>2, <1>4
<1>7. (SumOf(size, LockedThreads) <= limit[1])'
  BY <1>3, <1>5, <1>6
<1>8. ASSUME NEW s \in Threads
      PROVE  /\ pc'[s] # "idle" => backing'[s] = "none"
             /\ MakesRoom(s)'
  <2>1. pc'[s] # "set"
    BY <1>1 DEF MInv, Transacts
  <2>2. QED
    BY <1>1, <2>1 DEF KInv, MakesRoom
<1>9. ASSUME pc'[t] = "relock" PROVE Fits(t)'
  <2>1. limit'[1] = w
    BY <1>1, <1>2, <1>9
  <2>2. Locked' = S
    BY <1>6, LockedIsSum
  <2>3. limit'[1] # 0 /\ Locked' + size'[t] <= limit'[1]
    BY <1>5, <1>6, <2>1, <2>2
  <2>4. QED
    BY <2>3 DEF Fits
<1>10. QED
  BY <1>7, <1>8, <1>9 DEF KInv

LEMMA NextFits ==
    ASSUME MInv, BInv, KInv, [Next]_vars
    PROVE  KInv'
<1>1. ASSUME NEW t \in Threads, TryLock(t) \/ Relock(t)
      PROVE  KInv'
  <2>1. pc[t] # "idle"
    BY <1>1 DEF TryLock, Relock
  <2>2. CASE "success" \in MlockAnswers(t) /\ Lock(t)
    BY <2>1, <2>2, LockFits
  <2>3. CASE ~("success" \in MlockAnswers(t) /\ Lock(t))
    <3>1. /\ backing' = backing /\ size' = size /\ limit' = limit /\ wanted' = wanted
          /\ \E p \in {"blocked", "prefault"} : pc' = [pc EXCEPT ![t] = p]
      BY <1>1, <2>3 DEF TryLock, Relock, locals
    <3>2. pc'[t] # "set" /\ \A s \in Threads : s # t => pc'[s] = pc[s]
      BY <3>1 DEF MInv, TypeOK
    <3>3. MakesRoom(t)'
      BY <3>2 DEF MakesRoom
    <3>4. QED
      BY <2>1, <3>1, <3>2, <3>3, QuietFits
  <2>4. QED
    BY <2>2, <2>3
<1>2. ASSUME NEW t \in Threads, LockMutex(t) \/ QueryLimit(t)
      PROVE  KInv'
  <2>1. /\ backing' = backing /\ size' = size /\ limit' = limit /\ pc[t] # "idle"
        /\ pc'[t] # "set"
        /\ \A s \in Threads : s # t => pc'[s] = pc[s] /\ wanted'[s] = wanted[s]
    BY <1>2 DEF LockMutex, QueryLimit, locals, MInv, TypeOK
  <2>2. MakesRoom(t)'
    BY <2>1 DEF MakesRoom
  <2>3. QED
    BY <2>1, <2>2, QuietFits
<1>3. ASSUME NEW t \in Threads, DoubleLimit(t)
      PROVE  KInv'
  <2>1. /\ backing' = backing /\ size' = size /\ limit' = limit /\ pc' = pc /\ pc[t] = "raise"
        /\ \A s \in Threads : s # t => wanted'[s] = wanted[s]
    BY <1>3, DoubleEffect DEF DoubleLimit
  <2>2. MakesRoom(t)'
    BY <2>1 DEF MakesRoom
  <2>3. QED
    BY <2>1, <2>2, QuietFits
<1>4. CASE Next
  <2>1. PICK t \in Threads : Allocate(t) \/ Step(t) \/ Liberate(t)
    BY <1>4 DEF Next
  <2>2. QED
    BY <1>1, <1>2, <1>3, <2>1, AllocateFits, LiberateFits, PrefaultFits, FitMakesRoom,
       SetFits DEF Step
<1>5. CASE UNCHANGED vars
  <2>1. LockedThreads' = LockedThreads /\ UNCHANGED <<pc, size, backing, limit, wanted>>
    BY <1>5 DEF vars, LockedThreads
  <2>2. SumOf(size', LockedThreads') <= limit'[1]
    BY <2>1 DEF KInv
  <2>3. (SumOf(size, LockedThreads) <= limit[1])'
    BY <2>2
  <2>4. QED
    BY <2>1, <2>3 DEF KInv, MakesRoom
<1>6. QED
  BY <1>4, <1>5

LEMMA InitFits ==
    ASSUME Init
    PROVE  KInv
<1>1. MInv
  BY InitHolds
<1>2. LockedThreads = {}
  BY DEF Init, LockedThreads
<1>3. SumOf(size, LockedThreads) = 0 /\ limit[1] >= 0
  BY <1>1, <1>2, SumEmpty, LimitsAreNumbers
<1>4. SumOf(size, LockedThreads) <= limit[1]
  BY <1>1, <1>3, LimitsAreNumbers
<1>5. QED
  BY <1>4 DEF Init, KInv, MakesRoom

\* The three invariants together.
LEMMA AllInvariant == NoWrap /\ Spec => [](MInv /\ BInv /\ KInv)
<1>1. Init => MInv
  BY InitHolds
<1>2. MInv /\ [Next]_vars => MInv'
  BY NextHolds
<1>3. NoWrap /\ Init => BInv
  BY InitRaises
<1>4. NoWrap /\ MInv /\ BInv /\ [Next]_vars => BInv'
  BY NextRaises DEF NoWrap
<1>5. Init => KInv
  BY InitFits
<1>6. MInv /\ BInv /\ KInv /\ [Next]_vars => KInv'
  BY NextFits
<1>7. NoWrap => []NoWrap
  <2>1. NoWrap => NoWrap'
    BY DEF NoWrap
  <2>2. QED
    BY <2>1, PTL
<1>8. QED
  BY <1>1, <1>2, <1>3, <1>4, <1>5, <1>6, <1>7, PTL DEF Spec

(***************************************************************************)
(* Under the same hypothesis, whatever the kernel answers and to whom: the *)
(* buffers that realtime_allocate() returned are resident, and the locked  *)
(* ones fit in the soft limit.                                             *)
(***************************************************************************)
THEOREM MemoryStaysConsistent == NoWrap /\ Spec => []MemoryConsistent
<1>1. MInv /\ BInv /\ KInv => MemoryConsistent
  <2>1. SUFFICES ASSUME MInv, KInv PROVE MemoryConsistent
    OBVIOUS
  <2>2. TypeOK /\ BuffersResident
    BY <2>1 DEF MInv, Resident, BuffersResident
  <2>3. LockedWithinBudget
    BY <2>1, LockedIsSum DEF LockedWithinBudget, KInv
  <2>4. QED
    BY <2>2, <2>3 DEF MemoryConsistent
<1>2. QED
  BY <1>1, AllInvariant, PTL

(***************************************************************************)
(* Under the same hypothesis, when try_increase_mlock_budget() succeeds    *)
(* the buffer for which it was called fits in the budget: the limit that   *)
(* was read is not smaller than what the other threads have locked since.  *)
(***************************************************************************)
THEOREM MemoryRaiseMakesRoom == NoWrap /\ Spec => RaiseMakesRoom
<1> DEFINE Roomy == \A t \in Threads : pc[t] = "set" /\ pc'[t] = "relock" => Fits(t)'
<1>1. MInv /\ BInv /\ KInv /\ [Next]_vars => [Roomy]_vars
  <2>1. SUFFICES ASSUME MInv, BInv, KInv, Next, NEW t \in Threads,
                        pc[t] = "set", pc'[t] = "relock"
                 PROVE  Fits(t)'
    BY DEF vars
  <2>2. PICK u \in Threads : Allocate(u) \/ Step(u) \/ Liberate(u)
    BY <2>1 DEF Next
  <2>3. SetLimit(u) /\ u = t
    BY <2>1, <2>2 DEF Step, Allocate, Liberate, TryLock, Lock, LockMutex, QueryLimit, DoubleLimit,
       FitHardLimit, SetLimit, Relock, Prefault, MInv, TypeOK
  <2>4. QED
    BY <2>1, <2>3, SetFits
<1>2. QED
  BY <1>1, AllInvariant, PTL DEF Spec, RaiseMakesRoom

=============================================================================
