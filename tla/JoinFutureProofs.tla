-------------------------- MODULE JoinFutureProofs --------------------------
EXTENDS JoinFuture, FiniteSetTheorems, TLAPS

(***************************************************************************)
(* Proofs about JoinFuture, for every set of clients and upstream futures, *)
(* every length of the identifier buffer and every MAX_DOWNSTREAM_COUNT.   *)
(***************************************************************************)

(* The status word of a join future between udipe_start_join() and its     *)
(* liberation.                                                             *)
JoinWord(s) ==
  /\ s \in Statuses
  /\ s.type = "JOIN"
  /\ s.state \in {"WAITING", "RESULT"}
  /\ s.outcome # "FAILURE_INTERNAL"
  /\ s.outcome = "UNKNOWN" <=> s.state = "WAITING"
  /\ s.downstream_count # 0 => s.available
  /\ s.downstream_count <= MAX_DOWNSTREAM_COUNT

Typed ==
  /\ status = ZeroStatus \/ JoinWord(status)
  /\ upstream \in [Upstreams -> {"pending", "success", "failure"}]
  /\ readable \subseteq Upstreams /\ attached \subseteq Upstreams
  /\ latch \in BOOLEAN /\ canceled \in BOOLEAN /\ waited \in BOOLEAN
  /\ pc \in [Clients -> ClientLocs]
  /\ call \in [Clients -> WaitCalls \cup CancelCalls \cup FinishCalls \cup {"none"}]
  /\ snap \in [Clients -> Statuses]
  /\ outcome \in [Clients -> Outcomes]
  /\ batch \in [Clients -> Seq(Upstreams \cup {Latch})]
  /\ aborted \in Aborts /\ aborted # "latch_read"

(* No upstream future that a lock holder has dealt with has failed.        *)
NoFailureSeen == \A u \in Upstreams \ attached : upstream[u] # "failure"

Justified(o) ==
  /\ o = "SUCCESS" => \A u \in Upstreams : upstream[u] = "success"
  /\ o = "FAILURE_DEPENDENCY" => \E u \in Upstreams : upstream[u] = "failure"
  /\ o = "FAILURE_CANCELED" => canceled

(* The inpoll, its latch and `remaining`.                                  *)
InpollFits ==
  /\ remaining = IF status = ZeroStatus THEN 0 ELSE Cardinality(attached)
  /\ status # ZeroStatus => \A u \in Upstreams \ attached : upstream[u] # "pending"
  /\ status.state = "WAITING" /\ ~status.notify_event_or_lazy_lock => NoFailureSeen
  /\ Justified(status.outcome)
  /\ latch \/ waited => status.state # "WAITING"

-----------------------------------------------------------------------------
(* Which calls take a client where, and what its copy of the word tells.   *)
LocFits(c) ==
  /\ pc[c] # "idle" => /\ status # ZeroStatus /\ JoinWord(snap[c])
                       /\ snap[c].state = "RESULT" => status.state = "RESULT"
                       /\ call[c] \in FinishCalls \/ (status.available /\ snap[c].available)
  /\ pc[c] \in {"futex", "asleep", "check", "release", "notify_all",
                "notify_latch", "notify_one"} => call[c] \in WaitCalls
  /\ pc[c] \in {"cancel", "cancel_latch", "cancel_wake"} => call[c] \in CancelCalls
  /\ pc[c] \in {"retire", "wait", "collect"} => call[c] \in FinishCalls
  /\ pc[c] \in {"register"} \cup LockLocs => call[c] \in WaitCalls \cup FinishCalls
  /\ pc[c] \in {"register", "futex", "asleep", "cancel"} => snap[c].state = "WAITING"
  /\ pc[c] \in {"notify_all", "notify_latch", "cancel_latch", "cancel_wake", "collect"}
       => snap[c].state = "RESULT"

(* A sleeper is announced in the word.                                     *)
FutexFits(c) ==
  /\ pc[c] \in {"futex", "asleep"} =>
       snap[c].notify_event_or_lazy_lock /\ snap[c].notify_address
  /\ pc[c] \in {"futex", "asleep", "check"} => status.notify_address

(* udipe_finish() is alone with the future, so that its copy is exact.     *)
FinisherFits(c) ==
  Finishing(c) =>
    /\ \A d \in Clients \ {c} : pc[d] = "idle"
    /\ snap[c] = status
    /\ pc[c] \in {"wait", "register", "collect"} \cup LockLocs => ~status.available
    /\ pc[c] \in {"wait", "register"} \cup LockLocs => status.state = "WAITING"

(* The identifiers that the lock holder has yet to look at.                *)
BatchFits(b) ==
  /\ \A i \in 1 .. Len(b) : /\ b[i] \in attached \cup {Latch}
                            /\ b[i] = Latch => status.state = "RESULT"
  /\ \A i, j \in 1 .. Len(b) : b[i] = b[j] => i = j

HolderFits(c) ==
  /\ status.notify_event_or_lazy_lock
  /\ status.state = "RESULT" => status.outcome = "FAILURE_CANCELED"
  /\ outcome[c] = "UNKNOWN" => NoFailureSeen
  /\ Justified(outcome[c])
  /\ outcome[c] # "FAILURE_INTERNAL"
  /\ outcome[c] = "FAILURE_CANCELED" => status.state = "RESULT"
  /\ snap[c].notify_event_or_lazy_lock
  /\ CountDecAllowed(snap[c], Policy(c))
  /\ pc[c] = "poll" => outcome[c] = "UNKNOWN" /\ snap[c].outcome = "UNKNOWN"
  /\ pc[c] = "drain" =>
       /\ outcome[c] # "SUCCESS"
       /\ outcome[c] # "FAILURE_CANCELED" => snap[c].outcome = "UNKNOWN"
       /\ outcome[c] = "FAILURE_CANCELED" => batch[c] = << >>
       /\ BatchFits(batch[c])
  /\ pc[c] = "unlock" /\ call[c] # "wait_some" => outcome[c] # "UNKNOWN"

ClientFits(c) ==
  /\ LocFits(c) /\ FutexFits(c) /\ FinisherFits(c)
  /\ pc[c] \in LockLocs => HolderFits(c)

(* The lazy lock, clientwise.                                              *)
OneHolder ==
  /\ status.notify_event_or_lazy_lock => \E c \in Clients : pc[c] \in LockLocs
  /\ \A c, d \in Clients : pc[c] \in LockLocs /\ pc[d] \in LockLocs => c = d

(* Who is going to wake the sleepers: once there is a result, a thread     *)
(* that is bound to; before, the lock holder or a thread that leaves the   *)
(* lock to a sleeper or is about to take it.                               *)
WakesAll(d) ==
  \/ pc[d] \in {"notify_all", "cancel_wake"}
  \/ pc[d] = "cancel_latch" /\ snap[d].notify_address

SleepersWatched ==
  (\E c \in Clients : pc[c] = "asleep") =>
    IF status.state = "RESULT" THEN \E d \in Clients : WakesAll(d)
    ELSE \/ status.notify_event_or_lazy_lock
         \/ \E d \in Clients : pc[d] \in {"register", "check", "notify_one"}

JInv ==
  /\ Typed /\ InpollFits /\ OneHolder /\ SleepersWatched /\ CountNeverShort
  /\ \A c \in Clients : ClientFits(c)

-----------------------------------------------------------------------------
(* The words.                                                              *)

(* A word of a live join future passes future_status_debug_check().        *)
LEMMA JoinWordChecked ==
  ASSUME NEW s, JoinWord(s)
  PROVE  DebugCheck(s, TRUE) /\ s # ZeroStatus /\ s \in Statuses
<1>1. s # ZeroStatus
  BY DEF JoinWord, ZeroStatus
<1>2. s \in Statuses /\ s.outcome \in Outcomes
  BY DEF JoinWord, Statuses
<1> QED
  BY <1>1, <1>2 DEF JoinWord, DebugCheck, CountInRange, StateFitsType, HasDependencies,
     HasProcessing, UsesLazyLock, UsesWorkerThread, NetworkTypes, OutcomeFitsState,
     HasOutcome, NotifyFitsType, Outcomes

LEMMA ZeroWord ==
  /\ ZeroStatus \in Statuses /\ ZeroStatus.state = "UNINITIALIZED"
  /\ ZeroStatus.outcome = "UNKNOWN" /\ ~ZeroStatus.available
  /\ ~ZeroStatus.notify_event_or_lazy_lock /\ ZeroStatus.downstream_count = 0
BY DEF ZeroStatus, Statuses, States, Outcomes, Types

(* The fields of a word.                                                   *)
LEMMA WordFields ==
  ASSUME NEW s \in Statuses
  PROVE  /\ s.downstream_count \in Nat /\ s.available \in BOOLEAN
         /\ s.state \in States /\ s.outcome \in Outcomes
         /\ s.notify_address \in BOOLEAN /\ s.notify_event_or_lazy_lock \in BOOLEAN
BY DEF Statuses

(* A word that differs from a live one in its count, state, outcome and    *)
(* flags only.                                                             *)
LEMMA WordBuilt ==
  ASSUME NEW s, JoinWord(s), NEW r \in Statuses, r.type = s.type,
         r.state \in {"WAITING", "RESULT"}, r.outcome # "FAILURE_INTERNAL",
         r.outcome = "UNKNOWN" <=> r.state = "WAITING",
         r.downstream_count # 0 => r.available,
         r.downstream_count <= MAX_DOWNSTREAM_COUNT
  PROVE  JoinWord(r)
BY DEF JoinWord

LEMMA Counting ==
  ASSUME NEW s, JoinWord(s), NEW p \in Policies
  PROVE  /\ LET r == CountInc(s, p)
            IN  /\ CountIncAllowed(s, p) /\ (p = "CYCLE" => s.available) => JoinWord(r)
                /\ r \in Statuses
                /\ p = "CYCLE" => r.downstream_count = s.downstream_count + 1
                /\ p = "KEEP" => r = s
                /\ r.state = s.state /\ r.outcome = s.outcome /\ r.type = s.type
                /\ r.available = s.available
                /\ r.notify_address = s.notify_address
                /\ r.notify_event_or_lazy_lock = s.notify_event_or_lazy_lock
         /\ CountDecAllowed(s, p) =>
            LET r == CountDec(s, p)
            IN  /\ JoinWord(r)
                /\ p = "CYCLE" => r.downstream_count = s.downstream_count - 1
                /\ p = "KEEP" => r = s
                /\ r.state = s.state /\ r.outcome = s.outcome /\ r.type = s.type
                /\ r.available = s.available
                /\ r.notify_address = s.notify_address
                /\ r.notify_event_or_lazy_lock = s.notify_event_or_lazy_lock
<1> s \in Statuses /\ s.downstream_count \in Nat
  BY DEF JoinWord, Statuses
<1>1. CASE p = "KEEP"
  BY <1>1 DEF CountInc, CountDec
<1>2. CASE p = "CYCLE"
  <2>1. CountInc(s, p) = [s EXCEPT !.downstream_count = s.downstream_count + 1]
    BY <1>2 DEF CountInc
  <2>2. CountDec(s, p) = [s EXCEPT !.downstream_count = s.downstream_count - 1]
    BY <1>2 DEF CountDec
  <2>3. ASSUME NEW n \in Nat
        PROVE  LET r == [s EXCEPT !.downstream_count = n]
               IN  /\ r \in Statuses /\ r.downstream_count = n
                   /\ r.state = s.state /\ r.outcome = s.outcome /\ r.type = s.type
                   /\ r.available = s.available
                   /\ r.notify_address = s.notify_address
                   /\ r.notify_event_or_lazy_lock = s.notify_event_or_lazy_lock
    BY DEF Statuses
  <2>4. ASSUME NEW n \in Nat, n <= MAX_DOWNSTREAM_COUNT, n # 0 => s.available
        PROVE  JoinWord([s EXCEPT !.downstream_count = n])
    <3> DEFINE r == [s EXCEPT !.downstream_count = n]
    <3>1. r \in Statuses /\ r.downstream_count = n
          /\ r.state = s.state /\ r.outcome = s.outcome /\ r.type = s.type
          /\ r.available = s.available
      BY <2>3
    <3> HIDE DEF r
    <3>2. JoinWord(r)
      BY <3>1, <2>4 DEF JoinWord
    <3> QED
      BY <3>2 DEF r
  <2>5. CountIncAllowed(s, p) /\ s.available => JoinWord(CountInc(s, p))
    <3>1. CountIncAllowed(s, p) => s.downstream_count + 1 <= MAX_DOWNSTREAM_COUNT
      BY <1>2, MaxCountAssumption DEF CountIncAllowed
    <3> QED
      BY <2>1, <2>4, <3>1
  <2>6. ASSUME CountDecAllowed(s, p)
        PROVE  /\ s.downstream_count - 1 \in Nat
               /\ JoinWord(CountDec(s, p))
    <3>1. /\ s.downstream_count - 1 \in Nat
          /\ s.downstream_count - 1 <= MAX_DOWNSTREAM_COUNT
          /\ s.available
      BY <1>2, <2>6, MaxCountAssumption DEF CountDecAllowed, JoinWord
    <3> QED
      BY <2>2, <2>4, <3>1
  <2>7. LET r == CountInc(s, p)
        IN  /\ r \in Statuses /\ r.downstream_count = s.downstream_count + 1
            /\ r.state = s.state /\ r.outcome = s.outcome /\ r.type = s.type
            /\ r.available = s.available
            /\ r.notify_address = s.notify_address
            /\ r.notify_event_or_lazy_lock = s.notify_event_or_lazy_lock
    <3>1. s.downstream_count + 1 \in Nat
      OBVIOUS
    <3> QED
      BY <2>1, <2>3, <3>1
  <2>8. ASSUME CountDecAllowed(s, p)
        PROVE  LET r == CountDec(s, p)
               IN  /\ r.downstream_count = s.downstream_count - 1
                   /\ r.state = s.state /\ r.outcome = s.outcome /\ r.type = s.type
                   /\ r.available = s.available
                   /\ r.notify_address = s.notify_address
                   /\ r.notify_event_or_lazy_lock = s.notify_event_or_lazy_lock
    BY <2>2, <2>3, <2>6, <2>8
  <2> QED
    BY <1>2, <2>5, <2>6, <2>7, <2>8
<1> QED
  BY <1>1, <1>2 DEF Policies

(* The word that a registration installs.                                  *)
LEMMA RegisteredWord ==
  ASSUME NEW c \in Clients, JoinWord(snap[c]), CountIncAllowed(snap[c], Policy(c)),
         Policy(c) = "CYCLE" => snap[c].available
  PROVE  LET s == snap[c]
             r == Registered(c)
         IN  /\ JoinWord(r) /\ r.notify_event_or_lazy_lock
             /\ Policy(c) = "CYCLE" => r.downstream_count = s.downstream_count + 1
             /\ Policy(c) = "KEEP" => r.downstream_count = s.downstream_count
             /\ r.state = s.state /\ r.outcome = s.outcome
             /\ r.available = s.available
             /\ s.notify_address => r.notify_address
             /\ s.notify_event_or_lazy_lock => r.notify_address
<1> DEFINE i == CountInc(snap[c], Policy(c))
<1>1. Policy(c) \in Policies
  BY DEF Policy, Policies
<1>2. /\ JoinWord(i)
      /\ Policy(c) = "CYCLE" => i.downstream_count = snap[c].downstream_count + 1
      /\ Policy(c) = "KEEP" => i.downstream_count = snap[c].downstream_count
      /\ i.state = snap[c].state /\ i.outcome = snap[c].outcome
      /\ i.available = snap[c].available
      /\ i.notify_address = snap[c].notify_address
      /\ i.notify_event_or_lazy_lock = snap[c].notify_event_or_lazy_lock
  BY <1>1, Counting
<1>3. /\ snap[c].notify_event_or_lazy_lock => Registered(c) = [i EXCEPT !.notify_address = TRUE]
      /\ ~snap[c].notify_event_or_lazy_lock =>
           Registered(c) = [i EXCEPT !.notify_event_or_lazy_lock = TRUE]
  BY DEF Registered
<1> HIDE DEF i
<1>4. LET r == [i EXCEPT !.notify_address = TRUE]
      IN  /\ JoinWord(r) /\ r.notify_address
          /\ r.downstream_count = i.downstream_count
          /\ r.state = i.state /\ r.outcome = i.outcome /\ r.available = i.available
          /\ r.notify_event_or_lazy_lock = i.notify_event_or_lazy_lock
  BY <1>2 DEF JoinWord, Statuses
<1>5. LET r == [i EXCEPT !.notify_event_or_lazy_lock = TRUE]
      IN  /\ JoinWord(r) /\ r.notify_event_or_lazy_lock
          /\ r.downstream_count = i.downstream_count
          /\ r.state = i.state /\ r.outcome = i.outcome /\ r.available = i.available
          /\ r.notify_address = i.notify_address
  BY <1>2 DEF JoinWord, Statuses
<1>6. CASE snap[c].notify_event_or_lazy_lock
  <2>1. Registered(c) = [i EXCEPT !.notify_address = TRUE]
    BY <1>3, <1>6
  <2> QED
    BY <1>2, <1>4, <1>6, <2>1
<1>7. CASE ~snap[c].notify_event_or_lazy_lock
  <2>1. Registered(c) = [i EXCEPT !.notify_event_or_lazy_lock = TRUE]
    BY <1>3, <1>7
  <2> QED
    BY <1>2, <1>5, <1>7, <2>1
<1> QED
  BY <1>6, <1>7

(* The word that gives the lock back.                                      *)
LEMMA UnlockedWord ==
  ASSUME NEW c \in Clients, JoinWord(snap[c]), CountDecAllowed(snap[c], Policy(c)),
         outcome[c] \in Outcomes, outcome[c] # "FAILURE_INTERNAL"
  PROVE  LET s == snap[c]
             r == Unlocked(c)
         IN  /\ JoinWord(r) /\ ~r.notify_event_or_lazy_lock
             /\ Policy(c) = "CYCLE" => r.downstream_count = s.downstream_count - 1
             /\ Policy(c) = "KEEP" => r.downstream_count = s.downstream_count
             /\ r.available = s.available
             /\ r.notify_address = s.notify_address
             /\ outcome[c] = "UNKNOWN" => r.state = s.state /\ r.outcome = s.outcome
             /\ outcome[c] # "UNKNOWN" => r.state = "RESULT" /\ r.outcome = outcome[c]
<1> DEFINE i == CountDec(snap[c], Policy(c))
           j == [i EXCEPT !.notify_event_or_lazy_lock = FALSE]
<1>1. Policy(c) \in Policies
  BY DEF Policy, Policies
<1>2. /\ JoinWord(i)
      /\ Policy(c) = "CYCLE" => i.downstream_count = snap[c].downstream_count - 1
      /\ Policy(c) = "KEEP" => i.downstream_count = snap[c].downstream_count
      /\ i.state = snap[c].state /\ i.outcome = snap[c].outcome
      /\ i.available = snap[c].available
      /\ i.notify_address = snap[c].notify_address
  BY <1>1, Counting
<1>3. Unlocked(c) = IF outcome[c] = "UNKNOWN" THEN j
                    ELSE [j EXCEPT !.state = "RESULT", !.outcome = outcome[c]]
  BY DEF Unlocked
<1> HIDE DEF i
<1>4. /\ JoinWord(j) /\ ~j.notify_event_or_lazy_lock
      /\ j.downstream_count = i.downstream_count /\ j.available = i.available
      /\ j.state = i.state /\ j.outcome = i.outcome
      /\ j.notify_address = i.notify_address
  BY <1>2 DEF JoinWord, Statuses
<1> HIDE DEF j
<1>5. ASSUME outcome[c] # "UNKNOWN"
      PROVE  LET r == [j EXCEPT !.state = "RESULT", !.outcome = outcome[c]]
             IN  /\ JoinWord(r) /\ ~r.notify_event_or_lazy_lock
                 /\ r.downstream_count = j.downstream_count /\ r.available = j.available
                 /\ r.state = "RESULT" /\ r.outcome = outcome[c]
                 /\ r.notify_address = j.notify_address
  BY <1>4, <1>5 DEF JoinWord, Statuses, States
<1>6. CASE outcome[c] = "UNKNOWN"
  <2>1. Unlocked(c) = j
    BY <1>3, <1>6
  <2> QED
    BY <1>2, <1>4, <1>6, <2>1
<1>7. CASE outcome[c] # "UNKNOWN"
  <2>1. Unlocked(c) = [j EXCEPT !.state = "RESULT", !.outcome = outcome[c]]
    BY <1>3, <1>7
  <2> QED
    BY <1>2, <1>4, <1>5, <1>7, <2>1
<1> QED
  BY <1>6, <1>7

-----------------------------------------------------------------------------
(* Batches of identifiers and sets of clients.                             *)

(* What inpoll_wait() returns: different identifiers that are ready.       *)
LEMMA BatchOfReady ==
  ASSUME Typed, NEW b \in inpoll_wait
  PROVE  /\ b \in Seq(Upstreams \cup {Latch})
         /\ \A i \in 1 .. Len(b) : b[i] \in Ready
         /\ \A i, j \in 1 .. Len(b) : b[i] = b[j] => i = j
<1>1. PICK ids \in SetToSeqs(Ready) :
             b = SubSeq(ids, 1, Min({Len(ids), MAX_JOIN_INPOLL_IDENTIFIERS}))
  BY DEF inpoll_wait
<1>2. Ready \subseteq Upstreams \cup {Latch}
  BY DEF Ready, Typed
<1>3. IsFiniteSet(Ready)
  <2>1. IsFiniteSet(Upstreams \cup {Latch})
    BY UpstreamsAssumption, FS_AddElement
  <2> QED
    BY <1>2, <2>1, FS_Subset
<1>4. PICK n \in Nat : n = Cardinality(Ready)
  BY <1>3, FS_CardinalityType
<1>5. ids \in [1 .. n -> Ready] /\ \A i, j \in 1 .. n : i # j => ids[i] # ids[j]
  BY <1>1, <1>4 DEF SetToSeqs
<1>6. ids \in Seq(Ready) /\ Len(ids) = n
  BY <1>4, <1>5
<1>7. PICK m : m = Min({n, MAX_JOIN_INPOLL_IDENTIFIERS})
  OBVIOUS
<1>8. m \in 0 .. n
  <2>1. MAX_JOIN_INPOLL_IDENTIFIERS \in Nat
    BY BufferAssumption
  <2>2. \E x \in {n, MAX_JOIN_INPOLL_IDENTIFIERS} :
          \A y \in {n, MAX_JOIN_INPOLL_IDENTIFIERS} : x =< y
    BY <1>4, <2>1
  <2>3. m \in {n, MAX_JOIN_INPOLL_IDENTIFIERS} /\ m =< n
    BY <1>7, <2>2 DEF Min
  <2> QED
    BY <1>4, <2>1, <2>3
<1>9. b = SubSeq(ids, 1, m)
  BY <1>1, <1>6, <1>7
<1>10. /\ b \in Seq(Ready) /\ Len(b) = m
       /\ \A i \in 1 .. m : b[i] = ids[i]
  BY <1>6, <1>8, <1>9
<1>11. /\ \A i \in 1 .. Len(b) : b[i] \in Ready
       /\ \A i, j \in 1 .. Len(b) : b[i] = b[j] => i = j
  BY <1>5, <1>8, <1>10
<1> QED
  BY <1>2, <1>10, <1>11

LEMMA SmallerSet ==
  ASSUME NEW S, NEW T \in SUBSET Clients, S \subseteq T
  PROVE  Cardinality(S) \in Nat /\ Cardinality(T) \in Nat /\ Cardinality(S) <= Cardinality(T)
<1>1. IsFiniteSet(T) /\ IsFiniteSet(S)
  BY ClientsAssumption, FS_Subset
<1> QED
  BY <1>1, FS_Subset, FS_CardinalityType

LEMMA BiggerSet ==
  ASSUME NEW S, NEW T \in SUBSET Clients, NEW c \in Clients, S \subseteq T \cup {c}
  PROVE  Cardinality(S) \in Nat /\ Cardinality(T) \in Nat /\ Cardinality(S) <= Cardinality(T) + 1
<1>1. IsFiniteSet(T)
  BY ClientsAssumption, FS_Subset
<1>2. Cardinality(T) \in Nat /\ Cardinality(T \cup {c}) \in Nat
      /\ Cardinality(T \cup {c}) <= Cardinality(T) + 1
  <2>1. Cardinality(T) \in Nat
    BY <1>1, FS_CardinalityType
  <2>2. \/ Cardinality(T \cup {c}) = Cardinality(T)
        \/ Cardinality(T \cup {c}) = Cardinality(T) + 1
    BY <1>1, FS_AddElement
  <2> QED
    BY <2>1, <2>2
<1>3. Cardinality(S) \in Nat /\ Cardinality(S) <= Cardinality(T \cup {c})
  BY SmallerSet
<1> QED
  BY <1>2, <1>3

LEMMA ProperSubset ==
  ASSUME NEW S, NEW T \in SUBSET Clients, NEW c \in T, S \subseteq T \ {c}
  PROVE  Cardinality(S) \in Nat /\ Cardinality(T) \in Nat /\ Cardinality(S) + 1 <= Cardinality(T)
<1>1. IsFiniteSet(T)
  BY ClientsAssumption, FS_Subset
<1>2. Cardinality(T) \in Nat /\ Cardinality(T \ {c}) = Cardinality(T) - 1
  BY <1>1, FS_RemoveElement, FS_CardinalityType
<1>3. Cardinality(S) \in Nat /\ Cardinality(S) <= Cardinality(T \ {c})
  BY SmallerSet
<1> QED
  BY <1>2, <1>3

(* The clients that downstream_count has to cover.                         *)
RegisteredClients == {c \in Clients : Registers(c)}

LEMMA CountCovers ==
  ASSUME JInv
  PROVE  /\ status.downstream_count \in Nat /\ status.downstream_count <= MAX_DOWNSTREAM_COUNT
         /\ status.downstream_count >= Cardinality(RegisteredClients)
         /\ RegisteredClients \in SUBSET Clients
         /\ Cardinality(RegisteredClients) \in Nat
<1>1. RegisteredClients \in SUBSET Clients
  BY DEF RegisteredClients
<1>2. status.downstream_count \in Nat /\ status.downstream_count <= MAX_DOWNSTREAM_COUNT
  BY ZeroWord, WordFields, MaxCountAssumption DEF JInv, Typed, JoinWord
<1>3. status.downstream_count >= Cardinality(RegisteredClients)
  BY DEF JInv, CountNeverShort, RegisteredClients
<1> QED
  BY <1>1, <1>2, <1>3, SmallerSet

(* A registered client holds a reference: the word is live and available.  *)
LEMMA Referenced ==
  ASSUME JInv, NEW c \in Clients, Registers(c)
  PROVE  status.downstream_count >= 1 /\ status # ZeroStatus /\ status.available
<1>1. RegisteredClients \ {c} \subseteq RegisteredClients \ {c} /\ c \in RegisteredClients
  BY DEF RegisteredClients
<1>2. Cardinality(RegisteredClients) >= 1
  <2> DEFINE S == RegisteredClients \ {c}
  <2>1. Cardinality(S) \in Nat /\ Cardinality(RegisteredClients) \in Nat
        /\ Cardinality(S) + 1 <= Cardinality(RegisteredClients)
    BY <1>1, ProperSubset, CountCovers
  <2> QED
    BY <2>1
<1>3. status.downstream_count >= 1
  BY <1>2, CountCovers
<1>4. status # ZeroStatus
  BY <1>3, ZeroWord, CountCovers
<1> QED
  BY <1>3, <1>4, CountCovers DEF JInv, Typed, JoinWord

LEMMA TwoReferences ==
  ASSUME JInv, NEW c \in Clients, NEW d \in Clients, c # d, Registers(c), Registers(d)
  PROVE  status.downstream_count >= 2
<1>1. Cardinality({d}) + 1 <= Cardinality(RegisteredClients) /\ Cardinality({d}) \in Nat
  BY ProperSubset, CountCovers DEF RegisteredClients
<1>2. Cardinality({d}) = 1
  BY FS_Singleton
<1> QED
  BY <1>1, <1>2, CountCovers

-----------------------------------------------------------------------------
(* Frames.                                                                 *)

(* Nothing of client d moves.                                              *)
Still(d) ==
  /\ pc'[d] = pc[d] /\ call'[d] = call[d] /\ snap'[d] = snap[d]
  /\ outcome'[d] = outcome[d] /\ batch'[d] = batch[d]

(* What the steps of others may do to client d, which may be woken.        *)
Undisturbed(d) ==
  /\ pc'[d] = pc[d] \/ (pc[d] = "asleep" /\ pc'[d] = "check")
  /\ call'[d] = call[d] /\ snap'[d] = snap[d]
  /\ outcome'[d] = outcome[d] /\ batch'[d] = batch[d]
  /\ pc[d] # "idle" =>
       /\ status' # ZeroStatus
       /\ status.state = "RESULT" => status'.state = "RESULT"
       /\ status.notify_address => status'.notify_address
       /\ status.available => status'.available
  /\ Finishing(d) => status' = status /\ \A e \in Clients \ {d} : pc'[e] = "idle"
  /\ pc[d] \in LockLocs =>
       /\ status'.notify_event_or_lazy_lock
       /\ status'.state = "RESULT" => status'.outcome = "FAILURE_CANCELED"
       /\ attached' = attached /\ upstream' = upstream
       /\ canceled => canceled'

LEMMA Frame ==
  ASSUME JInv, NEW d \in Clients, Undisturbed(d)
  PROVE  ClientFits(d)'
<1>1. ClientFits(d)
  BY DEF JInv
<1>2. LocFits(d)'
  BY <1>1 DEF ClientFits, LocFits, Undisturbed, LockLocs
<1>3. FutexFits(d)'
  BY <1>1 DEF ClientFits, FutexFits, Undisturbed, LockLocs
<1>4. FinisherFits(d)'
  <2> SUFFICES ASSUME Finishing(d)'
               PROVE  /\ \A e \in Clients \ {d} : pc'[e] = "idle"
                      /\ snap'[d] = status'
                      /\ pc'[d] \in {"wait", "register", "collect"} \cup LockLocs => ~status'.available
                      /\ pc'[d] \in {"wait", "register"} \cup LockLocs => status'.state = "WAITING"
    BY DEF FinisherFits
  <2>1. Finishing(d)
    BY DEF Finishing, Undisturbed
  <2> QED
    BY <1>1, <2>1 DEF ClientFits, FinisherFits, Undisturbed, LockLocs
<1>5. ASSUME pc'[d] \in LockLocs
      PROVE  HolderFits(d)'
  <2>1. pc[d] \in LockLocs /\ pc'[d] = pc[d]
    BY <1>5 DEF Undisturbed, LockLocs
  <2>2. HolderFits(d)
    BY <1>1, <2>1 DEF ClientFits
  <2>3. pc[d] # "idle"
    BY <2>1 DEF LockLocs
  <2>4. Policy(d)' = Policy(d)
    BY DEF Policy, Undisturbed
  <2>5. CountDecAllowed(snap[d], Policy(d))'
    BY <2>2, <2>4 DEF HolderFits, CountDecAllowed, Undisturbed
  <2>6. pc[d] = "drain" => BatchFits(batch[d])'
    BY <2>1, <2>2, <2>3 DEF HolderFits, BatchFits, Undisturbed
  <2>7. Justified(outcome[d])' /\ (outcome'[d] = "UNKNOWN" => NoFailureSeen')
    BY <2>1, <2>2 DEF HolderFits, Justified, NoFailureSeen, Undisturbed
  <2> QED
    BY <2>1, <2>2, <2>3, <2>5, <2>6, <2>7 DEF HolderFits, Undisturbed
<1> QED
  BY <1>2, <1>3, <1>4, <1>5 DEF ClientFits

(* A client that is in a call of the library meets nobody who finishes.    *)
LEMMA NoFinisherElse ==
  ASSUME JInv, NEW c \in Clients, pc[c] # "idle", NEW d \in Clients \ {c}
  PROVE  ~Finishing(d)
BY DEF JInv, ClientFits, FinisherFits

(* A step of client c that leaves the word, the inpoll and the upstream    *)
(* futures alone, wakes nobody and neither takes nor gives back the lock.  *)
LocalStep(c) ==
  /\ status' = status /\ upstream' = upstream /\ attached' = attached
  /\ remaining' = remaining /\ canceled' = canceled
  /\ \A d \in Clients \ {c} : Still(d) /\ ~Finishing(d)
  /\ latch' \/ waited' => status.state # "WAITING"
  /\ pc'[c] \in LockLocs <=> pc[c] \in LockLocs
  /\ Registers(c)' => Registers(c)
  /\ pc'[c] = "asleep" => status.notify_event_or_lazy_lock /\ status.state # "RESULT"
  /\ pc[c] \in {"register", "check", "notify_one"} /\ status.state # "RESULT" =>
       \/ status.notify_event_or_lazy_lock
       \/ pc'[c] \in {"register", "check", "notify_one"}
  /\ WakesAll(c) /\ status.state = "RESULT" => WakesAll(c)'

LEMMA LocalFrame ==
  ASSUME JInv, NEW c \in Clients, Typed', LocalStep(c), ClientFits(c)'
  PROVE  JInv'
<1>1. ASSUME NEW d \in Clients PROVE ClientFits(d)'
  <2>1. CASE d = c
    BY <2>1
  <2>2. CASE d # c
    <3>1. pc[d] \in LockLocs => HolderFits(d)
      BY DEF JInv, ClientFits
    <3>2. pc[d] # "idle" => status # ZeroStatus
      BY DEF JInv, ClientFits, LocFits
    <3>3. Undisturbed(d)
      BY <2>2, <3>1, <3>2 DEF LocalStep, Still, Undisturbed, HolderFits
    <3> QED
      BY <3>3, Frame
  <2> QED
    BY <2>1, <2>2
<1>2. InpollFits'
  BY DEF JInv, InpollFits, LocalStep, NoFailureSeen, Justified
<1>3. ASSUME NEW d \in Clients
      PROVE  /\ pc'[d] \in LockLocs <=> pc[d] \in LockLocs
             /\ Registers(d)' => Registers(d)
  BY DEF LocalStep, Still, Registers
<1>4. OneHolder'
  BY <1>3 DEF JInv, OneHolder, LocalStep
<1>5. CountNeverShort'
  <2>1. RegisteredClients' \subseteq RegisteredClients
    BY <1>3 DEF RegisteredClients
  <2>2. Cardinality(RegisteredClients') <= Cardinality(RegisteredClients)
        /\ Cardinality(RegisteredClients') \in Nat
    BY <2>1, CountCovers, SmallerSet
  <2>3. status'.downstream_count >= Cardinality(RegisteredClients')
    BY <2>2, CountCovers DEF LocalStep
  <2> QED
    BY <2>3 DEF CountNeverShort, RegisteredClients
<1>6. SleepersWatched'
  <2> SUFFICES ASSUME NEW e \in Clients, pc'[e] = "asleep"
               PROVE  IF status'.state = "RESULT" THEN \E d \in Clients : WakesAll(d)'
                      ELSE \/ status'.notify_event_or_lazy_lock
                           \/ \E d \in Clients : pc'[d] \in {"register", "check", "notify_one"}
    BY DEF SleepersWatched
  <2>1. CASE e = c
    BY <2>1 DEF LocalStep
  <2>2. CASE e # c
    <3>1. pc[e] = "asleep"
      BY <2>2 DEF LocalStep, Still
    <3>2. CASE status.state = "RESULT"
      <4>1. PICK d \in Clients : WakesAll(d)
        BY <3>1, <3>2 DEF JInv, SleepersWatched
      <4>2. WakesAll(d)'
        BY <3>2, <4>1 DEF LocalStep, Still, WakesAll
      <4> QED
        BY <3>2, <4>2 DEF LocalStep
    <3>3. CASE status.state # "RESULT" /\ ~status.notify_event_or_lazy_lock
      <4>1. PICK d \in Clients : pc[d] \in {"register", "check", "notify_one"}
        BY <3>1, <3>3 DEF JInv, SleepersWatched
      <4>2. pc'[d] \in {"register", "check", "notify_one"}
        BY <3>3, <4>1 DEF LocalStep, Still
      <4> QED
        BY <3>3, <4>2 DEF LocalStep
    <3> QED
      BY <3>2, <3>3 DEF LocalStep
  <2> QED
    BY <2>1, <2>2
<1> QED
  BY <1>1, <1>2, <1>4, <1>5, <1>6 DEF JInv

-----------------------------------------------------------------------------
(* Building blocks of the client's steps.                                  *)

LEMMA Moved ==
  ASSUME Typed, NEW c \in Clients, NEW loc \in ClientLocs, NEW s \in Statuses,
         Continue(c, loc, s)
  PROVE  /\ pc' \in [Clients -> ClientLocs] /\ snap' \in [Clients -> Statuses]
         /\ pc'[c] = loc /\ snap'[c] = s
         /\ \A d \in Clients \ {c} : pc'[d] = pc[d] /\ snap'[d] = snap[d]
BY DEF Typed, Continue

LEMMA Called ==
  ASSUME Typed, NEW c \in Clients,
         NEW k \in WaitCalls \cup CancelCalls \cup FinishCalls \cup {"none"},
         call' = [call EXCEPT ![c] = k]
  PROVE  /\ call' \in [Clients -> WaitCalls \cup CancelCalls \cup FinishCalls \cup {"none"}]
         /\ call'[c] = k
         /\ \A d \in Clients \ {c} : call'[d] = call[d]
BY DEF Typed

LEMMA Locations ==
  /\ LockLocs \subseteq ClientLocs
  /\ {"idle", "register", "futex", "asleep", "check", "release", "notify_all",
      "notify_latch", "notify_one", "cancel", "cancel_latch", "cancel_wake",
      "retire", "wait", "collect", "poll", "drain", "unlock"} \subseteq ClientLocs
BY DEF LockLocs, ClientLocs

LEMMA IdleFits ==
  ASSUME NEW c \in Clients, pc'[c] = "idle"
  PROVE  ClientFits(c)' /\ ~(Registers(c)') /\ ~(Finishing(c)') /\ pc'[c] \notin LockLocs
BY DEF ClientFits, LocFits, FutexFits, FinisherFits, Finishing, LockLocs, Registers

LEMMA Returned ==
  ASSUME Typed, NEW c \in Clients, Return(c)
  PROVE  /\ pc' \in [Clients -> ClientLocs] /\ snap' \in [Clients -> Statuses]
         /\ call' \in [Clients -> WaitCalls \cup CancelCalls \cup FinishCalls \cup {"none"}]
         /\ pc'[c] = "idle"
         /\ \A d \in Clients \ {c} : pc'[d] = pc[d] /\ snap'[d] = snap[d] /\ call'[d] = call[d]
<1>1. "idle" \in ClientLocs /\ ZeroStatus \in Statuses
  BY Locations, ZeroWord
<1>2. Continue(c, "idle", ZeroStatus) /\ call' = [call EXCEPT ![c] = "none"]
  BY DEF Return
<1> QED
  BY <1>1, <1>2, Moved, Called

(* future_wait() returns to udipe_wait() or future_finish().               *)
LEMMA WaitReturned ==
  ASSUME Typed, NEW c \in Clients, call[c] \in WaitCalls \cup FinishCalls,
         NEW s, JoinWord(s), status' # ZeroStatus,
         s.state = "RESULT" => status'.state = "RESULT",
         WaitOver(c, s),
         call[c] \in FinishCalls =>
           /\ s = status' /\ s.state = "RESULT" /\ ~s.available
           /\ \A d \in Clients \ {c} : pc[d] = "idle"
  PROVE  /\ pc' \in [Clients -> ClientLocs] /\ snap' \in [Clients -> Statuses]
         /\ call' \in [Clients -> WaitCalls \cup CancelCalls \cup FinishCalls \cup {"none"}]
         /\ \A d \in Clients \ {c} : pc'[d] = pc[d] /\ snap'[d] = snap[d] /\ call'[d] = call[d]
         /\ pc'[c] \in {"idle", "collect"} /\ ~(Registers(c)')
         /\ waited' \in BOOLEAN
         /\ waited' => waited \/ status'.state = "RESULT"
         /\ ClientFits(c)'
<1>1. CASE call[c] \in WaitCalls
  <2>1. Return(c) /\ waited' = (waited \/ s.state = "RESULT")
    BY <1>1 DEF WaitOver, Policy
  <2>2. waited' \in BOOLEAN /\ (waited' => waited \/ status'.state = "RESULT")
    BY <2>1 DEF Typed
  <2> QED
    BY <2>1, <2>2, Returned, IdleFits
<1>2. CASE call[c] \notin WaitCalls
  <2>1. Continue(c, "collect", s) /\ call' = call /\ waited' = waited
    BY <1>2 DEF WaitOver, Policy
  <2>2. s \in Statuses /\ "collect" \in ClientLocs
    BY Locations DEF JoinWord
  <2>3. /\ pc' \in [Clients -> ClientLocs] /\ snap' \in [Clients -> Statuses]
        /\ pc'[c] = "collect" /\ snap'[c] = s
        /\ \A d \in Clients \ {c} : pc'[d] = pc[d] /\ snap'[d] = snap[d]
    BY <2>1, <2>2, Moved
  <2>4. call'[c] \in FinishCalls
    BY <1>2, <2>1
  <2>5. LocFits(c)' /\ FutexFits(c)' /\ pc'[c] \notin LockLocs /\ ~(Registers(c)')
    BY <1>2, <2>3, <2>4 DEF LocFits, FutexFits, LockLocs, Registers
  <2>6. FinisherFits(c)'
    BY <1>2, <2>3 DEF FinisherFits, LockLocs
  <2>7. call' \in [Clients -> WaitCalls \cup CancelCalls \cup FinishCalls \cup {"none"}]
        /\ waited' \in BOOLEAN
    BY <2>1 DEF Typed
  <2> QED
    BY <2>1, <2>3, <2>5, <2>6, <2>7 DEF ClientFits
<1> QED
  BY <1>1, <1>2

-----------------------------------------------------------------------------
(* The calls and the steps that change nothing but the client.             *)

LEMMA WaitKeeps ==
  ASSUME JInv, NEW c \in Clients, NEW t \in WaitKinds, Wait(c, t)
  PROVE  JInv'
<1> USE DEF JInv
<1>1. /\ pc[c] = "idle" /\ status.available /\ \A d \in Clients : ~Finishing(d)
      /\ status' = status /\ upstream' = upstream /\ readable' = readable
      /\ attached' = attached /\ remaining' = remaining /\ latch' = latch
      /\ outcome' = outcome /\ batch' = batch /\ canceled' = canceled /\ aborted' = aborted
  BY DEF Wait, MayCall, upstreamVars, inpollVars, localVars
<1>2. status # ZeroStatus /\ JoinWord(status) /\ status \in Statuses
  BY <1>1, ZeroWord DEF Typed, JoinWord
<1>3. CASE status.state = "RESULT"
  <2>1. waited' = TRUE /\ pc' = pc /\ call' = call /\ snap' = snap
    BY <1>3 DEF Wait
  <2>2. Typed'
    BY <1>1, <2>1 DEF Typed
  <2>3. LocalStep(c)
    BY <1>1, <1>3, <2>1 DEF LocalStep, Still, Registers, LockLocs, WakesAll
  <2>4. ClientFits(c)'
    BY <1>1, <2>1, IdleFits
  <2> QED
    BY <2>2, <2>3, <2>4, LocalFrame
<1>4. CASE status.state # "RESULT"
  <2>1. call' = [call EXCEPT ![c] = t] /\ Continue(c, "register", status) /\ waited' = waited
    BY <1>4 DEF Wait
  <2>2. t \in WaitCalls
    BY WaitKindsAssumption
  <2>3. /\ pc' \in [Clients -> ClientLocs] /\ snap' \in [Clients -> Statuses]
        /\ pc'[c] = "register" /\ snap'[c] = status
        /\ \A d \in Clients \ {c} : pc'[d] = pc[d] /\ snap'[d] = snap[d]
    BY <1>2, <2>1, Moved, Locations
  <2>4. /\ call' \in [Clients -> WaitCalls \cup CancelCalls \cup FinishCalls \cup {"none"}]
        /\ call'[c] = t
        /\ \A d \in Clients \ {c} : call'[d] = call[d]
    BY <2>1, <2>2, Called
  <2>5. Typed'
    BY <1>1, <2>1, <2>3, <2>4 DEF Typed
  <2>6. LocalStep(c)
    BY <1>1, <1>4, <2>1, <2>3, <2>4 DEF LocalStep, Still, Registers, LockLocs, WakesAll, InpollFits
  <2>7. ClientFits(c)'
    BY <1>1, <1>2, <1>4, <2>2, <2>3, <2>4
       DEF ClientFits, LocFits, FutexFits, FinisherFits, Finishing, LockLocs, WaitCalls,
           FinishCalls, JoinWord
  <2> QED
    BY <2>5, <2>6, <2>7, LocalFrame
<1> QED
  BY <1>3, <1>4

LEMMA CancelKeeps ==
  ASSUME JInv, NEW c \in Clients, NEW k \in CancelCalls, Cancel(c, k)
  PROVE  JInv'
<1> USE DEF JInv
<1>1. /\ pc[c] = "idle" /\ status.available /\ \A d \in Clients : ~Finishing(d)
      /\ k = "cancel_finish" => \A d \in Clients : pc[d] = "idle"
      /\ status' = status /\ upstream' = upstream /\ readable' = readable
      /\ attached' = attached /\ remaining' = remaining /\ latch' = latch
      /\ outcome' = outcome /\ batch' = batch /\ canceled' = canceled
      /\ waited' = waited /\ aborted' = aborted
  BY DEF Cancel, MayCall, MayFinish, Finishing, upstreamVars, inpollVars, localVars
<1>2. status # ZeroStatus /\ JoinWord(status) /\ status \in Statuses
  BY <1>1, ZeroWord DEF Typed, JoinWord
<1>3. PICK loc \in {"cancel", "retire"} :
        /\ call' = [call EXCEPT ![c] = k] /\ Continue(c, loc, status)
        /\ loc = "cancel" => status.outcome = "UNKNOWN"
        /\ loc = "retire" => k = "cancel_finish"
  BY DEF Cancel
<1>4. /\ pc' \in [Clients -> ClientLocs] /\ snap' \in [Clients -> Statuses]
      /\ pc'[c] = loc /\ snap'[c] = status
      /\ \A d \in Clients \ {c} : pc'[d] = pc[d] /\ snap'[d] = snap[d]
  BY <1>2, <1>3, Moved, Locations
<1>5. /\ call' \in [Clients -> WaitCalls \cup CancelCalls \cup FinishCalls \cup {"none"}]
      /\ call'[c] = k
      /\ \A d \in Clients \ {c} : call'[d] = call[d]
  BY <1>3, Called
<1>6. Typed'
  BY <1>1, <1>4, <1>5 DEF Typed
<1>7. LocalStep(c)
  BY <1>1, <1>3, <1>4, <1>5 DEF LocalStep, Still, Registers, LockLocs, WakesAll, InpollFits
<1>8. LocFits(c)' /\ FutexFits(c)' /\ pc'[c] \notin LockLocs
  BY <1>1, <1>2, <1>3, <1>4, <1>5
     DEF LocFits, FutexFits, LockLocs, CancelCalls, FinishCalls, JoinWord
<1>9. FinisherFits(c)'
  BY <1>1, <1>3, <1>4, <1>5 DEF FinisherFits, Finishing, LockLocs, CancelCalls, FinishCalls
<1> QED
  BY <1>6, <1>7, <1>8, <1>9, LocalFrame DEF ClientFits

LEMMA FinishKeeps ==
  ASSUME JInv, NEW c \in Clients, Finish(c)
  PROVE  JInv'
<1> USE DEF JInv
<1>1. /\ status.available /\ \A d \in Clients : pc[d] = "idle" /\ ~Finishing(d)
      /\ status' = status /\ upstream' = upstream /\ readable' = readable
      /\ attached' = attached /\ remaining' = remaining /\ latch' = latch
      /\ outcome' = outcome /\ batch' = batch /\ canceled' = canceled
      /\ waited' = waited /\ aborted' = aborted
      /\ call' = [call EXCEPT ![c] = "finish"] /\ Continue(c, "retire", status)
  BY DEF Finish, MayFinish, Finishing, upstreamVars, inpollVars, localVars
<1>2. status # ZeroStatus /\ JoinWord(status) /\ status \in Statuses
  BY <1>1, ZeroWord DEF Typed, JoinWord
<1>4. /\ pc' \in [Clients -> ClientLocs] /\ snap' \in [Clients -> Statuses]
      /\ pc'[c] = "retire" /\ snap'[c] = status
      /\ \A d \in Clients \ {c} : pc'[d] = pc[d] /\ snap'[d] = snap[d]
  BY <1>1, <1>2, Moved, Locations
<1>5. /\ call' \in [Clients -> WaitCalls \cup CancelCalls \cup FinishCalls \cup {"none"}]
      /\ call'[c] = "finish"
      /\ \A d \in Clients \ {c} : call'[d] = call[d]
  BY <1>1, Called DEF FinishCalls
<1>6. Typed'
  BY <1>1, <1>4, <1>5 DEF Typed
<1>7. LocalStep(c)
  BY <1>1, <1>4, <1>5 DEF LocalStep, Still, Registers, LockLocs, WakesAll, InpollFits
<1>8. LocFits(c)' /\ FutexFits(c)' /\ pc'[c] \notin LockLocs
  BY <1>1, <1>2, <1>4, <1>5
     DEF LocFits, FutexFits, LockLocs, CancelCalls, FinishCalls, JoinWord
<1>9. FinisherFits(c)'
  BY <1>1, <1>4, <1>5 DEF FinisherFits, Finishing, LockLocs, CancelCalls, FinishCalls
<1> QED
  BY <1>6, <1>7, <1>8, <1>9, LocalFrame DEF ClientFits

-----------------------------------------------------------------------------
(* What a client in a call may rely upon.                                  *)
LEMMA InCall ==
  ASSUME JInv, NEW c \in Clients, pc[c] # "idle"
  PROVE  /\ status # ZeroStatus /\ JoinWord(status) /\ status \in Statuses
         /\ JoinWord(snap[c]) /\ snap[c] \in Statuses
         /\ snap[c].state = "RESULT" => status.state = "RESULT"
         /\ \A d \in Clients \ {c} : ~Finishing(d)
         /\ LocFits(c) /\ FutexFits(c) /\ FinisherFits(c)
         /\ pc[c] \in LockLocs => HolderFits(c)
<1>1. LocFits(c) /\ FutexFits(c) /\ FinisherFits(c) /\ (pc[c] \in LockLocs => HolderFits(c))
  BY DEF JInv, ClientFits
<1>2. status # ZeroStatus /\ JoinWord(snap[c])
      /\ (snap[c].state = "RESULT" => status.state = "RESULT")
  BY <1>1 DEF LocFits
<1>3. JoinWord(status)
  BY <1>2 DEF JInv, Typed
<1> QED
  BY <1>1, <1>2, <1>3, NoFinisherElse, JoinWordChecked

(* A step that changes the place and the copy of a client only.            *)
OnlyMoves(c, loc, s) ==
  /\ Continue(c, loc, s)
  /\ status' = status /\ upstream' = upstream /\ readable' = readable
  /\ attached' = attached /\ remaining' = remaining /\ latch' = latch
  /\ call' = call /\ outcome' = outcome /\ batch' = batch
  /\ canceled' = canceled /\ waited' = waited /\ aborted' = aborted

LEMMA OnlyMovesFacts ==
  ASSUME JInv, NEW c \in Clients, pc[c] # "idle", NEW loc \in ClientLocs, NEW s, JoinWord(s),
         OnlyMoves(c, loc, s)
  PROVE  /\ Typed'
         /\ pc'[c] = loc /\ snap'[c] = s
         /\ \A d \in Clients \ {c} : Still(d) /\ ~Finishing(d)
         /\ latch' \/ waited' => status.state # "WAITING"
<1>1. s \in Statuses
  BY DEF JoinWord
<1>2. /\ pc' \in [Clients -> ClientLocs] /\ snap' \in [Clients -> Statuses]
      /\ pc'[c] = loc /\ snap'[c] = s
      /\ \A d \in Clients \ {c} : pc'[d] = pc[d] /\ snap'[d] = snap[d]
  BY <1>1, Moved DEF OnlyMoves, JInv
<1>3. Typed'
  BY <1>2 DEF OnlyMoves, JInv, Typed
<1> QED
  BY <1>2, <1>3, InCall DEF OnlyMoves, Still, JInv, InpollFits

(* The place of a client on the futex side, or a canceling one.            *)
LEMMA MoveAside ==
  ASSUME JInv, NEW c \in Clients, pc[c] # "idle", pc[c] \notin LockLocs,
         NEW loc \in ClientLocs \ LockLocs, NEW s, JoinWord(s),
         OnlyMoves(c, loc, s), ClientFits(c)',
         loc \in {"futex", "asleep", "check", "release"} /\ call[c] \in WaitCalls => Registers(c),
         loc = "asleep" => status.notify_event_or_lazy_lock /\ status.state # "RESULT",
         pc[c] \in {"register", "check", "notify_one"} /\ status.state # "RESULT" =>
           \/ status.notify_event_or_lazy_lock
           \/ loc \in {"register", "check", "notify_one"},
         ~WakesAll(c)
  PROVE  JInv'
<1>1. /\ Typed'
      /\ pc'[c] = loc /\ snap'[c] = s
      /\ \A d \in Clients \ {c} : Still(d) /\ ~Finishing(d)
      /\ latch' \/ waited' => status.state # "WAITING"
  BY OnlyMovesFacts
<1>2. Registers(c)' => Registers(c)
  BY <1>1 DEF Registers, OnlyMoves
<1>3. LocalStep(c)
  BY <1>1, <1>2 DEF LocalStep, OnlyMoves
<1> QED
  BY <1>1, <1>3, LocalFrame

LEMMA WaitRegisterRetryKeeps ==
  ASSUME JInv, NEW c \in Clients, WaitRegisterRetry(c)
  PROVE  JInv'
<1>1. /\ pc[c] = "register" /\ status # snap[c]
      /\ status' = status /\ upstream' = upstream /\ readable' = readable
      /\ attached' = attached /\ remaining' = remaining /\ latch' = latch
      /\ outcome' = outcome /\ batch' = batch /\ canceled' = canceled /\ aborted' = aborted
  BY DEF WaitRegisterRetry, upstreamVars, inpollVars, localVars
<1>2. /\ status # ZeroStatus /\ JoinWord(status) /\ status \in Statuses
      /\ \A d \in Clients \ {c} : ~Finishing(d)
      /\ LocFits(c) /\ FinisherFits(c)
  BY <1>1, InCall
<1>3. call[c] \in WaitCalls
  BY <1>1, <1>2 DEF LocFits, FinisherFits, Finishing
<1>4. CASE status.state = "RESULT"
  <2>1. WaitOver(c, status) /\ call[c] \notin FinishCalls
    BY <1>3, <1>4 DEF WaitRegisterRetry, WaitCalls, FinishCalls
  <2>2. /\ pc' \in [Clients -> ClientLocs] /\ snap' \in [Clients -> Statuses]
        /\ call' \in [Clients -> WaitCalls \cup CancelCalls \cup FinishCalls \cup {"none"}]
        /\ \A d \in Clients \ {c} : pc'[d] = pc[d] /\ snap'[d] = snap[d] /\ call'[d] = call[d]
        /\ pc'[c] \in {"idle", "collect"} /\ ~(Registers(c)')
        /\ waited' \in BOOLEAN
        /\ waited' => waited \/ status'.state = "RESULT"
        /\ ClientFits(c)'
    BY <1>1, <1>2, <1>3, <2>1, WaitReturned DEF JInv
  <2>3. Typed'
    BY <1>1, <2>2 DEF JInv, Typed
  <2>4. LocalStep(c)
    BY <1>1, <1>2, <1>4, <2>2 DEF LocalStep, Still, LockLocs, WakesAll
  <2> QED
    BY <2>2, <2>3, <2>4, LocalFrame
<1>5. CASE status.state # "RESULT"
  <2>1. OnlyMoves(c, "register", status)
    BY <1>1, <1>5 DEF WaitRegisterRetry, OnlyMoves
  <2>2. "register" \in ClientLocs \ LockLocs
    BY Locations DEF LockLocs
  <2>3. pc'[c] = "register" /\ snap'[c] = status
    BY <1>1, <1>2, <2>1, <2>2, OnlyMovesFacts
  <2>4. ClientFits(c)'
    BY <1>1, <1>2, <1>3, <1>5, <2>1, <2>3
       DEF ClientFits, LocFits, FutexFits, FinisherFits, Finishing, LockLocs, WaitCalls,
           FinishCalls, JoinWord, OnlyMoves
  <2> QED
    BY <1>1, <1>2, <2>1, <2>2, <2>4, MoveAside DEF WakesAll, LockLocs
<1> QED
  BY <1>4, <1>5

LEMMA FutexWaitKeeps ==
  ASSUME JInv, NEW c \in Clients, FutexWait(c)
  PROVE  JInv'
<1>1. PICK loc \in {"asleep", "check"} :
        pc[c] = "futex" /\ OnlyMoves(c, loc, snap[c]) /\ (loc = "asleep" => status = snap[c])
  BY DEF FutexWait, OnlyMoves, upstreamVars, inpollVars, localVars
<1>2. LocFits(c) /\ FutexFits(c) /\ JoinWord(snap[c]) /\ status # ZeroStatus
  BY <1>1, InCall
<1>3. loc \in ClientLocs \ LockLocs
  BY <1>1, Locations DEF LockLocs
<1>4. pc'[c] = loc /\ snap'[c] = snap[c]
  BY <1>1, <1>2, <1>3, OnlyMovesFacts
<1>5. call[c] \in WaitCalls
  BY <1>1, <1>2 DEF LocFits
<1>6. ClientFits(c)'
  BY <1>1, <1>2, <1>4, <1>5
     DEF ClientFits, LocFits, FutexFits, FinisherFits, Finishing, LockLocs, WaitCalls,
         FinishCalls, OnlyMoves
<1>7. loc = "asleep" => status.notify_event_or_lazy_lock /\ status.state # "RESULT"
  BY <1>1, <1>2 DEF LocFits, FutexFits
<1>8. Registers(c)
  BY <1>1, <1>5 DEF Registers
<1> QED
  BY <1>1, <1>2, <1>3, <1>6, <1>7, <1>8, MoveAside DEF WakesAll, LockLocs

LEMMA FutexReturnKeeps ==
  ASSUME JInv, NEW c \in Clients, FutexInterrupted(c) \/ FutexSpurious(c)
  PROVE  JInv'
<1>1. PICK loc \in {"futex", "release", "check"} :
        pc[c] = "asleep" /\ OnlyMoves(c, loc, snap[c])
  BY DEF FutexInterrupted, FutexSpurious, OnlyMoves, upstreamVars, inpollVars, localVars
<1>2. LocFits(c) /\ FutexFits(c) /\ JoinWord(snap[c]) /\ status # ZeroStatus
  BY <1>1, InCall
<1>3. loc \in ClientLocs \ LockLocs
  BY <1>1, Locations DEF LockLocs
<1>4. pc'[c] = loc /\ snap'[c] = snap[c]
  BY <1>1, <1>2, <1>3, OnlyMovesFacts
<1>5. call[c] \in WaitCalls
  BY <1>1, <1>2 DEF LocFits
<1>6. ClientFits(c)'
  BY <1>1, <1>2, <1>4, <1>5
     DEF ClientFits, LocFits, FutexFits, FinisherFits, Finishing, LockLocs, WaitCalls,
         FinishCalls, OnlyMoves
<1>8. Registers(c)
  BY <1>1, <1>5 DEF Registers
<1> QED
  BY <1>1, <1>2, <1>3, <1>6, <1>8, MoveAside DEF WakesAll, LockLocs

LEMMA CheckWokenKeeps ==
  ASSUME JInv, NEW c \in Clients, CheckWoken(c)
  PROVE  JInv'
<1>1. pc[c] = "check"
  BY DEF CheckWoken
<1>2. /\ LocFits(c) /\ FutexFits(c) /\ JoinWord(status) /\ status # ZeroStatus
  BY <1>1, InCall
<1>3. call[c] \in WaitCalls /\ Policy(c) = "CYCLE"
  BY <1>1, <1>2 DEF LocFits, Policy
<1>4. PICK loc \in {"register", "futex", "release"} :
        /\ OnlyMoves(c, loc, status)
        /\ loc \in {"register", "futex"} => status.state # "RESULT"
        /\ loc = "register" \/ status.notify_event_or_lazy_lock \/ status.state = "RESULT"
        /\ loc = "futex" => status.notify_event_or_lazy_lock
  BY <1>3 DEF CheckWoken, OnlyMoves, upstreamVars, inpollVars, localVars
<1>5. loc \in ClientLocs \ LockLocs
  BY <1>4, Locations DEF LockLocs
<1>6. pc'[c] = loc /\ snap'[c] = status
  BY <1>1, <1>2, <1>4, <1>5, OnlyMovesFacts
<1>7. ClientFits(c)'
  BY <1>1, <1>2, <1>3, <1>4, <1>6
     DEF ClientFits, LocFits, FutexFits, FinisherFits, Finishing, LockLocs, WaitCalls,
         FinishCalls, OnlyMoves, JoinWord
<1>8. Registers(c)
  BY <1>1, <1>3 DEF Registers
<1> QED
  BY <1>1, <1>2, <1>4, <1>5, <1>7, <1>8, MoveAside DEF WakesAll, LockLocs

LEMMA FinishWaitKeeps ==
  ASSUME JInv, NEW c \in Clients, FinishWait(c)
  PROVE  JInv'
<1>1. PICK loc \in {"collect", "register"} :
        /\ pc[c] = "wait" /\ OnlyMoves(c, loc, status)
        /\ (loc = "collect") = (status.state = "RESULT")
  BY DEF FinishWait, OnlyMoves, upstreamVars, inpollVars, localVars
<1>2. LocFits(c) /\ FinisherFits(c) /\ JoinWord(status) /\ status # ZeroStatus
  BY <1>1, InCall
<1>3. call[c] \in FinishCalls /\ Finishing(c)
  BY <1>1, <1>2 DEF LocFits, Finishing
<1>4. loc = "register" /\ status.state = "WAITING"
  BY <1>1, <1>2, <1>3 DEF FinisherFits
<1>5. "register" \in ClientLocs \ LockLocs
  BY Locations DEF LockLocs
<1>6. pc'[c] = "register" /\ snap'[c] = status /\ \A d \in Clients \ {c} : Still(d)
  BY <1>1, <1>2, <1>4, <1>5, OnlyMovesFacts
<1>7. LocFits(c)' /\ FutexFits(c)' /\ pc'[c] \notin LockLocs
  BY <1>1, <1>2, <1>3, <1>4, <1>6 DEF LocFits, FutexFits, LockLocs, OnlyMoves
<1>8. FinisherFits(c)'
  BY <1>1, <1>2, <1>3, <1>4, <1>6 DEF FinisherFits, Still, LockLocs, OnlyMoves
<1> QED
  BY <1>1, <1>2, <1>4, <1>5, <1>7, <1>8, MoveAside DEF WakesAll, LockLocs, ClientFits

LEMMA NotifyLatchKeeps ==
  ASSUME JInv, NEW c \in Clients, NotifyLatch(c)
  PROVE  JInv'
<1>1. /\ pc[c] = "notify_latch" /\ latch' = TRUE /\ WaitOver(c, snap[c])
      /\ status' = status /\ upstream' = upstream /\ readable' = readable
      /\ attached' = attached /\ remaining' = remaining
      /\ outcome' = outcome /\ batch' = batch /\ canceled' = canceled /\ aborted' = aborted
  BY DEF NotifyLatch, upstreamVars, localVars
<1>2. /\ status # ZeroStatus /\ JoinWord(snap[c])
      /\ \A d \in Clients \ {c} : ~Finishing(d)
      /\ LocFits(c)
  BY <1>1, InCall
<1>3. call[c] \in WaitCalls /\ status.state = "RESULT" /\ call[c] \notin FinishCalls
  BY <1>1, <1>2 DEF LocFits, WaitCalls, FinishCalls
<1>4. /\ pc' \in [Clients -> ClientLocs] /\ snap' \in [Clients -> Statuses]
      /\ call' \in [Clients -> WaitCalls \cup CancelCalls \cup FinishCalls \cup {"none"}]
      /\ \A d \in Clients \ {c} : pc'[d] = pc[d] /\ snap'[d] = snap[d] /\ call'[d] = call[d]
      /\ pc'[c] \in {"idle", "collect"} /\ ~(Registers(c)')
      /\ waited' \in BOOLEAN
      /\ ClientFits(c)'
  BY <1>1, <1>2, <1>3, WaitReturned DEF JInv
<1>5. Typed'
  BY <1>1, <1>4 DEF JInv, Typed
<1>6. LocalStep(c)
  BY <1>1, <1>2, <1>3, <1>4 DEF LocalStep, Still, LockLocs, WakesAll
<1> QED
  BY <1>4, <1>5, <1>6, LocalFrame

-----------------------------------------------------------------------------
(* Cancelation, up to its effect on the word.                              *)

LEMMA CancelReturned ==
  ASSUME Typed, NEW c \in Clients, call[c] \in CancelCalls, NEW s, JoinWord(s),
         status' # ZeroStatus, s.state = "RESULT" => status'.state = "RESULT",
         CancelOver(c, call[c], s),
         call[c] \in FinishCalls =>
           s = status' /\ \A d \in Clients \ {c} : pc[d] = "idle"
  PROVE  /\ pc' \in [Clients -> ClientLocs] /\ snap' \in [Clients -> Statuses]
         /\ call' \in [Clients -> WaitCalls \cup CancelCalls \cup FinishCalls \cup {"none"}]
         /\ \A d \in Clients \ {c} : pc'[d] = pc[d] /\ snap'[d] = snap[d] /\ call'[d] = call[d]
         /\ pc'[c] \in {"idle", "retire"} /\ ~(Registers(c)')
         /\ ClientFits(c)'
<1>1. CASE call[c] = "cancel_finish"
  <2>1. Continue(c, "retire", s) /\ call' = call
    BY <1>1 DEF CancelOver
  <2>2. s \in Statuses /\ "retire" \in ClientLocs
    BY Locations DEF JoinWord
  <2>3. /\ pc' \in [Clients -> ClientLocs] /\ snap' \in [Clients -> Statuses]
        /\ pc'[c] = "retire" /\ snap'[c] = s
        /\ \A d \in Clients \ {c} : pc'[d] = pc[d] /\ snap'[d] = snap[d]
    BY <2>1, <2>2, Moved
  <2>4. call'[c] \in FinishCalls /\ call[c] \in FinishCalls
    BY <1>1, <2>1 DEF FinishCalls
  <2>5. LocFits(c)' /\ FutexFits(c)' /\ pc'[c] \notin LockLocs /\ ~(Registers(c)')
    BY <2>3, <2>4 DEF LocFits, FutexFits, LockLocs, Registers
  <2>6. FinisherFits(c)'
    BY <2>3, <2>4 DEF FinisherFits, LockLocs
  <2>7. call' \in [Clients -> WaitCalls \cup CancelCalls \cup FinishCalls \cup {"none"}]
    BY <2>1 DEF Typed
  <2> QED
    BY <2>1, <2>3, <2>5, <2>6, <2>7 DEF ClientFits
<1>2. CASE call[c] # "cancel_finish"
  <2>1. Return(c)
    BY <1>2 DEF CancelOver
  <2> QED
    BY <2>1, Returned, IdleFits
<1> QED
  BY <1>1, <1>2

LEMMA CancelRetryKeeps ==
  ASSUME JInv, NEW c \in Clients, CancelRetry(c)
  PROVE  JInv'
<1>1. /\ pc[c] = "cancel" /\ status # snap[c]
      /\ status' = status /\ upstream' = upstream /\ readable' = readable
      /\ attached' = attached /\ remaining' = remaining /\ latch' = latch
      /\ outcome' = outcome /\ batch' = batch /\ canceled' = canceled
      /\ waited' = waited /\ aborted' = aborted
  BY DEF CancelRetry, upstreamVars, inpollVars, localVars
<1>2. /\ status # ZeroStatus /\ JoinWord(status)
      /\ \A d \in Clients \ {c} : ~Finishing(d)
      /\ LocFits(c) /\ FinisherFits(c)
  BY <1>1, InCall
<1>3. call[c] \in CancelCalls /\ call[c] \notin FinishCalls
  BY <1>1, <1>2 DEF LocFits, FinisherFits, Finishing
<1>4. CASE status.outcome = "UNKNOWN"
  <2>1. OnlyMoves(c, "cancel", status)
    BY <1>1, <1>4 DEF CancelRetry, OnlyMoves
  <2>2. "cancel" \in ClientLocs \ LockLocs
    BY Locations DEF LockLocs
  <2>3. pc'[c] = "cancel" /\ snap'[c] = status
    BY <1>1, <1>2, <2>1, <2>2, OnlyMovesFacts
  <2>4. ClientFits(c)'
    BY <1>1, <1>2, <1>3, <1>4, <2>1, <2>3
       DEF ClientFits, LocFits, FutexFits, FinisherFits, Finishing, LockLocs, JoinWord, OnlyMoves
  <2> QED
    BY <1>1, <1>2, <2>1, <2>2, <2>4, MoveAside DEF WakesAll, LockLocs
<1>5. CASE status.outcome # "UNKNOWN"
  <2>1. CancelOver(c, call[c], status)
    BY <1>5 DEF CancelRetry
  <2>2. /\ pc' \in [Clients -> ClientLocs] /\ snap' \in [Clients -> Statuses]
        /\ call' \in [Clients -> WaitCalls \cup CancelCalls \cup FinishCalls \cup {"none"}]
        /\ \A d \in Clients \ {c} : pc'[d] = pc[d] /\ snap'[d] = snap[d] /\ call'[d] = call[d]
        /\ pc'[c] \in {"idle", "retire"} /\ ~(Registers(c)')
        /\ ClientFits(c)'
    BY <1>1, <1>2, <1>3, <2>1, CancelReturned DEF JInv
  <2>3. Typed'
    BY <1>1, <2>2 DEF JInv, Typed
  <2>4. LocalStep(c)
    BY <1>1, <1>2, <2>2 DEF LocalStep, Still, LockLocs, WakesAll, JInv, InpollFits
  <2> QED
    BY <2>2, <2>3, <2>4, LocalFrame
<1> QED
  BY <1>4, <1>5

LEMMA CancelLatchKeeps ==
  ASSUME JInv, NEW c \in Clients, CancelLatch(c)
  PROVE  JInv'
<1>1. /\ pc[c] = "cancel_latch" /\ latch' = TRUE
      /\ status' = status /\ upstream' = upstream /\ readable' = readable
      /\ attached' = attached /\ remaining' = remaining
      /\ outcome' = outcome /\ batch' = batch /\ canceled' = canceled
      /\ waited' = waited /\ aborted' = aborted
  BY DEF CancelLatch, upstreamVars, localVars
<1>2. /\ status # ZeroStatus /\ JoinWord(snap[c]) /\ snap[c] \in Statuses
      /\ \A d \in Clients \ {c} : ~Finishing(d)
      /\ LocFits(c) /\ FinisherFits(c)
  BY <1>1, InCall
<1>3. call[c] \in CancelCalls /\ status.state = "RESULT" /\ snap[c].state = "RESULT"
  BY <1>1, <1>2 DEF LocFits
<1>4. call[c] \in FinishCalls => snap[c] = status /\ \A d \in Clients \ {c} : pc[d] = "idle"
  BY <1>1, <1>2 DEF FinisherFits, Finishing
<1>5. CASE snap[c].notify_address
  <2>1. Continue(c, "cancel_wake", snap[c]) /\ call' = call
    BY <1>5 DEF CancelLatch
  <2>2. /\ pc' \in [Clients -> ClientLocs] /\ snap' \in [Clients -> Statuses]
        /\ pc'[c] = "cancel_wake" /\ snap'[c] = snap[c]
        /\ \A d \in Clients \ {c} : pc'[d] = pc[d] /\ snap'[d] = snap[d]
    BY <1>2, <2>1, Moved, Locations DEF JInv
  <2>3. Typed'
    BY <1>1, <2>1, <2>2 DEF JInv, Typed
  <2>4. LocalStep(c)
    BY <1>1, <1>2, <1>3, <2>1, <2>2 DEF LocalStep, Still, LockLocs, WakesAll, Registers
  <2>5. LocFits(c)' /\ FutexFits(c)' /\ pc'[c] \notin LockLocs
    BY <1>1, <1>2, <1>3, <2>1, <2>2 DEF LocFits, FutexFits, LockLocs
  <2>6. FinisherFits(c)'
    BY <1>1, <1>4, <2>1, <2>2 DEF FinisherFits, Finishing, LockLocs
  <2> QED
    BY <2>3, <2>4, <2>5, <2>6, LocalFrame DEF ClientFits
<1>6. CASE ~snap[c].notify_address
  <2>1. CancelOver(c, call[c], snap[c])
    BY <1>6 DEF CancelLatch
  <2>2. /\ pc' \in [Clients -> ClientLocs] /\ snap' \in [Clients -> Statuses]
        /\ call' \in [Clients -> WaitCalls \cup CancelCalls \cup FinishCalls \cup {"none"}]
        /\ \A d \in Clients \ {c} : pc'[d] = pc[d] /\ snap'[d] = snap[d] /\ call'[d] = call[d]
        /\ pc'[c] \in {"idle", "retire"} /\ ~(Registers(c)')
        /\ ClientFits(c)'
    BY <1>1, <1>2, <1>3, <1>4, <2>1, CancelReturned DEF JInv
  <2>3. Typed'
    BY <1>1, <2>2 DEF JInv, Typed
  <2>4. LocalStep(c)
    BY <1>1, <1>2, <1>3, <1>6, <2>2 DEF LocalStep, Still, LockLocs, WakesAll
  <2> QED
    BY <2>2, <2>3, <2>4, LocalFrame
<1> QED
  BY <1>5, <1>6

-----------------------------------------------------------------------------
(* The lock holder at work.                                                *)

(* It moves between its program points and keeps its copy or loads one.    *)
HolderMoves(c, loc, s) ==
  /\ pc[c] \in LockLocs /\ loc \in LockLocs /\ s \in {snap[c], status}
  /\ Continue(c, loc, s)
  /\ status' = status /\ upstream' = upstream /\ readable' = readable
  /\ attached' = attached /\ remaining' = remaining /\ latch' = latch
  /\ call' = call /\ canceled' = canceled /\ waited' = waited /\ aborted' = aborted
  /\ outcome' \in [Clients -> Outcomes]
  /\ batch' \in [Clients -> Seq(Upstreams \cup {Latch})]
  /\ \A d \in Clients \ {c} : outcome'[d] = outcome[d] /\ batch'[d] = batch[d]

LEMMA HolderMoved ==
  ASSUME JInv, NEW c \in Clients, NEW loc, NEW s, HolderMoves(c, loc, s)
  PROVE  /\ pc'[c] = loc /\ snap'[c] = s /\ JoinWord(s)
         /\ pc' \in [Clients -> ClientLocs] /\ snap' \in [Clients -> Statuses]
         /\ \A d \in Clients \ {c} : Still(d) /\ ~Finishing(d)
         /\ HolderFits(c)
<1>1. pc[c] # "idle"
  BY DEF HolderMoves, LockLocs
<1>2. JoinWord(s) /\ s \in Statuses /\ loc \in ClientLocs
  BY <1>1, InCall, Locations DEF HolderMoves
<1>3. /\ pc' \in [Clients -> ClientLocs] /\ snap' \in [Clients -> Statuses]
      /\ pc'[c] = loc /\ snap'[c] = s
      /\ \A d \in Clients \ {c} : pc'[d] = pc[d] /\ snap'[d] = snap[d]
  BY <1>2, Moved DEF HolderMoves, JInv
<1> QED
  BY <1>1, <1>2, <1>3, InCall DEF HolderMoves, Still

LEMMA HolderFrame ==
  ASSUME JInv, NEW c \in Clients, NEW loc, NEW s, HolderMoves(c, loc, s), HolderFits(c)'
  PROVE  JInv'
<1>1. /\ pc'[c] = loc /\ snap'[c] = s /\ JoinWord(s)
      /\ pc' \in [Clients -> ClientLocs] /\ snap' \in [Clients -> Statuses]
      /\ \A d \in Clients \ {c} : Still(d) /\ ~Finishing(d)
  BY HolderMoved
<1>2. pc[c] \in LockLocs /\ loc \in LockLocs /\ pc[c] # "idle"
  BY DEF HolderMoves, LockLocs
<1>3. LocFits(c) /\ FinisherFits(c) /\ status # ZeroStatus
      /\ (snap[c].state = "RESULT" => status.state = "RESULT")
  BY <1>2, InCall
<1>4. Typed'
  BY <1>1 DEF JInv, Typed, HolderMoves
<1>5. LocalStep(c)
  BY <1>1, <1>2 DEF LocalStep, HolderMoves, LockLocs, Registers, WakesAll, JInv, InpollFits
<1>6. LocFits(c)' /\ FutexFits(c)'
  BY <1>1, <1>2, <1>3 DEF LocFits, FutexFits, LockLocs, HolderMoves
<1>7. FinisherFits(c)'
  <2>1. Finishing(c)' => Finishing(c)
    BY <1>2 DEF Finishing, HolderMoves
  <2> QED
    BY <1>1, <1>2, <1>3, <2>1 DEF FinisherFits, HolderMoves, Still, LockLocs
<1> QED
  BY <1>4, <1>5, <1>6, <1>7, LocalFrame DEF ClientFits

(* A word that the holder loads carries the lock and its reference.        *)
LEMMA HolderLoads ==
  ASSUME JInv, NEW c \in Clients, pc[c] \in LockLocs
  PROVE  /\ status.notify_event_or_lazy_lock
         /\ CountDecAllowed(status, Policy(c))
         /\ JoinWord(status)
<1>1. pc[c] # "idle"
  BY DEF LockLocs
<1>2. HolderFits(c) /\ JoinWord(status)
  BY <1>1, InCall
<1>3. Policy(c) = "CYCLE" => Registers(c)
  BY DEF Policy, Registers
<1> QED
  BY <1>2, <1>3, Referenced DEF HolderFits, CountDecAllowed

LEMMA PollEventsKeeps ==
  ASSUME JInv, NEW c \in Clients, PollEvents(c)
  PROVE  JInv'
<1>1. PICK b \in inpoll_wait : batch' = [batch EXCEPT ![c] = b]
  BY DEF PollEvents
<1>2. /\ b \in Seq(Upstreams \cup {Latch})
      /\ \A i \in 1 .. Len(b) : b[i] \in Ready
      /\ \A i, j \in 1 .. Len(b) : b[i] = b[j] => i = j
  BY BatchOfReady DEF JInv
<1>3. /\ batch' \in [Clients -> Seq(Upstreams \cup {Latch})] /\ batch'[c] = b
      /\ \A d \in Clients \ {c} : batch'[d] = batch[d]
  BY <1>1, <1>2 DEF JInv, Typed
<1>4. pc[c] = "poll" /\ HolderMoves(c, "drain", snap[c]) /\ outcome' = outcome
  BY <1>3 DEF PollEvents, HolderMoves, upstreamVars, inpollVars, LockLocs, JInv, Typed
<1>5. pc'[c] = "drain" /\ snap'[c] = snap[c] /\ HolderFits(c)
  BY <1>4, HolderMoved
<1>6. latch => status.state = "RESULT"
  <2>1. status # ZeroStatus /\ JoinWord(status)
    BY <1>4, InCall
  <2> QED
    BY <2>1 DEF JInv, InpollFits, JoinWord
<1>7. BatchFits(b)'
  <2>1. Latch \notin attached
    BY UpstreamsAssumption DEF JInv, Typed
  <2> QED
    BY <1>2, <1>4, <1>6, <2>1 DEF BatchFits, Ready, HolderMoves
<1>8. Policy(c)' = Policy(c) /\ NoFailureSeen' = NoFailureSeen
      /\ (Justified(outcome[c]) => Justified(outcome[c])')
  BY <1>4 DEF Policy, HolderMoves, NoFailureSeen, Justified
<1>9. HolderFits(c)'
  BY <1>3, <1>4, <1>5, <1>7, <1>8 DEF HolderFits, HolderMoves, CountDecAllowed, BatchFits
<1> QED
  BY <1>4, <1>9, HolderFrame

LEMMA PollInterruptedKeeps ==
  ASSUME JInv, NEW c \in Clients, PollInterrupted(c)
  PROVE  JInv'
<1>1. pc[c] = "poll" /\ HolderMoves(c, "unlock", snap[c]) /\ outcome' = outcome /\ batch' = batch
      /\ call[c] = "wait_some"
  BY DEF PollInterrupted, HolderMoves, upstreamVars, inpollVars, localVars, LockLocs, JInv, Typed
<1>2. pc'[c] = "unlock" /\ snap'[c] = snap[c] /\ HolderFits(c)
  BY <1>1, HolderMoved
<1>3. Policy(c)' = Policy(c) /\ NoFailureSeen' = NoFailureSeen
      /\ (Justified(outcome[c]) => Justified(outcome[c])')
  BY <1>1 DEF Policy, HolderMoves, NoFailureSeen, Justified
<1>4. HolderFits(c)'
  BY <1>1, <1>2, <1>3 DEF HolderFits, HolderMoves, CountDecAllowed
<1> QED
  BY <1>1, <1>4, HolderFrame

LEMMA UnlockRetryKeeps ==
  ASSUME JInv, NEW c \in Clients, UnlockRetry(c)
  PROVE  JInv'
<1>1. pc[c] = "unlock" /\ HolderMoves(c, "unlock", status) /\ outcome' = outcome /\ batch' = batch
  BY DEF UnlockRetry, HolderMoves, upstreamVars, inpollVars, localVars, LockLocs, JInv, Typed
<1>2. pc'[c] = "unlock" /\ snap'[c] = status /\ HolderFits(c)
  BY <1>1, HolderMoved
<1>3. Policy(c)' = Policy(c) /\ NoFailureSeen' = NoFailureSeen
      /\ (Justified(outcome[c]) => Justified(outcome[c])')
  BY <1>1 DEF Policy, HolderMoves, NoFailureSeen, Justified
<1>4. CountDecAllowed(status, Policy(c)) /\ status.notify_event_or_lazy_lock
  BY <1>1, HolderLoads DEF LockLocs
<1>5. HolderFits(c)'
  BY <1>1, <1>2, <1>3, <1>4 DEF HolderFits, HolderMoves, CountDecAllowed
<1> QED
  BY <1>1, <1>5, HolderFrame

LEMMA DrainLatchKeeps ==
  ASSUME JInv, NEW c \in Clients, DrainLatch(c)
  PROVE  JInv'
<1>1. /\ pc[c] = "drain" /\ batch[c] # << >> /\ Head(batch[c]) = Latch
      /\ pc[c] \in LockLocs /\ pc[c] # "idle"
  BY DEF DrainLatch, LockLocs
<1>2. HolderFits(c)
  BY <1>1, InCall
<1>3. status.state = "RESULT" /\ status.outcome = "FAILURE_CANCELED"
  <2>1. batch[c] \in Seq(Upstreams \cup {Latch}) /\ batch[c] # << >>
    BY <1>1 DEF JInv, Typed
  <2>2. 1 \in 1 .. Len(batch[c]) /\ batch[c][1] = Latch
    BY <1>1, <2>1
  <2> QED
    BY <1>1, <1>2, <2>2 DEF HolderFits, BatchFits
<1>4. /\ Continue(c, "drain", status)
      /\ outcome' = [outcome EXCEPT ![c] = "FAILURE_CANCELED"]
      /\ batch' = [batch EXCEPT ![c] = << >>]
      /\ UNCHANGED <<status, upstreamVars, inpollVars, call, canceled, waited, aborted>>
  BY <1>3 DEF DrainLatch
<1>5. /\ outcome' \in [Clients -> Outcomes] /\ outcome'[c] = "FAILURE_CANCELED"
      /\ \A d \in Clients \ {c} : outcome'[d] = outcome[d]
  BY <1>4 DEF JInv, Typed, Outcomes
<1>6. /\ batch' \in [Clients -> Seq(Upstreams \cup {Latch})] /\ batch'[c] = << >>
      /\ \A d \in Clients \ {c} : batch'[d] = batch[d]
  BY <1>4 DEF JInv, Typed
<1>7. HolderMoves(c, "drain", status)
  BY <1>1, <1>4, <1>5, <1>6 DEF HolderMoves, upstreamVars, inpollVars
<1>8. pc'[c] = "drain" /\ snap'[c] = status
  BY <1>7, HolderMoved
<1>9. CountDecAllowed(status, Policy(c)) /\ status.notify_event_or_lazy_lock
  BY <1>1, HolderLoads
<1>10. canceled'
  BY <1>3, <1>7 DEF HolderMoves, JInv, InpollFits, Justified
<1>11. Policy(c)' = Policy(c)
  BY <1>7 DEF Policy, HolderMoves
<1>12. BatchFits(<< >>)'
  BY DEF BatchFits
<1>13. Justified(outcome[c])'
  BY <1>5, <1>10 DEF Justified
<1>14. CountDecAllowed(snap[c], Policy(c))'
  BY <1>8, <1>9, <1>11, <1>7 DEF CountDecAllowed, HolderMoves
<1>15. HolderFits(c)'
  BY <1>3, <1>5, <1>6, <1>7, <1>8, <1>9, <1>12, <1>13, <1>14 DEF HolderFits, HolderMoves
<1> QED
  BY <1>7, <1>15, HolderFrame

(* The rest of a batch.                                                    *)
LEMMA BatchTail ==
  ASSUME NEW b \in Seq(Upstreams \cup {Latch}), b # << >>, BatchFits(b)
  PROVE  BatchFits(Tail(b)) /\ \A i \in 1 .. Len(Tail(b)) : Tail(b)[i] # Head(b)
<1> DEFINE t == Tail(b)
<1>1. /\ Len(t) = Len(b) - 1 /\ Len(b) \in Nat /\ Len(b) >= 1
      /\ \A i \in 1 .. Len(t) : t[i] = b[i + 1]
      /\ Head(b) = b[1]
  OBVIOUS
<1> HIDE DEF t
<1>2. \A i \in 1 .. Len(t) : i + 1 \in 1 .. Len(b) /\ i + 1 # 1
  BY <1>1
<1>3. \A i \in 1 .. Len(t) : /\ t[i] \in attached \cup {Latch}
                            /\ t[i] = Latch => status.state = "RESULT"
  BY <1>1, <1>2 DEF BatchFits
<1>4. \A i, j \in 1 .. Len(t) : t[i] = t[j] => i = j
  <2> SUFFICES ASSUME NEW i \in 1 .. Len(t), NEW j \in 1 .. Len(t), t[i] = t[j]
               PROVE  i = j
    OBVIOUS
  <2>1. i + 1 = j + 1
    BY <1>1, <1>2 DEF BatchFits
  <2> QED
    BY <2>1, <1>1
<1>5. \A i \in 1 .. Len(t) : t[i] # Head(b)
  <2>1. 1 \in 1 .. Len(b)
    BY <1>1
  <2> QED
    BY <1>1, <1>2, <2>1 DEF BatchFits
<1> QED
  BY <1>3, <1>4, <1>5 DEF BatchFits, t

LEMMA DrainPendingKeeps ==
  ASSUME JInv, NEW c \in Clients, DrainPending(c)
  PROVE  JInv'
<1>1. /\ pc[c] = "drain" /\ batch[c] # << >>
      /\ pc[c] \in LockLocs /\ pc[c] # "idle"
      /\ batch' = [batch EXCEPT ![c] = Tail(batch[c])]
      /\ UNCHANGED <<status, upstreamVars, inpollVars, pc, call, snap, outcome, canceled,
                     waited, aborted>>
  BY DEF DrainPending, LockLocs
<1>2. batch[c] \in Seq(Upstreams \cup {Latch}) /\ Tail(batch[c]) \in Seq(Upstreams \cup {Latch})
  BY <1>1 DEF JInv, Typed
<1>3. /\ batch' \in [Clients -> Seq(Upstreams \cup {Latch})] /\ batch'[c] = Tail(batch[c])
      /\ \A d \in Clients \ {c} : batch'[d] = batch[d]
  BY <1>1, <1>2 DEF JInv, Typed
<1>4. Continue(c, "drain", snap[c])
  BY <1>1 DEF Continue, JInv, Typed
<1>5. HolderMoves(c, "drain", snap[c])
  BY <1>1, <1>3, <1>4 DEF HolderMoves, upstreamVars, inpollVars, JInv, Typed
<1>6. pc'[c] = "drain" /\ snap'[c] = snap[c] /\ HolderFits(c)
  BY <1>5, HolderMoved
<1>7. BatchFits(Tail(batch[c]))
  BY <1>1, <1>2, <1>6, BatchTail DEF HolderFits
<1>8. BatchFits(batch[c])'
  BY <1>3, <1>5, <1>7 DEF BatchFits, HolderMoves
<1>9. Policy(c)' = Policy(c) /\ NoFailureSeen' = NoFailureSeen
      /\ (Justified(outcome[c]) => Justified(outcome[c])') /\ outcome' = outcome
  BY <1>1, <1>5 DEF Policy, HolderMoves, NoFailureSeen, Justified
<1>10. HolderFits(c)'
  BY <1>1, <1>5, <1>6, <1>8, <1>9 DEF HolderFits, HolderMoves, CountDecAllowed
<1> QED
  BY <1>5, <1>10, HolderFrame

LEMMA DecideKeeps ==
  ASSUME JInv, NEW c \in Clients, Decide(c)
  PROVE  JInv'
<1>1. PICK o : o = IF outcome[c] = "UNKNOWN" /\ remaining = 0 THEN "SUCCESS" ELSE outcome[c]
  OBVIOUS
<1>2. /\ pc[c] = "drain" /\ pc[c] \in LockLocs /\ pc[c] # "idle"
      /\ outcome' = [outcome EXCEPT ![c] = o]
      /\ UNCHANGED <<status, upstreamVars, inpollVars, call, batch, canceled, waited, aborted>>
  BY <1>1 DEF Decide, LockLocs
<1>3. PICK loc \in {"unlock", "poll"} :
        /\ Continue(c, loc, snap[c])
        /\ loc = "poll" => o = "UNKNOWN"
        /\ loc = "unlock" => o # "UNKNOWN" \/ call[c] = "wait_some"
  BY <1>1 DEF Decide
<1>4. HolderFits(c) /\ status # ZeroStatus
  BY <1>2, InCall
<1>5. o \in Outcomes
  BY <1>1 DEF JInv, Typed, Outcomes
<1>6. /\ outcome' \in [Clients -> Outcomes] /\ outcome'[c] = o
      /\ \A d \in Clients \ {c} : outcome'[d] = outcome[d]
  BY <1>2, <1>5 DEF JInv, Typed
<1>7. HolderMoves(c, loc, snap[c])
  BY <1>2, <1>3, <1>6 DEF HolderMoves, upstreamVars, inpollVars, LockLocs, JInv, Typed
<1>8. pc'[c] = loc /\ snap'[c] = snap[c]
  BY <1>7, HolderMoved
<1>9. Justified(o)
  <2>1. CASE outcome[c] = "UNKNOWN" /\ remaining = 0
    <3>1. Cardinality(attached) = 0 /\ attached \subseteq Upstreams
      BY <1>4, <2>1 DEF JInv, InpollFits, Typed
    <3>2. attached = {}
      BY <3>1, UpstreamsAssumption, FS_Subset, FS_EmptySet
    <3>3. \A u \in Upstreams : upstream[u] \notin {"pending", "failure"}
      BY <1>4, <2>1, <3>2 DEF JInv, InpollFits, HolderFits, NoFailureSeen
    <3>4. \A u \in Upstreams : upstream[u] = "success"
      BY <3>3 DEF JInv, Typed
    <3> QED
      BY <1>1, <2>1, <3>4 DEF Justified
  <2>2. CASE ~(outcome[c] = "UNKNOWN" /\ remaining = 0)
    BY <1>1, <1>4, <2>2 DEF HolderFits
  <2> QED
    BY <2>1, <2>2
<1>10. Policy(c)' = Policy(c) /\ NoFailureSeen' = NoFailureSeen /\ Justified(outcome[c])'
  BY <1>6, <1>7, <1>9 DEF Policy, HolderMoves, NoFailureSeen, Justified
<1>11. HolderFits(c)'
  BY <1>1, <1>2, <1>3, <1>4, <1>6, <1>7, <1>8, <1>10 DEF HolderFits, HolderMoves, CountDecAllowed
<1> QED
  BY <1>7, <1>11, HolderFrame

LEMMA DrainReadyKeeps ==
  ASSUME JInv, NEW c \in Clients, DrainReady(c),
         ~(upstream[Head(batch[c])] = "failure" /\ outcome[c] # "UNKNOWN")
  PROVE  JInv'
<1> DEFINE u == Head(batch[c])
<1>1. /\ pc[c] = "drain" /\ batch[c] # << >> /\ u # Latch /\ upstream[u] # "pending"
      /\ pc[c] \in LockLocs /\ pc[c] # "idle"
  BY DEF DrainReady, LockLocs
<1>2. HolderFits(c) /\ LocFits(c) /\ FutexFits(c) /\ FinisherFits(c) /\ status # ZeroStatus
      /\ \A d \in Clients \ {c} : ~Finishing(d)
  BY <1>1, InCall
<1>3. /\ remaining' = remaining - 1 /\ attached' = attached \ {u}
      /\ batch' = [batch EXCEPT ![c] = Tail(batch[c])]
      /\ outcome' = [outcome EXCEPT
           ![c] = IF upstream[u] = "failure" THEN "FAILURE_DEPENDENCY" ELSE outcome[c]]
      /\ status' = status /\ upstream' = upstream /\ readable' = readable /\ latch' = latch
      /\ pc' = pc /\ call' = call /\ snap' = snap /\ canceled' = canceled /\ waited' = waited
      /\ aborted' = aborted
      /\ upstream[u] = "failure" => outcome[c] = "UNKNOWN"
  BY DEF DrainReady, upstreamVars
<1>4. /\ batch[c] \in Seq(Upstreams \cup {Latch}) /\ Tail(batch[c]) \in Seq(Upstreams \cup {Latch})
      /\ BatchFits(batch[c])
  BY <1>1, <1>2 DEF JInv, Typed, HolderFits
<1>5. u \in attached
  <2>1. 1 \in 1 .. Len(batch[c]) /\ batch[c][1] = u
    BY <1>1, <1>4
  <2> QED
    BY <1>1, <1>4, <2>1 DEF BatchFits
<1>6. PICK v : v = u
  OBVIOUS
<1>7. /\ batch' \in [Clients -> Seq(Upstreams \cup {Latch})] /\ batch'[c] = Tail(batch[c])
      /\ \A d \in Clients \ {c} : batch'[d] = batch[d]
  BY <1>3, <1>4 DEF JInv, Typed
<1>8. /\ outcome' \in [Clients -> Outcomes]
      /\ outcome'[c] = IF upstream[v] = "failure" THEN "FAILURE_DEPENDENCY" ELSE outcome[c]
      /\ \A d \in Clients \ {c} : outcome'[d] = outcome[d]
  BY <1>3, <1>6 DEF JInv, Typed, Outcomes
<1>9. BatchFits(Tail(batch[c])) /\ \A i \in 1 .. Len(Tail(batch[c])) : Tail(batch[c])[i] # v
  BY <1>1, <1>4, <1>6, BatchTail
<1> HIDE DEF u
<1>10. Typed'
  BY <1>3, <1>7, <1>8 DEF JInv, Typed
<1>11. InpollFits'
  <2>1. IsFiniteSet(attached) /\ Cardinality(attached) \in Nat
    BY UpstreamsAssumption, FS_Subset, FS_CardinalityType DEF JInv, Typed
  <2>2. Cardinality(attached \ {v}) = Cardinality(attached) - 1
    BY <1>5, <1>6, <2>1, FS_RemoveElement
  <2>3. remaining' = IF status' = ZeroStatus THEN 0 ELSE Cardinality(attached')
    BY <1>2, <1>3, <1>6, <2>2 DEF JInv, InpollFits
  <2>4. \A w \in Upstreams \ attached' : upstream'[w] # "pending"
    BY <1>1, <1>2, <1>3 DEF JInv, InpollFits
  <2> QED
    BY <1>2, <1>3, <2>3, <2>4 DEF JInv, InpollFits, HolderFits, Justified
<1>12. ASSUME NEW d \in Clients \ {c} PROVE ClientFits(d)'
  <2>1. pc[d] \notin LockLocs
    BY <1>1 DEF JInv, OneHolder
  <2>2. Undisturbed(d)
    BY <1>2, <1>3, <1>7, <1>8, <2>1 DEF Undisturbed
  <2> QED
    BY <2>2, Frame
<1>13. LocFits(c)' /\ FutexFits(c)' /\ FinisherFits(c)'
  BY <1>2, <1>3 DEF LocFits, FutexFits, FinisherFits, Finishing
<1>14. HolderFits(c)'
  <2>1. Policy(c)' = Policy(c)
    BY <1>3 DEF Policy
  <2>2. CountDecAllowed(snap[c], Policy(c))'
    BY <1>2, <1>3, <2>1 DEF HolderFits, CountDecAllowed
  <2>3. BatchFits(batch[c])'
    BY <1>3, <1>6, <1>7, <1>9 DEF BatchFits
  <2>4. outcome'[c] = "UNKNOWN" => NoFailureSeen'
    BY <1>2, <1>3, <1>6, <1>8 DEF HolderFits, NoFailureSeen
  <2>5. v \in Upstreams
    BY <1>5, <1>6 DEF JInv, Typed
  <2>6. Justified(outcome[c])'
    BY <1>2, <1>3, <1>8, <2>5 DEF HolderFits, Justified
  <2>7. outcome[c] # "FAILURE_CANCELED" /\ outcome[c] # "SUCCESS"
    BY <1>1, <1>2 DEF HolderFits
  <2> QED
    BY <1>1, <1>2, <1>3, <1>8, <2>2, <2>3, <2>4, <2>6, <2>7 DEF HolderFits
<1>15. OneHolder' /\ SleepersWatched' /\ CountNeverShort'
  BY <1>3 DEF JInv, OneHolder, SleepersWatched, WakesAll, CountNeverShort, Registers
<1> QED
  BY <1>10, <1>11, <1>12, <1>13, <1>14, <1>15 DEF JInv, ClientFits

-----------------------------------------------------------------------------
(* Steps that only touch readability or end the process.                   *)

LEMMA NothingMoves ==
  ASSUME JInv, Typed', status' = status, upstream' = upstream, attached' = attached,
         remaining' = remaining, latch' = latch, pc' = pc, call' = call, snap' = snap,
         outcome' = outcome, batch' = batch, canceled' = canceled, waited' = waited
  PROVE  JInv'
<1>1. InpollFits' /\ OneHolder' /\ SleepersWatched' /\ CountNeverShort'
  BY DEF JInv, InpollFits, Justified, NoFailureSeen, OneHolder, SleepersWatched, WakesAll,
     CountNeverShort, Registers
<1>2. ASSUME NEW d \in Clients PROVE ClientFits(d)'
  <2>1. ClientFits(d)
    BY DEF JInv
  <2>2. Undisturbed(d)
    BY <2>1 DEF Undisturbed, ClientFits, LocFits, HolderFits, FinisherFits
  <2> QED
    BY <2>2, Frame
<1> QED
  BY <1>1, <1>2 DEF JInv

LEMMA AbortKeeps ==
  ASSUME JInv, NEW why \in Aborts \ {"latch_read"}, Abort(why)
  PROVE  JInv'
<1>1. Typed'
  BY DEF JInv, Typed, Abort, upstreamVars, inpollVars, localVars
<1> QED
  BY <1>1, NothingMoves DEF Abort, upstreamVars, inpollVars, localVars

LEMMA UpstreamSignalsKeeps ==
  ASSUME JInv, NEW u \in Upstreams, UpstreamSignals(u)
  PROVE  JInv'
<1>1. Typed'
  BY DEF JInv, Typed, UpstreamSignals, inpollVars, localVars
<1> QED
  BY <1>1, NothingMoves DEF UpstreamSignals, inpollVars, localVars

LEMMA UpstreamSettlesKeeps ==
  ASSUME JInv, NEW u \in Upstreams, UpstreamSettles(u)
  PROVE  JInv'
<1>1. PICK o \in {"success", "failure"} : upstream' = [upstream EXCEPT ![u] = o]
  BY DEF UpstreamSettles
<1>2. /\ upstream[u] = "pending"
      /\ status' = status /\ readable' = readable /\ attached' = attached
      /\ remaining' = remaining /\ latch' = latch /\ pc' = pc /\ call' = call /\ snap' = snap
      /\ outcome' = outcome /\ batch' = batch /\ canceled' = canceled /\ waited' = waited
      /\ aborted' = aborted
  BY DEF UpstreamSettles, inpollVars, localVars
<1>3. /\ upstream' \in [Upstreams -> {"pending", "success", "failure"}]
      /\ upstream'[u] # "pending"
      /\ \A v \in Upstreams \ {u} : upstream'[v] = upstream[v]
  BY <1>1 DEF JInv, Typed
<1>4. Typed'
  BY <1>2, <1>3 DEF JInv, Typed
<1>5. status # ZeroStatus => u \in attached
  BY <1>2 DEF JInv, InpollFits
<1>6. status # ZeroStatus /\ NoFailureSeen => NoFailureSeen'
  BY <1>2, <1>3, <1>5 DEF NoFailureSeen
<1>7. ASSUME NEW r, Justified(r) PROVE Justified(r)'
  BY <1>2, <1>3, <1>7 DEF Justified
<1>8. InpollFits'
  <2>1. Justified(status.outcome)'
    BY <1>2, <1>7 DEF JInv, InpollFits
  <2>2. status.state = "WAITING" => status # ZeroStatus
    BY ZeroWord
  <2>3. \A w \in Upstreams : upstream[w] # "pending" => upstream'[w] # "pending"
    BY <1>3
  <2> QED
    BY <1>2, <1>6, <2>1, <2>2, <2>3 DEF JInv, InpollFits
<1>9. OneHolder' /\ SleepersWatched' /\ CountNeverShort'
  BY <1>2 DEF JInv, OneHolder, SleepersWatched, WakesAll, CountNeverShort, Registers
<1>10. ASSUME NEW d \in Clients PROVE ClientFits(d)'
  <2>1. ClientFits(d)
    BY DEF JInv
  <2>2. LocFits(d)' /\ FutexFits(d)' /\ FinisherFits(d)'
    BY <1>2, <2>1 DEF ClientFits, LocFits, FutexFits, FinisherFits, Finishing
  <2>3. ASSUME pc'[d] \in LockLocs PROVE HolderFits(d)'
    <3>1. HolderFits(d) /\ status # ZeroStatus
      BY <1>2, <2>1, <2>3 DEF ClientFits, LocFits, LockLocs
    <3>2. Justified(outcome[d])' /\ (outcome'[d] = "UNKNOWN" => NoFailureSeen')
      BY <1>2, <1>6, <1>7, <3>1 DEF HolderFits
    <3>3. CountDecAllowed(snap[d], Policy(d))' = CountDecAllowed(snap[d], Policy(d))
      BY <1>2 DEF CountDecAllowed, Policy
    <3>4. BatchFits(batch[d])' = BatchFits(batch[d])
      BY <1>2 DEF BatchFits
    <3> QED
      BY <1>2, <3>1, <3>2, <3>3, <3>4 DEF HolderFits
  <2> QED
    BY <2>2, <2>3 DEF ClientFits
<1> QED
  BY <1>4, <1>8, <1>9, <1>10 DEF JInv

-----------------------------------------------------------------------------
(* Wakeups.                                                                *)

LEMMA WakeFrame ==
  ASSUME JInv, NEW c \in Clients, pc[c] # "idle", Typed',
         status' = status, upstream' = upstream, attached' = attached,
         remaining' = remaining, latch' = latch, canceled' = canceled,
         \A d \in Clients \ {c} :
           /\ pc'[d] = pc[d] \/ (pc[d] = "asleep" /\ pc'[d] = "check")
           /\ call'[d] = call[d] /\ snap'[d] = snap[d]
           /\ outcome'[d] = outcome[d] /\ batch'[d] = batch[d],
         waited' => status.state # "WAITING",
         pc[c] \notin LockLocs, pc'[c] \notin LockLocs, ~(Registers(c)'),
         ClientFits(c)', SleepersWatched'
  PROVE  JInv'
<1>1. status # ZeroStatus /\ \A d \in Clients \ {c} : ~Finishing(d)
  BY InCall
<1>2. ASSUME NEW d \in Clients PROVE ClientFits(d)'
  <2>1. CASE d = c
    BY <2>1
  <2>2. CASE d # c
    <3>1. pc[d] \in LockLocs => HolderFits(d)
      BY DEF JInv, ClientFits
    <3>2. Undisturbed(d)
      BY <1>1, <2>2, <3>1 DEF Undisturbed, HolderFits
    <3> QED
      BY <3>2, Frame
  <2> QED
    BY <2>1, <2>2
<1>3. InpollFits'
  BY DEF JInv, InpollFits, NoFailureSeen, Justified
<1>4. ASSUME NEW d \in Clients
      PROVE  /\ pc'[d] \in LockLocs <=> pc[d] \in LockLocs
             /\ Registers(d)' => Registers(d)
  BY DEF Registers, LockLocs
<1>5. OneHolder'
  BY <1>4 DEF JInv, OneHolder
<1>6. CountNeverShort'
  <2>1. RegisteredClients' \subseteq RegisteredClients
    BY <1>4 DEF RegisteredClients
  <2>2. Cardinality(RegisteredClients') <= Cardinality(RegisteredClients)
        /\ Cardinality(RegisteredClients') \in Nat
    BY <2>1, CountCovers, SmallerSet
  <2>3. status'.downstream_count >= Cardinality(RegisteredClients')
    BY <2>2, CountCovers
  <2> QED
    BY <2>3 DEF CountNeverShort, RegisteredClients
<1> QED
  BY <1>2, <1>3, <1>5, <1>6 DEF JInv

LEMMA NotifyAllKeeps ==
  ASSUME JInv, NEW c \in Clients, NotifyAll(c)
  PROVE  JInv'
<1>1. /\ pc[c] = "notify_all" /\ pc[c] # "idle" /\ pc[c] \notin LockLocs
      /\ status' = status /\ upstream' = upstream /\ readable' = readable
      /\ attached' = attached /\ remaining' = remaining /\ latch' = latch
      /\ call' = call /\ snap' = snap /\ outcome' = outcome /\ batch' = batch
      /\ canceled' = canceled /\ waited' = waited /\ aborted' = aborted
  BY DEF NotifyAll, upstreamVars, inpollVars, localVars, LockLocs
<1>2. /\ pc' \in [Clients -> ClientLocs] /\ pc'[c] = "notify_latch"
      /\ \A d \in Clients \ {c} : pc'[d] = IF pc[d] = "asleep" THEN "check" ELSE pc[d]
  <2>1. pc' = [d \in Clients |-> IF pc[d] = "asleep" THEN "check"
                                 ELSE [pc EXCEPT ![c] = "notify_latch"][d]]
    BY DEF NotifyAll, WakeAll
  <2> QED
    BY <1>1, <2>1, Locations DEF JInv, Typed
<1>3. Typed'
  BY <1>1, <1>2 DEF JInv, Typed
<1>4. SleepersWatched'
  BY <1>2 DEF SleepersWatched
<1>5. LocFits(c) /\ FinisherFits(c)
  BY <1>1, InCall
<1>6. call[c] \in WaitCalls
  BY <1>1, <1>5 DEF LocFits
<1>7. ClientFits(c)' /\ ~(Registers(c)') /\ pc'[c] \notin LockLocs
  BY <1>1, <1>2, <1>5, <1>6 DEF ClientFits, LocFits, FutexFits, FinisherFits, Finishing, LockLocs,
     Registers, WaitCalls, FinishCalls
<1>8. waited' => status.state # "WAITING"
  BY <1>1 DEF JInv, InpollFits
<1> QED
  BY <1>1, <1>2, <1>3, <1>4, <1>7, <1>8, WakeFrame

LEMMA CancelWakeKeeps ==
  ASSUME JInv, NEW c \in Clients, CancelWake(c)
  PROVE  JInv'
<1>1. /\ pc[c] = "cancel_wake" /\ pc[c] # "idle" /\ pc[c] \notin LockLocs
      /\ status' = status /\ upstream' = upstream /\ readable' = readable
      /\ attached' = attached /\ remaining' = remaining /\ latch' = latch
      /\ outcome' = outcome /\ batch' = batch
      /\ canceled' = canceled /\ waited' = waited /\ aborted' = aborted
  BY DEF CancelWake, upstreamVars, inpollVars, localVars, LockLocs
<1>2. PICK loc \in {"retire", "idle"} :
        loc = IF call[c] = "cancel_finish" THEN "retire" ELSE "idle"
  OBVIOUS
<1>3. /\ pc' \in [Clients -> ClientLocs] /\ pc'[c] = loc
      /\ \A d \in Clients \ {c} : pc'[d] = IF pc[d] = "asleep" THEN "check" ELSE pc[d]
  <2>1. pc' = [d \in Clients |-> IF pc[d] = "asleep" THEN "check"
                                 ELSE [pc EXCEPT ![c] = loc][d]]
    BY <1>2 DEF CancelWake, WakeAll
  <2> QED
    BY <1>1, <2>1, Locations DEF JInv, Typed
<1>4. /\ call' \in [Clients -> WaitCalls \cup CancelCalls \cup FinishCalls \cup {"none"}]
      /\ loc = "retire" => call'[c] = call[c]
      /\ \A d \in Clients \ {c} : call'[d] = call[d]
  BY <1>2 DEF CancelWake, JInv, Typed
<1>5. /\ snap' \in [Clients -> Statuses]
      /\ loc = "retire" => snap'[c] = snap[c]
      /\ \A d \in Clients \ {c} : snap'[d] = snap[d]
  BY <1>2, ZeroWord DEF CancelWake, JInv, Typed
<1>6. Typed'
  BY <1>1, <1>3, <1>4, <1>5 DEF JInv, Typed
<1>7. SleepersWatched'
  BY <1>3 DEF SleepersWatched
<1>8. LocFits(c) /\ FinisherFits(c)
  BY <1>1, InCall
<1>9. ClientFits(c)' /\ ~(Registers(c)') /\ pc'[c] \notin LockLocs
  <2>1. CASE loc = "idle"
    BY <1>3, <2>1, IdleFits
  <2>2. CASE loc = "retire"
    <3>1. call[c] \in FinishCalls
      BY <1>2, <2>2 DEF FinishCalls
    <3>2. LocFits(c)' /\ FutexFits(c)' /\ ~(Registers(c)') /\ pc'[c] \notin LockLocs
      BY <1>1, <1>3, <1>4, <1>5, <1>8, <2>2, <3>1 DEF LocFits, FutexFits, LockLocs, Registers
    <3>3. FinisherFits(c)'
      BY <1>1, <1>3, <1>4, <1>5, <1>8, <2>2, <3>1 DEF FinisherFits, Finishing, LockLocs
    <3> QED
      BY <3>2, <3>3 DEF ClientFits
  <2> QED
    BY <1>2, <2>1, <2>2
<1>10. waited' => status.state # "WAITING"
  BY <1>1 DEF JInv, InpollFits
<1>11. ASSUME NEW d \in Clients \ {c}
       PROVE  /\ pc'[d] = pc[d] \/ (pc[d] = "asleep" /\ pc'[d] = "check")
              /\ call'[d] = call[d] /\ snap'[d] = snap[d]
              /\ outcome'[d] = outcome[d] /\ batch'[d] = batch[d]
  BY <1>1, <1>3, <1>4, <1>5
<1> QED
  BY <1>1, <1>6, <1>7, <1>9, <1>10, <1>11, WakeFrame

LEMMA NotifyOneKeeps ==
  ASSUME JInv, NEW c \in Clients, NotifyOne(c)
  PROVE  JInv'
<1>1. /\ pc[c] = "notify_one" /\ pc[c] # "idle" /\ pc[c] \notin LockLocs
      /\ snap' = [snap EXCEPT ![c] = ZeroStatus] /\ call' = [call EXCEPT ![c] = "none"]
      /\ waited' = (waited \/ snap[c].state = "RESULT")
      /\ status' = status /\ upstream' = upstream /\ readable' = readable
      /\ attached' = attached /\ remaining' = remaining /\ latch' = latch
      /\ outcome' = outcome /\ batch' = batch
      /\ canceled' = canceled /\ aborted' = aborted
  BY DEF NotifyOne, upstreamVars, inpollVars, localVars, LockLocs
<1>2. /\ pc' \in [Clients -> ClientLocs] /\ pc'[c] = "idle"
      /\ \A d \in Clients \ {c} : pc'[d] = pc[d] \/ (pc[d] = "asleep" /\ pc'[d] = "check")
      /\ \/ \E d \in Clients : pc'[d] = "check"
         \/ \A d \in Clients : pc'[d] # "asleep"
  <2>1. CASE \E d \in Clients : /\ pc[d] = "asleep"
                                /\ pc' = [pc EXCEPT ![c] = "idle", ![d] = "check"]
    <3>1. PICK d \in Clients : pc[d] = "asleep" /\ pc' = [pc EXCEPT ![c] = "idle", ![d] = "check"]
      BY <2>1
    <3>2. d # c
      BY <1>1, <3>1
    <3> QED
      BY <3>1, <3>2, Locations DEF JInv, Typed
  <2>2. CASE (\A d \in Clients : pc[d] # "asleep") /\ pc' = [pc EXCEPT ![c] = "idle"]
    BY <2>2, Locations DEF JInv, Typed
  <2> QED
    BY <2>1, <2>2 DEF NotifyOne
<1>3. /\ snap' \in [Clients -> Statuses] /\ \A d \in Clients \ {c} : snap'[d] = snap[d]
      /\ call' \in [Clients -> WaitCalls \cup CancelCalls \cup FinishCalls \cup {"none"}]
      /\ \A d \in Clients \ {c} : call'[d] = call[d]
  BY <1>1, ZeroWord DEF JInv, Typed
<1>4. waited' \in BOOLEAN /\ (waited' => status.state # "WAITING")
  <2>1. snap[c].state = "RESULT" => status.state = "RESULT"
    BY <1>1, InCall
  <2> QED
    BY <1>1, <2>1 DEF JInv, InpollFits, Typed
<1>5. Typed'
  BY <1>1, <1>2, <1>3, <1>4 DEF JInv, Typed
<1>6. SleepersWatched'
  <2>1. CASE status.state = "RESULT" /\ \E d \in Clients : pc'[d] = "asleep"
    <3>1. \E d \in Clients : pc[d] = "asleep"
      BY <1>2, <2>1
    <3>2. PICK d \in Clients : WakesAll(d)
      BY <2>1, <3>1 DEF JInv, SleepersWatched
    <3>3. WakesAll(d)'
      BY <1>1, <1>2, <1>3, <3>2 DEF WakesAll
    <3> QED
      BY <1>1, <2>1, <3>3 DEF SleepersWatched
  <2>2. CASE ~(status.state = "RESULT" /\ \E d \in Clients : pc'[d] = "asleep")
    BY <1>1, <1>2, <2>2 DEF SleepersWatched
  <2> QED
    BY <2>1, <2>2
<1>7. ClientFits(c)' /\ ~(Registers(c)') /\ pc'[c] \notin LockLocs
  BY <1>2, IdleFits
<1>8. ASSUME NEW d \in Clients \ {c}
      PROVE  /\ pc'[d] = pc[d] \/ (pc[d] = "asleep" /\ pc'[d] = "check")
             /\ call'[d] = call[d] /\ snap'[d] = snap[d]
             /\ outcome'[d] = outcome[d] /\ batch'[d] = batch[d]
  BY <1>1, <1>2, <1>3
<1> QED
  BY <1>1, <1>4, <1>5, <1>6, <1>7, <1>8, WakeFrame

-----------------------------------------------------------------------------
(* Steps that change the word.                                             *)

LEMMA WordFrame ==
  ASSUME JInv, NEW c \in Clients, pc[c] # "idle", Typed', JoinWord(status'),
         upstream' = upstream, attached' = attached, remaining' = remaining, latch' = latch,
         canceled => canceled',
         status.state = "RESULT" => status'.state = "RESULT",
         status.notify_address => status'.notify_address,
         (\E d \in Clients \ {c} : pc[d] # "idle") => status'.available = status.available,
         \A d \in Clients \ {c} : Still(d),
         \A d \in Clients \ {c} : pc[d] \in LockLocs =>
           /\ status'.notify_event_or_lazy_lock
           /\ status'.state = "RESULT" => status'.outcome = "FAILURE_CANCELED",
         status'.state = "WAITING" /\ ~status'.notify_event_or_lazy_lock => NoFailureSeen,
         Justified(status.outcome)',
         waited' => status'.state # "WAITING",
         OneHolder', SleepersWatched', CountNeverShort', ClientFits(c)'
  PROVE  JInv'
<1>1. /\ status # ZeroStatus /\ JoinWord(status) /\ status' # ZeroStatus
      /\ \A d \in Clients \ {c} : ~Finishing(d)
  BY InCall, JoinWordChecked
<1>2. ASSUME NEW d \in Clients PROVE ClientFits(d)'
  <2>1. CASE d = c
    BY <2>1
  <2>2. CASE d # c
    <3>1. Undisturbed(d)
      BY <1>1, <2>2 DEF Undisturbed, Still
    <3> QED
      BY <3>1, Frame
  <2> QED
    BY <2>1, <2>2
<1>3. InpollFits'
  <2>1. latch => status.state = "RESULT"
    BY <1>1 DEF JInv, InpollFits, JoinWord
  <2>2. NoFailureSeen' = NoFailureSeen
    BY DEF NoFailureSeen
  <2> QED
    BY <1>1, <2>1, <2>2 DEF JInv, InpollFits
<1> QED
  BY <1>2, <1>3 DEF JInv

(* How the count follows the registrations.                                *)
LEMMA CountFrame ==
  ASSUME JInv, NEW c \in Clients, \A d \in Clients \ {c} : Still(d),
         status'.downstream_count \in Nat,
         \/ /\ Registers(c)' => Registers(c)
            /\ status'.downstream_count = status.downstream_count
         \/ status'.downstream_count = status.downstream_count + 1
         \/ /\ Registers(c) /\ ~(Registers(c)')
            /\ status'.downstream_count = status.downstream_count - 1
  PROVE  CountNeverShort'
<1>1. \A d \in Clients \ {c} : Registers(d)' <=> Registers(d)
  BY DEF Still, Registers
<1> DEFINE R == RegisteredClients
           Q == RegisteredClients'
<1>2. status.downstream_count \in Nat /\ status.downstream_count >= Cardinality(R)
      /\ R \in SUBSET Clients
  BY CountCovers
<1>3. status'.downstream_count >= Cardinality(Q)
  <2>1. CASE (Registers(c)' => Registers(c)) /\ status'.downstream_count = status.downstream_count
    <3>1. Q \subseteq R
      BY <1>1, <2>1 DEF RegisteredClients
    <3>2. Cardinality(Q) \in Nat /\ Cardinality(R) \in Nat /\ Cardinality(Q) <= Cardinality(R)
      BY <1>2, <3>1, SmallerSet
    <3> QED
      BY <1>2, <2>1, <3>2
  <2>2. CASE status'.downstream_count = status.downstream_count + 1
    <3>1. Q \subseteq R \cup {c}
      BY <1>1 DEF RegisteredClients
    <3>2. Cardinality(Q) \in Nat /\ Cardinality(R) \in Nat /\ Cardinality(Q) <= Cardinality(R) + 1
      BY <1>2, <3>1, BiggerSet
    <3> QED
      BY <1>2, <2>2, <3>2
  <2>3. CASE /\ Registers(c) /\ ~(Registers(c)')
             /\ status'.downstream_count = status.downstream_count - 1
    <3>1. Q \subseteq R \ {c} /\ c \in R
      BY <1>1, <2>3 DEF RegisteredClients
    <3>2. Cardinality(Q) \in Nat /\ Cardinality(R) \in Nat /\ Cardinality(Q) + 1 <= Cardinality(R)
      BY <1>2, <3>1, ProperSubset
    <3> QED
      BY <1>2, <2>3, <3>2
  <2> QED
    BY <2>1, <2>2, <2>3
<1> QED
  BY <1>3 DEF CountNeverShort, RegisteredClients

LEMMA WaitRegisterKeeps ==
  ASSUME JInv, NEW c \in Clients, WaitRegister(c)
  PROVE  JInv'
<1> DEFINE s == snap[c]
           r == Registered(c)
           loc == IF snap[c].notify_event_or_lazy_lock THEN "futex" ELSE "poll"
<1>1. /\ pc[c] = "register" /\ pc[c] # "idle" /\ CountIncAllowed(s, Policy(c))
      /\ Continue(c, loc, r)
      /\ outcome' = [outcome EXCEPT ![c] = "UNKNOWN"]
      /\ upstream' = upstream /\ readable' = readable /\ attached' = attached
      /\ remaining' = remaining /\ latch' = latch /\ call' = call /\ batch' = batch
      /\ canceled' = canceled /\ waited' = waited /\ aborted' = aborted
  BY DEF WaitRegister, upstreamVars, inpollVars
<1>2. /\ status # ZeroStatus /\ JoinWord(status) /\ JoinWord(s)
      /\ LocFits(c) /\ FinisherFits(c)
      /\ \A d \in Clients \ {c} : ~Finishing(d)
  BY <1>1, InCall
<1>3. call[c] \in WaitCalls \cup FinishCalls /\ s.state = "WAITING" /\ s.outcome = "UNKNOWN"
  BY <1>1, <1>2 DEF LocFits, JoinWord
<1>4. /\ call[c] \in FinishCalls => s = status /\ ~status.available
      /\ call[c] \in FinishCalls => \A d \in Clients \ {c} : pc[d] = "idle"
  BY <1>1, <1>2 DEF FinisherFits, Finishing
<1>5. call[c] \in FinishCalls => ~s.notify_event_or_lazy_lock
  <2> SUFFICES ASSUME call[c] \in FinishCalls, status.notify_event_or_lazy_lock
               PROVE  FALSE
    BY <1>4
  <2>1. PICK d \in Clients : pc[d] \in LockLocs
    BY DEF JInv, OneHolder
  <2> QED
    BY <1>1, <1>4, <2>1 DEF LockLocs
<1>6. /\ Policy(c) = "CYCLE" <=> call[c] \in WaitCalls
      /\ Policy(c) = "KEEP" <=> call[c] \notin WaitCalls
      /\ call[c] \in WaitCalls => call[c] \notin FinishCalls
  BY DEF Policy, WaitCalls, FinishCalls
<1>7. status = s /\ status' = r
  <2>1. ASSUME r = s PROVE FALSE
    <3>1. CASE call[c] \in WaitCalls
      <4>1. r.downstream_count = s.downstream_count + 1
        <5>1. CountInc(s, "CYCLE").downstream_count = s.downstream_count + 1 /\ CountInc(s, "CYCLE") \in Statuses
          BY <1>2, Counting DEF Policies
        <5>2. CountInc(s, Policy(c)) = CountInc(s, "CYCLE")
          BY <1>6, <3>1
        <5> DEFINE i == CountInc(s, Policy(c))
        <5>3. r = [i EXCEPT !.notify_address = TRUE] \/ r = [i EXCEPT !.notify_event_or_lazy_lock = TRUE]
          BY DEF Registered
        <5>4. i \in Statuses /\ i.downstream_count = s.downstream_count + 1
          BY <5>1, <5>2
        <5> HIDE DEF i, r
        <5>5. r.downstream_count = i.downstream_count
          BY <5>3, <5>4 DEF Statuses
        <5> QED
          BY <5>4, <5>5
      <4>2. s.downstream_count \in Nat
        BY <1>2 DEF JoinWord, Statuses
      <4> QED
        BY <2>1, <4>1, <4>2
    <3>2. CASE call[c] \notin WaitCalls
      <4>1. r.notify_event_or_lazy_lock
        <5>1. CountIncAllowed(snap[c], Policy(c)) /\ (Policy(c) = "CYCLE" => snap[c].available)
          BY <1>1, <1>6, <3>2
        <5> QED
          BY <1>2, <5>1, RegisteredWord
      <4> QED
        BY <1>3, <1>5, <2>1, <3>2, <4>1
    <3> QED
      BY <3>1, <3>2
  <2> QED
    BY <2>1 DEF WaitRegister
<1>8. Policy(c) = "CYCLE" => s.available
  BY <1>1, <1>2, <1>6, <1>7 DEF LocFits
<1>9. /\ JoinWord(r) /\ r.notify_event_or_lazy_lock
      /\ Policy(c) = "CYCLE" => r.downstream_count = s.downstream_count + 1
      /\ Policy(c) = "KEEP" => r.downstream_count = s.downstream_count
      /\ r.state = s.state /\ r.outcome = s.outcome
      /\ r.available = s.available
      /\ s.notify_address => r.notify_address
      /\ s.notify_event_or_lazy_lock => r.notify_address
  BY <1>1, <1>2, <1>8, RegisteredWord
<1>10. PICK w : w = r
  OBVIOUS
<1>11. PICK l \in {"futex", "poll"} :
         l = loc /\ (l = "futex" <=> status.notify_event_or_lazy_lock)
  BY <1>7
<1> HIDE DEF r, loc
<1>12. w \in Statuses /\ l \in ClientLocs /\ Continue(c, l, w)
  BY <1>1, <1>9, <1>10, <1>11, Locations DEF JoinWord
<1>13. /\ pc' \in [Clients -> ClientLocs] /\ snap' \in [Clients -> Statuses]
       /\ pc'[c] = l /\ snap'[c] = w
       /\ \A d \in Clients \ {c} : pc'[d] = pc[d] /\ snap'[d] = snap[d]
  BY <1>12, Moved DEF JInv
<1>14. /\ outcome' \in [Clients -> Outcomes] /\ outcome'[c] = "UNKNOWN"
       /\ \A d \in Clients \ {c} : outcome'[d] = outcome[d]
  BY <1>1 DEF JInv, Typed, Outcomes
<1>15. status' = w /\ JoinWord(w)
  BY <1>7, <1>9, <1>10
<1>16. Typed'
  BY <1>1, <1>13, <1>14, <1>15 DEF JInv, Typed
<1>17. \A d \in Clients \ {c} : Still(d)
  BY <1>1, <1>13, <1>14 DEF Still
<1>18. CountNeverShort'
  <2>1. w.downstream_count \in Nat
    BY <1>12, WordFields
  <2>2. CASE call[c] \in WaitCalls
    BY <1>6, <1>7, <1>9, <1>10, <1>15, <1>17, <2>1, <2>2, CountFrame
  <2>3. CASE call[c] \notin WaitCalls
    <3>1. ~(Registers(c)')
      BY <1>1, <2>3 DEF Registers
    <3> QED
      BY <1>6, <1>7, <1>9, <1>10, <1>15, <1>17, <2>1, <2>3, <3>1, CountFrame
  <2> QED
    BY <2>2, <2>3
<1>19. SleepersWatched'
  BY <1>3, <1>9, <1>10, <1>15 DEF SleepersWatched
<1>20. ASSUME NEW d \in Clients, pc[d] \in LockLocs PROVE status.notify_event_or_lazy_lock
  BY <1>20 DEF JInv, ClientFits, HolderFits
<1>21. OneHolder'
  <2>1. CASE l = "poll"
    <3>1. \A d \in Clients : pc[d] \notin LockLocs
      BY <1>11, <1>20, <2>1
    <3> QED
      BY <1>13, <2>1, <3>1 DEF OneHolder, LockLocs
  <2>2. CASE l = "futex"
    <3>1. \A d \in Clients : pc'[d] \in LockLocs <=> pc[d] \in LockLocs
      BY <1>1, <1>13, <2>2 DEF LockLocs
    <3>2. status.notify_event_or_lazy_lock
      BY <1>11, <2>2
    <3> QED
      BY <3>1, <3>2 DEF JInv, OneHolder
  <2> QED
    BY <1>11, <2>1, <2>2
<1>22. LocFits(c)'
  BY <1>1, <1>2, <1>3, <1>5, <1>7, <1>9, <1>10, <1>11, <1>13, <1>15, JoinWordChecked
     DEF LocFits, LockLocs
<1>23. FutexFits(c)'
  BY <1>7, <1>9, <1>10, <1>11, <1>13, <1>15 DEF FutexFits
<1>24. FinisherFits(c)'
  BY <1>1, <1>3, <1>4, <1>7, <1>9, <1>10, <1>13, <1>15 DEF FinisherFits, Finishing
<1>25. pc'[c] \in LockLocs => HolderFits(c)'
  <2> SUFFICES ASSUME l = "poll" PROVE HolderFits(c)'
    BY <1>11, <1>13 DEF LockLocs
  <2>1. NoFailureSeen'
    BY <1>1, <1>3, <1>7, <1>11 DEF JInv, InpollFits, NoFailureSeen
  <2>2. CountDecAllowed(snap[c], Policy(c))'
    <3>1. Policy(c)' = Policy(c)
      BY <1>1 DEF Policy
    <3>2. s.downstream_count \in Nat
      BY <1>2 DEF JoinWord, Statuses
    <3> QED
      BY <1>9, <1>10, <1>13, <3>1, <3>2 DEF CountDecAllowed
  <2>3. Justified(outcome[c])'
    BY <1>14 DEF Justified
  <2> QED
    BY <1>3, <1>9, <1>10, <1>13, <1>14, <1>15, <2>1, <2>2, <2>3 DEF HolderFits
<1>26. /\ status.notify_address => status'.notify_address
       /\ status'.available = status.available /\ status'.state = "WAITING"
       /\ status'.notify_event_or_lazy_lock /\ status.state # "RESULT"
       /\ status'.outcome = status.outcome
  BY <1>3, <1>7, <1>9
<1>27. Justified(status.outcome)'
  BY <1>1, <1>26 DEF Justified, JInv, InpollFits
<1>28. ~waited'
  BY <1>1, <1>3, <1>7 DEF JInv, InpollFits
<1> QED
  BY <1>1, <1>15, <1>16, <1>17, <1>18, <1>19, <1>21, <1>22, <1>23, <1>24, <1>25, <1>26, <1>27, <1>28,
     WordFrame DEF ClientFits

LEMMA WaitReleaseKeeps ==
  ASSUME JInv, NEW c \in Clients, WaitRelease(c)
  PROVE  JInv'
<1>1. /\ pc[c] = "release" /\ pc[c] # "idle"
      /\ status' = CountDec(status, Policy(c)) /\ WaitOver(c, status')
      /\ upstream' = upstream /\ readable' = readable /\ attached' = attached
      /\ remaining' = remaining /\ latch' = latch /\ outcome' = outcome /\ batch' = batch
      /\ canceled' = canceled /\ aborted' = aborted
  BY DEF WaitRelease, upstreamVars, inpollVars, localVars
<1>2. JoinWord(status) /\ LocFits(c)
  BY <1>1, InCall
<1>3. call[c] \in WaitCalls /\ Policy(c) = "CYCLE" /\ call[c] \notin FinishCalls
  BY <1>1, <1>2 DEF LocFits, Policy, WaitCalls, FinishCalls
<1>4. Registers(c)
  BY <1>1, <1>3 DEF Registers
<1>5. CountDecAllowed(status, "CYCLE")
  BY <1>4, Referenced DEF CountDecAllowed
<1>6. PICK w : w = status'
  OBVIOUS
<1>7. /\ JoinWord(w) /\ w.downstream_count = status.downstream_count - 1
      /\ w.state = status.state /\ w.outcome = status.outcome
      /\ w.available = status.available /\ w.notify_address = status.notify_address
      /\ w.notify_event_or_lazy_lock = status.notify_event_or_lazy_lock
  BY <1>1, <1>2, <1>3, <1>5, <1>6, Counting DEF Policies
<1>8. /\ pc' \in [Clients -> ClientLocs] /\ snap' \in [Clients -> Statuses]
      /\ call' \in [Clients -> WaitCalls \cup CancelCalls \cup FinishCalls \cup {"none"}]
      /\ \A d \in Clients \ {c} : pc'[d] = pc[d] /\ snap'[d] = snap[d] /\ call'[d] = call[d]
      /\ pc'[c] \in {"idle", "collect"} /\ ~(Registers(c)')
      /\ waited' \in BOOLEAN
      /\ waited' => waited \/ status'.state = "RESULT"
      /\ ClientFits(c)'
  <2>1. status' # ZeroStatus /\ WaitOver(c, w)
    BY <1>1, <1>6, <1>7, JoinWordChecked
  <2> QED
    BY <1>3, <1>6, <1>7, <2>1, WaitReturned DEF JInv
<1>9. Typed'
  BY <1>1, <1>6, <1>7, <1>8 DEF JInv, Typed
<1>10. \A d \in Clients \ {c} : Still(d)
  BY <1>1, <1>8 DEF Still
<1>11. CountNeverShort'
  <2>1. w.downstream_count \in Nat
    BY <1>7 DEF JoinWord, Statuses
  <2> QED
    BY <1>4, <1>6, <1>7, <1>8, <1>10, <2>1, CountFrame
<1>12. \A d \in Clients : pc'[d] \in LockLocs <=> pc[d] \in LockLocs
  BY <1>1, <1>8 DEF LockLocs
<1>13. OneHolder'
  BY <1>6, <1>7, <1>12 DEF JInv, OneHolder
<1>14. SleepersWatched'
  <2> SUFFICES ASSUME NEW e \in Clients, pc'[e] = "asleep" PROVE SleepersWatched'
    BY DEF SleepersWatched
  <2>1. pc[e] = "asleep"
    BY <1>8
  <2>2. CASE status.state = "RESULT"
    <3>1. PICK d \in Clients : WakesAll(d)
      BY <2>1, <2>2 DEF JInv, SleepersWatched
    <3>2. d # c
      BY <1>1, <3>1 DEF WakesAll
    <3>3. WakesAll(d)'
      BY <1>8, <3>1, <3>2 DEF WakesAll
    <3> QED
      BY <1>6, <1>7, <2>2, <3>3 DEF SleepersWatched
  <2>3. CASE status.state # "RESULT" /\ ~status.notify_event_or_lazy_lock
    <3>1. PICK d \in Clients : pc[d] \in {"register", "check", "notify_one"}
      BY <2>1, <2>3 DEF JInv, SleepersWatched
    <3>2. pc'[d] \in {"register", "check", "notify_one"}
      BY <1>1, <1>8, <3>1
    <3> QED
      BY <1>6, <1>7, <2>3, <3>2 DEF SleepersWatched
  <2>4. CASE status.state # "RESULT" /\ status.notify_event_or_lazy_lock
    BY <1>6, <1>7, <2>4 DEF SleepersWatched
  <2> QED
    BY <2>2, <2>3, <2>4
<1>15. Justified(status.outcome)'
  BY <1>1, <1>6, <1>7 DEF Justified, JInv, InpollFits
<1>16. waited' => status'.state # "WAITING"
  BY <1>6, <1>7, <1>8 DEF JInv, InpollFits
<1>17. status'.state = "WAITING" /\ ~status'.notify_event_or_lazy_lock => NoFailureSeen
  BY <1>6, <1>7 DEF JInv, InpollFits
<1>18. ASSUME NEW d \in Clients \ {c}, pc[d] \in LockLocs
       PROVE  /\ status'.notify_event_or_lazy_lock
              /\ status'.state = "RESULT" => status'.outcome = "FAILURE_CANCELED"
  BY <1>6, <1>7, <1>18 DEF JInv, ClientFits, HolderFits
<1> QED
  BY <1>1, <1>6, <1>7, <1>8, <1>9, <1>10, <1>11, <1>13, <1>14, <1>15, <1>16, <1>17, <1>18, WordFrame

(* Whom the holder notifies after it gave the lock back.                   *)
LEMMA AfterUnlockCases ==
  ASSUME NEW c
  PROVE  LET r == Unlocked(c)
         IN  /\ AfterUnlock(c) \in {"return", "notify_all", "notify_latch", "notify_one"}
             /\ r.downstream_count = 0 \/ outcome[c] = "FAILURE_CANCELED" =>
                  AfterUnlock(c) = "return"
             /\ r.downstream_count # 0 /\ outcome[c] \notin {"FAILURE_CANCELED", "UNKNOWN"} =>
                  AfterUnlock(c) = IF r.notify_address THEN "notify_all" ELSE "notify_latch"
             /\ r.downstream_count # 0 /\ outcome[c] = "UNKNOWN" =>
                  AfterUnlock(c) = IF r.notify_address THEN "notify_one" ELSE "return"
BY DEF AfterUnlock

LEMMA UnlockSwapKeeps ==
  ASSUME JInv, NEW c \in Clients, UnlockSwap(c)
  PROVE  JInv'
<1> DEFINE r == Unlocked(c)
<1>1. /\ pc[c] = "unlock" /\ pc[c] # "idle" /\ pc[c] \in LockLocs
      /\ status = snap[c] /\ status' = r
      /\ outcome' = [outcome EXCEPT ![c] = "UNKNOWN"]
      /\ upstream' = upstream /\ readable' = readable /\ attached' = attached
      /\ remaining' = remaining /\ latch' = latch /\ batch' = batch
      /\ canceled' = canceled /\ aborted' = aborted
  BY DEF UnlockSwap, upstreamVars, inpollVars, LockLocs
<1>2. /\ JoinWord(status) /\ LocFits(c) /\ HolderFits(c) /\ FinisherFits(c)
  BY <1>1, InCall
<1>3. /\ call[c] \in WaitCalls \cup FinishCalls
      /\ call[c] \in WaitCalls => call[c] \notin FinishCalls
      /\ Policy(c) = "CYCLE" <=> call[c] \in WaitCalls
      /\ Policy(c) = "KEEP" <=> call[c] \notin WaitCalls
  BY <1>1, <1>2 DEF LocFits, Policy, WaitCalls, FinishCalls
<1>4. outcome[c] \in Outcomes
  BY DEF JInv, Typed
<1>5. PICK o : o = outcome[c]
  OBVIOUS
<1>6. PICK w : w = r
  OBVIOUS
<1>7. /\ JoinWord(w) /\ ~w.notify_event_or_lazy_lock
      /\ Policy(c) = "CYCLE" => w.downstream_count = status.downstream_count - 1
      /\ Policy(c) = "KEEP" => w.downstream_count = status.downstream_count
      /\ w.available = status.available
      /\ w.notify_address = status.notify_address
      /\ o = "UNKNOWN" => w.state = status.state /\ w.outcome = status.outcome
      /\ o # "UNKNOWN" => w.state = "RESULT" /\ w.outcome = o
  <2>1. JoinWord(snap[c]) /\ CountDecAllowed(snap[c], Policy(c)) /\ outcome[c] # "FAILURE_INTERNAL"
    BY <1>1, <1>2 DEF HolderFits
  <2> QED
    BY <1>1, <1>4, <1>5, <1>6, <2>1, UnlockedWord
<1>8. call[c] \in FinishCalls =>
        /\ \A d \in Clients \ {c} : pc[d] = "idle"
        /\ ~status.available /\ status.downstream_count = 0 /\ o # "UNKNOWN"
        /\ w.downstream_count = 0
  <2> SUFFICES ASSUME call[c] \in FinishCalls
               PROVE  /\ \A d \in Clients \ {c} : pc[d] = "idle"
                      /\ ~status.available /\ status.downstream_count = 0 /\ o # "UNKNOWN"
                      /\ w.downstream_count = 0
    OBVIOUS
  <2>1. /\ \A d \in Clients \ {c} : pc[d] = "idle"
        /\ ~status.available
    BY <1>1, <1>2 DEF FinisherFits, Finishing
  <2>2. status.downstream_count = 0
    BY <1>2, <2>1 DEF JoinWord
  <2>3. o # "UNKNOWN"
    BY <1>1, <1>2, <1>5 DEF HolderFits, FinishCalls
  <2> QED
    BY <1>3, <1>7, <2>1, <2>2, <2>3
<1>9. PICK a : a = AfterUnlock(c)
  OBVIOUS
<1>10. /\ a \in {"return", "notify_all", "notify_latch", "notify_one"}
       /\ w.downstream_count = 0 \/ o = "FAILURE_CANCELED" => a = "return"
       /\ w.downstream_count # 0 /\ o \notin {"FAILURE_CANCELED", "UNKNOWN"} =>
            a = IF w.notify_address THEN "notify_all" ELSE "notify_latch"
       /\ w.downstream_count # 0 /\ o = "UNKNOWN" =>
            a = IF w.notify_address THEN "notify_one" ELSE "return"
  BY <1>5, <1>6, <1>9, AfterUnlockCases
<1>11. IF a = "return" THEN WaitOver(c, w)
       ELSE Continue(c, a, w) /\ call' = call /\ waited' = waited
  BY <1>6, <1>9 DEF UnlockSwap
<1>12. status' = w /\ w # ZeroStatus /\ w \in Statuses
  BY <1>1, <1>6, <1>7, JoinWordChecked
<1> HIDE DEF r
<1>13. /\ pc' \in [Clients -> ClientLocs] /\ snap' \in [Clients -> Statuses]
       /\ call' \in [Clients -> WaitCalls \cup CancelCalls \cup FinishCalls \cup {"none"}]
       /\ \A d \in Clients \ {c} : pc'[d] = pc[d] /\ snap'[d] = snap[d] /\ call'[d] = call[d]
       /\ a = "return" => pc'[c] \in {"idle", "collect"}
       /\ a # "return" => pc'[c] = a
       /\ pc'[c] \notin LockLocs
       /\ ~(Registers(c)') /\ waited' \in BOOLEAN
       /\ waited' => waited \/ status'.state = "RESULT"
       /\ ClientFits(c)'
  <2>1. CASE a = "return"
    <3>1. WaitOver(c, w)
      BY <1>11, <2>1
    <3>2. call[c] \in FinishCalls =>
            /\ w = status' /\ w.state = "RESULT" /\ ~w.available
            /\ \A d \in Clients \ {c} : pc[d] = "idle"
      BY <1>7, <1>8, <1>12
    <3> QED
      BY <1>3, <1>7, <1>12, <2>1, <3>1, <3>2, WaitReturned DEF JInv, LockLocs
  <2>2. CASE a # "return"
    <3>1. Continue(c, a, w) /\ call' = call /\ waited' = waited /\ a \in ClientLocs
      BY <1>10, <1>11, <2>2, Locations
    <3>2. /\ pc' \in [Clients -> ClientLocs] /\ snap' \in [Clients -> Statuses]
          /\ pc'[c] = a /\ snap'[c] = w
          /\ \A d \in Clients \ {c} : pc'[d] = pc[d] /\ snap'[d] = snap[d]
      BY <1>12, <3>1, Moved DEF JInv
    <3>3. call[c] \in WaitCalls /\ call[c] \notin FinishCalls
      BY <1>3, <1>8, <1>10, <2>2
    <3>4. a \in {"notify_all", "notify_latch"} => w.state = "RESULT"
      BY <1>7, <1>10
    <3>5. status.available
      BY <1>1, <1>2, <3>3 DEF LocFits
    <3>6. LocFits(c)' /\ FutexFits(c)' /\ pc'[c] \notin LockLocs /\ ~(Registers(c)')
      BY <1>7, <1>10, <1>12, <2>2, <3>1, <3>2, <3>3, <3>4, <3>5
         DEF LocFits, FutexFits, LockLocs, Registers
    <3>7. FinisherFits(c)'
      BY <3>1, <3>3 DEF FinisherFits, Finishing
    <3>8. /\ call' \in [Clients -> WaitCalls \cup CancelCalls \cup FinishCalls \cup {"none"}]
          /\ waited' \in BOOLEAN
      BY <3>1 DEF JInv, Typed
    <3> QED
      BY <2>2, <3>1, <3>2, <3>6, <3>7, <3>8 DEF ClientFits
  <2> QED
    BY <2>1, <2>2
<1>14. /\ outcome' \in [Clients -> Outcomes] /\ \A d \in Clients \ {c} : outcome'[d] = outcome[d]
  BY <1>1 DEF JInv, Typed, Outcomes
<1>15. Typed'
  BY <1>1, <1>7, <1>12, <1>13, <1>14 DEF JInv, Typed
<1>16. \A d \in Clients \ {c} : Still(d)
  BY <1>1, <1>13, <1>14 DEF Still
<1>17. CountNeverShort'
  <2>1. w.downstream_count \in Nat
    BY <1>12, WordFields
  <2>2. call[c] \in WaitCalls => Registers(c)
    BY <1>1 DEF Registers
  <2> QED
    BY <1>3, <1>7, <1>12, <1>13, <1>16, <2>1, <2>2, CountFrame
<1>18. \A d \in Clients \ {c} : pc[d] \notin LockLocs
  BY <1>1 DEF JInv, OneHolder
<1>19. OneHolder'
  BY <1>7, <1>12, <1>13, <1>18 DEF OneHolder
<1>20. SleepersWatched'
  <2> SUFFICES ASSUME NEW e \in Clients, pc'[e] = "asleep" PROVE SleepersWatched'
    BY DEF SleepersWatched
  <2>1. e # c
    BY <1>10, <1>13
  <2>2. pc[e] = "asleep"
    BY <1>13, <2>1
  <2>3. CASE status.state = "RESULT"
    <3>1. PICK d \in Clients : WakesAll(d)
      BY <2>2, <2>3 DEF JInv, SleepersWatched
    <3>2. d # c
      BY <1>1, <3>1 DEF WakesAll
    <3>3. WakesAll(d)'
      BY <1>13, <3>1, <3>2 DEF WakesAll
    <3>4. w.state = "RESULT"
      BY <1>7, <2>3
    <3> QED
      BY <1>12, <3>3, <3>4 DEF SleepersWatched
  <2>4. CASE status.state # "RESULT"
    <3>1. LocFits(e) /\ FutexFits(e)
      BY <2>2, InCall
    <3>2. status.notify_address /\ Registers(e)
      BY <2>2, <3>1 DEF LocFits, FutexFits, Registers
    <3>3. call[c] \in WaitCalls
      BY <1>3, <1>8, <2>1, <2>2
    <3>4. Registers(c)
      BY <1>1, <3>3 DEF Registers
    <3>5. status.downstream_count >= 2 /\ status.downstream_count \in Nat
      BY <2>1, <3>2, <3>4, TwoReferences, CountCovers
    <3>6. w.downstream_count # 0 /\ w.notify_address
      BY <1>3, <1>7, <3>2, <3>3, <3>5
    <3>7. o # "FAILURE_CANCELED"
      BY <1>2, <1>5, <2>4 DEF HolderFits
    <3>8. CASE o = "UNKNOWN"
      <4>1. pc'[c] = "notify_one" /\ w.state # "RESULT"
        BY <1>7, <1>10, <1>13, <2>4, <3>6, <3>8
      <4> QED
        BY <1>12, <4>1 DEF SleepersWatched
    <3>9. CASE o # "UNKNOWN"
      <4>1. pc'[c] = "notify_all" /\ w.state = "RESULT"
        BY <1>7, <1>10, <1>13, <3>6, <3>7, <3>9
      <4> QED
        BY <1>12, <4>1 DEF SleepersWatched, WakesAll
    <3> QED
      BY <3>8, <3>9
  <2> QED
    BY <2>3, <2>4
<1>21. Justified(status.outcome)'
  <2>1. Justified(o) /\ Justified(status.outcome)
    BY <1>2, <1>5 DEF HolderFits, JInv, InpollFits
  <2>2. status'.outcome = o \/ status'.outcome = status.outcome
    BY <1>7, <1>12
  <2> QED
    BY <1>1, <2>1, <2>2 DEF Justified
<1>22. status.state = "RESULT" => status'.state = "RESULT"
  BY <1>7, <1>12
<1>23. waited' => status'.state # "WAITING"
  <2>1. waited => status.state = "RESULT"
    BY <1>2 DEF JInv, InpollFits, JoinWord
  <2> QED
    BY <1>13, <1>22, <2>1
<1>24. status'.state = "WAITING" => NoFailureSeen
  BY <1>2, <1>5, <1>7, <1>12 DEF HolderFits
<1> QED
  BY <1>1, <1>7, <1>12, <1>13, <1>15, <1>16, <1>17, <1>18, <1>19, <1>20, <1>21, <1>22, <1>23, <1>24,
     WordFrame

LEMMA CancelSwapKeeps ==
  ASSUME JInv, NEW c \in Clients, CancelSwap(c)
  PROVE  JInv'
<1> DEFINE desired == [snap[c] EXCEPT
             !.outcome = "FAILURE_CANCELED",
             !.state = IF UsesWorkerThread(snap[c].type) THEN "CANCELING" ELSE "RESULT"]
<1>1. PICK w : w = desired
  OBVIOUS
<1>2. /\ pc[c] = "cancel" /\ pc[c] # "idle" /\ pc[c] \notin LockLocs
      /\ status = snap[c] /\ status' = w /\ canceled' = TRUE
      /\ upstream' = upstream /\ readable' = readable /\ attached' = attached
      /\ remaining' = remaining /\ latch' = latch /\ outcome' = outcome /\ batch' = batch
      /\ waited' = waited /\ aborted' = aborted
      /\ IF w.downstream_count = 0 THEN CancelOver(c, call[c], w)
         ELSE Continue(c, "cancel_latch", w) /\ call' = call
  BY <1>1 DEF CancelSwap, upstreamVars, inpollVars, localVars, LockLocs
<1>3. JoinWord(status) /\ LocFits(c) /\ FinisherFits(c)
  BY <1>2, InCall
<1>4. call[c] \in CancelCalls /\ status.state = "WAITING"
  BY <1>2, <1>3 DEF LocFits
<1>5. call[c] \in FinishCalls => \A d \in Clients \ {c} : pc[d] = "idle"
  BY <1>2, <1>3 DEF FinisherFits, Finishing
<1>6. w = [status EXCEPT !.outcome = "FAILURE_CANCELED", !.state = "RESULT"]
  <2>1. ~UsesWorkerThread(snap[c].type)
    BY <1>2, <1>3 DEF JoinWord, UsesWorkerThread, NetworkTypes
  <2> QED
    BY <1>1, <1>2, <2>1
<1> HIDE DEF desired
<1>7. /\ JoinWord(w) /\ w.state = "RESULT" /\ w.outcome = "FAILURE_CANCELED"
      /\ w.downstream_count = status.downstream_count
      /\ w.available = status.available /\ w.notify_address = status.notify_address
      /\ w.notify_event_or_lazy_lock = status.notify_event_or_lazy_lock
  BY <1>3, <1>6 DEF JoinWord, Statuses, States, Outcomes
<1>8. w # ZeroStatus /\ w \in Statuses
  BY <1>7, JoinWordChecked
<1>9. /\ pc' \in [Clients -> ClientLocs] /\ snap' \in [Clients -> Statuses]
      /\ call' \in [Clients -> WaitCalls \cup CancelCalls \cup FinishCalls \cup {"none"}]
      /\ \A d \in Clients \ {c} : pc'[d] = pc[d] /\ snap'[d] = snap[d] /\ call'[d] = call[d]
      /\ w.downstream_count # 0 => pc'[c] = "cancel_latch" /\ snap'[c] = w
      /\ pc'[c] \in {"idle", "retire", "cancel_latch"} /\ ~(Registers(c)')
      /\ ClientFits(c)'
  <2>1. CASE w.downstream_count = 0
    BY <1>2, <1>4, <1>5, <1>7, <1>8, <2>1, CancelReturned DEF JInv
  <2>2. CASE w.downstream_count # 0
    <3>1. /\ pc' \in [Clients -> ClientLocs] /\ snap' \in [Clients -> Statuses]
          /\ pc'[c] = "cancel_latch" /\ snap'[c] = w
          /\ \A d \in Clients \ {c} : pc'[d] = pc[d] /\ snap'[d] = snap[d]
      BY <1>2, <1>8, <2>2, Moved, Locations DEF JInv
    <3>2. call' = call
      BY <1>2, <2>2
    <3>3. LocFits(c)' /\ FutexFits(c)' /\ pc'[c] \notin LockLocs /\ ~(Registers(c)')
      BY <1>2, <1>3, <1>4, <1>7, <1>8, <3>1, <3>2 DEF LocFits, FutexFits, LockLocs, Registers
    <3>4. FinisherFits(c)'
      BY <1>2, <1>5, <3>1, <3>2 DEF FinisherFits, Finishing, LockLocs
    <3>5. call' \in [Clients -> WaitCalls \cup CancelCalls \cup FinishCalls \cup {"none"}]
      BY <3>2 DEF JInv, Typed
    <3> QED
      BY <3>1, <3>2, <3>3, <3>4, <3>5 DEF ClientFits
  <2> QED
    BY <2>1, <2>2
<1>10. Typed'
  BY <1>2, <1>7, <1>9 DEF JInv, Typed
<1>11. \A d \in Clients \ {c} : Still(d)
  BY <1>2, <1>9 DEF Still
<1>12. CountNeverShort'
  <2>1. w.downstream_count \in Nat
    BY <1>8, WordFields
  <2> QED
    BY <1>2, <1>7, <1>9, <1>11, <2>1, CountFrame
<1>13. \A d \in Clients : pc'[d] \in LockLocs <=> pc[d] \in LockLocs
  BY <1>2, <1>9 DEF LockLocs
<1>14. OneHolder'
  BY <1>2, <1>7, <1>13 DEF JInv, OneHolder
<1>15. SleepersWatched'
  <2> SUFFICES ASSUME NEW e \in Clients, pc'[e] = "asleep" PROVE SleepersWatched'
    BY DEF SleepersWatched
  <2>1. pc[e] = "asleep"
    BY <1>9
  <2>2. LocFits(e) /\ FutexFits(e)
    BY <2>1, InCall
  <2>3. status.notify_address /\ Registers(e)
    BY <2>1, <2>2 DEF LocFits, FutexFits, Registers
  <2>4. w.downstream_count # 0
    BY <1>7, <2>3, Referenced, CountCovers
  <2>5. WakesAll(c)'
    BY <1>7, <1>9, <2>3, <2>4 DEF WakesAll
  <2> QED
    BY <1>2, <1>7, <2>5 DEF SleepersWatched
<1>16. Justified(status.outcome)'
  BY <1>2, <1>7 DEF Justified
<1>17. ASSUME NEW d \in Clients \ {c}, pc[d] \in LockLocs
       PROVE  status'.notify_event_or_lazy_lock
  BY <1>2, <1>7, <1>17 DEF JInv, ClientFits, HolderFits
<1> QED
  BY <1>2, <1>7, <1>9, <1>10, <1>11, <1>12, <1>14, <1>15, <1>16, <1>17, WordFrame

LEMMA RetireSwapKeeps ==
  ASSUME JInv, NEW c \in Clients, RetireSwap(c), snap[c].downstream_count = 0
  PROVE  JInv'
<1>1. PICK w : w = [snap[c] EXCEPT !.available = FALSE]
  OBVIOUS
<1>2. PICK loc \in {"collect", "wait"} :
        loc = IF snap[c].state = "RESULT" THEN "collect" ELSE "wait"
  OBVIOUS
<1>3. /\ pc[c] = "retire" /\ pc[c] # "idle"
      /\ status = snap[c] /\ status' = w /\ Continue(c, loc, w)
      /\ upstream' = upstream /\ readable' = readable /\ attached' = attached
      /\ remaining' = remaining /\ latch' = latch /\ outcome' = outcome /\ batch' = batch
      /\ call' = call /\ canceled' = canceled /\ waited' = waited /\ aborted' = aborted
  BY <1>1, <1>2 DEF RetireSwap, upstreamVars, inpollVars, localVars
<1>4. JoinWord(status) /\ LocFits(c) /\ FinisherFits(c)
  BY <1>3, InCall
<1>5. call[c] \in FinishCalls
  BY <1>3, <1>4 DEF LocFits
<1>6. \A d \in Clients \ {c} : pc[d] = "idle"
  BY <1>3, <1>4, <1>5 DEF FinisherFits, Finishing
<1>7. /\ JoinWord(w) /\ w.state = status.state /\ w.outcome = status.outcome
      /\ w.downstream_count = 0 /\ ~w.available /\ w.notify_address = status.notify_address
      /\ w.notify_event_or_lazy_lock = status.notify_event_or_lazy_lock
  <2>1. w = [status EXCEPT !.available = FALSE] /\ status.downstream_count = 0
    BY <1>1, <1>3
  <2> QED
    BY <1>4, <2>1 DEF JoinWord, Statuses
<1>8. w # ZeroStatus /\ w \in Statuses /\ loc \in ClientLocs
  BY <1>7, JoinWordChecked, Locations
<1>9. /\ pc' \in [Clients -> ClientLocs] /\ snap' \in [Clients -> Statuses]
      /\ pc'[c] = loc /\ snap'[c] = w
      /\ \A d \in Clients \ {c} : pc'[d] = pc[d] /\ snap'[d] = snap[d]
  BY <1>3, <1>8, Moved DEF JInv
<1>10. Typed'
  BY <1>3, <1>7, <1>9 DEF JInv, Typed
<1>11. \A d \in Clients \ {c} : Still(d)
  BY <1>3, <1>9 DEF Still
<1>12. LocFits(c)' /\ FutexFits(c)' /\ pc'[c] \notin LockLocs /\ ~(Registers(c)')
  BY <1>2, <1>3, <1>5, <1>7, <1>8, <1>9 DEF LocFits, FutexFits, LockLocs, Registers
<1>13. FinisherFits(c)'
  BY <1>2, <1>3, <1>6, <1>7, <1>9 DEF FinisherFits, LockLocs, JoinWord
<1>14. CountNeverShort'
  BY <1>3, <1>7, <1>11, <1>12, CountFrame
<1>15. \A d \in Clients : pc'[d] \in LockLocs <=> pc[d] \in LockLocs
  BY <1>3, <1>9, <1>12 DEF LockLocs
<1>16. OneHolder' /\ SleepersWatched'
  <2>1. OneHolder'
    BY <1>3, <1>7, <1>15 DEF JInv, OneHolder
  <2>2. \A d \in Clients : pc'[d] # "asleep"
    BY <1>2, <1>6, <1>9
  <2> QED
    BY <2>1, <2>2 DEF SleepersWatched
<1>17. Justified(status.outcome)' /\ (waited' => status'.state # "WAITING")
       /\ (status'.state = "WAITING" /\ ~status'.notify_event_or_lazy_lock => NoFailureSeen)
  BY <1>3, <1>7 DEF Justified, JInv, InpollFits
<1>18. \A d \in Clients \ {c} : pc[d] \notin LockLocs
  BY <1>6 DEF LockLocs
<1> QED
  BY <1>3, <1>6, <1>7, <1>10, <1>11, <1>12, <1>13, <1>14, <1>16, <1>17, <1>18, WordFrame DEF ClientFits

LEMMA CollectKeeps ==
  ASSUME JInv, NEW c \in Clients, Collect(c)
  PROVE  JInv'
<1>1. /\ pc[c] = "collect" /\ pc[c] # "idle"
      /\ status' = ZeroStatus /\ attached' = {} /\ remaining' = 0 /\ Return(c)
      /\ upstream' = upstream /\ readable' = readable /\ latch' = latch
      /\ outcome' = outcome /\ batch' = batch
      /\ canceled' = canceled /\ waited' = waited /\ aborted' = aborted
  BY DEF Collect, upstreamVars, localVars
<1>2. \A d \in Clients \ {c} : pc[d] = "idle"
  <2>1. LocFits(c) /\ FinisherFits(c)
    BY <1>1, InCall
  <2> QED
    BY <1>1, <2>1 DEF LocFits, FinisherFits, Finishing
<1>3. /\ pc' \in [Clients -> ClientLocs] /\ snap' \in [Clients -> Statuses]
      /\ call' \in [Clients -> WaitCalls \cup CancelCalls \cup FinishCalls \cup {"none"}]
      /\ \A d \in Clients : pc'[d] = "idle"
  BY <1>1, <1>2, Returned DEF JInv
<1>4. Typed'
  BY <1>1, <1>3 DEF JInv, Typed
<1>5. InpollFits'
  BY <1>1, ZeroWord DEF InpollFits, Justified
<1>6. \A d \in Clients : ClientFits(d)' /\ ~(Registers(d)') /\ pc'[d] \notin LockLocs
  BY <1>3, IdleFits
<1>7. OneHolder' /\ SleepersWatched'
  BY <1>1, <1>3, <1>6, ZeroWord DEF OneHolder, SleepersWatched
<1>8. CountNeverShort'
  <2>1. RegisteredClients' = {}
    BY <1>6 DEF RegisteredClients
  <2>2. Cardinality(RegisteredClients') = 0
    BY <2>1, FS_EmptySet
  <2> QED
    BY <1>1, <2>2, ZeroWord DEF CountNeverShort, RegisteredClients
<1> QED
  BY <1>4, <1>5, <1>6, <1>7, <1>8 DEF JInv

-----------------------------------------------------------------------------
LEMMA JoinInit ==
  ASSUME Init
  PROVE  JInv
<1>1. /\ JoinWord(status) /\ status.outcome = "UNKNOWN" /\ status.state = "WAITING"
      /\ ~status.notify_event_or_lazy_lock /\ status.downstream_count = 0
  <2>1. status = [downstream_count |-> 0, available |-> TRUE, state |-> "WAITING",
                  outcome |-> "UNKNOWN", type |-> "JOIN", notify_address |-> FALSE,
                  notify_event_or_lazy_lock |-> FALSE]
    BY DEF Init, InitialJoinStatus, ZeroStatus
  <2>2. status \in Statuses
    BY <2>1 DEF Statuses, States, Outcomes, Types
  <2>3. 0 <= MAX_DOWNSTREAM_COUNT
    BY MaxCountAssumption
  <2> QED
    BY <2>1, <2>2, <2>3 DEF JoinWord
<1>2. \A c \in Clients : pc[c] = "idle"
  BY DEF Init
<1>3. Typed
  <2>1. << >> \in Seq(Upstreams \cup {Latch})
    OBVIOUS
  <2> QED
    BY <1>1, <2>1, ZeroWord, Locations DEF Init, Typed, Outcomes, Aborts
<1>4. InpollFits
  BY <1>1, JoinWordChecked DEF Init, InpollFits, Justified, NoFailureSeen
<1>5. \A c \in Clients : ClientFits(c) /\ ~Registers(c) /\ pc[c] \notin LockLocs
  BY <1>2 DEF ClientFits, LocFits, FutexFits, FinisherFits, Finishing, LockLocs, Registers
<1>6. OneHolder /\ SleepersWatched
  BY <1>1, <1>2, <1>5 DEF OneHolder, SleepersWatched
<1>7. CountNeverShort
  <2>1. RegisteredClients = {}
    BY <1>5 DEF RegisteredClients
  <2>2. Cardinality(RegisteredClients) = 0
    BY <2>1, FS_EmptySet
  <2> QED
    BY <1>1, <2>2 DEF CountNeverShort, RegisteredClients
<1> QED
  BY <1>3, <1>4, <1>5, <1>6, <1>7 DEF JInv

LEMMA JoinNext ==
  ASSUME JInv, [Next]_vars
  PROVE  JInv'
<1>1. CASE UNCHANGED vars
  <2>1. Typed'
    BY <1>1 DEF vars, upstreamVars, inpollVars, localVars, JInv, Typed
  <2> QED
    BY <1>1, <2>1, NothingMoves DEF vars, upstreamVars, inpollVars, localVars
<1>2. ASSUME NEW u \in Upstreams, UpstreamStep(u) PROVE JInv'
  BY <1>2, UpstreamSettlesKeeps, UpstreamSignalsKeeps DEF UpstreamStep
<1>3. ASSUME NEW c \in Clients, ClientCall(c) PROVE JInv'
  BY <1>3, WaitKeeps, CancelKeeps, FinishKeeps DEF ClientCall
<1>4. ASSUME NEW c \in Clients, KernelReturn(c) PROVE JInv'
  <2>1. CASE PollExpires(c)
    BY <2>1, AbortKeeps DEF PollExpires, Aborts
  <2> QED
    BY <1>4, <2>1, FutexReturnKeeps, PollInterruptedKeeps DEF KernelReturn
<1>5. ASSUME NEW c \in Clients, ClientStep(c) PROVE JInv'
  <2>1. CASE ClientSwap(c)
    <3>1. CASE RetireSwap(c) /\ snap[c].downstream_count # 0
      BY <3>1, AbortKeeps DEF RetireSwap, Aborts
    <3> QED
      BY <2>1, <3>1, WaitRegisterKeeps, UnlockSwapKeeps, CancelSwapKeeps, RetireSwapKeeps
         DEF ClientSwap
  <2>2. CASE HolderStep(c)
    <3>1. CASE DrainReady(c) /\ upstream[Head(batch[c])] = "failure" /\ outcome[c] # "UNKNOWN"
      BY <3>1, AbortKeeps DEF DrainReady, Aborts
    <3> QED
      BY <2>2, <3>1, PollEventsKeeps, DrainLatchKeeps, DrainPendingKeeps, DrainReadyKeeps,
         DecideKeeps, UnlockRetryKeeps DEF HolderStep
  <2>3. CASE WaitRejected(c)
    BY <2>3, AbortKeeps DEF WaitRejected, Aborts
  <2> QED
    BY <1>5, <2>1, <2>2, <2>3, WaitRegisterRetryKeeps, FutexWaitKeeps, CheckWokenKeeps,
       WaitReleaseKeeps, NotifyAllKeeps, NotifyLatchKeeps, NotifyOneKeeps, CancelRetryKeeps,
       CancelLatchKeeps, CancelWakeKeeps, FinishWaitKeeps, CollectKeeps DEF ClientStep
<1> QED
  BY <1>1, <1>2, <1>3, <1>4, <1>5 DEF Next

(* JInv holds in every behaviour of the join future.                       *)
THEOREM JoinInvariance == Spec => []JInv
BY JoinInit, JoinNext, PTL DEF Spec

-----------------------------------------------------------------------------
(* What follows from JInv.                                                 *)

LEMMA LockFollows ==
  ASSUME JInv
  PROVE  LockProtectsState
<1> DEFINE H == {c \in Clients : pc[c] \in LockLocs}
<1>1. CASE status.notify_event_or_lazy_lock
  <2>1. PICK c \in Clients : pc[c] \in LockLocs
    BY <1>1 DEF JInv, OneHolder
  <2>2. H = {c}
    BY <2>1 DEF JInv, OneHolder
  <2>3. Cardinality(H) = 1
    BY <2>2, FS_Singleton
  <2> QED
    BY <1>1, <2>3 DEF LockProtectsState, LazyLockExclusive, RemainingExact, JInv, InpollFits
<1>2. CASE ~status.notify_event_or_lazy_lock
  <2>1. H = {}
    BY <1>2 DEF JInv, ClientFits, HolderFits
  <2>2. Cardinality(H) = 0
    BY <2>1, FS_EmptySet
  <2> QED
    BY <1>2, <2>2 DEF LockProtectsState, LazyLockExclusive, RemainingExact, JInv, InpollFits
<1> QED
  BY <1>1, <1>2

LEMMA NobodyStrandedFollows ==
  ASSUME JInv
  PROVE  NobodyStranded
<1> SUFFICES ASSUME NEW c \in Clients, pc[c] = "asleep"
             PROVE  \E d \in Clients : Responsible(d)
  BY DEF NobodyStranded
<1>1. CASE status.state = "RESULT"
  BY <1>1 DEF JInv, SleepersWatched, WakesAll, Responsible
<1>2. CASE status.state # "RESULT"
  BY <1>2 DEF JInv, SleepersWatched, OneHolder, Responsible
<1> QED
  BY <1>1, <1>2

LEMMA ClientAssertsFollow ==
  ASSUME JInv, NEW c \in Clients
  PROVE  ClientAsserts(c)
<1> SUFFICES ASSUME pc[c] # "idle" PROVE ClientAsserts(c)
  BY DEF ClientAsserts
<1>1. /\ JoinWord(status) /\ JoinWord(snap[c]) /\ status # ZeroStatus
      /\ LocFits(c) /\ FutexFits(c) /\ FinisherFits(c)
      /\ pc[c] \in LockLocs => HolderFits(c)
  BY InCall
<1>2. DebugCheck(snap[c], TRUE) /\ DebugCheck(status, TRUE)
  BY <1>1, JoinWordChecked
<1>3. /\ Policy(c) = "CYCLE" <=> call[c] \in WaitCalls
      /\ call[c] \in WaitCalls => call[c] \notin FinishCalls
  BY DEF Policy, WaitCalls, FinishCalls
<1>4. ASSUME pc[c] = "register"
      PROVE  /\ snap[c].state # "RESULT"
             /\ CountIncAllowed(snap[c], Policy(c)) => DebugCheck(Registered(c), TRUE)
  <2>1. Policy(c) = "CYCLE" => snap[c].available
    BY <1>1, <1>3, <1>4 DEF LocFits
  <2> QED
    BY <1>1, <1>4, <2>1, RegisteredWord, JoinWordChecked DEF LocFits
<1>5. pc[c] = "futex" => /\ snap[c].state # "RESULT"
                         /\ snap[c].notify_event_or_lazy_lock /\ snap[c].notify_address
  BY <1>1 DEF LocFits, FutexFits
<1>6. pc[c] = "release" => CountDecAllowed(status, Policy(c))
  BY <1>1, <1>3, Referenced DEF LocFits, Registers, CountDecAllowed
<1>7. pc[c] = "poll" => snap[c].outcome = "UNKNOWN"
  BY <1>1 DEF HolderFits, LockLocs
<1>8. ASSUME pc[c] = "drain", batch[c] # << >>, Head(batch[c]) # Latch
      PROVE  remaining >= 1
  <2>1. batch[c] \in Seq(Upstreams \cup {Latch}) /\ BatchFits(batch[c])
    BY <1>1, <1>8 DEF JInv, Typed, HolderFits, LockLocs
  <2>2. 1 \in 1 .. Len(batch[c]) /\ batch[c][1] = Head(batch[c])
    BY <1>8, <2>1
  <2>3. Head(batch[c]) \in attached
    BY <1>8, <2>1, <2>2 DEF BatchFits
  <2>4. IsFiniteSet(attached)
    BY UpstreamsAssumption, FS_Subset DEF JInv, Typed
  <2>5. Cardinality(attached) \in Nat /\ Cardinality(attached) # 0
    BY <2>3, <2>4, FS_EmptySet, FS_CardinalityType
  <2>6. remaining = Cardinality(attached)
    BY <1>1 DEF JInv, InpollFits
  <2> QED
    BY <2>5, <2>6
<1>9. pc[c] = "unlock" => /\ snap[c].notify_event_or_lazy_lock
                          /\ CountDecAllowed(snap[c], Policy(c))
                          /\ DebugCheck(Unlocked(c), TRUE)
  <2> SUFFICES ASSUME pc[c] = "unlock"
               PROVE  /\ snap[c].notify_event_or_lazy_lock
                      /\ CountDecAllowed(snap[c], Policy(c))
                      /\ DebugCheck(Unlocked(c), TRUE)
    OBVIOUS
  <2>1. HolderFits(c) /\ outcome[c] \in Outcomes
    BY <1>1 DEF LockLocs, JInv, Typed
  <2> QED
    BY <1>1, <2>1, UnlockedWord, JoinWordChecked DEF HolderFits
<1>10. /\ pc[c] = "cancel" => snap[c].state = "WAITING"
       /\ pc[c] = "retire" => snap[c] = status
       /\ pc[c] = "collect" =>
            snap[c].state = "RESULT" /\ snap[c].outcome \notin {"UNKNOWN", "FAILURE_INTERNAL"}
  BY <1>1 DEF LocFits, FinisherFits, Finishing, JoinWord
<1> QED
  BY <1>2, <1>4, <1>5, <1>6, <1>7, <1>8, <1>9, <1>10 DEF ClientAsserts

LEMMA CallsFollow ==
  ASSUME JInv
  PROVE  CallsConsistent
<1>1. TypeOK
  <2>1. status \in Statuses
    BY ZeroWord DEF JInv, Typed, JoinWord
  <2>2. remaining \in 0 .. Cardinality(Upstreams)
    <3>1. /\ Cardinality(attached) \in Nat /\ Cardinality(Upstreams) \in Nat
          /\ Cardinality(attached) <= Cardinality(Upstreams)
      BY UpstreamsAssumption, FS_Subset, FS_CardinalityType DEF JInv, Typed
    <3> QED
      BY <3>1 DEF JInv, InpollFits
  <2> QED
    BY <2>1, <2>2 DEF JInv, Typed, TypeOK
<1>2. AssertsHold
  BY ClientAssertsFollow DEF AssertsHold, JInv, Typed
<1>3. TrueWaitMeansNoBlocking
  <2> SUFFICES ASSUME waited, NEW c \in Clients, call[c] \in FinishCalls,
                      pc[c] \in {"wait", "register", "futex", "asleep"} \cup LockLocs
               PROVE  FALSE
    BY DEF TrueWaitMeansNoBlocking
  <2>1. pc[c] # "idle"
    BY DEF LockLocs
  <2>2. LocFits(c) /\ FinisherFits(c)
    BY <2>1, InCall
  <2>3. pc[c] \notin {"futex", "asleep"}
    BY <2>2 DEF LocFits, WaitCalls, FinishCalls
  <2>4. status.state = "WAITING"
    BY <2>1, <2>2, <2>3 DEF FinisherFits, Finishing
  <2> QED
    BY <2>4 DEF JInv, InpollFits
<1> QED
  BY <1>1, <1>2, <1>3 DEF CallsConsistent

(* The only steps that change the word.                                    *)
LEMMA ResultKept ==
  ASSUME JInv, [Next]_vars, status.state = "RESULT"
  PROVE  status'.state = "RESULT" \/ status' = ZeroStatus
<1>1. CASE status' = status
  BY <1>1
<1>2. ASSUME NEW c \in Clients, WaitRegister(c), status' # status PROVE FALSE
  BY <1>2, InCall DEF WaitRegister, LocFits
<1>3. ASSUME NEW c \in Clients, CancelSwap(c) PROVE FALSE
  BY <1>3, InCall DEF CancelSwap, LocFits
<1>4. ASSUME NEW c \in Clients, WaitRelease(c) PROVE status'.state = "RESULT"
  <2>1. status' = CountDec(status, Policy(c)) /\ status \in Statuses
    BY <1>4, InCall DEF WaitRelease
  <2> QED
    BY <2>1 DEF CountDec, Statuses
<1>5. ASSUME NEW c \in Clients, UnlockSwap(c) PROVE status'.state = "RESULT"
  <2>1. pc[c] = "unlock" /\ status = snap[c] /\ status' = Unlocked(c)
    BY <1>5 DEF UnlockSwap
  <2>2. JoinWord(snap[c]) /\ HolderFits(c) /\ outcome[c] \in Outcomes
    BY <2>1, InCall DEF LockLocs, JInv, Typed
  <2> QED
    BY <2>1, <2>2, UnlockedWord DEF HolderFits
<1>6. ASSUME NEW c \in Clients, RetireSwap(c), status' # status PROVE status'.state = "RESULT"
  <2>1. pc[c] = "retire" /\ status = snap[c] /\ status' = [status EXCEPT !.available = FALSE]
    BY <1>6 DEF RetireSwap, Abort
  <2>2. status \in Statuses
    BY <2>1, InCall
  <2> QED
    BY <2>1, <2>2 DEF Statuses
<1>7. ASSUME NEW c \in Clients, Collect(c) PROVE status' = ZeroStatus
  BY <1>7 DEF Collect
<1>8. ASSUME NEW c \in Clients, ClientCall(c) \/ KernelReturn(c) PROVE status' = status
  BY <1>8 DEF ClientCall, Wait, Cancel, Finish, KernelReturn, FutexSpurious, FutexInterrupted,
     PollExpires, PollInterrupted, Abort
<1>9. ASSUME NEW u \in Upstreams, UpstreamStep(u) PROVE status' = status
  BY <1>9 DEF UpstreamStep, UpstreamSettles, UpstreamSignals
<1>10. ASSUME NEW c \in Clients, HolderStep(c) PROVE status' = status
  BY <1>10 DEF HolderStep, PollEvents, DrainLatch, DrainPending, DrainReady, Decide, UnlockRetry, Abort
<1>11. ASSUME NEW c \in Clients,
              \/ WaitRejected(c) \/ WaitRegisterRetry(c) \/ FutexWait(c) \/ CheckWoken(c)
              \/ NotifyAll(c) \/ NotifyLatch(c) \/ NotifyOne(c)
              \/ CancelRetry(c) \/ CancelLatch(c) \/ CancelWake(c) \/ FinishWait(c)
       PROVE  status' = status
  BY <1>11 DEF WaitRejected, WaitRegisterRetry, FutexWait, CheckWoken, NotifyAll, NotifyLatch, NotifyOne,
     CancelRetry, CancelLatch, CancelWake, FinishWait, Abort
<1>12. ASSUME NEW c \in Clients, ClientStep(c)
       PROVE  status'.state = "RESULT" \/ status' = ZeroStatus
  BY <1>1, <1>2, <1>3, <1>4, <1>5, <1>6, <1>7, <1>10, <1>11, <1>12 DEF ClientStep, ClientSwap
<1>13. CASE UNCHANGED vars
  BY <1>13 DEF vars
<1> QED
  BY <1>1, <1>8, <1>9, <1>12, <1>13 DEF Next

-----------------------------------------------------------------------------
(***************************************************************************)
(* The lazy lock of future_wait_join() has one holder while its bit is set *)
(* and none otherwise, and `remaining` is exact through timeouts,          *)
(* handovers and batches: it counts the attached upstream futures, and the *)
(* detached ones are settled.                                              *)
(***************************************************************************)
THEOREM JoinLockProtectsState == Spec => []LockProtectsState
BY JoinInvariance, LockFollows, PTL

(***************************************************************************)
(* A join future succeeds only if all upstream futures did, fails with     *)
(* FAILURE_DEPENDENCY only if one failed, and is canceled only if a call   *)
(* of udipe_cancel() returned true, whoever held the lock meanwhile.       *)
(***************************************************************************)
THEOREM JoinOutcomeJustified == Spec => []OutcomeJustified
<1>1. JInv => OutcomeJustified
  BY DEF JInv, InpollFits, Justified, OutcomeJustified
<1> QED
  BY JoinInvariance, <1>1, PTL

(***************************************************************************)
(* No thread sleeps on the futex of the status word without another one    *)
(* that holds the lock, is about to take it or is bound to wake it.        *)
(***************************************************************************)
THEOREM JoinNobodyStranded == Spec => []NobodyStranded
BY JoinInvariance, NobodyStrandedFollows, PTL

(***************************************************************************)
(* downstream_count covers the registered waiters in spite of the          *)
(* registrations that are repeated after ADDRESS_WAIT_UNLOCKED.            *)
(***************************************************************************)
THEOREM JoinCountNeverShort == Spec => []CountNeverShort
<1>1. JInv => CountNeverShort
  BY DEF JInv
<1> QED
  BY JoinInvariance, <1>1, PTL

(***************************************************************************)
(* The types are kept, the assertions of the wait, cancel and finish paths *)
(* hold on copies of the word that may be stale, the holder reads the      *)
(* latch only after a cancelation, and udipe_finish() does not block after *)
(* a udipe_wait() that returned true.                                      *)
(***************************************************************************)
THEOREM JoinCallsConsistent == Spec => []CallsConsistent
BY JoinInvariance, CallsFollow, PTL

(* No step but liberation takes a join future out of STATE_RESULT.         *)
THEOREM JoinResultIsFinal == Spec => ResultIsFinal
<1>1. JInv /\ [Next]_vars =>
        [status.state = "RESULT" => status'.state = "RESULT" \/ status' = ZeroStatus]_vars
  BY ResultKept
<1> QED
  BY JoinInvariance, <1>1, PTL DEF Spec, ResultIsFinal
=============================================================================
