----------------------------- MODULE JoinFuture -----------------------------
(***************************************************************************)
(* A join future: ready when all of its upstream futures have succeeded or *)
(* one of them has failed.  No thread works for it.  The client threads    *)
(* that wait for it elect one of them through the lazy lock bit of the     *)
(* status word; the lock holder polls the upstream futures through an      *)
(* inpoll (an epoll set), the others sleep on the futex of the status word *)
(* until the holder has an outcome or gives up                             *)
(* (future_wait_join() in src/src/future/wait.c, udipe_cancel() in         *)
(* src/src/future.c).                                                      *)
(*                                                                         *)
(* As in CustomFuture, a step performs at most one access to the status    *)
(* word or one system call.  Some assertions of the code can fail; they    *)
(* end the process and are modelled by `aborted`.  The others are collected*)
(* in AssertsHold.                                                         *)
(*                                                                         *)
(* udipe_start_join() is still to be written (future.c:251).  Init is the  *)
(* state it has to set up according to future_allocate(): the word that    *)
(* future_status_debug_check() asks for, the unsignaled latch and every    *)
(* upstream attached to the inpoll.                                        *)
(***************************************************************************)
EXTENDS FutureStatus, FiniteSets, SequencesExt

CONSTANTS
  Clients,      \* application threads that call udipe_wait/cancel/finish
  Upstreams,    \* the futures to be joined
  Latch,        \* INPOLL_LATCH_ID
  WaitKinds,    \* the kinds of udipe_wait() timeout in use
  MAX_JOIN_INPOLL_IDENTIFIERS   \* length of the buffer given to inpoll_wait()

(* wait_some is udipe_wait() with any finite timeout: a join future has no *)
(* shortcut for UDIPE_DURATION_MIN.                                        *)
WaitCalls   == {"wait_some", "wait_max"}
CancelCalls == {"cancel", "cancel_finish"}
FinishCalls == {"finish", "cancel_finish"}

ASSUME ClientsAssumption == IsFiniteSet(Clients)

ASSUME UpstreamsAssumption ==
  IsFiniteSet(Upstreams) /\ Upstreams # {} /\ Latch \notin Upstreams

ASSUME WaitKindsAssumption == WaitKinds \subseteq WaitCalls

ASSUME BufferAssumption == MAX_JOIN_INPOLL_IDENTIFIERS \in Nat \ {0}

VARIABLES
  status,     \* the atomic status word of the join future
  upstream,   \* "pending", or the outcome of each upstream future
  readable,   \* the upstream futures whose file descriptor is readable
  attached,   \* the upstream futures that the inpoll still watches
  remaining,  \* collective_upstream_t::remaining, under the lazy lock
  latch,      \* whether the latch event of the inpoll is signaled
  pc,         \* where each client thread is
  call,       \* its API call
  snap,       \* latest_status, its local copy of the status word
  outcome,    \* `outcome` of the lock holder
  batch,      \* the identifiers from inpoll_wait() it did not look at yet
  canceled,   \* whether a call of udipe_cancel() returned true
  waited,     \* whether a call of udipe_wait() returned true
  aborted     \* the assertion that ended the process

upstreamVars == <<upstream, readable>>
inpollVars   == <<attached, remaining, latch>>
localVars    == <<outcome, batch>>
vars == <<status, upstreamVars, inpollVars, pc, call, snap, localVars,
          canceled, waited, aborted>>

(* Program points of a client.                                             *)
LockLocs   == {"poll",      \* about to call inpoll_wait()
               "drain",     \* in the loop over its identifiers
               "unlock"}    \* CAS loop that gives the lock back

ClientLocs == LockLocs \cup
              {"idle", "register", "futex", "asleep", "check", "release",
               "notify_all", "notify_latch", "notify_one",
               "cancel", "cancel_latch", "cancel_wake",
               "retire", "wait", "collect"}

Aborts == {"no", "too_many_waiters", "epoll_timeout", "two_failures",
           "still_used", "latch_read"}

TypeOK ==
  /\ status \in Statuses
  /\ upstream \in [Upstreams -> {"pending", "success", "failure"}]
  /\ readable \subseteq Upstreams
  /\ attached \subseteq Upstreams
  /\ remaining \in 0 .. Cardinality(Upstreams)
  /\ latch \in BOOLEAN
  /\ pc \in [Clients -> ClientLocs]
  /\ call \in [Clients -> WaitCalls \cup CancelCalls \cup FinishCalls \cup {"none"}]
  /\ snap \in [Clients -> Statuses]
  /\ outcome \in [Clients -> Outcomes]
  /\ \A c \in Clients : batch[c] \in Seq(Upstreams \cup {Latch})
  /\ canceled \in BOOLEAN
  /\ waited \in BOOLEAN
  /\ aborted \in Aborts

InitialJoinStatus ==
  [ZeroStatus EXCEPT !.available = TRUE, !.state = "WAITING", !.type = "JOIN"]

Init ==
  /\ status = InitialJoinStatus
  /\ upstream = [u \in Upstreams |-> "pending"]
  /\ readable = {}
  /\ attached = Upstreams
  /\ remaining = Cardinality(Upstreams)
  /\ latch = FALSE
  /\ pc = [c \in Clients |-> "idle"]
  /\ call = [c \in Clients |-> "none"]
  /\ snap = [c \in Clients |-> ZeroStatus]
  /\ outcome = [c \in Clients |-> "UNKNOWN"]
  /\ batch = [c \in Clients |-> << >>]
  /\ canceled = FALSE
  /\ waited = FALSE
  /\ aborted = "no"

-----------------------------------------------------------------------------
(* The upstream futures, as the join future sees them.  The descriptor of  *)
(* an eager future becomes readable after its status changed; that of a    *)
(* lazy one becomes readable first, and polling it updates the status.     *)

UpstreamSettles(u) ==
  /\ upstream[u] = "pending"
  /\ \E o \in {"success", "failure"} : upstream' = [upstream EXCEPT ![u] = o]
  /\ UNCHANGED <<status, readable, inpollVars, pc, call, snap, localVars,
                 canceled, waited, aborted>>

UpstreamSignals(u) ==
  /\ u \notin readable
  /\ readable' = readable \cup {u}
  /\ UNCHANGED <<status, upstream, inpollVars, pc, call, snap, localVars,
                 canceled, waited, aborted>>

-----------------------------------------------------------------------------
(* Steps common to the client's calls.                                     *)

Policy(c) == IF call[c] \in WaitCalls THEN "CYCLE" ELSE "KEEP"

Continue(c, loc, s) ==
  /\ pc' = [pc EXCEPT ![c] = loc]
  /\ snap' = [snap EXCEPT ![c] = s]

Return(c) ==
  /\ Continue(c, "idle", ZeroStatus)
  /\ call' = [call EXCEPT ![c] = "none"]

(* future_wait() returns `s' to udipe_wait() or to future_finish().        *)
WaitOver(c, s) ==
  IF Policy(c) = "CYCLE"
  THEN Return(c) /\ waited' = (waited \/ s.state = "RESULT")
  ELSE Continue(c, "collect", s) /\ UNCHANGED <<call, waited>>

(* A failed assertion: the process is over.                                *)
Abort(why) ==
  /\ aborted' = why
  /\ UNCHANGED <<status, upstreamVars, inpollVars, pc, call, snap, localVars,
                 canceled, waited>>

(* The lifetime rules of include/udipe/future.h, as in CustomFuture.       *)
Finishing(c) == pc[c] # "idle" /\ call[c] \in FinishCalls

MayCall(c)   == pc[c] = "idle" /\ status.available /\ \A d \in Clients : ~Finishing(d)

MayFinish(c) == status.available /\ \A d \in Clients : pc[d] = "idle"

-----------------------------------------------------------------------------
(* future_wait_join(): registration and the futex side.                    *)

Wait(c, t) ==
  /\ MayCall(c)
  /\ \/ /\ status.state = "RESULT"
        /\ waited' = TRUE
        /\ UNCHANGED <<pc, call, snap>>
     \/ /\ status.state # "RESULT"
        /\ call' = [call EXCEPT ![c] = t]
        /\ Continue(c, "register", status)
        /\ UNCHANGED waited
  /\ UNCHANGED <<status, upstreamVars, inpollVars, localVars, canceled, aborted>>

(* Mutant: a waiter does not ask for a notification.                       *)
RegisteredSilently(c) ==
  IF snap[c].notify_event_or_lazy_lock
  THEN CountInc(snap[c], Policy(c))
  ELSE [CountInc(snap[c], Policy(c)) EXCEPT !.notify_event_or_lazy_lock = TRUE]

(* The word that the client wants to install: it asks to be notified by    *)
(* the lock holder, or takes the lock.                                     *)
Registered(c) ==
  IF snap[c].notify_event_or_lazy_lock
  THEN [CountInc(snap[c], Policy(c)) EXCEPT !.notify_address = TRUE]
  ELSE [CountInc(snap[c], Policy(c)) EXCEPT !.notify_event_or_lazy_lock = TRUE]

(* ensure_lt() in prepare_downstream_count_inc().                          *)
WaitRejected(c) ==
  /\ pc[c] = "register"
  /\ ~CountIncAllowed(snap[c], Policy(c))
  /\ Abort("too_many_waiters")

(* Mutant: a thread that finds the lock taken polls all the same.          *)
WaitRegisterPolls(c) ==
  /\ pc[c] = "register"
  /\ CountIncAllowed(snap[c], Policy(c))
  /\ status = snap[c] /\ status' = Registered(c)
  /\ Continue(c, "poll", Registered(c))
  /\ outcome' = [outcome EXCEPT ![c] = "UNKNOWN"]
  /\ UNCHANGED <<upstreamVars, inpollVars, call, batch, canceled, waited, aborted>>

WaitRegister(c) ==
  /\ pc[c] = "register"
  /\ CountIncAllowed(snap[c], Policy(c))
  /\ \/ Registered(c) = snap[c] /\ UNCHANGED status
     \/ Registered(c) # snap[c] /\ status = snap[c] /\ status' = Registered(c)
  /\ Continue(c, IF snap[c].notify_event_or_lazy_lock THEN "futex" ELSE "poll",
              Registered(c))
  /\ outcome' = [outcome EXCEPT ![c] = "UNKNOWN"]
  /\ UNCHANGED <<upstreamVars, inpollVars, call, batch, canceled, waited, aborted>>

WaitRegisterRetry(c) ==
  /\ pc[c] = "register"
  /\ CountIncAllowed(snap[c], Policy(c))
  /\ Registered(c) # snap[c] /\ status # snap[c]
  /\ IF status.state = "RESULT"
     THEN WaitOver(c, status)
     ELSE Continue(c, "register", status) /\ UNCHANGED <<call, waited>>
  /\ UNCHANGED <<status, upstreamVars, inpollVars, localVars, canceled, aborted>>

FutexWait(c) ==
  /\ pc[c] = "futex"
  /\ Continue(c, IF status = snap[c] THEN "asleep" ELSE "check", snap[c])
  /\ UNCHANGED <<status, upstreamVars, inpollVars, call, localVars, canceled,
                 waited, aborted>>

(* EINTR or ETIMEDOUT: future_wait_by_adress() keeps its old copy of the   *)
(* status and gives up if the stopwatch says that the time is over.        *)
FutexInterrupted(c) ==
  /\ pc[c] = "asleep"
  /\ \/ Continue(c, "futex", snap[c])
     \/ call[c] = "wait_some" /\ Continue(c, "release", snap[c])
  /\ UNCHANGED <<status, upstreamVars, inpollVars, call, localVars, canceled,
                 waited, aborted>>

FutexSpurious(c) ==
  /\ pc[c] = "asleep"
  /\ Continue(c, "check", snap[c])
  /\ UNCHANGED <<status, upstreamVars, inpollVars, call, localVars, canceled,
                 waited, aborted>>

(* Mutant: the woken thread does not notice that the lock is free.         *)
CheckWokenForResult(c) ==
  /\ pc[c] = "check"
  /\ \/ /\ status.state = "RESULT"
        /\ IF Policy(c) = "CYCLE"
           THEN Continue(c, "release", status) /\ UNCHANGED <<call, waited>>
           ELSE WaitOver(c, status)
     \/ /\ status.state # "RESULT"
        /\ Continue(c, "futex", status) /\ UNCHANGED <<call, waited>>
  /\ UNCHANGED <<status, upstreamVars, inpollVars, localVars, canceled, aborted>>

(* The load after a wakeup.  ADDRESS_WAIT_UNLOCKED takes the client back   *)
(* to the registration.                                                    *)
CheckWoken(c) ==
  /\ pc[c] = "check"
  /\ \/ /\ status.state = "RESULT"
        /\ IF Policy(c) = "CYCLE"
           THEN Continue(c, "release", status) /\ UNCHANGED <<call, waited>>
           ELSE WaitOver(c, status)
     \/ /\ status.state # "RESULT" /\ ~status.notify_event_or_lazy_lock
        /\ Continue(c, "register", status) /\ UNCHANGED <<call, waited>>
     \/ /\ status.state # "RESULT" /\ status.notify_event_or_lazy_lock
        /\ Continue(c, "futex", status) /\ UNCHANGED <<call, waited>>
     \/ /\ status.state # "RESULT" /\ status.notify_event_or_lazy_lock
        /\ call[c] = "wait_some"
        /\ Continue(c, "release", status) /\ UNCHANGED <<call, waited>>
  /\ UNCHANGED <<status, upstreamVars, inpollVars, localVars, canceled, aborted>>

(* Mutant: the reference is dropped twice.                                 *)
WaitReleaseTwice(c) ==
  /\ pc[c] = "release"
  /\ status' = CountDec(CountDec(status, Policy(c)), Policy(c))
  /\ WaitOver(c, status')
  /\ UNCHANGED <<upstreamVars, inpollVars, localVars, canceled, aborted>>

(* future_downstream_count_dec().                                          *)
WaitRelease(c) ==
  /\ pc[c] = "release"
  /\ status' = CountDec(status, Policy(c))
  /\ WaitOver(c, status')
  /\ UNCHANGED <<upstreamVars, inpollVars, localVars, canceled, aborted>>

-----------------------------------------------------------------------------
(* future_wait_join(): the lock holder.                                    *)

(* What epoll_pwait2() reports: level-triggered, in any order.             *)
Ready == (attached \cap readable) \cup (IF latch THEN {Latch} ELSE {})

(* inpoll_wait(): a batch of them, as long as the array of the caller.     *)
inpoll_wait ==
  {SubSeq(ids, 1, Min({Len(ids), MAX_JOIN_INPOLL_IDENTIFIERS})) : ids \in SetToSeqs(Ready)}

PollEvents(c) ==
  /\ pc[c] = "poll" /\ Ready # {}
  /\ \E identifiers \in inpoll_wait : batch' = [batch EXCEPT ![c] = identifiers]
  /\ Continue(c, "drain", snap[c])
  /\ UNCHANGED <<status, upstreamVars, inpollVars, call, outcome, canceled,
                 waited, aborted>>

(* epoll_pwait2() returns 0 because the time is over: inpoll_wait() takes  *)
(* everything but a positive result for an error.                          *)
PollExpires(c) ==
  /\ pc[c] = "poll" /\ Ready = {} /\ call[c] = "wait_some"
  /\ Abort("epoll_timeout")

(* EINTR while nothing is readable, and the stopwatch says that the time   *)
(* is over.                                                                *)
PollInterrupted(c) ==
  /\ pc[c] = "poll" /\ Ready = {} /\ call[c] = "wait_some"
  /\ Continue(c, "unlock", snap[c])
  /\ UNCHANGED <<status, upstreamVars, inpollVars, call, localVars, canceled,
                 waited, aborted>>

(* One round of the loop over the identifiers: the latch...                *)
DrainLatch(c) ==
  /\ pc[c] = "drain" /\ batch[c] # << >> /\ Head(batch[c]) = Latch
  /\ IF status.state = "RESULT" /\ status.outcome = "FAILURE_CANCELED"
     THEN /\ Continue(c, "drain", status)
          /\ outcome' = [outcome EXCEPT ![c] = "FAILURE_CANCELED"]
          /\ batch' = [batch EXCEPT ![c] = << >>]
          /\ UNCHANGED <<status, upstreamVars, inpollVars, call, canceled,
                         waited, aborted>>
     ELSE Abort("latch_read")

(* ... an upstream future that is not ready after all...                   *)
DrainPending(c) ==
  /\ pc[c] = "drain" /\ batch[c] # << >> /\ Head(batch[c]) # Latch
  /\ upstream[Head(batch[c])] = "pending"
  /\ batch' = [batch EXCEPT ![c] = Tail(@)]
  /\ UNCHANGED <<status, upstreamVars, inpollVars, pc, call, snap, outcome, canceled,
                 waited, aborted>>

(* Mutant: the upstream stays attached.                                    *)
DrainReadyAttached(c) ==
  LET u == Head(batch[c])
  IN  /\ pc[c] = "drain" /\ batch[c] # << >> /\ u # Latch
      /\ upstream[u] # "pending"
      /\ remaining' = remaining - 1
      /\ batch' = [batch EXCEPT ![c] = Tail(@)]
      /\ outcome' = [outcome EXCEPT
           ![c] = IF upstream[u] = "failure" THEN "FAILURE_DEPENDENCY" ELSE @]
      /\ UNCHANGED <<status, upstreamVars, attached, latch, pc, call, snap,
                     canceled, waited, aborted>>

(* ... or one that is.  A failure after another one in the same batch      *)
(* fails an assertion.                                                     *)
DrainReady(c) ==
  LET u == Head(batch[c])
  IN  /\ pc[c] = "drain" /\ batch[c] # << >> /\ u # Latch
      /\ upstream[u] # "pending"
      /\ IF upstream[u] = "failure" /\ outcome[c] # "UNKNOWN"
         THEN Abort("two_failures")
         ELSE /\ remaining' = remaining - 1
              /\ attached' = attached \ {u}
              /\ batch' = [batch EXCEPT ![c] = Tail(@)]
              /\ outcome' = [outcome EXCEPT
                   ![c] = IF upstream[u] = "failure" THEN "FAILURE_DEPENDENCY" ELSE @]
              /\ UNCHANGED <<status, upstreamVars, latch, pc, call, snap,
                             canceled, waited, aborted>>

(* The end of that loop: an outcome, a timeout or another round.           *)
Decide(c) ==
  LET o == IF outcome[c] = "UNKNOWN" /\ remaining = 0 THEN "SUCCESS" ELSE outcome[c]
  IN  /\ pc[c] = "drain" /\ batch[c] = << >>
      /\ outcome' = [outcome EXCEPT ![c] = o]
      /\ \/ (o # "UNKNOWN" \/ call[c] = "wait_some") /\ Continue(c, "unlock", snap[c])
         \/ o = "UNKNOWN" /\ Continue(c, "poll", snap[c])
      /\ UNCHANGED <<status, upstreamVars, inpollVars, call, batch, canceled,
                     waited, aborted>>

(* Mutant: after a timeout, the state is as it was before.                 *)
UnlockedWaiting(c) ==
  LET s == [CountDec(snap[c], Policy(c)) EXCEPT !.notify_event_or_lazy_lock = FALSE]
  IN  IF outcome[c] = "UNKNOWN" THEN [s EXCEPT !.state = "WAITING", !.outcome = "UNKNOWN"]
      ELSE [s EXCEPT !.state = "RESULT", !.outcome = outcome[c]]

(* The word that gives the lock back.                                      *)
Unlocked(c) ==
  LET s == [CountDec(snap[c], Policy(c)) EXCEPT !.notify_event_or_lazy_lock = FALSE]
  IN  IF outcome[c] = "UNKNOWN" THEN s
      ELSE [s EXCEPT !.state = "RESULT", !.outcome = outcome[c]]

(* Mutant: the next waiter is not woken.                                   *)
AfterUnlockQuiet(c) ==
  LET s == Unlocked(c)
  IN  IF s.downstream_count = 0 \/ outcome[c] \in {"FAILURE_CANCELED", "UNKNOWN"} THEN "return"
      ELSE IF s.notify_address THEN "notify_all" ELSE "notify_latch"

(* Whom the holder has to notify then.                                     *)
AfterUnlock(c) ==
  LET s == Unlocked(c)
  IN  CASE s.downstream_count = 0 \/ outcome[c] = "FAILURE_CANCELED" -> "return"
        [] s.downstream_count # 0 /\ outcome[c] \notin {"FAILURE_CANCELED", "UNKNOWN"}
             -> IF s.notify_address THEN "notify_all" ELSE "notify_latch"
        [] OTHER -> IF s.notify_address THEN "notify_one" ELSE "return"

UnlockSwap(c) ==
  /\ pc[c] = "unlock"
  /\ status = snap[c]
  /\ status' = Unlocked(c)
  /\ IF AfterUnlock(c) = "return"
     THEN WaitOver(c, Unlocked(c))
     ELSE Continue(c, AfterUnlock(c), Unlocked(c)) /\ UNCHANGED <<call, waited>>
  /\ outcome' = [outcome EXCEPT ![c] = "UNKNOWN"]
  /\ UNCHANGED <<upstreamVars, inpollVars, batch, canceled, aborted>>

UnlockRetry(c) ==
  /\ pc[c] = "unlock"
  /\ status # snap[c]
  /\ Continue(c, "unlock", status)
  /\ UNCHANGED <<status, upstreamVars, inpollVars, call, localVars, canceled,
                 waited, aborted>>

(* wake_by_address_all() and wake_by_address_single() on the status word.  *)
WakeAll(woken) ==
  pc' = [d \in Clients |-> IF pc[d] = "asleep" THEN "check" ELSE woken[d]]

NotifyAll(c) ==
  /\ pc[c] = "notify_all"
  /\ WakeAll([pc EXCEPT ![c] = "notify_latch"])
  /\ UNCHANGED <<status, upstreamVars, inpollVars, call, snap, localVars,
                 canceled, waited, aborted>>

(* event_signal(inpoll_latch), after which future_wait_join() returns.     *)
NotifyLatch(c) ==
  /\ pc[c] = "notify_latch"
  /\ latch' = TRUE
  /\ WaitOver(c, snap[c])
  /\ UNCHANGED <<status, upstreamVars, attached, remaining, localVars, canceled,
                 aborted>>

NotifyOne(c) ==
  /\ pc[c] = "notify_one"
  /\ \/ \E d \in Clients :
          /\ pc[d] = "asleep"
          /\ pc' = [pc EXCEPT ![c] = "idle", ![d] = "check"]
     \/ /\ \A d \in Clients : pc[d] # "asleep"
        /\ pc' = [pc EXCEPT ![c] = "idle"]
  /\ snap' = [snap EXCEPT ![c] = ZeroStatus]
  /\ call' = [call EXCEPT ![c] = "none"]
  /\ waited' = (waited \/ snap[c].state = "RESULT")
  /\ UNCHANGED <<status, upstreamVars, inpollVars, localVars, canceled, aborted>>

-----------------------------------------------------------------------------
(* udipe_cancel().                                                         *)

(* `s' is the latest known status.  A plain udipe_cancel() that finds an   *)
(* outcome at once returns false and changes nothing.                      *)
CancelOver(c, k, s) ==
  IF k = "cancel_finish"
  THEN Continue(c, "retire", s) /\ UNCHANGED call
  ELSE Return(c)

Cancel(c, k) ==
  /\ IF k = "cancel_finish" THEN MayFinish(c) ELSE MayCall(c)
  /\ \/ /\ status.outcome = "UNKNOWN"
        /\ call' = [call EXCEPT ![c] = k]
        /\ Continue(c, "cancel", status)
     \/ /\ status.outcome # "UNKNOWN" /\ k = "cancel_finish"
        /\ call' = [call EXCEPT ![c] = k]
        /\ Continue(c, "retire", status)
  /\ UNCHANGED <<status, upstreamVars, inpollVars, localVars, canceled, waited,
                 aborted>>

CancelSwap(c) ==
  LET desired == [snap[c] EXCEPT
                    !.outcome = "FAILURE_CANCELED",
                    !.state = IF UsesWorkerThread(snap[c].type) THEN "CANCELING" ELSE "RESULT"]
  IN  /\ pc[c] = "cancel"
      /\ status = snap[c]
      /\ status' = desired
      /\ canceled' = TRUE
      /\ IF desired.downstream_count = 0
         THEN CancelOver(c, call[c], desired)
         ELSE Continue(c, "cancel_latch", desired) /\ UNCHANGED call
      /\ UNCHANGED <<upstreamVars, inpollVars, localVars, waited, aborted>>

CancelRetry(c) ==
  /\ pc[c] = "cancel"
  /\ status # snap[c]
  /\ IF status.outcome = "UNKNOWN"
     THEN Continue(c, "cancel", status) /\ UNCHANGED call
     ELSE CancelOver(c, call[c], status)
  /\ UNCHANGED <<status, upstreamVars, inpollVars, localVars, canceled, waited,
                 aborted>>

CancelLatch(c) ==
  /\ pc[c] = "cancel_latch"
  /\ latch' = TRUE
  /\ IF snap[c].notify_address
     THEN Continue(c, "cancel_wake", snap[c]) /\ UNCHANGED call
     ELSE CancelOver(c, call[c], snap[c])
  /\ UNCHANGED <<status, upstreamVars, attached, remaining, localVars, canceled,
                 waited, aborted>>

(* Only a cancelation without `finish` meets other threads in the library. *)
CancelWake(c) ==
  /\ pc[c] = "cancel_wake"
  /\ WakeAll([pc EXCEPT ![c] = IF call[c] = "cancel_finish" THEN "retire" ELSE "idle"])
  /\ call' = [call EXCEPT ![c] = IF @ = "cancel_finish" THEN @ ELSE "none"]
  /\ snap' = [snap EXCEPT ![c] = IF call[c] = "cancel_finish" THEN @ ELSE ZeroStatus]
  /\ UNCHANGED <<status, upstreamVars, inpollVars, localVars, canceled, waited,
                 aborted>>

-----------------------------------------------------------------------------
(* udipe_finish() and future_finish().                                     *)

Finish(c) ==
  /\ MayFinish(c)
  /\ call' = [call EXCEPT ![c] = "finish"]
  /\ Continue(c, "retire", status)
  /\ UNCHANGED <<status, upstreamVars, inpollVars, localVars, canceled, waited,
                 aborted>>

(* The first round of the loop that clears `available`: the caller is      *)
(* alone, so the swap succeeds.                                            *)
RetireSwap(c) ==
  /\ pc[c] = "retire"
  /\ status = snap[c]
  /\ IF snap[c].downstream_count # 0
     THEN Abort("still_used")
     ELSE /\ status' = [snap[c] EXCEPT !.available = FALSE]
          /\ Continue(c, IF snap[c].state = "RESULT" THEN "collect" ELSE "wait",
                      [snap[c] EXCEPT !.available = FALSE])
          /\ UNCHANGED <<upstreamVars, inpollVars, call, localVars, canceled,
                         waited, aborted>>

FinishWait(c) ==
  /\ pc[c] = "wait"
  /\ Continue(c, IF status.state = "RESULT" THEN "collect" ELSE "register", status)
  /\ UNCHANGED <<status, upstreamVars, inpollVars, call, localVars, canceled,
                 waited, aborted>>

(* Collection of the result and future_liberate(): the upstream futures    *)
(* are let go, the inpoll is closed, the latch event goes to the cache of  *)
(* events as it is, and the word is zeroed.                                *)
Collect(c) ==
  /\ pc[c] = "collect"
  /\ status' = ZeroStatus
  /\ attached' = {}
  /\ remaining' = 0
  /\ Return(c)
  /\ UNCHANGED <<upstreamVars, latch, localVars, canceled, waited, aborted>>

-----------------------------------------------------------------------------
HolderStep(c) ==
  \/ PollEvents(c) \/ DrainLatch(c) \/ DrainPending(c) \/ DrainReady(c)
  \/ Decide(c) \/ UnlockRetry(c)

ClientSwap(c) ==
  WaitRegister(c) \/ UnlockSwap(c) \/ CancelSwap(c) \/ RetireSwap(c)

ClientStep(c) ==
  \/ ClientSwap(c) \/ HolderStep(c)
  \/ WaitRejected(c) \/ WaitRegisterRetry(c)
  \/ FutexWait(c) \/ CheckWoken(c) \/ WaitRelease(c)
  \/ NotifyAll(c) \/ NotifyLatch(c) \/ NotifyOne(c)
  \/ CancelRetry(c) \/ CancelLatch(c) \/ CancelWake(c)
  \/ FinishWait(c) \/ Collect(c)

ClientCall(c) ==
  \/ \E t \in WaitKinds : Wait(c, t)
  \/ \E k \in CancelCalls : Cancel(c, k)
  \/ Finish(c)

KernelReturn(c) ==
  \/ FutexSpurious(c) \/ FutexInterrupted(c)
  \/ PollExpires(c) \/ PollInterrupted(c)

UpstreamStep(u) == UpstreamSettles(u) \/ UpstreamSignals(u)

Next ==
  /\ aborted = "no"
  /\ \/ \E c \in Clients : ClientCall(c) \/ ClientStep(c) \/ KernelReturn(c)
     \/ \E u \in Upstreams : UpstreamStep(u)

Spec == Init /\ [][Next]_vars

(***************************************************************************)
(* Threads are scheduled, the upstream futures are settled and their       *)
(* descriptors become readable.  As in CustomFuture a compare-and-swap     *)
(* loop ends, and neither new calls nor timeouts, signals and spurious     *)
(* wakeups can be relied upon.                                             *)
(***************************************************************************)
Fairness ==
  /\ \A c \in Clients : /\ WF_vars(aborted = "no" /\ ClientStep(c))
                        /\ SF_vars(aborted = "no" /\ ClientSwap(c))
  /\ \A u \in Upstreams : /\ WF_vars(aborted = "no" /\ UpstreamSettles(u))
                          /\ WF_vars(aborted = "no" /\ UpstreamSignals(u))

FairSpec == Spec /\ Fairness

-----------------------------------------------------------------------------
(* Safety.                                                                 *)

(***************************************************************************)
(* The lazy lock is a lock: whenever its bit is set, one thread and no     *)
(* more is between the swap that set it and the swap that clears it, so    *)
(* the inpoll and `remaining` have a single user.                          *)
(***************************************************************************)
LazyLockExclusive ==
  Cardinality({c \in Clients : pc[c] \in LockLocs}) =
    (IF status.notify_event_or_lazy_lock THEN 1 ELSE 0)

(***************************************************************************)
(* `remaining` survives timeouts, handovers of the lock and batches of     *)
(* identifiers: it is the number of upstream futures that no lock holder   *)
(* has dealt with, and the ones dealt with are settled and detached.       *)
(***************************************************************************)
RemainingExact ==
  status # ZeroStatus =>
    /\ remaining = Cardinality(attached)
    /\ \A u \in Upstreams \ attached : upstream[u] # "pending"

(***************************************************************************)
(* The lazy lock does its work: it has one holder, and what that holder    *)
(* keeps in the future survives the handover to the next one.              *)
(***************************************************************************)
LockProtectsState == LazyLockExclusive /\ RemainingExact

(***************************************************************************)
(* The outcome is justified: success only if every upstream future has     *)
(* succeeded, a dependency failure only if one has failed, a cancelation   *)
(* only if a caller of udipe_cancel() was told so.                         *)
(***************************************************************************)
OutcomeJustified ==
  /\ status.outcome = "SUCCESS" => \A u \in Upstreams : upstream[u] = "success"
  /\ status.outcome = "FAILURE_DEPENDENCY" => \E u \in Upstreams : upstream[u] = "failure"
  /\ status.outcome = "FAILURE_CANCELED" => canceled

(***************************************************************************)
(* Nobody is left asleep: a thread in the futex queue has a lock holder to *)
(* wait for, or somebody is about to wake it, or a thread that was woken   *)
(* instead of it is on its way to take the lock.                           *)
(***************************************************************************)
Responsible(d) ==
  pc[d] \in LockLocs \cup {"register", "check", "notify_all", "notify_one",
                          "cancel_latch", "cancel_wake"}

NobodyStranded ==
  \A c \in Clients : pc[c] = "asleep" => \E d \in Clients : Responsible(d)

(***************************************************************************)
(* downstream_count never falls short of the number of threads that are    *)
(* registered, so that a premature udipe_finish() is always noticed.       *)
(***************************************************************************)
Registers(c) ==
  /\ pc[c] \in LockLocs \cup {"futex", "asleep", "check", "release"}
  /\ call[c] \in WaitCalls

CountNeverShort ==
  status.downstream_count >= Cardinality({c \in Clients : Registers(c)})

(* After a udipe_wait() that returned true, udipe_finish() does not block. *)
TrueWaitMeansNoBlocking ==
  waited => \A c \in Clients :
    ~(call[c] \in FinishCalls /\ pc[c] \in {"wait", "register", "futex", "asleep"} \cup LockLocs)

(***************************************************************************)
(* The remaining assertions of the wait, cancel and finish paths hold,     *)
(* those about stale copies of the status word included, and the lock      *)
(* holder reads the latch only after a cancelation.                        *)
(***************************************************************************)
ClientAsserts(c) ==
  /\ pc[c] # "idle" => DebugCheck(snap[c], TRUE) /\ DebugCheck(status, TRUE)
  /\ pc[c] = "register" =>
       /\ snap[c].state # "RESULT"
       /\ CountIncAllowed(snap[c], Policy(c)) => DebugCheck(Registered(c), TRUE)
  /\ pc[c] = "futex" =>
       /\ snap[c].state # "RESULT"
       /\ snap[c].notify_event_or_lazy_lock /\ snap[c].notify_address
  /\ pc[c] = "release" => CountDecAllowed(status, Policy(c))
  /\ pc[c] = "poll" => snap[c].outcome = "UNKNOWN"
  /\ pc[c] = "drain" /\ batch[c] # << >> /\ Head(batch[c]) # Latch => remaining >= 1
  /\ pc[c] = "unlock" =>
       /\ snap[c].notify_event_or_lazy_lock
       /\ CountDecAllowed(snap[c], Policy(c))
       /\ DebugCheck(Unlocked(c), TRUE)
  /\ pc[c] = "cancel" => snap[c].state = "WAITING"
  /\ pc[c] = "retire" => snap[c] = status
  /\ pc[c] = "collect" =>
       snap[c].state = "RESULT" /\ snap[c].outcome \notin {"UNKNOWN", "FAILURE_INTERNAL"}

AssertsHold ==
  /\ \A c \in Clients : ClientAsserts(c)
  /\ aborted # "latch_read"

(***************************************************************************)
(* What the calls know agrees: the types, the assertions on their copies   *)
(* of the status word, fresh or stale, and what a wait that returned true  *)
(* has promised to the finish that follows it.                             *)
(***************************************************************************)
CallsConsistent == TypeOK /\ AssertsHold /\ TrueWaitMeansNoBlocking

(* STATE_RESULT is only left by liberation.                                *)
ResultIsFinal ==
  [][status.state = "RESULT" => status'.state = "RESULT" \/ status' = ZeroStatus]_vars

-----------------------------------------------------------------------------
(* Liveness: a udipe_wait() without a time limit returns, whoever holds    *)
(* the lock and gives it up meanwhile.                                     *)
WaitReturns ==
  \A c \in Clients :
    (call[c] = "wait_max") ~> (pc[c] = "idle" \/ aborted # "no")
=============================================================================
