----------------------------- MODULE TimerFuture ----------------------------
(***************************************************************************)
(* One single-shot timer future (TYPE_TIMER_ONCE): client threads wait for *)
(* it, cancel it and finish it (src/src/future.c), and the thread that     *)
(* sees the timer expire settles the future, since no worker is there to   *)
(* do it (future_wait_timer_once() in src/src/future/wait.c).  A canceler  *)
(* wakes the waiters by moving the deadline of the timer into the past, so *)
(* that an expired timer may mean either of two things.                    *)
(*                                                                         *)
(* udipe_start_timer_once() is declared but not written yet: StartTimer    *)
(* stands for it, with the only status word that debug builds accept for a *)
(* new future of this type.  Each step performs at most one access to the  *)
(* status word or the timer; memory is sequentially consistent.  A signal  *)
(* that interrupts ppoll() before the time is over is a stuttering step.   *)
(***************************************************************************)
EXTENDS FutureStatus, FiniteSets

CONSTANT Clients      \* application threads

ASSUME TimerClientsAssumption == IsFiniteSet(Clients)

VARIABLES
  status,    \* the atomic status word
  deadline,  \* what the timer is set to: "none", "user" or "past"
  readable,  \* the timer has expired, ppoll() reports POLLIN
  reached,   \* the clock has passed the deadline that the user gave
  pc,        \* where each client is
  call,      \* the latest call of each client in this life of the future
  snap,      \* latest_status, the client's copy of the word
  ret,       \* what that call returned
  givenUp,   \* how many waits of this life gave up, a history variable
  exited     \* exit() was called

timerVars == <<deadline, readable>>
vars == <<status, timerVars, reached, pc, call, snap, ret, givenUp, exited>>

WaitCalls   == {"wait_some", "wait_max"}   \* a finite timeout (0 included), none
CancelCalls == {"cancel", "cancel_finish"}
FinishCalls == {"finish", "cancel_finish"}

Locs == {"idle",     \* outside of the library
         "inc",      \* about to increment downstream_count
         "revert",   \* incremented it too late, about to decrement it again
         "poll",     \* in ppoll()
         "publish",  \* CAS loop of future_wait_timer_once()
         "cancel",   \* CAS loop of udipe_cancel()
         "rearm",    \* about to call timer_set_once()
         "retire",   \* CAS loop of future_finish()
         "wait",     \* future_finish() is calling future_wait()
         "collect"}  \* about to liberate the future

NewTimerStatus == [ZeroStatus EXCEPT !.available = TRUE, !.state = "PROCESSING",
                                     !.type = "TIMER_ONCE"]

TypeOK ==
  /\ status \in Statuses
  /\ exited \/ CountInRange(status)
  /\ deadline \in {"none", "user", "past"} /\ readable \in BOOLEAN
  /\ reached \in BOOLEAN /\ exited \in BOOLEAN /\ givenUp \in Nat
  /\ pc \in [Clients -> Locs]
  /\ call \in [Clients -> WaitCalls \cup CancelCalls \cup FinishCalls \cup {"none"}]
  /\ snap \in [Clients -> Statuses]
  /\ ret \in [Clients -> {"none", "true", "false"}]

Init ==
  /\ status = ZeroStatus
  /\ deadline = "none" /\ readable = FALSE
  /\ reached = FALSE /\ exited = FALSE /\ givenUp = 0
  /\ pc = [c \in Clients |-> "idle"]
  /\ call = [c \in Clients |-> "none"]
  /\ snap = [c \in Clients |-> ZeroStatus]
  /\ ret = [c \in Clients |-> "none"]

-----------------------------------------------------------------------------
(* The timer and the clock.                                                *)

(* The timer is armed, and no longer expired if it was.                    *)
timer_set_once(d) == deadline' = d /\ readable' = FALSE

(* The future comes out of the allocator with a new timer, set to the      *)
(* deadline of the user.                                                   *)
StartTimer ==
  /\ status = ZeroStatus
  /\ status' = NewTimerStatus
  /\ timer_set_once("user")
  /\ reached' \in BOOLEAN
  /\ givenUp' = 0
  /\ call' = [c \in Clients |-> "none"] /\ ret' = [c \in Clients |-> "none"]
  /\ UNCHANGED <<pc, snap, exited>>

ReachDeadline ==
  /\ status # ZeroStatus /\ ~reached
  /\ reached' = TRUE
  /\ UNCHANGED <<status, timerVars, pc, call, snap, ret, givenUp, exited>>

TimerExpires ==
  /\ ~readable
  /\ deadline = "past" \/ (deadline = "user" /\ reached)
  /\ readable' = TRUE
  /\ UNCHANGED <<status, deadline, reached, pc, call, snap, ret, givenUp, exited>>

-----------------------------------------------------------------------------
(* Steps common to the calls, and the lifetime rules of                    *)
(* include/udipe/future.h.                                                 *)

Policy(c) == IF call[c] \in WaitCalls THEN "CYCLE" ELSE "KEEP"

Continue(c, loc, s) ==
  /\ pc' = [pc EXCEPT ![c] = loc]
  /\ snap' = [snap EXCEPT ![c] = s]

Return(c, v) ==
  /\ Continue(c, "idle", ZeroStatus)
  /\ ret' = [ret EXCEPT ![c] = v]

Enter(c, k) ==
  /\ pc[c] = "idle"
  /\ status.available
  /\ IF k \in FinishCalls THEN \A d \in Clients : pc[d] = "idle"
     ELSE \A d \in Clients : pc[d] # "idle" => call[d] \notin FinishCalls
  /\ call' = [call EXCEPT ![c] = k]

-----------------------------------------------------------------------------
(* udipe_wait(), and the wait inside future_finish().                      *)

Wait(c, t) ==
  /\ Enter(c, t)
  /\ \/ status.state = "RESULT" /\ Return(c, "true")
     \/ /\ status.state # "RESULT"
        /\ Continue(c, "inc", status)
        /\ ret' = [ret EXCEPT ![c] = "none"]
  /\ UNCHANGED <<status, timerVars, reached, givenUp, exited>>

(* future_downstream_count_try_inc(): an unconditional increment, after    *)
(* which the program exits if the count was at its limit...                *)
TryInc(c) ==
  /\ pc[c] = "inc"
  /\ status' = CountInc(status, "CYCLE")
  /\ exited' = (status.downstream_count = MAX_DOWNSTREAM_COUNT)
  /\ Continue(c, IF status.state = "RESULT" THEN "revert" ELSE "poll", status')
  /\ UNCHANGED <<timerVars, reached, call, ret, givenUp>>

(* ... and which is taken back if the future is ready.                     *)
TryIncRevert(c) ==
  /\ pc[c] = "revert"
  /\ status' = CountDec(status, "CYCLE")
  /\ Return(c, "true")
  /\ UNCHANGED <<timerVars, reached, call, givenUp, exited>>

(* ppoll() returns 1.                                                      *)
PollReady(c) ==
  /\ pc[c] = "poll"
  /\ readable
  /\ Continue(c, "publish", snap[c])
  /\ UNCHANGED <<status, timerVars, reached, call, ret, givenUp, exited>>

(* ppoll() returns 0, since the timer did not expire in time, or EINTR     *)
(* when the stopwatch says that the time is over (then the timer may well  *)
(* have expired).  The reference is not given back.                        *)
PollGivesUp(c) ==
  /\ pc[c] = "poll"
  /\ call[c] = "wait_some"
  /\ Return(c, "false")
  /\ givenUp' = givenUp + 1
  /\ UNCHANGED <<status, timerVars, reached, call, exited>>

(* Mutant: the outcome is set whatever it was.                             *)
SettledOverriding(s, policy) ==
  [CountDec(s, policy) EXCEPT !.state = "RESULT", !.outcome = "SUCCESS"]

(* The word that the thread which saw the timer expire wants to install.   *)
Settled(s, policy) ==
  [CountDec(s, policy) EXCEPT !.state = "RESULT",
                              !.outcome = IF @ = "UNKNOWN" THEN "SUCCESS" ELSE @]

(* The CAS loop: the word is as desired already, or is installed...        *)
Publish(c) ==
  LET desired == Settled(snap[c], Policy(c))
  IN  /\ pc[c] = "publish"
      /\ \/ desired = snap[c] /\ UNCHANGED status
         \/ desired # snap[c] /\ status = snap[c] /\ status' = desired
      /\ IF call[c] \in WaitCalls THEN Return(c, "true")
         ELSE Continue(c, "collect", desired) /\ UNCHANGED ret
      /\ UNCHANGED <<timerVars, reached, call, givenUp, exited>>

(* ... or it changed since it was read.                                    *)
PublishRetry(c) ==
  /\ pc[c] = "publish"
  /\ Settled(snap[c], Policy(c)) # snap[c] /\ status # snap[c]
  /\ Continue(c, "publish", status)
  /\ UNCHANGED <<status, timerVars, reached, call, ret, givenUp, exited>>

-----------------------------------------------------------------------------
(* udipe_cancel().                                                         *)

CancelVerdict(c, k, verdict, s) ==
  /\ ret' = [ret EXCEPT ![c] = verdict]
  /\ IF k = "cancel_finish" THEN Continue(c, "retire", s)
     ELSE Continue(c, "idle", ZeroStatus)

Cancel(c, k) ==
  /\ Enter(c, k)
  /\ IF status.outcome = "UNKNOWN"
     THEN Continue(c, "cancel", status) /\ ret' = [ret EXCEPT ![c] = "none"]
     ELSE CancelVerdict(c, k, "false", status)
  /\ UNCHANGED <<status, timerVars, reached, givenUp, exited>>

(* The future is ready at once; the waiters, if any, must be told.         *)
CancelSwap(c) ==
  LET desired == [snap[c] EXCEPT !.outcome = "FAILURE_CANCELED", !.state = "RESULT"]
  IN  /\ pc[c] = "cancel"
      /\ status = snap[c]
      /\ status' = desired
      /\ IF desired.downstream_count = 0
         THEN CancelVerdict(c, call[c], "true", desired)
         ELSE Continue(c, "rearm", desired) /\ UNCHANGED ret
      /\ UNCHANGED <<timerVars, reached, call, givenUp, exited>>

(* Mutant: the loop does not look at the outcome again.                    *)
CancelRetryBlind(c) ==
  /\ pc[c] = "cancel"
  /\ status # snap[c]
  /\ Continue(c, "cancel", status)
  /\ UNCHANGED <<status, timerVars, reached, call, ret, givenUp, exited>>

CancelRetry(c) ==
  /\ pc[c] = "cancel"
  /\ status # snap[c]
  /\ IF status.outcome = "UNKNOWN"
     THEN Continue(c, "cancel", status) /\ UNCHANGED ret
     ELSE CancelVerdict(c, call[c], "false", status)
  /\ UNCHANGED <<status, timerVars, reached, call, givenUp, exited>>

(* Mutant: the timer keeps its deadline.                                   *)
CancelRearmNot(c) ==
  /\ pc[c] = "rearm"
  /\ CancelVerdict(c, call[c], "true", snap[c])
  /\ UNCHANGED <<status, timerVars, reached, call, givenUp, exited>>

(* The deadline moves to one second ago: the timer expires again at once.  *)
CancelRearm(c) ==
  /\ pc[c] = "rearm"
  /\ timer_set_once("past")
  /\ CancelVerdict(c, call[c], "true", snap[c])
  /\ UNCHANGED <<status, reached, call, givenUp, exited>>

-----------------------------------------------------------------------------
(* udipe_finish() and future_finish().                                     *)

Finish(c) ==
  /\ Enter(c, "finish")
  /\ Continue(c, "retire", status)
  /\ ret' = [ret EXCEPT ![c] = "none"]
  /\ UNCHANGED <<status, timerVars, reached, givenUp, exited>>

(* The CAS loop that clears `available`: whoever finishes is alone with    *)
(* the future, so that no swap is lost.                                    *)
Retire(c) ==
  /\ pc[c] = "retire"
  /\ status = snap[c]
  /\ status' = [snap[c] EXCEPT !.available = FALSE]
  /\ Continue(c, IF snap[c].state = "RESULT" THEN "collect" ELSE "wait", status')
  /\ UNCHANGED <<timerVars, reached, call, ret, givenUp, exited>>

FinishWait(c) ==
  /\ pc[c] = "wait"
  /\ Continue(c, IF status.state = "RESULT" THEN "collect" ELSE "poll", status)
  /\ UNCHANGED <<status, timerVars, reached, call, ret, givenUp, exited>>

(* future_liberate(), which destroys the timer.                            *)
Collect(c) ==
  /\ pc[c] = "collect"
  /\ status' = ZeroStatus
  /\ deadline' = "none" /\ readable' = FALSE /\ reached' = FALSE
  /\ Continue(c, "idle", ZeroStatus)
  /\ UNCHANGED <<call, ret, givenUp, exited>>

-----------------------------------------------------------------------------
ClientCall(c) ==
  \/ \E t \in WaitCalls : Wait(c, t)
  \/ \E k \in CancelCalls : Cancel(c, k)
  \/ Finish(c)

ClientStep(c) ==
  \/ TryInc(c) \/ TryIncRevert(c) \/ PollReady(c) \/ Publish(c) \/ PublishRetry(c)
  \/ CancelSwap(c) \/ CancelRetry(c) \/ CancelRearm(c)
  \/ Retire(c) \/ FinishWait(c) \/ Collect(c)

Next ==
  /\ ~exited
  /\ \/ StartTimer \/ ReachDeadline \/ TimerExpires
     \/ \E c \in Clients : ClientCall(c) \/ ClientStep(c) \/ PollGivesUp(c)

Spec == Init /\ [][Next]_vars

(***************************************************************************)
(* Threads are scheduled and the kernel lets a timer expire when it is     *)
(* due.  That the clock ever gets to the user's deadline is not assumed.   *)
(* The swap loops need no strong fairness: the word of a timer changes a   *)
(* bounded number of times.                                                *)
(***************************************************************************)
Fairness ==
  /\ WF_vars(~exited /\ TimerExpires)
  /\ \A c \in Clients : WF_vars(~exited /\ ClientStep(c))

FairSpec == Spec /\ Fairness

-----------------------------------------------------------------------------
(***************************************************************************)
(* A timer future succeeds only after its deadline, although a canceler    *)
(* makes the timer expire early under waiters whose copy of the status     *)
(* word is older than the cancelation.                                     *)
(***************************************************************************)
SuccessOnlyAfterDeadline == status.outcome = "SUCCESS" => reached

(***************************************************************************)
(* An accepted udipe_cancel() stands, whoever sees the timer expire at the *)
(* same time, and is accepted once.                                        *)
(***************************************************************************)
Accepted(c) == call[c] \in CancelCalls /\ ret[c] = "true"

CancelVerdictStands ==
  \A c \in Clients : Accepted(c) =>
    /\ status = ZeroStatus \/ status.outcome = "FAILURE_CANCELED"
    /\ \A d \in Clients : Accepted(d) => c = d

(***************************************************************************)
(* After a udipe_wait() that returned true, udipe_finish() does not block  *)
(* ("guaranteed to return a result immediately without blocking").         *)
(***************************************************************************)
TrueWaitMeansNoBlocking ==
  \A c, d \in Clients :
    (call[c] \in WaitCalls /\ ret[c] = "true") =>
      ~(call[d] \in FinishCalls /\ pc[d] \in {"wait", "poll"})

(***************************************************************************)
(* No assert() or ensure() on the stale and fresh copies of the status     *)
(* word fires in any interleaving in which no wait has given up.  A wait   *)
(* that gives up keeps its reference, which status_ops.h does not allow    *)
(* and the assertions of a later udipe_finish() do not survive.            *)
(***************************************************************************)
ClientAsserts(c) ==
  /\ pc[c] # "idle" => DebugCheck(snap[c], TRUE) /\ DebugCheck(status, TRUE)
  /\ pc[c] = "revert" => status.state = "RESULT" /\ status.downstream_count >= 1
  /\ pc[c] = "publish" =>
       /\ CountDecAllowed(snap[c], Policy(c))
       /\ DebugCheck(Settled(snap[c], Policy(c)), TRUE)
  /\ pc[c] = "cancel" => snap[c].state \in {"WAITING", "PROCESSING"}
  /\ pc[c] = "retire" => snap[c].downstream_count = 0 /\ snap[c].available
  /\ pc[c] = "collect" => /\ snap[c].state = "RESULT" /\ snap[c].outcome # "UNKNOWN"
                          /\ status.downstream_count = 0 /\ ~status.available

AssertsHold == givenUp = 0 => ~exited /\ \A c \in Clients : ClientAsserts(c)

(***************************************************************************)
(* What the calls of one life know agrees: the types (with the count in    *)
(* range, unless the program exited), the assertions on their copies, and  *)
(* what a wait has promised to the finish that follows it.                 *)
(***************************************************************************)
CallsConsistent == TypeOK /\ AssertsHold /\ TrueWaitMeansNoBlocking

(***************************************************************************)
(* The outcome means what it says, although an expired timer may mean the  *)
(* deadline or a cancelation: success only after the deadline, and an      *)
(* accepted cancelation for good.                                          *)
(***************************************************************************)
OutcomeJustified == SuccessOnlyAfterDeadline /\ CancelVerdictStands

(***************************************************************************)
(* Once the deadline is reached or the future is canceled, every wait      *)
(* without a time limit and every udipe_finish() returns, unless the       *)
(* program exits for want of references.  A canceler that wakes the        *)
(* waiters through the timer leaves none of them in ppoll().               *)
(***************************************************************************)
ReadyWaitsReturn ==
  \A c \in Clients :
    (pc[c] # "idle" /\ (reached \/ status.state = "RESULT")) ~> (pc[c] = "idle" \/ exited)
=============================================================================
