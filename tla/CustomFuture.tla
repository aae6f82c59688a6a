---------------------------- MODULE CustomFuture ----------------------------
(***************************************************************************)
(* The life of one custom future: the object that udipe_start_custom()     *)
(* returns, that client threads wait for, cancel and finish, and that the  *)
(* worker thread in charge of the custom operation settles                 *)
(* (src/src/future.c, src/src/future/wait.c).  The future is recycled: a   *)
(* finished future goes back to the allocator and may be started again,    *)
(* while the worker of its previous life is still on its way out.          *)
(*                                                                         *)
(* Each step of a thread performs at most one access to the status word    *)
(* (load, compare-and-swap, fetch-and-subtract, futex operation), so that  *)
(* all interleavings of the threads are explored.  A spurious failure of a *)
(* weak compare-and-swap leaves `expected` as it was and is a stuttering   *)
(* step.  Memory is sequentially consistent.                               *)
(*                                                                         *)
(* An assert(), ensure() or exit_with_error() of the code ends the         *)
(* process.  AssertsHold collects their conditions at the steps where the  *)
(* code evaluates them; no action is guarded by them.                      *)
(***************************************************************************)
EXTENDS FutureStatus, FiniteSets

CONSTANTS
  Clients,      \* application threads that call udipe_wait/cancel/finish
  Workers,      \* threads that run custom operations
  Payloads,     \* values of udipe_custom_payload_t
  NoPayload     \* custom_payload before its first use

ASSUME ClientsAssumption == IsFiniteSet(Clients)

ASSUME PayloadAssumption == NoPayload \notin Payloads

(* 65535 threads at most may wait: beyond that, ensure_lt() in             *)
(* prepare_downstream_count_inc() ends the process.                        *)
ASSUME CapacityAssumption == Cardinality(Clients) <= MAX_DOWNSTREAM_COUNT

VARIABLES
  status,     \* the atomic status word of the future
  payload,    \* future->specific.custom_payload
  pc,         \* where each client thread is
  call,       \* the latest API call of each client
  snap,       \* latest_status, the client's local copy of the status word
  ret,        \* what that call returned for the current life of the future
  delivered,  \* the result that udipe_finish() returned, if it did
  wpc,        \* where each worker thread is
  wsnap,      \* the worker's local copy of the status word
  args        \* what this life's udipe_custom_try_set_result() was passed

clientVars == <<pc, call, snap, ret>>
workerVars == <<wpc, wsnap>>
vars == <<status, payload, clientVars, delivered, workerVars, args>>

-----------------------------------------------------------------------------
(* API calls.  wait_min, wait_some and wait_max are udipe_wait() with a    *)
(* timeout of UDIPE_DURATION_MIN, of some finite duration, and of          *)
(* UDIPE_DURATION_MAX; cancel_finish is udipe_cancel(future, true).        *)

WaitCalls   == {"wait_min", "wait_some", "wait_max"}
CancelCalls == {"cancel", "cancel_finish"}
FinishCalls == {"finish", "cancel_finish"}
Calls       == WaitCalls \cup CancelCalls \cup FinishCalls

(* Program points of a client.                                             *)
ClientLocs == {"idle",      \* outside of the library
               "register",  \* CAS loop of future_wait_eager()
               "futex",     \* about to call FUTEX_WAIT
               "asleep",    \* in the futex queue
               "check",     \* FUTEX_WAIT returned 0 or EAGAIN, about to load
               "release",   \* about to decrement downstream_count
               "cancel",    \* CAS loop of udipe_cancel()
               "retire",    \* CAS loop of future_finish()
               "wait",      \* future_finish() is calling future_wait()
               "collect"}   \* about to read the result and liberate

(* Program points of a worker.                                             *)
WorkerLocs == {"idle", "running",
               "told",      \* udipe_custom_canceled() returned true
               "publish",   \* CAS loop of udipe_custom_try_set_result()
               "ack",       \* CAS loop of udipe_custom_acknowledge_cancel()
               "notify"}    \* future_notify_eager_outcome()

NoArgs    == [successful |-> FALSE, payload |-> NoPayload]

Args      == [successful : BOOLEAN, payload : Payloads]
NoResult  == [type |-> "NONE", payload |-> NoPayload]
Results   == [type : {"NONE", "CUSTOM", "FAILURE_CANCELED"},
              payload : Payloads \cup {NoPayload}]

TypeOK ==
  /\ status \in Statuses
  /\ payload \in Payloads \cup {NoPayload}
  /\ pc \in [Clients -> ClientLocs]
  /\ call \in [Clients -> Calls \cup {"none"}]
  /\ snap \in [Clients -> Statuses]
  /\ ret \in [Clients -> {"none", "true", "false"}]
  /\ delivered \in Results
  /\ wpc \in [Workers -> WorkerLocs]
  /\ wsnap \in [Workers -> Statuses]
  /\ args \in Args \cup {NoArgs}

Init ==
  /\ status = ZeroStatus
  /\ payload = NoPayload
  /\ pc = [c \in Clients |-> "idle"]
  /\ call = [c \in Clients |-> "none"]
  /\ snap = [c \in Clients |-> ZeroStatus]
  /\ ret = [c \in Clients |-> "none"]
  /\ delivered = NoResult
  /\ wpc = [w \in Workers |-> "idle"]
  /\ wsnap = [w \in Workers |-> ZeroStatus]
  /\ args = NoArgs

-----------------------------------------------------------------------------
(* Steps common to the client's calls.                                     *)

Policy(c) == IF call[c] \in WaitCalls THEN "CYCLE" ELSE "KEEP"

(* The call goes on at `loc' with `s' as its latest known status.          *)
Continue(c, loc, s) ==
  /\ pc' = [pc EXCEPT ![c] = loc]
  /\ snap' = [snap EXCEPT ![c] = s]

(* The call returns; its locals are dead.                                  *)
Return(c) == Continue(c, "idle", ZeroStatus)

Returning(c, v) == ret' = [ret EXCEPT ![c] = v]

(***************************************************************************)
(* The lifetime rules of include/udipe/future.h.  A future may be waited   *)
(* for or canceled from its start to the beginning of its finish; it may   *)
(* be finished, by udipe_finish() or udipe_cancel(future, true), when      *)
(* every other call on it has returned.                                    *)
(***************************************************************************)
Finishing(c) == pc[c] # "idle" /\ call[c] \in FinishCalls

MayCall(c)   == pc[c] = "idle" /\ status.available /\ \A d \in Clients : ~Finishing(d)

MayFinish(c) == status.available /\ \A d \in Clients : pc[d] = "idle"

-----------------------------------------------------------------------------
(* udipe_start_custom(): the future comes out of the allocator, where its  *)
(* status word was zero, and is handed to a worker.  Nobody else knows it  *)
(* before the call returns, so the intermediate word of future_allocate(), *)
(* zero but for the type, is left out.                                     *)
StartCustom(w) ==
  /\ status = ZeroStatus
  /\ wpc[w] = "idle"
  /\ status' = InitialCustomStatus
  /\ wpc' = [wpc EXCEPT ![w] = "running"]
  /\ args' = NoArgs
  /\ delivered' = NoResult
  /\ call' = [c \in Clients |-> "none"]
  /\ ret' = [c \in Clients |-> "none"]
  /\ UNCHANGED <<payload, pc, snap, wsnap>>

-----------------------------------------------------------------------------
(* udipe_wait() and the wait inside future_finish().                       *)

(* future_wait() has seen STATE_RESULT in `s' and did not register.        *)
FoundResult(c, s) ==
  IF Policy(c) = "CYCLE"
  THEN Return(c) /\ Returning(c, "true")
  ELSE Continue(c, "collect", s) /\ UNCHANGED ret

(* Entry of udipe_wait(): first load of future_wait().                     *)
Wait(c, t) ==
  /\ MayCall(c)
  /\ call' = [call EXCEPT ![c] = t]
  /\ \/ /\ status.state = "RESULT"
        /\ Return(c) /\ Returning(c, "true")
     \/ /\ status.state # "RESULT" /\ t = "wait_min"
        /\ Return(c) /\ Returning(c, "false")
     \/ /\ status.state # "RESULT" /\ t # "wait_min"
        /\ Continue(c, "register", status) /\ Returning(c, "none")
  /\ UNCHANGED <<status, payload, delivered, workerVars, args>>

(* The word that future_wait_eager() wants to install.                     *)
Registered(c) == [CountInc(snap[c], Policy(c)) EXCEPT !.notify_address = TRUE]

(* Its CAS loop: the word is already as desired, or is installed...        *)
WaitRegister(c) ==
  /\ pc[c] = "register"
  /\ \/ Registered(c) = snap[c] /\ UNCHANGED status
     \/ Registered(c) # snap[c] /\ status = snap[c] /\ status' = Registered(c)
  /\ Continue(c, "futex", Registered(c))
  /\ UNCHANGED <<payload, call, ret, delivered, workerVars, args>>

(* ... or another thread changed the word since it was loaded.             *)
WaitRegisterRetry(c) ==
  /\ pc[c] = "register"
  /\ Registered(c) # snap[c] /\ status # snap[c]
  /\ IF status.state = "RESULT"
     THEN FoundResult(c, status)
     ELSE Continue(c, "register", status) /\ UNCHANGED ret
  /\ UNCHANGED <<status, payload, call, delivered, workerVars, args>>

(* Mutant: the futex does not compare the word before it sleeps.           *)
FutexWaitUnchecked(c) ==
  /\ pc[c] = "futex"
  /\ Continue(c, "asleep", snap[c])
  /\ UNCHANGED <<status, payload, call, ret, delivered, workerVars, args>>

(* wait_on_address(): the kernel compares the word with the expected one   *)
(* and puts the thread to sleep in one step, or returns EAGAIN.            *)
FutexWait(c) ==
  /\ pc[c] = "futex"
  /\ Continue(c, IF status = snap[c] THEN "asleep" ELSE "check", snap[c])
  /\ UNCHANGED <<status, payload, call, ret, delivered, workerVars, args>>

(* FUTEX_WAIT returns 0 without a notification.                            *)
FutexSpurious(c) ==
  /\ pc[c] = "asleep"
  /\ Continue(c, "check", snap[c])
  /\ UNCHANGED <<status, payload, call, ret, delivered, workerVars, args>>

(* EINTR or ETIMEDOUT: future_wait_by_adress() keeps its old copy of the   *)
(* status and gives up if the stopwatch says that the time is over.        *)
FutexInterrupted(c) ==
  /\ pc[c] = "asleep"
  /\ \/ Continue(c, "futex", snap[c])
     \/ call[c] = "wait_some" /\ Continue(c, "release", snap[c])
  /\ UNCHANGED <<status, payload, call, ret, delivered, workerVars, args>>

(* The load of future_wait_by_adress() after a wakeup.                     *)
CheckWoken(c) ==
  /\ pc[c] = "check"
  /\ \/ /\ status.state = "RESULT"
        /\ Continue(c, IF Policy(c) = "CYCLE" THEN "release" ELSE "collect", status)
     \/ /\ status.state # "RESULT"
        /\ Continue(c, "futex", status)
     \/ /\ status.state # "RESULT" /\ call[c] = "wait_some"
        /\ Continue(c, "release", status)
  /\ UNCHANGED <<status, payload, call, ret, delivered, workerVars, args>>

(* Mutants: a timed out wait keeps its reference; it drops it twice; it    *)
(* reports success.                                                        *)
WaitReleaseLeaks(c) ==
  /\ pc[c] = "release"
  /\ status' = IF status.state = "RESULT" THEN CountDec(status, Policy(c)) ELSE status
  /\ Return(c)
  /\ Returning(c, IF status.state = "RESULT" THEN "true" ELSE "false")
  /\ UNCHANGED <<payload, call, delivered, workerVars, args>>

WaitReleaseTwice(c) ==
  /\ pc[c] = "release"
  /\ status' = CountDec(CountDec(status, Policy(c)), Policy(c))
  /\ Return(c)
  /\ Returning(c, IF status.state = "RESULT" THEN "true" ELSE "false")
  /\ UNCHANGED <<payload, call, delivered, workerVars, args>>

WaitReleaseSucceeds(c) ==
  /\ pc[c] = "release"
  /\ status' = CountDec(status, Policy(c))
  /\ Return(c)
  /\ Returning(c, "true")
  /\ UNCHANGED <<payload, call, delivered, workerVars, args>>

(* future_downstream_count_dec(), whose result decides what udipe_wait()   *)
(* returns.                                                                *)
WaitRelease(c) ==
  /\ pc[c] = "release"
  /\ status' = CountDec(status, Policy(c))
  /\ Return(c)
  /\ Returning(c, IF status.state = "RESULT" THEN "true" ELSE "false")
  /\ UNCHANGED <<payload, call, delivered, workerVars, args>>

-----------------------------------------------------------------------------
(* udipe_cancel().                                                         *)

(* The verdict is known; nobody has to be notified for a custom future     *)
(* since its worker polls.  `s' is the latest known status.                *)
CancelVerdict(c, k, verdict, s) ==
  /\ Returning(c, verdict)
  /\ IF k = "cancel_finish" THEN Continue(c, "retire", s) ELSE Return(c)

Cancel(c, k) ==
  /\ IF k = "cancel_finish" THEN MayFinish(c) ELSE MayCall(c)
  /\ call' = [call EXCEPT ![c] = k]
  /\ \/ /\ status.outcome = "UNKNOWN"
        /\ Continue(c, "cancel", status) /\ Returning(c, "none")
     \/ /\ status.outcome # "UNKNOWN"
        /\ CancelVerdict(c, k, "false", status)
  /\ UNCHANGED <<status, payload, delivered, workerVars, args>>

CancelSwap(c) ==
  LET desired == [snap[c] EXCEPT
                    !.outcome = "FAILURE_CANCELED",
                    !.state = IF UsesWorkerThread(snap[c].type) THEN "CANCELING" ELSE "RESULT"]
  IN  /\ pc[c] = "cancel"
      /\ status = snap[c]
      /\ status' = desired
      /\ CancelVerdict(c, call[c], "true", desired)
      /\ UNCHANGED <<payload, call, delivered, workerVars, args>>

(* Mutant: the loop does not look at the outcome again.                    *)
CancelRetryBlind(c) ==
  /\ pc[c] = "cancel"
  /\ status # snap[c]
  /\ Continue(c, "cancel", status)
  /\ UNCHANGED <<status, payload, call, ret, delivered, workerVars, args>>

CancelRetry(c) ==
  /\ pc[c] = "cancel"
  /\ status # snap[c]
  /\ \/ /\ status.outcome = "UNKNOWN"
        /\ Continue(c, "cancel", status) /\ UNCHANGED ret
     \/ /\ status.outcome # "UNKNOWN"
        /\ CancelVerdict(c, call[c], "false", status)
  /\ UNCHANGED <<status, payload, call, delivered, workerVars, args>>

-----------------------------------------------------------------------------
(* udipe_finish() and future_finish().                                     *)

Finish(c) ==
  /\ MayFinish(c)
  /\ call' = [call EXCEPT ![c] = "finish"]
  /\ Continue(c, "retire", status)
  /\ Returning(c, "none")
  /\ UNCHANGED <<status, payload, delivered, workerVars, args>>

(* Mutant: the outcome, and not the state, says that the result is there.  *)
RetireSwapByOutcome(c) ==
  /\ pc[c] = "retire"
  /\ status = snap[c]
  /\ status' = [snap[c] EXCEPT !.available = FALSE]
  /\ Continue(c, IF snap[c].outcome # "UNKNOWN" THEN "collect" ELSE "wait",
              [snap[c] EXCEPT !.available = FALSE])
  /\ UNCHANGED <<payload, call, ret, delivered, workerVars, args>>

(* The CAS loop that clears `available`.                                   *)
RetireSwap(c) ==
  /\ pc[c] = "retire"
  /\ status = snap[c]
  /\ status' = [snap[c] EXCEPT !.available = FALSE]
  /\ Continue(c, IF snap[c].state = "RESULT" THEN "collect" ELSE "wait",
              [snap[c] EXCEPT !.available = FALSE])
  /\ UNCHANGED <<payload, call, ret, delivered, workerVars, args>>

RetireRetry(c) ==
  /\ pc[c] = "retire"
  /\ status # snap[c]
  /\ Continue(c, "retire", status)
  /\ UNCHANGED <<status, payload, call, ret, delivered, workerVars, args>>

(* future_wait() under DOWNSTREAM_COUNT_KEEP: its first load.              *)
FinishWait(c) ==
  /\ pc[c] = "wait"
  /\ Continue(c, IF status.state = "RESULT" THEN "collect" ELSE "register", status)
  /\ UNCHANGED <<status, payload, call, ret, delivered, workerVars, args>>

(* The result that future_finish() makes of the final status.              *)
ResultOf(s) ==
  IF s.outcome = "FAILURE_CANCELED"
  THEN [type |-> "FAILURE_CANCELED", payload |-> NoPayload]
  ELSE [type |-> "CUSTOM", payload |-> payload]

(* Collection of the result, if wanted, and future_liberate(), which       *)
(* zeroes the whole future before it goes into the thread's cache.         *)
Collect(c) ==
  /\ pc[c] = "collect"
  /\ delivered' = IF call[c] = "finish" THEN ResultOf(snap[c]) ELSE delivered
  /\ status' = ZeroStatus
  /\ payload' = NoPayload
  /\ Return(c)
  /\ UNCHANGED <<call, ret, workerVars, args>>

-----------------------------------------------------------------------------
(* The worker.                                                             *)

WorkerContinue(w, loc, s) ==
  /\ wpc' = [wpc EXCEPT ![w] = loc]
  /\ wsnap' = [wsnap EXCEPT ![w] = s]

(* udipe_custom_canceled() returns true; when it returns false, nothing    *)
(* changes.                                                                *)
CustomCanceled(w) ==
  /\ wpc[w] = "running"
  /\ status.state = "CANCELING"
  /\ WorkerContinue(w, "told", ZeroStatus)
  /\ UNCHANGED <<status, payload, clientVars, delivered, args>>

(* udipe_custom_try_set_result(): the first load, and the payload.         *)
TrySetResult(w, a) ==
  /\ wpc[w] = "running"
  /\ args' = a
  /\ IF status.state = "CANCELING"
     THEN WorkerContinue(w, "told", ZeroStatus) /\ UNCHANGED payload
     ELSE WorkerContinue(w, "publish", status) /\ payload' = a.payload
  /\ UNCHANGED <<status, clientVars, delivered>>

(* Mutant: a plain store instead of the compare-and-swap.                  *)
PublishSwapBlind(w) ==
  LET desired == [wsnap[w] EXCEPT !.state = "RESULT", !.outcome = "SUCCESS"]
  IN  /\ wpc[w] = "publish"
      /\ status' = desired
      /\ WorkerContinue(w, "notify", desired)
      /\ UNCHANGED <<payload, clientVars, delivered, args>>

(* Its CAS loop.  `successful` has no effect on the status.                *)
PublishSwap(w) ==
  LET desired == [wsnap[w] EXCEPT !.state = "RESULT", !.outcome = "SUCCESS"]
  IN  /\ wpc[w] = "publish"
      /\ status = wsnap[w]
      /\ status' = desired
      /\ WorkerContinue(w, "notify", desired)
      /\ UNCHANGED <<payload, clientVars, delivered, args>>

PublishRetry(w) ==
  /\ wpc[w] = "publish"
  /\ status # wsnap[w]
  /\ IF status.state = "CANCELING"
     THEN WorkerContinue(w, "told", ZeroStatus)
     ELSE WorkerContinue(w, "publish", status)
  /\ UNCHANGED <<status, payload, clientVars, delivered, args>>

(* udipe_custom_acknowledge_cancel(): the first load, and the CAS loop.    *)
Acknowledge(w) ==
  /\ wpc[w] = "told"
  /\ WorkerContinue(w, "ack", status)
  /\ UNCHANGED <<status, payload, clientVars, delivered, args>>

AcknowledgeSwap(w) ==
  LET desired == [wsnap[w] EXCEPT !.state = "RESULT"]
  IN  /\ wpc[w] = "ack"
      /\ status = wsnap[w]
      /\ status' = desired
      /\ WorkerContinue(w, "notify", desired)
      /\ UNCHANGED <<payload, clientVars, delivered, args>>

AcknowledgeRetry(w) ==
  /\ wpc[w] = "ack"
  /\ status # wsnap[w]
  /\ WorkerContinue(w, "ack", status)
  /\ UNCHANGED <<status, payload, clientVars, delivered, args>>

(* future_notify_eager_outcome(): whether it calls wake_by_address_all()   *)
(* depends on the worker's copy of the status.  The word may belong to the *)
(* next life of the future by then: whoever sleeps on it is woken.  No     *)
(* code sets notify_event yet, so there is no event to signal.             *)
WakesSleepers(s) == s.downstream_count # 0 /\ s.notify_address

NotifyEagerOutcome(w) ==
  /\ wpc[w] = "notify"
  /\ WorkerContinue(w, "idle", ZeroStatus)
  /\ pc' = [c \in Clients |->
              IF pc[c] = "asleep" /\ WakesSleepers(wsnap[w]) THEN "check" ELSE pc[c]]
  /\ UNCHANGED <<status, payload, call, snap, ret, delivered, args>>

-----------------------------------------------------------------------------
(* Steps that a thread takes once it has entered the library.  The swaps   *)
(* that may lose a race are apart, for the sake of fairness.               *)

ClientSwap(c) == WaitRegister(c) \/ CancelSwap(c) \/ RetireSwap(c)

ClientStep(c) ==
  \/ ClientSwap(c)
  \/ WaitRegisterRetry(c) \/ FutexWait(c) \/ CheckWoken(c) \/ WaitRelease(c)
  \/ CancelRetry(c) \/ RetireRetry(c) \/ FinishWait(c) \/ Collect(c)

ClientCall(c) ==
  \/ \E t \in WaitCalls : Wait(c, t)
  \/ \E k \in CancelCalls : Cancel(c, k)
  \/ Finish(c)

FutexReturn(c) == FutexSpurious(c) \/ FutexInterrupted(c)

WorkerSwap(w) == PublishSwap(w) \/ AcknowledgeSwap(w)

WorkerStep(w) ==
  \/ CustomCanceled(w)
  \/ \E a \in Args : TrySetResult(w, a)
  \/ WorkerSwap(w)
  \/ PublishRetry(w) \/ Acknowledge(w) \/ AcknowledgeRetry(w)
  \/ NotifyEagerOutcome(w)

Next ==
  \/ \E c \in Clients : ClientCall(c) \/ ClientStep(c) \/ FutexReturn(c)
  \/ \E w \in Workers : StartCustom(w) \/ WorkerStep(w)

Spec == Init /\ [][Next]_vars

(***************************************************************************)
(* Threads are scheduled, and a custom operation comes to an end: the      *)
(* documentation of udipe_start_custom() asks it of the application.  A    *)
(* compare-and-swap loop is lock-free, not wait-free: that a thread which  *)
(* retries forever succeeds is assumed.  No fairness for new calls, nor    *)
(* for spurious wakeups, signals and timeouts.                             *)
(***************************************************************************)
Fairness ==
  /\ \A c \in Clients : WF_vars(ClientStep(c)) /\ SF_vars(ClientSwap(c))
  /\ \A w \in Workers : WF_vars(WorkerStep(w)) /\ SF_vars(WorkerSwap(w))

FairSpec == Spec /\ Fairness

-----------------------------------------------------------------------------
(* Safety.                                                                 *)

(* The client threads that hold a reference on the future.                 *)
Holds(c) == /\ pc[c] \in {"futex", "asleep", "check", "release"}
            /\ call[c] \in WaitCalls

Holders == {c \in Clients : Holds(c)}

(***************************************************************************)
(* downstream_count is the number of udipe_wait() calls that registered    *)
(* and did not leave yet, through every race of a registration or a        *)
(* timeout with a cancelation or a result: no reference is lost, leaked or *)
(* taken twice (future_wait_eager(), future_downstream_count_dec()).       *)
(***************************************************************************)
DownstreamCountExact == status.downstream_count = Cardinality(Holders)

(***************************************************************************)
(* No assert(), ensure() or exit_with_error() of the future code fires as  *)
(* long as the application follows the lifetime rules: not in the wait,    *)
(* cancel and finish paths of the clients, which use copies of the status  *)
(* word that may be stale, not in future_liberate(), not in the worker's   *)
(* future_custom_check_canceled().                                         *)
(***************************************************************************)
ClientAsserts(c) ==
  /\ pc[c] # "idle" => DebugCheck(snap[c], TRUE) /\ DebugCheck(status, TRUE)
  /\ pc[c] = "register" =>
       /\ snap[c].state # "RESULT"
       /\ CountIncAllowed(snap[c], Policy(c))
       /\ DebugCheck(Registered(c), TRUE)
  /\ pc[c] = "futex" => snap[c].state # "RESULT" /\ snap[c].notify_address
  /\ pc[c] = "release" =>
       /\ CountDecAllowed(status, Policy(c))
       /\ DebugCheck(CountDec(status, Policy(c)), TRUE)
  /\ pc[c] = "cancel" => snap[c].state \in {"WAITING", "PROCESSING"}
  /\ pc[c] = "retire" => snap[c].downstream_count = 0 /\ snap[c].available
  /\ pc[c] = "collect" =>
       /\ snap[c].state = "RESULT" /\ snap[c].outcome # "UNKNOWN"
       /\ status.downstream_count = 0 /\ ~status.available

WorkerAsserts(w) ==
  /\ wpc[w] \in {"running", "publish"} =>
       \/ status.state = "PROCESSING" /\ status.outcome = "UNKNOWN"
       \/ status.state = "CANCELING" /\ status.outcome = "FAILURE_CANCELED"
  /\ wpc[w] \in {"told", "ack"} =>
       status.state = "CANCELING" /\ status.outcome = "FAILURE_CANCELED"
  /\ wpc[w] \notin {"idle", "notify"} => status.type = "CUSTOM"

AssertsHold ==
  /\ \A c \in Clients : ClientAsserts(c)
  /\ \A w \in Workers : WorkerAsserts(w)

(***************************************************************************)
(* An accepted cancelation stands: once a udipe_cancel() call was told     *)
(* that it canceled the operation, the outcome is FAILURE_CANCELED to the  *)
(* end of the future's life, whatever result the worker comes up with, and *)
(* no other call of udipe_cancel() is told the same.                       *)
(***************************************************************************)
Accepted(c) == call[c] \in CancelCalls /\ ret[c] = "true"

CancelVerdictStands ==
  \A c \in Clients : Accepted(c) =>
    /\ status = ZeroStatus \/ status.outcome = "FAILURE_CANCELED"
    /\ \A d \in Clients : Accepted(d) => c = d

(***************************************************************************)
(* A successful outcome comes with the payload that the worker in charge   *)
(* of this life passed to udipe_custom_try_set_result(), stored before the *)
(* swap that decides whether it counts.                                    *)
(***************************************************************************)
PayloadIsOwners ==
  status.outcome = "SUCCESS" => payload = args.payload

(***************************************************************************)
(* "If this function returns true, calling udipe_finish() on the same      *)
(* future is guaranteed to return a result immediately without blocking":  *)
(* after a udipe_wait() that returned true, nobody gets as far as the      *)
(* futex.                                                                  *)
(***************************************************************************)
TrueWaitMeansNoBlocking ==
  \A c, d \in Clients :
    (call[c] \in WaitCalls /\ ret[c] = "true") =>
      ~(call[d] \in FinishCalls /\ pc[d] \in {"wait", "register", "futex", "asleep"})

(* udipe_wait() returns true when the timeout is UDIPE_DURATION_MAX,       *)
(* whatever signals and spurious wakeups interrupt its sleep.              *)
WaitMaxNeverFails ==
  \A c \in Clients : ~(call[c] = "wait_max" /\ ret[c] = "false")

(***************************************************************************)
(* What udipe_wait() tells its caller is right: true means that the result *)
(* is there, and without a time limit it is never false.                   *)
(***************************************************************************)
WaitVerdictsRight == TrueWaitMeansNoBlocking /\ WaitMaxNeverFails

(***************************************************************************)
(* outcome.h: the outcome leaves OUTCOME_UNKNOWN once and then remains     *)
(* fixed until the future is liberated, and STATE_RESULT is only left by   *)
(* liberation.                                                             *)
(***************************************************************************)
OutcomeFixedStep ==
  (status.outcome # "UNKNOWN" /\ status' # ZeroStatus) =>
    /\ status'.outcome = status.outcome
    /\ status.state = "RESULT" => status'.state = "RESULT"

OutcomeFixed == [][OutcomeFixedStep]_vars

-----------------------------------------------------------------------------
(* The inductive invariant behind the safety properties.                   *)

(* The words that a custom future has between its start and its end.       *)
LiveWord(s) ==
  /\ s.type = "CUSTOM" /\ ~s.notify_event_or_lazy_lock
  /\ \/ s.state = "PROCESSING" /\ s.outcome = "UNKNOWN"
     \/ s.state = "CANCELING"  /\ s.outcome = "FAILURE_CANCELED"
     \/ s.state = "RESULT"     /\ s.outcome \in {"SUCCESS", "FAILURE_CANCELED"}
  /\ s.downstream_count # 0 => s.available
  /\ s.downstream_count <= Cardinality(Clients)

(* A client whose call cleared `available` already.                        *)
Retired(c) ==
  /\ pc[c] \in {"wait", "register", "futex", "asleep", "check", "collect"}
  /\ call[c] \in FinishCalls

(* Which calls take a client where.                                        *)
LocFitsCall(c) ==
  /\ pc[c] \in {"register", "futex", "asleep", "check"} =>
       call[c] \in {"wait_some", "wait_max"} \cup FinishCalls
  /\ pc[c] = "release" => call[c] \in {"wait_some", "wait_max"}
  /\ pc[c] = "cancel" => call[c] \in CancelCalls
  /\ pc[c] \in {"retire", "wait", "collect"} => call[c] \in FinishCalls

(* What a client that is inside a call knows about the word.               *)
ClientKnows(c) ==
  /\ pc[c] # "idle" => /\ LiveWord(status) /\ LiveWord(snap[c])
                       /\ status.available <=> ~Retired(c)
                       /\ snap[c].notify_address => status.notify_address
  /\ pc[c] = "register" =>
       /\ snap[c].state # "RESULT"
       /\ snap[c].available <=> call[c] \in WaitCalls
       /\ call[c] \in WaitCalls => snap[c].downstream_count < Cardinality(Clients)
  /\ pc[c] \in {"futex", "asleep"} => snap[c].state # "RESULT" /\ snap[c].notify_address
  /\ pc[c] \in {"futex", "asleep", "check"} => status.notify_address
  /\ pc[c] = "release" /\ call[c] = "wait_max" => status.state = "RESULT"
  /\ pc[c] = "cancel" => snap[c].outcome = "UNKNOWN"
  /\ pc[c] = "retire" => snap[c].downstream_count = 0 /\ snap[c].available
  /\ pc[c] = "collect" => /\ snap[c].state = "RESULT" /\ status.state = "RESULT"
                          /\ snap[c].outcome = status.outcome

(* Whoever ends the life of the future is alone with its worker.           *)
FinisherAlone ==
  \A c, d \in Clients : Finishing(c) /\ c # d => pc[d] = "idle"

(* At most one worker is in charge, and the word is not final before it    *)
(* says so.                                                                *)
InCharge(w) == wpc[w] \in {"running", "told", "publish", "ack"}

WorkerKnows(w) ==
  /\ InCharge(w) => LiveWord(status) /\ status.state \in {"PROCESSING", "CANCELING"}
  /\ wpc[w] \in {"told", "ack"} => status.state = "CANCELING"
  /\ wpc[w] = "publish" => /\ wsnap[w].state = "PROCESSING" /\ LiveWord(wsnap[w])
                           /\ payload = args.payload /\ args \in Args
  /\ wpc[w] = "ack" => wsnap[w].state = "CANCELING" /\ LiveWord(wsnap[w])

OneInCharge == \A v, w \in Workers : InCharge(v) /\ InCharge(w) => v = w

(* Once a udipe_wait() returned true, the word is final and a finishing    *)
(* thread has seen it.                                                     *)
TrueWait(c) == call[c] \in WaitCalls /\ ret[c] = "true"

TrueWaitKnows ==
  \A c \in Clients : TrueWait(c) =>
    /\ status = ZeroStatus \/ status.state = "RESULT"
    /\ \A d \in Clients : Finishing(d) =>
         pc[d] \in {"retire", "collect"} /\ snap[d].state = "RESULT"

IInv ==
  /\ TypeOK
  /\ status = ZeroStatus \/ LiveWord(status)
  /\ \A c \in Clients : LocFitsCall(c) /\ ClientKnows(c)
  /\ FinisherAlone
  /\ DownstreamCountExact
  /\ \A w \in Workers : WorkerKnows(w)
  /\ OneInCharge
  /\ CancelVerdictStands
  /\ PayloadIsOwners
  /\ TrueWaitKnows
  /\ WaitMaxNeverFails

-----------------------------------------------------------------------------
(* The promise that the future keeps.                                      *)

PhaseOf(s) ==
  CASE s.state = "RESULT"    -> "done"
    [] s.state = "CANCELING" -> "canceling"
    [] s.state \in {"WAITING", "PROCESSING"} -> "pending"
    [] OTHER -> "free"

ValueOf(s) ==
  IF s.outcome = "UNKNOWN" THEN NoResult ELSE ResultOf(s)

P == INSTANCE Promise WITH phase <- PhaseOf(status), value <- ValueOf(status)

(***************************************************************************)
(* The future implements Promise: through all races of waiters,            *)
(* cancelations, the worker and the finishing thread, each life is decided *)
(* once, a payload decided is never overwritten, and udipe_finish()        *)
(* returns exactly the decision of the life that it ends.                  *)
(***************************************************************************)
ImplementsPromise == P!PromiseSpec

-----------------------------------------------------------------------------
(* Liveness.                                                               *)

(* A udipe_wait() without a time limit returns: the worker's notification  *)
(* cannot slip between the registration of a waiter and its sleep.         *)
WaitReturns ==
  \A c \in Clients :
    (call[c] = "wait_max" /\ pc[c] # "idle") ~> (pc[c] = "idle")

-----------------------------------------------------------------------------
(* What the documentation says and the code does not do.                   *)

(* include/udipe/future.h: udipe_custom_try_set_result() will "wake up all *)
(* threads that were waiting for its completion", and udipe_finish() is a  *)
(* wait for the end of the operation.                                      *)
FinishReturns ==
  \A c \in Clients : Finishing(c) ~> (pc[c] = "idle")
=============================================================================
