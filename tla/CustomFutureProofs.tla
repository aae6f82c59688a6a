------------------------- MODULE CustomFutureProofs -------------------------
EXTENDS CustomFuture, FiniteSetTheorems, TLAPS

(***************************************************************************)
(* Proofs about CustomFuture, for every finite set of clients (at most     *)
(* MAX_DOWNSTREAM_COUNT of them), of workers and of payloads.  One lemma   *)
(* per step shows that it preserves the inductive invariant IInv; the      *)
(* theorems at the end follow from it.                                     *)
(***************************************************************************)

(* Before the first udipe_start_custom() every thread is idle and the word *)
(* is zero: the inductive invariant holds.                                 *)
LEMMA InitIInv == Init => IInv
<1> SUFFICES ASSUME Init PROVE IInv
  OBVIOUS
<1> USE DEF Init
<1>1. TypeOK
  BY DEF TypeOK, ZeroStatus, Statuses, States, Outcomes, Types, NetworkTypes, ClientLocs, WorkerLocs, NoArgs, NoResult, Results
<1>2. DownstreamCountExact
  <2>1. Holders = {}
    BY DEF Holders, Holds
  <2>2. QED
    BY <2>1, FS_EmptySet DEF DownstreamCountExact, ZeroStatus
<1>3. \A c \in Clients : LocFitsCall(c) /\ ClientKnows(c)
  BY DEF LocFitsCall, ClientKnows
<1>4. FinisherAlone /\ OneInCharge /\ \A w \in Workers : WorkerKnows(w)
  BY DEF FinisherAlone, OneInCharge, WorkerKnows, Finishing, InCharge
<1>5. CancelVerdictStands /\ PayloadIsOwners /\ WaitMaxNeverFails /\ TrueWaitKnows
  BY DEF CancelVerdictStands, Accepted, PayloadIsOwners, WaitMaxNeverFails, TrueWaitKnows, TrueWait, ZeroStatus
<1> QED
  BY <1>1, <1>2, <1>3, <1>4, <1>5 DEF IInv

(* Facts about the reference count.                                        *)

(* The clients that hold a reference can be counted.                       *)
LEMMA HoldersFinite == IsFiniteSet(Holders) /\ Cardinality(Holders) \in Nat /\ Cardinality(Clients) \in Nat
  BY ClientsAssumption, FS_Subset, FS_CardinalityType DEF Holders

(* A client that holds no reference leaves room for its own.               *)
LEMMA RoomForOneMore ==
  ASSUME NEW c \in Clients, ~Holds(c), DownstreamCountExact
  PROVE  status.downstream_count < Cardinality(Clients)
<1>1. Holders \subseteq Clients \ {c}
  BY DEF Holders
<1>2. IsFiniteSet(Clients \ {c}) /\ Cardinality(Clients \ {c}) = Cardinality(Clients) - 1
  BY ClientsAssumption, FS_RemoveElement
<1>3. Cardinality(Holders) <= Cardinality(Clients \ {c})
  BY <1>1, <1>2, FS_Subset
<1> QED
  BY <1>2, <1>3, HoldersFinite DEF DownstreamCountExact

(* The thread that finishes the future finds no reference on it.           *)
LEMMA NoHolders ==
  ASSUME DownstreamCountExact, \A d \in Clients : ~Holds(d)
  PROVE  status.downstream_count = 0
<1>1. Holders = {}
  BY DEF Holders
<1> QED
  BY <1>1, FS_EmptySet DEF DownstreamCountExact

(* A step that neither takes nor drops a reference keeps the count exact.  *)
LEMMA CountKept ==
  ASSUME DownstreamCountExact, status'.downstream_count = status.downstream_count,
         \A d \in Clients : Holds(d)' <=> Holds(d)
  PROVE  DownstreamCountExact'
<1>1. Holders' = Holders
  BY DEF Holders
<1> QED
  BY <1>1 DEF DownstreamCountExact

-----------------------------------------------------------------------------
(* Facts about status words.                                               *)

(* future_liberate() leaves a status word that belongs to no life.         *)
LEMMA ZeroWord == ZeroStatus \in Statuses /\ ~LiveWord(ZeroStatus) /\ ~ZeroStatus.available
  BY DEF ZeroStatus, Statuses, States, Outcomes, Types, NetworkTypes, LiveWord

-----------------------------------------------------------------------------
(* Frames: what a step does not touch stays as the invariant says.         *)

(* What a client knows of the future depends only on its own position and  *)
(* on the word: a step that changes neither leaves it alone.               *)
LEMMA ClientFrame ==
  ASSUME NEW d \in Clients, LocFitsCall(d), ClientKnows(d),
         status' = status, pc'[d] = pc[d], call'[d] = call[d], snap'[d] = snap[d]
  PROVE  LocFitsCall(d)' /\ ClientKnows(d)'
  BY DEF LocFitsCall, ClientKnows, Retired, LiveWord

(* The same for a worker: its own position, the word and who is in charge. *)
LEMMA WorkerFrame ==
  ASSUME \A w \in Workers : WorkerKnows(w), OneInCharge,
         status' = status, payload' = payload, args' = args, UNCHANGED workerVars
  PROVE  (\A w \in Workers : WorkerKnows(w)') /\ OneInCharge'
  BY DEF WorkerKnows, OneInCharge, InCharge, workerVars, LiveWord

(***************************************************************************)
(* A step of client c that only changes c's own locals.                    *)
(***************************************************************************)
LocalTo(c) ==
  /\ UNCHANGED <<status, payload, workerVars, args>>
  /\ \A d \in Clients : d # c =>
       /\ pc'[d] = pc[d] /\ call'[d] = call[d]
       /\ snap'[d] = snap[d] /\ ret'[d] = ret[d]

(* A step of one client that leaves the word, the payload and the workers  *)
(* alone preserves the invariant if it does so for that client.            *)
LEMMA LocalStep ==
  ASSUME IInv, NEW c \in Clients, LocalTo(c), TypeOK',
         Holds(c)' <=> Holds(c),
         LocFitsCall(c)', ClientKnows(c)', TrueWaitKnows',
         Finishing(c)' => \A d \in Clients : d # c => pc[d] = "idle",
         pc'[c] # "idle" => \A d \in Clients : d # c => ~Finishing(d),
         Accepted(c)' => Accepted(c),
         ~(call'[c] = "wait_max" /\ ret'[c] = "false")
  PROVE  IInv'
<1>1. status' = ZeroStatus \/ LiveWord(status)'
  BY DEF LocalTo, IInv, LiveWord
<1>2. \A d \in Clients : LocFitsCall(d)' /\ ClientKnows(d)'
  BY ClientFrame DEF LocalTo, IInv
<1>3. FinisherAlone'
  BY DEF LocalTo, IInv, FinisherAlone, Finishing
<1>4. DownstreamCountExact'
  <2>1. \A d \in Clients : Holds(d)' <=> Holds(d)
    BY DEF LocalTo, Holds
  <2> QED
    BY <2>1, CountKept DEF LocalTo, IInv
<1>5. (\A w \in Workers : WorkerKnows(w)') /\ OneInCharge'
  BY WorkerFrame DEF LocalTo, IInv
<1>6. CancelVerdictStands'
  BY DEF LocalTo, IInv, CancelVerdictStands, Accepted
<1>7. PayloadIsOwners' /\ WaitMaxNeverFails'
  BY DEF LocalTo, IInv, PayloadIsOwners, WaitMaxNeverFails
<1> QED
  BY <1>1, <1>2, <1>3, <1>4, <1>5, <1>6, <1>7 DEF IInv

(* The entry of udipe_wait(): the first load of the word.                  *)
LEMMA WaitStep ==
  ASSUME IInv, NEW c \in Clients, NEW t \in WaitCalls, Wait(c, t)
  PROVE  IInv'
<1> USE DEF Wait, MayCall, Continue, Return, Returning
<1>0. TypeOK /\ pc[c] = "idle" /\ status.available /\ LiveWord(status)
  BY ZeroWord DEF IInv
<1>1. TypeOK'
  BY <1>0, ZeroWord DEF TypeOK, ClientLocs, Calls, workerVars
<1>2. LocalTo(c) /\ pc'[c] \in {"idle", "register"} /\ call'[c] = t /\ ~Holds(c) /\ ~Holds(c)'
  BY <1>0 DEF LocalTo, TypeOK, Holds
<1>3. LocFitsCall(c)' /\ ClientKnows(c)'
  <2>1. status.downstream_count < Cardinality(Clients)
    BY <1>2, RoomForOneMore DEF IInv
  <2>2. CASE pc'[c] = "idle"
    BY <2>2 DEF LocFitsCall, ClientKnows, Retired
  <2>3. CASE pc'[c] = "register"
    BY <1>0, <1>2, <2>1, <2>3 DEF LocFitsCall, ClientKnows, Retired, TypeOK, WaitCalls, FinishCalls, LiveWord
  <2> QED
    BY <1>2, <2>2, <2>3
<1>4. TrueWaitKnows'
  BY <1>0, <1>2 DEF IInv, TrueWaitKnows, TrueWait, Finishing, TypeOK, FinishCalls, WaitCalls, LocalTo
<1> QED
  BY <1>0, <1>1, <1>2, <1>3, <1>4, LocalStep DEF Finishing, TypeOK, WaitCalls, FinishCalls, CancelCalls, Accepted

(* The failed compare-and-swap of future_wait_eager(), with a fresh copy of*)
(* the word.                                                               *)
LEMMA WaitRegisterRetryStep ==
  ASSUME IInv, NEW c \in Clients, WaitRegisterRetry(c)
  PROVE  IInv'
<1> USE DEF WaitRegisterRetry, FoundResult, Continue, Return, Returning
<1>0. TypeOK /\ pc[c] = "register" /\ LiveWord(status) /\ LocFitsCall(c) /\ ClientKnows(c)
  BY DEF IInv, ClientKnows
<1>1. TypeOK'
  BY <1>0, ZeroWord DEF TypeOK, ClientLocs, workerVars
<1>2. LocalTo(c) /\ pc'[c] \in {"idle", "register", "collect"} /\ call' = call
  BY <1>0 DEF LocalTo, TypeOK
<1>3. ~Holds(c) /\ ~Holds(c)'
  BY <1>0, <1>2 DEF Holds
<1>4. LocFitsCall(c)' /\ ClientKnows(c)'
  <2>1. status.downstream_count < Cardinality(Clients)
    BY <1>3, RoomForOneMore DEF IInv
  <2>2. CASE pc'[c] = "idle"
    BY <2>2 DEF LocFitsCall, ClientKnows, Retired
  <2>3. CASE pc'[c] = "register"
    BY <1>0, <1>2, <2>1, <2>3 DEF LocFitsCall, ClientKnows, Retired, TypeOK, WaitCalls, FinishCalls, LiveWord
  <2>4. CASE pc'[c] = "collect"
    BY <1>0, <1>2, <2>1, <2>4 DEF LocFitsCall, ClientKnows, Retired, TypeOK, WaitCalls, FinishCalls, LiveWord, Policy
  <2> QED
    BY <1>2, <2>2, <2>3, <2>4
<1>5. TrueWaitKnows'
  BY <1>0, <1>2 DEF IInv, TrueWaitKnows, TrueWait, Finishing, TypeOK, FinishCalls, WaitCalls, LocalTo, LocFitsCall, FinisherAlone, Policy
<1>6. \A d \in Clients : d # c => ~Finishing(d) /\ (Finishing(c)' => pc[d] = "idle")
  BY <1>0, <1>2 DEF IInv, FinisherAlone, Finishing
<1> QED
  BY <1>0, <1>1, <1>2, <1>3, <1>4, <1>5, <1>6, LocalStep
  DEF IInv, WaitMaxNeverFails, Accepted, LocFitsCall, CancelCalls, Policy, WaitCalls, TypeOK

(* wait_on_address() on the word: the thread sleeps, finds the word        *)
(* changed, or gives up.                                                   *)
LEMMA FutexWaitStep ==
  ASSUME IInv, NEW c \in Clients,
         FutexWait(c) \/ FutexSpurious(c) \/ FutexInterrupted(c)
  PROVE  IInv'
<1> USE DEF FutexWait, FutexSpurious, FutexInterrupted, Continue
<1>0. TypeOK /\ pc[c] \in {"futex", "asleep"} /\ LocFitsCall(c) /\ ClientKnows(c)
  BY DEF IInv
<1>1. TypeOK'
  BY <1>0 DEF TypeOK, ClientLocs, workerVars
<1>2. /\ LocalTo(c) /\ call' = call /\ snap' = snap /\ ret' = ret
      /\ \/ pc'[c] \in {"futex", "asleep", "check"}
         \/ pc'[c] = "release" /\ call[c] = "wait_some"
  BY <1>0 DEF LocalTo, TypeOK
<1>3. Holds(c) <=> Holds(c)'
  BY <1>0, <1>2 DEF Holds
<1>4. LocFitsCall(c)' /\ ClientKnows(c)'
  BY <1>0, <1>2 DEF LocFitsCall, ClientKnows, Retired, WaitCalls, FinishCalls, LiveWord, LocalTo
<1>5. TrueWaitKnows'
  BY <1>0, <1>2 DEF IInv, TrueWaitKnows, TrueWait, Finishing, LocalTo
<1>6. \A d \in Clients : d # c => ~Finishing(d) /\ (Finishing(c)' => pc[d] = "idle")
  BY <1>0, <1>2 DEF IInv, FinisherAlone, Finishing
<1> QED
  BY <1>0, <1>1, <1>2, <1>3, <1>4, <1>5, <1>6, LocalStep DEF IInv, WaitMaxNeverFails, Accepted

(* The load after a wakeup, real or spurious, in future_wait_by_adress().  *)
LEMMA CheckWokenStep ==
  ASSUME IInv, NEW c \in Clients, CheckWoken(c)
  PROVE  IInv'
<1> USE DEF CheckWoken, Continue
<1>0. TypeOK /\ pc[c] = "check" /\ LiveWord(status) /\ LocFitsCall(c) /\ ClientKnows(c)
  BY DEF IInv, ClientKnows
<1>1. TypeOK'
  BY <1>0 DEF TypeOK, ClientLocs, workerVars
<1>2. /\ LocalTo(c) /\ call' = call /\ ret' = ret /\ snap'[c] = status
      /\ \/ pc'[c] = "futex" /\ status.state # "RESULT"
         \/ pc'[c] = "release" /\ (call[c] = "wait_some" \/ (status.state = "RESULT" /\ call[c] \in WaitCalls))
         \/ pc'[c] = "collect" /\ status.state = "RESULT" /\ call[c] \notin WaitCalls
  <2>1. LocalTo(c) /\ call' = call /\ ret' = ret /\ snap'[c] = status
    BY <1>0 DEF LocalTo, TypeOK
  <2>2. CASE call[c] \in WaitCalls
    BY <1>0, <2>1, <2>2 DEF TypeOK, Policy
  <2>3. CASE call[c] \notin WaitCalls
    BY <1>0, <2>1, <2>3 DEF TypeOK, Policy
  <2> QED
    BY <2>1, <2>2, <2>3
<1>3. Holds(c) <=> Holds(c)'
  BY <1>0, <1>2 DEF Holds, WaitCalls
<1>4. LocFitsCall(c)' /\ ClientKnows(c)'
  BY <1>0, <1>2 DEF LocFitsCall, ClientKnows, Retired, WaitCalls, FinishCalls, LiveWord, LocalTo
<1>5. TrueWaitKnows'
  BY <1>0, <1>2 DEF IInv, TrueWaitKnows, TrueWait, Finishing, LocalTo
<1>6. \A d \in Clients : d # c => ~Finishing(d) /\ (Finishing(c)' => pc[d] = "idle")
  BY <1>0, <1>2 DEF IInv, FinisherAlone, Finishing
<1> QED
  BY <1>0, <1>1, <1>2, <1>3, <1>4, <1>5, <1>6, LocalStep DEF IInv, WaitMaxNeverFails, Accepted

(* The entry of udipe_cancel(): the first load of the word.                *)
LEMMA CancelStep ==
  ASSUME IInv, NEW c \in Clients, NEW k \in CancelCalls, Cancel(c, k)
  PROVE  IInv'
<1> USE DEF Cancel, CancelVerdict, MayCall, MayFinish, Continue, Return, Returning
<1>0. TypeOK /\ pc[c] = "idle" /\ status.available /\ LiveWord(status)
  BY ZeroWord DEF IInv
<1>1. TypeOK'
  BY <1>0, ZeroWord DEF TypeOK, ClientLocs, Calls, workerVars
<1>2. /\ LocalTo(c) /\ call'[c] = k /\ ret'[c] # "true"
      /\ \/ pc'[c] = "cancel" /\ status.outcome = "UNKNOWN" /\ snap'[c] = status
         \/ pc'[c] = "retire" /\ k = "cancel_finish" /\ snap'[c] = status
         \/ pc'[c] = "idle"
  BY <1>0 DEF LocalTo, TypeOK
<1>3. ~Holds(c) /\ ~Holds(c)'
  BY <1>0, <1>2 DEF Holds
<1>4. \A d \in Clients : d # c => ~Finishing(d) /\ (Finishing(c)' => pc[d] = "idle")
  BY <1>0, <1>2 DEF Finishing, CancelCalls, FinishCalls, TypeOK
<1>5. pc'[c] = "retire" => status.downstream_count = 0
  <2>1. pc'[c] = "retire" => \A d \in Clients : ~Holds(d)
    BY <1>2, <1>4, <1>0 DEF Holds
  <2> QED
    BY <2>1, NoHolders DEF IInv
<1>6. LocFitsCall(c)' /\ ClientKnows(c)'
  BY <1>0, <1>2, <1>5 DEF LocFitsCall, ClientKnows, Retired, FinishCalls, LiveWord, LocalTo
<1>7. TrueWaitKnows'
  <2> SUFFICES ASSUME NEW b \in Clients, TrueWait(b)'
               PROVE  /\ status' = ZeroStatus \/ status'.state = "RESULT"
                      /\ \A d \in Clients : Finishing(d)' =>
                           pc'[d] \in {"retire", "collect"} /\ snap'[d].state = "RESULT"
    BY DEF TrueWaitKnows
  <2>1. b # c /\ TrueWait(b)
    BY <1>2 DEF TrueWait, LocalTo
  <2>2. status.state = "RESULT"
    BY <2>1, <1>0, ZeroWord DEF IInv, TrueWaitKnows
  <2>3. status.outcome # "UNKNOWN"
    BY <2>2, <1>0 DEF LiveWord
  <2> QED
    BY <1>2, <1>4, <2>2, <2>3 DEF Finishing, LocalTo
<1> QED
  BY <1>0, <1>1, <1>2, <1>3, <1>4, <1>6, <1>7, LocalStep DEF Accepted, CancelCalls

(* The failed compare-and-swap of udipe_cancel().                          *)
LEMMA CancelRetryStep ==
  ASSUME IInv, NEW c \in Clients, CancelRetry(c)
  PROVE  IInv'
<1> USE DEF CancelRetry, CancelVerdict, Continue, Return, Returning
<1>0. TypeOK /\ pc[c] = "cancel" /\ status.available /\ LiveWord(status) /\ LocFitsCall(c) /\ ClientKnows(c)
  BY ZeroWord DEF IInv, ClientKnows, Retired
<1>1. TypeOK'
  BY <1>0, ZeroWord DEF TypeOK, ClientLocs, Calls, workerVars
<1>2. /\ LocalTo(c) /\ call' = call /\ (ret' = ret \/ ret'[c] # "true")
      /\ \/ pc'[c] = "cancel" /\ status.outcome = "UNKNOWN" /\ snap'[c] = status
         \/ pc'[c] = "retire" /\ call[c] = "cancel_finish" /\ snap'[c] = status
         \/ pc'[c] = "idle"
  BY <1>0 DEF LocalTo, TypeOK
<1>3. ~Holds(c) /\ ~Holds(c)'
  BY <1>0, <1>2 DEF Holds
<1>4. \A d \in Clients : d # c => ~Finishing(d) /\ (Finishing(c)' => pc[d] = "idle")
  BY <1>0, <1>2 DEF IInv, FinisherAlone, Finishing
<1>5. pc'[c] = "retire" => status.downstream_count = 0
  <2>1. pc'[c] = "retire" => \A d \in Clients : ~Holds(d)
    BY <1>2, <1>3, <1>4, <1>0 DEF Holds, Finishing, FinishCalls
  <2> QED
    BY <2>1, NoHolders DEF IInv
<1>6. LocFitsCall(c)' /\ ClientKnows(c)'
  BY <1>0, <1>2, <1>5 DEF LocFitsCall, ClientKnows, Retired, FinishCalls, LiveWord, LocalTo
<1>7. TrueWaitKnows'
  BY <1>0, <1>2, <1>4 DEF IInv, TrueWaitKnows, TrueWait, Finishing, LocalTo, LocFitsCall, CancelCalls, WaitCalls, FinishCalls
<1> QED
  BY <1>0, <1>1, <1>2, <1>3, <1>4, <1>6, <1>7, LocalStep DEF Accepted, IInv, WaitMaxNeverFails, LocFitsCall, CancelCalls

(* The entry of udipe_finish().                                            *)
LEMMA FinishStep ==
  ASSUME IInv, NEW c \in Clients, Finish(c)
  PROVE  IInv'
<1> USE DEF Finish, MayFinish, Continue, Returning
<1>0. TypeOK /\ pc[c] = "idle" /\ status.available /\ LiveWord(status)
  BY ZeroWord DEF IInv
<1>1. TypeOK'
  BY <1>0 DEF TypeOK, ClientLocs, Calls, FinishCalls, workerVars
<1>2. LocalTo(c) /\ call'[c] = "finish" /\ ret'[c] = "none" /\ pc'[c] = "retire" /\ snap'[c] = status
  BY <1>0 DEF LocalTo, TypeOK
<1>3. status.downstream_count = 0
  BY NoHolders DEF Holds, IInv
<1>4. LocFitsCall(c)' /\ ClientKnows(c)'
  BY <1>0, <1>2, <1>3 DEF LocFitsCall, ClientKnows, Retired, FinishCalls, LiveWord, LocalTo
<1>5. TrueWaitKnows'
  BY <1>0, <1>2, ZeroWord DEF IInv, TrueWaitKnows, TrueWait, Finishing, LocalTo, WaitCalls
<1> QED
  BY <1>0, <1>1, <1>2, <1>4, <1>5, LocalStep DEF Accepted, Finishing, Holds

(* The failed compare-and-swap of future_finish().                         *)
LEMMA RetireRetryStep ==
  ASSUME IInv, NEW c \in Clients, RetireRetry(c) \/ FinishWait(c)
  PROVE  IInv'
<1> USE DEF RetireRetry, FinishWait, Continue
<1>0. TypeOK /\ pc[c] \in {"retire", "wait"} /\ LiveWord(status) /\ LocFitsCall(c) /\ ClientKnows(c)
  BY DEF IInv, ClientKnows
<1>1. TypeOK'
  BY <1>0 DEF TypeOK, ClientLocs, workerVars
<1>2. /\ LocalTo(c) /\ call' = call /\ ret' = ret /\ snap'[c] = status
      /\ \/ pc[c] = "retire" /\ pc'[c] = "retire"
         \/ pc[c] = "wait" /\ pc'[c] = "collect" /\ status.state = "RESULT"
         \/ pc[c] = "wait" /\ pc'[c] = "register" /\ status.state # "RESULT"
  BY <1>0 DEF LocalTo, TypeOK
<1>3. Finishing(c) /\ call[c] \notin WaitCalls
  BY <1>0 DEF Finishing, LocFitsCall, FinishCalls, WaitCalls
<1>4. \A d \in Clients : d # c => ~Finishing(d) /\ pc[d] = "idle"
  BY <1>0, <1>3 DEF IInv, FinisherAlone, Finishing
<1>5. status.downstream_count = 0
  BY <1>3, <1>4, NoHolders DEF Holds, IInv
<1>6. LocFitsCall(c)' /\ ClientKnows(c)'
  BY <1>0, <1>2, <1>3, <1>5 DEF LocFitsCall, ClientKnows, Retired, LiveWord, LocalTo
<1>7. TrueWaitKnows'
  BY <1>0, <1>2, <1>3, <1>4, ZeroWord DEF IInv, TrueWaitKnows, TrueWait, Finishing, LocalTo
<1>8. ~Holds(c) /\ ~Holds(c)'
  BY <1>2, <1>3 DEF Holds
<1> QED
  BY <1>0, <1>1, <1>2, <1>4, <1>6, <1>7, <1>8, LocalStep DEF Accepted, IInv, WaitMaxNeverFails

-----------------------------------------------------------------------------
(* A client step that swaps the word of a live future for another one of   *)
(* the same life: the word goes forward, if anywhere.                      *)

Forward ==
  /\ LiveWord(status) /\ LiveWord(status)'
  /\ status'.available = status.available
  /\ status.notify_address => status'.notify_address
  /\ status.state = "RESULT" <=> status'.state = "RESULT"
  /\ status.state = "CANCELING" => status'.state = "CANCELING"
  /\ status.outcome # "UNKNOWN" => status'.outcome = status.outcome

(* What a client knows of the future survives a step that moves the word   *)
(* forward within a life.                                                  *)
LEMMA ForwardFrame ==
  ASSUME NEW d \in Clients, LocFitsCall(d), ClientKnows(d), Forward,
         pc'[d] = pc[d], call'[d] = call[d], snap'[d] = snap[d]
  PROVE  LocFitsCall(d)' /\ ClientKnows(d)'
<1>1. LocFitsCall(d)'
  BY DEF LocFitsCall
<1>2. LiveWord(snap[d]) => LiveWord(snap[d])'
  BY DEF LiveWord
<1>3. Retired(d)' <=> Retired(d)
  BY DEF Retired
<1> QED
  BY <1>1, <1>2, <1>3 DEF ClientKnows, Forward, LiveWord

(* A step of client c that moves the word forward (it registers, leaves or *)
(* withdraws the future) and leaves the workers alone preserves the        *)
(* invariant if it does so for that client.                                *)
LEMMA ForwardStep ==
  ASSUME IInv, NEW c \in Clients, TypeOK', Forward,
         UNCHANGED <<payload, workerVars, args>>,
         \A d \in Clients : d # c =>
           /\ pc'[d] = pc[d] /\ call'[d] = call[d]
           /\ snap'[d] = snap[d] /\ ret'[d] = ret[d],
         DownstreamCountExact',
         LocFitsCall(c)', ClientKnows(c)', TrueWaitKnows',
         Finishing(c)' => Finishing(c), pc[c] # "idle",
         CancelVerdictStands',
         ~(call'[c] = "wait_max" /\ ret'[c] = "false")
  PROVE  IInv'
<1>1. \A d \in Clients : LocFitsCall(d)' /\ ClientKnows(d)'
  BY ForwardFrame DEF IInv
<1>2. FinisherAlone'
  BY DEF IInv, FinisherAlone, Finishing
<1>3. \A w \in Workers : WorkerKnows(w)'
  BY DEF IInv, WorkerKnows, InCharge, workerVars, LiveWord, Forward
<1>4. OneInCharge'
  BY DEF IInv, OneInCharge, InCharge, workerVars
<1>5. PayloadIsOwners' /\ WaitMaxNeverFails'
  BY DEF IInv, PayloadIsOwners, WaitMaxNeverFails, Forward, LiveWord
<1> QED
  BY <1>1, <1>2, <1>3, <1>4, <1>5 DEF IInv, Forward

(* The word that a waiter is about to install is that of a live future.    *)
LEMMA RegisteredWord ==
  ASSUME NEW c \in Clients, pc[c] = "register", ClientKnows(c), snap[c] \in Statuses
  PROVE  /\ Registered(c) \in Statuses
         /\ Registered(c).available = snap[c].available
         /\ Registered(c).state = snap[c].state
         /\ Registered(c).outcome = snap[c].outcome
         /\ Registered(c).type = snap[c].type
         /\ Registered(c).notify_event_or_lazy_lock = snap[c].notify_event_or_lazy_lock
         /\ Registered(c).notify_address
         /\ Registered(c).downstream_count =
              IF call[c] \in WaitCalls THEN snap[c].downstream_count + 1 ELSE snap[c].downstream_count
         /\ LiveWord(Registered(c))
<1>1. /\ Registered(c) \in Statuses
      /\ Registered(c).available = snap[c].available
      /\ Registered(c).state = snap[c].state
      /\ Registered(c).outcome = snap[c].outcome
      /\ Registered(c).type = snap[c].type
      /\ Registered(c).notify_event_or_lazy_lock = snap[c].notify_event_or_lazy_lock
      /\ Registered(c).notify_address
      /\ Registered(c).downstream_count =
           IF call[c] \in WaitCalls THEN snap[c].downstream_count + 1 ELSE snap[c].downstream_count
  <2>1. CASE call[c] \in WaitCalls
    <3> DEFINE n == snap[c].downstream_count + 1
    <3>1. n \in Nat
      BY DEF Statuses
    <3>2. Registered(c) = [[snap[c] EXCEPT !.downstream_count = n] EXCEPT !.notify_address = TRUE]
      BY <2>1 DEF Registered, CountInc, Policy
    <3> HIDE DEF n
    <3>3. /\ Registered(c) \in Statuses
          /\ Registered(c).available = snap[c].available
          /\ Registered(c).state = snap[c].state
          /\ Registered(c).outcome = snap[c].outcome
          /\ Registered(c).type = snap[c].type
          /\ Registered(c).notify_event_or_lazy_lock = snap[c].notify_event_or_lazy_lock
          /\ Registered(c).notify_address
          /\ Registered(c).downstream_count = n
      BY <3>1, <3>2 DEF Statuses
    <3> QED
      BY <2>1, <3>3 DEF n
  <2>2. CASE call[c] \notin WaitCalls
    <3>1. Registered(c) = [snap[c] EXCEPT !.notify_address = TRUE]
      BY <2>2 DEF Registered, CountInc, Policy
    <3> QED
      BY <2>2, <3>1 DEF Statuses
  <2> QED
    BY <2>1, <2>2
<1>2. Cardinality(Clients) \in Nat
  BY HoldersFinite
<1>3. LiveWord(Registered(c))
  <2>1. LiveWord(snap[c]) /\ (call[c] \in WaitCalls => snap[c].downstream_count + 1 <= Cardinality(Clients))
    BY <1>2 DEF ClientKnows, Statuses
  <2>2. call[c] \in WaitCalls => snap[c].available
    BY DEF ClientKnows
  <2> QED
    BY <1>1, <2>1, <2>2 DEF LiveWord
<1> QED
  BY <1>1, <1>3

(* The word that is left when a waiter drops its reference.                *)
LEMMA ReleasedWord ==
  ASSUME IInv, NEW c \in Clients, pc[c] = "release"
  PROVE  LET s == CountDec(status, Policy(c))
         IN  /\ CountDecAllowed(status, Policy(c))
             /\ s \in Statuses /\ LiveWord(s)
             /\ s.available = status.available /\ s.state = status.state
             /\ s.outcome = status.outcome /\ s.type = status.type
             /\ s.notify_event_or_lazy_lock = status.notify_event_or_lazy_lock
             /\ s.notify_address = status.notify_address
             /\ s.downstream_count = status.downstream_count - 1
<1>1. LiveWord(status) /\ LocFitsCall(c) /\ status \in Statuses
  BY DEF IInv, ClientKnows, TypeOK
<1>2. c \in Holders /\ Policy(c) = "CYCLE"
  BY <1>1 DEF Holders, Holds, Policy, LocFitsCall, WaitCalls
<1>3. Cardinality(Holders) # 0
  BY <1>2, HoldersFinite, FS_EmptySet
<1>4. status.downstream_count \in Nat /\ status.downstream_count >= 1
  BY <1>3, HoldersFinite DEF IInv, DownstreamCountExact
<1> DEFINE n == status.downstream_count - 1
<1>5. n \in Nat /\ n <= status.downstream_count
  BY <1>4
<1>6. CountDec(status, Policy(c)) = [status EXCEPT !.downstream_count = n]
  BY <1>2 DEF CountDec
<1>7. status.downstream_count <= Cardinality(Clients) /\ status.available
  BY <1>1, <1>4 DEF LiveWord
<1>8. n <= Cardinality(Clients)
  BY <1>4, <1>7, HoldersFinite
<1> HIDE DEF n
<1> DEFINE s == CountDec(status, Policy(c))
<1>9. /\ s \in Statuses
      /\ s.available = status.available /\ s.state = status.state
      /\ s.outcome = status.outcome /\ s.type = status.type
      /\ s.notify_event_or_lazy_lock = status.notify_event_or_lazy_lock
      /\ s.notify_address = status.notify_address
      /\ s.downstream_count = n
  BY <1>1, <1>5, <1>6 DEF Statuses
<1>10. CountDecAllowed(status, Policy(c))
  BY <1>4 DEF CountDecAllowed
<1> HIDE DEF s
<1>11. LiveWord(s)
  BY <1>1, <1>7, <1>8, <1>9 DEF LiveWord
<1> QED
  BY <1>9, <1>10, <1>11 DEF n, s

(* Registration of a waiter: future_wait_eager().                          *)
LEMMA WaitRegisterStep ==
  ASSUME IInv, NEW c \in Clients, WaitRegister(c)
  PROVE  IInv'
<1> USE DEF WaitRegister, Continue
<1>0. TypeOK /\ pc[c] = "register" /\ LiveWord(status) /\ LocFitsCall(c) /\ ClientKnows(c)
  BY DEF IInv, ClientKnows
<1>1. snap[c] \in Statuses /\ status \in Statuses
  BY <1>0 DEF TypeOK
<1>2. /\ Registered(c) \in Statuses
      /\ Registered(c).available = snap[c].available
      /\ Registered(c).state = snap[c].state
      /\ Registered(c).outcome = snap[c].outcome
      /\ Registered(c).type = snap[c].type
      /\ Registered(c).notify_event_or_lazy_lock = snap[c].notify_event_or_lazy_lock
      /\ Registered(c).notify_address
      /\ Registered(c).downstream_count =
           IF call[c] \in WaitCalls THEN snap[c].downstream_count + 1 ELSE snap[c].downstream_count
      /\ LiveWord(Registered(c))
  BY <1>0, <1>1, RegisteredWord
<1>5. CASE Registered(c) = snap[c] /\ UNCHANGED status
  <2>1. call[c] \notin WaitCalls /\ snap[c].notify_address
    BY <1>1, <1>2, <1>5 DEF Statuses
  <2>2. TypeOK'
    BY <1>0, <1>2 DEF TypeOK, ClientLocs, workerVars
  <2>3. LocalTo(c) /\ pc'[c] = "futex" /\ snap'[c] = snap[c] /\ call' = call /\ ret' = ret
    BY <1>0, <1>5 DEF LocalTo, TypeOK
  <2>4. ~Holds(c) /\ ~Holds(c)'
    BY <2>1, <2>3 DEF Holds
  <2>5. LocFitsCall(c)' /\ ClientKnows(c)'
    BY <1>0, <2>1, <2>3 DEF LocFitsCall, ClientKnows, Retired, LiveWord, LocalTo, WaitCalls, FinishCalls
  <2>6. TrueWaitKnows'
    BY <1>0, <2>3 DEF IInv, TrueWaitKnows, TrueWait, Finishing, LocalTo
  <2>7. \A d \in Clients : d # c => ~Finishing(d) /\ (Finishing(c)' => pc[d] = "idle")
    BY <1>0, <2>3 DEF IInv, FinisherAlone, Finishing
  <2> QED
    BY <2>2, <2>3, <2>4, <2>5, <2>6, <2>7, LocalStep DEF IInv, WaitMaxNeverFails, Accepted
<1>6. CASE Registered(c) # snap[c] /\ status = snap[c] /\ status' = Registered(c)
  <2>1. TypeOK'
    BY <1>0, <1>2, <1>6 DEF TypeOK, ClientLocs, workerVars
  <2>2. /\ pc'[c] = "futex" /\ snap'[c] = Registered(c) /\ call' = call /\ ret' = ret
        /\ \A d \in Clients : d # c => pc'[d] = pc[d] /\ snap'[d] = snap[d]
    BY <1>0 DEF TypeOK
  <2>3. Forward
    BY <1>0, <1>1, <1>2, <1>6 DEF Forward, LiveWord
  <2>4. DownstreamCountExact'
    <3>1. CASE call[c] \in WaitCalls
      <4>1. Holders' = Holders \cup {c} /\ c \notin Holders
        BY <1>0, <2>2, <3>1 DEF Holders, Holds
      <4>2. Cardinality(Holders') = Cardinality(Holders) + 1
        BY <4>1, HoldersFinite, FS_AddElement
      <4> QED
        BY <1>2, <1>6, <3>1, <4>2 DEF IInv, DownstreamCountExact
    <3>2. CASE call[c] \notin WaitCalls
      <4>1. \A d \in Clients : Holds(d)' <=> Holds(d)
        BY <2>2, <3>2 DEF Holds
      <4> QED
        BY <1>2, <1>6, <3>2, <4>1, CountKept DEF IInv
    <3> QED
      BY <3>1, <3>2
  <2>5. LocFitsCall(c)' /\ ClientKnows(c)'
    <3>1. Retired(c)' <=> Retired(c)
      BY <1>0, <2>2 DEF Retired
    <3>2. LiveWord(snap[c])'
      BY <1>2, <2>2 DEF LiveWord
    <3> QED
      BY <1>0, <1>2, <1>6, <2>2, <2>3, <3>1, <3>2 DEF LocFitsCall, ClientKnows, Forward
  <2>6. TrueWaitKnows'
    BY <1>0, <1>2, <1>6, <2>2, ZeroWord DEF IInv, TrueWaitKnows, TrueWait, Finishing
  <2>7. CancelVerdictStands'
    BY <1>2, <1>6, <2>2, <1>0, ZeroWord DEF IInv, CancelVerdictStands, Accepted
  <2> QED
    BY <1>0, <2>1, <2>2, <2>3, <2>4, <2>5, <2>6, <2>7, ForwardStep DEF IInv, WaitMaxNeverFails, Finishing
<1> QED
  BY <1>5, <1>6

(* The end of a wait: future_downstream_count_dec().                       *)
LEMMA WaitReleaseStep ==
  ASSUME IInv, NEW c \in Clients, WaitRelease(c)
  PROVE  IInv'
<1> USE DEF WaitRelease, Return, Returning, Continue
<1>0. TypeOK /\ pc[c] = "release" /\ LiveWord(status) /\ LocFitsCall(c) /\ ClientKnows(c)
  BY DEF IInv, ClientKnows
<1>1. call[c] \in {"wait_some", "wait_max"} /\ Holds(c) /\ status \in Statuses
  BY <1>0 DEF TypeOK, LocFitsCall, Holds, WaitCalls
<1>2. /\ pc'[c] = "idle" /\ call' = call
      /\ ret'[c] = IF status.state = "RESULT" THEN "true" ELSE "false"
      /\ \A d \in Clients : d # c => pc'[d] = pc[d] /\ snap'[d] = snap[d] /\ ret'[d] = ret[d]
  BY <1>0 DEF TypeOK
<1>3. /\ Holders' = Holders \ {c} /\ c \in Holders
      /\ Cardinality(Holders') = Cardinality(Holders) - 1
      /\ Cardinality(Holders') \in Nat
  <2>1. Holders' = Holders \ {c} /\ c \in Holders
    BY <1>1, <1>2 DEF Holders, Holds
  <2>2. IsFiniteSet(Holders')
    BY <2>1, HoldersFinite, FS_RemoveElement
  <2> QED
    BY <2>1, <2>2, HoldersFinite, FS_RemoveElement, FS_CardinalityType
<1>5. /\ status' \in Statuses /\ LiveWord(status')
      /\ status'.available = status.available
      /\ status'.state = status.state
      /\ status'.outcome = status.outcome
      /\ status'.notify_address = status.notify_address
      /\ status'.downstream_count = status.downstream_count - 1
  BY <1>0, ReleasedWord
<1>6. TypeOK'
  BY <1>0, <1>5, ZeroWord DEF TypeOK, ClientLocs, workerVars
<1>7. LiveWord(status)'
  BY <1>5 DEF LiveWord
<1>8. Forward
  BY <1>0, <1>5, <1>7 DEF Forward
<1>9. DownstreamCountExact'
  BY <1>3, <1>5 DEF IInv, DownstreamCountExact
<1>10. LocFitsCall(c)' /\ ClientKnows(c)'
  BY <1>2 DEF LocFitsCall, ClientKnows
<1>11. \A d \in Clients : ~Finishing(d)' /\ ~Finishing(d)
  BY <1>0, <1>1, <1>2 DEF IInv, FinisherAlone, Finishing, FinishCalls
<1>12. TrueWaitKnows'
  BY <1>0, <1>2, <1>5, <1>11, ZeroWord DEF IInv, TrueWaitKnows, TrueWait
<1>13. CancelVerdictStands'
  BY <1>0, <1>1, <1>2, <1>5, ZeroWord DEF IInv, CancelVerdictStands, Accepted, CancelCalls
<1>14. ~(call'[c] = "wait_max" /\ ret'[c] = "false")
  BY <1>0, <1>2 DEF ClientKnows
<1> QED
  BY <1>0, <1>2, <1>6, <1>8, <1>9, <1>10, <1>11, <1>12, <1>13, <1>14, ForwardStep

(* An accepted cancelation: the CAS of udipe_cancel().                     *)
LEMMA CancelSwapStep ==
  ASSUME IInv, NEW c \in Clients, CancelSwap(c)
  PROVE  IInv'
<1> USE DEF CancelSwap, CancelVerdict, Return, Returning, Continue
<1>0. TypeOK /\ pc[c] = "cancel" /\ LiveWord(status) /\ LocFitsCall(c) /\ ClientKnows(c)
  BY DEF IInv, ClientKnows
<1>1. status \in Statuses /\ status.outcome = "UNKNOWN" /\ status.state = "PROCESSING"
  BY <1>0 DEF TypeOK, ClientKnows, LiveWord
<1>2. /\ status' \in Statuses
      /\ status'.available = status.available
      /\ status'.state = "CANCELING"
      /\ status'.outcome = "FAILURE_CANCELED"
      /\ status'.type = status.type
      /\ status'.notify_event_or_lazy_lock = status.notify_event_or_lazy_lock
      /\ status'.notify_address = status.notify_address
      /\ status'.downstream_count = status.downstream_count
  BY <1>0, <1>1 DEF UsesWorkerThread, LiveWord, Statuses, States, Outcomes
<1>3. /\ call' = call /\ ret'[c] = "true"
      /\ \/ pc'[c] = "retire" /\ snap'[c] = status' /\ call[c] = "cancel_finish"
         \/ pc'[c] = "idle"
      /\ \A d \in Clients : d # c => pc'[d] = pc[d] /\ snap'[d] = snap[d] /\ ret'[d] = ret[d]
  BY <1>0 DEF TypeOK
<1>4. TypeOK'
  BY <1>0, <1>2, ZeroWord DEF TypeOK, ClientLocs, workerVars
<1>5. LiveWord(status)'
  BY <1>0, <1>2 DEF LiveWord
<1>6. Forward
  BY <1>0, <1>1, <1>2, <1>5 DEF Forward
<1>7. call[c] \in CancelCalls
  BY <1>0 DEF LocFitsCall
<1>8. DownstreamCountExact'
  <2>1. \A d \in Clients : Holds(d)' <=> Holds(d)
    BY <1>0, <1>3 DEF Holds
  <2> QED
    BY <1>2, <2>1, CountKept DEF IInv
<1>9. LocFitsCall(c)' /\ ClientKnows(c)'
  <2>1. CASE pc'[c] = "idle"
    BY <2>1 DEF LocFitsCall, ClientKnows
  <2>2. CASE pc'[c] = "retire" /\ snap'[c] = status' /\ call[c] = "cancel_finish"
    <3>1. Finishing(c) /\ ~Holds(c)
      BY <1>0, <2>2 DEF Finishing, FinishCalls, Holds
    <3>2. \A d \in Clients : ~Holds(d)
      BY <3>1 DEF Holds, IInv, FinisherAlone
    <3>3. status.downstream_count = 0
      BY <3>2, NoHolders DEF IInv
    <3>4. status.available
      BY <1>0 DEF ClientKnows, Retired
    <3>5. LiveWord(snap[c])'
      BY <1>5, <2>2 DEF LiveWord
    <3> QED
      BY <1>2, <1>3, <1>5, <2>2, <3>3, <3>4, <3>5 DEF LocFitsCall, ClientKnows, Retired, FinishCalls
  <2> QED
    BY <1>3, <2>1, <2>2
<1>10. TrueWaitKnows'
  BY <1>1, <1>3, <1>7, ZeroWord, <1>0 DEF IInv, TrueWaitKnows, TrueWait, CancelCalls, WaitCalls
<1>11. CancelVerdictStands'
  BY <1>0, <1>1, <1>2, <1>3, ZeroWord DEF IInv, CancelVerdictStands, Accepted
<1> QED
  BY <1>0, <1>3, <1>4, <1>6, <1>8, <1>9, <1>10, <1>11, ForwardStep DEF Finishing

(* The CAS of future_finish() that withdraws the future.                   *)
LEMMA RetireSwapStep ==
  ASSUME IInv, NEW c \in Clients, RetireSwap(c)
  PROVE  IInv'
<1> USE DEF RetireSwap, Continue
<1>0. TypeOK /\ pc[c] = "retire" /\ LiveWord(status) /\ LocFitsCall(c) /\ ClientKnows(c)
  BY DEF IInv, ClientKnows
<1>1. status \in Statuses /\ status.downstream_count = 0 /\ status.available
  BY <1>0 DEF TypeOK, ClientKnows
<1>2. /\ status' \in Statuses
      /\ ~status'.available
      /\ status'.state = status.state
      /\ status'.outcome = status.outcome
      /\ status'.type = status.type
      /\ status'.notify_event_or_lazy_lock = status.notify_event_or_lazy_lock
      /\ status'.notify_address = status.notify_address
      /\ status'.downstream_count = 0
  BY <1>0, <1>1 DEF Statuses
<1>3. /\ call' = call /\ ret' = ret /\ snap'[c] = status'
      /\ pc'[c] = IF status.state = "RESULT" THEN "collect" ELSE "wait"
      /\ \A d \in Clients : d # c => pc'[d] = pc[d] /\ snap'[d] = snap[d]
  BY <1>0 DEF TypeOK
<1>4. TypeOK'
  BY <1>0, <1>2 DEF TypeOK, ClientLocs, workerVars
<1>5. LiveWord(status)'
  BY <1>0, <1>1, <1>2 DEF LiveWord
<1>6. Finishing(c) /\ call[c] \in FinishCalls /\ \A d \in Clients : d # c => pc[d] = "idle"
  BY <1>0 DEF LocFitsCall, Finishing, IInv, FinisherAlone
<1>7. DownstreamCountExact'
  <2>1. \A d \in Clients : Holds(d)' <=> Holds(d)
    BY <1>0, <1>3 DEF Holds
  <2> QED
    BY <1>1, <1>2, <2>1, CountKept DEF IInv
<1>8. \A d \in Clients : LocFitsCall(d)' /\ ClientKnows(d)'
  <2> TAKE d \in Clients
  <2>1. CASE d # c
    BY <1>3, <1>6, <2>1 DEF LocFitsCall, ClientKnows
  <2>2. CASE d = c
    <3>1. LiveWord(snap[c])'
      BY <1>3, <1>5 DEF LiveWord
    <3>2. Retired(c)'
      BY <1>3, <1>6 DEF Retired
    <3> QED
      BY <1>2, <1>3, <1>5, <1>6, <2>2, <3>1, <3>2 DEF LocFitsCall, ClientKnows
  <2> QED
    BY <2>1, <2>2
<1>9. FinisherAlone'
  BY <1>3, <1>6 DEF FinisherAlone, Finishing
<1>10. \A w \in Workers : WorkerKnows(w)'
  BY <1>2, <1>5 DEF IInv, WorkerKnows, InCharge, workerVars, LiveWord
<1>11. OneInCharge'
  BY DEF IInv, OneInCharge, InCharge, workerVars
<1>12. CancelVerdictStands' /\ PayloadIsOwners' /\ WaitMaxNeverFails'
  BY <1>0, <1>2, <1>3, ZeroWord DEF IInv, CancelVerdictStands, Accepted, PayloadIsOwners, WaitMaxNeverFails
<1>13. TrueWaitKnows'
  BY <1>0, <1>2, <1>3, <1>6, ZeroWord DEF IInv, TrueWaitKnows, TrueWait, Finishing
<1> QED
  BY <1>4, <1>5, <1>7, <1>8, <1>9, <1>10, <1>11, <1>12, <1>13 DEF IInv

(* The end of a life: future_liberate() zeroes the word.                   *)
LEMMA CollectStep ==
  ASSUME IInv, NEW c \in Clients, Collect(c)
  PROVE  IInv'
<1> USE DEF Collect, Return, Continue
<1>0. TypeOK /\ pc[c] = "collect" /\ LiveWord(status) /\ LocFitsCall(c) /\ ClientKnows(c)
  BY DEF IInv, ClientKnows
<1>1. Finishing(c) /\ call[c] \in FinishCalls /\ \A d \in Clients : d # c => pc[d] = "idle"
  BY <1>0 DEF LocFitsCall, Finishing, IInv, FinisherAlone
<1>2. \A d \in Clients : pc'[d] = "idle"
  BY <1>0, <1>1 DEF TypeOK
<1>3. ResultOf(snap[c]) \in Results
  BY <1>0 DEF ResultOf, Results, TypeOK
<1>4. TypeOK'
  BY <1>0, <1>3, ZeroWord DEF TypeOK, ClientLocs, workerVars
<1>5. \A d \in Clients : LocFitsCall(d)' /\ ClientKnows(d)'
  BY <1>2 DEF LocFitsCall, ClientKnows
<1>6. FinisherAlone' /\ DownstreamCountExact'
  <2>1. Holders' = {}
    BY <1>2 DEF Holders, Holds
  <2> QED
    BY <1>2, <2>1, FS_EmptySet DEF FinisherAlone, DownstreamCountExact, ZeroStatus
<1>7. \A w \in Workers : ~InCharge(w) /\ ~InCharge(w)'
  BY <1>0 DEF IInv, WorkerKnows, ClientKnows, InCharge, workerVars
<1>8. (\A w \in Workers : WorkerKnows(w)') /\ OneInCharge'
  BY <1>7 DEF WorkerKnows, OneInCharge, InCharge
<1>9. CancelVerdictStands' /\ PayloadIsOwners' /\ WaitMaxNeverFails'
  BY DEF IInv, CancelVerdictStands, Accepted, PayloadIsOwners, WaitMaxNeverFails, ZeroStatus
<1>10. TrueWaitKnows'
  BY <1>2 DEF TrueWaitKnows, Finishing
<1> QED
  BY <1>4, <1>5, <1>6, <1>8, <1>9, <1>10 DEF IInv

(* A new life: udipe_start_custom().                                       *)
LEMMA StartCustomStep ==
  ASSUME IInv, NEW w \in Workers, StartCustom(w)
  PROVE  IInv'
<1> USE DEF StartCustom
<1>0. TypeOK /\ ~LiveWord(status)
  BY ZeroWord DEF IInv
<1>1. \A d \in Clients : pc[d] = "idle" /\ pc'[d] = "idle"
  BY <1>0 DEF IInv, ClientKnows
<1>2. InitialCustomStatus \in Statuses /\ LiveWord(InitialCustomStatus)
  BY HoldersFinite DEF InitialCustomStatus, Statuses, States, Outcomes, Types, LiveWord
<1>3. TypeOK'
  BY <1>0, <1>2 DEF TypeOK, WorkerLocs, Results, NoResult, NoArgs
<1>4. LiveWord(status)'
  BY <1>2 DEF LiveWord
<1>5. \A d \in Clients : LocFitsCall(d)' /\ ClientKnows(d)'
  BY <1>1 DEF LocFitsCall, ClientKnows
<1>6. FinisherAlone' /\ DownstreamCountExact'
  <2>1. Holders' = {}
    BY <1>1 DEF Holders, Holds
  <2> QED
    BY <1>1, <2>1, FS_EmptySet DEF FinisherAlone, DownstreamCountExact, InitialCustomStatus
<1>7. \A v \in Workers : ~InCharge(v) /\ (v # w => wpc'[v] = wpc[v])
  BY <1>0 DEF IInv, WorkerKnows, TypeOK
<1>8. (\A v \in Workers : WorkerKnows(v)') /\ OneInCharge'
  <2>1. wpc'[w] = "running"
    BY <1>0 DEF TypeOK
  <2> QED
    BY <2>1, <1>4, <1>7 DEF WorkerKnows, OneInCharge, InCharge, InitialCustomStatus
<1>9. CancelVerdictStands' /\ PayloadIsOwners' /\ WaitMaxNeverFails'
  BY DEF CancelVerdictStands, Accepted, PayloadIsOwners, WaitMaxNeverFails, InitialCustomStatus, CancelCalls
<1>10. TrueWaitKnows'
  BY DEF TrueWaitKnows, TrueWait, WaitCalls
<1> QED
  BY <1>3, <1>4, <1>5, <1>6, <1>8, <1>9, <1>10 DEF IInv

-----------------------------------------------------------------------------
(* Steps of the workers.                                                   *)

(* A step of the worker in charge that leaves the word and the clients     *)
(* alone: a poll, the entry of a call, or a lost race.                     *)
LEMMA WorkerLocalStep ==
  ASSUME IInv, NEW w \in Workers, TypeOK', InCharge(w), WorkerKnows(w)',
         UNCHANGED <<status, clientVars>>,
         \A v \in Workers : v # w => wpc'[v] = wpc[v] /\ wsnap'[v] = wsnap[v]
  PROVE  IInv'
<1>1. LiveWord(status) /\ status.state \in {"PROCESSING", "CANCELING"}
  BY DEF IInv, WorkerKnows
<1>2. LiveWord(status)'
  BY <1>1 DEF LiveWord
<1>3. \A c \in Clients : LocFitsCall(c)' /\ ClientKnows(c)'
  BY ClientFrame DEF IInv, clientVars
<1>4. FinisherAlone' /\ CancelVerdictStands' /\ WaitMaxNeverFails' /\ TrueWaitKnows'
  BY DEF IInv, clientVars, FinisherAlone, Finishing, CancelVerdictStands, Accepted,
         WaitMaxNeverFails, TrueWaitKnows, TrueWait
<1>5. DownstreamCountExact'
  BY CountKept DEF IInv, Holds, clientVars
<1>6. \A v \in Workers : v # w => ~InCharge(v)
  BY DEF IInv, OneInCharge
<1>7. \A v \in Workers : WorkerKnows(v)'
  BY <1>6 DEF WorkerKnows, InCharge
<1>8. OneInCharge'
  BY <1>6 DEF OneInCharge, InCharge
<1>9. PayloadIsOwners'
  BY <1>1 DEF PayloadIsOwners, LiveWord
<1> QED
  BY <1>2, <1>3, <1>4, <1>5, <1>7, <1>8, <1>9 DEF IInv

(* udipe_custom_canceled(), the entry of udipe_custom_acknowledge_cancel() *)
(* and the failed swaps of both compare-and-swap loops.                    *)
LEMMA WorkerPollStep ==
  ASSUME IInv, NEW w \in Workers,
         CustomCanceled(w) \/ PublishRetry(w) \/ Acknowledge(w) \/ AcknowledgeRetry(w)
  PROVE  IInv'
<1> USE DEF CustomCanceled, PublishRetry, Acknowledge, AcknowledgeRetry, WorkerContinue
<1>1. TypeOK /\ WorkerKnows(w) /\ InCharge(w)
  BY DEF IInv, InCharge
<1>2. LiveWord(status) /\ status.state \in {"PROCESSING", "CANCELING"}
  BY <1>1 DEF WorkerKnows
<1>3. TypeOK'
  BY <1>1, ZeroWord DEF TypeOK, WorkerLocs, clientVars
<1>4. /\ \A v \in Workers : v # w => wpc'[v] = wpc[v] /\ wsnap'[v] = wsnap[v]
      /\ \/ wpc'[w] = "told" /\ status.state = "CANCELING"
         \/ wpc'[w] = "publish" /\ status.state # "CANCELING" /\ wsnap'[w] = status /\ wpc[w] = "publish"
         \/ wpc'[w] = "ack" /\ wsnap'[w] = status /\ wpc[w] \in {"told", "ack"}
  BY <1>1 DEF TypeOK
<1>5. WorkerKnows(w)'
  BY <1>1, <1>2, <1>4 DEF WorkerKnows, InCharge, LiveWord
<1> QED
  BY <1>1, <1>3, <1>4, <1>5, WorkerLocalStep

(* The entry of udipe_custom_try_set_result().                             *)
LEMMA TrySetResultStep ==
  ASSUME IInv, NEW w \in Workers, NEW a \in Args, TrySetResult(w, a)
  PROVE  IInv'
<1> USE DEF TrySetResult, WorkerContinue
<1>1. TypeOK /\ WorkerKnows(w) /\ InCharge(w)
  BY DEF IInv, InCharge
<1>2. LiveWord(status) /\ status.state \in {"PROCESSING", "CANCELING"}
  BY <1>1 DEF WorkerKnows
<1>3. TypeOK'
  BY <1>1, ZeroWord DEF TypeOK, WorkerLocs, clientVars, Args
<1>4. /\ \A v \in Workers : v # w => wpc'[v] = wpc[v] /\ wsnap'[v] = wsnap[v]
      /\ \/ wpc'[w] = "told" /\ status.state = "CANCELING"
         \/ /\ wpc'[w] = "publish" /\ status.state # "CANCELING" /\ wsnap'[w] = status
            /\ payload' = args'.payload
  BY <1>1 DEF TypeOK
<1>5. WorkerKnows(w)'
  BY <1>1, <1>2, <1>4 DEF WorkerKnows, InCharge, LiveWord
<1> QED
  BY <1>1, <1>3, <1>4, <1>5, WorkerLocalStep

(* The worker's last word: the swap that installs STATE_RESULT, in         *)
(* udipe_custom_try_set_result() or udipe_custom_acknowledge_cancel().     *)
LEMMA WorkerSwapStep ==
  ASSUME IInv, NEW w \in Workers, PublishSwap(w) \/ AcknowledgeSwap(w)
  PROVE  IInv'
<1> USE DEF PublishSwap, AcknowledgeSwap, WorkerContinue
<1>1. TypeOK /\ WorkerKnows(w) /\ InCharge(w)
  BY DEF IInv, InCharge
<1>2. LiveWord(status) /\ status.state # "RESULT" /\ status \in Statuses
  BY <1>1 DEF WorkerKnows, TypeOK
<1>3. /\ status' \in Statuses
      /\ status'.available = status.available
      /\ status'.state = "RESULT"
      /\ status'.outcome = IF wpc[w] = "publish" THEN "SUCCESS" ELSE status.outcome
      /\ status'.type = status.type
      /\ status'.notify_event_or_lazy_lock = status.notify_event_or_lazy_lock
      /\ status'.notify_address = status.notify_address
      /\ status'.downstream_count = status.downstream_count
  <2>1. CASE PublishSwap(w)
    <3>1. status' = [status EXCEPT !.state = "RESULT", !.outcome = "SUCCESS"] /\ wpc[w] = "publish"
      BY <2>1
    <3> QED
      BY <1>2, <3>1 DEF Statuses, States, Outcomes
  <2>2. CASE AcknowledgeSwap(w)
    <3>1. status' = [status EXCEPT !.state = "RESULT"] /\ wpc[w] = "ack"
      BY <2>2
    <3> QED
      BY <1>2, <3>1 DEF Statuses, States
  <2> QED
    BY <2>1, <2>2
<1>4. wsnap'[w] = status' /\ wpc'[w] = "notify"
      /\ \A v \in Workers : v # w => wpc'[v] = wpc[v] /\ wsnap'[v] = wsnap[v]
  BY <1>1 DEF TypeOK
<1>5. TypeOK'
  BY <1>1, <1>3 DEF TypeOK, WorkerLocs, clientVars
<1>6. /\ wpc[w] = "publish" => /\ status.state = "PROCESSING" /\ status.outcome = "UNKNOWN"
                               /\ payload = args.payload
      /\ wpc[w] # "publish" => status.state = "CANCELING" /\ status.outcome = "FAILURE_CANCELED"
  BY <1>1, <1>2 DEF WorkerKnows, LiveWord
<1>7. LiveWord(status)'
  BY <1>2, <1>3, <1>6 DEF LiveWord
<1>8. \A c \in Clients : LocFitsCall(c)' /\ ClientKnows(c)'
  <2> TAKE c \in Clients
  <2>1. LocFitsCall(c) /\ ClientKnows(c)
    BY DEF IInv
  <2>2. (Retired(c)' <=> Retired(c)) /\ (LiveWord(snap[c]) => LiveWord(snap[c])') /\ LocFitsCall(c)'
    BY <2>1 DEF Retired, clientVars, LiveWord, LocFitsCall
  <2> QED
    BY <1>2, <1>3, <1>7, <2>1, <2>2 DEF ClientKnows, clientVars
<1>9. FinisherAlone' /\ WaitMaxNeverFails'
  BY DEF IInv, clientVars, FinisherAlone, Finishing, WaitMaxNeverFails
<1>10. DownstreamCountExact'
  BY <1>3, CountKept DEF IInv, Holds, clientVars
<1>11. \A v \in Workers : ~InCharge(v)'
  BY <1>1, <1>4 DEF IInv, OneInCharge, InCharge
<1>12. (\A v \in Workers : WorkerKnows(v)') /\ OneInCharge'
  BY <1>11 DEF WorkerKnows, OneInCharge, InCharge
<1>13. CancelVerdictStands'
  BY <1>2, <1>3, <1>6, ZeroWord DEF IInv, CancelVerdictStands, Accepted, clientVars
<1>14. PayloadIsOwners'
  BY <1>3, <1>6 DEF PayloadIsOwners
<1>15. TrueWaitKnows'
  BY <1>2, <1>3, ZeroWord DEF IInv, TrueWaitKnows, TrueWait, Finishing, clientVars
<1> QED
  BY <1>5, <1>7, <1>8, <1>9, <1>10, <1>12, <1>13, <1>14, <1>15 DEF IInv

(* The wakeup: future_notify_eager_outcome().                              *)
LEMMA NotifyStep ==
  ASSUME IInv, NEW w \in Workers, NotifyEagerOutcome(w)
  PROVE  IInv'
<1> USE DEF NotifyEagerOutcome, WorkerContinue
<1>1. TypeOK
  BY DEF IInv
<1>2. \A c \in Clients : pc'[c] = pc[c] \/ (pc[c] = "asleep" /\ pc'[c] = "check")
  BY <1>1 DEF TypeOK
<1>3. TypeOK'
  <2>1. pc' \in [Clients -> ClientLocs]
    BY <1>1, <1>2 DEF TypeOK, ClientLocs
  <2>2. wpc' \in [Workers -> WorkerLocs] /\ wsnap' \in [Workers -> Statuses]
    BY <1>1, ZeroWord DEF TypeOK, WorkerLocs
  <2> QED
    BY <1>1, <2>1, <2>2 DEF TypeOK
<1>4. status' = ZeroStatus \/ LiveWord(status)'
  BY DEF IInv, LiveWord
<1>5. \A c \in Clients : LocFitsCall(c)' /\ ClientKnows(c)'
  <2> TAKE c \in Clients
  <2>1. LocFitsCall(c) /\ ClientKnows(c)
    BY DEF IInv
  <2>2. CASE pc'[c] = pc[c]
    BY <2>1, <2>2, ClientFrame
  <2>3. CASE pc[c] = "asleep" /\ pc'[c] = "check"
    BY <2>1, <2>3 DEF LocFitsCall, ClientKnows, Retired, LiveWord
  <2> QED
    BY <1>2, <2>2, <2>3
<1>6. FinisherAlone'
  BY <1>2 DEF IInv, FinisherAlone, Finishing
<1>7. CancelVerdictStands' /\ PayloadIsOwners' /\ WaitMaxNeverFails'
  BY DEF IInv, CancelVerdictStands, Accepted, PayloadIsOwners, WaitMaxNeverFails
<1>8. TrueWaitKnows'
  BY <1>2 DEF IInv, TrueWaitKnows, TrueWait, Finishing
<1>9. DownstreamCountExact'
  <2>1. \A c \in Clients : Holds(c)' <=> Holds(c)
    BY <1>2 DEF Holds
  <2> QED
    BY <2>1, CountKept DEF IInv
<1>10. \A v \in Workers : (wpc'[v] = wpc[v] /\ wsnap'[v] = wsnap[v]) \/ wpc'[v] = "idle"
  BY <1>1 DEF TypeOK
<1>11. (\A v \in Workers : WorkerKnows(v)') /\ OneInCharge'
  BY <1>10 DEF IInv, WorkerKnows, OneInCharge, InCharge, LiveWord
<1> QED
  BY <1>3, <1>4, <1>5, <1>6, <1>7, <1>8, <1>9, <1>11 DEF IInv

-----------------------------------------------------------------------------
(* The invariant.                                                          *)

(* Every step of every thread preserves the inductive invariant.           *)
LEMMA NextIInv == IInv /\ [Next]_vars => IInv'
<1> SUFFICES ASSUME IInv, [Next]_vars PROVE IInv'
  OBVIOUS
<1>1. CASE UNCHANGED vars
  <2>1. /\ UNCHANGED <<status, payload, args, delivered, workerVars>>
        /\ pc' = pc /\ call' = call /\ snap' = snap /\ ret' = ret
    BY <1>1 DEF vars, clientVars
  <2>2. TypeOK' /\ (status' = ZeroStatus \/ LiveWord(status)')
    BY <2>1 DEF IInv, TypeOK, workerVars, LiveWord
  <2>3. \A c \in Clients : LocFitsCall(c)' /\ ClientKnows(c)'
    BY <2>1, ClientFrame DEF IInv
  <2>4. (\A w \in Workers : WorkerKnows(w)') /\ OneInCharge'
    BY <2>1, WorkerFrame DEF IInv
  <2>5. DownstreamCountExact'
    BY <2>1, CountKept DEF IInv, Holds
  <2>6. FinisherAlone' /\ CancelVerdictStands' /\ PayloadIsOwners' /\ TrueWaitKnows' /\ WaitMaxNeverFails'
    BY <2>1 DEF IInv, FinisherAlone, Finishing, CancelVerdictStands, Accepted, PayloadIsOwners,
                TrueWaitKnows, TrueWait, WaitMaxNeverFails
  <2> QED
    BY <2>2, <2>3, <2>4, <2>5, <2>6 DEF IInv
<1>2. ASSUME NEW c \in Clients, ClientCall(c) PROVE IInv'
  BY <1>2, WaitStep, CancelStep, FinishStep DEF ClientCall
<1>3. ASSUME NEW c \in Clients, ClientStep(c) PROVE IInv'
  BY <1>3, WaitRegisterStep, CancelSwapStep, RetireSwapStep, WaitRegisterRetryStep, FutexWaitStep,
     CheckWokenStep, WaitReleaseStep, CancelRetryStep, RetireRetryStep, CollectStep
  DEF ClientStep, ClientSwap
<1>4. ASSUME NEW c \in Clients, FutexReturn(c) PROVE IInv'
  BY <1>4, FutexWaitStep DEF FutexReturn
<1>5. ASSUME NEW w \in Workers, StartCustom(w) PROVE IInv'
  BY <1>5, StartCustomStep
<1>6. ASSUME NEW w \in Workers, WorkerStep(w) PROVE IInv'
  BY <1>6, WorkerPollStep, TrySetResultStep, WorkerSwapStep, NotifyStep DEF WorkerStep, WorkerSwap
<1> QED
  BY <1>1, <1>2, <1>3, <1>4, <1>5, <1>6 DEF Next

(* The inductive invariant holds in every reachable state, for any number  *)
(* of client threads up to MAX_DOWNSTREAM_COUNT, of workers and payloads.  *)
THEOREM Invariance == Spec => []IInv
  BY InitIInv, NextIInv, PTL DEF Spec

(* Every variable keeps its type; in particular downstream_count, which    *)
(* future_downstream_count_dec() decrements, never goes below zero.        *)
THEOREM TypeCorrect == Spec => []TypeOK
<1>1. IInv => TypeOK
  BY DEF IInv
<1> QED
  BY <1>1, Invariance, PTL

(* downstream_count counts the registered udipe_wait() calls exactly.      *)
THEOREM CountIsExact == Spec => []DownstreamCountExact
<1>1. IInv => DownstreamCountExact
  BY DEF IInv
<1> QED
  BY <1>1, Invariance, PTL

(* An accepted udipe_cancel() is never overridden nor accepted twice.      *)
THEOREM CancelStands == Spec => []CancelVerdictStands
<1>1. IInv => CancelVerdictStands
  BY DEF IInv
<1> QED
  BY <1>1, Invariance, PTL

(* OUTCOME_SUCCESS comes with the payload of this life's worker.           *)
THEOREM PayloadOwned == Spec => []PayloadIsOwners
<1>1. IInv => PayloadIsOwners
  BY DEF IInv
<1> QED
  BY <1>1, Invariance, PTL

(* udipe_wait() with UDIPE_DURATION_MAX does not report a timeout.         *)
THEOREM WaitMaxSucceeds == Spec => []WaitMaxNeverFails
<1>1. IInv => WaitMaxNeverFails
  BY DEF IInv
<1> QED
  BY <1>1, Invariance, PTL

(* After a successful udipe_wait(), udipe_finish() does not block.         *)
THEOREM FinishAfterWait == Spec => []TrueWaitMeansNoBlocking
<1>1. IInv => TrueWaitMeansNoBlocking
  BY DEF IInv, TrueWaitKnows, TrueWait, TrueWaitMeansNoBlocking, Finishing
<1> QED
  BY <1>1, Invariance, PTL

(* The verdict of udipe_wait() is right, with and without a time limit.    *)
THEOREM WaitVerdicts == Spec => []WaitVerdictsRight
BY WaitMaxSucceeds, FinishAfterWait, PTL DEF WaitVerdictsRight

(* No assertion of the future code fires, however stale the copy of the    *)
(* status word on which it is evaluated.                                   *)
THEOREM NoAssertFires == Spec => []AssertsHold
<1>1. ASSUME IInv, NEW c \in Clients PROVE ClientAsserts(c)
  <2>0. TypeOK /\ LocFitsCall(c) /\ ClientKnows(c) /\ snap[c] \in Statuses /\ status \in Statuses
    BY <1>1 DEF IInv, TypeOK
  <2>1. \A s \in Statuses : LiveWord(s) => DebugCheck(s, TRUE)
    BY CapacityAssumption, MaxCountAssumption, HoldersFinite
    DEF Statuses, LiveWord, DebugCheck, CountInRange, StateFitsType, OutcomeFitsState, NotifyFitsType,
        HasOutcome, HasDependencies, HasProcessing, UsesWorkerThread, UsesLazyLock, NetworkTypes
  <2>2. pc[c] # "idle" => LiveWord(snap[c]) /\ LiveWord(status)
    BY <2>0 DEF ClientKnows
  <2>3. pc[c] = "register" =>
          /\ snap[c].state # "RESULT"
          /\ CountIncAllowed(snap[c], Policy(c))
          /\ DebugCheck(Registered(c), TRUE)
    <3> SUFFICES ASSUME pc[c] = "register"
                 PROVE  CountIncAllowed(snap[c], Policy(c)) /\ DebugCheck(Registered(c), TRUE)
      BY <2>0 DEF ClientKnows
    <3>1. snap[c].downstream_count \in Nat
      BY <2>0 DEF Statuses
    <3>2. CountIncAllowed(snap[c], Policy(c))
      BY <2>0, <3>1, CapacityAssumption, MaxCountAssumption, HoldersFinite
      DEF CountIncAllowed, Policy, ClientKnows
    <3>3. Registered(c) \in Statuses /\ LiveWord(Registered(c))
      BY <2>0, RegisteredWord
    <3> QED
      BY <2>1, <3>2, <3>3
  <2>4. pc[c] = "release" =>
          /\ CountDecAllowed(status, Policy(c))
          /\ DebugCheck(CountDec(status, Policy(c)), TRUE)
    <3> SUFFICES ASSUME pc[c] = "release"
                 PROVE  CountDecAllowed(status, Policy(c)) /\ DebugCheck(CountDec(status, Policy(c)), TRUE)
      OBVIOUS
    <3>1. CountDecAllowed(status, Policy(c)) /\ CountDec(status, Policy(c)) \in Statuses
          /\ LiveWord(CountDec(status, Policy(c)))
      BY <1>1, ReleasedWord
    <3> QED
      BY <2>1, <3>1
  <2>5. pc[c] = "collect" => status.downstream_count = 0 /\ ~status.available
    BY <2>0 DEF ClientKnows, Retired, LocFitsCall, LiveWord
  <2> QED
    BY <2>0, <2>1, <2>2, <2>3, <2>4, <2>5 DEF ClientAsserts, ClientKnows, LiveWord
<1>2. ASSUME IInv, NEW w \in Workers PROVE WorkerAsserts(w)
  BY <1>2 DEF IInv, WorkerAsserts, WorkerKnows, InCharge, LiveWord, TypeOK, WorkerLocs
<1>3. IInv => AssertsHold
  BY <1>1, <1>2 DEF AssertsHold
<1> QED
  BY <1>3, Invariance, PTL

(* The outcome of a future is decided once (outcome.h).                    *)
THEOREM OutcomeIsFixed == Spec => OutcomeFixed
<1>1. IInv /\ [Next]_vars => [OutcomeFixedStep]_vars
  <2> SUFFICES ASSUME IInv, Next, status.outcome # "UNKNOWN", status' # status, status' # ZeroStatus
               PROVE  /\ status'.outcome = status.outcome
                      /\ status.state = "RESULT" => status'.state = "RESULT"
    BY DEF OutcomeFixedStep
  <2>0. status \in Statuses /\ LiveWord(status)
    BY DEF IInv, TypeOK, ZeroStatus
  <2>1. ASSUME NEW c \in Clients, ClientStep(c)
        PROVE  /\ status'.outcome = status.outcome
               /\ status.state = "RESULT" => status'.state = "RESULT"
    <3>0. ClientKnows(c) /\ snap[c] \in Statuses
      BY DEF IInv, TypeOK
    <3>1. CASE WaitRegister(c)
      BY <2>0, <3>0, <3>1 DEF WaitRegister, Registered, CountInc, Statuses
    <3>2. CASE CancelSwap(c)
      BY <3>0, <3>2 DEF CancelSwap, ClientKnows
    <3>3. CASE RetireSwap(c)
      BY <2>0, <3>3 DEF RetireSwap, Statuses
    <3>4. CASE WaitRelease(c)
      BY <2>0, <3>4 DEF WaitRelease, CountDec, Statuses
    <3>5. CASE Collect(c)
      BY <3>5 DEF Collect
    <3> QED
      BY <2>1, <3>1, <3>2, <3>3, <3>4, <3>5
      DEF ClientStep, ClientSwap, WaitRegisterRetry, FutexWait, CheckWoken, CancelRetry, RetireRetry, FinishWait
  <2>2. ASSUME NEW w \in Workers, WorkerStep(w) \/ StartCustom(w)
        PROVE  /\ status'.outcome = status.outcome
               /\ status.state = "RESULT" => status'.state = "RESULT"
    <3>1. WorkerKnows(w)
      BY DEF IInv
    <3>2. CASE StartCustom(w)
      BY <2>0, <3>2, ZeroWord DEF StartCustom
    <3>3. CASE PublishSwap(w)
      BY <2>0, <3>1, <3>3 DEF PublishSwap, WorkerKnows, InCharge, LiveWord
    <3>4. CASE AcknowledgeSwap(w)
      BY <2>0, <3>4 DEF AcknowledgeSwap, Statuses
    <3> QED
      BY <2>2, <3>2, <3>3, <3>4
      DEF WorkerStep, WorkerSwap, CustomCanceled, TrySetResult, PublishRetry, Acknowledge, AcknowledgeRetry,
          NotifyEagerOutcome
  <2> QED
    BY <2>1, <2>2 DEF Next, ClientCall, Wait, Cancel, Finish, FutexReturn, FutexSpurious, FutexInterrupted
<1> QED
  BY <1>1, Invariance, PTL DEF Spec, OutcomeFixed

-----------------------------------------------------------------------------
(* The refinement.                                                         *)

(* Words of equal state and outcome stand for the same phase and value of  *)
(* the promise, as long as the payload is not touched.                     *)
LEMMA SameStutter ==
  ASSUME status'.state = status.state, status'.outcome = status.outcome,
         payload' = payload \/ status.outcome # "SUCCESS", delivered' = delivered,
         status.outcome \in {"UNKNOWN", "SUCCESS", "FAILURE_CANCELED"}
  PROVE  UNCHANGED <<PhaseOf(status), ValueOf(status), delivered>>
<1>1. PhaseOf(status)' = PhaseOf(status)
  BY DEF PhaseOf
<1>2. ValueOf(status)' = ValueOf(status)
  BY DEF ValueOf, ResultOf
<1> QED
  BY <1>1, <1>2

(* Every step of the future is a step of the promise or leaves it alone.   *)
LEMMA StepRefines ==
  ASSUME IInv, IInv', [Next]_vars
  PROVE  [P!PromiseNext]_(P!promiseVars)
<1> DEFINE Goal == [P!PromiseNext]_(P!promiseVars)
<1>0. /\ status \in Statuses
      /\ status = ZeroStatus \/ LiveWord(status)
      /\ status.outcome \in {"UNKNOWN", "SUCCESS", "FAILURE_CANCELED"}
  BY DEF IInv, TypeOK, ZeroStatus, LiveWord
<1>1. ASSUME status'.state = status.state, status'.outcome = status.outcome,
             payload' = payload \/ status.outcome # "SUCCESS", delivered' = delivered
      PROVE  Goal
  BY <1>0, <1>1, SameStutter DEF P!promiseVars
<1>2. CASE UNCHANGED vars
  BY <1>1, <1>2 DEF vars
<1>3. ASSUME NEW c \in Clients, ClientCall(c) \/ FutexReturn(c)
      PROVE  Goal
  BY <1>1, <1>3 DEF ClientCall, Wait, Cancel, Finish, FutexReturn, FutexSpurious, FutexInterrupted
<1>4. ASSUME NEW c \in Clients, ClientStep(c)
      PROVE  Goal
  <2>0. ClientKnows(c) /\ LocFitsCall(c) /\ snap[c] \in Statuses
    BY DEF IInv, TypeOK
  <2>1. CASE WaitRegister(c)
    <3>1. status'.state = status.state /\ status'.outcome = status.outcome
      BY <2>0, <2>1, RegisteredWord DEF WaitRegister
    <3> QED
      BY <1>1, <2>1, <3>1 DEF WaitRegister
  <2>2. CASE CancelSwap(c)
    <3>1. status.state = "PROCESSING" /\ status.outcome = "UNKNOWN" /\ LiveWord(status)
      BY <2>0, <2>2 DEF CancelSwap, ClientKnows, LiveWord
    <3>2. status'.state = "CANCELING" /\ status'.outcome = "FAILURE_CANCELED"
      BY <1>0, <2>2, <3>1 DEF CancelSwap, UsesWorkerThread, LiveWord, Statuses
    <3>3. P!Abandon
      BY <2>2, <3>1, <3>2 DEF P!Abandon, P!Canceled, PhaseOf, ValueOf, ResultOf, CancelSwap
    <3> QED
      BY <3>3 DEF P!PromiseNext
  <2>3. CASE RetireSwap(c)
    <3>1. status'.state = status.state /\ status'.outcome = status.outcome
      BY <1>0, <2>3 DEF RetireSwap, Statuses
    <3> QED
      BY <1>1, <2>3, <3>1 DEF RetireSwap
  <2>4. CASE WaitRelease(c)
    <3>1. status'.state = status.state /\ status'.outcome = status.outcome
      BY <2>4, ReleasedWord DEF WaitRelease
    <3> QED
      BY <1>1, <2>4, <3>1 DEF WaitRelease
  <2>5. CASE Collect(c)
    <3>1. /\ status.state = "RESULT" /\ LiveWord(status) /\ call[c] \in FinishCalls
          /\ snap[c].outcome = status.outcome
      BY <2>0, <2>5 DEF Collect, ClientKnows, LocFitsCall
    <3>2. PhaseOf(status) = "done" /\ ValueOf(status) = ResultOf(snap[c])
      BY <3>1 DEF PhaseOf, ValueOf, ResultOf, LiveWord
    <3>3. status' = ZeroStatus
      BY <2>5 DEF Collect
    <3>4. PhaseOf(status)' = "free" /\ ValueOf(status)' = P!Undecided
      BY <3>3 DEF PhaseOf, ValueOf, ZeroStatus, P!Undecided, NoResult
    <3>5. P!Deliver \/ P!Drop
      BY <2>5, <3>2, <3>4 DEF P!Deliver, P!Drop, Collect
    <3> QED
      BY <3>5 DEF P!PromiseNext
  <2> QED
    BY <1>1, <1>4, <2>1, <2>2, <2>3, <2>4, <2>5
    DEF ClientStep, ClientSwap, WaitRegisterRetry, FutexWait, CheckWoken, CancelRetry, RetireRetry, FinishWait
<1>5. ASSUME NEW w \in Workers, WorkerStep(w) \/ StartCustom(w)
      PROVE  Goal
  <2>0. WorkerKnows(w)
    BY DEF IInv
  <2>1. CASE StartCustom(w)
    <3>1. P!Begin
      BY <2>1 DEF P!Begin, P!Undecided, StartCustom, PhaseOf, ValueOf, ZeroStatus, InitialCustomStatus, NoResult
    <3> QED
      BY <3>1 DEF P!PromiseNext
  <2>2. CASE \E a \in Args : TrySetResult(w, a)
    <3>1. status' = status /\ delivered' = delivered /\ status.outcome # "SUCCESS"
      BY <2>0, <2>2 DEF TrySetResult, WorkerKnows, InCharge, LiveWord
    <3> QED
      BY <1>1, <3>1
  <2>3. CASE PublishSwap(w)
    <3>1. /\ status.state = "PROCESSING" /\ status.outcome = "UNKNOWN"
          /\ payload \in Payloads /\ payload' = payload /\ delivered' = delivered
      BY <2>0, <2>3 DEF PublishSwap, WorkerKnows, InCharge, LiveWord, Args
    <3>2. status'.state = "RESULT" /\ status'.outcome = "SUCCESS"
      BY <1>0, <2>3 DEF PublishSwap, Statuses
    <3>3. ValueOf(status)' = P!Completed(payload)
      BY <3>1, <3>2 DEF ValueOf, ResultOf, P!Completed
    <3>4. PhaseOf(status) = "pending" /\ PhaseOf(status)' = "done"
      BY <3>1, <3>2 DEF PhaseOf
    <3>5. P!Complete
      BY <3>1, <3>3, <3>4 DEF P!Complete
    <3> QED
      BY <3>5 DEF P!PromiseNext
  <2>4. CASE AcknowledgeSwap(w)
    <3>1. status.state = "CANCELING" /\ status.outcome = "FAILURE_CANCELED" /\ delivered' = delivered
      BY <2>0, <2>4 DEF AcknowledgeSwap, WorkerKnows, InCharge, LiveWord
    <3>2. status'.state = "RESULT" /\ status'.outcome = "FAILURE_CANCELED"
      BY <1>0, <2>4, <3>1 DEF AcknowledgeSwap, Statuses
    <3>3. P!Settle
      BY <3>1, <3>2 DEF P!Settle, PhaseOf, ValueOf, ResultOf
    <3> QED
      BY <3>3 DEF P!PromiseNext
  <2> QED
    BY <1>1, <1>5, <2>1, <2>2, <2>3, <2>4
    DEF WorkerStep, WorkerSwap, CustomCanceled, PublishRetry, Acknowledge, AcknowledgeRetry, NotifyEagerOutcome
<1> QED
  BY <1>2, <1>3, <1>4, <1>5 DEF Next

(* The future implements the promise, for any number of threads: each life *)
(* is decided once, and udipe_finish() returns what was decided.           *)
THEOREM FutureKeepsPromise == Spec => ImplementsPromise
<1>1. Init => P!PromiseInit
  BY DEF Init, P!PromiseInit, PhaseOf, ValueOf, ZeroStatus, P!Undecided, NoResult
<1>2. IInv /\ IInv' /\ [Next]_vars => [P!PromiseNext]_(P!promiseVars)
  BY StepRefines
<1> QED
  BY <1>1, <1>2, Invariance, PTL DEF Spec, ImplementsPromise, P!PromiseSpec
=============================================================================
