-------------------------- MODULE TimerFutureProofs -------------------------
EXTENDS TimerFuture, Integers, FiniteSetTheorems, TLAPS

(***************************************************************************)
(* Proofs about TimerFuture, for every set of clients and every value of   *)
(* MAX_DOWNSTREAM_COUNT: the outcome of a single-shot timer means what it  *)
(* says (TInv; the reference count plays no part in it, so that this       *)
(* invariant takes it for any integer), and the assertions of the calls    *)
(* hold as long as no wait has given up (RInv, which follows each          *)
(* reference).                                                             *)
(***************************************************************************)

Words == [downstream_count : Int, available : BOOLEAN, state : States,
          outcome : Outcomes, type : Types, notify_address : BOOLEAN,
          notify_event_or_lazy_lock : BOOLEAN]

Typed ==
  /\ status \in Words /\ snap \in [Clients -> Words]
  /\ readable \in BOOLEAN /\ reached \in BOOLEAN
  /\ pc \in [Clients -> Locs]
  /\ call \in [Clients -> WaitCalls \cup CancelCalls \cup FinishCalls \cup {"none"}]
  /\ ret \in [Clients -> {"none", "true", "false"}]

(* The timer expires for one of two reasons, and the word of the future    *)
(* tells which.                                                            *)
TimerFits ==
  /\ status # ZeroStatus => status.type = "TIMER_ONCE"
  /\ deadline = "past" => status.outcome = "FAILURE_CANCELED"
  /\ readable => reached \/ status.outcome # "UNKNOWN"

(* Which calls take a client where.                                        *)
LocFitsCall(c) ==
  /\ pc[c] \in {"inc", "revert"} => call[c] \in WaitCalls
  /\ pc[c] \in {"cancel", "rearm"} => call[c] \in CancelCalls
  /\ pc[c] \in {"retire", "wait", "collect"} => call[c] \in FinishCalls
  /\ pc[c] \in {"poll", "publish"} => call[c] \in WaitCalls \cup FinishCalls

(* What a client inside a call knows of the word and of its copy.          *)
ClientKnows(c) ==
  /\ pc[c] # "idle" => status # ZeroStatus /\ snap[c].type = "TIMER_ONCE"
  /\ pc[c] # "idle" /\ snap[c].outcome = "SUCCESS" => reached
  /\ pc[c] = "publish" => reached \/ status.outcome # "UNKNOWN"
  /\ pc[c] = "cancel" => snap[c].outcome = "UNKNOWN" /\ ret[c] # "true"
  /\ pc[c] = "rearm" => /\ status.outcome = "FAILURE_CANCELED"
                        /\ \A d \in Clients : ~Accepted(d) /\ (pc[d] = "rearm" => d = c)

(* The client that finishes the future is alone with it.                   *)
FinisherAlone ==
  \A c, d \in Clients :
    pc[c] # "idle" /\ call[c] \in FinishCalls /\ pc[d] # "idle" => c = d

TInv ==
  /\ Typed
  /\ TimerFits
  /\ \A c \in Clients : LocFitsCall(c) /\ ClientKnows(c)
  /\ FinisherAlone
  /\ SuccessOnlyAfterDeadline
  /\ CancelVerdictStands

-----------------------------------------------------------------------------
(* The zero word has no type and no outcome, the new one is unsettled.     *)
LEMMA ZeroWord ==
  /\ ZeroStatus \in Words /\ ZeroStatus.type = "INVALID"
  /\ ZeroStatus.outcome = "UNKNOWN" /\ ~ZeroStatus.available
  /\ ZeroStatus.downstream_count = 0
  BY DEF ZeroStatus, Words, States, Outcomes, Types, NetworkTypes

LEMMA NewWord ==
  /\ NewTimerStatus \in Words /\ NewTimerStatus.type = "TIMER_ONCE"
  /\ NewTimerStatus.outcome = "UNKNOWN"
  BY ZeroWord DEF NewTimerStatus, Words, States, Types

(* Counting references changes nothing else in a word.                     *)
LEMMA CountedWord ==
  ASSUME NEW s \in Words, NEW p
  PROVE  /\ CountInc(s, p) \in Words /\ CountDec(s, p) \in Words
         /\ CountInc(s, p).type = s.type /\ CountInc(s, p).outcome = s.outcome
         /\ CountDec(s, p).type = s.type /\ CountDec(s, p).outcome = s.outcome
  BY DEF Words, CountInc, CountDec

(* The word of a thread that saw the timer expire keeps an outcome that is *)
(* there already.                                                          *)
LEMMA SettledWord ==
  ASSUME NEW s \in Words, NEW p
  PROVE  /\ Settled(s, p) \in Words /\ Settled(s, p).type = s.type
         /\ Settled(s, p).outcome = IF s.outcome = "UNKNOWN" THEN "SUCCESS" ELSE s.outcome
<1> DEFINE counted == CountDec(s, p)
<1>1. counted \in Words /\ counted.type = s.type /\ counted.outcome = s.outcome
  BY CountedWord
<1>2. Settled(s, p) = [counted EXCEPT !.state = "RESULT",
                                      !.outcome = IF @ = "UNKNOWN" THEN "SUCCESS" ELSE @]
  BY DEF Settled
<1> HIDE DEF counted
<1> QED
  BY <1>1, <1>2 DEF Words, States, Outcomes

(* Cancelation and withdrawal of a word.                                   *)
LEMMA CanceledWord ==
  ASSUME NEW s \in Words
  PROVE  LET t == [s EXCEPT !.outcome = "FAILURE_CANCELED", !.state = "RESULT"]
         IN  t \in Words /\ t.type = s.type /\ t.outcome = "FAILURE_CANCELED"
  BY DEF Words, States, Outcomes

LEMMA RetiredWord ==
  ASSUME NEW s \in Words
  PROVE  LET t == [s EXCEPT !.available = FALSE]
         IN  t \in Words /\ t.type = s.type /\ t.outcome = s.outcome
  BY DEF Words

(* At the start nobody is in a call.                                       *)
LEMMA InitTInv == Init => TInv
<1> SUFFICES ASSUME Init PROVE TInv
  OBVIOUS
<1>1. Typed
  BY ZeroWord DEF Init, Typed, Locs, WaitCalls, CancelCalls, FinishCalls
<1>2. TimerFits /\ SuccessOnlyAfterDeadline
  BY ZeroWord DEF Init, TimerFits, SuccessOnlyAfterDeadline
<1>3. (\A c \in Clients : LocFitsCall(c) /\ ClientKnows(c)) /\ FinisherAlone
  BY DEF Init, LocFitsCall, ClientKnows, FinisherAlone
<1>4. CancelVerdictStands
  BY DEF Init, CancelVerdictStands, Accepted
<1> QED
  BY <1>1, <1>2, <1>3, <1>4 DEF TInv

(***************************************************************************)
(* A step of one client c within a life of the future: the type of the     *)
(* word stays, an outcome that was decided stays, and it remains to be     *)
(* shown what c knows afterwards.  It is the first to have its             *)
(* cancelation accepted, if it has.                                        *)
(***************************************************************************)
OnlyMoves(c) ==
  \A d \in Clients \ {c} : /\ pc'[d] = pc[d] /\ call'[d] = call[d]
                           /\ snap'[d] = snap[d] /\ ret'[d] = ret[d]

OutcomeKept ==
  /\ status # ZeroStatus /\ status'.type = status.type /\ reached' = reached
  /\ status.outcome # "UNKNOWN" => status'.outcome = status.outcome

LEMMA ClientFrame ==
  ASSUME TInv, Typed', NEW c \in Clients, OnlyMoves(c), OutcomeKept, TimerFits',
         (call' = call /\ pc[c] # "idle") \/ (\E k : Enter(c, k)),
         LocFitsCall(c)', ClientKnows(c)',
         status'.outcome = "SUCCESS" => reached,
         pc'[c] = "rearm" => status.outcome = "UNKNOWN",
         Accepted(c)' => \/ Accepted(c)
                         \/ /\ status'.outcome = "FAILURE_CANCELED"
                            /\ \A d \in Clients \ {c} : ~Accepted(d) /\ pc[d] # "rearm"
  PROVE  TInv'
<1>1. status'.type = "TIMER_ONCE" /\ status' # ZeroStatus
  BY ZeroWord DEF TInv, TimerFits, OutcomeKept
<1>2. ASSUME NEW d \in Clients, d # c PROVE LocFitsCall(d)'
  BY <1>2 DEF TInv, LocFitsCall, OnlyMoves
<1>3. ASSUME NEW d \in Clients, d # c PROVE Accepted(d)' <=> Accepted(d)
  BY <1>3 DEF Accepted, OnlyMoves
<1>4. ASSUME NEW d \in Clients, d # c PROVE ClientKnows(d)'
  <2>1. pc'[d] = pc[d] /\ snap'[d] = snap[d] /\ ret'[d] = ret[d] /\ reached' = reached
    BY <1>4 DEF OnlyMoves, OutcomeKept
  <2>2. /\ pc'[d] # "idle" => status' # ZeroStatus /\ snap'[d].type = "TIMER_ONCE"
        /\ pc'[d] # "idle" /\ snap'[d].outcome = "SUCCESS" => reached'
        /\ pc'[d] = "publish" => reached' \/ status'.outcome # "UNKNOWN"
        /\ pc'[d] = "cancel" => snap'[d].outcome = "UNKNOWN" /\ ret'[d] # "true"
    BY <1>1, <2>1 DEF TInv, ClientKnows, OutcomeKept
  <2>3. ASSUME pc'[d] = "rearm"
        PROVE  /\ status'.outcome = "FAILURE_CANCELED"
               /\ \A e \in Clients : ~Accepted(e)' /\ (pc'[e] = "rearm" => e = d)
    <3>1. /\ pc[d] = "rearm" /\ status.outcome = "FAILURE_CANCELED"
          /\ \A e \in Clients : ~Accepted(e) /\ (pc[e] = "rearm" => e = d)
      BY <2>1, <2>3 DEF TInv, ClientKnows
    <3>2. ~Accepted(c)' /\ pc'[c] # "rearm"
      BY <1>4, <3>1
    <3> QED
      BY <1>3, <1>4, <3>1, <3>2 DEF OutcomeKept, OnlyMoves
  <2> QED
    BY <2>2, <2>3 DEF ClientKnows
<1>5. FinisherAlone'
  <2>1. CASE call' = call /\ pc[c] # "idle"
    BY <2>1 DEF TInv, FinisherAlone, OnlyMoves
  <2>2. CASE \E k : Enter(c, k)
    BY <2>2 DEF TInv, Typed, FinisherAlone, OnlyMoves, Enter
  <2> QED
    BY <2>1, <2>2
<1>6. SuccessOnlyAfterDeadline'
  BY DEF SuccessOnlyAfterDeadline, OutcomeKept
<1>7. CancelVerdictStands'
  <2>1. ASSUME NEW d \in Clients, Accepted(d)' PROVE status'.outcome = "FAILURE_CANCELED"
    <3>1. Accepted(d) \/ status'.outcome = "FAILURE_CANCELED"
      BY <1>3, <2>1
    <3> QED
      BY <3>1 DEF TInv, CancelVerdictStands, OutcomeKept
  <2>2. ASSUME NEW d \in Clients, NEW e \in Clients, Accepted(d)', Accepted(e)' PROVE d = e
    BY <1>3, <2>2 DEF TInv, CancelVerdictStands
  <2> QED
    BY <2>1, <2>2 DEF CancelVerdictStands, Accepted
<1> QED
  BY <1>2, <1>4, <1>5, <1>6, <1>7 DEF TInv

(* The reference is taken.                                                 *)
LEMMA TryIncStep ==
  ASSUME TInv, NEW c \in Clients, TryInc(c)
  PROVE  TInv'
<1> USE DEF TryInc, Continue, TInv
<1>1. Typed'
  BY ZeroWord, CountedWord DEF Typed, timerVars, Locs, WaitCalls, CancelCalls,
     FinishCalls
<1>2. OnlyMoves(c) /\ OutcomeKept /\ TimerFits'
  BY ZeroWord, CountedWord DEF Typed, OnlyMoves, OutcomeKept, TimerFits, ClientKnows,
     timerVars
<1>3. (call' = call /\ pc[c] # "idle") /\ LocFitsCall(c)' /\ ClientKnows(c)'
  BY ZeroWord, CountedWord DEF Typed, LocFitsCall, ClientKnows, OutcomeKept,
     TimerFits, SuccessOnlyAfterDeadline, Accepted, timerVars, Locs, WaitCalls,
     CancelCalls, FinishCalls
<1>4. /\ status'.outcome = "SUCCESS" => reached
      /\ pc'[c] = "rearm" => status.outcome = "UNKNOWN"
      /\ Accepted(c)' => \/ Accepted(c)
                         \/ /\ status'.outcome = "FAILURE_CANCELED"
                            /\ \A d \in Clients \ {c} : ~Accepted(d) /\ pc[d] # "rearm"
  BY ZeroWord, CountedWord DEF Typed, SuccessOnlyAfterDeadline, CancelVerdictStands,
     ClientKnows, LocFitsCall, Accepted, Locs, WaitCalls, CancelCalls, FinishCalls
<1> QED
  BY <1>1, <1>2, <1>3, <1>4, ClientFrame

(* The reference is given back at once.                                    *)
LEMMA TryIncRevertStep ==
  ASSUME TInv, NEW c \in Clients, TryIncRevert(c)
  PROVE  TInv'
<1> USE DEF TryIncRevert, Return, Continue, TInv
<1>1. Typed'
  BY ZeroWord, CountedWord DEF Typed, timerVars, Locs, WaitCalls, CancelCalls,
     FinishCalls
<1>2. OnlyMoves(c) /\ OutcomeKept /\ TimerFits'
  BY ZeroWord, CountedWord DEF Typed, OnlyMoves, OutcomeKept, TimerFits, ClientKnows,
     timerVars
<1>3. (call' = call /\ pc[c] # "idle") /\ LocFitsCall(c)' /\ ClientKnows(c)'
  BY ZeroWord, CountedWord DEF Typed, LocFitsCall, ClientKnows, OutcomeKept,
     TimerFits, SuccessOnlyAfterDeadline, Accepted, timerVars, Locs, WaitCalls,
     CancelCalls, FinishCalls
<1>4. /\ status'.outcome = "SUCCESS" => reached
      /\ pc'[c] = "rearm" => status.outcome = "UNKNOWN"
      /\ Accepted(c)' => \/ Accepted(c)
                         \/ /\ status'.outcome = "FAILURE_CANCELED"
                            /\ \A d \in Clients \ {c} : ~Accepted(d) /\ pc[d] # "rearm"
  BY ZeroWord, CountedWord DEF Typed, SuccessOnlyAfterDeadline, CancelVerdictStands,
     ClientKnows, LocFitsCall, Accepted, Locs, WaitCalls, CancelCalls, FinishCalls
<1> QED
  BY <1>1, <1>2, <1>3, <1>4, ClientFrame

(* The timer has expired.                                                  *)
LEMMA PollReadyStep ==
  ASSUME TInv, NEW c \in Clients, PollReady(c)
  PROVE  TInv'
<1> USE DEF PollReady, Continue, TInv
<1>1. Typed'
  BY ZeroWord DEF Typed, timerVars, Locs, WaitCalls, CancelCalls, FinishCalls
<1>2. OnlyMoves(c) /\ OutcomeKept /\ TimerFits'
  BY ZeroWord DEF Typed, OnlyMoves, OutcomeKept, TimerFits, ClientKnows, timerVars
<1>3. (call' = call /\ pc[c] # "idle") /\ LocFitsCall(c)' /\ ClientKnows(c)'
  BY ZeroWord DEF Typed, LocFitsCall, ClientKnows, OutcomeKept, TimerFits,
     SuccessOnlyAfterDeadline, Accepted, timerVars, Locs, WaitCalls, CancelCalls,
     FinishCalls
<1>4. /\ status'.outcome = "SUCCESS" => reached
      /\ pc'[c] = "rearm" => status.outcome = "UNKNOWN"
      /\ Accepted(c)' => \/ Accepted(c)
                         \/ /\ status'.outcome = "FAILURE_CANCELED"
                            /\ \A d \in Clients \ {c} : ~Accepted(d) /\ pc[d] # "rearm"
  BY ZeroWord DEF Typed, SuccessOnlyAfterDeadline, CancelVerdictStands, ClientKnows,
     LocFitsCall, Accepted, Locs, WaitCalls, CancelCalls, FinishCalls
<1> QED
  BY <1>1, <1>2, <1>3, <1>4, ClientFrame

(* The wait runs into its timeout.                                         *)
LEMMA PollGivesUpStep ==
  ASSUME TInv, NEW c \in Clients, PollGivesUp(c)
  PROVE  TInv'
<1> USE DEF PollGivesUp, Return, Continue, TInv
<1>1. Typed'
  BY ZeroWord DEF Typed, timerVars, Locs, WaitCalls, CancelCalls, FinishCalls
<1>2. OnlyMoves(c) /\ OutcomeKept /\ TimerFits'
  BY ZeroWord DEF Typed, OnlyMoves, OutcomeKept, TimerFits, ClientKnows, timerVars
<1>3. (call' = call /\ pc[c] # "idle") /\ LocFitsCall(c)' /\ ClientKnows(c)'
  BY ZeroWord DEF Typed, LocFitsCall, ClientKnows, OutcomeKept, TimerFits,
     SuccessOnlyAfterDeadline, Accepted, timerVars, Locs, WaitCalls, CancelCalls,
     FinishCalls
<1>4. /\ status'.outcome = "SUCCESS" => reached
      /\ pc'[c] = "rearm" => status.outcome = "UNKNOWN"
      /\ Accepted(c)' => \/ Accepted(c)
                         \/ /\ status'.outcome = "FAILURE_CANCELED"
                            /\ \A d \in Clients \ {c} : ~Accepted(d) /\ pc[d] # "rearm"
  BY ZeroWord DEF Typed, SuccessOnlyAfterDeadline, CancelVerdictStands, ClientKnows,
     LocFitsCall, Accepted, Locs, WaitCalls, CancelCalls, FinishCalls
<1> QED
  BY <1>1, <1>2, <1>3, <1>4, ClientFrame

(* The copy was stale.                                                     *)
LEMMA PublishRetryStep ==
  ASSUME TInv, NEW c \in Clients, PublishRetry(c)
  PROVE  TInv'
<1> USE DEF PublishRetry, Continue, TInv
<1>1. Typed'
  BY ZeroWord DEF Typed, timerVars, Locs, WaitCalls, CancelCalls, FinishCalls
<1>2. OnlyMoves(c) /\ OutcomeKept /\ TimerFits'
  BY ZeroWord DEF Typed, OnlyMoves, OutcomeKept, TimerFits, ClientKnows, timerVars
<1>3. (call' = call /\ pc[c] # "idle") /\ LocFitsCall(c)' /\ ClientKnows(c)'
  BY ZeroWord DEF Typed, LocFitsCall, ClientKnows, OutcomeKept, TimerFits,
     SuccessOnlyAfterDeadline, Accepted, timerVars, Locs, WaitCalls, CancelCalls,
     FinishCalls
<1>4. /\ status'.outcome = "SUCCESS" => reached
      /\ pc'[c] = "rearm" => status.outcome = "UNKNOWN"
      /\ Accepted(c)' => \/ Accepted(c)
                         \/ /\ status'.outcome = "FAILURE_CANCELED"
                            /\ \A d \in Clients \ {c} : ~Accepted(d) /\ pc[d] # "rearm"
  BY ZeroWord DEF Typed, SuccessOnlyAfterDeadline, CancelVerdictStands, ClientKnows,
     LocFitsCall, Accepted, Locs, WaitCalls, CancelCalls, FinishCalls
<1> QED
  BY <1>1, <1>2, <1>3, <1>4, ClientFrame

(* The cancelation is accepted.                                            *)
LEMMA CancelSwapStep ==
  ASSUME TInv, NEW c \in Clients, CancelSwap(c)
  PROVE  TInv'
<1> USE DEF CancelSwap, CancelVerdict, Continue, TInv
<1>0. snap[c] \in Words /\ status = snap[c]
  BY DEF Typed
<1>01. status' \in Words /\ status'.type = status.type /\ status'.outcome = "FAILURE_CANCELED"
  BY <1>0, CanceledWord
<1>1. Typed'
  BY ZeroWord, <1>01 DEF Typed, timerVars, Locs, WaitCalls, CancelCalls, FinishCalls
<1>2. OnlyMoves(c) /\ OutcomeKept /\ TimerFits'
  BY ZeroWord, <1>01 DEF Typed, OnlyMoves, OutcomeKept, TimerFits, ClientKnows,
     timerVars
<1>3. (call' = call /\ pc[c] # "idle") /\ LocFitsCall(c)' /\ ClientKnows(c)'
  <2>1. status # ZeroStatus /\ status.outcome = "UNKNOWN"
    BY <1>0 DEF ClientKnows
  <2>2. \A d \in Clients : ~Accepted(d) /\ pc[d] # "rearm"
    BY <2>1 DEF ClientKnows, CancelVerdictStands
  <2>3. pc'[c] \in {"idle", "retire", "rearm"} /\ call[c] \in CancelCalls /\ call' = call
    BY DEF Typed, LocFitsCall
  <2>4. LocFitsCall(c)' /\ pc[c] # "idle"
    BY <2>3 DEF Typed, LocFitsCall, CancelCalls, FinishCalls
  <2>5. pc'[c] # "idle" => status' # ZeroStatus /\ snap'[c] = status'
    BY <1>0, <1>01, ZeroWord DEF Typed, ClientKnows
  <2>6. pc'[c] = "rearm" => \A d \in Clients : ~Accepted(d)' /\ (pc'[d] = "rearm" => d = c)
    BY <2>2 DEF Typed, Accepted
  <2> QED
    BY <1>0, <1>01, <2>3, <2>4, <2>5, <2>6 DEF ClientKnows
<1>4. /\ status'.outcome = "SUCCESS" => reached
      /\ pc'[c] = "rearm" => status.outcome = "UNKNOWN"
      /\ Accepted(c)' => \/ Accepted(c)
                         \/ /\ status'.outcome = "FAILURE_CANCELED"
                            /\ \A d \in Clients \ {c} : ~Accepted(d) /\ pc[d] # "rearm"
  BY ZeroWord, <1>01 DEF Typed, SuccessOnlyAfterDeadline, CancelVerdictStands,
     ClientKnows, LocFitsCall, Accepted, Locs, WaitCalls, CancelCalls, FinishCalls
<1> QED
  BY <1>1, <1>2, <1>3, <1>4, ClientFrame

(* The cancelation lost a race.                                            *)
LEMMA CancelRetryStep ==
  ASSUME TInv, NEW c \in Clients, CancelRetry(c)
  PROVE  TInv'
<1> USE DEF CancelRetry, CancelVerdict, Continue, TInv
<1>1. Typed'
  BY ZeroWord DEF Typed, timerVars, Locs, WaitCalls, CancelCalls, FinishCalls
<1>2. OnlyMoves(c) /\ OutcomeKept /\ TimerFits'
  BY ZeroWord DEF Typed, OnlyMoves, OutcomeKept, TimerFits, ClientKnows, timerVars
<1>3. (call' = call /\ pc[c] # "idle") /\ LocFitsCall(c)' /\ ClientKnows(c)'
  BY ZeroWord DEF Typed, LocFitsCall, ClientKnows, OutcomeKept, TimerFits,
     SuccessOnlyAfterDeadline, Accepted, timerVars, Locs, WaitCalls, CancelCalls,
     FinishCalls
<1>4. /\ status'.outcome = "SUCCESS" => reached
      /\ pc'[c] = "rearm" => status.outcome = "UNKNOWN"
      /\ Accepted(c)' => \/ Accepted(c)
                         \/ /\ status'.outcome = "FAILURE_CANCELED"
                            /\ \A d \in Clients \ {c} : ~Accepted(d) /\ pc[d] # "rearm"
  BY ZeroWord DEF Typed, SuccessOnlyAfterDeadline, CancelVerdictStands, ClientKnows,
     LocFitsCall, Accepted, Locs, WaitCalls, CancelCalls, FinishCalls
<1> QED
  BY <1>1, <1>2, <1>3, <1>4, ClientFrame

(* The timer is made to expire.                                            *)
LEMMA CancelRearmStep ==
  ASSUME TInv, NEW c \in Clients, CancelRearm(c)
  PROVE  TInv'
<1> USE DEF CancelRearm, CancelVerdict, Continue, TInv
<1>1. Typed'
  <2>1. readable' = FALSE
    BY DEF timer_set_once
  <2>2. status' \in Words /\ reached' \in BOOLEAN /\ call' = call
    BY DEF Typed
  <2>3. snap' \in [Clients -> Words] /\ ret' \in [Clients -> {"none", "true", "false"}]
    BY ZeroWord DEF Typed
  <2>4. pc' \in [Clients -> Locs]
    BY DEF Typed, Locs
  <2> QED
    BY <2>1, <2>2, <2>3, <2>4 DEF Typed
<1>2. OnlyMoves(c) /\ OutcomeKept /\ TimerFits'
  BY ZeroWord DEF Typed, OnlyMoves, OutcomeKept, TimerFits, ClientKnows, timerVars
<1>3. (call' = call /\ pc[c] # "idle") /\ LocFitsCall(c)' /\ ClientKnows(c)'
  BY ZeroWord DEF Typed, LocFitsCall, ClientKnows, OutcomeKept, TimerFits,
     SuccessOnlyAfterDeadline, Accepted, timerVars, Locs, WaitCalls, CancelCalls,
     FinishCalls
<1>4. /\ status'.outcome = "SUCCESS" => reached
      /\ pc'[c] = "rearm" => status.outcome = "UNKNOWN"
      /\ Accepted(c)' => \/ Accepted(c)
                         \/ /\ status'.outcome = "FAILURE_CANCELED"
                            /\ \A d \in Clients \ {c} : ~Accepted(d) /\ pc[d] # "rearm"
  BY ZeroWord DEF Typed, SuccessOnlyAfterDeadline, CancelVerdictStands, ClientKnows,
     LocFitsCall, Accepted, Locs, WaitCalls, CancelCalls, FinishCalls
<1> QED
  BY <1>1, <1>2, <1>3, <1>4, ClientFrame

(* The future is withdrawn.                                                *)
LEMMA RetireStep ==
  ASSUME TInv, NEW c \in Clients, Retire(c)
  PROVE  TInv'
<1> USE DEF Retire, Continue, TInv
<1>0. snap[c] \in Words /\ status = snap[c]
  BY DEF Typed
<1>01. status' \in Words /\ status'.type = status.type /\ status'.outcome = status.outcome
  BY <1>0, RetiredWord
<1>1. Typed'
  BY ZeroWord, <1>01 DEF Typed, timerVars, Locs, WaitCalls, CancelCalls, FinishCalls
<1>2. OnlyMoves(c) /\ OutcomeKept /\ TimerFits'
  BY ZeroWord, <1>01 DEF Typed, OnlyMoves, OutcomeKept, TimerFits, ClientKnows,
     timerVars
<1>3. (call' = call /\ pc[c] # "idle") /\ LocFitsCall(c)' /\ ClientKnows(c)'
  BY ZeroWord, <1>01 DEF Typed, LocFitsCall, ClientKnows, OutcomeKept, TimerFits,
     SuccessOnlyAfterDeadline, Accepted, timerVars, Locs, WaitCalls, CancelCalls,
     FinishCalls
<1>4. /\ status'.outcome = "SUCCESS" => reached
      /\ pc'[c] = "rearm" => status.outcome = "UNKNOWN"
      /\ Accepted(c)' => \/ Accepted(c)
                         \/ /\ status'.outcome = "FAILURE_CANCELED"
                            /\ \A d \in Clients \ {c} : ~Accepted(d) /\ pc[d] # "rearm"
  BY ZeroWord, <1>01 DEF Typed, SuccessOnlyAfterDeadline, CancelVerdictStands,
     ClientKnows, LocFitsCall, Accepted, Locs, WaitCalls, CancelCalls, FinishCalls
<1> QED
  BY <1>1, <1>2, <1>3, <1>4, ClientFrame

(* The finish looks whether it has to wait.                                *)
LEMMA FinishWaitStep ==
  ASSUME TInv, NEW c \in Clients, FinishWait(c)
  PROVE  TInv'
<1> USE DEF FinishWait, Continue, TInv
<1>1. Typed'
  BY ZeroWord DEF Typed, timerVars, Locs, WaitCalls, CancelCalls, FinishCalls
<1>2. OnlyMoves(c) /\ OutcomeKept /\ TimerFits'
  BY ZeroWord DEF Typed, OnlyMoves, OutcomeKept, TimerFits, ClientKnows, timerVars
<1>3. (call' = call /\ pc[c] # "idle") /\ LocFitsCall(c)' /\ ClientKnows(c)'
  BY ZeroWord DEF Typed, LocFitsCall, ClientKnows, OutcomeKept, TimerFits,
     SuccessOnlyAfterDeadline, Accepted, timerVars, Locs, WaitCalls, CancelCalls,
     FinishCalls
<1>4. /\ status'.outcome = "SUCCESS" => reached
      /\ pc'[c] = "rearm" => status.outcome = "UNKNOWN"
      /\ Accepted(c)' => \/ Accepted(c)
                         \/ /\ status'.outcome = "FAILURE_CANCELED"
                            /\ \A d \in Clients \ {c} : ~Accepted(d) /\ pc[d] # "rearm"
  BY ZeroWord DEF Typed, SuccessOnlyAfterDeadline, CancelVerdictStands, ClientKnows,
     LocFitsCall, Accepted, Locs, WaitCalls, CancelCalls, FinishCalls
<1> QED
  BY <1>1, <1>2, <1>3, <1>4, ClientFrame

(***************************************************************************)
(* The thread that saw the timer expire settles the future: if its copy is *)
(* the word and unsettled, then nobody has canceled, and it was the        *)
(* deadline that made the timer expire.                                    *)
(***************************************************************************)
LEMMA PublishStep ==
  ASSUME TInv, NEW c \in Clients, Publish(c)
  PROVE  TInv'
<1> USE DEF Publish, Continue, Return, TInv
<1> DEFINE desired == Settled(snap[c], Policy(c))
<1>0. /\ snap[c] \in Words /\ desired \in Words /\ desired.type = snap[c].type
      /\ desired.outcome = IF snap[c].outcome = "UNKNOWN" THEN "SUCCESS" ELSE snap[c].outcome
      /\ snap[c].type = "TIMER_ONCE" /\ status # ZeroStatus
  BY SettledWord DEF Typed, ClientKnows
<1>01. \/ status' = status /\ desired = snap[c]
       \/ status' = desired /\ status = snap[c]
  OBVIOUS
<1>02. /\ call' = call /\ reached' = reached /\ deadline' = deadline /\ readable' = readable
       /\ \/ pc'[c] = "idle" /\ call[c] \in WaitCalls
          \/ pc'[c] = "collect" /\ call[c] \in FinishCalls /\ snap'[c] = desired /\ ret' = ret
  BY DEF Typed, LocFitsCall, timerVars
<1>03. OnlyMoves(c)
  BY DEF Typed, OnlyMoves
<1>1. Typed'
  <2>1. status' \in Words /\ snap' \in [Clients -> Words]
    BY <1>0, <1>01, ZeroWord DEF Typed
  <2>2. pc' \in [Clients -> Locs] /\ ret' \in [Clients -> {"none", "true", "false"}]
    BY DEF Typed, Locs
  <2> QED
    BY <1>02, <2>1, <2>2 DEF Typed
<1> HIDE DEF desired
<1>2. OutcomeKept /\ (desired.outcome = "SUCCESS" => reached)
  <2>1. snap[c].outcome = "UNKNOWN" /\ status = snap[c] => reached
    BY DEF ClientKnows
  <2>2. snap[c].outcome = "SUCCESS" => reached
    BY DEF ClientKnows
  <2>3. desired = snap[c] => snap[c].outcome # "UNKNOWN"
    BY <1>0
  <2> QED
    BY <1>0, <1>01, <1>02, <2>1, <2>2, <2>3 DEF OutcomeKept
<1>3. TimerFits' /\ (status'.outcome = "SUCCESS" => reached)
  <2>1. status'.type = "TIMER_ONCE"
    BY <1>0, <1>2 DEF OutcomeKept, TimerFits
  <2>2. status.outcome # "UNKNOWN" => status'.outcome = status.outcome
    BY <1>2 DEF OutcomeKept
  <2>3. status'.outcome = "SUCCESS" => reached
    BY <1>01, <1>2 DEF SuccessOnlyAfterDeadline
  <2> QED
    BY <1>02, <2>1, <2>2, <2>3 DEF TimerFits
<1>4. LocFitsCall(c)' /\ ClientKnows(c)'
  BY <1>0, <1>01, <1>02, <1>2, ZeroWord DEF LocFitsCall, ClientKnows, OutcomeKept,
     FinishCalls
<1>5. Accepted(c)' => Accepted(c)
  BY <1>02 DEF Accepted, WaitCalls, CancelCalls
<1> QED
  BY <1>1, <1>02, <1>03, <1>2, <1>3, <1>4, <1>5, ClientFrame

(* udipe_wait() is called.                                                 *)
LEMMA WaitStep ==
  ASSUME TInv, NEW c \in Clients, NEW t \in WaitCalls, Wait(c, t)
  PROVE  TInv'
<1> USE DEF Wait, Continue, Return, TInv
<1>0. /\ Enter(c, t) /\ status' = status /\ reached' = reached /\ deadline' = deadline
      /\ readable' = readable /\ status.type = "TIMER_ONCE" /\ status # ZeroStatus
  BY ZeroWord DEF timerVars, Enter, TimerFits
<1>01. call' = [call EXCEPT ![c] = t] /\ pc[c] = "idle"
  BY <1>0 DEF Enter
<1>1. Typed'
  <2>1. snap' \in [Clients -> Words] /\ ret' \in [Clients -> {"none", "true", "false"}]
    BY ZeroWord DEF Typed
  <2>2. pc' \in [Clients -> Locs]
    BY DEF Typed, Locs
  <2> QED
    BY <1>0, <1>01, <2>1, <2>2 DEF Typed, WaitCalls, CancelCalls, FinishCalls
<1>2. OnlyMoves(c) /\ OutcomeKept /\ TimerFits'
  BY <1>0, <1>01 DEF Typed, OnlyMoves, OutcomeKept, TimerFits
<1>3. LocFitsCall(c)' /\ ClientKnows(c)'
  BY <1>0, <1>01 DEF Typed, LocFitsCall, ClientKnows, SuccessOnlyAfterDeadline,
     WaitCalls, CancelCalls, FinishCalls
<1>4. /\ status'.outcome = "SUCCESS" => reached
      /\ pc'[c] = "rearm" => status.outcome = "UNKNOWN"
      /\ Accepted(c)' => \/ Accepted(c)
                         \/ /\ status'.outcome = "FAILURE_CANCELED"
                            /\ \A d \in Clients \ {c} : ~Accepted(d) /\ pc[d] # "rearm"
  BY <1>0, <1>01 DEF Typed, SuccessOnlyAfterDeadline, Accepted, WaitCalls,
     CancelCalls, FinishCalls
<1> QED
  BY <1>0, <1>1, <1>2, <1>3, <1>4, ClientFrame

(* udipe_cancel() is called.                                               *)
LEMMA CancelStep ==
  ASSUME TInv, NEW c \in Clients, NEW k \in CancelCalls, Cancel(c, k)
  PROVE  TInv'
<1> USE DEF Cancel, Continue, CancelVerdict, TInv
<1>0. /\ Enter(c, k) /\ status' = status /\ reached' = reached /\ deadline' = deadline
      /\ readable' = readable /\ status.type = "TIMER_ONCE" /\ status # ZeroStatus
  BY ZeroWord DEF timerVars, Enter, TimerFits
<1>01. call' = [call EXCEPT ![c] = k] /\ pc[c] = "idle"
  BY <1>0 DEF Enter
<1>1. Typed'
  <2>1. snap' \in [Clients -> Words] /\ ret' \in [Clients -> {"none", "true", "false"}]
    BY ZeroWord DEF Typed
  <2>2. pc' \in [Clients -> Locs]
    BY DEF Typed, Locs
  <2> QED
    BY <1>0, <1>01, <2>1, <2>2 DEF Typed, WaitCalls, CancelCalls, FinishCalls
<1>2. OnlyMoves(c) /\ OutcomeKept /\ TimerFits'
  BY <1>0, <1>01 DEF Typed, OnlyMoves, OutcomeKept, TimerFits
<1>3. LocFitsCall(c)' /\ ClientKnows(c)'
  BY <1>0, <1>01 DEF Typed, LocFitsCall, ClientKnows, SuccessOnlyAfterDeadline,
     WaitCalls, CancelCalls, FinishCalls
<1>4. /\ status'.outcome = "SUCCESS" => reached
      /\ pc'[c] = "rearm" => status.outcome = "UNKNOWN"
      /\ Accepted(c)' => \/ Accepted(c)
                         \/ /\ status'.outcome = "FAILURE_CANCELED"
                            /\ \A d \in Clients \ {c} : ~Accepted(d) /\ pc[d] # "rearm"
  BY <1>0, <1>01 DEF Typed, SuccessOnlyAfterDeadline, Accepted, WaitCalls,
     CancelCalls, FinishCalls
<1> QED
  BY <1>0, <1>1, <1>2, <1>3, <1>4, ClientFrame

(* udipe_finish() is called.                                               *)
LEMMA FinishStep ==
  ASSUME TInv, NEW c \in Clients, Finish(c)
  PROVE  TInv'
<1> USE DEF Finish, Continue, TInv
<1>0. /\ Enter(c, "finish") /\ status' = status /\ reached' = reached /\ deadline' = deadline
      /\ readable' = readable /\ status.type = "TIMER_ONCE" /\ status # ZeroStatus
  BY ZeroWord DEF timerVars, Enter, TimerFits
<1>01. call' = [call EXCEPT ![c] = "finish"] /\ pc[c] = "idle"
  BY <1>0 DEF Enter
<1>1. Typed'
  <2>1. snap' \in [Clients -> Words] /\ ret' \in [Clients -> {"none", "true", "false"}]
    BY ZeroWord DEF Typed
  <2>2. pc' \in [Clients -> Locs]
    BY DEF Typed, Locs
  <2> QED
    BY <1>0, <1>01, <2>1, <2>2 DEF Typed, WaitCalls, CancelCalls, FinishCalls
<1>2. OnlyMoves(c) /\ OutcomeKept /\ TimerFits'
  BY <1>0, <1>01 DEF Typed, OnlyMoves, OutcomeKept, TimerFits
<1>3. LocFitsCall(c)' /\ ClientKnows(c)'
  BY <1>0, <1>01 DEF Typed, LocFitsCall, ClientKnows, SuccessOnlyAfterDeadline,
     WaitCalls, CancelCalls, FinishCalls
<1>4. /\ status'.outcome = "SUCCESS" => reached
      /\ pc'[c] = "rearm" => status.outcome = "UNKNOWN"
      /\ Accepted(c)' => \/ Accepted(c)
                         \/ /\ status'.outcome = "FAILURE_CANCELED"
                            /\ \A d \in Clients \ {c} : ~Accepted(d) /\ pc[d] # "rearm"
  BY <1>0, <1>01 DEF Typed, SuccessOnlyAfterDeadline, Accepted, WaitCalls,
     CancelCalls, FinishCalls
<1> QED
  BY <1>0, <1>1, <1>2, <1>3, <1>4, ClientFrame

(* Nobody is in a call when the future is free, or when it is about to be. *)
LEMMA AloneAtCollect ==
  ASSUME TInv, NEW c \in Clients, pc[c] = "collect"
  PROVE  \A d \in Clients : d # c => pc[d] = "idle"
  BY DEF TInv, LocFitsCall, FinisherAlone

(* The future is liberated: what it was is forgotten, with nobody there to *)
(* remember it.                                                            *)
LEMMA CollectStep ==
  ASSUME TInv, NEW c \in Clients, Collect(c)
  PROVE  TInv'
<1> USE DEF Collect, Continue, TInv
<1>1. status' = ZeroStatus /\ call' = call /\ ret' = ret /\ \A d \in Clients : pc'[d] = "idle"
  BY AloneAtCollect DEF Typed
<1>2. Typed'
  BY ZeroWord DEF Typed, Locs
<1>3. TimerFits' /\ SuccessOnlyAfterDeadline'
  BY ZeroWord DEF TimerFits, SuccessOnlyAfterDeadline
<1>4. (\A d \in Clients : LocFitsCall(d)' /\ ClientKnows(d)') /\ FinisherAlone'
  BY <1>1 DEF LocFitsCall, ClientKnows, FinisherAlone
<1>5. CancelVerdictStands'
  BY <1>1 DEF CancelVerdictStands, Accepted
<1> QED
  BY <1>2, <1>3, <1>4, <1>5

(* A new life starts, and no verdict of the last one counts.               *)
LEMMA StartTimerStep == TInv /\ StartTimer => TInv'
<1> SUFFICES ASSUME TInv, StartTimer PROVE TInv'
  OBVIOUS
<1> USE DEF StartTimer, timer_set_once, TInv
<1>1. \A d \in Clients : pc'[d] = "idle"
  BY DEF ClientKnows
<1>2. Typed'
  BY NewWord DEF Typed
<1>3. TimerFits' /\ SuccessOnlyAfterDeadline'
  BY NewWord DEF TimerFits, SuccessOnlyAfterDeadline
<1>4. (\A d \in Clients : LocFitsCall(d)' /\ ClientKnows(d)') /\ FinisherAlone'
  BY <1>1 DEF LocFitsCall, ClientKnows, FinisherAlone
<1>5. CancelVerdictStands'
  BY DEF CancelVerdictStands, Accepted
<1> QED
  BY <1>2, <1>3, <1>4, <1>5

(* The clock goes on, and the timer expires for a reason.                  *)
LEMMA ClockStep == TInv /\ (ReachDeadline \/ TimerExpires) => TInv'
<1> SUFFICES ASSUME TInv, ReachDeadline \/ TimerExpires PROVE TInv'
  OBVIOUS
<1> USE DEF ReachDeadline, TimerExpires, timerVars, TInv
<1>0. /\ status' = status /\ pc' = pc /\ call' = call /\ snap' = snap /\ ret' = ret
      /\ deadline' = deadline /\ (reached => reached')
  OBVIOUS
<1>1. Typed'
  BY DEF Typed
<1>2. TimerFits' /\ SuccessOnlyAfterDeadline'
  BY DEF TimerFits, SuccessOnlyAfterDeadline
<1>3. (\A d \in Clients : LocFitsCall(d)' /\ ClientKnows(d)') /\ FinisherAlone'
  BY <1>0 DEF LocFitsCall, ClientKnows, FinisherAlone, Accepted
<1>4. CancelVerdictStands'
  BY <1>0 DEF CancelVerdictStands, Accepted
<1> QED
  BY <1>1, <1>2, <1>3, <1>4

(* The invariant is inductive.                                             *)
LEMMA NextTInv == TInv /\ [Next]_vars => TInv'
<1> SUFFICES ASSUME TInv, [Next]_vars PROVE TInv'
  OBVIOUS
<1>1. CASE StartTimer
  BY <1>1, StartTimerStep
<1>2. CASE ReachDeadline \/ TimerExpires
  BY <1>2, ClockStep
<1>3. ASSUME NEW c \in Clients, ClientCall(c) PROVE TInv'
  BY <1>3, WaitStep, CancelStep, FinishStep DEF ClientCall
<1>4. ASSUME NEW c \in Clients, ClientStep(c) PROVE TInv'
  BY <1>4, TryIncStep, TryIncRevertStep, PollReadyStep, PublishStep, PublishRetryStep,
     CancelSwapStep, CancelRetryStep, CancelRearmStep, RetireStep, FinishWaitStep,
     CollectStep DEF ClientStep
<1>5. ASSUME NEW c \in Clients, PollGivesUp(c) PROVE TInv'
  BY <1>5, PollGivesUpStep
<1>6. CASE UNCHANGED vars
  BY <1>6 DEF vars, timerVars, TInv, Typed, TimerFits, LocFitsCall, ClientKnows,
     FinisherAlone, SuccessOnlyAfterDeadline, CancelVerdictStands, Accepted
<1> QED
  BY <1>1, <1>2, <1>3, <1>4, <1>5, <1>6 DEF Next

-----------------------------------------------------------------------------
(* TInv holds in every behaviour of the timer future, whatever the number  *)
(* of clients and the limit of the reference count.                        *)
THEOREM TimerInvariance == Spec => []TInv
  BY InitTInv, NextTInv, PTL DEF Spec

(***************************************************************************)
(* A single-shot timer succeeds only after its deadline although           *)
(* udipe_cancel() wakes the waiters of future_wait_timer_once() by making  *)
(* the timer expire early, and an accepted cancelation stands and is       *)
(* accepted once.                                                          *)
(***************************************************************************)
THEOREM TimerOutcomeJustified == Spec => []OutcomeJustified
<1>1. TInv => OutcomeJustified
  BY DEF TInv, OutcomeJustified
<1> QED
  BY <1>1, TimerInvariance, PTL

-----------------------------------------------------------------------------
(***************************************************************************)
(* The reference count and the copies of the word.  A second invariant,    *)
(* on top of TInv: references are accounted for, so that the count is a    *)
(* natural number; who finishes the future knows its word exactly; and a   *)
(* wait that returned true has left a ready future behind.                 *)
(***************************************************************************)

(* The words of a timer future in life, whatever their count.              *)
LiveWord(s) ==
  /\ s.type = "TIMER_ONCE" /\ s.state \in {"PROCESSING", "RESULT"}
  /\ s.outcome \in {"UNKNOWN", "SUCCESS", "FAILURE_CANCELED"}
  /\ s.outcome = "UNKNOWN" <=> s.state # "RESULT"
  /\ ~s.notify_event_or_lazy_lock

(* A client inside of future_finish(), and one that has withdrawn the      *)
(* future there.                                                           *)
Finishing(c) == pc[c] # "idle" /\ call[c] \in FinishCalls
Withdrawn(c) == call[c] \in FinishCalls /\ pc[c] \in {"wait", "poll", "publish", "collect"}

CopyFits(c) ==
  /\ snap[c].downstream_count \in Nat
  /\ pc[c] # "idle" => LiveWord(snap[c]) /\ (exited \/ CountInRange(snap[c]))
  /\ pc[c] # "idle" /\ ~Withdrawn(c) => status.available /\ snap[c].available
  /\ Withdrawn(c) => ~status.available
  /\ pc[c] = "revert" => status.state = "RESULT"
  /\ pc[c] \in {"poll", "publish"} /\ call[c] \in WaitCalls => snap[c].downstream_count >= 1
  /\ Finishing(c) => snap[c] = status
  /\ pc[c] \in {"wait", "poll"} /\ call[c] \in FinishCalls => status.state # "RESULT"
  /\ pc[c] = "collect" => status.state = "RESULT"

(* What a wait that returned true has seen.                                *)
TrueWait(c) == call[c] \in WaitCalls /\ ret[c] = "true"

WordFits ==
  /\ deadline \in {"none", "user", "past"} /\ exited \in BOOLEAN /\ givenUp \in Nat
  /\ status # ZeroStatus => LiveWord(status)
  /\ exited \/ CountInRange(status)
  /\ exited /\ Cardinality(Clients) <= MAX_DOWNSTREAM_COUNT => givenUp # 0

(* A wait that holds a reference.                                          *)
Holds(c) == \/ pc[c] = "revert"
            \/ pc[c] \in {"poll", "publish"} /\ call[c] \in WaitCalls

Holders == {c \in Clients : Holds(c)}

(* Where the references of the word come from: waits that go on, and waits *)
(* that gave up, which do not give theirs back.                            *)
RefsCounted ==
  status # ZeroStatus =>
     status.downstream_count = Cardinality(Holders) + givenUp

RInv ==
  /\ TInv
  /\ WordFits
  /\ RefsCounted
  /\ \A c \in Clients : CopyFits(c)
  /\ \A c \in Clients : TrueWait(c) => status = ZeroStatus \/ status.state = "RESULT"

(* The waits that hold a reference can be counted.                         *)
LEMMA HoldersFinite == IsFiniteSet(Holders) /\ Cardinality(Holders) \in Nat
<1>1. Holders \subseteq Clients
  BY DEF Holders
<1> QED
  BY <1>1, TimerClientsAssumption, FS_Subset, FS_CardinalityType

(* A step that neither takes nor drops a reference keeps the account...    *)
LEMMA AccountKept ==
  ASSUME RefsCounted, status # ZeroStatus, \A d \in Clients : Holds(d)' <=> Holds(d),
         status'.downstream_count = status.downstream_count, givenUp' = givenUp
  PROVE  RefsCounted'
<1>1. Holders' = Holders
  BY DEF Holders, Holds
<1> QED
  BY <1>1 DEF RefsCounted

(* ... and so does one that takes a reference...                           *)
LEMMA AccountUp ==
  ASSUME RefsCounted, status # ZeroStatus, NEW c \in Clients, ~Holds(c), Holds(c)',
         \A d \in Clients \ {c} : Holds(d)' <=> Holds(d), givenUp \in Nat,
         status'.downstream_count = status.downstream_count + 1, givenUp' = givenUp
  PROVE  RefsCounted'
<1>1. Holders' = Holders \cup {c} /\ c \notin Holders
  BY DEF Holders, Holds
<1>2. Cardinality(Holders') = Cardinality(Holders) + 1
  BY <1>1, HoldersFinite, FS_AddElement
<1> QED
  BY <1>2, HoldersFinite DEF RefsCounted

(* ... or drops one, or forgets to.                                        *)
LEMMA AccountDown ==
  ASSUME RefsCounted, status # ZeroStatus, NEW c \in Clients, Holds(c), ~Holds(c)',
         \A d \in Clients \ {c} : Holds(d)' <=> Holds(d), givenUp \in Nat,
         \/ /\ status'.downstream_count = status.downstream_count - 1
            /\ givenUp' = givenUp
         \/ /\ status'.downstream_count = status.downstream_count
            /\ givenUp' = givenUp + 1
  PROVE  RefsCounted'
<1>1. Holders' = Holders \ {c} /\ c \in Holders
  BY DEF Holders, Holds
<1>2. Cardinality(Holders') = Cardinality(Holders) - 1
  BY <1>1, HoldersFinite, FS_RemoveElement
<1> QED
  BY <1>2, HoldersFinite DEF RefsCounted

(* A reference that is held is counted.                                    *)
LEMMA HeldIsCounted ==
  ASSUME RInv, NEW c \in Clients, Holds(c)
  PROVE  status.downstream_count \in Nat /\ status.downstream_count >= 1
<1>1. c \in Holders
  BY DEF Holders, Holds
<1>2. Cardinality(Holders) # 0
  BY <1>1, HoldersFinite, FS_EmptySet
<1>3. status # ZeroStatus
  BY DEF RInv, TInv, ClientKnows, Holds
<1> QED
  BY <1>2, <1>3, HoldersFinite DEF RInv, RefsCounted, WordFits

(* The count of the word is a natural number.                              *)
LEMMA CountNatural ==
  ASSUME RInv
  PROVE  status.downstream_count \in Nat
  BY ZeroWord, HoldersFinite DEF RInv, RefsCounted, WordFits

(* Who finishes the future is alone, so that only waits that gave up are   *)
(* counted.                                                                *)
LEMMA NoneHeld ==
  ASSUME RInv, status # ZeroStatus, \A d \in Clients : ~Holds(d)
  PROVE  status.downstream_count = givenUp
<1>1. Holders = {}
  BY DEF Holders, Holds
<1> QED
  BY <1>1, FS_EmptySet DEF RInv, RefsCounted, WordFits

(* How the operations on a word change its fields.                         *)
LEMMA CountedFields ==
  ASSUME NEW s \in Words, LiveWord(s)
  PROVE  /\ LiveWord(CountInc(s, "CYCLE")) /\ LiveWord(CountDec(s, "CYCLE"))
         /\ CountInc(s, "CYCLE").downstream_count = s.downstream_count + 1
         /\ CountDec(s, "CYCLE").downstream_count = s.downstream_count - 1
         /\ CountInc(s, "CYCLE").available = s.available
         /\ CountDec(s, "CYCLE").available = s.available
         /\ CountInc(s, "CYCLE").state = s.state
         /\ CountDec(s, "CYCLE").state = s.state
  BY DEF Words, CountInc, CountDec, LiveWord

LEMMA SettledFields ==
  ASSUME NEW s \in Words, NEW p, LiveWord(s)
  PROVE  /\ LiveWord(Settled(s, p)) /\ Settled(s, p).state = "RESULT"
         /\ Settled(s, p).available = s.available
         /\ Settled(s, p).downstream_count =
              IF p = "CYCLE" THEN s.downstream_count - 1 ELSE s.downstream_count
<1> DEFINE n == IF p = "CYCLE" THEN s.downstream_count - 1 ELSE s.downstream_count
           counted == [s EXCEPT !.downstream_count = n]
<1>1. n \in Int
  BY DEF Words
<1>2. CountDec(s, p) = counted
  BY DEF CountDec, Words
<1> HIDE DEF n
<1>3. /\ counted \in Words /\ LiveWord(counted) /\ counted.downstream_count = n
      /\ counted.available = s.available
  BY <1>1 DEF Words, LiveWord
<1>4. Settled(s, p) = [counted EXCEPT !.state = "RESULT",
                                      !.outcome = IF @ = "UNKNOWN" THEN "SUCCESS" ELSE @]
  BY <1>2 DEF Settled
<1> HIDE DEF counted
<1>5. /\ LiveWord(Settled(s, p)) /\ Settled(s, p).state = "RESULT"
      /\ Settled(s, p).available = s.available /\ Settled(s, p).downstream_count = n
  BY <1>3, <1>4 DEF Words, LiveWord, Outcomes
<1> QED
  BY <1>5 DEF n

LEMMA CanceledFields ==
  ASSUME NEW s \in Words, LiveWord(s)
  PROVE  LET t == [s EXCEPT !.outcome = "FAILURE_CANCELED", !.state = "RESULT"]
         IN  /\ LiveWord(t) /\ t.state = "RESULT" /\ t.available = s.available
             /\ t.downstream_count = s.downstream_count
  BY DEF Words, LiveWord

LEMMA RetiredFields ==
  ASSUME NEW s \in Words, LiveWord(s)
  PROVE  LET t == [s EXCEPT !.available = FALSE]
         IN  /\ LiveWord(t) /\ t.state = s.state /\ ~t.available
             /\ t.downstream_count = s.downstream_count
  BY DEF Words, LiveWord

(* What a step of client c starts from.                                    *)
LEMMA CopyFacts ==
  ASSUME RInv, NEW c \in Clients, pc[c] # "idle"
  PROVE  /\ TInv /\ Typed /\ LocFitsCall(c) /\ ClientKnows(c) /\ CopyFits(c)
         /\ status # ZeroStatus /\ status \in Words /\ snap[c] \in Words
         /\ LiveWord(status) /\ LiveWord(snap[c]) /\ status.downstream_count \in Nat
<1>1. TInv /\ Typed /\ LocFitsCall(c) /\ ClientKnows(c) /\ CopyFits(c)
  BY DEF RInv, TInv
<1>2. status # ZeroStatus
  BY <1>1 DEF ClientKnows
<1>3. LiveWord(status) /\ LiveWord(snap[c])
  BY <1>1, <1>2 DEF RInv, WordFits, CopyFits
<1> QED
  BY <1>1, <1>2, <1>3, CountNatural DEF Typed

(***************************************************************************)
(* A step of client c within a life of the future: a ready future stays    *)
(* ready and only who finishes it withdraws it, so that the copies of the  *)
(* others fit as before.                                                   *)
(***************************************************************************)
LEMMA CopyFrame ==
  ASSUME RInv, TInv', NEW c \in Clients, OnlyMoves(c), ~exited,
         (call' = call /\ pc[c] # "idle") \/ (\E k : Enter(c, k)),
         status # ZeroStatus, WordFits', RefsCounted', CopyFits(c)',
         status.state = "RESULT" => status'.state = "RESULT",
         status'.available = status.available \/ Finishing(c),
         TrueWait(c)' => status'.state = "RESULT"
  PROVE  RInv'
<1>1. ASSUME NEW d \in Clients, d # c, pc[d] # "idle"
      PROVE  call[d] \notin FinishCalls /\ ~Finishing(c)
  <2>1. CASE call' = call /\ pc[c] # "idle"
    BY <1>1, <2>1 DEF RInv, TInv, FinisherAlone, Finishing
  <2>2. CASE \E k : Enter(c, k)
    BY <1>1, <2>2 DEF Enter, Finishing
  <2> QED
    BY <2>1, <2>2
<1>2. ASSUME NEW d \in Clients, d # c PROVE CopyFits(d)'
  <2>1. /\ pc'[d] = pc[d] /\ call'[d] = call[d] /\ snap'[d] = snap[d] /\ CopyFits(d)
    BY <1>2 DEF OnlyMoves, RInv
  <2>2. CASE pc[d] = "idle"
    BY <2>1, <2>2 DEF CopyFits, Withdrawn, Finishing
  <2>3. CASE pc[d] # "idle"
    <3>1. ~Withdrawn(d) /\ ~Withdrawn(d)' /\ ~Finishing(d)' /\ status'.available = status.available
      BY <1>1, <1>2, <2>1, <2>3 DEF Withdrawn, Finishing
    <3>2. pc[d] # "collect"
      BY <1>1, <1>2, <2>3 DEF RInv, TInv, LocFitsCall
    <3> QED
      BY <1>1, <1>2, <2>1, <2>3, <3>1, <3>2 DEF CopyFits, CountInRange
  <2> QED
    BY <2>2, <2>3
<1>3. ASSUME NEW d \in Clients, TrueWait(d)'
      PROVE  status' = ZeroStatus \/ status'.state = "RESULT"
  BY <1>3 DEF RInv, TrueWait, OnlyMoves
<1> QED
  BY <1>2, <1>3 DEF RInv

-----------------------------------------------------------------------------
(* The steps that leave the word alone.                                    *)

(* udipe_wait(), udipe_cancel() or udipe_finish() is called: the future is *)
(* available, and its copy of the word fresh.                              *)
LEMMA CallKeepsCount ==
  ASSUME RInv, TInv', ~exited, NEW c \in Clients, ClientCall(c)
  PROVE  RInv'
<1>1. PICK k \in WaitCalls \cup CancelCalls \cup {"finish"} :
        /\ Enter(c, k)
        /\ \/ k \in WaitCalls /\ Wait(c, k)
           \/ k \in CancelCalls /\ Cancel(c, k)
           \/ k = "finish" /\ Finish(c)
  BY DEF ClientCall, Wait, Cancel, Finish
<1>2. /\ pc[c] = "idle" /\ status.available /\ status # ZeroStatus /\ Typed
      /\ call' = [call EXCEPT ![c] = k]
  BY <1>1, ZeroWord DEF Enter, RInv, TInv
<1>3. LiveWord(status) /\ status \in Words
  BY <1>2 DEF RInv, WordFits, Typed
<1>4. /\ status' = status /\ givenUp' = givenUp /\ exited' = exited /\ deadline' = deadline
      /\ OnlyMoves(c) /\ call'[c] = k
      /\ \/ pc'[c] = "idle" /\ snap'[c] = ZeroStatus
            /\ (k \in WaitCalls => status.state = "RESULT")
         \/ pc'[c] = "inc" /\ k \in WaitCalls /\ snap'[c] = status /\ ret'[c] = "none"
         \/ pc'[c] \in {"cancel", "retire"} /\ k \notin WaitCalls /\ snap'[c] = status
  BY <1>1, <1>2 DEF Wait, Cancel, Finish, CancelVerdict, Continue, Return, Typed, OnlyMoves, timerVars,
     WaitCalls, CancelCalls
<1>5. WordFits' /\ RefsCounted'
  <2>1. \A d \in Clients : Holds(d)' <=> Holds(d)
    BY <1>2, <1>4 DEF Holds, OnlyMoves
  <2> QED
    BY <1>2, <1>4, <2>1, AccountKept DEF RInv, WordFits
<1>6. CopyFits(c)'
  BY <1>2, <1>3, <1>4, ZeroWord, CountNatural DEF CopyFits, Withdrawn, Finishing, RInv, WordFits,
     LiveWord, CountInRange
<1>7. TrueWait(c)' => status'.state = "RESULT"
  BY <1>4 DEF TrueWait
<1> QED
  BY <1>1, <1>2, <1>4, <1>5, <1>6, <1>7, CopyFrame

(* ppoll() reports that the timer has expired.                             *)
LEMMA PollReadyKeepsCount ==
  ASSUME RInv, TInv', ~exited, NEW c \in Clients, PollReady(c)
  PROVE  RInv'
<1> USE DEF PollReady, Continue
<1>0. pc[c] = "poll"
  OBVIOUS
<1>1. /\ OnlyMoves(c) /\ call' = call /\ status' = status /\ givenUp' = givenUp
      /\ exited' = exited /\ deadline' = deadline /\ pc'[c] = "publish" /\ snap'[c] = snap[c] /\ ret' = ret
  BY <1>0, CopyFacts DEF Typed, OnlyMoves, timerVars
<1>2. WordFits' /\ RefsCounted'
  <2>1. \A d \in Clients : Holds(d)' <=> Holds(d)
    BY <1>0, <1>1, CopyFacts DEF Holds, OnlyMoves, LocFitsCall, WaitCalls, FinishCalls, CancelCalls
  <2> QED
    BY <1>0, <1>1, <2>1, AccountKept, CopyFacts DEF RInv, WordFits
<1>3. CopyFits(c)'
  BY <1>0, <1>1, CopyFacts, ZeroWord
  DEF CopyFits, LocFitsCall, ClientKnows, Withdrawn, Finishing, LiveWord, CountInRange,
      WaitCalls, FinishCalls, CancelCalls, RInv, WordFits
<1>4. TrueWait(c)' => status'.state = "RESULT"
  BY <1>0, <1>1, CopyFacts DEF RInv, TrueWait, LocFitsCall, WaitCalls, FinishCalls,
     CancelCalls
<1> QED
  BY <1>0, <1>1, <1>2, <1>3, <1>4, CopyFrame, CopyFacts

(* The swap that would settle the future finds a new word.                 *)
LEMMA PublishRetryKeepsCount ==
  ASSUME RInv, TInv', ~exited, NEW c \in Clients, PublishRetry(c)
  PROVE  RInv'
<1> USE DEF PublishRetry, Continue
<1>0. pc[c] = "publish"
  OBVIOUS
<1>1. /\ OnlyMoves(c) /\ call' = call /\ status' = status /\ givenUp' = givenUp
      /\ exited' = exited /\ deadline' = deadline /\ pc'[c] = "publish" /\ snap'[c] = status /\ ret' = ret
  BY <1>0, CopyFacts DEF Typed, OnlyMoves, timerVars
<1>2. WordFits' /\ RefsCounted'
  <2>1. \A d \in Clients : Holds(d)' <=> Holds(d)
    BY <1>0, <1>1, CopyFacts DEF Holds, OnlyMoves, LocFitsCall, WaitCalls, FinishCalls, CancelCalls
  <2> QED
    BY <1>0, <1>1, <2>1, AccountKept, CopyFacts DEF RInv, WordFits
<1>3. CopyFits(c)'
  BY <1>0, <1>1, CopyFacts, ZeroWord, HeldIsCounted
  DEF CopyFits, LocFitsCall, ClientKnows, Withdrawn, Finishing, LiveWord, CountInRange,
      WaitCalls, FinishCalls, CancelCalls, RInv, WordFits, Holds
<1>4. TrueWait(c)' => status'.state = "RESULT"
  BY <1>0, <1>1, CopyFacts DEF RInv, TrueWait, LocFitsCall, WaitCalls, FinishCalls,
     CancelCalls
<1> QED
  BY <1>0, <1>1, <1>2, <1>3, <1>4, CopyFrame, CopyFacts

(* The cancelation lost a race.                                            *)
LEMMA CancelRetryKeepsCount ==
  ASSUME RInv, TInv', ~exited, NEW c \in Clients, CancelRetry(c)
  PROVE  RInv'
<1> USE DEF CancelRetry, Continue, CancelVerdict
<1>0. pc[c] = "cancel"
  OBVIOUS
<1>1. /\ OnlyMoves(c) /\ call' = call /\ status' = status /\ givenUp' = givenUp
      /\ exited' = exited /\ deadline' = deadline /\ pc'[c] \in {"cancel", "retire", "idle"}
      /\ snap'[c] = (IF pc'[c] = "idle" THEN ZeroStatus ELSE status)
      /\ pc'[c] = "retire" => call[c] = "cancel_finish"
  BY <1>0, CopyFacts DEF Typed, OnlyMoves, timerVars
<1>2. WordFits' /\ RefsCounted'
  <2>1. \A d \in Clients : Holds(d)' <=> Holds(d)
    BY <1>0, <1>1, CopyFacts DEF Holds, OnlyMoves, LocFitsCall, WaitCalls, FinishCalls, CancelCalls
  <2> QED
    BY <1>0, <1>1, <2>1, AccountKept, CopyFacts DEF RInv, WordFits
<1>3. CopyFits(c)'
  BY <1>0, <1>1, CopyFacts, ZeroWord
  DEF CopyFits, LocFitsCall, ClientKnows, Withdrawn, Finishing, LiveWord, CountInRange,
      WaitCalls, FinishCalls, CancelCalls, RInv, WordFits
<1>4. TrueWait(c)' => status'.state = "RESULT"
  BY <1>0, <1>1, CopyFacts DEF RInv, TrueWait, LocFitsCall, WaitCalls, FinishCalls,
     CancelCalls
<1> QED
  BY <1>0, <1>1, <1>2, <1>3, <1>4, CopyFrame, CopyFacts

(* The canceler moves the deadline.                                        *)
LEMMA CancelRearmKeepsCount ==
  ASSUME RInv, TInv', ~exited, NEW c \in Clients, CancelRearm(c)
  PROVE  RInv'
<1> USE DEF CancelRearm, Continue, CancelVerdict, timer_set_once
<1>0. pc[c] = "rearm"
  OBVIOUS
<1>1. /\ OnlyMoves(c) /\ call' = call /\ status' = status /\ givenUp' = givenUp
      /\ exited' = exited /\ deadline' = "past" /\ pc'[c] \in {"retire", "idle"}
      /\ snap'[c] = (IF pc'[c] = "idle" THEN ZeroStatus ELSE snap[c])
      /\ pc'[c] = "retire" => call[c] = "cancel_finish"
  BY <1>0, CopyFacts DEF Typed, OnlyMoves, timerVars
<1>2. WordFits' /\ RefsCounted'
  <2>1. \A d \in Clients : Holds(d)' <=> Holds(d)
    BY <1>0, <1>1, CopyFacts DEF Holds, OnlyMoves, LocFitsCall, WaitCalls, FinishCalls, CancelCalls
  <2> QED
    BY <1>0, <1>1, <2>1, AccountKept, CopyFacts DEF RInv, WordFits
<1>3. CopyFits(c)'
  BY <1>0, <1>1, CopyFacts, ZeroWord
  DEF CopyFits, LocFitsCall, ClientKnows, Withdrawn, Finishing, LiveWord, CountInRange,
      WaitCalls, FinishCalls, CancelCalls, RInv, WordFits
<1>4. TrueWait(c)' => status'.state = "RESULT"
  BY <1>0, <1>1, CopyFacts DEF RInv, TrueWait, LocFitsCall, WaitCalls, FinishCalls,
     CancelCalls
<1> QED
  BY <1>0, <1>1, <1>2, <1>3, <1>4, CopyFrame, CopyFacts

(* The finish looks whether it has to wait.                                *)
LEMMA FinishWaitKeepsCount ==
  ASSUME RInv, TInv', ~exited, NEW c \in Clients, FinishWait(c)
  PROVE  RInv'
<1> USE DEF FinishWait, Continue
<1>0. pc[c] = "wait"
  OBVIOUS
<1>1. /\ OnlyMoves(c) /\ call' = call /\ status' = status /\ givenUp' = givenUp
      /\ exited' = exited /\ deadline' = deadline /\ pc'[c] = (IF status.state = "RESULT" THEN "collect" ELSE "poll")
      /\ snap'[c] = status
  BY <1>0, CopyFacts DEF Typed, OnlyMoves, timerVars
<1>2. WordFits' /\ RefsCounted'
  <2>1. \A d \in Clients : Holds(d)' <=> Holds(d)
    BY <1>0, <1>1, CopyFacts DEF Holds, OnlyMoves, LocFitsCall, WaitCalls, FinishCalls, CancelCalls
  <2> QED
    BY <1>0, <1>1, <2>1, AccountKept, CopyFacts DEF RInv, WordFits
<1>3. CopyFits(c)'
  BY <1>0, <1>1, CopyFacts, ZeroWord
  DEF CopyFits, LocFitsCall, ClientKnows, Withdrawn, Finishing, LiveWord, CountInRange,
      WaitCalls, FinishCalls, CancelCalls, RInv, WordFits
<1>4. TrueWait(c)' => status'.state = "RESULT"
  BY <1>0, <1>1, CopyFacts DEF RInv, TrueWait, LocFitsCall, WaitCalls, FinishCalls,
     CancelCalls
<1> QED
  BY <1>0, <1>1, <1>2, <1>3, <1>4, CopyFrame, CopyFacts

-----------------------------------------------------------------------------
(* The steps that count references.                                        *)

(***************************************************************************)
(* The unconditional increment.  It leaves the range only if the program   *)
(* exits, which takes a wait that gave up earlier as long as there is a    *)
(* reference for every client.                                             *)
(***************************************************************************)
LEMMA TryIncCounts ==
  ASSUME RInv, TInv', ~exited, NEW c \in Clients, TryInc(c)
  PROVE  RInv'
<1> USE DEF TryInc, Continue
<1>0. pc[c] = "inc" /\ call[c] \in WaitCalls
  BY CopyFacts DEF LocFitsCall
<1>1. /\ status'.downstream_count = status.downstream_count + 1 /\ LiveWord(status')
      /\ status'.available = status.available /\ status'.state = status.state
  BY <1>0, CopyFacts, CountedFields
<1>2. /\ OnlyMoves(c) /\ call' = call /\ ret' = ret /\ givenUp' = givenUp /\ deadline' = deadline
      /\ pc'[c] = (IF status.state = "RESULT" THEN "revert" ELSE "poll") /\ snap'[c] = status'
      /\ exited' = (status.downstream_count = MAX_DOWNSTREAM_COUNT)
  BY <1>0, CopyFacts DEF Typed, OnlyMoves, timerVars
<1>3. ~Holds(c) /\ Holds(c)' /\ \A d \in Clients \ {c} : Holds(d)' <=> Holds(d)
  BY <1>0, <1>2 DEF Holds, OnlyMoves
<1>4. RefsCounted'
  BY <1>0, <1>1, <1>2, <1>3, AccountUp, CopyFacts DEF RInv, WordFits
<1>5. exited' /\ Cardinality(Clients) <= MAX_DOWNSTREAM_COUNT => givenUp # 0
  <2>1. Holders \subseteq Clients \ {c}
    BY <1>3 DEF Holders, Holds
  <2>2. IsFiniteSet(Clients \ {c}) /\ Cardinality(Clients \ {c}) = Cardinality(Clients) - 1
    BY TimerClientsAssumption, FS_RemoveElement
  <2>3. Cardinality(Holders) <= Cardinality(Clients) - 1 /\ Cardinality(Clients) \in Nat
    BY <2>1, <2>2, FS_Subset, TimerClientsAssumption, FS_CardinalityType
  <2> QED
    BY <1>0, <1>2, <2>3, HoldersFinite, CopyFacts, MaxCountAssumption DEF RInv, RefsCounted, WordFits
<1>6. exited' \/ CountInRange(status)'
  <2>1. status.downstream_count \in Nat /\ status.downstream_count <= MAX_DOWNSTREAM_COUNT
    BY <1>0, CopyFacts DEF RInv, WordFits, CountInRange
  <2>2. status.downstream_count # MAX_DOWNSTREAM_COUNT => CountInRange(status)'
    BY <1>1, <2>1, MaxCountAssumption DEF CountInRange
  <2> QED
    BY <1>2, <2>2
<1>7. WordFits'
  BY <1>1, <1>2, <1>5, <1>6 DEF RInv, WordFits
<1>8. CopyFits(c)'
  <2>1. ~Withdrawn(c) /\ ~Withdrawn(c)' /\ ~Finishing(c)'
    BY <1>0, <1>2 DEF Withdrawn, Finishing, WaitCalls, FinishCalls
  <2> QED
    BY <1>0, <1>1, <1>2, <1>6, <2>1, CopyFacts DEF CopyFits, CountInRange, WaitCalls, FinishCalls
<1>9. TrueWait(c)' => status'.state = "RESULT"
  BY <1>0, <1>1, <1>2, CopyFacts DEF RInv, TrueWait
<1> QED
  BY <1>0, <1>1, <1>2, <1>4, <1>7, <1>8, <1>9, CopyFrame, CopyFacts

(* The reference that came too late is given back.                         *)
LEMMA TryIncRevertCounts ==
  ASSUME RInv, TInv', ~exited, NEW c \in Clients, TryIncRevert(c)
  PROVE  RInv'
<1> USE DEF TryIncRevert, Return, Continue
<1>0. pc[c] = "revert" /\ call[c] \in WaitCalls /\ Holds(c) /\ status.state = "RESULT"
  BY CopyFacts DEF LocFitsCall, Holds, CopyFits
<1>1. /\ status'.downstream_count = status.downstream_count - 1 /\ LiveWord(status')
      /\ status'.available = status.available /\ status'.state = status.state
  BY <1>0, CopyFacts, CountedFields
<1>2. /\ OnlyMoves(c) /\ call' = call /\ givenUp' = givenUp /\ deadline' = deadline
      /\ exited' = exited /\ pc'[c] = "idle" /\ snap'[c] = ZeroStatus
  BY <1>0, CopyFacts DEF Typed, OnlyMoves, timerVars
<1>3. ~Holds(c)' /\ \A d \in Clients \ {c} : Holds(d)' <=> Holds(d)
  BY <1>0, <1>2 DEF Holds, OnlyMoves
<1>4. RefsCounted'
  BY <1>0, <1>1, <1>2, <1>3, AccountDown, CopyFacts DEF RInv, WordFits
<1>5. WordFits'
  BY <1>0, <1>1, <1>2, CopyFacts, MaxCountAssumption DEF RInv, WordFits, CountInRange
<1>6. CopyFits(c)'
  BY <1>2, ZeroWord DEF CopyFits, Withdrawn, Finishing
<1> QED
  BY <1>0, <1>1, <1>2, <1>4, <1>5, <1>6, CopyFrame, CopyFacts

(* The wait gives up, with its reference.                                  *)
LEMMA PollGivesUpCounts ==
  ASSUME RInv, TInv', ~exited, NEW c \in Clients, PollGivesUp(c)
  PROVE  RInv'
<1> USE DEF PollGivesUp, Return, Continue
<1>0. pc[c] = "poll" /\ call[c] \in WaitCalls /\ Holds(c)
  BY DEF Holds, WaitCalls
<1>1. /\ OnlyMoves(c) /\ call' = call /\ givenUp' = givenUp + 1 /\ deadline' = deadline
      /\ exited' = exited /\ status' = status /\ pc'[c] = "idle" /\ snap'[c] = ZeroStatus
      /\ ret'[c] = "false"
  BY <1>0, CopyFacts DEF Typed, OnlyMoves, timerVars
<1>2. ~Holds(c)' /\ \A d \in Clients \ {c} : Holds(d)' <=> Holds(d)
  BY <1>0, <1>1 DEF Holds, OnlyMoves
<1>3. RefsCounted'
  BY <1>0, <1>1, <1>2, AccountDown, CopyFacts DEF RInv, WordFits
<1>4. WordFits'
  BY <1>0, <1>1 DEF RInv, WordFits
<1>5. CopyFits(c)'
  BY <1>1, ZeroWord DEF CopyFits, Withdrawn, Finishing
<1>6. ~TrueWait(c)'
  BY <1>1 DEF TrueWait
<1> QED
  BY <1>0, <1>1, <1>3, <1>4, <1>5, <1>6, CopyFrame, CopyFacts

(* The future is settled, and a wait gives its reference back with the     *)
(* same swap.                                                              *)
LEMMA PublishCounts ==
  ASSUME RInv, TInv', ~exited, NEW c \in Clients, Publish(c)
  PROVE  RInv'
<1> USE DEF Publish, Return, Continue
<1> DEFINE desired == Settled(snap[c], Policy(c))
<1>0. pc[c] = "publish" /\ (call[c] \in WaitCalls <=> Policy(c) = "CYCLE")
  BY DEF Policy
<1>1. /\ LiveWord(desired) /\ desired.state = "RESULT" /\ desired.available = snap[c].available
      /\ desired.downstream_count = IF Policy(c) = "CYCLE" THEN snap[c].downstream_count - 1
                                    ELSE snap[c].downstream_count
  BY <1>0, CopyFacts, SettledFields
<1>2. /\ OnlyMoves(c) /\ call' = call /\ givenUp' = givenUp /\ deadline' = deadline
      /\ exited' = exited
      /\ pc'[c] = (IF call[c] \in WaitCalls THEN "idle" ELSE "collect")
      /\ snap'[c] = (IF call[c] \in WaitCalls THEN ZeroStatus ELSE desired)
  BY <1>0, CopyFacts DEF Typed, OnlyMoves, timerVars
<1>3. (desired = snap[c] /\ status' = status) \/ (status = snap[c] /\ status' = desired)
  OBVIOUS
<1> HIDE DEF desired
<1>4. CASE call[c] \in WaitCalls
  <2>1. snap[c].downstream_count \in Nat /\ snap[c].downstream_count >= 1
    BY <1>0, <1>4, CopyFacts DEF CopyFits
  <2>2. status = snap[c] /\ status' = desired
    BY <1>0, <1>1, <1>3, <1>4, <2>1
  <2>3. Holds(c) /\ ~Holds(c)' /\ \A d \in Clients \ {c} : Holds(d)' <=> Holds(d)
    BY <1>0, <1>2, <1>4 DEF Holds, OnlyMoves
  <2>4. RefsCounted'
    BY <1>0, <1>1, <1>2, <1>4, <2>2, <2>3, AccountDown, CopyFacts DEF RInv, WordFits
  <2>5. WordFits'
    BY <1>0, <1>1, <1>2, <1>4, <2>1, <2>2, MaxCountAssumption DEF RInv, WordFits, CountInRange
  <2>6. CopyFits(c)'
    BY <1>2, <1>4, ZeroWord DEF CopyFits, Withdrawn, Finishing
  <2> QED
    BY <1>0, <1>1, <1>2, <2>2, <2>4, <2>5, <2>6, CopyFrame, CopyFacts
<1>5. CASE call[c] \notin WaitCalls
  <2>1. call[c] \in FinishCalls /\ Finishing(c) /\ Withdrawn(c) /\ snap[c] = status /\ status' = desired
    BY <1>0, <1>3, <1>5, CopyFacts DEF LocFitsCall, Finishing, Withdrawn, CopyFits
  <2>2. \A d \in Clients : Holds(d)' <=> Holds(d)
    BY <1>0, <1>2, <1>5 DEF Holds, OnlyMoves
  <2>3. RefsCounted'
    BY <1>0, <1>1, <1>2, <1>5, <2>1, <2>2, AccountKept, CopyFacts DEF RInv
  <2>4. WordFits'
    BY <1>0, <1>1, <1>2, <1>5, <2>1 DEF RInv, WordFits, CountInRange
  <2>5. CopyFits(c)'
    BY <1>0, <1>1, <1>2, <1>5, <2>1, CopyFacts DEF RInv, WordFits, CopyFits, Withdrawn, Finishing,
       CountInRange
  <2>6. ~TrueWait(c)'
    BY <1>2, <1>5 DEF TrueWait
  <2> QED
    BY <1>0, <1>1, <1>2, <2>1, <2>3, <2>4, <2>5, <2>6, CopyFrame, CopyFacts
<1> QED
  BY <1>4, <1>5

(* The cancelation makes the future ready.                                 *)
LEMMA CancelSwapCounts ==
  ASSUME RInv, TInv', ~exited, NEW c \in Clients, CancelSwap(c)
  PROVE  RInv'
<1> USE DEF CancelSwap, CancelVerdict, Continue
<1>0. pc[c] = "cancel" /\ call[c] \in CancelCalls /\ status = snap[c]
  BY CopyFacts DEF LocFitsCall
<1>1. /\ LiveWord(status') /\ status'.state = "RESULT" /\ status'.available = status.available
      /\ status'.downstream_count = status.downstream_count
  BY <1>0, CopyFacts, CanceledFields
<1>2. /\ OnlyMoves(c) /\ call' = call /\ givenUp' = givenUp /\ deadline' = deadline
      /\ exited' = exited /\ pc'[c] \in {"idle", "retire", "rearm"}
      /\ snap'[c] = (IF pc'[c] = "idle" THEN ZeroStatus ELSE status')
  BY <1>0, CopyFacts DEF Typed, OnlyMoves, timerVars
<1>3. WordFits' /\ RefsCounted'
  <2>1. \A d \in Clients : Holds(d)' <=> Holds(d)
    BY <1>0, <1>2 DEF Holds, OnlyMoves
  <2> QED
    BY <1>0, <1>1, <1>2, <2>1, AccountKept, CopyFacts DEF RInv, WordFits, CountInRange
<1>4. CopyFits(c)'
  BY <1>0, <1>1, <1>2, <1>3, CopyFacts, ZeroWord DEF CopyFits, Withdrawn, Finishing, WordFits, CountInRange
<1> QED
  BY <1>0, <1>1, <1>2, <1>3, <1>4, CopyFrame, CopyFacts

(* The future is withdrawn.                                                *)
LEMMA RetireCounts ==
  ASSUME RInv, TInv', ~exited, NEW c \in Clients, Retire(c)
  PROVE  RInv'
<1> USE DEF Retire, Continue
<1>0. pc[c] = "retire" /\ call[c] \in FinishCalls /\ status = snap[c] /\ Finishing(c)
  BY CopyFacts DEF LocFitsCall, Finishing
<1>1. /\ LiveWord(status') /\ status'.state = status.state /\ ~status'.available
      /\ status'.downstream_count = status.downstream_count
  BY <1>0, CopyFacts, RetiredFields
<1>2. /\ OnlyMoves(c) /\ call' = call /\ givenUp' = givenUp /\ deadline' = deadline
      /\ exited' = exited /\ ret' = ret /\ snap'[c] = status'
      /\ pc'[c] = (IF status.state = "RESULT" THEN "collect" ELSE "wait")
  BY <1>0, CopyFacts DEF Typed, OnlyMoves, timerVars
<1>3. WordFits' /\ RefsCounted'
  <2>1. \A d \in Clients : Holds(d)' <=> Holds(d)
    BY <1>0, <1>2 DEF Holds, OnlyMoves
  <2> QED
    BY <1>0, <1>1, <1>2, <2>1, AccountKept, CopyFacts DEF RInv, WordFits, CountInRange
<1>4. CopyFits(c)'
  BY <1>0, <1>1, <1>2, <1>3, CopyFacts DEF CopyFits, Withdrawn, Finishing, WordFits, CountInRange
<1>5. ~TrueWait(c)'
  BY <1>0, <1>2 DEF TrueWait, WaitCalls, FinishCalls
<1> QED
  BY <1>0, <1>1, <1>2, <1>3, <1>4, <1>5, CopyFrame, CopyFacts

-----------------------------------------------------------------------------
(* The beginning and the end of a life, and the passage of time.           *)

LEMMA CollectCounts ==
  ASSUME RInv, TInv', ~exited, NEW c \in Clients, Collect(c)
  PROVE  RInv'
<1> USE DEF Collect, Continue
<1>1. /\ status' = ZeroStatus /\ call' = call /\ ret' = ret /\ givenUp' = givenUp /\ exited' = exited
      /\ deadline' = "none"
      /\ \A d \in Clients : pc'[d] = "idle" /\ snap'[d] = (IF d = c THEN ZeroStatus ELSE snap[d])
  BY AloneAtCollect DEF RInv, TInv, Typed
<1>2. WordFits' /\ RefsCounted'
  BY <1>1, ZeroWord, MaxCountAssumption DEF RInv, WordFits, RefsCounted, CountInRange
<1>3. \A d \in Clients : CopyFits(d)'
  BY <1>1, ZeroWord DEF RInv, CopyFits, Withdrawn, Finishing
<1> QED
  BY <1>1, <1>2, <1>3 DEF RInv

LEMMA StartTimerCounts ==
  ASSUME RInv, TInv', ~exited, StartTimer
  PROVE  RInv'
<1> USE DEF StartTimer, timer_set_once
<1>1. \A d \in Clients : pc'[d] = "idle"
  BY DEF RInv, TInv, ClientKnows
<1>2. NewTimerStatus.downstream_count = 0 /\ LiveWord(NewTimerStatus)
  BY DEF NewTimerStatus, ZeroStatus, LiveWord
<1>3. Cardinality(Holders') = 0
  <2>1. Holders' = {}
    BY <1>1 DEF Holders, Holds
  <2> QED
    BY <2>1, FS_EmptySet
<1>4. WordFits' /\ RefsCounted'
  BY <1>2, <1>3, MaxCountAssumption DEF RInv, WordFits, RefsCounted, CountInRange
<1>5. \A d \in Clients : CopyFits(d)' /\ ~TrueWait(d)'
  BY <1>1 DEF RInv, CopyFits, Withdrawn, Finishing, TrueWait, WaitCalls
<1> QED
  BY <1>4, <1>5 DEF RInv

(* Neither the clock nor the timer touches the word.                       *)
LEMMA ClockKeepsCount ==
  ASSUME RInv, TInv', UNCHANGED <<status, deadline, pc, call, snap, ret, givenUp, exited>>
  PROVE  RInv'
<1>1. Holders' = Holders
  BY DEF Holders, Holds
<1> QED
  BY <1>1 DEF RInv, WordFits, RefsCounted, CountInRange, CopyFits, Withdrawn, Finishing, TrueWait

(* The second invariant is inductive as well.                              *)
LEMMA InitRInv == Init => RInv
<1> SUFFICES ASSUME Init PROVE RInv
  OBVIOUS
<1>0. status = ZeroStatus /\ exited = FALSE /\ givenUp \in Nat /\ CountInRange(status)
  BY ZeroWord, MaxCountAssumption DEF Init, CountInRange
<1>1. WordFits /\ RefsCounted
  BY <1>0 DEF Init, WordFits, RefsCounted
<1>2. \A c \in Clients : CopyFits(c) /\ ~TrueWait(c)
  BY ZeroWord DEF Init, CopyFits, Withdrawn, Finishing, TrueWait
<1> QED
  BY <1>1, <1>2, InitTInv DEF RInv

LEMMA NextRInv == RInv /\ [Next]_vars => RInv'
<1> SUFFICES ASSUME RInv, [Next]_vars PROVE RInv'
  OBVIOUS
<1>1. TInv'
  BY NextTInv DEF RInv
<1>2. CASE UNCHANGED vars
  BY <1>1, <1>2, ClockKeepsCount DEF vars, timerVars
<1>3. CASE Next
  <2>1. ~exited
    BY <1>3 DEF Next
  <2>2. CASE StartTimer
    BY <1>1, <2>1, <2>2, StartTimerCounts
  <2>3. CASE ReachDeadline \/ TimerExpires
    BY <1>1, <2>3, ClockKeepsCount DEF ReachDeadline, TimerExpires, timerVars
  <2>4. ASSUME NEW c \in Clients, ClientCall(c) PROVE RInv'
    BY <1>1, <2>1, <2>4, CallKeepsCount
  <2>5. ASSUME NEW c \in Clients, ClientStep(c) \/ PollGivesUp(c) PROVE RInv'
    BY <1>1, <2>1, <2>5, TryIncCounts, TryIncRevertCounts, PollReadyKeepsCount, PublishCounts,
       PublishRetryKeepsCount, CancelSwapCounts, CancelRetryKeepsCount, CancelRearmKeepsCount,
       RetireCounts, FinishWaitKeepsCount, CollectCounts, PollGivesUpCounts
    DEF ClientStep
  <2> QED
    BY <1>3, <2>2, <2>3, <2>4, <2>5 DEF Next
<1> QED
  BY <1>2, <1>3

-----------------------------------------------------------------------------
(* What the second invariant means.                                        *)

(* The words of a future in life pass future_status_debug_check().         *)
LEMMA LiveWordChecks ==
  ASSUME NEW s, LiveWord(s), CountInRange(s), s.downstream_count # 0 => s.available
  PROVE  DebugCheck(s, TRUE)
  BY DEF LiveWord, DebugCheck, StateFitsType, OutcomeFitsState, NotifyFitsType, HasOutcome,
     HasProcessing, HasDependencies, NetworkTypes

LEMMA InvTypeOK == RInv => TypeOK
<1> SUFFICES ASSUME RInv PROVE TypeOK
  OBVIOUS
<1>1. status \in Statuses
  BY CountNatural DEF RInv, TInv, Typed, Words, Statuses
<1>2. ASSUME NEW c \in Clients PROVE snap[c] \in Statuses
  <2>1. snap[c] \in Words /\ snap[c].downstream_count \in Nat
    BY DEF RInv, TInv, Typed, CopyFits
  <2> QED
    BY <2>1 DEF Words, Statuses
<1>3. snap \in [Clients -> Statuses]
  BY <1>2 DEF RInv, TInv, Typed
<1> QED
  BY <1>1, <1>3 DEF RInv, TInv, Typed, WordFits, TypeOK

(* With a reference for every client, the assertions hold as long as no    *)
(* wait has given up.                                                      *)
LEMMA InvAssertsHold ==
  ASSUME RInv, Cardinality(Clients) <= MAX_DOWNSTREAM_COUNT
  PROVE  AssertsHold
<1> SUFFICES ASSUME givenUp = 0 PROVE ~exited /\ \A c \in Clients : ClientAsserts(c)
  BY DEF AssertsHold
<1>1. ~exited
  BY DEF RInv, WordFits
<1>2. ASSUME NEW c \in Clients PROVE ClientAsserts(c)
  <2>1. CASE pc[c] = "idle"
    BY <2>1 DEF ClientAsserts
  <2>2. CASE pc[c] # "idle"
    <3>1. Finishing(c) => status.downstream_count = 0
      <4> SUFFICES ASSUME Finishing(c) PROVE status.downstream_count = 0
        OBVIOUS
      <4>1. \A d \in Clients : ~Holds(d)
        BY <2>2, CopyFacts DEF RInv, TInv, FinisherAlone, Finishing, Holds, LocFitsCall, WaitCalls,
           FinishCalls
      <4> QED
        BY <2>2, <4>1, NoneHeld, CopyFacts
    <3>2. DebugCheck(status, TRUE)
      <4>1. status.downstream_count # 0 => status.available
        BY <2>2, <3>1, CopyFacts DEF CopyFits, Withdrawn, Finishing
      <4> QED
        BY <1>1, <2>2, <4>1, CopyFacts, LiveWordChecks DEF RInv, WordFits
    <3>3. snap[c].downstream_count # 0 => snap[c].available
      BY <2>2, <3>1, CopyFacts DEF CopyFits, Withdrawn, Finishing
    <3>4. DebugCheck(snap[c], TRUE)
      BY <1>1, <2>2, <3>3, CopyFacts, LiveWordChecks DEF CopyFits
    <3>5. pc[c] = "revert" => status.state = "RESULT" /\ status.downstream_count >= 1
      BY <2>2, HeldIsCounted, CopyFacts DEF CopyFits, Holds
    <3>6. ASSUME pc[c] = "publish"
          PROVE  /\ CountDecAllowed(snap[c], Policy(c))
                 /\ DebugCheck(Settled(snap[c], Policy(c)), TRUE)
      <4>1. Policy(c) = "CYCLE" => snap[c].downstream_count >= 1
        BY <3>6, CopyFacts DEF CopyFits, Policy
      <4>2. snap[c].downstream_count \in Nat /\ snap[c].downstream_count <= MAX_DOWNSTREAM_COUNT
        BY <1>1, <2>2, CopyFacts DEF CopyFits, CountInRange
      <4> DEFINE desired == Settled(snap[c], Policy(c))
      <4>3. /\ LiveWord(desired) /\ desired.available = snap[c].available
            /\ desired.downstream_count = IF Policy(c) = "CYCLE" THEN snap[c].downstream_count - 1
                                          ELSE snap[c].downstream_count
        BY <2>2, SettledFields, CopyFacts
      <4> HIDE DEF desired
      <4>4. CountInRange(desired) /\ (desired.downstream_count # 0 => desired.available)
        BY <3>3, <4>1, <4>2, <4>3, MaxCountAssumption DEF CountInRange
      <4>5. DebugCheck(desired, TRUE)
        BY <4>3, <4>4, LiveWordChecks
      <4> QED
        BY <4>1, <4>5 DEF CountDecAllowed, desired
    <3>7. pc[c] = "cancel" => snap[c].state \in {"WAITING", "PROCESSING"}
      BY <2>2, CopyFacts DEF ClientKnows, LiveWord
    <3>8. pc[c] = "retire" => snap[c].downstream_count = 0 /\ snap[c].available
      BY <2>2, <3>1, CopyFacts DEF CopyFits, Withdrawn, Finishing, LocFitsCall
    <3>9. pc[c] = "collect" => /\ snap[c].state = "RESULT" /\ snap[c].outcome # "UNKNOWN"
                               /\ status.downstream_count = 0 /\ ~status.available
      BY <2>2, <3>1, CopyFacts DEF CopyFits, Withdrawn, Finishing, LocFitsCall, LiveWord
    <3> QED
      BY <3>2, <3>4, <3>5, <3>6, <3>7, <3>8, <3>9 DEF ClientAsserts
  <2> QED
    BY <2>1, <2>2
<1> QED
  BY <1>1, <1>2

LEMMA InvNoBlocking == RInv => TrueWaitMeansNoBlocking
<1> SUFFICES ASSUME RInv, NEW c \in Clients, NEW d \in Clients, TrueWait(c),
                    call[d] \in FinishCalls, pc[d] \in {"wait", "poll"}
             PROVE  FALSE
  BY DEF TrueWaitMeansNoBlocking, TrueWait
<1>1. status # ZeroStatus /\ status.state # "RESULT"
  BY CopyFacts DEF CopyFits
<1> QED
  BY <1>1 DEF RInv

(* RInv, which follows each registered wait, holds in every behaviour of   *)
(* the timer future.                                                       *)
THEOREM TimerCounting == Spec => []RInv
  BY InitRInv, NextRInv, PTL DEF Spec

(***************************************************************************)
(* With at most MAX_DOWNSTREAM_COUNT clients, no assertion of wait, cancel *)
(* and finish fires before the first timeout, the types are kept (for the  *)
(* count too, unless the program exited), and udipe_finish() never blocks  *)
(* after a udipe_wait() that returned true.                                *)
(***************************************************************************)
THEOREM TimerCallsConsistent ==
  ASSUME Cardinality(Clients) <= MAX_DOWNSTREAM_COUNT
  PROVE  Spec => []CallsConsistent
<1>1. RInv => CallsConsistent
  BY InvTypeOK, InvAssertsHold, InvNoBlocking DEF CallsConsistent
<1> QED
  BY <1>1, TimerCounting, PTL
=============================================================================
