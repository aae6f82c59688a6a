---------------------------- MODULE FutureStatus ----------------------------
(***************************************************************************)
(* The status word of a udipe future (src/src/future/status.h) and the     *)
(* operations on a local copy of it (src/src/future/status_ops.[ch],       *)
(* src/src/future/type.h).  The 32-bit bitfield is a record here.  Two of  *)
(* its fields are left out: `reserved`, which is always 0, and the guard   *)
(* bit `downstream_count_overflow`, which would be set by incrementing     *)
(* `downstream_count` past MAX_DOWNSTREAM_COUNT: a count above that bound  *)
(* stands for it, and CountInRange below excludes it.                      *)
(***************************************************************************)
EXTENDS Naturals

CONSTANT
  MAX_DOWNSTREAM_COUNT    \* UINT16_MAX in status.h, smaller in the models

ASSUME MaxCountAssumption == MAX_DOWNSTREAM_COUNT \in Nat

-----------------------------------------------------------------------------
(* Enumerations.                                                           *)

States   == {"UNINITIALIZED", "WAITING", "PROCESSING", "CANCELING", "RESULT"}

Outcomes == {"UNKNOWN", "SUCCESS", "FAILURE_DEPENDENCY", "FAILURE_INTERNAL",
             "FAILURE_CANCELED"}

NetworkTypes == {"NETWORK_CONNECT", "NETWORK_DISCONNECT", "NETWORK_SEND",
                 "NETWORK_RECV"}

Types == NetworkTypes \cup
         {"INVALID", "CUSTOM", "JOIN", "UNORDERED", "TIMER_ONCE",
          "TIMER_REPEAT"}

Statuses == [downstream_count : Nat, available : BOOLEAN, state : States,
             outcome : Outcomes, type : Types, notify_address : BOOLEAN,
             notify_event_or_lazy_lock : BOOLEAN]

-----------------------------------------------------------------------------
(* What the type of a future says about its life cycle (type.h).           *)

HasDependencies(type)  == type \in NetworkTypes \cup {"JOIN", "UNORDERED"}

HasProcessing(type)    == type \in NetworkTypes \cup
                                   {"CUSTOM", "TIMER_ONCE", "TIMER_REPEAT"}

UsesLazyLock(type)     == type \in {"JOIN", "UNORDERED", "TIMER_REPEAT"}

UsesWorkerThread(type) == type \in NetworkTypes \cup {"CUSTOM"}

-----------------------------------------------------------------------------
(* The all-zero word of a future that lies in an allocator cache.          *)
ZeroStatus ==
  [downstream_count |-> 0, available |-> FALSE, state |-> "UNINITIALIZED",
   outcome |-> "UNKNOWN", type |-> "INVALID", notify_address |-> FALSE,
   notify_event_or_lazy_lock |-> FALSE]

(* The word that udipe_start_custom() stores.                              *)
InitialCustomStatus ==
  [downstream_count |-> 0, available |-> TRUE, state |-> "PROCESSING",
   outcome |-> "UNKNOWN", type |-> "CUSTOM", notify_address |-> FALSE,
   notify_event_or_lazy_lock |-> FALSE]

(***************************************************************************)
(* future_status_debug_check(): the consistency conditions that debug      *)
(* builds assert on every status word they load or are about to store.     *)
(***************************************************************************)
CountInRange(s) == s.downstream_count <= MAX_DOWNSTREAM_COUNT

HasOutcome(s) == s.state \in {"CANCELING", "RESULT"}

StateFitsType(s, is_allocated) ==
  /\ s.state = "UNINITIALIZED" <=> ~is_allocated
  /\ s.state = "WAITING"    => HasDependencies(s.type)
  /\ s.state = "PROCESSING" => HasProcessing(s.type)
  /\ s.state = "CANCELING"  => UsesWorkerThread(s.type)

OutcomeFitsState(s) ==
  /\ s.outcome = "UNKNOWN" <=> ~HasOutcome(s)
  /\ s.outcome = "SUCCESS" => s.state = "RESULT"
  /\ s.outcome = "FAILURE_DEPENDENCY" => HasDependencies(s.type)
  /\ s.outcome = "FAILURE_INTERNAL"   => HasProcessing(s.type)

NotifyFitsType(s, is_allocated) ==
  IF is_allocated
  THEN s.notify_event_or_lazy_lock =>
         \/ UsesLazyLock(s.type) /\ s.state # "CANCELING"
         \/ UsesWorkerThread(s.type)
  ELSE ~s.notify_address /\ ~s.notify_event_or_lazy_lock

DebugCheck(s, is_allocated) ==
  /\ s.available => is_allocated
  /\ s.downstream_count # 0 => s.available
  /\ CountInRange(s)
  /\ is_allocated <=> s.type # "INVALID"
  /\ StateFitsType(s, is_allocated)
  /\ OutcomeFitsState(s)
  /\ NotifyFitsType(s, is_allocated)

-----------------------------------------------------------------------------
(* prepare_downstream_count_inc() and prepare_downstream_count_dec() under *)
(* a downstream_count_policy_t; future_downstream_count_dec() is the       *)
(* atomic counterpart of the latter under CYCLE.                           *)

Policies == {"CYCLE", "KEEP"}

CountInc(s, policy) ==
  IF policy = "CYCLE" THEN [s EXCEPT !.downstream_count = @ + 1] ELSE s

CountDec(s, policy) ==
  IF policy = "CYCLE" THEN [s EXCEPT !.downstream_count = @ - 1] ELSE s

(* The conditions these two functions check with ensure(), which also ends *)
(* the process in release builds.                                          *)
CountIncAllowed(s, policy) ==
  policy = "CYCLE" => s.downstream_count < MAX_DOWNSTREAM_COUNT

CountDecAllowed(s, policy) ==
  policy = "CYCLE" => s.downstream_count >= 1
=============================================================================
