------------------------------ MODULE Promise ------------------------------
(***************************************************************************)
(* What a custom future promises to the application, without status word,  *)
(* reference count or notification: an operation is started, it is decided *)
(* exactly once whether it completes with a payload or is canceled, a      *)
(* canceled operation is over when its worker says so, and the one call    *)
(* that ends the life of the future delivers that decision (udipe_finish)  *)
(* or drops it (udipe_cancel with `finish`).                               *)
(***************************************************************************)
CONSTANTS Payloads, NoPayload

VARIABLES
  phase,      \* where the operation is
  value,      \* what was decided
  delivered   \* what udipe_finish() returned

promiseVars == <<phase, value, delivered>>

Undecided    == [type |-> "NONE", payload |-> NoPayload]
Canceled     == [type |-> "FAILURE_CANCELED", payload |-> NoPayload]
Completed(p) == [type |-> "CUSTOM", payload |-> p]

PromiseInit ==
  /\ phase = "free"
  /\ value = Undecided
  /\ delivered = Undecided

Begin ==
  /\ phase = "free"
  /\ phase' = "pending"
  /\ delivered' = Undecided
  /\ UNCHANGED value

Complete ==
  /\ phase = "pending"
  /\ phase' = "done"
  /\ \E p \in Payloads : value' = Completed(p)
  /\ UNCHANGED delivered

Abandon ==
  /\ phase = "pending"
  /\ phase' = "canceling"
  /\ value' = Canceled
  /\ UNCHANGED delivered

Settle ==
  /\ phase = "canceling"
  /\ phase' = "done"
  /\ UNCHANGED <<value, delivered>>

Deliver ==
  /\ phase = "done"
  /\ phase' = "free"
  /\ delivered' = value
  /\ value' = Undecided

Drop ==
  /\ phase = "done"
  /\ phase' = "free"
  /\ value' = Undecided
  /\ UNCHANGED delivered

PromiseNext == Begin \/ Complete \/ Abandon \/ Settle \/ Deliver \/ Drop

PromiseSpec == PromiseInit /\ [][PromiseNext]_promiseVars
=============================================================================
