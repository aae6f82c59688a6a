--------------------------- MODULE BenchmarkClock ---------------------------
(***************************************************************************)
(* The benchmark harness and the calibration of its clocks                 *)
(* (src/benchmark.c, src/benchmark.h).                                     *)
(*                                                                         *)
(* Calibration is one long sequential function.  It measures an empty loop *)
(* for a doubling number of iterations and juggles a dozen distributions   *)
(* whose storage goes round between local variables, a pool of builders    *)
(* and the clock itself; the comments of the code say at each loop head    *)
(* which variables are valid and what they hold.  The model keeps the      *)
(* storage cells, the variables that point to them and, of the data, only  *)
(* WHAT a cell holds: the durations of n iterations, the change from n to  *)
(* 2n iterations, the change predicted from it, a frequency.  What the     *)
(* statistics say is a nondeterministic choice.                            *)
(***************************************************************************)
EXTENDS Integers, Sequences, FiniteSets

CONSTANTS NumCells,      \* bound: distributions that may be allocated
          MaxIters,      \* bound: iterations of the longest empty loop
          MaxResolution, \* bound: coarsest clock resolution, in ns
          NRuns,         \* THRESHOLD_NRUNS = SIGNAL_NRUNS = AFFINE_NRUNS
          PageStamps,    \* timestamps that fit in a page
          NsPerSec       \* radix of the nanoseconds of a timestamp

ASSUME BenchmarkClockAssumption ==
    {NumCells, MaxIters, MaxResolution, NRuns, PageStamps, NsPerSec}
       \subseteq Nat \ {0}

VARIABLES pc,         \* where the harness is
          cell,       \* storage of the distributions: state and content
          pool,       \* distribution_pool_t: stack of recycled builders
          held,       \* distribution variable -> cell it points to
          misused,    \* a poisoned or recycled distribution was used
          num_iters,  \* length of the loop being measured
          resolution, \* clock_resolution
          oclock,     \* fields of os_clock_t other than its distribution
          xclock,     \* fields of x86_clock_t other than its distribution
          in_affine_range

vars == <<pc, cell, pool, held, misused, num_iters, resolution, oclock,
          xclock, in_affine_range>>

Cells == 1..NumCells
NULL == 0

Names == {"prev_durations", "curr_durations", "curr_changes", "prev_changes",
          "predicted_changes", "changes_diff", "best_empty_changes",
          "base_ticks", "double_ticks", "change_ticks", "frequencies",
          "builder"}

Nothing == <<"nothing">>
Garbage == <<"garbage">>
Durations(clock, n) == <<"durations", clock, n>>    \* n iterations
Changes(clock, n) == <<"changes", clock, n>>        \* from n to 2n iterations
Predicted(n) == <<"predicted", n>>                  \* twice the change from n/2
Deviation(n) == <<"deviation", n>>                  \* actual less predicted
Frequency(n) == <<"frequency", n>>                  \* ticks over nanoseconds

(***************************************************************************)
(* Distributions and their pool (src/benchmark/).                          *)
(***************************************************************************)
Heap == [cell |-> cell, pool |-> pool, held |-> held, misused |-> misused]

Unused(hp) == {c \in Cells : hp.cell[c].state = "unused"}

Fresh(hp) == CHOOSE c \in Unused(hp) : \A d \in Unused(hp) : c <= d

SetCell(hp, c, state, what) ==
    IF c = NULL THEN hp.cell
    ELSE [hp.cell EXCEPT ![c] = [state |-> state, what |-> what]]

\* A distribution that may be read: built and not recycled since.
Usable(hp, d) == hp.held[d] # NULL /\ hp.cell[hp.held[d]].state = "built"

What(hp, d) == IF Usable(hp, d) THEN hp.cell[hp.held[d]].what ELSE Garbage

\* distribution_pool_request(): pop a recycled builder or allocate one.
Request(hp) ==
    IF hp.pool # << >>
    THEN [hp EXCEPT !.pool = SubSeq(@, 1, Len(@) - 1),
                    !.held["builder"] = hp.pool[Len(hp.pool)]]
    ELSE [hp EXCEPT !.cell = SetCell(hp, Fresh(hp), "builder", Nothing),
                    !.held["builder"] = Fresh(hp)]

\* The builder is filled and built into distribution `d`, which is computed
\* from the distributions `from`.
Build(hp, d, what, from) ==
    [hp EXCEPT !.cell = SetCell(hp, hp.held["builder"], "built", what),
               !.held = [@ EXCEPT ![d] = hp.held["builder"],
                                  !["builder"] = NULL],
               !.misused = @ \/ \E f \in from : ~Usable(hp, f)]

\* distribution_reset(): back to an empty builder, `d` is poisoned.
Reset(hp, d) ==
    [hp EXCEPT !.cell = SetCell(hp, hp.held[d], "builder", Nothing),
               !.held = [@ EXCEPT !["builder"] = hp.held[d], ![d] = NULL],
               !.misused = @ \/ ~Usable(hp, d)]

\* distribution_pool_recycle(): reset and push.
Recycle(hp, d) ==
    [hp EXCEPT !.cell = SetCell(hp, hp.held[d], "builder", Nothing),
               !.pool = Append(@, hp.held[d]),
               !.held[d] = NULL,
               !.misused = @ \/ ~Usable(hp, d)]

\* Assignment of a distribution_t: both variables name the same storage.
Assign(hp, d, from) == [hp EXCEPT !.held[d] = hp.held[from]]

Poison(hp, d) == [hp EXCEPT !.held[d] = NULL]

\* distribution_clone(): a fresh allocation that never comes from the pool.
Clone(hp, d, from) ==
    [hp EXCEPT !.cell = SetCell(hp, Fresh(hp), "built", What(hp, from)),
               !.held[d] = Fresh(hp),
               !.misused = @ \/ ~Usable(hp, from)]

\* distribution_finalize(): free the storage of `d`.
Free(hp, d) ==
    [hp EXCEPT !.cell = SetCell(hp, hp.held[d], "freed", Nothing),
               !.held[d] = NULL,
               !.misused = @ \/ ~Usable(hp, d)]

\* distribution_pool_finalize(): discard the recycled builders.
FreePool(hp) ==
    [hp EXCEPT !.cell = [c \in Cells |->
                            IF \E i \in 1..Len(hp.pool) : hp.pool[i] = c
                            THEN [state |-> "freed", what |-> Nothing]
                            ELSE hp.cell[c]],
               !.pool = << >>]

\* distribution_sub() of two durations: a change if the loop doubled.
Difference(hi, lo) ==
    IF \E k \in {"os", "tsc"}, n \in 1..MaxIters :
          hi = Durations(k, 2 * n) /\ lo = Durations(k, n)
    THEN Changes(lo[2], lo[3]) ELSE Garbage

\* distribution_scale() by 2: the next change under the affine model.
Doubled(chg) ==
    IF \E n \in 1..MaxIters : chg = Changes("os", n)
    THEN Predicted(2 * chg[3]) ELSE Garbage

\* distribution_sub() of an actual and a predicted change.
ActualLessPredicted(chg, pred) ==
    IF \E n \in 1..MaxIters : chg = Changes("os", n) /\ pred = Predicted(n)
    THEN Deviation(chg[3]) ELSE Garbage

\* distribution_scaled_div(): a frequency if ticks and nanoseconds were spent
\* in the same loop.
TicksOverNs(ticks, ns) ==
    IF \E n \in 1..MaxIters : ticks = Changes("tsc", n) /\ ns = Changes("os", n)
    THEN Frequency(ticks[3]) ELSE Garbage

SetHeap(hp) ==
    /\ cell' = hp.cell
    /\ pool' = hp.pool
    /\ held' = hp.held
    /\ misused' = hp.misused

(***************************************************************************)
(* Timestamps and storage.                                                 *)
(***************************************************************************)
Stamps == [tv_sec : 0..1, tv_nsec : 0..(NsPerSec - 1)]

\* The instant a timestamp stands for.
Instant(t) == t.tv_sec * NsPerSec + t.tv_nsec

\* os_timestamp_le(), with the comparison of t1.tv_nsec and t2.tv_sec.
os_timestamp_le(t1, t2) ==
    \/ t1.tv_sec < t2.tv_sec
    \/ t1.tv_nsec = t2.tv_sec /\ t1.tv_nsec <= t2.tv_nsec

\* assert(): a condition that does not hold stops a debug build, and a release
\* build goes on.
AssertThen(condition, next) ==
    pc' = next \/ (~condition /\ pc' = "aborted")

\* os_duration(): of its control, the assertion that time does not go back.
os_duration(start, end, next) == AssertThen(os_timestamp_le(start, end), next)

\* allocation_size() in pages, for a number of timestamps.
PagesFor(n) == (n + PageStamps - 1) \div PageStamps

NoStamps == [pages |-> 0, unmapped |-> 0, num_durations |-> 0]

\* realtime_allocate(2 * runs * sizeof ...)
AllocateStamps(runs) ==
    [pages |-> PagesFor(2 * runs), unmapped |-> 0, num_durations |-> runs]

\* realtime_liberate(): the pages that the given size covers are unmapped.
LiberateStamps(s, n) == [s EXCEPT !.unmapped = PagesFor(n)]

\* Head of os_clock_measure() and x86_clock_measure(): grow the storage.
EnsureRuns(s, runs) == IF runs > s.num_durations THEN AllocateStamps(runs) ELSE s

(***************************************************************************)
(* os_clock_measure() of an empty loop of n iterations into variable d: a  *)
(* builder is requested, the storage suffices or is grown, the durations   *)
(* between successive timestamps are computed and inserted.                *)
(***************************************************************************)
MeasureOs(hp, d, n, next) ==
    /\ oclock' = [oclock EXCEPT !.stamps = EnsureRuns(@, NRuns)]
    /\ SetHeap(Build(Request(hp), d, Durations("os", n), {}))
    /\ \E start, end \in Stamps :
          Instant(start) <= Instant(end) /\ os_duration(start, end, next)

(***************************************************************************)
(* x86_clock_measure(): compute_x86_duration() asserts that num_runs is    *)
(* strictly below num_durations.                                           *)
(***************************************************************************)
MeasureTsc(hp, x, d, n, next) ==
    LET s == EnsureRuns(x.stamps, NRuns)
    IN  /\ xclock' = [x EXCEPT !.stamps = s]
        /\ SetHeap(Build(Request(hp), d, Durations("tsc", n), {}))
        /\ AssertThen(NRuns < s.num_durations, next)

TypeOK ==
    /\ pc \in {"off", "harness", "first", "thr_measure", "thr_compare", "signal",
               "sig_compare", "affine", "aff_compare", "aff_decide", "x86",
               "x86_double", "x86_compare", "ready", "exited", "aborted",
               "no_x86", "no_os", "finalized"}
    /\ cell \in [Cells -> [state : {"unused", "builder", "built", "freed"},
                           what : {Nothing, Garbage}
                                  \cup {Durations(k, n) : k \in {"os", "tsc"},
                                                          n \in 1..MaxIters}
                                  \cup {Changes(k, n) : k \in {"os", "tsc"},
                                                        n \in 1..MaxIters}
                                  \cup {Predicted(n) : n \in 1..MaxIters}
                                  \cup {Deviation(n) : n \in 1..MaxIters}
                                  \cup {Frequency(n) : n \in 1..MaxIters}]]
    /\ pool \in Seq(Cells \cup {NULL})
    /\ held \in [Names -> Cells \cup {NULL}]
    /\ misused \in BOOLEAN
    /\ num_iters \in 1..MaxIters
    /\ resolution \in 1..MaxResolution
    /\ {oclock.stamps.pages, oclock.stamps.unmapped, oclock.stamps.num_durations,
        oclock.dither_iters, oclock.best_empty_iters, xclock.stamps.pages,
        xclock.stamps.unmapped, xclock.stamps.num_durations,
        xclock.dither_iters} \subseteq Nat
    /\ in_affine_range \in BOOLEAN

Init ==
    /\ pc = "off"
    /\ cell = [c \in Cells |-> [state |-> "unused", what |-> Nothing]]
    /\ pool = << >>
    /\ held = [d \in Names |-> NULL]
    /\ misused = FALSE
    /\ num_iters = 1
    /\ resolution = MaxResolution
    /\ oclock = [stamps |-> NoStamps, dither_iters |-> 0, best_empty_iters |-> 0]
    /\ xclock = [stamps |-> NoStamps, dither_iters |-> 0]
    /\ in_affine_range = FALSE

(***************************************************************************)
(* udipe_benchmark_initialize() up to the clock: logger, name filter,      *)
(* topology; the timing thread is pinned to the CPU it runs on.            *)
(***************************************************************************)
Initialize ==
    /\ pc = "off"
    /\ pc' = "harness"
    /\ UNCHANGED <<cell, pool, held, misused, num_iters, resolution, oclock,
                   xclock, in_affine_range>>

\* benchmark_clock_initialize(): an empty pool, then os_clock_initialize().
ClockInitialize ==
    /\ pc = "harness"
    /\ pool' = << >>
    /\ oclock' = [oclock EXCEPT !.stamps = AllocateStamps(NRuns)]
    /\ num_iters' = 1
    /\ pc' = "first"
    /\ UNCHANGED <<cell, held, misused, resolution, xclock, in_affine_range>>

\* A loop with 1 iteration; its durations give the first resolution estimate.
MeasureOnce ==
    /\ pc = "first"
    /\ MeasureOs(Heap, "prev_durations", num_iters, "thr_measure")
    /\ resolution' \in 1..MaxResolution
    /\ UNCHANGED <<num_iters, xclock, in_affine_range>>

(***************************************************************************)
(* Threshold stage, first half of an iteration: double the loop, measure   *)
(* it and refine the resolution with the differences seen.                 *)
(***************************************************************************)
ThresholdMeasure ==
    /\ pc = "thr_measure"
    /\ 2 * num_iters <= MaxIters
    /\ num_iters' = 2 * num_iters
    /\ MeasureOs(Heap, "curr_durations", num_iters', "thr_compare")
    /\ \E difference \in 1..MaxResolution :
          resolution' = IF resolution > 1 /\ difference < resolution
                        THEN difference ELSE resolution
    /\ UNCHANGED <<xclock, in_affine_range>>

\* Mutant: prev_durations is recycled before it is subtracted.
ComparedLate ==
    LET what == Difference(What(Heap, "curr_durations"),
                           What(Heap, "prev_durations"))
    IN  Build(Request(Recycle(Heap, "prev_durations")), "curr_changes", what,
              {"curr_durations", "prev_durations"})

\* The change distribution of the current pair; prev_durations is recycled.
Compared ==
    LET what == Difference(What(Heap, "curr_durations"),
                           What(Heap, "prev_durations"))
    IN  Recycle(Build(Request(Heap), "curr_changes", what,
                      {"curr_durations", "prev_durations"}), "prev_durations")

\* Second half: a change of zero or less is still too likely, or no more.
ThresholdCompare ==
    /\ pc = "thr_compare"
    /\ \/ /\ SetHeap(Recycle(Poison(Assign(Compared, "prev_durations",
                                           "curr_durations"),
                                    "curr_durations"), "curr_changes"))
          /\ pc' = "thr_measure"
          /\ UNCHANGED oclock
       \/ /\ SetHeap(Compared)
          /\ oclock' = [oclock EXCEPT !.dither_iters = num_iters \div 2]
          /\ pc' = "signal"
    /\ UNCHANGED <<num_iters, resolution, xclock, in_affine_range>>

\* Signal stage: the signal-to-noise ratio is too low, try a longer loop.
SignalMeasure ==
    /\ pc = "signal"
    /\ 2 * num_iters <= MaxIters
    /\ num_iters' = 2 * num_iters
    /\ MeasureOs(Assign(Heap, "prev_durations", "curr_durations"),
                 "curr_durations", num_iters', "sig_compare")
    /\ UNCHANGED <<resolution, xclock, in_affine_range>>

\* The storage of the previous changes is reused for the new ones.
SignalCompare ==
    /\ pc = "sig_compare"
    /\ LET what == Difference(What(Heap, "curr_durations"),
                              What(Heap, "prev_durations"))
       IN  SetHeap(Recycle(Build(Reset(Heap, "curr_changes"), "curr_changes",
                                 what, {"curr_durations", "prev_durations"}),
                           "prev_durations"))
    /\ pc' = "signal"
    /\ UNCHANGED <<num_iters, resolution, oclock, xclock, in_affine_range>>

\* The ratio is satisfactory (perhaps at once): look for the affine region.
SignalDone ==
    /\ pc = "signal"
    /\ pc' = "affine"
    /\ in_affine_range' = FALSE
    /\ UNCHANGED <<cell, pool, held, misused, num_iters, resolution, oclock,
                   xclock>>

(***************************************************************************)
(* Affine stage: double the loop again; the current distributions become   *)
(* the previous ones.                                                      *)
(***************************************************************************)
AffineMeasure ==
    /\ pc = "affine"
    /\ 2 * num_iters <= MaxIters
    /\ num_iters' = 2 * num_iters
    /\ LET h1 == Poison(Assign(Heap, "prev_durations", "curr_durations"),
                        "curr_durations")
           h2 == Poison(Assign(h1, "prev_changes", "curr_changes"), "curr_changes")
       IN  MeasureOs(h2, "curr_durations", num_iters', "aff_compare")
    /\ UNCHANGED <<resolution, xclock, in_affine_range>>

\* The new changes, the ones the affine model predicts from the previous ones,
\* and the distribution of their deviation, which is recycled once analysed.
AffineCompare ==
    /\ pc = "aff_compare"
    /\ LET h1 == Build(Request(Compared), "predicted_changes",
                       Doubled(What(Compared, "prev_changes")), {"prev_changes"})
           what == ActualLessPredicted(What(h1, "curr_changes"),
                                       What(h1, "predicted_changes"))
           h2 == Build(Reset(h1, "prev_changes"), "changes_diff", what,
                       {"curr_changes", "predicted_changes"})
           h3 == Recycle(h2, "predicted_changes")
       IN  /\ SetHeap([Recycle(h3, "changes_diff") EXCEPT
                          !.misused = @ \/ what = Garbage])
           /\ pc' = "aff_decide"
    /\ UNCHANGED <<num_iters, resolution, oclock, xclock, in_affine_range>>

\* The slope changed before the affine regime was reached: go on.
NotAffineYet ==
    /\ pc = "aff_decide"
    /\ ~in_affine_range
    /\ pc' = "affine"
    /\ UNCHANGED <<cell, pool, held, misused, num_iters, resolution, oclock,
                   xclock, in_affine_range>>

\* Mutant: the longer loop of the pair is remembered.
EnterAffineLonger ==
    /\ pc = "aff_decide"
    /\ ~in_affine_range
    /\ in_affine_range' = TRUE
    /\ oclock' = [oclock EXCEPT !.best_empty_iters = num_iters]
    /\ SetHeap(Clone(Heap, "best_empty_changes", "curr_changes"))
    /\ pc' = "affine"
    /\ UNCHANGED <<num_iters, resolution, xclock>>

\* The slope is stable for the first time: the first best estimate.
EnterAffine ==
    /\ pc = "aff_decide"
    /\ ~in_affine_range
    /\ in_affine_range' = TRUE
    /\ oclock' = [oclock EXCEPT !.best_empty_iters = num_iters \div 2]
    /\ SetHeap(Clone(Heap, "best_empty_changes", "curr_changes"))
    /\ pc' = "affine"
    /\ UNCHANGED <<num_iters, resolution, xclock>>

\* Mutant: the previous best changes are overwritten without being recycled.
StayAffineForgets ==
    /\ pc = "aff_decide"
    /\ in_affine_range
    /\ oclock' = [oclock EXCEPT !.best_empty_iters = num_iters \div 2]
    /\ SetHeap(Clone(Heap, "best_empty_changes", "curr_changes"))
    /\ pc' = "affine"
    /\ UNCHANGED <<num_iters, resolution, xclock, in_affine_range>>

\* Still stable: the estimate is or is not better than the best so far.
StayAffine ==
    /\ pc = "aff_decide"
    /\ in_affine_range
    /\ \/ /\ oclock' = [oclock EXCEPT !.best_empty_iters = num_iters \div 2]
          /\ SetHeap(Clone(Recycle(Heap, "best_empty_changes"),
                           "best_empty_changes", "curr_changes"))
       \/ UNCHANGED <<oclock, cell, pool, held, misused>>
    /\ pc' = "affine"
    /\ UNCHANGED <<num_iters, resolution, xclock, in_affine_range>>

\* The slope changed again: the affine regime is over, and the OS clock is
\* calibrated.
LeaveAffine ==
    /\ pc = "aff_decide"
    /\ in_affine_range
    /\ SetHeap(Recycle(Recycle(Heap, "curr_durations"), "curr_changes"))
    /\ pc' = "x86"
    /\ UNCHANGED <<num_iters, resolution, oclock, xclock, in_affine_range>>

(***************************************************************************)
(* x86_clock_initialize(): the best loop once more and its double, timed   *)
(* with the TSC.                                                           *)
(***************************************************************************)
X86Base ==
    /\ pc = "x86"
    /\ num_iters' = oclock.best_empty_iters
    /\ MeasureTsc(Heap, [stamps |-> AllocateStamps(NRuns),
                         dither_iters |-> oclock.dither_iters],
                  "base_ticks", num_iters', "x86_double")
    /\ UNCHANGED <<resolution, oclock, in_affine_range>>

X86Double ==
    /\ pc = "x86_double"
    /\ num_iters' = 2 * num_iters
    /\ MeasureTsc(Heap, xclock, "double_ticks", num_iters', "x86_compare")
    /\ UNCHANGED <<resolution, oclock, in_affine_range>>

(***************************************************************************)
(* The rest of x86_clock_initialize(), x86_duration() included: frequency  *)
(* from the ticks and the nanoseconds of the best loop.  x86_duration()    *)
(* hands its builder back to the caller, where the variable goes out of    *)
(* scope.                                                                  *)
(***************************************************************************)
X86Compare ==
    /\ pc = "x86_compare"
    /\ LET ticks == Difference(What(Heap, "double_ticks"), What(Heap, "base_ticks"))
           h1 == Build(Request(Heap), "change_ticks", ticks,
                       {"double_ticks", "base_ticks"})
           h2 == Recycle(Recycle(h1, "base_ticks"), "double_ticks")
           h3 == Build(Request(h2), "frequencies",
                       TicksOverNs(What(h2, "change_ticks"),
                                   What(h2, "best_empty_changes")),
                       {"change_ticks", "best_empty_changes"})
           h4 == Recycle(Request(h3), "change_ticks")
       IN  SetHeap(Poison(h4, "builder"))
    /\ pc' = "ready"
    /\ UNCHANGED <<num_iters, resolution, oclock, xclock, in_affine_range>>

(***************************************************************************)
(* udipe_benchmark_run(): a benchmark whose name passes the filter is run  *)
(* and the clock recalibrated, which is not implemented and exits.         *)
(***************************************************************************)
Run ==
    /\ pc = "ready"
    /\ \E name_matches \in BOOLEAN : pc' = IF name_matches THEN "exited" ELSE pc
    /\ UNCHANGED <<cell, pool, held, misused, num_iters, resolution, oclock,
                   xclock, in_affine_range>>

\* udipe_benchmark_finalize() undoes it all, starting with the TSC clock.
FinalizeX86 ==
    /\ pc = "ready"
    /\ xclock' = [xclock EXCEPT !.stamps = LiberateStamps(@, 2 * @.num_durations)]
    /\ SetHeap(Free(Heap, "frequencies"))
    /\ pc' = "no_x86"
    /\ UNCHANGED <<num_iters, resolution, oclock, in_affine_range>>

FinalizeOs ==
    /\ pc = "no_x86"
    /\ oclock' = [oclock EXCEPT !.stamps = LiberateStamps(@, @.num_durations + 1)]
    /\ SetHeap(Free(Heap, "best_empty_changes"))
    /\ pc' = "no_os"
    /\ UNCHANGED <<num_iters, resolution, xclock, in_affine_range>>

\* The pool last, then what udipe_benchmark_initialize() set up.
FinalizePool ==
    /\ pc = "no_os"
    /\ SetHeap(FreePool(Heap))
    /\ pc' = "finalized"
    /\ UNCHANGED <<num_iters, resolution, oclock, xclock, in_affine_range>>

Next ==
    \/ Initialize \/ ClockInitialize \/ MeasureOnce
    \/ ThresholdMeasure \/ ThresholdCompare
    \/ SignalMeasure \/ SignalCompare \/ SignalDone
    \/ AffineMeasure \/ AffineCompare
    \/ NotAffineYet \/ EnterAffine \/ StayAffine \/ LeaveAffine
    \/ X86Base \/ X86Double \/ X86Compare
    \/ Run \/ FinalizeX86 \/ FinalizeOs \/ FinalizePool

Spec == Init /\ [][Next]_vars
-----------------------------------------------------------------------------
Allocated == {c \in Cells : cell[c].state \in {"builder", "built"}}
Pooled == {c \in Cells : \E i \in 1..Len(pool) : pool[i] = c}
Holders(c) == {d \in Names : held[d] = c}

(***************************************************************************)
(* No distribution is read, reset, recycled or freed after its storage was *)
(* given back, and nothing poisoned enters the pool: the hand-written      *)
(* ownership of prev_, curr_ and best_ variables is right on every path.   *)
(***************************************************************************)
NoUseAfterRecycle == ~misused /\ \A i \in 1..Len(pool) : pool[i] # NULL

(***************************************************************************)
(* Storage has one owner: a cell is in the pool once and then no variable  *)
(* points to it, or exactly one variable does.                             *)
(***************************************************************************)
OneOwner ==
    /\ \A i, j \in 1..Len(pool) : pool[i] = pool[j] => i = j
    /\ \A c \in Allocated : Cardinality(Holders(c)) <= (IF c \in Pooled THEN 0 ELSE 1)

(***************************************************************************)
(* The loop invariants that the comments of os_clock_initialize() state,   *)
(* and the two things the TSC calibration relies on: the best changes      *)
(* belong to best_empty_iters, and the frequency divides ticks by the      *)
(* nanoseconds of the same loop.                                           *)
(***************************************************************************)
DistributionsAsCommented ==
    /\ pc = "thr_measure" =>
          /\ What(Heap, "prev_durations") = Durations("os", num_iters)
          /\ ~Usable(Heap, "curr_durations") /\ ~Usable(Heap, "curr_changes")
    /\ pc \in {"signal", "affine", "aff_decide"} =>
          /\ What(Heap, "curr_durations") = Durations("os", num_iters)
          /\ What(Heap, "curr_changes") = Changes("os", num_iters \div 2)
          /\ ~Usable(Heap, "prev_changes") /\ ~Usable(Heap, "predicted_changes")
    /\ in_affine_range /\ pc \notin {"no_os", "finalized"} =>
          What(Heap, "best_empty_changes") = Changes("os", oclock.best_empty_iters)
    /\ pc \in {"ready", "exited"} =>
          What(Heap, "frequencies") = Frequency(oclock.best_empty_iters)

\* Inside os_clock_initialize().
InOsCalibration ==
    pc \in {"first", "thr_measure", "thr_compare", "signal", "sig_compare",
            "affine", "aff_compare", "aff_decide"}

(***************************************************************************)
(* os_clock_initialize() loses no storage, however long each of its stages *)
(* takes: at every step of it an allocated distribution or builder is in   *)
(* the pool or belongs to exactly one variable, and when it is done all of *)
(* its storage is back in the pool but the distribution that the clock     *)
(* keeps.                                                                  *)
(***************************************************************************)
OsCalibrationLosesNothing ==
    /\ TypeOK
    /\ OneOwner
    /\ InOsCalibration => \A c \in Allocated \ Pooled : Holders(c) # {}
    /\ pc = "x86" => Allocated \ Pooled = {held["best_empty_changes"]}
=============================================================================
