# udipe in TLA+

Models of [udipe](../src/README.md), a C11 library for asynchronous UDP
networking.  At this commit the library consists of its infrastructure: futures
and the ways to wait for them, the allocator behind them, context and thread
teardown, buffers, logging and a micro-benchmark suite.  The network threads are
not written yet.  The futures are where the concurrency is, so they come first.

`PROJECT.json` holds the details that this file summarises: which lines each
definition translates ("map"), the runs, a mutation that each property detects,
the hazards of the code line by line, the findings and the theorems.

## Inventory

| Part | State | Operations | Interacts with | What makes it correct |
|---|---|---|---|---|
| Status word (`future/status*.h`, `type.h`, `state.h`, `outcome.h`) | one 32-bit atomic word: `downstream_count` (16 bits), `available`, `state`, `outcome`, `type`, `notify_address`, `notify_event_or_lazy_lock` | load, compare-and-swap, add/subtract one reference, futex wait, debug check | every future | the debug check accepts every word that is installed; the count never wraps |
| Custom futures (`future.c`) | the word, `custom_payload`, an event | `udipe_start_custom`, `udipe_custom_canceled`, `_try_set_result`, `_acknowledge_cancel`, `udipe_wait`, `udipe_cancel`, `udipe_finish` | worker threads of the application | each life is decided once and its result delivered; references are exact; waiters are woken |
| Waiting (`future/wait.c`) | locals of the waiting thread | eager wait (futex), join wait (lazy lock + epoll), single timer (timerfd) | status word, `address_wait`, `inpoll` | no lost wakeup, verdict true only with a result |
| Join futures | the word, an inpoll with its latch event, the upstream array and `remaining` | wait, cancel, finish (no public constructor yet) | upstream futures, `inpoll` | the lazy lock is exclusive and never strands a sleeper; the outcome is that of the upstream futures |
| Timer futures | the word, a timerfd | wait, cancel, finish (no public constructor yet) | `timer.h` | the timer expiring on a cancelation is never taken for the deadline; nobody stays in `ppoll()` |
| Allocator (`future/allocator*`) | per thread: a list of pointer pages; per context: another, behind a mutex; storage pages | allocate, liberate, exchange pages, spill | all futures, all threads | a future is in one place; the caches keep their shape and their bounds |
| Thread cache teardown (`thread_cache.c`, `refcounted_tss.c`, `context.c`) | flags of each thread cache, reference count of the TSS key | thread exit, context destruction | both race | everything is freed once, after its last use, and `udipe_finalize()` returns |
| Synchronization object caches (`sync_caches.*`) | ring of events, ring of inpolls | allocate, liberate, finalize | allocator | an object has one owner and is recycled in its initial state |
| Buffers and bit arrays (`buffer.c`, `bit_array.h`) | configuration, availability bits | configure, allocate, liberate, finalize; search, count, ranges | one network thread | a buffer has one holder; the search finds the first bit and ignores padding; defaults fit the caches |
| Memory (`memory.c`) | locked mappings, the process' `RLIMIT_MEMLOCK` | `realtime_allocate()`, `realtime_liberate()`, raise of the limit under a mutex | all threads, the kernel | what is returned is resident; no raise is lost; the call returns |
| Logging, scopes, thread names, errors | thread-local scope stack | - | everything | scopes are left in the order of entry |
| Micro-benchmarks (`benchmark.c`, `benchmark/`) | clocks, distributions (sorted bins), outlier filter, pool of builders | calibrate, measure, recycle, finalize | `memory.c` | storage has one owner and comes back; a distribution holds what its variable says |

What is hard here: the status word is changed by client threads (wait, cancel,
finish) and by the worker, all with compare-and-swap on copies that may be stale;
wakeups depend on fields of the word that was swapped in; a future is recycled
while its former worker may still be on its way out; timeouts and signals
interrupt waits; several waiters hand a lock to each other and may all give up;
two destructors race for the same cache; a page of futures travels between the
caches of threads that may exit in between; descriptors are recycled through
rings and their numbers reused at once; the memory locking limit is read and
written by separate system calls; the calibration passes a dozen distributions
from variable to variable by hand.

## Modules

| Module | Models | Composition |
|---|---|---|
| `FutureStatus` | the status word as a record, `future_status_debug_check()`, the predicates of `type.h`, the reference count operations of `status_ops.*` | used by the three futures |
| `Promise` | abstract: a future is free, pending, being canceled or done, is decided once and delivered once | implemented by `CustomFuture` |
| `CustomFuture` | one custom future over several lives, its clients and its workers | `MCCustomFuture` |
| `CustomFutureProofs` | theorems about `CustomFuture` | extends it |
| `JoinFuture` | one join future, its clients, the inpoll, the latch and the upstream futures | `MCJoinFuture` |
| `JoinFutureProofs` | theorems about `JoinFuture` | extends it |
| `TimerFuture` | one single-shot timer future over several lives, its clients, the timerfd and the clock | run as it is |
| `TimerFutureProofs` | theorems about `TimerFuture` | extends it |
| `ThreadCache` | flags of the thread caches, reference counted TSS key, `udipe_finalize()` | `MCThreadCache` |
| `ThreadCacheProofs` | theorems about `ThreadCache` | extends it |
| `PointerCache` | the segmented stack of future pointers, as operators: push, pop, extract, insert, merge, refill, spill, the bisection for the occupancy of a page | used by the allocator |
| `FutureAllocator` | allocation and liberation by several threads, exchange of pages with the context, thread exit | `MCFutureAllocator` |
| `FutureAllocatorProofs` | theorems about `FutureAllocator`, with lemmas about every operation of `PointerCache` | extends it |
| `BoundedStack` | abstract: a stack that drops its oldest element when it is full | implemented by `SyncCaches`, once for each ring of each thread |
| `SyncCaches` | the synchronization objects of futures of every type, the rings that cache them, and the kernel's table of descriptors | `MCSyncCaches` |
| `SyncCachesProofs` | theorems about `SyncCaches` | extends it |
| `BitArray` | bit arrays as operators, word by word, with reference definitions on sets of indices | extended by the buffers |
| `BufferPool` | abstract: a set of buffers that are taken and returned | implemented by `BufferAllocator` |
| `BufferAllocator` | configuration, use and finalization of the buffer allocator | `MCBufferAllocator` |
| `BufferAllocatorProofs` | theorems about `BufferAllocator`, with the lemmas on bit arrays they need | extends it |
| `RealtimeMemory` | locked memory and the raising of `RLIMIT_MEMLOCK` by several threads | `MCRealtimeMemory` |
| `RealtimeMemoryProofs` | theorems about `RealtimeMemory` | extends it |
| `BenchmarkClock` | the calibration of the OS and TSC clocks and the ownership of its distributions | `MCBenchmarkClock` |

In every state machine a step of a thread performs at most one access to shared
memory (an atomic operation, a futex or epoll call) or one section under a mutex,
and the thread's position is `pc`.  An action is named after the function, and
where a function has several accesses, after what that access does: the
compare-and-swap loop of `udipe_cancel()` is `Cancel` (first load), `CancelSwap`
(the swap succeeds) and `CancelRetry` (it fails, with a fresh copy in `snap`).
Memory is sequentially consistent: the acquire/release orders in the code are not
weakened further.  A spurious failure of `compare_exchange_weak` leaves the copy
as it was and is a stuttering step.  An `assert()` does not guard an action:
conditions that the code asserts are collected in an invariant `AssertsHold`.
Where an assertion can fail, `JoinFuture` records it in `aborted` and the process
ends.

**Custom futures.**  `status` is the word, `payload` is `custom_payload`,
`snap[c]` the client's `latest_status`, `wsnap[w]` that of the worker.  `call` and
`ret` remember what the application was told in the current life.  The
application follows the lifetime rules of `include/udipe/future.h` (`MayCall`,
`MayFinish`): calls to wait and cancel overlap freely, a finish comes when they
have returned, since everything else is undefined there.  Durations are reduced to
`UDIPE_DURATION_MIN`, `UDIPE_DURATION_MAX` and "some": a finite wait may expire
whenever the stopwatch is consulted.  The futex is atomic compare-and-sleep with
wakeups, spurious returns, and EINTR/ETIMEDOUT, which `address_wait` does not tell
apart.

**Join futures.**  There is no `udipe_start_join()` yet; `Init` is the state that
`future_allocate()` and the status checks call for.  Upstream futures settle at any
time, and their descriptors become readable afterwards.  `inpoll_wait()` returns a
batch, times out, or is interrupted.  The lock holder works through the batch,
decides, and gives the lock back, waking everybody, or one successor if it timed out.

**Thread cache.**  `flags` is the atomic word of each cache, `previous` the result
of the last `atomic_fetch_or()`.  The CONSTANT `Destructor` says which half the TSS
destructor runs: `"from_context"` is what `context.c` does, `"from_thread"` what
`thread_cache.h` asks for.  The protocol is verified for the second; the first is
a finding.

**Allocator.**  A cache is a sequence of pages with a top index and a count, as in
`future_pointer_cache_t`.  `Refill`, `Grow` and `SpillPage` are the sections under
the mutex.  Futures are identities: what is in them belongs to the other modules.

**Timer futures.**  `deadline` is what the timerfd is set to, `readable` whether it
has expired, `reached` whether the clock has passed the user's deadline.  A
canceler wakes the waiters by moving the deadline into the past
(`CancelRearm`), so that a waiter which sees the timer expire may hold a status
from before the cancelation.  `givenUp` counts the waits that timed out: their
references stay in the word, as in the code, until the count is at its limit and
the program exits.  `udipe_start_timer_once()` is declared but not written;
`StartTimer` installs the one word that the debug check admits.

**Synchronization objects.**  `objects` is the kernel's table: what each descriptor
is, whether it is signaled, what it watches.  A new descriptor gets the lowest
free number.  `Allocate` and `Liberate` have a disjunct per future type.  Of the life
of a future there are the two steps that change its objects: `Signal` signals its
event or latch, and `DetachSettled` is the waiting thread of a join that takes an
upstream future it found settled out of the inpoll (`wait.c:427`).  Which upstream
futures are still in is `attached`.  That they are attached in the first place is for
`udipe_start_join()` and `udipe_start_unordered()`, which are declared and not
written: `AttachUpstream` and `NotifyUpstream` stand for them and are marked external.

**Buffers.**  A word of the bit array is the set of the offsets of its 1 bits, so
that the operators of C are set operators and padding is explicit.  The
configuration callback and the caches of the machine are chosen from sets.  A cache
is assumed to hold at least two bytes for each core that shares it, so that 80% of
a core's share are not zero, as the assertions on the defaults take for granted.

**Memory.**  A step is a system call or the computation between two; `limit` is the
kernel's pair of soft and hard limits, `initial` and `wanted` the copies of a
thread, with `LimitBits` bits.  `mlock()` gives any of the answers that
`memory.c` lists (`MlockAnswers`), ENOMEM for too many mappings included;
`Privileged` says whether `setrlimit()` may raise the hard limit.

**Benchmark clock.**  A cell of the heap holds WHAT was measured (the durations of
n iterations, the change from n to 2n, a prediction, a frequency), and the
variables of the code point to cells.  The verdicts of the statistics are
nondeterministic.  Where an assertion of a measurement can fail, both builds are
covered: a debug build stops, a release build goes on (`AssertThen`).

## Runs

A property of a run may be a conjunction of named parts, each with its own comment
in the module: `CallsConsistent` of a join, for one, is its type invariant, the
assertions of the code and what a wait promises to the finish after it.

Passing:

- `custom_future` - 2 clients, a worker, 2 payloads: all safety properties of the
  custom future, the refinement of `Promise`, and under fairness the return of an
  unlimited `udipe_wait()`.  Two clients are enough for every pair of calls to
  race, two payloads to tell a stale payload from the right one; with
  `MAX_DOWNSTREAM_COUNT = 2` the counter reaches its limit.  That the worker of one
  life may meet the worker of the next is covered by the theorems, which hold for
  any set of workers.
- `join_future` - 2 clients and 2 upstream futures: a holder and a sleeper to take
  over, either of which may cancel or give up; a batch of two identifiers or of an
  identifier and the latch.  Safety, which the theorems extend to any number of
  clients, and under fairness the return of an unlimited `udipe_wait()`.
- `timer_future` - 3 clients: a waiter with a stale status, a waiter with a fresh
  one and a canceler; with `MAX_DOWNSTREAM_COUNT = 3` the references that timeouts
  leave behind exhaust the count and the program exits.  Safety, and the return of every wait once the
  deadline or a cancelation has come.
- `thread_cache` - 3 threads exit while the context is destroyed: two exits
  race with the cache that `udipe_finalize()` is working on and one with a cache
  it has not reached; safety, and `udipe_finalize()` returns.
- `future_allocator` - pages of 2, 2 pages per thread, 3 threads, 6 futures: a
  local cache overflows, pages travel, partial pages of two exited threads are
  merged.  The bisection is checked apart for capacities up to 17
  (`OccupancyIsCount`), where it takes several rounds.
- `sync_caches` - 2 threads, 2 futures, rings of 2, 7 descriptors, which are the
  fewest with which a full cache of pairs is given another pair.  A VIEW identifies
  states that differ in the numbers of descriptors only; which of them share a
  number, and what each stands for, is kept.
- `buffer_allocator` - words of 4 bits and at most 9 buffers: one bit into a third
  word.  Configurations with 1, 4, 9 and 10 buffers meet a word boundary, the
  capacity and the refusal; searches and ranges are compared with the reference in
  every state, for all lengths and positions.
- `realtime_memory` - 3 threads with two sizes and limits of 7 bits: one in the
  critical section, one at its door, one whose memory is already locked; limits
  that are zero, too low, below the hard limit, and infinite.  A finite soft limit
  below an infinite hard one is left out: there `AllocateReturns` is false (see
  below).
- `benchmark_clock` - loops up to 128 iterations, so that each of the phases of the
  calibration goes round more than once, and 12 cells, more than are ever in use.

Expected violations, each showing a disagreement between the code and what its
documentation says (quoted in "findings"):

- `custom_future_finish` - a `udipe_finish()` asleep in the futex when the worker
  publishes is never woken, because it holds no reference and the notification is
  skipped when `downstream_count` is 0.
- `thread_cache_destructor` - with the destructor that `context.c` installs, a
  thread that exits first leaks its cache and the context.
- `sync_caches_signaled` - the latch of a join goes back to the event cache in the
  signaled state (`allocator.c:418`, against `sync_caches.h:117` and
  `sync_caches.h:145`), and the next future that takes it looks ready at once.
  Custom events and the pairs of unordered futures and repeating timers are recycled
  in the same way; `event_reset()` is called nowhere.

Seen while modelling, and not the subject of a run.  The models do what the code
does; no property claims the contrary, and where a property claims less than the
documentation because of it, this is said here.

Futures:

- custom: `udipe_custom_try_set_result()` ignores `successful` (`future.c:395`,
  against `include/udipe/future.h:885`);
- custom: the worker still uses the word and the event of a future after it
  installed `STATE_RESULT` (`future.c:417`, against `type.h:200`);
- join: a waiter that takes over the lazy lock is counted twice and uncounted once
  (`wait.c:354`, against `status_ops.h:58`), hence `CountNeverShort` instead of an
  exact count;
- join: the holder's last swap overwrites the outcome of an accepted cancelation
  (`wait.c:490`, against `outcome.h:13`): `ResultIsFinal` is about the state, not
  about the outcome, and `OutcomeJustified` accepts either outcome;
- join: two failed upstream futures in one batch fail the assertion at
  `wait.c:440` (the model ends in `aborted`), although `outcome.h:15` describes the
  situation as normal;
- join: `inpoll_wait()` asserts that a call of epoll without events failed
  (`inpoll.c:188`), but a timeout returns 0, as documented (`inpoll.h:227`);
- join: the holder reads upstream futures of a batch after a cancelation has made
  the future `STATE_RESULT` (`wait.c:406`, against `collective_upstream.h:18`);
- timer: a wait that times out returns without `future_downstream_count_dec()`
  (`wait.c:702`, `wait.c:714`, against `status_ops.h:52` and `:58`): the count is not
  the number of waits, a long sequence of polls drives it to its limit, and
  `udipe_finish()` fails its assertion.  No property states the count of a timer, and
  `AssertsHold` is about lives in which no wait gave up;
- `inpoll_initialize()` switches on the result of the call instead of `errno`
  (`inpoll.c:30`);
- `pointer_cache.c:275` asserts `num_top_futures == top_capacity`, which is false
  whenever it is reached; the model continues as a release build does;
- every attaching thread brings new pointer pages that stay in the context cache
  when it exits: with thread churn they accumulate until the context ends;
- assertions of `refcounted_tss.h` on the flags use `|` for `&` and cannot fail.

Memory and benchmarks:

- `mlock()` also answers ENOMEM when mappings run out (`memory.c:331`); every
  allocation then doubles the limit ("We don't increase the limit if we don't need
  to", `memory.c:428`).  Below a finite hard limit that ends with EPERM.  Below an
  infinite one the soft limit wraps to zero, and the loop of `memory.c:198` doubles
  zero for ever, with the mutex held: `AllocateReturns` is violated as soon as
  `MCLimits` has a pair such as `<<2, 127>>`;
- another thread may use up the room that a raise has made, and the second
  `mlock()` fail: the buffer is pre-faulted only (`BuffersResident` allows for it);
- `os_timestamp_le()` compares nanoseconds with seconds (`benchmark.h:185`), so that
  the assertion at `benchmark.h:333` fails for nearly every measurement that begins
  and ends in the same second, and `benchmark.c:800` asserts `num_runs <
  num_durations` where they are equal: a debug build does not get through the
  calibration (`aborted`);
- `os_clock_finalize()` liberates n + 1 timestamps of 2n (`benchmark.c:637`, against
  `benchmark.h:244`), so that pages stay mapped;
- `x86_clock_initialize()` drops the builder that `x86_duration()` restitutes
  (`benchmark.c:757`, against `benchmark.h:563`), and with it its storage, so that
  `OsCalibrationLosesNothing` ends with the OS clock;
- `benchmark_clock_recalibrate()` exits, and `distribution_min_difference()` never
  updates `prev_value`.

Deadlock is checked for custom futures, synchronization objects and locked memory,
which never have to stop.  The other models stop when the join future is collected,
when the process aborted or exited, when every thread is gone, when the bounded
storage is used up, or when the harness is finalized.

## Fairness

Weak fairness for the steps of a thread that is inside the library: the operating
system schedules it.  Strong fairness for the success of a compare-and-swap: the
loops are lock-free, and it is assumed that no thread loses the race forever.  The
worker of a custom future ends its operation, and upstream futures settle, as the
documentation asks of the application.  A timerfd expires when it is due, but the
clock is not assumed to get to the user's deadline; the swaps of a timer future need
no strong fairness, since its word changes a bounded number of times.
`mtx_lock()` on the locking budget does not pass over a thread for ever (strong
fairness of `LockMutex`).  There is no fairness for new calls,
timeouts, signals, spurious wakeups, thread exits or `udipe_finalize()`.

## Theorems

`CustomFutureProofs` proves for every finite set of clients (no more than
`MAX_DOWNSTREAM_COUNT`, beyond which the code ends the process), every set of workers
and every set of payloads: type correctness, `DownstreamCountExact`,
`CancelVerdictStands`, `PayloadIsOwners`, `WaitVerdictsRight` (a wait that returned
true leaves nothing to block on, and one without limit never reports a timeout),
`AssertsHold`, the action property `OutcomeFixed`, and the refinement
`ImplementsPromise`.  `PayloadIsOwners` and `OutcomeFixed` are not checked by a run of
their own, since `ImplementsPromise` covers what they say there.  The assumptions are
those named in `CustomFuture` and `FutureStatus`.

None of these is inductive alone.  That a stale copy passes the assertions
requires to know how copies relate to the word: `IInv` adds

- the words a live future may have (`LiveWord`);
- which call brings a client where (`LocFitsCall`), and what a client at each
  point knows of its copy and of the word (`ClientKnows`): a thread about to sleep
  has left `notify_address` in the word, an expired `wait_max` has seen a result,
  a finishing thread's copy has no references;
- that a finishing thread is alone (`FinisherAlone`), which makes `available` and
  the zero count of its copy stable;
- that one worker is in charge, and the word is not final before it says so
  (`OneInCharge`, `WorkerKnows`);
- that a wait which returned true has left a final word (`TrueWaitKnows`).

There is one lemma per step of a client or worker.  Most use a frame lemma
(`LocalStep`, `ForwardStep`, `WorkerLocalStep`) which reduces the invariant to
what the moving thread knows; the count is a matter of `Cardinality` with one
element added or removed (`RegisteredWord`, `ReleasedWord`).  The refinement maps
the word to a phase and a value and shows every step to be one of `Promise` or a
stutter.

`TimerFutureProofs` proves `OutcomeJustified` of `TimerFuture` for every set of
clients and every limit of the count: success only after the deadline, and an
accepted cancelation stands and is accepted once.  An expired timer alone does not
tell why it expired; the invariant `TInv` adds what does:

- a timer set into the past, or expired before the deadline, means that the word
  has an outcome already (`TimerFits`);
- a thread about to settle the future has reached the deadline or will find that
  outcome, one about to cancel has a copy without outcome, and the one about to
  move the deadline is the only one, with nobody else accepted (`ClientKnows`);
- the finishing thread is alone (`FinisherAlone`), so that nothing is remembered
  across the end of a life.

One frame lemma (`ClientFrame`) covers every step that keeps a decided outcome and
the type of the word, and there is one lemma per action.  A second invariant,
`RInv`, counts where the references of the word come from, with no more clients than
`MAX_DOWNSTREAM_COUNT`: waits that go on, and waits that gave up and leaked theirs
(`RefsCounted`).  In a life without the second kind that is what the assertions need,
which gives `CallsConsistent`.

`JoinFutureProofs` proves all safety properties of `JoinFuture`
(`LockProtectsState`, `OutcomeJustified`, `NobodyStranded`, `CountNeverShort`,
`CallsConsistent`, and the action property `ResultIsFinal`) for every finite set of
clients, every finite set of upstream futures and every length of the event buffer,
without further hypotheses.  Its invariant `JInv` says

- which words and locals there are (`Typed`), that `remaining` counts the upstream
  futures still attached to the inpoll, that those detached are settled, and that
  the latch is signaled for results only (`InpollFits`);
- that the lock bit of the word means that exactly one thread works under it
  (`OneHolder`), whose batch has attached futures without repetition, and whose
  outcome so far is that of the futures it has dealt with (`HolderFits`);
- that a sleeper is watched: there is a holder, or a wakeup on its way, or a thread
  that was woken and is about to try the lock (`SleepersWatched`, `FutexFits`).
  Without it a holder that gives up could leave everybody asleep;
- that the count covers the registered waiters (`CountNeverShort`), on which the
  assertions of a thread that gives its reference back depend;
- where each call can be (`LocFits`) and that a finishing thread is alone
  (`FinisherFits`).

`ThreadCacheProofs` proves `NothingFreedEarly`, `FlagsProtocolKept` and
`NothingLeaks` for every finite set of threads, under the hypothesis
`Destructor = "from_thread"`: with the other value they are false, which is the
finding of `thread_cache_destructor`.  `CInv` ties each flag of a cache to a position
of one of the two halves of its teardown and these to what is left of the cache
(`CacheFits`), so that of two `atomic_fetch_or()` one sees the other's flag; it says
that what `udipe_finalize()` knows of the flags may be old and never wrong
(`PreviousFits`), and that the count of the TSS key is the number of caches that have
not given their reference back (`CountFits`), so that key and context go with the
last one (`KeyFits`).

`SyncCachesProofs` proves `OneOwner`, `InpollsExact` and the refinement
`ImplementsStacks` for caches of every capacity and any threads, futures and
descriptors.  The invariant `FitNow` views a state as a function from places (a
field of a future, an entry of a cache) to descriptors.  It says

- that this function is injective on what it keeps, keeps open descriptors only, and
  keeps all of them (`Owned`);
- that a ring has no hole between the latest entry and an older one (`RingShape`),
  without which `event_cache_finalize()` would stop early and leak;
- that a free future keeps nothing, others keep what their type calls for and depend
  on living futures, and the inpoll of a join watches those that it has not detached
  (`FutureFits`);
- that cached inpolls watch their latch and nothing else (`PairFits`).

The heart is `StepFits`: what a step does not touch still fits, because a descriptor
that is closed is kept nowhere else, so `close()` takes nothing out of the sets of
the others.  Each action then has to show only that the places it touches fit.

For the refinement, a ring without holes is filled with the latest n entries for some
n (`ShapeIsFilled`), which are a sequence from the oldest to the latest
(`StackOfRing`).  `TakeStack` and `AddStack` show what the wrapping indices do to
that sequence: allocation removes its end, liberation adds to its end and, when the
ring is full, overwrites its beginning.  Every action is then a `Push`, a `Pop`, a
`Clear` or a stutter of the stacks; that a thread which exits leaves empty stacks is
again `FitNow`.

`FutureAllocatorProofs` proves `CachesKeepShape`, `EachFutureInOnePlace` and
`HoardingBounded` for any threads, futures, numbers of pages and slots per page.  The
first half is about the operators of `PointerCache`: push, pop, extraction, insertion,
merge, refill and spill keep a cache well-formed (`Good`: the pages below the top are
full and those above it empty) and its futures distinct (`Distinct`), and add or
remove exactly the futures that they should (`Held`).  The bisection for the occupancy
of a page and the spill of a whole cache are recursive functions; a claim about them
is proved by looking at the least number for which it would fail (`LeastNumber`).  The
second half has the invariant `FInv`: each thread has the pages that its position calls
for (`ThreadFits`), nobody has what somebody else has (`Apart`), and all of the storage
is somewhere (`Covered`).  A step passes futures between one thread, the context and
the application (`Passed`), which keeps all of that (`StepKeeps`).
`EachFutureInOnePlace` and `HoardingBounded` have the hypothesis
`Destructor = "from_thread"`: with the destructor of the context, a thread that exits
loses the futures of its cache.  `NeverTwice` has no such hypothesis: even then no
future is in two places, so none is handed out twice.  `HoardingBounded` is proved by
counting: what the other threads keep is injected into the slots of their caches
(`OtherSlots`).

`BufferAllocatorProofs` proves `AllocatorConsistent` and the refinement
`ImplementsPool` for every word size, capacity, page size, set of caches and
configuration callback.  `AInv` adds to the property where the buffers in use are
and what a finalized allocator looks like; the property itself says that the bits of
the array are those of the buffers that exist and that nobody holds.  The
lemmas under it are about the translation between an index and a word and offset
(`Division`, `DivisionUnique`), the search for the first bit, and the rounding of
sizes.

`BitArraysAlwaysAgree` proves `BitArraysAgree` for arrays of every length, with any
padding in their last word: the searches from the start and from a position
(`FindNext`: the rest of the word, then the words after it), the ranges that are set,
the comparison of all bits with a value, and the population count, which is a sum over
words of a number of bits (`CountOfWord`) and by induction on the set of words the
number of all of them (`Count`).

`RealtimeMemoryProofs` proves for any threads, page size, width of the limits and
answers of the kernel that returned buffers are resident (`MemoryResident`) and that
the mutex makes reading and writing the limit one transaction
(`MemoryTransaction`).  `LimitNotStale` also says that nobody lowers the soft limit;
that depends on the doubling loop not wrapping around, and is proved under `NoWrap`:
an unprivileged process, and a hard limit and requests that fit twice into
`rlim_t`.  For limits that are infinite from the start TLC alone checks it.

Under the same hypothesis `MemoryConsistent` is proved, with its sum over the locked
buffers, and so is the action property `RaiseMakesRoom`.  `KInv` says that the sum is
within the soft limit, that a thread inside a call has nothing locked yet, and that a
limit about to be set has room for the request on top of the limit that there was
(`MakesRoom`).  Since nobody lowers the limit, what other threads lock in between
stays within the old one.  The sum itself is handled by lemmas on adding one term,
removing one and changing one.

Only model-checked:

- liveness (`WaitReturns`, `FinishReturns`, `ReadyWaitsReturn`, `AllocateReturns`,
  `FinalizeReturns`), since fairness and `ENABLED` are beyond the prover;
- `BenchmarkClock` (`NoUseAfterRecycle`, `OsCalibrationLosesNothing`,
  `DistributionsAsCommented`): the number of cells that a calibration
  needs grows with the number of rounds of the affine stage, so that its properties
  are about bounds that are large enough for the longest loop, and an invariant would
  restate at each position what every variable points to.

The theorems of the library that do induction take a predicate as a parameter, which the
provers here cannot instantiate.  Where a fact needs induction (sums, recursive
functions, cardinalities of unions), the proofs apply well-foundedness to a set
instead: the set of counterexamples, if not empty, has a least element, and that one
is shown not to be a counterexample.

## Not modelled

- Windows and macOS branches, relaxed memory, hwloc and topology queries,
  `thread_name.c`, `error.c`: no state of the library's own.
- Repeating timers and unordered futures: the code stops with
  `exit_with_error()`; only their synchronization objects are in `SyncCaches`.
- Network commands and connection options: option records and their checks, no
  threads yet.
- Log formatting and output, scopes and name filters: text, and a stack that is
  local to a thread.
- The statistics of the benchmark suite (bootstrap, outlier filter, reductions):
  floating-point arithmetic, which TLC does not have.  `BenchmarkClock` takes their
  verdicts as free choices.

## Plan

Done: the status word, custom futures, joins, single timers, teardown, synchronization
objects, the future allocator, buffers and bit arrays and locked memory, each with all
of its safety properties proved; the calibration of the clock.  To come, in this order:

1. Proofs about `BenchmarkClock`: ownership of the distributions, and what the
   variables hold at each loop head, for every bound on the cells that suffices.
2. An abstract allocator (a set of free futures) for `FutureAllocator` to implement,
   and its composition with `SyncCaches`.
3. The distributions of the benchmark suite as sorted sequences of bins, checked
   against bags of values.
4. `udipe_start_join()` and the network threads, when they are written.
