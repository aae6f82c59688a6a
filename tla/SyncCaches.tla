----------------------------- MODULE SyncCaches -----------------------------
(***************************************************************************)
(* The synchronization objects of futures and the caches that each thread  *)
(* keeps of them: eventfds, timerfds and inpolls (epollfds) are created    *)
(* when a future is allocated (future_sync_initialize()), and destroyed or *)
(* cached when it is liberated (future_sync_finalize()), perhaps by        *)
(* another thread (src/src/future/allocator.c, allocator/sync_caches.[ch], *)
(* latched_inpoll.c, with event.h, inpoll.c, timer.h and fd.h).            *)
(*                                                                         *)
(* A call is one step: the caches belong to one thread, and a future that  *)
(* is allocated or liberated is known to one thread.  A descriptor is the  *)
(* lowest number that is free, as POSIX has it, so that numbers are reused *)
(* while stale copies might exist.  Network futures cannot be liberated    *)
(* yet and are left out.                                                   *)
(***************************************************************************)
EXTENDS Integers, FiniteSets, FiniteSetsExt

CONSTANTS EVENT_CACHE_CAPACITY, Threads, Futures,
          Fds           \* descriptor numbers, as many as the process may have

ASSUME SyncCachesAssumption ==
    /\ EVENT_CACHE_CAPACITY \in Nat \ {0}
    /\ Fds \subseteq Nat

VARIABLES objects,      \* the kernel's view: what each descriptor stands for
          alive,        \* threads that have their caches
          events,       \* thread_cache->events of each thread
          latched,      \* thread_cache->latched_inpolls of each thread
          future        \* the fields of each future that hold descriptors

vars == <<objects, alive, events, latched, future>>
caches == <<events, latched>>

FD_INVALID == -1
Slots == 0..(EVENT_CACHE_CAPACITY - 1)
Collective == {"JOIN", "UNORDERED"}
Latched == Collective \cup {"TIMER_REPEAT"}
FutureTypes == Latched \cup {"CUSTOM", "TIMER_ONCE"}

Closed == [kind |-> "closed", signaled |-> FALSE, watched |-> {}]
EmptyRing == [entries |-> [i \in Slots |-> FD_INVALID], latest |-> 0]
EmptyPairs == [inpolls |-> [i \in Slots |-> FD_INVALID], event_cache |-> EmptyRing]
NoFuture == [type |-> "INVALID", sync |-> FD_INVALID, latch |-> FD_INVALID,
             inner |-> FD_INVALID, upstream |-> {}, attached |-> {},
             notify_event |-> FALSE, announced |-> FALSE]

Rings == [entries : [Slots -> Fds \cup {FD_INVALID}], latest : Slots]
Pairs == [inpolls : [Slots -> Fds \cup {FD_INVALID}], event_cache : Rings]

TypeOK ==
    /\ objects \in [Fds -> [kind : {"closed", "event", "inpoll", "timer"},
                            signaled : BOOLEAN, watched : SUBSET Fds]]
    /\ alive \subseteq Threads
    /\ events \in [Threads -> Rings]
    /\ latched \in [Threads -> Pairs]
    /\ future \in [Futures -> [type : FutureTypes \cup {"INVALID"},
                               sync : Fds \cup {FD_INVALID},
                               latch : Fds \cup {FD_INVALID},
                               inner : Fds \cup {FD_INVALID},
                               upstream : SUBSET Futures, attached : SUBSET Futures,
                               notify_event : BOOLEAN, announced : BOOLEAN]]

Init ==
    /\ objects = [d \in Fds |-> Closed]
    /\ alive = {}
    /\ events = [t \in Threads |-> EmptyRing]
    /\ latched = [t \in Threads |-> EmptyPairs]
    /\ future = [f \in Futures |-> NoFuture]

-----------------------------------------------------------------------------
(* System calls, as functions of the kernel's objects.                     *)

\* eventfd(), timerfd_create(), epoll_create1().
Open(objs, d, kind) == [objs EXCEPT ![d] = [Closed EXCEPT !.kind = kind]]

NewFd(objs) == Min({d \in Fds : objs[d].kind = "closed"})

\* close(), which takes the descriptors out of every epoll set.
Close(objs, ds) ==
    [d \in Fds |-> IF d \in ds THEN Closed
                   ELSE [objs[d] EXCEPT !.watched = @ \ ds]]

\* epoll_ctl() with EPOLL_CTL_ADD or EPOLL_CTL_DEL.
inpoll_attach(objs, poll, ds) == [objs EXCEPT ![poll].watched = @ \cup ds]
inpoll_detach(objs, poll, d) == [objs EXCEPT ![poll].watched = @ \ {d}]

-----------------------------------------------------------------------------
(* The ring buffers.                                                       *)

sync_cache_increment_index(i) == (i + 1) % EVENT_CACHE_CAPACITY

sync_cache_decrement_index(i) == IF i >= 1 THEN i - 1 ELSE EVENT_CACHE_CAPACITY - 1

LatestOf(ring) == ring.entries[ring.latest]

\* Mutant: the latest index stays where it is.
TakeLatestStays(ring) == [ring EXCEPT !.entries[ring.latest] = FD_INVALID]

\* The cache of event_cache_allocate() once its latest entry was taken.
TakeLatest(ring) ==
    [entries |-> [ring.entries EXCEPT ![ring.latest] = FD_INVALID],
     latest |-> sync_cache_decrement_index(ring.latest)]

\* event_cache_liberate(): the entry that makes room, and the new ring.
Evicted(ring) == {ring.entries[sync_cache_increment_index(ring.latest)]} \ {FD_INVALID}

event_cache_liberate(ring, d) ==
    LET next == sync_cache_increment_index(ring.latest)
    IN  [entries |-> [ring.entries EXCEPT ![next] = d], latest |-> next]

\* latched_inpoll_cache_liberate(): likewise for a pair.
EvictedPair(cache) ==
    ({cache.inpolls[sync_cache_increment_index(cache.event_cache.latest)]} \ {FD_INVALID})
       \cup Evicted(cache.event_cache)

latched_inpoll_cache_liberate(cache, inpoll, latch) ==
    LET ring == event_cache_liberate(cache.event_cache, latch)
    IN  [inpolls |-> [cache.inpolls EXCEPT ![ring.latest] = inpoll], event_cache |-> ring]

\* The entries that a walk back from the latest one meets before an invalid
\* one: those that event_cache_finalize() destroys.
Walk(entries, latest) ==
    LET back(n) == (latest - n) % EVENT_CACHE_CAPACITY
    IN  {entries[back(n)] : n \in {m \in Slots :
            \A k \in 0..m : entries[back(k)] # FD_INVALID}}

event_cache_finalize(ring) ==
    [entries |-> [i \in Slots |-> IF ring.entries[i] \in Walk(ring.entries, ring.latest)
                                  THEN FD_INVALID ELSE ring.entries[i]],
     latest |-> 0]

-----------------------------------------------------------------------------
(* Allocation of the objects of a future.                                  *)

\* event_cache_allocate() and latched_inpoll_cache_allocate() on thread t,
\* given the kernel's objects.
event_cache_allocate(objs, t) ==
    IF LatestOf(events[t]) = FD_INVALID
    THEN [objects |-> Open(objs, NewFd(objs), "event"), event |-> NewFd(objs),
          ring |-> events[t]]
    ELSE [objects |-> objs, event |-> LatestOf(events[t]), ring |-> TakeLatest(events[t])]

latched_inpoll_initialize(objs) ==
    LET latch == NewFd(objs)
        objs1 == Open(objs, latch, "event")
        inpoll == NewFd(objs1)
    IN  [objects |-> inpoll_attach(Open(objs1, inpoll, "inpoll"), inpoll, {latch}),
         inpoll |-> inpoll, latch |-> latch]

latched_inpoll_cache_allocate(objs, t) ==
    LET ring == latched[t].event_cache
        target == ring.latest
        candidate == latched[t].inpolls[target]
        new == latched_inpoll_initialize(objs)
    IN  IF candidate = FD_INVALID
        THEN [objects |-> new.objects, inpoll |-> new.inpoll, latch |-> new.latch,
              cache |-> latched[t]]
        ELSE [objects |-> objs, inpoll |-> candidate, latch |-> ring.entries[target],
              cache |-> [inpolls |-> [latched[t].inpolls EXCEPT ![target] = FD_INVALID],
                         event_cache |-> TakeLatest(ring)]]

\* A call that needs n new descriptors and does not get them ends the program with
\* EMFILE.
Room(n) == Cardinality({d \in Fds : objects[d].kind = "closed"}) >= n

Free(f) == future[f].type = "INVALID"

\* The caches of a thread come with its first use of the context.
StartThread(t) ==
    /\ t \notin alive
    /\ alive' = alive \cup {t}
    /\ events' = [events EXCEPT ![t] = EmptyRing]
    /\ latched' = [latched EXCEPT ![t] = EmptyPairs]
    /\ UNCHANGED <<objects, future>>

AllocateCustom(t, f) ==
    LET got == event_cache_allocate(objects, t)
    IN  /\ t \in alive /\ Free(f)
        /\ LatestOf(events[t]) = FD_INVALID => Room(1)
        /\ objects' = got.objects
        /\ events' = [events EXCEPT ![t] = got.ring]
        /\ future' = [future EXCEPT ![f] = [NoFuture EXCEPT !.type = "CUSTOM",
                                                            !.sync = got.event]]
        /\ UNCHANGED <<alive, latched>>

AllocateTimerOnce(t, f) ==
    /\ t \in alive /\ Free(f) /\ Room(1)
    /\ objects' = Open(objects, NewFd(objects), "timer")
    /\ future' = [future EXCEPT ![f] = [NoFuture EXCEPT !.type = "TIMER_ONCE",
                                                        !.sync = NewFd(objects)]]
    /\ UNCHANGED <<alive, caches>>

(***************************************************************************)
(* What udipe_start_join() and udipe_start_unordered(), which are declared *)
(* and not yet written, have to do with the upstream futures: attach their *)
(* objects to the inpoll that will be waited on, from which wait.c takes   *)
(* them out again, and tell custom futures to signal their event.          *)
(***************************************************************************)
AttachUpstream(objs, poller, upstream) ==
    inpoll_attach(objs, poller, {future[g].sync : g \in upstream})

NotifyUpstream(g, upstream) ==
    future[g].notify_event \/ (g \in upstream /\ future[g].type = "CUSTOM")

(***************************************************************************)
(* The futures with a latched inpoll.  Those that are chained have an      *)
(* inner descriptor attached to it.  The upstream futures of a join are    *)
(* attached to its output inpoll, those of an unordered future to the      *)
(* inner one.                                                              *)
(***************************************************************************)
AllocateLatched(t, f, type, upstream) ==
    LET inner == IF type = "JOIN" THEN FD_INVALID ELSE NewFd(objects)
        kind == IF type = "UNORDERED" THEN "inpoll" ELSE "timer"
        objs1 == IF type = "JOIN" THEN objects ELSE Open(objects, inner, kind)
        pair == latched_inpoll_cache_allocate(objs1, t)
        objs2 == IF type = "JOIN" THEN pair.objects
                 ELSE inpoll_attach(pair.objects, pair.inpoll, {inner})
        poller == IF type = "JOIN" THEN pair.inpoll ELSE inner
    IN  /\ t \in alive /\ Free(f)
        /\ Room((IF type = "JOIN" THEN 0 ELSE 1)
                  + (IF latched[t].inpolls[latched[t].event_cache.latest] = FD_INVALID
                     THEN 2 ELSE 0))
        /\ objects' = AttachUpstream(objs2, poller, upstream)
        /\ latched' = [latched EXCEPT ![t] = pair.cache]
        /\ future' = [g \in Futures |->
              IF g = f THEN [NoFuture EXCEPT !.type = type, !.sync = pair.inpoll,
                                !.latch = pair.latch, !.inner = inner, !.upstream = upstream,
                                !.attached = upstream]
              ELSE [future[g] EXCEPT !.notify_event = NotifyUpstream(g, upstream)]]
        /\ UNCHANGED <<alive, events>>

Allocate(t, f) ==
    \/ AllocateCustom(t, f)
    \/ AllocateTimerOnce(t, f)
    \/ AllocateLatched(t, f, "TIMER_REPEAT", {})
    \/ \E type \in Collective, upstream \in SUBSET {g \in Futures : ~Free(g)} \ {{}} :
          AllocateLatched(t, f, type, upstream)

\* The event that announces the final state of a future, if it has one.
SignalOf(f) == IF future[f].type \in Latched THEN future[f].latch
               ELSE IF future[f].notify_event THEN future[f].sync ELSE FD_INVALID

\* A future reaches its final state and somebody may be waiting: event_signal().
Signal(f) ==
    /\ SignalOf(f) # FD_INVALID /\ ~future[f].announced
    /\ objects' = [objects EXCEPT ![SignalOf(f)].signaled = TRUE]
    /\ future' = [future EXCEPT ![f].announced = TRUE]
    /\ UNCHANGED <<alive, caches>>

(***************************************************************************)
(* The thread that waits for the join f finds that its upstream future g   *)
(* has settled, which is in the status word and not in this model, and     *)
(* takes it out of the inpoll.  The reference to g stays until f is        *)
(* liberated.                                                              *)
(***************************************************************************)
DetachSettled(f, g) ==
    /\ future[f].type = "JOIN" /\ g \in future[f].attached
    /\ objects' = inpoll_detach(objects, future[f].sync, future[g].sync)
    /\ future' = [future EXCEPT ![f].attached = @ \ {g}]
    /\ UNCHANGED <<alive, caches>>

-----------------------------------------------------------------------------
(* Liberation.  The application liberates a future that nothing depends    *)
(* on; future_upstream_detach() gives back its own references.             *)

MayLiberate(t, f) ==
    /\ t \in alive /\ ~Free(f)
    /\ \A g \in Futures : f \notin future[g].upstream

\* Mutant: the oldest event is overwritten and never closed.
LiberateCustomNoEvict(t, f) ==
    /\ MayLiberate(t, f) /\ future[f].type = "CUSTOM"
    /\ events' = [events EXCEPT ![t] = event_cache_liberate(@, future[f].sync)]
    /\ future' = [future EXCEPT ![f] = NoFuture]
    /\ UNCHANGED <<objects, alive, latched>>

LiberateCustom(t, f) ==
    /\ MayLiberate(t, f) /\ future[f].type = "CUSTOM"
    /\ objects' = Close(objects, Evicted(events[t]))
    /\ events' = [events EXCEPT ![t] = event_cache_liberate(@, future[f].sync)]
    /\ future' = [future EXCEPT ![f] = NoFuture]
    /\ UNCHANGED <<alive, latched>>

LiberateTimerOnce(t, f) ==
    /\ MayLiberate(t, f) /\ future[f].type = "TIMER_ONCE"
    /\ objects' = Close(objects, {future[f].sync})
    /\ future' = [future EXCEPT ![f] = NoFuture]
    /\ UNCHANGED <<alive, caches>>

\* Mutant: the inpoll is cached with what it watches.
LiberateJoinPair(t, f) ==
    LET closed == EvictedPair(latched[t])
    IN  /\ MayLiberate(t, f) /\ future[f].type = "JOIN"
        /\ objects' = Close(objects, closed)
        /\ latched' = [latched EXCEPT ![t] =
              latched_inpoll_cache_liberate(@, future[f].sync, future[f].latch)]
        /\ future' = [future EXCEPT ![f] = NoFuture]
        /\ UNCHANGED <<alive, events>>

\* The latch goes, as it is, into the cache of events; the inpoll, which may
\* be attached to many descriptors, is destroyed.
LiberateJoin(t, f) ==
    LET closed == Evicted(events[t]) \cup {future[f].sync}
    IN  /\ MayLiberate(t, f) /\ future[f].type = "JOIN"
        /\ objects' = Close(inpoll_detach(objects, future[f].sync, future[f].latch), closed)
        /\ events' = [events EXCEPT ![t] = event_cache_liberate(@, future[f].latch)]
        /\ future' = [future EXCEPT ![f] = NoFuture]
        /\ UNCHANGED <<alive, latched>>

\* latched_inpoll_cache_liberate() of the pair, which still watches its own
\* latch only once the inner descriptor is detached; that one is destroyed.
LiberateChained(t, f) ==
    LET closed == EvictedPair(latched[t]) \cup {future[f].inner}
    IN  /\ MayLiberate(t, f) /\ future[f].type \in {"UNORDERED", "TIMER_REPEAT"}
        /\ objects' = Close(inpoll_detach(objects, future[f].sync, future[f].inner), closed)
        /\ latched' = [latched EXCEPT ![t] =
              latched_inpoll_cache_liberate(@, future[f].sync, future[f].latch)]
        /\ future' = [future EXCEPT ![f] = NoFuture]
        /\ UNCHANGED <<alive, events>>

Liberate(t, f) ==
    LiberateCustom(t, f) \/ LiberateTimerOnce(t, f) \/ LiberateJoin(t, f)
       \/ LiberateChained(t, f)

\* event_cache_finalize() and latched_inpoll_cache_finalize() as the thread
\* or the context goes away.
FinalizeThread(t) ==
    LET ring == latched[t].event_cache
        inpolls == Walk(latched[t].inpolls, ring.latest)
        closed == Walk(events[t].entries, events[t].latest)
                     \cup inpolls \cup Walk(ring.entries, ring.latest)
    IN  /\ t \in alive
        /\ alive' = alive \ {t}
        /\ objects' = Close(objects, closed)
        /\ events' = [events EXCEPT ![t] = event_cache_finalize(@)]
        /\ latched' = [latched EXCEPT ![t] =
              [inpolls |-> [i \in Slots |-> IF @.inpolls[i] \in inpolls THEN FD_INVALID
                                            ELSE @.inpolls[i]],
               event_cache |-> event_cache_finalize(ring)]]
        /\ UNCHANGED future

Next ==
    \/ \E t \in Threads : StartThread(t) \/ FinalizeThread(t)
    \/ \E t \in Threads, f \in Futures : Allocate(t, f) \/ Liberate(t, f)
    \/ \E f \in Futures : Signal(f)
    \/ \E f, g \in Futures : DetachSettled(f, g)

Spec == Init /\ [][Next]_vars
-----------------------------------------------------------------------------
\* Where a descriptor is kept: fields of futures and entries of the caches
\* of living threads.
Places ==
    {<<"future", f, field>> : f \in {g \in Futures : ~Free(g)},
                              field \in {"sync", "latch", "inner"}}
    \cup (({"events"} \X alive \X Slots) \cup ({"inpolls"} \X alive \X Slots)
          \cup ({"latches"} \X alive \X Slots))

KeptAt(o) ==
    CASE o[1] = "future"  -> future[o[2]][o[3]]
      [] o[1] = "events"  -> events[o[2]].entries[o[3]]
      [] o[1] = "inpolls" -> latched[o[2]].inpolls[o[3]]
      [] o[1] = "latches" -> latched[o[2]].event_cache.entries[o[3]]

(***************************************************************************)
(* Every open descriptor is kept in exactly one place, and nothing keeps a *)
(* closed one, however futures and events move between threads and however *)
(* often a full cache drops its oldest entry: nothing is leaked, closed    *)
(* twice or used after close(), whose number could be another object's.    *)
(***************************************************************************)
OneOwner ==
    \A d \in Fds :
       Cardinality({o \in Places : KeptAt(o) = d})
          = IF objects[d].kind = "closed" THEN 0 ELSE 1

(***************************************************************************)
(* sync_caches.h: in the cache of inpolls with latches, entry i of the     *)
(* inpolls goes with entry i of the events, and a cached inpoll watches    *)
(* that latch and nothing else.                                            *)
(***************************************************************************)
PairsAttached ==
    \A t \in alive, i \in Slots :
       LET inpoll == latched[t].inpolls[i]
           latch == latched[t].event_cache.entries[i]
       IN  /\ inpoll = FD_INVALID <=> latch = FD_INVALID
           /\ inpoll # FD_INVALID => /\ objects[inpoll].kind = "inpoll"
                                     /\ objects[inpoll].watched = {latch}

(***************************************************************************)
(* The objects of a living future watch what they should: its inpoll the   *)
(* latch, the inner descriptor and, for a join, the objects of the         *)
(* upstream futures that it has not yet found settled, none of which was   *)
(* recycled in between.                                                    *)
(***************************************************************************)
LiveInpollsExact ==
    \A f \in Futures : future[f].type \in Latched =>
       LET Syncs(fs) == {future[g].sync : g \in fs}
           inner == {future[f].inner} \ {FD_INVALID}
       IN  /\ objects[future[f].sync].watched = {future[f].latch} \cup inner
                 \cup (IF future[f].type = "JOIN" THEN Syncs(future[f].attached) ELSE {})
           /\ future[f].type = "UNORDERED" =>
                 objects[future[f].inner].watched = Syncs(future[f].upstream)

(***************************************************************************)
(* No inpoll watches too much or too little, in a cache or in a future.    *)
(***************************************************************************)
InpollsExact == TypeOK /\ PairsAttached /\ LiveInpollsExact

(***************************************************************************)
(* sync_caches.h: an event_cache_t holds unsignaled events, since          *)
(* event_cache_liberate() must be given one in that state, so that         *)
(* event_cache_allocate() returns one in that state.                       *)
(***************************************************************************)
CachedEventsUnsignaled ==
    \A t \in alive, i \in Slots :
       LET d == events[t].entries[i]
       IN  d # FD_INVALID => ~objects[d].signaled

\* The contents of a ring from the oldest entry to the latest.
OldestFirst(entries, latest) ==
    LET n == Cardinality({i \in Slots : entries[i] # FD_INVALID})
    IN  [k \in 1..n |-> entries[(latest - n + k) % EVENT_CACHE_CAPACITY]]

Owners == Threads \X {"events", "latched"}

Contents ==
    [o \in Owners |->
        IF o[2] = "events" THEN OldestFirst(events[o[1]].entries, events[o[1]].latest)
        ELSE OldestFirst(latched[o[1]].inpolls, latched[o[1]].event_cache.latest)]

Stacks == INSTANCE BoundedStack WITH
    Capacity <- EVENT_CACHE_CAPACITY, stacks <- Contents

(***************************************************************************)
(* The rings are stacks: event_cache_allocate() reuses the object that was *)
(* given back last, and a full cache drops the oldest one.                 *)
(***************************************************************************)
ImplementsStacks == Stacks!StacksSpec
=============================================================================
