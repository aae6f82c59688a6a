-------------------------- MODULE SyncCachesProofs --------------------------
(***************************************************************************)
(* Proofs about SyncCaches, for caches of every capacity and every number  *)
(* of threads, futures and descriptors: no descriptor is leaked, closed    *)
(* twice or used after close(), no inpoll watches too much or too little,  *)
(* and the rings are stacks.                                               *)
(*                                                                         *)
(* The inductive invariant FitNow sees a state as a function from places   *)
(* (fields of futures, entries of caches) to the descriptors that they     *)
(* keep: that function is injective on what it keeps and hits every open   *)
(* descriptor (Owned).  Rings have no holes between their latest entry and *)
(* an earlier one (RingShape), so that finalization meets all of them.     *)
(* StepFits is the argument that most operations share: what a step does   *)
(* not touch still fits, because no closed descriptor is kept anywhere     *)
(* else.  The same shape makes the rings stacks, and FitNow makes every    *)
(* step one of BoundedStack.                                               *)
(***************************************************************************)
EXTENDS SyncCaches, FiniteSetTheorems, SequenceTheorems, WellFoundedInduction,
        TLAPS

-----------------------------------------------------------------------------
(* The rings.  Indices wrap around; Back() says where, without division.   *)

LEMMA Capacity ==
    /\ EVENT_CACHE_CAPACITY \in Nat /\ EVENT_CACHE_CAPACITY > 0
    /\ Fds \subseteq Nat /\ FD_INVALID \notin Fds
    /\ \A i : i \in Slots <=> i \in Nat /\ i < EVENT_CACHE_CAPACITY
<1>1. EVENT_CACHE_CAPACITY \in Nat /\ EVENT_CACHE_CAPACITY > 0
  BY SyncCachesAssumption
<1>2. QED
  BY <1>1, SyncCachesAssumption DEF FD_INVALID, Slots

Back(latest, n) == IF n <= latest THEN latest - n ELSE latest - n + EVENT_CACHE_CAPACITY
After(i) == IF i + 1 = EVENT_CACHE_CAPACITY THEN 0 ELSE i + 1

\* The remainder of a number between the negative and the positive divisor.
LEMMA SmallRemainder ==
    ASSUME NEW B \in Nat, B > 0, NEW x \in Int, -B <= x, x <= B
    PROVE  x % B = IF x < 0 THEN IF x = -B THEN 0 ELSE x + B
                   ELSE IF x = B THEN 0 ELSE x
<1>1. PICK q \in Int, r \in Int : /\ q = x \div B /\ r = x % B
                                  /\ 0 <= r /\ r < B /\ x = q * B + r
  <2>1. x \div B \in Int /\ x % B \in Int /\ 0 <= x % B /\ x % B < B
    OBVIOUS
  <2>2. x = (x \div B) * B + (x % B)
    OBVIOUS
  <2>3. QED
    BY <2>1, <2>2
<1>2. q < 2
  <2>1. SUFFICES ASSUME q >= 2
                 PROVE  FALSE
    BY <1>1
  <2>2. q * B >= 2 * B
    BY <2>1
  <2>3. QED
    BY <1>1, <2>2
<1>3. q > -2
  <2>1. SUFFICES ASSUME q <= -2
                 PROVE  FALSE
    BY <1>1
  <2>2. q * B <= (-2) * B
    BY <2>1
  <2>3. QED
    BY <1>1, <2>2
<1>4. q \in {-1, 0, 1}
  BY <1>2, <1>3
<1>5. CASE q = -1
  BY <1>1, <1>5
<1>6. CASE q = 0
  BY <1>1, <1>6
<1>7. CASE q = 1
  BY <1>1, <1>7
<1>8. QED
  BY <1>4, <1>5, <1>6, <1>7

LEMMA RingIndices ==
    ASSUME NEW i \in Slots, NEW n \in Slots
    PROVE  /\ sync_cache_increment_index(i) = After(i) /\ After(i) \in Slots
           /\ sync_cache_decrement_index(i) \in Slots
           /\ (i - n) % EVENT_CACHE_CAPACITY = Back(i, n) /\ Back(i, n) \in Slots
           /\ Back(i, Back(i, n)) = n
           /\ Back(i, 0) = i
<1>1. /\ i \in Nat /\ i < EVENT_CACHE_CAPACITY /\ n \in Nat /\ n < EVENT_CACHE_CAPACITY
      /\ EVENT_CACHE_CAPACITY \in Nat /\ EVENT_CACHE_CAPACITY > 0
  BY Capacity
<1>2. (i + 1) % EVENT_CACHE_CAPACITY = After(i)
  BY <1>1, SmallRemainder DEF After
<1>3. (i - n) % EVENT_CACHE_CAPACITY = Back(i, n)
  BY <1>1, SmallRemainder DEF Back
<1>4. After(i) \in Nat /\ After(i) < EVENT_CACHE_CAPACITY
  BY <1>1 DEF After
<1>5. Back(i, n) \in Nat /\ Back(i, n) < EVENT_CACHE_CAPACITY
  BY <1>1 DEF Back
<1>6. sync_cache_decrement_index(i) \in Nat
      /\ sync_cache_decrement_index(i) < EVENT_CACHE_CAPACITY
  BY <1>1 DEF sync_cache_decrement_index
<1>7. Back(i, Back(i, n)) = n /\ Back(i, 0) = i
  BY <1>1 DEF Back
<1>8. QED
  BY <1>2, <1>3, <1>4, <1>5, <1>6, <1>7, Capacity DEF sync_cache_increment_index

\* The occupied entries are the latest ones.
RingShape(entries, latest) ==
    \A m \in Slots : entries[Back(latest, m)] # FD_INVALID =>
       \A k \in 0..m : entries[Back(latest, k)] # FD_INVALID

LEMMA EmptyShape ==
    ASSUME NEW entries, NEW latest \in Slots, \A i \in Slots : entries[i] = FD_INVALID
    PROVE  RingShape(entries, latest)
  BY RingIndices DEF RingShape

\* Taking the latest entry, and adding one after it, keep that shape.
LEMMA TakeKeepsShape ==
    ASSUME NEW entries \in [Slots -> Fds \cup {FD_INVALID}], NEW latest \in Slots,
           RingShape(entries, latest),
           NEW e2, e2 = [entries EXCEPT ![latest] = FD_INVALID],
           NEW l2, l2 = sync_cache_decrement_index(latest)
    PROVE  RingShape(e2, l2)
<1>1. /\ latest \in Nat /\ latest < EVENT_CACHE_CAPACITY
      /\ EVENT_CACHE_CAPACITY \in Nat /\ EVENT_CACHE_CAPACITY > 0
  BY Capacity
<1>2. l2 \in Slots /\ l2 = IF latest >= 1 THEN latest - 1 ELSE EVENT_CACHE_CAPACITY - 1
  BY RingIndices DEF sync_cache_decrement_index
<1>3. SUFFICES ASSUME NEW m \in Slots, e2[Back(l2, m)] # FD_INVALID, NEW k \in 0..m
               PROVE  e2[Back(l2, k)] # FD_INVALID
  BY DEF RingShape
<1>4. m \in Nat /\ m < EVENT_CACHE_CAPACITY /\ k \in Nat /\ k <= m /\ k \in Slots
  BY Capacity
<1>5. Back(l2, m) \in Slots /\ Back(l2, k) \in Slots
  BY <1>2, <1>4, RingIndices
<1>6. \A i \in Slots : e2[i] = IF i = latest THEN FD_INVALID ELSE entries[i]
  OBVIOUS
<1>7. m + 1 < EVENT_CACHE_CAPACITY
  <2>1. SUFFICES ASSUME m + 1 = EVENT_CACHE_CAPACITY
                 PROVE  FALSE
    BY <1>1, <1>4
  <2>2. Back(l2, m) = latest
    BY <1>1, <1>2, <1>4, <2>1 DEF Back
  <2>3. QED
    BY <1>3, <1>5, <1>6, <2>2
<1>8. m + 1 \in Slots /\ k + 1 \in 0..(m + 1)
  BY <1>4, <1>7, Capacity
<1>9. Back(l2, m) = Back(latest, m + 1) /\ Back(l2, k) = Back(latest, k + 1)
  BY <1>1, <1>2, <1>4, <1>7 DEF Back
<1>10. Back(latest, k + 1) # latest
  BY <1>1, <1>4, <1>7 DEF Back
<1>11. entries[Back(latest, m + 1)] # FD_INVALID
  BY <1>3, <1>5, <1>6, <1>9
<1>12. entries[Back(latest, k + 1)] # FD_INVALID
  BY <1>8, <1>11 DEF RingShape
<1>13. QED
  BY <1>5, <1>6, <1>9, <1>10, <1>12

LEMMA AddKeepsShape ==
    ASSUME NEW entries \in [Slots -> Fds \cup {FD_INVALID}], NEW latest \in Slots,
           RingShape(entries, latest), NEW d, d # FD_INVALID,
           NEW e2, e2 = [entries EXCEPT ![After(latest)] = d]
    PROVE  RingShape(e2, After(latest))
<1>1. /\ latest \in Nat /\ latest < EVENT_CACHE_CAPACITY
      /\ EVENT_CACHE_CAPACITY \in Nat /\ EVENT_CACHE_CAPACITY > 0
  BY Capacity
<1>2. PICK l2 \in Slots : l2 = After(latest)
  BY RingIndices
<1>3. l2 = IF latest + 1 = EVENT_CACHE_CAPACITY THEN 0 ELSE latest + 1
  BY <1>2 DEF After
<1>4. SUFFICES ASSUME NEW m \in Slots, e2[Back(l2, m)] # FD_INVALID, NEW k \in 0..m
               PROVE  e2[Back(l2, k)] # FD_INVALID
  BY <1>2 DEF RingShape
<1>5. m \in Nat /\ m < EVENT_CACHE_CAPACITY /\ k \in Nat /\ k <= m /\ k \in Slots
  BY Capacity
<1>6. Back(l2, m) \in Slots /\ Back(l2, k) \in Slots
  BY <1>5, RingIndices
<1>7. \A i \in Slots : e2[i] = IF i = l2 THEN d ELSE entries[i]
  BY <1>2
<1>8. CASE k = 0
  BY <1>6, <1>7, <1>8, RingIndices
<1>9. CASE k # 0
  <2>1. m - 1 \in Slots /\ k - 1 \in 0..(m - 1)
    BY <1>5, <1>9, Capacity
  <2>2. Back(l2, m) = Back(latest, m - 1) /\ Back(l2, k) = Back(latest, k - 1)
    BY <1>1, <1>3, <1>5, <1>9 DEF Back
  <2>3. Back(l2, m) # l2 /\ Back(l2, k) # l2
    BY <1>1, <1>3, <1>5, <1>9 DEF Back
  <2>4. entries[Back(latest, m - 1)] # FD_INVALID
    BY <1>4, <1>6, <1>7, <2>2, <2>3
  <2>5. entries[Back(latest, k - 1)] # FD_INVALID
    BY <2>1, <2>4 DEF RingShape
  <2>6. QED
    BY <1>6, <1>7, <2>2, <2>3, <2>5
<1>10. QED
  BY <1>8, <1>9

\* With that shape, event_cache_finalize() meets every entry.
LEMMA WalkMeetsAll ==
    ASSUME NEW entries \in [Slots -> Fds \cup {FD_INVALID}], NEW latest \in Slots,
           RingShape(entries, latest)
    PROVE  Walk(entries, latest) = {entries[i] : i \in Slots} \ {FD_INVALID}
<1> DEFINE back(n) == (latest - n) % EVENT_CACHE_CAPACITY
           met == {m \in Slots : \A k \in 0..m : entries[back(k)] # FD_INVALID}
<1>1. Walk(entries, latest) = {entries[back(n)] : n \in met}
  BY DEF Walk
<1>2. \A n \in Slots : back(n) = Back(latest, n) /\ Back(latest, n) \in Slots
  BY RingIndices
<1>3. \A m \in Slots : 0..m \subseteq Slots /\ m \in 0..m
  BY Capacity
<1> HIDE DEF back
<1>4. \A m \in Slots : m \in met <=> entries[Back(latest, m)] # FD_INVALID
  BY <1>2, <1>3 DEF RingShape
<1> HIDE DEF met
<1>5. met \subseteq Slots
  BY DEF met
<1>6. Walk(entries, latest) \subseteq {entries[i] : i \in Slots} \ {FD_INVALID}
  BY <1>1, <1>2, <1>4, <1>5
<1>7. ASSUME NEW i \in Slots, entries[i] # FD_INVALID
      PROVE  entries[i] \in Walk(entries, latest)
  <2>1. Back(latest, i) \in Slots /\ Back(latest, Back(latest, i)) = i
    BY RingIndices
  <2>2. Back(latest, i) \in met
    BY <1>4, <1>7, <2>1
  <2>3. back(Back(latest, i)) = i
    BY <1>2, <2>1
  <2>4. QED
    BY <1>1, <2>2, <2>3
<1>8. QED
  BY <1>6, <1>7

-----------------------------------------------------------------------------
(* Places, of all threads and futures, and what is kept there.             *)

SyncOf(f) == <<"future", f, "sync">>
LatchOf(f) == <<"future", f, "latch">>
InnerOf(f) == <<"future", f, "inner">>
EventIn(t, i) == <<"events", t, i>>
InpollIn(t, i) == <<"inpolls", t, i>>
LatchIn(t, i) == <<"latches", t, i>>

AllPlaces ==
    {SyncOf(f) : f \in Futures} \cup {LatchOf(f) : f \in Futures}
    \cup {InnerOf(f) : f \in Futures}
    \cup {EventIn(t, i) : t \in Threads, i \in Slots}
    \cup {InpollIn(t, i) : t \in Threads, i \in Slots}
    \cup {LatchIn(t, i) : t \in Threads, i \in Slots}

LEMMA PlaceCases ==
    ASSUME NEW p \in AllPlaces
    PROVE  \/ \E f \in Futures : p = SyncOf(f) \/ p = LatchOf(f) \/ p = InnerOf(f)
           \/ \E t \in Threads, i \in Slots :
                 p = EventIn(t, i) \/ p = InpollIn(t, i) \/ p = LatchIn(t, i)
  BY DEF AllPlaces

LEMMA ArePlaces ==
    /\ \A f \in Futures : /\ SyncOf(f) \in AllPlaces /\ LatchOf(f) \in AllPlaces
                          /\ InnerOf(f) \in AllPlaces
    /\ \A t \in Threads, i \in Slots :
          /\ EventIn(t, i) \in AllPlaces /\ InpollIn(t, i) \in AllPlaces
          /\ LatchIn(t, i) \in AllPlaces
  BY DEF AllPlaces

\* Places are different unless they are written the same.
LEMMA FuturesDiffer ==
    ASSUME NEW f, NEW g
    PROVE  /\ SyncOf(f) # LatchOf(g) /\ SyncOf(f) # InnerOf(g) /\ LatchOf(f) # InnerOf(g)
           /\ LatchOf(f) # SyncOf(g) /\ InnerOf(f) # SyncOf(g) /\ InnerOf(f) # LatchOf(g)
           /\ SyncOf(f) = SyncOf(g) => f = g
           /\ LatchOf(f) = LatchOf(g) => f = g
           /\ InnerOf(f) = InnerOf(g) => f = g
  BY DEF SyncOf, LatchOf, InnerOf

LEMMA CachesDiffer ==
    ASSUME NEW s, NEW t, NEW i, NEW j
    PROVE  /\ EventIn(s, i) # InpollIn(t, j) /\ EventIn(s, i) # LatchIn(t, j)
           /\ InpollIn(s, i) # LatchIn(t, j) /\ InpollIn(s, i) # EventIn(t, j)
           /\ LatchIn(s, i) # EventIn(t, j) /\ LatchIn(s, i) # InpollIn(t, j)
           /\ EventIn(s, i) = EventIn(t, j) => s = t /\ i = j
           /\ InpollIn(s, i) = InpollIn(t, j) => s = t /\ i = j
           /\ LatchIn(s, i) = LatchIn(t, j) => s = t /\ i = j
  BY DEF EventIn, InpollIn, LatchIn

LEMMA KindsDiffer ==
    ASSUME NEW f, NEW t, NEW i
    PROVE  /\ SyncOf(f) # EventIn(t, i) /\ SyncOf(f) # InpollIn(t, i)
           /\ SyncOf(f) # LatchIn(t, i) /\ LatchOf(f) # EventIn(t, i)
           /\ LatchOf(f) # InpollIn(t, i) /\ LatchOf(f) # LatchIn(t, i)
           /\ InnerOf(f) # EventIn(t, i) /\ InnerOf(f) # InpollIn(t, i)
           /\ InnerOf(f) # LatchIn(t, i)
  BY DEF SyncOf, LatchOf, InnerOf, EventIn, InpollIn, LatchIn

\* K is what the futures and the caches keep.
Keeps(K, fu, ev, la) ==
    /\ \A f \in Futures : /\ K[SyncOf(f)] = fu[f].sync
                          /\ K[LatchOf(f)] = fu[f].latch
                          /\ K[InnerOf(f)] = fu[f].inner
    /\ \A t \in Threads, i \in Slots :
          /\ K[EventIn(t, i)] = ev[t].entries[i]
          /\ K[InpollIn(t, i)] = la[t].inpolls[i]
          /\ K[LatchIn(t, i)] = la[t].event_cache.entries[i]

KeptIn(fu, ev, la) ==
    [p \in AllPlaces |->
        IF p[1] = "future" THEN fu[p[2]][p[3]]
        ELSE IF p[1] = "events" THEN ev[p[2]].entries[p[3]]
        ELSE IF p[1] = "inpolls" THEN la[p[2]].inpolls[p[3]]
        ELSE la[p[2]].event_cache.entries[p[3]]]

LEMMA SomethingKeeps ==
    ASSUME NEW fu, NEW ev, NEW la
    PROVE  Keeps(KeptIn(fu, ev, la), fu, ev, la)
<1>1. ASSUME NEW f \in Futures
      PROVE  /\ KeptIn(fu, ev, la)[SyncOf(f)] = fu[f].sync
             /\ KeptIn(fu, ev, la)[LatchOf(f)] = fu[f].latch
             /\ KeptIn(fu, ev, la)[InnerOf(f)] = fu[f].inner
  BY ArePlaces DEF KeptIn, SyncOf, LatchOf, InnerOf
<1>2. ASSUME NEW t \in Threads, NEW i \in Slots
      PROVE  /\ KeptIn(fu, ev, la)[EventIn(t, i)] = ev[t].entries[i]
             /\ KeptIn(fu, ev, la)[InpollIn(t, i)] = la[t].inpolls[i]
             /\ KeptIn(fu, ev, la)[LatchIn(t, i)] = la[t].event_cache.entries[i]
  <2>1. EventIn(t, i) \in AllPlaces /\ InpollIn(t, i) \in AllPlaces
        /\ LatchIn(t, i) \in AllPlaces
    BY ArePlaces
  <2>2. KeptIn(fu, ev, la)[EventIn(t, i)] = ev[t].entries[i]
    BY <2>1 DEF KeptIn, EventIn
  <2>3. KeptIn(fu, ev, la)[InpollIn(t, i)] = la[t].inpolls[i]
    BY <2>1 DEF KeptIn, InpollIn
  <2>4. KeptIn(fu, ev, la)[LatchIn(t, i)] = la[t].event_cache.entries[i]
    BY <2>1 DEF KeptIn, LatchIn
  <2>5. QED
    BY <2>2, <2>3, <2>4
<1>3. QED
  BY <1>1, <1>2 DEF Keeps

\* Every open descriptor is kept in one place, and no closed one is kept.
Owned(K, objs) ==
    /\ \A p \in AllPlaces : K[p] # FD_INVALID =>
          K[p] \in Fds /\ objs[K[p]].kind # "closed"
    /\ \A p, q \in AllPlaces : K[p] = K[q] /\ K[p] # FD_INVALID => p = q
    /\ \A d \in Fds : objs[d].kind # "closed" => \E p \in AllPlaces : K[p] = d

-----------------------------------------------------------------------------
(* Ownership is kept by what the operations are made of.                   *)

SameKinds(objs, objs2) == \A d \in Fds : objs2[d].kind = objs[d].kind

LEMMA Untouched ==
    ASSUME NEW K, NEW K2, NEW objs, NEW objs2, Owned(K, objs),
           \A p \in AllPlaces : K2[p] = K[p], SameKinds(objs, objs2)
    PROVE  Owned(K2, objs2)
  BY DEF Owned, SameKinds

\* A descriptor that was closed goes to a place that has none.
LEMMA Opened ==
    ASSUME NEW K, NEW objs, NEW objs2, Owned(K, objs),
           NEW p \in AllPlaces, K[p] = FD_INVALID, NEW d \in Fds,
           NEW K2, K2[p] = d, \A r \in AllPlaces : r # p => K2[r] = K[r],
           objs[d].kind = "closed", objs2[d].kind # "closed",
           \A e \in Fds : e # d => objs2[e].kind = objs[e].kind
    PROVE  Owned(K2, objs2)
<1>2. K2[p] = d /\ \A r \in AllPlaces : r # p => K2[r] = K[r]
  OBVIOUS
<1>3. d # FD_INVALID
  BY Capacity
<1>4. \A r \in AllPlaces : K[r] # d
  BY <1>3 DEF Owned
<1>5. Owned(K2, objs2)
  <2>1. ASSUME NEW r \in AllPlaces, K2[r] # FD_INVALID
        PROVE  K2[r] \in Fds /\ objs2[K2[r]].kind # "closed"
    BY <1>2, <1>4, <2>1 DEF Owned
  <2>2. ASSUME NEW r \in AllPlaces, NEW s \in AllPlaces, K2[r] = K2[s], K2[r] # FD_INVALID
        PROVE  r = s
    BY <1>2, <1>4, <2>2 DEF Owned
  <2>3. ASSUME NEW e \in Fds, objs2[e].kind # "closed"
        PROVE  \E r \in AllPlaces : K2[r] = e
    <3>1. CASE e = d
      BY <1>2, <3>1
    <3>2. CASE e # d
      <4>1. PICK r \in AllPlaces : K[r] = e
        BY <2>3, <3>2 DEF Owned
      <4>2. r # p
        BY <4>1, Capacity
      <4>3. QED
        BY <1>2, <4>1, <4>2
    <3>3. QED
      BY <3>1, <3>2
  <2>4. QED
    BY <2>1, <2>2, <2>3 DEF Owned
<1>6. QED
  BY <1>5

\* What is kept at p moves to q, which has none.
LEMMA Moved ==
    ASSUME NEW K, NEW objs, Owned(K, objs),
           NEW p \in AllPlaces, NEW q \in AllPlaces, p # q, K[q] = FD_INVALID,
           NEW K2, K2[p] = FD_INVALID, K2[q] = K[p],
           \A r \in AllPlaces \ {p, q} : K2[r] = K[r]
    PROVE  Owned(K2, objs)
<1>2. K2[q] = K[p] /\ \A r \in AllPlaces : r # q => K2[r] = IF r = p THEN FD_INVALID ELSE K[r]
  OBVIOUS
<1>3. ASSUME NEW r \in AllPlaces, K2[r] # FD_INVALID
      PROVE  K2[r] \in Fds /\ objs[K2[r]].kind # "closed"
  BY <1>2, <1>3 DEF Owned
<1>4. ASSUME NEW r \in AllPlaces, NEW s \in AllPlaces, K2[r] = K2[s], K2[r] # FD_INVALID
      PROVE  r = s
  BY <1>2, <1>4 DEF Owned
<1>5. ASSUME NEW d \in Fds, objs[d].kind # "closed"
      PROVE  \E r \in AllPlaces : K2[r] = d
  <2>1. PICK r \in AllPlaces : K[r] = d
    BY <1>5 DEF Owned
  <2>2. K[r] # FD_INVALID
    BY <2>1, Capacity
  <2>3. CASE r = p
    BY <1>2, <2>1, <2>3
  <2>4. CASE r # p
    BY <1>2, <2>1, <2>2, <2>4
  <2>5. QED
    BY <2>3, <2>4
<1>6. Owned(K2, objs)
  BY <1>3, <1>4, <1>5 DEF Owned
<1>7. QED
  BY <1>6

\* What is kept in P is closed and dropped.
Emptied(P, K, K2) ==
    P \subseteq AllPlaces /\ \A r \in AllPlaces : K2[r] = IF r \in P THEN FD_INVALID ELSE K[r]

KindsClosed(closed, objs, objs2) ==
    \A d \in Fds : objs2[d].kind = IF d \in closed THEN "closed" ELSE objs[d].kind

LEMMA Dropped ==
    ASSUME NEW K, NEW objs, NEW objs2, Owned(K, objs), NEW P,
           NEW K2, Emptied(P, K, K2),
           NEW closed, closed = {K[p] : p \in P} \ {FD_INVALID},
           KindsClosed(closed, objs, objs2)
    PROVE  Owned(K2, objs2)
<1>1. ASSUME NEW r \in AllPlaces, K2[r] # FD_INVALID
      PROVE  K2[r] \in Fds /\ objs2[K2[r]].kind # "closed"
  <2>1. r \notin P /\ K2[r] = K[r]
    BY <1>1 DEF Emptied
  <2>2. K[r] \notin closed
    BY <1>1, <2>1 DEF Owned, Emptied
  <2>3. QED
    BY <1>1, <2>1, <2>2 DEF Owned, KindsClosed
<1>2. ASSUME NEW r \in AllPlaces, NEW s \in AllPlaces, K2[r] = K2[s], K2[r] # FD_INVALID
      PROVE  r = s
  BY <1>2 DEF Owned, Emptied
<1>3. ASSUME NEW d \in Fds, objs2[d].kind # "closed"
      PROVE  \E r \in AllPlaces : K2[r] = d
  <2>1. d \notin closed /\ objs[d].kind # "closed" /\ d # FD_INVALID
    BY <1>3, Capacity DEF KindsClosed
  <2>2. PICK r \in AllPlaces : K[r] = d
    BY <2>1 DEF Owned
  <2>3. r \notin P
    BY <2>1, <2>2
  <2>4. QED
    BY <2>2, <2>3 DEF Emptied
<1>4. QED
  BY <1>1, <1>2, <1>3 DEF Owned

-----------------------------------------------------------------------------
(* What each future and each cached pair looks like.                       *)

Objects == [kind : {"closed", "event", "inpoll", "timer"},
            signaled : BOOLEAN, watched : SUBSET Fds]
FutureRecords == [type : FutureTypes \cup {"INVALID"}, sync : Fds \cup {FD_INVALID},
                  latch : Fds \cup {FD_INVALID}, inner : Fds \cup {FD_INVALID},
                  upstream : SUBSET Futures, attached : SUBSET Futures,
                  notify_event : BOOLEAN, announced : BOOLEAN]

\* The descriptors that the futures of a set are waited for with.
Syncs(fu, fs) == {fu[g].sync : g \in fs}

\* A future has the descriptors of its type, and they watch what they should.
FutureFits(f, fu, objs) ==
    /\ fu[f].type = "INVALID" => fu[f] = NoFuture
    /\ fu[f].type # "INVALID" => fu[f].sync \in Fds
    /\ fu[f].type \in {"CUSTOM", "TIMER_ONCE"} =>
          fu[f].latch = FD_INVALID /\ fu[f].inner = FD_INVALID
    /\ fu[f].type = "JOIN" => fu[f].inner = FD_INVALID
    /\ fu[f].type \in {"UNORDERED", "TIMER_REPEAT"} => fu[f].inner \in Fds
    /\ \A g \in fu[f].upstream : g \in Futures /\ fu[g].type # "INVALID"
    /\ fu[f].attached \subseteq fu[f].upstream
    /\ fu[f].type \in Latched =>
          /\ fu[f].latch \in Fds
          /\ objs[fu[f].sync].kind = "inpoll"
          /\ objs[fu[f].sync].watched
                = {fu[f].latch} \cup ({fu[f].inner} \ {FD_INVALID})
                  \cup (IF fu[f].type = "JOIN" THEN Syncs(fu, fu[f].attached) ELSE {})
          /\ fu[f].type = "UNORDERED" =>
                objs[fu[f].inner].watched = Syncs(fu, fu[f].upstream)

\* A cached pair is an inpoll that watches its latch.
PairFits(t, i, la, objs) ==
    /\ la[t].inpolls[i] = FD_INVALID <=> la[t].event_cache.entries[i] = FD_INVALID
    /\ la[t].inpolls[i] # FD_INVALID =>
          /\ objs[la[t].inpolls[i]].kind = "inpoll"
          /\ objs[la[t].inpolls[i]].watched = {la[t].event_cache.entries[i]}

RingsFit(t, al, ev, la) ==
    /\ RingShape(ev[t].entries, ev[t].latest)
    /\ RingShape(la[t].event_cache.entries, la[t].event_cache.latest)
    /\ t \notin al => \A i \in Slots : /\ ev[t].entries[i] = FD_INVALID
                                       /\ la[t].inpolls[i] = FD_INVALID
                                       /\ la[t].event_cache.entries[i] = FD_INVALID

Typed(objs, al, ev, la, fu) ==
    /\ objs \in [Fds -> Objects]
    /\ al \subseteq Threads
    /\ ev \in [Threads -> Rings]
    /\ la \in [Threads -> Pairs]
    /\ fu \in [Futures -> FutureRecords]

AllRingsFit(al, ev, la) == \A t \in Threads : RingsFit(t, al, ev, la)

\* All of it, as a formula of the values of the variables.
Fit(objs, al, ev, la, fu) ==
    /\ Typed(objs, al, ev, la, fu)
    /\ Owned(KeptIn(fu, ev, la), objs)
    /\ \A f \in Futures : FutureFits(f, fu, objs)
    /\ AllRingsFit(al, ev, la)
    /\ \A t \in Threads, i \in Slots : PairFits(t, i, la, objs)

-----------------------------------------------------------------------------
(* The kernel's operations, object by object.                              *)

LEMMA MinOfNaturals ==
    ASSUME NEW S, S \subseteq Nat, S # {}
    PROVE  Min(S) \in S /\ \A y \in S : Min(S) <= y
<1> DEFINE R == {ss \in Nat \X Nat : ss[1] < ss[2]}
<1>1. IsWellFoundedOn(R, Nat)
  BY NatLessThanWellFounded DEF OpToRel
<1>2. \A x, y \in Nat : y < x => <<y, x>> \in R
  OBVIOUS
<1> HIDE DEF R
<1>3. PICK x \in S : \A y \in S : ~(<<y, x>> \in R)
  BY <1>1, WFMin
<1>4. ASSUME NEW y \in S
      PROVE  x =< y
  <2>1. x \in Nat /\ y \in Nat
    OBVIOUS
  <2>2. ~(y < x)
    BY <1>2, <1>3, <2>1
  <2>3. QED
    BY <2>1, <2>2
<1>5. QED
  BY <1>4 DEF Min

LEMMA NewFdClosed ==
    ASSUME NEW objs, \E d \in Fds : objs[d].kind = "closed"
    PROVE  NewFd(objs) \in Fds /\ objs[NewFd(objs)].kind = "closed"
<1>1. {d \in Fds : objs[d].kind = "closed"} \subseteq Nat
  BY Capacity
<1>2. NewFd(objs) \in {d \in Fds : objs[d].kind = "closed"}
  BY <1>1, MinOfNaturals DEF NewFd
<1>3. QED
  BY <1>2

LEMMA ClosedObject ==
    Closed \in Objects /\ Closed.kind = "closed" /\ ~Closed.signaled
<1>1. Closed.signaled = FALSE /\ Closed.kind = "closed" /\ Closed.watched = {}
  BY DEF Closed
<1>2. Closed \in Objects
  BY DEF Closed, Objects
<1>3. ~Closed.signaled
  BY <1>1, Zenon
<1>4. QED
  BY <1>1, <1>2, <1>3

LEMMA OpenEffect ==
    ASSUME NEW objs \in [Fds -> Objects], NEW d \in Fds,
           NEW kind \in {"event", "inpoll", "timer"}, NEW o2, o2 = Open(objs, d, kind)
    PROVE  /\ o2 \in [Fds -> Objects]
           /\ o2[d].kind = kind /\ ~o2[d].signaled /\ o2[d].watched = {}
           /\ \A e \in Fds : e # d => o2[e] = objs[e]
<1>1. PICK r : r = [Closed EXCEPT !.kind = kind]
  OBVIOUS
<1>2. r.kind = kind /\ r.signaled = FALSE /\ r.watched = {}
  BY <1>1 DEF Closed
<1>3. r \in Objects
  <2>1. Closed \in Objects
    BY ClosedObject
  <2>2. QED
    BY <1>1, <2>1 DEF Objects
<1>4. o2 = [objs EXCEPT ![d] = r]
  BY <1>1 DEF Open
<1>5. o2[d] = r
  BY <1>4
<1>6. ~o2[d].signaled
  BY <1>2, <1>5, Zenon
<1>7. QED
  BY <1>2, <1>3, <1>4, <1>5, <1>6

LEMMA CloseEffect ==
    ASSUME NEW objs \in [Fds -> Objects], NEW ds, NEW o2, o2 = Close(objs, ds)
    PROVE  /\ o2 \in [Fds -> Objects]
           /\ \A e \in Fds : e \in ds => o2[e].kind = "closed" /\ ~o2[e].signaled
           /\ \A e \in Fds : e \notin ds => /\ o2[e].kind = objs[e].kind
                                            /\ o2[e].signaled = objs[e].signaled
                                            /\ o2[e].watched = objs[e].watched \ ds
<1>1. o2 = [d \in Fds |-> IF d \in ds THEN Closed
                          ELSE [objs[d] EXCEPT !.watched = @ \ ds]]
  BY DEF Close
<1>2. ASSUME NEW e \in Fds
      PROVE  /\ o2[e] \in Objects
             /\ e \in ds => o2[e].kind = "closed" /\ ~o2[e].signaled
             /\ e \notin ds => /\ o2[e].kind = objs[e].kind
                               /\ o2[e].signaled = objs[e].signaled
                               /\ o2[e].watched = objs[e].watched \ ds
  <2>1. objs[e] \in Objects
    OBVIOUS
  <2>2. CASE e \in ds
    <3>1. o2[e] = Closed
      BY <1>1, <2>2
    <3>2. QED
      BY <2>2, <3>1, ClosedObject, Zenon
  <2>3. CASE e \notin ds
    <3>1. o2[e] = [objs[e] EXCEPT !.watched = objs[e].watched \ ds]
      BY <1>1, <2>3
    <3>2. QED
      BY <2>1, <2>3, <3>1 DEF Objects
  <2>4. QED
    BY <2>2, <2>3
<1>3. QED
  BY <1>1, <1>2

LEMMA AttachEffect ==
    ASSUME NEW objs \in [Fds -> Objects], NEW poll \in Fds, NEW ds, ds \subseteq Fds,
           NEW o2, o2 = inpoll_attach(objs, poll, ds)
    PROVE  /\ o2 \in [Fds -> Objects]
           /\ o2[poll].kind = objs[poll].kind /\ o2[poll].signaled = objs[poll].signaled
           /\ o2[poll].watched = objs[poll].watched \cup ds
           /\ \A e \in Fds : e # poll => o2[e] = objs[e]
<1>1. objs[poll] \in Objects
  OBVIOUS
<1>2. PICK r : r = [objs[poll] EXCEPT !.watched = objs[poll].watched \cup ds]
  OBVIOUS
<1>3. /\ r \in Objects /\ r.kind = objs[poll].kind /\ r.signaled = objs[poll].signaled
      /\ r.watched = objs[poll].watched \cup ds
  BY <1>1, <1>2 DEF Objects
<1>4. o2 = [objs EXCEPT ![poll] = r]
  BY <1>2 DEF inpoll_attach
<1>5. QED
  BY <1>3, <1>4

LEMMA DetachEffect ==
    ASSUME NEW objs \in [Fds -> Objects], NEW poll \in Fds, NEW d,
           NEW o2, o2 = inpoll_detach(objs, poll, d)
    PROVE  /\ o2 \in [Fds -> Objects]
           /\ o2[poll].kind = objs[poll].kind /\ o2[poll].signaled = objs[poll].signaled
           /\ o2[poll].watched = objs[poll].watched \ {d}
           /\ \A e \in Fds : e # poll => o2[e] = objs[e]
<1>1. objs[poll] \in Objects
  OBVIOUS
<1>2. PICK r : r = [objs[poll] EXCEPT !.watched = objs[poll].watched \ {d}]
  OBVIOUS
<1>3. /\ r \in Objects /\ r.kind = objs[poll].kind /\ r.signaled = objs[poll].signaled
      /\ r.watched = objs[poll].watched \ {d}
  BY <1>1, <1>2 DEF Objects
<1>4. o2 = [objs EXCEPT ![poll] = r]
  BY <1>2 DEF inpoll_detach
<1>5. QED
  BY <1>3, <1>4

-----------------------------------------------------------------------------
(* What a step leaves alone.                                               *)

(***************************************************************************)
(* Outside the places C everything is kept where it was, and no object     *)
(* kept there changes except that it stops watching what was closed, all   *)
(* of which was kept in C.                                                 *)
(***************************************************************************)
Aside(C, closed, K, objs, K2, objs2) ==
    /\ C \subseteq AllPlaces
    /\ closed \subseteq Fds
    /\ \A d \in closed : \E q \in C : K[q] = d
    /\ \A p \in AllPlaces \ C :
          /\ K2[p] = K[p]
          /\ K[p] # FD_INVALID => /\ objs2[K[p]].kind = objs[K[p]].kind
                                  /\ objs2[K[p]].watched = objs[K[p]].watched \ closed

\* The places outside are not watched less than before.
LEMMA NotClosed ==
    ASSUME NEW K, NEW K2, NEW objs, NEW objs2, Owned(K, objs), NEW C, NEW closed,
           Aside(C, closed, K, objs, K2, objs2),
           NEW p \in AllPlaces \ C
    PROVE  K[p] \notin closed
<1>1. SUFFICES ASSUME K[p] \in closed
               PROVE  FALSE
  OBVIOUS
<1>2. PICK q \in C : K[q] = K[p]
  BY <1>1 DEF Aside
<1>3. K[p] # FD_INVALID /\ q \in AllPlaces
  BY <1>1, Capacity DEF Aside
<1>4. QED
  BY <1>2, <1>3 DEF Owned

\* A future in whose places, and in whose upstream futures' places, nothing
\* happens.
LEMMA FutureAside ==
    ASSUME NEW fu, NEW ev, NEW la, NEW fu2, NEW ev2, NEW la2, NEW objs, NEW objs2,
           NEW K, Keeps(K, fu, ev, la), NEW K2, Keeps(K2, fu2, ev2, la2),
           Owned(K, objs), NEW C, NEW closed, Aside(C, closed, K, objs, K2, objs2),
           fu \in [Futures -> FutureRecords],
           NEW g \in Futures, FutureFits(g, fu, objs),
           \A h \in {g} \cup fu[g].upstream :
              /\ SyncOf(h) \notin C /\ LatchOf(h) \notin C /\ InnerOf(h) \notin C
              /\ fu2[h].type = fu[h].type,
           fu2[g].upstream = fu[g].upstream, fu2[g].attached = fu[g].attached,
           fu[g].type = "INVALID" => fu2[g] = fu[g]
    PROVE  FutureFits(g, fu2, objs2)
<1>1. \A h \in {g} \cup fu[g].upstream : h \in Futures
  BY DEF FutureFits
<1>2. ASSUME NEW p \in AllPlaces \ C
      PROVE  /\ K2[p] = K[p] /\ K[p] \notin closed
             /\ K[p] # FD_INVALID => /\ objs2[K[p]].kind = objs[K[p]].kind
                                     /\ objs2[K[p]].watched = objs[K[p]].watched \ closed
  <2>1. K[p] \notin closed
    BY NotClosed
  <2>2. QED
    BY <2>1 DEF Aside
<1>3. ASSUME NEW h \in {g} \cup fu[g].upstream
      PROVE  /\ fu2[h].sync = fu[h].sync /\ fu2[h].latch = fu[h].latch
             /\ fu2[h].inner = fu[h].inner
             /\ fu[h].sync \notin closed /\ fu[h].latch \notin closed
             /\ fu[h].inner \notin closed
             /\ fu[h].sync # FD_INVALID =>
                   /\ objs2[fu[h].sync].kind = objs[fu[h].sync].kind
                   /\ objs2[fu[h].sync].watched = objs[fu[h].sync].watched \ closed
             /\ fu[h].inner # FD_INVALID =>
                   objs2[fu[h].inner].watched = objs[fu[h].inner].watched \ closed
  <2>1. h \in Futures
    BY <1>1
  <2>2. /\ SyncOf(h) \in AllPlaces \ C /\ LatchOf(h) \in AllPlaces \ C
        /\ InnerOf(h) \in AllPlaces \ C
    BY <2>1, ArePlaces
  <2>3. /\ K[SyncOf(h)] = fu[h].sync /\ K[LatchOf(h)] = fu[h].latch
        /\ K[InnerOf(h)] = fu[h].inner /\ K2[SyncOf(h)] = fu2[h].sync
        /\ K2[LatchOf(h)] = fu2[h].latch /\ K2[InnerOf(h)] = fu2[h].inner
    BY <2>1 DEF Keeps
  <2>4. QED
    BY <1>2, <2>2, <2>3
<1>4. /\ fu2[g].sync = fu[g].sync /\ fu2[g].latch = fu[g].latch
      /\ fu2[g].inner = fu[g].inner /\ fu2[g].type = fu[g].type
  BY <1>3
<1>5. /\ Syncs(fu2, fu2[g].upstream) = Syncs(fu, fu[g].upstream)
      /\ Syncs(fu2, fu2[g].attached) = Syncs(fu, fu[g].attached)
  <2>1. fu[g].attached \subseteq fu[g].upstream
    BY DEF FutureFits
  <2>2. QED
    BY <1>3, <2>1 DEF Syncs
<1>6. fu2[g].type = "INVALID" => fu2[g] = NoFuture
  BY <1>4 DEF FutureFits
<1>7. /\ \A h \in fu2[g].upstream : h \in Futures /\ fu2[h].type # "INVALID"
      /\ fu2[g].attached \subseteq fu2[g].upstream
  BY DEF FutureFits
<1>8. ASSUME fu[g].type \in Latched
      PROVE  /\ objs2[fu[g].sync].kind = "inpoll"
             /\ objs2[fu[g].sync].watched = objs[fu[g].sync].watched
             /\ fu[g].type = "UNORDERED" =>
                   objs2[fu[g].inner].watched = objs[fu[g].inner].watched
  <2>1. /\ fu[g].sync \in Fds /\ fu[g].latch \in Fds
        /\ fu[g].type = "UNORDERED" => fu[g].inner \in Fds
    BY <1>8 DEF FutureFits, Latched, Collective
  <2>2. /\ objs2[fu[g].sync].kind = objs[fu[g].sync].kind
        /\ objs2[fu[g].sync].watched = objs[fu[g].sync].watched \ closed
    BY <1>3, <2>1, Capacity
  <2>3. {fu[g].latch} \cap closed = {}
    BY <1>3, <2>1, Capacity
  <2>4. fu[g].inner # FD_INVALID => fu[g].inner \notin closed
    BY <1>3
  <2>5. Syncs(fu, fu[g].upstream) \cap closed = {} /\ Syncs(fu, fu[g].attached) \cap closed = {}
    <3>1. ASSUME NEW h \in fu[g].upstream
          PROVE  fu[h].sync \notin closed
      BY <1>3
    <3>2. fu[g].attached \subseteq fu[g].upstream
      BY DEF FutureFits
    <3>3. QED
      BY <3>1, <3>2 DEF Syncs
  <2>6. objs[fu[g].sync].watched \cap closed = {}
    BY <1>8, <2>3, <2>4, <2>5 DEF FutureFits
  <2>7. fu[g].type = "UNORDERED" =>
           objs2[fu[g].inner].watched = objs[fu[g].inner].watched
    <3>1. SUFFICES ASSUME fu[g].type = "UNORDERED"
                   PROVE  objs2[fu[g].inner].watched = objs[fu[g].inner].watched
      OBVIOUS
    <3>2. objs2[fu[g].inner].watched = objs[fu[g].inner].watched \ closed
      BY <1>3, <2>1, <3>1, Capacity
    <3>3. objs[fu[g].inner].watched = Syncs(fu, fu[g].upstream)
      BY <1>8, <3>1 DEF FutureFits
    <3>4. QED
      BY <2>5, <3>2, <3>3
  <2>8. objs[fu[g].sync].kind = "inpoll"
    BY <1>8 DEF FutureFits
  <2>9. QED
    BY <2>2, <2>6, <2>7, <2>8
<1>9. QED
  BY <1>4, <1>5, <1>6, <1>7, <1>8 DEF FutureFits

\* A cached pair in whose places nothing happens.
LEMMA PairAside ==
    ASSUME NEW fu, NEW ev, NEW la, NEW fu2, NEW ev2, NEW la2, NEW objs, NEW objs2,
           NEW K, Keeps(K, fu, ev, la), NEW K2, Keeps(K2, fu2, ev2, la2),
           Owned(K, objs), NEW C, NEW closed, Aside(C, closed, K, objs, K2, objs2),
           NEW t \in Threads, NEW i \in Slots, PairFits(t, i, la, objs),
           InpollIn(t, i) \notin C, LatchIn(t, i) \notin C
    PROVE  PairFits(t, i, la2, objs2)
<1>1. PICK p, q : /\ p \in AllPlaces \ C /\ q \in AllPlaces \ C
                  /\ K[p] = la[t].inpolls[i] /\ K2[p] = la2[t].inpolls[i]
                  /\ K[q] = la[t].event_cache.entries[i]
                  /\ K2[q] = la2[t].event_cache.entries[i]
  BY ArePlaces DEF Keeps
<1>2. K2[p] = K[p] /\ K2[q] = K[q] /\ K[q] \notin closed
  <2>1. K[q] \notin closed
    BY <1>1, NotClosed
  <2>2. QED
    BY <1>1, <2>1 DEF Aside
<1>3. K[p] # FD_INVALID => /\ objs2[K[p]].kind = objs[K[p]].kind
                           /\ objs2[K[p]].watched = objs[K[p]].watched \ closed
  BY <1>1 DEF Aside
<1>4. QED
  BY <1>1, <1>2, <1>3 DEF PairFits

LEMMA SameKept ==
    ASSUME NEW fu, NEW ev, NEW la, NEW objs, NEW K, NEW K2,
           Keeps(K, fu, ev, la), Keeps(K2, fu, ev, la), Owned(K, objs)
    PROVE  Owned(K2, objs)
<1>1. ASSUME NEW p \in AllPlaces
      PROVE  K2[p] = K[p]
  <2>1. CASE \E f \in Futures : p = SyncOf(f) \/ p = LatchOf(f) \/ p = InnerOf(f)
    BY <2>1 DEF Keeps
  <2>2. CASE \E t \in Threads, i \in Slots :
                p = EventIn(t, i) \/ p = InpollIn(t, i) \/ p = LatchIn(t, i)
    BY <2>2 DEF Keeps
  <2>3. QED
    BY <2>1, <2>2, PlaceCases
<1>2. SameKinds(objs, objs)
  BY DEF SameKinds
<1>3. QED
  BY <1>1, <1>2, Untouched

\* A step touches nothing of the futures other than Fs, which no other future
\* is attached to.
OthersSame(C, Fs, fu, fu2) ==
    \A g \in Futures \ Fs :
       /\ SyncOf(g) \notin C /\ LatchOf(g) \notin C /\ InnerOf(g) \notin C
       /\ fu2[g].type = fu[g].type /\ fu2[g].upstream = fu[g].upstream
       /\ fu2[g].attached = fu[g].attached
       /\ fu[g].upstream \cap Fs = {}
       /\ fu[g].type = "INVALID" => fu2[g] = fu[g]

FuturesFit(Fs, fu, objs) == \A g \in Futures : g \in Fs => FutureFits(g, fu, objs)

PairsFit(C, la, objs) ==
    \A t \in Threads, i \in Slots :
       InpollIn(t, i) \in C \/ LatchIn(t, i) \in C => PairFits(t, i, la, objs)

(***************************************************************************)
(* A step that touches the places C and the futures Fs keeps everything in *)
(* order if what it touches is.                                            *)
(***************************************************************************)
LEMMA StepFits ==
    ASSUME NEW objs, NEW al, NEW ev, NEW la, NEW fu, Fit(objs, al, ev, la, fu),
           NEW objs2, NEW al2, NEW ev2, NEW la2, NEW fu2, Typed(objs2, al2, ev2, la2, fu2),
           NEW K, Keeps(K, fu, ev, la), NEW K2, Keeps(K2, fu2, ev2, la2),
           Owned(K2, objs2),
           NEW C, NEW closed, Aside(C, closed, K, objs, K2, objs2), NEW Fs,
           OthersSame(C, Fs, fu, fu2), FuturesFit(Fs, fu2, objs2), PairsFit(C, la2, objs2),
           AllRingsFit(al2, ev2, la2)
    PROVE  Fit(objs2, al2, ev2, la2, fu2)
<1>1. Owned(K, objs) /\ fu \in [Futures -> FutureRecords]
  BY SomethingKeeps, SameKept DEF Fit, Typed
<1>2. Owned(KeptIn(fu2, ev2, la2), objs2)
  BY SomethingKeeps, SameKept
<1>3. ASSUME NEW g \in Futures
      PROVE  FutureFits(g, fu2, objs2)
  <2>1. CASE g \in Fs
    BY <2>1 DEF FuturesFit
  <2>2. CASE g \notin Fs
    <3>1. FutureFits(g, fu, objs)
      BY DEF Fit
    <3>2. \A h \in {g} \cup fu[g].upstream : h \in Futures \ Fs
      BY <2>2, <3>1 DEF FutureFits, OthersSame
    <3>3. \A h \in {g} \cup fu[g].upstream :
             /\ SyncOf(h) \notin C /\ LatchOf(h) \notin C /\ InnerOf(h) \notin C
             /\ fu2[h].type = fu[h].type
      BY <3>2 DEF OthersSame
    <3>4. fu2[g].upstream = fu[g].upstream /\ fu2[g].attached = fu[g].attached
          /\ (fu[g].type = "INVALID" => fu2[g] = fu[g])
      BY <2>2 DEF OthersSame
    <3>5. QED
      BY <1>1, <3>1, <3>3, <3>4, FutureAside
  <2>3. QED
    BY <2>1, <2>2
<1>4. ASSUME NEW t \in Threads, NEW i \in Slots
      PROVE  PairFits(t, i, la2, objs2)
  <2>1. CASE InpollIn(t, i) \in C \/ LatchIn(t, i) \in C
    BY <2>1 DEF PairsFit
  <2>2. CASE InpollIn(t, i) \notin C /\ LatchIn(t, i) \notin C
    <3>1. PairFits(t, i, la, objs)
      BY DEF Fit
    <3>2. QED
      BY <1>1, <2>2, <3>1, PairAside
  <2>3. QED
    BY <2>1, <2>2
<1>5. QED
  BY <1>2, <1>3, <1>4 DEF Fit

-----------------------------------------------------------------------------
(* What the operations on rings do, entry by entry.                        *)

LEMMA TakeEffect ==
    ASSUME NEW ring \in Rings, RingShape(ring.entries, ring.latest),
           NEW r2, r2 = TakeLatest(ring)
    PROVE  /\ r2 \in Rings /\ r2.entries[ring.latest] = FD_INVALID
           /\ \A i \in Slots : i # ring.latest => r2.entries[i] = ring.entries[i]
           /\ RingShape(r2.entries, r2.latest)
           /\ r2.latest = sync_cache_decrement_index(ring.latest)
<1>1. ring.entries \in [Slots -> Fds \cup {FD_INVALID}] /\ ring.latest \in Slots
  BY DEF Rings
<1>2. /\ r2.entries = [ring.entries EXCEPT ![ring.latest] = FD_INVALID]
      /\ r2.latest = sync_cache_decrement_index(ring.latest)
      /\ r2 = [entries |-> r2.entries, latest |-> r2.latest]
  BY DEF TakeLatest
<1>3. r2.latest \in Slots
  BY <1>1, <1>2, RingIndices
<1>4. r2.entries \in [Slots -> Fds \cup {FD_INVALID}]
  BY <1>1, <1>2
<1>5. r2 \in Rings
  BY <1>2, <1>3, <1>4 DEF Rings
<1>6. RingShape(r2.entries, r2.latest)
  BY <1>1, <1>2, TakeKeepsShape
<1>7. QED
  BY <1>1, <1>2, <1>5, <1>6

LEMMA AddEffect ==
    ASSUME NEW ring \in Rings, RingShape(ring.entries, ring.latest), NEW d \in Fds,
           NEW n, n = After(ring.latest), NEW r2, r2 = event_cache_liberate(ring, d)
    PROVE  /\ n \in Slots /\ r2 \in Rings /\ r2.entries[n] = d /\ r2.latest = n
           /\ \A i \in Slots : i # n => r2.entries[i] = ring.entries[i]
           /\ RingShape(r2.entries, r2.latest)
           /\ Evicted(ring) = {ring.entries[n]} \ {FD_INVALID}
<1>1. /\ ring.entries \in [Slots -> Fds \cup {FD_INVALID}] /\ ring.latest \in Slots
      /\ d # FD_INVALID
  BY Capacity DEF Rings
<1>2. sync_cache_increment_index(ring.latest) = n /\ n \in Slots
  BY <1>1, RingIndices
<1>3. /\ r2.entries = [ring.entries EXCEPT ![n] = d]
      /\ r2.latest = n /\ r2 = [entries |-> r2.entries, latest |-> r2.latest]
  BY <1>2 DEF event_cache_liberate
<1>4. r2.entries \in [Slots -> Fds \cup {FD_INVALID}]
  BY <1>1, <1>3
<1>5. r2 \in Rings
  BY <1>2, <1>3, <1>4 DEF Rings
<1>6. RingShape(r2.entries, r2.latest)
  BY <1>1, <1>3, AddKeepsShape
<1>7. Evicted(ring) = {ring.entries[n]} \ {FD_INVALID}
  BY <1>2 DEF Evicted
<1>8. QED
  BY <1>1, <1>2, <1>3, <1>5, <1>6, <1>7

LEMMA FinalizeEffect ==
    ASSUME NEW ring \in Rings, RingShape(ring.entries, ring.latest),
           NEW r2, r2 = event_cache_finalize(ring)
    PROVE  r2 \in Rings /\ \A i \in Slots : r2.entries[i] = FD_INVALID
<1>1. ring.entries \in [Slots -> Fds \cup {FD_INVALID}] /\ ring.latest \in Slots
  BY DEF Rings
<1>2. Walk(ring.entries, ring.latest) = {ring.entries[i] : i \in Slots} \ {FD_INVALID}
  BY <1>1, WalkMeetsAll
<1>3. /\ r2.entries = [i \in Slots |-> IF ring.entries[i] \in Walk(ring.entries, ring.latest)
                                       THEN FD_INVALID ELSE ring.entries[i]]
      /\ r2.latest = 0 /\ r2 = [entries |-> r2.entries, latest |-> r2.latest]
  BY DEF event_cache_finalize
<1>4. \A i \in Slots : r2.entries[i] = FD_INVALID
  BY <1>2, <1>3
<1>5. r2.entries \in [Slots -> Fds \cup {FD_INVALID}] /\ r2.latest \in Slots
  BY <1>3, <1>4, Capacity
<1>6. QED
  BY <1>3, <1>4, <1>5 DEF Rings

LEMMA AddPairEffect ==
    ASSUME NEW cache \in Pairs,
           RingShape(cache.event_cache.entries, cache.event_cache.latest),
           NEW inpoll \in Fds, NEW latch \in Fds, NEW n, n = After(cache.event_cache.latest),
           NEW c2, c2 = latched_inpoll_cache_liberate(cache, inpoll, latch)
    PROVE  /\ n \in Slots /\ c2 \in Pairs
           /\ c2.inpolls[n] = inpoll /\ c2.event_cache.entries[n] = latch
           /\ \A i \in Slots : i # n =>
                 /\ c2.inpolls[i] = cache.inpolls[i]
                 /\ c2.event_cache.entries[i] = cache.event_cache.entries[i]
           /\ RingShape(c2.event_cache.entries, c2.event_cache.latest)
           /\ EvictedPair(cache)
                 = {cache.inpolls[n], cache.event_cache.entries[n]} \ {FD_INVALID}
<1>1. PICK ring : ring = cache.event_cache
  OBVIOUS
<1>2. /\ cache.inpolls \in [Slots -> Fds \cup {FD_INVALID}] /\ ring \in Rings
      /\ ring.latest \in Slots
  BY <1>1 DEF Pairs, Rings
<1>3. PICK r2 : r2 = event_cache_liberate(ring, latch)
  OBVIOUS
<1>4. /\ n \in Slots /\ r2 \in Rings /\ r2.entries[n] = latch /\ r2.latest = n
      /\ \A i \in Slots : i # n => r2.entries[i] = ring.entries[i]
      /\ RingShape(r2.entries, r2.latest)
      /\ Evicted(ring) = {ring.entries[n]} \ {FD_INVALID}
  BY <1>1, <1>2, <1>3, AddEffect
<1>5. c2 = [inpolls |-> [cache.inpolls EXCEPT ![n] = inpoll], event_cache |-> r2]
  BY <1>1, <1>3, <1>4 DEF latched_inpoll_cache_liberate
<1>6. c2.inpolls = [cache.inpolls EXCEPT ![n] = inpoll] /\ c2.event_cache = r2
  BY <1>5
<1>7. c2 \in Pairs
  BY <1>2, <1>4, <1>5 DEF Pairs
<1>8. EvictedPair(cache) = {cache.inpolls[n], ring.entries[n]} \ {FD_INVALID}
  <2>1. sync_cache_increment_index(ring.latest) = n
    BY <1>1, <1>2, RingIndices
  <2>2. EvictedPair(cache) = ({cache.inpolls[n]} \ {FD_INVALID}) \cup Evicted(ring)
    BY <1>1, <2>1 DEF EvictedPair
  <2>3. QED
    BY <1>4, <2>2
<1>9. QED
  BY <1>1, <1>2, <1>4, <1>6, <1>7, <1>8

-----------------------------------------------------------------------------
(* Descriptors are available for what Room() was asked for.                *)

LEMMA ClosedLeft ==
    ASSUME NEW S
    PROVE  /\ Cardinality(S) >= 1 => S # {}
           /\ Cardinality(S) >= 2 => \A x : S \ {x} # {}
           /\ Cardinality(S) >= 3 => \A x, y : S \ {x, y} # {}
<1>1. Cardinality({}) = 0 /\ IsFiniteSet({})
  BY FS_EmptySet
<1>2. ASSUME NEW x
      PROVE  Cardinality({x}) = 1 /\ IsFiniteSet({x})
  BY FS_Singleton
<1>3. ASSUME NEW x, NEW y
      PROVE  Cardinality({x, y}) \in {1, 2}
  <2>1. CASE x = y
    <3>1. {x, y} = {x}
      BY <2>1
    <3>2. QED
      BY <1>2, <3>1
  <2>2. CASE x # y
    <3>1. Cardinality({x} \cup {y}) = Cardinality({x}) + 1
      BY <1>2, <2>2, FS_AddElement
    <3>2. {x, y} = {x} \cup {y}
      OBVIOUS
    <3>3. Cardinality({x}) = 1
      BY <1>2
    <3>4. Cardinality({x} \cup {y}) = 2
      BY <3>1, <3>3
    <3>5. QED
      BY <3>2, <3>4
  <2>3. QED
    BY <2>1, <2>2
<1>4. Cardinality(S) >= 1 => S # {}
  BY <1>1
<1>5. ASSUME Cardinality(S) >= 2, NEW x, S \ {x} = {}
      PROVE  FALSE
  <2>1. S = {} \/ S = {x}
    BY <1>5
  <2>2. Cardinality({x}) = 1
    BY <1>2
  <2>3. Cardinality(S) = 0 \/ Cardinality(S) = 1
    BY <1>1, <2>1, <2>2, Zenon
  <2>4. QED
    BY <1>5, <2>3
<1>6. ASSUME Cardinality(S) >= 3, NEW x, NEW y, S \ {x, y} = {}
      PROVE  FALSE
  <2>1. S = {} \/ S = {x} \/ S = {y} \/ S = {x, y}
    BY <1>6
  <2>2. CASE S = {x, y}
    <3>1. Cardinality(S) \in {1, 2}
      BY <1>3, <2>2
    <3>2. QED
      BY <1>6, <3>1
  <2>3. CASE S # {x, y}
    <3>1. Cardinality(S) \in {0, 1}
      BY <1>1, <1>2, <2>1, <2>3
    <3>2. QED
      BY <1>6, <3>1
  <2>4. QED
    BY <2>2, <2>3
<1>7. QED
  BY <1>4, <1>5, <1>6

-----------------------------------------------------------------------------
(* The parts of a step that several actions share.                         *)

\* What is kept stays at the places whose field or entry does not change.
FieldsSame(C, fu, fu2) ==
    \A g \in Futures : /\ SyncOf(g) \notin C => fu2[g].sync = fu[g].sync
                       /\ LatchOf(g) \notin C => fu2[g].latch = fu[g].latch
                       /\ InnerOf(g) \notin C => fu2[g].inner = fu[g].inner

EventsSame(C, ev, ev2) ==
    \A t \in Threads, i \in Slots :
       EventIn(t, i) \notin C => ev2[t].entries[i] = ev[t].entries[i]

LatchedSame(C, la, la2) ==
    \A t \in Threads, i \in Slots :
       /\ InpollIn(t, i) \notin C => la2[t].inpolls[i] = la[t].inpolls[i]
       /\ LatchIn(t, i) \notin C =>
             la2[t].event_cache.entries[i] = la[t].event_cache.entries[i]

LEMMA AllSame ==
    ASSUME NEW C, NEW fu, NEW ev, NEW la
    PROVE  FieldsSame(C, fu, fu) /\ EventsSame(C, ev, ev) /\ LatchedSame(C, la, la)
  BY DEF FieldsSame, EventsSame, LatchedSame

LEMMA Frame ==
    ASSUME NEW fu, NEW ev, NEW la, NEW fu2, NEW ev2, NEW la2, NEW C,
           NEW K, Keeps(K, fu, ev, la), NEW K2, Keeps(K2, fu2, ev2, la2),
           FieldsSame(C, fu, fu2), EventsSame(C, ev, ev2), LatchedSame(C, la, la2)
    PROVE  \A p \in AllPlaces \ C : K2[p] = K[p]
<1>1. SUFFICES ASSUME NEW p \in AllPlaces, p \notin C
               PROVE  K2[p] = K[p]
  OBVIOUS
<1>2. CASE \E f \in Futures : p = SyncOf(f) \/ p = LatchOf(f) \/ p = InnerOf(f)
  BY <1>1, <1>2 DEF Keeps, FieldsSame
<1>3. CASE \E t \in Threads, i \in Slots :
              p = EventIn(t, i) \/ p = InpollIn(t, i) \/ p = LatchIn(t, i)
  <2>1. PICK t \in Threads, i \in Slots :
              p = EventIn(t, i) \/ p = InpollIn(t, i) \/ p = LatchIn(t, i)
    BY <1>3
  <2>2. /\ K[EventIn(t, i)] = ev[t].entries[i] /\ K2[EventIn(t, i)] = ev2[t].entries[i]
        /\ K[InpollIn(t, i)] = la[t].inpolls[i] /\ K2[InpollIn(t, i)] = la2[t].inpolls[i]
        /\ K[LatchIn(t, i)] = la[t].event_cache.entries[i]
        /\ K2[LatchIn(t, i)] = la2[t].event_cache.entries[i]
    BY DEF Keeps
  <2>3. CASE p = EventIn(t, i)
    BY <1>1, <2>2, <2>3 DEF EventsSame
  <2>4. CASE p = InpollIn(t, i)
    BY <1>1, <2>2, <2>4 DEF LatchedSame
  <2>5. CASE p = LatchIn(t, i)
    BY <1>1, <2>2, <2>5 DEF LatchedSame
  <2>6. QED
    BY <2>1, <2>3, <2>4, <2>5
<1>4. QED
  BY <1>2, <1>3, PlaceCases

LEMMA NoFutureRecord ==
    /\ NoFuture \in FutureRecords /\ NoFuture.type = "INVALID"
    /\ NoFuture.sync = FD_INVALID /\ NoFuture.latch = FD_INVALID
    /\ NoFuture.inner = FD_INVALID /\ NoFuture.upstream = {} /\ NoFuture.attached = {}
    /\ NoFuture.announced = FALSE /\ NoFuture.notify_event = FALSE
  BY DEF NoFuture, FutureRecords

\* The futures without an inpoll, as they are allocated.
PlainOf(type, d) == [NoFuture EXCEPT !.type = type, !.sync = d]

LEMMA PlainRecord ==
    ASSUME NEW d \in Fds, NEW type \in {"CUSTOM", "TIMER_ONCE"}
    PROVE  /\ PlainOf(type, d) \in FutureRecords
           /\ PlainOf(type, d).type = type /\ PlainOf(type, d).sync = d
           /\ PlainOf(type, d).latch = FD_INVALID /\ PlainOf(type, d).inner = FD_INVALID
           /\ PlainOf(type, d).upstream = {} /\ PlainOf(type, d).attached = {}
<1>1. PICK r : r = [NoFuture EXCEPT !.type = type, !.sync = d] /\ r = PlainOf(type, d)
  BY DEF PlainOf
<1>2. /\ r.type = type /\ r.sync = d /\ r.latch = FD_INVALID /\ r.inner = FD_INVALID
      /\ r.upstream = {} /\ r.attached = {}
  BY <1>1 DEF NoFuture
<1>3. r \in FutureRecords
  BY <1>1, NoFutureRecord DEF FutureRecords, FutureTypes
<1>4. QED
  BY <1>1, <1>2, <1>3

LEMMA PlainFits ==
    ASSUME NEW fu, NEW f, NEW d \in Fds, NEW type \in {"CUSTOM", "TIMER_ONCE"}, NEW objs,
           fu[f] = PlainOf(type, d)
    PROVE  FutureFits(f, fu, objs)
<1>1. type # "INVALID" /\ type \notin Latched /\ type # "JOIN"
      /\ type \notin {"UNORDERED", "TIMER_REPEAT"}
  BY DEF Latched, Collective
<1>2. /\ fu[f].type = type /\ fu[f].sync = d /\ fu[f].latch = FD_INVALID
      /\ fu[f].inner = FD_INVALID /\ fu[f].upstream = {} /\ fu[f].attached = {}
  <2>1. PICK r : /\ r = PlainOf(type, d) /\ r.type = type /\ r.sync = d
                 /\ r.latch = FD_INVALID /\ r.inner = FD_INVALID /\ r.upstream = {}
                 /\ r.attached = {}
    BY PlainRecord
  <2>2. QED
    BY <2>1
<1>3. QED
  BY <1>1, <1>2 DEF FutureFits

\* A future that was liberated.
LEMMA GoneFits ==
    ASSUME NEW fu, NEW f, NEW objs, fu[f] = NoFuture
    PROVE  FutureFits(f, fu, objs)
<1>1. "INVALID" \notin Latched /\ "INVALID" \notin {"CUSTOM", "TIMER_ONCE"}
      /\ "INVALID" \notin {"UNORDERED", "TIMER_REPEAT"}
  BY DEF Latched, Collective
<1>2. QED
  BY <1>1, NoFutureRecord DEF FutureFits

\* Nothing depends on a future that is not there.
LEMMA FreeFuture ==
    ASSUME NEW objs, NEW al, NEW ev, NEW la, NEW fu, Fit(objs, al, ev, la, fu),
           NEW f \in Futures, fu[f].type = "INVALID"
    PROVE  /\ fu[f] = NoFuture
           /\ \A g \in Futures : f \notin fu[g].upstream
  BY DEF Fit, FutureFits


-----------------------------------------------------------------------------
(* One lemma per action.                                                   *)

FitNow == Fit(objects, alive, events, latched, future)

LEMMA FitParts ==
    ASSUME FitNow
    PROVE  /\ objects \in [Fds -> Objects] /\ alive \subseteq Threads
           /\ events \in [Threads -> Rings] /\ latched \in [Threads -> Pairs]
           /\ future \in [Futures -> FutureRecords]
           /\ \A f \in Futures : FutureFits(f, future, objects)
           /\ \A t \in Threads : RingsFit(t, alive, events, latched)
           /\ \A t \in Threads, i \in Slots : PairFits(t, i, latched, objects)
           /\ Keeps(KeptIn(future, events, latched), future, events, latched)
           /\ Owned(KeptIn(future, events, latched), objects)
  BY SomethingKeeps DEF FitNow, Fit, Typed, AllRingsFit

\* The futures other than f, when f is free and nothing of them changes.
LEMMA OthersAside ==
    ASSUME FitNow, NEW f \in Futures, NEW fu2, NEW C,
           \A g \in Futures : f \notin future[g].upstream,
           \A g \in Futures : g # f => fu2[g] = future[g],
           \A g \in Futures : g # f =>
              SyncOf(g) \notin C /\ LatchOf(g) \notin C /\ InnerOf(g) \notin C
    PROVE  OthersSame(C, {f}, future, fu2)
  BY DEF OthersSame

\* A future that gets a new descriptor of some kind and nothing else.
LEMMA NewPlain ==
    ASSUME FitNow, NEW f \in Futures, Free(f), Room(1),
           NEW kind \in {"event", "timer"}, NEW type \in {"CUSTOM", "TIMER_ONCE"},
           NEW d, d = NewFd(objects), NEW objs2, objs2 = Open(objects, d, kind),
           NEW fu2, fu2 = [future EXCEPT ![f] = PlainOf(type, d)]
    PROVE  Fit(objs2, alive, events, latched, fu2)
<1> DEFINE K == KeptIn(future, events, latched)
           K2 == KeptIn(fu2, events, latched)
           C == {SyncOf(f)}
<1>1. Keeps(K, future, events, latched) /\ Keeps(K2, fu2, events, latched) /\ Owned(K, objects)
  BY FitParts, SomethingKeeps
<1> HIDE DEF K, K2
<1>2. d \in Fds /\ objects[d].kind = "closed"
  <2>1. {e \in Fds : objects[e].kind = "closed"} # {}
    BY ClosedLeft DEF Room
  <2>2. QED
    BY <2>1, NewFdClosed
<1>3. /\ objs2 \in [Fds -> Objects] /\ objs2[d].kind = kind
      /\ \A e \in Fds : e # d => objs2[e] = objects[e]
  BY <1>2, FitParts, OpenEffect
<1>4. /\ fu2 \in [Futures -> FutureRecords]
      /\ fu2[f].sync = d /\ fu2[f].latch = FD_INVALID /\ fu2[f].inner = FD_INVALID
      /\ \A g \in Futures : g # f => fu2[g] = future[g]
      /\ FutureFits(f, fu2, objs2)
  <2>1. future \in [Futures -> FutureRecords]
    BY FitParts
  <2>2. /\ PlainOf(type, d) \in FutureRecords /\ PlainOf(type, d).sync = d
        /\ PlainOf(type, d).latch = FD_INVALID /\ PlainOf(type, d).inner = FD_INVALID
    BY <1>2, PlainRecord
  <2>3. /\ fu2 \in [Futures -> FutureRecords] /\ fu2[f] = PlainOf(type, d)
        /\ \A g \in Futures : g # f => fu2[g] = future[g]
    BY <2>1, <2>2
  <2>4. FutureFits(f, fu2, objs2)
    BY <1>2, <2>3, PlainFits
  <2>5. QED
    BY <2>2, <2>3, <2>4
<1>5. future[f] = NoFuture /\ \A g \in Futures : f \notin future[g].upstream
  BY FreeFuture DEF FitNow, Free
<1>6. \A p \in AllPlaces \ C : K2[p] = K[p]
  <2>1. FieldsSame(C, future, fu2)
    BY <1>4, <1>5, NoFutureRecord DEF FieldsSame
  <2> HIDE DEF C
  <2>2. EventsSame(C, events, events) /\ LatchedSame(C, latched, latched)
    BY AllSame
  <2>3. QED
    BY <1>1, <2>1, <2>2, Frame
<1>7. SyncOf(f) \in AllPlaces /\ K[SyncOf(f)] = FD_INVALID /\ K2[SyncOf(f)] = d
  BY <1>1, <1>4, <1>5, ArePlaces, NoFutureRecord DEF Keeps
<1>8. Owned(K2, objs2)
  BY <1>1, <1>2, <1>3, <1>6, <1>7, Opened
<1>9. Aside(C, {}, K, objects, K2, objs2)
  <2>1. ASSUME NEW p \in AllPlaces \ C, K[p] # FD_INVALID
        PROVE  objs2[K[p]] = objects[K[p]]
    BY <1>1, <1>2, <1>3, <2>1 DEF Owned
  <2>2. QED
    BY <1>6, <1>7, <2>1 DEF Aside
<1>10. \A g \in Futures : g # f =>
          SyncOf(g) \notin C /\ LatchOf(g) \notin C /\ InnerOf(g) \notin C
  BY FuturesDiffer
<1>11. PairsFit(C, latched, objs2)
  BY KindsDiffer DEF PairsFit
<1>12. FuturesFit({f}, fu2, objs2)
  BY <1>4 DEF FuturesFit
<1> HIDE DEF C
<1>13. OthersSame(C, {f}, future, fu2)
  BY <1>4, <1>5, <1>10, OthersAside
<1>14. Typed(objs2, alive, events, latched, fu2) /\ AllRingsFit(alive, events, latched)
  BY <1>3, <1>4, FitParts DEF Typed, AllRingsFit
<1>15. QED
  BY <1>1, <1>8, <1>9, <1>11, <1>12, <1>13, <1>14, StepFits DEF FitNow

LEMMA AllocateTimerOnceFits ==
    ASSUME FitNow, NEW t \in Threads, NEW f \in Futures, AllocateTimerOnce(t, f)
    PROVE  FitNow'
<1>1. Fit(objects', alive, events, latched, future')
  BY NewPlain DEF AllocateTimerOnce, PlainOf
<1>2. QED
  BY <1>1 DEF AllocateTimerOnce, FitNow, caches

\* A future that gets the latest event of its thread's cache.
LEMMA CachedEvent ==
    ASSUME FitNow, NEW t \in Threads, t \in alive, NEW f \in Futures, Free(f),
           NEW d, d = LatestOf(events[t]), d # FD_INVALID,
           NEW ev2, ev2 = [events EXCEPT ![t] = TakeLatest(events[t])],
           NEW fu2, fu2 = [future EXCEPT ![f] = PlainOf("CUSTOM", d)]
    PROVE  Fit(objects, alive, ev2, latched, fu2)
<1> DEFINE K == KeptIn(future, events, latched)
           K2 == KeptIn(fu2, ev2, latched)
           l == events[t].latest
           C == {SyncOf(f), EventIn(t, l)}
<1>1. Keeps(K, future, events, latched) /\ Keeps(K2, fu2, ev2, latched) /\ Owned(K, objects)
  BY FitParts, SomethingKeeps
<1>2. /\ events \in [Threads -> Rings] /\ events[t] \in Rings /\ l \in Slots
      /\ d = events[t].entries[l]
  BY FitParts DEF LatestOf, Rings
<1> HIDE DEF K, K2, l
<1>3. RingsFit(t, alive, events, latched) /\ RingShape(events[t].entries, events[t].latest)
  BY FitParts DEF RingsFit
<1>4. /\ ev2 \in [Threads -> Rings] /\ ev2[t].entries[l] = FD_INVALID
      /\ \A i \in Slots : i # l => ev2[t].entries[i] = events[t].entries[i]
      /\ RingShape(ev2[t].entries, ev2[t].latest)
      /\ \A s \in Threads : s # t => ev2[s] = events[s]
  <2>1. PICK r2 : r2 = TakeLatest(events[t])
    OBVIOUS
  <2>2. /\ r2 \in Rings /\ r2.entries[l] = FD_INVALID
        /\ \A i \in Slots : i # l => r2.entries[i] = events[t].entries[i]
        /\ RingShape(r2.entries, r2.latest)
    BY <1>2, <1>3, <2>1, TakeEffect DEF l
  <2>3. ev2 = [events EXCEPT ![t] = r2]
    BY <2>1
  <2>4. QED
    BY <1>2, <2>2, <2>3
<1>5. /\ SyncOf(f) \in AllPlaces /\ EventIn(t, l) \in AllPlaces /\ SyncOf(f) # EventIn(t, l)
      /\ K[EventIn(t, l)] = d /\ K2[EventIn(t, l)] = FD_INVALID
  <2>1. K[EventIn(t, l)] = events[t].entries[l] /\ K2[EventIn(t, l)] = ev2[t].entries[l]
    BY <1>1, <1>2 DEF Keeps
  <2>2. QED
    BY <1>2, <1>4, <2>1, ArePlaces, KindsDiffer
<1>6. d \in Fds
  BY <1>1, <1>5 DEF Owned
<1>7. /\ fu2 \in [Futures -> FutureRecords]
      /\ fu2[f].sync = d /\ fu2[f].latch = FD_INVALID /\ fu2[f].inner = FD_INVALID
      /\ \A g \in Futures : g # f => fu2[g] = future[g]
      /\ FutureFits(f, fu2, objects)
  <2>1. future \in [Futures -> FutureRecords]
    BY FitParts
  <2>2. /\ PlainOf("CUSTOM", d) \in FutureRecords /\ PlainOf("CUSTOM", d).sync = d
        /\ PlainOf("CUSTOM", d).latch = FD_INVALID /\ PlainOf("CUSTOM", d).inner = FD_INVALID
    BY <1>6, PlainRecord
  <2>3. /\ fu2 \in [Futures -> FutureRecords] /\ fu2[f] = PlainOf("CUSTOM", d)
        /\ \A g \in Futures : g # f => fu2[g] = future[g]
    BY <2>1, <2>2
  <2>4. FutureFits(f, fu2, objects)
    BY <1>6, <2>3, PlainFits
  <2>5. QED
    BY <2>2, <2>3, <2>4
<1>8. future[f] = NoFuture /\ \A g \in Futures : f \notin future[g].upstream
  BY FreeFuture DEF FitNow, Free
<1>9. K[SyncOf(f)] = FD_INVALID /\ K2[SyncOf(f)] = d
  BY <1>1, <1>7, <1>8, NoFutureRecord DEF Keeps
<1>10. \A p \in AllPlaces \ C : K2[p] = K[p]
  <2>1. FieldsSame(C, future, fu2)
    BY <1>7, <1>8, NoFutureRecord DEF FieldsSame
  <2>2. EventsSame(C, events, ev2)
    BY <1>4, CachesDiffer DEF EventsSame
  <2> HIDE DEF C
  <2>3. LatchedSame(C, latched, latched)
    BY AllSame
  <2>4. QED
    BY <1>1, <2>1, <2>2, <2>3, Frame
<1>11. Owned(K2, objects)
  BY <1>1, <1>5, <1>9, <1>10, Moved
<1>12. Aside(C, {}, K, objects, K2, objects)
  <2>1. \A p \in AllPlaces : K[p] # FD_INVALID =>
           objects[K[p]].watched = objects[K[p]].watched \ {}
    OBVIOUS
  <2>2. QED
    BY <1>5, <1>10, <2>1 DEF Aside
<1>13. \A g \in Futures : g # f =>
          SyncOf(g) \notin C /\ LatchOf(g) \notin C /\ InnerOf(g) \notin C
  BY FuturesDiffer, KindsDiffer
<1>14. PairsFit(C, latched, objects)
  BY KindsDiffer, CachesDiffer DEF PairsFit
<1>15. FuturesFit({f}, fu2, objects)
  BY <1>7 DEF FuturesFit
<1> HIDE DEF C
<1>16. OthersSame(C, {f}, future, fu2)
  BY <1>7, <1>8, <1>13, OthersAside
<1>17. AllRingsFit(alive, ev2, latched)
  <2>1. ASSUME NEW s \in Threads
        PROVE  RingsFit(s, alive, ev2, latched)
    <3>1. RingsFit(s, alive, events, latched)
      BY FitParts
    <3>2. CASE s = t
      BY <1>4, <3>1, <3>2 DEF RingsFit
    <3>3. CASE s # t
      BY <1>4, <3>1, <3>3 DEF RingsFit
    <3>4. QED
      BY <3>2, <3>3
  <2>2. QED
    BY <2>1 DEF AllRingsFit
<1>18. Typed(objects, alive, ev2, latched, fu2)
  BY <1>4, <1>7, FitParts DEF Typed
<1>19. QED
  BY <1>1, <1>11, <1>12, <1>14, <1>15, <1>16, <1>17, <1>18, StepFits DEF FitNow

LEMMA AllocateCustomFits ==
    ASSUME FitNow, NEW t \in Threads, NEW f \in Futures, AllocateCustom(t, f)
    PROVE  FitNow'
<1>1. t \in alive /\ Free(f) /\ alive' = alive /\ latched' = latched
  BY DEF AllocateCustom
<1>2. CASE LatestOf(events[t]) = FD_INVALID
  <2>1. /\ Room(1) /\ objects' = Open(objects, NewFd(objects), "event")
        /\ events' = [events EXCEPT ![t] = events[t]]
        /\ future' = [future EXCEPT ![f] = PlainOf("CUSTOM", NewFd(objects))]
    BY <1>2 DEF AllocateCustom, event_cache_allocate, PlainOf
  <2>2. events' = events
    BY <2>1, FitParts
  <2>3. Fit(objects', alive, events, latched, future')
    BY <1>1, <2>1, NewPlain
  <2>4. QED
    BY <1>1, <2>2, <2>3 DEF FitNow
<1>3. CASE LatestOf(events[t]) # FD_INVALID
  <2>1. /\ objects' = objects
        /\ events' = [events EXCEPT ![t] = TakeLatest(events[t])]
        /\ future' = [future EXCEPT ![f] = PlainOf("CUSTOM", LatestOf(events[t]))]
    BY <1>3 DEF AllocateCustom, event_cache_allocate, PlainOf
  <2>2. Fit(objects, alive, events', latched, future')
    BY <1>1, <1>3, <2>1, CachedEvent
  <2>3. QED
    BY <1>1, <2>1, <2>2 DEF FitNow
<1>4. QED
  BY <1>2, <1>3

\* What close() does to the objects that are kept outside of C.
LEMMA CloseAside ==
    ASSUME NEW K, NEW K2, NEW objs, NEW o1 \in [Fds -> Objects], Owned(K, objs),
           NEW C, C \subseteq AllPlaces, NEW P, P \subseteq C,
           NEW closed, closed = {K[p] : p \in P} \ {FD_INVALID},
           \A p \in AllPlaces \ C : K2[p] = K[p],
           \A p \in AllPlaces \ C : K[p] # FD_INVALID => o1[K[p]] = objs[K[p]],
           NEW objs2, objs2 = Close(o1, closed)
    PROVE  Aside(C, closed, K, objs, K2, objs2)
<1>1. closed \subseteq Fds /\ \A d \in closed : \E q \in C : K[q] = d
  BY DEF Owned
<1>2. ASSUME NEW p \in AllPlaces \ C, K[p] # FD_INVALID
      PROVE  /\ objs2[K[p]].kind = objs[K[p]].kind
             /\ objs2[K[p]].watched = objs[K[p]].watched \ closed
  <2>1. K[p] \in Fds /\ K[p] \notin closed
    BY <1>2 DEF Owned
  <2>2. /\ objs2[K[p]].kind = o1[K[p]].kind
        /\ objs2[K[p]].watched = o1[K[p]].watched \ closed
    BY <2>1, CloseEffect
  <2>3. QED
    BY <1>2, <2>2
<1>3. QED
  BY <1>1, <1>2 DEF Aside

\* What a liberation does to the record of the future.
LEMMA Forgets ==
    ASSUME FitNow, NEW f \in Futures, NEW fu2, fu2 = [future EXCEPT ![f] = NoFuture]
    PROVE  /\ fu2 \in [Futures -> FutureRecords]
           /\ fu2[f].sync = FD_INVALID /\ fu2[f].latch = FD_INVALID
           /\ fu2[f].inner = FD_INVALID
           /\ \A g \in Futures : g # f => fu2[g] = future[g]
           /\ \A objs : FuturesFit({f}, fu2, objs)
<1>1. future \in [Futures -> FutureRecords]
  BY FitParts
<1>2. /\ fu2 \in [Futures -> FutureRecords] /\ fu2[f] = NoFuture
      /\ \A g \in Futures : g # f => fu2[g] = future[g]
  BY <1>1, NoFutureRecord
<1>3. \A objs : FutureFits(f, fu2, objs)
  BY <1>2, GoneFits
<1>4. QED
  BY <1>2, <1>3, NoFutureRecord DEF FuturesFit

LEMMA LiberateTimerOnceFits ==
    ASSUME FitNow, NEW t \in Threads, NEW f \in Futures, LiberateTimerOnce(t, f)
    PROVE  FitNow'
<1> DEFINE K == KeptIn(future, events, latched)
           K2 == KeptIn(future', events, latched)
           C == {SyncOf(f)}
           closed == {future[f].sync}
<1>1. /\ \A g \in Futures : f \notin future[g].upstream
      /\ future[f].type = "TIMER_ONCE" /\ objects' = Close(objects, closed)
      /\ future' = [future EXCEPT ![f] = NoFuture]
      /\ alive' = alive /\ events' = events /\ latched' = latched
  BY DEF LiberateTimerOnce, MayLiberate, caches
<1>2. Keeps(K, future, events, latched) /\ Keeps(K2, future', events, latched) /\ Owned(K, objects)
  BY FitParts, SomethingKeeps
<1> HIDE DEF K, K2
<1>3. /\ future' \in [Futures -> FutureRecords]
      /\ future'[f].sync = FD_INVALID /\ future'[f].latch = FD_INVALID
      /\ future'[f].inner = FD_INVALID
      /\ \A g \in Futures : g # f => future'[g] = future[g]
      /\ FuturesFit({f}, future', objects')
  BY <1>1, Forgets
<1>4. /\ future[f].sync \in Fds /\ future[f].latch = FD_INVALID
      /\ future[f].inner = FD_INVALID
  BY <1>1, FitParts DEF FutureFits
<1>5. SyncOf(f) \in AllPlaces /\ K[SyncOf(f)] = future[f].sync /\ K2[SyncOf(f)] = FD_INVALID
  BY <1>2, <1>3, ArePlaces DEF Keeps
<1>6. \A p \in AllPlaces \ C : K2[p] = K[p]
  <2>1. FieldsSame(C, future, future')
    BY <1>3, <1>4 DEF FieldsSame
  <2> HIDE DEF C
  <2>2. EventsSame(C, events, events) /\ LatchedSame(C, latched, latched)
    BY AllSame
  <2>3. QED
    BY <1>2, <2>1, <2>2, Frame
<1>7. closed = {K[p] : p \in C} \ {FD_INVALID} /\ C \subseteq AllPlaces
  BY <1>4, <1>5, Capacity
<1>8. /\ objects' \in [Fds -> Objects]
      /\ KindsClosed(closed, objects, objects')
  BY <1>1, FitParts, CloseEffect DEF KindsClosed
<1>9. Emptied(C, K, K2)
  BY <1>5, <1>6, <1>7 DEF Emptied
<1>10. PairsFit(C, latched, objects')
  BY KindsDiffer DEF PairsFit
<1>11. \A g \in Futures : g # f =>
          SyncOf(g) \notin C /\ LatchOf(g) \notin C /\ InnerOf(g) \notin C
  BY FuturesDiffer
<1> HIDE DEF C, closed
<1>12. Owned(K2, objects')
  BY <1>2, <1>7, <1>8, <1>9, Dropped
<1>13. Aside(C, closed, K, objects, K2, objects')
  BY <1>1, <1>2, <1>6, <1>7, FitParts, CloseAside
<1>14. OthersSame(C, {f}, future, future')
  BY <1>1, <1>3, <1>11, OthersAside
<1>15. Typed(objects', alive, events, latched, future') /\ AllRingsFit(alive, events, latched)
  BY <1>3, <1>8, FitParts DEF Typed, AllRingsFit
<1>16. Fit(objects', alive, events, latched, future')
  BY <1>2, <1>3, <1>10, <1>12, <1>13, <1>14, <1>15, StepFits DEF FitNow
<1>17. QED
  BY <1>1, <1>16 DEF FitNow

\* The events of thread t once its cache got d, in entry n.
Recycled(t, n, d, ev2) ==
    /\ n \in Slots /\ ev2 \in [Threads -> Rings] /\ ev2[t].entries[n] = d
    /\ \A i \in Slots : i # n => ev2[t].entries[i] = events[t].entries[i]
    /\ \A s \in Threads : s # t => ev2[s] = events[s]
    /\ AllRingsFit(alive, ev2, latched)
    /\ Evicted(events[t]) = {events[t].entries[n]} \ {FD_INVALID}

LEMMA EventRecycled ==
    ASSUME FitNow, NEW t \in Threads, t \in alive, NEW d \in Fds, NEW ev2,
           ev2 = [events EXCEPT ![t] = event_cache_liberate(events[t], d)]
    PROVE  Recycled(t, After(events[t].latest), d, ev2)
<1> DEFINE n == After(events[t].latest)
<1> HIDE DEF n
<1>1. events \in [Threads -> Rings] /\ events[t] \in Rings
  BY FitParts
<1>2. RingShape(events[t].entries, events[t].latest)
  BY FitParts DEF RingsFit
<1>3. PICK r2 : r2 = event_cache_liberate(events[t], d)
  OBVIOUS
<1>4. /\ n \in Slots /\ r2 \in Rings /\ r2.entries[n] = d
      /\ \A i \in Slots : i # n => r2.entries[i] = events[t].entries[i]
      /\ RingShape(r2.entries, r2.latest)
      /\ Evicted(events[t]) = {events[t].entries[n]} \ {FD_INVALID}
  BY <1>1, <1>2, <1>3, AddEffect DEF n
<1>5. ev2 = [events EXCEPT ![t] = r2]
  BY <1>3
<1>6. ev2 \in [Threads -> Rings] /\ ev2[t] = r2 /\ \A s \in Threads : s # t => ev2[s] = events[s]
  BY <1>1, <1>4, <1>5
<1>7. AllRingsFit(alive, ev2, latched)
  <2>1. ASSUME NEW s \in Threads
        PROVE  RingsFit(s, alive, ev2, latched)
    <3>1. RingsFit(s, alive, events, latched)
      BY FitParts
    <3>2. CASE s = t
      BY <1>4, <1>6, <3>1, <3>2 DEF RingsFit
    <3>3. CASE s # t
      BY <1>6, <3>1, <3>3 DEF RingsFit
    <3>4. QED
      BY <3>2, <3>3
  <2>2. QED
    BY <2>1 DEF AllRingsFit
<1>8. QED
  BY <1>4, <1>6, <1>7 DEF Recycled, n

LEMMA LiberateCustomFits ==
    ASSUME FitNow, NEW t \in Threads, NEW f \in Futures, LiberateCustom(t, f)
    PROVE  FitNow'
<1> DEFINE K == KeptIn(future, events, latched)
           K2 == KeptIn(future', events', latched)
           n == After(events[t].latest)
           P == {EventIn(t, n)}
           C == {SyncOf(f), EventIn(t, n)}
           K1 == [r \in AllPlaces |-> IF r \in P THEN FD_INVALID ELSE K[r]]
           closed == Evicted(events[t])
           d == future[f].sync
<1>1. /\ \A g \in Futures : f \notin future[g].upstream
      /\ t \in alive /\ future[f].type = "CUSTOM" /\ objects' = Close(objects, closed)
      /\ future' = [future EXCEPT ![f] = NoFuture]
      /\ events' = [events EXCEPT ![t] = event_cache_liberate(events[t], d)]
      /\ alive' = alive /\ latched' = latched
  BY DEF LiberateCustom, MayLiberate
<1>2. Keeps(K, future, events, latched) /\ Keeps(K2, future', events', latched) /\ Owned(K, objects)
  BY FitParts, SomethingKeeps
<1> HIDE DEF K, K2
<1>3. /\ future' \in [Futures -> FutureRecords]
      /\ future'[f].sync = FD_INVALID /\ future'[f].latch = FD_INVALID
      /\ future'[f].inner = FD_INVALID
      /\ \A g \in Futures : g # f => future'[g] = future[g]
      /\ FuturesFit({f}, future', objects')
  BY <1>1, Forgets
<1>4. d \in Fds /\ future[f].latch = FD_INVALID /\ future[f].inner = FD_INVALID
  BY <1>1, FitParts DEF FutureFits
<1> HIDE DEF n
<1>5. /\ n \in Slots /\ events' \in [Threads -> Rings] /\ events'[t].entries[n] = d
      /\ \A i \in Slots : i # n => events'[t].entries[i] = events[t].entries[i]
      /\ \A s \in Threads : s # t => events'[s] = events[s]
      /\ AllRingsFit(alive, events', latched)
      /\ closed = {events[t].entries[n]} \ {FD_INVALID}
  <2>1. Recycled(t, n, d, events')
    BY <1>1, <1>4, EventRecycled DEF n
  <2>2. QED
    BY <2>1 DEF Recycled
<1>6. /\ SyncOf(f) \in AllPlaces /\ EventIn(t, n) \in AllPlaces /\ SyncOf(f) # EventIn(t, n)
      /\ K[SyncOf(f)] = d /\ K2[SyncOf(f)] = FD_INVALID
      /\ K[EventIn(t, n)] = events[t].entries[n] /\ K2[EventIn(t, n)] = d
  <2>1. /\ K[EventIn(t, n)] = events[t].entries[n] /\ K2[EventIn(t, n)] = events'[t].entries[n]
        /\ K[SyncOf(f)] = future[f].sync /\ K2[SyncOf(f)] = future'[f].sync
    BY <1>2, <1>5 DEF Keeps
  <2>2. QED
    BY <1>3, <1>5, <2>1, ArePlaces, KindsDiffer
<1>7. \A p \in AllPlaces \ C : K2[p] = K[p]
  <2>1. FieldsSame(C, future, future')
    BY <1>3, <1>4 DEF FieldsSame
  <2>2. EventsSame(C, events, events')
    BY <1>5, CachesDiffer DEF EventsSame
  <2> HIDE DEF C
  <2>3. LatchedSame(C, latched, latched)
    BY AllSame
  <2>4. QED
    BY <1>2, <2>1, <2>2, <2>3, Frame
<1>8. closed = {K[p] : p \in P} \ {FD_INVALID}
  BY <1>5, <1>6
<1>9. objects' \in [Fds -> Objects] /\ KindsClosed(closed, objects, objects')
  BY <1>1, FitParts, CloseEffect DEF KindsClosed
<1>10. Emptied(P, K, K1)
  BY <1>6 DEF Emptied
<1>11. /\ K1[EventIn(t, n)] = FD_INVALID /\ K1[SyncOf(f)] = d
       /\ \A r \in AllPlaces \ {SyncOf(f), EventIn(t, n)} : K2[r] = K1[r]
  BY <1>6, <1>7
<1>12. PairsFit(C, latched, objects')
  BY KindsDiffer, CachesDiffer DEF PairsFit
<1>13. \A g \in Futures : g # f =>
          SyncOf(g) \notin C /\ LatchOf(g) \notin C /\ InnerOf(g) \notin C
  BY FuturesDiffer, KindsDiffer
<1>14. P \subseteq C /\ C \subseteq AllPlaces
  BY <1>6
<1> HIDE DEF C, P, K1, closed, d
<1>15. Owned(K1, objects')
  BY <1>2, <1>8, <1>9, <1>10, Dropped
<1>16. Owned(K2, objects')
  BY <1>6, <1>11, <1>15, Moved
<1>17. Aside(C, closed, K, objects, K2, objects')
  BY <1>1, <1>2, <1>7, <1>8, <1>14, FitParts, CloseAside
<1>18. OthersSame(C, {f}, future, future')
  BY <1>1, <1>3, <1>13, OthersAside
<1>19. Typed(objects', alive, events', latched, future')
  BY <1>3, <1>5, <1>9, FitParts DEF Typed
<1>20. Fit(objects', alive, events', latched, future')
  BY <1>2, <1>3, <1>5, <1>12, <1>16, <1>17, <1>18, <1>19, StepFits DEF FitNow
<1>21. QED
  BY <1>1, <1>20 DEF FitNow

\* close() after inpoll_detach(): what it does to kinds and to objects that
\* are kept elsewhere.
LEMMA DetachClose ==
    ASSUME NEW objs \in [Fds -> Objects], NEW poll \in Fds, NEW e, NEW closed,
           NEW o1, o1 = inpoll_detach(objs, poll, e), NEW o2, o2 = Close(o1, closed)
    PROVE  /\ o1 \in [Fds -> Objects] /\ o2 \in [Fds -> Objects]
           /\ KindsClosed(closed, objs, o2)
           /\ \A d \in Fds : d # poll => o1[d] = objs[d]
           /\ poll \notin closed => o2[poll].watched = (objs[poll].watched \ {e}) \ closed
<1>1. /\ o1 \in [Fds -> Objects]
      /\ o1[poll].kind = objs[poll].kind
      /\ o1[poll].watched = objs[poll].watched \ {e}
      /\ \A d \in Fds : d # poll => o1[d] = objs[d]
  BY DetachEffect
<1>2. /\ o2 \in [Fds -> Objects]
      /\ \A d \in Fds : d \in closed => o2[d].kind = "closed"
      /\ \A d \in Fds : d \notin closed => /\ o2[d].kind = o1[d].kind
                                           /\ o2[d].watched = o1[d].watched \ closed
  BY <1>1, CloseEffect
<1>3. KindsClosed(closed, objs, o2)
  BY <1>1, <1>2 DEF KindsClosed
<1>4. QED
  BY <1>1, <1>2, <1>3

LEMMA LiberateJoinFits ==
    ASSUME FitNow, NEW t \in Threads, NEW f \in Futures, LiberateJoin(t, f)
    PROVE  FitNow'
<1> DEFINE K == KeptIn(future, events, latched)
           K2 == KeptIn(future', events', latched)
           n == After(events[t].latest)
           P == {EventIn(t, n), SyncOf(f)}
           C == {SyncOf(f), LatchOf(f), EventIn(t, n)}
           K1 == [r \in AllPlaces |-> IF r \in P THEN FD_INVALID ELSE K[r]]
           closed == Evicted(events[t]) \cup {future[f].sync}
           d == future[f].latch
           o1 == inpoll_detach(objects, future[f].sync, d)
<1>1. /\ \A g \in Futures : f \notin future[g].upstream
      /\ t \in alive /\ future[f].type = "JOIN" /\ objects' = Close(o1, closed)
      /\ future' = [future EXCEPT ![f] = NoFuture]
      /\ events' = [events EXCEPT ![t] = event_cache_liberate(events[t], d)]
      /\ alive' = alive /\ latched' = latched
  BY DEF LiberateJoin, MayLiberate
<1>2. Keeps(K, future, events, latched) /\ Keeps(K2, future', events', latched) /\ Owned(K, objects)
  BY FitParts, SomethingKeeps
<1> HIDE DEF K, K2
<1>3. /\ future' \in [Futures -> FutureRecords]
      /\ future'[f].sync = FD_INVALID /\ future'[f].latch = FD_INVALID
      /\ future'[f].inner = FD_INVALID
      /\ \A g \in Futures : g # f => future'[g] = future[g]
      /\ FuturesFit({f}, future', objects')
  BY <1>1, Forgets
<1>4. d \in Fds /\ future[f].sync \in Fds /\ future[f].inner = FD_INVALID
  BY <1>1, FitParts DEF FutureFits, Latched, Collective
<1> HIDE DEF n
<1>5. /\ n \in Slots /\ events' \in [Threads -> Rings] /\ events'[t].entries[n] = d
      /\ \A i \in Slots : i # n => events'[t].entries[i] = events[t].entries[i]
      /\ \A s \in Threads : s # t => events'[s] = events[s]
      /\ AllRingsFit(alive, events', latched)
      /\ Evicted(events[t]) = {events[t].entries[n]} \ {FD_INVALID}
  <2>1. Recycled(t, n, d, events')
    BY <1>1, <1>4, EventRecycled DEF n
  <2>2. QED
    BY <2>1 DEF Recycled
<1>6. /\ SyncOf(f) \in AllPlaces /\ EventIn(t, n) \in AllPlaces /\ LatchOf(f) \in AllPlaces
      /\ SyncOf(f) # EventIn(t, n) /\ LatchOf(f) # EventIn(t, n) /\ LatchOf(f) # SyncOf(f)
      /\ K[SyncOf(f)] = future[f].sync /\ K2[SyncOf(f)] = FD_INVALID
      /\ K[LatchOf(f)] = d /\ K2[LatchOf(f)] = FD_INVALID
      /\ K[EventIn(t, n)] = events[t].entries[n] /\ K2[EventIn(t, n)] = d
  <2>1. /\ K[EventIn(t, n)] = events[t].entries[n] /\ K2[EventIn(t, n)] = events'[t].entries[n]
        /\ K[SyncOf(f)] = future[f].sync /\ K2[SyncOf(f)] = future'[f].sync
        /\ K[LatchOf(f)] = future[f].latch /\ K2[LatchOf(f)] = future'[f].latch
    BY <1>2, <1>5 DEF Keeps
  <2>2. QED
    BY <1>3, <1>5, <2>1, ArePlaces, KindsDiffer, FuturesDiffer
<1>7. \A p \in AllPlaces \ C : K2[p] = K[p]
  <2>1. FieldsSame(C, future, future')
    BY <1>3, <1>4 DEF FieldsSame
  <2>2. EventsSame(C, events, events')
    BY <1>5, CachesDiffer DEF EventsSame
  <2> HIDE DEF C
  <2>3. LatchedSame(C, latched, latched)
    BY AllSame
  <2>4. QED
    BY <1>2, <2>1, <2>2, <2>3, Frame
<1>8. closed = {K[p] : p \in P} \ {FD_INVALID}
  <2>1. future[f].sync # FD_INVALID
    BY <1>4, Capacity
  <2>2. QED
    BY <1>5, <1>6, <2>1
<1>9. /\ objects' \in [Fds -> Objects] /\ KindsClosed(closed, objects, objects')
      /\ o1 \in [Fds -> Objects]
      /\ \A e \in Fds : e # future[f].sync => o1[e] = objects[e]
  <2>1. objects \in [Fds -> Objects]
    BY FitParts
  <2> HIDE DEF closed, d
  <2>2. QED
    BY <1>1, <1>4, <2>1, DetachClose
<1>10. Emptied(P, K, K1)
  BY <1>6 DEF Emptied
<1>11. /\ K1[EventIn(t, n)] = FD_INVALID /\ K1[LatchOf(f)] = d
       /\ \A r \in AllPlaces \ {LatchOf(f), EventIn(t, n)} : K2[r] = K1[r]
  BY <1>6, <1>7
<1>12. PairsFit(C, latched, objects')
  BY KindsDiffer, CachesDiffer DEF PairsFit
<1>13. \A g \in Futures : g # f =>
          SyncOf(g) \notin C /\ LatchOf(g) \notin C /\ InnerOf(g) \notin C
  BY FuturesDiffer, KindsDiffer
<1>14. P \subseteq C /\ C \subseteq AllPlaces /\ SyncOf(f) \in C
  BY <1>6
<1> HIDE DEF C, P, K1, closed, d, o1
<1>15. Owned(K1, objects')
  BY <1>2, <1>8, <1>9, <1>10, Dropped
<1>16. Owned(K2, objects')
  BY <1>6, <1>11, <1>15, Moved
<1>17. Aside(C, closed, K, objects, K2, objects')
  <2>1. ASSUME NEW p \in AllPlaces \ C, K[p] # FD_INVALID
        PROVE  o1[K[p]] = objects[K[p]]
    BY <1>2, <1>6, <1>9, <1>14, <2>1 DEF Owned
  <2>2. QED
    BY <1>1, <1>2, <1>7, <1>8, <1>9, <1>14, <2>1, CloseAside
<1>18. OthersSame(C, {f}, future, future')
  BY <1>1, <1>3, <1>13, OthersAside
<1>19. Typed(objects', alive, events', latched, future')
  BY <1>3, <1>5, <1>9, FitParts DEF Typed
<1>20. Fit(objects', alive, events', latched, future')
  BY <1>2, <1>3, <1>5, <1>12, <1>16, <1>17, <1>18, <1>19, StepFits DEF FitNow
<1>21. QED
  BY <1>1, <1>20 DEF FitNow

\* The pairs of thread t once its cache got an inpoll and a latch, in entry n.
PairRecycled(t, n, inpoll, latch, la2) ==
    /\ n \in Slots /\ la2 \in [Threads -> Pairs]
    /\ la2[t].inpolls[n] = inpoll /\ la2[t].event_cache.entries[n] = latch
    /\ \A i \in Slots : i # n =>
          /\ la2[t].inpolls[i] = latched[t].inpolls[i]
          /\ la2[t].event_cache.entries[i] = latched[t].event_cache.entries[i]
    /\ \A s \in Threads : s # t => la2[s] = latched[s]
    /\ AllRingsFit(alive, events, la2)
    /\ EvictedPair(latched[t])
          = {latched[t].inpolls[n], latched[t].event_cache.entries[n]} \ {FD_INVALID}

LEMMA InpollRecycled ==
    ASSUME FitNow, NEW t \in Threads, t \in alive, NEW inpoll \in Fds, NEW latch \in Fds,
           NEW la2, la2 = [latched EXCEPT ![t] =
              latched_inpoll_cache_liberate(latched[t], inpoll, latch)]
    PROVE  PairRecycled(t, After(latched[t].event_cache.latest), inpoll, latch, la2)
<1> DEFINE n == After(latched[t].event_cache.latest)
<1> HIDE DEF n
<1>1. latched \in [Threads -> Pairs] /\ latched[t] \in Pairs
  BY FitParts
<1>2. RingShape(latched[t].event_cache.entries, latched[t].event_cache.latest)
  BY FitParts DEF RingsFit
<1>3. PICK c2 : c2 = latched_inpoll_cache_liberate(latched[t], inpoll, latch)
  OBVIOUS
<1>4. /\ n \in Slots /\ c2 \in Pairs
      /\ c2.inpolls[n] = inpoll /\ c2.event_cache.entries[n] = latch
      /\ \A i \in Slots : i # n =>
            /\ c2.inpolls[i] = latched[t].inpolls[i]
            /\ c2.event_cache.entries[i] = latched[t].event_cache.entries[i]
      /\ RingShape(c2.event_cache.entries, c2.event_cache.latest)
      /\ EvictedPair(latched[t])
            = {latched[t].inpolls[n], latched[t].event_cache.entries[n]} \ {FD_INVALID}
  BY <1>1, <1>2, <1>3, AddPairEffect DEF n
<1>5. la2 = [latched EXCEPT ![t] = c2]
  BY <1>3
<1>6. /\ la2 \in [Threads -> Pairs] /\ la2[t] = c2
      /\ \A s \in Threads : s # t => la2[s] = latched[s]
  BY <1>1, <1>4, <1>5
<1>7. AllRingsFit(alive, events, la2)
  <2>1. ASSUME NEW s \in Threads
        PROVE  RingsFit(s, alive, events, la2)
    <3>1. RingsFit(s, alive, events, latched)
      BY FitParts
    <3>2. CASE s = t
      BY <1>4, <1>6, <3>1, <3>2 DEF RingsFit
    <3>3. CASE s # t
      BY <1>6, <3>1, <3>3 DEF RingsFit
    <3>4. QED
      BY <3>2, <3>3
  <2>2. QED
    BY <2>1 DEF AllRingsFit
<1>8. QED
  BY <1>4, <1>6, <1>7 DEF PairRecycled, n

LEMMA LiberateChainedFits ==
    ASSUME FitNow, NEW t \in Threads, NEW f \in Futures, LiberateChained(t, f)
    PROVE  FitNow'
<1> DEFINE K == KeptIn(future, events, latched)
           K2 == KeptIn(future', events, latched')
           n == After(latched[t].event_cache.latest)
           P == {InpollIn(t, n), LatchIn(t, n), InnerOf(f)}
           C == {SyncOf(f), LatchOf(f), InnerOf(f), InpollIn(t, n), LatchIn(t, n)}
           K1 == [r \in AllPlaces |-> IF r \in P THEN FD_INVALID ELSE K[r]]
           KM == [r \in AllPlaces |-> IF r = SyncOf(f) THEN FD_INVALID
                                      ELSE IF r = InpollIn(t, n) THEN K1[SyncOf(f)] ELSE K1[r]]
           sync == future[f].sync
           latch == future[f].latch
           inner == future[f].inner
           closed == EvictedPair(latched[t]) \cup {inner}
           o1 == inpoll_detach(objects, sync, inner)
<1>1. /\ \A g \in Futures : f \notin future[g].upstream
      /\ t \in alive /\ future[f].type \in {"UNORDERED", "TIMER_REPEAT"}
      /\ objects' = Close(o1, closed)
      /\ future' = [future EXCEPT ![f] = NoFuture]
      /\ latched' = [latched EXCEPT ![t] =
            latched_inpoll_cache_liberate(latched[t], sync, latch)]
      /\ alive' = alive /\ events' = events
  BY DEF LiberateChained, MayLiberate
<1>2. Keeps(K, future, events, latched) /\ Keeps(K2, future', events, latched') /\ Owned(K, objects)
  BY FitParts, SomethingKeeps
<1> HIDE DEF K, K2
<1>3. /\ future' \in [Futures -> FutureRecords]
      /\ future'[f].sync = FD_INVALID /\ future'[f].latch = FD_INVALID
      /\ future'[f].inner = FD_INVALID
      /\ \A g \in Futures : g # f => future'[g] = future[g]
      /\ FuturesFit({f}, future', objects')
  BY <1>1, Forgets
<1>4. /\ sync \in Fds /\ latch \in Fds /\ inner \in Fds
      /\ objects[sync].kind = "inpoll" /\ objects[sync].watched = {latch, inner}
  <2>1. FutureFits(f, future, objects)
    BY FitParts
  <2>2. /\ future[f].type # "INVALID" /\ future[f].type \in Latched /\ future[f].type # "JOIN"
    BY <1>1 DEF Latched, Collective
  <2>3. /\ sync \in Fds /\ latch \in Fds /\ inner \in Fds /\ objects[sync].kind = "inpoll"
        /\ objects[sync].watched = {latch} \cup ({inner} \ {FD_INVALID}) \cup {}
    BY <1>1, <2>1, <2>2 DEF FutureFits
  <2>4. inner # FD_INVALID
    BY <2>3, Capacity
  <2>5. QED
    BY <2>3, <2>4
<1> HIDE DEF n
<1>5. PairRecycled(t, n, sync, latch, latched')
  BY <1>1, <1>4, InpollRecycled DEF n
<1>6. /\ SyncOf(f) \in AllPlaces /\ LatchOf(f) \in AllPlaces /\ InnerOf(f) \in AllPlaces
      /\ InpollIn(t, n) \in AllPlaces /\ LatchIn(t, n) \in AllPlaces
  BY <1>5, ArePlaces DEF PairRecycled
<1>7. /\ SyncOf(f) # LatchOf(f) /\ SyncOf(f) # InnerOf(f) /\ LatchOf(f) # InnerOf(f)
      /\ SyncOf(f) # InpollIn(t, n) /\ SyncOf(f) # LatchIn(t, n)
      /\ LatchOf(f) # InpollIn(t, n) /\ LatchOf(f) # LatchIn(t, n)
      /\ InnerOf(f) # InpollIn(t, n) /\ InnerOf(f) # LatchIn(t, n)
      /\ InpollIn(t, n) # LatchIn(t, n)
  BY FuturesDiffer, KindsDiffer, CachesDiffer
<1>8. /\ K[SyncOf(f)] = sync /\ K[LatchOf(f)] = latch /\ K[InnerOf(f)] = inner
      /\ K[InpollIn(t, n)] = latched[t].inpolls[n]
      /\ K[LatchIn(t, n)] = latched[t].event_cache.entries[n]
      /\ K2[SyncOf(f)] = FD_INVALID /\ K2[LatchOf(f)] = FD_INVALID
      /\ K2[InnerOf(f)] = FD_INVALID
      /\ K2[InpollIn(t, n)] = sync /\ K2[LatchIn(t, n)] = latch
  <2>1. n \in Slots /\ latched'[t].inpolls[n] = sync /\ latched'[t].event_cache.entries[n] = latch
    BY <1>5 DEF PairRecycled
  <2>2. /\ K2[InpollIn(t, n)] = latched'[t].inpolls[n]
        /\ K2[LatchIn(t, n)] = latched'[t].event_cache.entries[n]
        /\ K[InpollIn(t, n)] = latched[t].inpolls[n]
        /\ K[LatchIn(t, n)] = latched[t].event_cache.entries[n]
    BY <1>2, <2>1 DEF Keeps
  <2>3. /\ K[SyncOf(f)] = sync /\ K[LatchOf(f)] = latch /\ K[InnerOf(f)] = inner
        /\ K2[SyncOf(f)] = FD_INVALID /\ K2[LatchOf(f)] = FD_INVALID
        /\ K2[InnerOf(f)] = FD_INVALID
    BY <1>2, <1>3 DEF Keeps
  <2>4. QED
    BY <2>1, <2>2, <2>3
<1>9. \A p \in AllPlaces \ C : K2[p] = K[p]
  <2>1. FieldsSame(C, future, future')
    BY <1>3 DEF FieldsSame
  <2>2. LatchedSame(C, latched, latched')
    BY <1>5 DEF LatchedSame, PairRecycled
  <2> HIDE DEF C
  <2>3. EventsSame(C, events, events)
    BY AllSame
  <2>4. QED
    BY <1>2, <2>1, <2>2, <2>3, Frame
<1>10. closed = {K[p] : p \in P} \ {FD_INVALID}
  <2>1. inner # FD_INVALID
    BY <1>4, Capacity
  <2>2. closed = {K[InpollIn(t, n)], K[LatchIn(t, n)], K[InnerOf(f)]} \ {FD_INVALID}
    BY <1>5, <1>8, <2>1 DEF PairRecycled
  <2>3. {K[p] : p \in P} = {K[InpollIn(t, n)], K[LatchIn(t, n)], K[InnerOf(f)]}
    OBVIOUS
  <2>4. QED
    BY <2>2, <2>3
<1>11. /\ objects' \in [Fds -> Objects] /\ KindsClosed(closed, objects, objects')
       /\ o1 \in [Fds -> Objects] /\ \A e \in Fds : e # sync => o1[e] = objects[e]
       /\ sync \notin closed => objects'[sync].watched = (objects[sync].watched \ {inner}) \ closed
  <2>1. objects \in [Fds -> Objects]
    BY FitParts
  <2> HIDE DEF closed, sync, inner
  <2>2. QED
    BY <1>1, <1>4, <2>1, DetachClose
<1>12. Emptied(P, K, K1)
  BY <1>6 DEF Emptied
<1>13. /\ K1[InpollIn(t, n)] = FD_INVALID /\ K1[LatchIn(t, n)] = FD_INVALID
       /\ K1[SyncOf(f)] = sync /\ K1[LatchOf(f)] = latch /\ K1[InnerOf(f)] = FD_INVALID
       /\ \A r \in AllPlaces \ C : K1[r] = K[r]
  BY <1>6, <1>7, <1>8
<1>14. P \subseteq C /\ C \subseteq AllPlaces /\ SyncOf(f) \in C
  BY <1>6
<1>15. \A g \in Futures : g # f =>
          SyncOf(g) \notin C /\ LatchOf(g) \notin C /\ InnerOf(g) \notin C
  BY FuturesDiffer, KindsDiffer
<1>16. /\ KM[SyncOf(f)] = FD_INVALID /\ KM[InpollIn(t, n)] = sync
       /\ KM[LatchIn(t, n)] = FD_INVALID /\ KM[LatchOf(f)] = latch
       /\ \A r \in AllPlaces \ {SyncOf(f), InpollIn(t, n)} : KM[r] = K1[r]
       /\ \A r \in AllPlaces \ {LatchOf(f), LatchIn(t, n)} : K2[r] = KM[r]
  <2> HIDE DEF K1
  <2>1. \A r \in AllPlaces : KM[r] = IF r = SyncOf(f) THEN FD_INVALID
                                     ELSE IF r = InpollIn(t, n) THEN sync ELSE K1[r]
    BY <1>13
  <2>2. ASSUME NEW r \in AllPlaces \ {LatchOf(f), LatchIn(t, n)}
        PROVE  K2[r] = KM[r]
    <3>1. CASE r \in C
      BY <1>7, <1>8, <1>13, <2>1, <3>1
    <3>2. CASE r \notin C
      BY <1>9, <1>13, <2>1, <3>2
    <3>3. QED
      BY <3>1, <3>2
  <2>3. QED
    BY <1>6, <1>7, <1>13, <2>1, <2>2
<1>17. sync \notin closed /\ latch \notin closed /\ sync # FD_INVALID /\ latch # inner
  <2>1. sync # FD_INVALID /\ latch # FD_INVALID
    BY <1>4, Capacity
  <2>2. \A p \in P : K[p] # sync /\ K[p] # latch
    BY <1>2, <1>6, <1>7, <1>8, <2>1 DEF Owned
  <2>3. latch # inner
    BY <1>2, <1>6, <1>7, <1>8, <2>1 DEF Owned
  <2> HIDE DEF P, closed
  <2>4. QED
    BY <1>10, <2>1, <2>2, <2>3
<1> HIDE DEF P, K1, KM, closed, sync, latch, inner, o1
<1>18. Owned(K1, objects')
  BY <1>2, <1>10, <1>11, <1>12, Dropped
<1>19. Owned(KM, objects')
  BY <1>6, <1>7, <1>13, <1>16, <1>18, Moved
<1>20. Owned(K2, objects')
  BY <1>6, <1>7, <1>8, <1>16, <1>19, Moved
<1>21. PairsFit(C, latched', objects')
  <2>1. SUFFICES ASSUME NEW s \in Threads, NEW i \in Slots,
                        InpollIn(s, i) \in C \/ LatchIn(s, i) \in C
                 PROVE  PairFits(s, i, latched', objects')
    BY DEF PairsFit
  <2>2. s = t /\ i = n
    BY <2>1, CachesDiffer, KindsDiffer
  <2>3. latched'[t].inpolls[n] = sync /\ latched'[t].event_cache.entries[n] = latch
    BY <1>5 DEF PairRecycled
  <2>4. objects'[sync].kind = "inpoll"
    BY <1>4, <1>11, <1>17 DEF KindsClosed
  <2>5. objects'[sync].watched = {latch}
    BY <1>4, <1>11, <1>17
  <2>6. latch # FD_INVALID
    BY <1>4, Capacity
  <2>7. QED
    BY <1>17, <2>2, <2>3, <2>4, <2>5, <2>6 DEF PairFits
<1> HIDE DEF C
<1>22. Aside(C, closed, K, objects, K2, objects')
  <2>1. ASSUME NEW p \in AllPlaces \ C, K[p] # FD_INVALID
        PROVE  o1[K[p]] = objects[K[p]]
    BY <1>2, <1>6, <1>8, <1>11, <1>14, <2>1 DEF Owned
  <2>2. QED
    BY <1>1, <1>2, <1>9, <1>10, <1>11, <1>14, <2>1, CloseAside
<1>23. OthersSame(C, {f}, future, future')
  BY <1>1, <1>3, <1>15, OthersAside
<1>24. Typed(objects', alive, events, latched', future') /\ AllRingsFit(alive, events, latched')
  BY <1>3, <1>5, <1>11, FitParts DEF Typed, PairRecycled
<1>25. Fit(objects', alive, events, latched', future')
  BY <1>2, <1>3, <1>20, <1>21, <1>22, <1>23, <1>24, StepFits DEF FitNow
<1>26. QED
  BY <1>1, <1>25 DEF FitNow

LEMMA StartThreadFits ==
    ASSUME FitNow, NEW t \in Threads, StartThread(t)
    PROVE  FitNow'
<1> DEFINE K == KeptIn(future, events, latched)
           K2 == KeptIn(future, events', latched')
<1>1. /\ t \notin alive /\ alive' = alive \cup {t}
      /\ events' = [events EXCEPT ![t] = EmptyRing]
      /\ latched' = [latched EXCEPT ![t] = EmptyPairs]
      /\ objects' = objects /\ future' = future
  BY DEF StartThread
<1>2. Keeps(K, future, events, latched) /\ Keeps(K2, future, events', latched') /\ Owned(K, objects)
  BY FitParts, SomethingKeeps
<1> HIDE DEF K, K2
<1>3. /\ EmptyRing \in Rings /\ \A i \in Slots : EmptyRing.entries[i] = FD_INVALID
      /\ EmptyRing.latest \in Slots
  <2>1. 0 \in Slots
    BY Capacity
  <2>2. QED
    BY <2>1 DEF EmptyRing, Rings
<1>4. /\ EmptyPairs \in Pairs /\ EmptyPairs.event_cache = EmptyRing
      /\ \A i \in Slots : EmptyPairs.inpolls[i] = FD_INVALID
  BY <1>3 DEF EmptyPairs, Pairs
<1>5. /\ events' \in [Threads -> Rings] /\ events'[t] = EmptyRing
      /\ latched' \in [Threads -> Pairs] /\ latched'[t] = EmptyPairs
      /\ \A s \in Threads : s # t => events'[s] = events[s] /\ latched'[s] = latched[s]
  BY <1>1, <1>3, <1>4, FitParts
<1>6. /\ \A i \in Slots : /\ events[t].entries[i] = FD_INVALID
                          /\ latched[t].inpolls[i] = FD_INVALID
                          /\ latched[t].event_cache.entries[i] = FD_INVALID
      /\ \A i \in Slots : /\ events'[t].entries[i] = FD_INVALID
                          /\ latched'[t].inpolls[i] = FD_INVALID
                          /\ latched'[t].event_cache.entries[i] = FD_INVALID
  <2>1. RingsFit(t, alive, events, latched)
    BY FitParts
  <2>2. QED
    BY <1>1, <1>3, <1>4, <1>5, <2>1 DEF RingsFit
<1>7. EventsSame({}, events, events') /\ LatchedSame({}, latched, latched')
  <2>1. ASSUME NEW s \in Threads, NEW i \in Slots
        PROVE  /\ events'[s].entries[i] = events[s].entries[i]
               /\ latched'[s].inpolls[i] = latched[s].inpolls[i]
               /\ latched'[s].event_cache.entries[i] = latched[s].event_cache.entries[i]
    BY <1>5, <1>6
  <2>2. QED
    BY <2>1 DEF EventsSame, LatchedSame
<1>8. \A p \in AllPlaces \ {} : K2[p] = K[p]
  <2>1. FieldsSame({}, future, future)
    BY AllSame
  <2>2. QED
    BY <1>2, <1>7, <2>1, Frame
<1>9. Owned(K2, objects)
  <2>1. SameKinds(objects, objects)
    BY DEF SameKinds
  <2>2. QED
    BY <1>2, <1>8, <2>1, Untouched
<1>10. Aside({}, {}, K, objects, K2, objects)
  BY <1>8 DEF Aside
<1>11. AllRingsFit(alive', events', latched')
  <2>1. ASSUME NEW s \in Threads
        PROVE  RingsFit(s, alive', events', latched')
    <3>1. RingsFit(s, alive, events, latched)
      BY FitParts
    <3>2. CASE s = t
      <4>1. /\ RingShape(events'[t].entries, events'[t].latest)
            /\ RingShape(latched'[t].event_cache.entries, latched'[t].event_cache.latest)
        BY <1>3, <1>4, <1>5, <1>6, EmptyShape
      <4>2. QED
        BY <1>6, <3>2, <4>1 DEF RingsFit
    <3>3. CASE s # t
      BY <1>1, <1>5, <3>1, <3>3 DEF RingsFit
    <3>4. QED
      BY <3>2, <3>3
  <2>2. QED
    BY <2>1 DEF AllRingsFit
<1>12. OthersSame({}, {}, future, future) /\ FuturesFit({}, future, objects)
       /\ PairsFit({}, latched', objects)
  BY DEF OthersSame, FuturesFit, PairsFit
<1>13. Typed(objects, alive', events', latched', future)
  BY <1>1, <1>5, FitParts DEF Typed
<1>14. Fit(objects, alive', events', latched', future)
  BY <1>2, <1>9, <1>10, <1>11, <1>12, <1>13, StepFits DEF FitNow
<1>15. QED
  BY <1>1, <1>14 DEF FitNow

\* The event that a future announces itself with is one of its descriptors.
LEMMA SignalOfFuture ==
    ASSUME FitNow, NEW f \in Futures, SignalOf(f) # FD_INVALID
    PROVE  SignalOf(f) \in Fds /\ future[f].type # "INVALID"
<1>1. FutureFits(f, future, objects) /\ future[f] \in FutureRecords
  BY FitParts
<1>2. CASE future[f].type \in Latched
  BY <1>1, <1>2 DEF FutureFits, SignalOf, Latched, Collective
<1>3. CASE future[f].type \notin Latched
  <2>1. SignalOf(f) = IF future[f].notify_event THEN future[f].sync ELSE FD_INVALID
    BY <1>3 DEF SignalOf
  <2>2. CASE future[f].type = "INVALID"
    <3>1. future[f].sync = FD_INVALID
      BY <1>1, <2>2, NoFutureRecord DEF FutureFits
    <3>2. QED
      BY <2>1, <3>1
  <2>3. CASE future[f].type # "INVALID"
    BY <1>1, <2>1, <2>3 DEF FutureFits
  <2>4. QED
    BY <2>2, <2>3
<1>4. QED
  BY <1>2, <1>3

LEMMA SignalEffect ==
    ASSUME FitNow, NEW f \in Futures, Signal(f)
    PROVE  /\ objects' \in [Fds -> Objects]
           /\ \A d \in Fds : /\ objects'[d].kind = objects[d].kind
                             /\ objects'[d].watched = objects[d].watched
           /\ future' \in [Futures -> FutureRecords]
           /\ \A g \in Futures : /\ future'[g].type = future[g].type
                                 /\ future'[g].upstream = future[g].upstream
                                 /\ future'[g].attached = future[g].attached
                                 /\ future'[g].sync = future[g].sync
                                 /\ future'[g].latch = future[g].latch
                                 /\ future'[g].inner = future[g].inner
                                 /\ g # f => future'[g] = future[g]
<1>1. SignalOf(f) \in Fds /\ future[f].type # "INVALID"
  BY SignalOfFuture DEF Signal
<1>2. objects \in [Fds -> Objects] /\ future \in [Futures -> FutureRecords]
  BY FitParts
<1>3. PICK o : o = [objects[SignalOf(f)] EXCEPT !.signaled = TRUE]
  OBVIOUS
<1>4. /\ o \in Objects /\ o.kind = objects[SignalOf(f)].kind
      /\ o.watched = objects[SignalOf(f)].watched
  BY <1>1, <1>2, <1>3 DEF Objects
<1>5. objects' = [objects EXCEPT ![SignalOf(f)] = o]
  BY <1>3 DEF Signal
<1>6. PICK r : r = [future[f] EXCEPT !.announced = TRUE]
  OBVIOUS
<1>7. /\ r \in FutureRecords /\ r.type = future[f].type
      /\ r.upstream = future[f].upstream /\ r.attached = future[f].attached
      /\ r.sync = future[f].sync /\ r.latch = future[f].latch /\ r.inner = future[f].inner
  <2>1. future[f] \in FutureRecords
    BY <1>2
  <2>2. r \in FutureRecords
    BY <1>6, <2>1 DEF FutureRecords
  <2>3. /\ r.type = future[f].type /\ r.upstream = future[f].upstream
        /\ r.attached = future[f].attached
        /\ r.sync = future[f].sync /\ r.latch = future[f].latch /\ r.inner = future[f].inner
    BY <1>6, <2>1 DEF FutureRecords
  <2>4. QED
    BY <2>2, <2>3
<1>8. future' = [future EXCEPT ![f] = r]
  BY <1>6 DEF Signal
<1>9. objects' \in [Fds -> Objects] /\ objects'[SignalOf(f)] = o
      /\ \A d \in Fds : d # SignalOf(f) => objects'[d] = objects[d]
  BY <1>1, <1>2, <1>4, <1>5
<1>10. future' \in [Futures -> FutureRecords] /\ future'[f] = r
       /\ \A g \in Futures : g # f => future'[g] = future[g]
  BY <1>2, <1>7, <1>8
<1>11. \A d \in Fds : /\ objects'[d].kind = objects[d].kind
                      /\ objects'[d].watched = objects[d].watched
  BY <1>4, <1>9
<1>12. \A g \in Futures : /\ future'[g].type = future[g].type
                          /\ future'[g].upstream = future[g].upstream
                          /\ future'[g].attached = future[g].attached
                          /\ future'[g].sync = future[g].sync
                          /\ future'[g].latch = future[g].latch
                          /\ future'[g].inner = future[g].inner
  BY <1>7, <1>10
<1>13. QED
  BY <1>9, <1>10, <1>11, <1>12

LEMMA SignalFits ==
    ASSUME FitNow, NEW f \in Futures, Signal(f)
    PROVE  FitNow'
<1> DEFINE K == KeptIn(future, events, latched)
           K2 == KeptIn(future', events, latched)
<1>1. alive' = alive /\ events' = events /\ latched' = latched /\ future[f].type # "INVALID"
  BY SignalOfFuture DEF Signal, caches
<1>2. Keeps(K, future, events, latched) /\ Keeps(K2, future', events, latched) /\ Owned(K, objects)
  BY FitParts, SomethingKeeps
<1> HIDE DEF K, K2
<1>3. /\ objects' \in [Fds -> Objects]
      /\ \A d \in Fds : /\ objects'[d].kind = objects[d].kind
                        /\ objects'[d].watched = objects[d].watched
      /\ future' \in [Futures -> FutureRecords]
      /\ \A g \in Futures : /\ future'[g].type = future[g].type
                            /\ future'[g].upstream = future[g].upstream
                            /\ future'[g].attached = future[g].attached
                            /\ future'[g].sync = future[g].sync
                            /\ future'[g].latch = future[g].latch
                            /\ future'[g].inner = future[g].inner
                            /\ g # f => future'[g] = future[g]
  BY SignalEffect
<1>4. \A p \in AllPlaces \ {} : K2[p] = K[p]
  <2>1. FieldsSame({}, future, future')
    BY <1>3 DEF FieldsSame
  <2>2. EventsSame({}, events, events) /\ LatchedSame({}, latched, latched)
    BY AllSame
  <2>3. QED
    BY <1>2, <2>1, <2>2, Frame
<1>5. Owned(K2, objects')
  <2>1. SameKinds(objects, objects')
    BY <1>3 DEF SameKinds
  <2>2. QED
    BY <1>2, <1>4, <2>1, Untouched
<1>6. Aside({}, {}, K, objects, K2, objects')
  <2>1. ASSUME NEW p \in AllPlaces, K[p] # FD_INVALID
        PROVE  /\ objects'[K[p]].kind = objects[K[p]].kind
               /\ objects'[K[p]].watched = objects[K[p]].watched
    BY <1>2, <1>3, <2>1 DEF Owned
  <2>2. QED
    BY <1>4, <2>1 DEF Aside
<1>7. OthersSame({}, {}, future, future')
  BY <1>1, <1>3 DEF OthersSame
<1>8. FuturesFit({}, future', objects') /\ PairsFit({}, latched, objects')
  BY DEF FuturesFit, PairsFit
<1>9. Typed(objects', alive, events, latched, future') /\ AllRingsFit(alive, events, latched)
  BY <1>3, FitParts DEF Typed, AllRingsFit
<1>10. Fit(objects', alive, events, latched, future')
  BY <1>2, <1>5, <1>6, <1>7, <1>8, <1>9, StepFits DEF FitNow
<1>11. QED
  BY <1>1, <1>10 DEF FitNow

(***************************************************************************)
(* A settled upstream future leaves the inpoll of a join: its object is    *)
(* that of no other upstream future.                                       *)
(***************************************************************************)
LEMMA DetachSettledFits ==
    ASSUME FitNow, NEW f \in Futures, NEW g \in Futures, DetachSettled(f, g)
    PROVE  FitNow'
<1> DEFINE K == KeptIn(future, events, latched)
           K2 == KeptIn(future', events, latched)
           poll == future[f].sync
<1>1. /\ alive' = alive /\ events' = events /\ latched' = latched
      /\ future[f].type = "JOIN" /\ g \in future[f].attached
      /\ objects' = inpoll_detach(objects, poll, future[g].sync)
      /\ future' = [future EXCEPT ![f].attached = @ \ {g}]
  BY DEF DetachSettled, caches
<1>2. Keeps(K, future, events, latched) /\ Keeps(K2, future', events, latched) /\ Owned(K, objects)
  BY FitParts, SomethingKeeps
<1> HIDE DEF K, K2
<1>3. /\ FutureFits(f, future, objects) /\ future[f] \in FutureRecords
      /\ objects \in [Fds -> Objects] /\ future \in [Futures -> FutureRecords]
  BY FitParts
<1>4. /\ poll \in Fds /\ future[f].inner = FD_INVALID /\ future[f].latch \in Fds
      /\ g \in future[f].upstream /\ future[g].type # "INVALID"
      /\ future[f].attached \subseteq future[f].upstream /\ future[f].upstream \subseteq Futures
      /\ objects[poll].kind = "inpoll"
      /\ objects[poll].watched = {future[f].latch} \cup Syncs(future, future[f].attached)
  BY <1>1, <1>3 DEF FutureFits, Latched, Collective
<1>5. /\ objects' \in [Fds -> Objects] /\ objects'[poll].kind = objects[poll].kind
      /\ objects'[poll].watched = objects[poll].watched \ {future[g].sync}
      /\ \A d \in Fds : d # poll => objects'[d] = objects[d]
  <2>1. PICK o2, d : o2 = objects' /\ d = future[g].sync
    OBVIOUS
  <2>2. o2 = inpoll_detach(objects, poll, d)
    BY <1>1, <2>1
  <2>3. /\ o2 \in [Fds -> Objects] /\ o2[poll].kind = objects[poll].kind
        /\ o2[poll].watched = objects[poll].watched \ {d}
        /\ \A e \in Fds : e # poll => o2[e] = objects[e]
    BY <1>3, <1>4, <2>2, DetachEffect
  <2>4. QED
    BY <2>1, <2>3
<1>6. /\ future' \in [Futures -> FutureRecords]
      /\ \A h \in Futures : h # f => future'[h] = future[h]
      /\ future'[f].attached = future[f].attached \ {g}
      /\ future'[f].type = future[f].type /\ future'[f].upstream = future[f].upstream
      /\ future'[f].sync = future[f].sync /\ future'[f].latch = future[f].latch
      /\ future'[f].inner = future[f].inner
  <2>1. PICK r : r = [future[f] EXCEPT !.attached = @ \ {g}]
    OBVIOUS
  <2>2. /\ r \in FutureRecords /\ r.attached = future[f].attached \ {g}
        /\ r.type = future[f].type /\ r.upstream = future[f].upstream
        /\ r.sync = future[f].sync /\ r.latch = future[f].latch /\ r.inner = future[f].inner
    BY <1>3, <2>1 DEF FutureRecords
  <2>3. future' = [future EXCEPT ![f] = r]
    BY <1>1, <2>1
  <2>4. QED
    BY <1>3, <2>2, <2>3
<1>7. /\ \A h \in Futures : SyncOf(h) \in AllPlaces /\ K[SyncOf(h)] = future[h].sync
      /\ \A h \in Futures : h # g => SyncOf(h) # SyncOf(g)
      /\ LatchOf(f) \in AllPlaces /\ K[LatchOf(f)] = future[f].latch
      /\ LatchOf(f) # SyncOf(g)
  BY <1>2, ArePlaces, FuturesDiffer DEF Keeps
<1>8. /\ \A h \in future[f].attached : h # g => future[h].sync # future[g].sync
      /\ future[f].latch # future[g].sync
  <2>1. future[g].sync \in Fds /\ future[g].sync # FD_INVALID
    BY <1>4, FitParts, Capacity DEF FutureFits
  <2>2. QED
    BY <1>2, <1>4, <1>7, <2>1 DEF Owned
<1>9. Syncs(future', future'[f].attached) = Syncs(future, future[f].attached) \ {future[g].sync}
  <2>1. \A h \in future[f].attached : future'[h].sync = future[h].sync
    BY <1>4, <1>6
  <2>2. QED
    BY <1>6, <1>8, <2>1 DEF Syncs
<1>10. FutureFits(f, future', objects')
  <2>1. objects'[poll].watched = {future[f].latch} \cup Syncs(future', future'[f].attached)
    BY <1>4, <1>5, <1>8, <1>9
  <2>2. \A h \in future'[f].upstream : h \in Futures /\ future'[h].type # "INVALID"
    BY <1>3, <1>6 DEF FutureFits
  <2>3. objects'[poll].kind = "inpoll" /\ future'[f].attached \subseteq future'[f].upstream
    BY <1>4, <1>5, <1>6
  <2>4. QED
    BY <1>1, <1>4, <1>6, <2>1, <2>2, <2>3 DEF FutureFits, Latched, Collective
<1>11. \A p \in AllPlaces : K2[p] = K[p]
  <2>1. FieldsSame({}, future, future')
    BY <1>6 DEF FieldsSame
  <2>2. EventsSame({}, events, events) /\ LatchedSame({}, latched, latched)
    BY AllSame
  <2>3. \A p \in AllPlaces \ {} : K2[p] = K[p]
    BY <1>2, <2>1, <2>2, Frame
  <2>4. QED
    BY <2>3
<1>12. Owned(K2, objects')
  <2>1. SameKinds(objects, objects')
    BY <1>5 DEF SameKinds
  <2>2. QED
    BY <1>2, <1>11, <2>1, Untouched
<1>13. ASSUME NEW p \in AllPlaces, p # SyncOf(f), K[p] # FD_INVALID
       PROVE  objects'[K[p]] = objects[K[p]]
  <2>1. K[p] \in Fds /\ K[p] # poll
    BY <1>2, <1>7, <1>13 DEF Owned
  <2>2. QED
    BY <1>5, <2>1
<1>14. ASSUME NEW h \in Futures, h # f
       PROVE  FutureFits(h, future', objects')
  <2>1. FutureFits(h, future, objects)
    BY FitParts
  <2>2. /\ future'[h] = future[h]
        /\ \A k \in Futures : future'[k].sync = future[k].sync /\ future'[k].type = future[k].type
    BY <1>6, <1>14
  <2>3. /\ SyncOf(h) \in AllPlaces /\ SyncOf(h) # SyncOf(f) /\ K[SyncOf(h)] = future[h].sync
        /\ InnerOf(h) \in AllPlaces /\ InnerOf(h) # SyncOf(f) /\ K[InnerOf(h)] = future[h].inner
    BY <1>2, <1>14, ArePlaces, FuturesDiffer DEF Keeps
  <2>4. /\ future[h].sync # FD_INVALID => objects'[future[h].sync] = objects[future[h].sync]
        /\ future[h].inner # FD_INVALID => objects'[future[h].inner] = objects[future[h].inner]
    BY <1>13, <2>3
  <2>5. \A fs : fs \subseteq Futures => Syncs(future', fs) = Syncs(future, fs)
    BY <2>2 DEF Syncs
  <2>6. future[h].upstream \subseteq Futures /\ future[h].attached \subseteq Futures
    BY <2>1 DEF FutureFits
  <2>7. /\ Syncs(future', future[h].upstream) = Syncs(future, future[h].upstream)
        /\ Syncs(future', future[h].attached) = Syncs(future, future[h].attached)
    BY <2>5, <2>6
  <2>8. FD_INVALID \notin Fds
    BY Capacity
  <2>9. /\ future[h].type \in Latched => future[h].sync # FD_INVALID
        /\ future[h].type = "UNORDERED" => future[h].inner # FD_INVALID
    BY <2>1, <2>8 DEF FutureFits, Latched, Collective
  <2>10. \A k \in future[h].upstream : k \in Futures /\ future'[k].type # "INVALID"
    BY <2>1, <2>2 DEF FutureFits
  <2>11. QED
    BY <2>1, <2>2, <2>4, <2>7, <2>9, <2>10 DEF FutureFits
<1>15. ASSUME NEW t \in Threads, NEW i \in Slots
       PROVE  PairFits(t, i, latched, objects')
  <2>1. PairFits(t, i, latched, objects)
    BY FitParts
  <2>2. /\ InpollIn(t, i) \in AllPlaces /\ InpollIn(t, i) # SyncOf(f)
        /\ K[InpollIn(t, i)] = latched[t].inpolls[i]
    BY <1>2, ArePlaces, KindsDiffer DEF Keeps
  <2>3. QED
    BY <1>13, <2>1, <2>2 DEF PairFits
<1>16. Typed(objects', alive, events, latched, future') /\ AllRingsFit(alive, events, latched)
  BY <1>5, <1>6, FitParts DEF Typed, AllRingsFit
<1>17. Fit(objects', alive, events, latched, future')
  <2>1. \A h \in Futures : FutureFits(h, future', objects')
    BY <1>10, <1>14
  <2>2. QED
    BY <1>12, <1>15, <1>16, <2>1 DEF Fit, K2
<1>18. QED
  BY <1>1, <1>17 DEF FitNow

LEMMA FinalizeThreadFits ==
    ASSUME FitNow, NEW t \in Threads, FinalizeThread(t)
    PROVE  FitNow'
<1> DEFINE K == KeptIn(future, events, latched)
           K2 == KeptIn(future, events', latched')
           ring == latched[t].event_cache
           inpolls == Walk(latched[t].inpolls, ring.latest)
           closed == Walk(events[t].entries, events[t].latest)
                        \cup inpolls \cup Walk(ring.entries, ring.latest)
           C == {EventIn(t, i) : i \in Slots} \cup {InpollIn(t, i) : i \in Slots}
                   \cup {LatchIn(t, i) : i \in Slots}
<1>1. /\ t \in alive /\ alive' = alive \ {t} /\ objects' = Close(objects, closed)
      /\ events' = [events EXCEPT ![t] = event_cache_finalize(events[t])]
      /\ latched' = [latched EXCEPT ![t] =
            [inpolls |-> [i \in Slots |-> IF latched[t].inpolls[i] \in inpolls THEN FD_INVALID
                                          ELSE latched[t].inpolls[i]],
             event_cache |-> event_cache_finalize(ring)]]
      /\ future' = future
  BY DEF FinalizeThread
<1>2. Keeps(K, future, events, latched) /\ Keeps(K2, future, events', latched') /\ Owned(K, objects)
  BY FitParts, SomethingKeeps
<1>3. /\ events \in [Threads -> Rings] /\ latched \in [Threads -> Pairs]
      /\ events[t] \in Rings /\ latched[t] \in Pairs /\ ring \in Rings
  BY FitParts DEF Pairs
<1>4. /\ events[t].entries \in [Slots -> Fds \cup {FD_INVALID}] /\ events[t].latest \in Slots
      /\ ring.entries \in [Slots -> Fds \cup {FD_INVALID}] /\ ring.latest \in Slots
      /\ latched[t].inpolls \in [Slots -> Fds \cup {FD_INVALID}]
  BY <1>3 DEF Rings, Pairs
<1>5. /\ RingShape(events[t].entries, events[t].latest)
      /\ RingShape(ring.entries, ring.latest)
  BY FitParts DEF RingsFit
<1>6. RingShape(latched[t].inpolls, ring.latest)
  <2>1. \A i \in Slots : latched[t].inpolls[i] = FD_INVALID <=> ring.entries[i] = FD_INVALID
    BY FitParts DEF PairFits
  <2>2. \A m \in Slots : Back(ring.latest, m) \in Slots
    BY <1>4, RingIndices
  <2>3. \A m \in Slots : 0..m \subseteq Slots
    BY Capacity
  <2>4. QED
    BY <1>5, <2>1, <2>2, <2>3 DEF RingShape
<1> HIDE DEF K, K2, ring
<1>7. /\ Walk(events[t].entries, events[t].latest)
            = {events[t].entries[i] : i \in Slots} \ {FD_INVALID}
      /\ inpolls = {latched[t].inpolls[i] : i \in Slots} \ {FD_INVALID}
      /\ Walk(ring.entries, ring.latest) = {ring.entries[i] : i \in Slots} \ {FD_INVALID}
  BY <1>4, <1>5, <1>6, WalkMeetsAll
<1> HIDE DEF inpolls
<1>8. /\ events' \in [Threads -> Rings] /\ \A i \in Slots : events'[t].entries[i] = FD_INVALID
      /\ events'[t].latest \in Slots
      /\ \A s \in Threads : s # t => events'[s] = events[s]
  <2>1. PICK r2 : r2 = event_cache_finalize(events[t])
    OBVIOUS
  <2>2. r2 \in Rings /\ \A i \in Slots : r2.entries[i] = FD_INVALID
    BY <1>3, <1>5, <2>1, FinalizeEffect
  <2>3. events' = [events EXCEPT ![t] = r2]
    BY <1>1, <2>1
  <2>4. QED
    BY <1>3, <2>2, <2>3 DEF Rings
<1>9. /\ latched' \in [Threads -> Pairs]
      /\ \A i \in Slots : /\ latched'[t].inpolls[i] = FD_INVALID
                          /\ latched'[t].event_cache.entries[i] = FD_INVALID
      /\ latched'[t].event_cache.latest \in Slots
      /\ \A s \in Threads : s # t => latched'[s] = latched[s]
  <2>1. PICK r2 : r2 = event_cache_finalize(ring)
    OBVIOUS
  <2>2. r2 \in Rings /\ \A i \in Slots : r2.entries[i] = FD_INVALID
    BY <1>3, <1>5, <2>1, FinalizeEffect
  <2>3. PICK es : es = [i \in Slots |-> IF latched[t].inpolls[i] \in inpolls THEN FD_INVALID
                                        ELSE latched[t].inpolls[i]]
    OBVIOUS
  <2>4. es \in [Slots -> Fds \cup {FD_INVALID}] /\ \A i \in Slots : es[i] = FD_INVALID
    BY <1>4, <1>7, <2>3
  <2>5. PICK c2 : c2 = [inpolls |-> es, event_cache |-> r2]
    OBVIOUS
  <2>6. c2 \in Pairs /\ c2.inpolls = es /\ c2.event_cache = r2
    BY <2>2, <2>4, <2>5 DEF Pairs
  <2>7. latched' = [latched EXCEPT ![t] = c2]
    BY <1>1, <2>1, <2>3, <2>5
  <2>8. latched' \in [Threads -> Pairs] /\ latched'[t] = c2
        /\ \A s \in Threads : s # t => latched'[s] = latched[s]
    BY <1>3, <2>6, <2>7
  <2>9. QED
    BY <2>2, <2>4, <2>6, <2>8 DEF Rings
<1>10. C \subseteq AllPlaces
  BY ArePlaces
<1>11. \A i \in Slots : /\ K[EventIn(t, i)] = events[t].entries[i]
                        /\ K[InpollIn(t, i)] = latched[t].inpolls[i]
                        /\ K[LatchIn(t, i)] = ring.entries[i]
  BY <1>2 DEF Keeps, ring
<1>12. closed = {K[p] : p \in C} \ {FD_INVALID}
  <2>1. closed \subseteq {K[p] : p \in C} \ {FD_INVALID}
    <3>1. SUFFICES ASSUME NEW d \in closed
                   PROVE  d # FD_INVALID /\ \E p \in C : K[p] = d
      OBVIOUS
    <3>2. CASE d \in {events[t].entries[i] : i \in Slots} \ {FD_INVALID}
      <4>1. PICK i \in Slots : d = events[t].entries[i]
        BY <3>2
      <4>2. EventIn(t, i) \in C /\ K[EventIn(t, i)] = d
        BY <1>11, <4>1
      <4>3. QED
        BY <3>2, <4>2
    <3>3. CASE d \in {latched[t].inpolls[i] : i \in Slots} \ {FD_INVALID}
      <4>1. PICK i \in Slots : d = latched[t].inpolls[i]
        BY <3>3
      <4>2. InpollIn(t, i) \in C /\ K[InpollIn(t, i)] = d
        BY <1>11, <4>1
      <4>3. QED
        BY <3>3, <4>2
    <3>4. CASE d \in {ring.entries[i] : i \in Slots} \ {FD_INVALID}
      <4>1. PICK i \in Slots : d = ring.entries[i]
        BY <3>4
      <4>2. LatchIn(t, i) \in C /\ K[LatchIn(t, i)] = d
        BY <1>11, <4>1
      <4>3. QED
        BY <3>4, <4>2
    <3>5. QED
      BY <1>7, <3>2, <3>3, <3>4
  <2>2. ASSUME NEW p \in C, K[p] # FD_INVALID
        PROVE  K[p] \in closed
    <3>1. PICK i \in Slots : p = EventIn(t, i) \/ p = InpollIn(t, i) \/ p = LatchIn(t, i)
      OBVIOUS
    <3>2. CASE p = EventIn(t, i)
      BY <1>7, <1>11, <2>2, <3>2
    <3>3. CASE p = InpollIn(t, i)
      BY <1>7, <1>11, <2>2, <3>3
    <3>4. CASE p = LatchIn(t, i)
      BY <1>7, <1>11, <2>2, <3>4
    <3>5. QED
      BY <3>1, <3>2, <3>3, <3>4
  <2> HIDE DEF closed, C
  <2>3. QED
    BY <2>1, <2>2
<1>13. /\ objects' \in [Fds -> Objects] /\ KindsClosed(closed, objects, objects')
  BY <1>1, FitParts, CloseEffect DEF KindsClosed
<1>14. EventsSame(C, events, events') /\ LatchedSame(C, latched, latched')
  BY <1>8, <1>9 DEF EventsSame, LatchedSame
<1>15. /\ \A f \in Futures : SyncOf(f) \notin C /\ LatchOf(f) \notin C /\ InnerOf(f) \notin C
  BY KindsDiffer
<1>16. \A p \in C : K2[p] = FD_INVALID
  <2>1. \A i \in Slots : /\ K2[EventIn(t, i)] = FD_INVALID
                         /\ K2[InpollIn(t, i)] = FD_INVALID
                         /\ K2[LatchIn(t, i)] = FD_INVALID
    BY <1>2, <1>8, <1>9 DEF Keeps
  <2>2. QED
    BY <2>1
<1>17. PairsFit(C, latched', objects')
  <2>1. SUFFICES ASSUME NEW s \in Threads, NEW i \in Slots,
                        InpollIn(s, i) \in C \/ LatchIn(s, i) \in C
                 PROVE  PairFits(s, i, latched', objects')
    BY DEF PairsFit
  <2>2. s = t
    BY <2>1, CachesDiffer
  <2>3. QED
    BY <1>9, <2>2 DEF PairFits
<1> HIDE DEF C, closed
<1>18. \A p \in AllPlaces \ C : K2[p] = K[p]
  <2>1. FieldsSame(C, future, future)
    BY AllSame
  <2>2. QED
    BY <1>2, <1>14, <2>1, Frame
<1>19. Emptied(C, K, K2)
  BY <1>10, <1>16, <1>18 DEF Emptied
<1>20. Owned(K2, objects')
  BY <1>2, <1>12, <1>13, <1>19, Dropped
<1>21. Aside(C, closed, K, objects, K2, objects')
  BY <1>1, <1>2, <1>10, <1>12, <1>18, FitParts, CloseAside
<1>22. OthersSame(C, {}, future, future) /\ FuturesFit({}, future, objects')
  BY <1>15 DEF OthersSame, FuturesFit
<1>23. AllRingsFit(alive', events', latched')
  <2>1. ASSUME NEW s \in Threads
        PROVE  RingsFit(s, alive', events', latched')
    <3>1. RingsFit(s, alive, events, latched)
      BY FitParts
    <3>2. CASE s = t
      <4>1. /\ RingShape(events'[t].entries, events'[t].latest)
            /\ RingShape(latched'[t].event_cache.entries, latched'[t].event_cache.latest)
        BY <1>8, <1>9, EmptyShape
      <4>2. QED
        BY <1>8, <1>9, <3>2, <4>1 DEF RingsFit
    <3>3. CASE s # t
      BY <1>1, <1>8, <1>9, <3>1, <3>3 DEF RingsFit
    <3>4. QED
      BY <3>2, <3>3
  <2>2. QED
    BY <2>1 DEF AllRingsFit
<1>24. Typed(objects', alive', events', latched', future)
  BY <1>1, <1>8, <1>9, <1>13, FitParts DEF Typed
<1>25. Fit(objects', alive', events', latched', future)
  BY <1>2, <1>17, <1>20, <1>21, <1>22, <1>23, <1>24, StepFits DEF FitNow
<1>26. QED
  BY <1>1, <1>25 DEF FitNow

-----------------------------------------------------------------------------
(* A future with a latched inpoll is allocated in steps: the inner         *)
(* descriptor, the pair, and what is attached to them.                     *)

TwoLeft(objs) == \A x : {d \in Fds : objs[d].kind = "closed"} \ {x} # {}

\* Once the future f has its inner descriptor, n new ones may follow.
InnerGot(f, type, n, inner, objs1, K, KA) ==
    /\ objs1 \in [Fds -> Objects] /\ Owned(KA, objs1)
    /\ \A p \in AllPlaces : K[p] # FD_INVALID => objs1[K[p]] = objects[K[p]]
    /\ type = "JOIN" => inner = FD_INVALID
    /\ type # "JOIN" => inner \in Fds /\ objs1[inner].watched = {}
    /\ n = 2 => TwoLeft(objs1)

LEMMA InnerStep ==
    ASSUME FitNow, NEW f \in Futures, Free(f), NEW type, NEW n \in {0, 2},
           Room((IF type = "JOIN" THEN 0 ELSE 1) + n), NEW kind \in {"inpoll", "timer"},
           NEW inner, inner = IF type = "JOIN" THEN FD_INVALID ELSE NewFd(objects),
           NEW objs1, objs1 = IF type = "JOIN" THEN objects ELSE Open(objects, inner, kind),
           NEW K, Keeps(K, future, events, latched), Owned(K, objects),
           NEW KA, KA = [p \in AllPlaces |-> IF p = InnerOf(f) THEN inner ELSE K[p]]
    PROVE  InnerGot(f, type, n, inner, objs1, K, KA)
<1> DEFINE S == {d \in Fds : objects[d].kind = "closed"}
<1>1. objects \in [Fds -> Objects]
  BY FitParts
<1>2. InnerOf(f) \in AllPlaces /\ K[InnerOf(f)] = FD_INVALID
  BY FreeFuture, ArePlaces, NoFutureRecord DEF FitNow, Free, Keeps
<1>3. KA[InnerOf(f)] = inner /\ \A p \in AllPlaces : p # InnerOf(f) => KA[p] = K[p]
  BY <1>2
<1>4. CASE type = "JOIN"
  <2>1. inner = FD_INVALID /\ objs1 = objects
    BY <1>4
  <2>2. Owned(KA, objs1)
    <3>1. SameKinds(objects, objects) /\ \A p \in AllPlaces : KA[p] = K[p]
      BY <1>2, <1>3, <2>1 DEF SameKinds
    <3>2. QED
      BY <2>1, <3>1, Untouched
  <2>3. n = 2 => TwoLeft(objs1)
    <3>1. n = 2 => Cardinality(S) >= 2
      BY <1>4 DEF Room
    <3>2. Cardinality(S) >= 2 => \A x : S \ {x} # {}
      BY ClosedLeft
    <3>3. QED
      BY <2>1, <3>1, <3>2 DEF TwoLeft
  <2>4. QED
    BY <1>1, <1>4, <2>1, <2>2, <2>3 DEF InnerGot
<1>5. CASE type # "JOIN"
  <2>1. inner = NewFd(objects) /\ objs1 = Open(objects, inner, kind)
    BY <1>5
  <2>2. /\ n = 2 => Cardinality(S) >= 3
        /\ n = 0 => Cardinality(S) >= 1
    <3>1. Room(1 + n)
      BY <1>5
    <3>2. Cardinality(S) >= 1 + n
      BY <3>1, Zenon DEF Room
    <3> HIDE DEF S
    <3>3. QED
      BY <3>2
  <2>3. S # {} /\ (n = 2 => \A x, y : S \ {x, y} # {})
    <3> HIDE DEF S
    <3>1. Cardinality(S) >= 3 => \A x, y : S \ {x, y} # {}
      BY ClosedLeft
    <3>2. Cardinality(S) >= 1 => S # {}
      BY ClosedLeft
    <3>3. S # {}
      <4>1. CASE n = 0
        BY <2>2, <3>2, <4>1
      <4>2. CASE n = 2
        <5>1. \A x, y : S \ {x, y} # {}
          BY <2>2, <3>1, <4>2
        <5>2. QED
          BY <5>1
      <4>3. QED
        BY <4>1, <4>2
    <3>4. QED
      BY <2>2, <3>1, <3>3
  <2>4. inner \in Fds /\ objects[inner].kind = "closed"
    BY <2>1, <2>3, NewFdClosed
  <2>5. /\ objs1 \in [Fds -> Objects] /\ objs1[inner].kind = kind
        /\ objs1[inner].watched = {} /\ \A e \in Fds : e # inner => objs1[e] = objects[e]
    BY <1>1, <2>1, <2>4, OpenEffect
  <2>6. Owned(KA, objs1)
    BY <1>2, <1>3, <2>4, <2>5, Opened
  <2>7. \A p \in AllPlaces : K[p] # FD_INVALID => objs1[K[p]] = objects[K[p]]
    BY <2>4, <2>5 DEF Owned
  <2>8. n = 2 => TwoLeft(objs1)
    <3>1. SUFFICES ASSUME n = 2, NEW x
                   PROVE  {d \in Fds : objs1[d].kind = "closed"} \ {x} # {}
      BY DEF TwoLeft
    <3>2. PICK d \in S : d # inner /\ d # x
      BY <2>3, <3>1
    <3>3. d \in Fds /\ objs1[d].kind = "closed"
      BY <2>5, <3>2
    <3>4. QED
      BY <3>2, <3>3
  <2>9. QED
    BY <1>5, <2>4, <2>5, <2>6, <2>7, <2>8 DEF InnerGot
<1>6. QED
  BY <1>4, <1>5

\* A pair o of an inpoll and its latch was found, in the objects objs.
PairGot(objs1, KA, KB, objs, inpoll, latch) ==
    /\ objs \in [Fds -> Objects] /\ Owned(KB, objs)
    /\ inpoll \in Fds /\ latch \in Fds
    /\ objs[inpoll].kind = "inpoll" /\ objs[inpoll].watched = {latch}
    /\ \A p \in AllPlaces : KA[p] # FD_INVALID => objs[KA[p]] = objs1[KA[p]]

LEMMA NewPair ==
    ASSUME NEW objs1 \in [Fds -> Objects], NEW KA, Owned(KA, objs1), TwoLeft(objs1),
           NEW f \in Futures, KA[SyncOf(f)] = FD_INVALID, KA[LatchOf(f)] = FD_INVALID,
           NEW new, new = latched_inpoll_initialize(objs1),
           NEW KB, KB[SyncOf(f)] = new.inpoll, KB[LatchOf(f)] = new.latch,
           \A p \in AllPlaces \ {SyncOf(f), LatchOf(f)} : KB[p] = KA[p]
    PROVE  PairGot(objs1, KA, KB, new.objects, new.inpoll, new.latch)
<1> DEFINE latch == NewFd(objs1)
           o1 == Open(objs1, latch, "event")
           inpoll == NewFd(o1)
           o2 == Open(o1, inpoll, "inpoll")
           o3 == inpoll_attach(o2, inpoll, {latch})
           KM == [p \in AllPlaces |-> IF p = LatchOf(f) THEN latch ELSE KA[p]]
<1>1. new.objects = o3 /\ new.inpoll = inpoll /\ new.latch = latch
  BY DEF latched_inpoll_initialize
<1>2. latch \in Fds /\ objs1[latch].kind = "closed"
  <2>1. \E d \in Fds : objs1[d].kind = "closed"
    BY DEF TwoLeft
  <2>2. QED
    BY <2>1, NewFdClosed
<1> HIDE DEF latch
<1>3. /\ o1 \in [Fds -> Objects] /\ o1[latch].kind = "event"
      /\ \A e \in Fds : e # latch => o1[e] = objs1[e]
  BY <1>2, OpenEffect
<1> HIDE DEF o1
<1>4. inpoll \in Fds /\ o1[inpoll].kind = "closed"
  <2>1. PICK d \in {e \in Fds : objs1[e].kind = "closed"} : d # latch
    BY DEF TwoLeft
  <2>2. d \in Fds /\ o1[d].kind = "closed"
    BY <1>3, <2>1
  <2>3. QED
    BY <2>2, NewFdClosed
<1> HIDE DEF inpoll
<1>5. inpoll # latch
  BY <1>3, <1>4
<1>6. /\ o2 \in [Fds -> Objects] /\ o2[inpoll].kind = "inpoll" /\ o2[inpoll].watched = {}
      /\ \A e \in Fds : e # inpoll => o2[e] = o1[e]
  BY <1>3, <1>4, OpenEffect
<1> HIDE DEF o2
<1>7. /\ o3 \in [Fds -> Objects] /\ o3[inpoll].kind = "inpoll" /\ o3[inpoll].watched = {latch}
      /\ \A e \in Fds : e # inpoll => o3[e] = o2[e]
  <2>1. {latch} \subseteq Fds
    BY <1>2
  <2>2. /\ o3 \in [Fds -> Objects] /\ o3[inpoll].kind = o2[inpoll].kind
        /\ o3[inpoll].watched = o2[inpoll].watched \cup {latch}
        /\ \A e \in Fds : e # inpoll => o3[e] = o2[e]
    BY <1>4, <1>6, <2>1, AttachEffect
  <2>3. QED
    BY <1>6, <2>2
<1> HIDE DEF o3
<1>8. /\ SyncOf(f) \in AllPlaces /\ LatchOf(f) \in AllPlaces /\ SyncOf(f) # LatchOf(f)
  BY ArePlaces, FuturesDiffer
<1>9. /\ KM[LatchOf(f)] = latch /\ KM[SyncOf(f)] = FD_INVALID
      /\ \A r \in AllPlaces : r # LatchOf(f) => KM[r] = KA[r]
      /\ \A r \in AllPlaces : r # SyncOf(f) => KB[r] = KM[r]
  BY <1>1, <1>8
<1> HIDE DEF KM
<1>10. Owned(KM, o1)
  BY <1>2, <1>3, <1>8, <1>9, Opened
<1>11. Owned(KB, o3)
  <2>1. KB[SyncOf(f)] = inpoll /\ o3[inpoll].kind # "closed"
    BY <1>1, <1>7
  <2>2. \A e \in Fds : e # inpoll => o3[e].kind = o1[e].kind
    BY <1>6, <1>7
  <2>3. QED
    BY <1>4, <1>8, <1>9, <1>10, <2>1, <2>2, Opened
<1>12. ASSUME NEW p \in AllPlaces, KA[p] # FD_INVALID
       PROVE  o3[KA[p]] = objs1[KA[p]]
  <2>1. KA[p] \in Fds /\ KA[p] # latch
    BY <1>2, <1>12 DEF Owned
  <2>2. KA[p] # inpoll
    BY <1>3, <1>4, <1>12, <2>1 DEF Owned
  <2>3. QED
    BY <1>3, <1>6, <1>7, <2>1, <2>2
<1>13. QED
  BY <1>1, <1>2, <1>4, <1>7, <1>11, <1>12 DEF PairGot

LEMMA CachedPair ==
    ASSUME NEW objs1 \in [Fds -> Objects], NEW KA, Owned(KA, objs1),
           NEW f \in Futures, KA[SyncOf(f)] = FD_INVALID, KA[LatchOf(f)] = FD_INVALID,
           NEW t \in Threads, NEW x \in Slots,
           NEW inpoll, inpoll = KA[InpollIn(t, x)], inpoll # FD_INVALID,
           NEW latch, latch = KA[LatchIn(t, x)], latch # FD_INVALID,
           objs1[inpoll].kind = "inpoll", objs1[inpoll].watched = {latch},
           NEW KB, KB[SyncOf(f)] = inpoll, KB[LatchOf(f)] = latch,
           KB[InpollIn(t, x)] = FD_INVALID, KB[LatchIn(t, x)] = FD_INVALID,
           \A p \in AllPlaces \ {SyncOf(f), LatchOf(f), InpollIn(t, x), LatchIn(t, x)} :
              KB[p] = KA[p]
    PROVE  PairGot(objs1, KA, KB, objs1, inpoll, latch)
<1> DEFINE KM == [p \in AllPlaces |-> IF p = SyncOf(f) THEN inpoll
                                      ELSE IF p = InpollIn(t, x) THEN FD_INVALID ELSE KA[p]]
<1>1. /\ SyncOf(f) \in AllPlaces /\ LatchOf(f) \in AllPlaces
      /\ InpollIn(t, x) \in AllPlaces /\ LatchIn(t, x) \in AllPlaces
  BY ArePlaces
<1>2. /\ SyncOf(f) # LatchOf(f) /\ SyncOf(f) # InpollIn(t, x) /\ SyncOf(f) # LatchIn(t, x)
      /\ LatchOf(f) # InpollIn(t, x) /\ LatchOf(f) # LatchIn(t, x)
      /\ InpollIn(t, x) # LatchIn(t, x)
  BY FuturesDiffer, KindsDiffer, CachesDiffer
<1>3. /\ KM[SyncOf(f)] = inpoll /\ KM[InpollIn(t, x)] = FD_INVALID
      /\ KM[LatchOf(f)] = FD_INVALID /\ KM[LatchIn(t, x)] = latch
      /\ \A r \in AllPlaces \ {InpollIn(t, x), SyncOf(f)} : KM[r] = KA[r]
      /\ \A r \in AllPlaces \ {LatchIn(t, x), LatchOf(f)} : KB[r] = KM[r]
  BY <1>1, <1>2
<1> HIDE DEF KM
<1>4. Owned(KM, objs1)
  BY <1>1, <1>2, <1>3, Moved
<1>5. Owned(KB, objs1)
  BY <1>1, <1>2, <1>3, <1>4, Moved
<1>6. inpoll \in Fds /\ latch \in Fds
  BY <1>1 DEF Owned
<1>7. QED
  BY <1>5, <1>6 DEF PairGot

\* The record of the new future, and those of the others.
LatchedRecords(fu, f, type, sync, latch, inner, upstream) ==
    [g \in Futures |->
        IF g = f THEN [NoFuture EXCEPT !.type = type, !.sync = sync,
                          !.latch = latch, !.inner = inner, !.upstream = upstream,
                          !.attached = upstream]
        ELSE [fu[g] EXCEPT !.notify_event =
                 @ \/ (g \in upstream /\ fu[g].type = "CUSTOM")]]

Given(fu, fu2, f, type, sync, latch, inner, upstream) ==
    /\ fu2 \in [Futures -> FutureRecords]
    /\ fu2[f].type = type /\ fu2[f].sync = sync /\ fu2[f].latch = latch
    /\ fu2[f].inner = inner /\ fu2[f].upstream = upstream /\ fu2[f].attached = upstream
    /\ \A g \in Futures : g # f =>
          /\ fu2[g].type = fu[g].type /\ fu2[g].sync = fu[g].sync
          /\ fu2[g].latch = fu[g].latch /\ fu2[g].inner = fu[g].inner
          /\ fu2[g].upstream = fu[g].upstream /\ fu2[g].attached = fu[g].attached
          /\ g \notin upstream => fu2[g] = fu[g]

LEMMA NewRecords ==
    ASSUME NEW fu \in [Futures -> FutureRecords], NEW f \in Futures, NEW type \in Latched,
           NEW sync \in Fds, NEW latch \in Fds, NEW inner \in Fds \cup {FD_INVALID},
           NEW upstream, upstream \subseteq Futures,
           NEW fu2, fu2 = LatchedRecords(fu, f, type, sync, latch, inner, upstream)
    PROVE  Given(fu, fu2, f, type, sync, latch, inner, upstream)
<1> USE DEF LatchedRecords
<1>1. PICK r : r = [NoFuture EXCEPT !.type = type, !.sync = sync,
                       !.latch = latch, !.inner = inner, !.upstream = upstream,
                       !.attached = upstream]
  OBVIOUS
<1>2. /\ r.type = type /\ r.sync = sync /\ r.latch = latch /\ r.inner = inner
      /\ r.upstream = upstream /\ r.attached = upstream
  BY <1>1 DEF NoFuture
<1>3. r \in FutureRecords
  <2>1. type \in FutureTypes
    BY DEF FutureTypes
  <2>2. QED
    BY <1>1, <2>1, NoFutureRecord DEF FutureRecords
<1>4. ASSUME NEW g \in Futures, g # f
      PROVE  /\ fu2[g] \in FutureRecords
             /\ fu2[g].type = fu[g].type /\ fu2[g].sync = fu[g].sync
             /\ fu2[g].latch = fu[g].latch /\ fu2[g].inner = fu[g].inner
             /\ fu2[g].upstream = fu[g].upstream /\ fu2[g].attached = fu[g].attached
             /\ g \notin upstream => fu2[g] = fu[g]
  <2>1. PICK b \in BOOLEAN :
           b = (fu[g].notify_event \/ (g \in upstream /\ fu[g].type = "CUSTOM"))
    OBVIOUS
  <2>2. fu2[g] = [fu[g] EXCEPT !.notify_event = b]
    BY <1>4, <2>1
  <2>3. fu[g] \in FutureRecords
    OBVIOUS
  <2>4. fu2[g] \in FutureRecords
    BY <2>2, <2>3 DEF FutureRecords
  <2>5. /\ fu2[g].type = fu[g].type /\ fu2[g].sync = fu[g].sync
        /\ fu2[g].latch = fu[g].latch /\ fu2[g].inner = fu[g].inner
        /\ fu2[g].upstream = fu[g].upstream /\ fu2[g].attached = fu[g].attached
    BY <2>2, <2>3 DEF FutureRecords
  <2>6. ASSUME g \notin upstream
        PROVE  fu2[g] = fu[g]
    <3>1. fu[g].notify_event \in BOOLEAN
      BY <2>3 DEF FutureRecords
    <3>2. b = fu[g].notify_event
      BY <2>1, <2>6, <3>1
    <3>3. QED
      BY <2>2, <2>3, <3>2 DEF FutureRecords
  <2>7. QED
    BY <2>4, <2>5, <2>6
<1>5. fu2[f] = r /\ fu2 \in [Futures -> FutureRecords]
  BY <1>1, <1>3, <1>4
<1>6. QED
  BY <1>2, <1>4, <1>5 DEF Given

\* The pair comes from the cache or is new.
PairTaken(t, x, cache, la2) ==
    /\ la2 \in [Threads -> Pairs] /\ la2[t] = cache
    /\ \A s \in Threads : s # t => la2[s] = latched[s]
    /\ \A i \in Slots : i # x =>
          /\ la2[t].inpolls[i] = latched[t].inpolls[i]
          /\ la2[t].event_cache.entries[i] = latched[t].event_cache.entries[i]
    /\ la2[t].inpolls[x] = FD_INVALID /\ la2[t].event_cache.entries[x] = FD_INVALID
    /\ AllRingsFit(alive, events, la2)

PairIs(t, x, objs1, pair) ==
    /\ latched[t].inpolls[x] = FD_INVALID =>
          /\ pair.objects = latched_inpoll_initialize(objs1).objects
          /\ pair.inpoll = latched_inpoll_initialize(objs1).inpoll
          /\ pair.latch = latched_inpoll_initialize(objs1).latch
    /\ latched[t].inpolls[x] # FD_INVALID =>
          /\ pair.objects = objs1 /\ pair.inpoll = latched[t].inpolls[x]
          /\ pair.latch = latched[t].event_cache.entries[x]

LEMMA PairStep ==
    ASSUME FitNow, NEW t \in Threads, t \in alive, NEW objs1,
           NEW pair, pair = latched_inpoll_cache_allocate(objs1, t),
           NEW x, x = latched[t].event_cache.latest,
           NEW la2, la2 = [latched EXCEPT ![t] = pair.cache]
    PROVE  x \in Slots /\ PairTaken(t, x, pair.cache, la2) /\ PairIs(t, x, objs1, pair)
<1> DEFINE ring == latched[t].event_cache
<1>1. /\ latched \in [Threads -> Pairs] /\ latched[t] \in Pairs /\ ring \in Rings
      /\ x \in Slots /\ latched[t].inpolls \in [Slots -> Fds \cup {FD_INVALID}]
  BY FitParts DEF Pairs, Rings
<1>2. RingShape(ring.entries, ring.latest)
  BY FitParts DEF RingsFit
<1>3. PairFits(t, x, latched, objects)
  BY <1>1, FitParts
<1>4. ASSUME NEW c2 \in Pairs, pair.cache = c2,
             c2.inpolls[x] = FD_INVALID, c2.event_cache.entries[x] = FD_INVALID,
             \A i \in Slots : i # x =>
                /\ c2.inpolls[i] = latched[t].inpolls[i]
                /\ c2.event_cache.entries[i] = latched[t].event_cache.entries[i],
             RingShape(c2.event_cache.entries, c2.event_cache.latest)
      PROVE  PairTaken(t, x, pair.cache, la2)
  <2>1. /\ la2 \in [Threads -> Pairs] /\ la2[t] = c2
        /\ \A s \in Threads : s # t => la2[s] = latched[s]
    BY <1>1, <1>4
  <2>2. ASSUME NEW s \in Threads
        PROVE  RingsFit(s, alive, events, la2)
    <3>1. RingsFit(s, alive, events, latched)
      BY FitParts
    <3>2. CASE s = t
      BY <1>4, <2>1, <3>1, <3>2 DEF RingsFit
    <3>3. CASE s # t
      BY <2>1, <3>1, <3>3 DEF RingsFit
    <3>4. QED
      BY <3>2, <3>3
  <2>3. QED
    BY <1>4, <2>1, <2>2 DEF PairTaken, AllRingsFit
<1>5. CASE latched[t].inpolls[x] = FD_INVALID
  <2>1. /\ pair.objects = latched_inpoll_initialize(objs1).objects
        /\ pair.inpoll = latched_inpoll_initialize(objs1).inpoll
        /\ pair.latch = latched_inpoll_initialize(objs1).latch
        /\ pair.cache = latched[t]
    BY <1>5 DEF latched_inpoll_cache_allocate
  <2>2. latched[t].event_cache.entries[x] = FD_INVALID
    BY <1>3, <1>5 DEF PairFits
  <2>3. PairTaken(t, x, pair.cache, la2)
    BY <1>1, <1>2, <1>4, <1>5, <2>1, <2>2
  <2>4. QED
    BY <1>1, <1>5, <2>1, <2>3 DEF PairIs
<1>6. CASE latched[t].inpolls[x] # FD_INVALID
  <2>1. PICK r2 : r2 = TakeLatest(ring)
    OBVIOUS
  <2>2. PICK c2 : c2 = [inpolls |-> [latched[t].inpolls EXCEPT ![x] = FD_INVALID],
                        event_cache |-> r2]
    OBVIOUS
  <2>3. /\ pair.objects = objs1 /\ pair.inpoll = latched[t].inpolls[x]
        /\ pair.latch = latched[t].event_cache.entries[x] /\ pair.cache = c2
    BY <1>6, <2>1, <2>2 DEF latched_inpoll_cache_allocate
  <2>4. /\ r2 \in Rings /\ r2.entries[x] = FD_INVALID
        /\ \A i \in Slots : i # x => r2.entries[i] = ring.entries[i]
        /\ RingShape(r2.entries, r2.latest)
    BY <1>1, <1>2, <2>1, TakeEffect
  <2>5. /\ c2 \in Pairs /\ c2.event_cache = r2 /\ c2.inpolls[x] = FD_INVALID
        /\ \A i \in Slots : i # x => c2.inpolls[i] = latched[t].inpolls[i]
    BY <1>1, <2>2, <2>4 DEF Pairs
  <2>6. PairTaken(t, x, pair.cache, la2)
    BY <1>4, <2>3, <2>4, <2>5
  <2>7. QED
    BY <1>1, <1>6, <2>3, <2>6 DEF PairIs
<1>7. QED
  BY <1>5, <1>6

\* What is attached to the pair and to the inner descriptor at last.
Attached(o, o3, type, inpoll, latch, inner, syncs) ==
    /\ o3 \in [Fds -> Objects] /\ SameKinds(o, o3)
    /\ \A d \in Fds : d # inpoll /\ d # inner => o3[d] = o[d]
    /\ o3[inpoll].watched = {latch} \cup ({inner} \ {FD_INVALID})
                               \cup (IF type = "JOIN" THEN syncs ELSE {})
    /\ type # "JOIN" => o3[inner].watched = syncs

LEMMA AttachStep ==
    ASSUME NEW o \in [Fds -> Objects], NEW type, NEW inpoll \in Fds, NEW latch, NEW inner,
           o[inpoll].kind = "inpoll", o[inpoll].watched = {latch},
           type = "JOIN" => inner = FD_INVALID,
           type # "JOIN" => inner \in Fds /\ inner # inpoll /\ o[inner].watched = {},
           NEW syncs, syncs \subseteq Fds,
           NEW o2, o2 = IF type = "JOIN" THEN o ELSE inpoll_attach(o, inpoll, {inner}),
           NEW o3, o3 = inpoll_attach(o2, IF type = "JOIN" THEN inpoll ELSE inner, syncs)
    PROVE  Attached(o, o3, type, inpoll, latch, inner, syncs)
<1>1. CASE type = "JOIN"
  <2>1. /\ o3 \in [Fds -> Objects] /\ o3[inpoll].kind = o[inpoll].kind
        /\ o3[inpoll].watched = o[inpoll].watched \cup syncs
        /\ \A d \in Fds : d # inpoll => o3[d] = o[d]
    BY <1>1, AttachEffect
  <2>2. QED
    BY <1>1, <2>1 DEF SameKinds, Attached
<1>2. CASE type # "JOIN"
  <2>1. inner \in Fds /\ inner # inpoll /\ o[inner].watched = {} /\ {inner} \subseteq Fds
        /\ inner # FD_INVALID
    BY <1>2, Capacity
  <2>2. o2 = inpoll_attach(o, inpoll, {inner}) /\ o3 = inpoll_attach(o2, inner, syncs)
    BY <1>2
  <2>3. /\ o2 \in [Fds -> Objects] /\ o2[inpoll].kind = o[inpoll].kind
        /\ o2[inpoll].watched = o[inpoll].watched \cup {inner}
        /\ \A d \in Fds : d # inpoll => o2[d] = o[d]
    BY <2>1, <2>2, AttachEffect
  <2>4. /\ o3 \in [Fds -> Objects] /\ o3[inner].kind = o2[inner].kind
        /\ o3[inner].watched = o2[inner].watched \cup syncs
        /\ \A d \in Fds : d # inner => o3[d] = o2[d]
    BY <2>1, <2>2, <2>3, AttachEffect
  <2>5. SameKinds(o, o3)
    BY <2>1, <2>3, <2>4 DEF SameKinds
  <2>6. o3[inpoll].watched = {latch, inner} /\ o3[inner].watched = syncs
    BY <2>1, <2>3, <2>4
  <2>7. QED
    BY <1>2, <2>1, <2>3, <2>4, <2>5, <2>6 DEF Attached
<1>3. QED
  BY <1>1, <1>2

LEMMA AllocateLatchedFits ==
    ASSUME FitNow, NEW t \in Threads, NEW f \in Futures, NEW type \in Latched,
           NEW upstream, upstream \subseteq {g \in Futures : ~Free(g)},
           AllocateLatched(t, f, type, upstream)
    PROVE  FitNow'
<1> DEFINE inner == IF type = "JOIN" THEN FD_INVALID ELSE NewFd(objects)
           kind == IF type = "UNORDERED" THEN "inpoll" ELSE "timer"
           objs1 == IF type = "JOIN" THEN objects ELSE Open(objects, inner, kind)
           pair == latched_inpoll_cache_allocate(objs1, t)
           objs2 == IF type = "JOIN" THEN pair.objects
                    ELSE inpoll_attach(pair.objects, pair.inpoll, {inner})
           syncs == {future[g].sync : g \in upstream}
           x == latched[t].event_cache.latest
           n == IF latched[t].inpolls[x] = FD_INVALID THEN 2 ELSE 0
           K == KeptIn(future, events, latched)
           KA == [p \in AllPlaces |-> IF p = InnerOf(f) THEN inner ELSE K[p]]
           KB == KeptIn(future', events, latched')
           C == {SyncOf(f), LatchOf(f), InnerOf(f), InpollIn(t, x), LatchIn(t, x)}
<1>1. /\ t \in alive /\ Free(f) /\ Room((IF type = "JOIN" THEN 0 ELSE 1) + n)
      /\ objects' = inpoll_attach(objs2, IF type = "JOIN" THEN pair.inpoll ELSE inner, syncs)
      /\ latched' = [latched EXCEPT ![t] = pair.cache]
      /\ future' = [g \in Futures |->
            IF g = f THEN [NoFuture EXCEPT !.type = type, !.sync = pair.inpoll,
                              !.latch = pair.latch, !.inner = inner, !.upstream = upstream,
                              !.attached = upstream]
            ELSE [future[g] EXCEPT !.notify_event =
                     @ \/ (g \in upstream /\ future[g].type = "CUSTOM")]]
      /\ alive' = alive /\ events' = events
  BY DEF AllocateLatched, AttachUpstream, NotifyUpstream
<1>2. Keeps(K, future, events, latched) /\ Keeps(KB, future', events, latched') /\ Owned(K, objects)
  BY FitParts, SomethingKeeps
<1> HIDE DEF K, KB
<1>3. future[f] = NoFuture /\ \A g \in Futures : f \notin future[g].upstream
  BY <1>1, FreeFuture DEF FitNow, Free
<1>4. InnerGot(f, type, n, inner, objs1, K, KA)
  <2>1. n \in {0, 2} /\ kind \in {"inpoll", "timer"}
    OBVIOUS
  <2> HIDE DEF n, kind
  <2>2. QED
    BY <1>1, <1>2, <2>1, InnerStep
<1> HIDE DEF inner, objs1, kind
<1>5. x \in Slots /\ PairTaken(t, x, pair.cache, latched') /\ PairIs(t, x, objs1, pair)
  BY <1>1, PairStep
<1> HIDE DEF pair, x
<1>6. /\ SyncOf(f) \in AllPlaces /\ LatchOf(f) \in AllPlaces /\ InnerOf(f) \in AllPlaces
      /\ InpollIn(t, x) \in AllPlaces /\ LatchIn(t, x) \in AllPlaces
  BY <1>5, ArePlaces
<1>7. /\ SyncOf(f) # LatchOf(f) /\ SyncOf(f) # InnerOf(f) /\ LatchOf(f) # InnerOf(f)
      /\ SyncOf(f) # InpollIn(t, x) /\ SyncOf(f) # LatchIn(t, x)
      /\ LatchOf(f) # InpollIn(t, x) /\ LatchOf(f) # LatchIn(t, x)
      /\ InnerOf(f) # InpollIn(t, x) /\ InnerOf(f) # LatchIn(t, x)
      /\ InpollIn(t, x) # LatchIn(t, x)
  BY FuturesDiffer, KindsDiffer, CachesDiffer
<1>8. /\ K[SyncOf(f)] = FD_INVALID /\ K[LatchOf(f)] = FD_INVALID /\ K[InnerOf(f)] = FD_INVALID
      /\ K[InpollIn(t, x)] = latched[t].inpolls[x]
      /\ K[LatchIn(t, x)] = latched[t].event_cache.entries[x]
  <2>1. /\ K[SyncOf(f)] = FD_INVALID /\ K[LatchOf(f)] = FD_INVALID
        /\ K[InnerOf(f)] = FD_INVALID
    BY <1>2, <1>3, NoFutureRecord DEF Keeps
  <2>2. /\ K[InpollIn(t, x)] = latched[t].inpolls[x]
        /\ K[LatchIn(t, x)] = latched[t].event_cache.entries[x]
    BY <1>2, <1>5 DEF Keeps
  <2>3. QED
    BY <2>1, <2>2
<1>9. /\ KA[SyncOf(f)] = FD_INVALID /\ KA[LatchOf(f)] = FD_INVALID /\ KA[InnerOf(f)] = inner
      /\ KA[InpollIn(t, x)] = latched[t].inpolls[x]
      /\ KA[LatchIn(t, x)] = latched[t].event_cache.entries[x]
      /\ \A p \in AllPlaces \ C : KA[p] = K[p]
  BY <1>6, <1>7, <1>8
<1> HIDE DEF KA
<1>10. /\ \A g \in Futures : g # f =>
             SyncOf(g) \notin C /\ LatchOf(g) \notin C /\ InnerOf(g) \notin C
       /\ \A s \in Threads, i \in Slots :
             InpollIn(s, i) \in C \/ LatchIn(s, i) \in C => s = t /\ i = x
       /\ \A s \in Threads, i \in Slots : EventIn(s, i) \notin C
       /\ C \subseteq AllPlaces
  BY <1>6, FuturesDiffer, KindsDiffer, CachesDiffer
<1>11. /\ future \in [Futures -> FutureRecords] /\ objs1 \in [Fds -> Objects]
       /\ Owned(KA, objs1) /\ inner \in Fds \cup {FD_INVALID}
       /\ type = "JOIN" => inner = FD_INVALID
       /\ type # "JOIN" => inner \in Fds /\ objs1[inner].watched = {}
       /\ \A p \in AllPlaces : K[p] # FD_INVALID => objs1[K[p]] = objects[K[p]]
       /\ latched[t].inpolls[x] = FD_INVALID => TwoLeft(objs1)
  BY <1>4, FitParts DEF InnerGot
<1>12. /\ upstream \subseteq Futures /\ f \notin upstream
       /\ \A g \in upstream : future[g].type # "INVALID" /\ future[g].sync \in Fds
  BY <1>1, FitParts DEF Free, FutureFits
<1>13. PICK KN : KN = [p \in AllPlaces |-> IF p = SyncOf(f) THEN pair.inpoll
                          ELSE IF p = LatchOf(f) THEN pair.latch
                          ELSE IF p \in {InpollIn(t, x), LatchIn(t, x)} THEN FD_INVALID ELSE KA[p]]
  OBVIOUS
<1>14. /\ KN[SyncOf(f)] = pair.inpoll /\ KN[LatchOf(f)] = pair.latch
       /\ KN[InpollIn(t, x)] = FD_INVALID /\ KN[LatchIn(t, x)] = FD_INVALID
       /\ KN[InnerOf(f)] = inner
       /\ \A p \in AllPlaces \ {SyncOf(f), LatchOf(f), InpollIn(t, x), LatchIn(t, x)} :
             KN[p] = KA[p]
       /\ \A p \in AllPlaces \ C : KN[p] = K[p]
  BY <1>6, <1>7, <1>9, <1>13
<1>15. PairGot(objs1, KA, KN, pair.objects, pair.inpoll, pair.latch)
  <2>1. PairFits(t, x, latched, objects)
    BY <1>5, FitParts
  <2>2. CASE latched[t].inpolls[x] = FD_INVALID
    <3>1. PICK new : new = latched_inpoll_initialize(objs1)
      OBVIOUS
    <3>2. /\ pair.objects = new.objects /\ pair.inpoll = new.inpoll /\ pair.latch = new.latch
      BY <1>5, <2>2, <3>1 DEF PairIs
    <3>3. KA[InpollIn(t, x)] = FD_INVALID /\ KA[LatchIn(t, x)] = FD_INVALID
      BY <1>9, <2>1, <2>2 DEF PairFits
    <3>4. \A p \in AllPlaces \ {SyncOf(f), LatchOf(f)} : KN[p] = KA[p]
      BY <1>14, <3>3
    <3>5. PairGot(objs1, KA, KN, new.objects, new.inpoll, new.latch)
      BY <1>9, <1>11, <1>14, <2>2, <3>1, <3>2, <3>4, NewPair
    <3>6. QED
      BY <3>2, <3>5
  <2>3. CASE latched[t].inpolls[x] # FD_INVALID
    <3>1. /\ pair.objects = objs1 /\ pair.inpoll = latched[t].inpolls[x]
          /\ pair.latch = latched[t].event_cache.entries[x]
      BY <1>5, <2>3 DEF PairIs
    <3>2. /\ pair.latch # FD_INVALID /\ objects[pair.inpoll].kind = "inpoll"
          /\ objects[pair.inpoll].watched = {pair.latch}
      BY <2>1, <2>3, <3>1 DEF PairFits
    <3>3. objs1[pair.inpoll] = objects[pair.inpoll]
      BY <1>6, <1>8, <1>11, <2>3, <3>1
    <3>4. PICK inpoll, latch : inpoll = pair.inpoll /\ latch = pair.latch
      OBVIOUS
    <3>5. PairGot(objs1, KA, KN, objs1, inpoll, latch)
      BY <1>5, <1>9, <1>11, <1>14, <2>3, <3>1, <3>2, <3>3, <3>4, CachedPair
    <3>6. QED
      BY <3>1, <3>4, <3>5
  <2>4. QED
    BY <2>2, <2>3
<1>16. PICK o, inpoll, latch : o = pair.objects /\ inpoll = pair.inpoll /\ latch = pair.latch
  OBVIOUS
<1>17. /\ o \in [Fds -> Objects] /\ Owned(KN, o)
       /\ inpoll \in Fds /\ latch \in Fds
       /\ o[inpoll].kind = "inpoll" /\ o[inpoll].watched = {latch}
       /\ \A p \in AllPlaces : KA[p] # FD_INVALID => o[KA[p]] = objs1[KA[p]]
  BY <1>15, <1>16 DEF PairGot
<1>18. type # "JOIN" => inner \in Fds /\ inner # inpoll /\ o[inner].watched = {}
  <2>1. SUFFICES ASSUME type # "JOIN"
                 PROVE  inner \in Fds /\ inner # inpoll /\ o[inner].watched = {}
    OBVIOUS
  <2>2. inner \in Fds /\ inner # FD_INVALID /\ objs1[inner].watched = {}
    BY <1>11, <2>1, Capacity
  <2>3. inner # inpoll
    BY <1>6, <1>7, <1>14, <1>16, <1>17, <2>2 DEF Owned
  <2>4. o[inner] = objs1[inner]
    BY <1>6, <1>9, <1>17, <2>2
  <2>5. QED
    BY <2>2, <2>3, <2>4
<1>19. Attached(o, objects', type, inpoll, latch, inner, syncs)
  <2>1. syncs \subseteq Fds
    BY <1>12
  <2>2. PICK o2 : o2 = IF type = "JOIN" THEN o ELSE inpoll_attach(o, inpoll, {inner})
    OBVIOUS
  <2>3. objects' = inpoll_attach(o2, IF type = "JOIN" THEN inpoll ELSE inner, syncs)
    BY <1>1, <1>16, <2>2
  <2> HIDE DEF syncs
  <2>4. PICK o3 : o3 = objects'
    OBVIOUS
  <2>5. o3 = inpoll_attach(o2, IF type = "JOIN" THEN inpoll ELSE inner, syncs)
    BY <2>3, <2>4
  <2>6. (type = "JOIN" => inner = FD_INVALID) /\ o \in [Fds -> Objects]
        /\ inpoll \in Fds /\ o[inpoll].kind = "inpoll" /\ o[inpoll].watched = {latch}
    BY <1>11, <1>17
  <2>7. Attached(o, o3, type, inpoll, latch, inner, syncs)
    BY <1>18, <2>1, <2>2, <2>5, <2>6, AttachStep
  <2>8. QED
    BY <2>4, <2>7
<1>20. Given(future, future', f, type, inpoll, latch, inner, upstream)
  <2>1. PICK fu2 : fu2 = future'
    OBVIOUS
  <2>2. fu2 = LatchedRecords(future, f, type, inpoll, latch, inner, upstream)
    BY <1>1, <1>16, <2>1 DEF LatchedRecords
  <2>3. Given(future, fu2, f, type, inpoll, latch, inner, upstream)
    BY <1>11, <1>12, <1>17, <2>2, NewRecords
  <2>4. QED
    BY <2>1, <2>3
<1>23. \A p \in AllPlaces \ C : KB[p] = K[p]
  <2>1. FieldsSame(C, future, future')
    BY <1>20 DEF FieldsSame, Given
  <2>2. EventsSame(C, events, events)
    BY AllSame
  <2>3. LatchedSame(C, latched, latched')
    BY <1>5 DEF PairTaken, LatchedSame
  <2> HIDE DEF C
  <2>4. QED
    BY <1>2, <2>1, <2>2, <2>3, Frame
<1>24. /\ KB[SyncOf(f)] = inpoll /\ KB[LatchOf(f)] = latch /\ KB[InnerOf(f)] = inner
       /\ KB[InpollIn(t, x)] = FD_INVALID /\ KB[LatchIn(t, x)] = FD_INVALID
  <2>1. /\ KB[SyncOf(f)] = inpoll /\ KB[LatchOf(f)] = latch /\ KB[InnerOf(f)] = inner
    BY <1>2, <1>20 DEF Keeps, Given
  <2>2. KB[InpollIn(t, x)] = FD_INVALID /\ KB[LatchIn(t, x)] = FD_INVALID
    BY <1>2, <1>5 DEF Keeps, PairTaken
  <2>3. QED
    BY <2>1, <2>2
<1>25. \A p \in AllPlaces : KB[p] = KN[p]
  BY <1>14, <1>16, <1>23, <1>24
<1>26. Owned(KB, objects')
  <2>1. SameKinds(o, objects')
    BY <1>19 DEF Attached
  <2>2. QED
    BY <1>17, <1>25, <2>1, Untouched
<1>27. Aside(C, {}, K, objects, KB, objects')
  <2>1. ASSUME NEW p \in AllPlaces \ C, K[p] # FD_INVALID
        PROVE  objects'[K[p]] = objects[K[p]]
    <3>1. KN[p] = K[p] /\ KA[p] = K[p] /\ p # SyncOf(f) /\ p # InnerOf(f)
      BY <1>9, <1>14
    <3>2. K[p] # inpoll /\ K[p] # inner /\ K[p] \in Fds
      BY <1>6, <1>14, <1>16, <1>17, <2>1, <3>1 DEF Owned
    <3>3. objects'[K[p]] = o[K[p]]
      BY <1>19, <3>2 DEF Attached
    <3>4. o[K[p]] = objs1[K[p]] /\ objs1[K[p]] = objects[K[p]]
      BY <1>11, <1>17, <2>1, <3>1
    <3>5. QED
      BY <3>3, <3>4
  <2> HIDE DEF C
  <2>2. QED
    BY <1>10, <1>23, <2>1 DEF Aside
<1>28. FuturesFit({f}, future', objects')
  <2>1. /\ future'[f].type = type /\ future'[f].sync = inpoll /\ future'[f].latch = latch
        /\ future'[f].inner = inner /\ future'[f].upstream = upstream
        /\ future'[f].attached = upstream
        /\ \A g \in upstream : future'[g].sync = future[g].sync
                              /\ future'[g].type = future[g].type
    BY <1>12, <1>20 DEF Given
  <2>2. Syncs(future', upstream) = syncs
    BY <2>1 DEF Syncs
  <2>3. /\ objects'[inpoll].kind = "inpoll"
        /\ objects'[inpoll].watched = {latch} \cup ({inner} \ {FD_INVALID})
               \cup (IF type = "JOIN" THEN Syncs(future', upstream) ELSE {})
        /\ type # "JOIN" => objects'[inner].watched = Syncs(future', upstream)
    BY <1>17, <1>19, <2>2 DEF Attached, SameKinds
  <2> HIDE DEF syncs
  <2>4. type \in {"JOIN", "UNORDERED", "TIMER_REPEAT"}
    BY DEF Latched, Collective
  <2>5. FutureFits(f, future', objects')
    BY <1>11, <1>12, <1>17, <2>1, <2>3, <2>4 DEF FutureFits
  <2>6. QED
    BY <2>5 DEF FuturesFit
<1>29. OthersSame(C, {f}, future, future')
  <2>1. ASSUME NEW g \in Futures, g # f
        PROVE  /\ future'[g].type = future[g].type /\ future'[g].upstream = future[g].upstream
               /\ future'[g].attached = future[g].attached
               /\ future[g].upstream \cap {f} = {}
               /\ future[g].type = "INVALID" => future'[g] = future[g]
    BY <1>3, <1>12, <1>20, <2>1 DEF Given
  <2> HIDE DEF C
  <2>2. QED
    BY <1>10, <2>1 DEF OthersSame
<1>30. PairsFit(C, latched', objects')
  <2>1. PairFits(t, x, latched', objects')
    BY <1>5 DEF PairTaken, PairFits
  <2> HIDE DEF C
  <2>2. QED
    BY <1>10, <2>1 DEF PairsFit
<1>31. Typed(objects', alive', events', latched', future') /\ AllRingsFit(alive', events', latched')
  BY <1>1, <1>5, <1>19, <1>20, FitParts DEF Typed, Attached, PairTaken, Given
<1>32. Keeps(KB, future', events', latched')
  BY <1>1, <1>2
<1> HIDE DEF C
<1>33. Fit(objects', alive', events', latched', future')
  BY <1>2, <1>26, <1>27, <1>28, <1>29, <1>30, <1>31, <1>32, StepFits DEF FitNow
<1>34. QED
  BY <1>33 DEF FitNow

-----------------------------------------------------------------------------
(* What the invariant says of the places that the properties speak of.     *)

LEMMA KeptAtPlaces ==
    /\ \A f \in Futures : /\ KeptAt(SyncOf(f)) = future[f].sync
                          /\ KeptAt(LatchOf(f)) = future[f].latch
                          /\ KeptAt(InnerOf(f)) = future[f].inner
    /\ \A t \in Threads, i \in Slots :
          /\ KeptAt(EventIn(t, i)) = events[t].entries[i]
          /\ KeptAt(InpollIn(t, i)) = latched[t].inpolls[i]
          /\ KeptAt(LatchIn(t, i)) = latched[t].event_cache.entries[i]
<1>1. ASSUME NEW f
      PROVE  /\ KeptAt(SyncOf(f)) = future[f].sync
             /\ KeptAt(LatchOf(f)) = future[f].latch
             /\ KeptAt(InnerOf(f)) = future[f].inner
  BY DEF KeptAt, SyncOf, LatchOf, InnerOf
<1>2. ASSUME NEW t, NEW i
      PROVE  KeptAt(EventIn(t, i)) = events[t].entries[i]
  BY DEF KeptAt, EventIn
<1>3. ASSUME NEW t, NEW i
      PROVE  KeptAt(InpollIn(t, i)) = latched[t].inpolls[i]
  BY DEF KeptAt, InpollIn
<1>4. ASSUME NEW t, NEW i
      PROVE  KeptAt(LatchIn(t, i)) = latched[t].event_cache.entries[i]
  BY DEF KeptAt, LatchIn
<1>5. QED
  BY <1>1, <1>2, <1>3, <1>4

LEMMA PlacesAre ==
    ASSUME alive \subseteq Threads
    PROVE  Places = {SyncOf(f) : f \in {g \in Futures : ~Free(g)}}
                    \cup {LatchOf(f) : f \in {g \in Futures : ~Free(g)}}
                    \cup {InnerOf(f) : f \in {g \in Futures : ~Free(g)}}
                    \cup {EventIn(t, i) : t \in alive, i \in Slots}
                    \cup {InpollIn(t, i) : t \in alive, i \in Slots}
                    \cup {LatchIn(t, i) : t \in alive, i \in Slots}
<1>1. {<<"future", f, field>> : f \in {g \in Futures : ~Free(g)},
                                field \in {"sync", "latch", "inner"}}
        = {SyncOf(f) : f \in {g \in Futures : ~Free(g)}}
                    \cup {LatchOf(f) : f \in {g \in Futures : ~Free(g)}}
                    \cup {InnerOf(f) : f \in {g \in Futures : ~Free(g)}}
  BY DEF SyncOf, LatchOf, InnerOf
<1>2. {"events"} \X alive \X Slots = {EventIn(t, i) : t \in alive, i \in Slots}
  BY DEF EventIn
<1>3. {"inpolls"} \X alive \X Slots = {InpollIn(t, i) : t \in alive, i \in Slots}
  BY DEF InpollIn
<1>4. {"latches"} \X alive \X Slots = {LatchIn(t, i) : t \in alive, i \in Slots}
  BY DEF LatchIn
<1>5. QED
  BY <1>1, <1>2, <1>3, <1>4 DEF Places

LEMMA FitOwner ==
    ASSUME FitNow
    PROVE  OneOwner
<1> DEFINE K == KeptIn(future, events, latched)
<1>1. /\ Keeps(K, future, events, latched) /\ Owned(K, objects) /\ alive \subseteq Threads
      /\ \A f \in Futures : FutureFits(f, future, objects)
      /\ \A t \in Threads : RingsFit(t, alive, events, latched)
  BY FitParts
<1> HIDE DEF K
<1>2. ASSUME NEW p \in Places
      PROVE  p \in AllPlaces /\ KeptAt(p) = K[p]
  <2>1. \/ \E f \in Futures : p = SyncOf(f) \/ p = LatchOf(f) \/ p = InnerOf(f)
        \/ \E t \in Threads, i \in Slots :
              p = EventIn(t, i) \/ p = InpollIn(t, i) \/ p = LatchIn(t, i)
    BY <1>1, PlacesAre
  <2>2. QED
    BY <1>1, <2>1, KeptAtPlaces, ArePlaces DEF Keeps
<1>3. ASSUME NEW p \in AllPlaces, K[p] \in Fds
      PROVE  p \in Places
  <2>1. K[p] # FD_INVALID
    BY <1>3, Capacity
  <2>2. ASSUME NEW f \in Futures, p = SyncOf(f) \/ p = LatchOf(f) \/ p = InnerOf(f)
        PROVE  p \in Places
    <3>1. ~Free(f)
      BY <1>1, <2>1, <2>2, NoFutureRecord DEF Free, FutureFits, Keeps
    <3>2. QED
      BY <1>1, <2>2, <3>1, PlacesAre
  <2>3. ASSUME NEW t \in Threads, NEW i \in Slots,
               p = EventIn(t, i) \/ p = InpollIn(t, i) \/ p = LatchIn(t, i)
        PROVE  p \in Places
    <3>1. t \in alive
      BY <1>1, <2>1, <2>3 DEF RingsFit, Keeps
    <3>2. QED
      BY <1>1, <2>3, <3>1, PlacesAre
  <2>4. QED
    BY <2>2, <2>3, PlaceCases
<1>4. SUFFICES ASSUME NEW d \in Fds
               PROVE  Cardinality({o \in Places : KeptAt(o) = d})
                         = IF objects[d].kind = "closed" THEN 0 ELSE 1
  BY DEF OneOwner
<1>5. d # FD_INVALID
  BY Capacity
<1>6. CASE objects[d].kind = "closed"
  <2>1. {o \in Places : KeptAt(o) = d} = {}
    BY <1>1, <1>2, <1>5, <1>6 DEF Owned
  <2>2. QED
    BY <1>6, <2>1, FS_EmptySet
<1>7. CASE objects[d].kind # "closed"
  <2>1. PICK p \in AllPlaces : K[p] = d
    BY <1>1, <1>7 DEF Owned
  <2>2. \A q \in AllPlaces : K[q] = d => q = p
    BY <1>1, <1>5, <2>1 DEF Owned
  <2>3. {o \in Places : KeptAt(o) = d} = {p}
    BY <1>2, <1>3, <2>1, <2>2
  <2>4. QED
    BY <1>7, <2>3, FS_Singleton
<1>8. QED
  BY <1>6, <1>7

LEMMA FitInpolls ==
    ASSUME FitNow
    PROVE  InpollsExact
<1>1. TypeOK
  BY FitParts DEF TypeOK, Objects, FutureRecords
<1>2. PairsAttached
  BY FitParts DEF PairsAttached, PairFits
<1>3. LiveInpollsExact
  <2>1. ASSUME NEW f \in Futures, future[f].type \in Latched
        PROVE  /\ objects[future[f].sync].watched
                     = {future[f].latch} \cup ({future[f].inner} \ {FD_INVALID})
                       \cup (IF future[f].type = "JOIN"
                             THEN Syncs(future, future[f].attached) ELSE {})
               /\ future[f].type = "UNORDERED" =>
                     objects[future[f].inner].watched = Syncs(future, future[f].upstream)
    BY <2>1, FitParts DEF FutureFits
  <2>2. QED
    BY <2>1 DEF LiveInpollsExact, Syncs
<1>4. QED
  BY <1>1, <1>2, <1>3 DEF InpollsExact

-----------------------------------------------------------------------------
(* The invariant and the theorems.                                         *)

LEMMA InitFits ==
    ASSUME Init
    PROVE  FitNow
<1> DEFINE K == KeptIn(future, events, latched)
<1>1. /\ \A d \in Fds : objects[d] = Closed
      /\ \A t \in Threads : events[t] = EmptyRing /\ latched[t] = EmptyPairs
      /\ \A f \in Futures : future[f] = NoFuture
      /\ alive = {}
  BY DEF Init
<1>2. 0 \in Slots
  BY Capacity
<1>3. /\ EmptyRing \in Rings /\ EmptyPairs \in Pairs
      /\ \A i \in Slots : /\ EmptyRing.entries[i] = FD_INVALID
                          /\ EmptyPairs.inpolls[i] = FD_INVALID
                          /\ EmptyPairs.event_cache.entries[i] = FD_INVALID
      /\ EmptyRing.latest = 0 /\ EmptyPairs.event_cache.latest = 0
  BY <1>2 DEF EmptyRing, EmptyPairs, Rings, Pairs
<1>4. Typed(objects, alive, events, latched, future)
  BY <1>3, ClosedObject, NoFutureRecord DEF Init, Typed
<1>5. AllRingsFit(alive, events, latched)
  <2>1. ASSUME NEW t \in Threads
        PROVE  RingsFit(t, alive, events, latched)
    BY <1>1, <1>2, <1>3, EmptyShape DEF RingsFit
  <2>2. QED
    BY <2>1 DEF AllRingsFit
<1>6. \A f \in Futures : FutureFits(f, future, objects)
  BY <1>1, GoneFits
<1>7. \A t \in Threads, i \in Slots : PairFits(t, i, latched, objects)
  BY <1>1, <1>3 DEF PairFits
<1>8. Owned(K, objects)
  <2>1. Keeps(K, future, events, latched)
    BY SomethingKeeps
  <2> HIDE DEF K
  <2>2. \A p \in AllPlaces : K[p] = FD_INVALID
    BY <1>1, <1>3, <2>1, PlaceCases, NoFutureRecord DEF Keeps
  <2>3. \A d \in Fds : objects[d].kind = "closed"
    BY <1>1, ClosedObject
  <2>4. QED
    BY <2>2, <2>3 DEF Owned
<1>9. QED
  BY <1>4, <1>5, <1>6, <1>7, <1>8 DEF FitNow, Fit

LEMMA AllocateFits ==
    ASSUME FitNow, NEW t \in Threads, NEW f \in Futures, Allocate(t, f)
    PROVE  FitNow'
<1>1. CASE AllocateLatched(t, f, "TIMER_REPEAT", {})
  <2>1. "TIMER_REPEAT" \in Latched /\ {} \subseteq {g \in Futures : ~Free(g)}
    BY DEF Latched
  <2>2. QED
    BY <1>1, <2>1, AllocateLatchedFits
<1>2. ASSUME NEW type \in Collective,
             NEW upstream \in SUBSET {g \in Futures : ~Free(g)} \ {{}},
             AllocateLatched(t, f, type, upstream)
      PROVE  FitNow'
  <2>1. type \in Latched /\ upstream \subseteq {g \in Futures : ~Free(g)}
    BY DEF Latched
  <2>2. QED
    BY <1>2, <2>1, AllocateLatchedFits
<1>3. QED
  BY <1>1, <1>2, AllocateCustomFits, AllocateTimerOnceFits DEF Allocate

LEMMA NextFits ==
    ASSUME FitNow, [Next]_vars
    PROVE  FitNow'
<1>1. ASSUME NEW t \in Threads, StartThread(t) \/ FinalizeThread(t)
      PROVE  FitNow'
  BY <1>1, StartThreadFits, FinalizeThreadFits
<1>2. ASSUME NEW t \in Threads, NEW f \in Futures, Allocate(t, f)
      PROVE  FitNow'
  BY <1>2, AllocateFits
<1>3. ASSUME NEW t \in Threads, NEW f \in Futures, Liberate(t, f)
      PROVE  FitNow'
  BY <1>3, LiberateCustomFits, LiberateTimerOnceFits, LiberateJoinFits,
     LiberateChainedFits DEF Liberate
<1>4. ASSUME NEW f \in Futures, Signal(f)
      PROVE  FitNow'
  BY <1>4, SignalFits
<1>5. ASSUME NEW f \in Futures, NEW g \in Futures, DetachSettled(f, g)
      PROVE  FitNow'
  BY <1>5, DetachSettledFits
<1>6. CASE UNCHANGED vars
  BY <1>6 DEF vars, FitNow
<1>7. QED
  BY <1>1, <1>2, <1>3, <1>4, <1>5, <1>6 DEF Next

(***************************************************************************)
(* What each future and each cache keeps stays in order, whatever the      *)
(* capacity of the caches and however many threads, futures and            *)
(* descriptors there are.                                                  *)
(***************************************************************************)
THEOREM SyncInvariance == Spec => []FitNow
<1>1. Init => FitNow
  BY InitFits
<1>2. FitNow /\ [Next]_vars => FitNow'
  BY NextFits
<1>3. QED
  BY <1>1, <1>2, PTL DEF Spec

(***************************************************************************)
(* future_sync_initialize() and future_sync_finalize() leak no descriptor, *)
(* close none twice and keep none that is closed: every open one is kept   *)
(* by one future or one cache entry.                                       *)
(***************************************************************************)
THEOREM SyncOneOwner == Spec => []OneOwner
<1>1. FitNow => OneOwner
  BY FitOwner
<1>2. QED
  BY <1>1, SyncInvariance, PTL

(***************************************************************************)
(* latched_inpoll_cache_allocate() hands out inpolls that watch their own  *)
(* latch only, and the inpolls of living futures watch exactly the objects *)
(* that they should, since close() of a recycled descriptor never hits one *)
(* that somebody still watches.                                            *)
(***************************************************************************)
THEOREM SyncInpollsExact == Spec => []InpollsExact
<1>1. FitNow => InpollsExact
  BY FitInpolls
<1>2. QED
  BY <1>1, SyncInvariance, PTL

-----------------------------------------------------------------------------
(* The rings as stacks.                                                    *)

\* The latest n entries are occupied, and no other.
Filled(entries, latest, n) ==
    \A m \in Slots : entries[Back(latest, m)] # FD_INVALID <=> m < n

\* A ring with no holes is filled up to some number of entries: the least m
\* that is not occupied.
LEMMA ShapeIsFilled ==
    ASSUME NEW entries, NEW latest \in Slots, RingShape(entries, latest)
    PROVE  \E n \in 0..EVENT_CACHE_CAPACITY : Filled(entries, latest, n)
<1> DEFINE Gaps == {m \in Slots : entries[Back(latest, m)] = FD_INVALID}
<1>1. EVENT_CACHE_CAPACITY \in Nat /\ \A i : i \in Slots <=> i \in Nat /\ i < EVENT_CACHE_CAPACITY
  BY Capacity
<1>2. CASE Gaps = {}
  <2>1. Filled(entries, latest, EVENT_CACHE_CAPACITY)
    BY <1>1, <1>2 DEF Filled
  <2>2. QED
    BY <1>1, <2>1
<1>3. CASE Gaps # {}
  <2>1. Gaps \subseteq Nat
    BY <1>1
  <2>2. PICK n : n = Min(Gaps)
    OBVIOUS
  <2>3. n \in Gaps /\ \A m \in Gaps : n <= m
    <3> HIDE DEF Gaps
    <3>1. QED
      BY <1>3, <2>1, <2>2, MinOfNaturals
  <2>4. n \in Nat /\ n < EVENT_CACHE_CAPACITY /\ entries[Back(latest, n)] = FD_INVALID
    BY <1>1, <2>3
  <2>5. ASSUME NEW m \in Slots
        PROVE  entries[Back(latest, m)] # FD_INVALID <=> m < n
    <3>1. m \in Nat
      BY <1>1
    <3>2. m < n => entries[Back(latest, m)] # FD_INVALID
      <4>1. m \in Gaps => n <= m
        BY <2>3
      <4>2. QED
        BY <2>4, <3>1, <4>1
    <3>3. ASSUME entries[Back(latest, m)] # FD_INVALID, ~(m < n) PROVE FALSE
      <4>1. n \in 0..m
        BY <2>4, <3>1, <3>3
      <4>2. QED
        BY <2>4, <3>3, <4>1 DEF RingShape
    <3>4. QED
      BY <3>2, <3>3
  <2>6. QED
    BY <1>1, <2>4, <2>5 DEF Filled
<1>4. QED
  BY <1>2, <1>3

\* What is in such a ring, as a sequence.
LEMMA FilledOldestFirst ==
    ASSUME NEW entries \in [Slots -> Fds \cup {FD_INVALID}], NEW latest \in Slots,
           NEW n \in 0..EVENT_CACHE_CAPACITY, Filled(entries, latest, n)
    PROVE  OldestFirst(entries, latest) = [k \in 1..n |-> entries[Back(latest, n - k)]]
<1> DEFINE Full == {i \in Slots : entries[i] # FD_INVALID}
<1>1. /\ EVENT_CACHE_CAPACITY \in Nat /\ latest \in Nat /\ n \in Nat
      /\ n <= EVENT_CACHE_CAPACITY
      /\ \A i : i \in Slots <=> i \in Nat /\ i < EVENT_CACHE_CAPACITY
  BY Capacity
<1>2. \A m \in 0..(n - 1) : m \in Slots /\ m < n
  BY <1>1
<1>3. Cardinality(Full) = n
  <2>1. PICK f : f = [m \in 0..(n - 1) |-> Back(latest, m)]
    OBVIOUS
  <2>2. \A m \in 0..(n - 1) : f[m] \in Full /\ Back(latest, f[m]) = m
    BY <1>2, <2>1, RingIndices DEF Filled
  <2>3. \A i \in Full : Back(latest, i) \in 0..(n - 1) /\ f[Back(latest, i)] = i
    <3>1. TAKE i \in Full
    <3>2. Back(latest, i) \in Slots /\ Back(latest, Back(latest, i)) = i
      BY RingIndices
    <3>3. Back(latest, i) < n /\ Back(latest, i) \in Nat
      BY <1>1, <3>2 DEF Filled
    <3>4. Back(latest, i) \in 0..(n - 1)
      BY <1>1, <3>3
    <3>5. QED
      BY <2>1, <3>2, <3>4
  <2> HIDE DEF Full
  <2>4. f \in Bijection(0..(n - 1), Full)
    <3>1. f \in [0..(n - 1) -> Full]
      BY <2>1, <2>2
    <3>2. \A a, b \in 0..(n - 1) : f[a] = f[b] => a = b
      BY <2>2
    <3>3. \A i \in Full : \E m \in 0..(n - 1) : f[m] = i
      BY <2>3
    <3>4. QED
      BY <3>1, <3>2, <3>3 DEF Bijection, Injection, Surjection, IsInjective
  <2>5. ExistsBijection(0..(n - 1), Full)
    BY <2>4 DEF ExistsBijection
  <2>6. IsFiniteSet(0..(n - 1)) /\ Cardinality(0..(n - 1)) = n
    <3>1. PICK b : b = n - 1
      OBVIOUS
    <3>2. b \in Int /\ 0 \in Int /\ (IF 0 > b THEN 0 ELSE b - 0 + 1) = n
      BY <1>1, <3>1
    <3>3. IsFiniteSet(0..b) /\ Cardinality(0..b) = IF 0 > b THEN 0 ELSE b - 0 + 1
      BY <3>2, FS_Interval
    <3>4. QED
      BY <3>1, <3>2, <3>3
  <2>7. QED
    BY <2>5, <2>6, FS_Bijection
<1>4. \A k \in 1..n : (latest - n + k) % EVENT_CACHE_CAPACITY = Back(latest, n - k)
  <2>1. TAKE k \in 1..n
  <2>2. n - k \in Slots /\ latest - n + k = latest - (n - k)
    BY <1>1
  <2>3. PICK m \in Slots : m = n - k
    BY <2>2
  <2>4. (latest - m) % EVENT_CACHE_CAPACITY = Back(latest, m)
    BY RingIndices
  <2>5. QED
    BY <2>2, <2>3, <2>4
<1>5. OldestFirst(entries, latest)
         = [k \in 1..Cardinality(Full) |-> entries[(latest - Cardinality(Full) + k)
                                                      % EVENT_CACHE_CAPACITY]]
  BY DEF OldestFirst
<1> HIDE DEF Full
<1>6. OldestFirst(entries, latest)
         = [k \in 1..n |-> entries[(latest - n + k) % EVENT_CACHE_CAPACITY]]
  BY <1>3, <1>5
<1>7. QED
  BY <1>4, <1>6

\* The contents of a ring with n entries.
LEMMA StackOfRing ==
    ASSUME NEW entries \in [Slots -> Fds \cup {FD_INVALID}], NEW latest \in Slots,
           NEW n \in 0..EVENT_CACHE_CAPACITY, Filled(entries, latest, n),
           NEW s, s = OldestFirst(entries, latest)
    PROVE  /\ s \in Seq(Fds) /\ Len(s) = n
           /\ \A k \in 1..n : /\ n - k \in Slots /\ Back(latest, n - k) \in Slots
                              /\ s[k] = entries[Back(latest, n - k)]
<1>1. /\ EVENT_CACHE_CAPACITY \in Nat /\ n \in Nat /\ n <= EVENT_CACHE_CAPACITY
      /\ \A i : i \in Slots <=> i \in Nat /\ i < EVENT_CACHE_CAPACITY
  BY Capacity
<1>2. s = [k \in 1..n |-> entries[Back(latest, n - k)]]
  BY FilledOldestFirst
<1>3. \A k \in 1..n : /\ n - k \in Slots /\ Back(latest, n - k) \in Slots
                      /\ entries[Back(latest, n - k)] \in Fds
  <2>1. TAKE k \in 1..n
  <2>2. PICK m \in Slots : m = n - k /\ m < n
    BY <1>1
  <2>3. Back(latest, m) \in Slots /\ entries[Back(latest, m)] # FD_INVALID
    BY <2>2, RingIndices DEF Filled
  <2>4. QED
    BY <2>2, <2>3
<1>4. s \in [1..n -> Fds]
  BY <1>2, <1>3
<1>5. s \in Seq(Fds) /\ Len(s) = n
  BY <1>1, <1>4
<1>6. QED
  BY <1>2, <1>3, <1>5

\* Without entries it is empty.
LEMMA EmptyRingStack ==
    ASSUME NEW entries \in [Slots -> Fds \cup {FD_INVALID}], NEW latest \in Slots,
           \A i \in Slots : entries[i] = FD_INVALID
    PROVE  OldestFirst(entries, latest) = <<>>
<1>0. 0 \in 0..EVENT_CACHE_CAPACITY
  BY Capacity
<1>1. Filled(entries, latest, 0)
  <2>1. ASSUME NEW m \in Slots
        PROVE  entries[Back(latest, m)] # FD_INVALID <=> m < 0
    <3>1. Back(latest, m) \in Slots /\ m \in Nat
      BY Capacity, RingIndices
    <3>2. ~(m < 0)
      BY <3>1
    <3>3. QED
      BY <3>1, <3>2
  <2>2. QED
    BY <2>1 DEF Filled
<1>2. PICK s : s = OldestFirst(entries, latest)
  OBVIOUS
<1>3. s \in Seq(Fds) /\ Len(s) = 0
  BY <1>0, <1>1, <1>2, StackOfRing
<1>4. QED
  BY <1>2, <1>3

\* event_cache_allocate() takes from the end of the sequence.
LEMMA TakeStack ==
    ASSUME NEW entries \in [Slots -> Fds \cup {FD_INVALID}], NEW latest \in Slots,
           RingShape(entries, latest), entries[latest] # FD_INVALID,
           NEW e2 \in [Slots -> Fds \cup {FD_INVALID}],
           \A i \in Slots : e2[i] = IF i = latest THEN FD_INVALID ELSE entries[i],
           NEW l2 \in Slots, l2 = sync_cache_decrement_index(latest),
           NEW s, s = OldestFirst(entries, latest), NEW s2, s2 = OldestFirst(e2, l2)
    PROVE  s # <<>> /\ s2 = SubSeq(s, 1, Len(s) - 1)
<1>1. /\ EVENT_CACHE_CAPACITY \in Nat /\ EVENT_CACHE_CAPACITY > 0
      /\ latest \in Nat /\ latest < EVENT_CACHE_CAPACITY /\ 0 \in Slots
      /\ \A i : i \in Slots <=> i \in Nat /\ i < EVENT_CACHE_CAPACITY
  BY Capacity
<1>2. /\ l2 = IF latest >= 1 THEN latest - 1 ELSE EVENT_CACHE_CAPACITY - 1
      /\ \A i \in Slots : e2[i] = IF i = latest THEN FD_INVALID ELSE entries[i]
  BY DEF sync_cache_decrement_index
<1>3. PICK n \in 0..EVENT_CACHE_CAPACITY : Filled(entries, latest, n)
  BY ShapeIsFilled
<1>4. n > 0 /\ n \in Nat /\ n <= EVENT_CACHE_CAPACITY
  <2>1. Back(latest, 0) = latest
    BY <1>1, RingIndices
  <2>2. 0 < n
    BY <1>1, <1>3, <2>1 DEF Filled
  <2>3. QED
    BY <1>1, <2>2
<1>5. PICK p : p = n - 1 /\ p \in Nat /\ p < EVENT_CACHE_CAPACITY
  BY <1>1, <1>4
<1>6. ASSUME NEW m \in Slots, m < EVENT_CACHE_CAPACITY - 1,
             NEW m1, m1 = m + 1
      PROVE  /\ m1 \in Slots /\ Back(l2, m) = Back(latest, m1)
             /\ e2[Back(l2, m)] = entries[Back(latest, m1)]
  <2>1. m \in Nat /\ m1 \in Nat /\ m1 < EVENT_CACHE_CAPACITY
    BY <1>1, <1>6
  <2>2. m1 \in Slots
    BY <1>1, <2>1
  <2>3. Back(l2, m) = Back(latest, m1) /\ Back(latest, m1) # latest
    BY <1>1, <1>2, <1>6, <2>1 DEF Back
  <2>4. Back(latest, m1) \in Slots
    BY <2>2, RingIndices
  <2>5. QED
    BY <1>2, <2>2, <2>3, <2>4
<1>7. Filled(e2, l2, p)
  <2>1. ASSUME NEW m \in Slots
        PROVE  e2[Back(l2, m)] # FD_INVALID <=> m < p
    <3>1. m \in Nat /\ m < EVENT_CACHE_CAPACITY
      BY <1>1
    <3>2. CASE m < EVENT_CACHE_CAPACITY - 1
      <4>1. PICK m1 : m1 = m + 1
        OBVIOUS
      <4>2. m1 \in Slots /\ e2[Back(l2, m)] = entries[Back(latest, m1)]
        BY <1>6, <3>2, <4>1
      <4>3. entries[Back(latest, m1)] # FD_INVALID <=> m1 < n
        BY <1>3, <4>2 DEF Filled
      <4>4. m1 < n <=> m < p
        BY <1>4, <1>5, <3>1, <4>1
      <4>5. QED
        BY <4>2, <4>3, <4>4
    <3>3. CASE ~(m < EVENT_CACHE_CAPACITY - 1)
      <4>1. Back(l2, m) = latest
        BY <1>1, <1>2, <3>1, <3>3 DEF Back
      <4>2. ~(m < p)
        BY <1>1, <1>4, <1>5, <3>1, <3>3
      <4>3. QED
        BY <1>2, <4>1, <4>2
    <3>4. QED
      BY <3>2, <3>3
  <2>2. QED
    BY <2>1 DEF Filled
<1>8. /\ s \in Seq(Fds) /\ Len(s) = n
      /\ \A k \in 1..n : s[k] = entries[Back(latest, n - k)]
  BY <1>3, StackOfRing
<1>9. p \in 0..EVENT_CACHE_CAPACITY
  BY <1>1, <1>5
<1>10. /\ s2 \in Seq(Fds) /\ Len(s2) = p
       /\ \A k \in 1..p : s2[k] = e2[Back(l2, p - k)]
  BY <1>7, <1>9, StackOfRing
<1>11. ASSUME NEW k \in 1..p
       PROVE  s2[k] = s[k]
  <2>1. PICK m \in Slots : m = p - k /\ m < EVENT_CACHE_CAPACITY - 1
    BY <1>1, <1>4, <1>5
  <2>2. PICK m1 : m1 = m + 1
    OBVIOUS
  <2>3. e2[Back(l2, m)] = entries[Back(latest, m1)]
    BY <1>6, <2>1, <2>2
  <2>4. m1 = n - k /\ k \in 1..n
    BY <1>1, <1>4, <1>5, <2>1, <2>2
  <2>5. QED
    BY <1>8, <1>10, <2>1, <2>3, <2>4
<1>12. PICK u : u = SubSeq(s, 1, p)
  OBVIOUS
<1>13. u \in Seq(Fds) /\ Len(u) = p /\ \A k \in 1..p : u[k] = s[k]
  <2>1. 1 \in Int /\ p \in Int /\ \A k \in 1..p : s[k] \in Fds
    BY <1>4, <1>5, <1>8
  <2>2. /\ u \in Seq(Fds) /\ Len(u) = IF 1 <= p THEN p - 1 + 1 ELSE 0
        /\ \A k \in 1..(p - 1 + 1) : u[k] = s[1 + k - 1]
    BY <1>12, <2>1, SubSeqProperties
  <2>3. \A k \in 1..p : 1 + k - 1 = k /\ k \in 1..(p - 1 + 1)
    BY <1>5
  <2>4. QED
    BY <1>5, <2>2, <2>3
<1>14. s2 = u
  <2>1. Len(s2) = Len(u) /\ \A k \in 1..Len(s2) : s2[k] = u[k]
    BY <1>10, <1>11, <1>13
  <2>2. QED
    BY <1>10, <1>13, <2>1, SeqEqual
<1>15. s # <<>>
  BY <1>4, <1>8
<1>16. QED
  BY <1>5, <1>8, <1>12, <1>14, <1>15

\* event_cache_liberate() adds at the end, and removes from the front what
\* does not fit.
LEMMA AddStack ==
    ASSUME NEW entries \in [Slots -> Fds \cup {FD_INVALID}], NEW latest \in Slots,
           RingShape(entries, latest), NEW d \in Fds,
           NEW l2 \in Slots, l2 = After(latest),
           NEW e2 \in [Slots -> Fds \cup {FD_INVALID}],
           \A i \in Slots : e2[i] = IF i = l2 THEN d ELSE entries[i],
           NEW s, s = OldestFirst(entries, latest), NEW s2, s2 = OldestFirst(e2, l2)
    PROVE  /\ s2 # <<>> /\ s2[Len(s2)] = d
           /\ s2 = Append(IF Len(s) = EVENT_CACHE_CAPACITY THEN Tail(s) ELSE s, d)
<1>1. /\ EVENT_CACHE_CAPACITY \in Nat /\ EVENT_CACHE_CAPACITY > 0
      /\ latest \in Nat /\ latest < EVENT_CACHE_CAPACITY /\ 0 \in Slots
      /\ \A i : i \in Slots <=> i \in Nat /\ i < EVENT_CACHE_CAPACITY
      /\ d # FD_INVALID
  BY Capacity
<1>2. /\ l2 = IF latest + 1 = EVENT_CACHE_CAPACITY THEN 0 ELSE latest + 1
      /\ \A i \in Slots : e2[i] = IF i = l2 THEN d ELSE entries[i]
  BY DEF After
<1>3. PICK n \in 0..EVENT_CACHE_CAPACITY : Filled(entries, latest, n)
  BY ShapeIsFilled
<1>4. n \in Nat /\ n <= EVENT_CACHE_CAPACITY
  BY <1>1
<1>5. PICK q : q = IF n = EVENT_CACHE_CAPACITY THEN n ELSE n + 1
  OBVIOUS
<1>6. q \in Nat /\ q > 0 /\ q <= EVENT_CACHE_CAPACITY /\ q \in 0..EVENT_CACHE_CAPACITY
  BY <1>1, <1>4, <1>5
<1>7. e2[Back(l2, 0)] = d
  BY <1>1, <1>2, RingIndices
<1>8. ASSUME NEW m \in Slots, m # 0, NEW m1, m1 = m - 1
      PROVE  /\ m1 \in Slots /\ e2[Back(l2, m)] = entries[Back(latest, m1)]
  <2>1. m \in Nat /\ m1 \in Nat /\ m1 < EVENT_CACHE_CAPACITY /\ m < EVENT_CACHE_CAPACITY
    BY <1>1, <1>8
  <2>2. m1 \in Slots
    BY <1>1, <2>1
  <2>3. Back(l2, m) = Back(latest, m1) /\ Back(l2, m) # l2
    BY <1>1, <1>2, <1>8, <2>1 DEF Back
  <2>4. Back(latest, m1) \in Slots
    BY <2>2, RingIndices
  <2>5. QED
    BY <1>2, <2>2, <2>3, <2>4
<1>9. Filled(e2, l2, q)
  <2>1. ASSUME NEW m \in Slots
        PROVE  e2[Back(l2, m)] # FD_INVALID <=> m < q
    <3>1. m \in Nat /\ m < EVENT_CACHE_CAPACITY
      BY <1>1
    <3>2. CASE m = 0
      BY <1>1, <1>6, <1>7, <3>2
    <3>3. CASE m # 0
      <4>1. PICK m1 : m1 = m - 1
        OBVIOUS
      <4>2. m1 \in Slots /\ e2[Back(l2, m)] = entries[Back(latest, m1)]
        BY <1>8, <3>3, <4>1
      <4>3. entries[Back(latest, m1)] # FD_INVALID <=> m1 < n
        BY <1>3, <4>2 DEF Filled
      <4>4. m1 < n <=> m < q
        BY <1>1, <1>4, <1>5, <3>1, <4>1
      <4>5. QED
        BY <4>2, <4>3, <4>4
    <3>4. QED
      BY <3>2, <3>3
  <2>2. QED
    BY <2>1 DEF Filled
<1>10. /\ s \in Seq(Fds) /\ Len(s) = n
       /\ \A k \in 1..n : s[k] = entries[Back(latest, n - k)]
  BY <1>3, StackOfRing
<1>11. /\ s2 \in Seq(Fds) /\ Len(s2) = q
       /\ \A k \in 1..q : s2[k] = e2[Back(l2, q - k)]
  BY <1>6, <1>9, StackOfRing
<1>12. q - q = 0 /\ q \in 1..q
  BY <1>6
<1>13. s2[q] = d
  BY <1>7, <1>11, <1>12
<1>14. ASSUME NEW k \in 1..q, k # q
       PROVE  s2[k] = entries[Back(latest, q - k - 1)]
  <2>1. PICK m \in Slots : m = q - k /\ m # 0
    BY <1>1, <1>6, <1>14
  <2>2. PICK m1 : m1 = m - 1
    OBVIOUS
  <2>3. e2[Back(l2, m)] = entries[Back(latest, m1)]
    BY <1>8, <2>1, <2>2
  <2>4. QED
    BY <1>11, <2>1, <2>2, <2>3
<1>15. PICK kept : kept = IF Len(s) = EVENT_CACHE_CAPACITY THEN Tail(s) ELSE s
  OBVIOUS
<1>16. /\ kept \in Seq(Fds) /\ Len(kept) = q - 1
       /\ \A k \in 1..(q - 1) : kept[k] = s2[k]
  <2>1. CASE n = EVENT_CACHE_CAPACITY
    <3>1. s # <<>>
      BY <1>1, <1>10, <2>1
    <3>2. /\ kept \in Seq(Fds) /\ Len(kept) = n - 1
          /\ \A k \in 1..(n - 1) : kept[k] = s[k + 1]
      BY <1>10, <1>15, <2>1, <3>1, HeadTailProperties
    <3>3. ASSUME NEW k \in 1..(q - 1)
          PROVE  kept[k] = s2[k]
      <4>1. PICK j : j = k + 1
        OBVIOUS
      <4>2. k \in 1..q /\ k # q /\ k \in 1..(n - 1) /\ j \in 1..n /\ n - j = q - k - 1
        BY <1>4, <1>5, <1>6, <2>1, <4>1
      <4>3. s[j] = entries[Back(latest, q - k - 1)]
        BY <1>10, <4>2
      <4>4. s2[k] = entries[Back(latest, q - k - 1)]
        BY <1>14, <4>2
      <4>5. QED
        BY <3>2, <4>1, <4>2, <4>3, <4>4
    <3>4. QED
      BY <1>5, <2>1, <3>2, <3>3
  <2>2. CASE n # EVENT_CACHE_CAPACITY
    <3>1. kept = s /\ Len(s) = q - 1
      BY <1>4, <1>5, <1>10, <1>15, <2>2
    <3>2. ASSUME NEW k \in 1..(q - 1)
          PROVE  kept[k] = s2[k]
      <4>1. k \in 1..q /\ k # q /\ k \in 1..n /\ n - k = q - k - 1
        BY <1>4, <1>5, <1>6, <2>2
      <4>2. QED
        BY <1>10, <1>14, <3>1, <4>1
    <3>3. QED
      BY <1>10, <3>1, <3>2
  <2>3. QED
    BY <2>1, <2>2
<1>17. PICK u : u = Append(kept, d)
  OBVIOUS
<1>18. /\ u \in Seq(Fds) /\ Len(u) = q
       /\ \A k \in 1..q : u[k] = IF k = q THEN d ELSE kept[k]
  <2>1. /\ u \in Seq(Fds) /\ Len(u) = Len(kept) + 1
        /\ \A k \in 1..Len(u) : u[k] = IF k = Len(kept) + 1 THEN d ELSE kept[k]
    BY <1>16, <1>17
  <2>2. QED
    BY <1>6, <1>16, <2>1
<1>19. \A k \in 1..q : s2[k] = u[k]
  <2>1. TAKE k \in 1..q
  <2>2. k # q => k \in 1..(q - 1)
    BY <1>6
  <2>3. QED
    BY <1>13, <1>16, <1>18, <2>2
<1>20. s2 = u
  <2>1. Len(s2) = Len(u) /\ \A k \in 1..Len(s2) : s2[k] = u[k]
    BY <1>11, <1>18, <1>19
  <2>2. QED
    BY <1>11, <1>18, <2>1, SeqEqual
<1>21. s2 # <<>> /\ s2[Len(s2)] = d
  BY <1>6, <1>11, <1>13
<1>22. QED
  BY <1>15, <1>17, <1>20, <1>21

-----------------------------------------------------------------------------
(* Every step of the caches is a step of the stacks.                       *)

EventStack(ev, t) == OldestFirst(ev[t].entries, ev[t].latest)
PairStack(la, t) == OldestFirst(la[t].inpolls, la[t].event_cache.latest)

StackStep == Stacks!StacksNext \/ Contents' = Contents

LEMMA OwnerCases ==
    /\ \A t \in Threads : <<t, "events">> \in Owners /\ <<t, "latched">> \in Owners
    /\ \A o \in Owners : \E t \in Threads : o = <<t, "events">> \/ o = <<t, "latched">>
    /\ \A s, t : <<s, "events">> # <<t, "latched">>
    /\ \A s, t : <<s, "events">> = <<t, "events">> => s = t
    /\ \A s, t : <<s, "latched">> = <<t, "latched">> => s = t
  BY DEF Owners

LEMMA ContentsOf ==
    /\ DOMAIN Contents = Owners /\ Contents = [o \in Owners |-> Contents[o]]
    /\ \A t \in Threads : /\ Contents[<<t, "events">>] = EventStack(events, t)
                          /\ Contents[<<t, "latched">>] = PairStack(latched, t)
  BY OwnerCases DEF Contents, EventStack, PairStack

LEMMA NextContentsOf ==
    /\ DOMAIN Contents' = Owners /\ Contents' = [o \in Owners |-> Contents'[o]]
    /\ \A t \in Threads : /\ Contents'[<<t, "events">>] = EventStack(events', t)
                          /\ Contents'[<<t, "latched">>] = PairStack(latched', t)
  BY OwnerCases DEF Contents, EventStack, PairStack

\* When only one of the rings changes, the others are the same stacks.
LEMMA OneStackChanges ==
    ASSUME NEW t \in Threads, NEW kind \in {"events", "latched"},
           \A s \in Threads : s # t \/ kind # "events" => events'[s] = events[s],
           \A s \in Threads : s # t \/ kind # "latched" => latched'[s] = latched[s]
    PROVE  Contents' = [Contents EXCEPT ![<<t, kind>>] = Contents'[<<t, kind>>]]
<1>1. ASSUME NEW o \in Owners, o # <<t, kind>>
      PROVE  Contents'[o] = Contents[o]
  <2>1. PICK s \in Threads : o = <<s, "events">> \/ o = <<s, "latched">>
    BY OwnerCases
  <2>2. CASE o = <<s, "events">>
    <3>1. s # t \/ kind # "events"
      BY <1>1, <2>2
    <3>2. events'[s] = events[s]
      BY <3>1
    <3>3. QED
      BY <2>2, <3>2, ContentsOf, NextContentsOf DEF EventStack
  <2>3. CASE o = <<s, "latched">>
    <3>1. s # t \/ kind # "latched"
      BY <1>1, <2>3
    <3>2. latched'[s] = latched[s]
      BY <3>1
    <3>3. QED
      BY <2>3, <3>2, ContentsOf, NextContentsOf DEF PairStack
  <2>4. QED
    BY <2>1, <2>2, <2>3
<1>2. PICK c, c2 : c = Contents /\ c2 = Contents'
  OBVIOUS
<1>3. /\ c = [o \in Owners |-> c[o]] /\ c2 = [o \in Owners |-> c2[o]]
      /\ \A o \in Owners : o # <<t, kind>> => c2[o] = c[o]
  BY <1>1, <1>2, ContentsOf, NextContentsOf
<1>4. c2 = [c EXCEPT ![<<t, kind>>] = c2[<<t, kind>>]]
  BY <1>3
<1>5. QED
  BY <1>2, <1>4

LEMMA PopsOne ==
    ASSUME NEW t \in Threads, NEW kind \in {"events", "latched"},
           \A s \in Threads : s # t \/ kind # "events" => events'[s] = events[s],
           \A s \in Threads : s # t \/ kind # "latched" => latched'[s] = latched[s],
           NEW s, s = Contents[<<t, kind>>], s # <<>>,
           Contents'[<<t, kind>>] = SubSeq(s, 1, Len(s) - 1)
    PROVE  StackStep
<1>1. <<t, kind>> \in Owners
  BY DEF Owners
<1>2. Contents' = [Contents EXCEPT ![<<t, kind>>] = Contents'[<<t, kind>>]]
  BY OneStackChanges
<1>3. Contents[<<t, kind>>] # <<>>
  OBVIOUS
<1>4. Contents' = [Contents EXCEPT ![<<t, kind>>] = SubSeq(s, 1, Len(s) - 1)]
  BY <1>2
<1>5. Contents' = [Contents EXCEPT ![<<t, kind>>] = SubSeq(@, 1, Len(@) - 1)]
  BY <1>4
<1>6. Stacks!Pop(<<t, kind>>)
  BY <1>3, <1>5 DEF Stacks!Pop
<1>7. QED
  BY <1>1, <1>6 DEF StackStep, Stacks!StacksNext

\* One more object, after the oldest made room for it.
Pushed(s, s2) ==
    /\ s2 # <<>>
    /\ s2 = Append(IF Len(s) = EVENT_CACHE_CAPACITY THEN Tail(s) ELSE s, s2[Len(s2)])

LEMMA PushesOne ==
    ASSUME NEW t \in Threads, NEW kind \in {"events", "latched"},
           \A s \in Threads : s # t \/ kind # "events" => events'[s] = events[s],
           \A s \in Threads : s # t \/ kind # "latched" => latched'[s] = latched[s],
           Pushed(Contents[<<t, kind>>], Contents'[<<t, kind>>])
    PROVE  StackStep
<1>1. <<t, kind>> \in Owners
  BY DEF Owners
<1>2. PICK s, s2 : s = Contents[<<t, kind>>] /\ s2 = Contents'[<<t, kind>>]
  OBVIOUS
<1>3. Contents' = [Contents EXCEPT ![<<t, kind>>] = s2]
  BY <1>2, OneStackChanges
<1>4. /\ s2 # <<>>
      /\ s2 = Append(IF Len(s) = EVENT_CACHE_CAPACITY THEN Tail(s) ELSE s, s2[Len(s2)])
  BY <1>2 DEF Pushed
<1>5. Contents' = [Contents EXCEPT ![<<t, kind>>] =
                     Append(IF Len(Contents[<<t, kind>>]) = EVENT_CACHE_CAPACITY
                            THEN Tail(Contents[<<t, kind>>]) ELSE Contents[<<t, kind>>],
                            Contents'[<<t, kind>>][Len(Contents'[<<t, kind>>])])]
  BY <1>2, <1>3, <1>4
<1>6. Stacks!Push(<<t, kind>>)
  BY <1>2, <1>4, <1>5 DEF Stacks!Push
<1>7. QED
  BY <1>1, <1>6 DEF StackStep, Stacks!StacksNext

LEMMA RingsOf ==
    ASSUME FitNow, NEW t \in Threads
    PROVE  /\ events[t] \in Rings /\ latched[t] \in Pairs
           /\ events[t].entries \in [Slots -> Fds \cup {FD_INVALID}]
           /\ events[t].latest \in Slots
           /\ latched[t].inpolls \in [Slots -> Fds \cup {FD_INVALID}]
           /\ latched[t].event_cache \in Rings
           /\ latched[t].event_cache.latest \in Slots
           /\ RingShape(events[t].entries, events[t].latest)
           /\ RingShape(latched[t].event_cache.entries, latched[t].event_cache.latest)
           /\ RingShape(latched[t].inpolls, latched[t].event_cache.latest)
           /\ t \notin alive => \A i \in Slots : /\ events[t].entries[i] = FD_INVALID
                                                 /\ latched[t].inpolls[i] = FD_INVALID
<1>1. /\ events[t] \in Rings /\ latched[t] \in Pairs /\ RingsFit(t, alive, events, latched)
      /\ \A i \in Slots : PairFits(t, i, latched, objects)
  BY FitParts
<1>2. latched[t].event_cache \in Rings
  BY <1>1 DEF Pairs
<1>3. latched[t].event_cache.latest \in Slots
  BY <1>2 DEF Rings
<1>4. \A i \in Slots : latched[t].inpolls[i] = FD_INVALID
                          <=> latched[t].event_cache.entries[i] = FD_INVALID
  BY <1>1 DEF PairFits
<1>5. RingShape(latched[t].event_cache.entries, latched[t].event_cache.latest)
  BY <1>1 DEF RingsFit
<1>6. RingShape(latched[t].inpolls, latched[t].event_cache.latest)
  <2>1. PICK l, e, p : /\ l = latched[t].event_cache.latest
                       /\ e = latched[t].event_cache.entries /\ p = latched[t].inpolls
    OBVIOUS
  <2>2. ASSUME NEW m \in Slots, p[Back(l, m)] # FD_INVALID, NEW k \in 0..m
        PROVE  p[Back(l, k)] # FD_INVALID
    <3>1. k \in Slots
      BY Capacity
    <3>2. Back(l, m) \in Slots /\ Back(l, k) \in Slots
      BY <1>3, <2>1, <3>1, RingIndices
    <3>3. e[Back(l, m)] # FD_INVALID
      BY <1>4, <2>1, <2>2, <3>2
    <3>4. e[Back(l, k)] # FD_INVALID
      BY <1>5, <2>1, <3>3 DEF RingShape
    <3>5. QED
      BY <1>4, <2>1, <3>2, <3>4
  <2>3. QED
    BY <2>1, <2>2 DEF RingShape
<1>7. QED
  BY <1>1, <1>2, <1>3, <1>5, <1>6 DEF Rings, Pairs, RingsFit

\* A thread that has no caches has empty stacks.
LEMMA NoStacks ==
    ASSUME FitNow, NEW t \in Threads, t \notin alive
    PROVE  EventStack(events, t) = <<>> /\ PairStack(latched, t) = <<>>
  BY RingsOf, EmptyRingStack DEF EventStack, PairStack

LEMMA NoStacksNext ==
    ASSUME FitNow', NEW t \in Threads, t \notin alive'
    PROVE  EventStack(events', t) = <<>> /\ PairStack(latched', t) = <<>>
<1>1. /\ events'[t] \in Rings /\ latched'[t] \in Pairs
      /\ RingsFit(t, alive', events', latched')
  BY DEF FitNow, Fit, Typed, AllRingsFit
<1>2. /\ events'[t].entries \in [Slots -> Fds \cup {FD_INVALID}]
      /\ events'[t].latest \in Slots
      /\ latched'[t].inpolls \in [Slots -> Fds \cup {FD_INVALID}]
      /\ latched'[t].event_cache.latest \in Slots
  BY <1>1 DEF Rings, Pairs
<1>3. \A i \in Slots : /\ events'[t].entries[i] = FD_INVALID
                       /\ latched'[t].inpolls[i] = FD_INVALID
  BY <1>1 DEF RingsFit
<1>4. QED
  BY <1>2, <1>3, EmptyRingStack DEF EventStack, PairStack

LEMMA StartThreadStacks ==
    ASSUME FitNow, NEW t \in Threads, StartThread(t)
    PROVE  StackStep
<1>1. /\ t \notin alive /\ events \in [Threads -> Rings] /\ latched \in [Threads -> Pairs]
      /\ events' = [events EXCEPT ![t] = EmptyRing]
      /\ latched' = [latched EXCEPT ![t] = EmptyPairs]
  BY FitParts DEF StartThread
<1>2. EventStack(events, t) = <<>> /\ PairStack(latched, t) = <<>>
  BY <1>1, NoStacks
<1>3. EventStack(events', t) = <<>> /\ PairStack(latched', t) = <<>>
  <2>1. events'[t] = EmptyRing /\ latched'[t] = EmptyPairs
    BY <1>1
  <2>2. /\ EmptyRing.entries \in [Slots -> Fds \cup {FD_INVALID}]
        /\ EmptyRing.latest = 0 /\ 0 \in Slots /\ EmptyPairs.event_cache = EmptyRing
        /\ EmptyPairs.inpolls \in [Slots -> Fds \cup {FD_INVALID}]
        /\ \A i \in Slots : EmptyRing.entries[i] = FD_INVALID
                            /\ EmptyPairs.inpolls[i] = FD_INVALID
    BY Capacity DEF EmptyRing, EmptyPairs
  <2>3. QED
    BY <2>1, <2>2, EmptyRingStack DEF EventStack, PairStack
<1>4. ASSUME NEW o \in Owners
      PROVE  Contents'[o] = Contents[o]
  <2>1. PICK s \in Threads : o = <<s, "events">> \/ o = <<s, "latched">>
    BY OwnerCases
  <2>2. s # t => events'[s] = events[s] /\ latched'[s] = latched[s]
    BY <1>1
  <2>3. EventStack(events', s) = EventStack(events, s)
        /\ PairStack(latched', s) = PairStack(latched, s)
    BY <1>2, <1>3, <2>2 DEF EventStack, PairStack
  <2>4. QED
    BY <2>1, <2>3, ContentsOf, NextContentsOf
<1>5. Contents' = Contents
  <2>1. PICK c, c2 : c = Contents /\ c2 = Contents'
    OBVIOUS
  <2>2. /\ c = [o \in Owners |-> c[o]] /\ c2 = [o \in Owners |-> c2[o]]
        /\ \A o \in Owners : c2[o] = c[o]
    BY <1>4, <2>1, ContentsOf, NextContentsOf
  <2>3. c2 = c
    BY <2>2
  <2>4. QED
    BY <2>1, <2>3
<1>6. QED
  BY <1>5 DEF StackStep

LEMMA FinalizeThreadStacks ==
    ASSUME FitNow, NEW t \in Threads, FinalizeThread(t)
    PROVE  StackStep
<1>1. /\ t \notin alive' /\ \A s \in Threads : s # t => events'[s] = events[s]
      /\ \A s \in Threads : s # t => latched'[s] = latched[s]
  BY FitParts DEF FinalizeThread
<1>2. FitNow'
  BY FinalizeThreadFits
<1>3. EventStack(events', t) = <<>> /\ PairStack(latched', t) = <<>>
  BY <1>1, <1>2, NoStacksNext
<1>4. PICK os : os = {<<t, "events">>, <<t, "latched">>}
  OBVIOUS
<1>5. os \in SUBSET Owners
  BY <1>4, OwnerCases
<1>6. ASSUME NEW o \in Owners
      PROVE  Contents'[o] = IF o \in os THEN <<>> ELSE Contents[o]
  <2>1. PICK s \in Threads : o = <<s, "events">> \/ o = <<s, "latched">>
    BY OwnerCases
  <2>2. CASE s = t
    BY <1>3, <1>4, <2>1, <2>2, NextContentsOf
  <2>3. CASE s # t
    <3>1. o \notin os
      BY <1>4, <2>1, <2>3
    <3>2. EventStack(events', s) = EventStack(events, s)
          /\ PairStack(latched', s) = PairStack(latched, s)
      BY <1>1, <2>3 DEF EventStack, PairStack
    <3>3. QED
      BY <2>1, <3>1, <3>2, ContentsOf, NextContentsOf
  <2>4. QED
    BY <2>2, <2>3
<1>7. Contents' = [o \in Owners |-> IF o \in os THEN <<>> ELSE Contents[o]]
  <2>1. PICK c2 : c2 = Contents'
    OBVIOUS
  <2>2. c2 = [o \in Owners |-> c2[o]]
        /\ \A o \in Owners : c2[o] = IF o \in os THEN <<>> ELSE Contents[o]
    BY <1>6, <2>1, NextContentsOf
  <2>3. c2 = [o \in Owners |-> IF o \in os THEN <<>> ELSE Contents[o]]
    BY <2>2
  <2>4. QED
    BY <2>1, <2>3
<1>8. Stacks!Clear(os)
  BY <1>7 DEF Stacks!Clear
<1>9. QED
  BY <1>5, <1>8 DEF StackStep, Stacks!StacksNext

LEMMA CachesStay ==
    ASSUME events' = events, latched' = latched
    PROVE  StackStep
  BY DEF StackStep, Contents

LEMMA AllocateCustomStacks ==
    ASSUME FitNow, NEW t \in Threads, NEW f \in Futures, AllocateCustom(t, f)
    PROVE  StackStep
<1> DEFINE ring == events[t]
<1>1. /\ events \in [Threads -> Rings] /\ latched' = latched
      /\ events' = [events EXCEPT ![t] = event_cache_allocate(objects, t).ring]
  BY FitParts DEF AllocateCustom
<1>2. CASE LatestOf(ring) = FD_INVALID
  <2>1. event_cache_allocate(objects, t).ring = events[t]
    BY <1>2 DEF event_cache_allocate
  <2>2. events' = events
    BY <1>1, <2>1
  <2>3. QED
    BY <1>1, <2>2, CachesStay
<1>3. CASE LatestOf(ring) # FD_INVALID
  <2>1. PICK r2 : r2 = TakeLatest(ring)
    OBVIOUS
  <2>2. event_cache_allocate(objects, t).ring = r2
    BY <1>3, <2>1 DEF event_cache_allocate
  <2>3. events'[t] = r2 /\ \A s \in Threads : s # t => events'[s] = events[s]
    BY <1>1, <2>2
  <2>4. /\ r2 \in Rings /\ r2.entries[ring.latest] = FD_INVALID
        /\ \A i \in Slots : i # ring.latest => r2.entries[i] = ring.entries[i]
        /\ r2.latest = sync_cache_decrement_index(ring.latest)
    BY <2>1, RingsOf, TakeEffect
  <2>5. /\ ring.entries \in [Slots -> Fds \cup {FD_INVALID}] /\ ring.latest \in Slots
        /\ RingShape(ring.entries, ring.latest) /\ ring.entries[ring.latest] # FD_INVALID
    BY <1>3, RingsOf DEF LatestOf
  <2>6. r2.entries \in [Slots -> Fds \cup {FD_INVALID}] /\ r2.latest \in Slots
    BY <2>4 DEF Rings
  <2>7. PICK s, s2 : s = EventStack(events, t) /\ s2 = EventStack(events', t)
    OBVIOUS
  <2>8. s = OldestFirst(ring.entries, ring.latest) /\ s2 = OldestFirst(r2.entries, r2.latest)
    BY <2>3, <2>7 DEF EventStack
  <2>9. \A i \in Slots : r2.entries[i] = IF i = ring.latest THEN FD_INVALID ELSE ring.entries[i]
    BY <2>4
  <2>10. s # <<>> /\ s2 = SubSeq(s, 1, Len(s) - 1)
    BY <2>4, <2>5, <2>6, <2>8, <2>9, TakeStack
  <2>11. s = Contents[<<t, "events">>] /\ s2 = Contents'[<<t, "events">>]
    BY <2>7, ContentsOf, NextContentsOf
  <2>12. QED
    BY <1>1, <2>3, <2>10, <2>11, PopsOne
<1>4. QED
  BY <1>2, <1>3

LEMMA AllocateLatchedStacks ==
    ASSUME FitNow, NEW t \in Threads, NEW f \in Futures, NEW type, NEW upstream,
           AllocateLatched(t, f, type, upstream)
    PROVE  StackStep
<1>1. PICK objs1 : /\ latched' = [latched EXCEPT ![t] =
                         latched_inpoll_cache_allocate(objs1, t).cache]
                   /\ events' = events
  BY DEF AllocateLatched
<1>2. latched \in [Threads -> Pairs]
  BY FitParts
<1>3. PICK ring, x : ring = latched[t].event_cache /\ x = ring.latest
  OBVIOUS
<1>4. CASE latched[t].inpolls[x] = FD_INVALID
  <2>1. latched_inpoll_cache_allocate(objs1, t).cache = latched[t]
    BY <1>3, <1>4 DEF latched_inpoll_cache_allocate
  <2>2. latched' = latched
    BY <1>1, <1>2, <2>1
  <2>3. QED
    BY <1>1, <2>2, CachesStay
<1>5. CASE latched[t].inpolls[x] # FD_INVALID
  <2>1. PICK p, p2, r2 : /\ p = latched[t].inpolls /\ p2 = [p EXCEPT ![x] = FD_INVALID]
                         /\ r2 = TakeLatest(ring)
    OBVIOUS
  <2>2. latched_inpoll_cache_allocate(objs1, t).cache = [inpolls |-> p2, event_cache |-> r2]
    BY <1>3, <1>5, <2>1 DEF latched_inpoll_cache_allocate
  <2>3. /\ latched'[t].inpolls = p2 /\ latched'[t].event_cache = r2
        /\ \A s \in Threads : s # t => latched'[s] = latched[s]
    BY <1>1, <1>2, <2>2
  <2>4. /\ p \in [Slots -> Fds \cup {FD_INVALID}] /\ x \in Slots /\ ring \in Rings
        /\ RingShape(p, x) /\ RingShape(ring.entries, x) /\ p[x] # FD_INVALID
    BY <1>3, <1>5, <2>1, RingsOf
  <2>5. r2 \in Rings /\ r2.latest = sync_cache_decrement_index(x)
    BY <1>3, <2>1, <2>4, TakeEffect
  <2>6. r2.latest \in Slots
    BY <2>5 DEF Rings
  <2>7. /\ p2 \in [Slots -> Fds \cup {FD_INVALID}]
        /\ \A i \in Slots : p2[i] = IF i = x THEN FD_INVALID ELSE p[i]
    BY <2>1, <2>4
  <2>8. PICK s, s2 : s = PairStack(latched, t) /\ s2 = PairStack(latched', t)
    OBVIOUS
  <2>9. s = OldestFirst(p, x) /\ s2 = OldestFirst(p2, r2.latest)
    BY <1>3, <2>1, <2>3, <2>8 DEF PairStack
  <2>10. s # <<>> /\ s2 = SubSeq(s, 1, Len(s) - 1)
    BY <2>4, <2>5, <2>6, <2>7, <2>9, TakeStack
  <2>11. s = Contents[<<t, "latched">>] /\ s2 = Contents'[<<t, "latched">>]
    BY <2>8, ContentsOf, NextContentsOf
  <2>12. QED
    BY <1>1, <2>3, <2>10, <2>11, PopsOne
<1>6. QED
  BY <1>4, <1>5

\* event_cache_liberate() of an event of a future, whoever held it.
LEMMA LiberateEventStacks ==
    ASSUME FitNow, NEW t \in Threads, NEW d \in Fds, latched' = latched,
           events' = [events EXCEPT ![t] = event_cache_liberate(events[t], d)]
    PROVE  StackStep
<1> DEFINE ring == events[t]
<1>1. events \in [Threads -> Rings]
  BY FitParts
<1>2. PICK r2, n : r2 = event_cache_liberate(ring, d) /\ n = After(ring.latest)
  OBVIOUS
<1>3. events'[t] = r2 /\ \A s \in Threads : s # t => events'[s] = events[s]
  BY <1>1, <1>2
<1>4. /\ ring.entries \in [Slots -> Fds \cup {FD_INVALID}] /\ ring.latest \in Slots
      /\ RingShape(ring.entries, ring.latest)
  BY RingsOf
<1>5. /\ n \in Slots /\ r2 \in Rings /\ r2.entries[n] = d /\ r2.latest = n
      /\ \A i \in Slots : i # n => r2.entries[i] = ring.entries[i]
  BY <1>2, RingsOf, AddEffect
<1>6. /\ r2.entries \in [Slots -> Fds \cup {FD_INVALID}]
      /\ \A i \in Slots : r2.entries[i] = IF i = n THEN d ELSE ring.entries[i]
  BY <1>5 DEF Rings
<1>7. PICK s, s2 : s = EventStack(events, t) /\ s2 = EventStack(events', t)
  OBVIOUS
<1>8. s = OldestFirst(ring.entries, ring.latest) /\ s2 = OldestFirst(r2.entries, n)
  BY <1>3, <1>5, <1>7 DEF EventStack
<1>9. /\ s2 # <<>> /\ s2[Len(s2)] = d
      /\ s2 = Append(IF Len(s) = EVENT_CACHE_CAPACITY THEN Tail(s) ELSE s, d)
  BY <1>2, <1>4, <1>5, <1>6, <1>8, AddStack
<1>10. s = Contents[<<t, "events">>] /\ s2 = Contents'[<<t, "events">>]
  BY <1>7, ContentsOf, NextContentsOf
<1>11. Pushed(s, s2)
  BY <1>9 DEF Pushed
<1>12. Pushed(Contents[<<t, "events">>], Contents'[<<t, "events">>])
  BY <1>10, <1>11
<1>13. QED
  BY <1>3, <1>12, PushesOne

\* latched_inpoll_cache_liberate() of a pair.
LEMMA LiberatePairStacks ==
    ASSUME FitNow, NEW t \in Threads, NEW inpoll \in Fds, NEW latch \in Fds,
           events' = events,
           latched' = [latched EXCEPT ![t] =
                         latched_inpoll_cache_liberate(latched[t], inpoll, latch)]
    PROVE  StackStep
<1>1. latched \in [Threads -> Pairs]
  BY FitParts
<1>2. PICK ring, x, r2, n : /\ ring = latched[t].event_cache /\ x = ring.latest
                            /\ r2 = event_cache_liberate(ring, latch) /\ n = After(x)
  OBVIOUS
<1>3. PICK p, p2 : p = latched[t].inpolls /\ p2 = [p EXCEPT ![r2.latest] = inpoll]
  OBVIOUS
<1>4. latched_inpoll_cache_liberate(latched[t], inpoll, latch)
         = [inpolls |-> p2, event_cache |-> r2]
  BY <1>2, <1>3 DEF latched_inpoll_cache_liberate
<1>5. /\ latched'[t].inpolls = p2 /\ latched'[t].event_cache = r2
      /\ \A s \in Threads : s # t => latched'[s] = latched[s]
  BY <1>1, <1>4
<1>6. /\ p \in [Slots -> Fds \cup {FD_INVALID}] /\ x \in Slots /\ ring \in Rings
      /\ RingShape(p, x) /\ RingShape(ring.entries, ring.latest)
  BY <1>2, <1>3, RingsOf
<1>7. n \in Slots /\ r2.latest = n
  BY <1>2, <1>6, AddEffect
<1>8. /\ p2 \in [Slots -> Fds \cup {FD_INVALID}]
      /\ \A i \in Slots : p2[i] = IF i = n THEN inpoll ELSE p[i]
  BY <1>3, <1>6, <1>7
<1>9. PICK s, s2 : s = PairStack(latched, t) /\ s2 = PairStack(latched', t)
  OBVIOUS
<1>10. s = OldestFirst(p, x) /\ s2 = OldestFirst(p2, n)
  BY <1>2, <1>3, <1>5, <1>7, <1>9 DEF PairStack
<1>11. /\ s2 # <<>> /\ s2[Len(s2)] = inpoll
       /\ s2 = Append(IF Len(s) = EVENT_CACHE_CAPACITY THEN Tail(s) ELSE s, inpoll)
  BY <1>2, <1>6, <1>7, <1>8, <1>10, AddStack
<1>12. s = Contents[<<t, "latched">>] /\ s2 = Contents'[<<t, "latched">>]
  BY <1>9, ContentsOf, NextContentsOf
<1>13. Pushed(s, s2)
  BY <1>11 DEF Pushed
<1>14. Pushed(Contents[<<t, "latched">>], Contents'[<<t, "latched">>])
  BY <1>12, <1>13
<1>15. QED
  BY <1>5, <1>14, PushesOne

LEMMA LiberateStacks ==
    ASSUME FitNow, NEW t \in Threads, NEW f \in Futures, Liberate(t, f)
    PROVE  StackStep
<1>1. /\ future[f].type # "INVALID" => future[f].sync \in Fds
      /\ future[f].type \in Latched => future[f].latch \in Fds
  BY FitParts DEF FutureFits
<1>2. CASE LiberateCustom(t, f)
  <2>1. future[f].sync \in Fds
    BY <1>1, <1>2 DEF LiberateCustom
  <2>2. QED
    BY <1>2, <2>1, LiberateEventStacks DEF LiberateCustom
<1>3. CASE LiberateTimerOnce(t, f)
  BY <1>3, CachesStay DEF LiberateTimerOnce, caches
<1>4. CASE LiberateJoin(t, f)
  <2>1. future[f].latch \in Fds
    BY <1>1, <1>4 DEF LiberateJoin, Latched, Collective
  <2>2. QED
    BY <1>4, <2>1, LiberateEventStacks DEF LiberateJoin
<1>5. CASE LiberateChained(t, f)
  <2>1. future[f].latch \in Fds /\ future[f].sync \in Fds
    BY <1>1, <1>5 DEF LiberateChained, Latched, Collective
  <2>2. QED
    BY <1>5, <2>1, LiberatePairStacks DEF LiberateChained
<1>6. QED
  BY <1>2, <1>3, <1>4, <1>5 DEF Liberate

LEMMA AllocateStacks ==
    ASSUME FitNow, NEW t \in Threads, NEW f \in Futures, Allocate(t, f)
    PROVE  StackStep
<1>1. CASE AllocateTimerOnce(t, f)
  BY <1>1, CachesStay DEF AllocateTimerOnce, caches
<1>2. QED
  BY <1>1, AllocateCustomStacks, AllocateLatchedStacks DEF Allocate

LEMMA NextStacks ==
    ASSUME FitNow, [Next]_vars
    PROVE  StackStep
<1>1. FitNow
  OBVIOUS
<1>2. ASSUME NEW f \in Futures, NEW g \in Futures, Signal(f) \/ DetachSettled(f, g)
      PROVE  StackStep
  BY <1>2, CachesStay DEF Signal, DetachSettled, caches
<1>3. CASE UNCHANGED vars
  BY <1>3, CachesStay DEF vars
<1>4. QED
  BY <1>1, <1>2, <1>3, StartThreadStacks, FinalizeThreadStacks, AllocateStacks,
     LiberateStacks DEF Next

\* The caches of threads that have not started are empty stacks.
LEMMA InitStacks ==
    ASSUME Init
    PROVE  Stacks!StacksInit
<1>1. FitNow /\ alive = {}
  BY InitFits DEF Init
<1>2. ASSUME NEW o \in Owners
      PROVE  Contents[o] = <<>>
  <2>1. PICK s \in Threads : o = <<s, "events">> \/ o = <<s, "latched">>
    BY OwnerCases
  <2>2. EventStack(events, s) = <<>> /\ PairStack(latched, s) = <<>>
    BY <1>1, NoStacks
  <2>3. QED
    BY <2>1, <2>2, ContentsOf
<1>3. Contents = [o \in Owners |-> <<>>]
  <2>1. PICK c : c = Contents
    OBVIOUS
  <2>2. c = [o \in Owners |-> c[o]] /\ \A o \in Owners : c[o] = <<>>
    BY <1>2, <2>1, ContentsOf
  <2>3. c = [o \in Owners |-> <<>>]
    BY <2>2
  <2>4. QED
    BY <2>1, <2>3
<1>4. QED
  BY <1>3 DEF Stacks!StacksInit

(***************************************************************************)
(* event_cache_allocate() and latched_inpoll_cache_allocate() reuse the    *)
(* object that was liberated last, a full cache drops its oldest entry and *)
(* event_cache_finalize() empties it: the rings with their wrapping        *)
(* indices are stacks, whatever their capacity.                            *)
(***************************************************************************)
THEOREM SyncImplementsStacks == Spec => ImplementsStacks
<1>1. Init => Stacks!StacksInit
  BY InitStacks
<1>2. FitNow /\ [Next]_vars => [Stacks!StacksNext]_Contents
  <2>1. SUFFICES ASSUME FitNow, [Next]_vars PROVE [Stacks!StacksNext]_Contents
    OBVIOUS
  <2>2. Stacks!StacksNext \/ Contents' = Contents
    BY <2>1, NextStacks DEF StackStep
  <2>3. QED
    BY <2>2
<1>3. QED
  BY <1>1, <1>2, SyncInvariance, PTL DEF Spec, ImplementsStacks, Stacks!StacksSpec
=============================================================================
