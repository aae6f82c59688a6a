------------------------ MODULE FutureAllocatorProofs ------------------------
(***************************************************************************)
(* Proofs about FutureAllocator, for any number of threads, futures, pages *)
(* and slots: the caches keep their shape, every future is in one place,   *)
(* and storage does not grow while too many futures are hoarded.           *)
(*                                                                         *)
(* The first part is about the operations of PointerCache one by one.  For *)
(* each of them: it keeps the shape of a cache (Good), it keeps the        *)
(* futures of the cache distinct (Distinct), and it adds or removes the    *)
(* futures that it should (Held).  The bisection and the spill are         *)
(* recursive functions; their lemmas consider the least number for which   *)
(* the claim would fail.  The second part shows that the steps of the      *)
(* threads pass futures from one to the other without sharing any.         *)
(***************************************************************************)
EXTENDS FutureAllocator, FiniteSetTheorems, SequenceTheorems, WellFoundedInduction, TLAPS


\* Every non-empty set of natural numbers has a least element.  The inductions
\* below look at the least number for which a claim fails.
LEMMA LeastNumber ==
  ASSUME NEW N, N \subseteq Nat, N # {}
  PROVE  \E n \in N : \A m \in N : n <= m
<1> DEFINE T == {0 .. n : n \in N}
<1>1. T \subseteq FiniteSubsetsOf(Nat) /\ T # {}
  <2>1. \A n \in N : 0 .. n \in SUBSET Nat /\ IsFiniteSet(0 .. n)
    BY FS_Interval
  <2>2. QED
    BY <2>1 DEF FiniteSubsetsOf
<1>2. PICK x \in T : \A y \in T : <<y, x>> \notin StrictSubsetOrdering(Nat)
  <2>1. IsWellFoundedOn(StrictSubsetOrdering(Nat), FiniteSubsetsOf(Nat))
    BY FS_StrictSubsetOrderingWellFounded
  <2> HIDE DEF T
  <2>2. QED
    BY <1>1, <2>1, WFMin
<1>3. PICK n \in N : x = 0 .. n
  OBVIOUS
<1>4. ASSUME NEW m \in N, m < n
      PROVE  FALSE
  <2>1. 0 .. m \in T /\ 0 .. m \subseteq 0 .. n /\ 0 .. m # 0 .. n
    <3>1. n \in 0 .. n /\ n \notin 0 .. m
      BY <1>4
    <3>2. QED
      BY <1>4, <3>1
  <2>2. <<0 .. m, 0 .. n>> \in StrictSubsetOrdering(Nat)
    <3>1. 0 .. m \in SUBSET Nat /\ 0 .. n \in SUBSET Nat
      OBVIOUS
    <3>2. QED
      BY <2>1, <3>1 DEF StrictSubsetOrdering
  <2>3. QED
    BY <1>2, <1>3, <2>1, <2>2
<1>5. QED
  BY <1>4

-----------------------------------------------------------------------------
(* Pages.                                                                    *)

\* A page that starts with k futures and has none after them.
Prefix(page, k) ==
  /\ page \in Pages
  /\ k \in 0 .. PAGE_CAPACITY
  /\ \A i \in Slots : page[i] # NULL <=> i <= k

\* What the bisection answers, between any two slots, in such a page.
Bisected(k, present, absent) ==
  IF absent <= present THEN 0
  ELSE IF absent <= k THEN absent - 1
  ELSE IF present > k THEN present
  ELSE k

\* The middle of a range of at least two lies strictly inside of it.
LEMMA Midpoint ==
  ASSUME NEW a \in Int, NEW b \in Int
  PROVE  /\ a + (b - a) \div 2 \in Int
         /\ b > a + 1 => a < a + (b - a) \div 2 /\ a + (b - a) \div 2 < b
         /\ b <= a => b <= a + (b - a) \div 2 /\ a + (b - a) \div 2 <= a
<1>1. PICK d \in Int : d = b - a
  OBVIOUS
<1>2. d \div 2 \in Int /\ 2 * (d \div 2) <= d /\ d < 2 * (d \div 2) + 2
  BY Z3
<1>3. QED
  BY <1>1, <1>2

\* future_pointer_page_occupancy() finds the number of futures of a page.
LEMMA OccupancyCounts ==
  ASSUME NEW page, NEW k, Prefix(page, k)
  PROVE  Occupancy(page) = k
<1> DEFINE Half(a, b) == a + (b - a) \div 2
           Body(f, a, b) == IF b = a + 1 THEN a
                            ELSE IF page[Half(a, b)] # NULL THEN f[<<Half(a, b), b>>]
                            ELSE f[<<a, Half(a, b)>>]
           Range2 == (1 .. PAGE_CAPACITY) \X (1 .. PAGE_CAPACITY)
           search == CHOOSE f : f = [r \in Range2 |-> Body(f, r[1], r[2])]
<1>1. PAGE_CAPACITY \in Nat \ {0} /\ Slots = 1 .. PAGE_CAPACITY
  BY PagesAssumption DEF Slots
<1>2. ASSUME NEW a \in Slots, NEW b \in Slots, b # a + 1
      PROVE  /\ Half(a, b) \in Slots
             /\ b > a + 1 => a < Half(a, b) /\ Half(a, b) < b
             /\ b <= a => b <= Half(a, b) /\ Half(a, b) <= a
  BY <1>1, <1>2, Midpoint
<1>3. search = [r \in Range2 |-> Body(search, r[1], r[2])]
  <2> DEFINE g == [r \in Range2 |-> Bisected(k, r[1], r[2])]
  <2>1. \A a, b \in Slots : g[<<a, b>>] = Bisected(k, a, b)
    BY <1>1
  <2>2. ASSUME NEW a \in Slots, NEW b \in Slots
        PROVE  Bisected(k, a, b) = Body(g, a, b)
    <3>1. CASE b = a + 1
      BY <1>1, <3>1 DEF Bisected, Prefix
    <3>2. CASE b # a + 1
      <4>1. PICK h \in Slots : h = Half(a, b)
        BY <1>2, <3>2
      <4>2. (b > a + 1 => a < h /\ h < b) /\ (b <= a => b <= h /\ h <= a)
        BY <1>2, <3>2, <4>1
      <4>3. page[h] # NULL <=> h <= k
        BY DEF Prefix
      <4>4. g[<<h, b>>] = Bisected(k, h, b) /\ g[<<a, h>>] = Bisected(k, a, h)
        BY <2>1
      <4>5. k \in Nat
        BY <1>1 DEF Prefix
      <4> HIDE DEF g
      <4>6. Body(g, a, b) = IF h <= k THEN g[<<h, b>>] ELSE g[<<a, h>>]
        BY <3>2, <4>1, <4>3
      <4> HIDE DEF Half, Body
      <4>7. QED
        BY <1>1, <3>2, <4>2, <4>4, <4>5, <4>6 DEF Bisected
    <3>3. QED
      BY <3>1, <3>2
  <2> HIDE DEF Body
  <2>3. g = [r \in Range2 |-> Body(g, r[1], r[2])]
    BY <2>2, <1>1
  <2>4. QED
    BY <2>3
<1> HIDE DEF search
<1>4. \A a, b \in Slots : search[<<a, b>>] = Body(search, a, b)
  BY <1>1, <1>3
<1>5. ASSUME NEW a \in Slots, NEW b \in Slots, a <= k, k < b
      PROVE  search[<<a, b>>] = k
  <2> DEFINE Bad == {n \in Nat : \E c, d \in Slots : c <= k /\ k < d /\ n = d - c
                                                     /\ search[<<c, d>>] # k}
  <2>0. k \in Nat
    BY <1>1 DEF Prefix
  <2>1. SUFFICES ASSUME Bad # {} PROVE FALSE
    <3>1. b - a \in Nat
      BY <1>1, <1>5, <2>0
    <3>2. QED
      BY <1>5, <3>1
  <2>2. PICK n \in Bad : \A m \in Bad : n <= m
    BY <2>1, LeastNumber
  <2>a. n \in Nat
    BY <2>2
  <2>3. PICK c, d \in Slots : c <= k /\ k < d /\ n = d - c /\ search[<<c, d>>] # k
    BY <2>2
  <2>4. d # c + 1
    <3>1. SUFFICES ASSUME d = c + 1 PROVE FALSE
      OBVIOUS
    <3>2. search[<<c, d>>] = c
      BY <1>4, <3>1
    <3>3. c = k
      BY <1>1, <2>0, <2>3, <3>1
    <3>4. QED
      BY <2>3, <3>2, <3>3
  <2>5. PICK h \in Slots : h = Half(c, d)
    BY <1>2, <2>4
  <2>6. c < h /\ h < d
    BY <1>1, <1>2, <2>0, <2>3, <2>4, <2>5
  <2>7. page[h] # NULL <=> h <= k
    BY DEF Prefix
  <2>8. search[<<c, d>>] = IF h <= k THEN search[<<h, d>>] ELSE search[<<c, h>>]
    BY <1>4, <2>4, <2>5, <2>7
  <2>9. h <= k => search[<<h, d>>] = k
    <3>1. SUFFICES ASSUME h <= k, search[<<h, d>>] # k PROVE FALSE
      OBVIOUS
    <3>2. d - h \in Nat /\ d - h < n
      BY <1>1, <2>0, <2>3, <2>6
    <3>3. d - h \in Bad
      BY <3>1, <3>2, <2>3
    <3>4. n <= d - h
      BY <2>2, <3>3
    <3>5. QED
      BY <2>a, <3>2, <3>4
  <2>10. ~(h <= k) => search[<<c, h>>] = k
    <3>1. SUFFICES ASSUME k < h, search[<<c, h>>] # k PROVE FALSE
      BY <1>1, <2>0
    <3>2. h - c \in Nat /\ h - c < n
      BY <1>1, <2>0, <2>3, <2>6
    <3>3. h - c \in Bad
      BY <3>1, <3>2, <2>3
    <3>4. n <= h - c
      BY <2>2, <3>3
    <3>5. QED
      BY <2>a, <3>2, <3>4
  <2>11. QED
    BY <2>3, <2>8, <2>9, <2>10
<1>6. Occupancy(page) = IF page[1] = NULL THEN 0
                        ELSE IF page[PAGE_CAPACITY] # NULL THEN PAGE_CAPACITY
                        ELSE search[<<1, PAGE_CAPACITY>>]
  BY DEF Occupancy, OccupancyOf, search
<1>7. 1 \in Slots /\ PAGE_CAPACITY \in Slots
  BY <1>1
<1>8. (page[1] # NULL <=> 1 <= k) /\ (page[PAGE_CAPACITY] # NULL <=> PAGE_CAPACITY <= k)
      /\ k \in Nat /\ k <= PAGE_CAPACITY
  BY <1>1, <1>7 DEF Prefix
<1>9. QED
  BY <1>1, <1>5, <1>6, <1>7, <1>8

-----------------------------------------------------------------------------
(* Sequences of pages.                                                       *)

\* `long' is `short' with one more page at position k.
Inserted(short, long, k, page) ==
  /\ short \in Seq(Pages) /\ long \in Seq(Pages) /\ page \in Pages
  /\ Len(long) = Len(short) + 1
  /\ k \in 1 .. Len(long)
  /\ \A n \in 1 .. Len(long) :
       long[n] = IF n < k THEN short[n] ELSE IF n = k THEN page ELSE short[n - 1]

\* InsertAt puts a page where it says.
LEMMA InsertAtInserts ==
  ASSUME NEW ps \in Seq(Pages), NEW k \in 1 .. Len(ps) + 1, NEW page \in Pages
  PROVE  Inserted(ps, InsertAt(ps, k, page), k, page)
<1>1. Len(ps) \in Nat /\ k \in Nat /\ \A n \in 1 .. Len(ps) : ps[n] \in Pages
  BY LenProperties, ElementOfSeq
<1>2. PICK front : front = SubSeq(ps, 1, k - 1)
  OBVIOUS
<1>3. PICK back : back = SubSeq(ps, k, Len(ps))
  OBVIOUS
<1>4. /\ front \in Seq(Pages) /\ Len(front) = k - 1
      /\ \A n \in 1 .. k - 1 : front[n] = ps[n]
  BY <1>1, <1>2
<1>5. /\ back \in Seq(Pages) /\ Len(back) = Len(ps) - k + 1
      /\ \A n \in 1 .. Len(ps) - k + 1 : back[n] = ps[k + n - 1]
  BY <1>1, <1>3
<1>6. PICK mid : mid = front \o <<page>>
  OBVIOUS
<1>7. /\ mid \in Seq(Pages) /\ Len(mid) = k
      /\ \A n \in 1 .. k : mid[n] = IF n < k THEN ps[n] ELSE page
  <2>1. <<page>> \in Seq(Pages) /\ Len(<<page>>) = 1 /\ <<page>>[1] = page
    OBVIOUS
  <2>2. /\ mid \in Seq(Pages) /\ Len(mid) = k
        /\ \A n \in 1 .. k : mid[n] = IF n <= k - 1 THEN front[n] ELSE <<page>>[n - (k - 1)]
    BY <1>1, <1>4, <1>6, <2>1, ConcatProperties
  <2>3. QED
    BY <1>1, <1>4, <2>1, <2>2
<1>8. PICK long : long = mid \o back
  OBVIOUS
<1>9. /\ long \in Seq(Pages) /\ Len(long) = Len(ps) + 1
      /\ \A n \in 1 .. Len(ps) + 1 : long[n] = IF n <= k THEN mid[n] ELSE back[n - k]
  <2>1. /\ long \in Seq(Pages) /\ Len(long) = Len(mid) + Len(back)
        /\ \A n \in 1 .. Len(mid) + Len(back) :
             long[n] = IF n <= Len(mid) THEN mid[n] ELSE back[n - Len(mid)]
    BY <1>5, <1>7, <1>8, ConcatProperties
  <2>2. Len(mid) + Len(back) = Len(ps) + 1
    BY <1>1, <1>5, <1>7
  <2>3. QED
    BY <1>7, <2>1, <2>2
<1>10. \A n \in 1 .. Len(ps) + 1 :
          long[n] = IF n < k THEN ps[n] ELSE IF n = k THEN page ELSE ps[n - 1]
  <2>1. ASSUME NEW n \in 1 .. Len(ps) + 1
        PROVE  long[n] = IF n < k THEN ps[n] ELSE IF n = k THEN page ELSE ps[n - 1]
    <3>1. CASE n <= k
      <4>1. n \in 1 .. k
        BY <1>1, <3>1
      <4>2. QED
        BY <1>1, <1>7, <1>9, <3>1, <4>1
    <3>2. CASE n > k
      <4>1. n - k \in 1 .. Len(ps) - k + 1 /\ k + (n - k) - 1 = n - 1
        BY <1>1, <3>2
      <4>2. QED
        BY <1>1, <1>5, <1>9, <3>2, <4>1
    <3>3. QED
      BY <1>1, <3>1, <3>2
  <2>2. QED
    BY <2>1
<1>11. InsertAt(ps, k, page) = long
  BY <1>2, <1>3, <1>6, <1>8 DEF InsertAt
<1>12. QED
  BY <1>1, <1>9, <1>10, <1>11 DEF Inserted

\* RemoveAt is undone by putting the page back.
LEMMA RemoveAtInserts ==
  ASSUME NEW ps \in Seq(Pages), NEW k \in 1 .. Len(ps)
  PROVE  Inserted(RemoveAt(ps, k), ps, k, ps[k])
<1>1. Len(ps) \in Nat /\ k \in Nat /\ \A n \in 1 .. Len(ps) : ps[n] \in Pages
  BY LenProperties, ElementOfSeq
<1>2. PICK front : front = SubSeq(ps, 1, k - 1)
  OBVIOUS
<1>3. PICK back : back = SubSeq(ps, k + 1, Len(ps))
  OBVIOUS
<1>4. /\ front \in Seq(Pages) /\ Len(front) = k - 1
      /\ \A n \in 1 .. k - 1 : front[n] = ps[n]
  BY <1>1, <1>2
<1>5. /\ back \in Seq(Pages) /\ Len(back) = Len(ps) - k
      /\ \A n \in 1 .. Len(ps) - k : back[n] = ps[k + n]
  BY <1>1, <1>3
<1>6. PICK short : short = front \o back
  OBVIOUS
<1>7. /\ short \in Seq(Pages) /\ Len(short) = Len(ps) - 1
      /\ \A n \in 1 .. Len(ps) - 1 : short[n] = IF n <= k - 1 THEN front[n] ELSE back[n - (k - 1)]
  BY <1>1, <1>4, <1>5, <1>6, ConcatProperties
<1>8. \A n \in 1 .. Len(ps) - 1 : short[n] = IF n < k THEN ps[n] ELSE ps[n + 1]
  BY <1>1, <1>4, <1>5, <1>7
<1>9. \A n \in 1 .. Len(ps) :
        ps[n] = IF n < k THEN short[n] ELSE IF n = k THEN ps[k] ELSE short[n - 1]
  BY <1>1, <1>8
<1>10. RemoveAt(ps, k) = short
  BY <1>2, <1>3, <1>6 DEF RemoveAt
<1>11. QED
  BY <1>1, <1>7, <1>9, <1>10 DEF Inserted

\* A replaced page is one page among the same others.
LEMMA ReplacedInserts ==
  ASSUME NEW ps \in Seq(Pages), NEW k \in 1 .. Len(ps), NEW page \in Pages
  PROVE  Inserted(RemoveAt(ps, k), [ps EXCEPT ![k] = page], k, page)
<1>1. Inserted(RemoveAt(ps, k), ps, k, ps[k])
  BY RemoveAtInserts
<1>2. PICK qs : qs = [ps EXCEPT ![k] = page]
  OBVIOUS
<1>3. /\ qs \in Seq(Pages) /\ Len(qs) = Len(ps)
      /\ \A n \in 1 .. Len(ps) : qs[n] = IF n = k THEN page ELSE ps[n]
  BY <1>2, ExceptSeq
<1>4. Len(ps) \in Nat
  OBVIOUS
<1>5. QED
  BY <1>1, <1>2, <1>3, <1>4 DEF Inserted

\* A page in front of the others.
LEMMA ConsInserts ==
  ASSUME NEW ps \in Seq(Pages), NEW page \in Pages
  PROVE  Inserted(ps, <<page>> \o ps, 1, page)
<1>1. Len(ps) \in Nat /\ <<page>> \in Seq(Pages) /\ Len(<<page>>) = 1 /\ <<page>>[1] = page
  OBVIOUS
<1>2. PICK qs : qs = <<page>> \o ps
  OBVIOUS
<1>3. /\ qs \in Seq(Pages) /\ Len(qs) = 1 + Len(ps)
      /\ \A n \in 1 .. 1 + Len(ps) : qs[n] = IF n <= 1 THEN <<page>>[n] ELSE ps[n - 1]
  BY <1>1, <1>2, ConcatProperties
<1>4. QED
  BY <1>1, <1>2, <1>3 DEF Inserted

\* The page that Tail removes.
LEMMA TailInserts ==
  ASSUME NEW ps \in Seq(Pages), Len(ps) # 0
  PROVE  Inserted(Tail(ps), ps, 1, Head(ps))
<1>1. Len(ps) \in Nat /\ ps # << >> /\ Head(ps) = ps[1]
  OBVIOUS
<1>2. /\ Head(ps) \in Pages /\ Tail(ps) \in Seq(Pages) /\ Len(Tail(ps)) = Len(ps) - 1
      /\ \A n \in 1 .. Len(Tail(ps)) : Tail(ps)[n] = ps[n + 1]
  BY <1>1, HeadTailProperties
<1>3. PICK qs : qs = Tail(ps)
  OBVIOUS
<1>4. QED
  BY <1>1, <1>2, <1>3 DEF Inserted

\* The only page of a sequence.
LEMMA SingleInserts ==
  ASSUME NEW page \in Pages
  PROVE  Inserted(<< >>, <<page>>, 1, page)
BY DEF Inserted

-----------------------------------------------------------------------------
(* The futures of pages and of caches.                                       *)

PageHeld(page) == {f \in Futures : \E i \in Slots : page[i] = f}

SeqHeld(ps) == {f \in Futures : \E n \in 1 .. Len(ps) : \E i \in Slots : ps[n][i] = f}

\* No future is in two slots.
PageDistinct(page) == \A i, j \in Slots : page[i] = page[j] /\ page[i] # NULL => i = j

SeqDistinct(ps) ==
  \A n, m \in 1 .. Len(ps) : \A i, j \in Slots :
    ps[n][i] = ps[m][j] /\ ps[n][i] # NULL => n = m /\ i = j

\* Where the pages of the shorter sequence are in the longer one.
LEMMA InsertedAt ==
  ASSUME NEW short, NEW long, NEW k, NEW page, Inserted(short, long, k, page)
  PROVE  /\ Len(short) \in Nat /\ Len(long) = Len(short) + 1 /\ k \in 1 .. Len(long)
         /\ long[k] = page
         /\ \A n \in 1 .. Len(short) : n < k => n \in 1 .. Len(long) /\ long[n] = short[n]
         /\ \A n \in 1 .. Len(short) : n >= k => n + 1 \in 1 .. Len(long) /\ long[n + 1] = short[n]
         /\ \A n \in 1 .. Len(long) : n < k => n \in 1 .. Len(short) /\ long[n] = short[n]
         /\ \A n \in 1 .. Len(long) : n > k => n - 1 \in 1 .. Len(short) /\ long[n] = short[n - 1]
<1>1. /\ Len(short) \in Nat /\ Len(long) = Len(short) + 1 /\ k \in 1 .. Len(long)
      /\ \A n \in 1 .. Len(long) :
           long[n] = IF n < k THEN short[n] ELSE IF n = k THEN page ELSE short[n - 1]
  BY LenProperties DEF Inserted
<1>2. long[k] = page
  BY <1>1
<1>3. \A n \in 1 .. Len(short) : n < k => n \in 1 .. Len(long) /\ long[n] = short[n]
  BY <1>1
<1>4. \A n \in 1 .. Len(short) : n >= k => n + 1 \in 1 .. Len(long) /\ long[n + 1] = short[n]
  <2>1. TAKE n \in 1 .. Len(short)
  <2>2. HAVE n >= k
  <2>3. n + 1 \in 1 .. Len(long) /\ ~(n + 1 < k) /\ n + 1 # k /\ (n + 1) - 1 = n
    BY <1>1, <2>2
  <2>4. long[n + 1] = short[(n + 1) - 1]
    BY <1>1, <2>3
  <2>5. QED
    BY <2>3, <2>4
<1>5. \A n \in 1 .. Len(long) : n < k => n \in 1 .. Len(short) /\ long[n] = short[n]
  BY <1>1
<1>6. \A n \in 1 .. Len(long) : n > k => n - 1 \in 1 .. Len(short) /\ long[n] = short[n - 1]
  BY <1>1
<1>7. QED
  BY <1>1, <1>2, <1>3, <1>4, <1>5, <1>6

\* One more page brings its futures...
LEMMA InsertedHeld ==
  ASSUME NEW short, NEW long, NEW k, NEW page, Inserted(short, long, k, page)
  PROVE  SeqHeld(long) = SeqHeld(short) \cup PageHeld(page)
<1>1. ASSUME NEW f \in SeqHeld(long)
      PROVE  f \in SeqHeld(short) \cup PageHeld(page)
  <2>1. PICK n \in 1 .. Len(long), i \in Slots : long[n][i] = f
    BY DEF SeqHeld
  <2>2. f \in Futures
    BY DEF SeqHeld
  <2>3. CASE n = k
    BY <2>1, <2>2, <2>3, InsertedAt DEF PageHeld
  <2>4. CASE n < k
    BY <2>1, <2>2, <2>4, InsertedAt DEF SeqHeld
  <2>5. CASE n > k
    BY <2>1, <2>2, <2>5, InsertedAt DEF SeqHeld
  <2>6. k \in Nat /\ n \in Nat
    BY InsertedAt
  <2>7. QED
    BY <2>3, <2>4, <2>5, <2>6
<1>2. ASSUME NEW f \in SeqHeld(short)
      PROVE  f \in SeqHeld(long)
  <2>1. PICK n \in 1 .. Len(short), i \in Slots : short[n][i] = f
    BY DEF SeqHeld
  <2>2. f \in Futures
    BY DEF SeqHeld
  <2>3. CASE n < k
    BY <2>1, <2>2, <2>3, InsertedAt DEF SeqHeld
  <2>4. CASE n >= k
    BY <2>1, <2>2, <2>4, InsertedAt DEF SeqHeld
  <2>5. k \in Nat /\ n \in Nat
    BY InsertedAt
  <2>6. QED
    BY <2>3, <2>4, <2>5
<1>3. ASSUME NEW f \in PageHeld(page)
      PROVE  f \in SeqHeld(long)
  BY <1>3, InsertedAt DEF PageHeld, SeqHeld
<1>4. QED
  BY <1>1, <1>2, <1>3

\* ... and keeps them all distinct if they are new.
LEMMA InsertedDistinct ==
  ASSUME NEW short, NEW long, NEW k, NEW page, Inserted(short, long, k, page)
  PROVE  SeqDistinct(long) <=> /\ SeqDistinct(short)
                               /\ PageDistinct(page)
                               /\ SeqHeld(short) \cap PageHeld(page) = {}
<1>0. /\ Len(short) \in Nat /\ k \in Nat /\ Len(long) \in Nat
      /\ \A i \in Slots : page[i] # NULL => page[i] \in Futures
      /\ \A n \in 1 .. Len(short) : \A i \in Slots : short[n][i] # NULL => short[n][i] \in Futures
  <2>1. page \in Pages /\ short \in Seq(Pages)
    BY DEF Inserted
  <2>2. \A n \in 1 .. Len(short) : short[n] \in Pages
    BY <2>1, ElementOfSeq
  <2>3. QED
    BY <2>1, <2>2, InsertedAt DEF Pages
<1> DEFINE Up(n) == IF n < k THEN n ELSE n + 1
<1>1. \A n \in 1 .. Len(short) : Up(n) \in 1 .. Len(long) /\ long[Up(n)] = short[n] /\ Up(n) # k
  BY <1>0, InsertedAt
<1>2. ASSUME SeqDistinct(long)
      PROVE  SeqDistinct(short) /\ PageDistinct(page) /\ SeqHeld(short) \cap PageHeld(page) = {}
  <2>1. SeqDistinct(short)
    <3>1. SUFFICES ASSUME NEW n \in 1 .. Len(short), NEW m \in 1 .. Len(short),
                          NEW i \in Slots, NEW j \in Slots,
                          short[n][i] = short[m][j], short[n][i] # NULL
                   PROVE  n = m /\ i = j
      BY DEF SeqDistinct
    <3>2. Up(n) = Up(m) /\ i = j
      <4>1. long[Up(n)][i] = long[Up(m)][j] /\ long[Up(n)][i] # NULL
        BY <1>1, <3>1
      <4> HIDE DEF Up
      <4>2. QED
        BY <1>1, <1>2, <4>1 DEF SeqDistinct
    <3>3. QED
      BY <1>0, <3>2
  <2>2. PageDistinct(page)
    BY <1>2, InsertedAt DEF SeqDistinct, PageDistinct
  <2>3. ASSUME NEW f \in SeqHeld(short), f \in PageHeld(page)
        PROVE  FALSE
    <3>1. PICK n \in 1 .. Len(short), i \in Slots : short[n][i] = f
      BY DEF SeqHeld
    <3>2. PICK j \in Slots : page[j] = f
      BY <2>3 DEF PageHeld
    <3>3. f # NULL
      BY FuturesAssumption DEF SeqHeld
    <3>4. long[Up(n)][i] = long[k][j] /\ long[Up(n)][i] # NULL
      BY <1>1, <3>1, <3>2, <3>3, InsertedAt
    <3>5. Up(n) \in 1 .. Len(long) /\ k \in 1 .. Len(long) /\ Up(n) # k
      BY <1>1, InsertedAt
    <3> HIDE DEF Up
    <3>6. QED
      BY <1>2, <3>4, <3>5 DEF SeqDistinct
  <2>4. QED
    BY <2>1, <2>2, <2>3
<1>3. ASSUME SeqDistinct(short), PageDistinct(page), SeqHeld(short) \cap PageHeld(page) = {}
      PROVE  SeqDistinct(long)
  <2>1. SUFFICES ASSUME NEW n \in 1 .. Len(long), NEW m \in 1 .. Len(long),
                        NEW i \in Slots, NEW j \in Slots,
                        long[n][i] = long[m][j], long[n][i] # NULL
                 PROVE  n = m /\ i = j
    BY DEF SeqDistinct
  <2> DEFINE Down(x) == IF x < k THEN x ELSE x - 1
  <2>2. \A x \in 1 .. Len(long) : x # k => Down(x) \in 1 .. Len(short) /\ long[x] = short[Down(x)]
    BY <1>0, InsertedAt
  <2>3. CASE n = k /\ m = k
    BY <1>3, <2>1, <2>3, InsertedAt DEF PageDistinct
  <2>4. CASE n # k /\ m # k
    <3>1. Down(n) = Down(m) /\ i = j
      <4>1. short[Down(n)][i] = short[Down(m)][j] /\ short[Down(n)][i] # NULL
        BY <2>1, <2>2, <2>4
      <4>2. Down(n) \in 1 .. Len(short) /\ Down(m) \in 1 .. Len(short)
        BY <2>2, <2>4
      <4> HIDE DEF Down
      <4>3. QED
        BY <1>3, <4>1, <4>2 DEF SeqDistinct
    <3>2. QED
      BY <1>0, <2>4, <3>1
  <2>5. ASSUME NEW x \in 1 .. Len(long), x # k, NEW a \in Slots, NEW b \in Slots,
               long[x][a] = page[b], page[b] # NULL
        PROVE  FALSE
    <3>1. page[b] \in Futures /\ page[b] \in PageHeld(page)
      BY <1>0, <2>5 DEF PageHeld
    <3>2. short[Down(x)][a] = page[b] /\ Down(x) \in 1 .. Len(short)
      BY <2>2, <2>5
    <3> HIDE DEF Down
    <3>3. page[b] \in SeqHeld(short)
      BY <3>1, <3>2 DEF SeqHeld
    <3>4. QED
      BY <1>3, <3>1, <3>3
  <2>6. long[k] = page
    BY InsertedAt
  <2>7. ~(n = k /\ m # k) /\ ~(n # k /\ m = k)
    BY <2>1, <2>5, <2>6
  <2>8. QED
    BY <2>3, <2>4, <2>7
<1>4. QED
  BY <1>2, <1>3

\* What the assumptions say of the slots and of NULL.
LEMMA CapacityType ==
  PAGE_CAPACITY \in Nat \ {0} /\ Slots = 1 .. PAGE_CAPACITY /\ NULL \notin Futures
BY PagesAssumption, FuturesAssumption DEF Slots

\* A page without futures has none.
LEMMA EmptyPageFacts ==
  /\ Prefix(EmptyPage, 0)
  /\ \A page : Prefix(page, 0) => PageHeld(page) = {} /\ PageDistinct(page)
<1>1. EmptyPage \in Pages /\ \A i \in Slots : EmptyPage[i] = NULL
  BY DEF EmptyPage, Pages
<1>2. Prefix(EmptyPage, 0)
  BY <1>1, CapacityType DEF Prefix
<1>3. ASSUME NEW page, Prefix(page, 0)
      PROVE  PageHeld(page) = {} /\ PageDistinct(page)
  <2>1. \A i \in Slots : page[i] = NULL
    BY <1>3, CapacityType DEF Prefix
  <2>2. QED
    BY <2>1, CapacityType DEF PageHeld, PageDistinct
<1>4. QED
  BY <1>2, <1>3

\* The last future of a page is taken out.
LEMMA PageWithoutLast ==
  ASSUME NEW page, NEW k, Prefix(page, k), k # 0
  PROVE  /\ page[k] \in Futures
         /\ Prefix([page EXCEPT ![k] = NULL], k - 1)
         /\ PageHeld(page) = PageHeld([page EXCEPT ![k] = NULL]) \cup {page[k]}
         /\ PageDistinct(page) => /\ PageDistinct([page EXCEPT ![k] = NULL])
                                  /\ page[k] \notin PageHeld([page EXCEPT ![k] = NULL])
<1>1. k \in Slots /\ k \in Nat /\ page \in [Slots -> Futures \cup {NULL}]
  BY CapacityType DEF Prefix, Pages
<1>2. PICK q : q = [page EXCEPT ![k] = NULL]
  OBVIOUS
<1>3. q \in Pages /\ \A i \in Slots : q[i] = IF i = k THEN NULL ELSE page[i]
  BY <1>1, <1>2 DEF Pages
<1>4. page[k] \in Futures
  BY <1>1 DEF Prefix
<1>5. Prefix(q, k - 1)
  <2>1. k - 1 \in 0 .. PAGE_CAPACITY
    BY <1>1, CapacityType
  <2>2. \A i \in Slots : q[i] # NULL <=> i <= k - 1
    BY <1>1, <1>3, CapacityType DEF Prefix
  <2>3. QED
    BY <1>3, <2>1, <2>2 DEF Prefix
<1>6. PageHeld(page) = PageHeld(q) \cup {page[k]}
  BY <1>1, <1>3, <1>4, CapacityType DEF PageHeld
<1>7. PageDistinct(page) => PageDistinct(q) /\ page[k] \notin PageHeld(q)
  BY <1>1, <1>3, <1>4, CapacityType DEF PageHeld, PageDistinct
<1>8. QED
  BY <1>2, <1>4, <1>5, <1>6, <1>7

\* A future is put after the ones of a page.
LEMMA PageWithOneMore ==
  ASSUME NEW page, NEW k, Prefix(page, k), k < PAGE_CAPACITY, NEW f \in Futures
  PROVE  /\ k + 1 \in Slots
         /\ Prefix([page EXCEPT ![k + 1] = f], k + 1)
         /\ PageHeld([page EXCEPT ![k + 1] = f]) = PageHeld(page) \cup {f}
         /\ PageDistinct(page) /\ f \notin PageHeld(page) =>
              PageDistinct([page EXCEPT ![k + 1] = f])
<1>1. k + 1 \in Slots /\ k \in Nat /\ page \in [Slots -> Futures \cup {NULL}]
  BY CapacityType DEF Prefix, Pages
<1>2. PICK q : q = [page EXCEPT ![k + 1] = f]
  OBVIOUS
<1>3. q \in Pages /\ \A i \in Slots : q[i] = IF i = k + 1 THEN f ELSE page[i]
  BY <1>1, <1>2 DEF Pages
<1>4. page[k + 1] = NULL /\ f # NULL
  BY <1>1, CapacityType DEF Prefix
<1>5. Prefix(q, k + 1)
  <2>1. k + 1 \in 0 .. PAGE_CAPACITY
    BY <1>1, CapacityType
  <2>2. \A i \in Slots : q[i] # NULL <=> i <= k + 1
    BY <1>1, <1>3, <1>4, CapacityType DEF Prefix
  <2>3. QED
    BY <1>3, <2>1, <2>2 DEF Prefix
<1>6. PageHeld(q) = PageHeld(page) \cup {f}
  BY <1>1, <1>3, <1>4, CapacityType DEF PageHeld
<1>7. PageDistinct(page) /\ f \notin PageHeld(page) => PageDistinct(q)
  BY <1>1, <1>3, <1>4, CapacityType DEF PageHeld, PageDistinct
<1>8. QED
  BY <1>1, <1>2, <1>5, <1>6, <1>7

-----------------------------------------------------------------------------
(* Caches.                                                                   *)

\* The number of futures of the page at position n.
Level(c, n) ==
  IF n < c.top THEN PAGE_CAPACITY ELSE IF n = c.top THEN c.num_top_futures ELSE 0

\* StackShape, and that the top page is one of the pages.
Good(c) ==
  /\ c \in Caches
  /\ c.top <= Len(c.pages)
  /\ c.top = 0 <=> Len(c.pages) = 0
  /\ c.num_top_futures = 0 => c.top <= 1
  /\ c.num_top_futures # 0 => c.top # 0
  /\ \A n \in 1 .. Len(c.pages) : Prefix(c.pages[n], Level(c, n))

Held(c) == SeqHeld(c.pages)

Distinct(c) == SeqDistinct(c.pages)

\* The types of the fields of a cache.
LEMMA CacheFields ==
  ASSUME NEW c \in Caches
  PROVE  /\ c.pages \in Seq(Pages) /\ Len(c.pages) \in Nat /\ c.top \in Nat
         /\ c.num_top_futures \in 0 .. PAGE_CAPACITY /\ c.num_top_futures \in Nat
         /\ \A n \in 1 .. Len(c.pages) : c.pages[n] \in Pages
<1>1. /\ c.pages \in Seq(Pages) /\ c.top \in Nat
      /\ c.num_top_futures \in 0 .. PAGE_CAPACITY
  BY DEF Caches
<1>2. QED
  BY <1>1, CapacityType, LenProperties, ElementOfSeq

\* The shape that the proofs use implies the one that the run checks.
LEMMA GoodIsShape ==
  ASSUME NEW c, Good(c)
  PROVE  StackShape(c)
<1>1. c \in Caches /\ c.pages \in Seq(Pages) /\ Len(c.pages) \in Nat /\ c.top \in Nat
  BY CacheFields DEF Good
<1>2. (c.top = 0 <=> c.pages = << >>) /\ (c.num_top_futures = 0 => c.top <= 1)
  BY <1>1, EmptySeq DEF Good
<1>3. ASSUME NEW n \in 1 .. Len(c.pages)
      PROVE  InUse(c.pages[n]) = CASE n < c.top -> Slots
                                   [] n = c.top -> 1 .. c.num_top_futures
                                   [] n > c.top -> {}
  <2>1. Prefix(c.pages[n], Level(c, n))
    BY DEF Good
  <2>2. InUse(c.pages[n]) = 1 .. Level(c, n)
    BY <2>1, CapacityType DEF InUse, Prefix
  <2>3. n \in Nat
    BY <1>1
  <2>4. CASE n < c.top
    BY <1>1, <2>2, <2>3, <2>4, CapacityType DEF Level
  <2>5. CASE n = c.top
    BY <1>1, <2>2, <2>3, <2>5 DEF Level
  <2>6. CASE n > c.top
    BY <1>1, <2>2, <2>3, <2>6 DEF Level
  <2>7. QED
    BY <1>1, <2>3, <2>4, <2>5, <2>6
<1>4. QED
  BY <1>2, <1>3 DEF StackShape

\* future_pointer_cache_initialize(), for the context...
LEMMA EmptyCache ==
  Good(GlobalCache) /\ Held(GlobalCache) = {} /\ Distinct(GlobalCache)
  /\ Len(GlobalCache.pages) = 0 /\ GlobalCache.num_top_futures = 0
<1>1. GlobalCache \in Caches /\ Len(GlobalCache.pages) = 0 /\ GlobalCache.top = 0
      /\ GlobalCache.num_top_futures = 0
  BY CapacityType DEF GlobalCache, Caches
<1>2. QED
  BY <1>1 DEF Good, Held, Distinct, SeqHeld, SeqDistinct

\* ... and for a thread.
LEMMA FreshCache ==
  Good(LocalCache) /\ Held(LocalCache) = {} /\ Distinct(LocalCache)
  /\ Len(LocalCache.pages) = LOCAL_FUTURE_POINTER_PAGES
<1>1. EmptyPage \in Pages /\ Prefix(EmptyPage, 0) /\ \A i \in Slots : EmptyPage[i] = NULL
  BY EmptyPageFacts DEF Prefix, EmptyPage
<1>2. LOCAL_FUTURE_POINTER_PAGES \in Nat \ {0}
  BY PagesAssumption
<1>3. PICK ps : ps = [i \in 1 .. LOCAL_FUTURE_POINTER_PAGES |-> EmptyPage]
  OBVIOUS
<1>4. /\ ps \in Seq(Pages) /\ Len(ps) = LOCAL_FUTURE_POINTER_PAGES
      /\ \A n \in 1 .. Len(ps) : ps[n] = EmptyPage
  <2>1. ps \in [1 .. LOCAL_FUTURE_POINTER_PAGES -> Pages]
    BY <1>1, <1>3
  <2>2. ps \in Seq(Pages)
    BY <1>2, <2>1, SeqDef
  <2>3. Len(ps) = LOCAL_FUTURE_POINTER_PAGES
    BY <1>2, <1>3
  <2>4. QED
    BY <1>3, <2>2, <2>3
<1>5. /\ LocalCache \in Caches /\ LocalCache.pages = ps /\ LocalCache.top = 1
      /\ LocalCache.num_top_futures = 0
  BY <1>3, <1>4, CapacityType DEF LocalCache, Caches
<1>6. Good(LocalCache)
  <2>1. \A n \in 1 .. Len(ps) : Level(LocalCache, n) = 0
    BY <1>4, <1>5, <1>2 DEF Level
  <2>2. QED
    BY <1>1, <1>2, <1>4, <1>5, <2>1 DEF Good
<1>7. Held(LocalCache) = {} /\ Distinct(LocalCache)
  BY <1>1, <1>4, <1>5, CapacityType DEF Held, Distinct, SeqHeld, SeqDistinct
<1>8. QED
  BY <1>4, <1>5, <1>6, <1>7

\* What the pages other than the one at position k hold.
Rest(ps, k) == SeqHeld(RemoveAt(ps, k))

\* One page of a sequence is replaced.
LEMMA ReplacePage ==
  ASSUME NEW ps \in Seq(Pages), NEW k \in 1 .. Len(ps), NEW page \in Pages,
         NEW qs, qs = [ps EXCEPT ![k] = page]
  PROVE  /\ qs \in Seq(Pages) /\ Len(qs) = Len(ps)
         /\ \A n \in 1 .. Len(ps) : qs[n] = IF n = k THEN page ELSE ps[n]
         /\ SeqHeld(ps) = Rest(ps, k) \cup PageHeld(ps[k])
         /\ SeqHeld(qs) = Rest(ps, k) \cup PageHeld(page)
         /\ SeqDistinct(ps) => Rest(ps, k) \cap PageHeld(ps[k]) = {} /\ PageDistinct(ps[k])
         /\ SeqDistinct(ps) /\ PageDistinct(page) /\ Rest(ps, k) \cap PageHeld(page) = {} =>
              SeqDistinct(qs)
<1>1. /\ qs \in Seq(Pages) /\ Len(qs) = Len(ps)
      /\ \A n \in 1 .. Len(ps) : qs[n] = IF n = k THEN page ELSE ps[n]
  BY ExceptSeq
<1>2. PICK rs : rs = RemoveAt(ps, k)
  OBVIOUS
<1>3. Inserted(rs, ps, k, ps[k]) /\ Inserted(rs, qs, k, page)
  BY <1>2, RemoveAtInserts, ReplacedInserts
<1>4. /\ SeqHeld(ps) = SeqHeld(rs) \cup PageHeld(ps[k])
      /\ SeqHeld(qs) = SeqHeld(rs) \cup PageHeld(page)
  BY <1>3, InsertedHeld
<1>5. /\ SeqDistinct(ps) => /\ SeqDistinct(rs) /\ PageDistinct(ps[k])
                            /\ SeqHeld(rs) \cap PageHeld(ps[k]) = {}
      /\ SeqDistinct(rs) /\ PageDistinct(page) /\ SeqHeld(rs) \cap PageHeld(page) = {} =>
           SeqDistinct(qs)
  BY <1>3, InsertedDistinct
<1>6. QED
  BY <1>1, <1>2, <1>4, <1>5 DEF Rest

\* future_pointer_cache_allocate_local().
LEMMA PopCorrect ==
  ASSUME NEW c, Good(c), Distinct(c), c.num_top_futures # 0
  PROVE  /\ TopFuture(c) \in Held(c)
         /\ Good(Pop(c)) /\ Distinct(Pop(c))
         /\ Held(Pop(c)) = Held(c) \ {TopFuture(c)}
         /\ Len(Pop(c).pages) = Len(c.pages)
<1>1. /\ c \in Caches /\ c.pages \in Seq(Pages) /\ Len(c.pages) \in Nat /\ c.top \in Nat
      /\ c.num_top_futures \in Nat /\ c.num_top_futures \in 0 .. PAGE_CAPACITY
      /\ c.top \in 1 .. Len(c.pages)
  BY CacheFields DEF Good
<1>2. PICK k, page, num : k = c.top /\ page = c.pages[c.top] /\ num = c.num_top_futures
  OBVIOUS
<1>3. Prefix(page, num)
  BY <1>1, <1>2 DEF Good, Level
<1>4. PICK new : new = [page EXCEPT ![num] = NULL]
  OBVIOUS
<1>5. /\ page[num] \in Futures /\ Prefix(new, num - 1)
      /\ PageHeld(page) = PageHeld(new) \cup {page[num]}
      /\ PageDistinct(page) => PageDistinct(new) /\ page[num] \notin PageHeld(new)
  BY <1>2, <1>3, <1>4, PageWithoutLast
<1>6. new \in Pages
  BY <1>5 DEF Prefix
<1>7. PICK qs : qs = [c.pages EXCEPT ![k] = new]
  OBVIOUS
<1>8. /\ qs \in Seq(Pages) /\ Len(qs) = Len(c.pages)
      /\ \A n \in 1 .. Len(c.pages) : qs[n] = IF n = k THEN new ELSE c.pages[n]
  BY <1>1, <1>2, <1>6, <1>7, ReplacePage
<1>9. PICK rest :
        /\ SeqHeld(c.pages) = rest \cup PageHeld(page)
        /\ SeqHeld(qs) = rest \cup PageHeld(new)
        /\ SeqDistinct(c.pages) => rest \cap PageHeld(page) = {} /\ PageDistinct(page)
        /\ SeqDistinct(c.pages) /\ PageDistinct(new) /\ rest \cap PageHeld(new) = {} =>
             SeqDistinct(qs)
  <2>1. c.pages \in Seq(Pages) /\ k \in 1 .. Len(c.pages) /\ page = c.pages[k]
    BY <1>1, <1>2
  <2>2. PICK rest : rest = Rest(c.pages, k)
    OBVIOUS
  <2>3. /\ SeqHeld(c.pages) = rest \cup PageHeld(c.pages[k])
        /\ SeqHeld(qs) = rest \cup PageHeld(new)
        /\ SeqDistinct(c.pages) => rest \cap PageHeld(c.pages[k]) = {} /\ PageDistinct(c.pages[k])
        /\ SeqDistinct(c.pages) /\ PageDistinct(new) /\ rest \cap PageHeld(new) = {} =>
             SeqDistinct(qs)
    BY <1>6, <1>7, <2>1, <2>2, ReplacePage
  <2>4. QED
    BY <2>1, <2>3
<1>10. PICK r : r = Pop(c)
  OBVIOUS
<1>11. /\ r \in Caches /\ r.pages = qs
       /\ num = 1 /\ k > 1 => r.top = k - 1 /\ r.num_top_futures = PAGE_CAPACITY
       /\ ~(num = 1 /\ k > 1) => r.top = k /\ r.num_top_futures = num - 1
  <2>1. /\ r.pages = qs
        /\ num = 1 /\ k > 1 => r.top = k - 1 /\ r.num_top_futures = PAGE_CAPACITY
        /\ ~(num = 1 /\ k > 1) => r.top = k /\ r.num_top_futures = num - 1
        /\ r = [pages |-> r.pages, top |-> r.top, num_top_futures |-> r.num_top_futures]
    BY <1>1, <1>2, <1>4, <1>7, <1>10 DEF Pop, Caches
  <2>2. r.top \in Nat /\ r.num_top_futures \in 0 .. PAGE_CAPACITY
    BY <1>1, <1>2, <2>1, CapacityType
  <2>3. QED
    BY <1>8, <2>1, <2>2 DEF Caches
<1>12. Good(r)
  <2>1. ASSUME NEW n \in 1 .. Len(qs)
        PROVE  Prefix(qs[n], Level(r, n))
    <3>1. CASE n = k
      <4>1. Level(r, n) = num - 1
        BY <1>1, <1>2, <1>11, <3>1 DEF Level
      <4>2. QED
        BY <1>5, <1>8, <3>1, <4>1
    <3>2. CASE n # k
      <4>1. Level(r, n) = Level(c, n)
        BY <1>1, <1>2, <1>8, <1>11, <3>2 DEF Level
      <4>2. Prefix(c.pages[n], Level(c, n))
        BY <1>8 DEF Good
      <4>3. QED
        BY <1>8, <3>2, <4>1, <4>2
    <3>3. QED
      BY <3>1, <3>2
  <2>2. QED
    BY <1>1, <1>2, <1>8, <1>11, <2>1, CapacityType DEF Good
<1>13. QED
  BY <1>2, <1>5, <1>8, <1>9, <1>10, <1>11, <1>12 DEF Held, Distinct, TopFuture

\* future_pointer_cache_liberate_local() when it does not fail.
LEMMA PushCorrect ==
  ASSUME NEW c, Good(c), Distinct(c), HasRoom(c), Len(c.pages) # 0,
         NEW f \in Futures, f \notin Held(c)
  PROVE  /\ Good(Push(c, f)) /\ Distinct(Push(c, f))
         /\ Held(Push(c, f)) = Held(c) \cup {f}
         /\ Len(Push(c, f).pages) = Len(c.pages)
<1>1. /\ c \in Caches /\ c.pages \in Seq(Pages) /\ Len(c.pages) \in Nat /\ c.top \in Nat
      /\ c.num_top_futures \in Nat /\ c.num_top_futures <= PAGE_CAPACITY
      /\ c.top \in 1 .. Len(c.pages)
  BY CacheFields, CapacityType DEF Good
<1>2. PICK k, num : /\ k = IF c.num_top_futures = PAGE_CAPACITY THEN c.top + 1 ELSE c.top
                    /\ num = IF c.num_top_futures = PAGE_CAPACITY THEN 0 ELSE c.num_top_futures
  OBVIOUS
<1>3. k \in 1 .. Len(c.pages) /\ num \in Nat /\ num < PAGE_CAPACITY /\ k \in Nat
  BY <1>1, <1>2, CapacityType DEF HasRoom
<1>4. PICK page : page = c.pages[k]
  OBVIOUS
<1>5. Prefix(page, num)
  <2>1. Level(c, k) = num
    BY <1>1, <1>2, <1>3 DEF Level
  <2>2. QED
    BY <1>3, <1>4, <2>1 DEF Good
<1>6. PICK new : new = [page EXCEPT ![num + 1] = f]
  OBVIOUS
<1>7. /\ Prefix(new, num + 1)
      /\ PageHeld(new) = PageHeld(page) \cup {f}
      /\ PageDistinct(page) /\ f \notin PageHeld(page) => PageDistinct(new)
  BY <1>3, <1>5, <1>6, PageWithOneMore
<1>8. new \in Pages
  BY <1>7 DEF Prefix
<1>9. PICK qs : qs = [c.pages EXCEPT ![k] = new]
  OBVIOUS
<1>10. /\ qs \in Seq(Pages) /\ Len(qs) = Len(c.pages)
       /\ \A n \in 1 .. Len(c.pages) : qs[n] = IF n = k THEN new ELSE c.pages[n]
  BY <1>1, <1>3, <1>8, <1>9, ReplacePage
<1>11. PICK rest :
        /\ SeqHeld(c.pages) = rest \cup PageHeld(page)
        /\ SeqHeld(qs) = rest \cup PageHeld(new)
        /\ SeqDistinct(c.pages) => rest \cap PageHeld(page) = {} /\ PageDistinct(page)
        /\ SeqDistinct(c.pages) /\ PageDistinct(new) /\ rest \cap PageHeld(new) = {} =>
             SeqDistinct(qs)
  <2>1. PICK rest : rest = Rest(c.pages, k)
    OBVIOUS
  <2>2. /\ SeqHeld(c.pages) = rest \cup PageHeld(c.pages[k])
        /\ SeqHeld(qs) = rest \cup PageHeld(new)
        /\ SeqDistinct(c.pages) => rest \cap PageHeld(c.pages[k]) = {} /\ PageDistinct(c.pages[k])
        /\ SeqDistinct(c.pages) /\ PageDistinct(new) /\ rest \cap PageHeld(new) = {} =>
             SeqDistinct(qs)
    BY <1>1, <1>3, <1>8, <1>9, <2>1, ReplacePage
  <2>3. QED
    BY <1>4, <2>2
<1>12. PICK r : r = Push(c, f)
  OBVIOUS
<1>13. r \in Caches /\ r.pages = qs /\ r.top = k /\ r.num_top_futures = num + 1
  <2>1. /\ r.pages = qs /\ r.top = k /\ r.num_top_futures = num + 1
        /\ r = [pages |-> r.pages, top |-> r.top, num_top_futures |-> r.num_top_futures]
    <3>1. CASE c.num_top_futures = PAGE_CAPACITY
      <4>1. k = c.top + 1 /\ num + 1 = 1 /\ new = [page EXCEPT ![1] = f]
        BY <1>2, <1>6, <3>1
      <4>2. QED
        BY <1>1, <1>4, <1>9, <1>12, <3>1, <4>1 DEF Push, Caches
    <3>2. CASE c.num_top_futures # PAGE_CAPACITY
      BY <1>1, <1>2, <1>4, <1>6, <1>9, <1>12, <3>2 DEF Push, Caches
    <3>3. QED
      BY <3>1, <3>2
  <2>2. r.top \in Nat /\ r.num_top_futures \in 0 .. PAGE_CAPACITY
    BY <1>3, <2>1, CapacityType
  <2>3. QED
    BY <1>10, <2>1, <2>2 DEF Caches
<1>14. Good(r)
  <2>1. ASSUME NEW n \in 1 .. Len(qs)
        PROVE  Prefix(qs[n], Level(r, n))
    <3>1. CASE n = k
      BY <1>3, <1>7, <1>10, <1>13, <3>1 DEF Level
    <3>2. CASE n # k
      <4>1. Level(r, n) = Level(c, n)
        BY <1>1, <1>2, <1>3, <1>10, <1>13, <3>2 DEF Level
      <4>2. Prefix(c.pages[n], Level(c, n))
        BY <1>10 DEF Good
      <4>3. QED
        BY <1>10, <3>2, <4>1, <4>2
    <3>3. QED
      BY <3>1, <3>2
  <2>2. QED
    BY <1>1, <1>3, <1>10, <1>13, <2>1, CapacityType DEF Good
<1>15. QED
  BY <1>7, <1>10, <1>11, <1>12, <1>13, <1>14 DEF Held, Distinct

\* A cache is made of its three fields.
LEMMA CacheRecord ==
  ASSUME NEW ps \in Seq(Pages), NEW top \in Nat, NEW num \in 0 .. PAGE_CAPACITY
  PROVE  [pages |-> ps, top |-> top, num_top_futures |-> num] \in Caches
BY DEF Caches

\* future_pointer_cache_extract_futures().
LEMMA BottomCorrect ==
  ASSUME NEW c, Good(c), Distinct(c), Len(c.pages) # 0
  PROVE  /\ Prefix(BottomPage(c), Level(c, 1)) /\ PageDistinct(BottomPage(c))
         /\ Good(WithoutBottom(c)) /\ Distinct(WithoutBottom(c))
         /\ Held(c) = Held(WithoutBottom(c)) \cup PageHeld(BottomPage(c))
         /\ Held(WithoutBottom(c)) \cap PageHeld(BottomPage(c)) = {}
         /\ Len(WithoutBottom(c).pages) = Len(c.pages) - 1
<1>1. /\ c \in Caches /\ c.pages \in Seq(Pages) /\ Len(c.pages) \in Nat /\ c.top \in Nat
      /\ c.num_top_futures \in Nat /\ c.num_top_futures \in 0 .. PAGE_CAPACITY
      /\ c.top \in 1 .. Len(c.pages)
  BY CacheFields DEF Good
<1>2. Inserted(Tail(c.pages), c.pages, 1, Head(c.pages))
  BY <1>1, TailInserts
<1>3. Head(c.pages) = c.pages[1] /\ Tail(c.pages) \in Seq(Pages) /\ Len(c.pages) = Len(Tail(c.pages)) + 1
  BY <1>2, InsertedAt DEF Inserted
<1>4. PICK r : r = WithoutBottom(c)
  OBVIOUS
<1>5. /\ r \in Caches /\ r.pages = Tail(c.pages)
      /\ r.top = IF c.top > 1 THEN c.top - 1 ELSE IF Len(c.pages) > 1 THEN 1 ELSE 0
      /\ r.num_top_futures = IF c.top > 1 THEN c.num_top_futures ELSE 0
  BY <1>1, <1>3, <1>4, CapacityType DEF WithoutBottom, Caches
<1>6. Prefix(c.pages[1], Level(c, 1))
  BY <1>1 DEF Good
<1>7. PICK qs : qs = Tail(c.pages)
  OBVIOUS
<1>8. Len(qs) \in Nat /\ \A n \in 1 .. Len(qs) : n + 1 \in 1 .. Len(c.pages) /\ qs[n] = c.pages[n + 1]
  BY <1>2, <1>7, InsertedAt
<1>9. Good(r)
  <2>1. ASSUME NEW n \in 1 .. Len(qs)
        PROVE  Prefix(qs[n], Level(r, n))
    <3>1. Level(r, n) = Level(c, n + 1)
      BY <1>1, <1>3, <1>5, <1>7, <1>8 DEF Level
    <3>2. Prefix(c.pages[n + 1], Level(c, n + 1))
      BY <1>8 DEF Good
    <3>3. QED
      BY <1>8, <3>1, <3>2
  <2>2. /\ r.top <= Len(qs) /\ (r.top = 0 <=> Len(qs) = 0)
        /\ (r.num_top_futures = 0 => r.top <= 1) /\ (r.num_top_futures # 0 => r.top # 0)
    <3>1. c.num_top_futures = 0 => c.top <= 1
      BY DEF Good
    <3>2. Len(c.pages) = Len(qs) + 1
      BY <1>3, <1>7
    <3>3. CASE c.top > 1
      BY <1>1, <1>5, <1>8, <3>1, <3>2, <3>3
    <3>4. CASE ~(c.top > 1)
      BY <1>1, <1>5, <1>8, <3>2, <3>4
    <3>5. QED
      BY <3>3, <3>4
  <2>3. QED
    BY <1>5, <1>7, <2>1, <2>2 DEF Good
<1>10. QED
  BY <1>2, <1>3, <1>4, <1>5, <1>6, <1>8, <1>7, <1>9, InsertedHeld, InsertedDistinct
     DEF Held, Distinct, BottomPage

\* future_pointer_cache_insert_empty().
LEMMA InsertEmptyCorrect ==
  ASSUME NEW c, Good(c), Distinct(c), NEW page, Prefix(page, 0)
  PROVE  /\ Good(InsertEmpty(c, page)) /\ Distinct(InsertEmpty(c, page))
         /\ Held(InsertEmpty(c, page)) = Held(c)
         /\ HasRoom(InsertEmpty(c, page))
         /\ Len(InsertEmpty(c, page).pages) = Len(c.pages) + 1
<1>1. /\ c \in Caches /\ c.pages \in Seq(Pages) /\ Len(c.pages) \in Nat /\ c.top \in Nat
      /\ c.num_top_futures \in Nat /\ c.num_top_futures \in 0 .. PAGE_CAPACITY
      /\ c.top <= Len(c.pages) /\ page \in Pages
  BY CacheFields DEF Good, Prefix
<1>2. PICK r : r = InsertEmpty(c, page)
  OBVIOUS
<1>3. /\ Inserted(c.pages, r.pages, c.top + 1, page)
      /\ r \in Caches /\ r.num_top_futures = c.num_top_futures
      /\ r.top = IF c.top = 0 THEN 1 ELSE c.top
  <2>1. CASE c.top = 0
    <3>1. c.pages = << >>
      BY <1>1, <2>1 DEF Good
    <3>2. r.pages = <<page>> /\ r.top = 1 /\ r.num_top_futures = c.num_top_futures
          /\ r = [pages |-> <<page>>, top |-> 1, num_top_futures |-> c.num_top_futures]
      BY <1>1, <1>2, <2>1 DEF InsertEmpty, Caches
    <3>3. Inserted(c.pages, <<page>>, 1, page)
      BY <1>1, <3>1, SingleInserts
    <3>4. r \in Caches
      BY <1>1, <3>2, <3>3, CacheRecord DEF Inserted
    <3>5. QED
      BY <1>1, <2>1, <3>2, <3>3, <3>4
  <2>2. CASE c.top # 0
    <3>1. PICK qs : qs = InsertAt(c.pages, c.top + 1, page)
      OBVIOUS
    <3>2. r.pages = qs /\ r.top = c.top /\ r.num_top_futures = c.num_top_futures
          /\ r = [pages |-> qs, top |-> c.top, num_top_futures |-> c.num_top_futures]
      BY <1>1, <1>2, <2>2, <3>1 DEF InsertEmpty, Caches
    <3>3. Inserted(c.pages, qs, c.top + 1, page)
      <4>1. c.top + 1 \in 1 .. Len(c.pages) + 1
        BY <1>1
      <4>2. QED
        BY <1>1, <3>1, <4>1, InsertAtInserts
    <3>4. r \in Caches
      BY <1>1, <3>2, <3>3, CacheRecord DEF Inserted
    <3>5. QED
      BY <2>2, <3>2, <3>3, <3>4
  <2>3. QED
    BY <2>1, <2>2
<1>4. PICK qs : qs = r.pages
  OBVIOUS
<1>5. Len(qs) = Len(c.pages) + 1
  BY <1>3, <1>4, InsertedAt
<1>6. Good(r)
  <2>1. ASSUME NEW n \in 1 .. Len(qs)
        PROVE  Prefix(qs[n], Level(r, n))
    <3>1. CASE n < c.top + 1
      <4>1. n \in 1 .. Len(c.pages) /\ qs[n] = c.pages[n]
        BY <1>3, <1>4, <3>1, InsertedAt
      <4>2. Level(r, n) = Level(c, n)
        BY <1>1, <1>3, <3>1, <4>1 DEF Level
      <4>3. QED
        BY <4>1, <4>2 DEF Good
    <3>2. CASE n = c.top + 1
      <4>1. qs[n] = page
        BY <1>3, <1>4, <3>2, InsertedAt
      <4>2. Level(r, n) = 0
        BY <1>1, <1>3, <3>2 DEF Level, Good
      <4>3. QED
        BY <4>1, <4>2
    <3>3. CASE n > c.top + 1
      <4>1. n - 1 \in 1 .. Len(c.pages) /\ qs[n] = c.pages[n - 1]
        BY <1>3, <1>4, <3>3, InsertedAt
      <4>2. Level(r, n) = 0 /\ Level(c, n - 1) = 0
        BY <1>1, <1>3, <3>3, <4>1 DEF Level
      <4>3. Prefix(c.pages[n - 1], Level(c, n - 1))
        BY <4>1 DEF Good
      <4>4. QED
        BY <4>1, <4>2, <4>3
    <3>4. QED
      BY <1>1, <1>5, <3>1, <3>2, <3>3
  <2>2. QED
    BY <1>1, <1>3, <1>4, <1>5, <2>1 DEF Good
<1>7. Held(r) = Held(c) /\ Distinct(r)
  <2>1. PageHeld(page) = {} /\ PageDistinct(page)
    BY EmptyPageFacts
  <2>2. QED
    BY <1>3, <2>1, InsertedHeld, InsertedDistinct DEF Held, Distinct
<1>8. HasRoom(r)
  BY <1>1, <1>3, <1>4, <1>5, CapacityType DEF HasRoom, Good
<1>9. QED
  BY <1>2, <1>4, <1>5, <1>6, <1>7, <1>8

\* future_pointer_cache_obtain_empty().
LEMMA ObtainEmptyCorrect ==
  ASSUME NEW c, Good(c), Distinct(c)
  PROVE  /\ Prefix(EmptyOf(c), 0)
         /\ Good(WithoutEmpty(c)) /\ Distinct(WithoutEmpty(c))
         /\ Held(WithoutEmpty(c)) = Held(c)
         /\ WithoutEmpty(c).num_top_futures = c.num_top_futures
         /\ c.num_top_futures = 0 /\ Len(c.pages) # 0 =>
              Len(WithoutEmpty(c).pages) = Len(c.pages) - 1
<1>1. /\ c \in Caches /\ c.pages \in Seq(Pages) /\ Len(c.pages) \in Nat /\ c.top \in Nat
      /\ c.num_top_futures \in Nat /\ c.num_top_futures \in 0 .. PAGE_CAPACITY
      /\ c.top <= Len(c.pages)
  BY CacheFields DEF Good
<1>2. PICK r : r = WithoutEmpty(c)
  OBVIOUS
<1>3. CASE HasAfterTop(c)
  <2>1. PICK k, page : k = c.top + 1 /\ page = c.pages[k]
    OBVIOUS
  <2>2. k \in 1 .. Len(c.pages) /\ k \in Nat
    BY <1>1, <1>3, <2>1 DEF HasAfterTop
  <2>3. Prefix(page, 0)
    <3>1. Level(c, k) = 0
      BY <1>1, <2>1 DEF Level
    <3>2. QED
      BY <2>1, <2>2, <3>1 DEF Good
  <2>4. PICK qs : qs = RemoveAt(c.pages, k)
    OBVIOUS
  <2>5. Inserted(qs, c.pages, k, page)
    BY <1>1, <2>1, <2>2, <2>4, RemoveAtInserts
  <2>6. /\ r.pages = qs /\ r.top = c.top /\ r.num_top_futures = c.num_top_futures
        /\ r = [pages |-> qs, top |-> c.top, num_top_futures |-> c.num_top_futures]
    BY <1>1, <1>2, <1>3, <2>1, <2>4 DEF WithoutEmpty, Caches
  <2>7. r \in Caches /\ Len(c.pages) = Len(qs) + 1 /\ Len(qs) \in Nat
    <3>1. qs \in Seq(Pages) /\ Len(c.pages) = Len(qs) + 1 /\ Len(qs) \in Nat
      BY <2>5, InsertedAt DEF Inserted
    <3>2. QED
      BY <1>1, <2>6, <3>1, CacheRecord
  <2>8. Good(r)
    <3>1. ASSUME NEW n \in 1 .. Len(qs)
          PROVE  Prefix(qs[n], Level(r, n))
      <4>1. CASE n < k
        <5>1. n \in 1 .. Len(c.pages) /\ qs[n] = c.pages[n]
          BY <2>5, <4>1, InsertedAt
        <5>2. Level(r, n) = Level(c, n)
          BY <2>6 DEF Level
        <5>3. QED
          BY <5>1, <5>2 DEF Good
      <4>2. CASE n >= k
        <5>1. n + 1 \in 1 .. Len(c.pages) /\ qs[n] = c.pages[n + 1]
          BY <2>5, <4>2, InsertedAt
        <5>2. Level(r, n) = 0 /\ Level(c, n + 1) = 0
          BY <1>1, <2>1, <2>6, <2>7, <4>2 DEF Level
        <5>3. Prefix(c.pages[n + 1], Level(c, n + 1))
          BY <5>1 DEF Good
        <5>4. QED
          BY <5>1, <5>2, <5>3
      <4>3. QED
        BY <2>2, <2>7, <4>1, <4>2
    <3>2. QED
      BY <1>1, <1>3, <2>6, <2>7, <3>1 DEF Good, HasAfterTop
  <2>9. Held(r) = Held(c) /\ Distinct(r)
    <3>1. PageHeld(page) = {}
      BY <2>3, EmptyPageFacts
    <3>2. QED
      BY <2>5, <2>6, <3>1, InsertedHeld, InsertedDistinct DEF Held, Distinct
  <2>10. EmptyOf(c) = page
    BY <1>3, <2>1 DEF EmptyOf
  <2>11. QED
    BY <1>1, <1>2, <2>3, <2>6, <2>7, <2>8, <2>9, <2>10
<1>4. CASE ~HasAfterTop(c) /\ c.top # 0 /\ c.num_top_futures = 0
  <2>1. c.top = 1 /\ Len(c.pages) = 1
    <3>1. c.top <= 1 /\ ~(c.top < Len(c.pages))
      BY <1>4 DEF Good, HasAfterTop
    <3>2. c.top \in Nat /\ Len(c.pages) \in Nat /\ c.top <= Len(c.pages) /\ c.top # 0
      BY <1>1, <1>4
    <3>3. PICK l, m : l = Len(c.pages) /\ m = c.top
      OBVIOUS
    <3>4. l \in Nat /\ m \in Nat /\ m <= l /\ m # 0 /\ m <= 1 /\ ~(m < l)
      BY <3>1, <3>2, <3>3
    <3>5. m = 1 /\ l = 1
      BY <3>4
    <3>6. QED
      BY <3>3, <3>5
  <2>2. EmptyOf(c) = c.pages[1] /\ Level(c, 1) = 0
    BY <1>4, <2>1 DEF EmptyOf, Level
  <2>3. Prefix(c.pages[1], 0)
    BY <2>1, <2>2 DEF Good
  <2>4. /\ r.num_top_futures = 0
        /\ r = [pages |-> << >>, top |-> 0, num_top_futures |-> 0]
    BY <1>1, <1>2, <1>4 DEF WithoutEmpty, Caches
  <2>5. r = GlobalCache
    BY <2>4 DEF GlobalCache
  <2>6. Held(c) = {}
    <3>1. \A i \in Slots : c.pages[1][i] = NULL
      BY <2>3, CapacityType DEF Prefix
    <3>2. QED
      BY <2>1, <3>1, CapacityType DEF Held, SeqHeld
  <2>7. /\ Good(r) /\ Distinct(r) /\ Held(r) = {} /\ Len(r.pages) = 0
        /\ r.num_top_futures = 0
    BY <2>5, EmptyCache
  <2>8. Len(c.pages) - 1 = 0
    BY <2>1
  <2>9. Prefix(EmptyOf(c), 0)
    BY <2>2, <2>3
  <2>10. QED
    BY <1>2, <1>4, <2>6, <2>7, <2>8, <2>9
<1>5. CASE ~HasAfterTop(c) /\ ~(c.top # 0 /\ c.num_top_futures = 0)
  <2>1. r = c /\ EmptyOf(c) = EmptyPage
    BY <1>2, <1>5 DEF WithoutEmpty, EmptyOf
  <2>2. QED
    BY <1>1, <1>2, <1>5, <2>1, EmptyPageFacts DEF Good
<1>6. QED
  BY <1>3, <1>4, <1>5

\* A cache whose top page is empty has no futures.
LEMMA NoFutures ==
  ASSUME NEW c, Good(c), c.num_top_futures = 0
  PROVE  Held(c) = {}
<1>1. c \in Caches /\ c.top \in Nat /\ c.top <= 1 /\ Len(c.pages) \in Nat
  BY CacheFields DEF Good
<1>2. ASSUME NEW n \in 1 .. Len(c.pages), NEW i \in Slots
      PROVE  c.pages[n][i] = NULL
  <2>1. Level(c, n) = 0
    BY <1>1 DEF Level
  <2>2. Prefix(c.pages[n], 0)
    BY <2>1 DEF Good
  <2>3. QED
    BY <2>2, CapacityType DEF Prefix
<1>3. QED
  BY <1>2, CapacityType DEF Held, SeqHeld

\* future_pointer_cache_refill_local(): n new futures for an empty cache.
LEMMA RefillCorrect ==
  ASSUME NEW c, Good(c), Distinct(c), c.num_top_futures = 0, Len(c.pages) # 0,
         NEW n \in 1 .. PAGE_CAPACITY, NEW fs \in [1 .. n -> Futures], Len(fs) = n,
         \A i, j \in 1 .. n : fs[i] = fs[j] => i = j
  PROVE  /\ Good(RefillLocal(c, fs)) /\ Distinct(RefillLocal(c, fs))
         /\ Held(RefillLocal(c, fs)) = {fs[i] : i \in 1 .. n}
         /\ Len(RefillLocal(c, fs).pages) = Len(c.pages)
         /\ RefillLocal(c, fs).num_top_futures = n
<1>1. /\ c \in Caches /\ c.pages \in Seq(Pages) /\ Len(c.pages) \in Nat /\ c.top = 1
      /\ 1 \in 1 .. Len(c.pages) /\ n \in Nat
  <2>1. c \in Caches /\ c.top \in Nat /\ c.top <= 1 /\ Len(c.pages) \in Nat /\ c.top # 0
        /\ c.pages \in Seq(Pages)
    BY CacheFields DEF Good
  <2>2. QED
    BY <2>1, CapacityType
<1>2. PICK page : page = c.pages[1]
  OBVIOUS
<1>3. Prefix(page, 0)
  <2>1. Level(c, 1) = 0
    BY <1>1 DEF Level
  <2>2. QED
    BY <1>1, <1>2, <2>1 DEF Good
<1>4. PICK new : new = [i \in Slots |-> IF i <= n THEN fs[i] ELSE page[i]]
  OBVIOUS
<1>5. /\ new \in Pages
      /\ \A i \in Slots : new[i] = IF i <= n THEN fs[i] ELSE NULL
      /\ 1 .. n \subseteq Slots
  <2>1. \A i \in Slots : page[i] = NULL
    BY <1>3, CapacityType DEF Prefix
  <2>2. \A i \in Slots : i <= n => i \in 1 .. n
    BY <1>1, CapacityType
  <2>3. \A i \in Slots : new[i] = IF i <= n THEN fs[i] ELSE NULL
    BY <1>4, <2>1
  <2>4. new \in Pages
    BY <1>4, <2>1, <2>2 DEF Pages
  <2>5. QED
    BY <1>1, <2>3, <2>4, CapacityType
<1>6. Prefix(new, n)
  BY <1>1, <1>5, CapacityType DEF Prefix
<1>7. PageHeld(new) = {fs[i] : i \in 1 .. n}
  BY <1>1, <1>5, CapacityType DEF PageHeld
<1>8. PageDistinct(new)
  BY <1>1, <1>5, CapacityType DEF PageDistinct
<1>9. PICK qs : qs = [c.pages EXCEPT ![1] = new]
  OBVIOUS
<1>10. /\ qs \in Seq(Pages) /\ Len(qs) = Len(c.pages)
       /\ \A m \in 1 .. Len(c.pages) : qs[m] = IF m = 1 THEN new ELSE c.pages[m]
       /\ SeqHeld(c.pages) = Rest(c.pages, 1) \cup PageHeld(c.pages[1])
       /\ SeqHeld(qs) = Rest(c.pages, 1) \cup PageHeld(new)
       /\ SeqDistinct(c.pages) /\ PageDistinct(new) /\ Rest(c.pages, 1) \cap PageHeld(new) = {} =>
            SeqDistinct(qs)
  BY <1>1, <1>5, <1>9, ReplacePage
<1>11. Rest(c.pages, 1) = {}
  BY <1>10, NoFutures DEF Held
<1>12. PICK r : r = RefillLocal(c, fs)
  OBVIOUS
<1>13. r.pages = qs /\ r.top = 1 /\ r.num_top_futures = n
       /\ r = [pages |-> qs, top |-> 1, num_top_futures |-> n]
  <2>1. r = [c EXCEPT !.pages = qs, !.num_top_futures = n]
    BY <1>1, <1>2, <1>4, <1>9, <1>12 DEF RefillLocal, Caches
  <2>2. QED
    BY <1>1, <2>1 DEF Caches
<1>14. r \in Caches
  <2>1. n \in 0 .. PAGE_CAPACITY
    BY <1>1, CapacityType
  <2>2. QED
    BY <1>10, <1>13, <2>1 DEF Caches
<1>15. Good(r)
  <2>1. ASSUME NEW m \in 1 .. Len(qs)
        PROVE  Prefix(qs[m], Level(r, m))
    <3>1. CASE m = 1
      BY <1>6, <1>10, <1>13, <3>1 DEF Level
    <3>2. CASE m # 1
      <4>1. Level(r, m) = 0 /\ Level(c, m) = 0
        BY <1>1, <1>10, <1>13, <3>2 DEF Level
      <4>2. Prefix(c.pages[m], Level(c, m))
        BY <1>10 DEF Good
      <4>3. QED
        BY <1>10, <3>2, <4>1, <4>2
    <3>3. QED
      BY <3>1, <3>2
  <2>2. Len(qs) \in Nat /\ Len(qs) # 0 /\ n # 0
    BY <1>1, <1>10
  <2>3. QED
    BY <1>13, <1>14, <2>1, <2>2 DEF Good
<1>16. QED
  BY <1>7, <1>8, <1>10, <1>11, <1>12, <1>13, <1>15 DEF Held, Distinct

-----------------------------------------------------------------------------
(* future_pointer_cache_insert_futures().                                    *)

\* The last m futures of page b are moved behind the n futures of page a.
LEMMA MergePages ==
  ASSUME NEW a, NEW n, Prefix(a, n), NEW b, NEW k, Prefix(b, k),
         NEW m \in Nat, m <= k, m <= PAGE_CAPACITY - n,
         PageDistinct(a), PageDistinct(b), PageHeld(a) \cap PageHeld(b) = {},
         NEW top, top = [i \in Slots |-> IF i > n /\ i <= n + m THEN b[k - m + i - n] ELSE a[i]],
         NEW left, left = [i \in Slots |-> IF i <= k - m THEN b[i] ELSE
                                          IF i <= k THEN NULL ELSE b[i]]
  PROVE  /\ Prefix(top, n + m) /\ PageDistinct(top)
         /\ Prefix(left, k - m) /\ PageDistinct(left)
         /\ PageHeld(top) \cap PageHeld(left) = {}
         /\ PageHeld(top) \cup PageHeld(left) = PageHeld(a) \cup PageHeld(b)
<1>1. /\ n \in Nat /\ k \in Nat /\ n <= PAGE_CAPACITY /\ k <= PAGE_CAPACITY
      /\ a \in [Slots -> Futures \cup {NULL}] /\ b \in [Slots -> Futures \cup {NULL}]
      /\ \A i \in Slots : a[i] # NULL <=> i <= n
      /\ \A i \in Slots : b[i] # NULL <=> i <= k
  BY CapacityType DEF Prefix, Pages
<1>2. \A i \in Slots : i > n /\ i <= n + m =>
        k - m + i - n \in Slots /\ k - m + i - n <= k /\ k - m + i - n > k - m
  BY <1>1, CapacityType
<1>3. \A i \in Slots : /\ i > n /\ i <= n + m => top[i] = b[k - m + i - n]
                       /\ ~(i > n /\ i <= n + m) => top[i] = a[i]
  OBVIOUS
<1>4. \A i \in Slots : left[i] = IF i <= k - m THEN b[i] ELSE NULL
  BY <1>1, CapacityType
<1>5. top \in Pages /\ left \in Pages
  <2>1. \A i \in Slots : top[i] \in Futures \cup {NULL} /\ left[i] \in Futures \cup {NULL}
    BY <1>1, <1>2, <1>3, <1>4
  <2>2. QED
    BY <2>1 DEF Pages
<1>6. Prefix(top, n + m)
  <2>1. n + m \in 0 .. PAGE_CAPACITY
    BY <1>1, CapacityType
  <2>2. ASSUME NEW i \in Slots
        PROVE  top[i] # NULL <=> i <= n + m
    <3>1. CASE i > n /\ i <= n + m
      <4>1. PICK j \in Slots : j = k - m + i - n /\ j <= k
        BY <1>2, <3>1
      <4>2. QED
        BY <1>1, <1>3, <3>1, <4>1
    <3>2. CASE ~(i > n /\ i <= n + m)
      <4>1. top[i] = a[i]
        BY <1>3, <3>2
      <4>2. i <= n + m <=> i <= n
        BY <1>1, <3>2, CapacityType
      <4>3. QED
        BY <1>1, <4>1, <4>2
    <3>3. QED
      BY <3>1, <3>2
  <2>3. QED
    BY <1>5, <2>1, <2>2 DEF Prefix
<1>7. Prefix(left, k - m)
  <2>1. k - m \in 0 .. PAGE_CAPACITY
    BY <1>1, CapacityType
  <2>2. \A i \in Slots : left[i] # NULL <=> i <= k - m
    BY <1>1, <1>4, CapacityType
  <2>3. QED
    BY <1>5, <2>1, <2>2 DEF Prefix
\* Every future of the two new pages is one of the old pages', at a known slot.
<1>8. ASSUME NEW i \in Slots, top[i] # NULL
      PROVE  \/ i <= n /\ top[i] = a[i] /\ a[i] \in PageHeld(a)
             \/ /\ n < i /\ k - m + i - n \in Slots /\ k - m + i - n > k - m
                /\ top[i] = b[k - m + i - n] /\ b[k - m + i - n] \in PageHeld(b)
  <2>1. i <= n + m
    BY <1>6, <1>8 DEF Prefix
  <2>2. CASE i <= n
    BY <1>1, <1>3, <1>8, <2>2, CapacityType DEF PageHeld
  <2>3. CASE n < i
    <3>1. PICK j : j = k - m + i - n
      OBVIOUS
    <3>2. j \in Slots /\ j > k - m /\ top[i] = b[j]
      BY <1>2, <1>3, <2>1, <2>3, <3>1
    <3>3. b[j] \in PageHeld(b)
      BY <1>1, <1>8, <3>2 DEF PageHeld
    <3>4. QED
      BY <2>3, <3>1, <3>2, <3>3
  <2>4. QED
    BY <1>1, <2>2, <2>3, CapacityType
<1>9. ASSUME NEW i \in Slots, left[i] # NULL
      PROVE  i <= k - m /\ left[i] = b[i] /\ b[i] \in PageHeld(b)
  BY <1>1, <1>4, <1>9 DEF PageHeld
<1>10. PageDistinct(top)
  <2>1. SUFFICES ASSUME NEW i \in Slots, NEW j \in Slots, top[i] = top[j], top[i] # NULL
                 PROVE  i = j
    BY DEF PageDistinct
  <2>2. CASE i <= n /\ j <= n
    <3>1. top[i] = a[i] /\ top[j] = a[j]
      BY <1>1, <1>3, <2>2, CapacityType
    <3>2. QED
      BY <2>1, <3>1 DEF PageDistinct
  <2>3. CASE n < i /\ n < j
    <3>1. PICK x, y \in Slots : x = k - m + i - n /\ y = k - m + j - n /\ top[i] = b[x] /\ top[j] = b[y]
      <4>1. ~(i <= n) /\ ~(j <= n) /\ top[j] # NULL
        BY <1>1, <2>1, <2>3, CapacityType
      <4>2. k - m + i - n \in Slots /\ top[i] = b[k - m + i - n]
        BY <1>8, <2>1, <4>1
      <4>3. k - m + j - n \in Slots /\ top[j] = b[k - m + j - n]
        BY <1>8, <4>1
      <4>4. QED
        BY <4>2, <4>3
    <3>2. x = y
      BY <2>1, <3>1 DEF PageDistinct
    <3>3. QED
      BY <1>1, <3>1, <3>2, CapacityType
  <2>4. ASSUME NEW x \in Slots, NEW y \in Slots, x <= n, n < y, top[x] = top[y], top[x] # NULL
        PROVE  FALSE
    <3>1. top[x] \in PageHeld(a)
      BY <1>1, <1>8, <2>4, CapacityType
    <3>2. top[y] \in PageHeld(b)
      <4>1. ~(y <= n) /\ top[y] # NULL
        BY <1>1, <2>4, CapacityType
      <4>2. top[y] = b[k - m + y - n] /\ b[k - m + y - n] \in PageHeld(b)
        BY <1>8, <4>1
      <4>3. QED
        BY <4>2
    <3>3. QED
      BY <2>4, <3>1, <3>2
  <2>5. QED
    BY <1>1, <2>1, <2>2, <2>3, <2>4, CapacityType
<1>11. PageDistinct(left)
  BY <1>9 DEF PageDistinct
<1>12. PageHeld(top) \cap PageHeld(left) = {}
  <2>1. SUFFICES ASSUME NEW f, f \in PageHeld(top), f \in PageHeld(left) PROVE FALSE
    OBVIOUS
  <2>2. PICK i \in Slots, j \in Slots : top[i] = f /\ left[j] = f /\ f # NULL
    BY <2>1, CapacityType DEF PageHeld
  <2>3. j <= k - m /\ left[j] = b[j] /\ b[j] \in PageHeld(b)
    BY <1>9, <2>2
  <2>4. CASE i <= n /\ top[i] = a[i] /\ a[i] \in PageHeld(a)
    BY <2>2, <2>3, <2>4
  <2>5. CASE n < i
    <3>1. PICK x \in Slots : x > k - m /\ top[i] = b[x]
      BY <1>1, <1>8, <2>2, <2>5, CapacityType
    <3>2. x = j
      BY <2>2, <2>3, <3>1 DEF PageDistinct
    <3>3. QED
      BY <1>1, <2>3, <3>1, <3>2, CapacityType
  <2>6. QED
    BY <1>8, <2>2, <2>4, <2>5
<1>13. PageHeld(top) \cup PageHeld(left) \subseteq PageHeld(a) \cup PageHeld(b)
  <2>1. ASSUME NEW f \in PageHeld(top)
        PROVE  f \in PageHeld(a) \cup PageHeld(b)
    <3>1. PICK i \in Slots : top[i] = f /\ f # NULL
      BY CapacityType DEF PageHeld
    <3>2. QED
      BY <1>8, <3>1
  <2>2. ASSUME NEW f \in PageHeld(left)
        PROVE  f \in PageHeld(b)
    <3>1. PICK i \in Slots : left[i] = f /\ f # NULL
      BY CapacityType DEF PageHeld
    <3>2. QED
      BY <1>9, <3>1
  <2>3. QED
    BY <2>1, <2>2
<1>14. PageHeld(a) \subseteq PageHeld(top)
  <2>1. SUFFICES ASSUME NEW f \in PageHeld(a) PROVE f \in PageHeld(top)
    OBVIOUS
  <2>2. PICK i \in Slots : a[i] = f /\ f # NULL /\ f \in Futures
    BY CapacityType DEF PageHeld
  <2>3. i <= n
    BY <1>1, <2>2
  <2>4. top[i] = f
    BY <1>1, <1>3, <2>2, <2>3, CapacityType
  <2>5. QED
    BY <2>2, <2>4 DEF PageHeld
<1>15. PageHeld(b) \subseteq PageHeld(top) \cup PageHeld(left)
  <2>1. SUFFICES ASSUME NEW f \in PageHeld(b) PROVE f \in PageHeld(top) \cup PageHeld(left)
    OBVIOUS
  <2>2. PICK j \in Slots : b[j] = f /\ f # NULL /\ f \in Futures
    BY CapacityType DEF PageHeld
  <2>3. j <= k
    BY <1>1, <2>2
  <2>4. CASE j <= k - m
    <3>1. left[j] = f
      BY <1>4, <2>2, <2>4
    <3>2. QED
      BY <2>2, <3>1 DEF PageHeld
  <2>5. CASE j > k - m
    <3>1. PICK i : i = j - k + m + n
      OBVIOUS
    <3>2. i \in Slots /\ i > n /\ i <= n + m /\ k - m + i - n = j
      BY <1>1, <2>3, <2>5, <3>1, CapacityType
    <3>3. top[i] = b[k - m + i - n]
      BY <1>3, <3>2
    <3>4. QED
      BY <2>2, <3>2, <3>3 DEF PageHeld
  <2>6. QED
    BY <1>1, <2>4, <2>5, CapacityType
<1>16. QED
  BY <1>6, <1>7, <1>10, <1>11, <1>12, <1>13, <1>14, <1>15

\* A merge moves what there is and what fits.
LEMMA MovedBounds ==
  ASSUME NEW c, Good(c), NEW page, NEW k, Prefix(page, k)
  PROVE  /\ Moved(c, page) \in Nat /\ Moved(c, page) <= k
         /\ Moved(c, page) <= PAGE_CAPACITY - c.num_top_futures
         /\ Moved(c, page) = k \/ Moved(c, page) = PAGE_CAPACITY - c.num_top_futures
<1>1. Occupancy(page) = k /\ k \in Nat
  BY OccupancyCounts, CapacityType DEF Prefix
<1>2. c.num_top_futures \in Nat /\ c.num_top_futures <= PAGE_CAPACITY
  BY CacheFields, CapacityType DEF Good
<1>3. PICK room \in Nat : room = PAGE_CAPACITY - c.num_top_futures
  BY <1>2, CapacityType
<1>4. \E x \in {k, room} : \A y \in {k, room} : x <= y
  BY <1>1
<1>5. Moved(c, page) \in {k, room} /\ \A y \in {k, room} : Moved(c, page) <= y
  <2>1. Moved(c, page) = CHOOSE x \in {k, room} : \A y \in {k, room} : x <= y
    BY <1>1, <1>3 DEF Moved, Min
  <2>2. QED
    BY <1>4, <2>1
<1>6. QED
  BY <1>1, <1>3, <1>5

\* A page that is not full goes to a cache that has futures.
LEMMA MergeCorrect ==
  ASSUME NEW c, Good(c), Distinct(c), c.num_top_futures # 0,
         NEW page, NEW k, Prefix(page, k), k # 0, PageDistinct(page),
         PageHeld(page) \cap Held(c) = {}
  PROVE  /\ Good(Merge(c, page)) /\ Distinct(Merge(c, page))
         /\ Held(Merge(c, page)) = Held(c) \cup PageHeld(page)
         /\ Len(Merge(c, page).pages) = Len(c.pages) + 1
<1>1. /\ c \in Caches /\ c.pages \in Seq(Pages) /\ Len(c.pages) \in Nat /\ c.top \in Nat
      /\ c.num_top_futures \in Nat /\ c.num_top_futures <= PAGE_CAPACITY
      /\ c.top \in 1 .. Len(c.pages)
  BY CacheFields, CapacityType DEF Good
<1>2. PICK n, m, old : n = c.num_top_futures /\ m = Moved(c, page) /\ old = c.pages[c.top]
  OBVIOUS
<1>3. Occupancy(page) = k /\ k \in Nat /\ k <= PAGE_CAPACITY
  <2>1. Occupancy(page) = k
    BY OccupancyCounts
  <2>2. k \in 0 .. PAGE_CAPACITY
    BY DEF Prefix
  <2>3. QED
    BY <2>1, <2>2, CapacityType
<1>4. /\ m \in Nat /\ m <= k /\ m <= PAGE_CAPACITY - n
      /\ m = k \/ m = PAGE_CAPACITY - n
  <2>1. /\ Moved(c, page) \in Nat /\ Moved(c, page) <= k
        /\ Moved(c, page) <= PAGE_CAPACITY - c.num_top_futures
        /\ Moved(c, page) = k \/ Moved(c, page) = PAGE_CAPACITY - c.num_top_futures
    BY MovedBounds
  <2>2. QED
    BY <1>2, <2>1
<1>5. Prefix(old, n)
  <2>1. Level(c, c.top) = n
    BY <1>1, <1>2 DEF Level
  <2>2. QED
    BY <1>1, <1>2, <2>1 DEF Good
<1>6. PICK top, left : top = MergedTop(c, page) /\ left = Remainder(c, page)
  OBVIOUS
<1>7. /\ SeqHeld(c.pages) = Rest(c.pages, c.top) \cup PageHeld(old)
      /\ Rest(c.pages, c.top) \cap PageHeld(old) = {} /\ PageDistinct(old)
  BY <1>1, <1>2, RemoveAtInserts, InsertedHeld, InsertedDistinct DEF Distinct, Rest
<1>8. /\ Prefix(top, n + m) /\ PageDistinct(top)
      /\ Prefix(left, k - m) /\ PageDistinct(left)
      /\ PageHeld(top) \cap PageHeld(left) = {}
      /\ PageHeld(top) \cup PageHeld(left) = PageHeld(old) \cup PageHeld(page)
  <2>1. /\ top = [i \in Slots |-> IF i > n /\ i <= n + m THEN page[k - m + i - n] ELSE old[i]]
        /\ left = [i \in Slots |-> IF i <= k - m THEN page[i] ELSE
                                   IF i <= k THEN NULL ELSE page[i]]
    BY <1>2, <1>3, <1>6 DEF MergedTop, Remainder
  <2>2. PageHeld(old) \cap PageHeld(page) = {}
    BY <1>7 DEF Held
  <2>3. QED
    BY <1>4, <1>5, <1>7, <2>1, <2>2, MergePages
<1>9. top \in Pages /\ left \in Pages
  BY <1>8 DEF Prefix
<1>10. PICK qs : qs = [c.pages EXCEPT ![c.top] = top]
  OBVIOUS
<1>11. /\ qs \in Seq(Pages) /\ Len(qs) = Len(c.pages)
       /\ \A i \in 1 .. Len(c.pages) : qs[i] = IF i = c.top THEN top ELSE c.pages[i]
       /\ SeqHeld(qs) = Rest(c.pages, c.top) \cup PageHeld(top)
       /\ SeqDistinct(c.pages) /\ PageDistinct(top)
            /\ Rest(c.pages, c.top) \cap PageHeld(top) = {} => SeqDistinct(qs)
  BY <1>1, <1>9, <1>10, ReplacePage
<1>12. /\ SeqDistinct(qs)
       /\ SeqHeld(qs) \cap PageHeld(left) = {}
       /\ SeqHeld(qs) \cup PageHeld(left) = Held(c) \cup PageHeld(page)
  <2>1. Rest(c.pages, c.top) \cap PageHeld(page) = {}
    BY <1>7 DEF Held
  <2>2. Rest(c.pages, c.top) \cap PageHeld(top) = {} /\ Rest(c.pages, c.top) \cap PageHeld(left) = {}
    BY <1>7, <1>8, <2>1
  <2>3. QED
    BY <1>7, <1>8, <1>11, <2>2 DEF Held, Distinct
<1>13. PICK merged : merged = [c EXCEPT !.pages = qs, !.num_top_futures = n + m]
  OBVIOUS
<1>14. /\ merged.pages = qs /\ merged.top = c.top /\ merged.num_top_futures = n + m
       /\ merged = [pages |-> qs, top |-> c.top, num_top_futures |-> n + m]
       /\ n + m \in Nat /\ n + m \in 0 .. PAGE_CAPACITY /\ n + m # 0
  <2>1. /\ merged.pages = qs /\ merged.top = c.top /\ merged.num_top_futures = n + m
        /\ merged = [pages |-> qs, top |-> c.top, num_top_futures |-> n + m]
    BY <1>1, <1>13 DEF Caches
  <2>2. n + m \in Nat /\ n + m \in 0 .. PAGE_CAPACITY /\ n + m # 0
    BY <1>1, <1>2, <1>4, CapacityType
  <2>3. QED
    BY <2>1, <2>2
<1>15. merged \in Caches
  BY <1>1, <1>11, <1>14 DEF Caches
<1>16. Good(merged)
  <2>1. ASSUME NEW i \in 1 .. Len(qs)
        PROVE  Prefix(qs[i], Level(merged, i))
    <3>1. CASE i = c.top
      BY <1>1, <1>8, <1>11, <1>14, <3>1 DEF Level
    <3>2. CASE i # c.top
      <4>1. Level(merged, i) = Level(c, i)
        BY <1>1, <1>11, <1>14, <3>2 DEF Level
      <4>2. Prefix(c.pages[i], Level(c, i))
        BY <1>11 DEF Good
      <4>3. QED
        BY <1>11, <3>2, <4>1, <4>2
    <3>3. QED
      BY <3>1, <3>2
  <2>2. QED
    BY <1>1, <1>11, <1>14, <1>15, <2>1 DEF Good
<1>17. PICK r : r = Merge(c, page)
  OBVIOUS
<1>18. r = IF k - m = 0 THEN InsertEmpty(merged, left)
           ELSE [merged EXCEPT !.pages = InsertAt(@, c.top + 1, left),
                               !.top = @ + 1, !.num_top_futures = k - m]
  BY <1>1, <1>2, <1>3, <1>6, <1>10, <1>13, <1>17 DEF Merge, Caches
<1>19. CASE k - m = 0
  <2>1. Prefix(left, 0) /\ r = InsertEmpty(merged, left)
    BY <1>8, <1>18, <1>19
  <2>2. PageHeld(left) = {}
    BY <2>1, EmptyPageFacts
  <2>3. Distinct(merged) /\ Held(merged) = Held(c) \cup PageHeld(page)
    BY <1>12, <1>14, <2>2 DEF Held, Distinct
  <2>4. QED
    BY <1>11, <1>14, <1>16, <1>17, <2>1, <2>3, InsertEmptyCorrect
<1>20. CASE k - m # 0
  <2>1. n + m = PAGE_CAPACITY /\ k - m \in Nat /\ k - m \in 0 .. PAGE_CAPACITY
    BY <1>1, <1>2, <1>3, <1>4, <1>20, CapacityType
  <2>2. PICK ps : ps = InsertAt(qs, c.top + 1, left)
    OBVIOUS
  <2>3. Inserted(qs, ps, c.top + 1, left)
    <3>1. c.top + 1 \in 1 .. Len(qs) + 1
      BY <1>1, <1>11
    <3>2. QED
      BY <1>9, <1>11, <2>2, <3>1, InsertAtInserts
  <2>4. /\ r.pages = ps /\ r.top = c.top + 1 /\ r.num_top_futures = k - m
        /\ r = [pages |-> ps, top |-> c.top + 1, num_top_futures |-> k - m]
    BY <1>14, <1>18, <1>20, <2>2
  <2>5. r \in Caches /\ Len(ps) = Len(c.pages) + 1
    <3>1. ps \in Seq(Pages) /\ Len(ps) = Len(c.pages) + 1
      BY <1>11, <2>3 DEF Inserted
    <3>2. QED
      BY <1>1, <2>1, <2>4, <3>1 DEF Caches
  <2>6. Good(r)
    <3>1. ASSUME NEW i \in 1 .. Len(ps)
          PROVE  Prefix(ps[i], Level(r, i))
      <4>1. CASE i < c.top + 1
        <5>1. i \in 1 .. Len(qs) /\ ps[i] = qs[i]
          BY <2>3, <4>1, InsertedAt
        <5>2. Level(r, i) = PAGE_CAPACITY /\ Level(merged, i) = PAGE_CAPACITY
          BY <1>1, <1>14, <2>1, <2>4, <4>1, <5>1 DEF Level
        <5>3. Prefix(qs[i], Level(merged, i))
          BY <1>14, <1>16, <5>1 DEF Good
        <5>4. QED
          BY <5>1, <5>2, <5>3
      <4>2. CASE i = c.top + 1
        <5>1. ps[i] = left
          BY <2>3, <4>2, InsertedAt
        <5>2. Level(r, i) = k - m
          BY <1>1, <2>4, <4>2 DEF Level
        <5>3. QED
          BY <1>8, <5>1, <5>2
      <4>3. CASE i > c.top + 1
        <5>1. i - 1 \in 1 .. Len(qs) /\ ps[i] = qs[i - 1]
          BY <2>3, <4>3, InsertedAt
        <5>2. Level(r, i) = 0 /\ Level(merged, i - 1) = 0
          BY <1>1, <1>14, <2>4, <4>3, <5>1 DEF Level
        <5>3. Prefix(qs[i - 1], Level(merged, i - 1))
          BY <1>14, <1>16, <5>1 DEF Good
        <5>4. QED
          BY <5>1, <5>2, <5>3
      <4>4. QED
        BY <1>1, <2>5, <4>1, <4>2, <4>3
    <3>2. QED
      BY <1>1, <1>20, <2>4, <2>5, <3>1 DEF Good
  <2>7. Held(r) = Held(c) \cup PageHeld(page) /\ Distinct(r)
    <3>1. SeqHeld(ps) = SeqHeld(qs) \cup PageHeld(left)
      BY <2>3, InsertedHeld
    <3>2. SeqDistinct(ps)
      BY <1>8, <1>12, <2>3, InsertedDistinct
    <3>3. QED
      BY <1>12, <2>4, <3>1, <3>2 DEF Held, Distinct
  <2>8. QED
    BY <1>17, <2>4, <2>5, <2>6, <2>7
<1>21. QED
  BY <1>19, <1>20

\* future_pointer_cache_insert_futures(): all its three ways keep the shape.
LEMMA InsertFuturesCorrect ==
  ASSUME NEW c, Good(c), Distinct(c),
         NEW page, NEW k, Prefix(page, k), k # 0, PageDistinct(page),
         PageHeld(page) \cap Held(c) = {}
  PROVE  /\ Good(InsertFutures(c, page)) /\ Distinct(InsertFutures(c, page))
         /\ Held(InsertFutures(c, page)) = Held(c) \cup PageHeld(page)
         /\ Len(InsertFutures(c, page).pages) = Len(c.pages) + 1
<1>1. /\ c \in Caches /\ c.pages \in Seq(Pages) /\ Len(c.pages) \in Nat /\ c.top \in Nat
      /\ c.num_top_futures \in Nat /\ c.num_top_futures \in 0 .. PAGE_CAPACITY
      /\ c.top <= Len(c.pages) /\ page \in Pages
  BY CacheFields DEF Good, Prefix
<1>2. Occupancy(page) = k /\ k \in 0 .. PAGE_CAPACITY /\ k \in Nat
  BY OccupancyCounts, CapacityType DEF Prefix
<1>3. PICK qs : qs = <<page>> \o c.pages
  OBVIOUS
<1>4. Inserted(c.pages, qs, 1, page)
  BY <1>1, <1>3, ConsInserts
<1>5. qs \in Seq(Pages) /\ Len(qs) = Len(c.pages) + 1
  BY <1>4 DEF Inserted
<1>6. SeqHeld(qs) = Held(c) \cup PageHeld(page) /\ SeqDistinct(qs)
  BY <1>4, InsertedHeld, InsertedDistinct DEF Held, Distinct
<1>7. PICK r : r = InsertFutures(c, page)
  OBVIOUS
<1>8. CASE c.num_top_futures = 0
  <2>1. r.pages = qs /\ r.top = 1 /\ r.num_top_futures = k
        /\ r = [pages |-> qs, top |-> 1, num_top_futures |-> k]
    BY <1>2, <1>3, <1>7, <1>8 DEF InsertFutures
  <2>2. r \in Caches
    BY <1>2, <1>5, <2>1 DEF Caches
  <2>3. Good(r)
    <3>1. ASSUME NEW i \in 1 .. Len(qs)
          PROVE  Prefix(qs[i], Level(r, i))
      <4>1. CASE i = 1
        BY <1>4, <2>1, <4>1, InsertedAt DEF Level
      <4>2. CASE i # 1
        <5>1. i > 1 /\ i \in Nat
          BY <1>1, <1>5, <4>2
        <5>2. i - 1 \in 1 .. Len(c.pages) /\ qs[i] = c.pages[i - 1]
          BY <1>4, <5>1, InsertedAt
        <5>3. c.top <= 1
          BY <1>8 DEF Good
        <5>4. Level(r, i) = 0 /\ Level(c, i - 1) = 0
          BY <1>1, <1>8, <2>1, <5>1, <5>2, <5>3 DEF Level
        <5>5. Prefix(c.pages[i - 1], Level(c, i - 1))
          BY <5>2 DEF Good
        <5>6. QED
          BY <5>2, <5>4, <5>5
      <4>3. QED
        BY <4>1, <4>2
    <3>2. QED
      BY <1>1, <1>5, <2>1, <2>2, <3>1 DEF Good
  <2>4. QED
    BY <1>5, <1>6, <1>7, <2>1, <2>3 DEF Held, Distinct
<1>9. CASE c.num_top_futures # 0 /\ k = PAGE_CAPACITY
  <2>1. r.pages = qs /\ r.top = c.top + 1 /\ r.num_top_futures = c.num_top_futures
        /\ r = [pages |-> qs, top |-> c.top + 1, num_top_futures |-> c.num_top_futures]
    <3>1. r = [c EXCEPT !.pages = qs, !.top = @ + 1]
      BY <1>1, <1>2, <1>3, <1>7, <1>9 DEF InsertFutures, Caches
    <3>2. QED
      BY <1>1, <3>1 DEF Caches
  <2>2. r \in Caches
    BY <1>1, <1>5, <2>1 DEF Caches
  <2>3. Good(r)
    <3>1. ASSUME NEW i \in 1 .. Len(qs)
          PROVE  Prefix(qs[i], Level(r, i))
      <4>0. c.top # 0
        BY <1>9 DEF Good
      <4>1. CASE i = 1
        BY <1>1, <1>4, <1>9, <2>1, <4>0, <4>1, InsertedAt DEF Level
      <4>2. CASE i # 1
        <5>1. i > 1 /\ i \in Nat
          BY <1>1, <1>5, <4>2
        <5>2. i - 1 \in 1 .. Len(c.pages) /\ qs[i] = c.pages[i - 1]
          BY <1>4, <5>1, InsertedAt
        <5>3. Level(r, i) = Level(c, i - 1)
          BY <1>1, <2>1, <5>1 DEF Level
        <5>4. Prefix(c.pages[i - 1], Level(c, i - 1))
          BY <5>2 DEF Good
        <5>5. QED
          BY <5>2, <5>3, <5>4
      <4>3. QED
        BY <4>1, <4>2
    <3>2. QED
      BY <1>1, <1>5, <1>9, <2>1, <2>2, <3>1 DEF Good
  <2>4. QED
    BY <1>5, <1>6, <1>7, <2>1, <2>3 DEF Held, Distinct
<1>10. CASE c.num_top_futures # 0 /\ k # PAGE_CAPACITY
  <2>1. InsertFutures(c, page) = Merge(c, page)
    BY <1>2, <1>10 DEF InsertFutures
  <2>2. QED
    BY <1>10, <2>1, MergeCorrect
<1>11. QED
  BY <1>8, <1>9, <1>10

-----------------------------------------------------------------------------
(* future_pointer_cache_spill().                                             *)

\* What becomes of the cache `c' of the context when page n is spilled.
SpillStep(source, c, n) ==
  IF n <= (IF source.num_top_futures = 0 THEN 0 ELSE source.top)
  THEN InsertFutures(c, source.pages[n])
  ELSE InsertEmpty(c, source.pages[n])

\* `f' is the sequence of caches that the loop goes through, up to page n.
Spilling(f, source, target, n) ==
  f = [i \in 0 .. n |-> IF i = 0 THEN target ELSE SpillStep(source, f[i - 1], i)]

\* The spill of n pages is well defined, by the least n for which it is not.
LEMMA SpillingExists ==
  ASSUME NEW source, NEW target, NEW n \in Nat
  PROVE  \E f : Spilling(f, source, target, n)
<1> DEFINE Bad == {m \in Nat : ~\E f : Spilling(f, source, target, m)}
<1>1. SUFFICES ASSUME Bad # {} PROVE FALSE
  OBVIOUS
<1>2. PICK m \in Bad : \A x \in Bad : m <= x
  BY <1>1, LeastNumber
<1>3. m \in Nat /\ ~\E f : Spilling(f, source, target, m)
  BY <1>2
<1>4. CASE m = 0
  <2>1. PICK f : f = [i \in 0 .. 0 |-> target]
    OBVIOUS
  <2>2. f = [i \in 0 .. 0 |-> IF i = 0 THEN target ELSE SpillStep(source, f[i - 1], i)]
    BY <2>1
  <2>3. Spilling(f, source, target, m)
    BY <1>4, <2>2 DEF Spilling
  <2>4. QED
    BY <1>3, <2>3
<1>5. CASE m # 0
  <2>1. m - 1 \in Nat /\ m - 1 \notin Bad
    BY <1>2, <1>3, <1>5
  <2>2. PICK g : Spilling(g, source, target, m - 1)
    BY <2>1
  <2>3. PICK f : f = [i \in 0 .. m |-> IF i = m THEN SpillStep(source, g[m - 1], m) ELSE g[i]]
    OBVIOUS
  <2>4. \A i \in 0 .. m - 1 :
          g[i] = IF i = 0 THEN target ELSE SpillStep(source, g[i - 1], i)
    BY <2>2, Zenon DEF Spilling
  <2>5. \A i \in 0 .. m : f[i] = IF i = 0 THEN target ELSE SpillStep(source, f[i - 1], i)
    <3>1. TAKE i \in 0 .. m
    <3>2. CASE i = m
      <4>1. f[m - 1] = g[m - 1]
        BY <1>3, <1>5, <2>1, <2>3
      <4>2. f[m] = SpillStep(source, g[m - 1], m)
        BY <1>3, <2>3
      <4>3. QED
        BY <1>5, <3>2, <4>1, <4>2
    <3>3. CASE i # m
      <4>1. i \in 0 .. m - 1 /\ f[i] = g[i]
        BY <1>3, <2>3, <3>3
      <4>2. i # 0 => f[i - 1] = g[i - 1]
        BY <1>3, <2>3, <3>3
      <4>3. QED
        BY <2>4, <4>1, <4>2
    <3>4. QED
      BY <3>2, <3>3
  <2>6. Spilling(f, source, target, m)
    <3>1. f = [i \in 0 .. m |-> f[i]]
      BY <2>3
    <3>2. QED
      BY <2>5, <3>1, Zenon DEF Spilling
  <2>7. QED
    BY <1>3, <2>6
<1>6. QED
  BY <1>4, <1>5

\* The futures of the first n pages.
FirstHeld(ps, n) == {f \in Futures : \E m \in 1 .. n : \E i \in Slots : ps[m][i] = f}

\* One more page of a cache is spilled.
LEMMA FirstHeldGrows ==
  ASSUME NEW ps \in Seq(Pages), NEW n \in 1 .. Len(ps)
  PROVE  /\ FirstHeld(ps, n) = FirstHeld(ps, n - 1) \cup PageHeld(ps[n])
         /\ FirstHeld(ps, n) \subseteq SeqHeld(ps)
         /\ SeqDistinct(ps) => FirstHeld(ps, n - 1) \cap PageHeld(ps[n]) = {} /\ PageDistinct(ps[n])
<1>1. Len(ps) \in Nat /\ n \in Nat
  BY LenProperties
<1>2. \A m : m \in 1 .. n <=> m = n \/ m \in 1 .. n - 1
  BY <1>1
<1>3. \A m \in 1 .. n - 1 : m \in 1 .. Len(ps) /\ m # n
  BY <1>1
<1>4. FirstHeld(ps, n) = FirstHeld(ps, n - 1) \cup PageHeld(ps[n])
  BY <1>2, Zenon DEF FirstHeld, PageHeld
<1>5. FirstHeld(ps, n) \subseteq SeqHeld(ps)
  BY <1>2, <1>3 DEF FirstHeld, SeqHeld
<1>6. ASSUME SeqDistinct(ps)
      PROVE  FirstHeld(ps, n - 1) \cap PageHeld(ps[n]) = {} /\ PageDistinct(ps[n])
  <2>1. PageDistinct(ps[n])
    BY <1>6 DEF SeqDistinct, PageDistinct
  <2>2. ASSUME NEW f, f \in FirstHeld(ps, n - 1), f \in PageHeld(ps[n])
        PROVE  FALSE
    <3>1. PICK m \in 1 .. n - 1, i \in Slots, j \in Slots : ps[m][i] = f /\ ps[n][j] = f
      BY <2>2 DEF FirstHeld, PageHeld
    <3>2. f # NULL
      BY <2>2, CapacityType DEF PageHeld
    <3>3. QED
      BY <1>3, <1>6, <3>1, <3>2 DEF SeqDistinct
  <2>3. QED
    BY <2>1, <2>2
<1>7. QED
  BY <1>4, <1>5, <1>6

\* future_pointer_cache_spill() moves every future of a cache.
LEMMA SpillCorrect ==
  ASSUME NEW source, Good(source), Distinct(source),
         NEW target, Good(target), Distinct(target),
         Held(source) \cap Held(target) = {}
  PROVE  /\ Good(Spill(source, target)) /\ Distinct(Spill(source, target))
         /\ Held(Spill(source, target)) = Held(target) \cup Held(source)
<1>1. /\ source \in Caches /\ source.pages \in Seq(Pages) /\ Len(source.pages) \in Nat
      /\ source.top \in Nat /\ source.top <= Len(source.pages)
      /\ source.num_top_futures \in Nat
  BY CacheFields DEF Good
<1>2. PICK ps, len : ps = source.pages /\ len = Len(source.pages)
  OBVIOUS
<1> DEFINE spilled == CHOOSE f : Spilling(f, source, target, len)
<1>3. Spilling(spilled, source, target, len)
  BY <1>1, <1>2, SpillingExists
<1>4. Spill(source, target) = spilled[len]
  BY <1>2 DEF Spill, Spilling, SpillStep
<1> HIDE DEF spilled
<1>5. \A i \in 0 .. len :
        spilled[i] = IF i = 0 THEN target ELSE SpillStep(source, spilled[i - 1], i)
  BY <1>3, Zenon DEF Spilling
<1> DEFINE Fine(i) == /\ Good(spilled[i]) /\ Distinct(spilled[i])
                      /\ Held(spilled[i]) = Held(target) \cup FirstHeld(ps, i)
           Bad == {m \in Nat : m <= len /\ ~Fine(m)}
<1>6. Bad = {}
  <2>1. SUFFICES ASSUME Bad # {} PROVE FALSE
    OBVIOUS
  <2>2. PICK n \in Bad : \A x \in Bad : n <= x
    <3>1. Bad \subseteq Nat
      OBVIOUS
    <3> HIDE DEF Bad
    <3>2. QED
      BY <2>1, <3>1, LeastNumber
  <2>3. n \in Nat /\ n <= len /\ ~Fine(n)
    BY <2>2
  <2> HIDE DEF Fine
  <2>4. n # 0
    <3>1. SUFFICES ASSUME n = 0 PROVE FALSE
      OBVIOUS
    <3>2. spilled[0] = target
      BY <1>1, <1>2, <1>5
    <3>3. FirstHeld(ps, 0) = {}
      BY DEF FirstHeld
    <3>4. Fine(0)
      BY <3>2, <3>3 DEF Fine
    <3>5. QED
      BY <2>3, <3>1, <3>4
  <2>5. Fine(n - 1)
    <3>1. n - 1 \in Nat /\ n - 1 <= len /\ ~(n <= n - 1)
      BY <1>1, <1>2, <2>3, <2>4
    <3>2. n - 1 \notin Bad
      BY <2>2, <3>1
    <3>3. QED
      BY <3>1, <3>2
  <2>6. n \in 1 .. len /\ n \in 0 .. len
    BY <1>1, <1>2, <2>3, <2>4
  <2>7. PICK c, page : c = spilled[n - 1] /\ page = ps[n]
    OBVIOUS
  <2>8. Good(c) /\ Distinct(c) /\ Held(c) = Held(target) \cup FirstHeld(ps, n - 1)
    BY <2>5, <2>7 DEF Fine
  <2>9. Prefix(page, Level(source, n))
    BY <1>2, <2>6, <2>7 DEF Good
  <2>10. /\ FirstHeld(ps, n) = FirstHeld(ps, n - 1) \cup PageHeld(page)
         /\ FirstHeld(ps, n) \subseteq Held(source)
         /\ FirstHeld(ps, n - 1) \cap PageHeld(page) = {} /\ PageDistinct(page)
    BY <1>1, <1>2, <2>6, <2>7, FirstHeldGrows DEF Held, Distinct
  <2>11. PageHeld(page) \cap Held(c) = {}
    BY <2>8, <2>10
  <2>12. spilled[n] = SpillStep(source, c, n)
    BY <1>5, <2>4, <2>6, <2>7
  <2>13. CASE n <= (IF source.num_top_futures = 0 THEN 0 ELSE source.top)
    <3>1. Level(source, n) # 0
      BY <1>1, <2>3, <2>4, <2>13, CapacityType DEF Level
    <3>2. spilled[n] = InsertFutures(c, page)
      BY <1>2, <2>7, <2>12, <2>13 DEF SpillStep
    <3>3. Fine(n)
      BY <2>8, <2>9, <2>10, <2>11, <3>1, <3>2, InsertFuturesCorrect DEF Fine
    <3>4. QED
      BY <2>3, <3>3
  <2>14. CASE ~(n <= (IF source.num_top_futures = 0 THEN 0 ELSE source.top))
    <3>1. Level(source, n) = 0
      <4>1. source.num_top_futures = 0 => source.top <= 1
        BY DEF Good
      <4>2. QED
        BY <1>1, <2>3, <2>4, <2>14, <4>1 DEF Level
    <3>2. spilled[n] = InsertEmpty(c, page)
      BY <1>2, <2>7, <2>12, <2>14 DEF SpillStep
    <3>3. Prefix(page, 0) /\ PageHeld(page) = {}
      BY <2>9, <3>1, EmptyPageFacts
    <3>4. Fine(n)
      BY <2>8, <2>10, <3>2, <3>3, InsertEmptyCorrect DEF Fine
    <3>5. QED
      BY <2>3, <3>4
  <2>15. QED
    BY <2>13, <2>14
<1>7. Fine(len)
  BY <1>1, <1>2, <1>6
<1>8. FirstHeld(ps, len) = Held(source)
  BY <1>2 DEF FirstHeld, Held, SeqHeld
<1>9. QED
  BY <1>4, <1>7, <1>8

-----------------------------------------------------------------------------
(* The inductive invariant.                                                  *)

\* What a thread keeps: in its cache, in the page that it is handing over, and
\* the future that it is liberating.
OwnOf(c, page, f) == Held(c) \cup PageHeld(page) \cup ({f} \ {NULL})

Own(t) == OwnOf(local[t], hand[t], freeing[t])

\* The pages that a thread has, by its position.
PagesAt(where) ==
  CASE where \in {"ready", "refill"} -> LOCAL_FUTURE_POINTER_PAGES
    [] where = "spill" -> LOCAL_FUTURE_POINTER_PAGES - 1
    [] OTHER -> 0

Fits(where, c, page, f) ==
  /\ Good(c) /\ Distinct(c)
  /\ Len(c.pages) = PagesAt(where)
  /\ where = "refill" => c.num_top_futures = 0
  /\ where # "spill" => f = NULL /\ Prefix(page, 0)
  /\ where = "spill" => /\ f \in Futures
                        /\ Prefix(page, PAGE_CAPACITY) /\ PageDistinct(page)
                        /\ Held(c) \cap PageHeld(page) = {}
                        /\ f \notin Held(c) \cup PageHeld(page)

ThreadFits(t) == Fits(pc[t], local[t], hand[t], freeing[t])

\* Nobody has what somebody else has...
Apart ==
  /\ used \cap Held(global) = {}
  /\ \A t \in Threads : Own(t) \cap (used \cup Held(global)) = {}
  /\ \A t, u \in Threads : t # u => Own(t) \cap Own(u) = {}

\* ... of the futures in storage, all of which are somewhere unless the context's
\* destructor drops the cache of a thread that exits.
Covered ==
  /\ used \subseteq storage /\ Held(global) \subseteq storage
  /\ \A t \in Threads : Own(t) \subseteq storage
  /\ Destructor = "from_thread" =>
       \A f \in storage : f \in used \/ f \in Held(global) \/ \E t \in Threads : f \in Own(t)

FInv ==
  /\ TypeOK
  /\ Good(global) /\ Distinct(global)
  /\ \A t \in Threads : ThreadFits(t)
  /\ Apart
  /\ Covered

\* A thread that is not spilling only has what is in its cache.
LEMMA QuietOwns ==
  ASSUME NEW where, NEW c, NEW page, NEW f, Fits(where, c, page, f), where # "spill"
  PROVE  OwnOf(c, page, f) = Held(c)
BY EmptyPageFacts DEF Fits, OwnOf

\* A cache without pages has no futures.
LEMMA NoPagesNoFutures ==
  ASSUME NEW c, Good(c), Len(c.pages) = 0
  PROVE  Held(c) = {}
BY DEF Held, SeqHeld

\* The other threads keep what they have.
Frame(t) ==
  \A u \in Threads \ {t} : /\ local'[u] = local[u] /\ hand'[u] = hand[u]
                           /\ freeing'[u] = freeing[u] /\ pc'[u] = pc[u]

\* A step of thread t redistributes the futures of the application, the
\* context and the thread, and the ones of new storage, between them...
Passed(t, new) ==
  /\ new \cap storage = {} /\ storage' = storage \cup new
  /\ used' \cap Held(global)' = {} /\ Own(t)' \cap (used' \cup Held(global)') = {}
  /\ used' \cup Held(global)' \cup Own(t)' \subseteq used \cup Held(global) \cup Own(t) \cup new
  /\ Destructor = "from_thread" =>
       used \cup Held(global) \cup Own(t) \cup new \subseteq used' \cup Held(global)' \cup Own(t)'

\* ... which keeps the invariant.
LEMMA StepKeeps ==
  ASSUME FInv, TypeOK', NEW t \in Threads, Frame(t),
         ThreadFits(t)', Good(global)', Distinct(global)',
         NEW new, Passed(t, new)
  PROVE  FInv'
<1>0. /\ new \cap storage = {} /\ storage' = storage \cup new
      /\ used' \cap Held(global)' = {} /\ Own(t)' \cap (used' \cup Held(global)') = {}
      /\ used' \cup Held(global)' \cup Own(t)' \subseteq used \cup Held(global) \cup Own(t) \cup new
      /\ Destructor = "from_thread" =>
           used \cup Held(global) \cup Own(t) \cup new \subseteq used' \cup Held(global)' \cup Own(t)'
  BY DEF Passed
<1>1. \A u \in Threads : u # t => ThreadFits(u)' /\ Own(u)' = Own(u)
  BY DEF Frame, ThreadFits, Own, FInv
<1>2. \A u \in Threads : ThreadFits(u)'
  BY <1>1
<1>3. \A u \in Threads : u # t => Own(u) \cap (used \cup Held(global) \cup Own(t) \cup new) = {}
  BY <1>0 DEF FInv, Apart, Covered
<1>4. Apart'
  <2>1. \A u \in Threads : Own(u)' \cap (used' \cup Held(global)') = {}
    BY <1>0, <1>1, <1>3
  <2>2. ASSUME NEW u \in Threads, NEW v \in Threads, u # v
        PROVE  Own(u)' \cap Own(v)' = {}
    <3>1. CASE u # t /\ v # t
      BY <1>1, <2>2, <3>1 DEF FInv, Apart
    <3>2. CASE u = t
      BY <1>0, <1>1, <1>3, <2>2, <3>2
    <3>3. CASE v = t
      BY <1>0, <1>1, <1>3, <2>2, <3>3
    <3>4. QED
      BY <3>1, <3>2, <3>3
  <2>3. QED
    BY <1>0, <2>1, <2>2 DEF Apart
<1>5. Covered'
  <2>1. used' \cup Held(global)' \cup Own(t)' \subseteq storage'
    BY <1>0 DEF FInv, Covered
  <2>2. \A u \in Threads : Own(u)' \subseteq storage'
    BY <1>0, <1>1, <2>1 DEF FInv, Covered
  <2>3. ASSUME Destructor = "from_thread", NEW f \in storage'
        PROVE  f \in used' \/ f \in Held(global)' \/ \E u \in Threads : f \in Own(u)'
    <3>1. CASE f \in new
      BY <1>0, <2>3, <3>1
    <3>2. CASE f \in used \/ f \in Held(global) \/ f \in Own(t)
      BY <1>0, <2>3, <3>2
    <3>3. CASE \E u \in Threads : u # t /\ f \in Own(u)
      BY <1>1, <3>3
    <3>4. QED
      BY <1>0, <2>3, <3>1, <3>2, <3>3 DEF FInv, Covered
  <2>4. QED
    BY <2>1, <2>2, <2>3 DEF Covered
<1>6. QED
  BY <1>2, <1>4, <1>5 DEF FInv

\* The inductive invariant holds initially...
LEMMA InitFits ==
  ASSUME Init
  PROVE  FInv
<1>1. TypeOK
  BY EmptyCache, EmptyPageFacts DEF Init, TypeOK, Good, Prefix
<1>2. Good(global) /\ Distinct(global) /\ Held(global) = {}
  BY EmptyCache DEF Init
<1>3. ASSUME NEW t \in Threads
      PROVE  ThreadFits(t) /\ Own(t) = {}
  <2>1. pc[t] = "detached" /\ local[t] = GlobalCache /\ hand[t] = EmptyPage /\ freeing[t] = NULL
    BY DEF Init
  <2>2. Fits("detached", GlobalCache, EmptyPage, NULL)
    BY EmptyCache, EmptyPageFacts DEF Fits, PagesAt
  <2>3. OwnOf(GlobalCache, EmptyPage, NULL) = {}
    BY <2>2, QuietOwns, EmptyCache
  <2>4. QED
    BY <2>1, <2>2, <2>3 DEF ThreadFits, Own
<1>4. storage = {} /\ used = {}
  BY DEF Init
<1>5. QED
  BY <1>1, <1>2, <1>3, <1>4 DEF FInv, Apart, Covered

\* The parts of the invariant that concern thread t.
LEMMA ThreadParts ==
  ASSUME FInv, NEW t \in Threads
  PROVE  /\ TypeOK /\ Good(global) /\ Distinct(global)
         /\ Fits(pc[t], local[t], hand[t], freeing[t])
         /\ Own(t) = OwnOf(local[t], hand[t], freeing[t])
         /\ Own(t) \cap used = {} /\ Own(t) \cap Held(global) = {} /\ used \cap Held(global) = {}
         /\ used \subseteq storage /\ Held(global) \subseteq storage /\ Own(t) \subseteq storage
BY DEF FInv, ThreadFits, Own, Apart, Covered

\* ... and is kept when a thread first uses the context...
LEMMA AttachKeeps ==
  ASSUME FInv, NEW t \in Threads, Attach(t)
  PROVE  FInv'
<1>1. /\ pc[t] = "detached" /\ pc' = [pc EXCEPT ![t] = "ready"]
      /\ local' = [local EXCEPT ![t] = LocalCache]
      /\ storage' = storage /\ used' = used /\ global' = global /\ freeing' = freeing /\ hand' = hand
  BY DEF Attach
<1>2. LocalCache \in Caches /\ TypeOK
  BY FreshCache, ThreadParts DEF Good
<1>3. TypeOK'
  BY <1>1, <1>2 DEF TypeOK
<1>4. local'[t] = LocalCache /\ pc'[t] = "ready" /\ Frame(t)
  BY <1>1, <1>2 DEF TypeOK, Frame
<1>5. Fits("detached", local[t], hand[t], freeing[t])
  BY <1>1, ThreadParts
<1>6. Fits("ready", LocalCache, hand[t], freeing[t])
  BY <1>5, FreshCache DEF Fits, PagesAt
<1>7. Own(t)' = {} /\ Own(t) = {}
  <2>1. Held(local[t]) = {}
    BY <1>5, NoPagesNoFutures DEF Fits, PagesAt
  <2>2. OwnOf(local[t], hand[t], freeing[t]) = {}
    BY <1>5, <2>1, QuietOwns
  <2>3. OwnOf(LocalCache, hand[t], freeing[t]) = {}
    BY <1>6, QuietOwns, FreshCache
  <2>4. QED
    BY <1>1, <1>4, <2>2, <2>3 DEF Own
<1>8. ThreadFits(t)' /\ Good(global)' /\ Distinct(global)' /\ Held(global)' = Held(global)
  BY <1>1, <1>4, <1>6, ThreadParts DEF ThreadFits
<1>9. used \cap Held(global) = {}
  BY ThreadParts
<1>10. Passed(t, {})
  BY <1>1, <1>7, <1>8, <1>9 DEF Passed
<1>11. QED
  BY <1>3, <1>4, <1>8, <1>10, StepKeeps

\* ... when a thread allocates from its own cache...
LEMMA AllocateKeeps ==
  ASSUME FInv, NEW t \in Threads, Allocate(t)
  PROVE  FInv'
<1>1. pc[t] = "ready" /\ storage' = storage /\ global' = global /\ freeing' = freeing /\ hand' = hand
  BY DEF Allocate
<1>2. /\ TypeOK /\ Fits("ready", local[t], hand[t], freeing[t])
      /\ Own(t) = Held(local[t])
      /\ Own(t) \cap used = {} /\ Own(t) \cap Held(global) = {} /\ used \cap Held(global) = {}
      /\ used \subseteq storage /\ Own(t) \subseteq storage
      /\ Good(global)' /\ Distinct(global)' /\ Held(global)' = Held(global)
  BY <1>1, ThreadParts, QuietOwns
<1>3. CASE local[t].num_top_futures # 0 /\ TakeFrom(t, local[t]) /\ UNCHANGED pc
  <2>1. PICK c, f : c = Pop(local[t]) /\ f = TopFuture(local[t])
    OBVIOUS
  <2>2. used' = used \cup {f} /\ local' = [local EXCEPT ![t] = c] /\ pc' = pc
    BY <1>3, <2>1 DEF TakeFrom
  <2>3. /\ f \in Held(local[t]) /\ Good(c) /\ Distinct(c)
        /\ Held(c) = Held(local[t]) \ {f} /\ Len(c.pages) = Len(local[t].pages)
    BY <1>2, <1>3, <2>1, PopCorrect DEF Fits
  <2>4. Fits("ready", c, hand[t], freeing[t])
    BY <1>2, <2>3 DEF Fits
  <2>5. c \in Caches /\ f \in Futures
    BY <2>3 DEF Good, Held, SeqHeld
  <2>6. TypeOK' /\ local'[t] = c /\ Frame(t)
    BY <1>1, <1>2, <2>2, <2>5 DEF TypeOK, Frame
  <2>7. ThreadFits(t)' /\ Own(t)' = Held(local[t]) \ {f}
    <3>1. OwnOf(c, hand[t], freeing[t]) = Held(c)
      BY <2>4, QuietOwns
    <3>2. QED
      BY <1>1, <2>2, <2>3, <2>4, <2>6, <3>1 DEF ThreadFits, Own
  <2>8. used' \cap Held(global)' = {} /\ Own(t)' \cap (used' \cup Held(global)') = {}
    BY <1>2, <2>2, <2>3, <2>7
  <2>9. used' \cup Held(global)' \cup Own(t)' = used \cup Held(global) \cup Own(t) \cup {}
    BY <1>2, <2>2, <2>3, <2>7
  <2>10. Passed(t, {})
    BY <1>1, <2>8, <2>9 DEF Passed
  <2>11. QED
    BY <1>2, <2>6, <2>7, <2>10, StepKeeps
<1>4. CASE /\ local[t].num_top_futures = 0 /\ pc' = [pc EXCEPT ![t] = "refill"]
           /\ UNCHANGED <<used, local>>
  <2>1. TypeOK' /\ pc'[t] = "refill" /\ Frame(t)
    BY <1>1, <1>2, <1>4 DEF TypeOK, Frame
  <2>2. Fits("refill", local[t], hand[t], freeing[t])
    BY <1>2, <1>4 DEF Fits, PagesAt
  <2>3. ThreadFits(t)' /\ Own(t)' = Own(t)
    BY <1>1, <1>4, <2>1, <2>2 DEF ThreadFits, Own
  <2>4. Passed(t, {})
    BY <1>1, <1>2, <1>4, <2>3 DEF Passed
  <2>5. QED
    BY <1>2, <2>1, <2>3, <2>4, StepKeeps
<1>5. QED
  BY <1>3, <1>4 DEF Allocate

\* The future that a refilled cache gives away at once, and the rest of it.
LEMMA TakeFromRefilled ==
  ASSUME FInv, NEW t \in Threads, pc[t] = "refill",
         NEW c, Good(c), Distinct(c), c.num_top_futures # 0,
         Len(c.pages) = LOCAL_FUTURE_POINTER_PAGES,
         TakeFrom(t, c), pc' = [pc EXCEPT ![t] = "ready"], freeing' = freeing, hand' = hand
  PROVE  /\ Frame(t) /\ ThreadFits(t)' /\ local' \in [Threads -> Caches]
         /\ TopFuture(c) \in Held(c) /\ Held(c) \subseteq Futures
         /\ used' = used \cup {TopFuture(c)}
         /\ Own(t) = {} /\ Own(t)' = Held(c) \ {TopFuture(c)}
<1>1. TypeOK /\ Fits("refill", local[t], hand[t], freeing[t])
  BY ThreadParts
<1>2. PICK d, f : d = Pop(c) /\ f = TopFuture(c)
  OBVIOUS
<1>3. used' = used \cup {f} /\ local' = [local EXCEPT ![t] = d]
  BY <1>2 DEF TakeFrom
<1>4. f \in Held(c) /\ Good(d) /\ Distinct(d) /\ Held(d) = Held(c) \ {f} /\ Len(d.pages) = Len(c.pages)
  BY <1>2, PopCorrect
<1>5. Fits("ready", d, hand[t], freeing[t])
  BY <1>1, <1>4 DEF Fits, PagesAt
<1>6. d \in Caches
  BY <1>4 DEF Good
<1>7. local' \in [Threads -> Caches] /\ local'[t] = d /\ pc'[t] = "ready" /\ Frame(t)
  BY <1>1, <1>3, <1>6 DEF TypeOK, Frame
<1>8. Own(t) = {}
  BY <1>1, QuietOwns, NoFutures DEF Own, Fits
<1>9. ThreadFits(t)' /\ Own(t)' = Held(d)
  <2>1. OwnOf(d, hand[t], freeing[t]) = Held(d)
    BY <1>5, QuietOwns
  <2>2. QED
    BY <1>5, <1>7, <2>1 DEF ThreadFits, Own
<1>10. Held(c) \subseteq Futures
  BY DEF Held, SeqHeld
<1>11. QED
  BY <1>2, <1>3, <1>4, <1>7, <1>8, <1>9, <1>10

\* ... with a page of the context...
LEMMA RefillKeeps ==
  ASSUME FInv, NEW t \in Threads, Refill(t)
  PROVE  FInv'
<1>1. /\ pc[t] = "refill" /\ HasFutures(global) /\ pc' = [pc EXCEPT ![t] = "ready"]
      /\ storage' = storage /\ freeing' = freeing /\ hand' = hand
  BY DEF Refill
<1>2. /\ TypeOK /\ Fits("refill", local[t], hand[t], freeing[t])
      /\ used \cap Held(global) = {} /\ Held(global) \subseteq storage /\ used \subseteq storage
      /\ Good(global) /\ Distinct(global)
  BY <1>1, ThreadParts
<1>3. Good(local[t]) /\ Distinct(local[t]) /\ local[t].num_top_futures = 0
      /\ Len(local[t].pages) = LOCAL_FUTURE_POINTER_PAGES
      /\ LOCAL_FUTURE_POINTER_PAGES \in Nat \ {0}
  BY <1>2, PagesAssumption DEF Fits, PagesAt
<1>4. PICK bottom, rest, empty, fewer :
        /\ bottom = BottomPage(global) /\ rest = WithoutBottom(global)
        /\ empty = EmptyOf(local[t]) /\ fewer = WithoutEmpty(local[t])
  OBVIOUS
<1>5. global.num_top_futures # 0 /\ Len(global.pages) # 0
  BY <1>1, <1>2 DEF HasFutures, Good
<1>6. /\ Prefix(bottom, Level(global, 1)) /\ PageDistinct(bottom)
      /\ Good(rest) /\ Distinct(rest)
      /\ Held(global) = Held(rest) \cup PageHeld(bottom)
      /\ Held(rest) \cap PageHeld(bottom) = {}
  BY <1>2, <1>4, <1>5, BottomCorrect
<1>7. /\ Prefix(empty, 0) /\ Good(fewer) /\ Distinct(fewer) /\ Held(fewer) = {}
      /\ fewer.num_top_futures = 0
      /\ Len(fewer.pages) = LOCAL_FUTURE_POINTER_PAGES - 1
  BY <1>3, <1>4, ObtainEmptyCorrect, NoFutures
<1>8. Level(global, 1) # 0
  <2>1. global.top \in Nat /\ global.top # 0
    BY <1>2, <1>5, CacheFields DEF Good
  <2>2. QED
    BY <1>5, <2>1, CapacityType DEF Level
<1>9. PICK c : c = InsertFutures(fewer, bottom)
  OBVIOUS
<1>10. /\ Good(c) /\ Distinct(c) /\ Held(c) = PageHeld(bottom)
       /\ Len(c.pages) = LOCAL_FUTURE_POINTER_PAGES
  <2>1. PageHeld(bottom) \cap Held(fewer) = {}
    BY <1>7
  <2>2. /\ Good(c) /\ Distinct(c) /\ Held(c) = Held(fewer) \cup PageHeld(bottom)
        /\ Len(c.pages) = Len(fewer.pages) + 1
    BY <1>6, <1>7, <1>8, <1>9, <2>1, InsertFuturesCorrect
  <2>3. QED
    BY <1>3, <1>7, <2>2
<1>11. c.num_top_futures # 0
  <2>1. c.num_top_futures = Occupancy(bottom)
    BY <1>7, <1>9 DEF InsertFutures
  <2>2. QED
    BY <1>6, <1>8, <2>1, OccupancyCounts
<1>12. TakeFrom(t, c) /\ global' = InsertEmpty(rest, empty)
  BY <1>4, <1>9 DEF Refill
<1>13. Good(global)' /\ Distinct(global)' /\ Held(global)' = Held(rest)
  BY <1>6, <1>7, <1>12, InsertEmptyCorrect
<1>14. PICK f : f = TopFuture(c)
  OBVIOUS
<1>15. /\ Frame(t) /\ ThreadFits(t)' /\ local' \in [Threads -> Caches]
       /\ f \in Held(c) /\ Held(c) \subseteq Futures /\ used' = used \cup {f}
       /\ Own(t) = {} /\ Own(t)' = Held(c) \ {f}
  BY <1>1, <1>10, <1>11, <1>12, <1>14, TakeFromRefilled
<1>16. TypeOK'
  BY <1>1, <1>2, <1>13, <1>15 DEF TypeOK, Good
<1>17. used' \cap Held(global)' = {} /\ Own(t)' \cap (used' \cup Held(global)') = {}
  BY <1>2, <1>6, <1>10, <1>13, <1>15
<1>18. used' \cup Held(global)' \cup Own(t)' = used \cup Held(global) \cup Own(t) \cup {}
  BY <1>6, <1>10, <1>13, <1>15
<1>19. Passed(t, {})
  BY <1>1, <1>17, <1>18 DEF Passed
<1>20. QED
  BY <1>13, <1>15, <1>16, <1>19, StepKeeps

\* ... with a new storage page...
LEMMA GrowKeeps ==
  ASSUME FInv, NEW t \in Threads, Grow(t)
  PROVE  FInv'
<1>1. /\ pc[t] = "refill" /\ pc' = [pc EXCEPT ![t] = "ready"]
      /\ global' = global /\ freeing' = freeing /\ hand' = hand
  BY DEF Grow
<1>2. /\ TypeOK /\ Fits("refill", local[t], hand[t], freeing[t])
      /\ used \cap Held(global) = {} /\ Held(global) \subseteq storage /\ used \subseteq storage
      /\ Good(global)' /\ Distinct(global)' /\ Held(global)' = Held(global)
  BY <1>1, ThreadParts
<1>3. Good(local[t]) /\ Distinct(local[t]) /\ local[t].num_top_futures = 0
      /\ Len(local[t].pages) = LOCAL_FUTURE_POINTER_PAGES
      /\ Len(local[t].pages) # 0
  BY <1>2, PagesAssumption DEF Fits, PagesAt
<1>4. PICK futures \in NewStoragePages :
        storage' = storage \cup Range(futures) /\ TakeFrom(t, RefillLocal(local[t], futures))
  BY DEF Grow
<1>5. PICK n : n = STORAGE_LENGTH
  OBVIOUS
<1>6. /\ n \in 1 .. PAGE_CAPACITY /\ n \in Nat /\ futures \in [1 .. n -> Futures \ storage]
      /\ \A i, j \in 1 .. n : futures[i] = futures[j] => i = j
  <2>1. PICK S \in SUBSET (Futures \ storage) : Cardinality(S) = n /\ futures \in SetToSeqs(S)
    BY <1>4, <1>5 DEF NewStoragePages
  <2>2. futures \in [1 .. n -> S] /\ \A i, j \in 1 .. n : i # j => futures[i] # futures[j]
    BY <2>1 DEF SetToSeqs
  <2>3. n \in 1 .. PAGE_CAPACITY /\ n \in Nat
    BY <1>5, StorageAssumption, CapacityType
  <2>4. QED
    BY <2>1, <2>2, <2>3
<1>7. futures \in [1 .. n -> Futures] /\ Len(futures) = n
  BY <1>6
<1>8. PICK new : new = {futures[i] : i \in 1 .. n}
  OBVIOUS
<1>9. new \subseteq Futures /\ new \cap storage = {} /\ storage' = storage \cup new
  <2>1. Range(futures) = new
    BY <1>6, <1>8 DEF Range
  <2>2. QED
    BY <1>4, <1>6, <1>8, <2>1
<1>10. PICK c : c = RefillLocal(local[t], futures)
  OBVIOUS
<1>11. /\ Good(c) /\ Distinct(c) /\ Held(c) = new /\ c.num_top_futures = n
       /\ Len(c.pages) = LOCAL_FUTURE_POINTER_PAGES
  BY <1>3, <1>6, <1>7, <1>8, <1>10, RefillCorrect
<1>12. TakeFrom(t, c) /\ c.num_top_futures # 0
  BY <1>4, <1>6, <1>10, <1>11
<1>13. PICK f : f = TopFuture(c)
  OBVIOUS
<1>14. /\ Frame(t) /\ ThreadFits(t)' /\ local' \in [Threads -> Caches]
       /\ f \in Held(c) /\ used' = used \cup {f}
       /\ Own(t) = {} /\ Own(t)' = Held(c) \ {f}
  BY <1>1, <1>11, <1>12, <1>13, TakeFromRefilled
<1>15. TypeOK'
  BY <1>1, <1>2, <1>9, <1>11, <1>14 DEF TypeOK
<1>16. used' \cap Held(global)' = {} /\ Own(t)' \cap (used' \cup Held(global)') = {}
  BY <1>2, <1>9, <1>11, <1>14
<1>17. used' \cup Held(global)' \cup Own(t)' = used \cup Held(global) \cup Own(t) \cup new
  BY <1>2, <1>11, <1>14
<1>18. Passed(t, new)
  BY <1>9, <1>16, <1>17 DEF Passed
<1>19. QED
  BY <1>2, <1>14, <1>15, <1>18, StepKeeps

\* A cache without room is full from the bottom to the top.
LEMMA NoRoomIsFull ==
  ASSUME NEW c, Good(c), Len(c.pages) # 0, ~HasRoom(c)
  PROVE  Level(c, 1) = PAGE_CAPACITY
<1>1. /\ c.top \in Nat /\ Len(c.pages) \in Nat /\ c.top # 0
      /\ c.num_top_futures \in 0 .. PAGE_CAPACITY
  BY CacheFields DEF Good
<1>2. c.num_top_futures = PAGE_CAPACITY
  BY <1>1, CapacityType DEF HasRoom
<1>3. QED
  BY <1>1, <1>2 DEF Level

\* ... when it liberates a future...
LEMMA LiberateKeeps ==
  ASSUME FInv, NEW t \in Threads, NEW f \in used, Liberate(t, f)
  PROVE  FInv'
<1>1. pc[t] = "ready" /\ used' = used \ {f} /\ storage' = storage /\ global' = global
  BY DEF Liberate
<1>2. /\ TypeOK /\ Fits("ready", local[t], hand[t], freeing[t])
      /\ Own(t) = Held(local[t])
      /\ Own(t) \cap used = {} /\ Own(t) \cap Held(global) = {} /\ used \cap Held(global) = {}
      /\ used \subseteq storage /\ Own(t) \subseteq storage
      /\ Good(global)' /\ Distinct(global)' /\ Held(global)' = Held(global)
  BY <1>1, ThreadParts, QuietOwns
<1>3. /\ Good(local[t]) /\ Distinct(local[t]) /\ Len(local[t].pages) # 0
      /\ Len(local[t].pages) = LOCAL_FUTURE_POINTER_PAGES
      /\ f \in Futures /\ f \notin Held(local[t])
  BY <1>2, PagesAssumption DEF Fits, PagesAt, TypeOK
<1>4. CASE /\ HasRoom(local[t]) /\ local' = [local EXCEPT ![t] = Push(@, f)]
           /\ UNCHANGED <<pc, freeing, hand>>
  <2>1. PICK c : c = Push(local[t], f)
    OBVIOUS
  <2>2. Good(c) /\ Distinct(c) /\ Held(c) = Held(local[t]) \cup {f} /\ Len(c.pages) = Len(local[t].pages)
    BY <1>3, <1>4, <2>1, PushCorrect
  <2>3. Fits("ready", c, hand[t], freeing[t])
    BY <1>2, <2>2 DEF Fits
  <2>4. TypeOK' /\ local'[t] = c /\ Frame(t)
    BY <1>1, <1>2, <1>4, <2>1, <2>2 DEF TypeOK, Frame, Good
  <2>5. ThreadFits(t)' /\ Own(t)' = Held(c)
    <3>1. OwnOf(c, hand[t], freeing[t]) = Held(c)
      BY <2>3, QuietOwns
    <3>2. QED
      BY <1>1, <1>4, <2>3, <2>4, <3>1 DEF ThreadFits, Own
  <2>6. used' \cap Held(global)' = {} /\ Own(t)' \cap (used' \cup Held(global)') = {}
    BY <1>1, <1>2, <2>2, <2>5
  <2>7. used' \cup Held(global)' \cup Own(t)' = used \cup Held(global) \cup Own(t) \cup {}
    BY <1>1, <1>2, <2>2, <2>5
  <2>8. Passed(t, {})
    BY <1>1, <2>6, <2>7 DEF Passed
  <2>9. QED
    BY <1>2, <2>4, <2>5, <2>8, StepKeeps
<1>5. CASE /\ ~HasRoom(local[t])
           /\ hand' = [hand EXCEPT ![t] = BottomPage(local[t])]
           /\ local' = [local EXCEPT ![t] = WithoutBottom(@)]
           /\ freeing' = [freeing EXCEPT ![t] = f]
           /\ pc' = [pc EXCEPT ![t] = "spill"]
  <2>1. PICK page, c : page = BottomPage(local[t]) /\ c = WithoutBottom(local[t])
    OBVIOUS
  <2>2. /\ Prefix(page, Level(local[t], 1)) /\ PageDistinct(page)
        /\ Good(c) /\ Distinct(c)
        /\ Held(local[t]) = Held(c) \cup PageHeld(page)
        /\ Held(c) \cap PageHeld(page) = {}
        /\ Len(c.pages) = Len(local[t].pages) - 1
    BY <1>3, <2>1, BottomCorrect
  <2>3. Prefix(page, PAGE_CAPACITY)
    BY <1>3, <1>5, <2>2, NoRoomIsFull
  <2>4. Fits("spill", c, page, f)
    BY <1>3, <2>2, <2>3 DEF Fits, PagesAt
  <2>5. c \in Caches /\ page \in Pages
    BY <2>2 DEF Good, Prefix
  <2>6. /\ TypeOK' /\ Frame(t)
        /\ local'[t] = c /\ hand'[t] = page /\ freeing'[t] = f /\ pc'[t] = "spill"
    BY <1>1, <1>2, <1>3, <1>5, <2>1, <2>5 DEF TypeOK, Frame
  <2>7. ThreadFits(t)' /\ Own(t)' = Held(local[t]) \cup {f}
    <3>1. OwnOf(c, page, f) = Held(local[t]) \cup {f}
      BY <1>3, <2>2, CapacityType DEF OwnOf
    <3>2. QED
      BY <2>4, <2>6, <3>1 DEF ThreadFits, Own
  <2>8. used' \cap Held(global)' = {} /\ Own(t)' \cap (used' \cup Held(global)') = {}
    BY <1>1, <1>2, <2>7
  <2>9. used' \cup Held(global)' \cup Own(t)' = used \cup Held(global) \cup Own(t) \cup {}
    BY <1>1, <1>2, <2>7
  <2>10. Passed(t, {})
    BY <1>1, <2>8, <2>9 DEF Passed
  <2>11. QED
    BY <1>2, <2>6, <2>7, <2>10, StepKeeps
<1>6. QED
  BY <1>4, <1>5 DEF Liberate

\* ... and hands over a full page for that...
LEMMA SpillPageKeeps ==
  ASSUME FInv, NEW t \in Threads, SpillPage(t)
  PROVE  FInv'
<1>1. PICK inserted, fewer, c, page, f :
        /\ inserted = InsertFutures(global, hand[t]) /\ fewer = WithoutEmpty(inserted)
        /\ c = InsertEmpty(local[t], EmptyOf(inserted)) /\ page = hand[t] /\ f = freeing[t]
  OBVIOUS
<1>2. PICK d : d = Push(c, f)
  OBVIOUS
<1>3. /\ pc[t] = "spill" /\ pc' = [pc EXCEPT ![t] = "ready"] /\ global' = fewer
      /\ local' = [local EXCEPT ![t] = d] /\ hand' = [hand EXCEPT ![t] = EmptyPage]
      /\ freeing' = [freeing EXCEPT ![t] = NULL]
      /\ storage' = storage /\ used' = used
  BY <1>1, <1>2 DEF SpillPage
<1>4. /\ TypeOK /\ Good(global) /\ Distinct(global)
      /\ Fits("spill", local[t], page, f) /\ Own(t) = OwnOf(local[t], page, f)
      /\ Own(t) \cap used = {} /\ Own(t) \cap Held(global) = {} /\ used \cap Held(global) = {}
  BY <1>1, <1>3, ThreadParts
<1>5. /\ Good(local[t]) /\ Distinct(local[t]) /\ Len(local[t].pages) = LOCAL_FUTURE_POINTER_PAGES - 1
      /\ f \in Futures /\ Prefix(page, PAGE_CAPACITY) /\ PageDistinct(page)
      /\ Held(local[t]) \cap PageHeld(page) = {} /\ f \notin Held(local[t])
      /\ f \notin PageHeld(page)
  BY <1>4 DEF Fits, PagesAt
<1>6. Own(t) = Held(local[t]) \cup PageHeld(page) \cup {f}
  BY <1>4, <1>5, CapacityType DEF OwnOf
<1>7. Good(inserted) /\ Distinct(inserted) /\ Held(inserted) = Held(global) \cup PageHeld(page)
  <2>1. PageHeld(page) \cap Held(global) = {} /\ PAGE_CAPACITY # 0
    BY <1>4, <1>6, CapacityType
  <2>2. QED
    BY <1>1, <1>4, <1>5, <2>1, InsertFuturesCorrect
<1>8. /\ Prefix(EmptyOf(inserted), 0) /\ Good(fewer) /\ Distinct(fewer)
      /\ Held(fewer) = Held(global) \cup PageHeld(page)
  BY <1>1, <1>7, ObtainEmptyCorrect
<1>9. /\ Good(c) /\ Distinct(c) /\ Held(c) = Held(local[t]) /\ HasRoom(c)
      /\ Len(c.pages) = LOCAL_FUTURE_POINTER_PAGES /\ Len(c.pages) # 0
  <2>1. /\ Good(c) /\ Distinct(c) /\ Held(c) = Held(local[t]) /\ HasRoom(c)
        /\ Len(c.pages) = Len(local[t].pages) + 1
    BY <1>1, <1>5, <1>8, InsertEmptyCorrect
  <2>2. QED
    BY <1>5, <2>1, PagesAssumption
<1>10. /\ Good(d) /\ Distinct(d) /\ Held(d) = Held(local[t]) \cup {f}
       /\ Len(d.pages) = LOCAL_FUTURE_POINTER_PAGES
  BY <1>2, <1>5, <1>9, PushCorrect
<1>11. d \in Caches /\ fewer \in Caches /\ EmptyPage \in Pages
  BY <1>8, <1>10, EmptyPageFacts DEF Good, Prefix
<1>12. /\ TypeOK' /\ Frame(t)
       /\ local'[t] = d /\ hand'[t] = EmptyPage /\ freeing'[t] = NULL /\ pc'[t] = "ready"
  BY <1>3, <1>4, <1>11 DEF TypeOK, Frame
<1>13. Fits("ready", d, EmptyPage, NULL)
  BY <1>10, EmptyPageFacts DEF Fits, PagesAt
<1>14. ThreadFits(t)' /\ Own(t)' = Held(d)
  <2>1. OwnOf(d, EmptyPage, NULL) = Held(d)
    BY <1>13, QuietOwns
  <2>2. QED
    BY <1>12, <1>13, <2>1 DEF ThreadFits, Own
<1>15. Good(global)' /\ Distinct(global)' /\ Held(global)' = Held(global) \cup PageHeld(page)
  BY <1>3, <1>8
<1>16. used' \cap Held(global)' = {} /\ Own(t)' \cap (used' \cup Held(global)') = {}
  BY <1>3, <1>4, <1>5, <1>6, <1>10, <1>14, <1>15
<1>17. used' \cup Held(global)' \cup Own(t)' = used \cup Held(global) \cup Own(t) \cup {}
  BY <1>3, <1>6, <1>10, <1>14, <1>15
<1>18. Passed(t, {})
  BY <1>3, <1>16, <1>17 DEF Passed
<1>19. QED
  BY <1>12, <1>14, <1>15, <1>18, StepKeeps

\* ... and when it exits.
LEMMA ThreadExitKeeps ==
  ASSUME FInv, NEW t \in Threads, ThreadExit(t)
  PROVE  FInv'
<1>1. /\ pc[t] = "ready" /\ pc' = [pc EXCEPT ![t] = "exited"]
      /\ local' = [local EXCEPT ![t] = GlobalCache]
      /\ storage' = storage /\ used' = used /\ freeing' = freeing /\ hand' = hand
  BY DEF ThreadExit
<1>2. /\ TypeOK /\ Good(global) /\ Distinct(global)
      /\ Fits("ready", local[t], hand[t], freeing[t]) /\ Own(t) = Held(local[t])
      /\ Own(t) \cap used = {} /\ Own(t) \cap Held(global) = {} /\ used \cap Held(global) = {}
  BY <1>1, ThreadParts, QuietOwns
<1>3. Good(local[t]) /\ Distinct(local[t])
  BY <1>2 DEF Fits
<1>4. /\ Good(global)' /\ Distinct(global)' /\ Held(global)' \subseteq Held(global) \cup Held(local[t])
      /\ Destructor = "from_thread" => Held(global)' = Held(global) \cup Held(local[t])
  <2>1. CASE Destructor = "from_thread"
    <3>1. global' = Spill(local[t], global) /\ Held(local[t]) \cap Held(global) = {}
      BY <1>2, <2>1 DEF ThreadExit
    <3>2. QED
      BY <1>2, <1>3, <3>1, SpillCorrect
  <2>2. CASE Destructor # "from_thread"
    <3>1. global' = global
      BY <2>2 DEF ThreadExit
    <3>2. QED
      BY <1>2, <2>2, <3>1
  <2>3. QED
    BY <2>1, <2>2
<1>5. /\ TypeOK' /\ Frame(t) /\ local'[t] = GlobalCache /\ pc'[t] = "exited"
  BY <1>1, <1>2, <1>4, EmptyCache DEF TypeOK, Frame, Good
<1>6. Fits("exited", GlobalCache, hand[t], freeing[t])
  BY <1>2, EmptyCache DEF Fits, PagesAt
<1>7. ThreadFits(t)' /\ Own(t)' = {}
  <2>1. OwnOf(GlobalCache, hand[t], freeing[t]) = {}
    BY <1>6, QuietOwns, EmptyCache
  <2>2. QED
    BY <1>1, <1>5, <1>6, <2>1 DEF ThreadFits, Own
<1>8. used' \cap Held(global)' = {} /\ Own(t)' \cap (used' \cup Held(global)') = {}
  BY <1>1, <1>2, <1>4, <1>7
<1>9. used' \cup Held(global)' \cup Own(t)' \subseteq used \cup Held(global) \cup Own(t) \cup {}
  BY <1>1, <1>2, <1>4, <1>7
<1>10. Destructor = "from_thread" =>
         used \cup Held(global) \cup Own(t) \cup {} \subseteq used' \cup Held(global)' \cup Own(t)'
  BY <1>1, <1>2, <1>4, <1>7
<1>11. Passed(t, {})
  BY <1>1, <1>8, <1>9, <1>10 DEF Passed
<1>12. QED
  BY <1>4, <1>5, <1>7, <1>11, StepKeeps

\* So every step keeps the invariant.
LEMMA NextKeeps ==
  ASSUME FInv, [Next]_vars
  PROVE  FInv'
<1>1. CASE Next
  <2>1. PICK t \in Threads :
          \/ Attach(t) \/ Allocate(t) \/ Refill(t) \/ Grow(t)
          \/ \E f \in used : Liberate(t, f)
          \/ SpillPage(t) \/ ThreadExit(t)
    BY <1>1 DEF Next
  <2>2. CASE Attach(t)
    BY <2>2, AttachKeeps
  <2>3. CASE Allocate(t)
    BY <2>3, AllocateKeeps
  <2>4. CASE Refill(t)
    BY <2>4, RefillKeeps
  <2>5. CASE Grow(t)
    BY <2>5, GrowKeeps
  <2>6. CASE \E f \in used : Liberate(t, f)
    BY <2>6, LiberateKeeps
  <2>7. CASE SpillPage(t)
    BY <2>7, SpillPageKeeps
  <2>8. CASE ThreadExit(t)
    BY <2>8, ThreadExitKeeps
  <2>9. QED
    BY <2>1, <2>2, <2>3, <2>4, <2>5, <2>6, <2>7, <2>8
<1>2. CASE UNCHANGED vars
  BY <1>2 DEF vars, FInv, TypeOK, ThreadFits, Apart, Covered, Own
<1>3. QED
  BY <1>1, <1>2

(***************************************************************************)
(* FInv always holds: the caches are well-formed stacks of distinct        *)
(* futures, and nobody has a future that somebody else has, through every  *)
(* allocation, liberation, exchange of pages and exit of a thread.         *)
(***************************************************************************)
THEOREM FInvAlways == Spec => []FInv
<1>1. Init => FInv
  BY InitFits
<1>2. FInv /\ [Next]_vars => FInv'
  BY NextKeeps
<1>3. QED
  BY <1>1, <1>2, PTL DEF Spec

(***************************************************************************)
(* The caches of the context and of every thread keep the shape that their *)
(* operations rely on, through every bisection, merge, exchange and spill. *)
(***************************************************************************)
THEOREM ShapeKept == Spec => []CachesKeepShape
<1>1. FInv => CachesKeepShape
  <2>1. SUFFICES ASSUME FInv PROVE CachesKeepShape
    OBVIOUS
  <2>2. TypeOK /\ StackShape(global)
    <3>1. TypeOK /\ Good(global)
      BY <2>1 DEF FInv
    <3>2. QED
      BY <3>1, GoodIsShape
  <2>3. ASSUME NEW t \in Threads
        PROVE  StackShape(local[t]) /\ Len(local[t].pages) = PagesAt(pc[t])
    <3>1. Good(local[t]) /\ Len(local[t].pages) = PagesAt(pc[t])
      BY <2>1 DEF FInv, ThreadFits, Fits
    <3>2. QED
      BY <3>1, GoodIsShape
  <2>4. LocalPagesFixed
    BY <2>3 DEF LocalPagesFixed, PagesAt
  <2>5. QED
    BY <2>2, <2>3, <2>4 DEF CachesKeepShape
<1>2. QED
  BY <1>1, FInvAlways, PTL

-----------------------------------------------------------------------------
(* Where a future is.                                                        *)

\* A cache with distinct futures has one spot for each of them.
LEMMA CacheSpotsOf ==
  ASSUME NEW c, Distinct(c), NEW f \in Futures
  PROVE  /\ f \in Held(c) <=> CacheSpots(c, f) # {}
         /\ \A p, q \in CacheSpots(c, f) : p = q
<1>1. f # NULL
  BY CapacityType
<1>2. f \in Held(c) => CacheSpots(c, f) # {}
  <2>1. SUFFICES ASSUME f \in Held(c) PROVE CacheSpots(c, f) # {}
    OBVIOUS
  <2>2. PICK n \in 1 .. Len(c.pages), i \in Slots : c.pages[n][i] = f
    BY <2>1 DEF Held, SeqHeld
  <2>3. <<n, i>> \in CacheSpots(c, f)
    BY <2>2 DEF CacheSpots
  <2>4. QED
    BY <2>3
<1>3. CacheSpots(c, f) # {} => f \in Held(c)
  BY DEF CacheSpots, Held, SeqHeld
<1>4. ASSUME NEW p \in CacheSpots(c, f), NEW q \in CacheSpots(c, f)
      PROVE  p = q
  <2>1. /\ p \in (1 .. Len(c.pages)) \X Slots /\ c.pages[p[1]][p[2]] = f
        /\ q \in (1 .. Len(c.pages)) \X Slots /\ c.pages[q[1]][q[2]] = f
    BY DEF CacheSpots
  <2>2. p[1] = q[1] /\ p[2] = q[2]
    BY <1>1, <2>1 DEF Distinct, SeqDistinct
  <2>3. QED
    BY <2>1, <2>2
<1>5. QED
  BY <1>2, <1>3, <1>4

\* The same for a page.
LEMMA PageSpotsOf ==
  ASSUME NEW page, PageDistinct(page), NEW f \in Futures
  PROVE  /\ f \in PageHeld(page) <=> PageSpots(page, f) # {}
         /\ \A p, q \in PageSpots(page, f) : p = q
BY CapacityType DEF PageSpots, PageHeld, PageDistinct

\* Where thread t has future f.
ThreadPlaces(t, f) ==
       ({<<"local", t>>} \X CacheSpots(local[t], f))
  \cup ({<<"hand", t>>} \X PageSpots(hand[t], f))
  \cup ({<<"freeing", t>>} \X ({f} \cap {freeing[t]}))

\* Sets that a tag keeps apart.
With(tag, S) == {tag} \X S

\* A tagged set has as many members as the set.
LEMMA Tagged ==
  ASSUME NEW tag, NEW S, \A p, q \in S : p = q
  PROVE  /\ \A p, q \in With(tag, S) : p = q
         /\ With(tag, S) = {} <=> S = {}
<1> DEFINE R == {tag} \X S
<1>1. ASSUME NEW p \in R, NEW q \in R
      PROVE  p = q
  <2>1. p = <<tag, p[2]>> /\ q = <<tag, q[2]>> /\ p[2] \in S /\ q[2] \in S
    OBVIOUS
  <2>2. p[2] = q[2]
    BY <2>1
  <2>3. QED
    BY <2>1, <2>2
<1>2. \A x \in S : <<tag, x>> \in R
  OBVIOUS
<1>3. \A p \in R : p[2] \in S
  OBVIOUS
<1>4. QED
  BY <1>1, <1>2, <1>3 DEF With

\* A thread has a future in one place if at all.
LEMMA ThreadPlacesOf ==
  ASSUME FInv, NEW t \in Threads, NEW f \in Futures
  PROVE  /\ f \in Own(t) <=> ThreadPlaces(t, f) # {}
         /\ \A p, q \in ThreadPlaces(t, f) : p = q
<1>1. Fits(pc[t], local[t], hand[t], freeing[t]) /\ Own(t) = OwnOf(local[t], hand[t], freeing[t])
  BY ThreadParts
<1>2. f # NULL
  BY CapacityType
<1>3. Distinct(local[t]) /\ PageDistinct(hand[t])
  BY <1>1, EmptyPageFacts DEF Fits
<1>4. PICK L, H, F : /\ L = CacheSpots(local[t], f) /\ H = PageSpots(hand[t], f)
                     /\ F = {f} \cap {freeing[t]}
  OBVIOUS
<1>5. /\ f \in Held(local[t]) <=> L # {}
      /\ f \in PageHeld(hand[t]) <=> H # {}
      /\ f \in {freeing[t]} \ {NULL} <=> F # {}
      /\ \A p, q \in L : p = q
      /\ \A p, q \in H : p = q
      /\ \A p, q \in F : p = q
  <2>1. (f \in Held(local[t]) <=> L # {}) /\ \A p, q \in L : p = q
    BY <1>3, <1>4, CacheSpotsOf
  <2>2. (f \in PageHeld(hand[t]) <=> H # {}) /\ \A p, q \in H : p = q
    BY <1>3, <1>4, PageSpotsOf
  <2>3. (f \in {freeing[t]} \ {NULL} <=> F # {}) /\ \A p, q \in F : p = q
    BY <1>2, <1>4
  <2>4. QED
    BY <2>1, <2>2, <2>3
<1>6. /\ L = {} \/ H = {}
      /\ L = {} \/ F = {}
      /\ H = {} \/ F = {}
  <2>1. CASE pc[t] = "spill"
    BY <1>1, <1>5, <2>1 DEF Fits
  <2>2. CASE pc[t] # "spill"
    BY <1>1, <1>5, <2>2, EmptyPageFacts DEF Fits
  <2>3. QED
    BY <2>1, <2>2
<1>7. PICK A, B, C : /\ A = With(<<"local", t>>, L) /\ B = With(<<"hand", t>>, H)
                     /\ C = With(<<"freeing", t>>, F)
  OBVIOUS
<1>8. /\ A = {} <=> L = {}
      /\ B = {} <=> H = {}
      /\ C = {} <=> F = {}
      /\ \A p, q \in A : p = q
      /\ \A p, q \in B : p = q
      /\ \A p, q \in C : p = q
  <2>1. (A = {} <=> L = {}) /\ \A p, q \in A : p = q
    BY <1>5, <1>7, Tagged
  <2>2. (B = {} <=> H = {}) /\ \A p, q \in B : p = q
    BY <1>5, <1>7, Tagged
  <2>3. (C = {} <=> F = {}) /\ \A p, q \in C : p = q
    BY <1>5, <1>7, Tagged
  <2>4. QED
    BY <2>1, <2>2, <2>3
<1>9. ThreadPlaces(t, f) = A \cup B \cup C
  BY <1>4, <1>7 DEF ThreadPlaces, With
<1>10. f \in Own(t) <=> ThreadPlaces(t, f) # {}
  BY <1>1, <1>5, <1>8, <1>9 DEF OwnOf
<1>11. \A p, q \in ThreadPlaces(t, f) : p = q
  BY <1>6, <1>8, <1>9
<1>12. QED
  BY <1>10, <1>11

\* A future is in one place at most, and only if it is in the storage.
LEMMA PlacesOf ==
  ASSUME FInv, NEW f \in Futures
  PROVE  /\ Places(f) # {} => f \in storage
         /\ \A p, q \in Places(f) : p = q
         /\ Destructor = "from_thread" /\ f \in storage => Places(f) # {}
<1>1. PICK U, G, T : /\ U = With(<<"used">>, {f} \cap used)
                     /\ G = With(<<"global">>, CacheSpots(global, f))
                     /\ T = UNION {ThreadPlaces(t, f) : t \in Threads}
  OBVIOUS
<1>2. Places(f) = U \cup G \cup T
  BY <1>1 DEF Places, ThreadPlaces, With
<1>3. (U # {} <=> f \in used) /\ \A p, q \in U : p = q
  <2>1. PICK S : S = {f} \cap used
    OBVIOUS
  <2>2. (S # {} <=> f \in used) /\ \A p, q \in S : p = q
    BY <2>1
  <2>3. QED
    BY <1>1, <2>1, <2>2, Tagged
<1>4. (G # {} <=> f \in Held(global)) /\ \A p, q \in G : p = q
  <2>1. /\ f \in Held(global) <=> CacheSpots(global, f) # {}
        /\ \A p, q \in CacheSpots(global, f) : p = q
    <3>1. Distinct(global)
      BY DEF FInv
    <3>2. QED
      BY <3>1, CacheSpotsOf
  <2>2. QED
    BY <1>1, <2>1, Tagged
<1>5. \A t \in Threads : /\ f \in Own(t) <=> ThreadPlaces(t, f) # {}
                         /\ \A p, q \in ThreadPlaces(t, f) : p = q
  BY ThreadPlacesOf
<1>6. T # {} <=> \E t \in Threads : f \in Own(t)
  BY <1>1, <1>5
<1>7. \A p, q \in T : p = q
  <2>1. SUFFICES ASSUME NEW p \in T, NEW q \in T PROVE p = q
    OBVIOUS
  <2>2. PICK t \in Threads : p \in ThreadPlaces(t, f)
    BY <1>1
  <2>3. PICK u \in Threads : q \in ThreadPlaces(u, f)
    BY <1>1
  <2>4. f \in Own(t) /\ f \in Own(u)
    BY <1>5, <2>2, <2>3
  <2>5. t = u
    BY <2>4 DEF FInv, Apart
  <2>6. QED
    BY <1>5, <2>2, <2>3, <2>5
<1>8. /\ U = {} \/ G = {}
      /\ U = {} \/ T = {}
      /\ G = {} \/ T = {}
  BY <1>3, <1>4, <1>6 DEF FInv, Apart
<1>9. \A p, q \in Places(f) : p = q
  BY <1>2, <1>3, <1>4, <1>7, <1>8
<1>10. Places(f) # {} => f \in storage
  BY <1>2, <1>3, <1>4, <1>6 DEF FInv, Covered
<1>11. Destructor = "from_thread" /\ f \in storage => Places(f) # {}
  BY <1>2, <1>3, <1>4, <1>6 DEF FInv, Covered
<1>12. QED
  BY <1>9, <1>10, <1>11

(***************************************************************************)
(* If the destructor of a thread spills its cache, every future of the     *)
(* storage is always in exactly one place: never handed out twice, never   *)
(* lost, whatever threads allocate, liberate and exit in whatever order.   *)
(***************************************************************************)
THEOREM OnePlace == Destructor = "from_thread" => (Spec => []EachFutureInOnePlace)
<1>1. SUFFICES ASSUME Destructor = "from_thread" PROVE Spec => []EachFutureInOnePlace
  OBVIOUS
<1>2. FInv => EachFutureInOnePlace
  <2>1. SUFFICES ASSUME FInv, NEW f \in Futures
                 PROVE  Cardinality(Places(f)) = (IF f \in storage THEN 1 ELSE 0)
    BY DEF EachFutureInOnePlace
  <2>2. CASE f \in storage
    <3>1. PICK p : p \in Places(f)
      BY <1>1, <2>1, <2>2, PlacesOf
    <3>2. Places(f) = {p}
      BY <2>1, <3>1, PlacesOf
    <3>3. QED
      BY <2>2, <3>2, FS_Singleton
  <2>3. CASE f \notin storage
    <3>1. Places(f) = {}
      BY <2>1, <2>3, PlacesOf
    <3>2. QED
      BY <2>3, <3>1, FS_EmptySet
  <2>4. QED
    BY <2>2, <2>3
<1>3. QED
  BY <1>2, FInvAlways, PTL

\* No future is in two places.
NoFutureTwice == \A f \in Futures : Cardinality(Places(f)) <= 1

(***************************************************************************)
(* Whichever destructor runs, no future is ever in two places: a thread    *)
(* that exits through the destructor of the context loses futures, but     *)
(* none is handed out twice.                                               *)
(***************************************************************************)
THEOREM NeverTwice == Spec => []NoFutureTwice
<1>1. FInv => NoFutureTwice
  <2>1. SUFFICES ASSUME FInv, NEW f \in Futures
                 PROVE  Cardinality(Places(f)) <= 1
    BY DEF NoFutureTwice
  <2>2. CASE Places(f) = {}
    BY <2>2, FS_EmptySet
  <2>3. CASE Places(f) # {}
    <3>1. PICK p : p \in Places(f)
      BY <2>3
    <3>2. Places(f) = {p}
      BY <2>1, <3>1, PlacesOf
    <3>3. QED
      BY <3>2, FS_Singleton
  <2>4. QED
    BY <2>2, <2>3
<1>2. QED
  BY <1>1, FInvAlways, PTL

-----------------------------------------------------------------------------
(* What the caches of the threads can hold.                                  *)

\* A set whose members have positions of their own is not larger than the
\* set of the positions.
LEMMA CountByPosition ==
  ASSUME NEW S, NEW P, IsFiniteSet(P), NEW at,
         \A f \in S : \E p \in P : at[p] = f
  PROVE  /\ IsFiniteSet(S) /\ Cardinality(S) <= Cardinality(P)
         /\ Cardinality(S) \in Nat /\ Cardinality(P) \in Nat
<1> DEFINE g == [f \in S |-> CHOOSE p \in P : at[p] = f]
<1>1. \A f \in S : g[f] \in P /\ at[g[f]] = f
  OBVIOUS
<1>2. g \in Injection(S, P)
  BY <1>1 DEF Injection, IsInjective
<1>3. QED
  BY <1>2, FS_Injection, FS_CardinalityType

\* The size of a union.
LEMMA UnionBound ==
  ASSUME NEW S, IsFiniteSet(S), NEW T, IsFiniteSet(T)
  PROVE  /\ IsFiniteSet(S \cup T)
         /\ Cardinality(S \cup T) <= Cardinality(S) + Cardinality(T)
         /\ Cardinality(S \cup T) \in Nat /\ Cardinality(S) \in Nat /\ Cardinality(T) \in Nat
<1>1. /\ IsFiniteSet(S \cap T) /\ IsFiniteSet(S \cup T)
      /\ Cardinality(S \cup T) = Cardinality(S) + Cardinality(T) - Cardinality(S \cap T)
  BY FS_Union, FS_Intersection
<1>2. /\ Cardinality(S \cap T) \in Nat /\ Cardinality(S) \in Nat /\ Cardinality(T) \in Nat
      /\ Cardinality(S \cup T) \in Nat
  BY <1>1, FS_CardinalityType
<1>3. QED
  BY <1>1, <1>2

\* The slots of the pages of the threads other than t, the page that a thread
\* hands over being its last.
OtherSlots(t) == (Others(t) \X (1 .. LOCAL_FUTURE_POINTER_PAGES)) \X Slots

AtSlot(u, n, i) ==
  IF n <= Len(local[u].pages) THEN local[u].pages[n][i] ELSE hand[u][i]

\* The number of slots of the other threads.
LEMMA OtherSlotsCount ==
  ASSUME NEW t \in Threads
  PROVE  /\ IsFiniteSet(OtherSlots(t))
         /\ Cardinality(OtherSlots(t)) =
              Cardinality(Others(t)) * LOCAL_FUTURE_POINTER_PAGES * PAGE_CAPACITY
<1>1. IsFiniteSet(Others(t))
  BY ThreadsAssumption, FS_Subset DEF Others
<1>2. PICK pages : pages = 1 .. LOCAL_FUTURE_POINTER_PAGES
  OBVIOUS
<1>3. IsFiniteSet(pages) /\ Cardinality(pages) = LOCAL_FUTURE_POINTER_PAGES
  BY <1>2, PagesAssumption, FS_Interval
<1>4. IsFiniteSet(Slots) /\ Cardinality(Slots) = PAGE_CAPACITY
  BY PagesAssumption, FS_Interval DEF Slots
<1>5. PICK both : both = Others(t) \X pages
  OBVIOUS
<1>6. IsFiniteSet(both) /\ Cardinality(both) = Cardinality(Others(t)) * LOCAL_FUTURE_POINTER_PAGES
  BY <1>1, <1>3, <1>5, FS_Product
<1>7. IsFiniteSet(both \X Slots) /\ Cardinality(both \X Slots) = Cardinality(both) * PAGE_CAPACITY
  BY <1>4, <1>6, FS_Product
<1>8. OtherSlots(t) = both \X Slots
  BY <1>2, <1>5 DEF OtherSlots
<1>9. QED
  BY <1>6, <1>7, <1>8

\* A future that another thread has is the one that it liberates, or is in a slot.
LEMMA InOtherSlot ==
  ASSUME FInv, NEW t \in Threads, NEW u \in Threads \ {t}, NEW f \in Own(u), f # freeing[u]
  PROVE  \E n \in 1 .. LOCAL_FUTURE_POINTER_PAGES, i \in Slots :
           AtSlot(u, n, i) = f /\ u \in Others(t)
<1>1. /\ TypeOK /\ Fits(pc[u], local[u], hand[u], freeing[u])
      /\ Own(u) = OwnOf(local[u], hand[u], freeing[u])
  BY ThreadParts
<1>2. Good(local[u]) /\ Len(local[u].pages) \in Nat /\ LOCAL_FUTURE_POINTER_PAGES \in Nat \ {0}
  BY <1>1, CacheFields, PagesAssumption DEF Fits, Good
<1>3. CASE f \in Held(local[u])
  <2>1. PICK n \in 1 .. Len(local[u].pages), i \in Slots : local[u].pages[n][i] = f
    BY <1>3 DEF Held, SeqHeld
  <2>2. Len(local[u].pages) # 0
    BY <1>2
  <2>3. PagesAt(pc[u]) # 0 /\ Len(local[u].pages) = PagesAt(pc[u])
    BY <1>1, <2>2 DEF Fits
  <2>4. pc[u] \in {"ready", "refill", "spill"}
    BY <2>3 DEF PagesAt
  <2>5. u \in Others(t)
    BY <2>4 DEF Others
  <2>6. Len(local[u].pages) <= LOCAL_FUTURE_POINTER_PAGES
    BY <1>2, <2>3, <2>4 DEF PagesAt
  <2>7. AtSlot(u, n, i) = f /\ n \in 1 .. LOCAL_FUTURE_POINTER_PAGES
    BY <1>2, <2>1, <2>6 DEF AtSlot
  <2>8. QED
    BY <2>5, <2>7
<1>4. CASE f \notin Held(local[u])
  <2>1. f \in PageHeld(hand[u])
    BY <1>1, <1>4 DEF OwnOf
  <2>2. pc[u] = "spill"
    BY <1>1, <2>1, EmptyPageFacts DEF Fits
  <2>3. Len(local[u].pages) = LOCAL_FUTURE_POINTER_PAGES - 1
    BY <1>1, <2>2 DEF Fits, PagesAt
  <2>4. PICK i \in Slots : hand[u][i] = f
    BY <2>1 DEF PageHeld
  <2>5. PICK n : n = LOCAL_FUTURE_POINTER_PAGES
    OBVIOUS
  <2>6. n \in 1 .. LOCAL_FUTURE_POINTER_PAGES /\ ~(n <= Len(local[u].pages))
    BY <1>2, <2>3, <2>5
  <2>7. AtSlot(u, n, i) = f
    BY <2>4, <2>6 DEF AtSlot
  <2>8. u \in Others(t)
    BY <2>2 DEF Others
  <2>9. QED
    BY <2>6, <2>7, <2>8
<1>5. QED
  BY <1>3, <1>4

\* What there is in storage when neither the context nor the thread has any left.
LEMMA GrowthBounded ==
  ASSUME FInv, NEW t \in Threads, Destructor = "from_thread", Own(t) = {}, Held(global) = {}
  PROVE  Cardinality(storage) <=
           Cardinality(used) + Cardinality({u \in Threads : freeing[u] # NULL})
           + Cardinality(Others(t)) * LOCAL_FUTURE_POINTER_PAGES * PAGE_CAPACITY
<1>1. PICK owners : owners = {u \in Threads : freeing[u] # NULL}
  OBVIOUS
<1>2. PICK moving : moving = {f \in storage : \E u \in owners : freeing[u] = f}
  OBVIOUS
<1>3. PICK kept : kept = {f \in storage : \E s \in OtherSlots(t) : AtSlot(s[1][1], s[1][2], s[2]) = f}
  OBVIOUS
<1>4. IsFiniteSet(moving) /\ Cardinality(moving) <= Cardinality(owners)
      /\ Cardinality(moving) \in Nat /\ Cardinality(owners) \in Nat
  <2>1. IsFiniteSet(owners)
    BY <1>1, ThreadsAssumption, FS_Subset
  <2>2. \A f \in moving : \E u \in owners : freeing[u] = f
    BY <1>2
  <2>3. QED
    BY <2>1, <2>2, CountByPosition
<1>5. /\ IsFiniteSet(kept) /\ Cardinality(kept) <= Cardinality(OtherSlots(t))
      /\ Cardinality(kept) \in Nat /\ Cardinality(OtherSlots(t)) \in Nat
  <2>1. IsFiniteSet(OtherSlots(t))
    BY OtherSlotsCount
  <2>2. PICK at : at = [s \in OtherSlots(t) |-> AtSlot(s[1][1], s[1][2], s[2])]
    OBVIOUS
  <2>3. \A f \in kept : \E s \in OtherSlots(t) : at[s] = f
    BY <1>3, <2>2
  <2>4. QED
    BY <2>1, <2>3, CountByPosition
<1>6. storage \subseteq used \cup (moving \cup kept)
  <2>1. SUFFICES ASSUME NEW f \in storage, f \notin used PROVE f \in moving \cup kept
    OBVIOUS
  <2>2. PICK u \in Threads : f \in Own(u)
    BY <2>1 DEF FInv, Covered
  <2>3. u \in Threads \ {t}
    BY <2>2
  <2>4. f # NULL
    BY CapacityType DEF FInv, TypeOK
  <2>5. CASE f = freeing[u]
    BY <1>1, <1>2, <2>4, <2>5
  <2>6. CASE f # freeing[u]
    <3>1. PICK n \in 1 .. LOCAL_FUTURE_POINTER_PAGES, i \in Slots :
            AtSlot(u, n, i) = f /\ u \in Others(t)
      BY <2>2, <2>3, <2>6, InOtherSlot
    <3>2. PICK s : s = <<<<u, n>>, i>>
      OBVIOUS
    <3>3. s \in OtherSlots(t) /\ s[1][1] = u /\ s[1][2] = n /\ s[2] = i
      BY <3>1, <3>2 DEF OtherSlots
    <3>4. QED
      BY <1>3, <3>1, <3>3
  <2>7. QED
    BY <2>5, <2>6
<1>7. IsFiniteSet(used)
  BY FuturesAssumption, FS_Subset DEF FInv, TypeOK
<1>8. PICK rest : rest = moving \cup kept
  OBVIOUS
<1>9. /\ IsFiniteSet(rest) /\ Cardinality(rest) <= Cardinality(moving) + Cardinality(kept)
      /\ Cardinality(rest) \in Nat
  BY <1>4, <1>5, <1>8, UnionBound
<1>10. PICK all : all = used \cup rest
  OBVIOUS
<1>11. /\ IsFiniteSet(all) /\ Cardinality(all) <= Cardinality(used) + Cardinality(rest)
       /\ Cardinality(all) \in Nat /\ Cardinality(used) \in Nat
  BY <1>7, <1>9, <1>10, UnionBound
<1>12. Cardinality(storage) <= Cardinality(all) /\ Cardinality(storage) \in Nat
  <2>1. storage \in SUBSET all
    BY <1>6, <1>8, <1>10
  <2>2. QED
    BY <1>11, <2>1, FS_Subset, FS_CardinalityType
<1>13. Cardinality(storage) <= Cardinality(used) + Cardinality(owners) + Cardinality(OtherSlots(t))
  BY <1>4, <1>5, <1>9, <1>11, <1>12
<1>14. QED
  BY <1>1, <1>13, OtherSlotsCount

\* Only future_storage_allocate() adds to the storage.
LEMMA OnlyGrowGrows ==
  ASSUME FInv, Next, NEW t \in Threads, storage' # storage, pc'[t] # pc[t]
  PROVE  Grow(t)
<1>1. PICK u \in Threads :
        \/ Attach(u) \/ Allocate(u) \/ Refill(u) \/ Grow(u)
        \/ \E f \in used : Liberate(u, f)
        \/ SpillPage(u) \/ ThreadExit(u)
  BY DEF Next
<1>2. Grow(u)
  BY <1>1 DEF Attach, Allocate, Refill, Liberate, SpillPage, ThreadExit
<1>3. pc' = [pc EXCEPT ![u] = "ready"] /\ TypeOK
  BY <1>2 DEF Grow, FInv
<1>4. t = u
  BY <1>3 DEF TypeOK
<1>5. QED
  BY <1>2, <1>4

(***************************************************************************)
(* If the destructor of a thread spills its cache, new storage is only     *)
(* allocated when all the existing futures are in use but for what fits in *)
(* the caches of the other threads: no history of allocations makes the    *)
(* program hoard more.                                                     *)
(***************************************************************************)
THEOREM Hoarding == Destructor = "from_thread" => (Spec => HoardingBounded)
<1>1. SUFFICES ASSUME Destructor = "from_thread" PROVE Spec => HoardingBounded
  OBVIOUS
<1> DEFINE Bounded ==
      \A t \in Threads : (pc[t] = "refill" /\ storage' # storage /\ pc'[t] # pc[t]) =>
        Cardinality(storage) <=
          Cardinality(used) + Cardinality({u \in Threads : freeing[u] # NULL})
          + Cardinality(Others(t)) * LOCAL_FUTURE_POINTER_PAGES * PAGE_CAPACITY
<1>2. FInv /\ [Next]_vars => [Bounded]_vars
  <2>1. SUFFICES ASSUME FInv, Next, NEW t \in Threads,
                        pc[t] = "refill", storage' # storage, pc'[t] # pc[t]
                 PROVE  Cardinality(storage) <=
                          Cardinality(used) + Cardinality({u \in Threads : freeing[u] # NULL})
                          + Cardinality(Others(t)) * LOCAL_FUTURE_POINTER_PAGES * PAGE_CAPACITY
    OBVIOUS
  <2>2. Grow(t)
    BY <2>1, OnlyGrowGrows
  <2>3. ~HasFutures(global)
    BY <2>2 DEF Grow
  <2>4. Held(global) = {}
    <3>1. Good(global)
      BY <2>1 DEF FInv
    <3>2. CASE global.num_top_futures = 0
      BY <3>1, <3>2, NoFutures
    <3>3. CASE global.pages = << >>
      BY <3>1, <3>3, NoPagesNoFutures
    <3>4. QED
      BY <2>3, <3>2, <3>3 DEF HasFutures
  <2>5. Own(t) = {}
    <3>1. Fits("refill", local[t], hand[t], freeing[t]) /\ Own(t) = OwnOf(local[t], hand[t], freeing[t])
      BY <2>1, ThreadParts
    <3>2. Own(t) = Held(local[t])
      BY <3>1, QuietOwns
    <3>3. Held(local[t]) = {}
      BY <3>1, NoFutures DEF Fits
    <3>4. QED
      BY <3>2, <3>3
  <2>6. QED
    BY <1>1, <2>1, <2>4, <2>5, GrowthBounded
<1>3. QED
  BY <1>2, FInvAlways, PTL DEF Spec, HoardingBounded
=============================================================================
