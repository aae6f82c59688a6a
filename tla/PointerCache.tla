---------------------------- MODULE PointerCache ----------------------------
(***************************************************************************)
(* Stacks of pointers to unallocated futures, segmented into pages so that *)
(* whole pages can move between the cache of a thread and the cache of the *)
(* context (src/src/future/allocator/pointer_cache.c).                     *)
(*                                                                         *)
(* The doubly linked list of pages is a sequence.  `top` is the position   *)
(* of the top page, 0 for NULL; the bottom page is the first one.  A page  *)
(* is an array of PAGE_CAPACITY pointers.  As in the code, the number of   *)
(* futures of the top page is kept apart from the array, and the other     *)
(* pages are taken to be full or empty according to their place: that they *)
(* are is an invariant of FutureAllocator.                                 *)
(***************************************************************************)
EXTENDS Integers, FiniteSets, SequencesExt

CONSTANTS
  Futures,                      \* all futures of all storage pages
  NULL,                         \* the pointer to no future
  PAGE_CAPACITY,                \* future_pointer_page_capacity()
  LOCAL_FUTURE_POINTER_PAGES    \* pages of the cache of a thread

ASSUME FuturesAssumption == IsFiniteSet(Futures) /\ NULL \notin Futures

ASSUME PagesAssumption ==
  /\ PAGE_CAPACITY \in Nat \ {0}
  /\ LOCAL_FUTURE_POINTER_PAGES \in Nat \ {0}

Slots == 1 .. PAGE_CAPACITY

Pages == [Slots -> Futures \cup {NULL}]

(* future_pointer_page_initialize().                                       *)
EmptyPage == [i \in Slots |-> NULL]

(* future_pointer_cache_initialize().                                      *)
GlobalCache == [pages |-> << >>, top |-> 0, num_top_futures |-> 0]

LocalCache ==
  [pages |-> [i \in 1 .. LOCAL_FUTURE_POINTER_PAGES |-> EmptyPage],
   top |-> 1, num_top_futures |-> 0]

(* future_pointer_page_occupancy(), a bisection between a slot that is in  *)
(* use and a slot that is not.                                             *)
OccupancyOf(page, capacity) ==
  LET search[range \in (1 .. capacity) \X (1 .. capacity)] ==
        LET present  == range[1]
            absent   == range[2]
            midpoint == present + (absent - present) \div 2
        IN  IF absent = present + 1 THEN present
            ELSE IF page[midpoint] # NULL THEN search[<<midpoint, absent>>]
            ELSE search[<<present, midpoint>>]
  IN  IF page[1] = NULL THEN 0
      ELSE IF page[capacity] # NULL THEN capacity
      ELSE search[<<1, capacity>>]

Occupancy(page) == OccupancyOf(page, PAGE_CAPACITY)

-----------------------------------------------------------------------------
(* future_pointer_cache_allocate_local(): the future on the top of a cache *)
(* that has one, and the cache without it.                                 *)
TopFuture(c) == c.pages[c.top][c.num_top_futures]

(* Mutant: the previous page is entered without its last future.           *)
PopOffByOne(c) ==
  LET popped == [c EXCEPT !.pages[c.top][c.num_top_futures] = NULL]
  IN  IF c.num_top_futures = 1 /\ c.top > 1
      THEN [popped EXCEPT !.top = @ - 1, !.num_top_futures = PAGE_CAPACITY - 1]
      ELSE [popped EXCEPT !.num_top_futures = @ - 1]

Pop(c) ==
  LET popped == [c EXCEPT !.pages[c.top][c.num_top_futures] = NULL]
  IN  IF c.num_top_futures = 1 /\ c.top > 1
      THEN [popped EXCEPT !.top = @ - 1, !.num_top_futures = PAGE_CAPACITY]
      ELSE [popped EXCEPT !.num_top_futures = @ - 1]

(* future_pointer_cache_liberate_local(): it fails if the last page is     *)
(* full.                                                                   *)
HasRoom(c) == c.num_top_futures < PAGE_CAPACITY \/ c.top < Len(c.pages)

Push(c, f) ==
  IF c.num_top_futures = PAGE_CAPACITY
  THEN [c EXCEPT !.pages[c.top + 1][1] = f, !.top = @ + 1, !.num_top_futures = 1]
  ELSE [c EXCEPT !.pages[c.top][c.num_top_futures + 1] = f, !.num_top_futures = @ + 1]

(* future_pointer_cache_extract_futures() takes the bottom page.           *)
HasFutures(c) == c.num_top_futures # 0 /\ c.pages # << >>

BottomPage(c) == Head(c.pages)

WithoutBottom(c) ==
  [pages |-> Tail(c.pages),
   top |-> IF c.top > 1 THEN c.top - 1 ELSE IF Len(c.pages) > 1 THEN 1 ELSE 0,
   num_top_futures |-> IF c.top > 1 THEN c.num_top_futures ELSE 0]

(* future_pointer_cache_obtain_empty(): the page after the top page, the   *)
(* only page if it is empty, or a new page.                                *)
HasAfterTop(c) == c.top # 0 /\ c.top < Len(c.pages)

EmptyOf(c) ==
  IF HasAfterTop(c) THEN c.pages[c.top + 1]
  ELSE IF c.top # 0 /\ c.num_top_futures = 0 THEN c.pages[c.top]
  ELSE EmptyPage

(* Mutant: an empty page is taken even if it is the page with the futures. *)
WithoutEmptyBlind(c) ==
  IF HasAfterTop(c) THEN [c EXCEPT !.pages = RemoveAt(@, c.top + 1)]
  ELSE [c EXCEPT !.pages = << >>, !.top = 0]

WithoutEmpty(c) ==
  IF HasAfterTop(c) THEN [c EXCEPT !.pages = RemoveAt(@, c.top + 1)]
  ELSE IF c.top # 0 /\ c.num_top_futures = 0 THEN [c EXCEPT !.pages = << >>, !.top = 0]
  ELSE c

(* future_pointer_cache_insert_empty().                                    *)
InsertEmpty(c, page) ==
  IF c.top = 0 THEN [c EXCEPT !.pages = <<page>>, !.top = 1]
  ELSE [c EXCEPT !.pages = InsertAt(@, c.top + 1, page)]

(* The merge of a partial page into a cache with futures.                  *)
Moved(c, page) == Min({Occupancy(page), PAGE_CAPACITY - c.num_top_futures})

MergedTop(c, page) ==
  [i \in Slots |->
     IF i > c.num_top_futures /\ i <= c.num_top_futures + Moved(c, page)
     THEN page[Occupancy(page) - Moved(c, page) + i - c.num_top_futures]
     ELSE c.pages[c.top][i]]

Remainder(c, page) ==
  [i \in Slots |-> IF i <= Occupancy(page) - Moved(c, page) THEN page[i] ELSE
                   IF i <= Occupancy(page) THEN NULL ELSE page[i]]

Merge(c, page) ==
  LET merged == [c EXCEPT !.pages[c.top] = MergedTop(c, page),
                          !.num_top_futures = @ + Moved(c, page)]
      left   == Occupancy(page) - Moved(c, page)
  IN  IF left = 0 THEN InsertEmpty(merged, Remainder(c, page))
      ELSE [merged EXCEPT !.pages = InsertAt(@, c.top + 1, Remainder(c, page)),
                          !.top = @ + 1,
                          !.num_top_futures = left]

(* future_pointer_cache_insert_futures(): a page goes to the bottom if     *)
(* that is safe, and is merged into the top page otherwise.                *)
InsertFutures(c, page) ==
  CASE c.num_top_futures = 0 ->
         [pages |-> <<page>> \o c.pages, top |-> 1, num_top_futures |-> Occupancy(page)]
    [] c.num_top_futures # 0 /\ Occupancy(page) = PAGE_CAPACITY ->
         [c EXCEPT !.pages = <<page>> \o @, !.top = @ + 1]
    [] OTHER -> Merge(c, page)

(* future_pointer_cache_refill_local(): the futures of a new storage page  *)
(* are put into an empty cache.                                            *)
RefillLocal(c, futures) ==
  [c EXCEPT !.pages[c.top] =
              [i \in Slots |-> IF i <= Len(futures) THEN futures[i] ELSE @[i]],
            !.num_top_futures = Len(futures)]

(* future_pointer_cache_spill(): the pages with futures from the bottom to *)
(* the top, then the empty ones.                                           *)
Spill(local, global) ==
  LET used == IF local.num_top_futures = 0 THEN 0 ELSE local.top
      spilled[n \in 0 .. Len(local.pages)] ==
        IF n = 0 THEN global
        ELSE IF n <= used THEN InsertFutures(spilled[n - 1], local.pages[n])
        ELSE InsertEmpty(spilled[n - 1], local.pages[n])
  IN  spilled[Len(local.pages)]

-----------------------------------------------------------------------------
(* What a cache should look like (documentation of future_pointer_cache_t).*)

InUse(page) == {i \in Slots : page[i] # NULL}

(* Full pages, then one page that starts with num_top_futures futures,     *)
(* then empty pages; no future at all only if num_top_futures is 0.        *)
StackShape(c) ==
  /\ c.top = 0 <=> c.pages = << >>
  /\ c.num_top_futures = 0 => c.top <= 1
  /\ \A n \in 1 .. Len(c.pages) :
       InUse(c.pages[n]) = CASE n < c.top -> Slots
                             [] n = c.top -> 1 .. c.num_top_futures
                             [] n > c.top -> {}

(* Where a page or a cache holds a future.                                 *)
PageSpots(page, f) == {i \in Slots : page[i] = f}

CacheSpots(c, f) == {s \in (1 .. Len(c.pages)) \X Slots : c.pages[s[1]][s[2]] = f}
=============================================================================
