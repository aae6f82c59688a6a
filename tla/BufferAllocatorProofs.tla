----------------------- MODULE BufferAllocatorProofs ------------------------
(***************************************************************************)
(* The buffer allocator for every word size, number of buffers, page size, *)
(* set of caches and configuration callback.  The operations of            *)
(* bit_array.h, which work word by word, are first shown to do what they   *)
(* should to the bits at the indices they are given, padding or not; the   *)
(* allocator is then a matter of sets.                                     *)
(***************************************************************************)
EXTENDS BufferAllocator, FiniteSetTheorems, WellFoundedInduction, TLAPS

-----------------------------------------------------------------------------
(* Division, minima and maxima.                                            *)

\* A natural number is its quotient and its remainder.
LEMMA Division ==
    ASSUME NEW i \in Nat, NEW B \in Nat, B > 0
    PROVE  /\ i \div B \in Nat
           /\ i % B \in Nat
           /\ i % B < B
           /\ i = (i \div B) * B + (i % B)
<1>1. i \div B \in Int /\ i % B \in Int /\ 0 <= i % B /\ i % B < B
  OBVIOUS
<1>2. i = (i \div B) * B + (i % B)
  OBVIOUS
<1>3. i \div B >= 0
  BY <1>1, <1>2
<1>4. QED
  BY <1>1, <1>2, <1>3

\* Numbers are ordered by their quotients first.
LEMMA DivisionOrder ==
    ASSUME NEW B \in Nat, NEW v \in Int, NEW w \in Int, v < w,
           NEW o \in Nat, o < B, NEW p \in Nat
    PROVE  v * B + o < w * B + p
<1>1. (v + 1) * B <= w * B
  OBVIOUS
<1>2. (v + 1) * B = v * B + B
  OBVIOUS
<1>3. v * B \in Int /\ w * B \in Int
  OBVIOUS
<1>4. QED
  BY <1>1, <1>2, <1>3

\* Quotient and remainder are the only such numbers.
LEMMA DivisionUnique ==
    ASSUME NEW B \in Nat, NEW q \in Nat, NEW r \in Nat, r < B
    PROVE  /\ q * B + r \in Nat
           /\ (q * B + r) \div B = q
           /\ (q * B + r) % B = r
<1>1. PICK i : i = q * B + r
  OBVIOUS
<1>2. i \in Nat
  BY <1>1
<1>3. /\ i \div B \in Nat /\ i % B \in Nat /\ i % B < B
      /\ i = (i \div B) * B + (i % B)
  BY <1>2, Division
<1>4. ~(i \div B < q)
  BY <1>1, <1>2, <1>3, DivisionOrder
<1>5. ~(q < i \div B)
  BY <1>1, <1>2, <1>3, DivisionOrder
<1>6. i \div B = q
  <2>1. PICK n \in Nat : n = i \div B
    BY <1>3
  <2>2. QED
    BY <1>4, <1>5, <2>1
<1>7. q * B \in Nat
  OBVIOUS
<1>8. i % B = r
  BY <1>1, <1>3, <1>6, <1>7
<1>9. QED
  BY <1>1, <1>2, <1>6, <1>8

\* A nonempty set of natural numbers has a minimum, which Min() finds.
LEMMA MinExists ==
    ASSUME NEW S, S \subseteq Nat, S # {}
    PROVE  Min(S) \in S /\ \A y \in S : Min(S) <= y
<1> DEFINE R == {ss \in Nat \X Nat : ss[1] < ss[2]}
<1>1. IsWellFoundedOn(R, Nat)
  BY NatLessThanWellFounded DEF OpToRel
<1>2. \A x, y \in Nat : y < x => <<y, x>> \in R
  OBVIOUS
<1> HIDE DEF R
<1>3. PICK x \in S : \A y \in S : ~(<<y, x>> \in R)
  BY <1>1, WFMin
<1>4. ASSUME NEW y \in S
      PROVE  x =< y
  <2>1. x \in Nat /\ y \in Nat
    OBVIOUS
  <2>2. ~(y < x)
    BY <1>2, <1>3, <2>1
  <2>3. QED
    BY <2>1, <2>2
<1>5. QED
  BY <1>4 DEF Min

LEMMA MinIs ==
    ASSUME NEW S, S \subseteq Nat, NEW x \in S, \A y \in S : x <= y
    PROVE  Min(S) = x
<1>1. Min(S) \in S /\ \A y \in S : Min(S) <= y
  BY MinExists
<1>2. Min(S) <= x /\ x <= Min(S) /\ Min(S) \in Nat /\ x \in Nat
  BY <1>1
<1> HIDE DEF Min
<1>3. QED
  BY <1>2

LEMMA MaxOfTwo ==
    ASSUME NEW x \in Nat, NEW y \in Nat
    PROVE  Max({x, y}) \in {x, y} /\ Max({x, y}) >= x /\ Max({x, y}) >= y
<1>1. \E m \in {x, y} : \A n \in {x, y} : m >= n
  OBVIOUS
<1>2. QED
  BY <1>1 DEF Max

-----------------------------------------------------------------------------
(* Positions in a bit array.                                               *)

WordOf(i) == index_to_bit_pos(i).word
OffsetOf(i) == index_to_bit_pos(i).offset
Index(w, o) == w * BITS_PER_WORD + o

\* Arrays of n words.
Arrays(n) == [0..(n - 1) -> SUBSET Offsets]

LEMMA WordSize == BITS_PER_WORD \in Nat /\ BITS_PER_WORD > 0
  BY BitArrayAssumption

\* An index and its position are the same thing.
LEMMA PositionOfIndex ==
    ASSUME NEW i \in Nat
    PROVE  /\ WordOf(i) \in Nat /\ OffsetOf(i) \in Offsets
           /\ Index(WordOf(i), OffsetOf(i)) = i
           /\ index_to_bit_pos(i) = [word |-> WordOf(i), offset |-> OffsetOf(i)]
           /\ WordOf(i) = i \div BITS_PER_WORD
           /\ OffsetOf(i) = i % BITS_PER_WORD
<1>1. WordOf(i) = i \div BITS_PER_WORD /\ OffsetOf(i) = i % BITS_PER_WORD
  BY DEF WordOf, OffsetOf, index_to_bit_pos
<1>2. index_to_bit_pos(i) = [word |-> WordOf(i), offset |-> OffsetOf(i)]
  BY <1>1 DEF index_to_bit_pos
<1>3. /\ i \div BITS_PER_WORD \in Nat /\ i % BITS_PER_WORD \in Nat
      /\ i % BITS_PER_WORD < BITS_PER_WORD
      /\ i = (i \div BITS_PER_WORD) * BITS_PER_WORD + (i % BITS_PER_WORD)
  BY WordSize, Division
<1>4. OffsetOf(i) \in Offsets
  BY <1>1, <1>3, WordSize DEF Offsets
<1>5. QED
  BY <1>1, <1>2, <1>3, <1>4 DEF Index

LEMMA PositionFacts ==
    ASSUME NEW i \in Nat
    PROVE  /\ WordOf(i) \in Nat /\ OffsetOf(i) \in Nat
           /\ OffsetOf(i) < BITS_PER_WORD
           /\ i = WordOf(i) * BITS_PER_WORD + OffsetOf(i)
<1>1. /\ WordOf(i) \in Nat /\ OffsetOf(i) \in Offsets
      /\ Index(WordOf(i), OffsetOf(i)) = i
  BY PositionOfIndex
<1>2. QED
  BY <1>1, WordSize DEF Offsets, Index

LEMMA IndexOfPosition ==
    ASSUME NEW w \in Nat, NEW o \in Offsets
    PROVE  /\ Index(w, o) \in Nat
           /\ WordOf(Index(w, o)) = w /\ OffsetOf(Index(w, o)) = o
           /\ index_to_bit_pos(Index(w, o)) = [word |-> w, offset |-> o]
<1>1. o \in Nat /\ o < BITS_PER_WORD
  BY WordSize DEF Offsets
<1>2. /\ Index(w, o) \in Nat
      /\ Index(w, o) \div BITS_PER_WORD = w
      /\ Index(w, o) % BITS_PER_WORD = o
  BY <1>1, WordSize, DivisionUnique DEF Index
<1>3. QED
  BY <1>2, PositionOfIndex

\* Indices are ordered as their positions are.
LEMMA PositionOrder ==
    ASSUME NEW i \in Nat, NEW j \in Nat
    PROVE  i < j <=> \/ WordOf(i) < WordOf(j)
                     \/ WordOf(i) = WordOf(j) /\ OffsetOf(i) < OffsetOf(j)
<1>1. /\ WordOf(i) \in Nat /\ OffsetOf(i) \in Nat /\ OffsetOf(i) < BITS_PER_WORD
      /\ WordOf(j) \in Nat /\ OffsetOf(j) \in Nat /\ OffsetOf(j) < BITS_PER_WORD
      /\ i = WordOf(i) * BITS_PER_WORD + OffsetOf(i)
      /\ j = WordOf(j) * BITS_PER_WORD + OffsetOf(j)
  BY PositionFacts
<1>2. WordOf(i) < WordOf(j) => i < j
  BY <1>1, WordSize, DivisionOrder
<1>3. WordOf(j) < WordOf(i) => j < i
  BY <1>1, WordSize, DivisionOrder
<1>4. CASE WordOf(i) = WordOf(j)
  <2>1. PICK m \in Int : m = WordOf(i) * BITS_PER_WORD
    BY <1>1, WordSize
  <2>2. i = m + OffsetOf(i) /\ j = m + OffsetOf(j)
    BY <1>1, <1>4, <2>1
  <2>3. QED
    BY <1>1, <1>4, <2>2
<1>5. QED
  BY <1>1, <1>2, <1>3, <1>4

\* The words that an array of a given length needs.
LEMMA WordsOfLength ==
    ASSUME NEW n \in Nat
    PROVE  /\ BIT_ARRAY_WORDS(n) \in Nat
           /\ BIT_ARRAY_WORDS(n) = WordOf(n) + (IF OffsetOf(n) # 0 THEN 1 ELSE 0)
           /\ \A i \in 0..(n - 1) : WordOf(i) \in 0..(BIT_ARRAY_WORDS(n) - 1)
<1>1. /\ WordOf(n) \in Nat /\ OffsetOf(n) \in Nat
      /\ WordOf(n) = n \div BITS_PER_WORD /\ OffsetOf(n) = n % BITS_PER_WORD
  BY PositionOfIndex, PositionFacts
<1>2. BIT_ARRAY_WORDS(n) = WordOf(n) + (IF OffsetOf(n) # 0 THEN 1 ELSE 0)
  BY <1>1 DEF BIT_ARRAY_WORDS, DIV_CEIL
<1>3. ASSUME NEW i \in 0..(n - 1)
      PROVE  WordOf(i) \in 0..(BIT_ARRAY_WORDS(n) - 1)
  <2>1. i \in Nat /\ i < n
    OBVIOUS
  <2>2. WordOf(i) \in Nat /\ OffsetOf(i) \in Nat
    BY <2>1, PositionFacts
  <2>3. \/ WordOf(i) < WordOf(n)
        \/ WordOf(i) = WordOf(n) /\ OffsetOf(i) < OffsetOf(n)
    BY <2>1, PositionOrder
  <2>4. QED
    BY <1>1, <1>2, <2>2, <2>3
<1>4. QED
  BY <1>1, <1>2, <1>3

\* Positions in a range of indices.
LEMMA PositionInRange ==
    ASSUME NEW i \in Nat, NEW w \in Nat, NEW o \in Offsets
    PROVE  /\ i <= Index(w, o) <=> \/ WordOf(i) < w
                                   \/ WordOf(i) = w /\ OffsetOf(i) <= o
           /\ Index(w, o) < i <=> \/ w < WordOf(i)
                                  \/ w = WordOf(i) /\ o < OffsetOf(i)
<1>1. Index(w, o) \in Nat /\ WordOf(Index(w, o)) = w /\ OffsetOf(Index(w, o)) = o
  BY IndexOfPosition
<1>2. Index(w, o) < i <=> \/ w < WordOf(i)
                          \/ w = WordOf(i) /\ o < OffsetOf(i)
  BY <1>1, PositionOrder
<1>3. PICK x \in Nat : x = Index(w, o)
  BY <1>1
<1>4. i <= x <=> ~(x < i)
  OBVIOUS
<1>5. WordOf(i) \in Nat /\ OffsetOf(i) \in Nat /\ o \in Nat
  BY PositionFacts, WordSize DEF Offsets
<1>6. QED
  BY <1>2, <1>3, <1>4, <1>5

\* The fill mask of bit_array_range_set().
LEMMA FillMask ==
    ASSUME NEW s \in Nat, NEW e \in Nat, s <= e, e <= BITS_PER_WORD,
           NEW o \in Offsets
    PROVE  o \in ShiftLeft(LowBits(e - s), s) <=> s <= o /\ o < e
<1>1. o \in Nat /\ o < BITS_PER_WORD
  BY WordSize DEF Offsets
<1>2. ASSUME s <= o, o < e
      PROVE  o \in ShiftLeft(LowBits(e - s), s)
  <2>1. o - s \in LowBits(e - s) /\ (o - s) + s < BITS_PER_WORD /\ o = (o - s) + s
    BY <1>1, <1>2 DEF LowBits
  <2>2. QED
    BY <2>1 DEF ShiftLeft
<1>3. ASSUME o \in ShiftLeft(LowBits(e - s), s)
      PROVE  s <= o /\ o < e
  <2>1. PICK p \in LowBits(e - s) : o = p + s
    BY <1>3 DEF ShiftLeft
  <2>2. QED
    BY <1>1, <2>1 DEF LowBits
<1>4. QED
  BY <1>2, <1>3

\* bit_array_range_set() on one word, whatever the bounds are.
LEMMA RangeSetWord ==
    ASSUME NEW n \in Nat, NEW a \in Arrays(n), NEW value \in BOOLEAN,
           NEW sw \in Nat, NEW so \in Offsets, NEW ew \in Nat, NEW eo \in Offsets,
           sw < ew \/ (sw = ew /\ so <= eo),
           NEW w \in 0..(n - 1), NEW o \in Offsets,
           NEW b, b = bit_array_range_set(a, [word |-> sw, offset |-> so],
                                             [word |-> ew, offset |-> eo], value)
    PROVE  /\ b[w] \subseteq Offsets
           /\ (o \in b[w]) <=> IF /\ sw < w \/ (sw = w /\ so <= o)
                                  /\ w < ew \/ (w = ew /\ o < eo)
                               THEN value ELSE o \in a[w]
<1> DEFINE start_offset == IF w = sw THEN so ELSE 0
           end_offset == IF w = ew THEN eo ELSE BITS_PER_WORD
           fill_mask == ShiftLeft(LowBits(end_offset - start_offset), start_offset)
<1>1. DOMAIN a = 0..(n - 1) /\ a[w] \subseteq Offsets /\ w \in Nat
  BY DEF Arrays
<1>2. b[w] = IF w \notin sw..ew THEN a[w]
             ELSE IF (w > sw \/ so = 0) /\ w < ew THEN bit_broadcast(value)
             ELSE IF (w = ew /\ eo = 0) \/ start_offset > end_offset THEN a[w]
             ELSE (bit_broadcast(value) \cap fill_mask)
                  \cup (a[w] \cap Complement(fill_mask))
  BY <1>1 DEF bit_array_range_set
<1>3. so \in Nat /\ eo \in Nat /\ o \in Nat
      /\ so < BITS_PER_WORD /\ eo < BITS_PER_WORD /\ o < BITS_PER_WORD
  BY WordSize DEF Offsets
<1>4. CASE w \notin sw..ew
  BY <1>1, <1>2, <1>3, <1>4
<1>5. CASE w \in sw..ew /\ (w > sw \/ so = 0) /\ w < ew
  <2>1. b[w] = bit_broadcast(value)
    BY <1>2, <1>5
  <2>2. sw < w \/ (sw = w /\ so <= o)
    BY <1>1, <1>3, <1>5
  <2>3. (o \in bit_broadcast(value)) <=> value
    BY DEF bit_broadcast, WORD_MAX
  <2>4. bit_broadcast(value) \subseteq Offsets
    BY DEF bit_broadcast, WORD_MAX
  <2>5. QED
    BY <1>5, <2>1, <2>2, <2>3, <2>4
<1>6. CASE w \in sw..ew /\ ~((w > sw \/ so = 0) /\ w < ew)
           /\ ((w = ew /\ eo = 0) \/ start_offset > end_offset)
  <2>1. b[w] = a[w]
    BY <1>2, <1>6
  <2>2. w = ew /\ eo = 0
    BY <1>1, <1>3, <1>6, WordSize
  <2>3. QED
    BY <1>1, <1>3, <2>1, <2>2
<1>7. CASE w \in sw..ew /\ ~((w > sw \/ so = 0) /\ w < ew)
           /\ ~((w = ew /\ eo = 0) \/ start_offset > end_offset)
  <2>1. b[w] = (bit_broadcast(value) \cap fill_mask)
               \cup (a[w] \cap Complement(fill_mask))
    BY <1>2, <1>7
  <2>2. start_offset \in Nat /\ end_offset \in Nat /\ start_offset <= end_offset
        /\ end_offset <= BITS_PER_WORD
    BY <1>3, <1>7, WordSize
  <2>3. o \in fill_mask <=> start_offset <= o /\ o < end_offset
    <3> HIDE DEF start_offset, end_offset
    <3>1. QED
      BY <2>2, FillMask
  <2>4. (o \in bit_broadcast(value)) <=> value
    BY DEF bit_broadcast, WORD_MAX
  <2>5. bit_broadcast(value) \subseteq Offsets
    BY DEF bit_broadcast, WORD_MAX
  <2>6. o \in Complement(fill_mask) <=> o \notin fill_mask
    BY DEF Complement, WORD_MAX
  <2>7. start_offset <= o /\ o < end_offset
           <=> /\ sw < w \/ (sw = w /\ so <= o)
               /\ w < ew \/ (w = ew /\ o < eo)
    BY <1>1, <1>3, <1>7
  <2>8. (o \in b[w]) <=> IF o \in fill_mask THEN value ELSE o \in a[w]
    <3> HIDE DEF fill_mask
    <3>1. QED
      BY <2>1, <2>4, <2>6
  <2>9. b[w] \subseteq Offsets
    <3> HIDE DEF fill_mask
    <3>1. QED
      BY <1>1, <2>1, <2>5
  <2>10. QED
    BY <2>3, <2>7, <2>8, <2>9
<1>8. QED
  BY <1>4, <1>5, <1>6, <1>7

(***************************************************************************)
(* bit_array_range_set(), which works word by word with masks, sets        *)
(* exactly the bits of the range, for every word size, array and range.    *)
(***************************************************************************)
LEMMA RangeSet ==
    ASSUME NEW n \in Nat, NEW a \in Arrays(n), NEW value \in BOOLEAN,
           NEW i \in Nat, NEW j \in Nat, i <= j,
           NEW b, b = bit_array_range_set(a, index_to_bit_pos(i),
                                             index_to_bit_pos(j), value)
    PROVE  /\ b \in Arrays(n)
           /\ \A w \in 0..(n - 1), o \in Offsets :
                 (o \in b[w]) <=> IF i <= Index(w, o) /\ Index(w, o) < j
                                  THEN value ELSE o \in a[w]
<1>1. /\ WordOf(i) \in Nat /\ OffsetOf(i) \in Offsets
      /\ WordOf(j) \in Nat /\ OffsetOf(j) \in Offsets
      /\ index_to_bit_pos(i) = [word |-> WordOf(i), offset |-> OffsetOf(i)]
      /\ index_to_bit_pos(j) = [word |-> WordOf(j), offset |-> OffsetOf(j)]
  BY PositionOfIndex
<1>2. WordOf(i) < WordOf(j) \/ (WordOf(i) = WordOf(j) /\ OffsetOf(i) <= OffsetOf(j))
  <2>1. OffsetOf(i) \in Nat /\ OffsetOf(j) \in Nat
    BY PositionFacts
  <2>2. CASE i < j
    BY <2>1, <2>2, <1>1, PositionOrder
  <2>3. CASE i = j
    BY <2>1, <2>3
  <2>4. QED
    BY <2>2, <2>3
<1>3. ASSUME NEW w \in 0..(n - 1), NEW o \in Offsets
      PROVE  /\ b[w] \subseteq Offsets
             /\ (o \in b[w]) <=> IF i <= Index(w, o) /\ Index(w, o) < j
                                 THEN value ELSE o \in a[w]
  <2>1. w \in Nat
    OBVIOUS
  <2>2. /\ i <= Index(w, o) <=> WordOf(i) < w \/ (WordOf(i) = w /\ OffsetOf(i) <= o)
        /\ Index(w, o) < j <=> w < WordOf(j) \/ (w = WordOf(j) /\ o < OffsetOf(j))
    BY <2>1, PositionInRange
  <2>3. b = bit_array_range_set(a, [word |-> WordOf(i), offset |-> OffsetOf(i)],
                                   [word |-> WordOf(j), offset |-> OffsetOf(j)], value)
    BY <1>1
  <2>4. /\ b[w] \subseteq Offsets
        /\ (o \in b[w]) <=> IF /\ WordOf(i) < w \/ (WordOf(i) = w /\ OffsetOf(i) <= o)
                               /\ w < WordOf(j) \/ (w = WordOf(j) /\ o < OffsetOf(j))
                            THEN value ELSE o \in a[w]
    BY <1>1, <1>2, <2>3, RangeSetWord
  <2>5. QED
    BY <2>2, <2>4
<1>4. b = [w \in 0..(n - 1) |-> b[w]]
  BY DEF bit_array_range_set, Arrays
<1>5. 0 \in Offsets
  BY WordSize DEF Offsets
<1>6. \A w \in 0..(n - 1) : b[w] \subseteq Offsets
  BY <1>3, <1>5
<1>7. b \in Arrays(n)
  BY <1>4, <1>6 DEF Arrays
<1>8. QED
  BY <1>3, <1>7

\* bit_array_set() sets one bit.
LEMMA SetBit ==
    ASSUME NEW n \in Nat, NEW a \in Arrays(n), NEW value \in BOOLEAN,
           NEW i \in Nat, WordOf(i) \in 0..(n - 1),
           NEW b, b = bit_array_set(a, index_to_bit_pos(i), value)
    PROVE  /\ b \in Arrays(n)
           /\ \A w \in 0..(n - 1), o \in Offsets :
                 (o \in b[w]) <=> IF Index(w, o) = i THEN value ELSE o \in a[w]
<1> DEFINE wi == WordOf(i)
           oi == OffsetOf(i)
<1>1. /\ wi \in Nat /\ oi \in Offsets /\ Index(wi, oi) = i
      /\ index_to_bit_pos(i) = [word |-> wi, offset |-> oi]
  BY PositionOfIndex
<1>2. wi \in 0..(n - 1)
  OBVIOUS
<1>3. \A w \in 0..(n - 1), o \in Offsets : Index(w, o) = i <=> w = wi /\ o = oi
  <2>1. \A w \in 0..(n - 1) : w \in Nat
    OBVIOUS
  <2>2. QED
    BY <1>1, <2>1, IndexOfPosition
<1> HIDE DEF wi, oi
<1>4. b = [a EXCEPT ![wi] = IF value THEN @ \cup {oi} ELSE @ \ {oi}]
  BY <1>1 DEF bit_array_set
<1>5. b \in Arrays(n)
  BY <1>1, <1>2, <1>4 DEF Arrays
<1>6. ASSUME NEW w \in 0..(n - 1), NEW o \in Offsets
      PROVE  (o \in b[w]) <=> IF w = wi /\ o = oi THEN value ELSE o \in a[w]
  <2>1. b[w] = IF w = wi THEN IF value THEN a[w] \cup {oi} ELSE a[w] \ {oi} ELSE a[w]
    BY <1>2, <1>4 DEF Arrays
  <2>2. QED
    BY <2>1
<1>7. QED
  BY <1>3, <1>5, <1>6

\* bit_array_range_alleq() on one word.
LEMMA AllEqualWord ==
    ASSUME NEW W, W \subseteq Offsets, NEW value \in BOOLEAN,
           NEW s \in Nat, NEW e \in Nat, e <= BITS_PER_WORD,
           NEW start, start = ShiftRight(Matching(W, ~value) \cap LowBits(e), s)
    PROVE  start = {} <=> \A o \in Offsets : s <= o /\ o < e => ((o \in W) <=> value)
<1>1. \A o \in Offsets : o \in Nat /\ o < BITS_PER_WORD
  BY WordSize DEF Offsets
<1>2. \A o \in Offsets : o \in Matching(W, ~value) <=> ~((o \in W) <=> value)
  BY DEF Matching, Complement, WORD_MAX
<1>3. \A o \in Offsets : o \in LowBits(e) <=> o < e
  BY <1>1 DEF LowBits
<1>4. Matching(W, ~value) \subseteq Offsets
  BY DEF Matching, Complement, WORD_MAX
<1> DEFINE M == Matching(W, ~value) \cap LowBits(e)
<1>5. start = {} <=> \A o \in M : ~(o >= s)
  BY DEF ShiftRight
<1>6. \A o \in Offsets : o \in M <=> ~((o \in W) <=> value) /\ o < e
  BY <1>2, <1>3
<1>7. M \subseteq Offsets
  BY <1>4
<1> HIDE DEF M
<1>8. QED
  BY <1>1, <1>5, <1>6, <1>7

(***************************************************************************)
(* bit_array_range_alleq() tells whether all the bits of the range have    *)
(* the value.                                                              *)
(***************************************************************************)
LEMMA AllEqual ==
    ASSUME NEW n \in Nat, NEW a \in Arrays(n), NEW value \in BOOLEAN,
           NEW i \in Nat, NEW j \in Nat, i < j,
           \A k \in i..(j - 1) : WordOf(k) \in 0..(n - 1)
    PROVE  bit_array_range_alleq(a, index_to_bit_pos(i), index_to_bit_pos(j), value)
              <=> \A k \in i..(j - 1) : (OffsetOf(k) \in a[WordOf(k)]) <=> value
<1> DEFINE sw == WordOf(i)
           so == OffsetOf(i)
           ew == WordOf(j)
           eo == OffsetOf(j)
           High(w) == IF w = ew THEN eo ELSE BITS_PER_WORD
           Low(w) == IF w = sw THEN so ELSE 0
           Good(w) == \A o \in Offsets :
                         Low(w) <= o /\ o < High(w) => ((o \in a[w]) <=> value)
           Skip(w) == w = ew /\ eo = 0
           Target(w) == Matching(a[w], ~value)
           Ended(w) == IF w = ew THEN Target(w) \cap LowBits(eo) ELSE Target(w)
           Started(w) == IF w = sw THEN ShiftRight(Ended(w), so) ELSE Ended(w)
<1>1. /\ sw \in Nat /\ so \in Offsets /\ ew \in Nat /\ eo \in Offsets
      /\ index_to_bit_pos(i) = [word |-> sw, offset |-> so]
      /\ index_to_bit_pos(j) = [word |-> ew, offset |-> eo]
  BY PositionOfIndex
<1>2. /\ so \in Nat /\ so < BITS_PER_WORD /\ eo \in Nat /\ eo < BITS_PER_WORD
  BY PositionFacts
<1>3. bit_array_range_alleq(a, index_to_bit_pos(i), index_to_bit_pos(j), value)
         <=> \A w \in sw..ew : Skip(w) \/ Started(w) = {}
  BY <1>1 DEF bit_array_range_alleq
<1>4. sw < ew \/ (sw = ew /\ so < eo)
  BY PositionOrder
<1>5. ASSUME NEW w \in sw..ew, ~Skip(w)
      PROVE  w \in 0..(n - 1)
  <2>1. w \in Nat
    BY <1>1
  <2>2. PICK o \in Offsets : o = IF w = sw THEN so ELSE 0
    BY <1>1, WordSize DEF Offsets
  <2>3. Index(w, o) \in Nat /\ WordOf(Index(w, o)) = w
    BY <2>1, IndexOfPosition
  <2>4. i <= Index(w, o)
    BY <1>1, <1>2, <2>1, <2>2, PositionInRange
  <2>5. Index(w, o) < j
    BY <1>1, <1>2, <1>4, <1>5, <2>1, <2>2, PositionInRange
  <2>6. Index(w, o) \in i..(j - 1)
    BY <2>3, <2>4, <2>5
  <2>7. QED
    BY <2>3, <2>6
<1>6. ASSUME NEW w \in sw..ew, ~Skip(w)
      PROVE  Started(w) = {} <=> Good(w)
  <2>1. w \in 0..(n - 1) /\ a[w] \subseteq Offsets
    BY <1>5, <1>6 DEF Arrays
  <2>2. Low(w) \in Nat /\ High(w) \in Nat /\ High(w) <= BITS_PER_WORD
    BY <1>2, WordSize
  <2>3. Target(w) \subseteq Offsets
    BY <2>1 DEF Matching, Complement, WORD_MAX
  <2>4. LowBits(BITS_PER_WORD) = Offsets
    BY DEF LowBits, Offsets
  <2>5. Ended(w) = Target(w) \cap LowBits(High(w))
    <3> HIDE DEF Target
    <3>1. QED
      BY <2>3, <2>4
  <2>6. \A X \in SUBSET Offsets : ShiftRight(X, 0) = X
    <3>1. \A o \in Offsets : o \in Nat /\ o - 0 = o /\ o >= 0
      BY WordSize DEF Offsets
    <3>2. QED
      BY <3>1 DEF ShiftRight
  <2>7. Started(w) = ShiftRight(Ended(w), Low(w))
    <3>1. Ended(w) \in SUBSET Offsets
      <4> HIDE DEF Target
      <4>1. QED
        BY <2>3
    <3> HIDE DEF Ended
    <3>2. QED
      BY <2>6, <3>1
  <2> HIDE DEF Low, High, Started, Ended
  <2>8. QED
    BY <2>1, <2>2, <2>5, <2>7, AllEqualWord
<1>7. ASSUME \A w \in sw..ew : Skip(w) \/ Good(w), NEW k \in i..(j - 1)
      PROVE  (OffsetOf(k) \in a[WordOf(k)]) <=> value
  <2>1. k \in Nat /\ i <= k /\ k < j
    OBVIOUS
  <2>2. WordOf(k) \in Nat /\ OffsetOf(k) \in Offsets /\ Index(WordOf(k), OffsetOf(k)) = k
    BY <2>1, PositionOfIndex
  <2>3. OffsetOf(k) \in Nat /\ OffsetOf(k) < BITS_PER_WORD
    BY <2>1, PositionFacts
  <2>4. sw < WordOf(k) \/ (sw = WordOf(k) /\ so <= OffsetOf(k))
    BY <2>1, <2>2, PositionInRange
  <2>5. WordOf(k) < ew \/ (WordOf(k) = ew /\ OffsetOf(k) < eo)
    BY <2>1, <2>2, PositionInRange
  <2>6. WordOf(k) \in sw..ew /\ ~Skip(WordOf(k))
    BY <1>1, <1>2, <2>2, <2>3, <2>4, <2>5
  <2>7. Low(WordOf(k)) <= OffsetOf(k) /\ OffsetOf(k) < High(WordOf(k))
    BY <1>1, <1>2, <2>2, <2>3, <2>4, <2>5
  <2>8. Good(WordOf(k))
    BY <1>7, <2>6
  <2>9. QED
    BY <2>2, <2>7, <2>8
<1>8. ASSUME \A k \in i..(j - 1) : (OffsetOf(k) \in a[WordOf(k)]) <=> value,
             NEW w \in sw..ew, NEW o \in Offsets, Low(w) <= o, o < High(w)
      PROVE  (o \in a[w]) <=> value
  <2>1. w \in Nat /\ o \in Nat
    BY <1>1, WordSize DEF Offsets
  <2>2. Index(w, o) \in Nat /\ WordOf(Index(w, o)) = w /\ OffsetOf(Index(w, o)) = o
    BY <2>1, IndexOfPosition
  <2>3. i <= Index(w, o)
    BY <1>1, <1>2, <1>8, <2>1, PositionInRange
  <2>4. Index(w, o) < j
    BY <1>1, <1>2, <1>8, <2>1, PositionInRange
  <2>5. Index(w, o) \in i..(j - 1)
    BY <2>2, <2>3, <2>4
  <2>6. QED
    BY <1>8, <2>2, <2>5
<1>9. (\A w \in sw..ew : Skip(w) \/ Started(w) = {})
          <=> (\A w \in sw..ew : Skip(w) \/ Good(w))
  <2> HIDE DEF Started, Good, Skip
  <2>1. QED
    BY <1>6
<1>10. (\A w \in sw..ew : Skip(w) \/ Good(w))
          <=> \A k \in i..(j - 1) : (OffsetOf(k) \in a[WordOf(k)]) <=> value
  BY <1>7, <1>8
<1>11. QED
  BY <1>3, <1>9, <1>10

LEMMA InIndices ==
    ASSUME NEW a, NEW length \in Nat, NEW value \in BOOLEAN, NEW k
    PROVE  k \in Indices(a, length, value)
              <=> k \in 0..(length - 1) /\ ((OffsetOf(k) \in a[WordOf(k)]) <=> value)
<1>1. k \in Indices(a, length, value)
         <=> k \in 0..(length - 1) /\ (OffsetOf(k) \in a[WordOf(k)]) = value
  BY DEF Indices, bit_array_get, WordOf, OffsetOf
<1>2. CASE value = TRUE
  BY <1>1, <1>2
<1>3. CASE value = FALSE
  BY <1>1, <1>3
<1>4. QED
  BY <1>2, <1>3

(***************************************************************************)
(* bit_array_find_first(), which skips words and masks the padding of the  *)
(* last one, finds the first matching bit if there is one.                 *)
(***************************************************************************)
LEMMA FindFirst ==
    ASSUME NEW n \in Nat, NEW a \in Arrays(n), NEW value \in BOOLEAN,
           NEW length \in Nat, BIT_ARRAY_WORDS(length) <= n
    PROVE  bit_array_find_first(a, length, value) = PosOfMin(Indices(a, length, value))
<1> DEFINE N == BIT_ARRAY_WORDS(length)
           candidates == {w \in 0..(N - 1) : a[w] # bit_broadcast(~value)}
           word == Min(candidates)
           found == Matching(a[word], value)
           used == IF word = length \div BITS_PER_WORD /\ length % BITS_PER_WORD # 0
                   THEN found \cap LowBits(length % BITS_PER_WORD) ELSE found
           I == Indices(a, length, value)
<1>1. bit_array_find_first(a, length, value)
         = IF candidates = {} \/ used = {} THEN NO_BIT_POS
           ELSE [word |-> word, offset |-> Min(used)]
  BY DEF bit_array_find_first, count_trailing_zeros
<1>2. /\ N \in Nat
      /\ N = WordOf(length) + (IF OffsetOf(length) # 0 THEN 1 ELSE 0)
      /\ \A i \in 0..(length - 1) : WordOf(i) \in 0..(N - 1)
  BY WordsOfLength
<1>3. /\ WordOf(length) = length \div BITS_PER_WORD
      /\ OffsetOf(length) = length % BITS_PER_WORD
      /\ WordOf(length) \in Nat /\ OffsetOf(length) \in Nat
  BY PositionOfIndex, PositionFacts
<1>4. \A o \in Offsets : o \in Nat /\ o < BITS_PER_WORD
  BY WordSize DEF Offsets
<1>5. \A w \in 0..(N - 1) : a[w] \subseteq Offsets
  BY <1>2 DEF Arrays
<1>6. \A w \in 0..(N - 1) :
         w \in candidates <=> \E o \in Offsets : (o \in a[w]) <=> value
  <2>1. CASE value = TRUE
    BY <1>5, <2>1 DEF bit_broadcast, WORD_MAX
  <2>2. CASE value = FALSE
    BY <1>5, <2>2 DEF bit_broadcast, WORD_MAX
  <2>3. QED
    BY <2>1, <2>2
<1>7. \A k : k \in I <=> k \in 0..(length - 1) /\ ((OffsetOf(k) \in a[WordOf(k)]) <=> value)
  BY InIndices
<1> HIDE DEF I
<1>8. ASSUME NEW k \in I
      PROVE  /\ k \in Nat /\ k < length /\ WordOf(k) \in Nat /\ OffsetOf(k) \in Offsets
             /\ Index(WordOf(k), OffsetOf(k)) = k
             /\ (OffsetOf(k) \in a[WordOf(k)]) <=> value
             /\ WordOf(k) \in candidates
  <2>1. k \in Nat /\ k < length /\ WordOf(k) \in 0..(N - 1)
    BY <1>2, <1>7
  <2>2. WordOf(k) \in Nat /\ OffsetOf(k) \in Offsets /\ Index(WordOf(k), OffsetOf(k)) = k
    BY <2>1, PositionOfIndex
  <2>3. (OffsetOf(k) \in a[WordOf(k)]) <=> value
    BY <1>7
  <2> HIDE DEF N, candidates
  <2>4. QED
    BY <1>6, <2>1, <2>2, <2>3
<1>9. ASSUME NEW w \in 0..(N - 1), NEW o \in Offsets,
             (o \in a[w]) <=> value, Index(w, o) < length
      PROVE  Index(w, o) \in I
  <2>1. w \in Nat
    BY <1>2
  <2>2. Index(w, o) \in Nat /\ WordOf(Index(w, o)) = w /\ OffsetOf(Index(w, o)) = o
    BY <2>1, IndexOfPosition
  <2>3. QED
    BY <1>7, <1>9, <2>2
<1>10. CASE candidates = {}
  <2>1. I = {}
    <3> HIDE DEF candidates
    <3>1. QED
      BY <1>8, <1>10
  <2>2. bit_array_find_first(a, length, value) = NO_BIT_POS
    BY <1>1, <1>10
  <2>3. QED
    BY <2>1, <2>2 DEF PosOfMin, I
<1>11. CASE candidates # {}
  <2>1. candidates \subseteq Nat
    BY <1>2
  <2>2. word \in candidates /\ \A w \in candidates : word <= w
    <3> HIDE DEF candidates
    <3>1. QED
      BY <1>11, <2>1, MinExists
  <2>3. word \in 0..(N - 1) /\ word \in Nat
    BY <1>2, <2>2
  <2> HIDE DEF candidates, word
  <2>4. \A o : o \in found <=> o \in Offsets /\ ((o \in a[word]) <=> value)
    BY <1>5, <2>3 DEF Matching, Complement, WORD_MAX
  <2> HIDE DEF found
  <2>5. \A o \in Offsets : Index(word, o) < length
           <=> word < WordOf(length) \/ (word = WordOf(length) /\ o < OffsetOf(length))
    BY <2>3, PositionInRange
  <2>6. \A o : o \in used <=> /\ o \in Offsets /\ ((o \in a[word]) <=> value)
                              /\ Index(word, o) < length
    <3>1. CASE word = WordOf(length) /\ OffsetOf(length) # 0
      <4>1. \A o \in Offsets : o \in LowBits(OffsetOf(length)) <=> o < OffsetOf(length)
        BY <1>3, <1>4 DEF LowBits
      <4>2. used = found \cap LowBits(OffsetOf(length))
        BY <1>3, <3>1
      <4>3. \A o \in Offsets : Index(word, o) < length <=> o < OffsetOf(length)
        BY <1>3, <2>3, <2>5, <3>1
      <4> HIDE DEF used
      <4>4. QED
        BY <2>4, <4>1, <4>2, <4>3
    <3>2. CASE ~(word = WordOf(length) /\ OffsetOf(length) # 0)
      <4>1. used = found
        BY <1>3, <3>2
      <4>2. word < WordOf(length)
        BY <1>2, <1>3, <2>3, <3>2
      <4> HIDE DEF used
      <4>3. QED
        BY <2>4, <2>5, <4>1, <4>2
    <3>3. QED
      BY <3>1, <3>2
  <2> HIDE DEF used
  <2>7. CASE used = {}
    <3>1. bit_array_find_first(a, length, value) = NO_BIT_POS
      BY <1>1, <2>7
    <3>2. PICK o \in Offsets : (o \in a[word]) <=> value
      BY <1>6, <2>2, <2>3
    <3>3. ~(word < WordOf(length))
      BY <2>5, <2>6, <2>7, <3>2
    <3>4. ASSUME NEW k \in I
          PROVE  FALSE
      <4>1. /\ k \in Nat /\ k < length /\ WordOf(k) \in Nat /\ OffsetOf(k) \in Offsets
            /\ Index(WordOf(k), OffsetOf(k)) = k
            /\ (OffsetOf(k) \in a[WordOf(k)]) <=> value
            /\ word <= WordOf(k)
        BY <1>8, <2>2
      <4>2. WordOf(k) <= WordOf(length)
        BY <1>3, <4>1, PositionOrder
      <4>3. WordOf(k) = word
        BY <1>3, <2>3, <3>3, <4>1, <4>2
      <4>4. OffsetOf(k) \in used
        BY <2>6, <4>1, <4>3
      <4>5. QED
        BY <2>7, <4>4
    <3>5. I = {}
      BY <3>4
    <3>6. QED
      BY <3>1, <3>5 DEF PosOfMin, I
  <2>8. CASE used # {}
    <3>1. used \subseteq Nat
      BY <1>4, <2>6
    <3>2. PICK m : m = Min(used)
      OBVIOUS
    <3>3. m \in used /\ \A o \in used : m <= o
      BY <2>8, <3>1, <3>2, MinExists
    <3>4. m \in Offsets /\ ((m \in a[word]) <=> value) /\ Index(word, m) < length
      BY <2>6, <3>3
    <3>5. Index(word, m) \in I
      BY <1>9, <2>3, <3>4
    <3>6. ASSUME NEW k \in I
          PROVE  Index(word, m) <= k
      <4>1. /\ k \in Nat /\ k < length /\ WordOf(k) \in Nat /\ OffsetOf(k) \in Offsets
            /\ Index(WordOf(k), OffsetOf(k)) = k
            /\ (OffsetOf(k) \in a[WordOf(k)]) <=> value
            /\ word <= WordOf(k)
        BY <1>8, <2>2
      <4>2. WordOf(k) = word => OffsetOf(k) \in used
        BY <2>6, <4>1
      <4>3. Index(word, m) \in Nat /\ WordOf(Index(word, m)) = word
            /\ OffsetOf(Index(word, m)) = m
        BY <2>3, <3>4, IndexOfPosition
      <4>4. ~(k < Index(word, m))
        <5>1. k < Index(word, m) => \/ WordOf(k) < word
                                    \/ WordOf(k) = word /\ OffsetOf(k) < m
          BY <4>1, <4>3, PositionOrder
        <5>2. OffsetOf(k) \in Nat /\ m \in Nat
          BY <1>4, <3>4, <4>1
        <5>3. WordOf(k) = word => m <= OffsetOf(k)
          BY <3>3, <4>2
        <5>4. QED
          BY <2>3, <4>1, <5>1, <5>2, <5>3
      <4>5. QED
        BY <4>1, <4>3, <4>4
    <3>7. I \subseteq Nat
      BY <1>8
    <3>8. Min(I) = Index(word, m)
      BY <3>5, <3>6, <3>7, MinIs
    <3>9. bit_array_find_first(a, length, value) = [word |-> word, offset |-> m]
      BY <1>1, <1>11, <2>8, <3>2
    <3>10. index_to_bit_pos(Index(word, m)) = [word |-> word, offset |-> m]
      BY <2>3, <3>4, IndexOfPosition
    <3>11. QED
      BY <3>5, <3>8, <3>9, <3>10 DEF PosOfMin, I
  <2>9. QED
    BY <2>7, <2>8
<1>12. QED
  BY <1>10, <1>11

-----------------------------------------------------------------------------
(* bit_array_find_next().                                                  *)

\* A shorter array has no more words.
LEMMA FewerWords ==
    ASSUME NEW m \in Nat, NEW n \in Nat, m <= n
    PROVE  BIT_ARRAY_WORDS(m) <= BIT_ARRAY_WORDS(n)
<1>1. /\ WordOf(m) \in Nat /\ OffsetOf(m) \in Nat
      /\ WordOf(n) \in Nat /\ OffsetOf(n) \in Nat
  BY PositionFacts
<1>2. /\ BIT_ARRAY_WORDS(m) = WordOf(m) + (IF OffsetOf(m) # 0 THEN 1 ELSE 0)
      /\ BIT_ARRAY_WORDS(n) = WordOf(n) + (IF OffsetOf(n) # 0 THEN 1 ELSE 0)
  BY WordsOfLength
<1>3. CASE m = n
  BY <1>1, <1>2, <1>3
<1>4. CASE m < n
  <2>1. \/ WordOf(m) < WordOf(n)
        \/ WordOf(m) = WordOf(n) /\ OffsetOf(m) < OffsetOf(n)
    BY <1>4, PositionOrder
  <2>2. QED
    BY <1>1, <1>2, <2>1
<1>5. QED
  BY <1>3, <1>4

\* Whole words may be added to an index.
LEMMA PositionShift ==
    ASSUME NEW k \in Nat, NEW s \in Nat
    PROVE  /\ k + s * BITS_PER_WORD \in Nat
           /\ WordOf(k + s * BITS_PER_WORD) = WordOf(k) + s
           /\ OffsetOf(k + s * BITS_PER_WORD) = OffsetOf(k)
<1>1. /\ WordOf(k) \in Nat /\ OffsetOf(k) \in Offsets
      /\ k = WordOf(k) * BITS_PER_WORD + OffsetOf(k)
  BY PositionFacts, PositionOfIndex
<1>2. OffsetOf(k) \in Nat /\ WordOf(k) + s \in Nat
  BY <1>1, PositionFacts
<1>3. k + s * BITS_PER_WORD = Index(WordOf(k) + s, OffsetOf(k))
  <2>1. (WordOf(k) + s) * BITS_PER_WORD = WordOf(k) * BITS_PER_WORD + s * BITS_PER_WORD
    BY <1>1, WordSize
  <2>2. WordOf(k) * BITS_PER_WORD \in Nat /\ s * BITS_PER_WORD \in Nat
    BY <1>1, WordSize
  <2>3. QED
    BY <1>1, <1>2, <2>1, <2>2 DEF Index
<1>4. QED
  BY <1>1, <1>2, <1>3, IndexOfPosition

\* The words after the first s of an array.
LaterWords(a, length, s) ==
    [w \in 0..(BIT_ARRAY_WORDS(length) - s - 1) |-> a[w + s]]

\* bit_array_find_next() searches the words after that of the previous
\* position as an array of their own, whose indices start at its first word.
LEMMA LaterIndices ==
    ASSUME NEW n \in Nat, NEW a \in Arrays(n), NEW value \in BOOLEAN,
           NEW length \in Nat, BIT_ARRAY_WORDS(length) <= n,
           NEW s \in Nat, s < BIT_ARRAY_WORDS(length)
    PROVE  /\ length - s * BITS_PER_WORD \in Nat
           /\ bit_array_find_first(LaterWords(a, length, s), length - s * BITS_PER_WORD, value)
                 = PosOfMin(Indices(LaterWords(a, length, s), length - s * BITS_PER_WORD, value))
           /\ \A k \in Nat : k \in Indices(LaterWords(a, length, s),
                                           length - s * BITS_PER_WORD, value)
                 <=> k + s * BITS_PER_WORD \in Indices(a, length, value)
<1> DEFINE N == BIT_ARRAY_WORDS(length)
           b == LaterWords(a, length, s)
           left == length - s * BITS_PER_WORD
<1>1. /\ N \in Nat
      /\ N = WordOf(length) + (IF OffsetOf(length) # 0 THEN 1 ELSE 0)
      /\ WordOf(length) \in Nat /\ OffsetOf(length) \in Nat /\ OffsetOf(length) \in Offsets
      /\ length = WordOf(length) * BITS_PER_WORD + OffsetOf(length)
  BY WordsOfLength, PositionFacts, PositionOfIndex
<1>2. WordOf(length) - s \in Nat
  BY <1>1
<1>3. left = Index(WordOf(length) - s, OffsetOf(length)) /\ left \in Nat
  <2>1. (WordOf(length) - s) * BITS_PER_WORD = WordOf(length) * BITS_PER_WORD - s * BITS_PER_WORD
    BY <1>1, WordSize
  <2>2. WordOf(length) * BITS_PER_WORD \in Nat /\ s * BITS_PER_WORD \in Nat
    BY <1>1, WordSize
  <2>3. left = Index(WordOf(length) - s, OffsetOf(length))
    BY <1>1, <2>1, <2>2 DEF Index
  <2>4. QED
    BY <1>1, <1>2, <2>3, IndexOfPosition
<1>4. WordOf(left) = WordOf(length) - s /\ OffsetOf(left) = OffsetOf(length)
  BY <1>1, <1>2, <1>3, IndexOfPosition
<1>5. BIT_ARRAY_WORDS(left) = N - s
  <2>1. BIT_ARRAY_WORDS(left) = WordOf(left) + (IF OffsetOf(left) # 0 THEN 1 ELSE 0)
    BY <1>3, WordsOfLength
  <2>2. QED
    BY <1>1, <1>2, <1>4, <2>1
<1>6. N - s \in Nat /\ b \in Arrays(N - s)
  <2>1. N - s \in Nat
    BY <1>1
  <2>2. \A w \in 0..(N - s - 1) : a[w + s] \in SUBSET Offsets
    BY <1>1 DEF Arrays
  <2>3. QED
    BY <2>1, <2>2 DEF Arrays, LaterWords
<1>7. bit_array_find_first(b, left, value) = PosOfMin(Indices(b, left, value))
  <2>1. BIT_ARRAY_WORDS(left) <= N - s
    BY <1>5, <1>6
  <2> HIDE DEF b, left, N
  <2>2. QED
    BY <1>3, <1>6, <2>1, FindFirst
<1>8. ASSUME NEW k \in Nat
      PROVE  k \in Indices(b, left, value) <=> k + s * BITS_PER_WORD \in Indices(a, length, value)
  <2>1. /\ k + s * BITS_PER_WORD \in Nat
        /\ WordOf(k + s * BITS_PER_WORD) = WordOf(k) + s
        /\ OffsetOf(k + s * BITS_PER_WORD) = OffsetOf(k)
    BY PositionShift
  <2>2. k < left <=> k + s * BITS_PER_WORD < length
    <3>1. PICK m \in Nat : m = s * BITS_PER_WORD
      BY WordSize
    <3>2. QED
      BY <3>1
  <2>3. k < left => b[WordOf(k)] = a[WordOf(k) + s]
    <3>1. SUFFICES ASSUME k < left PROVE b[WordOf(k)] = a[WordOf(k) + s]
      OBVIOUS
    <3>2. k \in 0..(left - 1)
      BY <1>3, <3>1
    <3>3. WordOf(k) \in 0..(BIT_ARRAY_WORDS(left) - 1)
      BY <1>3, <3>2, WordsOfLength
    <3>4. QED
      BY <1>5, <3>3 DEF LaterWords
  <2>4. k \in Indices(b, left, value)
          <=> k \in 0..(left - 1) /\ ((OffsetOf(k) \in b[WordOf(k)]) <=> value)
    <3> HIDE DEF b, left
    <3>1. QED
      BY <1>3, InIndices
  <2>5. k + s * BITS_PER_WORD \in Indices(a, length, value)
          <=> /\ k + s * BITS_PER_WORD \in 0..(length - 1)
              /\ (OffsetOf(k) \in a[WordOf(k) + s]) <=> value
    BY <2>1, InIndices
  <2>6. k \in 0..(left - 1) <=> k < left
    BY <1>3
  <2>7. k + s * BITS_PER_WORD \in 0..(length - 1) <=> k + s * BITS_PER_WORD < length
    BY <2>1
  <2> HIDE DEF b, left
  <2>8. QED
    BY <2>2, <2>3, <2>4, <2>5, <2>6, <2>7
<1>9. QED
  BY <1>3, <1>7, <1>8

\* The rest of the word of the previous position.
LEMMA RestOfWord ==
    ASSUME NEW W \in SUBSET Offsets, NEW po \in Offsets, NEW d, d = po + 1,
           NEW rest, rest = ShiftRight(W, d)
    PROVE  rest = {} <=> \A o \in W : o <= po
<1>1. \A o \in W : o \in Nat
  BY WordSize DEF Offsets
<1>2. po \in Nat
  BY WordSize DEF Offsets
<1>3. \A x : x \in rest <=> \E o \in W : o >= po + 1 /\ x = o - (po + 1)
  BY <1>2 DEF ShiftRight
<1>4. ASSUME rest = {}, NEW o \in W PROVE o <= po
  <2>1. SUFFICES ASSUME ~(o <= po) PROVE FALSE
    OBVIOUS
  <2>2. o >= po + 1
    BY <1>1, <1>2, <2>1
  <2>3. o - (po + 1) \in rest
    BY <1>3, <2>2
  <2>4. QED
    BY <1>4, <2>3
<1>5. ASSUME \A o \in W : o <= po, NEW x \in rest PROVE FALSE
  <2>1. PICK o \in W : o >= po + 1
    BY <1>3
  <2>2. QED
    BY <1>1, <1>2, <1>5, <2>1
<1>6. QED
  BY <1>4, <1>5

\* Its first bit.
LEMMA FirstOfRest ==
    ASSUME NEW W \in SUBSET Offsets, NEW po \in Offsets, NEW d, d = po + 1,
           NEW rest, rest = ShiftRight(W, d), rest # {}, NEW m, m = d + Min(rest)
    PROVE  m \in W /\ m > po /\ \A o \in W : o > po => m <= o
<1>1. \A o \in W : o \in Nat
  BY WordSize DEF Offsets
<1>2. po \in Nat
  BY WordSize DEF Offsets
<1>3. \A x : x \in rest <=> \E o \in W : o >= po + 1 /\ x = o - (po + 1)
  BY <1>2 DEF ShiftRight
<1>4. rest \subseteq Nat
  BY <1>1, <1>2, <1>3
<1>5. PICK x : x = Min(rest)
  OBVIOUS
<1>6. x \in rest /\ \A y \in rest : x <= y
  BY <1>4, <1>5, MinExists
<1>7. PICK q \in W : q >= po + 1 /\ x = q - (po + 1)
  BY <1>3, <1>6
<1>8. m = q /\ q > po
  BY <1>1, <1>2, <1>5, <1>7
<1>9. ASSUME NEW o \in W, o > po PROVE q <= o
  <2>1. o >= po + 1
    BY <1>1, <1>2, <1>9
  <2>2. o - (po + 1) \in rest
    BY <1>3, <2>1
  <2>3. x <= o - (po + 1)
    BY <1>6, <2>2
  <2>4. QED
    BY <1>1, <1>2, <1>7, <2>3
<1>10. QED
  BY <1>8, <1>9

(***************************************************************************)
(* bit_array_find_next() finds the next matching bit, and with wraparound  *)
(* the first one if there is none.                                         *)
(***************************************************************************)
LEMMA FindNext ==
    ASSUME NEW n \in Nat, NEW a \in Arrays(n), NEW value \in BOOLEAN, NEW wrap \in BOOLEAN,
           NEW length \in Nat, BIT_ARRAY_WORDS(length) <= n, NEW p \in 0..(length - 1)
    PROVE  bit_array_find_next(a, length, index_to_bit_pos(p), wrap, value)
              = RefNext(a, length, p, wrap, value)
<1> DEFINE N == BIT_ARRAY_WORDS(length)
           pw == WordOf(p)
           po == OffsetOf(p)
           incomplete == pw = length \div BITS_PER_WORD
           bits == IF incomplete THEN length % BITS_PER_WORD ELSE BITS_PER_WORD
           matching == Matching(a[pw], value)
           used == IF incomplete THEN matching \cap LowBits(length % BITS_PER_WORD) ELSE matching
           rest == ShiftRight(used, po + 1)
           later == bit_array_find_first(LaterWords(a, length, pw + 1),
                                         length - (pw + 1) * BITS_PER_WORD, value)
           I == Indices(a, length, value)
           after == {k \in I : k > p}
<1>1. /\ p \in Nat /\ p < length /\ pw \in Nat /\ po \in Offsets /\ po \in Nat
      /\ index_to_bit_pos(p) = [word |-> pw, offset |-> po] /\ Index(pw, po) = p
  BY PositionOfIndex, PositionFacts
<1>2. /\ N \in Nat /\ pw \in 0..(N - 1)
      /\ N = WordOf(length) + (IF OffsetOf(length) # 0 THEN 1 ELSE 0)
      /\ WordOf(length) = length \div BITS_PER_WORD
      /\ OffsetOf(length) = length % BITS_PER_WORD
      /\ WordOf(length) \in Nat /\ OffsetOf(length) \in Nat
      /\ OffsetOf(length) < BITS_PER_WORD
  BY WordsOfLength, PositionOfIndex, PositionFacts
<1>3. bit_pos_to_index(index_to_bit_pos(p)) = p
  BY <1>1 DEF bit_pos_to_index, Index
<1>4. bit_array_find_next(a, length, index_to_bit_pos(p), wrap, value)
         = IF po # bits - 1 /\ rest # {}
           THEN [word |-> pw, offset |-> po + 1 + Min(rest)]
           ELSE IF pw # N - 1 /\ later # NO_BIT_POS
           THEN [later EXCEPT !.word = @ + (pw + 1)]
           ELSE IF ~wrap THEN NO_BIT_POS
           ELSE bit_array_find_first(a, p + 1, value)
  <2>1. PICK prev : prev = index_to_bit_pos(p)
    OBVIOUS
  <2>2. prev.word = pw /\ prev.offset = po /\ bit_pos_to_index(prev) = p
    BY <1>1, <1>3, <2>1
  <2> HIDE DEF pw, po
  <2>3. bit_array_find_next(a, length, prev, wrap, value)
         = IF po # bits - 1 /\ rest # {}
           THEN [word |-> pw, offset |-> po + 1 + Min(rest)]
           ELSE IF pw # N - 1 /\ later # NO_BIT_POS
           THEN [later EXCEPT !.word = @ + (pw + 1)]
           ELSE IF ~wrap THEN NO_BIT_POS
           ELSE bit_array_find_first(a, p + 1, value)
    BY <2>2 DEF bit_array_find_next, count_trailing_zeros, LaterWords
  <2>4. QED
    BY <2>1, <2>3
<1>5. RefNext(a, length, p, wrap, value)
         = IF after # {} THEN PosOfMin(after) ELSE IF wrap THEN PosOfMin(I) ELSE NO_BIT_POS
  BY DEF RefNext
<1>6. \A k : k \in I <=> k \in 0..(length - 1) /\ ((OffsetOf(k) \in a[WordOf(k)]) <=> value)
  BY InIndices
<1>7. \A k \in I : k \in Nat /\ k < length /\ WordOf(k) \in Nat /\ OffsetOf(k) \in Offsets
                   /\ Index(WordOf(k), OffsetOf(k)) = k
                   /\ ((OffsetOf(k) \in a[WordOf(k)]) <=> value)
  <2>1. TAKE k \in I
  <2>2. k \in Nat /\ k < length /\ ((OffsetOf(k) \in a[WordOf(k)]) <=> value)
    BY <1>6
  <2>3. QED
    BY <2>2, PositionOfIndex
<1>8. \A o \in Offsets : o \in Nat /\ o < BITS_PER_WORD
  BY WordSize DEF Offsets
<1>9. a[pw] \subseteq Offsets
  BY <1>2 DEF Arrays
<1>10. \A o : o \in matching <=> o \in Offsets /\ ((o \in a[pw]) <=> value)
  BY <1>9 DEF Matching, Complement, WORD_MAX
<1>11. \A o \in Offsets : Index(pw, o) < length
           <=> pw < WordOf(length) \/ (pw = WordOf(length) /\ o < OffsetOf(length))
  BY <1>1, PositionInRange
<1> HIDE DEF matching, I
<1>12. \A o : o \in used <=> /\ o \in Offsets /\ ((o \in a[pw]) <=> value)
                             /\ Index(pw, o) < length
  <2>1. CASE pw = WordOf(length)
    <3>1. used = matching \cap LowBits(OffsetOf(length))
      BY <1>2, <2>1
    <3>2. \A o \in Offsets : o \in LowBits(OffsetOf(length)) <=> o < OffsetOf(length)
      BY <1>2, <1>8 DEF LowBits
    <3>3. \A o \in Offsets : Index(pw, o) < length <=> o < OffsetOf(length)
      BY <1>1, <1>2, <1>11, <2>1
    <3> HIDE DEF used
    <3>4. QED
      BY <1>10, <3>1, <3>2, <3>3
  <2>2. CASE pw # WordOf(length)
    <3>1. used = matching
      BY <1>2, <2>2
    <3>2. pw < WordOf(length)
      BY <1>1, <1>2, <2>2
    <3> HIDE DEF used
    <3>3. QED
      BY <1>10, <1>11, <3>1, <3>2
  <2>3. QED
    BY <2>1, <2>2
<1>13. \A o \in used : o <= bits - 1
  <2>1. CASE pw = WordOf(length)
    <3>1. bits = OffsetOf(length)
      BY <1>2, <2>1
    <3>2. \A o \in used : o < OffsetOf(length) /\ o \in Nat
      <4> HIDE DEF used, pw
      <4>1. QED
        BY <1>1, <1>2, <1>8, <1>11, <1>12, <2>1
    <3> HIDE DEF used, bits
    <3>3. QED
      BY <1>2, <3>1, <3>2
  <2>2. CASE pw # WordOf(length)
    <3>1. bits = BITS_PER_WORD
      BY <1>2, <2>2
    <3> HIDE DEF used, bits
    <3>2. QED
      BY <1>8, <1>12, <3>1, WordSize
  <2>3. QED
    BY <2>1, <2>2
<1> HIDE DEF used
<1>14. used \in SUBSET Offsets
  BY <1>12
<1>15. PICK d : d = po + 1 /\ rest = ShiftRight(used, d)
  OBVIOUS
<1> HIDE DEF po
<1>16. rest = {} <=> \A o \in used : o <= po
  BY <1>1, <1>14, <1>15, RestOfWord
<1>17. \A m : rest # {} /\ m = d + Min(rest)
                 => m \in used /\ m > po /\ \A o \in used : o > po => m <= o
  BY <1>1, <1>14, <1>15, FirstOfRest
<1>18. po = bits - 1 => rest = {}
  <2> HIDE DEF rest, bits
  <2>1. QED
    BY <1>13, <1>16
<1> USE DEF po
<1>19. \A k \in I : k > p <=> WordOf(k) > pw \/ (WordOf(k) = pw /\ OffsetOf(k) > po)
  <2>1. TAKE k \in I
  <2>2. p < k <=> \/ WordOf(p) < WordOf(k)
                  \/ WordOf(p) = WordOf(k) /\ OffsetOf(p) < OffsetOf(k)
    BY <1>1, <1>7, PositionOrder
  <2>3. k \in Nat /\ WordOf(k) \in Nat /\ OffsetOf(k) \in Nat
    BY <1>7, <1>8
  <2>4. QED
    BY <1>1, <2>2, <2>3
<1>20. \A k \in I : WordOf(k) = pw => OffsetOf(k) \in used
  BY <1>7, <1>12
<1>21. after \subseteq Nat
  BY <1>7
<1> HIDE DEF rest, bits
<1>22. CASE rest # {}
  <2>1. PICK m : m = po + 1 + Min(rest)
    OBVIOUS
  <2>2. m \in used /\ m > po /\ \A o \in used : o > po => m <= o
    BY <1>15, <1>22, <1>17, <2>1
  <2>3. m \in Offsets /\ ((m \in a[pw]) <=> value) /\ Index(pw, m) < length
    BY <1>12, <2>2
  <2>4. /\ Index(pw, m) \in Nat /\ WordOf(Index(pw, m)) = pw /\ OffsetOf(Index(pw, m)) = m
        /\ index_to_bit_pos(Index(pw, m)) = [word |-> pw, offset |-> m]
    BY <1>1, <2>3, IndexOfPosition
  <2>5. Index(pw, m) \in I
    BY <1>6, <2>3, <2>4
  <2>6. Index(pw, m) > p
    BY <1>19, <2>2, <2>4, <2>5
  <2>7. ASSUME NEW k \in after PROVE Index(pw, m) <= k
    <3>1. /\ k \in I /\ k \in Nat /\ WordOf(k) \in Nat /\ OffsetOf(k) \in Nat /\ m \in Nat
          /\ WordOf(k) > pw \/ (WordOf(k) = pw /\ OffsetOf(k) > po)
      BY <1>7, <1>8, <1>19, <2>3
    <3>2. WordOf(k) = pw => OffsetOf(k) \in used
      BY <1>20, <3>1
    <3>3. WordOf(k) > pw \/ (WordOf(k) = pw /\ m <= OffsetOf(k))
      BY <1>1, <2>2, <3>1, <3>2
    <3>4. k < Index(pw, m) <=> \/ WordOf(k) < pw
                               \/ WordOf(k) = pw /\ OffsetOf(k) < m
      BY <2>4, <3>1, PositionOrder
    <3>5. ~(k < Index(pw, m))
      <4> HIDE DEF pw
      <4>1. QED
        BY <1>1, <3>1, <3>3, <3>4
    <3>6. QED
      BY <2>4, <3>1, <3>5
  <2>8. Index(pw, m) \in after
    BY <2>5, <2>6
  <2>9. Min(after) = Index(pw, m)
    <3> HIDE DEF after
    <3>1. QED
      BY <1>21, <2>7, <2>8, MinIs
  <2>10. RefNext(a, length, p, wrap, value) = [word |-> pw, offset |-> m]
    <3>1. after # {}
      BY <2>8
    <3> HIDE DEF after
    <3>2. QED
      BY <1>5, <2>4, <2>9, <3>1 DEF PosOfMin
  <2>11. po # bits - 1
    BY <1>18, <1>22
  <2>12. QED
    BY <1>4, <1>22, <2>1, <2>10, <2>11
<1>23. CASE rest = {}
  <2>1. \A k \in I : k > p <=> WordOf(k) > pw
    <3>1. TAKE k \in I
    <3>2. WordOf(k) = pw => OffsetOf(k) <= po
      BY <1>20, <1>23, <1>16
    <3>3. OffsetOf(k) \in Nat
      BY <1>7, <1>8
    <3>4. QED
      BY <1>1, <1>19, <3>2, <3>3
  <2>2. CASE after = {}
    <3>1. pw # N - 1 => later = NO_BIT_POS
      <4>1. SUFFICES ASSUME pw # N - 1 PROVE later = NO_BIT_POS
        OBVIOUS
      <4>2. pw + 1 \in Nat /\ pw + 1 < N
        BY <1>1, <1>2, <4>1
      <4>3. PICK J : J = Indices(LaterWords(a, length, pw + 1),
                                 length - (pw + 1) * BITS_PER_WORD, value)
        OBVIOUS
      <4>4. /\ length - (pw + 1) * BITS_PER_WORD \in Nat /\ later = PosOfMin(J)
            /\ \A k \in Nat : k \in J <=> k + (pw + 1) * BITS_PER_WORD \in I
        BY <4>2, <4>3, LaterIndices DEF I
      <4>5. ASSUME NEW k \in J PROVE FALSE
        <5>1. k \in Nat
          BY <4>3, <4>4 DEF Indices
        <5>2. k + (pw + 1) * BITS_PER_WORD \in I
          BY <4>4, <5>1
        <5>3. WordOf(k + (pw + 1) * BITS_PER_WORD) = WordOf(k) + (pw + 1) /\ WordOf(k) \in Nat
          BY <4>2, <5>1, PositionShift, PositionFacts
        <5>4. WordOf(k + (pw + 1) * BITS_PER_WORD) > pw
          BY <1>1, <5>3
        <5>5. QED
          BY <2>1, <2>2, <5>2, <5>4
      <4>6. J = {}
        BY <4>5
      <4>7. QED
        BY <4>4, <4>6 DEF PosOfMin
    <3>2. bit_array_find_first(a, p + 1, value) = PosOfMin(I)
      <4>1. p + 1 \in Nat /\ p + 1 <= length
        BY <1>1
      <4>2. BIT_ARRAY_WORDS(p + 1) <= N /\ BIT_ARRAY_WORDS(p + 1) \in Nat
        BY <4>1, FewerWords, WordsOfLength
      <4>3. BIT_ARRAY_WORDS(p + 1) <= n
        BY <1>2, <4>2
      <4>4. bit_array_find_first(a, p + 1, value) = PosOfMin(Indices(a, p + 1, value))
        BY <4>1, <4>3, FindFirst
      <4>5. \A k : k \in Indices(a, p + 1, value)
                     <=> k \in 0..(p + 1 - 1) /\ ((OffsetOf(k) \in a[WordOf(k)]) <=> value)
        BY <4>1, InIndices
      <4>6. \A k \in I : k <= p
        BY <1>1, <1>7, <2>2
      <4>7. Indices(a, p + 1, value) = I
        <5>1. \A k : k \in 0..(p + 1 - 1) <=> k \in 0..(length - 1) /\ k <= p
          BY <1>1
        <5>2. \A k : k \in Indices(a, p + 1, value) <=> k \in I
          BY <1>6, <4>5, <4>6, <5>1
        <5>3. QED
          BY <5>2
      <4>8. QED
        BY <4>4, <4>7
    <3>3. RefNext(a, length, p, wrap, value) = IF wrap THEN PosOfMin(I) ELSE NO_BIT_POS
      BY <1>5, <2>2
    <3> HIDE DEF later, after
    <3>4. QED
      BY <1>4, <1>23, <3>1, <3>2, <3>3
  <2>3. CASE after # {}
    <3>1. PICK m : m = Min(after)
      OBVIOUS
    <3>2. m \in after /\ \A k \in after : m <= k
      BY <1>21, <2>3, <3>1, MinExists
    <3>3. m \in I /\ m \in Nat /\ m < length /\ WordOf(m) \in Nat /\ WordOf(m) > pw
      BY <1>7, <2>1, <3>2
    <3>4. pw # N - 1
      <4>1. WordOf(m) \in 0..(N - 1)
        <5>1. m \in 0..(length - 1)
          BY <3>3
        <5>2. QED
          BY <5>1, WordsOfLength
      <4>2. QED
        BY <1>1, <1>2, <3>3, <4>1
    <3>5. pw + 1 \in Nat /\ pw + 1 < N
      BY <1>1, <1>2, <3>4
    <3>6. PICK J, b, s : /\ b = LaterWords(a, length, pw + 1) /\ s = (pw + 1) * BITS_PER_WORD
                         /\ J = Indices(b, length - s, value)
      OBVIOUS
    <3>7. /\ length - s \in Nat /\ later = PosOfMin(J) /\ s \in Nat
          /\ \A k \in Nat : k \in J <=> k + s \in I
      BY <3>5, <3>6, LaterIndices, WordSize DEF I
    <3>8. m >= s
      <4>1. m < s <=> \/ WordOf(m) < WordOf(s)
                      \/ WordOf(m) = WordOf(s) /\ OffsetOf(m) < OffsetOf(s)
        BY <3>3, <3>7, PositionOrder
      <4>2. s = Index(pw + 1, 0) /\ 0 \in Offsets
        BY <3>5, <3>6, WordSize DEF Index, Offsets
      <4>3. WordOf(s) = pw + 1 /\ OffsetOf(s) = 0
        BY <3>5, <4>2, IndexOfPosition
      <4>4. OffsetOf(m) \in Nat
        BY <3>3, PositionFacts
      <4>5. ~(m < s)
        <5> HIDE DEF pw
        <5>1. QED
          BY <1>1, <3>3, <4>1, <4>3, <4>4
      <4>6. QED
        BY <3>3, <3>7, <4>5
    <3>9. m - s \in Nat /\ (m - s) + s = m
      BY <3>3, <3>7, <3>8
    <3>10. m - s \in J
      BY <3>3, <3>7, <3>9
    <3>11. J \subseteq Nat
      BY <3>6, <3>7 DEF Indices
    <3>12. ASSUME NEW k \in J PROVE m - s <= k
      <4>1. k \in Nat /\ k + s \in I
        BY <3>7, <3>11
      <4>2. WordOf(k + s) = WordOf(k) + (pw + 1) /\ WordOf(k) \in Nat
        BY <3>5, <3>6, <4>1, PositionShift, PositionFacts
      <4>3. WordOf(k + s) > pw
        BY <1>1, <4>2
      <4>4. k + s \in after
        BY <2>1, <4>1, <4>3
      <4>5. m <= k + s
        BY <3>2, <4>4
      <4>6. QED
        BY <3>3, <3>7, <4>1, <4>5
    <3>13. Min(J) = m - s
      BY <3>10, <3>11, <3>12, MinIs
    <3>14. later = [word |-> WordOf(m - s), offset |-> OffsetOf(m - s)]
      <4>1. later = index_to_bit_pos(m - s)
        BY <3>7, <3>10, <3>13 DEF PosOfMin
      <4>2. QED
        BY <3>9, <4>1, PositionOfIndex
    <3>15. WordOf(m) = WordOf(m - s) + (pw + 1) /\ OffsetOf(m) = OffsetOf(m - s)
           /\ WordOf(m - s) \in Nat
      BY <3>5, <3>6, <3>9, PositionShift, PositionFacts
    <3>16. later # NO_BIT_POS
      BY <3>14, <3>15 DEF NO_BIT_POS
    <3>17. [later EXCEPT !.word = @ + (pw + 1)] = [word |-> WordOf(m), offset |-> OffsetOf(m)]
      BY <3>14, <3>15
    <3>18. RefNext(a, length, p, wrap, value) = [word |-> WordOf(m), offset |-> OffsetOf(m)]
      <4>1. RefNext(a, length, p, wrap, value) = index_to_bit_pos(m)
        BY <1>5, <2>3, <3>1 DEF PosOfMin
      <4>2. QED
        BY <3>3, <4>1, PositionOfIndex
    <3> HIDE DEF later
    <3>19. QED
      BY <1>4, <1>23, <3>4, <3>16, <3>17, <3>18
  <2>4. QED
    BY <2>2, <2>3
<1>24. QED
  BY <1>22, <1>23

-----------------------------------------------------------------------------
(* Sums over finite sets, by the least number for which a claim fails.     *)

\* The inductions below look at the least number for which a claim fails.
LEMMA LeastNumber ==
  ASSUME NEW N, N \subseteq Nat, N # {}
  PROVE  \E n \in N : \A m \in N : n <= m
BY MinExists

\* The member of s that a sum takes first.
First(s) == CHOOSE x \in s : TRUE

\* One turn of the sum of f over a set, and the sums over all subsets of S.
SumTurn(f, g, s) == IF s = {} THEN 0 ELSE f[First(s)] + g[s \ {First(s)}]

Sums(g, f, S) == g = [s \in SUBSET S |-> SumTurn(f, g, s)]

SumOf(f, S) == MapThenSumSet(LAMBDA x : f[x], S)

\* A sum is what its last turn computes.
LEMMA SumIsTurn ==
  ASSUME NEW f, NEW S
  PROVE  SumOf(f, S) = (CHOOSE g : Sums(g, f, S))[S]
BY DEF SumOf, MapThenSumSet, MapThenFoldSet, Sums, SumTurn, First

\* What is known of the subset that is left in a turn.
LEMMA OneLess ==
  ASSUME NEW S, IsFiniteSet(S), NEW s \in SUBSET S
  PROVE  /\ IsFiniteSet(s) /\ Cardinality(s) \in Nat
         /\ Cardinality(s) = 0 <=> s = {}
         /\ s # {} => First(s) \in s
         /\ \A x \in s : /\ s \ {x} \in SUBSET S /\ Cardinality(s \ {x}) = Cardinality(s) - 1
                         /\ Cardinality(s \ {x}) \in Nat
<1>1. IsFiniteSet(s) /\ Cardinality(s) \in Nat
  BY FS_Subset, FS_CardinalityType
<1>2. Cardinality(s) = 0 <=> s = {}
  BY <1>1, FS_EmptySet
<1>3. s # {} => First(s) \in s
  BY DEF First
<1>4. ASSUME NEW x \in s
      PROVE  /\ s \ {x} \in SUBSET S /\ Cardinality(s \ {x}) = Cardinality(s) - 1
             /\ Cardinality(s \ {x}) \in Nat
  BY <1>1, FS_RemoveElement, FS_CardinalityType
<1>5. QED
  BY <1>1, <1>2, <1>3, <1>4

\* The sums over the subsets of a finite set are well defined: over the ones
\* with at most k members, by the least k for which they are not.
LEMMA SumsExist ==
  ASSUME NEW f, NEW S, IsFiniteSet(S)
  PROVE  \E g : Sums(g, f, S)
<1> DEFINE Small(k) == {s \in SUBSET S : Cardinality(s) <= k}
           Upto(g, k) == \A s \in Small(k) : g[s] = SumTurn(f, g, s)
           Bad == {k \in Nat : ~\E g : Upto(g, k)}
<1>1. ASSUME Bad # {} PROVE FALSE
  <2>1. PICK k \in Bad : \A x \in Bad : k <= x
    BY <1>1, LeastNumber
  <2>2. k \in Nat /\ ~\E g : Upto(g, k)
    BY <2>1
  <2>3. CASE k = 0
    <3>1. PICK g : g = [s \in SUBSET S |-> 0]
      OBVIOUS
    <3>2. ASSUME NEW s \in Small(k) PROVE g[s] = SumTurn(f, g, s)
      <4>1. s = {}
        BY <2>3, OneLess
      <4>2. QED
        BY <3>1, <4>1 DEF SumTurn
    <3>3. QED
      BY <2>2, <3>2
  <2>4. CASE k # 0
    <3>1. k - 1 \in Nat /\ k - 1 \notin Bad
      BY <2>1, <2>2, <2>4
    <3>2. PICK g : Upto(g, k - 1)
      BY <3>1
    <3>3. PICK h : h = [s \in SUBSET S |-> IF Cardinality(s) <= k - 1 THEN g[s] ELSE SumTurn(f, g, s)]
      OBVIOUS
    <3>4. ASSUME NEW s \in Small(k) PROVE h[s] = SumTurn(f, h, s)
      <4>1. h[s] = SumTurn(f, g, s)
        BY <3>2, <3>3
      <4>2. CASE s = {}
        BY <4>1, <4>2 DEF SumTurn
      <4>3. CASE s # {}
        <5>1. PICK r : r = s \ {First(s)}
          OBVIOUS
        <5>2. r \in SUBSET S /\ Cardinality(r) <= k - 1
          BY <2>2, <4>3, <5>1, OneLess
        <5>3. h[r] = g[r]
          BY <3>3, <5>2
        <5>4. QED
          BY <4>1, <4>3, <5>1, <5>3 DEF SumTurn
      <4>4. QED
        BY <4>2, <4>3
    <3>5. QED
      BY <2>2, <3>4
  <2>5. QED
    BY <2>3, <2>4
<1>2. Cardinality(S) \in Nat /\ \A s \in SUBSET S : s \in Small(Cardinality(S))
  BY FS_CardinalityType, FS_Subset
<1>3. PICK g : Upto(g, Cardinality(S))
  BY <1>1, <1>2
<1>4. PICK h : h = [s \in SUBSET S |-> g[s]]
  OBVIOUS
<1>5. \A s \in SUBSET S : h[s] = SumTurn(f, h, s)
  <2>1. TAKE s \in SUBSET S
  <2>2. g[s] = SumTurn(f, g, s) /\ h[s] = g[s]
    BY <1>2, <1>3, <1>4
  <2>3. s # {} => h[s \ {First(s)}] = g[s \ {First(s)}]
    BY <1>4
  <2>4. QED
    BY <2>2, <2>3 DEF SumTurn
<1>6. h = [s \in SUBSET S |-> h[s]]
  BY <1>4
<1>7. Sums(h, f, S)
  BY <1>5, <1>6, Zenon DEF Sums
<1>8. QED
  BY <1>7

\* Sums over the subsets of different sets agree where the summands do, since
\* they agree on a smallest set on which they would not.
LEMMA SumsAgree ==
  ASSUME NEW f, NEW A, IsFiniteSet(A), NEW g, Sums(g, f, A),
         NEW e, NEW B, NEW h, Sums(h, e, B),
         NEW S, S \subseteq A, S \subseteq B, \A x \in S : f[x] = e[x]
  PROVE  g[S] = h[S]
<1> DEFINE Wrong == {s \in SUBSET S : g[s] # h[s]}
           Bad == {Cardinality(s) : s \in Wrong}
<1>0. IsFiniteSet(S)
  BY FS_Subset
<1>1. SUFFICES ASSUME Wrong # {} PROVE FALSE
  OBVIOUS
<1>2. Bad \subseteq Nat /\ Bad # {}
  BY <1>0, <1>1, OneLess
<1>3. PICK n \in Bad : \A x \in Bad : n <= x
  <2> HIDE DEF Bad
  <2>1. QED
    BY <1>2, LeastNumber
<1>4. PICK s \in Wrong : n = Cardinality(s)
  BY <1>3
<1>5. s \in SUBSET A /\ s \in SUBSET B
  OBVIOUS
<1>6. g[s] = SumTurn(f, g, s)
  BY <1>5, Zenon DEF Sums
<1>7. h[s] = SumTurn(e, h, s)
  BY <1>5, Zenon DEF Sums
<1>8. CASE s = {}
  BY <1>6, <1>7, <1>8 DEF SumTurn
<1>9. CASE s # {}
  <2>1. PICK x, r : x = First(s) /\ r = s \ {First(s)}
    OBVIOUS
  <2>2. x \in s /\ r \in SUBSET S /\ Cardinality(r) = n - 1 /\ n \in Nat /\ Cardinality(r) \in Nat
    BY <1>0, <1>4, <1>9, <2>1, OneLess
  <2>3. Cardinality(r) \notin Bad
    BY <1>3, <2>2
  <2>4. g[r] = h[r]
    BY <2>2, <2>3
  <2>5. f[x] = e[x]
    BY <2>2
  <2>6. QED
    BY <1>4, <1>6, <1>7, <1>9, <2>1, <2>4, <2>5 DEF SumTurn
<1>10. QED
  BY <1>8, <1>9

\* A sum starts from nothing...
LEMMA SumEmpty ==
  ASSUME NEW f
  PROVE  SumOf(f, {}) = 0
<1>1. PICK g : g = CHOOSE h : Sums(h, f, {})
  OBVIOUS
<1>2. Sums(g, f, {})
  BY <1>1, SumsExist, FS_EmptySet
<1>3. g[{}] = SumTurn(f, g, {})
  <2>1. {} \in SUBSET {}
    OBVIOUS
  <2>2. QED
    BY <1>2, <2>1, Zenon DEF Sums
<1>4. QED
  BY <1>1, <1>3, SumIsTurn DEF SumTurn

\* ... and adds the first member to the sum over the others.
LEMMA SumFirst ==
  ASSUME NEW f, NEW S, IsFiniteSet(S), S # {}
  PROVE  First(S) \in S /\ SumOf(f, S) = f[First(S)] + SumOf(f, S \ {First(S)})
<1>1. PICK x, r : x = First(S) /\ r = S \ {First(S)}
  OBVIOUS
<1>2. x \in S /\ IsFiniteSet(r) /\ r \subseteq S
  BY <1>1, OneLess, FS_RemoveElement
<1>3. PICK g : g = CHOOSE h : Sums(h, f, S)
  OBVIOUS
<1>4. PICK q : q = CHOOSE h : Sums(h, f, r)
  OBVIOUS
<1>5. Sums(g, f, S) /\ Sums(q, f, r)
  BY <1>2, <1>3, <1>4, SumsExist
<1>6. g[r] = q[r]
  BY <1>2, <1>5, SumsAgree
<1>7. g[S] = SumTurn(f, g, S)
  <2>1. S \in SUBSET S
    OBVIOUS
  <2>2. QED
    BY <1>5, <2>1, Zenon DEF Sums
<1>8. SumOf(f, S) = g[S] /\ SumOf(f, r) = q[r]
  BY <1>3, <1>4, SumIsTurn
<1>9. QED
  BY <1>1, <1>2, <1>6, <1>7, <1>8 DEF SumTurn

\* Only the summands matter.
LEMMA SumSame ==
  ASSUME NEW f, NEW e, NEW S, IsFiniteSet(S), \A x \in S : f[x] = e[x]
  PROVE  SumOf(f, S) = SumOf(e, S)
<1>1. PICK g, h : g = (CHOOSE k : Sums(k, f, S)) /\ h = (CHOOSE k : Sums(k, e, S))
  OBVIOUS
<1>2. Sums(g, f, S) /\ Sums(h, e, S)
  BY <1>1, SumsExist
<1>3. g[S] = h[S]
  BY <1>2, SumsAgree
<1>4. QED
  BY <1>1, <1>3, SumIsTurn

\* A sum of naturals is one, by a smallest set for which it is not.
LEMMA SumNat ==
  ASSUME NEW f, NEW S, IsFiniteSet(S), \A x \in S : f[x] \in Nat
  PROVE  SumOf(f, S) \in Nat
<1> DEFINE Wrong == {s \in SUBSET S : SumOf(f, s) \notin Nat}
           Bad == {Cardinality(s) : s \in Wrong}
<1>1. SUFFICES ASSUME Wrong # {} PROVE FALSE
  OBVIOUS
<1>2. Bad \subseteq Nat /\ Bad # {}
  BY <1>1, OneLess
<1>3. PICK n \in Bad : \A x \in Bad : n <= x
  <2> HIDE DEF Bad
  <2>1. QED
    BY <1>2, LeastNumber
<1>4. PICK s \in Wrong : n = Cardinality(s)
  BY <1>3
<1>5. s # {}
  BY <1>4, SumEmpty
<1>6. PICK x, r : x = First(s) /\ r = s \ {First(s)}
  OBVIOUS
<1>7. x \in s /\ r \in SUBSET S /\ Cardinality(r) = n - 1 /\ n \in Nat /\ Cardinality(r) \in Nat
      /\ IsFiniteSet(s)
  BY <1>4, <1>5, <1>6, OneLess
<1>8. r \notin Wrong
  BY <1>3, <1>7
<1>9. SumOf(f, s) = f[x] + SumOf(f, r)
  BY <1>5, <1>6, <1>7, SumFirst
<1>10. SumOf(f, r) \in Nat /\ f[x] \in Nat
  BY <1>4, <1>7, <1>8
<1>11. SumOf(f, s) \in Nat
  BY <1>9, <1>10
<1>12. QED
  BY <1>4, <1>11

\* Any member may be taken first, by a smallest set for which that is wrong.
LEMMA SumWithout ==
  ASSUME NEW f, NEW S, IsFiniteSet(S), \A x \in S : f[x] \in Nat, NEW x \in S
  PROVE  /\ SumOf(f, S) = f[x] + SumOf(f, S \ {x})
         /\ SumOf(f, S \ {x}) \in Nat
<1> DEFINE Wrong == {s \in SUBSET S : \E y \in s : SumOf(f, s) # f[y] + SumOf(f, s \ {y})}
           Bad == {Cardinality(s) : s \in Wrong}
<1>1. \A s \in SUBSET S : SumOf(f, s) \in Nat
  BY SumNat, FS_Subset
<1>2. ASSUME Wrong # {} PROVE FALSE
  <2>1. Bad \subseteq Nat /\ Bad # {}
    BY <1>2, OneLess
  <2>2. PICK n \in Bad : \A k \in Bad : n <= k
    <3> HIDE DEF Bad
    <3>1. QED
      BY <2>1, LeastNumber
  <2>3. PICK s \in Wrong : n = Cardinality(s)
    BY <2>2
  <2>4. PICK y \in s : SumOf(f, s) # f[y] + SumOf(f, s \ {y})
    OBVIOUS
  <2>5. PICK z : z = First(s)
    OBVIOUS
  <2>6. z \in s /\ SumOf(f, s) = f[z] + SumOf(f, s \ {z})
    <3>1. IsFiniteSet(s) /\ s # {}
      BY <2>4, OneLess
    <3>2. QED
      BY <2>5, <3>1, SumFirst
  <2>7. y # z
    BY <2>4, <2>6
  <2>8. PICK a, b, c : a = s \ {y} /\ b = s \ {z} /\ c = s \ {y, z}
    OBVIOUS
  <2>9. /\ a \in SUBSET S /\ b \in SUBSET S /\ c \in SUBSET S
        /\ a \ {z} = c /\ b \ {y} = c /\ z \in a /\ y \in b
    BY <2>6, <2>7, <2>8
  <2>10. /\ Cardinality(a) \in Nat /\ Cardinality(b) \in Nat /\ n \in Nat
         /\ Cardinality(a) = n - 1 /\ Cardinality(b) = n - 1
    BY <2>3, <2>6, <2>8, OneLess
  <2>11. a \notin Wrong /\ b \notin Wrong
    <3>1. Cardinality(a) \notin Bad /\ Cardinality(b) \notin Bad
      <4> HIDE DEF Bad
      <4>1. QED
        BY <2>2, <2>10
    <3>2. QED
      BY <3>1
  <2>12. SumOf(f, a) = f[z] + SumOf(f, c) /\ SumOf(f, b) = f[y] + SumOf(f, c)
    BY <2>9, <2>11
  <2>13. f[y] \in Nat /\ f[z] \in Nat /\ SumOf(f, c) \in Nat
    BY <1>1, <2>6, <2>9
  <2>14. SumOf(f, s) = f[y] + SumOf(f, a)
    BY <2>6, <2>8, <2>12, <2>13
  <2>15. QED
    BY <2>4, <2>8, <2>14
<1>3. S \notin Wrong
  BY <1>2
<1>4. QED
  BY <1>1, <1>3

-----------------------------------------------------------------------------
(* bit_array_count().                                                      *)

\* The indices of the bits M of a word.
WordIndices(w, M) == {Index(w, o) : o \in M}

\* The bits of one more word, or of its first r, are added to those before.
LEMMA IndicesOfWord ==
    ASSUME NEW n \in Nat, NEW a \in Arrays(n), NEW value \in BOOLEAN,
           NEW w \in 0..(n - 1), NEW r \in 0..BITS_PER_WORD,
           NEW M, M = Matching(a[w], value) \cap LowBits(r),
           NEW T, T = WordIndices(w, M),
           NEW base \in Nat, base = w * BITS_PER_WORD, NEW B, B = Indices(a, base, value),
           NEW top, top = base + r, NEW U, U = Indices(a, top, value)
    PROVE  U = B \cup T /\ B \cap T = {} /\ M \subseteq Offsets
<1>1. \A o \in Offsets : o \in Nat /\ o < BITS_PER_WORD
  BY WordSize DEF Offsets
<1>2. w \in Nat /\ r \in Nat /\ r <= BITS_PER_WORD
  BY WordSize
<1>3. a[w] \subseteq Offsets
  BY DEF Arrays
<1>4. \A o : o \in M <=> o \in Offsets /\ ((o \in a[w]) <=> value) /\ o < r
  <2>1. \A o : o \in Matching(a[w], value) <=> o \in Offsets /\ ((o \in a[w]) <=> value)
    BY <1>3 DEF Matching, Complement, WORD_MAX
  <2>2. \A o \in Offsets : o \in LowBits(r) <=> o < r
    BY <1>1, <1>2 DEF LowBits
  <2>3. QED
    BY <2>1, <2>2
<1>5. \A o \in M : /\ o \in Offsets /\ ((o \in a[w]) <=> value) /\ o < r /\ o \in Nat
                   /\ Index(w, o) = base + o /\ WordOf(Index(w, o)) = w
                   /\ OffsetOf(Index(w, o)) = o
  <2>1. TAKE o \in M
  <2>2. o \in Offsets /\ ((o \in a[w]) <=> value) /\ o < r /\ o \in Nat
    BY <1>1, <1>4
  <2>3. QED
    BY <1>2, <2>2, IndexOfPosition DEF Index
<1>6. \A k, m : m \in Nat =>
         (k \in Indices(a, m, value)
             <=> k \in 0..(m - 1) /\ ((OffsetOf(k) \in a[WordOf(k)]) <=> value))
  BY InIndices
<1>7. base + r \in Nat
  BY <1>2
<1>8. ASSUME NEW k \in Indices(a, base + r, value), k \notin Indices(a, base, value)
      PROVE  k \in {Index(w, o) : o \in M}
  <2>1. k \in Nat /\ k < base + r /\ ((OffsetOf(k) \in a[WordOf(k)]) <=> value)
    BY <1>6, <1>7
  <2>2. ~(k < base)
    BY <1>6, <1>8, <2>1
  <2>3. k - base \in Nat /\ k - base < r /\ k = base + (k - base)
    BY <1>2, <2>1, <2>2
  <2>4. k - base \in Offsets
    BY <1>2, <2>3, WordSize DEF Offsets
  <2>5. k = Index(w, k - base)
    BY <2>3 DEF Index
  <2>6. WordOf(k) = w /\ OffsetOf(k) = k - base
    BY <1>2, <2>4, <2>5, IndexOfPosition
  <2>7. k - base \in M
    BY <1>4, <2>1, <2>3, <2>4, <2>6
  <2>8. QED
    BY <2>5, <2>7
<1>9. Indices(a, base, value) \subseteq Indices(a, base + r, value)
  BY <1>2, <1>6, <1>7
<1>10. ASSUME NEW o \in M
       PROVE  Index(w, o) \in Indices(a, base + r, value) /\ Index(w, o) \notin Indices(a, base, value)
  <2>1. /\ ((o \in a[w]) <=> value) /\ o < r /\ o \in Nat
        /\ Index(w, o) = base + o /\ WordOf(Index(w, o)) = w /\ OffsetOf(Index(w, o)) = o
    BY <1>5
  <2>2. Index(w, o) \in 0..(base + r - 1) /\ Index(w, o) \notin 0..(base - 1)
    BY <1>2, <2>1
  <2>3. QED
    BY <1>6, <1>7, <2>1, <2>2
<1>11. M \subseteq Offsets
  BY <1>5
<1>12. QED
  BY <1>8, <1>9, <1>10, <1>11 DEF WordIndices

\* Bits are counted one word after the other.
LEMMA CountOfWord ==
    ASSUME NEW n \in Nat, NEW a \in Arrays(n), NEW value \in BOOLEAN,
           NEW w \in 0..(n - 1), NEW r \in 0..BITS_PER_WORD
    PROVE  /\ Cardinality(Indices(a, w * BITS_PER_WORD + r, value))
                 = Cardinality(Indices(a, w * BITS_PER_WORD, value))
                   + Cardinality(Matching(a[w], value) \cap LowBits(r))
           /\ Cardinality(Matching(a[w], value) \cap LowBits(r)) \in Nat
<1>1. PICK M : M = Matching(a[w], value) \cap LowBits(r)
  OBVIOUS
<1>2. PICK base \in Nat : base = w * BITS_PER_WORD
  BY WordSize
<1>3. PICK T, top, B, U :
         /\ T = WordIndices(w, M) /\ B = Indices(a, base, value)
         /\ top = base + r /\ U = Indices(a, top, value)
  OBVIOUS
<1>4. U = B \cup T /\ B \cap T = {} /\ M \subseteq Offsets
  BY <1>1, <1>2, <1>3, IndicesOfWord
<1>5. IsFiniteSet(M)
  <2>1. IsFiniteSet(Offsets)
    BY FS_Interval, WordSize DEF Offsets
  <2>2. QED
    BY <1>4, <2>1, FS_Subset
<1>6. IsFiniteSet(B)
  <2>1. w * BITS_PER_WORD - 1 \in Int
    BY WordSize
  <2>2. IsFiniteSet(0..(w * BITS_PER_WORD - 1))
    BY <2>1, FS_Interval
  <2>3. B \subseteq 0..(w * BITS_PER_WORD - 1)
    BY <1>2, <1>3 DEF Indices
  <2>4. QED
    BY <2>2, <2>3, FS_Subset
<1>7. IsFiniteSet(T) /\ Cardinality(T) = Cardinality(M)
  <2>1. PICK f : f = [o \in M |-> Index(w, o)]
    OBVIOUS
  <2>2. f \in [M -> T]
    BY <1>3, <2>1 DEF WordIndices
  <2>3. \A x, y \in M : f[x] = f[y] => x = y
    <3>1. \A o \in M : OffsetOf(f[o]) = o
      BY <1>4, <2>1, IndexOfPosition
    <3>2. QED
      BY <3>1
  <2>4. \A t \in T : \E o \in M : f[o] = t
    BY <1>3, <2>1 DEF WordIndices
  <2>5. f \in Bijection(M, T)
    BY <2>2, <2>3, <2>4 DEF Bijection, Injection, Surjection, IsInjective
  <2>6. ExistsBijection(M, T)
    BY <2>5 DEF ExistsBijection
  <2>7. QED
    BY <1>5, <2>6, FS_Bijection
<1>8. Cardinality(U) = Cardinality(B) + Cardinality(T)
  <2>1. Cardinality(B \cup T) = Cardinality(B) + Cardinality(T) - Cardinality(B \cap T)
    BY <1>6, <1>7, FS_Union
  <2>2. Cardinality(B \cap T) = 0 /\ Cardinality(B) \in Nat /\ Cardinality(T) \in Nat
    BY <1>4, <1>6, <1>7, FS_EmptySet, FS_CardinalityType
  <2>3. QED
    BY <1>4, <2>1, <2>2
<1>9. QED
  BY <1>1, <1>2, <1>5, <1>7, <1>8, <1>3, FS_CardinalityType

(***************************************************************************)
(* bit_array_count() counts the matching bits, and none of the padding.    *)
(***************************************************************************)
LEMMA Count ==
    ASSUME NEW n \in Nat, NEW a \in Arrays(n), NEW value \in BOOLEAN,
           NEW length \in Nat, BIT_ARRAY_WORDS(length) <= n
    PROVE  bit_array_count(a, length, value) = Cardinality(Indices(a, length, value))
<1> DEFINE L == WordOf(length)
           r == OffsetOf(length)
           Ones(w) == Cardinality(Matching(a[w], value))
           full == [w \in 0..(L - 1) |-> Ones(w)]
           Below(m) == Cardinality(Indices(a, m * BITS_PER_WORD, value))
           Bad == {m \in 0..L : SumOf(full, 0..(m - 1)) # Below(m)}
<1>1. /\ L \in Nat /\ r \in Nat /\ r < BITS_PER_WORD
      /\ length = L * BITS_PER_WORD + r
      /\ L = length \div BITS_PER_WORD /\ r = length % BITS_PER_WORD
  BY PositionOfIndex, PositionFacts
<1>2. BIT_ARRAY_WORDS(length) = L + (IF r # 0 THEN 1 ELSE 0) /\ L <= n
  BY <1>1, WordsOfLength
<1>3. bit_array_count(a, length, value)
         = SumOf(full, 0..(L - 1))
           + (IF r > 0 THEN Cardinality(Matching(a[L], value) \cap LowBits(r)) ELSE 0)
  <2>1. DOMAIN full = 0..(L - 1)
    OBVIOUS
  <2>2. QED
    BY <1>1, <2>1 DEF bit_array_count, population_count, SumOf
<1>4. \A w \in 0..(L - 1) : /\ Below(w + 1) = Below(w) + Ones(w)
                            /\ Ones(w) \in Nat /\ w \in 0..(n - 1)
  <2>1. TAKE w \in 0..(L - 1)
  <2>2. w \in 0..(n - 1)
    BY <1>1, <1>2
  <2>3. BITS_PER_WORD \in 0..BITS_PER_WORD
    BY WordSize
  <2>4. Matching(a[w], value) \cap LowBits(BITS_PER_WORD) = Matching(a[w], value)
    BY <2>2 DEF Arrays, Matching, Complement, WORD_MAX, LowBits, Offsets
  <2>5. (w + 1) * BITS_PER_WORD = w * BITS_PER_WORD + BITS_PER_WORD
    BY WordSize
  <2>6. QED
    BY <2>2, <2>3, <2>4, <2>5, CountOfWord
<1> HIDE DEF Below, Ones
<1>5. Below(0) = 0
  <2>1. 0 * BITS_PER_WORD = 0
    BY WordSize
  <2>2. Indices(a, 0, value) = {}
    BY DEF Indices
  <2>3. QED
    BY <2>1, <2>2, FS_EmptySet DEF Below
<1>6. ASSUME Bad # {} PROVE FALSE
  <2>1. Bad \subseteq Nat
    BY <1>1
  <2>2. PICK m \in Bad : \A k \in Bad : m <= k
    <3> HIDE DEF Bad
    <3>1. QED
      BY <1>6, <2>1, LeastNumber
  <2>3. m \in 0..L /\ SumOf(full, 0..(m - 1)) # Below(m)
    BY <2>2
  <2>4. m # 0
    <3>1. 0..(0 - 1) = {}
      OBVIOUS
    <3>2. SumOf(full, {}) = 0
      BY SumEmpty
    <3>3. QED
      BY <1>5, <2>3, <3>1, <3>2
  <2>5. m - 1 \in 0..L /\ m - 1 \in 0..(L - 1) /\ m - 1 \notin Bad
    BY <1>1, <2>2, <2>3, <2>4
  <2>6. SumOf(full, 0..(m - 1 - 1)) = Below(m - 1)
    BY <2>5
  <2>7. PICK S : S = 0..(m - 1)
    OBVIOUS
  <2>8. IsFiniteSet(S) /\ m - 1 \in S /\ S \ {m - 1} = 0..(m - 1 - 1) /\ S \subseteq 0..(L - 1)
    <3>1. IsFiniteSet(S)
      BY <1>1, <2>3, <2>7, FS_Interval
    <3>2. QED
      BY <1>1, <2>3, <2>4, <2>7, <3>1
  <2>9. \A w \in S : full[w] \in Nat
    BY <1>4, <2>8
  <2>10. full[m - 1] = Ones(m - 1)
    BY <2>5
  <2> HIDE DEF full
  <2>11. SumOf(full, S) = full[m - 1] + SumOf(full, S \ {m - 1})
    <3>1. PICK x \in S : x = m - 1
      BY <2>8
    <3>2. /\ SumOf(full, S) = full[x] + SumOf(full, S \ {x})
          /\ SumOf(full, S \ {x}) \in Nat
      BY <2>8, <2>9, SumWithout
    <3>3. QED
      BY <3>1, <3>2
  <2>12. Below(m - 1 + 1) = Below(m - 1) + Ones(m - 1) /\ Ones(m - 1) \in Nat
    BY <1>4, <2>5
  <2>13. m - 1 + 1 = m
    BY <1>1, <2>3
  <2>14. SumOf(full, S \ {m - 1}) \in Nat
    <3>1. PICK x \in S : x = m - 1
      BY <2>8
    <3>2. SumOf(full, S \ {x}) \in Nat
      BY <2>8, <2>9, SumWithout
    <3>3. QED
      BY <3>1, <3>2
  <2>15. SumOf(full, S) = Below(m)
    <3>1. SumOf(full, S \ {m - 1}) = Below(m - 1)
      BY <2>6, <2>8
    <3>2. SumOf(full, S) = Ones(m - 1) + Below(m - 1) /\ Below(m - 1) \in Nat
      BY <2>10, <2>11, <2>14, <3>1
    <3>3. Below(m) = Below(m - 1) + Ones(m - 1)
      BY <2>12, <2>13
    <3>4. QED
      BY <2>12, <3>2, <3>3
  <2>16. QED
    BY <2>3, <2>7, <2>15
<1>7. SumOf(full, 0..(L - 1)) = Below(L)
  <2>1. L \in 0..L
    BY <1>1
  <2> HIDE DEF full, L
  <2>2. QED
    BY <1>6, <2>1
<1>8. CASE r = 0
  <2>1. L * BITS_PER_WORD = length
    <3>1. L * BITS_PER_WORD \in Nat
      BY <1>1, WordSize
    <3>2. QED
      BY <1>1, <1>8, <3>1
  <2>2. Cardinality(Indices(a, length, value)) = Below(L) /\ Below(L) \in Nat
    <3>1. Cardinality(Indices(a, length, value)) = Below(L)
      BY <2>1 DEF Below
    <3>2. IsFiniteSet(0..(length - 1))
      BY FS_Interval
    <3>3. Indices(a, length, value) \in SUBSET (0..(length - 1))
      BY DEF Indices
    <3>4. QED
      BY <3>1, <3>2, <3>3, FS_Subset, FS_CardinalityType
  <2> HIDE DEF full
  <2>3. QED
    BY <1>3, <1>7, <1>8, <2>2
<1>9. CASE r > 0
  <2>1. L \in 0..(n - 1) /\ r \in 0..BITS_PER_WORD
    <3> HIDE DEF L, r
    <3>1. L + 1 <= n
      BY <1>1, <1>2, <1>9
    <3>2. QED
      BY <1>1, <3>1, WordSize
  <2>2. Cardinality(Indices(a, L * BITS_PER_WORD + r, value))
           = Cardinality(Indices(a, L * BITS_PER_WORD, value))
             + Cardinality(Matching(a[L], value) \cap LowBits(r))
    BY <2>1, CountOfWord
  <2> HIDE DEF full, L, r
  <2>3. QED
    BY <1>1, <1>3, <1>7, <1>9, <2>2 DEF Below
<1>10. QED
  BY <1>1, <1>8, <1>9

-----------------------------------------------------------------------------
(* The configuration.                                                      *)

\* A share of a cache is never empty.
LEMMA CapacityPositive ==
    ASSUME NEW caches, caches # {},
           \A c \in caches : /\ c.size \in Nat /\ c.weight \in Nat \ {0}
                             /\ c.size >= 2 * c.weight
    PROVE  /\ smallest_cache_capacity(caches) \in Nat
           /\ smallest_cache_capacity(caches) > 0
<1> DEFINE S == {c.size \div c.weight : c \in caches}
<1>1. ASSUME NEW s \in Nat, NEW w \in Nat, w > 0, s >= 2 * w
      PROVE  s \div w \in Nat /\ s \div w >= 2
  <2>1. PICK q \in Nat : q = s \div w
    BY <1>1, Division
  <2>2. s % w \in Nat /\ s % w < w /\ s = q * w + (s % w)
    BY <1>1, <2>1, Division
  <2>3. q # 0
    BY <1>1, <2>2
  <2>4. q # 1
    BY <1>1, <2>2
  <2>5. QED
    BY <2>1, <2>3, <2>4
<1>2. S \subseteq Nat /\ \A x \in S : x >= 2
  <2>1. ASSUME NEW c \in caches
        PROVE  c.size \div c.weight \in Nat /\ c.size \div c.weight >= 2
    <3>1. PICK s \in Nat, w \in Nat : s = c.size /\ w = c.weight /\ w > 0 /\ s >= 2 * w
      OBVIOUS
    <3>2. QED
      BY <1>1, <3>1
  <2>2. QED
    BY <2>1
<1>3. S # {}
  OBVIOUS
<1>4. PICK m : m = Min(S)
  OBVIOUS
<1> HIDE DEF S
<1>5. m \in Nat /\ m >= 2
  BY <1>2, <1>3, <1>4, MinExists
<1>6. smallest_cache_capacity(caches) = (8 * m) \div 10
  BY <1>4 DEF smallest_cache_capacity, S
<1>7. QED
  BY <1>5, <1>6

\* Sizes are rounded up to whole pages.
LEMMA RoundedUp ==
    ASSUME NEW s \in Nat, s > 0, NEW r,
           r = IF s % PageSize # 0 THEN s + PageSize - (s % PageSize) ELSE s
    PROVE  r \in Nat /\ r > 0 /\ r % PageSize = 0 /\ s <= r /\ r <= s + PageSize - 1
<1>1. PageSize \in Nat /\ PageSize > 0
  BY BufferAssumption
<1>2. PICK q \in Nat, m \in Nat : /\ q = s \div PageSize /\ m = s % PageSize
                                  /\ m < PageSize /\ s = q * PageSize + m
  BY <1>1, Division
<1>3. CASE m = 0
  BY <1>1, <1>2, <1>3
<1>4. CASE m # 0
  <2>1. r = s + PageSize - m
    BY <1>2, <1>4
  <2>2. (q + 1) * PageSize = q * PageSize + PageSize /\ q * PageSize \in Nat
    BY <1>1
  <2>3. r = (q + 1) * PageSize + 0
    BY <1>1, <1>2, <2>1, <2>2
  <2>4. r % PageSize = 0
    <3>1. q + 1 \in Nat /\ 0 \in Nat /\ 0 < PageSize
      BY <1>1
    <3>2. ((q + 1) * PageSize + 0) % PageSize = 0
      BY <1>1, <3>1, DivisionUnique
    <3>3. QED
      BY <2>3, <3>2
  <2>5. r \in Nat /\ r > 0 /\ s <= r /\ r <= s + PageSize - 1
    BY <1>1, <1>2, <1>4, <2>1
  <2>6. QED
    BY <2>4, <2>5
<1>5. QED
  BY <1>3, <1>4

\* DIV_CEIL() is the smallest number of parts that is enough.
LEMMA CeilDivision ==
    ASSUME NEW num \in Nat, num > 0, NEW d \in Nat, d > 0, NEW c, c = DIV_CEIL(num, d)
    PROVE  c \in Nat /\ c > 0 /\ (c - 1) * d < num /\ c * d >= num
<1>1. PICK q \in Nat, m \in Nat : /\ q = num \div d /\ m = num % d
                                  /\ m < d /\ num = q * d + m
  BY Division
<1>2. PICK p \in Nat : p = q * d
  OBVIOUS
<1>3. CASE m = 0
  <2>1. c = q
    BY <1>1, <1>3 DEF DIV_CEIL
  <2>2. q # 0
    BY <1>1, <1>3
  <2>3. (q - 1) * d = p - d
    BY <1>2
  <2>4. QED
    BY <1>1, <1>2, <1>3, <2>1, <2>2, <2>3
<1>4. CASE m # 0
  <2>1. c = q + 1
    BY <1>1, <1>4 DEF DIV_CEIL
  <2>2. (q + 1) * d = p + d /\ (c - 1) * d = p
    BY <1>2, <2>1
  <2>3. QED
    BY <1>1, <1>2, <1>4, <2>1, <2>2
<1>5. QED
  BY <1>3, <1>4

\* What finish_configuration() settles on, as DefaultsFitCaches has it.
Fits(asked, cpus, size, count) ==
    LET share == smallest_cache_capacity({c.l2 : c \in cpus})
    IN  /\ size > 0 /\ size % PageSize = 0
        /\ size \in asked.buffer_size..(Max({asked.buffer_size,
                      smallest_cache_capacity({c.l1 : c \in cpus})}) + PageSize - 1)
        /\ count \in 1..UDIPE_MAX_BUFFERS
        /\ asked.buffer_count = 0 =>
              /\ (count - 1) * size < share
              /\ count < UDIPE_MAX_BUFFERS => count * size >= share

LEMMA ConfigurationFits ==
    ASSUME NEW asked \in Callbacks \cup {NoConfig}, NEW cpus \in Cpusets,
           NEW size, size = FinishSize(asked.buffer_size, cpus),
           NEW count, count = FinishCount(asked.buffer_count, size, cpus)
    PROVE  /\ size \in Nat /\ size > 0 /\ count \in Nat
           /\ count <= UDIPE_MAX_BUFFERS => Fits(asked, cpus, size, count)
<1>1. PageSize \in Nat /\ PageSize > 0 /\ UDIPE_MAX_BUFFERS \in Nat /\ UDIPE_MAX_BUFFERS > 0
  BY BufferAssumption
<1>2. PICK asize \in Nat, acount \in Nat :
         asize = asked.buffer_size /\ acount = asked.buffer_count
  BY BufferAssumption DEF NoConfig
<1>3. PICK l1 : l1 = smallest_cache_capacity({c.l1 : c \in cpus})
  OBVIOUS
<1>4. PICK l2 : l2 = smallest_cache_capacity({c.l2 : c \in cpus})
  OBVIOUS
<1>5. l1 \in Nat /\ l1 > 0
  <2>1. {c.l1 : c \in cpus} # {}
    BY BufferAssumption
  <2>2. \A x \in {c.l1 : c \in cpus} : /\ x.size \in Nat /\ x.weight \in Nat \ {0}
                                       /\ x.size >= 2 * x.weight
    BY BufferAssumption
  <2>3. QED
    BY <1>3, <2>1, <2>2, CapacityPositive
<1>6. l2 \in Nat /\ l2 > 0
  <2>1. {c.l2 : c \in cpus} # {}
    BY BufferAssumption
  <2>2. \A x \in {c.l2 : c \in cpus} : /\ x.size \in Nat /\ x.weight \in Nat \ {0}
                                       /\ x.size >= 2 * x.weight
    BY BufferAssumption
  <2>3. QED
    BY <1>4, <2>1, <2>2, CapacityPositive
<1>7. PICK base \in Nat : base = (IF asize = 0 THEN l1 ELSE asize) /\ base > 0
  BY <1>5
<1>8. size = IF base % PageSize # 0 THEN base + PageSize - (base % PageSize) ELSE base
  BY <1>2, <1>3, <1>7 DEF FinishSize
<1>9. /\ size \in Nat /\ size > 0 /\ size % PageSize = 0
      /\ base <= size /\ size <= base + PageSize - 1
  BY <1>7, <1>8, RoundedUp
<1>10. PICK top \in Nat : top = Max({asize, l1}) /\ top >= asize /\ top >= l1
  BY <1>5, MaxOfTwo
<1>11. size \in asize..(top + PageSize - 1)
  BY <1>1, <1>5, <1>7, <1>9, <1>10
<1>12. PICK c : c = DIV_CEIL(l2, size)
  OBVIOUS
<1>13. c \in Nat /\ c > 0 /\ (c - 1) * size < l2 /\ c * size >= l2
  BY <1>6, <1>9, <1>12, CeilDivision
<1>14. count = IF acount # 0 THEN acount
               ELSE IF c <= UDIPE_MAX_BUFFERS THEN c ELSE UDIPE_MAX_BUFFERS
  BY <1>2, <1>4, <1>12 DEF FinishCount
<1>15. count \in Nat /\ count > 0
  BY <1>1, <1>13, <1>14
<1>16. ASSUME acount = 0
       PROVE  /\ (count - 1) * size < l2
              /\ count < UDIPE_MAX_BUFFERS => count * size >= l2
  <2>1. CASE c <= UDIPE_MAX_BUFFERS
    <3>1. count = c
      BY <1>14, <1>16, <2>1
    <3>2. QED
      BY <1>13, <3>1
  <2>2. CASE ~(c <= UDIPE_MAX_BUFFERS)
    <3>1. count = UDIPE_MAX_BUFFERS
      BY <1>14, <1>16, <2>2
    <3>2. count - 1 <= c - 1 /\ count - 1 \in Nat /\ c - 1 \in Nat
      BY <1>1, <1>13, <2>2, <3>1
    <3>3. \A x, y \in Nat : x <= y => x * size <= y * size
      BY <1>9
    <3>4. (count - 1) * size <= (c - 1) * size
      BY <3>2, <3>3
    <3>5. (count - 1) * size \in Int /\ (c - 1) * size \in Int
      BY <1>9, <3>2
    <3>6. (count - 1) * size < l2
      BY <1>6, <1>13, <3>4, <3>5
    <3>7. QED
      BY <1>1, <3>1, <3>6
  <2>3. QED
    BY <2>1, <2>2
<1>17. QED
  BY <1>1, <1>2, <1>3, <1>4, <1>9, <1>10, <1>11, <1>15, <1>16 DEF Fits

-----------------------------------------------------------------------------
(* The bits as a set of indices.                                           *)

Bit(a, k) == OffsetOf(k) \in a[WordOf(k)]
NumWords == BIT_ARRAY_WORDS(UDIPE_MAX_BUFFERS)
Buffers == 0..(UDIPE_MAX_BUFFERS - 1)

\* Exactly the first c buffers that are not in h are available.
Exact(a, c, h) == \A k \in Buffers : Bit(a, k) <=> k < c /\ k \notin h

LEMMA Dimensions ==
    /\ UDIPE_MAX_BUFFERS \in Nat /\ UDIPE_MAX_BUFFERS > 0
    /\ NumWords \in Nat /\ Words = 0..(NumWords - 1)
    /\ \A k \in Buffers : k \in Nat /\ WordOf(k) \in 0..(NumWords - 1)
    /\ BIT_ARRAY_START = index_to_bit_pos(0)
<1>1. UDIPE_MAX_BUFFERS \in Nat /\ UDIPE_MAX_BUFFERS > 0
  BY BufferAssumption
<1>2. /\ NumWords \in Nat
      /\ \A k \in 0..(UDIPE_MAX_BUFFERS - 1) : WordOf(k) \in 0..(NumWords - 1)
  BY <1>1, WordsOfLength DEF NumWords
<1>3. 0 * BITS_PER_WORD + 0 = 0
  BY WordSize
<1>4. 0 \div BITS_PER_WORD = 0 /\ 0 % BITS_PER_WORD = 0
  BY <1>3, WordSize, DivisionUnique
<1>5. BIT_ARRAY_START = index_to_bit_pos(0)
  BY <1>4 DEF BIT_ARRAY_START, index_to_bit_pos
<1>6. QED
  BY <1>1, <1>2, <1>5 DEF Buffers, Words, NumWords

LEMMA SetRangeOfBits ==
    ASSUME NEW a \in Arrays(NumWords), NEW value \in BOOLEAN,
           NEW i \in Nat, NEW j \in Nat, i <= j,
           NEW b, b = bit_array_range_set(a, index_to_bit_pos(i),
                                             index_to_bit_pos(j), value)
    PROVE  /\ b \in Arrays(NumWords)
           /\ \A k \in Buffers : Bit(b, k) <=> IF i <= k /\ k < j THEN value ELSE Bit(a, k)
<1>1. /\ b \in Arrays(NumWords)
      /\ \A w \in 0..(NumWords - 1), o \in Offsets :
            (o \in b[w]) <=> IF i <= Index(w, o) /\ Index(w, o) < j
                             THEN value ELSE o \in a[w]
  BY Dimensions, RangeSet
<1>2. ASSUME NEW k \in Buffers
      PROVE  Bit(b, k) <=> IF i <= k /\ k < j THEN value ELSE Bit(a, k)
  <2>1. k \in Nat /\ WordOf(k) \in 0..(NumWords - 1)
    BY Dimensions
  <2>2. OffsetOf(k) \in Offsets /\ Index(WordOf(k), OffsetOf(k)) = k
    BY <2>1, PositionOfIndex
  <2>3. QED
    BY <1>1, <2>1, <2>2 DEF Bit
<1>3. QED
  BY <1>1, <1>2

LEMMA SetOneBit ==
    ASSUME NEW a \in Arrays(NumWords), NEW value \in BOOLEAN, NEW i \in Buffers,
           NEW b, b = bit_array_set(a, index_to_bit_pos(i), value)
    PROVE  /\ b \in Arrays(NumWords)
           /\ \A k \in Buffers : Bit(b, k) <=> IF k = i THEN value ELSE Bit(a, k)
<1>1. i \in Nat /\ WordOf(i) \in 0..(NumWords - 1) /\ NumWords \in Nat
  BY Dimensions
<1>2. /\ b \in Arrays(NumWords)
      /\ \A w \in 0..(NumWords - 1), o \in Offsets :
            (o \in b[w]) <=> IF Index(w, o) = i THEN value ELSE o \in a[w]
  BY <1>1, SetBit
<1>3. ASSUME NEW k \in Buffers
      PROVE  Bit(b, k) <=> IF k = i THEN value ELSE Bit(a, k)
  <2>1. k \in Nat /\ WordOf(k) \in 0..(NumWords - 1)
    BY Dimensions
  <2>2. OffsetOf(k) \in Offsets /\ Index(WordOf(k), OffsetOf(k)) = k
    BY <2>1, PositionOfIndex
  <2>3. QED
    BY <1>2, <2>1, <2>2 DEF Bit
<1>4. QED
  BY <1>2, <1>3

\* AvailabilityExact, bit by bit.
LEMMA ExactBits ==
    ASSUME NEW a, NEW c \in 0..UDIPE_MAX_BUFFERS, NEW h
    PROVE  Indices(a, UDIPE_MAX_BUFFERS, TRUE) = (0..(c - 1)) \ h <=> Exact(a, c, h)
<1>1. \A k : k \in Indices(a, UDIPE_MAX_BUFFERS, TRUE) <=> k \in Buffers /\ Bit(a, k)
  BY Dimensions, InIndices DEF Bit, Buffers
<1>2. \A k : k \in 0..(c - 1) <=> k \in Buffers /\ k < c
  BY Dimensions DEF Buffers
<1>3. QED
  BY <1>1, <1>2 DEF Exact

-----------------------------------------------------------------------------
(***************************************************************************)
(* The inductive invariant.  AllocatorConsistent says nothing of the       *)
(* client's buffers when there is no pool, nor that they are buffers of    *)
(* the pool when there is one: what Initialize and Finalize rely on.       *)
(***************************************************************************)
AInv ==
    /\ AllocatorConsistent
    /\ phase = "off" => config = NoConfig /\ held = {} /\ returned = NoCall
    /\ phase = "on" => held \subseteq 0..(config.buffer_count - 1)

\* What the invariant says while there is a pool.
LEMMA WhileOn ==
    ASSUME AInv, phase = "on"
    PROVE  /\ buffer_availability \in Arrays(NumWords)
           /\ config.buffer_count \in Nat /\ config.buffer_count > 0
           /\ config.buffer_count <= UDIPE_MAX_BUFFERS
           /\ Exact(buffer_availability, config.buffer_count, held)
           /\ held \subseteq 0..(config.buffer_count - 1)
           /\ held \subseteq Buffers
<1>1. TypeOK /\ AvailabilityExact /\ DefaultsFitCaches
  BY DEF AInv, AllocatorConsistent
<1>2. buffer_availability \in Arrays(NumWords)
  BY <1>1, Dimensions DEF TypeOK, Arrays
<1>3. config.buffer_count \in 1..UDIPE_MAX_BUFFERS
  BY <1>1 DEF DefaultsFitCaches
<1>4. /\ config.buffer_count \in Nat /\ config.buffer_count > 0
      /\ config.buffer_count <= UDIPE_MAX_BUFFERS
  BY <1>3, Dimensions
<1>5. Indices(buffer_availability, UDIPE_MAX_BUFFERS, TRUE)
         = (0..(config.buffer_count - 1)) \ held
  BY <1>1 DEF AvailabilityExact
<1>6. config.buffer_count \in 0..UDIPE_MAX_BUFFERS
  BY <1>4, Dimensions
<1>7. Exact(buffer_availability, config.buffer_count, held)
  BY <1>5, <1>6, ExactBits
<1>8. held \subseteq 0..(config.buffer_count - 1)
  BY DEF AInv
<1>9. held \subseteq Buffers
  BY <1>1 DEF TypeOK, Buffers
<1>10. QED
  BY <1>2, <1>4, <1>7, <1>8, <1>9

LEMMA InitHolds == Init => AInv
<1> SUFFICES ASSUME Init
             PROVE  AInv
  OBVIOUS
<1> USE DEF Init
<1>1. TypeOK
  BY Dimensions DEF TypeOK, NoConfig, Zeroed, NoOrigin, NULL, NoCall
<1>2. AvailabilityExact
  <2>1. Zeroed \in Arrays(NumWords)
    BY Dimensions DEF Zeroed, Arrays
  <2>2. \A k \in Buffers : ~Bit(Zeroed, k)
    BY Dimensions DEF Zeroed, Bit
  <2>3. \A k \in Buffers : ~(k < 0)
    BY Dimensions DEF Buffers
  <2>4. Exact(Zeroed, 0, {})
    BY <2>2, <2>3 DEF Exact
  <2>5. 0 \in 0..UDIPE_MAX_BUFFERS
    BY Dimensions
  <2>6. Indices(Zeroed, UDIPE_MAX_BUFFERS, TRUE) = (0..(0 - 1)) \ {}
    BY <2>4, <2>5, ExactBits
  <2>7. QED
    BY <2>6 DEF AvailabilityExact, NoConfig
<1>3. DefaultsFitCaches
  BY DEF DefaultsFitCaches
<1>4. RejectedOnlyWhenExhausted
  BY DEF RejectedOnlyWhenExhausted, NoCall, NULL
<1>5. QED
  BY <1>1, <1>2, <1>3, <1>4 DEF AInv, AllocatorConsistent

\* The two ways out of Initialize.
InitializeFails ==
    /\ phase = "off" /\ phase' = "dead"
    /\ UNCHANGED <<config, origin, buffer_availability, held, returned>>

LEMMA FailureKept ==
    ASSUME AInv, InitializeFails
    PROVE  AInv'
<1>1. TypeOK'
  BY DEF AInv, AllocatorConsistent, TypeOK, InitializeFails
<1>2. AvailabilityExact' /\ DefaultsFitCaches'
  BY DEF InitializeFails, AvailabilityExact, DefaultsFitCaches
<1>3. RejectedOnlyWhenExhausted'
  BY DEF AInv, InitializeFails, RejectedOnlyWhenExhausted, NULL, NoCall
<1>4. QED
  BY <1>1, <1>2, <1>3 DEF AInv, AllocatorConsistent, InitializeFails

\* A pool of `count` buffers of which nobody holds any.
InitializeSucceeds(asked, cpus, size, count) ==
    LET end == index_to_bit_pos(count)
    IN  /\ phase = "off" /\ phase' = "on"
        /\ config' = [buffer_size |-> size, buffer_count |-> count]
        /\ origin' = [asked |-> asked, cpus |-> cpus]
        /\ buffer_availability' = bit_array_range_set(
              bit_array_range_set(Zeroed, BIT_ARRAY_START, end, TRUE),
              end, bit_array_end(UDIPE_MAX_BUFFERS), FALSE)
        /\ UNCHANGED <<held, returned>>

LEMMA InitializeCases ==
    ASSUME Initialize
    PROVE  \/ InitializeFails
           \/ \E asked \in Callbacks \cup {NoConfig}, cpus \in Cpusets :
                 \E size, count :
                    /\ size = FinishSize(asked.buffer_size, cpus)
                    /\ count = FinishCount(asked.buffer_count, size, cpus)
                    /\ ~(count > UDIPE_MAX_BUFFERS)
                    /\ InitializeSucceeds(asked, cpus, size, count)
<1>1. PICK asked \in Callbacks \cup {NoConfig}, cpus \in Cpusets :
         LET size == FinishSize(asked.buffer_size, cpus)
             count == FinishCount(asked.buffer_count, size, cpus)
             end == index_to_bit_pos(count)
             available == bit_array_range_set(Zeroed, BIT_ARRAY_START, end, TRUE)
         IN  IF count > UDIPE_MAX_BUFFERS
             THEN phase' = "dead" /\ UNCHANGED <<config, origin, buffer_availability>>
             ELSE /\ phase' = "on"
                  /\ config' = [buffer_size |-> size, buffer_count |-> count]
                  /\ origin' = [asked |-> asked, cpus |-> cpus]
                  /\ buffer_availability' = bit_array_range_set(available, end,
                        bit_array_end(UDIPE_MAX_BUFFERS), FALSE)
  BY DEF Initialize
<1>2. phase = "off" /\ UNCHANGED <<held, returned>>
  BY DEF Initialize
<1>3. PICK size : size = FinishSize(asked.buffer_size, cpus)
  OBVIOUS
<1>4. PICK count : count = FinishCount(asked.buffer_count, size, cpus)
  OBVIOUS
<1>5. CASE count > UDIPE_MAX_BUFFERS
  BY <1>1, <1>2, <1>3, <1>4, <1>5 DEF InitializeFails
<1>6. CASE ~(count > UDIPE_MAX_BUFFERS)
  <2>1. InitializeSucceeds(asked, cpus, size, count)
    BY <1>1, <1>2, <1>3, <1>4, <1>6 DEF InitializeSucceeds
  <2>2. QED
    BY <1>3, <1>4, <1>6, <2>1
<1>7. QED
  BY <1>5, <1>6

LEMMA SuccessKept ==
    ASSUME AInv, NEW asked \in Callbacks \cup {NoConfig}, NEW cpus \in Cpusets,
           NEW size, size = FinishSize(asked.buffer_size, cpus),
           NEW count, count = FinishCount(asked.buffer_count, size, cpus),
           ~(count > UDIPE_MAX_BUFFERS),
           InitializeSucceeds(asked, cpus, size, count)
    PROVE  AInv' /\ count \in 1..UDIPE_MAX_BUFFERS
<1>1. size \in Nat /\ size > 0 /\ count \in Nat /\ count <= UDIPE_MAX_BUFFERS
      /\ Fits(asked, cpus, size, count)
  BY ConfigurationFits, Dimensions
<1>2. count \in 1..UDIPE_MAX_BUFFERS
  BY <1>1 DEF Fits
<1>3. /\ phase = "off" /\ phase' = "on"
      /\ config' = [buffer_size |-> size, buffer_count |-> count]
      /\ origin' = [asked |-> asked, cpus |-> cpus]
      /\ held' = held /\ returned' = returned
  BY DEF InitializeSucceeds
<1>4. held = {} /\ returned = NoCall
  BY <1>3 DEF AInv
<1>5. PICK a : a = Zeroed /\ a \in Arrays(NumWords)
  <2>1. Zeroed \in Arrays(NumWords)
    BY Dimensions DEF Zeroed, Arrays
  <2>2. QED
    BY <2>1
<1>6. PICK a1 : a1 = bit_array_range_set(a, index_to_bit_pos(0), index_to_bit_pos(count), TRUE)
  OBVIOUS
<1>7. /\ a1 \in Arrays(NumWords)
      /\ \A k \in Buffers : Bit(a1, k) <=> IF 0 <= k /\ k < count THEN TRUE ELSE Bit(a, k)
  <2>1. PICK value \in BOOLEAN : value = TRUE
    OBVIOUS
  <2>2. a1 = bit_array_range_set(a, index_to_bit_pos(0), index_to_bit_pos(count), value)
    BY <1>6, <2>1
  <2>3. 0 \in Nat /\ 0 <= count
    BY <1>1
  <2>4. /\ a1 \in Arrays(NumWords)
        /\ \A k \in Buffers : Bit(a1, k) <=> IF 0 <= k /\ k < count THEN value ELSE Bit(a, k)
    BY <1>1, <1>5, <2>2, <2>3, SetRangeOfBits
  <2>5. QED
    BY <2>1, <2>4
<1>8. PICK a2 : a2 = bit_array_range_set(a1, index_to_bit_pos(count),
                                         index_to_bit_pos(UDIPE_MAX_BUFFERS), FALSE)
  OBVIOUS
<1>9. /\ a2 \in Arrays(NumWords)
      /\ \A k \in Buffers : Bit(a2, k) <=> IF count <= k /\ k < UDIPE_MAX_BUFFERS
                                           THEN FALSE ELSE Bit(a1, k)
  <2>1. PICK value \in BOOLEAN : value = FALSE
    OBVIOUS
  <2>2. a2 = bit_array_range_set(a1, index_to_bit_pos(count),
                                 index_to_bit_pos(UDIPE_MAX_BUFFERS), value)
    BY <1>8, <2>1
  <2>3. /\ a2 \in Arrays(NumWords)
        /\ \A k \in Buffers : Bit(a2, k) <=> IF count <= k /\ k < UDIPE_MAX_BUFFERS
                                             THEN value ELSE Bit(a1, k)
    BY <1>1, <1>7, <2>2, SetRangeOfBits, Dimensions
  <2>4. QED
    BY <2>1, <2>3
<1>10. buffer_availability' = a2
  BY <1>5, <1>6, <1>8, Dimensions DEF InitializeSucceeds, bit_array_end
<1>11. Exact(a2, count, held)
  <2>1. ASSUME NEW k \in Buffers
        PROVE  Bit(a2, k) <=> k < count
    <3>1. k \in Nat /\ k < UDIPE_MAX_BUFFERS
      BY Dimensions DEF Buffers
    <3>2. CASE k < count
      BY <1>1, <1>7, <1>9, <3>1, <3>2
    <3>3. CASE ~(k < count)
      BY <1>1, <1>9, <3>1, <3>3
    <3>4. QED
      BY <3>2, <3>3
  <2>2. QED
    BY <1>4, <2>1 DEF Exact
<1>12. config'.buffer_size = size /\ config'.buffer_count = count
       /\ origin'.asked = asked /\ origin'.cpus = cpus
  BY <1>3
<1>13. TypeOK'
  <2>1. cpus # {}
    BY BufferAssumption
  <2>2. origin' # NoOrigin
    BY <1>12, <2>1 DEF NoOrigin
  <2>3. config' # NoConfig
    BY <1>1, <1>12 DEF NoConfig
  <2>4. config' \in [buffer_size : Nat, buffer_count : 0..UDIPE_MAX_BUFFERS]
    BY <1>1, <1>3, Dimensions
  <2>5. buffer_availability' \in [Words -> SUBSET Offsets]
    BY <1>9, <1>10, Dimensions DEF Arrays
  <2>6. QED
    BY <1>3, <1>4, <2>2, <2>3, <2>4, <2>5 DEF TypeOK
<1>14. AvailabilityExact'
  <2>1. count \in 0..UDIPE_MAX_BUFFERS
    BY <1>1, Dimensions
  <2>2. Indices(a2, UDIPE_MAX_BUFFERS, TRUE) = (0..(count - 1)) \ held
    BY <1>11, <2>1, ExactBits
  <2>3. QED
    BY <1>3, <1>10, <1>12, <2>2 DEF AvailabilityExact
<1>15. DefaultsFitCaches'
  BY <1>1, <1>12 DEF DefaultsFitCaches, Fits
<1>16. RejectedOnlyWhenExhausted'
  BY <1>3, <1>4 DEF RejectedOnlyWhenExhausted, NoCall, NULL
<1>17. QED
  BY <1>2, <1>3, <1>4, <1>13, <1>14, <1>15, <1>16 DEF AInv, AllocatorConsistent

\* An allocation either changes nothing or takes an available buffer.
LEMMA AllocateKept ==
    ASSUME AInv, Allocate
    PROVE  /\ AInv'
           /\ \/ UNCHANGED held
              \/ \E b \in (0..(config.buffer_count - 1)) \ held : held' = held \cup {b}
<1>1. phase = "on" /\ UNCHANGED <<phase, config, origin>>
  BY DEF Allocate
<1>2. PICK a, c : a = buffer_availability /\ c = config.buffer_count
  OBVIOUS
<1>3. /\ a \in Arrays(NumWords) /\ c \in Nat /\ c > 0 /\ c <= UDIPE_MAX_BUFFERS
      /\ Exact(a, c, held) /\ held \subseteq 0..(c - 1) /\ held \subseteq Buffers
  BY <1>1, <1>2, WhileOn
<1>4. PICK I : I = Indices(a, UDIPE_MAX_BUFFERS, TRUE)
  OBVIOUS
<1>5. \A k : k \in I <=> k \in Buffers /\ k < c /\ k \notin held
  BY <1>3, <1>4, Dimensions, InIndices DEF Exact, Bit, Buffers
<1>6. PICK bit : bit = bit_array_find_first(a, UDIPE_MAX_BUFFERS, TRUE)
  OBVIOUS
<1>7. bit = PosOfMin(I)
  <2>1. BIT_ARRAY_WORDS(UDIPE_MAX_BUFFERS) <= NumWords
    BY Dimensions DEF NumWords
  <2>2. QED
    BY <1>3, <1>4, <1>6, <2>1, Dimensions, FindFirst
<1>8. DefaultsFitCaches' /\ TypeOK /\ DefaultsFitCaches
  BY <1>1 DEF AInv, AllocatorConsistent, DefaultsFitCaches
<1>9. CASE I = {}
  <2>1. bit = NO_BIT_POS
    BY <1>7, <1>9 DEF PosOfMin
  <2>2. returned' = NULL /\ UNCHANGED <<buffer_availability, held>>
    BY <1>2, <1>6, <2>1 DEF Allocate
  <2>3. held = 0..(c - 1)
    <3>1. ASSUME NEW k \in 0..(c - 1)
          PROVE  k \in held
      <4>1. k \in Buffers /\ k < c
        BY <1>3, Dimensions DEF Buffers
      <4>2. QED
        BY <1>5, <1>9, <4>1
    <3>2. QED
      BY <1>3, <3>1
  <2>4. TypeOK'
    BY <1>1, <1>8, <2>2 DEF TypeOK
  <2>5. AvailabilityExact'
    BY <1>1, <2>2 DEF AInv, AllocatorConsistent, AvailabilityExact
  <2>6. RejectedOnlyWhenExhausted'
    BY <1>1, <1>2, <2>2, <2>3 DEF RejectedOnlyWhenExhausted, NULL
  <2>7. QED
    BY <1>1, <1>8, <2>2, <2>4, <2>5, <2>6 DEF AInv, AllocatorConsistent
<1>10. CASE I # {}
  <2>1. I \subseteq Nat
    BY <1>5, Dimensions
  <2>2. PICK b : b = Min(I)
    OBVIOUS
  <2>3. b \in I /\ b \in Nat /\ b \in Buffers /\ b < c /\ b \notin held
    BY <1>5, <1>10, <2>1, <2>2, MinExists
  <2>4. bit = index_to_bit_pos(b)
    BY <1>7, <1>10, <2>2 DEF PosOfMin
  <2>5. bit # NO_BIT_POS
    <3>1. WordOf(b) \in Nat
      BY <2>3, PositionFacts
    <3>2. bit.word # -1
      BY <2>4, <3>1 DEF WordOf
    <3>3. QED
      BY <3>2 DEF NO_BIT_POS
  <2>6. bit_pos_to_index(bit) = b
    BY <2>3, <2>4, PositionOfIndex DEF bit_pos_to_index, Index
  <2>7. /\ buffer_availability' = bit_array_set(a, bit, FALSE)
        /\ returned' = b
        /\ held' = held \cup {b}
    BY <1>2, <1>6, <2>5, <2>6 DEF Allocate
  <2>8. PICK a2 : a2 = bit_array_set(a, index_to_bit_pos(b), FALSE)
    OBVIOUS
  <2>9. /\ a2 \in Arrays(NumWords)
        /\ \A k \in Buffers : Bit(a2, k) <=> IF k = b THEN FALSE ELSE Bit(a, k)
    BY <1>3, <2>3, <2>8, SetOneBit
  <2>10. Exact(a2, c, held \cup {b})
    BY <1>3, <2>9 DEF Exact
  <2>11. b \in (0..(c - 1)) \ held
    BY <1>3, <2>3
  <2>12. TypeOK'
    <3>1. buffer_availability' \in [Words -> SUBSET Offsets]
      BY <2>4, <2>7, <2>8, <2>9, Dimensions DEF Arrays
    <3>2. held' \subseteq 0..(UDIPE_MAX_BUFFERS - 1)
      BY <1>3, <2>3, <2>7 DEF Buffers
    <3>3. returned' \in {NULL, NoCall} \cup (0..(UDIPE_MAX_BUFFERS - 1))
      BY <2>3, <2>7 DEF Buffers
    <3>4. QED
      BY <1>1, <1>8, <3>1, <3>2, <3>3 DEF TypeOK
  <2>13. AvailabilityExact'
    <3>1. c \in 0..UDIPE_MAX_BUFFERS
      BY <1>3, Dimensions
    <3>2. Indices(a2, UDIPE_MAX_BUFFERS, TRUE) = (0..(c - 1)) \ (held \cup {b})
      BY <2>10, <3>1, ExactBits
    <3>3. QED
      BY <1>1, <1>2, <2>4, <2>7, <2>8, <3>2 DEF AvailabilityExact
  <2>14. RejectedOnlyWhenExhausted'
    BY <2>3, <2>7 DEF RejectedOnlyWhenExhausted, NULL
  <2>15. held' \subseteq 0..(config'.buffer_count - 1)
    BY <1>1, <1>2, <1>3, <2>7, <2>11
  <2>16. QED
    BY <1>1, <1>2, <1>8, <2>7, <2>11, <2>12, <2>13, <2>14, <2>15 DEF AInv, AllocatorConsistent
<1>11. QED
  BY <1>9, <1>10

LEMMA LiberateKept ==
    ASSUME AInv, Liberate
    PROVE  AInv'
<1>1. phase = "on" /\ UNCHANGED <<phase, config, origin>> /\ returned' = NoCall
  BY DEF Liberate
<1>2. PICK a, c : a = buffer_availability /\ c = config.buffer_count
  OBVIOUS
<1>3. /\ a \in Arrays(NumWords) /\ c \in Nat /\ c > 0 /\ c <= UDIPE_MAX_BUFFERS
      /\ Exact(a, c, held) /\ held \subseteq 0..(c - 1) /\ held \subseteq Buffers
  BY <1>1, <1>2, WhileOn
<1>4. PICK b \in held :
         /\ buffer_availability' = bit_array_set(a, index_to_bit_pos(b), TRUE)
         /\ held' = held \ {b}
  BY <1>2 DEF Liberate
<1>5. PICK a2 : a2 = bit_array_set(a, index_to_bit_pos(b), TRUE)
  OBVIOUS
<1>6. b \in Buffers /\ b < c
  BY <1>3
<1>7. /\ a2 \in Arrays(NumWords)
      /\ \A k \in Buffers : Bit(a2, k) <=> IF k = b THEN TRUE ELSE Bit(a, k)
  BY <1>3, <1>5, <1>6, SetOneBit
<1>8. Exact(a2, c, held \ {b})
  BY <1>3, <1>6, <1>7 DEF Exact
<1>9. TypeOK'
  <2>1. buffer_availability' \in [Words -> SUBSET Offsets]
    BY <1>4, <1>5, <1>7, Dimensions DEF Arrays
  <2>2. QED
    BY <1>1, <1>4, <2>1 DEF AInv, AllocatorConsistent, TypeOK
<1>10. AvailabilityExact'
  <2>1. c \in 0..UDIPE_MAX_BUFFERS
    BY <1>3, Dimensions
  <2>2. Indices(a2, UDIPE_MAX_BUFFERS, TRUE) = (0..(c - 1)) \ (held \ {b})
    BY <1>8, <2>1, ExactBits
  <2>3. QED
    BY <1>1, <1>2, <1>4, <1>5, <2>2 DEF AvailabilityExact
<1>11. DefaultsFitCaches'
  BY <1>1 DEF AInv, AllocatorConsistent, DefaultsFitCaches
<1>12. RejectedOnlyWhenExhausted'
  BY <1>1 DEF RejectedOnlyWhenExhausted, NULL, NoCall
<1>13. QED
  BY <1>1, <1>2, <1>3, <1>4, <1>9, <1>10, <1>11, <1>12 DEF AInv, AllocatorConsistent

\* Finalization finds out whether a buffer is still held.
LEMMA FinalizeKept ==
    ASSUME AInv, Finalize
    PROVE  /\ AInv'
           /\ held = {} => phase' = "off" /\ config' = NoConfig
           /\ held # {} => phase' = "dead" /\ UNCHANGED config
<1>1. phase = "on" /\ returned' = NoCall /\ UNCHANGED held
  BY DEF Finalize
<1>2. PICK a, c : a = buffer_availability /\ c = config.buffer_count
  OBVIOUS
<1>3. /\ a \in Arrays(NumWords) /\ c \in Nat /\ c > 0 /\ c <= UDIPE_MAX_BUFFERS
      /\ Exact(a, c, held) /\ held \subseteq 0..(c - 1) /\ held \subseteq Buffers
  BY <1>1, <1>2, WhileOn
<1>4. bit_array_range_alleq(a, index_to_bit_pos(0), index_to_bit_pos(c), TRUE) <=> held = {}
  <2>1. PICK value \in BOOLEAN : value = TRUE
    OBVIOUS
  <2>2. \A k \in 0..(c - 1) : k \in Buffers /\ k < c /\ WordOf(k) \in 0..(NumWords - 1)
    BY <1>3, Dimensions DEF Buffers
  <2>3. bit_array_range_alleq(a, index_to_bit_pos(0), index_to_bit_pos(c), value)
           <=> \A k \in 0..(c - 1) : (OffsetOf(k) \in a[WordOf(k)]) <=> value
    BY <1>3, <2>2, Dimensions, AllEqual
  <2>4. bit_array_range_alleq(a, index_to_bit_pos(0), index_to_bit_pos(c), TRUE)
           <=> \A k \in 0..(c - 1) : Bit(a, k)
    BY <2>1, <2>3 DEF Bit
  <2>5. \A k \in 0..(c - 1) : Bit(a, k) <=> k \notin held
    BY <1>3, <2>2 DEF Exact
  <2>6. QED
    BY <1>3, <2>4, <2>5
<1>5. BIT_ARRAY_START = index_to_bit_pos(0) /\ EndBit = index_to_bit_pos(c)
  BY <1>2, Dimensions DEF EndBit
<1>6. IF held = {}
      THEN /\ phase' = "off"
           /\ buffer_availability' = bit_array_range_set(a, index_to_bit_pos(0),
                                                         index_to_bit_pos(c), FALSE)
           /\ config' = NoConfig
           /\ origin' = NoOrigin
      ELSE phase' = "dead" /\ UNCHANGED <<config, origin, buffer_availability>>
  BY <1>2, <1>4, <1>5 DEF Finalize
<1>7. RejectedOnlyWhenExhausted'
  BY <1>1 DEF RejectedOnlyWhenExhausted, NULL, NoCall
<1>8. CASE held = {}
  <2>1. PICK a2 : a2 = bit_array_range_set(a, index_to_bit_pos(0), index_to_bit_pos(c), FALSE)
    OBVIOUS
  <2>2. /\ a2 \in Arrays(NumWords)
        /\ \A k \in Buffers : Bit(a2, k) <=> IF 0 <= k /\ k < c THEN FALSE ELSE Bit(a, k)
    <3>1. PICK value \in BOOLEAN : value = FALSE
      OBVIOUS
    <3>2. a2 = bit_array_range_set(a, index_to_bit_pos(0), index_to_bit_pos(c), value)
      BY <2>1, <3>1
    <3>3. 0 \in Nat /\ 0 <= c
      BY <1>3
    <3>4. /\ a2 \in Arrays(NumWords)
          /\ \A k \in Buffers : Bit(a2, k) <=> IF 0 <= k /\ k < c THEN value ELSE Bit(a, k)
      BY <1>3, <3>2, <3>3, SetRangeOfBits
    <3>5. QED
      BY <3>1, <3>4
  <2>3. \A k \in Buffers : ~Bit(a2, k) /\ ~(k < 0)
    BY <1>3, <2>2, Dimensions DEF Exact
  <2>4. Exact(a2, 0, held)
    BY <2>3 DEF Exact
  <2>5. 0 \in 0..UDIPE_MAX_BUFFERS
    BY Dimensions
  <2>6. Indices(a2, UDIPE_MAX_BUFFERS, TRUE) = (0..(0 - 1)) \ held
    BY <2>4, <2>5, ExactBits
  <2>7. AvailabilityExact'
    <3>1. buffer_availability' = a2 /\ held' = held /\ config'.buffer_count = 0
      BY <1>1, <1>6, <1>8, <2>1 DEF NoConfig
    <3>2. Indices(buffer_availability', UDIPE_MAX_BUFFERS, TRUE)
             = (0..(config'.buffer_count - 1)) \ held'
      BY <2>6, <3>1
    <3>3. QED
      BY <3>2 DEF AvailabilityExact
  <2>8. buffer_availability' \in [Words -> SUBSET Offsets]
    BY <1>6, <1>8, <2>1, <2>2, Dimensions DEF Arrays
  <2>9. TypeOK'
    <3>1. NoConfig \in [buffer_size : Nat, buffer_count : 0..UDIPE_MAX_BUFFERS]
      BY <2>5 DEF NoConfig
    <3>2. phase' = "off" /\ config' = NoConfig /\ origin' = NoOrigin
      BY <1>6, <1>8
    <3>3. held' \subseteq 0..(UDIPE_MAX_BUFFERS - 1)
      BY <1>1, <1>8
    <3>4. QED
      BY <1>1, <2>8, <3>1, <3>2, <3>3 DEF TypeOK
  <2>10. DefaultsFitCaches'
    BY <1>6, <1>8 DEF DefaultsFitCaches
  <2>11. QED
    BY <1>1, <1>6, <1>7, <1>8, <2>7, <2>9, <2>10 DEF AInv, AllocatorConsistent
<1>9. CASE held # {}
  <2>1. phase' = "dead" /\ UNCHANGED <<config, origin, buffer_availability>>
    BY <1>6, <1>9
  <2>2. TypeOK'
    BY <1>1, <2>1 DEF AInv, AllocatorConsistent, TypeOK
  <2>3. AvailabilityExact' /\ DefaultsFitCaches'
    BY <2>1 DEF AvailabilityExact, DefaultsFitCaches
  <2>4. QED
    BY <1>7, <1>9, <2>1, <2>2, <2>3 DEF AInv, AllocatorConsistent
<1>10. QED
  BY <1>8, <1>9

\* Every operation of the allocator keeps the invariant, and is an operation
\* of the abstract pool or changes nothing there.
LEMMA NextKept ==
    ASSUME AInv, [Next]_vars
    PROVE  AInv' /\ [Pool!Next]_(Pool!poolVars)
<1>1. CASE InitializeFails
  <2>1. AInv'
    BY <1>1, FailureKept
  <2>2. Pool!Open
    BY <1>1 DEF InitializeFails, Pool!Open
  <2>3. QED
    BY <2>1, <2>2 DEF Pool!Next
<1>2. CASE Initialize
  <2>1. ASSUME NEW asked \in Callbacks \cup {NoConfig}, NEW cpus \in Cpusets,
               NEW size, size = FinishSize(asked.buffer_size, cpus),
               NEW count, count = FinishCount(asked.buffer_count, size, cpus),
               ~(count > UDIPE_MAX_BUFFERS),
               InitializeSucceeds(asked, cpus, size, count)
        PROVE  AInv' /\ Pool!Next
    <3>1. AInv' /\ count \in 1..UDIPE_MAX_BUFFERS
      BY <2>1, SuccessKept
    <3>2. /\ phase = "off" /\ phase' = "on" /\ UNCHANGED held
          /\ config'.buffer_count = count
      BY <2>1 DEF InitializeSucceeds
    <3>3. Pool!Open
      BY <3>1, <3>2 DEF Pool!Open
    <3>4. QED
      BY <3>1, <3>3 DEF Pool!Next
  <2>2. QED
    BY <1>1, <1>2, <2>1, InitializeCases
<1>3. CASE RefuseConfigurator
  BY <1>1, <1>3 DEF RefuseConfigurator, InitializeFails
<1>4. CASE Allocate
  <2>1. /\ AInv'
        /\ \/ UNCHANGED held
           \/ \E b \in (0..(config.buffer_count - 1)) \ held : held' = held \cup {b}
    BY <1>4, AllocateKept
  <2>2. phase = "on" /\ UNCHANGED <<phase, config>>
    BY <1>4 DEF Allocate
  <2>3. CASE UNCHANGED held
    BY <2>1, <2>2, <2>3 DEF Pool!poolVars
  <2>4. CASE \E b \in (0..(config.buffer_count - 1)) \ held : held' = held \cup {b}
    <3>1. Pool!Take
      BY <2>2, <2>4 DEF Pool!Take
    <3>2. QED
      BY <2>1, <3>1 DEF Pool!Next
  <2>5. QED
    BY <2>1, <2>3, <2>4
<1>5. CASE Liberate
  <2>1. AInv'
    BY <1>5, LiberateKept
  <2>2. Pool!Return
    BY <1>5 DEF Liberate, Pool!Return
  <2>3. QED
    BY <2>1, <2>2 DEF Pool!Next
<1>6. CASE Finalize
  <2>1. /\ AInv'
        /\ held = {} => phase' = "off" /\ config' = NoConfig
        /\ held # {} => phase' = "dead" /\ UNCHANGED config
    BY <1>6, FinalizeKept
  <2>2. phase = "on" /\ UNCHANGED held
    BY <1>6 DEF Finalize
  <2>3. Pool!Close
    BY <2>1, <2>2 DEF Pool!Close, NoConfig
  <2>4. QED
    BY <2>1, <2>3 DEF Pool!Next
<1>7. CASE UNCHANGED vars
  <2>1. AInv'
    BY <1>7 DEF AInv, AllocatorConsistent, TypeOK, AvailabilityExact, DefaultsFitCaches,
                RejectedOnlyWhenExhausted, vars
  <2>2. QED
    BY <1>7, <2>1 DEF vars, Pool!poolVars
<1>8. QED
  BY <1>2, <1>3, <1>4, <1>5, <1>6, <1>7 DEF Next

(***************************************************************************)
(* AInv holds in every reachable state, for every word size, number of     *)
(* buffers, page size, set of caches and configuration callback.           *)
(***************************************************************************)
THEOREM AllocatorInvariance == Spec => []AInv
<1>1. Init => AInv
  BY InitHolds
<1>2. AInv /\ [Next]_vars => AInv'
  BY NextKept
<1>3. QED
  BY <1>1, <1>2, PTL DEF Spec

(***************************************************************************)
(* buffer_allocator_*() keep their bits, their configuration and their     *)
(* answers consistent: exactly the buffers that nobody holds are           *)
(* available, defaults fit the caches, and NULL means exhaustion.          *)
(***************************************************************************)
THEOREM AllocatorStaysConsistent == Spec => []AllocatorConsistent
<1>1. AInv => AllocatorConsistent
  BY DEF AInv
<1>2. QED
  BY <1>1, AllocatorInvariance, PTL

(***************************************************************************)
(* The allocator implements the abstract pool: buffer_allocate() hands out *)
(* a buffer that nobody holds, and buffer_allocator_finalize() stops the   *)
(* program exactly if a buffer is still held.                              *)
(***************************************************************************)
THEOREM AllocatorImplementsPool == Spec => ImplementsPool
<1>1. Init => Pool!Init
  BY DEF Init, Pool!Init, NoConfig
<1>2. AInv /\ [Next]_vars => [Pool!Next]_(Pool!poolVars)
  BY NextKept
<1>3. QED
  BY <1>1, <1>2, AllocatorInvariance, PTL DEF Spec, ImplementsPool, Pool!Spec

-----------------------------------------------------------------------------
(* All the operations on bit arrays.                                       *)

\* An empty range is all equal to anything.
LEMMA AllEqualEmpty ==
    ASSUME NEW n \in Nat, NEW a \in Arrays(n), NEW value \in BOOLEAN,
           NEW i \in Nat
    PROVE  bit_array_range_alleq(a, index_to_bit_pos(i), index_to_bit_pos(i), value)
<1> DEFINE w == WordOf(i)
           o == OffsetOf(i)
<1>1. /\ w \in Nat /\ o \in Nat /\ o < BITS_PER_WORD
      /\ index_to_bit_pos(i) = [word |-> w, offset |-> o]
  BY PositionFacts, PositionOfIndex
<1>2. ShiftRight(Matching(a[w], ~value) \cap LowBits(o), o) = {}
  BY <1>1 DEF ShiftRight, LowBits
<1>3. w..w = {w}
  BY <1>1
<1> HIDE DEF w, o
<1>4. PICK pos : pos = index_to_bit_pos(i)
  OBVIOUS
<1>5. pos.word = w /\ pos.offset = o
  BY <1>1, <1>4
<1>6. bit_array_range_alleq(a, pos, pos, value)
         <=> \A word \in w..w :
                \/ word = w /\ o = 0
                \/ (IF word = w
                    THEN ShiftRight(IF word = w THEN Matching(a[word], ~value) \cap LowBits(o)
                                    ELSE Matching(a[word], ~value), o)
                    ELSE IF word = w THEN Matching(a[word], ~value) \cap LowBits(o)
                         ELSE Matching(a[word], ~value)) = {}
  BY <1>5 DEF bit_array_range_alleq
<1>7. ASSUME NEW word \in w..w
      PROVE  (IF word = w
              THEN ShiftRight(IF word = w THEN Matching(a[word], ~value) \cap LowBits(o)
                              ELSE Matching(a[word], ~value), o)
              ELSE IF word = w THEN Matching(a[word], ~value) \cap LowBits(o)
                   ELSE Matching(a[word], ~value)) = {}
  BY <1>2, <1>3
<1>8. QED
  BY <1>4, <1>6, <1>7

\* A bit of the array that the allocator keeps is at a position in it.
LEMMA BitsOfWords ==
    ASSUME NEW k \in 0..(Cardinality(Words) * BITS_PER_WORD - 1)
    PROVE  k \in Nat /\ WordOf(k) \in 0..(NumWords - 1) /\ OffsetOf(k) \in Offsets
           /\ Index(WordOf(k), OffsetOf(k)) = k
<1>1. Cardinality(Words) = NumWords /\ NumWords \in Nat
  <2>1. NumWords \in Nat /\ Words = 0..(NumWords - 1)
    BY Dimensions
  <2>2. Cardinality(0..(NumWords - 1)) = NumWords
    BY <2>1, FS_Interval
  <2>3. QED
    BY <2>1, <2>2
<1>2. k \in Nat /\ k < NumWords * BITS_PER_WORD
  BY <1>1, WordSize
<1>3. WordOf(k) \in Nat /\ OffsetOf(k) \in Offsets /\ Index(WordOf(k), OffsetOf(k)) = k
  BY <1>2, PositionOfIndex
<1>4. NumWords * BITS_PER_WORD = Index(NumWords, 0) /\ 0 \in Offsets
  BY <1>1, WordSize DEF Index, Offsets
<1>5. /\ Index(NumWords, 0) \in Nat
      /\ WordOf(Index(NumWords, 0)) = NumWords /\ OffsetOf(Index(NumWords, 0)) = 0
  BY <1>1, <1>4, IndexOfPosition
<1>6. WordOf(k) < NumWords
  <2>1. k < Index(NumWords, 0)
    BY <1>2, <1>4
  <2>2. \/ WordOf(k) < NumWords
        \/ WordOf(k) = NumWords /\ OffsetOf(k) < 0
    BY <1>2, <1>5, <2>1, PositionOrder
  <2>3. OffsetOf(k) \in Nat
    BY <1>2, PositionFacts
  <2>4. QED
    BY <2>2, <2>3
<1>7. QED
  BY <1>1, <1>2, <1>3, <1>6

LEMMA SearchesAlwaysAgree ==
    ASSUME buffer_availability \in Arrays(NumWords)
    PROVE  SearchesAgree
<1>1. SUFFICES ASSUME NEW length \in 1..UDIPE_MAX_BUFFERS, NEW value \in BOOLEAN
               PROVE  /\ bit_array_find_first(buffer_availability, length, value)
                            = PosOfMin(Indices(buffer_availability, length, value))
                      /\ \A p \in 0..(length - 1), wrap \in BOOLEAN :
                            bit_array_find_next(buffer_availability, length,
                                                index_to_bit_pos(p), wrap, value)
                               = RefNext(buffer_availability, length, p, wrap, value)
  BY DEF SearchesAgree
<1>2. length \in Nat /\ length <= UDIPE_MAX_BUFFERS /\ UDIPE_MAX_BUFFERS \in Nat
  BY Dimensions
<1>3. NumWords \in Nat /\ BIT_ARRAY_WORDS(length) <= NumWords
  BY <1>2, Dimensions, FewerWords DEF NumWords
<1>4. bit_array_find_first(buffer_availability, length, value)
         = PosOfMin(Indices(buffer_availability, length, value))
  BY <1>2, <1>3, FindFirst
<1>5. ASSUME NEW p \in 0..(length - 1), NEW wrap \in BOOLEAN
      PROVE  bit_array_find_next(buffer_availability, length, index_to_bit_pos(p), wrap, value)
                = RefNext(buffer_availability, length, p, wrap, value)
  BY <1>2, <1>3, FindNext
<1>6. QED
  BY <1>4, <1>5

LEMMA RangesAlwaysAgree ==
    ASSUME buffer_availability \in Arrays(NumWords)
    PROVE  RangesAgree
<1> DEFINE a == buffer_availability
<1>1. UDIPE_MAX_BUFFERS \in Nat /\ NumWords \in Nat
  BY Dimensions
<1>2. ASSUME NEW value \in BOOLEAN, NEW length \in 0..UDIPE_MAX_BUFFERS
      PROVE  bit_array_count(a, length, value) = Cardinality(Indices(a, length, value))
  <2>1. length \in Nat /\ length <= UDIPE_MAX_BUFFERS
    BY <1>1
  <2>2. BIT_ARRAY_WORDS(length) <= NumWords
    BY <1>1, <2>1, FewerWords DEF NumWords
  <2>3. QED
    BY <1>1, <2>1, <2>2, Count
<1>3. ASSUME NEW value \in BOOLEAN, NEW i \in 0..UDIPE_MAX_BUFFERS,
             NEW j \in 0..UDIPE_MAX_BUFFERS, i <= j
      PROVE  bit_array_range_alleq(a, index_to_bit_pos(i), index_to_bit_pos(j), value)
                <=> i..(j - 1) \subseteq Indices(a, UDIPE_MAX_BUFFERS, value)
  <2>1. i \in Nat /\ j \in Nat /\ j <= UDIPE_MAX_BUFFERS
    BY <1>1
  <2>2. \A k \in i..(j - 1) : k \in Buffers /\ WordOf(k) \in 0..(NumWords - 1)
    <3>1. TAKE k \in i..(j - 1)
    <3>2. k \in Buffers
      BY <2>1, <1>1 DEF Buffers
    <3>3. QED
      BY <3>2, Dimensions
  <2>3. CASE i < j
    <3>1. bit_array_range_alleq(a, index_to_bit_pos(i), index_to_bit_pos(j), value)
             <=> \A k \in i..(j - 1) : (OffsetOf(k) \in a[WordOf(k)]) <=> value
      BY <1>1, <2>1, <2>2, <2>3, AllEqual
    <3>2. \A k \in i..(j - 1) : k \in Indices(a, UDIPE_MAX_BUFFERS, value)
             <=> ((OffsetOf(k) \in a[WordOf(k)]) <=> value)
      BY <1>1, <2>2, InIndices DEF Buffers
    <3>3. QED
      BY <3>1, <3>2
  <2>4. CASE i = j
    <3>1. i..(j - 1) = {}
      BY <2>1, <2>4
    <3>2. bit_array_range_alleq(a, index_to_bit_pos(i), index_to_bit_pos(i), value)
      BY <1>1, <2>1, AllEqualEmpty
    <3>3. QED
      BY <2>4, <3>1, <3>2
  <2>5. QED
    BY <1>3, <2>1, <2>3, <2>4
<1>4. ASSUME NEW value \in BOOLEAN, NEW i \in 0..UDIPE_MAX_BUFFERS,
             NEW j \in 0..UDIPE_MAX_BUFFERS, i <= j,
             NEW k \in 0..(Cardinality(Words) * BITS_PER_WORD - 1),
             NEW b, b = bit_array_range_set(a, index_to_bit_pos(i), index_to_bit_pos(j), value)
      PROVE  bit_array_get(b, index_to_bit_pos(k))
                <=> IF k \in i..(j - 1) THEN value ELSE bit_array_get(a, index_to_bit_pos(k))
  <2>1. /\ k \in Nat /\ WordOf(k) \in 0..(NumWords - 1) /\ OffsetOf(k) \in Offsets
        /\ Index(WordOf(k), OffsetOf(k)) = k
    BY BitsOfWords
  <2>2. i \in Nat /\ j \in Nat
    BY <1>1
  <2>3. \A w \in 0..(NumWords - 1), o \in Offsets :
           (o \in b[w]) <=> IF i <= Index(w, o) /\ Index(w, o) < j THEN value ELSE o \in a[w]
    BY <1>1, <1>4, <2>2, RangeSet
  <2>4. (OffsetOf(k) \in b[WordOf(k)])
           <=> IF i <= k /\ k < j THEN value ELSE OffsetOf(k) \in a[WordOf(k)]
    BY <2>1, <2>3
  <2>5. i <= k /\ k < j <=> k \in i..(j - 1)
    BY <2>1, <2>2
  <2>6. QED
    BY <2>4, <2>5 DEF bit_array_get, WordOf, OffsetOf
<1>5. ASSUME NEW value \in BOOLEAN, NEW i \in 0..UDIPE_MAX_BUFFERS,
             NEW j \in 0..UDIPE_MAX_BUFFERS, i <= j
      PROVE  LET s == index_to_bit_pos(i)
                 e == index_to_bit_pos(j)
                 b == bit_array_range_set(a, s, e, value)
             IN  /\ bit_array_range_alleq(a, s, e, value)
                       = (i..(j - 1) \subseteq Indices(a, UDIPE_MAX_BUFFERS, value))
                 /\ \A k \in 0..(Cardinality(Words) * BITS_PER_WORD - 1) :
                       bit_array_get(b, index_to_bit_pos(k))
                          = IF k \in i..(j - 1) THEN value
                            ELSE bit_array_get(a, index_to_bit_pos(k))
  <2>1. PICK s, e, b : /\ s = index_to_bit_pos(i) /\ e = index_to_bit_pos(j)
                       /\ b = bit_array_range_set(a, s, e, value)
    OBVIOUS
  <2>2. bit_array_range_alleq(a, s, e, value) \in BOOLEAN
    BY DEF bit_array_range_alleq
  <2>3. bit_array_range_alleq(a, s, e, value)
           = (i..(j - 1) \subseteq Indices(a, UDIPE_MAX_BUFFERS, value))
    <3>1. bit_array_range_alleq(a, s, e, value)
             <=> i..(j - 1) \subseteq Indices(a, UDIPE_MAX_BUFFERS, value)
      BY <1>3, <1>5, <2>1
    <3>2. QED
      BY <2>2, <3>1
  <2>4. ASSUME NEW k \in 0..(Cardinality(Words) * BITS_PER_WORD - 1)
        PROVE  bit_array_get(b, index_to_bit_pos(k))
                  = IF k \in i..(j - 1) THEN value ELSE bit_array_get(a, index_to_bit_pos(k))
    <3>1. bit_array_get(b, index_to_bit_pos(k))
             <=> IF k \in i..(j - 1) THEN value ELSE bit_array_get(a, index_to_bit_pos(k))
      BY <1>4, <1>5, <2>1
    <3>2. /\ bit_array_get(b, index_to_bit_pos(k)) \in BOOLEAN
          /\ bit_array_get(a, index_to_bit_pos(k)) \in BOOLEAN
      BY DEF bit_array_get
    <3>3. QED
      BY <3>1, <3>2
  <2>5. QED
    BY <2>1, <2>3, <2>4
<1>6. QED
  BY <1>2, <1>5 DEF RangesAgree

(***************************************************************************)
(* For any word size and number of buffers, on every array that the        *)
(* allocator goes through and for all lengths, positions, ranges and       *)
(* values: bit_array_find_first(), bit_array_find_next(),                  *)
(* bit_array_count(), bit_array_range_alleq() and bit_array_range_set(),   *)
(* which work word by word, do what they should to the set of the indices  *)
(* of the bits.                                                            *)
(***************************************************************************)
THEOREM BitArraysAlwaysAgree == Spec => []BitArraysAgree
<1>1. AInv => BitArraysAgree
  <2>1. SUFFICES ASSUME AInv PROVE BitArraysAgree
    OBVIOUS
  <2>2. buffer_availability \in Arrays(NumWords)
    BY <2>1, Dimensions DEF AInv, AllocatorConsistent, TypeOK, Arrays
  <2>3. QED
    BY <2>2, SearchesAlwaysAgree, RangesAlwaysAgree DEF BitArraysAgree
<1>2. QED
  BY <1>1, AllocatorInvariance, PTL

=============================================================================
