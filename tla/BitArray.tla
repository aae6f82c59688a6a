------------------------------ MODULE BitArray ------------------------------
(***************************************************************************)
(* Bit arrays (src/bit_array.h, src/bits.h): arrays of words of            *)
(* BITS_PER_WORD bits, of which the first `length` bits are in use and the *)
(* rest of the last word is padding of unknown value.  A word is the set   *)
(* of the offsets of its 1 bits, so that the C operators on words are set  *)
(* operators: ~w is a complement, & an intersection, (1 << k) - 1 the set  *)
(* of the offsets below k, and a shift moves every element.                *)
(***************************************************************************)
EXTENDS Integers, FiniteSets, FiniteSetsExt

CONSTANT BITS_PER_WORD
ASSUME BitArrayAssumption == BITS_PER_WORD \in Nat \ {0}

Offsets == 0..(BITS_PER_WORD - 1)
WORD_MAX == Offsets

bit_broadcast(value) == IF value THEN WORD_MAX ELSE {}
Complement(w) == WORD_MAX \ w
LowBits(n) == 0..(n - 1)                        \* ((word_t)1 << n) - 1
ShiftRight(w, n) == {o - n : o \in {b \in w : b >= n}}
ShiftLeft(w, n) == {o + n : o \in {b \in w : b + n < BITS_PER_WORD}}
count_trailing_zeros(w) == Min(w)
population_count(w) == Cardinality(w)

\* Bits that equal `value`, as the 1 bits of a word.
Matching(w, value) == IF value THEN w ELSE Complement(w)

DIV_CEIL(num, denom) == (num \div denom) + (IF num % denom # 0 THEN 1 ELSE 0)
BIT_ARRAY_WORDS(length) == DIV_CEIL(length, BITS_PER_WORD)

(***************************************************************************)
(* Positions.  NO_BIT_POS is an impossible position: SIZE_MAX in the code. *)
(***************************************************************************)
NO_BIT_POS == [word |-> -1, offset |-> -1]
BIT_ARRAY_START == [word |-> 0, offset |-> 0]
bit_pos_to_index(bit) == bit.word * BITS_PER_WORD + bit.offset
index_to_bit_pos(i) == [word |-> i \div BITS_PER_WORD, offset |-> i % BITS_PER_WORD]
bit_array_end(length) == index_to_bit_pos(length)

bit_array_get(a, bit) == bit.offset \in a[bit.word]

bit_array_set(a, bit, value) ==
    [a EXCEPT ![bit.word] = IF value THEN @ \cup {bit.offset} ELSE @ \ {bit.offset}]

\* Full words, then the used bits of an incomplete last word.
bit_array_count(a, length, value) ==
    LET num_full_words == length \div BITS_PER_WORD
        remaining_bits == length % BITS_PER_WORD
        full == [w \in 0..(num_full_words - 1) |-> population_count(Matching(a[w], value))]
    IN  MapThenSumSet(LAMBDA w : full[w], DOMAIN full)
        + (IF remaining_bits > 0
           THEN population_count(Matching(a[num_full_words], value)
                                 \cap LowBits(remaining_bits))
           ELSE 0)

(***************************************************************************)
(* bit_array_range_alleq(): no bit of [start, end) differs from value.  A  *)
(* word after the last bit is not read.                                    *)
(***************************************************************************)
bit_array_range_alleq(a, start, end, value) ==
    \A word \in start.word..end.word :
       \/ word = end.word /\ end.offset = 0
       \/ LET target == Matching(a[word], ~value)
              ended == IF word = end.word THEN target \cap LowBits(end.offset)
                       ELSE target
              started == IF word = start.word THEN ShiftRight(ended, start.offset)
                         ELSE ended
          IN  started = {}

(***************************************************************************)
(* bit_array_range_set(): words entirely in the range are overwritten, the *)
(* first and the last one blended with a mask.                             *)
(***************************************************************************)
bit_array_range_set(a, start, end, value) ==
    [word \in DOMAIN a |->
        LET start_offset == IF word = start.word THEN start.offset ELSE 0
            end_offset == IF word = end.word THEN end.offset ELSE BITS_PER_WORD
            fill_mask == ShiftLeft(LowBits(end_offset - start_offset), start_offset)
        IN  IF word \notin start.word..end.word THEN a[word]
            ELSE IF /\ word > start.word \/ start.offset = 0
                    /\ word < end.word
            THEN bit_broadcast(value)
            ELSE IF (word = end.word /\ end.offset = 0) \/ start_offset > end_offset
            THEN a[word]
            ELSE (bit_broadcast(value) \cap fill_mask)
                 \cup (a[word] \cap Complement(fill_mask))]

\* Mutant: the padding of the last word is not masked.
FindFirstUnmasked(a, length, value) ==
    LET candidates == {w \in 0..(BIT_ARRAY_WORDS(length) - 1) :
                          a[w] # bit_broadcast(~value)}
        word == Min(candidates)
    IN  IF candidates = {} THEN NO_BIT_POS
        ELSE [word |-> word,
              offset |-> count_trailing_zeros(Matching(a[word], value))]

(***************************************************************************)
(* bit_array_find_first(): the first word with a matching bit, padding     *)
(* included; if it is an incomplete last word the padding is masked and    *)
(* the search may still fail.                                              *)
(***************************************************************************)
bit_array_find_first(a, length, value) ==
    LET candidates == {w \in 0..(BIT_ARRAY_WORDS(length) - 1) :
                          a[w] # bit_broadcast(~value)}
        word == Min(candidates)
        remaining_bits == length % BITS_PER_WORD
        found == Matching(a[word], value)
        used == IF word = length \div BITS_PER_WORD /\ remaining_bits # 0
                THEN found \cap LowBits(remaining_bits) ELSE found
    IN  IF candidates = {} \/ used = {} THEN NO_BIT_POS
        ELSE [word |-> word, offset |-> count_trailing_zeros(used)]

(***************************************************************************)
(* bit_array_find_next(): the rest of the word of the previous position,   *)
(* then the following words, then - with wraparound - everything up to and *)
(* including the previous position.                                        *)
(***************************************************************************)
bit_array_find_next(a, length, previous, wraparound, value) ==
    LET remaining_bits == length % BITS_PER_WORD
        incomplete == previous.word = length \div BITS_PER_WORD
        previous_bits == IF incomplete THEN remaining_bits ELSE BITS_PER_WORD
        matching == Matching(a[previous.word], value)
        used == IF incomplete THEN matching \cap LowBits(remaining_bits) ELSE matching
        dropped == previous.offset + 1
        rest == ShiftRight(used, dropped)
        skipped == previous.word + 1
        later == bit_array_find_first(
                    [w \in 0..(BIT_ARRAY_WORDS(length) - skipped - 1) |-> a[w + skipped]],
                    length - skipped * BITS_PER_WORD, value)
    IN  IF previous.offset # previous_bits - 1 /\ rest # {}
        THEN [word |-> previous.word, offset |-> dropped + count_trailing_zeros(rest)]
        ELSE IF previous.word # BIT_ARRAY_WORDS(length) - 1 /\ later # NO_BIT_POS
        THEN [later EXCEPT !.word = @ + skipped]
        ELSE IF ~wraparound THEN NO_BIT_POS
        ELSE bit_array_find_first(a, bit_pos_to_index(previous) + 1, value)

(***************************************************************************)
(* Reference: the array as the set of the indices below `length` whose bit *)
(* is `value`.                                                             *)
(***************************************************************************)
Indices(a, length, value) ==
    {i \in 0..(length - 1) : bit_array_get(a, index_to_bit_pos(i)) = value}

PosOfMin(S) == IF S = {} THEN NO_BIT_POS ELSE index_to_bit_pos(Min(S))

RefNext(a, length, p, wraparound, value) ==
    LET S == Indices(a, length, value)
        after == {i \in S : i > p}
    IN  IF after # {} THEN PosOfMin(after)
        ELSE IF wraparound THEN PosOfMin(S) ELSE NO_BIT_POS
=============================================================================
