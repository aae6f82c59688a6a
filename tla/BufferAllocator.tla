--------------------------- MODULE BufferAllocator --------------------------
(***************************************************************************)
(* The buffer allocator of a network thread (src/buffer.c): a memory pool  *)
(* cut into equal buffers, with a bit array of the available ones.  The    *)
(* allocator belongs to one thread, which configures it, takes and returns *)
(* buffers in any order and finalizes it.  Sizes are in units of a small   *)
(* page, and the caches are those of the CPUs the thread may run on.       *)
(***************************************************************************)
EXTENDS BitArray

CONSTANTS UDIPE_MAX_BUFFERS,
          PageSize,
          Cpusets,   \* possible sets of the L1 and L2 caches of the thread's
                     \* CPUs: each a record of size and number of cores
          Callbacks  \* what a configuration callback may return

ASSUME BufferAssumption ==
    /\ UDIPE_MAX_BUFFERS \in Nat \ {0}
    /\ PageSize \in Nat \ {0}
    \* A core's share of a cache is not so small that 80% of it round to nothing,
    \* as the assertions on buffer_size and buffer_count take for granted.
    /\ \A cpus \in Cpusets : cpus # {} /\ \A cpu \in cpus : \A cache \in {cpu.l1, cpu.l2} :
          cache.size \in Nat /\ cache.weight \in Nat \ {0} /\ cache.size >= 2 * cache.weight
    /\ \A c \in Callbacks : {c.buffer_size, c.buffer_count} \subseteq Nat

VARIABLES phase,               \* "off", "on", or "dead" after exit()
          config,              \* config.buffer_size and config.buffer_count
          origin,              \* what that was worked out from (in no variable of the code)
          buffer_availability, \* bit array, 1 = available
          held,                \* buffers in the hands of the client
          returned             \* what buffer_allocate() returned, if that was the last call

vars == <<phase, config, origin, buffer_availability, held, returned>>

NULL == -1
NoCall == -2
Words == 0..(BIT_ARRAY_WORDS(UDIPE_MAX_BUFFERS) - 1)
Zeroed == [w \in Words |-> {}]
NoConfig == [buffer_size |-> 0, buffer_count |-> 0]
NoOrigin == [asked |-> NoConfig, cpus |-> {}]
EndBit == index_to_bit_pos(config.buffer_count)

TypeOK ==
    /\ phase \in {"off", "on", "dead"}
    /\ config \in [buffer_size : Nat, buffer_count : 0..UDIPE_MAX_BUFFERS]
    /\ origin = NoOrigin <=> config = NoConfig
    /\ buffer_availability \in [Words -> SUBSET Offsets]
    /\ held \subseteq 0..(UDIPE_MAX_BUFFERS - 1)
    /\ returned \in {NULL, NoCall} \cup (0..(UDIPE_MAX_BUFFERS - 1))

Init ==
    /\ phase = "off"
    /\ config = NoConfig
    /\ origin = NoOrigin
    /\ buffer_availability = Zeroed
    /\ held = {}
    /\ returned = NoCall

\* smallest_cache_capacity(): 80% of the smallest fair share of a cache.
smallest_cache_capacity(caches) ==
    (8 * Min({c.size \div c.weight : c \in caches})) \div 10

\* The size that finish_configuration() settles on: the L1 share by default,
\* rounded up to whole pages.
FinishSize(asked, cpus) ==
    LET size == IF asked = 0 THEN smallest_cache_capacity({c.l1 : c \in cpus})
                ELSE asked
    IN  IF size % PageSize # 0 THEN size + PageSize - (size % PageSize) ELSE size

\* The number of buffers: enough for the L2 share by default, within bounds.
FinishCount(asked, size, cpus) ==
    LET pool == smallest_cache_capacity({c.l2 : c \in cpus})
        count == DIV_CEIL(pool, size)
    IN  IF asked # 0 THEN asked
        ELSE IF count <= UDIPE_MAX_BUFFERS THEN count ELSE UDIPE_MAX_BUFFERS

(***************************************************************************)
(* buffer_allocator_initialize() with the configuration that the callback  *)
(* returned, or without a callback (all defaults).  The struct is new and  *)
(* zeroed, its bits included.                                              *)
(***************************************************************************)
Initialize ==
    /\ phase = "off"
    /\ \E asked \in Callbacks \cup {NoConfig}, cpus \in Cpusets :
          LET size == FinishSize(asked.buffer_size, cpus)
              count == FinishCount(asked.buffer_count, size, cpus)
              end == index_to_bit_pos(count)
              available == bit_array_range_set(Zeroed, BIT_ARRAY_START, end, TRUE)
          IN  IF count > UDIPE_MAX_BUFFERS
              THEN phase' = "dead" /\ UNCHANGED <<config, origin, buffer_availability>>
              ELSE /\ phase' = "on"
                   /\ config' = [buffer_size |-> size, buffer_count |-> count]
                   /\ origin' = [asked |-> asked, cpus |-> cpus]
                   /\ buffer_availability' = bit_array_range_set(available, end,
                         bit_array_end(UDIPE_MAX_BUFFERS), FALSE)
    /\ UNCHANGED <<held, returned>>

\* A configurator with a context and no callback is refused.
RefuseConfigurator ==
    /\ phase = "off"
    /\ phase' = "dead"
    /\ UNCHANGED <<config, origin, buffer_availability, held, returned>>

\* buffer_allocate(): the first available buffer, or NULL.
Allocate ==
    /\ phase = "on"
    /\ LET bit == bit_array_find_first(buffer_availability, UDIPE_MAX_BUFFERS, TRUE)
       IN  IF bit = NO_BIT_POS
           THEN returned' = NULL /\ UNCHANGED <<buffer_availability, held>>
           ELSE /\ buffer_availability' = bit_array_set(buffer_availability, bit, FALSE)
                /\ returned' = bit_pos_to_index(bit)
                /\ held' = held \cup {returned'}
    /\ UNCHANGED <<phase, config, origin>>

\* Mutant: the bit of the next buffer is set.
LiberateNext ==
    /\ phase = "on"
    /\ \E b \in held :
          /\ buffer_availability' = bit_array_set(buffer_availability,
                index_to_bit_pos((b + 1) % UDIPE_MAX_BUFFERS), TRUE)
          /\ held' = held \ {b}
    /\ returned' = NoCall
    /\ UNCHANGED <<phase, config, origin>>

\* buffer_liberate() of a buffer that the client holds.
Liberate ==
    /\ phase = "on"
    /\ \E b \in held :
          /\ buffer_availability' = bit_array_set(buffer_availability,
                                                  index_to_bit_pos(b), TRUE)
          /\ held' = held \ {b}
    /\ returned' = NoCall
    /\ UNCHANGED <<phase, config, origin>>

\* Mutant: nobody looks whether the buffers are back.
FinalizeUnchecked ==
    /\ phase = "on"
    /\ phase' = "off"
    /\ buffer_availability' = bit_array_range_set(buffer_availability,
                                 BIT_ARRAY_START, EndBit, FALSE)
    /\ config' = NoConfig
    /\ origin' = NoOrigin
    /\ returned' = NoCall
    /\ UNCHANGED held

\* buffer_allocator_finalize(): exits unless all buffers are back.
Finalize ==
    /\ phase = "on"
    /\ IF bit_array_range_alleq(buffer_availability, BIT_ARRAY_START, EndBit, TRUE)
       THEN /\ phase' = "off"
            /\ buffer_availability' = bit_array_range_set(buffer_availability,
                                         BIT_ARRAY_START, EndBit, FALSE)
            /\ config' = NoConfig
            /\ origin' = NoOrigin
       ELSE phase' = "dead" /\ UNCHANGED <<config, origin, buffer_availability>>
    /\ returned' = NoCall
    /\ UNCHANGED held

Next == Initialize \/ RefuseConfigurator \/ Allocate \/ Liberate \/ Finalize

Spec == Init /\ [][Next]_vars
-----------------------------------------------------------------------------
(***************************************************************************)
(* The bits and the buffers in use tell the same story: exactly the        *)
(* buffers below buffer_count that nobody holds are available, and no bit  *)
(* beyond them is ever set, in any configuration.                          *)
(***************************************************************************)
AvailabilityExact ==
    phase # "dead" =>
       Indices(buffer_availability, UDIPE_MAX_BUFFERS, TRUE)
          = (0..(config.buffer_count - 1)) \ held

(***************************************************************************)
(* What finish_configuration() settles on fits the caches, whatever the    *)
(* callback left at its default: buffers are whole pages no smaller than   *)
(* asked for, there is at least one, and unless their number is at its     *)
(* maximum a default pool covers the thread's share of L2 with less than   *)
(* one buffer to spare.                                                    *)
(***************************************************************************)
DefaultsFitCaches ==
    phase = "on" =>
       LET size == config.buffer_size
           count == config.buffer_count
           share == smallest_cache_capacity({c.l2 : c \in origin.cpus})
       IN  /\ size > 0 /\ size % PageSize = 0
           /\ size \in origin.asked.buffer_size..(Max({origin.asked.buffer_size,
                         smallest_cache_capacity({c.l1 : c \in origin.cpus})}) + PageSize - 1)
           /\ count \in 1..UDIPE_MAX_BUFFERS
           /\ origin.asked.buffer_count = 0 =>
                 /\ (count - 1) * size < share
                 /\ count < UDIPE_MAX_BUFFERS => count * size >= share

(***************************************************************************)
(* The searches agree with the reference on every array that the           *)
(* allocator goes through, for every length, whatever is in the padding:   *)
(* bit_array_find_first() and bit_array_find_next() find the first match   *)
(* and the next one, with and without wraparound.                          *)
(***************************************************************************)
SearchesAgree ==
    \A length \in 1..UDIPE_MAX_BUFFERS, value \in BOOLEAN :
       LET a == buffer_availability
       IN  /\ bit_array_find_first(a, length, value)
                 = PosOfMin(Indices(a, length, value))
           /\ \A p \in 0..(length - 1), wrap \in BOOLEAN :
                 bit_array_find_next(a, length, index_to_bit_pos(p), wrap, value)
                    = RefNext(a, length, p, wrap, value)

(***************************************************************************)
(* Counting and the operations on ranges agree with the reference for all  *)
(* ranges that start and end anywhere in any word: bit_array_range_set()   *)
(* changes the bits of the range and no other, padding included.           *)
(***************************************************************************)
RangesAgree ==
    LET a == buffer_availability
        all == 0..(Cardinality(Words) * BITS_PER_WORD - 1)
    IN  \A value \in BOOLEAN :
           /\ \A length \in 0..UDIPE_MAX_BUFFERS :
                 bit_array_count(a, length, value)
                    = Cardinality(Indices(a, length, value))
           /\ \A i, j \in 0..UDIPE_MAX_BUFFERS : i <= j =>
                 LET s == index_to_bit_pos(i)
                     e == index_to_bit_pos(j)
                     b == bit_array_range_set(a, s, e, value)
                 IN  /\ bit_array_range_alleq(a, s, e, value)
                           = (i..(j - 1) \subseteq Indices(a, UDIPE_MAX_BUFFERS, value))
                     /\ \A k \in all :
                           bit_array_get(b, index_to_bit_pos(k))
                              = IF k \in i..(j - 1) THEN value
                                ELSE bit_array_get(a, index_to_bit_pos(k))

Pool == INSTANCE BufferPool WITH MaxBuffers <- UDIPE_MAX_BUFFERS,
                                 count <- config.buffer_count

(***************************************************************************)
(* The allocator implements the abstract pool: buffer_allocate() hands out *)
(* a buffer nobody holds, buffer_allocator_finalize() stops the program    *)
(* exactly if a buffer is still held.                                      *)
(***************************************************************************)
ImplementsPool == Pool!Spec

(***************************************************************************)
(* buffer_allocate() returns NULL only if every buffer is held, and        *)
(* otherwise a buffer of the pool that is now held.                        *)
(***************************************************************************)
RejectedOnlyWhenExhausted ==
    /\ returned = NULL => held = 0..(config.buffer_count - 1)
    /\ returned >= 0 => returned \in held

(***************************************************************************)
(* The allocator is consistent over any sequence of configurations and     *)
(* calls: its bits, its configuration and what it answered.                *)
(***************************************************************************)
AllocatorConsistent ==
    TypeOK /\ AvailabilityExact /\ DefaultsFitCaches /\ RejectedOnlyWhenExhausted

(***************************************************************************)
(* Every operation of bit_array.h, which works word by word, agrees with   *)
(* its definition on sets of indices, over all the arrays, lengths, ranges *)
(* and paddings that the allocator goes through.                           *)
(***************************************************************************)
BitArraysAgree == SearchesAgree /\ RangesAgree
=============================================================================
