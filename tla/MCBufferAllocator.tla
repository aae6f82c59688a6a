------------------------- MODULE MCBufferAllocator --------------------------
(* Instances of BufferAllocator for TLC. *)
EXTENDS BufferAllocator

Cpu(l1, l2, cores) == [l1 |-> [size |-> l1, weight |-> 1],
                       l2 |-> [size |-> l2, weight |-> cores]]

\* One CPU; two unlike CPUs; an L2 shared by four cores.
MCCpusets == {{Cpu(4, 8, 1)}, {Cpu(4, 40, 1), Cpu(7, 30, 2)}, {Cpu(5, 9, 4)}}

\* A given size, a given count (a word boundary, the maximum, too many).
MCCallbacks == {[buffer_size |-> s, buffer_count |-> c] : s \in {0, 3}, c \in {0, 1, 4}}
               \cup {[buffer_size |-> 2, buffer_count |-> c] :
                        c \in {UDIPE_MAX_BUFFERS, UDIPE_MAX_BUFFERS + 1}}
=============================================================================
