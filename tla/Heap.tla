------------------------------- MODULE Heap -------------------------------
(***************************************************************************)
(* What a memory manager promises (Kernel/include/memoryManager.h),        *)
(* whichever of the two the kernel was built with: malloc gives its caller *)
(* a chunk of the heap that nobody else has, or nothing; free takes back   *)
(* one chunk.  A chunk is described by the pointer its owner holds, the    *)
(* size the owner asked for and who the owner is.                          *)
(***************************************************************************)
EXTENDS Integers

CONSTANTS
  HeapSize,      \* mm_init: the heap is 0 .. HeapSize - 1
  Word,          \* uint64_t counts modulo this (2^64)
  UserSizes,     \* the sizes processes ask for (sys_malloc)
  KernelSizes    \* the sizes the kernel asks for (mm_malloc_kernel)

RequestSizes == UserSizes \cup KernelSizes

ASSUME HeapAssumption == /\ HeapSize \in Nat
                         /\ Word \in Nat
                         /\ RequestSizes \subseteq Nat \ {0}

VARIABLE live    \* the chunks that have been given out

Requests == [size : UserSizes, is_kernel : {FALSE}]
              \cup [size : KernelSizes, is_kernel : {TRUE}]

Chunk(p, r) == [ptr |-> p, size |-> r.size, is_kernel |-> r.is_kernel]

InHeap(c) == 0 <= c.ptr /\ 0 < c.size /\ c.ptr + c.size <= HeapSize
Apart(c, d) == c.ptr + c.size <= d.ptr \/ d.ptr + d.size <= c.ptr

HeapInit == live = {}

HeapMalloc == \E c \in live' : /\ c \notin live
                               /\ InHeap(c)
                               /\ \A d \in live : Apart(c, d)
                               /\ live' = live \cup {c}

HeapFree == \E c \in live : live' = live \ {c}

HeapSpec == HeapInit /\ [][HeapMalloc \/ HeapFree]_live

=============================================================================
