----------------------------- MODULE FirstFit -----------------------------
(***************************************************************************)
(* The first-fit memory manager (Kernel/c/memoryManager/memoryManagerFF.c) *)
(* at the level of its block headers: a header is where the pointer        *)
(* arithmetic of the code puts it, and the list is walked along next.      *)
(*                                                                         *)
(* A loop iteration is a step.  Nothing comes between the steps of a call: *)
(* the manager runs inside system calls, with interrupts off, so a call    *)
(* starts only when pc is "idle".  Addresses are offsets from heap_start.  *)
(***************************************************************************)
EXTENDS Heap

SizeofMemBlock == 24
MIN_SPLIT == SizeofMemBlock + 8

\* The heap has room for a header (mm_init checks), and nobody asks for the few
\* sizes just below Word that wrap round to a small block.
ASSUME FirstFitAssumption ==
  /\ SizeofMemBlock < HeapSize
  /\ HeapSize + MIN_SPLIT < Word
  /\ \A n \in RequestSizes : n + 7 + MIN_SPLIT < Word

VARIABLES
  mem,     \* the headers in the list: address -> MemBlock
  pc,      \* idle, or the loop a call is in
  block,   \* the local of that name
  prev,    \* the local of that name in mm_free
  req      \* the arguments of malloc_impl

ffVars == <<mem, live, pc, block, prev, req>>

NULL == -1
NoRequest == [size |-> 0, is_kernel |-> FALSE]

Headers == DOMAIN mem
Payload(a) == a + SizeofMemBlock
EndOf(a) == Payload(a) + mem[a].size

\* mem with the header b written at a, and mem without the header at a.
Write(m, a, b) == [x \in DOMAIN m \cup {a} |-> IF x = a THEN b ELSE m[x]]
Drop(m, a) == [x \in DOMAIN m \ {a} |-> m[x]]

\* (size + 7) & ~7 in uint64_t arithmetic.
align8(n) == LET m == (n + 7) % Word IN m - (m % 8)

\* mm_init: one free block.
FirstFitInit ==
  /\ mem = [a \in {0} |-> [size |-> HeapSize - SizeofMemBlock, is_free |-> TRUE,
                           is_kernel |-> FALSE, next |-> NULL]]
  /\ HeapInit
  /\ pc = "idle"
  /\ block = NULL
  /\ prev = NULL
  /\ req = NoRequest

Return == /\ pc' = "idle"
          /\ block' = NULL
          /\ prev' = NULL
          /\ req' = NoRequest

(***************************************************************************)
(* mm_malloc, mm_malloc_kernel                                             *)
(***************************************************************************)
\* For a size that is not 0; 0 returns NULL at once and changes nothing.
mm_malloc(r) ==
  /\ pc = "idle"
  /\ pc' = "scan"
  /\ block' = 0
  /\ req' = r
  /\ UNCHANGED <<mem, live, prev>>

\* Mutant of fits: blocks that are in use are taken as well.
fits_any(b, n) == b.size >= n

fits(b, n) == b.is_free /\ b.size >= n

\* Mutant of splits: the room for the new header is forgotten.
splits_early(b, n) == b.size >= (n + 8) % Word

splits(b, n) == b.size >= (n + MIN_SPLIT) % Word

\* The block at a keeps n bytes, the rest becomes a free block behind it.
split(m, a, n) ==
  Write(Write(m, Payload(a) + n,
              [size |-> m[a].size - n - SizeofMemBlock,
               is_free |-> TRUE, is_kernel |-> FALSE, next |-> m[a].next]),
        a, [m[a] EXCEPT !.size = n, !.next = Payload(a) + n])

carve(m, a, n) == IF splits(m[a], n) THEN split(m, a, n) ELSE m

\* Mutant of allocated: the owner's mark is set and never reset.
allocated_marks(m, a, is_kernel) ==
  [m EXCEPT ![a] = [m[a] EXCEPT !.is_free = FALSE, !.is_kernel = @ \/ is_kernel]]

allocated(m, a, is_kernel) ==
  [m EXCEPT ![a] = [m[a] EXCEPT !.is_free = FALSE, !.is_kernel = is_kernel]]

take_block ==
  /\ pc = "scan" /\ block # NULL
  /\ fits(mem[block], align8(req.size))
  /\ mem' = allocated(carve(mem, block, align8(req.size)), block, req.is_kernel)
  /\ live' = live \cup {Chunk(Payload(block), req)}
  /\ Return

\* Mutant of skip_block: a free block that is too small is tried for ever.
skip_allocated ==
  /\ pc = "scan" /\ block # NULL
  /\ ~fits(mem[block], align8(req.size))
  /\ block' = IF mem[block].is_free THEN block ELSE mem[block].next
  /\ UNCHANGED <<mem, live, pc, prev, req>>

skip_block ==
  /\ pc = "scan" /\ block # NULL
  /\ ~fits(mem[block], align8(req.size))
  /\ block' = mem[block].next
  /\ UNCHANGED <<mem, live, pc, prev, req>>

\* The list ends: malloc returns NULL.
out_of_memory ==
  /\ pc = "scan" /\ block = NULL
  /\ Return
  /\ UNCHANGED <<mem, live>>

(***************************************************************************)
(* mm_free, of something malloc has returned                               *)
(***************************************************************************)
mm_free(c) ==
  /\ pc = "idle"
  /\ pc' = "absorb"
  /\ block' = c.ptr - SizeofMemBlock
  /\ mem' = [mem EXCEPT ![block'] = [mem[block'] EXCEPT !.is_free = TRUE]]
  /\ live' = live \ {c}
  /\ UNCHANGED <<prev, req>>

\* Mutant of absorb: the absorbed header is lost to the heap.
absorb_payload_only(m, a, b) ==
  Drop([m EXCEPT ![a] = [m[a] EXCEPT !.size = @ + m[b].size,
                                     !.next = m[b].next]], b)

\* The block at a swallows the one at b, header and all.
absorb(m, a, b) ==
  Drop([m EXCEPT ![a] = [m[a] EXCEPT !.size = @ + SizeofMemBlock + m[b].size,
                                     !.next = m[b].next]], b)

next_is_free == mem[block].next # NULL /\ mem[mem[block].next].is_free

absorb_next ==
  /\ pc = "absorb" /\ next_is_free
  /\ mem' = absorb(mem, block, mem[block].next)
  /\ UNCHANGED <<live, pc, block, prev, req>>

look_for_prev ==
  /\ pc = "absorb" /\ ~next_is_free
  /\ pc' = "prev"
  /\ prev' = 0
  /\ UNCHANGED <<mem, live, block, req>>

next_prev ==
  /\ pc = "prev" /\ prev # NULL
  /\ mem[prev].next # block
  /\ prev' = mem[prev].next
  /\ UNCHANGED <<mem, live, pc, block, req>>

\* Mutant of absorb_in_prev: the block before is never merged with.
prev_left_alone ==
  /\ pc = "prev"
  /\ (prev # NULL => mem[prev].next = block)
  /\ UNCHANGED mem
  /\ Return
  /\ UNCHANGED live

absorb_in_prev ==
  /\ pc = "prev"
  /\ (prev # NULL => mem[prev].next = block)
  /\ mem' = IF prev # NULL /\ mem[prev].is_free
            THEN absorb(mem, prev, block) ELSE mem
  /\ Return
  /\ UNCHANGED live

Loops == \/ take_block
         \/ skip_block
         \/ out_of_memory
         \/ absorb_next
         \/ look_for_prev
         \/ next_prev
         \/ absorb_in_prev

FirstFitNext ==
  \/ \E r \in Requests : mm_malloc(r)
  \/ \E c \in live : mm_free(c)
  \/ Loops

FirstFitSpec == FirstFitInit /\ [][FirstFitNext]_ffVars /\ WF_ffVars(Loops)

(***************************************************************************)
(* Properties                                                              *)
(***************************************************************************)
FirstFitTypeOK ==
  /\ Headers \subseteq 0 .. HeapSize - SizeofMemBlock
  /\ mem \in [Headers -> [size : Nat, is_free : BOOLEAN, is_kernel : BOOLEAN,
                          next : Headers \cup {NULL}]]
  /\ pc \in {"idle", "scan", "absorb", "prev"}
  /\ block \in Headers \cup {NULL} /\ prev \in Headers \cup {NULL}
  /\ req \in Requests \cup {NoRequest}

\* The blocks tile the heap through any order of splits and merges: each ends
\* where the next one in the list starts, the last at the end of the heap.
Tiles ==
  /\ 0 \in Headers
  /\ \A a \in Headers :
       \/ EndOf(a) = HeapSize /\ mem[a].next = NULL
       \/ EndOf(a) \in Headers /\ mem[a].next = EndOf(a)

\* Whatever was handed out is still an allocated block, large enough for what
\* its owner asked for, and there are no other allocated blocks.
OwnersHaveBlocks ==
  /\ \A c \in live : \E a \in Headers : /\ c.ptr = Payload(a)
                                        /\ ~mem[a].is_free
                                        /\ mem[a].size >= c.size
                                        /\ mem[a].is_kernel = c.is_kernel
  /\ \A a \in Headers : ~mem[a].is_free => \E c \in live : c.ptr = Payload(a)

\* Between calls no free block is followed by a free block.
Merged ==
  pc = "idle" =>
    \A a \in Headers : mem[a].is_free /\ mem[a].next # NULL
                         => ~mem[mem[a].next].is_free

=============================================================================
