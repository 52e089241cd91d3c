--------------------------- MODULE MemoryStatus ---------------------------
(***************************************************************************)
(* mm_status of either memory manager, called between two other calls: a   *)
(* walk over the headers that adds each block up under what it is used for.*)
(***************************************************************************)
EXTENDS MemoryManager

ZeroStatus == [total |-> 0, free |-> 0, used |-> 0, used_kernel |-> 0, alloc_count |-> 0]

\* The first-fit manager goes along next, and counts as it goes.
RECURSIVE ff_walk(_, _)
ff_walk(a, s) ==
  IF a = NULL THEN s
  ELSE LET bsz == mem[a].size + SizeofMemBlock
           t == [s EXCEPT !.total = @ + bsz]
       IN ff_walk(mem[a].next,
                  IF mem[a].is_free THEN [t EXCEPT !.free = @ + bsz]
                  ELSE IF mem[a].is_kernel THEN [t EXCEPT !.used_kernel = @ + bsz]
                  ELSE [t EXCEPT !.used = @ + bsz, !.alloc_count = @ + 1])

\* The buddy manager goes from block to block by the orders in the headers.
RECURSIVE buddy_walk(_, _)
buddy_walk(off, s) ==
  IF off >= HeapSize
  THEN [s EXCEPT !.total = HeapSize, !.alloc_count = alloc_count]
  ELSE LET bsz == 2 ^ hdr[off].order
       IN buddy_walk(off + bsz,
                     IF hdr[off].is_free THEN [s EXCEPT !.free = @ + bsz]
                     ELSE IF hdr[off].is_kernel THEN [s EXCEPT !.used_kernel = @ + bsz]
                     ELSE [s EXCEPT !.used = @ + bsz])

mm_status == IF MM = "FF" THEN ff_walk(0, ZeroStatus) ELSE buddy_walk(0, ZeroStatus)

\* The comment of MemStatus (memoryManager.h): total == free + used +
\* used_kernel, where total is the whole heap, used has room for everything
\* processes asked for, and alloc_count counts their chunks and no others.
StatusAddsUp ==
  pc = "idle" /\ at = "idle" =>
    LET s == mm_status
        ofUsers == {c \in live : ~c.is_kernel}
    IN /\ s.total = HeapSize
       /\ s.total = s.free + s.used + s.used_kernel
       /\ s.alloc_count = Cardinality(ofUsers)
       /\ s.used >= MapThenSumSet(LAMBDA c : c.size, ofUsers)

=============================================================================
