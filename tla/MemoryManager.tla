--------------------------- MODULE MemoryManager ---------------------------
(***************************************************************************)
(* The memory manager of one kernel: the Makefile's MM option links either *)
(* memoryManagerFF.c or memoryManagerBuddy.c behind memoryManager.h.       *)
(***************************************************************************)
EXTENDS FirstFit, Buddy

VARIABLE MM      \* "FF" or "BUDDY", fixed when the kernel is built

memoryVars == <<MM, live, mem, pc, block, prev, req, hdr, free_lists, alloc_count,
                at, node, level, asked>>

MemoryInit == /\ MM \in {"FF", "BUDDY"}
              /\ FirstFitInit
              /\ BuddyInit

MemoryNext == /\ UNCHANGED MM
              /\ \/ MM = "FF" /\ FirstFitNext /\ UNCHANGED buddyVars
                 \/ MM = "BUDDY" /\ BuddyNext /\ UNCHANGED <<mem, pc, block, prev, req>>

\* A loop of either manager that can go on goes on: nothing interrupts it.
MemorySpec == /\ MemoryInit
              /\ [][MemoryNext]_memoryVars
              /\ WF_memoryVars(Loops /\ UNCHANGED <<buddyVars, MM>>)
              /\ WF_memoryVars(BuddyLoops /\ UNCHANGED <<mem, pc, block, prev, req, MM>>)

(***************************************************************************)
(* Properties                                                              *)
(***************************************************************************)
MemoryTypeOK == /\ IF MM = "FF" THEN FirstFitTypeOK ELSE BuddyTypeOK
                /\ \A c \in live : Chunk(c.ptr, c) = c /\ InHeap(c)

\* Whatever was handed out is still one allocated block, large enough for what
\* its owner asked for, and no block is allocated that nobody holds.
ChunksHaveBlocks == IF MM = "FF" THEN OwnersHaveBlocks ELSE BuddyOwnersHaveBlocks

\* No two free blocks that could be one stay apart once a call has returned.
FreeBlocksMerged == IF MM = "FF" THEN Merged ELSE BuddiesMerged

\* Either manager keeps the promise of memoryManager.h: the chunks that are out
\* never overlap and never leave the heap, and a call concerns one chunk.
ImplementsHeap == HeapSpec

\* The walks along the block list, the halving and the merging end: every call
\* of a manager returns.
CallReturns == (pc # "idle" \/ at # "idle") ~> (pc = "idle" /\ at = "idle")

=============================================================================
