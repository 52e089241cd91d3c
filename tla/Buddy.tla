------------------------------- MODULE Buddy -------------------------------
(***************************************************************************)
(* The buddy memory manager (Kernel/c/memoryManager/memoryManagerBuddy.c). *)
(* A block is a power of two of bytes, header included; hdr holds the      *)
(* headers of the blocks there are, free_lists the addresses of the free   *)
(* ones, in the order of the code's linked lists.  As in FirstFit, an      *)
(* iteration of a loop that splits or merges is a step, and a call starts  *)
(* only when no other one is running.                                      *)
(***************************************************************************)
EXTENDS Heap, Sequences, FiniteSets, FiniteSetsExt, SequencesExt

CONSTANT MAX_ORDER     \* 23 in the kernel

MIN_ORDER == 4
SizeofBlockHdr == 8
Orders == MIN_ORDER .. MAX_ORDER

\* What mm_init can cut up completely: kernel.c gives it 2^MAX_ORDER bytes.
ASSUME BuddyAssumption ==
  /\ MAX_ORDER \in Nat /\ MIN_ORDER <= MAX_ORDER
  /\ HeapSize % 2 ^ MIN_ORDER = 0 /\ HeapSize < 2 ^ (MAX_ORDER + 1)

VARIABLES
  hdr,          \* address -> BlockHdr
  free_lists,   \* order -> the free blocks of that order
  alloc_count,  \* the blocks processes hold
  at,           \* idle, or the loop a call is in
  node,         \* the local block of that call, in no list while it runs
  level,        \* its order: found in malloc_impl, order in mm_free
  asked         \* the arguments of malloc_impl

buddyVars == <<hdr, free_lists, alloc_count, at, node, level, asked>>

NoNode == -1
NotAsked == [size |-> 0, is_kernel |-> FALSE]

FreeHdr(o) == [order |-> o, is_free |-> TRUE, is_kernel |-> FALSE]
BuddyPayload(a) == a + SizeofBlockHdr

(***************************************************************************)
(* mm_init: from the largest order down, a block wherever one fits.        *)
(***************************************************************************)
\* The offset the loop has reached when it comes to order o: HeapSize without
\* what the larger orders have not taken.
InitOffset(o) == HeapSize - (HeapSize % 2 ^ (o + 1))

InitOrders == {o \in Orders : InitOffset(o) + 2 ^ o <= HeapSize}

BuddyInit ==
  /\ hdr = [a \in {InitOffset(o) : o \in InitOrders} |->
              FreeHdr(CHOOSE o \in InitOrders : InitOffset(o) = a)]
  /\ free_lists = [o \in Orders |-> IF o \in InitOrders THEN <<InitOffset(o)>> ELSE <<>>]
  /\ alloc_count = 0
  /\ HeapInit
  /\ at = "idle" /\ node = NoNode /\ level = MIN_ORDER /\ asked = NotAsked

BuddyReturn == at' = "idle" /\ node' = NoNode /\ level' = MIN_ORDER /\ asked' = NotAsked

list_push(order, a) == free_lists' = [free_lists EXCEPT ![order] = <<a>> \o @]

(***************************************************************************)
(* mm_malloc, mm_malloc_kernel                                             *)
(***************************************************************************)
\* Mutant of size_to_order: the header is not counted.
order_of_payload(size) ==
  LET fit == {o \in Orders : size - SizeofBlockHdr <= 2 ^ o} IN IF fit = {} THEN -1 ELSE Min(fit)

\* The smallest order with room for size bytes, -1 if there is none.
size_to_order(size) ==
  LET fit == {o \in Orders : size <= 2 ^ o} IN IF fit = {} THEN -1 ELSE Min(fit)

order_for(r) == size_to_order((r.size + SizeofBlockHdr) % Word)

\* The orders that are large enough and have a free block.
Available(r) == {i \in Orders : order_for(r) >= 0 /\ order_for(r) <= i /\ free_lists[i] # <<>>}

\* No order is large enough, or none of those that are has a block: NULL.
buddy_malloc_fails(r) ==
  /\ at = "idle"
  /\ Available(r) = {}
  /\ UNCHANGED <<buddyVars, live>>

\* The first block of the smallest of these orders leaves its list.
buddy_malloc(r) ==
  /\ at = "idle"
  /\ Available(r) # {}
  /\ at' = "split"
  /\ level' = Min(Available(r))
  /\ node' = Head(free_lists[level'])
  /\ free_lists' = [free_lists EXCEPT ![level'] = Tail(@)]
  /\ asked' = r
  /\ UNCHANGED <<hdr, alloc_count, live>>

\* while(found > order): the upper half becomes a free block.
split_node ==
  /\ at = "split" /\ level > order_for(asked)
  /\ level' = level - 1
  /\ hdr' = [x \in DOMAIN hdr \cup {node + 2 ^ level'} |->
               IF x = node + 2 ^ level' THEN FreeHdr(level')
               ELSE IF x = node THEN [hdr[x] EXCEPT !.order = level'] ELSE hdr[x]]
  /\ list_push(level', node + 2 ^ level')
  /\ UNCHANGED <<alloc_count, live, at, node, asked>>

give_node ==
  /\ at = "split" /\ level <= order_for(asked)
  /\ hdr' = [hdr EXCEPT ![node] = [@ EXCEPT !.is_free = FALSE,
                                           !.is_kernel = asked.is_kernel]]
  /\ alloc_count' = IF asked.is_kernel THEN alloc_count ELSE alloc_count + 1
  /\ live' = live \cup {Chunk(BuddyPayload(node), asked)}
  /\ BuddyReturn
  /\ UNCHANGED free_lists

(***************************************************************************)
(* mm_free, of something malloc has returned                               *)
(***************************************************************************)
NoBuddy == -1

\* offset XOR 2^order, if that block lies within the heap.
get_buddy(a, order) ==
  LET b == IF (a \div 2 ^ order) % 2 = 0 THEN a + 2 ^ order ELSE a - 2 ^ order
  IN IF b + 2 ^ order > HeapSize THEN NoBuddy ELSE b

buddy_free(c) ==
  /\ at = "idle"
  /\ at' = "coalesce"
  /\ node' = c.ptr - SizeofBlockHdr
  /\ level' = hdr[node'].order
  /\ alloc_count' = IF hdr[node'].is_kernel THEN alloc_count ELSE alloc_count - 1
  /\ hdr' = [hdr EXCEPT ![node'] = [@ EXCEPT !.is_free = TRUE]]
  /\ live' = live \ {c}
  /\ UNCHANGED <<free_lists, asked>>

\* Mutant of list_remove: only the first of the list is compared.
list_remove_head(order, target) ==
  free_lists' = [free_lists EXCEPT ![order] =
                   IF @ # <<>> /\ Head(@) = target THEN Tail(@) ELSE @]

list_remove(order, target) ==
  free_lists' = [free_lists EXCEPT ![order] = Remove(@, target)]

mergeable(b, order) == b # NoBuddy /\ hdr[b].is_free /\ hdr[b].order = order

can_merge == level < MAX_ORDER /\ mergeable(get_buddy(node, level), level)

\* The free block and its buddy become one, at the lower of their addresses.
merge_node ==
  LET buddy == get_buddy(node, level)
      upper == IF buddy < node THEN node ELSE buddy
  IN /\ at = "coalesce" /\ can_merge
     /\ list_remove(level, buddy)
     /\ node' = IF buddy < node THEN buddy ELSE node
     /\ level' = level + 1
     /\ hdr' = [x \in DOMAIN hdr \ {upper} |->
                  IF x = node' THEN [hdr[x] EXCEPT !.order = level'] ELSE hdr[x]]
     /\ UNCHANGED <<alloc_count, live, at, asked>>

list_node ==
  /\ at = "coalesce" /\ ~can_merge
  /\ list_push(level, node)
  /\ BuddyReturn
  /\ UNCHANGED <<hdr, alloc_count, live>>

BuddyLoops == split_node \/ give_node \/ merge_node \/ list_node

BuddyNext == \/ \E r \in Requests : buddy_malloc(r) \/ buddy_malloc_fails(r)
             \/ \E c \in live : buddy_free(c)
             \/ BuddyLoops

(***************************************************************************)
(* Properties                                                              *)
(***************************************************************************)
BuddyTypeOK ==
  /\ DOMAIN hdr \subseteq 0 .. HeapSize - 1
  /\ hdr \in [DOMAIN hdr -> [order : Orders, is_free : BOOLEAN, is_kernel : BOOLEAN]]
  /\ free_lists \in [Orders -> Seq(DOMAIN hdr)]
  /\ alloc_count \in Nat
  /\ at \in {"idle", "split", "coalesce"}
  /\ node \in DOMAIN hdr \cup {NoNode}
  /\ level \in Orders
  /\ asked \in Requests \cup {NotAsked}

\* A block is in the list of its order, once, exactly while it is free and not
\* in the hands of a call: splits and merges neither lose a block nor leave one
\* in a list it has grown out of.
FreeListsExact ==
  \A o \in Orders :
    /\ IsInjective(free_lists[o])
    /\ ToSet(free_lists[o]) =
         {a \in DOMAIN hdr \ {node} : hdr[a].is_free /\ hdr[a].order = o}

\* An allocated block belongs to one chunk and has room for it.
BuddyOwnersHaveBlocks ==
  /\ \A c \in live : \E a \in DOMAIN hdr :
       /\ c.ptr = BuddyPayload(a)
       /\ ~hdr[a].is_free
       /\ 2 ^ hdr[a].order >= c.size + SizeofBlockHdr
       /\ hdr[a].is_kernel = c.is_kernel
  /\ \A a \in DOMAIN hdr : ~hdr[a].is_free => \E c \in live : c.ptr = BuddyPayload(a)

\* Two free halves of the same block never stay apart.
BuddiesMerged ==
  at = "idle" =>
    \A a \in DOMAIN hdr : hdr[a].is_free /\ hdr[a].order < MAX_ORDER =>
      ~mergeable(get_buddy(a, hdr[a].order), hdr[a].order)

=============================================================================
