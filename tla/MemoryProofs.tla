--------------------------- MODULE MemoryProofs ---------------------------
(***************************************************************************)
(* Proofs about the first-fit memory manager, for every heap size and      *)
(* every set of request sizes: its blocks tile the heap, what it hands out *)
(* is an allocated block of its own, adjacent free blocks are merged when  *)
(* a call returns, and so it implements Heap.                              *)
(*                                                                         *)
(* Tiles is not inductive: a list can be well linked and still have two    *)
(* headers one inside the other's block.  Layout adds that blocks do not   *)
(* overlap, which makes the list a chain of increasing addresses; what the *)
(* loop of mm_free for the previous block has already passed is an         *)
(* invariant about addresses only because of that.                         *)
(*                                                                         *)
(* The last part carries the results over to the kernel that is built with *)
(* either manager.                                                         *)
(***************************************************************************)
EXTENDS MemoryManager, TLAPS

(***************************************************************************)
(* The inductive invariant                                                 *)
(***************************************************************************)
Ends(m, a) == a + SizeofMemBlock + m[a].size

MemBlocks(m) == [size : Nat, is_free : BOOLEAN, is_kernel : BOOLEAN,
                 next : DOMAIN m \cup {NULL}]

HeadersOK(m) == /\ DOMAIN m \subseteq 0 .. HeapSize - SizeofMemBlock
                /\ m \in [DOMAIN m -> MemBlocks(m)]

Linked(m) == /\ 0 \in DOMAIN m
             /\ \A a \in DOMAIN m :
                  \/ Ends(m, a) = HeapSize /\ m[a].next = NULL
                  \/ Ends(m, a) \in DOMAIN m /\ m[a].next = Ends(m, a)

Disjoint(m) == \A a, b \in DOMAIN m : a < b => Ends(m, a) <= b

Layout(m) == HeadersOK(m) /\ Linked(m) /\ Disjoint(m)

Chunks == [ptr : Nat, size : RequestSizes, is_kernel : BOOLEAN]

BlockOf(c) == c.ptr - SizeofMemBlock

\* The chunks L are the allocated blocks of m, one chunk to a block.
Owned(m, L) ==
  /\ L \subseteq Chunks
  /\ \A c \in L : /\ BlockOf(c) \in DOMAIN m
                  /\ ~m[BlockOf(c)].is_free
                  /\ m[BlockOf(c)].size >= c.size
                  /\ m[BlockOf(c)].is_kernel = c.is_kernel
  /\ \A a \in DOMAIN m : ~m[a].is_free => \E c \in L : c.ptr = Payload(a)
  /\ \A c, d \in L : c.ptr = d.ptr => c = d

\* The locals of the call that is running.
CallOK ==
  /\ pc \in {"idle", "scan", "absorb", "prev"}
  /\ block \in Headers \cup {NULL}
  /\ prev \in Headers \cup {NULL}
  /\ req \in Requests \cup {NoRequest}
  /\ pc # "prev" => prev = NULL
  /\ pc = "scan" => req \in Requests
  /\ pc \in {"absorb", "prev"} => block \in Headers /\ mem[block].is_free

\* The walk to the block before has not passed it.
WalkOK ==
  pc = "prev" => /\ ~next_is_free
                 /\ \A a \in Headers : mem[a].next = block => prev # NULL /\ prev <= a

\* Two adjacent free blocks: only around the one mm_free is at.
FreePairs ==
  \A a \in Headers :
    mem[a].is_free /\ mem[a].next # NULL /\ mem[mem[a].next].is_free =>
      \/ pc \in {"absorb", "prev"} /\ mem[a].next = block
      \/ pc = "absorb" /\ a = block

FFInv == Layout(mem) /\ Owned(mem, live) /\ CallOK /\ WalkOK /\ FreePairs

(***************************************************************************)
(* Sizes                                                                   *)
(***************************************************************************)
LEMMA Constants ==
  /\ HeapSize \in Nat /\ Word \in Nat /\ SizeofMemBlock = 24 /\ MIN_SPLIT = 32
  /\ 24 < HeapSize /\ HeapSize + 32 < Word
  /\ \A n \in RequestSizes : n \in Nat /\ 0 < n /\ n + 39 < Word
BY HeapAssumption, FirstFitAssumption DEF SizeofMemBlock, MIN_SPLIT

\* The alignment of malloc_impl rounds up and does not wrap.
LEMMA AlignUp ==
  ASSUME NEW n \in RequestSizes
  PROVE  /\ align8(n) \in Nat /\ n <= align8(n)
         /\ (align8(n) + MIN_SPLIT) % Word = align8(n) + MIN_SPLIT
<1>1. n \in Nat /\ n + 7 < Word /\ n + 39 < Word /\ Word \in Nat
  BY Constants
<1>2. (n + 7) % Word = n + 7
  BY <1>1
<1>3. (n + 7) % 8 \in 0 .. 7
  BY <1>1
<1>4. align8(n) = (n + 7) - ((n + 7) % 8)
  BY <1>2 DEF align8
<1> DEFINE r == (n + 7) % 8
<1>5. align8(n) = (n + 7) - r /\ r \in 0 .. 7
  BY <1>3, <1>4
<1> HIDE DEF r
<1>6. align8(n) \in Nat /\ n <= align8(n) /\ align8(n) + 32 < Word
  BY <1>1, <1>5
<1> QED BY <1>1, <1>6, Constants

\* The fields of a request.
LEMMA RequestSize ==
  ASSUME NEW r \in Requests
  PROVE  r.size \in RequestSizes /\ r.is_kernel \in BOOLEAN
BY DEF Requests, RequestSizes

(***************************************************************************)
(* Layouts                                                                 *)
(***************************************************************************)
\* The fields of a header, and where its block may end.
LEMMA Header ==
  ASSUME NEW m, Layout(m), NEW a \in DOMAIN m
  PROVE  /\ a \in Nat /\ a <= HeapSize - 24
         /\ m[a] \in MemBlocks(m)
         /\ m[a].size \in Nat /\ m[a].is_free \in BOOLEAN
         /\ m[a].is_kernel \in BOOLEAN /\ m[a].next \in DOMAIN m \cup {NULL}
         /\ Ends(m, a) \in Nat /\ Ends(m, a) = a + 24 + m[a].size
         /\ Ends(m, a) <= HeapSize
<1>1. a \in Nat /\ a <= HeapSize - 24 /\ m[a] \in MemBlocks(m)
  BY Constants DEF Layout, HeadersOK
<1>2. /\ m[a].size \in Nat /\ m[a].is_free \in BOOLEAN
      /\ m[a].is_kernel \in BOOLEAN /\ m[a].next \in DOMAIN m \cup {NULL}
  BY <1>1 DEF MemBlocks
<1>3. Ends(m, a) \in Nat /\ Ends(m, a) = a + 24 + m[a].size
  BY <1>1, <1>2, Constants DEF Ends
<1>4. Ends(m, a) <= HeapSize
  <2>1. Ends(m, a) \in DOMAIN m => Ends(m, a) <= HeapSize
    BY Constants DEF Layout, HeadersOK
  <2> QED BY <2>1, <1>3, Constants DEF Layout, Linked
<1> QED BY <1>1, <1>2, <1>3, <1>4

\* next goes up and leads back to one block only.
LEMMA NextUp ==
  ASSUME NEW m, Layout(m), NEW a \in DOMAIN m, m[a].next # NULL
  PROVE  /\ m[a].next \in DOMAIN m /\ m[a].next = Ends(m, a)
         /\ a < m[a].next
         /\ \A b \in DOMAIN m : m[b].next = m[a].next => b = a
<1>1. m[a].next \in DOMAIN m /\ m[a].next = Ends(m, a)
  BY DEF Layout, Linked
<1>2. a < m[a].next
  BY <1>1, Header
<1>3. ASSUME NEW b \in DOMAIN m, m[b].next = m[a].next, b # a
      PROVE  FALSE
  <2>1. Ends(m, b) = Ends(m, a)
    BY <1>1, <1>3 DEF Layout, Linked
  <2>2. /\ a \in Nat /\ b \in Nat /\ m[a].size \in Nat /\ m[b].size \in Nat
        /\ Ends(m, a) = a + 24 + m[a].size /\ Ends(m, b) = b + 24 + m[b].size
    BY Header
  <2>3. (a < b => Ends(m, a) <= b) /\ (b < a => Ends(m, b) <= a)
    BY DEF Layout, Disjoint
  <2> QED BY <1>3, <2>1, <2>2, <2>3
<1> QED BY <1>1, <1>2, <1>3

\* A function with the same headers but for their flags has the same layout.
LEMMA Relabelled ==
  ASSUME NEW m, Layout(m), NEW w, DOMAIN w = DOMAIN m,
         w \in [DOMAIN m -> MemBlocks(m)],
         \A a \in DOMAIN m : w[a].size = m[a].size /\ w[a].next = m[a].next
  PROVE  Layout(w)
<1>1. \A a \in DOMAIN m : Ends(w, a) = Ends(m, a)
  BY DEF Ends
<1>2. HeadersOK(w)
  BY DEF Layout, HeadersOK, MemBlocks
<1> QED BY <1>1, <1>2 DEF Layout, Linked, Disjoint

\* Cutting a block in two: the headers afterwards ...
LEMMA SplitHeaders ==
  ASSUME NEW m, Layout(m), NEW a \in DOMAIN m, NEW n \in Nat,
         n + MIN_SPLIT <= m[a].size,
         NEW e, e = Payload(a) + n, NEW w, w = split(m, a, n)
  PROVE  /\ e \in Nat /\ e \notin DOMAIN m /\ a < e
         /\ e = a + 24 + n /\ e + 32 <= Ends(m, a)
         /\ DOMAIN w = DOMAIN m \cup {e} /\ w = [x \in DOMAIN w |-> w[x]]
         /\ w[a] \in MemBlocks(w) /\ w[e] \in MemBlocks(w)
         /\ w[a].size = n /\ w[a].next = e
         /\ w[a].is_free = m[a].is_free /\ w[a].is_kernel = m[a].is_kernel
         /\ w[e].size = m[a].size - n - 24 /\ w[e].next = m[a].next
         /\ w[e].is_free /\ ~w[e].is_kernel
         /\ \A x \in DOMAIN m \ {a} : w[x] = m[x]
<1>1. /\ a \in Nat /\ m[a].size \in Nat /\ SizeofMemBlock = 24 /\ MIN_SPLIT = 32
      /\ Ends(m, a) = a + 24 + m[a].size
      /\ m[a].next \in DOMAIN m \cup {NULL}
      /\ m[a] \in [size : Nat, is_free : BOOLEAN, is_kernel : BOOLEAN,
                   next : DOMAIN m \cup {NULL}]
  BY Header, Constants DEF MemBlocks
<1>2. e \in Nat /\ e = a + 24 + n /\ a < e /\ e + 32 <= Ends(m, a)
  BY <1>1 DEF Payload
<1>3. e \notin DOMAIN m
  <2> SUFFICES ASSUME e \in DOMAIN m PROVE FALSE
    OBVIOUS
  <2>1. Ends(m, a) <= e
    BY <1>2 DEF Layout, Disjoint
  <2> QED BY <1>1, <1>2, <2>1
<1>4. a # e /\ m[a].size - n - 24 \in Nat
  BY <1>1, <1>2
<1> DEFINE low == [m[a] EXCEPT !.size = n, !.next = e]
           high == [size |-> m[a].size - n - 24, is_free |-> TRUE,
                    is_kernel |-> FALSE, next |-> m[a].next]
<1>5. /\ low \in [size : Nat, is_free : BOOLEAN, is_kernel : BOOLEAN,
                  next : DOMAIN m \cup {e, NULL}]
      /\ low.size = n /\ low.next = e
      /\ low.is_free = m[a].is_free /\ low.is_kernel = m[a].is_kernel
  BY <1>1
<1>6. /\ high \in [size : Nat, is_free : BOOLEAN, is_kernel : BOOLEAN,
                   next : DOMAIN m \cup {e, NULL}]
      /\ high.size = m[a].size - n - 24 /\ high.next = m[a].next
      /\ high.is_free /\ ~high.is_kernel
  BY <1>1, <1>4
<1>7. w = Write(Write(m, e, high), a, low)
  BY <1>1 DEF split
<1> HIDE DEF low, high
<1>8. /\ DOMAIN w = DOMAIN m \cup {e} /\ w = [x \in DOMAIN w |-> w[x]]
      /\ w[a] = low /\ w[e] = high
      /\ \A x \in DOMAIN m \ {a} : w[x] = m[x]
  BY <1>3, <1>4, <1>7 DEF Write
<1>9. DOMAIN m \cup {e, NULL} = DOMAIN w \cup {NULL}
  BY <1>8
<1>10. w[a] \in MemBlocks(w) /\ w[e] \in MemBlocks(w)
  BY <1>5, <1>6, <1>8, <1>9 DEF MemBlocks
<1> QED BY <1>2, <1>3, <1>5, <1>6, <1>8, <1>10

\* ... still tile the heap.
LEMMA SplitLayout ==
  ASSUME NEW m, Layout(m), NEW a \in DOMAIN m, NEW n \in Nat,
         n + MIN_SPLIT <= m[a].size
  PROVE  Layout(split(m, a, n))
<1> DEFINE w == split(m, a, n)
           e == Payload(a) + n
<1>e. e = Payload(a) + n /\ w = split(m, a, n)
  OBVIOUS
<1> HIDE DEF e, w
<1>1. /\ e \in Nat /\ e \notin DOMAIN m /\ a < e
      /\ e = a + 24 + n /\ e + 32 <= Ends(m, a)
      /\ DOMAIN w = DOMAIN m \cup {e} /\ w = [x \in DOMAIN w |-> w[x]]
      /\ w[a] \in MemBlocks(w) /\ w[e] \in MemBlocks(w)
      /\ w[a].size = n /\ w[a].next = e
      /\ w[e].size = m[a].size - n - 24 /\ w[e].next = m[a].next
      /\ \A x \in DOMAIN m \ {a} : w[x] = m[x]
  BY <1>e, SplitHeaders
<1>2. /\ a \in Nat /\ a # e /\ m[a].size \in Nat
      /\ Ends(m, a) = a + 24 + m[a].size /\ Ends(m, a) <= HeapSize
  BY <1>1, Header, Constants
<1>4. Ends(w, a) = e /\ Ends(w, e) = Ends(m, a)
  BY <1>1, <1>2, Constants DEF Ends
<1>5. \A x \in DOMAIN m \ {a} : Ends(w, x) = Ends(m, x) /\ w[x].next = m[x].next
  BY <1>1 DEF Ends
<1>6. HeadersOK(w)
  <2>1. DOMAIN w \subseteq 0 .. HeapSize - SizeofMemBlock
    BY <1>1, <1>2, Constants DEF Layout, HeadersOK
  <2>2. ASSUME NEW x \in DOMAIN m \ {a} PROVE w[x] \in MemBlocks(w)
    <3>1. m[x] \in MemBlocks(m)
      BY Header
    <3> QED BY <1>1, <3>1 DEF MemBlocks
  <2>3. w \in [DOMAIN w -> MemBlocks(w)]
    BY <1>1, <2>2
  <2> QED BY <2>1, <2>3 DEF HeadersOK
<1>7. Linked(w)
  <2>1. 0 \in DOMAIN w
    BY <1>1 DEF Layout, Linked
  <2>2. ASSUME NEW x \in DOMAIN w
        PROVE  \/ Ends(w, x) = HeapSize /\ w[x].next = NULL
               \/ Ends(w, x) \in DOMAIN w /\ w[x].next = Ends(w, x)
    <3>1. CASE x = a
      BY <1>1, <1>4, <3>1
    <3>2. CASE x = e
      BY <1>1, <1>4, <3>2 DEF Layout, Linked
    <3>3. CASE x \in DOMAIN m \ {a}
      BY <1>1, <1>5, <3>3 DEF Layout, Linked
    <3> QED BY <1>1, <3>1, <3>2, <3>3
  <2> QED BY <2>1, <2>2 DEF Linked
<1>8. Disjoint(w)
  <2> SUFFICES ASSUME NEW x \in DOMAIN w, NEW y \in DOMAIN w, x < y
               PROVE  Ends(w, x) <= y
    BY DEF Disjoint
  <2>1. \A z \in DOMAIN m : z \in Nat /\ Ends(m, z) \in Nat
    BY Header
  <2>2. \A z, u \in DOMAIN m : z < u => Ends(m, z) <= u
    BY DEF Layout, Disjoint
  <2>3. CASE x = a
    <3>1. CASE y = e
      BY <1>4, <1>1, <2>3, <3>1
    <3>2. CASE y \in DOMAIN m
      BY <1>1, <1>2, <1>4, <2>1, <2>2, <2>3, <3>2
    <3> QED BY <1>1, <3>1, <3>2
  <2>4. CASE x = e
    BY <1>1, <1>2, <1>4, <2>1, <2>2, <2>4
  <2>5. CASE x \in DOMAIN m \ {a}
    <3>1. CASE y = e
      <4>1. x < a => Ends(m, x) <= a
        BY <2>2, <2>5
      <4>2. a < x => Ends(m, a) <= x
        BY <2>2, <2>5
      <4> QED BY <1>1, <1>2, <1>5, <2>1, <2>5, <3>1, <4>1, <4>2
    <3>2. CASE y \in DOMAIN m
      BY <1>5, <2>2, <2>5, <3>2
    <3> QED BY <1>1, <3>1, <3>2
  <2> QED BY <1>1, <2>3, <2>4, <2>5
<1>9. Layout(w)
  BY <1>6, <1>7, <1>8 DEF Layout
<1> QED BY <1>9, <1>e

\* One block swallowing the next: the headers afterwards ...
LEMMA AbsorbHeaders ==
  ASSUME NEW m, Layout(m), NEW a \in DOMAIN m, m[a].next # NULL,
         NEW b, b = m[a].next, NEW w, w = absorb(m, a, b)
  PROVE  /\ b \in DOMAIN m /\ a < b /\ b = Ends(m, a)
         /\ \A x \in DOMAIN m : m[x].next = b => x = a
         /\ DOMAIN w = DOMAIN m \ {b} /\ w = [x \in DOMAIN w |-> w[x]]
         /\ w[a] \in MemBlocks(w)
         /\ w[a].size = m[a].size + 24 + m[b].size /\ w[a].next = m[b].next
         /\ w[a].is_free = m[a].is_free /\ w[a].is_kernel = m[a].is_kernel
         /\ \A x \in DOMAIN m \ {a, b} : w[x] = m[x]
<1>1. /\ b \in DOMAIN m /\ a < b /\ b = Ends(m, a)
      /\ \A x \in DOMAIN m : m[x].next = b => x = a
  BY NextUp
<1>2. /\ a \in Nat /\ b \in Nat /\ a # b
      /\ m[a].size \in Nat /\ m[b].size \in Nat
      /\ m[b].next \in DOMAIN m \cup {NULL}
      /\ m[a] \in [size : Nat, is_free : BOOLEAN, is_kernel : BOOLEAN,
                   next : DOMAIN m \cup {NULL}]
  BY <1>1, Header DEF MemBlocks
<1>3. m[b].next \in (DOMAIN m \ {b}) \cup {NULL}
  BY <1>1, <1>2, NextUp
<1> DEFINE n == m[a].size + 24 + m[b].size
           big == [m[a] EXCEPT !.size = n, !.next = m[b].next]
<1>4. n = m[a].size + SizeofMemBlock + m[b].size /\ n \in Nat
  BY <1>2, Constants
<1> HIDE DEF n
<1>5. /\ big \in [size : Nat, is_free : BOOLEAN, is_kernel : BOOLEAN,
                  next : (DOMAIN m \ {b}) \cup {NULL}]
      /\ big.size = n /\ big.next = m[b].next
      /\ big.is_free = m[a].is_free /\ big.is_kernel = m[a].is_kernel
  BY <1>2, <1>3, <1>4
<1>6. w = Drop([m EXCEPT ![a] = big], b)
  BY <1>4 DEF absorb
<1> HIDE DEF big
<1>7. /\ DOMAIN w = DOMAIN m \ {b} /\ w = [x \in DOMAIN w |-> w[x]]
      /\ w[a] = big
      /\ \A x \in DOMAIN m \ {a, b} : w[x] = m[x]
  BY <1>2, <1>6 DEF Drop
<1>8. w[a] \in MemBlocks(w)
  BY <1>5, <1>7 DEF MemBlocks
<1> QED BY <1>1, <1>5, <1>7, <1>8 DEF n

\* ... still tile the heap.
LEMMA AbsorbLayout ==
  ASSUME NEW m, Layout(m), NEW a \in DOMAIN m, m[a].next # NULL
  PROVE  Layout(absorb(m, a, m[a].next))
<1> DEFINE b == m[a].next
           w == absorb(m, a, b)
<1>e. b = m[a].next /\ w = absorb(m, a, b)
  OBVIOUS
<1> HIDE DEF w, b
<1>1. /\ b \in DOMAIN m /\ a < b /\ b = Ends(m, a)
      /\ \A x \in DOMAIN m : m[x].next = b => x = a
      /\ DOMAIN w = DOMAIN m \ {b} /\ w = [x \in DOMAIN w |-> w[x]]
      /\ w[a] \in MemBlocks(w)
      /\ w[a].size = m[a].size + 24 + m[b].size /\ w[a].next = m[b].next
      /\ \A x \in DOMAIN m \ {a, b} : w[x] = m[x]
  BY <1>e, AbsorbHeaders, SMTT(60)
<1>2. /\ a \in Nat /\ b \in Nat /\ a # b
      /\ m[a].size \in Nat /\ m[b].size \in Nat
      /\ Ends(m, a) = a + 24 + m[a].size /\ Ends(m, b) = b + 24 + m[b].size
  BY <1>1, Header
<1>n. m[b].next # b
  BY <1>1, <1>2
<1>4. Ends(w, a) = Ends(m, b)
  BY <1>1, <1>2, Constants DEF Ends
<1>5. \A x \in DOMAIN m \ {a, b} : Ends(w, x) = Ends(m, x) /\ w[x].next = m[x].next
  BY <1>1 DEF Ends
<1>6. HeadersOK(w)
  <2>1. DOMAIN w \subseteq 0 .. HeapSize - SizeofMemBlock
    BY <1>1 DEF Layout, HeadersOK
  <2>2. ASSUME NEW x \in DOMAIN m \ {a, b} PROVE w[x] \in MemBlocks(w)
    <3>1. m[x] \in MemBlocks(m) /\ m[x].next # b
      BY <1>1, Header
    <3> QED BY <1>1, <3>1 DEF MemBlocks
  <2>3. w \in [DOMAIN w -> MemBlocks(w)]
    BY <1>1, <2>2
  <2> QED BY <2>1, <2>3 DEF HeadersOK
<1>7. Linked(w)
  <2>1. 0 \in DOMAIN w
    BY <1>1, <1>2 DEF Layout, Linked
  <2>2. ASSUME NEW x \in DOMAIN w
        PROVE  \/ Ends(w, x) = HeapSize /\ w[x].next = NULL
               \/ Ends(w, x) \in DOMAIN w /\ w[x].next = Ends(w, x)
    <3>1. CASE x = a
      BY <1>1, <1>4, <1>n, <3>1 DEF Layout, Linked
    <3>2. CASE x \in DOMAIN m \ {a, b}
      <4>1. m[x].next # b
        BY <1>1, <3>2
      <4> QED BY <1>1, <1>5, <3>2, <4>1 DEF Layout, Linked
    <3> QED BY <1>1, <3>1, <3>2
  <2> QED BY <2>1, <2>2 DEF Linked
<1>8. Disjoint(w)
  <2> SUFFICES ASSUME NEW x \in DOMAIN w, NEW y \in DOMAIN w, x < y
               PROVE  Ends(w, x) <= y
    BY DEF Disjoint
  <2>1. \A z \in DOMAIN m : z \in Nat /\ Ends(m, z) \in Nat
    BY Header
  <2>2. \A z, u \in DOMAIN m : z < u => Ends(m, z) <= u
    BY DEF Layout, Disjoint
  <2>3. CASE x = a
    <3>1. y \in DOMAIN m /\ y # b /\ Ends(m, a) <= y
      BY <1>1, <2>2, <2>3
    <3>2. b < y
      BY <1>1, <2>1, <3>1
    <3> QED BY <1>1, <1>4, <2>2, <2>3, <3>1, <3>2
  <2>4. CASE x \in DOMAIN m \ {a, b}
    BY <1>1, <1>5, <2>2, <2>4
  <2> QED BY <1>1, <2>3, <2>4
<1>9. Layout(w)
  BY <1>6, <1>7, <1>8 DEF Layout
<1> QED BY <1>9, <1>e

\* What take_block leaves of the block at a: the headers, and the layout.
LEMMA Carve ==
  ASSUME NEW m, Layout(m), NEW a \in DOMAIN m, m[a].is_free,
         NEW r \in Requests, m[a].size >= align8(r.size),
         NEW w, w = allocated(carve(m, a, align8(r.size)), a, r.is_kernel)
  PROVE  /\ Layout(w) /\ a \in DOMAIN w /\ DOMAIN m \subseteq DOMAIN w
         /\ ~w[a].is_free /\ w[a].is_kernel = r.is_kernel /\ w[a].size >= r.size
         /\ \A x \in DOMAIN m \ {a} : w[x] = m[x]
         /\ \A x \in DOMAIN w \ DOMAIN m : w[x].is_free /\ w[x].next = m[a].next
<1> DEFINE n == align8(r.size)
           c == carve(m, a, n)
<1>1. /\ n \in Nat /\ r.size <= n /\ (n + MIN_SPLIT) % Word = n + MIN_SPLIT
      /\ r.is_kernel \in BOOLEAN /\ r.size \in Nat
  BY RequestSize, AlignUp, Constants
<1>2. w = [c EXCEPT ![a] = [c[a] EXCEPT !.is_free = FALSE, !.is_kernel = r.is_kernel]]
  BY DEF allocated
<1>n. m[a].size >= n /\ c = carve(m, a, n)
  OBVIOUS
<1> HIDE DEF n, c
<1>3. /\ Layout(c) /\ a \in DOMAIN c /\ DOMAIN m \subseteq DOMAIN c /\ c[a].size >= n
      /\ \A x \in DOMAIN m \ {a} : c[x] = m[x]
      /\ \A x \in DOMAIN c \ DOMAIN m : c[x].is_free /\ c[x].next = m[a].next
  <2>1. CASE splits(m[a], n)
    <3>1. n + MIN_SPLIT <= m[a].size
      BY <1>1, <2>1, Header, Constants DEF splits
    <3>2. c = split(m, a, n)
      BY <1>n, <2>1 DEF carve
    <3>0. n \in Nat
      BY <1>1
    <3> DEFINE e == Payload(a) + n
    <3>e. e = Payload(a) + n
      OBVIOUS
    <3> HIDE DEF e
    <3>3. /\ e \in Nat /\ e \notin DOMAIN m /\ DOMAIN c = DOMAIN m \cup {e}
          /\ c[a].size = n /\ c[e].next = m[a].next
          /\ \A x \in DOMAIN m \ {a} : c[x] = m[x]
      BY <3>0, <3>1, <3>2, <3>e, SplitHeaders
    <3>5. c[e].is_free
      BY <3>0, <3>1, <3>2, <3>e, SplitHeaders, ZenonT(60)
    <3>4. Layout(c)
      BY <1>1, <3>1, <3>2, SplitLayout
    <3> QED BY <1>1, <3>3, <3>4, <3>5
  <2>2. CASE ~splits(m[a], n)
    BY <1>n, <2>2 DEF carve
  <2> QED BY <2>1, <2>2
<1>4. /\ c[a] \in [size : Nat, is_free : BOOLEAN, is_kernel : BOOLEAN,
                   next : DOMAIN c \cup {NULL}]
      /\ c \in [DOMAIN c -> MemBlocks(c)]
  BY <1>3, Header DEF MemBlocks, Layout, HeadersOK
<1> DEFINE b == [c[a] EXCEPT !.is_free = FALSE, !.is_kernel = r.is_kernel]
<1>5. /\ b \in [size : Nat, is_free : BOOLEAN, is_kernel : BOOLEAN,
                next : DOMAIN c \cup {NULL}]
      /\ b.size = c[a].size /\ b.next = c[a].next
      /\ ~b.is_free /\ b.is_kernel = r.is_kernel
  BY <1>1, <1>4
<1>6. w = [c EXCEPT ![a] = b]
  BY <1>2
<1> HIDE DEF b
<1>7. /\ DOMAIN w = DOMAIN c /\ w[a] = b /\ \A x \in DOMAIN c \ {a} : w[x] = c[x]
      /\ w \in [DOMAIN c -> MemBlocks(c)]
  BY <1>3, <1>4, <1>5, <1>6 DEF MemBlocks
<1>8. Layout(w)
  BY <1>3, <1>5, <1>7, Relabelled
<1>9. w[a].size >= r.size
  BY <1>1, <1>3, <1>4, <1>5, <1>7
<1> QED BY <1>3, <1>5, <1>7, <1>8, <1>9

\* Giving back the block at a: nothing but its flag changes.
LEMMA Mark ==
  ASSUME NEW m, Layout(m), NEW a \in DOMAIN m,
         NEW w, w = [m EXCEPT ![a] = [m[a] EXCEPT !.is_free = TRUE]]
  PROVE  /\ Layout(w) /\ DOMAIN w = DOMAIN m /\ w[a].is_free
         /\ \A x \in DOMAIN m : w[x].next = m[x].next
         /\ \A x \in DOMAIN m \ {a} : w[x] = m[x]
<1>1. /\ m[a] \in [size : Nat, is_free : BOOLEAN, is_kernel : BOOLEAN,
                   next : DOMAIN m \cup {NULL}]
      /\ m \in [DOMAIN m -> MemBlocks(m)]
  BY Header DEF MemBlocks, Layout, HeadersOK
<1> DEFINE b == [m[a] EXCEPT !.is_free = TRUE]
<1>2. /\ b \in [size : Nat, is_free : BOOLEAN, is_kernel : BOOLEAN,
                next : DOMAIN m \cup {NULL}]
      /\ b.size = m[a].size /\ b.next = m[a].next /\ b.is_free
  BY <1>1
<1>3. w = [m EXCEPT ![a] = b]
  OBVIOUS
<1> HIDE DEF b
<1>4. /\ DOMAIN w = DOMAIN m /\ w[a] = b /\ \A x \in DOMAIN m \ {a} : w[x] = m[x]
      /\ w \in [DOMAIN m -> MemBlocks(m)]
  BY <1>1, <1>2, <1>3 DEF MemBlocks
<1>5. Layout(w)
  BY <1>2, <1>4, Relabelled
<1> QED BY <1>2, <1>4, <1>5

(***************************************************************************)
(* Every step keeps the invariant                                          *)
(***************************************************************************)
LEMMA InitFF == FirstFitInit => FFInv
<1> SUFFICES ASSUME FirstFitInit PROVE FFInv
  OBVIOUS
<1> DEFINE h == [size |-> HeapSize - SizeofMemBlock, is_free |-> TRUE,
                 is_kernel |-> FALSE, next |-> NULL]
<1>1. /\ h.size = HeapSize - 24 /\ h.is_free /\ h.next = NULL /\ HeapSize - 24 \in Nat
      /\ h \in [size : Nat, is_free : BOOLEAN, is_kernel : BOOLEAN,
                next : {0} \cup {NULL}]
  BY Constants
<1>2. mem = [a \in {0} |-> h]
  BY DEF FirstFitInit
<1> HIDE DEF h
<1>3. DOMAIN mem = {0} /\ mem[0] = h /\ mem \in [{0} -> MemBlocks(mem)]
  BY <1>1, <1>2 DEF MemBlocks
<1>4. Ends(mem, 0) = HeapSize
  BY <1>1, <1>3, Constants DEF Ends
<1>5. Layout(mem)
  BY <1>1, <1>3, <1>4, Constants DEF Layout, HeadersOK, Linked, Disjoint
<1>6. Owned(mem, live)
  BY <1>1, <1>3 DEF Owned, FirstFitInit, HeapInit
<1>7. CallOK /\ WalkOK
  BY DEF FirstFitInit, CallOK, WalkOK
<1>8. FreePairs
  BY <1>1, <1>3 DEF FreePairs, Headers
<1> QED BY <1>5, <1>6, <1>7, <1>8 DEF FFInv

\* Starting an allocation keeps the invariant: mm_malloc only sets its cursor.
LEMMA MallocFF ==
  ASSUME FFInv, NEW r \in Requests, mm_malloc(r)
  PROVE  FFInv'
<1>1. /\ mem' = mem /\ live' = live /\ prev' = prev
      /\ pc = "idle" /\ pc' = "scan" /\ block' = 0 /\ req' = r
  BY DEF mm_malloc
<1>2. Layout(mem') /\ Owned(mem', live')
  BY <1>1 DEF FFInv
<1>3. CallOK'
  BY <1>1 DEF FFInv, CallOK, Headers, Layout, Linked
<1>4. WalkOK' /\ FreePairs'
  BY <1>1 DEF FFInv, WalkOK, FreePairs, Headers
<1> QED BY <1>2, <1>3, <1>4 DEF FFInv

\* Taking a block keeps it: the split tiles the block and the new chunk owns it.
LEMMA TakeFF ==
  ASSUME FFInv, take_block
  PROVE  FFInv'
<1> DEFINE c == Chunk(Payload(block), req)
<1>1. /\ pc = "scan" /\ pc' = "idle" /\ block' = NULL /\ prev' = NULL /\ req' = NoRequest
      /\ block \in DOMAIN mem /\ req \in Requests /\ mem[block].is_free
      /\ mem[block].size >= align8(req.size)
      /\ mem' = allocated(carve(mem, block, align8(req.size)), block, req.is_kernel)
      /\ live' = live \cup {c}
  BY DEF FFInv, CallOK, Headers, take_block, Return, fits
<1>2. /\ Layout(mem') /\ block \in DOMAIN mem' /\ DOMAIN mem \subseteq DOMAIN mem'
      /\ ~mem'[block].is_free /\ mem'[block].is_kernel = req.is_kernel
      /\ mem'[block].size >= req.size
      /\ \A x \in DOMAIN mem \ {block} : mem'[x] = mem[x]
      /\ \A x \in DOMAIN mem' \ DOMAIN mem :
           mem'[x].is_free /\ mem'[x].next = mem[block].next
  BY <1>1, Carve DEF FFInv
<1>3. /\ c.ptr = block + 24 /\ c.size = req.size /\ c.is_kernel = req.is_kernel
      /\ c \in Chunks /\ BlockOf(c) = block /\ block \in Nat
  <2>1. block \in Nat
    BY <1>1, Header DEF FFInv
  <2> QED BY <1>1, <2>1, RequestSize, Constants DEF Chunk, Payload, Chunks, BlockOf
<1> HIDE DEF c
<1>4. Owned(mem', live')
  <2>1. live' \subseteq Chunks
    BY <1>1, <1>3 DEF FFInv, Owned
  <2>2. ASSUME NEW d \in live
        PROVE  /\ BlockOf(d) \in DOMAIN mem \ {block}
               /\ mem'[BlockOf(d)] = mem[BlockOf(d)]
               /\ d.ptr # c.ptr
    <3>1. BlockOf(d) \in DOMAIN mem \ {block}
      BY <1>1 DEF FFInv, Owned
    <3>2. d.ptr # c.ptr
      BY <1>3, <3>1 DEF BlockOf
    <3> QED BY <1>2, <3>1, <3>2
  <2>3. ASSUME NEW d \in live'
        PROVE  /\ BlockOf(d) \in DOMAIN mem'
               /\ ~mem'[BlockOf(d)].is_free
               /\ mem'[BlockOf(d)].size >= d.size
               /\ mem'[BlockOf(d)].is_kernel = d.is_kernel
    <3>1. CASE d = c
      BY <1>2, <1>3, <3>1
    <3>2. CASE d \in live
      BY <1>2, <2>2, <3>2 DEF FFInv, Owned
    <3> QED BY <1>1, <3>1, <3>2
  <2>4. ASSUME NEW a \in DOMAIN mem', ~mem'[a].is_free
        PROVE  \E d \in live' : d.ptr = Payload(a)
    <3>1. CASE a = block
      BY <1>1, <1>3, <3>1, Constants DEF Payload
    <3>2. CASE a # block
      <4>1. a \in DOMAIN mem /\ ~mem[a].is_free
        BY <1>2, <2>4, <3>2
      <4> QED BY <1>1, <4>1 DEF FFInv, Owned
    <3> QED BY <3>1, <3>2
  <2>5. ASSUME NEW d \in live', NEW x \in live', d.ptr = x.ptr PROVE d = x
    BY <1>1, <2>2, <2>5 DEF FFInv, Owned
  <2> QED BY <2>1, <2>3, <2>4, <2>5 DEF Owned
<1>5. CallOK' /\ WalkOK'
  BY <1>1 DEF CallOK, WalkOK
<1>6. FreePairs'
  <2> SUFFICES ASSUME NEW a \in DOMAIN mem', mem'[a].is_free, mem'[a].next # NULL,
                      mem'[mem'[a].next].is_free
               PROVE  FALSE
    BY DEF FreePairs, Headers
  <2> DEFINE b == mem'[a].next
  <2>1. b \in DOMAIN mem' /\ b # block /\ a # block
    BY <1>2, NextUp
  <2>0. \A x \in DOMAIN mem :
          ~(mem[x].is_free /\ mem[x].next # NULL /\ mem[mem[x].next].is_free)
    BY <1>1 DEF FFInv, FreePairs, Headers
  <2>2. CASE a \in DOMAIN mem
    <3>1. mem'[a] = mem[a] /\ b \in DOMAIN mem
      BY <1>2, <2>1, <2>2, Header DEF FFInv
    <3> QED BY <1>2, <2>0, <2>1, <2>2, <3>1
  <2>3. CASE a \notin DOMAIN mem
    <3>1. b = mem[block].next /\ b # NULL
      BY <1>2, <2>3
    <3>2. b \in DOMAIN mem
      BY <1>1, <3>1, Header DEF FFInv
    <3> QED BY <1>1, <1>2, <2>0, <2>1, <3>1, <3>2
  <2> QED BY <2>2, <2>3
<1> QED BY <1>2, <1>4, <1>5, <1>6 DEF FFInv

\* Walking past a block, or off the end of the list, keeps it.
LEMMA ScanFF ==
  ASSUME FFInv, skip_block \/ out_of_memory
  PROVE  FFInv'
<1>1. /\ mem' = mem /\ live' = live /\ pc = "scan" /\ pc' \in {"scan", "idle"}
      /\ prev = NULL /\ prev' = NULL /\ req \in Requests
  BY DEF FFInv, CallOK, skip_block, out_of_memory, Return
<1>2. /\ block' \in DOMAIN mem \cup {NULL}
      /\ req' \in Requests \cup {NoRequest} /\ (pc' = "scan" => req' \in Requests)
  <2>1. CASE skip_block
    <3>1. block \in DOMAIN mem /\ block' = mem[block].next /\ req' = req
      BY <2>1 DEF FFInv, CallOK, Headers, skip_block
    <3>2. block' \in DOMAIN mem \cup {NULL}
      BY <3>1, Header DEF FFInv
    <3> QED BY <1>1, <3>1, <3>2
  <2>2. CASE out_of_memory
    BY <2>2 DEF out_of_memory, Return
  <2> QED BY <2>1, <2>2
<1>3. CallOK' /\ WalkOK' /\ FreePairs'
  BY <1>1, <1>2 DEF FFInv, CallOK, WalkOK, FreePairs, Headers
<1> QED BY <1>1, <1>3 DEF FFInv

\* Freeing a chunk keeps it: the chunk leaves the list of live ones with its block.
LEMMA FreeFF ==
  ASSUME FFInv, NEW c \in live, mm_free(c)
  PROVE  FFInv'
<1> DEFINE a == BlockOf(c)
<1>1. /\ pc = "idle" /\ pc' = "absorb" /\ block' = a /\ live' = live \ {c}
      /\ prev' = prev /\ req' = req
      /\ mem' = [mem EXCEPT ![a] = [mem[a] EXCEPT !.is_free = TRUE]]
  BY DEF mm_free, BlockOf
<1>2. a \in DOMAIN mem /\ ~mem[a].is_free /\ c.ptr = Payload(a) /\ c.ptr \in Nat
  <2>1. a \in DOMAIN mem /\ ~mem[a].is_free /\ c \in Chunks
    BY DEF FFInv, Owned
  <2> QED BY <2>1, Constants DEF BlockOf, Payload, Chunks
<1> HIDE DEF a
<1>3. /\ Layout(mem') /\ DOMAIN mem' = DOMAIN mem /\ mem'[a].is_free
      /\ \A x \in DOMAIN mem : mem'[x].next = mem[x].next
      /\ \A x \in DOMAIN mem \ {a} : mem'[x] = mem[x]
  <2> DEFINE w == [mem EXCEPT ![a] = [mem[a] EXCEPT !.is_free = TRUE]]
  <2>1. Layout(mem) /\ a \in DOMAIN mem
    BY <1>2 DEF FFInv
  <2>2. /\ Layout(w) /\ DOMAIN w = DOMAIN mem /\ w[a].is_free
        /\ \A x \in DOMAIN mem : w[x].next = mem[x].next
        /\ \A x \in DOMAIN mem \ {a} : w[x] = mem[x]
    BY <2>1, Mark
  <2>3. mem' = w
    BY <1>1
  <2> HIDE DEF w
  <2> QED BY <2>2, <2>3
<1>4. Owned(mem', live')
  <2>1. ASSUME NEW d \in live'
        PROVE  BlockOf(d) \in DOMAIN mem \ {a}
    <3>1. d \in live /\ d # c /\ d.ptr # c.ptr /\ BlockOf(d) \in DOMAIN mem /\ d \in Chunks
      BY <1>1 DEF FFInv, Owned
    <3>2. BlockOf(d) # a
      BY <1>2, <3>1, Header, Constants DEF BlockOf, Payload, Chunks
    <3> QED BY <3>1, <3>2
  <2>2. ASSUME NEW d \in live'
        PROVE  /\ BlockOf(d) \in DOMAIN mem'
               /\ ~mem'[BlockOf(d)].is_free
               /\ mem'[BlockOf(d)].size >= d.size
               /\ mem'[BlockOf(d)].is_kernel = d.is_kernel
    BY <1>1, <1>3, <2>1 DEF FFInv, Owned
  <2>3. ASSUME NEW x \in DOMAIN mem', ~mem'[x].is_free
        PROVE  \E d \in live' : d.ptr = Payload(x)
    <3>1. x \in DOMAIN mem /\ x # a /\ ~mem[x].is_free
      BY <1>3, <2>3
    <3>2. PICK d \in live : d.ptr = Payload(x)
      BY <3>1 DEF FFInv, Owned
    <3>3. d # c
      BY <1>2, <3>1, <3>2, Header, Constants DEF Payload, FFInv
    <3> QED BY <1>1, <3>2, <3>3
  <2> QED BY <1>1, <2>2, <2>3 DEF FFInv, Owned
<1>5. CallOK' /\ WalkOK'
  BY <1>1, <1>2, <1>3 DEF FFInv, CallOK, WalkOK, Headers
<1>6. FreePairs'
  <2> SUFFICES ASSUME NEW x \in DOMAIN mem', mem'[x].is_free, mem'[x].next # NULL,
                      mem'[mem'[x].next].is_free,
                      x # a, mem'[x].next # a
               PROVE  FALSE
    BY <1>1 DEF FreePairs, Headers
  <2>1. /\ mem'[x] = mem[x] /\ mem[x].next \in DOMAIN mem
        /\ mem'[mem[x].next] = mem[mem[x].next]
    BY <1>3, Header DEF FFInv
  <2> QED BY <1>1, <1>3, <2>1 DEF FFInv, FreePairs, Headers
<1> QED BY <1>3, <1>4, <1>5, <1>6 DEF FFInv

\* Chunks live in blocks that are not free, so merging free ones leaves them be.
LEMMA OwnedAbsorb ==
  ASSUME NEW m, Layout(m), NEW L, Owned(m, L),
         NEW a \in DOMAIN m, NEW b \in DOMAIN m, m[a].is_free, m[b].is_free,
         NEW w, DOMAIN w = DOMAIN m \ {b}, w[a].is_free,
         \A x \in DOMAIN m \ {a, b} : w[x] = m[x]
  PROVE  Owned(w, L)
<1>1. ASSUME NEW c \in L
      PROVE  BlockOf(c) \in DOMAIN m \ {a, b}
  BY DEF Owned
<1>2. ASSUME NEW x \in DOMAIN w, ~w[x].is_free
      PROVE  \E c \in L : c.ptr = Payload(x)
  BY <1>2 DEF Owned
<1> QED BY <1>1, <1>2 DEF Owned

\* Absorbing the free block that follows keeps it.
LEMMA AbsorbNextFF ==
  ASSUME FFInv, absorb_next
  PROVE  FFInv'
<1> DEFINE b == mem[block].next
<1>0. b = mem[block].next
  OBVIOUS
<1>1. /\ pc = "absorb" /\ pc' = pc /\ block' = block /\ live' = live
      /\ prev' = prev /\ req' = req /\ prev = NULL
      /\ block \in DOMAIN mem /\ mem[block].is_free /\ b # NULL /\ mem[b].is_free
      /\ mem' = absorb(mem, block, b)
  BY DEF FFInv, CallOK, Headers, absorb_next, next_is_free
<1> HIDE DEF b
<1>2. /\ b \in DOMAIN mem /\ block < b
      /\ \A x \in DOMAIN mem : mem[x].next = b => x = block
      /\ DOMAIN mem' = DOMAIN mem \ {b}
      /\ mem'[block].next = mem[b].next
      /\ \A x \in DOMAIN mem \ {block, b} : mem'[x] = mem[x]
  BY <1>0, <1>1, AbsorbHeaders DEF FFInv
<1>3. mem'[block].is_free
  BY <1>0, <1>1, AbsorbHeaders DEF FFInv
<1>4. Layout(mem')
  BY <1>0, <1>1, AbsorbLayout DEF FFInv
<1>5. block # b
  BY <1>1, <1>2, Header DEF FFInv
<1>6. Owned(mem', live')
  BY <1>1, <1>2, <1>3, OwnedAbsorb DEF FFInv
<1>7. CallOK' /\ WalkOK'
  BY <1>1, <1>2, <1>3, <1>5 DEF FFInv, CallOK, WalkOK, Headers
<1>8. FreePairs'
  <2> SUFFICES ASSUME NEW x \in DOMAIN mem', mem'[x].is_free, mem'[x].next # NULL,
                      mem'[mem'[x].next].is_free,
                      x # block, mem'[x].next # block
               PROVE  FALSE
    BY <1>1 DEF FreePairs, Headers
  <2>1. mem'[x] = mem[x] /\ mem[x].next # b /\ x \in DOMAIN mem
    BY <1>2
  <2>2. mem[x].next \in DOMAIN mem
    BY <2>1, Header DEF FFInv
  <2>3. mem'[mem[x].next] = mem[mem[x].next]
    BY <1>2, <2>1, <2>2
  <2> QED BY <1>1, <2>1, <2>2, <2>3 DEF FFInv, FreePairs, Headers
<1> QED BY <1>4, <1>6, <1>7, <1>8 DEF FFInv

\* Starting the walk for the previous block keeps it: nothing free follows.
LEMMA LookForPrevFF ==
  ASSUME FFInv, look_for_prev
  PROVE  FFInv'
<1>1. /\ pc = "absorb" /\ ~next_is_free /\ pc' = "prev" /\ prev' = 0
      /\ mem' = mem /\ live' = live /\ block' = block /\ req' = req
  BY DEF look_for_prev
<1>2. \A a \in DOMAIN mem : a \in Nat
  BY Header DEF FFInv
<1>3. CallOK'
  BY <1>1 DEF FFInv, CallOK, Headers, Layout, Linked
<1>4. WalkOK'
  <2>1. ~next_is_free'
    BY <1>1 DEF next_is_free
  <2>2. \A a \in DOMAIN mem : 0 # NULL /\ 0 <= a
    BY <1>2 DEF NULL
  <2> QED BY <1>1, <2>1, <2>2 DEF WalkOK, Headers
<1>5. FreePairs'
  <2> SUFFICES ASSUME NEW a \in DOMAIN mem, mem[a].is_free, mem[a].next # NULL,
                      mem[mem[a].next].is_free
               PROVE  mem[a].next = block
    BY <1>1 DEF FreePairs, Headers
  <2> QED BY <1>1 DEF FFInv, FreePairs, Headers, next_is_free
<1> QED BY <1>1, <1>3, <1>4, <1>5 DEF FFInv

\* A step of that walk keeps it.
LEMMA NextPrevFF ==
  ASSUME FFInv, next_prev
  PROVE  FFInv'
<1>1. /\ pc = "prev" /\ pc' = pc /\ prev # NULL /\ prev \in DOMAIN mem
      /\ mem[prev].next # block /\ prev' = mem[prev].next
      /\ mem' = mem /\ live' = live /\ block' = block /\ req' = req
  BY DEF next_prev, FFInv, CallOK, Headers
<1>2. prev' \in DOMAIN mem \cup {NULL}
  BY <1>1, Header DEF FFInv
<1>3. CallOK'
  BY <1>1, <1>2 DEF FFInv, CallOK, Headers
<1>4. WalkOK'
  <2>1. ~next_is_free'
    BY <1>1 DEF FFInv, WalkOK, next_is_free
  <2>2. ASSUME NEW a \in DOMAIN mem, mem[a].next = block
        PROVE  prev' # NULL /\ prev' <= a
    <3>1. prev <= a /\ prev # a
      BY <1>1, <2>2 DEF FFInv, WalkOK, Headers
    <3>2. /\ prev \in Nat /\ a \in Nat /\ a <= HeapSize - 24
      BY <1>1, Header DEF FFInv
    <3>3. Ends(mem, prev) <= a
      BY <1>1, <3>1, <3>2 DEF FFInv, Layout, Disjoint
    <3>4. Ends(mem, prev) # HeapSize
      BY <3>2, <3>3, Constants
    <3>5. mem[prev].next = Ends(mem, prev) /\ Ends(mem, prev) \in DOMAIN mem
      BY <1>1, <3>4 DEF FFInv, Layout, Linked
    <3>6. prev' # NULL
      BY <1>1, <3>5, Header DEF NULL, FFInv
    <3> QED BY <1>1, <3>3, <3>5, <3>6
  <2> QED BY <1>1, <2>1, <2>2 DEF WalkOK, Headers
<1>5. FreePairs'
  BY <1>1 DEF FFInv, FreePairs, Headers
<1> QED BY <1>1, <1>3, <1>4, <1>5 DEF FFInv

\* The end of mm_free keeps it: no two neighbours are left free.
LEMMA AbsorbInPrevFF ==
  ASSUME FFInv, absorb_in_prev
  PROVE  FFInv'
<1>1. /\ pc = "prev" /\ pc' = "idle" /\ block' = NULL /\ prev' = NULL
      /\ req' = NoRequest /\ live' = live
      /\ block \in DOMAIN mem /\ mem[block].is_free
      /\ prev # NULL => prev \in DOMAIN mem /\ mem[prev].next = block
      /\ mem' = IF prev # NULL /\ mem[prev].is_free
                THEN absorb(mem, prev, block) ELSE mem
  BY DEF absorb_in_prev, Return, FFInv, CallOK, Headers
<1>2. /\ \A a \in DOMAIN mem : mem[a].next = block => prev # NULL
      /\ mem[block].next # NULL => ~mem[mem[block].next].is_free
      /\ \A a \in DOMAIN mem : mem[a].is_free /\ mem[a].next # NULL
                                 /\ mem[mem[a].next].is_free => mem[a].next = block
  BY <1>1 DEF FFInv, WalkOK, FreePairs, Headers, next_is_free
<1>3. CallOK' /\ WalkOK'
  BY <1>1 DEF CallOK, WalkOK
<1>4. CASE prev # NULL /\ mem[prev].is_free
  <2>1. /\ prev \in DOMAIN mem /\ mem[prev].next = block /\ mem[prev].next # NULL
        /\ mem' = absorb(mem, prev, block)
    <3>1. block # NULL
      BY <1>1, Header DEF FFInv, NULL
    <3> QED BY <1>1, <1>4, <3>1
  <2>2. /\ prev < block
        /\ \A x \in DOMAIN mem : mem[x].next = block => x = prev
        /\ DOMAIN mem' = DOMAIN mem \ {block}
        /\ mem'[prev].next = mem[block].next
        /\ \A x \in DOMAIN mem \ {prev, block} : mem'[x] = mem[x]
    BY <2>1, AbsorbHeaders DEF FFInv
  <2>3. mem'[prev].is_free
    <3> DEFINE b == mem[prev].next
    <3>1. b = block /\ b = mem[prev].next
      BY <2>1
    <3> HIDE DEF b
    <3>2. /\ prev \in DOMAIN mem /\ mem[prev].is_free /\ b # NULL
          /\ mem' = absorb(mem, prev, b)
      BY <1>4, <2>1, <3>1
    <3> QED BY <3>1, <3>2, AbsorbHeaders, ZenonT(60) DEF FFInv
  <2>4. Layout(mem')
    BY <2>1, AbsorbLayout DEF FFInv
  <2>5. Owned(mem', live')
    BY <1>1, <1>4, <2>1, <2>2, <2>3, OwnedAbsorb DEF FFInv
  <2>6. FreePairs'
    <3> SUFFICES ASSUME NEW x \in DOMAIN mem', mem'[x].is_free, mem'[x].next # NULL,
                        mem'[mem'[x].next].is_free
                 PROVE  FALSE
      BY <1>1 DEF FreePairs, Headers
    <3> DEFINE y == mem'[x].next
    <3>1. y \in DOMAIN mem' /\ x \in DOMAIN mem
      BY <2>2, <2>4, NextUp
    <3>2. CASE x = prev
      <4>1. y = mem[block].next /\ y # prev
        <5>1. prev < y
          BY <2>4, <3>2, NextUp
        <5> QED BY <2>1, <2>2, <3>2, <5>1, Header DEF FFInv
      <4>2. mem'[y] = mem[y]
        BY <2>2, <3>1, <4>1
      <4> QED BY <1>2, <4>1, <4>2
    <3>3. CASE x # prev
      <4>1. mem'[x] = mem[x] /\ x # block /\ y # block
        BY <2>2, <3>1, <3>3
      <4>2. CASE y = prev
        BY <1>2, <1>4, <2>1, <3>1, <4>1, <4>2
      <4>3. CASE y # prev
        BY <1>2, <2>2, <3>1, <4>1, <4>3
      <4> QED BY <4>2, <4>3
    <3> QED BY <3>2, <3>3
  <2> QED BY <1>3, <2>4, <2>5, <2>6 DEF FFInv
<1>5. CASE ~(prev # NULL /\ mem[prev].is_free)
  <2>1. mem' = mem
    BY <1>1, <1>5
  <2>2. \A a \in DOMAIN mem : mem[a].next = block => ~mem[a].is_free
    <3> SUFFICES ASSUME NEW a \in DOMAIN mem, mem[a].next = block
                 PROVE  ~mem[a].is_free
      OBVIOUS
    <3>1. prev # NULL /\ prev \in DOMAIN mem /\ mem[prev].next = block
      BY <1>1, <1>2
    <3>2. block # NULL
      BY <1>1, Header DEF FFInv, NULL
    <3>3. a = prev
      BY <3>1, <3>2, NextUp DEF FFInv
    <3> QED BY <1>5, <3>1, <3>3
  <2>3. FreePairs'
    BY <1>1, <1>2, <2>1, <2>2 DEF FreePairs, Headers
  <2> QED BY <1>1, <1>3, <2>1, <2>3 DEF FFInv
<1> QED BY <1>4, <1>5

\* Every step keeps the invariant.
LEMMA NextFF ==
  ASSUME FFInv, [FirstFitNext]_ffVars
  PROVE  FFInv'
<1>1. CASE UNCHANGED ffVars
  BY <1>1 DEF ffVars, FFInv, CallOK, WalkOK, FreePairs, Headers, next_is_free
<1>2. CASE \E r \in Requests : mm_malloc(r)
  BY <1>2, MallocFF
<1>3. CASE \E c \in live : mm_free(c)
  BY <1>3, FreeFF
<1>4. CASE Loops
  BY <1>4, TakeFF, ScanFF, AbsorbNextFF, LookForPrevFF, NextPrevFF, AbsorbInPrevFF
     DEF Loops
<1> QED BY <1>1, <1>2, <1>3, <1>4 DEF FirstFitNext

\* The invariant holds in every reachable state.
LEMMA SpecFF == FirstFitSpec => []FFInv
<1>1. FFInv /\ [FirstFitNext]_ffVars => FFInv'
  BY NextFF
<1> QED BY <1>1, InitFF, PTL DEF FirstFitSpec

(***************************************************************************)
(* The theorems                                                            *)
(***************************************************************************)
\* The headers, the list and the locals of a call keep their types: no walk
\* ever reads past the end of the heap or from an address without a header.
THEOREM FirstFitTypes == FirstFitSpec => []FirstFitTypeOK
<1>1. FFInv => FirstFitTypeOK
  BY DEF FFInv, Layout, HeadersOK, MemBlocks, CallOK, FirstFitTypeOK, Headers
<1> QED BY <1>1, SpecFF, PTL

\* The blocks tile the heap after any sequence of splits and merges.
THEOREM FirstFitTiles == FirstFitSpec => []Tiles
<1>1. FFInv => Tiles
  BY DEF FFInv, Layout, Linked, Ends, Tiles, Headers, EndOf, Payload
<1> QED BY <1>1, SpecFF, PTL

\* The invariant in the words of OwnersHaveBlocks.
LEMMA OwnersFF == FFInv => OwnersHaveBlocks
<1> SUFFICES ASSUME FFInv PROVE OwnersHaveBlocks
  OBVIOUS
<1>1. ASSUME NEW c \in live
      PROVE  /\ BlockOf(c) \in Headers /\ c.ptr = Payload(BlockOf(c))
             /\ ~mem[BlockOf(c)].is_free
             /\ mem[BlockOf(c)].size >= c.size
             /\ mem[BlockOf(c)].is_kernel = c.is_kernel
  <2>1. c.ptr \in Nat
    BY DEF FFInv, Owned, Chunks
  <2>2. c.ptr = Payload(BlockOf(c))
    BY <2>1, Constants DEF Payload, BlockOf
  <2> QED BY <2>2 DEF FFInv, Owned, Headers
<1> QED BY <1>1 DEF FFInv, Owned, OwnersHaveBlocks, Headers

\* What malloc returned stays an allocated block of its own until it is freed.
THEOREM FirstFitOwners == FirstFitSpec => []OwnersHaveBlocks
BY OwnersFF, SpecFF, PTL

\* Once mm_free has returned, no two adjacent blocks are free.
THEOREM FirstFitMerges == FirstFitSpec => []Merged
<1>1. FFInv => Merged
  BY DEF FFInv, FreePairs, Merged
<1> QED BY <1>1, SpecFF, PTL

\* A chunk lies inside the payload of its block, and payloads do not overlap.
LEMMA ChunksApart ==
  ASSUME NEW m, Layout(m), NEW L, Owned(m, L)
  PROVE  /\ \A c \in L : InHeap(c)
         /\ \A c, d \in L : c # d => Apart(c, d)
<1>1. ASSUME NEW c \in L
      PROVE  /\ BlockOf(c) \in DOMAIN m /\ BlockOf(c) \in Nat
             /\ c.ptr = BlockOf(c) + 24 /\ c.size \in Nat /\ 0 < c.size
             /\ c.ptr + c.size <= Ends(m, BlockOf(c))
             /\ Ends(m, BlockOf(c)) \in Nat /\ Ends(m, BlockOf(c)) <= HeapSize
  <2>1. /\ c \in Chunks /\ BlockOf(c) \in DOMAIN m /\ m[BlockOf(c)].size >= c.size
    BY DEF Owned
  <2>2. c.ptr \in Nat /\ c.size \in RequestSizes
    BY <2>1 DEF Chunks
  <2>3. c.ptr = BlockOf(c) + 24 /\ c.size \in Nat /\ 0 < c.size
    BY <2>2, Constants DEF BlockOf
  <2>4. /\ Ends(m, BlockOf(c)) = BlockOf(c) + 24 + m[BlockOf(c)].size
        /\ m[BlockOf(c)].size \in Nat /\ BlockOf(c) \in Nat
        /\ Ends(m, BlockOf(c)) \in Nat /\ Ends(m, BlockOf(c)) <= HeapSize
    BY <2>1, Header
  <2> QED BY <2>1, <2>3, <2>4
<1>2. ASSUME NEW c \in L PROVE InHeap(c)
  BY <1>1, Constants DEF InHeap
<1>3. ASSUME NEW c \in L, NEW d \in L, c # d PROVE Apart(c, d)
  <2>1. BlockOf(c) # BlockOf(d)
    BY <1>1, <1>3 DEF Owned
  <2>2. /\ BlockOf(c) < BlockOf(d) => Ends(m, BlockOf(c)) <= BlockOf(d)
        /\ BlockOf(d) < BlockOf(c) => Ends(m, BlockOf(d)) <= BlockOf(c)
    BY <1>1 DEF Layout, Disjoint
  <2> QED BY <1>1, <2>1, <2>2 DEF Apart
<1> QED BY <1>2, <1>3

\* Every step of the manager is a step of the heap it implements, or none.
LEMMA StepFF ==
  ASSUME FFInv, FFInv', [FirstFitNext]_ffVars
  PROVE  [HeapMalloc \/ HeapFree]_live
<1>1. CASE live' = live
  BY <1>1
<1>2. CASE take_block
  <2> DEFINE c == Chunk(Payload(block), req)
  <2>1. live' = live \cup {c}
    BY <1>2 DEF take_block
  <2>2. c \notin live
    <3>1. block \in DOMAIN mem /\ mem[block].is_free
      BY <1>2 DEF FFInv, CallOK, Headers, take_block, fits
    <3>2. c.ptr = Payload(block) /\ BlockOf(c) = block
      BY <3>1, Header, Constants DEF Chunk, BlockOf, Payload, FFInv
    <3> QED BY <3>1, <3>2 DEF FFInv, Owned
  <2> HIDE DEF c
  <2>3. InHeap(c) /\ \A d \in live : Apart(c, d)
    BY <2>1, <2>2, ChunksApart DEF FFInv
  <2> QED BY <2>1, <2>2, <2>3 DEF HeapMalloc
<1>3. CASE \E c \in live : mm_free(c)
  BY <1>3 DEF mm_free, HeapFree
<1> QED
  <2>1. \/ live' = live \/ take_block \/ \E c \in live : mm_free(c)
    BY DEF FirstFitNext, Loops, mm_malloc, skip_block, out_of_memory, absorb_next,
           look_for_prev, next_prev, absorb_in_prev, ffVars
  <2> QED BY <2>1, <1>1, <1>2, <1>3

\* The first-fit manager keeps the promise of memoryManager.h: the chunks that
\* are out lie in the heap and never overlap, and a call gives or takes one.
THEOREM FirstFitImplementsHeap == FirstFitSpec => HeapSpec
<1>1. FirstFitInit => HeapInit
  BY DEF FirstFitInit
<1>2. FFInv /\ FFInv' /\ [FirstFitNext]_ffVars => [HeapMalloc \/ HeapFree]_live
  BY StepFF
<1> QED BY <1>1, <1>2, SpecFF, PTL DEF FirstFitSpec, HeapSpec

(***************************************************************************)
(* The kernel with either manager: MM never changes, and the steps of the  *)
(* buddy manager leave the first-fit state alone                           *)
(***************************************************************************)
MemoryInv == /\ Layout(mem)
             /\ MM = "FF" => FFInv

\* Both managers start from an empty heap, and the first-fit one in one block.
LEMMA InitMemory == MemoryInit => MemoryInv
BY InitFF DEF MemoryInit, MemoryInv, FFInv

\* The steps of either manager keep the invariant.
LEMMA NextMemory ==
  ASSUME MemoryInv, [MemoryNext]_memoryVars
  PROVE  MemoryInv'
<1>1. CASE MM = "FF" /\ FirstFitNext /\ UNCHANGED MM
  <2>1. FFInv'
    BY <1>1, NextFF DEF MemoryInv
  <2> QED BY <2>1 DEF MemoryInv, FFInv
<1>2. CASE MM = "BUDDY" /\ UNCHANGED <<mem, MM>>
  BY <1>2 DEF MemoryInv
<1>3. CASE UNCHANGED memoryVars
  <2>1. UNCHANGED ffVars /\ UNCHANGED <<mem, MM>>
    BY <1>3 DEF memoryVars, ffVars
  <2>2. FFInv => FFInv'
    BY <2>1, NextFF
  <2> QED BY <2>1, <2>2 DEF MemoryInv
<1> QED BY <1>1, <1>2, <1>3 DEF MemoryNext

\* The invariant holds in every state of the specification.
LEMMA SpecMemory == MemorySpec => []MemoryInv
<1>1. MemoryInv /\ [MemoryNext]_memoryVars => MemoryInv'
  BY NextMemory
<1> QED BY <1>1, InitMemory, PTL DEF MemorySpec

\* The blocks of the first-fit list tile the heap, whichever manager runs.
THEOREM MemoryTiles == MemorySpec => []Tiles
<1>1. MemoryInv => Tiles
  BY DEF MemoryInv, Layout, Linked, Ends, Tiles, Headers, EndOf, Payload
<1> QED BY <1>1, SpecMemory, PTL

\* In a kernel built with the first-fit manager the headers and the locals of a
\* call keep their types, and every chunk that is out lies in the heap.
THEOREM FirstFitMemoryTypes == MemorySpec => [](MM = "FF" => MemoryTypeOK)
<1>1. MemoryInv => (MM = "FF" => MemoryTypeOK)
  <2> SUFFICES ASSUME FFInv, MM = "FF" PROVE MemoryTypeOK
    BY DEF MemoryInv
  <2>1. FirstFitTypeOK
    BY DEF FFInv, Layout, HeadersOK, MemBlocks, CallOK, FirstFitTypeOK, Headers
  <2>2. \A c \in live : InHeap(c) /\ c \in Chunks
    BY ChunksApart DEF FFInv, Owned
  <2>3. \A c \in Chunks : Chunk(c.ptr, c) = c
    BY DEF Chunks, Chunk
  <2> QED BY <2>1, <2>2, <2>3 DEF MemoryTypeOK
<1> QED BY <1>1, SpecMemory, PTL

\* There, what malloc returned stays an allocated block of its own until it is
\* freed.
THEOREM FirstFitChunksHaveBlocks == MemorySpec => [](MM = "FF" => ChunksHaveBlocks)
<1>1. MemoryInv => (MM = "FF" => ChunksHaveBlocks)
  BY OwnersFF DEF MemoryInv, ChunksHaveBlocks
<1> QED BY <1>1, SpecMemory, PTL

\* There, two adjacent blocks are never both free once mm_free has returned.
THEOREM FirstFitFreeBlocksMerged == MemorySpec => [](MM = "FF" => FreeBlocksMerged)
<1>1. MemoryInv => (MM = "FF" => FreeBlocksMerged)
  BY DEF MemoryInv, FFInv, FreePairs, Merged, FreeBlocksMerged
<1> QED BY <1>1, SpecMemory, PTL

\* A kernel built with the first-fit manager keeps the promise of
\* memoryManager.h: it implements the abstract heap.
THEOREM FirstFitKernelImplementsHeap == MemorySpec /\ MM = "FF" => ImplementsHeap
<1>1. MemoryInit => HeapInit
  BY DEF MemoryInit, FirstFitInit
<1>2. MM = "FF" /\ [MemoryNext]_memoryVars => (MM = "FF")'
  BY DEF MemoryNext, memoryVars
<1>3. MM = "FF" /\ MemoryInv /\ MemoryInv' /\ (MM = "FF")' /\ [MemoryNext]_memoryVars
        => [HeapMalloc \/ HeapFree]_live
  <2> SUFFICES ASSUME MM = "FF", FFInv, FFInv', [MemoryNext]_memoryVars
               PROVE  [HeapMalloc \/ HeapFree]_live
    BY DEF MemoryInv
  <2>1. [FirstFitNext]_ffVars
    BY DEF MemoryNext, memoryVars, ffVars
  <2> QED BY <2>1, StepFF
<1> QED BY <1>1, <1>2, <1>3, SpecMemory, PTL DEF MemorySpec, ImplementsHeap, HeapSpec

=============================================================================
