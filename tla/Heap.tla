-------------------------------- MODULE Heap --------------------------------
(***************************************************************************)
(* The kernel heap of kernel/heap.cpp: first fit over a doubly linked list *)
(* of blocks, each with a header in front of its data.                     *)
(*                                                                         *)
(* Addresses and sizes count units of 16 bytes from HEAP_START, to which   *)
(* the code rounds every request; a header is Header units.  The operators *)
(* below map a heap (a record) to the heap after one of the functions of   *)
(* heap.cpp.  The magic number is left out: callers free what they hold.   *)
(* expand_heap fails when the physical memory is used up, which may be at  *)
(* any time: pmm is not modelled here.                                     *)
(***************************************************************************)
EXTENDS Integers, FiniteSets, FiniteSetsExt

CONSTANTS Header,    \* units of a block header
          Expand,    \* units of one expansion, HEAP_EXPAND_PAGES
          MaxHeap,   \* units of HEAP_MAX_SIZE
          Requests   \* the sizes, in units, that callers ask for

ASSUME HeapAssumption ==
  /\ Header \in Nat \ {0}
  /\ Expand \in Nat /\ Expand > Header
  /\ MaxHeap \in Nat /\ MaxHeap >= Expand
  /\ Requests \subseteq Nat \ {0}

Null == -1

VARIABLES heap,    \* the list of blocks
          asked,   \* what the callers hold: block -> the size they asked for
          want,    \* the size kmalloc is looking for, 0 if it does not run
          moving   \* the block krealloc will move there; Null for kmalloc

vars == <<heap, asked, want, moving>>

\* The list: of each block, by the address of its header, the size of its
\* data, whether it is free, and its neighbours; g_last; g_heap_end (which
\* is also g_total); g_used; g_blocks.  The first block is always 0.
Blocks(h) == DOMAIN h.size

MinData == 1     \* MIN_DATA_SIZE

\* Where block b ends, and the next one begins.
End(h, b) == b + Header + h.size[b]

----------------------------------------------------------------------------
(* The list operations.                                                    *)

\* A header at "new", after block p and before block n.
Insert(h, new, size, p, n) ==
  LET B == Blocks(h) \cup {new}
  IN [h EXCEPT
       !.size = [b \in B |-> IF b = new THEN size ELSE h.size[b]],
       !.free = [b \in B |-> IF b = new THEN TRUE ELSE h.free[b]],
       !.prev = [b \in B |-> IF b = new THEN p ELSE IF b = n THEN new ELSE h.prev[b]],
       !.next = [b \in B |-> IF b = new THEN n ELSE IF b = p THEN new ELSE h.next[b]],
       !.last = IF n = Null THEN new ELSE @,
       !.count = @ + 1]

\* expand_heap: one free block more at the end; it is not merged with a free
\* block before it.
ExpandHeap(h) ==
  [Insert(h, h.end, Expand - Header, h.last, Null) EXCEPT !.end = @ + Expand]

CanExpand(h) == h.end + Expand <= MaxHeap

\* split_block: block b keeps n units; the rest becomes a free block if it
\* has room for a header and the least data.
Split(h, b, n) ==
  IF h.size[b] - n < Header + MinData THEN h
  ELSE [Insert(h, b + Header + n, h.size[b] - n - Header, b, h.next[b])
          EXCEPT !.size[b] = n]

\* Mutant: the block after the merged two still points to the one in between.
MergeOneWay(h, b) ==
  LET n == h.next[b]
      B == Blocks(h) \ {n}
  IN IF n = Null THEN h
     ELSE IF ~h.free[n] \/ n # End(h, b) THEN h
     ELSE [h EXCEPT
            !.size = [x \in B |-> IF x = b THEN h.size[b] + Header + h.size[n]
                                  ELSE h.size[x]],
            !.free = [x \in B |-> h.free[x]],
            !.prev = [x \in B |-> h.prev[x]],
            !.next = [x \in B |-> IF x = b THEN h.next[n] ELSE h.next[x]],
            !.last = IF h.next[n] = Null THEN b ELSE @,
            !.count = @ - 1]

\* merge_with_next: block b takes in the block after it if that one is free.
Merge(h, b) ==
  LET n == h.next[b]
      B == Blocks(h) \ {n}
  IN IF n = Null THEN h
     ELSE IF ~h.free[n] \/ n # End(h, b) THEN h
     ELSE [h EXCEPT
            !.size = [x \in B |-> IF x = b THEN h.size[b] + Header + h.size[n]
                                  ELSE h.size[x]],
            !.free = [x \in B |-> h.free[x]],
            !.prev = [x \in B |-> IF x = h.next[n] THEN b ELSE h.prev[x]],
            !.next = [x \in B |-> IF x = b THEN h.next[n] ELSE h.next[x]],
            !.last = IF h.next[n] = Null THEN b ELSE @,
            !.count = @ - 1]

\* Block b, which is free, is handed out for n units.
Use(h, b, n) ==
  LET s == Split(h, b, n)
  IN [s EXCEPT !.free[b] = FALSE, !.used = @ + s.size[b]]

\* kfree of block b.
Release(h, b) ==
  LET freed  == [h EXCEPT !.free[b] = TRUE, !.used = @ - h.size[b]]
      after  == Merge(freed, b)
      p      == after.prev[b]
  IN IF p # Null /\ after.free[p] THEN Merge(after, p) ELSE after

\* Mutant: blocks in use are not passed over.
FitAny(h, n) ==
  LET fit == {b \in Blocks(h) : h.size[b] >= n}
  IN {b \in fit : \A c \in fit : b <= c}

\* The first block that has room for n units; none if there is no such block.
FirstFit(h, n) ==
  LET fit == {b \in Blocks(h) : h.free[b] /\ h.size[b] >= n}
  IN {b \in fit : \A c \in fit : b <= c}

----------------------------------------------------------------------------
(* The operations.  The heap is used with interrupts off, so no operation  *)
(* starts while kmalloc looks for a block; each round of its loop is a     *)
(* step here.                                                              *)

Init ==
  /\ heap = [size  |-> [b \in {0} |-> Expand - Header],
             free  |-> [b \in {0} |-> TRUE],
             prev  |-> [b \in {0} |-> Null],
             next  |-> [b \in {0} |-> Null],
             last  |-> 0, end |-> Expand, used |-> 0, count |-> 1]
  /\ asked  = [b \in {} |-> 0]
  /\ want   = 0
  /\ moving = Null

Held == DOMAIN asked
Returned == want' = 0 /\ moving' = Null

\* kmalloc(n) is called.
Malloc(n) ==
  /\ want = 0
  /\ want' = n
  /\ UNCHANGED <<heap, asked, moving>>

\* krealloc(p, n) does in place what it can.
ReallocInPlace(p, n) ==
  /\ want = 0
  /\ p \in Held /\ heap.size[p] >= n
  /\ LET h == [heap EXCEPT !.used = @ - heap.size[p]]
     IN heap' = Use(h, p, n)
  /\ asked' = [asked EXCEPT ![p] = n]
  /\ UNCHANGED <<want, moving>>

\* krealloc(p, n) calls kmalloc for a larger block.
ReallocMove(p, n) ==
  /\ want = 0
  /\ p \in Held /\ heap.size[p] < n
  /\ want' = n /\ moving' = p
  /\ UNCHANGED <<heap, asked>>

\* kmalloc finds a block, and returns it; krealloc copies the data and
\* frees the old one.
Take ==
  /\ want # 0
  /\ \E b \in FirstFit(heap, want) :
       LET h == Use(heap, b, want)
       IN /\ heap'  = IF moving = Null THEN h ELSE Release(h, moving)
          /\ asked' = [x \in (Held \ {moving}) \cup {b} |->
                        IF x = b THEN want ELSE asked[x]]
  /\ Returned

\* kmalloc has come to the end of the list: it expands the heap and starts
\* again.
Grow ==
  /\ want # 0
  /\ FirstFit(heap, want) = {}
  /\ CanExpand(heap)
  /\ heap' = ExpandHeap(heap)
  /\ UNCHANGED <<asked, want, moving>>

\* The heap is at its limit, or there is no physical memory: kmalloc returns
\* nullptr, and krealloc leaves the old block alone.
Fail ==
  /\ want # 0
  /\ FirstFit(heap, want) = {}
  /\ UNCHANGED <<heap, asked>>
  /\ Returned

Free(p) ==
  /\ want = 0
  /\ p \in Held
  /\ heap'  = Release(heap, p)
  /\ asked' = [x \in Held \ {p} |-> asked[x]]
  /\ UNCHANGED <<want, moving>>

Next ==
  \/ \E n \in Requests : Malloc(n)
  \/ \E p \in Held, n \in Requests : ReallocInPlace(p, n) \/ ReallocMove(p, n)
  \/ Take \/ Grow \/ Fail
  \/ \E p \in Held : Free(p)

Spec == Init /\ [][Next]_vars

----------------------------------------------------------------------------
(* Properties.                                                             *)

\* The list is what it is meant to be: its blocks follow each other without
\* a gap or an overlap from the start of the heap to its end, and both
\* links of every block say so.
Tiled(h) ==
  LET B == Blocks(h)
  IN /\ 0 \in B /\ h.last \in B
     /\ h.end \in Nat /\ h.end <= MaxHeap /\ End(h, h.last) = h.end
     /\ \A b \in B : /\ b \in Nat
                     /\ h.size[b] \in Nat /\ h.size[b] >= MinData
                     /\ End(h, b) <= h.end
     /\ \A a, b \in B : a < b => End(h, a) <= b
     /\ \A b \in B : IF b = h.last THEN h.next[b] = Null
                     ELSE /\ End(h, b) \in B /\ h.next[b] = End(h, b)
     /\ \A b \in B : IF b = 0 THEN h.prev[b] = Null
                     ELSE /\ h.prev[b] \in B /\ End(h, h.prev[b]) = b

\* The blocks in use are the ones the callers hold, and each is as long as
\* was asked for: nothing is given out twice, cut off or lost.
HeldBlocks ==
  /\ Held \subseteq Blocks(heap)
  /\ \A b \in Blocks(heap) : heap.free[b] <=> b \notin Held
  /\ \A p \in Held : asked[p] <= heap.size[p]

TypeOK ==
  /\ DOMAIN heap = {"size", "free", "prev", "next", "last", "end", "used", "count"}
  /\ DOMAIN heap.free = Blocks(heap) /\ DOMAIN heap.prev = Blocks(heap)
  /\ DOMAIN heap.next = Blocks(heap)
  /\ want \in Requests \cup {0}
  /\ moving \in Held \cup {Null}

\* The counters of the heap say what the list says.
Counted ==
  /\ heap.count = Cardinality(Blocks(heap))
  /\ heap.used  = MapThenSumSet(LAMBDA b : heap.size[b], Held)

\* Over any sequence of splits, merges, expansions and moves (heap.cpp:65-163)
\* the list tiles the heap with right links, the blocks in use are the ones
\* the callers hold, and the counters agree.
HeapOK == TypeOK /\ Tiled(heap) /\ HeldBlocks /\ Counted

\* The heap hands out memory as an allocator must: see Alloc.tla.
Regions == INSTANCE Alloc WITH
  Limit <- MaxHeap,
  inUse <- [s \in {p + Header : p \in Held} |-> asked[s - Header]]

RefinesAlloc == Regions!Spec
=============================================================================
