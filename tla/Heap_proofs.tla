---------------------------- MODULE Heap_proofs ----------------------------
(***************************************************************************)
(* Proofs about Heap.tla, for headers, expansions and heaps of any size    *)
(* and any set of requests: the list of blocks tiles the heap, the blocks  *)
(* in use are the callers', the counters agree with the list, and the heap *)
(* implements the allocator of Alloc.tla.                                  *)
(***************************************************************************)
EXTENDS Heap, TLAPS, WellFoundedInduction, FiniteSetTheorems

----------------------------------------------------------------------------
(* Induction over the naturals and over finite sets, for a set of values,  *)
(* not a predicate.                                                        *)

NatLess == OpToRel(<, Nat)

\* A set of naturals has a least element.
LEMMA LeastNatural ==
  ASSUME NEW T, T \subseteq Nat, T # {}
  PROVE  \E x \in T : \A y \in T : x <= y
<1>1. IsWellFoundedOn(NatLess, Nat)
  BY NatLessThanWellFounded DEF NatLess
<1>2. PICK x \in T : \A y \in T : ~(<<y, x>> \in NatLess)
  BY <1>1, WFMin
<1>3. \A m, n \in Nat : <<n, m>> \in NatLess <=> n < m
  BY DEF NatLess, OpToRel
<1>4. ASSUME NEW y \in T PROVE x <= y
  <2>1. ~(<<y, x>> \in NatLess)
    BY <1>2
  <2>2. ~(y < x)
    BY <1>3, <2>1
  <2>3. QED
    BY <2>2
<1>5. QED
  BY <1>4

\* A set that has 0 and the successor of each of its elements is Nat.
LEMMA NatInd ==
  ASSUME NEW P, 0 \in P, \A n \in Nat : n \in P => n + 1 \in P
  PROVE  Nat \subseteq P
<1> SUFFICES ASSUME Nat \ P # {} PROVE FALSE
  OBVIOUS
<1>1. PICK x \in Nat \ P : \A y \in Nat \ P : x <= y
  BY LeastNatural
<1>2. x # 0 /\ x - 1 \in Nat /\ (x - 1) + 1 = x
  BY <1>1
<1>3. x - 1 \in P
  BY <1>1, <1>2
<1>4. QED
  BY <1>1, <1>2, <1>3

\* A set that has a set s whenever it has every s \ {x} has every finite set.
LEMMA FiniteInd ==
  ASSUME NEW S, IsFiniteSet(S), NEW P,
         \A s \in SUBSET S : (\A x \in s : s \ {x} \in P) => s \in P
  PROVE  SUBSET S \subseteq P
<1> DEFINE Q == {n \in Nat : \A s \in SUBSET S : Cardinality(s) <= n => s \in P}
<1>1. \A s \in SUBSET S : IsFiniteSet(s) /\ Cardinality(s) \in Nat
  BY FS_Subset, FS_CardinalityType
<1>2. \A s \in SUBSET S : \A x \in s : Cardinality(s \ {x}) = Cardinality(s) - 1
  BY <1>1, FS_RemoveElement
<1>3. 0 \in Q
  <2> SUFFICES ASSUME NEW s \in SUBSET S, Cardinality(s) <= 0 PROVE s \in P
    OBVIOUS
  <2>1. s = {}
    BY <1>1, FS_EmptySet
  <2>2. QED
    BY <2>1
<1>4. ASSUME NEW n \in Nat, n \in Q PROVE n + 1 \in Q
  <2> SUFFICES ASSUME NEW s \in SUBSET S, Cardinality(s) <= n + 1 PROVE s \in P
    OBVIOUS
  <2>1. ASSUME NEW x \in s PROVE s \ {x} \in P
    <3>1. Cardinality(s \ {x}) <= n
      BY <1>1, <1>2
    <3>2. QED
      BY <1>4, <3>1
  <2>2. QED
    BY <2>1
<1>5. Nat \subseteq Q
  <2> HIDE DEF Q
  <2> QED
    BY <1>3, <1>4, NatInd
<1>6. QED
  BY <1>1, <1>5

----------------------------------------------------------------------------
(* What a sum over a finite set obeys: the free space of the heap is one.  *)

\* The sum of f[x] over the x in S.
SumOf(f, S) == MapThenSumSet(LAMBDA x : f[x], S)

Pick(s) == CHOOSE x \in s : TRUE

\* One round of the fold, and the table of sums it defines.
Round(f, g, s) == IF s = {} THEN 0 ELSE f[Pick(s)] + g[s \ {Pick(s)}]
Table(f, S) == CHOOSE g : g = [s \in SUBSET S |-> Round(f, g, s)]

LEMMA SumIsTable == ASSUME NEW f, NEW S PROVE SumOf(f, S) = Table(f, S)[S]
BY Zenon DEF SumOf, MapThenSumSet, MapThenFoldSet, Table, Round, Pick

LEMMA PickIn == ASSUME NEW s, s # {} PROVE Pick(s) \in s
BY DEF Pick

\* The table exists: it is filled by the size of the subsets.
LEMMA TableRounds ==
  ASSUME NEW f, NEW S, IsFiniteSet(S)
  PROVE  \A s \in SUBSET S : Table(f, S)[s] = Round(f, Table(f, S), s)
<1> DEFINE Q == {n \in Nat : \E g : \A s \in SUBSET S :
                   Cardinality(s) <= n => g[s] = Round(f, g, s)}
<1>1. \A s \in SUBSET S : Cardinality(s) \in Nat /\ Cardinality(s) <= Cardinality(S)
  BY FS_Subset, FS_CardinalityType
<1>2. \A s \in SUBSET S : s # {} => /\ s \ {Pick(s)} \in SUBSET S
                                    /\ Cardinality(s \ {Pick(s)}) = Cardinality(s) - 1
  BY FS_Subset, FS_RemoveElement, PickIn
<1>3. 0 \in Q
  <2> DEFINE g == [s \in SUBSET S |-> 0]
  <2>1. \A s \in SUBSET S : Cardinality(s) <= 0 => s = {}
    BY <1>1, FS_EmptySet, FS_Subset
  <2>2. \A s \in SUBSET S : Cardinality(s) <= 0 => g[s] = Round(f, g, s)
    BY <2>1 DEF Round
  <2>3. QED
    BY <2>2
<1>4. ASSUME NEW n \in Nat, n \in Q PROVE n + 1 \in Q
  <2>1. PICK g : \A s \in SUBSET S : Cardinality(s) <= n => g[s] = Round(f, g, s)
    BY <1>4
  <2> DEFINE h == [s \in SUBSET S |-> IF Cardinality(s) <= n THEN g[s]
                                      ELSE Round(f, g, s)]
  <2>2. ASSUME NEW s \in SUBSET S, Cardinality(s) <= n + 1
        PROVE  h[s] = Round(f, h, s)
    <3>1. h[s] = Round(f, g, s)
      BY <2>1
    <3>2. s # {} => h[s \ {Pick(s)}] = g[s \ {Pick(s)}]
      BY <1>1, <1>2, <2>2
    <3>3. QED
      BY <3>1, <3>2 DEF Round
  <2>3. QED
    <3> HIDE DEF h
    <3> QED
      BY <2>2
<1>5. Cardinality(S) \in Q
  <2>1. Nat \subseteq Q
    <3> HIDE DEF Q
    <3> QED
      BY <1>3, <1>4, NatInd
  <2>2. QED
    BY <2>1, FS_CardinalityType
<1>6. PICK g : \A s \in SUBSET S : g[s] = Round(f, g, s)
  BY <1>1, <1>5
<1> DEFINE t == [s \in SUBSET S |-> g[s]]
<1>7. t = [s \in SUBSET S |-> Round(f, t, s)]
  <2>1. ASSUME NEW s \in SUBSET S PROVE t[s] = Round(f, t, s)
    BY <1>2, <1>6 DEF Round
  <2>2. QED
    BY <2>1
<1>8. Table(f, S) = [s \in SUBSET S |-> Round(f, Table(f, S), s)]
  <2> HIDE DEF t
  <2> QED
    BY <1>7 DEF Table
<1>9. QED
  BY <1>8

\* The sum over a subset is the entry of the subset.
LEMMA TableOfSubset ==
  ASSUME NEW f, NEW S, IsFiniteSet(S), NEW T \in SUBSET S
  PROVE  SumOf(f, T) = Table(f, S)[T]
<1> DEFINE P == {s \in SUBSET T : Table(f, S)[s] = Table(f, T)[s]}
<1>1. IsFiniteSet(T)
  BY FS_Subset
<1>2. ASSUME NEW s \in SUBSET T, \A x \in s : s \ {x} \in P PROVE s \in P
  <2>1. s # {} => Table(f, S)[s \ {Pick(s)}] = Table(f, T)[s \ {Pick(s)}]
    BY <1>2, PickIn
  <2>2. Table(f, S)[s] = Round(f, Table(f, S), s)
    BY TableRounds
  <2>3. Table(f, T)[s] = Round(f, Table(f, T), s)
    BY <1>1, TableRounds
  <2>4. QED
    BY <2>1, <2>2, <2>3 DEF Round
<1>3. SUBSET T \subseteq P
  <2> HIDE DEF P
  <2> QED
    BY <1>1, <1>2, FiniteInd
<1>4. QED
  BY <1>3, SumIsTable

LEMMA SumEmpty == ASSUME NEW f PROVE SumOf(f, {}) = 0
BY SumIsTable, TableRounds, FS_EmptySet DEF Round

\* A sum is its first term and the sum of the others.
LEMMA SumRound ==
  ASSUME NEW f, NEW S, IsFiniteSet(S), S # {}
  PROVE  SumOf(f, S) = f[Pick(S)] + SumOf(f, S \ {Pick(S)})
<1>1. SumOf(f, S) = Round(f, Table(f, S), S)
  BY SumIsTable, TableRounds
<1>2. SumOf(f, S \ {Pick(S)}) = Table(f, S)[S \ {Pick(S)}]
  BY TableOfSubset
<1>3. QED
  BY <1>1, <1>2 DEF Round

\* A sum of integers is an integer.
LEMMA SumInt ==
  ASSUME NEW S, IsFiniteSet(S), NEW f, \A x \in S : f[x] \in Int
  PROVE  SumOf(f, S) \in Int
<1> DEFINE P == {s \in SUBSET S : SumOf(f, s) \in Int}
<1>1. ASSUME NEW s \in SUBSET S, \A x \in s : s \ {x} \in P PROVE s \in P
  <2>1. CASE s = {}
    BY <2>1, SumEmpty
  <2>2. CASE s # {}
    <3>1. IsFiniteSet(s) /\ Pick(s) \in s
      BY <2>2, PickIn, FS_Subset
    <3>2. SumOf(f, s) = f[Pick(s)] + SumOf(f, s \ {Pick(s)})
      BY <2>2, <3>1, SumRound
    <3>3. QED
      BY <1>1, <3>1, <3>2
  <2>3. QED
    BY <2>1, <2>2
<1>2. SUBSET S \subseteq P
  <2> HIDE DEF P
  <2> QED
    BY <1>1, FiniteInd
<1>3. QED
  BY <1>2

\* Any term may be taken out of a sum first.
LEMMA SumRemove ==
  ASSUME NEW S, IsFiniteSet(S), NEW f, \A x \in S : f[x] \in Int, NEW a \in S
  PROVE  SumOf(f, S) = f[a] + SumOf(f, S \ {a})
<1> DEFINE P == {s \in SUBSET S : \A x \in s : SumOf(f, s) = f[x] + SumOf(f, s \ {x})}
<1>1. \A s \in SUBSET S : IsFiniteSet(s) /\ SumOf(f, s) \in Int
  BY FS_Subset, SumInt
<1>2. ASSUME NEW s \in SUBSET S, \A x \in s : s \ {x} \in P PROVE s \in P
  <2> SUFFICES ASSUME NEW x \in s PROVE SumOf(f, s) = f[x] + SumOf(f, s \ {x})
    OBVIOUS
  <2> DEFINE c == Pick(s)
  <2>1. c \in s /\ SumOf(f, s) = f[c] + SumOf(f, s \ {c})
    BY <1>1, SumRound, PickIn
  <2>2. CASE x = c
    BY <2>1, <2>2
  <2>3. CASE x # c
    <3> HIDE DEF c
    <3>1. SumOf(f, s \ {c}) = f[x] + SumOf(f, (s \ {c}) \ {x})
      BY <1>2, <2>1, <2>3
    <3>2. SumOf(f, s \ {x}) = f[c] + SumOf(f, (s \ {x}) \ {c})
      BY <1>2, <2>1, <2>3
    <3> DEFINE rest == (s \ {x}) \ {c}
    <3>3. (s \ {c}) \ {x} = rest
      OBVIOUS
    <3>4. f[c] \in Int /\ f[x] \in Int /\ SumOf(f, rest) \in Int
      BY <1>1, <2>1
    <3>5. /\ SumOf(f, s) = f[c] + (f[x] + SumOf(f, rest))
          /\ SumOf(f, s \ {x}) = f[c] + SumOf(f, rest)
      BY <2>1, <3>1, <3>2, <3>3
    <3> HIDE DEF rest
    <3>6. QED
      BY <3>4, <3>5
  <2>4. QED
    BY <2>2, <2>3
<1>3. SUBSET S \subseteq P
  <2> HIDE DEF P
  <2> QED
    BY <1>2, FiniteInd
<1>4. QED
  BY <1>3

\* A sum depends on its terms only.
LEMMA SumSame ==
  ASSUME NEW S, IsFiniteSet(S), NEW f, NEW g, \A x \in S : f[x] = g[x]
  PROVE  SumOf(f, S) = SumOf(g, S)
<1> DEFINE P == {s \in SUBSET S : SumOf(f, s) = SumOf(g, s)}
<1>1. ASSUME NEW s \in SUBSET S, \A x \in s : s \ {x} \in P PROVE s \in P
  <2>1. CASE s = {}
    BY <2>1, SumEmpty
  <2>2. CASE s # {}
    <3>1. IsFiniteSet(s) /\ Pick(s) \in s
      BY <2>2, PickIn, FS_Subset
    <3>2. /\ SumOf(f, s) = f[Pick(s)] + SumOf(f, s \ {Pick(s)})
          /\ SumOf(g, s) = g[Pick(s)] + SumOf(g, s \ {Pick(s)})
      BY <2>2, <3>1, SumRound
    <3>3. QED
      BY <1>1, <3>1, <3>2
  <2>3. QED
    BY <2>1, <2>2
<1>2. SUBSET S \subseteq P
  <2> HIDE DEF P
  <2> QED
    BY <1>1, FiniteInd
<1>3. QED
  BY <1>2

----------------------------------------------------------------------------
(* The list of blocks.                                                     *)

\* A heap record with its list in order and its number of blocks right.
Shaped(h) ==
  /\ DOMAIN h = {"size", "free", "prev", "next", "last", "end", "used", "count"}
  /\ DOMAIN h.free = Blocks(h) /\ DOMAIN h.prev = Blocks(h)
  /\ DOMAIN h.next = Blocks(h)
Sound(h) == Shaped(h) /\ Tiled(h) /\ h.count = Cardinality(Blocks(h))

LEMMA BlocksFinite ==
  ASSUME NEW h, Tiled(h)
  PROVE  IsFiniteSet(Blocks(h))
<1>1. Blocks(h) \in SUBSET Nat /\ \A b \in Blocks(h) : b <= h.end
  BY HeapAssumption DEF Tiled, End
<1>2. h.end \in Nat
  BY DEF Tiled
<1>3. QED
  BY <1>1, <1>2, FS_BoundedSetOfNaturals

\* What Insert does to each field.
LEMMA InsertFields ==
  ASSUME NEW h, Shaped(h), NEW new, NEW size, NEW p, NEW n, NEW g,
         g = Insert(h, new, size, p, n), new \notin Blocks(h)
  PROVE  /\ Shaped(g)
         /\ Blocks(g) = Blocks(h) \cup {new}
         /\ \A b \in Blocks(h) :
              /\ g.size[b] = h.size[b] /\ g.free[b] = h.free[b]
              /\ g.prev[b] = (IF b = n THEN new ELSE h.prev[b])
              /\ g.next[b] = (IF b = p THEN new ELSE h.next[b])
         /\ g.size[new] = size /\ g.free[new]
         /\ g.prev[new] = p /\ g.next[new] = n
         /\ g.last = (IF n = Null THEN new ELSE h.last)
         /\ g.end = h.end /\ g.used = h.used /\ g.count = h.count + 1
BY DEF Insert, Shaped, Blocks

\* A new block has its place in the list, and in the count.
LEMMA CountInsert ==
  ASSUME NEW h, Tiled(h), NEW new, new \notin Blocks(h), NEW g,
         h.count = Cardinality(Blocks(h)), g.count = h.count + 1,
         Blocks(g) = Blocks(h) \cup {new}
  PROVE  g.count = Cardinality(Blocks(g))
BY BlocksFinite, FS_AddElement

LEMMA CountRemove ==
  ASSUME NEW h, Tiled(h), NEW n \in Blocks(h), NEW g,
         h.count = Cardinality(Blocks(h)), g.count = h.count - 1,
         Blocks(g) = Blocks(h) \ {n}
  PROVE  g.count = Cardinality(Blocks(g))
BY BlocksFinite, FS_RemoveElement

\* The block after b, if there is one.
LEMMA NextBlock ==
  ASSUME NEW h, Tiled(h), NEW b \in Blocks(h)
  PROVE  /\ h.next[b] = Null <=> b = h.last
         /\ b # h.last => /\ h.next[b] = End(h, b) /\ End(h, b) \in Blocks(h)
                          /\ End(h, b) # 0 /\ h.prev[End(h, b)] = b
         /\ b = h.last <=> End(h, b) = h.end
         /\ \A c \in Blocks(h) : c > b => c >= End(h, b)
<1> USE HeapAssumption DEF Tiled, End, Null, MinData
<1>1. \A c \in Blocks(h) : c > b => c >= End(h, b)
  OBVIOUS
<1>2. h.next[b] = Null <=> b = h.last
  OBVIOUS
<1>3. ASSUME b # h.last
      PROVE  /\ h.next[b] = End(h, b) /\ End(h, b) \in Blocks(h)
             /\ End(h, b) # 0 /\ h.prev[End(h, b)] = b
  <2>1. h.next[b] = End(h, b) /\ End(h, b) \in Blocks(h) /\ End(h, b) # 0
    BY <1>3
  <2> DEFINE q == h.prev[End(h, b)]
  <2>2. q \in Blocks(h) /\ End(h, q) = End(h, b)
    BY <2>1
  <2>3. q \in Nat /\ h.size[q] \in Nat /\ h.size[q] >= 1
    BY <2>2
  <2>4. ~(q < b) /\ ~(b < q)
    BY <2>2, <2>3
  <2>5. QED
    BY <2>1, <2>3, <2>4
<1>4. b = h.last <=> End(h, b) = h.end
  <2>1. b # h.last => End(h, b) # h.end
    BY <1>3
  <2>2. QED
    BY <2>1
<1>5. QED
  BY <1>1, <1>2, <1>3, <1>4

----------------------------------------------------------------------------
(* The list operations keep the list in order.                             *)

\* expand_heap adds one free block, after the last one.
LEMMA ExpandSound ==
  ASSUME NEW h, Sound(h), CanExpand(h), NEW g, g = ExpandHeap(h)
  PROVE  /\ Sound(g)
         /\ Blocks(g) = Blocks(h) \cup {h.end} /\ h.end \notin Blocks(h)
         /\ g.free[h.end]
         /\ \A b \in Blocks(h) : g.size[b] = h.size[b] /\ g.free[b] = h.free[b]
         /\ g.used = h.used
<1> DEFINE i == Insert(h, h.end, Expand - Header, h.last, Null)
<1> USE HeapAssumption
<1>1. h.end \notin Blocks(h)
  BY DEF Sound, Tiled, End, MinData
<1>2. /\ Shaped(i)
      /\ Blocks(i) = Blocks(h) \cup {h.end}
      /\ \A b \in Blocks(h) :
           /\ i.size[b] = h.size[b] /\ i.free[b] = h.free[b]
           /\ i.prev[b] = (IF b = Null THEN h.end ELSE h.prev[b])
           /\ i.next[b] = (IF b = h.last THEN h.end ELSE h.next[b])
      /\ i.size[h.end] = Expand - Header /\ i.free[h.end]
      /\ i.prev[h.end] = h.last /\ i.next[h.end] = Null
      /\ i.last = h.end
      /\ i.end = h.end /\ i.used = h.used /\ i.count = h.count + 1
  BY <1>1, InsertFields DEF Sound
<1>3. /\ Shaped(g) /\ g.end = h.end + Expand
      /\ g.size = i.size /\ g.free = i.free /\ g.prev = i.prev /\ g.next = i.next
      /\ g.last = i.last /\ g.used = i.used /\ g.count = i.count
  <2> HIDE DEF i
  <2>1. g = [i EXCEPT !.end = @ + Expand]
    BY DEF ExpandHeap, i
  <2>2. DOMAIN i = {"size", "free", "prev", "next", "last", "end", "used", "count"}
    BY <1>2 DEF Shaped
  <2>3. /\ DOMAIN g = DOMAIN i /\ g.end = i.end + Expand
        /\ g.size = i.size /\ g.free = i.free /\ g.prev = i.prev /\ g.next = i.next
        /\ g.last = i.last /\ g.used = i.used /\ g.count = i.count
    BY <2>1, <2>2
  <2>4. QED
    BY <1>2, <2>3 DEF Shaped, Blocks
<1> HIDE DEF i
<1>4. Blocks(g) = Blocks(h) \cup {h.end}
  BY <1>2, <1>3 DEF Blocks
<1>5. \A b \in Blocks(h) :
        /\ g.size[b] = h.size[b] /\ g.free[b] = h.free[b] /\ g.prev[b] = h.prev[b]
        /\ g.next[b] = (IF b = h.last THEN h.end ELSE h.next[b])
  BY <1>2, <1>3 DEF Sound, Tiled, Null
<1>6. /\ g.size[h.end] = Expand - Header /\ g.free[h.end]
      /\ g.prev[h.end] = h.last /\ g.next[h.end] = Null /\ g.last = h.end
      /\ g.used = h.used /\ g.count = h.count + 1
  BY <1>2, <1>3
<1>7. Tiled(g)
  <2> USE DEF Sound, Tiled, End, MinData
  <2>1. /\ 0 \in Blocks(g) /\ g.last \in Blocks(g)
        /\ g.end \in Nat /\ g.end <= MaxHeap /\ End(g, g.last) = g.end
    BY <1>3, <1>4, <1>6 DEF CanExpand
  <2>2. \A b \in Blocks(g) : /\ b \in Nat
                             /\ g.size[b] \in Nat /\ g.size[b] >= MinData
                             /\ End(g, b) <= g.end
    BY <1>3, <1>4, <1>5, <1>6
  <2>3. \A a, b \in Blocks(g) : a < b => End(g, a) <= b
    BY <1>3, <1>4, <1>5, <1>6
  <2>4. \A b \in Blocks(g) : IF b = g.last THEN g.next[b] = Null
                             ELSE /\ End(g, b) \in Blocks(g)
                                  /\ g.next[b] = End(g, b)
    BY <1>1, <1>4, <1>5, <1>6
  <2>5. \A b \in Blocks(g) : IF b = 0 THEN g.prev[b] = Null
                             ELSE /\ g.prev[b] \in Blocks(g)
                                  /\ End(g, g.prev[b]) = b
    BY <1>1, <1>4, <1>5, <1>6
  <2>6. QED
    BY <2>1, <2>2, <2>3, <2>4, <2>5
<1>8. g.count = Cardinality(Blocks(g))
  BY <1>1, <1>4, <1>6, CountInsert DEF Sound
<1>9. QED
  BY <1>1, <1>3, <1>4, <1>5, <1>6, <1>7, <1>8 DEF Sound

\* split_block shortens b to at least n units; what is cut off is free.
LEMMA SplitSound ==
  ASSUME NEW h, Sound(h), NEW b \in Blocks(h), NEW n \in Nat, n >= 1, n <= h.size[b],
         NEW g, g = Split(h, b, n)
  PROVE  /\ Sound(g)
         /\ Blocks(h) \subseteq Blocks(g)
         /\ \A x \in Blocks(g) \ Blocks(h) : g.free[x]
         /\ \A x \in Blocks(h) : /\ g.free[x] = h.free[x]
                                 /\ x # b => g.size[x] = h.size[x]
         /\ n <= g.size[b] /\ g.size[b] <= h.size[b] /\ g.size[b] \in Nat
         /\ g.used = h.used
<1> DEFINE new  == b + Header + n
           left == h.size[b] - n - Header
           nx   == h.next[b]
           i    == Insert(h, new, left, b, nx)
<1> USE HeapAssumption
<1>1. b \in Nat /\ h.size[b] \in Nat
  BY DEF Sound, Tiled
<1>2. CASE h.size[b] - n < Header + MinData
  BY <1>1, <1>2 DEF Split
<1>3. CASE ~(h.size[b] - n < Header + MinData)
  <2>1. /\ new \in Nat /\ left \in Nat /\ left >= 1
        /\ b < new /\ new < End(h, b) /\ new + Header + left = End(h, b)
    BY <1>1, <1>3 DEF End, MinData
  <2>2. new \notin Blocks(h)
    BY <1>1, <2>1 DEF Sound, Tiled
  <2>3. /\ Shaped(i)
        /\ Blocks(i) = Blocks(h) \cup {new}
        /\ \A x \in Blocks(h) :
             /\ i.size[x] = h.size[x] /\ i.free[x] = h.free[x]
             /\ i.prev[x] = (IF x = nx THEN new ELSE h.prev[x])
             /\ i.next[x] = (IF x = b THEN new ELSE h.next[x])
        /\ i.size[new] = left /\ i.free[new]
        /\ i.prev[new] = b /\ i.next[new] = nx
        /\ i.last = (IF nx = Null THEN new ELSE h.last)
        /\ i.end = h.end /\ i.used = h.used /\ i.count = h.count + 1
    BY <2>2, InsertFields DEF Sound
  <2>4. /\ Shaped(g) /\ g.size = [i.size EXCEPT ![b] = n]
        /\ g.end = i.end /\ g.free = i.free /\ g.prev = i.prev /\ g.next = i.next
        /\ g.last = i.last /\ g.used = i.used /\ g.count = i.count
    <3> HIDE DEF i
    <3>1. g = [i EXCEPT !.size[b] = n]
      BY <1>3 DEF Split, i
    <3>2. QED
      BY <2>3, <3>1 DEF Shaped, Blocks
  <2> HIDE DEF i
  <2>5. Blocks(g) = Blocks(h) \cup {new}
    BY <2>3, <2>4 DEF Blocks
  <2>6. \A x \in Blocks(h) :
          /\ g.size[x] = (IF x = b THEN n ELSE h.size[x])
          /\ g.free[x] = h.free[x]
          /\ g.prev[x] = (IF x = nx THEN new ELSE h.prev[x])
          /\ g.next[x] = (IF x = b THEN new ELSE h.next[x])
    BY <2>3, <2>4 DEF Blocks
  <2>7. /\ g.size[new] = left /\ g.free[new] /\ g.prev[new] = b /\ g.next[new] = nx
        /\ g.last = (IF nx = Null THEN new ELSE h.last)
        /\ g.end = h.end /\ g.used = h.used /\ g.count = h.count + 1
    BY <2>1, <2>2, <2>3, <2>4 DEF Blocks
  <2>8. Tiled(g)
    <3> HIDE DEF new, left, nx
    <3>0. /\ nx = Null <=> b = h.last
          /\ b # h.last => nx = End(h, b) /\ End(h, b) \in Blocks(h) /\ nx # 0
          /\ b = h.last <=> End(h, b) = h.end
      BY NextBlock DEF Sound, nx
    <3>1. End(g, b) = new /\ End(g, new) = End(h, b)
      BY <2>1, <2>6, <2>7 DEF End, new
    <3>2. \A x \in Blocks(h) : x # b => End(g, x) = End(h, x)
      BY <2>6 DEF End
    <3>3. /\ 0 \in Blocks(g) /\ g.last \in Blocks(g)
          /\ g.end \in Nat /\ g.end <= MaxHeap /\ End(g, g.last) = g.end
      BY <2>5, <2>6, <2>7, <3>0, <3>1, <3>2 DEF Sound, Tiled
    <3>4. \A x \in Blocks(g) : /\ x \in Nat
                               /\ g.size[x] \in Nat /\ g.size[x] >= MinData
                               /\ End(g, x) <= g.end
      BY <2>1, <2>5, <2>6, <2>7, <3>1, <3>2 DEF Sound, Tiled, MinData
    <3>5. ASSUME NEW x \in Blocks(g), NEW y \in Blocks(g), x < y
          PROVE  End(g, x) <= y
      <4>1. \A z \in Blocks(h) : z < b => End(h, z) <= b
        BY DEF Sound, Tiled
      <4>2. \A z \in Blocks(h) : b < z => End(h, b) <= z
        BY DEF Sound, Tiled
      <4>3. End(h, b) \in Nat /\ \A z \in Blocks(h) : z \in Nat /\ End(h, z) \in Nat
        BY DEF Sound, Tiled, End
      <4>4. CASE x = new
        BY <1>1, <2>1, <2>5, <3>1, <3>5, <4>2, <4>3, <4>4
      <4>5. CASE y = new /\ x # new
        BY <1>1, <2>1, <2>5, <3>1, <3>2, <3>5, <4>1, <4>2, <4>3, <4>5
      <4>6. CASE x = b /\ y # new
        BY <1>1, <2>1, <2>2, <2>5, <3>1, <3>5, <4>2, <4>3, <4>6
      <4>7. CASE x # new /\ y # new /\ x # b
        BY <2>5, <3>2, <3>5, <4>7 DEF Sound, Tiled
      <4>8. QED
        BY <4>4, <4>5, <4>6, <4>7
    <3>6. \A x \in Blocks(g) : IF x = g.last THEN g.next[x] = Null
                               ELSE /\ End(g, x) \in Blocks(g)
                                    /\ g.next[x] = End(g, x)
      <4>1. CASE b = h.last
        BY <2>1, <2>2, <2>5, <2>6, <2>7, <3>0, <3>1, <3>2, <4>1 DEF Sound, Tiled
      <4>2. CASE b # h.last
        BY <2>1, <2>2, <2>5, <2>6, <2>7, <3>0, <3>1, <3>2, <4>2 DEF Sound, Tiled
      <4>3. QED
        BY <4>1, <4>2
    <3>7. ASSUME NEW x \in Blocks(g), x # 0
          PROVE  g.prev[x] \in Blocks(g) /\ End(g, g.prev[x]) = x
      <4>1. CASE x = new
        BY <2>5, <2>7, <3>1, <4>1
      <4>2. CASE x = nx /\ x # new
        BY <2>5, <2>6, <3>0, <3>1, <3>7, <4>2 DEF Sound, Tiled, Null
      <4>3. CASE x # nx /\ x # new
        <5>1. x \in Blocks(h) /\ g.prev[x] = h.prev[x]
          BY <2>5, <2>6, <4>3
        <5>2. h.prev[x] \in Blocks(h) /\ End(h, h.prev[x]) = x
          BY <3>7, <5>1 DEF Sound, Tiled
        <5>3. h.prev[x] # b
          BY <3>0, <4>3, <5>1, <5>2, NextBlock DEF Sound, Tiled, End, MinData
        <5>4. QED
          BY <2>5, <3>2, <5>1, <5>2, <5>3
      <4>4. QED
        BY <4>1, <4>2, <4>3
    <3>8. g.prev[0] = Null
      BY <2>1, <2>6, <3>0 DEF Sound, Tiled, Null
    <3>9. QED
      BY <3>3, <3>4, <3>5, <3>6, <3>7, <3>8 DEF Tiled
  <2>9. g.count = Cardinality(Blocks(g))
    BY <2>2, <2>5, <2>7, CountInsert DEF Sound
  <2>10. n <= g.size[b] /\ g.size[b] <= h.size[b] /\ g.size[b] \in Nat
    BY <1>1, <2>6
  <2>11. QED
    BY <2>4, <2>5, <2>6, <2>7, <2>8, <2>9, <2>10 DEF Sound
<1>4. QED
  BY <1>2, <1>3

\* merge_with_next takes in a free block, and leaves the others as they are.
LEMMA MergeSound ==
  ASSUME NEW h, Sound(h), NEW b \in Blocks(h), h.free[b],
         NEW g, g = Merge(h, b)
  PROVE  /\ Sound(g)
         /\ Blocks(g) \subseteq Blocks(h) /\ b \in Blocks(g)
         /\ \A x \in Blocks(h) \ Blocks(g) : h.free[x]
         /\ \A x \in Blocks(g) : /\ g.free[x] = h.free[x]
                                 /\ x # b => g.size[x] = h.size[x]
         /\ \A x \in Blocks(g) : g.prev[x] # Null => g.prev[x] \in Blocks(g)
         /\ g.prev[b] = h.prev[b]
         /\ g.used = h.used
<1> DEFINE n == h.next[b]
<1> USE HeapAssumption
<1>1. CASE n = Null \/ ~h.free[n] \/ n # End(h, b)
  <2>1. g = h
    BY <1>1 DEF Merge
  <2>2. QED
    BY <2>1 DEF Sound, Tiled
<1>2. CASE ~(n = Null \/ ~h.free[n] \/ n # End(h, b))
  <2>0. /\ b # h.last /\ n = End(h, b) /\ n \in Blocks(h) /\ n # 0 /\ n # b
        /\ h.prev[n] = b /\ h.free[n] /\ b < n
    BY <1>2, NextBlock DEF Sound, Tiled, End, MinData
  <2> DEFINE B == Blocks(h) \ {n}
             m == h.next[n]
  <2>1. g = [h EXCEPT
              !.size = [x \in B |-> IF x = b THEN h.size[b] + Header + h.size[n]
                                    ELSE h.size[x]],
              !.free = [x \in B |-> h.free[x]],
              !.prev = [x \in B |-> IF x = m THEN b ELSE h.prev[x]],
              !.next = [x \in B |-> IF x = b THEN m ELSE h.next[x]],
              !.last = IF m = Null THEN b ELSE @,
              !.count = @ - 1]
    BY <1>2 DEF Merge
  <2>2. DOMAIN h = {"size", "free", "prev", "next", "last", "end", "used", "count"}
    BY DEF Sound, Shaped
  <2>3. /\ DOMAIN g = DOMAIN h
        /\ g.size = [x \in B |-> IF x = b THEN h.size[b] + Header + h.size[n]
                                 ELSE h.size[x]]
        /\ g.free = [x \in B |-> h.free[x]]
        /\ g.prev = [x \in B |-> IF x = m THEN b ELSE h.prev[x]]
        /\ g.next = [x \in B |-> IF x = b THEN m ELSE h.next[x]]
        /\ g.last = (IF m = Null THEN b ELSE h.last)
        /\ g.count = h.count - 1 /\ g.end = h.end /\ g.used = h.used
    <3> HIDE DEF B, m, n
    <3> QED
      BY <2>1, <2>2
  <2>4. Blocks(g) = Blocks(h) \ {n} /\ Shaped(g)
    BY <2>2, <2>3 DEF Blocks, Shaped
  <2>5. \A x \in Blocks(g) :
          /\ g.size[x] = (IF x = b THEN h.size[b] + Header + h.size[n] ELSE h.size[x])
          /\ g.free[x] = h.free[x]
          /\ g.prev[x] = (IF x = m THEN b ELSE h.prev[x])
          /\ g.next[x] = (IF x = b THEN m ELSE h.next[x])
    BY <2>3, <2>4
  <2>6. /\ m = Null <=> n = h.last
        /\ n # h.last => m = End(h, n) /\ m \in Blocks(h) /\ m # 0 /\ h.prev[m] = n
        /\ n = h.last <=> End(h, n) = h.end
    BY <2>0, NextBlock DEF Sound
  <2>65. m # b /\ m # n
    BY <2>0, <2>6 DEF Sound, Tiled, End, MinData, Null
  <2> HIDE DEF n, B, m
  <2>7. /\ g.last = (IF m = Null THEN b ELSE h.last)
        /\ g.count = h.count - 1 /\ g.end = h.end /\ g.used = h.used
    BY <2>3
  <2>8. End(g, b) = End(h, n) /\ \A x \in Blocks(g) : x # b => End(g, x) = End(h, x)
    BY <2>0, <2>4, <2>5 DEF Sound, Tiled, End
  <2>9. Tiled(g)
    <3>1. /\ 0 \in Blocks(g) /\ g.last \in Blocks(g)
          /\ g.end \in Nat /\ g.end <= MaxHeap /\ End(g, g.last) = g.end
      BY <2>0, <2>4, <2>6, <2>7, <2>8 DEF Sound, Tiled
    <3>2. \A x \in Blocks(g) : /\ x \in Nat
                               /\ g.size[x] \in Nat /\ g.size[x] >= MinData
                               /\ End(g, x) <= g.end
      BY <2>0, <2>4, <2>5, <2>7, <2>8 DEF Sound, Tiled, MinData
    <3>3. ASSUME NEW x \in Blocks(g), NEW y \in Blocks(g), x < y
          PROVE  End(g, x) <= y
      <4>1. CASE x # b
        BY <2>4, <2>8, <3>3, <4>1 DEF Sound, Tiled
      <4>2. CASE x = b
        <5>1. End(h, b) <= y /\ y # n /\ y \in Blocks(h) /\ y \in Nat /\ n \in Nat
          BY <2>0, <2>4, <3>3, <4>2 DEF Sound, Tiled
        <5>2. n < y
          BY <2>0, <5>1
        <5>3. QED
          BY <2>0, <2>8, <4>2, <5>1, <5>2 DEF Sound, Tiled
      <4>3. QED
        BY <4>1, <4>2
    <3>4. ASSUME NEW x \in Blocks(g)
          PROVE  IF x = g.last THEN g.next[x] = Null
                 ELSE End(g, x) \in Blocks(g) /\ g.next[x] = End(g, x)
      <4>1. CASE x = b
        BY <2>0, <2>4, <2>5, <2>6, <2>65, <2>7, <2>8, <4>1
      <4>2. CASE x # b
        <5>1. x # h.last => End(h, x) # n
          <6>1. x # h.last => h.prev[End(h, x)] = x
            BY <2>4, NextBlock DEF Sound
          <6>2. QED
            BY <2>0, <4>2, <6>1
        <5>2. x = g.last <=> x = h.last
          BY <2>4, <2>6, <2>7, <4>2
        <5>3. QED
          BY <2>4, <2>5, <2>8, <4>2, <5>1, <5>2 DEF Sound, Tiled
      <4>3. QED
        BY <4>1, <4>2
    <3>5. ASSUME NEW x \in Blocks(g), x # 0
          PROVE  g.prev[x] \in Blocks(g) /\ End(g, g.prev[x]) = x
      <4>1. CASE x = m
        BY <2>0, <2>4, <2>5, <2>6, <2>8, <4>1 DEF Sound, Tiled, Null
      <4>2. CASE x # m
        <5>1. g.prev[x] = h.prev[x] /\ h.prev[x] \in Blocks(h) /\ End(h, h.prev[x]) = x
          BY <2>4, <2>5, <3>5, <4>2 DEF Sound, Tiled
        <5>2. h.prev[x] # n
          BY <2>4, <2>6, <4>2, <5>1 DEF Sound, Tiled, End, MinData
        <5>3. h.prev[x] # b
          BY <2>0, <2>4, <5>1
        <5>4. QED
          BY <2>4, <2>8, <5>1, <5>2, <5>3
      <4>3. QED
        BY <4>1, <4>2
    <3>6. g.prev[0] = Null
      BY <2>4, <2>5, <2>6, <3>1 DEF Sound, Tiled, Null
    <3>7. QED
      BY <3>1, <3>2, <3>3, <3>4, <3>5, <3>6 DEF Tiled
  <2>10. g.count = Cardinality(Blocks(g))
    BY <2>0, <2>4, <2>7, CountRemove DEF Sound
  <2>11. g.prev[b] = h.prev[b]
    BY <2>0, <2>4, <2>5, <2>65
  <2>12. \A x \in Blocks(g) : g.prev[x] # Null => g.prev[x] \in Blocks(g)
    BY <2>9 DEF Tiled
  <2>13. \A x \in Blocks(h) \ Blocks(g) : h.free[x]
    BY <2>0, <2>4
  <2>14. Sound(g) /\ Blocks(g) \subseteq Blocks(h) /\ b \in Blocks(g)
    BY <2>0, <2>4, <2>9, <2>10 DEF Sound
  <2>15. QED
    BY <2>5, <2>7, <2>11, <2>12, <2>13, <2>14
<1>3. QED
  BY <1>1, <1>2

\* Handing out block b for n units.
LEMMA UseSound ==
  ASSUME NEW h, Sound(h), NEW b \in Blocks(h), NEW n \in Nat, n >= 1, n <= h.size[b],
         NEW g, g = Use(h, b, n)
  PROVE  /\ Sound(g)
         /\ Blocks(h) \subseteq Blocks(g)
         /\ \A x \in Blocks(g) \ Blocks(h) : g.free[x]
         /\ \A x \in Blocks(h) \ {b} : g.free[x] = h.free[x] /\ g.size[x] = h.size[x]
         /\ ~g.free[b]
         /\ n <= g.size[b] /\ g.size[b] <= h.size[b] /\ g.size[b] \in Nat
         /\ g.used = h.used + g.size[b]
<1> DEFINE s == Split(h, b, n)
<1>1. /\ Sound(s)
      /\ Blocks(h) \subseteq Blocks(s)
      /\ \A x \in Blocks(s) \ Blocks(h) : s.free[x]
      /\ \A x \in Blocks(h) : /\ s.free[x] = h.free[x]
                              /\ x # b => s.size[x] = h.size[x]
      /\ n <= s.size[b] /\ s.size[b] <= h.size[b] /\ s.size[b] \in Nat
      /\ s.used = h.used
  BY SplitSound
<1>2. g = [s EXCEPT !.free[b] = FALSE, !.used = @ + s.size[b]]
  BY DEF Use
<1> HIDE DEF s
<1>3. /\ DOMAIN s = {"size", "free", "prev", "next", "last", "end", "used", "count"}
      /\ DOMAIN s.free = Blocks(s)
  BY <1>1 DEF Sound, Shaped
<1>4. /\ DOMAIN g = DOMAIN s /\ g.free = [s.free EXCEPT ![b] = FALSE]
      /\ g.used = s.used + s.size[b]
      /\ g.size = s.size /\ g.prev = s.prev /\ g.next = s.next
      /\ g.last = s.last /\ g.end = s.end /\ g.count = s.count
  BY <1>2, <1>3
<1>5. Blocks(g) = Blocks(s)
  BY <1>4 DEF Blocks
<1>6. \A x \in Blocks(s) : g.free[x] = (IF x = b THEN FALSE ELSE s.free[x])
  BY <1>3, <1>4
<1>7. Sound(g)
  <2>1. Shaped(g)
    BY <1>1, <1>3, <1>4, <1>5 DEF Sound, Shaped
  <2>2. Tiled(g)
    BY <1>1, <1>4, <1>5 DEF Sound, Tiled, End
  <2>3. QED
    BY <1>1, <1>4, <1>5, <2>1, <2>2 DEF Sound
<1>8. QED
  BY <1>1, <1>4, <1>5, <1>6, <1>7

\* Giving block b back: blocks in use, other than b, stay what they are.
LEMMA ReleaseSound ==
  ASSUME NEW h, Sound(h), NEW b \in Blocks(h), NEW g, g = Release(h, b)
  PROVE  /\ Sound(g)
         /\ Blocks(g) \subseteq Blocks(h)
         /\ \A x \in Blocks(h) \ Blocks(g) : x = b \/ h.free[x]
         /\ \A x \in Blocks(g) : x = b => g.free[x]
         /\ \A x \in Blocks(g) \ {b} : /\ g.free[x] = h.free[x]
                                       /\ ~h.free[x] => g.size[x] = h.size[x]
         /\ g.used = h.used - h.size[b]
<1> DEFINE f == [h EXCEPT !.free[b] = TRUE, !.used = @ - h.size[b]]
           a == Merge(f, b)
           p == a.prev[b]
<1>1. /\ DOMAIN h = {"size", "free", "prev", "next", "last", "end", "used", "count"}
      /\ DOMAIN h.free = Blocks(h)
  BY DEF Sound, Shaped
<1>2. /\ DOMAIN f = DOMAIN h /\ f.free = [h.free EXCEPT ![b] = TRUE]
      /\ f.used = h.used - h.size[b]
      /\ f.size = h.size /\ f.prev = h.prev /\ f.next = h.next
      /\ f.last = h.last /\ f.end = h.end /\ f.count = h.count
  BY <1>1
<1>3. g = IF p # Null /\ a.free[p] THEN Merge(a, p) ELSE a
  BY DEF Release
<1> HIDE DEF f
<1>4. Blocks(f) = Blocks(h)
  BY <1>2 DEF Blocks
<1>5. Sound(f)
  <2>1. Shaped(f)
    BY <1>1, <1>2, <1>4 DEF Sound, Shaped
  <2>2. Tiled(f)
    BY <1>2, <1>4 DEF Sound, Tiled, End
  <2>3. QED
    BY <1>2, <1>4, <2>1, <2>2 DEF Sound
<1>6. \A x \in Blocks(h) : f.free[x] = (IF x = b THEN TRUE ELSE h.free[x])
  BY <1>1, <1>2
<1>61. f.free[b] /\ \A x \in Blocks(h) \ {b} : f.free[x] = h.free[x]
  BY <1>6
<1>7. /\ Sound(a)
      /\ Blocks(a) \subseteq Blocks(f) /\ b \in Blocks(a)
      /\ \A x \in Blocks(f) \ Blocks(a) : f.free[x]
      /\ \A x \in Blocks(a) : /\ a.free[x] = f.free[x]
                              /\ x # b => a.size[x] = f.size[x]
      /\ \A x \in Blocks(a) : a.prev[x] # Null => a.prev[x] \in Blocks(a)
      /\ a.used = f.used
  BY <1>4, <1>5, <1>61, MergeSound
<1> HIDE DEF a
<1>8. CASE p # Null /\ a.free[p]
  <2>1. p \in Blocks(a)
    BY <1>7, <1>8
  <2> HIDE DEF p
  <2>2. /\ Sound(g)
        /\ Blocks(g) \subseteq Blocks(a) /\ p \in Blocks(g)
        /\ \A x \in Blocks(a) \ Blocks(g) : a.free[x]
        /\ \A x \in Blocks(g) : /\ g.free[x] = a.free[x]
                                /\ x # p => g.size[x] = a.size[x]
        /\ g.used = a.used
    BY <1>3, <1>7, <1>8, <2>1, MergeSound
  <2>3. \A x \in Blocks(h) \ Blocks(g) : x = b \/ h.free[x]
    BY <1>4, <1>61, <1>7, <2>2
  <2>4. \A x \in Blocks(g) : x = b => g.free[x]
    BY <1>61, <1>7, <2>2
  <2>5. ASSUME NEW x \in Blocks(g) \ {b}
        PROVE  g.free[x] = h.free[x] /\ (~h.free[x] => g.size[x] = h.size[x])
    <3>1. g.free[x] = a.free[x] /\ a.free[x] = f.free[x] /\ f.free[x] = h.free[x]
      BY <1>4, <1>61, <1>7, <2>2
    <3>2. ~h.free[x] => x # p
      BY <1>8, <3>1
    <3>3. x # p => g.size[x] = h.size[x]
      BY <1>2, <1>4, <1>7, <2>2
    <3>4. QED
      BY <3>1, <3>2, <3>3
  <2>6. QED
    BY <1>2, <1>4, <1>7, <2>2, <2>3, <2>4, <2>5
<1>9. CASE ~(p # Null /\ a.free[p])
  BY <1>2, <1>3, <1>4, <1>61, <1>7, <1>9
<1>10. QED
  BY <1>8, <1>9

----------------------------------------------------------------------------
(* A heap and what its callers hold of it.                                 *)

\* The blocks in use are those in "held", but for block "but", which may be
\* either; each is as long as was asked for; the bytes in use add up.
OwnedBut(h, held, but) ==
  /\ Sound(h)
  /\ DOMAIN held \subseteq Blocks(h)
  /\ \A b \in Blocks(h) \ {but} : h.free[b] <=> b \notin DOMAIN held
  /\ \A p \in DOMAIN held : held[p] \in Nat /\ held[p] >= 1 /\ held[p] <= h.size[p]
  /\ h.used = SumOf(h.size, DOMAIN held)

Owned(h, held) == OwnedBut(h, held, Null)

LEMMA OwnedBlocks ==
  ASSUME NEW h, NEW held, NEW but, OwnedBut(h, held, but)
  PROVE  /\ IsFiniteSet(DOMAIN held)
         /\ \A b \in Blocks(h) : b \in Nat /\ b # Null /\ h.size[b] \in Nat
         /\ SumOf(h.size, DOMAIN held) \in Int
<1>1. \A b \in Blocks(h) : b \in Nat /\ b # Null /\ h.size[b] \in Nat
  BY DEF OwnedBut, Sound, Tiled, Null
<1>2. IsFiniteSet(DOMAIN held)
  BY BlocksFinite, FS_Subset DEF OwnedBut, Sound
<1>3. QED
  BY <1>1, <1>2, SumInt DEF OwnedBut

\* An expansion is nobody's yet.
LEMMA ExpandOwned ==
  ASSUME NEW h, NEW held, Owned(h, held), CanExpand(h)
  PROVE  Owned(ExpandHeap(h), held)
<1> DEFINE g == ExpandHeap(h)
<1>1. Sound(h)
  BY DEF Owned, OwnedBut
<1>2. /\ Sound(g)
      /\ Blocks(g) = Blocks(h) \cup {h.end} /\ h.end \notin Blocks(h)
      /\ g.free[h.end]
      /\ \A b \in Blocks(h) : g.size[b] = h.size[b] /\ g.free[b] = h.free[b]
      /\ g.used = h.used
  BY <1>1, ExpandSound
<1> HIDE DEF g
<1>3. IsFiniteSet(DOMAIN held) /\ \A b \in Blocks(h) : b # Null
  BY OwnedBlocks DEF Owned
<1>4. SumOf(g.size, DOMAIN held) = SumOf(h.size, DOMAIN held)
  BY <1>2, <1>3, SumSame DEF Owned, OwnedBut
<1>5. \A b \in Blocks(g) : g.free[b] <=> b \notin DOMAIN held
  BY <1>2, <1>3 DEF Owned, OwnedBut
<1>6. \A p \in DOMAIN held : held[p] \in Nat /\ held[p] >= 1 /\ held[p] <= g.size[p]
  BY <1>2 DEF Owned, OwnedBut
<1>7. QED
  BY <1>2, <1>4, <1>5, <1>6 DEF Owned, OwnedBut, g

\* A block handed out is its new caller's.
Fits(h, b, n) == b \in Blocks(h) /\ n \in Nat /\ n >= 1 /\ n <= h.size[b]

Added(new, held, b, n) ==
  /\ b \notin DOMAIN held
  /\ DOMAIN new = DOMAIN held \cup {b}
  /\ \A x \in DOMAIN new : new[x] = IF x = b THEN n ELSE held[x]

LEMMA UseOwned ==
  ASSUME NEW h, NEW held, NEW b, NEW n, NEW new,
         Fits(h, b, n), OwnedBut(h, held, b), Added(new, held, b, n)
  PROVE  Owned(Use(h, b, n), new)
<1> USE DEF Fits, Added
<1> DEFINE g == Use(h, b, n)
<1>1. Sound(h) /\ DOMAIN held \subseteq Blocks(h)
  BY DEF OwnedBut
<1>2. /\ Sound(g)
      /\ Blocks(h) \subseteq Blocks(g)
      /\ \A x \in Blocks(g) \ Blocks(h) : g.free[x]
      /\ \A x \in Blocks(h) \ {b} : g.free[x] = h.free[x] /\ g.size[x] = h.size[x]
      /\ ~g.free[b]
      /\ n <= g.size[b] /\ g.size[b] <= h.size[b] /\ g.size[b] \in Nat
      /\ g.used = h.used + g.size[b]
  BY <1>1, UseSound
<1> HIDE DEF g
<1>3. /\ IsFiniteSet(DOMAIN held) /\ \A x \in Blocks(h) : x # Null /\ h.size[x] \in Nat
      /\ SumOf(h.size, DOMAIN held) \in Int
  BY OwnedBlocks
<1>4. g.used = SumOf(g.size, DOMAIN new)
  <2>1. IsFiniteSet(DOMAIN new)
    BY <1>3, FS_AddElement
  <2>2. \A x \in DOMAIN new : g.size[x] \in Int
    BY <1>1, <1>2, <1>3
  <2>3. SumOf(g.size, DOMAIN new) = g.size[b] + SumOf(g.size, DOMAIN new \ {b})
    BY <2>1, <2>2, SumRemove
  <2>4. DOMAIN new \ {b} = DOMAIN held
    OBVIOUS
  <2>5. SumOf(g.size, DOMAIN held) = SumOf(h.size, DOMAIN held)
    BY <1>1, <1>2, <1>3, SumSame
  <2>6. h.used = SumOf(h.size, DOMAIN held)
    BY DEF OwnedBut
  <2>7. QED
    BY <1>2, <1>3, <2>3, <2>4, <2>5, <2>6
<1>5. \A x \in Blocks(g) : g.free[x] <=> x \notin DOMAIN new
  <2>1. \A x \in Blocks(h) \ {b} : h.free[x] <=> x \notin DOMAIN held
    BY DEF OwnedBut
  <2>2. QED
    BY <1>1, <1>2, <2>1
<1>6. ASSUME NEW x \in DOMAIN new
      PROVE  new[x] \in Nat /\ new[x] >= 1 /\ new[x] <= g.size[x]
  <2>1. CASE x = b
    BY <1>2, <2>1
  <2>2. CASE x # b
    <3>1. held[x] \in Nat /\ held[x] >= 1 /\ held[x] <= h.size[x]
      BY <2>2 DEF OwnedBut
    <3>2. QED
      BY <1>1, <1>2, <2>2, <3>1
  <2>3. QED
    BY <2>1, <2>2
<1>7. DOMAIN new \subseteq Blocks(g)
  BY <1>1, <1>2
<1>8. QED
  BY <1>2, <1>4, <1>5, <1>6, <1>7 DEF Owned, OwnedBut, g

\* A block given back is nobody's.
LEMMA ReleaseOwned ==
  ASSUME NEW h, NEW held, NEW b \in DOMAIN held, Owned(h, held),
         NEW new, DOMAIN new = DOMAIN held \ {b},
         \A x \in DOMAIN new : new[x] = held[x]
  PROVE  Owned(Release(h, b), new)
<1> DEFINE g == Release(h, b)
<1>1. /\ Sound(h) /\ DOMAIN held \subseteq Blocks(h)
      /\ h.used = SumOf(h.size, DOMAIN held)
  BY DEF Owned, OwnedBut
<1>2. /\ Sound(g)
      /\ Blocks(g) \subseteq Blocks(h)
      /\ \A x \in Blocks(h) \ Blocks(g) : x = b \/ h.free[x]
      /\ \A x \in Blocks(g) : x = b => g.free[x]
      /\ \A x \in Blocks(g) \ {b} : /\ g.free[x] = h.free[x]
                                    /\ ~h.free[x] => g.size[x] = h.size[x]
      /\ g.used = h.used - h.size[b]
  BY <1>1, ReleaseSound
<1> HIDE DEF g
<1>3. /\ IsFiniteSet(DOMAIN held) /\ \A x \in Blocks(h) : x # Null /\ h.size[x] \in Nat
      /\ SumOf(h.size, DOMAIN held) \in Int
  BY OwnedBlocks DEF Owned
<1>4. \A x \in Blocks(h) : h.free[x] <=> x \notin DOMAIN held
  BY <1>3 DEF Owned, OwnedBut
<1>5. DOMAIN new \subseteq Blocks(g) /\ \A x \in DOMAIN new : g.size[x] = h.size[x]
  BY <1>1, <1>2, <1>4
<1>6. g.used = SumOf(g.size, DOMAIN new)
  <2>1. \A x \in DOMAIN held : h.size[x] \in Int
    BY <1>1, <1>3
  <2>2. SumOf(h.size, DOMAIN held) = h.size[b] + SumOf(h.size, DOMAIN new)
    BY <1>3, <2>1, SumRemove
  <2>3. IsFiniteSet(DOMAIN new)
    BY <1>3, FS_RemoveElement
  <2>4. SumOf(g.size, DOMAIN new) = SumOf(h.size, DOMAIN new)
    BY <1>5, <2>3, SumSame
  <2>5. SumOf(h.size, DOMAIN new) \in Int /\ h.size[b] \in Int
    BY <2>1, <2>3, SumInt
  <2>6. QED
    BY <1>1, <1>2, <2>2, <2>4, <2>5
<1>7. \A x \in Blocks(g) : g.free[x] <=> x \notin DOMAIN new
  BY <1>2, <1>4
<1>8. \A x \in DOMAIN new : new[x] \in Nat /\ new[x] >= 1 /\ new[x] <= g.size[x]
  BY <1>5 DEF Owned, OwnedBut
<1>9. QED
  BY <1>2, <1>5, <1>6, <1>7, <1>8 DEF Owned, OwnedBut, g

----------------------------------------------------------------------------
(* The inductive invariant.                                                *)

\* The heap is its callers', and krealloc holds a block back only while
\* kmalloc looks for another.
HeapIInv ==
  /\ Owned(heap, asked)
  /\ want \in Requests \cup {0}
  /\ moving \in Held \cup {Null}
  /\ want = 0 => moving = Null

LEMMA HeapInit == Init => HeapIInv
<1> SUFFICES ASSUME Init PROVE HeapIInv
  OBVIOUS
<1> USE HeapAssumption
<1>1. /\ Blocks(heap) = {0} /\ heap.size[0] = Expand - Header /\ heap.free[0]
      /\ heap.prev[0] = Null /\ heap.next[0] = Null /\ heap.last = 0
      /\ heap.end = Expand /\ heap.used = 0 /\ heap.count = 1
      /\ Shaped(heap) /\ DOMAIN asked = {}
  BY DEF Init, Blocks, Shaped
<1>2. Tiled(heap)
  BY <1>1 DEF Tiled, End, MinData
<1>3. Sound(heap)
  BY <1>1, <1>2, FS_Singleton DEF Sound
<1>4. heap.used = SumOf(heap.size, DOMAIN asked)
  BY <1>1, SumEmpty
<1>5. Owned(heap, asked)
  BY <1>1, <1>3, <1>4 DEF Owned, OwnedBut
<1>6. QED
  BY <1>5 DEF Init, HeapIInv

\* The block kmalloc takes.
LEMMA FirstFits ==
  ASSUME HeapIInv, want # 0, NEW b \in FirstFit(heap, want)
  PROVE  /\ b \in Blocks(heap) /\ heap.free[b] /\ want <= heap.size[b]
         /\ want \in Nat /\ want >= 1 /\ b \notin Held
<1>1. b \in Blocks(heap) /\ heap.free[b] /\ heap.size[b] >= want
  BY DEF FirstFit
<1>2. want \in Nat /\ want >= 1
  BY HeapAssumption DEF HeapIInv
<1>3. b # Null /\ heap.size[b] \in Nat
  BY <1>1, OwnedBlocks DEF HeapIInv, Owned
<1>4. b \notin Held
  BY <1>1, <1>3 DEF HeapIInv, Owned, OwnedBut, Held
<1>5. QED
  BY <1>1, <1>2, <1>3, <1>4

\* kmalloc takes a block, and krealloc frees the old one.
LEMMA TakeOwned ==
  ASSUME HeapIInv, Take
  PROVE  HeapIInv'
<1>1. PICK b \in FirstFit(heap, want) :
        LET h == Use(heap, b, want)
        IN /\ heap'  = IF moving = Null THEN h ELSE Release(h, moving)
           /\ asked' = [x \in (Held \ {moving}) \cup {b} |->
                         IF x = b THEN want ELSE asked[x]]
  BY DEF Take
<1> DEFINE h    == Use(heap, b, want)
           both == [x \in Held \cup {b} |-> IF x = b THEN want ELSE asked[x]]
<1>2. /\ b \in Blocks(heap) /\ heap.free[b] /\ want <= heap.size[b]
      /\ want \in Nat /\ want >= 1 /\ b \notin Held
  BY FirstFits DEF Take
<1>3. OwnedBut(heap, asked, b) /\ Null \notin Held
  BY OwnedBlocks DEF HeapIInv, Owned, OwnedBut, Held
<1>4. Owned(h, both)
  <2> DEFINE g == both
  <2>1. DOMAIN g = DOMAIN asked \cup {b}
    BY DEF Held
  <2>2. \A x \in DOMAIN g : g[x] = IF x = b THEN want ELSE asked[x]
    OBVIOUS
  <2>0. b \notin DOMAIN asked
    BY <1>2 DEF Held
  <2>3. Added(g, asked, b, want)
    BY <2>0, <2>1, <2>2 DEF Added
  <2>4. Fits(heap, b, want)
    BY <1>2 DEF Fits
  <2> HIDE DEF g
  <2>5. Owned(Use(heap, b, want), g)
    BY <1>3, <2>3, <2>4, UseOwned
  <2>6. QED
    BY <2>5 DEF g
<1>5. Owned(heap', asked')
  <2>1. CASE moving = Null
    <3>1. Held \ {moving} = Held
      BY <1>3, <2>1
    <3>2. heap' = h /\ asked' = both
      BY <1>1, <2>1, <3>1
    <3>3. QED
      BY <1>4, <3>2
  <2>2. CASE moving # Null
    <3>1. moving \in Held /\ moving # b
      BY <1>2, <2>2 DEF HeapIInv
    <3>2. heap' = Release(h, moving)
      BY <1>1, <2>2
    <3>3. /\ DOMAIN asked' = DOMAIN both \ {moving}
          /\ \A x \in DOMAIN asked' : asked'[x] = both[x]
          /\ moving \in DOMAIN both
      BY <1>1, <1>2, <3>1
    <3> HIDE DEF h, both
    <3>4. QED
      BY <1>4, <3>2, <3>3, ReleaseOwned
  <2>3. QED
    BY <2>1, <2>2
<1>6. want' = 0 /\ moving' = Null
  BY DEF Take, Returned
<1>7. QED
  BY <1>5, <1>6 DEF HeapIInv

\* krealloc in place counts the block's bytes out and in again.
LEMMA ReallocOwned ==
  ASSUME HeapIInv, NEW p \in Held, NEW n \in Requests, ReallocInPlace(p, n)
  PROVE  HeapIInv'
<1> DEFINE h    == [heap EXCEPT !.used = @ - heap.size[p]]
           rest == [x \in Held \ {p} |-> asked[x]]
<1>1. /\ want = 0 /\ heap.size[p] >= n /\ heap' = Use(h, p, n)
      /\ asked' = [asked EXCEPT ![p] = n] /\ want' = want /\ moving' = moving
  BY DEF ReallocInPlace
<1>2. n \in Nat /\ n >= 1
  BY HeapAssumption
<1>3. /\ Sound(heap) /\ Held \subseteq Blocks(heap) /\ p \in Blocks(heap)
      /\ \A b \in Blocks(heap) : heap.free[b] <=> b \notin Held
      /\ heap.used = SumOf(heap.size, Held)
      /\ IsFiniteSet(Held) /\ \A b \in Blocks(heap) : heap.size[b] \in Nat
  BY OwnedBlocks DEF HeapIInv, Owned, OwnedBut, Held
<1>4. DOMAIN heap = {"size", "free", "prev", "next", "last", "end", "used", "count"}
  BY <1>3 DEF Sound, Shaped
<1>5. /\ DOMAIN h = DOMAIN heap /\ h.used = heap.used - heap.size[p]
      /\ h.size = heap.size /\ h.free = heap.free /\ h.prev = heap.prev
      /\ h.next = heap.next /\ h.last = heap.last /\ h.end = heap.end
      /\ h.count = heap.count
  BY <1>4
<1> HIDE DEF h
<1>6. Blocks(h) = Blocks(heap) /\ Sound(h)
  BY <1>3, <1>5 DEF Blocks, Sound, Shaped, Tiled, End
<1>7. h.used = SumOf(h.size, Held \ {p})
  <2>1. SumOf(heap.size, Held) = heap.size[p] + SumOf(heap.size, Held \ {p})
    BY <1>3, SumRemove
  <2>2. IsFiniteSet(Held \ {p})
    BY <1>3, FS_RemoveElement
  <2>3. SumOf(heap.size, Held \ {p}) \in Int
    BY <1>3, <2>2, SumInt
  <2>4. QED
    BY <1>3, <1>5, <2>1, <2>3
<1>8. DOMAIN rest = Held \ {p} /\ \A x \in DOMAIN rest : rest[x] = asked[x]
  OBVIOUS
<1> HIDE DEF rest
<1>9. OwnedBut(h, rest, p)
  <2>1. \A x \in DOMAIN rest :
          rest[x] \in Nat /\ rest[x] >= 1 /\ rest[x] <= h.size[x]
    BY <1>5, <1>8 DEF HeapIInv, Owned, OwnedBut, Held
  <2>2. DOMAIN rest \subseteq Blocks(h)
    BY <1>3, <1>6, <1>8
  <2>3. \A b \in Blocks(h) \ {p} : h.free[b] <=> b \notin DOMAIN rest
    BY <1>3, <1>5, <1>6, <1>8
  <2>4. QED
    BY <1>6, <1>7, <1>8, <2>1, <2>2, <2>3 DEF OwnedBut
<1>10. /\ DOMAIN asked' = DOMAIN rest \cup {p}
       /\ \A x \in DOMAIN asked' : asked'[x] = IF x = p THEN n ELSE rest[x]
  BY <1>1, <1>8 DEF Held
<1>11. Owned(heap', asked')
  <2>1. Added(asked', rest, p, n)
    BY <1>8, <1>10 DEF Added
  <2>2. Fits(h, p, n)
    BY <1>1, <1>2, <1>3, <1>5, <1>6 DEF Fits
  <2>3. Owned(Use(h, p, n), asked')
    BY <1>9, <2>1, <2>2, UseOwned
  <2>4. QED
    BY <1>1, <2>3
<1>12. QED
  BY <1>1, <1>10, <1>11 DEF HeapIInv

LEMMA HeapStep == HeapIInv /\ [Next]_vars => HeapIInv'
<1> SUFFICES ASSUME HeapIInv, [Next]_vars PROVE HeapIInv'
  OBVIOUS
<1>1. CASE UNCHANGED vars
  BY <1>1 DEF vars, HeapIInv, Held
<1>2. ASSUME NEW n \in Requests, Malloc(n) PROVE HeapIInv'
  BY <1>2, HeapAssumption DEF Malloc, HeapIInv, Held
<1>3. ASSUME NEW p \in Held, NEW n \in Requests, ReallocInPlace(p, n) PROVE HeapIInv'
  BY <1>3, ReallocOwned
<1>4. ASSUME NEW p \in Held, NEW n \in Requests, ReallocMove(p, n) PROVE HeapIInv'
  BY <1>4, HeapAssumption DEF ReallocMove, HeapIInv, Held
<1>5. CASE Take
  BY <1>5, TakeOwned
<1>6. CASE Grow
  BY <1>6, ExpandOwned DEF Grow, HeapIInv, Held
<1>7. CASE Fail
  BY <1>7 DEF Fail, Returned, HeapIInv, Held
<1>8. ASSUME NEW p \in Held, Free(p) PROVE HeapIInv'
  <2>1. /\ heap' = Release(heap, p) /\ want' = 0 /\ moving' = Null
        /\ DOMAIN asked' = DOMAIN asked \ {p}
        /\ \A x \in DOMAIN asked' : asked'[x] = asked[x]
    BY <1>8 DEF Free, Held, HeapIInv
  <2>2. Owned(heap', asked')
    BY <2>1, ReleaseOwned DEF HeapIInv, Held
  <2>3. QED
    BY <2>1, <2>2 DEF HeapIInv
<1>9. QED
  BY <1>1, <1>2, <1>3, <1>4, <1>5, <1>6, <1>7, <1>8 DEF Next

\* Whatever is called, the heap stays in order and its callers' own.
THEOREM HeapInvCorrect == Spec => []HeapIInv
BY HeapInit, HeapStep, PTL DEF Spec

\* The list tiles the heap, the blocks in use are the callers', and the
\* counters agree, after any sequence of kmalloc, kfree and krealloc.
THEOREM HeapOKHolds == Spec => []HeapOK
<1>1. HeapIInv => HeapOK
  <2> SUFFICES ASSUME HeapIInv PROVE HeapOK
    OBVIOUS
  <2>1. TypeOK
    BY DEF HeapIInv, TypeOK, Owned, OwnedBut, Sound, Shaped
  <2>2. HeldBlocks
    BY OwnedBlocks DEF HeapIInv, HeldBlocks, Held, Owned, OwnedBut
  <2>3. heap.used = SumOf(heap.size, Held)
    BY DEF HeapIInv, Held, Owned, OwnedBut
  <2>4. heap.used = MapThenSumSet(LAMBDA b : heap.size[b], Held)
    BY <2>3, Zenon DEF SumOf
  <2>5. heap.count = Cardinality(Blocks(heap)) /\ Tiled(heap)
    BY DEF HeapIInv, Owned, OwnedBut, Sound
  <2>6. Counted
    BY <2>4, <2>5, Zenon DEF Counted
  <2>7. QED
    BY <2>1, <2>2, <2>5, <2>6 DEF HeapOK
<1>2. QED
  BY <1>1, HeapInvCorrect, PTL

----------------------------------------------------------------------------
(* The heap implements the allocator.                                      *)

\* The regions the callers hold, as Alloc.tla sees them.
InUse == [s \in {p + Header : p \in Held} |-> asked[s - Header]]

LEMMA InUseOf ==
  ASSUME HeapIInv
  PROVE  /\ Held \subseteq Nat
         /\ \A p \in Nat : p + Header \in DOMAIN InUse <=> p \in Held
         /\ \A s \in DOMAIN InUse : /\ s \in Nat /\ s - Header \in Held
                                    /\ InUse[s] = asked[s - Header]
<1>1. Held \subseteq Nat
  BY OwnedBlocks DEF HeapIInv, Owned, OwnedBut, Held
<1>2. QED
  BY <1>1, HeapAssumption DEF InUse

\* Room that a block has: it lies inside the heap and apart from the regions
\* of the other blocks.
LEMMA RoomOfBlock ==
  ASSUME HeapIInv, NEW b \in Blocks(heap), NEW n \in Nat, n >= 1, n <= heap.size[b]
  PROVE  /\ b + Header \in 0 .. MaxHeap /\ n \in 1 .. MaxHeap
         /\ Regions!Fits(b + Header, n, b + Header)
<1> USE HeapAssumption
<1>1. /\ Tiled(heap) /\ Held \subseteq Blocks(heap)
      /\ \A p \in Held : asked[p] \in Nat /\ asked[p] <= heap.size[p]
  BY DEF HeapIInv, Owned, OwnedBut, Sound, Held
<1>2. /\ b \in Nat /\ heap.size[b] \in Nat
      /\ b + Header + heap.size[b] <= heap.end /\ heap.end <= MaxHeap /\ heap.end \in Nat
  BY <1>1 DEF Tiled, End
<1>3. ASSUME NEW s \in DOMAIN InUse \ {b + Header}
      PROVE  b + Header + n <= s \/ s + InUse[s] <= b + Header
  <2> DEFINE p == s - Header
  <2>1. p \in Held /\ p \in Blocks(heap) /\ s = p + Header /\ InUse[s] = asked[p]
    BY <1>1, InUseOf
  <2>2. /\ p # b /\ p \in Nat /\ heap.size[p] \in Nat
        /\ asked[p] \in Nat /\ asked[p] <= heap.size[p]
    BY <1>1, <2>1 DEF Tiled
  <2> HIDE DEF p
  <2>3. CASE b < p
    <3>1. b + Header + heap.size[b] <= p
      BY <1>1, <2>1, <2>3 DEF Tiled, End
    <3>2. QED
      BY <1>2, <2>1, <2>2, <3>1
  <2>4. CASE p < b
    <3>1. p + Header + heap.size[p] <= b
      BY <1>1, <2>1, <2>4 DEF Tiled, End
    <3>2. QED
      BY <1>2, <2>1, <2>2, <3>1
  <2>5. QED
    BY <1>2, <2>2, <2>3, <2>4
<1>4. QED
  BY <1>2, <1>3 DEF Regions!Fits, Regions!Starts, InUse

\* kmalloc gives a region out; with krealloc it gives one for another.
LEMMA TakeRefines == ASSUME HeapIInv, Take PROVE Regions!Next
<1> USE HeapAssumption
<1>0. PICK n, old : n = want /\ old = moving
  OBVIOUS
<1>1. PICK b \in FirstFit(heap, want) :
        asked' = [x \in (Held \ {moving}) \cup {b} |-> IF x = b THEN want ELSE asked[x]]
  BY DEF Take
<1>2. /\ b \in Blocks(heap) /\ want <= heap.size[b]
      /\ want \in Nat /\ want >= 1 /\ b \notin Held
  BY FirstFits DEF Take
<1>3. b \in Nat
  BY <1>2, OwnedBlocks DEF HeapIInv, Owned
<1>4. /\ b + Header \in 0 .. MaxHeap /\ n \in 1 .. MaxHeap
      /\ Regions!Fits(b + Header, n, b + Header)
  BY <1>0, <1>2, RoomOfBlock
<1>5. b + Header \notin DOMAIN InUse
  BY <1>2, <1>3, InUseOf
<1>6. InUse' = [s \in {p + Header : p \in Held'} |-> asked'[s - Header]]
  BY DEF InUse
<1>7. Held' = (Held \ {moving}) \cup {b}
  BY <1>1 DEF Held
<1>8. CASE moving = Null
  <2>1. Held' = Held \cup {b}
    BY <1>7, <1>8, InUseOf DEF Null
  <2>2. DOMAIN InUse' = DOMAIN InUse \cup {b + Header}
    BY <1>6, <2>1 DEF InUse
  <2>3. ASSUME NEW s \in DOMAIN InUse'
        PROVE  InUse'[s] = IF s = b + Header THEN n ELSE InUse[s]
    <3>1. CASE s = b + Header
      BY <1>0, <1>1, <1>3, <1>6, <1>7, <2>2, <3>1
    <3>2. CASE s # b + Header
      <4>1. s \in DOMAIN InUse /\ s - Header \in Held /\ s - Header # b
        BY <1>2, <2>2, <3>2, InUseOf
      <4>2. s - Header # moving
        BY <1>8, <4>1, InUseOf DEF Null
      <4>3. QED
        BY <1>1, <1>6, <1>7, <2>2, <3>2, <4>1, <4>2, InUseOf
    <3>3. QED
      BY <3>1, <3>2
  <2>4. InUse' = [s \in DOMAIN InUse \cup {b + Header} |->
                    IF s = b + Header THEN n ELSE InUse[s]]
    BY <1>6, <2>2, <2>3
  <2>5. Regions!Give(b + Header, n)
    BY <1>4, <1>5, <2>4 DEF Regions!Give, Regions!With, Regions!Starts, InUse
  <2>6. QED
    BY <1>4, <2>5 DEF Regions!Next
<1>9. CASE moving # Null
  <2>1. old \in Held /\ old # b /\ old \in Nat /\ old = moving
    BY <1>0, <1>2, <1>9, InUseOf DEF HeapIInv
  <2> DEFINE a == old + Header
  <2>2. a \in DOMAIN InUse
    BY <2>1, InUseOf
  <2>3. a \in 0 .. MaxHeap
    <3>1. /\ old \in Blocks(heap) /\ asked[old] \in Nat /\ asked[old] >= 1
          /\ asked[old] <= heap.size[old]
      BY <2>1 DEF HeapIInv, Owned, OwnedBut, Held
    <3>2. QED
      BY <3>1, RoomOfBlock
  <2>4. DOMAIN InUse' = (DOMAIN InUse \ {a}) \cup {b + Header}
    <3>1. ASSUME NEW s \in DOMAIN InUse' PROVE s \in (DOMAIN InUse \ {a}) \cup {b + Header}
      <4>1. PICK p \in Held' : s = p + Header
        BY <1>6, <3>1
      <4>2. p = b \/ (p \in Held /\ p \in Nat /\ p # old)
        BY <1>7, <2>1, <4>1, InUseOf
      <4>3. QED
        BY <2>1, <4>1, <4>2, InUseOf
    <3>2. ASSUME NEW s \in (DOMAIN InUse \ {a}) \cup {b + Header} PROVE s \in DOMAIN InUse'
      <4>1. CASE s = b + Header
        BY <1>6, <1>7, <4>1
      <4>2. CASE s # b + Header
        <5>1. s \in Nat /\ s - Header \in Held /\ s - Header # old
          BY <2>1, <3>2, <4>2, InUseOf
        <5>2. s - Header \in Held' /\ s = (s - Header) + Header
          BY <1>7, <2>1, <5>1
        <5>3. QED
          BY <1>6, <5>2
      <4>3. QED
        BY <4>1, <4>2
    <3>3. QED
      BY <3>1, <3>2
  <2>5. ASSUME NEW s \in DOMAIN InUse'
        PROVE  InUse'[s] = IF s = b + Header THEN n ELSE InUse[s]
    <3>1. CASE s = b + Header
      BY <1>0, <1>1, <1>3, <1>6, <1>7, <2>4, <3>1
    <3>2. CASE s # b + Header
      <4>1. s \in DOMAIN InUse /\ s - Header \in Held /\ s - Header # old
        BY <2>1, <2>4, <3>2, InUseOf
      <4>2. s - Header # b
        BY <1>2, <4>1
      <4>3. InUse'[s] = asked'[s - Header] /\ asked'[s - Header] = asked[s - Header]
        BY <1>1, <1>6, <2>1, <2>5, <4>1, <4>2
      <4>4. QED
        BY <3>2, <4>1, <4>3, InUseOf
    <3>3. QED
      BY <3>1, <3>2
  <2>6. InUse' = [s \in (DOMAIN InUse \ {a}) \cup {b + Header} |->
                    IF s = b + Header THEN n ELSE InUse[s]]
    BY <1>6, <2>4, <2>5
  <2> HIDE DEF a
  <2>7. Regions!Move(a, b + Header, n)
    BY <1>4, <1>5, <2>2, <2>6 DEF Regions!Move, Regions!Starts, InUse
  <2>8. QED
    BY <1>4, <2>3, <2>7 DEF Regions!Next
<1>10. QED
  BY <1>8, <1>9

\* krealloc in place gives the region another length.
LEMMA ReallocRefines ==
  ASSUME HeapIInv, NEW p \in Held, NEW n \in Requests, ReallocInPlace(p, n)
  PROVE  Regions!Next
<1> USE HeapAssumption
<1>1. asked' = [asked EXCEPT ![p] = n] /\ heap.size[p] >= n /\ n \in Nat /\ n >= 1
  BY DEF ReallocInPlace
<1>2. p \in Blocks(heap) /\ p \in Nat /\ heap.size[p] \in Nat
  BY OwnedBlocks DEF HeapIInv, Owned, OwnedBut, Held
<1>3. /\ p + Header \in 0 .. MaxHeap /\ n \in 1 .. MaxHeap
      /\ Regions!Fits(p + Header, n, p + Header)
  BY <1>1, <1>2, RoomOfBlock
<1>4. p + Header \in DOMAIN InUse
  BY <1>2, InUseOf
<1>5. InUse' = [s \in {q + Header : q \in Held'} |-> asked'[s - Header]] /\ Held' = Held
  BY <1>1 DEF InUse, Held
<1>6. DOMAIN InUse' = DOMAIN InUse \cup {p + Header}
  BY <1>4, <1>5 DEF InUse
<1>7. ASSUME NEW s \in DOMAIN InUse'
      PROVE  InUse'[s] = IF s = p + Header THEN n ELSE InUse[s]
  <2>1. s \in DOMAIN InUse /\ s - Header \in Held /\ s \in Nat /\ s - Header \in Nat
    BY <1>4, <1>6, InUseOf
  <2>2. InUse'[s] = asked'[s - Header] /\ InUse[s] = asked[s - Header]
    BY <1>5, <1>7, <2>1, InUseOf
  <2>3. asked'[s - Header] = IF s - Header = p THEN n ELSE asked[s - Header]
    BY <1>1, <2>1 DEF Held
  <2>4. QED
    BY <1>2, <2>1, <2>2, <2>3
<1>8. InUse' = [s \in DOMAIN InUse \cup {p + Header} |->
                  IF s = p + Header THEN n ELSE InUse[s]]
  BY <1>5, <1>6, <1>7
<1>9. Regions!Resize(p + Header, n)
  BY <1>3, <1>4, <1>8 DEF Regions!Resize, Regions!With, Regions!Starts, InUse
<1>10. QED
  BY <1>3, <1>9 DEF Regions!Next

\* kfree takes the region back.
LEMMA FreeRefines ==
  ASSUME HeapIInv, NEW p \in Held, Free(p)
  PROVE  Regions!Next
<1> USE HeapAssumption
<1>1. asked' = [x \in Held \ {p} |-> asked[x]] /\ Held' = Held \ {p}
  BY DEF Free, Held
<1>2. /\ p \in Blocks(heap) /\ p \in Nat
      /\ asked[p] \in Nat /\ asked[p] >= 1 /\ asked[p] <= heap.size[p]
  BY OwnedBlocks DEF HeapIInv, Owned, OwnedBut, Held
<1>3. p + Header \in 0 .. MaxHeap /\ asked[p] \in 1 .. MaxHeap
  BY <1>2, RoomOfBlock
<1>4. p + Header \in DOMAIN InUse
  BY <1>2, InUseOf
<1>5. InUse' = [s \in {q + Header : q \in Held'} |-> asked'[s - Header]]
  BY DEF InUse
<1>6. \A s : s \in DOMAIN InUse' <=> s \in DOMAIN InUse \ {p + Header}
  <2> SUFFICES ASSUME NEW s
               PROVE  s \in DOMAIN InUse' <=> s \in DOMAIN InUse \ {p + Header}
    OBVIOUS
  <2>1. s \in DOMAIN InUse' => \E q \in Held \ {p} : s = q + Header /\ q \in Nat
    BY <1>1, <1>5, InUseOf
  <2>2. (\E q \in Held \ {p} : s = q + Header) => s \in DOMAIN InUse'
    BY <1>1, <1>5
  <2>3. s \in DOMAIN InUse => s \in Nat /\ s - Header \in Held /\ s = (s - Header) + Header
    BY InUseOf
  <2>4. QED
    BY <1>2, <2>1, <2>2, <2>3, InUseOf
<1>7. ASSUME NEW s \in DOMAIN InUse' PROVE InUse'[s] = InUse[s]
  <2>1. s \in DOMAIN InUse /\ s # p + Header /\ s \in Nat /\ s - Header \in Held
    BY <1>6, <1>7, InUseOf
  <2>2. s - Header # p
    BY <1>2, <2>1
  <2>3. QED
    BY <1>1, <1>5, <1>7, <2>1, <2>2, InUseOf
<1>8. InUse' = [s \in DOMAIN InUse \ {p + Header} |-> InUse[s]]
  BY <1>5, <1>6, <1>7
<1>9. Regions!TakeBack(p + Header)
  BY <1>4, <1>8 DEF Regions!TakeBack, Regions!Without, Regions!Starts, InUse
<1>10. QED
  BY <1>3, <1>9 DEF Regions!Next

\* Every step of the heap gives, takes back, resizes or moves one region, or
\* changes none.
LEMMA AllocStep == HeapIInv /\ [Next]_vars => [Regions!Next]_InUse
<1> SUFFICES ASSUME HeapIInv, Next, ~UNCHANGED InUse PROVE Regions!Next
  BY DEF vars, InUse, Held
<1>1. CASE UNCHANGED asked
  BY <1>1 DEF InUse, Held
<1>2. CASE Take
  BY <1>2, TakeRefines
<1>3. ASSUME NEW p \in Held, NEW n \in Requests, ReallocInPlace(p, n)
      PROVE  Regions!Next
  BY <1>3, ReallocRefines
<1>4. ASSUME NEW p \in Held, Free(p) PROVE Regions!Next
  BY <1>4, FreeRefines
<1>5. QED
  BY <1>1, <1>2, <1>3, <1>4 DEF Next, Malloc, ReallocMove, Grow, Fail

LEMMA AllocInit == Init => Regions!Init
<1> SUFFICES ASSUME Init PROVE InUse = [s \in {} |-> 0]
  BY DEF Regions!Init, InUse
<1>1. Held = {}
  BY DEF Init, Held
<1>2. QED
  BY <1>1 DEF InUse

\* heap.cpp implements an allocator: regions inside the heap, as long as was
\* asked for, never overlapping and never moving while in use.
THEOREM RefinesAllocHolds == Spec => RefinesAlloc
<1>1. HeapIInv /\ [Next]_vars =>
        [Regions!Next]_[s \in {p + Header : p \in Held} |-> asked[s - Header]]
  BY AllocStep DEF InUse
<1>2. QED
  BY <1>1, AllocInit, HeapInvCorrect, PTL DEF Spec, RefinesAlloc, Regions!Spec
=============================================================================
