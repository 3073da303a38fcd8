------------------------- MODULE Processes_proofs --------------------------
(***************************************************************************)
(* Proofs about Processes.tla, for any number of frames and of entries in  *)
(* a table, any images of user programs and any number of processes: every *)
(* frame has one owner, none is lost while every page was mapped, the free *)
(* frames are counted, the kernel's half and every process's own part stay *)
(* as they are, and a process that runs has all of its pages.              *)
(*                                                                         *)
(* First come lemmas about pmm.cpp and vmm.cpp (Pmm.tla and Vmm.tla): what *)
(* each function that takes, maps, unmaps or frees a page makes of the     *)
(* frames and of the tables.                                               *)
(***************************************************************************)
EXTENDS Ownership, TLAPS, WellFoundedInduction, FiniteSetTheorems

----------------------------------------------------------------------------
(* Induction over the naturals, for a set of values, not a predicate.      *)

NatLess == OpToRel(<, Nat)

\* A set of naturals has a least element.
LEMMA LeastNatural ==
  ASSUME NEW T, T \subseteq Nat, T # {}
  PROVE  \E x \in T : \A y \in T : x <= y
<1>1. IsWellFoundedOn(NatLess, Nat)
  BY NatLessThanWellFounded DEF NatLess
<1>2. PICK x \in T : \A y \in T : ~(<<y, x>> \in NatLess)
  BY <1>1, WFMin
<1>3. \A m, n \in Nat : <<n, m>> \in NatLess <=> n < m
  BY DEF NatLess, OpToRel
<1>4. ASSUME NEW y \in T PROVE x <= y
  <2>1. ~(<<y, x>> \in NatLess)
    BY <1>2
  <2>2. ~(y < x)
    BY <1>3, <2>1
  <2>3. QED
    BY <2>2
<1>5. QED
  BY <1>4

\* A set that has 0 and the successor of each of its elements is Nat.
LEMMA NatInd ==
  ASSUME NEW P, 0 \in P, \A n \in Nat : n \in P => n + 1 \in P
  PROVE  Nat \subseteq P
<1> SUFFICES ASSUME Nat \ P # {} PROVE FALSE
  OBVIOUS
<1>1. PICK x \in Nat \ P : \A y \in Nat \ P : x <= y
  BY LeastNatural
<1>2. x # 0 /\ x - 1 \in Nat /\ (x - 1) + 1 = x
  BY <1>1
<1>3. x - 1 \in P
  BY <1>1, <1>2
<1>4. QED
  BY <1>1, <1>2, <1>3

\* A finite stretch of the naturals has a greatest element.
LEMMA GreatestNatural ==
  ASSUME NEW b \in Nat, NEW T, T \subseteq 0..b, T # {}
  PROVE  \E x \in T : \A y \in T : x >= y
<1> DEFINE U == {n \in Nat : \E x \in T : n = b - x}
<1>0. \A x \in T : x \in Int /\ b - x \in Nat
  OBVIOUS
<1>1. U \subseteq Nat /\ U # {} /\ \A x \in T : b - x \in U
  BY <1>0
<1>2. PICK u \in U : \A y \in U : u <= y
  BY <1>1, LeastNatural
<1>3. PICK x \in T : u = b - x
  OBVIOUS
<1>4. ASSUME NEW y \in T PROVE x >= y
  <2>1. u <= b - y
    BY <1>1, <1>2
  <2>2. QED
    BY <1>0, <1>3, <2>1
<1>5. QED
  BY <1>4
LEMMA MaxFound ==
  ASSUME NEW b \in Nat, NEW T, T \subseteq 0..b, T # {}
  PROVE  Max(T) \in T /\ \A y \in T : Max(T) >= y
BY GreatestNatural DEF Max

LEMMA MinFound ==
  ASSUME NEW T, T \subseteq Nat, T # {}
  PROVE  Min(T) \in T /\ \A y \in T : Min(T) <= y
BY LeastNatural DEF Min

LEMMA MaxOfIndices ==
  ASSUME NEW n \in Nat, NEW s \in SUBSET (1..n), s # {}
  PROVE  Max(s) \in s
<1>1. s \subseteq 0..n
  OBVIOUS
<1>2. QED
  BY <1>1, MaxFound

----------------------------------------------------------------------------
(* Pages and their digits.                                                 *)

LEMMA WBound == W \in Nat /\ W >= 8 /\ W > 0 /\ W - 1 \in Idx /\ 0 \in Idx
BY VmmAssumption DEF Idx

LEMMA MulMono ==
  ASSUME NEW a \in Nat, NEW b \in Nat, a < b
  PROVE  a * W + W <= b * W
<1> DEFINE d == b - a - 1
<1>1. d \in Nat /\ b = a + 1 + d
  OBVIOUS
<1> HIDE DEF d
<1>2. d * W \in Nat
  BY <1>1, WBound
<1>3. b * W = a * W + W + d * W
  BY <1>1, WBound
<1>4. a * W \in Nat
  BY WBound
<1>5. QED
  BY <1>2, <1>3, <1>4, WBound

LEMMA SubNat == ASSUME NEW a \in Nat, NEW i \in Idx PROVE Sub(a, i) \in Nat
BY WBound DEF Sub, Idx

LEMMA SubInj ==
  ASSUME NEW a \in Nat, NEW b \in Nat, NEW i \in Idx, NEW j \in Idx, Sub(a, i) = Sub(b, j)
  PROVE  a = b /\ i = j
<1>1. a * W \in Nat /\ b * W \in Nat /\ i \in 0 .. W - 1 /\ j \in 0 .. W - 1
  BY WBound DEF Idx
<1>2. ~(a < b)
  BY <1>1, MulMono, WBound DEF Sub
<1>3. ~(b < a)
  BY <1>1, MulMono, WBound DEF Sub
<1>4. a = b
  BY <1>2, <1>3
<1>5. QED
  BY <1>1, <1>4 DEF Sub

LEMMA DivEquation ==
  ASSUME NEW v \in Int, NEW d \in Int, d > 0
  PROVE  v = (v \div d) * d + (v % d)
OBVIOUS

LEMMA DivMod ==
  ASSUME NEW v \in Nat, NEW d \in Nat, d > 0
  PROVE  \E q \in Nat, r \in 0 .. d - 1 : q = v \div d /\ r = v % d /\ v = d * q + r
<1>1. v \div d \in Nat /\ v % d \in 0 .. d - 1
  OBVIOUS
<1>2. v = (v \div d) * d + (v % d)
  BY DivEquation
<1>3. PICK q \in Nat, r \in 0 .. d - 1 : q = v \div d /\ r = v % d
  BY <1>1
<1>4. v = q * d + r
  BY <1>2, <1>3
<1>5. q * d + r = d * q + r
  OBVIOUS
<1>6. QED
  BY <1>3, <1>4, <1>5

LEMMA DivUnique ==
  ASSUME NEW v \in Nat, NEW d \in Nat, d > 0, NEW q \in Nat, NEW r \in 0 .. d - 1,
         v = d * q + r
  PROVE  v \div d = q
<1>1. PICK p \in Nat, s \in 0 .. d - 1 : p = v \div d /\ v = d * p + s
  BY DivMod
<1>2. ~(p < q)
  <2> SUFFICES ASSUME p < q PROVE FALSE
    OBVIOUS
  <2> DEFINE e == q - p - 1
  <2>1. e \in Nat /\ q = p + 1 + e
    BY <1>1
  <2> HIDE DEF e
  <2>2. d * q = d * p + d + d * e /\ d * e \in Nat /\ d * p \in Nat
    BY <1>1, <2>1
  <2>3. QED
    BY <1>1, <2>2
<1>3. ~(q < p)
  <2> SUFFICES ASSUME q < p PROVE FALSE
    OBVIOUS
  <2> DEFINE e == p - q - 1
  <2>1. e \in Nat /\ p = q + 1 + e
    BY <1>1
  <2> HIDE DEF e
  <2>2. d * p = d * q + d + d * e /\ d * e \in Nat /\ d * q \in Nat
    BY <1>1, <2>1
  <2>3. QED
    BY <1>1, <2>2
<1>4. p = q
  BY <1>2, <1>3
<1>5. QED
  BY <1>1, <1>4

LEMMA DivDiv ==
  ASSUME NEW v \in Nat, NEW a \in Nat, a > 0, NEW b \in Nat, b > 0
  PROVE  v \div (a * b) = (v \div b) \div a
<1>1. PICK x \in Nat, r \in 0 .. b - 1 : x = v \div b /\ v = b * x + r
  BY DivMod
<1>2. PICK y \in Nat, s \in 0 .. a - 1 : y = x \div a /\ x = a * y + s
  BY DivMod
<1>3. v = (a * b) * y + (b * s + r)
  BY <1>1, <1>2
<1>4. b * s + r \in 0 .. a * b - 1
  <2> DEFINE e == a - 1 - s
  <2>1. e \in Nat /\ a = e + 1 + s
    BY <1>2
  <2> HIDE DEF e
  <2>2. a * b = b * e + b + b * s /\ b * e \in Nat /\ b * s \in Nat
    BY <1>2, <2>1
  <2>3. QED
    BY <1>1, <2>2
<1>5. a * b \in Nat /\ a * b > 0
  BY <1>4, <1>1, <1>2
<1>6. v \div (a * b) = y
  BY <1>3, <1>4, <1>5, <1>2, DivUnique
<1>7. QED
  BY <1>1, <1>2, <1>6

LEMMA PageNat ==
  ASSUME NEW i \in Nat, NEW j \in Nat, NEW k \in Nat, NEW l \in Nat
  PROVE  Page(i, j, k, l) \in Nat
<1>1. i * W + j \in Nat
  BY WBound
<1>2. (i * W + j) * W + k \in Nat
  BY <1>1, WBound
<1>3. QED
  BY <1>2, WBound DEF Page

LEMMA Pml4Order ==
  ASSUME NEW v \in Nat, NEW n \in Nat
  PROVE  /\ v < Page(n, 0, 0, 0) => Pml4Index(v) < n
         /\ Page(n, 0, 0, 0) <= v => n <= Pml4Index(v)
         /\ Pml4Index(v) \in Nat
<1> DEFINE d == W * W * W
<1>1. W * W \in Nat /\ W * W > 0
  BY WBound
<1>2. d \in Nat /\ d > 0
  BY <1>1, WBound
<1>3. Page(n, 0, 0, 0) = d * n
  BY WBound DEF Page
<1>4. Pml4Index(v) = v \div d
  BY DEF Pml4Index
<1> HIDE DEF d
<1>5. PICK q \in Nat, r \in 0 .. d - 1 : q = v \div d /\ v = d * q + r
  BY <1>2, DivMod
<1>6. ASSUME q < n PROVE v < d * n
  <2>1. PICK e \in Nat : n = q + 1 + e
    <3>1. n - q - 1 \in Nat /\ n = q + 1 + (n - q - 1)
      BY <1>6
    <3>2. QED
      BY <3>1
  <2>2. d * n = d * q + d + d * e /\ d * e \in Nat /\ d * q \in Nat
    BY <1>2, <2>1
  <2>3. QED
    BY <1>2, <1>5, <2>2
<1>7. ASSUME n <= q PROVE d * n <= v
  <2>1. PICK e \in Nat : q = n + e
    <3>1. q - n \in Nat /\ q = n + (q - n)
      BY <1>7
    <3>2. QED
      BY <3>1
  <2>2. d * q = d * n + d * e /\ d * e \in Nat /\ d * n \in Nat
    BY <1>2, <2>1
  <2>3. QED
    BY <1>2, <1>5, <2>2
<1>8. d * n \in Nat
  BY <1>2
<1>9. QED
  BY <1>3, <1>4, <1>5, <1>6, <1>7, <1>8

LEMMA PageStep ==
  ASSUME NEW n \in Nat
  PROVE  Page(n, 0, 0, 0) < Page(n, 1, 0, 0) /\ Page(n, 1, 0, 0) < Page(n + 1, 0, 0, 0)
<1>1. Page(n, 1, 0, 0) = Page(n, 0, 0, 0) + W * W
  BY WBound DEF Page
<1>2. Page(n + 1, 0, 0, 0) = Page(n, 0, 0, 0) + W * W * W
  BY WBound DEF Page
<1>3. W * W \in Nat /\ W * W > 0
  BY WBound
<1>4. W * W * W >= W * W + W * W
  <2> DEFINE s == W * W
  <2>1. W = 2 + (W - 2) /\ W - 2 \in Nat
    BY WBound
  <2>2. s * W = s * 2 + s * (W - 2) /\ s * (W - 2) \in Nat
    BY <1>3, <2>1
  <2> HIDE DEF s
  <2>3. s * W >= s + s
    BY <2>2, <1>3 DEF s
  <2>4. QED
    BY <2>3 DEF s
<1>5. Page(n, 0, 0, 0) \in Nat
  BY PageNat, WBound
<1> DEFINE s == W * W
           c == W * W * W
<1>6. s \in Nat /\ c \in Nat /\ s > 0 /\ c >= s + s
  BY <1>3, <1>4, WBound
<1> HIDE DEF s, c
<1>7. QED
  BY <1>1, <1>2, <1>5, <1>6 DEF s, c

LEMMA PageMono ==
  ASSUME NEW m \in Nat, NEW n \in Nat, m <= n
  PROVE  Page(m, 0, 0, 0) <= Page(n, 0, 0, 0)
<1> DEFINE d == W * W * W
<1>1. d \in Nat /\ \A k \in Nat : Page(k, 0, 0, 0) = d * k
  BY WBound DEF Page
<1> HIDE DEF d
<1>2. n - m \in Nat /\ n = m + (n - m)
  OBVIOUS
<1>3. d * n = d * m + d * (n - m) /\ d * (n - m) \in Nat /\ d * m \in Nat
  BY <1>1, <1>2
<1>4. QED
  BY <1>1, <1>3

LEMMA AtLeast ==
  ASSUME NEW a \in Nat, NEW b \in Nat, a <= b, NEW r \in Nat
  PROVE  W * a \in Nat /\ W * a <= W * b + r
<1>1. PICK e \in Nat : b = a + e
  <2>1. b - a \in Nat /\ b = a + (b - a)
    OBVIOUS
  <2>2. QED
    BY <2>1
<1>2. W * b = W * a + W * e /\ W * a \in Nat /\ W * e \in Nat
  BY <1>1, WBound
<1>3. QED
  BY <1>2

\* The indices of a page are entries of tables, and lead to the page.
LEMMA Digits ==
  ASSUME NEW v \in 0 .. Top - 1
  PROVE  /\ Pml4Index(v) \in Idx /\ PdptIndex(v) \in Idx
         /\ PdIndex(v) \in Idx /\ PtIndex(v) \in Idx
         /\ Sub(Sub(Sub(Sub(0, Pml4Index(v)), PdptIndex(v)), PdIndex(v)), PtIndex(v)) = v
<1>0. v \in Nat
  BY PageNat, WBound DEF Top
<1>1. PICK x \in Nat, l \in 0 .. W - 1 : x = v \div W /\ l = v % W /\ v = W * x + l
  BY <1>0, DivMod, WBound
<1>2. PICK y \in Nat, k \in 0 .. W - 1 : y = x \div W /\ k = x % W /\ x = W * y + k
  BY DivMod, WBound
<1>3. PICK z \in Nat, j \in 0 .. W - 1 : z = y \div W /\ j = y % W /\ y = W * z + j
  BY DivMod, WBound
<1>4. W * W \in Nat /\ W * W > 0
  BY WBound
<1>5. v \div (W * W) = y
  <2>1. v \div (W * W) = (v \div W) \div W
    BY <1>0, WBound, DivDiv
  <2>2. QED
    BY <2>1, <1>1, <1>2
<1>6. v \div (W * W * W) = z
  <2>1. v \div ((W * W) * W) = (v \div W) \div (W * W)
    BY <1>0, <1>4, WBound, DivDiv
  <2>2. x \div (W * W) = (x \div W) \div W
    BY WBound, DivDiv
  <2>3. QED
    BY <2>1, <2>2, <1>1, <1>2, <1>3
<1>7. z < W
  <2> SUFFICES ASSUME W <= z PROVE FALSE
    BY WBound
  <2>1. Top = W * (W * (W * W))
    BY WBound DEF Page, Top
  <2>2. W * W <= y
    BY <1>3, AtLeast, WBound
  <2>3. W * (W * W) \in Nat /\ W * (W * W) <= x
    BY <1>2, <1>4, <2>2, AtLeast, WBound
  <2>4. W * (W * (W * W)) <= v
    BY <1>1, <2>3, AtLeast, WBound
  <2>5. Top \in Nat
    BY PageNat, WBound DEF Top
  <2> HIDE DEF Top
  <2>6. Top <= v
    BY <2>1, <2>4
  <2>7. QED
    BY <2>5, <2>6
<1>8. /\ Pml4Index(v) = z /\ PdptIndex(v) = j
      /\ PdIndex(v) = k /\ PtIndex(v) = l
  BY <1>1, <1>2, <1>3, <1>5, <1>6 DEF Pml4Index, PdptIndex, PdIndex, PtIndex
<1>9. /\ Sub(0, z) = z /\ Sub(z, j) = y /\ Sub(y, k) = x /\ Sub(x, l) = v
  <2>1. \A a \in Nat, i \in 0 .. W - 1 : Sub(a, i) = W * a + i
    BY WBound DEF Sub
  <2>2. Sub(0, z) = z
    BY <1>7, WBound DEF Sub
  <2>3. QED
    BY <1>1, <1>2, <1>3, <2>1, <2>2
<1>10. z \in Idx /\ j \in Idx /\ k \in Idx /\ l \in Idx
  BY <1>7, WBound DEF Idx
<1>11. QED
  BY <1>8, <1>9, <1>10

LEMMA Bases ==
  /\ {CodeBase, DataBase, StackTop, IpcVirt, MmioBase, UserTop, HeapStart, TempWindow,
      Offscreen, AcpiWin, Top, Page(W - 2, 0, 0, 0)} \subseteq Nat
  /\ W \div 2 \in Nat /\ W \div 2 >= 4 /\ W \div 2 <= W - 4
  /\ W - 1 \in KernelHalf /\ W - 3 \in KernelHalf
  /\ \A i \in Idx : i \in UserHalf <=> ~(i \in KernelHalf)
<1>1. W \div 2 \in Nat /\ W \div 2 >= 4 /\ W \div 2 <= W - 4
  BY VmmAssumption
<1>2. {W - 1, W - 2, W - 3, 0, 1, 2, 4, W} \subseteq Nat
  BY WBound
<1>3. /\ CodeBase \in Nat /\ DataBase \in Nat /\ StackTop \in Nat /\ IpcVirt \in Nat
      /\ MmioBase \in Nat /\ UserTop \in Nat
  BY <1>1, <1>2, PageNat DEF CodeBase, DataBase, StackTop, IpcVirt, MmioBase, UserTop
<1>4. /\ HeapStart \in Nat /\ TempWindow \in Nat /\ Offscreen \in Nat /\ AcpiWin \in Nat
      /\ Top \in Nat /\ Page(W - 2, 0, 0, 0) \in Nat
  BY <1>2, PageNat DEF HeapStart, TempWindow, Offscreen, AcpiWin, Top
<1>5. /\ W - 1 \in KernelHalf /\ W - 3 \in KernelHalf
      /\ \A i \in Idx : i \in UserHalf <=> ~(i \in KernelHalf)
  BY <1>1, WBound DEF UserHalf, KernelHalf, Idx
<1>6. QED
  BY <1>1, <1>3, <1>4, <1>5

LEMMA UserPage ==
  ASSUME NEW v \in 0 .. UserTop - 1
  PROVE  v \in Pages /\ Pml4Index(v) \in UserHalf
<1>1. UserTop <= Top /\ UserTop \in Nat /\ Top \in Nat
  BY Bases, PageMono, WBound DEF UserTop, Top
<1>2. v \in Nat /\ v < Page(W \div 2, 0, 0, 0)
  BY <1>1 DEF UserTop
<1>3. Pml4Index(v) \in Nat /\ Pml4Index(v) < W \div 2
  BY <1>2, Pml4Order, Bases
<1>4. QED
  BY <1>1, <1>3, Bases DEF Pages, UserHalf

\* Where the pages of the kernel's half are that the code maps.
LEMMA KernelPage ==
  ASSUME NEW v \in Nat
  PROVE  /\ InHeapPart(v) => v \in Pages /\ Pml4Index(v) = W - 3
         /\ InHeap(v) => InHeapPart(v)
         /\ Offscreen <= v /\ v < Top => v \in Pages /\ Pml4Index(v) = W - 1
         /\ v \in {AcpiWin, AcpiWin + 1} => Offscreen <= v /\ v < Top
         /\ Offscreen <= v => ~InHeapPart(v)
         /\ v < UserTop => ~InHeapPart(v)
<1>1. /\ UserTop <= HeapStart /\ HeapStart < TempWindow
      /\ TempWindow < Page(W - 2, 0, 0, 0)
      /\ Page(W - 2, 0, 0, 0) <= Page(W - 1, 0, 0, 0) /\ Page(W - 1, 0, 0, 0) < Top
  <2>1. /\ W \div 2 \in Nat /\ W - 3 \in Nat /\ W - 2 \in Nat /\ W - 1 \in Nat
        /\ W \div 2 <= W - 3 /\ W - 2 = (W - 3) + 1 /\ W = (W - 1) + 1 /\ W - 2 <= W - 1
    BY Bases, WBound
  <2>2. UserTop <= HeapStart
    BY <2>1, PageMono DEF UserTop, HeapStart
  <2>3. HeapStart < TempWindow /\ TempWindow < Page(W - 2, 0, 0, 0)
    BY <2>1, PageStep DEF HeapStart, TempWindow
  <2>4. Page(W - 2, 0, 0, 0) <= Page(W - 1, 0, 0, 0)
    BY <2>1, PageMono
  <2>5. Page(W - 1, 0, 0, 0) < Top
    <3>1. Page(W - 1, 0, 0, 0) < Page(W - 1, 1, 0, 0) /\ Page(W - 1, 1, 0, 0) < Page(W, 0, 0, 0)
      BY <2>1, PageStep
    <3>2. Page(W - 1, 1, 0, 0) \in Nat /\ Page(W - 1, 0, 0, 0) \in Nat /\ Page(W, 0, 0, 0) \in Nat
      BY <2>1, PageNat, WBound
    <3>3. QED
      BY <3>1, <3>2 DEF Top
  <2>6. QED
    BY <2>2, <2>3, <2>4, <2>5
<1>2. Page(W - 1, 0, 0, 0) <= Offscreen /\ Offscreen <= AcpiWin /\ AcpiWin + 1 < Top
  <2> DEFINE s == W * W
             b == Page(W - 1, 0, 0, 0)
  <2>1. s \in Nat /\ b \in Nat
    BY PageNat, WBound
  <2>2. /\ Offscreen = b + (s * (W - 2) + s - W)
        /\ AcpiWin = b + s * (W - 1)
        /\ Top = b + s * W
    BY WBound DEF Offscreen, AcpiWin, Top, Page
  <2>3. s >= W + W
    <3>1. W * W = 2 * W + (W - 2) * W /\ (W - 2) * W \in Nat
      BY WBound
    <3>2. QED
      BY <3>1, WBound
  <2>4. s * (W - 2) \in Nat /\ s * (W - 1) = s * (W - 2) + s /\ s * W = s * (W - 2) + s + s
    BY <2>1, WBound
  <2> DEFINE q == s * (W - 2)
  <2>5. q \in Nat /\ s * (W - 1) = q + s /\ s * W = q + s + s
    BY <2>4
  <2>6. Offscreen = b + (q + s - W) /\ AcpiWin = b + (q + s) /\ Top = b + (q + s + s)
    BY <2>2, <2>5
  <2> HIDE DEF s, b, q
  <2>7. QED
    BY <2>1, <2>3, <2>5, <2>6, WBound DEF b
<1>3. {UserTop, HeapStart, TempWindow, Page(W - 2, 0, 0, 0), Page(W - 1, 0, 0, 0), Offscreen,
       AcpiWin, Top} \subseteq Nat
  BY Bases, PageNat, WBound
<1>4. InHeapPart(v) => Pml4Index(v) = W - 3
  <2> SUFFICES ASSUME InHeapPart(v) PROVE Pml4Index(v) = W - 3
    OBVIOUS
  <2>1. W - 3 \in Nat /\ W - 2 \in Nat
    BY WBound
  <2>2. Page(W - 3, 0, 0, 0) <= v /\ v < Page(W - 2, 0, 0, 0)
    BY DEF InHeapPart, HeapStart
  <2>3. W - 3 <= Pml4Index(v) /\ Pml4Index(v) < W - 2 /\ Pml4Index(v) \in Nat
    BY <2>1, <2>2, Pml4Order
  <2>4. QED
    BY <2>3, WBound
<1>5. Offscreen <= v /\ v < Top => Pml4Index(v) = W - 1
  <2> SUFFICES ASSUME Offscreen <= v, v < Top PROVE Pml4Index(v) = W - 1
    OBVIOUS
  <2>1. W - 1 \in Nat /\ W \in Nat
    BY WBound
  <2>2. Page(W - 1, 0, 0, 0) <= v /\ v < Page(W, 0, 0, 0)
    BY <1>2, <1>3 DEF Top
  <2>3. W - 1 <= Pml4Index(v) /\ Pml4Index(v) < W /\ Pml4Index(v) \in Nat
    BY <2>1, <2>2, Pml4Order
  <2>4. QED
    BY <2>3, WBound
<1>6. QED
  BY <1>1, <1>2, <1>3, <1>4, <1>5 DEF InHeap, InHeapPart, Pages

\* A page whose first digit is W - 3 is not before the heap.
LEMMA HeapDigits ==
  ASSUME NEW j \in Idx, NEW k \in Idx, NEW l \in Idx
  PROVE  HeapStart <= Sub(Sub(Sub(Sub(0, W - 3), j), k), l)
<1>1. W - 3 \in Nat /\ j \in Nat /\ k \in Nat /\ l \in Nat /\ W * (W - 3) \in Nat
  BY WBound DEF Idx
<1>2. Sub(0, W - 3) = W - 3
  BY WBound DEF Sub
<1>3. W * (W - 3) <= W * (W - 3) + j /\ W * (W - 3) + j \in Nat
  BY <1>1
<1>4. W * (W * (W - 3)) \in Nat /\ W * (W * (W - 3)) <= W * (W * (W - 3) + j) + k
  BY <1>1, <1>3, AtLeast
<1>5. W * (W * (W - 3) + j) + k \in Nat
  BY <1>1, <1>3, WBound
<1>6. W * (W * (W * (W - 3))) <= W * (W * (W * (W - 3) + j) + k) + l
  BY <1>1, <1>4, <1>5, AtLeast
<1>7. HeapStart = W * (W * (W * (W - 3)))
  BY WBound DEF HeapStart, Page
<1>8. \A a \in Nat, i \in Nat : Sub(a, i) = W * a + i
  BY WBound DEF Sub
<1>9. Sub(Sub(Sub(Sub(0, W - 3), j), k), l) = W * (W * (W * (W - 3) + j) + k) + l
  <2>1. Sub(W - 3, j) = W * (W - 3) + j
    BY <1>1, <1>8
  <2>2. Sub(W * (W - 3) + j, k) = W * (W * (W - 3) + j) + k
    BY <1>1, <1>3, <1>8
  <2>3. Sub(W * (W * (W - 3) + j) + k, l) = W * (W * (W * (W - 3) + j) + k) + l
    BY <1>1, <1>5, <1>8
  <2>4. QED
    BY <1>2, <2>1, <2>2, <2>3
<1>10. QED
  BY <1>6, <1>7, <1>9

----------------------------------------------------------------------------
(* The frames.                                                             *)

LEMMA FramedFacts ==
  ASSUME NEW m, Framed(m)
  PROVE  /\ m.ram \in Nat /\ m.ram > 0 /\ IsFiniteSet(m.taken)
         /\ Free(m) \subseteq Managed(m.ram) /\ Free(m) \subseteq Nat
         /\ None \notin Free(m) /\ None \in m.taken
<1>1. m.ram \in Nat /\ m.ram > 0
  <2>1. RamSizes \subseteq Nat \ {0}
    BY ProcessesAssumption, Zenon
  <2>2. m.ram \in RamSizes
    BY Zenon DEF Framed
  <2>3. m.ram \in Nat \ {0}
    BY <2>1, <2>2
  <2>4. QED
    BY <2>3
<1>2. IsFiniteSet(m.taken)
  <2>1. IsFiniteSet(0 .. m.ram - 1)
    BY <1>1, FS_Interval
  <2>2. QED
    BY <2>1, FS_Subset DEF Framed
<1>3. QED
  BY <1>1, <1>2 DEF Framed, Free, Managed, None

LEMMA OccupySound ==
  ASSUME NEW m, IsMemory(m), Framed(m), NEW f \in Nat, NEW n \in Nat,
         Run(f, n) \subseteq Free(m), NEW a, a = Occupy(m, f, n)
  PROVE  /\ IsMemory(a) /\ Framed(a) /\ SameElse(m, a)
         /\ a.taken = m.taken \cup Run(f, n)
         /\ a.tables = m.tables /\ a.ok = m.ok /\ a.at = m.at /\ a.got = f
<1> DEFINE new == Run(f, n)
           old == m.taken \cap Managed(m.ram)
<1>1. /\ IsMemory(a) /\ SameElse(m, a)
      /\ a.taken = m.taken \cup new /\ a.used = m.used + n
      /\ a.tables = m.tables /\ a.ok = m.ok /\ a.at = m.at /\ a.got = f
  BY DEF Occupy, IsMemory, SameElse, Run
<1>2. m.ram \in Nat /\ IsFiniteSet(m.taken) /\ Free(m) \subseteq Managed(m.ram)
  BY FramedFacts
<1>3. IsFiniteSet(new) /\ Cardinality(new) = n
  BY FS_Interval DEF Run
<1>4. IsFiniteSet(old) /\ Cardinality(old) \in Nat
  BY <1>2, FS_Intersection, FS_CardinalityType
<1>5. new \subseteq 0 .. m.ram - 1 /\ new \cap m.taken = {} /\ new \subseteq Managed(m.ram)
  BY <1>2 DEF Free
<1> HIDE DEF new
<1>6. (m.taken \cup new) \cap Managed(m.ram) = old \cup new /\ old \cap new = {}
  BY <1>5
<1> HIDE DEF old
<1>7. Cardinality(old \cup new) = Cardinality(old) + n
  <2>1. Cardinality(old \cap new) = 0
    BY <1>6, FS_EmptySet
  <2>2. Cardinality(old \cup new) = Cardinality(old) + Cardinality(new) - Cardinality(old \cap new)
    BY <1>3, <1>4, FS_Union
  <2>3. QED
    BY <1>3, <1>4, <2>1, <2>2
<1>8. m.used = Cardinality(old)
  BY DEF Framed, old
<1>9. a.ram = m.ram /\ a.used = Cardinality(a.taken \cap Managed(a.ram))
  BY <1>1, <1>6, <1>7, <1>8 DEF SameElse
<1>10. Framed(a)
  BY <1>1, <1>5, <1>9 DEF Framed
<1>11. QED
  BY <1>1, <1>10 DEF new

\* A function that looks for one frame finds none, or takes one that is free.
LEMMA TakeLowestSound ==
  ASSUME NEW m, IsMemory(m), Framed(m), NEW S, S \subseteq Free(m),
         NEW a, a = TakeLowest(m, S)
  PROVE  /\ IsMemory(a) /\ Framed(a) /\ SameElse(m, a)
         /\ a.tables = m.tables /\ a.ok = m.ok /\ a.at = m.at
         /\ \/ a.got = None /\ a.taken = m.taken
            \/ /\ a.got \in Free(m) /\ a.got \in Nat /\ a.got # None
               /\ a.taken = m.taken \cup {a.got}
<1>1. CASE S = {}
  BY <1>1 DEF TakeLowest, IsMemory, Framed, SameElse
<1>2. CASE S # {}
  <2>1. S \subseteq Nat /\ None \notin Free(m)
    BY FramedFacts
  <2>2. Min(S) \in S
    BY <1>2, <2>1, MinFound
  <2> DEFINE f == Min(S)
  <2>3. f \in Nat /\ f \in Free(m) /\ f # None
    BY <2>1, <2>2
  <2>4. a = Occupy(m, f, 1)
    BY <1>2 DEF TakeLowest
  <2> HIDE DEF f
  <2>5. Run(f, 1) = {f}
    BY <2>3 DEF Run
  <2>6. Run(f, 1) \subseteq Free(m) /\ 1 \in Nat
    BY <2>3, <2>5
  <2>7. /\ IsMemory(a) /\ Framed(a) /\ SameElse(m, a)
        /\ a.taken = m.taken \cup Run(f, 1)
        /\ a.tables = m.tables /\ a.ok = m.ok /\ a.at = m.at /\ a.got = f
    BY <2>3, <2>4, <2>6, OccupySound
  <2>8. QED
    BY <2>3, <2>5, <2>7
<1>3. QED
  BY <1>1, <1>2

LEMMA AllocFramesSound ==
  ASSUME NEW m, IsMemory(m), Framed(m), NEW n \in Nat \ {0}, NEW a, a = AllocFrames(m, n)
  PROVE  /\ IsMemory(a) /\ Framed(a) /\ SameElse(m, a)
         /\ a.tables = m.tables /\ a.ok = m.ok /\ a.at = m.at
         /\ \/ a.got = None /\ a.taken = m.taken
            \/ /\ a.got \in Nat /\ a.got # None /\ Run(a.got, n) \subseteq Free(m)
               /\ a.taken = m.taken \cup Run(a.got, n)
<1> DEFINE starts == {f \in Free(m) : (f .. f + n - 1) \subseteq Free(m)}
<1>1. CASE starts = {}
  <2>1. a = [m EXCEPT !.got = None]
    BY <1>1 DEF AllocFrames
  <2>2. QED
    BY <2>1 DEF IsMemory, Framed, SameElse
<1>2. CASE starts # {}
  <2>1. a = Occupy(m, Min(starts), n)
    BY <1>2 DEF AllocFrames
  <2>2. starts \subseteq Nat /\ None \notin Free(m)
    BY FramedFacts
  <2>3. Min(starts) \in starts
    BY <1>2, <2>2, MinFound
  <2>4. /\ Min(starts) \in Nat /\ Min(starts) # None
        /\ Min(starts) .. Min(starts) + n - 1 \subseteq Free(m)
    BY <2>2, <2>3
  <2> DEFINE f == Min(starts)
  <2>5. f \in Nat /\ Run(f, n) \subseteq Free(m) /\ a = Occupy(m, f, n) /\ f # None
    BY <2>1, <2>4 DEF Run
  <2> HIDE DEF f
  <2>6. /\ IsMemory(a) /\ Framed(a) /\ SameElse(m, a)
        /\ a.taken = m.taken \cup Run(f, n)
        /\ a.tables = m.tables /\ a.ok = m.ok /\ a.at = m.at /\ a.got = f
    BY <2>5, OccupySound
  <2>7. QED
    BY <2>5, <2>6
<1>3. QED
  BY <1>1, <1>2

\* Frames that may be given out are counted when they are given back.
LEMMA FreeFramesSound ==
  ASSUME NEW m, IsMemory(m), Framed(m), NEW f \in Nat, NEW n \in Nat,
         Run(f, n) \subseteq (m.taken \cap Managed(m.ram)) \ Image,
         NEW a, a = FreeFrames(m, f, n)
  PROVE  /\ IsMemory(a) /\ Framed(a) /\ SameElse(m, a)
         /\ a.taken = m.taken \ Run(f, n)
         /\ a.tables = m.tables /\ a.ok = m.ok /\ a.at = m.at
<1> DEFINE gone == Run(f, n)
           old  == m.taken \cap Managed(m.ram)
<1>1. ((f .. f + n - 1) \ {0}) \cap m.taken = gone
  BY DEF Managed, Run
<1>2. /\ IsMemory(a) /\ SameElse(m, a)
      /\ a.taken = m.taken \ gone /\ a.used = m.used - Cardinality(gone)
      /\ a.tables = m.tables /\ a.ok = m.ok /\ a.at = m.at
  <2> HIDE DEF gone
  <2>1. a = [m EXCEPT !.taken = @ \ gone, !.used = @ - Cardinality(gone)]
    BY <1>1 DEF FreeFrames, Run
  <2>2. QED
    BY <2>1 DEF IsMemory, SameElse
<1>3. gone \subseteq old /\ gone \cap Image = {}
  OBVIOUS
<1> HIDE DEF gone
<1>4. IsFiniteSet(old) /\ Cardinality(old) \in Nat
  BY FramedFacts, FS_Intersection, FS_CardinalityType
<1>5. Cardinality(old \ gone) = Cardinality(old) - Cardinality(gone)
  <2>1. old \cap gone = gone
    BY <1>3
  <2>2. QED
    BY <1>4, <2>1, FS_Difference
<1>6. (m.taken \ gone) \cap Managed(m.ram) = old \ gone
  OBVIOUS
<1>7. a.used = Cardinality(a.taken \cap Managed(a.ram))
  BY <1>2, <1>5, <1>6 DEF Framed, SameElse
<1>8. Framed(a)
  BY <1>2, <1>3, <1>7 DEF Framed, SameElse
<1>9. QED
  BY <1>2, <1>8 DEF gone

----------------------------------------------------------------------------
LEMMA MovedSelf ==
  ASSUME NEW T, NEW g, NEW O, NEW V
  PROVE  Moved(T, g, T, g, O, V)
BY Zenon DEF Moved, Kept, EntriesKept, RootKept, LeavesKept, GuardedKept, Leads

LEMMA MovedTrans ==
  ASSUME NEW T, NEW g, NEW U, NEW h, NEW X, NEW k, NEW O, NEW V,
         TablesTyped(T, g), Moved(T, g, U, h, O, V), Moved(U, h, X, k, O, V)
  PROVE  Moved(T, g, X, k, O, V)
<1>1. /\ Kept(T, g, U, h, O) /\ EntriesKept(T, g, U)
      /\ RootKept(T, g, U, V) /\ LeavesKept(T, g, U, V) /\ GuardedKept(T, g, U, h, V)
      /\ Kept(U, h, X, k, O) /\ EntriesKept(U, h, X)
      /\ RootKept(U, h, X, V) /\ LeavesKept(U, h, X, V) /\ GuardedKept(U, h, X, k, V)
  BY DEF Moved
<1>2. Kept(T, g, X, k, O)
  BY <1>1 DEF Kept
<1>3. EntriesKept(T, g, X)
  BY <1>1 DEF EntriesKept, Kept, Leads
<1>4. RootKept(T, g, X, V)
  <2> SUFFICES ASSUME NEW t \in DOMAIN T, g.lev[t] = 4, DOMAIN T[t] # {}, NEW i \in DOMAIN X[t]
               PROVE  i \in DOMAIN T[t] \/ \E v \in V : i = Pml4Index(v)
    BY DEF RootKept
  <2>1. t \in DOMAIN U /\ h.lev[t] = 4
    BY <1>1 DEF Kept
  <2>2. PICK j : j \in DOMAIN T[t]
    OBVIOUS
  <2>3. ~T[t][j].huge
    BY <2>2 DEF TablesTyped, HugeOK
  <2>4. Leads(T, g, t, j)
    BY <2>2, <2>3 DEF Leads
  <2>5. DOMAIN U[t] # {}
    BY <1>1, <2>2, <2>4 DEF EntriesKept
  <2>6. QED
    BY <1>1, <2>1, <2>5 DEF RootKept
<1>5. LeavesKept(T, g, X, V)
  <2> SUFFICES ASSUME NEW t \in DOMAIN T, NEW i \in Idx, g.lev[t] = 1, Sub(g.key[t], i) \notin V
               PROVE  /\ i \in DOMAIN X[t] <=> i \in DOMAIN T[t]
                      /\ i \in DOMAIN T[t] => X[t][i] = T[t][i]
    BY DEF LeavesKept
  <2>1. t \in DOMAIN U /\ h.lev[t] = 1 /\ h.key[t] = g.key[t]
    BY <1>1 DEF Kept
  <2>2. /\ i \in DOMAIN U[t] <=> i \in DOMAIN T[t]
        /\ i \in DOMAIN T[t] => U[t][i] = T[t][i]
    BY <1>1 DEF LeavesKept
  <2>3. /\ i \in DOMAIN X[t] <=> i \in DOMAIN U[t]
        /\ i \in DOMAIN U[t] => X[t][i] = U[t][i]
    BY <1>1, <2>1 DEF LeavesKept
  <2>4. QED
    BY <2>2, <2>3
<1>6. GuardedKept(T, g, X, k, V)
  <2> SUFFICES ASSUME NEW t \in DOMAIN X, NEW i \in DOMAIN X[t], Guarded(X, k, t, i),
                      Sub(k.key[t], i) \notin V
               PROVE  Guarded(T, g, t, i)
    BY DEF GuardedKept
  <2>1. Guarded(U, h, t, i)
    BY <1>1 DEF GuardedKept
  <2>2. t \in DOMAIN U /\ i \in DOMAIN U[t]
    BY <2>1 DEF Guarded
  <2>3. k.key[t] = h.key[t]
    BY <1>1, <2>2 DEF Kept
  <2>4. QED
    BY <1>1, <2>1, <2>2, <2>3 DEF GuardedKept
<1>7. QED
  BY <1>2, <1>3, <1>4, <1>5, <1>6 DEF Moved

LEMMA MovedMore ==
  ASSUME NEW T, NEW g, NEW U, NEW h, NEW O, NEW V, Moved(T, g, U, h, O, V),
         NEW O2, O \subseteq O2, NEW V2, V \subseteq V2
  PROVE  Moved(T, g, U, h, O2, V2)
<1>1. /\ Kept(T, g, U, h, O) /\ EntriesKept(T, g, U)
      /\ RootKept(T, g, U, V) /\ LeavesKept(T, g, U, V) /\ GuardedKept(T, g, U, h, V)
  BY DEF Moved
<1>2. Kept(T, g, U, h, O2)
  BY <1>1 DEF Kept
<1>3. RootKept(T, g, U, V2)
  BY <1>1 DEF RootKept
<1>4. LeavesKept(T, g, U, V2)
  BY <1>1 DEF LeavesKept
<1>5. GuardedKept(T, g, U, h, V2)
  BY <1>1 DEF GuardedKept
<1>6. QED
  BY <1>1, <1>2, <1>3, <1>4, <1>5 DEF Moved

LEMMA LaterSelf ==
  ASSUME NEW m, NEW g, NEW a, NEW O, NEW V, SameElse(m, a), a.tables = m.tables
  PROVE  Later(m, g, a, g, O, V)
BY MovedSelf DEF Later

LEMMA LaterTrans ==
  ASSUME NEW m, NEW g, NEW a, NEW h, NEW b, NEW k, NEW O, NEW V, Tree(m.tables, g),
         Later(m, g, a, h, O, V), Later(a, h, b, k, O, V)
  PROVE  Later(m, g, b, k, O, V)
<1>1. SameElse(m, b)
  BY DEF Later, SameElse
<1>2. QED
  BY <1>1, MovedTrans DEF Later, Tree

LEMMA LaterMore ==
  ASSUME NEW m, NEW g, NEW a, NEW h, NEW O, NEW V, Later(m, g, a, h, O, V),
         NEW O2, O \subseteq O2, NEW V2, V \subseteq V2
  PROVE  Later(m, g, a, h, O2, V2)
BY MovedMore DEF Later

\* More may be set aside than is asked for.
LEMMA GoodLess ==
  ASSUME NEW m, NEW g, NEW R, Good(m, g, R), NEW S, S \subseteq R,
         m.ipcPage # None => m.ipcPage \in S
  PROVE  Good(m, g, S)
<1>1. PagesOK(m, g, S)
  BY Zenon DEF Good, PagesOK
<1>2. AsideOK(m, S)
  BY DEF Good, AsideOK
<1>3. QED
  BY <1>1, <1>2 DEF Good

\* Only the frames, the tables and the fields about the machine count.
LEMMA GoodSame ==
  ASSUME NEW m, NEW g, NEW R, Good(m, g, R), NEW a, IsMemory(a),
         a.ram = m.ram, a.taken = m.taken, a.used = m.used, a.tables = m.tables,
         a.ipcPage = m.ipcPage
  PROVE  Good(a, g, R)
<1>1. Framed(a)
  BY DEF Good, Framed
<1>2. TablesOK(a, g) /\ AsideOK(a, R)
  BY DEF Good, TablesOK, AsideOK, Plain
<1>3. PagesApart(a, g)
  BY DEF Good, PagesApart, Common
<1>4. PagesOK(a, g, R)
  <2>1. \A f : Plain(a, f) <=> Plain(m, f)
    BY DEF Plain
  <2>2. Common(a) = Common(m) /\ \A v, f : Placed(a, v, f) <=> Placed(m, v, f)
    BY DEF Common, Placed
  <2>3. PagesOK(m, g, R)
    BY DEF Good
  <2>4. QED
    BY <2>1, <2>2, <2>3, Zenon DEF PagesOK
<1>5. Tree(a.tables, g)
  BY DEF Good
<1>6. QED
  BY <1>1, <1>2, <1>3, <1>4, <1>5 DEF Good

\* A frame that was free becomes one that is set aside.
LEMMA SetAside ==
  ASSUME NEW m, NEW g, NEW R, Good(m, g, R), NEW S, S \subseteq Free(m),
         NEW a, IsMemory(a), Framed(a), SameElse(m, a), a.tables = m.tables,
         a.taken = m.taken \cup S
  PROVE  /\ Good(a, g, R \cup S)
         /\ S \cap (R \cup DOMAIN m.tables \cup Image \cup m.taken) = {}
         /\ Covered(m, g, R) => Covered(a, g, R \cup S)
<1>1. Free(m) \subseteq Managed(m.ram) /\ Free(m) \cap m.taken = {} /\ a.ram = m.ram
  BY FramedFacts DEF Good, Free, SameElse
<1>2. S \cap (R \cup DOMAIN m.tables \cup Image \cup m.taken) = {}
  BY <1>1 DEF Good, AsideOK, Plain, TablesOK, Framed
<1>3. \A f : Plain(m, f) => Plain(a, f) /\ f \notin S
  BY <1>1 DEF Plain
<1>4. \A f \in S : Plain(a, f)
  BY <1>1, <1>2 DEF Plain
<1>5. a.ipcPage = m.ipcPage /\ Common(a) = Common(m)
      /\ \A v, f : Placed(a, v, f) <=> Placed(m, v, f)
  BY DEF SameElse, Common, Placed
<1>6. PagesOK(a, g, R \cup S)
  <2>1. PagesOK(m, g, R)
    BY DEF Good
  <2>2. QED
    BY <2>1, <1>3, <1>5, Zenon DEF PagesOK
<1>7. PagesApart(a, g)
  BY <1>5 DEF Good, PagesApart
<1>8. TablesOK(a, g)
  BY <1>1 DEF Good, TablesOK
<1>9. AsideOK(a, R \cup S)
  BY <1>3, <1>4, <1>5 DEF Good, AsideOK
<1>10. Good(a, g, R \cup S)
  BY <1>6, <1>7, <1>8, <1>9 DEF Good
<1>11. Covered(m, g, R) => Covered(a, g, R \cup S)
  BY <1>1 DEF Covered
<1>12. QED
  BY <1>2, <1>10, <1>11

----------------------------------------------------------------------------
(* A table that was set aside goes below entry i of table d.               *)

LEMMA PutGrown ==
  ASSUME NEW T, NEW c, c \notin DOMAIN T, NEW d \in DOMAIN T, NEW i, NEW entries
  PROVE  Grown(T, d, i, c, entries, Put(MakeTable(T, c, entries), d, i, Entry(c)))
<1> DEFINE M == MakeTable(T, c, entries)
           U == Put(M, d, i, Entry(c))
<1>1. /\ M = [x \in DOMAIN T \cup {c} |-> IF x = c THEN entries ELSE T[x]]
      /\ DOMAIN M = DOMAIN T \cup {c} /\ M[c] = entries
      /\ \A t \in DOMAIN T : M[t] = T[t]
  BY DEF MakeTable
<1>2. /\ U = [M EXCEPT ![d] = [x \in DOMAIN M[d] \cup {i} |-> IF x = i THEN Entry(c) ELSE M[d][x]]]
  BY DEF Put
<1> HIDE DEF M
<1>3. /\ DOMAIN U = DOMAIN M
      /\ \A t \in DOMAIN M \ {d} : U[t] = M[t]
      /\ U[d] = [x \in DOMAIN M[d] \cup {i} |-> IF x = i THEN Entry(c) ELSE M[d][x]]
  BY <1>1, <1>2
<1> HIDE DEF U
<1>4. c # d
  OBVIOUS
<1>5. /\ U[c] = entries /\ DOMAIN U = DOMAIN T \cup {c}
      /\ \A t \in DOMAIN T \ {d} : U[t] = T[t]
  BY <1>1, <1>3, <1>4
<1>6. U[d] = [x \in DOMAIN T[d] \cup {i} |-> IF x = i THEN Entry(c) ELSE T[d][x]]
  BY <1>1, <1>3
<1>7. QED
  BY <1>5, <1>6 DEF Grown, U, M

LEMMA TreeGrows ==
  ASSUME NEW T, NEW g, Tree(T, g), NEW d, NEW i, Vacant(T, g, d, i),
         NEW c \in Nat, c \notin DOMAIN T, NEW entries, Filling(T, g, d, i, entries),
         NEW U, Grown(T, d, i, c, entries, U), NEW h, h = Extended(T, g, d, i, c)
  PROVE  /\ Tree(U, h)
         /\ h.lev[c] = g.lev[d] - 1 /\ h.own[c] = g.own[d] /\ h.key[c] = Sub(g.key[d], i)
         /\ \A t \in DOMAIN T : h.lev[t] = g.lev[t] /\ h.own[t] = g.own[t] /\ h.key[t] = g.key[t]
<1>1. /\ \A t \in DOMAIN T : t # c /\ h.lev[t] = g.lev[t] /\ h.own[t] = g.own[t] /\ h.key[t] = g.key[t]
      /\ h.lev[c] = g.lev[d] - 1 /\ h.own[c] = g.own[d] /\ h.key[c] = Sub(g.key[d], i)
  BY DEF Extended, Vacant
<1>2. /\ DOMAIN U = DOMAIN T \cup {c} /\ U[c] = entries
      /\ \A t \in DOMAIN T \ {d} : U[t] = T[t]
      /\ DOMAIN U[d] = DOMAIN T[d] \cup {i} /\ U[d][i] = Entry(c)
      /\ \A j \in DOMAIN T[d] \ {i} : U[d][j] = T[d][j]
  BY DEF Grown
<1>3. /\ d \in DOMAIN T /\ i \in Idx /\ g.lev[d] > 1
      /\ i \in DOMAIN T[d] => T[d][i].huge
      /\ g.lev[d] = 4 => d = KernelRoot \/ i \in UserHalf
  BY DEF Vacant
<1>4. TablesTyped(T, g) /\ TablesLead(T, g) /\ TablesFound(T, g) /\ TablesApart(T, g)
  BY DEF Tree
<1>5. g.lev[d] \in {2, 3, 4} /\ g.own[d] \in DOMAIN T /\ g.key[d] \in Nat
  BY <1>3, <1>4 DEF TablesTyped
<1>6. DOMAIN entries \subseteq Idx
  BY DEF Filling
<1>7. \A l \in DOMAIN entries : /\ \E f \in Nat : entries[l] = Entry(f)
                                /\ g.lev[d] = 2
  <2>1. i \in DOMAIN T[d] /\ T[d][i].huge => g.lev[d] = 2
    BY <1>3, <1>4 DEF TablesTyped, HugeOK
  <2>2. QED
    BY <2>1 DEF Filling
<1>8. TablesTyped(U, h)
  <2>1. \A t \in DOMAIN U : /\ h.lev[t] \in 1 .. 4 /\ h.own[t] \in DOMAIN U /\ h.key[t] \in Nat
                            /\ h.lev[h.own[t]] = 4
                            /\ h.lev[t] = 4 => h.own[t] = t /\ h.key[t] = 0
    <3> SUFFICES ASSUME NEW t \in DOMAIN U
                 PROVE  /\ h.lev[t] \in 1 .. 4 /\ h.own[t] \in DOMAIN U /\ h.key[t] \in Nat
                        /\ h.lev[h.own[t]] = 4
                        /\ h.lev[t] = 4 => h.own[t] = t /\ h.key[t] = 0
      OBVIOUS
    <3>1. CASE t = c
      <4>1. h.lev[c] \in 1 .. 3
        BY <1>1, <1>5
      <4>2. g.lev[g.own[d]] = 4 /\ g.own[d] \in DOMAIN T
        BY <1>3, <1>4 DEF TablesTyped
      <4>3. h.lev[g.own[d]] = 4 /\ g.own[d] \in DOMAIN U
        BY <4>2, <1>1, <1>2
      <4>4. Sub(g.key[d], i) \in Nat
        BY <1>3, <1>5, SubNat
      <4>5. QED
        BY <3>1, <4>1, <4>3, <4>4, <1>1
    <3>2. CASE t # c
      <4>1. t \in DOMAIN T
        BY <1>2, <3>2
      <4>2. QED
        BY <4>1, <1>1, <1>2, <1>4 DEF TablesTyped
    <3>3. QED
      BY <3>1, <3>2
  <2>2. KernelRoot \in DOMAIN U /\ h.lev[KernelRoot] = 4
    BY <1>1, <1>2, <1>4 DEF TablesTyped
  <2>3. \A t \in DOMAIN U : DOMAIN U[t] \subseteq Idx
    BY <1>2, <1>3, <1>4, <1>6 DEF TablesTyped
  <2>4. ASSUME NEW t \in DOMAIN U, NEW j \in DOMAIN U[t]
        PROVE  /\ U[t][j] = [frame |-> U[t][j].frame, huge |-> U[t][j].huge]
               /\ U[t][j].frame \in Nat
               /\ U[t][j].huge \in BOOLEAN
               /\ U[t][j].huge => HugeOK(h, t, j)
    <3>1. CASE t = c
      <4>1. U[t][j] = entries[j] /\ j \in DOMAIN entries
        BY <3>1, <1>2
      <4>2. PICK f \in Nat : entries[j] = Entry(f)
        BY <4>1, <1>7
      <4>3. U[t][j] = [frame |-> f, huge |-> FALSE]
        BY <4>1, <4>2 DEF Entry
      <4>4. QED
        BY <4>3
    <3>2. CASE t = d /\ j = i
      BY <3>2, <1>2 DEF Entry
    <3>3. CASE t # c /\ ~(t = d /\ j = i)
      <4>1. t \in DOMAIN T /\ j \in DOMAIN T[t] /\ U[t][j] = T[t][j]
        BY <3>3, <1>2
      <4>2. /\ T[t][j] = [frame |-> T[t][j].frame, huge |-> T[t][j].huge]
            /\ T[t][j].frame \in Nat
            /\ T[t][j].huge \in BOOLEAN
            /\ T[t][j].huge => HugeOK(g, t, j)
        BY <4>1, <1>4, Zenon DEF TablesTyped
      <4>3. HugeOK(g, t, j) => HugeOK(h, t, j)
        BY <4>1, <1>1 DEF HugeOK
      <4>4. QED
        BY <4>1, <4>2, <4>3
    <3>4. QED
      BY <3>1, <3>2, <3>3
  <2>5. QED
    BY <2>1, <2>2, <2>3, <2>4 DEF TablesTyped
<1>9. TablesLead(U, h)
  <2> SUFFICES ASSUME NEW t \in DOMAIN U, NEW j \in DOMAIN U[t], Leads(U, h, t, j)
               PROVE  Below(U, h, t, j)
    BY DEF TablesLead
  <2>1. CASE t = c
    BY <2>1, <1>1, <1>2, <1>7 DEF Leads
  <2>2. CASE t = d /\ j = i
    <3>1. OwnerBelow(h, d, i) = g.own[d]
      <4>1. h.lev[d] = g.lev[d] /\ h.own[d] = g.own[d]
        BY <1>1, <1>3
      <4>2. g.lev[d] = 4 /\ i \in KernelHalf => g.own[d] = KernelRoot
        BY <1>3, <1>4, Bases DEF TablesTyped
      <4>3. QED
        BY <4>1, <4>2 DEF OwnerBelow
    <3>2. U[d][i].frame = c /\ c \in DOMAIN U
      BY <1>2 DEF Entry
    <3>3. QED
      BY <2>2, <3>1, <3>2, <1>1, <1>3 DEF Below
  <2>3. CASE t # c /\ ~(t = d /\ j = i)
    <3>1. t \in DOMAIN T /\ j \in DOMAIN T[t] /\ U[t][j] = T[t][j]
      BY <2>3, <1>2
    <3>2. Leads(T, g, t, j)
      BY <3>1, <1>1 DEF Leads
    <3>3. Below(T, g, t, j)
      BY <3>1, <3>2, <1>4 DEF TablesLead
    <3>4. QED
      BY <3>1, <3>3, <1>1, <1>2 DEF Below, OwnerBelow
  <2>4. QED
    BY <2>1, <2>2, <2>3
<1>10. TablesFound(U, h)
  <2> SUFFICES ASSUME NEW x \in DOMAIN U, h.lev[x] # 4
               PROVE  \E t \in DOMAIN U : \E j \in Idx : FoundAt(U, h, x, t, j)
    BY DEF TablesFound
  <2>1. CASE x = c
    <3>1. FoundAt(U, h, c, d, i)
      BY <1>1, <1>2, <1>3 DEF FoundAt, Leads, Entry
    <3>2. QED
      BY <2>1, <3>1, <1>2, <1>3
  <2>2. CASE x # c
    <3>1. x \in DOMAIN T /\ g.lev[x] # 4
      BY <2>2, <1>1, <1>2
    <3>2. PICK t \in DOMAIN T, j \in Idx : FoundAt(T, g, x, t, j)
      BY <3>1, <1>4 DEF TablesFound
    <3>3. ~(t = d /\ j = i) /\ j \in DOMAIN T[t]
      BY <3>2, <1>3 DEF FoundAt, Leads
    <3>4. U[t][j] = T[t][j] /\ t \in DOMAIN U /\ j \in DOMAIN U[t]
      BY <3>3, <1>2
    <3>5. FoundAt(U, h, x, t, j)
      BY <3>1, <3>2, <3>4, <1>1 DEF FoundAt, Leads
    <3>6. QED
      BY <3>4, <3>5
  <2>3. QED
    BY <2>1, <2>2
<1>11. TablesApart(U, h)
  <2>1. ASSUME NEW s \in DOMAIN T
        PROVE  ~(g.lev[s] = h.lev[c] /\ g.own[s] = h.own[c] /\ g.key[s] = h.key[c])
    <3> SUFFICES ASSUME g.lev[s] = g.lev[d] - 1, g.own[s] = g.own[d], g.key[s] = Sub(g.key[d], i)
                 PROVE  FALSE
      BY <1>1
    <3>1. g.lev[s] # 4
      BY <1>5
    <3>2. PICK t \in DOMAIN T, j \in Idx : FoundAt(T, g, s, t, j)
      BY <3>1, <1>4 DEF TablesFound
    <3>3. /\ Leads(T, g, t, j) /\ T[t][j].frame = s /\ g.own[t] = g.own[s]
          /\ j \in DOMAIN T[t]
      BY <3>2 DEF FoundAt, Leads
    <3>4. Below(T, g, t, j)
      BY <3>3, <1>4 DEF TablesLead
    <3>5. g.lev[s] = g.lev[t] - 1 /\ g.key[s] = Sub(g.key[t], j)
      BY <3>3, <3>4 DEF Below
    <3>6. g.lev[t] \in Int /\ g.key[t] \in Nat
      BY <1>4 DEF TablesTyped
    <3>7. g.lev[t] = g.lev[d]
      BY <3>5, <3>6, <1>5
    <3>8. g.key[t] = g.key[d] /\ j = i
      <4>1. Sub(g.key[t], j) = Sub(g.key[d], i)
        BY <3>5
      <4>2. g.key[t] \in Nat /\ g.key[d] \in Nat /\ j \in Idx /\ i \in Idx
        BY <3>6, <1>3, <1>5
      <4>3. QED
        BY <4>1, <4>2, SubInj
    <3>9. t = d
      BY <3>3, <3>7, <3>8, <1>3, <1>4 DEF TablesApart
    <3>10. QED
      BY <3>3, <3>8, <3>9, <1>3 DEF Leads
  <2>2. QED
    BY <2>1, <1>1, <1>2, <1>4 DEF TablesApart
<1>12. QED
  BY <1>1, <1>8, <1>9, <1>10, <1>11 DEF Tree

LEMMA QuietSelf ==
  ASSUME NEW m, NEW g, NEW a, NEW o, NEW v, SameElse(m, a), a.tables = m.tables
  PROVE  Quiet(m, g, a, g, o, v)
BY LaterSelf DEF Quiet, GuardedKept

LEMMA QuietTrans ==
  ASSUME NEW m, NEW g, NEW a, NEW h, NEW b, NEW k, NEW o, NEW v, Tree(m.tables, g),
         Quiet(m, g, a, h, o, v), Quiet(a, h, b, k, o, v)
  PROVE  Quiet(m, g, b, k, o, v)
<1>1. Later(m, g, b, k, {o}, {v})
  BY LaterTrans DEF Quiet
<1>2. GuardedKept(m.tables, g, b.tables, k, {})
  BY DEF Quiet, GuardedKept, Guarded
<1>3. QED
  BY <1>1, <1>2 DEF Quiet

LEMMA NewTable ==
  ASSUME NEW m, NEW g, NEW R, Good(m, g, R), NEW d, NEW i, Vacant(m.tables, g, d, i),
         NEW c \in R, c # m.ipcPage, NEW entries, Filling(m.tables, g, d, i, entries),
         NEW v, g.lev[d] = 4 => i = Pml4Index(v),
         NEW a, IsMemory(a), SameElse(m, a), a.taken = m.taken, a.used = m.used,
         a.tables = Put(MakeTable(m.tables, c, entries), d, i, Entry(c)),
         NEW h, h = Extended(m.tables, g, d, i, c)
  PROVE  /\ Good(a, h, R \ {c})
         /\ Quiet(m, g, a, h, g.own[d], v)
         /\ Covered(m, g, R) => Covered(a, h, R \ {c})
         /\ Led(a.tables, h, g, d, i, c)
<1> DEFINE T == m.tables
           U == a.tables
<1>1. /\ Plain(m, c) /\ c \notin DOMAIN T /\ c \in m.taken /\ c \notin Image
      /\ c \in Nat /\ c # None /\ c \in Managed(m.ram)
  BY DEF Good, AsideOK, Plain, Managed, None
<1>2. Grown(T, d, i, c, entries, U)
  BY <1>1, PutGrown DEF Vacant
<1>3. Tree(T, g) /\ TablesTyped(T, g)
  BY DEF Good, Tree
<1>4. /\ Tree(U, h)
      /\ h.lev[c] = g.lev[d] - 1 /\ h.own[c] = g.own[d] /\ h.key[c] = Sub(g.key[d], i)
      /\ \A t \in DOMAIN T : h.lev[t] = g.lev[t] /\ h.own[t] = g.own[t] /\ h.key[t] = g.key[t]
  <2> HIDE DEF T, U
  <2> QED
    BY <1>1, <1>2, <1>3, TreeGrows DEF T
<1>5. /\ DOMAIN U = DOMAIN T \cup {c} /\ U[c] = entries
      /\ \A t \in DOMAIN T \ {d} : U[t] = T[t]
      /\ DOMAIN U[d] = DOMAIN T[d] \cup {i} /\ U[d][i] = Entry(c)
      /\ \A j \in DOMAIN T[d] \ {i} : U[d][j] = T[d][j]
  BY <1>2 DEF Grown
<1>6. d \in DOMAIN T /\ i \in Idx /\ g.lev[d] > 1 /\ g.key[d] \in Nat
  BY <1>3 DEF Vacant, TablesTyped
<1> HIDE DEF T, U
<1>7. \A t \in DOMAIN U : \A j \in DOMAIN U[t] : Guarded(U, h, t, j) =>
        /\ t \in DOMAIN T /\ j \in DOMAIN T[t] /\ U[t] = T[t]
        /\ Guarded(T, g, t, j) /\ h.own[t] = g.own[t] /\ h.key[t] = g.key[t]
  <2> SUFFICES ASSUME NEW t \in DOMAIN U, NEW j \in DOMAIN U[t], Guarded(U, h, t, j)
               PROVE  /\ t \in DOMAIN T /\ j \in DOMAIN T[t] /\ U[t] = T[t]
                      /\ Guarded(T, g, t, j) /\ h.own[t] = g.own[t] /\ h.key[t] = g.key[t]
    OBVIOUS
  <2>1. t # d
    BY <1>4, <1>6 DEF Guarded
  <2>2. t # c
    <3> SUFFICES ASSUME t = c PROVE FALSE
      OBVIOUS
    <3>1. j \in DOMAIN entries
      BY <1>5
    <3>2. i \in DOMAIN T[d] /\ T[d][i].huge /\ j \in Idx
      BY <3>1 DEF Filling, T
    <3>3. HugeOK(g, d, i)
      BY <3>2, <1>3, <1>6 DEF TablesTyped
    <3>4. h.own[c] = KernelRoot /\ ~InHeapPart(Sub(h.key[c], j))
      BY <3>2, <3>3, <1>4 DEF HugeOK
    <3>5. InHeap(Sub(h.key[c], j)) => InHeapPart(Sub(h.key[c], j))
      <4>1. h.key[c] \in Nat
        BY <1>4, <1>6, SubNat
      <4>2. Sub(h.key[c], j) \in Nat
        BY <3>2, <4>1, SubNat
      <4>3. QED
        BY <4>2, KernelPage
    <3>6. QED
      BY <3>4, <3>5 DEF Guarded
  <2>3. QED
    BY <2>1, <2>2, <1>4, <1>5 DEF Guarded
<1>8. \A t \in DOMAIN T : \A j \in DOMAIN T[t] : Guarded(T, g, t, j) =>
        t \in DOMAIN U /\ j \in DOMAIN U[t] /\ U[t] = T[t] /\ Guarded(U, h, t, j)
  BY <1>4, <1>5, <1>6 DEF Guarded
<1>9. \A f : Plain(m, f) /\ f # c => Plain(a, f)
  BY <1>5 DEF Plain, SameElse, T, U
<1>10. Common(a) = Common(m) /\ \A w, f : Placed(a, w, f) <=> Placed(m, w, f)
  BY DEF Common, Placed, SameElse
<1>11. PagesOK(a, h, R \ {c})
  <2>1. PagesOK(m, g, R)
    BY DEF Good
  <2> SUFFICES ASSUME NEW t \in DOMAIN U, NEW j \in DOMAIN U[t], Guarded(U, h, t, j)
               PROVE  LET f == U[t][j].frame IN
                      IF f \in Common(a)
                      THEN h.own[t] # KernelRoot /\ Placed(a, Sub(h.key[t], j), f)
                      ELSE Plain(a, f) /\ f \notin R \ {c}
    BY Zenon DEF PagesOK, U
  <2>2. /\ t \in DOMAIN T /\ j \in DOMAIN T[t] /\ U[t] = T[t]
        /\ Guarded(T, g, t, j) /\ h.own[t] = g.own[t] /\ h.key[t] = g.key[t]
    BY <1>7
  <2>3. IF T[t][j].frame \in Common(m)
        THEN g.own[t] # KernelRoot /\ Placed(m, Sub(g.key[t], j), T[t][j].frame)
        ELSE Plain(m, T[t][j].frame) /\ T[t][j].frame \notin R
    BY <2>1, <2>2, Zenon DEF PagesOK, T
  <2>4. QED
    BY <2>2, <2>3, <1>9, <1>10
<1>12. PagesApart(a, h)
  <2>1. PagesApart(m, g)
    BY DEF Good
  <2>2. QED
    BY <2>1, <1>7, <1>10 DEF PagesApart, T, U
<1>13. TablesOK(a, h)
  BY <1>1, <1>4, <1>5 DEF Good, TablesOK, T, U, SameElse
<1>14. AsideOK(a, R \ {c})
  BY <1>9 DEF Good, AsideOK, SameElse
<1>15. Good(a, h, R \ {c})
  <2>1. Framed(a)
    BY DEF Good, Framed, SameElse
  <2>2. QED
    BY <2>1, <1>4, <1>11, <1>12, <1>13, <1>14 DEF Good, U
<1>16. Later(m, g, a, h, {g.own[d]}, {v})
  <2>1. Kept(T, g, U, h, {g.own[d]})
    BY <1>4, <1>5 DEF Kept
  <2>2. EntriesKept(T, g, U)
    <3>1. i \in DOMAIN T[d] => ~Leads(T, g, d, i)
      BY DEF Vacant, Leads, T
    <3>2. QED
      BY <3>1, <1>5 DEF EntriesKept
  <2>3. RootKept(T, g, U, {v})
    BY <1>5 DEF RootKept
  <2>4. LeavesKept(T, g, U, {v})
    BY <1>5, <1>6 DEF LeavesKept
  <2>5. GuardedKept(T, g, U, h, {v})
    BY <1>7, Zenon DEF GuardedKept
  <2>6. QED
    BY <2>1, <2>2, <2>3, <2>4, <2>5 DEF Later, Moved, T, U
<1>17. ASSUME Covered(m, g, R) PROVE Covered(a, h, R \ {c})
  <2> SUFFICES ASSUME NEW f \in a.taken \cap Managed(a.ram)
               PROVE  \/ f \in Image \/ f \in R \ {c} \/ f \in DOMAIN U
                      \/ \E t \in DOMAIN U : \E j \in DOMAIN U[t] :
                           Guarded(U, h, t, j) /\ U[t][j].frame = f
    BY Zenon DEF Covered, U
  <2>1. \/ f \in Image \/ f \in R \/ f \in DOMAIN T
        \/ \E t \in DOMAIN T : \E j \in DOMAIN T[t] :
             Guarded(T, g, t, j) /\ T[t][j].frame = f
    BY <1>17 DEF Covered, T, SameElse
  <2>2. QED
    BY <2>1, <1>5, <1>8
<1>18. Led(a.tables, h, g, d, i, c)
  BY <1>4, <1>5 DEF Led, U
<1>19. GuardedKept(T, g, U, h, {})
  BY <1>7, Zenon DEF GuardedKept
<1>20. QED
  BY <1>15, <1>16, <1>17, <1>18, <1>19 DEF Quiet, T, U

----------------------------------------------------------------------------
(* The functions that map a page.                                          *)

\* A table is allocated and goes below the table m.at, or nothing happens.
LEMMA AddTableSound ==
  ASSUME NEW m, NEW g, NEW R, Good(m, g, R), m.ok = TRUE, NEW i, Vacant(m.tables, g, m.at, i),
         NEW entries, Filling(m.tables, g, m.at, i, entries),
         NEW v, g.lev[m.at] = 4 => i = Pml4Index(v),
         NEW a, a = AddTable(AllocFrameBelow(m, TableTop), i, entries)
  PROVE  \E h : /\ Good(a, h, R) /\ Quiet(m, g, a, h, g.own[m.at], v)
                /\ Covered(m, g, R) => Covered(a, h, R)
                /\ a.at = m.at
                /\ a.ok = TRUE => Led(a.tables, h, g, m.at, i, a.got)
<1>0. PICK b, d : b = AllocFrameBelow(m, TableTop) /\ d = m.at
  OBVIOUS
<1>1. IsMemory(m) /\ Framed(m)
  BY DEF Good
<1>2. /\ IsMemory(b) /\ Framed(b) /\ SameElse(m, b)
      /\ b.tables = m.tables /\ b.ok = m.ok /\ b.at = m.at
      /\ \/ b.got = None /\ b.taken = m.taken
         \/ /\ b.got \in Free(m) /\ b.got \in Nat /\ b.got # None
            /\ b.taken = m.taken \cup {b.got}
  <2>1. PICK S : S = {f \in Free(m) : f < TableTop}
    OBVIOUS
  <2>2. S \subseteq Free(m) /\ b = TakeLowest(m, S)
    BY <1>0, <2>1 DEF AllocFrameBelow
  <2>3. QED
    BY <1>1, <2>2, TakeLowestSound
<1>3. CASE b.got = None /\ b.taken = m.taken
  <2>1. a = [b EXCEPT !.ok = FALSE]
    BY <1>0, <1>3 DEF AddTable
  <2>2. /\ IsMemory(a) /\ Framed(a) /\ SameElse(m, a) /\ a.tables = m.tables
        /\ a.taken = m.taken \cup {} /\ a.at = m.at /\ a.ok = FALSE
    BY <1>2, <1>3, <2>1 DEF IsMemory, Framed, SameElse
  <2>3. {} \subseteq Free(m)
    OBVIOUS
  <2>4. Good(a, g, R \cup {}) /\ (Covered(m, g, R) => Covered(a, g, R \cup {}))
    BY <2>2, <2>3, SetAside
  <2>5. R \cup {} = R
    OBVIOUS
  <2>6. Good(a, g, R) /\ (Covered(m, g, R) => Covered(a, g, R))
    BY <2>4, <2>5
  <2>7. QED
    BY <2>2, <2>6, QuietSelf
<1>4. CASE b.got # None
  <2>0. PICK c : c = b.got
    OBVIOUS
  <2>1. c \in Free(m) /\ c \in Nat /\ b.taken = m.taken \cup {c}
    BY <1>2, <1>4, <2>0
  <2>2. a = [b EXCEPT !.tables = Put(MakeTable(b.tables, c, entries), d, i, Entry(c))]
    BY <1>0, <1>2, <1>4, <2>0 DEF AddTable
  <2>3. {c} \subseteq Free(m)
    BY <2>1
  <2>4. /\ Good(b, g, R \cup {c})
        /\ {c} \cap (R \cup DOMAIN m.tables \cup Image \cup m.taken) = {}
        /\ Covered(m, g, R) => Covered(b, g, R \cup {c})
    BY <1>2, <2>1, <2>3, SetAside
  <2>5. c # b.ipcPage
    <3>1. AsideOK(m, R)
      BY Zenon DEF Good
    <3>2. c # None
      BY <1>4, <2>0
    <3>3. QED
      BY <3>1, <3>2, <2>4, <1>2 DEF AsideOK, SameElse
  <2>6. /\ IsMemory(a) /\ SameElse(b, a) /\ a.taken = b.taken /\ a.used = b.used
        /\ a.tables = Put(MakeTable(b.tables, c, entries), d, i, Entry(c))
        /\ a.at = b.at /\ a.got = c
    BY <1>2, <2>0, <2>2 DEF IsMemory, SameElse
  <2>7. Vacant(b.tables, g, d, i) /\ Filling(b.tables, g, d, i, entries)
    BY <1>0, <1>2
  <2>8. c \in R \cup {c}
    OBVIOUS
  <2>a. PICK h : h = Extended(b.tables, g, d, i, c)
    OBVIOUS
  <2>9. /\ Good(a, h, (R \cup {c}) \ {c})
        /\ Quiet(b, g, a, h, g.own[d], v)
        /\ Covered(b, g, R \cup {c}) => Covered(a, h, (R \cup {c}) \ {c})
        /\ Led(a.tables, h, g, d, i, c)
    <3>0. PICK S : S = R \cup {c}
      OBVIOUS
    <3>1. Good(b, g, S) /\ c \in S
      BY <2>4, <3>0
    <3>2. g.lev[d] = 4 => i = Pml4Index(v)
      BY <1>0
    <3>3. /\ Good(a, h, S \ {c})
          /\ Quiet(b, g, a, h, g.own[d], v)
          /\ Covered(b, g, S) => Covered(a, h, S \ {c})
          /\ Led(a.tables, h, g, d, i, c)
      BY <3>1, <3>2, <2>5, <2>6, <2>7, <2>a, NewTable, ZenonT(90)
    <3>4. QED
      BY <3>0, <3>3
  <2>10. (R \cup {c}) \ {c} = R
    BY <2>4
  <2>11. /\ Good(a, h, R) /\ Quiet(b, g, a, h, g.own[d], v)
         /\ Covered(m, g, R) => Covered(a, h, R)
         /\ Led(a.tables, h, g, d, i, c)
    BY <2>4, <2>9, <2>10
  <2>12. Quiet(m, g, b, g, g.own[d], v)
    BY <1>2, QuietSelf
  <2>13. Tree(m.tables, g)
    BY Zenon DEF Good
  <2>14. Quiet(m, g, a, h, g.own[d], v)
    BY <2>11, <2>12, <2>13, QuietTrans
  <2>15. QED
    BY <1>0, <1>2, <2>0, <2>6, <2>11, <2>14
<1>5. QED
  BY <1>2, <1>3, <1>4

LEMMA AtKept ==
  ASSUME NEW T, NEW g, NEW U, NEW h, NEW O, NEW V, Moved(T, g, U, h, O, V),
         NEW t, NEW o, NEW n, NEW k, AtTable(T, g, t, o, n, k)
  PROVE  AtTable(U, h, t, o, n, k)
BY DEF Moved, Kept, AtTable

\* The way down from the table m.at by entry i.
LEMMA DescendSound ==
  ASSUME NEW m, NEW g, NEW R, Good(m, g, R), NEW o, NEW n \in 2 .. 4,
         NEW k, NEW i \in Idx, NEW v, AtRoot(n, o, i, v),
         m.ok = TRUE => /\ AtTable(m.tables, g, m.at, o, n, k)
                        /\ Small(m.tables, m.at, i),
         NEW a, a = GetOrCreateTable(m, i)
  PROVE  \E h : /\ Good(a, h, R) /\ Quiet(m, g, a, h, o, v)
                /\ Covered(m, g, R) => Covered(a, h, R)
                /\ a.ok = TRUE => m.ok = TRUE /\ Under(a.tables, h, a.at, o, n, k, i)
<1>0. /\ IsMemory(m) /\ Tree(m.tables, g) /\ TablesTyped(m.tables, g)
      /\ TablesLead(m.tables, g)
  BY Zenon DEF Good, Tree
<1>n. /\ n \in 2 .. 4
      /\ n = 4 => i = Pml4Index(v) /\ (o = KernelRoot \/ i \in UserHalf)
  BY DEF AtRoot
<1>1. CASE m.ok = FALSE
  <2>1. a = m
    BY <1>1 DEF GetOrCreateTable
  <2>2. Quiet(m, g, a, g, o, v)
    BY <2>1, QuietSelf DEF SameElse
  <2>3. QED
    BY <1>1, <2>1, <2>2
<1>2. CASE m.ok = TRUE /\ Present(m, m.at, i)
  <2>1. a = [m EXCEPT !.at = m.tables[m.at][i].frame]
    BY <1>2 DEF GetOrCreateTable
  <2>2. /\ IsMemory(a) /\ SameElse(m, a) /\ a.tables = m.tables /\ a.taken = m.taken
        /\ a.used = m.used /\ a.at = m.tables[m.at][i].frame
    BY <1>0, <2>1 DEF IsMemory, SameElse
  <2>3. Good(a, g, R)
    BY <2>2, GoodSame DEF SameElse
  <2>4. Covered(m, g, R) => Covered(a, g, R)
    BY <2>2 DEF Covered, SameElse
  <2>5. /\ AtTable(m.tables, g, m.at, o, n, k) /\ i \in DOMAIN m.tables[m.at]
        /\ ~m.tables[m.at][i].huge
    BY <1>2 DEF Present, Small
  <2>6. Leads(m.tables, g, m.at, i)
    BY <2>5, <1>n DEF Leads, AtTable
  <2>7. Below(m.tables, g, m.at, i)
    BY <1>0, <2>5, <2>6 DEF TablesLead, AtTable
  <2>8. OwnerBelow(g, m.at, i) = o
    BY <1>0, <1>n, <2>5, Bases DEF OwnerBelow, AtTable, TablesTyped
  <2>9. Under(a.tables, g, a.at, o, n, k, i)
    BY <1>n, <2>2, <2>5, <2>7, <2>8 DEF AtTable, Below, Under
  <2>10. Quiet(m, g, a, g, o, v)
    BY <2>2, QuietSelf
  <2>11. QED
    BY <1>2, <2>3, <2>4, <2>9, <2>10
<1>3. CASE m.ok = TRUE /\ ~Present(m, m.at, i)
  <2> DEFINE b == AddTable(AllocFrameBelow(m, TableTop), i, EmptyTable)
  <2>1. a = Enter(b)
    BY <1>3 DEF GetOrCreateTable
  <2>2. AtTable(m.tables, g, m.at, o, n, k) /\ i \notin DOMAIN m.tables[m.at]
    BY <1>3 DEF Present
  <2>3. g.lev[m.at] = 4 => m.at = o
    BY <1>0, <2>2 DEF AtTable, TablesTyped
  <2>4. Vacant(m.tables, g, m.at, i)
    BY <1>n, <2>2, <2>3 DEF Vacant, AtTable
  <2>5. Filling(m.tables, g, m.at, i, EmptyTable)
    BY DEF Filling, EmptyTable
  <2>6. g.lev[m.at] = 4 => i = Pml4Index(v)
    BY <1>n, <2>2 DEF AtTable
  <2>7. \E h : /\ Good(b, h, R) /\ Quiet(m, g, b, h, g.own[m.at], v)
               /\ Covered(m, g, R) => Covered(b, h, R)
               /\ b.at = m.at
               /\ b.ok = TRUE => Led(b.tables, h, g, m.at, i, b.got)
    BY <1>3, <2>4, <2>5, <2>6, AddTableSound
  <2> HIDE DEF b
  <2>8. PICK h : /\ Good(b, h, R) /\ Quiet(m, g, b, h, o, v)
                 /\ Covered(m, g, R) => Covered(b, h, R)
                 /\ b.ok = TRUE => Led(b.tables, h, g, m.at, i, b.got)
    BY <2>2, <2>7 DEF AtTable
  <2>9. IsMemory(b)
    BY <2>8, Zenon DEF Good
  <2>10. /\ IsMemory(a) /\ SameElse(b, a) /\ a.tables = b.tables /\ a.taken = b.taken
         /\ a.used = b.used /\ a.ok = b.ok /\ (b.ok = TRUE => a.at = b.got)
    BY <2>1, <2>9 DEF Enter, IsMemory, SameElse
  <2>11. Good(a, h, R)
    BY <2>8, <2>10, GoodSame DEF SameElse
  <2>12. Covered(b, h, R) => Covered(a, h, R)
    BY <2>10 DEF Covered, SameElse
  <2>13. Quiet(b, h, a, h, o, v)
    BY <2>10, QuietSelf
  <2>14. Quiet(m, g, a, h, o, v)
    BY <1>0, <2>8, <2>13, QuietTrans
  <2>15. a.ok = TRUE => Under(a.tables, h, a.at, o, n, k, i)
    BY <1>n, <2>2, <2>8, <2>10 DEF AtTable, Led, Under
  <2>16. QED
    BY <1>3, <2>8, <2>11, <2>12, <2>14, <2>15
<1>4. QED
  BY <1>0, <1>1, <1>2, <1>3 DEF IsMemory

LEMMA SplitSound ==
  ASSUME NEW m, NEW g, NEW R, Good(m, g, R), NEW o, NEW k,
         NEW i \in Idx, NEW v, m.ok = TRUE => AtTable(m.tables, g, m.at, o, 2, k),
         NEW a, a = SplitHuge(m, i)
  PROVE  \E h : /\ Good(a, h, R) /\ Quiet(m, g, a, h, o, v)
                /\ Covered(m, g, R) => Covered(a, h, R)
                /\ a.ok = TRUE => /\ m.ok = TRUE /\ AtTable(a.tables, h, a.at, o, 2, k)
                           /\ Small(a.tables, a.at, i)
<1>0. /\ IsMemory(m) /\ Tree(m.tables, g) /\ TablesTyped(m.tables, g)
  BY Zenon DEF Good, Tree
<1>1. CASE m.ok = TRUE /\ Present(m, m.at, i) /\ m.tables[m.at][i].huge
  <2>0. PICK entries : entries = [l \in Idx |-> Entry(m.tables[m.at][i].frame + l)]
    OBVIOUS
  <2>1. a = AddTable(AllocFrameBelow(m, TableTop), i, entries)
    BY <1>1, <2>0 DEF SplitHuge
  <2>2. /\ AtTable(m.tables, g, m.at, o, 2, k) /\ i \in DOMAIN m.tables[m.at]
        /\ m.tables[m.at][i].huge
    BY <1>1 DEF Present
  <2>3. Vacant(m.tables, g, m.at, i)
    BY <2>2 DEF Vacant, AtTable
  <2>4. m.tables[m.at][i].frame \in Nat
    BY <1>0, <2>2 DEF TablesTyped, AtTable
  <2>5. \A l \in Idx : \E f \in Nat : entries[l] = Entry(f)
    <3> SUFFICES ASSUME NEW l \in Idx PROVE \E f \in Nat : entries[l] = Entry(f)
      OBVIOUS
    <3>1. m.tables[m.at][i].frame + l \in Nat
      BY <2>4 DEF Idx
    <3>2. QED
      BY <2>0, <3>1
  <2>6. Filling(m.tables, g, m.at, i, entries)
    BY <2>0, <2>2, <2>5 DEF Filling
  <2>7. g.lev[m.at] = 4 => i = Pml4Index(v)
    BY <2>2 DEF AtTable
  <2>8. PICK h : /\ Good(a, h, R) /\ Quiet(m, g, a, h, g.own[m.at], v)
                 /\ Covered(m, g, R) => Covered(a, h, R)
                 /\ a.at = m.at
                 /\ a.ok = TRUE => Led(a.tables, h, g, m.at, i, a.got)
    <3>1. PICK b : b = AddTable(AllocFrameBelow(m, TableTop), i, entries)
      OBVIOUS
    <3>2. m.ok = TRUE
      BY <1>1
    <3>3. \E h : /\ Good(b, h, R) /\ Quiet(m, g, b, h, g.own[m.at], v)
                 /\ Covered(m, g, R) => Covered(b, h, R)
                 /\ b.at = m.at
                 /\ b.ok = TRUE => Led(b.tables, h, g, m.at, i, b.got)
      BY <3>1, <3>2, <2>3, <2>6, <2>7, AddTableSound, ZenonT(90)
    <3>4. a = b
      BY <2>1, <3>1
    <3>5. QED
      BY <3>3, <3>4
  <2>9. g.own[m.at] = o
    BY <2>2 DEF AtTable
  <2>10. AtTable(a.tables, h, a.at, o, 2, k)
    BY <2>2, <2>8, AtKept DEF Quiet, Later
  <2>11. a.ok = TRUE => ~a.tables[a.at][i].huge
    BY <2>8 DEF Led, Entry
  <2>12. QED
    BY <1>1, <2>8, <2>9, <2>10, <2>11 DEF Small
<1>2. CASE ~(m.ok = TRUE /\ Present(m, m.at, i) /\ m.tables[m.at][i].huge)
  <2>1. a = m
    BY <1>2 DEF SplitHuge
  <2>2. Quiet(m, g, a, g, o, v)
    BY <2>1, QuietSelf DEF SameElse
  <2>3. QED
    BY <1>2, <2>1, <2>2 DEF Present, Small
<1>3. QED
  BY <1>1, <1>2

LEMMA PutChanged ==
  ASSUME NEW T, NEW t \in DOMAIN T, NEW i, NEW f
  PROVE  Changed(T, t, i, f, Put(T, t, i, Entry(f)))
<1>1. PICK U : U = Put(T, t, i, Entry(f))
  OBVIOUS
<1>2. U = [T EXCEPT ![t] = [x \in DOMAIN T[t] \cup {i} |-> IF x = i THEN Entry(f) ELSE T[t][x]]]
  BY <1>1 DEF Put
<1>3. DOMAIN U = DOMAIN T /\ \A s \in DOMAIN T \ {t} : U[s] = T[s]
  BY <1>2
<1>4. U[t] = [x \in DOMAIN T[t] \cup {i} |-> IF x = i THEN Entry(f) ELSE T[t][x]]
  BY <1>2
<1>5. Changed(T, t, i, f, U)
  BY <1>3, <1>4 DEF Changed
<1>6. QED
  BY <1>1, <1>5

LEMMA TreeChanged ==
  ASSUME NEW T, NEW g, Tree(T, g), NEW t \in DOMAIN T, g.lev[t] = 1, NEW i \in Idx, NEW f \in Nat,
         NEW U, Changed(T, t, i, f, U)
  PROVE  Tree(U, g)
<1>1. TablesTyped(T, g) /\ TablesLead(T, g) /\ TablesFound(T, g) /\ TablesApart(T, g)
  BY DEF Tree
<1>2. /\ DOMAIN U = DOMAIN T /\ \A s \in DOMAIN T \ {t} : U[s] = T[s]
      /\ DOMAIN U[t] = DOMAIN T[t] \cup {i} /\ U[t][i] = Entry(f)
      /\ \A j \in DOMAIN T[t] \ {i} : U[t][j] = T[t][j]
  BY DEF Changed
<1>3. TablesTyped(U, g)
  <2>1. /\ KernelRoot \in DOMAIN U
        /\ \A s \in DOMAIN U :
             /\ g.lev[s] \in 1 .. 4 /\ g.own[s] \in DOMAIN U /\ g.key[s] \in Nat
             /\ g.lev[g.own[s]] = 4
             /\ g.lev[s] = 4 => g.own[s] = s /\ g.key[s] = 0
        /\ g.lev[KernelRoot] = 4
        /\ \A s \in DOMAIN U : DOMAIN U[s] \subseteq Idx
    BY <1>1, <1>2 DEF TablesTyped
  <2>2. ASSUME NEW s \in DOMAIN U, NEW j \in DOMAIN U[s]
        PROVE  /\ U[s][j] = [frame |-> U[s][j].frame, huge |-> U[s][j].huge]
               /\ U[s][j].frame \in Nat
               /\ U[s][j].huge \in BOOLEAN
               /\ U[s][j].huge => HugeOK(g, s, j)
    <3>1. CASE s = t /\ j = i
      <4>1. U[s][j] = [frame |-> f, huge |-> FALSE]
        BY <3>1, <1>2 DEF Entry
      <4>2. QED
        BY <4>1
    <3>2. CASE ~(s = t /\ j = i)
      <4>1. s \in DOMAIN T /\ j \in DOMAIN T[s] /\ U[s][j] = T[s][j]
        BY <3>2, <1>2
      <4>2. /\ T[s][j] = [frame |-> T[s][j].frame, huge |-> T[s][j].huge]
            /\ T[s][j].frame \in Nat
            /\ T[s][j].huge \in BOOLEAN
            /\ T[s][j].huge => HugeOK(g, s, j)
        BY <4>1, <1>1, Zenon DEF TablesTyped
      <4>3. QED
        BY <4>1, <4>2
    <3>3. QED
      BY <3>1, <3>2
  <2>3. QED
    BY <2>1, <2>2 DEF TablesTyped
<1>4. \A s \in DOMAIN T : g.lev[s] > 1 => U[s] = T[s]
  BY <1>2
<1>5. TablesLead(U, g)
  BY <1>1, <1>2, <1>4 DEF TablesLead, Leads, Below, OwnerBelow
<1>6. TablesFound(U, g)
  <2> SUFFICES ASSUME NEW c \in DOMAIN U, g.lev[c] # 4
               PROVE  \E s \in DOMAIN U : \E j \in Idx : FoundAt(U, g, c, s, j)
    BY DEF TablesFound
  <2>1. PICK s \in DOMAIN T, j \in Idx : FoundAt(T, g, c, s, j)
    BY <1>1, <1>2 DEF TablesFound
  <2>2. FoundAt(U, g, c, s, j)
    BY <2>1, <1>2, <1>4 DEF FoundAt, Leads
  <2>3. QED
    BY <2>2, <1>2
<1>7. TablesApart(U, g)
  BY <1>1, <1>2 DEF TablesApart
<1>8. QED
  BY <1>3, <1>5, <1>6, <1>7 DEF Tree

LEMMA LeafMoved ==
  ASSUME NEW T, NEW g, Tree(T, g), NEW o, NEW k, NEW t, AtTable(T, g, t, o, 1, k),
         NEW i \in Idx, NEW f, NEW U, Changed(T, t, i, f, U)
  PROVE  Moved(T, g, U, g, {o}, {Sub(k, i)})
<1>0. t \in DOMAIN T /\ g.lev[t] = 1 /\ g.own[t] = o /\ g.key[t] = k
  BY DEF AtTable
<1>1. TablesTyped(T, g)
  BY DEF Tree
<1>2. /\ DOMAIN U = DOMAIN T /\ \A s \in DOMAIN T \ {t} : U[s] = T[s]
      /\ DOMAIN U[t] = DOMAIN T[t] \cup {i} /\ U[t][i] = Entry(f)
      /\ \A j \in DOMAIN T[t] \ {i} : U[t][j] = T[t][j]
  BY DEF Changed
<1>3. Kept(T, g, U, g, {o})
  BY <1>0, <1>2 DEF Kept
<1>4. EntriesKept(T, g, U)
  BY <1>0, <1>2 DEF EntriesKept, Leads
<1>5. RootKept(T, g, U, {Sub(k, i)})
  BY <1>0, <1>2 DEF RootKept
<1>6. LeavesKept(T, g, U, {Sub(k, i)})
  <2> SUFFICES ASSUME NEW s \in DOMAIN T, NEW j \in Idx, g.lev[s] = 1, Sub(g.key[s], j) # Sub(k, i)
               PROVE  /\ j \in DOMAIN U[s] <=> j \in DOMAIN T[s]
                      /\ j \in DOMAIN T[s] => U[s][j] = T[s][j]
    BY DEF LeavesKept
  <2>1. ~(s = t /\ j = i)
    BY <1>0
  <2>2. QED
    BY <2>1, <1>2
<1>7. GuardedKept(T, g, U, g, {Sub(k, i)})
  <2> SUFFICES ASSUME NEW s \in DOMAIN U, NEW j \in DOMAIN U[s], Guarded(U, g, s, j),
                      Sub(g.key[s], j) # Sub(k, i)
               PROVE  Guarded(T, g, s, j)
    BY DEF GuardedKept
  <2>1. ~(s = t /\ j = i)
    BY <1>0
  <2>2. j \in DOMAIN T[s]
    BY <2>1, <1>2
  <2>3. QED
    BY <2>2, <1>2 DEF Guarded
<1>8. QED
  BY <1>3, <1>4, <1>5, <1>6, <1>7 DEF Moved

LEMMA LeafSound ==
  ASSUME NEW m, NEW g, NEW R, Good(m, g, R), NEW o, NEW k, NEW i \in Idx, NEW f \in Nat,
         NEW t, t = m.at, AtTable(m.tables, g, t, o, 1, k), NEW v, v = Sub(k, i),
         May(m, o, v, f, R), NEW S, S = Rest(m, o, v, f, R),
         NEW a, IsMemory(a), SameElse(m, a), a.taken = m.taken, a.used = m.used,
         Changed(m.tables, t, i, f, a.tables)
  PROVE  /\ Good(a, g, S) /\ Later(m, g, a, g, {o}, {v}) /\ Leaf(a.tables, g, o, v, f)
         /\ Covered(m, g, R) /\ Fresh(m.tables, g, o, v) => Covered(a, g, S)
<1> DEFINE T == m.tables
           U == a.tables
<1>0. t \in DOMAIN T /\ g.lev[t] = 1 /\ g.own[t] = o /\ g.key[t] = k
  BY DEF AtTable
<1>1. /\ DOMAIN U = DOMAIN T /\ \A s \in DOMAIN T \ {t} : U[s] = T[s]
      /\ DOMAIN U[t] = DOMAIN T[t] \cup {i} /\ U[t][i] = Entry(f)
      /\ \A j \in DOMAIN T[t] \ {i} : U[t][j] = T[t][j]
  BY DEF Changed
<1>2. /\ IsMemory(m) /\ Framed(m) /\ Tree(T, g) /\ PagesOK(m, g, R) /\ PagesApart(m, g)
      /\ TablesOK(m, g) /\ AsideOK(m, R)
  BY Zenon DEF Good
<1>3. Tree(U, g)
  BY <1>0, <1>2, TreeChanged
<1>4. Moved(T, g, U, g, {o}, {v})
  BY <1>2, LeafMoved
<1> HIDE DEF T, U
<1>5. U[t][i].frame = f /\ i \in DOMAIN U[t]
  BY <1>1 DEF Entry
<1>6. ASSUME NEW s \in DOMAIN U, NEW j \in DOMAIN U[s], ~(s = t /\ j = i)
      PROVE  /\ s \in DOMAIN T /\ j \in DOMAIN T[s] /\ U[s][j] = T[s][j]
             /\ Guarded(U, g, s, j) <=> Guarded(T, g, s, j)
  <2>1. s \in DOMAIN T /\ j \in DOMAIN T[s] /\ U[s][j] = T[s][j]
    BY <1>1, <1>6
  <2>2. Guarded(U, g, s, j) <=> Guarded(T, g, s, j)
    BY <2>1, <1>6 DEF Guarded
  <2>3. QED
    BY <2>1, <2>2
<1>7. Guarded(U, g, t, i) <=> Guards(o, v)
  BY <1>0, <1>1 DEF Guarded, Guards
<1>8. S \subseteq R /\ (Guards(o, v) /\ f \notin Common(m) => f \notin S /\ f \in R)
  BY DEF Rest, May
<1>9. Common(a) = Common(m) /\ \A w, x : Placed(a, w, x) <=> Placed(m, w, x)
  BY DEF Common, Placed, SameElse
<1>10. \A x : Plain(m, x) <=> Plain(a, x)
  BY <1>1 DEF Plain, SameElse, T, U
<1>11. PagesOK(a, g, S)
  <2> SUFFICES ASSUME NEW s \in DOMAIN U, NEW j \in DOMAIN U[s], Guarded(U, g, s, j)
               PROVE  LET x == U[s][j].frame IN
                      IF x \in Common(a)
                      THEN g.own[s] # KernelRoot /\ Placed(a, Sub(g.key[s], j), x)
                      ELSE Plain(a, x) /\ x \notin S
    BY Zenon DEF PagesOK, U
  <2>1. CASE s = t /\ j = i
    <3>1. Guards(o, v) /\ U[s][j].frame = f /\ g.own[s] = o /\ Sub(g.key[s], j) = v
      BY <2>1, <1>0, <1>5, <1>7
    <3>2. f \in Common(m) => o # KernelRoot /\ Placed(m, v, f)
      BY <3>1 DEF May
    <3>3. f \notin Common(m) => Plain(m, f) /\ f \notin S
      BY <3>1, <1>2, <1>8 DEF AsideOK
    <3>4. QED
      BY <3>1, <3>2, <3>3, <1>9, <1>10
  <2>2. CASE ~(s = t /\ j = i)
    <3>1. /\ s \in DOMAIN T /\ j \in DOMAIN T[s] /\ U[s][j] = T[s][j]
          /\ Guarded(T, g, s, j)
      BY <2>2, <1>6
    <3>2. IF T[s][j].frame \in Common(m)
          THEN g.own[s] # KernelRoot /\ Placed(m, Sub(g.key[s], j), T[s][j].frame)
          ELSE Plain(m, T[s][j].frame) /\ T[s][j].frame \notin R
      BY <3>1, <1>2, Zenon DEF PagesOK, T
    <3>3. QED
      BY <3>1, <3>2, <1>8, <1>9, <1>10
  <2>3. QED
    BY <2>1, <2>2
<1>12. ASSUME NEW s \in DOMAIN T, NEW j \in DOMAIN T[s], Guarded(T, g, s, j), T[s][j].frame = f,
              Guards(o, v)
       PROVE  f \in Common(m)
  <2>1. f \notin Common(m) => f \in R
    BY <1>12, <1>8
  <2>2. f \notin Common(m) => f \notin R
    BY <1>12, <1>2, Zenon DEF PagesOK, T
  <2>3. QED
    BY <2>1, <2>2
<1>13. PagesApart(a, g)
  <2> SUFFICES ASSUME NEW s \in DOMAIN U, NEW q \in DOMAIN U, NEW j \in DOMAIN U[s], NEW l \in DOMAIN U[q],
                      Guarded(U, g, s, j), Guarded(U, g, q, l), U[s][j].frame = U[q][l].frame,
                      U[s][j].frame \notin Common(m)
               PROVE  s = q /\ j = l
    BY <1>9 DEF PagesApart, U
  <2>1. CASE s = t /\ j = i /\ ~(q = t /\ l = i)
    BY <2>1, <1>5, <1>6, <1>7, <1>12
  <2>2. CASE q = t /\ l = i /\ ~(s = t /\ j = i)
    BY <2>2, <1>5, <1>6, <1>7, <1>12
  <2>3. CASE ~(q = t /\ l = i) /\ ~(s = t /\ j = i)
    <3>1. /\ s \in DOMAIN T /\ j \in DOMAIN T[s] /\ U[s][j] = T[s][j] /\ Guarded(T, g, s, j)
          /\ q \in DOMAIN T /\ l \in DOMAIN T[q] /\ U[q][l] = T[q][l] /\ Guarded(T, g, q, l)
      BY <2>3, <1>6
    <3>2. QED
      BY <3>1, <1>2 DEF PagesApart, T
  <2>4. QED
    BY <2>1, <2>2, <2>3
<1>14. TablesOK(a, g)
  BY <1>1, <1>2 DEF TablesOK, SameElse, T, U
<1>15. AsideOK(a, S)
  <2>1. m.ipcPage # None => m.ipcPage \in S
    BY <1>2 DEF AsideOK, Rest, Common
  <2>2. QED
    BY <2>1, <1>2, <1>8, <1>10 DEF AsideOK, SameElse
<1>16. Framed(a)
  BY <1>2 DEF Framed, SameElse
<1>17. Good(a, g, S)
  BY <1>3, <1>11, <1>13, <1>14, <1>15, <1>16 DEF Good, U
<1>18. Leaf(U, g, o, v, f)
  BY <1>0, <1>1, <1>5 DEF Leaf
<1>19. ASSUME Covered(m, g, R), Fresh(T, g, o, v)
       PROVE  Covered(a, g, S)
  <2> SUFFICES ASSUME NEW x \in m.taken \cap Managed(m.ram)
               PROVE  \/ x \in Image \/ x \in S \/ x \in DOMAIN U
                      \/ \E s \in DOMAIN U : \E j \in DOMAIN U[s] :
                           Guarded(U, g, s, j) /\ U[s][j].frame = x
    BY DEF Covered, U, SameElse
  <2>1. \/ x \in Image \/ x \in R \/ x \in DOMAIN T
        \/ \E s \in DOMAIN T : \E j \in DOMAIN T[s] : Guarded(T, g, s, j) /\ T[s][j].frame = x
    BY <1>19 DEF Covered, T
  <2>2. CASE x \in R
    <3>1. CASE x \in S
      BY <3>1
    <3>2. CASE x \notin S
      <4>1. Guards(o, v) /\ x = f
        BY <2>2, <3>2 DEF Rest
      <4>2. Guarded(U, g, t, i) /\ U[t][i].frame = x /\ i \in DOMAIN U[t] /\ t \in DOMAIN U
        BY <4>1, <1>0, <1>1, <1>5, <1>7
      <4>3. QED
        BY <4>2
    <3>3. QED
      BY <3>1, <3>2
  <2>3. ASSUME NEW s \in DOMAIN T, NEW j \in DOMAIN T[s], Guarded(T, g, s, j), T[s][j].frame = x
        PROVE  \E q \in DOMAIN U : \E l \in DOMAIN U[q] : Guarded(U, g, q, l) /\ U[q][l].frame = x
    <3>1. ~(s = t /\ j = i)
      BY <1>0, <1>19, <2>3 DEF Fresh
    <3>2. s \in DOMAIN U /\ j \in DOMAIN U[s]
      BY <3>1, <1>1
    <3>3. U[s][j] = T[s][j] /\ Guarded(U, g, s, j)
      BY <3>1, <3>2, <2>3, <1>6
    <3>4. QED
      BY <3>2, <3>3, <2>3
  <2>4. QED
    BY <2>1, <2>2, <2>3, <1>1
<1>20. Later(m, g, a, g, {o}, {v})
  BY <1>4 DEF Later, T, U
<1>21. QED
  BY <1>17, <1>18, <1>19, <1>20 DEF T, U

LEMMA FreshKept ==
  ASSUME NEW T, NEW g, NEW U, NEW h, NEW O, NEW V, Kept(T, g, U, h, O), GuardedKept(T, g, U, h, V),
         NEW o, NEW v, v \notin V, Fresh(T, g, o, v)
  PROVE  Fresh(U, h, o, v)
<1> SUFFICES ASSUME NEW t \in DOMAIN U, NEW i \in DOMAIN U[t], Guarded(U, h, t, i), h.own[t] = o,
                    Sub(h.key[t], i) = v
             PROVE  FALSE
  BY DEF Fresh
<1>1. Guarded(T, g, t, i)
  BY DEF GuardedKept
<1>2. t \in DOMAIN T /\ i \in DOMAIN T[t]
  BY <1>1 DEF Guarded
<1>3. g.own[t] = o /\ Sub(g.key[t], i) = v
  BY <1>2 DEF Kept
<1>4. QED
  BY <1>1, <1>2, <1>3 DEF Fresh

LEMMA MapPageSound ==
  ASSUME NEW m, NEW g, NEW R, Good(m, g, R), m.ok = TRUE, NEW o, NEW v,
         RootOf(m.tables, g, o, v), NEW f \in Nat, May(m, o, v, f, R),
         NEW a, a = MapPageIn(m, o, v, f)
  PROVE  Mapping(m, g, R, o, v, f, a)
<1>0. /\ v \in Pages /\ o \in DOMAIN m.tables /\ g.lev[o] = 4
      /\ o = KernelRoot \/ Pml4Index(v) \in UserHalf
  BY DEF RootOf
<1>1. PICK i4 \in Idx, i3 \in Idx, i2 \in Idx, i1 \in Idx :
        /\ i4 = Pml4Index(v) /\ i3 = PdptIndex(v) /\ i2 = PdIndex(v) /\ i1 = PtIndex(v)
        /\ Sub(Sub(Sub(Sub(0, i4), i3), i2), i1) = v
  BY <1>0, Digits DEF Pages
<1>2. PICK k3, k2, k1 : k3 = Sub(0, i4) /\ k2 = Sub(k3, i3) /\ k1 = Sub(k2, i2)
  OBVIOUS
<1>3. PICK m4, m3, m2, ms, m1 :
        /\ m4 = [m EXCEPT !.at = o] /\ m3 = GetOrCreateTable(m4, i4)
        /\ m2 = GetOrCreateTable(m3, i3) /\ ms = SplitHuge(m2, i2)
        /\ m1 = GetOrCreateTable(ms, i2)
  OBVIOUS
<1>4. a = SetEntry(m1, i1, f)
  BY <1>1, <1>3 DEF MapPageIn
<1>5. IsMemory(m) /\ Tree(m.tables, g) /\ TablesTyped(m.tables, g)
  BY Zenon DEF Good, Tree
<1>6. /\ IsMemory(m4) /\ SameElse(m, m4) /\ m4.tables = m.tables /\ m4.taken = m.taken
      /\ m4.used = m.used /\ m4.at = o /\ m4.ok = TRUE
  BY <1>3, <1>5 DEF IsMemory, SameElse
<1>7. Good(m4, g, R) /\ (Covered(m, g, R) => Covered(m4, g, R)) /\ Quiet(m, g, m4, g, o, v)
  <2>1. Good(m4, g, R)
    BY <1>6, GoodSame DEF SameElse
  <2>2. Covered(m, g, R) => Covered(m4, g, R)
    BY <1>6 DEF Covered, SameElse
  <2>3. QED
    BY <2>1, <2>2, <1>6, QuietSelf
<1>8. AtTable(m4.tables, g, o, o, 4, 0)
  BY <1>0, <1>5, <1>6 DEF AtTable, TablesTyped
<1>9. \A t \in DOMAIN m4.tables : g.lev[t] # 2 => \A i \in DOMAIN m4.tables[t] : ~m4.tables[t][i].huge
  BY <1>5, <1>6 DEF TablesTyped, HugeOK
<1>10. PICK g3 : /\ Good(m3, g3, R) /\ Quiet(m4, g, m3, g3, o, v)
                 /\ Covered(m4, g, R) => Covered(m3, g3, R)
                 /\ m3.ok = TRUE => m4.ok = TRUE /\ AtTable(m3.tables, g3, m3.at, o, 3, k3)
  <2>1. PICK n, k : n = 4 /\ k = 0
    OBVIOUS
  <2>2. m4.ok = TRUE => /\ AtTable(m4.tables, g, m4.at, o, n, k)
                        /\ Small(m4.tables, m4.at, i4)
    BY <2>1, <1>6, <1>8, <1>9 DEF AtTable, Small
  <2>3. AtRoot(n, o, i4, v) /\ n \in 2 .. 4
    BY <2>1, <1>0, <1>1 DEF AtRoot
  <2>4. \E h : /\ Good(m3, h, R) /\ Quiet(m4, g, m3, h, o, v)
               /\ Covered(m4, g, R) => Covered(m3, h, R)
               /\ m3.ok = TRUE => m4.ok = TRUE /\ Under(m3.tables, h, m3.at, o, n, k, i4)
    <3>1. m3 = GetOrCreateTable(m4, i4)
      BY <1>3
    <3>2. QED
      BY <3>1, <1>7, <2>2, <2>3, DescendSound
  <2>5. \A h : Under(m3.tables, h, m3.at, o, n, k, i4) => AtTable(m3.tables, h, m3.at, o, 3, k3)
    BY <2>1, <1>2 DEF Under
  <2>6. QED
    BY <2>4, <2>5
<1>11. TablesTyped(m3.tables, g3)
  BY <1>10, Zenon DEF Good, Tree
<1>12. PICK g2 : /\ Good(m2, g2, R) /\ Quiet(m3, g3, m2, g2, o, v)
                 /\ Covered(m3, g3, R) => Covered(m2, g2, R)
                 /\ m2.ok = TRUE => m3.ok = TRUE /\ AtTable(m2.tables, g2, m2.at, o, 2, k2)
  <2>1. PICK n : n = 3
    OBVIOUS
  <2>2. ASSUME AtTable(m3.tables, g3, m3.at, o, n, k3) PROVE Small(m3.tables, m3.at, i3)
    <3>1. m3.at \in DOMAIN m3.tables /\ g3.lev[m3.at] = 3
      BY <2>1, <2>2 DEF AtTable
    <3>2. i3 \in DOMAIN m3.tables[m3.at] /\ m3.tables[m3.at][i3].huge => g3.lev[m3.at] = 2
      BY <3>1, <1>11 DEF TablesTyped, HugeOK
    <3>3. QED
      BY <3>1, <3>2 DEF Small
  <2>3. m3.ok = TRUE => /\ AtTable(m3.tables, g3, m3.at, o, n, k3)
                        /\ Small(m3.tables, m3.at, i3)
    BY <2>1, <2>2, <1>10
  <2>4. AtRoot(n, o, i3, v) /\ n \in 2 .. 4
    BY <2>1 DEF AtRoot
  <2>5. \E h : /\ Good(m2, h, R) /\ Quiet(m3, g3, m2, h, o, v)
               /\ Covered(m3, g3, R) => Covered(m2, h, R)
               /\ m2.ok = TRUE => m3.ok = TRUE /\ Under(m2.tables, h, m2.at, o, n, k3, i3)
    <3>1. m2 = GetOrCreateTable(m3, i3)
      BY <1>3
    <3>2. QED
      BY <3>1, <1>10, <2>3, <2>4, DescendSound
  <2>6. \A h : Under(m2.tables, h, m2.at, o, n, k3, i3) => AtTable(m2.tables, h, m2.at, o, 2, k2)
    BY <2>1, <1>2 DEF Under
  <2>7. QED
    BY <2>5, <2>6
<1>13. PICK gs : /\ Good(ms, gs, R) /\ Quiet(m2, g2, ms, gs, o, v)
                 /\ Covered(m2, g2, R) => Covered(ms, gs, R)
                 /\ ms.ok = TRUE => /\ m2.ok = TRUE /\ AtTable(ms.tables, gs, ms.at, o, 2, k2)
                                    /\ Small(ms.tables, ms.at, i2)
  <2>1. /\ ms = SplitHuge(m2, i2) /\ Good(m2, g2, R)
        /\ m2.ok = TRUE => AtTable(m2.tables, g2, m2.at, o, 2, k2)
    BY <1>3, <1>12
  <2>2. QED
    BY <2>1, SplitSound
<1>14. PICK g1 : /\ Good(m1, g1, R) /\ Quiet(ms, gs, m1, g1, o, v)
                 /\ Covered(ms, gs, R) => Covered(m1, g1, R)
                 /\ m1.ok = TRUE => ms.ok = TRUE /\ AtTable(m1.tables, g1, m1.at, o, 1, k1)
  <2>1. PICK n : n = 2
    OBVIOUS
  <2>2. ms.ok = TRUE => /\ AtTable(ms.tables, gs, ms.at, o, n, k2)
                        /\ Small(ms.tables, ms.at, i2)
    BY <1>13, <2>1
  <2>3. AtRoot(n, o, i2, v) /\ n \in 2 .. 4
    BY <2>1 DEF AtRoot
  <2>4. \E h : /\ Good(m1, h, R) /\ Quiet(ms, gs, m1, h, o, v)
               /\ Covered(ms, gs, R) => Covered(m1, h, R)
               /\ m1.ok = TRUE => ms.ok = TRUE /\ Under(m1.tables, h, m1.at, o, n, k2, i2)
    <3>1. m1 = GetOrCreateTable(ms, i2)
      BY <1>3
    <3>2. QED
      BY <3>1, <1>13, <2>2, <2>3, DescendSound
  <2>5. \A h : Under(m1.tables, h, m1.at, o, n, k2, i2) => AtTable(m1.tables, h, m1.at, o, 1, k1)
    BY <2>1, <1>2 DEF Under
  <2>6. QED
    BY <2>4, <2>5
<1>15. Tree(m2.tables, g2) /\ Tree(m3.tables, g3) /\ Tree(ms.tables, gs) /\ Tree(m1.tables, g1)
  BY <1>10, <1>12, <1>13, <1>14, Zenon DEF Good
<1>16. Quiet(m, g, m1, g1, o, v)
  <2>1. Quiet(m, g, m3, g3, o, v)
    BY <1>5, <1>7, <1>10, QuietTrans
  <2>2. Quiet(m, g, m2, g2, o, v)
    BY <1>5, <2>1, <1>12, QuietTrans
  <2>3. Quiet(m, g, ms, gs, o, v)
    BY <1>5, <2>2, <1>13, QuietTrans
  <2>4. QED
    BY <1>5, <2>3, <1>14, QuietTrans
<1>17. Covered(m, g, R) => Covered(m1, g1, R)
  BY <1>7, <1>10, <1>12, <1>13, <1>14
<1>18. IsMemory(m1) /\ SameElse(m, m1)
  BY <1>14, <1>16, Zenon DEF Good, Quiet, Later
<1>19. CASE m1.ok = FALSE
  <2>1. a = m1
    BY <1>4, <1>19 DEF SetEntry
  <2>2. Later(m, g, a, g1, {o}, {v})
    BY <1>16, <2>1 DEF Quiet
  <2>3. Good(a, g1, R) /\ a.ok = FALSE /\ (Covered(m, g, R) => Covered(a, g1, R))
    BY <1>14, <1>17, <1>19, <2>1
  <2>4. QED
    BY <2>2, <2>3 DEF Mapping
<1>20. CASE m1.ok = TRUE
  <2>1. a = [m1 EXCEPT !.tables = Put(m1.tables, m1.at, i1, Entry(f))]
    BY <1>4, <1>20 DEF SetEntry
  <2>2. /\ IsMemory(a) /\ SameElse(m1, a) /\ a.taken = m1.taken /\ a.used = m1.used
        /\ a.tables = Put(m1.tables, m1.at, i1, Entry(f)) /\ a.ok = TRUE
    BY <2>1, <1>18, <1>20 DEF IsMemory, SameElse
  <2>3. PICK t : t = m1.at
    OBVIOUS
  <2>4. AtTable(m1.tables, g1, t, o, 1, k1)
    BY <1>14, <1>20, <2>3
  <2>5. Changed(m1.tables, t, i1, f, a.tables)
    BY <2>2, <2>3, <2>4, PutChanged DEF AtTable
  <2>6. v = Sub(k1, i1)
    BY <1>1, <1>2
  <2>7. Common(m1) = Common(m) /\ (Placed(m1, v, f) <=> Placed(m, v, f))
    BY <1>18 DEF Common, Placed, SameElse
  <2>8. May(m1, o, v, f, R) /\ Rest(m1, o, v, f, R) = Rest(m, o, v, f, R)
    BY <2>7 DEF May, Rest
  <2>9. PICK S : S = Rest(m1, o, v, f, R)
    OBVIOUS
  <2>10. /\ Good(a, g1, S) /\ Later(m1, g1, a, g1, {o}, {v}) /\ Leaf(a.tables, g1, o, v, f)
         /\ Covered(m1, g1, R) /\ Fresh(m1.tables, g1, o, v) => Covered(a, g1, S)
    <3>1. PICK b : b = a
      OBVIOUS
    <3>2. /\ IsMemory(b) /\ SameElse(m1, b) /\ b.taken = m1.taken /\ b.used = m1.used
          /\ Changed(m1.tables, t, i1, f, b.tables)
      BY <2>2, <2>5, <3>1
    <3>3. Good(m1, g1, R)
      BY <1>14
    <3>4. May(m1, o, v, f, R)
      BY <2>8
    <3>5. /\ Good(b, g1, S) /\ Later(m1, g1, b, g1, {o}, {v}) /\ Leaf(b.tables, g1, o, v, f)
          /\ Covered(m1, g1, R) /\ Fresh(m1.tables, g1, o, v) => Covered(b, g1, S)
      BY <2>3, <2>4, <2>6, <2>9, <3>2, <3>3, <3>4, LeafSound
    <3>6. QED
      BY <3>1, <3>5
  <2>11. Fresh(m.tables, g, o, v) => Fresh(m1.tables, g1, o, v)
    <3>1. Kept(m.tables, g, m1.tables, g1, {o}) /\ GuardedKept(m.tables, g, m1.tables, g1, {})
      BY <1>16 DEF Quiet, Later, Moved
    <3>2. QED
      BY <3>1, FreshKept
  <2>12. Later(m, g, a, g1, {o}, {v})
    BY <1>5, <1>16, <2>10, LaterTrans DEF Quiet
  <2>13. S = Rest(m, o, v, f, R) /\ a.ok = TRUE
    BY <2>2, <2>8, <2>9
  <2>14. Covered(m, g, R) /\ Fresh(m.tables, g, o, v) => Covered(a, g1, S)
    BY <1>17, <2>10, <2>11
  <2>15. QED
    BY <2>10, <2>12, <2>13, <2>14, Zenon DEF Mapping
<1>21. QED
  BY <1>18, <1>19, <1>20 DEF IsMemory

----------------------------------------------------------------------------
(* The way from a root to a table, and what an address space maps.         *)

LEMMA StepUp ==
  ASSUME NEW T, NEW g, Tree(T, g), NEW c, NEW o, NEW n \in 1 .. 3, NEW k, AtTable(T, g, c, o, n, k)
  PROVE  StepsUp(T, g, c, o, n, k)
<1>1. TablesTyped(T, g) /\ TablesLead(T, g) /\ TablesFound(T, g)
  BY DEF Tree
<1>2. c \in DOMAIN T /\ g.lev[c] = n /\ g.own[c] = o /\ g.key[c] = k
  BY DEF AtTable
<1>3. PICK t \in DOMAIN T, i \in Idx : FoundAt(T, g, c, t, i)
  BY <1>1, <1>2 DEF TablesFound
<1>4. /\ Leads(T, g, t, i) /\ T[t][i].frame = c /\ g.own[t] = o /\ i \in DOMAIN T[t]
      /\ ~T[t][i].huge
  BY <1>2, <1>3 DEF FoundAt, Leads
<1>5. Below(T, g, t, i)
  BY <1>1, <1>4 DEF TablesLead
<1>6. Leading(T, t, i, c)
  BY <1>4 DEF Leading
<1>7. g.lev[t] \in 1 .. 4 /\ g.key[t] \in Nat /\ (g.lev[t] = 4 => g.own[t] = t /\ g.key[t] = 0)
  BY <1>1 DEF TablesTyped
<1>8. g.lev[t] = n + 1 /\ k = Sub(g.key[t], i) /\ o = OwnerBelow(g, t, i)
  BY <1>2, <1>4, <1>5, <1>7 DEF Below
<1>9. n = 3 => t = o /\ g.key[t] = 0 /\ (o = KernelRoot \/ i \in UserHalf)
  BY <1>4, <1>7, <1>8, Bases DEF OwnerBelow
<1>10. AtTable(T, g, t, o, n + 1, g.key[t])
  BY <1>4, <1>8 DEF AtTable
<1>11. AtTop(n, t, o, i, g.key[t])
  BY <1>9 DEF AtTop
<1>12. QED
  BY <1>6, <1>7, <1>8, <1>10, <1>11 DEF StepsUp

LEMMA StepUpOne ==
  ASSUME NEW T, NEW g, Tree(T, g), NEW c, NEW o, NEW k, AtTable(T, g, c, o, 1, k)
  PROVE  \E t, i, j : /\ Leading(T, t, i, c) /\ AtTable(T, g, t, o, 2, j) /\ k = Sub(j, i)
                      /\ j \in Nat /\ i \in Idx
<1>1. PICK n : n = 1 /\ n \in 1 .. 3 /\ n + 1 = 2
  OBVIOUS
<1>2. AtTable(T, g, c, o, n, k)
  BY <1>1
<1>3. StepsUp(T, g, c, o, n, k)
  <2>1. n \in 1 .. 3
    BY <1>1
  <2>2. QED
    BY <2>1, <1>2, StepUp
<1>4. QED
  BY <1>1, <1>3 DEF StepsUp

LEMMA WayFound ==
  ASSUME NEW T, NEW g, Tree(T, g), NEW t1, NEW o, NEW k1, AtTable(T, g, t1, o, 1, k1),
         NEW v \in Pages, NEW i1 \in Idx, v = Sub(k1, i1)
  PROVE  /\ i1 = PtIndex(v)
         /\ \E t3, t2 : Way(T, g, o, v, t3, t2, t1)
<1>1. PICK t2, i2, k2 : /\ Leading(T, t2, i2, t1) /\ AtTable(T, g, t2, o, 2, k2) /\ k1 = Sub(k2, i2)
                        /\ k2 \in Nat /\ i2 \in Idx
  BY StepUpOne
<1>2. PICK t3, i3, k3 : /\ Leading(T, t3, i3, t2) /\ AtTable(T, g, t3, o, 3, k3) /\ k2 = Sub(k3, i3)
                        /\ k3 \in Nat /\ i3 \in Idx
  <2>1. PICK n : n = 2 /\ n \in 1 .. 3 /\ n + 1 = 3
    OBVIOUS
  <2>2. AtTable(T, g, t2, o, n, k2)
    BY <1>1, <2>1
  <2>3. StepsUp(T, g, t2, o, n, k2)
    <3>1. n \in 1 .. 3
      BY <2>1
    <3>2. QED
      BY <3>1, <2>2, StepUp
  <2>4. QED
    BY <2>1, <2>3 DEF StepsUp
<1>3. PICK i4 \in Idx : /\ Leading(T, o, i4, t3) /\ k3 = Sub(0, i4)
                        /\ o = KernelRoot \/ i4 \in UserHalf
  <2>1. PICK n : n = 3 /\ n \in 1 .. 3 /\ n + 1 = 4
    OBVIOUS
  <2>2. AtTable(T, g, t3, o, n, k3)
    BY <1>2, <2>1
  <2>3. StepsUp(T, g, t3, o, n, k3)
    <3>1. n \in 1 .. 3
      BY <2>1
    <3>2. QED
      BY <3>1, <2>2, StepUp
  <2>4. QED
    BY <2>1, <2>3 DEF StepsUp, AtTop
<1>4. PICK d4 \in Idx, d3 \in Idx, d2 \in Idx, d1 \in Idx :
        /\ d4 = Pml4Index(v) /\ d3 = PdptIndex(v) /\ d2 = PdIndex(v) /\ d1 = PtIndex(v)
        /\ v = Sub(Sub(Sub(Sub(0, d4), d3), d2), d1)
  BY Digits DEF Pages
<1>5. PICK e3, e2, e1 : e3 = Sub(0, d4) /\ e2 = Sub(e3, d3) /\ e1 = Sub(e2, d2)
  OBVIOUS
<1>6. e3 \in Nat /\ e2 \in Nat /\ e1 \in Nat /\ k1 \in Nat
  <2>1. e3 \in Nat
    BY <1>5, SubNat
  <2>2. e2 \in Nat
    BY <1>5, <2>1, SubNat
  <2>3. e1 \in Nat
    BY <1>5, <2>2, SubNat
  <2>4. k1 \in Nat
    BY <1>1, SubNat
  <2>5. QED
    BY <2>1, <2>2, <2>3, <2>4
<1>7. k1 = e1 /\ i1 = d1
  <2>1. Sub(k1, i1) = Sub(e1, d1)
    BY <1>4, <1>5
  <2>2. QED
    BY <2>1, <1>6, SubInj
<1>8. k2 = e2 /\ i2 = d2
  <2>1. Sub(k2, i2) = Sub(e2, d2)
    BY <1>1, <1>5, <1>7
  <2>2. QED
    BY <2>1, <1>1, <1>6, SubInj
<1>9. k3 = e3 /\ i3 = d3
  <2>1. Sub(k3, i3) = Sub(e3, d3)
    BY <1>2, <1>5, <1>8
  <2>2. QED
    BY <2>1, <1>2, <1>6, SubInj
<1>10. i4 = d4
  <2>1. Sub(0, i4) = Sub(0, d4)
    BY <1>3, <1>5, <1>9
  <2>2. QED
    BY <2>1, SubInj
<1>11. Way(T, g, o, v, t3, t2, t1)
  <2>1. /\ Leading(T, o, Pml4Index(v), t3) /\ Leading(T, t3, PdptIndex(v), t2)
        /\ Leading(T, t2, PdIndex(v), t1)
        /\ o = KernelRoot \/ Pml4Index(v) \in UserHalf
    BY <1>1, <1>2, <1>3, <1>4, <1>8, <1>9, <1>10
  <2>2. \E x3, x2, x1 : /\ AtTable(T, g, t3, o, 3, x3) /\ AtTable(T, g, t2, o, 2, x2)
                        /\ AtTable(T, g, t1, o, 1, x1)
    BY <1>1, <1>2
  <2>3. QED
    BY <2>1, <2>2 DEF Way
<1>12. QED
  BY <1>4, <1>7, <1>11

\* The page that get_phys_in finds.
LEMMA WayRead ==
  ASSUME NEW m, NEW g, NEW R, Good(m, g, R), NEW o, NEW v \in Pages, NEW t3, NEW t2, NEW t1,
         Way(m.tables, g, o, v, t3, t2, t1)
  PROVE  GetPhysIn(m, o, v) = Child(m, t1, PtIndex(v))
<1>1. \A t \in DOMAIN m.tables : t # None
  <2>1. TablesOK(m, g)
    BY Zenon DEF Good
  <2>2. QED
    BY <2>1 DEF TablesOK
<1>2. /\ o \in DOMAIN m.tables /\ Pml4Index(v) \in DOMAIN m.tables[o]
      /\ m.tables[o][Pml4Index(v)].frame = t3
      /\ t3 \in DOMAIN m.tables /\ PdptIndex(v) \in DOMAIN m.tables[t3]
      /\ m.tables[t3][PdptIndex(v)].frame = t2
      /\ t2 \in DOMAIN m.tables /\ PdIndex(v) \in DOMAIN m.tables[t2]
      /\ m.tables[t2][PdIndex(v)].frame = t1 /\ ~m.tables[t2][PdIndex(v)].huge
  BY DEF Way, Leading
<1>3. Child(m, o, Pml4Index(v)) = t3
  BY <1>1, <1>2 DEF Child, Present
<1>4. Child(m, t3, PdptIndex(v)) = t2
  BY <1>1, <1>2 DEF Child, Present
<1>5. PdOf(m, o, v) = t2
  BY <1>3, <1>4 DEF PdOf
<1>6. t2 # None /\ PdIndex(v) \in DOMAIN m.tables[t2]
      /\ m.tables[t2][PdIndex(v)].frame = t1 /\ m.tables[t2][PdIndex(v)].huge = FALSE
  <2>1. TablesTyped(m.tables, g)
    BY Zenon DEF Good, Tree
  <2>2. m.tables[t2][PdIndex(v)].huge \in BOOLEAN
    BY <1>2, <2>1 DEF TablesTyped
  <2>3. QED
    BY <1>1, <1>2, <2>2
<1>7. PhysIn(m, t2, v) = Child(m, t1, PtIndex(v))
  BY <1>6 DEF PhysIn, Present
<1>8. QED
  BY <1>5, <1>7 DEF GetPhysIn

----------------------------------------------------------------------------
(* What an address space maps, and the tables it consists of.              *)

LEMMA SubLess ==
  ASSUME NEW a \in Nat, NEW b \in Nat, a < b, NEW i \in Idx
  PROVE  Sub(a, i) < b * W
<1>1. a * W + W <= b * W
  BY MulMono
<1>2. PICK x \in Int, y \in Int : x = a * W /\ y = b * W
  BY WBound
<1>3. i < W
  BY WBound DEF Idx
<1>4. x + i < y
  BY <1>1, <1>2, <1>3, WBound DEF Idx
<1>5. QED
  BY <1>2, <1>4 DEF Sub

\* Four digits make a page, and the first is the entry of the root it is in.
LEMMA SubPages ==
  ASSUME NEW i4 \in Idx, NEW i3 \in Idx, NEW i2 \in Idx, NEW i1 \in Idx,
         NEW v, v = Sub(Sub(Sub(Sub(0, i4), i3), i2), i1)
  PROVE  v \in Pages /\ Pml4Index(v) = i4
<1>1. PICK a3 \in Nat, a2 \in Nat, a1 \in Nat :
        a3 = Sub(0, i4) /\ a2 = Sub(a3, i3) /\ a1 = Sub(a2, i2)
  BY SubNat
<1>2. v = Sub(a1, i1)
  BY <1>1
<1>3. PICK b3 \in Nat, b2 \in Nat, b1 \in Nat : b3 = W /\ b2 = b3 * W /\ b1 = b2 * W
  BY WBound
<1>4. a3 < b3
  BY <1>1, <1>3, WBound DEF Sub, Idx
<1>5. a2 < b2
  BY <1>1, <1>3, <1>4, SubLess
<1>6. a1 < b1
  BY <1>1, <1>3, <1>5, SubLess
<1>7. v < b1 * W
  BY <1>2, <1>6, SubLess
<1>8. b1 * W = Top
  <2>1. Top = ((W * W + 0) * W + 0) * W + 0
    BY DEF Top, Page
  <2>2. b2 + 0 = b2 /\ b1 + 0 = b1
    OBVIOUS
  <2>3. Top = b1 * W + 0
    BY <2>1, <2>2, <1>3
  <2>4. b1 * W \in Int
    BY WBound
  <2>5. QED
    BY <2>3, <2>4
<1>9. v \in Pages
  <2>1. v \in Nat
    BY <1>2, SubNat
  <2>2. Top \in Nat
    BY Bases
  <2>3. QED
    BY <1>7, <1>8, <2>1, <2>2 DEF Pages
<1>10. PICK d4 \in Idx, d3 \in Idx, d2 \in Idx, d1 \in Idx :
        /\ d4 = Pml4Index(v) /\ v = Sub(Sub(Sub(Sub(0, d4), d3), d2), d1)
  BY <1>9, Digits DEF Pages
<1>11. PICK e3 \in Nat, e2 \in Nat, e1 \in Nat :
        e3 = Sub(0, d4) /\ e2 = Sub(e3, d3) /\ e1 = Sub(e2, d2)
  BY SubNat
<1>12. e1 = a1
  <2>1. Sub(e1, d1) = Sub(a1, i1)
    BY <1>2, <1>10, <1>11
  <2>2. QED
    BY <2>1, SubInj
<1>13. e2 = a2
  <2>1. Sub(e2, d2) = Sub(a2, i2)
    BY <1>1, <1>11, <1>12
  <2>2. QED
    BY <2>1, SubInj
<1>14. e3 = a3
  <2>1. Sub(e3, d3) = Sub(a3, i3)
    BY <1>1, <1>11, <1>13
  <2>2. QED
    BY <2>1, SubInj
<1>15. d4 = i4
  <2>1. Sub(0, d4) = Sub(0, i4)
    BY <1>1, <1>11, <1>14
  <2>2. QED
    BY <2>1, SubInj
<1>16. QED
  BY <1>9, <1>10, <1>15

\* What Down adds, if S are tables.
LEMMA DownIs ==
  ASSUME NEW m, NEW S, \A s \in S : s[2] \in DOMAIN m.tables /\ DOMAIN m.tables[s[2]] \subseteq Idx,
         NEW I, NEW p
  PROVE  p \in Down(m, S, I) <=>
           \E s \in S, i \in I : Leading(m.tables, s[2], i, p[2]) /\ p = <<Sub(s[1], i), p[2]>>
<1>1. ASSUME p \in Down(m, S, I)
      PROVE  \E s \in S, i \in I : Leading(m.tables, s[2], i, p[2]) /\ p = <<Sub(s[1], i), p[2]>>
  <2> DEFINE below(x) == {<<x[1] * W + j, m.tables[x[2]][j].frame>> :
                            j \in {j \in DOMAIN m.tables[x[2]] \cap I : ~m.tables[x[2]][j].huge}}
  <2>0. PICK s \in S : p \in below(s)
    BY Zenon, <1>1 DEF Down
  <2>1. PICK i \in DOMAIN m.tables[s[2]] \cap I :
          ~m.tables[s[2]][i].huge /\ p = <<s[1] * W + i, m.tables[s[2]][i].frame>>
    BY <2>0
  <2>2. p[2] = m.tables[s[2]][i].frame /\ p = <<Sub(s[1], i), p[2]>>
    BY <2>1 DEF Sub
  <2>3. Leading(m.tables, s[2], i, p[2])
    BY <2>1, <2>2 DEF Leading
  <2>4. QED
    BY <2>1, <2>2, <2>3
<1>2. ASSUME NEW s \in S, NEW i \in I, Leading(m.tables, s[2], i, p[2]),
             p = <<Sub(s[1], i), p[2]>>
      PROVE  p \in Down(m, S, I)
  <2>1. i \in DOMAIN m.tables[s[2]] \cap I /\ ~m.tables[s[2]][i].huge
        /\ m.tables[s[2]][i].frame = p[2]
    BY <1>2 DEF Leading
  <2>2. p = <<s[1] * W + i, m.tables[s[2]][i].frame>>
    BY <1>2, <2>1 DEF Sub
  <2>3. QED
    BY <2>1, <2>2 DEF Down
<1>3. QED
  BY <1>1, <1>2

LEMMA DownLevel ==
  ASSUME NEW m, NEW g, Tree(m.tables, g), NEW o, NEW n \in 2 .. 4, NEW I, Inside(n, o, I),
         NEW S, Level(m.tables, g, o, n, S)
  PROVE  Level(m.tables, g, o, OneDown(n), Down(m, S, I))
<1>1. TablesTyped(m.tables, g) /\ TablesLead(m.tables, g)
  BY DEF Tree
<1>2. \A s \in S : s[2] \in DOMAIN m.tables /\ DOMAIN m.tables[s[2]] \subseteq Idx
  BY <1>1 DEF Level, AtTable, TablesTyped
<1> SUFFICES ASSUME NEW p \in Down(m, S, I)
             PROVE  AtTable(m.tables, g, p[2], o, n - 1, p[1])
  BY DEF Level, OneDown
<1>3. PICK s \in S, i \in I :
        Leading(m.tables, s[2], i, p[2]) /\ p = <<Sub(s[1], i), p[2]>>
  BY <1>2, DownIs
<1>4. PICK t, k : t = s[2] /\ k = s[1]
  OBVIOUS
<1>5. AtTable(m.tables, g, t, o, n, k)
  BY <1>4 DEF Level
<1>6. Leading(m.tables, t, i, p[2]) /\ p[1] = Sub(k, i)
  BY <1>3, <1>4
<1>7. Leads(m.tables, g, t, i) /\ m.tables[t][i].frame = p[2]
  BY <1>5, <1>6 DEF Leading, Leads, AtTable
<1>8. Below(m.tables, g, t, i)
  BY <1>1, <1>7 DEF TablesLead, Leads
<1>9. OwnerBelow(g, t, i) = o
  <2>1. g.lev[t] = n /\ g.own[t] = o /\ (n = 4 => o = KernelRoot \/ i \in UserHalf) /\ i \in Idx
    BY <1>5, <1>6 DEF AtTable, Leading, Inside
  <2>2. QED
    BY <2>1, Bases DEF OwnerBelow
<1>10. QED
  BY <1>5, <1>6, <1>7, <1>8, <1>9 DEF Below, AtTable

LEMMA LevelSubset ==
  ASSUME NEW T, NEW g, TablesTyped(T, g), NEW o, NEW n, NEW S, Level(T, g, o, n, S)
  PROVE  \A s \in S : s[2] \in DOMAIN T /\ DOMAIN T[s[2]] \subseteq Idx
BY DEF Level, AtTable, TablesTyped

\* The tables of an address space on all levels.
LEMMA SpaceLevels ==
  ASSUME NEW m, NEW g, Tree(m.tables, g), NEW o \in DOMAIN m.tables, g.lev[o] = 4,
         NEW I, I \subseteq Idx, o = KernelRoot \/ I \subseteq UserHalf
  PROVE  /\ Level(m.tables, g, o, 4, {<<0, o>>})
         /\ Level(m.tables, g, o, 3, Pdpts(m, o, I))
         /\ Level(m.tables, g, o, 2, Pds(m, o, I))
         /\ Level(m.tables, g, o, 1, Pts(m, o, I))
<1>1. Level(m.tables, g, o, 4, {<<0, o>>})
  BY DEF Tree, TablesTyped, Level, AtTable
<1>2. OneDown(4) = 3 /\ OneDown(3) = 2 /\ OneDown(2) = 1
  BY DEF OneDown
<1>3. Inside(4, o, I) /\ Inside(3, o, Idx) /\ Inside(2, o, Idx)
  BY DEF Inside
<1>4. Level(m.tables, g, o, OneDown(4), Pdpts(m, o, I))
  <2>1. PICK S, n : S = {<<0, o>>} /\ n = 4
    OBVIOUS
  <2>2. n \in 2 .. 4 /\ Inside(n, o, I) /\ Level(m.tables, g, o, n, S)
    BY <1>1, <1>3, <2>1
  <2>3. Level(m.tables, g, o, OneDown(n), Down(m, S, I))
    BY <2>2, DownLevel
  <2>4. QED
    BY <2>1, <2>3 DEF Pdpts
<1>5. Level(m.tables, g, o, 3, Pdpts(m, o, I))
  BY <1>2, <1>4
<1>6. Level(m.tables, g, o, OneDown(3), Pds(m, o, I))
  BY <1>3, <1>5, DownLevel DEF Pds
<1>7. Level(m.tables, g, o, 2, Pds(m, o, I))
  BY <1>2, <1>6
<1>8. Level(m.tables, g, o, OneDown(2), Pts(m, o, I))
  BY <1>3, <1>7, DownLevel DEF Pts
<1>9. Level(m.tables, g, o, 1, Pts(m, o, I))
  BY <1>2, <1>8
<1>10. QED
  BY <1>1, <1>5, <1>7, <1>9

\* What leads to a page that is mapped ...
LEMMA MappedLeaf ==
  ASSUME NEW m, NEW g, Tree(m.tables, g), NEW o \in DOMAIN m.tables, g.lev[o] = 4,
         NEW I, I \subseteq Idx, o = KernelRoot \/ I \subseteq UserHalf,
         NEW p \in Mapped(m, o, I)
  PROVE  /\ Leaf(m.tables, g, o, p[1], p[2]) /\ IsPair(p)
         /\ p[1] \in Pages /\ Pml4Index(p[1]) \in I
<1>1. TablesTyped(m.tables, g)
  BY DEF Tree
<1>2. PICK S4, S3, S2, S1 : /\ S4 = {<<0, o>>} /\ S3 = Pdpts(m, o, I) /\ S2 = Pds(m, o, I)
                            /\ S1 = Pts(m, o, I)
  OBVIOUS
<1>3. /\ Level(m.tables, g, o, 4, S4) /\ Level(m.tables, g, o, 3, S3)
      /\ Level(m.tables, g, o, 2, S2) /\ Level(m.tables, g, o, 1, S1)
  BY <1>2, SpaceLevels
<1>4. S3 = Down(m, S4, I) /\ S2 = Down(m, S3, Idx) /\ S1 = Down(m, S2, Idx)
      /\ p \in Down(m, S1, Idx)
  BY <1>2 DEF Mapped, Pdpts, Pds, Pts
<1>5. /\ \A s \in S4 : s[2] \in DOMAIN m.tables /\ DOMAIN m.tables[s[2]] \subseteq Idx
      /\ \A s \in S3 : s[2] \in DOMAIN m.tables /\ DOMAIN m.tables[s[2]] \subseteq Idx
      /\ \A s \in S2 : s[2] \in DOMAIN m.tables /\ DOMAIN m.tables[s[2]] \subseteq Idx
      /\ \A s \in S1 : s[2] \in DOMAIN m.tables /\ DOMAIN m.tables[s[2]] \subseteq Idx
  BY <1>1, <1>3, LevelSubset
<1>6. PICK s1 \in S1, i1 \in Idx :
        Leading(m.tables, s1[2], i1, p[2]) /\ p = <<Sub(s1[1], i1), p[2]>>
  BY <1>4, <1>5, DownIs
<1>7. PICK s2 \in S2, i2 \in Idx : s1 = <<Sub(s2[1], i2), s1[2]>>
  <2>1. s1 \in Down(m, S2, Idx)
    BY <1>4
  <2>2. QED
    BY <2>1, <1>5, DownIs
<1>8. PICK s3 \in S3, i3 \in Idx : s2 = <<Sub(s3[1], i3), s2[2]>>
  <2>1. s2 \in Down(m, S3, Idx)
    BY <1>4
  <2>2. QED
    BY <2>1, <1>5, DownIs
<1>9. PICK s4 \in S4, i4 \in I : s3 = <<Sub(s4[1], i4), s3[2]>>
  <2>1. s3 \in Down(m, S4, I)
    BY <1>4
  <2>2. QED
    BY <2>1, <1>5, DownIs
<1>10. s4[1] = 0
  BY <1>2
<1>11. PICK v : v = p[1]
  OBVIOUS
<1>12. v = Sub(Sub(Sub(Sub(0, i4), i3), i2), i1)
  BY <1>6, <1>7, <1>8, <1>9, <1>10, <1>11
<1>13. v \in Pages /\ Pml4Index(v) = i4
  BY <1>12, SubPages
<1>14. Leaf(m.tables, g, o, v, p[2])
  <2>1. AtTable(m.tables, g, s1[2], o, 1, s1[1])
    BY <1>3 DEF Level
  <2>2. Sub(s1[1], i1) = v
    BY <1>6, <1>11
  <2>3. QED
    BY <1>6, <2>1, <2>2 DEF Leaf, Leading, AtTable
<1>15. QED
  BY <1>6, <1>9, <1>11, <1>13, <1>14 DEF IsPair

\* A page is found behind the last table on the way to it.
LEMMA WayMapped ==
  ASSUME NEW m, NEW g, Tree(m.tables, g), NEW o \in DOMAIN m.tables, g.lev[o] = 4,
         NEW I, I \subseteq Idx, o = KernelRoot \/ I \subseteq UserHalf,
         NEW v \in Pages, Pml4Index(v) \in I,
         NEW t3, NEW t2, NEW t1, Way(m.tables, g, o, v, t3, t2, t1),
         NEW f, Leading(m.tables, t1, PtIndex(v), f)
  PROVE  <<v, f>> \in Mapped(m, o, I)
<1>1. TablesTyped(m.tables, g)
  BY DEF Tree
<1>2. PICK S4, S3, S2, S1 : /\ S4 = {<<0, o>>} /\ S3 = Pdpts(m, o, I) /\ S2 = Pds(m, o, I)
                            /\ S1 = Pts(m, o, I)
  OBVIOUS
<1>3. /\ Level(m.tables, g, o, 4, S4) /\ Level(m.tables, g, o, 3, S3)
      /\ Level(m.tables, g, o, 2, S2) /\ Level(m.tables, g, o, 1, S1)
  BY <1>2, SpaceLevels
<1>4. S3 = Down(m, S4, I) /\ S2 = Down(m, S3, Idx) /\ S1 = Down(m, S2, Idx)
      /\ Mapped(m, o, I) = Down(m, S1, Idx)
  BY <1>2 DEF Mapped, Pdpts, Pds, Pts
<1>5. /\ \A s \in S4 : s[2] \in DOMAIN m.tables /\ DOMAIN m.tables[s[2]] \subseteq Idx
      /\ \A s \in S3 : s[2] \in DOMAIN m.tables /\ DOMAIN m.tables[s[2]] \subseteq Idx
      /\ \A s \in S2 : s[2] \in DOMAIN m.tables /\ DOMAIN m.tables[s[2]] \subseteq Idx
      /\ \A s \in S1 : s[2] \in DOMAIN m.tables /\ DOMAIN m.tables[s[2]] \subseteq Idx
  BY <1>1, <1>3, LevelSubset
<1>6. PICK d4, d3, d2, d1 : /\ d4 = Pml4Index(v) /\ d3 = PdptIndex(v) /\ d2 = PdIndex(v)
                            /\ d1 = PtIndex(v)
  OBVIOUS
<1>7. d4 \in I /\ d3 \in Idx /\ d2 \in Idx /\ d1 \in Idx
      /\ v = Sub(Sub(Sub(Sub(0, d4), d3), d2), d1)
  BY <1>6, Digits DEF Pages
<1>8. /\ Leading(m.tables, o, d4, t3) /\ Leading(m.tables, t3, d3, t2)
      /\ Leading(m.tables, t2, d2, t1) /\ Leading(m.tables, t1, d1, f)
  BY <1>6 DEF Way
<1>9. PICK s4, s3, s2, s1, p : /\ s4 = <<0, o>> /\ s3 = <<Sub(0, d4), t3>>
                               /\ s2 = <<Sub(Sub(0, d4), d3), t2>>
                               /\ s1 = <<Sub(Sub(Sub(0, d4), d3), d2), t1>> /\ p = <<v, f>>
  OBVIOUS
<1>10. s3 \in S3
  <2>1. s4 \in S4 /\ Leading(m.tables, s4[2], d4, s3[2]) /\ s3 = <<Sub(s4[1], d4), s3[2]>>
    BY <1>2, <1>8, <1>9
  <2>2. s3 \in Down(m, S4, I)
    BY <1>5, <1>7, <2>1, DownIs
  <2>3. QED
    BY <1>4, <2>2
<1>11. s2 \in S2
  <2>1. Leading(m.tables, s3[2], d3, s2[2]) /\ s2 = <<Sub(s3[1], d3), s2[2]>>
    BY <1>8, <1>9
  <2>2. s2 \in Down(m, S3, Idx)
    BY <1>5, <1>7, <1>10, <2>1, DownIs
  <2>3. QED
    BY <1>4, <2>2
<1>12. s1 \in S1
  <2>1. Leading(m.tables, s2[2], d2, s1[2]) /\ s1 = <<Sub(s2[1], d2), s1[2]>>
    BY <1>8, <1>9
  <2>2. s1 \in Down(m, S2, Idx)
    BY <1>5, <1>7, <1>11, <2>1, DownIs
  <2>3. QED
    BY <1>4, <2>2
<1>13. p \in Mapped(m, o, I)
  <2>1. Leading(m.tables, s1[2], d1, p[2]) /\ p = <<Sub(s1[1], d1), p[2]>>
    BY <1>7, <1>8, <1>9
  <2>2. p \in Down(m, S1, Idx)
    BY <1>5, <1>7, <1>12, <2>1, DownIs
  <2>3. QED
    BY <1>4, <2>2
<1>14. QED
  BY <1>9, <1>13

\* ... and every page that is in a table of o is mapped.
LEMMA LeafMapped ==
  ASSUME NEW m, NEW g, Tree(m.tables, g), NEW o \in DOMAIN m.tables, g.lev[o] = 4,
         NEW I, I \subseteq Idx, o = KernelRoot \/ I \subseteq UserHalf,
         NEW v \in Pages, Pml4Index(v) \in I, NEW f, Leaf(m.tables, g, o, v, f)
  PROVE  <<v, f>> \in Mapped(m, o, I)
<1>1. PICK t \in DOMAIN m.tables : \E i \in DOMAIN m.tables[t] :
        g.lev[t] = 1 /\ g.own[t] = o /\ Sub(g.key[t], i) = v /\ m.tables[t][i].frame = f
  BY DEF Leaf
<1>1a. PICK i \in DOMAIN m.tables[t] :
        g.lev[t] = 1 /\ g.own[t] = o /\ Sub(g.key[t], i) = v /\ m.tables[t][i].frame = f
  BY <1>1
<1>2. TablesTyped(m.tables, g)
  BY DEF Tree
<1>3. i \in Idx /\ ~m.tables[t][i].huge
  <2>1. i \in Idx /\ (m.tables[t][i].huge => HugeOK(g, t, i))
    BY <1>1a, <1>2 DEF TablesTyped
  <2>2. g.lev[t] # 2
    BY <1>1a
  <2>3. QED
    BY <2>1, <2>2 DEF HugeOK
<1>4. PICK k : k = g.key[t]
  OBVIOUS
<1>5. AtTable(m.tables, g, t, o, 1, k) /\ v = Sub(k, i)
  BY <1>1a, <1>4 DEF AtTable
<1>6. i = PtIndex(v) /\ \E t3, t2 : Way(m.tables, g, o, v, t3, t2, t)
  BY <1>3, <1>5, WayFound
<1>7. Leading(m.tables, t, PtIndex(v), f)
  BY <1>1a, <1>3, <1>6 DEF Leading
<1>8. QED
  BY <1>6, <1>7, WayMapped

\* A page of a table is a page.
LEMMA LeafPage ==
  ASSUME NEW T, NEW g, Tree(T, g), NEW o, NEW v, NEW f, Leaf(T, g, o, v, f)
  PROVE  v \in Pages /\ (o = KernelRoot \/ Pml4Index(v) \in UserHalf)
<1>1. PICK t \in DOMAIN T : \E i \in DOMAIN T[t] :
        g.lev[t] = 1 /\ g.own[t] = o /\ Sub(g.key[t], i) = v
  BY DEF Leaf
<1>1a. PICK i \in DOMAIN T[t] : g.lev[t] = 1 /\ g.own[t] = o /\ Sub(g.key[t], i) = v
  BY <1>1
<1>2. TablesTyped(T, g)
  BY DEF Tree
<1>3. PICK k1 : k1 = g.key[t]
  OBVIOUS
<1>4. AtTable(T, g, t, o, 1, k1) /\ v = Sub(k1, i) /\ i \in Idx
  BY <1>1a, <1>2, <1>3 DEF AtTable, TablesTyped
<1>5. PICK t3, i3, k3, t2, i2, k2 :
        /\ AtTable(T, g, t2, o, 2, k2) /\ k1 = Sub(k2, i2) /\ i2 \in Idx
        /\ AtTable(T, g, t3, o, 3, k3) /\ k2 = Sub(k3, i3) /\ i3 \in Idx
  <2>1. PICK t2, i2, k2 : AtTable(T, g, t2, o, 2, k2) /\ k1 = Sub(k2, i2) /\ i2 \in Idx
    BY <1>4, StepUpOne
  <2>2. PICK n : n = 2 /\ n \in 1 .. 3 /\ n + 1 = 3
    OBVIOUS
  <2>3. AtTable(T, g, t2, o, n, k2) /\ n \in 1 .. 3
    BY <2>1, <2>2
  <2>4. StepsUp(T, g, t2, o, n, k2)
    BY <2>3, StepUp
  <2>5. QED
    BY <2>1, <2>2, <2>4 DEF StepsUp
<1>6. PICK i4 \in Idx : k3 = Sub(0, i4) /\ (o = KernelRoot \/ i4 \in UserHalf)
  <2>1. PICK n : n = 3 /\ n \in 1 .. 3 /\ n + 1 = 4
    OBVIOUS
  <2>2. AtTable(T, g, t3, o, n, k3) /\ n \in 1 .. 3
    BY <1>5, <2>1
  <2>3. StepsUp(T, g, t3, o, n, k3)
    BY <2>2, StepUp
  <2>4. QED
    BY <2>1, <2>3 DEF StepsUp, AtTop
<1>7. v = Sub(Sub(Sub(Sub(0, i4), i3), i2), i)
  BY <1>4, <1>5, <1>6
<1>8. QED
  BY <1>4, <1>5, <1>6, <1>7, SubPages

\* The tables of an address space are those of its owner.
LEMMA TablesOwned ==
  ASSUME NEW m, NEW g, Tree(m.tables, g), NEW o \in DOMAIN m.tables, g.lev[o] = 4,
         NEW I, I \subseteq Idx, o = KernelRoot \/ I \subseteq UserHalf,
         NEW c \in Tables(m, o, I)
  PROVE  c \in DOMAIN m.tables /\ g.own[c] = o
<1>1. PICK s : s \in Pdpts(m, o, I) \cup Pds(m, o, I) \cup Pts(m, o, I) /\ c = s[2]
  BY DEF Tables, Frames
<1>2. \E n : AtTable(m.tables, g, s[2], o, n, s[1])
  BY <1>1, SpaceLevels DEF Level
<1>3. QED
  BY <1>1, <1>2 DEF AtTable

LEMMA WholeInside ==
  ASSUME NEW o, NEW I, Whole(o, I)
  PROVE  /\ I \subseteq Idx /\ (o = KernelRoot \/ I \subseteq UserHalf)
         /\ \A i \in Idx : o = KernelRoot \/ i \in UserHalf => i \in I
<1>1. UserHalf \subseteq Idx
  BY Bases, WBound DEF Idx, UserHalf
<1>2. QED
  BY <1>1 DEF Whole

LEMMA OwnedTables ==
  ASSUME NEW m, NEW g, Tree(m.tables, g), NEW o \in DOMAIN m.tables, g.lev[o] = 4,
         NEW I, Whole(o, I), NEW c \in DOMAIN m.tables, g.own[c] = o
  PROVE  c = o \/ c \in Tables(m, o, I)
<1>1. TablesTyped(m.tables, g)
  BY DEF Tree
<1>2. PICK S4, S3, S2, S1 : /\ S4 = {<<0, o>>} /\ S3 = Pdpts(m, o, I) /\ S2 = Pds(m, o, I)
                            /\ S1 = Pts(m, o, I)
  OBVIOUS
<1>3. /\ Level(m.tables, g, o, 4, S4) /\ Level(m.tables, g, o, 3, S3)
      /\ Level(m.tables, g, o, 2, S2) /\ Level(m.tables, g, o, 1, S1)
  BY <1>2, SpaceLevels, WholeInside
<1>4. S3 = Down(m, S4, I) /\ S2 = Down(m, S3, Idx) /\ S1 = Down(m, S2, Idx)
      /\ Tables(m, o, I) = Frames(S3 \cup S2 \cup S1)
  BY <1>2 DEF Tables, Pdpts, Pds, Pts
<1>5. /\ \A s \in S4 : s[2] \in DOMAIN m.tables /\ DOMAIN m.tables[s[2]] \subseteq Idx
      /\ \A s \in S3 : s[2] \in DOMAIN m.tables /\ DOMAIN m.tables[s[2]] \subseteq Idx
      /\ \A s \in S2 : s[2] \in DOMAIN m.tables /\ DOMAIN m.tables[s[2]] \subseteq Idx
  BY <1>1, <1>3, LevelSubset
<1>6. ASSUME NEW t, NEW k, AtTable(m.tables, g, t, o, 3, k)
      PROVE  <<k, t>> \in S3
  <2>1. PICK n : n = 3 /\ n \in 1 .. 3 /\ n + 1 = 4
    OBVIOUS
  <2>2. AtTable(m.tables, g, t, o, n, k) /\ n \in 1 .. 3
    BY <1>6, <2>1
  <2>3. StepsUp(m.tables, g, t, o, n, k)
    BY <2>2, StepUp
  <2>4. PICK i : Leading(m.tables, o, i, t) /\ k = Sub(0, i) /\ (o = KernelRoot \/ i \in UserHalf)
    BY <2>1, <2>3 DEF StepsUp, AtTop
  <2>5. i \in I
    BY <2>4, WholeInside DEF Leading
  <2>6. PICK s, p : s = <<0, o>> /\ p = <<k, t>>
    OBVIOUS
  <2>7. s \in S4 /\ Leading(m.tables, s[2], i, p[2]) /\ p = <<Sub(s[1], i), p[2]>>
    BY <1>2, <2>4, <2>6
  <2>8. p \in Down(m, S4, I)
    BY <1>5, <2>5, <2>7, DownIs
  <2>9. QED
    BY <1>4, <2>6, <2>8
<1>7. ASSUME NEW t, NEW k, AtTable(m.tables, g, t, o, 2, k)
      PROVE  <<k, t>> \in S2
  <2>1. PICK n : n = 2 /\ n \in 1 .. 3 /\ n + 1 = 3
    OBVIOUS
  <2>2. AtTable(m.tables, g, t, o, n, k) /\ n \in 1 .. 3
    BY <1>7, <2>1
  <2>3. StepsUp(m.tables, g, t, o, n, k)
    BY <2>2, StepUp
  <2>4. PICK u, i, j : /\ Leading(m.tables, u, i, t) /\ AtTable(m.tables, g, u, o, 3, j)
                       /\ k = Sub(j, i) /\ i \in Idx
    BY <2>1, <2>3 DEF StepsUp
  <2>5. PICK s, p : s = <<j, u>> /\ p = <<k, t>>
    OBVIOUS
  <2>6. s \in S3
    BY <1>6, <2>4, <2>5
  <2>7. Leading(m.tables, s[2], i, p[2]) /\ p = <<Sub(s[1], i), p[2]>>
    BY <2>4, <2>5
  <2>8. p \in Down(m, S3, Idx)
    BY <1>5, <2>4, <2>6, <2>7, DownIs
  <2>9. QED
    BY <1>4, <2>5, <2>8
<1>8. ASSUME NEW t, NEW k, AtTable(m.tables, g, t, o, 1, k)
      PROVE  <<k, t>> \in S1
  <2>4. PICK u, i, j : /\ Leading(m.tables, u, i, t) /\ AtTable(m.tables, g, u, o, 2, j)
                       /\ k = Sub(j, i) /\ i \in Idx
    BY <1>8, StepUpOne
  <2>5. PICK s, p : s = <<j, u>> /\ p = <<k, t>>
    OBVIOUS
  <2>6. s \in S2
    BY <1>7, <2>4, <2>5
  <2>7. Leading(m.tables, s[2], i, p[2]) /\ p = <<Sub(s[1], i), p[2]>>
    BY <2>4, <2>5
  <2>8. p \in Down(m, S2, Idx)
    BY <1>5, <2>4, <2>6, <2>7, DownIs
  <2>9. QED
    BY <1>4, <2>5, <2>8
<1>9. PICK k : k = g.key[c]
  OBVIOUS
<1>10. g.lev[c] \in 1 .. 4 /\ (g.lev[c] = 4 => c = o)
  BY <1>1 DEF TablesTyped
<1>11. CASE g.lev[c] = 4
  BY <1>10, <1>11
<1>12. CASE g.lev[c] # 4
  <2>1. <<k, c>> \in S3 \cup S2 \cup S1
    BY <1>6, <1>7, <1>8, <1>9, <1>10, <1>12 DEF AtTable
  <2>2. c \in Frames(S3 \cup S2 \cup S1)
    BY <2>1 DEF Frames
  <2>3. QED
    BY <1>4, <2>2
<1>13. QED
  BY <1>11, <1>12

----------------------------------------------------------------------------
(* Loops.  Each is a fold whose step is one of these.                      *)

LEMMA StepTableExists ==
  ASSUME NEW n \in Nat, NEW kind, NEW c, NEW base
  PROVE  \E it : it = StepTable(kind, c, base, n, it)
<1> DEFINE D == 1 .. n
           Q == {k \in Nat : \E it : \A s \in SUBSET D :
                   Cardinality(s) <= k => it[s] = StepRound(kind, c, base, it, s)}
<1>0. IsFiniteSet(D)
  BY FS_Interval
<1>1. \A s \in SUBSET D : IsFiniteSet(s) /\ Cardinality(s) \in Nat /\ Cardinality(s) <= Cardinality(D)
  BY <1>0, FS_Subset, FS_CardinalityType
<1>2. \A s \in SUBSET D : s # {} => /\ s \ {Max(s)} \in SUBSET D
                                    /\ Cardinality(s \ {Max(s)}) = Cardinality(s) - 1
  BY <1>1, FS_RemoveElement, MaxOfIndices
<1> HIDE DEF D
<1>3. 0 \in Q
  <2> DEFINE it == [s \in SUBSET D |-> base]
  <2>1. \A s \in SUBSET D : Cardinality(s) <= 0 => s = {}
    BY <1>1, FS_EmptySet
  <2>2. \A s \in SUBSET D : Cardinality(s) <= 0 => it[s] = StepRound(kind, c, base, it, s)
    BY <2>1 DEF StepRound
  <2>3. QED
    BY <2>2
<1>4. ASSUME NEW k \in Nat, k \in Q PROVE k + 1 \in Q
  <2>1. PICK it : \A s \in SUBSET D :
                    Cardinality(s) <= k => it[s] = StepRound(kind, c, base, it, s)
    BY <1>4
  <2> DEFINE h == [s \in SUBSET D |-> IF Cardinality(s) <= k THEN it[s]
                                      ELSE StepRound(kind, c, base, it, s)]
  <2>2. ASSUME NEW s \in SUBSET D, Cardinality(s) <= k + 1
        PROVE  h[s] = StepRound(kind, c, base, h, s)
    <3>1. h[s] = StepRound(kind, c, base, it, s)
      BY <2>1
    <3>2. s # {} => h[s \ {Max(s)}] = it[s \ {Max(s)}]
      BY <1>1, <1>2, <2>2
    <3>3. QED
      BY <3>1, <3>2 DEF StepRound
  <2>3. QED
    <3> HIDE DEF h
    <3> QED
      BY <2>2
<1>5. Cardinality(D) \in Q
  <2>1. Nat \subseteq Q
    <3> HIDE DEF Q
    <3> QED
      BY <1>3, <1>4, NatInd
  <2>2. QED
    BY <2>1, <1>0, FS_CardinalityType
<1>6. PICK it : \A s \in SUBSET D : it[s] = StepRound(kind, c, base, it, s)
  BY <1>1, <1>5
<1> DEFINE t == [s \in SUBSET D |-> it[s]]
<1>7. t = [s \in SUBSET D |-> StepRound(kind, c, base, t, s)]
  <2>1. ASSUME NEW s \in SUBSET D PROVE t[s] = StepRound(kind, c, base, t, s)
    BY <1>2, <1>6 DEF StepRound
  <2>2. QED
    BY <2>1
<1>8. QED
  <2> HIDE DEF t
  <2> QED
    BY <1>7 DEF D, StepTable

LEMMA LoopOfTable ==
  ASSUME NEW n \in Nat, NEW kind, NEW c, NEW base, NEW tab, tab = StepTable(kind, c, base, n, tab)
  PROVE  \E st : Loop(kind, c, base, n, st, tab[1 .. n])
<1> DEFINE st == [i \in 0 .. n |-> tab[1 .. i]]
<1>1. \A s \in SUBSET (1 .. n) : tab[s] = StepRound(kind, c, base, tab, s)
  BY DEF StepTable
<1>2. st[0] = base
  <2>1. st[0] = tab[{}]
    BY DEF st
  <2>2. QED
    BY <1>1, <2>1 DEF StepRound
<1>3. st[n] = tab[1 .. n]
  OBVIOUS
<1>4. ASSUME NEW i \in 0 .. n - 1 PROVE st[i + 1] = Step(kind, c, st[i], i + 1)
  <2>1. PICK j \in 1 .. n : j = i + 1 /\ i = j - 1
    OBVIOUS
  <2>2. PICK s : s = 1 .. j
    OBVIOUS
  <2>3. s \in SUBSET (1 .. n) /\ s # {} /\ s \subseteq 0 .. n /\ j \in s
    <3>1. \A x \in s : x \in 1 .. n /\ x \in 0 .. n
      BY <2>2
    <3>2. j \in s
      BY <2>2
    <3>3. QED
      BY <3>1, <3>2
  <2>4. Max(s) \in s /\ \A y \in s : Max(s) >= y
    BY <2>3, MaxFound
  <2>5. Max(s) = j
    <3>1. PICK x : x = Max(s)
      OBVIOUS
    <3>2. x \in 1 .. j /\ x >= j
      BY <2>2, <2>3, <2>4, <3>1
    <3>3. QED
      BY <3>1, <3>2
  <2>6. s \ {j} = 1 .. i
    BY <2>1, <2>2
  <2>7. tab[s] = Step(kind, c, tab[s \ {Max(s)}], Max(s))
    BY <1>1, <2>3 DEF StepRound
  <2>8. st[j] = tab[s] /\ st[i] = tab[1 .. i]
    BY <2>2
  <2>9. QED
    BY <2>1, <2>5, <2>6, <2>7, <2>8
<1>5. QED
  BY <1>2, <1>3, <1>4 DEF Loop

LEMMA Counting ==
  ASSUME NEW n \in Nat
  PROVE  DOMAIN Count(n) = 1 .. n /\ \A i \in 1 .. n : Count(n)[i] = i - 1
BY DEF Count

LEMMA MapPagesLoop ==
  ASSUME NEW m, NEW root, NEW v, NEW f, NEW n \in Nat
  PROVE  \E st : Loop("map", [root |-> root, v |-> v, f |-> f], m, n, st,
                      MapPagesIn(m, root, v, f, n))
<1> DEFINE c == [root |-> root, v |-> v, f |-> f]
           op(a, i) == IF a.ok THEN MapPageIn(a, root, v + i, f + i) ELSE a
           Rounds(it) == [s \in SUBSET (1 .. n) |->
                  IF s = {} THEN m ELSE op(it[s \ {Max(s)}], Count(n)[Max(s)])]
           tab == CHOOSE it : it = Rounds(it)
<1>1. MapPagesIn(m, root, v, f, n) = tab[1 .. n]
  <2>1. MapPagesIn(m, root, v, f, n) = FoldLeft(op, m, Count(n))
    BY DEF MapPagesIn
  <2>2. QED
    BY <2>1, Counting, Zenon DEF FoldLeft, MapThenFoldSet
<1>2. ASSUME NEW it PROVE Rounds(it) = StepTable("map", c, m, n, it)
  <2>1. ASSUME NEW s \in SUBSET (1 .. n), s # {}
        PROVE  op(it[s \ {Max(s)}], Count(n)[Max(s)]) = StepRound("map", c, m, it, s)
    <3>1. Count(n)[Max(s)] = Max(s) - 1
      BY <2>1, MaxOfIndices, Counting
    <3>2. QED
      BY <2>1, <3>1 DEF StepRound, Step
  <2>2. m = StepRound("map", c, m, it, {})
    BY DEF StepRound
  <2>3. QED
    BY <2>1, <2>2 DEF StepTable
<1>3. tab = StepTable("map", c, m, n, tab)
  <2>1. \E it : it = Rounds(it)
    <3>1. PICK it : it = StepTable("map", c, m, n, it)
      BY StepTableExists
    <3>2. it = Rounds(it)
      BY <1>2, <3>1
    <3>3. QED
      BY <3>2
  <2>2. tab = Rounds(tab)
    BY <2>1
  <2>3. QED
    BY <1>2, <2>2
<1> HIDE DEF tab, c
<1>4. \E st : Loop("map", c, m, n, st, tab[1 .. n])
  BY <1>3, LoopOfTable
<1>5. QED
  BY <1>1, <1>4 DEF c

LEMMA GrowLoop ==
  ASSUME NEW m, NEW n \in Nat
  PROVE  \E st : Loop("grow", <<>>, m, n, st, FoldLeft(GrowPage, m, Count(n)))
<1> DEFINE c == <<>>
           op(a, i) == GrowPage(a, i)
           Rounds(it) == [s \in SUBSET (1 .. n) |->
                  IF s = {} THEN m ELSE op(it[s \ {Max(s)}], Count(n)[Max(s)])]
           tab == CHOOSE it : it = Rounds(it)
<1>1. FoldLeft(GrowPage, m, Count(n)) = tab[1 .. n]
  <2>1. FoldLeft(GrowPage, m, Count(n)) = FoldLeft(op, m, Count(n))
    BY Zenon DEF FoldLeft, MapThenFoldSet
  <2>2. QED
    BY <2>1, Counting, Zenon DEF FoldLeft, MapThenFoldSet
<1>2. ASSUME NEW it PROVE Rounds(it) = StepTable("grow", c, m, n, it)
  <2>1. ASSUME NEW s \in SUBSET (1 .. n), s # {}
        PROVE  op(it[s \ {Max(s)}], Count(n)[Max(s)]) = StepRound("grow", c, m, it, s)
    <3>1. Count(n)[Max(s)] = Max(s) - 1
      BY <2>1, MaxOfIndices, Counting
    <3>2. QED
      BY <2>1, <3>1 DEF StepRound, Step
  <2>2. m = StepRound("grow", c, m, it, {})
    BY DEF StepRound
  <2>3. QED
    BY <2>1, <2>2 DEF StepTable
<1>3. tab = StepTable("grow", c, m, n, tab)
  <2>1. \E it : it = Rounds(it)
    <3>1. PICK it : it = StepTable("grow", c, m, n, it)
      BY StepTableExists
    <3>2. it = Rounds(it)
      BY <1>2, <3>1
    <3>3. QED
      BY <3>2
  <2>2. tab = Rounds(tab)
    BY <2>1
  <2>3. QED
    BY <1>2, <2>2
<1> HIDE DEF tab, c
<1>4. \E st : Loop("grow", c, m, n, st, tab[1 .. n])
  BY <1>3, LoopOfTable
<1>5. QED
  BY <1>1, <1>4 DEF c

LEMMA UnmapLoop ==
  ASSUME NEW m, NEW v, NEW n \in Nat
  PROVE  \E st : Loop("unmap", [v |-> v], m, n, st, UnmapPages(m, v, n))
<1> DEFINE c == [v |-> v]
           op(a, i) == UnmapPage(a, v + i)
           Rounds(it) == [s \in SUBSET (1 .. n) |->
                  IF s = {} THEN m ELSE op(it[s \ {Max(s)}], Count(n)[Max(s)])]
           tab == CHOOSE it : it = Rounds(it)
<1>1. UnmapPages(m, v, n) = tab[1 .. n]
  <2>1. UnmapPages(m, v, n) = FoldLeft(op, m, Count(n))
    BY DEF UnmapPages
  <2>2. QED
    BY <2>1, Counting, Zenon DEF FoldLeft, MapThenFoldSet
<1>2. ASSUME NEW it PROVE Rounds(it) = StepTable("unmap", c, m, n, it)
  <2>1. ASSUME NEW s \in SUBSET (1 .. n), s # {}
        PROVE  op(it[s \ {Max(s)}], Count(n)[Max(s)]) = StepRound("unmap", c, m, it, s)
    <3>1. Count(n)[Max(s)] = Max(s) - 1
      BY <2>1, MaxOfIndices, Counting
    <3>2. QED
      BY <2>1, <3>1 DEF StepRound, Step
  <2>2. m = StepRound("unmap", c, m, it, {})
    BY DEF StepRound
  <2>3. QED
    BY <2>1, <2>2 DEF StepTable
<1>3. tab = StepTable("unmap", c, m, n, tab)
  <2>1. \E it : it = Rounds(it)
    <3>1. PICK it : it = StepTable("unmap", c, m, n, it)
      BY StepTableExists
    <3>2. it = Rounds(it)
      BY <1>2, <3>1
    <3>3. QED
      BY <3>2
  <2>2. tab = Rounds(tab)
    BY <2>1
  <2>3. QED
    BY <1>2, <2>2
<1> HIDE DEF tab, c
<1>4. \E st : Loop("unmap", c, m, n, st, tab[1 .. n])
  BY <1>3, LoopOfTable
<1>5. QED
  BY <1>1, <1>4 DEF c

LEMMA ReplaceLoop ==
  ASSUME NEW m, NEW f, NEW n \in Nat
  PROVE  \E st : Loop("replace", [f |-> f], m, n, st, EnsureMapped(m, f, n))
<1> DEFINE c == [f |-> f]
           op(a, i) == ReplacePage(a, AcpiWin + i, f + i)
           Rounds(it) == [s \in SUBSET (1 .. n) |->
                  IF s = {} THEN m ELSE op(it[s \ {Max(s)}], Count(n)[Max(s)])]
           tab == CHOOSE it : it = Rounds(it)
<1>1. EnsureMapped(m, f, n) = tab[1 .. n]
  <2>1. EnsureMapped(m, f, n) = FoldLeft(op, m, Count(n))
    BY DEF EnsureMapped
  <2>2. QED
    BY <2>1, Counting, Zenon DEF FoldLeft, MapThenFoldSet
<1>2. ASSUME NEW it PROVE Rounds(it) = StepTable("replace", c, m, n, it)
  <2>1. ASSUME NEW s \in SUBSET (1 .. n), s # {}
        PROVE  op(it[s \ {Max(s)}], Count(n)[Max(s)]) = StepRound("replace", c, m, it, s)
    <3>1. Count(n)[Max(s)] = Max(s) - 1
      BY <2>1, MaxOfIndices, Counting
    <3>2. QED
      BY <2>1, <3>1 DEF StepRound, Step
  <2>2. m = StepRound("replace", c, m, it, {})
    BY DEF StepRound
  <2>3. QED
    BY <2>1, <2>2 DEF StepTable
<1>3. tab = StepTable("replace", c, m, n, tab)
  <2>1. \E it : it = Rounds(it)
    <3>1. PICK it : it = StepTable("replace", c, m, n, it)
      BY StepTableExists
    <3>2. it = Rounds(it)
      BY <1>2, <3>1
    <3>3. QED
      BY <3>2
  <2>2. tab = Rounds(tab)
    BY <2>1
  <2>3. QED
    BY <1>2, <2>2
<1> HIDE DEF tab, c
<1>4. \E st : Loop("replace", c, m, n, st, tab[1 .. n])
  BY <1>3, LoopOfTable
<1>5. QED
  BY <1>1, <1>4 DEF c

LEMMA LoadLoop ==
  ASSUME NEW m, NEW l, NEW n \in Nat, DOMAIN l = 1 .. n
  PROVE  \E st : Loop("load", l, m, n, st, LoadElf(m, l))
<1> DEFINE Rounds(it) == [s \in SUBSET (1 .. n) |->
                  IF s = {} THEN m ELSE LoadSegment(it[s \ {Max(s)}], l[Max(s)])]
           tab == CHOOSE it : it = Rounds(it)
<1>1. LoadElf(m, l) = tab[1 .. n]
  BY Zenon DEF LoadElf, FoldLeft, MapThenFoldSet
<1>2. ASSUME NEW it PROVE Rounds(it) = StepTable("load", l, m, n, it)
  <2>1. ASSUME NEW s \in SUBSET (1 .. n), s # {}
        PROVE  LoadSegment(it[s \ {Max(s)}], l[Max(s)]) = StepRound("load", l, m, it, s)
    BY <2>1 DEF StepRound, Step
  <2>2. m = StepRound("load", l, m, it, {})
    BY DEF StepRound
  <2>3. QED
    BY <2>1, <2>2 DEF StepTable
<1>3. tab = StepTable("load", l, m, n, tab)
  <2>1. \E it : it = Rounds(it)
    <3>1. PICK it : it = StepTable("load", l, m, n, it)
      BY StepTableExists
    <3>2. it = Rounds(it)
      BY <1>2, <3>1
    <3>3. QED
      BY <3>2
  <2>2. tab = Rounds(tab)
    BY <2>1
  <2>3. QED
    BY <1>2, <2>2
<1> HIDE DEF tab
<1>4. \E st : Loop("load", l, m, n, st, tab[1 .. n])
  BY <1>3, LoopOfTable
<1>5. QED
  BY <1>1, <1>4

----------------------------------------------------------------------------
(* The functions that give something back.                                 *)

\* Frames that were set aside are free again.
LEMMA FreeAside ==
  ASSUME NEW m, NEW g, NEW R, Good(m, g, R), NEW f \in Nat, NEW n \in Nat,
         Run(f, n) \subseteq R, m.ipcPage \notin Run(f, n), NEW a, a = FreeFrames(m, f, n)
  PROVE  /\ Good(a, g, R \ Run(f, n)) /\ SameElse(m, a) /\ a.tables = m.tables
         /\ a.ok = m.ok /\ a.at = m.at
         /\ Covered(m, g, R) => Covered(a, g, R \ Run(f, n))
<1>1. /\ IsMemory(m) /\ Framed(m) /\ Tree(m.tables, g) /\ PagesOK(m, g, R) /\ PagesApart(m, g)
      /\ TablesOK(m, g) /\ AsideOK(m, R)
  BY Zenon DEF Good
<1>2. Run(f, n) \subseteq (m.taken \cap Managed(m.ram)) \ Image
  BY <1>1 DEF AsideOK, Plain
<1>3. /\ IsMemory(a) /\ Framed(a) /\ SameElse(m, a) /\ a.taken = m.taken \ Run(f, n)
      /\ a.tables = m.tables /\ a.ok = m.ok /\ a.at = m.at
  BY <1>1, <1>2, FreeFramesSound
<1>4. a.ram = m.ram /\ a.ipcPage = m.ipcPage
  BY <1>3 DEF SameElse
<1>5. PICK S : S = Run(f, n)
  OBVIOUS
<1>6. \A x : Plain(a, x) <=> Plain(m, x) /\ x \notin S
  BY <1>3, <1>4, <1>5 DEF Plain
<1>7. Common(a) = Common(m) /\ \A w, x : Placed(a, w, x) <=> Placed(m, w, x)
  BY <1>4 DEF Common, Placed
<1>8. PagesOK(a, g, R \ S)
  <2> SUFFICES ASSUME NEW s \in DOMAIN m.tables, NEW j \in DOMAIN m.tables[s],
                      Guarded(m.tables, g, s, j)
               PROVE  LET x == m.tables[s][j].frame IN
                      IF x \in Common(a)
                      THEN g.own[s] # KernelRoot /\ Placed(a, Sub(g.key[s], j), x)
                      ELSE Plain(a, x) /\ x \notin R \ S
    BY <1>3, Zenon DEF PagesOK
  <2>1. IF m.tables[s][j].frame \in Common(m)
        THEN g.own[s] # KernelRoot /\ Placed(m, Sub(g.key[s], j), m.tables[s][j].frame)
        ELSE Plain(m, m.tables[s][j].frame) /\ m.tables[s][j].frame \notin R
    BY <1>1, Zenon DEF PagesOK
  <2>2. QED
    BY <2>1, <1>5, <1>6, <1>7
<1>9. PagesApart(a, g)
  BY <1>1, <1>3, <1>7 DEF PagesApart
<1>10. TablesOK(a, g)
  <2>1. \A t \in DOMAIN m.tables : t \notin S
    BY <1>1, <1>5 DEF AsideOK, Plain
  <2>2. QED
    BY <2>1, <1>1, <1>3, <1>4, <1>5 DEF TablesOK
<1>11. AsideOK(a, R \ S)
  BY <1>1, <1>4, <1>5, <1>6 DEF AsideOK
<1>12. Good(a, g, R \ S)
  BY <1>1, <1>3, <1>8, <1>9, <1>10, <1>11 DEF Good
<1>13. Covered(m, g, R) => Covered(a, g, R \ S)
  BY <1>3, <1>4, <1>5 DEF Covered
<1>14. QED
  BY <1>3, <1>5, <1>12, <1>13

LEMMA ClearCleared ==
  ASSUME NEW T, NEW t \in DOMAIN T, NEW i
  PROVE  Cleared(T, t, i, Clear(T, t, i))
<1>1. PICK U : U = Clear(T, t, i)
  OBVIOUS
<1>2. U = [T EXCEPT ![t] = [x \in DOMAIN T[t] \ {i} |-> T[t][x]]]
  BY <1>1 DEF Clear
<1>3. DOMAIN U = DOMAIN T /\ \A s \in DOMAIN T \ {t} : U[s] = T[s]
  BY <1>2
<1>4. U[t] = [x \in DOMAIN T[t] \ {i} |-> T[t][x]]
  BY <1>2
<1>5. Cleared(T, t, i, U)
  BY <1>3, <1>4 DEF Cleared
<1>6. QED
  BY <1>1, <1>5

LEMMA ClearedTree ==
  ASSUME NEW T, NEW g, Tree(T, g), NEW t, NEW i, NEW v, Loose(T, g, t, i, v),
         NEW U, Cleared(T, t, i, U)
  PROVE  Tree(U, g) /\ Moved(T, g, U, g, {KernelRoot}, {v})
<1>0. t \in DOMAIN T /\ g.own[t] = KernelRoot /\ i \in Idx
  BY DEF Loose
<1>1. TablesTyped(T, g) /\ TablesLead(T, g) /\ TablesFound(T, g) /\ TablesApart(T, g)
  BY DEF Tree
<1>2. /\ DOMAIN U = DOMAIN T /\ \A s \in DOMAIN T \ {t} : U[s] = T[s]
      /\ DOMAIN U[t] = DOMAIN T[t] \ {i}
      /\ \A j \in DOMAIN T[t] \ {i} : U[t][j] = T[t][j]
  BY DEF Cleared
<1>3. ASSUME NEW s \in DOMAIN U, NEW j \in DOMAIN U[s]
      PROVE  s \in DOMAIN T /\ j \in DOMAIN T[s] /\ U[s][j] = T[s][j]
  BY <1>0, <1>2
<1>4. ASSUME NEW s \in DOMAIN T, NEW j \in DOMAIN T[s], Leads(T, g, s, j)
      PROVE  j \in DOMAIN U[s] /\ U[s][j] = T[s][j] /\ Leads(U, g, s, j)
  <2>1. ~(s = t /\ j = i)
    BY <1>4 DEF Leads, Loose
  <2>2. j \in DOMAIN U[s] /\ U[s][j] = T[s][j]
    BY <2>1, <1>2
  <2>3. QED
    BY <2>2, <1>2, <1>4 DEF Leads
<1>5. ASSUME NEW s, NEW j, Leads(U, g, s, j)
      PROVE  s \in DOMAIN T /\ j \in DOMAIN T[s] /\ U[s][j] = T[s][j] /\ Leads(T, g, s, j)
  BY <1>3, <1>5 DEF Leads
<1>6. TablesTyped(U, g)
  <2>1. /\ KernelRoot \in DOMAIN U
        /\ \A s \in DOMAIN U :
             /\ g.lev[s] \in 1 .. 4 /\ g.own[s] \in DOMAIN U /\ g.key[s] \in Nat
             /\ g.lev[g.own[s]] = 4
             /\ g.lev[s] = 4 => g.own[s] = s /\ g.key[s] = 0
        /\ g.lev[KernelRoot] = 4
        /\ \A s \in DOMAIN U : DOMAIN U[s] \subseteq Idx
    BY <1>1, <1>2 DEF TablesTyped
  <2>2. ASSUME NEW s \in DOMAIN U, NEW j \in DOMAIN U[s]
        PROVE  /\ U[s][j] = [frame |-> U[s][j].frame, huge |-> U[s][j].huge]
               /\ U[s][j].frame \in Nat
               /\ U[s][j].huge \in BOOLEAN
               /\ U[s][j].huge => HugeOK(g, s, j)
    <3>1. s \in DOMAIN T /\ j \in DOMAIN T[s] /\ U[s][j] = T[s][j]
      BY <1>3
    <3>2. /\ T[s][j] = [frame |-> T[s][j].frame, huge |-> T[s][j].huge]
          /\ T[s][j].frame \in Nat
          /\ T[s][j].huge \in BOOLEAN
          /\ T[s][j].huge => HugeOK(g, s, j)
      BY <3>1, <1>1, Zenon DEF TablesTyped
    <3>3. QED
      BY <3>1, <3>2
  <2>3. QED
    BY <2>1, <2>2 DEF TablesTyped
<1>7. TablesLead(U, g)
  <2> SUFFICES ASSUME NEW s \in DOMAIN U, NEW j \in DOMAIN U[s], Leads(U, g, s, j)
               PROVE  Below(U, g, s, j)
    BY DEF TablesLead
  <2>1. Below(T, g, s, j) /\ U[s][j] = T[s][j]
    BY <1>1, <1>5 DEF TablesLead
  <2>2. QED
    BY <2>1, <1>2 DEF Below
<1>8. TablesFound(U, g)
  <2> SUFFICES ASSUME NEW c \in DOMAIN U, g.lev[c] # 4
               PROVE  \E s \in DOMAIN U : \E j \in Idx : FoundAt(U, g, c, s, j)
    BY DEF TablesFound
  <2>1. PICK s \in DOMAIN T, j \in Idx : FoundAt(T, g, c, s, j)
    BY <1>1, <1>2 DEF TablesFound
  <2>2. j \in DOMAIN T[s] /\ Leads(T, g, s, j)
    BY <2>1 DEF FoundAt, Leads
  <2>3. FoundAt(U, g, c, s, j)
    BY <2>1, <2>2, <1>4 DEF FoundAt
  <2>4. QED
    BY <2>3, <1>2
<1>9. TablesApart(U, g)
  BY <1>1, <1>2 DEF TablesApart
<1>10. Tree(U, g)
  BY <1>6, <1>7, <1>8, <1>9 DEF Tree
<1>11. Kept(T, g, U, g, {KernelRoot})
  BY <1>0, <1>2 DEF Kept
<1>12. EntriesKept(T, g, U)
  BY <1>4 DEF EntriesKept
<1>13. RootKept(T, g, U, {v})
  BY <1>3, <1>2 DEF RootKept
<1>14. LeavesKept(T, g, U, {v})
  <2> SUFFICES ASSUME NEW s \in DOMAIN T, NEW j \in Idx, g.lev[s] = 1, Sub(g.key[s], j) # v
               PROVE  /\ j \in DOMAIN U[s] <=> j \in DOMAIN T[s]
                      /\ j \in DOMAIN T[s] => U[s][j] = T[s][j]
    BY DEF LeavesKept
  <2>1. ~(s = t /\ j = i)
    BY DEF Loose
  <2>2. QED
    BY <2>1, <1>2
<1>15. GuardedKept(T, g, U, g, {v})
  BY <1>3 DEF GuardedKept, Guarded
<1>16. Moved(T, g, U, g, {KernelRoot}, {v})
  BY <1>11, <1>12, <1>13, <1>14, <1>15 DEF Moved
<1>17. QED
  BY <1>10, <1>16

LEMMA ClearSound ==
  ASSUME NEW m, NEW g, NEW R, Good(m, g, R), NEW t, NEW i, NEW v, Loose(m.tables, g, t, i, v),
         NEW a, a = [m EXCEPT !.tables = Clear(m.tables, t, i)]
  PROVE  /\ Good(a, g, R) /\ Later(m, g, a, g, {KernelRoot}, {v}) /\ a.ok = m.ok
         /\ Covered(m, g, R) => Covered(a, g, R)
<1>1. /\ IsMemory(m) /\ Framed(m) /\ Tree(m.tables, g) /\ PagesOK(m, g, R) /\ PagesApart(m, g)
      /\ TablesOK(m, g) /\ AsideOK(m, R)
  BY Zenon DEF Good
<1>2. /\ IsMemory(a) /\ SameElse(m, a) /\ a.taken = m.taken /\ a.used = m.used
      /\ a.ok = m.ok /\ a.tables = Clear(m.tables, t, i)
  BY <1>1 DEF IsMemory, SameElse
<1>3. PICK T, U : T = m.tables /\ U = a.tables
  OBVIOUS
<1>4. Cleared(T, t, i, U)
  <2>1. t \in DOMAIN m.tables
    BY DEF Loose
  <2>2. QED
    BY <2>1, <1>2, <1>3, ClearCleared
<1>5. Loose(T, g, t, i, v) /\ Tree(T, g)
  BY <1>1, <1>3
<1>6. Tree(U, g) /\ Moved(T, g, U, g, {KernelRoot}, {v})
  BY <1>4, <1>5, ClearedTree
<1>7. a.ram = m.ram /\ a.ipcPage = m.ipcPage
  BY <1>2 DEF SameElse
<1>8. DOMAIN U = DOMAIN T /\ ~Guarded(T, g, t, i)
  BY <1>4, <1>5 DEF Cleared, Loose, Guarded
<1>9. ASSUME NEW s \in DOMAIN U, NEW j \in DOMAIN U[s]
      PROVE  s \in DOMAIN T /\ j \in DOMAIN T[s] /\ U[s][j] = T[s][j]
  BY <1>4 DEF Cleared
<1>10. ASSUME NEW s \in DOMAIN U, NEW j \in DOMAIN U[s], Guarded(U, g, s, j)
       PROVE  Guarded(T, g, s, j)
  BY <1>9, <1>10 DEF Guarded
<1>11. ASSUME NEW s \in DOMAIN T, NEW j \in DOMAIN T[s], Guarded(T, g, s, j)
       PROVE  j \in DOMAIN U[s] /\ U[s][j] = T[s][j] /\ Guarded(U, g, s, j)
  <2>1. ~(s = t /\ j = i)
    BY <1>8, <1>11
  <2>2. j \in DOMAIN U[s] /\ U[s][j] = T[s][j]
    BY <2>1, <1>4 DEF Cleared
  <2>3. QED
    BY <2>2, <1>8, <1>11 DEF Guarded
<1>12. Common(a) = Common(m) /\ (\A w, x : Placed(a, w, x) <=> Placed(m, w, x))
       /\ (\A x : Plain(a, x) <=> Plain(m, x))
  BY <1>2, <1>3, <1>7, <1>8 DEF Common, Placed, Plain
<1>13. PagesOK(a, g, R)
  <2> SUFFICES ASSUME NEW s \in DOMAIN U, NEW j \in DOMAIN U[s], Guarded(U, g, s, j)
               PROVE  LET x == U[s][j].frame IN
                      IF x \in Common(a)
                      THEN g.own[s] # KernelRoot /\ Placed(a, Sub(g.key[s], j), x)
                      ELSE Plain(a, x) /\ x \notin R
    BY <1>3, Zenon DEF PagesOK
  <2>1. s \in DOMAIN T /\ j \in DOMAIN T[s] /\ U[s][j] = T[s][j] /\ Guarded(T, g, s, j)
    BY <1>9, <1>10
  <2>2. IF T[s][j].frame \in Common(m)
        THEN g.own[s] # KernelRoot /\ Placed(m, Sub(g.key[s], j), T[s][j].frame)
        ELSE Plain(m, T[s][j].frame) /\ T[s][j].frame \notin R
    BY <1>1, <1>3, <2>1, Zenon DEF PagesOK
  <2>3. QED
    BY <2>1, <2>2, <1>12
<1>14. PagesApart(a, g)
  <2> SUFFICES ASSUME NEW s \in DOMAIN U, NEW q \in DOMAIN U, NEW j \in DOMAIN U[s], NEW l \in DOMAIN U[q],
                      Guarded(U, g, s, j), Guarded(U, g, q, l), U[s][j].frame = U[q][l].frame,
                      U[s][j].frame \notin Common(m)
               PROVE  s = q /\ j = l
    BY <1>3, <1>12 DEF PagesApart
  <2>1. /\ s \in DOMAIN T /\ j \in DOMAIN T[s] /\ U[s][j] = T[s][j] /\ Guarded(T, g, s, j)
        /\ q \in DOMAIN T /\ l \in DOMAIN T[q] /\ U[q][l] = T[q][l] /\ Guarded(T, g, q, l)
    BY <1>9, <1>10
  <2>2. QED
    BY <2>1, <1>1, <1>3 DEF PagesApart
<1>15. TablesOK(a, g)
  BY <1>1, <1>2, <1>3, <1>7, <1>8 DEF TablesOK
<1>16. AsideOK(a, R)
  BY <1>1, <1>7, <1>12 DEF AsideOK
<1>17. Framed(a)
  BY <1>1, <1>2, <1>7 DEF Framed
<1>18. Good(a, g, R)
  BY <1>2, <1>3, <1>6, <1>13, <1>14, <1>15, <1>16, <1>17 DEF Good
<1>19. ASSUME Covered(m, g, R) PROVE Covered(a, g, R)
  <2> SUFFICES ASSUME NEW x \in m.taken \cap Managed(m.ram)
               PROVE  \/ x \in Image \/ x \in R \/ x \in DOMAIN U
                      \/ \E s \in DOMAIN U : \E j \in DOMAIN U[s] :
                           Guarded(U, g, s, j) /\ U[s][j].frame = x
    BY <1>2, <1>3, <1>7 DEF Covered
  <2>1. \/ x \in Image \/ x \in R \/ x \in DOMAIN T
        \/ \E s \in DOMAIN T : \E j \in DOMAIN T[s] : Guarded(T, g, s, j) /\ T[s][j].frame = x
    BY <1>3, <1>19 DEF Covered
  <2>2. ASSUME NEW s \in DOMAIN T, NEW j \in DOMAIN T[s], Guarded(T, g, s, j), T[s][j].frame = x
        PROVE  \E q \in DOMAIN U : \E l \in DOMAIN U[q] : Guarded(U, g, q, l) /\ U[q][l].frame = x
    BY <1>8, <1>11, <2>2
  <2>3. QED
    BY <2>1, <2>2, <1>8
<1>20. QED
  BY <1>2, <1>3, <1>6, <1>18, <1>19 DEF Later

----------------------------------------------------------------------------
(* The page directory of a page, what unmap_page and get_phys_in make of   *)
(* it, and the window through which create_user_pml4 reaches a new table.  *)

LEMMA KeyFacts ==
  ASSUME NEW v \in Pages
  PROVE  /\ Pml4Index(v) \in Idx /\ PdptIndex(v) \in Idx /\ PdIndex(v) \in Idx /\ PtIndex(v) \in Idx
         /\ v = Sub(Key1(v), PtIndex(v)) /\ Key2(v) \in Nat /\ Key1(v) \in Nat
<1>1. PICK d4 \in Idx, d3 \in Idx, d2 \in Idx, d1 \in Idx :
        /\ d4 = Pml4Index(v) /\ d3 = PdptIndex(v) /\ d2 = PdIndex(v) /\ d1 = PtIndex(v)
        /\ v = Sub(Sub(Sub(Sub(0, d4), d3), d2), d1)
  BY Digits DEF Pages
<1>2. Sub(0, d4) \in Nat
  BY SubNat
<1>3. Key2(v) \in Nat
  BY <1>1, <1>2, SubNat DEF Key2
<1>4. Key1(v) \in Nat
  BY <1>1, <1>3, SubNat DEF Key1
<1>5. QED
  BY <1>1, <1>3, <1>4 DEF Key1, Key2

\* One step down from a table that is not a page table.
LEMMA LedDown ==
  ASSUME NEW T, NEW g, Tree(T, g), NEW t, NEW o, NEW n \in 2 .. 4, NEW k, AtTable(T, g, t, o, n, k),
         NEW i \in DOMAIN T[t], T[t][i].huge = FALSE, n = 4 => o = KernelRoot \/ i \in UserHalf
  PROVE  Under(T, g, T[t][i].frame, o, n, k, i)
<1>1. TablesTyped(T, g) /\ TablesLead(T, g)
  BY DEF Tree
<1>2. t \in DOMAIN T /\ g.lev[t] = n /\ g.own[t] = o /\ g.key[t] = k
  BY DEF AtTable
<1>3. Leads(T, g, t, i) /\ i \in Idx
  BY <1>1, <1>2 DEF Leads, TablesTyped
<1>4. Below(T, g, t, i)
  BY <1>1, <1>2, <1>3 DEF TablesLead
<1>5. OwnerBelow(g, t, i) = o
  BY <1>2, <1>3, Bases DEF OwnerBelow
<1>6. QED
  BY <1>2, <1>4, <1>5 DEF Below, Under, AtTable

LEMMA PdFound ==
  ASSUME NEW m, NEW g, NEW R, Good(m, g, R), NEW o, NEW v, RootOf(m.tables, g, o, v),
         NEW d, d = PdOf(m, o, v), d # None
  PROVE  /\ AtTable(m.tables, g, d, o, 2, Key2(v))
         /\ \E t3 : Leading(m.tables, o, Pml4Index(v), t3) /\ Leading(m.tables, t3, PdptIndex(v), d)
                    /\ AtTable(m.tables, g, t3, o, 3, Sub(0, Pml4Index(v)))
<1>1. Tree(m.tables, g) /\ TablesTyped(m.tables, g)
  BY Zenon DEF Good, Tree
<1>2. /\ o \in DOMAIN m.tables /\ g.lev[o] = 4 /\ v \in Pages
      /\ o = KernelRoot \/ Pml4Index(v) \in UserHalf
  BY DEF RootOf
<1>3. PICK i4 \in Idx, i3 \in Idx : i4 = Pml4Index(v) /\ i3 = PdptIndex(v)
  BY <1>2, KeyFacts
<1>4. PICK t3 : t3 = Child(m, o, i4)
  OBVIOUS
<1>5. d = Child(m, t3, i3)
  BY <1>3, <1>4 DEF PdOf
<1>6. t3 # None /\ i3 \in DOMAIN m.tables[t3] /\ d = m.tables[t3][i3].frame
  BY <1>5 DEF Child, Present
<1>7. i4 \in DOMAIN m.tables[o] /\ t3 = m.tables[o][i4].frame
  BY <1>4, <1>6 DEF Child, Present
<1>8. \A t \in DOMAIN m.tables : \A i \in DOMAIN m.tables[t] :
        g.lev[t] # 2 => m.tables[t][i].huge = FALSE
  BY <1>1 DEF TablesTyped, HugeOK
<1>9. AtTable(m.tables, g, o, o, 4, 0)
  BY <1>1, <1>2 DEF AtTable, TablesTyped
<1>10. AtTable(m.tables, g, t3, o, 3, Sub(0, i4)) /\ m.tables[o][i4].huge = FALSE
  <2>1. PICK n, k : n = 4 /\ n \in 2 .. 4 /\ n - 1 = 3 /\ k = 0
    OBVIOUS
  <2>2. AtTable(m.tables, g, o, o, n, k) /\ (n = 4 => o = KernelRoot \/ i4 \in UserHalf)
    BY <1>2, <1>3, <1>9, <2>1
  <2>3. m.tables[o][i4].huge = FALSE
    BY <1>2, <1>7, <1>8
  <2>4. Under(m.tables, g, m.tables[o][i4].frame, o, n, k, i4)
    BY <1>1, <1>7, <2>1, <2>2, <2>3, LedDown
  <2>5. QED
    BY <1>7, <2>1, <2>3, <2>4 DEF Under
<1>11. AtTable(m.tables, g, d, o, 2, Sub(Sub(0, i4), i3)) /\ m.tables[t3][i3].huge = FALSE
  <2>1. PICK n, k : n = 3 /\ n \in 2 .. 4 /\ n - 1 = 2 /\ k = Sub(0, i4)
    OBVIOUS
  <2>2. AtTable(m.tables, g, t3, o, n, k) /\ (n = 4 => o = KernelRoot \/ i3 \in UserHalf)
    BY <1>10, <2>1
  <2>3. m.tables[t3][i3].huge = FALSE
    BY <1>6, <1>8, <1>10 DEF AtTable
  <2>4. Under(m.tables, g, m.tables[t3][i3].frame, o, n, k, i3)
    BY <1>1, <1>6, <2>1, <2>2, <2>3, LedDown
  <2>5. QED
    BY <1>6, <2>1, <2>3, <2>4 DEF Under
<1>12. Leading(m.tables, o, i4, t3) /\ Leading(m.tables, t3, i3, d)
  BY <1>2, <1>6, <1>7, <1>10, <1>11 DEF Leading, AtTable
<1>13. QED
  BY <1>3, <1>10, <1>11, <1>12 DEF Key2

\* The table behind an entry of such a directory that is not huge.
LEMMA PtFound ==
  ASSUME NEW m, NEW g, NEW R, Good(m, g, R), NEW o, NEW v, RootOf(m.tables, g, o, v),
         NEW d, d = PdOf(m, o, v), d # None, NEW i, i = PdIndex(v), i \in DOMAIN m.tables[d],
         m.tables[d][i].huge = FALSE, NEW t, t = m.tables[d][i].frame
  PROVE  /\ AtTable(m.tables, g, t, o, 1, Key1(v))
         /\ \E t3 : Way(m.tables, g, o, v, t3, d, t)
<1>1. Tree(m.tables, g)
  BY Zenon DEF Good
<1>2. AtTable(m.tables, g, d, o, 2, Key2(v))
  BY PdFound
<1>3. PICK t3 : /\ Leading(m.tables, o, Pml4Index(v), t3) /\ Leading(m.tables, t3, PdptIndex(v), d)
                /\ AtTable(m.tables, g, t3, o, 3, Sub(0, Pml4Index(v)))
  BY PdFound
<1>4. AtTable(m.tables, g, t, o, 1, Key1(v))
  <2>1. PICK n, k : n = 2 /\ n \in 2 .. 4 /\ n - 1 = 1 /\ k = Key2(v)
    OBVIOUS
  <2>2. AtTable(m.tables, g, d, o, n, k) /\ (n = 4 => o = KernelRoot \/ i \in UserHalf)
    BY <1>2, <2>1
  <2>3. Under(m.tables, g, m.tables[d][i].frame, o, n, k, i)
    BY <1>1, <2>1, <2>2, LedDown
  <2>4. QED
    BY <2>1, <2>3 DEF Under, Key1
<1>5. Leading(m.tables, d, i, t)
  <2>1. i \in Idx /\ d \in DOMAIN m.tables
    BY <1>2, KeyFacts DEF RootOf, AtTable
  <2>2. QED
    BY <2>1 DEF Leading
<1>6. o = KernelRoot \/ Pml4Index(v) \in UserHalf
  BY DEF RootOf
<1>7. Way(m.tables, g, o, v, t3, d, t)
  BY <1>2, <1>3, <1>4, <1>5, <1>6 DEF Way
<1>8. QED
  BY <1>4, <1>7

LEMMA UnmapPageSound ==
  ASSUME NEW m, NEW g, NEW R, Good(m, g, R), NEW v \in Pages, ~InHeap(v), NEW a, a = UnmapPage(m, v)
  PROVE  /\ Good(a, g, R) /\ Later(m, g, a, g, {KernelRoot}, {v}) /\ a.ok = m.ok
         /\ Covered(m, g, R) => Covered(a, g, R)
<1>1. TablesTyped(m.tables, g)
  BY Zenon DEF Good, Tree
<1>2. PICK o : o = KernelRoot
  OBVIOUS
<1>3. RootOf(m.tables, g, o, v)
  BY <1>1, <1>2 DEF RootOf, TablesTyped
<1>4. PICK d, i : d = PdOf(m, o, v) /\ i = PdIndex(v) /\ i \in Idx
  BY KeyFacts
<1>5. a = UnmapIn(m, d, v)
  BY <1>2, <1>4 DEF UnmapPage
<1>6. CASE d = None \/ i \notin DOMAIN m.tables[d]
  <2>1. a = m
    BY <1>4, <1>5, <1>6 DEF UnmapIn, Present
  <2>2. Later(m, g, a, g, {KernelRoot}, {v})
    BY <2>1, LaterSelf DEF SameElse
  <2>3. QED
    BY <2>1, <2>2
<1>7. CASE d # None /\ i \in DOMAIN m.tables[d]
  <2>1. AtTable(m.tables, g, d, o, 2, Key2(v))
    BY <1>3, <1>4, <1>7, PdFound
  <2>2. m.tables[d][i].huge \in BOOLEAN
    BY <1>1, <1>7, <2>1 DEF TablesTyped, AtTable
  <2>3. CASE m.tables[d][i].huge = TRUE
    <3>1. a = [m EXCEPT !.tables = Clear(m.tables, d, i)]
      BY <1>4, <1>5, <1>7, <2>3 DEF UnmapIn, Present
    <3>2. Loose(m.tables, g, d, i, v)
      <4>1. i \in Idx
        BY <1>4
      <4>2. QED
        BY <4>1, <1>2, <1>7, <2>1, <2>3 DEF Loose, AtTable
    <3>3. QED
      BY <3>1, <3>2, ClearSound
  <2>4. CASE m.tables[d][i].huge = FALSE
    <3>1. PICK t, j : t = m.tables[d][i].frame /\ j = PtIndex(v) /\ j \in Idx
      BY KeyFacts
    <3>2. a = [m EXCEPT !.tables = Clear(m.tables, t, j)]
      BY <1>4, <1>5, <1>7, <2>4, <3>1 DEF UnmapIn, Present
    <3>3. AtTable(m.tables, g, t, o, 1, Key1(v))
      BY <1>3, <1>4, <1>7, <2>4, <3>1, PtFound
    <3>4. v = Sub(Key1(v), j)
      BY <3>1, KeyFacts
    <3>5. Loose(m.tables, g, t, j, v)
      <4>1. j \in Idx
        BY <3>1
      <4>2. QED
        BY <4>1, <1>2, <3>3, <3>4 DEF Loose, AtTable
    <3>6. QED
      BY <3>2, <3>5, ClearSound
  <2>5. QED
    BY <2>2, <2>3, <2>4
<1>8. QED
  BY <1>6, <1>7

LEMMA TempPage ==
  /\ TempWindow \in Pages /\ ~InHeap(TempWindow) /\ InHeapPart(TempWindow)
  /\ Pml4Index(TempWindow) = W - 3 /\ W - 3 \in KernelHalf
<1>1. TempWindow \in Nat /\ W - 3 \in KernelHalf
  BY Bases
<1>2. InHeapPart(TempWindow) /\ ~InHeap(TempWindow)
  <2>1. HeapStart < TempWindow /\ TempWindow < Page(W - 2, 0, 0, 0)
    <3>1. W - 3 \in Nat /\ (W - 3) + 1 = W - 2
      BY WBound
    <3>2. QED
      BY <3>1, PageStep DEF HeapStart, TempWindow
  <2>2. HeapStart \in Nat
    BY Bases
  <2>3. QED
    BY <1>1, <2>1, <2>2 DEF InHeapPart, InHeap
<1>3. QED
  BY <1>1, <1>2, KernelPage

LEMMA KernelRootOf ==
  ASSUME NEW T, NEW g, Tree(T, g), NEW v \in Pages
  PROVE  RootOf(T, g, KernelRoot, v)
BY DEF Tree, TablesTyped, RootOf

LEMMA WindowKept ==
  ASSUME NEW T, NEW g, NEW U, NEW h, NEW O, NEW V, Moved(T, g, U, h, O, V), Window(T, g)
  PROVE  Window(U, h)
<1>1. PICK t \in DOMAIN T : AtTable(T, g, t, KernelRoot, 1, Key1(TempWindow))
  BY DEF Window
<1>2. PICK n, k, o : n = 1 /\ k = Key1(TempWindow) /\ o = KernelRoot
  OBVIOUS
<1>3. AtTable(T, g, t, o, n, k)
  BY <1>1, <1>2
<1>4. AtTable(U, h, t, o, n, k)
  BY <1>3, AtKept
<1>5. QED
  BY <1>2, <1>4 DEF Window, AtTable

\* Root entries lead to tables.
LEMMA RootLeads ==
  ASSUME NEW T, NEW g, TablesTyped(T, g), NEW r \in DOMAIN T, g.lev[r] = 4, NEW i \in DOMAIN T[r]
  PROVE  Leads(T, g, r, i) /\ T[r][i].huge = FALSE
<1>1. T[r][i].huge \in BOOLEAN /\ (T[r][i].huge => HugeOK(g, r, i))
  BY DEF TablesTyped
<1>2. QED
  BY <1>1 DEF HugeOK, Leads

LEMMA KernelHalfKept ==
  ASSUME NEW T, NEW g, Tree(T, g), NEW U, NEW h, NEW O, NEW V, Moved(T, g, U, h, O, V),
         Settled(T, V), NEW i \in KernelHalf
  PROVE  /\ i \in DOMAIN U[KernelRoot] <=> i \in DOMAIN T[KernelRoot]
         /\ i \in DOMAIN T[KernelRoot] => U[KernelRoot][i] = T[KernelRoot][i]
<1>1. TablesTyped(T, g) /\ KernelRoot \in DOMAIN T /\ g.lev[KernelRoot] = 4
  BY DEF Tree, TablesTyped
<1>2. EntriesKept(T, g, U) /\ RootKept(T, g, U, V)
  BY DEF Moved
<1>3. i \in DOMAIN T[KernelRoot] => i \in DOMAIN U[KernelRoot] /\ U[KernelRoot][i] = T[KernelRoot][i]
  BY <1>1, <1>2, RootLeads DEF EntriesKept
<1>4. i \in DOMAIN U[KernelRoot] => i \in DOMAIN T[KernelRoot] \/ \E v \in V : i = Pml4Index(v)
  BY <1>1, <1>2 DEF RootKept, Settled
<1>5. QED
  BY <1>3, <1>4 DEF Settled

LEMMA AgreesKept ==
  ASSUME NEW T, NEW g, Tree(T, g), NEW U, NEW h, NEW O, NEW V, Moved(T, g, U, h, O, V),
         Settled(T, V), NEW r, U[r] = T[r], Agrees(T, r)
  PROVE  Agrees(U, r)
BY KernelHalfKept DEF Agrees

\* get_phys_in finds what is in a page table.
LEMMA LeafPhys ==
  ASSUME NEW m, NEW g, NEW R, Good(m, g, R), NEW o, NEW v, NEW f, Leaf(m.tables, g, o, v, f)
  PROVE  GetPhysIn(m, o, v) = f
<1>1. Tree(m.tables, g) /\ TablesTyped(m.tables, g) /\ TablesOK(m, g)
  BY Zenon DEF Good, Tree
<1>2. PICK t \in DOMAIN m.tables : \E i \in DOMAIN m.tables[t] :
        g.lev[t] = 1 /\ g.own[t] = o /\ Sub(g.key[t], i) = v /\ m.tables[t][i].frame = f
  BY DEF Leaf
<1>3. PICK i \in DOMAIN m.tables[t] :
        g.lev[t] = 1 /\ g.own[t] = o /\ Sub(g.key[t], i) = v /\ m.tables[t][i].frame = f
  BY <1>2
<1>4. PICK k : k = g.key[t]
  OBVIOUS
<1>5. AtTable(m.tables, g, t, o, 1, k) /\ v = Sub(k, i) /\ i \in Idx
  BY <1>1, <1>3, <1>4 DEF AtTable, TablesTyped
<1>6. v \in Pages
  BY <1>1, LeafPage
<1>7. i = PtIndex(v) /\ \E t3, t2 : Way(m.tables, g, o, v, t3, t2, t)
  BY <1>1, <1>5, <1>6, WayFound
<1>8. GetPhysIn(m, o, v) = Child(m, t, PtIndex(v))
  BY <1>6, <1>7, WayRead
<1>9. t # None /\ i \in DOMAIN m.tables[t]
  BY <1>1 DEF TablesOK
<1>10. QED
  BY <1>3, <1>7, <1>8, <1>9 DEF Child, Present

\* If it finds something in the window, the window has a page table.
LEMMA PhysWindow ==
  ASSUME NEW m, NEW g, NEW R, Good(m, g, R), GetPhysIn(m, KernelRoot, TempWindow) # None
  PROVE  Window(m.tables, g)
<1>1. Tree(m.tables, g) /\ TablesTyped(m.tables, g)
  BY Zenon DEF Good, Tree
<1>2. PICK v, o : v = TempWindow /\ o = KernelRoot
  OBVIOUS
<1>3. v \in Pages /\ RootOf(m.tables, g, o, v)
  BY <1>1, <1>2, TempPage, KernelRootOf
<1>4. PICK d, i : d = PdOf(m, o, v) /\ i = PdIndex(v)
  OBVIOUS
<1>5. PhysIn(m, d, v) # None
  BY <1>2, <1>4 DEF GetPhysIn
<1>6. d # None /\ i \in DOMAIN m.tables[d]
  BY <1>4, <1>5 DEF PhysIn, Present
<1>7. AtTable(m.tables, g, d, o, 2, Key2(v))
  BY <1>3, <1>4, <1>6, PdFound
<1>8. m.tables[d][i].huge = FALSE
  <2>1. m.tables[d][i].huge \in BOOLEAN /\ (m.tables[d][i].huge => HugeOK(g, d, i))
    BY <1>1, <1>6, <1>7 DEF TablesTyped, AtTable
  <2>2. v = Sub(Sub(g.key[d], i), PtIndex(v)) /\ PtIndex(v) \in Idx
    BY <1>3, <1>4, <1>7, KeyFacts DEF AtTable, Key1
  <2>3. ~HugeOK(g, d, i)
    BY <1>2, <2>2, TempPage DEF HugeOK
  <2>4. QED
    BY <2>1, <2>3
<1>9. AtTable(m.tables, g, m.tables[d][i].frame, o, 1, Key1(v))
  BY <1>3, <1>4, <1>6, <1>8, PtFound
<1>10. QED
  BY <1>2, <1>9 DEF Window, AtTable

\* Whoever agrees with the kernel sees the same in the window.
LEMMA SamePhys ==
  ASSUME NEW m, NEW g, NEW R, Good(m, g, R), NEW r \in DOMAIN m.tables, Agrees(m.tables, r)
  PROVE  GetPhysIn(m, r, TempWindow) = GetPhysIn(m, KernelRoot, TempWindow)
<1>1. r # None /\ KernelRoot # None
  <2>1. TablesOK(m, g) /\ KernelRoot \in DOMAIN m.tables
    BY Zenon DEF Good, Tree, TablesTyped
  <2>2. QED
    BY <2>1 DEF TablesOK
<1>2. PICK i \in KernelHalf : i = Pml4Index(TempWindow)
  BY TempPage
<1>3. Child(m, r, i) = Child(m, KernelRoot, i)
  BY <1>1 DEF Agrees, Child, Present
<1>4. PdOf(m, r, TempWindow) = PdOf(m, KernelRoot, TempWindow)
  BY <1>2, <1>3 DEF PdOf
<1>5. QED
  BY <1>4 DEF GetPhysIn

\* No table is missing on the way to the window, so that it can be mapped.
LEMMA WindowMap ==
  ASSUME NEW m, NEW g, NEW R, Good(m, g, R), m.ok = TRUE, Window(m.tables, g), NEW f,
         NEW a, a = MapPageIn(m, KernelRoot, TempWindow, f)
  PROVE  a.ok = TRUE
<1>1. Tree(m.tables, g) /\ TablesTyped(m.tables, g) /\ IsMemory(m)
  BY Zenon DEF Good, Tree
<1>2. PICK v, o : v = TempWindow /\ o = KernelRoot
  OBVIOUS
<1>3. v \in Pages
  BY <1>2, TempPage
<1>4. PICK i4, i3, i2, i1 : /\ i4 = Pml4Index(v) /\ i3 = PdptIndex(v) /\ i2 = PdIndex(v)
                            /\ i1 = PtIndex(v)
  OBVIOUS
<1>5. PICK t1 : AtTable(m.tables, g, t1, o, 1, Key1(v))
  BY <1>2 DEF Window
<1>6. PICK t3, t2 : Way(m.tables, g, o, v, t3, t2, t1)
  <2>1. PICK i \in Idx : i = PtIndex(v) /\ v = Sub(Key1(v), i)
    BY <1>3, KeyFacts
  <2>2. QED
    BY <1>1, <1>3, <1>5, <2>1, WayFound
<1>7. /\ Leading(m.tables, o, i4, t3) /\ Leading(m.tables, t3, i3, t2)
      /\ Leading(m.tables, t2, i2, t1)
  BY <1>4, <1>6 DEF Way
<1>8. PICK m4, m3, m2, ms, m1 :
        /\ m4 = [m EXCEPT !.at = o] /\ m3 = GetOrCreateTable(m4, i4)
        /\ m2 = GetOrCreateTable(m3, i3) /\ ms = SplitHuge(m2, i2)
        /\ m1 = GetOrCreateTable(ms, i2)
  OBVIOUS
<1>9. a = SetEntry(m1, i1, f)
  BY <1>2, <1>4, <1>8 DEF MapPageIn
<1>10. m4.ok = TRUE /\ m4.tables = m.tables /\ m4.at = o /\ IsMemory(m4)
  BY <1>1, <1>8 DEF IsMemory
<1>11. m3 = [m4 EXCEPT !.at = t3]
  <2>1. Present(m4, m4.at, i4) /\ m4.tables[m4.at][i4].frame = t3
    BY <1>7, <1>10 DEF Leading, Present
  <2>2. QED
    BY <1>8, <1>10, <2>1 DEF GetOrCreateTable
<1>12. m3.ok = TRUE /\ m3.tables = m.tables /\ m3.at = t3 /\ IsMemory(m3)
  BY <1>10, <1>11 DEF IsMemory
<1>13. m2 = [m3 EXCEPT !.at = t2]
  <2>1. Present(m3, m3.at, i3) /\ m3.tables[m3.at][i3].frame = t2
    BY <1>7, <1>12 DEF Leading, Present
  <2>2. QED
    BY <1>8, <1>12, <2>1 DEF GetOrCreateTable
<1>14. m2.ok = TRUE /\ m2.tables = m.tables /\ m2.at = t2 /\ IsMemory(m2)
  BY <1>12, <1>13 DEF IsMemory
<1>15. ms = m2
  <2>1. ~m2.tables[m2.at][i2].huge
    BY <1>7, <1>14 DEF Leading
  <2>2. QED
    BY <1>8, <2>1 DEF SplitHuge
<1>16. m1 = [ms EXCEPT !.at = t1]
  <2>1. Present(ms, ms.at, i2) /\ ms.tables[ms.at][i2].frame = t1
    BY <1>7, <1>14, <1>15 DEF Leading, Present
  <2>2. QED
    BY <1>8, <1>14, <1>15, <2>1 DEF GetOrCreateTable
<1>17. m1.ok = TRUE
  BY <1>14, <1>15, <1>16 DEF IsMemory
<1>18. QED
  BY <1>9, <1>17, <1>14, <1>15, <1>16 DEF SetEntry, IsMemory

LEMMA PlainFree ==
  ASSUME NEW m, NEW T, NEW g, NEW f, NEW R
  PROVE  /\ May(m, KernelRoot, TempWindow, f, R) /\ Rest(m, KernelRoot, TempWindow, f, R) = R
         /\ Fresh(T, g, KernelRoot, TempWindow)
<1>1. ~Guards(KernelRoot, TempWindow)
  BY TempPage DEF Guards
<1>2. Fresh(T, g, KernelRoot, TempWindow)
  BY TempPage DEF Fresh, Guarded
<1>3. QED
  BY <1>1, <1>2 DEF May, Rest

LEMMA WindowSettles ==
  ASSUME NEW T, NEW g, Tree(T, g), Window(T, g)
  PROVE  Settled(T, {TempWindow})
<1>1. PICK v, o : v = TempWindow /\ o = KernelRoot
  OBVIOUS
<1>2. v \in Pages
  BY <1>1, TempPage
<1>3. PICK t1 : AtTable(T, g, t1, o, 1, Key1(v))
  BY <1>1 DEF Window
<1>4. PICK i \in Idx : i = PtIndex(v) /\ v = Sub(Key1(v), i)
  BY <1>2, KeyFacts
<1>5. PICK t3, t2 : Way(T, g, o, v, t3, t2, t1)
  BY <1>2, <1>3, <1>4, WayFound
<1>6. Pml4Index(v) \in DOMAIN T[o]
  BY <1>5 DEF Way, Leading
<1>7. QED
  BY <1>1, <1>6 DEF Settled

LEMMA RootUnmoved ==
  ASSUME NEW T, NEW g, Tree(T, g), NEW U, NEW h, NEW O, NEW V, Moved(T, g, U, h, O, V),
         NEW r \in DOMAIN T, g.lev[r] = 4
  PROVE  /\ r \in DOMAIN U /\ h.lev[r] = 4 /\ h.own[r] = r /\ g.own[r] = r
         /\ r \notin O => U[r] = T[r]
<1>1. TablesTyped(T, g) /\ Kept(T, g, U, h, O)
  BY DEF Tree, Moved
<1>2. g.own[r] = r
  BY <1>1 DEF TablesTyped
<1>3. QED
  BY <1>1, <1>2 DEF Kept

LEMMA SeesKept ==
  ASSUME NEW T, NEW g, Tree(T, g), NEW U, NEW h, NEW O, Moved(T, g, U, h, O, {TempWindow}),
         NEW r, Sees(T, g, r), r = KernelRoot \/ r \notin O
  PROVE  Sees(U, h, r)
<1>1. r \in DOMAIN U /\ h.lev[r] = 4 /\ (r \notin O => U[r] = T[r])
  BY RootUnmoved DEF Sees
<1>2. CASE r = KernelRoot
  BY <1>1, <1>2 DEF Sees, Agrees
<1>3. CASE r # KernelRoot
  <2>1. Window(T, g) /\ U[r] = T[r] /\ Agrees(T, r)
    BY <1>1, <1>3 DEF Sees
  <2>2. Window(U, h)
    BY <2>1, WindowKept
  <2>3. Agrees(U, r)
    BY <2>1, WindowSettles, AgreesKept
  <2>4. QED
    BY <1>1, <2>2, <2>3 DEF Sees
<1>4. QED
  BY <1>2, <1>3

LEMMA MapWindow ==
  ASSUME NEW m, NEW g, NEW R, Good(m, g, R), m.ok = TRUE, NEW f \in Nat,
         NEW a, a = MapPageIn(m, KernelRoot, TempWindow, f)
  PROVE  \E h : /\ Good(a, h, R) /\ Later(m, g, a, h, {KernelRoot}, {TempWindow})
                /\ a.ok = TRUE => Leaf(a.tables, h, KernelRoot, TempWindow, f)
                /\ Covered(m, g, R) => Covered(a, h, R)
<1>1. Tree(m.tables, g)
  BY Zenon DEF Good
<1>2. PICK o, v : o = KernelRoot /\ v = TempWindow
  OBVIOUS
<1>3. May(m, o, v, f, R) /\ Rest(m, o, v, f, R) = R /\ Fresh(m.tables, g, o, v)
  BY <1>2, PlainFree
<1>4. RootOf(m.tables, g, o, v)
  BY <1>1, <1>2, TempPage, KernelRootOf
<1>5. PICK b : b = MapPageIn(m, o, v, f)
  OBVIOUS
<1>6. May(m, o, v, f, R)
  BY <1>3
<1>7. Mapping(m, g, R, o, v, f, b)
  BY <1>4, <1>5, <1>6, MapPageSound
<1>8. a = b
  BY <1>2, <1>5
<1>9. QED
  BY <1>2, <1>3, <1>7, <1>8 DEF Mapping

\* What map_temp does, and when it cannot fail.
LEMMA MapTempSound ==
  ASSUME NEW m, NEW g, NEW R, Good(m, g, R), m.ok = TRUE, NEW r, Sees(m.tables, g, r),
         NEW f \in Nat \ {None}, NEW a, a = MapTemp(m, r, f)
  PROVE  \E h : WindowMapped(m, g, R, a, h)
<1>1. PICK b : b = MapPageIn(m, KernelRoot, TempWindow, f)
  OBVIOUS
<1>2. Tree(m.tables, g)
  BY Zenon DEF Good
<1>3. PICK h : /\ Good(b, h, R) /\ Later(m, g, b, h, {KernelRoot}, {TempWindow})
               /\ b.ok = TRUE => Leaf(b.tables, h, KernelRoot, TempWindow, f)
               /\ Covered(m, g, R) => Covered(b, h, R)
  <2>1. f \in Nat
    OBVIOUS
  <2>2. QED
    BY <1>1, <2>1, MapWindow
<1>4. a = Touch(b, r, f)
  BY <1>1 DEF MapTemp
<1>5. PICK good \in BOOLEAN : good = (GetPhysIn(b, r, TempWindow) = f)
  OBVIOUS
<1>6. IsMemory(b)
  BY <1>3, Zenon DEF Good
<1>7. /\ IsMemory(a) /\ a.ram = b.ram /\ a.taken = b.taken /\ a.used = b.used
      /\ a.tables = b.tables /\ a.ipcPage = b.ipcPage /\ a.heapEnd = b.heapEnd
      /\ a.threads = b.threads /\ a.root = b.root
      /\ (a.ok = TRUE => GetPhysIn(b, r, TempWindow) = f /\ a.fault = FALSE)
      /\ (GetPhysIn(b, r, TempWindow) = f => a.ok = TRUE)
  <2>1. a = [b EXCEPT !.ok = good, !.fault = ~good]
    BY <1>4, <1>5 DEF Touch
  <2>2. QED
    BY <2>1, <1>5, <1>6 DEF IsMemory
<1>8. Good(a, h, R)
  BY <1>3, <1>7, GoodSame
<1>9. Still(m, a) /\ a.root = m.root
  BY <1>3, <1>7 DEF Still, Later, SameElse
<1>10. Covered(m, g, R) => Covered(a, h, R)
  BY <1>3, <1>7 DEF Covered
<1>11. Moved(m.tables, g, b.tables, h, {KernelRoot}, {TempWindow})
  BY <1>3 DEF Later
<1>12. Sees(b.tables, h, r)
  BY <1>2, <1>11, SeesKept
<1>13. GetPhysIn(b, r, TempWindow) = GetPhysIn(b, KernelRoot, TempWindow)
  BY <1>3, <1>12, SamePhys DEF Sees
<1>14. a.ok = TRUE => Window(a.tables, h)
  BY <1>3, <1>7, <1>13, PhysWindow
<1>15. Window(m.tables, g) => a.ok = TRUE
  <2> SUFFICES ASSUME Window(m.tables, g) PROVE a.ok = TRUE
    OBVIOUS
  <2>1. b.ok = TRUE
    BY <1>1, WindowMap
  <2>2. Leaf(b.tables, h, KernelRoot, TempWindow, f)
    BY <1>3, <2>1
  <2>3. GetPhysIn(b, KernelRoot, TempWindow) = f
    BY <1>3, <2>2, LeafPhys
  <2>4. QED
    BY <1>7, <1>13, <2>3
<1>16. QED
  BY <1>7, <1>8, <1>9, <1>10, <1>11, <1>14, <1>15 DEF WindowMapped

LEMMA UnmapTempSound ==
  ASSUME NEW m, NEW g, NEW R, Good(m, g, R), NEW a, a = UnmapTemp(m)
  PROVE  /\ Good(a, g, R) /\ Moved(m.tables, g, a.tables, g, {KernelRoot}, {TempWindow})
         /\ SameElse(m, a) /\ a.ok = m.ok
         /\ Covered(m, g, R) => Covered(a, g, R)
<1>1. m.ok \in BOOLEAN
  BY Zenon DEF Good, IsMemory
<1>2. CASE m.ok = FALSE
  <2>1. a = m
    BY <1>2 DEF UnmapTemp
  <2>2. QED
    BY <2>1, MovedSelf DEF SameElse
<1>3. CASE m.ok = TRUE
  <2>1. PICK v : v = TempWindow
    OBVIOUS
  <2>2. a = UnmapPage(m, v) /\ v \in Pages /\ ~InHeap(v)
    BY <1>3, <2>1, TempPage DEF UnmapTemp
  <2>3. /\ Good(a, g, R) /\ Later(m, g, a, g, {KernelRoot}, {v}) /\ a.ok = m.ok
        /\ Covered(m, g, R) => Covered(a, g, R)
    BY <2>2, UnmapPageSound
  <2>4. QED
    BY <2>1, <2>3 DEF Later
<1>4. QED
  BY <1>1, <1>2, <1>3

----------------------------------------------------------------------------
(* A new root, first empty, then with the kernel's half.                   *)

LEMMA NewRootTree ==
  ASSUME NEW T, NEW g, Tree(T, g), NEW c \in Nat, c \notin DOMAIN T,
         NEW U, U = MakeTable(T, c, EmptyTable), NEW h, h = RootAdded(T, g, c)
  PROVE  Tree(U, h) /\ Moved(T, g, U, h, {c}, {}) /\ RootNew(T, g, c, U, h)
<1>1. /\ DOMAIN U = DOMAIN T \cup {c} /\ DOMAIN U[c] = {}
      /\ \A t \in DOMAIN T : t # c /\ U[t] = T[t]
  BY DEF MakeTable, EmptyTable
<1>2. /\ \A t \in DOMAIN T : h.lev[t] = g.lev[t] /\ h.own[t] = g.own[t] /\ h.key[t] = g.key[t]
      /\ h.lev[c] = 4 /\ h.own[c] = c /\ h.key[c] = 0
  BY DEF RootAdded
<1>3. TablesTyped(T, g) /\ TablesLead(T, g) /\ TablesFound(T, g) /\ TablesApart(T, g)
  BY DEF Tree
<1>4. ASSUME NEW t \in DOMAIN U, NEW i \in DOMAIN U[t]
      PROVE  t \in DOMAIN T /\ i \in DOMAIN T[t] /\ U[t][i] = T[t][i]
  BY <1>1
<1>5. TablesTyped(U, h)
  <2>1. \A t \in DOMAIN U : /\ h.lev[t] \in 1 .. 4 /\ h.own[t] \in DOMAIN U /\ h.key[t] \in Nat
                            /\ h.lev[h.own[t]] = 4
                            /\ h.lev[t] = 4 => h.own[t] = t /\ h.key[t] = 0
    <3> SUFFICES ASSUME NEW t \in DOMAIN U
                 PROVE  /\ h.lev[t] \in 1 .. 4 /\ h.own[t] \in DOMAIN U /\ h.key[t] \in Nat
                        /\ h.lev[h.own[t]] = 4
                        /\ h.lev[t] = 4 => h.own[t] = t /\ h.key[t] = 0
      OBVIOUS
    <3>1. CASE t = c
      BY <3>1, <1>1, <1>2
    <3>2. CASE t # c
      <4>1. /\ t \in DOMAIN T /\ g.lev[t] \in 1 .. 4 /\ g.own[t] \in DOMAIN T /\ g.key[t] \in Nat
            /\ g.lev[g.own[t]] = 4
            /\ g.lev[t] = 4 => g.own[t] = t /\ g.key[t] = 0
        BY <3>2, <1>1, <1>3 DEF TablesTyped
      <4>2. h.lev[g.own[t]] = 4 /\ g.own[t] \in DOMAIN U
        BY <4>1, <1>1, <1>2
      <4>3. QED
        BY <4>1, <4>2, <1>2
    <3>3. QED
      BY <3>1, <3>2
  <2>2. KernelRoot \in DOMAIN U /\ h.lev[KernelRoot] = 4
    BY <1>1, <1>2, <1>3 DEF TablesTyped
  <2>3. \A t \in DOMAIN U : DOMAIN U[t] \subseteq Idx
    BY <1>1, <1>3 DEF TablesTyped
  <2>4. ASSUME NEW t \in DOMAIN U, NEW i \in DOMAIN U[t]
        PROVE  /\ U[t][i] = [frame |-> U[t][i].frame, huge |-> U[t][i].huge]
               /\ U[t][i].frame \in Nat
               /\ U[t][i].huge \in BOOLEAN
               /\ U[t][i].huge => HugeOK(h, t, i)
    <3>1. t \in DOMAIN T /\ i \in DOMAIN T[t] /\ U[t][i] = T[t][i]
      BY <1>4
    <3>2. /\ T[t][i] = [frame |-> T[t][i].frame, huge |-> T[t][i].huge]
          /\ T[t][i].frame \in Nat
          /\ T[t][i].huge \in BOOLEAN
          /\ T[t][i].huge => HugeOK(g, t, i)
      BY <3>1, <1>3, Zenon DEF TablesTyped
    <3>3. HugeOK(g, t, i) => HugeOK(h, t, i)
      BY <3>1, <1>2 DEF HugeOK
    <3>4. QED
      BY <3>1, <3>2, <3>3
  <2>5. QED
    BY <2>1, <2>2, <2>3, <2>4 DEF TablesTyped
<1>6. TablesLead(U, h)
  <2> SUFFICES ASSUME NEW t \in DOMAIN U, NEW i \in DOMAIN U[t], Leads(U, h, t, i)
               PROVE  Below(U, h, t, i)
    BY DEF TablesLead
  <2>1. t \in DOMAIN T /\ i \in DOMAIN T[t] /\ U[t][i] = T[t][i]
    BY <1>4
  <2>2. Leads(T, g, t, i)
    BY <2>1, <1>2 DEF Leads
  <2>3. Below(T, g, t, i)
    BY <2>1, <2>2, <1>3 DEF TablesLead
  <2>4. QED
    BY <2>1, <2>3, <1>1, <1>2 DEF Below, OwnerBelow
<1>7. TablesFound(U, h)
  <2> SUFFICES ASSUME NEW x \in DOMAIN U, h.lev[x] # 4
               PROVE  \E t \in DOMAIN U : \E i \in Idx : FoundAt(U, h, x, t, i)
    BY DEF TablesFound
  <2>1. x \in DOMAIN T /\ g.lev[x] # 4
    BY <1>1, <1>2
  <2>2. PICK t \in DOMAIN T, i \in Idx : FoundAt(T, g, x, t, i)
    BY <2>1, <1>3 DEF TablesFound
  <2>3. FoundAt(U, h, x, t, i) /\ t \in DOMAIN U
    BY <2>1, <2>2, <1>1, <1>2 DEF FoundAt, Leads
  <2>4. QED
    BY <2>2, <2>3
<1>8. TablesApart(U, h)
  <2> SUFFICES ASSUME NEW s \in DOMAIN U, NEW t \in DOMAIN U,
                      h.lev[s] = h.lev[t], h.own[s] = h.own[t], h.key[s] = h.key[t]
               PROVE  s = t
    BY DEF TablesApart
  <2>1. CASE h.lev[s] = 4
    <3>1. \A x \in DOMAIN U : h.lev[x] = 4 => h.own[x] = x
      BY <1>5 DEF TablesTyped
    <3>2. QED
      BY <2>1, <3>1
  <2>2. CASE h.lev[s] # 4
    <3>1. s \in DOMAIN T /\ t \in DOMAIN T
      BY <2>2, <1>1, <1>2
    <3>2. QED
      BY <3>1, <1>2, <1>3 DEF TablesApart
  <2>3. QED
    BY <2>1, <2>2
<1>9. Tree(U, h)
  BY <1>5, <1>6, <1>7, <1>8 DEF Tree
<1>10. Kept(T, g, U, h, {c})
  BY <1>1, <1>2 DEF Kept
<1>11. EntriesKept(T, g, U) /\ RootKept(T, g, U, {}) /\ LeavesKept(T, g, U, {})
  BY <1>1 DEF EntriesKept, RootKept, LeavesKept
<1>12. GuardedKept(T, g, U, h, {})
  <2> SUFFICES ASSUME NEW t \in DOMAIN U, NEW i \in DOMAIN U[t], Guarded(U, h, t, i)
               PROVE  Guarded(T, g, t, i)
    BY DEF GuardedKept
  <2>1. t \in DOMAIN T /\ i \in DOMAIN T[t]
    BY <1>4
  <2>2. QED
    BY <2>1, <1>2 DEF Guarded
<1>13. QED
  BY <1>1, <1>2, <1>9, <1>10, <1>11, <1>12 DEF Moved, RootNew

LEMMA NewRoot ==
  ASSUME NEW m, NEW g, NEW R, Good(m, g, R), NEW c \in R, c # m.ipcPage,
         NEW a, IsMemory(a), SameElse(m, a), a.taken = m.taken, a.used = m.used,
         a.tables = MakeTable(m.tables, c, EmptyTable), NEW h, h = RootAdded(m.tables, g, c)
  PROVE  RootMade(m, g, R, c, a, h)
<1>1. PICK T, U : T = m.tables /\ U = a.tables
  OBVIOUS
<1>2. /\ Plain(m, c) /\ c \notin DOMAIN T /\ c \in m.taken /\ c \notin Image
      /\ c \in Nat /\ c # None /\ c \in Managed(m.ram)
  BY <1>1 DEF Good, AsideOK, Plain, Managed, None
<1>3. Tree(T, g)
  BY <1>1 DEF Good
<1>4. /\ Tree(U, h) /\ Moved(T, g, U, h, {c}, {})
      /\ DOMAIN U = DOMAIN T \cup {c} /\ DOMAIN U[c] = {} /\ h.lev[c] = 4
      /\ \A t \in DOMAIN T : /\ t # c /\ U[t] = T[t] /\ h.lev[t] = g.lev[t]
                             /\ h.own[t] = g.own[t] /\ h.key[t] = g.key[t]
  <2>1. U = MakeTable(T, c, EmptyTable) /\ h = RootAdded(T, g, c)
    BY <1>1
  <2>2. Tree(U, h) /\ Moved(T, g, U, h, {c}, {}) /\ RootNew(T, g, c, U, h)
    BY <2>1, <1>2, <1>3, NewRootTree
  <2>3. QED
    BY <2>2 DEF RootNew
<1>5. \A t \in DOMAIN U : \A i \in DOMAIN U[t] :
        /\ t \in DOMAIN T /\ i \in DOMAIN T[t] /\ U[t] = T[t]
        /\ h.own[t] = g.own[t] /\ h.key[t] = g.key[t]
        /\ Guarded(U, h, t, i) <=> Guarded(T, g, t, i)
  BY <1>4 DEF Guarded
<1>6. /\ Framed(m) /\ PagesOK(m, g, R) /\ PagesApart(m, g) /\ TablesOK(m, g) /\ AsideOK(m, R)
  BY DEF Good
<1>7. a.ram = m.ram /\ a.ipcPage = m.ipcPage
  BY DEF SameElse
<1>8. Framed(a)
  BY <1>6, <1>7 DEF Framed
<1>9. Common(a) = Common(m) /\ (\A w, x : Placed(a, w, x) <=> Placed(m, w, x))
      /\ (\A x : Plain(a, x) <=> Plain(m, x) /\ x # c)
  BY <1>1, <1>4, <1>7 DEF Common, Placed, Plain
<1>10. c \notin Common(m)
  BY <1>2, ImageAssumption DEF Common
<1>11. PagesOK(a, h, R \ {c})
  <2> SUFFICES ASSUME NEW s \in DOMAIN U, NEW j \in DOMAIN U[s], Guarded(U, h, s, j)
               PROVE  LET x == U[s][j].frame IN
                      IF x \in Common(a)
                      THEN h.own[s] # KernelRoot /\ Placed(a, Sub(h.key[s], j), x)
                      ELSE Plain(a, x) /\ x \notin R \ {c}
    BY <1>1, Zenon DEF PagesOK
  <2>1. /\ s \in DOMAIN T /\ j \in DOMAIN T[s] /\ U[s] = T[s] /\ Guarded(T, g, s, j)
        /\ h.own[s] = g.own[s] /\ h.key[s] = g.key[s]
    BY <1>5
  <2>2. IF T[s][j].frame \in Common(m)
        THEN g.own[s] # KernelRoot /\ Placed(m, Sub(g.key[s], j), T[s][j].frame)
        ELSE Plain(m, T[s][j].frame) /\ T[s][j].frame \notin R
    BY <1>1, <1>6, <2>1, Zenon DEF PagesOK
  <2>3. QED
    BY <2>1, <2>2, <1>9
<1>12. PagesApart(a, h)
  <2> SUFFICES ASSUME NEW s \in DOMAIN U, NEW q \in DOMAIN U, NEW j \in DOMAIN U[s], NEW l \in DOMAIN U[q],
                      Guarded(U, h, s, j), Guarded(U, h, q, l), U[s][j].frame = U[q][l].frame,
                      U[s][j].frame \notin Common(m)
               PROVE  s = q /\ j = l
    BY <1>1, <1>9 DEF PagesApart
  <2>1. /\ s \in DOMAIN T /\ j \in DOMAIN T[s] /\ U[s] = T[s] /\ Guarded(T, g, s, j)
        /\ q \in DOMAIN T /\ l \in DOMAIN T[q] /\ U[q] = T[q] /\ Guarded(T, g, q, l)
    BY <1>5
  <2>2. QED
    BY <2>1, <1>1, <1>6 DEF PagesApart
<1>13. TablesOK(a, h)
  BY <1>1, <1>2, <1>4, <1>6, <1>7 DEF TablesOK
<1>14. AsideOK(a, R \ {c})
  BY <1>6, <1>7, <1>9 DEF AsideOK
<1>15. Good(a, h, R \ {c})
  BY <1>1, <1>4, <1>8, <1>11, <1>12, <1>13, <1>14, Zenon DEF Good
<1>16. ASSUME Covered(m, g, R) PROVE Covered(a, h, R \ {c})
  <2> SUFFICES ASSUME NEW f \in m.taken \cap Managed(m.ram), f \notin Image, f \notin R \ {c},
                      f \notin DOMAIN U
               PROVE  \E t \in DOMAIN U : \E i \in DOMAIN U[t] : Guarded(U, h, t, i) /\ U[t][i].frame = f
    BY <1>1, <1>7 DEF Covered
  <2>1. f \notin R /\ f \notin DOMAIN T
    BY <1>4
  <2>2. \E t \in DOMAIN T : \E i \in DOMAIN T[t] : Guarded(T, g, t, i) /\ T[t][i].frame = f
    BY <2>1, <1>1, <1>16 DEF Covered
  <2>3. PICK t \in DOMAIN T : \E i \in DOMAIN T[t] : Guarded(T, g, t, i) /\ T[t][i].frame = f
    BY <2>2
  <2>4. PICK i \in DOMAIN T[t] : Guarded(T, g, t, i) /\ T[t][i].frame = f
    BY <2>3
  <2>5. t \in DOMAIN U /\ U[t] = T[t] /\ i \in DOMAIN U[t]
    BY <1>4
  <2>6. QED
    BY <2>4, <2>5, <1>5
<1>17. QED
  BY <1>1, <1>2, <1>4, <1>15, <1>16 DEF RootMade

LEMMA CopiedTree ==
  ASSUME NEW T, NEW g, Tree(T, g), NEW c \in DOMAIN T, g.lev[c] = 4, c # KernelRoot,
         DOMAIN T[c] = {}, NEW U, Copied(T, c, U)
  PROVE  Tree(U, g) /\ Moved(T, g, U, g, {c}, {}) /\ Agrees(U, c)
<1>1. /\ DOMAIN U = DOMAIN T /\ \A t \in DOMAIN T \ {c} : U[t] = T[t]
      /\ DOMAIN U[c] = DOMAIN T[KernelRoot] \cap KernelHalf
      /\ \A i \in DOMAIN U[c] : U[c][i] = T[KernelRoot][i]
  BY DEF Copied
<1>2. TablesTyped(T, g) /\ TablesLead(T, g) /\ TablesFound(T, g) /\ TablesApart(T, g)
  BY DEF Tree
<1>3. KernelRoot \in DOMAIN T /\ g.lev[KernelRoot] = 4 /\ DOMAIN T[KernelRoot] \subseteq Idx
  BY <1>2 DEF TablesTyped
<1>4. \A t \in DOMAIN T : g.lev[t] = 4 => g.own[t] = t /\ g.key[t] = 0
  BY <1>2 DEF TablesTyped
<1>5. U[KernelRoot] = T[KernelRoot]
  BY <1>1, <1>3
<1>6. ASSUME NEW i \in DOMAIN U[c]
      PROVE  /\ i \in DOMAIN T[KernelRoot] /\ U[c][i] = T[KernelRoot][i] /\ i \in KernelHalf
             /\ T[KernelRoot][i] = [frame |-> T[KernelRoot][i].frame, huge |-> T[KernelRoot][i].huge]
             /\ T[KernelRoot][i].frame \in Nat /\ T[KernelRoot][i].huge = FALSE
  <2>1. i \in DOMAIN T[KernelRoot] /\ U[c][i] = T[KernelRoot][i] /\ i \in KernelHalf
    BY <1>1
  <2>2. /\ T[KernelRoot][i] = [frame |-> T[KernelRoot][i].frame, huge |-> T[KernelRoot][i].huge]
        /\ T[KernelRoot][i].frame \in Nat
    BY <2>1, <1>2, <1>3, Zenon DEF TablesTyped
  <2>3. T[KernelRoot][i].huge = FALSE
    BY <2>1, <1>2, <1>3, RootLeads
  <2>4. QED
    BY <2>1, <2>2, <2>3
<1>7. TablesTyped(U, g)
  <2>1. /\ KernelRoot \in DOMAIN U
        /\ \A t \in DOMAIN U :
             /\ g.lev[t] \in 1 .. 4 /\ g.own[t] \in DOMAIN U /\ g.key[t] \in Nat
             /\ g.lev[g.own[t]] = 4
             /\ g.lev[t] = 4 => g.own[t] = t /\ g.key[t] = 0
        /\ g.lev[KernelRoot] = 4
    BY <1>1, <1>2 DEF TablesTyped
  <2>2. \A t \in DOMAIN U : DOMAIN U[t] \subseteq Idx
    BY <1>1, <1>2, <1>3 DEF TablesTyped
  <2>3. ASSUME NEW t \in DOMAIN U, NEW i \in DOMAIN U[t]
        PROVE  /\ U[t][i] = [frame |-> U[t][i].frame, huge |-> U[t][i].huge]
               /\ U[t][i].frame \in Nat
               /\ U[t][i].huge \in BOOLEAN
               /\ U[t][i].huge => HugeOK(g, t, i)
    <3>1. CASE t = c
      BY <3>1, <1>6
    <3>2. CASE t # c
      <4>1. t \in DOMAIN T /\ U[t] = T[t] /\ i \in DOMAIN T[t]
        BY <3>2, <1>1
      <4>2. /\ T[t][i] = [frame |-> T[t][i].frame, huge |-> T[t][i].huge]
            /\ T[t][i].frame \in Nat
            /\ T[t][i].huge \in BOOLEAN
            /\ T[t][i].huge => HugeOK(g, t, i)
        BY <4>1, <1>2, Zenon DEF TablesTyped
      <4>3. QED
        BY <4>1, <4>2
    <3>3. QED
      BY <3>1, <3>2
  <2>4. QED
    BY <2>1, <2>2, <2>3 DEF TablesTyped
<1>8. TablesLead(U, g)
  <2> SUFFICES ASSUME NEW t \in DOMAIN U, NEW i \in DOMAIN U[t], Leads(U, g, t, i)
               PROVE  Below(U, g, t, i)
    BY DEF TablesLead
  <2>1. CASE t = c
    <3>1. Leads(T, g, KernelRoot, i) /\ U[t][i] = T[KernelRoot][i] /\ i \in KernelHalf
      BY <2>1, <1>2, <1>3, <1>6, RootLeads
    <3>2. Below(T, g, KernelRoot, i)
      BY <3>1, <1>2, <1>3 DEF TablesLead, Leads
    <3>3. OwnerBelow(g, KernelRoot, i) = OwnerBelow(g, c, i)
      BY <3>1, <1>3 DEF OwnerBelow
    <3>4. g.key[KernelRoot] = g.key[c] /\ g.lev[KernelRoot] = g.lev[c]
      BY <1>3, <1>4
    <3>5. QED
      BY <2>1, <3>1, <3>2, <3>3, <3>4, <1>1 DEF Below
  <2>2. CASE t # c
    <3>1. t \in DOMAIN T /\ U[t] = T[t]
      BY <2>2, <1>1
    <3>2. Leads(T, g, t, i)
      BY <3>1 DEF Leads
    <3>3. Below(T, g, t, i)
      BY <3>1, <3>2, <1>2 DEF TablesLead
    <3>4. QED
      BY <3>1, <3>3, <1>1 DEF Below
  <2>3. QED
    BY <2>1, <2>2
<1>9. TablesFound(U, g)
  <2> SUFFICES ASSUME NEW x \in DOMAIN U, g.lev[x] # 4
               PROVE  \E t \in DOMAIN U : \E i \in Idx : FoundAt(U, g, x, t, i)
    BY DEF TablesFound
  <2>1. PICK t \in DOMAIN T, i \in Idx : FoundAt(T, g, x, t, i)
    BY <1>1, <1>2 DEF TablesFound
  <2>2. t # c
    BY <2>1 DEF FoundAt, Leads
  <2>3. FoundAt(U, g, x, t, i) /\ t \in DOMAIN U
    BY <2>1, <2>2, <1>1 DEF FoundAt, Leads
  <2>4. QED
    BY <2>1, <2>3
<1>10. TablesApart(U, g)
  BY <1>1, <1>2 DEF TablesApart
<1>11. Kept(T, g, U, g, {c})
  BY <1>1, <1>4 DEF Kept
<1>12. EntriesKept(T, g, U) /\ RootKept(T, g, U, {}) /\ LeavesKept(T, g, U, {})
  BY <1>1 DEF EntriesKept, RootKept, LeavesKept
<1>13. GuardedKept(T, g, U, g, {})
  <2> SUFFICES ASSUME NEW t \in DOMAIN U, NEW i \in DOMAIN U[t], Guarded(U, g, t, i)
               PROVE  Guarded(T, g, t, i)
    BY DEF GuardedKept
  <2>1. t # c
    BY DEF Guarded
  <2>2. t \in DOMAIN T /\ U[t] = T[t]
    BY <2>1, <1>1
  <2>3. QED
    BY <2>2 DEF Guarded
<1>14. Agrees(U, c)
  BY <1>1, <1>5 DEF Agrees
<1>15. QED
  BY <1>7, <1>8, <1>9, <1>10, <1>11, <1>12, <1>13, <1>14 DEF Tree, Moved

LEMMA CopiedSound ==
  ASSUME NEW m, NEW g, NEW R, Good(m, g, R), NEW c \in DOMAIN m.tables, g.lev[c] = 4,
         c # KernelRoot, DOMAIN m.tables[c] = {},
         NEW a, IsMemory(a), SameElse(m, a), a.taken = m.taken, a.used = m.used,
         Copied(m.tables, c, a.tables)
  PROVE  /\ Good(a, g, R) /\ Moved(m.tables, g, a.tables, g, {c}, {}) /\ Agrees(a.tables, c)
         /\ Covered(m, g, R) => Covered(a, g, R)
<1>1. PICK T, U : T = m.tables /\ U = a.tables
  OBVIOUS
<1>2. Tree(T, g) /\ c \in DOMAIN T /\ DOMAIN T[c] = {} /\ Copied(T, c, U)
  BY <1>1 DEF Good
<1>3. Tree(U, g) /\ Moved(T, g, U, g, {c}, {}) /\ Agrees(U, c)
  BY <1>2, CopiedTree
<1>4. DOMAIN U = DOMAIN T /\ \A t \in DOMAIN T \ {c} : U[t] = T[t]
  BY <1>2 DEF Copied
<1>5. \A t \in DOMAIN U : \A i \in DOMAIN U[t] : Guarded(U, g, t, i) =>
        t \in DOMAIN T /\ i \in DOMAIN T[t] /\ U[t] = T[t] /\ Guarded(T, g, t, i)
  BY <1>4 DEF Guarded
<1>6. \A t \in DOMAIN T : \A i \in DOMAIN T[t] : Guarded(T, g, t, i) =>
        t \in DOMAIN U /\ i \in DOMAIN U[t] /\ U[t] = T[t] /\ Guarded(U, g, t, i)
  BY <1>4 DEF Guarded
<1>7. /\ Framed(m) /\ PagesOK(m, g, R) /\ PagesApart(m, g) /\ TablesOK(m, g) /\ AsideOK(m, R)
  BY DEF Good
<1>8. a.ram = m.ram /\ a.ipcPage = m.ipcPage
  BY DEF SameElse
<1>9. Framed(a)
  BY <1>7, <1>8 DEF Framed
<1>10. Common(a) = Common(m) /\ (\A w, x : Placed(a, w, x) <=> Placed(m, w, x))
       /\ (\A x : Plain(a, x) <=> Plain(m, x))
  BY <1>1, <1>4, <1>8 DEF Common, Placed, Plain
<1>11. PagesOK(a, g, R)
  <2> SUFFICES ASSUME NEW s \in DOMAIN U, NEW j \in DOMAIN U[s], Guarded(U, g, s, j)
               PROVE  LET x == U[s][j].frame IN
                      IF x \in Common(a)
                      THEN g.own[s] # KernelRoot /\ Placed(a, Sub(g.key[s], j), x)
                      ELSE Plain(a, x) /\ x \notin R
    BY <1>1, Zenon DEF PagesOK
  <2>1. s \in DOMAIN T /\ j \in DOMAIN T[s] /\ U[s] = T[s] /\ Guarded(T, g, s, j)
    BY <1>5
  <2>2. IF T[s][j].frame \in Common(m)
        THEN g.own[s] # KernelRoot /\ Placed(m, Sub(g.key[s], j), T[s][j].frame)
        ELSE Plain(m, T[s][j].frame) /\ T[s][j].frame \notin R
    BY <1>1, <1>7, <2>1, Zenon DEF PagesOK
  <2>3. QED
    BY <2>1, <2>2, <1>10
<1>12. PagesApart(a, g)
  <2> SUFFICES ASSUME NEW s \in DOMAIN U, NEW q \in DOMAIN U, NEW j \in DOMAIN U[s], NEW l \in DOMAIN U[q],
                      Guarded(U, g, s, j), Guarded(U, g, q, l), U[s][j].frame = U[q][l].frame,
                      U[s][j].frame \notin Common(m)
               PROVE  s = q /\ j = l
    BY <1>1, <1>10 DEF PagesApart
  <2>1. /\ s \in DOMAIN T /\ j \in DOMAIN T[s] /\ U[s] = T[s] /\ Guarded(T, g, s, j)
        /\ q \in DOMAIN T /\ l \in DOMAIN T[q] /\ U[q] = T[q] /\ Guarded(T, g, q, l)
    BY <1>5
  <2>2. QED
    BY <2>1, <1>1, <1>7 DEF PagesApart
<1>13. TablesOK(a, g)
  BY <1>1, <1>4, <1>7, <1>8 DEF TablesOK
<1>14. AsideOK(a, R)
  BY <1>7, <1>8, <1>10 DEF AsideOK
<1>15. Good(a, g, R)
  BY <1>1, <1>3, <1>9, <1>11, <1>12, <1>13, <1>14, Zenon DEF Good
<1>16. Covered(m, g, R) => Covered(a, g, R)
  BY <1>1, <1>4, <1>6, <1>8 DEF Covered
<1>17. QED
  BY <1>1, <1>3, <1>15, <1>16

LEMMA AloneKept ==
  ASSUME NEW T, NEW g, NEW c, Alone(T, g, c), NEW U, NEW h, NEW O, NEW V, Moved(T, g, U, h, O, V),
         c \notin O
  PROVE  Alone(U, h, c)
BY DEF Alone, Moved, Kept

LEMMA AloneFresh ==
  ASSUME NEW T, NEW g, NEW c, Alone(T, g, c), g.lev[c] = 4, NEW v
  PROVE  Fresh(T, g, c, v)
BY DEF Alone, Fresh, Guarded

LEMMA BlankKept ==
  ASSUME NEW T, NEW g, Tree(T, g), NEW c, Blank(T, g, c),
         NEW U, NEW h, NEW O, NEW V, Moved(T, g, U, h, O, V), c \notin O
  PROVE  Blank(U, h, c) /\ U[c] = T[c]
<1>1. c \in DOMAIN T /\ g.lev[c] = 4 /\ c # KernelRoot /\ Alone(T, g, c)
  BY DEF Blank
<1>2. c \in DOMAIN U /\ h.lev[c] = 4 /\ U[c] = T[c]
  BY <1>1, RootUnmoved
<1>3. Alone(U, h, c)
  BY <1>1, AloneKept
<1>4. QED
  BY <1>1, <1>2, <1>3 DEF Blank

LEMMA CopyKernelPartSound ==
  ASSUME NEW m, NEW g, NEW R, Good(m, g, R), m.ok = TRUE, NEW r, Sees(m.tables, g, r),
         Window(m.tables, g), NEW c, c = m.root, c \in Nat \ {None}, Blank(m.tables, g, c),
         DOMAIN m.tables[c] = {}, r # c, NEW a, a = CopyKernelPart(m, r)
  PROVE  Copying(m, g, R, c, a)
<1>0. Tree(m.tables, g) /\ KernelRoot \in Nat \ {None} /\ c # KernelRoot
  BY VmmAssumption DEF Good, KernelRoot, None, Blank
<1>1. PICK m5, m6, m7, m8 :
        /\ m5 = MapTemp(m, r, KernelRoot) /\ m6 = UnmapTemp(m5)
        /\ m7 = MapTemp(m6, r, c) /\ m8 = FillRoot(m7, KernelPart(m))
  OBVIOUS
<1>2. a = UnmapTemp(m8)
  BY <1>1 DEF CopyKernelPart
<1>3. PICK h5 : /\ Good(m5, h5, R) /\ Moved(m.tables, g, m5.tables, h5, {KernelRoot}, {TempWindow})
                /\ Still(m, m5) /\ m5.root = m.root /\ m5.ok = TRUE
                /\ Covered(m, g, R) => Covered(m5, h5, R)
  <2>1. \E h : WindowMapped(m, g, R, m5, h)
    BY <1>0, <1>1, MapTempSound
  <2>2. QED
    BY <2>1 DEF WindowMapped
<1>4. /\ Good(m6, h5, R) /\ Moved(m5.tables, h5, m6.tables, h5, {KernelRoot}, {TempWindow})
      /\ SameElse(m5, m6) /\ m6.ok = TRUE
      /\ Covered(m5, h5, R) => Covered(m6, h5, R)
  <2>1. m6 = UnmapTemp(m5) /\ m5.ok = TRUE
    BY <1>1, <1>3
  <2>2. QED
    BY <2>1, <1>3, UnmapTempSound
<1>5. Tree(m5.tables, h5) /\ Tree(m6.tables, h5)
  BY <1>3, <1>4, Zenon DEF Good
<1>6. Moved(m.tables, g, m6.tables, h5, {KernelRoot}, {TempWindow})
  BY <1>0, <1>3, <1>4, MovedTrans DEF Tree
<1>7. Window(m6.tables, h5) /\ Sees(m6.tables, h5, r)
  BY <1>0, <1>6, WindowKept, SeesKept
<1>8. PICK h7 : /\ Good(m7, h7, R) /\ Moved(m6.tables, h5, m7.tables, h7, {KernelRoot}, {TempWindow})
                /\ Still(m6, m7) /\ m7.root = m6.root /\ m7.ok = TRUE /\ m7.fault = FALSE
                /\ Covered(m6, h5, R) => Covered(m7, h7, R)
  <2>1. m7 = MapTemp(m6, r, c) /\ m6.ok = TRUE /\ c \in Nat \ {None}
    BY <1>1, <1>4
  <2>2. QED
    <3>1. \E h : WindowMapped(m6, h5, R, m7, h)
      BY <2>1, <1>4, <1>7, MapTempSound
    <3>2. QED
      BY <3>1, <1>7 DEF WindowMapped
<1>9. Moved(m.tables, g, m7.tables, h7, {KernelRoot}, {TempWindow}) /\ Tree(m7.tables, h7)
  <2>1. Tree(m7.tables, h7)
    BY <1>8, Zenon DEF Good
  <2>2. QED
    BY <2>1, <1>0, <1>6, <1>8, MovedTrans DEF Tree
<1>10. Blank(m7.tables, h7, c) /\ m7.tables[c] = m.tables[c]
  BY <1>0, <1>9, BlankKept
<1>11. m7.root = c
  BY <1>3, <1>4, <1>8 DEF SameElse
<1>12. Settled(m.tables, {TempWindow})
  BY <1>0, WindowSettles
<1>13. \A i \in KernelHalf :
         /\ i \in DOMAIN m7.tables[KernelRoot] <=> i \in DOMAIN m.tables[KernelRoot]
         /\ i \in DOMAIN m.tables[KernelRoot] => m7.tables[KernelRoot][i] = m.tables[KernelRoot][i]
  BY <1>0, <1>9, <1>12, KernelHalfKept
<1>14. m8 = [m7 EXCEPT !.tables = MakeTable(m7.tables, c, KernelPart(m))]
  BY <1>1, <1>8, <1>11 DEF FillRoot
<1>15. /\ IsMemory(m8) /\ SameElse(m7, m8) /\ m8.taken = m7.taken /\ m8.used = m7.used
       /\ m8.tables = MakeTable(m7.tables, c, KernelPart(m)) /\ m8.ok = TRUE
  <2>1. IsMemory(m7)
    BY <1>8, Zenon DEF Good
  <2>2. QED
    BY <2>1, <1>8, <1>14 DEF IsMemory, SameElse
<1>16. Copied(m7.tables, c, m8.tables)
  <2>1. PICK e, T, U : e = KernelPart(m) /\ T = m7.tables /\ U = m8.tables
    OBVIOUS
  <2>2. /\ DOMAIN e = DOMAIN T[KernelRoot] \cap KernelHalf
        /\ \A i \in DOMAIN e : e[i] = T[KernelRoot][i]
    BY <2>1, <1>13 DEF KernelPart
  <2>3. c \in DOMAIN T /\ U = MakeTable(T, c, e)
    BY <2>1, <1>10, <1>15 DEF Blank
  <2>4. DOMAIN U = DOMAIN T /\ U[c] = e /\ \A t \in DOMAIN T \ {c} : U[t] = T[t]
    BY <2>3 DEF MakeTable
  <2>5. Copied(T, c, U)
    BY <2>2, <2>4 DEF Copied
  <2>6. QED
    BY <2>1, <2>5
<1>17. /\ Good(m8, h7, R) /\ Moved(m7.tables, h7, m8.tables, h7, {c}, {}) /\ Agrees(m8.tables, c)
       /\ Covered(m7, h7, R) => Covered(m8, h7, R)
  <2>1. c \in DOMAIN m7.tables /\ h7.lev[c] = 4 /\ DOMAIN m7.tables[c] = {} /\ Good(m7, h7, R)
    BY <1>8, <1>10 DEF Blank
  <2>2. QED
    BY <2>1, <1>0, <1>15, <1>16, CopiedSound
<1>18. Tree(m8.tables, h7)
  BY <1>17, Zenon DEF Good
<1>19. /\ Good(a, h7, R) /\ Moved(m8.tables, h7, a.tables, h7, {KernelRoot}, {TempWindow})
       /\ SameElse(m8, a) /\ a.ok = m8.ok
       /\ Covered(m8, h7, R) => Covered(a, h7, R)
  BY <1>2, <1>17, UnmapTempSound
<1>20. Moved(m.tables, g, a.tables, h7, {KernelRoot, c}, {TempWindow})
  <2>1. Moved(m.tables, g, m7.tables, h7, {KernelRoot, c}, {TempWindow})
    BY <1>9, MovedMore
  <2>2. Moved(m7.tables, h7, m8.tables, h7, {KernelRoot, c}, {TempWindow})
    BY <1>17, MovedMore
  <2>3. Moved(m8.tables, h7, a.tables, h7, {KernelRoot, c}, {TempWindow})
    BY <1>19, MovedMore
  <2>4. Moved(m.tables, g, m8.tables, h7, {KernelRoot, c}, {TempWindow})
    BY <2>1, <2>2, <1>0, MovedTrans DEF Tree
  <2>5. QED
    BY <2>3, <2>4, <1>0, MovedTrans DEF Tree
<1>21. Window(a.tables, h7) /\ Window(m8.tables, h7)
  <2>1. Window(m7.tables, h7)
    BY <1>9, WindowKept
  <2>2. Window(m8.tables, h7)
    BY <2>1, <1>17, WindowKept
  <2>3. QED
    BY <2>2, <1>19, WindowKept
<1>22. Blank(m8.tables, h7, c)
  <2>1. DOMAIN m8.tables = DOMAIN m7.tables
    BY <1>16 DEF Copied
  <2>2. QED
    BY <2>1, <1>10 DEF Blank, Alone
<1>23. Blank(a.tables, h7, c) /\ a.tables[c] = m8.tables[c]
  BY <1>0, <1>18, <1>19, <1>22, BlankKept
<1>24. Agrees(a.tables, c)
  BY <1>17, <1>18, <1>19, <1>21, <1>23, WindowSettles, AgreesKept
<1>25. Still(m, a) /\ a.root = c /\ a.ok = TRUE /\ a.fault = FALSE
  BY <1>3, <1>4, <1>8, <1>11, <1>15, <1>19 DEF Still, SameElse
<1>26. Covered(m, g, R) => Covered(a, h7, R)
  BY <1>3, <1>4, <1>8, <1>17, <1>19
<1>27. QED
  BY <1>19, <1>20, <1>21, <1>23, <1>24, <1>25, <1>26, Zenon DEF Copying

LEMMA CreateUserPml4Sound ==
  ASSUME NEW m, NEW g, NEW R, Good(m, g, R), m.ok = TRUE, m.fault = FALSE,
         NEW r, Sees(m.tables, g, r), NEW a, a = CreateUserPml4(m, r)
  PROVE  NewSpace(m, g, R, a)
<1>0. IsMemory(m) /\ Framed(m) /\ Tree(m.tables, g) /\ AsideOK(m, R)
  BY Zenon DEF Good
<1>1. PICK m1, m2, m3, m4 :
        /\ m1 = AllocFrame(m) /\ m2 = TakeRoot(m1) /\ m3 = MapTemp(m2, r, m2.root)
        /\ m4 = FillRoot(m3, EmptyTable)
  OBVIOUS
<1>2. a = CopyKernelPart(m4, r)
  BY <1>1 DEF CreateUserPml4, ZeroRoot
<1>3. PICK c : c = m1.got
  OBVIOUS
<1>4. /\ IsMemory(m1) /\ Framed(m1) /\ SameElse(m, m1) /\ m1.tables = m.tables /\ m1.ok = m.ok
      /\ \/ m1.got = None /\ m1.taken = m.taken
         \/ /\ m1.got \in Free(m) /\ m1.got \in Nat /\ m1.got # None
            /\ m1.taken = m.taken \cup {m1.got}
  <2>1. m1 = TakeLowest(m, Free(m))
    BY <1>1 DEF AllocFrame
  <2>2. QED
    BY <2>1, <1>0, TakeLowestSound
<1>5. CASE c = None
  <2>1. m2 = [m1 EXCEPT !.ok = FALSE]
    BY <1>1, <1>3, <1>5 DEF TakeRoot, Fail
  <2>2. /\ IsMemory(m2) /\ SameElse(m, m2) /\ m2.taken = m.taken /\ m2.ok = FALSE
        /\ m2.tables = m.tables /\ m2.used = m1.used
    BY <2>1, <1>3, <1>4, <1>5 DEF IsMemory, SameElse
  <2>3. m4 = m2
    BY <2>2, <1>1 DEF MapTemp, FillRoot
  <2>4. a = m2
    BY <2>2, <2>3, <1>2 DEF CopyKernelPart, MapTemp, UnmapTemp, FillRoot
  <2>5. m2.used = m.used
    <3>1. m1.ram = m.ram /\ m1.taken = m.taken
      BY <1>3, <1>4, <1>5 DEF SameElse, Free, None, Framed
    <3>2. QED
      BY <3>1, <2>2, <1>0, <1>4 DEF Framed
  <2>6. Good(a, g, R)
    <3>1. m2.ram = m.ram /\ m2.ipcPage = m.ipcPage
      BY <2>2 DEF SameElse
    <3>2. QED
      BY <3>1, <2>2, <2>4, <2>5, GoodSame
  <2>7. Moved(m.tables, g, a.tables, g, Others(m.tables), {TempWindow})
    BY <2>2, <2>4, MovedSelf
  <2>8. Still(m, a) /\ a.fault = FALSE /\ a.ok = FALSE
    BY <2>2, <2>4 DEF Still, SameElse
  <2>9. QED
    BY <2>6, <2>7, <2>8 DEF NewSpace
<1>6. CASE c # None
  <2>1. m2 = [m1 EXCEPT !.root = c]
    BY <1>1, <1>3, <1>6 DEF TakeRoot
  <2>2. /\ IsMemory(m2) /\ m2.taken = m1.taken /\ m2.ok = TRUE /\ m2.tables = m.tables
        /\ m2.used = m1.used /\ m2.ram = m1.ram /\ m2.ipcPage = m1.ipcPage
        /\ m2.root = c /\ Still(m, m2) /\ m2.fault = FALSE
    BY <2>1, <1>4 DEF IsMemory, SameElse, Still
  <2>3. /\ {c} \subseteq Free(m) /\ c \in Nat \ {None} /\ m1.taken = m.taken \cup {c}
    BY <1>3, <1>4, <1>6
  <2>4. /\ Good(m1, g, R \cup {c})
        /\ {c} \cap (R \cup DOMAIN m.tables \cup Image \cup m.taken) = {}
        /\ Covered(m, g, R) => Covered(m1, g, R \cup {c})
    BY <2>3, <1>4, SetAside
  <2>5. Good(m2, g, R \cup {c})
    <3>1. m2.tables = m1.tables
      BY <2>2, <1>4
    <3>2. QED
      BY <3>1, <2>2, <2>4, GoodSame
  <2>6. Covered(m, g, R) => Covered(m2, g, R \cup {c})
    BY <2>2, <2>4, <1>4 DEF Covered
  <2>7. c \notin R /\ c \notin DOMAIN m.tables /\ c # KernelRoot /\ c # m.ipcPage
    BY <2>3, <2>4, <1>0, VmmAssumption DEF AsideOK, KernelRoot
  <2>8. Sees(m2.tables, g, r)
    BY <2>2
  <2>9. PICK h3 : /\ Good(m3, h3, R \cup {c})
                  /\ Moved(m2.tables, g, m3.tables, h3, {KernelRoot}, {TempWindow})
                  /\ Still(m2, m3) /\ m3.root = m2.root
                  /\ Covered(m2, g, R \cup {c}) => Covered(m3, h3, R \cup {c})
                  /\ m3.ok = TRUE => m3.fault = FALSE /\ Window(m3.tables, h3)
                  /\ Window(m2.tables, g) => m3.ok = TRUE
    <3>1. m3 = MapTemp(m2, r, c)
      BY <1>1, <2>2
    <3>2. m2.ok = TRUE /\ c \in Nat \ {None}
      BY <2>2, <2>3
    <3>3. \E h : WindowMapped(m2, g, R \cup {c}, m3, h)
      BY <3>1, <3>2, <2>5, <2>8, MapTempSound
    <3>4. QED
      BY <3>3 DEF WindowMapped
  <2>10. Moved(m.tables, g, m3.tables, h3, Others(m.tables), {TempWindow})
    <3>1. Moved(m.tables, g, m3.tables, h3, {KernelRoot}, {TempWindow})
      BY <2>2, <2>9
    <3>2. {KernelRoot} \subseteq Others(m.tables)
      BY DEF Others
    <3>3. QED
      BY <3>1, <3>2, MovedMore
  <2>11. IsMemory(m3) /\ Tree(m3.tables, h3) /\ Still(m, m3)
    BY <2>2, <2>9, Zenon DEF Good, Still
  <2>12. CASE m3.ok = FALSE
    <3>1. m4 = m3
      BY <2>12, <1>1 DEF FillRoot
    <3>2. a = m3
      BY <3>1, <2>12, <1>2 DEF CopyKernelPart, MapTemp, UnmapTemp, FillRoot
    <3>3. Good(a, h3, R)
      <4>1. m3.ipcPage # None => m3.ipcPage \in R
        BY <2>11, <1>0 DEF AsideOK, Still
      <4>2. QED
        BY <4>1, <3>2, <2>9, GoodLess
    <3>4. Window(m.tables, g) => FALSE
      BY <2>2, <2>9, <2>12
    <3>5. Moved(m.tables, g, a.tables, h3, Others(m.tables), {TempWindow})
      BY <3>2, <2>10
    <3>6. Still(m, a) /\ a.ok = FALSE
      BY <3>2, <2>11, <2>12
    <3>7. QED
      BY <3>3, <3>4, <3>5, <3>6 DEF NewSpace
  <2>13. CASE m3.ok = TRUE
    <3>1. m4 = [m3 EXCEPT !.tables = MakeTable(m3.tables, c, EmptyTable)]
      BY <2>2, <2>9, <2>13, <1>1 DEF FillRoot
    <3>2. /\ IsMemory(m4) /\ SameElse(m3, m4) /\ m4.taken = m3.taken /\ m4.used = m3.used
          /\ m4.tables = MakeTable(m3.tables, c, EmptyTable) /\ m4.ok = TRUE /\ m4.root = c
      BY <3>1, <2>2, <2>9, <2>11, <2>13 DEF IsMemory, SameElse
    <3>3. PICK h4 : h4 = RootAdded(m3.tables, h3, c)
      OBVIOUS
    <3>4. c # m3.ipcPage /\ c \in R \cup {c}
      BY <2>7, <2>11 DEF Still
    <3>5. /\ Good(m4, h4, (R \cup {c}) \ {c}) /\ Moved(m3.tables, h3, m4.tables, h4, {c}, {})
          /\ c \in DOMAIN m4.tables /\ DOMAIN m4.tables[c] = {} /\ h4.lev[c] = 4
          /\ c \notin DOMAIN m3.tables
          /\ Covered(m3, h3, R \cup {c}) => Covered(m4, h4, (R \cup {c}) \ {c})
      <4>1. PICK Q : Q = R \cup {c}
        OBVIOUS
      <4>2. Good(m3, h3, Q) /\ c \in Q /\ c # m3.ipcPage
        BY <4>1, <3>4, <2>9
      <4>3. IsMemory(m4) /\ SameElse(m3, m4) /\ m4.taken = m3.taken /\ m4.used = m3.used
        BY <3>2
      <4>4. m4.tables = MakeTable(m3.tables, c, EmptyTable)
        BY <3>2
      <4>5. /\ Good(m4, h4, Q \ {c}) /\ Moved(m3.tables, h3, m4.tables, h4, {c}, {})
            /\ c \in DOMAIN m4.tables /\ DOMAIN m4.tables[c] = {} /\ h4.lev[c] = 4
            /\ c \notin DOMAIN m3.tables
            /\ Covered(m3, h3, Q) => Covered(m4, h4, Q \ {c})
        <5>1. RootMade(m3, h3, Q, c, m4, h4)
          BY <4>2, <4>3, <4>4, <3>3, NewRoot
        <5>2. QED
          BY <5>1 DEF RootMade
      <4>6. QED
        BY <4>1, <4>5
    <3>6. (R \cup {c}) \ {c} = R
      BY <2>7
    <3>7. Good(m4, h4, R) /\ (Covered(m, g, R) => Covered(m4, h4, R))
      BY <3>5, <3>6, <2>6, <2>9
    <3>8. Blank(m4.tables, h4, c)
      <4>1. Alone(m4.tables, h4, c)
        <5>1. \A t \in DOMAIN m3.tables : h4.own[t] = h3.own[t] /\ h3.own[t] # c
          BY <3>3, <3>5, <2>11, SMTT(45) DEF RootAdded, Tree, TablesTyped
        <5>2. DOMAIN m4.tables = DOMAIN m3.tables \cup {c}
          BY <3>2 DEF MakeTable
        <5>3. QED
          BY <5>1, <5>2 DEF Alone
      <4>2. QED
        BY <4>1, <3>5, <2>7 DEF Blank
    <3>9. Moved(m3.tables, h3, m4.tables, h4, {c}, {TempWindow})
      BY <3>5, MovedMore
    <3>10. Sees(m3.tables, h3, r) /\ Window(m3.tables, h3)
      <4>1. Moved(m2.tables, g, m3.tables, h3, {KernelRoot}, {TempWindow}) /\ Tree(m2.tables, g)
        BY <2>2, <2>9, <1>0
      <4>2. r = KernelRoot \/ r \notin {KernelRoot}
        OBVIOUS
      <4>3. QED
        BY <4>1, <4>2, <2>8, <2>9, <2>13, SeesKept
    <3>11. Window(m4.tables, h4)
      BY <3>9, <3>10, WindowKept
    <3>12. r # c
      BY <3>5, <3>10 DEF Sees
    <3>13. Sees(m4.tables, h4, r)
      BY <3>9, <3>10, <3>12, <2>11, SeesKept
    <3>14. Copying(m4, h4, R, c, a)
      <4>1. m4.ok = TRUE /\ c = m4.root /\ a = CopyKernelPart(m4, r)
        BY <3>2, <1>2
      <4>2. QED
        BY <4>1, <3>5, <3>7, <3>8, <3>11, <3>12, <3>13, <2>3, CopyKernelPartSound
    <3>15. PICK h : /\ Good(a, h, R)
                    /\ Moved(m4.tables, h4, a.tables, h, {KernelRoot, c}, {TempWindow})
                    /\ Still(m4, a) /\ a.root = c /\ a.ok = TRUE /\ a.fault = FALSE
                    /\ Blank(a.tables, h, c) /\ Agrees(a.tables, c) /\ Window(a.tables, h)
                    /\ Covered(m4, h4, R) => Covered(a, h, R)
      BY <3>14 DEF Copying
    <3>16. {KernelRoot, c} \subseteq Others(m.tables) /\ {c} \subseteq Others(m.tables)
      BY <2>3, <2>7 DEF Others
    <3>17. Moved(m.tables, g, a.tables, h, {KernelRoot, c}, {TempWindow})
      <4>1. Moved(m3.tables, h3, m4.tables, h4, {KernelRoot, c}, {TempWindow})
        BY <3>9, MovedMore
      <4>2. Moved(m.tables, g, m3.tables, h3, {KernelRoot, c}, {TempWindow})
        <5>1. Moved(m.tables, g, m3.tables, h3, {KernelRoot}, {TempWindow})
          BY <2>2, <2>9
        <5>2. QED
          BY <5>1, MovedMore
      <4>3. Moved(m.tables, g, m4.tables, h4, {KernelRoot, c}, {TempWindow})
        BY <4>1, <4>2, <1>0, MovedTrans DEF Tree
      <4>4. QED
        BY <3>15, <4>3, <1>0, MovedTrans DEF Tree
    <3>18. Still(m, a)
      BY <3>2, <3>15, <2>11 DEF Still, SameElse
    <3>19. Covered(m, g, R) => Covered(a, h, R)
      BY <3>7, <3>15
    <3>20. a.root \notin DOMAIN m.tables /\ a.root \in Nat /\ Blank(a.tables, h, a.root)
           /\ Agrees(a.tables, a.root)
      BY <3>15, <2>3, <2>7
    <3>21. /\ Moved(m.tables, g, a.tables, h, Others(m.tables), {TempWindow})
           /\ Moved(m.tables, g, a.tables, h, {KernelRoot, a.root}, {TempWindow})
      BY <3>15, <3>16, <3>17, MovedMore
    <3>22. QED
      BY <3>15, <3>18, <3>19, <3>20, <3>21 DEF NewSpace
  <2>14. QED
    BY <2>11, <2>12, <2>13 DEF IsMemory
<1>7. QED
  BY <1>5, <1>6

----------------------------------------------------------------------------
(* Several pages in a row.                                                 *)

LEMMA UpTo ==
  ASSUME NEW n \in Nat, NEW P, 0 \in P, \A i \in 0 .. n - 1 : i \in P => i + 1 \in P
  PROVE  \A i \in 0 .. n : i \in P
<1> DEFINE Q == {i \in Nat : i <= n => i \in P}
<1>1. 0 \in Q
  OBVIOUS
<1>2. ASSUME NEW i \in Nat, i \in Q PROVE i + 1 \in Q
  BY <1>2
<1> HIDE DEF Q
<1>3. Nat \subseteq Q
  BY <1>1, <1>2, NatInd
<1>4. QED
  BY <1>3 DEF Q

LEMMA LeafKept ==
  ASSUME NEW T, NEW g, Tree(T, g), NEW U, NEW h, NEW O, NEW V, Moved(T, g, U, h, O, V),
         NEW o, NEW v, NEW f, v \notin V, Leaf(T, g, o, v, f)
  PROVE  Leaf(U, h, o, v, f)
<1>1. PICK t \in DOMAIN T : \E i \in DOMAIN T[t] :
        g.lev[t] = 1 /\ g.own[t] = o /\ Sub(g.key[t], i) = v /\ T[t][i].frame = f
  BY DEF Leaf
<1>2. PICK i \in DOMAIN T[t] :
        g.lev[t] = 1 /\ g.own[t] = o /\ Sub(g.key[t], i) = v /\ T[t][i].frame = f
  BY <1>1
<1>3. i \in Idx
  BY DEF Tree, TablesTyped
<1>4. i \in DOMAIN U[t] /\ U[t][i] = T[t][i]
  BY <1>2, <1>3 DEF Moved, LeavesKept
<1>5. t \in DOMAIN U /\ h.lev[t] = 1 /\ h.own[t] = o /\ Sub(h.key[t], i) = v
  BY <1>2 DEF Moved, Kept
<1>6. QED
  BY <1>2, <1>4, <1>5 DEF Leaf

LEMMA AskMay ==
  ASSUME NEW m, NEW o, NEW v, NEW f, NEW Q, Ask(m, o, v, f, Q), NEW S, f \in Q => f \in S
  PROVE  /\ May(m, o, v, f, S)
         /\ Rest(m, o, v, f, S) = IF f \in Q THEN S \ {f} ELSE S
BY DEF Ask, May, Rest, Guards

LEMMA AskSame ==
  ASSUME NEW m, NEW o, NEW v, NEW f, NEW Q, Ask(m, o, v, f, Q), NEW a, a.ipcPage = m.ipcPage
  PROVE  Ask(a, o, v, f, Q)
BY DEF Ask, Common, Placed

LEMMA RunStep ==
  ASSUME NEW f \in Nat, NEW i \in Nat
  PROVE  /\ Run(f, i + 1) = Run(f, i) \cup {f + i} /\ f + i \notin Run(f, i)
         /\ Run(f, 0) = {} /\ Run(f, i) \subseteq Run(f, i + 1)
BY DEF Run

LEMMA MapRound ==
  ASSUME NEW m, NEW g, NEW R, NEW Q, NEW o, NEW v \in Nat, NEW f \in Nat, NEW n \in Nat, NEW i \in 0 .. n - 1,
         Good(m, g, R), Q \subseteq R, Rooted(m.tables, g, o, v, n), AskAll(m, o, v, f, n, Q),
         NEW a, Mapped1(m, g, R, Q, o, v, f, n, i, a), a.ok = TRUE,
         NEW b, b = MapPageIn(a, o, v + i, f + i)
  PROVE  Mapped1(m, g, R, Q, o, v, f, n, i + 1, b)
<1>1. PICK h, S :
        /\ Good(a, h, S) /\ Later(m, g, a, h, {o}, Run(v, i))
        /\ R \ Q \subseteq S /\ S \subseteq R
        /\ a.ok = TRUE => S = R \ (Q \cap Run(f, i)) /\ Leafs(a.tables, h, o, v, f, i)
        /\ Covered(m, g, R) /\ AllFresh(m.tables, g, o, v, n) => Covered(a, h, S)
  BY DEF Mapped1
<1>2. PICK w, x : w = v + i /\ x = f + i
  OBVIOUS
<1>3. Tree(m.tables, g) /\ Tree(a.tables, h) /\ Moved(m.tables, g, a.tables, h, {o}, Run(v, i))
  BY <1>1 DEF Good, Later
<1>4. x \in Nat /\ w \in Nat /\ i \in Nat /\ i + 1 \in Nat
  BY <1>2
<1>5. /\ Run(f, i + 1) = Run(f, i) \cup {x} /\ x \notin Run(f, i)
      /\ Run(v, i + 1) = Run(v, i) \cup {w} /\ w \notin Run(v, i)
  BY <1>2, <1>4, RunStep
<1>6. RootOf(m.tables, g, o, w) /\ Ask(m, o, w, x, Q)
  BY <1>2 DEF Rooted, AskAll
<1>7. RootOf(a.tables, h, o, w)
  BY <1>3, <1>6, RootUnmoved DEF RootOf
<1>8. Ask(a, o, w, x, Q)
  <2>1. a.ipcPage = m.ipcPage
    BY <1>1 DEF Later, SameElse
  <2>2. QED
    BY <2>1, <1>6, AskSame
<1>9. x \in Q => x \in S
  BY <1>1, <1>5
<1>10. /\ May(a, o, w, x, S)
       /\ Rest(a, o, w, x, S) = IF x \in Q THEN S \ {x} ELSE S
  BY <1>8, <1>9, AskMay
<1>11. Mapping(a, h, S, o, w, x, b)
  <2>1. b = MapPageIn(a, o, w, x)
    BY <1>2
  <2>2. QED
    BY <2>1, <1>1, <1>4, <1>7, <1>10, MapPageSound
<1>12. PICK k, Z :
         /\ Good(b, k, Z) /\ Later(a, h, b, k, {o}, {w})
         /\ Z = (IF b.ok = TRUE THEN Rest(a, o, w, x, S) ELSE S)
         /\ b.ok = TRUE => Leaf(b.tables, k, o, w, x)
         /\ Covered(a, h, S) /\ Fresh(a.tables, h, o, w) => Covered(b, k, Z)
  BY <1>11 DEF Mapping
<1>13. Later(m, g, b, k, {o}, Run(v, i + 1))
  <2>1. Later(m, g, a, h, {o}, Run(v, i + 1))
    BY <1>1, <1>5, LaterMore
  <2>2. Later(a, h, b, k, {o}, Run(v, i + 1))
    BY <1>12, <1>5, LaterMore
  <2>3. QED
    BY <2>1, <2>2, <1>3, LaterTrans
<1>14. R \ Q \subseteq Z /\ Z \subseteq R
  BY <1>1, <1>10, <1>12
<1>15. ASSUME b.ok = TRUE
       PROVE  Z = R \ (Q \cap Run(f, i + 1)) /\ Leafs(b.tables, k, o, v, f, i + 1)
  <2>1. Z = R \ (Q \cap Run(f, i + 1))
    <3>1. S = R \ (Q \cap Run(f, i)) /\ Z = IF x \in Q THEN S \ {x} ELSE S
      BY <1>1, <1>10, <1>12, <1>15
    <3>2. QED
      BY <3>1, <1>5
  <2>2. ASSUME NEW j \in 0 .. i PROVE Leaf(b.tables, k, o, v + j, f + j)
    <3>1. CASE j = i
      BY <3>1, <1>2, <1>12, <1>15
    <3>2. CASE j # i
      <4>1. PICK u, y : u = v + j /\ y = f + j
        OBVIOUS
      <4>2. Leaf(a.tables, h, o, u, y) /\ u \notin {w}
        BY <3>2, <4>1, <1>1, <1>2 DEF Leafs
      <4>3. Moved(a.tables, h, b.tables, k, {o}, {w})
        BY <1>12 DEF Later
      <4>4. Leaf(b.tables, k, o, u, y)
        BY <4>2, <4>3, <1>3, LeafKept
      <4>5. QED
        BY <4>1, <4>4
    <3>3. QED
      BY <3>1, <3>2
  <2>3. QED
    BY <2>1, <2>2, <1>4 DEF Leafs
<1>16. ASSUME Covered(m, g, R), AllFresh(m.tables, g, o, v, n) PROVE Covered(b, k, Z)
  <2>1. Covered(a, h, S)
    BY <1>1, <1>16
  <2>2. Fresh(m.tables, g, o, w)
    BY <1>2, <1>16 DEF AllFresh
  <2>3. Fresh(a.tables, h, o, w)
    BY <2>2, <1>3, <1>5, FreshKept DEF Moved
  <2>4. QED
    BY <2>1, <2>3, <1>12
<1>17. QED
  BY <1>12, <1>13, <1>14, <1>15, <1>16, Zenon DEF Mapped1

LEMMA MapPagesSound ==
  ASSUME NEW m, NEW g, NEW R, NEW Q, NEW o, NEW v \in Nat, NEW f \in Nat, NEW n \in Nat,
         Good(m, g, R), Q \subseteq R, Q \subseteq Run(f, n), Rooted(m.tables, g, o, v, n),
         AskAll(m, o, v, f, n, Q), NEW a, a = MapPagesIn(m, o, v, f, n)
  PROVE  MappingAll(m, g, R, Q, o, v, f, n, a)
<1>1. PICK c, st : c = [root |-> o, v |-> v, f |-> f] /\ Loop("map", c, m, n, st, a)
  <2>1. \E st : Loop("map", [root |-> o, v |-> v, f |-> f], m, n, st, MapPagesIn(m, o, v, f, n))
    BY MapPagesLoop
  <2>2. QED
    BY <2>1
<1>2. /\ st[0] = m /\ st[n] = a
      /\ \A i \in 0 .. n - 1 : st[i + 1] = IF st[i].ok THEN MapPageIn(st[i], o, v + i, f + i)
                                           ELSE st[i]
  <2>1. ASSUME NEW i \in 0 .. n - 1
        PROVE  Step("map", c, st[i], i + 1) = IF st[i].ok THEN MapPageIn(st[i], o, v + i, f + i)
                                              ELSE st[i]
    <3>1. c.root = o /\ c.v + ((i + 1) - 1) = v + i /\ c.f + ((i + 1) - 1) = f + i
      BY <1>1
    <3>2. QED
      BY <3>1 DEF Step
  <2>2. QED
    BY <1>1, <2>1 DEF Loop
<1> DEFINE P == {i \in Nat : Mapped1(m, g, R, Q, o, v, f, n, i, st[i])}
<1>3. 0 \in P
  <2>1. Good(m, g, R \ (Q \cap Run(f, 0))) /\ Run(f, 0) = {}
    <3>1. Run(f, 0) = {}
      BY RunStep
    <3>2. R \ (Q \cap {}) = R
      OBVIOUS
    <3>3. QED
      BY <3>1, <3>2
  <2>2. Later(m, g, m, g, {o}, Run(v, 0))
    BY LaterSelf DEF SameElse
  <2>3. Leafs(m.tables, g, o, v, f, 0)
    BY DEF Leafs
  <2>4. R \ (Q \cap Run(f, 0)) = R
    BY <2>1
  <2>5. Mapped1(m, g, R, Q, o, v, f, n, 0, m)
    BY <2>2, <2>3, <2>4 DEF Mapped1
  <2>6. QED
    BY <2>5, <1>2
<1>4. ASSUME NEW i \in 0 .. n - 1, i \in P PROVE i + 1 \in P
  <2>1. Mapped1(m, g, R, Q, o, v, f, n, i, st[i]) /\ i \in Nat
    BY <1>4
  <2>2. PICK b, d : b = st[i] /\ d = st[i + 1]
    OBVIOUS
  <2>3. b.ok \in BOOLEAN
    BY <2>1, <2>2, Zenon DEF Mapped1, Good, IsMemory
  <2>4. CASE b.ok = FALSE
    <3>1. d = b
      BY <2>2, <2>4, <1>2
    <3>2. PICK h, S :
            /\ Good(b, h, S) /\ Later(m, g, b, h, {o}, Run(v, i))
            /\ R \ Q \subseteq S /\ S \subseteq R
            /\ Covered(m, g, R) /\ AllFresh(m.tables, g, o, v, n) => Covered(b, h, S)
      BY <2>1, <2>2 DEF Mapped1
    <3>3. Later(m, g, b, h, {o}, Run(v, i + 1))
      BY <3>2, <2>1, RunStep, LaterMore
    <3>4. Mapped1(m, g, R, Q, o, v, f, n, i + 1, b)
      BY <3>2, <3>3, <2>4 DEF Mapped1
    <3>5. Mapped1(m, g, R, Q, o, v, f, n, i + 1, d)
      BY <3>1, <3>4
    <3>6. QED
      BY <2>1, <2>2, <3>5
  <2>5. CASE b.ok = TRUE
    <3>1. d = MapPageIn(b, o, v + i, f + i)
      BY <2>2, <2>5, <1>2
    <3>2. Mapped1(m, g, R, Q, o, v, f, n, i, b)
      BY <2>1, <2>2
    <3>3. Mapped1(m, g, R, Q, o, v, f, n, i + 1, d)
      BY <3>1, <3>2, <2>5, MapRound
    <3>4. QED
      BY <2>1, <2>2, <3>3
  <2>6. QED
    BY <2>3, <2>4, <2>5
<1> HIDE DEF P
<1>5. n \in P
  BY <1>3, <1>4, UpTo
<1>6. Mapped1(m, g, R, Q, o, v, f, n, n, a)
  BY <1>2, <1>5 DEF P
<1>7. R \ (Q \cap Run(f, n)) = R \ Q
  OBVIOUS
<1>8. QED
  BY <1>6, <1>7 DEF Mapped1, MappingAll

----------------------------------------------------------------------------
(* A new address space is filled.                                          *)

LEMMA UserRooted ==
  ASSUME NEW T, NEW g, NEW c, Target(T, g, c), NEW v \in Nat, NEW n \in Nat, Run(v, n) \subseteq Users
  PROVE  Rooted(T, g, c, v, n)
<1> SUFFICES ASSUME NEW j \in 0 .. n - 1 PROVE RootOf(T, g, c, v + j)
  BY DEF Rooted
<1>1. v + j \in 0 .. UserTop - 1
  BY DEF Run, Users
<1>2. v + j \in Pages /\ Pml4Index(v + j) \in UserHalf
  BY <1>1, UserPage
<1>3. QED
  BY <1>2 DEF RootOf, Target

LEMMA RunMember ==
  ASSUME NEW v \in Nat, NEW n \in Nat, NEW w \in Run(v, n)
  PROVE  \E j \in 0 .. n - 1 : w = v + j
<1>1. w - v \in 0 .. n - 1 /\ w = v + (w - v)
  BY DEF Run
<1>2. QED
  BY <1>1

LEMMA LeafsRun ==
  ASSUME NEW T, NEW g, NEW o, NEW v \in Nat, NEW f, NEW n \in Nat, Leafs(T, g, o, v, f, n)
  PROVE  \A w \in Run(v, n) : \E x : Leaf(T, g, o, w, x)
<1> SUFFICES ASSUME NEW w \in Run(v, n) PROVE \E x : Leaf(T, g, o, w, x)
  OBVIOUS
<1>1. PICK j \in 0 .. n - 1 : w = v + j
  BY RunMember
<1>2. Leaf(T, g, o, v + j, f + j)
  BY DEF Leafs
<1>3. QED
  BY <1>1, <1>2

LEMMA FreshRun ==
  ASSUME NEW T, NEW g, NEW o, NEW v \in Nat, NEW n \in Nat, \A w \in Run(v, n) : Fresh(T, g, o, w)
  PROVE  AllFresh(T, g, o, v, n)
<1> SUFFICES ASSUME NEW j \in 0 .. n - 1 PROVE Fresh(T, g, o, v + j)
  BY DEF AllFresh
<1>1. v + j \in Run(v, n)
  BY DEF Run
<1>2. QED
  BY <1>1

LEMMA MapFreshSound ==
  ASSUME NEW a, NEW h, NEW R, Good(a, h, Held(R, a)), a.ok = TRUE, NEW c, c = a.root,
         Target(a.tables, h, c), NEW v \in Nat, NEW n \in Nat \ {0}, Run(v, n) \subseteq Users,
         IpcVirt \notin Run(v, n), NEW b, b = MapFresh(a, v, n)
  PROVE  Progress(a, h, R, c, Run(v, n), b)
<1>0. IsMemory(a) /\ Framed(a) /\ Tree(a.tables, h) /\ AsideOK(a, Held(R, a))
  BY Zenon DEF Good
<1>1. PICK m : m = AllocFrames(a, n)
  OBVIOUS
<1>2. b = MapGot(m, v, n)
  BY <1>1 DEF MapFresh
<1>3. PICK f, S : f = m.got /\ S = Held(R, a)
  OBVIOUS
<1>4. /\ IsMemory(m) /\ Framed(m) /\ SameElse(a, m) /\ m.tables = a.tables /\ m.ok = a.ok
      /\ \/ m.got = None /\ m.taken = a.taken
         \/ /\ m.got \in Nat /\ m.got # None /\ Run(m.got, n) \subseteq Free(a)
            /\ m.taken = a.taken \cup Run(m.got, n)
  BY <1>0, <1>1, AllocFramesSound
<1>5. CASE f = None
  <2>1. b = [m EXCEPT !.ok = FALSE]
    BY <1>2, <1>3, <1>5 DEF MapGot, Fail
  <2>2. /\ IsMemory(b) /\ SameElse(a, b) /\ b.ok = FALSE /\ b.tables = a.tables
        /\ b.taken = m.taken /\ b.used = m.used
    BY <2>1, <1>4 DEF IsMemory, SameElse
  <2>3. m.taken = a.taken /\ m.ram = a.ram
    BY <1>3, <1>4, <1>5 DEF SameElse, Run
  <2>4. m.used = a.used
    BY <2>3, <1>0, <1>4 DEF Framed
  <2>5. Held(R, b) = Held(R, a)
    BY <2>2 DEF Held, SameElse
  <2>6. Good(b, h, Held(R, a))
    <3>1. b.ram = a.ram /\ b.ipcPage = a.ipcPage
      BY <2>2 DEF SameElse
    <3>2. QED
      BY <3>1, <2>2, <2>3, <2>4, GoodSame
  <2>7. Moved(a.tables, h, b.tables, h, {c}, Run(v, n))
    BY <2>2, MovedSelf
  <2>8. Quiet2(R, a, b)
    BY <2>2 DEF Quiet2, SameElse
  <2>9. QED
    BY <2>2, <2>5, <2>6, <2>7, <2>8 DEF Progress
<1>6. CASE f # None
  <2>1. b = MapPagesIn(m, c, v, f, n)
    BY <1>2, <1>3, <1>4, <1>6 DEF MapGot, SameElse
  <2>2. PICK Q : Q = Run(f, n)
    OBVIOUS
  <2>3. f \in Nat /\ Q \subseteq Free(a) /\ m.taken = a.taken \cup Q
    BY <1>3, <1>4, <1>6, <2>2
  <2>4. /\ Good(m, h, S \cup Q)
        /\ Q \cap (S \cup DOMAIN a.tables \cup Image \cup a.taken) = {}
        /\ Covered(a, h, S) => Covered(m, h, S \cup Q)
    <3>1. Good(a, h, S)
      BY <1>3
    <3>2. QED
      BY <3>1, <2>3, <1>4, SetAside
  <2>5. m.ipcPage = a.ipcPage
    BY <1>4 DEF SameElse
  <2>6. Q \cap Common(m) = {}
    <3>1. Q \cap (TextFrames \cup DataFrames) = {}
      BY <2>4, ImageAssumption
    <3>2. a.ipcPage \notin Q
      <4>1. CASE a.ipcPage = None
        BY <4>1, <2>3, <1>0, FramedFacts
      <4>2. CASE a.ipcPage # None
        BY <4>2, <2>4, <1>3 DEF Held
      <4>3. QED
        BY <4>1, <4>2
    <3>3. QED
      BY <3>1, <3>2, <2>5 DEF Common
  <2>7. AskAll(m, c, v, f, n, Q)
    <3> SUFFICES ASSUME NEW j \in 0 .. n - 1 PROVE Ask(m, c, v + j, f + j, Q)
      BY DEF AskAll
    <3>1. f + j \in Q
      BY <2>2, <2>3 DEF Run
    <3>2. QED
      BY <3>1, <2>6 DEF Ask, Target
  <2>8. Rooted(m.tables, h, c, v, n)
    BY <1>4, UserRooted
  <2>9. MappingAll(m, h, S \cup Q, Q, c, v, f, n, b)
    <3>1. PICK Z : Z = S \cup Q
      OBVIOUS
    <3>2. Good(m, h, Z) /\ Q \subseteq Z /\ Q \subseteq Run(f, n)
      BY <3>1, <2>2, <2>4
    <3>3. MappingAll(m, h, Z, Q, c, v, f, n, b)
      BY <3>2, <2>1, <2>3, <2>7, <2>8, MapPagesSound
    <3>4. QED
      BY <3>1, <3>3
  <2>10. PICK k, Z :
           /\ Good(b, k, Z) /\ Later(m, h, b, k, {c}, Run(v, n))
           /\ (S \cup Q) \ Q \subseteq Z /\ Z \subseteq S \cup Q
           /\ b.ok = TRUE => Z = (S \cup Q) \ Q /\ Leafs(b.tables, k, c, v, f, n)
           /\ Covered(m, h, S \cup Q) /\ AllFresh(m.tables, h, c, v, n) => Covered(b, k, Z)
    BY <2>9 DEF MappingAll
  <2>11. (S \cup Q) \ Q = S
    BY <2>4
  <2>12. b.ipcPage = a.ipcPage /\ Quiet2(R, a, b)
    BY <2>10, <1>4 DEF Later, SameElse, Quiet2
  <2>13. Held(R, b) = S
    BY <2>12, <1>3 DEF Held
  <2>14. Good(b, k, S)
    <3>1. b.ipcPage # None => b.ipcPage \in S
      BY <2>12, <1>3 DEF Held
    <3>2. S \subseteq Z
      BY <2>10, <2>11
    <3>3. QED
      BY <3>1, <3>2, <2>10, GoodLess
  <2>15. Moved(a.tables, h, b.tables, k, {c}, Run(v, n))
    BY <2>10, <1>4 DEF Later
  <2>16. ASSUME b.ok = TRUE
         PROVE  \A w \in Run(v, n) : \E x : Leaf(b.tables, k, c, w, x)
    BY <2>10, <2>16, LeafsRun
  <2>17. ASSUME b.ok = TRUE, Covered(a, h, S), \A w \in Run(v, n) : Fresh(a.tables, h, c, w)
         PROVE  Covered(b, k, S)
    <3>1. AllFresh(m.tables, h, c, v, n)
      BY <2>17, <1>4, FreshRun
    <3>2. QED
      BY <3>1, <2>4, <2>10, <2>11, <2>17
  <2>18. QED
    BY <1>3, <2>12, <2>13, <2>14, <2>15, <2>16, <2>17 DEF Progress
<1>7. QED
  BY <1>5, <1>6

\* A frame that was set aside becomes the page all processes share.
LEMMA NewIpc ==
  ASSUME NEW m, NEW g, NEW S, Good(m, g, S), m.ipcPage = None, NEW x \in S,
         NEW a, IsMemory(a), a.ram = m.ram, a.taken = m.taken, a.used = m.used,
         a.tables = m.tables, a.ipcPage = x
  PROVE  Good(a, g, S) /\ (Covered(m, g, S) => Covered(a, g, S))
<1>1. /\ Framed(m) /\ Tree(m.tables, g) /\ PagesOK(m, g, S) /\ PagesApart(m, g) /\ TablesOK(m, g)
      /\ AsideOK(m, S)
  BY DEF Good
<1>2. Plain(m, x) /\ x \in Nat /\ x # None /\ x \notin Image
  BY <1>1 DEF AsideOK, Plain, Managed, None
<1>3. None \notin TextFrames \cup DataFrames /\ x \notin TextFrames \cup DataFrames
  BY <1>2, ImageAssumption, PmmAssumption DEF None
<1>4. Framed(a) /\ TablesOK(a, g)
  BY <1>1 DEF Framed, TablesOK
<1>5. \A y : Plain(a, y) <=> Plain(m, y)
  BY DEF Plain
<1>6. AsideOK(a, S)
  BY <1>1, <1>2, <1>5 DEF AsideOK
<1>7. ASSUME NEW t \in DOMAIN m.tables, NEW i \in DOMAIN m.tables[t], Guarded(m.tables, g, t, i),
             NEW y, y = m.tables[t][i].frame
      PROVE  /\ y # x /\ y # None
             /\ IF y \in Common(m) THEN g.own[t] # KernelRoot /\ Placed(m, Sub(g.key[t], i), y)
                ELSE Plain(m, y) /\ y \notin S
  <2>1. IF y \in Common(m) THEN g.own[t] # KernelRoot /\ Placed(m, Sub(g.key[t], i), y)
        ELSE Plain(m, y) /\ y \notin S
    BY <1>1, <1>7, Zenon DEF PagesOK
  <2>2. y \in Common(m) => y # None /\ y \in TextFrames \cup DataFrames
    BY <2>1, <1>3 DEF Placed, Common
  <2>3. y # x /\ y # None
    <3>1. CASE y \in Common(m)
      BY <3>1, <2>2, <1>3
    <3>2. CASE y \notin Common(m)
      BY <3>2, <2>1 DEF Common
    <3>3. QED
      BY <3>1, <3>2
  <2>4. QED
    BY <2>1, <2>3
<1>8. \A y : y # x /\ y # None => (y \in Common(a) <=> y \in Common(m))
  BY DEF Common
<1>9. \A v, y : y # x /\ y # None => (Placed(a, v, y) <=> Placed(m, v, y))
  BY DEF Placed
<1>10. PagesOK(a, g, S)
  <2> SUFFICES ASSUME NEW t \in DOMAIN m.tables, NEW i \in DOMAIN m.tables[t], Guarded(m.tables, g, t, i)
               PROVE  LET y == m.tables[t][i].frame IN
                      IF y \in Common(a) THEN g.own[t] # KernelRoot /\ Placed(a, Sub(g.key[t], i), y)
                      ELSE Plain(a, y) /\ y \notin S
    BY Zenon DEF PagesOK
  <2>1. PICK y : y = m.tables[t][i].frame
    OBVIOUS
  <2>2. /\ y # x /\ y # None
        /\ IF y \in Common(m) THEN g.own[t] # KernelRoot /\ Placed(m, Sub(g.key[t], i), y)
           ELSE Plain(m, y) /\ y \notin S
    BY <2>1, <1>7
  <2>3. QED
    BY <2>1, <2>2, <1>5, <1>8, <1>9
<1>11. PagesApart(a, g)
  <2> SUFFICES ASSUME NEW s \in DOMAIN m.tables, NEW t \in DOMAIN m.tables,
                      NEW i \in DOMAIN m.tables[s], NEW j \in DOMAIN m.tables[t],
                      Guarded(m.tables, g, s, i), Guarded(m.tables, g, t, j),
                      m.tables[s][i].frame = m.tables[t][j].frame,
                      m.tables[s][i].frame \notin Common(a)
               PROVE  s = t /\ i = j
    BY DEF PagesApart
  <2>1. m.tables[s][i].frame \notin Common(m)
    BY <1>7, <1>8
  <2>2. QED
    BY <2>1, <1>1 DEF PagesApart
<1>12. Good(a, g, S)
  BY <1>1, <1>4, <1>6, <1>10, <1>11 DEF Good
<1>13. Covered(m, g, S) => Covered(a, g, S)
  BY DEF Covered
<1>14. QED
  BY <1>12, <1>13

\* Pages that processes share are mapped; a is where nothing is set aside for it.
LEMMA MapSharedSound ==
  ASSUME NEW a, NEW h, NEW R, Good(a, h, Held(R, a)), NEW c, Target(a.tables, h, c),
         NEW v \in Nat, NEW n \in Nat, Run(v, n) \subseteq Users, NEW f \in Nat,
         \A j \in 0 .. n - 1 : f + j \in Common(a) /\ Placed(a, v + j, f + j),
         IpcVirt \in Run(v, n) => f = a.ipcPage /\ f # None /\ v = IpcVirt,
         NEW b, b = MapPagesIn(a, c, v, f, n)
  PROVE  Progress(a, h, R, c, Run(v, n), b)
<1>1. PICK S : S = Held(R, a)
  OBVIOUS
<1>2. AskAll(a, c, v, f, n, {}) /\ {} \subseteq S /\ {} \subseteq Run(f, n)
  BY DEF AskAll, Ask, Target
<1>3. Rooted(a.tables, h, c, v, n)
  BY UserRooted
<1>4. MappingAll(a, h, S, {}, c, v, f, n, b)
  <2>1. Good(a, h, S)
    BY <1>1
  <2>2. QED
    BY <2>1, <1>2, <1>3, MapPagesSound
<1>5. PICK k, Z :
        /\ Good(b, k, Z) /\ Later(a, h, b, k, {c}, Run(v, n))
        /\ S \ {} \subseteq Z /\ Z \subseteq S
        /\ b.ok = TRUE => Z = S \ {} /\ Leafs(b.tables, k, c, v, f, n)
        /\ Covered(a, h, S) /\ AllFresh(a.tables, h, c, v, n) => Covered(b, k, Z)
  BY <1>4 DEF MappingAll
<1>6. Z = S
  BY <1>5
<1>7. b.ipcPage = a.ipcPage /\ Quiet2(R, a, b) /\ Moved(a.tables, h, b.tables, k, {c}, Run(v, n))
  BY <1>5 DEF Later, SameElse, Quiet2
<1>8. Held(R, b) = S
  BY <1>1, <1>7 DEF Held
<1>9. ASSUME b.ok = TRUE
      PROVE  \A w \in Run(v, n) : \E x : Leaf(b.tables, k, c, w, x)
  BY <1>5, <1>9, LeafsRun
<1>10. ASSUME b.ok = TRUE, IpcVirt \in Run(v, n)
       PROVE  b.ipcPage # None /\ Leaf(b.tables, k, c, IpcVirt, b.ipcPage)
  <2>1. f = a.ipcPage /\ f # None /\ v = IpcVirt /\ 0 \in 0 .. n - 1
    BY <1>10 DEF Run
  <2>2. Leaf(b.tables, k, c, v + 0, f + 0)
    BY <2>1, <1>5, <1>10 DEF Leafs
  <2>3. v + 0 = v /\ f + 0 = f
    OBVIOUS
  <2>4. QED
    BY <2>1, <2>2, <2>3, <1>7
<1>11. ASSUME Covered(a, h, S), \A w \in Run(v, n) : Fresh(a.tables, h, c, w)
       PROVE  Covered(b, k, S)
  BY <1>5, <1>6, <1>11, FreshRun
<1>12. Good(b, k, S)
  BY <1>5, <1>6
<1>13. QED
  BY <1>1, <1>7, <1>8, <1>9, <1>10, <1>11, <1>12 DEF Progress

LEMMA MapPagesStuck ==
  ASSUME NEW m, m.ok = FALSE, NEW o, NEW v, NEW f, NEW n \in Nat
  PROVE  MapPagesIn(m, o, v, f, n) = m
<1>1. PICK a : a = MapPagesIn(m, o, v, f, n)
  OBVIOUS
<1>2. PICK c, st : Loop("map", c, m, n, st, a)
  <2>1. \E st : Loop("map", [root |-> o, v |-> v, f |-> f], m, n, st, MapPagesIn(m, o, v, f, n))
    BY MapPagesLoop
  <2>2. QED
    BY <1>1, <2>1
<1> DEFINE P == {i \in Nat : st[i] = m}
<1>3. 0 \in P
  BY <1>2 DEF Loop
<1>4. ASSUME NEW i \in 0 .. n - 1, i \in P PROVE i + 1 \in P
  <2>1. st[i + 1] = Step("map", c, m, i + 1)
    BY <1>2, <1>4 DEF Loop
  <2>2. Step("map", c, m, i + 1) = m
    BY DEF Step
  <2>3. QED
    BY <2>1, <2>2
<1> HIDE DEF P
<1>5. n \in P
  BY <1>3, <1>4, UpTo
<1>6. QED
  BY <1>1, <1>2, <1>5 DEF P, Loop

\* Where the pages of a process are: in the user's half, one part behind the
\* other.
LEMMA UserAreas ==
  /\ Run(CodeBase, TextPages) \subseteq Users /\ Run(DataBase, DataPages) \subseteq Users
  /\ Run(StackBase, StackPages) \subseteq Users /\ IpcVirt \in Users
  /\ {CodeBase, DataBase, StackBase, IpcVirt} \subseteq Nat
  /\ Run(CodeBase, TextPages) \cap Run(DataBase, DataPages) = {}
  /\ (Run(CodeBase, TextPages) \cup Run(DataBase, DataPages)) \subseteq 0 .. IpcVirt - 1
  /\ Run(StackBase, StackPages) \subseteq IpcVirt + 1 .. StackTop - 1
  /\ {TextPages, DataPages, StackPages, OffPages, ExpandPages} \subseteq Nat \ {0}
<1>1. /\ CodeBase \in Nat /\ DataBase \in Nat /\ IpcVirt \in Nat /\ StackTop \in Nat /\ UserTop \in Nat
  BY Bases
<1>2. TextPages \in Nat \ {0} /\ DataPages \in Nat \ {0} /\ StackPages \in Nat \ {0}
      /\ OffPages \in Nat \ {0} /\ ExpandPages \in Nat \ {0}
  BY ProcessesAssumption
<1>3. StackTop <= UserTop
  <2>1. Page(1, 0, 0, 0) <= UserTop
    <3>1. 1 \in Nat /\ W \div 2 \in Nat /\ 1 <= W \div 2
      BY Bases
    <3>2. QED
      BY <3>1, PageMono DEF UserTop
  <2>2. StackTop <= Page(1, 0, 0, 0)
    <3>1. PICK n : n \in Nat /\ n = W
      BY VmmAssumption
    <3>2. n >= 8 /\ StackTop = 2 * n * n /\ Page(1, 0, 0, 0) = n * n * n
      BY <3>1, VmmAssumption DEF StackTop, Page
    <3>3. 2 * n * n <= n * n * n
      <4>1. PICK q : q \in Nat /\ q = n * n
        BY <3>1
      <4>2. 2 * q <= q * n
        BY <4>1, <3>1, <3>2
      <4>3. 2 * n * n = 2 * q /\ n * n * n = q * n
        BY <4>1, <3>1
      <4>4. QED
        BY <4>2, <4>3
    <3>4. QED
      BY <3>2, <3>3
  <2>3. Page(1, 0, 0, 0) \in Nat
    BY PageNat
  <2>4. QED
    BY <2>1, <2>2, <2>3, <1>1
<1>4. /\ CodeBase + TextPages <= DataBase /\ DataBase + DataPages <= IpcVirt
      /\ IpcVirt < StackTop - StackPages
  BY LayoutAssumption DEF StackBase
<1>5. QED
  BY <1>1, <1>2, <1>3, <1>4 DEF Run, Users, StackBase

LEMMA MapIpcSound ==
  ASSUME NEW a, NEW h, NEW R, Good(a, h, Held(R, a)), a.ok = TRUE, NEW c, c = a.root,
         Target(a.tables, h, c), NEW b, b = MapIpcPage(a)
  PROVE  Progress(a, h, R, c, {IpcVirt}, b)
<1>0. IsMemory(a) /\ Framed(a) /\ Tree(a.tables, h) /\ AsideOK(a, Held(R, a)) /\ a.ipcPage \in Nat
  BY Zenon DEF Good, AsideOK
<1>1. ASSUME NEW m, Good(m, h, Held(R, m)), m.ipcPage # None, Target(m.tables, h, c),
             b = MapPagesIn(m, c, IpcVirt, m.ipcPage, 1)
      PROVE  Progress(m, h, R, c, {IpcVirt}, b)
  <2>1. PICK v, f, n : v = IpcVirt /\ f = m.ipcPage /\ n = 1
    OBVIOUS
  <2>2. v \in Nat /\ n \in Nat /\ Run(v, n) = {IpcVirt} /\ Run(v, n) \subseteq Users
    BY <2>1, UserAreas DEF Run, Users
  <2>3. f \in Nat
    BY <1>1, <2>1 DEF Good, AsideOK
  <2>4. \A j \in 0 .. n - 1 : f + j \in Common(m) /\ Placed(m, v + j, f + j)
    <3> SUFFICES ASSUME NEW j \in 0 .. n - 1 PROVE f + j \in Common(m) /\ Placed(m, v + j, f + j)
      OBVIOUS
    <3>1. f + j = m.ipcPage /\ v + j = IpcVirt
      BY <2>1, <2>2, <2>3
    <3>2. QED
      BY <3>1, <1>1 DEF Common, Placed
  <2>5. f = m.ipcPage /\ f # None /\ v = IpcVirt /\ b = MapPagesIn(m, c, v, f, n)
    BY <2>1, <1>1
  <2>6. Progress(m, h, R, c, Run(v, n), b)
    BY <2>2, <2>3, <2>4, <2>5, <1>1, MapSharedSound
  <2>7. QED
    BY <2>2, <2>6
<1>2. CASE a.ipcPage # None
  <2>1. b = MapPagesIn(a, c, IpcVirt, a.ipcPage, 1)
    BY <1>2 DEF MapIpcPage
  <2>2. QED
    BY <2>1, <1>1, <1>2
<1>3. CASE a.ipcPage = None
  <2>1. PICK m, d : m = AllocFrame(a) /\ d = MakeIpcPage(m)
    OBVIOUS
  <2>2. b = MapPagesIn(d, c, IpcVirt, d.ipcPage, 1)
    <3>1. b = MapPagesIn(d, a.root, IpcVirt, d.ipcPage, 1)
      BY <2>1, <1>3 DEF MapIpcPage
    <3>2. QED
      BY <3>1
  <2>3. /\ IsMemory(m) /\ Framed(m) /\ SameElse(a, m) /\ m.tables = a.tables /\ m.ok = a.ok
        /\ \/ m.got = None /\ m.taken = a.taken
           \/ /\ m.got \in Free(a) /\ m.got \in Nat /\ m.got # None
              /\ m.taken = a.taken \cup {m.got}
    <3>1. m = TakeLowest(a, Free(a))
      BY <2>1 DEF AllocFrame
    <3>2. QED
      BY <3>1, <1>0, TakeLowestSound
  <2>4. d = [m EXCEPT !.ipcPage = m.got, !.ok = m.got # None]
    BY <2>1 DEF MakeIpcPage
  <2>5. PICK x : x = m.got
    OBVIOUS
  <2>6. /\ IsMemory(d) /\ d.ram = m.ram /\ d.taken = m.taken /\ d.used = m.used
        /\ d.tables = m.tables /\ d.ipcPage = x /\ d.heapEnd = m.heapEnd /\ d.threads = m.threads
        /\ d.root = m.root /\ d.fault = m.fault
    BY <2>3, <2>4, <2>5 DEF IsMemory
  <2>7. (x # None => d.ok = TRUE) /\ (x = None => d.ok = FALSE)
    BY <2>3, <2>4, <2>5 DEF IsMemory
  <2>8. Quiet2(R, a, d)
    <3>1. x # None => x \notin R
      <4>1. \A y \in R : y \in a.taken
        BY <1>0 DEF AsideOK, Held, Plain
      <4>2. QED
        BY <4>1, <2>3, <2>5 DEF Free
    <3>2. QED
      BY <3>1, <2>3, <2>6, <1>3 DEF Quiet2, SameElse
  <2>9. Held(R, a) = R /\ m.ipcPage = None
    BY <1>3, <2>3 DEF Held, SameElse
  <2>10. CASE x = None
    <3>1. b = d
      <4>1. PICK n \in Nat : n = 1
        OBVIOUS
      <4>2. d.ok = FALSE /\ b = MapPagesIn(d, c, IpcVirt, d.ipcPage, n)
        BY <4>1, <2>2, <2>7, <2>10
      <4>3. QED
        BY <4>2, MapPagesStuck
    <3>2. m.taken = a.taken /\ m.ram = a.ram
      BY <2>3, <2>5, <2>10 DEF SameElse, Free, Framed
    <3>3. m.used = a.used
      BY <3>2, <2>3, <1>0 DEF Framed
    <3>4. Good(b, h, R)
      <4>1. Good(a, h, R)
        BY <2>9
      <4>2. b.ipcPage = a.ipcPage
        BY <3>1, <2>6, <2>10, <1>3
      <4>3. QED
        BY <4>1, <4>2, <3>1, <3>2, <3>3, <2>3, <2>6, GoodSame
    <3>5. Held(R, b) = R
      BY <3>1, <2>6, <2>10 DEF Held
    <3>6. Moved(a.tables, h, b.tables, h, {c}, {IpcVirt})
      BY <3>1, <2>3, <2>6, MovedSelf
    <3>7. b.ok = FALSE
      BY <3>1, <2>7, <2>10
    <3>8. Good(b, h, Held(R, b)) /\ Quiet2(R, a, b)
      BY <3>1, <3>4, <3>5, <2>8
    <3>9. QED
      BY <3>6, <3>7, <3>8 DEF Progress
  <2>11. CASE x # None
    <3>1. x \in Nat /\ {x} \subseteq Free(a) /\ m.taken = a.taken \cup {x}
      BY <2>3, <2>5, <2>11
    <3>2. PICK Z : Z = R \cup {x}
      OBVIOUS
    <3>3. Good(m, h, Z) /\ (Covered(a, h, R) => Covered(m, h, Z))
      <4>1. Good(a, h, R)
        BY <2>9
      <4>2. /\ Good(m, h, R \cup {x})
            /\ Covered(a, h, R) => Covered(m, h, R \cup {x})
        BY <4>1, <3>1, <2>3, SetAside
      <4>3. QED
        BY <4>2, <3>2
    <3>4. Good(d, h, Z) /\ (Covered(m, h, Z) => Covered(d, h, Z))
      BY <3>2, <3>3, <2>6, <2>9, NewIpc
    <3>5. Held(R, d) = Z
      BY <3>2, <2>6, <2>11 DEF Held
    <3>6. Progress(d, h, R, c, {IpcVirt}, b)
      <4>1. Target(d.tables, h, c) /\ Good(d, h, Held(R, d)) /\ d.ipcPage # None
        BY <3>4, <3>5, <2>3, <2>6, <2>11
      <4>2. QED
        BY <4>1, <2>2, <1>1
    <3>7. d.tables = a.tables
      BY <2>3, <2>6
    <3>8. PICK k :
            /\ Good(b, k, Held(R, b)) /\ Moved(d.tables, h, b.tables, k, {c}, {IpcVirt}) /\ Quiet2(R, d, b)
            /\ b.ok = TRUE =>
                 /\ \A v \in {IpcVirt} : \E f : Leaf(b.tables, k, c, v, f)
                 /\ IpcVirt \in {IpcVirt} => b.ipcPage # None /\ Leaf(b.tables, k, c, IpcVirt, b.ipcPage)
                 /\ Covered(d, h, Held(R, d)) /\ (\A v \in {IpcVirt} : Fresh(d.tables, h, c, v))
                      => Covered(b, k, Held(R, b))
      BY <3>6 DEF Progress
    <3>9. Quiet2(R, a, b)
      BY <3>8, <2>8, <2>6, <1>3 DEF Quiet2
    <3>10. Moved(a.tables, h, b.tables, k, {c}, {IpcVirt})
      BY <3>7, <3>8
    <3>11. ASSUME b.ok = TRUE, Covered(a, h, Held(R, a)), \A v \in {IpcVirt} : Fresh(a.tables, h, c, v)
           PROVE  Covered(b, k, Held(R, b))
      <4>1. Covered(d, h, Held(R, d))
        BY <3>3, <3>4, <3>5, <3>11, <2>9
      <4>2. QED
        BY <4>1, <3>7, <3>8, <3>11
    <3>12. QED
      BY <3>8, <3>9, <3>10, <3>11 DEF Progress
  <2>12. QED
    BY <2>10, <2>11
<1>4. QED
  BY <1>2, <1>3

\* Mapping the user's pages leaves the kernel's half of a root alone.
LEMMA AgreesOwn ==
  ASSUME NEW T, NEW g, Tree(T, g), NEW U, NEW h, NEW c, NEW V, V \subseteq Users,
         Moved(T, g, U, h, {c}, V), Target(T, g, c), Agrees(T, c), W - 1 \in DOMAIN T[KernelRoot]
  PROVE  Agrees(U, c)
<1>1. c \in DOMAIN T /\ g.lev[c] = 4 /\ c # KernelRoot
  BY DEF Target
<1>2. KernelRoot \in DOMAIN T /\ g.lev[KernelRoot] = 4 /\ TablesTyped(T, g)
  BY DEF Tree, TablesTyped
<1>3. U[KernelRoot] = T[KernelRoot]
  BY <1>1, <1>2, RootUnmoved
<1>4. DOMAIN T[c] # {}
  BY Bases DEF Agrees
<1>5. \A i \in DOMAIN T[c] : i \in DOMAIN U[c] /\ U[c][i] = T[c][i]
  BY <1>1, <1>2, RootLeads DEF Moved, EntriesKept
<1>6. \A i \in DOMAIN U[c] : i \in DOMAIN T[c] \/ \E v \in V : i = Pml4Index(v)
  BY <1>1, <1>4 DEF Moved, RootKept
<1>7. \A v \in V : Pml4Index(v) \in UserHalf
  BY UserPage DEF Users
<1>8. ASSUME NEW i \in KernelHalf
      PROVE  /\ i \in DOMAIN U[c] <=> i \in DOMAIN U[KernelRoot]
             /\ i \in DOMAIN U[c] => U[c][i] = U[KernelRoot][i]
  <2>1. i \notin UserHalf
    BY Bases DEF KernelHalf, Idx, UserHalf
  <2>2. i \in DOMAIN U[c] <=> i \in DOMAIN T[c]
    BY <2>1, <1>5, <1>6, <1>7
  <2>3. /\ i \in DOMAIN T[c] <=> i \in DOMAIN T[KernelRoot]
        /\ i \in DOMAIN T[c] => T[c][i] = T[KernelRoot][i]
    BY DEF Agrees
  <2>4. QED
    BY <2>2, <2>3, <1>3, <1>5
<1>9. QED
  BY <1>8 DEF Agrees

LEMMA TargetKept ==
  ASSUME NEW T, NEW g, Tree(T, g), NEW c, Target(T, g, c),
         NEW U, NEW h, NEW O, NEW V, Moved(T, g, U, h, O, V)
  PROVE  Target(U, h, c)
BY RootUnmoved DEF Target

\* Entry W - 1 of the kernel's root, for the image, stays.
LEMMA TopStays ==
  ASSUME NEW T, NEW g, Tree(T, g), NEW U, NEW h, NEW O, NEW V, Moved(T, g, U, h, O, V),
         NEW i \in DOMAIN T[KernelRoot]
  PROVE  i \in DOMAIN U[KernelRoot]
<1>1. KernelRoot \in DOMAIN T /\ g.lev[KernelRoot] = 4 /\ TablesTyped(T, g)
  BY DEF Tree, TablesTyped
<1>2. QED
  BY <1>1, RootLeads DEF Moved, EntriesKept

LEMMA Advance ==
  ASSUME NEW m, NEW g, Ready(m, g), NEW R, NEW a, NEW h, NEW c, NEW D, D \subseteq Users,
         Built(m, g, R, a, h, c, D), NEW V, V \subseteq Users \ D, NEW b, Progress(a, h, R, c, V, b)
  PROVE  Outcome(m, g, R, b, c, D \cup V)
<1> USE DEF Ready
<1>0. /\ Good(a, h, Held(R, a)) /\ Moved(m.tables, g, a.tables, h, {KernelRoot, c}, SpacePages)
      /\ a.ram = m.ram /\ a.heapEnd = m.heapEnd /\ a.threads = m.threads
      /\ m.ipcPage # None => a.ipcPage = m.ipcPage
      /\ m.ipcPage \notin R => a.ipcPage \notin R
      /\ a.fault = FALSE /\ a.root = c /\ c \in Nat \ DOMAIN m.tables
      /\ Target(a.tables, h, c) /\ Agrees(a.tables, c) /\ Window(a.tables, h)
      /\ \A v \in D : \E f : Leaf(a.tables, h, c, v, f)
      /\ IpcVirt \in D => a.ipcPage # None /\ Leaf(a.tables, h, c, IpcVirt, a.ipcPage)
      /\ \A v \in Users \ D : Fresh(a.tables, h, c, v)
      /\ Covered(m, g, Held(R, m)) => Covered(a, h, Held(R, a))
  BY DEF Built
<1>1. PICK k :
        /\ Good(b, k, Held(R, b)) /\ Moved(a.tables, h, b.tables, k, {c}, V) /\ Quiet2(R, a, b)
        /\ b.ok = TRUE =>
             /\ \A v \in V : \E f : Leaf(b.tables, k, c, v, f)
             /\ IpcVirt \in V => b.ipcPage # None /\ Leaf(b.tables, k, c, IpcVirt, b.ipcPage)
             /\ Covered(a, h, Held(R, a)) /\ (\A v \in V : Fresh(a.tables, h, c, v))
                  => Covered(b, k, Held(R, b))
  BY DEF Progress
<1>2. Tree(a.tables, h) /\ IsMemory(b)
  BY <1>0, <1>1, Zenon DEF Good
<1>3. Moved(m.tables, g, b.tables, k, {KernelRoot, c}, SpacePages)
  <2>1. {c} \subseteq {KernelRoot, c} /\ V \subseteq SpacePages
    BY DEF SpacePages
  <2>2. Moved(a.tables, h, b.tables, k, {KernelRoot, c}, SpacePages)
    BY <1>0, <2>1, <1>1, MovedMore
  <2>3. QED
    BY <1>0, <2>2, MovedTrans DEF Tree
<1>4. /\ b.ram = m.ram /\ b.heapEnd = m.heapEnd /\ b.threads = m.threads
      /\ m.ipcPage # None => b.ipcPage = m.ipcPage
      /\ m.ipcPage \notin R => b.ipcPage \notin R
      /\ b.fault = FALSE /\ b.root = c
  BY <1>0, <1>1 DEF Quiet2
<1>5. Window(b.tables, k) /\ Target(b.tables, k, c)
  BY <1>0, <1>1, <1>2, WindowKept, TargetKept
<1>6. CASE b.ok = FALSE
  <2>1. {KernelRoot, c} \subseteq Others(m.tables)
    BY <1>0 DEF Others
  <2>2. Moved(m.tables, g, b.tables, k, Others(m.tables), SpacePages)
    BY <1>0, <2>1, <1>3, MovedMore
  <2>3. Stuck(m, g, R, b)
    BY <1>0, <2>2, <1>1, <1>4, <1>5, <1>6 DEF Stuck
  <2>4. QED
    BY <2>3 DEF Outcome
<1>7. CASE b.ok = TRUE
  <2>1. Agrees(b.tables, c)
    <3>1. W - 1 \in DOMAIN a.tables[KernelRoot] /\ V \subseteq Users
      BY <1>0, TopStays
    <3>2. QED
      BY <1>0, <3>1, <1>1, <1>2, AgreesOwn
  <2>2. ASSUME NEW v \in D PROVE \E f : Leaf(b.tables, k, c, v, f)
    <3>1. PICK f : Leaf(a.tables, h, c, v, f)
      BY <1>0
    <3>2. Leaf(b.tables, k, c, v, f)
      BY <1>0, <3>1, <1>1, <1>2, LeafKept
    <3>3. QED
      BY <1>0, <3>2
  <2>3. ASSUME IpcVirt \in D \cup V
        PROVE  b.ipcPage # None /\ Leaf(b.tables, k, c, IpcVirt, b.ipcPage)
    <3>1. CASE IpcVirt \in V
      BY <1>0, <3>1, <1>1, <1>7
    <3>2. CASE IpcVirt \in D
      <4>1. a.ipcPage # None /\ Leaf(a.tables, h, c, IpcVirt, a.ipcPage) /\ IpcVirt \notin V
        BY <1>0, <3>2
      <4>2. Leaf(b.tables, k, c, IpcVirt, a.ipcPage)
        BY <1>0, <4>1, <1>1, <1>2, LeafKept
      <4>3. b.ipcPage = a.ipcPage
        BY <1>0, <4>1, <1>1 DEF Quiet2
      <4>4. QED
        BY <1>0, <4>1, <4>2, <4>3
    <3>3. QED
      BY <1>0, <2>3, <3>1, <3>2
  <2>4. ASSUME NEW v \in Users \ (D \cup V) PROVE Fresh(b.tables, k, c, v)
    <3>1. Fresh(a.tables, h, c, v) /\ v \notin V
      BY <1>0
    <3>2. QED
      BY <1>0, <3>1, <1>1, FreshKept DEF Moved
  <2>5. ASSUME Covered(m, g, Held(R, m)) PROVE Covered(b, k, Held(R, b))
    <3>1. \A v \in V : Fresh(a.tables, h, c, v)
      BY <1>0
    <3>2. QED
      BY <1>0, <3>1, <2>5, <1>1, <1>7
  <2>6. \A v \in D \cup V : \E f : Leaf(b.tables, k, c, v, f)
    BY <1>0, <2>2, <1>1, <1>7
  <2>7. Building(m, g, R, b, c, D \cup V)
    BY <1>0, <2>1, <2>3, <2>4, <2>5, <2>6, <1>1, <1>3, <1>4, <1>5, <1>7, Zenon DEF Built, Building
  <2>8. QED
    BY <2>7 DEF Outcome
<1>8. QED
  BY <1>0, <1>2, <1>6, <1>7 DEF IsMemory

LEMMA FailStuck ==
  ASSUME NEW m, NEW g, NEW R, NEW a, NEW c, NEW D, Building(m, g, R, a, c, D)
  PROVE  Stuck(m, g, R, Fail(a))
<1>1. PICK h : Built(m, g, R, a, h, c, D)
  BY DEF Building
<1>2. /\ Good(a, h, Held(R, a)) /\ Moved(m.tables, g, a.tables, h, {KernelRoot, c}, SpacePages)
      /\ a.ram = m.ram /\ a.heapEnd = m.heapEnd /\ a.threads = m.threads
      /\ m.ipcPage # None => a.ipcPage = m.ipcPage
      /\ m.ipcPage \notin R => a.ipcPage \notin R
      /\ a.fault = FALSE /\ c \in Nat \ DOMAIN m.tables /\ Window(a.tables, h)
  BY <1>1 DEF Built
<1>3. PICK b : b = Fail(a)
  OBVIOUS
<1>4. /\ IsMemory(b) /\ b.ram = a.ram /\ b.taken = a.taken /\ b.used = a.used /\ b.tables = a.tables
      /\ b.ipcPage = a.ipcPage /\ b.heapEnd = a.heapEnd /\ b.threads = a.threads
      /\ b.fault = a.fault /\ b.ok = FALSE
  <2>1. IsMemory(a)
    BY <1>2, Zenon DEF Good
  <2>2. QED
    BY <2>1, <1>3 DEF IsMemory, Fail
<1>5. Held(R, b) = Held(R, a)
  BY <1>4 DEF Held
<1>6. Good(b, h, Held(R, b))
  BY <1>2, <1>4, <1>5, GoodSame
<1>7. Moved(m.tables, g, b.tables, h, Others(m.tables), SpacePages)
  <2>1. {KernelRoot, c} \subseteq Others(m.tables)
    BY <1>2 DEF Others
  <2>2. QED
    BY <2>1, <1>2, <1>4, MovedMore
<1>8. Stuck(m, g, R, b)
  BY <1>2, <1>4, <1>6, <1>7 DEF Stuck
<1>9. QED
  BY <1>3, <1>8

LEMMA BuildStart ==
  ASSUME NEW m, NEW g, NEW R, Good(m, g, Held(R, m)), m.ok = TRUE, m.fault = FALSE,
         NEW r, Sees(m.tables, g, r), NEW a, a = CreateUserPml4(m, r), NEW c, c = a.root
  PROVE  Outcome(m, g, R, a, c, {})
<1>1. NewSpace(m, g, Held(R, m), a)
  BY CreateUserPml4Sound
<1>2. PICK h :
        /\ Good(a, h, Held(R, m)) /\ Moved(m.tables, g, a.tables, h, Others(m.tables), {TempWindow})
        /\ Still(m, a) /\ (Window(m.tables, g) => a.fault = FALSE)
        /\ a.ok = TRUE =>
             /\ a.fault = FALSE /\ Window(a.tables, h) /\ a.root \notin DOMAIN m.tables
             /\ a.root \in Nat /\ Blank(a.tables, h, a.root) /\ Agrees(a.tables, a.root)
             /\ Moved(m.tables, g, a.tables, h, {KernelRoot, a.root}, {TempWindow})
             /\ Covered(m, g, Held(R, m)) => Covered(a, h, Held(R, m))
  BY <1>1, Zenon DEF NewSpace
<1>3. a.ipcPage = m.ipcPage /\ a.ram = m.ram /\ a.heapEnd = m.heapEnd /\ a.threads = m.threads
  BY <1>2 DEF Still
<1>4. Held(R, a) = Held(R, m)
  BY <1>3 DEF Held
<1>5. {TempWindow} \subseteq SpacePages
  BY DEF SpacePages
<1>6. CASE a.ok = FALSE
  <2>1. Moved(m.tables, g, a.tables, h, Others(m.tables), SpacePages)
    BY <1>2, <1>5, MovedMore
  <2>2. Stuck(m, g, R, a)
    BY <2>1, <1>2, <1>3, <1>4, <1>6 DEF Stuck
  <2>3. QED
    BY <2>2 DEF Outcome
<1>7. CASE a.ok = TRUE
  <2>1. /\ a.fault = FALSE /\ Window(a.tables, h) /\ c \in Nat \ DOMAIN m.tables
        /\ Blank(a.tables, h, c) /\ Agrees(a.tables, c)
        /\ Moved(m.tables, g, a.tables, h, {KernelRoot, c}, {TempWindow})
        /\ Covered(m, g, Held(R, m)) => Covered(a, h, Held(R, m))
    BY <1>2, <1>7
  <2>2. Target(a.tables, h, c) /\ Alone(a.tables, h, c)
    BY <2>1 DEF Blank, Target
  <2>3. \A v \in Users \ {} : Fresh(a.tables, h, c, v)
    BY <2>2, AloneFresh DEF Target
  <2>4. Moved(m.tables, g, a.tables, h, {KernelRoot, c}, SpacePages)
    BY <2>1, <1>5, MovedMore
  <2>5. Built(m, g, R, a, h, c, {})
    BY <2>1, <2>2, <2>3, <2>4, <1>2, <1>3, <1>4, <1>7 DEF Built
  <2>6. QED
    BY <2>5 DEF Outcome, Building
<1>8. a.ok \in BOOLEAN
  BY <1>2, Zenon DEF Good, IsMemory
<1>9. QED
  BY <1>6, <1>7, <1>8

LEMMA BuildFresh ==
  ASSUME NEW m, NEW g, Ready(m, g), NEW R, NEW a, NEW c, NEW D, D \subseteq Users, Outcome(m, g, R, a, c, D),
         NEW v \in Nat, NEW n \in Nat \ {0}, Run(v, n) \subseteq Users \ D, IpcVirt \notin Run(v, n),
         NEW b, b = MapFresh(a, v, n)
  PROVE  Outcome(m, g, R, b, c, D \cup Run(v, n))
<1>1. CASE Stuck(m, g, R, a)
  <2>1. b = a
    BY <1>1 DEF MapFresh, Stuck
  <2>2. QED
    BY <2>1, <1>1 DEF Outcome
<1>2. CASE Building(m, g, R, a, c, D)
  <2>1. PICK h : Built(m, g, R, a, h, c, D)
    BY <1>2 DEF Building
  <2>2. Good(a, h, Held(R, a)) /\ a.ok = TRUE /\ c = a.root /\ Target(a.tables, h, c)
    BY <2>1 DEF Built
  <2>3. Progress(a, h, R, c, Run(v, n), b)
    BY <2>2, MapFreshSound
  <2>4. QED
    BY <2>1, <2>3, Advance
<1>3. QED
  BY <1>1, <1>2 DEF Outcome

LEMMA BuildIpc ==
  ASSUME NEW m, NEW g, Ready(m, g), NEW R, NEW a, NEW c, NEW D, D \subseteq Users, Outcome(m, g, R, a, c, D),
         IpcVirt \notin D, NEW b, b = MapIpcPage(a)
  PROVE  Outcome(m, g, R, b, c, D \cup {IpcVirt})
<1>1. CASE Stuck(m, g, R, a)
  <2>1. b = a
    BY <1>1 DEF MapIpcPage, Stuck
  <2>2. QED
    BY <2>1, <1>1 DEF Outcome
<1>2. CASE Building(m, g, R, a, c, D)
  <2>1. PICK h : Built(m, g, R, a, h, c, D)
    BY <1>2 DEF Building
  <2>2. Good(a, h, Held(R, a)) /\ a.ok = TRUE /\ c = a.root /\ Target(a.tables, h, c)
    BY <2>1 DEF Built
  <2>3. Progress(a, h, R, c, {IpcVirt}, b)
    BY <2>2, MapIpcSound
  <2>4. {IpcVirt} \subseteq Users \ D
    BY UserAreas
  <2>5. QED
    BY <2>1, <2>3, <2>4, Advance
<1>3. QED
  BY <1>1, <1>2 DEF Outcome

\* A run of the code's or of the data's pages.
LEMMA BuildShared ==
  ASSUME NEW m, NEW g, Ready(m, g), NEW R, NEW a, NEW c, NEW D, D \subseteq Users, Outcome(m, g, R, a, c, D),
         NEW v \in Nat, NEW n \in Nat, NEW f \in Nat, Run(v, n) \subseteq Users \ D, IpcVirt \notin Run(v, n),
         \A j \in 0 .. n - 1 : \A y : f + j \in Common(y) /\ Placed(y, v + j, f + j),
         NEW b, b = MapPagesIn(a, c, v, f, n)
  PROVE  Outcome(m, g, R, b, c, D \cup Run(v, n))
<1>1. CASE Stuck(m, g, R, a)
  <2>1. b = a
    <3>1. a.ok = FALSE
      BY <1>1 DEF Stuck
    <3>2. MapPagesIn(a, c, v, f, n) = a
      BY <3>1, MapPagesStuck, ZenonT(90)
    <3>3. QED
      BY <3>2
  <2>2. QED
    BY <2>1, <1>1 DEF Outcome
<1>2. CASE Building(m, g, R, a, c, D)
  <2>1. PICK h : Built(m, g, R, a, h, c, D)
    BY <1>2 DEF Building
  <2>2. Good(a, h, Held(R, a)) /\ Target(a.tables, h, c)
    BY <2>1 DEF Built
  <2>3. \A j \in 0 .. n - 1 : f + j \in Common(a) /\ Placed(a, v + j, f + j)
    OBVIOUS
  <2>4. Run(v, n) \subseteq Users
    OBVIOUS
  <2>5. Progress(a, h, R, c, Run(v, n), b)
    BY <2>2, <2>3, <2>4, MapSharedSound
  <2>6. QED
    BY <2>1, <2>5, Advance
<1>3. QED
  BY <1>1, <1>2 DEF Outcome

LEMMA ImagePlaced ==
  /\ \A j \in 0 .. TextPages - 1 : \A y :
       TextFrame + j \in Common(y) /\ Placed(y, CodeBase + j, TextFrame + j)
  /\ \A j \in 0 .. DataPages - 1 : \A y :
       DataFrame + j \in Common(y) /\ Placed(y, DataBase + j, DataFrame + j)
  /\ TextFrame \in Nat /\ DataFrame \in Nat
<1>1. TextFrame \in Nat /\ DataFrame \in Nat /\ TextPages \in Nat /\ DataPages \in Nat
  BY ProcessesAssumption
<1>2. CodeBase \in Nat /\ DataBase \in Nat
  BY Bases
<1>3. ASSUME NEW j \in 0 .. TextPages - 1, NEW y
      PROVE  TextFrame + j \in Common(y) /\ Placed(y, CodeBase + j, TextFrame + j)
  <2>1. TextFrame + j \in TextFrames /\ (TextFrame + j) - TextFrame = j
    BY <1>1 DEF TextFrames
  <2>2. QED
    BY <2>1 DEF Common, Placed
<1>4. ASSUME NEW j \in 0 .. DataPages - 1, NEW y
      PROVE  DataFrame + j \in Common(y) /\ Placed(y, DataBase + j, DataFrame + j)
  <2>1. DataFrame + j \in DataFrames /\ (DataFrame + j) - DataFrame = j
    BY <1>1 DEF DataFrames
  <2>2. QED
    BY <2>1 DEF Common, Placed
<1>5. QED
  BY <1>1, <1>3, <1>4

LEMMA BuildImage ==
  ASSUME NEW m, NEW g, Ready(m, g), NEW R, NEW a, NEW c, c = a.root, Outcome(m, g, R, a, c, {}),
         NEW b, b = MapImage(a)
  PROVE  Outcome(m, g, R, b, c, ImagePages)
<1>1. CASE Stuck(m, g, R, a)
  <2>1. b = a
    <3>1. a.ok = FALSE
      BY <1>1 DEF Stuck
    <3>2. b = [a EXCEPT !.ok = FALSE]
      BY <3>1 DEF MapImage, Fail
    <3>3. IsMemory(a)
      BY <1>1, Zenon DEF Stuck, Good
    <3>4. QED
      BY <3>1, <3>2, <3>3 DEF IsMemory
  <2>2. QED
    BY <2>1, <1>1 DEF Outcome
<1>2. CASE Building(m, g, R, a, c, {})
  <2>1. PICK x : x = MapPagesIn(a, c, CodeBase, TextFrame, TextPages)
    OBVIOUS
  <2>2. b = MapPagesIn(x, c, DataBase, DataFrame, DataPages) \/ b = Fail(a)
    <3>1. x = MapPagesIn(a, a.root, CodeBase, TextFrame, TextPages)
      BY <2>1
    <3>2. b = MapPagesIn(x, a.root, DataBase, DataFrame, DataPages) \/ b = Fail(a)
      BY <3>1 DEF MapImage
    <3>3. QED
      BY <3>2
  <2>3. CASE b = Fail(a)
    BY <2>3, <1>2, FailStuck DEF Outcome
  <2>4. CASE b = MapPagesIn(x, c, DataBase, DataFrame, DataPages)
    <3>1. PICK v1, n1, v2, n2 : v1 = CodeBase /\ n1 = TextPages /\ v2 = DataBase /\ n2 = DataPages
      OBVIOUS
    <3>2. /\ v1 \in Nat /\ n1 \in Nat /\ v2 \in Nat /\ n2 \in Nat
          /\ Run(v1, n1) \subseteq Users /\ Run(v2, n2) \subseteq Users
          /\ Run(v1, n1) \cap Run(v2, n2) = {} /\ IpcVirt \notin Run(v1, n1) \cup Run(v2, n2)
      BY <3>1, UserAreas
    <3>3. {} \cup Run(v1, n1) = Run(v1, n1) /\ Users \ {} = Users /\ {} \subseteq Users
      OBVIOUS
    <3>4. Outcome(m, g, R, x, c, Run(v1, n1))
      <4>1. \A j \in 0 .. n1 - 1 : \A y : TextFrame + j \in Common(y) /\ Placed(y, v1 + j, TextFrame + j)
        BY <3>1, ImagePlaced
      <4>2. x = MapPagesIn(a, c, v1, TextFrame, n1) /\ TextFrame \in Nat
        BY <2>1, <3>1, ImagePlaced
      <4>3. Outcome(m, g, R, a, c, {}) /\ Run(v1, n1) \subseteq Users \ {} /\ IpcVirt \notin Run(v1, n1)
        BY <3>2
      <4>4. Outcome(m, g, R, x, c, {} \cup Run(v1, n1))
        BY <3>2, <3>3, <4>1, <4>2, <4>3, BuildShared
      <4>5. QED
        BY <3>3, <4>4
    <3>5. Outcome(m, g, R, b, c, Run(v1, n1) \cup Run(v2, n2))
      <4>1. \A j \in 0 .. n2 - 1 : \A y : DataFrame + j \in Common(y) /\ Placed(y, v2 + j, DataFrame + j)
        BY <3>1, ImagePlaced
      <4>2. b = MapPagesIn(x, c, v2, DataFrame, n2) /\ DataFrame \in Nat
        BY <2>4, <3>1, ImagePlaced
      <4>3. Run(v2, n2) \subseteq Users \ Run(v1, n1) /\ IpcVirt \notin Run(v2, n2)
        BY <3>2
      <4>4. QED
        BY <3>2, <3>4, <4>1, <4>2, <4>3, BuildShared
    <3>6. QED
      BY <3>1, <3>5 DEF ImagePages
  <2>5. QED
    BY <2>2, <2>3, <2>4
<1>3. QED
  BY <1>1, <1>2 DEF Outcome

LEMMA OutcomeOk ==
  ASSUME NEW m, NEW g, NEW R, NEW a, NEW c, NEW D, Outcome(m, g, R, a, c, D)
  PROVE  /\ a.ok \in BOOLEAN /\ IsMemory(a)
         /\ a.ok = FALSE <=> Stuck(m, g, R, a)
         /\ a.ok = TRUE => Building(m, g, R, a, c, D)
BY Zenon DEF Outcome, Building, Built, Stuck, Good, IsMemory

LEMMA LoadRound ==
  ASSUME NEW m, NEW g, Ready(m, g), NEW R, NEW a, NEW c, NEW D, D \subseteq Users, Outcome(m, g, R, a, c, D),
         NEW s, IsSegment(s), SegmentPages(s) \subseteq Users \ D, IpcVirt \notin SegmentPages(s),
         NEW b, b = LoadSegment(a, s)
  PROVE  /\ Outcome(m, g, R, b, c, D \cup SegmentPages(s))
         /\ b.ok = TRUE => a.ok = TRUE /\ s.valid = TRUE
<1>1. a.ok \in BOOLEAN /\ IsMemory(a)
  BY OutcomeOk
<1>2. CASE a.ok = FALSE
  <2>1. b = a
    BY <1>2 DEF LoadSegment
  <2>2. Stuck(m, g, R, a)
    BY <1>2, OutcomeOk
  <2>3. QED
    BY <2>1, <2>2, <1>2 DEF Outcome
<1>3. CASE a.ok = TRUE /\ b = Fail(a)
  <2>1. Stuck(m, g, R, b)
    BY <1>3, OutcomeOk, FailStuck
  <2>2. b.ok = FALSE
    BY <2>1 DEF Stuck
  <2>3. QED
    BY <2>1, <2>2 DEF Outcome
<1>4. CASE a.ok = TRUE /\ s.valid = TRUE /\ s.n = 0 /\ b = a
  <2>1. SegmentPages(s) = {}
    BY <1>4 DEF SegmentPages, IsSegment
  <2>2. D \cup SegmentPages(s) = D
    BY <2>1
  <2>3. QED
    BY <2>2, <1>4
<1>5. CASE a.ok = TRUE /\ s.valid = TRUE /\ s.n # 0 /\ b = MapFresh(a, s.v, s.n)
  <2>1. PICK v, n : v = s.v /\ n = s.n
    OBVIOUS
  <2>2. v \in Nat /\ n \in Nat \ {0}
    BY <2>1, <1>5 DEF IsSegment
  <2>3. SegmentPages(s) = Run(v, n)
    BY <2>1, <1>5 DEF SegmentPages, Run
  <2>4. b = MapFresh(a, v, n)
    BY <2>1, <1>5
  <2>5. Outcome(m, g, R, b, c, D \cup Run(v, n))
    BY <2>2, <2>3, <2>4, BuildFresh
  <2>6. QED
    BY <2>3, <2>5, <1>5
<1>6. a.ok = TRUE => \/ b = Fail(a)
                     \/ s.valid = TRUE /\ s.n = 0 /\ b = a
                     \/ s.valid = TRUE /\ s.n # 0 /\ b = MapFresh(a, s.v, s.n)
  BY DEF LoadSegment, IsSegment
<1>7. QED
  BY <1>1, <1>2, <1>3, <1>4, <1>5, <1>6

LEMMA SegsStep ==
  ASSUME NEW l, NEW i \in Nat
  PROVE  Segs(l, i + 1) = Segs(l, i) \cup SegmentPages(l[i + 1]) /\ Segs(l, 0) = {}
<1>1. 1 .. i + 1 = (1 .. i) \cup {i + 1} /\ 1 .. 0 = {}
  OBVIOUS
<1>2. QED
  BY <1>1 DEF Segs

LEMMA BuildElf ==
  ASSUME NEW m, NEW g, Ready(m, g), NEW R, NEW a, NEW c, NEW D, D \subseteq Users, Outcome(m, g, R, a, c, D),
         NEW l, NEW n, Loadable(l, n, D), NEW b, b = LoadElf(a, l)
  PROVE  /\ Outcome(m, g, R, b, c, D \cup Segs(l, n))
         /\ b.ok = TRUE => \A i \in 1 .. n : l[i].valid = TRUE
<1>1. /\ n \in Nat /\ DOMAIN l = 1 .. n
      /\ \A i \in 1 .. n : /\ IsSegment(l[i]) /\ SegmentPages(l[i]) \subseteq Users \ D
                           /\ IpcVirt \notin SegmentPages(l[i])
      /\ \A i, j \in 1 .. n : i # j => SegmentPages(l[i]) \cap SegmentPages(l[j]) = {}
  BY DEF Loadable
<1>2. PICK st : Loop("load", l, a, n, st, b)
  BY <1>1, LoadLoop
<1>3. /\ st[0] = a /\ st[n] = b
      /\ \A i \in 0 .. n - 1 : st[i + 1] = LoadSegment(st[i], l[i + 1])
  <2>1. ASSUME NEW x, NEW y PROVE Step("load", l, x, y) = LoadSegment(x, l[y])
    BY DEF Step
  <2>2. QED
    BY <1>2, <2>1 DEF Loop
<1> DEFINE J(i) == /\ Outcome(m, g, R, st[i], c, D \cup Segs(l, i))
                   /\ st[i].ok = TRUE => \A j \in 1 .. i : l[j].valid = TRUE
           P    == {i \in Nat : J(i)}
<1>4. 0 \in P
  <2>1. D \cup Segs(l, 0) = D
    BY SegsStep
  <2>2. \A j \in 1 .. 0 : l[j].valid = TRUE
    OBVIOUS
  <2>3. Outcome(m, g, R, st[0], c, D \cup Segs(l, 0))
    BY <2>1, <1>3
  <2>4. J(0)
    BY <2>2, <2>3
  <2>5. QED
    BY <2>4
<1>5. ASSUME NEW i \in 0 .. n - 1, i \in P PROVE i + 1 \in P
  <2>1. J(i) /\ i \in Nat /\ i + 1 \in 1 .. n
    BY <1>1, <1>5
  <2>2. PICK x, s, E, y : x = st[i] /\ s = l[i + 1] /\ E = D \cup Segs(l, i) /\ y = st[i + 1]
    OBVIOUS
  <2>3. Outcome(m, g, R, x, c, E) /\ y = LoadSegment(x, s)
    BY <2>1, <2>2, <1>3
  <2>4. Segs(l, i) \subseteq Users /\ Segs(l, i) \cap SegmentPages(s) = {}
    <3>1. \A j \in 1 .. i : j \in 1 .. n /\ j # i + 1
      BY <1>1
    <3>2. \A j \in 1 .. i : /\ SegmentPages(l[j]) \subseteq Users
                            /\ SegmentPages(l[j]) \cap SegmentPages(l[i + 1]) = {}
      BY <3>1, <2>1, <1>1
    <3>3. QED
      BY <3>2, <2>2 DEF Segs
  <2>5. E \subseteq Users /\ IsSegment(s) /\ SegmentPages(s) \subseteq Users \ E /\ IpcVirt \notin SegmentPages(s)
    BY <2>1, <2>2, <2>4, <1>1
  <2>6. /\ Outcome(m, g, R, y, c, E \cup SegmentPages(s))
        /\ y.ok = TRUE => x.ok = TRUE /\ s.valid = TRUE
    BY <2>3, <2>5, LoadRound
  <2>7. E \cup SegmentPages(s) = D \cup Segs(l, i + 1)
    BY <2>1, <2>2, SegsStep
  <2>8. y.ok = TRUE => \A j \in 1 .. i + 1 : l[j].valid = TRUE
    <3>1. ASSUME y.ok = TRUE, NEW j \in 1 .. i + 1 PROVE l[j].valid = TRUE
      <4>1. x.ok = TRUE /\ s.valid = TRUE
        BY <3>1, <2>6
      <4>2. CASE j = i + 1
        BY <4>1, <4>2, <2>2
      <4>3. CASE j # i + 1
        BY <4>1, <4>3, <2>1, <2>2
      <4>4. QED
        BY <4>2, <4>3
    <3>2. QED
      BY <3>1
  <2>9. J(i + 1)
    <3>1. Outcome(m, g, R, y, c, D \cup Segs(l, i + 1))
      BY <2>6, <2>7
    <3>2. QED
      BY <3>1, <2>2, <2>8
  <2>10. QED
    BY <2>1, <2>9
<1> HIDE DEF P
<1>6. n \in P
  BY <1>1, <1>4, <1>5, UpTo, SMTT(45)
<1>7. J(n)
  BY <1>6 DEF P
<1>8. QED
  BY <1>3, <1>7

----------------------------------------------------------------------------
(* The heap grows.                                                         *)

LEMMA GrowthSame ==
  ASSUME NEW m, NEW g, NEW R, Good(m, g, R), NEW V,
         NEW a, IsMemory(a), SameElse(m, a), a.taken = m.taken, a.used = m.used, a.tables = m.tables
  PROVE  Growth(m, g, R, V, a)
<1>1. a.ram = m.ram /\ a.ipcPage = m.ipcPage
  BY DEF SameElse
<1>2. Good(a, g, R)
  BY <1>1, GoodSame
<1>3. Later(m, g, a, g, {KernelRoot}, V)
  BY LaterSelf
<1>4. Covered(m, g, R) => Covered(a, g, R)
  BY <1>1 DEF Covered
<1>5. QED
  BY <1>2, <1>3, <1>4 DEF Growth

\* One page.
LEMMA AddHeapPageSound ==
  ASSUME NEW m, NEW g, NEW R, Good(m, g, R), m.ok = TRUE, NEW v \in Nat, InHeap(v),
         NEW a, a = AddHeapPage(AllocFrame(m), v, AllocFrame(m).got)
  PROVE  Growth(m, g, R, {v}, a)
<1>0. IsMemory(m) /\ Framed(m) /\ Tree(m.tables, g) /\ AsideOK(m, R)
  BY Zenon DEF Good
<1>1. PICK d, f : d = AllocFrame(m) /\ f = d.got
  OBVIOUS
<1>2. /\ IsMemory(d) /\ Framed(d) /\ SameElse(m, d) /\ d.tables = m.tables /\ d.ok = m.ok
      /\ \/ d.got = None /\ d.taken = m.taken
         \/ /\ d.got \in Free(m) /\ d.got \in Nat /\ d.got # None
            /\ d.taken = m.taken \cup {d.got}
  <2>1. d = TakeLowest(m, Free(m))
    BY <1>1 DEF AllocFrame
  <2>2. QED
    BY <2>1, <1>0, TakeLowestSound
<1>3. CASE f = None
  <2>1. a = Fail(d)
    BY <1>1, <1>3 DEF AddHeapPage
  <2>2. d.taken = m.taken /\ d.ram = m.ram
    BY <1>1, <1>2, <1>3 DEF SameElse, Free, Framed
  <2>3. d.used = m.used
    BY <2>2, <1>0, <1>2 DEF Framed
  <2>4. /\ IsMemory(a) /\ SameElse(m, a) /\ a.taken = m.taken /\ a.used = m.used
        /\ a.tables = m.tables
    BY <2>1, <2>2, <2>3, <1>2 DEF IsMemory, SameElse, Fail
  <2>5. QED
    BY <2>4, GrowthSame
<1>4. CASE f # None
  <2>1. f \in Nat /\ {f} \subseteq Free(m) /\ d.taken = m.taken \cup {f}
    BY <1>1, <1>2, <1>4
  <2>2. PICK Z : Z = R \cup {f}
    OBVIOUS
  <2>3. /\ Good(d, g, Z) /\ (Covered(m, g, R) => Covered(d, g, Z))
        /\ {f} \cap (R \cup DOMAIN m.tables \cup Image \cup m.taken) = {}
    <3>1. /\ Good(d, g, R \cup {f})
          /\ {f} \cap (R \cup DOMAIN m.tables \cup Image \cup m.taken) = {}
          /\ Covered(m, g, R) => Covered(d, g, R \cup {f})
      BY <2>1, <1>2, SetAside
    <3>2. QED
      BY <3>1, <2>2
  <2>4. d.ipcPage = m.ipcPage
    BY <1>2 DEF SameElse
  <2>5. f \notin Common(d) /\ f # d.ipcPage
    <3>1. m.ipcPage \in m.taken
      <4>1. CASE m.ipcPage = None
        BY <4>1, <1>0, FramedFacts
      <4>2. CASE m.ipcPage # None
        BY <4>2, <1>0 DEF AsideOK, Plain
      <4>3. QED
        BY <4>1, <4>2
    <3>2. f # d.ipcPage
      BY <3>1, <2>3, <2>4
    <3>3. QED
      BY <3>2, <2>3, ImageAssumption DEF Common
  <2>6. May(d, KernelRoot, v, f, Z) /\ Rest(d, KernelRoot, v, f, Z) = R
    <3>1. Z \ {f} = R
      BY <2>2, <2>3
    <3>2. QED
      BY <3>1, <2>2, <2>5 DEF May, Rest, Guards
  <2>7. RootOf(d.tables, g, KernelRoot, v)
    <3>1. v \in Pages
      BY KernelPage
    <3>2. QED
      BY <3>1, <1>0, <1>2, KernelRootOf
  <2>8. PICK b : b = MapPageIn(d, KernelRoot, v, f)
    OBVIOUS
  <2>9. Mapping(d, g, Z, KernelRoot, v, f, b)
    BY <2>1, <2>3, <2>6, <2>7, <2>8, <1>2, MapPageSound
  <2>10. PICK h, S :
           /\ Good(b, h, S) /\ Later(d, g, b, h, {KernelRoot}, {v})
           /\ S = (IF b.ok = TRUE THEN Rest(d, KernelRoot, v, f, Z) ELSE Z)
           /\ b.ok = TRUE => Leaf(b.tables, h, KernelRoot, v, f)
           /\ Covered(d, g, Z) /\ Fresh(d.tables, g, KernelRoot, v) => Covered(b, h, S)
    BY <2>9 DEF Mapping
  <2>11. SameElse(m, b) /\ Moved(m.tables, g, b.tables, h, {KernelRoot}, {v})
    BY <2>10, <1>2 DEF Later, SameElse
  <2>12. b.ok \in BOOLEAN
    BY <2>10, Zenon DEF Good, IsMemory
  <2>13. CASE b.ok = TRUE
    <3>1. a = b
      BY <2>8, <2>13, <1>1, <1>4 DEF AddHeapPage
    <3>2. S = R
      BY <2>6, <2>10, <2>13
    <3>3. Covered(m, g, R) /\ (\A w \in {v} : Fresh(m.tables, g, KernelRoot, w)) => Covered(a, h, R)
      BY <3>1, <3>2, <2>3, <2>10, <1>2
    <3>4. QED
      BY <3>1, <3>2, <3>3, <2>10, <2>11 DEF Growth, Later
  <2>14. CASE b.ok = FALSE
    <3>1. a = FreeFrames(b, f, 1)
      BY <2>8, <2>14, <1>1, <1>4 DEF AddHeapPage, FreeFrame
    <3>2. S = Z
      BY <2>10, <2>14
    <3>3. PICK n \in Nat : n = 1
      OBVIOUS
    <3>4. Run(f, n) = {f}
      BY <3>3, <2>1 DEF Run
    <3>5. Run(f, n) \subseteq Z /\ b.ipcPage \notin Run(f, n) /\ a = FreeFrames(b, f, n)
      BY <3>1, <3>3, <3>4, <2>2, <2>4, <2>5, <2>11 DEF SameElse
    <3>6. Good(b, h, Z)
      BY <3>2, <2>10
    <3>7. /\ Good(a, h, Z \ Run(f, n)) /\ SameElse(b, a) /\ a.tables = b.tables
          /\ Covered(b, h, Z) => Covered(a, h, Z \ Run(f, n))
      BY <3>5, <3>6, <2>1, FreeAside
    <3>8. Z \ Run(f, n) = R
      BY <3>4, <2>2, <2>3
    <3>9. SameElse(m, a)
      BY <3>7, <2>11 DEF SameElse
    <3>10. Covered(m, g, R) /\ (\A w \in {v} : Fresh(m.tables, g, KernelRoot, w)) => Covered(a, h, R)
      BY <3>2, <3>7, <3>8, <2>3, <2>10, <1>2
    <3>11. QED
      BY <3>7, <3>8, <3>9, <3>10, <2>11 DEF Growth, Later
  <2>15. QED
    BY <2>12, <2>13, <2>14
<1>5. QED
  BY <1>3, <1>4

LEMMA GrowthMore ==
  ASSUME NEW m, NEW g, NEW R, Tree(m.tables, g), NEW V, NEW a, Growth(m, g, R, V, a),
         NEW v, v \notin V, NEW b, \A h : Good(a, h, R) => Growth(a, h, R, {v}, b)
  PROVE  Growth(m, g, R, V \cup {v}, b)
<1>1. PICK h : /\ Good(a, h, R) /\ Later(m, g, a, h, {KernelRoot}, V)
               /\ Covered(m, g, R) /\ (\A w \in V : Fresh(m.tables, g, KernelRoot, w)) => Covered(a, h, R)
  BY DEF Growth
<1>2. PICK k : /\ Good(b, k, R) /\ Later(a, h, b, k, {KernelRoot}, {v})
               /\ Covered(a, h, R) /\ (\A w \in {v} : Fresh(a.tables, h, KernelRoot, w)) => Covered(b, k, R)
  BY <1>1 DEF Growth
<1>3. Later(m, g, b, k, {KernelRoot}, V \cup {v})
  <2>1. PICK X : X = V \cup {v}
    OBVIOUS
  <2>2. Later(m, g, a, h, {KernelRoot}, X) /\ Later(a, h, b, k, {KernelRoot}, X)
    BY <2>1, <1>1, <1>2, LaterMore
  <2>3. QED
    BY <2>1, <2>2, LaterTrans
<1>4. ASSUME Covered(m, g, R), \A w \in V \cup {v} : Fresh(m.tables, g, KernelRoot, w)
      PROVE  Covered(b, k, R)
  <2>1. Fresh(a.tables, h, KernelRoot, v)
    BY <1>1, <1>4, FreshKept DEF Later, Moved
  <2>2. QED
    BY <2>1, <1>1, <1>2, <1>4
<1>5. QED
  BY <1>2, <1>3, <1>4 DEF Growth

\* The pages behind the end are the heap's.
LEMMA HeapRun ==
  ASSUME NEW e \in Nat, e + ExpandPages <= HeapMax, NEW s, s = HeapStart + e
  PROVE  /\ s \in Nat /\ ExpandPages \in Nat /\ Run(s, ExpandPages) \subseteq HeapPages
         /\ \A i \in 0 .. ExpandPages - 1 : s + i \in Nat /\ InHeap(s + i)
         /\ \A v \in HeapPages : HeapStart + (e + ExpandPages) <= v => v \notin Run(s, ExpandPages) /\ s <= v
         /\ \A v \in Run(s, ExpandPages) : s <= v
         /\ e + ExpandPages \in 0 .. HeapMax /\ e + ExpandPages > 0
<1>1. {HeapStart, TempWindow} \subseteq Nat
  BY Bases
<1>2. HeapStart + HeapMax <= TempWindow /\ HeapMax \in Nat
  BY LayoutAssumption, ProcessesAssumption
<1>3. ExpandPages \in Nat /\ ExpandPages > 0
  BY ProcessesAssumption
<1>4. PICK a, b, n \in Nat : a = HeapStart /\ b = TempWindow /\ n = ExpandPages
  BY <1>1, <1>3
<1>5. s = a + e /\ a + HeapMax <= b /\ e + n <= HeapMax /\ n > 0
  BY <1>2, <1>3, <1>4
<1>6. \A v : v \in HeapPages <=> v \in Nat /\ a <= v /\ v < b
  BY <1>4 DEF HeapPages, InHeap
<1>7. \A i \in 0 .. n - 1 : s + i \in Nat /\ a <= s + i /\ s + i < b
  BY <1>2, <1>5
<1>8. \A v \in Run(s, n) : v \in Nat /\ a <= v /\ v < b /\ s <= v
  BY <1>2, <1>5 DEF Run
<1>9. \A v \in Nat : a + (e + n) <= v => v \notin Run(s, n) /\ s <= v
  BY <1>2, <1>5 DEF Run
<1>10. s \in Nat /\ e + n \in 0 .. HeapMax /\ e + n > 0
  BY <1>2, <1>5
<1>11. \A i \in 0 .. n - 1 : InHeap(s + i)
  BY <1>4, <1>7 DEF InHeap
<1>12. Run(s, n) \subseteq HeapPages /\ (\A v \in HeapPages : v \in Nat)
  BY <1>6, <1>8
<1>13. QED
  BY <1>4, <1>7, <1>8, <1>9, <1>10, <1>11, <1>12

\* After some of the pages.
LEMMA GrowRound ==
  ASSUME NEW m, NEW g, NEW R, Tree(m.tables, g), NEW s \in Nat, NEW i \in Nat, InHeap(s + i),
         s = HeapStart + m.heapEnd, NEW x, Growth(m, g, R, Run(s, i), x), NEW y, y = GrowPage(x, i)
  PROVE  Growth(m, g, R, Run(s, i + 1), y)
<1>1. PICK V : V = Run(s, i)
  OBVIOUS
<1>a. PICK v \in Nat : v = s + i
  OBVIOUS
<1>2. Run(s, i + 1) = V \cup {v} /\ v \notin V
  BY <1>1, <1>a, RunStep
<1>3. PICK h : /\ Good(x, h, R) /\ Later(m, g, x, h, {KernelRoot}, V)
               /\ Covered(m, g, R) /\ (\A w \in V : Fresh(m.tables, g, KernelRoot, w)) => Covered(x, h, R)
  BY <1>1 DEF Growth
<1>4. x.ok \in BOOLEAN /\ IsMemory(x)
  BY <1>3, Zenon DEF Good, IsMemory
<1>5. x.heapEnd = m.heapEnd
  BY <1>3 DEF Later, SameElse
<1>6. CASE x.ok = TRUE
  <2>1. y = AddHeapPage(AllocFrame(x), HeapStart + x.heapEnd + i, AllocFrame(x).got)
    BY <1>6 DEF GrowPage
  <2>2. HeapStart + x.heapEnd + i = v
    BY <1>a, <1>5
  <2>3. y = AddHeapPage(AllocFrame(x), v, AllocFrame(x).got) /\ InHeap(v)
    BY <2>1, <2>2, <1>a
  <2>4. ASSUME NEW k, Good(x, k, R) PROVE Growth(x, k, R, {v}, y)
    BY <2>3, <2>4, <1>6, AddHeapPageSound
  <2>5. Growth(m, g, R, V, x)
    BY <1>1
  <2>6. Growth(m, g, R, V \cup {v}, y)
    BY <2>4, <2>5, <1>2, GrowthMore
  <2>7. QED
    BY <2>6, <1>2
<1>7. CASE x.ok = FALSE
  <2>1. y = x
    BY <1>7 DEF GrowPage
  <2>2. Later(m, g, x, h, {KernelRoot}, V \cup {v})
    BY <1>3, LaterMore
  <2>3. QED
    BY <2>1, <2>2, <1>2, <1>3 DEF Growth
<1>8. QED
  BY <1>4, <1>6, <1>7

LEMMA GrowAll ==
  ASSUME NEW m, NEW g, NEW R, Good(m, g, R), m.ok = TRUE, m.heapEnd \in Nat,
         m.heapEnd + ExpandPages <= HeapMax, NEW s, s = HeapStart + m.heapEnd,
         NEW a, a = FoldLeft(GrowPage, m, Count(ExpandPages))
  PROVE  Growth(m, g, R, Run(s, ExpandPages), a)
<1>0. Tree(m.tables, g) /\ IsMemory(m)
  BY Zenon DEF Good
<1>1. /\ s \in Nat /\ ExpandPages \in Nat
      /\ \A i \in 0 .. ExpandPages - 1 : s + i \in Nat /\ InHeap(s + i)
  BY HeapRun
<1>2. PICK n \in Nat : n = ExpandPages
  BY <1>1
<1>3. PICK st : Loop("grow", <<>>, m, n, st, a)
  BY <1>2, GrowLoop
<1>4. /\ st[0] = m /\ st[n] = a
      /\ \A i \in 0 .. n - 1 : st[i + 1] = GrowPage(st[i], i)
  <2>1. ASSUME NEW x, NEW y \in Nat PROVE Step("grow", <<>>, x, y + 1) = GrowPage(x, y)
    <3>1. (y + 1) - 1 = y
      OBVIOUS
    <3>2. QED
      BY <3>1 DEF Step
  <2>2. \A i \in 0 .. n - 1 : i \in Nat
    OBVIOUS
  <2>3. QED
    BY <1>3, <2>1, <2>2 DEF Loop
<1> DEFINE P == {i \in Nat : Growth(m, g, R, Run(s, i), st[i])}
<1>5. 0 \in P
  <2>1. Growth(m, g, R, Run(s, 0), m)
    BY <1>0, GrowthSame DEF SameElse
  <2>2. QED
    BY <2>1, <1>4
<1>6. ASSUME NEW i \in 0 .. n - 1, i \in P PROVE i + 1 \in P
  <2>1. PICK x, y : x = st[i] /\ y = st[i + 1]
    OBVIOUS
  <2>2. Growth(m, g, R, Run(s, i), x) /\ y = GrowPage(x, i) /\ i \in Nat /\ InHeap(s + i)
    BY <2>1, <1>1, <1>2, <1>4, <1>6
  <2>3. Growth(m, g, R, Run(s, i + 1), y)
    BY <2>2, <1>0, <1>1, GrowRound
  <2>4. Growth(m, g, R, Run(s, i + 1), st[i + 1])
    BY <2>1, <2>3
  <2>5. i + 1 \in Nat
    BY <2>2
  <2>6. QED
    BY <2>4, <2>5
<1> HIDE DEF P
<1>7. n \in P
  BY <1>5, <1>6, UpTo
<1>8. QED
  BY <1>2, <1>4, <1>7 DEF P

LEMMA ExpandHeapSound ==
  ASSUME NEW m, NEW g, NEW R, Good(m, g, R), m.ok = TRUE, m.heapEnd \in 0 .. HeapMax,
         NEW b, b = ExpandHeap(m)
  PROVE  Expanded(m, g, R, b)
<1>0. IsMemory(m) /\ Tree(m.tables, g)
  BY Zenon DEF Good
<1>1. HeapMax \in Nat /\ ExpandPages \in Nat \ {0} /\ m.heapEnd \in Nat
  BY ProcessesAssumption
<1>2. CASE m.heapEnd + ExpandPages > HeapMax
  <2>1. b = Fail(m)
    BY <1>2 DEF ExpandHeap
  <2>2. /\ IsMemory(b) /\ SameElse(m, b) /\ b.tables = m.tables /\ b.taken = m.taken
        /\ b.used = m.used /\ b.ok = FALSE
    BY <2>1, <1>0 DEF IsMemory, SameElse, Fail
  <2>3. SameBut(m, b) /\ b.heapEnd \in 0 .. HeapMax
    BY <2>2 DEF SameElse, SameBut
  <2>4. Good(b, g, R)
    BY <2>2, GoodSame DEF SameElse
  <2>5. Moved(m.tables, g, b.tables, g, {KernelRoot}, HeapPages)
    BY <2>2, MovedSelf
  <2>6. QED
    BY <2>2, <2>3, <2>4, <2>5 DEF Expanded
<1>3. CASE m.heapEnd + ExpandPages <= HeapMax
  <2>1. PICK s : s = HeapStart + m.heapEnd
    OBVIOUS
  <2>2. PICK V : V = Run(s, ExpandPages)
    OBVIOUS
  <2>3. /\ V \subseteq HeapPages /\ (\A v \in V : s <= v)
        /\ \A v \in HeapPages : HeapStart + (m.heapEnd + ExpandPages) <= v => v \notin V /\ s <= v
        /\ m.heapEnd + ExpandPages \in 0 .. HeapMax /\ m.heapEnd + ExpandPages > 0
    BY <1>1, <1>3, <2>1, <2>2, HeapRun
  <2>4. PICK a : a = FoldLeft(GrowPage, m, Count(ExpandPages))
    OBVIOUS
  <2>5. Growth(m, g, R, V, a)
    BY <1>1, <1>3, <2>1, <2>2, <2>4, GrowAll
  <2>6. PICK h : /\ Good(a, h, R) /\ Later(m, g, a, h, {KernelRoot}, V)
                 /\ Covered(m, g, R) /\ (\A w \in V : Fresh(m.tables, g, KernelRoot, w)) => Covered(a, h, R)
    BY <2>5 DEF Growth
  <2>7. IsMemory(a) /\ a.ok \in BOOLEAN
    BY <2>6, Zenon DEF Good, IsMemory
  <2>8. SameElse(m, a) /\ Moved(m.tables, g, a.tables, h, {KernelRoot}, V)
    BY <2>6 DEF Later
  <2>9. Moved(m.tables, g, a.tables, h, {KernelRoot}, HeapPages)
    BY <2>3, <2>8, MovedMore
  <2>10. ~ (m.heapEnd + ExpandPages > HeapMax)
    BY <1>1, <1>3
  <2>11. CASE a.ok = FALSE
    <3>1. b = a
      BY <2>4, <2>10, <2>11 DEF ExpandHeap
    <3>2. SameBut(m, b) /\ b.heapEnd \in 0 .. HeapMax /\ b.ok = FALSE
      BY <3>1, <2>8, <2>11 DEF SameElse, SameBut
    <3>3. QED
      BY <3>1, <3>2, <2>6, <2>9 DEF Expanded
  <2>12. CASE a.ok = TRUE
    <3>1. b = [a EXCEPT !.heapEnd = @ + ExpandPages]
      BY <2>4, <2>10, <2>12 DEF ExpandHeap
    <3>2. /\ IsMemory(b) /\ b.tables = a.tables /\ b.taken = a.taken /\ b.used = a.used
          /\ b.ram = a.ram /\ b.ipcPage = a.ipcPage /\ b.threads = a.threads
          /\ b.root = a.root /\ b.fault = a.fault /\ b.heapEnd = a.heapEnd + ExpandPages
      BY <3>1, <2>7 DEF IsMemory
    <3>3. SameBut(m, b) /\ b.heapEnd = m.heapEnd + ExpandPages
      BY <3>2, <2>8 DEF SameElse, SameBut
    <3>4. Good(b, h, R)
      BY <3>2, <2>6, GoodSame
    <3>5. ASSUME Covered(m, g, R), HeapFresh(m, g) PROVE Covered(b, h, R) /\ HeapFresh(b, h)
      <4>1. \A w \in V : Fresh(m.tables, g, KernelRoot, w)
        BY <3>5, <2>1, <2>3 DEF HeapFresh
      <4>2. Covered(b, h, R)
        BY <4>1, <3>2, <3>5, <2>6 DEF Covered
      <4>3. ASSUME NEW v \in HeapPages, HeapStart + b.heapEnd <= v
            PROVE  Fresh(a.tables, h, KernelRoot, v)
        <5>1. v \notin V /\ s <= v
          BY <4>3, <3>3, <2>3
        <5>2. Fresh(m.tables, g, KernelRoot, v)
          BY <5>1, <3>5, <2>1 DEF HeapFresh
        <5>3. QED
          BY <5>1, <5>2, <2>8, FreshKept DEF Moved
      <4>4. QED
        BY <4>2, <4>3, <3>2 DEF HeapFresh
    <3>6. Moved(m.tables, g, b.tables, h, {KernelRoot}, HeapPages)
      BY <3>2, <2>9
    <3>7. b.heapEnd \in 0 .. HeapMax /\ b.heapEnd > 0
      BY <3>3, <2>3
    <3>8. QED
      BY <3>3, <3>4, <3>5, <3>6, <3>7 DEF Expanded
  <2>13. QED
    BY <2>7, <2>11, <2>12
<1>4. QED
  BY <1>1, <1>2, <1>3

LEMMA CreateThreadSound ==
  ASSUME NEW m, NEW g, NEW R, Good(m, g, R), m.ok = TRUE, m.heapEnd \in 0 .. HeapMax,
         NEW grow \in BOOLEAN, NEW b, b = CreateThread(m, grow)
  PROVE  Threaded(m, g, R, b)
<1>0. IsMemory(m)
  BY Zenon DEF Good
<1>1. CASE m.threads = MaxThreads \/ m.heapEnd = 0
  <2>1. b = Fail(m)
    BY <1>1 DEF CreateThread
  <2>2. /\ IsMemory(b) /\ b.tables = m.tables /\ b.taken = m.taken /\ b.used = m.used /\ b.ok = FALSE
        /\ b.ram = m.ram /\ b.ipcPage = m.ipcPage /\ b.root = m.root /\ b.fault = m.fault
        /\ b.heapEnd = m.heapEnd /\ b.threads = m.threads
    BY <2>1, <1>0 DEF IsMemory, Fail
  <2>3. Good(b, g, R)
    BY <2>2, GoodSame
  <2>4. Moved(m.tables, g, b.tables, g, {KernelRoot}, HeapPages)
    BY <2>2, MovedSelf
  <2>5. QED
    BY <2>2, <2>3, <2>4 DEF Threaded
<1>2. CASE ~(m.threads = MaxThreads \/ m.heapEnd = 0)
  <2>1. PICK a : a = IF grow THEN ExpandHeap(m) ELSE m
    OBVIOUS
  <2>2. b = AddThread(a)
    BY <2>1, <1>2 DEF CreateThread
  <2>3. Expanded(m, g, R, a)
    <3>1. CASE grow = TRUE
      BY <3>1, <2>1, ExpandHeapSound
    <3>2. CASE grow = FALSE
      <4>1. a = m
        BY <3>2, <2>1
      <4>2. Moved(m.tables, g, m.tables, g, {KernelRoot}, HeapPages)
        BY MovedSelf
      <4>3. m.heapEnd > 0
        BY <1>2, ProcessesAssumption
      <4>4. QED
        BY <4>1, <4>2, <4>3 DEF Expanded, SameBut
    <3>3. QED
      BY <3>1, <3>2
  <2>4. PICK h :
          /\ Good(a, h, R) /\ Moved(m.tables, g, a.tables, h, {KernelRoot}, HeapPages)
          /\ SameBut(m, a) /\ a.heapEnd \in 0 .. HeapMax
          /\ a.ok = TRUE => a.heapEnd > 0
          /\ a.ok = TRUE /\ Covered(m, g, R) /\ HeapFresh(m, g) => Covered(a, h, R) /\ HeapFresh(a, h)
    BY <2>3 DEF Expanded
  <2>5. IsMemory(a) /\ a.ok \in BOOLEAN
    BY <2>4, Zenon DEF Good, IsMemory
  <2>6. CASE a.ok = FALSE
    <3>1. b = a
      BY <2>2, <2>6 DEF AddThread
    <3>2. QED
      BY <3>1, <2>4, <2>6 DEF Threaded, SameBut
  <2>7. CASE a.ok = TRUE
    <3>1. b = [a EXCEPT !.threads = @ + 1]
      BY <2>2, <2>7 DEF AddThread
    <3>2. /\ IsMemory(b) /\ b.tables = a.tables /\ b.taken = a.taken /\ b.used = a.used /\ b.ok = a.ok
          /\ b.ram = a.ram /\ b.ipcPage = a.ipcPage /\ b.root = a.root /\ b.fault = a.fault
          /\ b.heapEnd = a.heapEnd /\ b.threads = a.threads + 1
      BY <3>1, <2>5 DEF IsMemory
    <3>3. Good(b, h, R)
      BY <3>2, <2>4, GoodSame
    <3>4. Covered(a, h, R) /\ HeapFresh(a, h) => Covered(b, h, R) /\ HeapFresh(b, h)
      BY <3>2 DEF Covered, HeapFresh
    <3>5. b.threads = m.threads + 1 /\ m.threads # MaxThreads
      BY <3>2, <2>4, <1>2 DEF SameBut
    <3>6. /\ b.ram = m.ram /\ b.ipcPage = m.ipcPage /\ b.root = m.root /\ b.fault = m.fault
          /\ b.heapEnd \in 0 .. HeapMax /\ b.ok = TRUE
      BY <3>2, <2>4, <2>7 DEF SameBut
    <3>7. Moved(m.tables, g, b.tables, h, {KernelRoot}, HeapPages)
      BY <3>2, <2>4
    <3>8. Covered(m, g, R) /\ HeapFresh(m, g) => Covered(b, h, R) /\ HeapFresh(b, h)
      BY <3>4, <2>4, <2>7
    <3>9. QED
      BY <3>3, <3>5, <3>6, <3>7, <3>8 DEF Threaded
  <2>8. QED
    BY <2>5, <2>6, <2>7
<1>3. QED
  BY <1>1, <1>2

----------------------------------------------------------------------------
(* What the creation of a process comes to.                                *)

LEMMA WorkParts ==
  SpacePages \subseteq WorkPages /\ HeapPages \subseteq WorkPages
<1>1. \A v \in Users : v \in Nat /\ v < UserTop
  BY Bases DEF Users
<1>2. \A v \in Users : v \in Pages
  BY UserPage DEF Users
<1>3. Users \subseteq WorkPages
  BY <1>1, <1>2 DEF WorkPages
<1>4. TempWindow \in WorkPages
  BY TempPage DEF WorkPages
<1>5. \A v \in HeapPages : InHeapPart(v) /\ v \in Pages
  BY KernelPage DEF HeapPages
<1>6. QED
  BY <1>3, <1>4, <1>5 DEF WorkPages, SpacePages

\* Only roots that are new or were there are roots.
LEMMA RootsOf ==
  ASSUME NEW T, NEW g, Tree(T, g), NEW U, NEW h, Tree(U, h), NEW c, NEW O, NEW V,
         O = {KernelRoot, c}, Moved(T, g, U, h, O, V), NEW t, IsRoot(U, h, t)
  PROVE  t = c \/ IsRoot(T, g, t)
<1> USE DEF IsRoot
<1>1. KernelRoot \in DOMAIN T /\ g.lev[KernelRoot] = 4 /\ h.own[t] = t
  BY Zenon DEF Tree, TablesTyped
<1>2. CASE t \in DOMAIN T
  BY <1>2 DEF Moved, Kept
<1>3. CASE t \notin DOMAIN T
  <2>1. h.own[t] \in O
    BY <1>3 DEF Moved, Kept
  <2>2. QED
    BY <2>1, <1>1, <1>3
<1>4. QED
  BY <1>2, <1>3

LEMMA StuckCreation ==
  ASSUME NEW m, NEW g, NEW R, m.heapEnd \in 0 .. HeapMax, NEW b, Stuck(m, g, R, b), NEW D
  PROVE  Creation(m, g, R, b, D)
<1>1. PICK h :
        /\ Good(b, h, Held(R, b)) /\ Moved(m.tables, g, b.tables, h, Others(m.tables), SpacePages)
        /\ b.ram = m.ram /\ b.heapEnd = m.heapEnd /\ b.threads = m.threads
        /\ m.ipcPage # None => b.ipcPage = m.ipcPage
        /\ m.ipcPage \notin R => b.ipcPage \notin R
        /\ b.ok = FALSE /\ (Window(m.tables, g) => b.fault = FALSE)
        /\ b.ipcPage # None => m.ipcPage # None \/ Window(b.tables, h)
  BY Zenon DEF Stuck
<1>2. Moved(m.tables, g, b.tables, h, Others(m.tables), WorkPages)
  BY <1>1, WorkParts, MovedMore
<1>3. b.heapEnd \in 0 .. HeapMax /\ b.ok \in BOOLEAN
  BY <1>1
<1>4. b.ok # TRUE
  BY <1>1
<1>5. Created(m, g, R, b, h, D)
  BY <1>1, <1>2, <1>3, <1>4, Zenon DEF Created
<1>6. QED
  BY <1>5 DEF Creation

LEMMA EndCreation ==
  ASSUME NEW m, NEW g, Tree(m.tables, g), NEW R, m.heapEnd \in 0 .. HeapMax,
         NEW a, NEW c, NEW D, D \subseteq Users, Building(m, g, R, a, c, D),
         NEW grow \in BOOLEAN, NEW b, b = CreateThread(a, grow)
  PROVE  Creation(m, g, R, b, D)
<1>1. PICK k : Built(m, g, R, a, k, c, D)
  BY DEF Building
<1>2. /\ Good(a, k, Held(R, a)) /\ Moved(m.tables, g, a.tables, k, {KernelRoot, c}, SpacePages)
      /\ a.ram = m.ram /\ a.heapEnd = m.heapEnd /\ a.threads = m.threads
      /\ m.ipcPage # None => a.ipcPage = m.ipcPage
      /\ m.ipcPage \notin R => a.ipcPage \notin R
      /\ a.ok = TRUE /\ a.fault = FALSE /\ a.root = c /\ c \in Nat \ DOMAIN m.tables
      /\ Target(a.tables, k, c) /\ Agrees(a.tables, c) /\ Window(a.tables, k)
      /\ \A v \in D : \E f : Leaf(a.tables, k, c, v, f)
      /\ IpcVirt \in D => a.ipcPage # None /\ Leaf(a.tables, k, c, IpcVirt, a.ipcPage)
      /\ \A v \in Users \ D : Fresh(a.tables, k, c, v)
      /\ Covered(m, g, Held(R, m)) => Covered(a, k, Held(R, a))
  BY <1>1 DEF Built
<1>3. Threaded(a, k, Held(R, a), b)
  <2>1. a.heapEnd \in 0 .. HeapMax
    BY <1>2
  <2>2. QED
    BY <2>1, <1>2, CreateThreadSound
<1>4. PICK h :
        /\ Good(b, h, Held(R, a)) /\ Moved(a.tables, k, b.tables, h, {KernelRoot}, HeapPages)
        /\ b.ram = a.ram /\ b.ipcPage = a.ipcPage /\ b.root = a.root /\ b.fault = a.fault
        /\ b.heapEnd \in 0 .. HeapMax
        /\ b.ok = FALSE => b.threads = a.threads
        /\ b.ok = TRUE  => b.threads = a.threads + 1 /\ a.threads # MaxThreads
        /\ b.ok = TRUE /\ Covered(a, k, Held(R, a)) /\ HeapFresh(a, k)
             => Covered(b, h, Held(R, a)) /\ HeapFresh(b, h)
  BY <1>3, Zenon DEF Threaded
<1>5. Tree(a.tables, k) /\ Tree(b.tables, h) /\ b.ok \in BOOLEAN
  BY <1>2, <1>4, Zenon DEF Good, IsMemory
<1>6. Held(R, b) = Held(R, a)
  BY <1>4 DEF Held
<1>7. Moved(m.tables, g, b.tables, h, {KernelRoot, c}, WorkPages)
  <2>1. Moved(m.tables, g, a.tables, k, {KernelRoot, c}, WorkPages)
    BY <1>2, WorkParts, MovedMore
  <2>2. {KernelRoot} \subseteq {KernelRoot, c}
    OBVIOUS
  <2>3. Moved(a.tables, k, b.tables, h, {KernelRoot, c}, WorkPages)
    BY <2>2, <1>4, WorkParts, MovedMore
  <2>4. QED
    BY <2>1, <2>3, MovedTrans DEF Tree
<1>8. Moved(m.tables, g, b.tables, h, Others(m.tables), WorkPages)
  <2>1. {KernelRoot, c} \subseteq Others(m.tables)
    BY <1>2 DEF Others
  <2>2. QED
    BY <2>1, <1>7, MovedMore
<1>9. Window(b.tables, h) /\ Target(b.tables, h, c)
  BY <1>2, <1>4, <1>5, WindowKept, TargetKept
<1>10. Agrees(b.tables, c)
  <2>1. Settled(a.tables, HeapPages)
    <3>1. Settled(a.tables, {TempWindow})
      BY <1>2, <1>5, WindowSettles
    <3>2. \A v \in HeapPages : Pml4Index(v) = Pml4Index(TempWindow)
      BY KernelPage, TempPage DEF HeapPages
    <3>3. QED
      BY <3>1, <3>2 DEF Settled
  <2>2. b.tables[c] = a.tables[c]
    <3>1. c \in DOMAIN a.tables /\ k.lev[c] = 4 /\ c # KernelRoot
      BY <1>2 DEF Target
    <3>2. QED
      BY <3>1, <1>4, <1>5, RootUnmoved
  <2>3. QED
    BY <2>1, <2>2, <1>2, <1>4, <1>5, AgreesKept
<1>11. ASSUME NEW v \in Users, NEW f, Leaf(a.tables, k, c, v, f) PROVE Leaf(b.tables, h, c, v, f)
  <2>1. v \notin HeapPages
    <3>1. v \in Nat /\ v < UserTop
      BY Bases DEF Users
    <3>2. QED
      BY <3>1, KernelPage DEF HeapPages
  <2>2. QED
    BY <2>1, <1>4, <1>5, <1>11, LeafKept
<1>12. \A v \in D : \E f : Leaf(b.tables, h, c, v, f)
  BY <1>2, <1>11
<1>13. IpcVirt \in D => b.ipcPage # None /\ Leaf(b.tables, h, c, IpcVirt, b.ipcPage)
  BY <1>2, <1>4, <1>11
<1>14. \A t \in DOMAIN b.tables : h.lev[t] = 4 => t = c \/ (t \in DOMAIN m.tables /\ g.lev[t] = 4)
  <2>1. ASSUME NEW t \in DOMAIN b.tables, h.lev[t] = 4
        PROVE  t = c \/ (t \in DOMAIN m.tables /\ g.lev[t] = 4)
    <3>1. PICK T, U, O : T = m.tables /\ U = b.tables /\ O = {KernelRoot, c}
      OBVIOUS
    <3>2. Tree(T, g) /\ Tree(U, h) /\ Moved(T, g, U, h, O, WorkPages) /\ IsRoot(U, h, t)
      BY <3>1, <2>1, <1>5, <1>7 DEF IsRoot
    <3>3. t = c \/ IsRoot(T, g, t)
      BY <3>1, <3>2, RootsOf
    <3>4. QED
      BY <3>1, <3>3 DEF IsRoot
  <2>2. QED
    BY <2>1
<1>15. HeapFresh(m, g) => HeapFresh(a, k)
  <2> SUFFICES ASSUME HeapFresh(m, g), NEW v \in HeapPages, HeapStart + a.heapEnd <= v
               PROVE  Fresh(a.tables, k, KernelRoot, v)
    BY DEF HeapFresh
  <2>1. Fresh(m.tables, g, KernelRoot, v)
    BY <1>2 DEF HeapFresh
  <2>2. v \notin SpacePages
    <3>1. v \in Nat /\ InHeapPart(v) /\ InHeap(v)
      BY KernelPage DEF HeapPages
    <3>2. v \notin Users
      BY <3>1, KernelPage, Bases DEF Users
    <3>3. QED
      BY <3>1, <3>2, TempPage DEF SpacePages
  <2>3. QED
    BY <2>1, <2>2, <1>2, FreshKept DEF Moved
<1>16. b.root = c /\ b.fault = FALSE /\ b.ram = m.ram /\ a.ipcPage = b.ipcPage
  BY <1>2, <1>4
<1>17. ASSUME b.ok = TRUE, Covered(m, g, Held(R, m)), HeapFresh(m, g)
       PROVE  Covered(b, h, Held(R, b)) /\ HeapFresh(b, h)
  BY <1>2, <1>4, <1>6, <1>15, <1>17
<1>18. /\ b.ok = FALSE => b.threads = m.threads
       /\ b.ok = TRUE => b.threads = m.threads + 1 /\ m.threads # MaxThreads
  BY <1>2, <1>4
<1>19. /\ m.ipcPage # None => b.ipcPage = m.ipcPage
       /\ m.ipcPage \notin R => b.ipcPage \notin R
  BY <1>2, <1>16
<1>20. Good(b, h, Held(R, b)) /\ b.heapEnd \in 0 .. HeapMax
  BY <1>4, <1>6
<1>21. Created(m, g, R, b, h, D)
  BY <1>5, <1>8, <1>9, <1>10, <1>12, <1>13, <1>14, <1>16, <1>17, <1>18, <1>19, <1>20, Zenon DEF Created
<1>22. QED
  BY <1>21 DEF Creation

LEMMA OutcomeCreation ==
  ASSUME NEW m, NEW g, Tree(m.tables, g), NEW R, m.heapEnd \in 0 .. HeapMax,
         NEW a, NEW c, NEW D, D \subseteq Users, Outcome(m, g, R, a, c, D),
         NEW grow \in BOOLEAN, NEW b, b = CreateThread(a, grow)
  PROVE  Creation(m, g, R, b, D) /\ (b.ok = TRUE => a.ok = TRUE)
<1>1. /\ a.ok \in BOOLEAN /\ (a.ok = FALSE <=> Stuck(m, g, R, a))
      /\ a.ok = TRUE => Building(m, g, R, a, c, D)
  BY OutcomeOk
<1>2. CASE a.ok = FALSE
  <2>1. b = a /\ b.ok = FALSE
    BY <1>2 DEF CreateThread
  <2>2. QED
    BY <2>1, <1>1, StuckCreation
<1>3. CASE a.ok = TRUE
  BY <1>1, <1>3, EndCreation
<1>4. QED
  BY <1>1, <1>2, <1>3

LEMMA StartReady ==
  ASSUME NEW m, NEW g, NEW R, Start(m, g, R)
  PROVE  Ready(m, g) /\ Tree(m.tables, g) /\ Sees(m.tables, g, KernelRoot)
<1>1. Good(m, g, Held(R, m))
  BY Zenon DEF Start
<1>2. Tree(m.tables, g)
  BY <1>1, Zenon DEF Good
<1>3. KernelRoot \in DOMAIN m.tables /\ g.lev[KernelRoot] = 4
  BY <1>2, Zenon DEF Tree, TablesTyped
<1>4. Sees(m.tables, g, KernelRoot)
  BY <1>3 DEF Sees, Agrees
<1>5. QED
  BY <1>2, <1>4 DEF Ready, Start

LEMMA CreateUserProcessSound ==
  ASSUME NEW m, NEW g, NEW R, Start(m, g, R), NEW grow \in BOOLEAN,
         NEW b, b = CreateUserProcess(m, grow)
  PROVE  Creation(m, g, R, b, ServicePages)
<1>0. Ready(m, g) /\ Tree(m.tables, g) /\ Sees(m.tables, g, KernelRoot)
  BY StartReady
<1>a. Good(m, g, Held(R, m)) /\ m.ok = TRUE /\ m.fault = FALSE /\ m.heapEnd \in 0 .. HeapMax
  BY DEF Start
<1>1. PICK a : a = CreateUserPml4(m, KernelRoot)
  OBVIOUS
<1>2. PICK c, d : c = a.root /\ d = MapImage(a)
  OBVIOUS
<1>3. PICK e, f : e = MapIpcPage(d) /\ f = MapStack(e)
  OBVIOUS
<1>4. b = CreateThread(f, grow) /\ f = MapFresh(e, StackBase, StackPages)
  BY <1>1, <1>2, <1>3 DEF CreateUserProcess, MapStack
<1>5. Outcome(m, g, R, a, c, {})
  BY <1>0, <1>a, <1>1, <1>2, BuildStart
<1>6. Outcome(m, g, R, d, c, ImagePages)
  BY <1>0, <1>2, <1>5, BuildImage
<1>7. /\ ImagePages \subseteq Users /\ IpcVirt \in Users /\ IpcVirt \notin ImagePages
      /\ StackPart \subseteq Users \ (ImagePages \cup {IpcVirt})
      /\ StackBase \in Nat /\ StackPages \in Nat \ {0}
  <2>1. \A v \in ImagePages : v \in Users /\ v < IpcVirt
    BY UserAreas DEF ImagePages
  <2>2. \A v \in StackPart : v \in Users /\ IpcVirt < v
    BY UserAreas DEF StackPart
  <2>3. \A v \in Users : v \in Int
    BY DEF Users
  <2>4. IpcVirt \in Int /\ IpcVirt \in Users
    BY <2>3, UserAreas
  <2>5. IpcVirt \notin ImagePages /\ IpcVirt \notin StackPart
    BY <2>1, <2>2, <2>4
  <2>6. ASSUME NEW v \in StackPart PROVE v \notin ImagePages
    <3>1. v \in Int /\ IpcVirt \in Int /\ IpcVirt < v
      BY <2>2, <2>3, <2>4
    <3>2. ~(v < IpcVirt)
      BY <3>1
    <3>3. QED
      BY <3>2, <2>1
  <2>7. QED
    BY <2>1, <2>2, <2>4, <2>5, <2>6, UserAreas
<1>8. Outcome(m, g, R, e, c, ImagePages \cup {IpcVirt})
  BY <1>0, <1>3, <1>6, <1>7, BuildIpc
<1>9. Outcome(m, g, R, f, c, ServicePages)
  <2>1. PICK D : D = ImagePages \cup {IpcVirt}
    OBVIOUS
  <2>2. D \subseteq Users /\ Outcome(m, g, R, e, c, D)
    BY <2>1, <1>7, <1>8
  <2>3. PICK v \in Nat : v = StackBase
    BY <1>7
  <2>4. PICK n \in Nat \ {0} : n = StackPages
    BY <1>7
  <2>5. /\ Run(v, n) \subseteq Users \ D /\ IpcVirt \notin Run(v, n) /\ f = MapFresh(e, v, n)
    BY <2>1, <2>3, <2>4, <1>4, <1>7 DEF StackPart
  <2>6. Outcome(m, g, R, f, c, D \cup Run(v, n))
    BY <2>2, <2>5, <1>0, BuildFresh
  <2>7. QED
    BY <2>1, <2>3, <2>4, <2>6 DEF ServicePages, StackPart
<1>10. ServicePages \subseteq Users
  BY <1>7 DEF ServicePages
<1>11. QED
  BY <1>0, <1>a, <1>4, <1>9, <1>10, OutcomeCreation

LEMMA ProgramLoadable ==
  ASSUME NEW p \in DOMAIN Programs, NEW l, l = Programs[p], NEW n, n = Len(l)
  PROVE  Loadable(l, n, {IpcVirt} \cup StackPart)
<1>1. /\ l \in Seq([v : Nat, n : Nat, valid : BOOLEAN])
      /\ \A i \in DOMAIN l :
           /\ SegmentPages(l[i]) \subseteq (0 .. UserTop - 1) \ (IpcVirt .. StackTop - 1)
           /\ \A j \in DOMAIN l : i # j => SegmentPages(l[i]) \cap SegmentPages(l[j]) = {}
  BY ProgramsAssumption
<1>2. n \in Nat /\ DOMAIN l = 1 .. n
  BY <1>1
<1>3. \A i \in 1 .. n : IsSegment(l[i])
  <2>1. \A i \in 1 .. n : l[i] \in [v : Nat, n : Nat, valid : BOOLEAN]
    <3>1. ASSUME NEW S, l \in Seq(S), NEW i \in DOMAIN l PROVE l[i] \in S
      BY <3>1
    <3>2. QED
      BY <3>1, <1>1, <1>2
  <2>2. \A s \in [v : Nat, n : Nat, valid : BOOLEAN] : IsSegment(s)
    BY DEF IsSegment
  <2>3. QED
    BY <2>1, <2>2
<1>4. IpcVirt \in IpcVirt .. StackTop - 1 /\ StackPart \subseteq IpcVirt .. StackTop - 1
  <2>1. StackPart \subseteq IpcVirt + 1 .. StackTop - 1 /\ IpcVirt \in Nat /\ StackBase \in Nat
        /\ StackPages \in Nat \ {0}
    BY UserAreas DEF StackPart
  <2>2. StackTop \in Nat
    BY Bases
  <2>3. StackBase \in StackPart
    BY <2>1 DEF StackPart, Run
  <2>4. IpcVirt + 1 <= StackBase /\ StackBase <= StackTop - 1
    BY <2>1, <2>3
  <2>5. IpcVirt <= StackTop - 1
    BY <2>1, <2>2, <2>4
  <2>6. QED
    BY <2>1, <2>2, <2>5
<1>5. \A i \in 1 .. n : /\ SegmentPages(l[i]) \subseteq Users \ ({IpcVirt} \cup StackPart)
                        /\ IpcVirt \notin SegmentPages(l[i])
  BY <1>1, <1>2, <1>4 DEF Users
<1>6. QED
  BY <1>1, <1>2, <1>3, <1>5 DEF Loadable

LEMMA CreateElfProcessSound ==
  ASSUME NEW m, NEW g, NEW R, Start(m, g, R), NEW r, Sees(m.tables, g, r),
         NEW p \in DOMAIN Programs, NEW l, l = Programs[p], NEW grow \in BOOLEAN,
         NEW b, b = CreateElfProcess(m, r, l, grow)
  PROVE  /\ Creation(m, g, R, b, ProgramPages(l))
         /\ b.ok = TRUE => \A i \in DOMAIN l : l[i].valid = TRUE
<1>0. Ready(m, g) /\ Tree(m.tables, g)
  BY StartReady
<1>a. Good(m, g, Held(R, m)) /\ m.ok = TRUE /\ m.fault = FALSE /\ m.heapEnd \in 0 .. HeapMax
  BY DEF Start
<1>1. PICK a : a = CreateUserPml4(m, r)
  OBVIOUS
<1>2. PICK c, d : c = a.root /\ d = MapIpcPage(a)
  OBVIOUS
<1>3. PICK e, f : e = MapStack(d) /\ f = LoadElf(e, l)
  OBVIOUS
<1>4. b = CreateThread(f, grow) /\ e = MapFresh(d, StackBase, StackPages)
  BY <1>1, <1>2, <1>3 DEF CreateElfProcess, MapStack
<1>5. Outcome(m, g, R, a, c, {})
  BY <1>0, <1>a, <1>1, <1>2, BuildStart
<1>6. Outcome(m, g, R, d, c, {IpcVirt})
  <2>1. PICK D : D = {}
    OBVIOUS
  <2>2. D \subseteq Users /\ IpcVirt \notin D /\ Outcome(m, g, R, a, c, D) /\ D \cup {IpcVirt} = {IpcVirt}
    BY <2>1, <1>5
  <2>3. Outcome(m, g, R, d, c, D \cup {IpcVirt})
    BY <2>2, <1>0, <1>2, BuildIpc
  <2>4. QED
    BY <2>2, <2>3
<1>7. /\ IpcVirt \in Users /\ StackPart \subseteq Users \ {IpcVirt}
      /\ StackBase \in Nat /\ StackPages \in Nat \ {0}
  <2>1. \A v \in StackPart : v \in Users /\ IpcVirt < v
    BY UserAreas DEF StackPart
  <2>2. IpcVirt \in Nat
    BY UserAreas
  <2>3. IpcVirt \notin StackPart
    BY <2>1, <2>2
  <2>4. QED
    BY <2>1, <2>3, UserAreas
<1>8. Outcome(m, g, R, e, c, {IpcVirt} \cup StackPart)
  <2>1. PICK D : D = {IpcVirt}
    OBVIOUS
  <2>2. D \subseteq Users /\ Outcome(m, g, R, d, c, D)
    BY <2>1, <1>6, <1>7
  <2>3. PICK v \in Nat : v = StackBase
    BY <1>7
  <2>4. PICK n \in Nat \ {0} : n = StackPages
    BY <1>7
  <2>5. /\ Run(v, n) \subseteq Users \ D /\ IpcVirt \notin Run(v, n) /\ e = MapFresh(d, v, n)
    BY <2>1, <2>3, <2>4, <1>4, <1>7 DEF StackPart
  <2>6. Outcome(m, g, R, e, c, D \cup Run(v, n))
    BY <2>2, <2>5, <1>0, BuildFresh
  <2>7. QED
    BY <2>1, <2>3, <2>4, <2>6 DEF StackPart
<1>9. PICK n, D : n = Len(l) /\ D = {IpcVirt} \cup StackPart
  OBVIOUS
<1>10. Loadable(l, n, D) /\ D \subseteq Users
  BY <1>7, <1>9, ProgramLoadable
<1>11. /\ Outcome(m, g, R, f, c, D \cup Segs(l, n))
       /\ f.ok = TRUE => \A i \in 1 .. n : l[i].valid = TRUE
  BY <1>0, <1>3, <1>8, <1>9, <1>10, BuildElf
<1>12. Segs(l, n) \subseteq Users
  BY <1>10, Zenon DEF Segs, Loadable
<1>13. PICK E : E = D \cup Segs(l, n)
  OBVIOUS
<1>14. Outcome(m, g, R, f, c, E) /\ E \subseteq Users
  BY <1>10, <1>11, <1>12, <1>13
<1>15. Creation(m, g, R, b, E) /\ (b.ok = TRUE => f.ok = TRUE)
  BY <1>0, <1>a, <1>4, <1>14, OutcomeCreation
<1>16. E = ProgramPages(l) /\ DOMAIN l = 1 .. n
  BY <1>9, <1>10, <1>13 DEF ProgramPages, Loadable
<1>17. QED
  BY <1>11, <1>15, <1>16

----------------------------------------------------------------------------
(* The inductive invariant, for a history g; o is the off-screen buffer,   *)
(* ps are the processes.                                                   *)

LEMMA CleanFields ==
  ASSUME NEW b, IsMemory(b), NEW a, a = Clean(b)
  PROVE  /\ IsMemory(a) /\ a = Clean(a) /\ a.ram = b.ram /\ a.taken = b.taken /\ a.used = b.used
         /\ a.tables = b.tables /\ a.ipcPage = b.ipcPage /\ a.heapEnd = b.heapEnd
         /\ a.threads = b.threads /\ a.ok = TRUE /\ a.fault = FALSE
BY DEF IsMemory, Clean

LEMMA LeafSame ==
  ASSUME NEW T, NEW g, Tree(T, g), NEW U, NEW h, NEW O, NEW V, Moved(T, g, U, h, O, V),
         NEW r, r \notin O, NEW v, NEW f
  PROVE  Leaf(T, g, r, v, f) <=> Leaf(U, h, r, v, f)
<1>1. /\ DOMAIN T \subseteq DOMAIN U
      /\ \A t \in DOMAIN T : h.lev[t] = g.lev[t] /\ h.own[t] = g.own[t] /\ h.key[t] = g.key[t]
      /\ \A t \in DOMAIN T : g.own[t] \notin O => U[t] = T[t]
      /\ \A t \in DOMAIN U \ DOMAIN T : h.own[t] \in O
  BY Zenon DEF Moved, Kept
<1>2. ASSUME Leaf(T, g, r, v, f) PROVE Leaf(U, h, r, v, f)
  BY <1>1, <1>2 DEF Leaf
<1>3. ASSUME Leaf(U, h, r, v, f) PROVE Leaf(T, g, r, v, f)
  BY <1>1, <1>3 DEF Leaf
<1>4. QED
  BY <1>2, <1>3

LEMMA SettledWork ==
  ASSUME NEW T, NEW g, Tree(T, g), Window(T, g), W - 1 \in DOMAIN T[KernelRoot]
  PROVE  Settled(T, WorkPages)
<1>1. W - 3 \in DOMAIN T[KernelRoot]
  <2>1. Settled(T, {TempWindow})
    BY WindowSettles
  <2>2. QED
    BY <2>1, TempPage DEF Settled
<1>2. ASSUME NEW v \in WorkPages, Pml4Index(v) \in KernelHalf PROVE Pml4Index(v) \in DOMAIN T[KernelRoot]
  <2>1. v \in Pages /\ v \in Nat
    BY DEF WorkPages, Pages
  <2>2. CASE v < UserTop
    <3>1. v \in 0 .. UserTop - 1
      BY <2>1, <2>2, Bases
    <3>2. Pml4Index(v) \in UserHalf /\ Pml4Index(v) \in Idx
      BY <2>1, <3>1, UserPage, KeyFacts
    <3>3. QED
      BY <3>2, <1>2, Bases
  <2>3. CASE InHeapPart(v)
    BY <1>1, <2>1, <2>3, KernelPage
  <2>4. CASE Offscreen <= v
    <3>1. v < Top
      BY <2>1, Bases DEF Pages
    <3>2. QED
      BY <2>1, <2>4, <3>1, KernelPage
  <2>5. QED
    BY <2>2, <2>3, <2>4 DEF WorkPages
<1>3. QED
  BY <1>1, <1>2 DEF Settled

LEMMA ProcKept ==
  ASSUME NEW T, NEW g, Tree(T, g), Window(T, g), W - 1 \in DOMAIN T[KernelRoot],
         NEW U, NEW h, Moved(T, g, U, h, Others(T), WorkPages),
         NEW ipc, NEW r, NEW name, ProcOK(T, g, ipc, r, name)
  PROVE  ProcOK(U, h, ipc, r, name)
<1>1. Target(T, g, r) /\ Agrees(T, r) /\ Complete(T, g, r, ipc, name)
  BY DEF ProcOK
<1>2. r \in DOMAIN T /\ g.lev[r] = 4 /\ r # KernelRoot
  BY <1>1 DEF Target
<1>3. r \notin Others(T)
  BY <1>2 DEF Others
<1>4. Target(U, h, r)
  BY <1>1, TargetKept
<1>5. Agrees(U, r)
  <2>1. U[r] = T[r]
    BY <1>2, <1>3, RootUnmoved
  <2>2. QED
    BY <2>1, <1>1, SettledWork, AgreesKept
<1>6. \A v, f : Leaf(T, g, r, v, f) => Leaf(U, h, r, v, f)
  <2> SUFFICES ASSUME NEW v, NEW f, Leaf(T, g, r, v, f) PROVE Leaf(U, h, r, v, f)
    OBVIOUS
  <2>1. QED
    BY <1>3, LeafSame
<1>7. Complete(U, h, r, ipc, name)
  BY <1>1, <1>6, Zenon DEF Complete
<1>8. QED
  BY <1>4, <1>5, <1>7 DEF ProcOK

\* The processes that were there.
LEMMA SoundStep ==
  ASSUME NEW m, NEW g, NEW o, NEW ps, Sound(m, g, o, ps),
         NEW b, NEW h, NEW o2, Good(b, h, Held(ScreenOf(o2), b)), b.ipcPage \notin ScreenOf(o2),
         Moved(m.tables, g, b.tables, h, Others(m.tables), WorkPages),
         b.heapEnd \in 0 .. HeapMax, b.threads \in 0 .. MaxThreads, DOMAIN ps \subseteq 1 .. b.threads - 1,
         m.ipcPage # None => b.ipcPage = m.ipcPage,
         b.ipcPage # None => m.ipcPage # None \/ Window(b.tables, h),
         NEW a, a = Clean(b)
  PROVE  Sound(a, h, o2, ps) /\ Steady(m, g, a, h)
<1>1. /\ Good(m, g, Held(ScreenOf(o), m)) /\ W - 1 \in DOMAIN m.tables[KernelRoot]
      /\ m.ipcPage # None => Window(m.tables, g)
      /\ \A t \in DOMAIN ps : ProcOK(m.tables, g, m.ipcPage, ps[t].root, ps[t].name)
  BY DEF Sound
<1>2. Tree(m.tables, g) /\ IsMemory(b)
  BY <1>1, Zenon DEF Good
<1>3. /\ IsMemory(a) /\ a = Clean(a) /\ a.ram = b.ram /\ a.taken = b.taken /\ a.used = b.used
      /\ a.tables = b.tables /\ a.ipcPage = b.ipcPage /\ a.heapEnd = b.heapEnd
      /\ a.threads = b.threads
  BY <1>2, CleanFields
<1>4. Good(a, h, Held(ScreenOf(o2), a))
  <2>1. Held(ScreenOf(o2), a) = Held(ScreenOf(o2), b)
    BY <1>3 DEF Held
  <2>2. Good(a, h, Held(ScreenOf(o2), b))
    BY <1>3, GoodSame
  <2>3. QED
    BY <2>1, <2>2
<1>5. W - 1 \in DOMAIN a.tables[KernelRoot]
  BY <1>1, <1>2, <1>3, TopStays
<1>6. a.ipcPage # None => Window(a.tables, h)
  BY <1>1, <1>3, WindowKept
<1>7. ASSUME NEW t \in DOMAIN ps
      PROVE  ProcOK(a.tables, h, a.ipcPage, ps[t].root, ps[t].name)
  <2>1. PICK r, n : r = ps[t].root /\ n = ps[t].name
    OBVIOUS
  <2>2. ProcOK(m.tables, g, m.ipcPage, r, n)
    BY <2>1, <1>1
  <2>3. m.ipcPage # None
    BY <2>2 DEF ProcOK, Complete
  <2>4. ProcOK(b.tables, h, m.ipcPage, r, n)
    BY <2>2, <2>3, <1>1, <1>2, ProcKept
  <2>5. QED
    BY <2>1, <2>3, <2>4, <1>3
<1>8. Steady(m, g, a, h)
  BY <1>3 DEF Steady
<1>9. DOMAIN ps \subseteq 1 .. a.threads - 1
  BY <1>3
<1>10. /\ a.ipcPage \notin ScreenOf(o2) /\ a.heapEnd \in 0 .. HeapMax /\ a.threads \in 0 .. MaxThreads
  BY <1>3
<1>11. Sound(a, h, o2, ps)
  BY <1>3, <1>4, <1>5, <1>6, <1>7, <1>9, <1>10, Zenon DEF Sound
<1>12. QED
  BY <1>8, <1>11

LEMMA HeapFreshKept ==
  ASSUME NEW m, NEW g, NEW b, NEW h, NEW O, NEW V, Moved(m.tables, g, b.tables, h, O, V),
         V \cap HeapPages = {}, b.heapEnd = m.heapEnd, HeapFresh(m, g)
  PROVE  HeapFresh(b, h)
<1> SUFFICES ASSUME NEW v \in HeapPages, HeapStart + b.heapEnd <= v
             PROVE  Fresh(b.tables, h, KernelRoot, v)
  BY DEF HeapFresh
<1>1. Fresh(m.tables, g, KernelRoot, v) /\ v \notin V
  BY DEF HeapFresh
<1>2. QED
  BY <1>1, FreshKept DEF Moved

\* A step of the kernel, which makes no roots.
LEMMA KernelStep ==
  ASSUME NEW m, NEW g, NEW o, NEW ps, Sound(m, g, o, ps),
         NEW b, NEW h, NEW o2, Good(b, h, Held(ScreenOf(o2), b)), m.ipcPage \notin ScreenOf(o2),
         b.ipcPage = m.ipcPage, NEW V, V \subseteq WorkPages,
         Moved(m.tables, g, b.tables, h, {KernelRoot}, V),
         b.heapEnd \in 0 .. HeapMax, b.threads \in 0 .. MaxThreads, DOMAIN ps \subseteq 1 .. b.threads - 1,
         NEW a, a = Clean(b)
  PROVE  /\ Sound(a, h, o2, ps) /\ Steady(m, g, a, h)
         /\ AllOwned(m, g, o, ps) /\ Covered(b, h, Held(ScreenOf(o2), b)) /\ HeapFresh(b, h)
              => AllOwned(a, h, o2, ps)
<1>1. Tree(m.tables, g) /\ Tree(b.tables, h) /\ IsMemory(b)
  BY Zenon DEF Good, Sound
<1>2. Moved(m.tables, g, b.tables, h, Others(m.tables), WorkPages)
  <2>1. {KernelRoot} \subseteq Others(m.tables)
    BY DEF Others
  <2>2. QED
    BY <2>1, MovedMore
<1>3. Sound(a, h, o2, ps) /\ Steady(m, g, a, h)
  BY <1>2, SoundStep
<1>4. ASSUME AllOwned(m, g, o, ps), Covered(b, h, Held(ScreenOf(o2), b)), HeapFresh(b, h)
      PROVE  AllOwned(a, h, o2, ps)
  <2>1. /\ a.ram = b.ram /\ a.taken = b.taken /\ a.tables = b.tables /\ a.ipcPage = b.ipcPage
        /\ a.heapEnd = b.heapEnd
    BY <1>1, CleanFields
  <2>2. Covered(a, h, Held(ScreenOf(o2), a))
    BY <2>1, <1>4 DEF Covered, Held
  <2>3. HeapFresh(a, h)
    BY <2>1, <1>4 DEF HeapFresh
  <2>4. ASSUME NEW t, IsRoot(a.tables, h, t)
        PROVE  t = KernelRoot \/ \E p \in DOMAIN ps : ps[p].root = t
    <3>1. PICK T, U, c, O : T = m.tables /\ U = a.tables /\ c = KernelRoot /\ O = {KernelRoot, c}
      OBVIOUS
    <3>2. O = {KernelRoot}
      BY <3>1
    <3>3. Tree(T, g) /\ Tree(U, h) /\ Moved(T, g, U, h, O, V) /\ IsRoot(U, h, t)
      BY <3>1, <3>2, <2>1, <2>4, <1>1
    <3>4. t = c \/ IsRoot(T, g, t)
      BY <3>1, <3>3, RootsOf
    <3>5. QED
      BY <3>1, <3>4, <1>4 DEF AllOwned
  <2>5. QED
    BY <2>2, <2>3, <2>4, Zenon DEF AllOwned
<1>5. QED
  BY <1>3, <1>4

LEMMA FillsComplete ==
  ASSUME NEW T, NEW g, NEW r, NEW ipc, NEW name, NEW D, Fills(D, name),
         \A v \in D : \E f : Leaf(T, g, r, v, f),
         IpcVirt \in D => ipc # None /\ Leaf(T, g, r, IpcVirt, ipc)
  PROVE  Complete(T, g, r, ipc, name)
BY Zenon DEF Fills, Complete

LEMMA CreationStep ==
  ASSUME NEW m, NEW g, NEW o, NEW ps, Sound(m, g, o, ps), m.threads >= 1,
         NEW b, NEW D, Creation(m, g, ScreenOf(o), b, D), NEW name, b.ok = TRUE => Fills(D, name),
         NEW a, a = Clean(b), NEW qs, qs = With(ps, b, m.threads, name)
  PROVE  CreationDone(m, g, o, ps, b, a, qs)
<1>1. PICK S, t : S = ScreenOf(o) /\ t = m.threads
  OBVIOUS
<1>2. PICK h : Created(m, g, S, b, h, D)
  BY <1>1 DEF Creation
<1>3. /\ Good(b, h, Held(S, b)) /\ Moved(m.tables, g, b.tables, h, Others(m.tables), WorkPages)
      /\ b.ram = m.ram /\ b.heapEnd \in 0 .. HeapMax
      /\ m.ipcPage # None => b.ipcPage = m.ipcPage
      /\ m.ipcPage \notin S => b.ipcPage \notin S
      /\ b.ipcPage # None => m.ipcPage # None \/ Window(b.tables, h)
      /\ b.ok \in BOOLEAN /\ (Window(m.tables, g) => b.fault = FALSE)
      /\ b.ok = FALSE => b.threads = m.threads
      /\ b.ok = TRUE => b.threads = m.threads + 1 /\ m.threads # MaxThreads
  BY <1>2, Zenon DEF Created
<1>4. /\ m.ipcPage \notin S /\ m.threads \in 0 .. MaxThreads /\ DOMAIN ps \subseteq 1 .. m.threads - 1
      /\ m.ipcPage # None => Window(m.tables, g)
  BY <1>1, Zenon DEF Sound
<1>5. MaxThreads \in Nat
  BY ProcessesAssumption
<1>6. /\ b.threads \in 0 .. MaxThreads /\ DOMAIN ps \subseteq 1 .. b.threads - 1
      /\ m.threads <= b.threads
  BY <1>3, <1>4, <1>5
<1>7. Sound(a, h, o, ps) /\ Steady(m, g, a, h)
  BY <1>1, <1>3, <1>4, <1>6, SoundStep
<1>8. IsMemory(b)
  BY <1>3, Zenon DEF Good
<1>9. /\ a.ram = b.ram /\ a.taken = b.taken /\ a.tables = b.tables /\ a.ipcPage = b.ipcPage
      /\ a.heapEnd = b.heapEnd /\ a.threads = b.threads
  BY <1>8, CleanFields
<1>10. m.ipcPage # None => b.fault = FALSE
  BY <1>3, <1>4
<1>11. CASE b.ok = FALSE
  <2>1. qs = ps /\ b.ok # TRUE
    BY <1>11 DEF With
  <2>2. QED
    BY <2>1, <1>6, <1>7, <1>9, <1>10 DEF CreationDone
<1>12. CASE b.ok = TRUE
  <2>1. PICK r : r = b.root
    OBVIOUS
  <2>2. /\ Target(b.tables, h, r) /\ Agrees(b.tables, r)
        /\ \A v \in D : \E f : Leaf(b.tables, h, r, v, f)
        /\ IpcVirt \in D => b.ipcPage # None /\ Leaf(b.tables, h, r, IpcVirt, b.ipcPage)
        /\ \A x \in DOMAIN b.tables : h.lev[x] = 4 => x = r \/ (x \in DOMAIN m.tables /\ g.lev[x] = 4)
        /\ Covered(m, g, Held(S, m)) /\ HeapFresh(m, g) => Covered(b, h, Held(S, b)) /\ HeapFresh(b, h)
    BY <2>1, <1>2, <1>12, Zenon DEF Created
  <2>3. b.threads = m.threads + 1 /\ m.threads # MaxThreads
    BY <1>3, <1>12
  <2>4. t \notin DOMAIN ps /\ t \in 1 .. b.threads - 1
    BY <2>3, <1>1, <1>4, <1>5
  <2>5. /\ DOMAIN qs = DOMAIN ps \cup {t}
        /\ qs[t].root = r /\ qs[t].name = name
        /\ \A x \in DOMAIN ps : qs[x] = ps[x]
    <3>1. qs = With(ps, b, t, name)
      BY <1>1
    <3>2. /\ DOMAIN qs = DOMAIN ps \cup {t}
          /\ qs[t].root = b.root /\ qs[t].name = name
          /\ \A x \in DOMAIN ps : qs[x] = ps[x]
      <4>1. t \notin DOMAIN ps
        BY <2>4
      <4>2. QED
        BY <3>1, <4>1, <1>12 DEF With, AddProcess
    <3>3. QED
      BY <3>2, <2>1
  <2>6. ProcOK(b.tables, h, b.ipcPage, r, name)
    <3>1. Complete(b.tables, h, r, b.ipcPage, name)
      BY <2>2, <1>12, FillsComplete
    <3>2. QED
      BY <3>1, <2>2 DEF ProcOK
  <2>7. Sound(a, h, o, qs)
    <3>1. /\ Good(a, h, Held(ScreenOf(o), a)) /\ a.ipcPage \notin ScreenOf(o)
          /\ a = Clean(a) /\ a.heapEnd \in 0 .. HeapMax /\ a.threads \in 0 .. MaxThreads
          /\ W - 1 \in DOMAIN a.tables[KernelRoot]
          /\ a.ipcPage # None => Window(a.tables, h)
          /\ \A x \in DOMAIN ps : ProcOK(a.tables, h, a.ipcPage, ps[x].root, ps[x].name)
      BY <1>7, Zenon DEF Sound
    <3>2. DOMAIN qs \subseteq 1 .. a.threads - 1
      BY <2>4, <2>5, <1>6, <1>9
    <3>3. ASSUME NEW x \in DOMAIN qs PROVE ProcOK(a.tables, h, a.ipcPage, qs[x].root, qs[x].name)
      <4>1. CASE x = t
        BY <4>1, <2>5, <2>6, <1>9
      <4>2. CASE x # t
        BY <4>2, <3>1, <2>5
      <4>3. QED
        BY <4>1, <4>2
    <3>4. QED
      BY <3>1, <3>2, <3>3, Zenon DEF Sound
  <2>8. ASSUME AllOwned(m, g, o, ps) PROVE AllOwned(a, h, o, qs)
    <3>1. /\ Covered(m, g, Held(S, m)) /\ HeapFresh(m, g)
          /\ \A x : IsRoot(m.tables, g, x) => x = KernelRoot \/ \E p \in DOMAIN ps : ps[p].root = x
      BY <2>8, <1>1, Zenon DEF AllOwned
    <3>2. Covered(b, h, Held(S, b)) /\ HeapFresh(b, h)
      BY <3>1, <2>2
    <3>3. Covered(a, h, Held(S, a)) /\ HeapFresh(a, h)
      BY <3>2, <1>9 DEF Covered, HeapFresh, Held
    <3>4. ASSUME NEW x, IsRoot(a.tables, h, x)
          PROVE  x = KernelRoot \/ \E p \in DOMAIN qs : qs[p].root = x
      <4>1. x = r \/ IsRoot(m.tables, g, x)
        BY <3>4, <2>2, <1>9 DEF IsRoot
      <4>2. CASE x = r
        <5>1. t \in DOMAIN qs /\ qs[t].root = x
          BY <4>2, <2>5
        <5>2. QED
          BY <5>1
      <4>3. CASE IsRoot(m.tables, g, x)
        <5>1. x = KernelRoot \/ \E p \in DOMAIN ps : ps[p].root = x
          BY <4>3, <3>1
        <5>2. \A p \in DOMAIN ps : p \in DOMAIN qs /\ qs[p] = ps[p]
          BY <2>5
        <5>3. QED
          BY <5>1, <5>2
      <4>4. QED
        BY <4>1, <4>2, <4>3
    <3>5. QED
      BY <3>3, <3>4, <1>1, Zenon DEF AllOwned
  <2>9. QED
    BY <2>7, <2>8, <1>6, <1>7, <1>9, <1>10 DEF CreationDone
<1>13. QED
  BY <1>3, <1>11, <1>12

LEMMA ServiceFills ==
  ASSUME NEW i \in DOMAIN Services
  PROVE  Fills(ServicePages, Services[i]) /\ Services[i] \notin DOMAIN Programs
<1>1. Services[i] \notin DOMAIN Programs
  BY ProgramsAssumption
<1>2. StackPart \subseteq ServicePages /\ IpcVirt \in ServicePages /\ ImagePages \subseteq ServicePages
  BY DEF ServicePages
<1>3. QED
  BY <1>1, <1>2 DEF Fills

LEMMA ProgramFills ==
  ASSUME NEW p \in DOMAIN Programs, NEW l, l = Programs[p], \A i \in DOMAIN l : l[i].valid = TRUE
  PROVE  Fills(ProgramPages(l), p)
<1>1. StackPart \subseteq ProgramPages(l) /\ IpcVirt \in ProgramPages(l)
  BY DEF ProgramPages
<1>2. ASSUME NEW i \in DOMAIN l PROVE SegmentPages(l[i]) \subseteq ProgramPages(l)
  <2>1. PICK n : n = Len(l)
    OBVIOUS
  <2>2. DOMAIN l = 1 .. n
    BY <2>1, ProgramLoadable DEF Loadable
  <2>3. SegmentPages(l[i]) \subseteq Segs(l, n)
    BY <2>2 DEF Segs
  <2>4. QED
    BY <2>1, <2>3 DEF ProgramPages
<1>3. QED
  BY <1>1, <1>2 DEF Fills

----------------------------------------------------------------------------
(* Steps of the kernel on its own tables outside the heap.                 *)

LEMMA RemapSelf ==
  ASSUME NEW m, NEW g, NEW R, Good(m, g, R), NEW V
  PROVE  Remapped(m, g, R, V, m)
<1>1. Later(m, g, m, g, {KernelRoot}, V)
  BY LaterSelf DEF SameElse
<1>2. QED
  BY <1>1 DEF Remapped

\* One more step, whatever the history is.
LEMMA RemapTrans ==
  ASSUME NEW m, NEW g, NEW R, Tree(m.tables, g), NEW V, NEW a, Remapped(m, g, R, V, a),
         NEW b, \A h : Good(a, h, R) => Remapped(a, h, R, V, b)
  PROVE  Remapped(m, g, R, V, b)
<1>1. PICK h : /\ Good(a, h, R) /\ Later(m, g, a, h, {KernelRoot}, V)
               /\ Covered(m, g, R) => Covered(a, h, R)
  BY DEF Remapped
<1>2. PICK k : /\ Good(b, k, R) /\ Later(a, h, b, k, {KernelRoot}, V)
               /\ Covered(a, h, R) => Covered(b, k, R)
  BY <1>1 DEF Remapped
<1>3. Later(m, g, b, k, {KernelRoot}, V)
  BY <1>1, <1>2, LaterTrans
<1>4. QED
  BY <1>1, <1>2, <1>3 DEF Remapped

\* What is not in the heap belongs to nobody.
LEMMA OutsideFresh ==
  ASSUME NEW T, NEW g, NEW v, ~InHeap(v)
  PROVE  Fresh(T, g, KernelRoot, v)
BY DEF Fresh, Guarded

LEMMA MapOutside ==
  ASSUME NEW m, NEW g, NEW R, Good(m, g, R), NEW v \in Nat, NEW f \in Nat, NEW n \in Nat,
         \A w \in Run(v, n) : w \in Pages /\ ~InHeap(w),
         NEW a, a = MapPagesIn(m, KernelRoot, v, f, n)
  PROVE  Remapped(m, g, R, Run(v, n), a)
<1>1. Tree(m.tables, g)
  BY Zenon DEF Good
<1>2. \A j \in 0 .. n - 1 : v + j \in Pages /\ ~InHeap(v + j)
  <2>1. \A j \in 0 .. n - 1 : v + j \in Run(v, n)
    BY DEF Run
  <2>2. QED
    BY <2>1
<1>3. Rooted(m.tables, g, KernelRoot, v, n)
  BY <1>1, <1>2, KernelRootOf DEF Rooted
<1>4. AskAll(m, KernelRoot, v, f, n, {})
  BY <1>2 DEF AskAll, Ask, Guards
<1>5. {} \subseteq R /\ {} \subseteq Run(f, n)
  OBVIOUS
<1>6. MappingAll(m, g, R, {}, KernelRoot, v, f, n, a)
  BY <1>3, <1>4, <1>5, MapPagesSound
<1>7. PICK h, S :
        /\ Good(a, h, S) /\ Later(m, g, a, h, {KernelRoot}, Run(v, n))
        /\ R \ {} \subseteq S /\ S \subseteq R
        /\ a.ok = TRUE => S = R \ {} /\ Leafs(a.tables, h, KernelRoot, v, f, n)
        /\ Covered(m, g, R) /\ AllFresh(m.tables, g, KernelRoot, v, n) => Covered(a, h, S)
  BY <1>6 DEF MappingAll
<1>8. S = R
  BY <1>7
<1>9. AllFresh(m.tables, g, KernelRoot, v, n)
  BY <1>2, OutsideFresh DEF AllFresh
<1>10. QED
  BY <1>7, <1>8, <1>9 DEF Remapped

\* One page of it is unmapped.
LEMMA UnmapOutside ==
  ASSUME NEW m, NEW g, NEW R, Good(m, g, R), NEW V, NEW v \in V, v \in Pages, ~InHeap(v),
         NEW a, a = UnmapPage(m, v)
  PROVE  Remapped(m, g, R, V, a)
<1>1. /\ Good(a, g, R) /\ Later(m, g, a, g, {KernelRoot}, {v})
      /\ Covered(m, g, R) => Covered(a, g, R)
  BY UnmapPageSound
<1>2. Later(m, g, a, g, {KernelRoot}, V)
  BY <1>1, LaterMore
<1>3. QED
  BY <1>1, <1>2 DEF Remapped

LEMMA UnmapAll ==
  ASSUME NEW m, NEW g, NEW R, Good(m, g, R), NEW v \in Nat, NEW n \in Nat,
         NEW V, V = Run(v, n), \A w \in V : w \in Pages /\ ~InHeap(w),
         NEW a, a = UnmapPages(m, v, n)
  PROVE  Remapped(m, g, R, V, a)
<1>0. Tree(m.tables, g)
  BY Zenon DEF Good
<1>1. PICK st : Loop("unmap", [v |-> v], m, n, st, a)
  BY UnmapLoop
<1>2. /\ st[0] = m /\ st[n] = a
      /\ \A i \in 0 .. n - 1 : st[i + 1] = UnmapPage(st[i], v + i)
  <2>1. ASSUME NEW x, NEW y \in Nat PROVE Step("unmap", [v |-> v], x, y + 1) = UnmapPage(x, v + y)
    <3>1. (y + 1) - 1 = y
      OBVIOUS
    <3>2. QED
      BY <3>1 DEF Step
  <2>2. \A i \in 0 .. n - 1 : i \in Nat
    OBVIOUS
  <2>3. QED
    BY <1>1, <2>1, <2>2 DEF Loop
<1> DEFINE P == {i \in Nat : Remapped(m, g, R, V, st[i])}
<1>3. 0 \in P
  <2>1. Remapped(m, g, R, V, m)
    BY RemapSelf
  <2>2. QED
    BY <2>1, <1>2
<1>4. ASSUME NEW i \in 0 .. n - 1, i \in P PROVE i + 1 \in P
  <2>1. PICK x, y, w : x = st[i] /\ y = st[i + 1] /\ w = v + i
    OBVIOUS
  <2>2. Remapped(m, g, R, V, x) /\ y = UnmapPage(x, w) /\ i \in Nat
    BY <2>1, <1>2, <1>4
  <2>3. w \in V /\ w \in Pages /\ ~InHeap(w)
    BY <2>1, <2>2 DEF Run
  <2>4. ASSUME NEW h, Good(x, h, R) PROVE Remapped(x, h, R, V, y)
    BY <2>2, <2>3, <2>4, UnmapOutside
  <2>5. Remapped(m, g, R, V, y)
    BY <2>2, <2>4, <1>0, RemapTrans
  <2>6. Remapped(m, g, R, V, st[i + 1]) /\ i + 1 \in Nat
    BY <2>1, <2>2, <2>5
  <2>7. QED
    BY <2>6
<1> HIDE DEF P
<1>5. n \in P
  BY <1>3, <1>4, UpTo
<1>6. QED
  BY <1>2, <1>5 DEF P

\* Pages that the kernel maps at the top.
LEMMA TopPages ==
  ASSUME NEW v \in Nat, Offscreen <= v, v < Top
  PROVE  v \in WorkPages /\ v \in Pages /\ ~InHeap(v) /\ v \notin HeapPages
<1>1. v \in Pages /\ ~InHeapPart(v)
  BY KernelPage
<1>2. ~InHeap(v)
  BY <1>1, KernelPage
<1>3. QED
  BY <1>1, <1>2 DEF WorkPages, HeapPages

LEMMA AcpiArea ==
  \A v \in AcpiPages : v \in Nat /\ v \in WorkPages /\ v \in Pages /\ ~InHeap(v) /\ v \notin HeapPages
<1>1. ASSUME NEW v \in AcpiPages
      PROVE  v \in Nat /\ v \in WorkPages /\ v \in Pages /\ ~InHeap(v) /\ v \notin HeapPages
  <2>1. v \in Nat
    BY Bases DEF AcpiPages
  <2>2. Offscreen <= v /\ v < Top
    BY <2>1, KernelPage DEF AcpiPages
  <2>3. QED
    BY <2>1, <2>2, TopPages
<1>2. QED
  BY <1>1

LEMMA ReplaceOutside ==
  ASSUME NEW m, NEW g, NEW R, Good(m, g, R), NEW V, NEW v \in V, v \in Pages, ~InHeap(v), NEW f \in Nat,
         NEW a, a = ReplacePage(m, v, f)
  PROVE  Remapped(m, g, R, V, a)
<1>0. Tree(m.tables, g) /\ m.ok \in BOOLEAN
  BY Zenon DEF Good, IsMemory
<1>1. PICK d : d = IF GetPhysIn(m, KernelRoot, v) # None THEN UnmapPage(m, v) ELSE m
  OBVIOUS
<1>2. a = IF m.ok THEN MapPageIn(d, KernelRoot, v, f) ELSE m
  BY <1>1 DEF ReplacePage
<1>3. CASE m.ok = FALSE
  <2>1. a = m
    BY <1>2, <1>3
  <2>2. QED
    BY <2>1, RemapSelf
<1>4. CASE m.ok = TRUE
  <2>1. a = MapPageIn(d, KernelRoot, v, f)
    BY <1>2, <1>4
  <2>2. Remapped(m, g, R, V, d) /\ d.ok = TRUE
    <3>1. CASE GetPhysIn(m, KernelRoot, v) # None
      <4>1. d = UnmapPage(m, v)
        BY <1>1, <3>1
      <4>2. Remapped(m, g, R, V, d)
        BY <4>1, UnmapOutside
      <4>3. d.ok = m.ok
        BY <4>1, UnmapPageSound
      <4>4. QED
        BY <4>2, <4>3, <1>4
    <3>2. CASE GetPhysIn(m, KernelRoot, v) = None
      <4>1. d = m
        BY <1>1, <3>2
      <4>2. QED
        BY <4>1, <1>4, RemapSelf
    <3>3. QED
      BY <3>1, <3>2
  <2>3. ASSUME NEW h, Good(d, h, R) PROVE Remapped(d, h, R, V, a)
    <3>1. Tree(d.tables, h)
      BY <2>3, Zenon DEF Good
    <3>2. RootOf(d.tables, h, KernelRoot, v)
      BY <3>1, KernelRootOf
    <3>3. May(d, KernelRoot, v, f, R) /\ Rest(d, KernelRoot, v, f, R) = R
      BY DEF May, Rest, Guards
    <3>4. Mapping(d, h, R, KernelRoot, v, f, a)
      BY <2>1, <2>2, <2>3, <3>2, <3>3, MapPageSound
    <3>5. PICK k, S :
            /\ Good(a, k, S) /\ Later(d, h, a, k, {KernelRoot}, {v})
            /\ S = (IF a.ok = TRUE THEN Rest(d, KernelRoot, v, f, R) ELSE R)
            /\ a.ok = TRUE => Leaf(a.tables, k, KernelRoot, v, f)
            /\ Covered(d, h, R) /\ Fresh(d.tables, h, KernelRoot, v) => Covered(a, k, S)
      BY <3>4 DEF Mapping
    <3>6. S = R
      BY <3>3, <3>5
    <3>7. Fresh(d.tables, h, KernelRoot, v)
      BY OutsideFresh
    <3>8. Later(d, h, a, k, {KernelRoot}, V)
      BY <3>5, LaterMore
    <3>9. QED
      BY <3>5, <3>6, <3>7, <3>8 DEF Remapped
  <2>4. QED
    BY <2>2, <2>3, <1>0, RemapTrans
<1>5. QED
  BY <1>0, <1>3, <1>4

LEMMA RemapAcpi ==
  ASSUME NEW m, NEW g, NEW R, Good(m, g, R), NEW f \in Nat, NEW n \in Nat,
         \A i \in 0 .. n - 1 : AcpiWin + i \in AcpiPages,
         NEW a, a = EnsureMapped(m, f, n)
  PROVE  Remapped(m, g, R, AcpiPages, a)
<1>0. Tree(m.tables, g)
  BY Zenon DEF Good
<1>1. PICK st : Loop("replace", [f |-> f], m, n, st, a)
  BY ReplaceLoop
<1>2. /\ st[0] = m /\ st[n] = a
      /\ \A i \in 0 .. n - 1 : st[i + 1] = ReplacePage(st[i], AcpiWin + i, f + i)
  <2>1. ASSUME NEW x, NEW y \in Nat
        PROVE  Step("replace", [f |-> f], x, y + 1) = ReplacePage(x, AcpiWin + y, f + y)
    <3>1. (y + 1) - 1 = y
      OBVIOUS
    <3>2. QED
      BY <3>1 DEF Step
  <2>2. \A i \in 0 .. n - 1 : i \in Nat
    OBVIOUS
  <2>3. QED
    BY <1>1, <2>1, <2>2 DEF Loop
<1> DEFINE P == {i \in Nat : Remapped(m, g, R, AcpiPages, st[i])}
<1>3. 0 \in P
  <2>1. Remapped(m, g, R, AcpiPages, m)
    BY RemapSelf
  <2>2. QED
    BY <2>1, <1>2
<1>4. ASSUME NEW i \in 0 .. n - 1, i \in P PROVE i + 1 \in P
  <2>1. PICK x, y, w, e : x = st[i] /\ y = st[i + 1] /\ w = AcpiWin + i /\ e = f + i
    OBVIOUS
  <2>2. Remapped(m, g, R, AcpiPages, x) /\ y = ReplacePage(x, w, e) /\ i \in Nat /\ e \in Nat
    BY <2>1, <1>2, <1>4
  <2>3. w \in AcpiPages
    BY <2>1
  <2>4. w \in Pages /\ ~InHeap(w)
    BY <2>3, AcpiArea
  <2>5. ASSUME NEW h, Good(x, h, R) PROVE Remapped(x, h, R, AcpiPages, y)
    BY <2>2, <2>3, <2>4, <2>5, ReplaceOutside
  <2>6. Remapped(m, g, R, AcpiPages, y)
    BY <2>2, <2>5, <1>0, RemapTrans
  <2>7. Remapped(m, g, R, AcpiPages, st[i + 1]) /\ i + 1 \in Nat
    BY <2>1, <2>2, <2>6
  <2>8. QED
    BY <2>7
<1> HIDE DEF P
<1>5. n \in P
  BY <1>3, <1>4, UpTo
<1>6. QED
  BY <1>2, <1>5 DEF P

----------------------------------------------------------------------------
(* What the actions of kmain and MMIO_MAP make of the memory.              *)
LEMMA SoundFields ==
  ASSUME NEW m, NEW g, NEW o, NEW ps, Sound(m, g, o, ps)
  PROVE  /\ Good(m, g, Held(ScreenOf(o), m)) /\ Tree(m.tables, g) /\ IsMemory(m)
         /\ m.ok = TRUE /\ m.fault = FALSE /\ m.ipcPage \notin ScreenOf(o)
         /\ m.heapEnd \in 0 .. HeapMax /\ m.threads \in 0 .. MaxThreads
         /\ DOMAIN ps \subseteq 1 .. m.threads - 1 /\ Start(m, g, ScreenOf(o))
<1>1. /\ Good(m, g, Held(ScreenOf(o), m)) /\ m.ipcPage \notin ScreenOf(o)
      /\ m = Clean(m) /\ m.heapEnd \in 0 .. HeapMax /\ m.threads \in 0 .. MaxThreads
      /\ W - 1 \in DOMAIN m.tables[KernelRoot] /\ DOMAIN ps \subseteq 1 .. m.threads - 1
  BY Zenon DEF Sound
<1>2. Tree(m.tables, g) /\ IsMemory(m)
  BY <1>1, Zenon DEF Good
<1>3. m.ok = TRUE /\ m.fault = FALSE
  BY <1>1, <1>2, CleanFields
<1>4. QED
  BY <1>1, <1>2, <1>3 DEF Start

\* A remapping, after which the machine is as before but for its tables.
LEMMA RemapStep ==
  ASSUME NEW m, NEW g, NEW o, NEW ps, Sound(m, g, o, ps), NEW V, V \subseteq WorkPages,
         V \cap HeapPages = {}, NEW b, Remapped(m, g, Held(ScreenOf(o), m), V, b), NEW a, a = Clean(b)
  PROVE  KernelDone(m, g, o, ps, TRUE, a, o)
<1>1. PICK R : R = Held(ScreenOf(o), m)
  OBVIOUS
<1>2. PICK h : /\ Good(b, h, R) /\ Later(m, g, b, h, {KernelRoot}, V)
               /\ Covered(m, g, R) => Covered(b, h, R)
  BY <1>1 DEF Remapped
<1>3. /\ b.ipcPage = m.ipcPage /\ b.heapEnd = m.heapEnd /\ b.threads = m.threads
      /\ Moved(m.tables, g, b.tables, h, {KernelRoot}, V)
  BY <1>2 DEF Later, SameElse
<1>4. Held(ScreenOf(o), b) = R
  BY <1>1, <1>3 DEF Held
<1>5. /\ m.ipcPage \notin ScreenOf(o) /\ b.heapEnd \in 0 .. HeapMax /\ b.threads \in 0 .. MaxThreads
      /\ DOMAIN ps \subseteq 1 .. b.threads - 1
  BY <1>3, SoundFields
<1>6. Good(b, h, Held(ScreenOf(o), b))
  BY <1>2, <1>4
<1>7. /\ Sound(a, h, o, ps) /\ Steady(m, g, a, h)
      /\ AllOwned(m, g, o, ps) /\ Covered(b, h, Held(ScreenOf(o), b)) /\ HeapFresh(b, h)
           => AllOwned(a, h, o, ps)
  BY <1>3, <1>5, <1>6, KernelStep
<1>8. ASSUME AllOwned(m, g, o, ps) PROVE AllOwned(a, h, o, ps)
  <2>1. Covered(m, g, R) /\ HeapFresh(m, g)
    BY <1>1, <1>8, Zenon DEF AllOwned
  <2>2. HeapFresh(b, h)
    BY <2>1, <1>3, HeapFreshKept
  <2>3. QED
    BY <2>1, <2>2, <1>2, <1>4, <1>7, <1>8
<1>9. QED
  BY <1>7, <1>8 DEF KernelDone

LEMMA HeapInitDone ==
  ASSUME NEW m, NEW g, NEW o, NEW ps, Sound(m, g, o, ps),
         NEW b, b = ExpandHeap(m), NEW a, a = Clean(b)
  PROVE  KernelDone(m, g, o, ps, b.ok, a, o) /\ a.threads = m.threads
<1>1. PICK R : R = Held(ScreenOf(o), m)
  OBVIOUS
<1>2. /\ Good(m, g, R) /\ m.ok = TRUE /\ m.heapEnd \in 0 .. HeapMax /\ m.threads \in 0 .. MaxThreads
      /\ DOMAIN ps \subseteq 1 .. m.threads - 1 /\ m.ipcPage \notin ScreenOf(o)
  BY <1>1, SoundFields
<1>3. Expanded(m, g, R, b)
  BY <1>2, ExpandHeapSound
<1>4. PICK h :
        /\ Good(b, h, R) /\ Moved(m.tables, g, b.tables, h, {KernelRoot}, HeapPages)
        /\ SameBut(m, b) /\ b.heapEnd \in 0 .. HeapMax
        /\ b.ok = TRUE => b.heapEnd > 0
        /\ b.ok = TRUE /\ Covered(m, g, R) /\ HeapFresh(m, g) => Covered(b, h, R) /\ HeapFresh(b, h)
  BY <1>3 DEF Expanded
<1>5. b.ipcPage = m.ipcPage /\ b.threads = m.threads /\ IsMemory(b)
  BY <1>4, Zenon DEF SameBut, Good
<1>6. Held(ScreenOf(o), b) = R
  BY <1>1, <1>5 DEF Held
<1>7. /\ Good(b, h, Held(ScreenOf(o), b)) /\ m.ipcPage \notin ScreenOf(o) /\ b.ipcPage = m.ipcPage
      /\ HeapPages \subseteq WorkPages /\ Moved(m.tables, g, b.tables, h, {KernelRoot}, HeapPages)
      /\ b.heapEnd \in 0 .. HeapMax
      /\ b.threads \in 0 .. MaxThreads /\ DOMAIN ps \subseteq 1 .. b.threads - 1
  BY <1>2, <1>4, <1>5, <1>6, WorkParts
<1>8. /\ Sound(a, h, o, ps) /\ Steady(m, g, a, h)
      /\ AllOwned(m, g, o, ps) /\ Covered(b, h, Held(ScreenOf(o), b)) /\ HeapFresh(b, h)
           => AllOwned(a, h, o, ps)
  BY <1>7, KernelStep
<1>9. ASSUME b.ok = TRUE, AllOwned(m, g, o, ps) PROVE AllOwned(a, h, o, ps)
  <2>1. Covered(m, g, R) /\ HeapFresh(m, g)
    BY <1>1, <1>9, Zenon DEF AllOwned
  <2>2. QED
    BY <2>1, <1>4, <1>6, <1>8, <1>9
<1>10. a.threads = m.threads
  BY <1>5, CleanFields, ZenonT(90)
<1>11. QED
  BY <1>8, <1>9, <1>10 DEF KernelDone

\* kmain becomes a thread before the idle thread is created.
LEMMA FirstThread ==
  ASSUME NEW m, NEW g, NEW o, NEW ps, Sound(m, g, o, ps), NoProcess(ps),
         NEW d, d = [m EXCEPT !.threads = 1]
  PROVE  /\ Sound(d, g, o, ps) /\ d.threads \in {1} /\ d.tables = m.tables
         /\ AllOwned(m, g, o, ps) => AllOwned(d, g, o, ps)
<1>0. IsMemory(m)
  BY SoundFields
<1>1. 1 \in 0 .. MaxThreads
  BY ProcessesAssumption
<1>2. /\ Good(m, g, Held(ScreenOf(o), m)) /\ m.ipcPage \notin ScreenOf(o)
      /\ m = Clean(m) /\ m.heapEnd \in 0 .. HeapMax
      /\ W - 1 \in DOMAIN m.tables[KernelRoot]
      /\ m.ipcPage # None => Window(m.tables, g)
  BY Zenon DEF Sound
<1>3. /\ IsMemory(d) /\ d.ram = m.ram /\ d.taken = m.taken /\ d.used = m.used /\ d.tables = m.tables
      /\ d.ipcPage = m.ipcPage /\ d.heapEnd = m.heapEnd /\ d.threads = 1
  BY <1>0 DEF IsMemory
<1>4. d = Clean(d)
  <2>1. /\ m.got = None /\ m.at = None /\ m.root = None /\ m.ok = TRUE /\ m.fault = FALSE
    BY <1>0, <1>2 DEF IsMemory, Clean
  <2>2. QED
    BY <2>1, <1>0 DEF IsMemory, Clean
<1>5. Held(ScreenOf(o), d) = Held(ScreenOf(o), m)
  BY <1>3 DEF Held
<1>6. Good(d, g, Held(ScreenOf(o), d))
  BY <1>2, <1>3, <1>5, GoodSame
<1>7. DOMAIN ps \subseteq 1 .. d.threads - 1
  BY DEF NoProcess
<1>8. \A t \in DOMAIN ps : ProcOK(d.tables, g, d.ipcPage, ps[t].root, ps[t].name)
  BY DEF NoProcess
<1>9. Sound(d, g, o, ps)
  BY <1>1, <1>2, <1>3, <1>4, <1>6, <1>7, <1>8 DEF Sound
<1>10. AllOwned(m, g, o, ps) => AllOwned(d, g, o, ps)
  BY <1>3, <1>5 DEF AllOwned, Covered, HeapFresh
<1>11. QED
  BY <1>1, <1>3, <1>9, <1>10

\* The idle thread, when kmain is the only one.
LEMMA IdleThread ==
  ASSUME NEW d, NEW g, NEW o, NEW ps, Sound(d, g, o, ps), NoProcess(ps), OneThread(d),
         NEW b, Threaded(d, g, Held(ScreenOf(o), d), b), NEW a, a = Clean(b)
  PROVE  KernelDone(d, g, o, ps, b.ok, a, o) /\ a.threads >= 1
<1>2. PICK R : R = Held(ScreenOf(o), d)
  OBVIOUS
<1>3. d.ipcPage \notin ScreenOf(o)
  BY SoundFields
<1>4. Threaded(d, g, R, b)
  BY <1>2
<1>5. PICK h :
        /\ Good(b, h, R) /\ Moved(d.tables, g, b.tables, h, {KernelRoot}, HeapPages)
        /\ b.ram = d.ram /\ b.ipcPage = d.ipcPage /\ b.root = d.root /\ b.fault = d.fault
        /\ b.heapEnd \in 0 .. HeapMax
        /\ b.ok = FALSE => b.threads = d.threads
        /\ b.ok = TRUE  => b.threads = d.threads + 1 /\ d.threads # MaxThreads
        /\ b.ok = TRUE /\ Covered(d, g, R) /\ HeapFresh(d, g) => Covered(b, h, R) /\ HeapFresh(b, h)
  BY <1>4, Zenon DEF Threaded
<1>6. (b.ok = TRUE \/ b.ok = FALSE) /\ IsMemory(b)
  <2>1. IsMemory(b)
    BY <1>5, Zenon DEF Good
  <2>2. b.ok \in BOOLEAN
    BY <2>1, Zenon DEF IsMemory
  <2>3. QED
    BY <2>1, <2>2
<1>7. b.threads >= 1 /\ b.threads \in 0 .. MaxThreads /\ DOMAIN ps \subseteq 1 .. b.threads - 1
  <2>1. PICK n \in Nat : n = 1
    OBVIOUS
  <2>2. d.threads = n
    BY <2>1 DEF OneThread
  <2>3. b.threads = n \/ b.threads = n + 1
    BY <1>5, <1>6, <2>2
  <2>4. b.threads = 1 \/ b.threads = 2
    BY <2>1, <2>3
  <2>5. QED
    BY <2>4, ProcessesAssumption DEF NoProcess
<1>8. Held(ScreenOf(o), b) = R
  BY <1>2, <1>5 DEF Held
<1>9. /\ Good(b, h, Held(ScreenOf(o), b)) /\ d.ipcPage \notin ScreenOf(o) /\ b.ipcPage = d.ipcPage
      /\ HeapPages \subseteq WorkPages /\ Moved(d.tables, g, b.tables, h, {KernelRoot}, HeapPages)
      /\ b.heapEnd \in 0 .. HeapMax
      /\ b.threads \in 0 .. MaxThreads /\ DOMAIN ps \subseteq 1 .. b.threads - 1
  BY <1>3, <1>5, <1>7, <1>8, WorkParts
<1>10. /\ Sound(a, h, o, ps) /\ Steady(d, g, a, h)
       /\ AllOwned(d, g, o, ps) /\ Covered(b, h, Held(ScreenOf(o), b)) /\ HeapFresh(b, h)
            => AllOwned(a, h, o, ps)
  BY <1>9, KernelStep, ZenonT(120)
<1>11. ASSUME b.ok = TRUE, AllOwned(d, g, o, ps) PROVE AllOwned(a, h, o, ps)
  <2>1. Covered(d, g, R) /\ HeapFresh(d, g)
    BY <1>2, <1>11, Zenon DEF AllOwned
  <2>2. QED
    BY <2>1, <1>5, <1>8, <1>10, <1>11
<1>13. a.threads >= 1
  <2>1. a.threads = b.threads
    BY <1>6, CleanFields
  <2>2. QED
    BY <2>1, <1>7
<1>14. QED
  BY <1>10, <1>11, <1>13 DEF KernelDone

LEMMA ThreadInitDone ==
  ASSUME NEW m, NEW g, NEW o, NEW ps, Sound(m, g, o, ps), NoProcess(ps), NEW grow \in BOOLEAN,
         NEW d, d = [m EXCEPT !.threads = 1], NEW b, b = CreateThread(d, grow), NEW a, a = Clean(b)
  PROVE  KernelDone(m, g, o, ps, b.ok, a, o) /\ a.threads >= 1
<1>1. /\ Sound(d, g, o, ps) /\ OneThread(d) /\ d.tables = m.tables
      /\ AllOwned(m, g, o, ps) => AllOwned(d, g, o, ps)
  BY FirstThread DEF OneThread
<1>2. PICK x : x = d
  OBVIOUS
<1>3. Sound(x, g, o, ps) /\ OneThread(x) /\ b = CreateThread(x, grow)
  BY <1>1, <1>2
<1>31. PICK R : R = Held(ScreenOf(o), x)
  OBVIOUS
<1>32. /\ Good(x, g, R) /\ x.ok = TRUE /\ x.heapEnd \in 0 .. HeapMax /\ x.threads \in 0 .. MaxThreads
  BY <1>3, <1>31, SoundFields
<1>33. Threaded(x, g, R, b)
  BY <1>3, <1>32, CreateThreadSound
<1>34. Threaded(x, g, Held(ScreenOf(o), x), b)
  BY <1>31, <1>33
<1>4. KernelDone(x, g, o, ps, b.ok, a, o) /\ a.threads >= 1
  BY <1>3, <1>34, IdleThread
<1>5. PICK h : /\ Sound(a, h, o, ps) /\ Steady(x, g, a, h)
               /\ b.ok = TRUE /\ AllOwned(x, g, o, ps) => AllOwned(a, h, o, ps)
  BY <1>4 DEF KernelDone
<1>6. Steady(m, g, a, h)
  BY <1>1, <1>2, <1>5 DEF Steady
<1>7. b.ok = TRUE /\ AllOwned(m, g, o, ps) => AllOwned(a, h, o, ps)
  BY <1>1, <1>2, <1>5
<1>8. QED
  BY <1>4, <1>5, <1>6, <1>7 DEF KernelDone

----------------------------------------------------------------------------
(* The off-screen buffer.                                                  *)
LEMMA ScreenArea ==
  /\ Offscreen \in Nat /\ OffPages \in Nat \ {0}
  /\ \A v \in ScreenPages : v \in Pages /\ ~InHeap(v)
  /\ ScreenPages \subseteq WorkPages /\ ScreenPages \cap HeapPages = {}
<1>1. Offscreen \in Nat /\ OffPages \in Nat \ {0}
  BY Bases, ProcessesAssumption
<1>2. Offscreen + OffPages <= Top
  BY LayoutAssumption DEF Top
<1>3. Top \in Nat
  BY Bases
<1>4. ASSUME NEW v \in ScreenPages
      PROVE  v \in WorkPages /\ v \in Pages /\ ~InHeap(v) /\ v \notin HeapPages
  <2>1. v \in Nat /\ Offscreen <= v /\ v < Top
    BY <1>1, <1>2, <1>3 DEF ScreenPages, Run
  <2>2. QED
    BY <2>1, TopPages
<1>5. QED
  BY <1>1, <1>4

LEMMA ScreenIs ==
  ASSUME NEW f, f # None
  PROVE  ScreenOf(f) = Run(f, OffPages)
BY DEF ScreenOf, Run

\* What the frames of a buffer are when they are taken out of the free ones.
LEMMA ScreenApart ==
  ASSUME NEW m, NEW g, NEW R, Good(m, g, R), NEW S, S \subseteq Free(m)
  PROVE  m.ipcPage \notin S /\ S \cap R = {}
<1>1. None \notin Free(m)
  BY FramedFacts DEF Good
<1>2. S \cap R = {}
  BY DEF Good, AsideOK, Plain, Free
<1>3. m.ipcPage = None \/ m.ipcPage \in R
  BY DEF Good, AsideOK
<1>4. QED
  BY <1>1, <1>2, <1>3

\* The kernel has changed pages V of its own outside the heap, and the frames
\* of its buffer.
LEMMA BufferStep ==
  ASSUME NEW m, NEW g, NEW o, NEW ps, Sound(m, g, o, ps), NEW V, V \subseteq WorkPages,
         V \cap HeapPages = {}, NEW b, NEW h, NEW o2, Good(b, h, Held(ScreenOf(o2), b)),
         SameElse(m, b), Moved(m.tables, g, b.tables, h, {KernelRoot}, V),
         m.ipcPage \notin ScreenOf(o2),
         Covered(m, g, Held(ScreenOf(o), m)) => Covered(b, h, Held(ScreenOf(o2), b)),
         NEW a, a = Clean(b)
  PROVE  KernelDone(m, g, o, ps, TRUE, a, o2)
<1>1. b.ipcPage = m.ipcPage /\ b.heapEnd = m.heapEnd /\ b.threads = m.threads
  BY DEF SameElse
<1>2. /\ b.heapEnd \in 0 .. HeapMax /\ b.threads \in 0 .. MaxThreads
      /\ DOMAIN ps \subseteq 1 .. b.threads - 1
  BY <1>1, SoundFields
<1>3. /\ Sound(a, h, o2, ps) /\ Steady(m, g, a, h)
      /\ AllOwned(m, g, o, ps) /\ Covered(b, h, Held(ScreenOf(o2), b)) /\ HeapFresh(b, h)
           => AllOwned(a, h, o2, ps)
  BY <1>1, <1>2, KernelStep, ZenonT(120)
<1>4. ASSUME AllOwned(m, g, o, ps) PROVE AllOwned(a, h, o2, ps)
  <2>1. Covered(m, g, Held(ScreenOf(o), m)) /\ HeapFresh(m, g)
    BY <1>4, Zenon DEF AllOwned
  <2>2. HeapFresh(b, h)
    BY <2>1, <1>1, HeapFreshKept
  <2>3. QED
    BY <2>1, <2>2, <1>3, <1>4
<1>5. QED
  BY <1>3, <1>4 DEF KernelDone

LEMMA BufferSound ==
  ASSUME NEW m, NEW g, NEW R, Good(m, g, R), NEW d, d = AllocFrames(m, OffPages),
         NEW f, f = d.got, f # None, NEW S, S = Run(f, OffPages),
         NEW c, c = MapPagesIn(d, KernelRoot, Offscreen, f, OffPages)
  PROVE  f \in Nat /\ S \subseteq Free(m) /\ Buffered(m, g, R, S, c)
<1>1. IsMemory(m) /\ Framed(m)
  BY Zenon DEF Good
<1>2. /\ IsMemory(d) /\ Framed(d) /\ SameElse(m, d) /\ d.tables = m.tables
      /\ \/ d.got = None /\ d.taken = m.taken
         \/ /\ d.got \in Nat /\ d.got # None /\ Run(d.got, OffPages) \subseteq Free(m)
            /\ d.taken = m.taken \cup Run(d.got, OffPages)
  <2>1. OffPages \in Nat \ {0}
    BY ScreenArea
  <2>2. QED
    BY <1>1, <2>1, AllocFramesSound
<1>3. f \in Nat /\ S \subseteq Free(m) /\ d.taken = m.taken \cup S
  BY <1>2
<1>4. /\ Good(d, g, R \cup S)
      /\ Covered(m, g, R) => Covered(d, g, R \cup S)
  BY <1>2, <1>3, SetAside
<1>5. PICK n, v, Q : n = OffPages /\ v = Offscreen /\ Q = R \cup S
  OBVIOUS
<1>6. /\ Good(d, g, Q) /\ v \in Nat /\ f \in Nat /\ n \in Nat
      /\ \A w \in Run(v, n) : w \in Pages /\ ~InHeap(w)
      /\ c = MapPagesIn(d, KernelRoot, v, f, n)
  BY <1>3, <1>4, <1>5, ScreenArea DEF ScreenPages
<1>7. Remapped(d, g, Q, Run(v, n), c)
  BY <1>6, MapOutside
<1>8. PICK h : /\ Good(c, h, Q) /\ Later(d, g, c, h, {KernelRoot}, Run(v, n))
               /\ Covered(d, g, Q) => Covered(c, h, Q)
  BY <1>7 DEF Remapped
<1>9. Later(m, g, c, h, {KernelRoot}, ScreenPages)
  BY <1>2, <1>5, <1>8 DEF Later, SameElse, ScreenPages
<1>10. QED
  BY <1>3, <1>4, <1>5, <1>8, <1>9 DEF Buffered

LEMMA BeginDone ==
  ASSUME NEW m, NEW g, NEW ps, Sound(m, g, None, ps),
         NEW f, f = AllocFrames(m, OffPages).got, f # None,
         NEW c, c = MapPagesIn(AllocFrames(m, OffPages), KernelRoot, Offscreen, f, OffPages),
         NEW e, e = FreeFrames(c, f, OffPages), NEW a, NEW z, a = Clean(c), z = Clean(e)
  PROVE  /\ f \in Nat /\ KernelDone(m, g, None, ps, TRUE, a, f)
         /\ KernelDone(m, g, None, ps, TRUE, z, None)
         /\ a.threads = m.threads /\ z.threads = m.threads
<1>1. PICK S, R : S = Run(f, OffPages) /\ R = Held(ScreenOf(None), m)
  OBVIOUS
<1>2. Good(m, g, R) /\ R = {m.ipcPage} \ {None}
  BY <1>1, SoundFields DEF Held, ScreenOf
<1>3. f \in Nat /\ S \subseteq Free(m) /\ Buffered(m, g, R, S, c)
  BY <1>1, <1>2, BufferSound
<1>4. PICK h : /\ Good(c, h, R \cup S) /\ Later(m, g, c, h, {KernelRoot}, ScreenPages)
               /\ Covered(m, g, R) => Covered(c, h, R \cup S)
  BY <1>3 DEF Buffered
<1>5. m.ipcPage \notin S /\ S \cap R = {}
  BY <1>2, <1>3, ScreenApart
<1>6. SameElse(m, c) /\ Moved(m.tables, g, c.tables, h, {KernelRoot}, ScreenPages)
  BY <1>4 DEF Later
<1>7. ScreenOf(f) = S /\ Held(ScreenOf(f), c) = R \cup S /\ c.ipcPage = m.ipcPage
  BY <1>1, <1>2, <1>6, ScreenIs DEF Held, SameElse
<1>8. KernelDone(m, g, None, ps, TRUE, a, f)
  <2>1. /\ ScreenPages \subseteq WorkPages /\ ScreenPages \cap HeapPages = {}
        /\ Good(c, h, Held(ScreenOf(f), c)) /\ m.ipcPage \notin ScreenOf(f)
        /\ Covered(m, g, Held(ScreenOf(None), m)) => Covered(c, h, Held(ScreenOf(f), c))
    BY <1>1, <1>4, <1>5, <1>7, ScreenArea
  <2>2. QED
    BY <2>1, <1>6, BufferStep, ZenonT(120)
<1>9. /\ Good(e, h, R) /\ SameElse(c, e) /\ e.tables = c.tables
      /\ Covered(c, h, R \cup S) => Covered(e, h, R)
  <2>1. PICK n, Q : n = OffPages /\ Q = R \cup S
    OBVIOUS
  <2>2. /\ Good(c, h, Q) /\ f \in Nat /\ n \in Nat /\ Run(f, n) \subseteq Q
        /\ c.ipcPage \notin Run(f, n) /\ e = FreeFrames(c, f, n) /\ Q \ Run(f, n) = R
    BY <2>1, <1>1, <1>3, <1>4, <1>5, <1>7, ScreenArea
  <2>3. /\ Good(e, h, Q \ Run(f, n)) /\ SameElse(c, e) /\ e.tables = c.tables
        /\ Covered(c, h, Q) => Covered(e, h, Q \ Run(f, n))
    BY <2>2, FreeAside
  <2>4. QED
    BY <2>1, <2>2, <2>3
<1>10. SameElse(m, e) /\ Moved(m.tables, g, e.tables, h, {KernelRoot}, ScreenPages)
  BY <1>6, <1>9 DEF SameElse
<1>11. KernelDone(m, g, None, ps, TRUE, z, None)
  <2>1. Held(ScreenOf(None), e) = R /\ m.ipcPage \notin ScreenOf(None)
    BY <1>2, <1>10 DEF Held, SameElse, ScreenOf
  <2>2. /\ ScreenPages \subseteq WorkPages /\ ScreenPages \cap HeapPages = {}
        /\ Good(e, h, Held(ScreenOf(None), e)) /\ m.ipcPage \notin ScreenOf(None)
        /\ Covered(m, g, Held(ScreenOf(None), m)) => Covered(e, h, Held(ScreenOf(None), e))
    BY <1>1, <1>4, <1>9, <2>1, ScreenArea
  <2>3. QED
    BY <2>2, <1>10, BufferStep, ZenonT(120)
<1>12. a.threads = m.threads /\ z.threads = m.threads
  <2>1. IsMemory(c) /\ IsMemory(e)
    BY <1>4, <1>9, Zenon DEF Good
  <2>2. a.threads = c.threads /\ z.threads = e.threads
    BY <2>1, CleanFields, ZenonT(90)
  <2>3. QED
    BY <2>2, <1>6, <1>10 DEF SameElse
<1>13. QED
  BY <1>3, <1>8, <1>11, <1>12

LEMMA IdleFields ==
  ASSUME NEW m, IsMemory(m)
  PROVE  Idle(m) <=> /\ m.got = None /\ m.at = None /\ m.root = None
                     /\ m.ok = TRUE /\ m.fault = FALSE
<1>1. ASSUME Idle(m)
      PROVE  /\ m.got = None /\ m.at = None /\ m.root = None /\ m.ok = TRUE /\ m.fault = FALSE
  BY <1>1 DEF Idle, IsMemory, Clean
<1>2. ASSUME m.got = None, m.at = None, m.root = None, m.ok = TRUE, m.fault = FALSE
      PROVE  Idle(m)
  BY <1>2 DEF Idle, IsMemory, Clean
<1>3. QED
  BY <1>1, <1>2

LEMMA UnmapIdle ==
  ASSUME NEW m, Idle(m), NEW v, NEW a, a = UnmapPage(m, v)
  PROVE  Idle(a)
<1>1. IsMemory(m)
  BY DEF Idle
<1>2. /\ m.got = None /\ m.at = None /\ m.root = None /\ m.ok = TRUE /\ m.fault = FALSE
  BY <1>1, IdleFields
<1>3. a = m \/ \E T : a = [m EXCEPT !.tables = T]
  BY DEF UnmapPage, UnmapIn
<1>4. ASSUME NEW T, a = [m EXCEPT !.tables = T] PROVE Idle(a)
  <2>1. IsMemory(a)
    BY <1>1, <1>4 DEF IsMemory
  <2>2. /\ a.got = None /\ a.at = None /\ a.root = None /\ a.ok = TRUE /\ a.fault = FALSE
    BY <1>1, <1>2, <1>4 DEF IsMemory
  <2>3. QED
    BY <2>1, <2>2, IdleFields
<1>5. QED
  BY <1>3, <1>4

LEMMA UnmapAllIdle ==
  ASSUME NEW m, Idle(m), NEW v \in Nat, NEW n \in Nat, NEW a, a = UnmapPages(m, v, n)
  PROVE  Idle(a)
<1>1. PICK st : Loop("unmap", [v |-> v], m, n, st, a)
  BY UnmapLoop
<1>2. /\ st[0] = m /\ st[n] = a
      /\ \A i \in 0 .. n - 1 : st[i + 1] = UnmapPage(st[i], v + i)
  <2>1. ASSUME NEW x, NEW y \in Nat PROVE Step("unmap", [v |-> v], x, y + 1) = UnmapPage(x, v + y)
    <3>1. (y + 1) - 1 = y
      OBVIOUS
    <3>2. QED
      BY <3>1 DEF Step
  <2>2. \A i \in 0 .. n - 1 : i \in Nat
    OBVIOUS
  <2>3. QED
    BY <1>1, <2>1, <2>2 DEF Loop
<1> DEFINE P == {i \in Nat : Idle(st[i])}
<1>3. 0 \in P
  BY <1>2
<1>4. ASSUME NEW i \in 0 .. n - 1, i \in P PROVE i + 1 \in P
  <2>1. PICK x, y, w : x = st[i] /\ y = st[i + 1] /\ w = v + i
    OBVIOUS
  <2>2. Idle(x) /\ y = UnmapPage(x, w) /\ i \in Nat
    BY <2>1, <1>2, <1>4
  <2>3. Idle(y)
    BY <2>2, UnmapIdle
  <2>4. Idle(st[i + 1]) /\ i + 1 \in Nat
    BY <2>1, <2>2, <2>3
  <2>5. QED
    BY <2>4
<1> HIDE DEF P
<1>5. n \in P
  BY <1>3, <1>4, UpTo
<1>6. QED
  BY <1>2, <1>5 DEF P

LEMMA FreeIdle ==
  ASSUME NEW m, Idle(m), NEW f, NEW n, NEW a, a = FreeFrames(m, f, n)
  PROVE  Idle(a)
<1>1. IsMemory(m)
  BY DEF Idle
<1>2. /\ m.got = None /\ m.at = None /\ m.root = None /\ m.ok = TRUE /\ m.fault = FALSE
  BY <1>1, IdleFields
<1>3. \E X, y : a = [m EXCEPT !.taken = X, !.used = y]
  BY DEF FreeFrames
<1>4. PICK X, y : a = [m EXCEPT !.taken = X, !.used = y]
  BY <1>3
<1>5. IsMemory(a)
  BY <1>1, <1>4 DEF IsMemory
<1>6. /\ a.got = None /\ a.at = None /\ a.root = None /\ a.ok = TRUE /\ a.fault = FALSE
  BY <1>1, <1>2, <1>4 DEF IsMemory
<1>7. QED
  BY <1>5, <1>6, IdleFields

\* bootanim::finish, when there is a buffer.
LEMMA FinishDone ==
  ASSUME NEW m, NEW g, NEW o \in Nat, NEW ps, Sound(m, g, o, ps), o # None,
         NEW c, c = UnmapPages(m, Offscreen, OffPages), NEW a, a = FreeFrames(c, o, OffPages)
  PROVE  KernelDone(m, g, o, ps, TRUE, a, None) /\ KeepsThreads(m, a)
<1>1. PICK S, R : S = Run(o, OffPages) /\ R = Held(ScreenOf(o), m)
  OBVIOUS
<1>2. ScreenOf(o) = S
  BY <1>1, ScreenIs
<1>3. Good(m, g, R) /\ m.ipcPage \notin S /\ R = S \cup ({m.ipcPage} \ {None})
  BY <1>1, <1>2, SoundFields DEF Held
<1>4. PICK h : /\ Good(c, h, R) /\ Later(m, g, c, h, {KernelRoot}, ScreenPages)
               /\ Covered(m, g, R) => Covered(c, h, R)
  <2>1. PICK n, v, V : n = OffPages /\ v = Offscreen /\ V = ScreenPages
    OBVIOUS
  <2>2. /\ v \in Nat /\ n \in Nat /\ V = Run(v, n) /\ c = UnmapPages(m, v, n)
        /\ \A w \in V : w \in Pages /\ ~InHeap(w)
    BY <2>1, ScreenArea DEF ScreenPages
  <2>3. Remapped(m, g, R, V, c)
    BY <1>3, <2>2, UnmapAll
  <2>4. QED
    BY <2>1, <2>3 DEF Remapped
<1>5. SameElse(m, c) /\ Moved(m.tables, g, c.tables, h, {KernelRoot}, ScreenPages)
  BY <1>4 DEF Later
<1>6. /\ Good(a, h, R \ S) /\ SameElse(c, a) /\ a.tables = c.tables /\ a.ok = c.ok /\ a.at = c.at
      /\ Covered(c, h, R) => Covered(a, h, R \ S)
  <2>1. PICK n : n = OffPages
    OBVIOUS
  <2>2. /\ Good(c, h, R) /\ n \in Nat /\ Run(o, n) \subseteq R
        /\ c.ipcPage \notin Run(o, n) /\ a = FreeFrames(c, o, n)
    BY <2>1, <1>1, <1>3, <1>4, <1>5, ScreenArea DEF SameElse
  <2>3. /\ Good(a, h, R \ Run(o, n)) /\ SameElse(c, a) /\ a.tables = c.tables /\ a.ok = c.ok
        /\ a.at = c.at
        /\ Covered(c, h, R) => Covered(a, h, R \ Run(o, n))
    BY <2>2, FreeAside
  <2>4. QED
    BY <2>1, <2>3, <1>1
<1>7. SameElse(m, a) /\ Moved(m.tables, g, a.tables, h, {KernelRoot}, ScreenPages)
  BY <1>5, <1>6 DEF SameElse
<1>8. PICK b : b = a
  OBVIOUS
<1>9. a = Clean(b) /\ a.threads = m.threads
  <2>1. Idle(m)
    BY Zenon DEF Idle, Sound, Good
  <2>2. PICK n, v : n = OffPages /\ v = Offscreen
    OBVIOUS
  <2>3. v \in Nat /\ n \in Nat /\ c = UnmapPages(m, v, n)
    BY <2>2, ScreenArea
  <2>4. Idle(c)
    BY <2>1, <2>3, UnmapAllIdle
  <2>5. Idle(a)
    BY <2>4, FreeIdle
  <2>6. QED
    BY <2>5, <1>7, <1>8 DEF Idle, SameElse
<1>10. Held(ScreenOf(None), b) = R \ S /\ m.ipcPage \notin ScreenOf(None)
  BY <1>3, <1>7, <1>8 DEF Held, SameElse, ScreenOf
<1>11. /\ ScreenPages \subseteq WorkPages /\ ScreenPages \cap HeapPages = {}
       /\ Good(b, h, Held(ScreenOf(None), b)) /\ m.ipcPage \notin ScreenOf(None)
       /\ SameElse(m, b) /\ Moved(m.tables, g, b.tables, h, {KernelRoot}, ScreenPages)
       /\ Covered(m, g, Held(ScreenOf(o), m)) => Covered(b, h, Held(ScreenOf(None), b))
  BY <1>1, <1>4, <1>6, <1>7, <1>8, <1>10, ScreenArea
<1>12. KernelDone(m, g, o, ps, TRUE, a, None)
  BY <1>9, <1>11, BufferStep, ZenonT(120)
<1>13. QED
  BY <1>9, <1>12 DEF KeepsThreads

LEMMA AcpiDone ==
  ASSUME NEW m, NEW g, NEW o, NEW ps, Sound(m, g, o, ps), NEW f \in AcpiFrames, NEW n \in 1 .. 2,
         NEW b, b = EnsureMapped(m, f, n), NEW a, a = Clean(b)
  PROVE  KernelDone(m, g, o, ps, TRUE, a, o) /\ a.threads = m.threads
<1>1. PICK R : R = Held(ScreenOf(o), m)
  OBVIOUS
<1>2. Good(m, g, R) /\ f \in Nat /\ n \in Nat
  <2>1. Good(m, g, R)
    BY <1>1, SoundFields
  <2>2. f \in Nat
    BY ProcessesAssumption
  <2>3. QED
    BY <2>1, <2>2
<1>3. \A i \in 0 .. n - 1 : AcpiWin + i \in AcpiPages
  <2>1. AcpiWin \in Nat /\ AcpiWin + 0 = AcpiWin
    BY Bases
  <2>2. ASSUME NEW i \in 0 .. n - 1 PROVE i = 0 \/ i = 1
    OBVIOUS
  <2>3. QED
    BY <2>1, <2>2 DEF AcpiPages
<1>4. Remapped(m, g, R, AcpiPages, b)
  BY <1>2, <1>3, RemapAcpi
<1>5. AcpiPages \subseteq WorkPages /\ AcpiPages \cap HeapPages = {}
  BY AcpiArea
<1>6. KernelDone(m, g, o, ps, TRUE, a, o)
  BY <1>1, <1>4, <1>5, RemapStep
<1>7. b.threads = m.threads /\ IsMemory(b)
  BY <1>4, Zenon DEF Remapped, Later, SameElse, Good
<1>8. QED
  BY <1>6, <1>7, CleanFields, ZenonT(90)

\* MMIO_MAP maps pages of the user's half in the kernel's tables.
LEMMA MmioDone ==
  ASSUME NEW m, NEW g, NEW o, NEW ps, Sound(m, g, o, ps), NEW v \in Nat, NEW n \in Nat,
         v + n <= UserTop, NEW b, b = MapPagesIn(m, KernelRoot, v, Device, n), NEW a, a = Clean(b)
  PROVE  KernelDone(m, g, o, ps, TRUE, a, o) /\ KeepsThreads(m, a)
<1>1. PICK R, V : R = Held(ScreenOf(o), m) /\ V = Run(v, n)
  OBVIOUS
<1>2. Good(m, g, R) /\ Device \in Nat
  BY <1>1, SoundFields, ProcessesAssumption
<1>3. ASSUME NEW w \in V
      PROVE  w \in WorkPages /\ w \in Pages /\ ~InHeap(w) /\ w \notin HeapPages
  <2>1. w \in Nat /\ w < UserTop /\ w \in 0 .. UserTop - 1
    <3>1. PICK top \in Nat : top = UserTop
      BY Bases
    <3>2. w \in v .. v + n - 1 /\ v + n <= top
      BY <1>1, <3>1 DEF Run
    <3>3. w \in Nat /\ w < top /\ w \in 0 .. top - 1
      BY <3>2
    <3>4. QED
      BY <3>1, <3>3
  <2>2. w \in Pages
    BY <2>1, UserPage
  <2>3. ~InHeap(w)
    BY <2>1, KernelPage
  <2>4. QED
    BY <2>1, <2>2, <2>3 DEF WorkPages, HeapPages
<1>4. \A w \in Run(v, n) : w \in Pages /\ ~InHeap(w)
  BY <1>1, <1>3
<1>5. Remapped(m, g, R, V, b)
  BY <1>1, <1>2, <1>4, MapOutside
<1>6. V \subseteq WorkPages /\ V \cap HeapPages = {}
  BY <1>3
<1>7. KernelDone(m, g, o, ps, TRUE, a, o)
  BY <1>1, <1>5, <1>6, RemapStep
<1>8. b.threads = m.threads /\ IsMemory(b)
  BY <1>5, Zenon DEF Remapped, Later, SameElse, Good
<1>9. QED
  BY <1>7, <1>8, CleanFields, ZenonT(90) DEF KeepsThreads

LEMMA ServiceDone ==
  ASSUME NEW m, NEW g, NEW o, NEW ps, Sound(m, g, o, ps), m.threads >= 1,
         NEW grow \in BOOLEAN, NEW i \in DOMAIN Services,
         NEW b, b = CreateUserProcess(m, grow), NEW a, a = Clean(b),
         NEW qs, qs = With(ps, b, m.threads, Services[i])
  PROVE  CreationDone(m, g, o, ps, b, a, qs)
<1>1. Creation(m, g, ScreenOf(o), b, ServicePages)
  BY SoundFields, CreateUserProcessSound
<1>2. Fills(ServicePages, Services[i])
  BY ServiceFills
<1>3. QED
  BY <1>1, <1>2, CreationStep

\* Processes, like the kernel, see what is mapped into the window.
LEMMA CallerSees ==
  ASSUME NEW m, NEW g, NEW o, NEW ps, Sound(m, g, o, ps), NEW t \in DOMAIN ps
  PROVE  Sees(m.tables, g, ps[t].root)
<1>1. ProcOK(m.tables, g, m.ipcPage, ps[t].root, ps[t].name) /\ (m.ipcPage # None => Window(m.tables, g))
  BY Zenon DEF Sound
<1>2. QED
  BY <1>1 DEF ProcOK, Complete, Target, Sees

LEMMA SpawnCreates ==
  ASSUME NEW m, NEW g, NEW R, Start(m, g, R), NEW r, Sees(m.tables, g, r),
         NEW p \in DOMAIN Programs, NEW l, l = Programs[p], NEW grow \in BOOLEAN,
         NEW b, b = CreateElfProcess(m, r, l, grow)
  PROVE  Creation(m, g, R, b, ProgramPages(l)) /\ (b.ok = TRUE => Fills(ProgramPages(l), p))
<1>1. /\ Creation(m, g, R, b, ProgramPages(l))
      /\ b.ok = TRUE => \A i \in DOMAIN l : l[i].valid = TRUE
  BY CreateElfProcessSound
<1>2. QED
  BY <1>1, ProgramFills

LEMMA SpawnDone ==
  ASSUME NEW m, NEW g, NEW o, NEW ps, Sound(m, g, o, ps), m.threads >= 1, NEW t \in DOMAIN ps,
         NEW grow \in BOOLEAN, NEW p \in DOMAIN Programs, NEW r, r = ps[t].root,
         NEW l, l = Programs[p], NEW b, b = CreateElfProcess(m, r, l, grow), NEW a, a = Clean(b),
         NEW qs, qs = With(ps, b, m.threads, p)
  PROVE  CreationDone(m, g, o, ps, b, a, qs)
<1>1. Sees(m.tables, g, r)
  BY CallerSees
<1>2. PICK R : R = ScreenOf(o)
  OBVIOUS
<1>3. Start(m, g, R)
  BY <1>2, SoundFields
<1>4. Creation(m, g, R, b, ProgramPages(l)) /\ (b.ok = TRUE => Fills(ProgramPages(l), p))
  BY <1>1, <1>3, SpawnCreates
<1>5. QED
  BY <1>2, <1>4, CreationStep

\* A process died or was restarted.
LEMMA SamePlaces ==
  ASSUME NEW m, NEW g, NEW o, NEW ps, Sound(m, g, o, ps), NEW qs, DOMAIN qs = DOMAIN ps,
         \A t \in DOMAIN ps : qs[t].root = ps[t].root /\ qs[t].name = ps[t].name
  PROVE  Sound(m, g, o, qs) /\ (AllOwned(m, g, o, ps) => AllOwned(m, g, o, qs))
<1>1. \A t \in DOMAIN qs : ProcOK(m.tables, g, m.ipcPage, qs[t].root, qs[t].name)
  BY Zenon DEF Sound
<1>2. Sound(m, g, o, qs)
  BY <1>1, Zenon DEF Sound
<1>3. ASSUME AllOwned(m, g, o, ps) PROVE AllOwned(m, g, o, qs)
  BY <1>3, Zenon DEF AllOwned
<1>4. QED
  BY <1>2, <1>3

----------------------------------------------------------------------------
(* The initial state.                                                      *)
LEMMA ProductNat == ASSUME NEW a \in Nat, NEW b \in Nat PROVE a * b \in Nat
OBVIOUS

LEMMA DirectoryFilled ==
  ASSUME NEW n \in Nat
  PROVE  DOMAIN FillPd(n) = Idx /\ \A k \in Idx : \E x \in Nat : FillPd(n)[k] = HugeEntry(x)
<1>1. ASSUME NEW k \in Idx PROVE n + k * W \in Nat /\ FillPd(n)[k] = HugeEntry(n + k * W)
  <2>1. k \in Nat /\ W \in Nat
    BY WBound DEF Idx
  <2>2. PICK x : x = k * W
    OBVIOUS
  <2>3. x \in Nat
    BY <2>1, <2>2, ProductNat
  <2>4. QED
    BY <2>2, <2>3 DEF FillPd
<1>2. DOMAIN FillPd(n) = Idx
  BY DEF FillPd
<1>3. QED
  BY <1>1, <1>2

LEMMA BootTablesShape == BootShape(BootTables)
<1>1. BootFrame \in Nat /\ W \in Nat /\ W >= 8
  BY VmmAssumption
<1>2. DOMAIN BootTables = BootFrames
  BY DEF BootTables, BootFrames
<1>3. BootTables[BootFrame] = [i \in {0, W - 1} |-> Entry(IF i = 0 THEN PdptLow ELSE PdptHigh)]
  <2>1. PICK f \in BootFrames :
          f = KernelRoot /\ f # PdptLow /\ f # PdptHigh /\ f \notin PdLow(0) .. PdLow(3)
    BY <1>1 DEF BootFrames, KernelRoot, PdptLow, PdptHigh, PdLow
  <2>2. BootTables[f] = [i \in {0, W - 1} |-> Entry(IF i = 0 THEN PdptLow ELSE PdptHigh)]
    BY <2>1 DEF BootTables, BootFrames
  <2>3. QED
    BY <2>1, <2>2 DEF KernelRoot
<1>4. BootTables[BootFrame + 1] = [j \in 0 .. 3 |-> Entry(PdLow(j))]
  <2>1. PICK f \in BootFrames :
          f = PdptLow /\ f # KernelRoot /\ f # PdptHigh /\ f \notin PdLow(0) .. PdLow(3)
    BY <1>1 DEF BootFrames, KernelRoot, PdptLow, PdptHigh, PdLow
  <2>2. BootTables[f] = [j \in 0 .. 3 |-> Entry(PdLow(j))]
    BY <2>1 DEF BootTables, BootFrames
  <2>3. QED
    BY <2>1, <2>2 DEF PdptLow
<1>5. BootTables[BootFrame + 2] = [j \in {W - 2, W - 1} |-> Entry(PdHigh(j - (W - 2)))]
  <2>1. PICK f \in BootFrames :
          f = PdptHigh /\ f # KernelRoot /\ f # PdptLow /\ f \notin PdLow(0) .. PdLow(3)
    BY <1>1 DEF BootFrames, KernelRoot, PdptLow, PdptHigh, PdLow
  <2>2. BootTables[f] = [j \in {W - 2, W - 1} |-> Entry(PdHigh(j - (W - 2)))]
    BY <2>1 DEF BootTables, BootFrames
  <2>3. QED
    BY <2>1, <2>2 DEF PdptHigh
<1>6. ASSUME NEW f \in Directories
      PROVE  DOMAIN BootTables[f] = Idx /\ \A k \in Idx : \E x \in Nat : BootTables[f][k] = HugeEntry(x)
  <2>1. f \in BootFrames /\ f # KernelRoot /\ f # PdptLow /\ f # PdptHigh
    BY <1>1 DEF BootFrames, Directories, KernelRoot, PdptLow, PdptHigh
  <2>2. CASE f \in PdLow(0) .. PdLow(3)
    <3>1. BootTables[f] = FillPd((f - PdLow(0)) * W * W)
      BY <2>1, <2>2 DEF BootTables, BootFrames
    <3>2. PICK d, n : d \in Nat /\ d = f - PdLow(0) /\ n = d * W * W
      BY <2>2, <1>1 DEF PdLow
    <3>3. n \in Nat
      BY <1>1, <3>2, ProductNat
    <3>4. QED
      BY <3>1, <3>2, <3>3, DirectoryFilled
  <2>3. CASE f \notin PdLow(0) .. PdLow(3)
    <3>1. BootTables[f] = FillPd((f - PdHigh(0)) * W * W)
      BY <2>1, <2>3 DEF BootTables, BootFrames
    <3>2. f \in Nat /\ f >= PdHigh(0) /\ PdHigh(0) \in Nat
      BY <1>1, <2>3 DEF Directories, PdLow, PdHigh
    <3>3. PICK d, n : d \in Nat /\ d = f - PdHigh(0) /\ n = d * W * W
      BY <3>2
    <3>4. n \in Nat
      BY <1>1, <3>3, ProductNat
    <3>5. QED
      BY <3>1, <3>3, <3>4, DirectoryFilled
  <2>4. QED
    BY <2>2, <2>3
<1>7. /\ DOMAIN BootTables[BootFrame] = {0, W - 1}
      /\ BootTables[BootFrame][0] = Entry(BootFrame + 1)
      /\ BootTables[BootFrame][W - 1] = Entry(BootFrame + 2)
  BY <1>1, <1>3 DEF PdptLow, PdptHigh
<1>8. /\ DOMAIN BootTables[BootFrame + 1] = 0 .. 3
      /\ \A j \in 0 .. 3 : BootTables[BootFrame + 1][j] = Entry(BootFrame + 3 + j)
  BY <1>1, <1>4 DEF PdLow
<1>9. /\ DOMAIN BootTables[BootFrame + 2] = {W - 2, W - 1}
      /\ \A j \in {W - 2, W - 1} : BootTables[BootFrame + 2][j] = Entry(BootFrame + 9 + j - W)
  <2>1. ASSUME NEW j \in {W - 2, W - 1}
        PROVE  BootTables[BootFrame + 2][j] = Entry(BootFrame + 9 + j - W)
    <3>1. BootTables[BootFrame + 2][j] = Entry(PdHigh(j - (W - 2)))
      BY <1>5
    <3>2. PdHigh(j - (W - 2)) = BootFrame + 9 + j - W
      BY <1>1 DEF PdHigh
    <3>3. QED
      BY <3>1, <3>2
  <2>2. QED
    BY <1>5, <2>1
<1>10. QED
  BY <1>2, <1>6, <1>7, <1>8, <1>9 DEF BootShape

LEMMA BootNumbers ==
  /\ BootFrame \in Nat /\ W \in Nat /\ W >= 8 /\ 0 \in Idx /\ W - 1 \in Idx
  /\ \A f \in Directories : BootLow(f) \in Idx /\ BootHead(f) \in Idx /\ BootHead(f) # W - 3
  /\ \A f \in BootFrames : f \in Nat /\ BootLev(f) \in 1 .. 4 /\ BootKey(f) \in Nat
  /\ \A f \in BootFrames : f \in Directories <=> BootLev(f) = 2
<1>1. BootFrame \in Nat /\ W \in Nat /\ W >= 8
  BY VmmAssumption
<1>2. 0 \in Idx /\ W - 1 \in Idx
  BY <1>1 DEF Idx
<1>3. ASSUME NEW f \in Directories
      PROVE  BootLow(f) \in Idx /\ BootHead(f) \in Idx /\ BootHead(f) # W - 3
  BY <1>1, <1>2 DEF Directories, BootLow, BootHead, Idx
<1>4. ASSUME NEW f \in BootFrames
      PROVE  /\ f \in Nat /\ BootLev(f) \in 1 .. 4
             /\ f \in Directories <=> BootLev(f) = 2
             /\ f \in Directories \/ f = BootFrame \/ f = BootFrame + 1 \/ f = BootFrame + 2
  BY <1>1 DEF BootFrames, Directories, BootLev
<1>5. ASSUME NEW f \in BootFrames PROVE BootKey(f) \in Nat
  <2>1. \A i \in Idx : Sub(0, i) \in Nat
    BY SubNat
  <2>2. \A i, j \in Idx : Sub(Sub(0, i), j) \in Nat
    BY <2>1, SubNat
  <2>3. QED
    BY <1>2, <1>3, <1>4, <2>1, <2>2 DEF BootKey
<1>6. QED
  BY <1>1, <1>2, <1>3, <1>4, <1>5

\* The history, table by table.
LEMMA BootFacts ==
  ASSUME NEW g, g = BootHistory
  PROVE  /\ \A f \in BootFrames : g.lev[f] = BootLev(f) /\ g.own[f] = KernelRoot /\ g.key[f] = BootKey(f)
         /\ g.lev[BootFrame] = 4 /\ g.lev[BootFrame + 1] = 3 /\ g.lev[BootFrame + 2] = 3
         /\ g.key[BootFrame] = 0 /\ g.key[BootFrame + 1] = Sub(0, 0)
         /\ g.key[BootFrame + 2] = Sub(0, W - 1)
         /\ \A f \in Directories : g.lev[f] = 2 /\ g.key[f] = Sub(Sub(0, BootHead(f)), BootLow(f))
         /\ \A f \in BootFrames :
              f \in Directories \/ f = BootFrame \/ f = BootFrame + 1 \/ f = BootFrame + 2
<1>1. \A f \in BootFrames : g.lev[f] = BootLev(f) /\ g.own[f] = KernelRoot /\ g.key[f] = BootKey(f)
  BY DEF BootHistory
<1>2. BootFrame \in Nat
  BY VmmAssumption
<1>3. BootFrame \in BootFrames /\ BootFrame + 1 \in BootFrames /\ BootFrame + 2 \in BootFrames
  BY <1>2 DEF BootFrames
<1>4. g.lev[BootFrame] = 4 /\ g.lev[BootFrame + 1] = 3 /\ g.lev[BootFrame + 2] = 3
  BY <1>1, <1>2, <1>3 DEF BootLev
<1>5. /\ g.key[BootFrame] = 0 /\ g.key[BootFrame + 1] = Sub(0, 0)
      /\ g.key[BootFrame + 2] = Sub(0, W - 1)
  BY <1>1, <1>2, <1>3 DEF BootKey
<1>6. ASSUME NEW f \in Directories
      PROVE  g.lev[f] = 2 /\ g.key[f] = Sub(Sub(0, BootHead(f)), BootLow(f))
  <2>1. f \in BootFrames /\ f # BootFrame /\ f # BootFrame + 1 /\ f # BootFrame + 2 /\ ~(f <= BootFrame + 2)
    BY <1>2 DEF Directories, BootFrames
  <2>2. QED
    BY <1>1, <2>1 DEF BootKey, BootLev
<1>7. \A f \in BootFrames :
        f \in Directories \/ f = BootFrame \/ f = BootFrame + 1 \/ f = BootFrame + 2
  BY <1>2 DEF Directories, BootFrames
<1>8. QED
  BY <1>1, <1>4, <1>5, <1>6, <1>7

\* No huge page of boot32.asm is in the heap's entry of the root.
LEMMA BootHuge ==
  ASSUME NEW g, g = BootHistory, NEW f \in Directories, NEW i \in Idx
  PROVE  HugeOK(g, f, i)
<1>1. g.lev[f] = 2 /\ g.key[f] = Sub(Sub(0, BootHead(f)), BootLow(f)) /\ g.own[f] = KernelRoot
  <2>1. f \in BootFrames
    BY BootNumbers DEF Directories, BootFrames
  <2>2. QED
    BY <2>1, BootFacts
<1>2. BootLow(f) \in Idx /\ BootHead(f) \in Idx /\ BootHead(f) # W - 3
  BY BootNumbers
<1>3. ASSUME NEW l \in Idx PROVE ~InHeapPart(Sub(Sub(g.key[f], i), l))
  <2>1. PICK a, b, v : /\ a = BootHead(f) /\ b = BootLow(f) /\ a \in Idx /\ b \in Idx /\ a # W - 3
                       /\ v = Sub(Sub(Sub(Sub(0, a), b), i), l)
    BY <1>2
  <2>2. v \in Pages /\ Pml4Index(v) = a
    BY <2>1, SubPages
  <2>3. v \in Nat
    BY <2>2, Bases DEF Pages
  <2>4. ~InHeapPart(v)
    BY <2>1, <2>2, <2>3, KernelPage
  <2>5. QED
    BY <1>1, <2>1, <2>4
<1>4. QED
  BY <1>1, <1>3 DEF HugeOK

LEMMA BootEntry ==
  ASSUME NEW T, BootShape(T), NEW t \in BootFrames, NEW i \in DOMAIN T[t]
  PROVE  BootItem(T, t, i)
<1>1. BootFrame \in Nat /\ W \in Nat /\ W >= 8
  BY VmmAssumption
<1>2. CASE t \in Directories
  <2>1. i \in Idx /\ \E x \in Nat : T[t][i] = HugeEntry(x)
    BY <1>2 DEF BootShape
  <2>2. QED
    BY <1>2, <2>1 DEF HugeEntry, BootItem
<1>3. CASE t = BootFrame
  <2>1. t \notin Directories
    BY <1>1, <1>3 DEF Directories
  <2>2. \/ i = 0 /\ T[t][i] = Entry(BootFrame + 1)
        \/ i = W - 1 /\ T[t][i] = Entry(BootFrame + 2)
    BY <1>3 DEF BootShape
  <2>3. QED
    <3>1. 0 \in Idx /\ W - 1 \in Idx /\ BootFrame + 1 \in Nat /\ BootFrame + 2 \in Nat
      BY <1>1 DEF Idx
    <3>2. CASE i = 0 /\ T[t][i] = Entry(BootFrame + 1)
      BY <1>3, <2>1, <3>1, <3>2 DEF Entry, BootItem, BootLink
    <3>3. CASE i = W - 1 /\ T[t][i] = Entry(BootFrame + 2)
      BY <1>3, <2>1, <3>1, <3>3 DEF Entry, BootItem, BootLink
    <3>4. QED
      BY <2>2, <3>2, <3>3
<1>4. CASE t = BootFrame + 1
  <2>1. t \notin Directories
    BY <1>1, <1>4 DEF Directories
  <2>2. i \in 0 .. 3 /\ T[t][i] = Entry(BootFrame + 3 + i)
    BY <1>4 DEF BootShape
  <2>3. QED
    BY <1>1, <1>4, <2>1, <2>2 DEF Entry, Idx, BootItem, BootLink
<1>5. CASE t = BootFrame + 2
  <2>1. t \notin Directories
    BY <1>1, <1>5 DEF Directories
  <2>2. i \in {W - 2, W - 1} /\ T[t][i] = Entry(BootFrame + 9 + i - W)
    BY <1>5 DEF BootShape
  <2>3. QED
    BY <1>1, <1>5, <2>1, <2>2 DEF Entry, Idx, BootItem, BootLink
<1>6. t \in Directories \/ t = BootFrame \/ t = BootFrame + 1 \/ t = BootFrame + 2
  BY <1>1 DEF BootFrames, Directories
<1>7. QED
  BY <1>2, <1>3, <1>4, <1>5, <1>6

LEMMA BootTyped ==
  ASSUME NEW T, BootShape(T), NEW g, g = BootHistory
  PROVE  TablesTyped(T, g)
<1>1. DOMAIN T = BootFrames /\ BootFrame \in BootFrames
  <2>1. DOMAIN T = BootFrames
    BY DEF BootShape
  <2>2. BootFrame \in BootFrames
    BY VmmAssumption DEF BootFrames
  <2>3. QED
    BY <2>1, <2>2
<1>2. KernelRoot \in DOMAIN T /\ KernelRoot = BootFrame
  BY <1>1 DEF KernelRoot
<1>3. ASSUME NEW t \in DOMAIN T
      PROVE  /\ g.lev[t] \in 1 .. 4 /\ g.own[t] \in DOMAIN T /\ g.key[t] \in Nat
             /\ g.lev[g.own[t]] = 4
             /\ g.lev[t] = 4 => g.own[t] = t /\ g.key[t] = 0
  <2>1. /\ g.lev[t] \in 1 .. 4 /\ g.own[t] = KernelRoot /\ g.key[t] \in Nat
    <3>1. t \in BootFrames
      BY <1>1, <1>3
    <3>2. g.lev[t] = BootLev(t) /\ g.own[t] = KernelRoot /\ g.key[t] = BootKey(t)
      BY <3>1, BootFacts
    <3>3. BootLev(t) \in 1 .. 4 /\ BootKey(t) \in Nat
      BY <3>1, BootNumbers
    <3>4. QED
      BY <3>2, <3>3
  <2>2. g.lev[KernelRoot] = 4
    BY <1>2, BootFacts
  <2>3. g.lev[t] = 4 => t = BootFrame
    BY <1>1, <1>3, BootFacts
  <2>4. QED
    BY <1>2, <2>1, <2>2, <2>3, BootFacts
<1>4. g.lev[KernelRoot] = 4
  BY <1>2, BootFacts
<1>5. ASSUME NEW t \in DOMAIN T, NEW i \in DOMAIN T[t]
      PROVE  /\ i \in Idx
             /\ T[t][i] = [frame |-> T[t][i].frame, huge |-> T[t][i].huge]
             /\ T[t][i].frame \in Nat /\ T[t][i].huge \in BOOLEAN
             /\ T[t][i].huge => HugeOK(g, t, i)
  <2>1. /\ i \in Idx
        /\ T[t][i] = [frame |-> T[t][i].frame, huge |-> T[t][i].huge]
        /\ T[t][i].frame \in Nat /\ T[t][i].huge \in BOOLEAN
        /\ t \notin Directories => T[t][i].huge = FALSE
    <3>1. t \in BootFrames
      BY <1>1, <1>5
    <3>2. QED
      <4>1. BootItem(T, t, i)
        BY <3>1, <1>5, BootEntry
      <4>2. QED
        BY <4>1, Zenon DEF BootItem
  <2>2. t \in Directories => HugeOK(g, t, i)
    BY <2>1, BootHuge
  <2>3. QED
    BY <2>1, <2>2
<1>6. \A t \in DOMAIN T : DOMAIN T[t] \subseteq Idx
  BY <1>5
<1>7. QED
  BY <1>2, <1>3, <1>4, <1>5, <1>6, ZenonT(90) DEF TablesTyped

\* Where the entries lead.
LEMMA BootLead ==
  ASSUME NEW T, BootShape(T), NEW g, g = BootHistory
  PROVE  TablesLead(T, g)
<1>0. BootFrame \in Nat /\ W \in Nat /\ W >= 8 /\ DOMAIN T = BootFrames
  BY BootNumbers DEF BootShape
<1>1. ASSUME NEW t \in DOMAIN T, NEW i \in DOMAIN T[t], Leads(T, g, t, i)
      PROVE  Below(T, g, t, i)
  <2>1. t \in BootFrames /\ t \notin Directories
    <3>1. t \in BootFrames
      BY <1>0, <1>1
    <3>2. BootItem(T, t, i)
      BY <3>1, <1>1, BootEntry
    <3>3. QED
      BY <3>1, <3>2, <1>1, Zenon DEF BootItem, Leads
  <2>2. PICK f : f = T[t][i].frame
    OBVIOUS
  <2>3. \/ t = BootFrame /\ i = 0 /\ f = BootFrame + 1
        \/ t = BootFrame /\ i = W - 1 /\ f = BootFrame + 2
        \/ t = BootFrame + 1 /\ i \in 0 .. 3 /\ f = BootFrame + 3 + i
        \/ t = BootFrame + 2 /\ i \in {W - 2, W - 1} /\ f = BootFrame + 9 + i - W
    <3>1. BootLink(t, i, T[t][i].frame)
      BY <2>1, <1>1, BootEntry DEF BootItem
    <3>2. QED
      BY <2>2, <3>1 DEF BootLink
  <2>4. f \in BootFrames
    BY <1>0, <2>3 DEF BootFrames
  <2>5. g.own[f] = KernelRoot /\ OwnerBelow(g, t, i) = KernelRoot
    BY <2>1, <2>4, BootFacts DEF OwnerBelow
  <2>6. g.lev[f] = g.lev[t] - 1 /\ g.key[f] = Sub(g.key[t], i)
    <3>1. CASE t = BootFrame /\ i = 0 /\ f = BootFrame + 1
      BY <3>1, BootFacts
    <3>2. CASE t = BootFrame /\ i = W - 1 /\ f = BootFrame + 2
      BY <3>2, BootFacts
    <3>3. CASE t = BootFrame + 1 /\ i \in 0 .. 3 /\ f = BootFrame + 3 + i
      <4>1. f \in Directories /\ BootHead(f) = 0 /\ BootLow(f) = i
        BY <1>0, <3>3 DEF Directories, BootHead, BootLow
      <4>2. QED
        BY <3>3, <4>1, BootFacts
    <3>4. CASE t = BootFrame + 2 /\ i \in {W - 2, W - 1} /\ f = BootFrame + 9 + i - W
      <4>1. f \in Directories /\ BootHead(f) = W - 1 /\ BootLow(f) = i
        BY <1>0, <3>4 DEF Directories, BootHead, BootLow
      <4>2. QED
        BY <3>4, <4>1, BootFacts
    <3>5. QED
      BY <2>3, <3>1, <3>2, <3>3, <3>4
  <2>7. QED
    BY <1>0, <2>2, <2>4, <2>5, <2>6 DEF Below
<1>2. QED
  BY <1>1 DEF TablesLead

\* Where the tables are found.
LEMMA BootFound ==
  ASSUME NEW T, BootShape(T), NEW g, g = BootHistory
  PROVE  TablesFound(T, g)
<1>0. BootFrame \in Nat /\ W \in Nat /\ W >= 8 /\ DOMAIN T = BootFrames
  BY BootNumbers DEF BootShape
<1>1. ASSUME NEW c \in DOMAIN T, g.lev[c] # 4
      PROVE  \E t \in DOMAIN T : \E i \in Idx : FoundAt(T, g, c, t, i)
  <2>1. c \in Directories \/ c = BootFrame + 1 \/ c = BootFrame + 2
    BY <1>0, <1>1, BootFacts
  <2>2. \E t \in BootFrames : \E i \in DOMAIN T[t] :
          t \notin Directories /\ T[t][i] = Entry(c) /\ i \in Idx
    <3>1. CASE c = BootFrame + 1
      <4>1. BootFrame \in BootFrames /\ BootFrame \notin Directories /\ 0 \in Idx
        BY <1>0 DEF BootFrames, Directories, Idx
      <4>2. QED
        BY <3>1, <4>1 DEF BootShape
    <3>2. CASE c = BootFrame + 2
      <4>1. BootFrame \in BootFrames /\ BootFrame \notin Directories /\ W - 1 \in Idx
        BY <1>0 DEF BootFrames, Directories, Idx
      <4>2. QED
        BY <3>2, <4>1 DEF BootShape
    <3>3. CASE c \in Directories /\ c <= BootFrame + 6
      <4>1. PICK j \in 0 .. 3 : j = c - (BootFrame + 3)
        BY <1>0, <3>3 DEF Directories
      <4>2. c = BootFrame + 3 + j /\ j \in Idx
        BY <1>0, <3>3, <4>1 DEF Directories, Idx
      <4>3. BootFrame + 1 \in BootFrames /\ BootFrame + 1 \notin Directories
        BY <1>0 DEF BootFrames, Directories
      <4>4. j \in DOMAIN T[BootFrame + 1] /\ T[BootFrame + 1][j] = Entry(BootFrame + 3 + j)
        BY DEF BootShape
      <4>5. QED
        BY <4>2, <4>3, <4>4
    <3>4. CASE c \in Directories /\ ~(c <= BootFrame + 6)
      <4>1. PICK j \in {W - 2, W - 1} : j = c - (BootFrame + 9) + W
        BY <1>0, <3>4 DEF Directories
      <4>2. c = BootFrame + 9 + j - W /\ j \in Idx
        BY <1>0, <3>4, <4>1 DEF Directories, Idx
      <4>3. BootFrame + 2 \in BootFrames /\ BootFrame + 2 \notin Directories
        BY <1>0 DEF BootFrames, Directories
      <4>4. j \in DOMAIN T[BootFrame + 2] /\ T[BootFrame + 2][j] = Entry(BootFrame + 9 + j - W)
        BY DEF BootShape
      <4>5. QED
        BY <4>2, <4>3, <4>4
    <3>5. QED
      BY <2>1, <3>1, <3>2, <3>3, <3>4
  <2>3. PICK t \in BootFrames : \E i \in DOMAIN T[t] :
          t \notin Directories /\ T[t][i] = Entry(c) /\ i \in Idx
    BY <2>2
  <2>4. PICK i \in DOMAIN T[t] : t \notin Directories /\ T[t][i] = Entry(c) /\ i \in Idx
    BY <2>3
  <2>5. T[t][i].frame = c /\ T[t][i].huge = FALSE
    BY <2>4 DEF Entry
  <2>6. g.lev[t] > 1 /\ g.own[t] = g.own[c]
    BY <1>0, <1>1, <2>4, BootFacts
  <2>7. FoundAt(T, g, c, t, i)
    BY <1>0, <2>4, <2>5, <2>6 DEF FoundAt, Leads
  <2>8. QED
    BY <1>0, <2>4, <2>7
<1>2. QED
  BY <1>1 DEF TablesFound

LEMMA BootApart ==
  ASSUME NEW T, BootShape(T), NEW g, g = BootHistory
  PROVE  TablesApart(T, g)
<1>0. BootFrame \in Nat /\ W \in Nat /\ W >= 8 /\ DOMAIN T = BootFrames /\ 0 \in Idx /\ W - 1 \in Idx
  BY BootNumbers DEF BootShape
<1>1. ASSUME NEW s \in DOMAIN T, NEW t \in DOMAIN T, g.lev[s] = g.lev[t], g.key[s] = g.key[t]
      PROVE  s = t
  <2>1. CASE s \in Directories
    <3>1. t \in Directories
      BY <1>0, <1>1, <2>1, BootFacts
    <3>2. PICK a, b, c, d : /\ a = BootHead(s) /\ b = BootLow(s) /\ c = BootHead(t) /\ d = BootLow(t)
      OBVIOUS
    <3>3. a \in Idx /\ b \in Idx /\ c \in Idx /\ d \in Idx
      BY <2>1, <3>1, <3>2, BootNumbers
    <3>4. Sub(Sub(0, a), b) = Sub(Sub(0, c), d)
      BY <1>1, <2>1, <3>1, <3>2, BootFacts
    <3>5. PICK x, y \in Nat : x = Sub(0, a) /\ y = Sub(0, c)
      BY <3>3, SubNat
    <3>6. x = y /\ b = d
      BY <3>3, <3>4, <3>5, SubInj
    <3>7. PICK z \in Nat : z = 0
      OBVIOUS
    <3>8. a = c
      BY <3>3, <3>5, <3>6, <3>7, SubInj
    <3>9. QED
      BY <1>0, <2>1, <3>1, <3>2, <3>6, <3>8 DEF BootHead, BootLow, Directories
  <2>2. CASE s = BootFrame
    BY <1>0, <1>1, <2>2, BootFacts
  <2>3. CASE s = BootFrame + 1 \/ s = BootFrame + 2
    <3>1. t = BootFrame + 1 \/ t = BootFrame + 2
      BY <1>0, <1>1, <2>3, BootFacts
    <3>2. PICK z \in Nat : z = 0
      OBVIOUS
    <3>3. PICK l : l = W - 1
      OBVIOUS
    <3>4. 0 # l /\ l \in Idx
      BY <1>0, <3>3
    <3>5. Sub(z, 0) # Sub(z, l)
      BY <1>0, <3>4, SubInj
    <3>6. QED
      BY <1>1, <2>3, <3>1, <3>2, <3>3, <3>5, BootFacts
  <2>4. QED
    BY <1>0, <2>1, <2>2, <2>3, BootFacts
<1>2. QED
  BY <1>1 DEF TablesApart

LEMMA BootTree ==
  ASSUME NEW T, BootShape(T), NEW g, g = BootHistory
  PROVE  Tree(T, g)
BY BootTyped, BootLead, BootFound, BootApart DEF Tree

LEMMA BootNoPages ==
  ASSUME NEW T, BootShape(T), NEW g, g = BootHistory
  PROVE  NoGuarded(T, g) /\ \A t : IsRoot(T, g, t) => t = KernelRoot
<1>1. DOMAIN T = BootFrames
  BY DEF BootShape
<1>2. ASSUME NEW t \in BootFrames PROVE g.lev[t] # 1 /\ (g.lev[t] = 4 => t = BootFrame)
  BY BootFacts
<1>3. NoGuarded(T, g)
  BY <1>1, <1>2 DEF NoGuarded, Guarded
<1>4. QED
  BY <1>1, <1>2, <1>3 DEF IsRoot, KernelRoot

LEMMA NewFramed ==
  ASSUME NEW ram \in RamSizes, NEW m, m = NewMemory(ram)
  PROVE  /\ IsMemory(m) /\ Framed(m) /\ m = Clean(m)
         /\ m.taken \cap Managed(m.ram) \subseteq Image
<1>1. /\ m.ram = ram /\ m.taken = ((0 .. ram - 1) \ Managed(ram)) \cup (Image \cap (0 .. ram - 1))
      /\ m.used = Cardinality(Image \cap Managed(ram))
  BY DEF NewMemory, PmmInit
<1>2. IsMemory(m) /\ m = Clean(m)
  <2>1. PICK x, y, z : m = [ram |-> ram, taken |-> x, used |-> y, tables |-> z, heapEnd |-> 0,
                            ipcPage |-> None, threads |-> 0, got |-> None, at |-> None,
                            root |-> None, ok |-> TRUE, fault |-> FALSE]
    BY DEF NewMemory
  <2>2. IsMemory(m)
    BY <2>1 DEF IsMemory
  <2>3. /\ m.got = None /\ m.at = None /\ m.root = None /\ m.ok = TRUE /\ m.fault = FALSE
    BY <2>1
  <2>4. Idle(m)
    BY <2>2, <2>3, IdleFields
  <2>5. QED
    BY <2>4 DEF Idle
<1>3. Image \subseteq 0 .. ram - 1 /\ ram \in Nat
  BY PmmAssumption, ProcessesAssumption
<1>4. m.taken \cap Managed(m.ram) = Image \cap Managed(ram)
  BY <1>1, <1>3
<1>5. Framed(m)
  BY <1>1, <1>3, <1>4 DEF Framed
<1>6. QED
  BY <1>2, <1>4, <1>5

LEMMA BootGood ==
  ASSUME NEW ram \in RamSizes, NEW m, m = NewMemory(ram), NEW g, g = BootHistory
  PROVE  /\ Good(m, g, Held(ScreenOf(None), m)) /\ m.tables = BootTables
         /\ Held(ScreenOf(None), m) = {} /\ m.ipcPage = None
<1>1. m.tables = BootTables /\ m.ipcPage = None
  BY DEF NewMemory
<1>2. Held(ScreenOf(None), m) = {}
  BY <1>1 DEF Held, ScreenOf
<1>3. IsMemory(m) /\ Framed(m)
  BY NewFramed
<1>4. PICK T : T = m.tables
  OBVIOUS
<1>5. BootShape(T)
  BY <1>1, <1>4, BootTablesShape
<1>6. Tree(T, g) /\ NoGuarded(T, g)
  BY <1>5, BootTree, BootNoPages
<1>7. PagesOK(m, g, {}) /\ PagesApart(m, g)
  BY <1>4, <1>6, Zenon DEF PagesOK, PagesApart, NoGuarded
<1>8. TablesOK(m, g)
  <2>1. DOMAIN m.tables = BootFrames /\ BootFrames \subseteq Image
    BY <1>4, <1>5, VmmAssumption DEF BootShape, BootFrames
  <2>2. \A t \in BootFrames : g.own[t] = KernelRoot
    BY BootFacts
  <2>3. Image \subseteq m.taken /\ Image \subseteq Nat \ {0}
    BY <1>3, PmmAssumption DEF Framed
  <2>4. QED
    BY <2>1, <2>2, <2>3 DEF TablesOK, None
<1>9. AsideOK(m, {})
  BY <1>1 DEF AsideOK, None
<1>10. QED
  BY <1>1, <1>2, <1>3, <1>4, <1>6, <1>7, <1>8, <1>9 DEF Good

LEMMA BootSound ==
  ASSUME NEW ram \in RamSizes, NEW m, m = NewMemory(ram), NEW g, g = BootHistory, NEW ps, NoProcess(ps)
  PROVE  Sound(m, g, None, ps) /\ AllOwned(m, g, None, ps)
<1>1. /\ Good(m, g, Held(ScreenOf(None), m)) /\ m.tables = BootTables
      /\ Held(ScreenOf(None), m) = {} /\ m.ipcPage = None
  BY BootGood
<1>2. m = Clean(m) /\ m.taken \cap Managed(m.ram) \subseteq Image
  BY NewFramed
<1>3. m.heapEnd = 0 /\ m.threads = 0
  BY DEF NewMemory
<1>4. m.heapEnd \in 0 .. HeapMax /\ m.threads \in 0 .. MaxThreads
  BY <1>3, ProcessesAssumption
<1>5. BootShape(m.tables)
  BY <1>1, BootTablesShape
<1>6. W - 1 \in DOMAIN m.tables[KernelRoot]
  BY <1>5 DEF BootShape, KernelRoot
<1>7. DOMAIN ps \subseteq 1 .. m.threads - 1
  BY DEF NoProcess
<1>8. \A t \in DOMAIN ps : ProcOK(m.tables, g, m.ipcPage, ps[t].root, ps[t].name)
  BY DEF NoProcess
<1>9. m.ipcPage \notin ScreenOf(None)
  BY DEF ScreenOf
<1>10. Sound(m, g, None, ps)
  BY <1>1, <1>2, <1>4, <1>6, <1>7, <1>8, <1>9, Zenon DEF Sound
<1>11. NoGuarded(m.tables, g) /\ \A t : IsRoot(m.tables, g, t) => t = KernelRoot
  BY <1>5, BootNoPages
<1>12. Covered(m, g, Held(ScreenOf(None), m))
  BY <1>2 DEF Covered
<1>13. HeapFresh(m, g)
  BY <1>11, Zenon DEF HeapFresh, Fresh, NoGuarded
<1>14. QED
  BY <1>10, <1>11, <1>12, <1>13, Zenon DEF AllOwned

----------------------------------------------------------------------------
(* The inductive invariant of the module.                                  *)
LEMMA KernelAdvance ==
  ASSUME NEW g, History(g), NEW ok, KernelDone(mem, g, off, procs, ok, mem', off'),
         procs' = procs, failed' = FALSE => failed = FALSE /\ ok = TRUE
  PROVE  Advanced(g) /\ RootsStay
<1>1. PICK h : /\ Sound(mem', h, off', procs) /\ Steady(mem, g, mem', h)
               /\ ok = TRUE /\ AllOwned(mem, g, off, procs) => AllOwned(mem', h, off', procs)
  BY DEF KernelDone
<1>2. failed' = FALSE => AllOwned(mem', h, off', procs)
  BY <1>1 DEF History
<1>3. QED
  BY <1>1, <1>2 DEF Advanced, RootsStay

LEMMA HeapInitStep ==
  ASSUME StageOK, NEW g, History(g), HeapInit
  PROVE  Steps(g)
<1>1. PICK b : b = ExpandHeap(mem)
  OBVIOUS
<1>2. /\ mem' = Clean(b) /\ failed' = (failed \/ ~b.ok) /\ stage = "heap" /\ stage' = "screen"
      /\ off' = off /\ procs' = procs /\ tried' = tried /\ mmio' = mmio
  BY <1>1 DEF HeapInit, Commit
<1>3. Sound(mem, g, off, procs)
  BY DEF History
<1>4. KernelDone(mem, g, off, procs, b.ok, mem', off)
  BY <1>1, <1>2, <1>3, HeapInitDone
<1>5. failed' \in BOOLEAN /\ (failed' = FALSE => failed = FALSE /\ b.ok = TRUE)
  BY <1>2 DEF StageOK
<1>6. Advanced(g) /\ RootsStay
  BY <1>2, <1>4, <1>5, KernelAdvance
<1>7. StageOK' /\ FaultExcused
  BY <1>2, <1>5 DEF StageOK, BootStages, FaultExcused
<1>8. QED
  BY <1>6, <1>7 DEF Steps

LEMMA BeginOffscreenStep ==
  ASSUME StageOK, NEW g, History(g), BeginOffscreen
  PROVE  Steps(g)
<1>1. PICK f, c, e :
        /\ f = AllocFrames(mem, OffPages).got
        /\ c = MapPagesIn(AllocFrames(mem, OffPages), KernelRoot, Offscreen, f, OffPages)
        /\ e = FreeFrames(c, f, OffPages)
  OBVIOUS
<1>2. /\ stage = "screen" /\ stage' = "acpi" /\ failed' = failed
      /\ procs' = procs /\ tried' = tried /\ mmio' = mmio
      /\ \/ f # None /\ mem' = Clean(c) /\ off' = f
         \/ f # None /\ mem' = Clean(e) /\ off' = None
         \/ mem' = mem /\ off' = off
  BY <1>1 DEF BeginOffscreen
<1>3. Sound(mem, g, off, procs) /\ off = None
  BY <1>2 DEF History, StageOK
<1>4. KernelDone(mem, g, off, procs, TRUE, mem', off') /\ off' \in Nat
  <2>1. CASE f # None /\ ((mem' = Clean(c) /\ off' = f) \/ (mem' = Clean(e) /\ off' = None))
    <3>1. PICK a, z, o : a = Clean(c) /\ z = Clean(e) /\ o = None
      OBVIOUS
    <3>2. Sound(mem, g, None, procs)
      BY <1>3
    <3>3. /\ f \in Nat /\ KernelDone(mem, g, None, procs, TRUE, a, f)
          /\ KernelDone(mem, g, None, procs, TRUE, z, None)
      BY <1>1, <2>1, <3>1, <3>2, BeginDone
    <3>4. CASE mem' = Clean(c) /\ off' = f
      BY <1>3, <3>1, <3>3, <3>4
    <3>5. CASE mem' = Clean(e) /\ off' = None
      <4>1. None \in Nat
        BY DEF None
      <4>2. QED
        BY <1>3, <3>1, <3>3, <3>5, <4>1
    <3>6. QED
      BY <2>1, <3>4, <3>5
  <2>2. CASE mem' = mem /\ off' = off
    <3>1. Steady(mem, g, mem, g)
      BY MovedSelf DEF Steady
    <3>2. QED
      BY <1>3, <2>2, <3>1 DEF KernelDone, None
  <2>3. QED
    BY <1>2, <2>1, <2>2
<1>5. Advanced(g) /\ RootsStay
  BY <1>2, <1>4, KernelAdvance
<1>6. StageOK' /\ FaultExcused
  BY <1>2, <1>4 DEF StageOK, BootStages, FaultExcused
<1>7. QED
  BY <1>5, <1>6 DEF Steps

LEMMA AcpiFetchStep ==
  ASSUME StageOK, NEW g, History(g), AcpiFetch
  PROVE  Steps(g)
<1>1. PICK f \in AcpiFrames, n \in 1 .. 2 : mem' = Clean(EnsureMapped(mem, f, n))
  BY DEF AcpiFetch
<1>2. /\ stage = "acpi" /\ stage' = stage /\ failed' = failed /\ off' = off
      /\ procs' = procs /\ tried' = tried /\ mmio' = mmio
  BY DEF AcpiFetch
<1>3. PICK b : b = EnsureMapped(mem, f, n)
  OBVIOUS
<1>4. Sound(mem, g, off, procs) /\ mem' = Clean(b)
  BY <1>1, <1>3 DEF History
<1>5. KernelDone(mem, g, off, procs, TRUE, mem', off)
  BY <1>3, <1>4, AcpiDone
<1>6. Advanced(g) /\ RootsStay
  BY <1>2, <1>5, KernelAdvance
<1>7. StageOK' /\ FaultExcused
  BY <1>2 DEF StageOK, BootStages, FaultExcused
<1>8. QED
  BY <1>6, <1>7 DEF Steps

LEMMA ThreadInitStep ==
  ASSUME StageOK, NEW g, History(g), ThreadInit
  PROVE  Steps(g)
<1>1. /\ stage = "acpi" /\ stage' = "services" /\ off' = off
      /\ procs' = procs /\ tried' = tried /\ mmio' = mmio
  BY DEF ThreadInit
<1>2. PICK grow \in BOOLEAN : Commit(CreateThread([mem EXCEPT !.threads = 1], grow))
  BY DEF ThreadInit
<1>3. PICK d, b : d = [mem EXCEPT !.threads = 1] /\ b = CreateThread(d, grow)
  OBVIOUS
<1>4. /\ mem' = Clean(b) /\ failed' = (failed \/ ~b.ok)
      /\ Sound(mem, g, off, procs) /\ NoProcess(procs)
  BY <1>1, <1>2, <1>3 DEF Commit, History, StageOK, BootStages
<1>5. KernelDone(mem, g, off, procs, b.ok, mem', off) /\ mem'.threads >= 1
  BY <1>3, <1>4, ThreadInitDone
<1>6. failed' \in BOOLEAN /\ (failed' = FALSE => failed = FALSE /\ b.ok = TRUE)
  BY <1>4 DEF StageOK
<1>7. Advanced(g) /\ RootsStay
  BY <1>1, <1>5, <1>6, KernelAdvance
<1>8. StageOK' /\ FaultExcused
  BY <1>1, <1>5, <1>6 DEF StageOK, BootStages, FaultExcused
<1>9. QED
  BY <1>7, <1>8 DEF Steps

\* What both creations do to the variables.
LEMMA ConcludeStep ==
  ASSUME StageOK, NEW g, History(g), stage \notin BootStages, NEW b, NEW name, Conclude(b, name),
         CreationDone(mem, g, off, procs, b, Clean(b), With(procs, b, mem.threads, name)),
         off' = off, mmio' = mmio, tried' \in 0 .. Len(Services)
  PROVE  Steps(g)
<1>1. /\ mem' = Clean(b) /\ failed' = (failed \/ ~b.ok)
      /\ procs' = With(procs, b, mem.threads, name)
      /\ stage' = IF b.fault THEN "fault" ELSE stage
  BY DEF Conclude, Commit, With
<1>2. PICK h : /\ Sound(mem', h, off', procs') /\ Steady(mem, g, mem', h)
               /\ b.ok = TRUE /\ AllOwned(mem, g, off, procs) => AllOwned(mem', h, off', procs')
               /\ mem.ipcPage # None => b.fault = FALSE
               /\ mem.threads <= mem'.threads
  BY <1>1 DEF CreationDone
<1>3. failed' \in BOOLEAN /\ (failed' = FALSE => failed = FALSE /\ b.ok = TRUE)
  BY <1>1 DEF StageOK
<1>4. Advanced(g)
  BY <1>2, <1>3 DEF Advanced, History
<1>5. Sound(mem, g, off, procs)
  BY DEF History
<1>6. DOMAIN procs \subseteq 1 .. mem.threads - 1 /\ mem.threads \in Nat
  <2>1. DOMAIN procs \subseteq 1 .. mem.threads - 1 /\ mem.threads \in 0 .. MaxThreads
    BY <1>5, SoundFields
  <2>2. QED
    BY <2>1, ProcessesAssumption
<1>7. procs' = procs \/ procs' = AddProcess(procs, mem.threads, name, b.root)
  BY <1>1 DEF With
<1>8. RootsStay /\ \A t \in DOMAIN procs' : IsProcess(procs'[t])
  <2>1. CASE procs' = procs
    BY <2>1 DEF RootsStay, StageOK
  <2>2. CASE procs' = AddProcess(procs, mem.threads, name, b.root)
    <3>1. mem.threads \notin DOMAIN procs
      BY <1>6
    <3>2. DOMAIN procs' = DOMAIN procs \cup {mem.threads}
      BY <2>2 DEF AddProcess
    <3>3. \A t \in DOMAIN procs : procs'[t] = procs[t]
      BY <2>2, <3>1 DEF AddProcess
    <3>4. procs'[mem.threads] = [name |-> name, root |-> b.root, live |-> TRUE]
      BY <2>2 DEF AddProcess
    <3>5. IsProcess(procs'[mem.threads])
      BY <3>4 DEF IsProcess
    <3>6. \A t \in DOMAIN procs : IsProcess(procs[t])
      BY DEF StageOK
    <3>7. QED
      BY <3>2, <3>3, <3>5, <3>6 DEF RootsStay
  <2>3. QED
    BY <1>7, <2>1, <2>2
<1>9. FaultExcused
  BY <1>1, <1>2 DEF FaultExcused
<1>10. StageOK'
  <2>1. stage' \in {"services", "run", "halted", "fault"} /\ stage' \notin BootStages
    BY <1>1 DEF StageOK, BootStages
  <2>2. mem'.threads >= 1
    <3>1. mem.threads >= 1
      BY DEF StageOK
    <3>2. mem'.threads \in 0 .. MaxThreads
      BY <1>2, SoundFields
    <3>3. mem'.threads \in Int
      BY <3>2
    <3>4. QED
      BY <1>2, <1>6, <3>1, <3>3
  <2>3. /\ stage' \in BootStages \cup {"services", "run", "halted", "fault"}
        /\ stage' \notin {"heap", "screen"}
    BY <2>1 DEF BootStages
  <2>4. QED
    BY <1>3, <1>8, <2>1, <2>2, <2>3 DEF StageOK
<1>11. QED
  BY <1>4, <1>8, <1>9, <1>10 DEF Steps

LEMMA StartServiceStep ==
  ASSUME StageOK, NEW g, History(g), StartService
  PROVE  Steps(g)
<1>1. /\ stage = "services" /\ tried < Len(Services) /\ tried' = tried + 1
      /\ off' = off /\ mmio' = mmio
  BY DEF StartService
<1>2. PICK grow \in BOOLEAN : Conclude(CreateUserProcess(mem, grow), Services[tried + 1])
  BY DEF StartService
<1>3. PICK b, i, a, qs :
        /\ b = CreateUserProcess(mem, grow) /\ i = tried + 1 /\ a = Clean(b)
        /\ qs = With(procs, b, mem.threads, Services[i])
  OBVIOUS
<1>4. i \in DOMAIN Services /\ tried' \in 0 .. Len(Services)
  <2>1. Services \in Seq(STRING)
    BY ProcessesAssumption
  <2>2. Len(Services) \in Nat /\ DOMAIN Services = 1 .. Len(Services)
    BY <2>1
  <2>3. QED
    BY <1>1, <1>3, <2>2 DEF StageOK
<1>5. stage \notin BootStages /\ mem.threads >= 1
  BY <1>1 DEF BootStages, StageOK
<1>6. Sound(mem, g, off, procs)
  BY DEF History
<1>7. CreationDone(mem, g, off, procs, b, a, qs)
  BY <1>3, <1>4, <1>5, <1>6, ServiceDone
<1>8. PICK name : name = Services[i]
  OBVIOUS
<1>9. /\ Conclude(b, name)
      /\ CreationDone(mem, g, off, procs, b, Clean(b), With(procs, b, mem.threads, name))
  BY <1>2, <1>3, <1>7, <1>8
<1>10. QED
  BY <1>1, <1>4, <1>5, <1>9, ConcludeStep

LEMMA SpawnStep ==
  ASSUME StageOK, NEW g, History(g), NEW t \in DOMAIN procs, Spawn(t)
  PROVE  Steps(g)
<1>1. stage = "run" /\ off' = off /\ mmio' = mmio /\ tried' = tried
  BY DEF Spawn, Runs
<1>2. PICK p \in DOMAIN Programs, grow \in BOOLEAN :
        Conclude(CreateElfProcess(mem, procs[t].root, Programs[p], grow), p)
  BY DEF Spawn
<1>3. PICK r, l, b, a, qs :
        /\ r = procs[t].root /\ l = Programs[p] /\ b = CreateElfProcess(mem, r, l, grow)
        /\ a = Clean(b) /\ qs = With(procs, b, mem.threads, p)
  OBVIOUS
<1>4. stage \notin BootStages /\ mem.threads >= 1 /\ tried' \in 0 .. Len(Services)
  BY <1>1 DEF BootStages, StageOK
<1>5. Sound(mem, g, off, procs)
  BY DEF History
<1>6. CreationDone(mem, g, off, procs, b, a, qs)
  BY <1>3, <1>4, <1>5, SpawnDone
<1>7. /\ Conclude(b, p)
      /\ CreationDone(mem, g, off, procs, b, Clean(b), With(procs, b, mem.threads, p))
  BY <1>2, <1>3, <1>6
<1>8. QED
  BY <1>1, <1>4, <1>7, ConcludeStep

\* Nothing changes in memory.
LEMMA RestStep ==
  ASSUME StageOK, NEW g, History(g), stage \notin BootStages, mem' = mem, off' = off,
         failed' = failed, tried' = tried, mmio' = mmio, stage' = stage \/ stage' = "halted",
         DOMAIN procs' = DOMAIN procs,
         \A t \in DOMAIN procs : /\ procs'[t].root = procs[t].root /\ procs'[t].name = procs[t].name
                                 /\ IsProcess(procs'[t])
  PROVE  Steps(g)
<1>1. Sound(mem, g, off, procs)
  BY DEF History
<1>2. PICK m, qs : m = mem /\ qs = procs'
  OBVIOUS
<1>3. Sound(m, g, off, qs) /\ (AllOwned(m, g, off, procs) => AllOwned(m, g, off, qs))
  BY <1>1, <1>2, SamePlaces
<1>4. Steady(mem, g, mem, g)
  BY MovedSelf DEF Steady
<1>5. Advanced(g)
  BY <1>2, <1>3, <1>4 DEF Advanced, History
<1>6. RootsStay
  BY DEF RootsStay
<1>7. StageOK' /\ FaultExcused
  BY DEF StageOK, BootStages, FaultExcused
<1>8. QED
  BY <1>5, <1>6, <1>7 DEF Steps

LEMMA GiveUpStep ==
  ASSUME StageOK, NEW g, History(g), GiveUp
  PROVE  Steps(g)
<1>1. /\ stage = "services" /\ stage' = "halted" /\ mem' = mem /\ off' = off /\ tried' = tried
      /\ procs' = procs /\ mmio' = mmio /\ failed' = failed
  BY DEF GiveUp
<1>2. stage \notin BootStages
  BY <1>1 DEF BootStages
<1>3. DOMAIN procs' = DOMAIN procs
  BY <1>1
<1>4. \A t \in DOMAIN procs : /\ procs'[t].root = procs[t].root /\ procs'[t].name = procs[t].name
                              /\ IsProcess(procs'[t])
  BY <1>1 DEF StageOK
<1>5. QED
  BY <1>1, <1>2, <1>3, <1>4, RestStep

\* A process dies or is restarted.
LEMMA LiveStep ==
  ASSUME StageOK, NEW t \in DOMAIN procs, NEW l, procs' = [procs EXCEPT ![t].live = l]
  PROVE  /\ DOMAIN procs' = DOMAIN procs
         /\ \A s \in DOMAIN procs :
              /\ procs'[s].root = procs[s].root /\ procs'[s].name = procs[s].name
              /\ IsProcess(procs'[s])
<1>1. DOMAIN procs' = DOMAIN procs
  OBVIOUS
<1>2. ASSUME NEW s \in DOMAIN procs
      PROVE  /\ procs'[s].root = procs[s].root /\ procs'[s].name = procs[s].name
             /\ IsProcess(procs'[s])
  <2>1. procs[s] = [name |-> procs[s].name, root |-> procs[s].root, live |-> procs[s].live]
    BY DEF StageOK, IsProcess
  <2>2. CASE s = t
    <3>1. procs'[s] = [procs[s] EXCEPT !.live = l]
      BY <2>2
    <3>2. procs'[s] = [name |-> procs[s].name, root |-> procs[s].root, live |-> l]
      BY <2>1, <3>1
    <3>3. QED
      BY <3>2 DEF IsProcess
  <2>3. CASE s # t
    <3>1. procs'[s] = procs[s]
      BY <2>3
    <3>2. QED
      BY <2>1, <3>1 DEF IsProcess
  <2>4. QED
    BY <2>2, <2>3
<1>3. QED
  BY <1>1, <1>2

LEMMA DieStep ==
  ASSUME StageOK, NEW g, History(g), NEW t \in DOMAIN procs, Die(t)
  PROVE  Steps(g)
<1>1. /\ stage = "run" /\ stage' = stage /\ mem' = mem /\ off' = off /\ tried' = tried
      /\ mmio' = mmio /\ failed' = failed
  BY DEF Die, Runs
<1>2. stage \notin BootStages
  BY <1>1 DEF BootStages
<1>3. /\ DOMAIN procs' = DOMAIN procs
      /\ \A s \in DOMAIN procs :
           /\ procs'[s].root = procs[s].root /\ procs'[s].name = procs[s].name
           /\ IsProcess(procs'[s])
  BY LiveStep DEF Die
<1>4. QED
  BY <1>1, <1>2, <1>3, RestStep

LEMMA RespawnStep ==
  ASSUME StageOK, NEW g, History(g), NEW t \in DOMAIN procs, Respawn(t)
  PROVE  Steps(g)
<1>1. /\ stage = "run" /\ stage' = stage /\ mem' = mem /\ off' = off /\ tried' = tried
      /\ mmio' = mmio /\ failed' = failed
  BY DEF Respawn
<1>2. stage \notin BootStages
  BY <1>1 DEF BootStages
<1>3. /\ DOMAIN procs' = DOMAIN procs
      /\ \A s \in DOMAIN procs :
           /\ procs'[s].root = procs[s].root /\ procs'[s].name = procs[s].name
           /\ IsProcess(procs'[s])
  BY LiveStep DEF Respawn
<1>4. QED
  BY <1>1, <1>2, <1>3, RestStep

LEMMA FinishStep ==
  ASSUME StageOK, NEW g, History(g), Finish
  PROVE  Steps(g)
<1>1. /\ stage = "services" /\ stage' = "run" /\ off' = None /\ tried' = tried
      /\ procs' = procs /\ mmio' = mmio /\ failed' = failed
  BY DEF Finish
<1>2. Sound(mem, g, off, procs) /\ mem.threads >= 1 /\ off \in Nat
  BY <1>1 DEF History, StageOK, BootStages
<1>3. KernelDone(mem, g, off, procs, TRUE, mem', off') /\ mem'.threads = mem.threads
  <2>1. CASE off = None
    <3>1. mem' = mem /\ off' = off
      BY <1>1, <2>1 DEF Finish
    <3>2. Steady(mem, g, mem, g)
      BY MovedSelf DEF Steady
    <3>3. QED
      BY <1>2, <3>1, <3>2 DEF KernelDone
  <2>2. CASE off # None
    <3>1. PICK c, a : c = UnmapPages(mem, Offscreen, OffPages) /\ a = FreeFrames(c, off, OffPages)
      OBVIOUS
    <3>2. mem' = a
      BY <2>2, <3>1 DEF Finish
    <3>3. KernelDone(mem, g, off, procs, TRUE, a, None) /\ KeepsThreads(mem, a)
      BY <1>2, <2>2, <3>1, FinishDone
    <3>4. QED
      BY <1>1, <3>2, <3>3 DEF KeepsThreads
  <2>3. QED
    BY <2>1, <2>2
<1>4. Advanced(g) /\ RootsStay
  BY <1>1, <1>3, KernelAdvance
<1>5. StageOK' /\ FaultExcused
  BY <1>1, <1>2, <1>3 DEF StageOK, BootStages, FaultExcused, None
<1>6. QED
  BY <1>4, <1>5 DEF Steps

LEMMA MmioMapStep ==
  ASSUME StageOK, NEW g, History(g), NEW t \in DOMAIN procs, MmioMap(t)
  PROVE  Steps(g)
<1>1. /\ stage = "run" /\ stage' = stage /\ off' = off /\ tried' = tried
      /\ procs' = procs /\ failed' = failed
  BY DEF MmioMap, Runs
<1>2. PICK n \in 0 .. MaxMmio, hint \in Hints :
        LET v     == IF hint = None THEN mmio.next ELSE hint
            pages == IF n = 0 THEN 1 ELSE n
            m     == MapPagesIn(mem, KernelRoot, v, Device, pages)
        IN /\ hint = None => mmio.next + n <= MmioBase + MaxMmio
           /\ mem'  = Clean(m)
           /\ mmio' = [next    |-> IF hint = None THEN mmio.next + n ELSE mmio.next,
                       granted |-> IF m.ok THEN <<t, v>> ELSE mmio.granted]
  BY DEF MmioMap
<1>3. PICK v, pages : /\ v = IF hint = None THEN mmio.next ELSE hint
                      /\ pages = IF n = 0 THEN 1 ELSE n
  OBVIOUS
<1>4. PICK b : b = MapPagesIn(mem, KernelRoot, v, Device, pages)
  OBVIOUS
<1>5. /\ hint = None => mmio.next + n <= MmioBase + MaxMmio
      /\ mem'  = Clean(b)
      /\ mmio'.next = IF hint = None THEN mmio.next + n ELSE mmio.next
  BY <1>2, <1>3, <1>4
<1>6. /\ n \in Nat /\ n <= MaxMmio /\ MaxMmio \in Nat /\ hint \in Nat /\ hint + MaxMmio < UserTop
      /\ MmioBase + MaxMmio < UserTop /\ MmioBase \in Nat /\ UserTop \in Nat
      /\ mmio.next \in Nat /\ MmioBase <= mmio.next /\ mmio.next <= MmioBase + MaxMmio
  <2>1. n \in Nat /\ n <= MaxMmio /\ MaxMmio \in Nat
    BY ProcessesAssumption
  <2>2. hint \in Nat /\ hint + MaxMmio < UserTop
    BY ProgramsAssumption
  <2>3. MmioBase + MaxMmio < UserTop
    BY LayoutAssumption
  <2>4. MmioBase \in Nat /\ UserTop \in Nat
    BY Bases
  <2>5. mmio.next \in Nat /\ MmioBase <= mmio.next /\ mmio.next <= MmioBase + MaxMmio
    BY DEF StageOK
  <2>6. QED
    BY <2>1, <2>2, <2>3, <2>4, <2>5
<1>7. v \in Nat /\ pages \in Nat /\ v + pages <= UserTop
  BY <1>3, <1>5, <1>6
<1>8. mmio'.next \in Nat /\ MmioBase <= mmio'.next /\ mmio'.next <= MmioBase + MaxMmio
  BY <1>5, <1>6
<1>9. Sound(mem, g, off, procs) /\ mem.threads >= 1
  BY <1>1 DEF History, StageOK, BootStages
<1>10. KernelDone(mem, g, off, procs, TRUE, mem', off) /\ mem'.threads = mem.threads
  <2>1. KernelDone(mem, g, off, procs, TRUE, mem', off) /\ KeepsThreads(mem, mem')
    BY <1>4, <1>5, <1>7, <1>9, MmioDone
  <2>2. QED
    BY <2>1 DEF KeepsThreads
<1>11. Advanced(g) /\ RootsStay
  BY <1>1, <1>10, KernelAdvance
<1>12. StageOK' /\ FaultExcused
  BY <1>1, <1>8, <1>9, <1>10 DEF StageOK, BootStages, FaultExcused
<1>13. QED
  BY <1>11, <1>12 DEF Steps

LEMMA StutterStep ==
  ASSUME StageOK, NEW g, History(g), UNCHANGED vars
  PROVE  Steps(g)
<1>1. /\ mem' = mem /\ stage' = stage /\ off' = off /\ tried' = tried /\ procs' = procs
      /\ mmio' = mmio /\ failed' = failed
  BY DEF vars
<1>2. Steady(mem, g, mem, g)
  BY MovedSelf DEF Steady
<1>3. Advanced(g)
  BY <1>1, <1>2 DEF Advanced, History
<1>4. StageOK' /\ RootsStay /\ FaultExcused
  BY <1>1 DEF StageOK, RootsStay, FaultExcused
<1>5. QED
  BY <1>3, <1>4 DEF Steps

LEMMA NextStep ==
  ASSUME StageOK, NEW g, History(g), [Next]_vars
  PROVE  Steps(g)
<1>1. CASE HeapInit
  BY <1>1, HeapInitStep
<1>2. CASE BeginOffscreen
  BY <1>2, BeginOffscreenStep
<1>3. CASE AcpiFetch
  BY <1>3, AcpiFetchStep
<1>4. CASE ThreadInit
  BY <1>4, ThreadInitStep
<1>5. CASE StartService
  BY <1>5, StartServiceStep
<1>6. CASE GiveUp
  BY <1>6, GiveUpStep
<1>7. CASE Finish
  BY <1>7, FinishStep
<1>8. ASSUME NEW t \in DOMAIN procs, Spawn(t) PROVE Steps(g)
  BY <1>8, SpawnStep
<1>9. ASSUME NEW t \in DOMAIN procs, Die(t) PROVE Steps(g)
  BY <1>9, DieStep
<1>10. ASSUME NEW t \in DOMAIN procs, Respawn(t) PROVE Steps(g)
  BY <1>10, RespawnStep
<1>11. ASSUME NEW t \in DOMAIN procs, MmioMap(t) PROVE Steps(g)
  BY <1>11, MmioMapStep
<1>12. CASE UNCHANGED vars
  BY <1>12, StutterStep
<1>13. QED
  BY <1>1, <1>2, <1>3, <1>4, <1>5, <1>6, <1>7, <1>8, <1>9, <1>10, <1>11, <1>12 DEF Next, Kmain

LEMMA InitIInv == Init => IInv
<1>1. SUFFICES ASSUME Init PROVE IInv
  OBVIOUS
<1>2. PICK ram \in RamSizes : mem = NewMemory(ram)
  BY <1>1 DEF Init
<1>3. /\ stage = "heap" /\ off = None /\ tried = 0 /\ procs = [t \in {} |-> None]
      /\ mmio.next = MmioBase /\ failed = FALSE
  BY <1>1 DEF Init
<1>4. NoProcess(procs)
  BY <1>3 DEF NoProcess
<1>5. StageOK
  <2>1. Services \in Seq(STRING) /\ MaxMmio \in Nat /\ MmioBase \in Nat
    BY ProcessesAssumption, Bases
  <2>2. 0 \in 0 .. Len(Services)
    BY <2>1
  <2>3. QED
    <3>1. /\ stage \in BootStages /\ stage \in {"heap", "screen"} /\ off \in Nat
          /\ tried \in 0 .. Len(Services) /\ failed \in BOOLEAN
      BY <1>3, <2>2 DEF BootStages, None
    <3>2. mmio.next \in Nat /\ MmioBase <= mmio.next /\ mmio.next <= MmioBase + MaxMmio
      BY <1>3, <2>1
    <3>3. \A t \in DOMAIN procs : IsProcess(procs[t])
      BY <1>4 DEF NoProcess
    <3>4. QED
      BY <1>3, <1>4, <3>1, <3>2, <3>3 DEF StageOK
<1>6. PICK g, m, o : g = BootHistory /\ m = mem /\ o = None
  OBVIOUS
<1>7. Sound(m, g, None, procs) /\ AllOwned(m, g, None, procs)
  BY <1>2, <1>4, <1>6, BootSound
<1>8. History(g)
  BY <1>3, <1>6, <1>7 DEF History
<1>9. QED
  BY <1>5, <1>8 DEF IInv

LEMMA NextIInv == IInv /\ [Next]_vars => IInv'
<1>1. SUFFICES ASSUME IInv, [Next]_vars PROVE IInv'
  OBVIOUS
<1>2. PICK g : StageOK /\ History(g)
  BY <1>1 DEF IInv
<1>3. Steps(g)
  BY <1>1, <1>2, NextStep
<1>4. StageOK' /\ Advanced(g)
  BY <1>3 DEF Steps
<1>5. QED
  BY <1>4 DEF IInv, History, Advanced

\* Whatever kmain has come to, there is a history of the tables for which they
\* are sound, and everything is owned unless something has failed (pmm.cpp,
\* vmm.cpp, usermode.cpp:77-298, elf.cpp:75-167).
THEOREM AlwaysIInv == Spec => []IInv
BY InitIInv, NextIInv, PTL DEF Spec

----------------------------------------------------------------------------
(* What the invariant says of the processes that exist.                    *)
LEMMA RootFacts ==
  ASSUME NEW g, Sound(mem, g, off, procs), NEW t \in DOMAIN procs, NEW r, r = procs[t].root
  PROVE  /\ Tree(mem.tables, g) /\ r \in DOMAIN mem.tables /\ g.lev[r] = 4 /\ g.own[r] = r
         /\ r # KernelRoot /\ r \notin Others(mem.tables)
         /\ Agrees(mem.tables, r) /\ Complete(mem.tables, g, r, mem.ipcPage, procs[t].name)
<1>1. Tree(mem.tables, g)
  BY SoundFields
<1>2. ProcOK(mem.tables, g, mem.ipcPage, r, procs[t].name)
  BY Zenon DEF Sound
<1>3. Target(mem.tables, g, r) /\ Agrees(mem.tables, r) /\ Complete(mem.tables, g, r, mem.ipcPage, procs[t].name)
  BY <1>2 DEF ProcOK
<1>4. r \in DOMAIN mem.tables /\ g.lev[r] = 4 /\ r # KernelRoot
  BY <1>3 DEF Target
<1>5. g.own[r] = r
  BY <1>1, <1>4, Zenon DEF Tree, TablesTyped
<1>6. r \notin Others(mem.tables)
  BY <1>4 DEF Others
<1>7. QED
  BY <1>1, <1>3, <1>4, <1>5, <1>6

\* Every address space has the kernel's half of the kernel's root.
LEMMA KernelHalfOfIInv == IInv => KernelHalfShared
<1>1. SUFFICES ASSUME IInv, NEW t \in DOMAIN procs, NEW i \in KernelHalf
               PROVE  Child(mem, procs[t].root, i) = Child(mem, KernelRoot, i)
  BY DEF KernelHalfShared, Roots
<1>2. PICK g : Sound(mem, g, off, procs)
  BY <1>1 DEF IInv, History
<1>3. PICK r : r = procs[t].root
  OBVIOUS
<1>4. r \in DOMAIN mem.tables /\ Agrees(mem.tables, r)
  BY <1>2, <1>3, RootFacts
<1>5. TablesOK(mem, g) /\ KernelRoot \in DOMAIN mem.tables
  BY <1>2, Zenon DEF Sound, Good, Tree, TablesTyped
<1>6. r # None /\ KernelRoot # None
  BY <1>4, <1>5 DEF TablesOK
<1>7. /\ i \in DOMAIN mem.tables[r] <=> i \in DOMAIN mem.tables[KernelRoot]
      /\ i \in DOMAIN mem.tables[r] => mem.tables[r][i] = mem.tables[KernelRoot][i]
  BY <1>4 DEF Agrees
<1>8. Child(mem, r, i) = Child(mem, KernelRoot, i)
  BY <1>6, <1>7 DEF Child, Present
<1>9. QED
  BY <1>3, <1>8

LEMMA CountedOfIInv == IInv => CountedFrames
<1>1. SUFFICES ASSUME IInv PROVE CountedFrames
  OBVIOUS
<1>2. PICK g : Sound(mem, g, off, procs)
  BY <1>1 DEF IInv, History
<1>3. PICK R : R = Held(ScreenOf(off), mem)
  OBVIOUS
<1>4. /\ Good(mem, g, R) /\ mem = Clean(mem) /\ mem.heapEnd \in 0 .. HeapMax
      /\ mem.threads \in 0 .. MaxThreads /\ DOMAIN procs \subseteq 1 .. mem.threads - 1
  BY <1>2, <1>3, Zenon DEF Sound
<1>5. /\ Framed(mem) /\ TablesTyped(mem.tables, g) /\ TablesOK(mem, g) /\ AsideOK(mem, R)
  BY <1>4, Zenon DEF Good, Tree
<1>6. /\ mem.ram \in RamSizes /\ mem.taken \subseteq 0 .. mem.ram - 1
      /\ mem.used = Cardinality(mem.taken \cap Managed(mem.ram))
  BY <1>5 DEF Framed
<1>7. IsFiniteSet(mem.taken) /\ None \in mem.taken
  BY <1>5, FramedFacts
<1>8. mem.used \in Nat
  <2>1. IsFiniteSet(mem.taken \cap Managed(mem.ram))
    BY <1>7, FS_Intersection
  <2>2. QED
    BY <1>6, <2>1, FS_CardinalityType
<1>9. DOMAIN mem.tables \subseteq mem.taken
  BY <1>5 DEF TablesOK
<1>10. \A f \in DOMAIN mem.tables : DOMAIN mem.tables[f] \subseteq Idx
  BY <1>5, Zenon DEF TablesTyped
<1>11. \A f \in R : f \in mem.taken
  BY <1>5 DEF AsideOK, Plain
<1>12. mem.ipcPage \in mem.taken
  BY <1>5, <1>7, <1>11 DEF AsideOK
<1>13. StageOK
  BY <1>1 DEF IInv
<1>14. off \in mem.taken
  <2>1. CASE off = None
    BY <1>7, <2>1
  <2>2. CASE off # None
    <3>1. off \in Nat /\ OffPages \in Nat \ {0}
      BY <1>13, ProcessesAssumption DEF StageOK
    <3>2. off \in ScreenOf(off)
      BY <2>2, <3>1 DEF ScreenOf
    <3>3. QED
      BY <1>3, <1>11, <3>2 DEF Held
  <2>3. QED
    BY <2>1, <2>2
<1>15. DOMAIN procs \subseteq 1 .. MaxThreads - 1
  <2>1. MaxThreads \in Nat
    BY ProcessesAssumption
  <2>2. QED
    BY <1>4, <2>1
<1>16. /\ stage \in {"heap", "screen", "acpi", "services", "run", "halted", "fault"}
       /\ tried \in 0 .. Len(Services) /\ failed \in BOOLEAN
  BY <1>13 DEF StageOK, BootStages
<1>17. TypeOK
  BY <1>4, <1>6, <1>8, <1>9, <1>10, <1>12, <1>14, <1>15, <1>16 DEF TypeOK
<1>18. QED
  BY <1>6, <1>17 DEF CountedFrames

\* A page of a process is among those it maps.
LEMMA UserLeaf ==
  ASSUME NEW m, NEW g, Tree(m.tables, g), NEW r \in DOMAIN m.tables, g.lev[r] = 4, r # KernelRoot,
         NEW v, NEW f
  PROVE  <<v, f>> \in Mapped(m, r, UserHalf) <=> Leaf(m.tables, g, r, v, f)
<1>1. UserHalf \subseteq Idx
  BY WholeInside DEF Whole
<1>2. ASSUME <<v, f>> \in Mapped(m, r, UserHalf) PROVE Leaf(m.tables, g, r, v, f)
  <2>1. PICK p : p = <<v, f>>
    OBVIOUS
  <2>2. Leaf(m.tables, g, r, p[1], p[2])
    BY <1>1, <1>2, <2>1, MappedLeaf
  <2>3. QED
    BY <2>1, <2>2
<1>3. ASSUME Leaf(m.tables, g, r, v, f) PROVE <<v, f>> \in Mapped(m, r, UserHalf)
  <2>1. v \in Pages /\ Pml4Index(v) \in UserHalf
    BY <1>3, LeafPage
  <2>2. QED
    BY <1>1, <1>3, <2>1, LeafMapped
<1>4. QED
  BY <1>2, <1>3

LEMMA UserPair ==
  ASSUME NEW m, NEW g, Tree(m.tables, g), NEW r \in DOMAIN m.tables, g.lev[r] = 4, r # KernelRoot,
         NEW p \in Mapped(m, r, UserHalf)
  PROVE  IsPair(p)
<1>1. UserHalf \subseteq Idx
  BY WholeInside DEF Whole
<1>2. QED
  BY <1>1, MappedLeaf

\* What a process maps does not change.
LEMMA SameMapped ==
  ASSUME NEW m, NEW g, Tree(m.tables, g), NEW r \in DOMAIN m.tables, g.lev[r] = 4, r # KernelRoot,
         NEW a, NEW h, Tree(a.tables, h), NEW O, r \notin O, NEW V, Moved(m.tables, g, a.tables, h, O, V)
  PROVE  Mapped(a, r, UserHalf) = Mapped(m, r, UserHalf)
<1>1. r \in DOMAIN a.tables /\ h.lev[r] = 4
  BY RootUnmoved
<1>2. \A v, f : Leaf(m.tables, g, r, v, f) <=> Leaf(a.tables, h, r, v, f)
  BY LeafSame
<1>3. \A v, f : <<v, f>> \in Mapped(m, r, UserHalf) <=> <<v, f>> \in Mapped(a, r, UserHalf)
  BY <1>1, <1>2, UserLeaf
<1>4. \A p \in Mapped(m, r, UserHalf) : IsPair(p)
  BY UserPair
<1>5. \A p \in Mapped(a, r, UserHalf) : IsPair(p)
  BY <1>1, UserPair
<1>6. QED
  BY <1>3, <1>4, <1>5 DEF IsPair

LEMMA SpacesOfStep ==
  ASSUME StageOK, NEW g, History(g), [Next]_vars, NEW t \in DOMAIN procs
  PROVE  UserPages(procs[t].root)' = UserPages(procs[t].root)
<1>1. Advanced(g) /\ RootsStay
  BY NextStep DEF Steps
<1>2. PICK r : r = procs[t].root
  OBVIOUS
<1>3. procs'[t].root = r
  BY <1>1, <1>2 DEF RootsStay
<1>4. PICK h : Sound(mem', h, off', procs') /\ Steady(mem, g, mem', h)
  BY <1>1 DEF Advanced
<1>5. Sound(mem, g, off, procs)
  BY DEF History
<1>6. /\ Tree(mem.tables, g) /\ r \in DOMAIN mem.tables /\ g.lev[r] = 4
      /\ r # KernelRoot /\ r \notin Others(mem.tables)
  BY <1>2, <1>5, RootFacts
<1>7. PICK m, a : m = mem /\ a = mem'
  OBVIOUS
<1>8. Tree(a.tables, h)
  BY <1>4, <1>7, SoundFields
<1>9. Moved(m.tables, g, a.tables, h, Others(m.tables), WorkPages)
  BY <1>4, <1>7 DEF Steady
<1>10. Mapped(a, r, UserHalf) = Mapped(m, r, UserHalf)
  BY <1>6, <1>7, <1>8, <1>9, SameMapped
<1>11. QED
  BY <1>2, <1>3, <1>7, <1>10 DEF UserPages

LEMMA LeavesThere ==
  ASSUME NEW m, NEW g, Tree(m.tables, g), NEW r \in DOMAIN m.tables, g.lev[r] = 4, r # KernelRoot,
         NEW V, \A v \in V : \E f : Leaf(m.tables, g, r, v, f)
  PROVE  V \subseteq PagesIn(Mapped(m, r, UserHalf))
<1>1. SUFFICES ASSUME NEW v \in V PROVE v \in PagesIn(Mapped(m, r, UserHalf))
  OBVIOUS
<1>2. PICK f : Leaf(m.tables, g, r, v, f)
  OBVIOUS
<1>3. <<v, f>> \in Mapped(m, r, UserHalf)
  BY <1>2, UserLeaf
<1>4. <<v, f>>[1] = v
  OBVIOUS
<1>5. QED
  BY <1>3, <1>4 DEF PagesIn

\* Every process is complete.
LEMMA CompleteOfIInv == IInv => ProcessComplete
<1>1. SUFFICES ASSUME IInv, NEW t \in DOMAIN procs, NEW S, S = UserPages(procs[t].root),
                      NEW name, name = procs[t].name
               PROVE  /\ StackBase .. StackBase + StackPages - 1 \subseteq {p[1] : p \in S}
                      /\ <<IpcVirt, mem.ipcPage>> \in S
                      /\ IF name \in DOMAIN Programs
                         THEN \A i \in DOMAIN Programs[name] :
                                \/ Programs[name][i].n = 0
                                \/ Programs[name][i].v .. Programs[name][i].v + Programs[name][i].n - 1
                                     \subseteq {p[1] : p \in S}
                         ELSE /\ CodeBase .. CodeBase + TextPages - 1 \subseteq {p[1] : p \in S}
                              /\ DataBase .. DataBase + DataPages - 1 \subseteq {p[1] : p \in S}
  BY DEF ProcessComplete
<1>2. PICK g : Sound(mem, g, off, procs)
  BY <1>1 DEF IInv, History
<1>3. PICK r : r = procs[t].root
  OBVIOUS
<1>4. /\ Tree(mem.tables, g) /\ r \in DOMAIN mem.tables /\ g.lev[r] = 4 /\ r # KernelRoot
      /\ Complete(mem.tables, g, r, mem.ipcPage, name)
  BY <1>1, <1>2, <1>3, RootFacts
<1>5. S = Mapped(mem, r, UserHalf)
  BY <1>1, <1>3 DEF UserPages
<1>6. PICK m : m = mem
  OBVIOUS
<1>7. ASSUME NEW V, \A v \in V : \E f : Leaf(m.tables, g, r, v, f)
      PROVE  V \subseteq {p[1] : p \in S}
  <2>1. V \subseteq PagesIn(Mapped(m, r, UserHalf))
    BY <1>4, <1>6, <1>7, LeavesThere
  <2>2. QED
    BY <1>5, <1>6, <2>1 DEF PagesIn
<1>8. StackBase .. StackBase + StackPages - 1 \subseteq {p[1] : p \in S}
  <2>1. \A v \in StackPart : \E f : Leaf(m.tables, g, r, v, f)
    BY <1>4, <1>6 DEF Complete
  <2>2. QED
    BY <1>7, <2>1 DEF StackPart, Run
<1>9. <<IpcVirt, mem.ipcPage>> \in S
  <2>1. Leaf(m.tables, g, r, IpcVirt, m.ipcPage)
    BY <1>4, <1>6 DEF Complete
  <2>2. <<IpcVirt, m.ipcPage>> \in Mapped(m, r, UserHalf)
    BY <1>4, <1>6, <2>1, UserLeaf
  <2>3. QED
    BY <1>5, <1>6, <2>2
<1>10. ASSUME name \in DOMAIN Programs, NEW i \in DOMAIN Programs[name]
       PROVE  Programs[name][i].v .. Programs[name][i].v + Programs[name][i].n - 1
                \subseteq {p[1] : p \in S}
  <2>1. /\ Programs[name][i].valid = TRUE
        /\ \A v \in SegmentPages(Programs[name][i]) : \E f : Leaf(m.tables, g, r, v, f)
    BY <1>4, <1>6, <1>10 DEF Complete
  <2>2. SegmentPages(Programs[name][i]) \subseteq {p[1] : p \in S}
    BY <1>7, <2>1
  <2>3. QED
    BY <2>1, <2>2 DEF SegmentPages
<1>11. ASSUME name \notin DOMAIN Programs
       PROVE  /\ CodeBase .. CodeBase + TextPages - 1 \subseteq {p[1] : p \in S}
              /\ DataBase .. DataBase + DataPages - 1 \subseteq {p[1] : p \in S}
  <2>1. \A v \in ImagePages : \E f : Leaf(m.tables, g, r, v, f)
    BY <1>4, <1>6, <1>11 DEF Complete
  <2>2. ImagePages \subseteq {p[1] : p \in S}
    BY <1>7, <2>1
  <2>3. QED
    BY <2>2 DEF ImagePages, Run
<1>12. QED
  BY <1>8, <1>9, <1>10, <1>11

----------------------------------------------------------------------------
(* Whose a frame is.                                                       *)

\* A page of a process or of the heap is its owner's alone, or it is shared
\* and where it belongs.
LEMMA GuardsLeaf ==
  ASSUME NEW m, NEW g, NEW R, Good(m, g, R), NEW o, NEW v, NEW f,
         Leaf(m.tables, g, o, v, f), Guards(o, v)
  PROVE  /\ f \notin Common(m) => Plain(m, f) /\ f \notin R
         /\ f \in Common(m) => o # KernelRoot /\ Placed(m, v, f)
<1>1. PagesOK(m, g, R)
  BY Zenon DEF Good
<1>2. PICK t \in DOMAIN m.tables : \E i \in DOMAIN m.tables[t] :
        g.lev[t] = 1 /\ g.own[t] = o /\ Sub(g.key[t], i) = v /\ m.tables[t][i].frame = f
  BY DEF Leaf
<1>3. PICK i \in DOMAIN m.tables[t] :
        g.lev[t] = 1 /\ g.own[t] = o /\ Sub(g.key[t], i) = v /\ m.tables[t][i].frame = f
  BY <1>2
<1>4. Guarded(m.tables, g, t, i)
  BY <1>3 DEF Guarded, Guards
<1>5. QED
  BY <1>1, <1>3, <1>4 DEF PagesOK

\* Two pages in one frame that is not shared are one.
LEMMA LeafUnique ==
  ASSUME NEW m, NEW g, NEW R, Good(m, g, R), NEW f, f \notin Common(m),
         NEW o, NEW v, Leaf(m.tables, g, o, v, f), Guards(o, v),
         NEW p, NEW w, Leaf(m.tables, g, p, w, f), Guards(p, w)
  PROVE  o = p /\ v = w
<1>1. PagesApart(m, g)
  BY Zenon DEF Good
<1>2. PICK t \in DOMAIN m.tables : \E i \in DOMAIN m.tables[t] :
        g.lev[t] = 1 /\ g.own[t] = o /\ Sub(g.key[t], i) = v /\ m.tables[t][i].frame = f
  BY DEF Leaf
<1>3. PICK i \in DOMAIN m.tables[t] :
        g.lev[t] = 1 /\ g.own[t] = o /\ Sub(g.key[t], i) = v /\ m.tables[t][i].frame = f
  BY <1>2
<1>4. PICK s \in DOMAIN m.tables : \E j \in DOMAIN m.tables[s] :
        g.lev[s] = 1 /\ g.own[s] = p /\ Sub(g.key[s], j) = w /\ m.tables[s][j].frame = f
  BY DEF Leaf
<1>5. PICK j \in DOMAIN m.tables[s] :
        g.lev[s] = 1 /\ g.own[s] = p /\ Sub(g.key[s], j) = w /\ m.tables[s][j].frame = f
  BY <1>4
<1>6. Guarded(m.tables, g, t, i) /\ Guarded(m.tables, g, s, j)
  BY <1>3, <1>5 DEF Guarded, Guards
<1>7. t = s /\ i = j
  BY <1>1, <1>3, <1>5, <1>6 DEF PagesApart
<1>8. QED
  BY <1>3, <1>5, <1>7

\* A shared frame is in one place.
LEMMA PlacedOnce ==
  ASSUME NEW m, NEW g, NEW R, Good(m, g, R), NEW f, NEW v, NEW w, Placed(m, v, f), Placed(m, w, f)
  PROVE  v = w
<1>1. m.ipcPage # None => m.ipcPage \notin TextFrames /\ m.ipcPage \notin DataFrames
  <2>1. AsideOK(m, R)
    BY Zenon DEF Good
  <2>2. m.ipcPage # None => m.ipcPage \notin Image
    BY <2>1 DEF AsideOK, Plain
  <2>3. QED
    BY <2>2, ImageAssumption
<1>2. TextFrames \cap DataFrames = {}
  BY ImageAssumption
<1>3. QED
  BY <1>1, <1>2 DEF Placed

\* What is shared is taken.
LEMMA CommonTaken ==
  ASSUME NEW m, NEW g, NEW R, Good(m, g, R)
  PROVE  Common(m) \subseteq m.taken
<1>1. Framed(m) /\ AsideOK(m, R)
  BY Zenon DEF Good
<1>2. Image \subseteq m.taken
  BY <1>1 DEF Framed
<1>3. None \in m.taken
  BY <1>1, FramedFacts
<1>4. m.ipcPage \in m.taken
  BY <1>1, <1>3 DEF AsideOK, Plain
<1>5. QED
  BY <1>2, <1>4, ImageAssumption DEF Common

\* The frames of a process that are not shared are its own.
LEMMA UserFrames ==
  ASSUME NEW m, NEW g, NEW R, Good(m, g, R), NEW r, Target(m.tables, g, r),
         NEW f, f \in Frames(Mapped(m, r, UserHalf))
  PROVE  /\ f \notin Common(m) => OwnPage(m, g, R, r, f)
         /\ f \in m.taken
<1>1. PICK p \in Mapped(m, r, UserHalf) : f = p[2]
  BY DEF Frames
<1>2. PICK v : v = p[1]
  OBVIOUS
<1>3. r \in DOMAIN m.tables /\ g.lev[r] = 4 /\ r # KernelRoot
  BY DEF Target
<1>4. Tree(m.tables, g)
  BY Zenon DEF Good
<1>5. UserHalf \subseteq Idx
  BY WholeInside DEF Whole
<1>6. Leaf(m.tables, g, r, p[1], p[2])
  BY <1>3, <1>4, <1>5, MappedLeaf
<1>7. Leaf(m.tables, g, r, v, f) /\ Guards(r, v)
  BY <1>1, <1>2, <1>3, <1>6 DEF Guards
<1>8. f \notin Common(m) => Plain(m, f) /\ f \notin R
  BY <1>7, GuardsLeaf
<1>9. f \in Common(m) => f \in m.taken
  BY CommonTaken
<1>10. QED
  BY <1>7, <1>8, <1>9 DEF OwnPage, Plain

\* No two pages of a process are in one frame.
LEMMA UserInjective ==
  ASSUME NEW m, NEW g, NEW R, Good(m, g, R), NEW r, Target(m.tables, g, r),
         NEW p \in Mapped(m, r, UserHalf), NEW q \in Mapped(m, r, UserHalf), p[2] = q[2]
  PROVE  p = q
<1>1. PICK v, w, f : v = p[1] /\ w = q[1] /\ f = p[2]
  OBVIOUS
<1>2. r \in DOMAIN m.tables /\ g.lev[r] = 4 /\ r # KernelRoot
  BY DEF Target
<1>3. Tree(m.tables, g)
  BY Zenon DEF Good
<1>4. UserHalf \subseteq Idx
  BY WholeInside DEF Whole
<1>5. Leaf(m.tables, g, r, p[1], p[2]) /\ IsPair(p)
  BY <1>2, <1>3, <1>4, MappedLeaf
<1>6. Leaf(m.tables, g, r, q[1], q[2]) /\ IsPair(q)
  BY <1>2, <1>3, <1>4, MappedLeaf
<1>7. /\ Leaf(m.tables, g, r, v, f) /\ Leaf(m.tables, g, r, w, f)
      /\ Guards(r, v) /\ Guards(r, w)
  BY <1>1, <1>2, <1>5, <1>6 DEF Guards
<1>8. CASE f \notin Common(m)
  <2>1. v = w
    BY <1>7, <1>8, LeafUnique
  <2>2. QED
    BY <1>1, <1>5, <1>6, <2>1 DEF IsPair
<1>9. CASE f \in Common(m)
  <2>1. Placed(m, v, f)
    BY <1>7, <1>9, GuardsLeaf
  <2>2. Placed(m, w, f)
    BY <1>7, <1>9, GuardsLeaf
  <2>3. v = w
    BY <2>1, <2>2, PlacedOnce
  <2>4. QED
    BY <1>1, <1>5, <1>6, <2>3 DEF IsPair
<1>10. QED
  BY <1>8, <1>9

LEMMA UserCounted ==
  ASSUME NEW m, NEW g, NEW R, Good(m, g, R), NEW r, Target(m.tables, g, r),
         NEW S, S = Mapped(m, r, UserHalf)
  PROVE  Cardinality(Frames(S)) = Cardinality(S)
<1>1. \A p, q \in S : p[2] = q[2] => p = q
  BY UserInjective
<1>2. IsFiniteSet(Frames(S))
  <2>1. Frames(S) \subseteq m.taken
    BY UserFrames
  <2>2. Framed(m)
    BY Zenon DEF Good
  <2>3. IsFiniteSet(m.taken)
    BY <2>2, FramedFacts
  <2>4. QED
    BY <2>1, <2>3, FS_Subset
<1>3. PICK B : B = [f \in Frames(S) |-> CHOOSE p \in S : p[2] = f]
  OBVIOUS
<1>4. ASSUME NEW f \in Frames(S) PROVE B[f] \in S /\ B[f][2] = f
  BY <1>3 DEF Frames
<1>5. B \in [Frames(S) -> S]
  BY <1>3, <1>4
<1>6. \A f, h \in Frames(S) : B[f] = B[h] => f = h
  BY <1>4
<1>7. \A p \in S : \E f \in Frames(S) : B[f] = p
  <2>1. SUFFICES ASSUME NEW p \in S PROVE B[p[2]] = p /\ p[2] \in Frames(S)
    OBVIOUS
  <2>2. p[2] \in Frames(S)
    BY DEF Frames
  <2>3. B[p[2]] \in S /\ B[p[2]][2] = p[2]
    BY <1>4, <2>2
  <2>4. QED
    BY <1>1, <2>2, <2>3
<1>8. DOMAIN B = Frames(S)
  BY <1>3
<1>9. B \in Bijection(Frames(S), S)
  <2>1. B \in Injection(Frames(S), S)
    BY <1>5, <1>6, <1>8 DEF Injection, IsInjective
  <2>2. B \in Surjection(Frames(S), S)
    BY <1>5, <1>7 DEF Surjection
  <2>3. QED
    BY <2>1, <2>2 DEF Bijection
<1>10. ExistsBijection(Frames(S), S)
  BY <1>9 DEF ExistsBijection
<1>11. QED
  BY <1>2, <1>10, FS_Bijection

LEMMA SpaceTables ==
  ASSUME NEW m, NEW g, NEW R, Good(m, g, R), NEW o \in DOMAIN m.tables, g.lev[o] = 4,
         NEW I, I \subseteq Idx, o = KernelRoot \/ I \subseteq UserHalf,
         NEW c \in {o} \cup Tables(m, o, I)
  PROVE  OwnTable(m, g, o, c) /\ c \in m.taken /\ c # None
<1>1. Tree(m.tables, g) /\ TablesOK(m, g)
  BY Zenon DEF Good
<1>2. g.own[o] = o
  BY <1>1, Zenon DEF Tree, TablesTyped
<1>3. c \in DOMAIN m.tables /\ g.own[c] = o
  <2>1. CASE c = o
    BY <1>2, <2>1
  <2>2. CASE c \in Tables(m, o, I)
    BY <1>1, <2>2, TablesOwned
  <2>3. QED
    BY <2>1, <2>2
<1>4. QED
  BY <1>1, <1>3 DEF OwnTable, TablesOK

\* The tables of a process are in frames that the kernel's image is not in.
LEMMA UserTables ==
  ASSUME NEW m, NEW g, NEW R, Good(m, g, R), NEW r, Target(m.tables, g, r),
         NEW c \in {r} \cup Tables(m, r, UserHalf)
  PROVE  /\ OwnTable(m, g, r, c) /\ c \in m.taken /\ c # None
         /\ c \notin Image /\ c \in Managed(m.ram)
<1>1. r \in DOMAIN m.tables /\ g.lev[r] = 4 /\ r # KernelRoot
  BY DEF Target
<1>2. UserHalf \subseteq Idx
  BY WholeInside DEF Whole
<1>3. OwnTable(m, g, r, c) /\ c \in m.taken /\ c # None
  BY <1>1, <1>2, SpaceTables
<1>4. TablesOK(m, g)
  BY Zenon DEF Good
<1>5. QED
  BY <1>1, <1>3, <1>4 DEF OwnTable, TablesOK

LEMMA HeapLeaf ==
  ASSUME NEW T, NEW g, Tree(T, g), NEW v, NEW f, Leaf(T, g, KernelRoot, v, f),
         Pml4Index(v) = W - 3, v < TempWindow
  PROVE  InHeap(v)
<1>1. v \in Pages
  BY LeafPage
<1>2. PICK j, k, l : j = PdptIndex(v) /\ k = PdIndex(v) /\ l = PtIndex(v)
  OBVIOUS
<1>3. j \in Idx /\ k \in Idx /\ l \in Idx /\ Sub(Sub(Sub(Sub(0, W - 3), j), k), l) = v
  BY <1>1, <1>2, Digits DEF Pages
<1>4. HeapStart <= Sub(Sub(Sub(Sub(0, W - 3), j), k), l)
  BY <1>3, HeapDigits
<1>5. QED
  BY <1>3, <1>4 DEF InHeap

LEMMA HeapFramesOwned ==
  ASSUME NEW m, NEW g, NEW R, Good(m, g, R), NEW f \in HeapPart(m)
  PROVE  OwnPage(m, g, R, KernelRoot, f)
<1>1. Tree(m.tables, g)
  BY Zenon DEF Good
<1>2. KernelRoot \in DOMAIN m.tables /\ g.lev[KernelRoot] = 4
  BY <1>1, Zenon DEF Tree, TablesTyped
<1>3. W - 3 \in Idx
  BY Bases DEF KernelHalf, Idx
<1>4. PICK p \in Mapped(m, KernelRoot, {W - 3}) : p[1] < TempWindow /\ f = p[2]
  BY DEF HeapPart, Frames
<1>5. PICK I : I = {W - 3} /\ I \subseteq Idx
  BY <1>3
<1>6. /\ Leaf(m.tables, g, KernelRoot, p[1], p[2])
      /\ Pml4Index(p[1]) \in I
  BY <1>1, <1>2, <1>4, <1>5, MappedLeaf
<1>7. PICK v : v = p[1]
  OBVIOUS
<1>8. Leaf(m.tables, g, KernelRoot, v, f) /\ Pml4Index(v) = W - 3 /\ v < TempWindow
  BY <1>4, <1>5, <1>6, <1>7
<1>9. InHeap(v)
  BY <1>1, <1>8, HeapLeaf
<1>10. Guards(KernelRoot, v)
  BY <1>9 DEF Guards
<1>11. /\ f \notin Common(m) => Plain(m, f) /\ f \notin R
       /\ f \in Common(m) => KernelRoot # KernelRoot /\ Placed(m, v, f)
  BY <1>8, <1>10, GuardsLeaf
<1>12. QED
  BY <1>8, <1>10, <1>11 DEF OwnPage

\* Pages and tables of two owners are in different frames.
LEMMA OwnersApart ==
  ASSUME NEW m, NEW g, NEW R, Good(m, g, R), NEW o, NEW p, o # p, NEW f
  PROVE  /\ ~(OwnPage(m, g, R, o, f) /\ OwnPage(m, g, R, p, f))
         /\ ~(OwnTable(m, g, o, f) /\ OwnTable(m, g, p, f))
<1>1. ASSUME OwnPage(m, g, R, o, f), OwnPage(m, g, R, p, f) PROVE FALSE
  <2>1. PICK v : Leaf(m.tables, g, o, v, f) /\ Guards(o, v) /\ f \notin Common(m)
    BY <1>1 DEF OwnPage
  <2>2. PICK w : Leaf(m.tables, g, p, w, f) /\ Guards(p, w)
    BY <1>1 DEF OwnPage
  <2>3. o = p
    BY <2>1, <2>2, LeafUnique
  <2>4. QED
    BY <2>3
<1>2. QED
  BY <1>1 DEF OwnTable

\* What a frame that belongs to a page alone is not.
LEMMA PageAlone ==
  ASSUME NEW m, NEW g, NEW R, NEW o, NEW f, OwnPage(m, g, R, o, f)
  PROVE  /\ f \in m.taken /\ f \in Managed(m.ram) /\ f \notin Image /\ f \notin R
         /\ f \notin Common(m) /\ f \notin DOMAIN m.tables
  BY DEF OwnPage, Plain

LEMMA OwnersKnown ==
  ASSUME NEW g, Sound(mem, g, off, procs), NEW R, R = Held(ScreenOf(off), mem)
  PROVE  Good(mem, g, R) /\ Owners(g, R)
<1>1. Good(mem, g, R)
  BY SoundFields
<1>2. PICK m : m = mem
  OBVIOUS
<1>3. Good(m, g, R)
  BY <1>1, <1>2
<1>4. \A r \in Roots : Target(m.tables, g, r)
  <2>1. SUFFICES ASSUME NEW t \in DOMAIN procs, NEW r, r = procs[t].root
                 PROVE  Target(m.tables, g, r)
    BY DEF Roots
  <2>2. r \in DOMAIN mem.tables /\ g.lev[r] = 4 /\ r # KernelRoot
    BY <2>1, RootFacts
  <2>3. QED
    BY <1>2, <2>2 DEF Target
<1>5. \A r \in Roots : Cardinality(Frames(UserPages(r))) = Cardinality(UserPages(r))
  <2>1. ASSUME NEW r \in Roots, NEW S, S = Mapped(m, r, UserHalf)
        PROVE  Cardinality(Frames(S)) = Cardinality(S)
    BY <1>3, <1>4, <2>1, UserCounted
  <2>2. QED
    BY <1>2, <2>1 DEF UserPages
<1>6. \A r \in Roots : \A f \in OwnFrames(r) : OwnPage(mem, g, R, r, f)
  <2>1. ASSUME NEW r \in Roots, NEW f \in Frames(Mapped(m, r, UserHalf)), f \notin Common(m)
        PROVE  OwnPage(m, g, R, r, f)
    BY <1>3, <1>4, <2>1, UserFrames
  <2>2. QED
    BY <1>2, <2>1 DEF OwnFrames, UserPages, Shared, Common
<1>7. \A r \in Roots : \A c \in OwnTables(r) :
        /\ OwnTable(mem, g, r, c) /\ c \in mem.taken /\ c # None
        /\ c \notin Image /\ c \in Managed(mem.ram)
  <2>1. ASSUME NEW r \in Roots, NEW c \in {r} \cup Tables(m, r, UserHalf)
        PROVE  /\ OwnTable(m, g, r, c) /\ c \in m.taken /\ c # None
               /\ c \notin Image /\ c \in Managed(m.ram)
    BY <1>3, <1>4, UserTables
  <2>2. QED
    BY <1>2, <2>1 DEF OwnTables
<1>8. \A f \in HeapFrames : OwnPage(mem, g, R, KernelRoot, f)
  <2>1. \A f \in HeapPart(m) : OwnPage(m, g, R, KernelRoot, f)
    BY <1>3, HeapFramesOwned
  <2>2. QED
    BY <1>2, <2>1 DEF HeapFrames, HeapPart
<1>9. \A c \in KernelTables : OwnTable(mem, g, KernelRoot, c) /\ c \in mem.taken
  <2>1. Tree(m.tables, g)
    BY <1>3, Zenon DEF Good
  <2>2. KernelRoot \in DOMAIN m.tables /\ g.lev[KernelRoot] = 4
    BY <2>1, Zenon DEF Tree, TablesTyped
  <2>3. ASSUME NEW c \in {KernelRoot} \cup Tables(m, KernelRoot, Idx)
        PROVE  OwnTable(m, g, KernelRoot, c) /\ c \in m.taken
    BY <1>3, <2>2, SpaceTables
  <2>4. QED
    BY <1>2, <2>3 DEF KernelTables
<1>10. AsideOK(m, R)
  BY <1>3, Zenon DEF Good
<1>11. \A f \in ScreenFrames : f \in R /\ Plain(mem, f)
  BY <1>2, <1>10 DEF ScreenFrames, ScreenOf, Held, AsideOK
<1>12. \A f \in Shared : f \in Image \/ f = None \/ (f \in R /\ Plain(mem, f))
  BY <1>2, <1>10, ImageAssumption DEF Shared, AsideOK
<1>13. QED
  BY <1>1, <1>2, <1>4, <1>5, <1>6, <1>7, <1>8, <1>9, <1>11, <1>12 DEF Owners

LEMMA OneOwnerOfIInv == IInv => OneOwner
<1>1. SUFFICES ASSUME IInv PROVE OneOwner
  OBVIOUS
<1>2. PICK g : Sound(mem, g, off, procs)
  BY <1>1 DEF IInv, History
<1>3. PICK R : R = Held(ScreenOf(off), mem)
  OBVIOUS
<1>4. Good(mem, g, R) /\ Owners(g, R)
  BY <1>2, <1>3, OwnersKnown
<1>5. \A r \in Roots : Cardinality(Frames(UserPages(r))) = Cardinality(UserPages(r))
  BY <1>4 DEF Owners
<1>6. \A r \in Roots : r # KernelRoot
  BY <1>4 DEF Owners, Target
<1>7. ASSUME NEW r \in Roots, NEW f \in OwnFrames(r)
      PROVE  /\ OwnPage(mem, g, R, r, f) /\ f \in mem.taken /\ f \in Managed(mem.ram)
             /\ f \notin Image /\ f \notin R /\ f \notin DOMAIN mem.tables /\ f \notin Shared
  <2>1. OwnPage(mem, g, R, r, f)
    BY <1>4 DEF Owners
  <2>2. QED
    BY <2>1, PageAlone DEF OwnFrames
<1>8. ASSUME NEW r \in Roots, NEW c \in OwnTables(r)
      PROVE  /\ OwnTable(mem, g, r, c) /\ c \in mem.taken /\ c # None
             /\ c \notin Image /\ c \in Managed(mem.ram) /\ c \in DOMAIN mem.tables
  BY <1>4 DEF Owners, OwnTable
<1>9. ASSUME NEW f \in HeapFrames
      PROVE  /\ OwnPage(mem, g, R, KernelRoot, f) /\ f \in mem.taken
             /\ f \notin R /\ f \notin DOMAIN mem.tables
  <2>1. OwnPage(mem, g, R, KernelRoot, f)
    BY <1>4 DEF Owners
  <2>2. QED
    BY <2>1, PageAlone
<1>10. ASSUME NEW c \in KernelTables
       PROVE  OwnTable(mem, g, KernelRoot, c) /\ c \in mem.taken /\ c \in DOMAIN mem.tables
  BY <1>4 DEF Owners, OwnTable
<1>11. ASSUME NEW f \in ScreenFrames
       PROVE  f \in R /\ f \in mem.taken /\ f \notin DOMAIN mem.tables
  BY <1>4 DEF Owners, Plain
<1>12. ASSUME NEW f \in Shared
       PROVE  f \in Image \/ f = None \/ f \notin DOMAIN mem.tables
  BY <1>4 DEF Owners, Plain
<1>13. \A r \in Roots : OwnFrames(r) \cap OwnTables(r) = {}
  BY <1>7, <1>8
<1>14. \A r \in Roots : (OwnFrames(r) \cup OwnTables(r)) \cap (KernelFrames \cup Shared) = {}
  <2>1. ASSUME NEW r \in Roots, NEW f \in OwnFrames(r) PROVE f \notin KernelFrames \cup Shared
    <3>1. f \notin HeapFrames
      BY <1>4, <1>6, <1>7, <1>9, OwnersApart
    <3>2. QED
      BY <1>7, <1>10, <1>11, <2>1, <3>1 DEF KernelFrames
  <2>2. ASSUME NEW r \in Roots, NEW c \in OwnTables(r) PROVE c \notin KernelFrames \cup Shared
    <3>1. c \notin KernelTables
      BY <1>4, <1>6, <1>8, <1>10, OwnersApart
    <3>2. QED
      BY <1>8, <1>9, <1>11, <1>12, <2>2, <3>1 DEF KernelFrames
  <2>3. QED
    BY <2>1, <2>2
<1>15. \A r \in Roots : OwnFrames(r) \cup OwnTables(r) \subseteq mem.taken \cap Managed(mem.ram)
  BY <1>7, <1>8
<1>16. ASSUME NEW r \in Roots, NEW s \in Roots \ {r}
       PROVE  (OwnFrames(r) \cup OwnTables(r)) \cap (OwnFrames(s) \cup OwnTables(s)) = {}
  <2>1. s \in Roots /\ r # s
    OBVIOUS
  <2>2. ASSUME NEW f \in OwnFrames(r), f \in OwnFrames(s) PROVE FALSE
    <3>1. OwnPage(mem, g, R, r, f) /\ OwnPage(mem, g, R, s, f)
      BY <1>7, <2>1, <2>2
    <3>2. QED
      BY <1>4, <2>1, <3>1, OwnersApart
  <2>3. ASSUME NEW f \in OwnTables(r), f \in OwnTables(s) PROVE FALSE
    <3>1. OwnTable(mem, g, r, f) /\ OwnTable(mem, g, s, f)
      BY <1>8, <2>1, <2>3
    <3>2. QED
      BY <1>4, <2>1, <3>1, OwnersApart
  <2>4. OwnFrames(r) \cap OwnTables(s) = {} /\ OwnTables(r) \cap OwnFrames(s) = {}
    BY <1>7, <1>8, <2>1
  <2>5. QED
    BY <2>2, <2>3, <2>4
<1>17. KernelTables \cap (HeapFrames \cup ScreenFrames) = {}
  BY <1>9, <1>10, <1>11
<1>18. HeapFrames \cap ScreenFrames = {}
  BY <1>9, <1>11
<1>19. KernelFrames \subseteq mem.taken
  <2>1. Framed(mem)
    BY <1>4, Zenon DEF Good
  <2>2. Image \subseteq mem.taken
    BY <2>1 DEF Framed
  <2>3. QED
    BY <1>9, <1>10, <1>11, <2>2 DEF KernelFrames
<1>20. QED
  BY <1>5, <1>13, <1>14, <1>15, <1>16, <1>17, <1>18, <1>19, Zenon DEF OneOwner

LEMMA TableUsed ==
  ASSUME NEW m, m = mem, NEW g, Tree(m.tables, g), RootsKnown(m, g),
         NEW f \in DOMAIN m.tables
  PROVE  Used(f)
<1>1. PICK o : o = g.own[f]
  OBVIOUS
<1>2. o \in DOMAIN m.tables /\ g.lev[o] = 4
  BY <1>1, Zenon DEF Tree, TablesTyped
<1>3. OwnTable(m, g, o, f)
  BY <1>1 DEF OwnTable
<1>4. CASE o = KernelRoot
  <2>1. Whole(o, Idx)
    BY <1>4 DEF Whole
  <2>2. f = o \/ f \in Tables(m, o, Idx)
    BY <1>2, <1>3, <2>1, OwnedTables DEF OwnTable
  <2>3. QED
    BY <1>4, <2>2 DEF Used, KernelFrames, KernelTables
<1>5. CASE o # KernelRoot
  <2>1. Whole(o, UserHalf)
    BY <1>5 DEF Whole
  <2>2. f = o \/ f \in Tables(m, o, UserHalf)
    BY <1>2, <1>3, <2>1, OwnedTables DEF OwnTable
  <2>3. o \in Roots
    BY <1>2, <1>5 DEF RootsKnown, IsRoot
  <2>4. QED
    BY <2>2, <2>3 DEF Used, OwnTables
<1>6. QED
  BY <1>4, <1>5

LEMMA LeafUsed ==
  ASSUME NEW m, m = mem, NEW g, Tree(m.tables, g), RootsKnown(m, g),
         NEW t \in DOMAIN m.tables, NEW i \in DOMAIN m.tables[t], Guarded(m.tables, g, t, i),
         NEW f, f = m.tables[t][i].frame
  PROVE  Used(f)
<1>1. PICK o, v : o = g.own[t] /\ v = Sub(g.key[t], i)
  OBVIOUS
<1>2. o \in DOMAIN m.tables /\ g.lev[o] = 4 /\ KernelRoot \in DOMAIN m.tables /\ g.lev[KernelRoot] = 4
  BY <1>1, Zenon DEF Tree, TablesTyped
<1>3. Leaf(m.tables, g, o, v, f)
  BY <1>1 DEF Leaf, Guarded
<1>4. v \in Pages
  BY <1>3, LeafPage
<1>5. CASE o = KernelRoot
  <2>1. InHeap(v)
    BY <1>1, <1>5 DEF Guarded
  <2>2. v \in Nat
    BY <1>4, Bases DEF Pages
  <2>3. Pml4Index(v) = W - 3 /\ v < TempWindow
    BY <2>1, <2>2, KernelPage DEF InHeap
  <2>4. W - 3 \in Idx
    BY Bases DEF KernelHalf, Idx
  <2>5. PICK I : I = {W - 3} /\ I \subseteq Idx /\ Pml4Index(v) \in I
    BY <2>3, <2>4
  <2>6. Leaf(m.tables, g, KernelRoot, v, f)
    BY <1>3, <1>5
  <2>7. <<v, f>> \in Mapped(m, KernelRoot, I)
    BY <1>2, <1>4, <2>5, <2>6, LeafMapped
  <2>8. <<v, f>>[1] = v /\ <<v, f>>[2] = f
    OBVIOUS
  <2>9. f \in HeapFrames
    BY <2>3, <2>5, <2>7, <2>8 DEF HeapFrames, Frames
  <2>10. QED
    BY <2>9 DEF Used, KernelFrames
<1>6. CASE o # KernelRoot
  <2>1. <<v, f>> \in Mapped(m, o, UserHalf)
    BY <1>2, <1>3, <1>6, UserLeaf
  <2>2. o \in Roots
    BY <1>2, <1>6 DEF RootsKnown, IsRoot
  <2>3. <<v, f>>[2] = f
    OBVIOUS
  <2>4. f \in Frames(UserPages(o))
    BY <2>1, <2>3 DEF UserPages, Frames
  <2>5. QED
    BY <2>2, <2>4 DEF Used, OwnFrames
<1>7. QED
  BY <1>5, <1>6

LEMMA NothingLostOfIInv == IInv => NothingLost
<1>1. SUFFICES ASSUME IInv, ~failed, NEW f \in mem.taken \cap Managed(mem.ram)
               PROVE  Used(f)
  BY DEF NothingLost, Used
<1>2. PICK g : History(g)
  BY <1>1 DEF IInv
<1>3. failed \in BOOLEAN
  BY <1>1 DEF IInv, StageOK
<1>4. AllOwned(mem, g, off, procs) /\ Sound(mem, g, off, procs)
  BY <1>1, <1>2, <1>3 DEF History
<1>5. PICK m : m = mem
  OBVIOUS
<1>6. Tree(m.tables, g)
  BY <1>4, <1>5, SoundFields
<1>7. RootsKnown(m, g)
  BY <1>4, <1>5 DEF AllOwned, RootsKnown, Roots
<1>8. Covered(m, g, Held(ScreenOf(off), m))
  BY <1>4, <1>5 DEF AllOwned
<1>9. \/ f \in Image \/ f \in Held(ScreenOf(off), m) \/ f \in DOMAIN m.tables
      \/ \E t \in DOMAIN m.tables : \E i \in DOMAIN m.tables[t] :
           Guarded(m.tables, g, t, i) /\ m.tables[t][i].frame = f
  BY <1>1, <1>5, <1>8 DEF Covered
<1>10. CASE f \in Image
  BY <1>10 DEF Used, KernelFrames
<1>11. CASE f \in Held(ScreenOf(off), m)
  BY <1>5, <1>11 DEF Held, ScreenOf, Used, KernelFrames, ScreenFrames, Shared
<1>12. CASE f \in DOMAIN m.tables
  BY <1>5, <1>6, <1>7, <1>12, TableUsed
<1>13. CASE \E t \in DOMAIN m.tables : \E i \in DOMAIN m.tables[t] :
              Guarded(m.tables, g, t, i) /\ m.tables[t][i].frame = f
  BY <1>5, <1>6, <1>7, <1>13, LeafUsed
<1>14. QED
  BY <1>9, <1>10, <1>11, <1>12, <1>13

----------------------------------------------------------------------------
(* The properties of the module.                                           *)

\* Whatever has been created, has grown, was given back or has failed half-way,
\* every frame has one owner: no page or table of a process is in a frame of
\* another's or of the kernel's, or twice its own (usermode.cpp:1-16,
\* pmm.cpp:237-269).
THEOREM AlwaysOneOwner == Spec => []OneOwner
<1>1. Spec => []IInv
  BY AlwaysIInv
<1>2. QED
  BY <1>1, OneOwnerOfIInv, PTL

\* As long as every creation has succeeded, every frame that is taken is the
\* kernel's or a process's: nothing leaks (bootanim.cpp:632-640,
\* usermode.cpp:151-298).
THEOREM AlwaysNothingLost == Spec => []NothingLost
<1>1. Spec => []IInv
  BY AlwaysIInv
<1>2. QED
  BY <1>1, NothingLostOfIInv, PTL

\* The counter of pmm.cpp is the number of frames that are taken, after
\* creations that failed half-way, too (pmm.cpp:321-333).
THEOREM AlwaysCounted == Spec => []CountedFrames
<1>1. Spec => []IInv
  BY AlwaysIInv
<1>2. QED
  BY <1>1, CountedOfIInv, PTL

\* Every address space has the kernel's half of the kernel's own root, however
\* the kernel's tables have grown since it was made (usermode.cpp:90-122).
THEOREM AlwaysKernelHalf == Spec => []KernelHalfShared
<1>1. Spec => []IInv
  BY AlwaysIInv
<1>2. QED
  BY <1>1, KernelHalfOfIInv, PTL

\* A process that exists has its stack, the page all processes share, and its
\* whole code and data (usermode.cpp:196-269, 551-576).
THEOREM AlwaysComplete == Spec => []ProcessComplete
<1>1. Spec => []IInv
  BY AlwaysIInv
<1>2. QED
  BY <1>1, CompleteOfIInv, PTL

\* No step changes what a process maps in its half: no creation, no growth of
\* the heap, no mapping of the kernel's, no death and no restart
\* (vmm.cpp:104-178).
THEOREM AlwaysSpacesStable == Spec => SpacesStable
<1>1. IInv /\ [Next]_vars
        => [\A t \in DOMAIN procs : UserPages(procs[t].root)' = UserPages(procs[t].root)]_vars
  <2>1. SUFFICES ASSUME IInv, [Next]_vars, NEW t \in DOMAIN procs
                 PROVE  UserPages(procs[t].root)' = UserPages(procs[t].root)
    OBVIOUS
  <2>2. PICK g : History(g)
    BY <2>1 DEF IInv
  <2>3. StageOK
    BY <2>1 DEF IInv
  <2>4. QED
    BY <2>1, <2>2, <2>3, SpacesOfStep
<1>2. Spec => []IInv
  BY AlwaysIInv
<1>3. QED
  BY <1>1, <1>2, PTL DEF Spec, SpacesStable

\* map_temp, whose result nobody looks at, cannot fail any more once a process
\* exists: the machine faults in it before that or never (usermode.cpp:52-58).
THEOREM AlwaysTempWindow == Spec => TempWindowStays
<1>1. IInv /\ [Next]_vars => [stage' = "fault" /\ stage # "fault" => mem.ipcPage = None]_vars
  <2>1. SUFFICES ASSUME IInv, [Next]_vars PROVE FaultExcused
    BY DEF FaultExcused
  <2>2. PICK g : History(g)
    BY <2>1 DEF IInv
  <2>3. StageOK
    BY <2>1 DEF IInv
  <2>4. Steps(g)
    BY <2>1, <2>2, <2>3, NextStep
  <2>5. QED
    BY <2>4 DEF Steps
<1>2. Spec => []IInv
  BY AlwaysIInv
<1>3. QED
  BY <1>1, <1>2, PTL DEF Spec, TempWindowStays
=============================================================================
