-------------------------- MODULE Services_proofs --------------------------
(***************************************************************************)
(* Proofs about Services.tla, for any scripts, any number of ticks and any *)
(* sizes of a message, a line and its words: the one page of messages      *)
(* serves one client at a time, the keys reach the shell in order, and     *)
(* what the services do was asked for.                                     *)
(***************************************************************************)
EXTENDS Services, TLAPS, WellFoundedInduction, FiniteSetTheorems, SequenceTheorems

----------------------------------------------------------------------------
(* Induction over the naturals and over finite sets, for a set of values,  *)
(* not a predicate.                                                        *)

NatLess == OpToRel(<, Nat)

\* A set of naturals has a least element.
LEMMA LeastNatural ==
  ASSUME NEW T, T \subseteq Nat, T # {}
  PROVE  \E x \in T : \A y \in T : x <= y
<1>1. IsWellFoundedOn(NatLess, Nat)
  BY NatLessThanWellFounded DEF NatLess
<1>2. PICK x \in T : \A y \in T : ~(<<y, x>> \in NatLess)
  BY <1>1, WFMin
<1>3. \A m, n \in Nat : <<n, m>> \in NatLess <=> n < m
  BY DEF NatLess, OpToRel
<1>4. ASSUME NEW y \in T PROVE x <= y
  <2>1. ~(<<y, x>> \in NatLess)
    BY <1>2
  <2>2. ~(y < x)
    BY <1>3, <2>1
  <2>3. QED
    BY <2>2
<1>5. QED
  BY <1>4

\* A set that has 0 and the successor of each of its elements is Nat.
LEMMA NatInd ==
  ASSUME NEW P, 0 \in P, \A n \in Nat : n \in P => n + 1 \in P
  PROVE  Nat \subseteq P
<1> SUFFICES ASSUME Nat \ P # {} PROVE FALSE
  OBVIOUS
<1>1. PICK x \in Nat \ P : \A y \in Nat \ P : x <= y
  BY LeastNatural
<1>2. x # 0 /\ x - 1 \in Nat /\ (x - 1) + 1 = x
  BY <1>1
<1>3. x - 1 \in P
  BY <1>1, <1>2
<1>4. QED
  BY <1>1, <1>2, <1>3

\* A set that has a set s whenever it has every s \ {x} has every finite set.
LEMMA FiniteInd ==
  ASSUME NEW S, IsFiniteSet(S), NEW P,
         \A s \in SUBSET S : (\A x \in s : s \ {x} \in P) => s \in P
  PROVE  SUBSET S \subseteq P
<1> DEFINE Q == {n \in Nat : \A s \in SUBSET S : Cardinality(s) <= n => s \in P}
<1>1. \A s \in SUBSET S : IsFiniteSet(s) /\ Cardinality(s) \in Nat
  BY FS_Subset, FS_CardinalityType
<1>2. \A s \in SUBSET S : \A x \in s : Cardinality(s \ {x}) = Cardinality(s) - 1
  BY <1>1, FS_RemoveElement
<1>3. 0 \in Q
  <2> SUFFICES ASSUME NEW s \in SUBSET S, Cardinality(s) <= 0 PROVE s \in P
    OBVIOUS
  <2>1. s = {}
    BY <1>1, FS_EmptySet
  <2>2. QED
    BY <2>1
<1>4. ASSUME NEW n \in Nat, n \in Q PROVE n + 1 \in Q
  <2> SUFFICES ASSUME NEW s \in SUBSET S, Cardinality(s) <= n + 1 PROVE s \in P
    OBVIOUS
  <2>1. ASSUME NEW x \in s PROVE s \ {x} \in P
    <3>1. Cardinality(s \ {x}) <= n
      BY <1>1, <1>2
    <3>2. QED
      BY <1>4, <3>1
  <2>2. QED
    BY <2>1
<1>5. Nat \subseteq Q
  <2> HIDE DEF Q
  <2> QED
    BY <1>3, <1>4, NatInd
<1>6. QED
  BY <1>1, <1>5

\* A finite stretch of the naturals has a greatest element.
LEMMA GreatestNatural ==
  ASSUME NEW b \in Nat, NEW T, T \subseteq 0..b, T # {}
  PROVE  \E x \in T : \A y \in T : x >= y
<1> DEFINE U == {n \in Nat : \E x \in T : n = b - x}
<1>0. \A x \in T : x \in Int /\ b - x \in Nat
  OBVIOUS
<1>1. U \subseteq Nat /\ U # {} /\ \A x \in T : b - x \in U
  BY <1>0
<1>2. PICK u \in U : \A y \in U : u <= y
  BY <1>1, LeastNatural
<1>3. PICK x \in T : u = b - x
  OBVIOUS
<1>4. ASSUME NEW y \in T PROVE x >= y
  <2>1. u <= b - y
    BY <1>1, <1>2
  <2>2. QED
    BY <1>0, <1>3, <2>1
<1>5. QED
  BY <1>4
LEMMA MaxFound ==
  ASSUME NEW b \in Nat, NEW T, T \subseteq 0..b, T # {}
  PROVE  Max(T) \in T /\ \A y \in T : Max(T) >= y
BY GreatestNatural DEF Max

LEMMA MinFound ==
  ASSUME NEW T, T \subseteq Nat, T # {}
  PROVE  Min(T) \in T /\ \A y \in T : Min(T) <= y
BY LeastNatural DEF Min

----------------------------------------------------------------------------
(* Folds, and functions defined by recursion.                              *)

\* What a fold over the indices 1..n computes for each set of them, by the
\* function F of the value so far and the greatest index.
FoldRound(F, base, it, s) ==
  IF s = {} THEN base ELSE F[<<it[s \ {Max(s)}], Max(s)>>]
FoldTable(n, F, base, it) == [s \in SUBSET (1..n) |-> FoldRound(F, base, it, s)]

LEMMA MaxOfIndices ==
  ASSUME NEW n \in Nat, NEW s \in SUBSET (1..n), s # {}
  PROVE  Max(s) \in s
<1>1. s \subseteq 0..n
  OBVIOUS
<1>2. QED
  BY <1>1, MaxFound

\* Such a table exists whatever F is.
LEMMA FoldExists ==
  ASSUME NEW n \in Nat, NEW F, NEW base
  PROVE  \E it : it = FoldTable(n, F, base, it)
<1> DEFINE D == 1..n
           Q == {k \in Nat : \E it : \A s \in SUBSET D :
                   Cardinality(s) <= k => it[s] = FoldRound(F, base, it, s)}
<1>0. IsFiniteSet(D)
  BY FS_Interval
<1>1. \A s \in SUBSET D : IsFiniteSet(s) /\ Cardinality(s) \in Nat /\ Cardinality(s) <= Cardinality(D)
  BY <1>0, FS_Subset, FS_CardinalityType
<1>2. \A s \in SUBSET D : s # {} => /\ s \ {Max(s)} \in SUBSET D
                                    /\ Cardinality(s \ {Max(s)}) = Cardinality(s) - 1
  BY <1>1, FS_RemoveElement, MaxOfIndices
<1> HIDE DEF D
<1>3. 0 \in Q
  <2> DEFINE it == [s \in SUBSET D |-> base]
  <2>1. \A s \in SUBSET D : Cardinality(s) <= 0 => s = {}
    BY <1>1, FS_EmptySet
  <2>2. \A s \in SUBSET D : Cardinality(s) <= 0 => it[s] = FoldRound(F, base, it, s)
    BY <2>1 DEF FoldRound
  <2>3. QED
    BY <2>2
<1>4. ASSUME NEW k \in Nat, k \in Q PROVE k + 1 \in Q
  <2>1. PICK it : \A s \in SUBSET D : Cardinality(s) <= k => it[s] = FoldRound(F, base, it, s)
    BY <1>4
  <2> DEFINE h == [s \in SUBSET D |-> IF Cardinality(s) <= k THEN it[s]
                                      ELSE FoldRound(F, base, it, s)]
  <2>2. ASSUME NEW s \in SUBSET D, Cardinality(s) <= k + 1
        PROVE  h[s] = FoldRound(F, base, h, s)
    <3>1. h[s] = FoldRound(F, base, it, s)
      BY <2>1
    <3>2. s # {} => h[s \ {Max(s)}] = it[s \ {Max(s)}]
      BY <1>1, <1>2, <2>2
    <3>3. QED
      BY <3>1, <3>2 DEF FoldRound
  <2>3. QED
    <3> HIDE DEF h
    <3> QED
      BY <2>2
<1>5. Cardinality(D) \in Q
  <2>1. Nat \subseteq Q
    <3> HIDE DEF Q
    <3> QED
      BY <1>3, <1>4, NatInd
  <2>2. QED
    BY <2>1, <1>0, FS_CardinalityType
<1>6. PICK it : \A s \in SUBSET D : it[s] = FoldRound(F, base, it, s)
  BY <1>1, <1>5
<1> DEFINE t == [s \in SUBSET D |-> it[s]]
<1>7. t = [s \in SUBSET D |-> FoldRound(F, base, t, s)]
  <2>1. ASSUME NEW s \in SUBSET D PROVE t[s] = FoldRound(F, base, t, s)
    BY <1>2, <1>6 DEF FoldRound
  <2>2. QED
    BY <2>1
<1>8. QED
  <2> HIDE DEF t
  <2> QED
    BY <1>7 DEF D, FoldTable

\* A set that has the base and that every round stays in has every entry.
LEMMA FoldStays ==
  ASSUME NEW n \in Nat, NEW it, NEW V, it[{}] \in V,
         \A s \in SUBSET (1..n) : s # {} /\ it[s \ {Max(s)}] \in V => it[s] \in V
  PROVE  \A s \in SUBSET (1..n) : it[s] \in V
<1> DEFINE P == {s \in SUBSET (1..n) : it[s] \in V}
<1>0. IsFiniteSet(1..n)
  BY FS_Interval
<1>1. ASSUME NEW s \in SUBSET (1..n), \A x \in s : s \ {x} \in P PROVE s \in P
  <2>1. CASE s = {}
    BY <2>1
  <2>2. CASE s # {}
    BY <1>1, <2>2, MaxOfIndices
  <2>3. QED
    BY <2>1, <2>2
<1>2. SUBSET (1..n) \subseteq P
  <2> HIDE DEF P
  <2> QED
    BY <1>0, <1>1, FiniteInd
<1>3. QED
  BY <1>2

\* A function on 1..n+1 that each argument computes from a greater one.
Jumps(n, next) == \A i \in 1..n : next[i] \in i + 1 .. n + 1
JumpRound(n, G, next, base, f, i) == IF i > n THEN base ELSE G[<<i, f[next[i]]>>]
JumpTable(n, G, next, base, f) == [i \in 1..n + 1 |-> JumpRound(n, G, next, base, f, i)]

LEMMA JumpExists ==
  ASSUME NEW n \in Nat, NEW G, NEW base, NEW next, Jumps(n, next)
  PROVE  \E f : f = JumpTable(n, G, next, base, f)
<1> USE DEF Jumps
<1> DEFINE Q == {k \in Nat : \E f : \A i \in 1..n + 1 :
                   i + k > n => f[i] = JumpRound(n, G, next, base, f, i)}
<1>1. 0 \in Q
  <2> DEFINE f == [i \in 1..n + 1 |-> base]
  <2>1. \A i \in 1..n + 1 : i + 0 > n => f[i] = JumpRound(n, G, next, base, f, i)
    BY DEF JumpRound
  <2>2. QED
    BY <2>1
<1>2. ASSUME NEW k \in Nat, k \in Q PROVE k + 1 \in Q
  <2>1. PICK f : \A i \in 1..n + 1 : i + k > n => f[i] = JumpRound(n, G, next, base, f, i)
    BY <1>2
  <2> DEFINE h == [i \in 1..n + 1 |-> IF i + k > n THEN f[i]
                                      ELSE JumpRound(n, G, next, base, f, i)]
  <2>2. ASSUME NEW i \in 1..n + 1, i + (k + 1) > n
        PROVE  h[i] = JumpRound(n, G, next, base, h, i)
    <3>1. h[i] = JumpRound(n, G, next, base, f, i)
      BY <2>1
    <3>2. ~(i > n) => h[next[i]] = f[next[i]]
      <4> SUFFICES ASSUME ~(i > n) PROVE h[next[i]] = f[next[i]]
        OBVIOUS
      <4>1. i \in 1..n
        OBVIOUS
      <4>2. next[i] \in i + 1 .. n + 1
        BY <4>1
      <4>3. next[i] \in 1..n + 1 /\ next[i] + k > n
        BY <4>2, <2>2
      <4>4. QED
        BY <4>3
    <3>3. QED
      <4> HIDE DEF h
      <4> QED
        BY <3>1, <3>2 DEF JumpRound
  <2>3. QED
    <3> HIDE DEF h
    <3> QED
      BY <2>2
<1>3. n \in Q
  <2> HIDE DEF Q
  <2> QED
    BY <1>1, <1>2, NatInd
<1>4. PICK f : \A i \in 1..n + 1 : f[i] = JumpRound(n, G, next, base, f, i)
  BY <1>3
<1> DEFINE t == [i \in 1..n + 1 |-> f[i]]
<1>5. t = [i \in 1..n + 1 |-> JumpRound(n, G, next, base, t, i)]
  <2>1. ASSUME NEW i \in 1..n + 1 PROVE t[i] = JumpRound(n, G, next, base, t, i)
    <3>1. ~(i > n) => next[i] \in 1..n + 1
      <4> SUFFICES ASSUME ~(i > n) PROVE next[i] \in 1..n + 1
        OBVIOUS
      <4>1. i \in 1..n
        OBVIOUS
      <4>2. QED
        BY <4>1
    <3>2. t[i] = f[i] /\ (~(i > n) => t[next[i]] = f[next[i]])
      BY <3>1
    <3>3. QED
      <4> HIDE DEF t
      <4> QED
        BY <1>4, <3>2 DEF JumpRound
  <2>2. QED
    BY <2>1
<1>6. QED
  <2> HIDE DEF t
  <2> QED
    BY <1>5 DEF JumpTable

\* Its values stay in a set that has the base and that every round stays in.
LEMMA JumpStays ==
  ASSUME NEW n \in Nat, NEW f, NEW next, NEW V, f[n + 1] \in V, Jumps(n, next),
         \A i \in 1..n : f[next[i]] \in V => f[i] \in V
  PROVE  \A i \in 1..n + 1 : f[i] \in V
<1> USE DEF Jumps
<1> DEFINE Q == {k \in Nat : \A i \in 1..n + 1 : i + k > n => f[i] \in V}
<1>1. 0 \in Q
  OBVIOUS
<1>2. ASSUME NEW k \in Nat, k \in Q PROVE k + 1 \in Q
  <2> SUFFICES ASSUME NEW i \in 1..n + 1, i + (k + 1) > n PROVE f[i] \in V
    OBVIOUS
  <2>1. CASE i = n + 1
    BY <2>1
  <2>2. CASE i # n + 1
    <3>1. i \in 1..n
      BY <2>2
    <3>2. next[i] \in i + 1 .. n + 1
      BY <3>1
    <3>3. next[i] \in 1..n + 1 /\ next[i] + k > n
      BY <3>2
    <3>4. f[next[i]] \in V
      BY <1>2, <3>3
    <3>5. QED
      BY <3>1, <3>4
  <2>3. QED
    BY <2>1, <2>2
<1>3. n \in Q
  <2> HIDE DEF Q
  <2> QED
    BY <1>1, <1>2, NatInd
<1>4. QED
  BY <1>3

LEMMA FoldIn ==
  ASSUME NEW n \in Nat, NEW V, NEW base \in V, NEW F,
         \A v \in V, i \in 1..n : F[<<v, i>>] \in V
  PROVE  \E it : /\ it = FoldTable(n, F, base, it)
                 /\ \A s \in SUBSET (1..n) : it[s] \in V
<1>1. PICK it : it = FoldTable(n, F, base, it)
  BY FoldExists
<1>2. \A s \in SUBSET (1..n) : it[s] = FoldRound(F, base, it, s)
  BY <1>1 DEF FoldTable
<1>3. it[{}] \in V
  BY <1>2 DEF FoldRound
<1>4. ASSUME NEW s \in SUBSET (1..n), s # {}, it[s \ {Max(s)}] \in V PROVE it[s] \in V
  <2>1. Max(s) \in 1..n
    BY <1>4, MaxOfIndices
  <2>2. QED
    BY <1>2, <1>4, <2>1 DEF FoldRound
<1>5. \A s \in SUBSET (1..n) : it[s] \in V
  BY <1>3, <1>4, FoldStays
<1>6. QED
  BY <1>1, <1>5

LEMMA JumpIn ==
  ASSUME NEW n \in Nat, NEW V, NEW base \in V, NEW G, NEW next, Jumps(n, next),
         \A i \in 1..n, v \in V : G[<<i, v>>] \in V
  PROVE  \E f : /\ f = JumpTable(n, G, next, base, f)
                /\ \A i \in 1..n + 1 : f[i] \in V
<1>1. PICK f : f = JumpTable(n, G, next, base, f)
  BY JumpExists
<1>2. \A i \in 1..n + 1 : f[i] = JumpRound(n, G, next, base, f, i)
  BY <1>1 DEF JumpTable
<1>3. n + 1 \in 1..n + 1 /\ n + 1 > n /\ \A i \in 1..n : i \in 1..n + 1 /\ ~(i > n)
  OBVIOUS
<1>4. f[n + 1] \in V
  BY <1>2, <1>3 DEF JumpRound
<1>5. \A i \in 1..n : f[next[i]] \in V => f[i] \in V
  BY <1>2, <1>3 DEF JumpRound
<1>6. QED
  BY <1>1, <1>4, <1>5, JumpStays

----------------------------------------------------------------------------
(* Requests.                                                               *)

Plain == ByteType \ {"0"}

\* A sequence over a set is one over any larger set.
LEMMA SeqMore ==
  ASSUME NEW S, NEW T, S \subseteq T
  PROVE  Seq(S) \subseteq Seq(T)
<1> SUFFICES ASSUME NEW s \in Seq(S) PROVE s \in Seq(T)
  OBVIOUS
<1>1. s \in [1..Len(s) -> S] /\ Len(s) \in Nat
  BY LenProperties
<1>2. s \in [1..Len(s) -> T]
  BY <1>1
<1>3. QED
  BY <1>1, <1>2, SeqDef

LEMMA AsksMore ==
  ASSUME NEW S, NEW T, S \subseteq T, NEW B, NEW C, B \subseteq C
  PROVE  Seq(Asks(S, B)) \subseteq Seq(Asks(T, C))
<1>1. Seq(B) \subseteq Seq(C)
  BY SeqMore
<1>2. Asks(S, B) \subseteq Asks(T, C)
  BY <1>1 DEF Asks
<1>3. QED
  BY <1>2, SeqMore

LEMMA AskIn ==
  ASSUME NEW r, NEW S, NEW B, r \in Asks(S, B)
  PROVE  /\ r.type \in S /\ r.bytes \in Seq(B) /\ r.to \in Servers /\ r.to = ServerOf[r.type]
         /\ r.type = "PUTS" => r.bytes # <<>> /\ WholeHans(r.bytes)
BY DEF Asks

LEMMA ServersOf ==
  /\ ServerOf["PUTS"] = "terminal" /\ ServerOf["CLEAR"] = "terminal"
  /\ ServerOf["UPTIME"] = "timer" /\ ServerOf["PS"] = "proc"
  /\ ServerOf["REBOOT"] = "power" /\ ServerOf["SHUTDOWN"] = "power"
  /\ \A t \in AskType : ServerOf[t] \in Servers /\ ServerOf[t] # "keyboard"
BY DEF ServerOf, AskType, Servers

LEMMA CallType ==
  ASSUME NEW type \in AskType, type # "PUTS", NEW B
  PROVE  Call(ServerOf[type], type) \in Seq(Asks({type}, B))
<1>1. <<>> \in Seq(B)
  OBVIOUS
<1>2. Request(ServerOf[type], type, <<>>) \in Asks({type}, B)
  BY <1>1, ServersOf DEF Request, Asks
<1>3. QED
  BY <1>2 DEF Call

----------------------------------------------------------------------------
(* The texts.                                                              *)

\* Cut before characters, a text of whole characters gives another.
LEMMA HansCut ==
  ASSUME NEW S, NEW bytes \in Seq(S), WholeHans(bytes),
         NEW i \in 1..Len(bytes), NEW j \in i..Len(bytes),
         bytes[i] # "C", j = Len(bytes) \/ bytes[j + 1] # "C"
  PROVE  WholeHans(SubSeq(bytes, i, j))
<1>a. Len(bytes) \in Nat /\ DOMAIN bytes = 1..Len(bytes) /\ \A x \in 1..Len(bytes) : bytes[x] \in S
  BY LenProperties, ElementOfSeq
<1>b. /\ i \in Int /\ j \in Int /\ i >= 1 /\ i <= j /\ j <= Len(bytes)
      /\ \A x \in i..j : bytes[x] \in S
  <2> DEFINE l == Len(bytes)
  <2>1. l \in Nat /\ i \in 1..l /\ j \in i..l /\ \A x \in 1..l : bytes[x] \in S
    BY <1>a
  <2> HIDE DEF l
  <2>2. i \in Int /\ j \in Int /\ i >= 1 /\ i <= j /\ j <= l /\ \A x \in i..j : bytes[x] \in S
    BY <2>1
  <2>3. QED
    BY <2>2 DEF l
<1>c. /\ SubSeq(bytes, i, j) \in Seq(S) /\ Len(SubSeq(bytes, i, j)) = j - i + 1
      /\ \A k \in 1..j - i + 1 : SubSeq(bytes, i, j)[k] = bytes[i + k - 1]
  BY <1>b, SubSeqProperties
<1> DEFINE t == SubSeq(bytes, i, j)
           n == Len(bytes)
           m == j - i + 1
<1>1. n \in Nat /\ i \in 1..n /\ j \in i..n /\ DOMAIN bytes = 1..n
  BY <1>a
<1>2. t \in Seq(S) /\ Len(t) = m
  BY <1>c
<1>3. m \in 1..n /\ \A k \in 1..m : t[k] = bytes[k + i - 1]
  <2>1. \A k \in 1..m : t[k] = bytes[i + k - 1]
    BY <1>c
  <2> HIDE DEF n, t
  <2>2. m \in 1..n /\ \A k \in 1..m : i + k - 1 = k + i - 1
    BY <1>1
  <2>3. QED
    BY <2>1, <2>2
<1>4. DOMAIN t = 1..m
  BY <1>2, LenProperties
<1>5. \A p \in 1..n : /\ bytes[p] = "L" => p + 2 <= n /\ bytes[p + 1] = "C" /\ bytes[p + 2] = "C"
                      /\ bytes[p] = "C" => \/ p > 1 /\ bytes[p - 1] = "L"
                                           \/ p > 2 /\ bytes[p - 1] = "C" /\ bytes[p - 2] = "L"
  BY <1>1 DEF WholeHans
<1> HIDE DEF t, m, n
<1>6. ASSUME NEW k \in 1..m, t[k] = "L"
      PROVE  k + 2 <= m /\ t[k + 1] = "C" /\ t[k + 2] = "C"
  <2> DEFINE p == k + i - 1
  <2>1. p \in 1..n /\ p <= j /\ bytes[p] = "L"
    BY <1>1, <1>3, <1>6 DEF m
  <2>2. p + 2 <= n /\ bytes[p + 1] = "C" /\ bytes[p + 2] = "C"
    BY <1>5, <2>1
  <2>3. j = n \/ bytes[j + 1] # "C"
    BY DEF n
  <2>4. p # j
    <3> HIDE DEF p
    <3> QED
      BY <1>1, <2>1, <2>2, <2>3
  <2>5. p + 1 # j
    <3>1. p + 1 = j => j + 1 = p + 2
      BY <1>1
    <3> HIDE DEF p
    <3> QED
      BY <1>1, <2>1, <2>2, <2>3, <3>1
  <2>6. p + 2 <= j
    BY <1>1, <2>1, <2>4, <2>5
  <2>7. k + 2 <= m /\ k + 1 \in 1..m /\ k + 2 \in 1..m
    BY <1>1, <1>3, <2>6 DEF m
  <2>8. t[k + 1] = bytes[p + 1] /\ t[k + 2] = bytes[p + 2]
    <3>1. (k + 1) + i - 1 = p + 1 /\ (k + 2) + i - 1 = p + 2
      BY <1>1, <1>3
    <3>2. QED
      BY <1>3, <2>7, <3>1
  <2>9. QED
    BY <2>2, <2>7, <2>8
<1>7. ASSUME NEW k \in 1..m, t[k] = "C"
      PROVE  \/ k > 1 /\ t[k - 1] = "L"
             \/ k > 2 /\ t[k - 1] = "C" /\ t[k - 2] = "L"
  <2> DEFINE p == k + i - 1
  <2>1. p \in 1..n /\ bytes[p] = "C"
    BY <1>1, <1>3, <1>7 DEF m
  <2>2. \/ p > 1 /\ bytes[p - 1] = "L"
        \/ p > 2 /\ bytes[p - 1] = "C" /\ bytes[p - 2] = "L"
    BY <1>5, <2>1
  <2>3. k > 1
    <3>1. k = 1 => p = i
      BY <1>1
    <3>2. k # 1
      BY <2>1, <3>1
    <3>3. QED
      BY <1>3, <3>2
  <2>4. k - 1 \in 1..m /\ t[k - 1] = bytes[p - 1]
    <3>1. k - 1 \in 1..m /\ (k - 1) + i - 1 = p - 1
      BY <1>1, <1>3, <2>3
    <3>2. QED
      BY <1>3, <3>1
  <2>5. CASE k = 2
    <3>1. p - 1 = i
      BY <1>1, <2>5
    <3>2. bytes[p - 1] # "C"
      BY <3>1
    <3>3. QED
      BY <2>2, <2>3, <2>4, <3>2
  <2>6. CASE k # 2
    <3>1. k > 2 /\ k - 2 \in 1..m /\ (k - 2) + i - 1 = p - 2
      BY <1>1, <1>3, <2>3, <2>6
    <3>2. t[k - 2] = bytes[p - 2]
      BY <1>3, <3>1
    <3>3. QED
      BY <2>2, <2>3, <2>4, <3>1, <3>2
  <2>7. QED
    BY <2>5, <2>6
<1>8. WholeHans(t)
  BY <1>2, <1>4, <1>6, <1>7 DEF WholeHans
<1>9. QED
  BY <1>8 DEF t

\* A chunk is cut, and before a character or at the end.
LEMMA ChunkFits ==
  ASSUME NEW S, NEW bytes \in Seq(S), bytes # <<>>
  PROVE  /\ ChunkSize(bytes) \in 1..Len(bytes)
         /\ WholeHans(bytes) =>
              ChunkSize(bytes) = Len(bytes) \/ bytes[ChunkSize(bytes) + 1] # "C"
<1> DEFINE cuts == {n \in 1..Cap : bytes[n + 1] # "C"}
<1>1. Len(bytes) \in Nat /\ Len(bytes) >= 1
  BY EmptySeq, LenProperties
<1>2. Cap \in Nat /\ Cap >= 3
  BY ServicesAssumption
<1>3. CASE Len(bytes) <= Cap
  BY <1>1, <1>3 DEF ChunkSize
<1>4. CASE ~(Len(bytes) <= Cap) /\ cuts # {}
  <2>1. cuts \subseteq 0..Cap
    OBVIOUS
  <2>2. Max(cuts) \in cuts
    BY <1>2, <1>4, <2>1, MaxFound
  <2>3. ChunkSize(bytes) = Max(cuts)
    BY <1>4 DEF ChunkSize
  <2>4. QED
    BY <1>1, <1>2, <1>4, <2>2, <2>3
<1>5. CASE ~(Len(bytes) <= Cap) /\ cuts = {}
  <2>1. ChunkSize(bytes) = 1
    BY <1>5 DEF ChunkSize
  <2>2. ~WholeHans(bytes)
    <3>1. \A n \in 1..Cap : bytes[n + 1] = "C"
      BY <1>5
    <3>2. 1 \in 1..Cap /\ 2 \in 1..Cap /\ 3 \in 1..Cap
      BY <1>2
    <3>3. bytes[1 + 1] = "C" /\ bytes[2 + 1] = "C" /\ bytes[3 + 1] = "C"
      BY <3>1, <3>2
    <3>4. bytes[2] = "C" /\ bytes[3] = "C" /\ bytes[4] = "C"
      BY <3>3
    <3>5. 4 \in DOMAIN bytes
      <4>1. 4 \in 1..Len(bytes)
        BY <1>1, <1>2, <1>5
      <4>2. QED
        BY <4>1, LenProperties
    <3>6. WholeHans(bytes) => bytes[4 - 1] = "L" \/ bytes[4 - 2] = "L"
      BY <3>4, <3>5 DEF WholeHans
    <3>7. QED
      BY <3>4, <3>6
  <2>3. QED
    BY <1>1, <2>1, <2>2
<1>6. QED
  BY <1>3, <1>4, <1>5

\* A text is cut into requests to the terminal, none of which cuts a han.
LEMMA PutsType ==
  ASSUME NEW B, NEW bytes \in Seq(B), WholeHans(bytes)
  PROVE  Puts(bytes) \in Seq(Asks({"PUTS"}, B))
<1> DEFINE n       == Len(bytes)
           size(i) == ChunkSize(SubSeq(bytes, i, n))
           part(i) == <<Request("terminal", "PUTS", SubSeq(bytes, i, i + size(i) - 1))>>
           next    == [i \in 1..n |-> i + size(i)]
           R       == [to : {"terminal"}, type : {"PUTS"}, bytes : Seq(B)]
           W       == Seq(R)
           G       == [p \in (1..n) \X W |-> part(p[1]) \o p[2]]
           Rounds(f) == [i \in 1..n + 1 |-> IF i > n THEN <<>> ELSE part(i) \o f[i + size(i)]]
           from    == CHOOSE f : f = Rounds(f)
           starts(i) == i > n \/ bytes[i] # "C"
           V       == Seq(Asks({"PUTS"}, B))
           heads   == [i \in 1..n + 1 |-> IF starts(i) THEN from[i] ELSE <<>>]
<1>1. n \in Nat /\ DOMAIN bytes = 1..n /\ \A i \in 1..n : bytes[i] \in B
  BY LenProperties, ElementOfSeq
<1>2. ASSUME NEW i \in 1..n
      PROVE  /\ size(i) \in 1..n + 1 - i
             /\ SubSeq(bytes, i, i + size(i) - 1) \in Seq(B)
             /\ SubSeq(bytes, i, i + size(i) - 1) # <<>>
             /\ starts(i) => starts(i + size(i)) /\ WholeHans(SubSeq(bytes, i, i + size(i) - 1))
  <2> DEFINE rest == SubSeq(bytes, i, n)
  <2>1. \A x \in i..n : bytes[x] \in B
    BY <1>1
  <2>2. n \in i..n /\ i \in Int /\ n \in Int /\ i <= n /\ i >= 1
    BY <1>1
  <2>3. rest \in Seq(B) /\ Len(rest) = n - i + 1 /\ \A k \in 1..n - i + 1 : rest[k] = bytes[i + k - 1]
    BY <2>1, <2>2, SubSeqProperties
  <2>4. starts(i) => WholeHans(rest)
    BY <2>2, HansCut
  <2>5. rest # <<>>
    <3>1. n - i + 1 # 0
      BY <2>2
    <3> HIDE DEF rest
    <3>2. Len(rest) # 0
      BY <2>3, <3>1
    <3>3. QED
      BY <3>2
  <2> HIDE DEF rest
  <2>6. /\ ChunkSize(rest) \in 1..Len(rest)
        /\ starts(i) => ChunkSize(rest) = Len(rest) \/ rest[ChunkSize(rest) + 1] # "C"
    BY <2>3, <2>4, <2>5, ChunkFits
  <2> DEFINE z == ChunkSize(rest)
             j == i + z - 1
  <2>7. size(i) = z
    BY DEF rest
  <2> HIDE DEF n, size, z
  <2>8. z \in 1..n - i + 1
    BY <2>3, <2>6 DEF z
  <2>9. z \in 1..n + 1 - i /\ j \in i..n /\ j \in Int /\ j + 1 = i + z
    BY <2>2, <2>8
  <2>10. starts(i) => j = n \/ bytes[j + 1] # "C"
    <3> SUFFICES ASSUME starts(i) PROVE j = n \/ bytes[j + 1] # "C"
      OBVIOUS
    <3>1. CASE z = Len(rest)
      BY <2>2, <2>3, <3>1
    <3>2. CASE z # Len(rest)
      <4>1. z + 1 \in 1..n - i + 1 /\ i + (z + 1) - 1 = j + 1
        BY <2>2, <2>3, <2>8, <3>2
      <4>2. rest[z + 1] # "C"
        BY <2>6, <3>2 DEF z
      <4>3. QED
        BY <2>3, <4>1, <4>2
    <3>3. QED
      BY <3>1, <3>2
  <2>11. starts(i) => WholeHans(SubSeq(bytes, i, j))
    <3>1. starts(i) => bytes[i] # "C"
      BY <2>2
    <3>2. QED
      BY <2>2, <2>9, <2>10, <3>1, HansCut DEF n
  <2>12. SubSeq(bytes, i, j) \in Seq(B) /\ SubSeq(bytes, i, j) # <<>>
    <3>1. \A x \in i..j : bytes[x] \in B
      BY <2>1, <2>2, <2>9
    <3>2. SubSeq(bytes, i, j) \in Seq(B) /\ Len(SubSeq(bytes, i, j)) = j - i + 1
      BY <2>2, <2>9, <3>1, SubSeqProperties
    <3>3. j - i + 1 # 0
      BY <2>2, <2>9
    <3>4. QED
      BY <3>2, <3>3
  <2>13. starts(i) => starts(i + z)
    BY <2>2, <2>9, <2>10
  <2>14. QED
    BY <2>7, <2>9, <2>11, <2>12, <2>13
<1>3. Puts(bytes) = from[1]
  BY Zenon DEF Puts
<1>4. ASSUME NEW i \in 1..n PROVE part(i) \in W /\ (starts(i) => part(i) \in V)
  <2> DEFINE b == SubSeq(bytes, i, i + size(i) - 1)
             r == Request("terminal", "PUTS", b)
  <2>1. b \in Seq(B) /\ b # <<>> /\ (starts(i) => WholeHans(b))
    BY <1>2
  <2>2. part(i) = <<r>>
    OBVIOUS
  <2> HIDE DEF b, starts, size, part
  <2>3. r \in R /\ (starts(i) => r \in Asks({"PUTS"}, B))
    BY <2>1, ServersOf DEF Request, Asks, Servers
  <2> HIDE DEF r, R
  <2>4. QED
    BY <2>2, <2>3
<1> HIDE DEF part
<1>5. \A i \in 1..n : next[i] = i + size(i) /\ next[i] \in i + 1 .. n + 1
  BY <1>1, <1>2
<1>6. \A i \in 1..n, v \in W : G[<<i, v>>] = part(i) \o v /\ G[<<i, v>>] \in W
  BY <1>4, ConcatProperties
<1>7. <<>> \in W /\ <<>> \in V
  OBVIOUS
<1>8. Jumps(n, next)
  BY <1>5 DEF Jumps
<1>9. \A i \in 1..n : starts(i) => starts(next[i])
  BY <1>2
<1> HIDE DEF V, W, G, next, size
<1>10. PICK f : /\ f = JumpTable(n, G, next, <<>>, f)
                /\ \A i \in 1..n + 1 : f[i] \in W
  BY <1>1, <1>8, <1>6, <1>7, JumpIn
<1>11. f = Rounds(f)
  <2>1. ASSUME NEW i \in 1..n + 1, ~(i > n) PROVE G[<<i, f[next[i]]>>] = part(i) \o f[i + size(i)]
    <3>1. i \in 1..n
      BY <1>1, <2>1
    <3>2. next[i] \in 1..n + 1
      BY <1>1, <1>5, <3>1
    <3>3. QED
      BY <1>5, <1>6, <1>10, <3>1, <3>2
  <2>2. QED
    BY <1>10, <2>1 DEF JumpRound, JumpTable
<1>12. from = Rounds(from)
  BY <1>11
<1> HIDE DEF from
<1>13. heads[n + 1] \in V
  <2>1. from[n + 1] = <<>>
    BY <1>1, <1>12
  <2>2. QED
    BY <1>1, <1>7, <2>1
<1>14. ASSUME NEW i \in 1..n, heads[next[i]] \in V PROVE heads[i] \in V
  <2>1. i \in 1..n + 1 /\ ~(i > n) /\ next[i] \in 1..n + 1
    BY <1>1, <1>5
  <2>2. CASE ~starts(i)
    BY <1>7, <2>1, <2>2
  <2>3. CASE starts(i)
    <3>1. from[i] = part(i) \o from[i + size(i)]
      BY <1>12, <2>1
    <3>2. heads[i] = from[i] /\ heads[next[i]] = from[next[i]] /\ starts(next[i])
      BY <1>9, <2>1, <2>3
    <3>3. from[i + size(i)] \in V
      BY <1>5, <1>14, <3>2
    <3>4. part(i) \in V
      BY <1>4, <2>3
    <3>5. part(i) \o from[i + size(i)] \in V
      BY <3>3, <3>4, ConcatProperties DEF V
    <3>6. QED
      BY <3>1, <3>2, <3>5
  <2>4. QED
    BY <2>2, <2>3
<1> HIDE DEF heads
<1>15. \A i \in 1..n + 1 : heads[i] \in V
  BY <1>1, <1>8, <1>13, <1>14, JumpStays
<1>16. starts(1)
  <2> SUFFICES ASSUME 1 \in DOMAIN bytes, bytes[1] = "C" PROVE FALSE
    BY <1>1
  <2>1. 1 > 1 \/ 1 > 2
    BY DEF WholeHans
  <2>2. QED
    BY <2>1
<1>17. heads[1] = from[1]
  BY <1>1, <1>16 DEF heads
<1>18. QED
  BY <1>1, <1>3, <1>15, <1>17 DEF V

\* What programs print but for a 0: whole characters of these bytes.
Prints == Seq(Asks({"PUTS"}, Plain))

LEMMA LettersWhole == ASSUME NEW bytes \in Seq({"a", "0"}) PROVE WholeHans(bytes)
<1>1. \A i \in DOMAIN bytes : bytes[i] \in {"a", "0"}
  BY ElementOfSeq, LenProperties
<1>2. QED
  BY <1>1 DEF WholeHans

LEMMA HansWhole ==
  /\ Han \in Seq(Plain) /\ WholeHans(Han)
  /\ Han \o Han \in Seq(Plain) /\ WholeHans(Han \o Han)
<1>1. "L" \in Plain /\ "C" \in Plain
  BY DEF Plain, ByteType
<1>2. /\ Han \in Seq(Plain) /\ Len(Han) = 3 /\ DOMAIN Han = 1..3
      /\ Han[1] = "L" /\ Han[2] = "C" /\ Han[3] = "C"
  BY <1>1 DEF Han
<1>3. \A i \in 1..3 : i = 1 \/ i = 2 \/ i = 3
  OBVIOUS
<1>4. WholeHans(Han)
  <2>1. ASSUME NEW i \in DOMAIN Han, Han[i] = "L"
        PROVE  i + 2 <= Len(Han) /\ Han[i + 1] = "C" /\ Han[i + 2] = "C"
    <3>1. i = 1
      BY <1>2, <1>3, <2>1
    <3>2. QED
      BY <1>2, <3>1
  <2>2. ASSUME NEW i \in DOMAIN Han, Han[i] = "C"
        PROVE  \/ i > 1 /\ Han[i - 1] = "L"
               \/ i > 2 /\ Han[i - 1] = "C" /\ Han[i - 2] = "L"
    <3>1. i = 2 \/ i = 3
      BY <1>2, <1>3, <2>2
    <3>2. QED
      BY <1>2, <3>1
  <2>3. QED
    BY <2>1, <2>2 DEF WholeHans
<1> DEFINE t == Han \o Han
<1>5. /\ t \in Seq(Plain) /\ Len(t) = 6 /\ DOMAIN t = 1..6
      /\ t[1] = "L" /\ t[2] = "C" /\ t[3] = "C" /\ t[4] = "L" /\ t[5] = "C" /\ t[6] = "C"
  <2>1. /\ t \in Seq(Plain) /\ Len(t) = 3 + 3
        /\ \A i \in 1..3 + 3 : t[i] = IF i <= 3 THEN Han[i] ELSE Han[i - 3]
    <3>1. /\ t \in Seq(Plain) /\ Len(t) = Len(Han) + Len(Han)
          /\ \A i \in 1..Len(Han) + Len(Han) : t[i] = IF i <= Len(Han) THEN Han[i] ELSE Han[i - Len(Han)]
      BY <1>2, ConcatProperties
    <3> HIDE DEF t
    <3>2. QED
      BY <1>2, <3>1
  <2> HIDE DEF t
  <2>2. /\ t[1] = Han[1] /\ t[2] = Han[2] /\ t[3] = Han[3]
        /\ t[4] = Han[4 - 3] /\ t[5] = Han[5 - 3] /\ t[6] = Han[6 - 3]
    BY <2>1
  <2>3. DOMAIN t = 1..6
    BY <2>1, LenProperties
  <2>4. QED
    BY <1>2, <2>1, <2>2, <2>3
<1>6. \A i \in 1..6 : i = 1 \/ i = 2 \/ i = 3 \/ i = 4 \/ i = 5 \/ i = 6
  OBVIOUS
<1> HIDE DEF t
<1>7. WholeHans(t)
  <2>1. ASSUME NEW i \in DOMAIN t, t[i] = "L"
        PROVE  i + 2 <= Len(t) /\ t[i + 1] = "C" /\ t[i + 2] = "C"
    <3>1. i = 1 \/ i = 4
      BY <1>5, <1>6, <2>1
    <3>2. QED
      BY <1>5, <3>1
  <2>2. ASSUME NEW i \in DOMAIN t, t[i] = "C"
        PROVE  \/ i > 1 /\ t[i - 1] = "L"
               \/ i > 2 /\ t[i - 1] = "C" /\ t[i - 2] = "L"
    <3>1. i = 2 \/ i = 3 \/ i = 5 \/ i = 6
      BY <1>5, <1>6, <2>2
    <3>2. QED
      BY <1>5, <3>1
  <2>3. QED
    BY <2>1, <2>2 DEF WholeHans
<1>8. QED
  BY <1>2, <1>4, <1>5, <1>7 DEF t

LEMMA ShortPuts ==
  /\ Puts(Han) \in Prints /\ Puts(Han \o Han) \in Prints /\ Puts(Row) \in Prints
  /\ Puts(<<"a">>) \in Prints /\ Puts(<<"a", "a", "a">>) \in Prints
  /\ \A a : /\ Puts(Number(a)) \in Seq(Asks({"PUTS"}, ByteType))
            /\ a # Zero => Puts(Number(a)) \in Prints
<1>1. "a" \in Plain /\ "a" \in ByteType /\ "0" \in ByteType /\ {"a"} \subseteq Plain
  BY DEF Plain, ByteType
<1>2. /\ <<"a">> \in Seq(Plain) /\ <<"a", "a", "a">> \in Seq(Plain) /\ <<"a">> \in Seq(ByteType)
      /\ <<"0">> \in Seq(ByteType)
  BY <1>1
<1>3. <<"a">> \in Seq({"a", "0"}) /\ <<"a", "a", "a">> \in Seq({"a", "0"}) /\ <<"0">> \in Seq({"a", "0"})
  OBVIOUS
<1>4. WholeHans(<<"a">>) /\ WholeHans(<<"a", "a", "a">>) /\ WholeHans(<<"0">>)
  BY <1>3, LettersWhole
<1>5. /\ Puts(<<"a">>) \in Prints /\ Puts(<<"a", "a", "a">>) \in Prints
      /\ Puts(<<"a">>) \in Seq(Asks({"PUTS"}, ByteType))
      /\ Puts(<<"0">>) \in Seq(Asks({"PUTS"}, ByteType))
  BY <1>2, <1>4, PutsType DEF Prints
<1>6. Puts(Han) \in Prints /\ Puts(Han \o Han) \in Prints
  BY HansWhole, PutsType DEF Prints
<1>7. QED
  BY <1>5, <1>6 DEF Row, Number

\* The words the shell and echo print.
LEMMA WordPuts == ASSUME NEW S, NEW word \in Seq(S) PROVE Puts(Bytes(word)) \in Prints
<1>1. DOMAIN word = 1..Len(word) /\ Len(word) \in Nat
  BY LenProperties
<1>2. Bytes(word) \in [1..Len(word) -> {"a"}]
  BY <1>1 DEF Bytes
<1>3. Bytes(word) \in Seq({"a"})
  BY <1>1, <1>2, SeqDef
<1>4. {"a"} \subseteq {"a", "0"} /\ {"a"} \subseteq Plain
  BY DEF Plain, ByteType
<1>5. Bytes(word) \in Seq({"a", "0"}) /\ Bytes(word) \in Seq(Plain)
  BY <1>3, <1>4, SeqMore
<1>6. QED
  BY <1>5, LettersWhole, PutsType DEF Prints

LEMMA PrintsJoin ==
  /\ <<>> \in Prints
  /\ \A p, q \in Prints : p \o q \in Prints
<1>1. <<>> \in Prints
  BY DEF Prints
<1>2. QED
  BY <1>1, ConcatProperties DEF Prints

\* What echo prints of its arguments.
LEMMA EchoType ==
  ASSUME NEW args, NEW S, args \in Seq(Seq(S))
  PROVE  Echo(args) \in Prints
<1> DEFINE seq     == [i \in DOMAIN args |-> i]
           n       == Len(args)
           V       == Prints
           op(r, i) == r \o (IF i > 1 THEN Puts(<<"a">>) ELSE <<>>) \o Puts(Bytes(args[i]))
           F       == [p \in V \X (1..n) |-> op(p[1], p[2])]
           Rounds(it) == [s \in SUBSET (1..n) |->
                            IF s = {} THEN <<>> ELSE op(it[s \ {Max(s)}], seq[Max(s)])]
           tab     == CHOOSE it : it = Rounds(it)
<1>1. DOMAIN args = 1..n /\ n \in Nat /\ \A i \in 1..n : args[i] \in Seq(S)
  BY LenProperties, ElementOfSeq
<1>2. DOMAIN seq = 1..n /\ \A i \in 1..n : seq[i] = i
  BY <1>1
<1>3. \A i \in 1..n : Puts(Bytes(args[i])) \in V
  BY <1>1, WordPuts
<1>4. Puts(<<"a">>) \in V /\ <<>> \in V
  BY ShortPuts, PrintsJoin
<1>5. \A r \in V, q \in V : r \o q \in V
  BY PrintsJoin
<1> HIDE DEF V
<1>6. \A r \in V, i \in 1..n : op(r, i) \in V
  BY <1>3, <1>4, <1>5
<1>7. Echo(args) = tab[1..n] \o Puts(<<"a">>)
  <2>1. Echo(args) = FoldLeft(op, <<>>, seq) \o Puts(<<"a">>)
    BY Zenon DEF Echo
  <2>2. FoldLeft(op, <<>>, seq) = tab[DOMAIN seq]
    BY <1>2, Zenon DEF FoldLeft, MapThenFoldSet
  <2>3. QED
    BY <2>1, <2>2, <1>2
<1> HIDE DEF op, seq
<1>8. \A v \in V, i \in 1..n : F[<<v, i>>] = op(v, i) /\ F[<<v, i>>] \in V
  BY <1>6
<1> HIDE DEF F
<1>9. PICK it : /\ it = FoldTable(n, F, <<>>, it)
                /\ \A s \in SUBSET (1..n) : it[s] \in V
  BY <1>1, <1>4, <1>8, FoldIn
<1>10. it = Rounds(it)
  <2>1. ASSUME NEW s \in SUBSET (1..n), s # {}
        PROVE  FoldRound(F, <<>>, it, s) = op(it[s \ {Max(s)}], seq[Max(s)])
    <3>1. Max(s) \in 1..n /\ s \ {Max(s)} \in SUBSET (1..n)
      BY <1>1, <2>1, MaxOfIndices
    <3>2. QED
      BY <1>2, <1>8, <1>9, <2>1, <3>1 DEF FoldRound
  <2>2. \A s \in SUBSET (1..n) : s = {} => FoldRound(F, <<>>, it, s) = <<>>
    BY DEF FoldRound
  <2>3. QED
    BY <1>9, <2>1, <2>2 DEF FoldTable
<1>11. tab = Rounds(tab)
  BY <1>10
<1> HIDE DEF tab
<1>12. tab[{}] \in V
  BY <1>4, <1>11
<1>13. ASSUME NEW s \in SUBSET (1..n), s # {}, tab[s \ {Max(s)}] \in V PROVE tab[s] \in V
  <2>1. Max(s) \in 1..n
    BY <1>1, <1>13, MaxOfIndices
  <2>2. tab[s] = op(tab[s \ {Max(s)}], Max(s))
    BY <1>2, <1>11, <1>13, <2>1
  <2>3. QED
    BY <1>6, <1>13, <2>1, <2>2
<1>14. tab[1..n] \in V
  BY <1>1, <1>12, <1>13, FoldStays
<1>15. QED
  BY <1>4, <1>5, <1>7, <1>14 DEF V

\* One row for every thread that ps lists.
LEMMA RowsType ==
  ASSUME NEW k \in Nat
  PROVE  FoldLeft(LAMBDA r, i : r \o Puts(Row), Puts(<<"a">>), [i \in 1..k |-> i])
           \in Prints
<1> DEFINE seq     == [i \in 1..k |-> i]
           V       == Prints
           base    == Puts(<<"a">>)
           op(r, i) == r \o Puts(Row)
           F       == [p \in V \X (1..k) |-> op(p[1], p[2])]
           Rounds(it) == [s \in SUBSET (1..k) |->
                            IF s = {} THEN base ELSE op(it[s \ {Max(s)}], seq[Max(s)])]
           tab     == CHOOSE it : it = Rounds(it)
<1>1. DOMAIN seq = 1..k /\ \A i \in 1..k : seq[i] = i
  OBVIOUS
<1>2. base \in V /\ Puts(Row) \in V
  BY ShortPuts
<1>3. FoldLeft(LAMBDA r, i : r \o Puts(Row), Puts(<<"a">>), [i \in 1..k |-> i]) = tab[DOMAIN seq]
  BY <1>1, Zenon DEF FoldLeft, MapThenFoldSet
<1>4. \A r \in V, i \in 1..k : op(r, i) \in V
  BY <1>2, PrintsJoin
<1> HIDE DEF V, base
<1> HIDE DEF op, seq
<1>5. \A v \in V, i \in 1..k : F[<<v, i>>] = op(v, i) /\ F[<<v, i>>] \in V
  BY <1>4
<1> HIDE DEF F
<1>6. PICK it : /\ it = FoldTable(k, F, base, it)
                /\ \A s \in SUBSET (1..k) : it[s] \in V
  BY <1>2, <1>5, FoldIn
<1>7. it = Rounds(it)
  <2>1. ASSUME NEW s \in SUBSET (1..k), s # {}
        PROVE  FoldRound(F, base, it, s) = op(it[s \ {Max(s)}], seq[Max(s)])
    <3>1. Max(s) \in 1..k /\ s \ {Max(s)} \in SUBSET (1..k)
      BY <2>1, MaxOfIndices
    <3>2. QED
      BY <1>1, <1>5, <1>6, <2>1, <3>1 DEF FoldRound
  <2>2. \A s \in SUBSET (1..k) : s = {} => FoldRound(F, base, it, s) = base
    BY DEF FoldRound
  <2>3. QED
    BY <1>6, <2>1, <2>2 DEF FoldTable
<1>8. tab = Rounds(tab)
  BY <1>7
<1> HIDE DEF tab
<1>9. tab[{}] \in V
  BY <1>2, <1>8
<1>10. ASSUME NEW s \in SUBSET (1..k), s # {}, tab[s \ {Max(s)}] \in V PROVE tab[s] \in V
  <2>1. Max(s) \in 1..k
    BY <1>10, MaxOfIndices
  <2>2. tab[s] = op(tab[s \ {Max(s)}], Max(s))
    BY <1>1, <1>8, <1>10, <2>1
  <2>3. QED
    BY <1>4, <1>10, <2>1, <2>2
<1>11. tab[1..k] \in V
  BY <1>9, <1>10, FoldStays
<1>12. QED
  BY <1>1, <1>3, <1>11 DEF V

\* What a program asks for next, whatever it was answered.
LEMMA AfterType ==
  ASSUME NEW type, NEW a \in [v : ValueType, n : Nat]
  PROVE  /\ After(type, a) \in Seq(Asks({"PUTS"}, ByteType))
         /\ a # Zero \/ type # "UPTIME" => After(type, a) \in Prints
<1>1. Prints \subseteq Seq(Asks({"PUTS"}, ByteType))
  BY AsksMore DEF Prints, Plain
<1>2. CASE type = "UPTIME"
  <2>1. After(type, a) = Puts(Han) \o Puts(Number(a)) \o Puts(<<"a">>)
    BY <1>2 DEF After
  <2>2. Puts(Number(a)) \in Seq(Asks({"PUTS"}, ByteType)) /\ (a # Zero => Puts(Number(a)) \in Prints)
    BY ShortPuts
  <2>3. a # Zero => Puts(Han) \o Puts(Number(a)) \o Puts(<<"a">>) \in Prints
    BY <2>2, ShortPuts, PrintsJoin
  <2>4. Puts(Han) \in Seq(Asks({"PUTS"}, ByteType)) /\ Puts(<<"a">>) \in Seq(Asks({"PUTS"}, ByteType))
    BY <1>1, ShortPuts
  <2>5. Puts(Han) \o Puts(Number(a)) \o Puts(<<"a">>) \in Seq(Asks({"PUTS"}, ByteType))
    BY <2>2, <2>4, ConcatProperties
  <2>6. QED
    BY <1>2, <2>1, <2>3, <2>5
<1>3. CASE type = "PS"
  <2>1. CASE a.n = 0
    <3>1. After(type, a) = Puts(Han)
      BY <1>3, <2>1 DEF After
    <3>2. QED
      BY <1>1, <3>1, ShortPuts
  <2>2. CASE a.n # 0
    <3>1. After(type, a) =
            FoldLeft(LAMBDA r, i : r \o Puts(Row), Puts(<<"a">>), [i \in 1..a.n |-> i])
      BY <1>3, <2>2, Zenon DEF After
    <3>2. a.n \in Nat
      OBVIOUS
    <3>3. After(type, a) \in Prints
      BY <3>1, <3>2, RowsType, Zenon
    <3>4. QED
      BY <1>1, <3>3
  <2>3. QED
    BY <2>1, <2>2
<1>4. CASE type \notin {"UPTIME", "PS"}
  <2>1. After(type, a) = <<>>
    BY <1>4 DEF After
  <2>2. QED
    BY <1>1, <2>1, PrintsJoin
<1>5. QED
  BY <1>2, <1>3, <1>4

\* What a program asks for from its start on: it stops the machine only if
\* that is what it is for.
TypesOf(cmd) ==
  {t \in AskType : (t = "REBOOT" => cmd = "r") /\ (t = "SHUTDOWN" => cmd = "s")}

LEMMA MainType ==
  ASSUME NEW cmd \in Programs, NEW S, NEW args \in Seq(Seq(S))
  PROVE  Main(cmd, args) \in Seq(Asks(TypesOf(cmd), Plain))
<1> DEFINE T == TypesOf(cmd)
           V == Seq(Asks(T, Plain))
<1>1. Prints \subseteq V
  <2>1. {"PUTS"} \subseteq T
    BY DEF TypesOf, AskType
  <2>2. QED
    BY <2>1, AsksMore DEF Prints
<1>2. ASSUME NEW t \in T, t # "PUTS", NEW to, to = ServerOf[t] PROVE Call(to, t) \in V
  <2>1. Call(to, t) \in Seq(Asks({t}, Plain))
    BY <1>2, CallType DEF TypesOf
  <2>2. QED
    BY <2>1, AsksMore
<1>3. ASSUME NEW p \in V, NEW q \in V PROVE p \o q \in V
  BY ConcatProperties
<1>4. /\ "CLEAR" \in T /\ "UPTIME" \in T /\ "PS" \in T
      /\ cmd = "r" => "REBOOT" \in T
      /\ cmd = "s" => "SHUTDOWN" \in T
  BY DEF TypesOf, AskType
<1>5. Echo(args) \in V
  BY <1>1, EchoType
<1>6. Puts(Han) \in V /\ Puts(Han \o Han) \in V
  BY <1>1, ShortPuts
<1> HIDE DEF V, T
<1>7. CASE cmd = "e"
  BY <1>5, <1>7 DEF Main, V, T
<1>8. CASE cmd = "c"
  <2>1. Call("terminal", "CLEAR") \in V
    BY <1>2, <1>4, ServersOf
  <2>2. QED
    BY <1>8, <2>1 DEF Main, V, T
<1>9. CASE cmd = "u"
  <2>1. Call("timer", "UPTIME") \in V
    BY <1>2, <1>4, ServersOf
  <2>2. QED
    BY <1>9, <2>1 DEF Main, V, T
<1>10. CASE cmd = "p"
  <2>1. Call("proc", "PS") \in V
    BY <1>2, <1>4, ServersOf
  <2>2. QED
    BY <1>10, <2>1 DEF Main, V, T
<1>11. CASE cmd = "r"
  <2>1. Main(cmd, args) = Puts(Han \o Han) \o Call("power", "REBOOT") \o Puts(Han)
    BY <1>11 DEF Main
  <2>2. Call("power", "REBOOT") \in V
    BY <1>2, <1>4, <1>11, ServersOf
  <2>3. QED
    BY <1>3, <1>6, <2>1, <2>2 DEF V, T
<1>12. CASE cmd = "s"
  <2>1. Main(cmd, args) = Puts(Han) \o Call("power", "SHUTDOWN") \o Puts(Han)
    BY <1>12 DEF Main
  <2>2. Call("power", "SHUTDOWN") \in V
    BY <1>2, <1>4, <1>12, ServersOf
  <2>3. QED
    BY <1>3, <1>6, <2>1, <2>2 DEF V, T
<1>13. QED
  BY <1>7, <1>8, <1>9, <1>10, <1>11, <1>12 DEF Programs

----------------------------------------------------------------------------
(* The words of a line.                                                    *)

\* What has been read of a line: in a word only if there is one.
Reading(S) == {w \in [inside : BOOLEAN, words : Seq(Seq(S))] : w.inside => Len(w.words) > 0}

ReadChar(w, c) ==
  IF c = "Space" THEN [w EXCEPT !.inside = FALSE]
  ELSE IF w.inside
  THEN [w EXCEPT !.words[Len(w.words)] = Append(@, c)]
  ELSE [inside |-> TRUE, words |-> Append(w.words, <<c>>)]

LEMMA ReadCharStays ==
  ASSUME NEW S, NEW w \in Reading(S), NEW c \in S
  PROVE  ReadChar(w, c) \in Reading(S)
<1>1. w = [inside |-> w.inside, words |-> w.words] /\ w.inside \in BOOLEAN
      /\ w.words \in Seq(Seq(S)) /\ (w.inside => Len(w.words) > 0)
  BY DEF Reading
<1>2. CASE c = "Space"
  <2>1. ReadChar(w, c) = [inside |-> FALSE, words |-> w.words]
    BY <1>1, <1>2 DEF ReadChar
  <2>2. QED
    BY <1>1, <2>1 DEF Reading
<1>3. CASE c # "Space" /\ w.inside
  <2> DEFINE k == Len(w.words)
             new == [w.words EXCEPT ![k] = Append(@, c)]
  <2>1. k \in 1..Len(w.words)
    BY <1>1, <1>3, LenProperties
  <2>2. w.words[k] \in Seq(S)
    BY <1>1, <2>1, ElementOfSeq
  <2>3. Append(w.words[k], c) \in Seq(S)
    BY <2>2, AppendProperties
  <2>4. new \in Seq(Seq(S)) /\ Len(new) = Len(w.words)
    BY <1>1, <2>1, <2>3, ExceptSeq
  <2>5. ReadChar(w, c) = [inside |-> w.inside, words |-> new]
    BY <1>1, <1>3 DEF ReadChar
  <2>6. QED
    <3> HIDE DEF new
    <3> QED
      BY <1>1, <2>4, <2>5 DEF Reading
<1>4. CASE c # "Space" /\ ~w.inside
  <2>1. <<c>> \in Seq(S)
    OBVIOUS
  <2>2. Append(w.words, <<c>>) \in Seq(Seq(S)) /\ Len(Append(w.words, <<c>>)) = Len(w.words) + 1
    BY <1>1, <2>1, AppendProperties
  <2>3. ReadChar(w, c) = [inside |-> TRUE, words |-> Append(w.words, <<c>>)]
    BY <1>4 DEF ReadChar
  <2>4. Len(w.words) + 1 > 0
    BY <1>1, LenProperties
  <2>5. QED
    BY <2>2, <2>3, <2>4 DEF Reading
<1>5. QED
  BY <1>2, <1>3, <1>4

LEMMA WordsType ==
  ASSUME NEW S, NEW l \in Seq(S)
  PROVE  Words(l) \in Seq(Seq(S))
<1> DEFINE n       == Len(l)
           V       == Reading(S)
           base    == [inside |-> FALSE, words |-> <<>>]
           all     == FoldLeft(ReadChar, base, l)
           F       == [p \in V \X (1..n) |-> ReadChar(p[1], l[p[2]])]
           Rounds(it) == [s \in SUBSET (1..n) |->
                            IF s = {} THEN base ELSE ReadChar(it[s \ {Max(s)}], l[Max(s)])]
           tab     == CHOOSE it : it = Rounds(it)
<1>1. DOMAIN l = 1..n /\ n \in Nat /\ \A i \in 1..n : l[i] \in S
  BY LenProperties, ElementOfSeq
<1>2. base \in V
  <2>1. <<>> \in Seq(Seq(S))
    OBVIOUS
  <2>2. QED
    BY <2>1 DEF Reading
<1>3. all = tab[DOMAIN l]
  BY <1>1, Zenon DEF FoldLeft, MapThenFoldSet
<1>4. Words(l) = SubSeq(all.words, 1, IF Len(all.words) < MaxArgs THEN Len(all.words) ELSE MaxArgs)
  BY Zenon DEF Words, ReadChar
<1> HIDE DEF V, base, all
<1>5. \A v \in V, i \in 1..n : ReadChar(v, l[i]) \in V
  BY <1>1, ReadCharStays DEF V
<1>6. \A v \in V, i \in 1..n : F[<<v, i>>] = ReadChar(v, l[i]) /\ F[<<v, i>>] \in V
  BY <1>5
<1> HIDE DEF F
<1>7. PICK it : /\ it = FoldTable(n, F, base, it)
                /\ \A s \in SUBSET (1..n) : it[s] \in V
  BY <1>1, <1>2, <1>6, FoldIn
<1>8. it = Rounds(it)
  <2>1. ASSUME NEW s \in SUBSET (1..n), s # {}
        PROVE  FoldRound(F, base, it, s) = ReadChar(it[s \ {Max(s)}], l[Max(s)])
    <3>1. Max(s) \in 1..n /\ s \ {Max(s)} \in SUBSET (1..n)
      BY <1>1, <2>1, MaxOfIndices
    <3>2. QED
      BY <1>6, <1>7, <2>1, <3>1 DEF FoldRound
  <2>2. \A s \in SUBSET (1..n) : s = {} => FoldRound(F, base, it, s) = base
    BY DEF FoldRound
  <2>3. QED
    BY <1>7, <2>1, <2>2 DEF FoldTable
<1>9. tab = Rounds(tab)
  BY <1>8
<1> HIDE DEF tab
<1>10. tab[{}] \in V
  BY <1>2, <1>9
<1>11. ASSUME NEW s \in SUBSET (1..n), s # {}, tab[s \ {Max(s)}] \in V PROVE tab[s] \in V
  <2>1. Max(s) \in 1..n
    BY <1>1, <1>11, MaxOfIndices
  <2>2. tab[s] = ReadChar(tab[s \ {Max(s)}], l[Max(s)])
    BY <1>9, <1>11
  <2>3. QED
    BY <1>5, <1>11, <2>1, <2>2
<1>12. all \in V
  BY <1>1, <1>3, <1>10, <1>11, FoldStays
<1>13. all.words \in Seq(Seq(S))
  BY <1>12 DEF V, Reading
<1> DEFINE m == IF Len(all.words) < MaxArgs THEN Len(all.words) ELSE MaxArgs
<1>15. m \in 0..Len(all.words)
  BY <1>13, LenProperties, ServicesAssumption
<1>16. SubSeq(all.words, 1, m) \in Seq(Seq(S))
  BY <1>13, <1>15, SubSeqProperties
<1>17. QED
  BY <1>4, <1>16

----------------------------------------------------------------------------
(* The service directory.                                                  *)

Entries == Range(Directory)

LEMMA EntryList ==
  /\ \A e \in Entries :
       \/ e = [name |-> <<"t", "e">>, tid |-> "terminal"]
       \/ e = [name |-> <<"k", "e">>, tid |-> "keyboard"]
       \/ e = [name |-> <<"t", "i">>, tid |-> "timer"]
       \/ e = [name |-> <<"s", "h">>, tid |-> "shell"]
       \/ e = [name |-> <<"p", "o">>, tid |-> "power"]
       \/ e = [name |-> <<"p", "r">>, tid |-> "proc"]
       \/ e = [name |-> <<"m", "o">>, tid |-> "mouse"]
  /\ \A t \in Servers : \E e \in Entries : e.tid = t
<1>1. Entries = {Directory[i] : i \in 1..7}
  BY DEF Entries, Directory, Range
<1>2. /\ Directory[1] = [name |-> <<"t", "e">>, tid |-> "terminal"]
      /\ Directory[2] = [name |-> <<"k", "e">>, tid |-> "keyboard"]
      /\ Directory[3] = [name |-> <<"t", "i">>, tid |-> "timer"]
      /\ Directory[4] = [name |-> <<"s", "h">>, tid |-> "shell"]
      /\ Directory[5] = [name |-> <<"p", "o">>, tid |-> "power"]
      /\ Directory[6] = [name |-> <<"p", "r">>, tid |-> "proc"]
      /\ Directory[7] = [name |-> <<"m", "o">>, tid |-> "mouse"]
  BY DEF Directory
<1>3. \A e \in Entries : \E i \in 1..7 : e = Directory[i]
  BY <1>1
<1>4. \A i \in 1..7 : Directory[i] \in Entries /\ (i = 1 \/ i = 2 \/ i = 3 \/ i = 4 \/ i = 5 \/ i = 6 \/ i = 7)
  BY <1>1
<1> HIDE DEF Entries
<1>5. QED
  BY <1>2, <1>3, <1>4 DEF Servers

\* All names have the same length, so one is a prefix of itself only.
LEMMA NamesDiffer ==
  ASSUME NEW e \in Entries, NEW d \in Entries, NameMatch(e.name, d.name)
  PROVE  e = d
<1>1. ASSUME NEW f \in Entries PROVE \E x, y : f.name = <<x, y>>
  BY EntryList
<1>2. PICK x, y : e.name = <<x, y>>
  BY <1>1
<1>3. PICK u, v : d.name = <<u, v>>
  BY <1>1
<1>4. Len(e.name) = 2 /\ SubSeq(e.name, 1, 2) = e.name /\ SubSeq(d.name, 1, 2) = d.name
  <2>1. ASSUME NEW r, NEW q PROVE Len(<<r, q>>) = 2 /\ SubSeq(<<r, q>>, 1, 2) = <<r, q>>
    <3>1. <<r, q>> \in Seq({r, q}) /\ Len(<<r, q>>) = 2
      OBVIOUS
    <3>2. QED
      BY <3>1, SubSeqFull
  <2>2. QED
    BY <1>2, <1>3, <2>1
<1>5. e.name = d.name
  BY <1>4 DEF NameMatch, IsPrefix
<1>6. QED
  BY <1>5, EntryList

\* Registration puts an entry at the end or over itself.
LEMMA RegisterStays ==
  ASSUME NEW dir \in Seq(Entries), NEW e \in Entries
  PROVE  Register(dir, e) \in Seq(Entries)
<1> DEFINE I == {i \in 1..Len(dir) : NameMatch(dir[i].name, e.name)}
           k == SelectInSeq(dir, LAMBDA d : NameMatch(d.name, e.name))
<1>1. DOMAIN dir = 1..Len(dir) /\ \A i \in 1..Len(dir) : dir[i] \in Entries
  BY LenProperties, ElementOfSeq
<1>2. CASE I = {}
  <2>1. Register(dir, e) = Append(dir, e)
    BY <1>1, <1>2 DEF Register
  <2>2. QED
    BY <2>1, AppendProperties
<1>3. CASE I # {}
  <2>1. k = Min(I)
    BY <1>3, Zenon DEF SelectInSeq
  <2>2. I \subseteq Nat
    OBVIOUS
  <2>3. Min(I) \in I
    BY <1>3, <2>2, MinFound
  <2>4. Register(dir, e) = [dir EXCEPT ![k].tid = e.tid]
    <3>1. \E i \in DOMAIN dir : NameMatch(dir[i].name, e.name)
      BY <1>1, <1>3
    <3>2. QED
      BY <3>1, Zenon DEF Register
  <2>5. k \in 1..Len(dir) /\ NameMatch(dir[k].name, e.name)
    BY <2>1, <2>3
  <2> HIDE DEF k
  <2>6. dir[k] \in Entries /\ dir[k] = e
    BY <1>1, <2>5, NamesDiffer
  <2>7. [dir[k] EXCEPT !.tid = e.tid] = dir[k]
    BY <2>6, EntryList
  <2>8. [dir EXCEPT ![k].tid = e.tid] = dir
    BY <1>1, <2>7
  <2>9. QED
    BY <2>4, <2>8
<1>4. QED
  BY <1>2, <1>3

LEMMA RegisteredType == Registered \in Seq(Entries)
<1> DEFINE n    == Len(Directory)
           V    == Seq(Entries)
           F    == [p \in V \X (1..n) |-> Register(p[1], Directory[p[2]])]
           Rounds(it) == [s \in SUBSET (1..n) |->
                  IF s = {} THEN <<>> ELSE Register(it[s \ {Max(s)}], Directory[Max(s)])]
           tab  == CHOOSE it : it = Rounds(it)
<1>1. DOMAIN Directory = 1..n /\ n \in Nat /\ \A i \in 1..n : Directory[i] \in Entries
  <2>1. DOMAIN Directory = 1..7 /\ Len(Directory) = 7
    BY DEF Directory
  <2>2. \A i \in DOMAIN Directory : Directory[i] \in Entries
    BY DEF Entries, Range
  <2>3. QED
    BY <2>1, <2>2
<1>2. <<>> \in V
  OBVIOUS
<1>3. Registered = tab[DOMAIN Directory]
  BY <1>1, Zenon DEF Registered, FoldLeft, MapThenFoldSet
<1> HIDE DEF V, n
<1>4. \A v \in V, i \in 1..n : Register(v, Directory[i]) \in V
  BY <1>1, RegisterStays DEF V
<1>5. \A v \in V, i \in 1..n : F[<<v, i>>] = Register(v, Directory[i]) /\ F[<<v, i>>] \in V
  BY <1>4
<1> HIDE DEF F
<1>6. PICK it : /\ it = FoldTable(n, F, <<>>, it)
                /\ \A s \in SUBSET (1..n) : it[s] \in V
  BY <1>1, <1>2, <1>5, FoldIn
<1>7. it = Rounds(it)
  <2>1. ASSUME NEW s \in SUBSET (1..n), s # {}
        PROVE  FoldRound(F, <<>>, it, s) = Register(it[s \ {Max(s)}], Directory[Max(s)])
    <3>1. Max(s) \in 1..n /\ s \ {Max(s)} \in SUBSET (1..n)
      BY <1>1, <2>1, MaxOfIndices
    <3>2. QED
      BY <1>5, <1>6, <2>1, <3>1 DEF FoldRound
  <2>2. \A s \in SUBSET (1..n) : s = {} => FoldRound(F, <<>>, it, s) = <<>>
    BY DEF FoldRound
  <2>3. QED
    BY <1>6, <2>1, <2>2 DEF FoldTable
<1>8. tab = Rounds(tab)
  BY <1>7
<1> HIDE DEF tab
<1>9. tab[{}] \in V
  BY <1>2, <1>8
<1>10. ASSUME NEW s \in SUBSET (1..n), s # {}, tab[s \ {Max(s)}] \in V PROVE tab[s] \in V
  <2>1. Max(s) \in 1..n
    BY <1>1, <1>10, MaxOfIndices
  <2>2. tab[s] = Register(tab[s \ {Max(s)}], Directory[Max(s)])
    BY <1>8, <1>10
  <2>3. QED
    BY <1>4, <1>10, <2>1, <2>2
<1>11. tab[1..n] \in V
  BY <1>1, <1>9, <1>10, FoldStays
<1>12. QED
  BY <1>1, <1>3, <1>11 DEF V

\* A look-up by a service's name finds that service or, if it has not
\* registered, nobody: never another one.
LEMMA LookupFinds ==
  ASSUME NEW t \in Servers
  PROVE  Lookup(NameOf(t)) \in {t, None}
<1> DEFINE name == NameOf(t)
           I == {i \in 1..Len(Registered) : NameMatch(Registered[i].name, name)}
           k == SelectInSeq(Registered, LAMBDA e : NameMatch(e.name, name))
<1>1. PICK d \in Entries : d.tid = t /\ name = d.name
  BY EntryList DEF NameOf, Entries
<1>2. CASE I = {}
  <2>1. k = 0
    BY <1>2, Zenon DEF SelectInSeq
  <2>2. QED
    BY <2>1, Zenon DEF Lookup
<1>3. CASE I # {}
  <2>1. k = Min(I)
    BY <1>3, Zenon DEF SelectInSeq
  <2>2. Min(I) \in I
    <3>1. I \subseteq Nat
      OBVIOUS
    <3>2. QED
      BY <1>3, <3>1, MinFound
  <2>3. k \in 1..Len(Registered) /\ NameMatch(Registered[k].name, name)
    BY <2>1, <2>2
  <2>4. Lookup(name) = IF k = 0 THEN None ELSE Registered[k].tid
    BY Zenon DEF Lookup
  <2> HIDE DEF k, name
  <2>5. Registered[k] \in Entries
    BY <2>3, RegisteredType, ElementOfSeq
  <2>6. Registered[k] = d
    BY <1>1, <2>3, <2>5, NamesDiffer
  <2>7. QED
    BY <1>1, <2>3, <2>4, <2>6 DEF name
<1>4. QED
  BY <1>2, <1>3

----------------------------------------------------------------------------
(* Ranges.                                                                 *)

LEMMA MessageIn ==
  ASSUME NEW m \in MessageType
  PROVE  /\ m.type \in AskType \cup {"0", "KEY_GET"} /\ m.len \in Nat
         /\ m.a \in [v : ValueType, n : Nat] /\ m.text \in TextType
         /\ \A t \in AskType \cup {"0", "KEY_GET"} : [m EXCEPT !.type = t] \in MessageType
BY DEF MessageType

LEMMA MessageMade ==
  ASSUME NEW t \in AskType \cup {"0", "KEY_GET"}, NEW l \in Nat,
         NEW a \in [v : ValueType, n : Nat], NEW text \in TextType
  PROVE  Message(t, l, a, text) \in MessageType
BY DEF MessageType, Message

LEMMA ValuesIn ==
  /\ Zero \in [v : ValueType, n : Nat] /\ NoText \in TextType /\ Empty \in MessageType
  /\ \A k \in Nat : /\ [v |-> "-1", n |-> k] \in [v : ValueType, n : Nat]
                    /\ [v |-> "n", n |-> k] \in [v : ValueType, n : Nat]
                    /\ [v |-> "now", n |-> k] \in [v : ValueType, n : Nat]
<1>1. Zero \in [v : ValueType, n : Nat]
  BY DEF Zero, ValueType
<1>2. NoText \in TextType
  <2>1. <<>> \in Seq(ByteType)
    OBVIOUS
  <2>2. QED
    BY <2>1 DEF NoText, TextType
<1>3. Empty \in MessageType
  BY <1>1, <1>2, MessageMade DEF Empty
<1>4. QED
  BY <1>1, <1>2, <1>3 DEF ValueType

\* What a client asks for at the moment.
LEMMA CurrentIn ==
  ASSUME ServicesTypeOK, NEW c \in Clients
  PROVE  /\ Current(c).type \in AskType \cup {"KEY_GET"}
         /\ Current(c).bytes \in Seq(ByteType) /\ Current(c).to \in Servers
         /\ todo[c] # <<>> =>
              /\ Current(c).to # "keyboard" /\ Current(c).type \in AskType
              /\ Current(c).to = ServerOf[Current(c).type]
              /\ Current(c).type = "PUTS" => Current(c).bytes # <<>> /\ WholeHans(Current(c).bytes)
         /\ todo[c] = <<>> => Current(c).to = "keyboard" /\ Current(c).type = "KEY_GET"
<1>1. todo[c] \in Seq(RequestType)
  BY DEF ServicesTypeOK
<1>2. CASE todo[c] = <<>>
  <2>1. Current(c) = [to |-> "keyboard", type |-> "KEY_GET", bytes |-> <<>>]
    BY <1>2 DEF Current, KeyGet, Request
  <2>2. <<>> \in Seq(ByteType)
    OBVIOUS
  <2>3. QED
    BY <1>2, <2>1, <2>2 DEF Servers
<1>3. CASE todo[c] # <<>>
  <2>1. todo[c][1] \in RequestType
    BY <1>1, <1>3, EmptySeq, LenProperties, ElementOfSeq
  <2>2. Current(c) = todo[c][1]
    BY <1>3 DEF Current
  <2>3. Current(c) \in Asks(AskType, ByteType)
    BY <2>1, <2>2 DEF RequestType
  <2>4. QED
    BY <1>3, <2>3, AskIn, ServersOf
<1>4. QED
  BY <1>2, <1>3

LEMMA AsksIn == ASSUME NEW T, T \subseteq AskType, NEW B, B \subseteq ByteType
                PROVE  Seq(Asks(T, B)) \subseteq Seq(RequestType)
BY AsksMore DEF RequestType

LEMMA PrintsIn == Prints \subseteq Seq(RequestType)
BY AsksIn DEF Prints, Plain, AskType

LEMMA CardClients == Cardinality(Clients) \in Nat
<1>1. IsFiniteSet({"shell"})
  BY FS_Singleton
<1>2. IsFiniteSet({"shell"} \cup {"prog"})
  BY <1>1, FS_AddElement
<1>3. Clients = {"shell"} \cup {"prog"}
  BY DEF Clients
<1>4. QED
  BY <1>2, <1>3, FS_CardinalityType

\* The directory knows no service for a request to the keyboard but its own.
LEMMA LookupIn ==
  ASSUME ServicesTypeOK, NEW c \in Clients
  PROVE  Lookup(NameOf(Current(c).to)) \in {Current(c).to, None}
BY CurrentIn, LookupFinds

LEMMA TypesOfCalls ==
  ASSUME ServicesTypeOK, Turns, NEW c \in Clients, ClientStep(c)
  PROVE  ServicesTypeOK'
<1> USE DEF ServicesTypeOK, slots, client, kernel, service, shell, world, Go
<1>1. CASE FillType(c)
  <2>1. send' \in MessageType
    BY <1>1, CurrentIn, MessageIn DEF FillType
  <2>2. dest' \in [Clients -> Servers \cup {None}]
    BY <1>1, CurrentIn, LookupIn DEF FillType
  <2>3. step' \in [Clients -> {"fill", "rest", "call", "asked", "taken", "answered", "read"}]
    BY <1>1 DEF FillType
  <2>4. QED
    BY <1>1, <2>1, <2>2, <2>3 DEF FillType
<1>2. CASE FillRest(c)
  <2> DEFINE b == Current(c).bytes
             n == Len(asked) + 1
  <2>1. b \in Seq(ByteType) /\ Len(b) \in Nat /\ n \in Nat
    BY CurrentIn, LenProperties
  <2>2. [n |-> n, bytes |-> b] \in TextType
    BY <2>1 DEF TextType
  <2>3. send' \in MessageType
    <3>1. send' = Filled(send, Current(c), n)
      BY <1>2 DEF FillRest
    <3>2. send.type \in AskType \cup {"0", "KEY_GET"} /\ send.text \in TextType
      BY MessageIn
    <3>3. Message(send.type, Len(b), Zero, [n |-> n, bytes |-> b]) \in MessageType
      BY <2>1, <2>2, <3>2, ValuesIn, MessageMade
    <3>4. Message(send.type, 0, Zero, send.text) \in MessageType
      BY <3>2, ValuesIn, MessageMade
    <3>5. QED
      BY <3>1, <3>3, <3>4, Zenon DEF Filled
  <2>4. asked' \in Seq(TextType)
    <3>1. asked' = asked \o ToTerminal(Current(c), n)
      BY <1>2 DEF FillRest
    <3>2. <<[n |-> n, bytes |-> b]>> \in Seq(TextType) /\ <<NoText>> \in Seq(TextType)
      BY <2>2, ValuesIn
    <3>3. <<>> \in Seq(TextType)
      OBVIOUS
    <3>4. ToTerminal(Current(c), n) \in Seq(TextType)
      BY <3>2, <3>3, Zenon DEF ToTerminal
    <3>5. QED
      BY <3>1, <3>4, ConcatProperties
  <2>5. step' \in [Clients -> {"fill", "rest", "call", "asked", "taken", "answered", "read"}]
    BY <1>2 DEF FillRest
  <2>6. QED
    BY <1>2, <2>3, <2>4, <2>5 DEF FillRest
<1>3. CASE IpcCall(c)
  BY <1>3 DEF IpcCall
<1>4. CASE Return(c)
  BY <1>4 DEF Return
<1>5. CASE Proceed(c)
  <2>1. todo[c] # <<>>
    BY <1>5 DEF Proceed, Turns
  <2>2. Tail(todo[c]) \in Seq(RequestType)
    BY <2>1, HeadTailProperties
  <2>3. After(Current(c).type, send.a) \in Seq(RequestType)
    <3>1. After(Current(c).type, send.a) \in Seq(Asks({"PUTS"}, ByteType))
      BY MessageIn, AfterType
    <3>2. {"PUTS"} \subseteq AskType
      BY DEF AskType
    <3>3. QED
      BY <3>1, <3>2, AsksIn
  <2>4. After(Current(c).type, send.a) \o Tail(todo[c]) \in Seq(RequestType)
    BY <2>2, <2>3, ConcatProperties
  <2>5. todo' \in [Clients -> Seq(RequestType)]
    BY <1>5, <2>4 DEF Proceed
  <2>6. QED
    BY <1>5, <2>5 DEF Proceed
<1>6. QED
  BY <1>1, <1>2, <1>3, <1>4, <1>5 DEF ClientStep

LEMMA TypesOfShell ==
  ASSUME ServicesTypeOK, Turns, ShellStep \/ ProgramExits
  PROVE  ServicesTypeOK'
<1> USE DEF ServicesTypeOK, slots, client, kernel, service, shell, world, Go
<1>0. \A c \in Clients, q \in Seq(RequestType) :
        [todo EXCEPT ![c] = q] \in [Clients -> Seq(RequestType)]
  OBVIOUS
<1>1. "shell" \in Clients /\ "prog" \in Clients
  BY DEF Clients
<1>2. ASSUME NEW b, Puts(b) \in Prints, ShellPuts(b) PROVE todo' \in [Clients -> Seq(RequestType)]
  <2>1. Puts(b) \in Seq(RequestType)
    BY <1>2, PrintsIn
  <2>2. todo' = [todo EXCEPT !["shell"] = Puts(b)]
    BY <1>2 DEF ShellPuts
  <2>3. QED
    BY <1>0, <1>1, <2>1, <2>2
<1>3. CASE Prompt
  <2>1. todo' \in [Clients -> Seq(RequestType)]
    BY <1>2, <1>3, ShortPuts DEF Prompt
  <2>2. line' \in Seq(ValueType)
    BY <1>3 DEF Prompt
  <2>3. QED
    BY <1>3, <2>1, <2>2 DEF Prompt
<1>4. CASE ReadLine
  <2> DEFINE k == send.a.v
  <2>1. k \in ValueType /\ send.a.n \in Nat
    BY MessageIn
  <2>2. /\ LineKey(k) /\ got' = (IF send.a.n = 0 THEN got ELSE Append(got, send.a.n))
        /\ step' = [step EXCEPT !["shell"] = "fill"]
    BY <1>4 DEF ReadLine
  <2>3. got' \in Seq(Nat)
    BY <2>1, <2>2, AppendProperties
  <2>4. step' \in [Clients -> {"fill", "rest", "call", "asked", "taken", "answered", "read"}]
    BY <2>2
  <2>5. Append(line, k) \in Seq(ValueType) /\ (line # <<>> => Front(line) \in Seq(ValueType))
    <3>1. Append(line, k) \in Seq(ValueType)
      BY <2>1, AppendProperties
    <3>2. line # <<>> => Len(line) - 1 \in 0..Len(line)
      BY EmptySeq, LenProperties
    <3>3. QED
      BY <3>1, <3>2, SubSeqProperties DEF Front
  <2>6. line' \in Seq(ValueType) /\ mode' \in {"prompt", "line", "spawn", "wait"}
    <3> HIDE DEF k
    <3>1. QED
      BY <2>2, <2>5 DEF LineKey
  <2>7. todo' \in [Clients -> Seq(RequestType)]
    <3> HIDE DEF k
    <3>1. QED
      BY <2>2, <1>2, ShortPuts DEF LineKey
  <2>8. QED
    BY <1>4, <2>3, <2>4, <2>6, <2>7 DEF ReadLine
<1>5. CASE Spawn
  <2> DEFINE argv == Words(line)
             cmd  == argv[1][1]
  <2>1. argv \in Seq(Seq(ValueType))
    BY WordsType
  <2>2. CASE argv = <<>>
    BY <1>5, <2>2 DEF Spawn
  <2>3. CASE argv # <<>> /\ Len(argv[1]) = 1 /\ cmd \in Programs
    <3>1. Tail(argv) \in Seq(Seq(ValueType))
      BY <2>1, <2>3, HeadTailProperties
    <3>2. Main(cmd, Tail(argv)) \in Seq(RequestType)
      <4>1. Main(cmd, Tail(argv)) \in Seq(Asks(TypesOf(cmd), Plain))
        BY <2>3, <3>1, MainType
      <4>2. TypesOf(cmd) \subseteq AskType /\ Plain \subseteq ByteType
        BY DEF TypesOf, Plain
      <4>3. QED
        BY <4>1, <4>2, AsksIn
    <3>3. mode' = "wait" /\ prog' = cmd /\ todo' = [todo EXCEPT !["prog"] = Main(cmd, Tail(argv))]
      BY <1>5, <2>3 DEF Spawn
    <3> HIDE DEF argv, cmd
    <3>4. todo' \in [Clients -> Seq(RequestType)]
      BY <1>0, <1>1, <3>2, <3>3
    <3>5. QED
      BY <1>5, <2>3, <3>3, <3>4 DEF Spawn
  <2>4. CASE argv # <<>> /\ ~(Len(argv[1]) = 1 /\ cmd \in Programs)
    <3>1. argv[1] \in Seq(ValueType)
      BY <2>1, <2>4, EmptySeq, LenProperties, ElementOfSeq
    <3>2. Puts(Bytes(argv[1])) \in Prints
      BY <3>1, WordPuts
    <3>3. Puts(Han \o Han) \o Puts(Bytes(argv[1])) \o Puts(<<"a">>) \in Seq(RequestType)
      BY <3>2, ShortPuts, PrintsJoin, PrintsIn
    <3>4. /\ mode' = "prompt" /\ prog' = prog
          /\ todo' = [todo EXCEPT !["shell"] =
                        Puts(Han \o Han) \o Puts(Bytes(argv[1])) \o Puts(<<"a">>)]
      BY <1>5, <2>4 DEF Spawn
    <3>5. todo' \in [Clients -> Seq(RequestType)]
      BY <1>0, <1>1, <3>3, <3>4
    <3>6. QED
      BY <1>5, <3>4, <3>5 DEF Spawn
  <2>5. QED
    BY <2>2, <2>3, <2>4
<1>6. CASE Wait
  BY <1>6 DEF Wait
<1>7. CASE ProgramExits
  BY <1>7 DEF ProgramExits
<1>8. QED
  BY <1>3, <1>4, <1>5, <1>6, <1>7 DEF ShellStep

LEMMA TypesOfServices ==
  ASSUME PageIInv,
         (\E s \in Servers : ServerStep(s)) \/ Terminal \/ Keyboard \/ Power \/ PowerActs
           \/ Proc \/ Timer \/ Type \/ Tick
  PROVE  ServicesTypeOK'
<1>0. ServicesTypeOK /\ \A s \in Servers : Engaged(s)
  BY DEF PageIInv
<1> USE DEF ServicesTypeOK, slots, client, kernel, service, shell, world, Go, At
<1>1. ASSUME NEW s \in Servers, Take(s) PROVE ServicesTypeOK'
  BY <1>0, <1>1 DEF Take, Queued
<1>2. ASSUME NEW s \in Servers, Reply(s) PROVE ServicesTypeOK'
  <2>1. serving[s] \in Clients
    BY <1>0, <1>2 DEF Engaged, Reply, IpcReply
  <2>2. stage' \in [Servers -> {"recv", "act", "reply", "REBOOT", "SHUTDOWN"}]
    BY <1>0, <1>2 DEF Reply
  <2>3. /\ answer' \in [Clients -> MessageType]
        /\ step' \in [Clients -> {"fill", "rest", "call", "asked", "taken", "answered", "read"}]
    BY <1>0, <1>2, <2>1 DEF Reply, IpcReply
  <2>4. QED
    BY <1>0, <1>2, <2>2, <2>3 DEF Reply
<1>3. CASE Terminal
  <2> DEFINE n == IF recv.len < Len(recv.text.bytes) THEN recv.len ELSE Len(recv.text.bytes)
  <2>1. recv.text \in TextType /\ recv.len \in Nat
    BY <1>0, MessageIn
  <2>2. recv.text.bytes \in Seq(ByteType)
    BY <2>1 DEF TextType
  <2>3. n \in 0..Len(recv.text.bytes)
    BY <2>1, <2>2, LenProperties
  <2>4. SubSeq(recv.text.bytes, 1, n) \in Seq(ByteType)
    BY <2>2, <2>3, SubSeqProperties
  <2>5. Shown(recv) = [recv.text EXCEPT !.bytes = SubSeq(recv.text.bytes, 1, n)]
    BY DEF Shown
  <2> HIDE DEF n
  <2>6. Shown(recv) \in TextType
    BY <2>1, <2>4, <2>5 DEF TextType
  <2>7. done' \in Seq(TextType)
    BY <1>0, <1>3, <2>6, ValuesIn, AppendProperties DEF Terminal
  <2>8. stage' \in [Servers -> {"recv", "act", "reply", "REBOOT", "SHUTDOWN"}]
    BY <1>0, <1>3 DEF Terminal, TerminalAnswers
  <2>9. QED
    BY <1>0, <1>3, <2>7, <2>8 DEF Terminal
<1>4. CASE Keyboard
  <2> DEFINE pops == recv.type = "KEY_GET" /\ keys < typed
             a    == IF pops THEN [v |-> script[keys + 1], n |-> keys + 1] ELSE Zero
             t    == IF recv.type = "KEY_GET" THEN recv.type ELSE "0"
             l    == IF recv.type = "KEY_GET" THEN 1 ELSE 0
  <2>1. Len(script) \in Nat /\ typed \in Nat /\ typed <= Len(script) /\ keys \in Nat /\ keys <= typed
    BY <1>0, LenProperties
  <2>2. pops => script[keys + 1] \in ValueType /\ keys + 1 \in Nat
    BY <1>0, <2>1, ElementOfSeq DEF ValueType
  <2>3. a \in [v : ValueType, n : Nat]
    BY <2>2, ValuesIn
  <2>4. send' = Message(t, l, a, send.text) /\ keys' = keys + (IF pops THEN 1 ELSE 0)
    BY <1>4 DEF Keyboard, Pop
  <2>5. keys' \in 0..typed
    BY <2>1, <2>4
  <2>6. t \in AskType \cup {"0", "KEY_GET"} /\ l \in Nat
    OBVIOUS
  <2> HIDE DEF pops, a, t, l
  <2>7. send' \in MessageType
    BY <1>0, <2>3, <2>4, <2>6, MessageIn, MessageMade
  <2>8. stage' \in [Servers -> {"recv", "act", "reply", "REBOOT", "SHUTDOWN"}]
    BY <1>0, <1>4 DEF Keyboard
  <2>9. QED
    BY <1>0, <1>4, <2>5, <2>7, <2>8 DEF Keyboard
<1>5. CASE Power
  <2> DEFINE a == IF recv.type \in {"REBOOT", "SHUTDOWN"} THEN Zero ELSE [v |-> "-1", n |-> 0]
  <2>1. a \in [v : ValueType, n : Nat]
    BY ValuesIn
  <2>2. send' = Message(recv.type, 0, a, send.text)
    BY <1>5 DEF Power
  <2> HIDE DEF a
  <2>3. send' \in MessageType
    BY <1>0, <2>1, <2>2, MessageIn, MessageMade
  <2>4. stage' \in [Servers -> {"recv", "act", "reply", "REBOOT", "SHUTDOWN"}]
    BY <1>0, <1>5 DEF Power
  <2>5. QED
    BY <1>0, <1>5, <2>3, <2>4 DEF Power
<1>6. CASE PowerActs
  BY <1>0, <1>6 DEF PowerActs
<1>7. CASE Proc
  <2> DEFINE a == IF recv.type = "PS" THEN [v |-> "n", n |-> Cardinality(Clients)]
                  ELSE [v |-> "-1", n |-> 0]
  <2>1. a \in [v : ValueType, n : Nat]
    BY ValuesIn, CardClients
  <2>2. send' = Message(recv.type, 0, a, send.text)
    BY <1>7 DEF Proc
  <2> HIDE DEF a
  <2>3. send' \in MessageType
    BY <1>0, <2>1, <2>2, MessageIn, MessageMade
  <2>4. stage' \in [Servers -> {"recv", "act", "reply", "REBOOT", "SHUTDOWN"}]
    BY <1>0, <1>7 DEF Proc
  <2>5. QED
    BY <1>0, <1>7, <2>3, <2>4 DEF Proc
<1>8. CASE Timer
  <2> DEFINE a == IF recv.type = "UPTIME" THEN [v |-> "now", n |-> 0] ELSE Zero
  <2>1. a \in [v : ValueType, n : Nat]
    BY ValuesIn
  <2>2. send' = Message(recv.type, 0, a, send.text)
    BY <1>8 DEF Timer
  <2> HIDE DEF a
  <2>3. send' \in MessageType
    BY <1>0, <2>1, <2>2, MessageIn, MessageMade
  <2>4. stage' \in [Servers -> {"recv", "act", "reply", "REBOOT", "SHUTDOWN"}] /\ torn' \in BOOLEAN
    BY <1>0, <1>8 DEF Timer
  <2>5. QED
    BY <1>0, <1>8, <2>3, <2>4 DEF Timer
<1>9. CASE Type
  BY <1>0, <1>9, LenProperties DEF Type
<1>10. CASE Tick
  <2>1. ticks' \in 0..MaxTicks
    BY <1>0, <1>10, ServicesAssumption DEF Tick
  <2>2. stage' \in [Servers -> {"recv", "act", "reply", "REBOOT", "SHUTDOWN"}]
    BY <1>0, <1>10 DEF Tick
  <2>3. QED
    BY <1>0, <1>10, <2>1, <2>2 DEF Tick
<1>11. QED
  BY <1>1, <1>2, <1>3, <1>4, <1>5, <1>6, <1>7, <1>8, <1>9, <1>10 DEF ServerStep

----------------------------------------------------------------------------
(* The page serves one client at a time.                                   *)

LEMMA TypesInit == Init => ServicesTypeOK
<1> SUFFICES ASSUME Init PROVE ServicesTypeOK
  OBVIOUS
<1> USE DEF Init
<1>1. send \in MessageType /\ recv \in MessageType
      /\ out \in [Clients -> MessageType] /\ answer \in [Clients -> MessageType]
  BY ValuesIn
<1>2. todo \in [Clients -> Seq(RequestType)]
  <2>1. <<>> \in Seq(RequestType)
    OBVIOUS
  <2>2. Clients = {"shell", "prog"}
    BY DEF Clients
  <2>3. todo \in [{"shell", "prog"} -> Seq(RequestType)]
    <3>1. todo = [shell |-> Puts(Han \o Han), prog |-> <<>>]
      OBVIOUS
    <3>2. \A p, q \in Seq(RequestType) :
            [shell |-> p, prog |-> q] \in [{"shell", "prog"} -> Seq(RequestType)]
      OBVIOUS
    <3>3. Puts(Han \o Han) \in Seq(RequestType)
      BY ShortPuts, PrintsIn
    <3>4. QED
      BY <2>1, <3>1, <3>2, <3>3
  <2>4. QED
    BY <2>2, <2>3
<1>3. script \in Seq(KeyNames)
  BY ServicesAssumption
<1>4. typed \in 0..Len(script) /\ keys \in 0..typed
  BY <1>3, LenProperties
<1>5. line \in Seq(ValueType) /\ asked \in Seq(TextType) /\ done \in Seq(TextType) /\ got \in Seq(Nat)
  OBVIOUS
<1>6. ticks \in 0..MaxTicks
  BY ServicesAssumption
<1>7. QED
  BY <1>1, <1>2, <1>3, <1>4, <1>5, <1>6 DEF ServicesTypeOK

LEMMA PageInit == Init => PageIInv
<1> SUFFICES ASSUME Init PROVE PageIInv
  OBVIOUS
<1>1. Turns
  BY DEF Init, Turns, Clients
<1>2. \A s \in Servers : Engaged(s)
  BY DEF Init, Engaged, None
<1>3. QED
  BY <1>1, <1>2, TypesInit DEF PageIInv

LEMMA Names ==
  /\ Clients = {"shell", "prog"} /\ None \notin Clients /\ None \notin Programs
  /\ None \notin Servers
BY DEF Clients, None, Programs, Servers

\* While a client is in a call the other is not.
LEMMA OneInCall ==
  ASSUME Turns, NEW c \in Clients, NEW d \in Clients, step[c] # "fill", step[d] # "fill"
  PROVE  c = d
BY Names DEF Turns

LEMMA TurnsOfCalls ==
  ASSUME ServicesTypeOK, Turns, NEW c \in Clients, ClientStep(c)
  PROVE  Turns'
<1> USE DEF client, shell, Go, WantsKey
<1>1. step[c] # "fill" => /\ c = "prog" => prog # None
                          /\ c = "shell" => mode # "wait"
  BY DEF Turns
<1>2. CASE FillType(c)
  BY <1>2, Names DEF FillType, Turns, ServicesTypeOK
<1>3. CASE FillRest(c)
  BY <1>1, <1>3, Names DEF FillRest, Turns, ServicesTypeOK
<1>4. CASE IpcCall(c)
  BY <1>1, <1>4, Names DEF IpcCall, Turns, ServicesTypeOK
<1>5. CASE Return(c)
  BY <1>1, <1>5, Names DEF Return, Turns, ServicesTypeOK
<1>6. CASE Proceed(c)
  BY <1>1, <1>6, Names DEF Proceed, Turns, ServicesTypeOK
<1>7. QED
  BY <1>2, <1>3, <1>4, <1>5, <1>6 DEF ClientStep

LEMMA TurnsOfShell ==
  ASSUME ServicesTypeOK, Turns, ShellStep \/ ProgramExits
  PROVE  Turns'
<1> USE DEF client, shell, Go, WantsKey
<1>1. CASE Prompt
  BY <1>1, Names DEF Prompt, ShellPuts, Turns, ServicesTypeOK
<1>2. CASE ReadLine
  <2>1. mode = "line" /\ prog = None
    BY <1>2, Names DEF ReadLine, Turns
  <2>2. mode' \in {"line", "spawn"} /\ todo'["prog"] = todo["prog"]
    <3>1. LineKey(send.a.v)
      BY <1>2 DEF ReadLine
    <3>2. QED
      BY <2>1, <3>1, Names DEF LineKey, ShellPuts, ServicesTypeOK
  <2>3. step' = [step EXCEPT !["shell"] = "fill"] /\ prog' = prog
    BY <1>2 DEF ReadLine
  <2>4. QED
    BY <2>1, <2>2, <2>3, Names DEF Turns, ServicesTypeOK
<1>3. CASE Spawn
  <2>1. step' = step /\ step["shell"] = "fill" /\ step["prog"] = "fill" /\ todo["shell"] = <<>>
        /\ prog = None
    BY <1>3 DEF Spawn, Turns
  <2>2. \/ mode' = "prompt" /\ prog' = prog /\ todo' = todo
        \/ mode' = "prompt" /\ prog' = prog /\ \E q : todo' = [todo EXCEPT !["shell"] = q]
        \/ mode' = "wait" /\ prog' \in Programs /\ \E q : todo' = [todo EXCEPT !["prog"] = q]
    BY <1>3, Zenon DEF Spawn
  <2>3. QED
    BY <2>1, <2>2, Names DEF Turns, ServicesTypeOK
<1>4. CASE Wait
  BY <1>4, Names DEF Wait, WaitOver, Turns, ServicesTypeOK
<1>5. CASE ProgramExits
  BY <1>5, Names DEF ProgramExits, Turns, ServicesTypeOK
<1>6. QED
  BY <1>1, <1>2, <1>3, <1>4, <1>5 DEF ShellStep

LEMMA TurnsOfServices ==
  ASSUME PageIInv,
         (\E s \in Servers : ServerStep(s)) \/ Terminal \/ Keyboard \/ Power \/ PowerActs
           \/ Proc \/ Timer \/ Type \/ Tick
  PROVE  Turns'
<1>0. ServicesTypeOK /\ Turns /\ \A s \in Servers : Engaged(s)
  BY DEF PageIInv
<1> USE DEF client, shell, Go, WantsKey
<1>1. ASSUME NEW s \in Servers, Take(s) PROVE Turns'
  <2>1. PICK c \in Clients : step[c] = "asked" /\ step' = [step EXCEPT ![c] = "taken"]
    BY <1>1 DEF Take, Queued
  <2>2. todo' = todo /\ prog' = prog /\ mode' = mode
    BY <1>1 DEF Take
  <2>3. QED
    BY <1>0, <2>1, <2>2, Names DEF Turns, ServicesTypeOK
<1>2. ASSUME NEW s \in Servers, Reply(s) PROVE Turns'
  <2>1. serving[s] \in Clients /\ step[serving[s]] = "taken"
    BY <1>0, <1>2 DEF Engaged, Reply, IpcReply, ServicesTypeOK
  <2>2. step' = [step EXCEPT ![serving[s]] = "answered"]
    BY <1>2 DEF Reply, IpcReply
  <2>3. todo' = todo /\ prog' = prog /\ mode' = mode
    BY <1>2 DEF Reply
  <2>4. QED
    BY <1>0, <2>1, <2>2, <2>3, Names DEF Turns, ServicesTypeOK
<1>3. ASSUME UNCHANGED <<client, shell>> PROVE Turns'
  BY <1>0, <1>3 DEF Turns
<1>4. QED
  BY <1>0, <1>1, <1>2, <1>3
     DEF ServerStep, Terminal, Keyboard, Power, PowerActs, Proc, Timer, Type, Tick

LEMMA EngagedOfCalls ==
  ASSUME PageIInv, NEW c \in Clients, ClientStep(c), NEW s \in Servers
  PROVE  Engaged(s)'
<1>0. ServicesTypeOK /\ Turns /\ Engaged(s)
  BY DEF PageIInv
<1>1. /\ step[c] \notin {"asked", "taken"} /\ stage' = stage /\ serving' = serving /\ recv' = recv
      /\ \A d \in Clients \ {c} : step'[d] = step[d] /\ dest'[d] = dest[d] /\ out'[d] = out[d]
  BY <1>0 DEF ClientStep, FillType, FillRest, IpcCall, Return, Proceed, Go, kernel, service, slots,
              ServicesTypeOK
<1>2. serving[s] # None => serving[s] \in Clients \ {c}
  BY <1>0, <1>1 DEF Engaged, ServicesTypeOK
<1>3. QED
  BY <1>0, <1>1, <1>2 DEF Engaged

LEMMA EngagedOfOthers ==
  ASSUME PageIInv, ShellStep \/ ProgramExits \/ Type \/ PowerActs \/ Terminal \/ Keyboard
                     \/ Power \/ Proc \/ Timer \/ Tick,
         NEW s \in Servers
  PROVE  Engaged(s)'
<1>0. ServicesTypeOK /\ Turns /\ Engaged(s)
  BY DEF PageIInv
<1>1. serving' = serving /\ dest' = dest /\ out' = out /\ recv' = recv
  BY DEF ShellStep, Prompt, ReadLine, Spawn, Wait, ProgramExits, Type, PowerActs, Terminal, Keyboard,
         Power, Proc, Timer, Tick, kernel, service, slots, client
<1>2. serving[s] # None => step'[serving[s]] = step[serving[s]]
  <2>1. CASE ReadLine
    <3>1. step["shell"] = "read" /\ step' = [step EXCEPT !["shell"] = "fill"]
      BY <2>1 DEF ReadLine, Go
    <3>2. QED
      BY <1>0, <3>1, Names DEF Engaged, ServicesTypeOK
  <2>2. CASE ~ReadLine
    BY <2>2 DEF ShellStep, Prompt, Spawn, Wait, ProgramExits, Type, PowerActs, Terminal, Keyboard,
                Power, Proc, Timer, Tick, client
  <2>3. QED
    BY <2>1, <2>2
<1>3. \/ stage'[s] = stage[s]
      \/ stage[s] = "act" /\ stage'[s] = "reply" /\ serving[s] # None
      \/ stage[s] = "act" /\ stage'[s] = "recv" /\ serving[s] = None
      \/ stage[s] \in {"REBOOT", "SHUTDOWN"} /\ stage'[s] = "recv"
      \/ s = "timer" /\ stage[s] = "recv" /\ stage'[s] = "act"
  <2>1. CASE ShellStep \/ ProgramExits \/ Type
    BY <2>1 DEF ShellStep, Prompt, ReadLine, Spawn, Wait, ProgramExits, Type, service
  <2>2. CASE PowerActs
    BY <1>0, <2>2 DEF PowerActs, At, ServicesTypeOK
  <2>3. CASE Terminal
    BY <1>0, <2>3 DEF Terminal, TerminalAnswers, At, ServicesTypeOK, Engaged
  <2>4. CASE Keyboard
    BY <1>0, <2>4 DEF Keyboard, At, ServicesTypeOK, Engaged
  <2>5. CASE Power
    BY <1>0, <2>5 DEF Power, At, ServicesTypeOK, Engaged
  <2>6. CASE Proc
    BY <1>0, <2>6 DEF Proc, At, ServicesTypeOK, Engaged
  <2>7. CASE Timer
    BY <1>0, <2>7 DEF Timer, At, ServicesTypeOK, Engaged
  <2>8. CASE Tick
    BY <1>0, <2>8 DEF Tick, At, ServicesTypeOK
  <2>9. QED
    BY <2>1, <2>2, <2>3, <2>4, <2>5, <2>6, <2>7, <2>8
<1>4. QED
  BY <1>0, <1>1, <1>2, <1>3 DEF Engaged

LEMMA EngagedOfTake ==
  ASSUME PageIInv, NEW t \in Servers, Take(t), NEW s \in Servers
  PROVE  Engaged(s)'
<1>0. ServicesTypeOK /\ Turns /\ Engaged(s)
  BY DEF PageIInv
<1>1. PICK c \in Clients : /\ step[c] = "asked" /\ dest[c] = t /\ recv' = out[c]
                           /\ serving' = [serving EXCEPT ![t] = c]
                           /\ step' = [step EXCEPT ![c] = "taken"]
  BY DEF Take, Queued, Go
<1>2. dest' = dest /\ out' = out /\ stage' = [stage EXCEPT ![t] = "act"]
  BY DEF Take, At, kernel
<1>3. CASE s = t
  BY <1>0, <1>1, <1>2, <1>3, Names DEF Engaged, ServicesTypeOK
<1>4. CASE s # t
  <2>1. serving[s] = None
    <3> SUFFICES ASSUME serving[s] # None PROVE FALSE
      OBVIOUS
    <3>1. serving[s] \in Clients /\ step[serving[s]] = "taken" /\ dest[serving[s]] = s
      BY <1>0 DEF Engaged, ServicesTypeOK
    <3>2. serving[s] = c
      BY <1>0, <1>1, <3>1, OneInCall
    <3>3. QED
      BY <1>1, <3>1, <3>2
  <2>2. QED
    BY <1>0, <1>1, <1>2, <1>4, <2>1 DEF Engaged, ServicesTypeOK
<1>5. QED
  BY <1>3, <1>4

LEMMA EngagedOfReply ==
  ASSUME PageIInv, NEW t \in Servers, Reply(t), NEW s \in Servers
  PROVE  Engaged(s)'
<1>0. ServicesTypeOK /\ Turns /\ Engaged(s) /\ Engaged(t)
  BY DEF PageIInv
<1>1. /\ stage[t] = "reply" /\ step' = [step EXCEPT ![serving[t]] = "answered"]
      /\ serving' = [serving EXCEPT ![t] = None] /\ dest' = dest /\ out' = out /\ recv' = recv
  BY DEF Reply, IpcReply, slots
<1>2. \E l \in {"REBOOT", "SHUTDOWN", "recv"} : stage' = [stage EXCEPT ![t] = l]
  BY DEF Reply, At
<1>3. CASE s = t
  BY <1>0, <1>1, <1>2, <1>3 DEF Engaged, ServicesTypeOK
<1>4. CASE s # t
  <2>1. serving[t] \in Clients /\ step[serving[t]] = "taken" /\ dest[serving[t]] = t
    BY <1>0, <1>1 DEF Engaged, ServicesTypeOK
  <2>2. serving[s] # None => serving[s] \in Clients /\ serving[s] # serving[t]
    BY <1>0, <1>4, <2>1 DEF Engaged, ServicesTypeOK
  <2>3. QED
    BY <1>0, <1>1, <1>2, <1>4, <2>1, <2>2 DEF Engaged, ServicesTypeOK
<1>5. QED
  BY <1>3, <1>4

LEMMA PageStep == PageIInv /\ [Next]_vars => PageIInv'
<1> SUFFICES ASSUME PageIInv, [Next]_vars PROVE PageIInv'
  OBVIOUS
<1>0. ServicesTypeOK /\ Turns
  BY DEF PageIInv
<1>1. ASSUME NEW c \in Clients, ClientStep(c) PROVE PageIInv'
  BY <1>0, <1>1, TypesOfCalls, TurnsOfCalls, EngagedOfCalls DEF PageIInv
<1>2. CASE ShellStep \/ ProgramExits
  BY <1>0, <1>2, TypesOfShell, TurnsOfShell, EngagedOfOthers DEF PageIInv
<1>3. ASSUME NEW s \in Servers, ServerStep(s) PROVE PageIInv'
  BY <1>3, TypesOfServices, TurnsOfServices, EngagedOfTake, EngagedOfReply DEF PageIInv, ServerStep
<1>4. CASE Terminal \/ Keyboard \/ Power \/ PowerActs \/ Proc \/ Timer \/ Type \/ Tick
  BY <1>4, TypesOfServices, TurnsOfServices, EngagedOfOthers DEF PageIInv
<1>5. CASE Off \/ UNCHANGED vars
  <2>1. UNCHANGED vars
    BY <1>5 DEF Off
  <2>2. ServicesTypeOK' /\ Turns'
    BY <1>0, <2>1 DEF vars, slots, client, kernel, service, shell, world, ServicesTypeOK, Turns, WantsKey
  <2>3. \A s \in Servers : Engaged(s)'
    BY <2>1 DEF vars, slots, client, kernel, service, Engaged, PageIInv
  <2>4. QED
    BY <2>2, <2>3 DEF PageIInv
<1>6. QED
  BY <1>1, <1>2, <1>3, <1>4, <1>5 DEF Next

----------------------------------------------------------------------------
(* The keys.                                                               *)

LEMMA KeysInit == Init => CallsForKeys /\ KeysInLine /\ KeysOnTheWay
<1> SUFFICES ASSUME Init PROVE CallsForKeys /\ KeysInLine /\ KeysOnTheWay
  OBVIOUS
<1>1. got = <<>> /\ keys = 0 /\ \A c \in Clients : step[c] = "fill"
  BY DEF Init
<1>2. Pending = 0
  <2>1. stage["keyboard"] = "recv" /\ ~WantsKey("shell")
    BY DEF Init, Servers, WantsKey
  <2>2. QED
    BY <2>1 DEF Pending
<1>3. Len(got) = 0 /\ DOMAIN got = {}
  BY <1>1
<1>4. QED
  BY <1>1, <1>2, <1>3 DEF CallsForKeys, KeysInLine, KeysOnTheWay, Increasing

\* The keyboard service works for the shell, which waits for a key.
LEMMA KeyServer ==
  ASSUME PageIInv, CallsForKeys, stage["keyboard"] \in {"act", "reply"}
  PROVE  serving["keyboard"] = "shell" /\ step["shell"] = "taken" /\ WantsKey("shell")
<1>1. "keyboard" \in Servers
  BY DEF Servers
<1>2. serving["keyboard"] \in Clients
  BY <1>1 DEF PageIInv, ServicesTypeOK, Engaged
<1>3. step[serving["keyboard"]] = "taken" /\ dest[serving["keyboard"]] = "keyboard"
  BY <1>1, <1>2, Names DEF PageIInv, Engaged
<1>4. WantsKey(serving["keyboard"])
  BY <1>2, <1>3 DEF CallsForKeys
<1>5. QED
  BY <1>3, <1>4 DEF WantsKey

\* While a client is before or after the service's work on its request, no
\* key is being answered.
LEMMA NotAnswering ==
  ASSUME PageIInv, CallsForKeys, NEW c \in Clients, step[c] \notin {"fill", "taken"}
  PROVE  stage["keyboard"] # "reply" /\ (c # "shell" => step["shell"] = "fill")
<1>1. c # "shell" => step["shell"] = "fill"
  BY OneInCall, Names DEF PageIInv
<1>2. QED
  BY <1>1, KeyServer

\* Nor while another service has a client's request.
LEMMA OtherServing ==
  ASSUME PageIInv, CallsForKeys, NEW s \in Servers, s # "keyboard", serving[s] # None
  PROVE  /\ stage["keyboard"] # "reply"
         /\ serving[s] = "shell" => ~WantsKey("shell") /\ step["shell"] = "taken"
         /\ serving[s] # "shell" => step["shell"] = "fill"
         /\ Pending = 0
<1>1. serving[s] \in Clients /\ step[serving[s]] = "taken" /\ dest[serving[s]] = s
  BY DEF PageIInv, ServicesTypeOK, Engaged
<1>2. ~WantsKey(serving[s])
  BY <1>1 DEF CallsForKeys
<1>3. serving[s] # "shell" => step["shell"] = "fill"
  BY <1>1, OneInCall, Names DEF PageIInv
<1>4. stage["keyboard"] # "reply"
  BY <1>1, <1>2, <1>3, KeyServer
<1>5. QED
  BY <1>1, <1>2, <1>3, <1>4 DEF Pending

LEMMA PendingType == ServicesTypeOK => Pending \in Nat
<1> SUFFICES ASSUME ServicesTypeOK PROVE Pending \in Nat
  OBVIOUS
<1>1. "shell" \in Clients
  BY Names
<1>2. send.a.n \in Nat
  BY MessageIn DEF ServicesTypeOK
<1>3. answer["shell"].a.n \in Nat
  <2>1. answer["shell"] \in MessageType
    BY <1>1 DEF ServicesTypeOK
  <2>2. QED
    BY <2>1, MessageIn
<1>4. QED
  BY <1>2, <1>3 DEF Pending

\* A step that takes no key and loses none but to the timer service.
LEMMA KeysKept ==
  ASSUME KeysInLine, KeysOnTheWay, keys' = keys, got' = got, torn => torn',
         Pending' = Pending \/ (Pending' = 0 /\ torn')
  PROVE  KeysInLine' /\ KeysOnTheWay'
BY DEF KeysInLine, KeysOnTheWay, Increasing

LEMMA KeysOfCalls ==
  ASSUME PageIInv, CallsForKeys, KeysInLine, KeysOnTheWay, NEW c \in Clients, ClientStep(c)
  PROVE  CallsForKeys' /\ KeysInLine' /\ KeysOnTheWay'
<1>0. ServicesTypeOK /\ Turns /\ keys' = keys /\ got' = got /\ torn' = torn
      /\ mode' = mode /\ stage' = stage
  BY DEF PageIInv, ClientStep, FillType, FillRest, IpcCall, Return, Proceed, world, shell, service
<1>1. CASE FillType(c)
  <2>1. send'.a = send.a /\ answer' = answer /\ todo' = todo /\ step[c] = "fill"
        /\ step' = [step EXCEPT ![c] = "rest"]
    BY <1>0, <1>1 DEF FillType, Go, kernel, ServicesTypeOK, MessageType
  <2>2. WantsKey("shell")' = WantsKey("shell") /\ \A d \in Clients : WantsKey(d)' = WantsKey(d)
    BY <1>0, <2>1 DEF WantsKey
  <2>3. Pending' = Pending
    BY <1>0, <2>1, <2>2, Names DEF Pending, ServicesTypeOK
  <2>4. dest'[c] = "keyboard" <=> WantsKey(c)
    <3>1. todo[c] = <<>> => WantsKey(c) /\ c = "shell"
      BY <1>1 DEF FillType, WantsKey
    <3>2. todo[c] # <<>> => ~WantsKey(c)
      BY DEF WantsKey
    <3>3. dest'[c] = (IF c = "shell" THEN Current(c).to ELSE Lookup(NameOf(Current(c).to)))
      BY <1>0, <1>1 DEF FillType, ServicesTypeOK
    <3>4. Lookup(NameOf(Current(c).to)) \in {Current(c).to, "none"}
      BY <1>0, LookupIn DEF None
    <3>5. todo[c] # <<>> => Current(c).to # "keyboard"
      BY <1>0, CurrentIn
    <3>6. todo[c] = <<>> => Current(c).to = "keyboard"
      BY <1>0, CurrentIn
    <3>7. QED
      BY <3>1, <3>2, <3>3, <3>4, <3>5, <3>6
  <2>5. \A d \in Clients \ {c} : dest'[d] = dest[d] /\ step'[d] = step[d]
    BY <1>0, <1>1, <2>1 DEF FillType, ServicesTypeOK
  <2>6. CallsForKeys'
    BY <2>2, <2>4, <2>5 DEF CallsForKeys
  <2>7. QED
    BY <1>0, <2>3, <2>6, KeysKept
<1>2. ASSUME step[c] \notin {"fill", "taken"}, dest' = dest,
             \E l \in {"call", "asked", "read", "fill"} : step' = [step EXCEPT ![c] = l],
             c # "shell" => todo'["shell"] = todo["shell"],
             todo'["shell"] # todo["shell"] => step'["shell"] = "fill",
             Pending' = Pending
      PROVE  CallsForKeys' /\ KeysInLine' /\ KeysOnTheWay'
  <2>1. CallsForKeys'
    BY <1>0, <1>2, Names DEF CallsForKeys, WantsKey, ServicesTypeOK
  <2>2. QED
    BY <1>0, <1>2, <2>1, KeysKept
<1>3. CASE FillRest(c)
  <2>1. step[c] = "rest" /\ dest' = dest /\ todo' = todo /\ step' = [step EXCEPT ![c] = "call"]
    BY <1>3 DEF FillRest, Go
  <2>2. Pending' = Pending
    BY <1>0, <2>1, NotAnswering, Names DEF Pending, WantsKey, ServicesTypeOK
  <2>3. QED
    BY <1>2, <2>1, <2>2
<1>4. CASE IpcCall(c)
  <2>1. step[c] = "call" /\ dest' = dest /\ todo' = todo /\ step' = [step EXCEPT ![c] = "asked"]
    BY <1>4 DEF IpcCall, Go
  <2>2. Pending' = Pending
    BY <1>0, <2>1, NotAnswering, Names DEF Pending, WantsKey, ServicesTypeOK
  <2>3. QED
    BY <1>2, <2>1, <2>2
<1>5. CASE Return(c)
  <2>1. step[c] = "answered" /\ dest' = dest /\ todo' = todo /\ step' = [step EXCEPT ![c] = "read"]
        /\ send' = answer[c]
    BY <1>5 DEF Return, Go
  <2>2. Pending' = Pending
    BY <1>0, <2>1, NotAnswering, Names DEF Pending, WantsKey, ServicesTypeOK
  <2>3. QED
    BY <1>2, <2>1, <2>2
<1>6. CASE Proceed(c)
  <2>1. step[c] = "read" /\ dest' = dest /\ ~WantsKey(c) /\ step' = [step EXCEPT ![c] = "fill"]
        /\ \A d \in Clients \ {c} : todo'[d] = todo[d]
    BY <1>0, <1>6 DEF Proceed, Go, ServicesTypeOK
  <2>2. step'["shell"] = "fill" /\ (c # "shell" => step["shell"] = "fill") /\ stage["keyboard"] # "reply"
    BY <1>0, <2>1, NotAnswering, Names DEF ServicesTypeOK
  <2>3. Pending' = Pending
    BY <1>0, <2>1, <2>2 DEF Pending
  <2>4. QED
    BY <1>2, <2>1, <2>2, <2>3, Names
<1>7. QED
  BY <1>1, <1>3, <1>4, <1>5, <1>6 DEF ClientStep

\* The shell takes the key that was on its way.
LEMMA KeysOfReadLine ==
  ASSUME PageIInv, CallsForKeys, KeysInLine, KeysOnTheWay, ReadLine
  PROVE  CallsForKeys' /\ KeysInLine' /\ KeysOnTheWay'
<1> DEFINE k == send.a.n
<1>0. ServicesTypeOK /\ Turns /\ "shell" \in Clients
  BY Names DEF PageIInv
<1>1. /\ step["shell"] = "read" /\ WantsKey("shell") /\ step' = [step EXCEPT !["shell"] = "fill"]
      /\ keys' = keys /\ torn' = torn /\ stage' = stage /\ dest' = dest
      /\ got' = (IF k = 0 THEN got ELSE Append(got, k))
  BY DEF ReadLine, Go, service
<1>2. stage["keyboard"] # "reply"
  BY <1>0, <1>1, NotAnswering
<1>3. Pending = k /\ k \in Nat
  <2>1. Pending = k
    BY <1>1, <1>2 DEF Pending
  <2>2. QED
    BY <1>0, <2>1, PendingType
<1>4. Pending' = 0
  BY <1>0, <1>1, <1>2 DEF Pending, ServicesTypeOK
<1>5. step'["shell"] = "fill" /\ step'["prog"] = "fill"
  BY <1>0, <1>1, OneInCall, Names DEF ServicesTypeOK
<1>6. CallsForKeys'
  BY <1>5, Names DEF CallsForKeys
<1>7. got \in Seq(Nat) /\ Len(got) \in Nat /\ DOMAIN got = 1..Len(got) /\ keys \in Nat
      /\ \A i \in DOMAIN got : got[i] \in Nat
  BY <1>0, LenProperties, ElementOfSeq DEF ServicesTypeOK
<1> HIDE DEF k
<1>8. CASE k = 0
  <2>1. got' = got /\ Pending' = Pending
    BY <1>1, <1>3, <1>4, <1>8
  <2>2. QED
    BY <1>1, <1>6, <2>1, KeysKept
<1>9. CASE k # 0
  <2>1. got' = Append(got, k)
    BY <1>1, <1>9
  <2>2. /\ DOMAIN got' = 1..Len(got) + 1 /\ Len(got') = Len(got) + 1 /\ got'[Len(got) + 1] = k
        /\ \A i \in 1..Len(got) : got'[i] = got[i]
    BY <1>3, <1>7, <2>1, AppendProperties
  <2>3. k <= keys /\ \A i \in 1..Len(got) : got[i] < k
    BY <1>3, <1>7, <1>9 DEF KeysOnTheWay
  <2>4. ~torn => keys = Len(got) + 1 /\ \A i \in 1..Len(got) : got[i] = i
    BY <1>3, <1>7, <1>9 DEF KeysOnTheWay, KeysInLine
  <2>5. Increasing(got')
    <3> SUFFICES ASSUME NEW i \in 1..Len(got) + 1, NEW j \in 1..Len(got) + 1, i < j
                 PROVE  got'[i] < got'[j]
      BY <2>2 DEF Increasing
    <3>1. i \in 1..Len(got)
      BY <1>7
    <3>2. CASE j = Len(got) + 1
      BY <2>2, <2>3, <3>1, <3>2
    <3>3. CASE j \in 1..Len(got)
      BY <1>7, <2>2, <3>1, <3>3 DEF KeysInLine, Increasing
    <3>4. QED
      BY <1>7, <3>2, <3>3
  <2>6. \A i \in DOMAIN got' : got'[i] <= keys'
    <3>1. \A i \in 1..Len(got) : got[i] <= keys
      BY <1>7 DEF KeysInLine
    <3>2. \A i \in 1..Len(got) + 1 : i \in 1..Len(got) \/ i = Len(got) + 1
      BY <1>7
    <3>3. QED
      BY <1>1, <2>2, <2>3, <3>1, <3>2
  <2>7. ~torn' => k = Len(got) + 1
    <3> SUFFICES ASSUME ~torn PROVE k = Len(got) + 1
      BY <1>1
    <3>1. k <= Len(got) + 1 /\ \A i \in 1..Len(got) : i < k
      BY <2>3, <2>4
    <3>2. CASE Len(got) = 0
      BY <1>3, <1>9, <3>1, <3>2
    <3>3. CASE Len(got) # 0
      <4>1. Len(got) < k
        BY <1>7, <3>1, <3>3
      <4>2. QED
        BY <1>3, <1>7, <3>1, <4>1
    <3>4. QED
      BY <3>2, <3>3
  <2>8. ~torn' => \A i \in DOMAIN got' : got'[i] = i
    BY <1>1, <1>7, <2>2, <2>4, <2>7
  <2>9. KeysInLine'
    BY <2>5, <2>6, <2>8 DEF KeysInLine
  <2>10. ~torn => keys = Len(got) + 1
    BY <2>4
  <2>11. KeysOnTheWay'
    <3>1. ~torn' => keys' = Len(got')
      BY <1>1, <2>2, <2>10
    <3>2. Len(got') + 0 = Len(got')
      BY <1>7, <2>2
    <3>3. QED
      BY <1>4, <3>1, <3>2 DEF KeysOnTheWay
  <2>12. QED
    BY <1>6, <2>9, <2>11
<1>10. QED
  BY <1>8, <1>9

LEMMA KeysOfShell ==
  ASSUME PageIInv, CallsForKeys, KeysInLine, KeysOnTheWay, ShellStep \/ ProgramExits
  PROVE  CallsForKeys' /\ KeysInLine' /\ KeysOnTheWay'
<1>0. ServicesTypeOK /\ Turns /\ "shell" \in Clients
  BY Names DEF PageIInv
<1>1. CASE ReadLine
  BY <1>1, KeysOfReadLine
<1>2. CASE ProgramExits
  <2>1. UNCHANGED <<step, dest, mode, todo, stage, send, answer, keys, got, torn>>
    BY <1>2 DEF ProgramExits, slots, client, kernel, service, world
  <2>2. Pending' = Pending /\ CallsForKeys'
    BY <2>1 DEF Pending, CallsForKeys, WantsKey
  <2>3. QED
    BY <2>1, <2>2, KeysKept
<1>3. CASE Prompt \/ Spawn \/ Wait
  <2>1. /\ UNCHANGED <<step, dest, stage, send, answer, keys, got, torn>> /\ step["shell"] = "fill"
    BY <1>0, <1>3 DEF Prompt, Spawn, Wait, slots, client, kernel, service, world, Turns
  <2>2. stage["keyboard"] # "reply"
    BY <2>1, KeyServer
  <2>3. Pending' = Pending
    BY <2>1, <2>2 DEF Pending
  <2>4. CallsForKeys'
    BY <2>1, Names DEF CallsForKeys, WantsKey
  <2>5. QED
    BY <2>1, <2>3, <2>4, KeysKept
<1>4. QED
  BY <1>1, <1>2, <1>3 DEF ShellStep

LEMMA KeysOfTake ==
  ASSUME PageIInv, CallsForKeys, KeysInLine, KeysOnTheWay, NEW s \in Servers, Take(s)
  PROVE  CallsForKeys' /\ KeysInLine' /\ KeysOnTheWay'
<1>0. ServicesTypeOK /\ Turns /\ "shell" \in Clients /\ "keyboard" \in Servers
  BY Names DEF PageIInv, Servers
<1>1. PICK c \in Clients : step[c] = "asked" /\ step' = [step EXCEPT ![c] = "taken"]
  BY DEF Take, Queued, Go
<1>2. /\ UNCHANGED <<dest, mode, todo, send, answer, keys, got, torn>>
      /\ stage[s] = "recv" /\ stage' = [stage EXCEPT ![s] = "act"]
  BY DEF Take, At, kernel, shell, world
<1>3. CallsForKeys'
  BY <1>0, <1>1, <1>2 DEF CallsForKeys, WantsKey, ServicesTypeOK
<1>4. Pending' = Pending
  BY <1>0, <1>1, <1>2 DEF Pending, WantsKey, ServicesTypeOK
<1>5. QED
  BY <1>2, <1>3, <1>4, KeysKept

LEMMA KeysOfReply ==
  ASSUME PageIInv, CallsForKeys, KeysInLine, KeysOnTheWay, NEW s \in Servers, Reply(s)
  PROVE  CallsForKeys' /\ KeysInLine' /\ KeysOnTheWay'
<1>0. ServicesTypeOK /\ Turns /\ "shell" \in Clients /\ "keyboard" \in Servers /\ Engaged(s)
  BY Names DEF PageIInv, Servers
<1>1. /\ UNCHANGED <<dest, mode, todo, send, keys, got, torn>> /\ stage[s] = "reply"
      /\ answer' = [answer EXCEPT ![serving[s]] = IF s = "terminal" THEN recv ELSE send]
      /\ step' = [step EXCEPT ![serving[s]] = "answered"]
  BY DEF Reply, IpcReply, slots, shell, world
<1>2. serving[s] \in Clients /\ step[serving[s]] = "taken"
  BY <1>0, <1>1 DEF Engaged, ServicesTypeOK
<1>3. PICK l \in {"REBOOT", "SHUTDOWN", "recv"} : stage' = [stage EXCEPT ![s] = l]
  BY DEF Reply, At
<1>4. CallsForKeys'
  BY <1>0, <1>1, <1>2 DEF CallsForKeys, WantsKey, ServicesTypeOK
<1>5. WantsKey("shell")' = WantsKey("shell")
  BY <1>1 DEF WantsKey
<1>6. CASE s = "keyboard"
  <2>1. serving[s] = "shell" /\ WantsKey("shell")
    BY <1>1, <1>6, KeyServer
  <2>2. Pending = send.a.n
    BY <1>1, <1>6 DEF Pending
  <2>3. stage'["keyboard"] # "reply" /\ step'["shell"] = "answered" /\ answer'["shell"] = send
    BY <1>0, <1>1, <1>3, <1>6, <2>1 DEF ServicesTypeOK
  <2>4. Pending' = send.a.n
    BY <1>5, <2>1, <2>3 DEF Pending
  <2>5. QED
    BY <1>1, <1>4, <2>2, <2>4, KeysKept
<1>7. CASE s # "keyboard"
  <2>1. /\ stage["keyboard"] # "reply" /\ Pending = 0
        /\ serving[s] = "shell" => ~WantsKey("shell")
        /\ serving[s] # "shell" => step["shell"] = "fill"
    BY <1>2, <1>7, OtherServing, Names
  <2>2. stage'["keyboard"] # "reply"
    BY <1>0, <1>3, <1>7, <2>1 DEF ServicesTypeOK
  <2>3. serving[s] # "shell" => step'["shell"] = "fill"
    BY <1>0, <1>1, <2>1 DEF ServicesTypeOK
  <2>4. Pending' = 0
    BY <1>5, <2>1, <2>2, <2>3 DEF Pending
  <2>5. QED
    BY <1>1, <1>4, <2>1, <2>4, KeysKept
<1>8. QED
  BY <1>6, <1>7

\* The keyboard service's answer: the next key, or none.
LEMMA KeysOfKeyboard ==
  ASSUME PageIInv, CallsForKeys, KeysInLine, KeysOnTheWay, Keyboard
  PROVE  CallsForKeys' /\ KeysInLine' /\ KeysOnTheWay'
<1> DEFINE pops == recv.type = "KEY_GET" /\ keys < typed
<1>0. ServicesTypeOK /\ "keyboard" \in Servers
  BY DEF PageIInv, Servers
<1>1. /\ UNCHANGED <<step, dest, mode, todo, got, torn>> /\ stage["keyboard"] = "act"
      /\ stage'["keyboard"] = "reply"
      /\ keys' = keys + (IF pops THEN 1 ELSE 0)
      /\ send'.a = (IF pops THEN [v |-> script[keys + 1], n |-> keys + 1] ELSE Zero)
  BY <1>0 DEF Keyboard, Pop, At, client, shell, Message, ServicesTypeOK
<1>2. step["shell"] = "taken"
  BY <1>1, KeyServer
<1>3. Pending = 0
  BY <1>1, <1>2 DEF Pending
<1>4. CallsForKeys'
  BY <1>1 DEF CallsForKeys, WantsKey
<1>5. got \in Seq(Nat) /\ Len(got) \in Nat /\ DOMAIN got = 1..Len(got) /\ keys \in Nat
      /\ \A i \in DOMAIN got : got[i] \in Nat /\ got[i] <= keys
  BY <1>0, LenProperties, ElementOfSeq DEF ServicesTypeOK, KeysInLine
<1>6. Pending' = (IF pops THEN keys + 1 ELSE 0)
  BY <1>1 DEF Pending, Zero
<1> HIDE DEF pops
<1>7. CASE ~pops
  <2>1. keys' = keys
    BY <1>1, <1>5, <1>7
  <2>2. Pending' = Pending
    BY <1>3, <1>6, <1>7
  <2>3. QED
    BY <1>1, <1>4, <2>1, <2>2, KeysKept
<1>8. CASE pops
  <2>1. keys' = keys + 1 /\ Pending' = keys + 1 /\ keys + 1 # 0
    BY <1>1, <1>5, <1>6, <1>8
  <2>2. \A i \in DOMAIN got : got[i] <= keys + 1 /\ got[i] < keys + 1
    BY <1>5
  <2>3. KeysInLine'
    BY <1>1, <2>1, <2>2 DEF KeysInLine, Increasing
  <2>4. ~torn => keys = Len(got)
    BY <1>3, <1>5 DEF KeysOnTheWay
  <2>5. KeysOnTheWay'
    <3>1. Pending' <= keys' /\ \A i \in DOMAIN got' : got'[i] < Pending'
      BY <1>1, <1>5, <2>1, <2>2
    <3>2. ~torn' => keys' = Len(got') + 1
      BY <1>1, <2>1, <2>4
    <3>3. Pending' # 0
      BY <2>1
    <3>4. QED
      BY <3>1, <3>2, <3>3 DEF KeysOnTheWay
  <2>6. QED
    BY <1>4, <2>3, <2>5
<1>9. QED
  BY <1>7, <1>8

\* The timer service may overwrite the key on its way, and then says so.
LEMMA KeysOfTimer ==
  ASSUME PageIInv, CallsForKeys, KeysInLine, KeysOnTheWay, Timer
  PROVE  CallsForKeys' /\ KeysInLine' /\ KeysOnTheWay'
<1>0. ServicesTypeOK /\ "timer" \in Servers /\ "keyboard" \in Servers /\ "shell" \in Clients
  BY Names DEF PageIInv, Servers
<1>1. /\ UNCHANGED <<step, dest, mode, todo, answer, keys, got>>
      /\ (torn => torn') /\ stage'["keyboard"] = stage["keyboard"]
      /\ (serving["timer"] = None /\ (InUse("shell") \/ Answering("keyboard")) => torn')
      /\ send'.a.n = 0
  <2>1. UNCHANGED <<step, dest, mode, todo, answer, keys, got>>
    BY DEF Timer, client, shell, kernel, world
  <2>2. stage'["keyboard"] = stage["keyboard"]
    BY <1>0 DEF Timer, At, ServicesTypeOK
  <2>3. (torn => torn') /\ (serving["timer"] = None /\ (InUse("shell") \/ Answering("keyboard")) => torn')
    BY <1>0, Zenon DEF Timer
  <2>4. send'.a.n = 0
    BY DEF Timer, Message, Zero
  <2>5. QED
    BY <2>1, <2>2, <2>3, <2>4
<1>2. CallsForKeys'
  BY <1>1 DEF CallsForKeys, WantsKey
<1>3. WantsKey("shell")' = WantsKey("shell")
  BY <1>1 DEF WantsKey
<1>4. CASE serving["timer"] = None
  <2>1. CASE stage["keyboard"] = "reply"
    <3>1. torn' /\ Pending' = 0
      BY <1>1, <1>4, <2>1 DEF Answering, Pending
    <3>2. QED
      BY <1>1, <1>2, <3>1, KeysKept
  <2>2. CASE stage["keyboard"] # "reply" /\ WantsKey("shell") /\ step["shell"] = "read"
    <3>1. torn'
      BY <1>1, <1>4, <2>2 DEF InUse
    <3>2. Pending' = 0
      BY <1>1, <1>3, <2>2 DEF Pending
    <3>3. QED
      BY <1>1, <1>2, <3>1, <3>2, KeysKept
  <2>3. CASE stage["keyboard"] # "reply" /\ ~(WantsKey("shell") /\ step["shell"] = "read")
    <3>1. Pending' = Pending
      BY <1>1, <1>3, <2>3 DEF Pending
    <3>2. QED
      BY <1>1, <1>2, <3>1, KeysKept
  <2>4. QED
    BY <2>1, <2>2, <2>3
<1>5. CASE serving["timer"] # None
  <2>1. /\ stage["keyboard"] # "reply" /\ Pending = 0
        /\ ~WantsKey("shell") \/ step["shell"] = "fill"
    BY <1>0, <1>5, OtherServing
  <2>2. Pending' = 0
    BY <1>1, <1>3, <2>1 DEF Pending
  <2>3. QED
    BY <1>1, <1>2, <2>1, <2>2, KeysKept
<1>6. QED
  BY <1>4, <1>5

LEMMA KeysOfOthers ==
  ASSUME PageIInv, CallsForKeys, KeysInLine, KeysOnTheWay,
         Terminal \/ Power \/ PowerActs \/ Proc \/ Type \/ Tick \/ Off \/ UNCHANGED vars
  PROVE  CallsForKeys' /\ KeysInLine' /\ KeysOnTheWay'
<1>0. ServicesTypeOK
  BY DEF PageIInv
<1>1. /\ UNCHANGED <<step, dest, mode, todo, answer, keys, got, torn>>
      /\ stage'["keyboard"] = stage["keyboard"]
  <2>1. UNCHANGED <<step, dest, mode, todo, answer, keys, got, torn>>
    BY DEF Terminal, Power, PowerActs, Proc, Type, Tick, Off, vars, client, shell, kernel, world
  <2>2. CASE Terminal \/ Power \/ PowerActs \/ Proc \/ Tick
    <3>1. PICK s \in {"terminal", "power", "proc", "timer"}, l \in {"act", "reply", "recv"} :
            stage' = [stage EXCEPT ![s] = l]
      BY <2>2 DEF Terminal, TerminalAnswers, Power, PowerActs, Proc, Tick, At
    <3>2. QED
      BY <1>0, <2>1, <3>1 DEF ServicesTypeOK
  <2>3. CASE Type \/ Off \/ UNCHANGED vars
    BY <2>1, <2>3 DEF Type, Off, vars, service
  <2>4. QED
    BY <2>2, <2>3, <2>1
<1>2. CallsForKeys'
  BY <1>1 DEF CallsForKeys, WantsKey
<1>3. WantsKey("shell")' = WantsKey("shell")
  BY <1>1 DEF WantsKey
<1>4. CASE send' = send
  <2>1. Pending' = Pending
    BY <1>1, <1>3, <1>4 DEF Pending
  <2>2. QED
    BY <1>1, <1>2, <2>1, KeysKept
<1>5. CASE send' # send
  <2>1. PICK s \in {"power", "proc"} : stage[s] = "act"
    BY <1>5 DEF Terminal, Power, PowerActs, Proc, Type, Tick, Off, vars, slots
  <2>2. s \in Servers /\ s # "keyboard" /\ s # "timer"
    BY DEF Servers
  <2>3. serving[s] # None
    BY <2>1, <2>2 DEF PageIInv, Engaged
  <2>4. /\ stage["keyboard"] # "reply" /\ Pending = 0
        /\ ~WantsKey("shell") \/ step["shell"] = "fill"
    BY <2>2, <2>3, OtherServing
  <2>5. Pending' = 0
    BY <1>1, <1>3, <2>4 DEF Pending
  <2>6. QED
    BY <1>1, <1>2, <2>4, <2>5, KeysKept
<1>6. QED
  BY <1>4, <1>5

LEMMA KeysStep == KeysIInv /\ [Next]_vars => KeysIInv'
<1> SUFFICES ASSUME KeysIInv, [Next]_vars PROVE KeysIInv'
  OBVIOUS
<1>1. PageIInv /\ CallsForKeys /\ KeysInLine /\ KeysOnTheWay
  BY DEF KeysIInv
<1>2. PageIInv'
  BY <1>1, PageStep
<1>3. CallsForKeys' /\ KeysInLine' /\ KeysOnTheWay'
  <2>1. ASSUME NEW c \in Clients, ClientStep(c) PROVE CallsForKeys' /\ KeysInLine' /\ KeysOnTheWay'
    BY <1>1, <2>1, KeysOfCalls
  <2>2. ASSUME NEW s \in Servers, ServerStep(s) PROVE CallsForKeys' /\ KeysInLine' /\ KeysOnTheWay'
    BY <1>1, <2>2, KeysOfTake, KeysOfReply DEF ServerStep
  <2>3. QED
    BY <1>1, <2>1, <2>2, KeysOfShell, KeysOfKeyboard, KeysOfTimer, KeysOfOthers DEF Next
<1>4. QED
  BY <1>2, <1>3 DEF KeysIInv

----------------------------------------------------------------------------
(* Requests go where they are for.                                         *)

LEMMA RightServiceKept ==
  ASSUME RightService,
         \A c \in Clients : \/ step'[c] = "fill"
                            \/ step[c] # "fill" /\ dest'[c] = dest[c] /\ todo'[c] = todo[c]
  PROVE  RightService'
BY DEF RightService, Current, KeyGet, Request

LEMMA RightServiceStep ==
  ASSUME KeysIInv, RightService, [Next]_vars
  PROVE  RightService'
<1>0. ServicesTypeOK /\ Turns /\ \A s \in Servers : Engaged(s)
  BY DEF KeysIInv, PageIInv
<1>1. ASSUME UNCHANGED <<step, dest, todo>> PROVE RightService'
  BY <1>1 DEF RightService, Current, KeyGet, Request
<1>2. ASSUME NEW c \in Clients, ClientStep(c) PROVE RightService'
  <2>1. CASE FillType(c)
    <3>1. /\ step[c] = "fill" /\ todo' = todo /\ step' = [step EXCEPT ![c] = "rest"]
          /\ dest' = [dest EXCEPT ![c] = IF c = "shell" THEN Current(c).to
                                         ELSE Lookup(NameOf(Current(c).to))]
      BY <2>1 DEF FillType, Go
    <3>2. Current(c).to \in {Current(c).to, None} /\ Lookup(NameOf(Current(c).to)) \in {Current(c).to, None}
      BY <1>0, LookupIn
    <3>3. dest'[c] \in {Current(c).to, None}
      BY <1>0, <3>1, <3>2 DEF ServicesTypeOK
    <3>4. \A d \in Clients \ {c} : dest'[d] = dest[d] /\ step'[d] = step[d]
      BY <1>0, <3>1 DEF ServicesTypeOK
    <3>5. \A d \in Clients : Current(d)' = Current(d)
      BY <3>1 DEF Current, KeyGet, Request
    <3>6. QED
      BY <3>3, <3>4, <3>5 DEF RightService
  <2>2. CASE FillRest(c) \/ IpcCall(c) \/ Return(c)
    <3>1. /\ dest' = dest /\ todo' = todo /\ step[c] # "fill"
          /\ \E l \in {"call", "asked", "read"} : step' = [step EXCEPT ![c] = l]
      BY <2>2 DEF FillRest, IpcCall, Return, Go
    <3>2. QED
      BY <1>0, <3>1, RightServiceKept DEF ServicesTypeOK
  <2>3. CASE Proceed(c)
    <3>1. /\ dest' = dest /\ step' = [step EXCEPT ![c] = "fill"]
          /\ \A d \in Clients \ {c} : todo'[d] = todo[d]
      BY <1>0, <2>3 DEF Proceed, Go, ServicesTypeOK
    <3>2. QED
      BY <1>0, <3>1, RightServiceKept DEF ServicesTypeOK
  <2>4. QED
    BY <1>2, <2>1, <2>2, <2>3 DEF ClientStep
<1>3. CASE ShellStep \/ ProgramExits
  <2>1. dest' = dest /\ \A c \in Clients : step'[c] \in {step[c], "fill"}
    BY <1>0, <1>3 DEF ShellStep, Prompt, ReadLine, Spawn, Wait, ProgramExits, Go, client,
                      ServicesTypeOK
  <2>2. \A c \in Clients : step'[c] # "fill" => todo'[c] = todo[c]
    <3>1. CASE Prompt
      BY <1>0, <3>1, Names DEF Prompt, ShellPuts, ServicesTypeOK
    <3>2. CASE ReadLine
      BY <1>0, <3>2, Names DEF ReadLine, LineKey, ShellPuts, Go, ServicesTypeOK
    <3>3. CASE Spawn
      <4>1. \A c \in Clients : step'[c] = "fill"
        BY <1>0, <3>3, Names DEF Spawn, Turns
      <4>2. QED
        BY <4>1
    <3>4. CASE Wait \/ ProgramExits
      BY <3>4 DEF Wait, ProgramExits, client
    <3>5. QED
      BY <1>3, <3>1, <3>2, <3>3, <3>4 DEF ShellStep
  <2>3. QED
    BY <2>1, <2>2, RightServiceKept
<1>4. ASSUME NEW s \in Servers, ServerStep(s) PROVE RightService'
  <2>1. /\ dest' = dest /\ todo' = todo
        /\ \E c \in Clients, l \in {"taken", "answered"} :
             step[c] # "fill" /\ step' = [step EXCEPT ![c] = l]
    <3>1. CASE Take(s)
      BY <3>1 DEF Take, Queued, Go
    <3>2. CASE Reply(s)
      <4>1. serving[s] \in Clients /\ step[serving[s]] = "taken"
        BY <1>0, <3>2 DEF Reply, IpcReply, Engaged, ServicesTypeOK
      <4>2. QED
        BY <3>2, <4>1 DEF Reply, IpcReply
    <3>3. QED
      BY <1>4, <3>1, <3>2 DEF ServerStep
  <2>2. QED
    BY <1>0, <2>1, RightServiceKept DEF ServicesTypeOK
<1>5. CASE Terminal \/ Keyboard \/ Power \/ PowerActs \/ Proc \/ Timer \/ Type \/ Tick \/ Off
             \/ UNCHANGED vars
  <2>1. UNCHANGED <<step, dest, todo>>
    BY <1>5 DEF Terminal, Keyboard, Power, PowerActs, Proc, Timer, Type, Tick, Off, vars, client
  <2>2. QED
    BY <1>1, <2>1
<1>6. QED
  BY <1>2, <1>3, <1>4, <1>5 DEF Next

----------------------------------------------------------------------------
(* Nothing turns up that the user cannot have meant.                       *)

KnownAsks == Seq(Asks(KnownTypes \cap AskType, KnownBytes))

\* What a message of the next state may hold.
NowKnown(m) == m.type \in KnownTypes' /\ m.a.v \in KnownValues'

LEMMA NextGrows ==
  ASSUME KeysIInv, [Next]_vars
  PROVE  script' = script /\ keys \in Nat /\ keys' \in Nat /\ keys <= keys' /\ (torn => torn')
<1>0. keys \in Nat
  BY DEF KeysIInv, PageIInv, ServicesTypeOK
<1>1. ASSUME NEW c \in Clients, ClientStep(c) PROVE script' = script /\ keys' = keys /\ torn' = torn
  BY <1>1 DEF ClientStep, FillType, FillRest, IpcCall, Return, Proceed, world
<1>2. CASE ShellStep \/ ProgramExits
  BY <1>0, <1>2 DEF ShellStep, ProgramExits, Prompt, ReadLine, Spawn, Wait, world
<1>3. ASSUME NEW s \in Servers, ServerStep(s) PROVE script' = script /\ keys' = keys /\ torn' = torn
  BY <1>3 DEF ServerStep, Take, Reply, world
<1>4. CASE Keyboard
  BY <1>0, <1>4 DEF Keyboard, Pop
<1>5. CASE Timer
  <2>1. torn => torn'
    BY <1>5, Zenon DEF Timer
  <2>2. QED
    BY <1>0, <1>5, <2>1 DEF Timer, world
<1>6. CASE Terminal \/ Power \/ PowerActs \/ Proc \/ Type \/ Tick \/ Off \/ UNCHANGED vars
  BY <1>0, <1>6 DEF Terminal, Power, PowerActs, Proc, Type, Tick, Off, vars, world
<1>7. QED
  BY <1>0, <1>1, <1>2, <1>3, <1>4, <1>5, <1>6 DEF Next

\* What was known stays known.
LEMMA KnownGrows ==
  ASSUME KeysIInv, [Next]_vars
  PROVE  /\ KnownValues \subseteq KnownValues' /\ KnownTypes \subseteq KnownTypes'
         /\ KnownBytes \subseteq KnownBytes' /\ KnownAsks \subseteq KnownAsks'
         /\ Seq(KnownValues) \subseteq Seq(KnownValues')
         /\ Seq(KnownBytes) \subseteq Seq(KnownBytes')
         /\ \A k : Typed(k) => Typed(k)'
<1>1. script' = script /\ keys \in Nat /\ keys' \in Nat /\ keys <= keys' /\ (torn => torn')
  BY NextGrows
<1>2. KnownValues \subseteq KnownValues' /\ \A k : Typed(k) => Typed(k)'
  BY <1>1 DEF KnownValues, Typed
<1>3. KnownTypes \subseteq KnownTypes'
  BY <1>2 DEF KnownTypes
<1>4. KnownBytes \subseteq KnownBytes'
  BY <1>1 DEF KnownBytes
<1>5. KnownAsks \subseteq KnownAsks'
  <2>1. KnownTypes \cap AskType \subseteq KnownTypes' \cap AskType
    BY <1>3
  <2>2. Seq(Asks(KnownTypes \cap AskType, KnownBytes)) \subseteq Seq(Asks(KnownTypes' \cap AskType, KnownBytes'))
    BY <1>4, <2>1, AsksMore
  <2>3. QED
    BY <2>2 DEF KnownAsks
<1>6. QED
  BY <1>2, <1>3, <1>4, <1>5, SeqMore

\* What the programs print is always known.
LEMMA PrintsKnown ==
  /\ Prints \subseteq KnownAsks
  /\ torn => Seq(Asks({"PUTS"}, ByteType)) \subseteq KnownAsks
  /\ "PUTS" \in KnownTypes \cap AskType /\ "0" \in KnownTypes /\ "KEY_GET" \in KnownTypes
<1>1. "PUTS" \in KnownTypes \cap AskType /\ "0" \in KnownTypes /\ "KEY_GET" \in KnownTypes
  BY DEF KnownTypes, AskType
<1>2. {"PUTS"} \subseteq KnownTypes \cap AskType
  BY <1>1
<1>3. Plain \subseteq KnownBytes /\ (torn => ByteType \subseteq KnownBytes)
  BY DEF Plain, KnownBytes
<1>4. Seq(Asks({"PUTS"}, Plain)) \subseteq Seq(Asks(KnownTypes \cap AskType, KnownBytes))
  BY <1>2, <1>3, AsksMore
<1>5. torn => Seq(Asks({"PUTS"}, ByteType)) \subseteq Seq(Asks(KnownTypes \cap AskType, KnownBytes))
  BY <1>2, <1>3, AsksMore
<1>6. QED
  BY <1>1, <1>4, <1>5 DEF Prints, KnownAsks

\* The request a client makes is a known one.
LEMMA CurrentKnown ==
  ASSUME ServicesTypeOK, NothingUnknown, NEW c \in Clients
  PROVE  /\ Current(c).type \in KnownTypes
         /\ todo[c] # <<>> => /\ Current(c).type \in KnownTypes \cap AskType
                              /\ Current(c).bytes \in Seq(KnownBytes)
                              /\ Tail(todo[c]) \in KnownAsks
<1>1. todo[c] \in Seq(Asks(KnownTypes \cap AskType, KnownBytes))
  BY DEF NothingUnknown
<1>2. CASE todo[c] = <<>>
  BY <1>2, CurrentIn, PrintsKnown
<1>3. CASE todo[c] # <<>>
  <2>1. todo[c][1] \in Asks(KnownTypes \cap AskType, KnownBytes)
    BY <1>1, <1>3, EmptySeq, LenProperties, ElementOfSeq
  <2>2. Current(c) \in Asks(KnownTypes \cap AskType, KnownBytes)
    BY <1>3, <2>1 DEF Current
  <2>3. Current(c).type \in KnownTypes \cap AskType /\ Current(c).bytes \in Seq(KnownBytes)
    BY <2>2, AskIn
  <2>4. Tail(todo[c]) \in Seq(Asks(KnownTypes \cap AskType, KnownBytes))
    BY <1>1, <1>3, HeadTailProperties
  <2>5. QED
    BY <2>3, <2>4 DEF KnownAsks
<1>4. QED
  BY <1>2, <1>3

LEMMA UnknownKept ==
  ASSUME KeysIInv, NothingUnknown, [Next]_vars,
         send' = send \/ NowKnown(send'), recv' = recv \/ NowKnown(recv'),
         \A c \in Clients : /\ out'[c] = out[c] \/ NowKnown(out'[c])
                            /\ answer'[c] = answer[c] \/ NowKnown(answer'[c])
                            /\ todo'[c] = todo[c] \/ todo'[c] \in KnownAsks',
         line' = line \/ line' \in Seq(KnownValues'),
         \/ stage'["power"] = stage["power"]
         \/ stage'["power"] \notin {"REBOOT", "SHUTDOWN"} \/ stage'["power"] \in KnownTypes,
         \/ machine' = machine \/ machine' = "on"
         \/ machine' = "reset" /\ Typed("r")
         \/ machine' = "off" /\ Typed("s")
  PROVE  NothingUnknown'
<1>1. /\ KnownValues \subseteq KnownValues' /\ KnownTypes \subseteq KnownTypes'
      /\ KnownAsks \subseteq KnownAsks' /\ Seq(KnownValues) \subseteq Seq(KnownValues')
      /\ \A k : Typed(k) => Typed(k)'
  BY KnownGrows
<1>2. \A m : KnownMessage(m) => NowKnown(m)
  BY <1>1 DEF KnownMessage, NowKnown
<1>3. NowKnown(send') /\ NowKnown(recv') /\ \A c \in Clients : NowKnown(out'[c]) /\ NowKnown(answer'[c])
  BY <1>2 DEF NothingUnknown
<1>4. \A c \in Clients : todo'[c] \in KnownAsks'
  BY <1>1 DEF NothingUnknown, KnownAsks
<1>5. line' \in Seq(KnownValues')
  BY <1>1 DEF NothingUnknown
<1>6. stage'["power"] \in {"REBOOT", "SHUTDOWN"} => stage'["power"] \in KnownTypes'
  BY <1>1 DEF NothingUnknown
<1>7. (machine' = "reset" => Typed("r")') /\ (machine' = "off" => Typed("s")')
  BY <1>1 DEF NothingUnknown
<1>8. QED
  BY <1>3, <1>4, <1>5, <1>6, <1>7 DEF NothingUnknown, KnownAsks, KnownMessage, NowKnown

LEMMA UnknownOfCalls ==
  ASSUME KeysIInv, NothingUnknown, ~torn => Untorn, [Next]_vars,
         NEW c \in Clients, ClientStep(c)
  PROVE  NothingUnknown'
<1>0. ServicesTypeOK /\ Turns /\ KnownTypes \subseteq KnownTypes' /\ KnownValues \subseteq KnownValues'
      /\ KnownAsks \subseteq KnownAsks'
  BY KnownGrows DEF KeysIInv, PageIInv
<1>1. /\ KnownMessage(send) /\ KnownMessage(answer[c]) /\ "0" \in KnownValues
      /\ recv' = recv /\ line' = line /\ stage' = stage /\ machine' = machine
  BY <1>0 DEF NothingUnknown, KnownValues, ClientStep, FillType, FillRest, IpcCall, Return,
              Proceed, slots, service, shell, world
<1>2. CASE FillType(c)
  <2>1. /\ send' = [send EXCEPT !.type = Current(c).type]
        /\ UNCHANGED <<out, answer, todo>>
    BY <1>2 DEF FillType, kernel
  <2>2. send'.type = Current(c).type /\ send'.a = send.a
    BY <1>0, <2>1 DEF ServicesTypeOK, MessageType
  <2>3. NowKnown(send')
    BY <1>0, <1>1, <2>2, CurrentKnown DEF KnownMessage, NowKnown
  <2>4. QED
    BY <1>1, <2>1, <2>3, UnknownKept
<1>3. CASE FillRest(c)
  <2>1. /\ send' = Filled(send, Current(c), Len(asked) + 1)
        /\ UNCHANGED <<out, answer, todo>>
    BY <1>3 DEF FillRest, kernel
  <2>2. send'.type = send.type /\ send'.a.v = "0"
    BY <2>1 DEF Filled, Message, Zero
  <2>3. NowKnown(send')
    BY <1>0, <1>1, <2>2 DEF KnownMessage, NowKnown
  <2>4. QED
    BY <1>1, <2>1, <2>3, UnknownKept
<1>4. CASE IpcCall(c)
  <2>1. out' = [out EXCEPT ![c] = send] /\ UNCHANGED <<send, answer, todo>>
    BY <1>4 DEF IpcCall, slots
  <2>2. NowKnown(send)
    BY <1>0, <1>1 DEF KnownMessage, NowKnown
  <2>3. \A d \in Clients : out'[d] = out[d] \/ NowKnown(out'[d])
    BY <1>0, <2>1, <2>2 DEF ServicesTypeOK
  <2>4. QED
    BY <1>1, <2>1, <2>3, UnknownKept
<1>5. CASE Return(c)
  <2>1. send' = answer[c] /\ UNCHANGED <<out, answer, todo>>
    BY <1>5 DEF Return, kernel
  <2>2. NowKnown(answer[c])
    BY <1>0, <1>1 DEF KnownMessage, NowKnown
  <2>3. QED
    BY <1>1, <2>1, <2>2, UnknownKept
<1>6. CASE Proceed(c)
  <2>1. /\ step[c] = "read" /\ ~WantsKey(c) /\ UNCHANGED <<send, out, answer>>
        /\ todo' = [todo EXCEPT ![c] = After(Current(c).type, send.a) \o Tail(todo[c])]
    BY <1>6 DEF Proceed, slots, kernel
  <2>2. todo[c] # <<>>
    BY <1>0, <2>1 DEF Turns
  <2>3. send.a \in [v : ValueType, n : Nat]
    BY <1>0 DEF ServicesTypeOK, MessageType
  <2>4. ~torn => send.a # Zero \/ Current(c).type # "UPTIME"
    BY <2>1 DEF Untorn, AsMeant
  <2>5. After(Current(c).type, send.a) \in KnownAsks
    <3>1. CASE torn
      BY <2>3, <3>1, AfterType, PrintsKnown
    <3>2. CASE ~torn
      BY <2>3, <2>4, <3>2, AfterType, PrintsKnown
    <3>3. QED
      BY <3>1, <3>2
  <2>6. Tail(todo[c]) \in KnownAsks
    BY <1>0, <2>2, CurrentKnown
  <2>7. After(Current(c).type, send.a) \o Tail(todo[c]) \in KnownAsks
    BY <2>5, <2>6, ConcatProperties DEF KnownAsks
  <2>8. \A d \in Clients : todo'[d] = todo[d] \/ todo'[d] \in KnownAsks'
    BY <1>0, <2>1, <2>7 DEF ServicesTypeOK
  <2>9. QED
    BY <1>1, <2>1, <2>8, UnknownKept
<1>7. QED
  BY <1>2, <1>3, <1>4, <1>5, <1>6 DEF ClientStep

\* A command line of known keys starts only what its keys say.
LEMMA CommandKnown ==
  ASSUME NEW argv, argv \in Seq(Seq(KnownValues)), argv # <<>>, Len(argv[1]) = 1,
         argv[1][1] \in Programs
  PROVE  Main(argv[1][1], Tail(argv)) \in KnownAsks
<1> DEFINE cmd == argv[1][1]
<1>1. argv[1] \in Seq(KnownValues) /\ Tail(argv) \in Seq(Seq(KnownValues))
  BY EmptySeq, LenProperties, ElementOfSeq, HeadTailProperties
<1>2. cmd \in KnownValues
  BY <1>1, ElementOfSeq
<1>3. cmd \in Programs
  OBVIOUS
<1> HIDE DEF cmd
<1>4. (cmd = "r" => Typed("r")) /\ (cmd = "s" => Typed("s"))
  BY <1>2 DEF KnownValues, Typed
<1>5. TypesOf(cmd) \subseteq KnownTypes \cap AskType
  BY <1>4 DEF TypesOf, KnownTypes
<1>6. Plain \subseteq KnownBytes
  BY DEF Plain, KnownBytes
<1>7. Seq(Asks(TypesOf(cmd), Plain)) \subseteq KnownAsks
  BY <1>5, <1>6, AsksMore DEF KnownAsks
<1>8. Main(cmd, Tail(argv)) \in Seq(Asks(TypesOf(cmd), Plain))
  BY <1>1, <1>3, MainType
<1>9. QED
  BY <1>7, <1>8 DEF cmd

LEMMA UnknownOfShell ==
  ASSUME KeysIInv, NothingUnknown, [Next]_vars, ShellStep \/ ProgramExits
  PROVE  NothingUnknown'
<1>0. /\ ServicesTypeOK /\ Turns /\ Prints \subseteq KnownAsks' /\ KnownAsks \subseteq KnownAsks'
      /\ KnownValues \subseteq KnownValues' /\ Seq(KnownValues) \subseteq Seq(KnownValues')
      /\ line \in Seq(KnownValues) /\ send.a.v \in KnownValues /\ line \in Seq(ValueType)
  BY KnownGrows, PrintsKnown DEF KeysIInv, PageIInv, ServicesTypeOK, NothingUnknown, KnownMessage
<1>1. UNCHANGED <<send, recv, out, answer, stage, machine>>
  BY DEF ShellStep, ProgramExits, Prompt, ReadLine, Spawn, Wait, slots, kernel, service, world
<1>2. ASSUME NEW bytes, Puts(bytes) \in Prints, ShellPuts(bytes)
      PROVE  \A c \in Clients : todo'[c] = todo[c] \/ todo'[c] \in KnownAsks'
  BY <1>0, <1>2 DEF ShellPuts, ServicesTypeOK
<1>3. CASE Prompt
  <2>1. line' = <<>> /\ <<>> \in Seq(KnownValues')
    BY <1>3 DEF Prompt
  <2>2. \A c \in Clients : todo'[c] = todo[c] \/ todo'[c] \in KnownAsks'
    BY <1>2, <1>3, ShortPuts DEF Prompt
  <2>3. QED
    BY <1>1, <2>1, <2>2, UnknownKept
<1>4. CASE ReadLine
  <2>1. \/ UNCHANGED <<line, todo>>
        \/ ShellPuts(<<"a">>) /\ line' \in {line, Append(line, send.a.v)}
        \/ ShellPuts(<<"a", "a", "a">>) /\ line # <<>> /\ line' = Front(line)
    BY <1>4 DEF ReadLine, LineKey
  <2>2. \A c \in Clients : todo'[c] = todo[c] \/ todo'[c] \in KnownAsks'
    BY <1>2, <2>1, ShortPuts
  <2>3. line' \in Seq(KnownValues)
    <3>1. Append(line, send.a.v) \in Seq(KnownValues)
      BY <1>0, AppendProperties
    <3>2. line # <<>> => Front(line) \in Seq(KnownValues)
      <4>1. Len(line) \in Nat /\ \A i \in 1..Len(line) - 1 : line[i] \in KnownValues
        BY <1>0, ElementOfSeq, LenProperties
      <4>2. QED
        BY <1>0, <4>1, SubSeqProperties DEF Front
    <3>3. QED
      BY <1>0, <2>1, <3>1, <3>2
  <2>4. QED
    BY <1>0, <1>1, <2>2, <2>3, UnknownKept
<1>5. CASE Spawn
  <2> DEFINE argv == Words(line)
             failed == Puts(Han \o Han) \o Puts(Bytes(argv[1])) \o Puts(<<"a">>)
  <2>1. argv \in Seq(Seq(KnownValues)) /\ line' = line
    BY <1>0, <1>5, WordsType DEF Spawn
  <2>2. \/ todo' = todo
        \/ /\ argv # <<>> /\ Len(argv[1]) = 1 /\ argv[1][1] \in Programs
           /\ todo' = [todo EXCEPT !["prog"] = Main(argv[1][1], Tail(argv))]
        \/ argv # <<>> /\ todo' = [todo EXCEPT !["shell"] = failed]
    BY <1>5 DEF Spawn
  <2>3. argv # <<>> => failed \in Prints
    <3>1. SUFFICES ASSUME argv # <<>> PROVE failed \in Prints
      OBVIOUS
    <3> HIDE DEF argv
    <3>2. argv[1] \in Seq(KnownValues)
      BY <2>1, <3>1, EmptySeq, LenProperties, ElementOfSeq
    <3>3. Puts(Bytes(argv[1])) \in Prints
      BY <3>2, WordPuts
    <3>4. QED
      BY <3>3, ShortPuts, PrintsJoin
  <2> HIDE DEF argv, failed
  <2>4. argv # <<>> /\ Len(argv[1]) = 1 /\ argv[1][1] \in Programs
          => Main(argv[1][1], Tail(argv)) \in KnownAsks
    BY <2>1, CommandKnown
  <2>5. \A c \in Clients : todo'[c] = todo[c] \/ todo'[c] \in KnownAsks'
    BY <1>0, <2>2, <2>3, <2>4 DEF ServicesTypeOK
  <2>6. QED
    BY <1>1, <2>1, <2>5, UnknownKept
<1>6. CASE Wait \/ ProgramExits
  <2>1. UNCHANGED <<line, todo>>
    BY <1>6 DEF Wait, ProgramExits, client
  <2>2. QED
    BY <1>1, <2>1, UnknownKept
<1>7. QED
  BY <1>3, <1>4, <1>5, <1>6 DEF ShellStep

LEMMA UnknownOfServices ==
  ASSUME KeysIInv, NothingUnknown, [Next]_vars,
         (\E s \in Servers : ServerStep(s)) \/ Terminal \/ Keyboard \/ Power \/ PowerActs
           \/ Proc \/ Timer \/ Type \/ Tick \/ Off \/ UNCHANGED vars
  PROVE  NothingUnknown'
<1>0. /\ ServicesTypeOK /\ Turns /\ (\A s \in Servers : Engaged(s)) /\ "power" \in Servers
      /\ KnownTypes \subseteq KnownTypes' /\ KnownValues \subseteq KnownValues'
      /\ KnownMessage(send) /\ KnownMessage(recv) /\ \A c \in Clients : KnownMessage(out[c])
      /\ "0" \in KnownTypes /\ "KEY_GET" \in KnownTypes
  BY KnownGrows, PrintsKnown DEF KeysIInv, PageIInv, NothingUnknown, Servers
<1>1. \A m : KnownMessage(m) => NowKnown(m)
  BY <1>0 DEF KnownMessage, NowKnown
<1>2. /\ {"0", "-1", "n", "now"} \subseteq KnownValues'
      /\ \A i \in 1..keys' : script'[i] \in KnownValues'
  BY DEF KnownValues
<1>3. ASSUME NEW s \in Servers, Take(s) PROVE NothingUnknown'
  <2>1. /\ UNCHANGED <<send, out, answer, todo, line, machine>>
        /\ \E c \in Clients : recv' = out[c]
        /\ stage' = [stage EXCEPT ![s] = "act"]
    BY <1>3 DEF Take, At, Queued, kernel, shell, world
  <2>2. NowKnown(recv')
    BY <1>0, <1>1, <2>1
  <2>3. stage'["power"] \in {stage["power"], "act"}
    BY <1>0, <2>1 DEF ServicesTypeOK
  <2>4. QED
    BY <2>1, <2>2, <2>3, UnknownKept
<1>4. ASSUME NEW s \in Servers, Reply(s) PROVE NothingUnknown'
  <2>1. /\ UNCHANGED <<send, recv, out, todo, line, machine>>
        /\ \E m \in {send, recv} : answer' = [answer EXCEPT ![serving[s]] = m]
        /\ \/ stage' = [stage EXCEPT ![s] = "recv"]
           \/ recv.type \in {"REBOOT", "SHUTDOWN"} /\ stage' = [stage EXCEPT ![s] = recv.type]
    BY <1>4 DEF Reply, IpcReply, At, slots, shell, world
  <2>2. \A c \in Clients : answer'[c] = answer[c] \/ NowKnown(answer'[c])
    BY <1>0, <1>1, <2>1 DEF ServicesTypeOK
  <2>3. stage'["power"] \in {stage["power"], "recv", recv.type}
    BY <1>0, <2>1 DEF ServicesTypeOK
  <2>4. recv.type \in KnownTypes
    BY <1>0 DEF KnownMessage
  <2>5. QED
    BY <2>1, <2>2, <2>3, <2>4, UnknownKept
<1>5. CASE Keyboard \/ Power \/ Proc \/ Timer
  <2>1. /\ UNCHANGED <<recv, out, answer, todo, line, machine>>
        /\ \E s \in Servers, l \in {"reply", "recv"} : stage' = [stage EXCEPT ![s] = l]
    BY <1>5 DEF Keyboard, Power, Proc, Timer, At, client, kernel, shell, world, Servers
  <2>2. NowKnown(send')
    <3>1. CASE Keyboard
      <4>1. send'.type \in {recv.type, "0"}
        BY <3>1 DEF Keyboard, Message
      <4>2. \/ send'.a.v = "0"
            \/ keys < typed /\ keys' = keys + 1 /\ script' = script /\ send'.a.v = script[keys + 1]
        BY <3>1 DEF Keyboard, Message, Zero, Pop
      <4>3. keys < typed /\ keys' = keys + 1 /\ script' = script => script[keys + 1] \in KnownValues'
        BY <1>0, <1>2 DEF ServicesTypeOK
      <4>4. QED
        BY <1>0, <1>2, <4>1, <4>2, <4>3 DEF KnownMessage, NowKnown
    <3>2. CASE Power \/ Proc \/ Timer
      <4>1. send'.type = recv.type /\ send'.a.v \in {"0", "-1", "n", "now"}
        BY <3>2 DEF Power, Proc, Timer, Message, Zero
      <4>2. QED
        BY <1>0, <1>2, <4>1 DEF KnownMessage, NowKnown
    <3>3. QED
      BY <1>5, <3>1, <3>2
  <2>3. stage'["power"] \in {stage["power"], "reply", "recv"}
    BY <1>0, <2>1 DEF ServicesTypeOK
  <2>4. QED
    BY <2>1, <2>2, <2>3, UnknownKept
<1>6. CASE PowerActs
  <2>1. /\ UNCHANGED <<send, recv, out, answer, todo, line>> /\ stage' = [stage EXCEPT !["power"] = "recv"]
        /\ stage["power"] \in {"REBOOT", "SHUTDOWN"}
        /\ machine' = IF stage["power"] = "REBOOT" THEN "reset" ELSE "off"
    BY <1>6 DEF PowerActs, At, slots, client, kernel, shell
  <2>2. stage'["power"] = "recv"
    BY <1>0, <2>1 DEF ServicesTypeOK
  <2>3. (machine' = "reset" /\ Typed("r")) \/ (machine' = "off" /\ Typed("s"))
    <3>1. stage["power"] \in KnownTypes
      BY <2>1 DEF NothingUnknown
    <3>2. \A t \in KnownTypes : (t = "REBOOT" => Typed("r")) /\ (t = "SHUTDOWN" => Typed("s"))
      BY DEF KnownTypes
    <3>3. CASE stage["power"] = "REBOOT"
      BY <2>1, <3>1, <3>2, <3>3
    <3>4. CASE stage["power"] = "SHUTDOWN"
      BY <2>1, <3>1, <3>2, <3>4
    <3>5. QED
      BY <2>1, <3>3, <3>4
  <2>4. QED
    BY <2>1, <2>2, <2>3, UnknownKept
<1>7. CASE Terminal \/ Type \/ Tick \/ Off \/ UNCHANGED vars
  <2>1. UNCHANGED <<send, recv, out, answer, todo, line, machine>>
    BY <1>7 DEF Terminal, Type, Tick, Off, vars, slots, client, kernel, shell, world
  <2>2. stage'["power"] = stage["power"]
    BY <1>0, <1>7 DEF Terminal, TerminalAnswers, Type, Tick, Off, vars, At, service, ServicesTypeOK
  <2>3. QED
    BY <2>1, <2>2, UnknownKept
<1>8. QED
  BY <1>3, <1>4, <1>5, <1>6, <1>7 DEF ServerStep

----------------------------------------------------------------------------
(* The texts on their way to the terminal.                                 *)

LEMMA Longer ==
  ASSUME NEW S, NEW s \in Seq(S), NEW e \in S, NEW t, t = s \o <<e>>
  PROVE  /\ Len(s) \in Nat /\ DOMAIN s = 1..Len(s) /\ Len(t) = Len(s) + 1
         /\ DOMAIN t = 1..(Len(s) + 1) /\ t[Len(s) + 1] = e
         /\ \A i \in 1..Len(s) : t[i] = s[i]
         /\ Front(t) = s
<1>1. <<e>> \in Seq(S) /\ Len(<<e>>) = 1 /\ <<e>>[1] = e
  OBVIOUS
<1>2. Len(s) \in Nat /\ DOMAIN s = 1..Len(s) /\ \A i \in 1..Len(s) : s[i] \in S
  BY LenProperties, ElementOfSeq
<1>3. /\ t \in Seq(S) /\ Len(t) = Len(s) + 1
      /\ \A i \in 1..(Len(s) + 1) : t[i] = IF i <= Len(s) THEN s[i] ELSE <<e>>[i - Len(s)]
  BY <1>1, ConcatProperties
<1>4. DOMAIN t = 1..(Len(s) + 1)
  BY <1>3, LenProperties
<1>5. Front(t) = s
  <2>1. \A i \in 1..Len(s) : t[i] = s[i]
    BY <1>2, <1>3
  <2>2. SubSeq(t, 1, Len(s)) \in Seq(S) /\ Len(SubSeq(t, 1, Len(s))) = Len(s)
        /\ \A i \in 1..Len(s) : SubSeq(t, 1, Len(s))[i] = t[i]
    BY <1>2, <2>1, SubSeqProperties
  <2>3. SubSeq(t, 1, Len(s)) = s
    BY <1>2, <2>1, <2>2, SeqEqual
  <2>4. Len(t) - 1 = Len(s)
    BY <1>2, <1>3
  <2>5. QED
    BY <2>3, <2>4 DEF Front
<1>6. t[Len(s) + 1] = e /\ \A i \in 1..Len(s) : t[i] = s[i]
  BY <1>1, <1>2, <1>3
<1>7. QED
  BY <1>2, <1>3, <1>4, <1>5, <1>6

LEMMA AskedBy == ASSUME [Next]_vars PROVE asked' = asked \/ \E c \in Clients : FillRest(c)
<1>1. ASSUME NEW c \in Clients, ClientStep(c) PROVE asked' = asked \/ FillRest(c)
  BY <1>1 DEF ClientStep, FillType, IpcCall, Return, Proceed, world
<1>2. CASE ShellStep \/ ProgramExits
  BY <1>2 DEF ShellStep, Prompt, ReadLine, Spawn, Wait, ProgramExits, world
<1>3. ASSUME NEW s \in Servers, ServerStep(s) PROVE asked' = asked
  BY <1>3 DEF ServerStep, Take, Reply, world
<1>4. CASE Terminal \/ Keyboard \/ Power \/ PowerActs \/ Proc \/ Timer \/ Type \/ Tick \/ Off
             \/ UNCHANGED vars
  BY <1>4 DEF Terminal, Keyboard, Power, PowerActs, Proc, Timer, Type, Tick, Off, vars, world
<1>5. QED
  BY <1>1, <1>2, <1>3, <1>4 DEF Next

LEMMA FillRestEffect ==
  ASSUME ServicesTypeOK, NEW c \in Clients, FillRest(c)
  PROVE  /\ step[c] = "rest" /\ step' = [step EXCEPT ![c] = "call"]
         /\ UNCHANGED <<recv, todo, dest, out, answer, stage, serving, mode, prog, done, torn>>
         /\ send'.type = send.type
         /\ Current(c).type = "PUTS" =>
              /\ send'.len = Len(Current(c).bytes)
              /\ send'.text = [n |-> Len(asked) + 1, bytes |-> Current(c).bytes]
              /\ send'.text \in TextType /\ asked' = asked \o <<send'.text>>
         /\ Current(c).type = "CLEAR" => asked' = asked \o <<NoText>>
         /\ Current(c).type \notin {"PUTS", "CLEAR"} => asked' = asked
         /\ Current(c).type # "PUTS" => send'.len = 0
<1> DEFINE r == Current(c)
<1>1. /\ step[c] = "rest" /\ step' = [step EXCEPT ![c] = "call"]
      /\ UNCHANGED <<recv, todo, dest, out, answer, stage, serving, mode, prog, done, torn>>
      /\ send' = Filled(send, r, Len(asked) + 1)
      /\ asked' = asked \o ToTerminal(r, Len(asked) + 1)
  BY DEF FillRest, Go, kernel, service, shell
<1>2. asked \in Seq(TextType) /\ Len(asked) + 1 \in Nat /\ r.bytes \in Seq(ByteType)
  BY CurrentIn, LenProperties DEF ServicesTypeOK
<1> HIDE DEF r
<1>3. send'.type = send.type /\ (r.type # "PUTS" => send'.len = 0)
  BY <1>1 DEF Filled, Message
<1>4. r.type = "PUTS" => /\ send'.len = Len(r.bytes)
                         /\ send'.text = [n |-> Len(asked) + 1, bytes |-> r.bytes]
                         /\ send'.text \in TextType /\ asked' = asked \o <<send'.text>>
  BY <1>1, <1>2 DEF Filled, Message, ToTerminal, TextType
<1>5. /\ r.type = "CLEAR" => asked' = asked \o <<NoText>>
      /\ r.type \notin {"PUTS", "CLEAR"} => asked' = asked
  BY <1>1, <1>2, ConcatEmptySeq DEF ToTerminal
<1>6. QED
  BY <1>1, <1>3, <1>4, <1>5 DEF r

LEMMA AskedStep ==
  ASSUME KeysIInv, NothingUnknown, AskedInOrder, [Next]_vars
  PROVE  AskedInOrder'
<1>0. ServicesTypeOK /\ asked \in Seq(TextType) /\ NoText \in TextType
      /\ Seq(KnownBytes) \subseteq Seq(KnownBytes')
  BY KnownGrows, ValuesIn DEF KeysIInv, PageIInv, ServicesTypeOK
<1>1. \A i \in DOMAIN asked : asked[i] # NoText =>
        /\ asked[i].n = i /\ asked[i].bytes \in Seq(KnownBytes') /\ WholeHans(asked[i].bytes)
  BY <1>0 DEF AskedInOrder
<1>2. ASSUME NEW e \in TextType, asked' = asked \o <<e>>,
             e # NoText => e.n = Len(asked) + 1 /\ e.bytes \in Seq(KnownBytes') /\ WholeHans(e.bytes)
      PROVE  AskedInOrder'
  <2>1. /\ Len(asked) \in Nat /\ DOMAIN asked = 1..Len(asked)
        /\ DOMAIN asked' = 1..(Len(asked) + 1) /\ asked'[Len(asked) + 1] = e
        /\ \A i \in 1..Len(asked) : asked'[i] = asked[i]
    BY <1>0, <1>2, Longer
  <2>2. \A i \in DOMAIN asked' : i \in DOMAIN asked \/ i = Len(asked) + 1
    BY <2>1
  <2>3. QED
    BY <1>1, <1>2, <2>1, <2>2 DEF AskedInOrder
<1>3. ASSUME NEW c \in Clients, FillRest(c) PROVE AskedInOrder'
  <2>1. CASE Current(c).type = "PUTS"
    <3>1. todo[c] # <<>>
      BY <1>0, <2>1, CurrentIn
    <3>2. Current(c).bytes \in Seq(KnownBytes') /\ WholeHans(Current(c).bytes)
      BY <1>0, <2>1, <3>1, CurrentIn, CurrentKnown
    <3>3. /\ send'.text \in TextType /\ asked' = asked \o <<send'.text>>
          /\ send'.text = [n |-> Len(asked) + 1, bytes |-> Current(c).bytes]
      BY <1>0, <1>3, <2>1, FillRestEffect
    <3>4. send'.text.n = Len(asked) + 1 /\ send'.text.bytes = Current(c).bytes
      BY <3>3
    <3>5. QED
      BY <1>2, <3>2, <3>3, <3>4
  <2>2. CASE Current(c).type = "CLEAR"
    BY <1>0, <1>2, <1>3, <2>2, FillRestEffect
  <2>3. CASE Current(c).type \notin {"PUTS", "CLEAR"}
    BY <1>0, <1>1, <1>3, <2>3, FillRestEffect DEF AskedInOrder
  <2>4. QED
    BY <2>1, <2>2, <2>3
<1>4. CASE asked' = asked
  BY <1>1, <1>4 DEF AskedInOrder
<1>5. QED
  BY <1>3, <1>4, AskedBy

\* Only one client is anywhere in a call.
LEMMA OthersWait ==
  ASSUME PageIInv, NEW c \in Clients, NEW d \in Clients, d # c
  PROVE  /\ step[c] # "fill" => step[d] = "fill"
         /\ FillType(c) => step[d] = "fill"
<1>1. Turns /\ ServicesTypeOK
  BY DEF PageIInv
<1>2. step[c] # "fill" => step[d] = "fill"
  BY <1>1, OneInCall
<1>3. ASSUME FillType(c) PROVE step[d] = "fill"
  <2>1. todo[c] # <<>> \/ WantsKey(c)
    BY <1>3 DEF FillType
  <2>2. CASE c = "shell"
    <3>1. mode # "wait" /\ d = "prog"
      BY <1>1, <2>1, <2>2, Names DEF Turns, WantsKey
    <3>2. QED
      BY <1>1, <3>1 DEF Turns
  <2>3. CASE c = "prog"
    <3>1. mode = "wait" /\ d = "shell"
      BY <1>1, <2>1, <2>3, Names DEF Turns, WantsKey
    <3>2. QED
      BY <1>1, <3>1 DEF Turns
  <2>4. QED
    BY <2>2, <2>3, Names
<1>4. QED
  BY <1>2, <1>3

LEMMA Serves ==
  ASSUME PageIInv, NEW s \in Servers, serving[s] # None
  PROVE  /\ serving[s] \in Clients /\ step[serving[s]] = "taken" /\ dest[serving[s]] = s
         /\ recv = out[serving[s]] /\ \A d \in Clients \ {serving[s]} : step[d] = "fill"
<1>1. serving[s] \in Clients /\ step[serving[s]] = "taken" /\ dest[serving[s]] = s
      /\ recv = out[serving[s]]
  BY DEF PageIInv, Engaged, ServicesTypeOK
<1>2. QED
  BY <1>1, OthersWait

TextsIInv == (\A c \in Clients : SentText(c)) /\ TextsDone

LEMMA TextsKept ==
  ASSUME TextsIInv, asked' = asked, done' = done,
         \A c \in Clients :
           \/ step'[c] \notin {"call", "asked", "taken"}
           \/ /\ step[c] \in {"call", "asked", "taken"}
              /\ OnItsWay(c)' => OnItsWay(c)
              /\ \/ Sent(c)'.len = 0
                 \/ Sent(c)'.len = Sent(c).len /\ Sent(c)'.text = Sent(c).text
  PROVE  TextsIInv'
<1>1. TextsDone' /\ Texts' = Texts
  BY DEF TextsIInv, TextsDone, Texts
<1>2. ASSUME NEW c \in Clients PROVE SentText(c)'
  <2>1. OnItsWay(c)' => step'[c] \in {"call", "asked", "taken"}
    BY DEF OnItsWay
  <2>2. SentText(c)
    BY DEF TextsIInv
  <2>3. CASE step'[c] \notin {"call", "asked", "taken"}
    BY <2>1, <2>3 DEF SentText
  <2>4. CASE Sent(c)'.len = 0
    BY <2>4 DEF SentText
  <2>5. CASE /\ step[c] \in {"call", "asked", "taken"}
             /\ OnItsWay(c)' => OnItsWay(c)
             /\ Sent(c)'.len = Sent(c).len /\ Sent(c)'.text = Sent(c).text
    BY <1>1, <2>2, <2>5 DEF SentText
  <2>6. QED
    BY <2>3, <2>4, <2>5
<1>3. QED
  BY <1>1, <1>2 DEF TextsIInv

LEMMA TextsOfFill ==
  ASSUME PageIInv, TextsIInv, NEW c \in Clients, FillRest(c)
  PROVE  TextsIInv'
<1>0. /\ ServicesTypeOK /\ asked \in Seq(TextType) /\ NoText \in TextType
      /\ TextsDone /\ done' = done /\ step[c] = "rest" /\ step' = [step EXCEPT ![c] = "call"]
  BY FillRestEffect, ValuesIn DEF PageIInv, ServicesTypeOK, TextsIInv
<1>1. /\ DOMAIN asked = 1..Len(asked) /\ Len(asked) \in Nat
      /\ DOMAIN asked' = 1..Len(asked') /\ Len(asked') \in Nat /\ Len(asked) <= Len(asked')
      /\ \A i \in DOMAIN asked : i \in DOMAIN asked' /\ asked'[i] = asked[i]
      /\ send'.len > 0 => /\ Len(asked') = Len(asked) + 1 /\ asked'[Len(asked')] = send'.text
                          /\ send'.text # NoText /\ send'.len = Len(send'.text.bytes)
  <2>1. CASE Current(c).type = "PUTS"
    <3>1. /\ send'.len = Len(Current(c).bytes)
          /\ send'.text = [n |-> Len(asked) + 1, bytes |-> Current(c).bytes]
          /\ send'.text \in TextType /\ asked' = asked \o <<send'.text>>
      BY <1>0, <2>1, FillRestEffect
    <3>2. /\ Len(asked) \in Nat /\ DOMAIN asked = 1..Len(asked) /\ Len(asked') = Len(asked) + 1
          /\ DOMAIN asked' = 1..(Len(asked) + 1) /\ asked'[Len(asked) + 1] = send'.text
          /\ \A i \in 1..Len(asked) : asked'[i] = asked[i]
      BY <1>0, <3>1, Longer
    <3>3. send'.text.n = Len(asked) + 1 /\ send'.text.bytes = Current(c).bytes
      BY <3>1
    <3>4. send'.text # NoText
      BY <3>2, <3>3 DEF NoText
    <3>5. QED
      BY <3>1, <3>2, <3>3, <3>4
  <2>2. CASE Current(c).type = "CLEAR"
    <3>1. send'.len = 0 /\ asked' = asked \o <<NoText>>
      BY <1>0, <2>2, FillRestEffect
    <3>2. /\ Len(asked) \in Nat /\ DOMAIN asked = 1..Len(asked) /\ Len(asked') = Len(asked) + 1
          /\ DOMAIN asked' = 1..(Len(asked) + 1)
          /\ \A i \in 1..Len(asked) : asked'[i] = asked[i]
      BY <1>0, <3>1, Longer
    <3>3. QED
      BY <3>1, <3>2
  <2>3. CASE Current(c).type \notin {"PUTS", "CLEAR"}
    <3>1. send'.len = 0 /\ asked' = asked
      BY <1>0, <2>3, FillRestEffect
    <3>2. QED
      BY <1>0, <3>1, LenProperties
  <2>4. QED
    BY <2>1, <2>2, <2>3
<1>2. TextsDone' /\ Texts' = Texts
  BY <1>0, <1>1 DEF TextsDone, Texts
<1>3. \A d \in Clients \ {c} : step'[d] = "fill"
  BY <1>0, OthersWait DEF ServicesTypeOK
<1>4. step'[c] = "call" /\ Sent(c)' = send'
  BY <1>0 DEF ServicesTypeOK, Sent
<1>5. \A i \in Texts : done[i].n \in Nat /\ done[i].n <= Len(asked)
  <2>1. \A i \in Texts : done[i].n \in DOMAIN asked
    BY <1>0 DEF TextsDone
  <2>2. DOMAIN asked = 1..Len(asked) /\ Len(asked) \in Nat
    BY <1>1
  <2>3. \A k \in 1..Len(asked) : k \in Nat /\ k <= Len(asked)
    BY <2>2
  <2>4. QED
    BY <2>1, <2>2, <2>3
<1>6. SentText(c)'
  <2>1. CASE send'.len > 0
    <3>1. Len(asked') = Len(asked) + 1
      BY <1>1, <2>1
    <3>3. \A i \in Texts : done[i].n < Len(asked')
      BY <1>1, <1>5, <3>1
    <3>4. Len(asked') > 0 /\ \A i \in Texts' : done'[i].n < Len(asked')
      BY <1>0, <1>1, <1>2, <3>1, <3>3
    <3>5. QED
      BY <1>1, <1>4, <2>1, <3>4 DEF SentText
  <2>2. CASE ~(send'.len > 0)
    BY <1>4, <2>2 DEF SentText
  <2>3. QED
    BY <2>1, <2>2
<1>7. \A d \in Clients \ {c} : SentText(d)'
  BY <1>3 DEF SentText, OnItsWay
<1>8. QED
  BY <1>2, <1>6, <1>7 DEF TextsIInv

\* The terminal prints the whole of the latest text.
LEMMA ShowsAll ==
  ASSUME PageIInv, TextsIInv, stage["terminal"] = "act", recv.len > 0
  PROVE  /\ Shown(recv) = recv.text /\ Len(asked) \in DOMAIN asked /\ recv.text = asked[Len(asked)]
         /\ recv.text # NoText /\ \A i \in Texts : done[i].n < Len(asked)
<1> DEFINE c == serving["terminal"]
<1>1. "terminal" \in Servers /\ c # None
  BY DEF PageIInv, Engaged, Servers
<1>2. c \in Clients /\ step[c] = "taken" /\ recv = out[c]
  BY <1>1, Serves
<1>3. Sent(c) = recv /\ OnItsWay(c) /\ SentText(c)
  BY <1>2 DEF Sent, OnItsWay, TextsIInv
<1> HIDE DEF c
<1>4. /\ Len(asked) > 0 /\ recv.text = asked[Len(asked)] /\ recv.text # NoText
      /\ recv.len = Len(recv.text.bytes) /\ \A i \in Texts : done[i].n < Len(asked)
  BY <1>2, <1>3 DEF SentText
<1>5. recv.text \in TextType /\ DOMAIN asked = 1..Len(asked) /\ Len(asked) \in Nat
  BY LenProperties DEF PageIInv, ServicesTypeOK, MessageType
<1>6. recv.text.bytes \in Seq(ByteType)
  BY <1>5 DEF TextType
<1>7. /\ Len(recv.text.bytes) \in Nat
      /\ SubSeq(recv.text.bytes, 1, Len(recv.text.bytes)) = recv.text.bytes
  BY <1>6, LenProperties, SubSeqFull
<1>8. (IF recv.len < Len(recv.text.bytes) THEN recv.len ELSE Len(recv.text.bytes))
        = Len(recv.text.bytes)
  BY <1>4, <1>7
<1>9. Shown(recv) = recv.text
  BY <1>5, <1>7, <1>8 DEF Shown, TextType
<1>10. QED
  BY <1>4, <1>5, <1>9

LEMMA TextsOfTerminal ==
  ASSUME KeysIInv, AskedInOrder, TextsIInv, Terminal
  PROVE  TextsIInv'
<1> DEFINE c == serving["terminal"]
<1>0. /\ PageIInv /\ TextsDone /\ "terminal" \in Servers /\ ServicesTypeOK
      /\ done \in Seq(TextType) /\ NoText \in TextType
      /\ UNCHANGED <<step, out, send, asked>> /\ stage["terminal"] = "act"
      /\ stage' = [stage EXCEPT !["terminal"] = "reply"]
  BY ValuesIn DEF KeysIInv, PageIInv, TextsIInv, Servers, ServicesTypeOK, Terminal, TerminalAnswers,
                  At, slots, client, kernel
<1> DEFINE n == Len(done)
<1>1. c \in Clients /\ step[c] = "taken" /\ \A d \in Clients \ {c} : step[d] = "fill"
  <2>1. c # None
    BY <1>0 DEF PageIInv, Engaged
  <2>2. QED
    BY <1>0, <2>1, Serves
<1> HIDE DEF c
<1>2. \A d \in Clients : ~OnItsWay(d)'
  BY <1>0, <1>1 DEF OnItsWay, ServicesTypeOK
<1>3. \A d \in Clients : Sent(d)' = Sent(d) /\ SentText(d)
  BY <1>0 DEF Sent, TextsIInv
<1>4. \A d \in Clients : SentText(d)'
  BY <1>0, <1>2, <1>3 DEF SentText
<1>n. n \in Nat /\ DOMAIN done = 1..n
  BY <1>0, LenProperties
<1>5. TextsDone'
  <2>1. CASE done' = done
    BY <1>0, <2>1 DEF TextsDone, Texts
  <2>2. CASE done' = Append(done, NoText)
    <3>1. /\ \A i \in 1..n : done'[i] = done[i]
          /\ done'[n + 1] = NoText /\ DOMAIN done' = 1..(n + 1)
      BY <1>0, <2>2, AppendProperties, LenProperties
    <3> HIDE DEF n
    <3>2. Texts' = Texts /\ \A i \in Texts : done'[i] = done[i]
      BY <1>n, <3>1 DEF Texts
    <3>3. QED
      BY <1>0, <3>2 DEF TextsDone
  <2>3. CASE done' = Append(done, Shown(recv)) /\ recv.len > 0
    <3> DEFINE e == asked[Len(asked)]
    <3>1. /\ Shown(recv) = e /\ Len(asked) \in DOMAIN asked /\ e # NoText /\ e \in TextType
          /\ \A i \in Texts : done[i].n < Len(asked)
      <4>1. recv.text \in TextType
        BY <1>0 DEF ServicesTypeOK, MessageType
      <4>2. QED
        BY <1>0, <2>3, <4>1, ShowsAll
    <3>2. e.n = Len(asked)
      BY <3>1 DEF AskedInOrder
    <3>3. done' = Append(done, e)
      BY <2>3, <3>1
    <3>4. e = asked[e.n] /\ e.n \in DOMAIN asked /\ \A i \in Texts : done[i].n < e.n
      BY <3>1, <3>2
    <3> HIDE DEF e
    <3>5. /\ \A i \in 1..n : done'[i] = done[i]
          /\ done'[n + 1] = e /\ DOMAIN done' = 1..(n + 1)
      BY <1>0, <3>1, <3>3, AppendProperties, LenProperties
    <3> HIDE DEF n
    <3>6. /\ Texts' = Texts \cup {n + 1}
          /\ \A i \in Texts : i < n + 1 /\ done'[i] = done[i] /\ i \in Nat
      BY <1>n, <3>1, <3>5 DEF Texts
    <3>7. ASSUME NEW i \in Texts'
          PROVE  done'[i].n \in DOMAIN asked' /\ done'[i] = asked'[done'[i].n]
      <4>1. CASE i \in Texts
        <5>1. done'[i] = done[i] /\ done[i].n \in DOMAIN asked /\ done[i] = asked[done[i].n]
          BY <1>0, <3>6, <4>1 DEF TextsDone
        <5>2. QED
          BY <1>0, <5>1
      <4>2. CASE i = n + 1
        BY <1>0, <3>4, <3>5, <4>2
      <4>3. QED
        BY <3>6, <4>1, <4>2
    <3>8. ASSUME NEW i \in Texts', NEW j \in Texts', i < j PROVE done'[i].n < done'[j].n
      <4>1. i \in Texts
        BY <1>n, <3>6, <3>8
      <4>2. CASE j \in Texts
        BY <1>0, <3>6, <3>8, <4>1, <4>2 DEF TextsDone
      <4>3. CASE j = n + 1
        BY <3>4, <3>5, <3>6, <4>1, <4>3
      <4>4. QED
        BY <3>6, <4>2, <4>3
    <3>9. QED
      BY <3>7, <3>8 DEF TextsDone
  <2>4. QED
    BY <2>1, <2>2, <2>3 DEF Terminal
<1>6. QED
  BY <1>4, <1>5 DEF TextsIInv

\* Any other step leaves the texts where they are.
LEMMA TextsOfCalls ==
  ASSUME PageIInv, TextsIInv, NEW c \in Clients, ClientStep(c)
  PROVE  TextsIInv'
<1>0. ServicesTypeOK
  BY DEF PageIInv
<1>1. CASE FillType(c)
  <2>1. /\ step[c] = "fill" /\ step' = [step EXCEPT ![c] = "rest"]
        /\ UNCHANGED <<out, asked, done, stage>>
        /\ send'.len = send.len /\ send'.text = send.text
    BY <1>0, <1>1 DEF FillType, Go, kernel, service, world, ServicesTypeOK, MessageType
  <2>2. ASSUME NEW d \in Clients, step'[d] \in {"call", "asked", "taken"}
        PROVE  /\ step[d] = step'[d] /\ OnItsWay(d)' = OnItsWay(d)
               /\ Sent(d)'.len = Sent(d).len /\ Sent(d)'.text = Sent(d).text
    <3>1. step'[d] = step[d]
      BY <1>0, <2>1, <2>2 DEF ServicesTypeOK
    <3>2. QED
      BY <2>1, <3>1 DEF OnItsWay, Sent
  <2>3. QED
    BY <2>1, <2>2, TextsKept
<1>2. CASE FillRest(c)
  BY <1>2, TextsOfFill
<1>3. CASE IpcCall(c)
  <2>1. /\ step[c] = "call" /\ step' = [step EXCEPT ![c] = "asked"]
        /\ UNCHANGED <<asked, done, stage>> /\ out' = [out EXCEPT ![c] = send]
    BY <1>3 DEF IpcCall, Go, service, world
  <2>2. \A d \in Clients \ {c} : step'[d] = "fill"
    BY <1>0, <2>1, OthersWait DEF ServicesTypeOK
  <2>3. Sent(c)' = Sent(c) /\ OnItsWay(c)
    BY <1>0, <2>1 DEF Sent, OnItsWay, ServicesTypeOK
  <2>4. QED
    BY <2>1, <2>2, <2>3, TextsKept
<1>4. CASE Return(c) \/ Proceed(c)
  <2>1. /\ step[c] # "fill" /\ UNCHANGED <<asked, done>>
        /\ \E l \in {"read", "fill"} : step' = [step EXCEPT ![c] = l]
    BY <1>4 DEF Return, Proceed, Go, world
  <2>2. \A d \in Clients : step'[d] \in {"read", "fill"}
    BY <1>0, <2>1, OthersWait DEF ServicesTypeOK
  <2>3. QED
    BY <2>1, <2>2, TextsKept
<1>5. QED
  BY <1>1, <1>2, <1>3, <1>4 DEF ClientStep

LEMMA TextsOfOthers ==
  ASSUME PageIInv, TextsIInv,
         \/ ShellStep \/ ProgramExits \/ \E s \in Servers : ServerStep(s)
         \/ Keyboard \/ Power \/ PowerActs \/ Proc \/ Timer \/ Type \/ Tick \/ Off \/ UNCHANGED vars
  PROVE  TextsIInv'
<1>0. ServicesTypeOK /\ (\A s \in Servers : Engaged(s)) /\ "terminal" \in Servers
  BY DEF PageIInv, Servers
<1>1. ASSUME UNCHANGED <<asked, done>>, NEW c \in Clients, \A d \in Clients \ {c} : step[d] = "fill",
             step[c] = "taken", step' = step, out' = out, stage'["terminal"] = stage["terminal"]
      PROVE  TextsIInv'
  <2>1. \A d \in Clients : step'[d] \in {"call", "asked", "taken"} => d = c
    BY <1>1
  <2>2. OnItsWay(c)' = OnItsWay(c) /\ Sent(c)' = Sent(c)
    BY <1>1 DEF OnItsWay, Sent
  <2>3. QED
    BY <1>1, <2>1, <2>2, TextsKept
<1>2. CASE ShellStep \/ ProgramExits
  <2>1. UNCHANGED <<asked, done, stage, send, out>> /\ \A d \in Clients : step'[d] \in {step[d], "fill"}
    BY <1>0, <1>2 DEF ShellStep, Prompt, ReadLine, Spawn, Wait, ProgramExits, Go, client, world,
                      slots, kernel, service, ServicesTypeOK
  <2>2. ASSUME NEW d \in Clients, step'[d] \in {"call", "asked", "taken"}
        PROVE  step[d] = step'[d] /\ OnItsWay(d)' = OnItsWay(d) /\ Sent(d)' = Sent(d)
    <3>1. step[d] = step'[d]
      BY <2>1, <2>2
    <3>2. QED
      BY <2>1, <3>1 DEF OnItsWay, Sent
  <2>3. QED
    BY <2>1, <2>2, TextsKept
<1>3. ASSUME NEW s \in Servers, Take(s) PROVE TextsIInv'
  <2>1. PICK c \in Clients : step[c] = "asked" /\ step' = [step EXCEPT ![c] = "taken"]
    BY <1>3 DEF Take, Queued, Go
  <2>2. UNCHANGED <<asked, done, out>>
    BY <1>3 DEF Take, kernel, world
  <2>3. \A d \in Clients \ {c} : step'[d] = "fill"
    BY <1>0, <2>1, OthersWait DEF ServicesTypeOK
  <2>4. Sent(c)' = Sent(c) /\ OnItsWay(c)
    BY <1>0, <2>1, <2>2 DEF Sent, OnItsWay, ServicesTypeOK
  <2>5. QED
    BY <2>1, <2>2, <2>3, <2>4, TextsKept
<1>4. ASSUME NEW s \in Servers, Reply(s) PROVE TextsIInv'
  <2>1. /\ serving[s] # None /\ UNCHANGED <<asked, done>>
        /\ step' = [step EXCEPT ![serving[s]] = "answered"]
    BY <1>0, <1>4 DEF Reply, IpcReply, Engaged, world
  <2>2. \A d \in Clients : step'[d] \in {"answered", "fill"}
    BY <1>0, <2>1, Serves DEF ServicesTypeOK
  <2>3. QED
    BY <2>1, <2>2, TextsKept
<1>5. CASE Keyboard \/ Power \/ Proc
  <2>1. /\ UNCHANGED <<asked, done, step, out>>
        /\ \E s \in Servers \ {"terminal"} :
             stage[s] = "act" /\ s # "timer" /\ stage' = [stage EXCEPT ![s] = "reply"]
    BY <1>5 DEF Keyboard, Power, Proc, At, client, kernel, world, Servers
  <2>2. PICK s \in Servers \ {"terminal"} :
          stage[s] = "act" /\ s # "timer" /\ stage' = [stage EXCEPT ![s] = "reply"]
    BY <2>1
  <2>3. serving[s] # None /\ stage'["terminal"] = stage["terminal"]
    BY <1>0, <2>2 DEF Engaged, ServicesTypeOK
  <2>4. QED
    BY <1>1, <2>1, <2>2, <2>3, Serves
<1>6. CASE Timer
  <2>1. /\ UNCHANGED <<asked, done, step, out>> /\ send'.len = 0
        /\ \E l \in {"reply", "recv"} : stage' = [stage EXCEPT !["timer"] = l]
    BY <1>6 DEF Timer, At, client, kernel, world, Message
  <2>2. stage'["terminal"] = stage["terminal"]
    BY <1>0, <2>1 DEF ServicesTypeOK
  <2>3. ASSUME NEW d \in Clients, step'[d] \in {"call", "asked", "taken"}
        PROVE  /\ step[d] \in {"call", "asked", "taken"} /\ OnItsWay(d)' = OnItsWay(d)
               /\ \/ Sent(d)'.len = 0
                  \/ Sent(d)'.len = Sent(d).len /\ Sent(d)'.text = Sent(d).text
    BY <2>1, <2>2, <2>3 DEF OnItsWay, Sent
  <2>4. QED
    BY <2>1, <2>3, TextsKept
<1>7. CASE PowerActs \/ Type \/ Tick \/ Off \/ UNCHANGED vars
  <2>1. UNCHANGED <<asked, done, step, send, out>>
    BY <1>7 DEF PowerActs, Type, Tick, Off, vars, slots, client, kernel, world
  <2>2. stage'["terminal"] = stage["terminal"]
    BY <1>0, <1>7 DEF PowerActs, Type, Tick, Off, vars, At, service, ServicesTypeOK
  <2>3. ASSUME NEW d \in Clients, step'[d] \in {"call", "asked", "taken"}
        PROVE  /\ step[d] \in {"call", "asked", "taken"} /\ OnItsWay(d)' = OnItsWay(d)
               /\ Sent(d)' = Sent(d)
    BY <2>1, <2>2, <2>3 DEF OnItsWay, Sent
  <2>4. QED
    BY <2>1, <2>3, TextsKept
<1>8. QED
  BY <1>2, <1>3, <1>4, <1>5, <1>6, <1>7 DEF ServerStep

LEMMA TextsStep ==
  ASSUME KeysIInv, AskedInOrder, TextsIInv, [Next]_vars
  PROVE  TextsIInv'
<1>1. PageIInv
  BY DEF KeysIInv
<1>2. QED
  BY <1>1, TextsOfCalls, TextsOfOthers, TextsOfTerminal DEF Next

----------------------------------------------------------------------------
(* While the timer service has overwritten nothing.                        *)

AllAsMeant  == \A c \in Clients : AsMeant(c)
TimeIsKept  == stage["timer"] = "reply" => send.a # Zero
TextIsOwed  == IF Owed THEN Len(asked) = Len(done) + 1 /\ done = Front(asked) ELSE done = asked

LEMMA UntornParts == Untorn <=> AllAsMeant /\ TimeIsKept /\ TextIsOwed
BY DEF Untorn, AllAsMeant, TimeIsKept, TextIsOwed

\* A service has a request only if it is for it.
LEMMA ServedType ==
  ASSUME PageIInv, RightService, NEW c \in Clients, NEW s \in Servers,
         step[c] # "fill", dest[c] = s
  PROVE  /\ Current(c).to = s
         /\ s = "terminal" <=> Current(c).type \in {"PUTS", "CLEAR"}
         /\ s = "timer" <=> Current(c).type = "UPTIME"
<1>1. Current(c).to = s
  BY Names DEF RightService
<1>2. ServicesTypeOK
  BY DEF PageIInv
<1>3. CASE todo[c] = <<>>
  <2>1. s = "keyboard" /\ Current(c).type = "KEY_GET"
    BY <1>1, <1>2, <1>3, CurrentIn
  <2>2. QED
    BY <1>1, <2>1
<1>4. CASE todo[c] # <<>>
  <2>1. Current(c).type \in AskType /\ s = ServerOf[Current(c).type]
    BY <1>1, <1>2, <1>4, CurrentIn
  <2>2. QED
    BY <1>1, <2>1, ServersOf DEF AskType
<1>5. QED
  BY <1>3, <1>4

LEMMA FilledIsMeant == \A c \in Clients : step'[c] = "fill" => AsMeant(c)'
BY DEF AsMeant

LEMMA MeantKept ==
  ASSUME NEW c \in Clients, AsMeant(c), step'[c] = step[c], todo'[c] = todo[c], asked' = asked,
         out'[c] = out[c], answer'[c] = answer[c],
         send' = send \/ step[c] \notin {"rest", "call", "read"}
  PROVE  AsMeant(c)'
<1>1. Current(c)' = Current(c)
  BY DEF Current, KeyGet, Request
<1>2. step[c] \in {"call", "asked", "taken"} => Sent(c)' = Sent(c)
  BY DEF Sent
<1>3. QED
  BY <1>1, <1>2 DEF AsMeant

LEMMA MeantOfCalls ==
  ASSUME PageIInv, AllAsMeant, NEW c \in Clients, ClientStep(c)
  PROVE  AllAsMeant'
<1>0. ServicesTypeOK /\ AsMeant(c)
  BY DEF PageIInv, AllAsMeant
<1>1. \A d \in Clients \ {c} : step'[d] = "fill"
  <2>1. \A d \in Clients \ {c} : step'[d] = step[d]
    BY <1>0 DEF ClientStep, FillType, FillRest, IpcCall, Return, Proceed, Go, ServicesTypeOK
  <2>2. FillType(c) \/ step[c] # "fill"
    BY DEF ClientStep, FillRest, IpcCall, Return, Proceed
  <2>3. QED
    BY <2>1, <2>2, OthersWait
<1>2. SUFFICES AsMeant(c)'
  BY <1>1, FilledIsMeant DEF AllAsMeant
<1>3. CASE FillType(c)
  <2>1. step' = [step EXCEPT ![c] = "rest"] /\ todo' = todo /\ send'.type = Current(c).type
    BY <1>0, <1>3 DEF FillType, Go, ServicesTypeOK, MessageType
  <2>2. Current(c)' = Current(c) /\ step'[c] = "rest"
    BY <1>0, <2>1 DEF Current, KeyGet, Request, ServicesTypeOK
  <2>3. QED
    BY <2>1, <2>2 DEF AsMeant
<1>4. CASE FillRest(c)
  <2>1. /\ step[c] = "rest" /\ step' = [step EXCEPT ![c] = "call"] /\ todo' = todo
        /\ send'.type = send.type
        /\ Current(c).type = "PUTS" => send'.len = Len(Current(c).bytes)
        /\ Current(c).type = "CLEAR" => asked' = asked \o <<NoText>>
    BY <1>0, <1>4, FillRestEffect
  <2>2. Current(c)' = Current(c) /\ step'[c] = "call" /\ Sent(c)' = send'
    BY <1>0, <2>1 DEF Current, KeyGet, Request, ServicesTypeOK, Sent
  <2>3. Current(c).type = "CLEAR" => Len(asked') > 0 /\ asked'[Len(asked')] = NoText
    <3>1. asked \in Seq(TextType) /\ NoText \in TextType
      BY <1>0, ValuesIn DEF ServicesTypeOK
    <3>2. QED
      BY <2>1, <3>1, Longer
  <2>4. QED
    BY <1>0, <2>1, <2>2, <2>3 DEF AsMeant
<1>5. CASE IpcCall(c)
  <2>1. /\ step[c] = "call" /\ step' = [step EXCEPT ![c] = "asked"] /\ todo' = todo
        /\ out' = [out EXCEPT ![c] = send] /\ asked' = asked
    BY <1>5 DEF IpcCall, Go, world
  <2>2. Current(c)' = Current(c) /\ step'[c] = "asked" /\ Sent(c)' = Sent(c)
    BY <1>0, <2>1 DEF Current, KeyGet, Request, ServicesTypeOK, Sent
  <2>3. QED
    BY <1>0, <2>1, <2>2 DEF AsMeant
<1>6. CASE Return(c)
  <2>1. /\ step[c] = "answered" /\ step' = [step EXCEPT ![c] = "read"] /\ todo' = todo
        /\ send' = answer[c]
    BY <1>6 DEF Return, Go
  <2>2. Current(c)' = Current(c) /\ step'[c] = "read"
    BY <1>0, <2>1 DEF Current, KeyGet, Request, ServicesTypeOK
  <2>3. QED
    BY <1>0, <2>1, <2>2 DEF AsMeant
<1>7. CASE Proceed(c)
  <2>1. step'[c] = "fill"
    BY <1>0, <1>7 DEF Proceed, Go, ServicesTypeOK
  <2>2. QED
    BY <2>1, FilledIsMeant
<1>8. QED
  BY <1>3, <1>4, <1>5, <1>6, <1>7 DEF ClientStep

LEMMA MeantOfOthers ==
  ASSUME PageIInv, RightService, Untorn, ~torn',
         \/ ShellStep \/ ProgramExits \/ (\E s \in Servers : ServerStep(s)) \/ Terminal
         \/ Keyboard \/ Power \/ PowerActs \/ Proc \/ Timer \/ Type \/ Tick \/ Off \/ UNCHANGED vars
  PROVE  AllAsMeant'
<1>0. /\ ServicesTypeOK /\ Turns /\ (\A s \in Servers : Engaged(s))
      /\ (\A c \in Clients : AsMeant(c)) /\ TimeIsKept
  BY UntornParts DEF PageIInv, AllAsMeant
<1>1. CASE ShellStep \/ ProgramExits
  <2>1. UNCHANGED <<asked, send, out, answer>>
    BY <1>1 DEF ShellStep, Prompt, ReadLine, Spawn, Wait, ProgramExits, world, slots, kernel
  <2>2. \A d \in Clients : step'[d] # "fill" => step'[d] = step[d] /\ todo'[d] = todo[d]
    <3>1. CASE Prompt
      BY <1>0, <3>1, Names DEF Prompt, ShellPuts, ServicesTypeOK
    <3>2. CASE ReadLine
      BY <1>0, <3>2, Names DEF ReadLine, LineKey, ShellPuts, Go, ServicesTypeOK
    <3>3. CASE Spawn
      <4>1. \A c \in Clients : step'[c] = "fill"
        BY <1>0, <3>3, Names DEF Spawn, Turns
      <4>2. QED
        BY <4>1
    <3>4. CASE Wait \/ ProgramExits
      BY <3>4 DEF Wait, ProgramExits, client
    <3>5. QED
      BY <1>1, <3>1, <3>2, <3>3, <3>4 DEF ShellStep
  <2>3. \A d \in Clients : AsMeant(d)'
    BY <1>0, <2>1, <2>2, FilledIsMeant, MeantKept
  <2>4. QED
    BY <2>3 DEF AllAsMeant
<1>2. ASSUME NEW s \in Servers, Take(s) PROVE AllAsMeant'
  <2>1. PICK c \in Clients : step[c] = "asked" /\ step' = [step EXCEPT ![c] = "taken"]
    BY <1>2 DEF Take, Queued, Go
  <2>2. UNCHANGED <<asked, out, todo>>
    BY <1>2 DEF Take, kernel, world
  <2>3. \A d \in Clients \ {c} : step'[d] = "fill"
    BY <1>0, <2>1, OthersWait DEF ServicesTypeOK
  <2>4. Current(c)' = Current(c) /\ step'[c] = "taken" /\ Sent(c)' = Sent(c)
    BY <1>0, <2>1, <2>2 DEF Current, KeyGet, Request, ServicesTypeOK, Sent
  <2>5. AsMeant(c)'
    BY <1>0, <2>1, <2>2, <2>4 DEF AsMeant
  <2>6. QED
    BY <2>3, <2>5, FilledIsMeant DEF AllAsMeant
<1>3. ASSUME NEW s \in Servers, Reply(s) PROVE AllAsMeant'
  <2>0. serving[s] # None
    BY <1>0, <1>3 DEF Reply, IpcReply, Engaged
  <2> PICK c \in Clients : c = serving[s]
    BY <2>0, Serves
  <2>1. /\ c # None /\ stage[s] = "reply" /\ step' = [step EXCEPT ![c] = "answered"] /\ todo' = todo
        /\ s # "terminal" => answer' = [answer EXCEPT ![c] = send]
    BY <1>0, <1>3 DEF Reply, IpcReply, Engaged, client
  <2>2. /\ c \in Clients /\ step[c] = "taken" /\ dest[c] = s
        /\ \A d \in Clients \ {c} : step[d] = "fill"
    BY <2>1, Serves
  <2>3. \A d \in Clients \ {c} : step'[d] = "fill"
    BY <1>0, <2>1, <2>2 DEF ServicesTypeOK
  <2>4. Current(c)' = Current(c) /\ step'[c] = "answered"
    BY <1>0, <2>1, <2>2 DEF Current, KeyGet, Request, ServicesTypeOK
  <2>5. Current(c).type = "UPTIME" => answer'[c].a # Zero
    <3>1. Current(c).type = "UPTIME" => s = "timer"
      BY <2>2, ServedType
    <3>2. s = "timer" => answer'[c] = send /\ send.a # Zero
      BY <1>0, <2>1, <2>2 DEF ServicesTypeOK, TimeIsKept
    <3>3. QED
      BY <3>1, <3>2
  <2>6. AsMeant(c)'
    BY <2>4, <2>5 DEF AsMeant
  <2>7. QED
    BY <2>3, <2>6, FilledIsMeant DEF AllAsMeant
<1>4. CASE Terminal \/ PowerActs \/ Type \/ Tick \/ Off \/ UNCHANGED vars
  <2>1. UNCHANGED <<asked, send, out, answer, step, todo>>
    BY <1>4 DEF Terminal, PowerActs, Type, Tick, Off, vars, slots, client, kernel, world
  <2>2. QED
    BY <1>0, <2>1, MeantKept DEF AllAsMeant
<1>5. CASE Keyboard \/ Power \/ Proc \/ Timer
  <2>1. UNCHANGED <<asked, out, answer, step, todo>>
    BY <1>5 DEF Keyboard, Power, Proc, Timer, client, kernel, world
  <2>2. \A d \in Clients : step[d] \notin {"rest", "call", "read"}
    <3>1. ASSUME NEW s \in Servers, serving[s] # None
          PROVE  \A d \in Clients : step[d] \notin {"rest", "call", "read"}
      <4>1. \A d \in Clients : step[d] \in {"taken", "fill"}
        BY <3>1, Serves
      <4>2. QED
        BY <4>1
    <3>2. CASE Keyboard \/ Power \/ Proc
      <4>1. \E s \in Servers : s # "timer" /\ stage[s] = "act"
        BY <3>2 DEF Keyboard, Power, Proc, Servers
      <4>2. QED
        BY <1>0, <3>1, <4>1 DEF Engaged
    <3>3. CASE Timer /\ serving["timer"] = None
      BY <3>3, Zenon DEF Timer, InUse
    <3>4. CASE Timer /\ serving["timer"] # None
      BY <3>1, <3>4 DEF Servers
    <3>5. QED
      BY <1>5, <3>2, <3>3, <3>4
  <2>3. QED
    BY <1>0, <2>1, <2>2, MeantKept DEF AllAsMeant
<1>6. QED
  BY <1>1, <1>2, <1>3, <1>4, <1>5 DEF ServerStep

LEMMA TimeIsKeptStep ==
  ASSUME PageIInv, RightService, AllAsMeant, TimeIsKept, [Next]_vars
  PROVE  TimeIsKept'
<1>0. ServicesTypeOK /\ (\A s \in Servers : Engaged(s)) /\ "timer" \in Servers
  BY DEF PageIInv, Servers
<1>1. ASSUME stage'["timer"] \in {stage["timer"], "recv", "act"}, send'.a = send.a PROVE TimeIsKept'
  BY <1>1 DEF TimeIsKept
<1>2. ASSUME NEW s \in Servers, s # "timer", serving[s] # None PROVE stage["timer"] # "reply"
  <2>1. SUFFICES ASSUME stage["timer"] = "reply" PROVE FALSE
    OBVIOUS
  <2>2. serving["timer"] # None
    BY <1>0, <2>1 DEF Engaged
  <2>3. serving["timer"] \in Clients /\ step[serving["timer"]] = "taken" /\ dest[serving["timer"]] = "timer"
    BY <1>0, <2>2, Serves
  <2>4. serving[s] \in Clients /\ dest[serving[s]] = s
        /\ \A d \in Clients \ {serving[s]} : step[d] = "fill"
    BY <1>2, Serves
  <2>5. QED
    BY <1>2, <2>3, <2>4
<1>3. ASSUME NEW c \in Clients, step[c] \notin {"fill", "taken"} PROVE stage["timer"] # "reply"
  <2>1. SUFFICES ASSUME stage["timer"] = "reply" PROVE FALSE
    OBVIOUS
  <2>2. serving["timer"] # None
    BY <1>0, <2>1 DEF Engaged
  <2>3. step[serving["timer"]] = "taken" /\ \A d \in Clients \ {serving["timer"]} : step[d] = "fill"
    BY <1>0, <2>2, Serves
  <2>4. QED
    BY <1>3, <2>3
<1>4. ASSUME NEW c \in Clients, ClientStep(c) PROVE TimeIsKept'
  <2>1. stage' = stage
    BY <1>4 DEF ClientStep, FillType, FillRest, IpcCall, Return, Proceed, service
  <2>2. send'.a = send.a \/ step[c] \notin {"fill", "taken"}
    BY <1>0, <1>4 DEF ClientStep, FillType, FillRest, IpcCall, Return, Proceed, slots,
                      ServicesTypeOK, MessageType
  <2>3. QED
    BY <1>1, <1>3, <2>1, <2>2 DEF TimeIsKept
<1>5. CASE ShellStep \/ ProgramExits
  BY <1>1, <1>5 DEF ShellStep, Prompt, ReadLine, Spawn, Wait, ProgramExits, slots, service
<1>6. ASSUME NEW s \in Servers, ServerStep(s) PROVE TimeIsKept'
  <2>1. send' = send
    BY <1>6 DEF ServerStep, Take, Reply, slots
  <2>2. \E l \in {"recv", "act", "REBOOT", "SHUTDOWN"} : stage' = [stage EXCEPT ![s] = l]
    BY <1>6 DEF ServerStep, Take, Reply, At
  <2>3. stage'["timer"] = stage["timer"] \/ stage'["timer"] \in {"recv", "act", "REBOOT", "SHUTDOWN"}
    BY <1>0, <2>2 DEF ServicesTypeOK
  <2>4. QED
    BY <2>1, <2>3 DEF TimeIsKept
<1>7. CASE Keyboard \/ Power \/ Proc
  <2>1. PICK s \in Servers \ {"timer"} :
          stage[s] = "act" /\ s # "timer" /\ stage' = [stage EXCEPT ![s] = "reply"]
    BY <1>7 DEF Keyboard, Power, Proc, At, Servers
  <2>2. serving[s] # None /\ stage'["timer"] = stage["timer"]
    BY <1>0, <2>1 DEF Engaged, ServicesTypeOK
  <2>3. QED
    BY <1>2, <2>1, <2>2 DEF TimeIsKept
<1>8. CASE Timer
  <2>1. /\ send'.a = IF recv.type = "UPTIME" THEN [v |-> "now", n |-> 0] ELSE Zero
        /\ stage' = [stage EXCEPT !["timer"] = IF serving["timer"] = None THEN "recv" ELSE "reply"]
    BY <1>8 DEF Timer, Message, At
  <2>2. serving["timer"] # None => recv.type = "UPTIME"
    <3>1. SUFFICES ASSUME serving["timer"] # None PROVE recv.type = "UPTIME"
      OBVIOUS
    <3>2. PICK c \in Clients : c = serving["timer"]
      BY <1>0, <3>1, Serves
    <3>3. step[c] = "taken" /\ dest[c] = "timer" /\ recv = out[c]
      BY <1>0, <3>1, <3>2, Serves
    <3>4. Current(c).type = "UPTIME"
      BY <1>0, <3>3, ServedType
    <3>5. AsMeant(c) /\ Sent(c) = recv
      BY <3>3 DEF AllAsMeant, Sent
    <3>6. Sent(c).type = Current(c).type
      BY <3>3, <3>5 DEF AsMeant
    <3>7. QED
      BY <3>4, <3>5, <3>6
  <2>3. [v |-> "now", n |-> 0] # Zero
    <3>1. [v |-> "now", n |-> 0].v = "now" /\ Zero.v = "0"
      BY DEF Zero
    <3>2. QED
      BY <3>1
  <2>4. stage'["timer"] = "reply" => serving["timer"] # None
    BY <1>0, <2>1 DEF ServicesTypeOK
  <2>5. QED
    BY <2>1, <2>2, <2>3, <2>4 DEF TimeIsKept
<1>9. CASE Terminal \/ PowerActs \/ Type \/ Tick \/ Off \/ UNCHANGED vars
  <2>1. send' = send
    BY <1>9 DEF Terminal, PowerActs, Type, Tick, Off, vars, slots
  <2>2. stage'["timer"] \in {stage["timer"], "recv", "act"}
    BY <1>0, <1>9 DEF Terminal, TerminalAnswers, PowerActs, Type, Tick, Off, vars, At, service,
                      ServicesTypeOK
  <2>3. QED
    BY <1>1, <2>1, <2>2
<1>10. QED
  BY <1>4, <1>5, <1>6, <1>7, <1>8, <1>9 DEF Next

\* A client has a text or a request to clear the screen on its way.
Owes(c) == OnItsWay(c) /\ Current(c).type \in {"PUTS", "CLEAR"}

LEMMA OwesSame ==
  ASSUME NEW c \in Clients, todo'[c] = todo[c], OnItsWay(c)' = OnItsWay(c)
  PROVE  Owes(c)' = Owes(c)
BY DEF Owes, Current, KeyGet, Request

LEMMA OwedKept ==
  ASSUME TextIsOwed, asked' = asked, done' = done, \A c \in Clients : Owes(c)' = Owes(c)
  PROVE  TextIsOwed'
<1>1. Owed' = Owed
  BY DEF Owed, Owes
<1>2. QED
  BY <1>1 DEF TextIsOwed

LEMMA OwedOfFill ==
  ASSUME PageIInv, TextIsOwed, NEW c \in Clients, FillRest(c)
  PROVE  TextIsOwed'
<1>0. /\ ServicesTypeOK /\ asked \in Seq(TextType) /\ NoText \in TextType
      /\ done' = done /\ todo' = todo /\ step[c] = "rest" /\ step' = [step EXCEPT ![c] = "call"]
  BY FillRestEffect, ValuesIn DEF PageIInv, ServicesTypeOK
<1>1. ~Owed
  <2>1. \A d \in Clients : step[d] \in {"fill", "rest"}
    BY <1>0, OthersWait
  <2>2. QED
    BY <2>1 DEF Owed, OnItsWay
<1>2. done = asked
  BY <1>1 DEF TextIsOwed
<1>3. step'[c] = "call" /\ (\A d \in Clients \ {c} : step'[d] = "fill") /\ Current(c)' = Current(c)
  BY <1>0, OthersWait DEF ServicesTypeOK, Current, KeyGet, Request
<1>4. Owed' <=> Current(c).type \in {"PUTS", "CLEAR"}
  BY <1>3 DEF Owed, OnItsWay
<1>5. CASE Current(c).type \in {"PUTS", "CLEAR"}
  <2>1. \E e \in TextType : asked' = asked \o <<e>>
    BY <1>0, <1>5, FillRestEffect
  <2>2. Len(asked') = Len(asked) + 1 /\ Front(asked') = asked
    BY <1>0, <2>1, Longer
  <2>3. QED
    BY <1>0, <1>2, <1>4, <1>5, <2>2 DEF TextIsOwed
<1>6. CASE Current(c).type \notin {"PUTS", "CLEAR"}
  <2>1. asked' = asked
    BY <1>0, <1>6, FillRestEffect
  <2>2. QED
    BY <1>0, <1>2, <1>4, <1>6, <2>1 DEF TextIsOwed
<1>7. QED
  BY <1>5, <1>6

\* The terminal prints what is owed.
LEMMA OwedOfTerminal ==
  ASSUME KeysIInv, RightService, TextsIInv, Untorn, Terminal
  PROVE  TextIsOwed'
<1>0. /\ PageIInv /\ ServicesTypeOK /\ "terminal" \in Servers /\ AllAsMeant /\ TextIsOwed
      /\ UNCHANGED <<step, todo, asked>> /\ stage["terminal"] = "act"
      /\ stage'["terminal"] = "reply" /\ asked \in Seq(TextType) /\ done \in Seq(TextType)
  BY UntornParts DEF KeysIInv, PageIInv, Servers, ServicesTypeOK, Terminal, TerminalAnswers, At,
                     client
<1>1. PICK c \in Clients : c = serving["terminal"] /\ c # None
  <2>1. serving["terminal"] # None
    BY <1>0 DEF PageIInv, Engaged
  <2>2. QED
    BY <1>0, <2>1, Serves
<1>2. /\ step[c] = "taken" /\ dest[c] = "terminal" /\ recv = out[c]
      /\ \A d \in Clients \ {c} : step[d] = "fill"
  BY <1>0, <1>1, Serves
<1>3. Current(c).type \in {"PUTS", "CLEAR"}
  BY <1>0, <1>2, ServedType
<1>4. Owed /\ ~Owed'
  <2>1. Owed
    BY <1>0, <1>2, <1>3 DEF Owed, OnItsWay
  <2>2. \A d \in Clients : step'[d] \notin {"call", "asked"}
    BY <1>0, <1>2
  <2>3. ~Owed'
    BY <1>0, <2>2 DEF Owed, OnItsWay
  <2>4. QED
    BY <2>1, <2>3
<1>5. Len(asked) = Len(done) + 1 /\ done = Front(asked)
  BY <1>0, <1>4 DEF TextIsOwed
<1>6. AsMeant(c) /\ Sent(c) = recv
  BY <1>0, <1>2 DEF AllAsMeant, Sent
<1>7. done' = Append(done, asked[Len(asked)])
  <2>1. CASE Current(c).type = "PUTS"
    <3>1. recv.type = "PUTS" /\ recv.len = Len(Current(c).bytes)
      BY <1>2, <1>6, <2>1 DEF AsMeant
    <3>2. todo[c] # <<>>
      BY <1>0, <2>1, CurrentIn
    <3>3. Current(c).bytes \in Seq(ByteType) /\ Current(c).bytes # <<>>
      BY <1>0, <2>1, <3>2, CurrentIn
    <3>4. recv.len > 0
      BY <3>1, <3>3, EmptySeq
    <3>5. Shown(recv) = asked[Len(asked)]
      BY <1>0, <3>4, ShowsAll
    <3>6. QED
      BY <3>1, <3>4, <3>5 DEF Terminal
  <2>2. CASE Current(c).type = "CLEAR"
    <3>1. recv.type = "CLEAR" /\ asked[Len(asked)] = NoText
      BY <1>2, <1>6, <2>2 DEF AsMeant
    <3>2. QED
      BY <3>1 DEF Terminal
  <2>3. QED
    BY <1>3, <2>1, <2>2
<1>8. done' = asked
  <2> DEFINE n == Len(done)
  <2>1. n \in Nat /\ Len(asked) = n + 1
    BY <1>0, <1>5, LenProperties
  <2>2. done = SubSeq(asked, 1, n)
    BY <1>5, <2>1 DEF Front
  <2> HIDE DEF n
  <2>3. \A i \in 1..n : asked[i] \in TextType
    BY <1>0, <2>1, ElementOfSeq
  <2>4. Len(SubSeq(asked, 1, n)) = n /\ \A i \in 1..n : SubSeq(asked, 1, n)[i] = asked[i]
    BY <2>1, <2>3, SubSeqProperties
  <2>5. asked[n + 1] \in TextType /\ done' = Append(done, asked[n + 1])
    BY <1>0, <1>7, <2>1, ElementOfSeq
  <2>6. /\ done' \in Seq(TextType) /\ Len(done') = n + 1
        /\ \A i \in 1..n : done'[i] = asked[i]
        /\ done'[n + 1] = asked[n + 1]
    BY <1>0, <2>1, <2>2, <2>4, <2>5, AppendProperties
  <2>7. \A i \in 1..Len(done') : done'[i] = asked[i]
    BY <2>1, <2>6
  <2>8. QED
    BY <1>0, <2>1, <2>6, <2>7, SeqEqual
<1>9. QED
  BY <1>0, <1>4, <1>8 DEF TextIsOwed

LEMMA OwedOfCalls ==
  ASSUME PageIInv, TextIsOwed, NEW c \in Clients, ClientStep(c)
  PROVE  TextIsOwed'
<1>0. ServicesTypeOK
  BY DEF PageIInv
<1>1. CASE FillType(c)
  <2>1. /\ UNCHANGED <<asked, done, todo, stage>> /\ step[c] = "fill"
        /\ step' = [step EXCEPT ![c] = "rest"]
    BY <1>1 DEF FillType, Go, service, world
  <2>2. \A d \in Clients : OnItsWay(d)' = OnItsWay(d)
    BY <1>0, <2>1 DEF OnItsWay, ServicesTypeOK
  <2>3. QED
    BY <2>1, <2>2, OwesSame, OwedKept
<1>2. CASE IpcCall(c)
  <2>1. /\ UNCHANGED <<asked, done, todo, stage>> /\ step[c] = "call"
        /\ step' = [step EXCEPT ![c] = "asked"]
    BY <1>2 DEF IpcCall, Go, service, world
  <2>2. \A d \in Clients : OnItsWay(d)' = OnItsWay(d)
    BY <1>0, <2>1 DEF OnItsWay, ServicesTypeOK
  <2>3. QED
    BY <2>1, <2>2, OwesSame, OwedKept
<1>3. CASE Return(c) \/ Proceed(c)
  <2>1. /\ UNCHANGED <<asked, done>> /\ step[c] \in {"answered", "read"}
        /\ \E l \in {"read", "fill"} : step' = [step EXCEPT ![c] = l]
    BY <1>3 DEF Return, Proceed, Go, world
  <2>2. \A d \in Clients : step[d] \in {"answered", "read", "fill"} /\ step'[d] \in {"read", "fill"}
    BY <1>0, <2>1, OthersWait DEF ServicesTypeOK
  <2>3. \A d \in Clients : ~OnItsWay(d)' /\ ~OnItsWay(d)
    BY <2>2 DEF OnItsWay
  <2>4. ~Owed' /\ ~Owed
    BY <2>3 DEF Owed
  <2>5. QED
    BY <2>1, <2>4 DEF TextIsOwed
<1>4. QED
  BY <1>1, <1>2, <1>3, OwedOfFill DEF ClientStep

LEMMA OwedOfShell ==
  ASSUME PageIInv, TextIsOwed, ShellStep \/ ProgramExits
  PROVE  TextIsOwed'
<1>0. ServicesTypeOK /\ Turns /\ UNCHANGED <<asked, done, stage>>
  BY DEF PageIInv, ShellStep, Prompt, ReadLine, Spawn, Wait, ProgramExits, world, service
<1>1. CASE ReadLine
  <2>1. /\ step["shell"] = "read" /\ step' = [step EXCEPT !["shell"] = "fill"]
    BY <1>1 DEF ReadLine, Go
  <2>2. \A d \in Clients : step[d] \in {"read", "fill"} /\ step'[d] = "fill"
    BY <1>0, <2>1, OthersWait, Names DEF ServicesTypeOK
  <2>3. \A d \in Clients : ~OnItsWay(d)' /\ ~OnItsWay(d)
    BY <2>2 DEF OnItsWay
  <2>4. ~Owed' /\ ~Owed
    BY <2>3 DEF Owed
  <2>5. QED
    BY <1>0, <2>4 DEF TextIsOwed
<1>2. CASE Prompt \/ Spawn \/ Wait \/ ProgramExits
  <2>1. step' = step
    BY <1>2 DEF Prompt, Spawn, Wait, ProgramExits, client
  <2>2. \A d \in Clients : step[d] # "fill" => todo'[d] = todo[d]
    <3>1. CASE Prompt
      BY <1>0, <3>1, Names DEF Prompt, ShellPuts, ServicesTypeOK
    <3>2. CASE Spawn
      BY <1>0, <3>2, Names DEF Spawn, Turns
    <3>3. CASE Wait \/ ProgramExits
      BY <3>3 DEF Wait, ProgramExits, client
    <3>4. QED
      BY <1>2, <3>1, <3>2, <3>3
  <2>3. ASSUME NEW d \in Clients PROVE Owes(d)' = Owes(d)
    <3>1. OnItsWay(d)' = OnItsWay(d)
      BY <1>0, <2>1 DEF OnItsWay
    <3>2. CASE step[d] = "fill"
      BY <2>1, <3>2 DEF Owes, OnItsWay
    <3>3. CASE step[d] # "fill"
      BY <2>2, <3>1, <3>3, OwesSame
    <3>4. QED
      BY <3>2, <3>3
  <2>4. QED
    BY <1>0, <2>3, OwedKept
<1>3. QED
  BY <1>1, <1>2 DEF ShellStep

LEMMA OwedOfOthers ==
  ASSUME PageIInv, RightService, TextIsOwed,
         \/ \E s \in Servers : ServerStep(s)
         \/ Keyboard \/ Power \/ PowerActs \/ Proc \/ Timer \/ Type \/ Tick \/ Off \/ UNCHANGED vars
  PROVE  TextIsOwed'
<1>0. ServicesTypeOK /\ (\A s \in Servers : Engaged(s)) /\ "terminal" \in Servers
  BY DEF PageIInv, Servers
<1>1. ASSUME NEW s \in Servers, Take(s) PROVE TextIsOwed'
  <2>1. PICK c \in Clients : step[c] = "asked" /\ dest[c] = s /\ step' = [step EXCEPT ![c] = "taken"]
    BY <1>1 DEF Take, Queued, Go
  <2>2. UNCHANGED <<asked, done, todo>> /\ stage' = [stage EXCEPT ![s] = "act"]
    BY <1>1 DEF Take, At, world
  <2>3. s = "terminal" <=> Current(c).type \in {"PUTS", "CLEAR"}
    BY <2>1, ServedType
  <2>4. step'[c] = "taken" /\ Current(c)' = Current(c) /\ (s = "terminal" => stage'["terminal"] = "act")
    BY <1>0, <2>1, <2>2 DEF ServicesTypeOK, Current, KeyGet, Request
  <2>5. Owes(c)' = Owes(c)
    BY <2>1, <2>3, <2>4 DEF Owes, OnItsWay
  <2>6. \A d \in Clients \ {c} : step[d] = "fill" /\ step'[d] = "fill"
    BY <1>0, <2>1, OthersWait DEF ServicesTypeOK
  <2>7. \A d \in Clients \ {c} : Owes(d)' = Owes(d)
    BY <2>6 DEF Owes, OnItsWay
  <2>8. QED
    BY <2>2, <2>5, <2>7, OwedKept
<1>2. ASSUME NEW s \in Servers, Reply(s) PROVE TextIsOwed'
  <2>0. serving[s] # None
    BY <1>0, <1>2 DEF Reply, IpcReply, Engaged
  <2>1. PICK c \in Clients : c = serving[s]
    BY <2>0, Serves
  <2>2. /\ step[c] = "taken" /\ dest[c] = s /\ \A d \in Clients \ {c} : step[d] = "fill"
        /\ stage[s] = "reply" /\ step' = [step EXCEPT ![c] = "answered"]
        /\ UNCHANGED <<asked, done, todo>>
    BY <2>0, <2>1, <1>2, Serves DEF Reply, IpcReply, client, world
  <2>3. stage["terminal"] # "act"
    <3>1. SUFFICES ASSUME stage["terminal"] = "act" PROVE FALSE
      OBVIOUS
    <3>2. serving["terminal"] # None
      BY <1>0, <3>1 DEF Engaged
    <3>3. serving["terminal"] \in Clients /\ step[serving["terminal"]] = "taken"
          /\ dest[serving["terminal"]] = "terminal"
      BY <1>0, <3>2, Serves
    <3>4. QED
      BY <2>2, <3>1, <3>3
  <2>4. \A d \in Clients : step[d] \in {"taken", "fill"} /\ step'[d] \in {"answered", "fill"}
    BY <1>0, <2>2 DEF ServicesTypeOK
  <2>5. \A d \in Clients : ~OnItsWay(d)' /\ ~OnItsWay(d)
    BY <2>3, <2>4 DEF OnItsWay
  <2>6. ~Owed' /\ ~Owed
    BY <2>5 DEF Owed
  <2>7. QED
    BY <2>2, <2>6 DEF TextIsOwed
<1>3. CASE Keyboard \/ Power \/ PowerActs \/ Proc \/ Timer \/ Type \/ Tick \/ Off \/ UNCHANGED vars
  <2>1. UNCHANGED <<asked, done, step, todo>>
    BY <1>3 DEF Keyboard, Power, PowerActs, Proc, Timer, Type, Tick, Off, vars, client, world
  <2>2. stage'["terminal"] = stage["terminal"]
    BY <1>0, <1>3 DEF Keyboard, Power, PowerActs, Proc, Timer, Type, Tick, Off, vars, At, service,
                      ServicesTypeOK
  <2>3. \A d \in Clients : OnItsWay(d)' = OnItsWay(d)
    BY <2>1, <2>2 DEF OnItsWay
  <2>4. QED
    BY <2>1, <2>3, OwesSame, OwedKept
<1>4. QED
  BY <1>1, <1>2, <1>3 DEF ServerStep

----------------------------------------------------------------------------
(* The theorems.                                                           *)

LEMMA ServicesInit == Init => ServicesIInv
<1> SUFFICES ASSUME Init PROVE ServicesIInv
  OBVIOUS
<1>1. KeysIInv
  BY PageInit, KeysInit DEF KeysIInv
<1>2. /\ send = Empty /\ recv = Empty /\ asked = <<>> /\ done = <<>> /\ line = <<>>
      /\ \A c \in Clients : /\ step[c] = "fill" /\ out[c] = Empty /\ answer[c] = Empty
                            /\ todo[c] \in {Puts(Han \o Han), <<>>}
      /\ machine = "on" /\ stage["power"] = "recv" /\ stage["timer"] = "recv"
  BY Names DEF Init, Servers
<1>3. KnownMessage(Empty)
  BY DEF KnownMessage, KnownTypes, KnownValues, Empty, Message, Zero
<1>4. \A c \in Clients : todo[c] \in KnownAsks
  BY <1>2, ShortPuts, PrintsKnown, PrintsJoin
<1>5. NothingUnknown
  <2>1. \A c \in Clients : /\ KnownMessage(out[c]) /\ KnownMessage(answer[c])
                           /\ todo[c] \in Seq(Asks(KnownTypes \cap AskType, KnownBytes))
    BY <1>2, <1>3, <1>4 DEF KnownAsks
  <2>2. line \in Seq(KnownValues)
    BY <1>2
  <2>3. QED
    BY <1>2, <1>3, <2>1, <2>2 DEF NothingUnknown
<1>6. RightService /\ AskedInOrder
  BY <1>2 DEF RightService, AskedInOrder
<1>7. (\A c \in Clients : ~OnItsWay(c)) /\ Texts = {}
  BY <1>2 DEF OnItsWay, Texts
<1>8. (\A c \in Clients : SentText(c)) /\ TextsDone
  BY <1>2, <1>7 DEF SentText, TextsDone
<1>9. Untorn
  BY <1>2, <1>7 DEF Untorn, AsMeant, Owed
<1>10. QED
  BY <1>1, <1>5, <1>6, <1>8, <1>9 DEF ServicesIInv

LEMMA ServicesStep == ServicesIInv /\ [Next]_vars => ServicesIInv'
<1> SUFFICES ASSUME ServicesIInv, [Next]_vars PROVE ServicesIInv'
  OBVIOUS
<1>1. /\ KeysIInv /\ RightService /\ NothingUnknown /\ AskedInOrder /\ TextsIInv /\ PageIInv
      /\ ~torn => Untorn
  BY DEF ServicesIInv, TextsIInv, KeysIInv
<1>2. KeysIInv'
  BY <1>1, KeysStep
<1>3. RightService'
  BY <1>1, RightServiceStep
<1>4. NothingUnknown'
  BY <1>1, UnknownOfCalls, UnknownOfShell, UnknownOfServices DEF Next
<1>5. AskedInOrder' /\ TextsIInv'
  BY <1>1, AskedStep, TextsStep
<1>6. ASSUME ~torn' PROVE Untorn'
  <2>1. Untorn
    BY <1>1, <1>6, NextGrows
  <2>2. AllAsMeant /\ TimeIsKept /\ TextIsOwed
    BY <2>1, UntornParts
  <2>3. AllAsMeant'
    BY <1>1, <1>6, <2>1, <2>2, MeantOfCalls, MeantOfOthers DEF Next
  <2>4. TimeIsKept'
    BY <1>1, <2>2, TimeIsKeptStep
  <2>5. TextIsOwed'
    BY <1>1, <2>1, <2>2, OwedOfCalls, OwedOfShell, OwedOfTerminal, OwedOfOthers DEF Next
  <2>6. QED
    BY <2>3, <2>4, <2>5 DEF Untorn, AllAsMeant, TimeIsKept, TextIsOwed
<1>7. QED
  BY <1>2, <1>3, <1>4, <1>5, <1>6 DEF ServicesIInv, TextsIInv

\* What the invariant says of the texts.
LEMMA AllServed == ServicesIInv => ServedAsAsked
<1> SUFFICES ASSUME ServicesIInv PROVE ServedAsAsked
  OBVIOUS
<1>1. /\ ServicesTypeOK /\ NothingUnknown /\ AskedInOrder /\ TextsDone /\ (~torn => Untorn)
      /\ asked \in Seq(TextType) /\ done \in Seq(TextType)
  BY DEF ServicesIInv, KeysIInv, PageIInv, ServicesTypeOK
<1>2. \A i \in Texts : WholeHans(done[i].bytes)
  <2> SUFFICES ASSUME NEW i \in Texts PROVE WholeHans(done[i].bytes)
    OBVIOUS
  <2> DEFINE n == done[i].n
  <2>1. n \in DOMAIN asked /\ done[i] = asked[n] /\ done[i] # NoText
    BY <1>1 DEF TextsDone, Texts
  <2> HIDE DEF n
  <2>2. QED
    BY <1>1, <2>1 DEF AskedInOrder
<1>3. (machine = "reset" => Typed("r")) /\ (machine = "off" => Typed("s"))
  BY <1>1 DEF NothingUnknown
<1>4. ASSUME ~torn
      PROVE  /\ IsPrefix(done, asked) /\ Len(asked) <= Len(done) + 1
             /\ \A i \in DOMAIN done : done[i].bytes # <<"0">>
  <2> DEFINE n == Len(done)
  <2>0. n \in Nat /\ Len(asked) \in Nat /\ DOMAIN done = 1..n /\ DOMAIN asked = 1..Len(asked)
    BY <1>1, LenProperties
  <2>1. TextIsOwed
    BY <1>1, <1>4, UntornParts
  <2>2. \/ Len(asked) = n + 1 /\ done = Front(asked)
        \/ Len(asked) = n /\ done = asked
    BY <2>1 DEF TextIsOwed
  <2>3. n <= Len(asked) /\ Len(asked) <= n + 1
    <3>1. Len(asked) = n + 1 \/ Len(asked) = n
      BY <2>2
    <3>2. n \in Nat
      BY <2>0
    <3> HIDE DEF n
    <3>3. QED
      BY <3>1, <3>2
  <2>4. done = SubSeq(asked, 1, n)
    <3>1. CASE done = asked
      BY <1>1, <3>1, SubSeqFull
    <3>2. CASE Len(asked) = n + 1 /\ done = Front(asked)
      <4>1. Len(asked) - 1 = n
        BY <2>0, <3>2
      <4>2. QED
        BY <3>2, <4>1 DEF Front
    <3>3. QED
      BY <2>2, <3>1, <3>2
  <2> HIDE DEF n
  <2>5. \A i \in 1..n : asked[i] \in TextType
    BY <1>1, <2>0, <2>3, ElementOfSeq
  <2>6. \A i \in 1..n : done[i] = asked[i]
    <3>1. \A i \in 1..n : SubSeq(asked, 1, n)[i] = asked[i]
      BY <2>0, <2>5, SubSeqProperties
    <3>2. QED
      BY <2>4, <3>1
  <2>7. IsPrefix(done, asked)
    BY <2>0, <2>3, <2>4, <2>6 DEF IsPrefix, n
  <2>8. ASSUME NEW i \in DOMAIN done, done[i].bytes = <<"0">> PROVE FALSE
    <3>1. i \in DOMAIN asked /\ done[i] = asked[i]
      BY <2>0, <2>3, <2>6
    <3>2. done[i] # NoText
      BY <2>8 DEF NoText
    <3>3. asked[i].bytes \in Seq(ByteType \ {"0"})
      BY <1>1, <1>4, <3>1, <3>2 DEF AskedInOrder, KnownBytes
    <3>4. asked[i].bytes = <<"0">>
      BY <2>8, <3>1
    <3>5. <<"0">> \in Seq(ByteType \ {"0"}) /\ 1 \in 1..Len(<<"0">>) /\ <<"0">>[1] = "0"
      BY <3>3, <3>4
    <3>6. <<"0">>[1] \in ByteType \ {"0"}
      BY <3>5, ElementOfSeq
    <3>7. QED
      BY <3>5, <3>6
  <2>9. QED
    BY <2>3, <2>7, <2>8 DEF n
<1>5. QED
  BY <1>1, <1>2, <1>3, <1>4 DEF ServedAsAsked, TextsDone

\* The inductive invariant of the calls through the shared page (services.cpp,
\* ipc.hpp): ranges, whose turn it is, what a service in the middle of its work
\* holds, where the key is that was popped last, which request and which text
\* is where, and what the user can have meant.
THEOREM ServicesInvCorrect == Spec => []ServicesIInv
<1>1. QED
  BY ServicesInit, ServicesStep, PTL DEF Spec

\* One pair of slots can serve all processes, because at most one client is in
\* a call and a service finds in RECV what it took.
THEOREM PageToOneClientHolds == Spec => []PageToOneClient
<1>1. ServicesIInv => PageToOneClient
  <2> SUFFICES ASSUME ServicesIInv PROVE PageToOneClient
    OBVIOUS
  <2>1. Turns /\ \A s \in Servers : Engaged(s)
    BY DEF ServicesIInv, KeysIInv, PageIInv
  <2>2. QED
    BY <2>1, OneInCall DEF PageToOneClient, Engaged
<1>2. QED
  BY <1>1, ServicesInvCorrect, PTL

\* The shell gets every key once and in order, unless the timer service wrote
\* over an answer.
THEOREM KeysInLineHolds == Spec => []KeysInLine
<1>1. ServicesIInv => KeysInLine
  BY DEF ServicesIInv, KeysIInv
<1>2. QED
  BY <1>1, ServicesInvCorrect, PTL

\* The terminal prints the texts it was given, whole, once and in order, and
\* the machine stops only for a program the user called; while the timer
\* service overwrites nothing, nothing is left out and uptime gets the time.
THEOREM ServedAsAskedHolds == Spec => []ServedAsAsked
<1>1. QED
  BY AllServed, ServicesInvCorrect, PTL
=============================================================================
