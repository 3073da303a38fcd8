-------------------------- MODULE Terminal_proofs --------------------------
(***************************************************************************)
(* Proofs about Terminal.tla, for any size of the screen and of the        *)
(* pointer, any texts and any moves of the mouse: the grid says what the   *)
(* cells show, hiding the pointer leaves nothing of it, and no block of    *)
(* the cursor stays behind.                                                *)
(***************************************************************************)
EXTENDS Terminal, FiniteSetTheorems, WellFoundedInduction, TLAPS

----------------------------------------------------------------------------
(* Induction over the naturals and over finite sets, for a set of values,  *)
(* not a predicate.                                                        *)

NatLess == OpToRel(<, Nat)

\* A set of naturals has a least element.
LEMMA LeastNatural ==
  ASSUME NEW T, T \subseteq Nat, T # {}
  PROVE  \E x \in T : \A y \in T : x <= y
<1>1. IsWellFoundedOn(NatLess, Nat)
  BY NatLessThanWellFounded DEF NatLess
<1>2. PICK x \in T : \A y \in T : ~(<<y, x>> \in NatLess)
  BY <1>1, WFMin
<1>3. \A m, n \in Nat : <<n, m>> \in NatLess <=> n < m
  BY DEF NatLess, OpToRel
<1>4. ASSUME NEW y \in T PROVE x <= y
  <2>1. ~(<<y, x>> \in NatLess)
    BY <1>2
  <2>2. ~(y < x)
    BY <1>3, <2>1
  <2>3. QED
    BY <2>2
<1>5. QED
  BY <1>4

\* A set that has 0 and the successor of each of its elements is Nat.
LEMMA NatInd ==
  ASSUME NEW P, 0 \in P, \A n \in Nat : n \in P => n + 1 \in P
  PROVE  Nat \subseteq P
<1> SUFFICES ASSUME Nat \ P # {} PROVE FALSE
  OBVIOUS
<1>1. PICK x \in Nat \ P : \A y \in Nat \ P : x <= y
  BY LeastNatural
<1>2. x # 0 /\ x - 1 \in Nat /\ (x - 1) + 1 = x
  BY <1>1
<1>3. x - 1 \in P
  BY <1>1, <1>2
<1>4. QED
  BY <1>1, <1>2, <1>3

\* A set that has a set s whenever it has every s \ {x} has every finite set.
LEMMA FiniteInd ==
  ASSUME NEW S, IsFiniteSet(S), NEW P,
         \A s \in SUBSET S : (\A x \in s : s \ {x} \in P) => s \in P
  PROVE  SUBSET S \subseteq P
<1> DEFINE Q == {n \in Nat : \A s \in SUBSET S : Cardinality(s) <= n => s \in P}
<1>1. \A s \in SUBSET S : IsFiniteSet(s) /\ Cardinality(s) \in Nat
  BY FS_Subset, FS_CardinalityType
<1>2. \A s \in SUBSET S : \A x \in s : Cardinality(s \ {x}) = Cardinality(s) - 1
  BY <1>1, FS_RemoveElement
<1>3. 0 \in Q
  <2> SUFFICES ASSUME NEW s \in SUBSET S, Cardinality(s) <= 0 PROVE s \in P
    OBVIOUS
  <2>1. s = {}
    BY <1>1, FS_EmptySet
  <2>2. QED
    BY <2>1
<1>4. ASSUME NEW n \in Nat, n \in Q PROVE n + 1 \in Q
  <2> SUFFICES ASSUME NEW s \in SUBSET S, Cardinality(s) <= n + 1 PROVE s \in P
    OBVIOUS
  <2>1. ASSUME NEW x \in s PROVE s \ {x} \in P
    <3>1. Cardinality(s \ {x}) <= n
      BY <1>1, <1>2
    <3>2. QED
      BY <1>4, <3>1
  <2>2. QED
    BY <2>1
<1>5. Nat \subseteq Q
  <2> HIDE DEF Q
  <2> QED
    BY <1>3, <1>4, NatInd
<1>6. QED
  BY <1>1, <1>5

\* A finite stretch of the naturals has a greatest element.
LEMMA GreatestNatural ==
  ASSUME NEW b \in Nat, NEW T, T \subseteq 0..b, T # {}
  PROVE  \E x \in T : \A y \in T : x >= y
<1> DEFINE U == {n \in Nat : \E x \in T : n = b - x}
<1>0. \A x \in T : x \in Int /\ b - x \in Nat
  OBVIOUS
<1>1. U \subseteq Nat /\ U # {} /\ \A x \in T : b - x \in U
  BY <1>0
<1>2. PICK u \in U : \A y \in U : u <= y
  BY <1>1, LeastNatural
<1>3. PICK x \in T : u = b - x
  OBVIOUS
<1>4. ASSUME NEW y \in T PROVE x >= y
  <2>1. u <= b - y
    BY <1>1, <1>2
  <2>2. QED
    BY <1>0, <1>3, <2>1
<1>5. QED
  BY <1>4

LEMMA MaxFound ==
  ASSUME NEW b \in Nat, NEW T, T \subseteq 0..b, T # {}
  PROVE  Max(T) \in T /\ \A y \in T : Max(T) >= y
BY GreatestNatural DEF Max

LEMMA MaxOfIndices ==
  ASSUME NEW n \in Nat, NEW s \in SUBSET (1..n), s # {}
  PROVE  Max(s) \in s
<1>1. s \subseteq 0..n
  OBVIOUS
<1>2. QED
  BY <1>1, MaxFound

----------------------------------------------------------------------------
(* Cells.                                                                  *)

Codes == Drawable \cup {Han, Continue}
Look1 == [shows : Shown, inverse : BOOLEAN, arrow : BOOLEAN]

\* What a cell shows, when the grid has g there: the property GridTruth.
Truthful(p, g, c) ==
  \/ p.shows = Look(g, p.inverse)
  \/ p.shows = HanRight /\ ~p.inverse /\ c[1] > 0

\* The constants are the numbers they are said to be.
LEMMA Sizes ==
  /\ Columns \in Nat /\ Columns >= 3 /\ Rows \in Nat /\ Rows >= 1
  /\ MaxCols \in Nat /\ MaxRows \in Nat /\ Columns <= MaxCols /\ Rows < MaxRows
  /\ PointerW \in Nat /\ PointerH \in Nat
  /\ Tab \in Nat /\ Tab > 0 /\ BlinkPeriod \in Nat /\ BlinkPeriod > 0
BY TerminalAssumption

\* The screen is no larger than the grid.
LEMMA CellsInGrid == Cells \subseteq GridCells
BY Sizes DEF Cells, GridCells

\* The cells beside a cell.
LEMMA Neighbours ==
  ASSUME NEW c \in Cells
  PROVE  /\ c = <<c[1], c[2]>> /\ c[1] \in 0 .. Columns - 1 /\ c[2] \in 0 .. Rows - 1
         /\ c[1] > 0 => Left(c) \in Cells /\ Right(Left(c)) = c
         /\ Right(c)[1] > 0
         /\ Below(c)[1] = c[1]
BY Sizes DEF Cells, Left, Right, Below

\* The texts and the blocks that are drawn are what the grid says.
LEMMA PlainTrue ==
  ASSUME NEW ch \in Drawable, NEW c
  PROVE  /\ Plain(ch) \in Look1 /\ Plain(ch).arrow = FALSE /\ Plain(ch).inverse = FALSE
         /\ Truthful(Plain(ch), ch, c)
BY DEF Plain, Look1, Truthful, Look, Shown, Drawable, IsCode, Han, Continue

LEMMA HanLeftTrue ==
  ASSUME NEW c
  PROVE  Plain(HanLeft) \in Look1 /\ Plain(HanLeft).arrow = FALSE /\ Plain(HanLeft).inverse = FALSE
         /\ Truthful(Plain(HanLeft), Han, c)
BY DEF Plain, Look1, Truthful, Look, Shown, Drawable, IsCode, Han, Continue, HanLeft

LEMMA HanRightTrue ==
  ASSUME NEW c, NEW g, c[1] > 0
  PROVE  Plain(HanRight) \in Look1 /\ Plain(HanRight).arrow = FALSE /\ Plain(HanRight).inverse = FALSE
         /\ Truthful(Plain(HanRight), g, c)
BY DEF Plain, Look1, Truthful, Shown

LEMMA InvertedTrue ==
  ASSUME NEW g \in Codes, NEW c, NEW ch, ch = IF IsCode(g) THEN " " ELSE g
  PROVE  Inverted(ch) \in Look1 /\ Inverted(ch).arrow = FALSE /\ Truthful(Inverted(ch), g, c)
BY DEF Inverted, Look1, Truthful, Look, Shown, Drawable, IsCode, Codes, Han, Continue,
       HanLeft, HanRight

----------------------------------------------------------------------------
(* Screens.                                                                *)

Shape(s) ==
  s = [backend |-> s.backend, grid |-> s.grid, pic |-> s.pic, forgotten |-> s.forgotten,
       col |-> s.col, row |-> s.row, lit |-> s.lit, ticks |-> s.ticks, drawn |-> s.drawn,
       last |-> s.last, utf8 |-> s.utf8, at |-> s.at, visible |-> s.visible,
       hasOld |-> s.hasOld, backup |-> s.backup, under |-> s.under]

Typed(s) == Shape(s) /\ s.grid \in [GridCells -> Codes] /\ s.pic \in [Cells -> Look1]

\* What no drawing changes, and what only the cursor does.
Frame(s, t) ==
  /\ t.backend = s.backend /\ t.forgotten = s.forgotten /\ t.under = s.under
  /\ t.utf8 = s.utf8 /\ t.at = s.at /\ t.visible = s.visible /\ t.hasOld = s.hasOld
  /\ t.backup = s.backup /\ t.col = s.col /\ t.row = s.row
Cursor(s, t) == t.lit = s.lit /\ t.ticks = s.ticks /\ t.drawn = s.drawn /\ t.last = s.last

\* From s to t the cells C are drawn, those of B with the cursor's block.
Painted(s, t, C, B) ==
  /\ Typed(t) /\ Frame(s, t) /\ C \subseteq Cells
  /\ \A c \in Cells \ C : t.pic[c] = s.pic[c] /\ t.grid[c] = s.grid[c]
  /\ \A c \in C : /\ t.pic[c].arrow = FALSE
                  /\ t.pic[c].inverse => c \in B
                  /\ Truthful(t.pic[c], t.grid[c], c)

\* Two drawings, one after the other.
LEMMA PaintedTwice ==
  ASSUME NEW s, NEW t, NEW u, NEW C, NEW D, NEW B, Painted(s, t, C, {}), Painted(t, u, D, B)
  PROVE  Painted(s, u, C \cup D, B)
<1>1. Typed(u) /\ Frame(s, u) /\ C \cup D \subseteq Cells
  BY DEF Painted, Frame
<1>2. \A c \in Cells \ (C \cup D) : u.pic[c] = s.pic[c] /\ u.grid[c] = s.grid[c]
  BY DEF Painted
<1>3. \A c \in C \cup D : /\ u.pic[c].arrow = FALSE
                          /\ u.pic[c].inverse => c \in B
                          /\ Truthful(u.pic[c], u.grid[c], c)
  <2> SUFFICES ASSUME NEW c \in C \cup D
               PROVE  u.pic[c].arrow = FALSE /\ (u.pic[c].inverse => c \in B)
                      /\ Truthful(u.pic[c], u.grid[c], c)
    OBVIOUS
  <2>1. CASE c \in D
    BY <2>1 DEF Painted
  <2>2. CASE c \notin D
    <3>1. c \in C /\ c \in Cells \ D
      BY <2>2 DEF Painted
    <3>2. u.pic[c] = t.pic[c] /\ u.grid[c] = t.grid[c]
      BY <3>1 DEF Painted
    <3>3. /\ t.pic[c].arrow = FALSE /\ (t.pic[c].inverse => c \in {})
          /\ Truthful(t.pic[c], t.grid[c], c)
      BY <3>1 DEF Painted
    <3>4. QED
      BY <3>2, <3>3
  <2>3. QED
    BY <2>1, <2>2
<1>4. QED
  BY <1>1, <1>2, <1>3 DEF Painted

\* What Paint and Note leave and what they change.
LEMMA PaintIs ==
  ASSUME NEW s, Typed(s), NEW f, \A c \in Cells \cap DOMAIN f : f[c] \in Look1
  PROVE  /\ Typed(Paint(s, f)) /\ Frame(s, Paint(s, f)) /\ Cursor(s, Paint(s, f))
         /\ Paint(s, f).grid = s.grid
         /\ \A c \in Cells : Paint(s, f).pic[c] = IF c \in DOMAIN f THEN f[c] ELSE s.pic[c]
<1> DEFINE p == [c \in Cells |-> IF c \in DOMAIN f THEN f[c] ELSE s.pic[c]]
<1>1. p \in [Cells -> Look1]
  BY DEF Typed
<1>2. Paint(s, f) = [s EXCEPT !.pic = p]
  BY DEF Paint
<1>3. \A c \in Cells : p[c] = IF c \in DOMAIN f THEN f[c] ELSE s.pic[c]
  OBVIOUS
<1> HIDE DEF p
<1>4. QED
  BY <1>1, <1>2, <1>3 DEF Typed, Shape, Frame, Cursor

LEMMA NoteIs ==
  ASSUME NEW s, Typed(s), NEW f, \A c \in GridCells \cap DOMAIN f : f[c] \in Codes
  PROVE  /\ Typed(Note(s, f)) /\ Frame(s, Note(s, f)) /\ Cursor(s, Note(s, f))
         /\ Note(s, f).pic = s.pic
         /\ \A c \in GridCells : Note(s, f).grid[c] = IF c \in DOMAIN f THEN f[c] ELSE s.grid[c]
<1> DEFINE g == [c \in GridCells |-> IF c \in DOMAIN f THEN f[c] ELSE s.grid[c]]
<1>1. g \in [GridCells -> Codes]
  BY DEF Typed
<1>2. Note(s, f) = [s EXCEPT !.grid = g]
  BY DEF Note
<1>3. \A c \in GridCells : g[c] = IF c \in DOMAIN f THEN f[c] ELSE s.grid[c]
  OBVIOUS
<1> HIDE DEF g
<1>4. QED
  BY <1>1, <1>2, <1>3 DEF Typed, Shape, Frame, Cursor

----------------------------------------------------------------------------
(* Drawing.                                                                *)

\* A character that is drawn is noted in the grid.
LEMMA DrawCellPaints ==
  ASSUME NEW s, Typed(s), NEW c, NEW ch \in Drawable
  PROVE  Painted(s, DrawCell(s, c, ch), Cells \cap {c}, {}) /\ Cursor(s, DrawCell(s, c, ch))
<1> DEFINE n == [d \in {c} |-> ch]
           f == [d \in {c} |-> Plain(ch)]
           u == Note(s, n)
           t == Paint(u, f)
<1>1. \A d \in GridCells \cap DOMAIN n : n[d] \in Codes
  BY DEF Codes
<1>2. /\ Typed(u) /\ Frame(s, u) /\ Cursor(s, u) /\ u.pic = s.pic
      /\ \A d \in GridCells : u.grid[d] = IF d \in DOMAIN n THEN n[d] ELSE s.grid[d]
  <2> HIDE DEF n
  <2> QED
    BY <1>1, NoteIs
<1>3. \A d \in Cells \cap DOMAIN f : f[d] \in Look1
  BY PlainTrue
<1>4. /\ Typed(t) /\ Frame(u, t) /\ Cursor(u, t) /\ t.grid = u.grid
      /\ \A d \in Cells : t.pic[d] = IF d \in DOMAIN f THEN f[d] ELSE u.pic[d]
  <2> HIDE DEF f, u
  <2> QED
    BY <1>2, <1>3, PaintIs
<1>5. Frame(s, t) /\ Cursor(s, t)
  BY <1>2, <1>4 DEF Frame, Cursor
<1>6. \A d \in Cells : d \in GridCells
  BY CellsInGrid
<1>7. \A d \in Cells \ {c} : t.pic[d] = s.pic[d] /\ t.grid[d] = s.grid[d]
  BY <1>2, <1>4, <1>6
<1>8. c \in Cells => t.pic[c] = Plain(ch) /\ t.grid[c] = ch
  BY <1>2, <1>4, <1>6
<1>9. t = DrawCell(s, c, ch)
  BY DEF DrawCell
<1>10. Plain(ch).arrow = FALSE /\ Plain(ch).inverse = FALSE /\ Truthful(Plain(ch), ch, c)
  BY PlainTrue
<1>11. QED
  <2> HIDE DEF t
  <2> QED
    BY <1>4, <1>5, <1>7, <1>8, <1>9, <1>10 DEF Painted

\* A han is drawn over cells of which the grid has the left half as one.
LEMMA DrawHanPaints ==
  ASSUME NEW s, Typed(s), NEW c \in Cells, s.grid[c] = Han
  PROVE  Painted(s, DrawHan(s, c), Cells \cap {c, Right(c)}, {}) /\ Cursor(s, DrawHan(s, c))
<1> DEFINE f == [d \in {c, Right(c)} |-> Plain(IF d = c THEN HanLeft ELSE HanRight)]
           t == DrawHan(s, c)
<1>1. t = Paint(s, f)
  BY DEF DrawHan
<1>2. Right(c) # c /\ Right(c)[1] > 0
  BY Neighbours DEF Right
<1>3. /\ Plain(HanLeft) \in Look1 /\ Plain(HanLeft).arrow = FALSE /\ Plain(HanLeft).inverse = FALSE
      /\ Truthful(Plain(HanLeft), Han, c)
  BY HanLeftTrue
<1>4. /\ Plain(HanRight) \in Look1 /\ Plain(HanRight).arrow = FALSE /\ Plain(HanRight).inverse = FALSE
      /\ Truthful(Plain(HanRight), s.grid[Right(c)], Right(c))
  BY <1>2, HanRightTrue
<1>5. \A d \in Cells \cap DOMAIN f : f[d] \in Look1
  BY <1>3, <1>4
<1>6. DOMAIN f = {c, Right(c)} /\ f[c] = Plain(HanLeft) /\ f[Right(c)] = Plain(HanRight)
  BY <1>2
<1>7. /\ Typed(t) /\ Frame(s, t) /\ Cursor(s, t) /\ t.grid = s.grid
      /\ \A d \in Cells : t.pic[d] = IF d \in DOMAIN f THEN f[d] ELSE s.pic[d]
  <2> HIDE DEF f, t
  <2> QED
    BY <1>1, <1>5, PaintIs
<1>8. QED
  <2> HIDE DEF f, t
  <2> QED
    BY <1>3, <1>4, <1>6, <1>7 DEF Painted, t

\* The cursor's fields do not matter to what is painted.
LEMMA PaintedDrawn ==
  ASSUME NEW s, NEW b, NEW C, NEW B, Painted(s, b, C, B),
         NEW t, Shape(t), Frame(b, t), t.grid = b.grid, t.pic = b.pic
  PROVE  Painted(s, t, C, B)
<1>1. Typed(b) /\ Frame(s, b)
  BY DEF Painted
<1>2. Typed(t) /\ Frame(s, t)
  BY <1>1 DEF Typed, Frame
<1>3. QED
  BY <1>2 DEF Painted

\* What the erasing of the cursor draws, a han or a character, is true.
LEMMA EraseCursorAtPaints ==
  ASSUME NEW s, Typed(s), NEW c
  PROVE  \E C : /\ Painted(s, EraseCursorAt(s, c), C, {}) /\ Cursor(s, EraseCursorAt(s, c))
                /\ c \in Cells => c \in C
<1> DEFINE t == EraseCursorAt(s, c)
<1>1. CASE c \notin Cells
  <2>1. t = s
    BY <1>1 DEF EraseCursorAt
  <2>2. Painted(s, s, {}, {}) /\ Cursor(s, s)
    BY DEF Painted, Frame, Cursor
  <2>3. QED
    BY <1>1, <2>1, <2>2
<1>2. CASE c \in Cells
  <2>0. c \in Cells \cap GridCells /\ s.grid[c] \in Codes /\ Han # Continue
    BY <1>2, CellsInGrid DEF Typed, Han, Continue
  <2>1. CASE s.grid[c] = Han
    <3>1. t = DrawHan(s, c)
      BY <2>0, <2>1 DEF EraseCursorAt
    <3>2. Painted(s, t, Cells \cap {c, Right(c)}, {}) /\ Cursor(s, t)
      BY <1>2, <2>1, <3>1, DrawHanPaints
    <3>3. QED
      BY <1>2, <3>2
  <2>2. CASE s.grid[c] = Continue /\ c[1] > 0 /\ s.grid[Left(c)] = Han
    <3>1. t = DrawHan(s, Left(c))
      BY <2>0, <2>2 DEF EraseCursorAt
    <3>2. Left(c) \in Cells /\ Right(Left(c)) = c
      BY <1>2, <2>2, Neighbours
    <3>3. Painted(s, t, Cells \cap {Left(c), Right(Left(c))}, {}) /\ Cursor(s, t)
      BY <2>2, <3>1, <3>2, DrawHanPaints
    <3>4. QED
      BY <1>2, <3>2, <3>3
  <2>3. CASE s.grid[c] = Continue /\ ~(c[1] > 0 /\ s.grid[Left(c)] = Han)
    <3>1. t = DrawCell(s, c, " ")
      BY <2>0, <2>3 DEF EraseCursorAt
    <3>2. " " \in Drawable
      BY DEF Drawable
    <3>3. Painted(s, t, Cells \cap {c}, {}) /\ Cursor(s, t)
      BY <3>1, <3>2, DrawCellPaints
    <3>4. QED
      BY <1>2, <3>3
  <2>4. CASE s.grid[c] # Han /\ s.grid[c] # Continue
    <3>1. t = DrawCell(s, c, s.grid[c])
      BY <2>0, <2>4 DEF EraseCursorAt
    <3>2. s.grid[c] \in Drawable
      BY <2>0, <2>4 DEF Codes
    <3>3. Painted(s, t, Cells \cap {c}, {}) /\ Cursor(s, t)
      BY <3>1, <3>2, DrawCellPaints
    <3>4. QED
      BY <1>2, <3>3
  <2>5. QED
    BY <2>1, <2>2, <2>3, <2>4
<1>3. QED
  BY <1>1, <1>2

\* The block of the cursor is true: it shows nothing of a han.
LEMMA DrawBlockPaints ==
  ASSUME NEW s, Typed(s)
  PROVE  /\ Painted(s, DrawBlock(s), Cells \cap {Here(s)}, {Here(s)})
         /\ Cursor(s, DrawBlock(s))
<1> DEFINE h == Here(s)
           g == IF h \in GridCells THEN s.grid[h] ELSE " "
           ch == IF IsCode(g) THEN " " ELSE g
           f == [d \in {h} |-> Inverted(ch)]
           t == DrawBlock(s)
<1>1. t = Paint(s, f)
  BY DEF DrawBlock
<1>2. g \in Codes
  BY DEF Typed, Codes, Drawable
<1>3. Inverted(ch) \in Look1 /\ Inverted(ch).arrow = FALSE /\ Truthful(Inverted(ch), g, h)
  <2> HIDE DEF g
  <2> QED
    BY <1>2, InvertedTrue
<1>4. \A d \in Cells \cap DOMAIN f : f[d] \in Look1
  BY <1>3
<1>5. DOMAIN f = {h} /\ f[h] = Inverted(ch)
  OBVIOUS
<1>6. h \in Cells => g = s.grid[h]
  BY CellsInGrid
<1>7. /\ Typed(t) /\ Frame(s, t) /\ Cursor(s, t) /\ t.grid = s.grid
      /\ \A d \in Cells : t.pic[d] = IF d \in DOMAIN f THEN f[d] ELSE s.pic[d]
  <2> HIDE DEF f, t
  <2> QED
    BY <1>1, <1>4, PaintIs
<1>8. Painted(s, t, Cells \cap {h}, {h})
  <2> HIDE DEF f, t, ch, g, h
  <2> QED
    BY <1>3, <1>5, <1>6, <1>7 DEF Painted
<1>9. QED
  BY <1>7, <1>8

LEMMA LeaveLastPaints ==
  ASSUME NEW s, Typed(s)
  PROVE  \E C : /\ Painted(s, LeaveLast(s), C, {})
                /\ LeaveLast(s).last = Here(s)
                /\ LeaveLast(s).lit = s.lit /\ LeaveLast(s).ticks = s.ticks
                /\ s.last # Here(s) /\ s.last \in Cells => s.last \in C
<1>1. CASE s.last = Here(s)
  <2>1. LeaveLast(s) = s
    BY <1>1 DEF LeaveLast
  <2>2. Painted(s, s, {}, {})
    BY DEF Painted, Frame
  <2>3. QED
    BY <1>1, <2>1, <2>2
<1>2. CASE s.last # Here(s)
  <2> DEFINE e == EraseCursorAt(s, s.last)
             t == [e EXCEPT !.last = Here(s), !.drawn = FALSE]
  <2>1. PICK C : Painted(s, e, C, {}) /\ Cursor(s, e) /\ (s.last \in Cells => s.last \in C)
    BY EraseCursorAtPaints
  <2>2. LeaveLast(s) = t
    BY <1>2 DEF LeaveLast
  <2>3. Painted(s, t, C, {}) /\ t.last = Here(s) /\ t.lit = s.lit /\ t.ticks = s.ticks
    <3> HIDE DEF e
    <3>0. t = [e EXCEPT !.last = Here(s), !.drawn = FALSE]
      OBVIOUS
    <3> HIDE DEF t
    <3>1. Shape(e)
      BY <2>1 DEF Painted, Typed
    <3>2. /\ Shape(t) /\ Frame(e, t) /\ t.grid = e.grid /\ t.pic = e.pic
          /\ t.last = Here(s) /\ t.lit = e.lit /\ t.ticks = e.ticks
      BY <3>0, <3>1 DEF Shape, Frame
    <3>3. QED
      BY <2>1, <3>2, PaintedDrawn DEF Cursor
  <2>4. QED
    BY <2>1, <2>2, <2>3
<1>3. QED
  BY <1>1, <1>2

\* The last block is drawn over, wherever the cursor is now.
LEMMA SetCursorVisiblePaints ==
  ASSUME NEW s, Typed(s), NEW v \in BOOLEAN
  PROVE  \E C : /\ Painted(s, SetCursorVisible(s, v), C, IF v THEN {Here(s)} ELSE {})
                /\ SetCursorVisible(s, v).last = Here(s) /\ SetCursorVisible(s, v).drawn = v
                /\ SetCursorVisible(s, v).lit = s.lit /\ SetCursorVisible(s, v).ticks = s.ticks
                /\ s.last \in Cells => s.last \in C
<1> DEFINE l == LeaveLast(s)
<1>1. PICK C : /\ Painted(s, l, C, {}) /\ l.last = Here(s) /\ l.lit = s.lit /\ l.ticks = s.ticks
               /\ s.last # Here(s) /\ s.last \in Cells => s.last \in C
  BY LeaveLastPaints
<1>2. Typed(l) /\ Here(l) = Here(s)
  BY <1>1 DEF Painted, Frame, Here
<1> HIDE DEF l
<1>3. CASE v = TRUE
  <2> DEFINE b == DrawBlock(l)
             D == Cells \cap {Here(s)}
             t == [b EXCEPT !.drawn = TRUE]
  <2>1. Painted(l, b, D, {Here(s)}) /\ Cursor(l, b)
    BY <1>2, DrawBlockPaints
  <2>2. SetCursorVisible(s, v) = t
    BY <1>3 DEF SetCursorVisible, l
  <2> HIDE DEF b, D
  <2>3. Painted(s, b, C \cup D, {Here(s)})
    BY <1>1, <2>1, PaintedTwice
  <2>4. /\ Painted(s, t, C \cup D, {Here(s)}) /\ t.last = b.last /\ t.drawn = TRUE
        /\ t.lit = b.lit /\ t.ticks = b.ticks
    <3>0. t = [b EXCEPT !.drawn = TRUE]
      OBVIOUS
    <3> HIDE DEF t
    <3>1. Shape(b)
      BY <2>3 DEF Painted, Typed
    <3>2. /\ Shape(t) /\ Frame(b, t) /\ t.grid = b.grid /\ t.pic = b.pic
          /\ t.last = b.last /\ t.drawn = TRUE /\ t.lit = b.lit /\ t.ticks = b.ticks
      BY <3>0, <3>1 DEF Shape, Frame
    <3>3. QED
      BY <2>3, <3>2, PaintedDrawn
  <2>5. s.last \in Cells => s.last \in C \cup D
    BY <1>1 DEF D
  <2> HIDE DEF t
  <2>6. QED
    BY <1>1, <1>3, <2>1, <2>2, <2>4, <2>5 DEF Cursor
<1>4. CASE v = FALSE
  <2> DEFINE e == EraseCursorAt(l, Here(s))
             t == [e EXCEPT !.drawn = FALSE]
  <2>1. PICK D : Painted(l, e, D, {}) /\ Cursor(l, e) /\ (Here(s) \in Cells => Here(s) \in D)
    BY <1>2, EraseCursorAtPaints
  <2>2. SetCursorVisible(s, v) = t
    BY <1>2, <1>4 DEF SetCursorVisible, l, Here, LeaveLast
  <2> HIDE DEF e
  <2>3. Painted(s, e, C \cup D, {})
    BY <1>1, <2>1, PaintedTwice
  <2>4. /\ Painted(s, t, C \cup D, {}) /\ t.last = e.last /\ t.drawn = FALSE
        /\ t.lit = e.lit /\ t.ticks = e.ticks
    <3>0. t = [e EXCEPT !.drawn = FALSE]
      OBVIOUS
    <3> HIDE DEF t
    <3>1. Shape(e)
      BY <2>3 DEF Painted, Typed
    <3>2. /\ Shape(t) /\ Frame(e, t) /\ t.grid = e.grid /\ t.pic = e.pic
          /\ t.last = e.last /\ t.drawn = FALSE /\ t.lit = e.lit /\ t.ticks = e.ticks
      BY <3>0, <3>1 DEF Shape, Frame
    <3>3. QED
      BY <2>3, <3>2, PaintedDrawn
  <2>5. s.last \in Cells => s.last \in C \cup D
    BY <1>1, <2>1
  <2> HIDE DEF t
  <2>6. QED
    BY <1>1, <1>4, <2>1, <2>2, <2>4, <2>5 DEF Cursor
<1>5. QED
  BY <1>3, <1>4

----------------------------------------------------------------------------
(* A screen without the pointer.                                           *)

\* What holds of a screen the pointer is taken from: it shows what the grid
\* says, and no block but the cursor's.
Quiet(s) ==
  /\ Typed(s) /\ s.visible = FALSE /\ s.hasOld = FALSE
  /\ s.backend \in Backends /\ s.forgotten \subseteq Cells /\ s.under \subseteq Cells
  /\ s.drawn \in BOOLEAN /\ s.lit \in BOOLEAN /\ s.ticks \in 0 .. BlinkPeriod - 1
  /\ s.last \in GridCells \cup {<<-1, -1>>}
  /\ s.backend = "vga" => s.under = {}
  /\ \A c \in Cells : /\ s.pic[c].arrow = FALSE
                      /\ s.pic[c].inverse => c \in s.under \/ (s.drawn /\ c = s.last)
  /\ \A c \in Cells \ (s.forgotten \cup s.under) : Truthful(s.pic[c], s.grid[c], c)

\* The place, the bytes put together and the pointer do not matter to it.
LEMMA QuietElsewhere ==
  ASSUME NEW s, Quiet(s), NEW t, Shape(t),
         t.backend = s.backend, t.grid = s.grid, t.pic = s.pic, t.forgotten = s.forgotten,
         t.lit = s.lit, t.ticks = s.ticks, t.drawn = s.drawn, t.last = s.last,
         t.visible = s.visible, t.hasOld = s.hasOld, t.under = s.under
  PROVE  Quiet(t)
BY DEF Quiet, Typed

\* What drawing on it leaves it: the last block is drawn over or stays.
LEMMA QuietPainted ==
  ASSUME NEW s, Quiet(s), NEW t, NEW C, NEW B, Painted(s, t, C, B),
         t.drawn \in BOOLEAN, t.lit \in BOOLEAN, t.ticks \in 0 .. BlinkPeriod - 1,
         t.last \in GridCells \cup {<<-1, -1>>},
         \A c \in B : t.drawn = TRUE /\ c = t.last,
         s.drawn = TRUE /\ s.last \in Cells =>
           s.last \in C \/ (t.drawn = TRUE /\ t.last = s.last)
  PROVE  Quiet(t)
<1>1. /\ Typed(t) /\ t.visible = FALSE /\ t.hasOld = FALSE /\ t.backend = s.backend
      /\ t.under = s.under /\ t.forgotten = s.forgotten
  BY DEF Quiet, Painted, Frame
<1>2. ASSUME NEW c \in Cells
      PROVE  /\ t.pic[c].arrow = FALSE
             /\ t.pic[c].inverse => c \in t.under \/ (t.drawn /\ c = t.last)
  <2>1. CASE c \in C
    BY <2>1 DEF Painted
  <2>2. CASE c \notin C
    <3>1. t.pic[c] = s.pic[c]
      BY <2>2 DEF Painted
    <3>2. s.pic[c].arrow = FALSE /\ (s.pic[c].inverse => c \in s.under \/ (s.drawn /\ c = s.last))
      BY DEF Quiet
    <3>3. s.drawn /\ c = s.last => t.drawn = TRUE /\ t.last = c
      BY <2>2 DEF Quiet
    <3>4. QED
      BY <1>1, <3>1, <3>2, <3>3
  <2>3. QED
    BY <2>1, <2>2
<1>3. ASSUME NEW c \in Cells \ (t.forgotten \cup t.under)
      PROVE  Truthful(t.pic[c], t.grid[c], c)
  <2>1. CASE c \in C
    BY <2>1 DEF Painted
  <2>2. CASE c \notin C
    BY <1>1, <2>2 DEF Painted, Quiet
  <2>3. QED
    BY <2>1, <2>2
<1>4. QED
  BY <1>1, <1>2, <1>3 DEF Quiet

----------------------------------------------------------------------------
(* Scrolling.                                                              *)

At(s) == s.col \in 0 .. Columns - 1 /\ s.row \in 0 .. Rows - 1
Stays(s, t) == Quiet(t) /\ t.utf8 = s.utf8
\* Where the next character is drawn, at most one row below the screen.
AtOrBelow(s) == s.col \in 0 .. Columns - 1 /\ s.row \in 0 .. Rows

\* A cell is blank in the picture and in the grid.
LEMMA BlanksTrue ==
  ASSUME NEW c
  PROVE  /\ " " \in Drawable /\ Plain(" ") \in Look1 /\ Plain(" ").arrow = FALSE
         /\ Plain(" ").inverse = FALSE /\ Truthful(Plain(" "), " ", c)
<1>1. " " \in Drawable
  BY DEF Drawable
<1>2. QED
  BY <1>1, PlainTrue

LEMMA HideQuiet ==
  ASSUME NEW s, Quiet(s)
  PROVE  Hide(s) = s
BY DEF Quiet, Hide

\* Before the scroll the cursor's block is drawn over.
LEMMA EraseDrawnQuiet ==
  ASSUME NEW s, Quiet(s)
  PROVE  /\ Quiet(EraseDrawn(s)) /\ EraseDrawn(s).drawn = FALSE /\ Frame(s, EraseDrawn(s))
         /\ EraseDrawn(s).last = s.last
<1>0. Typed(s)
  BY DEF Quiet
<1>1. CASE s.drawn = TRUE
  <2> DEFINE e == EraseCursorAt(s, s.last)
             t == [e EXCEPT !.drawn = FALSE]
  <2>1. PICK C : Painted(s, e, C, {}) /\ Cursor(s, e) /\ (s.last \in Cells => s.last \in C)
    BY <1>0, EraseCursorAtPaints
  <2>2. EraseDrawn(s) = t
    BY <1>1 DEF EraseDrawn
  <2> HIDE DEF e
  <2>3. t = [e EXCEPT !.drawn = FALSE]
    OBVIOUS
  <2> HIDE DEF t
  <2>4. Shape(e) /\ Frame(s, e)
    BY <2>1 DEF Painted, Typed
  <2>5. /\ Shape(t) /\ Frame(e, t) /\ t.grid = e.grid /\ t.pic = e.pic
        /\ t.last = e.last /\ t.drawn = FALSE /\ t.lit = e.lit /\ t.ticks = e.ticks
    BY <2>3, <2>4 DEF Shape, Frame
  <2>6. Painted(s, t, C, {})
    BY <2>1, <2>5, PaintedDrawn
  <2>7. /\ t.last = s.last /\ t.lit = s.lit /\ t.ticks = s.ticks
    BY <2>1, <2>5 DEF Cursor
  <2>8. t.last \in GridCells \cup {<<-1, -1>>} /\ t.lit \in BOOLEAN
        /\ t.ticks \in 0 .. BlinkPeriod - 1 /\ t.drawn \in BOOLEAN
    BY <2>5, <2>7 DEF Quiet
  <2>9. Quiet(t)
    <3>1. PICK B : B = {}
      OBVIOUS
    <3>2. s.drawn = TRUE /\ s.last \in Cells => s.last \in C \/ (t.drawn = TRUE /\ t.last = s.last)
      BY <2>1
    <3>3. Painted(s, t, C, B) /\ \A c \in B : t.drawn = TRUE /\ c = t.last
      BY <2>6, <3>1
    <3>4. QED
      BY <2>8, <3>2, <3>3, QuietPainted
  <2>10. QED
    BY <2>2, <2>5, <2>6, <2>7, <2>9 DEF Painted
<1>2. CASE s.drawn # TRUE
  <2>1. s.drawn = FALSE
    BY <1>2 DEF Quiet
  <2>2. EraseDrawn(s) = s
    BY <2>1 DEF EraseDrawn
  <2>3. QED
    BY <2>1, <2>2 DEF Frame
<1>3. QED
  BY <1>1, <1>2

\* With the text mode every cell's grid entry is forgotten.
LEMMA ScrollTextQuiet ==
  ASSUME NEW s, Quiet(s), s.drawn = FALSE, s.backend = "vga",
         NEW t, t = [ScrollPicture(s) EXCEPT !.forgotten = Cells]
  PROVE  Stays(s, t) /\ t.col = s.col /\ t.row = s.row
<1> DEFINE p == [c \in Cells |-> IF Below(c) \in Cells THEN s.pic[Below(c)] ELSE Plain(" ")]
<1>1. p \in [Cells -> Look1]
  BY BlanksTrue DEF Quiet, Typed
<1>2. \A c \in Cells : p[c].arrow = FALSE /\ ~p[c].inverse
  BY BlanksTrue DEF Quiet
<1>3. t = [s EXCEPT !.pic = p, !.forgotten = Cells]
  BY DEF ScrollPicture
<1> HIDE DEF p
<1>4. Shape(s)
  BY DEF Quiet, Typed
<1>5. /\ Shape(t) /\ t.pic = p /\ t.forgotten = Cells /\ t.grid = s.grid /\ t.under = s.under
      /\ t.visible = s.visible /\ t.hasOld = s.hasOld /\ t.backend = s.backend
      /\ Cursor(s, t) /\ t.utf8 = s.utf8 /\ t.col = s.col /\ t.row = s.row
  BY <1>3, <1>4 DEF Shape, Cursor
<1>6. Quiet(t)
  BY <1>1, <1>2, <1>5 DEF Quiet, Typed, Cursor
<1>7. QED
  BY <1>5, <1>6 DEF Stays

\* With a frame buffer the grid and what is remembered of it go up with the picture.
LEMMA ScrollPixelsQuiet ==
  ASSUME NEW s, Quiet(s), s.drawn = FALSE, s.backend # "vga",
         NEW t, t = ScrollGrid(ScrollPicture(s))
  PROVE  /\ Stays(s, t) /\ t.col = s.col /\ t.row = s.row
         /\ t.last = s.last /\ t.drawn = FALSE
<1> DEFINE p == [c \in Cells |-> IF Below(c) \in Cells THEN s.pic[Below(c)] ELSE Plain(" ")]
           m == ScrollPicture(s)
<1>1. p \in [Cells -> Look1]
  BY BlanksTrue DEF Quiet, Typed
<1>2. \A c \in Cells : p[c] = IF Below(c) \in Cells THEN s.pic[Below(c)] ELSE Plain(" ")
  OBVIOUS
<1>3. m = [s EXCEPT !.pic = p]
  BY DEF ScrollPicture
<1>4. Shape(s)
  BY DEF Quiet, Typed
<1> HIDE DEF p, m
<1>5. /\ m.pic = p /\ m.grid = s.grid /\ m.forgotten = s.forgotten /\ m.under = s.under
      /\ Shape(m) /\ Frame(s, m) /\ Cursor(s, m)
  BY <1>3, <1>4 DEF Shape, Frame, Cursor
<1> DEFINE g == [c \in GridCells |-> IF c \notin Cells THEN m.grid[c]
                                     ELSE IF Below(c) \in Cells THEN m.grid[Below(c)] ELSE " "]
           f == {c \in Cells : Below(c) \in m.forgotten}
           u == {c \in Cells : Below(c) \in m.under}
<1>6. g \in [GridCells -> Codes]
  BY <1>5, CellsInGrid, BlanksTrue DEF Quiet, Typed, Codes
<1>7. \A c \in Cells : p[c].arrow = FALSE /\ (p[c].inverse => c \in u)
  <2>1. Plain(" ").arrow = FALSE /\ Plain(" ").inverse = FALSE
    BY BlanksTrue
  <2>2. QED
    BY <1>2, <1>5, <2>1 DEF Quiet
<1>8. t = [m EXCEPT !.grid = g, !.forgotten = f, !.under = u]
  BY DEF ScrollGrid, m
<1>9. f \subseteq Cells /\ u \subseteq Cells
  OBVIOUS
<1>14. ASSUME NEW c \in Cells \ (f \cup u) PROVE Truthful(p[c], g[c], c)
  <2>1. c \in GridCells
    BY CellsInGrid
  <2>2. CASE Below(c) \in Cells
    <3>1. p[c] = s.pic[Below(c)] /\ g[c] = s.grid[Below(c)]
      BY <1>2, <1>5, <2>1, <2>2
    <3>2. Below(c) \in Cells \ (s.forgotten \cup s.under)
      BY <1>5, <2>2
    <3>3. Truthful(s.pic[Below(c)], s.grid[Below(c)], Below(c)) /\ Below(c)[1] = c[1]
      BY <3>2, Neighbours DEF Quiet
    <3>4. QED
      BY <3>1, <3>3 DEF Truthful
  <2>3. CASE Below(c) \notin Cells
    <3>1. p[c] = Plain(" ") /\ g[c] = " "
      BY <1>2, <2>1, <2>3
    <3>2. QED
      BY <3>1, BlanksTrue
  <2>4. QED
    BY <2>2, <2>3
<1> HIDE DEF g, f, u
<1>10. /\ Shape(t) /\ t.pic = p /\ t.grid = g /\ t.forgotten = f /\ t.under = u
       /\ t.visible = m.visible /\ t.hasOld = m.hasOld /\ t.backend = m.backend
       /\ Cursor(m, t) /\ t.utf8 = m.utf8 /\ t.col = m.col /\ t.row = m.row
  BY <1>5, <1>8 DEF Shape, Cursor
<1>11. /\ t.visible = s.visible /\ t.hasOld = s.hasOld /\ t.backend = s.backend
       /\ Cursor(s, t) /\ t.utf8 = s.utf8 /\ t.col = s.col /\ t.row = s.row
  BY <1>5, <1>10 DEF Frame, Cursor
<1>12. Quiet(t)
  BY <1>1, <1>5, <1>6, <1>7, <1>9, <1>10, <1>11, <1>14 DEF Quiet, Typed, Cursor
<1>13. QED
  BY <1>11, <1>12 DEF Stays, Cursor

\* The cursor that is drawn again is below the screen.
LEMMA RedrawCursorQuiet ==
  ASSUME NEW s, Quiet(s), s.drawn = FALSE, AtOrBelow(s), s.row = Rows, NEW was \in BOOLEAN
  PROVE  /\ Stays(s, RedrawCursor(s, was))
         /\ RedrawCursor(s, was).col = s.col /\ RedrawCursor(s, was).row = s.row
<1> DEFINE b == DrawBlock(s)
           t == [b EXCEPT !.drawn = TRUE, !.last = Here(s)]
<1>1. CASE was = FALSE
  <2>1. RedrawCursor(s, was) = s
    BY <1>1 DEF RedrawCursor
  <2>2. QED
    BY <2>1 DEF Stays
<1>2. CASE was = TRUE
  <2>1. RedrawCursor(s, was) = t
    BY <1>2 DEF RedrawCursor
  <2>2. Painted(s, b, Cells \cap {Here(s)}, {Here(s)}) /\ Cursor(s, b)
    BY DrawBlockPaints DEF Quiet
  <2>3. Here(s) \notin Cells /\ Here(s) \in GridCells
    BY Sizes DEF Here, Cells, GridCells, AtOrBelow
  <2>4. t = [b EXCEPT !.drawn = TRUE, !.last = Here(s)]
    OBVIOUS
  <2> HIDE DEF b, t
  <2>5. Shape(b) /\ Frame(s, b)
    BY <2>2 DEF Painted, Typed
  <2>6. /\ Shape(t) /\ Frame(b, t) /\ t.grid = b.grid /\ t.pic = b.pic
        /\ t.last = Here(s) /\ t.drawn = TRUE /\ t.lit = b.lit /\ t.ticks = b.ticks
    BY <2>4, <2>5 DEF Shape, Frame
  <2>7. Painted(s, t, Cells \cap {Here(s)}, {Here(s)})
    BY <2>2, <2>6, PaintedDrawn
  <2>8. /\ t.last \in GridCells \cup {<<-1, -1>>} /\ t.lit \in BOOLEAN
        /\ t.ticks \in 0 .. BlinkPeriod - 1 /\ t.drawn \in BOOLEAN
    BY <2>2, <2>3, <2>6 DEF Quiet, Cursor
  <2>9. \A c \in {Here(s)} : t.drawn = TRUE /\ c = t.last
    BY <2>6
  <2>10. Quiet(t)
    BY <2>7, <2>8, <2>9, QuietPainted
  <2>11. t.utf8 = s.utf8 /\ t.col = s.col /\ t.row = s.row
    BY <2>5, <2>6 DEF Frame
  <2>12. QED
    BY <2>1, <2>10, <2>11 DEF Stays
<1>3. QED
  BY <1>1, <1>2

\* A scroll leaves the screen quiet, with either back end.
LEMMA ScrollOneLineQuiet ==
  ASSUME NEW s, Quiet(s), AtOrBelow(s), s.row = Rows
  PROVE  /\ Stays(s, ScrollOneLine(s))
         /\ ScrollOneLine(s).col = s.col /\ ScrollOneLine(s).row = s.row
<1> DEFINE e == EraseDrawn(s)
<1>1. Quiet(e) /\ e.drawn = FALSE /\ Frame(s, e)
  BY EraseDrawnQuiet
<1>2. Hide(e) = e
  BY <1>1, HideQuiet
<1>3. e.backend = s.backend /\ e.utf8 = s.utf8 /\ e.col = s.col /\ e.row = s.row
  BY <1>1 DEF Frame
<1> HIDE DEF e
<1>4. CASE s.backend = "vga"
  <2> DEFINE t == [ScrollPicture(e) EXCEPT !.forgotten = Cells]
  <2>1. ScrollOneLine(s) = t
    BY <1>2, <1>4 DEF ScrollOneLine, e
  <2>2. PICK x : x = t
    OBVIOUS
  <2> HIDE DEF t
  <2>3. Stays(e, x) /\ x.col = e.col /\ x.row = e.row
    <3>1. x = [ScrollPicture(e) EXCEPT !.forgotten = Cells]
      BY <2>2 DEF t
    <3>2. QED
      BY <1>1, <1>3, <1>4, <3>1, ScrollTextQuiet
  <2>4. QED
    BY <1>3, <2>1, <2>2, <2>3 DEF Stays
<1>5. CASE s.backend # "vga"
  <2> DEFINE t == ScrollGrid(ScrollPicture(e))
  <2>0. s.visible = FALSE /\ s.drawn \in BOOLEAN
    BY DEF Quiet
  <2>1. ScrollOneLine(s) = RedrawCursor(t, s.drawn)
    BY <1>2, <1>5, <2>0 DEF ScrollOneLine, e, ReShow
  <2>2. PICK x : x = t
    OBVIOUS
  <2> HIDE DEF t
  <2>3. Stays(e, x) /\ x.col = e.col /\ x.row = e.row /\ x.drawn = FALSE
    <3>1. x = ScrollGrid(ScrollPicture(e))
      BY <2>2 DEF t
    <3>2. QED
      BY <1>1, <1>3, <1>5, <3>1, ScrollPixelsQuiet
  <2>4. Quiet(x) /\ AtOrBelow(x) /\ x.row = Rows /\ x.utf8 = s.utf8
    BY <1>3, <2>3 DEF Stays, AtOrBelow
  <2>5. /\ Stays(x, RedrawCursor(x, s.drawn))
        /\ RedrawCursor(x, s.drawn).col = x.col /\ RedrawCursor(x, s.drawn).row = x.row
    BY <2>0, <2>3, <2>4, RedrawCursorQuiet
  <2>6. QED
    BY <1>3, <2>1, <2>2, <2>3, <2>4, <2>5 DEF Stays
<1>6. QED
  BY <1>4, <1>5

----------------------------------------------------------------------------
(* Output.                                                                 *)

\* The place of the next character does not matter to what is shown.
Moved(s, x, y) == [s EXCEPT !.col = x, !.row = y]

LEMMA Placed ==
  ASSUME NEW s, Quiet(s), NEW x, NEW y
  PROVE  Stays(s, Moved(s, x, y)) /\ Moved(s, x, y).col = x /\ Moved(s, x, y).row = y
<1>0. PICK t : t = Moved(s, x, y)
  OBVIOUS
<1>1. Shape(s)
  BY DEF Quiet, Typed
<1>2. /\ Shape(t) /\ t.col = x /\ t.row = y /\ t.utf8 = s.utf8
      /\ t.backend = s.backend /\ t.grid = s.grid /\ t.pic = s.pic
      /\ t.forgotten = s.forgotten /\ t.lit = s.lit /\ t.ticks = s.ticks
      /\ t.drawn = s.drawn /\ t.last = s.last /\ t.visible = s.visible
      /\ t.hasOld = s.hasOld /\ t.under = s.under
  BY <1>0, <1>1 DEF Shape, Moved
<1>3. Quiet(t)
  BY <1>2, QuietElsewhere
<1>4. QED
  BY <1>0, <1>2, <1>3 DEF Stays

LEMMA ColumnOnly ==
  ASSUME NEW s, Quiet(s), NEW x
  PROVE  [s EXCEPT !.col = x] = Moved(s, x, s.row)
BY DEF Moved, Quiet, Typed, Shape

\* The steps of the place.
LEMMA NextRowQuiet ==
  ASSUME NEW s, Quiet(s)
  PROVE  Stays(s, NextRow(s)) /\ NextRow(s).col = 0 /\ NextRow(s).row = s.row + 1
<1>1. PICK t : t = NextRow(s)
  OBVIOUS
<1>2. t = Moved(s, 0, s.row + 1)
  BY <1>1 DEF NextRow, Moved
<1>3. Stays(s, t) /\ t.col = 0 /\ t.row = s.row + 1
  BY <1>2, Placed
<1>4. QED
  BY <1>1, <1>3

LEMMA StaysTwice ==
  ASSUME NEW s, NEW t, NEW u, Stays(s, t), Stays(t, u)
  PROVE  Stays(s, u)
BY DEF Stays

\* A cursor below the screen comes back when the screen scrolls.
LEMMA WrapRowQuiet ==
  ASSUME NEW s, Quiet(s), AtOrBelow(s)
  PROVE  Stays(s, WrapRow(s)) /\ At(WrapRow(s))
<1>1. CASE s.row < Rows
  <2>1. WrapRow(s) = s
    BY <1>1 DEF WrapRow
  <2>2. At(s)
    BY <1>1, Sizes DEF At, AtOrBelow
  <2>3. QED
    BY <2>1, <2>2 DEF Stays
<1>2. CASE ~(s.row < Rows)
  <2>1. s.row = Rows
    BY <1>2, Sizes DEF AtOrBelow
  <2>2. PICK u : u = ScrollOneLine(s)
    OBVIOUS
  <2>3. Stays(s, u) /\ u.col = s.col
    BY <2>1, <2>2, ScrollOneLineQuiet
  <2>4. Quiet(u) /\ Shape(u)
    BY <2>3 DEF Stays, Quiet, Typed
  <2>5. PICK t : t = [u EXCEPT !.row = Rows - 1]
    OBVIOUS
  <2>6. t = Moved(u, u.col, Rows - 1)
    BY <2>4, <2>5 DEF Shape, Moved
  <2>7. Stays(u, t) /\ t.col = u.col /\ t.row = Rows - 1
    BY <2>4, <2>6, Placed
  <2>8. At(t)
    BY <2>3, <2>7, Sizes DEF At, AtOrBelow
  <2>9. WrapRow(s) = t
    BY <1>2, <2>2, <2>5 DEF WrapRow
  <2>10. QED
    BY <2>3, <2>7, <2>8, <2>9, StaysTwice
<1>3. QED
  BY <1>1, <1>2

LEMMA AdvanceQuiet ==
  ASSUME NEW s, Quiet(s), s.col \in 0 .. Columns, s.row \in 0 .. Rows,
         s.row = Rows => s.col < Columns
  PROVE  Stays(s, AdvanceAfterDraw(s)) /\ At(AdvanceAfterDraw(s))
<1>1. CASE s.col >= Columns
  <2>1. PICK u : u = NextRow(s)
    OBVIOUS
  <2>2. Stays(s, u) /\ u.col = 0 /\ u.row = s.row + 1
    BY <2>1, NextRowQuiet
  <2>3. AtOrBelow(u) /\ Quiet(u)
    BY <1>1, <2>2, Sizes DEF AtOrBelow, Stays
  <2>4. Stays(u, WrapRow(u)) /\ At(WrapRow(u))
    BY <2>3, WrapRowQuiet
  <2>5. AdvanceAfterDraw(s) = WrapRow(u)
    BY <1>1, <2>1 DEF AdvanceAfterDraw
  <2>6. QED
    BY <2>2, <2>4, <2>5, StaysTwice
<1>2. CASE ~(s.col >= Columns)
  <2>1. AtOrBelow(s)
    BY <1>2, Sizes DEF AtOrBelow
  <2>2. AdvanceAfterDraw(s) = WrapRow(s)
    BY <1>2 DEF AdvanceAfterDraw
  <2>3. QED
    BY <2>1, <2>2, WrapRowQuiet
<1>3. QED
  BY <1>1, <1>2

LEMMA TabStopQuiet ==
  ASSUME NEW s, Quiet(s), At(s)
  PROVE  Stays(s, TabStop(s)) /\ AtOrBelow(TabStop(s))
<1> DEFINE k == (s.col + Tab) \div Tab
           col == k * Tab
<1>1. k \in Nat
  BY Sizes DEF At
<1>2. col \in Nat
  <2> HIDE DEF k
  <2> QED
    BY <1>1, Sizes
<1> HIDE DEF col
<1>3. CASE col >= Columns
  <2>1. TabStop(s) = NextRow(s)
    BY <1>3 DEF TabStop, col
  <2>2. Stays(s, NextRow(s)) /\ NextRow(s).col = 0 /\ NextRow(s).row = s.row + 1
    BY NextRowQuiet
  <2>3. QED
    BY <2>1, <2>2, Sizes DEF At, AtOrBelow
<1>4. CASE ~(col >= Columns)
  <2>1. PICK t : t = Moved(s, col, s.row)
    OBVIOUS
  <2>2. Stays(s, t) /\ t.col = col /\ t.row = s.row
    BY <2>1, Placed
  <2>3. TabStop(s) = [s EXCEPT !.col = col]
    BY <1>4 DEF TabStop, col
  <2>4. TabStop(s) = t
    BY <2>1, <2>3, ColumnOnly
  <2>5. QED
    BY <1>2, <1>4, <2>2, <2>4, Sizes DEF At, AtOrBelow
<1>5. QED
  BY <1>3, <1>4

LEMMA BackspaceQuiet ==
  ASSUME NEW s, Quiet(s), At(s)
  PROVE  Stays(s, Backspace(s)) /\ AtOrBelow(Backspace(s))
<1>1. CASE s.col > 0
  <2>1. PICK t : t = Moved(s, s.col - 1, s.row)
    OBVIOUS
  <2>2. Stays(s, t) /\ t.col = s.col - 1 /\ t.row = s.row
    BY <2>1, Placed
  <2>3. Backspace(s) = [s EXCEPT !.col = s.col - 1]
    BY <1>1 DEF Backspace
  <2>4. Backspace(s) = t
    BY <2>1, <2>3, ColumnOnly
  <2>5. QED
    BY <1>1, <2>2, <2>4, Sizes DEF At, AtOrBelow
<1>2. CASE ~(s.col > 0) /\ s.row > 0
  <2>1. PICK t : t = Moved(s, Columns - 1, s.row - 1)
    OBVIOUS
  <2>2. Stays(s, t) /\ t.col = Columns - 1 /\ t.row = s.row - 1
    BY <2>1, Placed
  <2>3. Backspace(s) = t
    <3>1. Shape(s)
      BY DEF Quiet, Typed
    <3>2. Backspace(s) = [s EXCEPT !.row = s.row - 1, !.col = Columns - 1]
      BY <1>2 DEF Backspace
    <3>3. QED
      BY <2>1, <3>1, <3>2 DEF Shape, Moved
  <2>4. QED
    BY <1>2, <2>2, <2>3, Sizes DEF At, AtOrBelow
<1>3. CASE ~(s.col > 0) /\ ~(s.row > 0)
  <2>1. Backspace(s) = s
    BY <1>3 DEF Backspace
  <2>2. QED
    BY <2>1, Sizes DEF At, AtOrBelow, Stays
<1>4. QED
  BY <1>1, <1>2, <1>3

\* A cell that is written is no longer forgotten, and shows what the grid says.
LEMMA WrittenIs ==
  ASSUME NEW s, Quiet(s), NEW C, NEW w, w = Written(s, C)
  PROVE  /\ Typed(w) /\ w.forgotten = s.forgotten \ C /\ w.under = s.under \ C
         /\ w.grid = s.grid /\ w.pic = s.pic /\ Cursor(s, w) /\ w.col = s.col /\ w.row = s.row
         /\ w.backend = s.backend /\ w.visible = s.visible /\ w.hasOld = s.hasOld
         /\ w.utf8 = s.utf8
BY DEF Quiet, Written, Typed, Shape, Cursor

LEMMA QuietWritten ==
  ASSUME NEW s, Quiet(s), NEW C, NEW w, w = Written(s, C),
         NEW t, NEW D, Painted(w, t, D, {}), Cursor(w, t), Cells \cap C \subseteq D
  PROVE  Stays(s, t) /\ t.col = s.col /\ t.row = s.row
<1>1. /\ Typed(w) /\ w.forgotten = s.forgotten \ C /\ w.under = s.under \ C
      /\ w.grid = s.grid /\ w.pic = s.pic /\ Cursor(s, w) /\ w.col = s.col /\ w.row = s.row
      /\ w.backend = s.backend /\ w.visible = s.visible /\ w.hasOld = s.hasOld
      /\ w.utf8 = s.utf8
  BY WrittenIs
<1>2. Typed(t) /\ Frame(w, t)
  BY DEF Painted
<1>3. /\ t.forgotten = s.forgotten \ C /\ t.under = s.under \ C /\ t.backend = s.backend
      /\ t.visible = FALSE /\ t.hasOld = FALSE /\ t.utf8 = s.utf8
      /\ t.col = s.col /\ t.row = s.row
      /\ t.lit = s.lit /\ t.ticks = s.ticks /\ t.drawn = s.drawn /\ t.last = s.last
  BY <1>1, <1>2 DEF Frame, Cursor, Quiet
<1>4. ASSUME NEW c \in Cells
      PROVE  /\ t.pic[c].arrow = FALSE
             /\ t.pic[c].inverse => c \in t.under \/ (t.drawn /\ c = t.last)
  <2>1. CASE c \in D
    BY <2>1 DEF Painted
  <2>2. CASE c \notin D
    <3>1. c \notin C /\ t.pic[c] = s.pic[c]
      BY <1>1, <2>2 DEF Painted
    <3>2. QED
      BY <1>3, <3>1 DEF Quiet
  <2>3. QED
    BY <2>1, <2>2
<1>5. ASSUME NEW c \in Cells \ (t.forgotten \cup t.under)
      PROVE  Truthful(t.pic[c], t.grid[c], c)
  <2>1. CASE c \in D
    BY <2>1 DEF Painted
  <2>2. CASE c \notin D
    <3>1. c \notin C /\ t.pic[c] = s.pic[c] /\ t.grid[c] = s.grid[c]
      BY <1>1, <2>2 DEF Painted
    <3>2. QED
      BY <1>3, <3>1 DEF Quiet
  <2>3. QED
    BY <2>1, <2>2
<1>6. Quiet(t)
  <2>1. s.backend = "vga" => t.under = {}
    BY <1>3 DEF Quiet
  <2>2. QED
    BY <1>2, <1>3, <1>4, <1>5, <2>1 DEF Quiet
<1>7. QED
  BY <1>3, <1>6 DEF Stays

\* A character is drawn where the next one goes.
LEMMA CharacterQuiet ==
  ASSUME NEW s, Quiet(s), At(s), NEW ch \in Drawable,
         NEW t, t = [DrawCell(Written(s, {Here(s)}), Here(s), ch) EXCEPT !.col = @ + 1]
  PROVE  Stays(s, t) /\ t.col = s.col + 1 /\ t.row = s.row
<1>1. PICK w : w = Written(s, {Here(s)})
  OBVIOUS
<1>2. PICK u : u = DrawCell(w, Here(s), ch)
  OBVIOUS
<1>3. Typed(w)
  BY <1>1, WrittenIs
<1>4. Painted(w, u, Cells \cap {Here(s)}, {}) /\ Cursor(w, u)
  BY <1>2, <1>3, DrawCellPaints
<1>5. Stays(s, u) /\ u.col = s.col /\ u.row = s.row
  BY <1>1, <1>4, QuietWritten
<1>6. Quiet(u)
  BY <1>5 DEF Stays
<1>7. t = [u EXCEPT !.col = u.col + 1]
  BY <1>1, <1>2
<1>8. t = Moved(u, u.col + 1, u.row)
  BY <1>6, <1>7, ColumnOnly
<1>9. Stays(u, t) /\ t.col = u.col + 1 /\ t.row = u.row
  <2>1. PICK x : x = u.col + 1
    OBVIOUS
  <2>2. Stays(u, Moved(u, x, u.row)) /\ Moved(u, x, u.row).col = x /\ Moved(u, x, u.row).row = u.row
    BY <1>6, Placed
  <2>3. QED
    BY <1>8, <2>1, <2>2
<1>10. QED
  BY <1>5, <1>9, StaysTwice

\* A character, or a control character, leaves the screen quiet.
LEMMA EmitAsciiQuiet ==
  ASSUME NEW s, Quiet(s), At(s), NEW ch \in Drawable \cup Controls
  PROVE  Stays(s, EmitAscii(s, ch)) /\ At(EmitAscii(s, ch))
<1>0. ASSUME NEW u, Stays(s, u), u.col \in 0 .. Columns, u.row \in 0 .. Rows,
             u.row = Rows => u.col < Columns, EmitAscii(s, ch) = AdvanceAfterDraw(u)
      PROVE  Stays(s, EmitAscii(s, ch)) /\ At(EmitAscii(s, ch))
  <2>1. Quiet(u)
    BY <1>0 DEF Stays
  <2>2. Stays(u, AdvanceAfterDraw(u)) /\ At(AdvanceAfterDraw(u))
    BY <1>0, <2>1, AdvanceQuiet
  <2>3. QED
    BY <1>0, <2>2, StaysTwice
<1>1. CASE ch = "nl"
  <2>1. EmitAscii(s, ch) = AdvanceAfterDraw(NextRow(s))
    BY <1>1 DEF EmitAscii
  <2>2. Stays(s, NextRow(s)) /\ NextRow(s).col = 0 /\ NextRow(s).row = s.row + 1
    BY NextRowQuiet
  <2>3. NextRow(s).col \in 0 .. Columns /\ NextRow(s).row \in 0 .. Rows /\ NextRow(s).col < Columns
    BY <2>2, Sizes DEF At
  <2>4. QED
    BY <1>0, <2>1, <2>2, <2>3
<1>2. CASE ch = "cr"
  <2>1. PICK t : t = Moved(s, 0, s.row)
    OBVIOUS
  <2>2. Stays(s, t) /\ t.col = 0 /\ t.row = s.row
    BY <2>1, Placed
  <2>3. EmitAscii(s, ch) = AdvanceAfterDraw([s EXCEPT !.col = 0])
    BY <1>2 DEF EmitAscii
  <2>4. EmitAscii(s, ch) = AdvanceAfterDraw(t)
    BY <2>1, <2>3, ColumnOnly
  <2>5. t.col \in 0 .. Columns /\ t.row \in 0 .. Rows /\ t.col < Columns
    BY <2>2, Sizes DEF At
  <2>6. QED
    BY <1>0, <2>2, <2>4, <2>5
<1>3. CASE ch = "tab"
  <2>1. EmitAscii(s, ch) = AdvanceAfterDraw(TabStop(s))
    BY <1>3 DEF EmitAscii
  <2>2. Stays(s, TabStop(s)) /\ AtOrBelow(TabStop(s))
    BY TabStopQuiet
  <2>3. TabStop(s).col \in 0 .. Columns /\ TabStop(s).row \in 0 .. Rows /\ TabStop(s).col < Columns
    BY <2>2, Sizes DEF AtOrBelow
  <2>4. QED
    BY <1>0, <2>1, <2>2, <2>3
<1>4. CASE ch = "bs"
  <2>1. EmitAscii(s, ch) = AdvanceAfterDraw(Backspace(s))
    BY <1>4 DEF EmitAscii
  <2>2. Stays(s, Backspace(s)) /\ AtOrBelow(Backspace(s))
    BY BackspaceQuiet
  <2>3. Backspace(s).col \in 0 .. Columns /\ Backspace(s).row \in 0 .. Rows /\ Backspace(s).col < Columns
    BY <2>2, Sizes DEF AtOrBelow
  <2>4. QED
    BY <1>0, <2>1, <2>2, <2>3
<1>5. CASE ch \in Drawable /\ ch \notin Controls
  <2>1. PICK t : t = [DrawCell(Written(s, {Here(s)}), Here(s), ch) EXCEPT !.col = @ + 1]
    OBVIOUS
  <2>2. Stays(s, t) /\ t.col = s.col + 1 /\ t.row = s.row
    BY <1>5, <2>1, CharacterQuiet
  <2>3. EmitAscii(s, ch) = AdvanceAfterDraw(t)
    BY <1>5, <2>1 DEF EmitAscii, Controls
  <2>4. t.col \in 0 .. Columns /\ t.row \in 0 .. Rows /\ t.row < Rows
    BY <2>2, Sizes DEF At
  <2>5. QED
    BY <1>0, <2>2, <2>3, <2>4, Sizes
<1>6. QED
  BY <1>1, <1>2, <1>3, <1>4, <1>5 DEF Controls

\* A han may be put one row below the screen, where nothing of it shows.
LEMMA PlaceHanQuiet ==
  ASSUME NEW s, Quiet(s), s.col \in 0 .. Columns - 2, s.row \in 0 .. Rows
  PROVE  Stays(s, PlaceHan(s)) /\ PlaceHan(s).col = s.col + 2 /\ PlaceHan(s).row = s.row
<1> DEFINE h == Here(s)
           r == Right(h)
           f == [d \in {h, r} |-> Plain(IF d = h THEN HanLeft ELSE HanRight)]
           n == [d \in {h, r} |-> IF d = h THEN Han ELSE Continue]
<1>0. h = <<s.col, s.row>> /\ r = <<s.col + 1, s.row>> /\ r # h /\ r[1] > 0
  BY Sizes DEF Here, Right
<1>1. PICK w : w = Written(s, {h, r})
  OBVIOUS
<1>2. PICK v : v = DrawHan(w, h)
  OBVIOUS
<1>3. PICK u : u = Note(v, n)
  OBVIOUS
<1>4. Typed(w)
  BY <1>1, WrittenIs
<1>5. /\ Plain(HanLeft) \in Look1 /\ Plain(HanLeft).arrow = FALSE /\ Plain(HanLeft).inverse = FALSE
      /\ Truthful(Plain(HanLeft), Han, h)
  BY HanLeftTrue
<1>6. /\ Plain(HanRight) \in Look1 /\ Plain(HanRight).arrow = FALSE /\ Plain(HanRight).inverse = FALSE
      /\ Truthful(Plain(HanRight), Continue, r)
  BY <1>0, HanRightTrue
<1>7. \A d \in Cells \cap DOMAIN f : f[d] \in Look1
  BY <1>5, <1>6
<1>8. DOMAIN f = {h, r} /\ f[h] = Plain(HanLeft) /\ f[r] = Plain(HanRight)
  BY <1>0
<1>9. v = Paint(w, f)
  BY <1>2 DEF DrawHan
<1>10. \A d \in GridCells \cap DOMAIN n : n[d] \in Codes
  BY DEF Codes
<1>11. DOMAIN n = {h, r} /\ n[h] = Han /\ n[r] = Continue
  BY <1>0
<1> HIDE DEF f, n, h, r
<1>12. /\ Typed(v) /\ Frame(w, v) /\ Cursor(w, v) /\ v.grid = w.grid
       /\ \A d \in Cells : v.pic[d] = IF d \in DOMAIN f THEN f[d] ELSE w.pic[d]
  BY <1>4, <1>7, <1>9, PaintIs
<1>13. /\ Typed(u) /\ Frame(v, u) /\ Cursor(v, u) /\ u.pic = v.pic
       /\ \A d \in GridCells : u.grid[d] = IF d \in DOMAIN n THEN n[d] ELSE v.grid[d]
  BY <1>3, <1>10, <1>12, NoteIs
<1>14. Frame(w, u) /\ Cursor(w, u)
  BY <1>12, <1>13 DEF Frame, Cursor
<1>15. \A d \in Cells : d \in GridCells
  BY CellsInGrid
<1>16. \A d \in Cells \ {h, r} : u.pic[d] = w.pic[d] /\ u.grid[d] = w.grid[d]
  BY <1>8, <1>11, <1>12, <1>13, <1>15
<1>17. h \in Cells => u.pic[h] = Plain(HanLeft) /\ u.grid[h] = Han
  BY <1>8, <1>11, <1>12, <1>13, <1>15
<1>18. r \in Cells => u.pic[r] = Plain(HanRight) /\ u.grid[r] = Continue
  BY <1>8, <1>11, <1>12, <1>13, <1>15
<1>19. Painted(w, u, Cells \cap {h, r}, {})
  BY <1>5, <1>6, <1>13, <1>14, <1>16, <1>17, <1>18 DEF Painted
<1>20. Stays(s, u) /\ u.col = s.col /\ u.row = s.row
  BY <1>1, <1>14, <1>19, QuietWritten
<1>21. Quiet(u)
  BY <1>20 DEF Stays
<1>22. PICK t : t = Moved(u, u.col + 2, u.row)
  OBVIOUS
<1>23. Stays(u, t) /\ t.col = u.col + 2 /\ t.row = u.row
  BY <1>21, <1>22, Placed
<1>24. PlaceHan(s) = [u EXCEPT !.col = u.col + 2]
  BY <1>1, <1>2, <1>3 DEF PlaceHan, h, r, n
<1>25. PlaceHan(s) = t
  BY <1>21, <1>22, <1>24, ColumnOnly
<1>26. QED
  BY <1>20, <1>23, <1>25, StaysTwice

\* A han goes to the next row if this one has no room for it.
LEMMA EmitHanQuiet ==
  ASSUME NEW s, Quiet(s), At(s)
  PROVE  Stays(s, EmitHan(s)) /\ At(EmitHan(s))
<1>1. CASE s.backend # "fb"
  <2>1. EmitHan(s) = EmitAscii(s, "?") /\ "?" \in Drawable \cup Controls
    BY <1>1 DEF EmitHan, Drawable
  <2>2. QED
    BY <2>1, EmitAsciiQuiet
<1>2. CASE s.backend = "fb"
  <2>1. PICK u : u = IF s.col + 2 > Columns THEN NextRow(s) ELSE s
    OBVIOUS
  <2>2. /\ Stays(s, u) /\ u.col \in 0 .. Columns - 2 /\ u.row \in 0 .. Rows
        /\ u.row = Rows => u.col = 0
    <3>1. Stays(s, NextRow(s)) /\ NextRow(s).col = 0 /\ NextRow(s).row = s.row + 1
      BY NextRowQuiet
    <3>2. Stays(s, s)
      BY DEF Stays
    <3>3. QED
      BY <2>1, <3>1, <3>2, Sizes DEF At
  <2>3. PICK v : v = PlaceHan(u)
    OBVIOUS
  <2>4. Quiet(u)
    BY <2>2 DEF Stays
  <2>5. Stays(u, v) /\ v.col = u.col + 2 /\ v.row = u.row
    BY <2>2, <2>3, <2>4, PlaceHanQuiet
  <2>6. Quiet(v) /\ v.col \in 0 .. Columns /\ v.row \in 0 .. Rows /\ (v.row = Rows => v.col < Columns)
    BY <2>2, <2>5, Sizes DEF Stays
  <2>7. Stays(v, AdvanceAfterDraw(v)) /\ At(AdvanceAfterDraw(v))
    BY <2>6, AdvanceQuiet
  <2>8. EmitHan(s) = AdvanceAfterDraw(v)
    BY <1>2, <2>1, <2>3 DEF EmitHan
  <2>9. QED
    BY <2>2, <2>5, <2>7, <2>8, StaysTwice
<1>3. QED
  BY <1>1, <1>2

\* A sequence of bytes that is begun waits for others.
Whole(buf) == buf \in Seq(Bytes) /\ (buf # <<>> => buf[1] \in Leads /\ Len(buf) < Need[buf[1]])
Steady(s) == Quiet(s) /\ At(s) /\ Whole(s.utf8)

\* The bytes put together do not matter to what is shown.
Gathered(s, buf) == [s EXCEPT !.utf8 = buf]

LEMMA GatheredQuiet ==
  ASSUME NEW s, Quiet(s), At(s), NEW buf
  PROVE  /\ Quiet(Gathered(s, buf)) /\ At(Gathered(s, buf)) /\ Gathered(s, buf).utf8 = buf
<1>0. PICK t : t = Gathered(s, buf)
  OBVIOUS
<1>1. Shape(s)
  BY DEF Quiet, Typed
<1>2. /\ Shape(t) /\ t.col = s.col /\ t.row = s.row /\ t.utf8 = buf
      /\ t.backend = s.backend /\ t.grid = s.grid /\ t.pic = s.pic
      /\ t.forgotten = s.forgotten /\ t.lit = s.lit /\ t.ticks = s.ticks
      /\ t.drawn = s.drawn /\ t.last = s.last /\ t.visible = s.visible
      /\ t.hasOld = s.hasOld /\ t.under = s.under
  BY <1>0, <1>1 DEF Shape, Gathered
<1>3. Quiet(t)
  BY <1>2, QuietElsewhere
<1>4. QED
  BY <1>0, <1>2, <1>3 DEF At

LEMMA NoBytes == Whole(<<>>)
BY DEF Whole

LEMMA EmittedSteady ==
  ASSUME NEW s, Whole(s.utf8), NEW t, Stays(s, t), At(t)
  PROVE  Steady(t)
BY DEF Stays, Steady

LEMMA Leading == Leads = {"lead3", "lead2", "long2"}
BY DEF Leads, Need

LEMMA EmitCodepointSteady ==
  ASSUME NEW s, Quiet(s), At(s), Whole(s.utf8), NEW lead \in Leads
  PROVE  Steady(EmitCodepoint(s, lead))
<1>0. "?" \in Drawable \cup Controls /\ "a" \in Drawable \cup Controls
  BY DEF Drawable
<1>1. CASE lead = "lead3"
  <2>1. EmitCodepoint(s, lead) = EmitHan(s)
    BY <1>1 DEF EmitCodepoint
  <2>2. QED
    BY <2>1, EmitHanQuiet, EmittedSteady
<1>2. CASE lead = "lead2"
  <2>1. EmitCodepoint(s, lead) = EmitAscii(s, "?")
    BY <1>2 DEF EmitCodepoint
  <2>2. QED
    BY <1>0, <2>1, EmitAsciiQuiet, EmittedSteady
<1>3. CASE lead = "long2"
  <2>1. EmitCodepoint(s, lead) = EmitAscii(s, "a")
    BY <1>3 DEF EmitCodepoint
  <2>2. QED
    BY <1>0, <2>1, EmitAsciiQuiet, EmittedSteady
<1>4. QED
  BY <1>1, <1>2, <1>3, Leading

\* What is not legal where it is prints a question mark and nothing else.
LEMMA BrokenSteady ==
  ASSUME NEW s, Steady(s)
  PROVE  Steady(Broken(s))
<1>1. PICK t : t = Gathered(s, <<>>)
  OBVIOUS
<1>2. Quiet(t) /\ At(t) /\ t.utf8 = <<>>
  BY <1>1, GatheredQuiet DEF Steady
<1>3. Broken(s) = EmitAscii(t, "?") /\ "?" \in Drawable \cup Controls
  BY <1>1 DEF Broken, Gathered, Drawable
<1>4. QED
  BY <1>2, <1>3, NoBytes, EmitAsciiQuiet, EmittedSteady

\* A byte is put with those that came before, or makes a code point.
LEMMA GatherSteady ==
  ASSUME NEW s, Steady(s), NEW b \in Bytes,
         s.utf8 = <<>> => b \in Leads
  PROVE  Steady(Gather(s, b))
<1>1. PICK buf : buf = Append(s.utf8, b)
  OBVIOUS
<1>2. buf \in Seq(Bytes) /\ buf # <<>> /\ buf[1] \in Leads
  BY <1>1 DEF Steady, Whole
<1>3. CASE Len(buf) < Need[buf[1]]
  <2>1. PICK t : t = Gathered(s, buf)
    OBVIOUS
  <2>2. Quiet(t) /\ At(t) /\ t.utf8 = buf
    BY <2>1, GatheredQuiet DEF Steady
  <2>3. Gather(s, b) = t
    BY <1>1, <1>3, <2>1 DEF Gather, Gathered
  <2>4. QED
    BY <1>2, <1>3, <2>2, <2>3 DEF Steady, Whole
<1>4. CASE ~(Len(buf) < Need[buf[1]])
  <2>1. PICK t : t = Gathered(s, <<>>)
    OBVIOUS
  <2>2. Quiet(t) /\ At(t) /\ t.utf8 = <<>>
    BY <2>1, GatheredQuiet DEF Steady
  <2>3. Gather(s, b) = EmitCodepoint(t, buf[1])
    BY <1>1, <1>4, <2>1 DEF Gather, Gathered
  <2>4. QED
    BY <1>2, <2>2, <2>3, NoBytes, EmitCodepointSteady
<1>5. QED
  BY <1>3, <1>4

\* The cursor is drawn where the next character goes.
LEMMA CursorMovedSteady ==
  ASSUME NEW s, Steady(s)
  PROVE  Steady(CursorMoved(s))
<1>1. PICK u : u = [s EXCEPT !.ticks = 0, !.lit = TRUE]
  OBVIOUS
<1>2. Shape(s) /\ Typed(s)
  BY DEF Steady, Quiet, Typed
<1>3. /\ Shape(u) /\ Frame(s, u) /\ u.grid = s.grid /\ u.pic = s.pic
      /\ u.ticks = 0 /\ u.lit = TRUE /\ u.drawn = s.drawn /\ u.last = s.last
  BY <1>1, <1>2 DEF Shape, Frame
<1>4. Typed(u)
  BY <1>2, <1>3 DEF Typed
<1>5. PICK t : t = SetCursorVisible(u, TRUE)
  OBVIOUS
<1>6. PICK C : /\ Painted(u, t, C, {Here(u)}) /\ t.last = Here(u) /\ t.drawn = TRUE
               /\ t.lit = u.lit /\ t.ticks = u.ticks /\ (u.last \in Cells => u.last \in C)
  <2>1. PICK v \in BOOLEAN : v = TRUE
    OBVIOUS
  <2>2. \E C : /\ Painted(u, SetCursorVisible(u, v), C, IF v THEN {Here(u)} ELSE {})
               /\ SetCursorVisible(u, v).last = Here(u) /\ SetCursorVisible(u, v).drawn = v
               /\ SetCursorVisible(u, v).lit = u.lit /\ SetCursorVisible(u, v).ticks = u.ticks
               /\ u.last \in Cells => u.last \in C
    BY <1>4, SetCursorVisiblePaints
  <2>3. QED
    BY <1>5, <2>1, <2>2
<1>7. CursorMoved(s) = t
  BY <1>1, <1>5 DEF CursorMoved
<1>8. Here(u) \in Cells /\ Here(u) \in GridCells
  <2>1. Here(u) \in Cells
    BY <1>3 DEF Steady, At, Here, Cells, Frame
  <2>2. QED
    BY <2>1, CellsInGrid
<1>9. Painted(s, t, C, {Here(u)})
  <2>1. Typed(t) /\ Frame(s, t) /\ C \subseteq Cells
    BY <1>3, <1>6 DEF Painted, Frame
  <2>2. QED
    BY <1>3, <1>6, <2>1 DEF Painted
<1>10. /\ t.drawn \in BOOLEAN /\ t.lit \in BOOLEAN /\ t.ticks \in 0 .. BlinkPeriod - 1
       /\ t.last \in GridCells \cup {<<-1, -1>>}
       /\ \A c \in {Here(u)} : t.drawn = TRUE /\ c = t.last
       /\ s.drawn = TRUE /\ s.last \in Cells => s.last \in C
  <2>1. t.lit = TRUE /\ t.ticks = 0 /\ t.last = Here(u) /\ t.drawn = TRUE
    BY <1>3, <1>6
  <2>2. s.last \in Cells => s.last \in C
    BY <1>3, <1>6
  <2>3. 0 \in 0 .. BlinkPeriod - 1
    BY Sizes
  <2>4. QED
    BY <1>8, <2>1, <2>2, <2>3
<1>11. Quiet(t)
  BY <1>9, <1>10, QuietPainted DEF Steady
<1>12. At(t) /\ Whole(t.utf8)
  BY <1>9 DEF Painted, Frame, Steady, At
<1>13. QED
  BY <1>7, <1>11, <1>12 DEF Steady

\* Whatever byte comes, the screen stays steady.
LEMMA PutcSteady ==
  ASSUME NEW s, Steady(s), NEW b \in Bytes
  PROVE  Steady(Putc(s, b))
<1>0. Whole(s.utf8) /\ Quiet(s) /\ At(s)
  BY DEF Steady
<1>1. CASE s.utf8 = <<>> /\ Ascii(b)
  <2>1. b \in Drawable \cup Controls
    BY <1>1 DEF Bytes, Ascii
  <2>2. Steady(EmitAscii(s, b))
    BY <1>0, <2>1, EmitAsciiQuiet, EmittedSteady
  <2>3. Putc(s, b) = CursorMoved(EmitAscii(s, b))
    BY <1>1 DEF Putc, Ascii
  <2>4. QED
    BY <2>2, <2>3, CursorMovedSteady
<1>2. CASE s.utf8 = <<>> /\ b \in Leads
  <2>1. Steady(Gather(s, b))
    BY <1>2, GatherSteady
  <2>2. Putc(s, b) = CursorMoved(Gather(s, b))
    BY <1>2 DEF Putc, Ascii
  <2>3. QED
    BY <2>1, <2>2, CursorMovedSteady
<1>3. CASE s.utf8 = <<>> /\ ~Ascii(b) /\ b \notin Leads
  <2>1. Putc(s, b) = Broken(s)
    BY <1>3 DEF Putc
  <2>2. QED
    BY <2>1, BrokenSteady
<1>4. CASE s.utf8 # <<>> /\ b = Follow
  <2>1. Steady(Gather(s, b))
    BY <1>4, GatherSteady
  <2>2. Putc(s, b) = CursorMoved(Gather(s, b))
    BY <1>4 DEF Putc
  <2>3. QED
    BY <2>1, <2>2, CursorMovedSteady
<1>5. CASE s.utf8 # <<>> /\ b # Follow
  <2>1. Putc(s, b) = Broken(s)
    BY <1>5 DEF Putc
  <2>2. QED
    BY <2>1, BrokenSteady
<1>6. QED
  BY <1>1, <1>2, <1>3, <1>4, <1>5

----------------------------------------------------------------------------
(* A text is printed byte by byte.                                         *)

\* The screen after the bytes at each set of places of the text.
PutRound(s, text, it, D) ==
  IF D = {} THEN s ELSE Putc(it[D \ {Max(D)}], text[Max(D)])
PutTable(s, text, n, it) == [D \in SUBSET (1 .. n) |-> PutRound(s, text, it, D)]

\* Such a table exists for every text.
LEMMA PutTableExists ==
  ASSUME NEW n \in Nat, NEW s, NEW text
  PROVE  \E it : it = PutTable(s, text, n, it)
<1> DEFINE I == 1 .. n
           Q == {k \in Nat : \E it : \A D \in SUBSET I :
                   Cardinality(D) <= k => it[D] = PutRound(s, text, it, D)}
<1>0. IsFiniteSet(I)
  BY FS_Interval
<1>1. \A D \in SUBSET I : IsFiniteSet(D) /\ Cardinality(D) \in Nat /\ Cardinality(D) <= Cardinality(I)
  BY <1>0, FS_Subset, FS_CardinalityType
<1>2. \A D \in SUBSET I : D # {} => /\ D \ {Max(D)} \in SUBSET I
                                    /\ Cardinality(D \ {Max(D)}) = Cardinality(D) - 1
  BY <1>1, FS_RemoveElement, MaxOfIndices
<1> HIDE DEF I
<1>3. 0 \in Q
  <2> DEFINE it == [D \in SUBSET I |-> s]
  <2>1. \A D \in SUBSET I : Cardinality(D) <= 0 => D = {}
    BY <1>1, FS_EmptySet
  <2>2. \A D \in SUBSET I : Cardinality(D) <= 0 => it[D] = PutRound(s, text, it, D)
    BY <2>1 DEF PutRound
  <2>3. QED
    BY <2>2
<1>4. ASSUME NEW k \in Nat, k \in Q PROVE k + 1 \in Q
  <2>1. PICK it : \A D \in SUBSET I : Cardinality(D) <= k => it[D] = PutRound(s, text, it, D)
    BY <1>4
  <2> DEFINE h == [D \in SUBSET I |-> IF Cardinality(D) <= k THEN it[D]
                                      ELSE PutRound(s, text, it, D)]
  <2>2. ASSUME NEW D \in SUBSET I, Cardinality(D) <= k + 1
        PROVE  h[D] = PutRound(s, text, h, D)
    <3>1. h[D] = PutRound(s, text, it, D)
      BY <2>1
    <3>2. D # {} => h[D \ {Max(D)}] = it[D \ {Max(D)}]
      BY <1>1, <1>2, <2>2
    <3>3. QED
      BY <3>1, <3>2 DEF PutRound
  <2>3. QED
    <3> HIDE DEF h
    <3> QED
      BY <2>2
<1>5. Cardinality(I) \in Q
  <2>1. Nat \subseteq Q
    <3> HIDE DEF Q
    <3> QED
      BY <1>3, <1>4, NatInd
  <2>2. QED
    BY <2>1, <1>0, FS_CardinalityType
<1>6. PICK it : \A D \in SUBSET I : it[D] = PutRound(s, text, it, D)
  BY <1>1, <1>5
<1> DEFINE t == [D \in SUBSET I |-> it[D]]
<1>7. t = [D \in SUBSET I |-> PutRound(s, text, t, D)]
  <2>1. ASSUME NEW D \in SUBSET I PROVE t[D] = PutRound(s, text, t, D)
    BY <1>2, <1>6 DEF PutRound
  <2>2. QED
    BY <2>1
<1>8. QED
  <2> HIDE DEF t
  <2> QED
    BY <1>7 DEF I, PutTable

\* A text of any length leaves the screen steady.
LEMMA TextSteady ==
  ASSUME NEW s, Steady(s), NEW text \in Seq(Bytes)
  PROVE  Steady(FoldLeft(Putc, s, text))
<1> DEFINE n == Len(text)
           F == CHOOSE it : it = PutTable(s, text, n, it)
           P == {D \in SUBSET (1 .. n) : Steady(F[D])}
<1>0. n \in Nat /\ DOMAIN text = 1 .. n /\ \A i \in 1 .. n : text[i] \in Bytes
  OBVIOUS
<1>1. F = PutTable(s, text, n, F)
  <2> HIDE DEF n
  <2>1. \E it : it = PutTable(s, text, n, it)
    BY <1>0, PutTableExists
  <2>2. QED
    BY <2>1
<1>2. FoldLeft(Putc, s, text) = F[DOMAIN text]
  <2>1. F = CHOOSE it : it = [D \in SUBSET (1 .. n) |-> IF D = {} THEN s
                                ELSE Putc(it[D \ {Max(D)}], text[Max(D)])]
    BY DEF PutTable, PutRound
  <2> HIDE DEF F
  <2>2. QED
    BY <1>0, <2>1, Zenon DEF FoldLeft, MapThenFoldSet
<1> HIDE DEF F
<1>3. \A D \in SUBSET (1 .. n) : F[D] = PutRound(s, text, F, D)
  BY <1>1 DEF PutTable
<1>4. IsFiniteSet(1 .. n)
  BY <1>0, FS_Interval
<1>5. ASSUME NEW D \in SUBSET (1 .. n), \A x \in D : D \ {x} \in P PROVE D \in P
  <2>1. CASE D = {}
    BY <1>3, <2>1 DEF PutRound
  <2>2. CASE D # {}
    <3>1. Max(D) \in D
      BY <1>0, <2>2, MaxOfIndices
    <3>2. Steady(F[D \ {Max(D)}]) /\ text[Max(D)] \in Bytes
      BY <1>0, <1>5, <3>1
    <3>3. Steady(Putc(F[D \ {Max(D)}], text[Max(D)]))
      BY <3>2, PutcSteady
    <3>4. F[D] = Putc(F[D \ {Max(D)}], text[Max(D)])
      BY <1>3, <2>2 DEF PutRound
    <3>5. QED
      BY <3>3, <3>4
  <2>3. QED
    BY <2>1, <2>2
<1>6. SUBSET (1 .. n) \subseteq P
  <2> HIDE DEF P, n
  <2> QED
    BY <1>4, <1>5, FiniteInd
<1>7. QED
  BY <1>0, <1>2, <1>6

----------------------------------------------------------------------------
(* The pointer.                                                            *)

\* What holds of a screen between two steps: hiding the pointer gives a screen
\* that is steady, and the pointer is whole but where the cursor blinked.
Sane(s) ==
  /\ Typed(s) /\ Steady(Hide(s)) /\ s.visible \in BOOLEAN /\ s.hasOld = s.visible
  /\ s.visible = FALSE => \A c \in Cells : s.pic[c].arrow = FALSE
  /\ s.visible = TRUE =>
       /\ s.backend = "fb" /\ s.backup \in [Pointer(s.at) -> Look1]
       /\ \A c \in Cells : s.pic[c].arrow => c \in Pointer(s.at)
       /\ \A c \in Pointer(s.at) : ~s.pic[c].arrow => c \in s.under

LEMMA PointerInCells ==
  ASSUME NEW at
  PROVE  Pointer(at) \subseteq Cells
BY DEF Pointer

\* Hiding the pointer puts back what it covered.
Uncovered(s, t) ==
  /\ Typed(t) /\ t.visible = FALSE /\ t.hasOld = FALSE /\ t.grid = s.grid
  /\ t.backend = s.backend /\ t.forgotten = s.forgotten /\ t.under = s.under
  /\ t.utf8 = s.utf8 /\ t.at = s.at /\ t.backup = s.backup /\ t.col = s.col /\ t.row = s.row
  /\ Cursor(s, t)
  /\ \A c \in Cells : t.pic[c] = IF c \in Pointer(s.at) THEN s.backup[c] ELSE s.pic[c]

LEMMA HideIs ==
  ASSUME NEW s, Typed(s), s.visible = TRUE, s.hasOld = TRUE,
         s.backup \in [Pointer(s.at) -> Look1]
  PROVE  Uncovered(s, Hide(s))
<1>0. PICK t : t = Hide(s)
  OBVIOUS
<1>1. PICK r : r = RestoreBackup(s)
  OBVIOUS
<1>2. \A c \in Cells \cap DOMAIN s.backup : s.backup[c] \in Look1
  OBVIOUS
<1>3. /\ Typed(r) /\ Frame(s, r) /\ Cursor(s, r) /\ r.grid = s.grid
      /\ \A c \in Cells : r.pic[c] = IF c \in DOMAIN s.backup THEN s.backup[c] ELSE s.pic[c]
  BY <1>1, <1>2, PaintIs DEF RestoreBackup
<1>4. t = [r EXCEPT !.visible = FALSE, !.hasOld = FALSE]
  BY <1>0, <1>1 DEF Hide
<1>5. Shape(r)
  BY <1>3 DEF Typed
<1>6. /\ Shape(t) /\ t.visible = FALSE /\ t.hasOld = FALSE /\ t.grid = r.grid /\ t.pic = r.pic
      /\ t.backend = r.backend /\ t.forgotten = r.forgotten /\ t.under = r.under
      /\ t.utf8 = r.utf8 /\ t.at = r.at /\ t.backup = r.backup /\ t.col = r.col /\ t.row = r.row
      /\ Cursor(r, t)
  BY <1>4, <1>5 DEF Shape, Cursor
<1>7. Typed(t)
  BY <1>3, <1>6 DEF Typed
<1>8. DOMAIN s.backup = Pointer(s.at)
  OBVIOUS
<1>9. \A c \in Cells : t.pic[c] = IF c \in Pointer(s.at) THEN s.backup[c] ELSE s.pic[c]
  BY <1>3, <1>6, <1>8
<1>10. QED
  BY <1>0, <1>3, <1>6, <1>7, <1>9 DEF Frame, Cursor, Uncovered

\* Drawn on a steady screen the pointer is whole, and hiding it undoes that.
LEMMA DrawPointerSane ==
  ASSUME NEW h, Steady(h), h.backend = "fb", NEW at
  PROVE  Sane(DrawPointer(h, at))
<1> DEFINE b == [c \in Pointer(at) |-> h.pic[c]]
           p == [c \in Cells |-> IF c \in Pointer(at) THEN [h.pic[c] EXCEPT !.arrow = TRUE]
                                 ELSE h.pic[c]]
<1>0. PICK t : t = DrawPointer(h, at)
  OBVIOUS
<1>1. Quiet(h) /\ Typed(h) /\ Shape(h) /\ h.pic \in [Cells -> Look1]
  BY DEF Steady, Quiet, Typed
<1>2. b \in [Pointer(at) -> Look1]
  BY <1>1, PointerInCells
<1>3. p \in [Cells -> Look1]
  BY <1>1 DEF Look1
<1>4. \A c \in Cells : /\ c \in Pointer(at) => p[c].arrow = TRUE
                       /\ c \notin Pointer(at) => p[c] = h.pic[c] /\ p[c].arrow = FALSE
  BY <1>1 DEF Look1, Quiet
<1>5. t = [h EXCEPT !.at = at, !.visible = TRUE, !.hasOld = TRUE, !.backup = b, !.pic = p]
  BY <1>0 DEF DrawPointer
<1>6. \A c \in Pointer(at) : b[c] = h.pic[c]
  OBVIOUS
<1> HIDE DEF b, p
<1>7. /\ Shape(t) /\ t.visible = TRUE /\ t.hasOld = TRUE /\ t.grid = h.grid /\ t.pic = p
      /\ t.backend = h.backend /\ t.forgotten = h.forgotten /\ t.under = h.under
      /\ t.utf8 = h.utf8 /\ t.at = at /\ t.backup = b /\ t.col = h.col /\ t.row = h.row
      /\ Cursor(h, t)
  BY <1>1, <1>5 DEF Shape, Cursor
<1>8. Typed(t)
  BY <1>1, <1>3, <1>7 DEF Typed
<1>9. PICK k : k = Hide(t)
  OBVIOUS
<1>10. Uncovered(t, k)
  <2>1. t.backup \in [Pointer(t.at) -> Look1]
    BY <1>2, <1>7
  <2>2. QED
    BY <1>7, <1>8, <1>9, <2>1, HideIs
<1>11. k.pic = h.pic
  <2>1. \A c \in Cells : k.pic[c] = h.pic[c]
    BY <1>4, <1>6, <1>7, <1>10 DEF Uncovered
  <2>2. k.pic \in [Cells -> Look1]
    BY <1>10 DEF Typed, Uncovered
  <2>3. QED
    BY <1>1, <2>1, <2>2
<1>12. /\ Shape(k) /\ k.backend = h.backend /\ k.grid = h.grid /\ k.forgotten = h.forgotten
       /\ k.lit = h.lit /\ k.ticks = h.ticks /\ k.drawn = h.drawn /\ k.last = h.last
       /\ k.visible = h.visible /\ k.hasOld = h.hasOld /\ k.under = h.under
       /\ k.col = h.col /\ k.row = h.row /\ k.utf8 = h.utf8
  BY <1>1, <1>7, <1>10 DEF Cursor, Typed, Quiet, Uncovered
<1>13. Quiet(k)
  BY <1>1, <1>11, <1>12, QuietElsewhere
<1>14. Steady(Hide(t))
  BY <1>9, <1>12, <1>13 DEF Steady, At
<1>15. QED
  <2>1. \A c \in Cells : t.pic[c].arrow => c \in Pointer(t.at)
    BY <1>4, <1>7
  <2>2. \A c \in Pointer(t.at) : ~t.pic[c].arrow => c \in t.under
    BY <1>4, <1>7, PointerInCells
  <2>3. t.backend = "fb" /\ t.backup \in [Pointer(t.at) -> Look1]
    BY <1>2, <1>7
  <2>4. Sane(t)
    BY <1>7, <1>8, <1>14, <2>1, <2>2, <2>3 DEF Sane
  <2>5. QED
    BY <1>0, <2>4

\* A screen without the pointer, and what the hiding of a sane screen leaves.
LEMMA InvalidateSteady ==
  ASSUME NEW s, Steady(s)
  PROVE  Invalidate(s) = s /\ Hide(s) = s
<1>1. Quiet(s) /\ Shape(s) /\ s.visible = FALSE /\ s.hasOld = FALSE
  BY DEF Steady, Quiet, Typed
<1>2. Hide(s) = s
  BY <1>1, HideQuiet
<1>3. Invalidate(s) = s
  BY <1>1 DEF Invalidate, Shape
<1>4. QED
  BY <1>2, <1>3

\* A pointer that is shown on a steady screen.
LEMMA ShowSane ==
  ASSUME NEW s, Steady(s)
  PROVE  Sane(Show(s))
<1>1. Quiet(s) /\ s.visible = FALSE /\ s.hasOld = FALSE /\ Typed(s)
      /\ \A c \in Cells : s.pic[c].arrow = FALSE
  BY DEF Steady, Quiet
<1>2. Invalidate(s) = s /\ Hide(s) = s
  BY InvalidateSteady
<1>3. CASE s.backend = "fb"
  <2>1. Show(s) = MoveTo(s, s.at)
    BY <1>1, <1>2, <1>3 DEF Show, Available
  <2>2. PICK at : at = <<Clamp(s.at[1], Columns - PointerW), Clamp(s.at[2], Rows - PointerH)>>
    OBVIOUS
  <2>3. Show(s) = DrawPointer(s, at)
    BY <1>2, <1>3, <2>1, <2>2 DEF MoveTo, Available
  <2>4. QED
    BY <1>3, <2>3, DrawPointerSane
<1>4. CASE s.backend # "fb"
  <2>1. Show(s) = s
    BY <1>4 DEF Show, Available
  <2>2. QED
    BY <1>1, <1>2, <2>1 DEF Sane
<1>5. QED
  BY <1>3, <1>4

\* A pointer that is moved is taken from where it was first.
LEMMA MoveToSane ==
  ASSUME NEW s, Sane(s), NEW to
  PROVE  Sane(MoveTo(s, to))
<1>1. CASE s.backend = "fb"
  <2>1. PICK h : h = Hide(s)
    OBVIOUS
  <2>2. Steady(h)
    BY <2>1 DEF Sane
  <2>3. h.backend = s.backend
    <3>1. CASE s.visible = TRUE
      <4>1. Uncovered(s, h)
        BY <2>1, <3>1, HideIs DEF Sane
      <4>2. QED
        BY <4>1 DEF Uncovered
    <3>2. CASE s.visible = FALSE
      BY <2>1, <3>2 DEF Hide
    <3>3. QED
      BY <3>1, <3>2 DEF Sane
  <2>4. PICK at : at = <<Clamp(to[1], Columns - PointerW), Clamp(to[2], Rows - PointerH)>>
    OBVIOUS
  <2>5. MoveTo(s, to) = DrawPointer(h, at)
    BY <1>1, <2>1, <2>4 DEF MoveTo, Available
  <2>6. QED
    BY <1>1, <2>2, <2>3, <2>5, DrawPointerSane
<1>2. CASE s.backend # "fb"
  <2>1. MoveTo(s, to) = s
    BY <1>2 DEF MoveTo, Available
  <2>2. QED
    BY <2>1
<1>3. QED
  BY <1>1, <1>2

----------------------------------------------------------------------------
(* The steps.                                                              *)

\* A clear leaves what the pointer covered: hiding it brings that back.
LEMMA ClearSane ==
  ASSUME NEW s, Sane(s)
  PROVE  Sane(Show(Hide(ClearScreen(s))))
<1> DEFINE p == [c \in Cells |-> Plain(" ")]
<1>0. PICK u : u = ClearScreen(s)
  OBVIOUS
<1>1. PICK h : h = Hide(s)
  OBVIOUS
<1>2. PICK t : t = Hide(u)
  OBVIOUS
<1>3. Typed(s) /\ Shape(s) /\ Steady(h) /\ Quiet(h)
  BY <1>1 DEF Sane, Steady, Typed
<1>4. p \in [Cells -> Look1] /\ \A c \in Cells : p[c].arrow = FALSE /\ ~p[c].inverse
  BY BlanksTrue
<1>5. u = [s EXCEPT !.pic = p, !.col = 0, !.row = 0, !.forgotten = Cells]
  BY <1>0 DEF ClearScreen
<1> HIDE DEF p
<1>6. /\ Shape(u) /\ u.pic = p /\ u.grid = s.grid /\ u.col = 0 /\ u.row = 0 /\ u.forgotten = Cells
      /\ u.backend = s.backend /\ u.under = s.under /\ u.utf8 = s.utf8 /\ u.at = s.at
      /\ u.backup = s.backup /\ u.visible = s.visible /\ u.hasOld = s.hasOld /\ Cursor(s, u)
  BY <1>3, <1>5 DEF Shape, Cursor
<1>7. Typed(u)
  BY <1>3, <1>4, <1>6 DEF Typed
<1>8. /\ Typed(t) /\ t.visible = FALSE /\ t.hasOld = FALSE /\ t.forgotten = Cells
      /\ t.col = 0 /\ t.row = 0 /\ t.utf8 = h.utf8 /\ t.backend = h.backend /\ t.under = h.under
      /\ Cursor(h, t)
      /\ \A c \in Cells : t.pic[c] = p[c] \/ t.pic[c] = h.pic[c]
  <2>1. CASE s.visible = TRUE
    <3>1. s.hasOld = TRUE /\ s.backup \in [Pointer(s.at) -> Look1]
      BY <2>1 DEF Sane
    <3>2. Uncovered(s, h)
      BY <1>1, <1>3, <2>1, <3>1, HideIs DEF Sane
    <3>3. Uncovered(u, t)
      <4>1. u.visible = TRUE /\ u.hasOld = TRUE /\ u.backup \in [Pointer(u.at) -> Look1]
        BY <1>6, <2>1, <3>1
      <4>2. QED
        BY <1>2, <1>7, <4>1, HideIs
    <3>4. \A c \in Cells : t.pic[c] = p[c] \/ t.pic[c] = h.pic[c]
      BY <1>6, <3>2, <3>3 DEF Uncovered
    <3>5. QED
      BY <1>6, <3>2, <3>3, <3>4 DEF Cursor, Uncovered
  <2>2. CASE s.visible = FALSE
    <3>1. h = s /\ t = u /\ s.hasOld = FALSE
      BY <1>1, <1>2, <1>6, <2>2 DEF Hide, Sane
    <3>2. QED
      BY <1>6, <1>7, <2>2, <3>1
  <2>3. QED
    BY <2>1, <2>2 DEF Sane
<1>9. \A c \in Cells : /\ t.pic[c].arrow = FALSE
                       /\ t.pic[c].inverse => c \in t.under \/ (t.drawn /\ c = t.last)
  BY <1>3, <1>4, <1>8 DEF Quiet, Cursor
<1>10. Quiet(t)
  BY <1>3, <1>8, <1>9 DEF Quiet, Cursor
<1>11. At(t) /\ Whole(t.utf8)
  BY <1>3, <1>8, Sizes DEF At, Steady
<1>12. Steady(t)
  BY <1>10, <1>11 DEF Steady
<1>13. QED
  BY <1>0, <1>2, <1>12, ShowSane

\* A sane screen and what is under the pointer: they differ below it only.
Beneath(s, h) ==
  /\ Steady(h) /\ Quiet(h) /\ h.grid = s.grid /\ h.backend = s.backend
  /\ h.forgotten = s.forgotten /\ h.under = s.under /\ h.utf8 = s.utf8
  /\ h.col = s.col /\ h.row = s.row /\ Cursor(s, h)
  /\ \A c \in Cells :
       IF s.visible = TRUE /\ c \in Pointer(s.at) THEN h.pic[c] = s.backup[c]
       ELSE h.pic[c] = s.pic[c]

LEMMA SaneBeneath ==
  ASSUME NEW s, Sane(s)
  PROVE  Beneath(s, Hide(s))
<1>0. PICK h : h = Hide(s)
  OBVIOUS
<1>1. Steady(h) /\ Quiet(h)
  BY <1>0 DEF Sane, Steady
<1>2. CASE s.visible = TRUE
  <2>1. Uncovered(s, h)
    BY <1>0, <1>2, HideIs DEF Sane
  <2>2. QED
    BY <1>0, <1>1, <1>2, <2>1 DEF Uncovered, Beneath
<1>3. CASE s.visible = FALSE
  <2>1. h = s
    BY <1>0, <1>3 DEF Hide
  <2>2. QED
    BY <1>0, <1>1, <1>3, <2>1 DEF Beneath, Cursor
<1>4. QED
  BY <1>2, <1>3 DEF Sane

\* The cursor is drawn without hiding the pointer: the cells below it are noted.
LEMMA BlinkedSane ==
  ASSUME NEW s, Sane(s), NEW b, NEW C, NEW B, Painted(s, b, C, B),
         b.drawn \in BOOLEAN, b.lit \in BOOLEAN, b.ticks \in 0 .. BlinkPeriod - 1,
         b.last \in GridCells \cup {<<-1, -1>>},
         \A c \in B : b.drawn = TRUE /\ c = b.last,
         s.drawn = TRUE /\ s.last \in Cells =>
           s.last \in C \/ (b.drawn = TRUE /\ b.last = s.last)
  PROVE  Sane(NoteUnder(s, b))
<1> DEFINE U == s.under \cup {c \in Cells : s.pic[c].arrow /\ ~b.pic[c].arrow}
<1>0. PICK h, t, k : h = Hide(s) /\ t = NoteUnder(s, b) /\ k = Hide(t)
  OBVIOUS
<1>1. Beneath(s, h)
  BY <1>0, SaneBeneath
<1>2. Typed(b) /\ Shape(b) /\ Frame(s, b) /\ Typed(s)
  BY DEF Painted, Typed, Sane
<1>3. b.under = s.under
  BY <1>2 DEF Frame
<1>4. t = [b EXCEPT !.under = U]
  BY <1>0, <1>3 DEF NoteUnder
<1>5. U \subseteq Cells /\ s.under \subseteq U
  BY <1>1 DEF Beneath, Quiet
<1>6. \A c \in Cells : s.pic[c].arrow /\ ~b.pic[c].arrow => c \in U
  OBVIOUS
<1>7. (\A c \in Cells : ~s.pic[c].arrow) => U = s.under
  OBVIOUS
<1> HIDE DEF U
<1>8. /\ Shape(t) /\ t.under = U /\ t.grid = b.grid /\ t.pic = b.pic
      /\ t.backend = b.backend /\ t.forgotten = b.forgotten /\ t.utf8 = b.utf8
      /\ t.at = b.at /\ t.visible = b.visible /\ t.hasOld = b.hasOld /\ t.backup = b.backup
      /\ t.col = b.col /\ t.row = b.row /\ Cursor(b, t)
  BY <1>2, <1>4 DEF Shape, Cursor
<1>9. /\ Typed(t) /\ t.backend = s.backend /\ t.forgotten = s.forgotten /\ t.utf8 = s.utf8
      /\ t.at = s.at /\ t.visible = s.visible /\ t.hasOld = s.hasOld /\ t.backup = s.backup
      /\ t.col = s.col /\ t.row = s.row
  BY <1>2, <1>8 DEF Frame, Typed
<1>10. /\ Typed(k) /\ k.visible = FALSE /\ k.hasOld = FALSE /\ k.grid = b.grid /\ k.under = U
       /\ k.backend = s.backend /\ k.forgotten = s.forgotten /\ k.utf8 = s.utf8
       /\ k.col = s.col /\ k.row = s.row /\ Cursor(b, k)
       /\ \A c \in Cells : IF s.visible = TRUE /\ c \in Pointer(s.at) THEN k.pic[c] = s.backup[c]
                           ELSE k.pic[c] = b.pic[c]
  <2>1. CASE s.visible = TRUE
    <3>1. t.visible = TRUE /\ t.hasOld = TRUE /\ t.backup \in [Pointer(t.at) -> Look1]
      BY <1>9, <2>1 DEF Sane
    <3>2. Uncovered(t, k)
      BY <1>0, <1>9, <3>1, HideIs
    <3>3. QED
      BY <1>8, <1>9, <2>1, <3>2 DEF Uncovered, Cursor
  <2>2. CASE s.visible = FALSE
    <3>1. k = t /\ t.visible = FALSE /\ t.hasOld = FALSE
      BY <1>0, <1>9, <2>2 DEF Hide, Sane
    <3>2. QED
      BY <1>8, <1>9, <2>2, <3>1 DEF Cursor
  <2>3. QED
    BY <2>1, <2>2 DEF Sane
<1>11. \A c \in Cells : s.pic[c].arrow \in BOOLEAN /\ b.pic[c].arrow \in BOOLEAN
  BY <1>2 DEF Typed, Look1
<1>12. ASSUME NEW c \in Cells
       PROVE  /\ k.pic[c].arrow = FALSE
              /\ k.pic[c].inverse => c \in U \/ (b.drawn /\ c = b.last)
              /\ c \notin s.forgotten \cup U => Truthful(k.pic[c], b.grid[c], c)
  <2>0. /\ h.pic[c].arrow = FALSE
        /\ h.pic[c].inverse => c \in s.under \/ (s.drawn = TRUE /\ c = s.last)
        /\ c \notin s.forgotten \cup s.under => Truthful(h.pic[c], s.grid[c], c)
    BY <1>1 DEF Beneath, Quiet, Cursor
  <2>1. CASE s.visible = TRUE /\ c \in Pointer(s.at)
    <3>1. k.pic[c] = h.pic[c]
      BY <1>1, <1>10, <2>1 DEF Beneath
    <3>2. c \in C => c \in U
      <4>1. c \in C => ~b.pic[c].arrow
        BY DEF Painted
      <4>2. ~s.pic[c].arrow => c \in s.under
        BY <2>1 DEF Sane
      <4>3. QED
        BY <1>5, <1>6, <4>1, <4>2
    <3>3. s.drawn = TRUE /\ c = s.last => c \in C \/ (b.drawn /\ c = b.last)
      OBVIOUS
    <3>4. c \notin C => b.grid[c] = s.grid[c]
      BY DEF Painted
    <3>5. QED
      BY <1>5, <2>0, <3>1, <3>2, <3>3, <3>4
  <2>2. CASE ~(s.visible = TRUE /\ c \in Pointer(s.at))
    <3>1. k.pic[c] = b.pic[c] /\ h.pic[c] = s.pic[c]
      BY <1>1, <1>10, <2>2 DEF Beneath
    <3>2. CASE c \in C
      BY <3>1, <3>2 DEF Painted
    <3>3. CASE c \notin C
      <4>1. b.pic[c] = s.pic[c] /\ b.grid[c] = s.grid[c]
        BY <3>3 DEF Painted
      <4>2. s.drawn = TRUE /\ c = s.last => b.drawn /\ c = b.last
        BY <3>3
      <4>3. QED
        BY <1>5, <2>0, <3>1, <4>1, <4>2
    <3>4. QED
      BY <3>2, <3>3
  <2>3. QED
    BY <2>1, <2>2
<1>13. k.backend = "vga" => k.under = {}
  <2>1. SUFFICES ASSUME k.backend = "vga" PROVE U = {}
    BY <1>10
  <2>2. s.visible = FALSE
    BY <1>10, <2>1 DEF Sane
  <2>3. U = s.under
    BY <1>7, <2>2 DEF Sane
  <2>4. QED
    BY <1>1, <1>10, <2>1, <2>3 DEF Beneath, Quiet
<1>14. Quiet(k)
  <2>1. k.drawn = b.drawn /\ k.last = b.last /\ k.lit = b.lit /\ k.ticks = b.ticks
    BY <1>10 DEF Cursor
  <2>2. s.backend \in Backends /\ s.forgotten \subseteq Cells
    BY <1>1 DEF Beneath, Quiet
  <2>3. QED
    BY <1>5, <1>10, <1>12, <1>13, <2>1, <2>2 DEF Quiet
<1>15. Steady(k)
  BY <1>1, <1>10, <1>14 DEF Steady, At, Beneath
<1>16. s.visible = FALSE => \A c \in Cells : t.pic[c].arrow = FALSE
  BY <1>8 DEF Sane, Painted
<1>17. s.visible = TRUE => \A c \in Cells : t.pic[c].arrow => c \in Pointer(t.at)
  BY <1>8, <1>9 DEF Sane, Painted
<1>18. s.visible = TRUE => \A c \in Pointer(t.at) : ~t.pic[c].arrow => c \in t.under
  <2> SUFFICES ASSUME s.visible = TRUE, NEW c \in Pointer(t.at), ~t.pic[c].arrow
               PROVE  c \in U
    BY <1>8
  <2>1. c \in Cells /\ c \in Pointer(s.at)
    BY <1>9, PointerInCells
  <2>2. CASE s.pic[c].arrow
    BY <1>6, <1>8, <2>1, <2>2
  <2>3. CASE ~s.pic[c].arrow
    BY <1>5, <2>1, <2>3 DEF Sane
  <2>4. QED
    BY <2>2, <2>3
<1>19. Sane(t)
  <2>1. s.visible \in BOOLEAN /\ s.hasOld = s.visible
        /\ (s.visible = TRUE => s.backend = "fb" /\ s.backup \in [Pointer(s.at) -> Look1])
    BY DEF Sane
  <2>2. Steady(Hide(t))
    BY <1>0, <1>15
  <2>3. QED
    BY <1>9, <1>16, <1>17, <1>18, <2>1, <2>2 DEF Sane
<1>20. QED
  BY <1>0, <1>19

\* The tick blinks the cursor, below the pointer or not.
LEMMA TickSane ==
  ASSUME NEW s, Sane(s)
  PROVE  Sane(NoteUnder(s, Blink(s)))
<1>0. /\ Typed(s) /\ Shape(s) /\ s.drawn \in BOOLEAN /\ s.lit \in BOOLEAN
      /\ s.ticks \in 0 .. BlinkPeriod - 1 /\ s.last \in GridCells \cup {<<-1, -1>>}
      /\ Here(s) \in Cells /\ Here(s) \in GridCells
  <2>1. Beneath(s, Hide(s))
    BY SaneBeneath
  <2>2. Here(s) \in Cells
    BY <2>1 DEF Beneath, Steady, At, Here, Cells
  <2>3. QED
    BY <2>1, <2>2, CellsInGrid DEF Beneath, Quiet, Cursor, Sane, Typed
<1>1. CASE s.ticks + 1 < BlinkPeriod
  <2>1. PICK b : b = [s EXCEPT !.ticks = s.ticks + 1]
    OBVIOUS
  <2>2. Blink(s) = b
    BY <1>1, <2>1 DEF Blink
  <2>3. /\ Shape(b) /\ Frame(s, b) /\ b.grid = s.grid /\ b.pic = s.pic
        /\ b.ticks = s.ticks + 1 /\ b.lit = s.lit /\ b.drawn = s.drawn /\ b.last = s.last
    BY <1>0, <2>1 DEF Shape, Frame
  <2>4. PICK B : B = {}
    OBVIOUS
  <2>5. Painted(s, b, {}, B) /\ \A c \in B : b.drawn = TRUE /\ c = b.last
    BY <1>0, <2>3, <2>4 DEF Painted, Typed
  <2>6. s.drawn = TRUE /\ s.last \in Cells => b.drawn = TRUE /\ b.last = s.last
    BY <2>3
  <2>7. b.drawn \in BOOLEAN /\ b.lit \in BOOLEAN /\ b.ticks \in 0 .. BlinkPeriod - 1
        /\ b.last \in GridCells \cup {<<-1, -1>>}
    BY <1>0, <1>1, <2>3, Sizes
  <2>8. Sane(NoteUnder(s, b))
    BY <2>5, <2>6, <2>7, BlinkedSane
  <2>9. QED
    BY <2>2, <2>8
<1>2. CASE ~(s.ticks + 1 < BlinkPeriod)
  <2>1. PICK v \in BOOLEAN : v = ~s.lit
    BY <1>0
  <2>2. PICK u : u = [s EXCEPT !.ticks = 0, !.lit = v]
    OBVIOUS
  <2>3. PICK b : b = SetCursorVisible(u, v)
    OBVIOUS
  <2>4. Blink(s) = b
    BY <1>2, <2>1, <2>2, <2>3 DEF Blink
  <2>5. /\ Shape(u) /\ Frame(s, u) /\ u.grid = s.grid /\ u.pic = s.pic
        /\ u.ticks = 0 /\ u.lit = v /\ u.drawn = s.drawn /\ u.last = s.last
    BY <1>0, <2>2 DEF Shape, Frame
  <2>6. Typed(u) /\ Here(u) = Here(s)
    BY <1>0, <2>5 DEF Typed, Here, Frame
  <2>7. PICK B : B = IF v THEN {Here(u)} ELSE {}
    OBVIOUS
  <2>8. PICK C : /\ Painted(u, b, C, B) /\ b.last = Here(u) /\ b.drawn = v
                 /\ b.lit = u.lit /\ b.ticks = u.ticks /\ (u.last \in Cells => u.last \in C)
    <3>1. \E C : /\ Painted(u, SetCursorVisible(u, v), C, IF v THEN {Here(u)} ELSE {})
                 /\ SetCursorVisible(u, v).last = Here(u) /\ SetCursorVisible(u, v).drawn = v
                 /\ SetCursorVisible(u, v).lit = u.lit /\ SetCursorVisible(u, v).ticks = u.ticks
                 /\ u.last \in Cells => u.last \in C
      BY <2>6, SetCursorVisiblePaints
    <3>2. QED
      BY <2>3, <2>7, <3>1
  <2>9. Painted(s, b, C, B)
    <3>1. Typed(b) /\ Frame(s, b) /\ C \subseteq Cells
      BY <2>5, <2>8 DEF Painted, Frame
    <3>2. QED
      BY <2>5, <2>8, <3>1 DEF Painted
  <2>10. \A c \in B : b.drawn = TRUE /\ c = b.last
    BY <2>7, <2>8
  <2>11. b.drawn \in BOOLEAN /\ b.lit \in BOOLEAN /\ b.ticks \in 0 .. BlinkPeriod - 1
         /\ b.last \in GridCells \cup {<<-1, -1>>}
    BY <1>0, <2>5, <2>6, <2>8, Sizes
  <2>12. s.last \in Cells => s.last \in C
    BY <2>5, <2>8
  <2>13. Sane(NoteUnder(s, b))
    BY <2>9, <2>10, <2>11, <2>12, BlinkedSane
  <2>14. QED
    BY <2>4, <2>13
<1>3. QED
  BY <1>1, <1>2

\* The screen at the end of the boot.
LEMMA StartSane ==
  ASSUME NEW b \in Backends
  PROVE  Sane(Start(b))
<1> DEFINE p == [c \in Cells |-> Plain(" ")]
<1>0. PICK s : s = [backend |-> b, grid |-> Blank, pic |-> p,
        forgotten |-> {}, col |-> 0, row |-> 0, lit |-> TRUE, ticks |-> 0,
        drawn |-> FALSE, last |-> <<-1, -1>>, utf8 |-> <<>>,
        at |-> <<Columns \div 2, Rows \div 2>>, visible |-> FALSE,
        hasOld |-> FALSE, backup |-> <<>>, under |-> {}]
  OBVIOUS
<1>1. Start(b) = Show(s)
  BY <1>0 DEF Start
<1>2. /\ p \in [Cells -> Look1]
      /\ \A c \in Cells : p[c].arrow = FALSE /\ ~p[c].inverse /\ Truthful(p[c], " ", c)
  BY BlanksTrue
<1>3. Blank \in [GridCells -> Codes] /\ \A c \in Cells : Blank[c] = " "
  BY CellsInGrid, BlanksTrue DEF Blank, Codes
<1> HIDE DEF p
<1>4. /\ Shape(s) /\ s.backend = b /\ s.grid = Blank /\ s.pic = p /\ s.forgotten = {}
      /\ s.col = 0 /\ s.row = 0 /\ s.lit = TRUE /\ s.ticks = 0 /\ s.drawn = FALSE
      /\ s.last = <<-1, -1>> /\ s.utf8 = <<>> /\ s.visible = FALSE /\ s.hasOld = FALSE
      /\ s.under = {}
  BY <1>0 DEF Shape
<1>5. Quiet(s)
  <2>1. Typed(s)
    BY <1>2, <1>3, <1>4 DEF Typed
  <2>2. \A c \in Cells : /\ s.pic[c].arrow = FALSE /\ ~s.pic[c].inverse
                         /\ Truthful(s.pic[c], s.grid[c], c)
    BY <1>2, <1>3, <1>4
  <2>3. s.last \in GridCells \cup {<<-1, -1>>} /\ s.ticks \in 0 .. BlinkPeriod - 1
    BY <1>4, Sizes
  <2>4. s.drawn \in BOOLEAN /\ s.lit \in BOOLEAN
    BY <1>4
  <2>5. s.forgotten \subseteq Cells /\ s.under \subseteq Cells /\ s.backend \in Backends
    BY <1>4
  <2>6. QED
    BY <1>4, <2>1, <2>2, <2>3, <2>4, <2>5 DEF Quiet
<1>6. At(s) /\ Whole(s.utf8)
  BY <1>4, Sizes, NoBytes DEF At
<1>7. QED
  BY <1>1, <1>5, <1>6, ShowSane DEF Steady

----------------------------------------------------------------------------
(* The inductive invariant, and what follows from it.                      *)

TerminalIInv == nputs \in 0 .. MaxPuts /\ Sane(scr)

LEMMA InitIInv == Init => TerminalIInv
BY StartSane, TerminalAssumption DEF Init, TerminalIInv

LEMMA NextIInv == TerminalIInv /\ [Next]_vars => TerminalIInv'
<1> SUFFICES ASSUME TerminalIInv, [Next]_vars PROVE TerminalIInv'
  OBVIOUS
<1>0. nputs \in 0 .. MaxPuts /\ Sane(scr) /\ MaxPuts \in Nat
  BY TerminalAssumption DEF TerminalIInv
<1>1. ASSUME SysPuts PROVE TerminalIInv'
  <2>1. PICK text \in Texts : scr' = Show(FoldLeft(Putc, Hide(scr), text))
    BY <1>1 DEF SysPuts
  <2>2. text \in Seq(Bytes)
    BY TextsAssumption
  <2>3. PICK h : h = Hide(scr)
    OBVIOUS
  <2>4. Steady(h)
    BY <1>0, <2>3 DEF Sane
  <2>5. Steady(FoldLeft(Putc, h, text))
    BY <2>2, <2>4, TextSteady
  <2>6. PICK t : t = FoldLeft(Putc, h, text)
    OBVIOUS
  <2>7. Sane(Show(t))
    BY <2>5, <2>6, ShowSane
  <2>8. scr' = Show(t)
    BY <2>1, <2>3, <2>6
  <2>9. nputs' \in 0 .. MaxPuts
    BY <1>0, <1>1 DEF SysPuts
  <2>10. QED
    BY <2>7, <2>8, <2>9 DEF TerminalIInv
<1>2. ASSUME SysClear PROVE TerminalIInv'
  <2>1. Sane(Show(Hide(ClearScreen(scr))))
    BY <1>0, ClearSane
  <2>2. scr' = Show(Hide(ClearScreen(scr))) /\ nputs' \in 0 .. MaxPuts
    BY <1>0, <1>2 DEF SysClear
  <2>3. QED
    BY <2>1, <2>2 DEF TerminalIInv
<1>3. ASSUME SysMouseDraw PROVE TerminalIInv'
  <2>1. PICK m \in Moves : scr' = MoveTo(scr, <<scr.at[1] + m[1], scr.at[2] + m[2]>>)
    BY <1>3 DEF SysMouseDraw
  <2>2. PICK to : to = <<scr.at[1] + m[1], scr.at[2] + m[2]>>
    OBVIOUS
  <2>3. Sane(MoveTo(scr, to))
    BY <1>0, MoveToSane
  <2>4. QED
    BY <1>0, <1>3, <2>1, <2>2, <2>3 DEF TerminalIInv, SysMouseDraw
<1>4. ASSUME SysMouseCenter PROVE TerminalIInv'
  <2>1. PICK to : to = <<(Columns - PointerW) \div 2, (Rows - PointerH) \div 2>>
    OBVIOUS
  <2>2. Sane(MoveTo(scr, to))
    BY <1>0, MoveToSane
  <2>3. scr' = MoveTo(scr, to)
    BY <1>4, <2>1 DEF SysMouseCenter, Center
  <2>4. QED
    BY <1>0, <1>4, <2>2, <2>3 DEF TerminalIInv, SysMouseCenter
<1>5. ASSUME TimerTick PROVE TerminalIInv'
  <2>1. Sane(NoteUnder(scr, Blink(scr)))
    BY <1>0, TickSane
  <2>2. scr' = NoteUnder(scr, Blink(scr)) /\ nputs' = nputs
    BY <1>5 DEF TimerTick
  <2>3. QED
    BY <1>0, <2>1, <2>2 DEF TerminalIInv
<1>6. ASSUME UNCHANGED vars PROVE TerminalIInv'
  BY <1>6 DEF TerminalIInv, vars
<1>7. QED
  BY <1>1, <1>2, <1>3, <1>4, <1>5, <1>6 DEF Next

\* The inductive invariant, for every size of the screen and of the pointer.
THEOREM TerminalInvCorrect == Spec => []TerminalIInv
BY InitIInv, NextIInv, PTL DEF Spec

\* The picture without the pointer.
LEMMA BareIs ==
  ASSUME TerminalIInv
  PROVE  /\ Beneath(scr, Hide(scr)) /\ Bare = Hide(scr).pic /\ Sane(scr)
BY SaneBeneath DEF TerminalIInv, Bare

LEMMA IInvTypeOK == TerminalIInv => TypeOK
<1> SUFFICES ASSUME TerminalIInv PROVE TypeOK
  OBVIOUS
<1>1. PICK h : h = Hide(scr)
  OBVIOUS
<1>2. Beneath(scr, h) /\ Sane(scr) /\ Quiet(h) /\ At(h) /\ Whole(h.utf8)
  BY <1>1, BareIs DEF Beneath, Steady
<1>3. /\ h.backend = scr.backend /\ h.forgotten = scr.forgotten /\ h.utf8 = scr.utf8
      /\ h.col = scr.col /\ h.row = scr.row /\ h.last = scr.last /\ h.ticks = scr.ticks
  BY <1>2 DEF Beneath, Cursor
<1>4. Here(scr) \in Cells
  BY <1>2, <1>3 DEF At, Here, Cells
<1>5. \A c \in Cells : scr.pic[c].shows \in Shown
  BY <1>2 DEF Sane, Typed, Look1
<1>6. \A c \in GridCells : scr.grid[c] \in Drawable \cup {Han, Continue}
  BY <1>2 DEF Sane, Typed, Codes
<1>7. scr.utf8 # <<>> => scr.utf8[1] \in Leads /\ Len(scr.utf8) < Need[scr.utf8[1]]
  BY <1>2, <1>3 DEF Whole
<1>8. scr.visible = scr.hasOld /\ (scr.visible => DOMAIN scr.backup = Pointer(scr.at))
  BY <1>2 DEF Sane
<1>9. scr.last \in GridCells \cup {<<-1, -1>>} /\ scr.backend \in Backends
      /\ scr.forgotten \subseteq Cells /\ scr.ticks \in 0 .. BlinkPeriod - 1
  BY <1>2, <1>3 DEF Quiet
<1>10. QED
  BY <1>4, <1>5, <1>6, <1>7, <1>8, <1>9 DEF TypeOK, TerminalIInv

\* The types, and where the screen is between two system calls
\* (terminal.cpp:485-541: the wrap and the scroll bring the cursor back).
THEOREM TypeCorrect == Spec => []TypeOK
BY TerminalInvCorrect, IInvTypeOK, PTL

\* GridTruth, for every size of the screen that fits the grid, any pointer and
\* any texts: the grid from which terminal.cpp redraws a cell (276-312, 335-347)
\* says what the cell shows, if it was written since the last clear and, with
\* the VGA's text mode (409-421), since the last scroll.
THEOREM GridTruthHolds == Spec => []GridTruth
<1>1. TerminalIInv => GridTruth
  <2> SUFFICES ASSUME TerminalIInv, NEW c \in Cells \ (scr.forgotten \cup scr.under)
               PROVE  \/ Bare[c].shows = Look(scr.grid[c], Bare[c].inverse)
                      \/ Bare[c].shows = HanRight /\ ~Bare[c].inverse /\ c[1] > 0
    BY DEF GridTruth
  <2>1. PICK h : h = Hide(scr)
    OBVIOUS
  <2>2. Beneath(scr, h) /\ Bare = h.pic
    BY <2>1, BareIs
  <2>3. Truthful(h.pic[c], h.grid[c], c) /\ h.grid = scr.grid
    BY <2>2 DEF Beneath, Quiet
  <2>4. QED
    BY <2>2, <2>3 DEF Truthful
<1>2. QED
  BY <1>1, TerminalInvCorrect, PTL

\* OneArrow: hiding the pointer (mouse.cpp:107-148) leaves nothing of it, and a
\* pointer that is shown is whole, but where the cursor blinked.
THEOREM OneArrowHolds == Spec => []OneArrow
<1>1. TerminalIInv => OneArrow
  <2> SUFFICES ASSUME TerminalIInv PROVE OneArrow
    OBVIOUS
  <2> DEFINE arrows == {c \in Cells : scr.pic[c].arrow}
  <2>1. PICK h : h = Hide(scr)
    OBVIOUS
  <2>2. Beneath(scr, h) /\ Bare = h.pic /\ Sane(scr) /\ TypeOK
    BY <2>1, BareIs, IInvTypeOK
  <2>3. \A c \in Cells : ~Bare[c].arrow
    BY <2>2 DEF Beneath, Quiet
  <2>4. CASE scr.visible = TRUE
    <3>1. arrows \subseteq Pointer(scr.at)
      BY <2>2, <2>4 DEF Sane
    <3>2. Pointer(scr.at) \ arrows \subseteq scr.under
      BY <2>2, <2>4, PointerInCells DEF Sane
    <3>3. QED
      BY <2>2, <2>3, <2>4, <3>1, <3>2 DEF OneArrow
  <2>5. CASE scr.visible = FALSE
    <3>1. arrows = {}
      BY <2>2, <2>5 DEF Sane
    <3>2. QED
      BY <2>2, <2>3, <2>5, <3>1 DEF OneArrow
  <2>6. QED
    BY <2>2, <2>4, <2>5 DEF Sane
<1>2. QED
  BY <1>1, TerminalInvCorrect, PTL

\* OneBlock: the cursor's block is drawn over wherever the cursor leaves
\* (terminal.cpp:314-352) and before a scroll moves it (398-402).
THEOREM OneBlockHolds == Spec => []OneBlock
<1>1. TerminalIInv => OneBlock
  <2> SUFFICES ASSUME TerminalIInv, NEW c \in Cells, Bare[c].inverse
               PROVE  c \in {scr.last} \cup scr.under
    BY DEF OneBlock
  <2>1. PICK h : h = Hide(scr)
    OBVIOUS
  <2>2. Beneath(scr, h) /\ Bare = h.pic
    BY <2>1, BareIs
  <2>3. c \in h.under \/ c = h.last
    BY <2>2 DEF Beneath, Quiet
  <2>4. QED
    BY <2>2, <2>3 DEF Beneath, Cursor
<1>2. QED
  BY <1>1, TerminalInvCorrect, PTL
=============================================================================
