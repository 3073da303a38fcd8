------------------------------ MODULE Terminal ------------------------------
(***************************************************************************)
(* The screen: the terminal of kernel/terminal.cpp, which draws characters *)
(* and a blinking cursor and keeps a grid of what it drew, and the mouse   *)
(* pointer of kernel/mouse.cpp, which is painted over them.  The system    *)
(* calls PUTS, CLEAR, MOUSE_DRAW and MOUSE_CENTER and the timer's tick run *)
(* with interrupts off: each is one step.                                  *)
(*                                                                         *)
(* A screen s is a record and the functions of the code are operators from *)
(* screens to screens.  The picture is kept by cell: a cell shows a        *)
(* character or half of a han, inverted or not, and perhaps a part of the  *)
(* pointer.  Colours are left out.                                         *)
(***************************************************************************)
EXTENDS Integers, Sequences, SequencesExt

CONSTANTS Columns, Rows,     \* the screen, in character cells
          MaxCols, MaxRows,  \* the size of the grid
          Tab,               \* cells of a tab stop
          BlinkPeriod,       \* ticks between two changes of the cursor
          PointerW, PointerH,\* the pointer, in cells
          Backends,          \* which of "fb" and "vga" the machine may have
          Texts,             \* what programs print: sequences of bytes
          Moves,             \* what the mouse may move by: <<dx, dy>>
          MaxPuts            \* bound: texts printed

\* A han that does not fit is drawn in the next row before the screen scrolls:
\* the grid has a row for it, and three columns keep the cursor in that row.
\* That the mode fits the grid (256 by 128, terminal.cpp:106-107) is assumed
\* of the machine: init takes the boot loader's mode and nothing checks it.
ASSUME TerminalAssumption ==
  /\ MaxCols \in Nat /\ MaxRows \in Nat
  /\ Columns \in 3..MaxCols /\ Rows \in 1..(MaxRows - 1)
  /\ PointerW \in 1..Columns /\ PointerH \in 1..Rows
  /\ Tab \in Nat \ {0} /\ BlinkPeriod \in Nat \ {0}
  /\ Backends \subseteq {"fb", "vga"}
  /\ Moves \subseteq Int \X Int
  /\ MaxPuts \in Nat

VARIABLES scr,     \* the screen
          nputs    \* texts printed so far

vars == <<scr, nputs>>

Cells     == (0..(Columns - 1)) \X (0..(Rows - 1))
GridCells == (0..(MaxCols - 1)) \X (0..(MaxRows - 1))

Left(c)  == <<c[1] - 1, c[2]>>
Right(c) == <<c[1] + 1, c[2]>>
Below(c) == <<c[1], c[2] + 1>>

\* What the grid holds, besides characters: the code point of a han, and
\* CELL_CONTINUE in the cell right of it.  What a cell shows of a han.
Han == "han"
Continue == "continue"
HanLeft == "han-left"
HanRight == "han-right"
IsCode(g) == g \in {Han, Continue}      \* >= 0x80

Plain(ch)    == [shows |-> ch, inverse |-> FALSE, arrow |-> FALSE]
Inverted(ch) == [shows |-> ch, inverse |-> TRUE, arrow |-> FALSE]

Here(s) == <<s.col, s.row>>

----------------------------------------------------------------------------
(* Drawing a cell.                                                         *)

\* The cells of the function f, as far as they are on the screen.
Paint(s, f) ==
  [s EXCEPT !.pic = [c \in Cells |-> IF c \in DOMAIN f THEN f[c] ELSE @[c]]]

\* The grid holds now what f says.
Note(s, f) ==
  [s EXCEPT !.grid = [c \in GridCells |-> IF c \in DOMAIN f THEN f[c] ELSE @[c]]]

DrawCell(s, c, ch) ==
  Paint(Note(s, [d \in {c} |-> ch]), [d \in {c} |-> Plain(ch)])

DrawHan(s, c) ==
  Paint(s, [d \in {c, Right(c)} |-> Plain(IF d = c THEN HanLeft ELSE HanRight)])

\* The cursor's block: the character inverted, a space on a han.
DrawBlock(s) ==
  LET g == IF Here(s) \in GridCells THEN s.grid[Here(s)] ELSE " "
  IN Paint(s, [d \in {Here(s)} |-> Inverted(IF IsCode(g) THEN " " ELSE g)])

EraseCursorAt(s, c) ==
  IF c \notin Cells \cap GridCells THEN s
  ELSE CASE s.grid[c] = Han -> DrawHan(s, c)
         [] s.grid[c] = Continue ->
              IF c[1] > 0 /\ s.grid[Left(c)] = Han THEN DrawHan(s, Left(c))
              ELSE DrawCell(s, c, " ")
         [] OTHER -> DrawCell(s, c, s.grid[c])

LeaveLast(s) ==
  IF s.last = Here(s) THEN s
  ELSE [EraseCursorAt(s, s.last) EXCEPT !.last = Here(s), !.drawn = FALSE]

SetCursorVisible(s, visible) ==
  IF visible THEN [DrawBlock(LeaveLast(s)) EXCEPT !.drawn = TRUE]
  ELSE [EraseCursorAt(LeaveLast(s), Here(s)) EXCEPT !.drawn = FALSE]

CursorMoved(s) ==
  SetCursorVisible([s EXCEPT !.ticks = 0, !.lit = TRUE], TRUE)

----------------------------------------------------------------------------
(* The pointer.  Only a frame buffer has one.                              *)

Available(s) == s.backend = "fb"

Pointer(at) == {c \in Cells : /\ c[1] \in at[1]..(at[1] + PointerW - 1)
                              /\ c[2] \in at[2]..(at[2] + PointerH - 1)}

\* What the pointer covers, as it was when the pointer was drawn.
RestoreBackup(s) == Paint(s, s.backup)

Hide(s) ==
  IF ~s.visible \/ ~s.hasOld THEN s
  ELSE [RestoreBackup(s) EXCEPT !.visible = FALSE, !.hasOld = FALSE]

Clamp(x, most) == IF x < 0 THEN 0 ELSE IF x > most THEN most ELSE x

DrawPointer(s, at) ==
  [s EXCEPT !.at = at, !.visible = TRUE, !.hasOld = TRUE,
            !.backup = [c \in Pointer(at) |-> s.pic[c]],
            !.pic = [c \in Cells |->
                       IF c \in Pointer(at) THEN [s.pic[c] EXCEPT !.arrow = TRUE]
                       ELSE s.pic[c]]]

\* Mutant: the pointer is drawn anew before it is taken from where it was.
MoveToUnhidden(s, at) ==
  IF ~Available(s) THEN s
  ELSE DrawPointer(s, <<Clamp(at[1], Columns - PointerW), Clamp(at[2], Rows - PointerH)>>)

MoveTo(s, at) ==
  IF ~Available(s) THEN s
  ELSE DrawPointer(Hide(s), <<Clamp(at[1], Columns - PointerW),
                              Clamp(at[2], Rows - PointerH)>>)

Center(s) ==
  MoveTo(s, <<(Columns - PointerW) \div 2, (Rows - PointerH) \div 2>>)

Invalidate(s) == [s EXCEPT !.visible = FALSE, !.hasOld = FALSE]

Show(s) ==
  IF ~Available(s) THEN s
  ELSE MoveTo(Invalidate(IF s.visible /\ s.hasOld THEN RestoreBackup(s) ELSE s),
              s.at)

----------------------------------------------------------------------------
(* Scrolling.                                                              *)

\* Mutant: the picture scrolls, the grid does not.
ScrollGridForgotten(s) == s

ScrollGrid(s) ==
  [s EXCEPT !.grid = [c \in GridCells |->
                        IF c \notin Cells THEN @[c]
                        ELSE IF Below(c) \in Cells THEN @[Below(c)] ELSE " "],
            !.forgotten = {c \in Cells : Below(c) \in @},
            !.under = {c \in Cells : Below(c) \in @}]

ScrollPicture(s) ==
  [s EXCEPT !.pic = [c \in Cells |-> IF Below(c) \in Cells THEN @[Below(c)]
                                     ELSE Plain(" ")]]

\* Mutant: the cursor's block is moved with the picture.
EraseNothing(s) == s

EraseDrawn(s) ==
  IF s.drawn THEN [EraseCursorAt(s, s.last) EXCEPT !.drawn = FALSE] ELSE s

\* The cursor drawn again where it is now: the code is past the last row.
RedrawCursor(s, was) ==
  IF was THEN [DrawBlock(s) EXCEPT !.drawn = TRUE, !.last = Here(s)] ELSE s

ReShow(s, was) == IF was THEN Show(s) ELSE s

\* With the VGA's text mode the code returns before scroll_grid_one_line:
\* the picture scrolls and the grid stays, so no cell's entry is its own.
ScrollOneLine(s) ==
  LET clean == Hide(EraseDrawn(s)) IN
  IF s.backend = "vga"
  THEN [ScrollPicture(clean) EXCEPT !.forgotten = Cells]
  ELSE RedrawCursor(ReShow(ScrollGrid(ScrollPicture(clean)), s.visible), s.drawn)

----------------------------------------------------------------------------
(* Output.  "forgotten" has the cells whose grid entry is not theirs: from *)
(* before a clear or, with the VGA, a scroll.  Writing a cell takes it out. *)

Written(s, C) == [s EXCEPT !.forgotten = @ \ C, !.under = @ \ C]

WrapRow(s) == IF s.row < Rows THEN s
              ELSE [ScrollOneLine(s) EXCEPT !.row = Rows - 1]

NextRow(s) == [s EXCEPT !.col = 0, !.row = @ + 1]

AdvanceAfterDraw(s) == WrapRow(IF s.col >= Columns THEN NextRow(s) ELSE s)

TabStop(s) ==
  LET col == ((s.col + Tab) \div Tab) * Tab
  IN IF col >= Columns THEN NextRow(s) ELSE [s EXCEPT !.col = col]

Backspace(s) ==
  IF s.col > 0 THEN [s EXCEPT !.col = @ - 1]
  ELSE IF s.row > 0 THEN [s EXCEPT !.row = @ - 1, !.col = Columns - 1]
  ELSE s

EmitAscii(s, ch) ==
  AdvanceAfterDraw(CASE ch = "nl"  -> NextRow(s)
                     [] ch = "cr"  -> [s EXCEPT !.col = 0]
                     [] ch = "tab" -> TabStop(s)
                     [] ch = "bs"  -> Backspace(s)
                     [] OTHER      -> [DrawCell(Written(s, {Here(s)}), Here(s), ch)
                                        EXCEPT !.col = @ + 1])

\* A han takes two cells and goes to the next row if the row has none; the
\* next row may be below the screen: the scroll comes only afterwards.
PlaceHan(s) ==
  [Note(DrawHan(Written(s, {Here(s), Right(Here(s))}), Here(s)),
        [d \in {Here(s), Right(Here(s))} |-> IF d = Here(s) THEN Han ELSE Continue])
     EXCEPT !.col = @ + 2]

EmitHan(s) ==
  IF s.backend # "fb" THEN EmitAscii(s, "?")
  ELSE AdvanceAfterDraw(PlaceHan(IF s.col + 2 > Columns THEN NextRow(s) ELSE s))

\* Bytes: ASCII stands for itself; the first byte of a sequence says how many
\* bytes there are and, here, which code point they make: a han of the font,
\* one the font does not have, an ASCII character coded too long.
Need == [lead3 |-> 3, lead2 |-> 2, long2 |-> 2]
Leads == DOMAIN Need
Follow == "follow"                    \* 10xxxxxx
Bad == "bad"                          \* 11111xxx
Ascii(b) == b \notin Leads \cup {Follow, Bad}

\* The characters that are drawn, and what a text consists of.
Drawable == {" ", "a", "?"}
Controls == {"nl", "cr", "tab", "bs"}
Bytes == Drawable \cup Controls \cup Leads \cup {Follow, Bad}

ASSUME TextsAssumption == Texts \subseteq Seq(Bytes)

EmitCodepoint(s, lead) ==
  CASE lead = "lead3" -> EmitHan(s)
    [] lead = "lead2" -> EmitAscii(s, "?")
    [] lead = "long2" -> EmitAscii(s, "a")

\* putc leaves without cursor_moved when a byte is not legal where it is.
Broken(s) == EmitAscii([s EXCEPT !.utf8 = <<>>], "?")

Gather(s, b) ==
  LET buf == Append(s.utf8, b)
  IN IF Len(buf) < Need[buf[1]] THEN [s EXCEPT !.utf8 = buf]
     ELSE EmitCodepoint([s EXCEPT !.utf8 = <<>>], buf[1])

Putc(s, b) ==
  IF s.utf8 = <<>>
  THEN CASE Ascii(b)          -> CursorMoved(EmitAscii(s, b))
         [] b \in Leads       -> CursorMoved(Gather(s, b))
         [] OTHER             -> Broken(s)
  ELSE IF b = Follow THEN CursorMoved(Gather(s, b)) ELSE Broken(s)

----------------------------------------------------------------------------
(* The steps.                                                              *)

Blank == [c \in GridCells |-> " "]

\* init, and mouse::init and show at the end of the boot.
Start(b) ==
  Show([backend |-> b, grid |-> Blank, pic |-> [c \in Cells |-> Plain(" ")],
        forgotten |-> {}, col |-> 0, row |-> 0, lit |-> TRUE, ticks |-> 0,
        drawn |-> FALSE, last |-> <<-1, -1>>, utf8 |-> <<>>,
        at |-> <<Columns \div 2, Rows \div 2>>, visible |-> FALSE,
        hasOld |-> FALSE, backup |-> <<>>, under |-> {}])

Init == \E b \in Backends : scr = Start(b) /\ nputs = 0

\* Sys::PUTS, also the terminal service's PUTS and PUTC.
SysPuts ==
  /\ nputs < MaxPuts
  /\ \E text \in Texts : scr' = Show(FoldLeft(Putc, Hide(scr), text))
  /\ nputs' = nputs + 1

\* Sys::CLEAR: neither the grid nor the cursor's last place is reset.
ClearScreen(s) ==
  [s EXCEPT !.pic = [c \in Cells |-> Plain(" ")], !.col = 0, !.row = 0,
            !.forgotten = Cells]

SysClear ==
  /\ nputs < MaxPuts
  /\ scr' = Show(Hide(ClearScreen(scr)))
  /\ nputs' = nputs + 1

SysMouseDraw ==
  /\ Available(scr)
  /\ \E m \in Moves : scr' = MoveTo(scr, <<scr.at[1] + m[1], scr.at[2] + m[2]>>)
  /\ UNCHANGED nputs

SysMouseCenter == Available(scr) /\ scr' = Center(scr) /\ UNCHANGED nputs

\* The tick blinks the cursor without hiding the pointer; "under" remembers
\* the cells where it has drawn over a part of it.
Blink(s) ==
  IF s.ticks + 1 < BlinkPeriod THEN [s EXCEPT !.ticks = @ + 1]
  ELSE SetCursorVisible([s EXCEPT !.ticks = 0, !.lit = ~@], ~s.lit)

NoteUnder(old, new) ==
  [new EXCEPT !.under = @ \cup {c \in Cells : old.pic[c].arrow /\ ~new.pic[c].arrow}]

TimerTick == scr' = NoteUnder(scr, Blink(scr)) /\ UNCHANGED nputs

Next == SysPuts \/ SysClear \/ SysMouseDraw \/ SysMouseCenter \/ TimerTick

Spec == Init /\ [][Next]_vars

----------------------------------------------------------------------------
(* Properties.                                                             *)

\* What shows of a cell when the grid holds g there: the cursor's block
\* shows nothing of a han.
Look(g, block) ==
  CASE IsCode(g) /\ block -> " "
    [] g = Han /\ ~block -> HanLeft
    [] g = Continue /\ ~block -> HanRight
    [] OTHER -> g

\* The screen without the pointer.
Bare == Hide(scr).pic

Shown == Drawable \cup {HanLeft, HanRight}

\* The types; between two system calls the cursor is on the screen, and a
\* sequence of bytes that is begun is a lead that still waits for others.
TypeOK ==
  /\ nputs \in 0..MaxPuts
  /\ scr.backend \in Backends
  /\ Here(scr) \in Cells
  /\ scr.last \in GridCells \cup {<<-1, -1>>}
  /\ \A c \in Cells : scr.pic[c].shows \in Shown
  /\ \A c \in GridCells : scr.grid[c] \in Drawable \cup {Han, Continue}
  /\ scr.forgotten \subseteq Cells
  /\ scr.ticks \in 0..(BlinkPeriod - 1)
  /\ scr.utf8 # <<>> => scr.utf8[1] \in Leads /\ Len(scr.utf8) < Need[scr.utf8[1]]
  /\ scr.visible = scr.hasOld
  /\ scr.visible => DOMAIN scr.backup = Pointer(scr.at)

\* The grid from which the cursor's cell is redrawn says what the cell shows:
\* with the framebuffer for every cell that was written since the last clear,
\* however output, scrolling, blinking and the pointer alternate; with the
\* VGA's text mode only for the cells written since the last clear OR SCROLL.
\* There the grid does not scroll, though terminal.cpp:359-361 and 446-457
\* say it must: this property claims nothing of a scrolled VGA cell.  Neither
\* does it of a cell the cursor blinked in below the pointer.  Where the right
\* half of a han was written over, the redraw of the left half paints it there
\* again, and it stays until that cell is drawn.
GridTruth ==
  \A c \in Cells \ (scr.forgotten \cup scr.under) :
    \/ Bare[c].shows = Look(scr.grid[c], Bare[c].inverse)
    \/ Bare[c].shows = HanRight /\ ~Bare[c].inverse /\ c[1] > 0

\* Hiding the pointer leaves nothing of it anywhere; a pointer that is shown
\* is in one place and whole, on top of the text, but for cells where the
\* cursor blinked.
OneArrow ==
  /\ TypeOK
  /\ \A c \in Cells : ~Bare[c].arrow
  /\ LET arrows == {c \in Cells : scr.pic[c].arrow} IN
       IF scr.visible
       THEN arrows \subseteq Pointer(scr.at) /\ Pointer(scr.at) \ arrows \subseteq scr.under
       ELSE arrows = {}

\* No scroll, output or move of the pointer leaves a block of the cursor
\* behind, but where the cursor blinked below the pointer.
OneBlock == {c \in Cells : Bare[c].inverse} \subseteq {scr.last} \cup scr.under
=============================================================================
