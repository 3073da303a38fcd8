------------------------------- MODULE Printf -------------------------------
(***************************************************************************)
(* The text of kernel/printf.cpp: what vsnprintf_impl makes of a format    *)
(* and its arguments.  A format is a sequence of pieces: a literal         *)
(* character, or a conversion with its flags, its width (negative only if  *)
(* it is a '*' whose argument is negative), its length modifier and what   *)
(* va_arg finds for it: a word (arg) or the characters it points to or is  *)
(* (str).  Words are of LongBits bits, what is passed as an int of IntBits *)
(* bits.  A text is a sequence of characters.                              *)
(***************************************************************************)
EXTENDS Integers, Sequences, SequencesExt

CONSTANTS IntBits,    \* the width of int and unsigned int
          LongBits    \* the width of long, long long and pointers

ASSUME PrintfAssumption == IntBits \in 1..LongBits /\ LongBits \in Nat

IntSize == 2^IntBits
Words   == 0..(2^LongBits - 1)

Lower == <<"0", "1", "2", "3", "4", "5", "6", "7", "8", "9", "a", "b", "c", "d", "e", "f">>
Upper == <<"0", "1", "2", "3", "4", "5", "6", "7", "8", "9", "A", "B", "C", "D", "E", "F">>

NullPtr == <<"nullptr">>

Repeat(ch, n) == [i \in 1..n |-> ch]
Longer(m, n)  == IF m > n THEN m ELSE n

\* The digits of a word from the lowest on, as the loops find them.
FromLowest(base) ==
  LET low[v \in Words] == IF v < base THEN <<v>> ELSE <<v % base>> \o low[v \div base]
  IN low

FormatUnsigned(v, base, digits) ==
  LET low == FromLowest(base)[v] IN [i \in 1..Len(low) |-> digits[Reverse(low)[i] + 1]]

\* Spaces, never zeros, on the right of a text that is aligned left.
\* (EmitPaddedAlike: the same padding on both sides.)
EmitPaddedAlike(text, width, left, pad) ==
  LET filler == Repeat(pad, width - Len(text))
  IN IF left THEN text \o filler ELSE filler \o text
EmitPadded(text, width, left, pad) ==
  LET spaces == width - Len(text)
  IN IF left THEN text \o Repeat(" ", spaces) ELSE Repeat(pad, spaces) \o text

LeftAlign(f) == "-" \in f.flags \/ f.width < 0
Width(f)     == IF f.width < 0 THEN -f.width ELSE f.width
ZeroPad(f)   == IF "0" \in f.flags THEN "0" ELSE " "

\* The argument as a word: an int is extended with its sign also where the
\* modifier is h or hh; without a modifier it is an unsigned int.
Signed(v, size) == IF v < size \div 2 THEN v ELSE v - size
TakeUnsigned(f) ==
  CASE f.length \in {"l", "ll"} -> f.arg
    [] f.length \in {"h", "hh"} -> Signed(f.arg % IntSize, IntSize) % (2^LongBits)
    [] OTHER -> f.arg % IntSize
TakeSigned(f) ==
  IF f.length \in {"l", "ll"} THEN Signed(f.arg, 2^LongBits)
  ELSE Signed(f.arg % IntSize, IntSize)

\* What a conversion puts out, and what it adds to the count of characters.
Piece(text, written) == [text |-> text, written |-> written]

PutString(f) ==
  LET str == IF f.str = NullPtr THEN <<"(", "n", "u", "l", "l", ")">> ELSE f.str
  IN Piece(EmitPadded(str, Width(f), LeftAlign(f), ZeroPad(f)),
           Longer(Len(str), Width(f)))

PutChar(f) ==
  Piece(EmitPadded(f.str, Width(f), LeftAlign(f), " "), Longer(1, Width(f)))

\* The sign comes before the zeros and after the spaces.
PutSigned(f) ==
  LET value  == TakeSigned(f)
      prefix == CASE value < 0 -> <<"-">>
                  [] value >= 0 /\ "+" \in f.flags -> <<"+">>
                  [] value >= 0 /\ "+" \notin f.flags /\ " " \in f.flags -> <<" ">>
                  [] OTHER -> <<>>
      digits == FormatUnsigned(IF value < 0 THEN -value ELSE value, 10, Lower)
      text   == IF "0" \in f.flags /\ ~LeftAlign(f)
                THEN prefix \o EmitPadded(digits, Width(f) - Len(prefix), FALSE, "0")
                ELSE EmitPadded(prefix \o digits, Width(f), LeftAlign(f), " ")
  IN Piece(text, Longer(Len(digits) + Len(prefix), Width(f)))

PutUnsigned(f) ==
  LET digits == FormatUnsigned(TakeUnsigned(f), 10, Lower)
  IN Piece(EmitPadded(digits, Width(f), LeftAlign(f), ZeroPad(f)),
           Longer(Len(digits), Width(f)))

PutHexadecimal(f) ==
  LET digits == FormatUnsigned(TakeUnsigned(f), 16, IF f.conv = "X" THEN Upper ELSE Lower)
      staged == IF "#" \in f.flags THEN <<"0", f.conv>> \o digits ELSE digits
  IN Piece(EmitPadded(staged, Width(f), LeftAlign(f), ZeroPad(f)),
           Longer(Len(staged), Width(f)))

\* A pointer has all its digits, a quarter of its bits.
PutPointer(f) ==
  LET digits == FormatUnsigned(f.arg, 16, Lower)
      zeros  == Repeat("0", (LongBits \div 4) - Len(digits))
      staged == <<"0", "x">> \o zeros \o digits
  IN Piece(EmitPadded(staged, Width(f), LeftAlign(f), " "),
           Longer(Len(staged), Width(f)))

Convert(f) ==
  CASE f.conv = "literal" -> Piece(f.str, 1)
    [] f.conv = "%" -> Piece(<<"%">>, 1)
    [] f.conv = "s" -> PutString(f)
    [] f.conv = "c" -> PutChar(f)
    [] f.conv \in {"d", "i"} -> PutSigned(f)
    [] f.conv = "u" -> PutUnsigned(f)
    [] f.conv \in {"x", "X"} -> PutHexadecimal(f)
    [] f.conv = "p" -> PutPointer(f)
    [] OTHER -> Piece(<<"%", f.conv>>, 2)

Vsnprintf(format) ==
  FoldLeft(LAMBDA done, f : LET piece == Convert(f)
                            IN Piece(done.text \o piece.text, done.written + piece.written),
           Piece(<<>>, 0), format)
=============================================================================
