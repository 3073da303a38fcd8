------------------------------- MODULE MCKLog -------------------------------
(* KLog with short words, a batch of three and a period of three ticks, and *)
(* its properties.                                                          *)
EXTENDS KLog

CharBits  == 3
ShortBits == 4

MCEvents ==
  {[mod |-> 3, op |-> 1, addr |-> 174, ret |-> 12, extra |-> 16, tid |-> 10],
   [mod |-> 8, op |-> 7, addr |-> 255, ret |-> 7, extra |-> 0, tid |-> 0]}

Conversion(conv, flags, width, length, arg) ==
  [conv |-> conv, flags |-> flags, width |-> width, length |-> length, arg |-> arg, str |-> <<>>]
Characters(conv, flags, width, str) ==
  [Conversion(conv, flags, width, "none", 0) EXCEPT !.str = str]

Flags  == SUBSET {"-", "+", " ", "0"}
Widths == {0, 5, -4}
Args   == {0, 5, 10, 16, 128, 255}

MCFormats ==
  {<<Conversion(c, fl, w, l, a)>> :
      c \in {"d", "u", "x"}, fl \in Flags, w \in Widths,
      l \in {"none", "hh", "ll"}, a \in Args}
  \cup {<<Conversion(c, fl, w, l, a)>> :
      c \in {"d", "u", "X"}, fl \in {{}, {"+", "0"}}, w \in {5}, l \in {"h"}, a \in Args}
  \cup {<<Conversion(c, fl \cup {"#"}, w, "ll", a)>> :
      c \in {"i", "X", "x"}, fl \in {{}, {"-"}, {"0"}}, w \in Widths, a \in Args}
  \cup {<<Conversion("p", fl, w, "none", a)>> : fl \in {{}, {"-"}}, w \in Widths, a \in Args}
  \cup {<<Characters("s", fl, w, str)>> :
      fl \in {{}, {"-"}}, w \in Widths, str \in {<<>>, <<"a", "nl">>, <<"a", "b", "c", "d">>}}
  \cup {<<Characters("c", fl, w, <<"a">>)>> : fl \in {{}, {"-"}}, w \in Widths}
  \cup {<<Characters("s", {}, 0, NullPtr)>>, <<Characters("q", {}, 0, <<>>)>>,
        <<Characters("literal", {}, 0, <<"nl">>), Conversion("d", {}, 3, "none", 31),
          Characters("%", {}, 0, <<>>), Conversion("p", {}, 0, "none", 16)>>}

----------------------------------------------------------------------------
(* What standard C makes of a conversion.                                  *)

StandardDigits(v, base, symbols) ==
  LET n == CHOOSE n \in 1..LongBits : base^n > v /\ \A m \in 1..(n - 1) : base^m <= v
  IN [i \in 1..n |-> symbols[((v \div base^(n - i)) % base) + 1]]

Wide(f) == f.length \in {"l", "ll"}
Bits(f) == CASE Wide(f) -> LongBits [] f.length = "hh" -> CharBits
             [] f.length = "h" -> ShortBits [] OTHER -> IntBits

\* The one argument kprintf does not treat as the standard does: an int that
\* does not fit the short type of h or hh.  It should be cut to that type,
\* and is used whole, with its sign in all bits of a long
\* (printf.cpp:185-202, against printf.hpp:17-20).
Uncut(f) ==
  /\ f.length \in {"h", "hh"}
  /\ IF f.conv \in {"d", "i"}
     THEN Signed(f.arg % IntSize, IntSize) \notin (-2^(Bits(f) - 1)) .. (2^(Bits(f) - 1) - 1)
     ELSE f.arg % IntSize >= 2^Bits(f)

\* The value to print: the standard's, but where the code does not cut.
SignedValue(f) ==
  LET size == IF Uncut(f) THEN IntSize ELSE 2^Bits(f) IN Signed(f.arg % size, size)
UnsignedValue(f) ==
  IF Uncut(f) THEN Signed(f.arg % IntSize, IntSize) % 2^LongBits ELSE f.arg % 2^Bits(f)

StandardNumber(f, sign, digits) ==
  LET blank == LET w == IF f.width < 0 THEN -f.width ELSE f.width
               IN w - Len(sign) - Len(digits)
  IN CASE "-" \in f.flags \/ f.width < 0 -> sign \o digits \o Repeat(" ", blank)
       [] "-" \notin f.flags /\ f.width >= 0 /\ "0" \in f.flags ->
            sign \o Repeat("0", blank) \o digits
       [] OTHER -> Repeat(" ", blank) \o sign \o digits

StandardSigned(f) ==
  LET value == SignedValue(f)
      sign  == CASE value < 0 -> <<"-">>
                 [] value >= 0 /\ "+" \in f.flags -> <<"+">>
                 [] value >= 0 /\ "+" \notin f.flags /\ " " \in f.flags -> <<" ">>
                 [] OTHER -> <<>>
  IN StandardNumber(f, sign, StandardDigits(IF value < 0 THEN -value ELSE value, 10, Lower))

StandardUnsigned(f) ==
  LET v == UnsignedValue(f)
      prefix == IF "#" \in f.flags THEN <<"0", f.conv>> ELSE <<>>
  IN CASE f.conv = "u" -> StandardNumber(f, <<>>, StandardDigits(v, 10, Lower))
       [] f.conv = "x" -> StandardNumber(f, prefix, StandardDigits(v, 16, Lower))
       [] OTHER -> StandardNumber(f, prefix, StandardDigits(v, 16, Upper))

\* The flag '#' is none of those the header lists: zeros would come before
\* the 0x, and 0 has one as well.
Promised(f) ==
  /\ f.conv \in {"d", "i", "u", "x", "X"}
  /\ f.conv \in {"d", "i"} \/ "#" \notin f.flags \/ ("0" \notin f.flags /\ f.arg # 0)

----------------------------------------------------------------------------
(* Properties.                                                             *)

\* kprintf writes what standard printf writes (printf.hpp: the flags, the
\* width and the length are used as there), for every word, width and set
\* of flags that header lists, but for one difference, against that header:
\* an argument of h or hh too large for the short type is printed whole
\* (Uncut).  The result is the number of characters, also where a text is
\* longer than its width; and the port has what the screen has, or alone has
\* it, with a carriage return before every new line.
FormatTrue ==
  LET text == Vsnprintf(console.format).text
  IN console # Nothing =>
       /\ console.written = Len(text)
       /\ console.screen = IF console.only THEN <<>> ELSE text
       /\ SelectSeq(port, LAMBDA ch : ch # "cr") = IF ready THEN text ELSE <<>>
       /\ \A f \in {console.format[1]} : Promised(f) =>
            text = IF f.conv \in {"d", "i"} THEN StandardSigned(f) ELSE StandardUnsigned(f)

\* What a report says is what happened: its lines are the first records of
\* the batch in their order, with their numbers in full, and the numbers of
\* those it printed, those it had no room to print and those the batch had
\* no room for add up to all that was recorded since the batch was cleared.
Dec(v) == StandardDigits(v, 10, Upper)
Hex(v) == <<"0", "x">> \o StandardDigits(v, 16, Upper)
Least(m, n) == IF m < n THEN m ELSE n

Said(e) ==
  <<"[">> \o Dec(e.tick) \o <<"] TID=">> \o Dec(e.tid)
  \o (CASE e.op = 1 -> <<" MOD=", "IPC", " OP=", "ipc_call">>
        [] OTHER -> <<" MOD=", "ACPI", " OP=", "acpi_shutdown">>)
  \o <<" ADDR=">> \o Hex(e.addr) \o <<" RET=">> \o Hex(e.ret)
  \o (IF e.extra # 0 THEN <<" X=">> \o Hex(e.extra) ELSE <<>>) \o <<"cr", "nl">>

ReportTrue ==
  LET all     == Len(told)
      kept    == Least(all, Capacity)
      printed == Least(kept, MaxPerFlush)
      header  == <<"log: ">> \o Dec(printed)
                 \o (IF all > kept THEN <<" dropped: ">> \o Dec(all - kept) ELSE <<>>)
                 \o <<"cr", "nl">>
      rest    == IF kept > printed
                 THEN <<"not printed: ">> \o Dec(kept - printed) \o <<"cr", "nl">> ELSE <<>>
  IN told # <<>> =>
       port = header \o FlattenSeq([i \in 1..printed |-> Said(told[i])]) \o rest
=============================================================================
