--------------------------------- MODULE Acpi ---------------------------------
(***************************************************************************)
(* Powering off: kernel/acpi.cpp, which looks up the port and the sleep    *)
(* type in the firmware's tables at boot and writes them at shutdown.  A   *)
(* firmware is a record: the root pointers in the EBDA and in the BIOS     *)
(* area, the place of a FADT in the BIOS area, and the table at each       *)
(* address.  Addresses are numbers, 0 none and FourGB the first too high.  *)
(* All tables are read through one window, so what a pointer into it shows *)
(* is the table fetched last.  Lengths are in order, and checksums are     *)
(* left out, as nothing depends on their outcome.                          *)
(***************************************************************************)
EXTENDS Naturals, Sequences, SequencesExt, FiniteSetsExt

CONSTANTS FourGB,     \* the least address that is refused
          MaxEntries  \* entries of a root table that are looked at

NoRsdp  == [revision |-> 0, rsdt |-> 0, xsdt |-> 0]
NoTable == [sig |-> "none", entries |-> <<>>, pm1a |-> 0, pm1b |-> 0, dsdt |-> 0, aml |-> <<>>]

Usable(a) == a # 0 /\ a < FourGB

\* The table that the window shows once the address has been fetched.
Window(fw, a) == IF a \in DOMAIN fw.tables THEN fw.tables[a] ELSE NoTable

----------------------------------------------------------------------------
(* Finding the tables.                                                     *)

\* The first root pointer is taken, whatever its checksum.
FindRsdp(fw) == IF fw.ebda # NoRsdp THEN fw.ebda ELSE fw.bios
RsdpXsdt(rsdp) == IF rsdp.revision < 2 THEN 0 ELSE rsdp.xsdt

\* Mutant: the entries are read in the window while tables are fetched into it.
TableOfStale(fw, root, sig) ==
  FoldLeft(LAMBDA at, i :
             IF Window(fw, at).sig = "FACP" THEN at
             ELSE LET now == Window(fw, at).entries
                  IN IF i \in DOMAIN now /\ Usable(now[i]) THEN now[i] ELSE at,
           root, [i \in 1..MaxEntries |-> i])

\* What is left in the window after a search: the FADT, if the table at root
\* is of the right kind and lists one; its entries are copied beforehand.
TableOf(fw, root, sig) ==
  LET table   == Window(fw, root)
      entries == SelectSeq(SubSeq(table.entries, 1, Min({MaxEntries, Len(table.entries)})),
                           Usable)
  IN IF Usable(root) /\ table.sig = sig
     THEN FoldLeft(LAMBDA at, e : IF Window(fw, at).sig = "FACP" THEN at ELSE e,
                   root, entries)
     ELSE 0

\* RSDT first, then XSDT, then the BIOS area itself.
FindFadt(fw) ==
  LET rsdp  == FindRsdp(fw)
      tries == <<TableOf(fw, rsdp.rsdt, "RSDT"), TableOf(fw, RsdpXsdt(rsdp), "XSDT"),
                 fw.facp>>
      hit   == SelectInSeq(tries, LAMBDA a : Window(fw, a).sig = "FACP")
  IN IF hit = 0 THEN 0 ELSE tries[hit]

----------------------------------------------------------------------------
(* The sleep type in the DSDT's byte code.                                 *)

NameOp    == 8
RootChar  == 92
PackageOp == 18
Prefixed == {10, 11, 12}
WidthOf == [b \in Prefixed |-> CASE b = 10 -> 1 [] b = 11 -> 2 [] b = 12 -> 4]
S5 == 256      \* the four bytes of the name, as one

NoNumber == 2^30

\* The number at k: a small one by itself, others little endian behind a prefix.
IntegerAt(p, k) ==
  CASE p[k] \in 0..9 -> p[k]
    [] p[k] \in Prefixed /\ k + WidthOf[p[k]] <= Len(p) ->
         FoldRight(LAMBDA b, acc : b + 256 * acc, SubSeq(p, k + 1, k + WidthOf[p[k]]), 0)
    [] OTHER -> NoNumber

\* Mutant: only names without the root prefix.
NamedPlainly(p, i) == p[i] = S5 /\ p[i - 1] = NameOp

\* The name is being defined at i, in the root with its prefix or without.
Named(p, i) ==
  /\ p[i] = S5
  /\ \/ p[i - 1] = NameOp
     \/ p[i - 1] = RootChar /\ (i > 2 => p[i - 2] = NameOp)

\* The first element of the package at j comes after the package's length, of
\* one to four bytes, and the number of elements.
FirstElement(p, j) ==
  IF j = Len(p) THEN j + 1 ELSE j + 3 + p[j + 1] \div 64

\* The type in the package that follows the name at i within 32 bytes.
TypeAfter(p, i) ==
  LET last  == Min({i + 32, Len(p)})
      stops == {j \in i + 1 .. last : /\ p[j] = PackageOp
                                      /\ FirstElement(p, j) <= Len(p)
                                           => IntegerAt(p, FirstElement(p, j)) # NoNumber}
  IN IF stops = {} \/ FirstElement(p, Min(stops)) > Len(p) THEN NoNumber
     ELSE IntegerAt(p, FirstElement(p, Min(stops)))

ParseS5(p) ==
  LET found == {i \in 2 .. Len(p) - 1 : Named(p, i) /\ TypeAfter(p, i) # NoNumber}
  IN IF found = {} THEN NoNumber ELSE TypeAfter(p, Min(found))

----------------------------------------------------------------------------
(* What boot finds, and what shutdown writes.                              *)

\* The ports are taken out of the FADT before the DSDT comes into the window.
AcpiInit(fw) ==
  LET fadt == Window(fw, FindFadt(fw))
      dsdt == Window(fw, fadt.dsdt)
  IN [available |-> FindFadt(fw) # 0 /\ fadt.pm1a # 0,
      pm1a |-> fadt.pm1a, pm1b |-> fadt.pm1b,
      typa |-> IF Usable(fadt.dsdt) /\ dsdt.sig = "DSDT" THEN ParseS5(dsdt.aml) ELSE NoNumber]

SlpEn == 8192
Guesses == <<5, 0, 3, 7, 1>>

\* The type that was parsed comes first, then the usual ones, none twice.
\* (CandidatesParsed: once a type was parsed, no other is tried.)
CandidatesParsed(typa) == IF typa <= 7 THEN <<typa>> ELSE Guesses
Candidates(typa) ==
  (IF typa <= 7 THEN <<typa>> ELSE <<>>)
    \o SelectSeq(Guesses, LAMBDA t : t # typa)

\* One write to each control register that there is, PM1b's first: both get
\* the same type.
AcpiShutdown(acpi) ==
  IF ~acpi.available THEN <<>>
  ELSE LET Write(t) == (IF acpi.pm1b # 0 THEN <<[port |-> acpi.pm1b, val |-> t * 1024 + SlpEn]>>
                        ELSE <<>>) \o <<[port |-> acpi.pm1a, val |-> t * 1024 + SlpEn]>>
       IN FlattenSeq([i \in DOMAIN Candidates(acpi.typa) |-> Write(Candidates(acpi.typa)[i])])
=============================================================================
