----------------------------- MODULE MCServices -----------------------------
(* An instance: every program, an unknown one, an empty line, a backspace, *)
(* a line longer than the shell's buffer, and keys typed ahead.  A machine *)
(* that is told to shut down may have any of the firmwares below.          *)
EXTENDS Services, Acpi

MCScripts == {
  <<"e", "Space", "x", "x", "Enter">>,
  <<"Space", "x", "Bksp", "c", "Enter", "Enter">>,
  <<"u", "Enter", "p", "Enter">>,
  <<"z", "Enter", "r", "Enter">>,
  <<"Bksp", "s", "Space", "a", "b", "c", "Enter">>}

----------------------------------------------------------------------------
(* Firmwares: the sleep type of the machine, how its byte code says it, and *)
(* where its tables are.                                                    *)

Numeral(t) ==
  (IF t <= 1 THEN {<<t>>} ELSE {})
    \cup {<<10, t>>, <<11, t, 0>>, <<12, t, 0, 0, 0>>}

\* The package of both types, its length in one to three bytes.
PackageOf(num) ==
  {<<PackageOp>> \o l \o <<2>> \o num \o num : l \in {<<8>>, <<64, 8>>, <<128, 8, 0>>}}

\* Before it: nothing, a use of the name, a package with another name.
Before == {<<>>, <<91, PackageOp, RootChar, S5, 96>>, <<NameOp, 300, PackageOp, 4, 1, 10, 6>>}

MeantBy(t) ==
  {b \o root \o <<S5>> \o p :
     b \in Before, root \in {<<NameOp>>, <<NameOp, RootChar>>},
     p \in UNION {PackageOf(n) : n \in Numeral(t)}}

\* Byte code that says nothing, or something else.
Misleading == {<<NameOp, 300, 0>>, <<NameOp, S5, PackageOp, 4, 1, 10, 6>>, <<NameOp, S5, PackageOp>>}

\* Three tables that are not the FADT, the one at 4 with numbers in its place.
FADT(pm1b, dsdt) == [NoTable EXCEPT !.sig = "FACP", !.pm1a = 1, !.pm1b = pm1b, !.dsdt = dsdt]
Tables(aml, pm1b) ==
  (1 :> [NoTable EXCEPT !.sig = "RSDT", !.entries = <<4, 0, FourGB, 3>>])
  @@ (2 :> [NoTable EXCEPT !.sig = "RSDT", !.entries = <<4, 4, 4, 4, 4>>])
  @@ (3 :> FADT(pm1b, 6))
  @@ (4 :> [NoTable EXCEPT !.sig = "APIC", !.entries = <<5, 5, 5, 5>>, !.pm1a = 9, !.dsdt = 6])
  @@ (5 :> [NoTable EXCEPT !.sig = "XSDT", !.entries = <<4, 3>>])
  @@ (6 :> [NoTable EXCEPT !.sig = "DSDT", !.aml = aml, !.pm1a = 9, !.pm1b = 9])

Rsdp(rev, rsdt, xsdt) == [revision |-> rev, rsdt |-> rsdt, xsdt |-> xsdt]
Pointers == {NoRsdp, Rsdp(0, 1, 0), Rsdp(2, 2, 5), Rsdp(2, FourGB, 5), Rsdp(0, 2, 5)}

\* The machine's FADT can be found: a root table below 4 GB that this revision
\* of the root pointer has, or the BIOS area itself, leads to it.
Findable(rsdp, facp) ==
  facp # 0 \/ rsdp.rsdt = 1 \/ (rsdp.revision = 2 /\ rsdp.xsdt = 5)

Machine(type, says, pm1b, rsdp, inEbda, facp) ==
  [type |-> type, pm1b |-> pm1b,
   known |-> Findable(rsdp, facp) /\ (says \in MeantBy(type) \/ type \in Range(Guesses)),
   fw |-> [ebda |-> IF inEbda THEN rsdp ELSE NoRsdp,
           bios |-> IF inEbda THEN NoRsdp ELSE rsdp,
           facp |-> facp, tables |-> Tables(says, pm1b)]]

\* Every way to say the type, and every way to the tables.
Machines ==
  {Machine(t, says, 0, Rsdp(0, 1, 0), TRUE, 0) : t \in {2, 4, 5}, says \in Misleading}
  \cup UNION {{Machine(t, says, 2, Rsdp(2, 2, 5), FALSE, 0) : says \in MeantBy(t)} : t \in 0..7}
  \cup {Machine(6, <<NameOp, S5, PackageOp, 6, 2, 10, 6, 10, 6>>, pm1b, rsdp, inEbda, facp) :
          pm1b \in {0, 2}, rsdp \in Pointers, inEbda \in BOOLEAN, facp \in {0, 3}}

----------------------------------------------------------------------------
\* A machine goes off once its registers have its type with SLP_EN.
Value(m) == m.type * 1024 + SlpEn
OffAfter(m, writes) ==
  \E i \in DOMAIN writes :
    /\ writes[i] = [port |-> 1, val |-> Value(m)]
    /\ m.pm1b # 0 => i > 1 /\ writes[i - 1] = [port |-> m.pm1b, val |-> Value(m)]

ShutDown(m) ==
  LET writes == AcpiShutdown(AcpiInit(m.fw))
  IN /\ m.known => OffAfter(m, writes)
     /\ \A i \in DOMAIN writes : writes[i].port \in {1, m.pm1b} \ {0}

EveryMachineOff == \A m \in Machines : ShutDown(m)

\* SHUTDOWN powers off every machine whose FADT can be found, if its type is
\* one of the usual ones or the byte code gives it, and writes to no port but
\* its control registers, none at all if it has found none (acpi.cpp:1-17,
\* 366-375, 556-597).
PowersOff == machine = "off" => EveryMachineOff
=============================================================================
