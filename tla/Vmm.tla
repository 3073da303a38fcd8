-------------------------------- MODULE Vmm ---------------------------------
(***************************************************************************)
(* The page tables of kernel/vmm.cpp and those that boot32.asm leaves it.  *)
(*                                                                         *)
(* A table has W entries instead of 512; a page is a number, whose digits  *)
(* to the base W are the four indices.  m.tables gives for every frame     *)
(* that holds a table its present entries.  An entry of a page directory   *)
(* may be huge: it maps W pages at once.  Flags are left out but for that  *)
(* one, and so is the TLB, which every change flushes.                     *)
(*                                                                         *)
(* The kernel reaches a table at the direct map's address of its frame     *)
(* (table_virt); here it is read and written whatever that address maps.   *)
(***************************************************************************)
EXTENDS Pmm, SequencesExt

CONSTANTS W,           \* ENTRIES_PER_TABLE
          BootFrame    \* the first frame of .boot_pgtable

ASSUME VmmAssumption ==
  /\ W \in Nat /\ W >= 8 /\ W % 2 = 0
  /\ BootFrame \in Nat \ {0}
  /\ BootFrame .. BootFrame + 8 \subseteq Image

Idx == 0 .. W - 1

\* The page with these four indices, and each index of a page.
Page(i, j, k, l) == ((i * W + j) * W + k) * W + l
Pml4Index(v) == v \div (W * W * W)
PdptIndex(v) == (v \div (W * W)) % W
PdIndex(v)   == (v \div W) % W
PtIndex(v)   == v % W

UserHalf   == 0 .. W \div 2 - 1
KernelHalf == W \div 2 .. W - 1

Entry(f)     == [frame |-> f, huge |-> FALSE]
HugeEntry(f) == [frame |-> f, huge |-> TRUE]

\* The nine tables of boot32.asm: every address below the fourth directory's
\* end is mapped to itself, and the last two directories map the first frames
\* once more.
KernelRoot == BootFrame
PdptLow    == BootFrame + 1
PdptHigh   == BootFrame + 2
PdLow(i)   == BootFrame + 3 + i
PdHigh(i)  == BootFrame + 7 + i

FillPd(base) == [k \in Idx |-> HugeEntry(base + k * W)]

BootTables ==
  [f \in BootFrame .. BootFrame + 8 |->
     CASE f = KernelRoot -> [i \in {0, W - 1} |->
                               Entry(IF i = 0 THEN PdptLow ELSE PdptHigh)]
       [] f = PdptLow    -> [j \in 0 .. 3 |-> Entry(PdLow(j))]
       [] f = PdptHigh   -> [j \in {W - 2, W - 1} |-> Entry(PdHigh(j - (W - 2)))]
       [] f \in PdLow(0) .. PdLow(3) -> FillPd((f - PdLow(0)) * W * W)
       [] OTHER          -> FillPd((f - PdHigh(0)) * W * W)]

\* table_virt: where the kernel reads and writes frame f.
TableVirt(f) == Page(W - 1, W - 2, 0, 0) + f

----------------------------------------------------------------------------

\* Entry i of table t becomes e; entry i of table t is cleared.
Put(tables, t, i, e) ==
  [tables EXCEPT ![t] = [x \in DOMAIN @ \cup {i} |-> IF x = i THEN e ELSE @[x]]]
Clear(tables, t, i) ==
  [tables EXCEPT ![t] = [x \in DOMAIN @ \ {i} |-> @[x]]]

\* Frame f becomes a table with these entries.
MakeTable(tables, f, entries) ==
  [x \in DOMAIN tables \cup {f} |-> IF x = f THEN entries ELSE tables[x]]

EmptyTable == [i \in {} |-> Entry(None)]

Present(m, t, i) == i \in DOMAIN m.tables[t]

\* A table that was just allocated goes into entry i of the table m.at.
AddTable(m, i, entries) ==
  IF m.got = None THEN [m EXCEPT !.ok = FALSE]
  ELSE [m EXCEPT !.tables = Put(MakeTable(@, m.got, entries), m.at, i, Entry(m.got))]

Enter(m) == IF m.ok THEN [m EXCEPT !.at = m.got] ELSE m

\* get_or_create_table, from the table m.at to the one below it.
GetOrCreateTable(m, i) ==
  IF ~ m.ok THEN m
  ELSE IF Present(m, m.at, i) THEN [m EXCEPT !.at = m.tables[m.at][i].frame]
  ELSE Enter(AddTable(AllocFrameBelow(m, TableTop), i, EmptyTable))

\* A huge page becomes a table of the pages it consisted of.
SplitHuge(m, k) ==
  IF m.ok /\ Present(m, m.at, k) /\ m.tables[m.at][k].huge
  THEN AddTable(AllocFrameBelow(m, TableTop), k,
                [l \in Idx |-> Entry(m.tables[m.at][k].frame + l)])
  ELSE m

SetEntry(m, i, f) ==
  IF m.ok THEN [m EXCEPT !.tables = Put(@, m.at, i, Entry(f))] ELSE m

MapPageIn(m, root, v, f) ==
  LET pdpt == GetOrCreateTable([m EXCEPT !.at = root], Pml4Index(v))
      pd   == GetOrCreateTable(pdpt, PdptIndex(v))
      pt   == GetOrCreateTable(SplitHuge(pd, PdIndex(v)), PdIndex(v))
  IN SetEntry(pt, PtIndex(v), f)

Count(n) == [i \in 1 .. n |-> i - 1]

\* n pages, up to the first that fails.
MapPagesIn(m, root, v, f, n) ==
  LET map(a, i) == IF a.ok THEN MapPageIn(a, root, v + i, f + i) ELSE a
  IN FoldLeft(map, m, Count(n))

\* The table in entry i of table t, None if there is none.
Child(m, t, i) ==
  IF t # None /\ Present(m, t, i) THEN m.tables[t][i].frame ELSE None

\* The page directory that covers page v.
PdOf(m, root, v) == Child(m, Child(m, root, Pml4Index(v)), PdptIndex(v))

\* Mutant for TempWindowStays: the whole page directory entry is cleared.
UnmapIn_WholeEntry(m, pd, v) ==
  IF pd = None \/ ~ Present(m, pd, PdIndex(v)) THEN m
  ELSE [m EXCEPT !.tables = Clear(@, pd, PdIndex(v))]

\* unmap_page, always of the kernel's tables: a huge page goes as a whole.
UnmapIn(m, pd, v) ==
  IF pd = None \/ ~ Present(m, pd, PdIndex(v)) THEN m
  ELSE IF m.tables[pd][PdIndex(v)].huge
       THEN [m EXCEPT !.tables = Clear(@, pd, PdIndex(v))]
       ELSE [m EXCEPT !.tables = Clear(@, m.tables[pd][PdIndex(v)].frame, PtIndex(v))]

UnmapPage(m, v) == UnmapIn(m, PdOf(m, KernelRoot, v), v)

UnmapPages(m, v, n) ==
  LET unmap(a, i) == UnmapPage(a, v + i)
  IN FoldLeft(unmap, m, Count(n))

\* get_phys_in: the frame behind page v, None if it is not mapped.
PhysIn(m, pd, v) ==
  IF pd = None \/ ~ Present(m, pd, PdIndex(v)) THEN None
  ELSE IF m.tables[pd][PdIndex(v)].huge THEN m.tables[pd][PdIndex(v)].frame + PtIndex(v)
  ELSE Child(m, m.tables[pd][PdIndex(v)].frame, PtIndex(v))

GetPhysIn(m, root, v) == PhysIn(m, PdOf(m, root, v), v)

----------------------------------------------------------------------------
(* What an address space consists of, for the properties.                  *)

\* One level down: S holds pairs of the leading digits of a page and the
\* table these lead to.  Only entries in I count, and no huge ones.
Down(m, S, I) ==
  UNION {{<<s[1] * W + i, m.tables[s[2]][i].frame>> :
            i \in {i \in DOMAIN m.tables[s[2]] \cap I : ~ m.tables[s[2]][i].huge}}
         : s \in S}

Pdpts(m, root, I) == Down(m, {<<0, root>>}, I)
Pds(m, root, I)   == Down(m, Pdpts(m, root, I), Idx)
Pts(m, root, I)   == Down(m, Pds(m, root, I), Idx)

\* The 4 KB pages below entries I of root, each with its frame, and the
\* frames of the tables that lead there.
Mapped(m, root, I) == Down(m, Pts(m, root, I), Idx)
Frames(S) == {s[2] : s \in S}
Tables(m, root, I) == Frames(Pdpts(m, root, I) \cup Pds(m, root, I) \cup Pts(m, root, I))
=============================================================================
