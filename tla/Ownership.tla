----------------------------- MODULE Ownership -----------------------------
(***************************************************************************)
(* The inductive invariant of Processes.tla and the words its proofs are   *)
(* written in.  They speak of a history g, which says of every table       *)
(* whether it belongs to the kernel or to which process (g.own), its level *)
(* (g.lev) and the digits that the pages below it begin with (g.key).      *)
(* Good is what every function of vmm.cpp keeps, Later how one memory may  *)
(* follow another, IInv what every step keeps.                             *)
(***************************************************************************)
EXTENDS Processes

----------------------------------------------------------------------------
(* Pages and their digits.                                                 *)

\* The page, or the leading digits of a page, that entry i of a table whose
\* pages begin with the digits k leads to.
Sub(k, i) == k * W + i

Top == Page(W, 0, 0, 0)

\* The pages of the heap, and those under the entry of the root it is in.
InHeap(v)     == HeapStart <= v /\ v < TempWindow
InHeapPart(v) == HeapStart <= v /\ v < Page(W - 2, 0, 0, 0)
Pages == 0 .. Top - 1

----------------------------------------------------------------------------
(* The frames.                                                             *)

\* A record of the memory, and its fields that the page tables' functions
\* leave alone.
IsMemory(m) ==
  /\ m = [ram |-> m.ram, taken |-> m.taken, used |-> m.used, tables |-> m.tables,
          heapEnd |-> m.heapEnd, ipcPage |-> m.ipcPage, threads |-> m.threads,
          got |-> m.got, at |-> m.at, root |-> m.root, ok |-> m.ok, fault |-> m.fault]
  /\ m.ok \in BOOLEAN

SameElse(m, a) ==
  /\ a.ram = m.ram /\ a.heapEnd = m.heapEnd /\ a.ipcPage = m.ipcPage
  /\ a.threads = m.threads /\ a.root = m.root /\ a.fault = m.fault

\* The bitmap and the counter: what is no memory and what is the image is
\* taken, and what else is taken is counted.
Framed(m) ==
  /\ m.ram \in RamSizes
  /\ m.taken \subseteq 0 .. m.ram - 1
  /\ (0 .. m.ram - 1) \ Managed(m.ram) \subseteq m.taken
  /\ Image \subseteq m.taken
  /\ m.used = Cardinality(m.taken \cap Managed(m.ram))

\* n frames in a row.
Run(f, n) == f .. f + n - 1

----------------------------------------------------------------------------
(* The tables.  A history g says of every table, whether a process that is *)
(* complete, one whose creation failed or the kernel has it, how far above *)
(* the pages it is (g.lev), the root it belongs to (g.own), and the digits *)
(* with which its pages begin (g.key).                                     *)

\* Whose the table below entry i of table t is.
OwnerBelow(g, t, i) ==
  IF g.lev[t] = 4 /\ i \in KernelHalf THEN KernelRoot ELSE g.own[t]

\* Entry i of table t leads to another table.
Leads(T, g, t, i) ==
  t \in DOMAIN T /\ i \in DOMAIN T[t] /\ g.lev[t] > 1 /\ ~T[t][i].huge

\* Only the kernel has huge pages, and none where the heap is.
HugeOK(g, t, i) ==
  /\ g.lev[t] = 2 /\ g.own[t] = KernelRoot
  /\ \A l \in Idx : ~InHeapPart(Sub(Sub(g.key[t], i), l))

TablesTyped(T, g) ==
  /\ KernelRoot \in DOMAIN T
  /\ \A t \in DOMAIN T :
       /\ g.lev[t] \in 1 .. 4 /\ g.own[t] \in DOMAIN T /\ g.key[t] \in Nat
       /\ g.lev[g.own[t]] = 4
       /\ g.lev[t] = 4 => g.own[t] = t /\ g.key[t] = 0
  /\ g.lev[KernelRoot] = 4
  /\ \A t \in DOMAIN T : DOMAIN T[t] \subseteq Idx
  /\ \A t \in DOMAIN T : \A i \in DOMAIN T[t] :
       /\ T[t][i] = [frame |-> T[t][i].frame, huge |-> T[t][i].huge]
       /\ T[t][i].frame \in Nat
       /\ T[t][i].huge \in BOOLEAN
       /\ T[t][i].huge => HugeOK(g, t, i)

\* An entry leads to a table one step down, of the same owner ...
Below(T, g, t, i) ==
  /\ T[t][i].frame \in DOMAIN T
  /\ g.lev[T[t][i].frame] = g.lev[t] - 1
  /\ g.key[T[t][i].frame] = Sub(g.key[t], i)
  /\ g.own[T[t][i].frame] = OwnerBelow(g, t, i)

TablesLead(T, g) ==
  \A t \in DOMAIN T : \A i \in DOMAIN T[t] : Leads(T, g, t, i) => Below(T, g, t, i)

\* ... every table but a root is found below another of its owner ...
FoundAt(T, g, c, t, i) ==
  /\ Leads(T, g, t, i) /\ T[t][i].frame = c /\ g.own[t] = g.own[c]

TablesFound(T, g) ==
  \A c \in DOMAIN T : g.lev[c] # 4 => \E t \in DOMAIN T : \E i \in Idx : FoundAt(T, g, c, t, i)

\* ... and no two tables are for the same pages of the same owner.
TablesApart(T, g) ==
  \A s, t \in DOMAIN T :
    g.lev[s] = g.lev[t] /\ g.own[s] = g.own[t] /\ g.key[s] = g.key[t] => s = t

Tree(T, g) ==
  TablesTyped(T, g) /\ TablesLead(T, g) /\ TablesFound(T, g) /\ TablesApart(T, g)

\* Entry i of table t is a page that belongs to a process or to the heap.
Guarded(T, g, t, i) ==
  /\ t \in DOMAIN T /\ i \in DOMAIN T[t] /\ g.lev[t] = 1
  /\ g.own[t] # KernelRoot \/ InHeap(Sub(g.key[t], i))

\* What the processes share, and where they have it.
Common(m) == TextFrames \cup DataFrames \cup {m.ipcPage}

Placed(m, v, f) ==
  \/ f \in TextFrames /\ v = CodeBase + (f - TextFrame)
  \/ f \in DataFrames /\ v = DataBase + (f - DataFrame)
  \/ f = m.ipcPage /\ f # None /\ v = IpcVirt

\* A frame that is nothing else: R are frames that are set aside.
Plain(m, f) ==
  f \in m.taken /\ f \in Managed(m.ram) /\ f \notin Image /\ f \notin DOMAIN m.tables

PagesOK(m, g, R) ==
  \A t \in DOMAIN m.tables : \A i \in DOMAIN m.tables[t] :
    Guarded(m.tables, g, t, i) =>
      LET f == m.tables[t][i].frame
      IN IF f \in Common(m)
         THEN g.own[t] # KernelRoot /\ Placed(m, Sub(g.key[t], i), f)
         ELSE Plain(m, f) /\ f \notin R

\* No two pages are in one frame that is not shared.
PagesApart(m, g) ==
  \A s, t \in DOMAIN m.tables : \A i \in DOMAIN m.tables[s], j \in DOMAIN m.tables[t] :
    /\ Guarded(m.tables, g, s, i) /\ Guarded(m.tables, g, t, j)
    /\ m.tables[s][i].frame = m.tables[t][j].frame
    /\ m.tables[s][i].frame \notin Common(m)
    => s = t /\ i = j

TablesOK(m, g) ==
  \A t \in DOMAIN m.tables :
    /\ t \in m.taken /\ t # None /\ t \in Nat
    /\ IF t \in Image THEN g.own[t] = KernelRoot ELSE t \in Managed(m.ram)

AsideOK(m, R) ==
  /\ \A f \in R : Plain(m, f)
  /\ m.ipcPage # None => m.ipcPage \in R
  /\ m.ipcPage \in Nat

Good(m, g, R) ==
  /\ IsMemory(m) /\ Framed(m) /\ Tree(m.tables, g)
  /\ PagesOK(m, g, R) /\ PagesApart(m, g) /\ TablesOK(m, g) /\ AsideOK(m, R)

\* What the steps from m to a leave alone when they map or unmap pages of V:
\* no table goes away or becomes another's, those of owners not in O stay as
\* they are, and so does what leads to another table.
Kept(T, g, U, h, O) ==
  /\ DOMAIN T \subseteq DOMAIN U
  /\ \A t \in DOMAIN T : h.lev[t] = g.lev[t] /\ h.own[t] = g.own[t] /\ h.key[t] = g.key[t]
  /\ \A t \in DOMAIN T : g.own[t] \notin O => U[t] = T[t]
  /\ \A t \in DOMAIN U \ DOMAIN T : h.own[t] \in O

EntriesKept(T, g, U) ==
  \A t \in DOMAIN T : \A i \in DOMAIN T[t] :
    Leads(T, g, t, i) => i \in DOMAIN U[t] /\ U[t][i] = T[t][i]

\* A root that is not empty gets no other entries than those for V.
RootKept(T, g, U, V) ==
  \A t \in DOMAIN T : g.lev[t] = 4 /\ DOMAIN T[t] # {} =>
    \A i \in DOMAIN U[t] : i \in DOMAIN T[t] \/ \E v \in V : i = Pml4Index(v)

LeavesKept(T, g, U, V) ==
  \A t \in DOMAIN T : \A i \in Idx :
    g.lev[t] = 1 /\ Sub(g.key[t], i) \notin V =>
      /\ i \in DOMAIN U[t] <=> i \in DOMAIN T[t]
      /\ i \in DOMAIN T[t] => U[t][i] = T[t][i]

GuardedKept(T, g, U, h, V) ==
  \A t \in DOMAIN U : \A i \in DOMAIN U[t] :
    Guarded(U, h, t, i) /\ Sub(h.key[t], i) \notin V => Guarded(T, g, t, i)

Moved(T, g, U, h, O, V) ==
  /\ Kept(T, g, U, h, O) /\ EntriesKept(T, g, U) /\ RootKept(T, g, U, V)
  /\ LeavesKept(T, g, U, V) /\ GuardedKept(T, g, U, h, V)

Later(m, g, a, h, O, V) == SameElse(m, a) /\ Moved(m.tables, g, a.tables, h, O, V)

\* Nothing is lost: a frame that is taken is the image's, set aside, a table
\* or a page.
Covered(m, g, R) ==
  \A f \in m.taken \cap Managed(m.ram) :
    \/ f \in Image \/ f \in R \/ f \in DOMAIN m.tables
    \/ \E t \in DOMAIN m.tables : \E i \in DOMAIN m.tables[t] :
         Guarded(m.tables, g, t, i) /\ m.tables[t][i].frame = f

----------------------------------------------------------------------------
(* A table that was set aside goes below entry i of table d.               *)

Grown(T, d, i, c, entries, U) ==
  /\ DOMAIN U = DOMAIN T \cup {c}
  /\ U[c] = entries
  /\ \A t \in DOMAIN T \ {d} : U[t] = T[t]
  /\ DOMAIN U[d] = DOMAIN T[d] \cup {i}
  /\ U[d][i] = Entry(c)
  /\ \A j \in DOMAIN T[d] \ {i} : U[d][j] = T[d][j]

\* The history with the new table.
Extended(T, g, d, i, c) ==
  [lev |-> [x \in DOMAIN T \cup {c} |-> IF x = c THEN g.lev[d] - 1 ELSE g.lev[x]],
   own |-> [x \in DOMAIN T \cup {c} |-> IF x = c THEN g.own[d] ELSE g.own[x]],
   key |-> [x \in DOMAIN T \cup {c} |-> IF x = c THEN Sub(g.key[d], i) ELSE g.key[x]]]

\* Entry i of table d may be given a table.
Vacant(T, g, d, i) ==
  /\ d \in DOMAIN T /\ i \in Idx /\ g.lev[d] > 1
  /\ i \in DOMAIN T[d] => T[d][i].huge
  /\ g.lev[d] = 4 => d = KernelRoot \/ i \in UserHalf

\* What a new table below it may hold: nothing, or the pages of a huge page.
Filling(T, g, d, i, entries) ==
  \/ DOMAIN entries = {}
  \/ /\ i \in DOMAIN T[d] /\ T[d][i].huge
     /\ DOMAIN entries = Idx
     /\ \A l \in Idx : \E f \in Nat : entries[l] = Entry(f)

\* What is behind entry i of table d, after h was written down.
Led(T, h, g, d, i, c) ==
  /\ i \in DOMAIN T[d] /\ T[d][i] = Entry(c) /\ c \in DOMAIN T
  /\ h.lev[c] = g.lev[d] - 1 /\ h.own[c] = g.own[d] /\ h.key[c] = Sub(g.key[d], i)

\* A step that only makes tables, on the way to page v in the tables of o.
Quiet(m, g, a, h, o, v) ==
  Later(m, g, a, h, {o}, {v}) /\ GuardedKept(m.tables, g, a.tables, h, {})

----------------------------------------------------------------------------
(* The functions that map a page.                                          *)

\* Where the descent to page v in the tables of o is: at a table of level n
\* whose pages begin with the digits k.
AtTable(T, g, t, o, n, k) ==
  t \in DOMAIN T /\ g.lev[t] = n /\ g.own[t] = o /\ g.key[t] = k

\* Entry i of table t is not a huge page.
Small(T, t, i) == i \in DOMAIN T[t] => ~T[t][i].huge

\* One level below that, behind entry i.
Under(T, g, t, o, n, k, i) == AtTable(T, g, t, o, n - 1, Sub(k, i))

\* What the index in a root must be.
AtRoot(n, o, i, v) == n = 4 => i = Pml4Index(v) /\ (o = KernelRoot \/ i \in UserHalf)

\* Whether a page of the tables of o belongs to somebody.
Guards(o, v) == o # KernelRoot \/ InHeap(v)

\* Frame f may be mapped at such a page: it was set aside, or it is shared.
May(m, o, v, f, R) ==
  Guards(o, v) => \/ f \in R /\ f \notin Common(m)
                  \/ o # KernelRoot /\ f \in Common(m) /\ Placed(m, v, f)

\* What is still set aside when it is mapped.
Rest(m, o, v, f, R) == IF Guards(o, v) /\ f \notin Common(m) THEN R \ {f} ELSE R

\* Page v of the tables of o is in frame f.
Leaf(T, g, o, v, f) ==
  \E t \in DOMAIN T : \E i \in DOMAIN T[t] :
    g.lev[t] = 1 /\ g.own[t] = o /\ Sub(g.key[t], i) = v /\ T[t][i].frame = f

\* Nothing that belongs to somebody is at page v of the tables of o.
Fresh(T, g, o, v) ==
  \A t \in DOMAIN T : \A i \in DOMAIN T[t] :
    Guarded(T, g, t, i) /\ g.own[t] = o => Sub(g.key[t], i) # v

\* Entry i of table t is what has changed.
Changed(T, t, i, f, U) ==
  /\ DOMAIN U = DOMAIN T /\ \A s \in DOMAIN T \ {t} : U[s] = T[s]
  /\ DOMAIN U[t] = DOMAIN T[t] \cup {i} /\ U[t][i] = Entry(f)
  /\ \A j \in DOMAIN T[t] \ {i} : U[t][j] = T[t][j]

\* A root, and a page its owner may have.
RootOf(T, g, o, v) ==
  /\ o \in DOMAIN T /\ g.lev[o] = 4 /\ v \in Pages
  /\ o = KernelRoot \/ Pml4Index(v) \in UserHalf

\* Frame f, which may be mapped at page v of the tables of o, is, or nothing
\* was left to make a table of; R are the frames that were set aside before.
Mapping(m, g, R, o, v, f, a) ==
  \E h, S :
    /\ Good(a, h, S) /\ Later(m, g, a, h, {o}, {v})
    /\ S = (IF a.ok = TRUE THEN Rest(m, o, v, f, R) ELSE R)
    /\ a.ok = TRUE => Leaf(a.tables, h, o, v, f)
    /\ Covered(m, g, R) /\ Fresh(m.tables, g, o, v) => Covered(a, h, S)

----------------------------------------------------------------------------
(* The way from a root to a table, and what an address space maps.         *)

\* Entry i of table t leads to table c.
Leading(T, t, i, c) ==
  t \in DOMAIN T /\ i \in DOMAIN T[t] /\ i \in Idx /\ ~T[t][i].huge /\ T[t][i].frame = c

\* Where the way up from table c ends, and its next step: entry i of table t.
AtTop(n, t, o, i, j) == n = 3 => t = o /\ j = 0 /\ (o = KernelRoot \/ i \in UserHalf)

StepsUp(T, g, c, o, n, k) ==
  \E t, i, j : /\ Leading(T, t, i, c) /\ AtTable(T, g, t, o, n + 1, j) /\ k = Sub(j, i)
               /\ j \in Nat /\ i \in Idx /\ AtTop(n, t, o, i, j)

\* The tables on the way to page v, and the digits of v.
Way(T, g, o, v, t3, t2, t1) ==
  /\ Leading(T, o, Pml4Index(v), t3) /\ Leading(T, t3, PdptIndex(v), t2)
  /\ Leading(T, t2, PdIndex(v), t1)
  /\ o = KernelRoot \/ Pml4Index(v) \in UserHalf
  /\ \E k3, k2, k1 : /\ AtTable(T, g, t3, o, 3, k3) /\ AtTable(T, g, t2, o, 2, k2)
                     /\ AtTable(T, g, t1, o, 1, k1)

----------------------------------------------------------------------------
(* What an address space maps, and the tables it consists of.              *)

\* S are tables of level n in the address space of o; only entries in I lead
\* on from a root.
Level(T, g, o, n, S) == \A s \in S : AtTable(T, g, s[2], o, n, s[1])
Inside(n, o, I)      == n = 4 => o = KernelRoot \/ I \subseteq UserHalf
OneDown(n)           == n - 1

IsPair(p) == p = <<p[1], p[2]>>

\* Where all tables of an owner are.
Whole(o, I) == IF o = KernelRoot THEN I = Idx ELSE I = UserHalf

----------------------------------------------------------------------------
(* Loops.  Each is a fold whose step is one of these.                      *)

Step(kind, c, a, x) ==
  CASE kind = "map"     -> IF a.ok THEN MapPageIn(a, c.root, c.v + (x - 1), c.f + (x - 1)) ELSE a
    [] kind = "grow"    -> GrowPage(a, x - 1)
    [] kind = "unmap"   -> UnmapPage(a, c.v + (x - 1))
    [] kind = "replace" -> ReplacePage(a, AcpiWin + (x - 1), c.f + (x - 1))
    [] OTHER            -> LoadSegment(a, c[x])

StepRound(kind, c, base, it, s) ==
  IF s = {} THEN base ELSE Step(kind, c, it[s \ {Max(s)}], Max(s))
StepTable(kind, c, base, n, it) == [s \in SUBSET (1 .. n) |-> StepRound(kind, c, base, it, s)]

\* What the loop has after each of its rounds.
Loop(kind, c, base, n, st, end) ==
  /\ st[0] = base /\ st[n] = end
  /\ \A i \in 0 .. n - 1 : st[i + 1] = Step(kind, c, st[i], i + 1)

----------------------------------------------------------------------------
(* The functions that give something back.                                 *)

\* Entry i of table t of the kernel may go: a page that is not the heap's, or
\* a huge page.
Loose(T, g, t, i, v) ==
  /\ t \in DOMAIN T /\ g.own[t] = KernelRoot /\ i \in Idx
  /\ \/ g.lev[t] = 1 /\ v = Sub(g.key[t], i) /\ ~InHeap(v)
     \/ g.lev[t] = 2 /\ i \in DOMAIN T[t] /\ T[t][i].huge

Cleared(T, t, i, U) ==
  /\ DOMAIN U = DOMAIN T /\ \A s \in DOMAIN T \ {t} : U[s] = T[s]
  /\ DOMAIN U[t] = DOMAIN T[t] \ {i}
  /\ \A j \in DOMAIN T[t] \ {i} : U[t][j] = T[t][j]

----------------------------------------------------------------------------
(* The page directory of a page, what unmap_page and get_phys_in make of   *)
(* it, and the window through which create_user_pml4 reaches a new table.  *)

\* The digits of page v above its directory's entries, and above its table's.
Key2(v) == Sub(Sub(0, Pml4Index(v)), PdptIndex(v))
Key1(v) == Sub(Key2(v), PdIndex(v))

\* The kernel has a page table for the window.
Window(T, g) == \E t \in DOMAIN T : AtTable(T, g, t, KernelRoot, 1, Key1(TempWindow))

\* Root r has the kernel's half of the kernel's root.
Agrees(T, r) ==
  \A i \in KernelHalf : /\ i \in DOMAIN T[r] <=> i \in DOMAIN T[KernelRoot]
                        /\ i \in DOMAIN T[r] => T[r][i] = T[KernelRoot][i]

\* The pages V need no new entry in the kernel's half of a root.
Settled(T, V) ==
  /\ DOMAIN T[KernelRoot] # {}
  /\ \A v \in V : Pml4Index(v) \in KernelHalf => Pml4Index(v) \in DOMAIN T[KernelRoot]

\* What the fields of the memory are that no table or frame is in.
Still(m, a) ==
  a.ram = m.ram /\ a.heapEnd = m.heapEnd /\ a.ipcPage = m.ipcPage /\ a.threads = m.threads

\* The CPU, in the tables of r, sees what is mapped into the window: r is the
\* kernel's root, or there is a page table for the window and r leads to it.
Sees(T, g, r) ==
  r \in DOMAIN T /\ g.lev[r] = 4 /\ Agrees(T, r) /\ (r = KernelRoot \/ Window(T, g))

\* The window was mapped, so that it can be seen, or not.
WindowMapped(m, g, R, a, h) ==
  /\ Good(a, h, R) /\ Moved(m.tables, g, a.tables, h, {KernelRoot}, {TempWindow})
  /\ Still(m, a) /\ a.root = m.root
  /\ Covered(m, g, R) => Covered(a, h, R)
  /\ a.ok = TRUE => a.fault = FALSE /\ Window(a.tables, h)
  /\ Window(m.tables, g) => a.ok = TRUE

----------------------------------------------------------------------------
(* A new root, first empty, then with the kernel's half.                   *)

RootAdded(T, g, c) ==
  [lev |-> [x \in DOMAIN T \cup {c} |-> IF x = c THEN 4 ELSE g.lev[x]],
   own |-> [x \in DOMAIN T \cup {c} |-> IF x = c THEN c ELSE g.own[x]],
   key |-> [x \in DOMAIN T \cup {c} |-> IF x = c THEN 0 ELSE g.key[x]]]

\* c is a root in U, empty, and all else is as it was.
RootNew(T, g, c, U, h) ==
  /\ DOMAIN U = DOMAIN T \cup {c} /\ DOMAIN U[c] = {} /\ h.lev[c] = 4
  /\ \A t \in DOMAIN T : /\ t # c /\ U[t] = T[t] /\ h.lev[t] = g.lev[t]
                         /\ h.own[t] = g.own[t] /\ h.key[t] = g.key[t]

\* Frame c, which was set aside, is an empty root.
RootMade(m, g, R, c, a, h) ==
  /\ Good(a, h, R \ {c}) /\ Moved(m.tables, g, a.tables, h, {c}, {})
  /\ c \in DOMAIN a.tables /\ DOMAIN a.tables[c] = {} /\ h.lev[c] = 4 /\ c \notin DOMAIN m.tables
  /\ Covered(m, g, R) => Covered(a, h, R \ {c})

\* Entries i of table c are those of the kernel's half of the kernel's root.
Copied(T, c, U) ==
  /\ DOMAIN U = DOMAIN T /\ \A t \in DOMAIN T \ {c} : U[t] = T[t]
  /\ DOMAIN U[c] = DOMAIN T[KernelRoot] \cap KernelHalf
  /\ \A i \in DOMAIN U[c] : U[c][i] = T[KernelRoot][i]

\* No other table belongs to c.
Alone(T, g, c) == \A t \in DOMAIN T : g.own[t] = c => t = c

\* c is the root of an address space that consists of nothing else.
Blank(T, g, c) == c \in DOMAIN T /\ g.lev[c] = 4 /\ c # KernelRoot /\ Alone(T, g, c)

\* The second half of create_user_pml4, for the root c = m.root.
Copying(m, g, R, c, a) ==
  \E h : /\ Good(a, h, R) /\ Moved(m.tables, g, a.tables, h, {KernelRoot, c}, {TempWindow})
         /\ Still(m, a) /\ a.root = c /\ a.ok = TRUE /\ a.fault = FALSE
         /\ Blank(a.tables, h, c) /\ Agrees(a.tables, c) /\ Window(a.tables, h)
         /\ Covered(m, g, R) => Covered(a, h, R)

\* Whose tables a creation may change: the kernel's, and new ones.
Others(T) == {KernelRoot} \cup (Nat \ DOMAIN T)

\* create_user_pml4, called in the tables of r.
NewSpace(m, g, R, a) ==
  \E h : /\ Good(a, h, R) /\ Moved(m.tables, g, a.tables, h, Others(m.tables), {TempWindow})
         /\ Still(m, a) /\ (Window(m.tables, g) => a.fault = FALSE)
         /\ a.ok = TRUE =>
              /\ a.fault = FALSE /\ Window(a.tables, h) /\ a.root \notin DOMAIN m.tables
              /\ a.root \in Nat /\ Blank(a.tables, h, a.root) /\ Agrees(a.tables, a.root)
              /\ Moved(m.tables, g, a.tables, h, {KernelRoot, a.root}, {TempWindow})
              /\ Covered(m, g, R) => Covered(a, h, R)

----------------------------------------------------------------------------
(* Several pages in a row.                                                 *)

\* n pages from v on have the frames from f on.
Leafs(T, g, o, v, f, n) == \A j \in 0 .. n - 1 : Leaf(T, g, o, v + j, f + j)
\* The pages are in the tables of o, and nothing that belongs to somebody is there.
Rooted(T, g, o, v, n)   == \A j \in 0 .. n - 1 : RootOf(T, g, o, v + j)
AllFresh(T, g, o, v, n) == \A j \in 0 .. n - 1 : Fresh(T, g, o, v + j)

\* Frame f may go to page v: it is of Q, which was set aside for it, or it
\* needs not be set aside.
Ask(m, o, v, f, Q) ==
  IF f \in Q THEN o # KernelRoot /\ f \notin Common(m)
  ELSE Guards(o, v) => o # KernelRoot /\ f \in Common(m) /\ Placed(m, v, f)
AskAll(m, o, v, f, n, Q) == \A j \in 0 .. n - 1 : Ask(m, o, v + j, f + j, Q)

\* After i of n rounds.
Mapped1(m, g, R, Q, o, v, f, n, i, a) ==
  \E h, S :
    /\ Good(a, h, S) /\ Later(m, g, a, h, {o}, Run(v, i))
    /\ R \ Q \subseteq S /\ S \subseteq R
    /\ a.ok = TRUE => S = R \ (Q \cap Run(f, i)) /\ Leafs(a.tables, h, o, v, f, i)
    /\ Covered(m, g, R) /\ AllFresh(m.tables, g, o, v, n) => Covered(a, h, S)

\* map_pages: what was set aside for the pages is used, or not all of it.
MappingAll(m, g, R, Q, o, v, f, n, a) ==
  \E h, S :
    /\ Good(a, h, S) /\ Later(m, g, a, h, {o}, Run(v, n))
    /\ R \ Q \subseteq S /\ S \subseteq R
    /\ a.ok = TRUE => S = R \ Q /\ Leafs(a.tables, h, o, v, f, n)
    /\ Covered(m, g, R) /\ AllFresh(m.tables, g, o, v, n) => Covered(a, h, S)

----------------------------------------------------------------------------
(* A new address space is filled.                                          *)

\* What is set aside: R, and the page all processes share.
Held(R, m) == R \cup ({m.ipcPage} \ {None})

\* The root of a process.
Target(T, g, c) == c \in DOMAIN T /\ g.lev[c] = 4 /\ c # KernelRoot

Users == 0 .. UserTop - 1

\* The fields that filling it leaves alone; the shared page may appear,
\* but not out of R.
Quiet2(R, a, b) ==
  /\ b.ram = a.ram /\ b.heapEnd = a.heapEnd /\ b.threads = a.threads
  /\ b.root = a.root /\ b.fault = a.fault
  /\ a.ipcPage # None => b.ipcPage = a.ipcPage
  /\ a.ipcPage \notin R => b.ipcPage \notin R

\* From a to b the pages V were mapped in the tables of c, or not all of them.
Progress(a, h, R, c, V, b) ==
  \E k :
    /\ Good(b, k, Held(R, b)) /\ Moved(a.tables, h, b.tables, k, {c}, V) /\ Quiet2(R, a, b)
    /\ b.ok = TRUE =>
         /\ \A v \in V : \E f : Leaf(b.tables, k, c, v, f)
         /\ IpcVirt \in V => b.ipcPage # None /\ Leaf(b.tables, k, c, IpcVirt, b.ipcPage)
         /\ Covered(a, h, Held(R, a)) /\ (\A v \in V : Fresh(a.tables, h, c, v))
              => Covered(b, k, Held(R, b))

\* The pages that may be mapped for a new address space.
SpacePages == Users \cup {TempWindow}

\* The work on a new address space c began in the memory m with history g;
\* R was set aside.  The pages D are mapped so far.
Built(m, g, R, a, h, c, D) ==
  /\ Good(a, h, Held(R, a)) /\ Moved(m.tables, g, a.tables, h, {KernelRoot, c}, SpacePages)
  /\ a.ram = m.ram /\ a.heapEnd = m.heapEnd /\ a.threads = m.threads
  /\ m.ipcPage # None => a.ipcPage = m.ipcPage
  /\ m.ipcPage \notin R => a.ipcPage \notin R
  /\ a.ok = TRUE /\ a.fault = FALSE /\ a.root = c /\ c \in Nat \ DOMAIN m.tables
  /\ Target(a.tables, h, c) /\ Agrees(a.tables, c) /\ Window(a.tables, h)
  /\ \A v \in D : \E f : Leaf(a.tables, h, c, v, f)
  /\ IpcVirt \in D => a.ipcPage # None /\ Leaf(a.tables, h, c, IpcVirt, a.ipcPage)
  /\ \A v \in Users \ D : Fresh(a.tables, h, c, v)
  /\ Covered(m, g, Held(R, m)) => Covered(a, h, Held(R, a))
Building(m, g, R, a, c, D) == \E h : Built(m, g, R, a, h, c, D)

\* It was given up.
Stuck(m, g, R, a) ==
  \E h :
    /\ Good(a, h, Held(R, a)) /\ Moved(m.tables, g, a.tables, h, Others(m.tables), SpacePages)
    /\ a.ram = m.ram /\ a.heapEnd = m.heapEnd /\ a.threads = m.threads
    /\ m.ipcPage # None => a.ipcPage = m.ipcPage
    /\ m.ipcPage \notin R => a.ipcPage \notin R
    /\ a.ok = FALSE /\ (Window(m.tables, g) => a.fault = FALSE)
    /\ a.ipcPage # None => m.ipcPage # None \/ Window(a.tables, h)

Outcome(m, g, R, a, c, D) == Stuck(m, g, R, a) \/ Building(m, g, R, a, c, D)

\* What is there before a creation.
Ready(m, g) == Tree(m.tables, g) /\ W - 1 \in DOMAIN m.tables[KernelRoot]

ImagePages == Run(CodeBase, TextPages) \cup Run(DataBase, DataPages)

\* A segment of a program, and what the loader makes of it.
IsSegment(s) == s.v \in Nat /\ s.n \in Nat /\ s.valid \in BOOLEAN

\* The pages of the first i segments.
Segs(l, i) == UNION {SegmentPages(l[j]) : j \in 1 .. i}

\* What the loader is given.
Loadable(l, n, D) ==
  /\ n \in Nat /\ DOMAIN l = 1 .. n
  /\ \A i \in 1 .. n : /\ IsSegment(l[i]) /\ SegmentPages(l[i]) \subseteq Users \ D
                       /\ IpcVirt \notin SegmentPages(l[i])
  /\ \A i, j \in 1 .. n : i # j => SegmentPages(l[i]) \cap SegmentPages(l[j]) = {}

----------------------------------------------------------------------------
(* The heap grows.                                                         *)

\* From m to a pages V of the heap were mapped, or not all of them.
Growth(m, g, R, V, a) ==
  \E h : /\ Good(a, h, R) /\ Later(m, g, a, h, {KernelRoot}, V)
         /\ Covered(m, g, R) /\ (\A v \in V : Fresh(m.tables, g, KernelRoot, v)) => Covered(a, h, R)

HeapPages == {v \in Nat : InHeap(v)}

\* Nothing is mapped in the heap behind its end.
HeapFresh(m, g) ==
  \A v \in HeapPages : HeapStart + m.heapEnd <= v => Fresh(m.tables, g, KernelRoot, v)

\* The fields that its growth leaves alone.
SameBut(m, b) ==
  /\ b.ram = m.ram /\ b.ipcPage = m.ipcPage /\ b.threads = m.threads
  /\ b.root = m.root /\ b.fault = m.fault

\* expand_heap, and so thread::create, made b of m.
Expanded(m, g, R, b) ==
  \E h :
    /\ Good(b, h, R) /\ Moved(m.tables, g, b.tables, h, {KernelRoot}, HeapPages)
    /\ SameBut(m, b) /\ b.heapEnd \in 0 .. HeapMax
    /\ b.ok = TRUE => b.heapEnd > 0
    /\ b.ok = TRUE /\ Covered(m, g, R) /\ HeapFresh(m, g) => Covered(b, h, R) /\ HeapFresh(b, h)

\* thread::create.
Threaded(m, g, R, b) ==
  \E h :
    /\ Good(b, h, R) /\ Moved(m.tables, g, b.tables, h, {KernelRoot}, HeapPages)
    /\ b.ram = m.ram /\ b.ipcPage = m.ipcPage /\ b.root = m.root /\ b.fault = m.fault
    /\ b.heapEnd \in 0 .. HeapMax
    /\ b.ok = FALSE => b.threads = m.threads
    /\ b.ok = TRUE  => b.threads = m.threads + 1 /\ m.threads # MaxThreads
    /\ b.ok = TRUE /\ Covered(m, g, R) /\ HeapFresh(m, g) => Covered(b, h, R) /\ HeapFresh(b, h)

----------------------------------------------------------------------------
(* What the creation of a process comes to.                                *)

\* The pages that the kernel or a process may map or unmap.
WorkPages == {v \in Pages : v < UserTop \/ InHeapPart(v) \/ Offscreen <= v}

\* From m to b nothing was made, or a process of the address space b.root,
\* in which the pages D are mapped.
Created(m, g, R, b, h, D) ==
  /\ Good(b, h, Held(R, b)) /\ Moved(m.tables, g, b.tables, h, Others(m.tables), WorkPages)
  /\ b.ram = m.ram /\ b.heapEnd \in 0 .. HeapMax
  /\ m.ipcPage # None => b.ipcPage = m.ipcPage
  /\ m.ipcPage \notin R => b.ipcPage \notin R
  /\ b.ipcPage # None => m.ipcPage # None \/ Window(b.tables, h)
  /\ b.ok \in BOOLEAN /\ (Window(m.tables, g) => b.fault = FALSE)
  /\ b.ok = FALSE => b.threads = m.threads
  /\ b.ok = TRUE =>
       /\ b.threads = m.threads + 1 /\ m.threads # MaxThreads /\ b.fault = FALSE
       /\ Target(b.tables, h, b.root) /\ Agrees(b.tables, b.root) /\ Window(b.tables, h)
       /\ \A v \in D : \E f : Leaf(b.tables, h, b.root, v, f)
       /\ IpcVirt \in D => b.ipcPage # None /\ Leaf(b.tables, h, b.root, IpcVirt, b.ipcPage)
       /\ \A t \in DOMAIN b.tables : h.lev[t] = 4 => t = b.root \/ (t \in DOMAIN m.tables /\ g.lev[t] = 4)
       /\ Covered(m, g, Held(R, m)) /\ HeapFresh(m, g) => Covered(b, h, Held(R, b)) /\ HeapFresh(b, h)
Creation(m, g, R, b, D) == \E h : Created(m, g, R, b, h, D)

\* t is a root.
IsRoot(T, g, t) == t \in DOMAIN T /\ g.lev[t] = 4

StackPart == Run(StackBase, StackPages)

\* The state a creation starts in.
Start(m, g, R) ==
  /\ Good(m, g, Held(R, m)) /\ m.ok = TRUE /\ m.fault = FALSE /\ m.heapEnd \in 0 .. HeapMax
  /\ W - 1 \in DOMAIN m.tables[KernelRoot]

\* What service processes map.
ServicePages == (ImagePages \cup {IpcVirt}) \cup StackPart

\* What a program with these segments maps.
ProgramPages(l) == ({IpcVirt} \cup StackPart) \cup Segs(l, Len(l))

----------------------------------------------------------------------------
(* The inductive invariant, for a history g; o is the off-screen buffer,   *)
(* ps are the processes.                                                   *)

ScreenOf(o) == IF o = None THEN {} ELSE o .. o + OffPages - 1

\* What is mapped in the address space r of a process of this name.
Complete(T, g, r, ipc, name) ==
  /\ \A v \in StackPart : \E f : Leaf(T, g, r, v, f)
  /\ ipc # None /\ Leaf(T, g, r, IpcVirt, ipc)
  /\ name \in DOMAIN Programs =>
       \A i \in DOMAIN Programs[name] :
         /\ Programs[name][i].valid = TRUE
         /\ \A v \in SegmentPages(Programs[name][i]) : \E f : Leaf(T, g, r, v, f)
  /\ name \notin DOMAIN Programs => \A v \in ImagePages : \E f : Leaf(T, g, r, v, f)

ProcOK(T, g, ipc, r, name) ==
  Target(T, g, r) /\ Agrees(T, r) /\ Complete(T, g, r, ipc, name)

Sound(m, g, o, ps) ==
  /\ Good(m, g, Held(ScreenOf(o), m)) /\ m.ipcPage \notin ScreenOf(o)
  /\ m = Clean(m) /\ m.heapEnd \in 0 .. HeapMax /\ m.threads \in 0 .. MaxThreads
  /\ W - 1 \in DOMAIN m.tables[KernelRoot]
  /\ m.ipcPage # None => Window(m.tables, g)
  /\ DOMAIN ps \subseteq 1 .. m.threads - 1
  /\ \A t \in DOMAIN ps : ProcOK(m.tables, g, m.ipcPage, ps[t].root, ps[t].name)

\* Nothing that is taken has no owner.
AllOwned(m, g, o, ps) ==
  /\ Covered(m, g, Held(ScreenOf(o), m)) /\ HeapFresh(m, g)
  /\ \A t : IsRoot(m.tables, g, t) => t = KernelRoot \/ \E p \in DOMAIN ps : ps[p].root = t

\* What a step does not change.
Steady(m, g, a, h) == Moved(m.tables, g, a.tables, h, Others(m.tables), WorkPages)

\* The pages D are all a process of this name needs.
Fills(D, name) ==
  /\ StackPart \subseteq D /\ IpcVirt \in D
  /\ name \in DOMAIN Programs =>
       \A i \in DOMAIN Programs[name] :
         Programs[name][i].valid = TRUE /\ SegmentPages(Programs[name][i]) \subseteq D
  /\ name \notin DOMAIN Programs => ImagePages \subseteq D

\* The processes after a creation.
With(ps, b, t, name) ==
  IF b.ok = TRUE THEN AddProcess(ps, t, name, b.root) ELSE ps

\* A process was made, or not.
CreationDone(m, g, o, ps, b, a, qs) ==
  \E h :
    /\ Sound(a, h, o, qs) /\ Steady(m, g, a, h)
    /\ b.ok = TRUE /\ AllOwned(m, g, o, ps) => AllOwned(a, h, o, qs)
    /\ m.ipcPage # None => b.fault = FALSE
    /\ m.threads <= a.threads

----------------------------------------------------------------------------
(* Steps of the kernel on its own tables outside the heap.                 *)

\* From m to a pages in V were mapped or unmapped there, and nothing else.
Remapped(m, g, R, V, a) ==
  \E h : /\ Good(a, h, R) /\ Later(m, g, a, h, {KernelRoot}, V)
         /\ Covered(m, g, R) => Covered(a, h, R)

AcpiPages == {AcpiWin, AcpiWin + 1}

----------------------------------------------------------------------------
(* What the actions of kmain and MMIO_MAP make of the memory.              *)
\* Threads are as before.
KeepsThreads(m, a) == a.threads = m.threads

KernelDone(m, g, o, ps, ok, a, o2) ==
  \E h : /\ Sound(a, h, o2, ps) /\ Steady(m, g, a, h)
         /\ ok = TRUE /\ AllOwned(m, g, o, ps) => AllOwned(a, h, o2, ps)

NoProcess(ps) == DOMAIN ps = {}

OneThread(d) == d.threads = 1

----------------------------------------------------------------------------
(* The off-screen buffer.                                                  *)
ScreenPages == Run(Offscreen, OffPages)

\* The frames are taken, and the pages mapped.
Buffered(m, g, R, S, c) ==
  \E h : /\ Good(c, h, R \cup S) /\ Later(m, g, c, h, {KernelRoot}, ScreenPages)
         /\ Covered(m, g, R) => Covered(c, h, R \cup S)

\* What unmaps pages and frees frames leaves no results.
Idle(m) == IsMemory(m) /\ m = Clean(m)

----------------------------------------------------------------------------
(* The initial state.                                                      *)
BootFrames == BootFrame .. BootFrame + 8

\* The first two digits of the pages below a directory of boot32.asm.
BootHead(f) == IF f <= BootFrame + 6 THEN 0 ELSE W - 1
BootLow(f)  == IF f <= BootFrame + 6 THEN f - (BootFrame + 3) ELSE f - (BootFrame + 9) + W
BootLev(f)  == IF f = BootFrame THEN 4 ELSE IF f <= BootFrame + 2 THEN 3 ELSE 2
BootKey(f)  ==
  IF f = BootFrame THEN 0
  ELSE IF f = BootFrame + 1 THEN Sub(0, 0)
  ELSE IF f = BootFrame + 2 THEN Sub(0, W - 1)
  ELSE Sub(Sub(0, BootHead(f)), BootLow(f))

BootHistory == [lev |-> [f \in BootFrames |-> BootLev(f)],
                own |-> [f \in BootFrames |-> KernelRoot],
                key |-> [f \in BootFrames |-> BootKey(f)]]

Directories == BootFrame + 3 .. BootFrame + 8

BootShape(T) ==
  /\ DOMAIN T = BootFrames
  /\ DOMAIN T[BootFrame] = {0, W - 1}
  /\ T[BootFrame][0] = Entry(BootFrame + 1) /\ T[BootFrame][W - 1] = Entry(BootFrame + 2)
  /\ DOMAIN T[BootFrame + 1] = 0 .. 3
  /\ \A j \in 0 .. 3 : T[BootFrame + 1][j] = Entry(BootFrame + 3 + j)
  /\ DOMAIN T[BootFrame + 2] = {W - 2, W - 1}
  /\ \A j \in {W - 2, W - 1} : T[BootFrame + 2][j] = Entry(BootFrame + 9 + j - W)
  /\ \A f \in Directories :
       DOMAIN T[f] = Idx /\ \A k \in Idx : \E x \in Nat : T[f][k] = HugeEntry(x)

\* What an entry of the boot tables is.
BootLink(t, i, f) ==
  \/ t = BootFrame /\ i = 0 /\ f = BootFrame + 1
  \/ t = BootFrame /\ i = W - 1 /\ f = BootFrame + 2
  \/ t = BootFrame + 1 /\ i \in 0 .. 3 /\ f = BootFrame + 3 + i
  \/ t = BootFrame + 2 /\ i \in {W - 2, W - 1} /\ f = BootFrame + 9 + i - W

BootItem(T, t, i) ==
  /\ i \in Idx
  /\ T[t][i] = [frame |-> T[t][i].frame, huge |-> T[t][i].huge]
  /\ T[t][i].frame \in Nat /\ T[t][i].huge \in BOOLEAN
  /\ t \in Directories => T[t][i].huge = TRUE
  /\ t \notin Directories => T[t][i].huge = FALSE /\ BootLink(t, i, T[t][i].frame)

NoGuarded(T, g) == \A t \in DOMAIN T : \A i \in DOMAIN T[t] : ~Guarded(T, g, t, i)

----------------------------------------------------------------------------
(* The inductive invariant of the module.                                  *)
BootStages == {"heap", "screen", "acpi"}

IsProcess(p) == p = [name |-> p.name, root |-> p.root, live |-> p.live]

StageOK ==
  /\ stage \in BootStages \cup {"services", "run", "halted", "fault"}
  /\ off \in Nat /\ tried \in 0 .. Len(Services) /\ failed \in BOOLEAN
  /\ mmio.next \in Nat /\ MmioBase <= mmio.next /\ mmio.next <= MmioBase + MaxMmio
  /\ stage \in {"heap", "screen"} => off = None
  /\ stage \in BootStages => NoProcess(procs)
  /\ stage \notin BootStages => mem.threads >= 1
  /\ \A t \in DOMAIN procs : IsProcess(procs[t])

History(g) ==
  /\ Sound(mem, g, off, procs)
  /\ failed = FALSE => AllOwned(mem, g, off, procs)

IInv == StageOK /\ \E g : History(g)

\* What a step does, when g is the history before it.
Advanced(g) ==
  \E h : /\ Sound(mem', h, off', procs') /\ Steady(mem, g, mem', h)
         /\ failed' = FALSE => AllOwned(mem', h, off', procs')

RootsStay == \A t \in DOMAIN procs : t \in DOMAIN procs' /\ procs'[t].root = procs[t].root

FaultExcused == stage' = "fault" /\ stage # "fault" => mem.ipcPage = None

Steps(g) == StageOK' /\ Advanced(g) /\ RootsStay /\ FaultExcused

----------------------------------------------------------------------------
(* What the invariant says of the processes that exist.                    *)
PagesIn(S) == {p[1] : p \in S}

----------------------------------------------------------------------------
(* Whose a frame is.                                                       *)

\* Frame f is a page of o that belongs to o alone.
OwnPage(m, g, R, o, f) ==
  \E v : /\ Leaf(m.tables, g, o, v, f) /\ Guards(o, v)
         /\ Plain(m, f) /\ f \notin R /\ f \notin Common(m)

\* Table c belongs to root o.
OwnTable(m, g, o, c) == c \in DOMAIN m.tables /\ g.own[c] = o

\* The pages of the heap are the kernel's alone.
HeapPart(m) == Frames({p \in Mapped(m, KernelRoot, {W - 3}) : p[1] < TempWindow})

\* All that OneOwner speaks of, for a history g.
Owners(g, R) ==
  /\ \A r \in Roots : Target(mem.tables, g, r)
  /\ \A r \in Roots : Cardinality(Frames(UserPages(r))) = Cardinality(UserPages(r))
  /\ \A r \in Roots : \A f \in OwnFrames(r) : OwnPage(mem, g, R, r, f)
  /\ \A r \in Roots : \A c \in OwnTables(r) :
       /\ OwnTable(mem, g, r, c) /\ c \in mem.taken /\ c # None
       /\ c \notin Image /\ c \in Managed(mem.ram)
  /\ \A f \in HeapFrames : OwnPage(mem, g, R, KernelRoot, f)
  /\ \A c \in KernelTables : OwnTable(mem, g, KernelRoot, c) /\ c \in mem.taken
  /\ \A f \in ScreenFrames : f \in R /\ Plain(mem, f)
  /\ \A f \in Shared : f \in Image \/ f = None \/ (f \in R /\ Plain(mem, f))

\* Who uses frame f, if somebody does.
Used(f) == f \in KernelFrames \/ f \in Shared \/ \E r \in Roots : f \in OwnFrames(r) \cup OwnTables(r)

\* Every root is the kernel's or a process's.
RootsKnown(m, g) == \A o : IsRoot(m.tables, g, o) => o = KernelRoot \/ o \in Roots
=============================================================================
