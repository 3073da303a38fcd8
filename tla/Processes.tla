----------------------------- MODULE Processes ------------------------------
(***************************************************************************)
(* How kernel and user memory is laid out and given away: kmain's way from *)
(* pmm::init to the services (heap, off-screen buffer of the boot          *)
(* animation, ACPI window), create_user_process, create_elf_process with   *)
(* the ELF loader, MMIO_MAP, deaths and restarts.                          *)
(*                                                                         *)
(* Interrupts are off in all of it, so that every call is one step, and    *)
(* the operators of this module are put together like the code: each takes *)
(* the memory m to the memory after it, and does nothing once m.ok is      *)
(* FALSE, as the code returns -1 and gives nothing back.                   *)
(*                                                                         *)
(* Whether the heap has room for a stack is left open (the argument grow); *)
(* Heap.tla models it.  Contents, flags and arguments are left out.        *)
(***************************************************************************)
EXTENDS Vmm

CONSTANTS RamSizes,     \* how many frames the machine may have
          MaxThreads,   \* MAX_THREADS
          Services,     \* the services, in the order of kmain
          Core,         \* those kmain cannot do without
          TextFrame, TextPages,   \* where the services' code was loaded
          DataFrame, DataPages,   \* and their data
          StackPages,   \* pages of a user stack
          ExpandPages,  \* HEAP_EXPAND_PAGES
          HeapMax,      \* pages of HEAP_MAX_SIZE
          OffPages,     \* pages of the off-screen buffer
          AcpiFrames,   \* where ACPI tables may lie
          Programs,     \* the programs of the initrd: name -> its PT_LOAD segments
          Device,       \* a frame of device memory
          Hints,        \* the addresses that callers of MMIO_MAP propose, 0 for none
          MaxMmio,      \* bound: pages MMIO_MAP gives without a proposal
          MaxDead       \* bound: processes that are dead at a time

ASSUME ProcessesAssumption ==
  /\ RamSizes \subseteq Nat \ {0}
  /\ \A n \in RamSizes : \A f \in Image : f < n
  /\ MaxThreads \in Nat /\ MaxThreads >= 2
  /\ {TextPages, DataPages, StackPages, ExpandPages, OffPages} \subseteq Nat \ {0}
  /\ {TextFrame, DataFrame, HeapMax, Device, MaxMmio, MaxDead} \subseteq Nat
  /\ AcpiFrames \subseteq Nat
  /\ Services \in Seq(STRING)

\* Where the services' code and data lie in memory.
TextFrames == TextFrame .. TextFrame + TextPages - 1
DataFrames == DataFrame .. DataFrame + DataPages - 1

ASSUME ImageAssumption ==
  TextFrames \cup DataFrames \subseteq Image /\ TextFrames \cap DataFrames = {}

\* The addresses of the code, scaled down to W entries per table.
CodeBase   == Page(0, 0, 1, 0)             \* USER_CODE_BASE
DataBase   == Page(0, 0, 1, W \div 2)      \* USER_DATA_BASE
StackTop   == Page(0, 2, 0, 0)             \* USER_STACK_TOP
StackBase  == StackTop - StackPages
IpcVirt    == Page(0, 1, W - 1, 0)         \* USER_IPC_PAGE
MmioBase   == Page(0, 4, 0, 0)             \* first next_mmio
UserTop    == Page(W \div 2, 0, 0, 0)      \* end of the user's half
HeapStart  == Page(W - 3, 0, 0, 0)         \* HEAP_START
TempWindow == Page(W - 3, 1, 0, 0)         \* TEMP_WINDOW
Offscreen  == Page(W - 1, W - 2, W - 1, 0) \* OFFSCREEN_VA
AcpiWin    == Page(W - 1, W - 1, 0, 0)     \* ACPI_WIN

\* What is between two of these addresses has room there.
ASSUME LayoutAssumption ==
  /\ CodeBase + TextPages <= DataBase
  /\ DataBase + DataPages <= IpcVirt
  /\ IpcVirt < StackBase
  /\ MmioBase + MaxMmio < UserTop
  /\ HeapStart + HeapMax <= TempWindow
  /\ Offscreen + OffPages <= Page(W, 0, 0, 0)

\* Programs are linked into the user's half, no two segments in one page and
\* none in the pages create_elf_process maps itself; no program is named like
\* a service.  What callers propose to MMIO_MAP is in the user's half, too.
SegmentPages(s) == IF s.valid THEN s.v .. s.v + s.n - 1 ELSE {}

ASSUME ProgramsAssumption ==
  /\ \A p \in DOMAIN Programs :
       /\ Programs[p] \in Seq([v : Nat, n : Nat, valid : BOOLEAN])
       /\ \A i \in DOMAIN Programs[p] :
            /\ SegmentPages(Programs[p][i]) \subseteq (0 .. UserTop - 1) \ (IpcVirt .. StackTop - 1)
            /\ \A j \in DOMAIN Programs[p] :
                 i # j => SegmentPages(Programs[p][i]) \cap SegmentPages(Programs[p][j]) = {}
       /\ \A i \in DOMAIN Services : Services[i] # p
  /\ \A h \in Hints : h \in Nat /\ h + MaxMmio < UserTop

VARIABLES
  mem,      \* frames, tables, end of the heap, the IPC page, threads created
  stage,    \* how far kmain has come
  off,      \* first frame of the off-screen buffer, None if there is none
  tried,    \* how many services kmain has tried to create
  procs,    \* tid -> its name, its cr3 and whether it lives
  mmio,     \* next_mmio, and the last caller of MMIO_MAP with what it was told
  failed    \* history: something could not be allocated

vars == <<mem, stage, off, tried, procs, mmio, failed>>

\* pmm::init and vmm::init.  got, at, root, ok and fault are results of
\* operators and have no meaning between two steps.
NewMemory(ram) ==
  [ram |-> ram, taken |-> PmmInit(ram).taken, used |-> PmmInit(ram).used,
   tables |-> BootTables, heapEnd |-> 0, ipcPage |-> None, threads |-> 0,
   got |-> None, at |-> None, root |-> None, ok |-> TRUE, fault |-> FALSE]

Clean(m) == [m EXCEPT !.got = None, !.at = None, !.root = None, !.ok = TRUE,
                      !.fault = FALSE]
Fail(m)  == [m EXCEPT !.ok = FALSE]

Init ==
  /\ \E ram \in RamSizes : mem = NewMemory(ram)
  /\ stage  = "heap"
  /\ off    = None
  /\ tried  = 0
  /\ procs  = [t \in {} |-> None]
  /\ mmio   = [next |-> MmioBase, granted |-> <<>>]
  /\ failed = FALSE

----------------------------------------------------------------------------
(* Heap and threads.                                                       *)

\* Frame f, just allocated, becomes a page of the heap, or is given back.
AddHeapPage(m, v, f) ==
  LET a == MapPageIn(m, KernelRoot, v, f)
  IN IF f = None THEN Fail(m) ELSE IF a.ok THEN a ELSE FreeFrame(a, f)

GrowPage(m, i) ==
  IF m.ok THEN AddHeapPage(AllocFrame(m), HeapStart + m.heapEnd + i, AllocFrame(m).got)
          ELSE m

\* expand_heap: what was mapped before a failure stays mapped.
ExpandHeap(m) ==
  LET end == FoldLeft(GrowPage, m, Count(ExpandPages))
  IN IF m.heapEnd + ExpandPages > HeapMax THEN Fail(m)
     ELSE IF end.ok THEN [end EXCEPT !.heapEnd = @ + ExpandPages] ELSE end

\* thread::create: the next slot, and a stack from the heap, which may have
\* to grow.  No slot is ever used twice, so that slot and tid are one number.
AddThread(m) == IF m.ok THEN [m EXCEPT !.threads = @ + 1] ELSE m

CreateThread(m, grow) ==
  IF ~ m.ok THEN m
  ELSE IF m.threads = MaxThreads \/ m.heapEnd = 0 THEN Fail(m)
  ELSE AddThread(IF grow THEN ExpandHeap(m) ELSE m)

----------------------------------------------------------------------------
(* New address spaces.                                                     *)

\* map_temp does not look at map_page's answer: if the window does not lead
\* to frame f in the tables the CPU uses, the access that follows faults.
Touch(m, cr3, f) ==
  LET good == GetPhysIn(m, cr3, TempWindow) = f
  IN [m EXCEPT !.ok = good, !.fault = ~ good]

MapTemp(m, cr3, f) ==
  IF m.ok THEN Touch(MapPageIn(m, KernelRoot, TempWindow, f), cr3, f) ELSE m

UnmapTemp(m) == IF m.ok THEN UnmapPage(m, TempWindow) ELSE m

\* Mutant for KernelHalfShared: the loop ends one entry early.
KernelPart_OneShort(m) ==
  [i \in (DOMAIN m.tables[KernelRoot] \cap KernelHalf) \ {W - 1} |->
     m.tables[KernelRoot][i]]

\* Mutant for SpacesStable: the lower half is copied, too.
KernelPart_AllEntries(m) == m.tables[KernelRoot]

\* What is copied of the kernel's root.
KernelPart(m) ==
  [i \in DOMAIN m.tables[KernelRoot] \cap KernelHalf |-> m.tables[KernelRoot][i]]

TakeRoot(m) == IF m.got = None THEN Fail(m) ELSE [m EXCEPT !.root = m.got]

FillRoot(m, entries) ==
  IF m.ok THEN [m EXCEPT !.tables = MakeTable(@, m.root, entries)] ELSE m

ZeroRoot(m, cr3) == FillRoot(MapTemp(m, cr3, m.root), EmptyTable)

CopyKernelPart(m, cr3) ==
  LET read == UnmapTemp(MapTemp(m, cr3, KernelRoot))
  IN UnmapTemp(FillRoot(MapTemp(read, cr3, m.root), KernelPart(m)))

\* create_user_pml4, with m.root for its result.
CreateUserPml4(m, cr3) == CopyKernelPart(ZeroRoot(TakeRoot(AllocFrame(m)), cr3), cr3)

\* The one page all processes share is made by the first that needs it.
MakeIpcPage(m) == [m EXCEPT !.ipcPage = m.got, !.ok = m.got # None]

MapIpcPage(m) ==
  IF ~ m.ok THEN m
  ELSE LET a == IF m.ipcPage # None THEN m ELSE MakeIpcPage(AllocFrame(m))
       IN MapPagesIn(a, m.root, IpcVirt, a.ipcPage, 1)

\* Mutant for ProcessComplete: nobody looks whether there were any.
MapGot_Unchecked(m, v, n) ==
  IF m.got = None THEN m ELSE MapPagesIn(m, m.root, v, m.got, n)

\* n fresh frames in a row at page v.
MapGot(m, v, n) ==
  IF m.got = None THEN Fail(m) ELSE MapPagesIn(m, m.root, v, m.got, n)

MapFresh(m, v, n) == IF m.ok THEN MapGot(AllocFrames(m, n), v, n) ELSE m

MapStack(m) == MapFresh(m, StackBase, StackPages)

\* The first page of the services' code is translated by the kernel's own
\* tables, only to see that there is something.
MapImage(m) ==
  LET text == MapPagesIn(m, m.root, CodeBase, TextFrame, TextPages)
  IN IF m.ok /\ GetPhysIn(m, KernelRoot, CodeBase) # None
     THEN MapPagesIn(text, m.root, DataBase, DataFrame, DataPages)
     ELSE Fail(m)

CreateUserProcess(m, grow) ==
  CreateThread(MapStack(MapIpcPage(MapImage(CreateUserPml4(m, KernelRoot)))), grow)

\* A segment is a record of its first page, its pages, and whether the file
\* holds it (offset, filesz and memsz agree).
LoadSegment(m, s) ==
  IF ~ m.ok THEN m
  ELSE IF ~ s.valid THEN Fail(m)
  ELSE IF s.n = 0 THEN m
  ELSE IF s.v >= UserTop THEN Fail(m)
  ELSE MapFresh(m, s.v, s.n)

LoadElf(m, segments) == FoldLeft(LoadSegment, m, segments)

\* cr3 is the caller's: it is in a system call.
CreateElfProcess(m, cr3, segments, grow) ==
  CreateThread(LoadElf(MapStack(MapIpcPage(CreateUserPml4(m, cr3))), segments), grow)

Commit(m) ==
  /\ mem'    = Clean(m)
  /\ failed' = (failed \/ ~ m.ok)

AddProcess(ps, tid, name, root) ==
  [t \in DOMAIN ps \cup {tid} |->
     IF t = tid THEN [name |-> name, root |-> root, live |-> TRUE] ELSE ps[t]]

\* The result m of one of the two is taken over.  A fault in the kernel stops
\* the machine.
Conclude(m, name) ==
  /\ Commit(m)
  /\ stage' = IF m.fault THEN "fault" ELSE stage
  /\ procs' = IF m.ok THEN AddProcess(procs, mem.threads, name, m.root) ELSE procs

----------------------------------------------------------------------------
(* kmain.                                                                  *)

HeapInit ==
  /\ stage  = "heap"
  /\ stage' = "screen"
  /\ Commit(ExpandHeap(mem))
  /\ UNCHANGED <<off, tried, procs, mmio>>

\* bootanim::begin_offscreen; without a framebuffer it does nothing.
BeginOffscreen ==
  LET f == AllocFrames(mem, OffPages).got
      m == MapPagesIn(AllocFrames(mem, OffPages), KernelRoot, Offscreen, f, OffPages)
  IN /\ stage  = "screen"
     /\ stage' = "acpi"
     /\ \/ f # None /\ m.ok   /\ mem' = Clean(m) /\ off' = f
        \/ f # None /\ ~ m.ok /\ mem' = Clean(FreeFrames(m, f, OffPages)) /\ off' = None
        \/ UNCHANGED <<mem, off>>
     /\ UNCHANGED <<tried, procs, mmio, failed>>

\* acpi's ensure_mapped, which the search for the tables calls many times.
ReplacePage(m, v, f) ==
  LET free == IF GetPhysIn(m, KernelRoot, v) # None THEN UnmapPage(m, v) ELSE m
  IN IF m.ok THEN MapPageIn(free, KernelRoot, v, f) ELSE m

EnsureMapped(m, f, n) ==
  LET replace(a, i) == ReplacePage(a, AcpiWin + i, f + i)
  IN FoldLeft(replace, m, Count(n))

AcpiFetch ==
  /\ stage = "acpi"
  /\ \E f \in AcpiFrames, n \in 1 .. 2 : mem' = Clean(EnsureMapped(mem, f, n))
  /\ UNCHANGED <<stage, off, tried, procs, mmio, failed>>

\* thread::init: kmain becomes thread 0; the idle thread may fail to appear.
ThreadInit ==
  /\ stage  = "acpi"
  /\ stage' = "services"
  /\ \E grow \in BOOLEAN : Commit(CreateThread([mem EXCEPT !.threads = 1], grow))
  /\ UNCHANGED <<off, tried, procs, mmio>>

StartService ==
  /\ stage = "services"
  /\ tried < Len(Services)
  /\ tried' = tried + 1
  /\ \E grow \in BOOLEAN : Conclude(CreateUserProcess(mem, grow), Services[tried + 1])
  /\ UNCHANGED <<off, mmio>>

CoreRuns == \A s \in Core : \E t \in DOMAIN procs : procs[t].name = s

\* bsod::fatal.
GiveUp ==
  /\ stage = "services" /\ tried = Len(Services)
  /\ ~ CoreRuns
  /\ stage' = "halted"
  /\ UNCHANGED <<mem, off, tried, procs, mmio, failed>>

\* Mutant for NothingLost: the buffer is unmapped and not given back.
Finish_KeepsFrames ==
  /\ stage = "services" /\ tried = Len(Services)
  /\ CoreRuns
  /\ stage' = "run"
  /\ off'   = None
  /\ mem'   = IF off = None THEN mem ELSE UnmapPages(mem, Offscreen, OffPages)
  /\ UNCHANGED <<tried, procs, mmio, failed>>

\* bootanim::finish, then kmain switches interrupts on.
Finish ==
  /\ stage = "services" /\ tried = Len(Services)
  /\ CoreRuns
  /\ stage' = "run"
  /\ off'   = None
  /\ mem'   = IF off = None THEN mem
              ELSE FreeFrames(UnmapPages(mem, Offscreen, OffPages), off, OffPages)
  /\ UNCHANGED <<tried, procs, mmio, failed>>

----------------------------------------------------------------------------
(* Later: system calls and the supervisor.                                 *)

Runs(t) == stage = "run" /\ procs[t].live

Spawn(t) ==
  /\ Runs(t)
  /\ \E p \in DOMAIN Programs, grow \in BOOLEAN :
       Conclude(CreateElfProcess(mem, procs[t].root, Programs[p], grow), p)
  /\ UNCHANGED <<off, tried, mmio>>

\* However it dies, nothing is given back.
Die(t) ==
  /\ Runs(t)
  /\ Cardinality({d \in DOMAIN procs : ~ procs[d].live}) < MaxDead
  /\ procs' = [procs EXCEPT ![t].live = FALSE]
  /\ UNCHANGED <<mem, stage, off, tried, mmio, failed>>

\* respawn_user_process makes no new tables and no new stack.
Respawn(t) ==
  /\ stage = "run"
  /\ ~ procs[t].live
  /\ \E i \in DOMAIN Services : Services[i] = procs[t].name
  /\ procs' = [procs EXCEPT ![t].live = TRUE]
  /\ UNCHANGED <<mem, stage, off, tried, mmio, failed>>

\* Sys::MMIO_MAP: the pages appear in the kernel's tables.
MmioMap(t) ==
  /\ Runs(t)
  /\ \E n \in 0 .. MaxMmio, hint \in Hints :
       LET v     == IF hint = None THEN mmio.next ELSE hint
           pages == IF n = 0 THEN 1 ELSE n
           m     == MapPagesIn(mem, KernelRoot, v, Device, pages)
       IN /\ hint = None => mmio.next + n <= MmioBase + MaxMmio
          /\ mem'  = Clean(m)
          /\ mmio' = [next    |-> IF hint = None THEN mmio.next + n ELSE mmio.next,
                      granted |-> IF m.ok THEN <<t, v>> ELSE mmio.granted]
  /\ UNCHANGED <<stage, off, tried, procs, failed>>

Kmain == HeapInit \/ BeginOffscreen \/ AcpiFetch \/ ThreadInit \/ StartService
           \/ GiveUp \/ Finish

Next ==
  \/ Kmain
  \/ \E t \in DOMAIN procs : Spawn(t) \/ Die(t) \/ Respawn(t) \/ MmioMap(t)

Spec == Init /\ [][Next]_vars

----------------------------------------------------------------------------
(* Properties.                                                             *)

\* The process address spaces, the frames they map and the tables they need.
Roots == {procs[t].root : t \in DOMAIN procs}
UserPages(r) == Mapped(mem, r, UserHalf)
OwnTables(r) == {r} \cup Tables(mem, r, UserHalf)

\* What processes share: the services' code and data, and the IPC page.
Shared == TextFrames \cup DataFrames \cup {mem.ipcPage}

OwnFrames(r) == Frames(UserPages(r)) \ Shared

\* What the kernel uses besides its image: tables, heap, screen buffer.
HeapFrames   == Frames({p \in Mapped(mem, KernelRoot, {W - 3}) : p[1] < TempWindow})
KernelTables == {KernelRoot} \cup Tables(mem, KernelRoot, Idx)
ScreenFrames == IF off = None THEN {} ELSE off .. off + OffPages - 1
KernelFrames == Image \cup KernelTables \cup HeapFrames \cup ScreenFrames

\* The state is of the right type, and the tables are all in taken frames.
TypeOK ==
  /\ mem.ram \in RamSizes
  /\ mem.taken \subseteq 0 .. mem.ram - 1
  /\ mem.used \in Nat
  /\ DOMAIN mem.tables \subseteq mem.taken
  /\ \A f \in DOMAIN mem.tables : DOMAIN mem.tables[f] \subseteq Idx
  /\ mem.heapEnd \in 0 .. HeapMax
  /\ mem.ipcPage \in mem.taken
  /\ mem.threads \in 0 .. MaxThreads
  /\ mem = Clean(mem)
  /\ stage \in {"heap", "screen", "acpi", "services", "run", "halted", "fault"}
  /\ off \in mem.taken
  /\ tried \in 0 .. Len(Services)
  /\ DOMAIN procs \subseteq 1 .. MaxThreads - 1
  /\ failed \in BOOLEAN

\* A frame has one owner (usermode.cpp:1-16, pmm.cpp:237-269): whatever has
\* been created, grown, given back or has failed in between, no two pages and
\* no two tables of any two address spaces are in one frame, but for what the
\* processes share; none is the kernel's; and all of them are taken.
OneOwner ==
  /\ \A r \in Roots :
       /\ Cardinality(Frames(UserPages(r))) = Cardinality(UserPages(r))
       /\ OwnFrames(r) \cap OwnTables(r) = {}
       /\ (OwnFrames(r) \cup OwnTables(r)) \cap (KernelFrames \cup Shared) = {}
       /\ OwnFrames(r) \cup OwnTables(r) \subseteq mem.taken \cap Managed(mem.ram)
       /\ \A s \in Roots \ {r} : (OwnFrames(r) \cup OwnTables(r))
                                \cap (OwnFrames(s) \cup OwnTables(s)) = {}
  /\ KernelTables \cap (HeapFrames \cup ScreenFrames) = {}
  /\ HeapFrames \cap ScreenFrames = {}
  /\ KernelFrames \subseteq mem.taken

\* As long as every creation has succeeded, nothing is lost: every frame that
\* is taken belongs to the kernel or to a process (bootanim.cpp:632-640,
\* usermode.cpp:151-298).
NothingLost ==
  ~ failed =>
    mem.taken \cap Managed(mem.ram) \subseteq
      KernelFrames \cup Shared \cup UNION {OwnFrames(r) \cup OwnTables(r) : r \in Roots}

\* used_frames and with it free_memory tell the truth (pmm.cpp:321-333), also
\* after a creation that failed half-way.
CountedFrames == TypeOK /\ mem.used = Cardinality(mem.taken \cap Managed(mem.ram))

\* Every address space has the kernel's half of the kernel's own root, also
\* after the kernel has grown (usermode.cpp:90-122): the kernel runs on the
\* tables of whoever called it.
KernelHalfShared ==
  \A r \in Roots, i \in KernelHalf : Child(mem, r, i) = Child(mem, KernelRoot, i)

\* A process that exists is complete (usermode.cpp:196-269, 551-576): its
\* stack and the shared pages are there, and a service's code and data, or
\* all of a program's segments.
ProcessComplete ==
  \A t \in DOMAIN procs :
    LET pages == UserPages(procs[t].root)
        there(v, n) == v .. v + n - 1 \subseteq {p[1] : p \in pages}
    IN /\ there(StackBase, StackPages)
       /\ <<IpcVirt, mem.ipcPage>> \in pages
       /\ IF procs[t].name \in DOMAIN Programs
          THEN \A i \in DOMAIN Programs[procs[t].name] :
                 LET s == Programs[procs[t].name][i] IN s.n = 0 \/ there(s.v, s.n)
          ELSE /\ there(CodeBase, TextPages) /\ there(DataBase, DataPages)

\* What a process sees never changes behind its back (vmm.cpp:104-178): not
\* when others are created, grow or die, and not when it is restarted.
SpacesStable ==
  [][\A t \in DOMAIN procs : UserPages(procs[t].root)' = UserPages(procs[t].root)]_vars

\* Once a first process exists, map_temp cannot fail any more, although
\* nobody looks whether it does (usermode.cpp:52-58).
TempWindowStays ==
  [][stage' = "fault" /\ stage # "fault" => mem.ipcPage = None]_vars
=============================================================================
