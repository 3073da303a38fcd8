# xingxingOS in TLA+

xingxingOS is an x86_64 microkernel: the kernel keeps scheduling, memory, IPC
and interrupt dispatch, and everything else (keyboard, mouse, terminal, timer,
power, process list, shell, the `.xzs` programs) runs in user-mode processes
that talk over synchronous messages.  A service that crashes is restarted under
its old tid.  There is one CPU; interrupts are off inside a system call or an
interrupt handler; user code is preempted by a 100 Hz timer.

This directory holds TLA+ models of that code, the TLC configurations that
check them, and TLAPS proofs.  Paths below are relative to the repository.

## Inventory

| Component | State | Operations | Modelled in |
|---|---|---|---|
| IPC (`kernel/ipc.cpp`, `include/kernel/ipc.hpp`) | per slot: staged request, staged answer, `call_pending`, `reply_ready`, `delivered`; per thread: `ipc_state`, `ipc_wait_target`, `irq_waiting`, `irq_received` | `do_call`, `do_reply`, `do_recv`, `do_send`, `deliver_irq`, user-side retry loops | `Rpc`, `Ipc` |
| Crash recovery (`kernel/supervisor.cpp`, `usermode.cpp`, `isr.cpp`) | watch table: tid, dead flag, time of death, restart count | `watch`, `notify_dead`, `tick`, `kill`, `handle_user_fault`, `respawn_user_process` | `Recovery` |
| Scheduler (`kernel/thread.cpp`) | thread table, current slot, slice, `need_switch`, wake times | `tick`, `on_interrupt`, `do_switch`, `pick_next`, `sleep_ms`, `yield`, `block`, `wake`, `exit`, `create` | `Sched` |
| Kernel heap (`kernel/heap.cpp`) | block headers in a doubly linked list, end of the heap, counters | `kmalloc`, `kfree`, `krealloc`, `expand_heap` | `Alloc`, `Heap` |
| System calls (`kernel/syscall.cpp`) | none of its own | dispatch, copies from user memory | in the modules above and below, per call |
| Interrupts (`kernel/isr.cpp`, `pic.cpp`, `pit.cpp`, stubs) | uptime, ticks | IRQ to driver, EOI, dispatch | effect in `Ipc`, `Sched`, `Input`, `Terminal`, `KLog` |
| Shared IPC page (`ipc.hpp`, `usermode.cpp`) | one SEND slot, one RECV slot, keyboard ring, mouse words | filled and read by every process | `Services`; the ring in `Input` |
| Keyboard and mouse service (`kernel/services.cpp`) | prefix and shift state, key ring, packet | drain the controller's port, serve key requests | `Input`; loop also in `Ipc` |
| Terminal, timer, power and process service, shell (`kernel/services.cpp`), programs (`user/`) | the shell's line, each service's request | receive, act, reply; read a line, spawn, wait | `Services` |
| Service directory (`kernel/svcdir.cpp`) | 32 slots name -> tid | register, lookup | `Services` |
| User processes (`kernel/usermode.cpp`) | page tables, frames, stacks of each process | `create_user_process`, `spawn_program`, respawn | `Processes`; restart also in `Recovery` |
| Physical memory (`kernel/pmm.cpp`) | bitmap, counters | `init`, `alloc_frame(s)`, `alloc_frame_below`, `free_frame(s)` | `Pmm` |
| Virtual memory (`kernel/vmm.cpp`) | page tables | map, unmap, huge page split, translate | `Vmm` |
| ELF loader (`kernel/elf.cpp`) | none | validate, load segments | `Processes` |
| Start-up (`kmain.cpp`, `boot32.asm`) | boot page tables | heap, off-screen buffer, ACPI window, threads, services, in this order | `Vmm`, `Processes` |
| Terminal (`kernel/terminal.cpp`) | place, UTF-8 state, character grid, cursor | output byte by byte, scroll, clear, blink | `Terminal` |
| Mouse pointer (`kernel/mouse.cpp`) | place, pixels below it | show, hide, move, centre | `Terminal` |
| Kernel log (`kernel/log.cpp`) | batch buffer, counters, period | record, tick, flush, LOG_CONTROL | `KLog` |
| printf and serial port (`kernel/printf.cpp`, `serial.cpp`) | port ready | conversions, `kprintf`, `kprintf_serial` | `Printf`, `KLog` |
| ACPI (`kernel/acpi.cpp`) | window, PM1 ports, sleep type | find the tables at boot, write the registers at shutdown | `Acpi`; the window's mapping in `Processes` |
| Kernel keyboard driver, kernel shell, framebuffer, fonts, boot animation, error screens, multiboot, gdt, rest of the boot code | | | see "Not modelled" |

How they meet: every kernel entry (system call, IRQ, exception) runs to its
end and then goes through the scheduler's dispatch.  IPC and recovery write the
scheduler's `state` directly (BLOCKED, READY, DEAD) and never ask for a switch
except by making the current thread not RUNNING.  The timer interrupt counts
the tick, then runs the log's period, the cursor's blink, `sched::tick` and
`supervisor::tick`, then `deliver_irq`, then the dispatch.
The supervisor resets a thread's control block but not the flags `ipc.cpp` keeps
for the slot.  On the user side everything passes through one page that every
process maps: a client fills the page's SEND slot and calls, a service finds the
request in the RECV slot and answers from the SEND slot; keys go from the keyboard
service's ring in that page to the shell.  The power service ends in `acpi.cpp`,
the terminal service in `terminal.cpp`, which hides the mouse pointer first.

What is hard here: the two-step blocking protocol (the kernel blocks a thread
and returns WOULD_BLOCK, the thread makes the same call again when it runs),
interleaved with other calls and IRQs; deaths between any two steps of a
conversation; restarts into a slot whose flags still tell of the former life;
round robin under wakeups that ask for no switch; list surgery in the heap over
long sequences of calls; one shared slot, one controller port and one mapping
window for several users; a screen that is redrawn from memory by parties that
do not know of each other.  The hazards, each at its line, are in `PROJECT.json`.

What makes each component correct (where the code does not keep it, see "What is checked"):

- IPC: no service sleeps on an unread request; no blocked client is forgotten;
  every answer goes to the request it answers; each request is taken once and
  answered once; every call returns.
- Crash recovery: requests that nobody has taken survive a restart; nobody waits
  for the dead; a restarted thread starts like a new one.
- Scheduler: exactly one thread runs; READY threads of the highest priority take
  turns; sleepers sleep until their time and then wake; priorities are inverted
  for a bounded time only; a dead thread never runs.
- Kernel heap: regions in use never overlap, move or shrink below what was asked
  for; the block list tiles the heap; the counters agree with the list.
- Shared IPC page: one client at a time, and what a service does was asked for.
  Keys: they come once, in order, and every key arrives; bytes go to the service
  of the device they come from.  Shell: it always comes back.
- Service directory: a name finds the service that registered it.
- Physical memory: a frame has one owner; reserved frames are never handed out;
  the counter of used frames is true.  Virtual memory: mapping one page disturbs
  no other, and no other process.  Process creation: a process that exists has
  all its parts and the kernel's half; what was allocated belongs to somebody.
- Screen: the grid says what the cells show; the pointer and the cursor leave
  nothing behind.  printf: what the standard says.  Log: a report adds up to what
  was recorded, and memory holds the records of one period.  ACPI: a machine
  whose tables can be found goes off.

## The modules

| Module | What it is |
|---|---|
| `Rpc` | abstract: ask, take, answer, return |
| `Ipc` | `ipc.cpp` and the user-side loops; implements `Rpc` |
| `Recovery` | `Ipc` extended with deaths, the supervisor and restarts |
| `Sched` | the scheduler |
| `Alloc` | abstract: give, take back, resize and move regions |
| `Heap` | `heap.cpp`; implements `Alloc` |
| `Pmm`, `Vmm` | the frame allocator and the page tables, as operators on the memory |
| `Processes` | start-up, processes and their address spaces, on `Pmm` and `Vmm` |
| `Input` | keyboard and mouse: controller, services, ring, the shell's polls |
| `Services` | the shared page, the shell, the programs, the other services, the directory |
| `Acpi` | firmware tables and power-off, as operators on a firmware |
| `Terminal` | screen, cursor and mouse pointer |
| `Printf` | `printf.cpp`, as operators on formats |
| `KLog` | the log, the serial port and `kprintf`, on `Printf` |
| `Recovery_proofs` | theorems about `Ipc` and `Recovery` |
| `Sched_proofs`, `Heap_proofs`, `Input_proofs`, `KLog_proofs`, `Services_proofs`, `Terminal_proofs` | theorems about the module of that name |
| `Ownership` | what the inductive invariant of `Processes` says: who owns which table and page |
| `Processes_proofs` | lemmas about the functions of `Pmm` and `Vmm`, one or more per function, then theorems about `Processes` |
| `MCIpc`, `MCRecovery`, `MCSched`, `MCHeap`, `MCProcesses`, `MCServices`, `MCDisplay`, `MCKLog` | small instances for TLC; the last three also hold properties or what they refer to |

### Ipc

A system call runs with interrupts off, so each handler is one action; the
timer may preempt user code between any two of them, so the actions of all
threads interleave freely.  Which thread runs next is the business of `Sched`;
here "READY" stands for READY and RUNNING.  `kernelVars` are the fields of the
thread control block and the per-slot flags of `ipc.cpp`; `pc`, `dest`, `held`
and `result` are what the user-side program of `ipc.hpp` keeps on its stack.
`DoCall` is `do_call` with its three ways out: `CallSend` (no call pending: keep
the request, wake a waiting service, block), `CallAgain` (retry, no answer yet)
and `CallCollect` (retry, the answer is there), and `CallNoDest` for a tid nobody
has.  `CallAgain` and a refused reply need a death to happen: `IInv` excludes them in
`Ipc` alone, and the run `recovery` takes them.  `DoRecv`, `DoReply` and `DeliverIrq` follow the same pattern.

A request is the pair of its client and its number, and a service answers with
the request itself, which is all that the properties tell apart.  A tid and its
slot are the same number, because no slot is ever used twice.  Only the kernel's
buffers are modelled here; the shared page on the way to them is in `Services`.
`do_send` is left out: no program calls `ipc_send`.

Sleeping, waking and switching appear only as far as `state`.  A thread may be
in the middle of `IPC_CALL` and preempted, but never inside a handler.

### Recovery

`Kill` (a client calls `Sys::KILL` on anybody), `Fault` (an exception in user
code), `ProgramExits` and `ServiceExits` (`Sys::EXIT`, of which the supervisor
is not told; the services that obey `MSG_HALT` answer first), `Respawn` (the
timer's `supervisor::tick` and `respawn_user_process`).  `RESTART_DELAY_MS` is
any delay.  `wake_waiters_of` wakes threads whose `wait_tid` is the dead tid; no
code sets `wait_tid` to a tid, so it has no effect and no variable.  `Kill`
leaves `ipc_state` alone and the wakeups of `ipc.cpp` look only at it, so a
dead thread can be made READY: the model has that, and all runs take it.
`Respawn` leaves `call_pending`, `reply_ready` and `delivered` as they are, as
`respawn_user_process` does: the first call of a client restarted in mid-call is
taken for the retry of the old one (`CallCollect` or `CallAgain` of `Ipc`).  Two
history variables count what that does: `born` are the requests of a client's
former lives, `old` how many of its calls returned the answer to one of them.
`OneOldAnswerPerRestart` says that this is at most one for each restart.  It does
not say that no old answer is returned: `usermode.cpp:367-369` does, and that is
not true.  `Stranded` is a client that sleeps with nobody left to answer it, which
includes one whose service is dead and not listed for a restart (`Gone`).

### Sched

Each action is one kernel entry from its start to the dispatch at its end, with
the argument `need` in the place of `g_need_switch`.  `PickNext`, `DoSwitch` and
`Dispatch` are `pick_next`, `do_switch` and `on_interrupt`.  `Wake`, `Wait`, `WaitAgain`,
`Kill` stand for what IPC, interrupts and the supervisor do to `state`.  `waiting` are
the threads whose `ipc_state` is not NONE, which is all a wakeup looks at, as in
`ipc.cpp`; `WaitAgain` is the retry that blocks without one.  `asleep` counts
down the ticks to `wake_time_ms`.  `lag` is a history variable: for how many
ticks a READY thread has waited behind a current one of lower priority.
A killed thread keeps its `ipc_state`, so a wakeup makes it READY, and the supervisor
may then restart it while it runs: it is left READY on the CPU until another thread
of its rank wants it.  That sleepers rest is thus no guard but follows from when the
code sets and clears `ipc_state` and the alarm.  Threads 0 and 1 never block, exit or
die: `supervisor::kill` refuses kernel threads.
`g_preempt_disable` and `Spinlock` are left out, as no code uses them.

### Heap

A heap is a record: per block its size, its free flag and its two links, then
`g_last`, `g_heap_end`, `g_used` and `g_blocks`.  `Insert`, `ExpandHeap`, `Split`,
`Merge`, `Use` and `Release` map a heap to the heap after the function; addresses
count 16 bytes.  One call of `kmalloc` is `Malloc`, then `Grow` for every
expansion, then `Take` or `Fail`; between them no other call starts, as the heap
is used with interrupts off.  `krealloc` is `ReallocInPlace`, or `ReallocMove`
and then `kmalloc`'s steps, the last of which also frees the old block.  `Fail`
is possible at every expansion, because physical memory may be out.  The magic
number is left out: callers free what they hold, once.

### Pmm, Vmm, Processes

The state is one record `mem`: which frames are taken, how many the allocator
believes are used, and for each frame that holds a page table its present
entries.  An operator of `Pmm` or `Vmm` takes the memory to the memory after the
function of that name; it leaves its result in `got` (a frame), `at` (the table it
walked to), `root` (a new address space), `ok` (FALSE once something failed, after
which every operator does nothing, as the code returns) and `fault`.  Interrupts
are off in all of this code, so a whole creation is one action, and its partial
failures come from the sizes of the machine: memory may run out at any
allocation.  Two levels share the work with the rest of the code: whether
`kmalloc` has to expand the heap for a thread's stack is left open (`grow`), and a
death is just the end of a life, because nothing is given back however it comes.

A table has `W` entries instead of 512; an address is a page number, whose digits
to the base `W` are the four indices, and the addresses of the code keep their
places: heap and temporary window in one entry of the root, the kernel's image, the
off-screen buffer and the ACPI window in the last one, inside the direct map.
The boot tables are those that `boot32.asm` builds.  Contents of pages, flags
and the TLB are left out.  `MapTemp` ignores the answer of `map_page` as the code
does and ends in `fault` if the window does not lead to the frame.  The model
follows the code where comments have been overtaken by it: usermode.cpp:44-49
says that `map_page` does not split huge pages, usermode.cpp:99-102 that the heap
has index 464 of the root (the shift gives 509).

### Input

One port access of a service and what it computes until its next system call is
one step.  The controller has one output buffer and each device a queue;
`Load` moves a byte and raises the interrupt once, and `DeliverIrq` marks and
wakes only a driver that is blocked, as `deliver_irq` does.  `KbdStatus`, `KbdRead`,
`KbdRecv` and `KbdReply` are the keyboard service with `drain` before `ipc_recv` and after
each request; `Scan` and `Push` are its byte handling with the prefix E0, the key that
is held down, and the ring that is full with `KBQ_CAP - 1` keys.  `MouseSetup` reads port 0x60
without looking whose byte is there, as the code does: the service may take
the keyboard's byte, and the keyboard service the mouse's answer.  `mixed` remembers
that; the properties speak of the time before it.  After a key is released while
another is held, a repeat can be taken for a press (`rolled`): the code remembers
one key only.  The pointer's acceleration and clamping are left out.

### Services

The user side above `Rpc`: `FillType`, `FillRest` and `IpcCall` are three steps of a
client because the timer may preempt it between them, and `Return` copies the answer
into the same SEND slot.  `Prompt`, `ReadLine`, `Spawn`, `Wait` and `ProgramExits` are the
shell; `Main` gives what each program of the initrd asks for, in order; `Puts` cuts
a text into messages as `puts` does.  `Terminal`, `Keyboard`, `Power`, `Proc` and `Timer`
are one service's work on one request each.  `Tick` wakes the timer service, which
fills the SEND slot for nobody; `torn` remembers that it did so while the slot was in
use.  `Registered` is the directory after start-up with its prefix match; only the first
letters matter, so names are two letters.  `got` are the numbers of the keys in the
order in which the shell got them: the place at which each was popped.  The power service answers before
it acts, and so does the model.  `Wait` returns when the program is dead;
the code gives up after 10 million polls, which is left out, and `PageToOneClient` rests on that.  No service dies here:
that is `Recovery`.

### Acpi

Operators from a firmware (two places for the root pointer, a FADT in the
BIOS area, and the table at each address) to what `init` finds and `shutdown` writes.
`Window` is what a pointer into the one mapping window shows: always the table
fetched last.  `TableOf` therefore walks over copied entries, and `AcpiInit` takes
the ports before the DSDT is fetched.  `ParseS5` works on the bytes of the DSDT, the
name `_S5_` counting as one.  Lengths are taken to be in order and tables to fit into
the window (1 MB).  The value for PM1b that `parse_s5` finds is used by nobody
(both registers get the same type), so it has no place in the model.

### Terminal

A screen is a record; the functions of `terminal.cpp` and `mouse.cpp` are operators on
screens.  `Putc` takes bytes: UTF-8 is put together (`Gather`), broken sequences print
`?`, a han takes two cells.  `ScrollOneLine` erases the cursor, hides the pointer, moves
picture and grid, and draws both again; with the VGA back end the grid stays where it
is, so from the scroll on no cell's entry is its own until it is written.
`SysPuts`, `SysClear`, `SysMouseDraw`, `SysMouseCenter` and `TimerTick` are the entries, with
interrupts off.  A cell stands for its pixels.  `forgotten` and `under` are history
variables of the cells for which the code does not keep its word: those the grid
has not followed since a clear (or, on VGA, a scroll), and those in which the cursor
blinked below the pointer, because the timer does not hide it.

### Printf, KLog

`Vsnprintf` gives the text and the count for a format, which is a sequence of pieces
with flags, width, length and argument; `int` has `IntBits` and `long` `LongBits` bits.  `KLog` has the
batch, the period and the switch: `Record`, `Tick`, `LogProgram` (through `LogControl`) and
`KPrintf`.  `port` is what the last step sent to the serial port, `Serial` adds the
carriage returns and says nothing before the port is ready; `wait_transmit_empty`
and its time-out are left out.  Every record is made with interrupts off.

## What is checked

| Run | Instance | Shows |
|---|---|---|
| `ipc` | 3 clients (2, 2 and 1 calls), a service, an IRQ driver, a tid nobody has | `NoLostWakeup`, `CallerAccounted`, `AnswerMatches`, the inductive invariant `IInv`, that `Ipc` implements `Rpc`, and `EveryCallReturns` |
| `recovery` | 2 clients, a driver, a service that halts on request; 2 deaths, 1 restart each | what deaths cannot break: no service sleeps on a request, a restart costs at most one old answer, a client is stranded only by its own service (dead for good, or dead or restarted with the request in hand), untaken requests are served after the restart |
| `recovery_stuck` | 1 death | violated: `NobodyWaitsForever` |
| `sched` | 5 slots: main, idle, two high and watched, one of main's priority spawned later; slice 3 ticks, sleeps up to 2 | one thread runs, bounded inversion, sleepers rest and wake, READY threads get their turn; `SInv` |
| `heap` | header 1, expansion 5, limit 15 units; requests 1, 2, 6 | `HeapOK` (tiling, links, regions held, counters), that `Heap` implements `Alloc` |
| `memory` | 8 entries per table; 22 to 64 frames, 13 of them the image, one a hole; two services, a good and a bad program, 5 slots | `OneOwner`, `NothingLost` (while nothing has failed: what a failed creation leaks is not judged), `CountedFrames`, `KernelHalfShared`, `ProcessComplete`, `SpacesStable`, `TempWindowStays` |
| `display` | 3 by 2 cells, both back ends, 4 texts out of 12, a pointer of one cell | `GridTruth`, `OneArrow`, `OneBlock` |
| `input` | a character key, a prefixed key, a mouse; 4 key events, 1 movement; ring for 1 key | bytes go to their owners, keys come once and in order, and arrive unless the mouse has stopped the controller |
| `input_stuck` | the same | violated: `KeysArrive` |
| `services` | shell, six programs, five services; five things to type; 2 ticks; messages of 4 bytes, a line of 4 keys | `ServedAsAsked`, `KeysInLine`, `PageToOneClient`, `ShellComesBack`; `PowersOff` over some 500 firmwares |
| `page_slot` | 1 tick | violated: `NothingLeftOut` |
| `log` | batch of 3, 2 lines per flush, period of 3 ticks, 5 records; 2850 formats, words of 8 bits | `FormatTrue`, `ReportTrue`, `MemoryRecent` |

Every property that holds has a mutant of the model that breaks it, written just
before the definition it replaces and listed in `PROJECT.json`.  The type
invariants are parts of `IInv`, `SInv`, `OneOldAnswerPerRestart`, `CountedFrames`, `HeapOK`, `OneArrow`
and `InputOK`.

The runs that are violated are places where the code does something else
than its comments say; `PROJECT.json` quotes them under "findings":

1. `recovery_stuck`: a service dies with a request in hand; its caller is never
   woken, though three comments say it is.
2. `input_stuck`: an interrupt that comes just before the mouse service blocks is
   lost, its byte stays in the controller's buffer, and the keyboard is dead.
3. `page_slot`: the timer service answers every tick into the shared SEND slot and
   overwrites the request a client is filling.

Other places where the models do as the code and not as its comments, without a
run of their own:

- A thread killed while it waits in IPC is made READY by the next message
  (`ipc.cpp:267` looks at `ipc_state`, which `kill` leaves set).
- A client restarted in mid-call takes its first call for a retry, because
  `call_pending` survives: the call returns the answer its former life had asked
  for, or blocks, for ever if that one does not come.  `usermode.cpp:367-369` says
  that what is left of the former life is cleared.
- A watched thread that was killed, resurrected by a message and then restarted while
  it runs stays READY on the CPU, where its slice does not run down.
- With the VGA's text mode the character grid does not scroll with the picture
  (`terminal.cpp:409-421`); `terminal.cpp:359-361` and `446-457` say it must.
- `do_send` to a waiting service marks the message delivered and nobody receives
  it (`ipc.cpp:277-299`).
- Free blocks on both sides of a heap expansion are not merged (`heap.hpp:12`).
- The windows of the boot animation and of ACPI lie inside the direct map, which
  `vmm.cpp:9-11` relies on for every frame below 2 GB.
- `MMIO_MAP` maps into the kernel's tables, not into the caller's (`syscall.hpp:35`).
- The terminal's `clear` (`terminal.cpp:687-706`) resets neither the grid nor the
  cursor's last place and hides the pointer only after clearing; `terminal.cpp:661-665`
  says the opposite.
- Erasing the cursor from the left half of a han paints both halves, over whatever was written
  into the right half since (`terminal.cpp:276-312`).  A byte that is no continuation ends `putc`
  before `cursor_moved` (`terminal.cpp:727-752`), so what was painted can stay.
- `LOG_CONTROL` with 1 only sets the switch; `syscall.cpp:413-416` says it flushes at once.
- `printf.hpp:17-20` speaks of the standard's `printf`: `h` and `hh` do not cut the argument
  (`printf.cpp:185-202`); `FormatTrue` says so in `Uncut` and compares all other arguments,
  and these by the value the code takes; and `#` puts zeros
  before `0x` and an `0x` before 0.  `XingPrintI64` (`xingcrt.cpp:223-230`)
  prints a negative number as an unsigned one.
- ACPI: on a machine whose two sleep types differ the shutdown fails, as the second
  is never written; `g_d_s5` is never set, so the diagnosis always says that
  parsing failed; without a root pointer `init` computes a checksum at address 0.

### Bounds, and why they are enough

`MaxCalls` is the only bound on the IPC: two calls per client are the least in
which a flag left over from a call can spoil the next one; three clients let two
queue at a service while a third is served; the third needs one call for that.  The
driver adds the IRQ path, the absent tid the error path.  `MaxDeaths = 2` lets
the client and its service die in one conversation, or one of them twice;
`MaxRestart = 1` reaches the supervisor's limit (5 in the code), and `QueuedRequestsServed`
excepts only a second death after it, so the service that was restarted once must take
what was queued.  The scheduler's
state is finite but for sleeps; two slots per priority are the least that can
take turns, a slice of 3 ticks (2 in the code) leaves a tick of it on either side of an
event, and a sleep of 2 lets a tick go by before the one that wakes.  The heap's sizes make every case of `split_block` and
`merge_with_next` happen: 1 unit, a remainder too small to split, 2 that leaves one
just large enough, and 6 that never fits into one expansion.  The limit leaves
room for three expansions.

The machine sizes of `memory` are the bound that matters: with 22 frames the first
service cannot be completed, with 26 to 34 start-up fails at one place after the
other, with 40 and 46 programs are spawned until memory runs out, and with 64 the five
slots (32 in the code) are gone first.  One process is dead at a time.  8 entries per table are the least that keep all the code's
regions in different entries.  The heap may grow once, and each program has two
segments, the bad one failing at its second.  `MMIO_MAP` gives one page.

`display`: three columns are the least in which a han fits, does not fit, and wraps; two
rows scroll; four texts fill the screen and scroll it, and one of them
can write over half of a han.  The grid is larger
than the screen, as in the code.  `input`: four key
events are a press, a repeat, a release and the next press, or two keys held at
once; one movement is enough to stop the controller, one early event to mix the bytes of
the set-up, and a ring for one key is full at once.  `services`: texts are at most two
han, so that one message of four bytes cuts between them and a bad cut would split
one; a line of four keys is overrun by the longest script; two ticks hit
two different steps of a conversation.  `log`: more records than the batch
holds, more in the batch than a flush prints, and one period and part of the next; formats are combined with
all flags, a width that is too small, one that is not and a negative one, and
the least and the greatest word.

### Fairness

`ipc`: a client that is in a call and a service in its loop keep making steps
(weak fairness per thread): the scheduler's `ReadyRuns` shows that a READY thread gets the
CPU, as long as no thread of a higher priority keeps it, and the services block
when they have nothing to do.  No client is forced to call and no IRQ to come.
`EveryCallReturns` holds for a bounded number of calls only: `do_recv` always
scans from slot 0, so clients in low slots that never stop can starve one in a
high slot, which the run, with its bounded calls, does not show.  `recovery` adds fairness of `Respawn` (the timer never stops).
`sched`: weak fairness of the timer tick alone; nothing is assumed of user code.
`input`: weak fairness of the controller (it loads a byte it can load), of each
service and of the shell's polling; none of the user.  `services`: weak fairness of each
thread, for the reason given under `ipc`; none of typing and ticks.
`memory`, `display` and `log` check no liveness, for each step is a whole kernel entry.
`heap` checks none: a call is a loop that ends at the heap's limit.
`memory` and the two recovery runs switch deadlock checking off: memory and slots run
out, and a machine whose services are dead beyond `MaxRestart` stops.
`services` has a step `Off` in which nothing happens any more once the machine is off.

## What is proved

TLAPS proves, for every value of the constants that the ASSUMEs allow:

- `Recovery_proofs`, first part: `TypeOK`, `IInv`, `NoLostWakeup`, `CallerAccounted` and
  `AnswerMatches` are invariants of `Spec`, for any sets of clients, services and
  drivers and any number of calls.  None of the three is inductive: whether a
  wakeup can be lost depends on what the flags of each slot mean at each stage of
  a call.  `IInv` says that: `ClientInv` ties `ipc_state`, `call_pending`,
  `reply_ready` and `delivered` of a client to the stage of its call and, once its
  request is taken, to the `held` of the service; `ServerInv` says the same of a
  service from its side, and that a sleeping one has an empty queue.  One lemma
  per handler (`StartInv`, `SendInv`, `CollectInv`, `RecvInv`, `ReplyInv`,
  `IrqInv`) shows that it keeps `IInv`.
  Also `Spec => RefinesRpc`: sending a new request is `Ask`,
  taking one out of its slot `Take`, replying `Answer`, the retry that finds the
  answer `Return`; every other step changes nothing the abstraction sees.
- `Recovery_proofs`, second part: `SleepingServiceIsIdle`, `OneOldAnswerPerRestart` and the action property
  `OnlyOwnServiceStrands`, for any number of deaths and any limit on
  restarts.  `IInv` does not survive a death: a slot may hold the flags of its
  former thread, and a dead thread may be made READY.  `RecoveryIInv` says what is left.
  `SlotOfClient` lists what the flags of a slot can be, including
  those that a former life left behind, that an answer kept is the answer to the
  slot's latest request, and that a client whose slot still shows a former life's request has
  had fewer old answers than restarts; `SlotOfService` says that one that waits in `ipc_recv` has an
  empty queue, dead or alive.  The action property follows from the same
  invariant: of all steps, only a service's death and its `Respawn` take away a request in
  hand, and only a service that is dead and not listed for a restart leaves one queued for ever.
- `Sched_proofs`: `TypeOK`, `SInv`, `OneRunning`, `InversionBounded` and `SleepersRest`, for any
  number of threads, any priorities and any slice.  `SInv` adds what makes
  them inductive: thread 0 can always run (so that the dispatch finds somebody when
  the current thread has blocked), a thread with an `ipc_state` neither runs nor sleeps (so a
  wakeup, which looks at nothing else, hits no sleeper), and `lag + slice <= SLICE_TICKS`.
  A restart may hit the current thread; `TickKeeps` and `CurrentIsLast` have that case.
  `DispatchSettles` says what the dispatch leaves behind; it rests on
  `PickFinds`: if some thread is READY, `pick_next` finds one, and
  `DistanceInjective`: it finds no two.

- `Heap_proofs`: `HeapOK` and `Spec => RefinesAlloc`, for any sizes of header, expansion,
  heap and requests.  `Sound` says of a heap that its blocks tile it, that the links
  are each other's inverse and that the counter of blocks is true; `Owned` that the blocks
  in use are those of the callers, none shorter than asked for, and that
  `g_used` is the sum of their sizes.  `HeapIInv` is `Owned` of the heap and of what was
  asked for, and `krealloc`'s block is still held while `kmalloc` looks for another.
  One lemma per list operation (`SplitSound`, `MergeSound`, ...) keeps `Sound`.  The sum
  is handled by `SumRemove`, one block at a time.  A step of `Heap` is a
  step of `Alloc` or changes no region in use.
- `Input_proofs`: `InputOK`, `BytesToOwners` and `KeysInOrder`, for any keys, any size of the
  ring and whatever the user does.  `InputIInv` reads the queue of a device and
  the output buffer as one stream: `KeyLine` says of the stream what the user's keys
  can have sent (prefixes paired, repeats only of a key that was shown, serial
  numbers in order) relative to what the keyboard service remembers, and `MouseSends` that
  the mouse service's packet and the stream together are whole movements.
  `ReaderHasByte` is the heart of `BytesToOwners`: between the look at the status and the
  read the byte cannot change, since only its owner would take it.
- `KLog_proofs`: `MemoryRecent`, for any capacity, period and tick frequency.  The
  inductive invariant `KLogIInv` says that the batch holds the first records since the last clear
  and all of them are of the period that began at `last`; milliseconds are rounded, so
  `UptimeMonotone` is needed to compare them.
- `Services_proofs`: `PageToOneClient`, `KeysInLine` and `ServedAsAsked`, for any scripts, any
  number of ticks, any sizes of a message, a line and its words.  The page is used by one client at a
  time not because of a lock but because of who waits for whom: `Turns` says that
  the shell waits while a program runs, `Engaged` that a service in mid-work has the message of
  a client that called it and waits.  `CallsForKeys` adds that only the shell, reading a line,
  calls the keyboard service; `KeysOnTheWay` that the key on its way to the shell comes
  after those it has, and, unless the timer service wrote over an answer, is the
  only one missing.  For `ServedAsAsked`: `RightService` says that a request is with the
  service it is for, which needs that no two names in the directory are prefixes of each
  other (`NamesDiffer`); `NothingUnknown` that every value under way was typed or is
  one the services answer, so that a request to stop the machine comes from a typed
  `r` or `s`; `SentText` that a message that can print at all prints the whole of the
  latest text, whatever the timer service wrote over it: a torn message has length 0.
  `Untorn` is what holds besides while nothing was overwritten: the slot says what
  its client meant (`AsMeant`), and the terminal is one text behind exactly while one is on
  its way (`Owed`).  `PutsType` and its like prove by induction over the text that the chunks
  the programs send cut no character.
- `Ownership`, `Processes_proofs`: `OneOwner`, `NothingLost`, `CountedFrames`, `KernelHalfShared`,
  `ProcessComplete`, `SpacesStable` and `TempWindowStays`, for any machine, any number of entries in a
  table from 8 on, any programs and any number of processes.  None of these is inductive, because
  the state does not say what a table is for: only the links tell.  So `IInv` is `StageOK`
  (what the stages of `kmain` have in common) and *there is a history* `g` that gives to
  every table its owner (the kernel or a root), its level, and the leading digits of the
  pages below it, such that `Sound` holds: every table but a root hangs in exactly one place,
  at the level and digits that the history says (`Tree`); no entry leads outside the
  memory; a page of a process or of the heap is in a frame taken for it, which is no table, or is
  one of those all share and in its place (`PagesOK`), and no frame but those holds two
  pages (`PagesApart`); every table is in a frame that is taken (`TablesOK`); the frames set aside
  for the screen and the shared page are apart from both (`AsideOK`); the counter is right; every root agrees
  with the kernel's in the kernel's half; every process has its pages.  `AllOwned`, that every
  frame taken is a table, a page or set aside, is added as long as nothing has failed.
  The first part of `Processes_proofs` shows for each function of `pmm.cpp` and `vmm.cpp` which history
  goes with the memory it leaves (`FreeFramesSound`, `SplitSound`, `DescendSound`,
  `LeafSound`, `MapPageSound`, `MapPagesSound`, `UnmapPageSound`, ...) and that no page of others has moved (`Later`);
  loops are folds, proved for all lengths at once (`GrowLoop`, `UnmapLoop`, ...).
  `CreateUserPml4Sound` is the longest: a new root is written through the one window,
  which the kernel maps and unmaps around each access, and only the first use of the window may need new
  tables.  That is `TempWindowStays`: after the first process the tables below the window exist, and
  `map_page` cannot fail in it.
- `Terminal_proofs`: `TypeOK`, `GridTruth`, `OneArrow` and `OneBlock`, for any size of the screen, the
  grid and the pointer, any texts and any movements.  None is inductive: all three speak of the
  picture with the pointer hidden (`Bare`), and what the next step draws depends on the backup
  and on where the cursor was last.  `TerminalIInv` is `Sane`: hiding the pointer leaves a
  `Steady` screen, and a pointer that is shown has a backup of its own cells, without arrows, under
  arrows that only a blink may have taken away.  `Steady` is `Quiet` with the place and the last place of the cursor
  on the screen and the bytes gathered so far the beginning of a character; `Quiet` says of
  every cell that it is `Truthful` unless set apart by `forgotten` or `under`, shows no part of
  the pointer, and is inverse only at the last place while the block is drawn.
  `Painted` is what any drawing leaves of the rest of the screen.  There is a lemma for each
  function (`EraseCursorAtPaints`, `DrawBlockPaints`, `SetCursorVisiblePaints`,
  `ScrollOneLineQuiet`, `EmitAsciiQuiet`, `PlaceHanQuiet`, `PutcSteady`), a text is a fold of `Putc`
  (`TextSteady`), and `BlinkedSane` is the timer's blink below the pointer.
  The first attempt at this proof refuted an earlier `GridTruth` that TLC had passed: it
  said that every cell shows exactly what the grid holds, and the repainted half of a han
  (see "other places") took more texts than the run printed.  The property
  now says what the code keeps.
- The library's induction theorems take a predicate, which cannot be handed to them here.
  `LeastNatural`, `NatInd` and `FiniteInd` are induction stated for a set of
  values in its place; `Processes_proofs`, `Heap_proofs` and `Services_proofs` each begin with those they need, and with what
  follows about `Max` and `Min`, sums over a finite set, folds over a sequence
  (`FoldIn`) and functions that recur on a greater argument (`JumpIn`).

All but one of the invariants were found inductive only after TLC had refused weaker ones on the
instances of the runs: each was checked as an invariant there first.  The one of `Processes` speaks of
a history that exists, which TLC cannot search for; TLC checks the seven properties that follow from it.

Assumptions are those named in the modules: the sets and sizes are what they
are said to be, a ring has room for a key (`KBQ_CAP > 1`), keys have names of their own,
a message has room for a han (`Cap >= 3`), the screen has three columns or more and the grid a row
more than the screen (a han is drawn before the screen scrolls; nothing in the code checks that the
boot loader's mode fits the grid of 256 by 128, and `terminal.cpp` only keeps inside its array), a request of the heap is not empty and a block has
room for its header.  Those of `Processes` deserve a look, because no code checks them: the
regions of the address space do not overlap (`LayoutAssumption`, the constants of `usermode.cpp`,
`heap.hpp` and `bootanim.cpp`); the services' code and data lie in the image, apart (`ImageAssumption`,
the linker script); the segments of a program share no page with each other, with the stack or with
the shared page (`ProgramsAssumption`): `elf.cpp` would map the second over the first, and the
first one's frame would be lost.  The programs in `user/` share none: the linker puts each into a single segment.  `MMIO_MAP` maps wherever its
caller proposes; the same assumption keeps that in the user's half, and no program calls it.

Only model-checked: all liveness (`EveryCallReturns`, `QueuedRequestsServed`,
`ReadyRuns`, `SleeperWakes`, `KeysArriveOrWedged`, `ShellComesBack`), since fairness and
ENABLED are out of the prover's reach; `FormatTrue`, `ReportTrue` and `PowersOff`, which compare the code's
algorithm with a reference over bounded inputs: `Printf` and `Acpi` are written with
RECURSIVE operators, of which the prover knows nothing.

## Plan

Done, in this order: `Rpc`, `Ipc` with its proofs, `Recovery`, `Sched`
with its proofs, `Alloc` and `Heap`, `Pmm`, `Vmm` and `Processes`, `Terminal`, `Input`,
`Services`, `Printf` and `KLog`, `Acpi`; then the proofs about `Recovery`, `Heap`, `Input`, `KLog`,
`Services`, `Processes` and `Terminal`.

## Not modelled

- The kernel's keyboard driver (`keyboard.cpp`) and the kernel's shell (`shell.cpp`): dead
  code.  The driver's handler is never registered and nobody reads its buffer;
  nobody calls the shell.  The live ones are in `Input` and `Services`.
- `do_send`: no program calls it; what it does is noted above.
- Fonts, the framebuffer's pixels and the boot animation's drawing: the picture is by
  cell.  What the animation maps is in `Processes`.
- The error screens (`bsod.cpp`) stop the machine.
- Port programming (PIC, PIT, serial), gdt, multiboot, and what boot does besides
  laying out memory: one pass without concurrency, which leaves behind what is `Init`.
- The system calls that only read, copies from user memory, the bytes of pages and of
  heap blocks, the mouse's acceleration.
