-------------------------------- MODULE KLog --------------------------------
(***************************************************************************)
(* The kernel's log (kernel/log.cpp) and what the kernel says on the       *)
(* serial port (kernel/serial.cpp) and the console: records are kept in a  *)
(* batch that the timer's tick empties at the end of every period, printed *)
(* first if the switch is on; the program log and the system call          *)
(* LOG_CONTROL turn the switch and print at once.  Every record, tick and  *)
(* system call runs with interrupts off: each is one step.                 *)
(***************************************************************************)
EXTENDS Printf

CONSTANTS Capacity,      \* LOG_CAPACITY
          MaxPerFlush,   \* MAX_PER_FLUSH
          Interval,      \* FLUSH_INTERVAL_MS
          Frequency,     \* ticks in a second
          Events,        \* what is recorded: mod, op, addr, ret, extra, tid
          Formats,       \* the formats kprintf is called with
          MaxTicks,      \* bound: ticks
          MaxRecords     \* bound: records of one batch

ASSUME KLogAssumption ==
  /\ Capacity \in Nat \ {0} /\ MaxPerFlush \in 1..Capacity
  /\ Interval \in Nat \ {0} /\ Frequency \in Nat \ {0}

VARIABLES ticks,      \* g_ticks
          buf,        \* g_buf
          count,      \* g_count
          dropped,    \* g_dropped
          flushOn,    \* g_flush_on
          last,       \* g_last_period_ms
          ready,      \* g_ready of the serial port
          port,       \* what the last step sent to the port
          console,    \* what kprintf was called with and gave the screen in it
          made,       \* history: what was recorded since the last clear
          told        \* history: the batch of the report it sent

vars == <<ticks, buf, count, dropped, flushOn, last, ready, port, console, made, told>>

UptimeMs(t) == (t * 1000) \div Frequency

Nothing == [format |-> <<>>, only |-> FALSE, screen |-> <<>>, written |-> 0]

Init ==
  /\ ticks = 0 /\ count = 0 /\ dropped = 0 /\ flushOn = FALSE /\ last = 0
  /\ buf = <<>>
  /\ ready \in BOOLEAN
  /\ port = <<>> /\ console = Nothing /\ made = <<>> /\ told = <<>>

\* A step that prints nothing.
Silent == port' = <<>> /\ console' = Nothing /\ told' = <<>>

----------------------------------------------------------------------------
(* Recording.                                                              *)

Entry(t, e) == [tick |-> t, tid |-> e.tid, mod |-> e.mod, op |-> e.op,
                addr |-> e.addr, ret |-> e.ret, extra |-> e.extra]

\* A batch that is full takes no more: the record is counted and lost.
Record ==
  \E e \in Events :
    /\ Len(made) < MaxRecords
    /\ made' = Append(made, Entry(ticks, e))
    /\ IF count >= Capacity
       THEN dropped' = dropped + 1 /\ UNCHANGED <<buf, count>>
       ELSE /\ buf' = [i \in DOMAIN buf \cup {count + 1} |->
                         IF i = count + 1 THEN Entry(ticks, e) ELSE buf[i]]
            /\ count' = count + 1
            /\ UNCHANGED dropped
    /\ Silent
    /\ UNCHANGED <<ticks, flushOn, last, ready>>

----------------------------------------------------------------------------
(* Printing a batch.                                                       *)

\* The character that ends a line is sent as two.
Putc(ch)     == IF ch = "nl" THEN <<"cr", "nl">> ELSE <<ch>>
Serial(text) == IF ready THEN FlattenSeq([i \in 1..Len(text) |-> Putc(text[i])]) ELSE <<>>

\* The lowest digits, as many as the buffer has room for, highest first.
Digits(v, base, room) ==
  LET low == FromLowest(base)[v]
      n   == IF Len(low) > room THEN room ELSE Len(low)
  IN [i \in 1..n |-> Upper[low[n + 1 - i] + 1]]
PutDec(v) == Digits(v, 10, 23)
PutHex(v) == <<"0", "x">> \o Digits(v, 16, 19)

ModNames == <<"PMM", "VMM", "HEAP", "IPC", "SYSCALL", "SCHED", "ISR", "PORT", "ACPI">>
OpNames  == <<"none", "ipc_call", "ipc_recv", "ipc_reply", "ipc_send", "irq_deliver",
              "syscall_enter", "acpi_shutdown", "acpi_reboot", "pmm_alloc", "pmm_free",
              "vmm_map", "vmm_unmap", "heap_alloc", "heap_free", "sched_switch">>
ModName(m) == IF m + 1 \in DOMAIN ModNames THEN ModNames[m + 1] ELSE "?"
OpName(o)  == IF o + 1 \in DOMAIN OpNames THEN OpNames[o + 1] ELSE "?"

Line(e) ==
  <<"[">> \o PutDec(e.tick) \o <<"] TID=">> \o PutDec(e.tid)
  \o <<" MOD=", ModName(e.mod), " OP=", OpName(e.op), " ADDR=">> \o PutHex(e.addr)
  \o <<" RET=">> \o PutHex(e.ret)
  \o (IF e.extra # 0 THEN <<" X=">> \o PutHex(e.extra) ELSE <<>>) \o <<"nl">>

Report ==
  LET n     == IF count > MaxPerFlush THEN MaxPerFlush ELSE count
      begin == <<"log: ">> \o PutDec(n)
               \o (IF dropped > 0 THEN <<" dropped: ">> \o PutDec(dropped) ELSE <<>>) \o <<"nl">>
      rest  == IF n < count THEN <<"not printed: ">> \o PutDec(count - n) \o <<"nl">> ELSE <<>>
  IN begin \o FlattenSeq([i \in 1..n |-> Line(buf[i])]) \o rest

\* (ClearBatchOnly: the count of dropped records is left.)
ClearBatchOnly ==
  count' = 0 /\ made' = <<>> /\ UNCHANGED dropped
ClearBatch ==
  count' = 0 /\ dropped' = 0 /\ made' = <<>>

FlushNow ==
  /\ IF ready /\ count > 0
     THEN port' = Serial(Report) /\ told' = made /\ console' = Nothing
     ELSE Silent
  /\ ClearBatch

----------------------------------------------------------------------------
(* The timer's tick and the system call.                                   *)

\* (PeriodicFlushIfOn: nothing is cleared while the switch is off.)
PeriodicFlushIfOn ==
  LET now == UptimeMs(ticks')
  IN IF now - last < Interval
     THEN Silent /\ UNCHANGED <<count, dropped, last, made>>
     ELSE /\ last' = now
          /\ IF flushOn THEN FlushNow
             ELSE Silent /\ UNCHANGED <<count, dropped, made>>
PeriodicFlush ==
  LET now == UptimeMs(ticks')
  IN IF now - last < Interval
     THEN Silent /\ UNCHANGED <<count, dropped, last, made>>
     ELSE /\ last' = now
          /\ IF flushOn THEN FlushNow ELSE ClearBatch /\ Silent

Tick ==
  /\ ticks < MaxTicks
  /\ ticks' = ticks + 1
  /\ PeriodicFlush
  /\ UNCHANGED <<buf, flushOn, ready>>

LogControl(a1) ==
  \/ /\ a1 = 0 /\ flushOn' = FALSE /\ Silent /\ UNCHANGED <<count, dropped, made>>
  \/ /\ a1 = 1 /\ flushOn' = TRUE /\ Silent /\ UNCHANGED <<count, dropped, made>>
  \/ /\ a1 = 2 /\ FlushNow /\ UNCHANGED flushOn

\* The program log: on, off and flush; any other word, and none, ask for
\* nothing.
LogProgram ==
  \E word \in {"on", "off", "flush"} :
    /\ LogControl(CASE word = "on" -> 1 [] word = "off" -> 0 [] OTHER -> 2)
    /\ UNCHANGED <<ticks, buf, last, ready>>

----------------------------------------------------------------------------
(* kprintf writes to the console, which is the screen and the port, and    *)
(* kprintf_serial to the port only.  Bound: while nothing was recorded.    *)

KPrintf ==
  \E format \in Formats, only \in BOOLEAN :
    LET done == Vsnprintf(format)
    IN /\ ticks = 0 /\ buf = <<>> /\ ~flushOn /\ console = Nothing
       /\ told' = <<>>
       /\ port' = Serial(done.text)
       /\ console' = [format |-> format, only |-> only,
                      screen |-> IF only THEN <<>> ELSE done.text,
                      written |-> done.written]
       /\ UNCHANGED <<ticks, buf, count, dropped, flushOn, last, ready, made>>

----------------------------------------------------------------------------
Next == Record \/ Tick \/ LogProgram \/ KPrintf
Spec == Init /\ [][Next]_vars

----------------------------------------------------------------------------
(* What memory holds, and the inductive invariant behind it.               *)

\* log.cpp:1-22: memory only ever holds the records of the last period,
\* whether the switch is on or off, whatever was flushed by hand in between,
\* and there is room for them in the batch.
MemoryRecent ==
  /\ count <= Capacity /\ dropped >= 0
  /\ count + dropped = Len(made)
  /\ \A i \in 1..count : UptimeMs(ticks) - UptimeMs(buf[i].tick) < Interval

\* The batch holds the first records since the last clear, all of the period
\* that began at last; records are lost only over a full batch.
Records == {Entry(t, e) : t \in 0..ticks, e \in Events}

KLogIInv ==
  /\ ticks \in Nat /\ last \in Nat /\ count \in 0..Capacity /\ dropped \in Nat
  /\ made \in Seq(Records)
  /\ count + dropped = Len(made) /\ (dropped > 0 => count = Capacity)
  /\ last <= UptimeMs(ticks) /\ UptimeMs(ticks) - last < Interval
  /\ \A i \in 1..count :
       i \in DOMAIN buf /\ buf[i] = made[i] /\ last <= UptimeMs(buf[i].tick)
=============================================================================
