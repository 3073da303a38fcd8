-------------------------------- MODULE Sched -------------------------------
(***************************************************************************)
(* The scheduler of kernel/thread.cpp: fixed priorities, round robin among *)
(* equals, time slices counted by the 100 Hz timer, and one dispatch point *)
(* at the end of every interrupt and system call (on_interrupt).           *)
(*                                                                         *)
(* Every step is one kernel entry from start to dispatch: interrupts are   *)
(* off in it, so g_need_switch, which only lives from its setting to the   *)
(* dispatch, is the argument "need" of Dispatch.                           *)
(*                                                                         *)
(* Left out: g_preempt_disable (only Spinlock uses it, and no code uses    *)
(* Spinlock), the cpu statistics, the switch log, page tables and stacks.  *)
(* A sleeper counts ticks down where the code compares uptime_ms with      *)
(* wake_time_ms.  Of the IPC (Ipc.tla, Recovery.tla) only what moves a     *)
(* thread between the states is kept: whether it has an ipc_state.  Every  *)
(* wakeup looks at that alone, so it can make a DEAD thread READY, and a   *)
(* restart can hit a thread that runs.                                     *)
(***************************************************************************)
EXTENDS Integers

CONSTANTS MaxThreads,   \* MAX_THREADS: slots 0 .. MaxThreads-1
          Priority,     \* the priority of the thread in each slot
          Created,      \* how many slots kmain fills before interrupts are on
          Watched,      \* the slots the supervisor restarts
          SliceTicks,   \* SLICE_TICKS
          MaxSleep      \* bound: ticks one sleep lasts

Slots == 0 .. MaxThreads - 1
Main  == 0                      \* kmain, which halts in a loop for ever
Idle  == 1                      \* the idle thread
User  == 2 .. MaxThreads - 1    \* services and programs
PrioIdle == 0                   \* PRIO_IDLE

ASSUME SchedAssumption ==
  /\ MaxThreads \in Nat /\ MaxThreads >= 2
  /\ Priority \in [Slots -> 0 .. 255]
  /\ Priority[Idle] = PrioIdle /\ Priority[Main] > PrioIdle
  /\ Created \in 2 .. MaxThreads
  /\ Watched \subseteq User
  /\ SliceTicks \in Nat \ {0}
  /\ MaxSleep \in Nat \ {0}

VARIABLES
  state,     \* of each slot
  current,   \* g_current_idx
  slice,     \* g_slice_left
  asleep,    \* ticks until a sleeper wakes; 0: it does not sleep
  waiting,   \* the threads whose ipc_state is not NONE: they wait, or were
             \* killed while they waited, for a message or an answer
  pending,   \* the threads the supervisor is to restart
  lag        \* history: ticks that came while a READY thread had a higher
             \* priority than the current one

vars == <<state, current, slice, asleep, waiting, pending, lag>>

States == {"UNUSED", "READY", "RUNNING", "BLOCKED", "DEAD"}

Init ==
  /\ state   = [i \in Slots |-> IF i = Main THEN "RUNNING"
                                ELSE IF i < Created THEN "READY" ELSE "UNUSED"]
  /\ current = Main
  /\ slice   = SliceTicks
  /\ asleep  = [i \in Slots |-> 0]
  /\ waiting = {}
  /\ pending = {}
  /\ lag     = 0

----------------------------------------------------------------------------
(* The dispatch point.                                                     *)

\* How far slot i comes after slot c, going round: c itself comes last.
Distance(c, i) == (i - c - 1) % MaxThreads

\* The slots pick_next may take; the idle thread is no candidate while the
\* current one still wants to run.
Candidates(st, allowIdle) ==
  {i \in Slots : st[i] = "READY" /\ (allowIdle \/ Priority[i] > PrioIdle)}

\* Mutant: the scan starts at slot 0, not after the current slot.
PickFirst(st, c, allowIdle) ==
  LET ready == Candidates(st, allowIdle)
  IN {i \in ready : \A j \in ready \ {i} :
        Priority[i] > Priority[j] \/ (Priority[i] = Priority[j] /\ i < j)}

\* pick_next: of the READY threads with the highest priority, the first one
\* after the current slot c; none if there is no READY thread.
PickNext(st, c, allowIdle) ==
  LET ready == Candidates(st, allowIdle)
  IN {i \in ready : \A j \in ready \ {i} :
        \/ Priority[i] > Priority[j]
        \/ Priority[i] = Priority[j] /\ Distance(c, i) < Distance(c, j)}

\* Mutant: the thread that is switched out stays RUNNING.
KeepRunning(st) == st

\* A thread that is switched out while it runs goes back to READY.
Requeue(st) ==
  IF st[current] = "RUNNING" THEN [st EXCEPT ![current] = "READY"] ELSE st

\* do_switch from the states st: the current thread goes back to READY if it
\* still runs, the chosen one runs with a new slice.
DoSwitch(st) ==
  LET st1    == Requeue(st)
      chosen == PickNext(st1, current, st[current] # "RUNNING") \ {current}
  IN /\ slice' = SliceTicks
     /\ \/ /\ chosen = {}
           /\ state' = st
           /\ UNCHANGED current
        \/ \E next \in chosen :
             /\ state'   = [st1 EXCEPT ![next] = "RUNNING"]
             /\ current' = next

\* on_interrupt: the slice is what the handler left of it.
Dispatch(st, left, need) ==
  IF need \/ st[current] # "RUNNING" THEN DoSwitch(st)
  ELSE state' = st /\ slice' = left /\ UNCHANGED current

Outranked == \E i \in Slots : state[i] = "READY" /\ Priority[i] > Priority[current]

\* The history variable, at a tick and at any other kernel entry.
LagAtTick == lag' = IF Outranked /\ Outranked' THEN lag + 1 ELSE 0
LagElse   == lag' = IF Outranked' THEN lag ELSE 0

----------------------------------------------------------------------------
(* The kernel entries.                                                     *)

\* Mutant: a slice that has run out is renewed without a switch.
ExpiredOnce(left) == FALSE

\* tick: the slice of the running thread has run out.
Expired(left) == left = 0

\* Mutant: tick forgets to look at the sleepers' time.
Overslept == {}

\* The sleepers whose time has come at this tick.
Waking == {i \in Slots : state[i] = "BLOCKED" /\ asleep[i] = 1}

\* Mutant: a restart leaves wake_time_ms as it was.
KeepAlarms(R) ==
  asleep' = [i \in Slots |-> IF asleep[i] > 0 /\ state[i] = "BLOCKED"
                             THEN asleep[i] - 1 ELSE asleep[i]]

\* The sleepers' time runs; a restart clears the alarm.
CountDown(R) ==
  asleep' = [i \in Slots |-> IF i \in R THEN 0
                             ELSE IF asleep[i] > 0 /\ state[i] = "BLOCKED"
                             THEN asleep[i] - 1 ELSE asleep[i]]

\* IRQ 0: sched::tick, then supervisor::tick, which puts some of the pending
\* threads (R) back to their start, READY whatever they do, then the dispatch.
Tick ==
  \E R \in SUBSET pending :
    LET running == state[current] = "RUNNING"
        left    == IF running /\ slice > 0 THEN slice - 1 ELSE slice
        need    == running /\ Expired(left)
        st      == [i \in Slots |-> IF i \in R \cup Waking THEN "READY" ELSE state[i]]
    IN /\ CountDown(R)
       /\ waiting' = waiting \ R
       /\ pending' = pending \ R
       /\ Dispatch(st, IF left = 0 THEN SliceTicks ELSE left, need)
       /\ LagAtTick

\* Mutant: a thread that is woken keeps its ipc_state.
StillWaiting(W) == waiting

\* do_call, do_reply and deliver_irq make ipc_state NONE when they wake.
Woken(W) == waiting \ W

\* A device interrupt, or an answer, that wakes w: its ipc_state is looked
\* at, its state is not.  The current thread goes on: nothing asks for a
\* switch.
Wake(w) ==
  /\ w \in waiting
  /\ waiting' = Woken({w})
  /\ Dispatch([state EXCEPT ![w] = "READY"], slice, FALSE)
  /\ LagElse
  /\ UNCHANGED <<asleep, pending>>

\* A system call after which the current thread waits: IPC_RECV, or IPC_CALL,
\* which may wake the service w.
Wait(W) ==
  /\ current \in User
  /\ W \subseteq waiting
  /\ waiting' = Woken(W) \cup {current}
  /\ Dispatch([i \in Slots |-> IF i = current THEN "BLOCKED"
                               ELSE IF i \in W THEN "READY" ELSE state[i]],
              slice, FALSE)
  /\ LagElse
  /\ UNCHANGED <<asleep, pending>>

\* IPC_CALL, retried while the answer is missing, as a thread that was
\* restarted in mid-call does (Recovery.tla): it blocks with ipc_state NONE.
WaitAgain ==
  /\ current \in Watched
  /\ Dispatch([state EXCEPT ![current] = "BLOCKED"], slice, FALSE)
  /\ LagElse
  /\ UNCHANGED <<asleep, waiting, pending>>

\* Sys::SLEEP: sleep_ms blocks and asks for a switch; sleep_ms(0) sleeps to
\* the next tick as well.
Sleep(ticks) ==
  /\ current \in User
  /\ asleep' = [asleep EXCEPT ![current] = ticks]
  /\ Dispatch([state EXCEPT ![current] = "BLOCKED"], slice, TRUE)
  /\ LagElse
  /\ UNCHANGED <<waiting, pending>>

\* Sys::YIELD, and each round of Sys::WAIT.
Yield ==
  /\ current \in User
  /\ Dispatch(state, slice, TRUE)
  /\ LagElse
  /\ UNCHANGED <<asleep, waiting, pending>>

\* Sys::EXIT.
Exit ==
  /\ current \in User
  /\ Dispatch([state EXCEPT ![current] = "DEAD"], slice, TRUE)
  /\ LagElse
  /\ UNCHANGED <<asleep, waiting, pending>>

\* notify_dead: the supervisor keeps the watched ones.
NotifyDead(t) == pending' = IF t \in Watched THEN pending \cup {t} ELSE pending

\* Sys::KILL of a thread, itself included, or an exception in its code: the
\* supervisor is told.
Kill(t) ==
  /\ current \in User
  /\ state[t] # "UNUSED"
  /\ NotifyDead(t)
  /\ Dispatch([state EXCEPT ![t] = "DEAD"], slice, FALSE)
  /\ LagElse
  /\ UNCHANGED <<asleep, waiting>>

\* Sys::SPAWN: thread::create takes the first unused slot.
Spawn ==
  /\ current \in User
  /\ \E slot \in User :
       /\ state[slot] = "UNUSED"
       /\ \A i \in User : i < slot => state[i] # "UNUSED"
       /\ Dispatch([state EXCEPT ![slot] = "READY"], slice, FALSE)
  /\ LagElse
  /\ UNCHANGED <<asleep, waiting, pending>>

Next ==
  \/ Tick
  \/ \E w \in User : Wake(w)
  \/ Wait({})
  \/ \E w \in User : Wait({w})
  \/ WaitAgain
  \/ \E ticks \in 1 .. MaxSleep : Sleep(ticks)
  \/ Yield
  \/ Exit
  \/ \E t \in User : Kill(t)
  \/ Spawn

Spec == Init /\ [][Next]_vars

(* The timer never stops.                                                  *)
FairSpec == Spec /\ WF_vars(Tick)

----------------------------------------------------------------------------
(* Properties.                                                             *)

\* Every variable stays in its range.
TypeOK ==
  /\ state   \in [Slots -> States]
  /\ current \in Slots
  /\ slice   \in 1 .. SliceTicks
  /\ asleep  \in [Slots -> 0 .. MaxSleep]
  /\ waiting \subseteq User
  /\ pending \subseteq Watched
  /\ lag     \in Nat

\* No thread but the current one is RUNNING, and a blocked or dead thread
\* never keeps the CPU for want of another.  Only a service that is restarted
\* while it runs has the CPU as READY, which stops its slice: it keeps it no
\* longer than no other thread of its rank wants it.
OneRunning ==
  /\ \A i \in Slots : state[i] = "RUNNING" => i = current
  /\ state[current] # "RUNNING" =>
       /\ state[current] = "READY" /\ current \in Watched
       /\ \A i \in Slots \ {current} :
            state[i] = "READY" => Priority[i] < Priority[current]

\* A wakeup asks for no switch, so a READY thread can wait for a current one
\* of lower priority, but never as long as a whole slice.
InversionBounded == lag < SliceTicks

\* Nothing makes a sleeper run before its time but a restart, which clears
\* its alarm: do_call, do_reply and deliver_irq wake by ipc_state alone, which
\* must then be gone from every thread that runs, and so from all that sleep.
\* Killed meanwhile, a sleeper never wakes by itself.
SleepersRest ==
  \A i \in Slots : asleep[i] > 0 => state[i] \in {"BLOCKED", "DEAD"}

Runnable == {"READY", "RUNNING"}

\* The inductive invariant of Sched_proofs.tla: kmain is there to run when
\* the current thread is not, a thread with an ipc_state neither runs nor
\* sleeps, and the ticks a READY thread was passed over fit, with what is
\* left of the slice, into one slice.
SInv ==
  /\ TypeOK
  /\ OneRunning
  /\ SleepersRest
  /\ state[Main] \in Runnable
  /\ \A i \in waiting : state[i] \in {"BLOCKED", "DEAD"} /\ asleep[i] = 0
  /\ lag + slice <= SliceTicks

HigherActive(i) ==
  \E j \in Slots : /\ Priority[j] > Priority[i]
                   /\ state[j] \in Runnable

\* A READY thread gets the CPU, unless one of higher priority wants it:
\* equals take turns, whoever wakes, sleeps, yields or dies.
ReadyRuns ==
  \A i \in Slots :
    state[i] = "READY" ~> (i = current \/ state[i] # "READY" \/ HigherActive(i))

\* A sleeper wakes.
SleeperWakes == \A i \in User : asleep[i] > 0 /\ state[i] = "BLOCKED"
                                  ~> state[i] # "BLOCKED"
=============================================================================
