------------------------------ MODULE Recovery ------------------------------
(***************************************************************************)
(* Crashes and restarts on top of the IPC of Ipc.tla: Sys::KILL, Sys::EXIT *)
(* and CPU exceptions in user code end threads; the supervisor             *)
(* (kernel/supervisor.cpp) restarts the watched ones in the same slot from *)
(* the timer interrupt (usermode.cpp, respawn_user_process).               *)
(*                                                                         *)
(* RESTART_DELAY_MS is abstracted: a pending restart happens at any later  *)
(* moment.  wake_waiters_of, which every death calls, wakes the threads    *)
(* whose wait_tid is the dead thread; no code ever sets wait_tid to a tid, *)
(* so it changes nothing and has no variable here.                         *)
(***************************************************************************)
EXTENDS Ipc

CONSTANTS Watched,     \* the threads the supervisor watches
          Halting,     \* the services that exit after some requests
          MaxRestart,  \* MAX_RESTART
          MaxDeaths    \* bound: kills and faults

ASSUME RecoveryAssumption ==
  /\ Watched \subseteq Threads
  /\ Halting \subseteq Servers
  /\ MaxRestart \in Nat /\ MaxDeaths \in Nat

VARIABLES
  pending,    \* the watched threads that wait for their restart
  restarts,   \* how often each thread was restarted
  halting,    \* the services that answered MSG_HALT and are about to exit
  deaths,     \* how many kills and faults there were, for the bound
  born,       \* history: the requests each client's former lives had sent
  old         \* history: how many calls of each client returned the answer
              \* to a request of a former life

history == <<born, old>>
supVars == <<pending, restarts, halting, deaths, history>>
allVars == <<vars, supVars>>

RecoveryInit ==
  /\ Init
  /\ pending  = {}
  /\ restarts = [t \in Threads |-> 0]
  /\ halting  = {}
  /\ deaths   = 0
  /\ born     = [c \in Clients |-> 0]
  /\ old      = [c \in Clients |-> 0]

\* Mutant: the limit is never looked at.
NotifyAlways(t) ==
  pending' = IF t \in Watched THEN pending \cup {t} ELSE pending

\* Mutant: the supervisor gives up one restart early.
NotifyEarly(t) ==
  pending' = IF t \in Watched /\ restarts[t] + 1 < MaxRestart
               THEN pending \cup {t} ELSE pending

\* notify_dead: remember a watched thread, unless it was restarted too often.
NotifyDead(t) ==
  pending' = IF t \in Watched /\ restarts[t] < MaxRestart
               THEN pending \cup {t} ELSE pending

\* Thread k calls Sys::KILL on t, which may be itself or already dead.  The
\* IPC state of t stays as it is.
Kill(k, t) ==
  /\ At(k, "idle")
  /\ deaths < MaxDeaths
  /\ deaths' = deaths + 1
  /\ state' = [state EXCEPT ![t] = "DEAD"]
  /\ NotifyDead(t)
  /\ UNCHANGED <<ipcState, waitTarget, irqWaiting, irqReceived, callPending,
                 replyReady, delivered, outMsg, replyMsg, userVars, restarts,
                 halting, history>>

\* handle_user_fault: an exception in the user code of the running thread.
Fault(t) ==
  /\ state[t] = "READY"
  /\ deaths < MaxDeaths
  /\ deaths' = deaths + 1
  /\ state'    = [state EXCEPT ![t] = "DEAD"]
  /\ ipcState' = [ipcState EXCEPT ![t] = "NONE"]
  /\ NotifyDead(t)
  /\ UNCHANGED <<waitTarget, irqWaiting, irqReceived, callPending, replyReady,
                 delivered, outMsg, replyMsg, userVars, restarts, halting,
                 history>>

\* Sys::EXIT: a program ends, or a service that was told to; the supervisor
\* is not told.
ExitThread(t) ==
  /\ state' = [state EXCEPT ![t] = "DEAD"]
  /\ UNCHANGED <<ipcState, waitTarget, irqWaiting, irqReceived, callPending,
                 replyReady, delivered, outMsg, replyMsg, userVars, pending,
                 restarts, history>>

ProgramExits(c) ==
  /\ c \notin Watched
  /\ At(c, "idle")
  /\ ExitThread(c)
  /\ UNCHANGED <<halting, deaths>>

\* MSG_HALT: the service answers first, then calls Sys::EXIT.
HaltReply(s) ==
  /\ s \notin halting
  /\ At(s, "serve") /\ ReplyAccept(s)
  /\ halting' = halting \cup {s}
  /\ UNCHANGED <<pending, restarts, deaths, history>>

ServiceExits(s) ==
  /\ s \in halting
  /\ state[s] = "READY"
  /\ halting' = halting \ {s}
  /\ ExitThread(s)
  /\ UNCHANGED deaths

\* The thread's own slot is made like new, up to the flags of ipc.cpp.
ResetThread(t) ==
  /\ pending'  = pending \ {t}
  /\ restarts' = [restarts EXCEPT ![t] = @ + 1]
  /\ halting'  = halting \ {t}
  /\ state'       = [state EXCEPT ![t] = "READY"]
  /\ ipcState'    = [ipcState EXCEPT ![t] = "NONE"]
  /\ waitTarget'  = [waitTarget EXCEPT ![t] = Any]
  /\ irqWaiting'  = [irqWaiting EXCEPT ![t] = FALSE]
  /\ irqReceived' = [irqReceived EXCEPT ![t] = FALSE]
  /\ pc'          = [pc EXCEPT ![t] = Entry(t)]
  /\ dest'        = [dest EXCEPT ![t] = Any]
  /\ held'        = [held EXCEPT ![t] = NoReq]
  /\ born'        = [c \in Clients |-> IF c = t THEN callNo[c] ELSE born[c]]
  /\ UNCHANGED old

\* Mutant: the call the dead thread had made is forgotten as well, but not
\* by the service that works on it.
RespawnForgetsCall(t) ==
  /\ t \in pending
  /\ ResetThread(t)
  /\ callPending' = [callPending EXCEPT ![t] = FALSE]
  /\ replyReady'  = [replyReady EXCEPT ![t] = FALSE]
  /\ UNCHANGED <<delivered, outMsg, replyMsg, callNo, result, deaths>>

\* supervisor tick: put a pending thread back to the start of its program,
\* whatever its state.  call_pending, reply_ready and delivered, which
\* ipc.cpp keeps by slot, stay as they are: the next call of a client that
\* was restarted in mid-call takes do_call's retry path, which collects the
\* old answer or blocks for it.
Respawn(t) ==
  /\ t \in pending
  /\ ResetThread(t)
  /\ UNCHANGED <<callPending, replyReady, delivered, outMsg, replyMsg, callNo,
                 result, deaths>>

ServiceRuns(s) == s \notin halting /\ ServerStep(s) /\ UNCHANGED supVars

\* The history of a step of c: did a call return a former life's answer?
CountOld(c) ==
  LET returned == callPending[c] /\ ~callPending'[c]
      stale    == returned /\ replyMsg[c][2] <= born[c]
  IN old' = [old EXCEPT ![c] = IF stale THEN @ + 1 ELSE @]

\* What a client's step leaves alone, but for its history.
Counted(c) == CountOld(c) /\ UNCHANGED <<pending, restarts, halting, deaths, born>>

ClientRuns(c)  == ClientStep(c) /\ Counted(c)
Interrupted(d) == DeliverIrq(d) /\ UNCHANGED supVars

RecoveryNext ==
  \/ \E c \in Clients : ClientRuns(c) \/ ProgramExits(c)
  \/ \E s \in Servers : ServiceRuns(s)
  \/ \E d \in Drivers : Interrupted(d)
  \/ \E s \in Halting : HaltReply(s) \/ ServiceExits(s)
  \/ \E k \in Clients, t \in Threads : Kill(k, t)
  \/ \E t \in Threads : Fault(t) \/ Respawn(t)

RecoverySpec == RecoveryInit /\ [][RecoveryNext]_allVars

(* As in Ipc.tla, and the timer interrupt, which restarts what is pending, *)
(* never stops.                                                            *)
RecoveryFairness ==
  /\ \A c \in Clients : WF_allVars(DoCall(c) /\ Counted(c))
  /\ \A s \in Servers : WF_allVars(ServiceRuns(s))
  /\ \A s \in Halting : WF_allVars(ServiceExits(s))
  /\ \A t \in Watched : WF_allVars(Respawn(t))

RecoveryFairSpec == RecoverySpec /\ RecoveryFairness

----------------------------------------------------------------------------
(* Properties that deaths and restarts leave standing.                     *)

\* Every variable stays in its range, and no thread is restarted more than
\* MAX_RESTART times, however its kills, restarts and resurrections fall.
RecoveryTypeOK ==
  /\ TypeOK
  /\ pending  \subseteq Watched
  /\ halting  \subseteq Halting
  /\ restarts \in [Threads -> 0 .. MaxRestart]
  /\ deaths   \in 0 .. MaxDeaths
  /\ born     \in [Clients -> Nat]
  /\ old      \in [Clients -> Nat]

\* A service that sleeps, sleeps in ipc_recv, and no request for it lies
\* unread: neither the death of a client nor a restart loses a wakeup.
SleepingServiceIsIdle ==
  \A s \in Servers : state[s] = "BLOCKED" =>
    /\ ipcState[s] = "WAIT_RECV"
    /\ \A c \in Threads : ~Queued(c, s)

\* A restart lets a client's calls return at most one wrong answer.  The
\* answer in a slot is that to the request the slot shows, whoever died in
\* between; but a restart keeps that request, so the first call of the new
\* life may return the answer the former one had asked for (against
\* usermode.cpp:367-369, which says that nothing of it is left).  No later
\* call does, and no call of a client that was never restarted.
OneOldAnswerPerRestart ==
  /\ RecoveryTypeOK
  /\ \A c \in Clients :
       /\ replyReady[c] => /\ callPending[c]
                           /\ replyMsg[c] = <<c, callNo[c]>>
       /\ old[c] <= restarts[c]

\* Nothing brings s back but another Sys::KILL, which lists it for a restart.
Gone(s) == state[s] = "DEAD" /\ s \notin pending

\* c sleeps in a call, and the service it waits for neither works on its
\* request nor will find it queued: no code of the kernel wakes c any more.
Stranded(c) ==
  LET s == waitTarget[c]
  IN /\ state[c] = "BLOCKED"
     /\ ~ /\ s \in Servers
          /\ \/ Queued(c, s) /\ ~Gone(s)
             \/ held[s] = outMsg[c] /\ state[s] # "DEAD"

\* A client that was never restarted itself can lose its answer in two ways
\* only, both of its own service: that is dead for good (it exits or dies
\* with the request queued, or was gone when called), or it dies or is
\* restarted with the request in hand.  No other thread's death, restart or
\* resurrection harms it.
OnlyOwnServiceStrands ==
  [][\A c \in Clients :
       (restarts'[c] = 0 /\ ~Stranded(c) /\ Stranded(c)') =>
         \E s \in Servers :
           /\ s = waitTarget'[c]
           /\ \/ Gone(s)'
              \/ /\ held[s] = outMsg[c]
                 /\ state'[s] = "DEAD" \/ restarts'[s] = restarts[s] + 1]_allVars

\* A request that no service has taken survives the death of its service:
\* it is taken after the restart, unless the service dies once more than the
\* supervisor restarts it.  (A service that exits is not restarted at all.)
QueuedRequestsServed ==
  \A c \in Clients, s \in (Watched \cap Servers) \ Halting :
    Queued(c, s) ~> \/ ~Queued(c, s)
                    \/ state[s] = "DEAD" /\ restarts[s] = MaxRestart

----------------------------------------------------------------------------
(* What the comments of the code say of deaths and restarts.               *)

\* supervisor.cpp:202 and isr.cpp:250: the threads that wait for an answer
\* of a dead service are woken, "else they would be stuck forever".
NobodyWaitsForever ==
  \A c \in Clients :
    callPending[c] ~> (~callPending[c] \/ state[c] = "DEAD")

----------------------------------------------------------------------------
(* The inductive invariant behind the properties above: what is left of    *)
(* ClientInv and ServerInv of Ipc.tla once threads die and come back.      *)

\* A client's slot.  Only a client that was never restarted is sure to
\* sleep in the call its slot shows: a restart keeps callPending.
SlotOfClient(c) ==
  /\ pc[c] \in {"idle", "call"} /\ ipcState[c] # "WAIT_RECV"
  /\ dest[c] \in Servers \cup Absent \cup {Any}
  /\ pc[c] = "call" => dest[c] # Any
  /\ callPending[c] => outMsg[c] = <<c, callNo[c]>>
  /\ replyReady[c] => callPending[c] /\ replyMsg[c] = <<c, callNo[c]>>
  /\ born[c] <= callNo[c] /\ old[c] <= restarts[c]
  /\ callPending[c] /\ callNo[c] <= born[c] => old[c] < restarts[c]
  /\ ipcState[c] = "WAIT_REPLY" => /\ callPending[c] /\ ~replyReady[c]
                                   /\ waitTarget[c] \in Servers
                                   /\ state[c] # "READY"
  /\ restarts[c] = 0 =>
       /\ (callPending[c] /\ ~replyReady[c]) => state[c] # "READY"
       /\ state[c] = "BLOCKED" => ipcState[c] = "WAIT_REPLY"

\* Service s works on the latest request of c, which c, if it still waits,
\* waits for s to answer.
WorksFor(s, c) ==
  /\ held[s] = <<c, callNo[c]>>
  /\ callPending[c] /\ ~replyReady[c] /\ delivered[c]
  /\ ipcState[c] = "WAIT_REPLY" => waitTarget[c] = s

\* A service's slot, dead or alive: a killed one keeps its IPC state.
SlotOfService(s) ==
  /\ pc[s] \in {"boot", "recv", "serve"} /\ ipcState[s] # "WAIT_REPLY"
  /\ waitTarget[s] = Any
  /\ state[s] = "BLOCKED" => ipcState[s] = "WAIT_RECV"
  /\ ipcState[s] = "WAIT_RECV" => /\ state[s] # "READY" /\ pc[s] = "recv"
                                  /\ \A c \in Clients : ~Queued(c, s)
  /\ pc[s] # "serve" => held[s] = NoReq
  /\ pc[s] = "serve" => \E c \in Clients : WorksFor(s, c)

RecoveryIInv ==
  /\ RecoveryTypeOK
  /\ \A t \in pending : restarts[t] < MaxRestart
  /\ \A c \in Clients : SlotOfClient(c)
  /\ \A s \in Servers : SlotOfService(s)
=============================================================================
