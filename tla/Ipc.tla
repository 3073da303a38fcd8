-------------------------------- MODULE Ipc --------------------------------
(***************************************************************************)
(* Synchronous IPC: the handlers of kernel/ipc.cpp and the user-side loops *)
(* of include/kernel/ipc.hpp that retry them.                              *)
(*                                                                         *)
(* A system call runs with interrupts off, so each handler is one atomic   *)
(* action; the timer may preempt a thread between any two of them, so any  *)
(* thread the scheduler may pick can take the next step.  Sched.tla models *)
(* which thread that is; here "READY" stands for READY and RUNNING both.   *)
(*                                                                         *)
(* Tids and thread slots are the same numbers: create() takes the first    *)
(* UNUSED slot and the next tid, and no slot ever becomes UNUSED again.    *)
(*                                                                         *)
(* A request is <<c, n>>, the n-th request of client c; a server answers a *)
(* request with the request itself, so an answer names what it answers.    *)
(* Left out: ipc_from and ipc_recv_buf (nothing modelled here reads them), *)
(* IPC_ERR_INVAL for null pointers, the LOG_IPC lines and the statistics.  *)
(***************************************************************************)
EXTENDS Integers

CONSTANTS Clients,    \* tids of the threads that call services
          Servers,    \* tids of the services
          Drivers,    \* the services that register an IRQ line, one each
          Absent,     \* tids nobody has: calls to them fail
          MaxCalls    \* bound: calls each client makes

ASSUME IpcAssumption ==
  /\ Clients \subseteq Nat /\ Servers \subseteq Nat /\ Absent \subseteq Nat
  /\ Clients \cap Servers = {}
  /\ Absent \cap (Clients \cup Servers) = {}
  /\ Drivers \subseteq Servers
  /\ MaxCalls \in [Clients -> Nat]

Threads == Clients \cup Servers
Any     == -1                    \* TID_ANY, and "no target"
NoReq   == <<Any, 0>>            \* no request at all
Requests == (Threads \X Nat) \cup {NoReq}

VARIABLES
  \* the thread control block (thread.hpp, struct Thread)
  state,        \* "READY", "BLOCKED" or "DEAD"
  ipcState,     \* "NONE", "WAIT_RECV" or "WAIT_REPLY"
  waitTarget,   \* the tid it waits for
  irqWaiting,   \* it has registered its IRQ line
  irqReceived,  \* its IRQ arrived while it waited
  \* the per-slot buffers and flags of ipc.cpp
  callPending, replyReady, delivered, outMsg, replyMsg,
  \* the program of the thread
  pc,           \* where its user code stands
  dest,         \* the tid it calls
  callNo,       \* how many requests it has sent
  held,         \* the request a service has received and not yet answered
  result        \* the answer its last call returned

kernelVars == <<state, ipcState, waitTarget, irqWaiting, irqReceived,
                callPending, replyReady, delivered, outMsg, replyMsg>>
userVars   == <<pc, dest, callNo, held, result>>
vars       == <<kernelVars, userVars>>

\* Where a thread's program starts: a driver registers its IRQ first.
Entry(t) == IF t \in Clients THEN "idle"
            ELSE IF t \in Drivers THEN "boot" ELSE "recv"

Init ==
  /\ state       = [t \in Threads |-> "READY"]
  /\ ipcState    = [t \in Threads |-> "NONE"]
  /\ waitTarget  = [t \in Threads |-> Any]
  /\ irqWaiting  = [t \in Threads |-> FALSE]
  /\ irqReceived = [t \in Threads |-> FALSE]
  /\ callPending = [t \in Threads |-> FALSE]
  /\ replyReady  = [t \in Threads |-> FALSE]
  /\ delivered   = [t \in Threads |-> FALSE]
  /\ outMsg      = [t \in Threads |-> NoReq]
  /\ replyMsg    = [t \in Threads |-> NoReq]
  /\ pc          = [t \in Threads |-> Entry(t)]
  /\ dest        = [t \in Threads |-> Any]
  /\ callNo      = [t \in Threads |-> 0]
  /\ held        = [t \in Threads |-> NoReq]
  /\ result      = [t \in Threads |-> NoReq]

\* index_of_tid finds the slot of every tid that was ever created.
Exists(t) == t \in Threads

\* t is about to make the system call its program has reached.
At(t, label) == pc[t] = label /\ state[t] = "READY"

----------------------------------------------------------------------------
(* The client: ipc_call loops on IPC_CALL until it is not WOULD_BLOCK.     *)

StartCall(c) ==
  /\ At(c, "idle")
  /\ callNo[c] < MaxCalls[c]
  /\ \E d \in Servers \cup Absent : dest' = [dest EXCEPT ![c] = d]
  /\ pc' = [pc EXCEPT ![c] = "call"]
  /\ UNCHANGED <<kernelVars, callNo, held, result>>

\* do_call, no such target: IPC_ERR_DEST, nothing is kept.
CallNoDest(c) ==
  /\ ~callPending[c]
  /\ ~Exists(dest[c])
  /\ pc' = [pc EXCEPT ![c] = "idle"]
  /\ UNCHANGED <<kernelVars, dest, callNo, held, result>>

\* Mutant: do_call forgets that TID_ANY matches every caller.
AwaitsExactly(s, c) == ipcState[s] = "WAIT_RECV" /\ waitTarget[s] = c

\* The service is blocked in ipc_recv and accepts a message from c.
Awaits(s, c) == ipcState[s] = "WAIT_RECV" /\ waitTarget[s] \in {Any, c}

\* Mutant: the flag of the caller's former request is left set.
KeepRequestTwice(c) ==
  /\ callNo'      = [callNo EXCEPT ![c] = @ + 1]
  /\ outMsg'      = [outMsg EXCEPT ![c] = <<c, callNo[c] + 1>>]
  /\ replyReady'  = [replyReady EXCEPT ![c] = FALSE]
  /\ callPending' = [callPending EXCEPT ![c] = TRUE]
  /\ UNCHANGED delivered

\* do_call keeps the message in the caller's slot, untaken and unanswered.
KeepRequest(c) ==
  /\ callNo'      = [callNo EXCEPT ![c] = @ + 1]
  /\ outMsg'      = [outMsg EXCEPT ![c] = <<c, callNo[c] + 1>>]
  /\ delivered'   = [delivered EXCEPT ![c] = FALSE]
  /\ replyReady'  = [replyReady EXCEPT ![c] = FALSE]
  /\ callPending' = [callPending EXCEPT ![c] = TRUE]

\* do_call, first time: keep the message, wake the service if it waits for
\* one, and block until the answer comes.
CallSend(c) ==
  LET d    == dest[c]
      wake == IF Awaits(d, c) THEN {d} ELSE {}
  IN /\ ~callPending[c]
     /\ Exists(d)
     /\ KeepRequest(c)
     /\ waitTarget'  = [waitTarget EXCEPT ![c] = d]
     /\ ipcState'    = [t \in Threads |-> IF t = c THEN "WAIT_REPLY"
                                          ELSE IF t \in wake THEN "NONE"
                                          ELSE ipcState[t]]
     /\ state'       = [t \in Threads |-> IF t = c THEN "BLOCKED"
                                          ELSE IF t \in wake THEN "READY"
                                          ELSE state[t]]
     /\ UNCHANGED <<irqWaiting, irqReceived, replyMsg, pc, dest, held, result>>

\* do_call, retried before the answer is there: block again.
CallAgain(c) ==
  /\ callPending[c]
  /\ ~replyReady[c]
  /\ state' = [state EXCEPT ![c] = "BLOCKED"]
  /\ UNCHANGED <<ipcState, waitTarget, irqWaiting, irqReceived, callPending,
                 replyReady, delivered, outMsg, replyMsg, userVars>>

\* do_call, retried with the answer there: IPC_OK, the call is over.
CallCollect(c) ==
  /\ callPending[c]
  /\ replyReady[c]
  /\ result'      = [result EXCEPT ![c] = replyMsg[c]]
  /\ replyReady'  = [replyReady EXCEPT ![c] = FALSE]
  /\ callPending' = [callPending EXCEPT ![c] = FALSE]
  /\ pc'          = [pc EXCEPT ![c] = "idle"]
  /\ UNCHANGED <<state, ipcState, waitTarget, irqWaiting, irqReceived,
                 delivered, outMsg, replyMsg, dest, callNo, held>>

DoCall(c) ==
  /\ At(c, "call")
  /\ CallNoDest(c) \/ CallSend(c) \/ CallAgain(c) \/ CallCollect(c)

----------------------------------------------------------------------------
(* The service: for (;;) { ipc_recv; serve; ipc_reply }.                   *)

\* Sys::IRQ_REGISTER, which a driver calls when its program starts.
IrqRegister(s) ==
  /\ At(s, "boot")
  /\ irqWaiting' = [irqWaiting EXCEPT ![s] = TRUE]
  /\ pc' = [pc EXCEPT ![s] = "recv"]
  /\ UNCHANGED <<state, ipcState, waitTarget, irqReceived, callPending,
                 replyReady, delivered, outMsg, replyMsg, dest, callNo, held,
                 result>>

\* Mutant: do_recv takes any request, whoever it is for.
QueuedForAnyone(c, s) ==
  state[c] # "DEAD" /\ ipcState[c] = "WAIT_REPLY" /\ ~delivered[c]

\* Thread c has a message for s that nobody has taken yet.
Queued(c, s) ==
  /\ state[c] # "DEAD"
  /\ ipcState[c] = "WAIT_REPLY"
  /\ waitTarget[c] = s
  /\ ~delivered[c]

\* do_recv woken by the IRQ: from = -1, and the driver goes round its loop
\* (it reads its device, see Ps2.tla) back to ipc_recv.
RecvIrq(s) ==
  /\ At(s, "recv")
  /\ irqReceived[s]
  /\ irqReceived' = [irqReceived EXCEPT ![s] = FALSE]
  /\ UNCHANGED <<state, ipcState, waitTarget, irqWaiting, callPending,
                 replyReady, delivered, outMsg, replyMsg, userVars>>

\* Mutant: the flag is set in the slot of the receiver.
MarkReceiver(s, c) == delivered' = [delivered EXCEPT ![s] = TRUE]

\* The message of c is taken: no later ipc_recv sees it.
MarkTaken(s, c) == delivered' = [delivered EXCEPT ![c] = TRUE]

\* do_recv takes the message of the lowest slot that has one for s.
RecvTake(s) ==
  /\ At(s, "recv")
  /\ ~irqReceived[s]
  /\ \E c \in Threads :
       /\ Queued(c, s)
       /\ \A d \in Threads : Queued(d, s) => c <= d
       /\ held' = [held EXCEPT ![s] = outMsg[c]]
       /\ MarkTaken(s, c)
  /\ pc' = [pc EXCEPT ![s] = "serve"]
  /\ UNCHANGED <<state, ipcState, waitTarget, irqWaiting, irqReceived,
                 callPending, replyReady, outMsg, replyMsg, dest, callNo,
                 result>>

\* do_recv finds nothing: block until a message or an IRQ comes.
RecvBlock(s) ==
  /\ At(s, "recv")
  /\ ~irqReceived[s]
  /\ \A c \in Threads : ~Queued(c, s)
  /\ ipcState'   = [ipcState EXCEPT ![s] = "WAIT_RECV"]
  /\ waitTarget' = [waitTarget EXCEPT ![s] = Any]
  /\ state'      = [state EXCEPT ![s] = "BLOCKED"]
  /\ UNCHANGED <<irqWaiting, irqReceived, callPending, replyReady, delivered,
                 outMsg, replyMsg, userVars>>

DoRecv(s) == RecvIrq(s) \/ RecvTake(s) \/ RecvBlock(s)

\* c waits for an answer, and waits for it from s.
MayReply(s, c) == ipcState[c] = "WAIT_REPLY" /\ waitTarget[c] = s

\* Mutant: the flag is set but the answer is not copied.
KeepFlagOnly(c, m) ==
  /\ replyReady' = [replyReady EXCEPT ![c] = TRUE]
  /\ UNCHANGED replyMsg

\* do_reply keeps the answer m in the slot of the caller c.
KeepAnswer(c, m) ==
  /\ replyReady' = [replyReady EXCEPT ![c] = TRUE]
  /\ replyMsg'   = [replyMsg EXCEPT ![c] = m]

\* Mutant: the caller's state is left at BLOCKED.
WakeHalfway(c) ==
  /\ ipcState'   = [ipcState EXCEPT ![c] = "NONE"]
  /\ waitTarget' = [waitTarget EXCEPT ![c] = Any]
  /\ UNCHANGED state

\* Mutant: the caller still counts as waiting for its answer.
WakeStillWaiting(c) ==
  /\ state' = [state EXCEPT ![c] = "READY"]
  /\ UNCHANGED <<ipcState, waitTarget>>

\* do_reply wakes the caller c.
WakeCaller(c) ==
  /\ ipcState'   = [ipcState EXCEPT ![c] = "NONE"]
  /\ waitTarget' = [waitTarget EXCEPT ![c] = Any]
  /\ state'      = [state EXCEPT ![c] = "READY"]

\* do_reply accepted.
ReplyAccept(s) ==
  LET c == held[s][1]
  IN /\ MayReply(s, c)
     /\ KeepAnswer(c, held[s])
     /\ WakeCaller(c)
     /\ held' = [held EXCEPT ![s] = NoReq]
     /\ pc'   = [pc EXCEPT ![s] = "recv"]
     /\ UNCHANGED <<irqWaiting, irqReceived, callPending, delivered, outMsg,
                    dest, callNo, result>>

\* do_reply refused (IPC_ERR_INVAL, IPC_ERR_PERM): the service ignores it.
ReplyRefused(s) ==
  /\ ~MayReply(s, held[s][1])
  /\ held' = [held EXCEPT ![s] = NoReq]
  /\ pc'   = [pc EXCEPT ![s] = "recv"]
  /\ UNCHANGED <<kernelVars, dest, callNo, result>>

DoReply(s) == At(s, "serve") /\ (ReplyAccept(s) \/ ReplyRefused(s))

----------------------------------------------------------------------------
(* Interrupts.                                                             *)

\* deliver_irq wakes the driver only if it waits in ipc_recv; an IRQ that
\* finds it busy leaves no trace.  The thread's state is not looked at.
DeliverIrq(d) ==
  LET hit == ipcState[d] = "WAIT_RECV" /\ irqWaiting[d]
  IN /\ irqReceived' = [irqReceived EXCEPT ![d] = @ \/ hit]
     /\ ipcState'    = [ipcState EXCEPT ![d] = IF hit THEN "NONE" ELSE @]
     /\ state'       = [state EXCEPT ![d] = IF hit THEN "READY" ELSE @]
     /\ UNCHANGED <<waitTarget, irqWaiting, callPending, replyReady,
                    delivered, outMsg, replyMsg, userVars>>

ClientStep(c) == StartCall(c) \/ DoCall(c)
ServerStep(s) == IrqRegister(s) \/ DoRecv(s) \/ DoReply(s)

Next ==
  \/ \E c \in Clients : ClientStep(c)
  \/ \E s \in Servers : ServerStep(s)
  \/ \E d \in Drivers : DeliverIrq(d)

Spec == Init /\ [][Next]_vars

(* Interrupts are off inside a handler and the scheduler is preemptive and *)
(* round-robin, so a thread that can run does run; nothing makes a client  *)
(* start a call or an IRQ arrive.                                          *)
Fairness ==
  /\ \A c \in Clients : WF_vars(DoCall(c))
  /\ \A s \in Servers : WF_vars(ServerStep(s))

FairSpec == Spec /\ Fairness

----------------------------------------------------------------------------
(* Properties.                                                             *)

\* Every variable stays in its range.
TypeOK ==
  /\ state       \in [Threads -> {"READY", "BLOCKED", "DEAD"}]
  /\ ipcState    \in [Threads -> {"NONE", "WAIT_RECV", "WAIT_REPLY"}]
  /\ waitTarget  \in [Threads -> Threads \cup {Any}]
  /\ irqWaiting  \in [Threads -> BOOLEAN]
  /\ irqReceived \in [Threads -> BOOLEAN]
  /\ callPending \in [Threads -> BOOLEAN]
  /\ replyReady  \in [Threads -> BOOLEAN]
  /\ delivered   \in [Threads -> BOOLEAN]
  /\ outMsg      \in [Threads -> Requests]
  /\ replyMsg    \in [Threads -> Requests]
  /\ pc          \in [Threads -> {"idle", "call", "boot", "recv", "serve"}]
  /\ dest        \in [Threads -> Threads \cup Absent \cup {Any}]
  /\ callNo      \in [Threads -> Nat]
  /\ held        \in [Threads -> Requests]
  /\ result      \in [Threads -> Requests]

\* A service never sleeps in ipc_recv while a request for it lies unread:
\* do_call wakes a service that waits, do_recv looks before it blocks.
NoLostWakeup ==
  \A s \in Servers : ipcState[s] = "WAIT_RECV" =>
    /\ state[s] = "BLOCKED"
    /\ \A c \in Threads : ~Queued(c, s)

\* A blocked client is never forgotten: its request is still queued for the
\* service it waits for, or that very service is working on it, and no
\* answer lies unread in its slot.
CallerAccounted ==
  \A c \in Clients : state[c] = "BLOCKED" =>
    /\ ~replyReady[c]
    /\ waitTarget[c] \in Servers
    /\ Queued(c, waitTarget[c]) \/ held[waitTarget[c]] = outMsg[c]

\* The answer in a client's slot, and the one its last call returned, are
\* the answers to its latest request: never an older one's, never another
\* client's.
AnswerMatches ==
  \A c \in Clients :
    /\ replyReady[c] => replyMsg[c] = <<c, callNo[c]>>
    /\ (~callPending[c] /\ callNo[c] > 0) => result[c] = <<c, callNo[c]>>

\* Every call that reached a service returns, once the clients stop making
\* new ones (MaxCalls): do_recv always looks at the lowest slot first, so a
\* client in a low slot that never stops calling can starve the others.
EveryCallReturns == \A c \in Clients : callPending[c] ~> ~callPending[c]

\* The kernel's IPC implements the abstract one: each request is taken once
\* and answered once, and a service works on one request at a time.
PhaseOf(c) ==
  IF ~callPending[c] THEN "idle"
  ELSE IF replyReady[c] THEN "answered"
  ELSE IF delivered[c] THEN "taken" ELSE "asked"

Abstract == INSTANCE Rpc WITH
  Nobody <- Any,
  phase  <- [c \in Clients |-> PhaseOf(c)],
  to     <- [c \in Clients |-> IF callPending[c] THEN dest[c] ELSE Any],
  num    <- [c \in Clients |-> callNo[c]],
  got    <- [c \in Clients |-> result[c][2]]

RefinesRpc == Abstract!Spec

----------------------------------------------------------------------------
(* The inductive invariant behind the properties above.                    *)

\* What the slot of a client holds at each stage of a call.
ClientInv ==
  \A c \in Clients :
    /\ state[c] # "DEAD" /\ pc[c] \in {"idle", "call"} /\ ipcState[c] # "WAIT_RECV"
    /\ ~irqReceived[c]
    /\ dest[c] \in Servers \cup Absent \cup {Any}
    /\ pc[c] = "call" => dest[c] # Any
    /\ callPending[c] => /\ pc[c] = "call"
                         /\ dest[c] \in Servers
                         /\ outMsg[c] = <<c, callNo[c]>>
    /\ replyReady[c] => /\ callPending[c]
                        /\ delivered[c]
                        /\ replyMsg[c] = <<c, callNo[c]>>
    /\ ipcState[c] = "WAIT_REPLY" <=> (callPending[c] /\ ~replyReady[c])
    /\ ipcState[c] = "WAIT_REPLY" <=> state[c] = "BLOCKED"
    /\ ipcState[c] = "WAIT_REPLY" => waitTarget[c] = dest[c]
    /\ (ipcState[c] = "WAIT_REPLY" /\ delivered[c]) => held[dest[c]] = outMsg[c]
    /\ (~callPending[c] /\ callNo[c] > 0) => result[c] = <<c, callNo[c]>>

\* What the slot of a service holds at each stage of its loop.
ServerInv ==
  \A s \in Servers :
    /\ state[s] # "DEAD" /\ pc[s] \in {"boot", "recv", "serve"}
    /\ ipcState[s] # "WAIT_REPLY"
    /\ waitTarget[s] = Any
    /\ ipcState[s] = "WAIT_RECV" <=> state[s] = "BLOCKED"
    /\ ipcState[s] = "WAIT_RECV" => /\ pc[s] = "recv"
                                    /\ \A c \in Clients : ~Queued(c, s)
    /\ held[s] = NoReq <=> pc[s] # "serve"
    /\ held[s] # NoReq => \E c \in Clients :
         /\ held[s] = <<c, callNo[c]>>
         /\ ipcState[c] = "WAIT_REPLY" /\ waitTarget[c] = s /\ delivered[c]

IInv == TypeOK /\ ClientInv /\ ServerInv
=============================================================================
