-------------------------- MODULE Recovery_proofs --------------------------
(***************************************************************************)
(* Proofs about Ipc.tla and Recovery.tla, for any sets of clients,         *)
(* services and drivers and any bound on the calls.  Ipc.tla: its          *)
(* inductive invariant IInv, what it implies, and that it implements the   *)
(* abstract IPC of Rpc.tla.  Recovery.tla, also for any watched and        *)
(* halting threads, any restart limit and any number of deaths: the        *)
(* inductive invariant RecoveryIInv, what it implies, and the one way in   *)
(* which a client that was never restarted loses its answer.               *)
(***************************************************************************)
EXTENDS Recovery, TLAPS

----------------------------------------------------------------------------
(* The IPC on its own (Ipc.tla).                                           *)

\* Every step keeps every variable of ipc.cpp and of the threads in range.
LEMMA TypeStep == TypeOK /\ [Next]_vars => TypeOK'
<1> SUFFICES ASSUME TypeOK, [Next]_vars PROVE TypeOK'
  OBVIOUS
<1> USE DEF TypeOK
<1>1. ASSUME NEW c \in Clients, StartCall(c) PROVE TypeOK'
  BY <1>1 DEF StartCall, kernelVars, Threads
<1>2. ASSUME NEW c \in Clients, CallNoDest(c) PROVE TypeOK'
  BY <1>2 DEF CallNoDest, kernelVars
<1>3. ASSUME NEW c \in Clients, CallSend(c) PROVE TypeOK'
  <2>1. c \in Threads /\ dest[c] \in Threads
    BY <1>3 DEF CallSend, KeepRequest, Exists, Threads
  <2>2. <<c, callNo[c] + 1>> \in Requests
    BY <2>1 DEF Requests
  <2>3. QED
    BY <1>3, <2>1, <2>2 DEF CallSend, KeepRequest
<1>4. ASSUME NEW c \in Clients, CallAgain(c) PROVE TypeOK'
  BY <1>4 DEF CallAgain, userVars
<1>5. ASSUME NEW c \in Clients, CallCollect(c) PROVE TypeOK'
  <2>1. c \in Threads
    BY DEF Threads
  <2>2. QED
    BY <1>5, <2>1 DEF CallCollect
<1>6. ASSUME NEW s \in Servers, IrqRegister(s) PROVE TypeOK'
  BY <1>6 DEF IrqRegister
<1>7. ASSUME NEW s \in Servers, RecvIrq(s) PROVE TypeOK'
  BY <1>7 DEF RecvIrq, userVars
<1>8. ASSUME NEW s \in Servers, RecvTake(s) PROVE TypeOK'
  <2>1. PICK c \in Threads : held' = [held EXCEPT ![s] = outMsg[c]]
                             /\ delivered' = [delivered EXCEPT ![c] = TRUE]
    BY <1>8 DEF RecvTake, MarkTaken
  <2>2. outMsg[c] \in Requests
    OBVIOUS
  <2>3. QED
    BY <1>8, <2>1, <2>2 DEF RecvTake, MarkTaken
<1>9. ASSUME NEW s \in Servers, RecvBlock(s) PROVE TypeOK'
  BY <1>9 DEF RecvBlock, userVars
<1>10. ASSUME NEW s \in Servers, ReplyAccept(s) PROVE TypeOK'
  <2>1. s \in Threads /\ held[s] \in Requests /\ NoReq \in Requests
    BY DEF Threads, Requests
  <2>2. QED
    BY <1>10, <2>1 DEF ReplyAccept, KeepAnswer, WakeCaller
<1>11. ASSUME NEW s \in Servers, ReplyRefused(s) PROVE TypeOK'
  BY <1>11 DEF ReplyRefused, kernelVars, Requests
<1>12. ASSUME NEW d \in Drivers, DeliverIrq(d) PROVE TypeOK'
  BY <1>12 DEF DeliverIrq, userVars
<1>13. CASE UNCHANGED vars
  BY <1>13 DEF vars, kernelVars, userVars
<1>14. QED
  BY <1>1, <1>2, <1>3, <1>4, <1>5, <1>6, <1>7, <1>8, <1>9, <1>10, <1>11,
     <1>12, <1>13
     DEF Next, ClientStep, ServerStep, DoCall, DoRecv, DoReply

LEMMA TypeInit == Init => TypeOK
BY DEF Init, TypeOK, Entry, Requests, Threads

\* The variables of the IPC state keep their types.
THEOREM TypeCorrect == Spec => []TypeOK
BY TypeInit, TypeStep, PTL DEF Spec

----------------------------------------------------------------------------
(* The inductive invariant, one lemma per group of actions.                *)

LEMMA InvInit == Init => IInv
<1> SUFFICES ASSUME Init PROVE ClientInv /\ ServerInv
  BY TypeInit DEF IInv
<1> USE IpcAssumption DEF Init, Entry, Threads
<1>1. ClientInv
  BY DEF ClientInv, Any
<1>2. ServerInv
  BY DEF ServerInv, NoReq, Any
<1>3. QED
  BY <1>1, <1>2

\* A client that only changes its own program disturbs nobody.
LEMMA StartInv ==
  ASSUME IInv, NEW c \in Clients,
         StartCall(c) \/ (At(c, "call") /\ (CallNoDest(c) \/ CallAgain(c)))
  PROVE  ClientInv' /\ ServerInv'
<1> USE IpcAssumption DEF IInv, TypeOK, Threads, kernelVars, userVars
<1>1. CASE StartCall(c)
  <2>1. ClientInv'
    BY <1>1 DEF StartCall, ClientInv, At, Any
  <2>2. ServerInv'
    BY <1>1 DEF StartCall, ServerInv, Queued, At
  <2>3. QED
    BY <2>1, <2>2
<1>2. CASE At(c, "call") /\ CallNoDest(c)
  <2>1. ClientInv'
    BY <1>2 DEF CallNoDest, ClientInv, At, Any
  <2>2. ServerInv'
    BY <1>2 DEF CallNoDest, ServerInv, Queued, At
  <2>3. QED
    BY <2>1, <2>2
<1>3. CASE At(c, "call") /\ CallAgain(c)
  BY <1>3 DEF CallAgain, ClientInv, At
<1>4. QED
  BY <1>1, <1>2, <1>3

\* do_call, first time: the new request is queued, and its service is awake.
LEMMA SendInv ==
  ASSUME IInv, NEW c \in Clients, At(c, "call"), CallSend(c)
  PROVE  ClientInv' /\ ServerInv'
<1> USE IpcAssumption DEF IInv, TypeOK, Threads
<1>1. dest[c] \in Servers
  BY DEF CallSend, KeepRequest, ClientInv, Exists, At, Any
<1>2. ~(ipcState[c] = "WAIT_REPLY") /\ state[c] = "READY" /\ ~replyReady[c]
  BY DEF CallSend, KeepRequest, ClientInv, At
<1>3. ClientInv'
  <2> SUFFICES ASSUME NEW e \in Clients PROVE ClientInv!(e)'
    BY DEF ClientInv
  <2>1. CASE e = c
    BY <1>1, <1>2, <2>1 DEF CallSend, KeepRequest, ClientInv, At, Any
  <2>2. CASE e # c
    BY <1>1, <1>2, <2>2 DEF CallSend, KeepRequest, ClientInv, At, Any
  <2>3. QED
    BY <2>1, <2>2
<1>4. ServerInv'
  <2> SUFFICES ASSUME NEW s \in Servers PROVE ServerInv!(s)'
    BY DEF ServerInv
  <2>1. CASE s = dest[c]
    BY <1>1, <1>2, <2>1 DEF CallSend, KeepRequest, ServerInv, Queued, Awaits, At, Any
  <2>2. CASE s # dest[c]
    BY <1>1, <1>2, <2>2 DEF CallSend, KeepRequest, ServerInv, Queued, Awaits, At, Any
  <2>3. QED
    BY <2>1, <2>2
<1>5. QED
  BY <1>3, <1>4

\* do_call, retried with the answer there.
LEMMA CollectInv ==
  ASSUME IInv, NEW c \in Clients, At(c, "call"), CallCollect(c)
  PROVE  ClientInv' /\ ServerInv'
<1> USE IpcAssumption DEF IInv, TypeOK, Threads
<1>1. ClientInv'
  BY DEF CallCollect, ClientInv, At
<1>2. ServerInv'
  BY DEF CallCollect, ClientInv, ServerInv, Queued, At
<1>3. QED
  BY <1>1, <1>2

\* do_recv and IRQ_REGISTER.
LEMMA RecvInv ==
  ASSUME IInv, NEW s \in Servers, IrqRegister(s) \/ DoRecv(s)
  PROVE  ClientInv' /\ ServerInv'
<1> USE IpcAssumption DEF IInv, TypeOK, Threads
<1>1. CASE IrqRegister(s)
  BY <1>1 DEF IrqRegister, ClientInv, ServerInv, Queued, At
<1>2. CASE RecvIrq(s)
  BY <1>2 DEF RecvIrq, ClientInv, ServerInv, Queued, At, userVars
<1>3. CASE RecvBlock(s)
  <2>1. ClientInv'
    BY <1>3 DEF RecvBlock, ClientInv, At, userVars
  <2>2. ServerInv'
    BY <1>3 DEF RecvBlock, ServerInv, Queued, At, userVars
  <2>3. QED
    BY <2>1, <2>2
<1>4. CASE RecvTake(s)
  <2>1. PICK c \in Threads : /\ Queued(c, s)
                             /\ held' = [held EXCEPT ![s] = outMsg[c]]
                             /\ delivered' = [delivered EXCEPT ![c] = TRUE]
    BY <1>4 DEF RecvTake, MarkTaken
  <2>2. /\ c \in Clients
        /\ callPending[c] /\ ~replyReady[c]
        /\ dest[c] = s
        /\ outMsg[c] = <<c, callNo[c]>>
        /\ outMsg[c] # NoReq
    BY <2>1 DEF Queued, ClientInv, ServerInv, NoReq, Any
  <2>3. ClientInv'
    <3> SUFFICES ASSUME NEW e \in Clients PROVE ClientInv!(e)'
      BY DEF ClientInv
    <3>1. CASE e = c
      BY <1>4, <2>1, <2>2, <3>1 DEF RecvTake, MarkTaken, ClientInv
    <3>2. CASE e # c
      <4>1. ~(ipcState[e] = "WAIT_REPLY" /\ delivered[e] /\ dest[e] = s)
        <5>1. held[s] = NoReq
          BY <1>4 DEF RecvTake, MarkTaken, ServerInv, At
        <5>2. (ipcState[e] = "WAIT_REPLY" /\ delivered[e] /\ dest[e] = s)
                => held[s] = <<e, callNo[e]>>
          BY DEF ClientInv
        <5>3. QED
          BY <5>1, <5>2 DEF NoReq, Any
      <4>2. QED
        BY <1>4, <2>1, <2>2, <3>2, <4>1 DEF RecvTake, MarkTaken, ClientInv
    <3>3. QED
      BY <3>1, <3>2
  <2>4. ServerInv'
    BY <1>4, <2>1, <2>2 DEF RecvTake, MarkTaken, ServerInv, Queued, At
  <2>5. QED
    BY <2>3, <2>4
<1>5. QED
  BY <1>1, <1>2, <1>3, <1>4 DEF DoRecv

\* do_reply: it is never refused here, and it wakes the client it answers.
LEMMA ReplyInv ==
  ASSUME IInv, NEW s \in Servers, DoReply(s)
  PROVE  ClientInv' /\ ServerInv'
<1> USE IpcAssumption DEF IInv, TypeOK, Threads
<1>1. PICK c \in Clients : /\ held[s] = <<c, callNo[c]>>
                           /\ ipcState[c] = "WAIT_REPLY"
                           /\ waitTarget[c] = s
                           /\ delivered[c]
  BY DEF DoReply, ReplyAccept, ReplyRefused, ServerInv, At
<1>2. At(s, "serve") /\ ReplyAccept(s) /\ held[s][1] = c
  BY <1>1 DEF DoReply, ReplyRefused, MayReply
<1>3. dest[c] = s /\ callPending[c] /\ ~replyReady[c]
  BY <1>1 DEF ClientInv
<1>4. ClientInv'
  <2> SUFFICES ASSUME NEW e \in Clients PROVE ClientInv!(e)'
    BY DEF ClientInv
  <2>1. CASE e = c
    BY <1>1, <1>2, <1>3, <2>1 DEF ReplyAccept, KeepAnswer, WakeCaller, ClientInv, At
  <2>2. CASE e # c
    <3>1. (ipcState[e] = "WAIT_REPLY" /\ delivered[e]) => dest[e] # s
      BY <1>1, <2>2 DEF ClientInv
    <3>2. QED
      BY <1>2, <1>3, <2>2, <3>1 DEF ReplyAccept, KeepAnswer, WakeCaller, ClientInv, At
  <2>3. QED
    BY <2>1, <2>2
<1>5. ServerInv'
  <2> SUFFICES ASSUME NEW z \in Servers PROVE ServerInv!(z)'
    BY DEF ServerInv
  <2>1. CASE z = s
    BY <1>1, <1>2, <1>3, <2>1 DEF ReplyAccept, KeepAnswer, WakeCaller, ServerInv, Queued, At
  <2>2. CASE z # s
    BY <1>1, <1>2, <1>3, <2>2 DEF ReplyAccept, KeepAnswer, WakeCaller, ServerInv, Queued, At
  <2>3. QED
    BY <2>1, <2>2
<1>6. QED
  BY <1>4, <1>5

\* deliver_irq wakes a waiting driver and changes nothing else.
LEMMA IrqInv ==
  ASSUME IInv, NEW d \in Drivers, DeliverIrq(d)
  PROVE  ClientInv' /\ ServerInv'
<1> USE IpcAssumption DEF IInv, TypeOK, Threads
<1>1. ClientInv'
  BY DEF DeliverIrq, ClientInv, userVars
<1>2. ServerInv'
  BY DEF DeliverIrq, ServerInv, ClientInv, Queued, userVars
<1>3. QED
  BY <1>1, <1>2

LEMMA InvStep == IInv /\ [Next]_vars => IInv'
<1> SUFFICES ASSUME IInv, [Next]_vars PROVE IInv'
  OBVIOUS
<1>1. TypeOK'
  BY TypeStep DEF IInv
<1>2. CASE UNCHANGED vars
  BY <1>2 DEF vars, kernelVars, userVars, IInv, TypeOK, ClientInv, ServerInv,
              Queued
<1>3. ASSUME NEW c \in Clients, ClientStep(c) PROVE IInv'
  BY <1>1, <1>3, StartInv, SendInv, CollectInv DEF ClientStep, DoCall, IInv
<1>4. ASSUME NEW s \in Servers, ServerStep(s) PROVE IInv'
  BY <1>1, <1>4, RecvInv, ReplyInv DEF ServerStep, IInv
<1>5. ASSUME NEW d \in Drivers, DeliverIrq(d) PROVE IInv'
  BY <1>1, <1>5, IrqInv DEF IInv
<1>6. QED
  BY <1>2, <1>3, <1>4, <1>5 DEF Next

THEOREM InvCorrect == Spec => []IInv
BY InvInit, InvStep, PTL DEF Spec

----------------------------------------------------------------------------
(* What the invariant says of the code.                                    *)

\* No service sleeps in ipc_recv over an unread request.
THEOREM NoLostWakeupHolds == Spec => []NoLostWakeup
<1>1. IInv => NoLostWakeup
  <2> SUFFICES ASSUME IInv, NEW s \in Servers, ipcState[s] = "WAIT_RECV"
               PROVE  state[s] = "BLOCKED" /\ \A c \in Threads : ~Queued(c, s)
    BY DEF NoLostWakeup
  <2>1. state[s] = "BLOCKED" /\ \A c \in Clients : ~Queued(c, s)
    BY DEF IInv, ServerInv
  <2>2. \A c \in Servers : ~Queued(c, s)
    BY DEF IInv, ServerInv, Queued
  <2>3. QED
    BY <2>1, <2>2 DEF Threads
<1>2. QED
  BY <1>1, InvCorrect, PTL

\* A blocked client's request is queued for, or held by, the service it
\* waits for.
THEOREM CallerAccountedHolds == Spec => []CallerAccounted
<1>1. IInv => CallerAccounted
  <2> SUFFICES ASSUME IInv, NEW c \in Clients, state[c] = "BLOCKED"
               PROVE  /\ ~replyReady[c]
                      /\ waitTarget[c] \in Servers
                      /\ Queued(c, waitTarget[c]) \/ held[waitTarget[c]] = outMsg[c]
    BY DEF CallerAccounted
  <2>1. ipcState[c] = "WAIT_REPLY" /\ callPending[c] /\ ~replyReady[c]
    BY DEF IInv, ClientInv
  <2>2. waitTarget[c] = dest[c] /\ dest[c] \in Servers
    BY <2>1 DEF IInv, ClientInv
  <2>3. CASE delivered[c]
    BY <2>1, <2>2, <2>3 DEF IInv, ClientInv
  <2>4. CASE ~delivered[c]
    BY <2>1, <2>2, <2>4 DEF Queued
  <2>5. QED
    BY <2>1, <2>2, <2>3, <2>4
<1>2. QED
  BY <1>1, InvCorrect, PTL

\* Answers match requests, in the kernel's buffer and at the client.
THEOREM AnswerMatchesHolds == Spec => []AnswerMatches
<1>1. IInv => AnswerMatches
  BY DEF IInv, ClientInv, AnswerMatches
<1>2. QED
  BY <1>1, InvCorrect, PTL

----------------------------------------------------------------------------
(* The refinement of Rpc.tla: under the mapping PhaseOf, every step that   *)
(* IInv allows is a step of Rpc.tla or leaves its variables alone.        *)

\* What the abstract specification sees of a client's slot.
View(c) == <<callPending[c], replyReady[c], delivered[c], callNo[c], result[c]>>

\* A step that keeps every client's view, and the target of its pending
\* call, is invisible above.
LEMMA Invisible ==
  ASSUME \A c \in Clients : /\ View(c)' = View(c)
                            /\ callPending[c] => dest'[c] = dest[c]
  PROVE  UNCHANGED Abstract!rpcVars
<1>1. \A c \in Clients : PhaseOf(c)' = PhaseOf(c)
  BY DEF View, PhaseOf
<1>2. \A c \in Clients :
        (IF callPending'[c] THEN dest'[c] ELSE Any)
          = (IF callPending[c] THEN dest[c] ELSE Any)
  BY DEF View
<1>3. \A c \in Clients : callNo'[c] = callNo[c] /\ result'[c] = result[c]
  BY DEF View
<1>4. QED
  BY <1>1, <1>2, <1>3 DEF Abstract!rpcVars, Any

\* The idle steps: a program choosing its next call, a call that fails for
\* want of a target, a retry that finds no answer, IRQs, a blocking recv.
LEMMA QuietSteps ==
  ASSUME IInv,
         \/ \E c \in Clients : StartCall(c) \/ CallNoDest(c) \/ CallAgain(c)
         \/ \E s \in Servers : IrqRegister(s) \/ RecvIrq(s) \/ RecvBlock(s)
         \/ \E d \in Drivers : DeliverIrq(d)
         \/ UNCHANGED vars
  PROVE  UNCHANGED Abstract!rpcVars
<1> USE DEF IInv, TypeOK, ClientInv, Threads, vars, kernelVars, userVars, View
<1>1. ASSUME NEW c \in Clients, StartCall(c) PROVE UNCHANGED Abstract!rpcVars
  BY <1>1, Invisible DEF StartCall, At
<1>2. ASSUME NEW c \in Clients, CallNoDest(c) \/ CallAgain(c)
      PROVE  UNCHANGED Abstract!rpcVars
  BY <1>2, Invisible DEF CallNoDest, CallAgain
<1>3. ASSUME NEW s \in Servers, IrqRegister(s) \/ RecvIrq(s) \/ RecvBlock(s)
      PROVE  UNCHANGED Abstract!rpcVars
  BY <1>3, Invisible DEF IrqRegister, RecvIrq, RecvBlock
<1>4. ASSUME NEW d \in Drivers, DeliverIrq(d) PROVE UNCHANGED Abstract!rpcVars
  BY <1>4, Invisible DEF DeliverIrq
<1>5. CASE UNCHANGED vars
  BY <1>5, Invisible
<1>6. QED
  BY <1>1, <1>2, <1>3, <1>4, <1>5

----------------------------------------------------------------------------
(* The four steps that do something above.                                 *)

\* do_call, first time, is Ask.
LEMMA SendIsAsk ==
  ASSUME IInv, NEW c \in Clients, At(c, "call"), CallSend(c)
  PROVE  \E s \in Servers : Abstract!Ask(c, s)
<1> USE IpcAssumption DEF IInv, TypeOK, Threads
<1>1. PICK s \in Servers : s = dest[c]
  BY DEF CallSend, KeepRequest, ClientInv, Exists, At, Any
<1>2. PhaseOf(c) = "idle" /\ PhaseOf(c)' = "asked"
  BY DEF CallSend, KeepRequest, PhaseOf
<1>3. \A e \in Clients : e # c => PhaseOf(e)' = PhaseOf(e)
  BY DEF CallSend, KeepRequest, PhaseOf
<1>4. [e \in Clients |-> PhaseOf(e)]'
        = [[e \in Clients |-> PhaseOf(e)] EXCEPT ![c] = "asked"]
  BY <1>2, <1>3
<1>5. [e \in Clients |-> IF callPending[e] THEN dest[e] ELSE Any]'
        = [[e \in Clients |-> IF callPending[e] THEN dest[e] ELSE Any]
             EXCEPT ![c] = s]
  BY <1>1 DEF CallSend, KeepRequest, Any
<1>6. [e \in Clients |-> callNo[e]]'
        = [[e \in Clients |-> callNo[e]] EXCEPT ![c] = @ + 1]
  BY DEF CallSend, KeepRequest
<1>7. [e \in Clients |-> result[e][2]]' = [e \in Clients |-> result[e][2]]
  BY DEF CallSend, KeepRequest
<1>8. QED
  BY <1>2, <1>4, <1>5, <1>6, <1>7 DEF Abstract!Ask, Any

\* do_call that finds its answer is Return.
LEMMA CollectIsReturn ==
  ASSUME IInv, NEW c \in Clients, At(c, "call"), CallCollect(c)
  PROVE  Abstract!Return(c)
<1> USE IpcAssumption DEF IInv, TypeOK, Threads
<1>1. PhaseOf(c) = "answered" /\ PhaseOf(c)' = "idle"
  BY DEF CallCollect, PhaseOf
<1>2. \A e \in Clients : e # c => PhaseOf(e)' = PhaseOf(e)
  BY DEF CallCollect, PhaseOf
<1>3. [e \in Clients |-> PhaseOf(e)]'
        = [[e \in Clients |-> PhaseOf(e)] EXCEPT ![c] = "idle"]
  BY <1>1, <1>2
<1>4. [e \in Clients |-> IF callPending[e] THEN dest[e] ELSE Any]'
        = [[e \in Clients |-> IF callPending[e] THEN dest[e] ELSE Any]
             EXCEPT ![c] = Any]
  BY DEF CallCollect, Any
<1>5. [e \in Clients |-> callNo[e]]' = [e \in Clients |-> callNo[e]]
  BY DEF CallCollect
<1>6. replyMsg[c][2] = callNo[c]
  BY DEF CallCollect, ClientInv
<1>7. [e \in Clients |-> result[e][2]]'
        = [[e \in Clients |-> result[e][2]] EXCEPT ![c] = callNo[c]]
  BY <1>6 DEF CallCollect
<1>8. QED
  BY <1>1, <1>3, <1>4, <1>5, <1>7 DEF Abstract!Return, Any

\* do_recv that finds a request is Take: the service has no other in hand.
LEMMA TakeIsTake ==
  ASSUME IInv, NEW s \in Servers, RecvTake(s)
  PROVE  \E c \in Clients : Abstract!Take(c, s)
<1> USE IpcAssumption DEF IInv, TypeOK, Threads
<1>1. PICK c \in Threads : Queued(c, s) /\ delivered' = [delivered EXCEPT ![c] = TRUE]
  BY DEF RecvTake, MarkTaken
<1>2. c \in Clients /\ callPending[c] /\ ~replyReady[c] /\ dest[c] = s
  BY <1>1 DEF Queued, ClientInv, ServerInv
<1>3. PhaseOf(c) = "asked" /\ PhaseOf(c)' = "taken"
  BY <1>1, <1>2 DEF RecvTake, MarkTaken, PhaseOf, Queued
<1>4. \A e \in Clients : e # c => PhaseOf(e)' = PhaseOf(e)
  BY <1>1 DEF RecvTake, MarkTaken, PhaseOf
<1>5. [e \in Clients |-> PhaseOf(e)]'
        = [[e \in Clients |-> PhaseOf(e)] EXCEPT ![c] = "taken"]
  BY <1>2, <1>3, <1>4
<1>6. \A e \in Clients : ~(PhaseOf(e) = "taken" /\ callPending[e] /\ dest[e] = s)
  <2> SUFFICES ASSUME NEW e \in Clients, PhaseOf(e) = "taken", callPending[e],
                      dest[e] = s
               PROVE  FALSE
    OBVIOUS
  <2>1. held[s] = <<e, callNo[e]>>
    BY DEF PhaseOf, ClientInv
  <2>2. held[s] = NoReq
    BY DEF RecvTake, MarkTaken, ServerInv, At
  <2>3. QED
    BY <2>1, <2>2 DEF NoReq, Any
<1>7. ~Abstract!Busy(s)
  BY <1>6 DEF Abstract!Busy, PhaseOf, Any
<1>8. UNCHANGED <<[e \in Clients |-> IF callPending[e] THEN dest[e] ELSE Any],
                  [e \in Clients |-> callNo[e]],
                  [e \in Clients |-> result[e][2]]>>
  BY DEF RecvTake, MarkTaken
<1>9. QED
  BY <1>2, <1>3, <1>5, <1>7, <1>8 DEF Abstract!Take, Any

\* do_reply is Answer: its client waits for it, with the request taken.
LEMMA ReplyIsAnswer ==
  ASSUME IInv, NEW s \in Servers, DoReply(s)
  PROVE  \E c \in Clients : Abstract!Answer(c)
<1> USE IpcAssumption DEF IInv, TypeOK, Threads
<1>1. PICK c \in Clients : /\ held[s] = <<c, callNo[c]>>
                           /\ ipcState[c] = "WAIT_REPLY"
                           /\ waitTarget[c] = s
                           /\ delivered[c]
  BY DEF DoReply, ReplyAccept, ReplyRefused, ServerInv, At
<1>2. ReplyAccept(s) /\ held[s][1] = c
  BY <1>1 DEF DoReply, ReplyRefused, MayReply
<1>3. callPending[c] /\ ~replyReady[c]
  BY <1>1 DEF ClientInv
<1>4. PhaseOf(c) = "taken" /\ PhaseOf(c)' = "answered"
  BY <1>1, <1>2, <1>3 DEF ReplyAccept, KeepAnswer, WakeCaller, PhaseOf
<1>5. \A e \in Clients : e # c => PhaseOf(e)' = PhaseOf(e)
  BY <1>2 DEF ReplyAccept, KeepAnswer, WakeCaller, PhaseOf
<1>6. [e \in Clients |-> PhaseOf(e)]'
        = [[e \in Clients |-> PhaseOf(e)] EXCEPT ![c] = "answered"]
  BY <1>4, <1>5
<1>7. UNCHANGED <<[e \in Clients |-> IF callPending[e] THEN dest[e] ELSE Any],
                  [e \in Clients |-> callNo[e]],
                  [e \in Clients |-> result[e][2]]>>
  BY <1>2 DEF ReplyAccept, KeepAnswer, WakeCaller
<1>8. QED
  BY <1>4, <1>6, <1>7 DEF Abstract!Answer, Any

----------------------------------------------------------------------------

LEMMA RefinesInit == Init => Abstract!Init
BY DEF Init, Abstract!Init, PhaseOf, Threads, NoReq, Any

LEMMA RefinesStep == IInv /\ [Next]_vars => [Abstract!Next]_Abstract!rpcVars
<1> SUFFICES ASSUME IInv, [Next]_vars
             PROVE  Abstract!Next \/ UNCHANGED Abstract!rpcVars
  OBVIOUS
<1>1. CASE \E c \in Clients : At(c, "call") /\ CallSend(c)
  BY <1>1, SendIsAsk DEF Abstract!Next
<1>2. CASE \E c \in Clients : At(c, "call") /\ CallCollect(c)
  BY <1>2, CollectIsReturn DEF Abstract!Next
<1>3. CASE \E s \in Servers : RecvTake(s)
  BY <1>3, TakeIsTake DEF Abstract!Next
<1>4. CASE \E s \in Servers : DoReply(s)
  BY <1>4, ReplyIsAnswer DEF Abstract!Next
<1>5. QED
  BY <1>1, <1>2, <1>3, <1>4, QuietSteps
     DEF Next, ClientStep, ServerStep, DoCall, DoRecv

\* The IPC system calls implement the abstract calls of Rpc.tla: a request
\* is taken once, by the service it was sent to, answered once, and its
\* own answer is what the caller gets.
THEOREM Refinement == Spec => RefinesRpc
BY RefinesInit, RefinesStep, InvCorrect, PTL
   DEF Spec, RefinesRpc, Abstract!Spec

----------------------------------------------------------------------------
(* The IPC with deaths and restarts (Recovery.tla).                        *)

\* The part of the invariant that is about ranges and the restart limit: a
\* restart is only ever due for a thread that may still be restarted.
RestartsLeft == \A t \in pending : restarts[t] < MaxRestart

LEMMA RecoveryTypeInit == RecoveryInit => RecoveryTypeOK /\ RestartsLeft
BY TypeInit, RecoveryAssumption DEF RecoveryInit, RecoveryTypeOK, RestartsLeft

\* A step of the IPC alone keeps every variable of Ipc.tla in its range.
LEMMA IpcTypes ==
  ASSUME TypeOK,
         \/ \E c \in Clients : ClientStep(c)
         \/ \E s \in Servers : ServerStep(s)
         \/ \E d \in Drivers : DeliverIrq(d)
         \/ UNCHANGED vars
  PROVE  TypeOK'
BY TypeStep DEF Next

\* Every step keeps every variable in its range, and no thread is restarted
\* more than MAX_RESTART times.
LEMMA RecoveryTypeStep ==
  RecoveryTypeOK /\ RestartsLeft /\ [RecoveryNext]_allVars
    => RecoveryTypeOK' /\ RestartsLeft'
<1> SUFFICES ASSUME RecoveryTypeOK, RestartsLeft, [RecoveryNext]_allVars
             PROVE  RecoveryTypeOK' /\ RestartsLeft'
  OBVIOUS
<1> USE RecoveryAssumption
<1>1. CASE UNCHANGED supVars /\ (\/ \E s \in Servers : ServerStep(s)
                                 \/ \E d \in Drivers : DeliverIrq(d)
                                 \/ UNCHANGED vars)
  BY <1>1, IpcTypes DEF RecoveryTypeOK, RestartsLeft, supVars, history
<1>a. ASSUME NEW c \in Clients, ClientRuns(c)
      PROVE  RecoveryTypeOK' /\ RestartsLeft'
  <2>1. TypeOK'
    BY <1>a, IpcTypes DEF ClientRuns, RecoveryTypeOK
  <2>2. QED
    BY <1>a, <2>1 DEF ClientRuns, Counted, CountOld, RecoveryTypeOK, RestartsLeft
<1>2. ASSUME NEW c \in Clients, ProgramExits(c)
      PROVE  RecoveryTypeOK' /\ RestartsLeft'
  BY <1>2 DEF ProgramExits, ExitThread, RecoveryTypeOK, RestartsLeft, TypeOK,
              userVars, history
<1>3. ASSUME NEW s \in Halting, HaltReply(s)
      PROVE  RecoveryTypeOK' /\ RestartsLeft'
  <2>1. TypeOK'
    BY <1>3, IpcTypes DEF HaltReply, ServerStep, DoReply, RecoveryTypeOK
  <2>2. QED
    BY <1>3, <2>1 DEF HaltReply, RecoveryTypeOK, RestartsLeft, history
<1>4. ASSUME NEW s \in Halting, ServiceExits(s)
      PROVE  RecoveryTypeOK' /\ RestartsLeft'
  BY <1>4 DEF ServiceExits, ExitThread, RecoveryTypeOK, RestartsLeft, TypeOK,
              userVars, history
<1>5. ASSUME NEW k \in Clients, NEW t \in Threads, Kill(k, t)
      PROVE  RecoveryTypeOK' /\ RestartsLeft'
  BY <1>5 DEF Kill, NotifyDead, RecoveryTypeOK, RestartsLeft, TypeOK, userVars,
              history
<1>6. ASSUME NEW t \in Threads, Fault(t)
      PROVE  RecoveryTypeOK' /\ RestartsLeft'
  BY <1>6 DEF Fault, NotifyDead, RecoveryTypeOK, RestartsLeft, TypeOK, userVars,
              history
<1>7. ASSUME NEW t \in Threads, Respawn(t)
      PROVE  RecoveryTypeOK' /\ RestartsLeft'
  <2>1. TypeOK'
    BY <1>7 DEF Respawn, ResetThread, RecoveryTypeOK, TypeOK, Entry, Requests
  <2>2. QED
    BY <1>7, <2>1 DEF Respawn, ResetThread, RecoveryTypeOK, RestartsLeft, TypeOK
<1>8. QED
  BY <1>1, <1>a, <1>2, <1>3, <1>4, <1>5, <1>6, <1>7
     DEF RecoveryNext, ServiceRuns, Interrupted, allVars

\* The variables keep their types through deaths and restarts, and the
\* restart limit holds.
THEOREM RecoveryTypeCorrect == RecoverySpec => []RecoveryTypeOK
<1>1. RecoverySpec => [](RecoveryTypeOK /\ RestartsLeft)
  BY RecoveryTypeInit, RecoveryTypeStep, PTL DEF RecoverySpec
<1>2. QED
  BY <1>1, PTL

----------------------------------------------------------------------------
(* The inductive invariant, one lemma per group of actions.                *)

Slots == (\A c \in Clients : SlotOfClient(c)) /\ (\A s \in Servers : SlotOfService(s))

LEMMA SlotsInit == RecoveryInit => Slots
<1> SUFFICES ASSUME RecoveryInit PROVE Slots
  OBVIOUS
<1> USE IpcAssumption DEF RecoveryInit, Init, Entry, Threads
<1>1. ASSUME NEW c \in Clients PROVE SlotOfClient(c)
  BY DEF SlotOfClient, Any
<1>2. ASSUME NEW s \in Servers PROVE SlotOfService(s)
  BY DEF SlotOfService
<1>3. QED
  BY <1>1, <1>2 DEF Slots

\* A request is never the "no request" of a service that has none.
LEMMA RequestIsSome ==
  ASSUME NEW c \in Clients, NEW n PROVE <<c, n>> # NoReq
BY IpcAssumption DEF NoReq, Any

\* A step that is not the end of a call counts nothing.
LEMMA NothingCounted ==
  ASSUME RecoveryTypeOK, NEW c \in Clients, Counted(c),
         ~callPending[c] \/ callPending'[c]
  PROVE  UNCHANGED supVars
BY DEF RecoveryTypeOK, Counted, CountOld, supVars, history

\* The client's own steps.
LEMMA ClientSlots ==
  ASSUME RecoveryIInv, NEW c \in Clients, ClientRuns(c) \/ ProgramExits(c)
  PROVE  Slots'
<1> USE IpcAssumption DEF RecoveryIInv, RecoveryTypeOK, TypeOK, Threads, supVars,
                          history
<1>1. CASE ProgramExits(c)
  <2>1. ASSUME NEW e \in Clients PROVE SlotOfClient(e)'
    BY <1>1 DEF ProgramExits, ExitThread, At, SlotOfClient, userVars
  <2>2. ASSUME NEW s \in Servers PROVE SlotOfService(s)'
    BY <1>1 DEF ProgramExits, ExitThread, At, SlotOfService, WorksFor, Queued, userVars
  <2>3. QED
    BY <2>1, <2>2 DEF Slots
<1>2. CASE StartCall(c) /\ Counted(c)
  <2>0. UNCHANGED supVars
    BY <1>2, NothingCounted DEF StartCall, kernelVars
  <2>1. ASSUME NEW e \in Clients PROVE SlotOfClient(e)'
    BY <1>2, <2>0 DEF StartCall, At, SlotOfClient, kernelVars, Any
  <2>2. ASSUME NEW s \in Servers PROVE SlotOfService(s)'
    BY <1>2, <2>0 DEF StartCall, At, SlotOfService, WorksFor, Queued, kernelVars
  <2>3. QED
    BY <2>1, <2>2 DEF Slots
<1>3. CASE At(c, "call") /\ CallNoDest(c) /\ Counted(c)
  <2>0. UNCHANGED supVars
    BY <1>3, NothingCounted DEF CallNoDest
  <2>1. ASSUME NEW e \in Clients PROVE SlotOfClient(e)'
    BY <1>3, <2>0 DEF CallNoDest, At, SlotOfClient, kernelVars
  <2>2. ASSUME NEW s \in Servers PROVE SlotOfService(s)'
    BY <1>3, <2>0 DEF CallNoDest, At, SlotOfService, WorksFor, Queued, kernelVars
  <2>3. QED
    BY <2>1, <2>2 DEF Slots
<1>4. CASE At(c, "call") /\ CallSend(c) /\ Counted(c)
  <2>0. UNCHANGED supVars
    BY <1>4, NothingCounted DEF CallSend
  <2>1. dest[c] \in Servers /\ dest[c] # c
    <3>1. dest[c] \in Servers \cup Absent
      BY <1>4 DEF SlotOfClient, At
    <3>2. dest[c] \in Threads
      BY <1>4 DEF CallSend, Exists
    <3>3. QED
      BY <3>1, <3>2
  <2>2. ~callPending[c] /\ ~replyReady[c] /\ state[c] = "READY"
    BY <1>4, <2>0 DEF CallSend, KeepRequest, SlotOfClient, At
  <2>3. ASSUME NEW e \in Clients PROVE SlotOfClient(e)'
    <3>1. CASE e = c
      BY <1>4, <2>0, <2>1, <2>2, <3>1 DEF CallSend, KeepRequest, At, SlotOfClient
    <3>2. CASE e # c
      BY <1>4, <2>0, <2>1, <2>2, <3>2 DEF CallSend, KeepRequest, At, SlotOfClient
    <3>3. QED
      BY <3>1, <3>2
  <2>4. ASSUME NEW s \in Servers PROVE SlotOfService(s)'
    <3> DEFINE Woken == s = dest[c] /\ ipcState[s] = "WAIT_RECV"
    <3>0. SlotOfService(s)
      OBVIOUS
    <3>1. ipcState'[s] = IF Woken THEN "NONE" ELSE ipcState[s]
      BY <1>4, <2>0, <2>1, <3>0 DEF CallSend, Awaits, SlotOfService
    <3>2. state'[s] = IF Woken THEN "READY" ELSE state[s]
      BY <1>4, <2>0, <2>1, <3>0 DEF CallSend, Awaits, SlotOfService
    <3>3. waitTarget'[s] = waitTarget[s] /\ pc'[s] = pc[s] /\ held'[s] = held[s]
      BY <1>4, <2>0 DEF CallSend
    <3>4. ASSUME NEW e \in Clients, ipcState'[s] = "WAIT_RECV" PROVE ~Queued(e, s)'
      <4>1. ~Woken /\ ~Queued(e, s)
        BY <3>0, <3>1, <3>4 DEF SlotOfService
      <4>2. CASE e = c
        BY <1>4, <2>0, <2>2, <3>0, <3>1, <3>4, <4>1, <4>2 DEF CallSend, Queued
      <4>3. CASE e # c
        BY <1>4, <2>0, <2>1, <4>1, <4>3 DEF CallSend, KeepRequest, Queued
      <4>4. QED
        BY <4>2, <4>3
    <3>5. ASSUME NEW e \in Clients, WorksFor(s, e) PROVE WorksFor(s, e)'
      <4>1. e # c
        BY <2>2, <3>5 DEF WorksFor
      <4>2. QED
        BY <1>4, <2>0, <2>1, <3>5, <4>1 DEF CallSend, KeepRequest, WorksFor
    <3>6. QED
      BY <3>0, <3>1, <3>2, <3>3, <3>4, <3>5 DEF SlotOfService
  <2>5. QED
    BY <2>3, <2>4 DEF Slots
<1>5. CASE At(c, "call") /\ CallAgain(c) /\ Counted(c)
  <2>0. UNCHANGED supVars
    BY <1>5, NothingCounted DEF CallAgain
  <2>1. ASSUME NEW e \in Clients PROVE SlotOfClient(e)'
    BY <1>5, <2>0 DEF CallAgain, At, SlotOfClient, userVars
  <2>2. ASSUME NEW s \in Servers PROVE SlotOfService(s)'
    BY <1>5, <2>0 DEF CallAgain, At, SlotOfClient, SlotOfService, WorksFor, Queued, userVars
  <2>3. QED
    BY <2>1, <2>2 DEF Slots
<1>6. CASE At(c, "call") /\ CallCollect(c) /\ Counted(c)
  <2>0. /\ UNCHANGED <<pending, restarts, halting, deaths, born>>
        /\ \A e \in Clients :
             old'[e] = IF e = c /\ callNo[c] <= born[c] THEN old[e] + 1 ELSE old[e]
    BY <1>6 DEF CallCollect, Counted, CountOld, SlotOfClient
  <2>1. ASSUME NEW e \in Clients PROVE SlotOfClient(e)'
    BY <1>6, <2>0 DEF CallCollect, At, SlotOfClient
  <2>2. ASSUME NEW s \in Servers PROVE SlotOfService(s)'
    BY <1>6, <2>0 DEF CallCollect, At, SlotOfService, WorksFor, Queued
  <2>3. QED
    BY <2>1, <2>2 DEF Slots
<1>7. QED
  BY <1>1, <1>2, <1>3, <1>4, <1>5, <1>6 DEF ClientRuns, ClientStep, DoCall

\* The service's own steps, exit and the answer to MSG_HALT included.
LEMMA RecvSlots ==
  ASSUME RecoveryIInv, NEW s \in Servers, UNCHANGED supVars,
         IrqRegister(s) \/ DoRecv(s)
  PROVE  Slots'
<1> USE IpcAssumption DEF RecoveryIInv, RecoveryTypeOK, TypeOK, Threads, supVars,
                          history
<1>1. CASE IrqRegister(s)
  <2>1. ASSUME NEW e \in Clients PROVE SlotOfClient(e)'
    BY <1>1 DEF IrqRegister, At, SlotOfClient
  <2>2. ASSUME NEW z \in Servers PROVE SlotOfService(z)'
    BY <1>1 DEF IrqRegister, At, SlotOfService, WorksFor, Queued
  <2>3. QED
    BY <2>1, <2>2 DEF Slots
<1>2. CASE RecvIrq(s)
  <2>1. ASSUME NEW e \in Clients PROVE SlotOfClient(e)'
    BY <1>2 DEF RecvIrq, SlotOfClient, userVars
  <2>2. ASSUME NEW z \in Servers PROVE SlotOfService(z)'
    BY <1>2 DEF RecvIrq, SlotOfService, WorksFor, Queued, userVars
  <2>3. QED
    BY <2>1, <2>2 DEF Slots
<1>3. CASE RecvBlock(s)
  <2>1. ASSUME NEW e \in Clients PROVE SlotOfClient(e)'
    BY <1>3 DEF RecvBlock, SlotOfClient, userVars
  <2>2. ASSUME NEW z \in Servers PROVE SlotOfService(z)'
    <3>1. CASE z = s
      BY <1>3, <3>1 DEF RecvBlock, At, SlotOfService, Queued, userVars
    <3>2. CASE z # s
      BY <1>3, <3>2 DEF RecvBlock, SlotOfService, WorksFor, Queued, userVars
    <3>3. QED
      BY <3>1, <3>2
  <2>3. QED
    BY <2>1, <2>2 DEF Slots
<1>4. CASE RecvTake(s)
  <2>1. PICK c \in Threads : /\ Queued(c, s)
                             /\ held' = [held EXCEPT ![s] = outMsg[c]]
                             /\ delivered' = [delivered EXCEPT ![c] = TRUE]
    BY <1>4 DEF RecvTake, MarkTaken
  <2>2. /\ c \in Clients
        /\ callPending[c] /\ ~replyReady[c] /\ outMsg[c] = <<c, callNo[c]>>
    BY <2>1 DEF Queued, SlotOfClient, SlotOfService
  <2>3. ASSUME NEW e \in Clients PROVE SlotOfClient(e)'
    BY <1>4 DEF RecvTake, SlotOfClient
  <2>4. ASSUME NEW z \in Servers PROVE SlotOfService(z)'
    <3>1. CASE z = s
      <4>1. ipcState[s] # "WAIT_RECV" /\ state[s] # "BLOCKED"
        BY <1>4 DEF RecvTake, At, SlotOfService
      <4>2. WorksFor(s, c)'
        BY <1>4, <2>1, <2>2 DEF RecvTake, WorksFor, Queued
      <4>3. QED
        BY <1>4, <2>2, <3>1, <4>1, <4>2 DEF RecvTake, SlotOfService
    <3>2. CASE z # s
      <4>1. \A e \in Clients : WorksFor(z, e) => WorksFor(z, e)'
        BY <1>4, <2>1, <3>2 DEF RecvTake, WorksFor
      <4>2. \A e \in Clients : Queued(e, z)' => Queued(e, z)
        BY <1>4, <2>1 DEF RecvTake, Queued
      <4>3. QED
        BY <1>4, <2>1, <3>2, <4>1, <4>2 DEF RecvTake, SlotOfService
    <3>3. QED
      BY <3>1, <3>2
  <2>5. QED
    BY <2>3, <2>4 DEF Slots
<1>5. QED
  BY <1>1, <1>2, <1>3, <1>4 DEF DoRecv

\* The client a service works for is the one it answers.
LEMMA AnswersItsClient ==
  ASSUME RecoveryIInv, NEW s \in Servers, At(s, "serve")
  PROVE  \E c \in Clients : WorksFor(s, c) /\ held[s][1] = c
BY DEF RecoveryIInv, SlotOfService, At, WorksFor

\* An answer, accepted or refused.
LEMMA ReplySlots ==
  ASSUME RecoveryIInv, NEW s \in Servers, DoReply(s),
         UNCHANGED <<pending, restarts, born, old>>
  PROVE  Slots'
<1> USE IpcAssumption DEF RecoveryIInv, RecoveryTypeOK, TypeOK, Threads
<1>1. PICK c \in Clients : WorksFor(s, c) /\ held[s][1] = c
  BY AnswersItsClient DEF DoReply
<1>2. state[s] = "READY" /\ pc[s] = "serve" /\ ipcState[s] = "NONE" /\ c # s
  BY DEF DoReply, At, SlotOfService
<1>3. CASE ReplyRefused(s)
  <2>1. ASSUME NEW e \in Clients PROVE SlotOfClient(e)'
    BY <1>3 DEF ReplyRefused, SlotOfClient, kernelVars
  <2>2. ASSUME NEW z \in Servers PROVE SlotOfService(z)'
    <3>1. \A e \in Clients : Queued(e, z)' => Queued(e, z)
      BY <1>3 DEF ReplyRefused, Queued, kernelVars
    <3>2. CASE z = s
      BY <1>2, <1>3, <3>1, <3>2 DEF ReplyRefused, SlotOfService, kernelVars
    <3>3. CASE z # s
      <4>1. \A e \in Clients : WorksFor(z, e) => WorksFor(z, e)'
        BY <1>3, <3>3 DEF ReplyRefused, WorksFor, kernelVars
      <4>2. QED
        BY <1>3, <3>1, <3>3, <4>1 DEF ReplyRefused, SlotOfService, kernelVars
    <3>4. QED
      BY <3>2, <3>3
  <2>3. QED
    BY <2>1, <2>2 DEF Slots
<1>4. CASE ReplyAccept(s)
  <2>1. ipcState[c] = "WAIT_REPLY" /\ waitTarget[c] = s
    BY <1>1, <1>4 DEF ReplyAccept, MayReply
  <2>2. ASSUME NEW e \in Clients PROVE SlotOfClient(e)'
    <3>1. CASE e = c
      BY <1>1, <1>4, <3>1 DEF ReplyAccept, KeepAnswer, WakeCaller, WorksFor,
                              SlotOfClient
    <3>2. CASE e # c
      BY <1>1, <1>2, <1>4, <3>2 DEF ReplyAccept, KeepAnswer, WakeCaller, SlotOfClient
    <3>3. QED
      BY <3>1, <3>2
  <2>3. ASSUME NEW z \in Servers PROVE SlotOfService(z)'
    <3>1. \A e \in Clients : Queued(e, z)' => Queued(e, z)
      BY <1>1, <1>4 DEF ReplyAccept, KeepAnswer, WakeCaller, Queued
    <3>2. CASE z = s
      BY <1>1, <1>2, <1>4, <3>2 DEF ReplyAccept, KeepAnswer, WakeCaller, SlotOfService
    <3>3. CASE z # s
      <4>1. ASSUME NEW e \in Clients, WorksFor(z, e) PROVE WorksFor(z, e)'
        <5>1. e # c
          BY <2>1, <3>3, <4>1 DEF WorksFor
        <5>2. QED
          BY <1>1, <1>4, <3>3, <4>1, <5>1 DEF ReplyAccept, KeepAnswer, WakeCaller,
                                              WorksFor
      <4>2. QED
        BY <1>1, <1>4, <3>1, <3>3, <4>1 DEF ReplyAccept, KeepAnswer, WakeCaller,
                                            SlotOfService
    <3>4. QED
      BY <3>2, <3>3
  <2>4. QED
    BY <2>2, <2>3 DEF Slots
<1>5. QED
  BY <1>3, <1>4 DEF DoReply

\* An interrupt wakes a driver that waits.
LEMMA IrqSlots ==
  ASSUME RecoveryIInv, NEW d \in Drivers, Interrupted(d)
  PROVE  Slots'
<1> USE IpcAssumption DEF RecoveryIInv, RecoveryTypeOK, TypeOK, Threads, supVars,
                          history
<1>1. ASSUME NEW e \in Clients PROVE SlotOfClient(e)'
  BY DEF Interrupted, DeliverIrq, SlotOfClient, userVars
<1>2. ASSUME NEW z \in Servers PROVE SlotOfService(z)'
  <2>1. \A e \in Clients : /\ Queued(e, z)' => Queued(e, z)
                           /\ WorksFor(z, e) => WorksFor(z, e)'
    BY DEF Interrupted, DeliverIrq, Queued, WorksFor, userVars
  <2>2. QED
    BY <2>1 DEF Interrupted, DeliverIrq, SlotOfService, userVars
<1>3. QED
  BY <1>1, <1>2 DEF Slots

\* A service that exits, any death, and a restart.
LEMMA DeathSlots ==
  ASSUME RecoveryIInv, NEW t \in Threads,
         UNCHANGED <<waitTarget, irqWaiting, irqReceived, callPending, replyReady,
                     delivered, outMsg, replyMsg, userVars, restarts, history>>,
         state' = [state EXCEPT ![t] = "DEAD"],
         \/ UNCHANGED ipcState
         \/ state[t] = "READY" /\ ipcState' = [ipcState EXCEPT ![t] = "NONE"]
  PROVE  Slots'
<1> USE IpcAssumption DEF RecoveryIInv, RecoveryTypeOK, TypeOK, Threads, userVars,
                          history
<1>1. ASSUME NEW e \in Clients PROVE SlotOfClient(e)'
  BY DEF SlotOfClient
<1>2. ASSUME NEW z \in Servers PROVE SlotOfService(z)'
  <2>1. \A e \in Clients : /\ Queued(e, z)' => Queued(e, z)
                           /\ WorksFor(z, e) => WorksFor(z, e)'
    BY DEF Queued, WorksFor
  <2>2. QED
    BY <2>1 DEF SlotOfService
<1>3. QED
  BY <1>1, <1>2 DEF Slots

\* A restart puts a slot back to its beginning.
LEMMA RespawnSlots ==
  ASSUME RecoveryIInv, NEW t \in Threads, Respawn(t)
  PROVE  Slots'
<1> USE IpcAssumption DEF RecoveryIInv, RecoveryTypeOK, TypeOK, Threads
<1>1. ASSUME NEW e \in Clients PROVE SlotOfClient(e)'
  <2>1. CASE e = t
    BY <2>1 DEF Respawn, ResetThread, SlotOfClient, Entry, Any
  <2>2. CASE e # t
    BY <2>2 DEF Respawn, ResetThread, SlotOfClient
  <2>3. QED
    BY <2>1, <2>2
<1>2. ASSUME NEW z \in Servers PROVE SlotOfService(z)'
  <2>1. CASE z = t
    BY <2>1 DEF Respawn, ResetThread, SlotOfService, Entry
  <2>2. CASE z # t
    <3>1. \A e \in Clients : /\ Queued(e, z)' => Queued(e, z)
                             /\ WorksFor(z, e) => WorksFor(z, e)'
      BY <2>2 DEF Respawn, ResetThread, Queued, WorksFor
    <3>2. QED
      BY <2>2, <3>1 DEF Respawn, ResetThread, SlotOfService
  <2>3. QED
    BY <2>1, <2>2
<1>3. QED
  BY <1>1, <1>2 DEF Slots

LEMMA RecoveryInvStep == RecoveryIInv /\ [RecoveryNext]_allVars => RecoveryIInv'
<1> SUFFICES ASSUME RecoveryIInv, [RecoveryNext]_allVars PROVE Slots'
  BY RecoveryTypeStep DEF RecoveryIInv, RestartsLeft, Slots
<1> USE RecoveryAssumption, IpcAssumption
<1>1. CASE UNCHANGED allVars
  <2> USE <1>1 DEF allVars, supVars, history, vars, kernelVars, userVars
  <2>1. ASSUME NEW e \in Clients PROVE SlotOfClient(e)'
    BY DEF RecoveryIInv, SlotOfClient
  <2>2. ASSUME NEW z \in Servers PROVE SlotOfService(z)'
    BY DEF RecoveryIInv, SlotOfService, WorksFor, Queued
  <2>3. QED
    BY <2>1, <2>2 DEF Slots
<1>2. ASSUME NEW c \in Clients, ClientRuns(c) \/ ProgramExits(c) PROVE Slots'
  BY <1>2, ClientSlots
<1>3. ASSUME NEW s \in Servers, ServiceRuns(s) PROVE Slots'
  BY <1>3, RecvSlots, ReplySlots DEF ServiceRuns, ServerStep, supVars, history
<1>4. ASSUME NEW d \in Drivers, Interrupted(d) PROVE Slots'
  BY <1>4, IrqSlots
<1>5. ASSUME NEW s \in Halting, HaltReply(s) PROVE Slots'
  BY <1>5, ReplySlots DEF HaltReply, DoReply, history
<1>6. ASSUME NEW s \in Halting, ServiceExits(s) PROVE Slots'
  BY <1>6, DeathSlots DEF ServiceExits, ExitThread, Threads, userVars, history
<1>7. ASSUME NEW k \in Clients, NEW t \in Threads, Kill(k, t) PROVE Slots'
  BY <1>7, DeathSlots DEF Kill, userVars, history
<1>8. ASSUME NEW t \in Threads, Fault(t) PROVE Slots'
  BY <1>8, DeathSlots DEF Fault, userVars, history
<1>9. ASSUME NEW t \in Threads, Respawn(t) PROVE Slots'
  BY <1>9, RespawnSlots
<1>10. QED
  BY <1>1, <1>2, <1>3, <1>4, <1>5, <1>6, <1>7, <1>8, <1>9 DEF RecoveryNext

\* The slots of clients and services stay in order through deaths and restarts.
THEOREM RecoveryInvCorrect == RecoverySpec => []RecoveryIInv
<1>1. RecoveryInit => RecoveryIInv
  BY RecoveryTypeInit, SlotsInit DEF RecoveryIInv, RestartsLeft, Slots
<1>2. QED
  BY <1>1, RecoveryInvStep, PTL DEF RecoverySpec

----------------------------------------------------------------------------
(* What the invariant says of the code.                                    *)

\* A service that sleeps, sleeps in ipc_recv with no request for it unread,
\* whoever died or was restarted.
THEOREM SleepingServiceIsIdleHolds == RecoverySpec => []SleepingServiceIsIdle
<1>1. RecoveryIInv => SleepingServiceIsIdle
  <2> SUFFICES ASSUME RecoveryIInv, NEW s \in Servers, state[s] = "BLOCKED"
               PROVE  ipcState[s] = "WAIT_RECV" /\ \A c \in Threads : ~Queued(c, s)
    BY DEF SleepingServiceIsIdle
  <2>1. ipcState[s] = "WAIT_RECV" /\ \A c \in Clients : ~Queued(c, s)
    BY DEF RecoveryIInv, SlotOfService
  <2>2. \A c \in Servers : ~Queued(c, s)
    BY DEF RecoveryIInv, SlotOfService, Queued
  <2>3. QED
    BY <2>1, <2>2 DEF Threads
<1>2. QED
  BY <1>1, RecoveryInvCorrect, PTL

\* A client's calls return at most one wrong answer per restart of its own,
\* to a request its former life sent; without a restart, none.
THEOREM OneOldAnswerPerRestartHolds == RecoverySpec => []OneOldAnswerPerRestart
<1>1. RecoveryIInv => OneOldAnswerPerRestart
  BY DEF RecoveryIInv, SlotOfClient, OneOldAnswerPerRestart
<1>2. QED
  BY <1>1, RecoveryInvCorrect, PTL

----------------------------------------------------------------------------
(* The two ways to lose an answer.                                         *)

\* Somebody has, or will see, the request that c waits for an answer to.
Attended(c) == \/ Queued(c, waitTarget[c])
               \/ held[waitTarget[c]] = outMsg[c]

\* do_reply answers the sleeping client itself, and refuses it nothing.
LEMMA ReplyAttends ==
  ASSUME RecoveryIInv, NEW s \in Servers, DoReply(s), NEW c \in Clients,
         ipcState[c] = "WAIT_REPLY", Attended(c), outMsg[c] # NoReq,
         outMsg[c] = <<c, callNo[c]>>
  PROVE  \/ state'[c] # "BLOCKED"
         \/ waitTarget'[c] = waitTarget[c] /\ Attended(c)'
<1> USE IpcAssumption DEF RecoveryIInv, RecoveryTypeOK, TypeOK, Threads
<1>1. PICK e \in Clients : WorksFor(s, e) /\ held[s][1] = e
  BY AnswersItsClient DEF DoReply
<1>2. CASE e = c
  <2>1. ReplyAccept(s)
    BY <1>1, <1>2 DEF DoReply, ReplyRefused, MayReply, WorksFor
  <2>2. QED
    BY <1>1, <1>2, <2>1 DEF ReplyAccept, WakeCaller
<1>3. CASE e # c
  <2>1. held[s] # outMsg[c]
    BY <1>1, <1>3 DEF WorksFor
  <2>2. CASE ReplyAccept(s)
    <3>1. /\ state'[c] = state[c] /\ ipcState'[c] = ipcState[c]
          /\ waitTarget'[c] = waitTarget[c]
          /\ delivered' = delivered /\ outMsg' = outMsg
      BY <1>1, <1>3, <2>2 DEF ReplyAccept, WakeCaller
    <3>2. held[waitTarget[c]] = outMsg[c] => held'[waitTarget[c]] = outMsg[c]
      BY <2>1, <2>2 DEF ReplyAccept
    <3>3. QED
      BY <3>1, <3>2 DEF Attended, Queued
  <2>3. CASE ReplyRefused(s)
    BY <2>1, <2>3 DEF ReplyRefused, Attended, Queued, kernelVars
  <2>4. QED
    BY <2>2, <2>3 DEF DoReply
<1>4. QED
  BY <1>2, <1>3

\* While c sleeps in its call, a step leaves c attended by the same service,
\* or wakes or kills c, or restarts the service with the request in hand.
LEMMA StaysAttended ==
  ASSUME RecoveryIInv, RecoveryNext, NEW c \in Clients,
         state[c] = "BLOCKED", ipcState[c] = "WAIT_REPLY", Attended(c)
  PROVE  \/ state'[c] # "BLOCKED"
         \/ waitTarget'[c] = waitTarget[c] /\ Attended(c)'
         \/ /\ waitTarget'[c] = waitTarget[c]
            /\ held[waitTarget[c]] = outMsg[c]
            /\ restarts'[waitTarget[c]] = restarts[waitTarget[c]] + 1
<1> DEFINE w == waitTarget[c]
           Goal == \/ state'[c] # "BLOCKED"
                   \/ waitTarget'[c] = w /\ Attended(c)'
                   \/ /\ waitTarget'[c] = w
                      /\ held[w] = outMsg[c] /\ restarts'[w] = restarts[w] + 1
<1> USE IpcAssumption, RecoveryAssumption
        DEF RecoveryIInv, RecoveryTypeOK, TypeOK, Threads
<1>1. w \in Servers /\ callPending[c] /\ ~replyReady[c] /\ outMsg[c] = <<c, callNo[c]>>
  BY DEF SlotOfClient
<1>2. outMsg[c] # NoReq
  BY <1>1, RequestIsSome
<1>3. ASSUME NEW e \in Clients, ClientRuns(e) \/ ProgramExits(e) PROVE Goal
  <2>1. CASE e # c
    <3>1. CASE StartCall(e) \/ CallNoDest(e)
      BY <3>1 DEF StartCall, CallNoDest, Attended, Queued, kernelVars
    <3>2. CASE CallSend(e)
      BY <1>1, <2>1, <3>2 DEF CallSend, KeepRequest, Attended, Queued
    <3>3. CASE CallAgain(e) \/ CallCollect(e)
      BY <2>1, <3>3 DEF CallAgain, CallCollect, Attended, Queued, userVars
    <3>4. CASE ProgramExits(e)
      BY <2>1, <3>4 DEF ProgramExits, ExitThread, Attended, Queued, userVars
    <3>5. QED
      BY <1>3, <3>1, <3>2, <3>3, <3>4 DEF ClientRuns, ClientStep, DoCall
  <2>2. CASE e = c
    BY <1>3, <2>2 DEF ClientRuns, ClientStep, StartCall, DoCall, ProgramExits, At
  <2>3. QED
    BY <2>1, <2>2
<1>4. ASSUME NEW s \in Servers, ServiceRuns(s) PROVE Goal
  <2>1. CASE IrqRegister(s) \/ RecvIrq(s)
    BY <2>1 DEF IrqRegister, RecvIrq, Attended, Queued, userVars
  <2>2. CASE RecvBlock(s)
    BY <2>2 DEF RecvBlock, Attended, Queued, userVars
  <2>3. CASE RecvTake(s)
    <3>1. PICK e \in Threads : /\ Queued(e, s)
                               /\ held' = [held EXCEPT ![s] = outMsg[e]]
                               /\ delivered' = [delivered EXCEPT ![e] = TRUE]
      BY <2>3 DEF RecvTake, MarkTaken
    <3>2. held[s] = NoReq
      BY <2>3 DEF RecvTake, At, SlotOfService
    <3>3. CASE e = c
      BY <1>1, <2>3, <3>1, <3>3 DEF RecvTake, Attended, Queued
    <3>4. CASE e # c
      BY <1>1, <1>2, <2>3, <3>1, <3>2, <3>4 DEF RecvTake, Attended, Queued
    <3>5. QED
      BY <3>3, <3>4
  <2>4. CASE DoReply(s)
    BY <1>1, <1>2, <2>4, ReplyAttends
  <2>5. QED
    BY <1>4, <2>1, <2>2, <2>3, <2>4 DEF ServiceRuns, ServerStep, DoRecv
<1>5. ASSUME NEW d \in Drivers, Interrupted(d) PROVE Goal
  BY <1>1, <1>5 DEF Interrupted, DeliverIrq, Attended, Queued, userVars
<1>6. ASSUME NEW s \in Halting, HaltReply(s) PROVE Goal
  BY <1>1, <1>2, <1>6, ReplyAttends DEF HaltReply, DoReply
<1>7. ASSUME NEW s \in Halting, ServiceExits(s) PROVE Goal
  BY <1>1, <1>7 DEF ServiceExits, ExitThread, Attended, Queued, userVars
<1>8. ASSUME NEW k \in Clients, NEW t \in Threads, Kill(k, t) PROVE Goal
  BY <1>1, <1>8 DEF Kill, Attended, Queued, userVars
<1>9. ASSUME NEW t \in Threads, Fault(t) PROVE Goal
  BY <1>1, <1>9 DEF Fault, Attended, Queued, userVars
<1>10. ASSUME NEW t \in Threads, Respawn(t) PROVE Goal
  <2>1. CASE t = c
    BY <1>10, <2>1 DEF Respawn, ResetThread
  <2>2. CASE t = w /\ held[w] = outMsg[c]
    BY <1>1, <1>10, <2>2 DEF Respawn, ResetThread
  <2>3. CASE t # c /\ ~(t = w /\ held[w] = outMsg[c])
    BY <1>1, <1>10, <2>3 DEF Respawn, ResetThread, Attended, Queued
  <2>4. QED
    BY <2>1, <2>2, <2>3
<1>11. QED
  BY <1>3, <1>4, <1>5, <1>6, <1>7, <1>8, <1>9, <1>10 DEF RecoveryNext

\* A restart is never taken back.
LEMMA RestartsKept ==
  ASSUME RecoveryIInv, RecoveryNext, NEW c \in Clients, restarts'[c] = 0
  PROVE  restarts[c] = 0
BY DEF RecoveryNext, ClientRuns, Counted, ProgramExits, ServiceRuns, Interrupted,
       HaltReply, ServiceExits, ExitThread, Kill, Fault, Respawn, ResetThread, supVars,
       RecoveryIInv, RecoveryTypeOK, Threads

\* A client that was never restarted falls asleep only in do_call, with its
\* request queued.
LEMMA SleepsAttended ==
  ASSUME RecoveryIInv, RecoveryNext, NEW c \in Clients, restarts[c] = 0,
         state[c] # "BLOCKED", state'[c] = "BLOCKED"
  PROVE  waitTarget'[c] \in Servers /\ Queued(c, waitTarget[c])'
<1> USE IpcAssumption, RecoveryAssumption
        DEF RecoveryIInv, RecoveryTypeOK, TypeOK, Threads
<1>1. At(c, "call") /\ CallSend(c)
  <2>1. ASSUME NEW e \in Clients, ClientRuns(e) PROVE At(c, "call") /\ CallSend(c)
    <3>1. e = c
      BY <2>1 DEF ClientRuns, ClientStep, StartCall, DoCall, CallNoDest, CallSend,
                  CallAgain, CallCollect, kernelVars
    <3>2. ~CallAgain(c)
      BY <2>1, <3>1 DEF CallAgain, SlotOfClient, ClientRuns, ClientStep, StartCall,
                        DoCall, At
    <3>3. QED
      BY <2>1, <3>1, <3>2 DEF ClientRuns, ClientStep, StartCall, DoCall, CallNoDest,
                              CallCollect, kernelVars
  <2>2. ASSUME NEW s \in Servers, ServerStep(s) PROVE FALSE
    BY <2>2 DEF ServerStep, IrqRegister, DoRecv, RecvIrq, RecvTake, RecvBlock, DoReply,
                ReplyAccept, ReplyRefused, WakeCaller, kernelVars
  <2>3. ASSUME NEW s \in Halting, HaltReply(s) PROVE FALSE
    BY <2>3 DEF HaltReply, ReplyAccept, WakeCaller
  <2>4. ASSUME NEW d \in Drivers, Interrupted(d) PROVE FALSE
    BY <2>4 DEF Interrupted, DeliverIrq
  <2>5. QED
    BY <2>1, <2>2, <2>3, <2>4
       DEF RecoveryNext, ProgramExits, ServiceRuns, ServiceExits, ExitThread, Kill,
           Fault, Respawn, ResetThread
<1>2. dest[c] \in Servers
  BY <1>1 DEF CallSend, Exists, SlotOfClient, At, Any
<1>3. QED
  BY <1>1, <1>2 DEF CallSend, KeepRequest, Queued

\* A service takes a request alive: if it is dead with the request of c in
\* hand, it had it before the step.
LEMMA TakenAlive ==
  ASSUME RecoveryIInv, RecoveryNext, NEW c \in Clients, NEW s \in Servers,
         state[c] = "BLOCKED", outMsg[c] # NoReq,
         held'[s] = outMsg'[c], state'[s] = "DEAD"
  PROVE  held[s] = outMsg[c]
<1> USE IpcAssumption, RecoveryAssumption
        DEF RecoveryIInv, RecoveryTypeOK, TypeOK, Threads
<1>1. ASSUME NEW e \in Clients, ClientRuns(e) \/ ProgramExits(e)
      PROVE  held[s] = outMsg[c]
  <2>1. e # c
    BY <1>1 DEF ClientRuns, ClientStep, StartCall, DoCall, ProgramExits, At
  <2>2. QED
    BY <1>1, <2>1
       DEF ClientRuns, ClientStep, StartCall, DoCall, CallNoDest, CallSend, KeepRequest,
           CallAgain, CallCollect, ProgramExits, ExitThread, kernelVars, userVars
<1>2. ASSUME NEW z \in Servers, ServiceRuns(z)
      PROVE  held[s] = outMsg[c]
  <2>1. CASE RecvTake(z)
    BY <2>1 DEF RecvTake, At
  <2>2. CASE IrqRegister(z) \/ RecvIrq(z) \/ RecvBlock(z)
    BY <2>2 DEF IrqRegister, RecvIrq, RecvBlock, userVars
  <2>3. CASE DoReply(z)
    BY <2>3 DEF DoReply, ReplyAccept, KeepAnswer, ReplyRefused, kernelVars
  <2>4. QED
    BY <1>2, <2>1, <2>2, <2>3 DEF ServiceRuns, ServerStep, DoRecv
<1>3. ASSUME NEW d \in Drivers, Interrupted(d)
      PROVE  held[s] = outMsg[c]
  BY <1>3 DEF Interrupted, DeliverIrq, userVars
<1>4. ASSUME NEW z \in Halting, HaltReply(z) \/ ServiceExits(z)
      PROVE  held[s] = outMsg[c]
  BY <1>4 DEF HaltReply, ReplyAccept, KeepAnswer, ServiceExits, ExitThread, userVars
<1>5. ASSUME NEW k \in Clients, NEW t \in Threads, Kill(k, t)
      PROVE  held[s] = outMsg[c]
  BY <1>5 DEF Kill, userVars
<1>6. ASSUME NEW t \in Threads, Fault(t) \/ Respawn(t)
      PROVE  held[s] = outMsg[c]
  BY <1>6 DEF Fault, Respawn, ResetThread, userVars
<1>7. QED
  BY <1>1, <1>2, <1>3, <1>4, <1>5, <1>6 DEF RecoveryNext

\* A client that was never restarted loses its answer only to its own
\* service: that is dead for good, or dies or is restarted with the client's
\* request in hand.
THEOREM OnlyOwnServiceStrandsHolds == RecoverySpec => OnlyOwnServiceStrands
<1> DEFINE Lost(c) == \E s \in Servers :
                        /\ s = waitTarget'[c]
                        /\ \/ Gone(s)'
                           \/ /\ held[s] = outMsg[c]
                              /\ state'[s] = "DEAD" \/ restarts'[s] = restarts[s] + 1
           Strands == \A c \in Clients :
                        (restarts'[c] = 0 /\ ~Stranded(c) /\ Stranded(c)') => Lost(c)
<1>1. RecoveryIInv /\ [RecoveryNext]_allVars => [Strands]_allVars
  <2> SUFFICES ASSUME RecoveryIInv, RecoveryNext, NEW c \in Clients,
                      restarts'[c] = 0, ~Stranded(c), Stranded(c)'
               PROVE  Lost(c)
    OBVIOUS
  <2>1. restarts[c] = 0 /\ state'[c] = "BLOCKED"
    BY RestartsKept DEF Stranded
  <2>2. CASE state[c] # "BLOCKED"
    <3>1. waitTarget'[c] \in Servers /\ Queued(c, waitTarget[c])'
      BY <2>1, <2>2, SleepsAttended
    <3>2. Gone(waitTarget[c])'
      BY <3>1 DEF Stranded
    <3>3. QED
      BY <3>1, <3>2 DEF Gone
  <2>3. CASE state[c] = "BLOCKED"
    <3>1. waitTarget[c] \in Servers /\ Attended(c)
      BY <2>3 DEF Stranded, Attended
    <3>2. ipcState[c] = "WAIT_REPLY" /\ outMsg[c] # NoReq
      BY <2>1, <2>3, RequestIsSome DEF RecoveryIInv, SlotOfClient
    <3>3. waitTarget'[c] = waitTarget[c]
      BY <2>1, <2>3, <3>1, <3>2, StaysAttended
    <3>4. \/ Attended(c)'
          \/ /\ held[waitTarget[c]] = outMsg[c]
             /\ restarts'[waitTarget[c]] = restarts[waitTarget[c]] + 1
      BY <2>1, <2>3, <3>1, <3>2, StaysAttended
    <3>5. CASE Queued(c, waitTarget[c])'
      <4>1. Gone(waitTarget[c])'
        BY <3>1, <3>3, <3>5 DEF Stranded
      <4>2. QED
        BY <3>1, <3>3, <4>1 DEF Gone
    <3>6. CASE held'[waitTarget[c]] = outMsg'[c]
      <4>1. state'[waitTarget[c]] = "DEAD"
        BY <3>1, <3>3, <3>6 DEF Stranded
      <4>2. held[waitTarget[c]] = outMsg[c]
        BY <2>3, <3>1, <3>2, <3>6, <4>1, TakenAlive
      <4>3. QED
        BY <3>1, <3>3, <4>1, <4>2
    <3>7. QED
      BY <3>1, <3>3, <3>4, <3>5, <3>6 DEF Attended
  <2>4. QED
    BY <2>2, <2>3
<1>2. QED
  BY <1>1, RecoveryInvCorrect, PTL DEF RecoverySpec, OnlyOwnServiceStrands
=============================================================================
