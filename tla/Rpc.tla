-------------------------------- MODULE Rpc --------------------------------
(***************************************************************************)
(* What the IPC of the kernel promises its users, without saying how: a    *)
(* client asks one server, that server takes the request once, answers it  *)
(* once, and the client gets back the answer to the request it made.  A    *)
(* server works on one request at a time.  Ipc.tla, which models           *)
(* kernel/ipc.cpp, implements this specification.                          *)
(***************************************************************************)
EXTENDS Naturals

CONSTANTS Clients,   \* the threads that call services
          Servers,   \* the service threads
          Nobody     \* "no server": the target of a client that asks nothing

VARIABLES phase,     \* where each client's call stands
          to,        \* the server the current call is addressed to
          num,       \* how many calls the client has made
          got        \* the number of the request whose answer came back last

rpcVars == <<phase, to, num, got>>

Phases == {"idle", "asked", "taken", "answered"}

Init ==
  /\ phase = [c \in Clients |-> "idle"]
  /\ to    = [c \in Clients |-> Nobody]
  /\ num   = [c \in Clients |-> 0]
  /\ got   = [c \in Clients |-> 0]

Ask(c, s) ==
  /\ phase[c] = "idle"
  /\ phase' = [phase EXCEPT ![c] = "asked"]
  /\ to'    = [to EXCEPT ![c] = s]
  /\ num'   = [num EXCEPT ![c] = @ + 1]
  /\ UNCHANGED got

Busy(s) == \E c \in Clients : phase[c] = "taken" /\ to[c] = s

Take(c, s) ==
  /\ phase[c] = "asked"
  /\ to[c] = s
  /\ ~Busy(s)
  /\ phase' = [phase EXCEPT ![c] = "taken"]
  /\ UNCHANGED <<to, num, got>>

Answer(c) ==
  /\ phase[c] = "taken"
  /\ phase' = [phase EXCEPT ![c] = "answered"]
  /\ UNCHANGED <<to, num, got>>

Return(c) ==
  /\ phase[c] = "answered"
  /\ phase' = [phase EXCEPT ![c] = "idle"]
  /\ to'    = [to EXCEPT ![c] = Nobody]
  /\ got'   = [got EXCEPT ![c] = num[c]]
  /\ UNCHANGED num

Next ==
  \E c \in Clients :
    \/ \E s \in Servers : Ask(c, s) \/ Take(c, s)
    \/ Answer(c)
    \/ Return(c)

Spec == Init /\ [][Next]_rpcVars
=============================================================================
