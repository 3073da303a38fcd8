-------------------------------- MODULE MCIpc -------------------------------
(* Ipc on a small system: the slots are in tid order, as in the kernel, and *)
(* the driver has the lowest tid of the services.                           *)
EXTENDS Ipc

MCServers == {2, 3}
MCDrivers == {3}
MCClients == {5, 9, 10}
MCAbsent  == {31}
MCMaxCalls == [c \in MCClients |-> IF c = 10 THEN 1 ELSE 2]
=============================================================================
