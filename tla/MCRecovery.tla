----------------------------- MODULE MCRecovery -----------------------------
(* Recovery on a small system: the keyboard driver 3, the shell 5 and the   *)
(* power service 6 are watched; 9 is a program the shell has started.       *)
EXTENDS Recovery

MCServers == {3, 6}
MCDrivers == {3}
MCClients == {5, 9}
MCAbsent  == {}
MCMaxCalls == [c \in MCClients |-> IF c = 5 THEN 2 ELSE 1]
MCWatched == {3, 5, 6}
MCHalting == {6}
MCNoHalting == {}
=============================================================================
