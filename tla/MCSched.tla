------------------------------- MODULE MCSched ------------------------------
(* Sched with kmain, idle, two services of high priority, which are watched, *)
(* and a free slot for a program of kmain's priority.                       *)
EXTENDS Sched, TLC

MCPriority == 0 :> 5 @@ 1 :> 0 @@ 2 :> 10 @@ 3 :> 10 @@ 4 :> 5
MCWatched  == {2, 3}
=============================================================================
