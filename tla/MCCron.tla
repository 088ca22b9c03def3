------------------------------- MODULE MCCron -------------------------------
(* A cron that runs every second on two nodes, one whose clock is fast, and *)
(* one with two instances of another cron that has the same name.           *)
EXTENDS CronScheduler, TLC

CONSTANTS n1, n2, backup, cleanup

MCNameOf == [c \in Cron |-> "nightly"]
MCInstances == (backup :> (n1 :> 1 @@ n2 :> 1)) @@ (cleanup :> (n1 :> 2 @@ n2 :> 0))
MCTicks == (backup :> <<0, 2>>) @@ (cleanup :> <<2>>)
MCSkew == (n1 :> 0) @@ (n2 :> 1)
=============================================================================
