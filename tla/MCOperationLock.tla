-------------------------- MODULE MCOperationLock --------------------------
(* The launcher with two worker threads, a CLI process with one, two apps. *)
EXTENDS OperationLock, TLC

CONSTANTS launcher, cli, t1, t2, t3

Where == (t1 :> launcher) @@ (t2 :> launcher) @@ (t3 :> cli)
=============================================================================
