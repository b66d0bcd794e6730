----------------------------- MODULE Supervisor -----------------------------
(***************************************************************************)
(* The background worker that keeps the engine awake                       *)
(* (runtime/engine/wsl/supervisor.rs): callers in the launcher, the        *)
(* command line and the agent connector look for it, start it and ask it   *)
(* to stop; workers hold the worker lock and report in a status file.      *)
(*                                                                         *)
(* A lock is freed when its holder dies.  A look tries the worker's lock   *)
(* itself, so that for a moment the looker holds it.                       *)
(*                                                                         *)
(* Abstracted: the selection and the ownership of the engine, which every  *)
(* step verifies, hold, or the step fails (Refuse, WorkerFails); a failed  *)
(* file operation is a failed step; the worker's pipe into the engine is   *)
(* held while it runs.                                                     *)
(***************************************************************************)
CONSTANTS Callers, Workers,   \* a worker is a process, spawned once
          NoOne

VARIABLES workerLock, spawnLock,   \* who holds them
          status, fresh,           \* the status file: whose; not older than two minutes
          stopFile,
          caller,                  \* per caller: its call and step, its look, its child
          worker,
          asked                    \* history: the workers asked to stop

locks == <<workerLock, spawnLock>>
statusFile == <<status, fresh>>
supervisorVars == <<locks, statusFile, stopFile, caller, worker, asked>>

Calls == {"ensure", "stop", "status"}
LookSteps == {"first", "waiting", "second", "poll"}
Steps == LookSteps \cup {"idle", "lock", "claim", "claimed", "clear_stop", "clear_status", "spawn", "ask"}
Looks == {"none", "begun", "holds", "taken", "answered"}
Idle == [call |-> "status", step |-> "idle", look |-> "none", got |-> NoOne, child |-> NoOne]

TypeOK ==
  /\ workerLock \in Callers \cup Workers \cup {NoOne}
  /\ spawnLock \in Callers \cup {NoOne}
  /\ status \in Workers \cup {NoOne} /\ {fresh, stopFile} \subseteq BOOLEAN
  /\ caller \in [Callers -> [call : Calls, step : Steps, look : Looks,
                             got : Workers \cup {NoOne}, child : Workers \cup {NoOne}]]
  /\ worker \in [Workers -> {"unborn", "starting", "running", "leaving", "left", "gone"}]
  /\ asked \subseteq Workers

SupervisorInit ==
  /\ workerLock = NoOne /\ spawnLock = NoOne
  /\ status = NoOne /\ fresh = FALSE /\ stopFile = FALSE
  /\ caller = [c \in Callers |-> Idle]
  /\ worker = [w \in Workers |-> "unborn"]
  /\ asked = {}

-----------------------------------------------------------------------------
\* A caller at a step, its next step, and a look that begins with it.
At(c, step) == caller[c].step = step
Answered(c, step) == At(c, step) /\ caller[c].look = "answered"
Goto(c, step) ==
  caller' = [caller EXCEPT ![c].step = step,
                           ![c].look = IF step \in LookSteps THEN "begun" ELSE "none"]
OnlyCaller == UNCHANGED <<locks, statusFile, stopFile, worker, asked>>

\* The call ends, and with it the caller's handle of the spawn lock.
Finish(c) ==
  /\ caller' = [caller EXCEPT ![c] = Idle]
  /\ spawnLock' = IF spawnLock = c THEN NoOne ELSE spawnLock

\* The look at the status: the lock is free, and the looker takes it, and gives it back,
Try(c) ==
  /\ caller[c].look = "begun" /\ workerLock = NoOne
  /\ workerLock' = c
  /\ caller' = [caller EXCEPT ![c].look = "holds"]
  /\ UNCHANGED <<spawnLock, statusFile, stopFile, worker, asked>>

GiveBack(c) ==
  /\ caller[c].look = "holds"
  /\ workerLock' = NoOne
  /\ caller' = [caller EXCEPT ![c].look = "answered", ![c].got = NoOne]
  /\ UNCHANGED <<spawnLock, statusFile, stopFile, worker, asked>>

\* or someone holds it, and the file says who, unless it is old or being replaced.
SeeTaken(c) ==
  /\ caller[c].look = "begun" /\ workerLock # NoOne
  /\ caller' = [caller EXCEPT ![c].look = "taken"]
  /\ OnlyCaller

ReadStatus(c) ==
  /\ caller[c].look = "taken"
  /\ \E w \in {IF fresh THEN status ELSE NoOne} \cup (IF workerLock \in Workers THEN {NoOne} ELSE {}) :
       caller' = [caller EXCEPT ![c].look = "answered", ![c].got = w]
  /\ OnlyCaller

Look(c) == Try(c) \/ GiveBack(c) \/ SeeTaken(c) \/ ReadStatus(c)

-----------------------------------------------------------------------------
\* The callers.

Begin(c, call) ==
  /\ At(c, "idle")
  /\ caller' = [caller EXCEPT ![c] = [Idle EXCEPT !.call = call,
                                        !.step = IF call = "stop" THEN "lock" ELSE "first",
                                        !.look = IF call = "stop" THEN "none" ELSE "begun"]]
  /\ OnlyCaller

\* A worker lives: there is nothing to do.  For the call "status" any answer ends it.
Satisfied(c) ==
  /\ caller[c].step \in {"first", "waiting", "second"} /\ caller[c].look = "answered"
  /\ \/ caller[c].got # NoOne /\ caller[c].call = "ensure"
     \/ caller[c].got = NoOne /\ caller[c].call = "stop"
     \/ caller[c].call = "status"
  /\ Finish(c)
  /\ UNCHANGED <<workerLock, statusFile, stopFile, worker, asked>>

Unsatisfied(c) ==
  /\ caller[c].got = NoOne /\ caller[c].call = "ensure"
  /\ \/ (Answered(c, "first") \/ Answered(c, "waiting")) /\ Goto(c, "lock")
     \/ Answered(c, "second") /\ Goto(c, "claim")
  /\ OnlyCaller

TakeSpawnLock(c) ==
  /\ At(c, "lock") /\ spawnLock = NoOne
  /\ spawnLock' = c
  /\ Goto(c, "second")
  /\ UNCHANGED <<workerLock, statusFile, stopFile, worker, asked>>

\* Another caller starts a worker: ensure waits for it, stop does not.
SpawnLockTaken(c) ==
  /\ At(c, "lock") /\ spawnLock # NoOne
  /\ \/ caller[c].call = "ensure" /\ Goto(c, "waiting")
     \/ caller' = [caller EXCEPT ![c] = Idle]
  /\ OnlyCaller

\* Faulty: goes on although a worker holds the lock.
ClaimAnyway(c) ==
  /\ At(c, "claim")
  /\ Goto(c, "clear_stop") /\ OnlyCaller

\* No worker reports: then none may hold the lock.
Claim(c) ==
  /\ At(c, "claim")
  /\ IF workerLock = NoOne THEN workerLock' = c /\ Goto(c, "claimed") /\ UNCHANGED spawnLock
                           ELSE Finish(c) /\ UNCHANGED workerLock
  /\ UNCHANGED <<statusFile, stopFile, worker, asked>>

Unclaim(c) ==
  /\ At(c, "claimed")
  /\ workerLock' = NoOne
  /\ Goto(c, "clear_stop")
  /\ UNCHANGED <<spawnLock, statusFile, stopFile, worker, asked>>

ClearStop(c) ==
  /\ At(c, "clear_stop")
  /\ stopFile' = FALSE
  /\ Goto(c, "clear_status")
  /\ UNCHANGED <<locks, statusFile, worker, asked>>

ClearStatus(c) ==
  /\ At(c, "clear_status")
  /\ status' = NoOne /\ fresh' = FALSE
  /\ Goto(c, "spawn")
  /\ UNCHANGED <<locks, stopFile, worker, asked>>

Spawn(c) ==
  /\ At(c, "spawn")
  /\ \E w \in Workers :
       /\ worker[w] = "unborn"
       /\ worker' = [worker EXCEPT ![w] = "starting"]
       /\ caller' = [caller EXCEPT ![c].step = "poll", ![c].look = "begun", ![c].child = w]
  /\ UNCHANGED <<locks, statusFile, stopFile, asked>>

\* The child must confirm; one that exited, or took too long, is a failure.
Confirmed(c) ==
  /\ Answered(c, "poll") /\ caller[c].got = caller[c].child
  /\ Finish(c)
  /\ UNCHANGED <<workerLock, statusFile, stopFile, worker, asked>>

PollAgain(c) ==
  /\ Answered(c, "poll") /\ caller[c].got # caller[c].child
  /\ Goto(c, "poll") /\ OnlyCaller

\* A process ends: what it holds is freed.
Freed(w) == workerLock' = IF workerLock = w THEN NoOne ELSE workerLock

NotConfirmed(c) ==
  /\ At(c, "poll") /\ caller[c].look \in {"begun", "answered"}
  /\ LET w == caller[c].child IN
       /\ worker' = [worker EXCEPT ![w] = "gone"]
       /\ Freed(w)
  /\ Finish(c)
  /\ UNCHANGED <<statusFile, stopFile, asked>>

\* The one who is asked is the one that reported.
Ask(c) ==
  /\ caller[c].call = "stop" /\ Answered(c, "second") /\ caller[c].got # NoOne
  /\ stopFile' = TRUE
  /\ asked' = asked \cup {w \in Workers : workerLock = w}
  /\ Finish(c)
  /\ UNCHANGED <<workerLock, statusFile, worker>>

\* The selection or the ownership is not verified; or the caller's process dies.
Refuse(c) ==
  /\ caller[c].step # "idle"
  /\ Finish(c)
  /\ workerLock' = IF workerLock = c THEN NoOne ELSE workerLock
  /\ UNCHANGED <<statusFile, stopFile, worker, asked>>

-----------------------------------------------------------------------------
\* The workers.

\* One worker: who finds the lock taken is superfluous.
TakeWorkerLock(w) ==
  /\ worker[w] = "starting"
  /\ IF workerLock = NoOne
     THEN workerLock' = w /\ worker' = [worker EXCEPT ![w] = "running"]
     ELSE worker' = [worker EXCEPT ![w] = "gone"] /\ UNCHANGED workerLock
  /\ UNCHANGED <<spawnLock, statusFile, stopFile, caller, asked>>

Beat(w) ==
  /\ worker[w] = "running" /\ ~stopFile
  /\ status' = w /\ fresh' = TRUE
  /\ UNCHANGED <<locks, stopFile, caller, worker, asked>>

GrowOld == fresh /\ fresh' = FALSE /\ UNCHANGED <<locks, status, stopFile, caller, worker, asked>>

Leave(w) ==
  /\ worker[w] = "running" /\ stopFile
  /\ worker' = [worker EXCEPT ![w] = "leaving"]
  /\ UNCHANGED <<locks, statusFile, stopFile, caller, asked>>

\* The selection, the journal or the session is no longer what it was.
WorkerFails(w) ==
  /\ worker[w] = "running"
  /\ worker' = [worker EXCEPT ![w] = "leaving"]
  /\ UNCHANGED <<locks, statusFile, stopFile, caller, asked>>

\* Its own status goes while it holds the lock; not when the journal changed.
RemoveStatus(w) ==
  /\ worker[w] = "leaving"
  /\ worker' = [worker EXCEPT ![w] = "left"]
  /\ \/ status' = NoOne /\ fresh' = FALSE
     \/ UNCHANGED statusFile
  /\ UNCHANGED <<locks, stopFile, caller, asked>>

Exit(w) ==
  /\ worker[w] = "left"
  /\ worker' = [worker EXCEPT ![w] = "gone"]
  /\ Freed(w)
  /\ UNCHANGED <<spawnLock, statusFile, stopFile, caller, asked>>

Die(w) ==
  /\ worker[w] \in {"starting", "running", "leaving", "left"}
  /\ worker' = [worker EXCEPT ![w] = "gone"]
  /\ Freed(w)
  /\ UNCHANGED <<spawnLock, statusFile, stopFile, caller, asked>>

CallerStep(c) ==
  \/ Look(c) \/ Satisfied(c) \/ Unsatisfied(c) \/ TakeSpawnLock(c) \/ SpawnLockTaken(c)
  \/ Claim(c) \/ Unclaim(c) \/ ClearStop(c) \/ ClearStatus(c) \/ Spawn(c)
  \/ Confirmed(c) \/ PollAgain(c) \/ NotConfirmed(c) \/ Ask(c) \/ Refuse(c)
  \/ \E call \in Calls : Begin(c, call)

Leaves(w) == Leave(w) \/ RemoveStatus(w) \/ Exit(w)

WorkerStep(w) == TakeWorkerLock(w) \/ Beat(w) \/ Leaves(w) \/ WorkerFails(w) \/ Die(w)

SupervisorNext ==
  \/ \E c \in Callers : CallerStep(c)
  \/ \E w \in Workers : WorkerStep(w)
  \/ GrowOld

\* A worker looks for the stop file twice a second, and every command it runs has a
\* deadline.
SupervisorFairness == \A w \in Workers : WF_supervisorVars(Leaves(w))

SupervisorSpec == SupervisorInit /\ [][SupervisorNext]_supervisorVars /\ SupervisorFairness

-----------------------------------------------------------------------------
\* A worker that is asked to stop stops: the next caller, who clears the stop file to
\* start another, does not take it from a worker that has not seen it
\* (src/runtime/engine/wsl/supervisor.rs:209).
StopIsObeyed == \A w \in Workers : w \in asked ~> worker[w] = "gone"

\* What it would have to see stays until then: whoever starts another worker clears the
\* file when none that was asked is left (src/runtime/engine/wsl/supervisor.rs:212).
StopIsKept == \A w \in asked : worker[w] = "running" => stopFile

=============================================================================
