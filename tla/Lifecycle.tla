----------------------------- MODULE Lifecycle -----------------------------
(***************************************************************************)
(* One managed app from install to uninstall: the registry entry, the      *)
(* project directory, the containers and volumes in Docker, and the        *)
(* operations of the launcher, the CLI and the recovery commands on them.  *)
(*                                                                         *)
(* The registry is the atomic map Registry implements; the operation lock  *)
(* is the one OperationLock implements.  Reads made under the lock are one *)
(* step with the first write after them.  Docker's side of a command takes *)
(* place when the command ends; a command whose caller died runs on alone. *)
(*                                                                         *)
(* A Compose file is told apart by the generated credential its text       *)
(* carries, and by the port it publishes.  Data, in the project directory  *)
(* or in a named volume, is told apart by the credential of the first run, *)
(* which initialised it.                                                   *)
(***************************************************************************)
EXTENDS FiniteSets

CONSTANTS Actors, NoActor,
          Kinds,        \* kinds of operations started
          Faults,       \* what may fail: "docker", "files", "registry", "crash"
          Creds,        \* generated credentials
          Missing,      \* no such file, or no data
          Plain,        \* the content of a file nothing depends on
          Ports,        \* ports of this machine
          Template,     \* is the app rendered from a plan, or else a recipe
          Volume,       \* does the app keep data in a named volume
          MultiService  \* does the app have more than one service

AllKinds == {"install", "reinstall", "start", "stop", "uninstall", "discard", "adopt",
             "connect", "remove"}

ASSUME LifecycleAssumption ==
  /\ NoActor \notin Actors
  /\ Kinds \subseteq AllKinds
  /\ Missing \notin Creds /\ Plain \notin Creds /\ Missing # Plain
  /\ Missing \notin Ports
  /\ Template \in BOOLEAN /\ Volume \in BOOLEAN /\ MultiService \in BOOLEAN

VARIABLES reg,         \* the app's entry: "none", "managed", "linked"
          dir,         \* does the project directory exist
          files,       \* its entries
          vol,         \* the named volume
          containers,  \* "none", "created" (stopped), "up"
          answers,     \* does the running app answer on its address
          address,     \* the ports the Compose file and the containers publish
          holder,      \* owner of the app's operation lock
          pc, op,      \* per actor: next step, operation under way
          report,      \* per actor: how its last operation ended
          orphan,      \* a Docker command whose caller died
          kept         \* history: the data belongs to an app that was saved

vars == <<reg, dir, files, vol, containers, answers, address, holder, pc, op, report, orphan, kept>>
disk == <<dir, files>>
docker == <<vol, containers, answers, address, orphan>>

Names == {"engine", "compose", "secrets", "temp", "data"}
Content == Creds \union {Missing, Plain}

Commands == {"up", "stop", "down", "downVolumes"}
NoRun == [command |-> "none", text |-> Missing]
Run == [command : Commands,
        text : Content, port : Ports \union {Missing},  \* of the Compose file it reads
        asked : BOOLEAN,  \* was its operation asked to delete the data
        kept : BOOLEAN    \* history: was there kept data when it was launched
       ] \union {NoRun}

\* An operation: what was asked, and what it has noted so far.
Operation ==
  [kind : AllKinds, delete : BOOLEAN,
   cancel : BOOLEAN,   \* its token
   found : BOOLEAN,    \* the app was saved and running when the lock was taken
   created : BOOLEAN,  \* the directory did not exist
   old : Content, oldPort : Ports \union {Missing},  \* the Compose file found
   text : Content, port : Ports \union {Missing},    \* the Compose file to write
   file : Names,       \* the file being written
   run : Run,          \* the Docker command under way
   phase : {"forward", "rollback", "restore", "undo"},
   end : {"ok", "failed", "cancelled"}]

Fresh(kind, delete) ==
  [kind |-> kind, delete |-> delete, cancel |-> FALSE, found |-> FALSE,
   created |-> FALSE, old |-> Missing, oldPort |-> Missing, text |-> Missing,
   port |-> Missing, file |-> "temp",
   run |-> NoRun, phase |-> "forward", end |-> "ok"]
NoOp == Fresh("stop", FALSE)

Installing == {"install", "reinstall"}
Steps == {"idle", "lock", "inspect", "preflight", "stage", "unlink", "rename",
          "erase", "up", "stop", "down", "running", "health", "commit", "wipe",
          "unregister", "remove"}

Reports == {"none", "ok", "failed", "cancelled", "rollback_failed"}

TypeOK ==
  /\ reg \in {"none", "managed", "linked"}
  /\ dir \in BOOLEAN
  /\ files \in [Names -> Content]
  /\ vol \in Content
  /\ containers \in {"none", "created", "up"}
  /\ answers \in BOOLEAN
  /\ address \in [{"compose", "containers"} -> Ports \union {Missing}]
  /\ holder \in Actors \union {NoActor}
  /\ pc \in [Actors -> Steps]
  /\ op \in [Actors -> Operation]
  /\ report \in [Actors -> Reports]
  /\ orphan \in Run
  /\ kept \in BOOLEAN

Init ==
  /\ reg = "none" /\ dir = FALSE
  /\ files = [n \in Names |-> Missing] /\ vol = Missing
  /\ containers = "none" /\ answers = FALSE
  /\ address = [w \in {"compose", "containers"} |-> Missing]
  /\ holder = NoActor
  /\ pc = [a \in Actors |-> "idle"]
  /\ op = [a \in Actors |-> NoOp]
  /\ report = [a \in Actors |-> "none"]
  /\ orphan = NoRun
  /\ kept = FALSE

Has(n) == files[n] # Missing

\* compose_command needs the Compose file, and the engine file it is bound to.
Operable == Has("compose") /\ Has("engine")

Goto(a, step) == pc' = [pc EXCEPT ![a] = step]

Continue(a, step, o) ==
  /\ Goto(a, step)
  /\ op' = [op EXCEPT ![a] = o]
  /\ UNCHANGED <<holder, report>>

\* The operation ends, and its guard is dropped.
End(a, how) ==
  /\ Goto(a, "idle")
  /\ op' = [op EXCEPT ![a] = NoOp]
  /\ report' = [report EXCEPT ![a] = how]
  /\ holder' = IF holder = a THEN NoActor ELSE holder

-----------------------------------------------------------------------------
\* Starting an operation.

Begin(a, kind, delete) ==
  /\ pc[a] = "idle" /\ kind \in Kinds
  /\ delete => kind \in {"uninstall", "discard"}
  /\ Continue(a, IF kind = "remove" THEN "remove" ELSE "lock", Fresh(kind, delete))
  /\ UNCHANGED <<reg, disk, docker, kept>>

\* The registry is read before the lock is taken: an install of the launcher
\* refuses a saved app (the CLI's, "reinstall", does not look), and start, stop,
\* uninstall and remove act on the entry find_app finds.
BeginOperation(a, kind, delete) ==
  /\ kind = "install" => reg = "none"
  /\ kind \in {"start", "stop", "uninstall"} => reg = "managed"
  /\ kind = "remove" => reg = "linked"
  /\ Begin(a, kind, delete)

\* A connection to an address takes the app's id if it is free.
Connect ==
  /\ "connect" \in Kinds
  /\ reg = "none"
  /\ reg' = "linked"
  /\ UNCHANGED <<disk, docker, holder, pc, op, report, kept>>

\* remove_installed_app: removes the entry of that id, whatever it is by now.
Remove(a) ==
  /\ pc[a] = "remove"
  /\ reg' = "none"
  /\ End(a, IF reg = "none" THEN "failed" ELSE "ok")
  /\ UNCHANGED <<disk, docker, kept>>

FirstStep(kind) ==
  CASE kind \in Installing -> "preflight"
    [] kind \in {"discard", "adopt"} -> "inspect"
    [] kind = "uninstall" -> "down"
    [] kind = "stop" -> "stop"
    [] kind = "start" -> "up"

Enter(a) ==
  /\ holder' = a
  /\ Goto(a, FirstStep(op[a].kind))
  /\ op' = [op EXCEPT ![a].found = reg = "managed" /\ containers = "up"]
  /\ UNCHANGED <<reg, disk, docker, report, kept>>

\* Faulty: the lock is taken whoever holds it.
LockAnyway(a) == pc[a] = "lock" /\ Enter(a)

Lock(a) == pc[a] = "lock" /\ holder = NoActor /\ Enter(a)

\* OperationBusy.
Busy(a) ==
  /\ pc[a] = "lock" /\ holder # NoActor
  /\ End(a, "failed")
  /\ UNCHANGED <<reg, disk, docker, kept>>

\* cancel_app_setup, aimed at this operation: an install of the launcher.
Cancel(a) ==
  /\ op[a].kind = "install" /\ holder = a /\ ~op[a].cancel
  /\ op' = [op EXCEPT ![a].cancel = TRUE]
  /\ UNCHANGED <<reg, disk, docker, holder, pc, report, kept>>

-----------------------------------------------------------------------------
\* Installing: install_template_with and install_source_with.

\* Faulty: a template's install chooses its port anew.
OfferedAnew == Ports

\* A template's install goes on with the port of the Compose file that is there, and
\* takes any free one otherwise; a recipe's is published where the person says, or
\* where the recipe says by now.
Offered == IF Template /\ Has("compose") THEN {address["compose"]} ELSE Ports

\* Faulty: every install generates its secrets.
GeneratedAnew == IF Template THEN Creds ELSE {Plain}

\* Secrets an earlier install left are used again.  A recipe has none.
Generated == IF ~Template THEN {Plain}
             ELSE IF Has("secrets") THEN {files["secrets"]} ELSE Creds

Prepare(a, port) ==
  /\ \E c \in Generated :
       Continue(a, "stage", [op[a] EXCEPT !.created = ~dir, !.file = "engine",
                               !.old = files["compose"], !.oldPort = address["compose"],
                               !.text = c, !.port = port])
  /\ dir' = TRUE
  /\ UNCHANGED <<reg, files, docker, kept>>

\* An engine binding that is missing, and files the app does not account for,
\* are refused.
Reusable == (Has("compose") => Has("engine")) /\ ~Has("temp")

\* Does nobody answer on the port.  Of the programs that might, the app is one.
IsFree(port) == ~(containers = "up" /\ address["containers"] = port)

\* A port in use is refused: only the one this install would publish is looked at.
Preflight(a) ==
  /\ pc[a] = "preflight" /\ ~op[a].cancel
  /\ Reusable
  /\ \E port \in Offered : IsFree(port) /\ Prepare(a, port)

\* Any check fails, or the token is set: nothing has been written.
Refuse(a) ==
  /\ pc[a] = "preflight"
  /\ End(a, IF op[a].cancel THEN "cancelled" ELSE "failed")
  /\ UNCHANGED <<reg, disk, docker, kept>>

\* The engine binding, the Compose file and the secrets are written in this
\* order, each by write_file_atomically: a temporary file, the old file
\* removed, the new one renamed.  A saved binding is left as it is.
Stage(a) ==
  /\ pc[a] = "stage"
  /\ \/ /\ op[a].file = "engine" /\ Has("engine")
        /\ Continue(a, "stage", [op[a] EXCEPT !.file = "compose"])
        /\ UNCHANGED files
     \/ /\ op[a].file = "engine" => ~Has("engine")
        /\ Continue(a, "unlink", op[a])
        /\ files' = [files EXCEPT !["temp"] = Plain]
  /\ UNCHANGED <<reg, dir, docker, kept>>

Unlink(a) ==
  /\ pc[a] = "unlink"
  /\ files' = [files EXCEPT ![op[a].file] = Missing]
  /\ Goto(a, "rename")
  /\ UNCHANGED <<reg, dir, docker, holder, op, report, kept>>

Written(o) == IF o.file = "engine" THEN Plain ELSE o.text

\* What comes after the renaming of a file.
AfterRename(a) ==
  CASE op[a].phase = "restore" -> End(a, op[a].end)
    [] op[a].phase # "restore" /\ op[a].file = "engine" ->
         Continue(a, "stage", [op[a] EXCEPT !.file = "compose"])
    [] op[a].phase # "restore" /\ op[a].file = "compose" /\ Template ->
         Continue(a, "stage", [op[a] EXCEPT !.file = "secrets"])
    [] OTHER -> Continue(a, "up", op[a])

Rename(a) ==
  /\ pc[a] = "rename"
  /\ files' = [files EXCEPT ![op[a].file] = Written(op[a]), !["temp"] = Missing]
  /\ address' = IF op[a].file = "compose" THEN [address EXCEPT !["compose"] = op[a].port]
                ELSE address
  /\ AfterRename(a)
  /\ UNCHANGED <<reg, dir, vol, containers, answers, orphan, kept>>

RollBack(a, how) == Continue(a, "down", [op[a] EXCEPT !.phase = "rollback", !.end = how])

\* A rollback that finds no Compose file to restore removes the new one.
Erase(a) ==
  /\ pc[a] = "erase"
  /\ files' = [files EXCEPT !["compose"] = Missing]
  /\ End(a, op[a].end)
  /\ UNCHANGED <<reg, dir, docker, kept>>

\* A failed write removes its temporary file, and maybe has removed the old one.
WriteFails(a) ==
  /\ "files" \in Faults
  /\ pc[a] \in {"stage", "unlink", "rename", "erase"}
  /\ files' = [files EXCEPT !["temp"] = Missing]
  /\ IF op[a].phase = "forward" THEN RollBack(a, "failed") ELSE End(a, "rollback_failed")
  /\ UNCHANGED <<reg, dir, docker, kept>>

-----------------------------------------------------------------------------
\* Docker commands.

\* Faulty: a failed commit removes the volumes whoever made them.
RemovesAll(o) == o.phase = "undo" \/ (o.phase = "forward" /\ o.delete)

\* Only the rollback of an install whose commit failed, and an operation asked
\* to delete the data, remove volumes.
Removes(o) == IF o.phase = "undo" THEN o.created ELSE o.phase = "forward" /\ o.delete

RunOf(a) == [command |-> IF pc[a] = "down" /\ Removes(op[a]) THEN "downVolumes" ELSE pc[a],
             text |-> files["compose"], port |-> address["compose"],
             asked |-> op[a].delete, kept |-> kept]

\* The token of an install is looked at before `up`.
Stopped(a) == pc[a] = "up" /\ op[a].cancel

Launch(a) ==
  /\ pc[a] \in {"up", "stop", "down"}
  /\ Operable /\ ~Stopped(a)
  /\ Continue(a, "running", [op[a] EXCEPT !.run = RunOf(a)])
  /\ UNCHANGED <<reg, disk, docker, kept>>

\* Faulty: the files go although the containers did not.
FailAndWipe(a, how) ==
  CASE op[a].kind \in Installing /\ op[a].phase = "forward" -> RollBack(a, how)
    [] op[a].kind \in Installing /\ op[a].phase # "forward" /\ op[a].created ->
         Continue(a, "wipe", op[a])
    [] OTHER -> End(a, how)

\* A command that failed, or was never launched.
Fail(a, how) ==
  CASE op[a].kind \in Installing /\ op[a].phase = "forward" -> RollBack(a, how)
    [] op[a].kind \in Installing /\ op[a].phase # "forward" -> End(a, "rollback_failed")
    [] OTHER -> End(a, how)

Unlaunched(a) ==
  /\ pc[a] \in {"up", "stop", "down"}
  /\ ~Operable \/ Stopped(a)
  /\ Fail(a, IF Stopped(a) THEN "cancelled" ELSE "failed")
  /\ UNCHANGED <<reg, disk, docker, kept>>

Filled(d, c) == IF d = Missing THEN c ELSE d

\* Starting initialises data that is not there yet, and the bind mounts with it.
Starts(text) ==
  /\ dir' = TRUE
  /\ files' = [files EXCEPT !["data"] = Filled(@, text)]
  /\ vol' = IF Volume THEN Filled(vol, text) ELSE vol

Effect(r) ==
  \/ /\ r.command = "up"
     /\ Starts(r.text)
     /\ containers' = "up" /\ address' = [address EXCEPT !["containers"] = r.port]
     /\ answers' \in BOOLEAN
     /\ UNCHANGED kept
  \/ /\ r.command = "stop"
     /\ containers' = IF containers = "up" THEN "created" ELSE containers
     /\ answers' = FALSE
     /\ UNCHANGED <<disk, vol, address, kept>>
  \/ /\ r.command \in {"down", "downVolumes"}
     /\ containers' = "none" /\ answers' = FALSE
     /\ vol' = IF r.command = "downVolumes" THEN Missing ELSE vol
     /\ kept' = (kept /\ r.command = "down")
     /\ address' = [address EXCEPT !["containers"] = Missing]
     /\ UNCHANGED disk

\* `up` makes the containers that are not there, and those whose port changed anew.
Recreates(r) == r.command = "up" /\ (containers = "none" \/ address["containers"] # r.port)

\* What a command that did not finish may leave: all of its effect, nothing,
\* or containers that were created and not started.
Partial(r) ==
  \/ Effect(r)
  \/ UNCHANGED <<disk, vol, containers, answers, address, kept>>
  \/ /\ Recreates(r)
     /\ containers' = "created" /\ answers' = FALSE
     /\ UNCHANGED <<disk, vol, address, kept>>

\* Faulty: the Compose file that was there is not put back.
EraseCompose(a) ==
  IF op[a].created THEN Continue(a, "wipe", op[a]) ELSE Continue(a, "erase", op[a])

\* The rest of a rollback whose containers are gone.
RestoreFiles(a) ==
  CASE op[a].created -> Continue(a, "wipe", op[a])
    [] ~op[a].created /\ op[a].old # Missing ->
         Continue(a, "stage", [op[a] EXCEPT !.phase = "restore", !.file = "compose",
                                            !.text = op[a].old, !.port = op[a].oldPort])
    [] OTHER -> Continue(a, "erase", op[a])

\* Where an operation goes on after a command that succeeded.
Succeed(a) ==
  LET o == op[a] IN
  CASE o.kind \in Installing /\ o.phase = "forward" -> Continue(a, "health", o)
    [] o.kind = "adopt" -> Continue(a, "health", o)
    [] o.kind \in Installing /\ o.phase = "rollback" -> RestoreFiles(a)
    [] o.kind \in Installing /\ o.phase = "undo" ->
         IF o.created THEN Continue(a, "wipe", o) ELSE End(a, o.end)
    [] o.kind \in {"uninstall", "discard"} /\ o.delete -> Continue(a, "wipe", o)
    [] o.kind = "uninstall" /\ ~o.delete -> Continue(a, "unregister", o)
    [] OTHER -> End(a, "ok")

Done(a) ==
  /\ pc[a] = "running"
  /\ Effect(op[a].run)
  /\ Succeed(a)
  /\ UNCHANGED <<reg, orphan>>

\* The command fails, or passes its deadline and is killed.
DockerFails(a) ==
  /\ "docker" \in Faults
  /\ pc[a] = "running"
  /\ Partial(op[a].run)
  /\ Fail(a, "failed")
  /\ UNCHANGED <<reg, orphan>>

\* A cancelled install kills its command; the rollback runs on a token of its own.
Kill(a) ==
  /\ pc[a] = "running" /\ op[a].cancel /\ op[a].phase = "forward"
  /\ Partial(op[a].run)
  /\ RollBack(a, "cancelled")
  /\ UNCHANGED <<reg, orphan>>

-----------------------------------------------------------------------------
\* After the commands.

\* What is left of an install that was not saved: a Compose file whose engine is known.
Candidate == reg = "none" /\ Operable

\* No container of it is not the app's own.  A container is taken for its own when its
\* service is named as the app, which of several services one is at most.
Verified == containers = "none" \/ ~MultiService

\* discard takes the containers away; adopt brings up what the interruption left down.
ClearAway(a) == Continue(a, "down", op[a])
Resume(a) == Continue(a, "up", op[a])

\* Both look again, under the lock.
Inspect(a) ==
  /\ pc[a] = "inspect"
  /\ Candidate /\ Verified
  /\ IF op[a].kind = "adopt" THEN Resume(a) ELSE ClearAway(a)
  /\ UNCHANGED <<reg, disk, docker, kept>>

NotInspected(a) ==
  /\ pc[a] = "inspect"
  /\ ~Candidate \/ ~Verified
  /\ End(a, "failed")
  /\ UNCHANGED <<reg, disk, docker, kept>>

\* Faulty: the first poll counts as an answer.
HealthyAtOnce(a) ==
  /\ pc[a] = "health"
  /\ Continue(a, "commit", op[a])
  /\ UNCHANGED <<reg, disk, docker, kept>>

Healthy(a) ==
  /\ pc[a] = "health"
  /\ containers = "up" /\ answers
  /\ Continue(a, "commit", op[a])
  /\ UNCHANGED <<reg, disk, docker, kept>>

\* Faulty: only a cancel request ends the wait.
NoDeadline(a) ==
  /\ pc[a] = "health" /\ op[a].cancel
  /\ RollBack(a, "cancelled")
  /\ UNCHANGED <<reg, disk, docker, kept>>

\* The deadline passes, or the token is set.  An adoption leaves the containers.
Unhealthy(a) ==
  /\ pc[a] = "health"
  /\ IF op[a].kind = "adopt" THEN End(a, "failed")
     ELSE RollBack(a, IF op[a].cancel THEN "cancelled" ELSE "failed")
  /\ UNCHANGED <<reg, disk, docker, kept>>

\* PendingInstall::commit: the token is not looked at any more.
Commit(a) ==
  /\ pc[a] = "commit" /\ reg = "none"
  /\ reg' = "managed" /\ kept' = TRUE
  /\ End(a, "ok")
  /\ UNCHANGED <<disk, docker>>

\* Faulty: the containers of an app that could not be saved are left.
CommitFailsQuietly(a) ==
  /\ pc[a] = "commit"
  /\ reg # "none" \/ "registry" \in Faults
  /\ End(a, "failed")
  /\ UNCHANGED <<reg, disk, docker, kept>>

CommitFails(a) ==
  /\ pc[a] = "commit"
  /\ reg # "none" \/ "registry" \in Faults
  /\ IF op[a].kind = "adopt" THEN End(a, "failed")
     ELSE Continue(a, "down", [op[a] EXCEPT !.phase = "undo", !.end = "failed"])
  /\ UNCHANGED <<reg, disk, docker, kept>>

AfterWipe(a) ==
  CASE op[a].kind = "uninstall" -> Continue(a, "unregister", op[a])
    [] op[a].kind = "discard" -> End(a, "ok")
    [] OTHER -> End(a, op[a].end)

\* remove_dir_all: the entries one by one, in any order, and the directory.
Wipe(a) ==
  /\ pc[a] = "wipe"
  /\ \/ \E n \in Names : /\ Has(n)
                         /\ files' = [files EXCEPT ![n] = Missing]
                         /\ kept' = (kept /\ n # "data")
        /\ UNCHANGED <<dir, pc, op, report, holder>>
     \/ /\ \A n \in Names : ~Has(n)
        /\ dir' = FALSE
        /\ AfterWipe(a)
        /\ UNCHANGED <<files, kept>>
  /\ UNCHANGED <<reg, docker>>

WipeFails(a) ==
  /\ "files" \in Faults
  /\ pc[a] = "wipe"
  /\ End(a, IF op[a].kind \in Installing THEN "rollback_failed" ELSE "failed")
  /\ UNCHANGED <<reg, disk, docker, kept>>

Unregister(a) ==
  /\ pc[a] = "unregister" /\ reg # "none"
  /\ reg' = "none"
  /\ End(a, "ok")
  /\ UNCHANGED <<disk, docker, kept>>

UnregisterFails(a) ==
  /\ pc[a] = "unregister"
  /\ reg = "none" \/ "registry" \in Faults
  /\ End(a, "failed")
  /\ UNCHANGED <<reg, disk, docker, kept>>

-----------------------------------------------------------------------------
\* The process dies.  Its locks are freed; the command it had launched, in a
\* process group of its own, is not stopped.
Crash(a) ==
  /\ "crash" \in Faults
  /\ pc[a] # "idle"
  /\ pc[a] = "running" => orphan = NoRun
  /\ orphan' = IF pc[a] = "running" THEN op[a].run ELSE orphan
  /\ End(a, "none")
  /\ UNCHANGED <<reg, disk, vol, containers, answers, address, kept>>

OrphanEnds ==
  /\ orphan # NoRun
  /\ Partial(orphan)
  /\ orphan' = NoRun
  /\ UNCHANGED <<reg, holder, pc, op, report>>

\* A step of the thread that runs the operation.
Step(a) ==
  \/ Remove(a) \/ Lock(a) \/ Busy(a) \/ Preflight(a) \/ Refuse(a)
  \/ Stage(a) \/ Unlink(a) \/ Rename(a) \/ Erase(a) \/ WriteFails(a)
  \/ Launch(a) \/ Unlaunched(a) \/ Done(a) \/ DockerFails(a) \/ Kill(a)
  \/ Inspect(a) \/ NotInspected(a) \/ Healthy(a) \/ Unhealthy(a)
  \/ Commit(a) \/ CommitFails(a) \/ Wipe(a) \/ WipeFails(a)
  \/ Unregister(a) \/ UnregisterFails(a)

Next ==
  \/ \E a \in Actors, kind \in Kinds \ {"connect"}, delete \in BOOLEAN :
       BeginOperation(a, kind, delete)
  \/ \E a \in Actors : Step(a) \/ Cancel(a) \/ Crash(a)
  \/ Connect \/ OrphanEnds

Spec == Init /\ [][Next]_vars

\* A thread goes on: its commands and waits have deadlines.
LiveSpec == Spec /\ \A a \in Actors : WF_vars(Step(a))

-----------------------------------------------------------------------------
\* From its first look under the lock to its last step, also of a rollback, an
\* operation holds the lock of the app: "nothing else can act on the app in the
\* window between the install finishing and the commit landing"
\* (src/runtime/mod.rs:1278).
HolderWorks ==
  \A a \in Actors : pc[a] \notin {"idle", "lock", "remove"} => holder = a

\* Data of an app that was saved is removed only by an operation that was asked to
\* delete it, also by the command such an operation had launched when its process
\* died: a rollback "never deletes data that predates the install"
\* (src/runtime/mod.rs:1301).  What this does not promise: a command the undo of an
\* install left behind, launched when nothing was kept yet, does not know of an app
\* saved since.
KeptDataSurvives ==
  [][kept /\ ((files["data"] # Missing /\ files'["data"] = Missing)
              \/ (vol # Missing /\ vol' = Missing))
       => \/ \E a \in Actors : holder = a /\ op[a].delete
          \/ orphan.command = "downVolumes" /\ (orphan.asked \/ ~orphan.kept)]_vars

\* What leaves a running app alone.  A recipe's install may be for another port than
\* the one the app runs on, and then passes its checks.
Harmless == {"discard", "adopt"} \union IF Template THEN Installing ELSE {}

\* Discarding or adopting an app that is saved and runs, or installing it from its
\* plan, stops at its checks: the app goes on running on its files.  The port its Compose
\* file has "is reused even when the port is busy" and found in use: "starting a second
\* one beside it is worse than reporting the conflict" (src/runtime/mod.rs:768).
RunningAppUntouched ==
  \A a \in Actors :
    op[a].found /\ reg = "managed" /\ op[a].kind \in Harmless
      => containers = "up" /\ pc[a] \in {"preflight", "inspect"}

\* What runs without an entry can be taken back: discard and adopt find its files.
UnsavedRunsAreRecoverable ==
  holder = NoActor /\ reg = "none" /\ containers = "up" => Candidate /\ Verified

\* An app is saved when it runs and has answered, and not before.
SavedWhenReady ==
  [][reg # "managed" /\ reg' = "managed" => containers = "up" /\ answers]_vars

\* An install that reports a failure, and not a failed rollback, has undone what
\* it did: no containers, no directory if it made it, else the Compose file there
\* was.
FailureIsUndone ==
  [][\A a \in Actors :
       /\ holder = a /\ op[a].kind \in Installing /\ pc[a] # "preflight"
       /\ holder' # a /\ report'[a] \in {"failed", "cancelled"}
       => /\ containers' = "none"
          /\ op[a].created => ~dir'
          /\ ~op[a].created /\ op[a].phase # "undo" => files'["compose"] = op[a].old]_vars

\* No operation under way: a saved app can be operated on, and what an app that
\* is not saved has left in its directory can be installed onto or discarded.
NeverStuck ==
  holder = NoActor => CASE reg = "managed" -> Operable
                        [] reg = "none" /\ dir -> Reusable \/ Operable
                        [] OTHER -> TRUE

\* The Compose file an app is left with carries the credential its data was
\* initialised with: another "would leave the app unable to open the data"
\* (src/runtime/mod.rs:740).
CredentialsOpenData ==
  holder = NoActor /\ Has("compose")
    => {files["data"], vol} \subseteq {Missing, files["compose"]}

\* Every operation ends.
OperationEnds == \A a \in Actors : pc[a] # "idle" ~> pc[a] = "idle"

\* Before an operation has the lock, or without one.
Waiting == {"idle", "lock", "remove"}

\* The app's entry is one of the registry's and its lock one of the program's: they
\* change as those promise, so that Registry and OperationLock stand beneath this module.
AppId == "app"
Registered == INSTANCE RegistryStore WITH
  AppIds <- {AppId}, Records <- {"managed", "linked"}, Absent <- "none",
  Start <- [id \in {AppId} |-> "none"], apps <- [id \in {AppId} |-> reg]
Locked == INSTANCE AppLocks WITH
  Apps <- {AppId}, Procs <- Actors, Threads <- Actors, NoThread <- NoActor,
  ProcOf <- [a \in Actors |-> a],
  owner <- [id \in {AppId} |-> holder],
  work <- [a \in Actors |-> IF pc[a] \in Waiting THEN {} ELSE {AppId}]
UsesRegistry == Registered!Spec
UsesLock == Locked!Spec

\* Inductive: why nothing that is kept is removed.  A directory an install made
\* held nothing to keep; volumes are removed for an operation that was asked to or
\* for an install that made them; an app is saved with its directory.
\* Of an operation o before step s, with k for kept and d for dir.
Keeps(s, o, k, d) ==
  /\ o.kind \in Installing /\ o.created => ~k
  /\ s = "wipe" => ~k
  /\ s = "running" /\ o.run.command = "downVolumes"
       => (k => o.delete) /\ (o.run.asked \/ ~o.run.kept)
  /\ o.kind \in Installing /\ s \notin Waiting \union {"preflight"} => d
  /\ s \in {"health", "commit"} => d

\* Which operations are before which steps.
Shape(s, o) ==
  /\ o.file # "data"
  /\ s \in Waiting \union {"preflight", "inspect"} => ~o.created /\ o.phase = "forward"
  /\ o.phase # "forward" \/ o.cancel => o.kind \in Installing
  /\ s \in {"preflight", "stage", "unlink", "rename", "erase"}
       => o.kind \in Installing
  /\ s = "inspect" => o.kind \in {"discard", "adopt"}
  /\ s \in {"health", "commit"} => o.kind \in Installing \union {"adopt"}
  /\ o.kind \in {"connect", "remove"} => s = "remove"
  /\ o.kind \in {"uninstall", "discard"}
       => /\ s \notin {"up", "stop"}
          /\ s = "running" => o.run.command = IF o.delete THEN "downVolumes" ELSE "down"
  /\ o.kind = "adopt" => /\ s \notin {"stop", "down"}
                         /\ s = "running" => o.run.command = "up"
  /\ o.kind = "stop" => /\ s \notin {"up", "down"}
                        /\ s = "running" => o.run.command = "stop"

KeptInv ==
  /\ HolderWorks
  /\ kept => dir
  /\ \A n \in Names : Has(n) => dir
  /\ \A a \in Actors : Shape(pc[a], op[a]) /\ Keeps(pc[a], op[a], kept, dir)

OrphanInv == orphan.command = "downVolumes" => orphan.asked \/ ~orphan.kept

=============================================================================
