--------------------------- MODULE LifecycleProofs ---------------------------
(***************************************************************************)
(* Proofs about Lifecycle, for any number of actors, any set of operations,*)
(* faults and credentials; and, in the second half, about what an          *)
(* operation leaves behind: for runs without crashes, where a Docker       *)
(* command ends before its caller does, and at the end for runs in which   *)
(* Docker and the registry fail, and no other file does.                   *)
(***************************************************************************)
EXTENDS Lifecycle, TLAPS

\* The variables of the app, and those of the actors.
AppOK ==
  /\ reg \in {"none", "managed", "linked"}
  /\ dir \in BOOLEAN
  /\ files \in [Names -> Content]
  /\ vol \in Content
  /\ containers \in {"none", "created", "up"}
  /\ answers \in BOOLEAN
  /\ address \in [{"compose", "containers"} -> Ports \union {Missing}]
  /\ orphan \in Run
  /\ kept \in BOOLEAN

ActorsOK ==
  /\ holder \in Actors \union {NoActor}
  /\ pc \in [Actors -> Steps]
  /\ op \in [Actors -> Operation]
  /\ report \in [Actors -> Reports]

\* Going on with a well-formed operation keeps the types of the actors.
LEMMA ContinueTypes ==
  ASSUME ActorsOK, NEW a \in Actors, NEW step \in Steps, NEW o \in Operation,
         Continue(a, step, o)
  PROVE  ActorsOK'
  BY DEF ActorsOK, Continue, Goto

\* A new operation is well formed.
LEMMA FreshTypes ==
  ASSUME NEW kind \in AllKinds, NEW delete \in BOOLEAN
  PROVE  Fresh(kind, delete) \in Operation
  BY DEF Fresh, Operation, NoRun, Run, Content, Names

\* Ending an operation keeps the types of the actors.
LEMMA EndTypes ==
  ASSUME ActorsOK, NEW a \in Actors, NEW how \in Reports, End(a, how)
  PROVE  ActorsOK'
<1>1. NoOp \in Operation
  BY FreshTypes DEF NoOp, AllKinds
<1> QED
  BY <1>1 DEF ActorsOK, End, Goto, Steps

\* Rolling back does too.
LEMMA RollBackTypes ==
  ASSUME ActorsOK, NEW a \in Actors, NEW how \in {"failed", "cancelled"}, RollBack(a, how)
  PROVE  ActorsOK'
<1>0. op[a] \in Operation
  BY DEF ActorsOK
<1>1. [op[a] EXCEPT !.phase = "rollback", !.end = how] \in Operation
  BY <1>0 DEF Operation
<1>2. "down" \in Steps
  BY DEF Steps
<1> QED
  BY <1>1, <1>2, ContinueTypes DEF RollBack

\* So does a command that failed.
LEMMA FailTypes ==
  ASSUME ActorsOK, NEW a \in Actors, NEW how \in {"failed", "cancelled"}, Fail(a, how)
  PROVE  ActorsOK'
<1>1. CASE op[a].kind \in Installing /\ op[a].phase = "forward"
  BY <1>1, RollBackTypes DEF Fail
<1>2. CASE op[a].kind \in Installing /\ op[a].phase # "forward"
  BY <1>2, EndTypes DEF Fail, Reports
<1>3. CASE op[a].kind \notin Installing
  BY <1>3, EndTypes DEF Fail, Reports
<1> QED
  BY <1>1, <1>2, <1>3

\* The effect of a command, whole or in part, keeps the types of the app.
LEMMA PartialTypes ==
  ASSUME AppOK, NEW r \in Run, Partial(r), UNCHANGED reg, orphan' \in Run
  PROVE  AppOK'
<1>1. CASE UNCHANGED <<disk, vol, containers, answers, address, kept>>
  BY <1>1 DEF AppOK, disk
<1>2. CASE containers' = "created" /\ answers' = FALSE /\ UNCHANGED <<disk, vol, address, kept>>
  BY <1>2 DEF AppOK, disk
<1>3. CASE Effect(r)
  <2>1. CASE /\ r.command = "up" /\ Starts(r.text) /\ containers' = "up" /\ answers' \in BOOLEAN
             /\ address' = [address EXCEPT !["containers"] = r.port] /\ UNCHANGED kept
    <3>1. r.text \in Content /\ r.port \in Ports \union {Missing}
      BY <2>1 DEF Run, NoRun, Content
    <3>2. address' \in [{"compose", "containers"} -> Ports \union {Missing}]
      BY <2>1, <3>1 DEF AppOK
    <3> QED
      BY <2>1, <3>1, <3>2 DEF AppOK, Starts, Filled, Names
  <2>2. CASE /\ containers' = IF containers = "up" THEN "created" ELSE containers
             /\ answers' = FALSE
             /\ UNCHANGED <<disk, vol, address, kept>>
    BY <2>2 DEF AppOK, disk
  <2>3. CASE /\ containers' = "none" /\ answers' = FALSE
             /\ vol' = IF r.command = "downVolumes" THEN Missing ELSE vol
             /\ kept' = (kept /\ r.command = "down")
             /\ address' = [address EXCEPT !["containers"] = Missing]
             /\ UNCHANGED disk
    <3>1. address' \in [{"compose", "containers"} -> Ports \union {Missing}]
      BY <2>3 DEF AppOK
    <3> QED
      BY <2>3, <3>1 DEF AppOK, disk, Content
  <2> QED
    BY <1>3, <2>1, <2>2, <2>3 DEF Effect
<1> QED
  BY <1>1, <1>2, <1>3 DEF Partial

\* What an install settles at its checks.
Settles(a, c, port) ==
  [op[a] EXCEPT !.created = ~dir, !.file = "engine", !.old = files["compose"],
                !.oldPort = address["compose"], !.text = c, !.port = port]

LEMMA PreflightSettles ==
  ASSUME TypeOK, NEW a \in Actors, Preflight(a)
  PROVE  \E c \in Generated, port \in Offered :
           /\ IsFree(port) /\ Settles(a, c, port) \in Operation
           /\ Continue(a, "stage", Settles(a, c, port))
<1>1. PICK c \in Generated, port \in Offered :
        /\ IsFree(port) /\ Continue(a, "stage", Settles(a, c, port))
  BY DEF Preflight, Prepare, Settles
<1>2. c \in Content /\ port \in Ports \union {Missing}
  BY DEF Generated, Offered, Has, TypeOK, Names, Content
<1>3. op[a] \in Operation
  BY DEF TypeOK
<1>4. files["compose"] \in Content /\ address["compose"] \in Ports \union {Missing}
  BY DEF TypeOK, Names
<1>5. Settles(a, c, port) \in Operation
  BY <1>2, <1>3, <1>4 DEF Settles, Operation, Names, TypeOK
<1> QED
  BY <1>1, <1>5

LEMMA TypeParts == TypeOK <=> AppOK /\ ActorsOK
  BY DEF TypeOK, AppOK, ActorsOK

LEMMA TypePartsNext == TypeOK' <=> AppOK' /\ ActorsOK'
  BY DEF TypeOK, AppOK, ActorsOK

\* The steps of an install up to `up`, and of its rollback's writes.
LEMMA InstallTypes ==
  ASSUME TypeOK, NEW a \in Actors,
         Preflight(a) \/ Refuse(a) \/ Stage(a) \/ Unlink(a) \/ Rename(a) \/ Erase(a)
           \/ WriteFails(a)
  PROVE  TypeOK'
<1> USE TypeParts, TypePartsNext
<1>0. /\ op[a] \in Operation /\ op[a].end \in {"ok", "failed", "cancelled"}
      /\ op[a].file \in Names /\ op[a].text \in Content
      /\ op[a].port \in Ports \union {Missing}
  BY DEF ActorsOK, Operation
<1>1. CASE Preflight(a)
  <2>1. \E o \in Operation : Continue(a, "stage", o)
    BY <1>1, PreflightSettles
  <2>3. ActorsOK'
    BY <2>1, ContinueTypes DEF Steps
  <2>4. AppOK'
    BY <1>1 DEF Preflight, Prepare, AppOK, docker
  <2> QED
    BY <2>3, <2>4
<1>2. CASE Refuse(a)
  <2>1. ActorsOK'
    BY <1>2, EndTypes DEF Refuse, Reports
  <2>2. AppOK'
    BY <1>2 DEF Refuse, AppOK, docker, disk
  <2> QED
    BY <2>1, <2>2
<1>3. CASE Stage(a)
  <2>1. [op[a] EXCEPT !.file = "compose"] \in Operation
    BY <1>0 DEF Operation, Names
  <2>2. ActorsOK'
    BY <1>0, <1>3, <2>1, ContinueTypes DEF Stage, Steps
  <2>3. AppOK'
    BY <1>3 DEF Stage, AppOK, docker, Names, Content
  <2> QED
    BY <2>2, <2>3
<1>4. CASE Unlink(a)
  <2>1. AppOK'
    BY <1>0, <1>4 DEF Unlink, AppOK, docker, Content
  <2>2. ActorsOK'
    BY <1>4 DEF Unlink, ActorsOK, Goto, Steps
  <2> QED
    BY <2>1, <2>2
<1>5. CASE Rename(a)
  <2>1. Written(op[a]) \in Content
    BY <1>0 DEF Written, Content
  <2>2. AppOK'
    <3>1. address' \in [{"compose", "containers"} -> Ports \union {Missing}]
      BY <1>0, <1>5 DEF Rename, AppOK
    <3> QED
      BY <1>0, <1>5, <2>1, <3>1 DEF Rename, AppOK, Names, Content
  <2>3. /\ [op[a] EXCEPT !.file = "compose"] \in Operation
        /\ [op[a] EXCEPT !.file = "secrets"] \in Operation
    BY <1>0 DEF Operation, Names
  <2>4. \/ End(a, op[a].end)
        \/ Continue(a, "stage", [op[a] EXCEPT !.file = "compose"])
        \/ Continue(a, "stage", [op[a] EXCEPT !.file = "secrets"])
        \/ Continue(a, "up", op[a])
    BY <1>5 DEF Rename, AfterRename
  <2>5. op[a].end \in Reports /\ "stage" \in Steps /\ "up" \in Steps
    BY <1>0 DEF Reports, Steps
  <2>6. ActorsOK'
    BY <1>0, <2>3, <2>4, <2>5, EndTypes, ContinueTypes
  <2> QED
    BY <2>2, <2>6
<1>6. CASE Erase(a)
  <2>1. AppOK'
    BY <1>6 DEF Erase, AppOK, docker, Names, Content
  <2>2. ActorsOK'
    BY <1>0, <1>6, EndTypes DEF Erase, Reports
  <2> QED
    BY <2>1, <2>2
<1>7. CASE WriteFails(a)
  <2>1. AppOK'
    BY <1>7 DEF WriteFails, AppOK, docker, Names, Content
  <2>2. ActorsOK'
    BY <1>7, EndTypes, RollBackTypes DEF WriteFails, Reports
  <2> QED
    BY <2>1, <2>2
<1> QED
  BY <1>1, <1>2, <1>3, <1>4, <1>5, <1>6, <1>7

\* The steps of a Docker command.
LEMMA CommandTypes ==
  ASSUME TypeOK, NEW a \in Actors,
         Launch(a) \/ Unlaunched(a) \/ Done(a) \/ DockerFails(a) \/ Kill(a)
  PROVE  TypeOK'
<1> USE TypeParts, TypePartsNext
<1>0. /\ op[a] \in Operation /\ op[a].end \in {"ok", "failed", "cancelled"}
      /\ op[a].run \in Run /\ op[a].old \in Content /\ op[a].oldPort \in Ports \union {Missing}
      /\ op[a].delete \in BOOLEAN
  BY DEF ActorsOK, Operation
<1>1. CASE Launch(a)
  <2>1. RunOf(a) \in Run
    <3>1. /\ files["compose"] \in Content /\ address["compose"] \in Ports \union {Missing}
          /\ kept \in BOOLEAN
      BY DEF AppOK, Names
    <3>2. (IF pc[a] = "down" /\ Removes(op[a]) THEN "downVolumes" ELSE pc[a]) \in Commands
      BY <1>1 DEF Launch, Commands
    <3> QED
      BY <1>0, <3>1, <3>2 DEF RunOf, Run
  <2>2. [op[a] EXCEPT !.run = RunOf(a)] \in Operation
    BY <1>0, <2>1 DEF Operation
  <2>3. ActorsOK'
    BY <1>1, <2>2, ContinueTypes DEF Launch, Steps
  <2>4. AppOK'
    BY <1>1 DEF Launch, AppOK, disk, docker
  <2> QED
    BY <2>3, <2>4
<1>2. CASE Unlaunched(a)
  <2>1. ActorsOK'
    BY <1>2, FailTypes DEF Unlaunched
  <2>2. AppOK'
    BY <1>2 DEF Unlaunched, AppOK, disk, docker
  <2> QED
    BY <2>1, <2>2
<1>3. CASE Done(a)
  <2>1. AppOK'
    BY <1>0, <1>3, PartialTypes DEF Done, Partial, AppOK
  <2>2. Succeed(a)
    BY <1>3 DEF Done
  <2>3. \/ \E step \in {"health", "wipe", "unregister", "erase"} : Continue(a, step, op[a])
        \/ Continue(a, "stage", [op[a] EXCEPT !.phase = "restore", !.file = "compose",
                                              !.text = op[a].old, !.port = op[a].oldPort])
        \/ End(a, op[a].end)
        \/ End(a, "ok")
    BY <2>2 DEF Succeed, RestoreFiles
  <2>4. [op[a] EXCEPT !.phase = "restore", !.file = "compose", !.text = op[a].old,
                     !.port = op[a].oldPort] \in Operation
    BY <1>0 DEF Operation, Names
  <2>5. op[a].end \in Reports /\ "ok" \in Reports
    BY <1>0 DEF Reports
  <2>6. {"health", "wipe", "unregister", "erase", "stage"} \subseteq Steps
    BY DEF Steps
  <2>7. ActorsOK'
    BY <1>0, <2>3, <2>4, <2>5, <2>6, ContinueTypes, EndTypes
  <2> QED
    BY <2>1, <2>7
<1>4. CASE DockerFails(a)
  <2>1. AppOK'
    BY <1>0, <1>4, PartialTypes DEF DockerFails, AppOK
  <2>2. ActorsOK'
    BY <1>4, FailTypes DEF DockerFails
  <2> QED
    BY <2>1, <2>2
<1>5. CASE Kill(a)
  <2>1. AppOK'
    BY <1>0, <1>5, PartialTypes DEF Kill, AppOK
  <2>2. ActorsOK'
    BY <1>5, RollBackTypes DEF Kill
  <2> QED
    BY <2>1, <2>2
<1> QED
  BY <1>1, <1>2, <1>3, <1>4, <1>5

\* The steps that take the lock and those after the commands.
LEMMA OtherTypes ==
  ASSUME TypeOK, NEW a \in Actors,
         \/ Remove(a) \/ Lock(a) \/ Busy(a) \/ Inspect(a) \/ NotInspected(a)
         \/ Healthy(a) \/ Unhealthy(a) \/ Commit(a) \/ CommitFails(a)
         \/ Wipe(a) \/ WipeFails(a) \/ Unregister(a) \/ UnregisterFails(a),
         Shape(pc[a], op[a])
  PROVE  TypeOK'
<1> USE TypeParts, TypePartsNext
<1>0. /\ op[a] \in Operation /\ op[a].end \in {"ok", "failed", "cancelled"}
      /\ op[a].kind \in AllKinds
  BY DEF ActorsOK, Operation
<1>r. {"ok", "failed", "cancelled", "rollback_failed"} \subseteq Reports
  BY DEF Reports
<1>s. {"commit", "up", "down", "unregister"} \subseteq Steps
  BY DEF Steps
<1>1. CASE Remove(a) \/ Busy(a) \/ NotInspected(a) \/ WipeFails(a) \/ Unregister(a)
             \/ UnregisterFails(a) \/ Commit(a)
  <2>1. \E how \in Reports : End(a, how)
    BY <1>1, <1>r DEF Remove, Busy, NotInspected, WipeFails, Unregister, UnregisterFails, Commit
  <2>2. ActorsOK'
    BY <2>1, EndTypes
  <2>3. AppOK'
    BY <1>1 DEF Remove, Busy, NotInspected, WipeFails, Unregister, UnregisterFails, Commit,
                AppOK, disk, docker
  <2> QED
    BY <2>2, <2>3
<1>2. CASE Lock(a)
  <2>1. FirstStep(op[a].kind) \in Steps
    BY <1>0, <1>2 DEF Lock, Shape, FirstStep, AllKinds, Installing, Steps
  <2>2. [op[a] EXCEPT !.found = reg = "managed" /\ containers = "up"] \in Operation
    BY <1>0 DEF Operation
  <2>3. ActorsOK'
    BY <1>2, <2>1, <2>2 DEF Lock, Enter, Goto, ActorsOK
  <2>4. AppOK'
    BY <1>2 DEF Lock, Enter, AppOK, disk, docker
  <2> QED
    BY <2>3, <2>4
<1>3. CASE Inspect(a) \/ Healthy(a)
  <2>1. ActorsOK'
    BY <1>0, <1>3, <1>s, ContinueTypes DEF Inspect, Resume, ClearAway, Healthy
  <2>2. AppOK'
    BY <1>3 DEF Inspect, Resume, ClearAway, Healthy, AppOK, disk, docker
  <2> QED
    BY <2>1, <2>2
<1>4. CASE Unhealthy(a)
  <2>1. ActorsOK'
    BY <1>4, <1>r, EndTypes, RollBackTypes DEF Unhealthy
  <2>2. AppOK'
    BY <1>4 DEF Unhealthy, AppOK, disk, docker
  <2> QED
    BY <2>1, <2>2
<1>5. CASE CommitFails(a)
  <2>1. [op[a] EXCEPT !.phase = "undo", !.end = "failed"] \in Operation
    BY <1>0 DEF Operation
  <2>2. ActorsOK'
    BY <1>5, <1>r, <1>s, <2>1, EndTypes, ContinueTypes DEF CommitFails
  <2>3. AppOK'
    BY <1>5 DEF CommitFails, AppOK, disk, docker
  <2> QED
    BY <2>2, <2>3
<1>6. CASE Wipe(a)
  <2>1. AppOK'
    BY <1>6 DEF Wipe, AppOK, docker, Content
  <2>2. CASE UNCHANGED <<dir, pc, op, report, holder>>
    <3>1. ActorsOK'
      BY <2>2 DEF ActorsOK
    <3> QED
      BY <2>1, <3>1
  <2>3. CASE AfterWipe(a)
    <3>1. \/ Continue(a, "unregister", op[a])
          \/ End(a, "ok")
          \/ End(a, op[a].end)
      BY <2>3 DEF AfterWipe
    <3>2. ActorsOK'
      BY <1>0, <1>r, <1>s, <3>1, EndTypes, ContinueTypes
    <3> QED
      BY <2>1, <3>2
  <2> QED
    BY <1>6, <2>2, <2>3 DEF Wipe
<1> QED
  BY <1>1, <1>2, <1>3, <1>4, <1>5, <1>6

-----------------------------------------------------------------------------
\* Kept data.

World ==
  /\ kept' => dir'
  /\ \A n \in Names : files'[n] # Missing => dir'

Mild == (dir => dir') /\ (kept' => kept)

\* A step of actor a keeps the invariant when what a goes on with is in shape, and
\* the directory and the data are touched by the holder only.
LEMMA Preserved ==
  ASSUME TypeOK, KeptInv, NEW a \in Actors, NEW step \in Steps, NEW o,
         pc' = [pc EXCEPT ![a] = step], op' = [op EXCEPT ![a] = o],
         \/ holder' = holder
         \/ holder = NoActor /\ holder' = a
         \/ holder = a /\ holder' = NoActor,
         step \in Waiting \/ holder' = a,
         Shape(step, o), Keeps(step, o, kept', dir'),
         World, Mild \/ holder = a
  PROVE  KeptInv'
<1>1. pc'[a] = step /\ op'[a] = o
  BY DEF TypeOK
<1>2. \A b \in Actors \ {a} : pc'[b] = pc[b] /\ op'[b] = op[b]
  BY DEF TypeOK
<1>3. NoActor \notin Actors
  BY LifecycleAssumption
<1>4. HolderWorks'
  BY <1>1, <1>2, <1>3 DEF KeptInv, HolderWorks, Waiting
<1>5. ASSUME NEW b \in Actors
      PROVE  Shape(pc[b], op[b])' /\ Keeps(pc[b], op[b], kept, dir)'
  <2>1. CASE b = a
    BY <1>1, <2>1 DEF Shape, Keeps
  <2>2. CASE b # a /\ Mild
    <3>1. Shape(pc[b], op[b]) /\ Keeps(pc[b], op[b], kept, dir)
      BY DEF KeptInv
    <3> QED
      BY <1>2, <2>2, <3>1 DEF Shape, Keeps, Mild
  <2>3. CASE b # a /\ holder = a
    <3>1. Shape(pc[b], op[b]) /\ pc[b] \in Waiting
      BY <1>3, <2>3 DEF KeptInv, HolderWorks, Waiting
    <3>2. pc'[b] = pc[b] /\ op'[b] = op[b]
      BY <1>2, <2>3
    <3>3. Keeps(pc[b], op[b], kept, dir)'
      BY <3>1, <3>2 DEF Shape, Keeps, Waiting
    <3>4. Shape(pc[b], op[b])'
      BY <3>1, <3>2 DEF Shape
    <3> QED
      BY <3>3, <3>4
  <2> QED
    BY <2>1, <2>2, <2>3
<1>6. (kept => dir)' /\ (\A n \in Names : Has(n) => dir)'
  BY DEF World, Has
<1> QED
  BY <1>4, <1>5, <1>6 DEF KeptInv

\* What leaves the directory, its files and the data alone.
LEMMA Calm ==
  ASSUME KeptInv, UNCHANGED <<dir, files, kept>>
  PROVE  World /\ Mild
  BY DEF KeptInv, World, Mild, Has

\* The holder goes on.
LEMMA Continued ==
  ASSUME TypeOK, KeptInv, NEW a \in Actors, NEW step \in Steps, NEW o,
         Continue(a, step, o), holder = a \/ step \in Waiting,
         Shape(step, o), Keeps(step, o, kept', dir'), World, Mild \/ holder = a
  PROVE  KeptInv'
<1>1. /\ pc' = [pc EXCEPT ![a] = step] /\ op' = [op EXCEPT ![a] = o]
      /\ holder' = holder
  BY DEF Continue, Goto
<1> QED
  BY <1>1, Preserved

\* An operation ends.
LEMMA Ended ==
  ASSUME TypeOK, KeptInv, NEW a \in Actors, NEW how, End(a, how),
         World, Mild \/ holder = a
  PROVE  KeptInv'
<1>1. /\ pc' = [pc EXCEPT ![a] = "idle"] /\ op' = [op EXCEPT ![a] = NoOp]
      /\ holder' = IF holder = a THEN NoActor ELSE holder
  BY DEF End, Goto
<1>2. Shape("idle", NoOp)
  BY DEF Shape, NoOp, Fresh, Installing
<1>3. Keeps("idle", NoOp, kept', dir')
  BY DEF Keeps, NoOp, Fresh, Installing, Waiting
<1>4. "idle" \in Steps /\ "idle" \in Waiting
  BY DEF Steps, Waiting
<1> QED
  BY <1>1, <1>2, <1>3, <1>4, Preserved

\* Steps before the lock is held, and refusals.
LEMMA WaitingKept ==
  ASSUME TypeOK, KeptInv, NEW a \in Actors,
         \/ \E kind \in Kinds \ {"connect"}, delete \in BOOLEAN : BeginOperation(a, kind, delete)
         \/ Remove(a) \/ Lock(a) \/ Busy(a) \/ Cancel(a) \/ Refuse(a)
         \/ Inspect(a) \/ NotInspected(a)
  PROVE  KeptInv'
<1>0. /\ op[a] \in Operation /\ op[a].kind \in AllKinds /\ pc[a] \in Steps
      /\ Shape(pc[a], op[a]) /\ Keeps(pc[a], op[a], kept, dir)
      /\ pc[a] \notin Waiting => holder = a
  BY DEF TypeOK, Operation, KeptInv, HolderWorks, Waiting
<1>1. ASSUME NEW kind \in Kinds \ {"connect"}, NEW delete \in BOOLEAN,
             BeginOperation(a, kind, delete)
      PROVE  KeptInv'
  <2> DEFINE step == IF kind = "remove" THEN "remove" ELSE "lock"
  <2>1. Continue(a, step, Fresh(kind, delete)) /\ UNCHANGED <<dir, files, kept>>
    BY <1>1 DEF BeginOperation, Begin, disk
  <2>2. step \in Steps /\ step \in Waiting
    BY DEF Steps, Waiting
  <2>3. Shape(step, Fresh(kind, delete))
    BY DEF Shape, Fresh, Waiting, Installing
  <2>4. Keeps(step, Fresh(kind, delete), kept', dir')
    BY DEF Keeps, Fresh, Waiting
  <2> QED
    BY <2>1, <2>2, <2>3, <2>4, Calm, Continued
<1>2. CASE Remove(a) \/ Busy(a) \/ Refuse(a) \/ NotInspected(a)
  <2>1. (\E how : End(a, how)) /\ UNCHANGED <<dir, files, kept>>
    BY <1>2 DEF Remove, Busy, Refuse, NotInspected, disk
  <2> QED
    BY <2>1, Calm, Ended
<1>3. CASE Lock(a)
  <2> DEFINE o == [op[a] EXCEPT !.found = reg = "managed" /\ containers = "up"]
  <2> DEFINE step == FirstStep(op[a].kind)
  <2>1. /\ pc' = [pc EXCEPT ![a] = step] /\ op' = [op EXCEPT ![a] = o]
        /\ holder = NoActor /\ holder' = a /\ pc[a] = "lock"
        /\ UNCHANGED <<dir, files, kept>>
    BY <1>3 DEF Lock, Enter, Goto, disk
  <2>2. /\ o.kind = op[a].kind /\ o.created = op[a].created /\ o.phase = op[a].phase
        /\ o.cancel = op[a].cancel /\ o.file = op[a].file /\ o.run = op[a].run
        /\ o.delete = op[a].delete
    BY <1>0 DEF Operation
  <2>3. step \in Steps
    BY <1>0, <2>1 DEF Shape, FirstStep, AllKinds, Installing, Steps
  <2>5. Shape(step, o)
    BY <1>0, <2>1, <2>2 DEF Shape, FirstStep, AllKinds, Installing, Waiting
  <2>6. Keeps(step, o, kept', dir')
    BY <1>0, <2>1, <2>2 DEF Shape, Keeps, FirstStep, AllKinds, Installing, Waiting
  <2> HIDE DEF o, step
  <2> QED
    BY <2>1, <2>3, <2>5, <2>6, Calm, Preserved
<1>4. CASE Cancel(a)
  <2> DEFINE o == [op[a] EXCEPT !.cancel = TRUE]
  <2>1. /\ pc' = [pc EXCEPT ![a] = pc[a]] /\ op' = [op EXCEPT ![a] = o]
        /\ holder = a /\ holder' = holder /\ op[a].kind \in Installing
        /\ UNCHANGED <<dir, files, kept>>
    BY <1>4 DEF Cancel, disk, TypeOK, Installing
  <2>2. /\ o.kind = op[a].kind /\ o.created = op[a].created /\ o.phase = op[a].phase
        /\ o.file = op[a].file /\ o.run = op[a].run /\ o.delete = op[a].delete
    BY <1>0 DEF Operation
  <2>3. Shape(pc[a], o)
    BY <1>0, <2>1, <2>2 DEF Shape
  <2>4. Keeps(pc[a], o, kept', dir')
    BY <1>0, <2>1, <2>2 DEF Keeps
  <2> HIDE DEF o
  <2> QED
    BY <1>0, <2>1, <2>3, <2>4, Calm, Preserved
<1>5. CASE Inspect(a)
  <2> DEFINE step == IF op[a].kind = "adopt" THEN "up" ELSE "down"
  <2>1. Continue(a, step, op[a]) /\ pc[a] = "inspect" /\ UNCHANGED <<dir, files, kept>>
    BY <1>5 DEF Inspect, Resume, ClearAway, disk
  <2>2. Shape(step, op[a])
    BY <1>0, <2>1 DEF Shape, Waiting, Installing
  <2>3. Keeps(step, op[a], kept', dir')
    BY <1>0, <2>1 DEF Shape, Keeps, Waiting, Installing
  <2>4. step \in Steps /\ holder = a
    BY <1>0, <2>1 DEF Steps, Waiting
  <2> QED
    BY <2>1, <2>2, <2>3, <2>4, Calm, Continued
<1> QED
  BY <1>1, <1>2, <1>3, <1>4, <1>5

\* Steps of others: the actors stay where they are.
LEMMA Aside ==
  ASSUME KeptInv, UNCHANGED <<pc, op, holder>>, World, Mild
  PROVE  KeptInv'
<1>1. HolderWorks'
  BY DEF KeptInv, HolderWorks
<1>2. ASSUME NEW b \in Actors
      PROVE  Shape(pc[b], op[b])' /\ Keeps(pc[b], op[b], kept, dir)'
  <2>1. Shape(pc[b], op[b]) /\ Keeps(pc[b], op[b], kept, dir)
    BY DEF KeptInv
  <2> QED
    BY <2>1 DEF Shape, Keeps, Mild
<1>3. (kept => dir)' /\ (\A n \in Names : Has(n) => dir)'
  BY DEF World, Has
<1> QED
  BY <1>1, <1>2, <1>3 DEF KeptInv

\* An operation past its first look holds the lock.
LEMMA AtWork ==
  ASSUME TypeOK, KeptInv, NEW a \in Actors
  PROVE  /\ op[a] \in Operation /\ op[a].kind \in AllKinds /\ pc[a] \in Steps
         /\ Shape(pc[a], op[a]) /\ Keeps(pc[a], op[a], kept, dir)
         /\ pc[a] \notin Waiting => holder = a
  BY DEF TypeOK, Operation, KeptInv, HolderWorks, Waiting

\* A rollback begins.
LEMMA RollBackKept ==
  ASSUME TypeOK, KeptInv, NEW a \in Actors, NEW how, RollBack(a, how), holder = a,
         op[a].kind \in Installing, op[a].created => ~kept', dir', World
  PROVE  KeptInv'
<1> DEFINE o == [op[a] EXCEPT !.phase = "rollback", !.end = how]
<1>0. op[a] \in Operation /\ Shape(pc[a], op[a])
  BY AtWork
<1>1. Continue(a, "down", o)
  BY DEF RollBack
<1>2. /\ o.kind = op[a].kind /\ o.created = op[a].created /\ o.file = op[a].file
  BY <1>0 DEF Operation
<1>3. Shape("down", o)
  BY <1>0, <1>2 DEF Shape, Installing, Waiting
<1>4. Keeps("down", o, kept', dir')
  BY <1>2 DEF Keeps
<1>5. "down" \in Steps
  BY DEF Steps
<1> HIDE DEF o
<1> QED
  BY <1>1, <1>3, <1>4, <1>5, Continued

\* A command failed.
LEMMA FailKept ==
  ASSUME TypeOK, KeptInv, NEW a \in Actors, NEW how, Fail(a, how), holder = a,
         op[a].kind \in Installing => dir' /\ (op[a].created => ~kept'), World
  PROVE  KeptInv'
<1>1. CASE op[a].kind \in Installing /\ op[a].phase = "forward"
  BY <1>1, RollBackKept DEF Fail
<1>2. CASE op[a].kind \in Installing /\ op[a].phase # "forward"
  BY <1>2, Ended DEF Fail
<1>3. CASE op[a].kind \notin Installing
  BY <1>3, Ended DEF Fail
<1> QED
  BY <1>1, <1>2, <1>3

\* A command never removes the directory, and never makes data kept.
LEMMA PartialWorld ==
  ASSUME KeptInv, NEW r, Partial(r)
  PROVE  World /\ Mild
<1>1. CASE UNCHANGED <<disk, kept>>
  BY <1>1, Calm DEF disk
<1>2. CASE Starts(r.text) /\ UNCHANGED kept
  BY <1>2 DEF World, Mild, Starts
<1>3. CASE UNCHANGED disk /\ (kept' => kept)
  BY <1>3 DEF KeptInv, World, Mild, Has, disk
<1> QED
  BY <1>1, <1>2, <1>3 DEF Partial, Effect

\* The writes of an install, and of the restore of its rollback.
LEMMA InstallKept ==
  ASSUME TypeOK, KeptInv, NEW a \in Actors,
         Preflight(a) \/ Stage(a) \/ Unlink(a) \/ Rename(a) \/ Erase(a) \/ WriteFails(a)
  PROVE  KeptInv'
<1>0. /\ op[a] \in Operation /\ Shape(pc[a], op[a]) /\ Keeps(pc[a], op[a], kept, dir)
      /\ holder = a /\ op[a].kind \in Installing /\ op[a].kind \in AllKinds
  <2>1. pc[a] \in {"preflight", "stage", "unlink", "rename", "erase"}
    BY DEF Preflight, Stage, Unlink, Rename, Erase, WriteFails
  <2> QED
    BY <2>1, AtWork DEF Shape, Waiting
<1>1. CASE Preflight(a)
  <2>1. PICK c \in Generated, port \in Offered : Continue(a, "stage", Settles(a, c, port))
    BY <1>1, PreflightSettles
  <2> DEFINE o == Settles(a, c, port)
  <2>2. /\ o.kind = op[a].kind /\ o.created = ~dir /\ o.file = "engine"
        /\ o.phase = op[a].phase /\ o.cancel = op[a].cancel
    BY <1>0 DEF Operation, Settles
  <2>3. dir' /\ World /\ kept' = kept /\ (kept => dir)
    BY <1>1 DEF Preflight, Prepare, World, KeptInv
  <2>4. Shape("stage", o)
    BY <1>0, <2>2 DEF Shape, Installing, Waiting
  <2>5. Keeps("stage", o, kept', dir')
    BY <2>2, <2>3 DEF Keeps
  <2>6. "stage" \in Steps
    BY DEF Steps
  <2> HIDE DEF o
  <2> QED
    BY <1>0, <2>1, <2>3, <2>4, <2>5, <2>6, Continued DEF o
<1>2. CASE ~Preflight(a)
  <2>0. /\ pc[a] \in {"stage", "unlink", "rename", "erase"}
        /\ dir /\ dir' /\ kept' = kept /\ World
        /\ op[a].created => ~kept
    <3>1. pc[a] \in {"stage", "unlink", "rename", "erase"} /\ UNCHANGED <<dir, kept>>
      BY <1>2 DEF Stage, Unlink, Rename, Erase, WriteFails
    <3>2. dir /\ (op[a].created => ~kept)
      BY <1>0, <3>1 DEF Keeps, Waiting
    <3> QED
      BY <3>1, <3>2 DEF World
  <2>1. ASSUME NEW n \in {"compose", "secrets"}, Continue(a, "stage", [op[a] EXCEPT !.file = n])
        PROVE  KeptInv'
    <3> DEFINE o == [op[a] EXCEPT !.file = n]
    <3>1. /\ o.kind = op[a].kind /\ o.created = op[a].created /\ o.file = n
          /\ o.phase = op[a].phase /\ o.cancel = op[a].cancel
      BY <1>0 DEF Operation
    <3>2. Shape("stage", o)
      BY <1>0, <3>1 DEF Shape, Installing, Waiting
    <3>3. Keeps("stage", o, kept', dir')
      BY <2>0, <3>1 DEF Keeps
    <3>4. "stage" \in Steps
      BY DEF Steps
    <3> HIDE DEF o
    <3> QED
      BY <1>0, <2>0, <2>1, <3>2, <3>3, <3>4, Continued DEF o
  <2>2. ASSUME NEW step \in {"unlink", "rename", "up"}, Continue(a, step, op[a])
        PROVE  KeptInv'
    <3>1. Shape(step, op[a])
      BY <1>0 DEF Shape, Installing, Waiting
    <3>2. Keeps(step, op[a], kept', dir')
      BY <2>0 DEF Keeps
    <3>3. step \in Steps
      BY DEF Steps
    <3> QED
      BY <1>0, <2>0, <2>2, <3>1, <3>2, <3>3, Continued
  <2>3. CASE Stage(a)
    BY <2>1, <2>2, <2>3 DEF Stage
  <2>4. CASE Unlink(a)
    <3>1. op' = [op EXCEPT ![a] = op[a]]
      BY <2>4 DEF Unlink, TypeOK
    <3>2. Continue(a, "rename", op[a])
      BY <2>4, <3>1 DEF Unlink, Continue
    <3> QED
      BY <2>2, <3>2
  <2>5. CASE Rename(a)
    <3>1. \/ End(a, op[a].end)
          \/ Continue(a, "stage", [op[a] EXCEPT !.file = "compose"])
          \/ Continue(a, "stage", [op[a] EXCEPT !.file = "secrets"])
          \/ Continue(a, "up", op[a])
      BY <2>5 DEF Rename, AfterRename
    <3> QED
      BY <1>0, <2>0, <2>1, <2>2, <3>1, Ended
  <2>6. CASE Erase(a)
    BY <1>0, <2>0, <2>6, Ended DEF Erase
  <2>7. CASE WriteFails(a)
    <3>1. RollBack(a, "failed") \/ End(a, "rollback_failed")
      BY <2>7 DEF WriteFails
    <3> QED
      BY <1>0, <2>0, <3>1, Ended, RollBackKept
  <2> QED
    BY <1>2, <2>3, <2>4, <2>5, <2>6, <2>7
<1> QED
  BY <1>1, <1>2

\* The Docker commands.
LEMMA CommandKept ==
  ASSUME TypeOK, KeptInv, NEW a \in Actors,
         Launch(a) \/ Unlaunched(a) \/ Done(a) \/ DockerFails(a) \/ Kill(a)
  PROVE  KeptInv'
<1>0. /\ op[a] \in Operation /\ Shape(pc[a], op[a]) /\ Keeps(pc[a], op[a], kept, dir)
      /\ holder = a /\ op[a].kind \in AllKinds
      /\ op[a].kind \in Installing => dir /\ (op[a].created => ~kept)
      /\ pc[a] \in {"up", "stop", "down", "running"}
  <2>1. pc[a] \in {"up", "stop", "down", "running"}
    BY DEF Launch, Unlaunched, Done, DockerFails, Kill
  <2>2. Shape(pc[a], op[a]) /\ Keeps(pc[a], op[a], kept, dir)
    BY AtWork
  <2>3. op[a].kind \in Installing => dir /\ (op[a].created => ~kept)
    BY <2>1, <2>2 DEF Keeps, Waiting
  <2> QED
    BY <2>1, <2>2, <2>3, AtWork DEF Waiting
<1>1. CASE Launch(a)
  <2> DEFINE o == [op[a] EXCEPT !.run = RunOf(a)]
  <2>1. /\ o.kind = op[a].kind /\ o.created = op[a].created /\ o.file = op[a].file
        /\ o.phase = op[a].phase /\ o.cancel = op[a].cancel /\ o.delete = op[a].delete
        /\ o.run = RunOf(a)
    BY <1>0 DEF Operation
  <2>2. /\ Continue(a, "running", o) /\ UNCHANGED <<dir, files, kept>>
        /\ pc[a] \in {"up", "stop", "down"}
    BY <1>1 DEF Launch, disk
  <2>3. /\ RunOf(a).command = IF pc[a] = "down" /\ Removes(op[a]) THEN "downVolumes" ELSE pc[a]
        /\ RunOf(a).asked = op[a].delete /\ RunOf(a).kept = kept
    BY DEF RunOf
  <2>4. Shape("running", o)
    BY <1>0, <2>1, <2>2, <2>3 DEF Shape, Removes, Installing, Waiting
  <2>5. o.run.command = "downVolumes" => (kept => o.delete) /\ (o.run.asked \/ ~o.run.kept)
    BY <1>0, <2>1, <2>2, <2>3 DEF Shape, Removes
  <2>6. Keeps("running", o, kept', dir')
    BY <1>0, <2>1, <2>2, <2>5 DEF Keeps
  <2>7. "running" \in Steps
    BY DEF Steps
  <2> HIDE DEF o
  <2> QED
    BY <1>0, <2>2, <2>4, <2>6, <2>7, Calm, Continued
<1>2. CASE Unlaunched(a)
  <2>1. (\E how : Fail(a, how)) /\ UNCHANGED <<dir, files, kept>>
    BY <1>2 DEF Unlaunched, disk
  <2> QED
    BY <1>0, <2>1, Calm, FailKept
<1>3. ASSUME Partial(op[a].run)
      PROVE  /\ World /\ Mild
             /\ op[a].kind \in Installing => dir' /\ (op[a].created => ~kept')
  <2>1. World /\ Mild
    BY <1>3, PartialWorld
  <2> QED
    BY <1>0, <2>1 DEF Mild
<1>4. CASE DockerFails(a)
  BY <1>0, <1>3, <1>4, FailKept DEF DockerFails
<1>5. CASE Kill(a)
  <2>1. op[a].kind \in Installing
    BY <1>0, <1>5 DEF Kill, Shape
  <2> QED
    BY <1>0, <1>3, <1>5, <2>1, RollBackKept DEF Kill
<1>6. CASE Done(a)
  <2>1. /\ Effect(op[a].run) /\ Succeed(a) /\ pc[a] = "running"
        /\ World /\ Mild
        /\ op[a].kind \in Installing => dir' /\ (op[a].created => ~kept')
    BY <1>3, <1>6 DEF Done, Partial
  <2>2. CASE (op[a].kind \in Installing /\ op[a].phase = "forward") \/ op[a].kind = "adopt"
    <3>1. Continue(a, "health", op[a])
      BY <2>1, <2>2 DEF Succeed, Installing
    <3>2. dir'
      <4>1. CASE op[a].kind \in Installing
        BY <2>1, <4>1
      <4>2. CASE op[a].kind = "adopt"
        <5>1. op[a].run.command = "up"
          BY <1>0, <2>1, <4>2 DEF Shape
        <5> QED
          BY <2>1, <5>1 DEF Effect, Starts
      <4> QED
        BY <2>2, <4>1, <4>2
    <3>3. Shape("health", op[a])
      BY <1>0, <2>1, <2>2 DEF Shape, Installing, Waiting
    <3>4. Keeps("health", op[a], kept', dir')
      BY <2>1, <3>2 DEF Keeps
    <3>5. "health" \in Steps
      BY DEF Steps
    <3> QED
      BY <1>0, <2>1, <3>1, <3>3, <3>4, <3>5, Continued
  <2>3. CASE ~(op[a].kind \in Installing /\ op[a].phase = "forward") /\ op[a].kind # "adopt"
    <3>1. \/ op[a].phase = "rollback" /\ RestoreFiles(a)
          \/ op[a].phase = "undo" /\ op[a].created /\ Continue(a, "wipe", op[a])
          \/ op[a].kind \in {"uninstall", "discard"} /\ op[a].delete /\ Continue(a, "wipe", op[a])
          \/ op[a].kind = "uninstall" /\ ~op[a].delete /\ Continue(a, "unregister", op[a])
          \/ \E how : End(a, how)
      BY <2>1, <2>3 DEF Succeed
    <3>2. ASSUME Continue(a, "wipe", op[a]),
                 \/ op[a].phase # "forward" /\ op[a].created
                 \/ op[a].kind \in {"uninstall", "discard"} /\ op[a].delete
          PROVE  KeptInv'
      <4>1. ~kept'
        <5>1. CASE op[a].phase # "forward" /\ op[a].created
          BY <1>0, <2>1, <5>1 DEF Shape
        <5>2. CASE op[a].kind \in {"uninstall", "discard"} /\ op[a].delete
          <6>1. op[a].run.command = "downVolumes"
            BY <1>0, <2>1, <5>2 DEF Shape
          <6> QED
            BY <2>1, <6>1 DEF Effect
        <5> QED
          BY <3>2, <5>1, <5>2
      <4>2. Shape("wipe", op[a])
        BY <1>0 DEF Shape, Waiting
      <4>3. Keeps("wipe", op[a], kept', dir')
        BY <2>1, <4>1 DEF Keeps
      <4>4. "wipe" \in Steps
        BY DEF Steps
      <4> QED
        BY <1>0, <2>1, <3>2, <4>2, <4>3, <4>4, Continued
    <3>3. CASE op[a].phase = "rollback" /\ RestoreFiles(a)
      <4>0. op[a].kind \in Installing
        BY <1>0, <3>3 DEF Shape
      <4>1. CASE op[a].created
        BY <3>2, <3>3, <4>1 DEF RestoreFiles
      <4>2. CASE ~op[a].created /\ op[a].old # Missing
        <5> DEFINE o == [op[a] EXCEPT !.phase = "restore", !.file = "compose",
                                      !.text = op[a].old, !.port = op[a].oldPort]
        <5>1. /\ o.kind = op[a].kind /\ o.created = op[a].created /\ o.file = "compose"
              /\ o.phase = "restore"
          BY <1>0 DEF Operation
        <5>2. Continue(a, "stage", o)
          BY <3>3, <4>2 DEF RestoreFiles
        <5>3. Shape("stage", o)
          BY <4>0, <5>1 DEF Shape, Installing, Waiting
        <5>4. Keeps("stage", o, kept', dir')
          BY <2>1, <5>1 DEF Keeps
        <5>5. "stage" \in Steps
          BY DEF Steps
        <5> HIDE DEF o
        <5> QED
          BY <1>0, <2>1, <5>2, <5>3, <5>4, <5>5, Continued
      <4>3. CASE ~op[a].created /\ op[a].old = Missing
        <5>1. Continue(a, "erase", op[a])
          BY <3>3, <4>3 DEF RestoreFiles
        <5>2. Shape("erase", op[a])
          BY <1>0, <4>0 DEF Shape, Installing, Waiting
        <5>3. Keeps("erase", op[a], kept', dir')
          BY <2>1 DEF Keeps
        <5>4. "erase" \in Steps
          BY DEF Steps
        <5> QED
          BY <1>0, <2>1, <5>1, <5>2, <5>3, <5>4, Continued
      <4> QED
        BY <4>1, <4>2, <4>3
    <3>4. CASE op[a].kind = "uninstall" /\ Continue(a, "unregister", op[a])
      <4>1. Shape("unregister", op[a])
        BY <1>0, <3>4 DEF Shape, Installing, Waiting
      <4>2. Keeps("unregister", op[a], kept', dir')
        BY <3>4 DEF Keeps, Installing
      <4>3. "unregister" \in Steps
        BY DEF Steps
      <4> QED
        BY <1>0, <2>1, <3>4, <4>1, <4>2, <4>3, Continued
    <3> QED
      BY <1>0, <2>1, <3>1, <3>2, <3>3, <3>4, Ended
  <2> QED
    BY <2>2, <2>3
<1> QED
  BY <1>1, <1>2, <1>4, <1>5, <1>6

\* The steps after the commands.
LEMMA AfterKept ==
  ASSUME TypeOK, KeptInv, NEW a \in Actors,
         \/ Healthy(a) \/ Unhealthy(a) \/ Commit(a) \/ CommitFails(a)
         \/ Wipe(a) \/ WipeFails(a) \/ Unregister(a) \/ UnregisterFails(a)
  PROVE  KeptInv'
<1>0. /\ op[a] \in Operation /\ Shape(pc[a], op[a]) /\ Keeps(pc[a], op[a], kept, dir)
      /\ holder = a /\ op[a].kind \in AllKinds /\ pc[a] \in Steps
      /\ op[a].kind \in Installing => dir /\ (op[a].created => ~kept)
      /\ pc[a] \in {"health", "commit", "wipe", "unregister"}
  <2>1. pc[a] \in {"health", "commit", "wipe", "unregister"}
    BY DEF Healthy, Unhealthy, Commit, CommitFails, Wipe, WipeFails, Unregister, UnregisterFails
  <2>2. Shape(pc[a], op[a]) /\ Keeps(pc[a], op[a], kept, dir)
    BY AtWork
  <2>3. op[a].kind \in Installing => dir /\ (op[a].created => ~kept)
    BY <2>1, <2>2 DEF Keeps, Waiting
  <2> QED
    BY <2>1, <2>2, <2>3, AtWork DEF Waiting
<1>1. CASE Healthy(a)
  <2>1. Continue(a, "commit", op[a]) /\ UNCHANGED <<dir, files, kept>> /\ pc[a] = "health"
    BY <1>1 DEF Healthy, disk
  <2>2. Shape("commit", op[a])
    BY <1>0, <2>1 DEF Shape, Installing, Waiting
  <2>3. Keeps("commit", op[a], kept', dir')
    BY <1>0, <2>1 DEF Keeps
  <2>4. "commit" \in Steps
    BY DEF Steps
  <2> QED
    BY <1>0, <2>1, <2>2, <2>3, <2>4, Calm, Continued
<1>2. CASE Unhealthy(a)
  <2>1. UNCHANGED <<dir, files, kept>> /\ pc[a] = "health"
    BY <1>2 DEF Unhealthy, disk
  <2>2. CASE op[a].kind = "adopt"
    BY <1>2, <2>1, <2>2, Calm, Ended DEF Unhealthy
  <2>3. CASE op[a].kind # "adopt"
    <3>1. op[a].kind \in Installing
      BY <1>0, <2>1, <2>3 DEF Shape
    <3>2. \E how : RollBack(a, how)
      BY <1>2, <2>3 DEF Unhealthy
    <3> QED
      BY <1>0, <2>1, <3>1, <3>2, Calm, RollBackKept
  <2> QED
    BY <2>2, <2>3
<1>3. CASE Commit(a)
  <2>1. World
    BY <1>0, <1>3 DEF Commit, World, Keeps, disk
  <2> QED
    BY <1>0, <1>3, <2>1, Ended DEF Commit
<1>4. CASE CommitFails(a)
  <2>1. UNCHANGED <<dir, files, kept>> /\ pc[a] = "commit"
    BY <1>4 DEF CommitFails, disk
  <2>2. CASE op[a].kind = "adopt"
    BY <1>4, <2>1, <2>2, Calm, Ended DEF CommitFails
  <2>3. CASE op[a].kind # "adopt"
    <3> DEFINE o == [op[a] EXCEPT !.phase = "undo", !.end = "failed"]
    <3>1. /\ o.kind = op[a].kind /\ o.created = op[a].created /\ o.file = op[a].file
      BY <1>0 DEF Operation
    <3>2. op[a].kind \in Installing
      BY <1>0, <2>1, <2>3 DEF Shape
    <3>3. Continue(a, "down", o)
      BY <1>4, <2>3 DEF CommitFails
    <3>4. Shape("down", o)
      BY <1>0, <3>1, <3>2 DEF Shape, Installing, Waiting
    <3>5. Keeps("down", o, kept', dir')
      BY <1>0, <2>1, <3>1 DEF Keeps
    <3>6. "down" \in Steps
      BY DEF Steps
    <3> HIDE DEF o
    <3> QED
      BY <1>0, <2>1, <3>3, <3>4, <3>5, <3>6, Calm, Continued
  <2> QED
    BY <2>2, <2>3
<1>5. CASE Wipe(a)
  <2>1. pc[a] = "wipe" /\ ~kept
    BY <1>0, <1>5 DEF Wipe, Keeps
  <2>2. CASE UNCHANGED <<dir, pc, op, report, holder>>
    <3>1. PICK n \in Names : files' = [files EXCEPT ![n] = Missing] /\ kept' = (kept /\ n # "data")
      BY <1>0, <1>5, <2>1, <2>2 DEF Wipe, AfterWipe, End, Continue, Goto, TypeOK
    <3>2. World
      BY <2>1, <2>2, <3>1 DEF World, KeptInv, Has, TypeOK
    <3>3. /\ pc' = [pc EXCEPT ![a] = "wipe"] /\ op' = [op EXCEPT ![a] = op[a]]
      BY <2>1, <2>2 DEF TypeOK
    <3>4. Shape("wipe", op[a]) /\ Keeps("wipe", op[a], kept', dir')
      BY <1>0, <2>1, <2>2, <3>1 DEF Keeps
    <3>5. "wipe" \in Steps
      BY DEF Steps
    <3> QED
      BY <1>0, <2>2, <3>2, <3>3, <3>4, <3>5, Preserved
  <2>3. CASE (\A n \in Names : ~Has(n)) /\ AfterWipe(a) /\ UNCHANGED <<files, kept>>
    <3>1. World
      BY <2>1, <2>3 DEF World, Has
    <3>2. CASE op[a].kind = "uninstall" /\ Continue(a, "unregister", op[a])
      <4>1. Shape("unregister", op[a])
        BY <1>0, <3>2 DEF Shape, Installing, Waiting
      <4>2. Keeps("unregister", op[a], kept', dir')
        BY <3>2 DEF Keeps, Installing
      <4>3. "unregister" \in Steps
        BY DEF Steps
      <4> QED
        BY <1>0, <3>1, <3>2, <4>1, <4>2, <4>3, Continued
    <3>3. CASE \E how : End(a, how)
      BY <1>0, <3>1, <3>3, Ended
    <3> QED
      BY <2>3, <3>2, <3>3 DEF AfterWipe
  <2> QED
    BY <1>5, <2>2, <2>3 DEF Wipe
<1>6. CASE WipeFails(a) \/ Unregister(a) \/ UnregisterFails(a)
  <2>1. (\E how : End(a, how)) /\ UNCHANGED <<dir, files, kept>>
    BY <1>6 DEF WipeFails, Unregister, UnregisterFails, disk
  <2> QED
    BY <2>1, Calm, Ended
<1> QED
  BY <1>1, <1>2, <1>3, <1>4, <1>5, <1>6

-----------------------------------------------------------------------------
\* The invariants.

\* The type invariant is inductive, with the shape of the operations.
LEMMA TypeNext ==
  ASSUME TypeOK, KeptInv, [Next]_vars
  PROVE  TypeOK'
<1> USE TypeParts, TypePartsNext
<1>1. ASSUME NEW a \in Actors, NEW kind \in Kinds \ {"connect"}, NEW delete \in BOOLEAN,
             BeginOperation(a, kind, delete)
      PROVE  TypeOK'
  <2> DEFINE step == IF kind = "remove" THEN "remove" ELSE "lock"
  <2>1. Continue(a, step, Fresh(kind, delete))
    BY <1>1 DEF BeginOperation, Begin
  <2>2. Fresh(kind, delete) \in Operation
    BY FreshTypes, LifecycleAssumption
  <2>3. step \in Steps
    BY DEF Steps
  <2>4. ActorsOK'
    BY <2>1, <2>2, <2>3, ContinueTypes
  <2>5. AppOK'
    BY <1>1 DEF BeginOperation, Begin, AppOK, disk, docker
  <2> QED
    BY <2>4, <2>5
<1>2. ASSUME NEW a \in Actors, Cancel(a)
      PROVE  TypeOK'
  <2>0. op[a] \in Operation
    BY DEF ActorsOK
  <2>1. [op[a] EXCEPT !.cancel = TRUE] \in Operation
    BY <2>0 DEF Operation
  <2>2. ActorsOK'
    BY <1>2, <2>1 DEF Cancel, ActorsOK
  <2>3. AppOK'
    BY <1>2 DEF Cancel, AppOK, disk, docker
  <2> QED
    BY <2>2, <2>3
<1>3. ASSUME NEW a \in Actors, Crash(a)
      PROVE  TypeOK'
  <2>1. op[a].run \in Run
    BY DEF ActorsOK, Operation
  <2>2. ActorsOK'
    BY <1>3, EndTypes DEF Crash, Reports
  <2>3. AppOK'
    BY <1>3, <2>1 DEF Crash, AppOK, disk
  <2> QED
    BY <2>2, <2>3
<1>4. CASE Connect
  BY <1>4 DEF Connect, AppOK, ActorsOK, disk, docker
<1>5. CASE OrphanEnds
  <2>1. orphan' \in Run /\ orphan \in Run
    BY <1>5 DEF OrphanEnds, Run, AppOK
  <2>2. AppOK'
    BY <1>5, <2>1, PartialTypes DEF OrphanEnds
  <2>3. ActorsOK'
    BY <1>5 DEF OrphanEnds, ActorsOK
  <2> QED
    BY <2>2, <2>3
<1>6. CASE UNCHANGED vars
  BY <1>6 DEF vars, AppOK, ActorsOK
<1>7. ASSUME NEW a \in Actors, Step(a)
      PROVE  TypeOK'
  <2>1. Shape(pc[a], op[a])
    BY DEF KeptInv
  <2> QED
    BY <1>7, <2>1, InstallTypes, CommandTypes, OtherTypes DEF Step
<1> QED
  BY <1>1, <1>2, <1>3, <1>4, <1>5, <1>6, <1>7 DEF Next

\* The invariant about kept data is inductive.
LEMMA KeptNext ==
  ASSUME TypeOK, KeptInv, [Next]_vars
  PROVE  KeptInv'
<1>1. ASSUME NEW a \in Actors, Step(a)
      PROVE  KeptInv'
  BY <1>1, WaitingKept, InstallKept, CommandKept, AfterKept DEF Step
<1>2. ASSUME NEW a \in Actors, Crash(a)
      PROVE  KeptInv'
  <2>1. End(a, "none") /\ UNCHANGED <<dir, files, kept>>
    BY <1>2 DEF Crash, disk
  <2> QED
    BY <2>1, Calm, Ended
<1>3. CASE Connect
  BY <1>3, Calm, Aside DEF Connect, disk
<1>4. CASE OrphanEnds
  BY <1>4, PartialWorld, Aside DEF OrphanEnds
<1>5. CASE UNCHANGED vars
  BY <1>5, Calm, Aside DEF vars
<1> QED
  BY <1>1, <1>2, <1>3, <1>4, <1>5, WaitingKept DEF Next

\* Every operation starts idle, on an app that is not there.
LEMMA InitHolds ==
  ASSUME Init
  PROVE  TypeOK /\ KeptInv
<1>1. NoOp \in Operation
  BY FreshTypes DEF NoOp, AllKinds
<1>2. TypeOK
  BY <1>1 DEF Init, TypeOK, Steps, Reports, Content, Run
<1>3. \A a \in Actors : Shape(pc[a], op[a]) /\ Keeps(pc[a], op[a], kept, dir)
  BY DEF Init, Shape, Keeps, NoOp, Fresh, Installing, Waiting
<1>4. HolderWorks
  BY DEF Init, HolderWorks
<1> QED
  BY <1>2, <1>3, <1>4 DEF Init, KeptInv, Has

\* The invariant holds in every reachable state.
LEMMA Invariant == Spec => [](TypeOK /\ KeptInv)
<1>1. Init => TypeOK /\ KeptInv
  BY InitHolds
<1>2. TypeOK /\ KeptInv /\ [Next]_vars => (TypeOK /\ KeptInv)'
  BY TypeNext, KeptNext
<1> QED
  BY <1>1, <1>2, PTL DEF Spec

\* Every step keeps the types of the app's state and of the operations'.
THEOREM LifecycleTypeOK == Spec => []TypeOK
  BY Invariant, PTL

\* Whatever fails, is cancelled or dies, an operation past its first look holds the
\* lock of the app, to the last step of its rollback: the guard lives in
\* PendingInstall until the commit or its drop.
THEOREM HolderAlwaysWorks == Spec => []HolderWorks
<1>1. KeptInv => HolderWorks
  BY DEF KeptInv
<1> QED
  BY <1>1, Invariant, PTL

\* A Docker command, whole or in part, removes data only with its volumes.
LEMMA CommandLoses ==
  ASSUME TypeOK, NEW r \in Run, Partial(r),
         \/ files["data"] # Missing /\ files'["data"] = Missing
         \/ vol # Missing /\ vol' = Missing
  PROVE  r.command = "downVolumes"
<1>1. CASE UNCHANGED <<files, vol>>
  BY <1>1
<1>2. CASE Starts(r.text)
  BY <1>2 DEF Starts, Filled, TypeOK, Names
<1>3. CASE UNCHANGED files /\ vol' = IF r.command = "downVolumes" THEN Missing ELSE vol
  BY <1>3
<1> QED
  BY <1>1, <1>2, <1>3 DEF Partial, Effect, disk

\* A command left behind that removes volumes was launched by an operation asked to
\* delete the data, or when there was nothing to keep.
LEMMA OrphanNext ==
  ASSUME TypeOK, KeptInv, OrphanInv, [Next]_vars
  PROVE  OrphanInv'
<1>1. ASSUME NEW a \in Actors, Crash(a)
      PROVE  OrphanInv'
  <2>1. CASE pc[a] = "running"
    <3>1. Keeps("running", op[a], kept, dir)
      BY <2>1 DEF KeptInv
    <3> QED
      BY <1>1, <2>1, <3>1 DEF Crash, OrphanInv, Keeps
  <2>2. CASE pc[a] # "running"
    BY <1>1, <2>2 DEF Crash, OrphanInv
  <2> QED
    BY <2>1, <2>2
<1>2. CASE OrphanEnds
  BY <1>2 DEF OrphanEnds, OrphanInv, NoRun
<1>3. ASSUME NEW a \in Actors, Step(a)
      PROVE  UNCHANGED orphan
  <2>1. CASE Remove(a) \/ Lock(a) \/ Busy(a) \/ Preflight(a) \/ Refuse(a) \/ Stage(a)
               \/ Unlink(a) \/ Rename(a) \/ Erase(a) \/ WriteFails(a)
    BY <2>1 DEF Remove, Lock, Enter, Busy, Preflight, Prepare, Refuse, Stage, Unlink, Rename,
                Erase, WriteFails, docker
  <2>2. CASE Launch(a) \/ Unlaunched(a) \/ Done(a) \/ DockerFails(a) \/ Kill(a)
    BY <2>2 DEF Launch, Unlaunched, Done, DockerFails, Kill, docker
  <2>3. CASE \/ Inspect(a) \/ NotInspected(a) \/ Healthy(a) \/ Unhealthy(a) \/ Commit(a)
             \/ CommitFails(a) \/ Wipe(a) \/ WipeFails(a) \/ Unregister(a) \/ UnregisterFails(a)
    BY <2>3 DEF Inspect, NotInspected, Healthy, Unhealthy, Commit, CommitFails, Wipe, WipeFails,
                Unregister, UnregisterFails, docker
  <2> QED
    BY <1>3, <2>1, <2>2, <2>3 DEF Step
<1>4. \/ \E a \in Actors : Step(a) \/ Crash(a)
      \/ OrphanEnds \/ UNCHANGED orphan
  BY DEF Next, BeginOperation, Begin, Cancel, Connect, vars, docker
<1> QED
  BY <1>1, <1>2, <1>3, <1>4 DEF OrphanInv

LEMMA OrphanInvariant == Spec => []OrphanInv
<1>1. Init => OrphanInv
  BY DEF Init, OrphanInv, NoRun
<1>2. (TypeOK /\ KeptInv) /\ OrphanInv /\ [Next]_vars => OrphanInv'
  BY OrphanNext
<1> QED
  BY <1>1, <1>2, Invariant, PTL DEF Spec

\* Data that is kept is lost only to an operation asked to delete it, or to a command
\* left behind.
LEMMA OnlyAskedLoses ==
  ASSUME TypeOK, KeptInv, OrphanInv, [Next]_vars, kept,
         \/ files["data"] # Missing /\ files'["data"] = Missing
         \/ vol # Missing /\ vol' = Missing
  PROVE  \/ \E a \in Actors : holder = a /\ op[a].delete
         \/ orphan.command = "downVolumes" /\ (orphan.asked \/ ~orphan.kept)
<1>1. ASSUME NEW a \in Actors, pc[a] = "running", Partial(op[a].run)
      PROVE  holder = a /\ op[a].delete
  <2>1. op[a].run \in Run
    BY DEF TypeOK, Operation
  <2>2. op[a].run.command = "downVolumes"
    BY <1>1, <2>1, CommandLoses
  <2> QED
    BY <1>1, <2>2, AtWork DEF Keeps, Waiting
<1>2. ASSUME NEW a \in Actors, pc[a] \in {"stage", "unlink", "rename", "erase"},
             UNCHANGED vol,
             \E n \in Names \ {"data"}, c \in Content, d \in Content :
               \/ files' = files
               \/ files' = [files EXCEPT ![n] = c]
               \/ files' = [files EXCEPT ![n] = c, !["temp"] = d]
      PROVE  FALSE
  BY <1>2 DEF TypeOK, Names
<1>3. ASSUME NEW a \in Actors, Stage(a) \/ Unlink(a) \/ Rename(a) \/ Erase(a) \/ WriteFails(a)
      PROVE  FALSE
  <2>1. op[a].file \in Names \ {"data"}
    BY AtWork DEF Operation, Shape
  <2>2. Written(op[a]) \in Content /\ Missing \in Content /\ Plain \in Content
    BY AtWork DEF Written, Operation, Content
  <2>3. {"temp", "compose"} \subseteq Names \ {"data"}
    BY DEF Names
  <2>4. CASE Stage(a)
    BY <1>2, <2>2, <2>3, <2>4 DEF Stage, docker
  <2>5. CASE Unlink(a)
    BY <1>2, <2>1, <2>2, <2>5 DEF Unlink, docker
  <2>6. CASE Rename(a)
    BY <1>2, <2>1, <2>2, <2>6 DEF Rename
  <2>7. CASE Erase(a)
    BY <1>2, <2>2, <2>3, <2>7 DEF Erase, docker
  <2>8. CASE WriteFails(a)
    BY <1>2, <2>2, <2>3, <2>8 DEF WriteFails, docker
  <2> QED
    BY <1>3, <2>4, <2>5, <2>6, <2>7, <2>8
<1>4. ASSUME NEW a \in Actors, Wipe(a)
      PROVE  FALSE
  <2>1. pc[a] = "wipe"
    BY <1>4 DEF Wipe
  <2> QED
    BY <2>1, AtWork DEF Keeps
<1>5. ASSUME NEW a \in Actors, Step(a)
      PROVE  \E b \in Actors : holder = b /\ op[b].delete
  <2>1. CASE Done(a) \/ DockerFails(a) \/ Kill(a)
    BY <1>1, <2>1 DEF Done, DockerFails, Kill, Partial
  <2>2. CASE UNCHANGED <<files, vol>>
    BY <2>2
  <2>3. \/ Done(a) \/ DockerFails(a) \/ Kill(a) \/ UNCHANGED <<files, vol>>
        \/ Stage(a) \/ Unlink(a) \/ Rename(a) \/ Erase(a) \/ WriteFails(a) \/ Wipe(a)
    BY <1>5 DEF Step, Remove, Lock, Enter, Busy, Preflight, Prepare, Refuse, Launch, Unlaunched,
                Inspect, NotInspected, Healthy, Unhealthy, Commit, CommitFails, WipeFails,
                Unregister, UnregisterFails, disk, docker
  <2> QED
    BY <1>3, <1>4, <2>1, <2>2, <2>3
<1>6. CASE OrphanEnds
  <2>1. orphan \in Run
    BY DEF TypeOK
  <2> QED
    BY <1>6, <2>1, CommandLoses DEF OrphanEnds, OrphanInv
<1>7. CASE UNCHANGED <<files, vol>>
  BY <1>7
<1>8. \/ \E a \in Actors : Step(a)
      \/ OrphanEnds \/ UNCHANGED <<files, vol>>
  BY DEF Next, BeginOperation, Begin, Cancel, Crash, Connect, vars, disk, docker
<1> QED
  BY <1>5, <1>6, <1>7, <1>8

\* Data of a saved app, in its directory or its volume, outlives every failure,
\* cancelled install, rollback and crash.  Only an operation asked to delete it removes
\* it; or the command a dead process left behind, which either belonged to such an
\* operation or was launched before there was anything to keep.
THEOREM KeptDataIsKept == Spec => KeptDataSurvives
<1>1. (TypeOK /\ KeptInv) /\ OrphanInv /\ [Next]_vars
        => [kept /\ ((files["data"] # Missing /\ files'["data"] = Missing)
                     \/ (vol # Missing /\ vol' = Missing))
              => \/ \E a \in Actors : holder = a /\ op[a].delete
                 \/ orphan.command = "downVolumes" /\ (orphan.asked \/ ~orphan.kept)]_vars
  BY OnlyAskedLoses
<1> QED
  BY <1>1, Invariant, OrphanInvariant, PTL DEF Spec, KeptDataSurvives

-----------------------------------------------------------------------------
\* Under the modules of the registry and of the lock.

\* How a step changes the entry and the holder: as a call of storage.rs does, and as a
\* call of lock_operation, or the end of a guard.
LEMMA EntryIsOf ==
  ASSUME [Next]_vars, reg' # reg
  PROVE  Connect \/ \E a \in Actors : Remove(a) \/ Commit(a) \/ Unregister(a)
<1>1. ASSUME NEW a \in Actors, Step(a)
      PROVE  Remove(a) \/ Commit(a) \/ Unregister(a)
  <2>1. ~(Lock(a) \/ Busy(a) \/ Preflight(a) \/ Refuse(a) \/ Stage(a) \/ Unlink(a) \/ Rename(a) \/ Erase(a) \/ WriteFails(a))
    BY DEF Lock, Enter, Busy, Preflight, Prepare, Refuse, Stage, Unlink, Rename, Erase, WriteFails
  <2>2. ~(Launch(a) \/ Unlaunched(a) \/ Done(a) \/ DockerFails(a) \/ Kill(a) \/ Inspect(a) \/ NotInspected(a))
    BY DEF Launch, Unlaunched, Done, DockerFails, Kill, Inspect, NotInspected
  <2>3. ~(Healthy(a) \/ Unhealthy(a) \/ CommitFails(a) \/ Wipe(a) \/ WipeFails(a) \/ UnregisterFails(a))
    BY DEF Healthy, Unhealthy, CommitFails, Wipe, WipeFails, UnregisterFails
  <2> QED
    BY <1>1, <2>1, <2>2, <2>3 DEF Step
<1>2. Connect \/ \E a \in Actors : Step(a)
  BY DEF Next, BeginOperation, Begin, Cancel, Crash, OrphanEnds, vars
<1> QED
  BY <1>1, <1>2

LEMMA EntryMoves ==
  ASSUME [Next]_vars
  PROVE  \/ reg' = reg
         \/ reg = "none" /\ reg' \in {"managed", "linked"}
         \/ reg # "none" /\ reg' = "none"
  BY EntryIsOf DEF Connect, Remove, Commit, Unregister

\* A step with the lock leads to a step with it, and one without to one without.
Moves(a) ==
  /\ holder' = holder
  /\ \E step : Goto(a, step) /\ (step \in Waiting <=> pc[a] \in Waiting)
Ends(a) == \E how : End(a, how)

LEMMA HolderMoves ==
  ASSUME [Next]_vars
  PROVE  UNCHANGED <<pc, holder>> \/ \E a \in Actors : Moves(a) \/ Ends(a) \/ Lock(a)
<1>1. ASSUME NEW a \in Actors, NEW step, NEW o, Continue(a, step, o), step \notin Waiting,
             pc[a] \notin Waiting
      PROVE  Moves(a)
  BY <1>1 DEF Continue, Moves
<1>2. ASSUME NEW a \in Actors, NEW how, Fail(a, how), pc[a] \notin Waiting
      PROVE  Moves(a) \/ Ends(a)
  BY <1>1, <1>2 DEF Fail, RollBack, Ends, Waiting
<1>3. ASSUME NEW a \in Actors, \/ Refuse(a) \/ Erase(a) \/ Remove(a) \/ Busy(a) \/ Crash(a)
                               \/ NotInspected(a) \/ Commit(a) \/ WipeFails(a)
                               \/ Unregister(a) \/ UnregisterFails(a)
      PROVE  Ends(a)
  BY <1>3 DEF Refuse, Erase, Remove, Busy, Crash, NotInspected, Commit, WipeFails, Unregister,
              UnregisterFails, Ends
<1>4. ASSUME NEW a \in Actors, Preflight(a) \/ Stage(a) \/ Unlink(a) \/ Launch(a)
                               \/ Inspect(a) \/ Healthy(a)
      PROVE  Moves(a)
  <2>1. CASE Preflight(a)
    BY <1>1, <2>1 DEF Preflight, Prepare, Waiting
  <2>2. CASE Stage(a)
    BY <1>1, <2>2 DEF Stage, Waiting
  <2>3. CASE Unlink(a)
    BY <2>3 DEF Unlink, Moves, Waiting
  <2>4. CASE Launch(a)
    BY <1>1, <2>4 DEF Launch, Waiting
  <2>5. CASE Inspect(a)
    BY <1>1, <2>5 DEF Inspect, Resume, ClearAway, Waiting
  <2>6. CASE Healthy(a)
    BY <1>1, <2>6 DEF Healthy, Waiting
  <2> QED
    BY <1>4, <2>1, <2>2, <2>3, <2>4, <2>5, <2>6
<1>5. ASSUME NEW a \in Actors, Rename(a) \/ WriteFails(a) \/ Unlaunched(a) \/ Done(a)
                               \/ DockerFails(a) \/ Kill(a) \/ Unhealthy(a) \/ CommitFails(a)
      PROVE  Moves(a) \/ Ends(a)
  <2>1. CASE Rename(a)
    BY <1>1, <2>1 DEF Rename, AfterRename, Ends, Waiting
  <2>2. CASE WriteFails(a)
    BY <1>1, <2>2 DEF WriteFails, RollBack, Ends, Waiting
  <2>3. CASE Unlaunched(a)
    BY <1>2, <2>3 DEF Unlaunched, Waiting
  <2>4. CASE Done(a)
    BY <1>1, <2>4 DEF Done, Succeed, RestoreFiles, Ends, Waiting
  <2>5. CASE DockerFails(a)
    BY <1>2, <2>5 DEF DockerFails, Waiting
  <2>6. CASE Kill(a)
    BY <1>1, <2>6 DEF Kill, RollBack, Waiting
  <2>7. CASE Unhealthy(a)
    BY <1>1, <2>7 DEF Unhealthy, RollBack, Ends, Waiting
  <2>8. CASE CommitFails(a)
    BY <1>1, <2>8 DEF CommitFails, Ends, Waiting
  <2> QED
    BY <1>5, <2>1, <2>2, <2>3, <2>4, <2>5, <2>6, <2>7, <2>8
<1>6. ASSUME NEW a \in Actors, Wipe(a)
      PROVE  UNCHANGED <<pc, holder>> \/ Moves(a) \/ Ends(a)
  <2>1. CASE AfterWipe(a)
    BY <1>1, <1>6, <2>1 DEF Wipe, AfterWipe, Ends, Waiting
  <2> QED
    BY <1>6, <2>1 DEF Wipe
<1>7. ASSUME NEW a \in Actors, NEW kind \in Kinds \ {"connect"}, NEW delete,
             BeginOperation(a, kind, delete)
      PROVE  Moves(a)
  BY <1>7 DEF BeginOperation, Begin, Continue, Moves, Waiting
<1>8. CASE OrphanEnds \/ Connect \/ (\E a \in Actors : Cancel(a)) \/ UNCHANGED vars
  BY <1>8 DEF OrphanEnds, Connect, Cancel, vars
<1> QED
  BY <1>3, <1>4, <1>5, <1>6, <1>7, <1>8 DEF Next, Step

\* The entry changes as the map of the registry promises, call by call, and by nothing
\* else: no rollback, crash or late command adds, replaces or removes it.
THEOREM LifecycleUsesRegistry == Spec => UsesRegistry
<1>1. Init => Registered!Init
  BY DEF Init, Registered!Init
<1>2. [Next]_vars => [Registered!Next]_[id \in {AppId} |-> reg]
  <2> SUFFICES ASSUME [Next]_vars, reg' # reg PROVE Registered!Next
    BY DEF AppId
  <2>1. CASE reg = "none" /\ reg' \in {"managed", "linked"}
    BY <2>1 DEF Registered!Next, Registered!Insert
  <2>2. CASE reg # "none" /\ reg' = "none"
    BY <2>2 DEF Registered!Next, Registered!Remove
  <2> QED
    BY <2>1, <2>2, EntryMoves
<1> QED
  BY <1>1, <1>2, PTL DEF Spec, UsesRegistry, Registered!Spec

\* An operation works on the app under the lock, from its first look to its last step,
\* and gives the lock back with its end or the death of its process, nobody else's:
\* which is how OperationLock lets its callers use it.
THEOREM LifecycleUsesLock == Spec => UsesLock
<1> DEFINE Owner == [id \in {AppId} |-> holder]
           Work == [a \in Actors |-> IF pc[a] \in Waiting THEN {} ELSE {AppId}]
<1>1. Init => Locked!Init
  BY DEF Init, Locked!Init, Waiting
<1>2. TypeOK /\ KeptInv /\ [Next]_vars => [Locked!Next]_<<Owner, Work>>
  <2> SUFFICES ASSUME TypeOK, KeptInv, [Next]_vars
               PROVE  Locked!Next \/ UNCHANGED <<Owner, Work>>
    OBVIOUS
  <2>1. CASE UNCHANGED <<pc, holder>>
    BY <2>1
  <2>2. ASSUME NEW a \in Actors, Moves(a)
        PROVE  UNCHANGED <<Owner, Work>>
    <3>1. \A b \in Actors : pc'[b] \in Waiting <=> pc[b] \in Waiting
      BY <2>2 DEF Moves, Goto, TypeOK
    <3> QED
      BY <2>2, <3>1 DEF Moves
  <2>3. ASSUME NEW a \in Actors, Ends(a)
        PROVE  Locked!Die(a)
    <3>1. /\ \A b \in Actors : pc'[b] = IF b = a THEN "idle" ELSE pc[b]
          /\ holder' = IF holder = a THEN NoActor ELSE holder
      BY <2>3 DEF Ends, End, Goto, TypeOK
    <3>2. Work' = [b \in Actors |-> IF b = a THEN {} ELSE Work[b]]
      BY <3>1 DEF Waiting
    <3> QED
      BY <3>1, <3>2 DEF Locked!Die
  <2>4. ASSUME NEW a \in Actors, Lock(a)
        PROVE  Locked!Take(a, AppId)
    <3>1. /\ holder = NoActor /\ holder' = a /\ pc[a] = "lock"
          /\ pc' = [pc EXCEPT ![a] = FirstStep(op[a].kind)]
      BY <2>4 DEF Lock, Enter, Goto
    <3>2. FirstStep(op[a].kind) \notin Waiting
      <4>1. op[a].kind \in AllKinds \ {"connect", "remove"}
        BY <3>1, AtWork DEF Shape
      <4> QED
        BY <4>1 DEF FirstStep, AllKinds, Installing, Waiting
    <3>3. \A b \in Actors : pc'[b] = IF b = a THEN FirstStep(op[a].kind) ELSE pc[b]
      BY <3>1 DEF TypeOK
    <3>4. Work' = [Work EXCEPT ![a] = @ \union {AppId}]
      BY <3>1, <3>2, <3>3
    <3>5. Owner[AppId] = NoActor /\ Owner' = [Owner EXCEPT ![AppId] = a]
      BY <3>1
    <3> QED
      BY <3>4, <3>5 DEF Locked!Take
  <2> QED
    BY <2>1, <2>2, <2>3, <2>4, HolderMoves DEF Locked!Next, AppId
<1> QED
  BY <1>1, <1>2, Invariant, PTL DEF Spec, UsesLock, Locked!Spec

-----------------------------------------------------------------------------
\* Operations and what they find, when no command outlives its caller.

OperableIn(f) == f["compose"] # Missing /\ f["engine"] # Missing
Looking == {"preflight", "inspect"}
Writing == {"stage", "unlink", "rename"}

\* Which phases of an operation o are before which step s, and what o has noted.
Phases(s, o) ==
  /\ s \in Waiting => ~o.found
  /\ s = "unregister" => o.kind = "uninstall"
  /\ o.phase = "forward" => /\ s # "erase"
                            /\ s = "wipe" => o.kind \in {"uninstall", "discard"}
  /\ o.phase # "forward" => /\ o.end \in {"failed", "cancelled"}
                            /\ s = "wipe" => o.created
                            /\ s = "running" => o.run.command \in {"down", "downVolumes"}
  /\ o.phase = "rollback" => s \in {"down", "running", "erase", "wipe"}
  /\ o.phase = "undo" => s \in {"down", "running", "wipe"}
  /\ o.phase = "restore" => /\ s \in Writing /\ ~o.created
                            /\ o.file = "compose" /\ o.text = o.old
  /\ s = "erase" => ~o.created /\ o.old = Missing

\* Files f, containers c, answers n, addresses w and entry r before step s of operation o:
\* a command has the files it was launched with, and an app is saved on those it runs on.
\* Where the app is rendered from its plan, files are changed while no container is up.
\* What found a saved app running, and leaves it alone, stops at its checks, or the entry
\* has gone since.
Finds(s, o, f, c, n, w, r) ==
  /\ Template /\ s \in Writing => c # "up"
  /\ o.phase = "restore" \/ s \in {"erase", "wipe"} => c = "none"
  /\ s = "running" => /\ OperableIn(f)
                      /\ o.run.text = f["compose"] /\ o.run.port = w["compose"]
  /\ s \in {"health", "commit"} => OperableIn(f)
  /\ s = "commit" => c = "up" /\ n
  /\ o.found /\ o.kind \in Harmless => IF s \in Looking THEN c = "up" ELSE r # "managed"

\* Containers that are up are those of the app's files, unless a recipe came in between.
Bound(f, c, w) ==
  Template /\ c = "up" => OperableIn(f) /\ w["compose"] = w["containers"]

QuietInv ==
  /\ orphan = NoRun
  /\ Bound(files, containers, address)
  /\ \A a \in Actors : /\ holder = a => pc[a] \notin Waiting
                       /\ Phases(pc[a], op[a])
                       /\ Finds(pc[a], op[a], files, containers, answers, address, reg)

-----------------------------------------------------------------------------
\* The directory and the entry, when only Docker and registry writes fail.

ReusableIn(f) == (f["compose"] # Missing => f["engine"] # Missing) /\ f["temp"] = Missing

\* The Compose file and the data carry the credential the secrets keep, and those of a
\* recipe none.
Key(f) == IF Template THEN f["secrets"] ELSE Plain
Keyed(f) == {f["compose"], f["data"]} \subseteq {Missing, Key(f)}

\* An uninstall whose registry write fails leaves a saved app without its files.
Recorded == "registry" \notin Faults

\* Between operations.
Sound(f, r) == ReusableIn(f) /\ Keyed(f) /\ (r = "managed" /\ Recorded => OperableIn(f))

\* Files f and entry r before step s of operation o.
Tidy(s, o, f, r) ==
  /\ s \notin {"unlink", "rename", "wipe"} => ReusableIn(f)
  /\ r = "managed" /\ Recorded =>
       \/ OperableIn(f)
       \/ s = "rename" /\ o.file = "compose" /\ f["engine"] # Missing
       \/ s \in {"wipe", "unregister"} /\ o.kind = "uninstall"
  /\ o.kind \in Installing /\ s # "preflight" /\ r = "managed" /\ Recorded
       => ~o.created /\ o.old # Missing
  /\ o.kind = "discard" /\ s # "inspect" => r # "managed"
  /\ s \in Writing => /\ o.text # Missing
                      /\ o.file \in {"engine", "compose", "secrets"}
                      /\ o.file # "engine" => f["engine"] # Missing
  /\ s \in {"unlink", "rename"} /\ o.file = "engine" => f["engine"] = Missing

\* The credentials in them: an install keeps those it finds.
Keys(s, o, f) ==
  /\ s \in Writing => {f["compose"], f["data"], Key(f)} \subseteq {Missing, o.text}
  /\ s \notin Writing \union {"wipe"} => Keyed(f)
  /\ o.kind \in Installing /\ s # "preflight" => o.old \in {Missing, o.text}
  /\ o.kind \in Installing /\ s \in {"up", "stop", "down", "running", "health", "commit"}
       => Key(f) = o.text
  /\ o.phase = "restore" => Key(f) = o.text

DiskInv ==
  /\ holder = NoActor => Sound(files, reg)
  /\ \A a \in Actors : holder = a => Tidy(pc[a], op[a], files, reg) /\ Keys(pc[a], op[a], files)

-----------------------------------------------------------------------------
\* QuietInv is kept.

\* What steps outside the lock, and all others, may do to the app.
Apart == UNCHANGED <<files, containers, answers, address>> /\ (reg' = "managed" => reg = "managed")

\* A step of actor a: the others hold no lock, or are left alone.
LEMMA QuietMoves ==
  ASSUME TypeOK, KeptInv, QuietInv, NEW a \in Actors, NEW step, NEW o,
         pc' = [pc EXCEPT ![a] = step], op' = [op EXCEPT ![a] = o],
         \/ holder' = holder
         \/ holder = NoActor /\ holder' = a
         \/ holder = a /\ holder' = NoActor,
         holder' = a => step \notin Waiting,
         holder = a \/ Apart,
         orphan' = NoRun, Bound(files', containers', address'),
         Phases(step, o), Finds(step, o, files', containers', answers', address', reg')
  PROVE  QuietInv'
<1>1. pc'[a] = step /\ op'[a] = o /\ \A b \in Actors \ {a} : pc'[b] = pc[b] /\ op'[b] = op[b]
  BY DEF TypeOK
<1>2. NoActor \notin Actors
  BY LifecycleAssumption
<1>3. ASSUME NEW b \in Actors
      PROVE  /\ holder' = b => pc'[b] \notin Waiting
             /\ Phases(pc'[b], op'[b])
             /\ Finds(pc'[b], op'[b], files', containers', answers', address', reg')
  <2>1. CASE b = a
    BY <1>1, <2>1
  <2>2. CASE b # a
    <3>1. /\ pc'[b] = pc[b] /\ op'[b] = op[b] /\ Phases(pc[b], op[b])
          /\ Finds(pc[b], op[b], files, containers, answers, address, reg)
          /\ holder = b => pc[b] \notin Waiting
          /\ pc[b] \notin Waiting => holder = b
      BY <1>1, <2>2, AtWork DEF QuietInv
    <3>2. holder' = b => holder = b
      BY <1>2, <2>2
    <3>3. Finds(pc[b], op[b], files', containers', answers', address', reg')
      <4>1. CASE Apart
        BY <3>1, <4>1 DEF Finds, Apart
      <4>2. CASE pc[b] \in Waiting
        BY <3>1, <4>2 DEF Finds, Phases, Waiting, Writing
      <4> QED
        BY <1>2, <2>2, <3>1, <4>1, <4>2
    <3> QED
      BY <3>1, <3>2, <3>3
  <2> QED
    BY <2>1, <2>2
<1> QED
  BY <1>3 DEF QuietInv

\* The holder goes on.
LEMMA QuietContinued ==
  ASSUME TypeOK, KeptInv, QuietInv, NEW a \in Actors, NEW step, NEW o,
         Continue(a, step, o), holder = a, step \notin Waiting,
         orphan' = NoRun, Bound(files', containers', address'),
         Phases(step, o), Finds(step, o, files', containers', answers', address', reg')
  PROVE  QuietInv'
  BY QuietMoves DEF Continue, Goto

\* An operation ends.
LEMMA QuietEnded ==
  ASSUME TypeOK, KeptInv, QuietInv, NEW a \in Actors, NEW how, End(a, how),
         holder = a \/ Apart,
         orphan' = NoRun, Bound(files', containers', address')
  PROVE  QuietInv'
<1>1. /\ pc' = [pc EXCEPT ![a] = "idle"] /\ op' = [op EXCEPT ![a] = NoOp]
      /\ holder' = IF holder = a THEN NoActor ELSE holder
  BY DEF End, Goto
<1>2. Phases("idle", NoOp)
  BY DEF Phases, NoOp, Fresh, Waiting
<1>3. Finds("idle", NoOp, files', containers', answers', address', reg')
  BY DEF Finds, NoOp, Fresh, Writing
<1>4. holder' # a
  BY <1>1, LifecycleAssumption
<1> HIDE DEF NoOp
<1> QED
  BY <1>1, <1>2, <1>3, <1>4, QuietMoves

\* What the invariant says of an operation at work.
LEMMA QuietAtWork ==
  ASSUME TypeOK, KeptInv, QuietInv, NEW a \in Actors
  PROVE  /\ op[a] \in Operation /\ op[a].kind \in AllKinds /\ Shape(pc[a], op[a])
         /\ pc[a] \notin Waiting <=> holder = a
         /\ Phases(pc[a], op[a])
         /\ Finds(pc[a], op[a], files, containers, answers, address, reg)
         /\ orphan = NoRun /\ Bound(files, containers, address)
  BY AtWork DEF QuietInv

\* An install rolls back.
LEMMA QuietRollBack ==
  ASSUME TypeOK, KeptInv, QuietInv, NEW a \in Actors, NEW how \in {"failed", "cancelled"},
         RollBack(a, how), op[a].kind \in Installing, pc[a] \notin Waiting \union Looking,
         orphan' = NoRun, Bound(files', containers', address'), UNCHANGED reg
  PROVE  QuietInv'
<1> DEFINE o == [op[a] EXCEPT !.phase = "rollback", !.end = how]
<1>1. Continue(a, "down", o)
  BY DEF RollBack
<1>2. o.kind = op[a].kind /\ o.found = op[a].found /\ o.phase = "rollback" /\ o.end = how
  BY QuietAtWork DEF Operation
<1> HIDE DEF o
<1>3. Phases("down", o)
  BY <1>2 DEF Phases, Waiting
<1>4. Finds("down", o, files', containers', answers', address', reg')
  BY <1>2, QuietAtWork DEF Finds, Writing, Looking
<1>5. "down" \notin Waiting
  BY DEF Waiting
<1> QED
  BY <1>1, <1>3, <1>4, <1>5, QuietAtWork, QuietContinued

\* A command failed, or was not launched.
LEMMA QuietFail ==
  ASSUME TypeOK, KeptInv, QuietInv, NEW a \in Actors, NEW how \in {"failed", "cancelled"},
         Fail(a, how), pc[a] \notin Waiting \union Looking,
         orphan' = NoRun, Bound(files', containers', address'), UNCHANGED reg
  PROVE  QuietInv'
<1>1. (RollBack(a, how) /\ op[a].kind \in Installing) \/ \E h : End(a, h)
  BY DEF Fail
<1> QED
  BY <1>1, QuietRollBack, QuietEnded, QuietAtWork

\* Steps before the lock is held, refusals, and cancel requests.
LEMMA QuietWaiting ==
  ASSUME TypeOK, KeptInv, QuietInv, NEW a \in Actors,
         \/ \E kind \in Kinds \ {"connect"}, delete \in BOOLEAN : BeginOperation(a, kind, delete)
         \/ Remove(a) \/ Lock(a) \/ Busy(a) \/ Cancel(a)
  PROVE  QuietInv'
<1>0. Apart /\ orphan' = NoRun /\ Bound(files', containers', address')
  BY QuietAtWork DEF BeginOperation, Begin, Remove, Lock, Enter, Busy, Cancel, disk, docker, Apart
<1>1. ASSUME NEW kind \in Kinds \ {"connect"}, NEW delete \in BOOLEAN,
             BeginOperation(a, kind, delete)
      PROVE  QuietInv'
  <2>1. PICK step \in {"remove", "lock"} :
          /\ pc[a] = "idle" /\ holder' = holder
          /\ pc' = [pc EXCEPT ![a] = step] /\ op' = [op EXCEPT ![a] = Fresh(kind, delete)]
    BY <1>1 DEF BeginOperation, Begin, Continue, Goto
  <2>2. Phases(step, Fresh(kind, delete))
    BY <2>1 DEF Phases, Fresh, Waiting
  <2>3. Finds(step, Fresh(kind, delete), files', containers', answers', address', reg')
    BY <2>1 DEF Finds, Fresh, Writing
  <2>4. holder # a
    BY <2>1, QuietAtWork DEF Waiting
  <2> QED
    BY <1>0, <2>1, <2>2, <2>3, <2>4, QuietMoves
<1>2. CASE Remove(a) \/ Busy(a)
  BY <1>0, <1>2, QuietEnded DEF Remove, Busy
<1>3. CASE Lock(a)
  <2> DEFINE o == [op[a] EXCEPT !.found = reg = "managed" /\ containers = "up"]
             step == FirstStep(op[a].kind)
  <2>1. /\ pc[a] = "lock" /\ holder = NoActor /\ holder' = a
        /\ pc' = [pc EXCEPT ![a] = step] /\ op' = [op EXCEPT ![a] = o]
    BY <1>3 DEF Lock, Enter, Goto
  <2>2. /\ o.kind = op[a].kind /\ o.phase = "forward" /\ (o.found => containers = "up")
        /\ o.created = op[a].created
    BY <2>1, QuietAtWork DEF Operation, Shape, Waiting
  <2>3. /\ step \in {"preflight", "inspect", "down", "stop", "up"}
        /\ op[a].kind \in Installing \union {"discard", "adopt"} => step \in Looking
    BY <2>1, QuietAtWork DEF Shape, FirstStep, AllKinds, Installing, Looking
  <2> HIDE DEF o, step
  <2>4. Phases(step, o)
    BY <2>2, <2>3 DEF Phases, Waiting
  <2>5. Finds(step, o, files', containers', answers', address', reg')
    BY <1>0, <2>2, <2>3 DEF Finds, Writing, Apart, Harmless
  <2>6. step \notin Waiting
    BY <2>3 DEF Waiting
  <2> QED
    BY <1>0, <2>1, <2>4, <2>5, <2>6, QuietMoves
<1>4. CASE Cancel(a)
  <2> DEFINE o == [op[a] EXCEPT !.cancel = TRUE]
  <2>1. /\ holder = a /\ holder' = a /\ UNCHANGED <<reg, containers, files, answers, address>>
        /\ pc' = [pc EXCEPT ![a] = pc[a]] /\ op' = [op EXCEPT ![a] = o]
    BY <1>4 DEF Cancel, disk, docker, TypeOK
  <2>2. /\ o.kind = op[a].kind /\ o.phase = op[a].phase /\ o.found = op[a].found
        /\ o.created = op[a].created /\ o.old = op[a].old /\ o.text = op[a].text
        /\ o.file = op[a].file /\ o.run = op[a].run /\ o.end = op[a].end
    BY QuietAtWork DEF Operation
  <2> HIDE DEF o
  <2>3. Phases(pc[a], o)
    BY <2>2, QuietAtWork DEF Phases
  <2>4. Finds(pc[a], o, files', containers', answers', address', reg')
    BY <2>1, <2>2, QuietAtWork DEF Finds
  <2> QED
    BY <1>0, <2>1, <2>3, <2>4, QuietAtWork, QuietMoves
<1> QED
  BY <1>1, <1>2, <1>3, <1>4


\* The steps of an install up to `up`, and the writes of its rollback.
LEMMA QuietInstall ==
  ASSUME TypeOK, KeptInv, QuietInv, NEW a \in Actors,
         \/ Preflight(a) \/ Refuse(a) \/ Stage(a) \/ Unlink(a) \/ Rename(a) \/ Erase(a)
         \/ WriteFails(a)
  PROVE  QuietInv'
<1>0. /\ op[a] \in Operation /\ Shape(pc[a], op[a]) /\ Phases(pc[a], op[a]) /\ holder = a
      /\ Finds(pc[a], op[a], files, containers, answers, address, reg)
      /\ Bound(files, containers, address)
      /\ orphan' = NoRun /\ UNCHANGED <<reg, containers, answers>>
  BY QuietAtWork DEF Preflight, Prepare, Refuse, Stage, Unlink, Rename, Erase, WriteFails, docker,
                     Waiting
<1>1. CASE Preflight(a)
  <2>1. PICK c \in Generated, port \in Offered :
          IsFree(port) /\ Continue(a, "stage", Settles(a, c, port))
    BY <1>1, PreflightSettles
  <2> DEFINE o == Settles(a, c, port)
  <2>2. pc[a] = "preflight" /\ UNCHANGED <<files, address>>
    BY <1>1 DEF Preflight, Prepare, docker
  <2>3. Template => containers # "up"
    BY <1>0, <2>1 DEF Bound, OperableIn, Offered, IsFree, Has
  <2>4. o.kind = op[a].kind /\ o.phase = "forward" /\ o.found = op[a].found
    BY <1>0, <2>2 DEF Settles, Operation, Shape
  <2> HIDE DEF o
  <2>5. Phases("stage", o)
    BY <2>4 DEF Phases, Waiting
  <2>6. ~(o.found /\ o.kind \in Harmless)
    BY <1>0, <2>2, <2>3, <2>4 DEF Finds, Looking, Shape, Harmless, Installing
  <2>7. Finds("stage", o, files', containers', answers', address', reg')
    BY <1>0, <2>2, <2>3, <2>4, <2>6 DEF Finds
  <2> QED
    BY <1>0, <2>1, <2>2, <2>5, <2>7, QuietContinued DEF o, Waiting
<1>2. CASE Refuse(a)
  BY <1>0, <1>2, QuietEnded DEF Refuse, disk, docker
<1>3. CASE Stage(a) \/ Unlink(a)
  <2>0. pc[a] \in {"stage", "unlink"} /\ (Template => containers # "up") /\ UNCHANGED address
    BY <1>0, <1>3 DEF Stage, Unlink, Finds, Writing, docker
  <2>1. PICK step \in Writing :
          \/ /\ op' = [op EXCEPT ![a] = op[a]]
             /\ pc' = [pc EXCEPT ![a] = step] /\ holder' = holder
          \/ /\ Continue(a, step, [op[a] EXCEPT !.file = "compose"])
             /\ op[a].file = "engine"
    BY <1>0, <1>3 DEF Stage, Unlink, Continue, Goto, Writing, TypeOK
  <2>2. ASSUME NEW o, o.kind = op[a].kind, o.found = op[a].found, o.phase = op[a].phase,
               o.end = op[a].end, o.created = op[a].created, o.text = op[a].text,
               o.old = op[a].old, o.run = op[a].run,
               o.file = op[a].file \/ op[a].file = "engine"
        PROVE  Phases(step, o) /\ Finds(step, o, files', containers', answers', address', reg')
    <3>1. Phases(step, o)
      BY <1>0, <2>0, <2>2 DEF Phases, Writing, Waiting
    <3>2. Finds(step, o, files', containers', answers', address', reg')
      BY <1>0, <2>0, <2>2 DEF Finds, Writing, Looking
    <3> QED
      BY <3>1, <3>2
  <2>3. Bound(files', containers', address')
    BY <1>0, <2>0 DEF Bound
  <2>4. step \notin Waiting
    BY DEF Writing, Waiting
  <2>5. CASE op' = [op EXCEPT ![a] = op[a]] /\ pc' = [pc EXCEPT ![a] = step] /\ holder' = holder
    <3>1. Phases(step, op[a]) /\ Finds(step, op[a], files', containers', answers', address', reg')
      BY <2>2
    <3> QED
      BY <1>0, <2>3, <2>4, <2>5, <3>1, QuietMoves
  <2>6. CASE Continue(a, step, [op[a] EXCEPT !.file = "compose"]) /\ op[a].file = "engine"
    <3> DEFINE o == [op[a] EXCEPT !.file = "compose"]
    <3>1. /\ o.kind = op[a].kind /\ o.found = op[a].found /\ o.phase = op[a].phase
          /\ o.end = op[a].end /\ o.created = op[a].created /\ o.text = op[a].text
          /\ o.old = op[a].old /\ o.run = op[a].run
      BY <1>0 DEF Operation
    <3> HIDE DEF o
    <3>2. Phases(step, o) /\ Finds(step, o, files', containers', answers', address', reg')
      BY <2>2, <2>6, <3>1
    <3> QED
      BY <1>0, <2>3, <2>4, <2>6, <3>2, QuietContinued DEF o
  <2> QED
    BY <2>1, <2>5, <2>6
<1>4. CASE Rename(a)
  <2>1. pc[a] = "rename" /\ (Template => containers # "up") /\ AfterRename(a)
    BY <1>0, <1>4 DEF Rename, Finds, Writing
  <2>2. Bound(files', containers', address')
    BY <1>0, <2>1 DEF Bound
  <2>3. CASE op[a].phase = "restore"
    BY <1>0, <2>1, <2>2, <2>3, QuietEnded DEF AfterRename
  <2>4. CASE op[a].phase # "restore"
    <3>1. PICK step \in {"stage", "up"}, file \in Names :
            Continue(a, step, [op[a] EXCEPT !.file = file])
      <4>1. op[a].file \in Names /\ [op[a] EXCEPT !.file = op[a].file] = op[a]
        BY <1>0 DEF Operation
      <4>2. {"compose", "secrets"} \subseteq Names
        BY DEF Names
      <4>3. \/ Continue(a, "stage", [op[a] EXCEPT !.file = "compose"])
            \/ Continue(a, "stage", [op[a] EXCEPT !.file = "secrets"])
            \/ Continue(a, "up", op[a])
        BY <2>1, <2>4 DEF AfterRename
      <4> QED
        BY <4>1, <4>2, <4>3
    <3> DEFINE o == [op[a] EXCEPT !.file = file]
    <3>2. o.kind = op[a].kind /\ o.found = op[a].found /\ o.phase = op[a].phase
      BY <1>0 DEF Operation
    <3>3. o.phase = "forward" /\ o.kind \in Installing
      BY <1>0, <2>1, <2>4, <3>2 DEF Phases, Shape, Operation
    <3> HIDE DEF o
    <3>4. Phases(step, o)
      BY <3>3 DEF Phases, Waiting
    <3>5. Finds(step, o, files', containers', answers', address', reg')
      BY <1>0, <2>1, <3>2, <3>3 DEF Finds, Writing, Looking
    <3> QED
      BY <1>0, <2>2, <3>1, <3>4, <3>5, QuietContinued DEF o, Waiting
  <2> QED
    BY <2>3, <2>4
<1>5. CASE Erase(a)
  <2>1. Bound(files', containers', address')
    BY <1>0, <1>5 DEF Erase, Finds, Bound
  <2> QED
    BY <1>0, <1>5, <2>1, QuietEnded DEF Erase
<1>6. CASE WriteFails(a)
  <2>1. /\ pc[a] \in {"stage", "unlink", "rename", "erase"} /\ (Template => containers # "up")
        /\ op[a].kind \in Installing
    BY <1>0, <1>6 DEF WriteFails, Finds, Writing, Shape
  <2>2. RollBack(a, "failed") \/ \E how : End(a, how)
    BY <1>6 DEF WriteFails
  <2>3. Bound(files', containers', address')
    BY <1>0, <2>1 DEF Bound
  <2> QED
    BY <1>0, <2>1, <2>2, <2>3, QuietRollBack, QuietEnded DEF Waiting, Looking
<1> QED
  BY <1>1, <1>2, <1>3, <1>4, <1>5, <1>6

\* What a command leaves, while its files are there.
LEMMA PartialLeaves ==
  ASSUME TypeOK, NEW r \in Run, Partial(r), OperableIn(files), r.port = address["compose"],
         Bound(files, containers, address)
  PROVE  OperableIn(files') /\ Bound(files', containers', address')
<1>1. OperableIn(files')
  BY DEF Partial, Effect, Starts, Filled, OperableIn, disk, TypeOK, Names
<1>2. CASE UNCHANGED <<disk, vol, containers, answers, address, kept>>
  BY <1>1, <1>2 DEF Bound, disk
<1>3. CASE containers' # "up"
  BY <1>1, <1>3 DEF Bound
<1>4. CASE r.command = "up" /\ address' = [address EXCEPT !["containers"] = r.port]
  BY <1>1, <1>4 DEF Bound, TypeOK
<1> QED
  BY <1>1, <1>2, <1>3, <1>4 DEF Partial, Effect

\* The steps of a Docker command.
LEMMA QuietCommand ==
  ASSUME TypeOK, KeptInv, QuietInv, NEW a \in Actors,
         Launch(a) \/ Unlaunched(a) \/ Done(a) \/ DockerFails(a) \/ Kill(a)
  PROVE  QuietInv'
<1>0. /\ op[a] \in Operation /\ Shape(pc[a], op[a]) /\ Phases(pc[a], op[a]) /\ holder = a
      /\ Finds(pc[a], op[a], files, containers, answers, address, reg)
      /\ pc[a] \in {"up", "stop", "down", "running"}
      /\ orphan' = NoRun /\ UNCHANGED reg /\ op[a].run \in Run
  BY QuietAtWork DEF Launch, Unlaunched, Done, DockerFails, Kill, docker, Waiting, Operation
<1>1. CASE Launch(a)
  <2> DEFINE o == [op[a] EXCEPT !.run = RunOf(a)]
  <2>1. /\ o.kind = op[a].kind /\ o.found = op[a].found /\ o.phase = op[a].phase
        /\ o.end = op[a].end /\ o.run = RunOf(a)
    BY <1>0 DEF Operation
  <2>2. /\ Continue(a, "running", o) /\ UNCHANGED <<files, containers, answers, address>>
        /\ OperableIn(files) /\ pc[a] \in {"up", "stop", "down"}
    BY <1>1 DEF Launch, disk, docker, Operable, Has, OperableIn
  <2> HIDE DEF o
  <2>3. RunOf(a).text = files["compose"] /\ RunOf(a).port = address["compose"]
        /\ (pc[a] = "down" => RunOf(a).command \in {"down", "downVolumes"})
    BY DEF RunOf
  <2>4. Phases("running", o)
    <3>1. op[a].phase = "forward" \/ (op[a].phase \in {"rollback", "undo"} /\ pc[a] = "down")
      <4>1. op[a].phase \in {"forward", "rollback", "restore", "undo"}
        BY <1>0 DEF Operation
      <4> QED
        BY <1>0, <2>2, <4>1 DEF Phases, Writing
    <3> QED
      BY <1>0, <2>1, <2>3, <3>1 DEF Phases, Waiting
  <2>5. Finds("running", o, files', containers', answers', address', reg')
    BY <1>0, <2>1, <2>2, <2>3 DEF Finds, Writing, Looking, Phases
  <2>6. Bound(files', containers', address')
    BY <2>2, QuietAtWork
  <2> QED
    BY <1>0, <2>2, <2>4, <2>5, <2>6, QuietContinued DEF Waiting
<1>2. CASE Unlaunched(a)
  <2>1. UNCHANGED <<files, containers, address>> /\ \E how \in {"failed", "cancelled"} : Fail(a, how)
    BY <1>2 DEF Unlaunched, disk, docker
  <2> QED
    BY <1>0, <2>1, QuietFail, QuietAtWork DEF Waiting, Looking
<1>3. CASE Done(a) \/ DockerFails(a) \/ Kill(a)
  <2>1. /\ pc[a] = "running" /\ Partial(op[a].run) /\ OperableIn(files')
        /\ Bound(files', containers', address')
    BY <1>0, <1>3, PartialLeaves, QuietAtWork DEF Done, DockerFails, Kill, Partial, Finds
  <2>2. CASE DockerFails(a)
    BY <1>0, <2>1, <2>2, QuietFail DEF DockerFails, Waiting, Looking
  <2>3. CASE Kill(a)
    <3>1. op[a].kind \in Installing
      BY <1>0, <2>3 DEF Kill, Shape
    <3> QED
      BY <1>0, <2>1, <2>3, <3>1, QuietRollBack DEF Kill, Waiting, Looking
  <2>4. CASE Done(a)
    <3>1. op[a].run.command \in {"down", "downVolumes"} => containers' = "none"
      BY <2>4 DEF Done, Effect
    <3>2. CASE op[a].phase = "forward" /\ Continue(a, "health", op[a])
      <4>1. Phases("health", op[a]) /\ Finds("health", op[a], files', containers', answers', address', reg')
        BY <1>0, <2>1, <3>2 DEF Phases, Finds, Waiting, Writing, Looking
      <4> QED
        BY <1>0, <2>1, <3>2, <4>1, QuietContinued DEF Waiting
    <3>3. CASE /\ Continue(a, "wipe", op[a])
               /\ op[a].phase # "forward" => op[a].created
               /\ op[a].phase = "forward" => op[a].kind \in {"uninstall", "discard"}
      <4>1. op[a].run.command \in {"down", "downVolumes"} /\ op[a].phase # "restore"
        BY <1>0, <2>1, <3>3 DEF Phases, Shape, Writing, Operation
      <4>2. Phases("wipe", op[a]) /\ Finds("wipe", op[a], files', containers', answers', address', reg')
        BY <1>0, <2>1, <3>1, <3>3, <4>1 DEF Phases, Finds, Waiting, Writing, Looking
      <4> QED
        BY <1>0, <2>1, <3>3, <4>2, QuietContinued DEF Waiting
    <3>4. CASE Continue(a, "unregister", op[a]) /\ op[a].kind = "uninstall"
      <4>1. op[a].phase = "forward"
        BY <1>0, <3>4 DEF Shape, Installing
      <4>2. Phases("unregister", op[a]) /\ Finds("unregister", op[a], files', containers', answers', address', reg')
        BY <1>0, <2>1, <3>4, <4>1 DEF Phases, Finds, Waiting, Writing, Looking
      <4> QED
        BY <1>0, <2>1, <3>4, <4>2, QuietContinued DEF Waiting
    <3>5. CASE /\ Continue(a, "erase", op[a]) /\ op[a].phase = "rollback"
               /\ ~op[a].created /\ op[a].old = Missing
      <4>1. containers' = "none"
        BY <1>0, <2>1, <3>1, <3>5 DEF Phases
      <4>2. Phases("erase", op[a]) /\ Finds("erase", op[a], files', containers', answers', address', reg')
        BY <1>0, <2>1, <3>5, <4>1 DEF Phases, Finds, Waiting, Writing, Looking
      <4> QED
        BY <1>0, <2>1, <3>5, <4>2, QuietContinued DEF Waiting
    <3>6. CASE /\ op[a].phase = "rollback" /\ ~op[a].created
               /\ Continue(a, "stage", [op[a] EXCEPT !.phase = "restore", !.file = "compose",
                                                     !.text = op[a].old,
                                                     !.port = op[a].oldPort])
      <4> DEFINE o == [op[a] EXCEPT !.phase = "restore", !.file = "compose", !.text = op[a].old,
                                    !.port = op[a].oldPort]
      <4>1. /\ o.kind = op[a].kind /\ o.found = op[a].found /\ o.phase = "restore"
            /\ o.file = "compose" /\ o.text = op[a].old /\ o.old = op[a].old
            /\ o.created = op[a].created /\ o.end = op[a].end
        BY <1>0 DEF Operation
      <4> HIDE DEF o
      <4>2. containers' = "none"
        BY <1>0, <2>1, <3>1, <3>6 DEF Phases
      <4>3. Phases("stage", o)
        BY <1>0, <3>6, <4>1 DEF Phases, Waiting, Writing
      <4>4. Finds("stage", o, files', containers', answers', address', reg')
        BY <1>0, <2>1, <4>1, <4>2 DEF Finds, Writing, Looking
      <4> QED
        BY <1>0, <2>1, <3>6, <4>3, <4>4, QuietContinued DEF o, Waiting
    <3>7. CASE \E how : End(a, how)
      BY <1>0, <2>1, <3>7, QuietEnded
    <3>8. Succeed(a)
      BY <2>4 DEF Done
    <3>9. op[a].kind = "adopt" => op[a].phase = "forward"
      BY <1>0 DEF Shape, Installing
    <3>10. op[a].kind \in {"uninstall", "discard"} => op[a].phase = "forward"
      BY <1>0 DEF Shape, Installing
    <3> QED
      BY <3>2, <3>3, <3>4, <3>5, <3>6, <3>7, <3>8, <3>9, <3>10 DEF Succeed, RestoreFiles
  <2> QED
    BY <1>3, <2>2, <2>3, <2>4
<1> QED
  BY <1>1, <1>2, <1>3


\* The steps after the commands.
LEMMA QuietAfter ==
  ASSUME TypeOK, KeptInv, QuietInv, NEW a \in Actors,
         \/ Inspect(a) \/ NotInspected(a) \/ Healthy(a) \/ Unhealthy(a) \/ Commit(a)
         \/ CommitFails(a) \/ Wipe(a) \/ WipeFails(a) \/ Unregister(a) \/ UnregisterFails(a)
  PROVE  QuietInv'
<1>0. /\ op[a] \in Operation /\ Shape(pc[a], op[a]) /\ Phases(pc[a], op[a]) /\ holder = a
      /\ Finds(pc[a], op[a], files, containers, answers, address, reg)
      /\ pc[a] \in {"inspect", "health", "commit", "wipe", "unregister"}
      /\ orphan' = NoRun /\ UNCHANGED <<containers, answers, address>>
  BY QuietAtWork DEF Inspect, NotInspected, Healthy, Unhealthy, Commit, CommitFails, Wipe, WipeFails,
                     Unregister, UnregisterFails, docker, Waiting
<1>1. CASE Inspect(a)
  <2>1. /\ pc[a] = "inspect" /\ reg = "none" /\ UNCHANGED <<reg, files>>
        /\ \E step \in {"up", "down"} : Continue(a, step, op[a])
    BY <1>1 DEF Inspect, Candidate, Resume, ClearAway, disk
  <2>2. PICK step \in {"up", "down"} : Continue(a, step, op[a])
    BY <2>1
  <2>3. op[a].phase = "forward"
    BY <1>0, <2>1 DEF Shape
  <2>4. Phases(step, op[a])
    BY <2>3 DEF Phases, Waiting
  <2>5. Finds(step, op[a], files', containers', answers', address', reg')
    BY <2>1, <2>3 DEF Finds, Writing, Looking
  <2> QED
    BY <1>0, <2>1, <2>2, <2>4, <2>5, QuietAtWork, QuietContinued DEF Waiting
<1>2. CASE Healthy(a)
  <2>1. /\ pc[a] = "health" /\ Continue(a, "commit", op[a]) /\ containers = "up" /\ answers
        /\ UNCHANGED <<reg, files>>
    BY <1>2 DEF Healthy, disk
  <2>2. Phases("commit", op[a]) /\ Finds("commit", op[a], files', containers', answers', address', reg')
    BY <1>0, <2>1 DEF Phases, Finds, Waiting, Writing, Looking
  <2> QED
    BY <1>0, <2>1, <2>2, QuietAtWork, QuietContinued DEF Waiting
<1>3. CASE Unhealthy(a)
  <2>1. pc[a] = "health" /\ UNCHANGED <<reg, files>>
    BY <1>3 DEF Unhealthy, disk
  <2>2. \/ \E how \in {"failed", "cancelled"} : RollBack(a, how) /\ op[a].kind \in Installing
        \/ \E how : End(a, how)
    BY <1>0, <1>3, <2>1 DEF Unhealthy, Shape
  <2> QED
    BY <1>0, <2>1, <2>2, QuietAtWork, QuietRollBack, QuietEnded DEF Waiting, Looking
<1>4. CASE CommitFails(a)
  <2>1. pc[a] = "commit" /\ UNCHANGED <<reg, files>>
    BY <1>4 DEF CommitFails, disk
  <2>2. CASE \E how : End(a, how)
    BY <1>0, <2>1, <2>2, QuietAtWork, QuietEnded
  <2>3. CASE Continue(a, "down", [op[a] EXCEPT !.phase = "undo", !.end = "failed"])
    <3> DEFINE o == [op[a] EXCEPT !.phase = "undo", !.end = "failed"]
    <3>1. o.kind = op[a].kind /\ o.found = op[a].found /\ o.phase = "undo" /\ o.end = "failed"
      BY <1>0 DEF Operation
    <3> HIDE DEF o
    <3>2. Phases("down", o) /\ Finds("down", o, files', containers', answers', address', reg')
      BY <1>0, <2>1, <3>1 DEF Phases, Finds, Waiting, Writing, Looking
    <3> QED
      BY <1>0, <2>1, <2>3, <3>2, QuietAtWork, QuietContinued DEF o, Waiting
  <2> QED
    BY <1>4, <2>2, <2>3 DEF CommitFails
<1>5. CASE NotInspected(a) \/ Commit(a) \/ WipeFails(a) \/ Unregister(a) \/ UnregisterFails(a)
  <2>1. UNCHANGED files /\ \E how : End(a, how)
    BY <1>5 DEF NotInspected, Commit, WipeFails, Unregister, UnregisterFails, disk
  <2> QED
    BY <1>0, <2>1, QuietAtWork, QuietEnded
<1>6. CASE Wipe(a)
  <2>1. /\ pc[a] = "wipe" /\ containers = "none" /\ UNCHANGED reg
        /\ Bound(files', containers', address')
    BY <1>0, <1>6 DEF Wipe, Finds, Bound
  <2>2. CASE UNCHANGED <<pc, op, holder>>
    <3>1. Finds("wipe", op[a], files', containers', answers', address', reg') /\ Phases("wipe", op[a])
      BY <1>0, <2>1 DEF Finds, Writing, Looking
    <3>2. pc' = [pc EXCEPT ![a] = "wipe"] /\ op' = [op EXCEPT ![a] = op[a]]
      BY <2>1, <2>2 DEF TypeOK
    <3> QED
      BY <1>0, <2>1, <2>2, <3>1, <3>2, QuietMoves DEF Waiting
  <2>3. CASE op[a].kind = "uninstall" /\ Continue(a, "unregister", op[a])
    <3>1. op[a].phase = "forward"
      BY <1>0, <2>3 DEF Shape, Installing
    <3>2. Phases("unregister", op[a]) /\ Finds("unregister", op[a], files', containers', answers', address', reg')
      BY <1>0, <2>1, <2>3, <3>1 DEF Phases, Finds, Waiting, Writing, Looking
    <3> QED
      BY <1>0, <2>1, <2>3, <3>2, QuietContinued DEF Waiting
  <2>4. CASE \E how : End(a, how)
    BY <1>0, <2>1, <2>4, QuietEnded
  <2> QED
    BY <1>6, <2>2, <2>3, <2>4 DEF Wipe, AfterWipe
<1> QED
  BY <1>1, <1>2, <1>3, <1>4, <1>5, <1>6

\* Every step keeps QuietInv, when nobody dies.
LEMMA QuietNext ==
  ASSUME "crash" \notin Faults, TypeOK, KeptInv, QuietInv, [Next]_vars
  PROVE  QuietInv'
<1>1. ASSUME NEW a \in Actors, Step(a) \/ Cancel(a)
      PROVE  QuietInv'
  BY <1>1, QuietWaiting, QuietInstall, QuietCommand, QuietAfter DEF Step
<1>2. CASE Connect \/ UNCHANGED vars
  <2>1. Apart /\ UNCHANGED <<pc, op, holder, orphan>>
    BY <1>2 DEF Connect, Apart, vars, disk, docker
  <2>2. ASSUME NEW b \in Actors
        PROVE  Finds(pc[b], op[b], files', containers', answers', address', reg')
    BY <2>1, QuietAtWork DEF Finds, Apart
  <2> QED
    BY <2>1, <2>2 DEF QuietInv, Apart
<1>3. ~OrphanEnds /\ \A a \in Actors : ~Crash(a)
  BY DEF QuietInv, OrphanEnds, Crash
<1> QED
  BY <1>1, <1>2, <1>3, QuietWaiting DEF Next

LEMMA QuietInvariant ==
  ASSUME "crash" \notin Faults
  PROVE  Spec => []QuietInv
<1>1. Init => QuietInv
  BY LifecycleAssumption DEF Init, QuietInv, Bound, Phases, Finds, NoOp, Fresh, Waiting, Writing
<1>2. QuietInv /\ TypeOK /\ KeptInv /\ [Next]_vars => QuietInv'
  BY QuietNext
<1> QED
  BY <1>1, <1>2, Invariant, PTL DEF Spec


-----------------------------------------------------------------------------
\* What follows, as long as nobody dies.

\* An install from its plan, a discard or an adoption that finds the app saved and running
\* stops at its checks, also when entries come and go beside it: the port of the Compose
\* file is the one the app runs on, and taken, or the entry is there.
THEOREM RunningAppIsLeftAlone ==
  ASSUME "crash" \notin Faults
  PROVE  Spec => []RunningAppUntouched
<1>1. QuietInv => RunningAppUntouched
  BY DEF QuietInv, Finds, RunningAppUntouched, Looking
<1> QED
  BY <1>1, QuietInvariant, PTL

\* What an app of one service, rendered from its plan, leaves running without an entry has
\* its Compose file and its engine file: discard and adopt find it.
THEOREM RunsCanBeTakenBack ==
  ASSUME "crash" \notin Faults, Template = TRUE, MultiService = FALSE
  PROVE  Spec => []UnsavedRunsAreRecoverable
<1>1. QuietInv => UnsavedRunsAreRecoverable
  BY DEF QuietInv, Bound, UnsavedRunsAreRecoverable, Candidate, Operable, Has, OperableIn,
         Verified
<1> QED
  BY <1>1, QuietInvariant, PTL

\* An app is saved by the operation that saw it answer, and nothing stops it in between.
THEOREM SavedAppsAnswer ==
  ASSUME "crash" \notin Faults
  PROVE  Spec => SavedWhenReady
<1>1. QuietInv /\ [Next]_vars
        => [reg # "managed" /\ reg' = "managed" => containers = "up" /\ answers]_vars
  <2>1. ASSUME QuietInv, [Next]_vars, reg # "managed", reg' = "managed"
        PROVE  \E a \in Actors : Commit(a)
    BY <2>1, EntryIsOf DEF Connect, Remove, Unregister
  <2> QED
    BY <2>1 DEF Commit, QuietInv, Finds
<1> QED
  BY <1>1, QuietInvariant, PTL DEF Spec, SavedWhenReady

\* How the operation that lets the lock go ends.
LEMMA EndsUndone ==
  ASSUME TypeOK, KeptInv, QuietInv, Next, "crash" \notin Faults,
         NEW a \in Actors, holder = a, op[a].kind \in Installing, pc[a] # "preflight",
         holder' # a, report'[a] \in {"failed", "cancelled"}
  PROVE  /\ containers' = "none"
         /\ op[a].created => ~dir'
         /\ ~op[a].created /\ op[a].phase # "undo" => files'["compose"] = op[a].old
<1>0. /\ op[a] \in Operation /\ Shape(pc[a], op[a]) /\ Phases(pc[a], op[a])
      /\ Finds(pc[a], op[a], files, containers, answers, address, reg) /\ pc[a] \notin Waiting
      /\ pc[a] \in Steps
  BY QuietAtWork DEF TypeOK
<1>1. Step(a)
  <2>1. ASSUME NEW b \in Actors, Step(b) \/ Cancel(b), b # a
        PROVE  FALSE
    <3>1. holder # b /\ pc[b] \in Waiting /\ holder # NoActor
      BY <2>1, QuietAtWork, LifecycleAssumption
    <3>2. Remove(b) \/ Busy(b)
      BY <2>1, <3>1 DEF Step, Remove, Lock, Busy, Preflight, Refuse, Stage, Unlink, Rename, Erase,
         WriteFails, Launch, Unlaunched, Done, DockerFails, Kill, Inspect, NotInspected, Healthy,
         Unhealthy, Commit, CommitFails, Wipe, WipeFails, Unregister, UnregisterFails, Cancel, Waiting
    <3> QED
      BY <2>1, <3>1, <3>2 DEF Remove, Busy, End
  <2>2. ~Cancel(a) /\ ~Connect /\ ~OrphanEnds /\ \A b \in Actors : ~Crash(b)
    BY DEF Cancel, Connect, OrphanEnds, Crash
  <2>3. \A b \in Actors, kind \in Kinds, delete \in BOOLEAN : ~BeginOperation(b, kind, delete)
    BY DEF BeginOperation, Begin, Continue
  <2> QED
    BY <2>1, <2>2, <2>3 DEF Next
<1>2. \A how : End(a, how) => report'[a] = how
  BY DEF End, TypeOK
<1>3. \A step, o : ~Continue(a, step, o)
  BY DEF Continue
<1>4. \A how : ~RollBack(a, how)
  BY <1>3 DEF RollBack
<1>5. CASE Rename(a)
  <2>1. /\ op[a].phase = "restore" /\ UNCHANGED <<dir, containers>>
        /\ files' = [files EXCEPT ![op[a].file] = Written(op[a]), !["temp"] = Missing]
    BY <1>3, <1>5 DEF Rename, AfterRename
  <2>2. /\ containers = "none" /\ ~op[a].created /\ op[a].file = "compose"
        /\ Written(op[a]) = op[a].old
    BY <1>0, <2>1 DEF Finds, Phases, Written
  <2> QED
    BY <2>1, <2>2 DEF TypeOK, Names
<1>6. CASE Erase(a)
  <2>1. pc[a] = "erase" /\ files' = [files EXCEPT !["compose"] = Missing] /\ UNCHANGED containers
    BY <1>6 DEF Erase, docker
  <2> QED
    BY <1>0, <2>1 DEF Finds, Phases, TypeOK, Names
<1>7. CASE Done(a)
  <2>1. pc[a] = "running" /\ Succeed(a) /\ Effect(op[a].run)
    BY <1>7 DEF Done
  <2>2. op[a].phase = "undo" /\ ~op[a].created
    <3>1. op[a].kind \notin {"adopt", "uninstall", "discard"}
      BY DEF Installing
    <3>2. op[a].phase \in {"forward", "rollback", "restore", "undo"}
      BY <1>0 DEF Operation
    <3>3. op[a].phase # "restore"
      BY <1>0, <2>1 DEF Phases, Writing
    <3> QED
      BY <1>3, <2>1, <3>1, <3>2, <3>3 DEF Succeed, RestoreFiles
  <2>3. op[a].run.command \in {"down", "downVolumes"}
    BY <1>0, <2>1, <2>2 DEF Phases
  <2> QED
    BY <2>1, <2>2, <2>3 DEF Effect
<1>8. CASE Wipe(a)
  <2>1. pc[a] = "wipe" /\ dir' = FALSE /\ UNCHANGED containers
    BY <1>8 DEF Wipe, docker
  <2>2. containers = "none" /\ op[a].created
    BY <1>0, <2>1 DEF Finds, Phases, Installing
  <2> QED
    BY <2>1, <2>2
<1>9. CASE Unlaunched(a) \/ DockerFails(a) \/ Kill(a)
  BY <1>2, <1>4, <1>9 DEF Unlaunched, DockerFails, Kill, Fail
<1>10. CASE \/ Remove(a) \/ Lock(a) \/ Busy(a) \/ Preflight(a) \/ Refuse(a) \/ Stage(a) \/ Unlink(a)
            \/ WriteFails(a) \/ Launch(a) \/ Inspect(a) \/ NotInspected(a) \/ Healthy(a)
            \/ Unhealthy(a) \/ Commit(a) \/ CommitFails(a) \/ WipeFails(a)
            \/ Unregister(a) \/ UnregisterFails(a)
  <2>1. pc[a] \notin Waiting \union {"preflight", "inspect", "unregister"}
    BY <1>0 DEF Shape, Phases, Installing
  <2>2. op[a].kind # "adopt"
    BY DEF Installing
  <2> QED
    BY <1>2, <1>3, <1>4, <1>10, <2>1, <2>2
    DEF Remove, Lock, Busy, Preflight, Refuse, Stage, Unlink, WriteFails, Launch, Inspect,
        NotInspected, Healthy, Unhealthy, Commit, CommitFails, WipeFails, Unregister, UnregisterFails,
        Waiting, Continue, Prepare
<1> QED
  BY <1>1, <1>5, <1>6, <1>7, <1>8, <1>9, <1>10 DEF Step

\* An install that reports a failure, or that it was cancelled, and not that its rollback
\* failed, has taken its containers down and its files back, whatever failed meanwhile.
THEOREM FailedInstallsAreUndone ==
  ASSUME "crash" \notin Faults
  PROVE  Spec => FailureIsUndone
<1>1. QuietInv /\ TypeOK /\ KeptInv /\ [Next]_vars
        => [\A a \in Actors :
              /\ holder = a /\ op[a].kind \in Installing /\ pc[a] # "preflight"
              /\ holder' # a /\ report'[a] \in {"failed", "cancelled"}
              => /\ containers' = "none"
                 /\ op[a].created => ~dir'
                 /\ ~op[a].created /\ op[a].phase # "undo" => files'["compose"] = op[a].old]_vars
  BY EndsUndone
<1> QED
  BY <1>1, Invariant, QuietInvariant, PTL DEF Spec, FailureIsUndone


-----------------------------------------------------------------------------
\* DiskInv is kept.

\* The holder goes on.
LEMMA DiskMoves ==
  ASSUME TypeOK, KeptInv, NEW a \in Actors, NEW step, NEW o,
         pc' = [pc EXCEPT ![a] = step], op' = [op EXCEPT ![a] = o], holder' = a,
         Tidy(step, o, files', reg'), Keys(step, o, files')
  PROVE  DiskInv'
<1>1. pc'[a] = step /\ op'[a] = o /\ a # NoActor
  BY LifecycleAssumption DEF TypeOK
<1> QED
  BY <1>1 DEF DiskInv

LEMMA DiskContinued ==
  ASSUME TypeOK, KeptInv, NEW a \in Actors, NEW step, NEW o,
         Continue(a, step, o), holder = a,
         Tidy(step, o, files', reg'), Keys(step, o, files')
  PROVE  DiskInv'
  BY DiskMoves DEF Continue, Goto

\* The holder ends.
LEMMA DiskEnded ==
  ASSUME NEW a \in Actors, NEW how, End(a, how), holder = a, Sound(files', reg')
  PROVE  DiskInv'
<1>1. holder' = NoActor /\ NoActor \notin Actors
  BY LifecycleAssumption DEF End
<1> QED
  BY <1>1 DEF DiskInv

\* Someone else moves.
LEMMA DiskApart ==
  ASSUME TypeOK, DiskInv, Apart, UNCHANGED holder,
         \A b \in Actors : holder = b => pc'[b] = pc[b] /\ op'[b] = op[b]
  PROVE  DiskInv'
<1>1. ASSUME NEW b \in Actors, holder' = b
      PROVE  Tidy(pc'[b], op'[b], files', reg') /\ Keys(pc'[b], op'[b], files')
  <2>1. /\ Tidy(pc[b], op[b], files, reg) /\ Keys(pc[b], op[b], files)
        /\ pc'[b] = pc[b] /\ op'[b] = op[b]
        /\ files' = files /\ (reg' = "managed" => reg = "managed")
    BY <1>1 DEF DiskInv, Apart
  <2> QED
    BY <2>1 DEF Tidy
<1>2. holder' = NoActor => Sound(files', reg')
  BY DEF DiskInv, Sound, Apart
<1> QED
  BY <1>1, <1>2 DEF DiskInv

\* A step at which an operation may end.
LEMMA Settled ==
  ASSUME NEW s, NEW o, NEW f, NEW r, s \notin Writing \union {"wipe", "unregister"},
         Tidy(s, o, f, r), Keys(s, o, f)
  PROVE  Sound(f, r)
  BY DEF Tidy, Keys, Sound, Writing

\* What the invariants say of an operation at work.
LEMMA DiskAtWork ==
  ASSUME TypeOK, KeptInv, QuietInv, DiskInv, NEW a \in Actors, pc[a] \notin Waiting
  PROVE  /\ op[a] \in Operation /\ op[a].kind \in AllKinds /\ Shape(pc[a], op[a])
         /\ holder = a /\ Phases(pc[a], op[a])
         /\ Finds(pc[a], op[a], files, containers, answers, address, reg)
         /\ Tidy(pc[a], op[a], files, reg) /\ Keys(pc[a], op[a], files)
         /\ op[a].run \in Run
  BY QuietAtWork DEF DiskInv, Operation

\* An install rolls back.
LEMMA DiskRollBack ==
  ASSUME TypeOK, KeptInv, QuietInv, NEW a \in Actors, NEW how, NEW s,
         RollBack(a, how), op[a].kind \in Installing, holder = a,
         s \in {"up", "stop", "down", "running", "health", "commit"},
         Tidy(s, op[a], files', reg'), Keys(s, op[a], files')
  PROVE  DiskInv'
<1> DEFINE o == [op[a] EXCEPT !.phase = "rollback", !.end = how]
<1>1. Continue(a, "down", o)
  BY DEF RollBack
<1>2. /\ o.kind = op[a].kind /\ o.created = op[a].created /\ o.old = op[a].old
      /\ o.text = op[a].text /\ o.phase = "rollback"
  BY QuietAtWork DEF Operation
<1> HIDE DEF o
<1>3. Tidy("down", o, files', reg')
  BY <1>2 DEF Tidy, Writing
<1>4. Keys("down", o, files')
  BY <1>2 DEF Keys, Writing
<1> QED
  BY <1>1, <1>3, <1>4, DiskContinued

\* A command failed, or was not launched.
LEMMA DiskFail ==
  ASSUME TypeOK, KeptInv, QuietInv, NEW a \in Actors, NEW how, NEW s,
         Fail(a, how), holder = a, s \in {"up", "stop", "down", "running"},
         Tidy(s, op[a], files', reg'), Keys(s, op[a], files')
  PROVE  DiskInv'
<1>1. (RollBack(a, how) /\ op[a].kind \in Installing) \/ \E h : End(a, h)
  BY DEF Fail
<1>2. Sound(files', reg')
  BY Settled DEF Writing
<1> QED
  BY <1>1, <1>2, DiskRollBack, DiskEnded

\* Steps before the lock is held, refusals, and cancel requests.
LEMMA DiskWaiting ==
  ASSUME TypeOK, KeptInv, QuietInv, DiskInv, NEW a \in Actors,
         \/ \E kind \in Kinds \ {"connect"}, delete \in BOOLEAN : BeginOperation(a, kind, delete)
         \/ Remove(a) \/ Lock(a) \/ Busy(a) \/ Cancel(a)
  PROVE  DiskInv'
<1>0. Apart
  BY DEF BeginOperation, Begin, Remove, Lock, Enter, Busy, Cancel, disk, docker, Apart
<1>1. CASE \/ \E kind \in Kinds \ {"connect"}, delete \in BOOLEAN : BeginOperation(a, kind, delete)
           \/ Remove(a) \/ Busy(a)
  <2>1. pc[a] \in Waiting
    BY <1>1 DEF BeginOperation, Begin, Remove, Busy, Waiting
  <2>2. holder # a
    BY <2>1, QuietAtWork
  <2>3. UNCHANGED holder /\ \A b \in Actors \ {a} : pc'[b] = pc[b] /\ op'[b] = op[b]
    BY <1>1, <2>2 DEF BeginOperation, Begin, Continue, Remove, Busy, End, Goto, TypeOK
  <2> QED
    BY <1>0, <2>2, <2>3, DiskApart
<1>2. CASE Lock(a)
  <2> DEFINE o == [op[a] EXCEPT !.found = reg = "managed" /\ containers = "up"]
             step == FirstStep(op[a].kind)
  <2>1. /\ pc[a] = "lock" /\ holder = NoActor /\ holder' = a /\ UNCHANGED <<files, reg>>
        /\ pc' = [pc EXCEPT ![a] = step] /\ op' = [op EXCEPT ![a] = o]
    BY <1>2 DEF Lock, Enter, Goto, disk
  <2>2. o.kind = op[a].kind /\ o.phase = "forward"
    BY <2>1, QuietAtWork DEF Operation, Shape, Waiting
  <2>3. /\ step \in {"preflight", "inspect", "down", "stop", "up"}
        /\ op[a].kind \in Installing => step = "preflight"
        /\ op[a].kind = "discard" => step = "inspect"
    BY <2>1, QuietAtWork DEF Shape, FirstStep, AllKinds, Installing
  <2> HIDE DEF o, step
  <2>4. Sound(files', reg')
    BY <2>1 DEF DiskInv
  <2>5. Tidy(step, o, files', reg')
    BY <2>2, <2>3, <2>4 DEF Tidy, Sound, Writing
  <2>6. Keys(step, o, files')
    BY <2>2, <2>3, <2>4 DEF Keys, Sound, Writing, Installing
  <2> QED
    BY <2>1, <2>5, <2>6, DiskMoves
<1>3. CASE Cancel(a)
  <2> DEFINE o == [op[a] EXCEPT !.cancel = TRUE]
  <2>1. /\ holder = a /\ holder' = a /\ UNCHANGED <<reg, files>>
        /\ pc' = [pc EXCEPT ![a] = pc[a]] /\ op' = [op EXCEPT ![a] = o]
    BY <1>3 DEF Cancel, disk, docker, TypeOK
  <2>2. /\ o.kind = op[a].kind /\ o.phase = op[a].phase
        /\ o.created = op[a].created /\ o.old = op[a].old /\ o.text = op[a].text
        /\ o.file = op[a].file
    BY QuietAtWork DEF Operation
  <2>3. Tidy(pc[a], op[a], files, reg) /\ Keys(pc[a], op[a], files)
    BY <2>1 DEF DiskInv
  <2> HIDE DEF o
  <2>4. Tidy(pc[a], o, files', reg')
    BY <2>1, <2>2, <2>3 DEF Tidy
  <2>5. Keys(pc[a], o, files')
    BY <2>1, <2>2, <2>3 DEF Keys
  <2> QED
    BY <2>1, <2>4, <2>5, DiskMoves
<1> QED
  BY <1>1, <1>2, <1>3


\* The steps of an install up to `up`, and the writes of its rollback.
LEMMA DiskInstall ==
  ASSUME TypeOK, KeptInv, QuietInv, DiskInv, NEW a \in Actors,
         Preflight(a) \/ Refuse(a) \/ Stage(a) \/ Unlink(a) \/ Rename(a) \/ Erase(a)
  PROVE  DiskInv'
<1>0. /\ op[a] \in Operation /\ Shape(pc[a], op[a]) /\ Phases(pc[a], op[a]) /\ holder = a
      /\ Tidy(pc[a], op[a], files, reg) /\ Keys(pc[a], op[a], files) /\ UNCHANGED reg
      /\ op[a].kind \in Installing
      /\ files \in [Names -> Content]
  <2>1. pc[a] \in {"preflight", "stage", "unlink", "rename", "erase"} /\ UNCHANGED reg
    BY DEF Preflight, Prepare, Refuse, Stage, Unlink, Rename, Erase
  <2> QED
    BY <2>1, DiskAtWork DEF Waiting, Shape, TypeOK
<1>1. CASE Preflight(a)
  <2>1. PICK c \in Generated, port \in Offered : Continue(a, "stage", Settles(a, c, port))
    BY <1>1, PreflightSettles
  <2> DEFINE o == Settles(a, c, port)
  <2>2. pc[a] = "preflight" /\ UNCHANGED files
    BY <1>1 DEF Preflight, Prepare
  <2>3. /\ o.kind = op[a].kind /\ o.phase = "forward" /\ o.file = "engine"
        /\ o.created = ~dir /\ o.old = files["compose"] /\ o.text = c
    BY <1>0, <2>2 DEF Settles, Operation, Shape
  <2> HIDE DEF o
  <2>4. /\ c # Missing /\ Key(files) \in {Missing, c}
        /\ files["compose"] # Missing => dir
    BY LifecycleAssumption DEF KeptInv, Generated, Key, Has, Names
  <2>5. ReusableIn(files) /\ Keyed(files) /\ (reg = "managed" /\ Recorded => OperableIn(files))
    BY <1>0, <2>2 DEF Tidy, Keys, Writing
  <2>6. Tidy("stage", o, files', reg')
    BY <1>0, <2>2, <2>3, <2>4, <2>5 DEF Tidy, OperableIn, Installing
  <2>7. Keys("stage", o, files')
    BY <2>2, <2>3, <2>4, <2>5 DEF Keys, Keyed, Writing
  <2> QED
    BY <1>0, <2>1, <2>6, <2>7, DiskContinued DEF o
<1>2. CASE Refuse(a)
  <2>1. pc[a] = "preflight" /\ UNCHANGED files /\ \E how : End(a, how)
    BY <1>2 DEF Refuse, disk
  <2>2. Sound(files', reg')
    BY <1>0, <2>1, Settled DEF Writing
  <2> QED
    BY <1>0, <2>1, <2>2, DiskEnded
<1>3. CASE Stage(a)
  <2>1. pc[a] = "stage"
    BY <1>3 DEF Stage
  <2>2. CASE /\ op[a].file = "engine" /\ Has("engine") /\ UNCHANGED files
             /\ Continue(a, "stage", [op[a] EXCEPT !.file = "compose"])
    <3> DEFINE o == [op[a] EXCEPT !.file = "compose"]
    <3>1. /\ o.kind = op[a].kind /\ o.phase = op[a].phase /\ o.file = "compose"
          /\ o.created = op[a].created /\ o.old = op[a].old /\ o.text = op[a].text
      BY <1>0 DEF Operation
    <3> HIDE DEF o
    <3>2. Tidy("stage", o, files', reg')
      BY <1>0, <2>1, <2>2, <3>1 DEF Tidy, Has
    <3>3. Keys("stage", o, files')
      BY <1>0, <2>1, <2>2, <3>1 DEF Keys
    <3> QED
      BY <1>0, <2>2, <3>2, <3>3, DiskContinued DEF o
  <2>3. CASE /\ op[a].file = "engine" => ~Has("engine")
             /\ Continue(a, "unlink", op[a])
             /\ files' = [files EXCEPT !["temp"] = Plain]
    <3>1. \A n \in Names \ {"temp"} : files'[n] = files[n]
      BY <1>0, <2>3
    <3>2. files'["compose"] = files["compose"] /\ files'["engine"] = files["engine"]
          /\ files'["secrets"] = files["secrets"] /\ files'["data"] = files["data"]
      BY <3>1 DEF Names
    <3>3. Tidy("unlink", op[a], files', reg')
      BY <1>0, <2>1, <2>3, <3>2 DEF Tidy, Has, OperableIn, Writing
    <3>4. Keys("unlink", op[a], files')
      BY <1>0, <2>1, <2>3, <3>2 DEF Keys, Key, Writing
    <3> QED
      BY <1>0, <2>3, <3>3, <3>4, DiskContinued
  <2> QED
    BY <1>3, <2>2, <2>3 DEF Stage
<1>4. CASE Unlink(a)
  <2>1. /\ pc[a] = "unlink" /\ files' = [files EXCEPT ![op[a].file] = Missing]
        /\ pc' = [pc EXCEPT ![a] = "rename"] /\ op' = [op EXCEPT ![a] = op[a]] /\ holder' = a
    BY <1>0, <1>4 DEF Unlink, Goto, TypeOK
  <2>2. op[a].file \in {"engine", "compose", "secrets"}
    BY <1>0, <2>1 DEF Tidy, Writing
  <2>3. /\ files'[op[a].file] = Missing
        /\ \A n \in Names \ {op[a].file} : files'[n] = files[n]
    BY <1>0, <2>1, <2>2 DEF Names
  <2>4. Tidy("rename", op[a], files', reg')
    BY <1>0, <2>1, <2>2, <2>3 DEF Tidy, OperableIn, Writing, Names
  <2>5. Keys("rename", op[a], files')
    BY <1>0, <2>1, <2>2, <2>3 DEF Keys, Key, Writing, Names, Phases
  <2> QED
    BY <2>1, <2>4, <2>5, DiskMoves
<1>5. CASE Rename(a)
  <2> DEFINE o == op[a]
  <2>1. /\ pc[a] = "rename"
        /\ files' = [files EXCEPT ![op[a].file] = Written(op[a]), !["temp"] = Missing]
    BY <1>5 DEF Rename
  <2>2. op[a].file \in {"engine", "compose", "secrets"} /\ op[a].text # Missing /\ Plain # Missing
    BY <1>0, <2>1, LifecycleAssumption DEF Tidy, Writing
  <2>3. /\ files'[op[a].file] = Written(op[a]) /\ files'["temp"] = Missing
        /\ \A n \in Names \ {op[a].file, "temp"} : files'[n] = files[n]
    BY <1>0, <2>1, <2>2 DEF Names
  <2>4. /\ op[a].file = "engine" => files'["engine"] = Plain
        /\ op[a].file # "engine" => files'[op[a].file] = op[a].text
    BY <2>3 DEF Written
  <2>5. /\ ReusableIn(files') /\ files'["engine"] # Missing
        /\ reg = "managed" /\ Recorded => OperableIn(files') /\ ~op[a].created /\ op[a].old # Missing
    BY <1>0, <2>1, <2>2, <2>3, <2>4 DEF Tidy, OperableIn, ReusableIn, Writing, Names
  <2>6. /\ {files'["compose"], files'["data"], Key(files')} \subseteq {Missing, op[a].text}
        /\ op[a].old \in {Missing, op[a].text}
        /\ op[a].phase = "restore" \/ ~Template \/ op[a].file = "secrets"
             => Key(files') = op[a].text
    <3>1. /\ {files["compose"], files["data"], Key(files)} \subseteq {Missing, op[a].text}
          /\ op[a].old \in {Missing, op[a].text}
          /\ op[a].phase = "restore" => Key(files) = op[a].text /\ op[a].file = "compose"
      BY <1>0, <2>1 DEF Keys, Writing, Phases
    <3>2. files'["compose"] \in {files["compose"], op[a].text} /\ files'["data"] = files["data"]
      BY <2>2, <2>3, <2>4 DEF Names
    <3>3. Key(files') = IF Template /\ op[a].file = "secrets" THEN op[a].text ELSE Key(files)
      BY <2>2, <2>3, <2>4 DEF Key, Names
    <3>4. ~Template => Key(files) = op[a].text
      BY <2>2, <3>1 DEF Key
    <3> QED
      BY <3>1, <3>2, <3>3, <3>4
  <2>7. CASE op[a].phase = "restore"
    <3>1. Sound(files', reg')
      BY <1>0, <2>5, <2>6, <2>7 DEF Sound, Keyed
    <3> QED
      BY <1>0, <1>5, <2>7, <3>1, DiskEnded DEF Rename, AfterRename
  <2>8. CASE /\ op[a].phase # "restore" /\ op[a].file # "secrets"
             /\ \E file \in {"compose", "secrets"} :
                  Continue(a, "stage", [op[a] EXCEPT !.file = file])
    <3>1. PICK file \in {"compose", "secrets"} : Continue(a, "stage", [op[a] EXCEPT !.file = file])
      BY <2>8
    <3> DEFINE p == [op[a] EXCEPT !.file = file]
    <3>2. /\ p.kind = op[a].kind /\ p.phase = op[a].phase /\ p.file = file
          /\ p.created = op[a].created /\ p.old = op[a].old /\ p.text = op[a].text
      BY <1>0 DEF Operation
    <3> HIDE DEF p
    <3>3. Tidy("stage", p, files', reg')
      BY <1>0, <2>2, <2>5, <3>2 DEF Tidy, Installing
    <3>4. Keys("stage", p, files')
      BY <1>0, <2>6, <3>2 DEF Keys, Writing
    <3> QED
      BY <1>0, <3>1, <3>3, <3>4, DiskContinued DEF p
  <2>9. CASE /\ op[a].phase # "restore" /\ (~Template \/ op[a].file = "secrets")
             /\ Continue(a, "up", op[a])
    <3>1. Tidy("up", op[a], files', reg')
      BY <1>0, <2>2, <2>5, <2>9 DEF Tidy, Installing, Writing
    <3>2. Keys("up", op[a], files')
      BY <1>0, <2>6, <2>9 DEF Keys, Keyed, Writing
    <3> QED
      BY <1>0, <2>9, <3>1, <3>2, DiskContinued
  <2> QED
    BY <1>5, <2>2, <2>7, <2>8, <2>9 DEF Rename, AfterRename
<1>6. CASE Erase(a)
  <2>1. /\ pc[a] = "erase" /\ files' = [files EXCEPT !["compose"] = Missing]
        /\ \E how : End(a, how)
    BY <1>6 DEF Erase
  <2>2. op[a].old = Missing
    BY <1>0, <2>1 DEF Phases
  <2>3. files'["compose"] = Missing /\ \A n \in Names \ {"compose"} : files'[n] = files[n]
    BY <1>0, <2>1 DEF Names
  <2>4. Sound(files', reg')
    BY <1>0, <2>1, <2>2, <2>3 DEF Sound, Tidy, Keys, Keyed, Key, ReusableIn, Names, Writing
  <2> QED
    BY <1>0, <2>1, <2>4, DiskEnded
<1> QED
  BY <1>1, <1>2, <1>3, <1>4, <1>5, <1>6


\* A command that carries the Compose file's credential initialises no data but with it.
LEMMA CommandKeeps ==
  ASSUME TypeOK, NEW o, NEW s, o.run \in Run, Partial(o.run), UNCHANGED reg,
         OperableIn(files), o.run.text = files["compose"],
         s = "running", Tidy(s, o, files, reg), Keys(s, o, files)
  PROVE  Tidy(s, o, files', reg') /\ Keys(s, o, files') /\ OperableIn(files')
<1>1. files' = files \/ files' = [files EXCEPT !["data"] = Filled(@, o.run.text)]
  BY DEF Partial, Effect, Starts, disk
<1>2. /\ \A n \in Names \ {"data"} : files'[n] = files[n]
      /\ files'["data"] \in {files["data"], files["compose"]}
  BY <1>1 DEF Filled, TypeOK, Names
<1>3. Key(files') = Key(files)
  BY <1>2 DEF Key, Names
<1>4. Keyed(files')
  BY <1>2, <1>3 DEF Keys, Keyed, Writing, Names
<1> QED
  BY <1>2, <1>3, <1>4 DEF Tidy, Keys, OperableIn, ReusableIn, Writing, Names

\* The steps of a Docker command.
LEMMA DiskCommand ==
  ASSUME TypeOK, KeptInv, QuietInv, DiskInv, NEW a \in Actors,
         Launch(a) \/ Unlaunched(a) \/ Done(a) \/ DockerFails(a) \/ Kill(a)
  PROVE  DiskInv'
<1>0. /\ op[a] \in Operation /\ Shape(pc[a], op[a]) /\ Phases(pc[a], op[a]) /\ holder = a
      /\ Finds(pc[a], op[a], files, containers, answers, address, reg)
      /\ Tidy(pc[a], op[a], files, reg) /\ Keys(pc[a], op[a], files)
      /\ UNCHANGED reg /\ op[a].run \in Run /\ pc[a] \in {"up", "stop", "down", "running"}
  BY DiskAtWork DEF Launch, Unlaunched, Done, DockerFails, Kill, Waiting
<1>1. CASE Launch(a)
  <2> DEFINE o == [op[a] EXCEPT !.run = RunOf(a)]
  <2>1. /\ o.kind = op[a].kind /\ o.phase = op[a].phase /\ o.created = op[a].created
        /\ o.old = op[a].old /\ o.text = op[a].text
    BY <1>0 DEF Operation
  <2>2. Continue(a, "running", o) /\ UNCHANGED files /\ pc[a] \in {"up", "stop", "down"}
    BY <1>1 DEF Launch, disk
  <2> HIDE DEF o
  <2>3. Tidy("running", o, files', reg')
    BY <1>0, <2>1, <2>2 DEF Tidy, Writing
  <2>4. Keys("running", o, files')
    BY <1>0, <2>1, <2>2 DEF Keys, Writing
  <2> QED
    BY <1>0, <2>2, <2>3, <2>4, DiskContinued
<1>2. CASE Unlaunched(a)
  <2>1. UNCHANGED files /\ pc[a] \in {"up", "stop", "down"} /\ \E how : Fail(a, how)
    BY <1>2 DEF Unlaunched, disk
  <2> QED
    BY <1>0, <2>1, DiskFail
<1>3. CASE Done(a) \/ DockerFails(a) \/ Kill(a)
  <2>1. pc[a] = "running" /\ Partial(op[a].run)
    BY <1>3 DEF Done, DockerFails, Kill, Partial
  <2>2. /\ Tidy("running", op[a], files', reg') /\ Keys("running", op[a], files')
        /\ OperableIn(files')
    BY <1>0, <2>1, CommandKeeps DEF Finds
  <2>3. Sound(files', reg')
    BY <2>2, Settled DEF Writing
  <2>4. CASE DockerFails(a)
    BY <1>0, <2>2, <2>4, DiskFail DEF DockerFails
  <2>5. CASE Kill(a)
    <3>1. op[a].kind \in Installing
      BY <1>0, <2>5 DEF Kill, Shape
    <3> QED
      BY <1>0, <2>2, <2>5, <3>1, DiskRollBack DEF Kill
  <2>6. CASE Done(a)
    <3>0. op[a].phase # "restore"
      BY <1>0, <2>1 DEF Phases, Writing
    <3>1. ASSUME NEW step \in {"health", "wipe", "unregister", "erase"}, Continue(a, step, op[a])
          PROVE  DiskInv'
      <4>1. Tidy(step, op[a], files', reg')
        BY <2>2, <3>1 DEF Tidy, Writing
      <4>2. Keys(step, op[a], files')
        BY <2>2, <3>0, <3>1 DEF Keys, Writing
      <4> QED
        BY <1>0, <3>1, <4>1, <4>2, DiskContinued
    <3>2. CASE /\ op[a].kind \in Installing /\ op[a].phase = "rollback" /\ op[a].old # Missing
               /\ Continue(a, "stage", [op[a] EXCEPT !.phase = "restore", !.file = "compose",
                                                     !.text = op[a].old,
                                                     !.port = op[a].oldPort])
      <4> DEFINE o == [op[a] EXCEPT !.phase = "restore", !.file = "compose", !.text = op[a].old,
                                    !.port = op[a].oldPort]
      <4>1. /\ o.kind = op[a].kind /\ o.phase = "restore" /\ o.file = "compose"
            /\ o.text = op[a].old /\ o.old = op[a].old /\ o.created = op[a].created
        BY <1>0 DEF Operation
      <4> HIDE DEF o
      <4>2. op[a].old = op[a].text /\ Key(files') = op[a].text /\ Keyed(files')
        BY <2>2, <3>2 DEF Keys, Writing
      <4>3. Tidy("stage", o, files', reg')
        BY <2>2, <3>2, <4>1 DEF Tidy, OperableIn
      <4>4. Keys("stage", o, files')
        BY <2>2, <4>1, <4>2 DEF Keys, Keyed, Writing
      <4> QED
        BY <1>0, <3>2, <4>3, <4>4, DiskContinued DEF o
    <3>3. CASE \E how : End(a, how)
      BY <1>0, <2>3, <3>3, DiskEnded
    <3>4. Succeed(a)
      BY <2>6 DEF Done
    <3> QED
      BY <3>1, <3>2, <3>3, <3>4 DEF Succeed, RestoreFiles
  <2> QED
    BY <1>3, <2>4, <2>5, <2>6
<1> QED
  BY <1>1, <1>2, <1>3

\* The steps after the commands.
LEMMA DiskAfter ==
  ASSUME Faults \subseteq {"docker", "registry"}, TypeOK, KeptInv, QuietInv, DiskInv, NEW a \in Actors,
         \/ Inspect(a) \/ NotInspected(a) \/ Healthy(a) \/ Unhealthy(a) \/ Commit(a)
         \/ CommitFails(a) \/ Wipe(a) \/ Unregister(a) \/ UnregisterFails(a)
  PROVE  DiskInv'
<1>0. /\ op[a] \in Operation /\ Shape(pc[a], op[a]) /\ Phases(pc[a], op[a]) /\ holder = a
      /\ Finds(pc[a], op[a], files, containers, answers, address, reg)
      /\ Tidy(pc[a], op[a], files, reg) /\ Keys(pc[a], op[a], files)
  BY DiskAtWork DEF Inspect, NotInspected, Healthy, Unhealthy, Commit, CommitFails, Wipe,
                    Unregister, UnregisterFails, Waiting
<1>1. CASE Inspect(a) \/ Healthy(a)
  <2>1. /\ UNCHANGED <<reg, files>> /\ pc[a] \in {"inspect", "health"}
        /\ pc[a] = "inspect" => reg = "none"
    BY <1>1 DEF Inspect, Candidate, Healthy, disk
  <2>2. PICK step \in {"up", "down", "commit"} : Continue(a, step, op[a])
    BY <1>1 DEF Inspect, Resume, ClearAway, Healthy
  <2>3. Tidy(step, op[a], files', reg')
    BY <1>0, <2>1 DEF Tidy, Writing
  <2>4. pc[a] = "inspect" => op[a].kind \notin Installing
    BY <1>0 DEF Shape, Installing
  <2>5. Keys(step, op[a], files')
    BY <1>0, <2>1, <2>4 DEF Keys, Writing
  <2> QED
    BY <1>0, <2>2, <2>3, <2>5, DiskContinued
<1>2. CASE Unhealthy(a) \/ NotInspected(a) \/ CommitFails(a)
  <2>1. UNCHANGED <<reg, files>> /\ pc[a] \in {"inspect", "health", "commit"}
    BY <1>2 DEF Unhealthy, NotInspected, CommitFails, disk
  <2>2. Sound(files', reg')
    BY <1>0, <2>1, Settled DEF Writing
  <2>3. CASE \E how : End(a, how)
    BY <1>0, <2>2, <2>3, DiskEnded
  <2>4. CASE pc[a] = "health" /\ op[a].kind \in Installing /\ \E how : RollBack(a, how)
    BY <1>0, <2>1, <2>4, DiskRollBack
  <2>5. CASE pc[a] = "commit" /\ Continue(a, "down", [op[a] EXCEPT !.phase = "undo", !.end = "failed"])
    <3> DEFINE o == [op[a] EXCEPT !.phase = "undo", !.end = "failed"]
    <3>1. /\ o.kind = op[a].kind /\ o.phase = "undo" /\ o.created = op[a].created
          /\ o.old = op[a].old /\ o.text = op[a].text
      BY <1>0 DEF Operation
    <3> HIDE DEF o
    <3>2. Tidy("down", o, files', reg')
      BY <1>0, <2>1, <2>5, <3>1 DEF Tidy, Writing
    <3>3. Keys("down", o, files')
      BY <1>0, <2>1, <2>5, <3>1 DEF Keys, Writing
    <3> QED
      BY <1>0, <2>5, <3>2, <3>3, DiskContinued DEF o
  <2>6. pc[a] = "health" /\ op[a].kind # "adopt" => op[a].kind \in Installing
    BY <1>0 DEF Shape
  <2> QED
    BY <1>2, <2>3, <2>4, <2>5, <2>6 DEF Unhealthy, NotInspected, CommitFails
<1>3. CASE Commit(a)
  <2>1. pc[a] = "commit" /\ UNCHANGED files /\ \E how : End(a, how)
    BY <1>3 DEF Commit, disk
  <2>2. OperableIn(files)
    BY <1>0, <2>1 DEF Finds
  <2>3. ReusableIn(files) /\ Keyed(files)
    BY <1>0, <2>1 DEF Tidy, Keys, Writing
  <2> QED
    BY <1>0, <2>1, <2>2, <2>3, DiskEnded DEF Sound
<1>4. CASE Unregister(a) \/ UnregisterFails(a)
  <2>1. pc[a] = "unregister" /\ UNCHANGED files /\ (Recorded => reg' = "none") /\ \E how : End(a, how)
    BY <1>4 DEF Unregister, UnregisterFails, disk, Recorded
  <2>2. ReusableIn(files) /\ Keyed(files)
    BY <1>0, <2>1 DEF Tidy, Keys, Writing
  <2> QED
    BY <1>0, <2>1, <2>2, DiskEnded DEF Sound
<1>5. CASE Wipe(a)
  <2>1. pc[a] = "wipe" /\ UNCHANGED reg
    BY <1>5 DEF Wipe
  <2>2. reg = "managed" /\ Recorded => op[a].kind = "uninstall"
    <3>1. op[a].phase = "forward" => op[a].kind \in {"uninstall", "discard"}
      BY <1>0, <2>1 DEF Phases
    <3>2. op[a].phase # "forward" => op[a].kind \in Installing /\ op[a].created
      BY <1>0, <2>1 DEF Phases, Shape
    <3> QED
      BY <1>0, <2>1, <3>1, <3>2 DEF Tidy
  <2>3. CASE UNCHANGED <<pc, op, holder>>
    <3>1. Tidy("wipe", op[a], files', reg')
      BY <1>0, <2>1, <2>2 DEF Tidy, Writing
    <3>2. op[a].phase # "restore"
      BY <1>0, <2>1 DEF Phases, Writing
    <3>3. Keys("wipe", op[a], files')
      BY <1>0, <2>1, <3>2 DEF Keys, Writing
    <3>4. pc' = [pc EXCEPT ![a] = "wipe"] /\ op' = [op EXCEPT ![a] = op[a]] /\ holder' = a
      BY <1>0, <2>1, <2>3 DEF TypeOK
    <3> QED
      BY <3>1, <3>3, <3>4, DiskMoves
  <2>4. CASE (\A n \in Names : ~Has(n)) /\ UNCHANGED files /\ AfterWipe(a)
    <3>1. ReusableIn(files') /\ Keyed(files')
      BY <2>4 DEF ReusableIn, Keyed, Has, Names
    <3>2. CASE op[a].kind = "uninstall" /\ Continue(a, "unregister", op[a])
      <4>1. Tidy("unregister", op[a], files', reg')
        BY <3>1, <3>2 DEF Tidy, Writing, Installing
      <4>2. op[a].phase = "forward"
        BY <1>0, <3>2 DEF Shape, Installing
      <4>3. Keys("unregister", op[a], files')
        BY <3>1, <3>2, <4>2 DEF Keys, Writing, Installing
      <4> QED
        BY <1>0, <3>2, <4>1, <4>3, DiskContinued
    <3>3. CASE op[a].kind # "uninstall" /\ \E how : End(a, how)
      BY <1>0, <2>1, <2>2, <3>1, <3>3, DiskEnded DEF Sound
    <3> QED
      BY <2>4, <3>2, <3>3 DEF AfterWipe
  <2> QED
    BY <1>5, <2>3, <2>4 DEF Wipe
<1> QED
  BY <1>1, <1>2, <1>3, <1>4, <1>5

\* Every step keeps DiskInv, whether Docker or a registry write fails.
LEMMA DiskNext ==
  ASSUME Faults \subseteq {"docker", "registry"}, TypeOK, KeptInv, QuietInv, DiskInv, [Next]_vars
  PROVE  DiskInv'
<1>1. ASSUME NEW a \in Actors, Step(a) \/ Cancel(a)
      PROVE  DiskInv'
  <2>1. ~WriteFails(a) /\ ~WipeFails(a)
    BY DEF WriteFails, WipeFails
  <2> QED
    BY <1>1, <2>1, DiskWaiting, DiskInstall, DiskCommand, DiskAfter DEF Step
<1>2. CASE Connect \/ UNCHANGED vars
  <2>1. Apart /\ UNCHANGED <<pc, op, holder>>
    BY <1>2 DEF Connect, Apart, vars, disk, docker
  <2> QED
    BY <2>1, DiskApart
<1>3. ~OrphanEnds /\ \A a \in Actors : ~Crash(a)
  BY DEF QuietInv, OrphanEnds, Crash
<1> QED
  BY <1>1, <1>2, <1>3, DiskWaiting DEF Next

LEMMA DiskInvariant ==
  ASSUME Faults \subseteq {"docker", "registry"}
  PROVE  Spec => []DiskInv
<1>0. "crash" \notin Faults
  OBVIOUS
<1>1. Init => DiskInv
  BY LifecycleAssumption DEF Init, DiskInv, Sound, ReusableIn, Keyed, Names
<1>2. DiskInv /\ QuietInv /\ TypeOK /\ KeptInv /\ [Next]_vars => DiskInv'
  BY DiskNext
<1> QED
  BY <1>0, <1>1, <1>2, Invariant, QuietInvariant, PTL DEF Spec

-----------------------------------------------------------------------------
\* What follows.

\* Between operations, when only Docker can have failed: a saved app can be operated on,
\* and what an app left in its directory can be installed onto.
THEOREM AppsAreNeverStuck ==
  ASSUME Faults \subseteq {"docker"}
  PROVE  Spec => []NeverStuck
<1>0. Recorded
  BY DEF Recorded
<1>1. DiskInv => NeverStuck
  BY <1>0 DEF DiskInv, Sound, OperableIn, ReusableIn, NeverStuck, Operable, Reusable, Has
<1>2. Faults \subseteq {"docker", "registry"}
  OBVIOUS
<1> QED
  BY <1>1, <1>2, DiskInvariant, PTL

\* No app has a named volume.
LEMMA NoVolume ==
  ASSUME Volume = FALSE
  PROVE  Spec => [](vol = Missing)
<1>1. Init => vol = Missing
  BY DEF Init
<1>2. vol = Missing /\ [Next]_vars => (vol = Missing)'
  <2>1. ASSUME vol = Missing, NEW r, Partial(r)
        PROVE  vol' = Missing
    BY <2>1 DEF Partial, Effect, Starts
  <2>2. ASSUME vol = Missing, NEW a \in Actors, Step(a)
        PROVE  vol' = Missing
    <3>1. CASE \/ Remove(a) \/ Lock(a) \/ Busy(a) \/ Preflight(a) \/ Refuse(a)
               \/ Stage(a) \/ Unlink(a) \/ Rename(a) \/ Erase(a) \/ WriteFails(a)
      BY <2>2, <3>1 DEF Remove, Lock, Enter, Busy, Preflight, Prepare, Refuse, Stage, Unlink,
         Rename, Erase, WriteFails, docker
    <3>2. CASE Launch(a) \/ Unlaunched(a) \/ Done(a) \/ DockerFails(a) \/ Kill(a)
      BY <2>1, <2>2, <3>2 DEF Launch, Unlaunched, Done, DockerFails, Kill, Partial, docker
    <3>3. CASE \/ Inspect(a) \/ NotInspected(a) \/ Healthy(a) \/ Unhealthy(a)
               \/ Commit(a) \/ CommitFails(a) \/ Wipe(a) \/ WipeFails(a)
               \/ Unregister(a) \/ UnregisterFails(a)
      BY <2>2, <3>3 DEF Inspect, NotInspected, Healthy, Unhealthy, Commit, CommitFails, Wipe,
         WipeFails, Unregister, UnregisterFails, docker
    <3> QED
      BY <2>2, <3>1, <3>2, <3>3 DEF Step
  <2>3. ASSUME vol = Missing, NEW a \in Actors, Cancel(a) \/ Crash(a)
        PROVE  vol' = Missing
    BY <2>3 DEF Cancel, Crash, docker
  <2>4. ASSUME vol = Missing,
               \/ \E a \in Actors, kind \in Kinds \ {"connect"}, delete \in BOOLEAN :
                    BeginOperation(a, kind, delete)
               \/ Connect \/ OrphanEnds \/ UNCHANGED vars
        PROVE  vol' = Missing
    BY <2>1, <2>4 DEF BeginOperation, Begin, Connect, OrphanEnds, Partial, vars, docker
  <2> QED
    BY <2>2, <2>3, <2>4 DEF Next
<1> QED
  BY <1>1, <1>2, PTL DEF Spec

\* An app without a named volume keeps opening its data, through reinstalls, rollbacks and
\* adoptions: every install uses the secrets that are there, and writes them last.
THEOREM CredentialsStay ==
  ASSUME Faults \subseteq {"docker", "registry"}, Volume = FALSE
  PROVE  Spec => []CredentialsOpenData
<1>1. DiskInv /\ vol = Missing => CredentialsOpenData
  BY DEF DiskInv, Sound, Keyed, CredentialsOpenData, Has
<1> QED
  BY <1>1, DiskInvariant, NoVolume, PTL

=============================================================================
