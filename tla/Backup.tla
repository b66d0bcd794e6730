------------------------------- MODULE Backup -------------------------------
(***************************************************************************)
(* Snapshots of an app's data, and their restore into a fresh project      *)
(* (backup.rs, backup/volumes.rs).                                         *)
(*                                                                         *)
(* A snapshot stops the app under its lock, copies its files and then its  *)
(* volume, and starts it again.  An app at work writes to its files and    *)
(* its volume one after the other; a clean stop lets it finish, a kill     *)
(* does not.  A restore writes the credentials, the files and the volume   *)
(* of one archive, one after the other.  Either process may die anywhere;  *)
(* what it runs dies with it, half done.                                   *)
(*                                                                         *)
(* Abstracted: the cipher, hashes and bounds of an archive (it is rejected *)
(* whole before the first write); the recipe and the engine, which are     *)
(* those of the archive, or the restore refuses; who holds the lock of the *)
(* app is the step of its snapshot or restore.                             *)
(***************************************************************************)
EXTENDS Naturals

CONSTANT MaxVersion     \* bound: pieces of work an app does

VARIABLES app,          \* the containers of the app to save
          files, volume,   \* what it has written to them: the number of its last work
          snap,         \* the snapshot under way
          archives,     \* the snapshots made
          project,      \* the fresh project: its containers, its parts
          restore       \* the restore under way

backupVars == <<app, files, volume, snap, archives, project, restore>>

Versions == 0 .. MaxVersion
Archives == [files : Versions, volume : Versions]
Containers == {"none", "running", "stopped", "killed", "mixed"}
Parts == {"secrets", "files", "volume"}
\* A part holds nothing, data of its own, or (half of) an archive.
Empty == [of |-> "nothing"]
Own == [of |-> "own"]
From(a, whole) == [of |-> a, whole |-> whole]
Contents == {Empty, Own} \cup {From(a, whole) : a \in Archives, whole \in BOOLEAN}
NoVersion == MaxVersion + 1
NotRunning == [step |-> "none", was |-> FALSE, got |-> NoVersion]
NoRestore == [step |-> "none"]

TypeOK ==
  /\ app \in Containers /\ {files, volume} \subseteq Versions
  /\ snap \in [step : {"none", "stop", "look", "files", "volume", "resume"},
               was : BOOLEAN, got : Versions \cup {NoVersion}]
  /\ archives \subseteq Archives
  /\ project.running \in BOOLEAN /\ project.part \in [Parts -> Contents]
  /\ restore \in {NoRestore} \cup [step : Parts \cup {"done"}, of : Archives]

BackupInit ==
  /\ app \in {"running", "stopped"} /\ files = 0 /\ volume = 0
  /\ snap = NotRunning /\ archives = {}
  /\ project = [running |-> FALSE, part |-> [p \in Parts |-> Empty]]
  /\ restore = NoRestore

Source == <<app, files, volume, snap>>
Target == <<project, restore>>

-----------------------------------------------------------------------------
\* The app at work, and its owner.

Work ==
  /\ app = "running" /\ files = volume /\ files < MaxVersion
  /\ files' = files + 1
  /\ UNCHANGED <<app, volume, snap, archives, Target>>

Settle ==
  /\ app = "running" /\ volume < files
  /\ volume' = files
  /\ UNCHANGED <<app, files, snap, archives, Target>>

\* A container falls, without finishing its work.
Fall ==
  /\ app = "running" /\ app' \in {"killed", "mixed"}
  /\ UNCHANGED <<files, volume, snap, archives, Target>>

Start ==
  /\ snap.step = "none" /\ app # "running"
  /\ app' = "running"
  /\ UNCHANGED <<files, volume, snap, archives, Target>>

-----------------------------------------------------------------------------
\* The snapshot.

At(step) == snap.step = step
Go(step) == snap' = [snap EXCEPT !.step = step]

\* Every service runs, or every one has stopped of itself.
Clean == app \in {"running", "stopped"}

Begin ==
  /\ At("none") /\ Clean
  /\ snap' = [step |-> IF app = "running" THEN "stop" ELSE "look", was |-> app = "running",
              got |-> NoVersion]
  /\ UNCHANGED <<app, files, volume, archives, Target>>

\* The services finish their work and exit; or Docker kills them at their deadline.
Stop ==
  /\ At("stop")
  /\ \/ app' = "stopped" /\ volume' = files
     \/ app' = "killed" /\ UNCHANGED volume
  /\ Go("look")
  /\ UNCHANGED <<files, archives, Target>>

StopFails ==
  /\ At("stop")
  /\ app' \in {app, "mixed"}
  /\ Go("resume")
  /\ UNCHANGED <<files, volume, archives, Target>>

\* Faulty: no service runs.
NoneRuns == app \in {"stopped", "killed"}

\* No service runs, and each has exited well.
Quiesced == app = "stopped"

Look ==
  /\ At("look")
  /\ Go(IF Quiesced THEN "files" ELSE "resume")
  /\ UNCHANGED <<app, files, volume, archives, Target>>

CopyFiles ==
  /\ At("files")
  /\ snap' = [snap EXCEPT !.step = "volume", !.got = files]
  /\ UNCHANGED <<app, files, volume, archives, Target>>

CopyVolume ==
  /\ At("volume")
  /\ archives' = archives \cup {[files |-> snap.got, volume |-> volume]}
  /\ Go("resume")
  /\ UNCHANGED <<app, files, volume, Target>>

CopyFails ==
  /\ snap.step \in {"files", "volume"}
  /\ Go("resume")
  /\ UNCHANGED <<app, files, volume, archives, Target>>

\* What ran before runs again; or this fails, and the archive is not handed out.
Resume ==
  /\ At("resume")
  /\ app' \in IF snap.was THEN {"running", app} ELSE {app}
  /\ snap' = NotRunning
  /\ UNCHANGED <<files, volume, archives, Target>>

SnapshotDies ==
  /\ snap.step # "none"
  /\ snap' = NotRunning
  /\ UNCHANGED <<app, files, volume, archives, Target>>

-----------------------------------------------------------------------------
\* The restore.

\* Faulty: only the volume is looked at.
EmptyVolume == ~project.running /\ project.part["volume"] = Empty

\* No container, no data, no credentials.
FreshProject == ~project.running /\ \A p \in Parts : project.part[p] = Empty

BeginRestore ==
  /\ restore.step = "none" /\ FreshProject
  /\ \E a \in archives : restore' = [step |-> "secrets", of |-> a]
  /\ UNCHANGED <<Source, archives, project>>

After == [secrets |-> "files", files |-> "volume", volume |-> "done"]

WritePart ==
  /\ restore.step \in Parts
  /\ LET p == restore.step IN
       /\ project.part[p] = Empty
       /\ project' = [project EXCEPT !.part[p] = From(restore.of, TRUE)]
       /\ restore' = [restore EXCEPT !.step = After[p]]
  /\ UNCHANGED <<Source, archives>>

\* It stops, for a failure or because its process dies: half of a part is written.
RestoreStops ==
  /\ restore.step \in Parts
  /\ LET p == restore.step IN
       project' \in {project, [project EXCEPT !.part[p] =
                                 IF @ = Empty THEN From(restore.of, FALSE) ELSE @]}
  /\ restore' = NoRestore
  /\ UNCHANGED <<Source, archives>>

Restored ==
  /\ restore.step = "done"
  /\ restore' = NoRestore
  /\ UNCHANGED <<Source, archives, project>>

\* The owner starts the project, and it makes what is missing; or removes it, and
\* something may stay.
StartProject ==
  /\ restore.step = "none" /\ ~project.running
  /\ project' = [running |-> TRUE,
                 part |-> [p \in Parts |-> IF project.part[p] = Empty THEN Own ELSE project.part[p]]]
  /\ UNCHANGED <<Source, archives, restore>>

RemoveProject ==
  /\ restore.step = "none"
  /\ \E gone \in SUBSET Parts :
       project' = [running |-> FALSE,
                   part |-> [p \in Parts |-> IF p \in gone THEN Empty ELSE project.part[p]]]
  /\ UNCHANGED <<Source, archives, restore>>

BackupNext ==
  \/ Work \/ Settle \/ Fall \/ Start
  \/ Begin \/ Stop \/ StopFails \/ Look \/ CopyFiles \/ CopyVolume \/ CopyFails \/ Resume
  \/ SnapshotDies
  \/ BeginRestore \/ WritePart \/ RestoreStops \/ Restored \/ StartProject \/ RemoveProject

BackupSpec == BackupInit /\ [][BackupNext]_backupVars

-----------------------------------------------------------------------------
\* "Bind data and reviewed named volumes are captured only after all app services
\* quiesce" (src/backup.rs:4): files and volume of a snapshot are of one moment.
SnapshotsAreOneMoment == \A a \in archives : a.files = a.volume

\* A project never holds data of two archives: what an interrupted restore left makes
\* the next one refuse (src/backup.rs:786); and one that ends well is whole.
NoMixing ==
  /\ \A p, q \in Parts : LET c == project.part[p]
                             d == project.part[q]
                         IN {c, d} \cap {Empty, Own} = {} => c.of = d.of
  /\ restore.step = "done" => \A p \in Parts : project.part[p] = From(restore.of, TRUE)

=============================================================================
