------------------------------ MODULE Registry ------------------------------
(***************************************************************************)
(* The app registry of src/storage.rs as several processes use it.         *)
(*                                                                         *)
(* The launcher, the CLI and the agent bridge are separate processes.  They*)
(* share registry-v2.json (live), registry-v2.previous.json (prev), the    *)
(* byte copy of an older registry (backup) and the sidecar registry.lock.  *)
(* Every file system call that another process or a crash can come between *)
(* is a step.  A save removes the live file before it renames the new one  *)
(* into place, so the live file is missing for a moment; the copy made as  *)
(* prev just before is what a later load then reads.                       *)
(*                                                                         *)
(* Abstracted: the text of the files (a registry is a map from ids to      *)
(* records that validate_registry accepts or refuses) and the names of     *)
(* temporary files, which no two writes share.                             *)
(***************************************************************************)
CONSTANTS Procs,       \* processes using the registry
          Stuck,       \* processes that may stop running and keep the lock
          AppIds, Records, Absent,
          Refused,     \* records validate_registry refuses: a blank name
          V1,          \* where an older registry is: "none", "primary", "legacy"
          V1Apps,      \* the map an older registry converts to
          DirAtStart,  \* does the configuration directory exist at the start
          NoFile, NoProc

Contents == [AppIds -> Records \union {Absent}]
Empty == [a \in AppIds |-> Absent]

\* An older registry in the primary place lies in the configuration directory.
ASSUME RegistryAssumption ==
  /\ Absent \notin Records
  /\ Refused \subseteq Records
  /\ NoFile \notin Contents
  /\ NoProc \notin Procs
  /\ Stuck \subseteq Procs
  /\ V1 \in {"none", "primary", "legacy"}
  /\ V1Apps \in Contents
  /\ DirAtStart \in BOOLEAN
  /\ V1 = "primary" => DirAtStart

VARIABLES live, prev, backup,  \* the files
          dir,                 \* does the configuration directory exist
          lock,                \* holder of registry.lock
          pc, op,              \* per process: next step, operation under way
          buf,                 \* per process: registry in memory
          old,                 \* per process: bytes read to become prev
          mig                  \* per process: is the save a migration's

vars == <<live, prev, backup, dir, lock, pc, op, buf, old, mig>>
files == <<live, prev, backup>>

NoOp == [kind |-> "none"]
Ops == [kind : {"load"}]
         \union [kind : {"remove"}, id : AppIds]
         \union [kind : {"insert", "update"}, id : AppIds, rec : Records]

Loading == {"checkLive", "checkPrev", "readLive", "readPrev", "apply"}
Writing == {"migrate", "backUp", "save", "removePrev", "renamePrev",
            "removeLive", "renameLive"}
Steps == {"idle", "lock"} \union Loading \union Writing

\* The map the files stand for: what a load that runs alone would return.
Start == IF V1 = "none" THEN Empty ELSE V1Apps
Committed == IF live # NoFile THEN live ELSE IF prev # NoFile THEN prev ELSE Start

TypeOK ==
  /\ live \in Contents \union {NoFile}
  /\ prev \in Contents \union {NoFile}
  /\ backup \in BOOLEAN
  /\ dir \in BOOLEAN
  /\ lock \in Procs \union {NoProc}
  /\ pc \in [Procs -> Steps]
  /\ op \in [Procs -> Ops \union {NoOp}]
  /\ buf \in [Procs -> Contents]
  /\ old \in [Procs -> Contents \union {NoFile}]
  /\ mig \in [Procs -> BOOLEAN]

Init ==
  /\ live = NoFile /\ prev = NoFile /\ backup = FALSE
  /\ dir = DirAtStart
  /\ lock = NoProc
  /\ pc = [p \in Procs |-> "idle"]
  /\ op = [p \in Procs |-> NoOp]
  /\ buf = [p \in Procs |-> Empty]
  /\ old = [p \in Procs |-> NoFile]
  /\ mig = [p \in Procs |-> FALSE]

Goto(p, step) == pc' = [pc EXCEPT ![p] = step]

\* The call returns, with a value or an error, or its process dies: the guard
\* (or the operating system) releases the lock, and memory is forgotten.
Finish(p) ==
  /\ Goto(p, "idle")
  /\ lock' = IF lock = p THEN NoProc ELSE lock
  /\ op' = [op EXCEPT ![p] = NoOp]
  /\ buf' = [buf EXCEPT ![p] = Empty]
  /\ old' = [old EXCEPT ![p] = NoFile]
  /\ mig' = [mig EXCEPT ![p] = FALSE]

-----------------------------------------------------------------------------
\* Taking the lock.

\* Every mutation creates the directory and the lock file, then waits.
BeginMutation(p, o) ==
  /\ pc[p] = "idle"
  /\ o.kind # "load"
  /\ op' = [op EXCEPT ![p] = o]
  /\ dir' = TRUE
  /\ Goto(p, "lock")
  /\ UNCHANGED <<files, lock, buf, old, mig>>

\* A load must not create anything, so it locks only when the directory exists.
BeginLoad(p) ==
  /\ pc[p] = "idle"
  /\ op' = [op EXCEPT ![p] = [kind |-> "load"]]
  /\ Goto(p, IF dir THEN "lock" ELSE "checkLive")
  /\ UNCHANGED <<files, dir, lock, buf, old, mig>>

\* Faulty: a lock that does not exclude.
AcquireAnyway(p) ==
  /\ pc[p] = "lock"
  /\ lock' = p
  /\ Goto(p, "checkLive")
  /\ UNCHANGED <<files, dir, op, buf, old, mig>>

Acquire(p) ==
  /\ pc[p] = "lock"
  /\ lock = NoProc
  /\ lock' = p
  /\ Goto(p, "checkLive")
  /\ UNCHANGED <<files, dir, op, buf, old, mig>>

\* Faulty: a wait without a deadline.
WaitForEver(p) ==
  /\ FALSE
  /\ Finish(p)
  /\ UNCHANGED <<files, dir>>

\* Ten seconds of polling a lock somebody else holds end in LockUnavailable.
TimeOut(p) ==
  /\ pc[p] = "lock"
  /\ lock # NoProc
  /\ Finish(p)
  /\ UNCHANGED <<files, dir>>

-----------------------------------------------------------------------------
\* load_or_migrate_registry_at and load_registry_v2_at.

CheckLive(p) ==
  /\ pc[p] = "checkLive"
  /\ Goto(p, IF live # NoFile THEN "readLive" ELSE "checkPrev")
  /\ UNCHANGED <<files, dir, lock, op, buf, old, mig>>

CheckPrev(p) ==
  /\ pc[p] = "checkPrev"
  /\ Goto(p, IF prev # NoFile THEN "readLive"
             ELSE IF V1 # "none" THEN "migrate" ELSE "apply")
  /\ UNCHANGED <<files, dir, lock, op, buf, old, mig>>

\* Faulty: the previous file is preferred to the live one.
ReadOldest(p) ==
  /\ pc[p] = "readLive"
  /\ buf' = [buf EXCEPT ![p] = IF prev # NoFile THEN prev ELSE live]
  /\ Goto(p, "apply")
  /\ UNCHANGED <<files, dir, lock, op, old, mig>>

\* validate_registry refuses the file if it refuses one record.
Valid(reg) == \A a \in AppIds : reg[a] \notin Refused

ReadLive(p) ==
  /\ pc[p] = "readLive"
  /\ \/ /\ live = NoFile
        /\ Goto(p, "readPrev")
        /\ UNCHANGED <<lock, op, buf, old, mig>>
     \/ /\ live # NoFile /\ Valid(live)
        /\ buf' = [buf EXCEPT ![p] = live]
        /\ Goto(p, "apply")
        /\ UNCHANGED <<lock, op, old, mig>>
     \/ /\ live # NoFile /\ ~Valid(live)
        /\ Finish(p)
  /\ UNCHANGED <<files, dir>>

ReadPrev(p) ==
  /\ pc[p] = "readPrev"
  /\ \/ /\ prev # NoFile /\ Valid(prev)
        /\ buf' = [buf EXCEPT ![p] = prev]
        /\ Goto(p, "apply")
        /\ UNCHANGED <<lock, op, old, mig>>
     \/ /\ prev # NoFile => ~Valid(prev)  \* MigrationRefused
        /\ Finish(p)
  /\ UNCHANGED <<files, dir>>

-----------------------------------------------------------------------------
\* migrate_v1_registry_at.

\* Refuses when a live registry is there; else converts the bytes of the
\* backup, or of the older registry, which are the same.
Migrate(p) ==
  /\ pc[p] = "migrate"
  /\ \/ /\ live # NoFile
        /\ Finish(p)
     \/ /\ live = NoFile
        /\ buf' = [buf EXCEPT ![p] = V1Apps]
        /\ mig' = [mig EXCEPT ![p] = TRUE]
        /\ Goto(p, "backUp")
        /\ UNCHANGED <<lock, op, old>>
  /\ UNCHANGED <<files, dir>>

BackUp(p) ==
  /\ pc[p] = "backUp"
  /\ backup' = TRUE
  /\ dir' = TRUE
  /\ Goto(p, "save")
  /\ UNCHANGED <<live, prev, lock, op, buf, old, mig>>

-----------------------------------------------------------------------------
\* The change itself: AlreadyExists and NotFound return without saving.

Allowed(o, reg) ==
  \/ o.kind = "insert" /\ reg[o.id] = Absent
  \/ o.kind \in {"remove", "update"} /\ reg[o.id] # Absent

Changed(o, reg) ==
  [reg EXCEPT ![o.id] = IF o.kind = "remove" THEN Absent ELSE o.rec]

Apply(p) ==
  /\ pc[p] = "apply"
  /\ \/ /\ Allowed(op[p], buf[p])
        /\ buf' = [buf EXCEPT ![p] = Changed(op[p], buf[p])]
        /\ Goto(p, "save")
        /\ UNCHANGED <<lock, op, old, mig>>
     \/ /\ ~Allowed(op[p], buf[p])  \* also: a load returns what it read
        /\ Finish(p)
  /\ UNCHANGED <<files, dir>>

-----------------------------------------------------------------------------
\* save_registry_v2_at: atomic_replace_with_previous over two atomic_writes.

\* Faulty: the live file is replaced without keeping a copy.
SaveInPlace(p) ==
  /\ pc[p] = "save"
  /\ old' = [old EXCEPT ![p] = live]
  /\ Goto(p, "removeLive")
  /\ UNCHANGED <<files, dir, lock, op, buf, mig>>

\* Read the live file, if there is one, to keep it as the previous one.
Save(p) ==
  /\ pc[p] = "save"
  /\ old' = [old EXCEPT ![p] = live]
  /\ Goto(p, IF live # NoFile THEN "removePrev" ELSE "removeLive")
  /\ UNCHANGED <<files, dir, lock, op, buf, mig>>

RemovePrev(p) ==
  /\ pc[p] = "removePrev"
  /\ prev' = NoFile
  /\ Goto(p, "renamePrev")
  /\ UNCHANGED <<live, backup, dir, lock, op, buf, old, mig>>

RenamePrev(p) ==
  /\ pc[p] = "renamePrev"
  /\ prev' = old[p]
  /\ Goto(p, "removeLive")
  /\ UNCHANGED <<live, backup, dir, lock, op, buf, old, mig>>

RemoveLive(p) ==
  /\ pc[p] = "removeLive"
  /\ live' = NoFile
  /\ Goto(p, "renameLive")
  /\ UNCHANGED <<prev, backup, dir, lock, op, buf, old, mig>>

\* After a migration the same call goes on to load the file it wrote.
RenameLive(p) ==
  /\ pc[p] = "renameLive"
  /\ live' = buf[p]
  /\ dir' = TRUE
  /\ \/ /\ mig[p]
        /\ mig' = [mig EXCEPT ![p] = FALSE]
        /\ Goto(p, "readLive")
        /\ UNCHANGED <<lock, op, buf, old>>
     \/ /\ ~mig[p]
        /\ Finish(p)
  /\ UNCHANGED <<prev, backup>>

-----------------------------------------------------------------------------
\* A process crashes, or one of its file system calls fails and the error is
\* returned.  Either way the files stay as they are.
Interrupt(p) ==
  /\ pc[p] # "idle"
  /\ Finish(p)
  /\ UNCHANGED <<files, dir>>

Load(p) == CheckLive(p) \/ CheckPrev(p) \/ ReadLive(p) \/ ReadPrev(p)
             \/ Migrate(p) \/ BackUp(p)
Store(p) == Save(p) \/ RemovePrev(p) \/ RenamePrev(p)
              \/ RemoveLive(p) \/ RenameLive(p)
Run(p) == Acquire(p) \/ TimeOut(p) \/ Load(p) \/ Apply(p) \/ Store(p)

Next == \E p \in Procs :
          \/ \E o \in Ops : BeginMutation(p, o)
          \/ BeginLoad(p)
          \/ Run(p)
          \/ Interrupt(p)

Spec == Init /\ [][Next]_vars

\* Every process that is not stuck keeps running once it has begun.  Nothing is
\* assumed of a stuck one: a suspended holder keeps the lock for ever.
LiveSpec == Spec /\ \A p \in Procs \ Stuck : WF_vars(Run(p))

-----------------------------------------------------------------------------
\* Properties.

\* Inductive: Held processes own the lock, only unlocked loads run without it,
\* and what each step knows of the files is what the files say.
LockInv ==
  /\ V1 # "none" => dir
  /\ \A p \in Procs :
       /\ lock = p => pc[p] \in Loading \union Writing
       /\ pc[p] \in Writing => lock = p
       /\ pc[p] \in Loading /\ lock # p => op[p].kind = "load" /\ V1 = "none"
       /\ pc[p] \in {"idle", "lock"} => buf[p] = Empty /\ ~mig[p]
       /\ pc[p] # "idle" => op[p] \in Ops

KnowsFiles(p) ==
  /\ pc[p] \in {"checkLive", "checkPrev"} => buf[p] = Empty
  /\ pc[p] = "checkPrev" => live = NoFile
  /\ pc[p] = "readLive" => live # NoFile \/ prev # NoFile
  /\ pc[p] = "readPrev" => live = NoFile /\ prev # NoFile
  /\ pc[p] = "migrate" => V1 # "none"
  /\ pc[p] \in {"migrate", "backUp"} => live = NoFile /\ prev = NoFile
  /\ pc[p] = "apply" => buf[p] = Committed
  /\ pc[p] \in {"removePrev", "renamePrev"} => live # NoFile /\ old[p] = live
  /\ pc[p] = "removeLive" /\ live # NoFile => prev = live
  /\ pc[p] = "renameLive" => live = NoFile

\* A migration writes the map it found; a save writes the outcome of its call.
KnowsChange(p) ==
  /\ pc[p] \in Loading => ~mig[p]
  /\ pc[p] = "backUp" => mig[p]
  /\ pc[p] \in Writing /\ mig[p] => buf[p] = Start /\ live = NoFile /\ prev = NoFile
  /\ pc[p] \in Writing \ {"migrate"} /\ ~mig[p] =>
       Allowed(op[p], Committed) /\ buf[p] = Changed(op[p], Committed)

SaveInv == \A p \in Procs : lock = p => KnowsFiles(p) /\ KnowsChange(p)

RegistryInv == TypeOK /\ LockInv /\ SaveInv

\* The processes cannot race over the first migration: either there is nothing
\* to migrate or the directory that makes every load take the lock exists.
Guarded == V1 # "none" => DirAtStart

\* The files implement the abstract store: every insert, remove and update
\* takes effect on the current registry at the rename of the live file, and no
\* crash, failure, migration or second process loses or invents one
\* (lock_registry_at's promise, src/storage.rs:169).
Abstract == INSTANCE RegistryStore WITH apps <- Committed
Implements == Abstract!Spec

\* What a process holding the lock has read is the committed registry: neither
\* the previous file of a finished save nor an empty one.
LockedReadIsCurrent ==
  \A p \in Procs : lock = p /\ pc[p] = "apply" => buf[p] = Committed

\* A load under the lock never finds the registry missing: whatever a crash left
\* behind, one of the two registry files can be read, and a migration never
\* meets a registry that is already there.
LockedLoadNeverRefused ==
  \A p \in Procs : lock = p =>
    /\ pc[p] = "readPrev" => prev # NoFile
    /\ pc[p] = "migrate" => live = NoFile

\* A call that can run returns, also when the holder of the lock never does:
\* the wait for the lock is bounded (REGISTRY_LOCK_TIMEOUT).
CallReturns == \A p \in Procs \ Stuck : pc[p] # "idle" ~> pc[p] = "idle"

=============================================================================
