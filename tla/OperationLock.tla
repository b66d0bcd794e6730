--------------------------- MODULE OperationLock ---------------------------
(***************************************************************************)
(* The per-app operation lock of src/runtime/mod.rs.                       *)
(*                                                                         *)
(* A thread that changes an app holds a guard with two parts: an entry in  *)
(* its process' table of active operations (slot), which carries the id a  *)
(* cancel request names, and an exclusive lock on a sidecar file (file),   *)
(* which other processes see.  lock_operation never waits.  Dropping the   *)
(* guard clears the entry first and closes the file afterwards.            *)
(*                                                                         *)
(* lock_operation holds the table's mutex from the look at the table to    *)
(* the insertion, and of another process only the state of the file at     *)
(* try_lock matters: it is one step.  The sidecar files are never removed. *)
(***************************************************************************)
EXTENDS Naturals

CONSTANTS Apps,      \* app ids, and "managed-engine", which is locked alike
          Procs, Threads, NoThread,
          ProcOf,    \* the process a thread runs in
          MaxOps     \* bound: operations a process runs before it stops taking locks

ASSUME OperationLockAssumption ==
  /\ ProcOf \in [Threads -> Procs]
  /\ NoThread \notin Threads
  /\ MaxOps \in Nat

VARIABLES slot,       \* slot[p][a]: id of the active operation, 0 for none
          file,       \* file[a]: the thread whose handle locks the sidecar file
          hold,       \* hold[t][a]: id of the guard thread t holds, 0 for none
          next,       \* next[p]: the id the next operation gets
          cancelled,  \* cancelled[p]: ids whose token is set
          asked       \* history: requests <<a, id>> made of process p

vars == <<slot, file, hold, next, cancelled, asked>>

Ids == 1 .. MaxOps
Issued(p) == {i \in Ids : i < next[p]}

TypeOK ==
  /\ slot \in [Procs -> [Apps -> Ids \union {0}]]
  /\ file \in [Apps -> Threads \union {NoThread}]
  /\ hold \in [Threads -> [Apps -> Ids \union {0}]]
  /\ next \in [Procs -> 1 .. (MaxOps + 1)]
  /\ cancelled \in [Procs -> SUBSET Ids]
  /\ asked \in [Procs -> SUBSET (Apps \X Ids)]

Init ==
  /\ slot = [p \in Procs |-> [a \in Apps |-> 0]]
  /\ file = [a \in Apps |-> NoThread]
  /\ hold = [t \in Threads |-> [a \in Apps |-> 0]]
  /\ next = [p \in Procs |-> 1]
  /\ cancelled = [p \in Procs |-> {}]
  /\ asked = [p \in Procs |-> {}]

\* The id is fetched and the entry inserted once the file is locked.
Claim(t, a) ==
  LET p == ProcOf[t] IN
  /\ next[p] <= MaxOps
  /\ slot' = [slot EXCEPT ![p][a] = next[p]]
  /\ file' = [file EXCEPT ![a] = t]
  /\ hold' = [hold EXCEPT ![t][a] = next[p]]
  /\ next' = [next EXCEPT ![p] = @ + 1]
  /\ UNCHANGED <<cancelled, asked>>

\* Faulty: only the table of this process is looked at.
LockInProcess(t, a) ==
  /\ slot[ProcOf[t]][a] = 0
  /\ Claim(t, a)

\* A refusal, OperationBusy, changes nothing.
Lock(t, a) ==
  /\ slot[ProcOf[t]][a] = 0
  /\ file[a] = NoThread
  /\ Claim(t, a)

\* Faulty: the request's id is not compared.
CancelWhoever(p, a, id) ==
  /\ id \in Issued(p)
  /\ asked' = [asked EXCEPT ![p] = @ \union {<<a, id>>}]
  /\ cancelled' = [cancelled EXCEPT ![p] =
                     @ \union IF slot[p][a] = 0 THEN {} ELSE {slot[p][a]}]
  /\ UNCHANGED <<slot, file, hold, next>>

\* A request may arrive at any time after the id was reported, also when its
\* operation has ended and another one has taken the slot.
Cancel(p, a, id) ==
  /\ id \in Issued(p)
  /\ asked' = [asked EXCEPT ![p] = @ \union {<<a, id>>}]
  /\ cancelled' = [cancelled EXCEPT ![p] =
                     @ \union IF slot[p][a] = id THEN {id} ELSE {}]
  /\ UNCHANGED <<slot, file, hold, next>>

\* Faulty: the entry stays in the table.
DropFileOnly(t, a) ==
  /\ hold[t][a] # 0
  /\ hold' = [hold EXCEPT ![t][a] = 0]
  /\ UNCHANGED <<slot, file, next, cancelled, asked>>

\* The guard is dropped: the entry goes if it is still this guard's own.
Drop(t, a) ==
  LET p == ProcOf[t] IN
  /\ hold[t][a] # 0
  /\ slot' = [slot EXCEPT ![p][a] = IF @ = hold[t][a] THEN 0 ELSE @]
  /\ hold' = [hold EXCEPT ![t][a] = 0]
  /\ UNCHANGED <<file, next, cancelled, asked>>

\* Faulty: the handle of the sidecar file is leaked.
KeepOpen(t, a) ==
  /\ FALSE
  /\ file' = [file EXCEPT ![a] = NoThread]
  /\ UNCHANGED <<slot, hold, next, cancelled, asked>>

\* Faulty: the handle is closed first, while the operation still runs.
CloseFirst(t, a) ==
  /\ file[a] = t
  /\ file' = [file EXCEPT ![a] = NoThread]
  /\ UNCHANGED <<slot, hold, next, cancelled, asked>>

\* Then its file handle is closed.
Close(t, a) ==
  /\ file[a] = t
  /\ hold[t][a] = 0
  /\ file' = [file EXCEPT ![a] = NoThread]
  /\ UNCHANGED <<slot, hold, next, cancelled, asked>>

\* A process dies or exits: its table is gone and its files are unlocked.  A new
\* process in its place numbers its operations from 1 again.
Crash(p) ==
  /\ slot' = [slot EXCEPT ![p] = [a \in Apps |-> 0]]
  /\ file' = [a \in Apps |-> IF \E t \in Threads : file[a] = t /\ ProcOf[t] = p
                             THEN NoThread ELSE file[a]]
  /\ hold' = [t \in Threads |-> IF ProcOf[t] = p THEN [a \in Apps |-> 0] ELSE hold[t]]
  /\ next' = [next EXCEPT ![p] = 1]
  /\ cancelled' = [cancelled EXCEPT ![p] = {}]
  /\ asked' = [asked EXCEPT ![p] = {}]

Release(t, a) == Drop(t, a) \/ Close(t, a)

Next == \/ \E t \in Threads, a \in Apps : Lock(t, a) \/ Release(t, a)
        \/ \E p \in Procs, a \in Apps, id \in Ids : Cancel(p, a, id)
        \/ \E p \in Procs : Crash(p)

Spec == Init /\ [][Next]_vars

\* Every operation under a lock ends: its commands and waits have deadlines.
LiveSpec == Spec /\ \A t \in Threads, a \in Apps : WF_vars(Release(t, a))

-----------------------------------------------------------------------------
\* Two operations never run on the same app, in one process or in two: two `up`
\* and `down` runs would corrupt each other's containers (src/runtime/mod.rs:28).
OneOperationPerApp ==
  \A t, u \in Threads, a \in Apps : hold[t][a] # 0 /\ hold[u][a] # 0 => t = u

\* What the table says of an app is what the holder of its file is doing, so a
\* cancel request finds the operation it names as long as that runs
\* (src/runtime/mod.rs:138).
TableIsTrue ==
  \A p \in Procs, a \in Apps :
    /\ slot[p][a] # 0 => /\ file[a] \in Threads
                         /\ ProcOf[file[a]] = p
                         /\ hold[file[a]][a] = slot[p][a]
    /\ \A t \in Threads : ProcOf[t] = p /\ hold[t][a] # 0 => slot[p][a] = hold[t][a]

\* A running operation sees itself cancelled only when a request named its app
\* and its id: "a late request cannot stop the operation that took its place"
\* (src/runtime/mod.rs:142).
CancelIsAimed ==
  \A t \in Threads, a \in Apps :
    hold[t][a] # 0 /\ hold[t][a] \in cancelled[ProcOf[t]]
      => <<a, hold[t][a]>> \in asked[ProcOf[t]]

\* The two parts together are the promised lock: over all processes an app's file is
\* locked by the thread that holds its guard from the beginning of the operation to its
\* end, is unlocked only by that thread or its death, and a dying process unlocks its
\* own files and no other.
Abstract == INSTANCE AppLocks WITH
  owner <- file, work <- [t \in Threads |-> {a \in Apps : hold[t][a] # 0}]
Implements == Abstract!Spec

\* No app stays busy: a holder lets go or dies.
AppIsFreed == \A a \in Apps : file[a] # NoThread ~> file[a] = NoThread

\* Inductive: a guard stands for a locked file and an entry of its own.
LockInv ==
  /\ TableIsTrue
  /\ \A t \in Threads, a \in Apps : hold[t][a] # 0 => file[a] = t
  /\ \A p \in Procs, a \in Apps : slot[p][a] < next[p]
  /\ \A p \in Procs : cancelled[p] \subseteq Issued(p)
  /\ \A p \in Procs, a, b \in Apps : slot[p][a] = slot[p][b] /\ slot[p][a] # 0 => a = b

=============================================================================
