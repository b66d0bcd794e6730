------------------------ MODULE OperationLockProofs ------------------------
(* Proofs about the operation lock, for any apps, processes and threads. *)
EXTENDS OperationLock, TLAPS

Inv == TypeOK /\ LockInv /\ CancelIsAimed

\* Every variable keeps its type.
THEOREM OperationLockTypeOK == Spec => []TypeOK
<1>1. Init => TypeOK
  BY OperationLockAssumption DEF Init, TypeOK, Ids
<1>2. TypeOK /\ [Next]_vars => TypeOK'
  <2> SUFFICES ASSUME TypeOK, [Next]_vars PROVE TypeOK'
    OBVIOUS
  <2> USE OperationLockAssumption DEF TypeOK, Ids
  <2>1. ASSUME NEW t \in Threads, NEW a \in Apps, Lock(t, a) PROVE TypeOK'
    BY <2>1 DEF Lock, Claim
  <2>2. ASSUME NEW t \in Threads, NEW a \in Apps, Drop(t, a) PROVE TypeOK'
    BY <2>2 DEF Drop
  <2>3. ASSUME NEW t \in Threads, NEW a \in Apps, Close(t, a) PROVE TypeOK'
    BY <2>3 DEF Close
  <2>4. ASSUME NEW p \in Procs, NEW a \in Apps, NEW id \in Ids, Cancel(p, a, id)
        PROVE TypeOK'
    <3>1. asked' \in [Procs -> SUBSET (Apps \X Ids)]
      BY <2>4 DEF Cancel
    <3>2. cancelled' \in [Procs -> SUBSET Ids]
      BY <2>4 DEF Cancel
    <3> QED BY <2>4, <3>1, <3>2 DEF Cancel
  <2>5. ASSUME NEW p \in Procs, Crash(p) PROVE TypeOK'
    BY <2>5 DEF Crash
  <2> QED BY <2>1, <2>2, <2>3, <2>4, <2>5 DEF Next, Release, vars
<1> QED BY <1>1, <1>2, PTL DEF Spec

\* Taking a lock that is free leaves every guard with a file and an entry.
LEMMA LockKeeps ==
  ASSUME Inv, NEW t \in Threads, NEW a \in Apps, Lock(t, a)
  PROVE  LockInv' /\ CancelIsAimed'
<1> DEFINE p == ProcOf[t]
<1> USE OperationLockAssumption DEF Inv, TypeOK, Ids, Lock, Claim
<1>1. p \in Procs /\ next[p] \in Ids
  <2>1. p \in Procs
    OBVIOUS
  <2>2. next[p] \in 1 .. (MaxOps + 1) /\ next[p] <= MaxOps
    BY <2>1
  <2> QED BY <2>1, <2>2
<1>2. \A u \in Threads : hold[u][a] = 0
  BY DEF LockInv
<1>3. TableIsTrue'
  BY <1>1, <1>2 DEF LockInv, TableIsTrue
<1>4. (\A u \in Threads, b \in Apps : hold[u][b] # 0 => file[b] = u)'
  BY <1>1, <1>2 DEF LockInv
<1>5. (\A q \in Procs, b \in Apps : slot[q][b] < next[q])'
  BY <1>1 DEF LockInv
<1>6. (\A q \in Procs : cancelled[q] \subseteq Issued(q))'
  BY <1>1 DEF LockInv, Issued
<1>7. (\A q \in Procs, b, c \in Apps : slot[q][b] = slot[q][c] /\ slot[q][b] # 0 => b = c)'
  BY <1>1 DEF LockInv
<1>8. CancelIsAimed'
  BY <1>1 DEF CancelIsAimed, LockInv, Issued
<1> QED BY <1>3, <1>4, <1>5, <1>6, <1>7, <1>8 DEF LockInv

\* A request that reaches an operation names the app that runs under its id.
LEMMA CancelKeeps ==
  ASSUME Inv, NEW p \in Procs, NEW a \in Apps, NEW id \in Ids, Cancel(p, a, id)
  PROVE  LockInv' /\ CancelIsAimed'
<1> USE OperationLockAssumption DEF Inv, TypeOK, Ids, Cancel
<1>1. UNCHANGED <<slot, file, hold, next>>
  OBVIOUS
<1>2. (\A q \in Procs : cancelled[q] \subseteq Issued(q))'
  BY DEF LockInv, Issued
<1>3. LockInv'
  BY <1>1, <1>2 DEF LockInv, TableIsTrue
<1>4. ASSUME NEW t \in Threads, NEW b \in Apps,
             hold[t][b] # 0, hold[t][b] \in cancelled'[ProcOf[t]]
      PROVE  <<b, hold[t][b]>> \in asked'[ProcOf[t]]
  <2>1. CASE hold[t][b] \in cancelled[ProcOf[t]]
    BY <1>4, <2>1 DEF CancelIsAimed
  <2>2. CASE hold[t][b] \notin cancelled[ProcOf[t]]
    <3>1. ProcOf[t] = p /\ slot[p][a] = id /\ hold[t][b] = id
      BY <1>4, <2>2
    <3>2. slot[p][b] = id /\ id # 0
      BY <3>1, <1>4 DEF LockInv, TableIsTrue
    <3>3. a = b
      BY <3>1, <3>2 DEF LockInv
    <3> QED BY <3>1, <3>3
  <2> QED BY <2>1, <2>2
<1> QED BY <1>1, <1>3, <1>4 DEF CancelIsAimed

\* Dropping a guard takes only its own entry.
LEMMA DropKeeps ==
  ASSUME Inv, NEW t \in Threads, NEW a \in Apps, Drop(t, a)
  PROVE  LockInv' /\ CancelIsAimed'
<1> DEFINE p == ProcOf[t]
<1> USE OperationLockAssumption DEF Inv, TypeOK, Ids, Drop
<1>1. p \in Procs /\ slot[p][a] = hold[t][a] /\ file[a] = t
  <2>1. p \in Procs
    OBVIOUS
  <2> QED BY <2>1 DEF LockInv, TableIsTrue
<1>2. \A u \in Threads : u # t => hold[u][a] = 0
  BY <1>1 DEF LockInv
<1>3. TableIsTrue'
  BY <1>1, <1>2 DEF LockInv, TableIsTrue
<1>4. LockInv'
  BY <1>1, <1>2, <1>3 DEF LockInv, Issued
<1> QED BY <1>1, <1>4 DEF CancelIsAimed

LEMMA CloseKeeps ==
  ASSUME Inv, NEW t \in Threads, NEW a \in Apps, Close(t, a)
  PROVE  LockInv' /\ CancelIsAimed'
<1> USE OperationLockAssumption DEF Inv, TypeOK, Ids, Close
<1>1. \A u \in Threads : hold[u][a] = 0
  BY DEF LockInv
<1>2. TableIsTrue'
  BY <1>1 DEF LockInv, TableIsTrue
<1> QED BY <1>1, <1>2 DEF LockInv, CancelIsAimed, Issued

\* A dead process holds nothing, and nothing of the others changes.
LEMMA CrashKeeps ==
  ASSUME Inv, NEW p \in Procs, Crash(p)
  PROVE  LockInv' /\ CancelIsAimed'
<1> USE OperationLockAssumption DEF Inv, TypeOK, Ids, Crash
<1>1. TableIsTrue'
  BY DEF LockInv, TableIsTrue
<1>2. (\A t \in Threads, a \in Apps : hold[t][a] # 0 => file[a] = t)'
  BY DEF LockInv
<1>3. (\A q \in Procs, a \in Apps : slot[q][a] < next[q])'
  BY DEF LockInv
<1>4. (\A q \in Procs : cancelled[q] \subseteq Issued(q))'
  BY DEF LockInv, Issued
<1>5. (\A q \in Procs, a, b \in Apps : slot[q][a] = slot[q][b] /\ slot[q][a] # 0 => a = b)'
  BY DEF LockInv
<1>6. CancelIsAimed'
  BY DEF CancelIsAimed
<1> QED BY <1>1, <1>2, <1>3, <1>4, <1>5, <1>6 DEF LockInv

LEMMA OperationLockInvariant == Spec => []Inv
<1>1. Init => LockInv /\ CancelIsAimed
  BY OperationLockAssumption DEF Init, LockInv, TableIsTrue, CancelIsAimed
<1>2. Inv /\ [Next]_vars => LockInv' /\ CancelIsAimed'
  <2> SUFFICES ASSUME Inv, [Next]_vars PROVE LockInv' /\ CancelIsAimed'
    OBVIOUS
  <2>1. CASE UNCHANGED vars
    BY <2>1 DEF vars, Inv, LockInv, TableIsTrue, CancelIsAimed, Issued
  <2>2. CASE Next
    BY <2>2, LockKeeps, CancelKeeps, DropKeeps, CloseKeeps, CrashKeeps DEF Next, Release
  <2> QED BY <2>1, <2>2
<1> QED BY <1>1, <1>2, OperationLockTypeOK, PTL DEF Spec, Inv

\* Two operations never run on one app, whatever process they run in.
THEOREM OneOperation == Spec => []OneOperationPerApp
<1>1. Inv => OneOperationPerApp
  BY DEF Inv, LockInv, OneOperationPerApp
<1> QED BY <1>1, OperationLockInvariant, PTL

\* The table of active operations agrees with the holder of the file.
THEOREM TableAgrees == Spec => []TableIsTrue
BY OperationLockInvariant, PTL DEF Inv, LockInv

\* Only a request that names an operation cancels it.
THEOREM CancelsAreAimed == Spec => []CancelIsAimed
BY OperationLockInvariant, PTL DEF Inv

\* What the promised lock says of the thread that locks an app's file and of the apps it
\* holds a guard of.
Works == [t \in Threads |-> {a \in Apps : hold[t][a] # 0}]

LEMMA WorkMoves ==
  ASSUME Inv, NEW t \in Threads, NEW a \in Apps
  PROVE  /\ Lock(t, a) => Works' = [Works EXCEPT ![t] = @ \union {a}]
         /\ Drop(t, a) => Works' = [Works EXCEPT ![t] = @ \ {a}]
         /\ a \in Works[t] <=> hold[t][a] # 0
<1> USE OperationLockAssumption DEF Inv, TypeOK, Ids
<1>1. ASSUME NEW id, hold' = [hold EXCEPT ![t][a] = id]
      PROVE  Works' = [Works EXCEPT ![t] = IF id # 0 THEN @ \union {a} ELSE @ \ {a}]
  <2>1. ASSUME NEW u \in Threads
        PROVE  {b \in Apps : hold'[u][b] # 0}
                 = IF u # t THEN Works[u]
                   ELSE IF id # 0 THEN Works[u] \union {a} ELSE Works[u] \ {a}
    <3>1. CASE u # t
      BY <1>1, <3>1 DEF Works
    <3>2. CASE u = t
      <4>1. \A b \in Apps : hold'[u][b] = IF b = a THEN id ELSE hold[u][b]
        BY <1>1, <3>2
      <4> QED BY <3>2, <4>1 DEF Works
    <3> QED BY <3>1, <3>2
  <2> QED BY <2>1 DEF Works
<1>2. Lock(t, a) => next[ProcOf[t]] # 0
  <2>1. ProcOf[t] \in Procs
    OBVIOUS
  <2> QED BY <2>1
<1>3. ASSUME Lock(t, a) PROVE Works' = [Works EXCEPT ![t] = @ \union {a}]
  <2>1. hold' = [hold EXCEPT ![t][a] = next[ProcOf[t]]]
    BY <1>3 DEF Lock, Claim
  <2> QED BY <1>1, <1>2, <1>3, <2>1
<1>4. ASSUME Drop(t, a) PROVE Works' = [Works EXCEPT ![t] = @ \ {a}]
  <2>1. hold' = [hold EXCEPT ![t][a] = 0]
    BY <1>4 DEF Drop
  <2> QED BY <1>1, <2>1
<1>5. a \in Works[t] <=> hold[t][a] # 0
  BY DEF Works
<1> QED BY <1>3, <1>4, <1>5

\* Every step of the lock is a step of the promised one: a thread works under a locked
\* file from the first to the last, only its own end or death unlocks it, and no other
\* process' death does.
THEOREM ImplementsAppLocks == Spec => Implements
<1>1. Init => Abstract!Init
  BY DEF Init, Abstract!Init
<1>2. ASSUME Inv, [Next]_vars PROVE [Abstract!Next]_<<file, Works>>
  <2> USE OperationLockAssumption DEF TypeOK
  <2>1. ASSUME NEW t \in Threads, NEW a \in Apps, Lock(t, a) PROVE Abstract!Next
    <3>1. Abstract!Take(t, a)
      BY <1>2, <2>1, WorkMoves DEF Lock, Claim, Abstract!Take, Works
    <3> QED BY <3>1 DEF Abstract!Next
  <2>2. ASSUME NEW t \in Threads, NEW a \in Apps, Drop(t, a) PROVE Abstract!Next
    <3>1. Abstract!Finish(t, a)
      BY <1>2, <2>2, WorkMoves DEF Drop, Abstract!Finish, Works
    <3> QED BY <3>1 DEF Abstract!Next
  <2>3. ASSUME NEW t \in Threads, NEW a \in Apps, Close(t, a) PROVE Abstract!Next
    <3>1. Abstract!Give(t, a)
      BY <1>2, <2>3, WorkMoves DEF Close, Abstract!Give, Works
    <3> QED BY <3>1 DEF Abstract!Next
  <2>4. ASSUME NEW p \in Procs, Crash(p) PROVE Abstract!Next
    <3> DEFINE dead == {t \in Threads : ProcOf[t] = p}
    <3>1. file' = [a \in Apps |-> IF file[a] \in dead THEN NoThread ELSE file[a]]
      BY <2>4 DEF Crash
    <3>2. ASSUME NEW t \in Threads
          PROVE  {a \in Apps : hold'[t][a] # 0} = IF t \in dead THEN {} ELSE Works[t]
      BY <2>4 DEF Crash, Works
    <3>3. Abstract!Die(p)
      BY <3>1, <3>2 DEF Abstract!Die, Works
    <3> QED BY <3>3 DEF Abstract!Next
  <2>5. ASSUME NEW p \in Procs, NEW a \in Apps, NEW id \in Ids, Cancel(p, a, id)
        PROVE UNCHANGED <<file, Works>>
    BY <2>5 DEF Cancel, Works
  <2>6. CASE UNCHANGED vars
    BY <2>6 DEF vars, Works
  <2> QED BY <1>2, <2>1, <2>2, <2>3, <2>4, <2>5, <2>6 DEF Next, Release
<1> QED BY <1>1, <1>2, OperationLockInvariant, PTL DEF Spec, Implements, Abstract!Spec, Works

=============================================================================
