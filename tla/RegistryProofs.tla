--------------------------- MODULE RegistryProofs ---------------------------
(***************************************************************************)
(* Proofs about Registry, for any number of processes, ids and records.    *)
(*                                                                         *)
(* Type correctness needs no more than the types.  The rest rests on       *)
(* RegistryInv, which says who may be where without the lock (LockInv) and *)
(* what the holder of the lock knows of the files at each step (SaveInv).  *)
(* Guarded rules out the unlocked first migration, which does lose updates.*)
(***************************************************************************)
EXTENDS Registry, TLAPS

USE RegistryAssumption

LEMMA StartType == Start \in Contents /\ Empty \in Contents
  BY DEF Start, Empty, Contents

LEMMA ChangedType ==
  ASSUME NEW o \in Ops, NEW reg \in Contents, o.kind # "load"
  PROVE  Changed(o, reg) \in Contents
  BY DEF Changed, Contents, Ops

\* Whatever ends a call leaves the variables of the process well typed.
MemoryOK ==
  /\ lock \in Procs \union {NoProc}
  /\ pc \in [Procs -> Steps]
  /\ op \in [Procs -> Ops \union {NoOp}]
  /\ buf \in [Procs -> Contents]
  /\ old \in [Procs -> Contents \union {NoFile}]
  /\ mig \in [Procs -> BOOLEAN]

LEMMA FinishType ==
  ASSUME TypeOK, NEW p \in Procs, Finish(p)
  PROVE  MemoryOK'
<1>1. (lock \in Procs \union {NoProc})'
  BY DEF TypeOK, Finish
<1>2. (pc \in [Procs -> Steps])'
  BY DEF TypeOK, Finish, Goto, Steps
<1>3. (op \in [Procs -> Ops \union {NoOp}])'
  BY DEF TypeOK, Finish
<1>4. (buf \in [Procs -> Contents])'
  BY StartType DEF TypeOK, Finish
<1>5. (old \in [Procs -> Contents \union {NoFile}])'
  BY DEF TypeOK, Finish
<1>6. (mig \in [Procs -> BOOLEAN])'
  BY DEF TypeOK, Finish
<1> QED BY <1>1, <1>2, <1>3, <1>4, <1>5, <1>6 DEF MemoryOK

\* Every reachable state is well typed, whatever the processes interleave.
THEOREM RegistryTypeOK == Spec => []TypeOK
<1>1. Init => TypeOK
  BY StartType DEF Init, TypeOK, Steps
<1>2. TypeOK /\ [Next]_vars => TypeOK'
  <2> SUFFICES ASSUME TypeOK, [Next]_vars PROVE TypeOK'
    OBVIOUS
  <2> USE DEF TypeOK, Steps, Loading, Writing, Goto, files
  <2>1. CASE UNCHANGED vars
    BY <2>1 DEF vars
  <2>2. ASSUME NEW p \in Procs, NEW o \in Ops, BeginMutation(p, o) PROVE TypeOK'
    BY <2>2 DEF BeginMutation
  <2>3. ASSUME NEW p \in Procs, BeginLoad(p) PROVE TypeOK'
    BY <2>3 DEF BeginLoad, Ops
  <2>4. ASSUME NEW p \in Procs, Finish(p), files' = files, dir' \in BOOLEAN
        PROVE  TypeOK'
    BY <2>4, FinishType DEF MemoryOK
  <2>5. ASSUME NEW p \in Procs, Acquire(p) \/ TimeOut(p) \/ Interrupt(p) PROVE TypeOK'
    BY <2>4, <2>5 DEF Acquire, TimeOut, Interrupt
  <2>6. ASSUME NEW p \in Procs, Load(p) PROVE TypeOK'
    <3>1. CASE CheckLive(p) \/ CheckPrev(p) \/ BackUp(p)
      BY <3>1 DEF CheckLive, CheckPrev, BackUp
    <3>2. CASE ReadLive(p) \/ ReadPrev(p)
      BY <2>4, <3>2 DEF ReadLive, ReadPrev
    <3>3. CASE Migrate(p)
      <4>1. CASE Finish(p)
        BY <2>4, <3>3, <4>1 DEF Migrate
      <4>2. CASE ~Finish(p)
        <5>1. (mig \in [Procs -> BOOLEAN])'
          BY <3>3, <4>2 DEF Migrate
        <5>2. (buf \in [Procs -> Contents])'
          BY <3>3, <4>2 DEF Migrate
        <5>3. (pc \in [Procs -> Steps])'
          BY <3>3, <4>2 DEF Migrate
        <5> QED BY <3>3, <4>2, <5>1, <5>2, <5>3 DEF Migrate
      <4> QED BY <4>1, <4>2
    <3> QED BY <2>6, <3>1, <3>2, <3>3 DEF Load
  <2>7. ASSUME NEW p \in Procs, Apply(p) PROVE TypeOK'
    <3>1. CASE Finish(p)
      BY <2>4, <2>7, <3>1 DEF Apply
    <3>2. CASE Allowed(op[p], buf[p]) /\ ~Finish(p)
      <4>1. op[p] \in Ops /\ op[p].kind # "load"
        BY <3>2 DEF Allowed, NoOp
      <4>2. Changed(op[p], buf[p]) \in Contents
        BY <4>1, ChangedType
      <4> QED BY <2>7, <3>2, <4>2 DEF Apply
    <3> QED BY <2>7, <3>1, <3>2 DEF Apply
  <2>8. ASSUME NEW p \in Procs, Store(p) PROVE TypeOK'
    <3>1. CASE Save(p) \/ RemovePrev(p) \/ RenamePrev(p) \/ RemoveLive(p)
      BY <3>1 DEF Save, RemovePrev, RenamePrev, RemoveLive
    <3>2. CASE RenameLive(p)
      BY <3>2, FinishType DEF RenameLive, MemoryOK
    <3> QED BY <2>8, <3>1, <3>2 DEF Store
  <2> QED
    BY <2>1, <2>2, <2>3, <2>4, <2>5, <2>6, <2>7, <2>8 DEF Next, Run
<1> QED BY <1>1, <1>2, PTL DEF Spec

-----------------------------------------------------------------------------
\* Only a load may run without the lock, and only when there is nothing to
\* migrate: so whoever writes a file of the registry holds the lock.
LEMMA LockInvInit == Guarded /\ Init => LockInv
  BY DEF Guarded, Init, LockInv, Loading, Writing

LEMMA LockInvNext == TypeOK /\ LockInv /\ [Next]_vars => LockInv'
<1> SUFFICES ASSUME TypeOK, LockInv, [Next]_vars PROVE LockInv'
  OBVIOUS
<1> USE DEF TypeOK, LockInv, Steps, Loading, Writing, Goto
<1>1. CASE UNCHANGED vars
  BY <1>1 DEF vars
<1>2. ASSUME NEW p \in Procs, NEW o \in Ops, BeginMutation(p, o) PROVE LockInv'
  BY <1>2 DEF BeginMutation
<1>3. ASSUME NEW p \in Procs, BeginLoad(p) PROVE LockInv'
  BY <1>3 DEF BeginLoad, Ops
<1>4. ASSUME NEW p \in Procs, Finish(p), V1 # "none" => dir' PROVE LockInv'
  BY <1>4 DEF Finish
<1>5. ASSUME NEW p \in Procs, Acquire(p) PROVE LockInv'
  BY <1>5 DEF Acquire
<1>6. ASSUME NEW p \in Procs, TimeOut(p) \/ Interrupt(p) PROVE LockInv'
  BY <1>4, <1>6 DEF TimeOut, Interrupt
<1>7. ASSUME NEW p \in Procs, Load(p) PROVE LockInv'
  <2>1. CASE CheckLive(p) \/ CheckPrev(p) \/ BackUp(p)
    BY <2>1 DEF CheckLive, CheckPrev, BackUp
  <2>2. CASE ReadLive(p)
    BY <1>4, <2>2 DEF ReadLive
  <2>3. CASE ReadPrev(p)
    BY <1>4, <2>3 DEF ReadPrev
  <2>4. CASE Migrate(p)
    BY <1>4, <2>4 DEF Migrate
  <2> QED BY <1>7, <2>1, <2>2, <2>3, <2>4 DEF Load
<1>8. ASSUME NEW p \in Procs, Apply(p) PROVE LockInv'
  <2>1. CASE Finish(p)
    BY <1>4, <1>8, <2>1 DEF Apply
  <2>2. CASE Allowed(op[p], buf[p]) /\ ~Finish(p)
    <3>1. op[p].kind # "load"
      BY <2>2 DEF Allowed
    <3> QED BY <1>8, <2>2, <3>1 DEF Apply
  <2> QED BY <1>8, <2>1, <2>2 DEF Apply
<1>9. ASSUME NEW p \in Procs, Store(p) PROVE LockInv'
  <2>1. CASE Save(p) \/ RemovePrev(p) \/ RenamePrev(p) \/ RemoveLive(p)
    BY <2>1 DEF Save, RemovePrev, RenamePrev, RemoveLive
  <2>2. CASE RenameLive(p)
    BY <1>4, <2>2 DEF RenameLive
  <2> QED BY <1>9, <2>1, <2>2 DEF Store
<1> QED
  BY <1>1, <1>2, <1>3, <1>5, <1>6, <1>7, <1>8, <1>9 DEF Next, Run

-----------------------------------------------------------------------------
\* What a process does leaves another holder of the lock knowing what it knew:
\* a process without the lock touches neither file of the registry.
Begin(p) == BeginLoad(p) \/ \E o \in Ops : BeginMutation(p, o)

LEMMA OthersKeep ==
  ASSUME TypeOK, LockInv, NEW p \in Procs, NEW q \in Procs, p # q, lock = q,
         Begin(p) \/ Run(p) \/ Interrupt(p)
  PROVE  /\ live' = live /\ prev' = prev
         /\ pc'[q] = pc[q] /\ op'[q] = op[q] /\ buf'[q] = buf[q]
         /\ old'[q] = old[q] /\ mig'[q] = mig[q]
<1> DEFINE Kept == /\ live' = live /\ prev' = prev
                   /\ pc'[q] = pc[q] /\ op'[q] = op[q] /\ buf'[q] = buf[q]
                   /\ old'[q] = old[q] /\ mig'[q] = mig[q]
<1> USE DEF TypeOK, Goto, files
<1>1. pc[p] \notin Writing
  BY DEF LockInv
<1>2. ASSUME Finish(p), files' = files PROVE Kept
  BY <1>2 DEF Finish
<1>3. CASE Begin(p)
  BY <1>3 DEF Begin, BeginLoad, BeginMutation
<1>4. CASE Acquire(p) \/ TimeOut(p) \/ Interrupt(p)
  BY <1>2, <1>4 DEF Acquire, TimeOut, Interrupt
<1>5. CASE CheckLive(p) \/ CheckPrev(p)
  BY <1>5 DEF CheckLive, CheckPrev
<1>6. CASE ReadLive(p) \/ ReadPrev(p) \/ Apply(p)
  BY <1>2, <1>6 DEF ReadLive, ReadPrev, Apply
<1>7. CASE Migrate(p) \/ BackUp(p) \/ Store(p)
  BY <1>1, <1>7 DEF Writing, Migrate, BackUp, Store, Save, RemovePrev, RenamePrev,
                    RemoveLive, RenameLive
<1> QED
  BY <1>3, <1>4, <1>5, <1>6, <1>7 DEF Run, Load

\* A process that runs keeps knowing the files and the change it is to save.
LEMMA HolderKnows ==
  ASSUME TypeOK, LockInv, NEW p \in Procs, Acquire(p) \/ lock = p,
         lock = p => KnowsFiles(p) /\ KnowsChange(p),
         Run(p), lock' = p
  PROVE  KnowsFiles(p)' /\ KnowsChange(p)'
<1> USE DEF TypeOK, Goto, files, KnowsFiles, KnowsChange, Loading, Writing, Committed
<1>1. CASE Acquire(p)
  BY <1>1 DEF Acquire, LockInv
<1>2. CASE TimeOut(p)
  BY <1>2 DEF TimeOut, Finish
<1>3. CASE CheckLive(p) \/ CheckPrev(p)
  BY <1>3 DEF CheckLive, CheckPrev, Start, LockInv
<1>4. CASE ReadLive(p) \/ ReadPrev(p)
  BY <1>4 DEF ReadLive, ReadPrev, Finish
<1>5. CASE Migrate(p) \/ BackUp(p)
  BY <1>5 DEF Migrate, BackUp, Finish, Start
<1>6. CASE Apply(p)
  BY <1>6 DEF Apply, Finish
<1>7. CASE Save(p) \/ RemovePrev(p) \/ RenamePrev(p)
  BY <1>7 DEF Save, RemovePrev, RenamePrev
<1>8. CASE RemoveLive(p)
  BY <1>8 DEF RemoveLive
<1>9. CASE RenameLive(p)
  BY <1>9, StartType DEF RenameLive, Finish
<1> QED
  BY <1>1, <1>2, <1>3, <1>4, <1>5, <1>6, <1>7, <1>8, <1>9 DEF Run, Load, Store

LEMMA SaveInvNext == TypeOK /\ LockInv /\ SaveInv /\ [Next]_vars => SaveInv'
<1> SUFFICES ASSUME TypeOK, LockInv, SaveInv, [Next]_vars, NEW q \in Procs, lock' = q
             PROVE  KnowsFiles(q)' /\ KnowsChange(q)'
  BY DEF SaveInv
<1>1. CASE UNCHANGED vars
  BY <1>1 DEF vars, SaveInv, KnowsFiles, KnowsChange, Committed
<1>2. ASSUME NEW p \in Procs, Begin(p) \/ Run(p) \/ Interrupt(p)
      PROVE  KnowsFiles(q)' /\ KnowsChange(q)'
  <2>1. lock \in {q, lock'} \/ Acquire(p)
    BY <1>2 DEF Begin, BeginLoad, BeginMutation, Interrupt, Run, Load, Store,
       TimeOut, Finish, CheckLive, CheckPrev, ReadLive, ReadPrev, Migrate, BackUp, Apply,
       Save, RemovePrev, RenamePrev, RemoveLive, RenameLive
  <2>2. CASE p # q
    <3>1. lock = q
      BY <2>1, <2>2 DEF Acquire
    <3> QED
      BY <1>2, <2>2, <3>1, OthersKeep DEF SaveInv, KnowsFiles, KnowsChange, Committed
  <2>3. CASE p = q
    <3>1. CASE Run(p)
      BY <2>1, <2>3, <3>1, HolderKnows DEF SaveInv
    <3>2. CASE Begin(p)
      BY <2>3, <3>2 DEF Begin, BeginLoad, BeginMutation, LockInv, Loading, Writing
    <3>3. CASE Interrupt(p)
      BY <2>3, <3>3 DEF Interrupt, Finish
    <3> QED BY <1>2, <3>1, <3>2, <3>3
  <2> QED BY <2>2, <2>3
<1> QED
  BY <1>1, <1>2 DEF Next, Begin

\* The invariant behind the rest: only the lock's holder writes, and at every
\* step it knows what the files hold and what it is about to save.
THEOREM RegistryInvariant == Guarded /\ Spec => []RegistryInv
<1>1. Guarded /\ Init => LockInv /\ SaveInv
  BY LockInvInit DEF Init, SaveInv
<1>2. TypeOK /\ LockInv /\ SaveInv /\ [Next]_vars => LockInv' /\ SaveInv'
  BY LockInvNext, SaveInvNext
<1> QED
  BY <1>1, <1>2, RegistryTypeOK, PTL DEF Spec, RegistryInv

-----------------------------------------------------------------------------
\* Under the lock a call decides on the committed registry, never on a stale or
\* empty one, whatever crashes and failures came before it.
THEOREM ReadsAreCurrent == Guarded /\ Spec => []LockedReadIsCurrent
<1>1. RegistryInv => LockedReadIsCurrent
  BY DEF RegistryInv, SaveInv, KnowsFiles, LockedReadIsCurrent
<1> QED BY <1>1, RegistryInvariant, PTL

\* No crash makes the registry disappear: a load under the lock never finds it
\* missing.
THEOREM LoadsAreNeverRefused == Guarded /\ Spec => []LockedLoadNeverRefused
<1>1. RegistryInv => LockedLoadNeverRefused
  BY DEF RegistryInv, SaveInv, KnowsFiles, LockedLoadNeverRefused
<1> QED BY <1>1, RegistryInvariant, PTL

\* The files change what they stand for only where a save that is not a
\* migration's renames the live file; everything else is a stutter.
LEMMA CommitOrStutter ==
  ASSUME TypeOK, LockInv, SaveInv, [Next]_vars
  PROVE  \/ Committed' = Committed
         \/ \E p \in Procs : /\ op[p] \in Ops
                             /\ Allowed(op[p], Committed)
                             /\ Committed' = Changed(op[p], Committed)
<1> DEFINE Goal == \/ Committed' = Committed
                   \/ \E p \in Procs : /\ op[p] \in Ops
                                       /\ Allowed(op[p], Committed)
                                       /\ Committed' = Changed(op[p], Committed)
<1> USE DEF files
<1>1. CASE live' = live /\ prev' = prev
  BY <1>1 DEF Committed
<1>2. ASSUME NEW p \in Procs, RemovePrev(p) \/ RenamePrev(p) \/ RemoveLive(p) \/ RenameLive(p)
      PROVE  Goal
  <2>1. lock = p /\ KnowsFiles(p) /\ KnowsChange(p) /\ op[p] \in Ops
    BY <1>2 DEF LockInv, SaveInv, Writing, RemovePrev, RenamePrev, RemoveLive, RenameLive
  <2>2. CASE RemovePrev(p) \/ RenamePrev(p)
    BY <2>1, <2>2 DEF RemovePrev, RenamePrev, KnowsFiles, Committed
  <2>3. CASE RemoveLive(p)
    BY <2>1, <2>3 DEF RemoveLive, KnowsFiles, Committed
  <2>4. CASE RenameLive(p)
    <3>1. live' = buf[p] /\ buf[p] # NoFile /\ Committed' = buf[p]
      BY <2>4 DEF RenameLive, Committed, TypeOK
    <3>2. CASE mig[p]
      BY <2>1, <2>4, <3>1, <3>2 DEF RenameLive, KnowsChange, Writing, Committed
    <3>3. CASE ~mig[p]
      BY <2>1, <2>4, <3>1, <3>3 DEF RenameLive, KnowsChange, Writing
    <3> QED BY <3>2, <3>3
  <2> QED BY <1>2, <2>2, <2>3, <2>4
<1>3. \/ live' = live /\ prev' = prev
      \/ \E p \in Procs : RemovePrev(p) \/ RenamePrev(p) \/ RemoveLive(p) \/ RenameLive(p)
  BY DEF vars, Next, BeginMutation, BeginLoad, Interrupt, Run, Acquire, TimeOut, Load, Apply,
     Store, CheckLive, CheckPrev, ReadLive, ReadPrev, Migrate, BackUp, Save
<1> QED
  BY <1>1, <1>2, <1>3

\* The registry's files implement one atomic map: no insert, remove or update
\* is lost, invented or applied to anything but the current registry, for any
\* number of processes that crash, fail and time out at any step.
THEOREM RegistryImplementsStore == Guarded /\ Spec => Implements
<1>1. Init => Abstract!Init
  BY DEF Init, Abstract!Init, Committed
<1>2. TypeOK /\ LockInv /\ SaveInv /\ [Next]_vars => [Abstract!Next]_Committed
  <2> SUFFICES ASSUME TypeOK, LockInv, SaveInv, [Next]_vars, Committed' # Committed
               PROVE  Abstract!Next
    OBVIOUS
  <2>1. PICK p \in Procs : /\ op[p] \in Ops
                           /\ Allowed(op[p], Committed)
                           /\ Committed' = Changed(op[p], Committed)
    BY CommitOrStutter
  <2> DEFINE o == op[p]
  <2>2. CASE o.kind = "remove"
    BY <2>1, <2>2 DEF Ops, Allowed, Changed, Abstract!Next, Abstract!Remove
  <2>3. CASE o.kind = "insert"
    BY <2>1, <2>3 DEF Ops, Allowed, Changed, Abstract!Next, Abstract!Insert
  <2>4. CASE o.kind = "update"
    BY <2>1, <2>4 DEF Ops, Allowed, Changed, Abstract!Next, Abstract!Update
  <2> QED BY <2>1, <2>2, <2>3, <2>4 DEF Allowed
<1> QED
  BY <1>1, <1>2, RegistryInvariant, PTL DEF Spec, RegistryInv, Implements, Abstract!Spec

=============================================================================
