------------------------- MODULE AgentGatewayProofs -------------------------
(* Proofs about enrolment and permissions, for any clients, apps and owners. *)
EXTENDS AgentGateway, TLAPS

\* What another step may do to an owner that is busy: while it holds the lock the
\* credentials stay and permissions only go, and nobody touches the scope it writes.
Undisturbed(p) ==
  /\ op'[p] = op[p] /\ pc'[p] = pc[p] /\ (lock' = p <=> lock = p)
  /\ lock = p => /\ cred' = cred
                 /\ \A c \in Clients, a \in Apps : Guarded'[c][a] \in {0, Guarded[c][a]}
  /\ pc[p] = "scope" => ~scoped'[op[p].client][op[p].app]
  /\ pc[p] \in {"check", "unguarded"} =>
       scope'[op[p].client][op[p].app] = scope[op[p].client][op[p].app]

LEMMA UndisturbedKeeps ==
  ASSUME GatewayInv, NEW p \in Owners, Undisturbed(p)
  PROVE  StepOK(p)'
<1>1. pc'[p] = pc[p] /\ op'[p] = op[p] /\ (lock' = p <=> lock = p) /\ StepOK(p)
  BY DEF Undisturbed, GatewayInv
<1>2. ASSUME pc[p] = "save" PROVE Guarded'[op[p].client] = NoApps
  <2> DEFINE c == op[p].client
  <2>1. c \in Clients /\ lock = p /\ Guarded[c] = NoApps
    BY <1>1, <1>2 DEF StepOK, Locked, Operation
  <2>2. \A a \in Apps : Guarded[c][a] = 0
    BY <2>1 DEF NoApps
  <2>3. \A a \in Apps : Guarded'[c][a] = 0
    BY <2>1, <2>2 DEF Undisturbed
  <2> QED BY <2>1, <2>3 DEF Guarded, NoApps
<1>3. lock = p => cred' = cred
  BY DEF Undisturbed
<1> QED BY <1>1, <1>2, <1>3 DEF StepOK, Locked, Undisturbed

LEMMA StartKeeps ==
  ASSUME GatewayInv, NEW o \in Owners, NEW k \in AllKinds, NEW c \in Clients,
         NEW a \in Apps, NEW g \in Gens, Start(o, k, c, a, g),
         k = "files" => \A p \in Owners : op[p] # NoOp => op[p].kind # "files" \/ op[p].app # a
  PROVE  GatewayInv'
<1> USE AgentGatewayAssumption
<1> DEFINE new == [kind |-> k, client |-> c, app |-> a, gen |-> g]
<1>1. new \in Operation /\ FirstStep(k) \in {"note", "match", "open"}
  BY DEF Operation, FirstStep
<1>2. op' = [op EXCEPT ![o] = new] /\ pc' = [pc EXCEPT ![o] = FirstStep(k)] /\ lock' = lock
  BY DEF Start, Goto
<1>3. TypeOK'
  BY <1>1, <1>2 DEF GatewayInv, TypeOK, Start, Steps, policy
<1>4. \A p \in Owners \ {o} : Undisturbed(p)
  BY <1>2 DEF GatewayInv, TypeOK, StepOK, Undisturbed, Start, policy, Guarded
<1>5. StepOK(o)'
  <2>1. op'[o] = new /\ pc'[o] = FirstStep(k) /\ pc[o] = "idle"
    BY <1>2 DEF GatewayInv, TypeOK, Start
  <2>2. lock' # o
    BY <2>1, <1>2 DEF GatewayInv, StepOK, Locked
  <2>3. pc'[o] = "note" => k = "files"
    BY <2>1 DEF FirstStep
  <2> QED BY <1>1, <2>1, <2>2, <2>3 DEF StepOK, Locked
<1>6. \A p \in Owners : StepOK(p)'
  BY <1>4, <1>5, UndisturbedKeeps
<1>7. FilesAlone'
  BY <1>2 DEF GatewayInv, TypeOK, FilesAlone
<1>8. ScopeOK'
  BY DEF GatewayInv, ScopeOK, Start, policy
<1> QED BY <1>3, <1>6, <1>7, <1>8 DEF GatewayInv

\* An owner that returns is idle and has no operation.
LEMMA FinishKeeps ==
  ASSUME GatewayInv, NEW o \in Owners, Finish(o)
  PROVE  /\ StepOK(o)' /\ FilesAlone'
         /\ op' \in [Owners -> Operation \union {NoOp}] /\ pc' \in [Owners -> Steps]
         /\ lock' \in Owners \union {NoOwner}
         /\ \A p \in Owners \ {o} : op'[p] = op[p] /\ pc'[p] = pc[p] /\ (lock' = p <=> lock = p)
<1> USE AgentGatewayAssumption
<1>1. /\ op' = [op EXCEPT ![o] = NoOp] /\ pc' = [pc EXCEPT ![o] = "idle"]
      /\ lock' = IF lock = o THEN NoOwner ELSE lock
  BY DEF Finish, Goto
<1>2. op'[o] = NoOp /\ pc'[o] = "idle" /\ lock' # o
  BY <1>1 DEF GatewayInv, TypeOK
<1>3. StepOK(o)'
  BY <1>2 DEF StepOK, Locked
<1>4. FilesAlone'
  BY <1>1 DEF GatewayInv, TypeOK, FilesAlone
<1> QED BY <1>1, <1>3, <1>4 DEF GatewayInv, TypeOK, Steps

LEMMA SaveNewKeeps ==
  ASSUME GatewayInv, NEW o \in Owners, SaveNew(o)
  PROVE  GatewayInv'
<1> USE AgentGatewayAssumption
<1> DEFINE c == op[o].client
<1>1. c \in Clients /\ lock = o /\ last + 1 \in Gens
  BY DEF GatewayInv, TypeOK, StepOK, SaveNew, Operation, Locked, Gens
<1>2. Finish(o)
  BY DEF SaveNew
<1>3. TypeOK'
  <2>1. [client |-> c, gen |-> last + 1] \in Secrets
    BY <1>1 DEF Secrets
  <2>2. pending' \in [Owners -> SUBSET Secrets]
    BY <2>1 DEF GatewayInv, TypeOK, SaveNew
  <2> QED BY <1>1, <1>2, <2>2, FinishKeeps DEF GatewayInv, TypeOK, SaveNew, policy
<1>4. \A p \in Owners \ {o} : Undisturbed(p)
  BY <1>1, <1>2, FinishKeeps DEF GatewayInv, StepOK, Undisturbed, SaveNew, policy
<1>5. ScopeOK'
  BY DEF GatewayInv, ScopeOK, SaveNew, policy
<1> QED BY <1>2, <1>3, <1>4, <1>5, FinishKeeps, UndisturbedKeeps DEF GatewayInv

LEMMA PermitFilesKeeps ==
  ASSUME GatewayInv, NEW o \in Owners, PermitFiles(o)
  PROVE  GatewayInv'
<1> USE AgentGatewayAssumption
<1> DEFINE c == op[o].client  a == op[o].app
<1>1. op[o] \in Operation /\ c \in Clients /\ a \in Apps /\ op[o].gen \in Gens
  BY DEF GatewayInv, StepOK, PermitFiles, Operation
<1>2. Finish(o) /\ op[o].kind = "files" /\ scope[c][a] = op[o].gen
  BY DEF PermitFiles, GatewayInv, StepOK
<1>3. TypeOK'
  BY <1>1, <1>2, FinishKeeps DEF GatewayInv, TypeOK, PermitFiles
<1>4. ASSUME NEW p \in Owners \ {o} PROVE Undisturbed(p)
  <2>1. pc[p] = "scope" => op[p] # NoOp /\ op[p].app # a /\ op[p] \in Operation
    BY <1>1, <1>2 DEF GatewayInv, StepOK, FilesAlone, Operation, NoOp
  <2>2. pc[p] = "scope" => ~scoped'[op[p].client][op[p].app]
    BY <2>1, <1>1 DEF GatewayInv, TypeOK, StepOK, PermitFiles, Operation
  <2>3. \A d \in Clients, b \in Apps : Guarded'[d][b] \in {0, Guarded[d][b]}
    BY <1>1 DEF GatewayInv, TypeOK, PermitFiles, Guarded
  <2> QED BY <1>2, <2>2, <2>3, FinishKeeps DEF Undisturbed, PermitFiles
<1>5. ScopeOK'
  BY <1>1, <1>2 DEF GatewayInv, TypeOK, ScopeOK, PermitFiles
<1> QED BY <1>2, <1>3, <1>4, <1>5, FinishKeeps, UndisturbedKeeps DEF GatewayInv

\* Steps that only look at the credentials, or are about what is pending.
LEMMA LooksKeep ==
  ASSUME GatewayInv, NEW o \in Owners,
         Note(o) \/ Match(o) \/ Check(o) \/ Fail(o) \/ Crash(o)
           \/ \E s \in pending[o] : Export(o, s)
  PROVE  GatewayInv'
<1> USE AgentGatewayAssumption
<1>1. UNCHANGED <<cred, perm, last, scoped, scope>> /\ Guarded' = Guarded
  BY DEF Note, Match, Check, Fail, Crash, Export, policy, Guarded
<1>2. ScopeOK'
  BY <1>1 DEF GatewayInv, ScopeOK
<1>3. pending' \in [Owners -> SUBSET Secrets]
  BY DEF GatewayInv, TypeOK, Note, Match, Check, Fail, Crash, Export
<1>4. CASE Finish(o)
  <2>1. \A p \in Owners \ {o} : Undisturbed(p)
    BY <1>1, <1>4, FinishKeeps DEF GatewayInv, StepOK, Undisturbed
  <2>2. TypeOK'
    BY <1>1, <1>3, <1>4, FinishKeeps DEF GatewayInv, TypeOK
  <2> QED BY <1>2, <1>4, <2>1, <2>2, FinishKeeps, UndisturbedKeeps DEF GatewayInv
<1>5. CASE UNCHANGED <<lock, pc, op>>
  <2>1. \A p \in Owners : Undisturbed(p)
    BY <1>1, <1>5 DEF GatewayInv, StepOK, Undisturbed
  <2> QED BY <1>1, <1>2, <1>3, <1>5, <2>1, UndisturbedKeeps
          DEF GatewayInv, TypeOK, FilesAlone
<1>6. ASSUME NEW step \in Steps \ Locked, pc' = [pc EXCEPT ![o] = step], lock' = NoOwner,
             lock = NoOwner, op' = op, pc[o] # "idle", step # "idle",
             step \in {"note", "scope", "check", "unguarded"} => op[o].kind = "files",
             step = "scope" => ~scoped[op[o].client][op[o].app],
             step \in {"check", "unguarded"} => scope[op[o].client][op[o].app] = op[o].gen
      PROVE  GatewayInv'
  <2>1. \A p \in Owners \ {o} : Undisturbed(p)
    BY <1>1, <1>6 DEF GatewayInv, TypeOK, StepOK, Undisturbed
  <2>2. TypeOK'
    BY <1>1, <1>3, <1>6 DEF GatewayInv, TypeOK
  <2>3. StepOK(o)'
    BY <1>1, <1>6 DEF GatewayInv, TypeOK, StepOK, Locked
  <2> QED BY <1>2, <1>6, <2>1, <2>2, <2>3, UndisturbedKeeps DEF GatewayInv, FilesAlone
<1>7. CASE Note(o)
  <2> DEFINE new == [op[o] EXCEPT !.gen = cred[op[o].client]]
  <2>1. /\ op[o] \in Operation /\ op[o].kind = "files" /\ lock = NoOwner /\ lock' = NoOwner
        /\ pc' = [pc EXCEPT ![o] = "open"] /\ op' = [op EXCEPT ![o] = new]
    BY <1>7 DEF GatewayInv, StepOK, Note, Unlocked, Goto
  <2>2. new \in Operation /\ new.kind = "files" /\ new.app = op[o].app /\ new # NoOp
    BY <2>1 DEF GatewayInv, TypeOK, Operation, NoOp
  <2>3. \A p \in Owners \ {o} : Undisturbed(p)
    BY <1>1, <2>1 DEF GatewayInv, TypeOK, StepOK, Undisturbed
  <2>4. TypeOK'
    BY <1>1, <1>3, <2>1, <2>2 DEF GatewayInv, TypeOK, Steps
  <2>5. op'[o] = new /\ pc'[o] = "open"
    BY <2>1 DEF GatewayInv, TypeOK
  <2>6. StepOK(o)'
    BY <2>1, <2>2, <2>5 DEF StepOK, Locked
  <2>7. op[o] # NoOp
    BY <2>1 DEF Operation, NoOp
  <2>8. FilesAlone'
    BY <2>1, <2>2, <2>7 DEF GatewayInv, TypeOK, FilesAlone
  <2> QED BY <1>2, <2>3, <2>4, <2>6, <2>8, UndisturbedKeeps DEF GatewayInv
<1>8. CASE Match(o)
  <2>1. CASE Unlocked(o, "open") /\ UNCHANGED <<op, pending>>
    BY <1>6, <1>8, <2>1 DEF Match, Unlocked, Goto, Steps, Locked
  <2> QED BY <1>4, <1>8, <2>1 DEF Match
<1>9. CASE Check(o)
  BY <1>6, <1>9 DEF Check, Unlocked, Goto, Steps, Locked, GatewayInv, StepOK
<1> QED BY <1>4, <1>5, <1>7, <1>8, <1>9 DEF Fail, Crash, Export

LEMMA OpenKeeps ==
  ASSUME GatewayInv, NEW o \in Owners, Open(o)
  PROVE  GatewayInv'
<1> USE AgentGatewayAssumption
<1> DEFINE step == IF op[o].kind \in {"grant", "files", "withdraw"} THEN "permit" ELSE "clear"
<1>1. pc' = [pc EXCEPT ![o] = step] /\ lock' = o /\ lock = NoOwner /\ op[o] \in Operation
  BY DEF GatewayInv, StepOK, Open, Goto
<1>2. TypeOK'
  BY <1>1 DEF GatewayInv, TypeOK, Open, policy, Steps, Locked
<1>3. \A p \in Owners \ {o} : Undisturbed(p)
  BY <1>1 DEF GatewayInv, TypeOK, StepOK, Undisturbed, Open, policy
<1>4. StepOK(o)'
  BY <1>1 DEF GatewayInv, TypeOK, StepOK, Open, policy, Locked
<1>5. FilesAlone' /\ ScopeOK'
  BY DEF GatewayInv, FilesAlone, ScopeOK, Open, policy
<1> QED BY <1>2, <1>3, <1>4, <1>5, UndisturbedKeeps DEF GatewayInv

LEMMA ClearKeeps ==
  ASSUME GatewayInv, NEW o \in Owners, Clear(o)
  PROVE  GatewayInv'
<1> USE AgentGatewayAssumption
<1> DEFINE c == op[o].client
<1>1. /\ pc' = [pc EXCEPT ![o] = "save"] /\ lock' = o /\ lock = o /\ op[o] \in Operation
      /\ c \in Clients
  BY DEF GatewayInv, StepOK, Clear, Goto, Locked, Operation
<1>2. NoApps \in [Apps -> Gens]
  BY DEF NoApps, Gens
<1>3. TypeOK'
  BY <1>1, <1>2 DEF GatewayInv, TypeOK, Clear, Steps, Locked
<1>4. \A p \in Owners \ {o} : Undisturbed(p)
  BY <1>1 DEF GatewayInv, TypeOK, StepOK, Undisturbed, Clear
<1>5. Guarded'[c] = NoApps
  BY <1>1 DEF GatewayInv, TypeOK, Clear, Guarded, NoApps
<1>6. StepOK(o)'
  BY <1>1, <1>5 DEF GatewayInv, TypeOK, StepOK, Clear, Locked
<1>7. FilesAlone'
  BY DEF GatewayInv, FilesAlone, Clear
<1>8. ScopeOK'
  BY <1>1 DEF GatewayInv, TypeOK, ScopeOK, Clear, NoApps
<1> QED BY <1>3, <1>4, <1>6, <1>7, <1>8, UndisturbedKeeps DEF GatewayInv

LEMMA SaveRevokedKeeps ==
  ASSUME GatewayInv, NEW o \in Owners, SaveRevoked(o)
  PROVE  GatewayInv'
<1> USE AgentGatewayAssumption
<1> DEFINE c == op[o].client
<1>1. c \in Clients /\ lock = o /\ op[o] \in Operation /\ op[o] # NoOp
  BY DEF GatewayInv, StepOK, SaveRevoked, Operation, Locked, NoOp
<1>2. cred' \in [Clients -> Gens] /\ UNCHANGED <<perm, scoped, last, scope>>
  BY <1>1 DEF GatewayInv, TypeOK, SaveRevoked, Gens, policy
<1>3. pending' \in [Owners -> SUBSET Secrets]
  <2>1. PICK kept \in SUBSET pending[o] : pending' = [pending EXCEPT ![o] = kept]
    <3>1. \/ pending' = [pending EXCEPT ![o] = {s \in pending[o] : s.client # c}]
          \/ pending' = [pending EXCEPT ![o] = pending[o] \ {[client |-> c, gen |-> op[o].gen]}]
      BY DEF SaveRevoked
    <3> QED BY <3>1
  <2>2. pending \in [Owners -> SUBSET Secrets]
    BY DEF GatewayInv, TypeOK
  <2> QED BY <2>1, <2>2
<1>4. ScopeOK'
  BY <1>2 DEF GatewayInv, ScopeOK
<1>5. CASE Finish(o)
  <2>1. TypeOK'
    BY <1>2, <1>3, <1>5, FinishKeeps DEF GatewayInv, TypeOK
  <2>2. \A p \in Owners \ {o} : Undisturbed(p)
    BY <1>1, <1>2, <1>5, FinishKeeps DEF GatewayInv, StepOK, Undisturbed
  <2> QED BY <1>4, <1>5, <2>1, <2>2, FinishKeeps, UndisturbedKeeps DEF GatewayInv
<1>6. CASE op[o].kind = "rotate"
  <2> DEFINE new == [op[o] EXCEPT !.kind = "begin"]
  <2>1. op' = [op EXCEPT ![o] = new] /\ pc' = [pc EXCEPT ![o] = "open"] /\ lock' = NoOwner
    BY <1>6 DEF SaveRevoked, Goto
  <2>2. new \in Operation /\ new.kind = "begin"
    BY <1>1 DEF Operation, AllKinds
  <2>3. TypeOK'
    BY <1>2, <1>3, <2>1, <2>2 DEF GatewayInv, TypeOK, Steps
  <2>4. \A p \in Owners \ {o} : Undisturbed(p)
    BY <1>1, <1>2, <2>1 DEF GatewayInv, TypeOK, StepOK, Undisturbed
  <2>5. op'[o] = new /\ pc'[o] = "open"
    BY <2>1 DEF GatewayInv, TypeOK
  <2>6. StepOK(o)'
    BY <2>1, <2>2, <2>5 DEF StepOK, Locked
  <2>7. FilesAlone'
    BY <2>1, <2>2 DEF GatewayInv, TypeOK, FilesAlone
  <2> QED BY <1>4, <2>3, <2>4, <2>6, <2>7, UndisturbedKeeps DEF GatewayInv
<1> QED BY <1>5, <1>6 DEF SaveRevoked

LEMMA PermitKeeps ==
  ASSUME GatewayInv, NEW o \in Owners, Permit(o)
  PROVE  GatewayInv'
<1> USE AgentGatewayAssumption
<1> DEFINE c == op[o].client  a == op[o].app
<1>1. c \in Clients /\ a \in Apps /\ lock = o /\ op[o] \in Operation
  BY DEF GatewayInv, StepOK, Permit, Operation, Locked
<1>2. /\ perm' \in [Clients -> [Apps -> Gens]] /\ scoped' \in [Clients -> [Apps -> BOOLEAN]]
      /\ UNCHANGED <<cred, last, scope, pending>>
  BY <1>1 DEF GatewayInv, TypeOK, Permit, Gens
<1>3. ScopeOK'
  BY <1>1 DEF GatewayInv, TypeOK, ScopeOK, Permit
<1>4. \A p \in Owners : pc[p] = "scope" => ~scoped'[op[p].client][op[p].app]
  BY <1>1 DEF GatewayInv, TypeOK, StepOK, Permit, Operation
<1>5. CASE Finish(o)
  <2>1. TypeOK'
    BY <1>2, <1>5, FinishKeeps DEF GatewayInv, TypeOK
  <2>2. \A p \in Owners \ {o} : Undisturbed(p)
    BY <1>1, <1>2, <1>4, <1>5, FinishKeeps DEF GatewayInv, StepOK, Undisturbed
  <2> QED BY <1>3, <1>5, <2>1, <2>2, FinishKeeps, UndisturbedKeeps DEF GatewayInv
<1>6. CASE op[o].kind = "files"
  <2>1. op' = op /\ pc' = [pc EXCEPT ![o] = "scope"] /\ lock' = NoOwner
    BY <1>6 DEF Permit, Goto
  <2>2. TypeOK'
    BY <1>2, <2>1 DEF GatewayInv, TypeOK, Steps
  <2>3. \A p \in Owners \ {o} : Undisturbed(p)
    BY <1>1, <1>2, <1>4, <2>1 DEF GatewayInv, TypeOK, StepOK, Undisturbed
  <2>4. ~scoped'[c][a]
    BY <1>1 DEF GatewayInv, TypeOK, Permit
  <2>5. StepOK(o)'
    BY <1>1, <1>6, <2>1, <2>4 DEF GatewayInv, TypeOK, StepOK, Locked
  <2>6. FilesAlone'
    BY <2>1 DEF GatewayInv, FilesAlone
  <2> QED BY <1>3, <2>2, <2>3, <2>5, <2>6, UndisturbedKeeps DEF GatewayInv
<1> QED BY <1>5, <1>6 DEF Permit

LEMMA WriteScopeKeeps ==
  ASSUME GatewayInv, NEW o \in Owners, WriteScope(o)
  PROVE  GatewayInv'
<1> USE AgentGatewayAssumption
<1> DEFINE c == op[o].client  a == op[o].app
<1>1. /\ c \in Clients /\ a \in Apps /\ op[o].gen \in Gens /\ lock # o /\ ~scoped[c][a]
      /\ op[o] \in Operation /\ op[o].kind = "files"
      /\ pc' = [pc EXCEPT ![o] = "check"] /\ UNCHANGED <<cred, perm, scoped, last, lock, op, pending>>
  BY DEF GatewayInv, StepOK, WriteScope, Operation, Locked, Goto, policy
<1>2. TypeOK'
  BY <1>1 DEF GatewayInv, TypeOK, WriteScope, Steps
<1>3. ASSUME NEW p \in Owners \ {o} PROVE Undisturbed(p)
  <2>1. pc[p] \in {"check", "unguarded"} => op[p].app # a /\ op[p].client \in Clients
    BY <1>1 DEF GatewayInv, StepOK, FilesAlone, Operation, NoOp
  <2>2. Guarded' = Guarded
    BY <1>1 DEF Guarded
  <2> QED BY <1>1, <2>1, <2>2 DEF GatewayInv, TypeOK, StepOK, Undisturbed, WriteScope
<1>4. StepOK(o)'
  BY <1>1 DEF GatewayInv, TypeOK, StepOK, WriteScope, Locked
<1>5. FilesAlone'
  BY <1>1 DEF GatewayInv, FilesAlone
<1>6. ScopeOK'
  BY <1>1 DEF GatewayInv, TypeOK, ScopeOK, WriteScope
<1> QED BY <1>2, <1>3, <1>4, <1>5, <1>6, UndisturbedKeeps DEF GatewayInv

LEMMA LoseFileKeeps ==
  ASSUME GatewayInv, NEW o \in Owners, LoseFile(o)
  PROVE  GatewayInv'
<1> USE AgentGatewayAssumption
<1> DEFINE c == op[o].client  a == op[o].app
<1>1. c \in Clients /\ a \in Apps /\ op[o] \in Operation /\ Finish(o)
  BY DEF GatewayInv, StepOK, LoseFile, Operation
<1>2. NoApps \in [Apps -> Gens] /\ 0 \in Gens
  BY DEF NoApps, Gens
<1>3. CASE pc[o] = "save" /\ cred' = [d \in Clients |-> 0] /\ UNCHANGED <<policy, scope>>
  <2>1. TypeOK'
    BY <1>1, <1>2, <1>3, FinishKeeps DEF GatewayInv, TypeOK, LoseFile, policy
  <2>2. \A p \in Owners \ {o} : Undisturbed(p)
    BY <1>1, <1>3, FinishKeeps DEF GatewayInv, StepOK, Undisturbed, policy, Locked
  <2>3. ScopeOK'
    BY <1>3 DEF GatewayInv, ScopeOK, policy
  <2> QED BY <1>1, <2>1, <2>2, <2>3, FinishKeeps, UndisturbedKeeps DEF GatewayInv
<1>4. CASE /\ perm' = [d \in Clients |-> NoApps] /\ UNCHANGED <<cred, scoped, scope>>
  <2>1. TypeOK'
    BY <1>1, <1>2, <1>4, FinishKeeps DEF GatewayInv, TypeOK, LoseFile
  <2>2. \A d \in Clients, b \in Apps : Guarded'[d][b] = 0
    BY <1>4 DEF Guarded, NoApps
  <2>3. \A p \in Owners \ {o} : Undisturbed(p)
    BY <1>1, <1>4, <2>2, FinishKeeps DEF GatewayInv, StepOK, Undisturbed
  <2>4. ScopeOK'
    BY <1>4 DEF ScopeOK, NoApps
  <2> QED BY <1>1, <2>1, <2>3, <2>4, FinishKeeps, UndisturbedKeeps DEF GatewayInv
<1>5. CASE /\ pc[o] = "scope" /\ scope' = [scope EXCEPT ![c][a] = 0] /\ UNCHANGED <<cred, policy>>
  <2>1. TypeOK'
    BY <1>1, <1>2, <1>5, FinishKeeps DEF GatewayInv, TypeOK, LoseFile, policy
  <2>2. op[o].kind = "files" /\ ~scoped[c][a]
    BY <1>5 DEF GatewayInv, StepOK
  <2>3. ASSUME NEW p \in Owners \ {o} PROVE Undisturbed(p)
    <3>1. pc[p] \in {"check", "unguarded"} => op[p].app # a /\ op[p].client \in Clients
      BY <1>1, <2>2 DEF GatewayInv, StepOK, FilesAlone, Operation, NoOp
    <3>2. Guarded' = Guarded
      BY <1>5 DEF Guarded, policy
    <3> QED BY <1>1, <1>5, <3>1, <3>2, FinishKeeps
            DEF GatewayInv, TypeOK, StepOK, Undisturbed, policy
  <2>4. ScopeOK'
    BY <1>1, <1>5, <2>2 DEF GatewayInv, TypeOK, ScopeOK, policy
  <2> QED BY <1>1, <2>1, <2>3, <2>4, FinishKeeps, UndisturbedKeeps DEF GatewayInv
<1> QED BY <1>3, <1>4, <1>5 DEF LoseFile

\* Permissions that go by themselves.
LEMMA PermissionsGo ==
  ASSUME TypeOK, (\E c \in Clients, a \in Apps : RunOut(c, a)) \/ LosePolicy
  PROVE  /\ perm' \in [Clients -> [Apps -> Gens]]
         /\ \A c \in Clients, a \in Apps : perm'[c][a] \in {0, perm[c][a]}
<1> USE AgentGatewayAssumption DEF TypeOK, Gens
<1>1. CASE LosePolicy
  BY <1>1 DEF LosePolicy, NoApps
<1>2. ASSUME NEW c \in Clients, NEW a \in Apps, RunOut(c, a)
      PROVE  /\ perm' \in [Clients -> [Apps -> Gens]]
             /\ \A d \in Clients, b \in Apps : perm'[d][b] \in {0, perm[d][b]}
  BY <1>2 DEF RunOut
<1> QED BY <1>1, <1>2

LEMMA GoneKeeps ==
  ASSUME GatewayInv, (\E c \in Clients, a \in Apps : RunOut(c, a)) \/ LosePolicy
  PROVE  GatewayInv'
<1> USE AgentGatewayAssumption
<1>1. UNCHANGED <<cred, scoped, last, scope, lock, pc, op, pending>>
  BY DEF RunOut, LosePolicy
<1>2. /\ perm' \in [Clients -> [Apps -> Gens]]
      /\ \A c \in Clients, a \in Apps : perm'[c][a] \in {0, perm[c][a]}
  BY PermissionsGo DEF GatewayInv
<1>4. \A c \in Clients, a \in Apps : Guarded'[c][a] \in {0, Guarded[c][a]}
  BY <1>1, <1>2 DEF Guarded
<1>5. \A p \in Owners : Undisturbed(p)
  BY <1>1, <1>4 DEF GatewayInv, StepOK, Undisturbed
<1>6. ScopeOK'
  BY <1>1, <1>2 DEF GatewayInv, ScopeOK
<1> QED BY <1>1, <1>2, <1>5, <1>6, UndisturbedKeeps DEF GatewayInv, TypeOK, FilesAlone

\* The invariant: who holds the credential lock, and what each owner has seen.
LEMMA GatewayInvariant == Spec => []GatewayInv
<1> USE AgentGatewayAssumption
<1>1. Init => GatewayInv
  BY DEF Init, GatewayInv, TypeOK, StepOK, FilesAlone, ScopeOK, Gens, NoApps, Steps, Locked
<1>2. GatewayInv /\ [Next]_vars => GatewayInv'
  <2> SUFFICES ASSUME GatewayInv, [Next]_vars PROVE GatewayInv'
    OBVIOUS
  <2>1. ASSUME NEW o \in Owners, NEW k \in Kinds, NEW c \in Clients, NEW a \in Apps,
               Begin(o, k, c, a)
        PROVE  GatewayInv'
    <3>1. k \in AllKinds /\ 0 \in Gens
      BY DEF Gens
    <3> QED BY <2>1, <3>1, StartKeeps DEF Begin
  <2>2. ASSUME NEW o \in Owners, NEW s \in pending[o], CancelPending(o, s)
        PROVE  GatewayInv'
    <3>1. s.client \in Clients /\ s.gen \in Gens
      BY DEF GatewayInv, TypeOK, Secrets
    <3>2. "cancel" \in AllKinds /\ "cancel" # "files"
      BY DEF AllKinds
    <3> QED BY <2>2, <3>1, <3>2, StartKeeps DEF CancelPending
  <2>3. CASE UNCHANGED vars
    <3>1. \A p \in Owners : Undisturbed(p)
      BY <2>3 DEF vars, policy, GatewayInv, StepOK, Undisturbed, Guarded
    <3> QED BY <2>3, <3>1, UndisturbedKeeps
            DEF vars, policy, GatewayInv, TypeOK, FilesAlone, ScopeOK
  <2> QED BY <2>1, <2>2, <2>3, LooksKeep, OpenKeeps, ClearKeeps, SaveNewKeeps, SaveRevokedKeeps,
             PermitKeeps, WriteScopeKeeps, PermitFilesKeeps, LoseFileKeeps, GoneKeeps
          DEF Next, Step
<1> QED BY <1>1, <1>2, PTL DEF Spec

\* Every variable keeps its type.
THEOREM GatewayTypeOK == Spec => []TypeOK
BY GatewayInvariant, PTL DEF GatewayInv

\* Files are never opened to an enrolment they were not granted to, although the
\* permission is saved outside of the credential lock.
THEOREM FilesStayWithEnrolment == Spec => []FilesAreForThisEnrolment
<1>1. GatewayInv => FilesAreForThisEnrolment
  BY DEF GatewayInv, TypeOK, ScopeOK, FilesAreForThisEnrolment, Admitted
<1> QED BY <1>1, GatewayInvariant, PTL

\* What a step of an owner or of time is in Credentials.
LEMMA StepIsAbstract ==
  ASSUME GatewayInv, [Next]_vars
  PROVE  [Abstract!Next]_<<cred, Guarded, last>>
<1> USE AgentGatewayAssumption
<1>1. \A c \in Clients, a \in Apps : Guarded[c][a] = IF scoped[c][a] THEN 0 ELSE perm[c][a]
  BY DEF Guarded
<1>2. ASSUME UNCHANGED <<cred, last>>,
             \A c \in Clients, a \in Apps : Guarded'[c][a] \in {0, Guarded[c][a]}
      PROVE  Abstract!Withdraw
  <2>1. Guarded' \in [Clients -> [Apps -> Gens]]
    <3>1. \A c \in Clients, a \in Apps : Guarded[c][a] \in Gens /\ 0 \in Gens
      BY <1>1 DEF GatewayInv, TypeOK, Gens
    <3>2. Guarded' = [c \in Clients |-> [a \in Apps |-> Guarded'[c][a]]]
      BY DEF Guarded
    <3> QED BY <1>2, <3>1, <3>2
  <2> QED BY <1>2, <2>1 DEF Abstract!Withdraw, Abstract!Gens, Gens
<1>3. ASSUME NEW o \in Owners, SaveNew(o) PROVE Abstract!Next
  <2> DEFINE c == op[o].client
  <2>1. c \in Clients /\ Guarded[c] = NoApps /\ cred[c] = 0
    BY <1>3 DEF GatewayInv, StepOK, SaveNew, Operation
  <2>2. Guarded' = Guarded
    BY <1>3 DEF SaveNew, policy, Guarded
  <2>3. Abstract!Enroll(c)
    BY <1>3, <2>1, <2>2 DEF SaveNew, Abstract!Enroll, Abstract!NoApps, NoApps
  <2> QED BY <2>1, <2>3 DEF Abstract!Next
<1>4. ASSUME NEW o \in Owners, SaveRevoked(o) PROVE Abstract!Next
  <2> DEFINE c == op[o].client
  <2>1. c \in Clients /\ Guarded[c] = NoApps
    BY <1>4 DEF GatewayInv, StepOK, SaveRevoked, Operation
  <2>2. Guarded' = Guarded
    BY <1>4 DEF SaveRevoked, policy, Guarded
  <2>3. Abstract!Revoke(c)
    BY <1>4, <2>1, <2>2 DEF SaveRevoked, Abstract!Revoke, Abstract!NoApps, NoApps
  <2> QED BY <2>1, <2>3 DEF Abstract!Next
<1>5. ASSUME NEW o \in Owners, Permit(o) PROVE Abstract!Next
  <2> DEFINE c == op[o].client  a == op[o].app
  <2>1. c \in Clients /\ a \in Apps /\ cred[c] # 0 /\ UNCHANGED <<cred, last>>
    BY <1>5 DEF GatewayInv, StepOK, Permit, Operation
  <2>2. CASE op[o].kind = "grant"
    <3>1. Guarded' = [Guarded EXCEPT ![c][a] = cred[c]]
      BY <1>5, <2>1, <2>2 DEF GatewayInv, TypeOK, Permit, Guarded
    <3> QED BY <2>1, <3>1 DEF Abstract!Next, Abstract!Permit
  <2>3. CASE op[o].kind # "grant"
    <3>1. \A d \in Clients, b \in Apps : Guarded'[d][b] \in {0, Guarded[d][b]}
      BY <1>5, <2>1, <2>3 DEF GatewayInv, TypeOK, Permit, Guarded
    <3> QED BY <1>2, <2>1, <3>1 DEF Abstract!Next
  <2> QED BY <2>2, <2>3
<1>6. ASSUME NEW o \in Owners, Clear(o) \/ PermitFiles(o) PROVE Abstract!Next
  <2>1. UNCHANGED <<cred, last>>
    BY <1>6 DEF Clear, PermitFiles
  <2>2. \A c \in Clients, a \in Apps : Guarded'[c][a] \in {0, Guarded[c][a]}
    <3>1. op[o].client \in Clients /\ op[o].app \in Apps
      BY <1>6 DEF GatewayInv, StepOK, Clear, PermitFiles, Operation
    <3>2. CASE Clear(o)
      BY <3>1, <3>2 DEF GatewayInv, TypeOK, Clear, Guarded, NoApps
    <3>3. CASE PermitFiles(o)
      BY <3>1, <3>3 DEF GatewayInv, TypeOK, PermitFiles, Guarded
    <3> QED BY <1>6, <3>2, <3>3
  <2> QED BY <1>2, <2>1, <2>2 DEF Abstract!Next
<1>7. ASSUME NEW o \in Owners, LoseFile(o) PROVE [Abstract!Next]_<<cred, Guarded, last>>
  <2>1. CASE cred' = [d \in Clients |-> 0] /\ UNCHANGED <<policy, scope>>
    <3>1. Guarded' = Guarded
      BY <2>1 DEF policy, Guarded
    <3> QED BY <1>7, <2>1, <3>1 DEF LoseFile, Abstract!Next, Abstract!Lose
  <2>2. CASE perm' = [d \in Clients |-> NoApps] /\ UNCHANGED <<cred, scoped, scope>>
    <3>1. \A c \in Clients, a \in Apps : Guarded'[c][a] = 0
      BY <2>2 DEF Guarded, NoApps
    <3> QED BY <1>2, <1>7, <2>2, <3>1 DEF LoseFile, Abstract!Next
  <2>3. CASE UNCHANGED <<cred, policy>>
    BY <1>7, <2>3 DEF LoseFile, policy, Guarded
  <2> QED BY <1>7, <2>1, <2>2, <2>3 DEF LoseFile
<1>8. ASSUME (\E c \in Clients, a \in Apps : RunOut(c, a)) \/ LosePolicy PROVE Abstract!Next
  <2>1. UNCHANGED <<cred, last, scoped>>
    BY <1>8 DEF RunOut, LosePolicy
  <2>2. \A c \in Clients, a \in Apps : perm'[c][a] \in {0, perm[c][a]}
    BY <1>8, PermissionsGo DEF GatewayInv
  <2>3. \A c \in Clients, a \in Apps : Guarded'[c][a] \in {0, Guarded[c][a]}
    BY <2>1, <2>2 DEF Guarded
  <2> QED BY <1>2, <2>1, <2>3 DEF Abstract!Next
<1>9. ASSUME UNCHANGED <<cred, policy, last>> PROVE UNCHANGED <<cred, Guarded, last>>
  BY <1>9 DEF policy, Guarded
<1>10. CASE UNCHANGED vars
  BY <1>9, <1>10 DEF vars, policy
<1>11. ASSUME NEW o \in Owners,
              (\E k \in Kinds, c \in Clients, a \in Apps : Begin(o, k, c, a))
                \/ \E s \in pending[o] : CancelPending(o, s) \/ Export(o, s)
       PROVE  UNCHANGED <<cred, policy, last>>
  BY <1>11 DEF Begin, CancelPending, Start, Export
<1>12. ASSUME NEW o \in Owners, Note(o) \/ Match(o) \/ Open(o) \/ WriteScope(o) \/ Check(o)
                                  \/ Fail(o) \/ Crash(o)
       PROVE  UNCHANGED <<cred, policy, last>>
  BY <1>12 DEF Note, Match, Open, WriteScope, Check, Fail, Crash
<1> QED BY <1>3, <1>4, <1>5, <1>6, <1>7, <1>8, <1>9, <1>10, <1>11, <1>12 DEF Next, Step

\* The two files, their locks and all that can fail promise what Credentials says.
THEOREM ImplementsCredentials == Spec => Implements
<1>1. Init => Abstract!Init
  BY DEF Init, Guarded, NoApps, Abstract!Init, Abstract!NoApps
<1> QED BY <1>1, StepIsAbstract, GatewayInvariant, PTL DEF Spec, Implements, Abstract!Spec

=============================================================================
