---------------------------- MODULE AgentGateway ----------------------------
(***************************************************************************)
(* Enrolment and permissions of agents (src/agent_gateway.rs, its stores   *)
(* auth.rs and agent_policy/store.rs, and the owner flows of               *)
(* agent_owner.rs and agent_data.rs).                                      *)
(*                                                                         *)
(* Two files, each with a lock of its own: the credentials and the         *)
(* policy.  An owner operation takes the credential lock, and inside of it *)
(* the policy lock for one write; a lock that is taken refuses it, so that *)
(* any operation may fail at any lock.  Both files are replaced by remove  *)
(* and rename, with no copy kept: an error or a crash between the two      *)
(* loses the file, and a lost file opens empty.                            *)
(*                                                                         *)
(* Abstracted: secrets and hashes (a generation), what a permission allows *)
(* (told apart are file grants, which are made differently), hours.        *)
(***************************************************************************)
EXTENDS Naturals, FiniteSets

CONSTANTS Clients, Apps, MaxGens,
          Owners, NoOwner,  \* threads of owner processes: launchers, the CLI
          Kinds,            \* owner operations
          MaxPending        \* enrolments a launcher keeps for export

AllKinds == {"enroll", "begin", "rotate", "cancel", "revoke", "grant", "files", "withdraw"}

ASSUME AgentGatewayAssumption ==
  /\ NoOwner \notin Owners
  /\ Kinds \subseteq AllKinds
  /\ MaxGens \in Nat /\ MaxPending \in Nat

VARIABLES cred, perm, last,  \* as in Credentials; the policy file does not say for
                             \* which enrolment a permission was given
          scoped,            \* scoped[c][a]: is the permission a file grant
          scope,             \* scope[c][a]: the enrolment of the file scope
          lock,              \* holder of agent-clients.lock
          pc, op,            \* per owner: next step, operation under way
          pending            \* per owner: enrolments that can be exported

policy == <<perm, scoped>>
vars == <<cred, perm, last, scoped, scope, lock, pc, op, pending>>

Gens == 0 .. MaxGens
NoApps == [a \in Apps |-> 0]
Secrets == [client : Clients, gen : Gens]

\* gen is the enrolment an operation noted or made.
NoOp == [kind |-> "none"]
Operation == [kind : AllKinds, client : Clients, app : Apps, gen : Gens]
Locked == {"clear", "save", "permit"}
Steps == {"idle", "note", "match", "open", "scope", "check", "unguarded"} \union Locked

TypeOK ==
  /\ cred \in [Clients -> Gens]
  /\ perm \in [Clients -> [Apps -> Gens]]
  /\ last \in Gens
  /\ scoped \in [Clients -> [Apps -> BOOLEAN]]
  /\ scope \in [Clients -> [Apps -> Gens]]
  /\ lock \in Owners \union {NoOwner}
  /\ pc \in [Owners -> Steps]
  /\ op \in [Owners -> Operation \union {NoOp}]
  /\ pending \in [Owners -> SUBSET Secrets]

Init ==
  /\ cred = [c \in Clients |-> 0]
  /\ perm = [c \in Clients |-> NoApps]
  /\ last = 0
  /\ scoped = [c \in Clients |-> [a \in Apps |-> FALSE]]
  /\ scope = [c \in Clients |-> NoApps]
  /\ lock = NoOwner
  /\ pc = [o \in Owners |-> "idle"]
  /\ op = [o \in Owners |-> NoOp]
  /\ pending = [o \in Owners |-> {}]

Goto(o, step) == pc' = [pc EXCEPT ![o] = step]

\* The operation returns or its process dies: its lock is released.
Finish(o) ==
  /\ Goto(o, "idle")
  /\ op' = [op EXCEPT ![o] = NoOp]
  /\ lock' = IF lock = o THEN NoOwner ELSE lock

\* A look at the credentials under their lock, which is given back at once.
Unlocked(o, step) == lock = NoOwner /\ Goto(o, step) /\ UNCHANGED lock

-----------------------------------------------------------------------------
\* Starting an owner operation.

FirstStep(kind) == CASE kind = "files" -> "note"
                     [] kind = "cancel" -> "match"
                     [] OTHER -> "open"

Start(o, kind, c, a, g) ==
  /\ pc[o] = "idle" /\ kind \in Kinds
  /\ op' = [op EXCEPT ![o] = [kind |-> kind, client |-> c, app |-> a, gen |-> g]]
  /\ Goto(o, FirstStep(kind))
  /\ UNCHANGED <<cred, policy, last, scope, lock, pending>>

\* A launcher that keeps too many enrolments for export makes no other.  A file
\* grant holds the operation lock of its app from here to its end.
Begin(o, kind, c, a) ==
  /\ kind # "cancel"
  /\ kind = "files" => \A p \in Owners : op[p] # NoOp => op[p].kind # "files" \/ op[p].app # a
  /\ kind \in {"begin", "rotate"} => Cardinality(pending[o]) < MaxPending
  /\ Start(o, kind, c, a, 0)

CancelPending(o, s) == s \in pending[o] /\ \E a \in Apps : Start(o, "cancel", s.client, a, s.gen)

\* A pending enrolment is exported once, and not after ten minutes.
Export(o, s) ==
  /\ pc[o] = "idle" /\ s \in pending[o]
  /\ pending' = [pending EXCEPT ![o] = @ \ {s}]
  /\ UNCHANGED <<cred, policy, last, scope, lock, pc, op>>

-----------------------------------------------------------------------------
\* The operations.

\* grant_for_owner of agent_data.rs: owner_client_generation.
Note(o) ==
  LET c == op[o].client IN
  /\ pc[o] = "note" /\ cred[c] # 0
  /\ Unlocked(o, "open")
  /\ op' = [op EXCEPT ![o].gen = cred[c]]
  /\ UNCHANGED <<cred, policy, last, scope, pending>>

\* Cancelling compares the pending secret with the client's, and revokes the
\* client only when they match.
Match(o) ==
  LET c == op[o].client IN
  /\ pc[o] = "match"
  /\ \/ /\ cred[c] = op[o].gen
        /\ Unlocked(o, "open")
        /\ UNCHANGED <<op, pending>>
     \/ /\ cred[c] # op[o].gen /\ lock = NoOwner
        /\ pending' = [pending EXCEPT ![o] = @ \ {[client |-> c, gen |-> op[o].gen]}]
        /\ Finish(o)
  /\ UNCHANGED <<cred, policy, last, scope>>

\* An enrolment needs a client that is not enrolled, a change of permissions one
\* that is; a revocation takes any.
Open(o) ==
  LET k == op[o].kind IN
  /\ pc[o] = "open"
  /\ lock = NoOwner
  /\ k \in {"enroll", "begin"} => cred[op[o].client] = 0
  /\ k \in {"grant", "files", "withdraw"} => cred[op[o].client] # 0
  /\ lock' = o
  /\ Goto(o, IF k \in {"grant", "files", "withdraw"} THEN "permit" ELSE "clear")
  /\ UNCHANGED <<cred, policy, last, scope, op, pending>>

\* Faulty: the client's permissions stay.
ClearNothing(o) ==
  /\ pc[o] = "clear"
  /\ Goto(o, "save")
  /\ UNCHANGED <<cred, policy, last, scope, lock, op, pending>>

\* Enrolling and revoking start by removing the client's permissions.
Clear(o) ==
  /\ pc[o] = "clear"
  /\ perm' = [perm EXCEPT ![op[o].client] = NoApps]
  /\ Goto(o, "save")
  /\ UNCHANGED <<cred, scoped, last, scope, lock, op, pending>>

\* A new secret is a new generation, also for a client that had one.
SaveNew(o) ==
  LET c == op[o].client IN
  /\ pc[o] = "save" /\ op[o].kind \in {"enroll", "begin"}
  /\ last < MaxGens
  /\ last' = last + 1
  /\ cred' = [cred EXCEPT ![c] = last + 1]
  /\ pending' = IF op[o].kind = "begin"
                THEN [pending EXCEPT ![o] = @ \union {[client |-> c, gen |-> last + 1]}]
                ELSE pending
  /\ Finish(o)
  /\ UNCHANGED <<policy, scope>>

\* Rotating goes on to enrol the client again, and forgets what was pending of it.
SaveRevoked(o) ==
  LET c == op[o].client IN
  /\ pc[o] = "save" /\ op[o].kind \in {"revoke", "rotate", "cancel"}
  /\ cred' = [cred EXCEPT ![c] = 0]
  /\ \/ /\ op[o].kind = "rotate"
        /\ op' = [op EXCEPT ![o].kind = "begin"]
        /\ Goto(o, "open")
        /\ lock' = NoOwner
        /\ pending' = [pending EXCEPT ![o] = {s \in @ : s.client # c}]
     \/ /\ op[o].kind = "cancel"
        /\ pending' = [pending EXCEPT ![o] = @ \ {[client |-> c, gen |-> op[o].gen]}]
        /\ Finish(o)
     \/ /\ op[o].kind = "revoke"
        /\ pending' = [pending EXCEPT ![o] = {s \in @ : s.client # c}]
        /\ Finish(o)
  /\ UNCHANGED <<policy, last, scope>>

\* What the policy file gets under the credential lock: a permission for the
\* client, or none any more.
Permit(o) ==
  LET c == op[o].client  a == op[o].app  k == op[o].kind IN
  /\ pc[o] = "permit"
  /\ perm' = [perm EXCEPT ![c][a] = IF k = "grant" THEN cred[c] ELSE 0]
  /\ scoped' = [scoped EXCEPT ![c][a] = FALSE]
  /\ IF k = "files"
     THEN Goto(o, "scope") /\ lock' = NoOwner /\ UNCHANGED op
     ELSE Finish(o)
  /\ UNCHANGED <<cred, last, scope, pending>>

\* Faulty: the scope gets the generation of the moment.
WriteScopeNow(o) ==
  /\ pc[o] = "scope"
  /\ scope' = [scope EXCEPT ![op[o].client][op[o].app] = cred[op[o].client]]
  /\ Goto(o, "check")
  /\ UNCHANGED <<cred, policy, last, lock, op, pending>>

\* Then the file scope is written, for the generation noted at first,
WriteScope(o) ==
  /\ pc[o] = "scope"
  /\ scope' = [scope EXCEPT ![op[o].client][op[o].app] = op[o].gen]
  /\ Goto(o, "check")
  /\ UNCHANGED <<cred, policy, last, lock, op, pending>>

\* the client must still be enrolled,
Check(o) ==
  /\ pc[o] = "check" /\ cred[op[o].client] # 0
  /\ Unlocked(o, "unguarded")
  /\ UNCHANGED <<cred, policy, last, scope, op, pending>>

\* and the permission is saved without the credential lock.
PermitFiles(o) ==
  LET c == op[o].client  a == op[o].app IN
  /\ pc[o] = "unguarded"
  /\ perm' = [perm EXCEPT ![c][a] = op[o].gen]
  /\ scoped' = [scoped EXCEPT ![c][a] = TRUE]
  /\ Finish(o)
  /\ UNCHANGED <<cred, last, scope, pending>>

\* A check fails, a lock is taken, or a write fails and leaves the file as it was.
Fail(o) ==
  /\ pc[o] # "idle"
  /\ Finish(o)
  /\ UNCHANGED <<cred, policy, last, scope, pending>>

\* A write fails, or the process dies, between remove and rename.
LoseFile(o) ==
  /\ \/ pc[o] = "save" /\ cred' = [c \in Clients |-> 0] /\ UNCHANGED <<policy, scope>>
     \/ /\ pc[o] \in {"clear", "permit", "unguarded"}
        /\ perm' = [c \in Clients |-> NoApps] /\ UNCHANGED <<cred, scoped, scope>>
     \/ /\ pc[o] = "scope"
        /\ scope' = [scope EXCEPT ![op[o].client][op[o].app] = 0] /\ UNCHANGED <<cred, policy>>
  /\ Finish(o)
  /\ UNCHANGED <<last, pending>>

\* The process dies: what it kept in memory is gone.
Crash(o) ==
  /\ Finish(o)
  /\ pending' = [pending EXCEPT ![o] = {}]
  /\ UNCHANGED <<cred, policy, last, scope>>

\* A permission runs out.
RunOut(c, a) ==
  /\ perm[c][a] # 0
  /\ perm' = [perm EXCEPT ![c][a] = 0]
  /\ UNCHANGED <<cred, scoped, last, scope, lock, pc, op, pending>>

\* Every request of an agent saves the policy file, for its audit: it may be lost.
LosePolicy ==
  /\ perm' = [c \in Clients |-> NoApps]
  /\ UNCHANGED <<cred, scoped, last, scope, lock, pc, op, pending>>

Step(o) == \/ Note(o) \/ Match(o) \/ Open(o) \/ Clear(o) \/ SaveNew(o) \/ SaveRevoked(o)
           \/ Permit(o) \/ WriteScope(o) \/ Check(o) \/ PermitFiles(o)
           \/ Fail(o) \/ LoseFile(o)

Next ==
  \/ \E o \in Owners : \/ \E k \in Kinds, c \in Clients, a \in Apps : Begin(o, k, c, a)
                       \/ \E s \in pending[o] : CancelPending(o, s) \/ Export(o, s)
                       \/ Step(o) \/ Crash(o)
  \/ \E c \in Clients, a \in Apps : RunOut(c, a)
  \/ LosePolicy

Spec == Init /\ [][Next]_vars

-----------------------------------------------------------------------------
\* The agent presents the secret of generation g and asks to read files of app a:
\* the permission, the scope and the secret must agree (admitted).
Admitted(c, a, g) ==
  /\ cred[c] = g /\ g # 0
  /\ perm[c][a] # 0 /\ scoped[c][a]
  /\ scope[c][a] = g

\* Files are read only by the enrolment the owner chose when it granted them, also
\* when the client was enrolled again meanwhile (src/agent_data.rs:303).
FilesAreForThisEnrolment ==
  \A c \in Clients, a \in Apps : Admitted(c, a, cred[c]) => perm[c][a] = cred[c]

\* Cancelling a pending enrolment revokes "only the exact pending credential, never
\* a newer enrollment" (src/agent_owner.rs:162).
CancelIsExact ==
  \A o \in Owners : pc[o] = "save" /\ op[o].kind = "cancel"
                   => cred[op[o].client] \in {0, op[o].gen}

\* Without file grants, which are saved outside the lock, the two files promise
\* what Credentials says.
Guarded == [c \in Clients |-> [a \in Apps |-> IF scoped[c][a] THEN 0 ELSE perm[c][a]]]
Abstract == INSTANCE Credentials WITH perm <- Guarded
Implements == Abstract!Spec

\* Inductive: who is where holds the lock, and knows what it has seen under it.
StepOK(o) ==
  LET c == op[o].client  a == op[o].app  k == op[o].kind IN
  /\ (lock = o) <=> (pc[o] \in Locked)
  /\ pc[o] # "idle" => op[o] \in Operation
  /\ pc[o] = "idle" => op[o] = NoOp
  /\ pc[o] = "save" => Guarded[c] = NoApps
  /\ pc[o] \in {"clear", "save"} /\ k \in {"enroll", "begin"} => cred[c] = 0
  /\ pc[o] = "permit" => k \in {"grant", "files", "withdraw"} /\ cred[c] # 0
  /\ pc[o] \in {"note", "scope", "check", "unguarded"} => k = "files"
  /\ pc[o] = "scope" => ~scoped[c][a]
  /\ pc[o] \in {"check", "unguarded"} => scope[c][a] = op[o].gen

\* One file grant at a time on an app.
FilesAlone ==
  \A o, p \in Owners : op[o] # NoOp /\ op[p] # NoOp =>
    (op[o].kind = "files" /\ op[p].kind = "files" /\ op[o].app = op[p].app => o = p)

\* A file permission is that of its scope.
ScopeOK == \A c \in Clients, a \in Apps : scoped[c][a] => perm[c][a] \in {0, scope[c][a]}

GatewayInv == TypeOK /\ (\A o \in Owners : StepOK(o)) /\ FilesAlone /\ ScopeOK

=============================================================================
