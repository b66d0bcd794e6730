---------------------------- MODULE AgentRequests ----------------------------
(***************************************************************************)
(* Mutations an agent asks for and the owner approves                      *)
(* (src/agent_requests.rs): install an app, or uninstall it and keep its   *)
(* data.                                                                   *)
(*                                                                         *)
(* The rows are a file with a lock that is tried, never waited for; a call *)
(* reads the credentials, the policy, the app and the rows in lock         *)
(* sections of their own, and any section may refuse it.  The file is      *)
(* replaced by remove and rename: an error or a crash in between loses it, *)
(* and a lost file opens empty.  An approved request is carried out by a   *)
(* thread that holds the app's operation lock, with a monitor beside it.   *)
(*                                                                         *)
(* The gateway is what it promises (Credentials, which AgentGateway        *)
(* implements).  Abstracted: a target is the kind, the app and a version   *)
(* that stands for everything its fingerprints cover (recipe or record,    *)
(* Compose file, engine); times are steps that may come at any moment; the *)
(* policy may refuse a removal, or an audit, at any moment; the stage of a *)
(* row is left out.                                                        *)
(***************************************************************************)
EXTENDS Naturals, FiniteSets, FiniteSetsExt

CONSTANTS Clients, Apps, MaxGens,   \* of Credentials
          Calls, NoCall,            \* calls under way: of agents, of the owner
          MaxIds,                   \* bound: requests made
          Overlap,                  \* bound: calls overlap while so many were made
          MaxRows, MaxActive, MaxPerClient,  \* MAX_ROWS, MAX_ACTIVE and 8 in the code
          MaxVersion                \* bound: the forms of what a target covers, but one

ASSUME AgentRequestsAssumption ==
  /\ NoCall \notin Calls
  /\ MaxIds \in Nat /\ Overlap \in Nat /\ MaxVersion \in Nat /\ MaxGens \in Nat
  /\ MaxRows \in Nat \ {0} /\ MaxActive \in Nat /\ MaxPerClient \in Nat

VARIABLES cred, last,      \* of Credentials
          rows,              \* the file: a row for each request in it
          nextId,            \* ids are random: none comes twice
          installed,         \* installed[a]: is the app in the registry
          version,           \* version[a]: what its fingerprints cover now
          opLock,            \* opLock[a]: the call that holds the operation lock
          pc, call,          \* per call: its next step, what it knows
          token,             \* per call: is the operation asked to stop
          done               \* history: requests whose app changed as asked

gateway == <<cred, last>>
app == <<installed, version>>
requestVars == <<rows, nextId, app, opLock, pc, call, token, done>>

Ids == 1 .. MaxIds
Gens == 0 .. MaxGens
Kinds == {"install", "uninstall"}
Targets == [kind : Kinds, app : Apps, version : 0 .. MaxVersion]
AnyTarget == CHOOSE t \in Targets : TRUE
Final == {"succeeded", "failed", "cancelled", "denied", "expired"}

\* seen is what the owner approved: the target and the enrolment as they were then.
NoRow == [state |-> "none"]
Unseen == [gen |-> 0]
Views == [gen : Gens, target : Targets]
Rows == [client : Clients, gen : Gens, target : Targets, cancel : BOOLEAN,
         state : {"pending", "approved", "running"} \union Final,
         seen : Views \union {Unseen}]
Idle == [op |-> "none"]
Ops == {"request", "approve", "cancel", "execute"}
CallRecords == [op : Ops, client : Clients, gen : Gens, id : 0 .. MaxIds, target : Targets,
                seen : Views \union {Unseen}]
Steps == {"idle", "owner", "lock", "describe", "recheck", "queue", "working", "finish"}

TypeOK ==
  /\ rows \in [Ids -> Rows \union {NoRow}]
  /\ nextId \in 1 .. MaxIds + 1
  /\ installed \in [Apps -> BOOLEAN] /\ version \in [Apps -> 0 .. MaxVersion]
  /\ opLock \in [Apps -> Calls \union {NoCall}]
  /\ pc \in [Calls -> Steps]
  /\ call \in [Calls -> CallRecords \union {Idle}]
  /\ token \in [Calls -> BOOLEAN]
  /\ done \in SUBSET Ids

RequestsInit ==
  /\ rows = [i \in Ids |-> NoRow] /\ nextId = 1
  /\ installed \in [Apps -> BOOLEAN] /\ version = [a \in Apps |-> 0]
  /\ opLock = [a \in Apps |-> NoCall]
  /\ pc = [p \in Calls |-> "idle"] /\ call = [p \in Calls |-> Idle]
  /\ token = [p \in Calls |-> FALSE]
  /\ done = {}

Active(r) == r.state \in {"pending", "approved", "running"}
Present == {i \in Ids : rows[i] # NoRow}

Goto(p, step) == pc' = [pc EXCEPT ![p] = step]

\* The call returns, or its process dies: its operation lock is released.
Return(p) ==
  /\ Goto(p, "idle")
  /\ call' = [call EXCEPT ![p] = Idle]
  /\ token' = [token EXCEPT ![p] = FALSE]
  /\ opLock' = [a \in Apps |-> IF opLock[a] = p THEN NoCall ELSE opLock[a]]

\* A step that looks at something and goes on.
Look(p, to) ==
  /\ Goto(p, to)
  /\ UNCHANGED <<gateway, rows, nextId, app, opLock, token, done>>

-----------------------------------------------------------------------------
\* The first section of each call.  An agent presents its secret; the owner's calls
\* come from the launcher.

Begin(p, op, i, g, t, to) ==
  /\ pc[p] = "idle"
  /\ nextId > Overlap + 1 => \A q \in Calls : pc[q] = "idle"
  /\ \E c \in Clients :
       /\ op \in {"request", "cancel", "execute"} => cred[c] = g
       /\ i # 0 /\ op # "cancel" => rows[i].client = c
       /\ call' = [call EXCEPT ![p] = [op |-> op, client |-> c, gen |-> g, id |-> i,
                                       target |-> t, seen |-> Unseen]]
  /\ Look(p, to)

Request(p, k, a) ==
  \E g \in Gens \ {0} :
    Begin(p, "request", 0, g, [kind |-> k, app |-> a, version |-> 0], "describe")

CancelRequest(p, i) ==
  rows[i] # NoRow /\ \E g \in Gens \ {0} : Begin(p, "cancel", i, g, AnyTarget, "queue")

\* execute: the row is the caller's, of its enrolment, and approved; a removal needs
\* a permission for the app as well.
Execute(p, i) ==
  rows[i].state = "approved" /\ Begin(p, "execute", i, rows[i].gen, rows[i].target, "lock")

OwnerApproves(p, i) ==
  rows[i] # NoRow /\ Begin(p, "approve", i, rows[i].gen, rows[i].target, "owner")

-----------------------------------------------------------------------------
\* The sections in between.

\* The enrolment the row's client has now.
Owner(p) ==
  /\ pc[p] = "owner" /\ cred[call[p].client] # 0
  /\ Look(p, "describe")
  /\ call' = [call EXCEPT ![p].gen = cred[call[p].client]]

LockOperation(p) ==
  LET a == call[p].target.app IN
  /\ pc[p] = "lock" /\ opLock[a] = NoCall
  /\ opLock' = [opLock EXCEPT ![a] = p]
  /\ Goto(p, "describe")
  /\ UNCHANGED <<gateway, rows, nextId, app, call, token, done>>

\* describe: an app to install must be absent, one to remove must be there.  A
\* request is then audited.
Describe(p) ==
  LET t == call[p].target IN
  /\ pc[p] = "describe" /\ installed[t.app] = (t.kind = "uninstall")
  /\ Look(p, IF call[p].op = "execute" THEN "recheck" ELSE "queue")
  /\ call' = [call EXCEPT ![p].target.version = version[t.app]]

Recheck(p) ==
  /\ pc[p] = "recheck" /\ cred[call[p].client] = call[p].gen
  /\ Look(p, "queue")
  /\ UNCHANGED call

-----------------------------------------------------------------------------
\* The sections that change the rows.

InQueue(p, op) == pc[p] = "queue" /\ call[p].op = op /\ UNCHANGED <<gateway, app>>

\* A full file lets go of its oldest row that is closed.
Evict(r) ==
  IF Cardinality(Present) < MaxRows THEN r
  ELSE [r EXCEPT ![Min({i \in Present : ~Active(r[i])})] = NoRow]

\* No limit is passed, and a full file has a row to let go of.
MaySubmit(c) ==
  LET active == {i \in Present : Active(rows[i])} IN
  /\ nextId \in Ids
  /\ Cardinality(active) < MaxActive
  /\ Cardinality({i \in active : rows[i].client = c}) < MaxPerClient
  /\ Cardinality(Present) = MaxRows => active # Present

Submit(p) ==
  /\ InQueue(p, "request") /\ MaySubmit(call[p].client)
  /\ rows' = [Evict(rows) EXCEPT ![nextId] =
                [client |-> call[p].client, gen |-> call[p].gen, target |-> call[p].target,
                 state |-> "pending", cancel |-> FALSE, seen |-> Unseen]]
  /\ nextId' = nextId + 1
  /\ Return(p)
  /\ UNCHANGED done

ChangeRow(p, i, r) == rows' = [rows EXCEPT ![i] = r] /\ Return(p) /\ UNCHANGED <<nextId, done>>

\* Faulty: the owner approves whatever the app is now.
AsItIs(p, r) == r.gen = call[p].gen

\* The owner approves for this enrolment and this target only.
AsAsked(p, r) == r.gen = call[p].gen /\ r.target = call[p].target

Decide(p) ==
  LET i == call[p].id  r == rows[i] IN
  /\ InQueue(p, "approve")
  /\ r.state = "pending" /\ AsAsked(p, r)
  /\ ChangeRow(p, i, [r EXCEPT !.state = "approved",
                               !.seen = [gen |-> call[p].gen, target |-> call[p].target]])

\* A denial looks at nothing but the row: also an enrolment that ended is denied.
Deny(i) ==
  /\ rows[i].state = "pending"
  /\ rows' = [rows EXCEPT ![i].state = "denied"]
  /\ UNCHANGED <<gateway, app, nextId, opLock, pc, call, token, done>>

\* Faulty: an installation that runs is cancelled in the file, and only there.
CancelAnyway(r) == [r EXCEPT !.state = IF Active(r) THEN "cancelled" ELSE @]

\* An installation that runs is asked to stop; a removal that runs is not.
Cancelled(r) == [r EXCEPT !.state = IF @ \in {"pending", "approved"} THEN "cancelled" ELSE @,
                          !.cancel = @ \/ r.state = "running"]

Cancel(p) ==
  LET i == call[p].id  r == rows[i] IN
  /\ InQueue(p, "cancel")
  /\ r # NoRow /\ r.client = call[p].client /\ r.gen = call[p].gen
  /\ r.state = "running" => r.target.kind = "install"
  /\ ChangeRow(p, i, Cancelled(r))

\* Faulty: a request whose worker failed may be claimed again.
ClaimableAgain(p, r) ==
  /\ r # NoRow /\ r.client = call[p].client /\ r.gen = call[p].gen /\ r.target = call[p].target
  /\ r.state \in {"approved", "failed"}

Claimable(p, r) ==
  /\ r # NoRow /\ r.client = call[p].client /\ r.gen = call[p].gen /\ r.target = call[p].target
  /\ r.state = "approved"

\* The claim and its audit are one section.
Claim(p) ==
  LET i == call[p].id  r == rows[i] IN
  /\ InQueue(p, "execute") /\ Claimable(p, r)
  /\ rows' = [rows EXCEPT ![i].state = "running"]
  /\ call' = [call EXCEPT ![p].seen = r.seen]
  /\ Goto(p, "working")
  /\ UNCHANGED <<nextId, opLock, token, done>>

\* When the audit, or the thread that would carry it out, fails, the row says so; or
\* it cannot be saved again and says for ever that it runs.
ClaimFails(p) ==
  LET i == call[p].id  r == rows[i] IN
  /\ InQueue(p, "execute") /\ Claimable(p, r)
  /\ \E s \in {"failed", "running"} : ChangeRow(p, i, [r EXCEPT !.state = s])

-----------------------------------------------------------------------------
\* The worker, and the monitor beside it.

Working(p, i) == pc[p] = "working" /\ call[p].id = i

\* An app that got an entry meanwhile is not installed, one that lost it not removed.
\* The app's lock is released before the outcome is written to the row.
WorkEnds(p, well) ==
  LET t == call[p].target IN
  /\ pc[p] = "working"
  /\ well => installed[t.app] = (t.kind = "uninstall")
  /\ Goto(p, "finish")
  /\ done' = IF well THEN done \union {call[p].id} ELSE done
  /\ installed' = IF well THEN [installed EXCEPT ![t.app] = (t.kind = "install")] ELSE installed
  /\ opLock' = [opLock EXCEPT ![t.app] = NoCall]
  /\ UNCHANGED <<gateway, rows, nextId, version, call, token>>

Work(p) == \E well \in BOOLEAN : WorkEnds(p, well)

\* An installation that was asked to stop, and is not through, rolls back.
WindDown(p) == token[p] /\ call[p].target.kind = "install" /\ WorkEnds(p, FALSE)

\* The row of an installation that was asked to stop may say that it failed.
FinishRow(p) ==
  LET i == call[p].id  r == rows[i] IN
  /\ pc[p] = "finish" /\ r.state = "running"
  /\ \E s \in IF i \in done THEN {"succeeded"}
              ELSE {"failed"} \union (IF token[p] THEN {"cancelled"} ELSE {}) :
       ChangeRow(p, i, [r EXCEPT !.state = s])
  /\ UNCHANGED <<gateway, app>>

\* Faulty: a revoked client's installation goes on.
RowStops(p) == LET r == rows[call[p].id] IN ~(r # NoRow /\ ~r.cancel)

\* The request is gone or cancelled, or its client is no longer enrolled as it was.
Unwanted(p) ==
  LET r == rows[call[p].id] IN ~(r # NoRow /\ ~r.cancel /\ cred[r.client] = call[p].gen)

Stop(p) ==
  /\ pc[p] = "working" /\ ~token[p]
  /\ token' = [token EXCEPT ![p] = TRUE]
  /\ UNCHANGED <<gateway, rows, nextId, app, opLock, pc, call, done>>

\* Every 250 ms the monitor looks; fifteen minutes, or a transport that closes,
\* stop the operation too.
Poll(p) == Stop(p) /\ Unwanted(p)
OutOfTime(p) == Stop(p)

-----------------------------------------------------------------------------
\* What may go wrong, and what others do.

\* A lock is taken, a check fails, or a file cannot be written (the outcome of a
\* worker: twenty times); or the process dies.
Fail(p) ==
  /\ pc[p] # "idle"
  /\ Return(p)
  /\ UNCHANGED <<gateway, rows, nextId, app, done>>

\* A section saves the file, at least to close what ran out, and loses it; a worker
\* saves its stage.
LoseRows(p) ==
  /\ pc[p] \in {"queue", "working", "finish"}
  /\ rows' = [i \in Ids |-> NoRow]
  /\ IF pc[p] = "working" THEN UNCHANGED <<pc, call, token, opLock>> ELSE Return(p)
  /\ UNCHANGED <<gateway, nextId, app, done>>

\* A request is not decided or not used in time: the next call that opens the file
\* closes it.
Expire(i) ==
  /\ rows[i].state \in {"pending", "approved"}
  /\ rows' = [rows EXCEPT ![i].state = "expired"]
  /\ UNCHANGED <<gateway, nextId, app, opLock, pc, call, token, done>>

\* The owner gives the app an entry, or takes it away.  To install or uninstall it he
\* needs its operation lock; to connect it, or to remove no more than its entry, he does
\* not, so that the entry may change while a request is carried out.
OwnerChanges(a) ==
  /\ installed' = [installed EXCEPT ![a] = ~@]
  /\ UNCHANGED <<gateway, rows, nextId, version, opLock, pc, call, token, done>>

\* The engine, the Compose file or the record changes.
Drift(a) ==
  /\ \E v \in 0 .. MaxVersion \ {version[a]} : version' = [version EXCEPT ![a] = v]
  /\ UNCHANGED <<gateway, rows, nextId, installed, opLock, pc, call, token, done>>

Gateway == INSTANCE Credentials WITH perm <- [c \in Clients |-> [a \in Apps |-> 0]]
EnrolmentChanges ==
  /\ Gateway!Lose \/ \E c \in Clients : Gateway!Enroll(c) \/ Gateway!Revoke(c)
  /\ UNCHANGED requestVars

Step(p) == \/ \E k \in Kinds, a \in Apps : Request(p, k, a)
           \/ \E i \in Ids : \/ CancelRequest(p, i) \/ Execute(p, i)
                             \/ OwnerApproves(p, i)
           \/ Owner(p) \/ LockOperation(p) \/ Describe(p) \/ Recheck(p)
           \/ Submit(p) \/ Decide(p) \/ Cancel(p) \/ Claim(p) \/ ClaimFails(p)
           \/ Work(p) \/ WindDown(p) \/ FinishRow(p) \/ Poll(p) \/ OutOfTime(p)
           \/ Fail(p) \/ LoseRows(p)

RequestsNext ==
  \/ \E p \in Calls : Step(p)
  \/ \E i \in Ids : Expire(i) \/ Deny(i)
  \/ \E a \in Apps : OwnerChanges(a) \/ Drift(a)

vars == <<gateway, requestVars>>
Init == Gateway!Init /\ RequestsInit
Next == RequestsNext \/ EnrolmentChanges

\* The monitor polls, and an installation looks at its token between its steps.
RequestsFairness == \A p \in Calls : WF_vars(Poll(p)) /\ WF_vars(WindDown(p))

Spec == Init /\ [][Next]_vars /\ RequestsFairness

-----------------------------------------------------------------------------
\* What is carried out is what the agent asked for, as the owner saw it when he
\* approved, and under the operation lock of the app (src/agent_requests.rs:645).
ExactlyApproved ==
  \A p \in Calls : pc[p] = "working" =>
    LET r == rows[call[p].id]  t == call[p].target IN
    /\ call[p].seen = [gen |-> call[p].gen, target |-> t]
    /\ r # NoRow => r.target = t /\ r.gen = call[p].gen
    /\ opLock[t.app] = p

\* A closed row tells what became of the app (src/agent_requests.rs:407).
RowsTellTheTruth ==
  \A i \in Ids : rows[i].state \in Final => (rows[i].state = "succeeded" <=> i \in done)

\* An installation whose request is cancelled or lost, or whose client is revoked,
\* ends (src/agent_requests.rs:706).
UnwantedWorkEnds ==
  \A p \in Calls, i \in Ids :
    /\ Working(p, i) /\ call[p].target.kind = "install"
    /\ rows[i] = NoRow \/ rows[i].cancel \/ cred[call[p].client] # call[p].gen
    ~> ~Working(p, i)

\* What Approvals calls the states of a row.
Progress(i) ==
  CASE i >= nextId -> "free"
    [] rows[i].state = "pending" -> "asked"
    [] rows[i].state = "approved" -> "approved"
    [] rows[i].state \in {"running", "succeeded"} -> "used"
    [] OTHER -> "closed"

\* What was approved is carried out once at most (src/agent_requests.rs:357).
Approval == INSTANCE Approvals WITH ask <- [i \in Ids |-> Progress(i)]
ApprovedOnce == Approval!Spec

\* The app a request is carried out on, from the first look at it to the outcome.
WorksOn(p) ==
  IF call[p] # Idle /\ call[p].op = "execute"
     /\ pc[p] \in {"describe", "recheck", "queue", "working"}
  THEN {call[p].target.app} ELSE {}

\* A call works on an app only under its operation lock, as AppLocks promises.
Locked == INSTANCE AppLocks WITH
            Procs <- Calls, Threads <- Calls, NoThread <- NoCall,
            ProcOf <- [p \in Calls |-> p],
            owner <- opLock, work <- [p \in Calls |-> WorksOn(p)]
UsesLock == Locked!Spec

=============================================================================
