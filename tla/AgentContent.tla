---------------------------- MODULE AgentContent ----------------------------
(***************************************************************************)
(* What an agent may read from an app and write to it                      *)
(* (src/agent_content.rs and its providers n8n, privatebin and app_api).   *)
(*                                                                         *)
(* One protected file keeps the connections of apps and the proposals of   *)
(* writes; whoever has it open holds its lock, and a lock that is taken    *)
(* refuses a call.  Permissions and enrolments are the gateway's, behind   *)
(* locks of their own, and change while the file is open.  The file is     *)
(* replaced by remove and rename, and a lost file opens empty.             *)
(*                                                                         *)
(* Abstracted: a connection is known by its generation, an app by the      *)
(* version its fingerprint covers; a proposal's text never changes.  Of    *)
(* the limits on connections (32, more than there are apps with an         *)
(* interface) and proposals only the second is kept.  What of a reply is   *)
(* passed on is left out.                                                  *)
(***************************************************************************)
EXTENDS Naturals, FiniteSets

CONSTANTS Clients, Apps, MaxGens,   \* of Credentials
          Calls, NoCall,            \* calls under way
          MaxIds,                   \* bound: proposals made
          MaxConnected,             \* bound: connections made
          Overlap,                  \* bound: calls overlap while so many were made
          MaxOpen,                  \* proposals a file may have: 32 in the code
          MaxVersion                \* bound: changes of what a fingerprint covers

ContentAssumption ==
  /\ NoCall \notin Calls
  /\ {MaxGens, MaxIds, MaxConnected, MaxVersion, MaxOpen} \subseteq Nat

VARIABLES cred, last,     \* of Credentials
          grant,          \* grant[c][a]: the enrolment that has a content grant
          conn,           \* conn[a]: generation and version of the connection
          made,           \* connections made: generations are random
          proposals,      \* the proposals of the file
          nextProposal,   \* ids are random: none comes twice
          target,         \* target[a]: the version of the app
          store,          \* the call that has the file open
          step, task,     \* per call: its next step, what it knows
          posted,         \* history: proposals that were sent to the app
          grantedAt       \* history: the connection a content grant was given for

gateway == <<cred, last, grant>>
file == <<conn, proposals>>
contentVars == <<grant, conn, made, proposals, nextProposal, target, store, step, task,
                 posted, grantedAt>>
vars == <<cred, last, contentVars>>

Ids == 1 .. MaxIds
Gens == 0 .. MaxGens
Versions == 0 .. MaxVersion
NoConn == [gen |-> 0, version |-> 0]
Connections == [gen : 0 .. MaxConnected, version : Versions]
NoRow == [client |-> "none"]
Proposals == [client : Clients, gen : Gens, app : Apps, version : Versions,
              conn : 0 .. MaxConnected, approved : BOOLEAN, consumed : BOOLEAN]
Ops == {"connect", "disconnect", "grant", "request", "execute", "read"}
NoTask == [op |-> "none"]
Tasks == [op : Ops, client : Clients, app : Apps, gen : Gens, id : 0 .. MaxIds,
          version : Versions, conn : 0 .. MaxConnected]
Open == {"save", "permit", "confirm", "reading"}   \* steps with the file open

TypeOK ==
  /\ grant \in [Clients -> [Apps -> Gens]]
  /\ conn \in [Apps -> Connections] /\ made \in 0 .. MaxConnected
  /\ proposals \in [Ids -> Proposals \union {NoRow}] /\ nextProposal \in 1 .. MaxIds + 1
  /\ target \in [Apps -> Versions]
  /\ store \in Calls \union {NoCall}
  /\ step \in [Calls -> {"idle", "look", "open", "post"} \union Open]
  /\ task \in [Calls -> Tasks \union {NoTask}]
  /\ posted \in SUBSET Ids
  /\ grantedAt \in [Clients -> [Apps -> 0 .. MaxConnected]]

ContentInit ==
  /\ grant = [c \in Clients |-> [a \in Apps |-> 0]]
  /\ conn = [a \in Apps |-> NoConn] /\ made = 0
  /\ proposals = [i \in Ids |-> NoRow] /\ nextProposal = 1
  /\ target = [a \in Apps |-> 0]
  /\ store = NoCall
  /\ step = [p \in Calls |-> "idle"] /\ task = [p \in Calls |-> NoTask]
  /\ posted = {}
  /\ grantedAt = [c \in Clients |-> [a \in Apps |-> 0]]

Connected == {a \in Apps : conn[a] # NoConn}
Listed == {i \in Ids : proposals[i] # NoRow}

Goto(p, s) == step' = [step EXCEPT ![p] = s]

Return(p) ==
  /\ Goto(p, "idle")
  /\ task' = [task EXCEPT ![p] = NoTask]
  /\ store' = IF store = p THEN NoCall ELSE store

CanOpen == store = NoCall
OpenStore(p) == CanOpen /\ store' = p

\* Nothing but the call itself moves on.
Look(p, s) ==
  /\ Goto(p, s)
  /\ UNCHANGED <<gateway, file, made, nextProposal, target, posted, grantedAt>>

-----------------------------------------------------------------------------
\* The first look of a call, before the file is opened.

May(c, a) == cred[c] # 0 /\ grant[c][a] = cred[c]

Start(p, op, c, a, i) ==
  /\ step[p] = "idle"
  /\ made > Overlap => \A q \in Calls : step[q] = "idle"
  /\ task' = [task EXCEPT ![p] = [op |-> op, client |-> c, app |-> a, gen |-> cred[c], id |-> i,
                                  version |-> target[a], conn |-> 0]]
  /\ Look(p, IF op = "request" THEN "look" ELSE "open")
  /\ UNCHANGED store

\* The owner connects an app (with a token that the app accepts), disconnects it,
\* and grants a client its content.
OwnerStarts(p) ==
  \E a \in Apps, c \in Clients :
    Start(p, "connect", c, a, 0) \/ Start(p, "disconnect", c, a, 0) \/ Start(p, "grant", c, a, 0)

\* An agent reads or proposes a write with a permission, and executes what it likes.
AgentStarts(p) ==
  \E c \in Clients, a \in Apps :
    \/ May(c, a) /\ (Start(p, "read", c, a, 0) \/ Start(p, "request", c, a, 0))
    \/ \E i \in Listed : cred[c] # 0 /\ a = proposals[i].app /\ Start(p, "execute", c, a, i)

\* A request finds out who asks, then what the app is.
LookAgain(p) ==
  LET c == task[p].client IN
  /\ step[p] = "look" /\ cred[c] # 0
  /\ task' = [task EXCEPT ![p] = [@ EXCEPT !.gen = cred[c], !.version = target[task[p].app]]]
  /\ Look(p, "open")
  /\ UNCHANGED store

-----------------------------------------------------------------------------
\* The owner's calls.

\* Faulty: the grants of the app stay.
RevokeNothing(p) == UNCHANGED <<grant, grantedAt>>

\* No client keeps a grant for the app.
RevokeScopes(p) ==
  /\ grant' = [c \in Clients |-> IF cred[c] = 0 THEN grant[c]
                                 ELSE [grant[c] EXCEPT ![task[p].app] = 0]]
  /\ UNCHANGED grantedAt

OpenToConnect(p) ==
  /\ step[p] = "open" /\ task[p].op \in {"connect", "disconnect"}
  /\ OpenStore(p)
  /\ RevokeScopes(p)
  /\ Goto(p, "save")
  /\ UNCHANGED <<cred, last, file, made, nextProposal, target, task, posted>>

Without(a) == [i \in Ids |-> IF proposals[i] # NoRow /\ proposals[i].app = a
                             THEN NoRow ELSE proposals[i]]

\* The app's proposals go with the connection they were made for.
SaveConnection(p) ==
  LET a == task[p].app IN
  /\ step[p] = "save"
  /\ proposals' = Without(a)
  /\ \/ /\ task[p].op = "disconnect"
        /\ conn' = [conn EXCEPT ![a] = NoConn]
        /\ UNCHANGED made
     \/ /\ task[p].op = "connect" /\ made < MaxConnected
        /\ made' = made + 1
        /\ conn' = [conn EXCEPT ![a] = [gen |-> made + 1, version |-> task[p].version]]
  /\ Return(p)
  /\ UNCHANGED <<gateway, nextProposal, target, posted, grantedAt>>

\* Faulty: what the client had proposed stays.
KeepProposals(c, a) == proposals

\* A grant never revives a proposal made under an earlier one.
WithoutMine(c, a) ==
  [i \in Ids |-> IF proposals[i] # NoRow /\ proposals[i].client = c /\ proposals[i].app = a
                 THEN NoRow ELSE proposals[i]]

\* The connection of the app as it was found.
Reachable(p) == LET k == conn[task[p].app] IN k # NoConn /\ k.version = task[p].version

OpenToGrant(p) ==
  /\ step[p] = "open" /\ task[p].op = "grant"
  /\ OpenStore(p) /\ Reachable(p)
  /\ proposals' = WithoutMine(task[p].client, task[p].app)
  /\ Goto(p, "permit")
  /\ UNCHANGED <<gateway, conn, made, nextProposal, target, task, posted, grantedAt>>

Permit(p) ==
  LET c == task[p].client  a == task[p].app IN
  /\ step[p] = "permit" /\ cred[c] # 0
  /\ grant' = [grant EXCEPT ![c][a] = cred[c]]
  /\ grantedAt' = [grantedAt EXCEPT ![c][a] = conn[a].gen]
  /\ Return(p)
  /\ UNCHANGED <<cred, last, file, made, nextProposal, target, posted>>

\* The owner approves a proposal, once more if he likes, of a client that is still
\* the one that proposed it, for the app as it was; or he denies it.
Decide(i) ==
  LET r == proposals[i] IN
  /\ CanOpen /\ r # NoRow /\ ~r.consumed
  /\ cred[r.client] = r.gen
  /\ \/ /\ target[r.app] = r.version
        /\ proposals' = [proposals EXCEPT ![i].approved = TRUE]
     \/ proposals' = [proposals EXCEPT ![i].consumed = TRUE]
  /\ UNCHANGED <<gateway, conn, made, nextProposal, target, store, step, task, posted, grantedAt>>

-----------------------------------------------------------------------------
\* The agent's calls.

\* Consumed proposals make place.
Propose(p) ==
  LET kept == {i \in Listed : ~proposals[i].consumed}  a == task[p].app IN
  /\ step[p] = "open" /\ task[p].op = "request"
  /\ CanOpen /\ Reachable(p)
  /\ Cardinality(kept) < MaxOpen /\ nextProposal \in Ids
  /\ proposals' = [i \in Ids |->
       IF i = nextProposal
       THEN [client |-> task[p].client, gen |-> task[p].gen, app |-> a,
             version |-> task[p].version, conn |-> conn[a].gen,
             approved |-> FALSE, consumed |-> FALSE]
       ELSE IF i \in kept THEN proposals[i] ELSE NoRow]
  /\ nextProposal' = nextProposal + 1
  /\ Return(p)
  /\ UNCHANGED <<gateway, conn, made, target, posted, grantedAt>>

\* Faulty: what was sent once may be sent again.
ClaimableAgain(p, r) ==
  /\ r # NoRow /\ r.client = task[p].client /\ r.gen = task[p].gen /\ r.approved

Claimable(p, r) ==
  /\ r # NoRow /\ r.client = task[p].client /\ r.gen = task[p].gen
  /\ r.approved /\ ~r.consumed

\* The proposal is consumed before anything is sent, for the app and the connection
\* it was made for.
Claim(p) ==
  LET i == task[p].id  r == proposals[i] IN
  /\ step[p] = "open" /\ task[p].op = "execute"
  /\ OpenStore(p)
  /\ Claimable(p, r)
  /\ target[r.app] = r.version /\ conn[r.app] = [gen |-> r.conn, version |-> r.version]
  /\ proposals' = [proposals EXCEPT ![i].consumed = TRUE]
  /\ task' = [task EXCEPT ![p] = [@ EXCEPT !.version = r.version, !.conn = r.conn]]
  /\ Goto(p, "confirm")
  /\ UNCHANGED <<gateway, conn, made, nextProposal, target, posted, grantedAt>>

\* The permission is looked at once more, then the file is closed,
Confirm(p) ==
  /\ step[p] = "confirm" /\ May(task[p].client, task[p].app)
  /\ store' = NoCall
  /\ Look(p, "post")
  /\ UNCHANGED task

\* and the write is sent.  PrivateBin works out the paste first and then may refuse,
\* having looked again at the permission, the app and its connection.
Post(p) ==
  /\ step[p] = "post"
  /\ posted' = posted \union {task[p].id}
  /\ Return(p)
  /\ UNCHANGED <<gateway, file, made, nextProposal, target, grantedAt>>

\* Reading keeps the file open from the connection to the answer, which is handed
\* over if the permission is still there.
OpenToRead(p) ==
  /\ step[p] = "open" /\ task[p].op = "read"
  /\ OpenStore(p) /\ Reachable(p)
  /\ May(task[p].client, task[p].app)
  /\ task' = [task EXCEPT ![p].conn = conn[task[p].app].gen]
  /\ Look(p, "reading")

Answer(p) ==
  /\ step[p] = "reading" /\ May(task[p].client, task[p].app)
  /\ Return(p)
  /\ UNCHANGED <<gateway, file, made, nextProposal, target, posted, grantedAt>>

-----------------------------------------------------------------------------
\* What may go wrong, and what others do.

Fail(p) ==
  /\ step[p] # "idle"
  /\ Return(p)
  /\ UNCHANGED <<gateway, file, made, nextProposal, target, posted, grantedAt>>

\* A write of the file fails, or the process dies, between remove and rename.
LoseStore(p) ==
  /\ step[p] \in {"open", "save"} /\ store \in {p, NoCall}
  /\ conn' = [a \in Apps |-> NoConn] /\ proposals' = [i \in Ids |-> NoRow]
  /\ Return(p)
  /\ UNCHANGED <<gateway, made, nextProposal, target, posted, grantedAt>>

\* A proposal runs out, or only its approval does.
RunOut(i) ==
  /\ proposals[i] # NoRow
  /\ \/ proposals' = [proposals EXCEPT ![i].consumed = TRUE]
     \/ proposals' = [proposals EXCEPT ![i].approved = FALSE]
  /\ UNCHANGED <<gateway, conn, made, nextProposal, target, store, step, task, posted, grantedAt>>

\* The app is changed or replaced.
Drift(a) ==
  /\ target[a] < MaxVersion
  /\ target' = [target EXCEPT ![a] = @ + 1]
  /\ UNCHANGED <<gateway, file, made, nextProposal, store, step, task, posted, grantedAt>>

Gateway == INSTANCE Credentials WITH perm <- grant
EnrolmentChanges ==
  /\ \/ Gateway!Lose \/ Gateway!Withdraw
     \/ \E c \in Clients : Gateway!Enroll(c) \/ Gateway!Revoke(c)
  /\ UNCHANGED <<file, made, nextProposal, target, store, step, task, posted, grantedAt>>

Step(p) == \/ OwnerStarts(p) \/ AgentStarts(p) \/ LookAgain(p)
           \/ OpenToConnect(p) \/ SaveConnection(p) \/ OpenToGrant(p) \/ Permit(p)
           \/ Propose(p) \/ Claim(p) \/ Confirm(p) \/ Post(p)
           \/ OpenToRead(p) \/ Answer(p) \/ Fail(p) \/ LoseStore(p)

ContentNext == \/ \E p \in Calls : Step(p)
               \/ \E i \in Ids : Decide(i) \/ RunOut(i)
               \/ \E a \in Apps : Drift(a)
               \/ EnrolmentChanges

Init == Gateway!Init /\ ContentInit
Spec == Init /\ [][ContentNext]_vars

-----------------------------------------------------------------------------
\* "A new protected connection cannot inherit an earlier account's permissions,
\* including stale grants with no connection left behind" (src/agent_content.rs:691):
\* an enrolled client's grant for a connected app was given for that connection.
GrantsFitConnections ==
  \A c \in Clients, a \in Connected :
    cred[c] # 0 /\ grant[c][a] # 0 => grantedAt[c][a] = conn[a].gen

\* Under way: the owner approved it and nothing was sent.
Sending(i) == \E p \in Calls : step[p] \in {"confirm", "post"} /\ task[p].id = i

Progress(i) ==
  LET r == proposals[i] IN
  IF i \in posted THEN "used"
  ELSE IF i >= nextProposal THEN "free"
  ELSE IF Sending(i) \/ (r # NoRow /\ ~r.consumed /\ r.approved) THEN "approved"
  ELSE IF r = NoRow \/ r.consumed THEN "closed"
  ELSE "asked"

\* "An uncertain POST is never retried automatically" (src/agent_content.rs:925): a
\* write is sent once at most, and only when the owner had approved it.
Approval == INSTANCE Approvals WITH ask <- [i \in Ids |-> Progress(i)]
WrittenOnce == Approval!Spec

=============================================================================
