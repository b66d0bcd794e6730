-------------------------- MODULE AgentContentProofs --------------------------
(***************************************************************************)
(* Proofs about AgentContent, for any number of clients, apps, calls,      *)
(* connections and proposals, beside the requests of AgentRequests, which  *)
(* change the same enrolments.                                             *)
(***************************************************************************)
EXTENDS MCAgents, TLAPS

-----------------------------------------------------------------------------
\* The inductive invariant.

GatewayOK == cred \in [Clients -> Content!Gens] /\ last \in Content!Gens

\* A call under way knows what it is about, has the file if it is at a step with the file
\* open, and is about to replace a connection that no enrolled client has a grant for.
Knows(p) ==
  /\ step[p] # "idle" => task[p] \in Content!Tasks
  /\ step[p] \in Content!Open => store = p
  /\ step[p] = "save" => \A c \in Clients : cred[c] # 0 => grant[c][task[p].app] = 0
  /\ step[p] # "idle" /\ task[p].op = "execute" => task[p].id \in Content!Ids
  /\ step[p] \in {"confirm", "post"} => task[p].op = "execute"

AtIt(p) == step[p] \in {"confirm", "post"}
Spent(i) == proposals[i] = Content!NoRow \/ proposals[i].consumed

\* What is being sent was consumed before, and never sent.
Sends(p) ==
  AtIt(p) => LET i == task[p].id IN i < nextProposal /\ i \notin posted /\ Spent(i)

\* What was sent is consumed; an id that is not given out has no row and was not sent.
Tells(i) ==
  /\ proposals[i] # Content!NoRow \/ i \in posted => i < nextProposal
  /\ i \in posted => Spent(i)

Inv ==
  /\ \A p \in Calls : Knows(p) /\ Sends(p)
  /\ \A i \in Content!Ids : Tells(i)
  /\ \A p, q \in Calls : AtIt(p) /\ AtIt(q) /\ task[p].id = task[q].id => p = q
  /\ Content!GrantsFitConnections

IInv == Content!TypeOK /\ GatewayOK /\ Inv


-----------------------------------------------------------------------------
\* Types.

LEMMA RowTyped ==
  ASSUME Content!TypeOK, NEW i \in Content!Ids, proposals[i] # Content!NoRow
  PROVE  proposals[i] \in Content!Proposals
  BY DEF Content!TypeOK

LEMMA ReturnTypes ==
  ASSUME Content!TypeOK, NEW p \in Calls, Content!Return(p)
  PROVE  /\ step' \in [Calls -> {"idle", "look", "open", "post"} \union Content!Open]
         /\ task' \in [Calls -> Content!Tasks \union {Content!NoTask}] /\ store' \in Calls \union {NoCall}
  BY DEF Content!TypeOK, Content!Return, Content!Goto

\* The gateway keeps its types; who is enrolled anew has no grants.
LEMMA GatewaySteps ==
  ASSUME Content!ContentAssumption, Content!TypeOK, GatewayOK, Content!EnrolmentChanges
  PROVE  /\ Content!TypeOK' /\ GatewayOK'
         /\ \A c \in Clients :
              cred'[c] # 0 => cred'[c] = cred[c] \/ \A a \in Apps : grant'[c][a] = 0
         /\ \A c \in Clients, a \in Apps : grant'[c][a] \in {0, grant[c][a]}
<1>0. UNCHANGED <<Content!file, made, nextProposal, target, store, step, task, posted, grantedAt>>
  BY DEF Content!EnrolmentChanges
<1>1. CASE Content!Gateway!Lose
  BY <1>0, <1>1 DEF Content!Gateway!Lose, Content!TypeOK, GatewayOK, Content!file,
       Content!Gens, Content!ContentAssumption
<1>2. CASE Content!Gateway!Withdraw
  <2>1. /\ grant' \in [Clients -> [Apps -> Content!Gens]] /\ UNCHANGED <<cred, last>>
        /\ \A c \in Clients : \A a \in Apps : grant'[c][a] \in {0, grant[c][a]}
    BY <1>2 DEF Content!Gateway!Withdraw, Content!Gateway!Gens, Content!Gens
  <2> QED
    BY <1>0, <2>1 DEF Content!TypeOK, GatewayOK, Content!file
<1>3. ASSUME NEW c \in Clients, Content!Gateway!Enroll(c)
      PROVE  /\ Content!TypeOK' /\ GatewayOK' /\ grant' = grant
             /\ \A d \in Clients :
                  cred'[d] # 0 => cred'[d] = cred[d] \/ \A a \in Apps : grant'[d][a] = 0
  BY <1>0, <1>3 DEF Content!Gateway!Enroll, Content!Gateway!NoApps, Content!TypeOK,
       GatewayOK, Content!file, Content!Gens, Content!ContentAssumption
<1>4. ASSUME NEW c \in Clients, Content!Gateway!Revoke(c)
      PROVE  /\ Content!TypeOK' /\ GatewayOK' /\ grant' = grant
             /\ \A d \in Clients : cred'[d] # 0 => cred'[d] = cred[d]
  BY <1>0, <1>4 DEF Content!Gateway!Revoke, Content!TypeOK, GatewayOK, Content!file,
       Content!Gens, Content!ContentAssumption
<1> QED
  BY <1>1, <1>2, <1>3, <1>4 DEF Content!EnrolmentChanges

-----------------------------------------------------------------------------
\* What the invariant says of the rows.

\* What a step may do to a row: leave it, let it go, consume it, decide it, or make it.
RowMoves(i) ==
  LET r == proposals[i]  s == proposals'[i] IN
  \/ s = r
  \/ s = Content!NoRow
  \/ r # Content!NoRow /\ s # Content!NoRow /\ (r.consumed => s.consumed)
  \/ i = nextProposal /\ nextProposal' > i

LEMMA RowsKept ==
  ASSUME Content!TypeOK, Inv, UNCHANGED posted, nextProposal' \in Nat, nextProposal' >= nextProposal,
         \A i \in Content!Ids : RowMoves(i)
  PROVE  /\ \A i \in Content!Ids : Tells(i)'
         /\ \A q \in Calls : step'[q] = step[q] /\ task'[q] = task[q] => Sends(q)'
<1>1. ASSUME NEW i \in Content!Ids
      PROVE  Tells(i)'
  <2>1. RowMoves(i) /\ Tells(i) /\ i \in Nat /\ nextProposal \in Nat
    BY DEF Inv, Content!TypeOK, Content!Ids
  <2> QED
    BY <2>1 DEF Tells, RowMoves, Spent
<1>2. ASSUME NEW q \in Calls, step'[q] = step[q], task'[q] = task[q], AtIt(q)
      PROVE  Sends(q)'
  <2> DEFINE i == task[q].id
  <2>1. Sends(q) /\ i \in Content!Ids /\ i \in Nat /\ nextProposal \in Nat
    BY <1>2 DEF Inv, Knows, AtIt, Content!TypeOK, Content!Ids
  <2>2. RowMoves(i)
    BY <2>1
  <2> QED
    BY <1>2, <2>1, <2>2 DEF RowMoves, Sends, AtIt, Spent
<1> QED
  BY <1>1, <1>2 DEF Sends, AtIt

\* A step of call p keeps the invariant when it leaves the others their file and no grant
\* appears under one that replaces a connection.
LEMMA Preserved ==
  ASSUME Content!ContentAssumption, Content!TypeOK, Inv, NEW p \in Calls,
         UNCHANGED cred,
         \A q \in Calls \ {p} : step'[q] = step[q] /\ task'[q] = task[q],
         \A q \in Calls \ {p} : store = q => store' = q,
         \A c \in Clients, a \in Apps : grant'[c][a] \in {0, grant[c][a]} \/ store = p,
         \A i \in Content!Ids : Tells(i)',
         \A q \in Calls \ {p} : Sends(q)',
         Knows(p)', Sends(p)',
         AtIt(p)' => \A q \in Calls \ {p} : AtIt(q) => task[q].id # task'[p].id,
         Content!GrantsFitConnections'
  PROVE  Inv'
<1>1. ASSUME NEW q \in Calls \ {p}
      PROVE  Knows(q)'
  <2>1. Knows(q)
    BY DEF Inv
  <2>2. task[q] \in Content!Tasks => task[q].app \in Apps
    BY DEF Content!Tasks
  <2>3. "save" \in Content!Open
    BY DEF Content!Open
  <2> QED
    BY <2>1, <2>2, <2>3 DEF Knows
<1>2. \A q, r \in Calls : AtIt(q)' /\ AtIt(r)' /\ task'[q].id = task'[r].id => q = r
  BY DEF Inv, AtIt
<1> QED
  BY <1>1, <1>2 DEF Inv

\* Connections and grants as they were.
LEMMA FitsStill ==
  ASSUME Content!TypeOK, Inv, UNCHANGED grantedAt,
         \A c \in Clients : cred'[c] # 0 => cred'[c] = cred[c] \/ \A a \in Apps : grant'[c][a] = 0,
         \A c \in Clients, a \in Apps : grant'[c][a] \in {0, grant[c][a]},
         \A a \in Apps : conn'[a] \in {conn[a], Content!NoConn}
  PROVE  Content!GrantsFitConnections'
  BY DEF Inv, Content!GrantsFitConnections, Content!Connected

\* A call returns.
LEMMA Returned ==
  ASSUME Content!ContentAssumption, Content!TypeOK, Inv, NEW p \in Calls, Content!Return(p),
         UNCHANGED cred,
         \A c \in Clients, a \in Apps : grant'[c][a] \in {0, grant[c][a]} \/ store = p,
         \A i \in Content!Ids : Tells(i)',
         \A q \in Calls \ {p} : Sends(q)',
         Content!GrantsFitConnections'
  PROVE  Inv'
<1>1. step'[p] = "idle" /\ \A q \in Calls \ {p} : step'[q] = step[q] /\ task'[q] = task[q]
  BY DEF Content!Return, Content!Goto, Content!TypeOK
<1>2. \A q \in Calls \ {p} : store = q => store' = q
  BY DEF Content!Return
<1>3. Knows(p)' /\ Sends(p)' /\ ~AtIt(p)'
  BY <1>1 DEF Knows, Sends, AtIt, Content!Open
<1> QED
  BY <1>1, <1>2, <1>3, Preserved


-----------------------------------------------------------------------------
\* The steps.

\* A call that changes rows and returns.
LEMMA ReturnKept ==
  ASSUME Content!ContentAssumption, Content!TypeOK, Inv, NEW p \in Calls, Content!Return(p),
         UNCHANGED <<cred, last, grant, grantedAt, target, posted>>,
         conn' \in [Apps -> Content!Connections], made' \in 0 .. MaxConnected,
         proposals' \in [Content!Ids -> Content!Proposals \union {Content!NoRow}],
         nextProposal' \in 1 .. MaxProposals + 1, nextProposal' >= nextProposal,
         \A i \in Content!Ids : RowMoves(i),
         Content!GrantsFitConnections'
  PROVE  Content!TypeOK' /\ Inv'
<1>1. Content!TypeOK'
  BY ReturnTypes DEF Content!TypeOK
<1>2. nextProposal' \in Nat
  BY DEF Content!TypeOK
<1>3. \A q \in Calls \ {p} : step'[q] = step[q] /\ task'[q] = task[q]
  BY DEF Content!Return, Content!Goto, Content!TypeOK
<1>4. \A i \in Content!Ids : Tells(i)'
  BY <1>2, RowsKept
<1>5. \A q \in Calls \ {p} : Sends(q)'
  BY <1>2, <1>3, RowsKept
<1> QED
  BY <1>1, <1>4, <1>5, Returned

\* A step that goes on, and leaves the rows or consumes some.
LEMMA GoesOn ==
  ASSUME Content!ContentAssumption, Content!TypeOK, Inv, NEW p \in Calls,
         NEW s \in {"idle", "look", "open", "post"} \union Content!Open, NEW t \in Content!Tasks,
         step' = [step EXCEPT ![p] = s], task' = [task EXCEPT ![p] = t],
         UNCHANGED <<cred, last, made, conn, nextProposal, target, posted, grantedAt>>,
         grant' \in [Clients -> [Apps -> Content!Gens]],
         \A c \in Clients, a \in Apps : grant'[c][a] \in {0, grant[c][a]},
         proposals' \in [Content!Ids -> Content!Proposals \union {Content!NoRow}],
         \A i \in Content!Ids : RowMoves(i),
         \/ store' = store
         \/ store = NoCall /\ store' = p
         \/ store = p /\ store' = NoCall,
         s \in Content!Open => store' = p,
         s = "save" => \A c \in Clients : cred[c] # 0 => grant'[c][t.app] = 0,
         t.op = "execute" => t.id \in Content!Ids,
         s \in {"confirm", "post"} =>
           /\ t.op = "execute" /\ t.id < nextProposal /\ t.id \notin posted
           /\ proposals'[t.id] = Content!NoRow \/ proposals'[t.id].consumed
           /\ \A q \in Calls \ {p} : AtIt(q) => task[q].id # t.id
  PROVE  Content!TypeOK' /\ Inv'
<1>1. Content!TypeOK'
  BY DEF Content!TypeOK
<1>2. nextProposal \in Nat
  BY DEF Content!TypeOK
<1>3. /\ step'[p] = s /\ task'[p] = t
      /\ \A q \in Calls \ {p} : step'[q] = step[q] /\ task'[q] = task[q]
  BY DEF Content!TypeOK
<1>4. /\ \A i \in Content!Ids : Tells(i)'
      /\ \A q \in Calls \ {p} : Sends(q)'
  BY <1>2, <1>3, RowsKept
<1>5. Knows(p)'
  BY <1>3 DEF Knows
<1>6. Sends(p)'
  BY <1>3 DEF Sends, AtIt, Spent
<1>7. AtIt(p)' => \A q \in Calls \ {p} : AtIt(q) => task[q].id # task'[p].id
  BY <1>3 DEF AtIt
<1>8. \A q \in Calls \ {p} : store = q => store' = q
  BY DEF Content!ContentAssumption
<1>9. Content!GrantsFitConnections'
  BY FitsStill
<1> QED
  BY <1>1, <1>3, <1>4, <1>5, <1>6, <1>7, <1>8, <1>9, Preserved

\* Rows that stay.
LEMMA RowsStay ==
  ASSUME Content!TypeOK, UNCHANGED proposals
  PROVE  /\ proposals' \in [Content!Ids -> Content!Proposals \union {Content!NoRow}]
         /\ \A i \in Content!Ids : RowMoves(i)
  BY DEF Content!TypeOK, RowMoves

\* A call begins.
LEMMA StartKept ==
  ASSUME Content!ContentAssumption, Content!TypeOK, GatewayOK, Inv,
         NEW p \in Calls, Content!OwnerStarts(p) \/ Content!AgentStarts(p)
  PROVE  Content!TypeOK' /\ Inv'
<1>1. PICK op \in Content!Ops, c \in Clients, a \in Apps, i \in 0 .. MaxProposals :
        Content!Start(p, op, c, a, i) /\ (op = "execute" => i \in Content!Ids)
  <2>1. {"connect", "disconnect", "grant", "read", "request", "execute"} \subseteq Content!Ops
    BY DEF Content!Ops
  <2>2. 0 \in 0 .. MaxProposals /\ Content!Ids \subseteq 0 .. MaxProposals /\ Content!Listed \subseteq Content!Ids
    BY DEF Content!ContentAssumption, Content!Ids, Content!Listed
  <2>3. CASE Content!OwnerStarts(p)
    BY <2>1, <2>2, <2>3 DEF Content!OwnerStarts
  <2>4. CASE Content!AgentStarts(p)
    <3>1. PICK c \in Clients, a \in Apps :
            \/ Content!Start(p, "read", c, a, 0) \/ Content!Start(p, "request", c, a, 0)
            \/ \E i \in Content!Listed : Content!Start(p, "execute", c, a, i)
      BY <2>4 DEF Content!AgentStarts
    <3> QED
      BY <2>1, <2>2, <3>1
  <2> QED
    BY <2>3, <2>4
<1> DEFINE t == [op |-> op, client |-> c, app |-> a, gen |-> cred[c], id |-> i,
                 version |-> target[a], conn |-> 0]
           s == IF op = "request" THEN "look" ELSE "open"
<1>2. t \in Content!Tasks /\ t.op = op /\ t.id = i
  BY DEF Content!Tasks, GatewayOK, Content!TypeOK, Content!ContentAssumption
<1>3. /\ step' = [step EXCEPT ![p] = s] /\ task' = [task EXCEPT ![p] = t]
      /\ UNCHANGED <<cred, last, grant, made, conn, proposals, nextProposal, target, posted,
                     grantedAt, store>>
  BY <1>1 DEF Content!Start, Content!Look, Content!Goto, Content!gateway, Content!file
<1> HIDE DEF t
<1>4. /\ grant' \in [Clients -> [Apps -> Content!Gens]]
      /\ \A d \in Clients, b \in Apps : grant'[d][b] = grant[d][b]
  BY <1>3 DEF Content!TypeOK
<1>5. s \in {"look", "open"} /\ s \notin Content!Open
  BY DEF Content!Open
<1>6. /\ proposals' \in [Content!Ids -> Content!Proposals \union {Content!NoRow}]
      /\ \A j \in Content!Ids : RowMoves(j)
  BY <1>3, RowsStay
<1> HIDE DEF s
<1> QED
  BY <1>1, <1>2, <1>3, <1>4, <1>5, <1>6, GoesOn

\* A call under way.
LEMMA UnderWay ==
  ASSUME Inv, NEW p \in Calls, step[p] # "idle"
  PROVE  /\ task[p] \in Content!Tasks /\ Knows(p) /\ Sends(p)
         /\ task[p].client \in Clients /\ task[p].app \in Apps
  BY DEF Inv, Knows, Content!Tasks

\* Sections that look at something, or open or close the file.
LEMMA LookKept ==
  ASSUME Content!ContentAssumption, Content!TypeOK, GatewayOK, Inv, NEW p \in Calls,
         Content!LookAgain(p) \/ Content!OpenToRead(p) \/ Content!OpenToConnect(p) \/ Content!Confirm(p)
  PROVE  Content!TypeOK' /\ Inv'
<1>0. task[p] \in Content!Tasks /\ Knows(p) /\ Sends(p) /\ task[p].client \in Clients /\ task[p].app \in Apps
  BY UnderWay DEF Content!LookAgain, Content!OpenToRead, Content!OpenToConnect,
       Content!Confirm
<1>1. CASE Content!LookAgain(p)
  <2> DEFINE t == [task[p] EXCEPT !.gen = cred[task[p].client], !.version = target[task[p].app]]
  <2>1. t \in Content!Tasks /\ t.op = task[p].op /\ t.id = task[p].id
    BY <1>0 DEF Content!Tasks, Content!TypeOK, GatewayOK
  <2>2. /\ step[p] = "look" /\ step' = [step EXCEPT ![p] = "open"] /\ task' = [task EXCEPT ![p] = t]
        /\ UNCHANGED <<cred, last, grant, made, conn, proposals, nextProposal, target, posted,
                       grantedAt, store>>
    BY <1>1 DEF Content!LookAgain, Content!Look, Content!Goto, Content!gateway, Content!file
  <2> HIDE DEF t
  <2>3. grant' \in [Clients -> [Apps -> Content!Gens]]
    BY <2>2 DEF Content!TypeOK
  <2> QED
    BY <1>0, <2>1, <2>2, <2>3, RowsStay, GoesOn DEF Knows, Content!Open
<1>2. CASE Content!OpenToRead(p)
  <2> DEFINE t == [task[p] EXCEPT !.conn = conn[task[p].app].gen]
  <2>1. t \in Content!Tasks /\ t.op = task[p].op /\ t.id = task[p].id
    BY <1>0 DEF Content!Tasks, Content!TypeOK, Content!Connections
  <2>2. /\ step[p] = "open" /\ step' = [step EXCEPT ![p] = "reading"]
        /\ task' = [task EXCEPT ![p] = t] /\ store = NoCall /\ store' = p
        /\ UNCHANGED <<cred, last, grant, made, conn, proposals, nextProposal, target, posted,
                       grantedAt>>
    BY <1>2 DEF Content!OpenToRead, Content!OpenStore, Content!CanOpen, Content!Look,
         Content!Goto, Content!gateway, Content!file
  <2> HIDE DEF t
  <2>3. grant' \in [Clients -> [Apps -> Content!Gens]] /\ "reading" \in Content!Open
    BY <2>2 DEF Content!TypeOK, Content!Open
  <2> QED
    BY <1>0, <2>1, <2>2, <2>3, RowsStay, GoesOn DEF Knows
<1>3. CASE Content!OpenToConnect(p)
  <2>1. /\ step[p] = "open" /\ step' = [step EXCEPT ![p] = "save"]
        /\ task' = [task EXCEPT ![p] = task[p]] /\ store = NoCall /\ store' = p
        /\ UNCHANGED <<cred, last, made, conn, proposals, nextProposal, target, posted, grantedAt>>
    BY <1>3 DEF Content!OpenToConnect, Content!RevokeScopes, Content!OpenStore,
         Content!CanOpen, Content!Goto, Content!file, Content!TypeOK
  <2>2. grant' = [c \in Clients |-> IF cred[c] = 0 THEN grant[c]
                                    ELSE [grant[c] EXCEPT ![task[p].app] = 0]]
    BY <1>3 DEF Content!OpenToConnect, Content!RevokeScopes
  <2>3. /\ grant' \in [Clients -> [Apps -> Content!Gens]] /\ "save" \in Content!Open
        /\ \A c \in Clients, a \in Apps : grant'[c][a] \in {0, grant[c][a]}
        /\ \A c \in Clients : cred[c] # 0 => grant'[c][task[p].app] = 0
    BY <1>0, <2>2 DEF Content!TypeOK, Content!Open, Content!Gens, Content!ContentAssumption
  <2> QED
    BY <1>0, <2>1, <2>3, RowsStay, GoesOn DEF Knows
<1>4. CASE Content!Confirm(p)
  <2>1. /\ step[p] = "confirm" /\ step' = [step EXCEPT ![p] = "post"]
        /\ task' = [task EXCEPT ![p] = task[p]] /\ store = p /\ store' = NoCall
        /\ UNCHANGED <<cred, last, grant, made, conn, proposals, nextProposal, target, posted,
                       grantedAt>>
    BY <1>0, <1>4 DEF Content!Confirm, Content!Look, Content!Goto, Content!gateway,
         Content!file, Content!TypeOK, Knows, Content!Open
  <2>2. grant' \in [Clients -> [Apps -> Content!Gens]] /\ "post" \notin Content!Open
    BY <2>1 DEF Content!TypeOK, Content!Open
  <2>3. /\ task[p].id < nextProposal /\ task[p].id \notin posted /\ Spent(task[p].id)
        /\ \A q \in Calls \ {p} : AtIt(q) => task[q].id # task[p].id
    BY <1>0, <2>1 DEF Sends, AtIt, Inv
  <2>4. task[p].op = "execute" /\ task[p].id \in Content!Ids
    BY <1>0, <2>1 DEF Knows
  <2>5. proposals'[task[p].id] = Content!NoRow \/ proposals'[task[p].id].consumed
    BY <2>1, <2>3 DEF Spent
  <2>6. \A c \in Clients, a \in Apps : grant'[c][a] \in {0, grant[c][a]}
    BY <2>1
  <2>7. \A i \in Content!Ids : RowMoves(i)
    BY <2>1, RowsStay
  <2>8. proposals' \in [Content!Ids -> Content!Proposals \union {Content!NoRow}]
    BY <2>1, RowsStay
  <2> QED
    BY <1>0, <2>1, <2>2, <2>3, <2>4, <2>5, <2>6, <2>7, <2>8, GoesOn
<1> QED
  BY <1>1, <1>2, <1>3, <1>4


\* The connection is replaced, when no enrolled client has a grant for the app.
LEMMA SaveKept ==
  ASSUME Content!ContentAssumption, Content!TypeOK, GatewayOK, Inv,
         NEW p \in Calls, Content!SaveConnection(p)
  PROVE  Content!TypeOK' /\ Inv'
<1> DEFINE a == task[p].app
<1>1. /\ step[p] = "save" /\ proposals' = Content!Without(a) /\ Content!Return(p)
      /\ UNCHANGED <<cred, last, grant, nextProposal, target, posted, grantedAt>>
  BY DEF Content!SaveConnection, Content!gateway
<1>2. a \in Apps /\ Knows(p) /\ task[p] \in Content!Tasks
  BY <1>1, UnderWay
<1>3. /\ proposals' \in [Content!Ids -> Content!Proposals \union {Content!NoRow}]
      /\ \A i \in Content!Ids : RowMoves(i)
  BY <1>1 DEF Content!Without, RowMoves, Content!TypeOK
<1>4. made' \in 0 .. MaxConnected /\ \E k \in Content!Connections : conn' = [conn EXCEPT ![a] = k]
  <2>1. CASE made' = made /\ conn' = [conn EXCEPT ![a] = Content!NoConn]
    <3>1. Content!NoConn \in Content!Connections
      BY DEF Content!NoConn, Content!Connections, Content!Versions,
           Content!ContentAssumption
    <3> QED
      BY <2>1, <3>1 DEF Content!TypeOK
  <2>2. CASE /\ made < MaxConnected /\ made' = made + 1
             /\ conn' = [conn EXCEPT ![a] = [gen |-> made + 1, version |-> task[p].version]]
    <3>1. made' \in 0 .. MaxConnected
      BY <2>2 DEF Content!TypeOK, Content!ContentAssumption
    <3>2. [gen |-> made + 1, version |-> task[p].version] \in Content!Connections
      BY <1>2, <2>2, <3>1 DEF Content!Tasks, Content!Connections
    <3> QED
      BY <2>2, <3>1, <3>2
  <2> QED
    BY <2>1, <2>2 DEF Content!SaveConnection
<1>5. conn' \in [Apps -> Content!Connections] /\ \A b \in Apps \ {a} : conn'[b] = conn[b]
  BY <1>4 DEF Content!TypeOK
<1>6. \A c \in Clients : cred[c] # 0 => grant[c][a] = 0
  BY <1>1, <1>2 DEF Knows
<1>7. Content!GrantsFitConnections'
  BY <1>1, <1>5, <1>6 DEF Inv, Content!GrantsFitConnections, Content!Connected
<1>8. nextProposal \in 1 .. MaxProposals + 1 /\ nextProposal >= nextProposal
  BY DEF Content!TypeOK
<1> QED
  BY <1>1, <1>3, <1>4, <1>5, <1>7, <1>8, ReturnKept

\* A grant is given for the connection there is; the others wait for the file.
LEMMA PermitKept ==
  ASSUME Content!ContentAssumption, Content!TypeOK, GatewayOK, Inv,
         NEW p \in Calls, Content!Permit(p)
  PROVE  Content!TypeOK' /\ Inv'
<1> DEFINE a == task[p].app  c == task[p].client
<1>1. /\ step[p] = "permit" /\ Content!Return(p)
      /\ grant' = [grant EXCEPT ![c][a] = cred[c]]
      /\ grantedAt' = [grantedAt EXCEPT ![c][a] = conn[a].gen]
      /\ UNCHANGED <<cred, last, conn, proposals, made, nextProposal, target, posted>>
  BY DEF Content!Permit, Content!file
<1>2. a \in Apps /\ c \in Clients /\ store = p
  BY <1>1, UnderWay DEF Knows, Content!Open
<1>3. cred[c] \in Content!Gens /\ conn[a].gen \in 0 .. MaxConnected
  BY <1>2 DEF GatewayOK, Content!TypeOK, Content!Connections
<1>4. Content!TypeOK'
  BY <1>1, <1>2, <1>3, ReturnTypes DEF Content!TypeOK
<1>5. /\ \A i \in Content!Ids : RowMoves(i)
      /\ nextProposal \in Nat /\ nextProposal >= nextProposal
  BY <1>1 DEF RowMoves, Content!TypeOK
<1>6. \A q \in Calls \ {p} : step'[q] = step[q] /\ task'[q] = task[q]
  BY <1>1 DEF Content!Return, Content!Goto, Content!TypeOK
<1>7. /\ \A i \in Content!Ids : Tells(i)'
      /\ \A q \in Calls \ {p} : Sends(q)'
  BY <1>1, <1>5, <1>6, RowsKept
<1>8. Content!GrantsFitConnections'
  <2>1. \A d \in Clients, b \in Apps :
          \/ d = c /\ b = a /\ grantedAt'[d][b] = conn[a].gen
          \/ grant'[d][b] = grant[d][b] /\ grantedAt'[d][b] = grantedAt[d][b]
    BY <1>1, <1>2 DEF Content!TypeOK
  <2> QED
    BY <1>1, <2>1 DEF Inv, Content!GrantsFitConnections, Content!Connected
<1> QED
  BY <1>1, <1>2, <1>4, <1>7, <1>8, Returned

\* A proposal is made; consumed ones make place.
LEMMA ProposeRows ==
  ASSUME Content!ContentAssumption, Content!TypeOK, GatewayOK, Inv,
         NEW p \in Calls, Content!Propose(p)
  PROVE  /\ proposals' \in [Content!Ids -> Content!Proposals \union {Content!NoRow}] /\ nextProposal' \in 1 .. MaxProposals + 1
         /\ nextProposal \in Content!Ids /\ nextProposal' = nextProposal + 1
         /\ proposals'[nextProposal] # Content!NoRow
         /\ ~proposals'[nextProposal].approved /\ ~proposals'[nextProposal].consumed
         /\ \A i \in Content!Ids \ {nextProposal} :
              \/ proposals'[i] = proposals[i]
              \/ proposals'[i] = Content!NoRow /\ Spent(i)
         /\ Content!Return(p)
         /\ UNCHANGED <<cred, last, grant, conn, made, target, posted, grantedAt>>
<1> DEFINE a == task[p].app
           kept == {i \in Content!Listed : ~proposals[i].consumed}
           new == [client |-> task[p].client, gen |-> task[p].gen, app |-> a,
                   version |-> task[p].version, conn |-> conn[a].gen,
                   approved |-> FALSE, consumed |-> FALSE]
<1>1. /\ step[p] = "open" /\ nextProposal \in Content!Ids
      /\ nextProposal' = nextProposal + 1 /\ Content!Return(p)
      /\ UNCHANGED <<cred, last, grant, conn, made, target, posted, grantedAt>>
  BY DEF Content!Propose, Content!gateway
<1>2. task[p] \in Content!Tasks /\ a \in Apps /\ conn[a].gen \in 0 .. MaxConnected
  BY <1>1, UnderWay DEF Content!TypeOK, Content!Connections
<1>3. new \in Content!Proposals /\ new # Content!NoRow /\ ~new.approved /\ ~new.consumed
  BY <1>2 DEF Content!Tasks, Content!Proposals, Content!NoRow
<1>4. proposals' = [i \in Content!Ids |-> IF i = nextProposal THEN new
                                  ELSE IF i \in kept THEN proposals[i] ELSE Content!NoRow]
  BY DEF Content!Propose
<1> HIDE DEF new
<1>5. nextProposal' \in 1 .. MaxProposals + 1
  BY <1>1 DEF Content!Ids, Content!ContentAssumption
<1> QED
  BY <1>1, <1>3, <1>4, <1>5 DEF Content!TypeOK, Spent, Content!Listed

\* Calls that change rows, or nothing, and return.
LEMMA ReturnsKept ==
  ASSUME Content!ContentAssumption, Content!TypeOK, GatewayOK, Inv, NEW p \in Calls,
         Content!Propose(p) \/ Content!Answer(p) \/ Content!Fail(p) \/ Content!LoseStore(p)
  PROVE  Content!TypeOK' /\ Inv'
<1>1. CASE Content!Propose(p)
  <2>1. \A i \in Content!Ids : RowMoves(i)
    BY <1>1, ProposeRows DEF RowMoves, Content!Ids
  <2>2. nextProposal' >= nextProposal
    BY <1>1, ProposeRows DEF Content!Ids
  <2>3. Content!GrantsFitConnections'
    BY <1>1, ProposeRows DEF Inv, Content!GrantsFitConnections, Content!Connected
  <2>4. conn' \in [Apps -> Content!Connections] /\ made' \in 0 .. MaxConnected
    BY <1>1, ProposeRows DEF Content!TypeOK
  <2> QED
    BY <1>1, <2>1, <2>2, <2>3, <2>4, ProposeRows, ReturnKept
<1>2. CASE ~Content!Propose(p)
  <2>1. /\ Content!Return(p)
        /\ UNCHANGED <<cred, last, grant, made, nextProposal, target, posted, grantedAt>>
        /\ \/ UNCHANGED <<conn, proposals>>
           \/ /\ conn' = [a \in Apps |-> Content!NoConn]
              /\ proposals' = [i \in Content!Ids |-> Content!NoRow]
    BY <1>2 DEF Content!Answer, Content!Fail, Content!LoseStore, Content!gateway,
         Content!file
  <2>2. Content!NoConn \in Content!Connections
    BY DEF Content!NoConn, Content!Connections, Content!Versions, Content!ContentAssumption
  <2>3. /\ conn' \in [Apps -> Content!Connections] /\ proposals' \in [Content!Ids -> Content!Proposals \union {Content!NoRow}]
        /\ made' \in 0 .. MaxConnected /\ nextProposal' \in 1 .. MaxProposals + 1
        /\ nextProposal' >= nextProposal
        /\ \A i \in Content!Ids : RowMoves(i)
    BY <2>1, <2>2 DEF Content!TypeOK, RowMoves
  <2>4. Content!GrantsFitConnections'
    BY <2>1 DEF Inv, Content!GrantsFitConnections, Content!Connected
  <2> QED
    BY <2>1, <2>3, <2>4, ReturnKept
<1> QED
  BY <1>1, <1>2

\* The claim consumes the proposal; nobody sends it and nobody has.
LEMMA ClaimKept ==
  ASSUME Content!ContentAssumption, Content!TypeOK, GatewayOK, Inv,
         NEW p \in Calls, Content!Claim(p)
  PROVE  Content!TypeOK' /\ Inv'
<1> DEFINE i == task[p].id  r == proposals[i]
           t == [task[p] EXCEPT !.version = r.version, !.conn = r.conn]
           s == [r EXCEPT !.consumed = TRUE]
<1>1. /\ step[p] = "open" /\ task[p].op = "execute" /\ store = NoCall /\ store' = p
      /\ r # Content!NoRow /\ ~r.consumed
      /\ proposals' = [proposals EXCEPT ![i].consumed = TRUE]
      /\ task' = [task EXCEPT ![p] = t] /\ step' = [step EXCEPT ![p] = "confirm"]
      /\ UNCHANGED <<cred, last, grant, conn, made, nextProposal, target, posted, grantedAt>>
  BY DEF Content!Claim, Content!OpenStore, Content!CanOpen, Content!Claimable,
       Content!Goto, Content!gateway
<1>2. task[p] \in Content!Tasks /\ i \in Content!Ids
  BY <1>1, UnderWay DEF Knows
<1>3. r \in Content!Proposals /\ Tells(i)
  BY <1>1, <1>2, RowTyped DEF Inv
<1>4. t \in Content!Tasks /\ t.op = "execute" /\ t.id = i
  BY <1>1, <1>2, <1>3 DEF Content!Tasks, Content!Proposals
<1>5. /\ s \in Content!Proposals /\ s # Content!NoRow /\ s.consumed
      /\ proposals' = [proposals EXCEPT ![i] = s]
  BY <1>1, <1>3 DEF Content!Proposals, Content!NoRow
<1> HIDE DEF t, s
<1>6. /\ proposals' \in [Content!Ids -> Content!Proposals \union {Content!NoRow}]
      /\ \A j \in Content!Ids : RowMoves(j)
      /\ proposals'[i] = s
  BY <1>1, <1>2, <1>5 DEF Content!TypeOK, RowMoves
<1>7. /\ i < nextProposal /\ i \notin posted
      /\ \A q \in Calls \ {p} : AtIt(q) => task[q].id # i
  BY <1>1, <1>3 DEF Tells, Spent, Inv, Sends
<1>8. grant' \in [Clients -> [Apps -> Content!Gens]] /\ "confirm" \in Content!Open
  BY <1>1 DEF Content!TypeOK, Content!Open
<1>9. proposals'[i] = Content!NoRow \/ proposals'[i].consumed
  BY <1>5, <1>6
<1>10. \A c \in Clients, a \in Apps : grant'[c][a] \in {0, grant[c][a]}
  BY <1>1
<1> QED
  BY <1>1, <1>2, <1>4, <1>6, <1>7, <1>8, <1>9, <1>10, GoesOn

\* A grant begins: the client's proposals for the app go.
LEMMA OpenToGrantKept ==
  ASSUME Content!ContentAssumption, Content!TypeOK, GatewayOK, Inv,
         NEW p \in Calls, Content!OpenToGrant(p)
  PROVE  Content!TypeOK' /\ Inv'
<1>1. /\ step[p] = "open" /\ task[p].op = "grant" /\ store = NoCall /\ store' = p
      /\ proposals' = Content!WithoutMine(task[p].client, task[p].app)
      /\ step' = [step EXCEPT ![p] = "permit"] /\ task' = [task EXCEPT ![p] = task[p]]
      /\ UNCHANGED <<cred, last, grant, conn, made, nextProposal, target, posted, grantedAt>>
  BY DEF Content!OpenToGrant, Content!OpenStore, Content!CanOpen, Content!Goto,
       Content!gateway, Content!TypeOK
<1>2. task[p] \in Content!Tasks
  BY <1>1, UnderWay
<1>3. /\ proposals' \in [Content!Ids -> Content!Proposals \union {Content!NoRow}]
      /\ \A j \in Content!Ids : RowMoves(j)
  BY <1>1 DEF Content!WithoutMine, Content!TypeOK, RowMoves
<1>4. grant' \in [Clients -> [Apps -> Content!Gens]] /\ "permit" \in Content!Open
  BY <1>1 DEF Content!TypeOK, Content!Open
<1> QED
  BY <1>1, <1>2, <1>3, <1>4, GoesOn

\* The write is sent.
LEMMA PostKept ==
  ASSUME Content!ContentAssumption, Content!TypeOK, GatewayOK, Inv,
         NEW p \in Calls, Content!Post(p)
  PROVE  Content!TypeOK' /\ Inv'
<1> DEFINE i == task[p].id
<1>1. /\ step[p] = "post" /\ posted' = posted \union {i} /\ Content!Return(p)
      /\ UNCHANGED <<cred, last, grant, conn, proposals, made, nextProposal, target, grantedAt>>
  BY DEF Content!Post, Content!gateway, Content!file
<1>2. i \in Content!Ids /\ i < nextProposal /\ Spent(i)
  BY <1>1, UnderWay DEF Knows, Sends, AtIt
<1>3. Content!TypeOK'
  BY <1>1, <1>2, ReturnTypes DEF Content!TypeOK
<1>4. \A j \in Content!Ids : Tells(j)'
  BY <1>1, <1>2 DEF Inv, Tells, Spent
<1>5. ASSUME NEW q \in Calls \ {p}
      PROVE  Sends(q)'
  <2>1. step'[q] = step[q] /\ task'[q] = task[q]
    BY <1>1 DEF Content!Return, Content!Goto, Content!TypeOK
  <2>2. AtIt(q) => task[q].id # i
    BY <1>1 DEF Inv, AtIt
  <2> QED
    BY <1>1, <2>1, <2>2 DEF Inv, Sends, AtIt, Spent
<1>6. Content!GrantsFitConnections'
  BY <1>1 DEF Inv, Content!GrantsFitConnections, Content!Connected
<1> QED
  BY <1>1, <1>3, <1>4, <1>5, <1>6, Returned

\* What the owner decides, what runs out, and what changes by itself.
LEMMA OthersKept ==
  ASSUME Content!ContentAssumption, Content!TypeOK, GatewayOK, Inv,
         \/ \E i \in Content!Ids : Content!Decide(i) \/ Content!RunOut(i)
         \/ \E a \in Apps : Content!Drift(a)
         \/ Content!EnrolmentChanges
         \/ UNCHANGED Content!vars
  PROVE  Content!TypeOK' /\ Inv'
<1>0. nextProposal \in Nat /\ nextProposal >= nextProposal
  BY DEF Content!TypeOK
<1>1. ASSUME NEW i \in Content!Ids, Content!Decide(i) \/ Content!RunOut(i)
      PROVE  Content!TypeOK' /\ Inv'
  <2>1. /\ proposals[i] # Content!NoRow
        /\ \/ proposals' = [proposals EXCEPT ![i].approved = TRUE]
           \/ proposals' = [proposals EXCEPT ![i].approved = FALSE]
           \/ proposals' = [proposals EXCEPT ![i].consumed = TRUE]
        /\ UNCHANGED <<cred, last, grant, conn, made, nextProposal, target, store, step, task,
                       posted, grantedAt>>
    BY <1>1 DEF Content!Decide, Content!RunOut, Content!gateway
  <2>2. proposals[i] \in Content!Proposals
    BY <2>1, RowTyped
  <2>3. PICK s \in Content!Proposals : /\ proposals' = [proposals EXCEPT ![i] = s] /\ s # Content!NoRow
                                       /\ proposals[i].consumed => s.consumed
    <3>1. PICK s \in Content!Proposals : proposals' = [proposals EXCEPT ![i] = s] /\ (proposals[i].consumed => s.consumed)
      <4>1. PICK r : r = proposals[i]
        OBVIOUS
      <4>2. /\ [r EXCEPT !.approved = TRUE] \in Content!Proposals
            /\ [r EXCEPT !.approved = FALSE] \in Content!Proposals
            /\ [r EXCEPT !.consumed = TRUE] \in Content!Proposals
        BY <2>2, <4>1 DEF Content!Proposals
      <4>3. /\ [r EXCEPT !.approved = TRUE].consumed = r.consumed
            /\ [r EXCEPT !.approved = FALSE].consumed = r.consumed
            /\ [r EXCEPT !.consumed = TRUE].consumed
        BY <2>2, <4>1 DEF Content!Proposals
      <4> QED
        BY <2>1, <4>1, <4>2, <4>3
    <3>2. s # Content!NoRow
      BY DEF Content!Proposals, Content!NoRow
    <3> QED
      BY <3>1, <3>2
  <2>4. Content!TypeOK'
    BY <2>1, <2>3 DEF Content!TypeOK
  <2>5. ASSUME NEW j \in Content!Ids PROVE RowMoves(j)
    <3>1. j \in DOMAIN proposals
      BY DEF Content!TypeOK
    <3>2. proposals'[j] = IF j = i THEN s ELSE proposals[j]
      BY <2>3, <3>1
    <3>3. s # Content!NoRow /\ (proposals[i].consumed => s.consumed)
      BY <2>3
    <3> QED
      BY <2>1, <3>2, <3>3 DEF RowMoves
  <2>6. /\ \A j \in Content!Ids : Tells(j)'
        /\ \A q \in Calls : Sends(q)'
    BY <1>0, <2>1, <2>5, RowsKept
  <2> QED
    BY <2>1, <2>4, <2>6 DEF Inv, Knows, AtIt, Content!GrantsFitConnections,
         Content!Connected
<1>2. CASE (\E a \in Apps : Content!Drift(a)) \/ UNCHANGED Content!vars
  <2>1. /\ UNCHANGED <<cred, last, grant, conn, proposals, made, nextProposal, store, step, task,
                       posted, grantedAt>>
        /\ \/ target' = target
           \/ \E a \in Apps : target[a] < MaxVersion /\ target' = [target EXCEPT ![a] = target[a] + 1]
    BY <1>2 DEF Content!Drift, Content!vars, Content!contentVars, Content!gateway,
         Content!file
  <2>2. target' \in [Apps -> Content!Versions]
    BY <2>1 DEF Content!TypeOK, Content!Versions, Content!ContentAssumption
  <2>3. Content!TypeOK'
    BY <2>1, <2>2 DEF Content!TypeOK
  <2> QED
    BY <2>1, <2>3 DEF Inv, Knows, Sends, Tells, Spent, AtIt, Content!GrantsFitConnections,
         Content!Connected
<1>3. CASE Content!EnrolmentChanges
  <2>1. /\ UNCHANGED <<conn, proposals, made, nextProposal, target, store, step, task, posted, grantedAt>>
    BY <1>3 DEF Content!EnrolmentChanges, Content!file
  <2>2. Content!TypeOK'
    BY <1>3, GatewaySteps
  <2>3. Content!GrantsFitConnections'
    BY <1>3, <2>1, GatewaySteps, FitsStill
  <2>4. ASSUME NEW p \in Calls
        PROVE  Knows(p)'
    <3>1. Knows(p) /\ (task[p] \in Content!Tasks => task[p].app \in Apps)
      BY DEF Inv, Content!Tasks
    <3> QED
      BY <1>3, <2>1, <3>1, GatewaySteps DEF Knows
  <2> QED
    BY <2>1, <2>2, <2>3, <2>4 DEF Inv, Sends, Tells, Spent, AtIt
<1> QED
  BY <1>1, <1>2, <1>3


-----------------------------------------------------------------------------
\* The invariant.

\* Every call starts idle, on a file without connections or proposals, whoever is
\* enrolled.
LEMMA InitHolds ==
  ASSUME Content!ContentAssumption, Content!ContentInit, GatewayOK
  PROVE  IInv
<1>1. Content!TypeOK
  <2>1. Content!NoConn \in Content!Connections
    BY DEF Content!NoConn, Content!Connections, Content!Versions, Content!ContentAssumption
  <2> QED
    BY <2>1 DEF Content!ContentInit, Content!TypeOK, Content!Gens,
         Content!Versions, Content!Ids, Content!ContentAssumption
<1>2. Inv
  BY DEF Content!ContentInit, Inv, Knows, Sends, Tells, AtIt, Content!Open,
       Content!GrantsFitConnections, Content!Connected
<1> QED
  BY <1>1, <1>2 DEF IInv

\* Every step keeps the invariant.
LEMMA NextKeeps ==
  ASSUME Content!ContentAssumption, IInv, [Content!ContentNext]_(Content!vars)
  PROVE  IInv'
<1> USE DEF IInv
<1>1. GatewayOK'
  <2>1. ASSUME NEW p \in Calls, Content!Step(p)
        PROVE  UNCHANGED <<cred, last>>
    BY <2>1 DEF Content!Step, Content!OwnerStarts, Content!AgentStarts, Content!Start,
         Content!LookAgain, Content!OpenToConnect, Content!SaveConnection,
         Content!OpenToGrant, Content!Permit, Content!Propose, Content!Claim,
         Content!Confirm, Content!Post, Content!OpenToRead, Content!Answer, Content!Fail,
         Content!LoseStore, Content!Look, Content!gateway
  <2>2. CASE \/ \E i \in Content!Ids : Content!Decide(i) \/ Content!RunOut(i)
             \/ \E a \in Apps : Content!Drift(a)
             \/ UNCHANGED Content!vars
    BY <2>2 DEF Content!Decide, Content!RunOut, Content!Drift, Content!gateway,
         Content!vars, GatewayOK
  <2> QED
    BY <2>1, <2>2, GatewaySteps DEF GatewayOK, Content!ContentNext
<1>2. ASSUME NEW p \in Calls, Content!Step(p)
      PROVE  Content!TypeOK' /\ Inv'
  <2>1. CASE Content!OwnerStarts(p) \/ Content!AgentStarts(p)
    BY <2>1, StartKept
  <2>2. CASE Content!LookAgain(p) \/ Content!OpenToRead(p) \/ Content!OpenToConnect(p) \/ Content!Confirm(p)
    BY <2>2, LookKept
  <2>3. CASE Content!Propose(p) \/ Content!Answer(p) \/ Content!Fail(p) \/ Content!LoseStore(p)
    BY <2>3, ReturnsKept
  <2>4. CASE Content!SaveConnection(p)
    BY <2>4, SaveKept
  <2>5. CASE Content!Permit(p)
    BY <2>5, PermitKept
  <2>6. CASE Content!Claim(p)
    BY <2>6, ClaimKept
  <2>7. CASE Content!OpenToGrant(p)
    BY <2>7, OpenToGrantKept
  <2>8. CASE Content!Post(p)
    BY <2>8, PostKept
  <2> QED
    BY <1>2, <2>1, <2>2, <2>3, <2>4, <2>5, <2>6, <2>7, <2>8 DEF Content!Step
<1>3. CASE \/ \E i \in Content!Ids : Content!Decide(i) \/ Content!RunOut(i)
           \/ \E a \in Apps : Content!Drift(a)
           \/ Content!EnrolmentChanges
           \/ UNCHANGED Content!vars
  BY <1>1, <1>3, OthersKept
<1> QED
  BY <1>1, <1>2, <1>3 DEF Content!ContentNext

\* While requests are made, the content stays as it began.
Untouched == part # "content" => Content!ContentInit

\* A step of the requests keeps the types of the enrolments.
LEMMA EnrolmentsTyped ==
  ASSUME GatewayOK, Next
  PROVE  GatewayOK'
<1>1. UNCHANGED gateway \/ EnrolmentChanges
  <2>1. ASSUME NEW p \in Calls, Step(p)
        PROVE  UNCHANGED gateway
    <3>1. CASE \/ \E k \in Kinds, a \in Apps : Request(p, k, a)
               \/ \E i \in Ids : CancelRequest(p, i) \/ Execute(p, i) \/ OwnerApproves(p, i)
      BY <3>1 DEF Request, CancelRequest, Execute, OwnerApproves, Begin, Look
    <3>2. CASE Owner(p) \/ LockOperation(p) \/ Describe(p) \/ Recheck(p) \/ Poll(p) \/ OutOfTime(p)
      BY <3>2 DEF Owner, LockOperation, Describe, Recheck, Poll, OutOfTime, Stop, Look
    <3>3. CASE \/ Submit(p) \/ Decide(p) \/ Cancel(p) \/ Claim(p) \/ ClaimFails(p)
      BY <3>3 DEF Submit, Decide, Cancel, Claim, ClaimFails, InQueue, Look
    <3>4. CASE Work(p) \/ WindDown(p) \/ FinishRow(p) \/ Fail(p) \/ LoseRows(p)
      BY <3>4 DEF Work, WindDown, WorkEnds, FinishRow, Fail, LoseRows, Look
    <3> QED
      BY <2>1, <3>1, <3>2, <3>3, <3>4 DEF Step
  <2>2. CASE \/ \E i \in Ids : Expire(i) \/ Deny(i)
             \/ \E a \in Apps : OwnerChanges(a) \/ Drift(a)
    BY <2>2 DEF Expire, Deny, OwnerChanges, Drift
  <2> QED
    BY <2>1, <2>2 DEF Next, RequestsNext
<1>2. MaxGens \in Nat
  BY AgentRequestsAssumption DEF AgentRequestsAssumption
<1> QED
  BY <1>1, <1>2 DEF GatewayOK, gateway, EnrolmentChanges, Content!Gens, Gateway!Lose,
       Gateway!Enroll, Gateway!Revoke

LEMMA Invariant == AgentsSpec => [](IInv /\ Untouched)
<1>0. Content!ContentAssumption
  BY AgentsAssumption DEF AgentsAssumption
<1>1. Content!ContentInit /\ GatewayOK => IInv
  BY <1>0, InitHolds
<1>2. (Content!ContentInit /\ GatewayOK)' => IInv'
  BY <1>1, PTL
<1>3. AgentsInit => IInv /\ Untouched
  <2>1. ASSUME AgentsInit
        PROVE  GatewayOK /\ Content!ContentInit
    BY <1>0, <2>1 DEF AgentsInit, Init, Gateway!Init, GatewayOK, Content!Gens,
         Content!ContentAssumption
  <2> QED
    BY <1>1, <2>1 DEF Untouched
<1>4. IInv /\ Untouched /\ [Requests \/ Contents]_agentVars => (IInv /\ Untouched)'
  <2>1. ASSUME IInv, Untouched, Requests
        PROVE  IInv' /\ Untouched'
    <3>1. Content!ContentInit /\ UNCHANGED contentState
      BY <2>1 DEF Untouched, Requests
    <3>2. Content!ContentInit'
      BY <3>1 DEF contentState, Content!ContentInit
    <3>3. GatewayOK'
      BY <2>1, EnrolmentsTyped DEF Requests, IInv
    <3> QED
      BY <1>2, <3>2, <3>3 DEF Untouched
  <2>2. ASSUME IInv, Contents \/ UNCHANGED agentVars
        PROVE  IInv'
    BY <1>0, <2>2, NextKeeps DEF Contents, agentVars, contentState, Content!vars, Content!contentVars
  <2>3. ASSUME Untouched, Contents \/ UNCHANGED agentVars
        PROVE  Untouched'
    BY <2>3 DEF Untouched, Contents, agentVars, contentState, Content!ContentInit
  <2> QED
    BY <2>1, <2>2, <2>3
<1> QED
  BY <1>3, <1>4, PTL DEF AgentsSpec

\* Every step keeps the types of the file, of the calls and of the enrolments.
THEOREM ContentTypeOK == AgentsSpec => [](Content!TypeOK /\ GatewayOK)
<1>1. IInv => Content!TypeOK /\ GatewayOK
  BY DEF IInv
<1> QED
  BY <1>1, Invariant, PTL

\* However connecting, granting, enrolling and revoking overlap: an enrolled client's grant
\* for a connected app was given for the connection the app has now.
THEOREM GrantsAreForTheConnection == AgentsSpec => []GrantsFitConnections
<1>1. IInv => GrantsFitConnections
  BY DEF IInv, Inv, GrantsFitConnections
<1> QED
  BY <1>1, Invariant, PTL

-----------------------------------------------------------------------------
\* The proposals implement the approvals.

Same(i) == Content!Progress(i)' = Content!Progress(i)
Ends(i) == Content!Progress(i) # "free" /\ Content!Progress(i)' = "closed"
Goes(i, from, to) == Content!Progress(i) = from /\ Content!Progress(i)' = to

\* Proposals that end, and none that goes on.
LEMMA OthersMap ==
  ASSUME \A i \in Content!Ids : Same(i) \/ Ends(i)
  PROVE  Content!Approval!Next
<1>1. \A i \in Content!Ids : Content!Progress(i)' \in Content!Approval!Stages
  BY DEF Content!Progress, Content!Approval!Stages
<1> QED
  BY <1>1 DEF Content!Approval!Next, Content!Approval!Others, Content!Approval!Close,
       Same, Ends

\* One proposal goes on, and others may end.
LEMMA OneMaps ==
  ASSUME NEW j \in Content!Ids,
         \/ Goes(j, "free", "asked") \/ Goes(j, "asked", "approved")
         \/ Goes(j, "approved", "asked") \/ Goes(j, "approved", "used"),
         \A i \in Content!Ids \ {j} : Same(i) \/ Ends(i)
  PROVE  Content!Approval!Next
<1>1. \A i \in Content!Ids : Content!Progress(i)' \in Content!Approval!Stages
  BY DEF Content!Progress, Content!Approval!Stages
<1>2. Content!Approval!Step(j)
  BY DEF Content!Approval!Step, Content!Approval!Become, Goes
<1>3. Content!Approval!Others(Content!Ids \ {j})
  BY DEF Content!Approval!Others, Content!Approval!Close, Same, Ends
<1> QED
  BY <1>1, <1>2, <1>3 DEF Content!Approval!Next

\* Nothing is sent that was not being sent.
Quiet == \A q \in Calls : AtIt(q)' => AtIt(q) /\ task'[q].id = task[q].id

\* A proposal that stays, or is spent, and that nobody claims or sends.
LEMMA RowMaps ==
  ASSUME IInv, NEW i \in Content!Ids, Quiet,
         i \in posted <=> i \in posted',
         i >= nextProposal <=> i >= nextProposal',
         \/ proposals'[i] = proposals[i]
         \/ proposals'[i] = Content!NoRow
         \/ proposals[i] # Content!NoRow /\ proposals'[i].consumed
  PROVE  Same(i) \/ Ends(i)
<1>1. /\ Tells(i) /\ i \in Nat /\ nextProposal \in Nat
      /\ \A q \in Calls : Sends(q)
  BY DEF IInv, Inv, Content!TypeOK, Content!Ids
<1>2. Content!Sending(i)' => Content!Sending(i)
  BY DEF Quiet, Content!Sending, AtIt
<1>3. Content!Sending(i) => Spent(i)
  BY <1>1 DEF Content!Sending, Sends, AtIt
<1> HIDE DEF Quiet
<1> QED
  BY <1>1, <1>2, <1>3 DEF Tells, Spent, Same, Ends, Content!Progress

\* Only a claim begins to send.
LEMMA OnlyClaimsSend ==
  ASSUME IInv, [Content!ContentNext]_(Content!vars), \A p \in Calls : ~Content!Claim(p)
  PROVE  Quiet
<1>1. ASSUME NEW p \in Calls, Content!Step(p)
      PROVE  Quiet
  <2>1. /\ \A q \in Calls \ {p} : step'[q] = step[q] /\ task'[q] = task[q]
        /\ AtIt(p)' => AtIt(p) /\ task'[p] = task[p]
    BY <1>1 DEF Content!Step, Content!OwnerStarts, Content!AgentStarts, Content!Start,
         Content!LookAgain, Content!OpenToConnect, Content!SaveConnection,
         Content!OpenToGrant, Content!Permit, Content!Propose, Content!Confirm,
         Content!Post, Content!OpenToRead, Content!Answer, Content!Fail,
         Content!LoseStore, Content!Look, Content!Goto, Content!Return, AtIt, IInv,
         Content!TypeOK
  <2> QED
    BY <2>1 DEF Quiet, AtIt
<1>2. CASE \/ \E i \in Content!Ids : Content!Decide(i) \/ Content!RunOut(i)
           \/ \E a \in Apps : Content!Drift(a)
           \/ Content!EnrolmentChanges
           \/ UNCHANGED Content!vars
  BY <1>2 DEF Content!Decide, Content!RunOut, Content!Drift, Content!EnrolmentChanges,
       Content!vars, Content!contentVars, Quiet, AtIt
<1> QED
  BY <1>1, <1>2 DEF Content!ContentNext


\* Every step maps to a step, or to none.
LEMMA StepMaps ==
  ASSUME Content!ContentAssumption, IInv, [Content!ContentNext]_(Content!vars)
  PROVE  Content!Approval!Next
<1>1. ASSUME NEW p \in Calls, Content!Claim(p)
      PROVE  Content!Approval!Next
  <2> DEFINE i == task[p].id
  <2>1. /\ step[p] = "open" /\ proposals[i] # Content!NoRow /\ proposals[i].approved
        /\ ~proposals[i].consumed
        /\ proposals' = [proposals EXCEPT ![i].consumed = TRUE]
        /\ step' = [step EXCEPT ![p] = "confirm"] /\ task'[p].id = i
        /\ \A q \in Calls \ {p} : task'[q] = task[q]
        /\ UNCHANGED <<nextProposal, posted>>
    BY <1>1 DEF Content!Claim, Content!Claimable, Content!Goto, IInv, Content!TypeOK
  <2>2. task[p].op = "execute"
    BY <1>1 DEF Content!Claim
  <2>3. i \in Content!Ids /\ Tells(i)
    BY <2>1, <2>2, UnderWay DEF IInv, Inv, Knows
  <2>4. Same(i)
    <3>1. Content!Sending(i)'
      BY <2>1 DEF Content!Sending, IInv, Content!TypeOK
    <3> QED
      BY <2>1, <2>3, <3>1 DEF Same, Content!Progress, Tells
  <2>5. ASSUME NEW j \in Content!Ids \ {i}
        PROVE  Same(j)
    <3>1. proposals'[j] = proposals[j]
      BY <2>1, <2>3 DEF IInv, Content!TypeOK
    <3>2. Content!Sending(j)' <=> Content!Sending(j)
      <4>1. \A q \in Calls \ {p} : step'[q] = step[q] /\ task'[q] = task[q]
        BY <2>1 DEF IInv, Content!TypeOK
      <4>2. task'[p].id # j /\ step[p] \notin {"confirm", "post"}
        BY <2>1
      <4> QED
        BY <4>1, <4>2 DEF Content!Sending
    <3> QED
      BY <2>1, <3>1, <3>2 DEF Same, Content!Progress
  <2> QED
    BY <2>4, <2>5, OthersMap
<1>2. ASSUME NEW p \in Calls, Content!Propose(p), \A q \in Calls : ~Content!Claim(q)
      PROVE  Content!Approval!Next
  <2>1. PICK j \in Content!Ids : /\ j = nextProposal /\ nextProposal' = j + 1 /\ proposals'[j] # Content!NoRow
                                 /\ ~proposals'[j].approved /\ ~proposals'[j].consumed
                                 /\ posted' = posted
                                 /\ \A i \in Content!Ids \ {j} : proposals'[i] \in {proposals[i], Content!NoRow}
    BY <1>2, ProposeRows DEF IInv
  <2>2. Quiet
    BY <1>2, OnlyClaimsSend
  <2>3. Goes(j, "free", "asked")
    <3>1. Tells(j) /\ j \in Nat
      BY DEF IInv, Inv, Content!Ids
    <3>2. j \notin posted
      BY <2>1, <3>1 DEF Tells
    <3>3. ~Content!Sending(j)
      BY <2>1, <3>1 DEF Content!Sending, IInv, Inv, Sends, AtIt
    <3>4. ~Content!Sending(j)'
      BY <2>2, <3>3 DEF Content!Sending, Quiet, AtIt
    <3> QED
      BY <2>1, <3>1, <3>2, <3>3, <3>4 DEF Goes, Content!Progress
  <2>4. \A i \in Content!Ids \ {j} : Same(i) \/ Ends(i)
    BY <2>1, <2>2, RowMaps DEF Content!Ids
  <2> QED
    BY <2>3, <2>4, OneMaps
<1>3. ASSUME NEW p \in Calls, Content!Post(p), \A q \in Calls : ~Content!Claim(q)
      PROVE  Content!Approval!Next
  <2>1. step[p] = "post" /\ UNCHANGED <<proposals, nextProposal>>
    BY <1>3 DEF Content!Post, Content!file
  <2>2. PICK i \in Content!Ids : i = task[p].id /\ i < nextProposal /\ i \notin posted
                        /\ posted' = posted \union {i}
    BY <1>3, <2>1, UnderWay DEF Content!Post, IInv, Knows, Sends, AtIt
  <2>3. Quiet
    BY <1>3, OnlyClaimsSend
  <2>4. Goes(i, "approved", "used")
    <3>1. Content!Sending(i) /\ ~(i >= nextProposal) /\ i \in posted'
      BY <2>1, <2>2 DEF Content!Sending, Content!Ids, IInv, Content!TypeOK
    <3> QED
      BY <2>2, <3>1 DEF Goes, Content!Progress
  <2>5. \A j \in Content!Ids \ {i} : Same(j) \/ Ends(j)
    BY <2>1, <2>2, <2>3, RowMaps
  <2> QED
    BY <2>2, <2>4, <2>5, OneMaps
<1>4. ASSUME NEW i \in Content!Ids, Content!Decide(i) \/ Content!RunOut(i), \A q \in Calls : ~Content!Claim(q)
      PROVE  Content!Approval!Next
  <2>1. /\ proposals[i] # Content!NoRow
        /\ \/ proposals' = [proposals EXCEPT ![i].approved = TRUE] /\ ~proposals[i].consumed
           \/ proposals' = [proposals EXCEPT ![i].approved = FALSE]
           \/ proposals' = [proposals EXCEPT ![i].consumed = TRUE]
        /\ UNCHANGED <<nextProposal, step, task, posted>>
    BY <1>4 DEF Content!Decide, Content!RunOut
  <2>2. Quiet
    BY <1>4, OnlyClaimsSend
  <2>3. proposals[i] \in Content!Proposals /\ Tells(i) /\ Content!Sending(i)' = Content!Sending(i)
        /\ (Content!Sending(i) => Spent(i))
    BY <2>1, RowTyped DEF IInv, Inv, Content!Sending, Sends, AtIt
  <2>4. \A j \in Content!Ids \ {i} : Same(j) \/ Ends(j)
    <3>1. \A j \in Content!Ids \ {i} : proposals'[j] = proposals[j]
      BY <2>1 DEF IInv, Content!TypeOK
    <3> QED
      BY <2>1, <2>2, <3>1, RowMaps
  <2>5. PICK s \in Content!Proposals :
          /\ proposals' = [proposals EXCEPT ![i] = s] /\ s # Content!NoRow
          /\ \/ s.approved /\ ~s.consumed /\ ~proposals[i].consumed
             \/ ~s.approved /\ (s.consumed <=> proposals[i].consumed)
             \/ s.consumed
    BY <2>1, <2>3 DEF Content!Proposals, Content!NoRow
  <2>6. proposals'[i] = s
    BY <2>5 DEF IInv, Content!TypeOK
  <2>7. \/ Same(i) \/ Ends(i) \/ Goes(i, "asked", "approved") \/ Goes(i, "approved", "asked")
    BY <2>1, <2>3, <2>5, <2>6 DEF Same, Ends, Goes, Content!Progress, Tells, Spent
  <2> QED
    BY <2>4, <2>7, OthersMap, OneMaps
<1>5. ASSUME \A q \in Calls : ~(Content!Claim(q) \/ Content!Propose(q) \/ Content!Post(q)),
             \A i \in Content!Ids : ~(Content!Decide(i) \/ Content!RunOut(i))
      PROVE  Content!Approval!Next
  <2>1. Quiet
    BY <1>5, OnlyClaimsSend
  <2>2. /\ UNCHANGED <<nextProposal, posted>>
        /\ \A i \in Content!Ids : proposals'[i] \in {proposals[i], Content!NoRow}
    <3>1. ASSUME NEW p \in Calls, Content!Step(p)
          PROVE  /\ UNCHANGED <<nextProposal, posted>>
                 /\ \A i \in Content!Ids : proposals'[i] \in {proposals[i], Content!NoRow}
      BY <1>5, <3>1 DEF Content!Step, Content!OwnerStarts, Content!AgentStarts,
           Content!Start, Content!LookAgain, Content!OpenToConnect,
           Content!SaveConnection, Content!Without, Content!OpenToGrant,
           Content!WithoutMine, Content!Permit, Content!Confirm, Content!OpenToRead,
           Content!Answer, Content!Fail, Content!LoseStore, Content!Look, Content!file
    <3>2. CASE (\E a \in Apps : Content!Drift(a)) \/ Content!EnrolmentChanges \/ UNCHANGED Content!vars
      BY <3>2 DEF Content!Drift, Content!EnrolmentChanges, Content!file, Content!vars,
           Content!contentVars
    <3> QED
      BY <1>5, <3>1, <3>2 DEF Content!ContentNext
  <2> QED
    BY <2>1, <2>2, RowMaps, OthersMap
<1> QED
  BY <1>1, <1>2, <1>3, <1>4, <1>5

\* What the owner approved is sent once at most, whatever is lost, dies or overlaps: the
\* claim spends the proposal before anything is sent, and a spent proposal is never claimed.
THEOREM WritesAreSentOnce == AgentsSpec => WrittenOnce
<1>0. Content!ContentAssumption
  BY AgentsAssumption DEF AgentsAssumption
<1>1. AgentsInit => Content!Approval!Init
  <2>1. ASSUME AgentsInit, NEW i \in Content!Ids
        PROVE  Content!Progress(i) = "free"
    BY <2>1 DEF AgentsInit, Content!ContentInit, Content!Ids, Content!Progress
  <2> QED
    BY <2>1 DEF Content!Approval!Init
<1>2. IInv /\ [Requests \/ Contents]_agentVars
        => [Content!Approval!Next]_[i \in Content!Ids |-> Content!Progress(i)]
  <2>1. CASE Contents
    BY <1>0, <2>1, StepMaps DEF Contents
  <2>2. CASE Requests \/ UNCHANGED agentVars
    BY <2>2 DEF Requests, agentVars, contentState, Content!Progress, Content!Sending
  <2> QED
    BY <2>1, <2>2
<1> QED
  BY <1>1, <1>2, Invariant, PTL DEF AgentsSpec, WrittenOnce, Content!WrittenOnce, Content!Approval!Spec

=============================================================================
