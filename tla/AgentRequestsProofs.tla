------------------------- MODULE AgentRequestsProofs -------------------------
(***************************************************************************)
(* Proofs about AgentRequests, for any number of clients, apps, calls and  *)
(* requests, and any limits.                                               *)
(***************************************************************************)
EXTENDS AgentRequests, TLAPS

-----------------------------------------------------------------------------
\* The inductive invariant.

GatewayOK == cred \in [Clients -> Gens] /\ last \in Gens

\* A call under way knows what it needs.
Knows(p) ==
  /\ pc[p] # "idle" => call[p] \in CallRecords
  /\ pc[p] # "idle" /\ call[p].op # "request" => call[p].id \in Ids
  /\ pc[p] \in {"lock", "recheck", "working", "finish"} => call[p].op = "execute"
  /\ pc[p] = "owner" => call[p].op = "approve"

\* From its first look under it to the end of the work, the worker holds the lock.
Holds(p) ==
  pc[p] \in {"describe", "recheck", "queue", "working"} /\ call[p].op = "execute"
    => opLock[call[p].target.app] = p

\* A row carries what the owner saw, from his approval on.
Seen(r) == r.state \in {"approved", "running"} => r.seen = [gen |-> r.gen, target |-> r.target]

AtIt(p) == pc[p] \in {"working", "finish"}

\* What a worker is at is in a row that runs, or in none; it works for what was seen.
Works(p) ==
  AtIt(p) =>
    LET i == call[p].id  r == rows[i] IN
    /\ i < nextId
    /\ r # NoRow => r.state = "running" /\ r.gen = call[p].gen /\ r.target = call[p].target
    /\ call[p].seen = [gen |-> call[p].gen, target |-> call[p].target]

\* Nothing was done yet for a row that is open, and all of it for one that succeeded.
Tells(i) ==
  /\ rows[i] # NoRow \/ i \in done => i < nextId
  /\ i \in done => rows[i] = NoRow \/ rows[i].state \in {"running", "succeeded"}
  /\ rows[i].state = "succeeded" => i \in done

Inv ==
  /\ \A p \in Calls : Knows(p) /\ Holds(p) /\ Works(p)
  /\ \A i \in Ids : Seen(rows[i]) /\ Tells(i)
  /\ \A p, q \in Calls : AtIt(p) /\ AtIt(q) /\ call[p].id = call[q].id => p = q

IInv == TypeOK /\ GatewayOK /\ Inv

-----------------------------------------------------------------------------
\* Types.

\* A row that has a state is a row.
LEMMA RowTyped ==
  ASSUME TypeOK, NEW i \in Ids, rows[i] # NoRow \/ rows[i].state # "none"
  PROVE  rows[i] \in Rows /\ rows[i] # NoRow
  BY DEF TypeOK, NoRow

\* The locks and the calls after a return.
LEMMA ReturnTypes ==
  ASSUME TypeOK, NEW p \in Calls, Return(p)
  PROVE  /\ pc' \in [Calls -> Steps] /\ call' \in [Calls -> CallRecords \union {Idle}]
         /\ token' \in [Calls -> BOOLEAN] /\ opLock' \in [Apps -> Calls \union {NoCall}]
  BY DEF TypeOK, Return, Goto, Steps

\* The first section of a call notes well-formed things.
LEMMA BeginTypes ==
  ASSUME TypeOK, NEW p \in Calls, NEW op \in Ops, NEW i \in 0 .. MaxIds, NEW g \in Gens,
         NEW t \in Targets, NEW to \in Steps, Begin(p, op, i, g, t, to)
  PROVE  /\ TypeOK'
         /\ \E c \in Clients :
              /\ pc' = [pc EXCEPT ![p] = to]
              /\ call' = [call EXCEPT ![p] = [op |-> op, client |-> c, gen |-> g, id |-> i,
                                             target |-> t, seen |-> Unseen]]
<1>1. PICK c \in Clients :
        call' = [call EXCEPT ![p] = [op |-> op, client |-> c, gen |-> g, id |-> i,
                                      target |-> t, seen |-> Unseen]]
  BY DEF Begin
<1>2. [op |-> op, client |-> c, gen |-> g, id |-> i, target |-> t, seen |-> Unseen] \in CallRecords
  BY DEF CallRecords
<1>3. pc' = [pc EXCEPT ![p] = to] /\ UNCHANGED <<gateway, rows, nextId, app, opLock, token, done>>
  BY DEF Begin, Look, Goto
<1> QED
  BY <1>1, <1>2, <1>3 DEF TypeOK, app

\* The gateway's steps keep its types.
LEMMA GatewayTypes ==
  ASSUME GatewayOK,
         UNCHANGED gateway \/ Gateway!Lose
           \/ \E c \in Clients : Gateway!Enroll(c) \/ Gateway!Revoke(c)
  PROVE  GatewayOK'
<1>1. MaxGens \in Nat
  BY AgentRequestsAssumption
<1> QED
  BY <1>1 DEF GatewayOK, gateway, Gens, Gateway!Lose, Gateway!Enroll, Gateway!Revoke

\* What can be asked for.
LEMMA BeginsTyped ==
  ASSUME TypeOK, NEW p \in Calls,
         \/ \E k \in Kinds, a \in Apps : Request(p, k, a)
         \/ \E i \in Ids : CancelRequest(p, i) \/ Execute(p, i) \/ OwnerApproves(p, i)
  PROVE  \E op \in Ops, i \in 0 .. MaxIds, g \in Gens, t \in Targets,
            to \in {"describe", "queue", "lock", "owner"} :
           /\ Begin(p, op, i, g, t, to)
           /\ op # "request" => i \in Ids
           /\ to = "lock" <=> op = "execute"
           /\ to = "owner" <=> op = "approve"
<1> USE AgentRequestsAssumption
<1>1. ASSUME NEW k \in Kinds, NEW a \in Apps, Request(p, k, a)
      PROVE  \E g \in Gens, t \in Targets : Begin(p, "request", 0, g, t, "describe")
  BY <1>1 DEF Request, Targets
<1>2. ASSUME NEW i \in Ids, CancelRequest(p, i)
      PROVE  \E g \in Gens, t \in Targets : Begin(p, "cancel", i, g, t, "queue")
  <2>1. rows[i].target \in Targets
    BY <1>2, RowTyped DEF CancelRequest, Rows
  <2>2. AnyTarget \in Targets
    BY <2>1 DEF AnyTarget
  <2> QED
    BY <1>2, <2>2 DEF CancelRequest
<1>3. ASSUME NEW i \in Ids, Execute(p, i)
      PROVE  \E g \in Gens, t \in Targets : Begin(p, "execute", i, g, t, "lock")
  BY <1>3, RowTyped DEF Execute, Rows
<1>4. ASSUME NEW i \in Ids, OwnerApproves(p, i)
      PROVE  \E g \in Gens, t \in Targets : Begin(p, "approve", i, g, t, "owner")
  BY <1>4, RowTyped DEF OwnerApproves, Rows
<1>5. 0 \in 0 .. MaxIds /\ Ids \subseteq 0 .. MaxIds
  BY DEF Ids
<1>6. {"request", "cancel", "execute", "approve"} \subseteq Ops
  BY DEF Ops
<1>7. CASE \E k \in Kinds, a \in Apps : Request(p, k, a)
  BY <1>1, <1>5, <1>6, <1>7
<1>8. CASE \E i \in Ids : CancelRequest(p, i)
  BY <1>2, <1>5, <1>6, <1>8
<1>9. CASE \E i \in Ids : Execute(p, i)
  BY <1>3, <1>5, <1>6, <1>9
<1>10. CASE \E i \in Ids : OwnerApproves(p, i)
  BY <1>4, <1>5, <1>6, <1>10
<1> QED
  BY <1>7, <1>8, <1>9, <1>10

-----------------------------------------------------------------------------
\* What the invariant says of the rows.

\* What a step may do to a row that no worker finishes: leave it, let it go, ask its
\* operation to stop, decide or claim it, or make it.
RowMoves(i) ==
  LET r == rows[i]  s == rows'[i] IN
  \/ s = r
  \/ s = NoRow
  \/ r.state = "running" /\ s = [r EXCEPT !.cancel = TRUE]
  \/ /\ r.state \in {"pending", "approved"}
     /\ s # NoRow /\ s.state \in {"approved", "running", "failed", "cancelled", "denied", "expired"}
     /\ s.gen = r.gen /\ s.target = r.target /\ Seen(s)
  \/ i = nextId /\ nextId' > i /\ s # NoRow /\ s.state = "pending"

LEMMA RowsKept ==
  ASSUME TypeOK, Inv, UNCHANGED done, nextId' \in Nat, nextId' >= nextId,
         \A i \in Ids : RowMoves(i)
  PROVE  /\ \A i \in Ids : Seen(rows'[i]) /\ Tells(i)'
         /\ \A q \in Calls : pc'[q] = pc[q] /\ call'[q] = call[q] => Works(q)'
<1>1. ASSUME NEW i \in Ids
      PROVE  Seen(rows'[i]) /\ Tells(i)'
  <2>1. RowMoves(i) /\ Seen(rows[i]) /\ Tells(i)
    BY DEF Inv
  <2>2. i \in Nat /\ nextId \in Nat
    BY DEF TypeOK, Ids
  <2>3. CASE rows[i].state = "running" /\ rows'[i] = [rows[i] EXCEPT !.cancel = TRUE]
    <3>1. rows[i] \in Rows
      BY <2>3, RowTyped
    <3> QED
      BY <2>1, <2>2, <2>3, <3>1 DEF Seen, Tells, Rows, NoRow
  <2>4. CASE ~(rows[i].state = "running" /\ rows'[i] = [rows[i] EXCEPT !.cancel = TRUE])
    BY <2>1, <2>2, <2>4 DEF Seen, Tells, RowMoves, NoRow
  <2> QED
    BY <2>3, <2>4
<1>2. ASSUME NEW q \in Calls, pc'[q] = pc[q], call'[q] = call[q], AtIt(q)
      PROVE  Works(q)'
  <2> DEFINE i == call[q].id
  <2>1. Works(q) /\ i \in Ids /\ i \in Nat /\ nextId \in Nat
    BY <1>2 DEF Inv, Knows, AtIt, TypeOK, Ids
  <2>2. RowMoves(i)
    BY <2>1
  <2>3. rows'[i] # NoRow => /\ rows'[i].state = "running" /\ rows[i] # NoRow
                            /\ rows'[i].gen = rows[i].gen /\ rows'[i].target = rows[i].target
    <3>1. rows[i] # NoRow => rows[i] \in Rows
      BY <2>1, RowTyped
    <3> QED
      BY <1>2, <2>1, <2>2, <3>1 DEF RowMoves, Works, Rows, NoRow
  <2> QED
    BY <1>2, <2>1, <2>3 DEF Works, AtIt
<1> QED
  BY <1>1, <1>2 DEF Works, AtIt

\* A step of call p keeps the invariant when the others keep their locks, and p
\* is at a request only if it was, or nobody is.
LEMMA Preserved ==
  ASSUME Inv, NEW p \in Calls,
         \A q \in Calls \ {p} : pc'[q] = pc[q] /\ call'[q] = call[q],
         \A a \in Apps, q \in Calls \ {p} : opLock[a] = q => opLock'[a] = q,
         TypeOK,
         \A i \in Ids : Seen(rows'[i]) /\ Tells(i)',
         \A q \in Calls \ {p} : Works(q)',
         Knows(p)', Holds(p)', Works(p)',
         AtIt(p)' => \A q \in Calls \ {p} : AtIt(q) => call[q].id # call'[p].id
  PROVE  Inv'
<1>1. ASSUME NEW q \in Calls \ {p}
      PROVE  Knows(q)' /\ Holds(q)'
  <2>1. Knows(q) /\ Holds(q)
    BY DEF Inv
  <2>2. call[q] \in CallRecords => call[q].target.app \in Apps
    BY DEF CallRecords, Targets
  <2> QED
    BY <2>1, <2>2 DEF Knows, Holds
<1>2. \A q, r \in Calls : AtIt(q)' /\ AtIt(r)' /\ call'[q].id = call'[r].id => q = r
  BY DEF Inv, AtIt
<1> QED
  BY <1>1, <1>2 DEF Inv

\* A call returns.
LEMMA Returned ==
  ASSUME TypeOK, Inv, NEW p \in Calls, Return(p),
         \A i \in Ids : Seen(rows'[i]) /\ Tells(i)',
         \A q \in Calls \ {p} : Works(q)'
  PROVE  Inv'
<1>1. pc'[p] = "idle" /\ \A q \in Calls \ {p} : pc'[q] = pc[q] /\ call'[q] = call[q]
  BY DEF Return, Goto, TypeOK
<1>2. \A a \in Apps, q \in Calls \ {p} : opLock[a] = q => opLock'[a] = q
  BY DEF Return
<1>3. Knows(p)' /\ Holds(p)' /\ Works(p)' /\ ~AtIt(p)'
  BY <1>1 DEF Knows, Holds, Works, AtIt
<1> QED
  BY <1>1, <1>2, <1>3, Preserved

\* Nothing happens to the rows.
LEMMA RowsStay ==
  ASSUME TypeOK, Inv, UNCHANGED <<rows, nextId, done>>
  PROVE  /\ \A i \in Ids : Seen(rows'[i]) /\ Tells(i)'
         /\ \A q \in Calls : pc'[q] = pc[q] /\ call'[q] = call[q] => Works(q)'
<1>1. \A i \in Ids : RowMoves(i)
  BY DEF RowMoves
<1>2. nextId \in Nat
  BY DEF TypeOK
<1> QED
  BY <1>1, <1>2, RowsKept


-----------------------------------------------------------------------------
\* The steps.

\* A call begins.
LEMMA BeginKept ==
  ASSUME TypeOK, Inv, NEW p \in Calls,
         \/ \E k \in Kinds, a \in Apps : Request(p, k, a)
         \/ \E i \in Ids : CancelRequest(p, i) \/ Execute(p, i) \/ OwnerApproves(p, i)
  PROVE  TypeOK' /\ Inv'
<1>1. PICK op \in Ops, i \in 0 .. MaxIds, g \in Gens, t \in Targets,
           to \in {"describe", "queue", "lock", "owner"} :
        /\ Begin(p, op, i, g, t, to)
        /\ op # "request" => i \in Ids
        /\ to = "lock" <=> op = "execute"
        /\ to = "owner" <=> op = "approve"
  BY BeginsTyped
<1>2. to \in Steps
  BY DEF Steps
<1>3. PICK c \in Clients :
        /\ pc' = [pc EXCEPT ![p] = to]
        /\ call' = [call EXCEPT ![p] = [op |-> op, client |-> c, gen |-> g, id |-> i,
                                       target |-> t, seen |-> Unseen]]
  BY <1>1, <1>2, BeginTypes
<1>4. TypeOK'
  BY <1>1, <1>2, BeginTypes
<1>5. UNCHANGED <<rows, nextId, installed, opLock, done>>
  BY <1>1 DEF Begin, Look, app
<1>6. /\ pc'[p] = to /\ call'[p].op = op /\ call'[p].id = i /\ call'[p] \in CallRecords
      /\ \A q \in Calls \ {p} : pc'[q] = pc[q] /\ call'[q] = call[q]
  BY <1>3 DEF TypeOK, CallRecords
<1>7. Knows(p)' /\ Holds(p)' /\ Works(p)' /\ ~AtIt(p)'
  BY <1>1, <1>6 DEF Knows, Holds, Works, AtIt
<1> QED
  BY <1>4, <1>5, <1>6, <1>7, RowsStay, Preserved

\* A section that looks at something, or takes the operation lock, or a token that is set.
LEMMA LookKept ==
  ASSUME TypeOK, GatewayOK, Inv, NEW p \in Calls,
         Owner(p) \/ LockOperation(p) \/ Describe(p) \/ Recheck(p) \/ Poll(p) \/ OutOfTime(p)
  PROVE  TypeOK' /\ Inv'
<1>0. /\ UNCHANGED <<rows, nextId, installed, version, done>>
      /\ \A q \in Calls \ {p} : pc'[q] = pc[q] /\ call'[q] = call[q]
  BY DEF Owner, LockOperation, Describe, Recheck, Poll, OutOfTime, Stop, Look, Goto, app, TypeOK
<1>1. pc[p] # "idle" /\ call[p] \in CallRecords /\ Knows(p) /\ Holds(p) /\ Works(p)
  BY DEF Owner, LockOperation, Describe, Recheck, Poll, OutOfTime, Stop, Inv, Knows
<1>2. CASE Owner(p)
  <2>1. [call[p] EXCEPT !.gen = cred[call[p].client]] \in CallRecords
    BY <1>1 DEF CallRecords, GatewayOK
  <2>2. pc' = [pc EXCEPT ![p] = "describe"] /\ UNCHANGED <<opLock, token>>
    BY <1>2 DEF Owner, Look, Goto
  <2>3. call' = [call EXCEPT ![p] = [call[p] EXCEPT !.gen = cred[call[p].client]]]
    BY <1>2 DEF Owner
  <2>4. TypeOK'
    BY <1>0, <2>1, <2>2, <2>3 DEF TypeOK, Steps
  <2>5. pc'[p] = "describe" /\ call'[p].op = "approve" /\ call'[p].id = call[p].id
        /\ call'[p] \in CallRecords
    BY <1>1, <1>2, <2>1, <2>2, <2>3 DEF Owner, Knows, TypeOK, CallRecords
  <2>6. Knows(p)' /\ Holds(p)' /\ Works(p)' /\ ~AtIt(p)'
    BY <1>1, <1>2, <2>5 DEF Owner, Knows, Holds, Works, AtIt
  <2> QED
    BY <1>0, <2>2, <2>4, <2>6, RowsStay, Preserved
<1>3. CASE LockOperation(p)
  <2>1. /\ pc[p] = "lock" /\ opLock[call[p].target.app] = NoCall /\ NoCall \notin Calls
        /\ opLock' = [opLock EXCEPT ![call[p].target.app] = p]
        /\ pc' = [pc EXCEPT ![p] = "describe"] /\ UNCHANGED <<call, token>>
    BY <1>3, AgentRequestsAssumption DEF LockOperation, Goto
  <2>2. call[p].target.app \in Apps
    BY <1>1 DEF CallRecords, Targets
  <2>3. TypeOK'
    BY <1>0, <2>1 DEF TypeOK, Steps
  <2>4. Knows(p)' /\ Holds(p)' /\ Works(p)' /\ ~AtIt(p)'
    BY <1>1, <2>1, <2>2 DEF Knows, Holds, Works, AtIt, TypeOK
  <2>5. \A a \in Apps, q \in Calls \ {p} : opLock[a] = q => opLock'[a] = q
    BY <2>1 DEF TypeOK
  <2> QED
    BY <1>0, <2>3, <2>4, <2>5, RowsStay, Preserved
<1>4. CASE Describe(p)
  <2> DEFINE t == call[p].target
             to == IF call[p].op = "execute" THEN "recheck" ELSE "queue"
             d == [call[p] EXCEPT !.target = [t EXCEPT !.version = version[t.app]]]
  <2>1. t \in Targets
    BY <1>1 DEF CallRecords
  <2>2. [t EXCEPT !.version = version[t.app]] \in Targets
    BY <2>1 DEF Targets, TypeOK
  <2>3. /\ d \in CallRecords /\ d.op = call[p].op /\ d.id = call[p].id
        /\ d.target.app = t.app /\ d.target.kind = t.kind
    BY <1>1, <2>1, <2>2 DEF CallRecords, Targets
  <2>4. /\ pc[p] = "describe"
        /\ pc' = [pc EXCEPT ![p] = to] /\ UNCHANGED <<opLock, token>>
    BY <1>4 DEF Describe, Look, Goto
  <2>5. call' = [call EXCEPT ![p] = d]
    BY <1>4, <1>1 DEF Describe, TypeOK, CallRecords
  <2> HIDE DEF d
  <2>6. TypeOK'
    BY <1>0, <2>3, <2>4, <2>5 DEF TypeOK, Steps
  <2>7. pc'[p] = to /\ call'[p] = d
    BY <2>4, <2>5 DEF TypeOK
  <2>8. Knows(p)' /\ Works(p)' /\ ~AtIt(p)'
    BY <1>1, <2>3, <2>4, <2>7 DEF Knows, Works, AtIt
  <2>9. Holds(p)'
    BY <1>0, <1>1, <2>3, <2>4, <2>7 DEF Holds
  <2> QED
    BY <1>0, <2>4, <2>6, <2>7, <2>8, <2>9, RowsStay, Preserved
<1>5. CASE Recheck(p)
  <2>1. /\ pc[p] = "recheck" /\ pc' = [pc EXCEPT ![p] = "queue"]
        /\ UNCHANGED <<call, opLock, token>>
    BY <1>5 DEF Recheck, Look, Goto
  <2>2. TypeOK'
    BY <1>0, <2>1 DEF TypeOK, Steps
  <2>3. Knows(p)' /\ Holds(p)' /\ Works(p)' /\ ~AtIt(p)'
    BY <1>0, <1>1, <2>1 DEF Knows, Holds, Works, AtIt, TypeOK
  <2> QED
    BY <1>0, <2>1, <2>2, <2>3, RowsStay, Preserved
<1>6. CASE Poll(p) \/ OutOfTime(p)
  <2>1. /\ UNCHANGED <<pc, call, opLock>> /\ token' = [token EXCEPT ![p] = TRUE]
    BY <1>6 DEF Poll, OutOfTime, Stop
  <2>2. TypeOK'
    BY <1>0, <2>1 DEF TypeOK
  <2>3. Knows(p)' /\ Holds(p)'
    BY <1>0, <1>1, <2>1 DEF Knows, Holds
  <2>4. AtIt(p)' => \A q \in Calls \ {p} : AtIt(q) => call[q].id # call'[p].id
    BY <2>1 DEF Inv, AtIt
  <2> QED
    BY <1>0, <2>1, <2>2, <2>3, <2>4, RowsStay, Preserved
<1> QED
  BY <1>2, <1>3, <1>4, <1>5, <1>6


\* A call that changes rows and returns.
LEMMA ReturnKept ==
  ASSUME TypeOK, Inv, NEW p \in Calls, Return(p), UNCHANGED <<installed, version, done>>,
         rows' \in [Ids -> Rows \union {NoRow}],
         nextId' \in 1 .. MaxIds + 1, nextId' >= nextId,
         \A i \in Ids : RowMoves(i)
  PROVE  TypeOK' /\ Inv'
<1>1. TypeOK'
  BY ReturnTypes DEF TypeOK
<1>2. nextId' \in Nat
  BY DEF TypeOK
<1>3. \A q \in Calls \ {p} : pc'[q] = pc[q] /\ call'[q] = call[q]
  BY DEF Return, Goto, TypeOK
<1>4. /\ \A i \in Ids : Seen(rows'[i]) /\ Tells(i)'
      /\ \A q \in Calls \ {p} : Works(q)'
  BY <1>2, <1>3, RowsKept
<1> QED
  BY <1>1, <1>4, Returned

\* A row that is added, in the place of a closed one or not.
LEMMA SubmitRows ==
  ASSUME TypeOK, Inv, NEW p \in Calls, Submit(p)
  PROVE  /\ rows' \in [Ids -> Rows \union {NoRow}] /\ nextId' \in 1 .. MaxIds + 1
         /\ nextId \in Ids /\ nextId' = nextId + 1
         /\ rows'[nextId].state = "pending" /\ rows'[nextId] # NoRow
         /\ \A i \in Ids \ {nextId} : rows'[i] \in {rows[i], NoRow}
         /\ Return(p) /\ UNCHANGED <<app, done>>
<1> DEFINE new == [client |-> call[p].client, gen |-> call[p].gen, target |-> call[p].target,
                   state |-> "pending", cancel |-> FALSE, seen |-> Unseen]
<1>1. nextId \in Ids /\ nextId' = nextId + 1 /\ Return(p) /\ UNCHANGED <<app, done>>
  BY DEF Submit, MaySubmit, InQueue
<1>2. call[p] \in CallRecords
  BY DEF Submit, InQueue, Inv, Knows
<1>3. new \in Rows /\ new # NoRow /\ new.state = "pending"
  BY <1>2 DEF Rows, CallRecords, NoRow
<1>4. rows' = [Evict(rows) EXCEPT ![nextId] = new]
  BY DEF Submit
<1> HIDE DEF new
<1>5. /\ Evict(rows) \in [Ids -> Rows \union {NoRow}]
      /\ \A i \in Ids : Evict(rows)[i] \in {rows[i], NoRow}
  BY DEF Evict, TypeOK
<1>6. nextId' \in 1 .. MaxIds + 1
  BY <1>1, AgentRequestsAssumption DEF Ids
<1> QED
  BY <1>1, <1>3, <1>4, <1>5, <1>6

\* One row is changed by the call that has it, which returns.
LEMMA ChangeKept ==
  ASSUME TypeOK, Inv, NEW p \in Calls, NEW i \in Ids, NEW r \in Rows,
         ChangeRow(p, i, r), UNCHANGED app, rows'[i] = r => RowMoves(i)
  PROVE  TypeOK' /\ Inv'
<1>1. rows' = [rows EXCEPT ![i] = r] /\ Return(p) /\ UNCHANGED <<nextId, done, installed, version>>
  BY DEF ChangeRow, app
<1>2. \A j \in Ids : RowMoves(j)
  BY <1>1 DEF RowMoves, TypeOK
<1>3. rows' \in [Ids -> Rows \union {NoRow}] /\ nextId \in 1 .. MaxIds + 1 /\ nextId >= nextId
  BY <1>1 DEF TypeOK
<1> QED
  BY <1>1, <1>2, <1>3, ReturnKept

\* The sections of the queue that return.
LEMMA QueueKept ==
  ASSUME TypeOK, Inv, NEW p \in Calls,
         Submit(p) \/ Decide(p) \/ Cancel(p) \/ ClaimFails(p) \/ Fail(p)
  PROVE  TypeOK' /\ Inv'
<1> DEFINE i == call[p].id  r == rows[i]
<1>0. call[p] \in CallRecords /\ Knows(p)
  BY DEF Submit, Decide, Cancel, ClaimFails, Fail, InQueue, Inv, Knows
<1>1. CASE Submit(p)
  <2>1. \A j \in Ids : RowMoves(j)
    BY <1>1, SubmitRows DEF RowMoves, Ids
  <2>2. nextId' >= nextId
    BY <1>1, SubmitRows DEF Ids
  <2> QED
    BY <1>1, <2>1, <2>2, SubmitRows, ReturnKept DEF app
<1>2. CASE Decide(p)
  <2> DEFINE s == [r EXCEPT !.state = "approved",
                            !.seen = [gen |-> call[p].gen, target |-> call[p].target]]
  <2>1. /\ r.state = "pending" /\ r.gen = call[p].gen /\ r.target = call[p].target
        /\ ChangeRow(p, i, s) /\ UNCHANGED app /\ pc[p] = "queue" /\ call[p].op = "approve"
    BY <1>2 DEF Decide, InQueue, AsAsked
  <2>2. i \in Ids /\ r \in Rows
    BY <1>0, <2>1, RowTyped DEF Knows
  <2>3. [gen |-> call[p].gen, target |-> call[p].target] \in Views
    BY <1>0 DEF Views, CallRecords
  <2>4. s \in Rows /\ s # NoRow /\ s.state = "approved" /\ s.gen = r.gen /\ s.target = r.target
        /\ Seen(s)
    BY <2>1, <2>2, <2>3 DEF Rows, NoRow, Seen
  <2> HIDE DEF s
  <2>5. rows'[i] = s => RowMoves(i)
    BY <2>1, <2>4 DEF RowMoves
  <2> QED
    BY <2>1, <2>2, <2>4, <2>5, ChangeKept
<1>3. CASE Cancel(p)
  <2> DEFINE s == Cancelled(r)
  <2>1. r # NoRow /\ ChangeRow(p, i, s) /\ UNCHANGED app /\ pc[p] = "queue" /\ call[p].op = "cancel"
    BY <1>3 DEF Cancel, InQueue
  <2>2. i \in Ids /\ r \in Rows
    BY <1>0, <2>1, RowTyped DEF Knows
  <2>3. /\ s \in Rows /\ s # NoRow /\ s.gen = r.gen /\ s.target = r.target
        /\ r.state \in {"pending", "approved"} => s.state = "cancelled"
        /\ r.state = "running" => s = [r EXCEPT !.cancel = TRUE]
        /\ r.state \notin {"pending", "approved", "running"} => s = r
    BY <2>2 DEF Cancelled, Rows, NoRow, Final
  <2> HIDE DEF s
  <2>5. rows'[i] = s => RowMoves(i)
    BY <2>3 DEF RowMoves, Seen
  <2> QED
    BY <2>1, <2>2, <2>3, <2>5, ChangeKept
<1>4. CASE ClaimFails(p)
  <2>1. PICK state \in {"failed", "running"} : ChangeRow(p, i, [r EXCEPT !.state = state])
    BY <1>4 DEF ClaimFails
  <2> DEFINE s == [r EXCEPT !.state = state]
  <2>2. r.state = "approved" /\ UNCHANGED app /\ pc[p] = "queue" /\ call[p].op = "execute"
    BY <1>4 DEF ClaimFails, InQueue, Claimable
  <2>3. i \in Ids /\ r \in Rows /\ Seen(r)
    BY <1>0, <2>2, RowTyped DEF Knows, Inv
  <2>4. /\ s \in Rows /\ s # NoRow /\ s.gen = r.gen /\ s.target = r.target
        /\ s.state = state /\ Seen(s)
    BY <2>2, <2>3 DEF Rows, NoRow, Seen, Final
  <2>5. rows'[i] = s => RowMoves(i)
    BY <2>2, <2>4 DEF RowMoves
  <2> HIDE DEF s
  <2> QED
    BY <2>1, <2>2, <2>3, <2>4, <2>5, ChangeKept DEF s
<1>5. CASE Fail(p)
  <2>1. Return(p) /\ UNCHANGED <<rows, nextId, installed, version, done>>
    BY <1>5 DEF Fail, app
  <2>2. \A j \in Ids : RowMoves(j)
    BY <2>1 DEF RowMoves
  <2>3. rows \in [Ids -> Rows \union {NoRow}] /\ nextId \in 1 .. MaxIds + 1 /\ nextId >= nextId
    BY DEF TypeOK
  <2> QED
    BY <2>1, <2>2, <2>3, ReturnKept
<1> QED
  BY <1>1, <1>2, <1>3, <1>4, <1>5


\* The claim: what was approved is what the caller asked to execute.
LEMMA ClaimKept ==
  ASSUME TypeOK, Inv, NEW p \in Calls, Claim(p)
  PROVE  TypeOK' /\ Inv'
<1> DEFINE i == call[p].id  r == rows[i]  s == [r EXCEPT !.state = "running"]
           c == [call[p] EXCEPT !.seen = r.seen]
<1>1. /\ pc[p] = "queue" /\ call[p].op = "execute" /\ UNCHANGED <<installed, version>>
      /\ r.state = "approved" /\ r.gen = call[p].gen /\ r.target = call[p].target
      /\ rows' = [rows EXCEPT ![i].state = "running"] /\ call' = [call EXCEPT ![p].seen = r.seen]
      /\ pc' = [pc EXCEPT ![p] = "working"] /\ UNCHANGED <<nextId, opLock, token, done>>
  BY DEF Claim, InQueue, Claimable, Goto, app
<1>2. call[p] \in CallRecords /\ Knows(p) /\ Holds(p) /\ i \in Ids
  BY <1>1 DEF Inv, Knows
<1>3. r \in Rows /\ r # NoRow /\ Seen(r) /\ Tells(i)
  BY <1>1, <1>2, RowTyped DEF Inv
<1>4. rows' = [rows EXCEPT ![i] = s] /\ call' = [call EXCEPT ![p] = c]
  BY <1>1
<1>5. /\ s \in Rows /\ s # NoRow /\ s.state = "running" /\ s.gen = r.gen
      /\ s.target = r.target /\ s.seen = r.seen
  BY <1>3 DEF Rows, NoRow
<1>6. /\ c \in CallRecords /\ c.op = "execute" /\ c.id = i /\ c.gen = call[p].gen
      /\ c.target = call[p].target /\ c.seen = r.seen
  BY <1>1, <1>2, <1>3 DEF CallRecords, Rows
<1>7. r.seen = [gen |-> r.gen, target |-> r.target]
  BY <1>1, <1>3 DEF Seen
<1> HIDE DEF s, c
<1>8. TypeOK'
  BY <1>1, <1>4, <1>5, <1>6 DEF TypeOK, Steps
<1>9. \A j \in Ids : RowMoves(j)
  BY <1>1, <1>4, <1>5, <1>7 DEF RowMoves, TypeOK, Seen
<1>10. pc'[p] = "working" /\ call'[p] = c /\ rows'[i] = s
       /\ \A q \in Calls \ {p} : pc'[q] = pc[q] /\ call'[q] = call[q]
  BY <1>1, <1>2, <1>4 DEF TypeOK
<1>11. nextId \in Nat
  BY DEF TypeOK
<1>12. /\ \A j \in Ids : Seen(rows'[j]) /\ Tells(j)'
       /\ \A q \in Calls \ {p} : Works(q)'
  BY <1>1, <1>9, <1>10, <1>11, RowsKept
<1>13. Knows(p)' /\ Holds(p)'
  BY <1>1, <1>2, <1>6, <1>10 DEF Knows, Holds
<1>14. Works(p)'
  BY <1>1, <1>3, <1>5, <1>6, <1>7, <1>10 DEF Works, Tells
<1>15. \A q \in Calls \ {p} : AtIt(q) => call[q].id # i
  BY <1>1, <1>3 DEF Inv, Works
<1> QED
  BY <1>1, <1>6, <1>8, <1>10, <1>12, <1>13, <1>14, <1>15, Preserved

\* The worker is through, well or not.
LEMMA WorkKept ==
  ASSUME TypeOK, Inv, NEW p \in Calls, NEW well \in BOOLEAN, WorkEnds(p, well)
  PROVE  TypeOK' /\ Inv'
<1> DEFINE i == call[p].id  t == call[p].target
<1>1. /\ pc[p] = "working" /\ pc' = [pc EXCEPT ![p] = "finish"]
      /\ done' = (IF well THEN done \union {i} ELSE done)
      /\ installed' = IF well THEN [installed EXCEPT ![t.app] = (t.kind = "install")] ELSE installed
      /\ opLock' = [opLock EXCEPT ![t.app] = NoCall]
      /\ UNCHANGED <<rows, nextId, version, call, token>>
  BY DEF WorkEnds, Goto
<1>2. /\ call[p] \in CallRecords /\ Knows(p) /\ Holds(p) /\ Works(p) /\ i \in Ids
      /\ t.app \in Apps /\ call[p].op = "execute" /\ opLock[t.app] = p
  BY <1>1 DEF Inv, Knows, Holds, CallRecords, Targets
<1>3. TypeOK'
  BY <1>1, <1>2 DEF TypeOK, Steps
<1>4. /\ pc'[p] = "finish" /\ call'[p] = call[p]
      /\ \A q \in Calls \ {p} : pc'[q] = pc[q] /\ call'[q] = call[q]
  BY <1>1 DEF TypeOK
<1>5. \A a \in Apps, q \in Calls \ {p} : opLock[a] = q => opLock'[a] = q
  BY <1>1, <1>2 DEF TypeOK
<1>6. ASSUME NEW j \in Ids
      PROVE  Seen(rows'[j]) /\ Tells(j)'
  <2>1. Seen(rows[j]) /\ Tells(j)
    BY DEF Inv
  <2>2. i < nextId /\ (rows[i] = NoRow \/ rows[i].state = "running")
    BY <1>1, <1>2 DEF Works, AtIt
  <2> QED
    BY <1>1, <2>1, <2>2 DEF Tells
<1>7. \A q \in Calls : Works(q)'
  BY <1>1, <1>2, <1>4 DEF Inv, Works, AtIt
<1>8. Knows(p)' /\ Holds(p)'
  BY <1>2, <1>4 DEF Knows, Holds
<1>9. \A q \in Calls \ {p} : AtIt(q) => call[q].id # i
  BY <1>1 DEF Inv, AtIt
<1> QED
  BY <1>3, <1>4, <1>5, <1>6, <1>7, <1>8, <1>9, Preserved

\* The outcome is written to the row, which is the worker's alone.
LEMMA FinishKept ==
  ASSUME TypeOK, Inv, NEW p \in Calls, FinishRow(p)
  PROVE  TypeOK' /\ Inv'
<1> DEFINE i == call[p].id  r == rows[i]
<1>1. PICK state \in IF i \in done THEN {"succeeded"}
                     ELSE {"failed"} \union (IF token[p] THEN {"cancelled"} ELSE {}) :
        ChangeRow(p, i, [r EXCEPT !.state = state])
  BY DEF FinishRow
<1> DEFINE s == [r EXCEPT !.state = state]
<1>2. /\ pc[p] = "finish" /\ r.state = "running" /\ rows' = [rows EXCEPT ![i] = s] /\ Return(p)
      /\ UNCHANGED <<nextId, done, installed, version>>
  BY <1>1 DEF FinishRow, ChangeRow, app
<1>3. i \in Ids /\ r \in Rows /\ Tells(i)
  BY <1>2, RowTyped DEF Inv, Knows
<1>4. s \in Rows /\ s # NoRow /\ s.state = state
      /\ state \in {"succeeded", "failed", "cancelled"} /\ (state = "succeeded" <=> i \in done)
  BY <1>1, <1>3 DEF Rows, NoRow, Final
<1> HIDE DEF s
<1>5. TypeOK'
  BY <1>2, <1>4, ReturnTypes DEF TypeOK
<1>6. rows'[i] = s /\ \A j \in Ids \ {i} : rows'[j] = rows[j]
  BY <1>2, <1>3 DEF TypeOK
<1>7. ASSUME NEW j \in Ids
      PROVE  Seen(rows'[j]) /\ Tells(j)'
  BY <1>2, <1>3, <1>4, <1>6 DEF Inv, Seen, Tells, NoRow
<1>8. ASSUME NEW q \in Calls \ {p}
      PROVE  Works(q)'
  <2>1. pc'[q] = pc[q] /\ call'[q] = call[q]
    BY <1>2 DEF Return, Goto, TypeOK
  <2>2. AtIt(q) => call[q].id # i /\ call[q].id \in Ids
    BY <1>2 DEF Inv, AtIt, Knows
  <2> QED
    BY <1>2, <1>6, <2>1, <2>2 DEF Inv, Works, AtIt
<1> QED
  BY <1>2, <1>5, <1>7, <1>8, Returned

\* The file is lost.
LEMMA LoseKept ==
  ASSUME TypeOK, Inv, NEW p \in Calls, LoseRows(p)
  PROVE  TypeOK' /\ Inv'
<1>1. /\ rows' = [i \in Ids |-> NoRow] /\ UNCHANGED <<nextId, done, installed, version>>
  BY DEF LoseRows, app
<1>2. /\ \A i \in Ids : RowMoves(i)
      /\ rows' \in [Ids -> Rows \union {NoRow}]
      /\ nextId \in 1 .. MaxIds + 1 /\ nextId >= nextId /\ nextId \in Nat
  BY <1>1 DEF RowMoves, TypeOK
<1>3. CASE pc[p] = "working"
  <2>1. UNCHANGED <<pc, call, token, opLock>>
    BY <1>3 DEF LoseRows
  <2>2. TypeOK'
    BY <1>1, <1>2, <2>1 DEF TypeOK
  <2>3. /\ \A i \in Ids : Seen(rows'[i]) /\ Tells(i)'
        /\ \A q \in Calls : Works(q)'
    BY <1>1, <1>2, <2>1, RowsKept
  <2> QED
    BY <1>1, <2>1, <2>2, <2>3 DEF Inv, Knows, Holds, AtIt
<1>4. CASE pc[p] # "working"
  BY <1>1, <1>2, <1>4, ReturnKept DEF LoseRows
<1> QED
  BY <1>3, <1>4

\* What the owner does, what runs out, and what changes by itself.
LEMMA OthersKept ==
  ASSUME TypeOK, Inv,
         \/ \E i \in Ids : Expire(i) \/ Deny(i)
         \/ \E a \in Apps : OwnerChanges(a) \/ Drift(a)
         \/ EnrolmentChanges
         \/ UNCHANGED vars
  PROVE  TypeOK' /\ Inv'
<1>1. ASSUME NEW i \in Ids, Expire(i) \/ Deny(i)
      PROVE  TypeOK' /\ Inv'
  <2>1. PICK state \in {"expired", "denied"} :
          /\ rows' = [rows EXCEPT ![i].state = state] /\ rows[i].state \in {"pending", "approved"}
          /\ UNCHANGED <<nextId, installed, version, opLock, pc, call, token, done>>
    BY <1>1 DEF Expire, Deny, app
  <2> DEFINE s == [rows[i] EXCEPT !.state = state]
  <2>2. rows[i] \in Rows
    BY <2>1, RowTyped
  <2>3. /\ s \in Rows /\ s # NoRow /\ s.state = state /\ s.gen = rows[i].gen
        /\ s.target = rows[i].target
    BY <2>2 DEF Rows, NoRow, Final
  <2>4. rows' = [rows EXCEPT ![i] = s]
    BY <2>1
  <2> HIDE DEF s
  <2>5. TypeOK'
    BY <2>1, <2>3, <2>4 DEF TypeOK
  <2>6. \A j \in Ids : RowMoves(j)
    BY <2>1, <2>3, <2>4 DEF RowMoves, TypeOK, Seen
  <2>7. nextId \in Nat
    BY DEF TypeOK
  <2>8. /\ \A j \in Ids : Seen(rows'[j]) /\ Tells(j)'
        /\ \A q \in Calls : Works(q)'
    BY <2>1, <2>6, <2>7, RowsKept
  <2> QED
    BY <2>1, <2>5, <2>8 DEF Inv, Knows, Holds, AtIt
<1>2. ASSUME NEW a \in Apps, OwnerChanges(a)
      PROVE  TypeOK' /\ Inv'
  <2>1. /\ installed' = [installed EXCEPT ![a] = ~installed[a]]
        /\ UNCHANGED <<rows, nextId, version, opLock, pc, call, token, done>>
    BY <1>2 DEF OwnerChanges
  <2>2. TypeOK'
    BY <2>1 DEF TypeOK
  <2> QED
    BY <2>1, <2>2 DEF Inv, Knows, Holds, Works, Tells, AtIt
<1>3. CASE (\E a \in Apps : Drift(a)) \/ EnrolmentChanges \/ UNCHANGED vars
  <2>1. /\ UNCHANGED <<rows, nextId, installed, opLock, pc, call, token, done>>
        /\ version' = version \/ \E a \in Apps, v \in 0 .. MaxVersion : version' = [version EXCEPT ![a] = v]
    BY <1>3 DEF Drift, EnrolmentChanges, vars, requestVars, app
  <2>2. TypeOK'
    BY <2>1 DEF TypeOK
  <2> QED
    BY <2>1, <2>2 DEF Inv, Knows, Holds, Works, Tells, AtIt
<1> QED
  BY <1>1, <1>2, <1>3

-----------------------------------------------------------------------------
\* The invariant.

\* Every call starts idle, on a file without rows.
LEMMA InitHolds ==
  ASSUME Init
  PROVE  IInv
<1>1. TypeOK
  BY AgentRequestsAssumption DEF Init, RequestsInit, TypeOK, Steps
<1>2. GatewayOK
  BY AgentRequestsAssumption DEF Init, Gateway!Init, GatewayOK, Gens
<1>3. Inv
  BY DEF Init, RequestsInit, Inv, Knows, Holds, Works, AtIt, Seen, Tells, NoRow, Idle
<1> QED
  BY <1>1, <1>2, <1>3 DEF IInv

\* Every step keeps the invariant.
LEMMA NextKeeps ==
  ASSUME IInv, [Next]_vars
  PROVE  IInv'
<1> USE DEF IInv
<1>1. GatewayOK'
  <2>1. UNCHANGED gateway \/ EnrolmentChanges
    <3>1. ASSUME NEW p \in Calls, Step(p)
          PROVE  UNCHANGED gateway
      <4>1. CASE \/ \E k \in Kinds, a \in Apps : Request(p, k, a)
                 \/ \E i \in Ids : CancelRequest(p, i) \/ Execute(p, i) \/ OwnerApproves(p, i)
        BY <4>1 DEF Request, CancelRequest, Execute, OwnerApproves, Begin, Look
      <4>2. CASE Owner(p) \/ LockOperation(p) \/ Describe(p) \/ Recheck(p) \/ Poll(p) \/ OutOfTime(p)
        BY <4>2 DEF Owner, LockOperation, Describe, Recheck, Poll, OutOfTime, Stop, Look
      <4>3. CASE \/ Submit(p) \/ Decide(p) \/ Cancel(p) \/ Claim(p) \/ ClaimFails(p)
        BY <4>3 DEF Submit, Decide, Cancel, Claim, ClaimFails, InQueue, Look
      <4>4. CASE Work(p) \/ WindDown(p) \/ FinishRow(p) \/ Fail(p) \/ LoseRows(p)
        BY <4>4 DEF Work, WindDown, WorkEnds, FinishRow, Fail, LoseRows, Look
      <4> QED
        BY <3>1, <4>1, <4>2, <4>3, <4>4 DEF Step
    <3>2. CASE \/ \E i \in Ids : Expire(i) \/ Deny(i)
               \/ \E a \in Apps : OwnerChanges(a) \/ Drift(a)
               \/ UNCHANGED vars
      BY <3>2 DEF Expire, Deny, OwnerChanges, Drift, vars
    <3> QED
      BY <3>1, <3>2 DEF Next, RequestsNext
  <2> QED
    BY <2>1, GatewayTypes DEF EnrolmentChanges
<1>2. ASSUME NEW p \in Calls, Step(p)
      PROVE  TypeOK' /\ Inv'
  <2>1. CASE \/ \E k \in Kinds, a \in Apps : Request(p, k, a)
             \/ \E i \in Ids : CancelRequest(p, i) \/ Execute(p, i) \/ OwnerApproves(p, i)
    BY <2>1, BeginKept
  <2>2. CASE Owner(p) \/ LockOperation(p) \/ Describe(p) \/ Recheck(p) \/ Poll(p) \/ OutOfTime(p)
    BY <2>2, LookKept
  <2>3. CASE Submit(p) \/ Decide(p) \/ Cancel(p) \/ ClaimFails(p) \/ Fail(p)
    BY <2>3, QueueKept
  <2>4. CASE Claim(p)
    BY <2>4, ClaimKept
  <2>5. CASE Work(p) \/ WindDown(p)
    BY <2>5, WorkKept DEF Work, WindDown
  <2>6. CASE FinishRow(p)
    BY <2>6, FinishKept
  <2>7. CASE LoseRows(p)
    BY <2>7, LoseKept
  <2> QED
    BY <1>2, <2>1, <2>2, <2>3, <2>4, <2>5, <2>6, <2>7 DEF Step
<1>3. CASE \/ \E i \in Ids : Expire(i) \/ Deny(i)
           \/ \E a \in Apps : OwnerChanges(a) \/ Drift(a)
           \/ EnrolmentChanges
           \/ UNCHANGED vars
  BY <1>1, <1>3, OthersKept
<1> QED
  BY <1>1, <1>2, <1>3 DEF Next, RequestsNext

LEMMA Invariant == Spec => []IInv
<1>1. Init => IInv
  BY InitHolds
<1>2. IInv /\ [Next]_vars => IInv'
  BY NextKeeps
<1> QED
  BY <1>1, <1>2, PTL DEF Spec

\* Every step keeps the types of the file, of the calls and of the enrolments.
THEOREM RequestsTypeOK == Spec => [](TypeOK /\ GatewayOK)
<1>1. IInv => TypeOK /\ GatewayOK
  BY DEF IInv
<1> QED
  BY <1>1, Invariant, PTL

\* Whoever asks, approves, cancels, revokes, dies or loses the file meanwhile: a worker
\* carries out what the owner saw when he approved, under the app's operation lock.
THEOREM ApprovedIsExact == Spec => []ExactlyApproved
<1>1. IInv => ExactlyApproved
  BY DEF IInv, Inv, ExactlyApproved, Works, Holds, Knows, AtIt
<1> QED
  BY <1>1, Invariant, PTL

\* A closed row tells what became of the app, through every failure and crash.
THEOREM RowsAreTrue == Spec => []RowsTellTheTruth
<1>1. IInv => RowsTellTheTruth
  BY DEF IInv, Inv, Tells, RowsTellTheTruth, NoRow, Final
<1> QED
  BY <1>1, Invariant, PTL


-----------------------------------------------------------------------------
\* The rows implement the approvals.

Same(i) == Progress(i)' = Progress(i)
Ends(i) == Progress(i) # "free" /\ Progress(i)' = "closed"
Goes(i, from, to) == Progress(i) = from /\ Progress(i)' = to

LEMMA Staged == \A i \in Ids : Progress(i) \in Approval!Stages
  BY DEF Progress, Approval!Stages

\* Requests that end, and none that goes on.
LEMMA OthersMap ==
  ASSUME \A i \in Ids : Same(i) \/ Ends(i)
  PROVE  Approval!Next
<1>1. \A i \in Ids : Progress(i)' \in Approval!Stages
  BY DEF Progress, Approval!Stages
<1> QED
  BY <1>1 DEF Approval!Next, Approval!Others, Approval!Close, Same, Ends

\* One request goes on, and others may end.
LEMMA OneMaps ==
  ASSUME NEW j \in Ids,
         Goes(j, "free", "asked") \/ Goes(j, "asked", "approved") \/ Goes(j, "approved", "used"),
         \A i \in Ids \ {j} : Same(i) \/ Ends(i)
  PROVE  Approval!Next
<1>1. \A i \in Ids : Progress(i)' \in Approval!Stages
  BY DEF Progress, Approval!Stages
<1>2. Approval!Step(j)
  BY DEF Approval!Step, Approval!Become, Goes
<1>3. Approval!Others(Ids \ {j})
  BY DEF Approval!Others, Approval!Close, Same, Ends
<1> QED
  BY <1>1, <1>2, <1>3 DEF Approval!Next

\* A row that stays, or goes, and an id that was used or not before and after.
LEMMA RowMaps ==
  ASSUME IInv, NEW i \in Ids, rows'[i] \in {rows[i], NoRow},
         i >= nextId <=> i >= nextId'
  PROVE  Same(i) \/ Ends(i)
<1>1. Tells(i)
  BY DEF IInv, Inv
<1>2. i \in Nat /\ nextId \in Nat
  BY DEF IInv, TypeOK, Ids
<1> QED
  BY <1>1, <1>2 DEF Tells, Same, Ends, Progress, NoRow

\* A row whose state changes.
LEMMA StateMaps ==
  ASSUME IInv, NEW i \in Ids, rows[i] # NoRow, rows'[i] # NoRow, UNCHANGED nextId,
         rows[i].state \in {"pending", "approved", "running"}
  PROVE  LET from == rows[i].state  to == rows'[i].state IN
         /\ to = from => Same(i)
         /\ from = "pending" /\ to = "approved" => Goes(i, "asked", "approved")
         /\ from = "approved" /\ to = "running" => Goes(i, "approved", "used")
         /\ from = "running" /\ to = "succeeded" => Same(i)
         /\ to \in {"failed", "cancelled", "denied", "expired"} => Ends(i)
<1>1. Tells(i)
  BY DEF IInv, Inv
<1>2. i \in Nat /\ nextId \in Nat /\ ~(i >= nextId)
  BY <1>1 DEF IInv, TypeOK, Ids, Tells
<1> QED
  BY <1>2 DEF Same, Ends, Goes, Progress

\* Every step maps to a step, or to none.
LEMMA StepMaps ==
  ASSUME IInv, Next
  PROVE  Approval!Next
<1> DEFINE Rest(i) == \A j \in Ids \ {i} : Same(j) \/ Ends(j)
<1>1. ASSUME NEW i \in Ids, NEW r, rows' = [rows EXCEPT ![i] = r], UNCHANGED nextId
      PROVE  rows'[i] = r /\ Rest(i)
  <2>1. \A j \in Ids \ {i} : rows'[j] = rows[j]
    BY <1>1 DEF IInv, TypeOK
  <2> QED
    BY <1>1, <2>1, RowMaps DEF IInv, TypeOK
<1>2. ASSUME NEW i \in Ids, NEW state, rows' = [rows EXCEPT ![i].state = state], UNCHANGED nextId,
             \/ rows[i].state \in {"pending", "approved", "running"}
                /\ state \in {"failed", "cancelled", "denied", "expired"}
             \/ rows[i].state = "approved" /\ state = "running"
             \/ rows[i].state = "running" /\ state = "succeeded"
      PROVE  Approval!Next
  <2> DEFINE r == [rows[i] EXCEPT !.state = state]
  <2>1. rows[i] # NoRow /\ rows[i] \in Rows
    BY <1>2, RowTyped DEF IInv
  <2>2. r # NoRow /\ r.state = state
    BY <1>2, <2>1 DEF Rows, NoRow
  <2>3. rows' = [rows EXCEPT ![i] = r]
    BY <1>2
  <2> HIDE DEF r
  <2>4. rows'[i] = r /\ Rest(i)
    BY <1>1, <1>2, <2>3
  <2> QED
    BY <1>2, <2>1, <2>2, <2>4, StateMaps, OneMaps, OthersMap
<1>3. ASSUME NEW p \in Calls, Submit(p)
      PROVE  Approval!Next
  <2>1. PICK j \in Ids : /\ j = nextId /\ nextId' = j + 1 /\ rows'[j].state = "pending"
                         /\ \A i \in Ids \ {j} : rows'[i] \in {rows[i], NoRow}
    BY <1>3, SubmitRows DEF IInv
  <2>2. Goes(j, "free", "asked")
    <3>1. Tells(j) /\ j \in Nat
      BY DEF IInv, Inv, Ids
    <3>2. rows[j] = NoRow
      BY <2>1, <3>1 DEF Tells
    <3> QED
      BY <2>1, <3>1, <3>2 DEF Goes, Progress, NoRow
  <2>3. \A i \in Ids \ {j} : Same(i) \/ Ends(i)
    BY <2>1, RowMaps DEF Ids
  <2> QED
    BY <2>2, <2>3, OneMaps
<1>4. ASSUME NEW p \in Calls, Decide(p)
      PROVE  Approval!Next
  <2> DEFINE i == call[p].id
             r == [rows[i] EXCEPT !.state = "approved",
                                  !.seen = [gen |-> call[p].gen, target |-> call[p].target]]
  <2>1. rows[i].state = "pending" /\ rows' = [rows EXCEPT ![i] = r] /\ UNCHANGED nextId /\ i \in Ids
    BY <1>4 DEF Decide, InQueue, ChangeRow, IInv, Inv, Knows
  <2>2. rows[i] \in Rows /\ rows[i] # NoRow
    BY <2>1, RowTyped DEF IInv
  <2>3. r # NoRow /\ r.state = "approved"
    BY <2>2 DEF Rows, NoRow
  <2> HIDE DEF r
  <2>4. rows'[i] = r /\ Rest(i)
    BY <1>1, <2>1
  <2> QED
    BY <2>1, <2>2, <2>3, <2>4, StateMaps, OneMaps
<1>5. ASSUME NEW p \in Calls, Cancel(p)
      PROVE  Approval!Next
  <2> DEFINE i == call[p].id  r == Cancelled(rows[i])
  <2>1. rows[i] # NoRow /\ rows' = [rows EXCEPT ![i] = r] /\ UNCHANGED nextId /\ i \in Ids
    BY <1>5 DEF Cancel, InQueue, ChangeRow, IInv, Inv, Knows
  <2>2. rows[i] \in Rows
    BY <2>1, RowTyped DEF IInv
  <2>3. /\ r # NoRow
        /\ rows[i].state \in {"pending", "approved"} => r.state = "cancelled"
        /\ rows[i].state = "running" => r.state = "running"
        /\ rows[i].state \notin {"pending", "approved", "running"} => r = rows[i]
    BY <2>2 DEF Cancelled, Rows, NoRow, Final
  <2> HIDE DEF r
  <2>4. rows'[i] = r /\ Rest(i)
    BY <1>1, <2>1
  <2>5. Same(i) \/ Ends(i)
    BY <2>1, <2>3, <2>4, StateMaps, RowMaps
  <2> QED
    BY <2>4, <2>5, OthersMap
<1>6. ASSUME NEW p \in Calls, Claim(p) \/ ClaimFails(p)
      PROVE  Approval!Next
  <2>1. call[p].id \in Ids /\ rows[call[p].id].state = "approved" /\ UNCHANGED nextId
    BY <1>6 DEF Claim, ClaimFails, InQueue, Claimable, ChangeRow, IInv, Inv, Knows
  <2>2. \E state \in {"failed", "running"} : rows' = [rows EXCEPT ![call[p].id].state = state]
    BY <1>6 DEF Claim, ClaimFails, ChangeRow
  <2> QED
    BY <1>2, <2>1, <2>2
<1>7. ASSUME NEW p \in Calls, FinishRow(p)
      PROVE  Approval!Next
  <2>1. call[p].id \in Ids /\ rows[call[p].id].state = "running" /\ UNCHANGED nextId
    BY <1>7 DEF FinishRow, ChangeRow, IInv, Inv, Knows
  <2>2. \E state \in {"succeeded", "failed", "cancelled"} :
          rows' = [rows EXCEPT ![call[p].id].state = state]
    BY <1>7 DEF FinishRow, ChangeRow
  <2> QED
    BY <1>2, <2>1, <2>2
<1>8. ASSUME NEW i \in Ids, Expire(i) \/ Deny(i)
      PROVE  Approval!Next
  BY <1>2, <1>8 DEF Expire, Deny
<1>9. CASE UNCHANGED nextId /\ \A i \in Ids : rows'[i] \in {rows[i], NoRow}
  BY <1>9, RowMaps, OthersMap DEF IInv, TypeOK
<1>10. \/ UNCHANGED nextId /\ \A i \in Ids : rows'[i] \in {rows[i], NoRow}
       \/ \E p \in Calls : \/ Submit(p) \/ Decide(p) \/ Cancel(p) \/ Claim(p) \/ ClaimFails(p)
                           \/ FinishRow(p)
       \/ \E i \in Ids : Expire(i) \/ Deny(i)
  <2>1. ASSUME NEW p \in Calls,
               \/ \E k \in Kinds, a \in Apps : Request(p, k, a)
               \/ \E i \in Ids : CancelRequest(p, i) \/ Execute(p, i) \/ OwnerApproves(p, i)
        PROVE  UNCHANGED <<rows, nextId>>
    <3>1. \A op, i, g, t, to : Begin(p, op, i, g, t, to) => UNCHANGED <<rows, nextId>>
      BY DEF Begin, Look
    <3> QED
      BY <2>1, <3>1 DEF Request, CancelRequest, Execute, OwnerApproves
  <2>2. ASSUME NEW p \in Calls, Owner(p) \/ LockOperation(p) \/ Describe(p) \/ Recheck(p)
        PROVE  UNCHANGED <<rows, nextId>>
    BY <2>2 DEF Owner, LockOperation, Describe, Recheck, Look
  <2>3. ASSUME NEW p \in Calls, Work(p) \/ WindDown(p) \/ Poll(p) \/ OutOfTime(p) \/ Fail(p)
        PROVE  UNCHANGED <<rows, nextId>>
    BY <2>3 DEF Work, WindDown, WorkEnds, Poll, OutOfTime, Stop, Fail
  <2>4. ASSUME NEW p \in Calls, LoseRows(p)
        PROVE  UNCHANGED nextId /\ \A i \in Ids : rows'[i] \in {rows[i], NoRow}
    BY <2>4 DEF LoseRows
  <2>5. ASSUME NEW a \in Apps, OwnerChanges(a) \/ Drift(a)
        PROVE  UNCHANGED <<rows, nextId>>
    BY <2>5 DEF OwnerChanges, Drift
  <2>6. CASE EnrolmentChanges
    BY <2>6 DEF EnrolmentChanges, requestVars
  <2> QED
    BY <2>1, <2>2, <2>3, <2>4, <2>5, <2>6 DEF Next, RequestsNext, Step
<1> QED
  BY <1>3, <1>4, <1>5, <1>6, <1>7, <1>8, <1>9, <1>10

\* What the owner approved is carried out once at most: a closed request, and one that was
\* carried out, is never claimed again, though rows are lost, evicted and replaced, claims
\* fail half-way and workers die.
THEOREM ApprovalsAreUsedOnce == Spec => ApprovedOnce
<1>1. Init => Approval!Init
  <2>1. ASSUME Init, NEW i \in Ids
        PROVE  Progress(i) = "free"
    <3>1. i >= nextId /\ rows[i] = NoRow
      BY <2>1 DEF Init, RequestsInit, Ids
    <3> QED
      BY <3>1 DEF Progress, NoRow
  <2> QED
    BY <2>1 DEF Approval!Init
<1>2. IInv /\ [Next]_vars => [Approval!Next]_[i \in Ids |-> Progress(i)]
  <2>1. CASE UNCHANGED vars
    BY <2>1 DEF vars, requestVars, Progress
  <2> QED
    BY <2>1, StepMaps
<1> QED
  BY <1>1, <1>2, Invariant, PTL DEF Spec, ApprovedOnce, Approval!Spec

-----------------------------------------------------------------------------
\* The use of the locks.

\* A call that is not carried out, or waits for the lock, works on no app.
LEMMA AtNoApp ==
  ASSUME NEW p \in Calls, pc[p] \in {"idle", "owner", "lock", "finish"}
  PROVE  WorksOn(p) = {}
BY DEF WorksOn

\* One that is carried out works on the app of its target, and holds its lock.
LEMMA AtItsApp ==
  ASSUME IInv, NEW p \in Calls, pc[p] \in {"describe", "recheck", "queue", "working"},
         call[p].op = "execute"
  PROVE  /\ WorksOn(p) = {call[p].target.app} /\ call[p].target.app \in Apps
         /\ opLock[call[p].target.app] = p
<1>1. call[p] \in CallRecords /\ Knows(p) /\ Holds(p)
  BY DEF IInv, Inv, Knows
<1>2. call[p].target.app \in Apps /\ call[p] # Idle
  BY <1>1 DEF CallRecords, Targets, Idle, Ops
<1> QED
  BY <1>1, <1>2 DEF WorksOn, Holds

Keeps(p) == UNCHANGED opLock /\ WorksOn(p)' = WorksOn(p)

\* Call p takes the app's free lock and works; or works no longer and gives it back.
Takes(p, a) == LockOperation(p) /\ WorksOn(p) = {} /\ WorksOn(p)' = {a}
GivesBack(p, a) == /\ WorksOn(p) = {a} /\ WorksOn(p)' = {} /\ opLock[a] = p
                   /\ opLock' = [opLock EXCEPT ![a] = NoCall]

\* How a step changes the locks: a worker takes a free one and begins to work, and gives it
\* back with the end of the work; a call that returns, or whose process dies, ends.
LEMMA LocksMove ==
  ASSUME IInv, NEW p \in Calls, Step(p)
  PROVE  /\ \A q \in Calls \ {p} : WorksOn(q)' = WorksOn(q)
         /\ \/ Keeps(p) \/ Return(p)
            \/ call[p].target.app \in Apps /\ (\/ Takes(p, call[p].target.app)
                                             \/ GivesBack(p, call[p].target.app))
<1> USE DEF Goto, TypeOK, IInv
<1>1. CASE \/ \E k \in Kinds, a \in Apps : Request(p, k, a)
           \/ \E i \in Ids : CancelRequest(p, i) \/ Execute(p, i) \/ OwnerApproves(p, i)
  <2>1. PICK op \in Ops, i \in 0 .. MaxIds, g \in Gens, t \in Targets,
             to \in {"describe", "queue", "lock", "owner"} :
          /\ Begin(p, op, i, g, t, to)
          /\ op # "request" => i \in Ids
          /\ to = "lock" <=> op = "execute"
          /\ to = "owner" <=> op = "approve"
    BY <1>1, BeginsTyped
  <2>2. PICK c \in Clients :
          /\ pc[p] = "idle" /\ pc' = [pc EXCEPT ![p] = to] /\ UNCHANGED opLock
          /\ call' = [call EXCEPT ![p] = [op |-> op, client |-> c, gen |-> g, id |-> i,
                                         target |-> t, seen |-> Unseen]]
    BY <2>1 DEF Begin, Look
  <2> QED
    BY <2>1, <2>2 DEF WorksOn, Keeps
<1>2. CASE Owner(p) \/ Recheck(p) \/ Poll(p) \/ OutOfTime(p)
  <2>1. CASE Owner(p)
    <3>1. /\ pc[p] = "owner" /\ pc' = [pc EXCEPT ![p] = "describe"] /\ UNCHANGED opLock
          /\ call[p] \in CallRecords /\ call[p].op = "approve"
          /\ call' = [call EXCEPT ![p] = [call[p] EXCEPT !.gen = cred[call[p].client]]]
      BY <2>1 DEF Owner, Look, Inv, Knows
    <3>2. /\ call'[p].op = "approve" /\ pc'[p] = "describe"
          /\ \A q \in Calls \ {p} : call'[q] = call[q] /\ pc'[q] = pc[q]
      BY <3>1 DEF CallRecords
    <3> QED
      BY <3>1, <3>2 DEF WorksOn, Keeps
  <2>2. CASE Recheck(p)
    BY <2>2 DEF Recheck, Look, Inv, Knows, WorksOn, Keeps
  <2>3. CASE Poll(p) \/ OutOfTime(p)
    BY <2>3 DEF Poll, OutOfTime, Stop, WorksOn, Keeps
  <2> QED
    BY <1>2, <2>1, <2>2, <2>3
<1>3. CASE LockOperation(p)
  <2>1. /\ pc[p] = "lock" /\ pc' = [pc EXCEPT ![p] = "describe"] /\ UNCHANGED call
        /\ call[p] \in CallRecords /\ call[p].op = "execute"
    BY <1>3 DEF LockOperation, Inv, Knows
  <2>2. call[p].target.app \in Apps /\ call[p] # Idle
    BY <2>1 DEF CallRecords, Targets, Idle, Ops
  <2> QED
    BY <1>3, <2>1, <2>2 DEF WorksOn, Takes
<1>4. CASE Describe(p)
  <2> DEFINE d == [call[p] EXCEPT !.target = [@ EXCEPT !.version = version[call[p].target.app]]]
  <2>1. /\ pc[p] = "describe" /\ call[p] \in CallRecords /\ UNCHANGED opLock
        /\ pc' = [pc EXCEPT ![p] = IF call[p].op = "execute" THEN "recheck" ELSE "queue"]
        /\ call' = [call EXCEPT ![p] = d]
    BY <1>4 DEF Describe, Look, Inv, Knows, CallRecords
  <2>2. /\ d.op = call[p].op /\ d.target.app = call[p].target.app
        /\ d # Idle /\ call[p] # Idle
    BY <2>1 DEF CallRecords, Targets, Idle, Ops
  <2> HIDE DEF d
  <2> QED
    BY <2>1, <2>2 DEF WorksOn, Keeps
<1>5. CASE Claim(p)
  <2> DEFINE d == [call[p] EXCEPT !.seen = rows[call[p].id].seen]
  <2>1. /\ pc[p] = "queue" /\ call[p] \in CallRecords /\ UNCHANGED opLock
        /\ pc' = [pc EXCEPT ![p] = "working"] /\ call' = [call EXCEPT ![p] = d]
    BY <1>5 DEF Claim, InQueue, Inv, Knows
  <2>2. /\ d.op = call[p].op /\ d.target = call[p].target /\ d # Idle /\ call[p] # Idle
    BY <2>1 DEF CallRecords, Idle, Ops
  <2> HIDE DEF d
  <2> QED
    BY <2>1, <2>2 DEF WorksOn, Keeps
<1>6. CASE Work(p) \/ WindDown(p)
  <2>1. /\ pc[p] = "working" /\ call[p].op = "execute"
        /\ pc' = [pc EXCEPT ![p] = "finish"] /\ UNCHANGED call
        /\ opLock' = [opLock EXCEPT ![call[p].target.app] = NoCall]
    BY <1>6 DEF Work, WindDown, WorkEnds, Inv, Knows
  <2>2. /\ WorksOn(p) = {call[p].target.app} /\ call[p].target.app \in Apps
        /\ opLock[call[p].target.app] = p
    BY <2>1, AtItsApp
  <2> QED
    BY <1>6, <2>1, <2>2 DEF WorksOn, GivesBack
<1>7. CASE Submit(p) \/ Decide(p) \/ Cancel(p) \/ ClaimFails(p) \/ FinishRow(p) \/ Fail(p)
           \/ LoseRows(p)
  <2>1. Return(p) \/ UNCHANGED <<pc, call, opLock>>
    BY <1>7 DEF Submit, Decide, Cancel, ClaimFails, FinishRow, Fail, LoseRows, ChangeRow
  <2> QED
    BY <2>1 DEF Return, WorksOn, Keeps
<1> QED
  BY <1>1, <1>2, <1>3, <1>4, <1>5, <1>6, <1>7 DEF Step

\* No request is carried out on an app that the owner, another request or another process
\* works on: it is worked on under its lock, from the first look to the end of the work.
THEOREM RequestsUseLock == Spec => UsesLock
<1> DEFINE AppsOf == [p \in Calls |-> WorksOn(p)]
<1>1. Init => Locked!Init
  BY AtNoApp DEF Init, RequestsInit, Locked!Init
<1>2. IInv /\ [Next]_vars => [Locked!Next]_<<opLock, AppsOf>>
  <2> SUFFICES ASSUME IInv, [Next]_vars
               PROVE  Locked!Next \/ UNCHANGED <<opLock, AppsOf>>
    OBVIOUS
  <2>1. ASSUME NEW p \in Calls, Step(p)
        PROVE  Locked!Next \/ UNCHANGED <<opLock, AppsOf>>
    <3> DEFINE a == call[p].target.app
    <3>1. \A q \in Calls \ {p} : WorksOn(q)' = WorksOn(q)
      BY <2>1, LocksMove
    <3>2. CASE Keeps(p)
      BY <3>1, <3>2 DEF Keeps
    <3>3. CASE Return(p)
      <4>1. WorksOn(p)' = {}
        BY <3>3 DEF Return, Goto, WorksOn, IInv, TypeOK
      <4>2. opLock' = [b \in Apps |-> IF opLock[b] \in {q \in Calls : [r \in Calls |-> r][q] = p}
                                      THEN NoCall ELSE opLock[b]]
        BY <3>3 DEF Return
      <4>3. Locked!Die(p)
        BY <3>1, <4>1, <4>2 DEF Locked!Die
      <4> QED
        BY <4>3 DEF Locked!Next
    <3>4. CASE Takes(p, a) /\ a \in Apps
      <4>1. Locked!Take(p, a)
        BY <3>1, <3>4 DEF Takes, LockOperation, Locked!Take
      <4> QED
        BY <3>4, <4>1 DEF Locked!Next
    <3>5. CASE GivesBack(p, a) /\ a \in Apps
      <4>1. Locked!Finish(p, a)
        BY <3>1, <3>5 DEF GivesBack, Locked!Finish
      <4> QED
        BY <3>5, <4>1 DEF Locked!Next
    <3> QED
      BY <2>1, <3>2, <3>3, <3>4, <3>5, LocksMove
  <2>2. CASE \/ EnrolmentChanges \/ UNCHANGED vars
             \/ \E i \in Ids : Expire(i) \/ Deny(i)
             \/ \E a \in Apps : OwnerChanges(a) \/ Drift(a)
    <3>1. UNCHANGED <<opLock, pc, call>>
      BY <2>2 DEF EnrolmentChanges, vars, requestVars, Expire, Deny, OwnerChanges, Drift
    <3> QED
      BY <3>1 DEF WorksOn
  <2> QED
    BY <2>1, <2>2 DEF Next, RequestsNext
<1> QED
  BY <1>1, <1>2, Invariant, PTL DEF Spec, UsesLock, Locked!Spec

=============================================================================
