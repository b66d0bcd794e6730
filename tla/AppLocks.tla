------------------------------ MODULE AppLocks ------------------------------
(***************************************************************************)
(* What lock_operation promises the rest of the program: whatever the      *)
(* process, only the owner of an app works on it, it owns the app for as   *)
(* long as it works, and a process that dies gives back what its threads   *)
(* own, and nothing else.  Lifecycle and AgentRequests use this lock.      *)
(***************************************************************************)
CONSTANTS Apps, Procs, Threads, NoThread,
          ProcOf  \* the process a thread runs in

VARIABLES owner,  \* owner[a]: the thread that owns app a
          work    \* work[t]: the apps thread t works on

Init == /\ owner = [a \in Apps |-> NoThread]
        /\ work = [t \in Threads |-> {}]

\* The work begins with the ownership.
Take(t, a) == /\ owner[a] = NoThread
              /\ owner' = [owner EXCEPT ![a] = t]
              /\ work' = [work EXCEPT ![t] = @ \union {a}]

\* A thread stops to work on an app, and may give it back at once.
Finish(t, a) == /\ a \in work[t]
                /\ work' = [work EXCEPT ![t] = @ \ {a}]
                /\ \/ owner' = owner
                   \/ owner[a] = t /\ owner' = [owner EXCEPT ![a] = NoThread]

\* It gives back what it no longer works on.
Give(t, a) == /\ owner[a] = t /\ a \notin work[t]
              /\ owner' = [owner EXCEPT ![a] = NoThread]
              /\ UNCHANGED work

\* A process dies, and all of its threads.
Die(p) ==
  LET dead == {t \in Threads : ProcOf[t] = p} IN
  /\ owner' = [a \in Apps |-> IF owner[a] \in dead THEN NoThread ELSE owner[a]]
  /\ work' = [t \in Threads |-> IF t \in dead THEN {} ELSE work[t]]

Next == \/ \E t \in Threads, a \in Apps : Take(t, a) \/ Finish(t, a) \/ Give(t, a)
        \/ \E p \in Procs : Die(p)

Spec == Init /\ [][Next]_<<owner, work>>

=============================================================================
