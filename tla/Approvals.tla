------------------------------ MODULE Approvals ------------------------------
(***************************************************************************)
(* What an owner's approval promises, for mutations (agent_requests.rs)    *)
(* and for app content (agent_content.rs): an agent asks; only the owner   *)
(* approves; what was approved is carried out at most once, and never      *)
(* after the request was closed.                                           *)
(***************************************************************************)
CONSTANT Ids      \* requests

VARIABLE ask      \* ask[i]: how far the request is

Stages == {"free", "asked", "approved", "used", "closed"}

Init == ask = [i \in Ids |-> "free"]

Become(i, from, to) == ask[i] = from /\ ask'[i] = to

\* Denied, cancelled, run out, done with, or lost with the file: any number at once,
\* also beside a step of another request.
Close(i) == ask[i] # "free" /\ ask'[i] = "closed"

Step(i) == \/ Become(i, "free", "asked")       \* the agent asks
           \/ Become(i, "asked", "approved")   \* the owner approves
           \/ Become(i, "approved", "asked")   \* the approval runs out
           \/ Become(i, "approved", "used")    \* it is carried out

Others(I) == \A j \in I : ask'[j] = ask[j] \/ Close(j)

Next == /\ ask' \in [Ids -> Stages]
        /\ Others(Ids) \/ \E i \in Ids : Step(i) /\ Others(Ids \ {i})

Spec == Init /\ [][Next]_ask

=============================================================================
