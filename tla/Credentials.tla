---------------------------- MODULE Credentials ----------------------------
(***************************************************************************)
(* What src/agent_gateway.rs promises: who is enrolled and what the owner  *)
(* has permitted.  An enrolment is known by its generation, which no other *)
(* one has (the hash of its secret).  A permission belongs to the          *)
(* enrolment it was given to: it is gone before that enrolment ends, and a *)
(* client that is enrolled again starts without any.                       *)
(***************************************************************************)
EXTENDS Naturals

CONSTANTS Clients, Apps,
          MaxGens   \* bound: enrolments

VARIABLES cred,  \* cred[c]: generation of the client's enrolment, 0 for none
          perm,  \* perm[c][a]: the enrolment that may act on the app, 0 for none
          last   \* the last generation that was issued

Gens == 0 .. MaxGens
NoApps == [a \in Apps |-> 0]

Init == /\ cred = [c \in Clients |-> 0]
        /\ perm = [c \in Clients |-> NoApps]
        /\ last = 0

Enroll(c) == /\ cred[c] = 0 /\ perm[c] = NoApps /\ last < MaxGens
             /\ last' = last + 1
             /\ cred' = [cred EXCEPT ![c] = last + 1]
             /\ UNCHANGED perm

Revoke(c) == /\ perm[c] = NoApps
             /\ cred' = [cred EXCEPT ![c] = 0]
             /\ UNCHANGED <<perm, last>>

Permit(c, a) == /\ cred[c] # 0
                /\ perm' = [perm EXCEPT ![c][a] = cred[c]]
                /\ UNCHANGED <<cred, last>>

\* The owner takes permissions back, they run out, or their file is lost.
Withdraw == /\ perm' \in [Clients -> [Apps -> Gens]]
            /\ \A c \in Clients : \A a \in Apps : perm'[c][a] \in {0, perm[c][a]}
            /\ UNCHANGED <<cred, last>>

\* The credential file is lost: nobody is enrolled.
Lose == /\ cred' = [c \in Clients |-> 0]
        /\ UNCHANGED <<perm, last>>

Next == \/ \E c \in Clients : Enroll(c) \/ Revoke(c) \/ \E a \in Apps : Permit(c, a)
        \/ Withdraw \/ Lose

Spec == Init /\ [][Next]_<<cred, perm, last>>

=============================================================================
