------------------------------ MODULE MCAgents ------------------------------
(***************************************************************************)
(* Mutations and app content, side by side in one run: they share the      *)
(* enrolments and nothing else, so that each behaviour exercises one of    *)
(* them, and the other stays as it began.                                  *)
(***************************************************************************)
EXTENDS AgentRequests

CONSTANTS Parts,         \* what this run exercises
          MaxProposals, MaxConnected, MaxOpen

VARIABLES part,
          grant, conn, made, proposals, nextProposal, target, store, step, task,
          posted, grantedAt

Content == INSTANCE AgentContent WITH MaxIds <- MaxProposals

ASSUME AgentsAssumption == Content!ContentAssumption

contentState == <<grant, conn, made, proposals, nextProposal, target, store, step, task,
                  posted, grantedAt>>
agentVars == <<part, cred, last, requestVars, contentState>>

AgentsInit == /\ part \in Parts
              /\ Init /\ Content!ContentInit
              /\ part = "content" => \A a \in Apps : ~installed[a]

Requests == part = "requests" /\ Next /\ UNCHANGED <<part, contentState>>
Contents == part = "content" /\ Content!ContentNext /\ UNCHANGED <<part, requestVars>>

AgentsSpec ==
  /\ AgentsInit /\ [][Requests \/ Contents]_agentVars
  /\ RequestsFairness

-----------------------------------------------------------------------------
\* A grant on an app's content was given for the connection the app has now.
GrantsFitConnections == Content!GrantsFitConnections

\* What the owner approved for an app's content is sent at most once.
WrittenOnce == Content!WrittenOnce

=============================================================================
