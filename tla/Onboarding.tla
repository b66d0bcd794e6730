----------------------------- MODULE Onboarding -----------------------------
(***************************************************************************)
(* What of the introduction a person has viewed                            *)
(* (launcher_projection/onboarding_store.rs): one small file that windows  *)
(* and processes read without a lock and replace under one.                *)
(*                                                                         *)
(* The file has no previous copy, and a replacement removes it before the  *)
(* new one is renamed into place: between the two there is no file, which  *)
(* is how a person who has viewed nothing looks.                           *)
(***************************************************************************)
CONSTANTS Viewers,  \* calls that may run at the same time
          Pages,    \* OnboardingStep
          NoOne

VARIABLES progress,   \* onboarding-v1.json: the pages viewed, or Absent
          writing,    \* who holds onboarding.lock
          viewer,     \* what each call is at
          viewed,     \* every page a call has marked and answered for
          forgotten   \* a replacement that was not finished took the file with it

onboardingVars == <<progress, writing, viewer, viewed, forgotten>>

Absent == {"absent"}
Idle == [step |-> "idle", state |-> {}, page |-> "none"]

OnboardingInit ==
  /\ progress = Absent /\ writing = NoOne /\ viewed = {} /\ forgotten = FALSE
  /\ viewer = [v \in Viewers |-> Idle]

At(v, step) == viewer[v].step = step
Goes(v, next) == viewer' = [viewer EXCEPT ![v] = next]

\* A call that returns closes the lock it held.
Returns(v) == Goes(v, Idle) /\ writing' = IF writing = v THEN NoOne ELSE writing

-----------------------------------------------------------------------------
\* read: without the lock for a query, with it for a store that is opened.
BeginRead(v) ==
  /\ At(v, "idle") /\ Goes(v, [Idle EXCEPT !.step = "look"])
  /\ UNCHANGED <<progress, writing, viewed, forgotten>>

\* open: a store in use elsewhere is refused.
Open(v) ==
  /\ At(v, "idle") /\ writing = NoOne
  /\ writing' = v /\ Goes(v, [Idle EXCEPT !.step = "look"])
  /\ UNCHANGED <<progress, viewed, forgotten>>

\* No file is the beginning.
Look(v) ==
  /\ At(v, "look")
  /\ Goes(v, [viewer[v] EXCEPT !.step = IF progress = Absent THEN "opened" ELSE "read"])
  /\ UNCHANGED <<progress, writing, viewed, forgotten>>

Read(v) ==
  /\ At(v, "read")
  /\ \/ progress # Absent /\ Goes(v, [viewer[v] EXCEPT !.step = "opened", !.state = progress]) /\ UNCHANGED writing
     \/ progress = Absent /\ Returns(v)
  /\ UNCHANGED <<progress, viewed, forgotten>>

\* mark_viewed: a page that was viewed changes nothing; a query ends with what it read.
MarkViewed(v, page) ==
  /\ At(v, "opened")
  /\ IF writing # v \/ page \in viewer[v].state
     THEN Returns(v)
     ELSE Goes(v, [viewer[v] EXCEPT !.step = "write", !.page = page]) /\ UNCHANGED writing
  /\ UNCHANGED <<progress, viewed, forgotten>>

\* write_file_atomically, the new file written: the live one is removed, ...
RemoveLive(v) ==
  /\ At(v, "write")
  /\ progress' = Absent /\ Goes(v, [viewer[v] EXCEPT !.step = "rename"])
  /\ UNCHANGED <<writing, viewed, forgotten>>

\* ... and the new one renamed.
Rename(v) ==
  /\ At(v, "rename")
  /\ progress' = viewer[v].state \cup {viewer[v].page} /\ viewed' = viewed \cup {viewer[v].page}
  /\ Returns(v)
  /\ UNCHANGED forgotten

\* A call fails or dies; after the removal it leaves no file, as a failure removes the new one.
Breaks(v) ==
  /\ ~At(v, "idle") /\ Returns(v)
  /\ forgotten' = (forgotten \/ (At(v, "rename") /\ viewer[v].state # {}))
  /\ UNCHANGED <<progress, viewed>>

OnboardingNext ==
  \E v \in Viewers :
    \/ BeginRead(v) \/ Open(v) \/ Look(v) \/ Read(v)
    \/ \E page \in Pages : MarkViewed(v, page)
    \/ RemoveLive(v) \/ Rename(v) \/ Breaks(v)

-----------------------------------------------------------------------------
(* A store that is open begins from every page that was viewed, and a      *)
(* query shows no page that was not, unless a replacement was broken off   *)
(* between its removal and its rename                                      *)
(* (src/src/launcher_projection/onboarding_store.rs:64).                   *)
ViewedIsKept ==
  \A v \in Viewers :
    /\ viewer[v].state \subseteq viewed
    /\ ~forgotten /\ writing = v /\ viewer[v].step \notin {"look", "read"} => viewer[v].state = viewed

=============================================================================
