---------------------------- MODULE PartsProofs ----------------------------
(***************************************************************************)
(* Proofs about the parts that keep state of their own: the managed        *)
(* engine, the binding of an app to an engine, snapshots and restores, the *)
(* inspection of a link, the introduction, the engine's supervisor, the    *)
(* run of a command, and an app that is installed again.  Each part has an *)
(* inductive invariant, which no step of another part touches.             *)
(***************************************************************************)
EXTENDS MCParts, PlanProofs

-----------------------------------------------------------------------------
\* The managed engine.

\* A journal is a development engine's, or has a token that was made here.
ReservedJournal(j) == j.phase = "reserved" /\ j.place = "native" /\ j.token > Box!DevToken
ImportedJournal(j) == j.phase = "imported" /\ j.place = "native" /\ j.token > Box!DevToken
VerifiedJournal(j) == j = Box!DevJournal \/ (j.phase = "verified" /\ j.place = "native" /\ j.token > Box!DevToken)

\* Who made a distribution shows in its token until ours is written into it, and the
\* data directory is of a distribution of ours.
Distros ==
  /\ distro.by = "none" => distro = Box!NoDistro
  /\ distro.by = "dev" => distro.token = Box!DevToken
  /\ distro.by = "foreign" => distro.token = Box!NoToken
  /\ disk <=> distro.by = "us"

JournalsOK ==
  /\ \/ journal = Box!NoJournal
     \/ journal.phase = "broken" /\ uncertain
     \/ ReservedJournal(journal) \/ ImportedJournal(journal) \/ VerifiedJournal(journal)
  /\ ImportedJournal(journal) => distro.by = "us"

\* What the journal says at each step of a transaction.
JournalFollows ==
  /\ tx.step = "reserve" => journal = Box!NoJournal /\ (ReservedJournal(tx.known) \/ tx.known = Box!DevJournal)
  /\ tx.step = "token" => journal = tx.known /\ (ReservedJournal(tx.known) \/ tx.known = Box!DevJournal)
  /\ tx.step = "import" => journal = tx.known /\ ReservedJournal(tx.known)
  /\ tx.step = "remove" => /\ journal.token = tx.known.token
                           /\ \/ ImportedJournal(tx.known) /\ ReservedJournal(journal)
                              \/ VerifiedJournal(tx.known) /\ ImportedJournal(journal)
  /\ tx.step = "rename" => journal = Box!NoJournal /\ (ImportedJournal(tx.known) \/ VerifiedJournal(tx.known))
  /\ tx.step \in {"verify", "inspect"} => journal = tx.known /\ ImportedJournal(tx.known)
  /\ tx.step = "ready" => journal = tx.known /\ tx.known = Box!DevJournal
  /\ tx.step \in {"mark", "unchoose", "choose", "unregister"} => journal = tx.known /\ Box!Disposition = "ready"
  /\ tx.step \in {"unregister", "erase"} => VerifiedJournal(tx.known) /\ tx.known.place = "native" /\ Box!NoApps
  /\ tx.step = "erase" => journal \in {tx.known, Box!NoJournal}

\* Whose the distribution is, and with which token, while the journal is replaced.
DistroFollows ==
  /\ tx.step \in {"remove", "rename"} =>
       tx.known.place = "native" /\ distro.by = "us"
  /\ (tx.step \in {"remove", "rename"} /\ tx.known.phase = "verified") \/ tx.step = "inspect" =>
       tokenFile = tx.known.token /\ distro.token = tx.known.token

\* A choice is never without its marker.
ChoiceIsMarked ==
  chosen \/ selection \/ tx.step \in {"unchoose", "choose"} => marker

\* What is so when every step ended well, and nobody took the name.
WhenCertain ==
  ~uncertain => ~late /\
    (distro.by # "foreign" =>
       /\ tx.step \in {"reserve", "token", "import"} =>
            IF tx.known.place = "dev" THEN distro.by = "dev" ELSE distro.by = "none"
       /\ tx.step = "ready" => distro.by = "dev"
       /\ tx.step = "erase" => distro.by = "none"
       /\ tx.step \in {"import", "remove", "rename", "verify", "ready"} => tokenFile = tx.known.token)

\* The values of the engine's variables, and what is known of it.
BoxTypes ==
  /\ journal \in Box!Journals /\ tokenFile \in Box!Tokens
  /\ distro \in [by : {"none", "us", "dev", "foreign"}, token : Box!Tokens]
  /\ tx \in [step : Box!Steps, known : Box!Journals]
  /\ app \in [Apps -> {"free", "looking", "installing", "installed"}]
  /\ issued \in Box!DevToken .. MaxTokens + 1

BoxInv ==
  /\ BoxTypes /\ Distros /\ JournalsOK /\ JournalFollows /\ DistroFollows /\ ChoiceIsMarked /\ WhenCertain
  /\ Box!AppsKeepTheirEngine /\ Box!WayOut

-----------------------------------------------------------------------------
\* The binding of an app.
BoundInv ==
  /\ "step" \in DOMAIN work
  /\ IF home = "none" THEN binding = "none" /\ madeOn = {}
     ELSE /\ binding = home \/ binding = "damaged" \/ (binding = "none" /\ compose = "marked")
          /\ madeOn \subseteq {home}
  /\ work.step \in {"save", "write", "project", "up"} => work.engine \in Bound!Engines

-----------------------------------------------------------------------------
\* Snapshots and restores.
SnapInv ==
  /\ snap = [step |-> snap.step, was |-> snap.was, got |-> snap.got]
  /\ source = "stopped" => files = volume
  /\ snap.step \in {"files", "volume"} => source = "stopped"
  /\ snap.step = "volume" => snap.got = files
  /\ Saved!SnapshotsAreOneMoment

WrittenBefore == [secrets |-> {}, files |-> {"secrets"}, volume |-> {"secrets", "files"}, done |-> Saved!Parts]
RestoreInv ==
  /\ project = [running |-> project.running, part |-> project.part] /\ DOMAIN project.part = Saved!Parts
  /\ restore = Saved!NoRestore \/ restore = [step |-> restore.step, of |-> restore.of]
  /\ restore.step \in {"none", "done"} \cup Saved!Parts
  /\ restore.step # "none" =>
       \A p \in Saved!Parts : project.part[p] = IF p \in WrittenBefore[restore.step] THEN Saved!From(restore.of, TRUE) ELSE Saved!Empty
  /\ Saved!NoMixing

-----------------------------------------------------------------------------
\* The inspection of a link.
LinkedInv ==
  /\ renames \in Nat /\ attempt \in 0..MaxRedirects
  /\ found = [commit |-> found.commit, resolution |-> found.resolution]
  /\ seen = [name |-> seen.name, id |-> seen.id, requested |-> seen.requested]
  /\ step = "metadata" =>
       /\ url[1] \in {"named", "id"}
       /\ url[1] = "id" => attempt > 0 /\ url[2] \in Repositories
       /\ url[1] = "named" => url[2] \in Names
       /\ attempt = 0 => url = Linked!Named(seen.requested)
  /\ holder \in [Names -> SUBSET Repositories] /\ moved \in [Names -> SUBSET Repositories]
  /\ step \in {"commit", "match", "done"} =>
       /\ seen.name \in Names /\ seen.id \in Repositories \ closed
       /\ renames = 0 => holder[seen.name] = {seen.id}
       /\ seen.requested # seen.name => attempt > 0
  /\ step \in {"match", "done"} /\ renames = 0 => found.commit[1] = seen.id
  /\ Linked!ApprovalIsOwn

-----------------------------------------------------------------------------
\* The introduction.
IntroInv ==
  /\ progress = Introduced!Absent \/ progress \subseteq Pages
  /\ viewed \subseteq Pages
  /\ viewer \in [Callers -> [step : {"idle", "look", "read", "opened", "write", "rename"}, state : SUBSET Pages, page : Pages \cup {"none"}]]
  /\ \A v \in Callers :
       /\ viewer[v].step \in {"write", "rename"} => writing = v /\ viewer[v].page \in Pages
       /\ writing = v => viewer[v].step # "idle"
       /\ viewer[v].step \in {"look", "read"} => viewer[v].state = {}
       /\ viewer[v].step = "rename" => progress = Introduced!Absent
  /\ progress # Introduced!Absent => progress \subseteq viewed /\ (~forgotten => progress = viewed)
  /\ progress = Introduced!Absent /\ ~forgotten => viewed = {} \/ \E v \in Callers : viewer[v].step = "rename"
  /\ Introduced!ViewedIsKept

-----------------------------------------------------------------------------
\* The supervisor.  Who starts a worker holds the lock for it from the second look on, a
\* worker that runs holds the lock of workers, and whoever clears the stop file has found
\* that lock free: none that was asked is left.
Starting == {"second", "claim", "claimed", "clear_stop", "clear_status", "spawn", "poll"}
CallersOK ==
  \A c \in Callers :
    /\ caller[c].step \in Starting => spawnLock = c
    /\ caller[c].look = "holds" \/ caller[c].step = "claimed" => workerLock = c
    /\ caller[c].step = "claimed" => caller[c].look = "none"
    /\ caller[c].step = "clear_stop" => \A w \in asked : worker[w] = "gone"
AwakeInv ==
  /\ Awake!TypeOK
  /\ \A w \in Workers : worker[w] \in {"running", "leaving", "left"} <=> workerLock = w
  /\ CallersOK
  /\ \A w \in asked : worker[w] \notin {"unborn", "starting"}
  /\ Awake!StopIsKept

-----------------------------------------------------------------------------
\* A run.  A pipe was read to its end when nothing runs that may write to it; once the
\* run is given up, those of its group were told to end and nothing joins them.
Taken == [stream : Command!Streams, bytes : 0..MaxCaptured, cut : BOOLEAN, whole : BOOLEAN]
RunTypes ==
  /\ wrote \in [Command!Streams -> Nat] /\ piped \in [Command!Streams -> Nat]
  /\ sink \in [Command!Streams -> [bytes : 0..MaxCaptured, dropped : Nat]]
  /\ tree \in [{"child", "grandchild"} -> {"none", "running", "ended"}]
  /\ taken \in Seq(Taken)
  /\ job \in BOOLEAN /\ group \in BOOLEAN /\ members \subseteq {"child", "grandchild"}
PhasesOK ==
  /\ phase = "collecting" => Len(taken) < 2
  /\ phase \notin {"collecting", "returned"} => taken = <<>>
  /\ phase = "called" => done = {} /\ tree["child"] = "none" /\ tree["grandchild"] = "none"
  /\ phase \in {"called", "spawned"} => ~group
  /\ done # {} => Command!Running = {}
PipesOK ==
  \A s \in Command!Streams :
    /\ s \in done => piped[s] = 0
    /\ wrote[s] = piped[s] + sink[s].bytes + sink[s].dropped
    /\ sink[s].dropped > 0 => sink[s].bytes = MaxCaptured
IsTrue(it) ==
  /\ it.bytes <= wrote[it.stream]
  /\ it.cut => it.bytes = MaxCaptured /\ wrote[it.stream] > MaxCaptured
  /\ it.whole => /\ it.stream \in done /\ it.bytes = sink[it.stream].bytes
                 /\ it.cut = (sink[it.stream].dropped > 0)
TakenOK == \A i \in DOMAIN taken : IsTrue(taken[i])
GroupOK ==
  /\ ~job => Command!Running \subseteq members
  /\ phase \in {"reaping", "collecting", "returned"} /\ outcome # "exited" /\ group => killed = members
RunInv == RunTypes /\ PhasesOK /\ PipesOK /\ TakenOK /\ GroupOK

-----------------------------------------------------------------------------
\* The credentials of an app: a project directory has one file of them, or none.
KeptOnce == \A one, other \in keptSecrets : one = other

-----------------------------------------------------------------------------
\* Each step of the run is a step of each part, or changes nothing of it.

LEMMA PartsStep ==
  ASSUME [PartsNext]_partVars
  PROVE  /\ [Box!EngineNext]_boxState /\ [Saved!BackupNext]_savedState /\ [Bound!BindingNext]_boundState
         /\ [Linked!InspectionNext]_linkedState /\ [Introduced!OnboardingNext]_viewState
         /\ [Awake!SupervisorNext]_awakeState /\ [Command!RunnerNext]_runState /\ [ProvisionNext]_provisionVars
  BY DEF PartsNext, partVars, Engines, Supervisors, Backups, Bindings, Provisions, Inspections, Runs, Introductions

LEMMA PartsBegin ==
  ASSUME PartsInit
  PROVE  /\ Box!EngineInit /\ Saved!BackupInit /\ Bound!BindingInit
         /\ Linked!InspectionInit /\ Introduced!OnboardingInit
         /\ Awake!SupervisorInit /\ Command!RunnerInit /\ ProvisionInit
  BY DEF PartsInit

-----------------------------------------------------------------------------
\* The managed engine.

LEMMA BoxStarts == ASSUME Box!EngineInit PROVE BoxInv
<1> USE PartsAssumption DEF PartsAssumption, Box!EngineInit, Box!NoJournal, Box!Journal, Box!NoDistro, Box!DevToken, Box!NoToken, Box!Idle
<1>1. BoxTypes
  <2>1. journal \in Box!Journals
    BY DEF Box!Journals, Box!Tokens, Box!Phases
  <2>2. tx \in [step : Box!Steps, known : Box!Journals]
    BY <2>1 DEF Box!Steps
  <2>3. distro \in [by : {"none", "us", "dev", "foreign"}, token : Box!Tokens]
    BY DEF Box!Tokens
  <2> QED
    BY <2>1, <2>2, <2>3 DEF BoxTypes, Box!Tokens
<1>2. Distros
  BY DEF Distros
<1>3. JournalsOK
  BY DEF JournalsOK, ImportedJournal
<1>4. JournalFollows /\ DistroFollows
  BY DEF JournalFollows, DistroFollows
<1>5. ChoiceIsMarked
  BY DEF ChoiceIsMarked
<1>6. WhenCertain
  BY DEF WhenCertain
<1>7. Box!AppsKeepTheirEngine
  BY DEF Box!AppsKeepTheirEngine
<1>8. Box!WayOut
  BY DEF Box!WayOut
<1> QED
  BY <1>1, <1>2, <1>3, <1>4, <1>5, <1>6, <1>7, <1>8 DEF BoxInv

\* A step of the engine keeps what is known of it, and the distributions of others as
\* they are.
LEMMA BoxSteps ==
  ASSUME BoxInv, [Box!EngineNext]_boxState
  PROVE  BoxInv' /\ (distro.by \in {"dev", "foreign"} => distro' = distro)
<1> USE PartsAssumption DEF PartsAssumption, BoxInv, BoxTypes, Distros, JournalsOK, JournalFollows, DistroFollows,
      ChoiceIsMarked, WhenCertain, Box!AppsKeepTheirEngine, Box!WayOut, Box!NoJournal, Box!Journal, Box!NoDistro,
      Box!DevToken, Box!NoToken, Box!Tokens, Box!Phases, Box!Journals, Box!Steps, Box!Idle, Box!Disposition,
      Box!DiskOf, Box!TokensAgree, Box!NoApps, Box!DevJournal, ReservedJournal, ImportedJournal, VerifiedJournal,
      Box!records, Box!history, Box!World
<1>0. CASE UNCHANGED boxState
  BY <1>0 DEF boxState
<1>1. CASE Box!Install
  BY <1>1 DEF Box!Install, Box!Preflight, Box!Begin
<1>2. CASE Box!RetryImport
  BY <1>2 DEF Box!RetryImport, Box!Begin, Box!OnlyTx
<1>3. CASE Box!ResumeVerification
  BY <1>3 DEF Box!ResumeVerification, Box!Begin, Box!OnlyTx
<1>4. CASE Box!SelectManaged
  BY <1>4 DEF Box!SelectManaged, Box!Begin, Box!OnlyTx, Box!Ready
<1>5. CASE Box!AdoptDevelopment
  BY <1>5 DEF Box!AdoptDevelopment, Box!Begin, Box!OnlyTx
<1>6. CASE Box!Repair
  BY <1>6 DEF Box!Repair
<1>7. CASE Box!Removal
  BY <1>7 DEF Box!Removal, Box!Begin, Box!OnlyTx, Box!Ready, Box!OwnedNatively
<1>8. CASE Box!Reserve
  BY <1>8 DEF Box!Reserve, Box!Goto
<1>9. CASE Box!WriteToken
  BY <1>9 DEF Box!WriteToken, Box!Goto
<1>10. CASE Box!Import
  BY <1>10 DEF Box!Import, Box!MakesDistro, Box!Advance
<1>11. CASE Box!ImportFails
  BY <1>11 DEF Box!ImportFails, Box!MakesDistro
<1>12. CASE Box!LateImport
  BY <1>12 DEF Box!LateImport, Box!MakesDistro
<1>13. CASE Box!RemoveJournal
  BY <1>13 DEF Box!RemoveJournal, Box!Goto
<1>14. CASE Box!RenameJournal
  BY <1>14 DEF Box!RenameJournal, Box!Goto
<1>15. CASE Box!InstallToken
  BY <1>15 DEF Box!InstallToken, Box!Goto
<1>16. CASE Box!Inspect
  BY <1>16 DEF Box!Inspect, Box!Advance, Box!OnlyTx
<1>17. CASE Box!Adopted
  BY <1>17 DEF Box!Adopted, Box!Ready, Box!Goto, Box!OnlyTx
<1>18. CASE Box!Mark
  BY <1>18 DEF Box!Mark, Box!Goto
<1>19. CASE Box!Unchoose
  BY <1>19 DEF Box!Unchoose, Box!Goto
<1>20. CASE Box!Choose
  BY <1>20 DEF Box!Choose
<1>21. CASE Box!Unregister
  BY <1>21 DEF Box!Unregister, Box!Goto
<1>22. CASE Box!Erase
  BY <1>22 DEF Box!Erase
<1>23. CASE Box!RestoreRecords
  BY <1>23 DEF Box!RestoreRecords
<1>24. CASE Box!Abandon
  <2>1. tx' = Box!Idle /\ UNCHANGED <<tokenFile, marker, selection, distro, disk, app, issued, chosen>>
    BY <1>24 DEF Box!Abandon
  <2>2. CASE journal' = journal
    <3>1. CASE uncertain'
      <4>1. BoxTypes' /\ Distros' /\ JournalsOK'
        BY <2>1, <2>2, <3>1
      <4>2. JournalFollows' /\ DistroFollows' /\ ChoiceIsMarked'
        BY <2>1, <2>2
      <4>3. WhenCertain' /\ Box!AppsKeepTheirEngine' /\ Box!WayOut'
        BY <2>1, <2>2, <3>1
      <4> HIDE DEF BoxTypes, Distros, JournalsOK, JournalFollows, DistroFollows, ChoiceIsMarked, WhenCertain,
                   Box!AppsKeepTheirEngine, Box!WayOut
      <4> QED
        BY <2>1, <4>1, <4>2, <4>3
    <3>2. CASE ~uncertain'
      <4>1. ~uncertain /\ late' = late /\ tx.step \notin {"idle", "token", "rename", "choose", "erase"}
              /\ ~(tx.step = "remove" /\ journal.phase = "reserved")
        BY <1>24, <3>2 DEF Box!Abandon
      <4>2. BoxTypes' /\ Distros' /\ JournalsOK' /\ JournalFollows' /\ DistroFollows' /\ ChoiceIsMarked'
              /\ Box!AppsKeepTheirEngine' /\ WhenCertain'
        BY <2>1, <2>2, <4>1
      <4>3. Box!WayOut'
        <5>1. CASE tx.step \in {"reserve", "import", "ready"}
          BY <2>1, <2>2, <4>1, <5>1
        <5>2. CASE tx.step \in {"remove", "verify", "inspect"}
          BY <2>1, <2>2, <4>1, <5>2
        <5>3. CASE tx.step \in {"mark", "unchoose", "unregister"}
          BY <2>1, <2>2, <4>1, <5>3
        <5> QED
          BY <4>1, <5>1, <5>2, <5>3
      <4> HIDE DEF BoxTypes, Distros, JournalsOK, JournalFollows, DistroFollows, ChoiceIsMarked, WhenCertain,
                   Box!AppsKeepTheirEngine, Box!WayOut
      <4> QED
        BY <2>1, <4>2, <4>3
    <3> QED
      BY <3>1, <3>2
  <2>3. CASE journal' # journal
    <3>1. journal' = Box!Journal("broken", Box!NoToken, "native") /\ uncertain'
      BY <1>24, <2>3 DEF Box!Abandon
    <3>2. tx.step = "reserve"
      BY <1>24, <2>3 DEF Box!Abandon
    <3> QED
      BY <2>1, <3>1, <3>2
  <2> QED
    BY <2>2, <2>3
<1>25. CASE Box!Foreign
  <2>1. /\ distro = Box!NoDistro /\ distro' = [by |-> "foreign", token |-> Box!NoToken]
        /\ UNCHANGED <<Box!records, disk, daemon, tx, late, app, Box!history>>
    BY <1>25 DEF Box!Foreign
  <2>2. BoxTypes' /\ Distros' /\ JournalsOK'
    BY <2>1
  <2>3. JournalFollows' /\ DistroFollows' /\ ChoiceIsMarked' /\ WhenCertain'
    BY <2>1
  <2>4. Box!AppsKeepTheirEngine'
    BY <2>1
  <2>5. Box!WayOut'
    BY <2>1
  <2> HIDE DEF BoxTypes, Distros, JournalsOK, JournalFollows, DistroFollows, ChoiceIsMarked, WhenCertain,
               Box!AppsKeepTheirEngine, Box!WayOut
  <2> QED
    BY <2>1, <2>2, <2>3, <2>4, <2>5
<1>26. CASE Box!DaemonStops
  BY <1>26 DEF Box!DaemonStops
<1>27. CASE \E a \in Apps : Box!LookAtEngine(a) \/ Box!WriteProject(a) \/ Box!InstallEnds(a) \/ Box!Uninstall(a)
  <2>1. PICK a \in Apps, from \in {"free", "looking", "installing", "installed"},
             to \in {"free", "looking", "installing", "installed"} :
               Box!AppGoes(a, from, to) /\ (from = "free" => ~Box!Removing /\ Box!Disposition = "ready")
    <3>1. PICK a \in Apps : Box!LookAtEngine(a) \/ Box!WriteProject(a) \/ Box!InstallEnds(a) \/ Box!Uninstall(a)
      BY <1>27
    <3> HIDE DEF Box!AppGoes, Box!Removing, Box!Disposition, BoxInv
    <3> QED
      BY <3>1 DEF Box!LookAtEngine, Box!WriteProject, Box!InstallEnds, Box!Uninstall, Box!Ready
  <2>2. app[a] = from /\ app' = [app EXCEPT ![a] = to]
    BY <2>1 DEF Box!AppGoes
  <2>3. /\ UNCHANGED <<journal, tokenFile, marker, selection>> /\ UNCHANGED <<distro, disk, daemon, tx, late>>
        /\ UNCHANGED <<issued, chosen, uncertain>>
    BY <2>1 DEF Box!AppGoes, Box!records, Box!history
  <2>4. BoxTypes' /\ Distros' /\ JournalsOK' /\ DistroFollows' /\ ChoiceIsMarked' /\ WhenCertain'
    BY <2>2, <2>3
  <2>5. Box!Disposition' = Box!Disposition
    BY <2>3
  <2>6. tx.step \in {"unregister", "erase"} => FALSE
    <3> SUFFICES ASSUME tx.step \in {"unregister", "erase"} PROVE FALSE
      OBVIOUS
    <3>1. app[a] = "free"
      BY DEF Box!NoApps
    <3> QED
      BY <2>1, <2>2, <3>1 DEF Box!Removing
  <2>7. JournalFollows'
    BY <2>3, <2>5, <2>6
  <2>8. Box!AppsKeepTheirEngine'
    BY <2>1, <2>2, <2>5
  <2>9. Box!WayOut'
    BY <2>3, <2>5
  <2>10. distro' = distro
    BY <2>3
  <2> HIDE DEF BoxTypes, Distros, JournalsOK, JournalFollows, DistroFollows, ChoiceIsMarked, WhenCertain,
               Box!AppsKeepTheirEngine, Box!WayOut
  <2> QED
    BY <2>4, <2>7, <2>8, <2>9, <2>10
<1> QED
  BY <1>0, <1>1, <1>2, <1>3, <1>4, <1>5, <1>6, <1>7, <1>8, <1>9, <1>10, <1>11, <1>12, <1>13, <1>14, <1>15, <1>16, <1>17, <1>18, <1>19, <1>20, <1>21, <1>22, <1>23, <1>24, <1>25, <1>26, <1>27 DEF Box!EngineNext


-----------------------------------------------------------------------------
\* The binding of an app.

LEMMA BoundStarts == ASSUME Bound!BindingInit PROVE BoundInv
  BY PartsAssumption DEF PartsAssumption, Bound!BindingInit, BoundInv, Bound!Engines, Bound!managed_wsl, Bound!Idle

LEMMA BoundSteps == ASSUME BoundInv, [Bound!BindingNext]_boundState PROVE BoundInv'
<1> USE PartsAssumption DEF PartsAssumption, BoundInv, Bound!Engines, Bound!managed_wsl, Bound!Idle, Bound!retained,
      Bound!project, Bound!world, Bound!history, Bound!At, Bound!Goto, Bound!Finish
<1>1. CASE UNCHANGED boundState
  BY <1>1 DEF boundState
<1>2. ASSUME Bound!HasCommand, Bound!Makes PROVE IF home' = "none" THEN madeOn' = {} ELSE madeOn' \subseteq {home'}
  BY <1>2 DEF Bound!HasCommand, Bound!Makes, Bound!project_command
<1>3. CASE Bound!Install \/ Bound!save \/ Bound!WriteCompose \/ Bound!WriteProjection
  <2>1. CASE Bound!Install
    <3>1. work'.engine \in Bound!Engines /\ DOMAIN work' = {"step", "engine", "created", "old", "oldProjected"}
      BY <2>1 DEF Bound!Install, Bound!Discovered
    <3> QED
      BY <2>1, <3>1 DEF Bound!Install
  <2>2. CASE Bound!save
    BY <2>2 DEF Bound!save
  <2>3. CASE Bound!WriteCompose
    BY <2>3 DEF Bound!WriteCompose
  <2>4. CASE Bound!WriteProjection
    BY <2>4 DEF Bound!WriteProjection
  <2> QED
    BY <1>3, <2>1, <2>2, <2>3, <2>4
<1>4. CASE Bound!Up \/ Bound!Start \/ Bound!Resume
  BY <1>4, <1>2 DEF Bound!Up, Bound!Start, Bound!Resume, Bound!Makes
<1>5. CASE Bound!InstallFails
  BY <1>5, <1>2 DEF Bound!InstallFails, Bound!Makes
<1>6. CASE Bound!RollBack
  BY <1>6 DEF Bound!RollBack, Bound!HasCommand, Bound!project_command, Bound!Clear
<1>7. CASE Bound!Uninstall \/ Bound!Discard
  BY <1>7 DEF Bound!Uninstall, Bound!Discard, Bound!Remove, Bound!Clear
<1>8. CASE Bound!Abandon \/ Bound!Unverified \/ Bound!WorldChanges \/ Bound!LeaseEnds
  BY <1>8 DEF Bound!Abandon, Bound!Unverified, Bound!WorldChanges, Bound!LeaseEnds
<1>9. CASE Bound!Adopt \/ Bound!Mark
  BY <1>9 DEF Bound!Adopt, Bound!Mark, Bound!Discovered
<1>10. CASE Bound!LoseBinding \/ Bound!RestoreBinding
  BY <1>10 DEF Bound!LoseBinding, Bound!RestoreBinding
<1> QED
  BY <1>1, <1>3, <1>4, <1>5, <1>6, <1>7, <1>8, <1>9, <1>10 DEF Bound!BindingNext

-----------------------------------------------------------------------------
\* Snapshots and restores.

LEMMA SavedStarts == ASSUME Saved!BackupInit PROVE SnapInv /\ RestoreInv
  BY DEF Saved!BackupInit, SnapInv, RestoreInv, Saved!SnapshotsAreOneMoment, Saved!NoMixing, Saved!NotRunning,
    Saved!NoRestore, Saved!Empty, Saved!Own, Saved!Parts

LEMMA SnapSteps == ASSUME SnapInv, [Saved!BackupNext]_savedState PROVE SnapInv'
<1> USE DEF SnapInv, Saved!SnapshotsAreOneMoment, Saved!At, Saved!Go, Saved!NotRunning, Saved!Target, Saved!Source
<1>1. CASE UNCHANGED savedState
  BY <1>1 DEF savedState
<1>2. CASE Saved!Work \/ Saved!Settle \/ Saved!Fall \/ Saved!Start
  BY <1>2 DEF Saved!Work, Saved!Settle, Saved!Fall, Saved!Start
<1>3. CASE Saved!Begin \/ Saved!Stop \/ Saved!StopFails \/ Saved!Look
  BY <1>3 DEF Saved!Begin, Saved!Stop, Saved!StopFails, Saved!Look, Saved!Clean, Saved!Quiesced
<1>4. CASE Saved!CopyFiles \/ Saved!CopyVolume \/ Saved!CopyFails
  <2>1. CASE Saved!CopyFiles
    BY <2>1 DEF Saved!CopyFiles
  <2>2. CASE Saved!CopyVolume
    BY <2>2 DEF Saved!CopyVolume
  <2>3. CASE Saved!CopyFails
    BY <2>3 DEF Saved!CopyFails
  <2> QED
    BY <1>4, <2>1, <2>2, <2>3
<1>5. CASE Saved!Resume \/ Saved!SnapshotDies
  BY <1>5 DEF Saved!Resume, Saved!SnapshotDies
<1>6. CASE Saved!BeginRestore \/ Saved!WritePart \/ Saved!RestoreStops \/ Saved!Restored \/ Saved!StartProject \/ Saved!RemoveProject
  BY <1>6 DEF Saved!BeginRestore, Saved!WritePart, Saved!RestoreStops, Saved!Restored, Saved!StartProject, Saved!RemoveProject
<1> QED
  BY <1>1, <1>2, <1>3, <1>4, <1>5, <1>6 DEF Saved!BackupNext

LEMMA RestoreSteps == ASSUME RestoreInv, [Saved!BackupNext]_savedState PROVE RestoreInv'
<1> USE DEF RestoreInv, Saved!NoMixing, Saved!NoRestore, Saved!Target, Saved!Source, Saved!Parts, Saved!Own, Saved!From,
      Saved!Empty, WrittenBefore
<1>1. CASE UNCHANGED Saved!Target
  BY <1>1
<1>2. CASE Saved!BeginRestore
  BY <1>2 DEF Saved!BeginRestore, Saved!FreshProject
<1>3. CASE Saved!WritePart
  <2>1. restore.step \in Saved!Parts /\ restore = [step |-> restore.step, of |-> restore.of]
    BY <1>3 DEF Saved!WritePart
  <2>2. restore' = [step |-> Saved!After[restore.step], of |-> restore.of]
    BY <1>3, <2>1 DEF Saved!WritePart
  <2>3. project' = [running |-> project.running,
                    part |-> [project.part EXCEPT ![restore.step] = Saved!From(restore.of, TRUE)]]
    BY <1>3 DEF Saved!WritePart
  <2>4. \A p \in Saved!Parts :
          project'.part[p] = IF p = restore.step THEN Saved!From(restore.of, TRUE) ELSE project.part[p]
    BY <2>1, <2>3
  <2>5. WrittenBefore[restore'.step] = WrittenBefore[restore.step] \cup {restore.step} /\ restore'.step \in {"files", "volume", "done"}
    BY <2>1, <2>2 DEF Saved!After
  <2>6. \A p \in Saved!Parts :
          project'.part[p] = IF p \in WrittenBefore[restore'.step] THEN Saved!From(restore'.of, TRUE) ELSE Saved!Empty
    BY <2>1, <2>2, <2>4, <2>5
  <2>7. Saved!NoMixing'
    <3>1. \A p \in Saved!Parts : project'.part[p] \in {Saved!Empty, Saved!Own} \/ project'.part[p].of = restore'.of
      BY <2>6
    <3>2. restore'.step = "done" => \A p \in Saved!Parts : project'.part[p] = Saved!From(restore'.of, TRUE)
      BY <2>6
    <3>3. ASSUME NEW p \in Saved!Parts, NEW q \in Saved!Parts,
                 {project'.part[p], project'.part[q]} \cap {Saved!Empty, Saved!Own} = {}
          PROVE  project'.part[p].of = project'.part[q].of
      BY <3>1, <3>3
    <3> QED
      BY <3>2, <3>3
  <2>8. project' = [running |-> project'.running, part |-> project'.part] /\ DOMAIN project'.part = Saved!Parts
    BY <2>3
  <2> HIDE DEF Saved!NoMixing, Saved!From
  <2> QED
    BY <2>2, <2>5, <2>6, <2>7, <2>8
<1>4. CASE Saved!RestoreStops
  <2>1. restore.step \in Saved!Parts /\ restore' = Saved!NoRestore
    BY <1>4 DEF Saved!RestoreStops
  <2>2. CASE project' = project
    BY <2>1, <2>2
  <2>3. CASE project' # project
    <3>1. project' = [project EXCEPT !.part[restore.step] = IF @ = Saved!Empty THEN Saved!From(restore.of, FALSE) ELSE @]
      BY <1>4, <2>3 DEF Saved!RestoreStops
    <3>2. \A p \in Saved!Parts :
            \/ project'.part[p] \in {Saved!Empty, Saved!Own}
            \/ project'.part[p].of = restore.of
      BY <2>1, <3>1
    <3>3. project' = [running |-> project'.running, part |-> project'.part] /\ DOMAIN project'.part = Saved!Parts
      BY <2>1, <3>1
    <3> QED
      BY <2>1, <3>2, <3>3
  <2> QED
    BY <2>2, <2>3
<1>5. CASE Saved!Restored
  BY <1>5 DEF Saved!Restored
<1>6. CASE Saved!StartProject
  BY <1>6 DEF Saved!StartProject
<1>7. CASE Saved!RemoveProject
  <2>1. PICK gone \in SUBSET Saved!Parts :
          project' = [running |-> FALSE,
                      part |-> [p \in Saved!Parts |-> IF p \in gone THEN Saved!Empty ELSE project.part[p]]]
    BY <1>7 DEF Saved!RemoveProject
  <2>2. restore.step = "none" /\ restore' = restore
    BY <1>7 DEF Saved!RemoveProject
  <2>3. \A p \in Saved!Parts : project'.part[p] = Saved!Empty \/ project'.part[p] = project.part[p]
    BY <2>1
  <2>4. project' = [running |-> project'.running, part |-> project'.part] /\ DOMAIN project'.part = Saved!Parts
    BY <2>1
  <2>5. \A p, q \in Saved!Parts :
          {project'.part[p], project'.part[q]} \cap {Saved!Empty, Saved!Own} = {} => project'.part[p].of = project'.part[q].of
    <3> SUFFICES ASSUME NEW p \in Saved!Parts, NEW q \in Saved!Parts,
                        {project'.part[p], project'.part[q]} \cap {Saved!Empty, Saved!Own} = {}
                 PROVE  project'.part[p].of = project'.part[q].of
      OBVIOUS
    <3>1. project'.part[p] = project.part[p] /\ project'.part[q] = project.part[q]
      BY <2>3
    <3> QED
      BY <3>1
  <2> QED
    BY <2>2, <2>4, <2>5
<1> QED
  BY <1>1, <1>2, <1>3, <1>4, <1>5, <1>6, <1>7 DEF Saved!BackupNext, savedState,
    Saved!Work, Saved!Settle, Saved!Fall, Saved!Start, Saved!Begin, Saved!Stop, Saved!StopFails, Saved!Look,
    Saved!CopyFiles, Saved!CopyVolume, Saved!CopyFails, Saved!Resume, Saved!SnapshotDies

-----------------------------------------------------------------------------
\* The inspection of a link.

LEMMA LinkedStarts == ASSUME Linked!InspectionInit PROVE LinkedInv
  BY PartsAssumption DEF PartsAssumption, Linked!InspectionInit, LinkedInv, Linked!NoReply, Linked!ApprovalIsOwn

LEMMA LinkedSteps == ASSUME LinkedInv, [Linked!InspectionNext]_linkedState PROVE LinkedInv'
<1> USE PartsAssumption DEF PartsAssumption, LinkedInv, Linked!ApprovalIsOwn, Linked!Named, Linked!ById, Linked!inspectVars,
      Linked!gitHubVars, Linked!NameOf, Linked!Refuse
<1>1. CASE UNCHANGED linkedState
  BY <1>1 DEF linkedState
<1>2. ASSUME NEW old \in Names, NEW new \in Names, Linked!Rename(old, new) PROVE LinkedInv'
  BY <1>2 DEF Linked!Rename
<1>3. ASSUME NEW repository \in Repositories, NEW name \in Names, Linked!Create(repository, name) PROVE LinkedInv'
  BY <1>3 DEF Linked!Create
<1>4. ASSUME NEW repository \in Repositories, Linked!Push(repository) PROVE LinkedInv'
  BY <1>4 DEF Linked!Push
<1>5. ASSUME NEW requested \in Names, Linked!Inspect(requested) PROVE LinkedInv'
  BY <1>5 DEF Linked!Inspect, Linked!NoReply
<1>6. CASE Linked!Metadata
  <2>1. CASE Linked!Refuse
    BY <2>1
  <2>2. CASE ~Linked!Refuse
    <3>1. PICK repository \in Linked!Reached : \E name \in Linked!NameOf(repository) :
            /\ Linked!TargetMatches(repository, name) /\ repository \notin closed
            /\ step = "metadata" /\ step' = "commit" /\ seen' = [seen EXCEPT !.name = name, !.id = repository]
            /\ UNCHANGED <<url, attempt, found, Linked!gitHubVars>>
      BY <1>6, <2>2 DEF Linked!Metadata
    <3>2. PICK name \in Linked!NameOf(repository) :
            /\ Linked!TargetMatches(repository, name) /\ repository \notin closed
            /\ step = "metadata" /\ step' = "commit" /\ seen' = [seen EXCEPT !.name = name, !.id = repository]
            /\ UNCHANGED <<url, attempt, found, Linked!gitHubVars>>
      BY <3>1
    <3>3. repository \in Repositories /\ name \in Names /\ holder[name] = {repository}
      BY <3>2 DEF Linked!Reached
    <3>4. seen' = [name |-> name, id |-> repository, requested |-> seen.requested]
      BY <3>2
    <3>5. seen.requested # name => attempt > 0
      BY <3>2 DEF Linked!TargetMatches
    <3> QED
      BY <3>2, <3>3, <3>4, <3>5
  <2> QED
    BY <2>1, <2>2
<1>7. CASE Linked!Redirect
  BY <1>7 DEF Linked!Redirect
<1>8. CASE Linked!NoAnswer
  BY <1>8 DEF Linked!NoAnswer
<1>9. CASE Linked!Commit
  BY <1>9 DEF Linked!Commit
<1>10. CASE Linked!Match
  BY <1>10 DEF Linked!Match, Linked!Resolve
<1> QED
  BY <1>1, <1>2, <1>3, <1>4, <1>5, <1>6, <1>7, <1>8, <1>9, <1>10 DEF Linked!InspectionNext

-----------------------------------------------------------------------------
\* The introduction.

LEMMA IntroStarts == ASSUME Introduced!OnboardingInit PROVE IntroInv
  BY PartsAssumption DEF PartsAssumption, Introduced!OnboardingInit, IntroInv, Introduced!Idle, Introduced!ViewedIsKept,
    Introduced!Absent

LEMMA IntroSteps == ASSUME IntroInv, [Introduced!OnboardingNext]_viewState PROVE IntroInv'
<1> USE PartsAssumption DEF PartsAssumption, IntroInv, Introduced!Idle, Introduced!ViewedIsKept, Introduced!Absent,
      Introduced!At, Introduced!Goes, Introduced!Returns
<1>1. CASE UNCHANGED viewState
  BY <1>1 DEF viewState
<1>2. ASSUME NEW v \in Callers, Introduced!BeginRead(v) \/ Introduced!Open(v) PROVE IntroInv'
  BY <1>2 DEF Introduced!BeginRead, Introduced!Open
<1>3. ASSUME NEW v \in Callers, Introduced!Look(v) PROVE IntroInv'
  <2> DEFINE after == IF progress = Introduced!Absent THEN "opened" ELSE "read"
  <2>1. viewer' = [viewer EXCEPT ![v] = [step |-> after, state |-> viewer[v].state, page |-> viewer[v].page]]
    <3>1. PICK next : next = [viewer[v] EXCEPT !.step = after] /\ viewer' = [viewer EXCEPT ![v] = next]
      BY <1>3 DEF Introduced!Look
    <3>2. DOMAIN next = {"step", "state", "page"} /\ next = [field \in DOMAIN next |-> next[field]]
      BY <3>1
    <3>3. next = [step |-> after, state |-> viewer[v].state, page |-> viewer[v].page]
      BY <3>1, <3>2
    <3> QED
      BY <3>1, <3>3
  <2>2. /\ viewer[v].step = "look" /\ UNCHANGED <<progress, writing, viewed, forgotten>>
        /\ after \in {"opened", "read"} /\ (after = "opened" => progress = Introduced!Absent)
    BY <1>3 DEF Introduced!Look
  <2>3. /\ viewer[v].state = {} /\ viewer[v].page \in Pages \cup {"none"}
        /\ after = "opened" /\ writing = v /\ ~forgotten => viewed = {} \/ \E u \in Callers \ {v} : writing = u
    BY <2>2
  <2> HIDE DEF after
  <2>4. \A u \in Callers : viewer'[u] = IF u = v THEN [step |-> after, state |-> {}, page |-> viewer[v].page] ELSE viewer[u]
    BY <2>1, <2>3
  <2> QED
    BY <2>1, <2>2, <2>3, <2>4
<1>4. ASSUME NEW v \in Callers, Introduced!Read(v) PROVE IntroInv'
  <2>1. CASE progress # Introduced!Absent /\ Introduced!Goes(v, [viewer[v] EXCEPT !.step = "opened", !.state = progress]) /\ UNCHANGED writing
    <3>1. viewer' = [viewer EXCEPT ![v] = [step |-> "opened", state |-> progress, page |-> viewer[v].page]]
      <4>1. PICK next : next = [viewer[v] EXCEPT !.step = "opened", !.state = progress] /\ viewer' = [viewer EXCEPT ![v] = next]
        BY <2>1
      <4>2. DOMAIN next = {"step", "state", "page"} /\ next = [field \in DOMAIN next |-> next[field]]
        BY <4>1
      <4>3. next = [step |-> "opened", state |-> progress, page |-> viewer[v].page]
        BY <4>1, <4>2
      <4> QED
        BY <4>1, <4>3
    <3> QED
      BY <1>4, <2>1, <3>1 DEF Introduced!Read
  <2>2. CASE progress = Introduced!Absent /\ Introduced!Returns(v)
    BY <1>4, <2>2 DEF Introduced!Read
  <2> QED
    BY <1>4, <2>1, <2>2 DEF Introduced!Read
<1>5. ASSUME NEW v \in Callers, NEW page \in Pages, Introduced!MarkViewed(v, page) PROVE IntroInv'
  <2>1. CASE writing # v \/ page \in viewer[v].state
    BY <1>5, <2>1 DEF Introduced!MarkViewed
  <2>2. CASE ~(writing # v \/ page \in viewer[v].state)
    <3>1. viewer' = [viewer EXCEPT ![v] = [step |-> "write", state |-> viewer[v].state, page |-> page]]
      <4>1. PICK next : next = [viewer[v] EXCEPT !.step = "write", !.page = page] /\ viewer' = [viewer EXCEPT ![v] = next]
        BY <1>5, <2>2 DEF Introduced!MarkViewed
      <4>2. DOMAIN next = {"step", "state", "page"} /\ next = [field \in DOMAIN next |-> next[field]]
        BY <4>1
      <4>3. next = [step |-> "write", state |-> viewer[v].state, page |-> page]
        BY <4>1, <4>2
      <4> QED
        BY <4>1, <4>3
    <3> QED
      BY <1>5, <2>2, <3>1 DEF Introduced!MarkViewed
  <2> QED
    BY <2>1, <2>2
<1>6. ASSUME NEW v \in Callers, Introduced!RemoveLive(v) PROVE IntroInv'
  BY <1>6 DEF Introduced!RemoveLive
<1>7. ASSUME NEW v \in Callers, Introduced!Rename(v) PROVE IntroInv'
  BY <1>7 DEF Introduced!Rename
<1>8. ASSUME NEW v \in Callers, Introduced!Breaks(v) PROVE IntroInv'
  BY <1>8 DEF Introduced!Breaks
<1> QED
  BY <1>1, <1>2, <1>3, <1>4, <1>5, <1>6, <1>7, <1>8 DEF Introduced!OnboardingNext


-----------------------------------------------------------------------------
\* The supervisor.

\* What is kept of one caller.
CallRecords == [call : Awake!Calls, step : Awake!Steps, look : Awake!Looks,
                got : Workers \cup {NoOne}, child : Workers \cup {NoOne}]

\* A caller that goes to a step, and looks there if it is one of the looks.
LEMMA CallerAt ==
  ASSUME Awake!TypeOK, NEW c \in Callers, NEW to \in Awake!Steps, Awake!Goto(c, to)
  PROVE  \E next \in CallRecords : /\ caller' = [caller EXCEPT ![c] = next] /\ next.step = to
                                   /\ next.look = "none" \/ (next.look = "begun" /\ to \in Awake!LookSteps)
<1>1. caller[c] \in CallRecords /\ DOMAIN caller = Callers
  BY DEF Awake!TypeOK, CallRecords
<1>2. PICK look \in {"begun", "none"} : /\ look = "none" \/ (look = "begun" /\ to \in Awake!LookSteps)
                                        /\ look = IF to \in Awake!LookSteps THEN "begun" ELSE "none"
  OBVIOUS
<1> DEFINE next == [call |-> caller[c].call, step |-> to, look |-> look, got |-> caller[c].got, child |-> caller[c].child]
<1>3. next \in CallRecords
  BY <1>1 DEF CallRecords, Awake!Looks
<1>4. [[caller[c] EXCEPT !.step = to] EXCEPT !.look = look] = next
  <2>1. PICK new : new = [[caller[c] EXCEPT !.step = to] EXCEPT !.look = look]
    OBVIOUS
  <2>2. /\ DOMAIN new = {"call", "step", "look", "got", "child"} /\ new = [field \in DOMAIN new |-> new[field]]
        /\ new.step = to /\ new.look = look
        /\ new.call = caller[c].call /\ new.got = caller[c].got /\ new.child = caller[c].child
    BY <1>1, <2>1 DEF CallRecords
  <2>3. new = next
    BY <2>2
  <2> QED
    BY <2>1, <2>3
<1>6. caller' = [caller EXCEPT ![c].step = to, ![c].look = look]
  BY <1>2 DEF Awake!Goto
<1>5. caller' = [caller EXCEPT ![c] = [[caller[c] EXCEPT !.step = to] EXCEPT !.look = look]]
  <2>1. DOMAIN caller' = Callers
    BY <1>1, <1>6
  <2>2. caller'[c] = [[caller[c] EXCEPT !.step = to] EXCEPT !.look = look]
    BY <1>1, <1>6
  <2>3. \A d \in Callers \ {c} : caller'[d] = caller[d]
    BY <1>1, <1>6
  <2> QED
    BY <1>1, <1>6, <2>1, <2>2, <2>3
<1> QED
  BY <1>2, <1>3, <1>4, <1>5

\* A caller whose look comes to an answer, or halfway.
Sees(c, look, got) ==
  caller' = [caller EXCEPT ![c].look = look] \/ caller' = [caller EXCEPT ![c].look = look, ![c].got = got]

LEMMA CallerSees ==
  ASSUME Awake!TypeOK, NEW c \in Callers, NEW look \in Awake!Looks, NEW got \in Workers \cup {NoOne},
         Sees(c, look, got)
  PROVE  \E next \in CallRecords : /\ caller' = [caller EXCEPT ![c] = next] /\ next.step = caller[c].step
                                   /\ next.look = look
<1>1. caller[c] \in CallRecords /\ DOMAIN caller = Callers
  BY DEF Awake!TypeOK, CallRecords
<1> DEFINE fields == {"call", "step", "look", "got", "child"}
<1>2. PICK new : new = caller'[c]
  OBVIOUS
<1>3. /\ DOMAIN new = fields /\ new = [field \in DOMAIN new |-> new[field]]
      /\ new.look = look /\ new.step = caller[c].step /\ new.call = caller[c].call
      /\ new.got \in {got, caller[c].got} /\ new.child = caller[c].child
  <2>1. CASE caller' = [caller EXCEPT ![c].look = look]
    <3>1. new = [caller[c] EXCEPT !.look = look]
      BY <1>1, <1>2, <2>1
    <3> QED
      BY <1>1, <3>1 DEF CallRecords
  <2>2. CASE caller' = [caller EXCEPT ![c].look = look, ![c].got = got]
    <3>1. new = [[caller[c] EXCEPT !.look = look] EXCEPT !.got = got]
      BY <1>1, <1>2, <2>2
    <3> QED
      BY <1>1, <3>1 DEF CallRecords
  <2> QED
    BY <2>1, <2>2 DEF Sees
<1>4. new = [call |-> new.call, step |-> new.step, look |-> new.look, got |-> new.got, child |-> new.child]
  BY <1>3
<1>5. new \in CallRecords
  BY <1>1, <1>3, <1>4 DEF CallRecords
<1>6. caller' = [caller EXCEPT ![c] = new]
  <2>1. DOMAIN caller' = Callers /\ caller' = [d \in Callers |-> caller'[d]]
    BY <1>1 DEF Sees
  <2>2. \A d \in Callers \ {c} : caller'[d] = caller[d]
    BY <1>1 DEF Sees
  <2> QED
    BY <1>1, <1>2, <2>1, <2>2
<1> QED
  BY <1>3, <1>5, <1>6

\* What one caller does, seen from the others: theirs is not touched.
Follows(c, next) ==
  /\ caller' = [caller EXCEPT ![c] = next]
  /\ \A d \in Callers \ {c} : /\ spawnLock = d => spawnLock' = d
                              /\ workerLock = d => workerLock' = d
                              /\ caller[d].step = "clear_stop" => asked' = asked
  /\ \A w \in asked : worker[w] = "gone" => worker'[w] = "gone"
  /\ next.look = "holds" \/ next.step = "claimed" => workerLock' = c
  /\ next.step = "claimed" => next.look = "none"
  /\ next.step \in Starting => spawnLock' = c
  /\ next.step = "clear_stop" => \A w \in asked' : worker'[w] = "gone"

LEMMA CallersFollow ==
  ASSUME AwakeInv, NEW c \in Callers, NEW next \in CallRecords, Follows(c, next)
  PROVE  caller' \in [Callers -> CallRecords] /\ CallersOK'
<1>1. DOMAIN caller = Callers /\ \A d \in Callers : caller[d] \in CallRecords
  BY DEF AwakeInv, Awake!TypeOK, CallRecords
<1>2. \A d \in Callers : caller'[d] = IF d = c THEN next ELSE caller[d]
  BY <1>1 DEF Follows
<1>3. caller' \in [Callers -> CallRecords]
  BY <1>1 DEF Follows, AwakeInv, Awake!TypeOK, CallRecords
<1>4. ASSUME NEW d \in Callers
      PROVE  /\ caller'[d].step \in Starting => spawnLock' = d
             /\ caller'[d].look = "holds" \/ caller'[d].step = "claimed" => workerLock' = d
             /\ caller'[d].step = "claimed" => caller'[d].look = "none"
             /\ caller'[d].step = "clear_stop" => \A w \in asked' : worker'[w] = "gone"
  <2>1. CASE d = c
    BY <1>2, <2>1 DEF Follows
  <2>2. CASE d # c
    <3>1. caller'[d] = caller[d]
      BY <1>2, <2>2
    <3> QED
      BY <2>2, <3>1 DEF Follows, AwakeInv, CallersOK
  <2> QED
    BY <2>1, <2>2
<1> QED
  BY <1>3, <1>4 DEF CallersOK

\* What it does with its own step and its own locks.
Moves(c, next) ==
  /\ caller' = [caller EXCEPT ![c] = next] /\ UNCHANGED <<worker, asked>>
  /\ workerLock' = workerLock \/ {workerLock, workerLock'} \subseteq {NoOne, c}
  /\ spawnLock' = spawnLock \/ {spawnLock, spawnLock'} \subseteq {NoOne, c}
  /\ stopFile' = stopFile \/ (stopFile' = FALSE /\ \A w \in asked : worker[w] = "gone")
  /\ UNCHANGED <<status, fresh>> \/ (status' = NoOne /\ fresh' = FALSE)
  /\ next.look = "holds" \/ next.step = "claimed" => workerLock' = c
  /\ next.step = "claimed" => next.look = "none"
  /\ next.step \in Starting => spawnLock' = c
  /\ next.step = "clear_stop" => \A w \in asked : worker[w] = "gone"

LEMMA CallerMoves ==
  ASSUME AwakeInv, NEW c \in Callers, NEW next \in CallRecords, Moves(c, next)
  PROVE  AwakeInv'
<1>0. caller' \in [Callers -> CallRecords] /\ CallersOK'
  <2>1. Follows(c, next)
    BY PartsAssumption DEF PartsAssumption, Moves, Follows
  <2> QED
    BY <2>1, CallersFollow
<1> USE PartsAssumption DEF PartsAssumption, AwakeInv, Awake!TypeOK, Moves
<1>2. Awake!TypeOK'
  <2>2. /\ workerLock' \in Callers \cup Workers \cup {NoOne} /\ spawnLock' \in Callers \cup {NoOne}
        /\ status' \in Workers \cup {NoOne} /\ {fresh', stopFile'} \subseteq BOOLEAN
    OBVIOUS
  <2> QED
    BY <1>0, <2>2 DEF CallRecords
<1>3. \A w \in Workers : worker'[w] \in {"running", "leaving", "left"} <=> workerLock' = w
  <2>1. ASSUME NEW w \in Workers PROVE w # c /\ w # NoOne
    OBVIOUS
  <2> QED
    BY <2>1
<1>5. Awake!StopIsKept'
  <2> SUFFICES ASSUME NEW w \in asked, worker[w] = "running" PROVE stopFile'
    BY DEF Awake!StopIsKept
  <2>1. stopFile
    BY DEF Awake!StopIsKept
  <2> QED
    BY <2>1
<1> QED
  BY <1>0, <1>2, <1>3, <1>5

LEMMA AwakeStarts == ASSUME Awake!SupervisorInit PROVE AwakeInv
<1> USE PartsAssumption DEF PartsAssumption, Awake!SupervisorInit, Awake!Idle
<1>1. Awake!TypeOK
  BY DEF Awake!TypeOK, Awake!Calls, Awake!Steps, Awake!LookSteps, Awake!Looks
<1> QED
  BY <1>1 DEF AwakeInv, CallersOK, Awake!StopIsKept, Starting

\* The steps of a caller that change no lock, or free what the caller has.
LEMMA CallerEnds ==
  ASSUME AwakeInv, NEW c \in Callers, caller' = [caller EXCEPT ![c] = Awake!Idle],
         UNCHANGED <<worker, asked, status, fresh, stopFile>>, workerLock' = workerLock \/ {workerLock, workerLock'} \subseteq {NoOne, c},
         spawnLock' = spawnLock \/ {spawnLock, spawnLock'} \subseteq {NoOne, c}
  PROVE  AwakeInv'
<1>1. Awake!Idle \in CallRecords
  BY DEF CallRecords, Awake!Idle, Awake!Calls, Awake!Steps, Awake!LookSteps, Awake!Looks
<1>2. Awake!Idle.look = "none" /\ Awake!Idle.step = "idle"
  BY DEF Awake!Idle
<1> HIDE DEF Awake!Idle
<1>9. Moves(c, Awake!Idle)
  BY <1>1, <1>2 DEF Moves, Starting
<1> QED
  BY <1>1, <1>2, <1>9, CallerMoves

LEMMA CallerSteps ==
  ASSUME AwakeInv, NEW c \in Callers, Awake!CallerStep(c)
  PROVE  AwakeInv'
<1> USE PartsAssumption DEF PartsAssumption
<1>0. Awake!TypeOK
  BY DEF AwakeInv
<1>1. CASE Awake!Try(c) \/ Awake!SeeTaken(c)
  <2>1. PICK look \in {"holds", "taken"} : /\ Sees(c, look, NoOne)
                                           /\ look = "holds" => workerLock = NoOne /\ workerLock' = c
                                           /\ look = "taken" => workerLock' = workerLock
                                           /\ UNCHANGED <<spawnLock, status, fresh, stopFile, worker, asked>>
    <3>1. CASE Awake!Try(c)
      BY <3>1 DEF Awake!Try, Awake!statusFile, Sees
    <3>2. CASE Awake!SeeTaken(c)
      BY <3>2 DEF Awake!SeeTaken, Awake!OnlyCaller, Awake!locks, Awake!statusFile, Sees
    <3> QED
      BY <1>1, <3>1, <3>2
  <2>2. PICK next \in CallRecords : /\ caller' = [caller EXCEPT ![c] = next] /\ next.step = caller[c].step /\ next.look = look
    <3>1. Sees(c, look, NoOne) /\ look \in Awake!Looks
      BY <2>1 DEF Awake!Looks
    <3>2. NoOne \in Workers \cup {NoOne}
      OBVIOUS
    <3> QED
      BY <1>0, <3>1, <3>2, CallerSees
  <2>3. /\ caller[c].step \in Starting => spawnLock = c
        /\ caller[c].step = "claimed" => caller[c].look = "none"
        /\ caller[c].step = "clear_stop" => \A w \in asked : worker[w] = "gone"
    BY DEF AwakeInv, CallersOK
  <2>4. caller[c].look = "begun"
    BY <1>1 DEF Awake!Try, Awake!SeeTaken
  <2>9. Moves(c, next)
    BY <2>1, <2>2, <2>3, <2>4 DEF Moves, Starting
  <2> QED
    BY <2>1, <2>2, <2>3, <2>4, <2>9, CallerMoves
<1>2. CASE Awake!GiveBack(c) \/ Awake!ReadStatus(c)
  <2>1. PICK got \in Workers \cup {NoOne} : /\ Sees(c, "answered", got)
                                            /\ UNCHANGED <<spawnLock, status, fresh, stopFile, worker, asked>>
                                            /\ \/ workerLock' = workerLock /\ caller[c].look = "taken"
                                               \/ workerLock' = NoOne /\ caller[c].look = "holds"
    <3>1. CASE Awake!GiveBack(c)
      BY <3>1 DEF Awake!GiveBack, Awake!statusFile, Sees
    <3>2. CASE Awake!ReadStatus(c)
      BY <1>0, <3>2 DEF Awake!ReadStatus, Awake!OnlyCaller, Awake!locks, Awake!statusFile, Awake!TypeOK, Sees
    <3> QED
      BY <1>2, <3>1, <3>2
  <2>2. PICK next \in CallRecords : /\ caller' = [caller EXCEPT ![c] = next] /\ next.step = caller[c].step /\ next.look = "answered"
    <3>1. Sees(c, "answered", got) /\ "answered" \in Awake!Looks
      BY <2>1 DEF Awake!Looks
    <3>2. NoOne \in Workers \cup {NoOne}
      OBVIOUS
    <3> QED
      BY <1>0, <3>1, <3>2, CallerSees
  <2>3. /\ caller[c].step \in Starting => spawnLock = c
        /\ caller[c].look = "holds" \/ caller[c].step = "claimed" => workerLock = c
        /\ caller[c].step = "clear_stop" => \A w \in asked : worker[w] = "gone"
    BY DEF AwakeInv, CallersOK
  <2>4. caller[c].step # "claimed"
    BY <2>1 DEF AwakeInv, CallersOK
  <2>9. Moves(c, next)
    BY <2>1, <2>2, <2>3, <2>4 DEF Moves, Starting
  <2> QED
    BY <2>1, <2>2, <2>3, <2>4, <2>9, CallerMoves
<1>3. ASSUME NEW call \in Awake!Calls, Awake!Begin(c, call) PROVE AwakeInv'
  <2> DEFINE next == [call |-> call, step |-> IF call = "stop" THEN "lock" ELSE "first",
                      look |-> IF call = "stop" THEN "none" ELSE "begun", got |-> NoOne, child |-> NoOne]
  <2>1. caller' = [caller EXCEPT ![c] = next]
    <3>1. PICK new : new = [Awake!Idle EXCEPT !.call = call, !.step = IF call = "stop" THEN "lock" ELSE "first",
                                              !.look = IF call = "stop" THEN "none" ELSE "begun"]
                     /\ caller' = [caller EXCEPT ![c] = new]
      BY <1>3 DEF Awake!Begin
    <3>2. DOMAIN new = {"call", "step", "look", "got", "child"} /\ new = [field \in DOMAIN new |-> new[field]]
      BY <3>1 DEF Awake!Idle
    <3>3. new = next
      BY <3>1, <3>2 DEF Awake!Idle
    <3> QED
      BY <3>1, <3>3
  <2>2. next \in CallRecords /\ next.look \in {"none", "begun"} /\ next.step \in {"lock", "first"}
    BY <1>3 DEF CallRecords, Awake!Looks, Awake!Steps, Awake!LookSteps
  <2>3. UNCHANGED <<workerLock, spawnLock, status, fresh, stopFile, worker, asked>>
    BY <1>3 DEF Awake!Begin, Awake!OnlyCaller, Awake!locks, Awake!statusFile
  <2> HIDE DEF next
  <2>9. Moves(c, next)
    BY <2>1, <2>2, <2>3 DEF Moves, Starting
  <2> QED
    BY <2>1, <2>2, <2>3, <2>9, CallerMoves
<1>4. CASE Awake!Satisfied(c) \/ Awake!Confirmed(c) \/ Awake!Refuse(c)
  <2>1. /\ caller' = [caller EXCEPT ![c] = Awake!Idle] /\ UNCHANGED <<worker, asked, status, fresh, stopFile>>
        /\ workerLock' = workerLock \/ {workerLock, workerLock'} \subseteq {NoOne, c}
        /\ spawnLock' = spawnLock \/ {spawnLock, spawnLock'} \subseteq {NoOne, c}
    BY <1>4 DEF Awake!Satisfied, Awake!Confirmed, Awake!Refuse, Awake!Finish, Awake!statusFile
  <2> QED
    BY <2>1, CallerEnds
<1>5. CASE Awake!Unsatisfied(c) \/ Awake!PollAgain(c)
  <2>1. PICK to \in {"lock", "claim", "poll"} : Awake!Goto(c, to) /\ (to # "lock" => caller[c].step \in {"second", "poll"})
    BY <1>5 DEF Awake!Unsatisfied, Awake!PollAgain, Awake!Answered, Awake!At
  <2>2. PICK next \in CallRecords : /\ caller' = [caller EXCEPT ![c] = next] /\ next.step = to
                                    /\ next.look \in {"begun", "none"}
    BY <1>0, <2>1, CallerAt DEF Awake!Steps, Awake!LookSteps
  <2>3. UNCHANGED <<workerLock, spawnLock, status, fresh, stopFile, worker, asked>>
    BY <1>5 DEF Awake!Unsatisfied, Awake!PollAgain, Awake!OnlyCaller, Awake!locks, Awake!statusFile
  <2>4. to # "lock" => spawnLock = c
    BY <2>1 DEF AwakeInv, CallersOK, CallersOK, Starting
  <2>9. Moves(c, next)
    BY <2>1, <2>2, <2>3, <2>4 DEF Moves, Starting
  <2> QED
    BY <2>1, <2>2, <2>3, <2>4, <2>9, CallerMoves
<1>6. CASE Awake!TakeSpawnLock(c)
  <2>1. PICK next \in CallRecords : /\ caller' = [caller EXCEPT ![c] = next] /\ next.step = "second"
                                    /\ next.look \in {"begun", "none"}
    BY <1>0, <1>6, CallerAt DEF Awake!TakeSpawnLock, Awake!Steps, Awake!LookSteps
  <2>2. spawnLock = NoOne /\ spawnLock' = c /\ UNCHANGED <<workerLock, status, fresh, stopFile, worker, asked>>
    BY <1>6 DEF Awake!TakeSpawnLock, Awake!statusFile
  <2>9. Moves(c, next)
    BY <2>1, <2>2 DEF Moves, Starting
  <2> QED
    BY <2>1, <2>2, <2>9, CallerMoves
<1>7. CASE Awake!SpawnLockTaken(c)
  <2>1. UNCHANGED <<workerLock, spawnLock, status, fresh, stopFile, worker, asked>>
    BY <1>7 DEF Awake!SpawnLockTaken, Awake!OnlyCaller, Awake!locks, Awake!statusFile
  <2>2. CASE Awake!Goto(c, "waiting")
    <3>1. PICK next \in CallRecords : /\ caller' = [caller EXCEPT ![c] = next] /\ next.step = "waiting"
                                      /\ next.look \in {"begun", "none"}
      BY <1>0, <2>2, CallerAt DEF Awake!Steps, Awake!LookSteps
    <3>9. Moves(c, next)
      BY <2>1, <3>1 DEF Moves, Starting
    <3> QED
      BY <2>1, <3>1, <3>9, CallerMoves
  <2>3. CASE caller' = [caller EXCEPT ![c] = Awake!Idle]
    BY <2>1, <2>3, CallerEnds
  <2> QED
    BY <1>7, <2>2, <2>3 DEF Awake!SpawnLockTaken
<1>8. CASE Awake!Claim(c)
  <2>1. UNCHANGED <<status, fresh, stopFile, worker, asked>> /\ caller[c].step = "claim" /\ spawnLock = c
    BY <1>8 DEF Awake!Claim, Awake!At, Awake!statusFile, AwakeInv, CallersOK, Starting
  <2>2. CASE workerLock = NoOne
    <3>1. workerLock' = c /\ UNCHANGED spawnLock /\ Awake!Goto(c, "claimed")
      BY <1>8, <2>2 DEF Awake!Claim
    <3>2. PICK next \in CallRecords : /\ caller' = [caller EXCEPT ![c] = next] /\ next.step = "claimed" /\ next.look = "none"
      BY <1>0, <3>1, CallerAt DEF Awake!Steps, Awake!LookSteps
    <3>9. Moves(c, next)
      BY <2>1, <2>2, <3>1, <3>2 DEF Moves, Starting
    <3> QED
      BY <2>1, <2>2, <3>1, <3>2, <3>9, CallerMoves
  <2>3. CASE workerLock # NoOne
    <3>1. UNCHANGED workerLock /\ Awake!Finish(c)
      BY <1>8, <2>3 DEF Awake!Claim
    <3> QED
      BY <2>1, <3>1, CallerEnds DEF Awake!Finish
  <2> QED
    BY <2>2, <2>3
<1>9. CASE Awake!Unclaim(c)
  <2>1. /\ UNCHANGED <<spawnLock, status, fresh, stopFile, worker, asked>> /\ caller[c].step = "claimed"
        /\ workerLock' = NoOne /\ Awake!Goto(c, "clear_stop")
    BY <1>9 DEF Awake!Unclaim, Awake!At, Awake!statusFile
  <2>2. workerLock = c /\ spawnLock = c
    BY <2>1 DEF AwakeInv, CallersOK, CallersOK, Starting
  <2>3. ASSUME NEW w \in asked PROVE worker[w] = "gone"
    <3>1. w \in Workers /\ workerLock # w
      BY <1>0, <2>2 DEF Awake!TypeOK
    <3> QED
      BY <1>0, <3>1 DEF AwakeInv, CallersOK, Awake!TypeOK
  <2>4. PICK next \in CallRecords : /\ caller' = [caller EXCEPT ![c] = next] /\ next.step = "clear_stop" /\ next.look = "none"
    BY <1>0, <2>1, CallerAt DEF Awake!Steps, Awake!LookSteps
  <2>9. Moves(c, next)
    BY <2>1, <2>2, <2>3, <2>4 DEF Moves, Starting
  <2> QED
    BY <2>1, <2>2, <2>3, <2>4, <2>9, CallerMoves
<1>10. CASE Awake!ClearStop(c) \/ Awake!ClearStatus(c)
  <2>1. PICK to \in {"clear_status", "spawn"} : Awake!Goto(c, to)
    BY <1>10 DEF Awake!ClearStop, Awake!ClearStatus
  <2>2. PICK next \in CallRecords : /\ caller' = [caller EXCEPT ![c] = next] /\ next.step = to /\ next.look = "none"
    BY <1>0, <2>1, CallerAt DEF Awake!Steps, Awake!LookSteps
  <2>3. /\ UNCHANGED <<workerLock, spawnLock, worker, asked>> /\ spawnLock = c
        /\ stopFile' = stopFile \/ (stopFile' = FALSE /\ \A w \in asked : worker[w] = "gone")
        /\ UNCHANGED <<status, fresh>> \/ (status' = NoOne /\ fresh' = FALSE)
    BY <1>10 DEF Awake!ClearStop, Awake!ClearStatus, Awake!At, Awake!locks, Awake!statusFile, AwakeInv, CallersOK, Starting
  <2>9. Moves(c, next)
    BY <2>2, <2>3 DEF Moves, Starting
  <2> QED
    BY <2>2, <2>3, <2>9, CallerMoves

<1>11. CASE Awake!Spawn(c)
  <2>1. PICK w \in Workers : /\ worker[w] = "unborn" /\ worker' = [worker EXCEPT ![w] = "starting"]
                             /\ caller' = [caller EXCEPT ![c].step = "poll", ![c].look = "begun", ![c].child = w]
    BY <1>11 DEF Awake!Spawn
  <2>2. caller[c].step = "spawn" /\ UNCHANGED <<workerLock, spawnLock, status, fresh, stopFile, asked>>
    BY <1>11 DEF Awake!Spawn, Awake!At, Awake!locks, Awake!statusFile
  <2>3. PICK next \in CallRecords : /\ caller' = [caller EXCEPT ![c] = next] /\ next.step = "poll" /\ next.look = "begun"
    <3> DEFINE next == [call |-> caller[c].call, step |-> "poll", look |-> "begun", got |-> caller[c].got, child |-> w]
    <3>1. caller[c] \in CallRecords /\ DOMAIN caller = Callers
      BY <1>0 DEF Awake!TypeOK, CallRecords
    <3>2. next \in CallRecords
      BY <3>1 DEF CallRecords, Awake!Looks, Awake!Steps, Awake!LookSteps
    <3>3. caller'[c] = next
      <4>1. caller'[c] = [[[caller[c] EXCEPT !.step = "poll"] EXCEPT !.look = "begun"] EXCEPT !.child = w]
        BY <2>1, <3>1
      <4>2. /\ DOMAIN caller'[c] = {"call", "step", "look", "got", "child"}
            /\ caller'[c] = [field \in DOMAIN caller'[c] |-> caller'[c][field]]
            /\ caller'[c].call = caller[c].call /\ caller'[c].step = "poll" /\ caller'[c].look = "begun"
            /\ caller'[c].got = caller[c].got /\ caller'[c].child = w
        BY <3>1, <4>1 DEF CallRecords
      <4> QED
        BY <4>2
    <3>4. \A d \in Callers \ {c} : caller'[d] = caller[d]
      BY <2>1, <3>1
    <3>5. caller' = [caller EXCEPT ![c] = next]
      <4>1. DOMAIN caller' = Callers
        BY <2>1, <3>1
      <4> HIDE DEF next
      <4> QED
        BY <2>1, <3>1, <3>3, <3>4, <4>1
    <3> QED
      BY <3>2, <3>5
  <2>4. w \notin asked /\ workerLock # w
    BY <1>0, <2>1 DEF AwakeInv, Awake!TypeOK
  <2>5. Follows(c, next)
    BY <1>0, <2>1, <2>2, <2>3, <2>4 DEF Follows, AwakeInv, CallersOK, Starting, Awake!TypeOK
  <2>6. caller' \in [Callers -> CallRecords] /\ CallersOK'
    BY <2>3, <2>5, CallersFollow
  <2>7. Awake!TypeOK'
    BY <1>0, <2>1, <2>2, <2>6 DEF Awake!TypeOK, CallRecords
  <2>8. \A v \in Workers : worker'[v] = IF v = w THEN "starting" ELSE worker[v]
    BY <1>0, <2>1 DEF Awake!TypeOK
  <2> QED
    BY <1>0, <2>1, <2>2, <2>4, <2>6, <2>7, <2>8 DEF AwakeInv, Awake!StopIsKept, Awake!TypeOK
<1>12. CASE Awake!NotConfirmed(c)
  <2> DEFINE w == caller[c].child
  <2>1. /\ caller' = [caller EXCEPT ![c] = Awake!Idle] /\ UNCHANGED <<status, fresh, stopFile, asked>>
        /\ worker' = [worker EXCEPT ![w] = "gone"] /\ workerLock' = IF workerLock = w THEN NoOne ELSE workerLock
        /\ spawnLock' = IF spawnLock = c THEN NoOne ELSE spawnLock
    BY <1>12 DEF Awake!NotConfirmed, Awake!Freed, Awake!Finish, Awake!statusFile
  <2>2. w \in Workers \cup {NoOne}
    BY <1>0 DEF Awake!TypeOK
  <2> HIDE DEF w
  <2>3. \A v \in Workers : worker'[v] = IF v = w THEN "gone" ELSE worker[v]
    BY <1>0, <2>1 DEF Awake!TypeOK
  <2>4. Awake!Idle \in CallRecords /\ Awake!Idle.look = "none" /\ Awake!Idle.step = "idle"
    BY DEF CallRecords, Awake!Idle, Awake!Calls, Awake!Steps, Awake!LookSteps, Awake!Looks
  <2>5. Follows(c, Awake!Idle)
    BY <1>0, <2>1, <2>2, <2>3, <2>4 DEF Follows, Starting, Awake!TypeOK
  <2>6. caller' \in [Callers -> CallRecords] /\ CallersOK'
    BY <2>4, <2>5, CallersFollow
  <2>7. Awake!TypeOK'
    BY <1>0, <2>1, <2>2, <2>6 DEF Awake!TypeOK, CallRecords
  <2> QED
    BY <1>0, <2>1, <2>2, <2>3, <2>6, <2>7 DEF AwakeInv, Awake!StopIsKept, Awake!TypeOK
<1>13. CASE Awake!Ask(c)
  <2>1. /\ caller' = [caller EXCEPT ![c] = Awake!Idle] /\ UNCHANGED <<workerLock, status, fresh, worker>>
        /\ stopFile' /\ asked' = asked \cup {w \in Workers : workerLock = w} /\ caller[c].step = "second"
        /\ spawnLock' = IF spawnLock = c THEN NoOne ELSE spawnLock
    BY <1>13 DEF Awake!Ask, Awake!Answered, Awake!At, Awake!Finish, Awake!statusFile
  <2>2. stopFile' = TRUE
    BY <1>13 DEF Awake!Ask
  <2>4. Awake!Idle \in CallRecords /\ Awake!Idle.look = "none" /\ Awake!Idle.step = "idle"
    BY DEF CallRecords, Awake!Idle, Awake!Calls, Awake!Steps, Awake!LookSteps, Awake!Looks
  <2>5. Follows(c, Awake!Idle)
    BY <1>0, <2>1, <2>4 DEF Follows, Starting, AwakeInv, CallersOK
  <2>6. caller' \in [Callers -> CallRecords] /\ CallersOK'
    BY <2>4, <2>5, CallersFollow
  <2>7. Awake!TypeOK'
    BY <1>0, <2>1, <2>2, <2>6 DEF Awake!TypeOK, CallRecords
  <2> QED
    BY <1>0, <2>1, <2>6, <2>7 DEF AwakeInv, Awake!StopIsKept, Awake!TypeOK
<1> QED
  BY <1>1, <1>2, <1>3, <1>4, <1>5, <1>6, <1>7, <1>8, <1>9, <1>10, <1>11, <1>12, <1>13 DEF Awake!CallerStep, Awake!Look

\* The steps of a worker.
LEMMA WorkerSteps ==
  ASSUME AwakeInv, NEW w \in Workers, Awake!WorkerStep(w)
  PROVE  AwakeInv'
<1> USE PartsAssumption DEF PartsAssumption
<1>1. CASE Awake!Beat(w)
  BY <1>1 DEF Awake!Beat, Awake!locks, AwakeInv, CallersOK, Awake!TypeOK, Awake!StopIsKept
<1>2. CASE ~Awake!Beat(w)
  <2>1. PICK to \in {"running", "leaving", "left", "gone"} :
          /\ worker' = [worker EXCEPT ![w] = to] /\ UNCHANGED <<spawnLock, stopFile, caller, asked>>
          /\ to \in {"running", "leaving", "left"} <=> workerLock' = w
          /\ workerLock' = workerLock \/ {workerLock, workerLock'} = {w, NoOne}
          /\ UNCHANGED <<status, fresh>> \/ (status' = NoOne /\ fresh' = FALSE)
          /\ to = "running" => worker[w] = "starting"
          /\ worker[w] # "gone"
    <3>1. worker[w] \in {"running", "leaving", "left"} <=> workerLock = w
      BY DEF AwakeInv
    <3>2. CASE Awake!TakeWorkerLock(w)
      BY <3>1, <3>2 DEF Awake!TakeWorkerLock, Awake!statusFile
    <3>3. CASE Awake!Leave(w) \/ Awake!WorkerFails(w) \/ Awake!RemoveStatus(w)
      BY <3>1, <3>3 DEF Awake!Leave, Awake!WorkerFails, Awake!RemoveStatus, Awake!locks, Awake!statusFile
    <3>4. CASE Awake!Exit(w) \/ Awake!Die(w)
      BY <3>1, <3>4 DEF Awake!Exit, Awake!Die, Awake!Freed, Awake!statusFile
    <3> QED
      BY <1>2, <3>2, <3>3, <3>4 DEF Awake!WorkerStep, Awake!Leaves
  <2>2. Awake!TypeOK
    BY DEF AwakeInv
  <2>3. \A v \in Workers : worker'[v] = IF v = w THEN to ELSE worker[v]
    BY <2>1, <2>2 DEF Awake!TypeOK
  <2>4. Awake!TypeOK'
    BY <2>1, <2>2 DEF Awake!TypeOK
  <2>5. CallersOK'
    BY <2>1, <2>2, <2>3 DEF AwakeInv, CallersOK, Awake!TypeOK
  <2>6. \A v \in Workers : worker'[v] \in {"running", "leaving", "left"} <=> workerLock' = v
    BY <2>1, <2>3 DEF AwakeInv
  <2> QED
    BY <2>1, <2>2, <2>3, <2>4, <2>5, <2>6 DEF AwakeInv, Awake!StopIsKept, Awake!TypeOK
<1> QED
  BY <1>1, <1>2

LEMMA AwakeSteps == ASSUME AwakeInv, [Awake!SupervisorNext]_awakeState PROVE AwakeInv'
<1>1. CASE UNCHANGED awakeState
  BY <1>1 DEF awakeState, AwakeInv, CallersOK, Awake!TypeOK, Awake!StopIsKept
<1>2. CASE Awake!GrowOld
  BY <1>2 DEF Awake!GrowOld, Awake!locks, AwakeInv, CallersOK, Awake!TypeOK, Awake!StopIsKept
<1> QED
  BY <1>1, <1>2, CallerSteps, WorkerSteps DEF Awake!SupervisorNext

-----------------------------------------------------------------------------
\* A run.

\* The smaller of two numbers.
LEMMA LeastOfTwo ==
  ASSUME NEW a \in Nat, NEW b \in Nat
  PROVE  Command!Min({a, b}) = IF a <= b THEN a ELSE b
<1> DEFINE least == IF a <= b THEN a ELSE b
<1>1. least \in {a, b} /\ \A y \in {a, b} : least <= y
  OBVIOUS
<1>2. \A x \in {a, b} : (\A y \in {a, b} : x <= y) => x = least
  OBVIOUS
<1> HIDE DEF least
<1>3. Command!Min({a, b}) = least
  BY <1>1, <1>2 DEF Command!Min
<1> QED
  BY <1>3 DEF least

LEMMA RunStarts == ASSUME Command!RunnerInit PROVE RunInv
<1> USE RunnerAssumption DEF RunnerAssumption
<1>1. /\ wrote = [s \in Command!Streams |-> 0] /\ piped = [s \in Command!Streams |-> 0] /\ done = {} /\ taken = <<>>
      /\ \A s \in Command!Streams : sink[s] = [bytes |-> 0, dropped |-> 0]
      /\ DOMAIN sink = Command!Streams /\ sink = [s \in Command!Streams |-> [bytes |-> 0, dropped |-> 0]]
      /\ job \in BOOLEAN /\ group = FALSE /\ members = {} /\ phase = "called"
  BY DEF Command!RunnerInit
<1>2. tree = [child |-> "none", grandchild |-> "none"]
  BY DEF Command!RunnerInit
<1>3. tree \in [{"child", "grandchild"} -> {"none", "running", "ended"}] /\ tree["child"] = "none" /\ tree["grandchild"] = "none"
  BY <1>2
<1>4. sink \in [Command!Streams -> [bytes : 0..MaxCaptured, dropped : Nat]]
  BY <1>1
<1>5. RunTypes
  <2>1. wrote \in [Command!Streams -> Nat] /\ piped \in [Command!Streams -> Nat]
    BY <1>1
  <2>2. taken \in Seq(Taken)
    BY <1>1
  <2> QED
    BY <1>1, <1>3, <1>4, <2>1, <2>2 DEF RunTypes
<1>6. Command!Running = {}
  BY <1>3 DEF Command!Running
<1>7. PipesOK
  BY <1>1 DEF PipesOK
<1> QED
  BY <1>1, <1>3, <1>5, <1>6, <1>7 DEF RunInv, PhasesOK, TakenOK, GroupOK

\* A step that leaves the pipes, and what was taken of them.
LEMMA ProcessesMove ==
  ASSUME RunInv, UNCHANGED <<job, wrote, piped, sink, done, taken>>,
         tree' \in [{"child", "grandchild"} -> {"none", "running", "ended"}],
         group' \in BOOLEAN, members' \subseteq {"child", "grandchild"}, PhasesOK', GroupOK'
  PROVE  RunInv'
<1>1. RunTypes'
  BY DEF RunInv, RunTypes, Command!Streams
<1>2. PipesOK'
  BY DEF RunInv, PipesOK, Command!Streams
<1>3. TakenOK'
  BY DEF RunInv, TakenOK, IsTrue
<1> QED
  BY <1>1, <1>2, <1>3 DEF RunInv

\* A step that leaves the processes and the run.
LEMMA PipesMove ==
  ASSUME RunInv, UNCHANGED <<job, phase, outcome, group, members, killed, tree, taken>>,
         wrote' \in [Command!Streams -> Nat], piped' \in [Command!Streams -> Nat],
         sink' \in [Command!Streams -> [bytes : 0..MaxCaptured, dropped : Nat]],
         \A s \in Command!Streams : /\ wrote'[s] >= wrote[s]
                                    /\ s \in done => s \in done' /\ sink'[s] = sink[s],
         PipesOK', done' # {} => Command!Running = {} /\ phase # "called"
  PROVE  RunInv'
<1>1. RunTypes'
  BY DEF RunInv, RunTypes, Command!Streams, Taken
<1>2. Command!Running' = Command!Running
  BY DEF Command!Running
<1>3. PhasesOK' /\ GroupOK'
  BY <1>2 DEF RunInv, PhasesOK, GroupOK
<1>4. ASSUME NEW i \in DOMAIN taken PROVE IsTrue(taken[i])'
  <2>1. taken[i] \in Taken /\ IsTrue(taken[i])
    BY DEF RunInv, RunTypes, TakenOK
  <2>2. taken[i].stream \in Command!Streams /\ wrote[taken[i].stream] \in Nat /\ wrote'[taken[i].stream] \in Nat
        /\ taken[i].bytes \in Nat
    BY <2>1, RunnerAssumption DEF Taken, RunInv, RunTypes, RunnerAssumption
  <2> QED
    BY <2>1, <2>2, RunnerAssumption DEF IsTrue, RunnerAssumption
<1>5. TakenOK'
  BY <1>4 DEF TakenOK
<1> QED
  BY <1>1, <1>3, <1>5 DEF RunInv

\* What a command does.
LEMMA CommandSteps ==
  ASSUME RunInv, Command!Command, phase # "returned"
  PROVE  RunInv'
<1>0. RunTypes /\ PhasesOK /\ PipesOK /\ GroupOK
  BY DEF RunInv
<1>1. ASSUME NEW p \in DOMAIN tree, Command!Ends(p) PROVE RunInv'
  <2>1. /\ UNCHANGED <<job, phase, outcome, group, members, killed, taken, wrote, piped, sink, done>>
        /\ p \in Command!Running /\ tree' = [tree EXCEPT ![p] = "ended"]
    BY <1>1 DEF Command!Ends, Command!runVars, Command!pipeVars
  <2>2. /\ tree' \in [{"child", "grandchild"} -> {"none", "running", "ended"}] /\ Command!Running' \subseteq Command!Running
        /\ tree[p] = "running" /\ p \in {"child", "grandchild"}
    BY <1>0, <2>1 DEF RunTypes, Command!Running
  <2>3. PhasesOK'
    BY <1>0, <2>1, <2>2 DEF PhasesOK
  <2>4. GroupOK'
    BY <1>0, <2>1, <2>2 DEF GroupOK
  <2> QED
    BY <1>0, <2>1, <2>2, <2>3, <2>4, ProcessesMove DEF RunTypes
<1>2. ASSUME NEW p \in DOMAIN tree, NEW s \in Command!Streams, Command!Write(p, s) PROVE RunInv'
  <2>1. /\ UNCHANGED <<job, phase, outcome, group, members, killed, taken, tree, sink, done>> /\ p \in Command!Running
        /\ wrote' = [wrote EXCEPT ![s] = wrote[s] + 1] /\ piped' = [piped EXCEPT ![s] = piped[s] + 1]
    BY <1>2 DEF Command!Write, Command!runVars
  <2>2. /\ wrote' \in [Command!Streams -> Nat] /\ piped' \in [Command!Streams -> Nat]
        /\ \A r \in Command!Streams : /\ wrote'[r] = IF r = s THEN wrote[r] + 1 ELSE wrote[r]
                                      /\ piped'[r] = IF r = s THEN piped[r] + 1 ELSE piped[r]
    BY <1>0, <2>1 DEF RunTypes
  <2>3. done = {}
    BY <1>0, <2>1 DEF PhasesOK
  <2>4. PipesOK'
    <3> SUFFICES ASSUME NEW r \in Command!Streams
                 PROVE  /\ wrote'[r] = piped'[r] + sink[r].bytes + sink[r].dropped
                        /\ sink[r].dropped > 0 => sink[r].bytes = MaxCaptured
      BY <2>1, <2>3 DEF PipesOK, Command!Streams
    <3>1. sink[r].bytes \in Nat /\ sink[r].dropped \in Nat /\ wrote[r] \in Nat /\ piped[r] \in Nat
      BY <1>0, RunnerAssumption DEF RunTypes, RunnerAssumption
    <3>2. /\ wrote[r] = piped[r] + sink[r].bytes + sink[r].dropped
          /\ sink[r].dropped > 0 => sink[r].bytes = MaxCaptured
      BY <1>0 DEF PipesOK
    <3> QED
      BY <2>2, <3>1, <3>2
  <2>5. \A r \in Command!Streams : wrote'[r] >= wrote[r] /\ sink'[r] = sink[r]
    BY <1>0, <2>1, <2>2 DEF RunTypes
  <2> QED
    BY <1>0, <2>1, <2>2, <2>3, <2>4, <2>5, PipesMove DEF RunTypes
<1>3. CASE Command!StartsAnother
  <2>1. /\ UNCHANGED <<job, phase, outcome, group, killed, taken, wrote, piped, sink, done>>
        /\ "child" \in Command!Running \ killed /\ tree["grandchild"] = "none" /\ tree' = [tree EXCEPT !["grandchild"] = "running"]
        /\ members' = IF "child" \in members THEN members \cup {"grandchild"} ELSE members
    BY <1>3 DEF Command!StartsAnother, Command!pipeVars
  <2>2. /\ tree' \in [{"child", "grandchild"} -> {"none", "running", "ended"}] /\ tree["child"] = "running"
        /\ Command!Running' = Command!Running \cup {"grandchild"}
    BY <1>0, <2>1 DEF RunTypes, Command!Running
  <2>3. PhasesOK'
    BY <1>0, <2>1, <2>2 DEF PhasesOK
  <2>4. GroupOK'
    BY <1>0, <2>1, <2>2 DEF GroupOK
  <2> QED
    BY <1>0, <2>1, <2>2, <2>3, <2>4, ProcessesMove DEF RunTypes
<1>4. ASSUME NEW s \in Command!Streams, Command!Reads(s) PROVE RunInv'
  <2>1. PICK chunk \in 1..piped[s] : piped' = [piped EXCEPT ![s] = piped[s] - chunk] /\ sink' = [sink EXCEPT ![s] = Command!Push(s, chunk)]
    BY <1>4 DEF Command!Reads
  <2>2. PICK new : new = Command!Push(s, chunk)
    OBVIOUS
  <2>3. sink[s] \in [bytes : 0..MaxCaptured, dropped : Nat] /\ piped[s] \in Nat /\ chunk \in Nat /\ chunk <= piped[s]
    BY <1>0 DEF RunTypes
  <2>4. /\ new \in [bytes : 0..MaxCaptured, dropped : Nat] /\ (new.dropped > 0 => new.bytes = MaxCaptured)
        /\ new.bytes + new.dropped = sink[s].bytes + sink[s].dropped + chunk
    <3>1. MaxCaptured \in Nat /\ MaxCaptured - sink[s].bytes \in Nat /\ sink[s].bytes \in Nat /\ sink[s].dropped \in Nat
      BY <2>3, RunnerAssumption DEF RunnerAssumption
    <3>2. Command!Min({MaxCaptured - sink[s].bytes, chunk}) = IF MaxCaptured - sink[s].bytes <= chunk THEN MaxCaptured - sink[s].bytes ELSE chunk
      BY <2>3, <3>1, LeastOfTwo
    <3>3. PICK k \in Nat : k = Command!Min({MaxCaptured - sink[s].bytes, chunk}) /\ k <= chunk /\ k <= MaxCaptured - sink[s].bytes
                           /\ (k < chunk => k = MaxCaptured - sink[s].bytes)
      BY <2>3, <3>1, <3>2
    <3>4. new = [bytes |-> sink[s].bytes + k, dropped |-> sink[s].dropped + (chunk - k)]
      BY <2>2, <3>3 DEF Command!Push
    <3>5. sink[s].dropped > 0 => sink[s].bytes = MaxCaptured
      BY <1>0 DEF PipesOK
    <3> QED
      BY <2>3, <3>1, <3>3, <3>4, <3>5
  <2>5. UNCHANGED <<job, phase, outcome, group, members, killed, taken, tree, wrote, done>> /\ s \notin done
    BY <1>4 DEF Command!Reads, Command!runVars
  <2>6. /\ piped' \in [Command!Streams -> Nat] /\ sink' \in [Command!Streams -> [bytes : 0..MaxCaptured, dropped : Nat]]
        /\ \A r \in Command!Streams : /\ piped'[r] = IF r = s THEN piped[r] - chunk ELSE piped[r]
                                      /\ sink'[r] = IF r = s THEN new ELSE sink[r]
    BY <1>0, <2>1, <2>2, <2>3, <2>4 DEF RunTypes
  <2>7. PipesOK'
    <3> SUFFICES ASSUME NEW r \in Command!Streams
                 PROVE  /\ r \in done => piped'[r] = 0
                        /\ wrote[r] = piped'[r] + sink'[r].bytes + sink'[r].dropped
                        /\ sink'[r].dropped > 0 => sink'[r].bytes = MaxCaptured
      BY <2>5 DEF PipesOK, Command!Streams
    <3>1. CASE r = s
      <4>1. wrote[r] = piped[s] + sink[s].bytes + sink[s].dropped /\ piped'[r] = piped[s] - chunk /\ sink'[r] = new
        BY <1>0, <2>6, <3>1 DEF PipesOK
      <4> QED
        BY <2>3, <2>4, <2>5, <3>1, <4>1, RunnerAssumption DEF RunnerAssumption
    <3>2. CASE r # s
      <4>1. piped'[r] = piped[r] /\ sink'[r] = sink[r]
        BY <2>6, <3>2
      <4>2. /\ r \in done => piped[r] = 0
            /\ wrote[r] = piped[r] + sink[r].bytes + sink[r].dropped
            /\ sink[r].dropped > 0 => sink[r].bytes = MaxCaptured
        BY <1>0 DEF PipesOK
      <4> QED
        BY <4>1, <4>2
    <3> QED
      BY <3>1, <3>2
  <2>8. \A r \in Command!Streams : wrote'[r] >= wrote[r] /\ (r \in done => sink'[r] = sink[r])
    BY <1>0, <2>5, <2>6 DEF RunTypes
  <2> QED
    BY <1>0, <2>5, <2>6, <2>7, <2>8, PipesMove DEF RunTypes, PhasesOK
<1>5. ASSUME NEW s \in Command!Streams, Command!SeesTheEnd(s) PROVE RunInv'
  <2>1. /\ UNCHANGED <<job, phase, outcome, group, members, killed, taken, tree, wrote, piped, sink>>
        /\ phase # "called" /\ piped[s] = 0 /\ Command!Running = {} /\ done' = done \cup {s}
    BY <1>5 DEF Command!SeesTheEnd, Command!runVars
  <2>2. PipesOK'
    BY <1>0, <2>1 DEF PipesOK, Command!Streams
  <2>3. \A r \in Command!Streams : wrote'[r] >= wrote[r] /\ sink'[r] = sink[r]
    BY <1>0, <2>1 DEF RunTypes
  <2> QED
    BY <1>0, <2>1, <2>2, <2>3, PipesMove DEF RunTypes
<1> QED
  BY <1>1, <1>2, <1>3, <1>4, <1>5 DEF Command!Command

\* What the runner does, and the world: the pipes are as they were.
LEMMA RunnerSteps ==
  ASSUME RunInv, Command!Spawn \/ Command!Runner \/ Command!Cancel \/ Command!Deadline \/ Command!ReadersDeadline,
         phase # "returned"
  PROVE  RunInv'
<1>0. RunTypes /\ PhasesOK /\ PipesOK /\ GroupOK /\ TakenOK
  BY DEF RunInv
<1>1. CASE Command!Cancel \/ Command!Deadline \/ Command!ReadersDeadline
  <2>1. UNCHANGED <<job, phase, outcome, group, members, killed, taken, tree, wrote, piped, sink, done>>
    BY <1>1 DEF Command!Cancel, Command!Deadline, Command!ReadersDeadline, Command!pipeVars, Command!runVars
  <2> QED
    BY <1>0, <2>1, ProcessesMove DEF RunTypes, PhasesOK, GroupOK, Command!Running
<1>2. CASE Command!Spawn
  <2>1. /\ UNCHANGED <<job, group, killed, taken, wrote, piped, sink, done>> /\ phase = "called"
        /\ \/ phase' = "returned" /\ UNCHANGED <<tree, members>>
           \/ phase' = "spawned" /\ tree' = [tree EXCEPT !["child"] = "running"] /\ members' = IF job THEN {} ELSE {"child"}
    BY <1>2 DEF Command!Spawn, Command!pipeVars
  <2>2. ~group /\ done = {}
    BY <1>0, <2>1 DEF PhasesOK
  <2>3. CASE phase' = "returned" /\ UNCHANGED <<tree, members>>
    BY <1>0, <2>1, <2>2, <2>3, ProcessesMove DEF RunTypes, PhasesOK, GroupOK, Command!Running
  <2>4. CASE phase' = "spawned" /\ tree' = [tree EXCEPT !["child"] = "running"] /\ members' = IF job THEN {} ELSE {"child"}
    <3>1. /\ tree' \in [{"child", "grandchild"} -> {"none", "running", "ended"}] /\ members' \subseteq {"child", "grandchild"}
          /\ Command!Running' = {"child"}
      BY <1>0, <2>1, <2>4 DEF RunTypes, PhasesOK, Command!Running
    <3> QED
      BY <1>0, <2>1, <2>2, <2>4, <3>1, ProcessesMove DEF RunTypes, PhasesOK, GroupOK
  <2> QED
    BY <2>1, <2>3, <2>4
<1>3. CASE Command!Attach
  <2>1. /\ UNCHANGED <<job, outcome, tree, killed, taken, wrote, piped, sink, done>> /\ phase = "spawned" /\ phase' = "polling"
        /\ group' \in BOOLEAN
        /\ members' = IF job /\ group' THEN {"child"} \ {p \in DOMAIN tree : tree[p] = "ended"} ELSE members
    BY <1>3 DEF Command!Attach, Command!pipeVars
  <2>2. members' \subseteq {"child", "grandchild"} /\ Command!Running' = Command!Running
    BY <1>0, <2>1 DEF RunTypes, Command!Running
  <2> QED
    BY <1>0, <2>1, <2>2, ProcessesMove DEF RunTypes, PhasesOK, GroupOK
<1>4. CASE Command!TryWait \/ Command!Watch \/ Command!Reap
  <2>1. /\ UNCHANGED <<job, group, members, killed, taken, tree, wrote, piped, sink, done>>
        /\ phase' \in {"collecting", "watching", "polling", "stopping", "reaping"} /\ phase \notin {"called", "spawned", "collecting"}
        /\ phase' = "collecting" => outcome' = "exited" \/ (phase = "reaping" /\ outcome' = outcome)
        /\ phase' # "reaping"
    BY <1>4 DEF Command!TryWait, Command!Watch, Command!Reap, Command!pipeVars
  <2>2. Command!Running' = Command!Running
    BY <2>1 DEF Command!Running
  <2>3. phase' = "collecting" => Len(taken) < 2
    <3>1. phase # "collecting" /\ phase # "returned" => taken = <<>>
      BY <1>0 DEF PhasesOK
    <3> QED
      BY <2>1, <3>1
  <2>4. PhasesOK'
    BY <1>0, <2>1, <2>2, <2>3 DEF PhasesOK
  <2>5. GroupOK'
    BY <1>0, <2>1, <2>2 DEF GroupOK
  <2> QED
    BY <1>0, <2>1, <2>4, <2>5, ProcessesMove DEF RunTypes
<1>5. CASE Command!Terminate
  <2>1. /\ UNCHANGED <<job, outcome, group, members, taken, tree, wrote, piped, sink, done>>
        /\ phase = "stopping" /\ phase' = "reaping" /\ killed' = IF group THEN members ELSE {"child"}
    BY <1>5 DEF Command!Terminate, Command!pipeVars
  <2>2. Command!Running' = Command!Running
    BY <2>1 DEF Command!Running
  <2> QED
    BY <1>0, <2>1, <2>2, ProcessesMove DEF RunTypes, PhasesOK, GroupOK
<1>6. CASE Command!TakeOutput
  <2>1. /\ UNCHANGED <<job, outcome, group, members, killed, tree, wrote, piped, sink, done>> /\ phase = "collecting"
        /\ phase' = IF Len(taken') = 2 THEN "returned" ELSE phase
    BY <1>6 DEF Command!TakeOutput, Command!pipeVars
  <2>2. taken \in Seq(Taken) /\ Len(taken) \in Nat /\ Len(taken) < 2
    BY <1>0, <2>1 DEF RunTypes, PhasesOK
  <2>3. PICK s \in Command!Streams :
          taken' = Append(taken, [stream |-> s, bytes |-> sink[s].bytes, cut |-> sink[s].dropped > 0, whole |-> s \in done])
    <3>1. <<"out", "err">>[Len(taken) + 1] \in Command!Streams
      BY <2>2, RunnerAssumption DEF Command!Streams, RunnerAssumption
    <3> QED
      BY <1>6, <3>1 DEF Command!TakeOutput
  <2>4. PICK it : it = [stream |-> s, bytes |-> sink[s].bytes, cut |-> sink[s].dropped > 0, whole |-> s \in done]
    OBVIOUS
  <2>5. /\ sink[s].bytes \in 0..MaxCaptured /\ sink[s].dropped \in Nat /\ piped[s] \in Nat /\ wrote[s] \in Nat
        /\ (sink[s].dropped > 0) \in BOOLEAN
    BY <1>0 DEF RunTypes
  <2>6. it \in Taken
    BY <2>4, <2>5 DEF Taken
  <2>7. /\ wrote[s] = piped[s] + sink[s].bytes + sink[s].dropped /\ (sink[s].dropped > 0 => sink[s].bytes = MaxCaptured)
    BY <1>0 DEF PipesOK
  <2>8. IsTrue(it)
    <3>1. sink[s].bytes <= wrote[s] /\ (sink[s].dropped > 0 => wrote[s] > MaxCaptured)
      BY <2>5, <2>7, RunnerAssumption DEF RunnerAssumption
    <3> QED
      BY <2>4, <2>7, <3>1 DEF IsTrue
  <2>9. /\ taken' \in Seq(Taken) /\ Len(taken') = Len(taken) + 1 /\ DOMAIN taken' = 1..(Len(taken) + 1)
        /\ \A i \in DOMAIN taken' : taken'[i] = it \/ (i \in DOMAIN taken /\ taken'[i] = taken[i])
    BY <2>2, <2>3, <2>4, <2>6
  <2>10. TakenOK'
    <3>1. \A i \in DOMAIN taken' : IsTrue(taken'[i])
      BY <1>0, <2>8, <2>9 DEF TakenOK
    <3> QED
      BY <2>1, <3>1 DEF TakenOK, IsTrue
  <2>11. RunTypes'
    BY <1>0, <2>1, <2>9 DEF RunTypes, Command!Streams, Taken
  <2>12. phase' \in {"collecting", "returned"} /\ (phase' = "collecting" => Len(taken') < 2)
    BY <2>1, <2>2, <2>9
  <2>13. Command!Running' = Command!Running
    BY <2>1 DEF Command!Running
  <2>14. PhasesOK' /\ GroupOK'
    BY <1>0, <2>1, <2>12, <2>13 DEF PhasesOK, GroupOK
  <2>15. PipesOK'
    BY <1>0, <2>1 DEF PipesOK, Command!Streams
  <2> QED
    BY <2>10, <2>11, <2>14, <2>15 DEF RunInv
<1> QED
  BY <1>1, <1>2, <1>3, <1>4, <1>5, <1>6 DEF Command!Runner

LEMMA RunSteps == ASSUME RunInv, [Command!RunnerNext]_runState PROVE RunInv'
<1>1. CASE UNCHANGED runState
  <2>1. UNCHANGED <<job, phase, outcome, group, members, killed, taken, tree, wrote, piped, sink, done>>
    BY <1>1 DEF runState
  <2> QED
    BY <2>1, ProcessesMove DEF RunInv, RunTypes, PhasesOK, GroupOK, Command!Running
<1> QED
  BY <1>1, CommandSteps, RunnerSteps DEF Command!RunnerNext

\* What is told of a run follows.
LEMMA RunReports == ASSUME RunInv PROVE RunsReport
<1>0. RunTypes /\ PhasesOK /\ PipesOK /\ GroupOK /\ TakenOK
  BY DEF RunInv
<1>1. Command!OutputIsTrue
  <2> SUFFICES ASSUME NEW i \in DOMAIN taken, NEW it, it = taken[i]
               PROVE  /\ it.bytes <= MaxCaptured /\ it.bytes <= wrote[it.stream]
                      /\ it.cut => it.bytes = MaxCaptured /\ wrote[it.stream] > MaxCaptured
                      /\ it.whole /\ ~it.cut => it.bytes = wrote[it.stream]
    BY DEF Command!OutputIsTrue
  <2>1. it \in Taken /\ IsTrue(it)
    BY <1>0 DEF RunTypes, TakenOK
  <2> DEFINE s == it.stream
  <2>2. s \in Command!Streams /\ it.bytes \in 0..MaxCaptured
    BY <2>1 DEF Taken
  <2>3. it.whole => s \in done /\ it.bytes = sink[s].bytes /\ it.cut = (sink[s].dropped > 0)
    BY <2>1 DEF IsTrue
  <2>4. it.whole /\ ~it.cut => ~(sink[s].dropped > 0)
    BY <2>3, Zenon
  <2> HIDE DEF s
  <2>5. sink[s] \in [bytes : 0..MaxCaptured, dropped : Nat] /\ piped[s] \in Nat
    BY <1>0, <2>2 DEF RunTypes
  <2>6. sink[s].bytes \in 0..MaxCaptured /\ sink[s].dropped \in Nat
    BY <2>5
  <2>7. wrote[s] = piped[s] + sink[s].bytes + sink[s].dropped /\ (s \in done => piped[s] = 0)
    BY <1>0, <2>2 DEF PipesOK
  <2>8. it.whole /\ ~it.cut => it.bytes = wrote[s]
    BY <2>3, <2>4, <2>5, <2>6, <2>7
  <2> USE DEF s
  <2> QED
    BY <2>1, <2>2, <2>8, RunnerAssumption DEF IsTrue, RunnerAssumption
<1>2. Command!PipesDrain
  BY <1>0 DEF PhasesOK, PipesOK, Command!PipesDrain
<1>3. Command!TreeIsStopped
  BY <1>0 DEF GroupOK, RunTypes, Command!TreeIsStopped
<1> QED
  BY <1>1, <1>2, <1>3 DEF RunsReport

-----------------------------------------------------------------------------
\* The credentials of an app, installed again and again: what a directory has is kept.
LEMMA CredentialsStep ==
  ASSUME KeptOnce, [ProvisionNext]_provisionVars
  PROVE  KeptOnce' /\ CredentialsStay
<1>1. CASE keptSecrets' = keptSecrets \/ keptSecrets' = {}
  BY <1>1 DEF KeptOnce, CredentialsStay
<1>2. CASE keptSecrets' = {SecretsOf(template)}
  <2>1. KeptOnce'
    BY <1>2 DEF KeptOnce
  <2>2. ASSUME NEW old \in keptSecrets PROVE retained_secrets = old
    BY DEF KeptOnce, retained_secrets
  <2>3. ASSUME NEW old \in keptSecrets, NEW key \in DOMAIN old \cap DOMAIN SecretsOf(template)
        PROVE  SecretsOf(template)[key] = old[key]
    BY <2>2, <2>3 DEF SecretsOf
  <2> QED
    BY <1>2, <2>1, <2>3 DEF CredentialsStay
<1>3. CASE ~(keptSecrets' = keptSecrets \/ keptSecrets' = {} \/ keptSecrets' = {SecretsOf(template)})
  BY <1>3 DEF ProvisionNext, Install, Uninstall, Revise, OtherPrograms, provisionVars
<1> QED
  BY <1>1, <1>2, <1>3

-----------------------------------------------------------------------------
\* The theorems.

AllInv ==
  BoxInv /\ BoundInv /\ SnapInv /\ RestoreInv /\ LinkedInv /\ IntroInv /\ AwakeInv /\ RunInv /\ KeptOnce

LEMMA AllInvariant == PartsSpec => []AllInv
<1>1. PartsInit => AllInv
  <2>1. PartsInit => KeptOnce
    BY DEF PartsInit, ProvisionInit, KeptOnce
  <2> QED
    BY <2>1, PartsBegin, BoxStarts, BoundStarts, SavedStarts, LinkedStarts, IntroStarts, AwakeStarts, RunStarts DEF AllInv
<1>2. AllInv /\ [PartsNext]_partVars => AllInv'
  BY PartsStep, BoxSteps, BoundSteps, SnapSteps, RestoreSteps, LinkedSteps, IntroSteps, AwakeSteps, RunSteps,
     CredentialsStep DEF AllInv
<1> QED
  BY <1>1, <1>2, PTL DEF PartsSpec

\* An app that has a project, or is about to write one, has a verified engine, which
\* removal does not take beneath it, whatever fails, dies or comes late; and from its first
\* binding on the containers of an app are made on the engine it names.
THEOREM EnginesStay == PartsSpec => []AppsKeepTheirEngine
<1>1. AllInv => AppsKeepTheirEngine
  BY DEF AllInv, BoxInv, BoundInv, AppsKeepTheirEngine, Bound!EngineIsKept
<1> QED
  BY <1>1, AllInvariant, PTL

\* A choice of the managed engine is never taken for none, in whichever step its files
\* are replaced; no page that was viewed is forgotten, unless its file was; and while a
\* worker runs that was asked to stop, nobody has cleared the request.
THEOREM ChoicesStay == PartsSpec => []ChoiceIsKept
<1>1. AllInv => ChoiceIsKept
  BY DEF AllInv, BoxInv, IntroInv, AwakeInv, ChoiceIsMarked, ChoiceIsKept, Box!ChoiceIsKept, Box!SelectedAt
<1> QED
  BY <1>1, AllInvariant, PTL

\* A setup that stopped between two of its steps can be retried, resumed or used.
THEOREM SetupsLeadOn == PartsSpec => []WayOut
<1>1. AllInv => WayOut
  BY DEF AllInv, BoxInv, WayOut
<1> QED
  BY <1>1, AllInvariant, PTL

\* A distribution that a development build or someone else made is neither changed nor
\* removed, by setup, by removal or by an import nobody waits for.
THEOREM OthersAreLeftAlone == PartsSpec => OthersStay
<1>1. AllInv /\ [PartsNext]_partVars => (distro.by \in {"dev", "foreign"} => distro' = distro)
  BY PartsStep, BoxSteps DEF AllInv
<1> QED
  BY <1>1, AllInvariant, PTL DEF PartsSpec, OthersStay, Box!OthersStay

\* Files and volume of every snapshot are of one moment, although they are copied one
\* after the other, and the app may fall, be killed or be started meanwhile.
THEOREM SnapshotsAgree == PartsSpec => []SnapshotsAreOneMoment
<1>1. AllInv => SnapshotsAreOneMoment
  BY DEF AllInv, SnapInv, SnapshotsAreOneMoment
<1> QED
  BY <1>1, AllInvariant, PTL

\* No project holds data of two archives, wherever a restore stopped before the next.
THEOREM RestoresAreApart == PartsSpec => []NoMixing
<1>1. AllInv => NoMixing
  BY DEF AllInv, RestoreInv, NoMixing
<1> QED
  BY <1>1, AllInvariant, PTL

\* What a link is approved for is the repository GitHub named, which was public, however
\* repositories are renamed and names taken while it is inspected.
THEOREM ApprovalsAreOwn == PartsSpec => []ApprovalIsOwn
<1>1. AllInv => ApprovalIsOwn
  BY DEF AllInv, LinkedInv, ApprovalIsOwn
<1> QED
  BY <1>1, AllInvariant, PTL

\* A run reports the beginning of what its command wrote, in every interleaving of the
\* processes, the readers and the deadline, and says so if it is not the whole; no pipe is
\* left full while its reader is done; and who gives a run up has told the whole tree.
THEOREM RunsAreReported == PartsSpec => []RunsReport
<1> QED
  BY AllInvariant, RunReports, PTL DEF AllInv

\* No credential an app's data was made with is replaced, whichever revisions are
\* installed over the directory that has them.
THEOREM CredentialsAreKept == PartsSpec => [][CredentialsStay]_provisionVars
<1>1. AllInv /\ [PartsNext]_partVars => [CredentialsStay]_provisionVars
  BY PartsStep, CredentialsStep DEF AllInv
<1> QED
  BY <1>1, AllInvariant, PTL DEF PartsSpec

LEMMA InstalledInvariant == PartsSpec => []InstalledInv
<1>1. PartsInit => InstalledInv
  BY DEF PartsInit, ProvisionInit, InstalledInv
<1>2. InstalledInv /\ [PartsNext]_partVars => InstalledInv'
  BY PartsStep, InstalledSteps
<1> QED
  BY <1>1, <1>2, PTL DEF PartsSpec

\* What is installed comes up, whatever revision it was and whatever was kept in its
\* directory: it answers on ports no other program holds, and shares only folders that
\* were judged.
THEOREM AppsComeUp == PartsSpec => []InstalledComeUp
<1>1. InstalledInv => InstalledComeUp
  BY ComposeIsOf, FileComesUp DEF InstalledInv, InstalledComeUp
<1> QED
  BY <1>1, InstalledInvariant, PTL

\* And its container receives what its template meant, with the answers of the person, the
\* credentials of its data and the addresses it has; and the addresses it has are read back
\* from its file; if nothing else in the file reads as an address.
THEOREM AppsAreWhole ==
  ASSUME PlainTemplates
  PROVE  PartsSpec => []InstallsAreWhole
<1>1. PartsInit => WholeInv
  BY DEF PartsInit, ProvisionInit, WholeInv
<1>2. InstalledInv /\ WholeInv /\ [PartsNext]_partVars => WholeInv'
  BY PartsStep, WholeSteps
<1>3. InstalledInv /\ WholeInv => InstallsAreWhole
  <2>1. InstalledInv => InstalledComeUp
    BY ComposeIsOf, FileComesUp DEF InstalledInv, InstalledComeUp
  <2>2. InstalledInv /\ WholeInv => \A r \in running : PlanIsRight(r.plan)
    BY EveryPlanIsRight DEF InstalledInv, WholeInv
  <2> QED
    BY <2>1, <2>2 DEF InstallsAreWhole, WholeInv
<1> QED
  BY <1>1, <1>2, <1>3, InstalledInvariant, PTL DEF PartsSpec

\* An app that is installed again keeps its address, and those of its companions and its
\* credentials, although each is found by what its old files look like, as long as no
\* variable or argument in them looks like an address.
THEOREM ReinstallsKeep ==
  ASSUME PlainTemplates
  PROVE  PartsSpec => ReinstallKeeps
<1>1. PartsInit => KeptInv
  BY DEF PartsInit, ProvisionInit, KeptInv
<1>2. InstalledInv /\ KeptInv /\ [PartsNext]_partVars => KeptInv' /\ AddressesStay
  BY PartsStep, KeptSteps DEF PlainTemplates
<1>3. PartsSpec => [][AddressesStay]_provisionVars
  BY <1>1, <1>2, InstalledInvariant, PTL DEF PartsSpec
<1> QED
  BY <1>3, CredentialsAreKept, PTL DEF ReinstallKeeps

\* A plan of the run comes up as it was checked, is read back as it was written, and is
\* projected into WSL as it is.
THEOREM PlansAreRight == PartsSpec => []PlansComeUp
<1> DEFINE OfPlans == part = "plan" => input \in Plans_
<1>1. PartsInit => OfPlans
  BY DEF PartsInit, Cases
<1>2. OfPlans /\ [PartsNext]_partVars => OfPlans'
  BY DEF PartsNext, Engines, Supervisors, Backups, Bindings, Provisions, Inspections, Runs, Introductions, partVars
<1>3. OfPlans => PlansComeUp
  BY SamplesAssumption, EveryPlanIsRight, EveryProjectionIsRight DEF PlansComeUp, SamplesAssumption
<1> QED
  BY <1>1, <1>2, <1>3, PTL DEF PartsSpec

\* A template of the run resolves, whatever a person answers, if the answers are accepted
\* and leave no folder out; and the form that asks shows no credential.
THEOREM TemplatesAreFilled == PartsSpec => []TemplatesResolve
<1> DEFINE OfTemplates == part = "template" => input \in TemplateCases
<1>1. PartsInit => OfTemplates
  BY DEF PartsInit, Cases
<1>2. OfTemplates /\ [PartsNext]_partVars => OfTemplates'
  BY DEF PartsNext, Engines, Supervisors, Backups, Bindings, Provisions, Inspections, Runs, Introductions, partVars
<1>3. ASSUME NEW t \in TemplateCases
      PROVE  /\ ReviewIsDiscreet(t)
             /\ \A answers \in SampleAnswers :
                  Resolves(t, answers, [key \in {s.key : s \in Elements(t.secrets)} |->
                                          generate(CHOOSE s \in Elements(t.secrets) : s.key = key, 1)])
  <2>1. \A answers : Resolves(t, answers, Made(t, 1))
    BY SamplesAssumption, EveryTemplateResolves DEF SamplesAssumption
  <2> QED
    BY <2>1, EveryFormIsDiscreet DEF Made, SecretKeys
<1>4. OfTemplates => TemplatesResolve
  BY <1>3 DEF TemplatesResolve
<1> QED
  BY <1>1, <1>2, <1>4, PTL DEF PartsSpec

=============================================================================
