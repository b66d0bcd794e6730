------------------------------- MODULE MCParts -------------------------------
(***************************************************************************)
(* Parts of the system that share no state, side by side in one run: the   *)
(* engine, its supervisor, the snapshots of an app, an app installed again *)
(* and again, the inspection of a link, and the conversions, one case in   *)
(* each initial state.  A behaviour exercises one of them, and the others  *)
(* stay as they began.                                                     *)
(***************************************************************************)
EXTENDS Samples

CONSTANTS ToRun,         \* the parts this run exercises
          Apps, MaxTokens,
          Dockers,
          Callers, Workers, NoOne, MaxVersion,
          Names, Repositories, MaxRedirects, MaxCommits, MaxRenames,
          CatalogueNames, LargestPage,
          MaxCaptured, PipeRoom, MaxWritten,
          Pages,
          MaxPieces      \* bound: pieces of a validation pattern

VARIABLES part, input,   \* the part, and the case of a conversion
          journal, tokenFile, distro, disk, daemon, marker, selection, tx, late, app, issued, chosen, uncertain,
          workerLock, spawnLock, status, fresh, stopFile, caller, worker, asked,
          source, files, volume, snap, archives, project, restore,
          directory, binding, compose, projected, saved, containers, current, ready, lease, work, home, madeOn,
          holder, moved, closed, commits, renames, step, url, attempt, seen, found,
          job, phase, outcome, cancelled, due, overdue, group, members, tree, killed, wrote, piped, sink, done, taken,
          progress, writing, viewer, viewed, forgotten

\* The bounds are numbers, and what stands for nothing is none of the things it stands for.
ASSUME PartsAssumption ==
  /\ MaxTokens \in Nat /\ MaxVersion \in Nat /\ MaxRedirects \in Nat
  /\ Dockers \cap {"none", "damaged", "refused"} = {}
  /\ NoOne \notin Callers \cup Workers /\ Callers \cap Workers = {}
  /\ "absent" \notin Pages /\ "none" \notin Repositories

\* What the proofs say of plans and templates is said of those of this run.
ASSUME SamplesAssumption ==
  /\ \A plan \in Plans_ : IsPlan(plan) /\ NoLookalikes(plan)
  /\ \A i \in DOMAIN Revisions : NoLookalikes(Revisions[i].plan) /\ ValuesArePlain(Revisions[i])
  /\ \A template_ \in TemplateCases : IsTemplate(template_)

\* A command writes to its standard output and its error stream.
ASSUME RunnerAssumption == MaxCaptured \in Nat /\ MaxWritten \in [{"out", "err"} -> Nat]

\* Approved offers are from the first two repositories' names; of the others one row of
\* the queue was pinned to the archive it has, and one was not.
SampleOffered == [name \in Names |-> CASE name = "old" -> {"app"} [] name = "both" -> {"app", "other"} [] OTHER -> {}]
Row(name, pinned) ==
  [name |-> name, reviewed |-> TRUE, pinned |-> pinned, importable |-> TRUE, maintenance |-> "keep", screened |-> TRUE, id |-> name]
SampleScreened == {Row("new", TRUE), Row("new", FALSE)}

Box == INSTANCE Engine
Awake == INSTANCE Supervisor
Saved == INSTANCE Backup WITH app <- source
Bound == INSTANCE Binding
Command == INSTANCE ProcessRunner
Introduced == INSTANCE Onboarding WITH Viewers <- Callers
Linked == INSTANCE Inspection WITH Offered <- SampleOffered, Screened <- SampleScreened
Listed == INSTANCE Catalogue
Patterns == INSTANCE SecretPatterns

boxState == <<journal, tokenFile, distro, disk, daemon, marker, selection, tx, late, app, issued, chosen, uncertain>>
awakeState == <<workerLock, spawnLock, status, fresh, stopFile, caller, worker, asked>>
savedState == <<source, files, volume, snap, archives, project, restore>>
boundState == <<directory, binding, compose, projected, saved, containers, current, ready, lease, work, home, madeOn>>
linkedState == <<holder, moved, closed, commits, renames, step, url, attempt, seen, found>>
runState == <<job, phase, outcome, cancelled, due, overdue, group, members, tree, killed, wrote, piped, sink, done, taken>>
viewState == <<progress, writing, viewer, viewed, forgotten>>
partVars == <<part, input, provisionVars, boxState, awakeState, savedState, boundState, linkedState, runState, viewState>>

-----------------------------------------------------------------------------
\* Patterns of a few pieces: a class of characters, and how often.

Marks_(body) == <<Patterns!Char("[")>> \o body \o <<Patterns!Char("]")>>
Every == {"a", "z", "0", "="}
Between(chars) == <<"range", chars>>
Escape(chars) == <<"escape", chars>>
PatternClasses ==
  {Patterns!Class(<<Patterns!Char(".")>>, Every),
   Patterns!Class(<<Escape({"a", "z", "0"})>>, {"a", "z", "0"}),
   Patterns!Class(Marks_(<<Between({"a", "z"})>>), {"a", "z"}),
   Patterns!Class(Marks_(<<Between({"a", "z"}), Between({"0"})>>), {"a", "z", "0"}),
   Patterns!Class(Marks_(<<Patterns!Char("^"), Patterns!Char("=")>>), {"a", "z", "0"}),
   Patterns!Class(<<Patterns!Char("("), Patterns!Char("."), Patterns!Char("|"), Escape({"0"}), Patterns!Char(")")>>, Every)}
PatternTimes ==
  {Patterns!Repeat(<<>>, 1, {1}), Patterns!Repeat(<<Patterns!Char("+")>>, 1, {}), Patterns!Repeat(<<Patterns!Char("*")>>, 0, {}),
   Patterns!Repeat(<<Patterns!Char("?")>>, 0, {1}), Patterns!Repeat(<<<<"count", 2, {2}>>>>, 2, {2}), Patterns!Repeat(<<<<"count", 3, {}>>>>, 3, {})}

\* Texts of up to three characters, of any width, cut anywhere.
Tails == UNION {{<<text, at>> : at \in 0..Len(Command!Bytes(text))} : text \in UNION {[1..n -> 1..4] : n \in 0..3}}

-----------------------------------------------------------------------------
Cases ==
  \/ part = "plan" /\ input \in Plans_
  \/ part = "template" /\ input \in TemplateCases
  \/ part = "pattern" /\ \E n \in 1..MaxPieces :
       input \in {Patterns!Pattern(pieces, start, end) :
                    pieces \in [1..n -> [class : PatternClasses, times : PatternTimes]], start, end \in BOOLEAN}
  \/ part = "runtipi" /\ input \in RuntipiCases
  \/ part = "caprover" /\ input \in CapRoverCases
  \/ part = "review" /\ input \in Reviews
  \/ part = "recipe" /\ input \in Recipes
  \/ part = "offer" /\ input \in Offers
  \/ part = "legacy" /\ input \in LegacyLists
  \/ part = "tail" /\ input \in Tails
  \/ part = "catalogue" /\ input \in Indexes \X OfferSeqs
  \/ part \notin {"plan", "template", "pattern", "runtipi", "caprover", "review", "recipe", "offer", "legacy", "tail", "catalogue"} /\ input = "none"

\* A part that is not exercised begins in one way only.
PartsInit ==
  /\ part \in ToRun /\ Cases
  /\ Box!EngineInit /\ (part # "engine" => distro = Box!NoDistro)
  /\ Awake!SupervisorInit
  /\ Saved!BackupInit /\ (part # "backup" => source = "stopped")
  /\ Bound!BindingInit /\ (part # "binding" => ~directory /\ ~ready /\ current = CHOOSE e \in Dockers : TRUE)
  /\ ProvisionInit /\ (part # "provisioning" => revision = 1 /\ busy = {})
  /\ Command!RunnerInit /\ (part # "runner" => ~job)
  /\ Introduced!OnboardingInit
  /\ Linked!InspectionInit /\ (part # "inspection" => holder["old"] = {"mine"} /\ closed = {})

Engines == part = "engine" /\ Box!EngineNext /\ UNCHANGED <<part, input, provisionVars, awakeState, savedState, boundState, linkedState, runState, viewState>>
Supervisors == part = "supervisor" /\ Awake!SupervisorNext /\ UNCHANGED <<part, input, provisionVars, boxState, savedState, boundState, linkedState, runState, viewState>>
Backups == part = "backup" /\ Saved!BackupNext /\ UNCHANGED <<part, input, provisionVars, boxState, awakeState, boundState, linkedState, runState, viewState>>
Bindings == part = "binding" /\ Bound!BindingNext /\ UNCHANGED <<part, input, provisionVars, boxState, awakeState, savedState, linkedState, runState, viewState>>
Provisions == part = "provisioning" /\ ProvisionNext /\ UNCHANGED <<part, input, boxState, awakeState, savedState, boundState, linkedState, runState, viewState>>
Inspections == part = "inspection" /\ Linked!InspectionNext /\ UNCHANGED <<part, input, provisionVars, boxState, awakeState, savedState, boundState, runState, viewState>>
Runs == part = "runner" /\ Command!RunnerNext /\ UNCHANGED <<part, input, provisionVars, boxState, awakeState, savedState, boundState, linkedState, viewState>>
Introductions == part = "onboarding" /\ Introduced!OnboardingNext /\ UNCHANGED <<part, input, provisionVars, boxState, awakeState, savedState, boundState, linkedState, runState>>

PartsNext == Engines \/ Supervisors \/ Backups \/ Bindings \/ Provisions \/ Inspections \/ Runs \/ Introductions

PartsSpec ==
  /\ PartsInit /\ [][PartsNext]_partVars
  /\ Awake!SupervisorFairness /\ Command!RunnerFairness

-----------------------------------------------------------------------------
\* The properties of the modules, by a name of this run.

\* A verified engine is not removed beneath an app that has a project in it, and the
\* containers of a bound app are made on the engine of its binding only.
AppsKeepTheirEngine == Box!AppsKeepTheirEngine /\ Bound!EngineIsKept

\* A choice of the managed engine is never silently forgotten, nor is a page viewed, nor
\* that a worker was asked to stop.
ChoiceIsKept == Box!ChoiceIsKept /\ Introduced!ViewedIsKept /\ Awake!StopIsKept

\* A setup that stopped has a way on.
WayOut == Box!WayOut

\* A distribution that is not Local Store's is neither changed nor removed.
OthersStay == Box!OthersStay

\* A worker that is asked to stop stops, and a run of a command ends, whatever the command does.
StopIsObeyed == Awake!StopIsObeyed /\ Command!RunEnds

\* A run reports the beginning of what its command wrote, all of it if it says so, and no
\* pipe is left full; a run that is given up stops the whole tree.
RunsReport == Command!OutputIsTrue /\ Command!PipesDrain /\ Command!TreeIsStopped

\* Files and volume of a snapshot are of one moment.
SnapshotsAreOneMoment == Saved!SnapshotsAreOneMoment

\* A restored project is of one archive.
NoMixing == Saved!NoMixing

\* An approval found for a link was given to the repository the link names.
ApprovalIsOwn == Linked!ApprovalIsOwn

\* A plan that passes its checks comes up, here and in WSL.
PlansComeUp ==
  part = "plan" => PlanIsRight(input) /\ \A where \in Projects : ProjectionIsRight(input, where)

\* A template resolves with whatever a person may answer, and its form tells no credential.
TemplatesResolve ==
  part = "template" =>
    /\ ReviewIsDiscreet(input)
    /\ \A answers \in SampleAnswers :
         Resolves(input, answers, [key \in {s.key : s \in Elements(input.secrets)} |->
                                     generate(CHOOSE s \in Elements(input.secrets) : s.key = key, 1)])

\* A definition of another catalogue, or of the first version's list, keeps its meaning through
\* its import, its review and its remapping, and what is shown of it is what is installed; and
\* a template of Local Store's own resolves.
DefinitionsAreKept ==
  /\ part = "runtipi" => RuntipiIsRead(input, <<"home", "photos">>)
  /\ part = "caprover" => CapRoverIsRead(input, <<"home", "photos">>)
  /\ part = "review" => ReviewIsKept(input)
  /\ part = "recipe" => \A host \in {3, 5, 7} : RemapIsWhole(input, host)
  /\ part = "legacy" => ListIsKept(input)
  /\ part = "offer" => \A port \in AskedPorts : ShownIsInstalled(input, port)
  /\ TemplatesResolve

\* The pages of a search are the search, and what is listed is what is offered; of a text
\* that was cut, its whole characters are shown.
ShownIsWhole ==
  /\ part = "catalogue" =>
       /\ Listed!ListedIsOffered(input[1], input[2])
       /\ \A query \in Queries, filters \in Filters, limit \in {0, 2, 9} :
            Listed!SearchIsWhole(input[1], input[2], query, filters, limit)
  /\ part = "tail" => Command!TailIsWhole(input[1], input[2])

\* "This is sound by construction" (src/src/setup.rs:516): a pattern that is answered
\* to let every credential pass does.
Sound ==
  part = "pattern" => \A format \in DOMAIN Patterns!Alphabet, length \in 2..3 : Patterns!Sound(format, length, input)

=============================================================================
