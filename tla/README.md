# Verification of Local Store

Local Store is a desktop launcher, with a command line interface and a bridge
for agents, that installs self-hosted applications as Docker Compose projects,
saves them in a registry, and starts, stops, recovers, snapshots and uninstalls
them, on the computer's own Docker or on an engine of its own in WSL.  This
directory holds TLA+ modules of the system, the TLC configurations that check
them on small instances, and TLAPS proofs of what matters most for every
instance.  Source lines refer to the repository's `src/` directory.

To check an instance: `tlc -config MCRegistry_migrate.cfg MCRegistry.tla`.  To check
the proofs of a module: `tlapm RegistryProofs.tla`.

## The system

| component | state | operations | who else touches it |
|---|---|---|---|
| registry storage (`storage.rs`, `model.rs`) | `registry-v2.json`, its previous copy, the bytes of an older registry, `registry.lock` | load, insert, remove, update, migrate, convert the first version's list | every process: launcher, CLI, agent bridge |
| operation lock (`runtime/mod.rs` 28-152) | a table of active operations per process, a locked sidecar file per app | lock, drop, cancel | everything that changes an app |
| app lifecycle (`runtime/mod.rs`, `commands.rs`, `cli.rs`, `recovery.rs`) | registry entry, project directory, containers, volumes | install, reinstall, start, stop, uninstall, discard, adopt, connect, remove | users in the launcher and the CLI at once, an agent's requests, Docker itself |
| process runner (`runtime/process.rs`) | a child, its process group, its output readers | run to an outcome: exit, deadline, cancelled | each Docker and WSL command |
| agent policy and gateway (`agent_policy*`, `agent_gateway*`, `agent_owner.rs`, `agent_data.rs`) | credentials, grants, an audit, pending enrolments | enrol, grant, revoke, authorise | the owner, each agent request |
| agent requests (`agent_requests.rs`) | a queue file of rows Pending, Approved, Running and their ends | submit, decide, claim, cancel, finish; workers and monitors | the agent's connector and the owner's launcher |
| agent content (`agent_content.rs` and its providers) | connections, grants for them, proposals of writes | connect, grant, propose, approve, send | the owner, the agent, the app that is written to |
| engine setup (`engine_setup.rs`, `runtime/engine/wsl/bootstrap.rs`) | ownership journal, token, WSL distribution, selected engine | reserve, import, verify, repair, adopt, select | each project's binding to an engine |
| engine removal (`engine_removal.rs`) | the same files and the distribution | unregister, erase, restore the records | holds setup's lock and every app's |
| engine supervisor (`wsl/supervisor.rs`) | worker lock, spawn lock, status file, stop file | ensure, stop, status; the worker's loop | every operation on the managed engine |
| engine binding (`runtime/engine.rs`, `adoption.rs`, `wsl/lease.rs`) | a file in the project directory, a marker in its Compose file, a pipe | bind, resume, adopt, mark | each operation of the lifecycle |
| backup (`backup.rs`, `backup/volumes.rs`) | snapshot files, a stopped app, a fresh project | snapshot, restore | the operation lock, Docker |
| setup and plan (`setup.rs`, `plan.rs`, `folders.rs`) | none; a reinstall reads the project directory | checks, answers, generated credentials, ports, Compose text and back | install |
| importers, templates, recipes, offerings | none | definitions of other catalogues to templates, reviews, remapped ports | install and the store's pages |
| catalogue and links (`catalog*.rs`, `github_source.rs`) | none; GitHub's | search, pages, inspection of a repository link | the store's pages |
| onboarding (`launcher_projection/onboarding_store.rs`) | one progress file with a lock | read, open, mark a page as viewed | launcher windows and processes |
| desktop integration, qualification, queries | windows, evidence files | activation, listings | - |

The components meet in five ways.  Every process reads and writes the registry
files under one advisory lock.  Every operation that changes an app runs under
that app's operation lock and calls Docker through the process runner.  An
operation reads the registry before it takes the lock, and commits to it before
it gives the lock back.  An agent's request passes credentials, policy, the
owner's decision and the queue before a worker runs the same operations.  A
definition passes an importer, a review, a person's answers and the ports that
are free before it is a Compose file; the next install of the app starts from
what that file and the credentials beside it say.

What is hard here: a file is replaced by *remove, then rename*, so that a crash
or a reader without the lock sees it missing; two processes know of each other
only through lock files; a Docker command can fail half done, pass its deadline,
be killed by a cancel request, or outlive the process that launched it; an
operation is many steps over four stores (registry, directory, containers,
volumes), with a rollback that may fail too; a check and the act it allows are
often in different lock sections; and the conversions compose, written apart.

What makes each part correct: the registry is one atomic map, whatever crashes
(lost updates and invented entries are excluded); an app has one operation at a
time, and a cancel request reaches only the operation it names; data of a saved
app goes only when an operation was asked for it; a failed install leaves what there was;
what was left behind can be taken back; the agent acts only on what the owner
granted and approved, as it was when he did, and once; only a distribution the
program created is unregistered, and none beneath an app; an app never gets
containers on another engine than its own; a snapshot is of one moment and a
restored project of one snapshot; a plan that passes its checks comes up, and
means what its definition meant.

## The modules

| module | models | composed of |
|---|---|---|
| `RegistryStore` | what `storage.rs` promises: one map, atomic changes | - |
| `Registry` | its files, lock, saves and migration | implements `RegistryStore` |
| `LegacyApps` | the conversion of the first version's list, which `Registry` does once | - |
| `AppLocks` | what `lock_operation` promises: an app is worked on by its owner alone, and only he gives it back | - |
| `OperationLock` | the table, the sidecar file, cancel requests, dying processes | implements `AppLocks` |
| `Lifecycle` | all operations on one app over registry, directory, containers and volume | uses the map of `RegistryStore` and the owners of `AppLocks` as atomic state |
| `ProcessRunner` | one command: its tree, pipes, readers, deadlines | what a step of `Lifecycle` calls a command |
| `Credentials` | what `agent_gateway.rs` promises: a permission ends before its enrolment | - |
| `AgentGateway` | the credential and policy files, their locks, the owner's operations on them | implements `Credentials`, file grants aside |
| `Approvals` | what an approval promises: given by the owner, used once | - |
| `AgentRequests` | installs and removals an agent asks for, from request to outcome | over `Credentials`; implements `Approvals` |
| `AgentContent` | what an agent reads from an app and writes to it | over `Credentials`; implements `Approvals` |
| `Engine` | the managed engine: journal, token, distribution, choice, removal | - |
| `Supervisor` | the worker that keeps the engine awake | - |
| `Binding` | the engine a project's containers are made on | what of `Engine` it needs is one variable |
| `Backup` | snapshots and restores | - |
| `Plans` | deployment plans, the Compose file, the projection, what Docker makes of it | - |
| `Setup` | templates, answers, credentials, shared folders | extends `Plans` |
| `Provisioning` | an app installed again and again | extends `Setup` |
| `Importers`, `Offerings` | definitions of two other catalogues, reviews, recipes | extend `Setup`, `Importers` |
| `SecretPatterns` | whether a pattern lets every generated credential pass | - |
| `Catalogue`, `Inspection` | the search; the inspection of a link, with GitHub around it | - |
| `Onboarding` | the progress of the introduction | - |
| `RegistryProofs`, `OperationLockProofs`, `LifecycleProofs`, `AgentGatewayProofs`, `AgentRequestsProofs` | theorems about the five | extend them |
| `AgentContentProofs` | theorems about `AgentContent`, beside requests that change the same enrolments | extends `MCAgents`, which instantiates it |
| `PlanProofs` | theorems about any plan, template and install of `Plans`, `Setup` and `Provisioning` | extends `Provisioning` |
| `PartsProofs` | theorems about `Engine`, `Supervisor`, `Binding`, `Backup`, `Inspection`, `ProcessRunner` and `Onboarding`, and about `Provisioning` as the run has it | extends `MCParts`, which instantiates them, and `PlanProofs` |
| `MCRegistry`, `MCOperationLock`, `MCLifecycle`, `MCAgentGateway`, `MCAgents`, `MCParts`, with `Samples` | instances for TLC | extend them |

### Registry, LegacyApps

A process is a program counter (`pc`) over the file system calls of one call of
`storage.rs`: take the lock (`Acquire`, or `TimeOut` after the ten seconds of
`REGISTRY_LOCK_TIMEOUT`), look for the live and the previous file (`CheckLive`,
`CheckPrev`), read one (`ReadLive`, `ReadPrev`), migrate (`Migrate`, `BackUp`),
change (`Apply`), and save (`Save` to `RenameLive`).  `BeginLoad` takes the lock
only when the directory exists, as `lock_registry_if_present` does.  `Interrupt`
is a crash or a failing file system call, at any step.  A file is a map from ids
to records; `Refused` are the records `validate_registry` calls invalid.
`LegacyApps` is what `Migrate` does with a list of the first version: an
identifier for each name, the project of each Compose path, all or nothing.

### OperationLock

`hold` is the guard a thread has, `slot` the table's entry for an app, `file` the
handle that locks the sidecar file.  `Lock` is one step, for the table's mutex is
held from the look to the insertion; dropping a guard is two (`Drop`, `Close`),
in the order Rust drops them: the `Drop` implementation first, the fields after.
`AppLocks`, which it implements, has an owner per app and the apps each thread works
on: who takes an app works on it, ends the work (`Drop`), and gives the app back
(`Close`); the death of a process ends both (`Crash`).  A release before the work has
ended, or by another, is no step of it.

### Lifecycle

An actor is a thread running one operation.  `BeginOperation` reads the registry
without the lock; `Lock` takes it; each later step is one file operation, the
launch of a command, its end, or a registry write.  Installing writes the engine
binding, the Compose file and the secrets, each through a temporary file
(`Stage`, `Unlink`, `Rename`), runs `up`, waits for health and commits.  `Fail`
and `RollBack` give the error paths: `phase` tells the forward part from the
rollback of a failed install, from putting the old file back ("restore") and
from undoing an install whose commit failed ("undo").  `Partial` is what an
unfinished Docker command may leave.  `Crash` frees the lock and leaves the
command running as `orphan`.  A Compose file and data are told apart by the
generated credential they carry, which is what reinstalling onto kept data
depends on.  `address` has the port the Compose file publishes, and the one the
containers do.  `Template` tells an app that is rendered from a plan from a recipe:
the plan's install generates secrets, and goes on with the port of a Compose file
that is there (`Offered`); a recipe has no secrets, and its install may be for any
port, since a person chose the last one and the CLI takes the recipe's.  `Preflight`
looks at the port of the install and at nothing else; `up` for another port makes
the containers anew (`Recreates`).  `connect` and `remove` change the entry without
the lock.  `UsesRegistry` and `UsesLock` are the two modules underneath, for one
app: `reg` is a `RegistryStore` of one id, `holder` and the operations under way an
`AppLocks`, so that what `Registry` and `OperationLock` implement is what `Lifecycle`
takes for granted.

### ProcessRunner

`phase` is where `run_system` is: called, spawned, polling, watching, stopping,
reaping the child, collecting, returned.  The child may start a grandchild that
inherits its pipes; bytes are counted, a full pipe blocks its writer, a reader
keeps `MaxCaptured` of them and drops the rest.  The two deadlines and the
cancel request may come at any step.  On Windows the group is a job the child
is attached to after it started (`job`), so that a grandchild may be outside.
`WithoutIncompleteTail` is where a cut text ends.

### AgentGateway

An owner is a thread of the launcher or the CLI, with a program counter over the
lock sections of one operation: `Open` takes `agent-clients.lock` and checks the
client, `Clear` writes the policy file, `SaveNew` and `SaveRevoked` the
credential file; `Permit` is a grant or its withdrawal.  A file grant
(`agent_data.rs` 265) is `Note`, `Open`, `Permit`, `WriteScope`, `Check`,
`PermitFiles`, the last without the credential lock.  A lock that is taken
refuses, so `Fail` is possible at each step.  `LoseFile` and `LosePolicy` lose a
file between remove and rename.  A secret is known by its number of issue
(`gen`).  The policy file does not record for which enrolment a permission was
given: `perm` keeps that generation, and no guard of the model reads it except
to tell that there is a permission.

### AgentRequests, AgentContent

A call is a program counter over the lock sections of `agent_requests.rs`:
enrolment, description of the target, the queue; an execution takes the app's
operation lock, describes, checks again, claims the row and works, with a
monitor (`Poll`) that asks it to stop when its row, its cancellation or its
enrolment no longer want it.  `Fail` ends any call at any step; `LoseRows` loses
the file where a save replaces it.  A target is its kind, its app and a version,
which changes back and forth (`Drift`) as files and records do, and the entry of an app comes and goes without
its lock (`OwnerChanges`), as `connect` and `remove` of the launcher change it; a worker
that meets this is refused its commit, or its removal.  The locks of the apps and
the calls that work under them are an `AppLocks` (`UsesLock`).

`AgentContent` is the same for one-use writes to an app: a connection file, the
grants in the gateway's policy, proposals decided and claimed under the lock of
the file, and the request that goes out after the claim was saved.  Both map
their rows to the stages of `Approvals` and implement it.

### Engine, Supervisor, Binding

`Engine` is one transaction at a time (`tx`) over journal, token, distribution
and selection: reservation, token, import, verification, selection, repair,
adoption of a development engine, removal.  A replaced file is two steps
(`RemoveJournal`, `RenameJournal`; `Unchoose`, `Choose`).  `Abandon` is a failure or a crash
at any step, `LateImport` an import that succeeds after nobody waits for it.
`app` is what the installs that look at the engine are at.

In `Supervisor` a look at the status is three steps, since it takes the worker's lock
for a moment (`Try`, `GiveBack`); starting a worker is taking the spawn lock,
claiming the worker lock, giving it back, clearing the stop and status files and
spawning.  A worker takes the lock, beats, sees the stop file, removes its status
and exits, or dies.

`Binding` is one operation at a time on one project, with the file that names the
engine, the marker that says there is such a file, the projected Compose file and
the containers on each engine.  `WorldChanges` makes another Docker the current
one; `LoseBinding` loses or damages the file.

### Backup

The app writes to its files, then to its volume (`Work`, `Settle`).  A snapshot
stops it, looks how it stopped, copies files and volume, starts it again; a
restore writes secrets, files and volume of one archive, and may stop after any
of them, or within one.  A killed container (exit code 137) is refused by
`Look`; a command that is killed with its process is assumed to have stopped.

### Plans, Setup, Provisioning

`validate` is `DeploymentPlan::validate`, `to_compose` the file with the lines that
are or look like addresses (its own, those of variables, those of arguments), `project_plan` the file for WSL, `published_host_port` and
`companion_host_ports` the readers of such a file.  `Comes`, `Up` and `ComesUp`
say what Docker makes of a file.  `Setup` has the checks of a template, the
answers (`accept`), `generate` and `accepts`, the substitution (`substitute`,
`fill_platform_values`), folders that may be shared, and the form
(`setup_review`).  `Provisioning` installs revisions of a template over a kept or
deleted directory while other programs take ports.

### Importers, Offerings, SecretPatterns

An importer is a function from a definition to a template or limitations.
`Offerings` applies a review's pins, volumes, limits and field decisions to
what was imported, moves a recipe to another port, and shows both in one shape.
`SecretPatterns` is `every_value_matches`, beside the language of the pattern.

### Catalogue, Inspection, Onboarding

`search` is the page of the index that matches, in its order; `installable_ids` what is on offer.
`Inspection` follows redirects to who a repository is now, fetches its commit, and
looks the name up, while repositories are renamed.  `Onboarding` reads its file
without the lock and replaces it under it.

## The checks

| run | instance | shows |
|---|---|---|
| `registry_migrate` | 2 processes, 2 ids, 2 records (one of them invalid), an older registry in the directory; one process may stop for ever | the files implement the map; what is read under the lock is current; a load under the lock finds a registry; every call returns |
| `registry_legacy_race` | an older registry in the legacy place, no directory | **violated**: see Findings |
| `operation_lock` | 2 threads of the launcher, 1 of the CLI, 2 apps, 2 operations per process | one operation per app; the table tells the truth; cancel requests are aimed; a busy app becomes free; implements `AppLocks`: no app is freed under who works on it |
| `lifecycle_faults` | 2 actors, all nine kinds, 2 ports, a plan, Docker, file and registry failures, a named volume | a running app is left alone; a failed install is undone; an app is saved when it is ready; what runs unsaved can be taken back |
| `lifecycle_docker` | 2 actors, 2 credentials, a plan, Docker failures | every operation ends, no state is a dead end, the Compose file has its data's credential |
| `lifecycle_crash` | 2 actors that may die at any step, a recipe | an operation holds its lock; kept data survives |
| `lifecycle_volume` | the smallest set of kinds and faults, a named volume | **violated**: see Findings |
| `agent_gateway` | 2 owner processes, 2 clients, 1 app, 2 enrolments, all eight kinds | files are open only to the enrolment they were granted to; implements `Credentials` |
| `agent_stale_cancel` | 1 client, 3 enrolments, the kinds that matter | **violated**: see Findings |
| `agents` | requests and content, each alone over the same enrolments: 2 calls, 1 client, 1 app, 2 enrolments, 2 requests, 1 proposal, 2 connections | what is carried out is what the owner approved, once; closed rows tell the truth; unwanted installations end; grants fit the connection; a write is sent once; both implement `Approvals` |
| `parts` | the parts that share no state, each alone (below) | fourteen properties, below |
| `secret_pattern` | patterns of one or two pieces | **violated**: see Findings |

`parts` is one run of many parts, of which a behaviour exercises one (`part`).
The parts with steps are the engine, its supervisor, snapshots, the binding of a
project, an app installed again and again, one command, the introduction, and the inspection
of a link; the conversions have one initial state for each case of `Samples`.
Its properties:

| property | says |
|---|---|
| `AppsKeepTheirEngine` | a verified engine is not removed beneath an app that looked at it; containers of a bound app are made on its engine only |
| `OthersStay` | a distribution that is not Local Store's is neither changed nor removed |
| `ChoiceIsKept` | a choice of the engine, a viewed page and a request to stop are not silently forgotten: whoever clears the stop file has found the worker it was for gone |
| `WayOut` | a setup that failed leaves one of the owner's actions |
| `StopIsObeyed` | a worker that is asked to stop stops, though the next caller clears the stop file; a run of a command ends, whatever the command does |
| `SnapshotsAreOneMoment`, `NoMixing` | a snapshot's files and volume are of one moment; a restored project is of one snapshot |
| `InstallsAreWhole` | what is installed comes up, on free ports, over folders that were judged (`InstalledComeUp`), its addresses read back from its file, and a container receives the values its template means (`ValuesAreMeant`) |
| `ReinstallKeeps` | an install over a kept directory moves no address and replaces no credential |
| `PlansComeUp` | a plan that passes its checks comes up, here and in WSL, over the same data, and its addresses read back as its own |
| `DefinitionsAreKept` | imports, reviews, remappings and the first version's list keep the meaning; what is shown is what is installed; a template resolves with accepted answers, and its form tells no credential |
| `ApprovalIsOwn` | an approval found for a link was given to the repository it names |
| `ShownIsWhole` | the pages of a search are the search, and what is listed is what is offered; of a cut text its whole characters are shown |
| `RunsReport` | in every state of a run: what is reported is the beginning of the output, no pipe is left full, a stopped tree is stopped whole |

### Bounds

Two processes are enough for the registry: one writes, the other reads or
writes in between, and a third would only do what the second can do.  Two ids
show a change to one that loses the other, and two records an update from an
insert.  `MaxOps = 2` gives a process a second operation after the first, which
is what a late cancel request needs; a process that died counts anew.  Two
actors on one app are enough since the lock admits one and the other's reads
before it are the only interference.  Two credentials tell the first from any
other.  Two ports are the one the app runs on and another.  Two enrolments are what a stale grant or a stale cancel needs: the one that
was noted and the one that took its place; two clients show a lost file to end
another's enrolment too.  The lists of kinds and faults differ between runs: no run has both
crashes and failing file operations, and the run with crashes leaves out `start`
and `stop` and has one port.  A recipe on another port than its last one is within
what the theorems say, which are about any `Ports` and either `Template`.

In `agents`, `Overlap = 1`: calls overlap while no more than one request was made,
and follow each other after that; the second request is there to meet a full
queue (`MaxRows`, `MaxActive` and `MaxPerClient` are 1) and an evicted row.
`MaxVersion = 1` gives a target two forms, between which it goes back and forth;
`MaxConnected = 2` is a connection and the one that replaces it.

In `parts`: `MaxTokens = 2` reservations are a setup and the one after its
removal.  Two callers and two workers are a worker that leaves and its
successor.  `MaxVersion = 2` pieces of work are one before the snapshot and one
within.  Two Dockers are the current one and another, beside the managed engine.
Three ports, three revisions and `MaxMade = 2` rounds of credentials let a
preferred port be busy, a revision add a credential, and a companion meet the
main address.  `MaxRenames = 3` is what it takes to rename a repository, give its
name away and rename the taker; `MaxRedirects = 2` (three in the code) and `MaxCommits = 1`
are the smallest chain and a commit that moves.  `LargestPage = 2` makes a search
of three entries two pages.  A pipe holds two bytes, one is kept and up to two are written
(`PipeRoom`, `MaxCaptured`, `MaxWritten`), so that a pipe can be full and output be cut.
`FirstPort` to `LastPort`, `Offset` and the limits of resources keep the order of
the code's numbers, not the numbers.

The cases of the conversions are products of the alternatives each check tells
apart, taken around one valid value, so that most are refused and the rest
differ in what matters.  None of the properties about them is empty: of 550
plans 69 pass the checks; of 290 templates 8; 47 of 870 definitions for Runtipi
and 67 of 1092 for CapRover give a template; 32 of 5832 reviews, 2 of 96 recipes,
9 of 650 offers and 18 of 36 catalogues are whole.

`Actors`, `Creds` and `Owners` are symmetric where no liveness property is checked.
Deadlock is checked in every run but `agents` and `parts`, whose parts come to rest:
a queue whose requests are all closed, a conversion that was done.

### Fairness

`Registry!LiveSpec` lets every process that is not in `Stuck` go on: a call of
`storage.rs` waits for nothing but the lock, and for that at most ten seconds.
A process in `Stuck` may keep the lock for ever, and the others' calls must
return all the same.  `OperationLock!LiveSpec` assumes that a guard is dropped:
every operation under a guard ends, which is what `Lifecycle` shows.
`Lifecycle!LiveSpec` assumes that a thread takes its next step: each command has
a deadline (`process.rs` 242), the health wait too (`runtime/mod.rs` 559), and
`lock_operation` never waits.  `AgentRequests` assumes that the monitor polls,
every 250 ms (`agent_requests.rs` 699), and that an installation asked to stop winds down,
since it looks at its token between its steps; a removal is not assumed to.
`Supervisor` assumes that a worker on its way out goes on; it looks for the stop
file between commands that have deadlines.  `ProcessRunner` assumes that the runner goes
on and that time passes; the command may run for ever, hold its pipes and ignore
a kill, and no reader need ever see the end of a pipe.  Nothing is assumed of users, crashes or commands
that lost their caller.

## The proofs

| theorem | says |
|---|---|
| `RegistryTypeOK`, `LifecycleTypeOK`, `GatewayTypeOK`, `RequestsTypeOK`, `ContentTypeOK` | types |
| `RegistryImplementsStore` | any number of processes, ids and records: the files implement `RegistryStore`, if `Guarded` |
| `ReadsAreCurrent`, `LoadsAreNeverRefused` | the two invariants of the runs, if `Guarded` |
| `OneOperation`, `TableAgrees`, `CancelsAreAimed` | the invariants of the lock, any processes, threads, apps and bound |
| `ImplementsAppLocks` | an app is worked on only under its locked file, and unlocked only by who locked it or the end of its process |
| `HolderAlwaysWorks` | an operation past its first look holds the lock, whatever fails or dies |
| `KeptDataIsKept` | any actors, kinds, ports, faults and credentials: data of an app that was saved is removed only for an operation asked to, or by a command that was launched when nothing was kept (below) |
| `RunningAppIsLeftAlone`, `SavedAppsAnswer`, `FailedInstallsAreUndone` | any actors, kinds, ports, credentials and faults but a crash: a running app is left alone by discard and adopt, and by an install from its plan; an app is saved when it answers; a failed install is undone |
| `RunsCanBeTakenBack` | the same, for apps of one service rendered from a plan: what runs unsaved is found by discard and adopt |
| `AppsAreNeverStuck` | when only Docker fails: between operations there is always one that leads on |
| `CredentialsStay` | when Docker and registry writes fail, without a named volume: the Compose file has the credential of its data |
| `LifecycleUsesRegistry`, `LifecycleUsesLock` | every step of `Lifecycle`, failures and crashes among them, moves the entry as `RegistryStore` says, and works under the lock as `AppLocks` says |
| `FilesStayWithEnrolment` | any clients, apps and owners: files are open only to the enrolment they were granted to |
| `ImplementsCredentials` | the two files, their locks, crashes and lost files implement `Credentials`, file grants aside |
| `ApprovedIsExact` | any clients, apps, calls and limits: a worker carries out what the owner saw, for the enrolment that asked, under the app's lock |
| `RowsAreTrue` | a closed row says what became of the app |
| `ApprovalsAreUsedOnce` | the rows of requests implement `Approvals` |
| `RequestsUseLock` | a request is carried out under its app's lock from first to last, as `AppLocks` says |
| `GrantsAreForTheConnection` | an enrolled client's grant was given for the app's connection of now |
| `WritesAreSentOnce` | the proposals of writes implement `Approvals` |
| `EnginesStay` | any apps and tokens: no verified engine is removed beneath an app; containers are on the engine of the binding |
| `OthersAreLeftAlone` | a distribution of others is neither changed nor removed |
| `ChoicesStay`, `SetupsLeadOn` | a choice of the engine, viewed pages and requests to stop are kept; a setup that stopped leads on |
| `SnapshotsAgree`, `RestoresAreApart` | a snapshot is of one moment, a restored project of one snapshot |
| `ApprovalsAreOwn` | any repositories, names and redirects: an approval is for the repository GitHub named |
| `RunsAreReported` | any bounds on pipes, output and what is kept of it: a run reports the beginning of what was written, and leaves no pipe full and none of its tree |
| `EveryPlanComesUp` | any plan: if it passes its checks, all services of its file start, on ports and mounts of their own |
| `EveryProjectionIsRight` | any plan: its file for WSL comes up too, over the same data with the same access |
| `EveryPlanIsRight` | any plan with no variable named `published` and no argument that looks like an address: its addresses read back from its file as its own |
| `PlansAreRight` | `PlansComeUp` of the run, from the three |
| `EveryTemplateResolves` | any template that passes its checks: with accepted answers that leave no folder out and the credentials made for it, it is filled in to a plan that passes every check again |
| `TemplatesAreFilled` | the part of `DefinitionsAreKept` about templates (`TemplatesResolve`), from that; no form shows a credential |
| `AppsComeUp`, `CredentialsAreKept` | any revisions, answers, kept directories and other programs: what is installed comes up on free ports and shares judged folders only; no credential is replaced |
| `AppsAreWhole`, `ReinstallsKeep` | for plain templates (below): containers receive the values their template means; a reinstall keeps every address |

### Hypotheses

`Guarded` says that where an older registry exists the configuration directory
does too. Without it `registry_legacy_race` shows the refinement to fail, so the
assumption cannot be dropped.

The theorems of the second half of `LifecycleProofs` each name the faults they
exclude, and TLC shows that they must. With a crash among the faults all six
properties are violated: the Docker command outlives its caller and changes the app
under the next operation.
With two services `UnsavedRunsAreRecoverable` is violated, since recovery lists
apps of one service only; for a recipe (`Template = FALSE`) too, when a file fails
while an install for another port is under way above a running app that is not saved.
`RunningAppUntouched` speaks of installs from a plan only, since a recipe's takes a
running app down (Findings). `NeverStuck` is violated by a failing file and by a
failing registry write (the uninstall that cannot be finished),
`CredentialsOpenData` by a failing file and by a named volume (run
`lifecycle_volume`); a failing registry write leaves credentials alone, and the
theorem allows it.

All other assumptions are on constants, in the modules that declare them: `NoCall`
is no call, bounds are numbers, a queue has room for a row
(`AgentRequestsAssumption`, `ContentAssumption`); the names the modules reserve
("none", "damaged", "absent", `NoOne`) are not those of a Docker, a repository, a
page or a caller (`PartsAssumption`); a command has two streams (`RunnerAssumption`).
`ProvisionAssumption` says that a revision is a template at all: its plan has the
fields of a plan, and a folder it shares is the answer of a question for a folder,
which is the only way the importers make one (`runtipi.rs` 549). It says of the
file system that a link leads to what is no link and no folder is named through
`..`, since folders are compared and shared by their canonical paths
(`folders.rs` 77), and that Local Store's own directory is below the home. TLC
evaluates each on a run.

`IsTemplate`, the hypothesis of `EveryTemplateResolves`, is the shape of the type
`PlanTemplate`, not its checks: the fields of a plan, keys of the installer's of
the kinds it fills, formats that are formats, and again folders that are asked for.
Every template of the run has it, those that fail a check too (`SamplesAssumption`).

`PlainTemplates` is a hypothesis of two theorems only, and stands for three things
the code does not do as its templates mean, each among the findings below. No
argument of a command looks like an address and no variable is named `published`
(`NoLookalikes`), or they are read back as one. An answer is text, or a `$` in it is expanded by Compose. A value asks for
the installer's own names without a default, or keeps the default
(`ValuesArePlain`, which also leaves values that are not sequences of parts out,
and folders that are asked for as text). `EveryPlanIsRight` needs the first of
them. TLC evaluates all on the revisions and plans of the run
(`SamplesAssumption`), where they hold, so that none of these theorems is empty.

### Arguments

`RegistryInv`. That reads are current is not inductive alone: a process between
two file operations must know what the files look like. `LockInv` says who runs
without the lock (loads, when there is nothing to migrate); `KnowsFiles` says what
each step knows (before the live file is removed, the previous one is equal to it,
so that `Committed` does not change there); `KnowsChange` says that what is about
to be written is the call's change of the committed map, so that the rename of the
live file is the abstract step and every other step a stutter.

`OperationLock!LockInv` adds to `TableIsTrue` that a guard stands for a locked
file, that ids are below the next one, that only issued ids are cancelled, and
that two apps never share an id.

`KeptInv` is the argument that a rollback never deletes data that predates it: an
install that `created` the directory has no data to keep (`Keeps`), because kept
data implies that the directory exists; volumes are removed only by a command
whose operation was asked to delete, or whose install had made them. `Shape` lists
which operations reach which steps. `OrphanInv` is what is left of this when the
process died: a `down --volumes` that runs on was launched for an operation asked to
delete, or by the undo of an install while nothing was kept. The second is excused
by `KeptDataSurvives`, and may remove what was saved since (Findings).

`QuietInv` is about operations and what they find when no command outlives its
caller. `Phases` says which phase each step belongs to, and that an operation in a
rollback has an end to report. `Finds` relates the step to the app: the files of an app
rendered from a plan change only while no container is up, so that a running container
has its files (`Bound`); a
rollback wipes after the containers are gone; and an operation that noted a saved,
running app is at its checks, or the entry has gone since; or it installs a recipe. That
clause is the subtle one: an entry may go without the lock (`remove`), and none of a
managed app comes without it. An install from a plan passes its checks only while no
container is up, since the port it would publish is the one the Compose file has, and a
running app's containers have it too.

`DiskInv` follows the files of the holder's app step by step. `Tidy` says that the
Compose file never stands without the engine file, except at the steps that
replace them, and that an install onto a saved app has an old Compose file to put
back; `Keys` that whatever is about to be written has the credential the secrets
and the data have. `Sound` is what is left between operations. Its clauses about
saved apps ask that no registry write fails (`Recorded`), those about credentials
do not.

`GatewayInv` says what an owner knows at each step: under the credential lock,
that the client's permissions are gone before its credential changes; without it,
that the scope it wrote still carries the generation it noted, because
`FilesAlone` (the operation lock of the app) excludes another file grant.
`ScopeOK` then gives that a file permission is that of its scope, which the
agent's secret must match.

`AgentRequests`. `Holds` says from which step on a worker has the app's lock; `Seen`, that a row keeps what the owner saw from his
approval on; `Works`, that a worker's row is running for what the worker noted, or
is gone; `Tells`, that nothing was done for an open row and everything for one
that succeeded. Two workers are never at one id, although a row may be evicted and
its id is looked up again by whoever comes late. An approval is used by the claim,
which is one section under the lock of the queue: there the row maps to a step of
`Approvals`, and elsewhere rows only close.

`AgentContent` differs in that the app may be connected anew. `Knows` says that a
call that is about to replace a connection has the file and that no enrolled
client has a grant for it (`RevokeScopes` came before): so no step leaves a grant
with another connection. `Sends` and `Tells` say that what is being sent is spent
and was never sent. The requests of `MCAgents` enrol and revoke the same clients,
while the content is as it began (`Untouched`).

`PartsProofs`. The run's steps are those of one part at a time, and `PartsStep`
says that each is a step or a stutter of every part, so that the parts have
invariants of their own. `BoxInv`, of the engine: `JournalFollows` says what the
journal is at each step of a transaction, `DistroFollows` and `Distros` whose the
distribution is; `ChoiceIsMarked` that a choice is never without its marker;
`WhenCertain` what holds as long as no step ended in the middle, and a
distribution is not a stranger's. `BoundInv`: containers are on the engine of the
first binding, which the file names unless it was damaged or lost. `SnapInv`: a
stopped app has files and volume of one moment, and stays so until both are
copied. `RestoreInv`: before each step the parts written are those of the archive,
and the others empty. `LinkedInv`: while nothing is renamed, a name seen is held
by the repository seen, and a name that differs from the one asked for needs a
redirect. `IntroInv`: the file has only viewed pages, all of them unless it was
lost; the writer is alone. `AwakeInv`, of the supervisor: a worker that runs has
the lock of workers, a caller that starts one has the lock for that from its second
look on, and who is about to clear the stop file has found that nobody who was
asked is left. `RunInv`: what was written of a stream is what is in its pipe, was
kept and was dropped; nothing is dropped before the sink is full; a report was true
of a sink that only grows; and the tree of a run that was given up is the group that
was told, since a child of it joins the group.

`PlanProofs` is about data, and its inductions are over sets (`Least`,
`StepByStep`). A plan comes up because the order its checks found is an order of
starts: every round of the check's order is in the same round of the start, and
both are done when nothing is added any more. Ports, names and volumes of the
file are those of the plan, line by line, and the checks keep them apart; the
readers find the address of a line and no other, since the other lines do not
look like one. `SettledUpTo(n)` says that the first `n` services have their
second address, that it is the one the directory had, and that the rest of the
plan is as the template has it; the settling is this fact for all of them. A value
is followed part by part through the substitution of the installer's names,
the answers and credentials, and what Compose makes of the rest: each leaves one
part meaning what it meant, and flattening keeps that. A template resolves because
filling in changes values and the sources of shared folders only: the plan that is
filled in `StandsFor` the one that was checked, and each check gives the same of
both, the order of the services round by round. What is left to be filled is the
template's own, or has a default, since the installer leaves nothing else. Of the
steps, `InstalledInv`
says that what runs is the file of a checked plan on free ports, `KeptInv` that a
directory has at most one file, made from some plan, `WholeInv` that what runs
received the values it was meant to, with the credentials in the directory.

`EntryMoves` and `HolderMoves` go through the steps of `Lifecycle`: only `Commit` and
`Connect` add an entry, where there is none, and only `Unregister` and `Remove` take
one away; a lock goes to an actor while it is free, as he begins to work, and comes
back from him as he ends, which needs that who works holds the lock (`KeptInv`).
`LocksMove` is the same of the queue's workers, and needs `Holds`.

Each inductive invariant was checked by TLC on the instances of the runs before it
was proved; the runs check the properties themselves, and leave these out. No
module of this directory declares a RECURSIVE operator; recursion is by recursive
functions and folds.

### Only model-checked

Liveness under fairness is out of this prover's reach: `CallReturns`,
`AppIsFreed`, `OperationEnds`, `UnwantedWorkEnds` and `StopIsObeyed`.

`DefinitionsAreKept` (but for `TemplatesResolve`) and `ShownIsWhole` say what
conversions give, on the cases of `Samples`. What a recursive function gives is proved in `PlanProofs` by inductions
over sets; the library's induction theorems and its folds (`SelectSeq`,
`FoldLeft`) take an operator as a parameter, which the provers cannot instantiate,
and the importers, the reviews and the search are built from those folds.
`CancelIsExact` and `Sound` are false of the code (Findings).

## Findings

- **A load without a directory races a first write** (`storage.rs` 215).  The
  load takes no lock, migrates the legacy registry and replaces one another
  process has created since.  Run `registry_legacy_race`.
- **A rolled back install loses its volume's credential** (`runtime/mod.rs`
  1127).  Run `lifecycle_volume`.
- **Cancelling may revoke a newer enrolment** (`agent_owner.rs` 163): the comparison
  and the revocation are in different lock sections.  Run `agent_stale_cancel`.
- **A pattern of two classes is read as one** (`setup.rs` 521): it is answered to let
  every generated credential pass, and some do not.  Run `secret_pattern`.

Disagreements seen while modelling, without a run:

Registry and lifecycle
- An uninstall whose registry write fails after the directory is gone cannot be
  finished (`runtime/mod.rs` 1547; `recovery.rs` 248 says "If it is installed,
  uninstall it instead.").
- Recovery refuses an app with two services (`recovery.rs` 108, against 146,
  "Every app a person could have started installing").
- Nothing checks a record when it is saved: a blank name (`cli.rs` 140,
  `storage.rs` 311), or a converted entry of the first version with ".." in a
  path or a blank field (`storage.rs` 468), makes every later load refuse the
  registry.  A Compose value that is a directory is taken for a file of its parent.
- A cancel request kills a running Compose command (`process.rs` 251) where
  `docs/command-contract.md` 96 says it never interrupts one.
- Adopting waits with `LIFECYCLE_TIMEOUT` (`recovery.rs` 491) where its comment
  speaks of the install's.
- The CLI's reinstall of a saved, stopped app brings it up before it finds that
  the commit is refused, and takes it down again.  Of a recipe that runs on another
  port than the one the recipe names by now (`cli.rs` 548, `runtime/mod.rs` 951), it
  makes the running containers anew, and takes them down; the Compose file that
  stays publishes another port than the entry's address.
- The same install over a recipe that runs unsaved may lose its Compose file, if the
  new one cannot be written, and discard and adopt no longer list it.
- The undo of an install whose commit failed runs `down --volumes`
  (`runtime/mod.rs` 1489).  If its process dies, the command may end after the app
  was installed again and saved, and removes the new volume.
- A crash between the temporary Compose file and its rename leaves a directory
  that an install refuses (`runtime/mod.rs` 993) and recovery does not list
  (`recovery.rs` 146).
- A revision that drops all credentials leaves the credential file, which the
  next preflight refuses (`runtime/mod.rs` 750, 985).
- Output that a reader has not brought in by its deadline is not marked as
  truncated (`process.rs` 402), and callers take it for complete.

Agents
- A file grant is saved in another lock section than its check
  (`agent_gateway.rs` 67, against the comment at 210): a client enrolled again in
  between gets the status permission of the grant, though not its files.
- Rows of a connector that died while Running count as active for ever
  (`agent_requests.rs` 277).

Engine
- Two looks at once take a dead worker's status for a live one's
  (`supervisor.rs` 109, against 95, "A stale PID or status file alone is never accepted.").
- `bind-engine`, which `docs/plans/bundled-engine.md` 71 calls available, always refuses an
  unbound app: the runner discovers only the managed engine (`process.rs` 182),
  whose labels are Linux paths (`adoption.rs` 139).
- A bound project without a marker (after a rollback, `runtime/mod.rs` 1131, or abandoned
  between binding and Compose file) whose binding is lost falls back to the
  current Docker (against `engine.rs` 192, "no fallback engine was selected").
- An unbound app that is installed again is bound to the selected engine, though
  its named volumes are on another.

Setup, importers and offerings
- A `$` in an answer is accepted and not escaped, so that Compose expands it
  (`projection.rs` 91 keeps it).
- A folder question that may be left blank makes every resolution without it fail.
- An environment variable named `published` whose value is a number passes the checks
  (`plan.rs` 757) and is read back as the service's second address (`plan.rs` 926),
  which a reinstall then moves there.
- `published_host_port` takes an argument line that looks like an address for one;
  a companion may want the port the main address has; moving the main port may
  meet a companion's.
- Only the first mount of a library tells a person whether it is read-only
  (`runtipi.rs` 549-568, against `setup.rs` 65).
- `${LOCAL_STORE_URL:-x}` keeps its default; the parent of the home directory may
  be shared unless the managed root is inside; pinning storage may split data that two services share.
- Runtipi's importer drops keys of a service it does not know, and an environment or
  volumes of another type, without a limitation; in CapRover's a declared variable eats the beginning of a
  longer undeclared one.
- The commit of a link is fetched by name after its metadata (`github_source.rs`
  463), and may be another repository's.

Onboarding
- A replacement that breaks off forgets all progress without a word
  (`onboarding_store.rs` 64 says "refused instead of silently replacing"; the
  copy `storage.rs` 410 speaks of is not made for this file).

Where one of these stands in the way of a property, the module's environment or
its cases leave it out, and say so: `ListIsKept` asks for entries without ".." and
blanks, `LoseBinding` for a marked project, `Resolves` for answered folders,
`WayOut` for a setup that did not end in the middle of a step (`uncertain`),
`ViewedIsKept` for a replacement that did not break off (`forgotten`),
`ApprovalIsOwn` for an inspection during which nothing is renamed,
`RunningAppUntouched` for installs from a plan, and `KeptDataSurvives` for commands
launched when nothing was kept.  Plans of `Samples` have no argument lines that look
like addresses and no variable named `published`, and no definition for Runtipi has a
key its importer does not know, which `AsWritten` would find dropped.

## Not modelled

In `AgentGateway`: which actions a permission allows beyond files, one-use tickets
(they are never saved), and the audit's content.  In `AgentContent`: what of an app's
reply is passed on, which only reads; a request to PrivateBin has no deadline for
its connection, which the model takes for one that is answered or fails.

In `Lifecycle`: seed files, status and logs (they read), and the wording of errors.
The volumes' names, which services an app has beyond "one or several", and
Docker's own scheduling are abstracted; a directory is removed entry by entry
(`Wipe`), in any order, and may stay half removed.  An app has one port: second
addresses are in `Provisioning`.  A crash of the whole machine is not
distinguished from a crash of the process: file operations take effect in order,
as the code assumes without `fsync` of directories.

In `Backup`: ciphers, hashes and limits of an archive, which is rejected whole
before the first write; that the app stays stopped when the snapshot's process
dies (`backup.rs` 566) is behaviour of the model, and no property is against it.

In `Plans` to `Catalogue`: characters of names, layout of YAML and JSON, and the
definitions themselves, which are data.  CapRover's expressions are atomic
parts of a value.

Without a module: the operating system's calls behind a lease, a cipher or a worker's
process; read-only views, listings and the provider evidence; the agent's stdio
protocol, which keeps no state; the qualification harness; desktop integration.
`PROJECT.json` has the reason of each.

## What is left

1. Of `Catalogue` and the importers, what needs no fold: that a page is part of the
   matches, that an import that is whole names what it was given.
2. The composition of `Lifecycle` with `Binding` in one module, on an instance that
   stays small enough: which engine a rolled back install leaves.
3. What an agent's permission allows beyond files, with the tickets that are never
   saved.
