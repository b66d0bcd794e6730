------------------------------- MODULE Engine -------------------------------
(***************************************************************************)
(* The managed engine: one WSL distribution under a fixed name, with an    *)
(* ownership journal and a token beside it (runtime/engine/wsl/            *)
(* bootstrap.rs), the choice of it for new installs (engine_setup.rs) and  *)
(* its removal (engine_removal.rs).                                        *)
(*                                                                         *)
(* Setup and removal hold the operation lock "managed-engine", so that at  *)
(* most one transaction is under way; it fails or dies at any step, a WSL  *)
(* command may have its effect all the same, and an import may have it     *)
(* after nobody waits for it.  Files are replaced by remove and rename.    *)
(* Installs look at the engine under the lock of their app only.           *)
(*                                                                         *)
(* Abstracted: the root file system is good and there is space, or the     *)
(* transaction fails; what the distribution must hold besides the token is *)
(* `daemon`; removal-v1.json is written and never read; nobody but the     *)
(* program unregisters a distribution.                                     *)
(***************************************************************************)
EXTENDS Naturals, FiniteSets

CONSTANTS Apps,
          MaxTokens     \* bound: reservations made

VARIABLES journal, tokenFile,    \* bootstrap.json, ownership-token
          distro,                \* the distribution of the fixed name: who made it, its token
          disk,                  \* the native data directory exists
          daemon,                \* Docker answers in the distribution
          marker, selection,     \* engine-selection-configured, selected-engine.json
          tx,                    \* the transaction under way
          late,                  \* an import nobody waits for
          app,                   \* per app: its install, its project
          issued,                \* tokens are random: none comes twice
          chosen,                \* history: a choice was made, and not removed since
          uncertain              \* history: a transaction ended in the middle of a step

records == <<journal, tokenFile, marker, selection>>
history == <<issued, chosen, uncertain>>
engineVars == <<records, distro, disk, daemon, tx, late, app, history>>

NoToken == 0
DevToken == 1
Tokens == 0 .. MaxTokens + 1
Phases == {"none", "broken", "reserved", "imported", "verified"}
Journals == [phase : Phases, token : Tokens, place : {"native", "dev"}]
Journal(phase, token, place) == [phase |-> phase, token |-> token, place |-> place]
NoJournal == Journal("none", NoToken, "native")
DevJournal == Journal("verified", DevToken, "dev")
NoDistro == [by |-> "none", token |-> NoToken]
Steps == {"idle", "reserve", "token", "import", "remove", "rename", "verify", "inspect",
          "ready", "mark", "unchoose", "choose", "unregister", "erase"}
Idle == [step |-> "idle", known |-> NoJournal]

TypeOK ==
  /\ journal \in Journals /\ tokenFile \in Tokens
  /\ distro \in [by : {"none", "us", "dev", "foreign"}, token : Tokens]
  /\ {disk, daemon, marker, selection, late, chosen, uncertain} \subseteq BOOLEAN
  /\ tx \in [step : Steps, known : Journals]
  /\ app \in [Apps -> {"free", "looking", "installing", "installed"}]
  /\ issued \in DevToken .. MaxTokens + 1

\* A first launch, or beside an engine of a development build, or of someone else.
EngineInit ==
  /\ journal = NoJournal /\ tokenFile = NoToken
  /\ distro \in {NoDistro, [by |-> "dev", token |-> DevToken], [by |-> "foreign", token |-> NoToken]}
  /\ disk = FALSE /\ daemon = TRUE
  /\ marker = FALSE /\ selection = FALSE
  /\ tx = Idle /\ late = FALSE
  /\ app = [a \in Apps |-> "free"]
  /\ issued = DevToken /\ chosen = FALSE /\ uncertain = FALSE

-----------------------------------------------------------------------------
\* Where the data directory of a journal is: the development engine's stays.
DiskOf(j) == IF j.place = "dev" THEN TRUE ELSE disk
TokensAgree == tokenFile = journal.token /\ distro.token = journal.token

\* What a journal found on disk allows.
Disposition ==
  LET there == distro # NoDistro
  IN IF journal.phase = "none" THEN "unconfigured"
     ELSE IF journal.phase = "broken" THEN "unreadable"
     ELSE IF journal.phase = "reserved" /\ ~there /\ ~DiskOf(journal) THEN "retry"
     ELSE IF journal.phase = "imported" /\ there /\ DiskOf(journal) THEN "resume"
     ELSE IF journal.phase = "verified" /\ there /\ DiskOf(journal) /\ TokensAgree THEN "ready"
     ELSE "review"

Ready == Disposition = "ready" /\ daemon

\* What a new install gets: a choice that was made is never taken for none.
SelectedAt == IF selection THEN "managed" ELSE IF marker THEN "refused" ELSE "none"

Goto(step) == tx' = [tx EXCEPT !.step = step]
Begin(step, j) == tx.step = "idle" /\ tx' = [step |-> step, known |-> j]
OnlyTx == UNCHANGED <<records, distro, disk, daemon, late, app, history>>
World == <<distro, disk, daemon, late, app>>

-----------------------------------------------------------------------------
\* Beginning: the owner's actions.

\* No transaction before this one, no distribution of this name, no data directory.
Preflight == distro = NoDistro /\ ~disk

Install ==
  /\ journal.phase = "none" /\ Preflight
  /\ issued <= MaxTokens
  /\ Begin("reserve", Journal("reserved", issued + 1, "native"))
  /\ issued' = issued + 1
  /\ UNCHANGED <<records, World, chosen, uncertain>>

RetryImport == Disposition = "retry" /\ Begin("import", journal) /\ OnlyTx
ResumeVerification == Disposition = "resume" /\ Begin("verify", journal) /\ OnlyTx
SelectManaged == Ready /\ Begin("mark", journal) /\ OnlyTx

\* A development build's engine, whose own records agree, is taken over as it is; a
\* token that is missing here is completed.
AdoptDevelopment ==
  /\ distro = [by |-> "dev", token |-> DevToken]
  /\ \/ journal.phase = "none" /\ Begin("reserve", DevJournal)
     \/ journal = DevJournal /\ Begin(IF tokenFile = NoToken THEN "token" ELSE "ready", DevJournal)
  /\ OnlyTx

Repair ==
  /\ tx.step = "idle" /\ Disposition = "ready" /\ ~daemon
  /\ daemon' = TRUE
  /\ UNCHANGED <<records, distro, disk, tx, late, app, history>>

\* Faulty: an install that has not written anything yet is not seen.
NoProjects == \A a \in Apps : app[a] \in {"free", "looking"}

\* Every app's lock is taken, and no project, registered or not, is left.
NoApps == \A a \in Apps : app[a] = "free"

\* Faulty: wherever the verified engine is.
AnyEngine == journal.phase = "verified"

\* Only the engine this program imported into its own place is removed.
OwnedNatively == journal.phase = "verified" /\ journal.place = "native" /\ disk

Removal ==
  /\ NoApps /\ OwnedNatively
  /\ SelectedAt = "managed" /\ Ready
  /\ Begin("unregister", journal)
  /\ OnlyTx

-----------------------------------------------------------------------------
\* The steps of setup.

Reserve ==
  /\ tx.step = "reserve" /\ journal.phase = "none"
  /\ journal' = tx.known
  /\ Goto("token")
  /\ UNCHANGED <<tokenFile, marker, selection, World, history>>

WriteToken ==
  /\ tx.step = "token"
  /\ tokenFile' = tx.known.token
  /\ Goto(IF tx.known.place = "dev" THEN "ready" ELSE "import")
  /\ UNCHANGED <<journal, marker, selection, World, history>>

\* WSL makes a distribution where there is none.
MakesDistro ==
  /\ distro = NoDistro /\ ~disk
  /\ distro' = [by |-> "us", token |-> NoToken] /\ disk' = TRUE
  /\ daemon' \in BOOLEAN

Advance(phase) == tx' = [step |-> "remove", known |-> [tx.known EXCEPT !.phase = phase]]

Import ==
  /\ tx.step = "import" /\ MakesDistro
  /\ Advance("imported")
  /\ UNCHANGED <<records, late, app, history>>

\* Faulty: an import that failed is written down as one that worked.
AdvanceAnyway ==
  /\ tx.step = "import"
  /\ Advance("imported")
  /\ UNCHANGED <<records, World, history>>

\* The import fails, and nothing happened; or something did, or will.
ImportFails ==
  /\ tx.step = "import" /\ tx' = Idle
  /\ \/ UNCHANGED <<distro, disk, daemon, late, uncertain>>
     \/ uncertain' = TRUE /\ MakesDistro /\ UNCHANGED late
     \/ uncertain' = TRUE /\ late' = TRUE /\ UNCHANGED <<distro, disk, daemon>>
  /\ UNCHANGED <<records, app, issued, chosen>>

LateImport ==
  /\ late /\ late' = FALSE
  /\ MakesDistro \/ UNCHANGED <<distro, disk, daemon>>
  /\ UNCHANGED <<records, tx, app, history>>

\* The journal is replaced: for a moment there is none.
RemoveJournal ==
  /\ tx.step = "remove"
  /\ journal' = NoJournal
  /\ Goto("rename")
  /\ UNCHANGED <<tokenFile, marker, selection, World, history>>

RenameJournal ==
  /\ tx.step = "rename"
  /\ journal' = tx.known
  /\ Goto(IF tx.known.phase = "imported" THEN "verify" ELSE "mark")
  /\ UNCHANGED <<tokenFile, marker, selection, World, history>>

\* The token goes into the distribution, and the external one must be the journal's.
InstallToken ==
  /\ tx.step = "verify"
  /\ journal.phase = "imported" /\ distro # NoDistro /\ tokenFile = journal.token
  /\ distro' = [distro EXCEPT !.token = tokenFile]
  /\ Goto("inspect")
  /\ UNCHANGED <<records, disk, daemon, late, app, history>>

Inspect == tx.step = "inspect" /\ daemon /\ Advance("verified") /\ OnlyTx
Adopted == tx.step = "ready" /\ Ready /\ Goto("mark") /\ OnlyTx

\* Faulty: the choice is written without its marker.
NoMark ==
  /\ tx.step = "mark"
  /\ Goto(IF selection THEN "unchoose" ELSE "choose")
  /\ UNCHANGED <<records, World, history>>

\* "Durable marker precedes the choice" (src/engine_setup.rs:292).
Mark ==
  /\ tx.step = "mark"
  /\ marker' = TRUE
  /\ Goto(IF selection THEN "unchoose" ELSE "choose")
  /\ UNCHANGED <<journal, tokenFile, selection, World, history>>

Unchoose ==
  /\ tx.step = "unchoose"
  /\ selection' = FALSE
  /\ Goto("choose")
  /\ UNCHANGED <<journal, tokenFile, marker, World, history>>

Choose ==
  /\ tx.step = "choose"
  /\ selection' = TRUE /\ chosen' = TRUE
  /\ tx' = Idle
  /\ UNCHANGED <<journal, tokenFile, marker, World, issued, uncertain>>

-----------------------------------------------------------------------------
\* The steps of removal.

\* The distribution goes, and its disk; or the command says it did not.
Unregister ==
  /\ tx.step = "unregister"
  /\ distro' = NoDistro /\ disk' = FALSE
  /\ \/ Goto("erase") /\ UNCHANGED uncertain
     \/ tx' = Idle /\ uncertain' = TRUE
  /\ UNCHANGED <<records, daemon, late, app, issued, chosen>>

\* Its records go, the marker last.
Erase ==
  /\ tx.step = "erase"
  /\ journal' = NoJournal
  /\ tokenFile' = IF journal = NoJournal THEN NoToken ELSE tokenFile
  /\ selection' = IF journal = NoJournal /\ tokenFile = NoToken THEN FALSE ELSE selection
  /\ IF ~selection THEN marker' = FALSE /\ chosen' = FALSE /\ tx' = Idle
     ELSE UNCHANGED <<marker, chosen, tx>>
  /\ UNCHANGED <<World, issued, uncertain>>

\* One of them cannot be removed: all are written again.
RestoreRecords ==
  /\ tx.step = "erase"
  /\ journal' = tx.known /\ tokenFile' = tx.known.token
  /\ selection' = TRUE /\ marker' = TRUE
  /\ tx' = Idle /\ uncertain' = TRUE
  /\ UNCHANGED <<World, issued, chosen>>

-----------------------------------------------------------------------------
\* What may go wrong, and what others do.

\* A step refuses, or the process dies before it; in the middle of a write a file
\* is missing.
Abandon ==
  /\ tx.step # "idle" /\ tx' = Idle
  /\ late' \in {late, late \/ tx.step = "import"}
  /\ journal' \in {journal} \union
       (IF tx.step = "reserve" THEN {Journal("broken", NoToken, "native")} ELSE {})
  /\ uncertain' = (uncertain \/ tx.step \in {"token", "rename", "choose", "erase"}
                             \/ (tx.step = "remove" /\ journal.phase = "reserved")
                             \/ late' # late \/ journal' # journal)
  /\ UNCHANGED <<tokenFile, marker, selection, distro, disk, daemon, app, issued, chosen>>

\* Someone else makes a distribution of this name.
Foreign ==
  /\ distro = NoDistro
  /\ distro' = [by |-> "foreign", token |-> NoToken]
  /\ UNCHANGED <<records, disk, daemon, tx, late, app, history>>

DaemonStops ==
  /\ daemon /\ daemon' = FALSE
  /\ UNCHANGED <<records, distro, disk, tx, late, app, history>>

\* Removal holds the locks of all apps.
Removing == tx.step \in {"unregister", "erase"}

AppGoes(a, from, to) ==
  /\ app[a] = from /\ app' = [app EXCEPT ![a] = to]
  /\ UNCHANGED <<records, distro, disk, daemon, tx, late, history>>

\* An install looks at the engine, under its app's lock, writes its project, and
\* commits or rolls back; or it dies and leaves the project.
LookAtEngine(a) == ~Removing /\ SelectedAt = "managed" /\ Ready /\ AppGoes(a, "free", "looking")
WriteProject(a) == AppGoes(a, "looking", "installing")
InstallEnds(a) == \/ AppGoes(a, "installing", "installed") \/ AppGoes(a, "installing", "free")
                  \/ AppGoes(a, "looking", "free")
Uninstall(a) == ~Removing /\ AppGoes(a, "installed", "free")

EngineNext ==
  \/ Install \/ RetryImport \/ ResumeVerification \/ SelectManaged \/ AdoptDevelopment
  \/ Repair \/ Removal
  \/ Reserve \/ WriteToken \/ Import \/ ImportFails \/ LateImport
  \/ RemoveJournal \/ RenameJournal \/ InstallToken \/ Inspect \/ Adopted
  \/ Mark \/ Unchoose \/ Choose
  \/ Unregister \/ Erase \/ RestoreRecords
  \/ Abandon \/ Foreign \/ DaemonStops
  \/ \E a \in Apps : LookAtEngine(a) \/ WriteProject(a) \/ InstallEnds(a) \/ Uninstall(a)

EngineSpec == EngineInit /\ [][EngineNext]_engineVars

-----------------------------------------------------------------------------
\* Whoever has a project, or is about to write one, has a verified engine: it is not
\* removed beneath an install that looked at it before (src/engine_removal.rs:271).
AppsKeepTheirEngine == \A a \in Apps : app[a] # "free" => Disposition = "ready"

\* "Adopted development or foreign engine locations are preserved"
\* (src/engine_removal.rs:213): such a distribution is neither changed nor removed.
OthersStay == [][distro.by \in {"dev", "foreign"} => distro' = distro]_engineVars

\* "A crash during Windows file replace must refuse installs instead of silently
\* restoring ambient Docker routing" (src/engine_setup.rs:292).
ChoiceIsKept == chosen => SelectedAt # "none"

\* A setup that failed, but not in the middle of a step, leaves a state in which one
\* of the owner's actions leads on (src/runtime/engine/wsl/bootstrap.rs:626).
WayOut ==
  tx.step = "idle" /\ ~uncertain /\ distro.by # "foreign" =>
    \/ journal = NoJournal /\ ~disk /\ distro.by # "us"
    \/ Disposition \in {"retry", "resume", "ready"} /\ tokenFile = journal.token

=============================================================================
