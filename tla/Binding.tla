------------------------------ MODULE Binding ------------------------------
(***************************************************************************)
(* Which engine the containers of one app are on (runtime/engine.rs,       *)
(* engine/adoption.rs, engine/wsl.rs, engine/wsl/lease.rs): a file in the  *)
(* project directory names it, and a marker at the head of the Compose     *)
(* file says that there is such a file, so that an app whose file is lost  *)
(* is refused and not taken to whatever Docker is current.  An app from    *)
(* before there were bindings has neither, and follows the current Docker. *)
(*                                                                         *)
(* The operations of an app hold its lock: one is under way.  It fails or  *)
(* dies at any step.                                                       *)
(*                                                                         *)
(* Abstracted: `ready` is that the managed engine is chosen, owned and     *)
(* answers (Engine has the details); the other files and the data of the   *)
(* project; stopping, which removes no container; an install of an app     *)
(* that is saved, which Lifecycle has.                                     *)
(***************************************************************************)
CONSTANT Dockers         \* the engines a docker command may reach by itself

managed_wsl == "managed"
Engines == Dockers \cup {managed_wsl}

VARIABLES directory,               \* the project directory exists
          binding,                 \* local-store-engine.json
          compose, projected,      \* compose.yaml: its marker; compose.wsl.yaml exists
          saved,                   \* the app is in the registry
          containers,              \* the engines that have containers of the app
          current,                 \* the Docker of an unbound command
          ready,
          lease,                   \* this process holds the pipe into the managed engine
          work,                    \* the operation under way
          home, madeOn             \* history: the engine it was bound to; where containers
                                   \* were made since

project == <<directory, binding, compose, projected>>
world == <<current, ready>>
history == <<home, madeOn>>
bindingVars == <<project, saved, containers, world, lease, work, history>>

Idle == [step |-> "idle", engine |-> "none", created |-> FALSE, old |-> "none", oldProjected |-> FALSE]

TypeOK ==
  /\ {directory, projected, saved, ready, lease} \subseteq BOOLEAN
  /\ binding \in Engines \cup {"none", "damaged"}
  /\ compose \in {"none", "plain", "marked"}
  /\ containers \subseteq Engines /\ madeOn \subseteq Engines
  /\ current \in Dockers /\ home \in Engines \cup {"none"}
  /\ work \in [step : {"idle", "save", "write", "project", "up", "rollback", "mark"},
               engine : Engines \cup {"none"}, created : BOOLEAN,
               old : {"none", "plain", "marked"}, oldProjected : BOOLEAN]

\* Nothing; an app from before there were bindings; one that an earlier version bound to a Docker.
BindingInit ==
  /\ current \in Dockers /\ ready \in BOOLEAN
  /\ projected = FALSE /\ lease = FALSE /\ work = Idle /\ madeOn = {}
  /\ directory \in BOOLEAN /\ saved = directory
  /\ containers = IF saved THEN {current} ELSE {}
  /\ binding \in IF saved THEN {"none", current} ELSE {"none"}
  /\ compose = IF ~saved THEN "none" ELSE IF binding = "none" THEN "plain" ELSE "marked"
  /\ home = binding

-----------------------------------------------------------------------------
\* What the project says its engine is.
retained ==
  IF binding \in Engines THEN binding
  ELSE IF binding = "none" /\ compose # "marked" THEN "none"
  ELSE "refused"

\* The engine of a command of this project.
project_command == IF retained = "none" THEN current ELSE retained

\* The managed engine reads the projected file, and only beside the reviewed one.
runtime_command == compose # "none" /\ projected

\* There is a command, and a file for it.
HasCommand ==
  /\ project_command # "refused"
  /\ IF project_command = managed_wsl THEN runtime_command ELSE compose # "none"

\* Before an operation on a saved app: its managed engine is verified afresh and held
\* open; when it is not, the pipe goes too.
keep_owned_app_engine == retained = managed_wsl => ready
Hold == lease' = IF retained = managed_wsl THEN ready ELSE lease

At(step) == work.step = step
Goto(step) == work' = [work EXCEPT !.step = step]
Finish == work' = Idle

Makes ==
  /\ containers' = containers \cup {project_command}
  /\ madeOn' = IF home = "none" THEN madeOn ELSE madeOn \cup {project_command}
  /\ UNCHANGED home
Takes == containers' = containers \ {project_command}

Clear ==
  /\ directory' = FALSE /\ binding' = "none" /\ compose' = "none" /\ projected' = FALSE
  /\ home' = "none" /\ madeOn' = {}

-----------------------------------------------------------------------------
\* Installing.  What is bound stays bound; what is not goes to the engine of the owner's choice.
Discovered == IF ready THEN {managed_wsl} ELSE {}

Install ==
  /\ At("idle") /\ ~saved
  /\ \E e \in IF retained = "none" THEN Discovered ELSE {retained} \cap Engines :
       work' = [step |-> "save", engine |-> e, created |-> ~directory,
                old |-> compose, oldProjected |-> projected]
  /\ lease' = (lease \/ retained = "none")
  /\ directory' = TRUE
  /\ UNCHANGED <<binding, compose, projected, saved, containers, world, history>>

\* A binding is never replaced by another.
save ==
  /\ At("save") /\ retained \in {"none", work.engine}
  /\ binding' = work.engine /\ home' = work.engine
  /\ Goto("write")
  /\ UNCHANGED <<directory, compose, projected, saved, containers, world, lease, madeOn>>

WriteCompose ==
  /\ At("write")
  /\ compose' = "marked" /\ Goto("project")
  /\ UNCHANGED <<directory, binding, projected, saved, containers, world, lease, history>>

WriteProjection ==
  /\ At("project")
  /\ projected' = (projected \/ work.engine = managed_wsl) /\ Goto("up")
  /\ UNCHANGED <<directory, binding, compose, saved, containers, world, lease, history>>

Up ==
  /\ At("up") /\ HasCommand
  /\ Makes /\ saved' = TRUE /\ Finish
  /\ UNCHANGED <<project, world, lease>>

\* A step fails; `up` may have made some of the containers.
InstallFails ==
  /\ work.step \in {"save", "write", "project", "up"}
  /\ \/ At("up") /\ HasCommand /\ Makes
     \/ UNCHANGED <<containers, history>>
  /\ Goto("rollback")
  /\ UNCHANGED <<project, saved, world, lease>>

\* Containers first, then what was there before; the binding stays with the directory.
RollBack ==
  /\ At("rollback") /\ HasCommand
  /\ Takes /\ Finish
  /\ \/ work.created /\ Clear
     \/ /\ ~work.created
        /\ compose' = work.old
        /\ projected' = IF work.engine = managed_wsl THEN work.oldProjected ELSE projected
        /\ UNCHANGED <<directory, binding, history>>
  /\ UNCHANGED <<saved, world, lease>>

\* The cleanup fails, or the process dies: everything stays as it is.
Abandon ==
  /\ ~At("idle") /\ Finish
  /\ UNCHANGED <<project, saved, containers, world, lease, history>>

-----------------------------------------------------------------------------
\* Operations on what is installed, or was left behind.

Start ==
  /\ At("idle") /\ saved /\ keep_owned_app_engine /\ HasCommand
  /\ Hold /\ Makes
  /\ UNCHANGED <<project, saved, world, work>>

\* The containers go, on their engine; the directory, when that is asked for.
Remove(delete) ==
  /\ HasCommand /\ Takes /\ saved' = FALSE
  /\ IF delete THEN Clear ELSE UNCHANGED <<project, history>>
  /\ UNCHANGED <<world, work>>

Uninstall ==
  /\ At("idle") /\ saved /\ keep_owned_app_engine /\ Hold
  /\ \E delete \in BOOLEAN : Remove(delete)

\* An operation on a saved app whose engine cannot be verified.
Unverified ==
  /\ At("idle") /\ saved /\ ~keep_owned_app_engine
  /\ Hold
  /\ UNCHANGED <<project, saved, containers, world, work, history>>

\* Recovery, of an app that is not saved.
Discard ==
  /\ At("idle") /\ ~saved
  /\ \E delete \in BOOLEAN : Remove(delete)
  /\ UNCHANGED lease

Resume ==
  /\ At("idle") /\ ~saved /\ HasCommand
  /\ Makes /\ saved' = TRUE
  /\ UNCHANGED <<project, world, lease, work>>

-----------------------------------------------------------------------------
\* Binding an app from before (bind-engine).

\* Every container of the project on that engine was made from this very file.  The
\* managed engine's labels name the projected file, by its path in the distribution.
verify_ownership(e) == e \in containers /\ e # managed_wsl

Adopt ==
  /\ At("idle") /\ saved /\ compose # "none"
  /\ \E e \in IF retained = "none" THEN {e \in Discovered : verify_ownership(e)} ELSE {retained} \cap Engines :
       /\ binding' = e /\ home' = e
  /\ Goto("mark")
  /\ UNCHANGED <<directory, compose, projected, saved, containers, world, lease, madeOn>>

Mark ==
  /\ At("mark")
  /\ compose' = "marked" /\ Finish
  /\ UNCHANGED <<directory, binding, projected, saved, containers, world, lease, history>>

-----------------------------------------------------------------------------
\* Around the program.

\* Another Docker context is made the current one; the managed engine stops or comes back.
WorldChanges ==
  /\ current' \in Dockers /\ ready' \in BOOLEAN
  /\ UNCHANGED <<project, saved, containers, lease, work, history>>

\* The binding of a marked project is lost or damaged, and put back.
LoseBinding ==
  /\ binding \in Engines /\ compose = "marked"
  /\ binding' \in {"none", "damaged"}
  /\ UNCHANGED <<directory, compose, projected, saved, containers, world, lease, work, history>>

RestoreBinding ==
  /\ directory /\ home # "none" /\ binding' = home
  /\ UNCHANGED <<directory, compose, projected, saved, containers, world, lease, work, history>>

\* The pipe's process ends.
LeaseEnds ==
  /\ lease /\ lease' = FALSE
  /\ UNCHANGED <<project, saved, containers, world, work, history>>

BindingNext ==
  \/ Install \/ save \/ WriteCompose \/ WriteProjection \/ Up \/ InstallFails \/ RollBack \/ Abandon
  \/ Start \/ Uninstall \/ Unverified \/ Discard \/ Resume \/ Adopt \/ Mark
  \/ WorldChanges \/ LoseBinding \/ RestoreBinding \/ LeaseEnds

-----------------------------------------------------------------------------
\* "no fallback engine was selected" (src/src/runtime/engine.rs:192): from its first
\* binding on, and until its directory is deleted, containers of the app are made on that
\* engine only, whatever is current, fails, dies, or is lost of a marked project.
EngineIsKept == home # "none" => madeOn \subseteq {home}

=============================================================================
