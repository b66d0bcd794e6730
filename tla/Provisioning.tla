---------------------------- MODULE Provisioning ----------------------------
(***************************************************************************)
(* Installing one app from a template, again and again: its definition is  *)
(* revised, its project directory is kept or deleted between installs, and *)
(* other programs take and free ports.  What a reinstall finds in the      *)
(* directory decides its addresses and its credentials                     *)
(* (src/src/runtime/mod.rs: install_template_with, install_source_with).   *)
(*                                                                         *)
(* Failures and crashes of an install are Lifecycle's; here an install is  *)
(* refused or succeeds.                                                    *)
(***************************************************************************)
EXTENDS Setup

CONSTANTS Templates,       \* the revisions of the app's definition, a sequence
          SomeAnswers,     \* what a person may answer
          Ports,           \* the ports other programs take and free
          MaxMade          \* bound: credentials generated

VARIABLES revision,        \* the one on offer
          kept,            \* the Compose file in the project directory, if any
          keptSecrets,     \* the credentials there, by key; NoFile without the file
          running,         \* what was installed: the plan and what it was made from
          busy,            \* ports that other programs hold
          made             \* credentials generated so far

provisionVars == <<revision, kept, keptSecrets, running, busy, made>>

\* A definition is a plan, and its folders are those that are asked for; a folder is named
\* by its canonical path, no link leads to a link, and Local Store keeps its own files below
\* the home folder.
ASSUME ProvisionAssumption ==
  /\ \A i \in DOMAIN Templates :
       /\ "plan" \in DOMAIN Templates[i] /\ IsPlan(Templates[i].plan) /\ FoldersAreAsked(Templates[i])
  /\ \A folder \in DOMAIN Links : Links[folder] \notin DOMAIN Links
  /\ \A folder \in Folders : ".." \notin Elements(folder)
  /\ Folders \cup {Home, Managed} \subseteq Seq(STRING) /\ IsPrefix(Home, Managed)

NoFile == [k \in {} |-> 0]
template == Templates[revision]

ProvisionInit ==
  /\ revision \in DOMAIN Templates
  /\ kept = {} /\ keptSecrets = {} /\ running = {} /\ busy \in SUBSET Ports /\ made = 0

-----------------------------------------------------------------------------
\* The steps of an install, each on the result of the one before.

retained_secrets == IF keptSecrets = {} THEN NoFile ELSE CHOOSE f \in keptSecrets : TRUE

Missing == {s \in Elements(template.secrets) : s.key \notin DOMAIN retained_secrets}

\* Faulty: every install makes all of them.
NewSecrets(t) ==
  [key \in {s.key : s \in Elements(t.secrets)} |-> generate(CHOOSE s \in Elements(t.secrets) : s.key = key, made + 1)]

\* A credential that was kept is used again, one that is missing is made.
SecretsOf(t) ==
  [key \in {s.key : s \in Elements(t.secrets)} |->
     IF key \in DOMAIN retained_secrets THEN retained_secrets[key]
     ELSE generate(CHOOSE s \in Elements(t.secrets) : s.key = key, made + 1)]

Free == (FirstPort..LastPort) \ busy

\* The main address: the one it had, busy or not, or one near the preferred.
MainPort(t) ==
  LET previous == UNION {published_host_port(file) : file \in kept}
  IN IF previous # {} THEN previous ELSE choose_free_port(Free, MainHost(t.plan))

\* The second address of a service: the one it had, or one near what it asks for, and
\* none that is taken already.
CompanionPort(s, taken) ==
  LET had == {pair[2] : pair \in {q \in UNION {companion_host_ports(file) : file \in kept} : q[1] = s.name}}
      port == IF had # {} THEN had ELSE choose_free_port(Free \ taken, (CHOOSE p \in s.companion : TRUE).host)
  IN port \ taken

WithCompanion(sofar, s) ==
  IF s.companion = {} THEN {sofar}
  ELSE {[plan |-> set_companion_host(sofar.plan, s.name, p), taken |-> sofar.taken \cup {p}] : p \in CompanionPort(s, sofar.taken)}

\* The main address, then the second of every service in turn.  The result is {} when
\* some address is not to be had.
Settling(t) ==
  LET step[i \in 0..Len(t.plan.services)] ==
        IF i = 0 THEN {[plan |-> set_published_host(t.plan, p), taken |-> {p}] : p \in MainPort(t)}
        ELSE UNION {WithCompanion(sofar, t.plan.services[i]) : sofar \in step[i - 1]}
  IN step
Settled(t) == {s.plan : s \in Settling(t)[Len(t.plan.services)]}

\* Faulty: tells the addresses before they are settled.
ToldEarly(t, answers) ==
  UNION {resolve([t EXCEPT !.plan = fill_platform_values(plan, MainHost(t.plan))], answers, SecretsOf(t)) : plan \in Settled(t)}

Prepared(t, answers) ==
  UNION {resolve([t EXCEPT !.plan = fill_platform_values(plan, MainHost(plan))], answers, SecretsOf(t)) : plan \in Settled(t)}

\* The addresses must be free, and in a directory that was kept every name known:
\* without credentials to write, a credential file of an earlier revision is not.
PortsAreFree(plan) ==
  \A s \in Elements(plan.services) : \A p \in s.published \cup s.companion : p.host \in Free
NoUnknownFiles(t) == keptSecrets # {} => t.secrets # <<>>

Install(answers) ==
  /\ running = {}
  /\ made < MaxMade \/ Missing = {}
  /\ \E plan \in Prepared(template, answers) :
       /\ PortsAreFree(plan)
       /\ kept # {} => NoUnknownFiles(template)
       /\ \E file \in to_compose(plan) :
            /\ kept' = {file}
            /\ keptSecrets' = IF template.secrets = <<>> THEN keptSecrets ELSE {SecretsOf(template)}
            /\ running' = {[plan |-> plan, file |-> file, template |-> template, answers |-> answers]}
            /\ made' = IF Missing = {} THEN made ELSE made + 1
  /\ UNCHANGED <<revision, busy>>

Uninstall(deleteData) ==
  /\ running # {}
  /\ running' = {}
  /\ IF deleteData THEN kept' = {} /\ keptSecrets' = {} ELSE UNCHANGED <<kept, keptSecrets>>
  /\ UNCHANGED <<revision, busy, made>>

\* A new revision of the definition is offered.
Revise ==
  /\ running = {}
  /\ revision' \in DOMAIN Templates \ {revision}
  /\ UNCHANGED <<kept, keptSecrets, running, busy, made>>

\* Another program takes a port nobody listens on, or leaves one.
OtherPrograms(port) ==
  /\ \A r \in running : port \notin {p.host : p \in UNION {s.ports : s \in Elements(r.file.services)}}
  /\ busy' = IF port \in busy THEN busy \ {port} ELSE busy \cup {port}
  /\ UNCHANGED <<revision, kept, keptSecrets, running, made>>

ProvisionNext ==
  \/ \E answers \in SomeAnswers : Install(answers)
  \/ \E deleteData \in BOOLEAN : Uninstall(deleteData)
  \/ Revise
  \/ \E port \in Ports : OtherPrograms(port)

-----------------------------------------------------------------------------
(***************************************************************************)
(* What is installed is what was asked for: it comes up, answers on the    *)
(* addresses it was told, no two on one port and none on a port of another *)
(* program, and every value a container receives is the one the template   *)
(* means, with the credentials that are in the project directory.          *)
(***************************************************************************)
InstalledComeUp ==
  \A r \in running : ComesUp(r.file) /\ PortsAreFree(r.plan) /\ SharesAreSafe(r.plan)
ValuesAreMeant(r) ==
  \A i \in DOMAIN r.plan.services : \A j \in DOMAIN r.plan.services[i].environment :
    Received(r.file.services[i].environment[j])
      = Meant(r.template, r.template.plan.services[i].environment[j], r.answers, retained_secrets, r.plan)
InstallsAreWhole ==
  InstalledComeUp /\ \A r \in running : PlanIsRight(r.plan) /\ ValuesAreMeant(r)

(***************************************************************************)
(* A reinstall over a kept directory moves no address the app had, and     *)
(* replaces no credential its data was made with.                          *)
(***************************************************************************)
AddressesStay ==
  \A before \in kept, after \in kept' :
    /\ published_host_port(after) = published_host_port(before)
    /\ \A was \in companion_host_ports(before), is \in companion_host_ports(after) : was[1] = is[1] => was = is
CredentialsStay ==
  \A old \in keptSecrets, new \in keptSecrets' : \A key \in DOMAIN old \cap DOMAIN new : old[key] = new[key]
ReinstallKeeps == [][AddressesStay /\ CredentialsStay]_provisionVars

=============================================================================
