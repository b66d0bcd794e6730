------------------------------- MODULE Plans -------------------------------
(***************************************************************************)
(* A deployment plan: services, the conditions between them, addresses on  *)
(* this computer, storage and networks.  What a plan must satisfy, the     *)
(* Compose file it becomes, for Docker on this computer and for the engine *)
(* in WSL, and what is read back from a file of an earlier install         *)
(* (src/src/plan.rs, plan/healthcheck.rs, runtime/engine/wsl/projection.rs)*)
(*                                                                         *)
(* A value that may be missing is a set of at most one.  A path is a root  *)
(* ("" when relative) and a sequence of names.  Text appears as a name of  *)
(* a small set, and a check of its characters as membership.               *)
(***************************************************************************)
EXTENDS Integers, Sequences, FiniteSets, SequencesExt, FiniteSetsExt

CONSTANTS PlainNames,       \* names of letters, digits and dashes
          Pinned,           \* images with a fixed tag
          FirstPort,        \* 1024: below it an address needs privilege
          LastPort,         \* 65535
          Numerals,         \* the texts that are a number, and the number each one is
          MaxCompanions,    \* MAX_COMPANION_PORTS
          Attempts,         \* PORT_SEARCH_ATTEMPTS
          LeastMemory       \* 6 MiB, the least Docker gives a container

Elements(seq) == {seq[i] : i \in DOMAIN seq}
Named(plan, name) == {s \in Elements(plan.services) : s.name = name}

-----------------------------------------------------------------------------
\* Mounts.

Directory(source, target, readOnly) ==
  [kind |-> "directory", source |-> source, target |-> target, readOnly |-> readOnly]
Volume(name, target, readOnly) ==
  [kind |-> "volume", source |-> [root |-> "volume", names |-> <<name>>], target |-> target, readOnly |-> readOnly]
Host(source, target, readOnly) ==
  [kind |-> "host", source |-> source, target |-> target, readOnly |-> readOnly]

\* A plan as every one is made: a list of services, each with one address and a second
\* one at most, with mounts of three kinds, and with the names of its variables.
IsMount(m) ==
  \E k \in {"directory", "volume", "host"} :
    m = [kind |-> k, source |-> m.source, target |-> m.target, readOnly |-> m.readOnly]
IsService(s) ==
  /\ {"name", "published", "companion", "mounts", "variables", "environment", "overrides"} \subseteq DOMAIN s
  /\ DOMAIN s.variables = DOMAIN s.environment
  /\ (\A p, q \in s.published : p = q) /\ (\A p, q \in s.companion : p = q)
  /\ \A p \in s.published \cup s.companion : "host" \in DOMAIN p
  /\ \A j \in DOMAIN s.mounts : IsMount(s.mounts[j])
IsPlan(plan) ==
  /\ "services" \in DOMAIN plan /\ plan.services \in Seq(Elements(plan.services))
  /\ \A i \in DOMAIN plan.services : IsService(plan.services[i])

\* And every service says all that its checks look at.
HasChecks(plan) ==
  /\ {"volumes", "networks"} \subseteq DOMAIN plan
  /\ \A i \in DOMAIN plan.services :
       {"image", "check", "dependsOn", "completed", "healthy", "networks"} \subseteq DOMAIN plan.services[i]

Confined(path) == path.root = "" /\ path.names # <<>> /\ ".." \notin Elements(path.names)
Absolute(path) == path.root # "" /\ ".." \notin Elements(path.names)

\* A shared folder is the placeholder of an answer, or the path that replaced it.
MountIsSound(mount) ==
  /\ Absolute(mount.target)
  /\ mount.kind = "directory" => Confined(mount.source)
  /\ mount.kind = "host" => mount.source.root = "${" \/ Absolute(mount.source)

data_directories(plan) ==
  {m.source : m \in {n \in UNION {Elements(s.mounts) : s \in Elements(plan.services)} : n.kind = "directory"}}

-----------------------------------------------------------------------------
\* A health check of a definition, and the settings that override an image.

\* parts: the words of `test`; a word is text, "shell" with an escaped dollar, or
\* "expansion" with one that Compose or nobody would fill.
from_compose(raw) ==
  LET test == CASE raw.test = <<>> -> {}
                [] raw.test = <<"NONE">> -> {"disabled"}
                [] raw.test[1] = "CMD" /\ Len(raw.test) > 1 -> {"exec"}
                [] raw.test[1] = "CMD-SHELL" /\ Len(raw.test) = 2 -> {"shell"}
                [] OTHER -> {"refused"}
      accepted == /\ "refused" \notin test
                  /\ ~(raw.disable /\ test # {})
                  /\ "expansion" \notin Elements(raw.test)
                  /\ raw.retries \subseteq 1..1000
  IN IF ~accepted THEN {}
     ELSE {[test |-> IF raw.disable THEN {"disabled"} ELSE test,
            words |-> IF Len(raw.test) < 2 THEN <<>> ELSE Tail(raw.test)]}

\* Limits that Docker would refuse, or take for no limit at all.
OverridesAreSound(overrides) ==
  /\ \A bytes \in overrides.memory : bytes >= LeastMemory
  /\ 0 \notin overrides.cpu
  /\ 0 \notin overrides.pids

-----------------------------------------------------------------------------
\* DeploymentPlan::validate.

published(plan) == UNION {s.published : s \in Elements(plan.services)}
companions(plan) == {s \in Elements(plan.services) : s.companion # {}}
EachService(plan, F(_)) == [plan EXCEPT !.services = [i \in DOMAIN plan.services |-> F(plan.services[i])]]
AtHost(ports, host) == {[p EXCEPT !.host = host] : p \in ports}
Publishing(s, host) == [s EXCEPT !.published = AtHost(s.published, host)]
Accompanied(s, host) == [s EXCEPT !.companion = AtHost(s.companion, host)]
set_published_host(plan, host) == EachService(plan, LAMBDA s : Publishing(s, host))
set_companion_host(plan, service, host) ==
  EachService(plan, LAMBDA s : IF s.name = service THEN Accompanied(s, host) ELSE s)
is_job(plan, name) == \E s \in Elements(plan.services) : name \in s.completed
Disabled(s) == \E check \in s.check : check.test = {"disabled"}

ServiceIsSound(s) ==
  /\ s.name \in PlainNames /\ s.image \in Pinned
  /\ OverridesAreSound(s.overrides)
  /\ \A m \in Elements(s.mounts) : MountIsSound(m)

\* One address of its own for everything that is published.
AddressesAreSound(plan) ==
  LET hosts == [i \in DOMAIN plan.services |-> {p.host : p \in plan.services[i].published \cup plan.services[i].companion}]
  IN /\ Cardinality({i \in DOMAIN plan.services : plan.services[i].published # {}}) = 1
     /\ Cardinality(companions(plan)) <= MaxCompanions
     /\ \A s \in Elements(plan.services) :
          /\ \A p \in s.published \cup s.companion : p.host >= FirstPort
          /\ \A q \in s.companion : q.container # 0
          /\ \A p \in s.published, q \in s.companion : p.container # q.container /\ p.host # q.host
     /\ \A i, j \in DOMAIN plan.services : i # j => hosts[i] \cap hosts[j] = {}

\* Faulty: waits for health that nobody checks.
AnyCondition(plan) ==
  \A s \in Elements(plan.services) :
    s.completed \cup s.healthy \subseteq s.dependsOn /\ s.completed \cap s.healthy = {}

\* A condition is about a dependency, and one that can come true.
ConditionsAreSound(plan) ==
  \A s \in Elements(plan.services) :
    /\ s.completed \cup s.healthy \subseteq s.dependsOn
    /\ s.completed \cap s.healthy = {}
    /\ \A d \in s.healthy : \A t \in Named(plan, d) : ~Disabled(t)
    /\ is_job(plan, s.name) =>
         /\ s.published = {} /\ s.companion = {}
         /\ \A other \in Elements(plan.services) : s.name \in other.dependsOn => s.name \in other.completed

DependenciesAreSound(plan) ==
  \A s \in Elements(plan.services) :
    s.name \notin s.dependsOn /\ \A d \in s.dependsOn : Named(plan, d) # {}

\* The services that have an order among them, round by round: the last is the largest
\* such set.
Ordered(plan) ==
  LET ordered[n \in 0..Len(plan.services)] ==
        IF n = 0 THEN {} ELSE {s.name : s \in {t \in Elements(plan.services) : t.dependsOn \subseteq ordered[n - 1]}}
  IN ordered
NoCycle(plan) == Ordered(plan)[Len(plan.services)] = {s.name : s \in Elements(plan.services)}

VolumesAreSound(plan) ==
  LET mounted == {m.source.names[1] : m \in {n \in UNION {Elements(s.mounts) : s \in Elements(plan.services)} : n.kind = "volume"}}
  IN /\ Elements(plan.volumes) \subseteq PlainNames
     /\ mounted = Elements(plan.volumes) /\ IsInjective(plan.volumes)

validate_networks(plan) ==
  /\ Elements(plan.networks) \subseteq PlainNames \ {"default"} /\ IsInjective(plan.networks)
  /\ \A s \in Elements(plan.services) :
       /\ Elements(s.networks) \subseteq Elements(plan.networks) \cup {"default"} /\ IsInjective(s.networks)
       /\ s.published \cup s.companion # {} => s.networks = <<>> \/ "default" \in Elements(s.networks)
  /\ Elements(plan.networks) \subseteq UNION {Elements(s.networks) : s \in Elements(plan.services)}

validate(plan) ==
  /\ plan.services # <<>> /\ IsInjective([i \in DOMAIN plan.services |-> plan.services[i].name])
  /\ AddressesAreSound(plan)
  /\ \A s \in Elements(plan.services) : ServiceIsSound(s)
  /\ ConditionsAreSound(plan) /\ DependenciesAreSound(plan) /\ NoCycle(plan)
  /\ VolumesAreSound(plan) /\ validate_networks(plan)

-----------------------------------------------------------------------------
\* The Compose file: one record per service, its addresses as the lines they are
\* written in, so that reading them back is reading lines.

Condition(s, d) ==
  CASE d \in s.healthy -> "service_healthy"
    [] d \in s.completed \ s.healthy -> "service_completed_successfully"
    [] OTHER -> "service_started"

\* The number a value of one part is, if it is one.
Number(value) ==
  IF Len(value) # 1 THEN {}
  ELSE CASE value[1][1] = "port" -> {value[1][2]}
         [] value[1][1] = "text" /\ value[1][2] \in DOMAIN Numerals -> {Numerals[value[1][2]]}
         [] OTHER -> {}

\* A variable is a line `name: value`: one that is named `published` and is a number has
\* the form of a second address.
VariableLine(name, value) ==
  IF name = "published" /\ Number(value) # {}
  THEN [line |-> "long", text |-> CHOOSE n \in Number(value) : TRUE]
  ELSE [line |-> "variable", text |-> name]
VariableLines(s) == [j \in DOMAIN s.variables |-> VariableLine(s.variables[j], s.environment[j])]

\* The lines that can look like an address: its own, those of its variables, and those of
\* the argument lists of its health check, entry point and command.
AddressLines(s) ==
  LET Host_(ports) == (CHOOSE p \in ports : TRUE).host
  IN <<[line |-> "service", text |-> s.name]>>
       \o (IF s.published = {} THEN <<>> ELSE <<[line |-> "short", text |-> Host_(s.published)]>>)
       \o (IF s.companion = {} THEN <<>> ELSE <<[line |-> "long", text |-> Host_(s.companion)]>>)
       \o (VariableLines(s) \o s.overrides.arguments)

Written(plan, s, Render(_)) ==
  [name |-> s.name, image |-> <<s.image, s.digest>>, container |-> <<plan.id, s.name>>,
   restart |-> IF is_job(plan, s.name) THEN "no" ELSE "unless-stopped",
   lines |-> AddressLines(s), ports |-> s.published \cup s.companion,
   variables |-> s.variables, environment |-> s.environment,
   mounts |-> [i \in DOMAIN s.mounts |-> Render(s.mounts[i])],
   depends |-> {<<d, Condition(s, d)>> : d \in s.dependsOn},
   networks |-> IF s.networks = <<>> THEN {"default"} ELSE Elements(s.networks),
   check |-> s.check, memory |-> s.overrides.memory, cpu |-> s.overrides.cpu, pids |-> s.overrides.pids]

\* A set of at most one file: the plan may be refused, and so may a mount.
to_compose_with_mounts(plan, CanRender(_), Render(_)) ==
  IF validate(plan) /\ \A s \in Elements(plan.services) : \A m \in Elements(s.mounts) : CanRender(m)
  THEN {[services |-> [i \in DOMAIN plan.services |-> Written(plan, plan.services[i], Render)],
         volumes |-> Elements(plan.volumes), internal |-> Elements(plan.networks)]}
  ELSE {}

to_compose(plan) == to_compose_with_mounts(plan, LAMBDA m : TRUE, LAMBDA m : m)

\* The same file for the engine in WSL: a Windows path is named as the engine sees
\* it, and every folder by its whole path.
CanTranslate(path) == path.root = "drive" /\ \A name \in Elements(path.names) : name \notin {".", ".."}
windows_drive_path(path) == [root |-> "/mnt", names |-> path.names]
Inside(project, path) == [root |-> project.root, names |-> project.names \o path.names]

Projected(project, m) ==
  CASE m.kind = "directory" -> [m EXCEPT !.kind = "bind", !.source = windows_drive_path(Inside(project, m.source))]
    [] m.kind = "host" -> [m EXCEPT !.kind = "bind", !.source = windows_drive_path(m.source)]
    [] m.kind = "volume" -> m

project_plan(plan, project) ==
  IF ~CanTranslate(project) THEN {}
  ELSE to_compose_with_mounts(plan,
         LAMBDA m : CASE m.kind = "volume" -> TRUE
                      [] m.kind = "host" -> CanTranslate(m.source)
                      [] m.kind = "directory" -> CanTranslate(Inside(project, m.source)),
         LAMBDA m : Projected(project, m))

-----------------------------------------------------------------------------
\* Reading a file of an earlier install, and choosing a port.

\* The lines of a file by their places: the service, and the line under it.
Lines(file) ==
  [at \in UNION {{i} \X DOMAIN file.services[i].lines : i \in DOMAIN file.services} |-> file.services[at[1]].lines[at[2]]]
LinesLike(file, like) == {at \in DOMAIN Lines(file) : Lines(file)[at].line = like}
Before(one, other) == one[1] < other[1] \/ (one[1] = other[1] /\ one[2] <= other[2])

\* The first line that looks like the main address.
published_host_port(file) ==
  LET short == LinesLike(file, "short")
  IN {Lines(file)[at].text : at \in {first \in short : \A other \in short : Before(first, other)}}

\* The last line under each service that looks like a second one.
companion_host_ports(file) ==
  LET long == LinesLike(file, "long")
  IN {<<file.services[at[1]].name, Lines(file)[at].text>> :
        at \in {last \in long : \A other \in long : other[1] = last[1] => other[2] <= last[2]}}

choose_free_port(free, preferred) ==
  LET start == IF preferred > FirstPort THEN preferred ELSE FirstPort
      found == {p \in free : p > start /\ p <= start + Attempts /\ p <= LastPort}
  IN IF preferred >= FirstPort /\ preferred \in free THEN {preferred}
     ELSE IF found = {} THEN {} ELSE {Min(found)}

\* The plan of a recipe, read from the recipe's own Compose file: one service.
plan_for_recipe(recipe) ==
  LET written == recipe.compose.services[1]
      service == [name |-> recipe.id, image |-> recipe.image, digest |-> recipe.digest,
                  variables |-> written.variables, environment |-> written.environment, companion |-> {}, networks |-> <<>>,
                  published |-> {[host |-> recipe.host, container |-> recipe.container]},
                  mounts |-> written.mounts, dependsOn |-> {}, healthy |-> {}, completed |-> {}, check |-> {},
                  overrides |-> [memory |-> recipe.memory, cpu |-> recipe.cpu, pids |-> recipe.pids, arguments |-> <<>>]]
      plan == [id |-> recipe.id, services |-> <<service>>, networks |-> <<>>,
               volumes |-> SetToSeq(recipe.compose.volumes)]
  IN {p \in {plan} : validate(p)}

-----------------------------------------------------------------------------
(***************************************************************************)
(* What Docker makes of a file.  A service starts when the conditions on   *)
(* its dependencies come true: one that is disabled is never healthy, one  *)
(* that is always restarted never completes.                               *)
(***************************************************************************)
Comes(file, s, up) ==
  /\ \A on \in s.depends :
       \E t \in Elements(file.services) :
         /\ t.name = on[1] /\ t.name \in up
         /\ on[2] = "service_healthy" => ~Disabled(t)
         /\ on[2] = "service_completed_successfully" => t.restart = "no"
  /\ \A bytes \in s.memory : bytes >= LeastMemory
  /\ \A m \in Elements(s.mounts) : m.kind = "volume" => m.source.names[1] \in file.volumes

Rounds(file) ==
  LET up[n \in 0..Len(file.services)] ==
        IF n = 0 THEN {} ELSE {s.name : s \in {t \in Elements(file.services) : Comes(file, t, up[n - 1])}}
  IN up
Up(file) == Rounds(file)[Len(file.services)]

\* Everything starts, what has an address stays to answer on it, by a network that
\* reaches this computer, and no two answer on one port.
ComesUp(file) ==
  /\ Up(file) = {s.name : s \in Elements(file.services)}
  /\ \A s \in Elements(file.services) :
       s.ports # {} => s.restart # "no" /\ \E n \in s.networks : n \notin file.internal
  /\ \A s, t \in Elements(file.services) : \A p \in s.ports, q \in t.ports :
       p.host = q.host => s = t /\ p = q

\* Where a mount of a file in `project` keeps its data.
Storage(project, m) ==
  CASE m.kind = "volume" -> <<"volume", m.source.names>>
    [] m.kind = "directory" -> <<"folder", Inside(project, m.source).names>>
    [] OTHER -> <<"folder", m.source.names>>

\* No variable and no argument looks like an address.
NoLookalikes(plan) ==
  \A i \in DOMAIN plan.services :
    LET variables == plan.services[i].variables
        arguments == plan.services[i].overrides.arguments
    IN /\ variables \in Seq(Elements(variables)) /\ "published" \notin Elements(variables)
       /\ arguments \in Seq(Elements(arguments))
       /\ \A l \in Elements(arguments) : l.line \notin {"short", "long"}

\* A plan that passes its checks comes up, and its addresses read back as its own.
PlanIsRight(plan) ==
  \A file \in to_compose(plan) :
    /\ ComesUp(file)
    /\ published_host_port(file) = {p.host : p \in published(plan)}
    /\ companion_host_ports(file) = {<<s.name, (CHOOSE p \in s.companion : TRUE).host>> : s \in companions(plan)}

\* The file for WSL comes up as well, over the same data and with the same access.
ProjectionIsRight(plan, project) ==
  \A file \in to_compose(plan), other \in project_plan(plan, project) :
    /\ ComesUp(other)
    /\ \A i \in DOMAIN file.services : \A j \in DOMAIN file.services[i].mounts :
         LET here == file.services[i].mounts[j]
             there == other.services[i].mounts[j]
         IN /\ Storage(project, here) = Storage(project, there)
            /\ here.target = there.target /\ here.readOnly = there.readOnly
            /\ there.kind # "volume" => there.source.root = "/mnt"

=============================================================================
