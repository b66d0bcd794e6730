------------------------------ MODULE Importers ------------------------------
(***************************************************************************)
(* Reading definitions of two other catalogues into templates of ours:     *)
(* Runtipi's services, form fields and files, and CapRover's services and  *)
(* variables.  What cannot be expressed is a limitation, and a definition  *)
(* with a limitation gives no template                                     *)
(* (src/src/importers/mod.rs, runtipi.rs, caprover.rs).                    *)
(*                                                                         *)
(* A definition is the record a parser makes of its text: `keys` are the   *)
(* names of the settings a service has beside those that are listed.       *)
(***************************************************************************)
EXTENDS Setup

CONSTANTS RefusedKeys, NotModelledKeys,   \* settings that are known, and never taken over
          SystemTargets,                  \* where an image keeps its own system
          Offset,                         \* 8000
          LibraryKey(_)                   \* the key of a library's names, "" when it has none

Limit(category, feature) == [category |-> category, feature |-> feature]
When(condition, limit) == IF condition THEN {limit} ELSE {}

\* The first entry of each key, in their order.
FirstBy(entries, KeyOf(_)) ==
  LET first == SetToSortSeq({i \in DOMAIN entries : \A j \in 1..i - 1 : KeyOf(entries[j]) # KeyOf(entries[i])}, <)
  IN [i \in DOMAIN first |-> entries[first[i]]]

\* Below FirstPort an address needs privilege: it is moved to a familiar one.
preferred_host_port(container) ==
  IF container >= FirstPort THEN container ELSE Max({container + Offset, FirstPort})

Conditions == {"service_started", "service_healthy", "service_completed_successfully"}
NoDependencies == [names |-> {}, healthy |-> {}, completed |-> {}]
\* Faulty: who is waited for, and not for what.
NamesOnly(entries) ==
  {[names |-> {e.name : e \in Elements(entries)}, healthy |-> {}, completed |-> {}]}

dependencies(entries) ==
  LET With(condition) == {e.name : e \in {d \in Elements(entries) : d.condition = condition}}
  IN IF /\ \A e \in Elements(entries) : e.condition \in Conditions
        /\ IsInjective([i \in DOMAIN entries |-> entries[i].name])
     THEN {[names |-> {e.name : e \in Elements(entries)},
            healthy |-> With("service_healthy"), completed |-> With("service_completed_successfully")]}
     ELSE {}
Waits(entries) == IF dependencies(entries) = {} THEN NoDependencies ELSE CHOOSE d \in dependencies(entries) : TRUE

\* The health check of a service: a set of at most one, of at most one that was read.
Check(service) == UNION {from_compose(raw) : raw \in service.check}

Overrides(words) == [memory |-> {}, cpu |-> {}, pids |-> {}, arguments |-> <<>>, words |-> words]

PlanServiceOf(name, image, variables, values, address, companion, networks, mounts, waits, check, words) ==
  [name |-> name, image |-> image, digest |-> "none", variables |-> variables, environment |-> values,
   published |-> address, companion |-> companion, networks |-> networks, mounts |-> mounts,
   dependsOn |-> waits.names, healthy |-> waits.healthy, completed |-> waits.completed,
   check |-> check, overrides |-> Overrides(words)]

Uses(values, key) == \E v \in values : \E part \in placeholders(v) : part[2] = key

\* Without limitations, the template is what the checks of a template let pass.
Outcome(id, limitations, candidate) ==
  LET ok == limitations = {} /\ ValidTemplate(candidate) /\ to_compose(candidate.plan) # {}
  IN [id |-> id, template |-> IF ok THEN {candidate} ELSE {},
      limitations |-> IF ok \/ limitations # {} THEN limitations ELSE {Limit("refused", "plan policy")}]

-----------------------------------------------------------------------------
\* Runtipi: the questions and credentials of form_fields.

Clamped(n) == CASE n < Min(SecretLengths) -> Min(SecretLengths)
                [] n > Max(SecretLengths) -> Max(SecretLengths)
                [] OTHER -> n
Encodings == [none |-> "alphanumeric", hex |-> "hex", base64 |-> "base64"]

FormSecrets(def) ==
  LET random == SelectSeq(def.inputs, LAMBDA e : e.type = "random" /\ e.encoding \in DOMAIN Encodings)
  IN [i \in DOMAIN random |->
        [key |-> Key(random[i].key), format |-> Encodings[random[i].encoding],
         length |-> Clamped(CHOOSE n \in IF random[i].length = {} THEN {32} ELSE random[i].length : TRUE)]]

FormKind(entry) == CASE entry.options # {} -> "choice"
                     [] entry.options = {} /\ entry.type \in {"boolean", "number"} -> entry.type
                     [] OTHER -> "text"
FormFields(def) ==
  LET asked == SelectSeq(def.inputs, LAMBDA e : e.type # "random")
  IN [i \in DOMAIN asked |->
        [key |-> Key(asked[i].key), kind |-> FormKind(asked[i]), required |-> asked[i].required,
         default |-> asked[i].default, sensitive |-> asked[i].type = "password", readOnly |-> FALSE,
         allows |-> IF asked[i].options # {} THEN asked[i].options ELSE asked[i].values]]

FormLimits(def) ==
  UNION {When(e.pattern, Limit("not modelled", "field pattern"))
           \cup When(e.type = "random" /\ e.encoding \notin DOMAIN Encodings, Limit("not modelled", "secret encoding"))
         : e \in Elements(def.inputs)}

-----------------------------------------------------------------------------
\* Runtipi: volumes.  `host` is <<"clock">>, <<"library", names>>, <<"data", names>>
\* or <<"other">>.

container_path_is_system(target) ==
  \/ target.names = <<>>
  \/ target.names[1] \in SystemTargets /\ ~IsPrefix(<<"usr", "src">>, target.names)

\* The key of a library: the directories every library is in are not part of it.
shared_folder_field(names) ==
  LET own == SelectSeq(names, LAMBDA n : n \notin {"media", "data"})
      key == LibraryKey(IF own = <<>> THEN <<"media">> ELSE own)
  IN IF names # <<>> /\ ".." \notin Elements(names) /\ names[1] = "media" /\ key # "" THEN {Key(key)} ELSE {}

IsLibrary(v) == v.host[1] = "library" /\ ~container_path_is_system(v.target) /\ shared_folder_field(v.host[2]) # {}
IsData(v) == v.host[1] = "data" /\ v.host[2] # <<>>
LibraryOf(v) == CHOOSE key \in shared_folder_field(v.host[2]) : TRUE

MountOf(v) ==
  IF IsLibrary(v) THEN Host([root |-> "${", names |-> <<>>, key |-> LibraryOf(v)], v.target, v.readOnly)
  ELSE Directory([root |-> "", names |-> v.host[2]], v.target, v.readOnly)
MountsOf(service) ==
  LET kept == SelectSeq(service.volumes, LAMBDA v : IsLibrary(v) \/ IsData(v))
  IN [i \in DOMAIN kept |-> MountOf(kept[i])]
VolumeLimits(service) ==
  UNION {When(v.host[1] # "clock" /\ ~IsLibrary(v) /\ ~IsData(v), Limit("refused", "host path")) : v \in Elements(service.volumes)}

\* One question per library, at the first mount of it.
FolderFields(def) ==
  LET shared == FlattenSeq([i \in DOMAIN def.services |-> SelectSeq(def.services[i].volumes, IsLibrary)])
      asked == {f.key : f \in Elements(FormFields(def))}
      first == FirstBy(SelectSeq(shared, LAMBDA v : LibraryOf(v) \notin asked), LibraryOf)
  IN [i \in DOMAIN first |->
        [key |-> LibraryOf(first[i]), kind |-> "folder", required |-> TRUE, default |-> {},
         allows |-> {}, sensitive |-> FALSE, readOnly |-> first[i].readOnly]]

WantsClock(service) == \E v \in Elements(service.volumes) : v.host = <<"clock">>

-----------------------------------------------------------------------------
\* Runtipi: addresses, environment, services.

Address(service) ==
  {[host |-> preferred_host_port(p), container |-> p] : p \in {q \in service.internalPort : service.isMain /\ q \in 1..LastPort}}

\* One second address, by TCP and nothing else said of it.
companion_port(service) ==
  UNION {IF Len(entries) = 1 /\ entries[1].plain /\ entries[1].host > 0 /\ entries[1].container > 0
         THEN {[host |-> preferred_host_port(entries[1].host), container |-> entries[1].container]} ELSE {}
         : entries \in service.addPorts}

\* What Runtipi's platform fills in, and ours fills in for it.
platform_values ==
  [APP_PROTOCOL |-> <<"text", "http">>, APP_PORT |-> <<"key", <<"platform", "port">>, {}>>,
   APP_HOST |-> <<"key", <<"platform", "host">>, {}>>]
PlatformFilled(value) ==
  [i \in DOMAIN value |-> IF value[i][1] = "key" /\ value[i][2][1] = "own" /\ value[i][2][2] \in DOMAIN platform_values
                          THEN platform_values[value[i][2][2]] ELSE value[i]]

Zone == << <<"key", Key("TZ"), {}>> >>
EnvironmentOf(service) ==
  LET named == service.environment
      filled == [i \in DOMAIN named |-> [named[i] EXCEPT !.value = PlatformFilled(@)]]
  IN IF WantsClock(service) /\ \A e \in Elements(named) : e.name # "TZ"
     THEN Append(filled, [name |-> "TZ", value |-> Zone]) ELSE filled
NamesIn(variables) == [i \in DOMAIN variables |-> variables[i].name]
ValuesIn(variables) == [i \in DOMAIN variables |-> variables[i].value]

RuntipiService(service) ==
  PlanServiceOf(service.name, service.image, NamesIn(EnvironmentOf(service)), ValuesIn(EnvironmentOf(service)), Address(service), companion_port(service),
                service.networks, MountsOf(service), Waits(service.depends), Check(service), service.words)

RuntipiLimits(service) ==
  {Limit("refused", k) : k \in service.keys \cap RefusedKeys}
    \cup {Limit("not modelled", k) : k \in service.keys \cap NotModelledKeys}
    \cup When(service.isMain /\ Address(service) = {}, Limit("not modelled", "internalPort"))
    \cup When(service.addPorts # {} /\ companion_port(service) = {}, Limit("not modelled", "addPorts"))
    \cup VolumeLimits(service)
    \cup When(dependencies(service.depends) = {}, Limit("not modelled", "dependsOn condition"))
    \cup When(service.check # {} /\ Check(service) = {}, Limit("not modelled", "healthCheck"))

ZoneField == [key |-> Key("TZ"), kind |-> "text", required |-> FALSE, default |-> {<<"text", "UTC">>},
              allows |-> {<<"text", "UTC">>, <<"text", "local">>}, sensitive |-> FALSE, readOnly |-> FALSE]

\* `asked` are the questions of the form and of the libraries.
RuntipiOutcome(def, services, values, asked, secrets, limits) ==
  LET libraries == {m.source.key : m \in {n \in UNION {Elements(s.mounts) : s \in Elements(services)} : n.kind = "host"}}
      zoned == IF Uses(values, Key("TZ")) /\ Key("TZ") \notin Elements(Keys(asked) \o Keys(secrets))
               THEN Append(asked, ZoneField) ELSE asked
      supplied(key) == \/ key \in Elements(Keys(zoned) \o Keys(secrets)) \/ key[1] = "platform"
                       \/ key[1] = "companion" /\ \E s \in Elements(services) : s.name = key[3] /\ s.companion # {}
      unmet == {part \in UNION {placeholders(v) : v \in values} : ~supplied(part[2])}
  IN Outcome(def.id, limits \cup When(unmet # {}, Limit("needs input", "platform placeholder")),
       [seeds |-> <<>>,
        plan |-> [id |-> def.id, services |-> services, volumes |-> <<>>,
                  networks |-> [i \in DOMAIN def.networks |-> def.networks[i].name]],
        fields |-> SelectSeq(zoned, LAMBDA f : Uses(values, f.key) \/ f.key \in libraries),
        secrets |-> SelectSeq(secrets, LAMBDA s : Uses(values, s.key))])

DefinitionLimits(def) ==
  FormLimits(def) \cup UNION {RuntipiLimits(s) : s \in Elements(def.services)}
    \cup When(def.overrides, Limit("not modelled", "overrides"))
    \cup When(\E n \in Elements(def.networks) : ~n.internal, Limit("not modelled", "networks"))
    \cup When(Cardinality({i \in DOMAIN def.services : def.services[i].isMain}) # 1, Limit("not modelled", "main service"))

ValuesOf(services) == UNION {Elements(s.environment) : s \in Elements(services)}
runtipi_import(def) ==
  LET Read(services) == RuntipiOutcome(def, services, ValuesOf(services), FormFields(def) \o FolderFields(def),
                                       FormSecrets(def), DefinitionLimits(def))
  IN Read([i \in DOMAIN def.services |-> RuntipiService(def.services[i])])

-----------------------------------------------------------------------------
(***************************************************************************)
(* CapRover.  A part of a value is also <<"cap", id>>, a variable;         *)
(* <<"app">>, the name of the app; <<"service", name>>, the address of a   *)
(* service among containers; or <<"address", own>>, a public address of    *)
(* the app itself or of a sibling.  An id is a name and how it is spelled. *)
(***************************************************************************)
VariableKey(variable) == Key(variable.id[1])

\* What a rule of a variable lets pass; a generated credential is never checked
\* against a rule that is not proven to let every such credential pass.
Generated(variable) == variable.default[1] = "random"
setup_variable(variable) ==
  IF Generated(variable)
  THEN {[secret |-> TRUE, key |-> VariableKey(variable), format |-> "hex", length |-> n]
        : n \in {m \in {variable.default[2]} : m \in SecretLengths /\ (variable.rule # {} => variable.proven)}}
  ELSE LET default == IF variable.default[1] = "none" THEN {} ELSE {variable.default}
           allows == IF variable.rule = {} THEN variable.values ELSE UNION variable.rule
           field == [secret |-> FALSE, key |-> VariableKey(variable), kind |-> "text",
                     required |-> <<"text", "">> \notin allows, default |-> default,
                     allows |-> allows, sensitive |-> TRUE, readOnly |-> FALSE]
       IN {f \in {field} : variable.default[1] # "other" /\ default \subseteq allows}

\* Of two variables that fold to one key the first is read, the second refused.
FirstOfKey(def) == FirstBy(def.variables, VariableKey)
Inputs(def, secret) ==
  LET read == SelectSeq(FirstOfKey(def), LAMBDA v : \E input \in setup_variable(v) : input.secret = secret)
  IN [i \in DOMAIN read |-> CHOOSE input \in setup_variable(read[i]) : TRUE]
VariableLimits(def) ==
  When(Len(FirstOfKey(def)) < Len(def.variables), Limit("refused", "setup variable"))
    \cup When(\E v \in Elements(FirstOfKey(def)) : setup_variable(v) = {}, Limit("needs input", "setup variable"))

Declares(def) == {v.id : v \in {w \in Elements(FirstOfKey(def)) : setup_variable(w) # {}}}
ServiceName(def, own) == IF own = "" THEN def.id ELSE own

\* substitute, on one part: none when the part is left over.
Substituted(def, part) ==
  CASE part[1] = "cap" -> {<<"key", Key(part[2][1]), {}>> : id \in Declares(def) \cap {part[2]}}
    [] part[1] = "app" -> {<<"text", def.id>>}
    [] part[1] = "service" -> {<<"text", ServiceName(def, s.own)>> : s \in {t \in Elements(def.services) : ~t.foreign /\ t.own = part[2]}}
    [] part[1] = "address" -> {}
    [] OTHER -> {part}
CanFill(def, value) == \A part \in Elements(value) : Substituted(def, part) # {}
Filled(def, value) == [i \in DOMAIN value |-> CHOOSE p \in Substituted(def, value[i]) : TRUE]

\* Only a value that is all of the app's own address is taken for it.
rewrite_own_address(value) ==
  IF value = << <<"address", TRUE>> >> THEN << <<"key", <<"platform", "url">>, {}>> >> ELSE value

\* An image is named before there are answers: a variable, here its tag, is its own
\* default.
ImageOf(def, service) ==
  IF service.image[1] # "cap" THEN {service.image[2]}
  ELSE {<<service.image[2], v.default[2]>> :
          v \in {w \in Elements(FirstOfKey(def)) : w.id = service.image[3] /\ w.default[1] = "text" /\ setup_variable(w) # {}}}

Kept(def) == SelectSeq(def.services, LAMBDA s : ~s.foreign /\ ImageOf(def, s) # {})
Exposed(service) == service.hidden = "no"
Endpoint(service) == {p \in service.port : Exposed(service) /\ p \in 1..LastPort}
Endpoints(kept) == {i \in DOMAIN kept : Endpoint(kept[i]) # {}}

CapService(def, service, published_) ==
  LET named == SelectSeq(service.environment, LAMBDA v : CanFill(def, rewrite_own_address(v.value)))
      waits == Waits(service.depends)
      Siblings(names) == {ServiceName(def, s.own) : s \in {t \in Elements(def.services) : ~t.foreign /\ t.own \in names}}
  IN PlanServiceOf(ServiceName(def, service.own), CHOOSE image \in ImageOf(def, service) : TRUE,
       NamesIn(named), [i \in DOMAIN named |-> Filled(def, rewrite_own_address(named[i].value))],
       published_, {}, <<>>,
       [i \in DOMAIN service.volumes |-> Volume(service.volumes[i].name, service.volumes[i].target, service.volumes[i].readOnly)],
       [names |-> Siblings(waits.names), healthy |-> Siblings(waits.healthy), completed |-> Siblings(waits.completed)],
       Check(service), service.words)

CapLimits(def, service) ==
  {Limit("refused", k) : k \in service.keys \cap RefusedKeys}
    \cup {Limit("not modelled", k) : k \in service.keys \ RefusedKeys}
    \cup When(\E v \in Elements(service.environment) : ~CanFill(def, rewrite_own_address(v.value)), Limit("refused", "environment"))
    \cup When(\E v \in Elements(service.volumes) : v.host = <<"host">>, Limit("refused", "host path"))
    \cup When(dependencies(service.depends) = {}, Limit("not modelled", "depends_on"))
    \cup When(\E e \in Elements(service.depends) : \A s \in Elements(def.services) : s.foreign \/ s.own # e.name, Limit("refused", "depends_on"))
    \cup When(service.check # {} /\ Check(service) = {}, Limit("not modelled", "healthcheck"))
    \cup When(service.hidden \notin {"yes", "no"}, Limit("refused", "notExposeAsWebApp"))
    \cup When(Exposed(service) /\ Endpoint(service) = {}, Limit("refused", "containerHttpPort"))
    \cup When(service.publishes /\ service.hidden \in {"yes", "no"}, Limit("refused", "ports"))

\* `kept` are the services that could be read, `services` what they became.
CapOutcome(def, kept, services, values) ==
  LET dropped == Len(kept) < Len(def.services)
      limitations == VariableLimits(def) \cup UNION {CapLimits(def, s) : s \in Elements(kept)}
        \cup When(~def.understood, Limit("refused", "captainVersion"))
        \cup When(\E s \in Elements(def.services) : s.foreign, Limit("refused", "service name"))
        \cup When(\E s \in Elements(def.services) : ~s.foreign /\ ImageOf(def, s) = {}, Limit("needs input", "image"))
        \cup When(Cardinality(Endpoints(kept)) > 1 \/ (Endpoints(kept) = {} /\ ~dropped), Limit("refused", "endpoint"))
      Used(inputs) == SelectSeq(inputs, LAMBDA input : Uses(values, input.key))
  IN Outcome(def.id, limitations,
       [seeds |-> <<>>,
        plan |-> [id |-> def.id, services |-> services, networks |-> <<>>,
                  volumes |-> SetToSeq({v.name : v \in UNION {Elements(s.volumes) : s \in Elements(kept)}})],
        fields |-> Used(Inputs(def, FALSE)), secrets |-> Used(Inputs(def, TRUE))])

CapServices(def, kept) ==
  [i \in DOMAIN kept |-> CapService(def, kept[i],
     IF Endpoints(kept) = {i} THEN {[host |-> preferred_host_port(p), container |-> p] : p \in Endpoint(kept[i])} ELSE {})]
caprover_import(def) ==
  LET Read(kept, services) == CapOutcome(def, kept, services, ValuesOf(services))
      Of(kept) == Read(kept, CapServices(def, kept))
  IN Of(Kept(def))

-----------------------------------------------------------------------------
(***************************************************************************)
(* What a definition means, in the words of either catalogue, and that a   *)
(* template means no less: "only when every part of the definition could   *)
(* be expressed, including a source for every placeholder".                *)
(***************************************************************************)
AsWritten(services, plan, NameOf(_)) ==
  /\ Len(plan.services) = Len(services)
  /\ \A i \in DOMAIN services :
       LET said == services[i]
           is == plan.services[i]
           wanted == SelectSeq(said.volumes, LAMBDA v : v.host # <<"clock">>)
       IN /\ is.name = NameOf(said)
          /\ said.keys = {}
          /\ {<<d, Condition(is, d)>> : d \in is.dependsOn} = {<<NameOf([own |-> e.name, name |-> e.name]), e.condition>> : e \in Elements(said.depends)}
          /\ [j \in DOMAIN is.mounts |-> <<is.mounts[j].target, is.mounts[j].readOnly>>]
               = [j \in DOMAIN wanted |-> <<wanted[j].target, wanted[j].readOnly>>]
          /\ Len(is.environment) >= Len(said.environment)
          /\ is.check = {} <=> said.check = {}

Secrets(template) ==
  [key \in {s.key : s \in Elements(template.secrets)} |-> generate(CHOOSE s \in Elements(template.secrets) : s.key = key, 1)]

\* One answer for each question that has to be answered.
LeastAnswers(template, folder) ==
  LET asked == {f \in Elements(template.fields) : f.required /\ f.default = {}}
  IN [key \in {f.key : f \in asked} |->
        LET f == CHOOSE g \in asked : g.key = key
        IN IF f.kind = "folder" THEN folder ELSE CHOOSE v \in f.allows : TRUE]

\* A template is there or a reason is; and with the least of answers it can be
\* installed, and what is installed comes up.
Installable(outcome, folder) ==
  /\ outcome.template = {} <=> outcome.limitations # {}
  /\ \A template \in outcome.template :
       \E plan \in resolve(Addressed(template), LeastAnswers(template, folder), Secrets(template)) : PlanIsRight(plan)

RuntipiIsRead(def, folder) ==
  LET outcome == runtipi_import(def)
  IN /\ Installable(outcome, folder)
     /\ \A template \in outcome.template :
          /\ AsWritten(def.services, template.plan, LAMBDA s : s.name)
          /\ \A i \in DOMAIN def.services :
               {p.container : p \in template.plan.services[i].published} = IF def.services[i].isMain THEN def.services[i].internalPort ELSE {}

CapRoverIsRead(def, folder) ==
  LET outcome == caprover_import(def)
  IN /\ Installable(outcome, folder)
     /\ \A template \in outcome.template :
          /\ AsWritten(def.services, template.plan, LAMBDA s : ServiceName(def, s.own))
          /\ \A i \in DOMAIN def.services :
               {p.container : p \in template.plan.services[i].published} = IF Exposed(def.services[i]) THEN def.services[i].port ELSE {}

=============================================================================
