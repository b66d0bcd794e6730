------------------------------- MODULE Setup -------------------------------
(***************************************************************************)
(* Templates: plans whose values hold placeholders, the questions a person *)
(* answers, the credentials that are generated, and the plan they resolve  *)
(* to (src/src/setup.rs, setup/review.rs, folders.rs).                     *)
(*                                                                         *)
(* A value is a sequence of parts, <<"text", t>>, <<"key", key, default>>  *)
(* with the default a set of at most one text, <<"secret", s>>, an address *)
(* part <<"url" | "host" | "port", p>>, or <<"dollar", t>>: a `$` that no  *)
(* placeholder of ours begins with.  A key is <<"own", name>>, or one the  *)
(* installer fills: <<"platform", k>>, <<"companion", k, service>>.        *)
(***************************************************************************)
EXTENDS Plans

CONSTANTS SecretLengths,      \* 16..256
          Folders,            \* the folders of this computer, each a sequence of names
          Links,              \* a folder a name leads to, for those that are links
          SystemRoots, Home, Managed

Key(name) == <<"own", name>>
IsReserved(key) == key[1] # "own"
placeholders(value) == {part \in Elements(value) : part[1] = "key"}
environment(template) == UNION {Elements(s.environment) : s \in Elements(template.plan.services)}

-----------------------------------------------------------------------------
\* Folders a person may share.

Resolved(folder) == IF folder \in DOMAIN Links THEN Links[folder] ELSE folder
SomeOverlap(a, b) == IsPrefix(a, b) \/ IsPrefix(b, a)

share_folder(answer) ==
  {folder \in {Resolved(answer)} :
     /\ folder \in Folders /\ folder # <<>>
     /\ folder[1] \notin SystemRoots
     /\ folder # Home
     /\ ~SomeOverlap(folder, Managed)}

\* The answer of a folder question, as a path of a mount.
FolderPath(folder) == [root |-> "drive", names |-> folder]

-----------------------------------------------------------------------------
\* SetupField::accept: the values to use, none when the answer is refused.  A rule
\* (length, pattern, number, choice) is the set of values it lets pass.

accept(field, answer) ==
  LET value == IF answer # {} THEN answer ELSE field.default
  IN IF value = {} THEN (IF field.required THEN {} ELSE {<<>>})
     ELSE IF field.kind = "folder"
          THEN {FolderPath(f) : f \in UNION {share_folder(v) : v \in value}}
          ELSE {<<v>> : v \in value \cap field.allows}

\* Answers are a function from some of the keys asked for.
Answer(answers, key) == IF key \in DOMAIN answers THEN {answers[key]} ELSE {}

accept_answers(template, answers) ==
  LET keys == {f.key : f \in Elements(template.fields)}
      ok == /\ \A f \in Elements(template.fields) : accept(f, Answer(answers, f.key)) # {}
            /\ DOMAIN answers \subseteq keys
  IN IF ok
     THEN {[k \in keys |-> CHOOSE v \in UNION {accept(f, Answer(answers, k)) : f \in {g \in Elements(template.fields) : g.key = k}} : TRUE]}
     ELSE {}

-----------------------------------------------------------------------------
\* Generated credentials.  `length` counts bytes for base64, characters otherwise.

output_len(spec) == IF spec.format = "base64" THEN 4 * ((spec.length + 2) \div 3) ELSE spec.length
generate(spec, id) == [id |-> id, format |-> spec.format, length |-> output_len(spec)]

\* The characters of a format are among those of a wider one.
Wider == [alphanumeric |-> {"alphanumeric", "hex"}, hex |-> {"hex"}, base64 |-> {"alphanumeric", "hex", "base64"}]
accepts(spec, secret) == secret.length = output_len(spec) /\ secret.format \in Wider[spec.format]

-----------------------------------------------------------------------------
\* PlanTemplate::validate.

FieldIsSound(field) ==
  /\ ~IsReserved(field.key)
  /\ field.kind # "folder" => field.allows # {}
  /\ field.default # {} => accept(field, {}) # {}

SecretIsSound(template, spec) ==
  /\ spec.length \in SecretLengths /\ ~IsReserved(spec.key)
  /\ \A f \in Elements(template.fields) : f.key # spec.key

Keys(entries) == [i \in DOMAIN entries |-> entries[i].key]
declared(template) == Elements(Keys(template.fields) \o Keys(template.secrets))
HostKeys(template) ==
  {m.source.key : m \in {n \in UNION {Elements(s.mounts) : s \in Elements(template.plan.services)} :
                           n.kind = "host" /\ n.source.root = "${"}}

\* Every placeholder has a source, and every source is used.
SourcesAreSound(template) ==
  LET used == {part[2] : part \in UNION {placeholders(v) : v \in environment(template)}}
      own == {key \in used : ~IsReserved(key)}
  IN /\ own \cup HostKeys(template) = declared(template)
     /\ IsInjective(Keys(template.fields) \o Keys(template.secrets))
     /\ \A key \in used : key[1] = "companion" =>
          \E s \in companions(template.plan) : s.name = key[3]

\* A command is never filled, so it may not ask.
CommandsAreSound(template) ==
  \A s \in Elements(template.plan.services) : placeholders(s.overrides.words) = {}

SeedsAreSound(template) == IsInjective(template.seeds) /\ \A seed \in Elements(template.seeds) : Confined(seed)

ValidTemplate(template) ==
  /\ SeedsAreSound(template)
  /\ \A f \in Elements(template.fields) : FieldIsSound(f)
  /\ \A s \in Elements(template.secrets) : SecretIsSound(template, s)
  /\ CommandsAreSound(template) /\ SourcesAreSound(template)
  /\ validate(template.plan)

\* Every folder that is shared is the answer of a question for a folder.
FoldersAreAsked(template) ==
  \A s \in Elements(template.plan.services) : \A m \in Elements(s.mounts) : m.kind = "host" =>
    /\ m.source.root = "${"
    /\ {f.kind : f \in {g \in Elements(template.fields) : g.key = m.source.key}} = {"folder"}

-----------------------------------------------------------------------------
\* Filling in: first what the installer knows, then answers and credentials.

WithValues(s, values) == [s EXCEPT !.environment = values]
MapValues(plan, F(_)) ==
  EachService(plan, LAMBDA s : WithValues(s, [j \in DOMAIN s.environment |-> F(s.environment[j])]))

MainHost(plan) == (CHOOSE p \in published(plan) : TRUE).host
CompanionHost(plan, service) ==
  (CHOOSE p \in UNION {s.companion : s \in Named(plan, service)} : TRUE).host

PlatformPart(plan, host, part) ==
  IF part[1] # "key" THEN part
  ELSE IF part[3] # {} THEN part
  ELSE CASE part[2][1] = "platform" -> <<part[2][2], host>>
         [] part[2][1] = "companion" ->
              IF \E s \in companions(plan) : s.name = part[2][3]
              THEN <<part[2][2], CompanionHost(plan, part[2][3])>> ELSE part
         [] OTHER -> part

fill_platform_values(plan, host) ==
  MapValues(plan, LAMBDA value : [i \in DOMAIN value |-> PlatformPart(plan, host, value[i])])

\* Installed on the addresses it prefers.
Addressed(template) == [template EXCEPT !.plan = fill_platform_values(@, MainHost(@))]

\* The parts a placeholder becomes: an answer, a credential, its default, or nothing.
Replacement(part, answers, secrets) ==
  CASE part[2] \in DOMAIN answers -> {answers[part[2]]}
    [] part[2] \notin DOMAIN answers /\ part[2] \in DOMAIN secrets -> {<< <<"secret", secrets[part[2]]>> >>}
    [] OTHER -> {<< <<"text", t>> >> : t \in part[3]}

CanSubstitute(value, answers, secrets) ==
  \A part \in placeholders(value) : Replacement(part, answers, secrets) # {}
Replaced(part, answers, secrets) ==
  IF part[1] = "key" THEN CHOOSE r \in Replacement(part, answers, secrets) : TRUE ELSE <<part>>
substitute(value, answers, secrets) == FlattenSeq([i \in DOMAIN value |-> Replaced(value[i], answers, secrets)])

WithAnswer(m, answers) ==
  IF m.kind = "host" /\ m.source.root = "${"
  THEN [m EXCEPT !.source = IF answers[m.source.key] = <<>> THEN [root |-> "", names |-> <<>>] ELSE answers[m.source.key]]
  ELSE m
WithMounts(s, mounts) == [s EXCEPT !.mounts = mounts]
WithFolders(plan, answers) ==
  EachService(plan, LAMBDA s : WithMounts(s, [j \in DOMAIN s.mounts |-> WithAnswer(s.mounts[j], answers)]))

SecretsFit(template, secrets) ==
  \A s \in Elements(template.secrets) : s.key \in DOMAIN secrets /\ accepts(s, secrets[s.key])

Substitution(plan, answers, secrets) == MapValues(plan, LAMBDA value : substitute(value, answers, secrets))

resolve(template, answers, secrets) ==
  UNION {LET resolved == WithFolders(Substitution(template.plan, given, secrets), given)
         IN IF /\ ValidTemplate(template) /\ SecretsFit(template, secrets)
               /\ \A v \in environment(template) : CanSubstitute(v, given, secrets)
            THEN {p \in {resolved} : validate(p)} ELSE {}
         : given \in accept_answers(template, answers)}

\* What a form shows of a question: of a credential neither value nor rule.
setup_review(template) ==
  IF ~ValidTemplate(template) THEN {}
  ELSE {[fields |-> [i \in DOMAIN template.fields |->
           LET f == template.fields[i]
           IN [key |-> f.key, required |-> f.required, sensitive |-> f.sensitive,
               control |-> IF f.sensitive THEN "password" ELSE f.kind, readOnly |-> f.readOnly,
               default |-> IF f.sensitive THEN {} ELSE f.default,
               options |-> IF f.sensitive \/ f.kind # "choice" THEN {} ELSE f.allows]],
         services |-> Len(template.plan.services), credentials |-> Len(template.secrets)]}

-----------------------------------------------------------------------------
(***************************************************************************)
(* The value a container receives: Compose fills what is left to fill in a *)
(* file from its own environment, which has none of these names.           *)
(***************************************************************************)
Received(value) == FlattenSeq([i \in DOMAIN value |-> IF value[i][1] \in {"key", "dollar"} THEN <<>> ELSE <<value[i]>>])

\* The value a template means, with these answers, credentials and addresses.
MeantPart(template, part, answers, secrets, plan) ==
  CASE part[1] # "key" -> <<part>>
    [] part[1] = "key" /\ IsReserved(part[2]) ->
         << <<part[2][2], IF part[2][1] = "platform" THEN MainHost(plan) ELSE CompanionHost(plan, part[2][3])>> >>
    [] part[1] = "key" /\ ~IsReserved(part[2]) /\ part[2] \in {s.key : s \in Elements(template.secrets)} ->
         << <<"secret", secrets[part[2]]>> >>
    [] OTHER ->
         LET f == CHOOSE g \in Elements(template.fields) : g.key = part[2]
         IN CASE part[2] \in DOMAIN answers -> <<answers[part[2]]>>
              [] part[2] \notin DOMAIN answers /\ f.default # {} -> <<CHOOSE d \in f.default : TRUE>>
              [] OTHER -> <<>>
Meant(template, value, answers, secrets, plan) ==
  FlattenSeq([i \in DOMAIN value |-> MeantPart(template, value[i], answers, secrets, plan)])

\* Every template, valid or not: a plan whose services say all that is checked, questions
\* for the folders it shares, keys of the installer's of the kinds it fills, known formats.
IsTemplate(template) ==
  /\ "plan" \in DOMAIN template /\ IsPlan(template.plan) /\ HasChecks(template.plan) /\ FoldersAreAsked(template)
  /\ template.fields \in Seq(Elements(template.fields)) /\ template.secrets \in Seq(Elements(template.secrets))
  /\ \A value \in environment(template) : \A part \in placeholders(value) :
       part[2][1] = "own" \/ (part[2][1] \in {"platform", "companion"} /\ part[2][2] \in {"url", "host", "port"})
  /\ \A s \in Elements(template.secrets) : s.format \in DOMAIN Wider

\* Values of text and of placeholders, of which the installer's have no default, and
\* questions for text, or for a folder that no value asks for.
IsText(part) == part[1] = "text"
IsPlaceholder(part) ==
  part[1] = "key" /\ (IsReserved(part[2]) =>
    part[2][1] \in {"platform", "companion"} /\ part[2][2] \in {"url", "host", "port"} /\ part[3] = {})
ValuesArePlain(template) ==
  /\ \A s \in Elements(template.plan.services) : \A j \in DOMAIN s.environment :
       /\ s.environment[j] \in Seq(Elements(s.environment[j]))
       /\ \A part \in Elements(s.environment[j]) : IsText(part) \/ IsPlaceholder(part)
  /\ template.fields \in Seq(Elements(template.fields)) /\ template.secrets \in Seq(Elements(template.secrets))
  /\ \A f \in Elements(template.fields) :
       /\ \A one, other \in f.default : one = other
       /\ f.kind # "folder" => \A part \in f.allows : IsText(part)
       /\ f.kind = "folder" => \A value \in environment(template) : \A part \in placeholders(value) : part[2] # f.key

\* A template that passes its checks resolves with every set of accepted answers that
\* leaves no folder out, and with the credentials it asks for.
Resolves(template, answers, secrets) ==
  /\ ValidTemplate(template)
  /\ \E given \in accept_answers(template, answers) :
       \A f \in Elements(template.fields) : f.kind = "folder" => given[f.key] # <<>>
  => resolve(Addressed(template), answers, secrets) # {}

\* Only what was judged is mounted: a folder that holds no system and not all of a
\* home, and has nothing of Local Store in it or around it.
SharesAreSafe(plan) ==
  \A s \in Elements(plan.services) : \A m \in Elements(s.mounts) : m.kind = "host" =>
    /\ m.source.names \in Folders /\ m.source.names \notin DOMAIN Links
    /\ ~IsPrefix(m.source.names, Home) /\ ~SomeOverlap(m.source.names, Managed)
    /\ m.source.names[1] \notin SystemRoots

\* A form shows no credential, neither as a default nor in the choices it lists.
ReviewIsDiscreet(template) ==
  \A review \in setup_review(template) : \A i \in DOMAIN template.fields :
    template.fields[i].sensitive =>
      (review.fields[i].default \cup review.fields[i].options) \cap (template.fields[i].default \cup template.fields[i].allows) = {}

=============================================================================
