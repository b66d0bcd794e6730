------------------------------- MODULE Samples -------------------------------
(***************************************************************************)
(* Small inputs of the conversions: plans, templates and answers,          *)
(* definitions of both catalogues, reviews, recipes and catalogues.  Each  *)
(* family varies around one that is good, in the ways its checks and its   *)
(* translations tell apart.                                                *)
(***************************************************************************)
EXTENDS Provisioning, Offerings, LegacyApps

Text(t) == <<"text", t>>
Asks(key) == <<"key", key, {}>>
Or(key, text) == <<"key", key, {text}>>
Path(names) == [root |-> "/", names |-> names]
Below(name) == [root |-> "", names |-> <<name>>]
Drive(names) == [root |-> "drive", names |-> names]
Address_(host, container) == {[host |-> host, container |-> container]}
Image(name) == <<name, "1">>
NoOverrides == Overrides(<<>>)

-----------------------------------------------------------------------------
\* Plans of an app and its database.

Server(name) ==
  [name |-> name, image |-> Image(name), digest |-> "none", published |-> {}, companion |-> {},
   variables |-> <<>>, environment |-> <<>>, mounts |-> <<>>, networks |-> <<>>, dependsOn |-> {}, healthy |-> {},
   completed |-> {}, check |-> {}, overrides |-> NoOverrides]
App == [Server("app") EXCEPT !.published = Address_(5, 2)]
Plan(services, volumes, networks) ==
  [id |-> "app", services |-> services, volumes |-> volumes, networks |-> networks]

Checks == {{}, {[test |-> {"disabled"}, words |-> <<>>]}, {[test |-> {"shell"}, words |-> <<"ready">>]}}
DependentPlans ==
  {Plan(<<[App EXCEPT !.dependsOn = after, !.healthy = healthy, !.completed = completed],
          [Server("db") EXCEPT !.dependsOn = before, !.check = check, !.companion = second,
                               !.variables = <<"PORT">>, !.environment = << <<Text("7")>> >>]>>, <<>>, <<>>) :
     after, healthy, completed \in SUBSET {"db"}, before \in {{}, {"app"}}, check \in Checks,
     second \in {{}, Address_(6, 3)}}

AddressPlans ==
  {Plan(<<[App EXCEPT !.companion = second, !.published = main], [Server("db") EXCEPT !.companion = other, !.networks = joined],
          [Server("files") EXCEPT !.networks = <<"inside">>]>>, <<>>, <<"inside">>) :
     main \in {Address_(5, 2), Address_(3, 2)}, second \in {{}, Address_(6, 3), Address_(5, 3), Address_(6, 2)},
     other \in {{}, Address_(6, 3), Address_(7, 2), Address_(5, 2), Address_(7, 0)},
     joined \in {<<>>, <<"inside">>, <<"default", "inside">>, <<"other">>}}

Mounts(readOnly) ==
  {Directory(Below("data"), Path(<<"data">>), readOnly), Directory(Below(".."), Path(<<"data">>), readOnly),
   Volume("store", Path(<<"data">>), readOnly), Volume("gone", Path(<<"data">>), readOnly),
   Host(Drive(<<"home", "photos">>), Path(<<"photos">>), readOnly),
   Host([root |-> "server", names |-> <<"photos">>], Path(<<"photos">>), readOnly),
   Directory(Below("data"), [root |-> "", names |-> <<"data">>], readOnly)}
StoringPlans ==
  {Plan(<<[App EXCEPT !.mounts = <<first, second>>, !.overrides.memory = memory]>>, volumes, <<>>) :
     first \in Mounts(FALSE), second \in Mounts(TRUE), volumes \in {<<>>, <<"store">>}, memory \in {{}, {2}, {LeastMemory}}}

Plans_ == DependentPlans \cup AddressPlans \cup StoringPlans
SampleNumerals == [text \in {"7"} |-> 7]
Projects == {Drive(<<"home", "apps", "app">>), [root |-> "server", names |-> <<"app">>]}

-----------------------------------------------------------------------------
\* Templates: an app with a database, one with files on an address of their own and a
\* second credential, and one that shares a folder.

Question(key, kind, required, default, allows, sensitive) ==
  [key |-> Key(key), kind |-> kind, required |-> required, default |-> default, allows |-> allows,
   sensitive |-> sensitive, readOnly |-> FALSE]
Password == [key |-> Key("PASSWORD"), length |-> 32, format |-> "base64"]
Token == [key |-> Key("TOKEN"), length |-> 16, format |-> "hex"]

URL == Asks(<<"platform", "url">>)
Database == [Server("db") EXCEPT !.variables = <<"PASSWORD">>, !.environment = << <<Asks(Key("PASSWORD"))>> >>,
                                 !.mounts = <<Volume("store", Path(<<"db">>), FALSE)>>]
WithDatabase ==
  [plan |-> Plan(<<[App EXCEPT !.variables = <<"URL", "DATABASE", "NAME">>,
                               !.environment = << <<URL>>, <<Text("db:"), Asks(Key("PASSWORD"))>>, <<Or(Key("NAME"), "a")>> >>,
                               !.mounts = <<Directory(Below("data"), Path(<<"data">>), FALSE)>>, !.dependsOn = {"db"}],
                   Database>>, <<"store">>, <<>>),
   fields |-> <<Question("NAME", "choice", FALSE, {Text("a")}, {Text("a"), Text("b")}, TRUE)>>,
   secrets |-> <<Password>>, seeds |-> <<Below("data")>>]
WithFiles ==
  [WithDatabase EXCEPT
     !.plan.services = Append(@, [Server("files") EXCEPT !.companion = Address_(5, 3),
        !.variables = <<"URL">>, !.environment = << <<Asks(<<"companion", "url", "files">>), Asks(Key("TOKEN"))>> >>]),
     !.secrets = Append(@, Token)]
WithPhotos ==
  [plan |-> Plan(<<[Server("files") EXCEPT !.companion = Address_(5, 3), !.variables = <<"URL">>,
                                           !.environment = << <<Asks(<<"companion", "url", "files">>)>> >>],
                   [App EXCEPT !.companion = Address_(6, 3), !.dependsOn = {"files"},
                               !.variables = <<"URL", "PORT">>,
                               !.environment = << <<URL>>, <<Asks(<<"companion", "port", "app">>)>> >>,
                               !.mounts = <<Host([root |-> "${", names |-> <<>>, key |-> Key("FOLDER")], Path(<<"photos">>), TRUE)>>]>>, <<>>, <<>>),
   fields |-> <<Question("FOLDER", "folder", TRUE, {}, {}, FALSE)>>, secrets |-> <<>>, seeds |-> <<>>]
Revisions == <<WithDatabase, WithFiles, WithPhotos>>

\* And such as fail a check, or a person's answers do.
OtherTemplates ==
  {[WithDatabase EXCEPT !.fields[1].required = required, !.fields[1].default = default,
                        !.fields[1].sensitive = sensitive, !.fields[1].key = key, !.secrets[1].length = length,
                        !.plan.services[1].overrides.words = words, !.seeds = seeds] :
     required, sensitive \in BOOLEAN, default \in {{}, {Text("a")}, {Text("c")}},
     key \in {Key("NAME"), Key("PASSWORD"), <<"platform", "url">>}, length \in {8, 32},
     words \in {<<>>, <<Asks(Key("NAME"))>>}, seeds \in {<<Below("data")>>, <<Below("..")>>}}
TemplateCases == Elements(Revisions) \cup OtherTemplates

Nothing == [k \in {} |-> 0]
Says(key, value) == [k \in {Key(key)} |-> value]
Folder(names) == Says("FOLDER", names)
SampleAnswers ==
  {Nothing, Says("NAME", Text("b")), Says("NAME", Text("c"))}
    \cup {Folder(f) : f \in {<<"home", "photos">>, <<"home", "link">>, <<"home">>, <<>>, <<"etc">>, <<"home", "gone">>}}
SampleFolders == {<<>>, <<"etc">>, <<"home">>, <<"home", "photos">>, <<"home", "config">>}
SampleLinks == [f \in {<<"home", "link">>} |-> <<"home">>]
SampleHome == <<"home">>
SampleManaged == <<"home", "config">>
Images == {Image(name) : name \in {"app", "db", "files"}} \cup {<<"app", "2">>}

-----------------------------------------------------------------------------
\* Definitions of Runtipi.

Input(key, type, encoding, length, options, values, required, default) ==
  [key |-> key, type |-> type, encoding |-> encoding, length |-> length, pattern |-> FALSE, options |-> options,
   values |-> values, required |-> required, default |-> default]
Random(encoding, length) == Input("PASSWORD", "random", encoding, {length}, {}, {}, TRUE, {})
Own(name) == Asks(Key(name))
Variable(name, parts) == [name |-> name, value |-> parts]
Mounted(host, target, readOnly) == [host |-> host, target |-> Path(target), readOnly |-> readOnly]
Library(names) == <<"library", names>>
SampleLibraryKey(names) == CASE names = <<"media">> -> "MEDIA" [] names = <<"photos">> -> "PHOTOS" [] OTHER -> ""
Waits_(condition) == <<[name |-> "db", condition |-> condition]>>
Raw(test, disable, retries) == {[test |-> test, disable |-> disable, retries |-> retries]}

RuntipiServer(name) ==
  [name |-> name, image |-> Image(name), keys |-> {}, isMain |-> FALSE, internalPort |-> {}, addPorts |-> {},
   networks |-> <<>>, environment |-> <<>>, volumes |-> <<>>, depends |-> <<>>, check |-> {}, words |-> <<>>]
Runtipi ==
  [id |-> "app", networks |-> <<>>, overrides |-> FALSE,
   inputs |-> <<Input("NAME", "text", "none", {}, {}, {Text("a"), Text("b")}, TRUE, {}), Random("hex", 16)>>,
   services |-> <<[RuntipiServer("app") EXCEPT !.isMain = TRUE, !.internalPort = {2},
                     !.environment = <<Variable("NAME", <<Own("NAME")>>),
                                       Variable("URL", <<Own("APP_PROTOCOL"), Own("APP_HOST"), Own("APP_PORT")>>)>>],
                  [RuntipiServer("db") EXCEPT !.environment = <<Variable("PASSWORD", <<Own("PASSWORD")>>)>>,
                                              !.volumes = <<Mounted(<<"data", <<"db">>>>, <<"db">>, FALSE)>>]>>]

RuntipiAsking ==
  {[Runtipi EXCEPT !.inputs[1] = input, !.inputs[2] = random, !.services[1].environment = shown] :
     input \in {Runtipi.inputs[1], Input("NAME", "password", "none", {}, {Text("a")}, {}, FALSE, {Text("a")}),
                Input("NAME", "number", "none", {}, {}, {Text("1")}, TRUE, {Text("a")}), [Runtipi.inputs[1] EXCEPT !.pattern = TRUE]},
     random \in {Random("hex", 16), Random("none", 2), Random("base64", 99), Random("rot", 16)},
     shown \in {Runtipi.services[1].environment, <<Variable("ZONE", <<Own("TZ")>>), Variable("NAME", <<Own("NAME")>>)>>,
                      <<Variable("NAME", <<Own("NAME")>>), Variable("OTHER", <<Own("OTHER")>>)>>,
                      <<Variable("NAME", <<Own("NAME")>>), Variable("FILES", <<Asks(<<"companion", "url", "db">>)>>)>>}}
RuntipiServing ==
  {[Runtipi EXCEPT !.services[1].internalPort = port, !.services[1].addPorts = ports, !.services[2].isMain = twice,
                   !.services[1].networks = joined, !.networks = <<[name |-> "inside", internal |-> internal]>>, !.overrides = overrides] :
     port \in {{}, {2}, {5}, {9}}, twice, internal, overrides \in BOOLEAN, joined \in {<<"inside">>, <<"default", "inside">>},
     ports \in {{}} \cup {{[i \in 1..n |-> [host |-> host, container |-> 3, plain |-> plain]]} : n \in 1..2, host \in {2, 7}, plain \in BOOLEAN}}
RuntipiKeeping ==
  {[Runtipi EXCEPT !.services[1].volumes = <<first, second>>, !.services[2].keys = keys] :
     keys \in {{}, {"privileged"}, {"logging"}},
     first, second \in {Mounted(<<"clock">>, <<"etc", "localtime">>, TRUE), Mounted(<<"data", <<"files">>>>, <<"files">>, FALSE),
       Mounted(Library(<<"media", "data", "photos">>), <<"photos">>, TRUE), Mounted(Library(<<"media", "photos">>), <<"all">>, FALSE),
       Mounted(Library(<<"media">>), <<"etc">>, TRUE), Mounted(Library(<<"media", "none">>), <<"none">>, TRUE), Mounted(<<"other">>, <<"run">>, TRUE)}}
RuntipiWaiting ==
  {[Runtipi EXCEPT !.services[1].depends = depends, !.services[2].check = check, !.services[2].depends = back] :
     depends \in {<<>>, Waits_("service_started"), Waits_("service_healthy"), Waits_("service_completed_successfully"),
                  Waits_("other"), Waits_("service_started") \o Waits_("service_healthy")},
     back \in {<<>>, <<[name |-> "app", condition |-> "service_started"]>>},
     check \in {{}, Raw(<<"CMD-SHELL", "ready">>, FALSE, {}), Raw(<<"NONE">>, FALSE, {}), Raw(<<"CMD", "ready">>, TRUE, {}),
                Raw(<<"CMD">>, FALSE, {}), Raw(<<"CMD-SHELL", "expansion">>, FALSE, {}), Raw(<<"CMD", "ready">>, FALSE, {0})}}
RuntipiCases == RuntipiAsking \cup RuntipiServing \cup RuntipiKeeping \cup RuntipiWaiting

-----------------------------------------------------------------------------
\* Definitions of CapRover.

CapVariable(name, default, rule, proven) ==
  [id |-> <<name, "plain">>, default |-> default, rule |-> rule, proven |-> proven, values |-> {Text(""), Text("a"), Text("b")}]
CapVolume(host, target, readOnly) == [name |-> "store", host |-> host, target |-> Path(target), readOnly |-> readOnly]
CapServer(own) ==
  [own |-> own, foreign |-> FALSE, keys |-> {}, image |-> <<"is", Image(IF own = "" THEN "app" ELSE own)>>,
   environment |-> <<>>, volumes |-> <<>>, depends |-> <<>>, check |-> {}, words |-> <<>>, hidden |-> "yes", port |-> {},
   publishes |-> FALSE]
CapRover ==
  [id |-> "app", understood |-> TRUE,
   variables |-> <<CapVariable("NAME", Text("a"), {}, FALSE), CapVariable("PASSWORD", <<"random", 16>>, {}, FALSE)>>,
   services |-> <<[CapServer("") EXCEPT !.hidden = "no", !.port = {2},
                     !.environment = <<Variable("NAME", <<<<"cap", <<"NAME", "plain">>>>>>), Variable("HOST", <<<<"service", "db">>>>),
                                       Variable("URL", <<<<"address", TRUE>>>>)>>],
                  [CapServer("db") EXCEPT !.environment = <<Variable("PASSWORD", <<<<"cap", <<"PASSWORD", "plain">>>>>>)>>,
                                          !.volumes = <<CapVolume(<<"name">>, <<"db">>, FALSE)>>]>>]

CapAsking ==
  {[CapRover EXCEPT !.variables[1] = name, !.variables[2] = password, !.services[1].environment = Append(@, Variable("OTHER", <<value>>)), !.understood = understood] :
     name \in {CapVariable("NAME", default, rule, FALSE) : default \in {<<"none">>, Text("a"), Text("b"), <<"other">>}, rule \in {{}, {{Text("a")}}}}
                \cup {[CapRover.variables[1] EXCEPT !.id = <<"PASSWORD", "other">>]},
     password \in {CapVariable("PASSWORD", <<"random", n>>, rule, proven) : n \in {8, 16}, rule \in {{}, {{Text("a")}}}, proven \in BOOLEAN},
     value \in {<<"app">>, <<"service", "gone">>, <<"address", FALSE>>, <<"cap", <<"OTHER", "plain">>>>}, understood \in BOOLEAN}
CapServing ==
  {[CapRover EXCEPT !.services[1].hidden = hidden, !.services[1].port = port, !.services[2].hidden = other, !.services[2].port = {5},
                    !.services[2].publishes = publishes, !.services[2].foreign = foreign, !.services[2].keys = keys] :
     hidden, other \in {"yes", "no", "other"}, port \in {{}, {2}, {9}}, publishes, foreign \in BOOLEAN, keys \in {{}, {"privileged"}, {"labels"}}}
CapKeeping ==
  {[CapRover EXCEPT !.services[1].volumes = <<CapVolume(host, <<"db">>, readOnly)>>, !.services[1].depends = depends,
                    !.services[2].image = image, !.services[2].check = check,
                    !.variables = Append(@, [CapVariable("TAG", default, {}, FALSE) EXCEPT !.values = {Text("1")}])] :
     host \in {<<"name">>, <<"host">>}, readOnly \in BOOLEAN,
     depends \in {<<>>, Waits_("service_started"), Waits_("service_healthy"), <<[name |-> "gone", condition |-> "service_started"]>>},
     image \in {<<"is", Image("db")>>, <<"cap", "db", <<"TAG", "plain">>>>}, default \in {<<"none">>, Text("1")}, check \in {{}, Raw(<<"NONE">>, FALSE, {}), Raw(<<"CMD", "ready">>, FALSE, {3})}}
CapRoverCases == CapAsking \cup CapServing \cup CapKeeping

-----------------------------------------------------------------------------
\* Reviews of the Runtipi definition, and recipes.

Config == [id |-> "app", beside |-> TRUE, inputs |-> Runtipi.inputs]
Audit(image, digest) == [image |-> image, digest |-> digest]
Kept_ == [service |-> "db", source |-> Below("db"), target |-> Path(<<"db">>), volume |-> "store", reason |-> TRUE]
Review ==
  [id |-> "app", approved |-> TRUE, importer |-> "runtipi", definition |-> Runtipi, config |-> {Config},
   pins |-> <<>>, storage |-> <<>>, limits |-> <<>>, firstStart |-> {}, seeds |-> <<>>,
   fields |-> [key \in {Key("NAME")} |-> [sensitive |-> TRUE, required |-> {}]],
   audits |-> <<Audit(Image("app"), {"of app"}), Audit(Image("db"), {})>>]
Pin == [from |-> Image("app"), to |-> <<"app", "2">>, reason |-> TRUE]
Ceiling(service) == [service |-> service, memory |-> LeastMemory, cpu |-> 1, pids |-> 1, reason |-> TRUE]

Reviews ==
  {[Review EXCEPT !.pins = pins, !.audits = audits, !.storage = storage, !.limits = limits, !.firstStart = first,
                  !.config = config, !.fields = fields, !.definition.services[1].depends = depends] :
     pins \in {<<>>, <<Pin>>, <<Pin, Pin>>, <<[Pin EXCEPT !.to = Image("db")]>>},
     audits \in {Review.audits, <<Audit(<<"app", "2">>, {"of 2"})>> \o Review.audits, <<Audit(<<"app", "2">>, {"of 2"}), Audit(Image("db"), {})>>},
     storage \in {<<>>, <<Kept_>>, <<[Kept_ EXCEPT !.source = Below("gone")]>>},
     limits \in {<<>>, <<Ceiling("db")>>, <<Ceiling("db"), Ceiling("db")>>},
     first \in {{}, {FirstStart}, {MaxFirstStart}}, config \in {{Config}, {[Config EXCEPT !.id = "other"]}, {}},
     fields \in {Review.fields, [k \in {} |-> 0], [key \in {Key("NAME")} |-> [sensitive |-> FALSE, required |-> {FALSE}]]},
     depends \in {<<>>, Waits_("service_started")}}

RecipeFile(host, pairs) ==
  [services |-> <<[name |-> "app", image |-> <<Image("app"), "of app">>, container |-> <<"app", "app">>, restart |-> "unless-stopped",
                   lines |-> [i \in DOMAIN pairs |-> [line |-> "short", text |-> pairs[i]]],
                   ports |-> Address_(host, 2), variables |-> <<"NAME">>, environment |-> << <<Text("a")>> >>,
                   mounts |-> <<Directory(Below("data"), Path(<<"data">>), FALSE)>>, depends |-> {}, networks |-> {"default"},
                   check |-> {}, memory |-> {}, cpu |-> {}, pids |-> {}]>>,
   volumes |-> {}, internal |-> {}]
Recipe ==
  [id |-> "app", image |-> Image("app"), digest |-> "of app", version |-> "1", host |-> 5, container |-> 2, launch |-> 5, health |-> 5,
   notes |-> {5}, limits |-> {}, audited |-> TRUE, platforms |-> {"amd64"}, forbidden |-> {}, compose |-> RecipeFile(5, <<5>>),
   memory |-> {}, cpu |-> {}, pids |-> {}]
Recipes ==
  {[Recipe EXCEPT !.version = version, !.launch = launch, !.compose = compose, !.audited = audited, !.forbidden = forbidden, !.host = host] :
     version \in {"1", "2"}, launch \in {5, 6}, compose \in {RecipeFile(5, <<5>>), RecipeFile(5, <<5, 5>>), RecipeFile(5, <<>>)},
     audited \in BOOLEAN, forbidden \in {{}, {"privileged"}}, host \in {5, 6}}
SomeReviews == {r \in Reviews : r.firstStart = {} /\ r.limits = <<>>}
Offers ==
  UNION {Elements(offerings(<<r>>, <<>>)) : r \in Recipes}
    \cup UNION {Elements(offerings(<<>>, <<[r EXCEPT !.approved = approved]>>)) : r \in SomeReviews, approved \in BOOLEAN}
AskedPorts == {{}, {3}, {5}, {7}}

-----------------------------------------------------------------------------
\* Catalogues of three entries, and what is typed.

Entry(id, name, aliases, category, webUi) ==
  [id |-> id, name |-> name, aliases |-> aliases, described |-> TRUE, sources |-> {[pinned |-> TRUE]}, icon |-> {},
   words |-> {id} \cup Elements(name) \cup UNION {Elements(a) : a \in aliases}, licenses |-> {"free"}, architectures |-> {"amd64"},
   warning |-> webUi, collections |-> {}, category |-> category, webUi |-> webUi]
Indexes ==
  {<<Entry("one", <<"Photo", "Box">>, aliases, "media", FALSE), Entry(second, name, {}, category, TRUE), Entry("three", <<"Box">>, {}, "files", FALSE)>> :
     aliases \in {{}, {<<"Box">>}, {<<"two">>}}, second \in {"two", "one"}, name \in {<<"Box">>, <<"Box", "Two">>, <<"Two">>}, category \in {"media", "files"}}
OfferSeqs == {<<>>} \cup {<<[id |-> "a", name |-> first], [id |-> "b", name |-> second]>> : first, second \in {<<"Box">>, <<"two">>, <<"Photo", "Box">>, <<"Gone">>}}
Queries == {<<>>, <<"Box">>, <<"two">>, <<"Gone">>}
Filters_ == [capability |-> {}, license |-> {}, architecture |-> {}, hideWarnings |-> FALSE, collection |-> {}]
Filters == {Filters_, [Filters_ EXCEPT !.hideWarnings = TRUE]}
             \cup {[Filters_ EXCEPT !.capability = {c}] : c \in {"preview_install", "connect", "discover"}}

-----------------------------------------------------------------------------
\* Lists of the first version: names that end up alike, and what Compose values there were.

LegacyEntry(name, url, value) == [name |-> name, url |-> url, compose |-> value]
ComposePath(names) == {[inline |-> FALSE, path |-> names]}
ComposeValues ==
  {{}, {[inline |-> TRUE, path |-> <<"services", "app">>]}, ComposePath(<<"compose">>),
   ComposePath(<<"apps", "compose">>), ComposePath(<<"..", "apps", "compose">>)}
LegacyNames == {<<>>, <<"app">>, <<"app", "2">>, <<"wiki">>}
LegacyLists ==
  {<<LegacyEntry(a, url, v), LegacyEntry(b, "there", w)>> :
     a, b \in LegacyNames, url \in {"here", ""}, v, w \in ComposeValues}
  \cup {[i \in 1..4 |-> LegacyEntry(names[i], "here", ComposePath(<<"apps", "compose">>))] : names \in [1..4 -> LegacyNames]}

-----------------------------------------------------------------------------
\* Output: more than is kept of one stream, and a little of the other.
SampleWritten == [out |-> 2, err |-> 1]

=============================================================================
