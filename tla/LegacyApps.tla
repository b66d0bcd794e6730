----------------------------- MODULE LegacyApps -----------------------------
(***************************************************************************)
(* The conversion of the first version's list of apps into the registry    *)
(* (storage.rs, model.rs), which Registry does once.  An entry had a name  *)
(* and no identifier, and at most the path of a Compose file.              *)
(*                                                                         *)
(* A name is the sequence of its words of letters and digits, an           *)
(* identifier such a sequence, written with hyphens; a path is its         *)
(* components.  A result is a set: of what was made, or empty.             *)
(***************************************************************************)
EXTENDS Naturals, FiniteSets, Sequences, SequencesExt, TLC

\* An identifier for a name: its words, or "app" when it has none.
ascii_slug(name) == IF name = <<>> THEN <<"app">> ELSE name

\* The slug itself, or the slug and the first number from two that is free.
next_available_installed_app_id(base, used) ==
  LET Numbered(n) == Append(base, ToString(n))
      Free(n) == Numbered(n) \notin used
  IN IF base \notin used THEN base
     ELSE Numbered(CHOOSE n \in 2 .. Cardinality(used) + 2 : Free(n) /\ \A k \in 2 .. n - 1 : ~Free(k))

NoRuntime == [project_name |-> <<>>, project_dir |-> <<>>, compose_file |-> <<>>]

\* A Compose value is the path of a file in a directory; a file's text, or a bare name, is none.
compose_runtime(compose, id) ==
  IF compose.inline \/ Len(compose.path) < 2 THEN {}
  ELSE {[project_name |-> id, project_dir |-> Front(compose.path), compose_file |-> compose.path]}

\* Every entry in its turn, or nothing at all.
convert_legacy_apps(legacy) ==
  LET Converted(apps, entry) ==
        LET id == next_available_installed_app_id(ascii_slug(entry.name), {a.id : a \in Range(apps)})
        IN {Append(apps, [id |-> id, display_name |-> entry.name, launch_url |-> entry.url, runtime |-> r]) :
              r \in IF entry.compose = {} THEN {NoRuntime}
                    ELSE UNION {compose_runtime(c, id) : c \in entry.compose}}
  IN FoldLeft(LAMBDA done, entry : UNION {Converted(apps, entry) : apps \in done}, {<<>>}, legacy)

\* What every load asks of the registry.
validate_registry(apps) ==
  /\ \A i, k \in DOMAIN apps : apps[i].id = apps[k].id => i = k
  /\ \A i \in DOMAIN apps :
       /\ apps[i].id # <<>> /\ apps[i].launch_url # ""
       /\ ".." \notin Range(apps[i].runtime.compose_file)

\* A list of the first version is converted whole, in its order: no two apps share an
\* identifier or a Compose project, and the registry that was saved loads again.
\* (An entry without an address, or with ".." in its path, does not: it is saved all the
\* same, and refused from then on.)
ListIsKept(legacy) ==
  LET Loads(entry) == entry.url # "" /\ \A c \in entry.compose : ".." \notin Range(c.path)
  IN \A apps \in convert_legacy_apps(legacy) :
       /\ [i \in DOMAIN apps |-> <<apps[i].display_name, apps[i].launch_url>>] =
            [i \in DOMAIN legacy |-> <<legacy[i].name, legacy[i].url>>]
       /\ \A i \in DOMAIN apps :
            /\ (apps[i].runtime = NoRuntime) = (legacy[i].compose = {})
            /\ \A k \in DOMAIN apps : apps[i].runtime.project_name = apps[k].runtime.project_name =>
                                        i = k \/ apps[k].runtime = NoRuntime
       /\ (\A i \in DOMAIN legacy : Loads(legacy[i])) = validate_registry(apps)

=============================================================================
