----------------------------- MODULE Inspection -----------------------------
(***************************************************************************)
(* A link to a GitHub repository: who it is now is asked of GitHub, over a *)
(* bounded chain of redirects, then the commit its default branch is at,   *)
(* and only the name that GitHub gave is looked for among the offers and   *)
(* the definitions that were screened (src/src/github_source.rs).          *)
(* Meanwhile repositories are renamed, and their names taken by others.    *)
(***************************************************************************)
EXTENDS Integers, FiniteSets

CONSTANTS Names, Repositories,
          Offered,          \* names that offers are from, each with the offers' ids
          Screened,         \* candidates of the queue: [name, reviewed, pinned, stage]
          MaxRedirects,     \* MAX_REDIRECTS
          MaxCommits,       \* bound: commits of a repository
          MaxRenames        \* bound: names given away

VARIABLES holder,     \* GitHub: who has a name, {} for nobody
          moved,      \* the repository an old name leads to
          closed,     \* repositories that are private
          commits,    \* the latest commit of each
          renames,
          step, url, attempt, seen, found   \* the inspection

gitHubVars == <<holder, moved, closed, commits, renames>>
inspectVars == <<step, url, attempt, seen, found>>
inspectionVars == <<gitHubVars, inspectVars>>

NoReply == [name |-> "none", id |-> "none", requested |-> "none"]
Steps == {"idle", "metadata", "commit", "match", "done", "refused"}
Named(name) == <<"named", name>>
ById(repository) == <<"id", repository>>

InspectionInit ==
  /\ \E owner \in Repositories, name \in Names : holder = [n \in Names |-> IF n = name THEN {owner} ELSE {}]
  /\ moved = [n \in Names |-> {}] /\ closed \in {{}} \cup {{r} : r \in Repositories}
  /\ commits = [r \in Repositories |-> 0] /\ renames = 0
  /\ step = "idle" /\ url = Named("none") /\ attempt = 0 /\ seen = NoReply
  /\ found = [commit |-> <<>>, resolution |-> <<>>]

-----------------------------------------------------------------------------
\* GitHub.

NameOf(repository) == {n \in Names : holder[n] = {repository}}

\* A repository gets another name; the old one leads to it until somebody takes it.
Rename(old, new) ==
  /\ renames < MaxRenames /\ holder[old] # {} /\ holder[new] = {}
  /\ holder' = [holder EXCEPT ![old] = {}, ![new] = holder[old]]
  /\ moved' = [moved EXCEPT ![old] = holder[old], ![new] = {}]
  /\ renames' = renames + 1
  /\ UNCHANGED <<closed, commits, inspectVars>>

Create(repository, name) ==
  /\ renames < MaxRenames /\ NameOf(repository) = {} /\ holder[name] = {}
  /\ \A n \in Names : moved[n] # {repository}
  /\ holder' = [holder EXCEPT ![name] = {repository}]
  /\ moved' = [moved EXCEPT ![name] = {}]
  /\ renames' = renames + 1
  /\ UNCHANGED <<closed, commits, inspectVars>>

Push(repository) ==
  /\ commits[repository] < MaxCommits
  /\ commits' = [commits EXCEPT ![repository] = @ + 1]
  /\ UNCHANGED <<holder, moved, closed, renames, inspectVars>>

-----------------------------------------------------------------------------
\* The inspection.

Refuse == step' = "refused" /\ UNCHANGED <<url, attempt, seen, found, gitHubVars>>

Inspect(requested) ==
  /\ step = "idle"
  /\ step' = "metadata" /\ url' = Named(requested) /\ attempt' = 0
  /\ seen' = [NoReply EXCEPT !.requested = requested]
  /\ UNCHANGED <<found, gitHubVars>>

\* Whom a request reaches: by id, by the name, or by an old name in place.
Reached == IF url[1] = "id" THEN {url[2]} ELSE holder[url[2]] \cup (IF holder[url[2]] = {} THEN moved[url[2]] ELSE {})

\* Faulty: whatever name comes back.
AnyTarget(repository, name) == TRUE

\* 200: the metadata is of what was asked for, or the identity is not verified.
TargetMatches(repository, name) == IF url[1] = "id" THEN repository = url[2] ELSE name = url[2]
Metadata ==
  /\ step = "metadata"
  /\ \E repository \in Reached : \E name \in NameOf(repository) :
       IF TargetMatches(repository, name) /\ repository \notin closed
       THEN /\ step' = "commit" /\ seen' = [seen EXCEPT !.name = name, !.id = repository]
            /\ UNCHANGED <<url, attempt, found, gitHubVars>>
       ELSE Refuse

\* 301: to the repository by its name or by its id, a bounded number of times.
Redirect ==
  /\ step = "metadata" /\ url[1] = "named" /\ holder[url[2]] = {}
  /\ \E repository \in moved[url[2]] :
       IF attempt = MaxRedirects THEN Refuse
       ELSE \E next \in {ById(repository)} \cup {Named(n) : n \in NameOf(repository)} :
              /\ url' = next /\ attempt' = attempt + 1
              /\ UNCHANGED <<step, seen, found, gitHubVars>>

\* No such repository, too many requests, no answer in time.
NoAnswer == step \in {"metadata", "commit"} /\ Refuse

\* The head of the default branch, by the name; a redirect is refused here.
Commit ==
  /\ step = "commit"
  /\ IF holder[seen.name] = {} THEN Refuse
     ELSE /\ \E repository \in holder[seen.name] : found' = [found EXCEPT !.commit = <<repository, commits[repository]>>]
          /\ step' = "match" /\ UNCHANGED <<url, attempt, seen, gitHubVars>>

\* review_stage, of one row of the queue.
ReviewStage(row) ==
  CASE ~row.importable -> "structural blocker"
    [] row.importable /\ row.maintenance = "withhold" -> "maintenance blocker"
    [] row.importable /\ row.maintenance # "withhold" /\ (~row.screened \/ row.maintenance = "alternate") -> "needs source review"
    [] OTHER -> "needs qualification"

\* reviewed_candidates: one row from another archive than the pinned refuses them all.
Rows(name) == {row \in Screened : row.name = name /\ row.reviewed}
CandidatesAreSound(name) == \A row \in Rows(name) : row.pinned

Resolve(name) ==
  IF Cardinality(Offered[name]) = 1 THEN <<"approved", name, Offered[name]>>
  ELSE IF Cardinality(Offered[name]) > 1 THEN <<"ambiguous", name, Offered[name]>>
  ELSE IF Rows(name) # {} THEN <<"candidates", name, {<<row.id, ReviewStage(row)>> : row \in Rows(name)}>>
  ELSE <<"unreviewed", name, {}>>

Match ==
  /\ step = "match"
  /\ IF Offered[seen.name] = {} /\ ~CandidatesAreSound(seen.name) THEN Refuse
     ELSE /\ found' = [found EXCEPT !.resolution = Resolve(seen.name)]
          /\ step' = "done" /\ UNCHANGED <<url, attempt, seen, gitHubVars>>

InspectionNext ==
  \/ \E old, new \in Names : Rename(old, new)
  \/ \E repository \in Repositories, name \in Names : Create(repository, name)
  \/ \E repository \in Repositories : Push(repository)
  \/ \E requested \in Names : Inspect(requested)
  \/ Metadata \/ Redirect \/ NoAnswer \/ Commit \/ Match

-----------------------------------------------------------------------------
(***************************************************************************)
(* An approval belongs to who has the name, not to who had it: what is     *)
(* called approved was, while it was inspected, the public repository of   *)
(* the name that the offers are from, and a link that led elsewhere        *)
(* approves nothing by the name it had.                                    *)
(***************************************************************************)
ApprovalIsOwn ==
  step = "done" =>
    /\ found.resolution[2] = seen.name /\ seen.id \notin closed
    /\ found.resolution[1] = "approved" => found.resolution[3] = Offered[seen.name] /\ seen.id # "none"
    /\ seen.requested # seen.name => attempt > 0
    /\ attempt <= MaxRedirects
    /\ renames = 0 => found.commit[1] = seen.id /\ holder[seen.name] = {seen.id}

=============================================================================
