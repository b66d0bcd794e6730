------------------------------ MODULE Offerings ------------------------------
(***************************************************************************)
(* What can be installed: recipes, which carry the file they install, and  *)
(* definitions of other catalogues that somebody has reviewed.  A review   *)
(* may move a tag, keep data on a volume, set limits and mask an answer,   *)
(* and nothing else                                                        *)
(* (src/src/templates/mod.rs, recipes/mod.rs, offerings.rs).               *)
(*                                                                         *)
(* An image is its repository and its tag.  Whether a text says enough (a  *)
(* reason, a description, a date, an https address) is a boolean.          *)
(***************************************************************************)
EXTENDS Importers

CONSTANTS FirstStart, MaxFirstStart,   \* seconds: what everyone gets, and the most a review may allow
          Memory, Cpu, Pids            \* the ceilings a recipe may set

-----------------------------------------------------------------------------
\* What a review does to the template that was imported, one entry at a time; an
\* entry that no longer fits refuses the whole.

Each(Apply(_, _), template, entries) ==
  LET done[n \in 0..Len(entries)] == IF n = 0 THEN {template} ELSE UNION {Apply(t, entries[n]) : t \in done[n - 1]}
  IN done[Len(entries)]

OnServices(template, Change(_)) ==
  [template EXCEPT !.plan.services = [i \in DOMAIN @ |-> Change(@[i])]]

\* ImagePin: another tag of the same image.
PinIsSound(pin) == pin.from[1] = pin.to[1] /\ pin.from[2] # pin.to[2] /\ pin.reason
PinImage(template, pin) ==
  IF PinIsSound(pin) /\ \E s \in Elements(template.plan.services) : s.image = pin.from
  THEN {OnServices(template, LAMBDA s : IF s.image = pin.from THEN [s EXCEPT !.image = pin.to] ELSE s)}
  ELSE {}

\* StoragePin: a volume in the place of one writable directory of a service.
Pinned_(pin, s, m) ==
  /\ s.name = pin.service /\ m.kind = "directory" /\ ~m.readOnly
  /\ m.source = pin.source /\ m.target = pin.target
PinStorage(template, pin) ==
  LET here(s) == {i \in DOMAIN s.mounts : Pinned_(pin, s, s.mounts[i])}
      Kept_(s) == [s EXCEPT !.mounts = [i \in DOMAIN @ |-> IF i \in here(s) THEN Volume(pin.volume, pin.target, FALSE) ELSE @[i]]]
  IN IF pin.reason /\ \E s \in Named(template.plan, pin.service) : Cardinality(here(s)) = 1
     THEN {[OnServices(template, Kept_) EXCEPT !.plan.volumes = Append(@, pin.volume)]}
     ELSE {}

\* ResourceLimit: all three ceilings of a service that had none.
Limited(s) == s.overrides.memory \cup s.overrides.cpu \cup s.overrides.pids # {}
SetLimit(template, limit) ==
  IF limit.reason /\ \E s \in Named(template.plan, limit.service) : ~Limited(s)
  THEN {OnServices(template, LAMBDA s : IF s.name # limit.service THEN s
          ELSE [s EXCEPT !.overrides.memory = {limit.memory}, !.overrides.cpu = {limit.cpu}, !.overrides.pids = {limit.pids}])}
  ELSE {}

\* FieldReview: every question is reviewed and every review is of a question.
FieldsAreReviewed(review, template) ==
  /\ DOMAIN review.fields = {f.key : f \in Elements(template.fields)}
  /\ \A f \in Elements(template.fields) : f.required => FALSE \notin review.fields[f.key].required
ReviewField(review, f) ==
  [f EXCEPT !.sensitive = review.fields[f.key].sensitive,
            !.required = IF review.fields[f.key].required = {} THEN @ ELSE TRUE \in review.fields[f.key].required]

AuditsAreCurrent(review, template) ==
  {a.image : a \in Elements(review.audits)} = {s.image : s \in Elements(template.plan.services)}
FirstStartIsSound(review) == \A seconds \in review.firstStart : seconds > FirstStart /\ seconds <= MaxFirstStart

\* The digest of the first audit of an image that has one to give.
DigestOf(review, image) ==
  LET audit == SelectSeq(review.audits, LAMBDA a : a.image = image)[1]
  IN IF audit.digest = {} THEN "none" ELSE CHOOSE d \in audit.digest : TRUE

\* Where the definition comes from: the files that were pinned together.
Imported(review) ==
  IF review.importer = "caprover"
  THEN IF review.config = {} THEN caprover_import(review.definition).template ELSE {}
  ELSE UNION {IF config.id = review.id /\ config.beside THEN runtipi_import([review.definition EXCEPT !.inputs = config.inputs]).template ELSE {}
              : config \in review.config}

plan_template(review) ==
  LET storages == UNION {Each(PinStorage, t, review.storage) :
                    t \in UNION {Each(PinImage, i, review.pins) : i \in Imported(review)}}
      limited == UNION {Each(SetLimit, t, review.limits) : t \in storages}
      sound == {t \in limited : FieldsAreReviewed(review, t) /\ AuditsAreCurrent(review, t) /\ FirstStartIsSound(review)}
      Whole(t) == [OnServices(t, LAMBDA s : [s EXCEPT !.digest = DigestOf(review, s.image)])
                    EXCEPT !.fields = [i \in DOMAIN @ |-> ReviewField(review, @[i])], !.seeds = review.seeds]
  IN {t \in {Whole(u) : u \in sound} : ValidTemplate(t)}

-----------------------------------------------------------------------------
\* Recipes.  `compose` is the file they install, `launch` and `health` are the ports of
\* the addresses that are opened and probed, `notes` the ports the risk notes name.

Addresses(compose, host) ==
  {i \in DOMAIN Lines(compose) : Lines(compose)[i] = [line |-> "short", text |-> host]}

\* The ceilings in the file are those of the review, and only there.
CeilingsAgree(recipe) ==
  /\ \A limit \in recipe.limits :
       /\ limit.service = recipe.id /\ limit.reason
       /\ limit.memory \in Memory /\ limit.cpu \in Cpu /\ limit.pids \in Pids
  /\ LET s == recipe.compose.services[1]
     IN /\ s.memory = {l.memory : l \in recipe.limits}
        /\ s.cpu = {l.cpu : l \in recipe.limits} /\ s.pids = {l.pids : l \in recipe.limits}

validate_recipe(recipe) ==
  /\ Cardinality(recipe.limits) <= 1 /\ CeilingsAgree(recipe)
  /\ recipe.audited /\ recipe.platforms # {}
  /\ recipe.image[2] = recipe.version /\ recipe.image \in Pinned
  /\ recipe.compose.services[1].image = <<recipe.image, recipe.digest>>
  /\ Addresses(recipe.compose, recipe.host) # {}
  /\ recipe.host >= FirstPort /\ recipe.container # 0
  /\ recipe.launch = recipe.host /\ recipe.health = recipe.host
  /\ \A s \in Elements(recipe.compose.services) : \A m \in Elements(s.mounts) : m.kind # "directory" \/ Confined(m.source)
  /\ recipe.forbidden = {}

MovedLine(line, from, to) == IF line = [line |-> "short", text |-> from] THEN [line EXCEPT !.text = to] ELSE line
MovedCompose(compose, from, to) ==
  [compose EXCEPT !.services = [i \in DOMAIN @ |->
     [@[i] EXCEPT !.lines = [j \in DOMAIN @ |-> MovedLine(@[j], from, to)],
                  !.ports = {IF p.host = from THEN [p EXCEPT !.host = to] ELSE p : p \in @}]]]
Moved(port, from, to) == IF port = from THEN to ELSE port

with_host_port(recipe, host) ==
  LET remapped == [recipe EXCEPT !.host = host, !.compose = MovedCompose(@, recipe.host, host),
                                 !.launch = Moved(@, recipe.host, host), !.health = Moved(@, recipe.host, host),
                                 !.notes = {Moved(p, recipe.host, host) : p \in @}]
  IN IF host = recipe.host
     THEN {r \in {recipe} : validate_recipe(r)}
     ELSE {r \in {remapped} : /\ host >= FirstPort /\ Cardinality(Addresses(recipe.compose, recipe.host)) = 1
                              /\ validate_recipe(recipe) /\ validate_recipe(r)}

-----------------------------------------------------------------------------
\* One shape for both.  `port` is a set of at most one port that was asked for.

\* The recipes, none of which fails its check, and the reviews that approve.
offerings(recipes, reviews) ==
  LET sound == SelectSeq(recipes, validate_recipe)
      approved == SelectSeq(reviews, LAMBDA r : r.approved)
  IN [i \in DOMAIN sound |-> [recipe |-> TRUE, of |-> sound[i]]]
       \o [i \in DOMAIN approved |-> [recipe |-> FALSE, of |-> approved[i]]]

Remapped(recipe, port) == IF port = {} THEN {recipe} ELSE UNION {with_host_port(recipe, p) : p \in port}
template_for(offering, port) ==
  IF offering.recipe
  THEN {[plan |-> plan, fields |-> <<>>, secrets |-> <<>>, seeds |-> <<>>]
        : plan \in UNION {plan_for_recipe(r) : r \in Remapped(offering.of, port)}}
  ELSE {[t EXCEPT !.plan = IF port = {} THEN @ ELSE set_published_host(@, CHOOSE p \in port : TRUE)]
        : t \in {u \in plan_template(offering.of) : \A p \in port : p >= FirstPort}}

summary(offering, port) ==
  IF offering.recipe
  THEN {[id |-> r.id, image |-> r.image, host |-> r.host, container |-> r.container, launch |-> r.launch] : r \in Remapped(offering.of, port)}
  ELSE UNION {{[id |-> offering.of.id, image |-> s.image, host |-> p.host, container |-> p.container, launch |-> p.host]
               : p \in s.published} : s \in UNION {Elements(t.plan.services) : t \in template_for(offering, port)}}

-----------------------------------------------------------------------------
(***************************************************************************)
(* A review changes what it says and no more: the containers, their values *)
(* and their conditions are those of the definition, data stays at the     *)
(* place it had in the container, every image that runs was audited, and   *)
(* no question that had to be answered may be left out.                    *)
(***************************************************************************)
ReviewIsKept(review) ==
  \A t \in plan_template(review), before \in Imported(review) :
    /\ Len(t.plan.services) = Len(before.plan.services)
    /\ \A i \in DOMAIN before.plan.services :
         LET was == before.plan.services[i]
             is == t.plan.services[i]
         IN /\ [is EXCEPT !.image = was.image, !.digest = was.digest, !.mounts = was.mounts, !.overrides = was.overrides] = was
            /\ is.image[1] = was.image[1]
            /\ \E a \in Elements(review.audits) : a.image = is.image /\ (a.digest # {} => is.digest \in a.digest)
            /\ [j \in DOMAIN is.mounts |-> <<is.mounts[j].target, is.mounts[j].readOnly>>]
                 = [j \in DOMAIN was.mounts |-> <<was.mounts[j].target, was.mounts[j].readOnly>>]
    /\ Keys(t.fields) = Keys(before.fields) /\ t.secrets = before.secrets
    /\ \A i \in DOMAIN before.fields : before.fields[i].required => t.fields[i].required

(***************************************************************************)
(* The review a person is shown and the install that follows are of the    *)
(* same app: one image, one address, which is the one that is opened, and  *)
(* the port that was asked for.                                            *)
(***************************************************************************)
ShownIsInstalled(offering, port) ==
  \A shown \in {summary(offering, port)}, installed \in {template_for(offering, port)} :
    /\ shown = {} <=> installed = {}
    /\ \A s \in shown, t \in installed :
         /\ published(t.plan) = {[host |-> s.host, container |-> s.container]}
         /\ \A v \in Elements(t.plan.services) : v.published # {} => v.image = s.image
         /\ s.launch = s.host /\ port \subseteq {s.host}
         /\ PlanIsRight(t.plan)

\* A recipe on another port is a recipe of that port all through: its file, its
\* addresses and its notes, and the container keeps the port it listens on.
RemapIsWhole(recipe, host) ==
  \A r \in with_host_port(recipe, host) :
    /\ published_host_port(r.compose) = {host}
    /\ {r.host, r.launch, r.health} = {host}
    /\ host # recipe.host => recipe.host \notin r.notes
    /\ \A plan \in plan_for_recipe(r) : published(plan) = {[host |-> host, container |-> recipe.container]}

=============================================================================
