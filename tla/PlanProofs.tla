----------------------------- MODULE PlanProofs -----------------------------
(***************************************************************************)
(* Proofs about plans, templates and installs over earlier ones, for any   *)
(* plan, template, answer and directory.  A plan that passes its checks    *)
(* comes up: every round of its start has what the same round of its order *)
(* has.  Its addresses read back as its own, and stay through an install   *)
(* over it, settled one service after the other.  A container receives     *)
(* every value as its template meant it, part by part.                     *)
(***************************************************************************)
EXTENDS Provisioning, WellFoundedInduction, FiniteSetTheorems, TLAPS

-----------------------------------------------------------------------------
\* How a plan comes up.

\* A set of numbers has a least one.
LEMMA Least ==
  ASSUME NEW T \in SUBSET Nat, T # {}
  PROVE  \E n \in T : \A m \in T : n <= m
<1> DEFINE R == {p \in Nat \X Nat : p[1] < p[2]}
<1>1. IsWellFoundedOn(OpToRel(<, Nat), Nat)
  BY NatLessThanWellFounded
<1>2. OpToRel(<, Nat) = R
  BY DEF OpToRel
<1>3. IsWellFoundedOn(R, Nat)
  BY <1>1, <1>2
<1>4. PICK n \in T : \A m \in T : ~(<<m, n>> \in R)
  <2> HIDE DEF R
  <2> QED
    BY <1>3, WFMin
<1>5. ASSUME NEW m \in T PROVE n <= m
  <2>1. m \in Nat /\ n \in Nat
    OBVIOUS
  <2>2. ~(m < n)
    <3>1. SUFFICES ASSUME m < n PROVE FALSE
      OBVIOUS
    <3>2. <<m, n>> \in Nat \X Nat /\ <<m, n>>[1] < <<m, n>>[2]
      BY <2>1, <3>1
    <3>3. <<m, n>> \in R
      BY <3>2, Zenon
    <3> QED
      BY <1>4, <3>3
  <2> QED
    BY <2>1, <2>2
<1> QED
  BY <1>5

\* What starts with the first number and goes on by one is said of all of them.
LEMMA StepByStep ==
  ASSUME NEW S, 0 \in S, \A n \in Nat : n \in S => n + 1 \in S
  PROVE  Nat \subseteq S
<1> DEFINE T == Nat \ S
<1>1. SUFFICES ASSUME T # {} PROVE FALSE
  OBVIOUS
<1>2. PICK n \in T : \A m \in T : n <= m
  BY <1>1, Least
<1>3. n # 0 /\ n - 1 \in Nat /\ n - 1 \notin T
  BY <1>2
<1>4. n - 1 + 1 \in S
  BY <1>3
<1> QED
  BY <1>2, <1>4

\* A step from each value to a next one, and N rounds of it.
IsStep(F, D) == F \in [D -> D]
Run(g, D, N, base, F) == g \in [0..N -> D] /\ g[0] = base /\ \A i \in 1..N : g[i] = F[g[i - 1]]

\* There are as many rounds as one likes.
LEMMA RoundsExist ==
  ASSUME NEW D, NEW base \in D, NEW F, IsStep(F, D), NEW N \in Nat
  PROVE  \E g : Run(g, D, N, base, F)
<1> DEFINE Upto(n) == \E g \in [0..n -> D] : g[0] = base /\ \A i \in 1..n : g[i] = F[g[i - 1]]
           S == {n \in Nat : Upto(n)}
<1>1. Upto(0)
  <2>1. [i \in 0..0 |-> base] \in [0..0 -> D] /\ [i \in 0..0 |-> base][0] = base
    OBVIOUS
  <2>2. \A i \in 1..0 : FALSE
    OBVIOUS
  <2> QED
    BY <2>1, <2>2
<1>2. ASSUME NEW n \in Nat, Upto(n) PROVE Upto(n + 1)
  <2>1. PICK g \in [0..n -> D] : g[0] = base /\ \A i \in 1..n : g[i] = F[g[i - 1]]
    BY <1>2
  <2> DEFINE h == [i \in 0..(n + 1) |-> IF i = n + 1 THEN F[g[n]] ELSE g[i]]
  <2>2. g[n] \in D /\ F[g[n]] \in D
    BY <2>1 DEF IsStep
  <2>3. h \in [0..(n + 1) -> D] /\ h[0] = base
    BY <2>1, <2>2
  <2>4. ASSUME NEW i \in 1..(n + 1) PROVE h[i] = F[h[i - 1]]
    <3>1. CASE i = n + 1
      BY <3>1
    <3>2. CASE i # n + 1
      <4>1. i \in 1..n /\ i - 1 \in 0..n /\ i \in 0..n
        BY <3>2
      <4>2. h[i] = g[i] /\ h[i - 1] = g[i - 1]
        BY <4>1, <3>2
      <4> QED
        BY <2>1, <4>1, <4>2
    <3> QED
      BY <3>1, <3>2
  <2> HIDE DEF h
  <2> QED
    BY <2>3, <2>4
<1>3. Nat \subseteq S
  <2> HIDE DEF Upto
  <2>1. 0 \in S /\ \A n \in Nat : n \in S => n + 1 \in S
    BY <1>1, <1>2
  <2> HIDE DEF S
  <2> QED
    BY <2>1, StepByStep
<1> QED
  BY <1>3 DEF Run

\* The rounds of a plan's order.
LEMMA OrderedIs ==
  ASSUME NEW plan, Len(plan.services) \in Nat
  PROVE  /\ Ordered(plan)[0] = {}
         /\ \A n \in 1..Len(plan.services) :
              Ordered(plan)[n] = {s.name : s \in {t \in Elements(plan.services) : t.dependsOn \subseteq Ordered(plan)[n - 1]}}
<1> DEFINE names == {s.name : s \in Elements(plan.services)}
           Then(S) == {s.name : s \in {t \in Elements(plan.services) : t.dependsOn \subseteq S}}
           Is(g) == g = [n \in 0..Len(plan.services) |-> IF n = 0 THEN {} ELSE Then(g[n - 1])]
           F == [S \in SUBSET names |-> Then(S)]
<1>0. Len(plan.services) \in Nat
  OBVIOUS
<1>1. PICK g \in [0..Len(plan.services) -> SUBSET names] : g[0] = {} /\ \A i \in 1..Len(plan.services) : g[i] = F[g[i - 1]]
  <2>1. F \in [SUBSET names -> SUBSET names] /\ {} \in SUBSET names
    OBVIOUS
  <2> DEFINE all == SUBSET names
             last == Len(plan.services)
  <2>2. IsStep(F, all) /\ {} \in all /\ last \in Nat
    BY <2>1, <1>0 DEF IsStep
  <2> HIDE DEF names, F, all, last, Then, Is
  <2>3. \E g : Run(g, all, last, {}, F)
    BY <2>2, RoundsExist
  <2> QED
    BY <2>3 DEF all, last, Run
<1>2. Is(g)
  <2>1. ASSUME NEW n \in 0..Len(plan.services) PROVE g[n] = IF n = 0 THEN {} ELSE Then(g[n - 1])
    <3>1. CASE n = 0
      BY <1>1, <3>1
    <3>2. CASE n # 0
      <4>1. n \in 1..Len(plan.services) /\ n - 1 \in 0..Len(plan.services)
        BY <3>2
      <4>2. g[n] = F[g[n - 1]] /\ g[n - 1] \in SUBSET names
        BY <1>1, <4>1
      <4>3. F[g[n - 1]] = Then(g[n - 1])
        BY <4>2
      <4> QED
        BY <3>2, <4>2, <4>3
    <3> QED
      BY <3>1, <3>2
  <2> HIDE DEF Then, names
  <2> QED
    BY <1>1, <2>1
<1>3. Is(Ordered(plan))
  <2>1. Ordered(plan) = CHOOSE o : Is(o)
    BY DEF Ordered
  <2> HIDE DEF Is
  <2> QED
    BY <1>2, <2>1
<1> HIDE DEF Then
<1>4. \A n \in 0..Len(plan.services) : Ordered(plan)[n] = IF n = 0 THEN {} ELSE Then(Ordered(plan)[n - 1])
  BY <1>3
<1>5. Ordered(plan)[0] = {}
  BY <1>4
<1>6. ASSUME NEW n \in 1..Len(plan.services)
      PROVE  Ordered(plan)[n] = Then(Ordered(plan)[n - 1])
  <2>1. n \in 0..Len(plan.services) /\ n # 0
    OBVIOUS
  <2> QED
    BY <1>4, <2>1
<1> QED
  BY <1>5, <1>6 DEF Then

\* The rounds of a file's start.
LEMMA RoundsOf ==
  ASSUME NEW file, Len(file.services) \in Nat
  PROVE  /\ Rounds(file)[0] = {}
         /\ \A n \in 1..Len(file.services) :
              Rounds(file)[n] = {s.name : s \in {t \in Elements(file.services) : Comes(file, t, Rounds(file)[n - 1])}}
<1> DEFINE names == {s.name : s \in Elements(file.services)}
           Then(S) == {s.name : s \in {t \in Elements(file.services) : Comes(file, t, S)}}
           Is(g) == g = [n \in 0..Len(file.services) |-> IF n = 0 THEN {} ELSE Then(g[n - 1])]
           F == [S \in SUBSET names |-> Then(S)]
<1>0. Len(file.services) \in Nat
  OBVIOUS
<1>1. PICK g \in [0..Len(file.services) -> SUBSET names] : g[0] = {} /\ \A i \in 1..Len(file.services) : g[i] = F[g[i - 1]]
  <2>1. F \in [SUBSET names -> SUBSET names] /\ {} \in SUBSET names
    OBVIOUS
  <2> DEFINE all == SUBSET names
             last == Len(file.services)
  <2>2. IsStep(F, all) /\ {} \in all /\ last \in Nat
    BY <2>1, <1>0 DEF IsStep
  <2> HIDE DEF names, F, all, last, Then, Is
  <2>3. \E g : Run(g, all, last, {}, F)
    BY <2>2, RoundsExist
  <2> QED
    BY <2>3 DEF all, last, Run
<1>2. Is(g)
  <2>1. ASSUME NEW n \in 0..Len(file.services) PROVE g[n] = IF n = 0 THEN {} ELSE Then(g[n - 1])
    <3>1. CASE n = 0
      BY <1>1, <3>1
    <3>2. CASE n # 0
      <4>1. n \in 1..Len(file.services) /\ n - 1 \in 0..Len(file.services)
        BY <3>2
      <4>2. g[n] = F[g[n - 1]] /\ g[n - 1] \in SUBSET names
        BY <1>1, <4>1
      <4>3. F[g[n - 1]] = Then(g[n - 1])
        BY <4>2
      <4> QED
        BY <3>2, <4>2, <4>3
    <3> QED
      BY <3>1, <3>2
  <2> HIDE DEF Then, names
  <2> QED
    BY <1>1, <2>1
<1>3. Is(Rounds(file))
  <2>1. Rounds(file) = CHOOSE o : Is(o)
    BY DEF Rounds
  <2> HIDE DEF Is
  <2> QED
    BY <1>2, <2>1
<1> HIDE DEF Then
<1>4. \A n \in 0..Len(file.services) : Rounds(file)[n] = IF n = 0 THEN {} ELSE Then(Rounds(file)[n - 1])
  BY <1>3
<1>5. Rounds(file)[0] = {}
  BY <1>4
<1>6. ASSUME NEW n \in 1..Len(file.services)
      PROVE  Rounds(file)[n] = Then(Rounds(file)[n - 1])
  <2>1. n \in 0..Len(file.services) /\ n # 0
    OBVIOUS
  <2> QED
    BY <1>4, <2>1
<1> QED
  BY <1>5, <1>6 DEF Then

\* The services of a plan are a list, and every service is one.
LEMMA PlanHas ==
  ASSUME NEW plan, IsPlan(plan)
  PROVE  /\ Len(plan.services) \in Nat /\ DOMAIN plan.services = 1..Len(plan.services)
         /\ plan.services \in Seq(Elements(plan.services))
         /\ \A i \in DOMAIN plan.services : IsService(plan.services[i])
         /\ \A s \in Elements(plan.services) : IsService(s)
BY DEF IsPlan, Elements

\* So is every mount of a service.
LEMMA MountsAre ==
  ASSUME NEW plan, IsPlan(plan), NEW s \in Elements(plan.services), NEW m \in Elements(s.mounts)
  PROVE  IsMount(m)
<1>1. IsService(s)
  BY PlanHas
<1>2. PICK j \in DOMAIN s.mounts : m = s.mounts[j]
  BY DEF Elements
<1> QED
  BY <1>1, <1>2 DEF IsService

\* What a file, here or in WSL, keeps of the plan it is written from.
IsOf(file, plan) ==
  /\ DOMAIN file.services = DOMAIN plan.services /\ Len(file.services) = Len(plan.services)
  /\ \A i \in DOMAIN plan.services :
       /\ file.services[i].name = plan.services[i].name
       /\ file.services[i].restart = IF is_job(plan, plan.services[i].name) THEN "no" ELSE "unless-stopped"
       /\ file.services[i].ports = plan.services[i].published \cup plan.services[i].companion
       /\ file.services[i].depends = {<<d, Condition(plan.services[i], d)>> : d \in plan.services[i].dependsOn}
       /\ file.services[i].networks = IF plan.services[i].networks = <<>> THEN {"default"} ELSE Elements(plan.services[i].networks)
       /\ file.services[i].check = plan.services[i].check /\ file.services[i].memory = plan.services[i].overrides.memory
       /\ \A m \in Elements(file.services[i].mounts) : m.kind = "volume" => m \in Elements(plan.services[i].mounts)
  /\ file.volumes = Elements(plan.volumes) /\ file.internal = Elements(plan.networks)

\* The file of an install is of its plan.
LEMMA ComposeIsOf ==
  ASSUME NEW plan, IsPlan(plan), NEW file \in to_compose(plan)
  PROVE  validate(plan) /\ IsOf(file, plan)
<1>1. validate(plan)
  BY DEF to_compose, to_compose_with_mounts
<1>2. file = [services |-> [i \in DOMAIN plan.services |-> Written(plan, plan.services[i], LAMBDA m : m)],
              volumes |-> Elements(plan.volumes), internal |-> Elements(plan.networks)]
  BY DEF to_compose, to_compose_with_mounts
<1>3. plan.services \in Seq(Elements(plan.services))
  BY PlanHas
<1>4. file.services = [i \in DOMAIN plan.services |-> Written(plan, plan.services[i], LAMBDA m : m)]
      /\ file.volumes = Elements(plan.volumes) /\ file.internal = Elements(plan.networks)
  BY <1>2
<1>5. DOMAIN file.services = DOMAIN plan.services /\ Len(file.services) = Len(plan.services)
  BY <1>3, <1>4
<1>6. ASSUME NEW i \in DOMAIN plan.services
      PROVE  /\ file.services[i].name = plan.services[i].name
             /\ file.services[i].restart = IF is_job(plan, plan.services[i].name) THEN "no" ELSE "unless-stopped"
             /\ file.services[i].ports = plan.services[i].published \cup plan.services[i].companion
             /\ file.services[i].depends = {<<d, Condition(plan.services[i], d)>> : d \in plan.services[i].dependsOn}
             /\ file.services[i].networks = IF plan.services[i].networks = <<>> THEN {"default"} ELSE Elements(plan.services[i].networks)
             /\ file.services[i].check = plan.services[i].check /\ file.services[i].memory = plan.services[i].overrides.memory
             /\ \A m \in Elements(file.services[i].mounts) : m.kind = "volume" => m \in Elements(plan.services[i].mounts)
  <2>1. file.services[i] = Written(plan, plan.services[i], LAMBDA m : m)
    BY <1>4
  <2> DEFINE s == plan.services[i]
             w == file.services[i]
  <2>2. /\ w.name = s.name /\ w.restart = IF is_job(plan, s.name) THEN "no" ELSE "unless-stopped"
        /\ w.ports = s.published \cup s.companion
        /\ w.depends = {<<d, Condition(s, d)>> : d \in s.dependsOn}
        /\ w.networks = IF s.networks = <<>> THEN {"default"} ELSE Elements(s.networks)
        /\ w.check = s.check /\ w.memory = s.overrides.memory
        /\ w.mounts = [j \in DOMAIN s.mounts |-> s.mounts[j]]
    BY <2>1 DEF Written
  <2>3. \A m \in Elements(w.mounts) : m \in Elements(s.mounts)
    BY <2>2 DEF Elements
  <2> QED
    BY <2>2, <2>3
<1> QED
  BY <1>1, <1>4, <1>5, <1>6 DEF IsOf

\* So is the file for WSL.
LEMMA ProjectIsOf ==
  ASSUME NEW plan, IsPlan(plan), NEW project, NEW file \in project_plan(plan, project)
  PROVE  validate(plan) /\ IsOf(file, plan)
<1>1. validate(plan)
  BY DEF project_plan, to_compose_with_mounts
<1>2. file = [services |-> [i \in DOMAIN plan.services |-> Written(plan, plan.services[i], LAMBDA m : Projected(project, m))],
              volumes |-> Elements(plan.volumes), internal |-> Elements(plan.networks)]
  BY DEF project_plan, to_compose_with_mounts
<1>3. plan.services \in Seq(Elements(plan.services))
  BY PlanHas
<1>4. file.services = [i \in DOMAIN plan.services |-> Written(plan, plan.services[i], LAMBDA m : Projected(project, m))]
      /\ file.volumes = Elements(plan.volumes) /\ file.internal = Elements(plan.networks)
  BY <1>2
<1>5. DOMAIN file.services = DOMAIN plan.services /\ Len(file.services) = Len(plan.services)
  BY <1>3, <1>4
<1>6. ASSUME NEW i \in DOMAIN plan.services
      PROVE  /\ file.services[i].name = plan.services[i].name
             /\ file.services[i].restart = IF is_job(plan, plan.services[i].name) THEN "no" ELSE "unless-stopped"
             /\ file.services[i].ports = plan.services[i].published \cup plan.services[i].companion
             /\ file.services[i].depends = {<<d, Condition(plan.services[i], d)>> : d \in plan.services[i].dependsOn}
             /\ file.services[i].networks = IF plan.services[i].networks = <<>> THEN {"default"} ELSE Elements(plan.services[i].networks)
             /\ file.services[i].check = plan.services[i].check /\ file.services[i].memory = plan.services[i].overrides.memory
             /\ \A m \in Elements(file.services[i].mounts) : m.kind = "volume" => m \in Elements(plan.services[i].mounts)
  <2>1. file.services[i] = Written(plan, plan.services[i], LAMBDA m : Projected(project, m))
    BY <1>4
  <2> DEFINE s == plan.services[i]
             w == file.services[i]
  <2>2. /\ w.name = s.name /\ w.restart = IF is_job(plan, s.name) THEN "no" ELSE "unless-stopped"
        /\ w.ports = s.published \cup s.companion
        /\ w.depends = {<<d, Condition(s, d)>> : d \in s.dependsOn}
        /\ w.networks = IF s.networks = <<>> THEN {"default"} ELSE Elements(s.networks)
        /\ w.check = s.check /\ w.memory = s.overrides.memory
        /\ w.mounts = [j \in DOMAIN s.mounts |-> Projected(project, s.mounts[j])]
    BY <2>1 DEF Written
  <2>3. ASSUME NEW m \in Elements(w.mounts), m.kind = "volume" PROVE m \in Elements(s.mounts)
    <3>1. PICK j \in DOMAIN s.mounts : m = Projected(project, s.mounts[j])
      BY <2>2 DEF Elements
    <3> DEFINE n == s.mounts[j]
    <3>2. n \in Elements(s.mounts) /\ s \in Elements(plan.services)
      BY DEF Elements
    <3>3. PICK k \in {"directory", "volume", "host"} :
            n = [kind |-> k, source |-> n.source, target |-> n.target, readOnly |-> n.readOnly]
      <4>1. IsMount(n)
        BY <3>2, MountsAre
      <4> QED
        BY <4>1 DEF IsMount
    <3>4. k = "volume"
      <4>1. SUFFICES ASSUME k # "volume" PROVE FALSE
        OBVIOUS
      <4>2. n.kind = k
        BY <3>3
      <4>3. Projected(project, n).kind = "bind"
        BY <3>3, <4>1, <4>2 DEF Projected
      <4> QED
        BY <2>3, <3>1, <4>3
    <3>5. m = n
      BY <3>1, <3>3, <3>4 DEF Projected
    <3> QED
      BY <3>2, <3>5
  <2> QED
    BY <2>2, <2>3
<1> QED
  BY <1>1, <1>4, <1>5, <1>6 DEF IsOf

\* A service whose dependencies are up comes up.
LEMMA ServiceComes ==
  ASSUME NEW plan, validate(plan), NEW file, IsOf(file, plan),
         NEW i \in DOMAIN plan.services, NEW up, plan.services[i].dependsOn \subseteq up
  PROVE  Comes(file, file.services[i], up)
<1> DEFINE s == plan.services[i]
           w == file.services[i]
<1>1. s \in Elements(plan.services)
  BY DEF Elements
<1>2. /\ w.depends = {<<d, Condition(s, d)>> : d \in s.dependsOn} /\ w.memory = s.overrides.memory
      /\ \A m \in Elements(w.mounts) : m.kind = "volume" => m \in Elements(s.mounts)
      /\ file.volumes = Elements(plan.volumes)
  BY DEF IsOf
<1>3. ASSUME NEW on \in w.depends
      PROVE  \E t \in Elements(file.services) :
               /\ t.name = on[1] /\ t.name \in up
               /\ on[2] = "service_healthy" => ~Disabled(t)
               /\ on[2] = "service_completed_successfully" => t.restart = "no"
  <2>1. PICK d \in s.dependsOn : on = <<d, Condition(s, d)>>
    BY <1>2, <1>3
  <2>2. on[1] = d /\ on[2] = Condition(s, d)
    BY <2>1
  <2>3. PICK t \in Named(plan, d) : TRUE
    BY <1>1 DEF validate, DependenciesAreSound
  <2>4. PICK j \in DOMAIN plan.services : t = plan.services[j]
    BY <2>3 DEF Named, Elements
  <2>5. t.name = d
    BY <2>3 DEF Named
  <2>6. /\ file.services[j] \in Elements(file.services) /\ file.services[j].name = d
        /\ file.services[j].check = t.check
        /\ file.services[j].restart = IF is_job(plan, d) THEN "no" ELSE "unless-stopped"
    BY <2>4, <2>5 DEF IsOf, Elements
  <2>7. on[2] = "service_healthy" => ~Disabled(file.services[j])
    <3>1. SUFFICES ASSUME on[2] = "service_healthy" PROVE ~Disabled(file.services[j])
      OBVIOUS
    <3>2. d \in s.healthy
      BY <2>2, <3>1 DEF Condition
    <3>3. ~Disabled(t)
      BY <1>1, <2>3, <3>2 DEF validate, ConditionsAreSound
    <3> QED
      BY <2>6, <3>3 DEF Disabled
  <2>8. on[2] = "service_completed_successfully" => file.services[j].restart = "no"
    <3>1. SUFFICES ASSUME on[2] = "service_completed_successfully" PROVE file.services[j].restart = "no"
      OBVIOUS
    <3>2. d \in s.completed
      BY <2>2, <3>1 DEF Condition
    <3>3. is_job(plan, d)
      BY <1>1, <3>2 DEF is_job
    <3> QED
      BY <2>6, <3>3
  <2> QED
    BY <2>1, <2>2, <2>6, <2>7, <2>8
<1>4. \A bytes \in w.memory : bytes >= LeastMemory
  BY <1>1, <1>2 DEF validate, ServiceIsSound, OverridesAreSound
<1>5. ASSUME NEW m \in Elements(w.mounts), m.kind = "volume" PROVE m.source.names[1] \in file.volumes
  <2>1. m \in Elements(s.mounts)
    BY <1>2, <1>5
  <2>2. m \in {n \in UNION {Elements(r.mounts) : r \in Elements(plan.services)} : n.kind = "volume"}
    BY <1>1, <1>5, <2>1
  <2> QED
    BY <1>2, <2>2 DEF validate, VolumesAreSound
<1> QED
  BY <1>3, <1>4, <1>5 DEF Comes

\* Every round of the start has what the same round of the plan's order has.
LEMMA RoundsFollow ==
  ASSUME NEW plan, IsPlan(plan), validate(plan), NEW file, IsOf(file, plan)
  PROVE  Up(file) = {s.name : s \in Elements(file.services)}
<1> DEFINE N == Len(plan.services)
           S == {n \in Nat : n <= N => Ordered(plan)[n] \subseteq Rounds(file)[n]}
<1>1. N \in Nat /\ Len(file.services) = N /\ DOMAIN plan.services = 1..N
  BY PlanHas DEF IsOf
<1>2. /\ Ordered(plan)[0] = {}
      /\ \A n \in 1..N :
           Ordered(plan)[n] = {s.name : s \in {t \in Elements(plan.services) : t.dependsOn \subseteq Ordered(plan)[n - 1]}}
  BY <1>1, OrderedIs
<1>3. /\ Rounds(file)[0] = {}
      /\ \A n \in 1..N :
           Rounds(file)[n] = {s.name : s \in {t \in Elements(file.services) : Comes(file, t, Rounds(file)[n - 1])}}
  BY <1>1, RoundsOf
<1>4. ASSUME NEW n \in Nat, n \in S PROVE n + 1 \in S
  <2>1. SUFFICES ASSUME n + 1 <= N PROVE Ordered(plan)[n + 1] \subseteq Rounds(file)[n + 1]
    OBVIOUS
  <2>2. Ordered(plan)[n] \subseteq Rounds(file)[n]
    BY <1>1, <1>4, <2>1
  <2>3. n + 1 \in 1..N /\ n + 1 - 1 = n
    BY <1>1, <2>1
  <2>4. ASSUME NEW name \in Ordered(plan)[n + 1] PROVE name \in Rounds(file)[n + 1]
    <3>1. PICK s \in Elements(plan.services) : s.name = name /\ s.dependsOn \subseteq Ordered(plan)[n]
      BY <1>2, <2>3, <2>4
    <3>2. PICK i \in DOMAIN plan.services : s = plan.services[i]
      BY DEF Elements
    <3>3. Comes(file, file.services[i], Rounds(file)[n])
      BY <2>2, <3>1, <3>2, ServiceComes
    <3>4. file.services[i] \in Elements(file.services) /\ file.services[i].name = name
      BY <3>1, <3>2 DEF IsOf, Elements
    <3>5. Rounds(file)[n + 1] = {t.name : t \in {r \in Elements(file.services) : Comes(file, r, Rounds(file)[n])}}
      BY <1>3, <2>3
    <3> QED
      BY <3>3, <3>4, <3>5
  <2> QED
    BY <2>4
<1>5. Nat \subseteq S
  <2>1. 0 \in S
    BY <1>2
  <2> HIDE DEF S
  <2> QED
    BY <1>4, <2>1, StepByStep
<1>6. Ordered(plan)[N] \subseteq Up(file)
  BY <1>1, <1>5 DEF Up
<1>7. Ordered(plan)[N] = {s.name : s \in Elements(plan.services)}
  BY DEF validate, NoCycle
<1>8. {s.name : s \in Elements(plan.services)} = {s.name : s \in Elements(file.services)}
  <2>1. \A i \in DOMAIN plan.services : file.services[i].name = plan.services[i].name
    BY DEF IsOf
  <2>2. DOMAIN file.services = DOMAIN plan.services
    BY DEF IsOf
  <2>3. {s.name : s \in Elements(plan.services)} = {plan.services[i].name : i \in DOMAIN plan.services}
    BY DEF Elements
  <2>4. {s.name : s \in Elements(file.services)} = {file.services[i].name : i \in DOMAIN file.services}
    BY DEF Elements
  <2> QED
    BY <2>1, <2>2, <2>3, <2>4
<1>9. Up(file) \subseteq {s.name : s \in Elements(file.services)}
  <2>1. N >= 1
    <3>1. plan.services # <<>>
      BY DEF validate
    <3> QED
      BY <1>1, <3>1, PlanHas
  <2>2. N \in 1..N
    BY <1>1, <2>1
  <2>3. Up(file) = {s.name : s \in {t \in Elements(file.services) : Comes(file, t, Rounds(file)[N - 1])}}
    BY <1>1, <1>3, <2>2 DEF Up
  <2> QED
    BY <2>3
<1> QED
  BY <1>6, <1>7, <1>8, <1>9

\* A file that keeps what a sound plan says comes up.
LEMMA FileComesUp ==
  ASSUME NEW plan, IsPlan(plan), validate(plan), NEW file, IsOf(file, plan)
  PROVE  ComesUp(file)
<1>1. Up(file) = {s.name : s \in Elements(file.services)}
  BY RoundsFollow
<1>2. ASSUME NEW s \in Elements(file.services), s.ports # {}
      PROVE  s.restart # "no" /\ \E n \in s.networks : n \notin file.internal
  <2>1. PICK i \in DOMAIN plan.services : s = file.services[i]
    BY DEF Elements, IsOf
  <2> DEFINE t == plan.services[i]
  <2>2. /\ t \in Elements(plan.services) /\ t.published \cup t.companion # {}
        /\ s.restart = IF is_job(plan, t.name) THEN "no" ELSE "unless-stopped"
        /\ s.networks = IF t.networks = <<>> THEN {"default"} ELSE Elements(t.networks)
        /\ file.internal = Elements(plan.networks)
    BY <1>2, <2>1 DEF IsOf, Elements
  <2>3. ~is_job(plan, t.name)
    BY <2>2 DEF validate, ConditionsAreSound
  <2>4. "default" \in s.networks
    BY <2>2 DEF validate, validate_networks
  <2>5. "default" \notin file.internal
    BY <2>2 DEF validate, validate_networks
  <2> QED
    BY <2>2, <2>3, <2>4, <2>5
<1>3. ASSUME NEW s \in Elements(file.services), NEW t \in Elements(file.services),
             NEW p \in s.ports, NEW q \in t.ports, p.host = q.host
      PROVE  s = t /\ p = q
  <2>1. PICK i \in DOMAIN plan.services : s = file.services[i]
    BY DEF Elements, IsOf
  <2>2. PICK j \in DOMAIN plan.services : t = file.services[j]
    BY DEF Elements, IsOf
  <2>3. /\ s.ports = plan.services[i].published \cup plan.services[i].companion
        /\ t.ports = plan.services[j].published \cup plan.services[j].companion
    BY <2>1, <2>2 DEF IsOf
  <2>4. i = j
    <3> DEFINE hosts == [k \in DOMAIN plan.services |-> {r.host : r \in plan.services[k].published \cup plan.services[k].companion}]
    <3>1. \A k, l \in DOMAIN plan.services : k # l => hosts[k] \cap hosts[l] = {}
      BY DEF validate, AddressesAreSound
    <3>2. p.host \in hosts[i] /\ p.host \in hosts[j]
      BY <1>3, <2>3
    <3> HIDE DEF hosts
    <3> QED
      BY <3>1, <3>2
  <2>5. plan.services[i] \in Elements(plan.services)
    BY DEF Elements
  <2>6. \A a \in plan.services[i].published, b \in plan.services[i].companion : a.host # b.host
    BY <2>5 DEF validate, AddressesAreSound
  <2>7. p = q
    BY <1>3, <2>3, <2>4, <2>5, <2>6, PlanHas DEF IsService
  <2> QED
    BY <2>1, <2>2, <2>4, <2>7
<1> QED
  BY <1>1, <1>2, <1>3 DEF ComesUp

\* A plan that passes its checks comes up.
THEOREM EveryPlanComesUp ==
  ASSUME NEW plan, IsPlan(plan)
  PROVE  \A file \in to_compose(plan) : ComesUp(file)
BY ComposeIsOf, FileComesUp

\* A mount of a plan, and what it becomes in WSL, keep one folder or volume.
LEMMA MountStays ==
  ASSUME NEW project, NEW k \in {"directory", "volume", "host"}, NEW m,
         m = [kind |-> k, source |-> m.source, target |-> m.target, readOnly |-> m.readOnly]
  PROVE  LET there == Projected(project, m)
         IN /\ Storage(project, m) = Storage(project, there)
            /\ m.target = there.target /\ m.readOnly = there.readOnly
            /\ there.kind # "volume" => there.source.root = "/mnt"
<1> DEFINE there == Projected(project, m)
<1>0. m.kind = k
  OBVIOUS
<1>1. CASE k = "volume"
  <2>1. there = m
    BY <1>0, <1>1 DEF Projected
  <2> QED
    BY <1>0, <1>1, <2>1
<1>2. CASE k = "directory"
  <2>1. there = [kind |-> "bind", source |-> windows_drive_path(Inside(project, m.source)), target |-> m.target, readOnly |-> m.readOnly]
    BY <1>0, <1>2 DEF Projected
  <2>2. there.source.names = Inside(project, m.source).names /\ there.source.root = "/mnt"
    BY <2>1 DEF windows_drive_path
  <2> HIDE DEF there
  <2>3. Storage(project, m) = <<"folder", Inside(project, m.source).names>>
    BY <1>0, <1>2 DEF Storage
  <2>4. Storage(project, there) = <<"folder", there.source.names>>
    BY <2>1 DEF Storage
  <2>5. there.target = m.target /\ there.readOnly = m.readOnly
    BY <2>1
  <2> QED
    BY <2>2, <2>3, <2>4, <2>5 DEF there
<1>3. CASE k = "host"
  <2>1. there = [kind |-> "bind", source |-> windows_drive_path(m.source), target |-> m.target, readOnly |-> m.readOnly]
    BY <1>0, <1>3 DEF Projected
  <2>2. there.source.names = m.source.names /\ there.source.root = "/mnt"
    BY <2>1 DEF windows_drive_path
  <2> HIDE DEF there
  <2>3. Storage(project, m) = <<"folder", m.source.names>>
    BY <1>0, <1>3 DEF Storage
  <2>4. Storage(project, there) = <<"folder", there.source.names>>
    BY <2>1 DEF Storage
  <2>5. there.target = m.target /\ there.readOnly = m.readOnly
    BY <2>1
  <2> QED
    BY <2>2, <2>3, <2>4, <2>5 DEF there
<1> QED
  BY <1>1, <1>2, <1>3

\* The file for WSL comes up as well, over the same data.
THEOREM EveryProjectionIsRight ==
  ASSUME NEW plan, IsPlan(plan), NEW project
  PROVE  ProjectionIsRight(plan, project)
<1>1. SUFFICES ASSUME NEW file \in to_compose(plan), NEW other \in project_plan(plan, project)
               PROVE  /\ ComesUp(other)
                      /\ \A i \in DOMAIN file.services : \A j \in DOMAIN file.services[i].mounts :
                           LET here == file.services[i].mounts[j]
                               there == other.services[i].mounts[j]
                           IN /\ Storage(project, here) = Storage(project, there)
                              /\ here.target = there.target /\ here.readOnly = there.readOnly
                              /\ there.kind # "volume" => there.source.root = "/mnt"
  BY DEF ProjectionIsRight
<1>2. ComesUp(other)
  BY ProjectIsOf, FileComesUp
<1>3. file = [services |-> [i \in DOMAIN plan.services |-> Written(plan, plan.services[i], LAMBDA m : m)],
              volumes |-> Elements(plan.volumes), internal |-> Elements(plan.networks)]
  BY DEF to_compose, to_compose_with_mounts
<1>4. other = [services |-> [i \in DOMAIN plan.services |-> Written(plan, plan.services[i], LAMBDA m : Projected(project, m))],
               volumes |-> Elements(plan.volumes), internal |-> Elements(plan.networks)]
  BY DEF project_plan, to_compose_with_mounts
<1>5. ASSUME NEW i \in DOMAIN file.services, NEW j \in DOMAIN file.services[i].mounts
      PROVE  LET here == file.services[i].mounts[j]
                 there == other.services[i].mounts[j]
             IN /\ Storage(project, here) = Storage(project, there)
                /\ here.target = there.target /\ here.readOnly = there.readOnly
                /\ there.kind # "volume" => there.source.root = "/mnt"
  <2> DEFINE s == plan.services[i]
  <2>1. /\ i \in DOMAIN plan.services /\ file.services[i] = Written(plan, s, LAMBDA m : m)
        /\ other.services[i] = Written(plan, s, LAMBDA m : Projected(project, m))
    BY <1>3, <1>4
  <2>2. file.services[i].mounts = [l \in DOMAIN s.mounts |-> s.mounts[l]]
    BY <2>1 DEF Written
  <2>3. other.services[i].mounts = [l \in DOMAIN s.mounts |-> Projected(project, s.mounts[l])]
    BY <2>1 DEF Written
  <2> DEFINE here == s.mounts[j]
  <2>4. /\ j \in DOMAIN s.mounts /\ file.services[i].mounts[j] = here
        /\ other.services[i].mounts[j] = Projected(project, here)
    BY <2>2, <2>3
  <2>5. here \in Elements(s.mounts) /\ s \in Elements(plan.services)
    BY <2>1, <2>4 DEF Elements
  <2>6. PICK k \in {"directory", "volume", "host"} :
          here = [kind |-> k, source |-> here.source, target |-> here.target, readOnly |-> here.readOnly]
    <3>1. IsMount(here)
      BY <2>5, MountsAre
    <3> QED
      BY <3>1 DEF IsMount
  <2> HIDE DEF here
  <2> QED
    BY <2>4, <2>6, MountStays
<1> QED
  BY <1>2, <1>5

\* A plan over the services and the mounts of another, so that what is said of its
\* mounts is said of the other's; and one with the addresses of another.
Like(other, plan) ==
  /\ IsPlan(other) /\ DOMAIN other.services = DOMAIN plan.services
  /\ \A i \in DOMAIN plan.services :
       /\ other.services[i].mounts = plan.services[i].mounts
       /\ other.services[i].name = plan.services[i].name /\ other.services[i].overrides = plan.services[i].overrides
       /\ other.services[i].variables = plan.services[i].variables
SameService(one, other) ==
  /\ one.name = other.name /\ one.overrides = other.overrides /\ one.variables = other.variables
  /\ one.published = other.published /\ one.companion = other.companion
SameAddresses(other, plan) ==
  /\ DOMAIN other.services = DOMAIN plan.services
  /\ \A i \in DOMAIN plan.services : SameService(other.services[i], plan.services[i])

\* Each service is changed in place.
LEMMA ServicesAre ==
  ASSUME NEW plan, IsPlan(plan), NEW services, services = [i \in DOMAIN plan.services |-> services[i]],
         \A i \in DOMAIN plan.services : IsService(services[i])
  PROVE  IsPlan([plan EXCEPT !.services = services]) /\ [plan EXCEPT !.services = services].services = services
<1> DEFINE other == [plan EXCEPT !.services = services]
<1>1. other.services = services /\ "services" \in DOMAIN other
  BY DEF IsPlan
<1>2. DOMAIN services = 1..Len(plan.services) /\ Len(plan.services) \in Nat
  BY PlanHas
<1>3. services \in Seq(Elements(services))
  BY <1>2 DEF Elements
<1> HIDE DEF other
<1>4. IsPlan(other)
  BY <1>1, <1>2, <1>3, PlanHas DEF IsPlan
<1> QED
  BY <1>1, <1>4 DEF other

\* Changes that keep every service's mounts, name, variables and arguments keep the plan's
\* likeness.
LEMMA ServicesChange ==
  ASSUME NEW plan, IsPlan(plan), NEW services, services = [i \in DOMAIN plan.services |-> services[i]],
         \A i \in DOMAIN plan.services :
           /\ IsService(services[i]) /\ services[i].mounts = plan.services[i].mounts
           /\ services[i].name = plan.services[i].name /\ services[i].overrides = plan.services[i].overrides
           /\ services[i].variables = plan.services[i].variables
  PROVE  Like([plan EXCEPT !.services = services], plan)
<1>1. PICK other : other = [plan EXCEPT !.services = services]
  OBVIOUS
<1>2. IsPlan(other) /\ other.services = services
  BY <1>1, ServicesAre
<1>3. DOMAIN services = DOMAIN plan.services
  OBVIOUS
<1> QED
  BY <1>1, <1>2, <1>3 DEF Like

\* Another main address changes addresses only.
LEMMA PublishedChanges ==
  ASSUME NEW plan, IsPlan(plan), NEW host
  PROVE  Like(set_published_host(plan, host), plan)
<1>1. PICK services : services = [i \in DOMAIN plan.services |-> Publishing(plan.services[i], host)]
  OBVIOUS
<1>2. ASSUME NEW s, IsService(s)
      PROVE  /\ IsService(Publishing(s, host)) /\ Publishing(s, host).mounts = s.mounts
             /\ Publishing(s, host).name = s.name /\ Publishing(s, host).overrides = s.overrides
             /\ Publishing(s, host).variables = s.variables
  <2>1. PICK new : new = AtHost(s.published, host)
    OBVIOUS
  <2>2. (\A p, q \in new : p = q) /\ \A p \in new : "host" \in DOMAIN p
    BY <1>2, <2>1 DEF IsService, AtHost
  <2>3. Publishing(s, host) = [s EXCEPT !.published = new]
    BY <2>1 DEF Publishing
  <2> QED
    BY <1>2, <2>2, <2>3 DEF IsService
<1>3. set_published_host(plan, host) = [plan EXCEPT !.services = services]
  BY <1>1 DEF set_published_host, EachService
<1>4. ASSUME NEW i \in DOMAIN plan.services
      PROVE  /\ IsService(services[i]) /\ services[i].mounts = plan.services[i].mounts
             /\ services[i].name = plan.services[i].name /\ services[i].overrides = plan.services[i].overrides
             /\ services[i].variables = plan.services[i].variables
  <2>1. IsService(plan.services[i])
    BY PlanHas
  <2>2. services[i] = Publishing(plan.services[i], host)
    BY <1>1
  <2> QED
    BY <1>2, <2>1, <2>2
<1>5. services = [i \in DOMAIN plan.services |-> services[i]]
  BY <1>1
<1> QED
  BY <1>3, <1>4, <1>5, ServicesChange

\* So does another address of a companion.
LEMMA CompanionChanges ==
  ASSUME NEW plan, IsPlan(plan), NEW service, NEW host
  PROVE  Like(set_companion_host(plan, service, host), plan)
<1>1. PICK services : services = [i \in DOMAIN plan.services |->
          IF plan.services[i].name = service THEN Accompanied(plan.services[i], host) ELSE plan.services[i]]
  OBVIOUS
<1>2. ASSUME NEW s, IsService(s)
      PROVE  /\ IsService(Accompanied(s, host)) /\ Accompanied(s, host).mounts = s.mounts
             /\ Accompanied(s, host).name = s.name /\ Accompanied(s, host).overrides = s.overrides
             /\ Accompanied(s, host).variables = s.variables
  <2>1. PICK new : new = AtHost(s.companion, host)
    OBVIOUS
  <2>2. (\A p, q \in new : p = q) /\ \A p \in new : "host" \in DOMAIN p
    BY <1>2, <2>1 DEF IsService, AtHost
  <2>3. Accompanied(s, host) = [s EXCEPT !.companion = new]
    BY <2>1 DEF Accompanied
  <2> QED
    BY <1>2, <2>2, <2>3 DEF IsService
<1>3. set_companion_host(plan, service, host) = [plan EXCEPT !.services = services]
  BY <1>1 DEF set_companion_host, EachService
<1>4. ASSUME NEW i \in DOMAIN plan.services
      PROVE  /\ IsService(services[i]) /\ services[i].mounts = plan.services[i].mounts
             /\ services[i].name = plan.services[i].name /\ services[i].overrides = plan.services[i].overrides
             /\ services[i].variables = plan.services[i].variables
  <2>1. IsService(plan.services[i])
    BY PlanHas
  <2>2. services[i] = Accompanied(plan.services[i], host) \/ services[i] = plan.services[i]
    BY <1>1
  <2> QED
    BY <1>2, <2>1, <2>2
<1>5. services = [i \in DOMAIN plan.services |-> services[i]]
  BY <1>1
<1> QED
  BY <1>3, <1>4, <1>5, ServicesChange

\* A service with other values.
LEMMA ValuesChange ==
  ASSUME NEW s, IsService(s), NEW values, DOMAIN values = DOMAIN s.environment
  PROVE  /\ IsService(WithValues(s, values)) /\ WithValues(s, values).mounts = s.mounts
         /\ SameService(WithValues(s, values), s)
BY DEF WithValues, IsService, SameService

\* The installer's values change values only.
LEMMA PlatformChanges ==
  ASSUME NEW plan, IsPlan(plan), NEW host
  PROVE  Like(fill_platform_values(plan, host), plan) /\ SameAddresses(fill_platform_values(plan, host), plan)
<1>1. PICK services : services = [i \in DOMAIN plan.services |->
          WithValues(plan.services[i], [j \in DOMAIN plan.services[i].environment |->
            [k \in DOMAIN plan.services[i].environment[j] |-> PlatformPart(plan, host, plan.services[i].environment[j][k])]])]
  OBVIOUS
<1>2. fill_platform_values(plan, host) = [plan EXCEPT !.services = services]
  BY <1>1 DEF fill_platform_values, MapValues, EachService
<1>3. ASSUME NEW i \in DOMAIN plan.services
      PROVE  /\ IsService(services[i]) /\ services[i].mounts = plan.services[i].mounts
             /\ SameService(services[i], plan.services[i])
  <2>1. IsService(plan.services[i])
    BY PlanHas
  <2>2. PICK values : values = [j \in DOMAIN plan.services[i].environment |->
            [k \in DOMAIN plan.services[i].environment[j] |-> PlatformPart(plan, host, plan.services[i].environment[j][k])]]
    OBVIOUS
  <2>3. services[i] = WithValues(plan.services[i], values)
    BY <1>1, <2>2
  <2>4. DOMAIN values = DOMAIN plan.services[i].environment
    BY <2>2
  <2> QED
    BY <2>1, <2>3, <2>4, ValuesChange
<1>4. services = [i \in DOMAIN plan.services |-> services[i]]
  BY <1>1
<1>5. Like([plan EXCEPT !.services = services], plan)
  BY <1>3, <1>4, ServicesChange DEF SameService
<1>6. SameAddresses([plan EXCEPT !.services = services], plan)
  <2>1. [plan EXCEPT !.services = services].services = services
    BY <1>3, <1>4, ServicesAre
  <2>2. DOMAIN services = DOMAIN plan.services
    BY <1>1
  <2> QED
    BY <1>3, <2>1, <2>2 DEF SameAddresses
<1> QED
  BY <1>2, <1>5, <1>6

\* So do a person's answers and the credentials.
LEMMA AnswersChange ==
  ASSUME NEW plan, IsPlan(plan), NEW given, NEW secrets
  PROVE  Like(Substitution(plan, given, secrets), plan) /\ SameAddresses(Substitution(plan, given, secrets), plan)
<1>1. PICK services : services = [i \in DOMAIN plan.services |->
          WithValues(plan.services[i], [j \in DOMAIN plan.services[i].environment |->
            substitute(plan.services[i].environment[j], given, secrets)])]
  OBVIOUS
<1>2. Substitution(plan, given, secrets) = [plan EXCEPT !.services = services]
  BY <1>1 DEF Substitution, MapValues, EachService
<1>3. ASSUME NEW i \in DOMAIN plan.services
      PROVE  /\ IsService(services[i]) /\ services[i].mounts = plan.services[i].mounts
             /\ SameService(services[i], plan.services[i])
  <2>1. IsService(plan.services[i])
    BY PlanHas
  <2>2. PICK values : values = [j \in DOMAIN plan.services[i].environment |->
            substitute(plan.services[i].environment[j], given, secrets)]
    OBVIOUS
  <2>3. services[i] = WithValues(plan.services[i], values)
    BY <1>1, <2>2
  <2>4. DOMAIN values = DOMAIN plan.services[i].environment
    BY <2>2
  <2> QED
    BY <2>1, <2>3, <2>4, ValuesChange
<1>4. services = [i \in DOMAIN plan.services |-> services[i]]
  BY <1>1
<1>5. Like([plan EXCEPT !.services = services], plan)
  BY <1>3, <1>4, ServicesChange DEF SameService
<1>6. SameAddresses([plan EXCEPT !.services = services], plan)
  <2>1. [plan EXCEPT !.services = services].services = services
    BY <1>3, <1>4, ServicesAre
  <2>2. DOMAIN services = DOMAIN plan.services
    BY <1>1
  <2> QED
    BY <1>3, <2>1, <2>2 DEF SameAddresses
<1> QED
  BY <1>2, <1>5, <1>6

\* Likeness goes on.
LEMMA LikeTwice ==
  ASSUME NEW first, NEW second, NEW third, Like(second, first), Like(third, second)
  PROVE  Like(third, first)
BY DEF Like

\* Where the addresses of an install are settled, nothing but addresses moves.
LEMMA SettlingIs ==
  ASSUME NEW t, Len(t.plan.services) \in Nat
  PROVE  /\ Settling(t)[0] = {[plan |-> set_published_host(t.plan, p), taken |-> {p}] : p \in MainPort(t)}
         /\ \A n \in 1..Len(t.plan.services) :
              Settling(t)[n] = UNION {WithCompanion(sofar, t.plan.services[n]) : sofar \in Settling(t)[n - 1]}
<1> DEFINE N == Len(t.plan.services)
           first == {[plan |-> set_published_host(t.plan, p), taken |-> {p}] : p \in MainPort(t)}
           Then(n, all) == UNION {WithCompanion(sofar, t.plan.services[n]) : sofar \in all}
           Is(g, n) == g = [i \in 0..n |-> IF i = 0 THEN first ELSE Then(i, g[i - 1])]
           S == {n \in Nat : \E g : Is(g, n)}
<1>0. N \in Nat
  OBVIOUS
<1> HIDE DEF first, Then, N
<1>1. 0 \in S
  <2>1. PICK g : g = [i \in 0..0 |-> first]
    OBVIOUS
  <2>2. Is(g, 0)
    BY <2>1
  <2> QED
    BY <2>2
<1>2. ASSUME NEW n \in Nat, n \in S PROVE n + 1 \in S
  <2>1. PICK g : Is(g, n)
    BY <1>2
  <2>2. PICK h : h = [i \in 0..(n + 1) |-> IF i = 0 THEN first ELSE Then(i, g[i - 1])]
    OBVIOUS
  <2>3. ASSUME NEW i \in 1..(n + 1) PROVE h[i - 1] = g[i - 1]
    <3>1. i - 1 \in 0..n /\ i - 1 \in 0..(n + 1)
      OBVIOUS
    <3> QED
      BY <2>1, <2>2, <3>1
  <2>4. ASSUME NEW i \in 0..(n + 1) PROVE h[i] = IF i = 0 THEN first ELSE Then(i, h[i - 1])
    <3>1. CASE i = 0
      BY <2>2, <3>1
    <3>2. CASE i # 0
      <4>1. i \in 1..(n + 1)
        BY <3>2
      <4> QED
        BY <2>2, <2>3, <3>2, <4>1
    <3> QED
      BY <3>1, <3>2
  <2>5. Is(h, n + 1)
    BY <2>2, <2>4
  <2> QED
    BY <2>5
<1>3. N \in S
  <2> HIDE DEF S
  <2>1. Nat \subseteq S
    BY <1>1, <1>2, StepByStep
  <2> QED
    BY <1>0, <2>1
<1>4. Is(Settling(t), N)
  <2>1. \E g : Is(g, N)
    BY <1>3
  <2>2. Settling(t) = CHOOSE g : Is(g, N)
    BY DEF Settling, Then, first, N
  <2> HIDE DEF Is
  <2> QED
    BY <2>1, <2>2
<1>5. Settling(t)[0] = first
  BY <1>0, <1>4
<1>6. ASSUME NEW n \in 1..N PROVE Settling(t)[n] = Then(n, Settling(t)[n - 1])
  <2>1. n \in 0..N /\ n # 0
    BY <1>0
  <2> QED
    BY <1>4, <2>1
<1> QED
  BY <1>5, <1>6 DEF first, Then, N

\* A settled plan is a plan like its template's, on free ports.
LEMMA SettledIsLike ==
  ASSUME NEW t, IsPlan(t.plan), NEW plan \in Settled(t)
  PROVE  Like(plan, t.plan)
<1> DEFINE N == Len(t.plan.services)
           S == {n \in Nat : n <= N => \A sofar \in Settling(t)[n] : Like(sofar.plan, t.plan)}
<1>1. N \in Nat
  BY PlanHas
<1>2. /\ Settling(t)[0] = {[plan |-> set_published_host(t.plan, p), taken |-> {p}] : p \in MainPort(t)}
      /\ \A n \in 1..N : Settling(t)[n] = UNION {WithCompanion(sofar, t.plan.services[n]) : sofar \in Settling(t)[n - 1]}
  BY <1>1, SettlingIs
<1>3. 0 \in S
  <2>1. ASSUME NEW sofar \in Settling(t)[0] PROVE Like(sofar.plan, t.plan)
    <3>1. PICK p : sofar.plan = set_published_host(t.plan, p)
      BY <1>2
    <3> QED
      BY <3>1, PublishedChanges
  <2> QED
    BY <2>1
<1>4. ASSUME NEW n \in Nat, n \in S PROVE n + 1 \in S
  <2>1. SUFFICES ASSUME n + 1 <= N, NEW after \in Settling(t)[n + 1] PROVE Like(after.plan, t.plan)
    OBVIOUS
  <2>2. n + 1 \in 1..N /\ n + 1 - 1 = n /\ n <= N
    BY <1>1, <2>1
  <2>3. PICK sofar \in Settling(t)[n] : after \in WithCompanion(sofar, t.plan.services[n + 1])
    BY <1>2, <2>1, <2>2
  <2>4. Like(sofar.plan, t.plan)
    BY <1>4, <2>2
  <2>5. CASE after = sofar
    BY <2>4, <2>5
  <2>6. CASE after # sofar
    <3>1. PICK service, p : after.plan = set_companion_host(sofar.plan, service, p)
      BY <2>3, <2>6 DEF WithCompanion
    <3>2. Like(after.plan, sofar.plan)
      BY <2>4, <3>1, CompanionChanges DEF Like
    <3> QED
      BY <2>4, <3>2, LikeTwice
  <2> QED
    BY <2>5, <2>6
<1>5. Nat \subseteq S
  <2> HIDE DEF S
  <2> QED
    BY <1>3, <1>4, StepByStep
<1>6. N \in S
  BY <1>1, <1>5
<1>7. PICK sofar \in Settling(t)[N] : plan = sofar.plan
  BY DEF Settled
<1> QED
  BY <1>1, <1>6, <1>7

\* What is said of the folders of a template is said of it with other addresses.
LEMMA AskedStays ==
  ASSUME NEW t, "plan" \in DOMAIN t, IsPlan(t.plan), FoldersAreAsked(t), NEW plan, Like(plan, t.plan)
  PROVE  LET other == [t EXCEPT !.plan = plan] IN other.plan = plan /\ IsPlan(other.plan) /\ FoldersAreAsked(other)
<1>1. PICK other : other = [t EXCEPT !.plan = plan]
  OBVIOUS
<1>2. other.plan = plan /\ other.fields = t.fields
  BY <1>1
<1>3. IsPlan(plan)
  BY DEF Like
<1>4. ASSUME NEW s \in Elements(plan.services)
      PROVE  \E r \in Elements(t.plan.services) : s.mounts = r.mounts
  BY <1>4 DEF Like, Elements
<1>5. ASSUME NEW s \in Elements(other.plan.services), NEW m \in Elements(s.mounts), m.kind = "host"
      PROVE  /\ m.source.root = "${"
             /\ {f.kind : f \in {g \in Elements(other.fields) : g.key = m.source.key}} = {"folder"}
  <2>1. PICK r \in Elements(t.plan.services) : s.mounts = r.mounts
    BY <1>2, <1>4
  <2>2. m \in Elements(r.mounts)
    BY <2>1
  <2>3. /\ m.source.root = "${"
        /\ {f.kind : f \in {g \in Elements(t.fields) : g.key = m.source.key}} = {"folder"}
    BY <1>5, <2>2 DEF FoldersAreAsked
  <2> QED
    BY <1>2, <2>3
<1>6. FoldersAreAsked(other)
  BY <1>5 DEF FoldersAreAsked
<1> QED
  BY <1>1, <1>2, <1>3, <1>6

\* An answer to a question for a folder is nothing, or a folder that may be shared.
LEMMA FolderAnswers ==
  ASSUME NEW f, f.kind = "folder", NEW answer, NEW v \in accept(f, answer)
  PROVE  v = <<>> \/ \E a : \E folder \in share_folder(a) : v = FolderPath(folder)
<1>1. PICK value : value = IF answer # {} THEN answer ELSE f.default
  OBVIOUS
<1>2. accept(f, answer) = IF value = {} THEN (IF f.required THEN {} ELSE {<<>>})
                          ELSE {FolderPath(g) : g \in UNION {share_folder(a) : a \in value}}
  BY <1>1 DEF accept
<1> QED
  BY <1>2

\* Every question for a folder that is shared was answered so.
LEMMA GivenIs ==
  ASSUME NEW t, FoldersAreAsked(t), NEW answers, NEW given \in accept_answers(t, answers),
         NEW s \in Elements(t.plan.services), NEW m \in Elements(s.mounts), m.kind = "host"
  PROVE  /\ m.source.root = "${"
         /\ given[m.source.key] = <<>> \/ \E a : \E folder \in share_folder(a) : given[m.source.key] = FolderPath(folder)
<1>1. PICK key : key = m.source.key
  OBVIOUS
<1>2. PICK asked : asked = {g \in Elements(t.fields) : g.key = key}
  OBVIOUS
<1>3. m.source.root = "${" /\ {f.kind : f \in asked} = {"folder"}
  BY <1>1, <1>2 DEF FoldersAreAsked
<1>4. PICK f \in asked : f.kind = "folder"
  BY <1>3
<1>5. \A g \in asked : g.kind = "folder"
  BY <1>3
<1>6. key \in {g.key : g \in Elements(t.fields)}
  BY <1>2, <1>4
<1>7. \A g \in Elements(t.fields) : accept(g, Answer(answers, g.key)) # {}
  BY DEF accept_answers
<1>8. given = [k \in {g.key : g \in Elements(t.fields)} |->
                 CHOOSE v \in UNION {accept(g, Answer(answers, k)) : g \in {h \in Elements(t.fields) : h.key = k}} : TRUE]
  BY DEF accept_answers
<1>9. given[key] = CHOOSE v \in UNION {accept(g, Answer(answers, key)) : g \in asked} : TRUE
  BY <1>2, <1>6, <1>8
<1>10. PICK g \in asked : given[key] \in accept(g, Answer(answers, key))
  <2>1. accept(f, Answer(answers, key)) # {}
    BY <1>2, <1>4, <1>7
  <2>2. PICK all : all = UNION {accept(g, Answer(answers, key)) : g \in asked}
    OBVIOUS
  <2>3. all # {}
    BY <1>4, <2>1, <2>2
  <2>4. given[key] \in all
    BY <1>9, <2>2, <2>3
  <2> QED
    BY <2>2, <2>4
<1>11. g.kind = "folder"
  BY <1>5
<1>12. given[key] = <<>> \/ \E a : \E folder \in share_folder(a) : given[key] = FolderPath(folder)
  BY <1>10, <1>11, FolderAnswers
<1> QED
  BY <1>1, <1>3, <1>12

\* What begins with a beginning begins with the whole of it.
LEMMA PrefixOfPrefix ==
  ASSUME NEW a \in Seq(STRING), NEW b \in Seq(STRING), NEW c \in Seq(STRING), IsPrefix(a, b), IsPrefix(b, c)
  PROVE  IsPrefix(a, c)
BY DEF IsPrefix

\* A folder that may be shared is one a person may give away.
LEMMA FolderIsSafe ==
  ASSUME NEW a, NEW folder \in share_folder(a)
  PROVE  /\ folder \in Folders /\ folder \notin DOMAIN Links
         /\ ~IsPrefix(folder, Home) /\ ~SomeOverlap(folder, Managed) /\ folder[1] \notin SystemRoots
<1>1. /\ folder = Resolved(a) /\ folder \in Folders /\ folder[1] \notin SystemRoots
      /\ ~SomeOverlap(folder, Managed)
  BY DEF share_folder
<1>2. folder \notin DOMAIN Links
  BY <1>1, ProvisionAssumption DEF Resolved, ProvisionAssumption
<1>3. ~IsPrefix(folder, Home)
  <2>1. SUFFICES ASSUME IsPrefix(folder, Home) PROVE FALSE
    OBVIOUS
  <2>2. folder \in Seq(STRING) /\ Home \in Seq(STRING) /\ Managed \in Seq(STRING) /\ IsPrefix(Home, Managed)
    BY <1>1, ProvisionAssumption DEF ProvisionAssumption
  <2>3. IsPrefix(folder, Managed)
    BY <2>1, <2>2, PrefixOfPrefix
  <2> QED
    BY <1>1, <2>3 DEF SomeOverlap
<1> QED
  BY <1>1, <1>2, <1>3

\* The folders of a plan, once answered, are safe to share.
LEMMA FolderMounts ==
  ASSUME NEW s, IsService(s), NEW given
  PROVE  LET mounts == [j \in DOMAIN s.mounts |-> WithAnswer(s.mounts[j], given)]
         IN /\ IsService(WithMounts(s, mounts)) /\ WithMounts(s, mounts).mounts = mounts
            /\ SameService(WithMounts(s, mounts), s)
<1>1. PICK mounts : mounts = [j \in DOMAIN s.mounts |-> WithAnswer(s.mounts[j], given)]
  OBVIOUS
<1>2. ASSUME NEW m, IsMount(m) PROVE IsMount(WithAnswer(m, given))
  <2>1. PICK source : WithAnswer(m, given) = [m EXCEPT !.source = source] \/ WithAnswer(m, given) = m
    BY DEF WithAnswer
  <2>2. PICK k \in {"directory", "volume", "host"} :
          m = [kind |-> k, source |-> m.source, target |-> m.target, readOnly |-> m.readOnly]
    BY <1>2 DEF IsMount
  <2>3. CASE WithAnswer(m, given) = m
    BY <1>2, <2>3
  <2>4. CASE WithAnswer(m, given) = [m EXCEPT !.source = source]
    <3>1. WithAnswer(m, given) = [kind |-> k, source |-> source, target |-> m.target, readOnly |-> m.readOnly]
      BY <2>2, <2>4
    <3> QED
      BY <3>1 DEF IsMount
  <2> QED
    BY <2>1, <2>3, <2>4
<1>3. \A j \in DOMAIN s.mounts : IsMount(mounts[j])
  BY <1>1, <1>2 DEF IsService
<1>4. DOMAIN mounts = DOMAIN s.mounts
  BY <1>1
<1>5. IsService(WithMounts(s, mounts)) /\ WithMounts(s, mounts).mounts = mounts
  BY <1>3, <1>4 DEF IsService, WithMounts
<1>6. SameService(WithMounts(s, mounts), s)
  BY DEF IsService, WithMounts, SameService
<1> QED
  BY <1>1, <1>5, <1>6

\* What a template resolves to is a plan, and it shares nothing but what was judged.
LEMMA ResolvedIs ==
  ASSUME NEW t, IsPlan(t.plan), FoldersAreAsked(t), NEW answers, NEW secrets, NEW plan \in resolve(t, answers, secrets)
  PROVE  IsPlan(plan) /\ SharesAreSafe(plan) /\ SameAddresses(plan, t.plan)
<1>1. PICK given \in accept_answers(t, answers) :
        /\ plan = WithFolders(Substitution(t.plan, given, secrets), given)
        /\ validate(plan)
  BY DEF resolve
<1>2. PICK filled : filled = Substitution(t.plan, given, secrets)
  OBVIOUS
<1>3. Like(filled, t.plan) /\ IsPlan(filled) /\ SameAddresses(filled, t.plan)
  BY <1>2, AnswersChange DEF Like
<1>4. PICK services : services = [i \in DOMAIN filled.services |->
          WithMounts(filled.services[i], [j \in DOMAIN filled.services[i].mounts |-> WithAnswer(filled.services[i].mounts[j], given)])]
  OBVIOUS
<1>5. plan = [filled EXCEPT !.services = services]
  BY <1>1, <1>2, <1>4 DEF WithFolders, EachService
<1>6. ASSUME NEW i \in DOMAIN filled.services
      PROVE  /\ IsService(services[i])
             /\ services[i].mounts = [j \in DOMAIN filled.services[i].mounts |-> WithAnswer(filled.services[i].mounts[j], given)]
             /\ SameService(services[i], filled.services[i])
  <2>1. IsService(filled.services[i])
    BY <1>3, PlanHas
  <2> QED
    BY <1>4, <2>1, FolderMounts
<1>7. services = [i \in DOMAIN filled.services |-> services[i]]
  BY <1>4
<1>8. IsPlan(plan) /\ plan.services = services
  BY <1>3, <1>5, <1>6, <1>7, ServicesAre
<1>9. ASSUME NEW s \in Elements(plan.services), NEW n \in Elements(s.mounts), n.kind = "host"
      PROVE  /\ n.source.names \in Folders /\ n.source.names \notin DOMAIN Links
             /\ ~IsPrefix(n.source.names, Home) /\ ~SomeOverlap(n.source.names, Managed)
             /\ n.source.names[1] \notin SystemRoots
  <2>1. PICK i \in DOMAIN filled.services : s = services[i]
    BY <1>4, <1>8 DEF Elements
  <2>2. PICK r : r = t.plan.services[i]
    OBVIOUS
  <2>3. r \in Elements(t.plan.services) /\ filled.services[i].mounts = r.mounts
    BY <1>3, <2>2 DEF Like, Elements
  <2>4. s.mounts = [j \in DOMAIN r.mounts |-> WithAnswer(r.mounts[j], given)]
    BY <1>6, <2>1, <2>3
  <2>5. PICK j \in DOMAIN r.mounts : n = WithAnswer(r.mounts[j], given)
    BY <2>4 DEF Elements
  <2>6. PICK m : m = r.mounts[j]
    OBVIOUS
  <2>7. m \in Elements(r.mounts)
    BY <2>6 DEF Elements
  <2>8. IsMount(m)
    BY <2>2, <2>3, <2>6, PlanHas DEF IsService
  <2>9. m.kind = "host"
    BY <1>9, <2>5, <2>6, <2>8 DEF WithAnswer, IsMount
  <2>10. /\ m.source.root = "${"
         /\ given[m.source.key] = <<>> \/ \E a : \E folder \in share_folder(a) : given[m.source.key] = FolderPath(folder)
    BY <2>3, <2>7, <2>9, GivenIs
  <2>11. n = [m EXCEPT !.source = IF given[m.source.key] = <<>> THEN [root |-> "", names |-> <<>>] ELSE given[m.source.key]]
    BY <2>5, <2>6, <2>9, <2>10 DEF WithAnswer
  <2>12. n.source = IF given[m.source.key] = <<>> THEN [root |-> "", names |-> <<>>] ELSE given[m.source.key]
    BY <2>8, <2>11 DEF IsMount
  <2>13. MountIsSound(n)
    BY <1>1, <1>9 DEF validate, ServiceIsSound
  <2>14. n.source.root = "${" \/ n.source.root # ""
    BY <1>9, <2>13 DEF MountIsSound, Absolute
  <2>15. given[m.source.key] # <<>>
    <3>1. SUFFICES ASSUME given[m.source.key] = <<>> PROVE FALSE
      OBVIOUS
    <3>2. n.source = [root |-> "", names |-> <<>>]
      BY <2>12, <3>1
    <3>3. n.source.root = ""
      <4>1. \A x : [root |-> x, names |-> <<>>].root = x
        OBVIOUS
      <4> QED
        BY <3>2, <4>1, Zenon
    <3>4. "" # "${"
      BY Zenon
    <3> QED
      BY <2>14, <3>3, <3>4, Zenon
  <2>16. PICK a : \E folder \in share_folder(a) : n.source = FolderPath(folder)
    BY <2>10, <2>12, <2>15
  <2>17. PICK folder \in share_folder(a) : n.source = FolderPath(folder)
    BY <2>16
  <2>18. n.source.names = folder
    BY <2>17 DEF FolderPath
  <2> QED
    BY <2>18, FolderIsSafe
<1>10. SharesAreSafe(plan)
  BY <1>9 DEF SharesAreSafe
<1>11. SameAddresses(plan, t.plan)
  <2>1. DOMAIN services = DOMAIN filled.services
    BY <1>4
  <2>2. DOMAIN filled.services = DOMAIN t.plan.services
    BY <1>3 DEF SameAddresses
  <2>3. ASSUME NEW i \in DOMAIN t.plan.services PROVE SameService(services[i], t.plan.services[i])
    <3>1. SameService(services[i], filled.services[i])
      BY <1>6, <2>2
    <3>2. SameService(filled.services[i], t.plan.services[i])
      BY <1>3 DEF SameAddresses
    <3> QED
      BY <3>1, <3>2 DEF SameService
  <2> QED
    BY <1>8, <2>1, <2>2, <2>3 DEF SameAddresses
<1> QED
  BY <1>8, <1>10, <1>11

\* What an install prepares is a plan that passed its checks, over a settled one.
LEMMA PreparedIs ==
  ASSUME NEW t, "plan" \in DOMAIN t, IsPlan(t.plan), FoldersAreAsked(t), NEW answers, NEW plan \in Prepared(t, answers)
  PROVE  /\ IsPlan(plan) /\ SharesAreSafe(plan) /\ validate(plan)
         /\ \E settled \in Settled(t) : Like(settled, t.plan) /\ SameAddresses(plan, settled)
<1>1. PICK settled \in Settled(t) :
        plan \in resolve([t EXCEPT !.plan = fill_platform_values(settled, MainHost(settled))], answers, SecretsOf(t))
  BY DEF Prepared
<1>2. Like(settled, t.plan)
  BY SettledIsLike
<1>3. PICK filled : filled = fill_platform_values(settled, MainHost(settled))
  OBVIOUS
<1>4. Like(filled, t.plan) /\ SameAddresses(filled, settled)
  <2>1. IsPlan(settled)
    BY <1>2 DEF Like
  <2> QED
    BY <1>2, <1>3, <2>1, PlatformChanges, LikeTwice
<1>5. PICK other : other = [t EXCEPT !.plan = filled]
  OBVIOUS
<1>6. IsPlan(other.plan) /\ FoldersAreAsked(other)
  BY <1>4, <1>5, AskedStays
<1>7. PICK secrets : secrets = SecretsOf(t)
  OBVIOUS
<1>8. plan \in resolve(other, answers, secrets)
  BY <1>1, <1>3, <1>5, <1>7
<1>9. IsPlan(plan) /\ SharesAreSafe(plan) /\ SameAddresses(plan, other.plan)
  BY <1>6, <1>8, ResolvedIs
<1>10. validate(plan)
  BY <1>8 DEF resolve
<1>11. other.plan = filled
  BY <1>4, <1>5, AskedStays
<1>12. SameAddresses(plan, settled)
  BY <1>4, <1>9, <1>11 DEF SameAddresses, SameService
<1> QED
  BY <1>2, <1>9, <1>10, <1>12

\* What runs was written from a plan that passed its checks.
InstalledInv ==
  /\ revision \in DOMAIN Templates
  /\ \A r \in running : IsPlan(r.plan) /\ r.file \in to_compose(r.plan) /\ PortsAreFree(r.plan) /\ SharesAreSafe(r.plan)

\* No step makes anything else run.
LEMMA InstalledSteps ==
  ASSUME InstalledInv, [ProvisionNext]_provisionVars
  PROVE  InstalledInv'
<1>1. ASSUME NEW answers \in SomeAnswers, Install(answers) PROVE InstalledInv'
  <2>1. PICK plan \in Prepared(template, answers) :
          /\ PortsAreFree(plan)
          /\ \E file \in to_compose(plan) :
               running' = {[plan |-> plan, file |-> file, template |-> template, answers |-> answers]}
    BY <1>1 DEF Install
  <2>2. PICK file \in to_compose(plan) :
          running' = {[plan |-> plan, file |-> file, template |-> template, answers |-> answers]}
    BY <2>1
  <2>3. IsPlan(plan) /\ SharesAreSafe(plan)
    BY <2>1, PreparedIs, ProvisionAssumption DEF template, ProvisionAssumption, InstalledInv
  <2>4. revision' = revision /\ busy' = busy
    BY <1>1 DEF Install
  <2>5. PortsAreFree(plan)'
    BY <2>1, <2>4 DEF PortsAreFree, Free
  <2>6. \A r \in running' : r.plan = plan /\ r.file = file
    BY <2>2
  <2> QED
    BY <2>2, <2>3, <2>4, <2>5, <2>6 DEF InstalledInv, PortsAreFree, Free
<1>2. ASSUME NEW port \in Ports, OtherPrograms(port) PROVE InstalledInv'
  <2>1. running' = running /\ revision' = revision
        /\ busy' = IF port \in busy THEN busy \ {port} ELSE busy \cup {port}
    BY <1>2 DEF OtherPrograms
  <2>2. ASSUME NEW r \in running PROVE PortsAreFree(r.plan)'
    <3>1. port \notin {p.host : p \in UNION {s.ports : s \in Elements(r.file.services)}}
      BY <1>2 DEF OtherPrograms
    <3>2. IsOf(r.file, r.plan)
      BY ComposeIsOf DEF InstalledInv
    <3>3. ASSUME NEW s \in Elements(r.plan.services), NEW p \in s.published \cup s.companion
          PROVE  p.host \in (FirstPort..LastPort) \ busy'
      <4>1. PICK i \in DOMAIN r.plan.services : s = r.plan.services[i]
        BY DEF Elements
      <4>2. r.file.services[i] \in Elements(r.file.services) /\ p \in r.file.services[i].ports
        BY <3>2, <3>3, <4>1 DEF IsOf, Elements
      <4>3. p.host # port
        BY <3>1, <4>2
      <4>4. p.host \in (FirstPort..LastPort) \ busy
        BY <3>3 DEF InstalledInv, PortsAreFree, Free
      <4> QED
        BY <2>1, <4>3, <4>4
    <3> QED
      BY <3>3 DEF PortsAreFree, Free
  <2> QED
    BY <2>1, <2>2 DEF InstalledInv
<1>3. CASE UNCHANGED provisionVars
  BY <1>3 DEF InstalledInv, PortsAreFree, Free, provisionVars
<1>4. ASSUME NEW deleteData \in BOOLEAN, Uninstall(deleteData) PROVE InstalledInv'
  BY <1>4 DEF Uninstall, InstalledInv
<1>5. CASE Revise
  BY <1>5 DEF Revise, InstalledInv
<1> QED
  BY <1>1, <1>2, <1>3, <1>4, <1>5 DEF ProvisionNext

-----------------------------------------------------------------------------
\* The addresses of a plan, read back from its file.

LongAt(s) == IF s.published = {} THEN 2 ELSE 3
ShortLine(s) == [line |-> "short", text |-> (CHOOSE p \in s.published : TRUE).host]
LongLine(s) == [line |-> "long", text |-> (CHOOSE p \in s.companion : TRUE).host]

\* The lines of a service that look like an address are its own.
OwnLines(s) ==
  /\ \A j \in DOMAIN AddressLines(s) :
       /\ AddressLines(s)[j].line = "short" <=> s.published # {} /\ j = 2
       /\ AddressLines(s)[j].line = "long" <=> s.companion # {} /\ j = LongAt(s)
  /\ s.published # {} => 2 \in DOMAIN AddressLines(s) /\ AddressLines(s)[2] = ShortLine(s)
  /\ s.companion # {} => LongAt(s) \in DOMAIN AddressLines(s) /\ AddressLines(s)[LongAt(s)] = LongLine(s)

\* None of its variables and arguments looks like one.
Plain(s) ==
  /\ s.overrides.arguments \in Seq(Elements(s.overrides.arguments))
  /\ \A l \in Elements(s.overrides.arguments) : l.line \notin {"short", "long"}
  /\ s.variables \in Seq(Elements(s.variables)) /\ "published" \notin Elements(s.variables)

LEMMA LinesAre ==
  ASSUME NEW s, Plain(s)
  PROVE  OwnLines(s)
<1> USE DEF Plain
<1> DEFINE a == VariableLines(s) \o s.overrides.arguments
<1>1. PICK main : main = [line |-> "service", text |-> s.name]
  OBVIOUS
<1>2. PICK short : short = ShortLine(s)
  OBVIOUS
<1>3. PICK long : long = LongLine(s)
  OBVIOUS
<1>4. AddressLines(s) = <<main>> \o (IF s.published = {} THEN <<>> ELSE <<short>>)
                          \o (IF s.companion = {} THEN <<>> ELSE <<long>>) \o a
  BY <1>1, <1>2, <1>3 DEF AddressLines, ShortLine, LongLine
<1>5. main.line = "service" /\ short.line = "short" /\ long.line = "long"
  BY <1>1, <1>2, <1>3 DEF ShortLine, LongLine
<1>6. PICK M : a \in Seq(M) /\ \A k \in DOMAIN a : a[k].line # "short" /\ a[k].line # "long"
  <2> DEFINE v == VariableLines(s)
             M == Elements(s.overrides.arguments) \cup {v[j] : j \in DOMAIN v}
  <2>1. /\ DOMAIN v = DOMAIN s.variables /\ Len(s.variables) \in Nat
        /\ DOMAIN s.variables = 1..Len(s.variables)
        /\ \A j \in DOMAIN v : v[j].line = "variable"
    BY DEF VariableLines, VariableLine, Elements
  <2>2. v \in Seq(M) /\ s.overrides.arguments \in Seq(M)
    <3> HIDE DEF v
    <3>1. v = [j \in 1..Len(s.variables) |-> v[j]]
      BY <2>1 DEF v, VariableLines
    <3> QED
      BY <2>1, <3>1
  <2>3. \A k \in DOMAIN s.overrides.arguments :
          s.overrides.arguments[k].line # "short" /\ s.overrides.arguments[k].line # "long"
    BY DEF Elements
  <2> HIDE DEF v, M
  <2>4. v \o s.overrides.arguments \in Seq(M)
    BY <2>2
  <2>5. \A k \in DOMAIN (v \o s.overrides.arguments) :
          /\ (v \o s.overrides.arguments)[k].line # "short"
          /\ (v \o s.overrides.arguments)[k].line # "long"
    BY <2>1, <2>2, <2>3
  <2> QED
    BY <2>4, <2>5 DEF v
<1> HIDE DEF a
<1>7. CASE s.published = {} /\ s.companion = {}
  <2>1. AddressLines(s) = <<main>> \o a
    BY <1>4, <1>6, <1>7
  <2> QED
    BY <2>1, <1>5, <1>6, <1>7 DEF LongAt, OwnLines
<1>8. CASE s.published # {} /\ s.companion = {}
  <2>1. AddressLines(s) = <<main, short>> \o a
    BY <1>4, <1>6, <1>8
  <2> QED
    BY <2>1, <1>2, <1>5, <1>6, <1>8 DEF LongAt, OwnLines
<1>9. CASE s.published = {} /\ s.companion # {}
  <2>1. AddressLines(s) = <<main, long>> \o a
    BY <1>4, <1>6, <1>9
  <2> QED
    BY <2>1, <1>3, <1>5, <1>6, <1>9 DEF LongAt, OwnLines
<1>10. CASE s.published # {} /\ s.companion # {}
  <2>1. AddressLines(s) = <<main, short, long>> \o a
    BY <1>4, <1>6, <1>10
  <2> QED
    BY <2>1, <1>2, <1>3, <1>5, <1>6, <1>10 DEF LongAt, OwnLines
<1> QED
  BY <1>7, <1>8, <1>9, <1>10

\* A set of one number has one element.
LEMMA OnlyOne ==
  ASSUME NEW N \in Nat, NEW S, S \subseteq 1..N, Cardinality(S) = 1
  PROVE  \E i \in S : S = {i}
<1>1. IsFiniteSet(1..N)
  BY FS_Interval
<1>2. IsFiniteSet(S)
  BY <1>1, FS_Subset
<1> QED
  BY <1>2, FS_Singleton

\* A place of a line is a service and a line under it.
LEMMA PlacesAre ==
  ASSUME NEW file
  PROVE  /\ \A at \in DOMAIN Lines(file) :
              \E i \in DOMAIN file.services : \E j \in DOMAIN file.services[i].lines : at = <<i, j>>
         /\ \A i \in DOMAIN file.services : \A j \in DOMAIN file.services[i].lines :
              <<i, j>> \in DOMAIN Lines(file) /\ Lines(file)[<<i, j>>] = file.services[i].lines[j]
BY DEF Lines

\* What is written for a plan, of names and addresses.
LEMMA ComposeLines ==
  ASSUME NEW plan, IsPlan(plan), NEW file \in to_compose(plan)
  PROVE  /\ DOMAIN file.services = DOMAIN plan.services
         /\ \A i \in DOMAIN plan.services :
              file.services[i].name = plan.services[i].name /\ file.services[i].lines = AddressLines(plan.services[i])
<1>0. file = [services |-> [i \in DOMAIN plan.services |-> Written(plan, plan.services[i], LAMBDA m : m)],
              volumes |-> Elements(plan.volumes), internal |-> Elements(plan.networks)]
  BY DEF to_compose, to_compose_with_mounts
<1>1. file.services = [i \in DOMAIN plan.services |-> Written(plan, plan.services[i], LAMBDA m : m)]
  BY <1>0
<1>2. ASSUME NEW i \in DOMAIN plan.services
      PROVE  file.services[i].name = plan.services[i].name /\ file.services[i].lines = AddressLines(plan.services[i])
  <2>1. file.services[i] = Written(plan, plan.services[i], LAMBDA m : m)
    BY <1>1
  <2> QED
    BY <2>1 DEF Written
<1> QED
  BY <1>1, <1>2

\* The lines of a file that look like addresses are those of its plan.
LEMMA LooksAre ==
  ASSUME NEW plan, IsPlan(plan), NoLookalikes(plan), NEW file \in to_compose(plan)
  PROVE  /\ LinesLike(file, "short") = {<<i, 2>> : i \in {k \in DOMAIN plan.services : plan.services[k].published # {}}}
         /\ LinesLike(file, "long")
              = {<<i, LongAt(plan.services[i])>> : i \in {k \in DOMAIN plan.services : plan.services[k].companion # {}}}
         /\ \A i \in DOMAIN plan.services :
              /\ plan.services[i].published # {} => Lines(file)[<<i, 2>>] = ShortLine(plan.services[i])
              /\ plan.services[i].companion # {} => Lines(file)[<<i, LongAt(plan.services[i])>>] = LongLine(plan.services[i])
<1>1. /\ DOMAIN file.services = DOMAIN plan.services
      /\ \A i \in DOMAIN plan.services : file.services[i].lines = AddressLines(plan.services[i])
  BY ComposeLines
<1>2. ASSUME NEW i \in DOMAIN plan.services
      PROVE  OwnLines(plan.services[i])
  <2>1. Plain(plan.services[i])
    BY DEF NoLookalikes, Plain
  <2> QED
    BY <2>1, LinesAre
<1>3. /\ \A at \in DOMAIN Lines(file) : \E i \in DOMAIN plan.services : \E j \in DOMAIN AddressLines(plan.services[i]) : at = <<i, j>>
      /\ \A i \in DOMAIN plan.services : \A j \in DOMAIN AddressLines(plan.services[i]) :
           <<i, j>> \in DOMAIN Lines(file) /\ Lines(file)[<<i, j>>] = AddressLines(plan.services[i])[j]
  <2>1. ASSUME NEW at \in DOMAIN Lines(file)
        PROVE  \E i \in DOMAIN plan.services : \E j \in DOMAIN AddressLines(plan.services[i]) : at = <<i, j>>
    <3>1. PICK i \in DOMAIN file.services : \E j \in DOMAIN file.services[i].lines : at = <<i, j>>
      BY PlacesAre
    <3>2. i \in DOMAIN plan.services /\ file.services[i].lines = AddressLines(plan.services[i])
      BY <1>1
    <3> QED
      BY <3>1, <3>2
  <2>2. ASSUME NEW i \in DOMAIN plan.services, NEW j \in DOMAIN AddressLines(plan.services[i])
        PROVE  <<i, j>> \in DOMAIN Lines(file) /\ Lines(file)[<<i, j>>] = AddressLines(plan.services[i])[j]
    <3>1. i \in DOMAIN file.services /\ file.services[i].lines = AddressLines(plan.services[i])
      BY <1>1
    <3> QED
      BY <3>1, PlacesAre
  <2> QED
    BY <2>1, <2>2
<1>4. ASSUME NEW at \in LinesLike(file, "short")
      PROVE  at \in {<<i, 2>> : i \in {k \in DOMAIN plan.services : plan.services[k].published # {}}}
  <2>1. at \in DOMAIN Lines(file) /\ Lines(file)[at].line = "short"
    BY DEF LinesLike
  <2>2. PICK i \in DOMAIN plan.services : \E j \in DOMAIN AddressLines(plan.services[i]) : at = <<i, j>>
    BY <1>3, <2>1
  <2>3. PICK j \in DOMAIN AddressLines(plan.services[i]) : at = <<i, j>>
    BY <2>2
  <2>4. AddressLines(plan.services[i])[j].line = "short"
    BY <1>3, <2>1, <2>3
  <2> QED
    BY <1>2, <2>3, <2>4 DEF OwnLines
<1>5. ASSUME NEW i \in DOMAIN plan.services, plan.services[i].published # {}
      PROVE  <<i, 2>> \in LinesLike(file, "short") /\ Lines(file)[<<i, 2>>] = ShortLine(plan.services[i])
  <2>1. <<i, 2>> \in DOMAIN Lines(file) /\ Lines(file)[<<i, 2>>] = ShortLine(plan.services[i])
    BY <1>2, <1>3, <1>5 DEF OwnLines
  <2> QED
    BY <2>1 DEF LinesLike, ShortLine
<1>6. ASSUME NEW at \in LinesLike(file, "long")
      PROVE  at \in {<<i, LongAt(plan.services[i])>> : i \in {k \in DOMAIN plan.services : plan.services[k].companion # {}}}
  <2>1. at \in DOMAIN Lines(file) /\ Lines(file)[at].line = "long"
    BY DEF LinesLike
  <2>2. PICK i \in DOMAIN plan.services : \E j \in DOMAIN AddressLines(plan.services[i]) : at = <<i, j>>
    BY <1>3, <2>1
  <2>3. PICK j \in DOMAIN AddressLines(plan.services[i]) : at = <<i, j>>
    BY <2>2
  <2>4. AddressLines(plan.services[i])[j].line = "long"
    BY <1>3, <2>1, <2>3
  <2> QED
    BY <1>2, <2>3, <2>4 DEF OwnLines
<1>7. ASSUME NEW i \in DOMAIN plan.services, plan.services[i].companion # {}
      PROVE  /\ <<i, LongAt(plan.services[i])>> \in LinesLike(file, "long")
             /\ Lines(file)[<<i, LongAt(plan.services[i])>>] = LongLine(plan.services[i])
  <2>1. /\ <<i, LongAt(plan.services[i])>> \in DOMAIN Lines(file)
        /\ Lines(file)[<<i, LongAt(plan.services[i])>>] = LongLine(plan.services[i])
    BY <1>2, <1>3, <1>7 DEF OwnLines
  <2> QED
    BY <2>1 DEF LinesLike, LongLine
<1> QED
  BY <1>4, <1>5, <1>6, <1>7

\* The addresses of a plan, as they are read back.
LEMMA AddressesRead ==
  ASSUME NEW plan, IsPlan(plan), NoLookalikes(plan), NEW file \in to_compose(plan)
  PROVE  /\ published_host_port(file) = {p.host : p \in published(plan)}
         /\ companion_host_ports(file) = {<<s.name, (CHOOSE p \in s.companion : TRUE).host>> : s \in companions(plan)}
<1>1. /\ LinesLike(file, "short") = {<<i, 2>> : i \in {k \in DOMAIN plan.services : plan.services[k].published # {}}}
      /\ LinesLike(file, "long")
           = {<<i, LongAt(plan.services[i])>> : i \in {k \in DOMAIN plan.services : plan.services[k].companion # {}}}
      /\ \A i \in DOMAIN plan.services :
           /\ plan.services[i].published # {} => Lines(file)[<<i, 2>>] = ShortLine(plan.services[i])
           /\ plan.services[i].companion # {} => Lines(file)[<<i, LongAt(plan.services[i])>>] = LongLine(plan.services[i])
  BY LooksAre
<1>2. validate(plan)
  BY ComposeIsOf
<1>3. Len(plan.services) \in Nat /\ DOMAIN plan.services = 1..Len(plan.services)
      /\ \A i \in DOMAIN plan.services : IsService(plan.services[i])
  BY PlanHas
<1>4. PICK i \in DOMAIN plan.services : {k \in DOMAIN plan.services : plan.services[k].published # {}} = {i}
  <2>1. Cardinality({k \in DOMAIN plan.services : plan.services[k].published # {}}) = 1
    BY <1>2 DEF validate, AddressesAreSound
  <2> QED
    BY <1>3, <2>1, OnlyOne
<1>5. published_host_port(file) = {p.host : p \in published(plan)}
  <2>1. LinesLike(file, "short") = {<<i, 2>>}
    BY <1>1, <1>4
  <2>2. i \in Nat
    BY <1>3
  <2>3. {first \in LinesLike(file, "short") : \A other \in LinesLike(file, "short") : Before(first, other)} = {<<i, 2>>}
    BY <2>1, <2>2 DEF Before
  <2>4. published_host_port(file) = {Lines(file)[<<i, 2>>].text}
    BY <2>3 DEF published_host_port
  <2>5. PICK p \in plan.services[i].published : TRUE
    BY <1>4
  <2>6. plan.services[i].published = {p}
    BY <1>3, <2>5 DEF IsService
  <2>7. published(plan) = {p}
    BY <1>4, <2>6 DEF published, Elements
  <2>8. Lines(file)[<<i, 2>>].text = p.host
    <3>1. Lines(file)[<<i, 2>>] = ShortLine(plan.services[i])
      BY <1>1, <2>5
    <3>2. PICK q : q = CHOOSE r \in plan.services[i].published : TRUE
      OBVIOUS
    <3>3. q = p
      BY <2>6, <3>2
    <3>4. ShortLine(plan.services[i]) = [line |-> "short", text |-> q.host]
      BY <3>2 DEF ShortLine
    <3>5. ShortLine(plan.services[i]).text = q.host
      BY <3>4
    <3> QED
      BY <3>1, <3>3, <3>5
  <2> QED
    BY <2>4, <2>7, <2>8
<1>6. companion_host_ports(file) = {<<s.name, (CHOOSE p \in s.companion : TRUE).host>> : s \in companions(plan)}
  <2> DEFINE with == {k \in DOMAIN plan.services : plan.services[k].companion # {}}
             long == LinesLike(file, "long")
  <2>1. long = {<<k, LongAt(plan.services[k])>> : k \in with}
    BY <1>1
  <2>2. \A k \in with : LongAt(plan.services[k]) \in Nat
    BY DEF LongAt
  <2> HIDE DEF long
  <2>3. {last \in long : \A other \in long : other[1] = last[1] => other[2] <= last[2]} = long
    BY <2>1, <2>2
  <2>4. companion_host_ports(file) = {<<file.services[at[1]].name, Lines(file)[at].text>> : at \in long}
    BY <2>3 DEF companion_host_ports, long
  <2>5. ASSUME NEW k \in with
        PROVE  /\ file.services[k].name = plan.services[k].name
               /\ Lines(file)[<<k, LongAt(plan.services[k])>>].text = (CHOOSE p \in plan.services[k].companion : TRUE).host
               /\ plan.services[k] \in companions(plan)
    <3>1. Lines(file)[<<k, LongAt(plan.services[k])>>] = LongLine(plan.services[k])
      BY <1>1
    <3>2. PICK host : host = (CHOOSE p \in plan.services[k].companion : TRUE).host
      OBVIOUS
    <3>3. LongLine(plan.services[k]) = [line |-> "long", text |-> host]
      BY <3>2 DEF LongLine
    <3>4. LongLine(plan.services[k]).text = host
      BY <3>3
    <3>5. file.services[k].name = plan.services[k].name
      BY ComposeLines
    <3>6. plan.services[k] \in companions(plan)
      BY DEF companions, Elements
    <3> QED
      BY <3>1, <3>2, <3>4, <3>5, <3>6
  <2>6. \A s \in companions(plan) : \E k \in with : s = plan.services[k]
    BY DEF companions, Elements
  <2> HIDE DEF with
  <2>7. ASSUME NEW pair \in companion_host_ports(file)
        PROVE  pair \in {<<s.name, (CHOOSE p \in s.companion : TRUE).host>> : s \in companions(plan)}
    <3>1. PICK k \in with : pair = <<file.services[<<k, LongAt(plan.services[k])>>[1]].name, Lines(file)[<<k, LongAt(plan.services[k])>>].text>>
      BY <2>1, <2>4
    <3>2. pair = <<file.services[k].name, Lines(file)[<<k, LongAt(plan.services[k])>>].text>>
      BY <3>1
    <3> QED
      BY <2>5, <3>2
  <2>8. ASSUME NEW s \in companions(plan)
        PROVE  <<s.name, (CHOOSE p \in s.companion : TRUE).host>> \in companion_host_ports(file)
    <3>1. PICK k \in with : s = plan.services[k]
      BY <2>6
    <3>2. PICK at : at = <<k, LongAt(plan.services[k])>>
      OBVIOUS
    <3>3. at \in long /\ at[1] = k
      BY <2>1, <3>2
    <3>4. <<file.services[k].name, Lines(file)[at].text>> \in companion_host_ports(file)
      BY <2>4, <3>3
    <3> QED
      BY <2>5, <3>1, <3>2, <3>4
  <2> QED
    BY <2>7, <2>8
<1> QED
  BY <1>5, <1>6

\* A plan that passes its checks comes up, and its addresses read back as its own,
\* unless a variable or an argument looks like one.
THEOREM EveryPlanIsRight ==
  ASSUME NEW plan, IsPlan(plan), NoLookalikes(plan)
  PROVE  PlanIsRight(plan)
BY AddressesRead, EveryPlanComesUp DEF PlanIsRight

-----------------------------------------------------------------------------
\* The addresses of an install over an earlier one.

\* The address of a service where an earlier install was, if it had one.
HadOf(name) == {pair[2] : pair \in {q \in UNION {companion_host_ports(file) : file \in kept} : q[1] = name}}

\* Each change of an address, service by service.
LEMMA HostsMove ==
  ASSUME NEW ports, \A p \in ports : "host" \in DOMAIN p, NEW host
  PROVE  /\ \A p \in AtHost(ports, host) : p.host = host
         /\ AtHost(ports, host) = {} <=> ports = {}
BY DEF AtHost

\* The main address of one service, as it is moved.
LEMMA PublishedIs ==
  ASSUME NEW plan, IsPlan(plan), NEW host, NEW i \in DOMAIN plan.services
  PROVE  LET s == set_published_host(plan, host).services[i]
         IN /\ (\A p \in s.published : p.host = host) /\ s.companion = plan.services[i].companion
            /\ s.environment = plan.services[i].environment
<1>1. PICK services : services = [k \in DOMAIN plan.services |-> Publishing(plan.services[k], host)]
  OBVIOUS
<1>2. set_published_host(plan, host) = [plan EXCEPT !.services = services]
  BY <1>1 DEF set_published_host, EachService
<1>3. set_published_host(plan, host).services[i] = Publishing(plan.services[i], host)
  BY <1>1, <1>2 DEF IsPlan
<1>4. IsService(plan.services[i])
  BY PlanHas
<1>5. PICK new : new = AtHost(plan.services[i].published, host)
  OBVIOUS
<1>6. \A p \in new : p.host = host
  BY <1>4, <1>5, HostsMove DEF IsService
<1>7. Publishing(plan.services[i], host) = [plan.services[i] EXCEPT !.published = new]
  BY <1>5 DEF Publishing
<1>8. /\ Publishing(plan.services[i], host).published = new
      /\ Publishing(plan.services[i], host).companion = plan.services[i].companion
      /\ Publishing(plan.services[i], host).environment = plan.services[i].environment
  BY <1>4, <1>7 DEF IsService
<1> QED
  BY <1>3, <1>6, <1>8

\* The second address of one service, as it is moved.
LEMMA CompanionIs ==
  ASSUME NEW plan, IsPlan(plan), NEW service, NEW host, NEW i \in DOMAIN plan.services
  PROVE  LET s == set_companion_host(plan, service, host).services[i]
         IN /\ s.published = plan.services[i].published /\ s.environment = plan.services[i].environment
            /\ plan.services[i].companion = {} => s.companion = {}
            /\ plan.services[i].name # service => s.companion = plan.services[i].companion
            /\ plan.services[i].name = service => \A p \in s.companion : p.host = host
<1>1. PICK services : services = [k \in DOMAIN plan.services |->
          IF plan.services[k].name = service THEN Accompanied(plan.services[k], host) ELSE plan.services[k]]
  OBVIOUS
<1>2. set_companion_host(plan, service, host) = [plan EXCEPT !.services = services]
  BY <1>1 DEF set_companion_host, EachService
<1>3. set_companion_host(plan, service, host).services[i]
        = IF plan.services[i].name = service THEN Accompanied(plan.services[i], host) ELSE plan.services[i]
  BY <1>1, <1>2 DEF IsPlan
<1>4. IsService(plan.services[i])
  BY PlanHas
<1>5. PICK new : new = AtHost(plan.services[i].companion, host)
  OBVIOUS
<1>6. (\A p \in new : p.host = host) /\ (plan.services[i].companion = {} => new = {})
  BY <1>4, <1>5, HostsMove DEF IsService
<1>7. Accompanied(plan.services[i], host) = [plan.services[i] EXCEPT !.companion = new]
  BY <1>5 DEF Accompanied
<1>8. /\ Accompanied(plan.services[i], host).companion = new
      /\ Accompanied(plan.services[i], host).published = plan.services[i].published
      /\ Accompanied(plan.services[i], host).environment = plan.services[i].environment
  BY <1>4, <1>7 DEF IsService
<1> QED
  BY <1>3, <1>6, <1>8

\* What holds of a plan when the addresses of its first n services are settled.
SettledUpTo(n, t, plan) ==
  /\ Like(plan, t.plan)
  /\ \A i \in DOMAIN t.plan.services :
       /\ plan.services[i].environment = t.plan.services[i].environment
       /\ \A p \in plan.services[i].published : p.host \in MainPort(t)
       /\ t.plan.services[i].companion = {} => plan.services[i].companion = {}
       /\ i <= n /\ HadOf(t.plan.services[i].name) # {} =>
            \A p \in plan.services[i].companion : p.host \in HadOf(t.plan.services[i].name)

\* The addresses of one more service are settled.
LEMMA SettledOnce ==
  ASSUME NEW t, IsPlan(t.plan), NEW n \in Nat, n + 1 \in DOMAIN t.plan.services,
         NEW sofar, SettledUpTo(n, t, sofar.plan), NEW after \in WithCompanion(sofar, t.plan.services[n + 1])
  PROVE  SettledUpTo(n + 1, t, after.plan)
<1> DEFINE s == t.plan.services[n + 1]
<1>1. /\ IsPlan(sofar.plan) /\ DOMAIN sofar.plan.services = DOMAIN t.plan.services
      /\ \A i \in DOMAIN t.plan.services : sofar.plan.services[i].name = t.plan.services[i].name
  BY DEF SettledUpTo, Like
<1>2. \A i \in DOMAIN t.plan.services : i \in Nat
  BY PlanHas
<1>3. CASE s.companion = {}
  <2>1. after = sofar
    BY <1>3 DEF WithCompanion
  <2>2. sofar.plan.services[n + 1].companion = {}
    BY <1>3 DEF SettledUpTo
  <2>3. ASSUME NEW i \in DOMAIN t.plan.services, i <= n + 1, HadOf(t.plan.services[i].name) # {},
               NEW p \in sofar.plan.services[i].companion
        PROVE  p.host \in HadOf(t.plan.services[i].name)
    <3>1. i # n + 1
      BY <2>2, <2>3
    <3>2. i <= n
      BY <1>2, <2>3, <3>1
    <3> QED
      BY <2>3, <3>2 DEF SettledUpTo
  <2> QED
    BY <2>1, <2>3 DEF SettledUpTo
<1>4. CASE s.companion # {}
  <2>1. PICK host \in CompanionPort(s, sofar.taken) : after = [plan |-> set_companion_host(sofar.plan, s.name, host), taken |-> sofar.taken \cup {host}]
    BY <1>4 DEF WithCompanion
  <2>2. PICK plan : plan = set_companion_host(sofar.plan, s.name, host)
    OBVIOUS
  <2>3. after.plan = plan
    BY <2>1, <2>2
  <2>4. HadOf(s.name) # {} => host \in HadOf(s.name)
    BY DEF CompanionPort, HadOf
  <2>5. Like(plan, t.plan)
    <3>1. Like(plan, sofar.plan)
      BY <1>1, <2>2, CompanionChanges
    <3> QED
      BY <3>1, LikeTwice DEF SettledUpTo
  <2>6. ASSUME NEW i \in DOMAIN t.plan.services
        PROVE  /\ plan.services[i].environment = t.plan.services[i].environment
               /\ \A p \in plan.services[i].published : p.host \in MainPort(t)
               /\ t.plan.services[i].companion = {} => plan.services[i].companion = {}
               /\ i <= n + 1 /\ HadOf(t.plan.services[i].name) # {} =>
                    \A p \in plan.services[i].companion : p.host \in HadOf(t.plan.services[i].name)
    <3>1. /\ plan.services[i].published = sofar.plan.services[i].published
          /\ plan.services[i].environment = sofar.plan.services[i].environment
          /\ sofar.plan.services[i].companion = {} => plan.services[i].companion = {}
          /\ sofar.plan.services[i].name # s.name => plan.services[i].companion = sofar.plan.services[i].companion
          /\ sofar.plan.services[i].name = s.name => \A p \in plan.services[i].companion : p.host = host
      <4>1. PICK was, name : was = sofar.plan /\ name = s.name
        OBVIOUS
      <4>2. IsPlan(was) /\ i \in DOMAIN was.services
        BY <1>1, <4>1
      <4>3. PICK moved : moved = set_companion_host(was, name, host).services[i]
        OBVIOUS
      <4>4. /\ moved.published = was.services[i].published
            /\ moved.environment = was.services[i].environment
            /\ was.services[i].companion = {} => moved.companion = {}
            /\ was.services[i].name # name => moved.companion = was.services[i].companion
            /\ was.services[i].name = name => \A p \in moved.companion : p.host = host
        BY <4>2, <4>3, CompanionIs
      <4>5. plan.services[i] = moved
        BY <2>2, <4>1, <4>3
      <4> QED
        BY <4>1, <4>4, <4>5
    <3>2. i <= n + 1 /\ sofar.plan.services[i].name # s.name => i <= n
      BY <1>1, <1>2
    <3> QED
      BY <1>1, <2>4, <3>1, <3>2 DEF SettledUpTo
  <2> QED
    BY <2>3, <2>5, <2>6 DEF SettledUpTo
<1> QED
  BY <1>3, <1>4

\* Where the addresses of an install are settled, nothing but addresses moves, and none
\* that an earlier install had.
LEMMA SettledKeeps ==
  ASSUME NEW t, IsPlan(t.plan), NEW plan \in Settled(t)
  PROVE  SettledUpTo(Len(t.plan.services), t, plan)
<1> DEFINE N == Len(t.plan.services)
           S == {n \in Nat : n <= N => \A sofar \in Settling(t)[n] : SettledUpTo(n, t, sofar.plan)}
<1>1. N \in Nat /\ DOMAIN t.plan.services = 1..N
  BY PlanHas
<1>2. /\ Settling(t)[0] = {[plan |-> set_published_host(t.plan, p), taken |-> {p}] : p \in MainPort(t)}
      /\ \A n \in 1..N : Settling(t)[n] = UNION {WithCompanion(sofar, t.plan.services[n]) : sofar \in Settling(t)[n - 1]}
  BY <1>1, SettlingIs
<1>3. 0 \in S
  <2>1. ASSUME NEW sofar \in Settling(t)[0] PROVE SettledUpTo(0, t, sofar.plan)
    <3>1. PICK host \in MainPort(t) : sofar = [plan |-> set_published_host(t.plan, host), taken |-> {host}]
      BY <1>2
    <3>2. PICK moved_ : moved_ = set_published_host(t.plan, host)
      OBVIOUS
    <3>3. sofar.plan = moved_
      BY <3>1, <3>2
    <3>4. Like(moved_, t.plan)
      BY <3>2, PublishedChanges
    <3>5. \A i \in DOMAIN t.plan.services :
            /\ (\A p \in moved_.services[i].published : p.host = host)
            /\ moved_.services[i].companion = t.plan.services[i].companion
            /\ moved_.services[i].environment = t.plan.services[i].environment
      BY <3>2, PublishedIs
    <3>6. \A i \in DOMAIN t.plan.services : ~(i <= 0)
      BY <1>1
    <3> QED
      BY <3>3, <3>4, <3>5, <3>6 DEF SettledUpTo
  <2> QED
    BY <2>1
<1>4. ASSUME NEW n \in Nat, n \in S PROVE n + 1 \in S
  <2>1. SUFFICES ASSUME n + 1 <= N, NEW after \in Settling(t)[n + 1] PROVE SettledUpTo(n + 1, t, after.plan)
    OBVIOUS
  <2>2. n + 1 \in 1..N /\ n + 1 - 1 = n /\ n <= N
    BY <1>1, <2>1
  <2>3. PICK sofar \in Settling(t)[n] : after \in WithCompanion(sofar, t.plan.services[n + 1])
    BY <1>2, <2>1, <2>2
  <2>4. SettledUpTo(n, t, sofar.plan)
    BY <1>4, <2>2
  <2> QED
    BY <1>1, <2>2, <2>3, <2>4, SettledOnce
<1>5. Nat \subseteq S
  <2> HIDE DEF S
  <2> QED
    BY <1>3, <1>4, StepByStep
<1>6. N \in S
  BY <1>1, <1>5
<1>7. PICK sofar \in Settling(t)[N] : plan = sofar.plan
  BY DEF Settled
<1> QED
  BY <1>1, <1>6, <1>7

\* A plan has one main address.
LEMMA MainAddress ==
  ASSUME NEW plan, IsPlan(plan), validate(plan)
  PROVE  \E host : {p.host : p \in published(plan)} = {host}
<1>1. Len(plan.services) \in Nat /\ DOMAIN plan.services = 1..Len(plan.services)
      /\ \A i \in DOMAIN plan.services : IsService(plan.services[i])
  BY PlanHas
<1>2. PICK i \in DOMAIN plan.services : {k \in DOMAIN plan.services : plan.services[k].published # {}} = {i}
  <2>1. Cardinality({k \in DOMAIN plan.services : plan.services[k].published # {}}) = 1
    BY DEF validate, AddressesAreSound
  <2> QED
    BY <1>1, <2>1, OnlyOne
<1>3. PICK p \in plan.services[i].published : TRUE
  BY <1>2
<1>4. plan.services[i].published = {p}
  BY <1>1, <1>3 DEF IsService
<1>5. published(plan) = {p}
  BY <1>2, <1>4 DEF published, Elements
<1> QED
  BY <1>5

\* And its services have names of their own, so that a second address has one service.
LEMMA CompanionsOnce ==
  ASSUME NEW plan, IsPlan(plan), NoLookalikes(plan), NEW file \in to_compose(plan),
         NEW one \in companion_host_ports(file), NEW other \in companion_host_ports(file), one[1] = other[1]
  PROVE  one = other
<1>1. companion_host_ports(file) = {<<s.name, (CHOOSE p \in s.companion : TRUE).host>> : s \in companions(plan)}
  BY AddressesRead
<1>2. PICK s \in companions(plan) : one = <<s.name, (CHOOSE p \in s.companion : TRUE).host>>
  BY <1>1
<1>3. PICK t \in companions(plan) : other = <<t.name, (CHOOSE p \in t.companion : TRUE).host>>
  BY <1>1
<1>4. PICK i \in DOMAIN plan.services : s = plan.services[i]
  BY DEF companions, Elements
<1>5. PICK j \in DOMAIN plan.services : t = plan.services[j]
  BY DEF companions, Elements
<1>6. s.name = t.name
  BY <1>2, <1>3
<1>7. i = j
  <2> DEFINE names == [k \in DOMAIN plan.services |-> plan.services[k].name]
  <2>1. validate(plan)
    BY ComposeIsOf
  <2>2. IsInjective(names)
    BY <2>1 DEF validate
  <2>3. \A a, b \in DOMAIN names : names[a] = names[b] => a = b
    <3> HIDE DEF names
    <3> QED
      BY <2>2 DEF IsInjective
  <2>4. names[i] = names[j] /\ DOMAIN names = DOMAIN plan.services
    BY <1>4, <1>5, <1>6
  <2> HIDE DEF names
  <2> QED
    BY <2>3, <2>4
<1> QED
  BY <1>2, <1>3, <1>4, <1>5, <1>7

\* What a plan resolved to has the variables and the arguments of its template.
LEMMA ArgumentsStay ==
  ASSUME NEW first, NoLookalikes(first), NEW second, Like(second, first), NEW third, SameAddresses(third, second)
  PROVE  NoLookalikes(third)
<1>1. /\ DOMAIN third.services = DOMAIN first.services
      /\ \A i \in DOMAIN first.services :
           /\ third.services[i].overrides = first.services[i].overrides
           /\ third.services[i].variables = first.services[i].variables
  BY DEF Like, SameAddresses, SameService
<1> QED
  BY <1>1 DEF NoLookalikes

\* In the directory is one file at most, and it was written for a plan.
KeptInv ==
  /\ \A one, other \in kept : one = other
  /\ \A file \in kept : \E plan : IsPlan(plan) /\ NoLookalikes(plan) /\ file \in to_compose(plan)

\* The main address of an install is the one in the directory.
LEMMA MainStays ==
  ASSUME KeptInv, NEW before \in kept, NEW t, NEW plan, IsPlan(plan), NoLookalikes(plan), NEW file \in to_compose(plan),
         NEW settled, SettledUpTo(Len(t.plan.services), t, settled), SameAddresses(plan, settled)
  PROVE  published_host_port(file) = published_host_port(before)
<1>1. PICK was : IsPlan(was) /\ NoLookalikes(was) /\ before \in to_compose(was)
  BY DEF KeptInv
<1>2. PICK host : published_host_port(before) = {host}
  <2>1. validate(was)
    BY <1>1, ComposeIsOf
  <2> QED
    BY <1>1, <2>1, AddressesRead, MainAddress
<1>3. kept = {before}
  BY DEF KeptInv
<1>4. MainPort(t) = {host}
  BY <1>2, <1>3 DEF MainPort
<1>5. PICK now : {p.host : p \in published(plan)} = {now}
  <2>1. validate(plan)
    BY ComposeIsOf
  <2> QED
    BY <2>1, MainAddress
<1>6. now = host
  <2>1. PICK p \in published(plan) : p.host = now
    BY <1>5
  <2>2. PICK i \in DOMAIN plan.services : p \in plan.services[i].published
    BY DEF published, Elements
  <2>3. i \in DOMAIN t.plan.services /\ p \in settled.services[i].published
    BY <2>2 DEF SameAddresses, SameService, SettledUpTo, Like
  <2>4. p.host \in MainPort(t)
    BY <2>3 DEF SettledUpTo
  <2> QED
    BY <1>4, <2>1, <2>4
<1>7. published_host_port(file) = {now}
  BY <1>5, AddressesRead
<1> QED
  BY <1>2, <1>6, <1>7

\* And so is the address of every companion that the directory has.
LEMMA CompanionsStay ==
  ASSUME KeptInv, NEW before \in kept, NEW t, IsPlan(t.plan),
         NEW plan, IsPlan(plan), NoLookalikes(plan), NEW file \in to_compose(plan),
         NEW settled, SettledUpTo(Len(t.plan.services), t, settled), SameAddresses(plan, settled),
         NEW was \in companion_host_ports(before), NEW is \in companion_host_ports(file), was[1] = is[1]
  PROVE  was = is
<1>1. PICK old : IsPlan(old) /\ NoLookalikes(old) /\ before \in to_compose(old)
  BY DEF KeptInv
<1>2. kept = {before}
  BY DEF KeptInv
<1>3. PICK s \in companions(plan) : is = <<s.name, (CHOOSE p \in s.companion : TRUE).host>>
  BY AddressesRead
<1>4. PICK i \in DOMAIN plan.services : s = plan.services[i]
  BY DEF companions, Elements
<1>5. PICK p : p = CHOOSE q \in s.companion : TRUE
  OBVIOUS
<1>6. p \in s.companion
  BY <1>5 DEF companions
<1>7. /\ i \in DOMAIN t.plan.services /\ s.name = t.plan.services[i].name /\ p \in settled.services[i].companion
      /\ i <= Len(t.plan.services)
  <2>1. i \in DOMAIN t.plan.services /\ s.name = t.plan.services[i].name /\ p \in settled.services[i].companion
    BY <1>4, <1>6 DEF SameAddresses, SameService, SettledUpTo, Like
  <2> QED
    BY <2>1, PlanHas
<1>8. was[2] \in HadOf(s.name)
  <2>1. is[1] = s.name
    BY <1>3
  <2>2. was \in UNION {companion_host_ports(f) : f \in kept}
    BY <1>2
  <2> QED
    BY <2>1, <2>2 DEF HadOf
<1>9. p.host \in HadOf(s.name)
  BY <1>7, <1>8 DEF SettledUpTo
<1>10. PICK had \in companion_host_ports(before) : had[1] = s.name /\ had[2] = p.host
  BY <1>2, <1>9 DEF HadOf
<1>11. had = was
  <2>1. is[1] = s.name
    BY <1>3
  <2> QED
    BY <1>1, <1>10, <2>1, CompanionsOnce
<1>12. had = <<s.name, p.host>>
  <2>1. PICK o \in companions(old) : had = <<o.name, (CHOOSE q \in o.companion : TRUE).host>>
    BY <1>1, <1>10, AddressesRead
  <2> QED
    BY <1>10, <2>1
<1> QED
  BY <1>3, <1>5, <1>11, <1>12

\* An install keeps the addresses, and leaves a file of its plan behind.
LEMMA KeptSteps ==
  ASSUME \A i \in DOMAIN Templates : NoLookalikes(Templates[i].plan),
         InstalledInv, KeptInv, [ProvisionNext]_provisionVars
  PROVE  KeptInv' /\ AddressesStay
<1>1. ASSUME NEW answers \in SomeAnswers, Install(answers) PROVE KeptInv' /\ AddressesStay
  <2>1. PICK plan \in Prepared(template, answers) : \E file \in to_compose(plan) : kept' = {file}
    BY <1>1 DEF Install
  <2>2. PICK file \in to_compose(plan) : kept' = {file}
    BY <2>1
  <2>3. IsPlan(template.plan) /\ NoLookalikes(template.plan) /\ "plan" \in DOMAIN template /\ FoldersAreAsked(template)
    BY ProvisionAssumption DEF template, ProvisionAssumption, InstalledInv
  <2>4. IsPlan(plan)
    BY <2>1, <2>3, PreparedIs
  <2>5. PICK settled \in Settled(template) : Like(settled, template.plan) /\ SameAddresses(plan, settled)
    BY <2>1, <2>3, PreparedIs
  <2>6. NoLookalikes(plan)
    BY <2>3, <2>5, ArgumentsStay
  <2>7. KeptInv'
    BY <2>2, <2>4, <2>6 DEF KeptInv
  <2>8. PICK t : t = template
    OBVIOUS
  <2>9. IsPlan(t.plan) /\ SettledUpTo(Len(t.plan.services), t, settled)
    BY <2>3, <2>5, <2>8, SettledKeeps
  <2>10. ASSUME NEW before \in kept
         PROVE  /\ published_host_port(file) = published_host_port(before)
                /\ \A was \in companion_host_ports(before), is \in companion_host_ports(file) : was[1] = is[1] => was = is
    <3>1. published_host_port(file) = published_host_port(before)
      BY <2>4, <2>5, <2>6, <2>9, MainStays
    <3>2. \A was \in companion_host_ports(before), is \in companion_host_ports(file) : was[1] = is[1] => was = is
      BY <2>4, <2>5, <2>6, <2>9, CompanionsStay
    <3> QED
      BY <3>1, <3>2
  <2> QED
    BY <2>2, <2>7, <2>10 DEF AddressesStay
<1>2. ASSUME kept' = {} \/ kept' = kept PROVE KeptInv' /\ AddressesStay
  <2>1. KeptInv'
    BY <1>2 DEF KeptInv
  <2>2. ASSUME NEW before \in kept, NEW after \in kept'
        PROVE  /\ published_host_port(after) = published_host_port(before)
               /\ \A was \in companion_host_ports(before), is \in companion_host_ports(after) : was[1] = is[1] => was = is
    <3>1. after = before
      BY <1>2 DEF KeptInv
    <3>2. PICK plan : IsPlan(plan) /\ NoLookalikes(plan) /\ before \in to_compose(plan)
      BY DEF KeptInv
    <3> QED
      BY <3>1, <3>2, CompanionsOnce
  <2> QED
    BY <2>1, <2>2 DEF AddressesStay
<1>3. ASSUME NEW deleteData \in BOOLEAN, Uninstall(deleteData) PROVE kept' = {} \/ kept' = kept
  BY <1>3 DEF Uninstall
<1>4. CASE Revise
  BY <1>2, <1>4 DEF Revise
<1>5. ASSUME NEW port \in Ports, OtherPrograms(port) PROVE kept' = kept
  BY <1>5 DEF OtherPrograms
<1>6. CASE UNCHANGED provisionVars
  BY <1>2, <1>6 DEF provisionVars
<1> QED
  BY <1>1, <1>2, <1>3, <1>4, <1>5, <1>6 DEF ProvisionNext

-----------------------------------------------------------------------------
\* The values a container receives.

\* Sequences joined one after the other.
Joining(g, seqs, N) == g[1] = seqs[1] /\ \A n \in 2..N : g[n] = g[n - 1] \o seqs[n]

\* The sequences are joined step by step.
LEMMA JoinedIs ==
  ASSUME NEW seqs, Len(seqs) \in Nat, Len(seqs) > 0
  PROVE  \E g : FlattenSeq(seqs) = g[Len(seqs)] /\ Joining(g, seqs, Len(seqs))
<1> DEFINE N == Len(seqs)
           One(i) == seqs[i]
           Then(i, x) == x \o seqs[i]
           Is(g, n) == g = [i \in 1..n |-> IF i = 1 THEN One(i) ELSE Then(i, g[i - 1])]
           S == {n \in Nat : \E g : Is(g, n)}
<1>0. N \in Nat /\ N > 0
  OBVIOUS
<1> HIDE DEF N, One, Then
<1>1. 0 \in S
  <2>1. PICK g : g = [i \in 1..0 |-> One(i)]
    OBVIOUS
  <2>2. Is(g, 0)
    BY <2>1
  <2> QED
    BY <2>2
<1>2. ASSUME NEW n \in Nat, n \in S PROVE n + 1 \in S
  <2>1. PICK g : Is(g, n)
    BY <1>2
  <2>2. PICK h : h = [i \in 1..(n + 1) |-> IF i = 1 THEN One(i) ELSE Then(i, g[i - 1])]
    OBVIOUS
  <2>3. ASSUME NEW i \in 1..n PROVE h[i] = g[i]
    <3>1. i \in 1..(n + 1)
      OBVIOUS
    <3> QED
      BY <2>1, <2>2, <3>1
  <2>4. ASSUME NEW i \in 1..(n + 1) PROVE h[i] = IF i = 1 THEN One(i) ELSE Then(i, h[i - 1])
    <3>1. CASE i = 1
      BY <2>2, <3>1
    <3>2. CASE i # 1
      <4>1. i - 1 \in 1..n
        BY <3>2
      <4> QED
        BY <2>2, <2>3, <3>2, <4>1
    <3> QED
      BY <3>1, <3>2
  <2>5. Is(h, n + 1)
    BY <2>2, <2>4
  <2> QED
    BY <2>5
<1>3. N \in S
  <2> HIDE DEF S
  <2>1. Nat \subseteq S
    BY <1>1, <1>2, StepByStep
  <2> QED
    BY <1>0, <2>1
<1>4. PICK f : f = CHOOSE g : Is(g, N)
  OBVIOUS
<1>5. Is(f, N)
  <2>1. \E g : Is(g, N)
    BY <1>3
  <2> HIDE DEF Is
  <2> QED
    BY <1>4, <2>1
<1>6. FlattenSeq(seqs) = f[N]
  BY <1>0, <1>4 DEF FlattenSeq, N, One, Then
<1>7. f[1] = One(1)
  BY <1>0, <1>5
<1>8. ASSUME NEW n \in 2..N PROVE f[n] = Then(n, f[n - 1])
  <2>1. n \in 1..N /\ n # 1
    BY <1>0
  <2> QED
    BY <1>5, <2>1
<1> QED
  BY <1>6, <1>7, <1>8 DEF N, One, Then, Joining

\* What is joined has the parts of the sequences, and no others.
LEMMA JoinedParts ==
  ASSUME NEW S, NEW seqs \in Seq(Seq(S))
  PROVE  FlattenSeq(seqs) \in Seq(S)
<1>0. PICK N \in Nat : N = Len(seqs) /\ DOMAIN seqs = 1..N /\ \A n \in 1..N : seqs[n] \in Seq(S)
  OBVIOUS
<1>1. CASE N = 0
  <2>1. seqs = <<>> /\ FlattenSeq(seqs) = seqs
    BY <1>0, <1>1 DEF FlattenSeq
  <2>2. <<>> \in Seq(S)
    OBVIOUS
  <2> QED
    BY <2>1, <2>2
<1>2. CASE N # 0
  <2>1. PICK g : FlattenSeq(seqs) = g[N] /\ Joining(g, seqs, N)
    BY <1>0, <1>2, JoinedIs
  <2> DEFINE T == {n \in Nat : n \in 1..N => g[n] \in Seq(S)}
  <2>2. ASSUME NEW n \in Nat, n \in T PROVE n + 1 \in T
    <3>1. SUFFICES ASSUME n + 1 \in 1..N PROVE g[n + 1] \in Seq(S)
      OBVIOUS
    <3>2. PICK m \in 1..N : m = n + 1
      BY <3>1
    <3>3. seqs[m] \in Seq(S)
      BY <1>0
    <3>4. CASE n = 0
      BY <2>1, <3>2, <3>3, <3>4 DEF Joining
    <3>5. CASE n # 0
      <4>1. m \in 2..N /\ m - 1 = n /\ n \in 1..N
        BY <1>0, <3>2, <3>5
      <4>2. g[m] = g[n] \o seqs[m]
        BY <2>1, <4>1 DEF Joining
      <4>3. g[n] \in Seq(S)
        BY <2>2, <4>1
      <4> QED
        BY <3>2, <3>3, <4>2, <4>3
    <3> QED
      BY <3>4, <3>5
  <2>3. Nat \subseteq T
    <3>1. 0 \in T
      OBVIOUS
    <3> HIDE DEF T
    <3> QED
      BY <2>2, <3>1, StepByStep
  <2>4. N \in 1..N /\ N \in T
    BY <1>0, <1>2, <2>3
  <2> QED
    BY <2>1, <2>4
<1> QED
  BY <1>1, <1>2

\* Sequences of one part or none, joined with those left out that are dropped.
LEMMA JoinedOnes ==
  ASSUME NEW S, NEW value \in Seq(S)
  PROVE  FlattenSeq([i \in DOMAIN value |-> <<value[i]>>]) = value
<1>0. PICK N \in Nat : /\ N = Len(value) /\ DOMAIN value = 1..N /\ value = [i \in 1..N |-> value[i]]
                       /\ \A n \in 1..N : value[n] \in S
  OBVIOUS
<1>1. PICK ones : ones = [i \in DOMAIN value |-> <<value[i]>>]
  OBVIOUS
<1>2. Len(ones) = N /\ \A n \in 1..N : ones[n] = <<value[n]>>
  BY <1>0, <1>1
<1>3. CASE N = 0
  <2>1. ones = <<>> /\ value = <<>>
    BY <1>0, <1>1, <1>3
  <2> QED
    BY <1>1, <2>1 DEF FlattenSeq
<1>4. CASE N # 0
  <2>1. PICK g : FlattenSeq(ones) = g[N] /\ Joining(g, ones, N)
    BY <1>0, <1>2, <1>4, JoinedIs
  <2> DEFINE Is(n) == g[n] = [i \in 1..n |-> value[i]]
             T == {n \in Nat : n \in 1..N => Is(n)}
  <2>2. ASSUME NEW n \in Nat, n \in T PROVE n + 1 \in T
    <3> HIDE DEF Is
    <3>1. SUFFICES ASSUME n + 1 \in 1..N PROVE Is(n + 1)
      OBVIOUS
    <3>2. PICK m \in 1..N : m = n + 1
      BY <3>1
    <3>3. PICK last : last = value[m]
      OBVIOUS
    <3>4. ones[m] = <<last>> /\ last \in S
      BY <1>0, <1>2, <3>3
    <3>5. CASE n = 0
      <4>1. g[m] = <<last>>
        BY <2>1, <3>2, <3>4, <3>5 DEF Joining
      <4>2. <<last>> = [i \in 1..1 |-> value[i]]
        BY <3>2, <3>3, <3>5
      <4> QED
        BY <3>2, <3>5, <4>1, <4>2 DEF Is
    <3>6. CASE n # 0
      <4>1. m \in 2..N /\ m - 1 = n /\ n \in 1..N
        BY <1>0, <3>2, <3>6
      <4>2. g[m] = g[n] \o ones[m]
        BY <2>1, <4>1 DEF Joining
      <4>3. PICK first : first = [i \in 1..n |-> value[i]]
        OBVIOUS
      <4>4. g[n] = first
        BY <2>2, <4>1, <4>3 DEF Is
      <4>5. \A i \in 1..n : i \in 1..N
        BY <4>1
      <4>6. first \in Seq(S) /\ Len(first) = n
        <5>1. \A i \in 1..n : value[i] \in S
          BY <1>0, <4>5
        <5> QED
          BY <4>3, <5>1
      <4>7. first \o <<last>> = [i \in 1..(n + 1) |-> IF i = n + 1 THEN last ELSE first[i]]
        BY <3>4, <4>6
      <4>8. \A i \in 1..(n + 1) : (IF i = n + 1 THEN last ELSE first[i]) = value[i]
        BY <3>2, <3>3, <4>3
      <4>9. first \o <<last>> = [i \in 1..(n + 1) |-> value[i]]
        BY <4>7, <4>8
      <4> QED
        BY <3>2, <3>4, <4>2, <4>4, <4>9 DEF Is
    <3> QED
      BY <3>5, <3>6
  <2>3. Nat \subseteq T
    <3>1. 0 \in T
      OBVIOUS
    <3> HIDE DEF T
    <3> QED
      BY <2>2, <3>1, StepByStep
  <2>4. N \in 1..N /\ N \in T
    BY <1>0, <1>4, <2>3
  <2> QED
    BY <1>0, <1>1, <2>1, <2>4
<1> QED
  BY <1>3, <1>4

\* A part that Compose leaves as it is, and a value of such parts.
IsFilled(part) == part[1] \notin {"key", "dollar"}

\* A value of filled parts is received as it is.
LEMMA ReceivedWhole ==
  ASSUME NEW S, NEW value \in Seq(S), \A part \in S : IsFilled(part)
  PROVE  Received(value) = value
<1>1. [i \in DOMAIN value |-> IF value[i][1] \in {"key", "dollar"} THEN <<>> ELSE <<value[i]>>]
        = [i \in DOMAIN value |-> <<value[i]>>]
  BY DEF IsFilled
<1>2. FlattenSeq([i \in DOMAIN value |-> <<value[i]>>]) = value
  BY JoinedOnes
<1> QED
  BY <1>1, <1>2 DEF Received

\* So is one that is joined from filled parts.
LEMMA FilledWhole ==
  ASSUME NEW seqs, NEW N \in Nat, seqs = [i \in 1..N |-> seqs[i]],
         \A i \in 1..N : seqs[i] = <<>> \/ \E part : seqs[i] = <<part>> /\ IsFilled(part)
  PROVE  Received(FlattenSeq(seqs)) = FlattenSeq(seqs)
<1> DEFINE S == {part \in UNION {Elements(seqs[i]) : i \in 1..N} : IsFilled(part)}
<1>1. ASSUME NEW i \in 1..N PROVE seqs[i] \in Seq(S)
  <2>1. CASE seqs[i] = <<>>
    BY <2>1
  <2>2. CASE seqs[i] # <<>>
    <3>1. PICK part : seqs[i] = <<part>> /\ IsFilled(part)
      BY <2>2
    <3>2. part \in Elements(seqs[i])
      BY <3>1 DEF Elements
    <3>3. part \in S
      BY <3>1, <3>2
    <3> HIDE DEF S
    <3>4. <<part>> \in Seq(S)
      BY <3>3
    <3> QED
      BY <3>1, <3>4
  <2> QED
    BY <2>1, <2>2
<1>2. \A part \in S : IsFilled(part)
  OBVIOUS
<1> HIDE DEF S
<1>3. seqs \in Seq(Seq(S))
  BY <1>1
<1>4. FlattenSeq(seqs) \in Seq(S)
  BY <1>3, JoinedParts
<1> QED
  BY <1>2, <1>4, ReceivedWhole

\* The keys of a list of questions, or of credentials.
LEMMA KeysAre ==
  ASSUME NEW entries, NEW n \in Nat, DOMAIN entries = 1..n
  PROVE  /\ Keys(entries) \in Seq(Elements(Keys(entries))) /\ DOMAIN Keys(entries) = 1..n /\ Len(Keys(entries)) = n
         /\ \A i \in 1..n : Keys(entries)[i] = entries[i].key
<1>1. PICK keys : keys = [i \in 1..n |-> entries[i].key]
  OBVIOUS
<1>2. \A i \in 1..n : keys[i] \in Elements(keys)
  BY <1>1 DEF Elements
<1>3. keys \in Seq(Elements(keys)) /\ Len(keys) = n
  BY <1>1, <1>2
<1>4. Keys(entries) = keys
  BY <1>1 DEF Keys
<1> QED
  BY <1>1, <1>3, <1>4

\* Two sequences, one after the other.
LEMMA TwoJoined ==
  ASSUME NEW a, NEW b, a \in Seq(Elements(a)), b \in Seq(Elements(b)), NEW all, all = a \o b
  PROVE  /\ DOMAIN all = 1..(Len(a) + Len(b))
         /\ \A i \in 1..(Len(a) + Len(b)) : all[i] = IF i <= Len(a) THEN a[i] ELSE b[i - Len(a)]
<1>1. PICK D : D = Elements(a) \cup Elements(b)
  OBVIOUS
<1>2. a \in Seq(D) /\ b \in Seq(D)
  BY <1>1
<1>3. all \in Seq(D) /\ Len(all) = Len(a) + Len(b)
  BY <1>2
<1>4. \A i \in 1..(Len(a) + Len(b)) : all[i] = IF i <= Len(a) THEN a[i] ELSE b[i - Len(a)]
  BY <1>2
<1> QED
  BY <1>3, <1>4

\* A question and a credential have a key of their own.
LEMMA KeysApart ==
  ASSUME NEW t, t.fields \in Seq(Elements(t.fields)), t.secrets \in Seq(Elements(t.secrets)),
         IsInjective(Keys(t.fields) \o Keys(t.secrets))
  PROVE  /\ \A f, g \in Elements(t.fields) : f.key = g.key => f = g
         /\ \A f \in Elements(t.fields), s \in Elements(t.secrets) : f.key # s.key
         /\ \A r, s \in Elements(t.secrets) : r.key = s.key => r = s
<1> DEFINE a == Keys(t.fields)
           b == Keys(t.secrets)
<1>1. PICK n \in Nat : DOMAIN t.fields = 1..n /\ Len(t.fields) = n
  OBVIOUS
<1>2. PICK m \in Nat : DOMAIN t.secrets = 1..m /\ Len(t.secrets) = m
  OBVIOUS
<1>3. DOMAIN a = 1..n /\ \A i \in 1..n : a[i] = t.fields[i].key
  BY <1>1, KeysAre
<1>4. DOMAIN b = 1..m /\ \A i \in 1..m : b[i] = t.secrets[i].key
  BY <1>2, KeysAre
<1>5. a \in Seq(Elements(a)) /\ b \in Seq(Elements(b)) /\ Len(a) = n /\ Len(b) = m
  BY <1>1, <1>2, KeysAre
<1> HIDE DEF a, b
<1>6. PICK all : all = a \o b
  OBVIOUS
<1>7. DOMAIN all = 1..(n + m) /\ (\A i \in 1..n : all[i] = a[i]) /\ \A i \in 1..m : all[n + i] = b[i]
  <2>1. /\ DOMAIN all = 1..(Len(a) + Len(b))
        /\ \A i \in 1..(Len(a) + Len(b)) : all[i] = IF i <= Len(a) THEN a[i] ELSE b[i - Len(a)]
    BY <1>5, <1>6, TwoJoined
  <2>2. DOMAIN all = 1..(n + m) /\ \A i \in 1..(n + m) : all[i] = IF i <= n THEN a[i] ELSE b[i - n]
    BY <1>5, <2>1
  <2> QED
    BY <2>2
<1>8. \A i, j \in 1..(n + m) : all[i] = all[j] => i = j
  BY <1>6, <1>7 DEF IsInjective, a, b
<1>9. ASSUME NEW f \in Elements(t.fields), NEW g \in Elements(t.fields), f.key = g.key PROVE f = g
  <2>1. PICK i \in 1..n, j \in 1..n : f = t.fields[i] /\ g = t.fields[j]
    BY <1>1 DEF Elements
  <2>2. all[i] = all[j] /\ i \in 1..(n + m) /\ j \in 1..(n + m)
    BY <1>3, <1>7, <1>9, <2>1
  <2> QED
    BY <1>8, <2>1, <2>2
<1>10. ASSUME NEW f \in Elements(t.fields), NEW s \in Elements(t.secrets), f.key = s.key PROVE FALSE
  <2>1. PICK i \in 1..n : f = t.fields[i]
    BY <1>1 DEF Elements
  <2>2. PICK j \in 1..m : s = t.secrets[j]
    BY <1>2 DEF Elements
  <2>3. all[i] = all[n + j] /\ i \in 1..(n + m) /\ n + j \in 1..(n + m)
    BY <1>3, <1>4, <1>7, <1>10, <2>1, <2>2
  <2> QED
    BY <1>8, <2>3
<1>11. ASSUME NEW r \in Elements(t.secrets), NEW s \in Elements(t.secrets), r.key = s.key PROVE r = s
  <2>1. PICK i \in 1..m, j \in 1..m : r = t.secrets[i] /\ s = t.secrets[j]
    BY <1>2 DEF Elements
  <2>2. all[n + i] = b[i] /\ all[n + j] = b[j]
    BY <1>7
  <2>3. b[i] = r.key /\ b[j] = s.key
    BY <1>4, <2>1
  <2>4. n + i \in 1..(n + m) /\ n + j \in 1..(n + m)
    OBVIOUS
  <2>5. all[n + i] = all[n + j]
    BY <1>11, <2>2, <2>3
  <2>6. n + i = n + j
    BY <1>8, <2>4, <2>5
  <2> QED
    BY <2>1, <2>6
<1> QED
  BY <1>9, <1>10, <1>11

\* What a person's answer to a question for text becomes.
LEMMA TextGiven ==
  ASSUME NEW t, ValuesArePlain(t), NEW answers, NEW given \in accept_answers(t, answers),
         NEW f \in Elements(t.fields), f.kind # "folder", \A g \in Elements(t.fields) : g.key = f.key => g = f
  PROVE  /\ f.key \in DOMAIN given
         /\ f.key \in DOMAIN answers => given[f.key] = <<answers[f.key]>> /\ IsText(answers[f.key])
         /\ f.key \notin DOMAIN answers /\ f.default # {} =>
              given[f.key] = <<CHOOSE d \in f.default : TRUE>> /\ IsText(CHOOSE d \in f.default : TRUE)
         /\ f.key \notin DOMAIN answers /\ f.default = {} => given[f.key] = <<>>
<1>1. PICK key : key = f.key
  OBVIOUS
<1>2. PICK answer : answer = Answer(answers, key)
  OBVIOUS
<1>3. given = [k \in {g.key : g \in Elements(t.fields)} |->
                 CHOOSE v \in UNION {accept(g, Answer(answers, k)) : g \in {h \in Elements(t.fields) : h.key = k}} : TRUE]
      /\ \A g \in Elements(t.fields) : accept(g, Answer(answers, g.key)) # {}
  BY DEF accept_answers
<1>4. {h \in Elements(t.fields) : h.key = key} = {f}
  BY <1>1
<1>5. key \in {g.key : g \in Elements(t.fields)}
  BY <1>1
<1>6. given[key] = CHOOSE v \in UNION {accept(g, answer) : g \in {h \in Elements(t.fields) : h.key = key}} : TRUE
  BY <1>2, <1>3, <1>5
<1>7. given[key] = CHOOSE v \in accept(f, answer) : TRUE
  <2>1. UNION {accept(g, answer) : g \in {h \in Elements(t.fields) : h.key = key}} = accept(f, answer)
    BY <1>4
  <2> QED
    BY <1>6, <2>1
<1>8. accept(f, answer) # {}
  BY <1>1, <1>2, <1>3
<1>9. given[key] \in accept(f, answer)
  BY <1>7, <1>8
<1>10. PICK value : value = IF answer # {} THEN answer ELSE f.default
  OBVIOUS
<1>11. accept(f, answer) = IF value = {} THEN (IF f.required THEN {} ELSE {<<>>}) ELSE {<<v>> : v \in value \cap f.allows}
  BY <1>10 DEF accept
<1>12. \A v \in f.allows : IsText(v)
  BY DEF ValuesArePlain
<1>13. CASE key \in DOMAIN answers
  <2>1. answer = {answers[key]} /\ value = {answers[key]}
    BY <1>2, <1>10, <1>13 DEF Answer
  <2>2. PICK v \in value \cap f.allows : given[key] = <<v>>
    BY <1>9, <1>11, <2>1
  <2> QED
    BY <1>1, <1>3, <1>5, <1>12, <1>13, <2>1, <2>2
<1>14. CASE key \notin DOMAIN answers /\ f.default # {}
  <2>1. value = f.default
    BY <1>2, <1>10, <1>14 DEF Answer
  <2>2. PICK v \in value \cap f.allows : given[key] = <<v>>
    BY <1>9, <1>11, <1>14, <2>1
  <2>3. \A one, other \in f.default : one = other
    BY DEF ValuesArePlain
  <2>4. v = CHOOSE d \in f.default : TRUE
    BY <2>1, <2>2, <2>3
  <2> QED
    BY <1>1, <1>3, <1>5, <1>12, <1>14, <2>2, <2>4
<1>15. CASE key \notin DOMAIN answers /\ f.default = {}
  <2>1. value = {}
    BY <1>2, <1>10, <1>15 DEF Answer
  <2>2. given[key] = <<>>
    BY <1>9, <1>11, <2>1
  <2> QED
    BY <1>1, <1>3, <1>5, <1>15, <2>2
<1> QED
  BY <1>13, <1>14, <1>15

\* The keys of a template's credentials.
SecretKeys(t) == {s.key : s \in Elements(t.secrets)}

\* The same addresses are the same everywhere they are asked for.
LEMMA SameHosts ==
  ASSUME NEW plan, NEW other, SameAddresses(plan, other)
  PROVE  /\ MainHost(plan) = MainHost(other)
         /\ \A name : CompanionHost(plan, name) = CompanionHost(other, name)
         /\ \A name : (\E s \in companions(plan) : s.name = name) <=> (\E s \in companions(other) : s.name = name)
<1>1. /\ DOMAIN plan.services = DOMAIN other.services
      /\ \A i \in DOMAIN plan.services :
           /\ plan.services[i].name = other.services[i].name
           /\ plan.services[i].published = other.services[i].published
           /\ plan.services[i].companion = other.services[i].companion
  BY DEF SameAddresses, SameService
<1>2. published(plan) = published(other)
  BY <1>1 DEF published, Elements
<1>3. ASSUME NEW name PROVE CompanionHost(plan, name) = CompanionHost(other, name)
  <2>1. UNION {s.companion : s \in Named(plan, name)} = UNION {s.companion : s \in Named(other, name)}
    BY <1>1 DEF Named, Elements
  <2> QED
    BY <2>1 DEF CompanionHost
<1>4. ASSUME NEW name
      PROVE  (\E s \in companions(plan) : s.name = name) <=> (\E s \in companions(other) : s.name = name)
  BY <1>1 DEF companions, Elements
<1> QED
  BY <1>2, <1>3, <1>4 DEF MainHost

\* A placeholder that the installer left is one of the template's own.
LeftIsOwn(t, settled, part) ==
  LET left == PlatformPart(settled, MainHost(settled), part)
  IN left[1] = "key" =>
       /\ ~IsReserved(left[2]) => left[2] \in declared(t)
       /\ left[2][1] = "companion" => \E s \in companions(settled) : s.name = left[2][3]

\* One part of a value, as the container receives it.
IsMeant(is, means) == is = means /\ (is = <<>> \/ \E one : is = <<one>> /\ IsFilled(one))

\* A placeholder of a question or a credential, as the container receives it.
LEMMA OwnIsMeant ==
  ASSUME NEW t, ValuesArePlain(t), IsInjective(Keys(t.fields) \o Keys(t.secrets)),
         NEW answers, NEW given \in accept_answers(t, answers),
         NEW secrets, DOMAIN secrets = SecretKeys(t),
         NEW retained, \A key \in DOMAIN secrets : retained[key] = secrets[key],
         NEW part, part[1] = "key", ~IsReserved(part[2]), part[2] \in declared(t),
         \A f \in Elements(t.fields) : f.key = part[2] => f.kind # "folder",
         NEW plan
  PROVE  IsMeant(Replaced(part, given, secrets), MeantPart(t, part, answers, retained, plan))
<1>1. PICK key : key = part[2]
  OBVIOUS
<1>2. /\ \A f, g \in Elements(t.fields) : f.key = g.key => f = g
      /\ \A f \in Elements(t.fields), s \in Elements(t.secrets) : f.key # s.key
  BY KeysApart DEF ValuesArePlain
<1>3. DOMAIN given = {f.key : f \in Elements(t.fields)}
  BY DEF accept_answers
<1>4. Replaced(part, given, secrets) = CHOOSE r \in Replacement(part, given, secrets) : TRUE
  BY DEF Replaced
<1>5. CASE key \in DOMAIN secrets
  <2>1. key \notin DOMAIN given
    BY <1>2, <1>3, <1>5 DEF SecretKeys
  <2>2. PICK made_ : made_ = <<"secret", secrets[key]>>
    OBVIOUS
  <2>3. Replacement(part, given, secrets) = {<<made_>>}
    BY <1>1, <1>5, <2>1, <2>2 DEF Replacement
  <2>4. Replaced(part, given, secrets) = <<made_>>
    BY <1>4, <2>3
  <2>5. MeantPart(t, part, answers, retained, plan) = << <<"secret", retained[key]>> >>
    BY <1>1, <1>5 DEF MeantPart, SecretKeys
  <2>6. IsFilled(made_)
    BY <2>2 DEF IsFilled
  <2> QED
    BY <1>5, <2>2, <2>4, <2>5, <2>6 DEF IsMeant
<1>6. CASE key \notin DOMAIN secrets
  <2>1. PICK f \in Elements(t.fields) : f.key = key
    <3>1. PICK n \in Nat : DOMAIN t.fields = 1..n /\ Len(t.fields) = n
      BY DEF ValuesArePlain
    <3>2. PICK m \in Nat : DOMAIN t.secrets = 1..m /\ Len(t.secrets) = m
      BY DEF ValuesArePlain
    <3>3. PICK a : a = Keys(t.fields)
      OBVIOUS
    <3>4. PICK b : b = Keys(t.secrets)
      OBVIOUS
    <3>5. /\ a \in Seq(Elements(a)) /\ Len(a) = n /\ \A i \in 1..n : a[i] = t.fields[i].key
          /\ b \in Seq(Elements(b)) /\ Len(b) = m /\ \A i \in 1..m : b[i] = t.secrets[i].key
      BY <3>1, <3>2, <3>3, <3>4, KeysAre
    <3>6. PICK k \in DOMAIN (a \o b) : key = (a \o b)[k]
      BY <1>1, <3>3, <3>4 DEF declared, Elements
    <3>7. CASE k \in 1..n
      <4>1. key = t.fields[k].key
        BY <3>5, <3>6, <3>7
      <4> QED
        BY <3>1, <3>7, <4>1 DEF Elements
    <3>8. CASE k \notin 1..n
      <4>1. k - n \in 1..m /\ (a \o b)[k] = b[k - n]
        BY <3>5, <3>6, <3>8
      <4>2. key = t.secrets[k - n].key
        BY <3>5, <3>6, <4>1
      <4>3. key \in {s.key : s \in Elements(t.secrets)}
        BY <3>2, <4>1, <4>2 DEF Elements
      <4> QED
        BY <1>6, <4>3 DEF SecretKeys
    <3> QED
      BY <3>7, <3>8
  <2>2. \A g \in Elements(t.fields) : g.key = f.key => g = f
    BY <1>2
  <2>3. f.kind # "folder"
    BY <1>1, <2>1
  <2>4. /\ key \in DOMAIN given
        /\ key \in DOMAIN answers => given[key] = <<answers[key]>> /\ IsText(answers[key])
        /\ key \notin DOMAIN answers /\ f.default # {} =>
             given[key] = <<CHOOSE d \in f.default : TRUE>> /\ IsText(CHOOSE d \in f.default : TRUE)
        /\ key \notin DOMAIN answers /\ f.default = {} => given[key] = <<>>
    BY <2>1, <2>2, <2>3, TextGiven
  <2>5. Replacement(part, given, secrets) = {given[key]}
    BY <1>1, <2>4 DEF Replacement
  <2>6. Replaced(part, given, secrets) = given[key]
    BY <1>4, <2>5
  <2>7. (CHOOSE g \in Elements(t.fields) : g.key = key) = f
    BY <2>1, <2>2
  <2>8. MeantPart(t, part, answers, retained, plan)
          = CASE key \in DOMAIN answers -> <<answers[key]>>
              [] key \notin DOMAIN answers /\ f.default # {} -> <<CHOOSE d \in f.default : TRUE>>
              [] OTHER -> <<>>
    BY <1>1, <1>6, <2>7 DEF MeantPart, SecretKeys
  <2>9. \A one : IsText(one) => IsFilled(one)
    BY DEF IsText, IsFilled
  <2>10. CASE key \in DOMAIN answers
    BY <2>4, <2>6, <2>8, <2>9, <2>10 DEF IsMeant
  <2>11. CASE key \notin DOMAIN answers /\ f.default # {}
    <3>1. PICK d : d = CHOOSE e \in f.default : TRUE
      OBVIOUS
    <3> QED
      BY <2>4, <2>6, <2>8, <2>9, <2>11, <3>1 DEF IsMeant
  <2>12. CASE key \notin DOMAIN answers /\ f.default = {}
    BY <2>4, <2>6, <2>8, <2>12 DEF IsMeant
  <2> QED
    BY <2>10, <2>11, <2>12
<1> QED
  BY <1>5, <1>6

\* Any part of a value, as the container receives it.
LEMMA PartIsMeant ==
  ASSUME NEW t, ValuesArePlain(t), IsInjective(Keys(t.fields) \o Keys(t.secrets)),
         NEW answers, NEW given \in accept_answers(t, answers),
         NEW secrets, DOMAIN secrets = SecretKeys(t),
         NEW retained, \A key \in DOMAIN secrets : retained[key] = secrets[key],
         NEW part, IsText(part) \/ IsPlaceholder(part),
         part[1] = "key" => \A f \in Elements(t.fields) : f.key = part[2] => f.kind # "folder",
         NEW settled, NEW plan, SameAddresses(plan, settled), LeftIsOwn(t, settled, part)
  PROVE  IsMeant(Replaced(PlatformPart(settled, MainHost(settled), part), given, secrets),
                 MeantPart(t, part, answers, retained, plan))
<1>1. PICK left : left = PlatformPart(settled, MainHost(settled), part)
  OBVIOUS
<1>2. /\ MainHost(plan) = MainHost(settled) /\ \A name : CompanionHost(plan, name) = CompanionHost(settled, name)
  BY SameHosts
<1>3. CASE part[1] # "key"
  <2>1. IsText(part)
    BY <1>3 DEF IsPlaceholder
  <2>2. left = part
    BY <1>1, <1>3 DEF PlatformPart
  <2>3. Replaced(left, given, secrets) = <<part>> /\ MeantPart(t, part, answers, retained, plan) = <<part>>
    BY <1>3, <2>2 DEF Replaced, MeantPart
  <2>4. IsFilled(part)
    BY <2>1 DEF IsText, IsFilled
  <2> QED
    BY <1>1, <2>3, <2>4 DEF IsMeant
<1>4. CASE part[1] = "key" /\ IsReserved(part[2])
  <2>0. MeantPart(t, part, answers, retained, plan)
          = << <<part[2][2], IF part[2][1] = "platform" THEN MainHost(plan) ELSE CompanionHost(plan, part[2][3])>> >>
    BY <1>4 DEF MeantPart
  <2>1. part[2][1] \in {"platform", "companion"} /\ part[2][2] \in {"url", "host", "port"} /\ part[3] = {}
    BY <1>4 DEF IsPlaceholder, IsText
  <2>2. ASSUME NEW host, left = <<part[2][2], host>>,
               MeantPart(t, part, answers, retained, plan) = << <<part[2][2], host>> >>
        PROVE  IsMeant(Replaced(left, given, secrets), MeantPart(t, part, answers, retained, plan))
    <3>1. left[1] = part[2][2]
      BY <2>2
    <3>2. left[1] # "key" /\ IsFilled(left)
      BY <2>1, <3>1 DEF IsFilled
    <3>3. Replaced(left, given, secrets) = <<left>>
      BY <3>2 DEF Replaced
    <3> QED
      BY <2>2, <3>2, <3>3 DEF IsMeant
  <2>3. CASE part[2][1] = "platform"
    <3>1. left = <<part[2][2], MainHost(settled)>>
      BY <1>1, <1>4, <2>1, <2>3 DEF PlatformPart
    <3>2. MeantPart(t, part, answers, retained, plan) = << <<part[2][2], MainHost(plan)>> >>
      BY <2>0, <2>3
    <3> QED
      BY <1>1, <1>2, <2>2, <3>1, <3>2
  <2>4. CASE part[2][1] = "companion"
    <3>1. \E s \in companions(settled) : s.name = part[2][3]
      <4>1. SUFFICES ASSUME ~\E s \in companions(settled) : s.name = part[2][3] PROVE FALSE
        OBVIOUS
      <4>2. left = part
        BY <1>1, <1>4, <2>1, <2>4, <4>1 DEF PlatformPart
      <4> QED
        BY <1>1, <1>4, <2>4, <4>1, <4>2 DEF LeftIsOwn
    <3>2. left = <<part[2][2], CompanionHost(settled, part[2][3])>>
      BY <1>1, <1>4, <2>1, <2>4, <3>1 DEF PlatformPart
    <3>3. MeantPart(t, part, answers, retained, plan) = << <<part[2][2], CompanionHost(plan, part[2][3])>> >>
      BY <2>0, <2>4
    <3> QED
      BY <1>1, <1>2, <2>2, <3>2, <3>3
  <2> QED
    BY <2>1, <2>3, <2>4
<1>5. CASE part[1] = "key" /\ ~IsReserved(part[2])
  <2>1. part[2][1] = "own"
    BY <1>5 DEF IsReserved
  <2>2. left = part
    BY <1>1, <1>5, <2>1 DEF PlatformPart
  <2>3. part[2] \in declared(t)
    BY <1>1, <1>5, <2>2 DEF LeftIsOwn
  <2> QED
    BY <1>1, <1>5, <2>2, <2>3, OwnIsMeant
<1> QED
  BY <1>3, <1>4, <1>5

\* The parts of a value as the installer leaves them for the user's answers.
LeftOf(settled, value) == [k \in DOMAIN value |-> PlatformPart(settled, MainHost(settled), value[k])]

\* A value, as the container receives it.
LEMMA ValueIsMeant ==
  ASSUME NEW t, ValuesArePlain(t), IsInjective(Keys(t.fields) \o Keys(t.secrets)),
         NEW answers, NEW given \in accept_answers(t, answers),
         NEW secrets, DOMAIN secrets = SecretKeys(t),
         NEW retained, \A key \in DOMAIN secrets : retained[key] = secrets[key],
         NEW settled, NEW plan, SameAddresses(plan, settled),
         NEW value, value \in Seq(Elements(value)), \A part \in Elements(value) : IsText(part) \/ IsPlaceholder(part),
         \A part \in placeholders(value) : \A f \in Elements(t.fields) : f.key = part[2] => f.kind # "folder",
         \A part \in Elements(value) : LeftIsOwn(t, settled, part)
  PROVE  Received(substitute(LeftOf(settled, value), given, secrets))
           = Meant(t, value, answers, retained, plan)
<1>1. PICK N \in Nat : DOMAIN value = 1..N
  OBVIOUS
<1>2. PICK left : left = LeftOf(settled, value)
  OBVIOUS
<1>3. PICK seqs : seqs = [k \in DOMAIN left |-> Replaced(left[k], given, secrets)]
  OBVIOUS
<1>4. PICK means : means = [k \in DOMAIN value |-> MeantPart(t, value[k], answers, retained, plan)]
  OBVIOUS
<1>5. DOMAIN seqs = 1..N /\ DOMAIN means = 1..N
  BY <1>1, <1>2, <1>3, <1>4 DEF LeftOf
<1>6. ASSUME NEW k \in 1..N PROVE IsMeant(seqs[k], means[k])
  <2>1. PICK part : part = value[k]
    OBVIOUS
  <2>2. part \in Elements(value)
    BY <1>1, <2>1 DEF Elements
  <2>3. part[1] = "key" => \A f \in Elements(t.fields) : f.key = part[2] => f.kind # "folder"
    BY <2>2 DEF placeholders
  <2>4. seqs[k] = Replaced(PlatformPart(settled, MainHost(settled), part), given, secrets)
    BY <1>1, <1>2, <1>3, <2>1 DEF LeftOf
  <2>5. means[k] = MeantPart(t, part, answers, retained, plan)
    BY <1>1, <1>4, <2>1
  <2>6. IsMeant(Replaced(PlatformPart(settled, MainHost(settled), part), given, secrets),
                MeantPart(t, part, answers, retained, plan))
    BY <2>2, <2>3, PartIsMeant
  <2> QED
    BY <2>4, <2>5, <2>6
<1>7. seqs = means
  BY <1>3, <1>4, <1>5, <1>6 DEF IsMeant
<1>8. seqs = [k \in 1..N |-> seqs[k]]
  BY <1>3, <1>5
<1>9. Received(FlattenSeq(seqs)) = FlattenSeq(seqs)
  BY <1>6, <1>8, FilledWhole DEF IsMeant
<1>10. substitute(left, given, secrets) = FlattenSeq(seqs)
  BY <1>3 DEF substitute
<1>11. Meant(t, value, answers, retained, plan) = FlattenSeq(means)
  BY <1>4 DEF Meant
<1> QED
  BY <1>2, <1>7, <1>9, <1>10, <1>11

\* The values of a service, service by service, as they are filled.
LEMMA PlatformValues ==
  ASSUME NEW plan, IsPlan(plan), NEW host, NEW i \in DOMAIN plan.services
  PROVE  LET is == fill_platform_values(plan, host).services[i].environment
             was == plan.services[i].environment
         IN /\ DOMAIN is = DOMAIN was
            /\ \A j \in DOMAIN was : is[j] = [k \in DOMAIN was[j] |-> PlatformPart(plan, host, was[j][k])]
<1>1. PICK services : services = [l \in DOMAIN plan.services |->
          WithValues(plan.services[l], [j \in DOMAIN plan.services[l].environment |->
            [k \in DOMAIN plan.services[l].environment[j] |-> PlatformPart(plan, host, plan.services[l].environment[j][k])]])]
  OBVIOUS
<1>2. fill_platform_values(plan, host) = [plan EXCEPT !.services = services]
  BY <1>1 DEF fill_platform_values, MapValues, EachService
<1>3. fill_platform_values(plan, host).services[i] = services[i]
  BY <1>2 DEF IsPlan
<1>4. PICK values : values = [j \in DOMAIN plan.services[i].environment |->
            [k \in DOMAIN plan.services[i].environment[j] |-> PlatformPart(plan, host, plan.services[i].environment[j][k])]]
  OBVIOUS
<1>5. services[i] = WithValues(plan.services[i], values)
  BY <1>1, <1>4
<1>6. IsService(plan.services[i])
  BY PlanHas
<1>7. services[i].environment = values
  BY <1>5, <1>6 DEF WithValues, IsService
<1> QED
  BY <1>3, <1>4, <1>7

\* And as they are answered.
LEMMA AnsweredValues ==
  ASSUME NEW plan, IsPlan(plan), NEW given, NEW secrets, NEW i \in DOMAIN plan.services
  PROVE  LET is == WithFolders(Substitution(plan, given, secrets), given).services[i].environment
             was == plan.services[i].environment
         IN DOMAIN is = DOMAIN was /\ \A j \in DOMAIN was : is[j] = substitute(was[j], given, secrets)
<1>1. PICK filled : filled = Substitution(plan, given, secrets)
  OBVIOUS
<1>2. PICK services : services = [l \in DOMAIN plan.services |->
          WithValues(plan.services[l], [j \in DOMAIN plan.services[l].environment |->
            substitute(plan.services[l].environment[j], given, secrets)])]
  OBVIOUS
<1>3. filled = [plan EXCEPT !.services = services]
  BY <1>1, <1>2 DEF Substitution, MapValues, EachService
<1>4. IsPlan(filled) /\ DOMAIN filled.services = DOMAIN plan.services
  BY <1>1, AnswersChange DEF Like
<1>5. filled.services[i] = services[i]
  BY <1>3 DEF IsPlan
<1>6. PICK values : values = [j \in DOMAIN plan.services[i].environment |-> substitute(plan.services[i].environment[j], given, secrets)]
  OBVIOUS
<1>7. services[i] = WithValues(plan.services[i], values)
  BY <1>2, <1>6
<1>8. IsService(plan.services[i])
  BY PlanHas
<1>9. filled.services[i].environment = values
  BY <1>5, <1>7, <1>8 DEF WithValues, IsService
<1>10. PICK others : others = [l \in DOMAIN filled.services |->
          WithMounts(filled.services[l], [j \in DOMAIN filled.services[l].mounts |-> WithAnswer(filled.services[l].mounts[j], given)])]
  OBVIOUS
<1>11. WithFolders(filled, given) = [filled EXCEPT !.services = others]
  BY <1>10 DEF WithFolders, EachService
<1>12. WithFolders(filled, given).services[i] = others[i]
  BY <1>4, <1>11 DEF IsPlan
<1>13. PICK mounts : others[i] = WithMounts(filled.services[i], mounts)
  BY <1>4, <1>10
<1>14. IsService(filled.services[i])
  BY <1>4, PlanHas
<1>15. others[i].environment = filled.services[i].environment
  BY <1>13, <1>14 DEF WithMounts, IsService
<1> QED
  BY <1>1, <1>6, <1>9, <1>12, <1>15

\* What the installer leaves to be filled is the template's own, or its checks refuse it.
LEMMA LeftAreOwn ==
  ASSUME NEW t, NEW other, other.fields = t.fields, other.secrets = t.secrets, SourcesAreSound(other),
         NEW settled, SameAddresses(other.plan, settled),
         NEW value, NEW i \in DOMAIN other.plan.services, NEW j \in DOMAIN other.plan.services[i].environment,
         other.plan.services[i].environment[j] = [k \in DOMAIN value |-> PlatformPart(settled, MainHost(settled), value[k])],
         NEW part \in Elements(value)
  PROVE  LeftIsOwn(t, settled, part)
<1>1. PICK k \in DOMAIN value : part = value[k]
  BY DEF Elements
<1>2. PICK left : left = PlatformPart(settled, MainHost(settled), part)
  OBVIOUS
<1>3. PICK filled : filled = other.plan.services[i].environment[j]
  OBVIOUS
<1>4. left \in Elements(filled)
  BY <1>1, <1>2, <1>3 DEF Elements
<1>5. filled \in environment(other)
  BY <1>3 DEF environment, Elements
<1>6. ASSUME left[1] = "key"
      PROVE  /\ ~IsReserved(left[2]) => left[2] \in declared(t)
             /\ left[2][1] = "companion" => \E s \in companions(settled) : s.name = left[2][3]
  <2>1. left \in placeholders(filled)
    BY <1>4, <1>6 DEF placeholders
  <2>2. left[2] \in {p[2] : p \in UNION {placeholders(v) : v \in environment(other)}}
    BY <1>5, <2>1
  <2>3. PICK used : used = {p[2] : p \in UNION {placeholders(v) : v \in environment(other)}}
    OBVIOUS
  <2>4. /\ {key \in used : ~IsReserved(key)} \cup HostKeys(other) = declared(other)
        /\ \A key \in used : key[1] = "companion" => \E s \in companions(other.plan) : s.name = key[3]
    BY <2>3 DEF SourcesAreSound
  <2>5. ~IsReserved(left[2]) => left[2] \in declared(t)
    BY <2>2, <2>3, <2>4 DEF declared
  <2>6. left[2][1] = "companion" => \E s \in companions(settled) : s.name = left[2][3]
    <3>1. (\E s \in companions(other.plan) : s.name = left[2][3]) <=> (\E s \in companions(settled) : s.name = left[2][3])
      BY SameHosts
    <3> QED
      BY <2>2, <2>3, <2>4, <3>1
  <2> QED
    BY <2>5, <2>6
<1> QED
  BY <1>2, <1>6 DEF LeftIsOwn

\* Every value of a prepared plan is received as the template meant it.
LEMMA PreparedValues ==
  ASSUME NEW t, "plan" \in DOMAIN t, IsPlan(t.plan), FoldersAreAsked(t), ValuesArePlain(t),
         NEW answers, NEW plan \in Prepared(t, answers),
         NEW retained, \A key \in {s.key : s \in Elements(t.secrets)} : retained[key] = SecretsOf(t)[key],
         NEW i \in DOMAIN plan.services, NEW j \in DOMAIN plan.services[i].environment
  PROVE  Received(plan.services[i].environment[j]) = Meant(t, t.plan.services[i].environment[j], answers, retained, plan)
<1>1. PICK settled \in Settled(t) :
        plan \in resolve([t EXCEPT !.plan = fill_platform_values(settled, MainHost(settled))], answers, SecretsOf(t))
  BY DEF Prepared
<1>2. SettledUpTo(Len(t.plan.services), t, settled)
  BY SettledKeeps
<1>3. Like(settled, t.plan) /\ IsPlan(settled)
  BY <1>2 DEF SettledUpTo, Like
<1>4. PICK filled : filled = fill_platform_values(settled, MainHost(settled))
  OBVIOUS
<1>5. Like(filled, settled) /\ SameAddresses(filled, settled) /\ IsPlan(filled)
  BY <1>3, <1>4, PlatformChanges DEF Like
<1>6. PICK other : other = [t EXCEPT !.plan = filled]
  OBVIOUS
<1>7. /\ other.plan = filled /\ FoldersAreAsked(other)
      /\ other.fields = t.fields /\ other.secrets = t.secrets
  <2>1. Like(filled, t.plan)
    BY <1>3, <1>5, LikeTwice
  <2>2. other.plan = filled /\ FoldersAreAsked(other)
    BY <1>6, <2>1, AskedStays
  <2> QED
    BY <1>6, <2>2
<1>8. PICK secrets : secrets = SecretsOf(t)
  OBVIOUS
<1>9. plan \in resolve(other, answers, secrets)
  BY <1>1, <1>4, <1>6, <1>8
<1>10. PICK given \in accept_answers(other, answers) :
         ValidTemplate(other) /\ plan = WithFolders(Substitution(other.plan, given, secrets), given)
  BY <1>9 DEF resolve
<1>11. given \in accept_answers(t, answers)
  BY <1>7, <1>10 DEF accept_answers
<1>12. SourcesAreSound(other) /\ IsInjective(Keys(t.fields) \o Keys(t.secrets))
  BY <1>7, <1>10 DEF ValidTemplate, SourcesAreSound
<1>13. SameAddresses(plan, settled)
  <2>1. SameAddresses(plan, other.plan)
    BY <1>5, <1>7, <1>9, ResolvedIs
  <2> QED
    BY <1>5, <1>7, <2>1 DEF SameAddresses, SameService
<1>14. i \in DOMAIN filled.services /\ i \in DOMAIN settled.services /\ i \in DOMAIN t.plan.services
  BY <1>3, <1>5, <1>13 DEF Like, SameAddresses
<1>15. /\ DOMAIN plan.services[i].environment = DOMAIN filled.services[i].environment
       /\ \A l \in DOMAIN filled.services[i].environment :
            plan.services[i].environment[l] = substitute(filled.services[i].environment[l], given, secrets)
  BY <1>5, <1>7, <1>10, <1>14, AnsweredValues
<1>16. settled.services[i].environment = t.plan.services[i].environment
  BY <1>2, <1>14 DEF SettledUpTo
<1>17. PICK value : value = t.plan.services[i].environment[j]
  OBVIOUS
<1>18. /\ j \in DOMAIN filled.services[i].environment /\ j \in DOMAIN t.plan.services[i].environment
       /\ filled.services[i].environment[j] = [k \in DOMAIN value |-> PlatformPart(settled, MainHost(settled), value[k])]
  BY <1>3, <1>4, <1>14, <1>15, <1>16, <1>17, PlatformValues
<1>19. t.plan.services[i] \in Elements(t.plan.services) /\ value \in environment(t)
  BY <1>14, <1>17, <1>18 DEF environment, Elements
<1>20. value \in Seq(Elements(value)) /\ \A part \in Elements(value) : IsText(part) \/ IsPlaceholder(part)
  BY <1>17, <1>18, <1>19 DEF ValuesArePlain
<1>21. \A part \in placeholders(value) : \A f \in Elements(t.fields) : f.key = part[2] => f.kind # "folder"
  BY <1>19 DEF ValuesArePlain
<1>22. \A part \in Elements(value) : LeftIsOwn(t, settled, part)
  BY <1>5, <1>7, <1>12, <1>14, <1>18, LeftAreOwn
<1>23. DOMAIN secrets = SecretKeys(t) /\ \A key \in DOMAIN secrets : retained[key] = secrets[key]
  BY <1>8 DEF SecretsOf, SecretKeys
<1>24. Received(substitute(LeftOf(settled, value), given, secrets))
         = Meant(t, value, answers, retained, plan)
  BY <1>11, <1>12, <1>13, <1>20, <1>21, <1>22, <1>23, ValueIsMeant
<1> QED
  BY <1>15, <1>17, <1>18, <1>24 DEF LeftOf

\* No argument of a template looks like an address, and its values are plain.
PlainTemplates == \A i \in DOMAIN Templates : NoLookalikes(Templates[i].plan) /\ ValuesArePlain(Templates[i])

WholeInv == \A r \in running : NoLookalikes(r.plan) /\ ValuesAreMeant(r)

\* No step makes an app run with other values.
LEMMA WholeSteps ==
  ASSUME PlainTemplates, InstalledInv, WholeInv, [ProvisionNext]_provisionVars
  PROVE  WholeInv'
<1>1. ASSUME NEW answers \in SomeAnswers, Install(answers) PROVE WholeInv'
  <2>1. PICK t : t = template
    OBVIOUS
  <2>2. PICK plan \in Prepared(t, answers) :
          \E file \in to_compose(plan) :
            /\ keptSecrets' = IF t.secrets = <<>> THEN keptSecrets ELSE {SecretsOf(t)}
            /\ running' = {[plan |-> plan, file |-> file, template |-> t, answers |-> answers]}
    BY <1>1, <2>1 DEF Install
  <2>3. PICK file \in to_compose(plan) :
          /\ keptSecrets' = IF t.secrets = <<>> THEN keptSecrets ELSE {SecretsOf(t)}
          /\ running' = {[plan |-> plan, file |-> file, template |-> t, answers |-> answers]}
    BY <2>2
  <2>4. "plan" \in DOMAIN t /\ IsPlan(t.plan) /\ FoldersAreAsked(t) /\ ValuesArePlain(t) /\ NoLookalikes(t.plan)
    BY <2>1, ProvisionAssumption DEF template, ProvisionAssumption, InstalledInv, PlainTemplates
  <2>5. IsPlan(plan) /\ \E settled \in Settled(t) : Like(settled, t.plan) /\ SameAddresses(plan, settled)
    BY <2>4, PreparedIs
  <2>6. NoLookalikes(plan)
    BY <2>4, <2>5, ArgumentsStay
  <2>7. PICK retained : retained = retained_secrets'
    OBVIOUS
  <2>8. ASSUME NEW key \in {s.key : s \in Elements(t.secrets)} PROVE retained[key] = SecretsOf(t)[key]
    <3>1. t.secrets # <<>>
      BY DEF Elements
    <3>2. keptSecrets' = {SecretsOf(t)}
      BY <2>3, <3>1
    <3>3. retained = SecretsOf(t)
      BY <2>7, <3>2 DEF retained_secrets
    <3> QED
      BY <3>3
  <2>9. ASSUME NEW i \in DOMAIN plan.services, NEW j \in DOMAIN plan.services[i].environment
        PROVE  Received(file.services[i].environment[j]) = Meant(t, t.plan.services[i].environment[j], answers, retained, plan)
    <3>1. file = [services |-> [k \in DOMAIN plan.services |-> Written(plan, plan.services[k], LAMBDA m : m)],
                  volumes |-> Elements(plan.volumes), internal |-> Elements(plan.networks)]
      BY DEF to_compose, to_compose_with_mounts
    <3>2. file.services[i] = Written(plan, plan.services[i], LAMBDA m : m)
      BY <3>1
    <3>3. file.services[i].environment = plan.services[i].environment
      BY <3>2 DEF Written
    <3>4. Received(plan.services[i].environment[j]) = Meant(t, t.plan.services[i].environment[j], answers, retained, plan)
      BY <2>4, <2>8, PreparedValues
    <3> QED
      BY <3>3, <3>4
  <2>10. PICK r : r = [plan |-> plan, file |-> file, template |-> t, answers |-> answers]
    OBVIOUS
  <2>11. r.plan = plan /\ r.file = file /\ r.template = t /\ r.answers = answers
    BY <2>10
  <2>12. ValuesAreMeant(r)'
    BY <2>7, <2>9, <2>11 DEF ValuesAreMeant
  <2> QED
    BY <2>3, <2>6, <2>10, <2>11, <2>12 DEF WholeInv
<1>2. ASSUME running' = {} \/ (running' = running /\ keptSecrets' = keptSecrets) PROVE WholeInv'
  <2>1. CASE running' = {}
    BY <2>1 DEF WholeInv
  <2>2. CASE running' = running /\ keptSecrets' = keptSecrets
    <3>1. retained_secrets' = retained_secrets
      BY <2>2 DEF retained_secrets
    <3>2. \A r \in running : ValuesAreMeant(r) => ValuesAreMeant(r)'
      BY <3>1 DEF ValuesAreMeant
    <3> QED
      BY <2>2, <3>2 DEF WholeInv
  <2> QED
    BY <1>2, <2>1, <2>2
<1>3. ASSUME NEW deleteData \in BOOLEAN, Uninstall(deleteData) PROVE WholeInv'
  BY <1>2, <1>3 DEF Uninstall
<1>4. CASE Revise
  BY <1>2, <1>4 DEF Revise
<1>5. ASSUME NEW port \in Ports, OtherPrograms(port) PROVE WholeInv'
  BY <1>2, <1>5 DEF OtherPrograms
<1>6. CASE UNCHANGED provisionVars
  BY <1>2, <1>6 DEF provisionVars
<1> QED
  BY <1>1, <1>3, <1>4, <1>5, <1>6 DEF ProvisionNext

-----------------------------------------------------------------------------
\* A plan that stands for another: its services differ in values, and in the paths of the
\* folders that are shared.
SameChecks(is, was) ==
  /\ is.name = was.name /\ is.image = was.image /\ is.overrides = was.overrides /\ is.check = was.check
  /\ is.published = was.published /\ is.companion = was.companion /\ is.networks = was.networks
  /\ is.dependsOn = was.dependsOn /\ is.completed = was.completed /\ is.healthy = was.healthy
SameMount(is, was) ==
  /\ is.kind = was.kind /\ is.target = was.target
  /\ IF was.kind = "host" THEN is.source.root = "${" \/ Absolute(is.source) ELSE is.source = was.source
SameMounts(is, was) ==
  DOMAIN is.mounts = DOMAIN was.mounts /\ \A j \in DOMAIN was.mounts : SameMount(is.mounts[j], was.mounts[j])
StandsFor(other, plan) ==
  /\ IsPlan(plan) /\ IsPlan(other) /\ DOMAIN other.services = DOMAIN plan.services
  /\ other.volumes = plan.volumes /\ other.networks = plan.networks
  /\ \A i \in DOMAIN plan.services :
       SameChecks(other.services[i], plan.services[i]) /\ SameMounts(other.services[i], plan.services[i])

\* Every service stands for one, and for every service stands one.
LEMMA StandIns ==
  ASSUME NEW plan, NEW other, StandsFor(other, plan)
  PROVE  /\ \A r \in Elements(other.services) : \E s \in Elements(plan.services) : SameChecks(r, s) /\ SameMounts(r, s)
         /\ \A s \in Elements(plan.services) : \E r \in Elements(other.services) : SameChecks(r, s) /\ SameMounts(r, s)
BY DEF StandsFor, Elements

LEMMA OrderStands ==
  ASSUME NEW plan, NEW other, StandsFor(other, plan), NoCycle(plan)
  PROVE  NoCycle(other)
<1>1. PICK n \in Nat : Len(plan.services) = n /\ Len(other.services) = n
  BY PlanHas DEF StandsFor
<1> DEFINE Then(p, S) == {s.name : s \in {t \in Elements(p.services) : t.dependsOn \subseteq S}}
           Names(p) == {s.name : s \in Elements(p.services)}
<1>2. ASSUME NEW S PROVE Then(other, S) = Then(plan, S)
  BY StandIns DEF SameChecks
<1>3. Names(other) = Names(plan)
  BY StandIns DEF SameChecks
<1>4. /\ Ordered(plan)[0] = {} /\ Ordered(other)[0] = {}
      /\ \A k \in 1..n : Ordered(plan)[k] = Then(plan, Ordered(plan)[k - 1])
      /\ \A k \in 1..n : Ordered(other)[k] = Then(other, Ordered(other)[k - 1])
  BY <1>1, OrderedIs
<1> HIDE DEF Then
<1>5. PICK S : S = {k \in Nat : k <= n => Ordered(other)[k] = Ordered(plan)[k]}
  OBVIOUS
<1>6. 0 \in S
  BY <1>4, <1>5
<1>7. ASSUME NEW k \in Nat, k \in S PROVE k + 1 \in S
  <2>1. SUFFICES ASSUME k + 1 <= n PROVE Ordered(other)[k + 1] = Ordered(plan)[k + 1]
    BY <1>5
  <2>2. k + 1 \in 1..n /\ k + 1 - 1 = k /\ k <= n
    BY <1>1, <2>1
  <2>3. Ordered(other)[k] = Ordered(plan)[k]
    BY <1>5, <1>7, <2>2
  <2>4. Ordered(plan)[k + 1] = Then(plan, Ordered(plan)[k]) /\ Ordered(other)[k + 1] = Then(other, Ordered(other)[k])
    BY <1>4, <2>2
  <2> QED
    BY <1>2, <2>3, <2>4
<1>8. n \in S
  BY <1>1, <1>6, <1>7, StepByStep
<1>9. Ordered(other)[n] = Ordered(plan)[n]
  BY <1>1, <1>5, <1>8
<1> QED
  BY <1>1, <1>3, <1>9 DEF NoCycle

LEMMA AddressesStand ==
  ASSUME NEW plan, NEW other, StandsFor(other, plan), IsInjective([i \in DOMAIN plan.services |-> plan.services[i].name]),
         AddressesAreSound(plan)
  PROVE  AddressesAreSound(other)
<1> DEFINE Hosts(p) == [i \in DOMAIN p.services |-> {q.host : q \in p.services[i].published \cup p.services[i].companion}]
<1>1. Hosts(other) = Hosts(plan)
  BY DEF StandsFor, SameChecks
<1>2. {i \in DOMAIN other.services : other.services[i].published # {}} = {i \in DOMAIN plan.services : plan.services[i].published # {}}
  BY DEF StandsFor, SameChecks
<1>3. Cardinality(companions(other)) <= MaxCompanions
  <2>1. PICK n \in Nat : DOMAIN plan.services = 1..n /\ DOMAIN other.services = 1..n
    BY PlanHas DEF StandsFor
  <2>2. Cardinality(companions(plan)) <= MaxCompanions
    BY DEF AddressesAreSound
  <2>3. IsFiniteSet(companions(plan))
    <3>1. IsFiniteSet({plan.services[i] : i \in 1..n})
      <4>1. PICK all : all = {plan.services[i] : i \in 1..n}
        OBVIOUS
      <4>2. PICK f : f = [i \in 1..n |-> plan.services[i]]
        OBVIOUS
      <4>3. f \in Surjection(1..n, all)
        BY <4>1, <4>2 DEF Surjection
      <4>4. IsFiniteSet(1..n)
        BY FS_Interval
      <4> QED
        BY <4>1, <4>3, <4>4, FS_Surjection
    <3> QED
      BY <2>1, <3>1, FS_Subset DEF companions, Elements
  <2>4. PICK at : at = [s \in companions(plan) |-> CHOOSE i \in 1..n : plan.services[i] = s]
    OBVIOUS
  <2>5. ASSUME NEW i \in 1..n, plan.services[i].companion # {}
        PROVE  plan.services[i] \in companions(plan) /\ at[plan.services[i]] = i
    <3>1. plan.services[i] \in companions(plan)
      BY <2>1, <2>5 DEF companions, Elements
    <3>2. \A j \in 1..n : plan.services[j].name = plan.services[i].name => j = i
      BY <2>1 DEF IsInjective
    <3>3. at[plan.services[i]] = CHOOSE j \in 1..n : plan.services[j] = plan.services[i]
      BY <2>4, <3>1
    <3>4. \E j \in 1..n : plan.services[j] = plan.services[i]
      OBVIOUS
    <3>5. PICK k : k = CHOOSE j \in 1..n : plan.services[j] = plan.services[i]
      OBVIOUS
    <3>6. k \in 1..n /\ plan.services[k] = plan.services[i]
      BY <3>4, <3>5
    <3> QED
      BY <3>1, <3>2, <3>3, <3>5, <3>6
  <2>6. PICK f : f = [s \in companions(plan) |-> other.services[at[s]]]
    OBVIOUS
  <2>7. ASSUME NEW s \in companions(plan) PROVE f[s] \in companions(other)
    <3>1. PICK i \in 1..n : s = plan.services[i] /\ s.companion # {}
      BY <2>1 DEF companions, Elements
    <3>2. f[s] = other.services[i]
      BY <2>5, <2>6, <3>1
    <3> QED
      BY <2>1, <3>1, <3>2 DEF companions, Elements, StandsFor, SameChecks
  <2>8. ASSUME NEW r \in companions(other) PROVE \E s \in companions(plan) : f[s] = r
    <3>1. PICK i \in 1..n : r = other.services[i] /\ r.companion # {}
      BY <2>1 DEF companions, Elements
    <3>2. plan.services[i].companion # {}
      BY <2>1, <3>1 DEF StandsFor, SameChecks
    <3>3. plan.services[i] \in companions(plan) /\ f[plan.services[i]] = other.services[i]
      BY <2>5, <2>6, <3>2
    <3> QED
      BY <3>1, <3>3
  <2>9. f \in Surjection(companions(plan), companions(other))
    BY <2>6, <2>7, <2>8 DEF Surjection
  <2>10. ASSUME NEW s \in companions(plan), NEW u \in companions(plan), f[s] = f[u] PROVE s = u
    <3>1. PICK i \in 1..n, j \in 1..n : s = plan.services[i] /\ u = plan.services[j] /\ s.companion # {} /\ u.companion # {}
      BY <2>1 DEF companions, Elements
    <3>2. other.services[i] = other.services[j]
      BY <2>5, <2>6, <2>10, <3>1
    <3>3. plan.services[i].name = plan.services[j].name
      BY <2>1, <3>2 DEF StandsFor, SameChecks
    <3> QED
      BY <2>1, <3>1, <3>3 DEF IsInjective
  <2>11. f \in Injection(companions(plan), companions(other))
    <3>1. f \in [companions(plan) -> companions(other)]
      BY <2>6, <2>7
    <3>2. IsInjective(f)
      BY <2>6, <2>10 DEF IsInjective
    <3> QED
      BY <3>1, <3>2 DEF Injection
  <2>12. Cardinality(companions(other)) = Cardinality(companions(plan))
    BY <2>3, <2>9, <2>11, FS_Surjection
  <2> QED
    BY <2>2, <2>12
<1>4. ASSUME NEW r \in Elements(other.services)
      PROVE  /\ \A p \in r.published \cup r.companion : p.host >= FirstPort
             /\ \A q \in r.companion : q.container # 0
             /\ \A p \in r.published, q \in r.companion : p.container # q.container /\ p.host # q.host
  <2>1. PICK s \in Elements(plan.services) : r.published = s.published /\ r.companion = s.companion
    BY StandIns DEF SameChecks
  <2> QED
    BY <2>1 DEF AddressesAreSound
<1>5. \A i, j \in DOMAIN plan.services : i # j => Hosts(plan)[i] \cap Hosts(plan)[j] = {}
  BY DEF AddressesAreSound
<1>6. Cardinality({i \in DOMAIN plan.services : plan.services[i].published # {}}) = 1
  BY DEF AddressesAreSound
<1>7. DOMAIN other.services = DOMAIN plan.services
  BY DEF StandsFor
<1> HIDE DEF Hosts
<1>8. \A i, j \in DOMAIN other.services : i # j => Hosts(other)[i] \cap Hosts(other)[j] = {}
  BY <1>1, <1>5, <1>7
<1>9. Cardinality({i \in DOMAIN other.services : other.services[i].published # {}}) = 1
  BY <1>2, <1>6
<1> QED
  BY <1>3, <1>4, <1>8, <1>9 DEF AddressesAreSound, Hosts

\* A plan that stands for a sound one is sound.
LEMMA StandsSound ==
  ASSUME NEW plan, NEW other, StandsFor(other, plan), validate(plan)
  PROVE  validate(other)
<1>1. [i \in DOMAIN other.services |-> other.services[i].name] = [i \in DOMAIN plan.services |-> plan.services[i].name]
  BY DEF StandsFor, SameChecks
<1>2. other.services # <<>> /\ IsInjective([i \in DOMAIN other.services |-> other.services[i].name])
  <2>1. plan.services # <<>> /\ IsInjective([i \in DOMAIN plan.services |-> plan.services[i].name])
    BY DEF validate
  <2>2. DOMAIN other.services = DOMAIN plan.services /\ DOMAIN plan.services = 1..Len(plan.services) /\ Len(plan.services) \in Nat
    BY PlanHas DEF StandsFor
  <2>3. Len(plan.services) # 0
    BY <2>1, <2>2 DEF StandsFor, IsPlan
  <2>4. 1 \in DOMAIN other.services
    BY <2>2, <2>3
  <2> QED
    BY <1>1, <2>1, <2>4
<1>3. AddressesAreSound(other)
  BY AddressesStand DEF validate
<1>4. ASSUME NEW r \in Elements(other.services) PROVE ServiceIsSound(r)
  <2>1. PICK s \in Elements(plan.services) : SameChecks(r, s) /\ SameMounts(r, s)
    BY StandIns
  <2>2. ServiceIsSound(s)
    BY DEF validate
  <2>3. ASSUME NEW m \in Elements(r.mounts) PROVE MountIsSound(m)
    <3>1. PICK j \in DOMAIN s.mounts : m = r.mounts[j] /\ SameMount(m, s.mounts[j])
      BY <2>1 DEF SameMounts, Elements
    <3>2. MountIsSound(s.mounts[j])
      BY <2>2 DEF ServiceIsSound, Elements
    <3> QED
      BY <3>1, <3>2 DEF MountIsSound, SameMount
  <2> QED
    BY <2>1, <2>2, <2>3 DEF ServiceIsSound, SameChecks
<1>5. \A name : is_job(other, name) <=> is_job(plan, name)
  BY StandIns DEF is_job, SameChecks
<1>6. ConditionsAreSound(other)
  <2>1. ConditionsAreSound(plan)
    BY DEF validate
  <2>2. SUFFICES ASSUME NEW r \in Elements(other.services)
                 PROVE  /\ r.completed \cup r.healthy \subseteq r.dependsOn
                        /\ r.completed \cap r.healthy = {}
                        /\ \A d \in r.healthy : \A t \in Named(other, d) : ~Disabled(t)
                        /\ is_job(other, r.name) =>
                             /\ r.published = {} /\ r.companion = {}
                             /\ \A v \in Elements(other.services) : r.name \in v.dependsOn => r.name \in v.completed
    BY DEF ConditionsAreSound
  <2>3. PICK s \in Elements(plan.services) : SameChecks(r, s)
    BY StandIns
  <2>4. /\ s.completed \cup s.healthy \subseteq s.dependsOn
        /\ s.completed \cap s.healthy = {}
        /\ \A d \in s.healthy : \A t \in Named(plan, d) : ~Disabled(t)
        /\ is_job(plan, s.name) =>
             /\ s.published = {} /\ s.companion = {}
             /\ \A v \in Elements(plan.services) : s.name \in v.dependsOn => s.name \in v.completed
    BY <2>1 DEF ConditionsAreSound
  <2>5. ASSUME NEW d \in r.healthy, NEW t \in Named(other, d) PROVE ~Disabled(t)
    <3>1. PICK u \in Elements(plan.services) : SameChecks(t, u)
      BY StandIns DEF Named
    <3>2. u \in Named(plan, d) /\ d \in s.healthy
      BY <2>3, <3>1 DEF Named, SameChecks
    <3>3. ~Disabled(u)
      BY <2>4, <3>2
    <3> QED
      BY <3>1, <3>3 DEF Disabled, SameChecks
  <2>6. ASSUME is_job(other, r.name), NEW v \in Elements(other.services), r.name \in v.dependsOn PROVE r.name \in v.completed
    <3>1. PICK u \in Elements(plan.services) : SameChecks(v, u)
      BY StandIns
    <3> QED
      BY <1>5, <2>3, <2>4, <2>6, <3>1 DEF SameChecks
  <2>7. is_job(other, r.name) => r.published = {} /\ r.companion = {}
    BY <1>5, <2>3, <2>4 DEF SameChecks
  <2>8. r.completed \cup r.healthy \subseteq r.dependsOn /\ r.completed \cap r.healthy = {}
    BY <2>3, <2>4 DEF SameChecks
  <2> QED
    BY <2>5, <2>6, <2>7, <2>8
<1>7. DependenciesAreSound(other)
  <2>1. ASSUME NEW r \in Elements(other.services) PROVE r.name \notin r.dependsOn /\ \A d \in r.dependsOn : Named(other, d) # {}
    <3>1. PICK s \in Elements(plan.services) : SameChecks(r, s)
      BY StandIns
    <3>2. s.name \notin s.dependsOn /\ \A d \in s.dependsOn : Named(plan, d) # {}
      BY DEF validate, DependenciesAreSound
    <3>3. ASSUME NEW d \in r.dependsOn PROVE Named(other, d) # {}
      <4>1. PICK u \in Elements(plan.services) : u.name = d
        BY <3>1, <3>2 DEF SameChecks, Named
      <4>2. PICK v \in Elements(other.services) : SameChecks(v, u)
        BY StandIns
      <4> QED
        BY <4>1, <4>2 DEF SameChecks, Named
    <3> QED
      BY <3>1, <3>2, <3>3 DEF SameChecks
  <2> QED
    BY <2>1 DEF DependenciesAreSound
<1>8. NoCycle(other)
  BY OrderStands DEF validate
<1>9. VolumesAreSound(other)
  <2> DEFINE Volumes(p) == {n \in UNION {Elements(s.mounts) : s \in Elements(p.services)} : n.kind = "volume"}
             Mounted(p) == {m.source.names[1] : m \in Volumes(p)}
  <2>1. ASSUME NEW m \in Volumes(other) PROVE \E n \in Volumes(plan) : m.source = n.source
    <3>1. PICK r \in Elements(other.services) : m \in Elements(r.mounts) /\ m.kind = "volume"
      OBVIOUS
    <3>2. PICK s \in Elements(plan.services) : SameMounts(r, s)
      BY StandIns
    <3>3. PICK j \in DOMAIN s.mounts : SameMount(m, s.mounts[j])
      BY <3>1, <3>2 DEF SameMounts, Elements
    <3>4. s.mounts[j] \in Elements(s.mounts)
      BY DEF Elements
    <3> QED
      BY <3>1, <3>3, <3>4 DEF SameMount
  <2>2. ASSUME NEW n \in Volumes(plan) PROVE \E m \in Volumes(other) : m.source = n.source
    <3>1. PICK s \in Elements(plan.services) : n \in Elements(s.mounts) /\ n.kind = "volume"
      OBVIOUS
    <3>2. PICK r \in Elements(other.services) : SameMounts(r, s)
      BY StandIns
    <3>3. PICK j \in DOMAIN r.mounts : SameMount(r.mounts[j], n)
      BY <3>1, <3>2 DEF SameMounts, Elements
    <3>4. r.mounts[j] \in Elements(r.mounts)
      BY DEF Elements
    <3> QED
      BY <3>1, <3>3, <3>4 DEF SameMount
  <2> HIDE DEF Volumes
  <2>3. Mounted(other) = Mounted(plan)
    BY <2>1, <2>2
  <2>4. other.volumes = plan.volumes
    BY DEF StandsFor
  <2>5. Elements(plan.volumes) \subseteq PlainNames /\ Mounted(plan) = Elements(plan.volumes) /\ IsInjective(plan.volumes)
    BY DEF validate, VolumesAreSound, Volumes
  <2>6. Elements(other.volumes) \subseteq PlainNames /\ Mounted(other) = Elements(other.volumes) /\ IsInjective(other.volumes)
    BY <2>3, <2>4, <2>5
  <2> QED
    BY <2>6 DEF VolumesAreSound, Volumes
<1>10. validate_networks(other)
  <2>1. validate_networks(plan) /\ other.networks = plan.networks
    BY DEF validate, StandsFor
  <2>2. ASSUME NEW r \in Elements(other.services)
        PROVE  /\ Elements(r.networks) \subseteq Elements(other.networks) \cup {"default"} /\ IsInjective(r.networks)
               /\ r.published \cup r.companion # {} => r.networks = <<>> \/ "default" \in Elements(r.networks)
    <3>1. PICK s \in Elements(plan.services) : SameChecks(r, s)
      BY StandIns
    <3>2. /\ Elements(s.networks) \subseteq Elements(plan.networks) \cup {"default"} /\ IsInjective(s.networks)
          /\ s.published \cup s.companion # {} => s.networks = <<>> \/ "default" \in Elements(s.networks)
      BY <2>1 DEF validate_networks
    <3> QED
      BY <2>1, <3>1, <3>2 DEF SameChecks
  <2>3. UNION {Elements(r.networks) : r \in Elements(other.services)} = UNION {Elements(s.networks) : s \in Elements(plan.services)}
    BY StandIns DEF SameChecks
  <2> QED
    BY <2>1, <2>2, <2>3 DEF validate_networks
<1> QED
  BY <1>2, <1>3, <1>4, <1>6, <1>7, <1>8, <1>9, <1>10 DEF validate

-----------------------------------------------------------------------------
\* Filling in keeps what the checks look at.

\* A plan with other values.
LEMMA ValuesStand ==
  ASSUME NEW plan, IsPlan(plan), HasChecks(plan), NEW values,
         \A s \in Elements(plan.services) : \A m \in Elements(s.mounts) : m.kind = "host" => m.source.root = "${",
         \A i \in DOMAIN plan.services : DOMAIN values[i] = DOMAIN plan.services[i].environment,
         NEW services, services = [i \in DOMAIN plan.services |-> WithValues(plan.services[i], values[i])],
         NEW other, other = [plan EXCEPT !.services = services]
  PROVE  StandsFor(other, plan) /\ HasChecks(other)
<1>2. ASSUME NEW i \in DOMAIN plan.services
      PROVE  /\ IsService(services[i]) /\ SameChecks(services[i], plan.services[i])
             /\ services[i].mounts = plan.services[i].mounts
             /\ {"image", "check", "dependsOn", "completed", "healthy", "networks"} \subseteq DOMAIN services[i]
  <2>1. IsService(plan.services[i])
    BY PlanHas
  <2>2. services[i] = WithValues(plan.services[i], values[i])
    OBVIOUS
  <2>3. {"image", "check", "dependsOn", "completed", "healthy", "networks"} \subseteq DOMAIN plan.services[i]
    BY DEF HasChecks
  <2>4. services[i] = [plan.services[i] EXCEPT !.environment = values[i]]
    BY <2>2 DEF WithValues
  <2>5. SameChecks(services[i], plan.services[i])
    BY <2>1, <2>3, <2>4 DEF SameChecks, IsService
  <2> QED
    BY <2>1, <2>2, <2>3, <2>4, <2>5, ValuesChange
<1>3. services = [i \in DOMAIN plan.services |-> services[i]]
  OBVIOUS
<1>4. \A i \in DOMAIN plan.services : IsService(services[i])
  BY <1>2
<1>5. IsPlan(other) /\ other.services = services
  <2>1. IsPlan([plan EXCEPT !.services = services]) /\ [plan EXCEPT !.services = services].services = services
    BY <1>3, <1>4, ServicesAre
  <2> QED
    BY <2>1
<1>6. other.volumes = plan.volumes /\ other.networks = plan.networks /\ {"volumes", "networks"} \subseteq DOMAIN other
  BY DEF HasChecks
<1>7. DOMAIN services = DOMAIN plan.services
  BY <1>3
<1>8. ASSUME NEW i \in DOMAIN plan.services, NEW j \in DOMAIN plan.services[i].mounts
      PROVE  SameMount(services[i].mounts[j], plan.services[i].mounts[j])
  <2>1. plan.services[i] \in Elements(plan.services) /\ plan.services[i].mounts[j] \in Elements(plan.services[i].mounts)
    BY DEF Elements
  <2> QED
    BY <1>2, <2>1 DEF SameMount
<1>9. StandsFor(other, plan)
  BY <1>2, <1>5, <1>6, <1>7, <1>8 DEF StandsFor, SameMounts
<1> QED
  BY <1>2, <1>5, <1>6, <1>7, <1>9 DEF HasChecks

\* A plan with the values of the installer, and with those of a person.
LEMMA PlatformStands ==
  ASSUME NEW plan, IsPlan(plan), HasChecks(plan), NEW host,
         \A s \in Elements(plan.services) : \A m \in Elements(s.mounts) : m.kind = "host" => m.source.root = "${"
  PROVE  StandsFor(fill_platform_values(plan, host), plan) /\ HasChecks(fill_platform_values(plan, host))
<1>1. PICK values : values = [i \in DOMAIN plan.services |-> [j \in DOMAIN plan.services[i].environment |->
            [k \in DOMAIN plan.services[i].environment[j] |-> PlatformPart(plan, host, plan.services[i].environment[j][k])]]]
  OBVIOUS
<1>2. PICK services : services = [i \in DOMAIN plan.services |-> WithValues(plan.services[i], values[i])]
  OBVIOUS
<1>3. services
        = [i \in DOMAIN plan.services |-> WithValues(plan.services[i], [j \in DOMAIN plan.services[i].environment |->
            [k \in DOMAIN plan.services[i].environment[j] |-> PlatformPart(plan, host, plan.services[i].environment[j][k])]])]
  BY <1>1, <1>2
<1>4. fill_platform_values(plan, host) = [plan EXCEPT !.services = services]
  BY <1>3 DEF fill_platform_values, MapValues, EachService
<1>5. PICK other : other = [plan EXCEPT !.services = services]
  OBVIOUS
<1>6. \A i \in DOMAIN plan.services : DOMAIN values[i] = DOMAIN plan.services[i].environment
  BY <1>1
<1>7. StandsFor(other, plan) /\ HasChecks(other)
  BY <1>2, <1>5, <1>6, ValuesStand
<1> QED
  BY <1>4, <1>5, <1>7

LEMMA AnswersStand ==
  ASSUME NEW plan, IsPlan(plan), HasChecks(plan), NEW given, NEW secrets,
         \A s \in Elements(plan.services) : \A m \in Elements(s.mounts) : m.kind = "host" => m.source.root = "${"
  PROVE  StandsFor(Substitution(plan, given, secrets), plan) /\ HasChecks(Substitution(plan, given, secrets))
<1>1. PICK values : values = [i \in DOMAIN plan.services |-> [j \in DOMAIN plan.services[i].environment |->
            substitute(plan.services[i].environment[j], given, secrets)]]
  OBVIOUS
<1>2. PICK services : services = [i \in DOMAIN plan.services |-> WithValues(plan.services[i], values[i])]
  OBVIOUS
<1>3. services
        = [i \in DOMAIN plan.services |-> WithValues(plan.services[i], [j \in DOMAIN plan.services[i].environment |->
            substitute(plan.services[i].environment[j], given, secrets)])]
  BY <1>1, <1>2
<1>4. Substitution(plan, given, secrets) = [plan EXCEPT !.services = services]
  BY <1>3 DEF Substitution, MapValues, EachService
<1>5. PICK other : other = [plan EXCEPT !.services = services]
  OBVIOUS
<1>6. \A i \in DOMAIN plan.services : DOMAIN values[i] = DOMAIN plan.services[i].environment
  BY <1>1
<1>7. StandsFor(other, plan) /\ HasChecks(other)
  BY <1>2, <1>5, <1>6, ValuesStand
<1> QED
  BY <1>4, <1>5, <1>7

\* The answer to every folder that is shared.
FoldersAreGiven(plan, given) ==
  \A s \in Elements(plan.services) : \A m \in Elements(s.mounts) : m.kind = "host" =>
    /\ m.source.root = "${" /\ given[m.source.key] # <<>>
    /\ \E folder \in Folders : given[m.source.key] = FolderPath(folder)

\* A plan with its folders.
LEMMA FoldersStand ==
  ASSUME NEW plan, IsPlan(plan), HasChecks(plan), NEW given, FoldersAreGiven(plan, given)
  PROVE  StandsFor(WithFolders(plan, given), plan)
<1>1. PICK services : services = [i \in DOMAIN plan.services |->
          WithMounts(plan.services[i], [j \in DOMAIN plan.services[i].mounts |-> WithAnswer(plan.services[i].mounts[j], given)])]
  OBVIOUS
<1>2. PICK other : other = WithFolders(plan, given)
  OBVIOUS
<1>3. other = [plan EXCEPT !.services = services]
  BY <1>1, <1>2 DEF WithFolders, EachService
<1>4. ASSUME NEW i \in DOMAIN plan.services
      PROVE  /\ IsService(services[i]) /\ SameChecks(services[i], plan.services[i])
             /\ services[i].mounts = [j \in DOMAIN plan.services[i].mounts |-> WithAnswer(plan.services[i].mounts[j], given)]
  <2>1. PICK s : s = plan.services[i]
    OBVIOUS
  <2>2. IsService(s)
    BY <2>1, PlanHas
  <2>3. PICK mounts : mounts = [j \in DOMAIN s.mounts |-> WithAnswer(s.mounts[j], given)]
    OBVIOUS
  <2>4. services[i] = WithMounts(s, mounts)
    BY <1>1, <2>1, <2>3
  <2>5. {"image", "check", "dependsOn", "completed", "healthy", "networks"} \subseteq DOMAIN s
    BY <2>1 DEF HasChecks
  <2>6. services[i] = [s EXCEPT !.mounts = mounts]
    BY <2>4 DEF WithMounts
  <2>7. SameChecks(services[i], s)
    BY <2>2, <2>5, <2>6 DEF SameChecks, IsService
  <2>8. IsService(services[i]) /\ services[i].mounts = mounts
    BY <2>2, <2>3, <2>4, FolderMounts
  <2> QED
    BY <2>1, <2>3, <2>7, <2>8
<1>5. services = [i \in DOMAIN plan.services |-> services[i]]
  BY <1>1
<1>6. IsPlan(other) /\ other.services = services
  BY <1>3, <1>4, <1>5, ServicesAre
<1>7. other.volumes = plan.volumes /\ other.networks = plan.networks
  BY <1>3 DEF HasChecks
<1>8. DOMAIN services = DOMAIN plan.services
  BY <1>5
<1>9. ASSUME NEW i \in DOMAIN plan.services, NEW j \in DOMAIN plan.services[i].mounts
      PROVE  SameMount(services[i].mounts[j], plan.services[i].mounts[j])
  <2>1. PICK m : m = plan.services[i].mounts[j]
    OBVIOUS
  <2>2. plan.services[i] \in Elements(plan.services) /\ m \in Elements(plan.services[i].mounts) /\ IsMount(m)
    BY <2>1, PlanHas DEF Elements, IsService
  <2>3. services[i].mounts[j] = WithAnswer(m, given)
    BY <1>4, <2>1
  <2>4. CASE m.kind # "host"
    <3>1. WithAnswer(m, given) = m
      BY <2>4 DEF WithAnswer
    <3> QED
      BY <2>1, <2>3, <2>4, <3>1 DEF SameMount
  <2>5. CASE m.kind = "host"
    <3>1. PICK folder \in Folders : given[m.source.key] = FolderPath(folder)
      BY <2>2, <2>5 DEF FoldersAreGiven
    <3>2. m.source.root = "${" /\ given[m.source.key] # <<>>
      BY <2>2, <2>5 DEF FoldersAreGiven
    <3>3. WithAnswer(m, given) = [m EXCEPT !.source = FolderPath(folder)]
      BY <2>5, <3>1, <3>2 DEF WithAnswer
    <3>4. /\ WithAnswer(m, given).kind = m.kind /\ WithAnswer(m, given).target = m.target
          /\ WithAnswer(m, given).source = FolderPath(folder)
      BY <2>2, <3>3 DEF IsMount
    <3>5. FolderPath(folder).root = "drive" /\ FolderPath(folder).names = folder
      BY DEF FolderPath
    <3>6. ".." \notin Elements(folder)
      BY ProvisionAssumption DEF ProvisionAssumption
    <3>7. Absolute(FolderPath(folder))
      BY <3>5, <3>6 DEF Absolute
    <3> QED
      BY <2>1, <2>3, <2>5, <3>4, <3>7 DEF SameMount
  <2> QED
    BY <2>4, <2>5
<1>10. ASSUME NEW i \in DOMAIN plan.services PROVE SameMounts(services[i], plan.services[i])
  <2>1. DOMAIN services[i].mounts = DOMAIN plan.services[i].mounts
    BY <1>4
  <2> QED
    BY <1>9, <2>1 DEF SameMounts
<1> QED
  BY <1>2, <1>4, <1>6, <1>7, <1>8, <1>10 DEF StandsFor

-----------------------------------------------------------------------------
\* What the installer leaves to be filled.

\* The keys of the questions and of the credentials, and no others.
LEMMA DeclaredAre ==
  ASSUME NEW t, t.fields \in Seq(Elements(t.fields)), t.secrets \in Seq(Elements(t.secrets))
  PROVE  declared(t) \subseteq {f.key : f \in Elements(t.fields)} \cup SecretKeys(t)
<1>1. PICK n \in Nat : DOMAIN t.fields = 1..n /\ Len(t.fields) = n
  OBVIOUS
<1>2. PICK m \in Nat : DOMAIN t.secrets = 1..m /\ Len(t.secrets) = m
  OBVIOUS
<1>3. PICK a : a = Keys(t.fields)
  OBVIOUS
<1>4. PICK b : b = Keys(t.secrets)
  OBVIOUS
<1>5. /\ a \in Seq(Elements(a)) /\ Len(a) = n /\ \A i \in 1..n : a[i] = t.fields[i].key
      /\ b \in Seq(Elements(b)) /\ Len(b) = m /\ \A i \in 1..m : b[i] = t.secrets[i].key
  BY <1>1, <1>2, <1>3, <1>4, KeysAre
<1>6. PICK all : all = a \o b
  OBVIOUS
<1>7. /\ DOMAIN all = 1..(n + m)
      /\ \A i \in 1..(n + m) : all[i] = IF i <= n THEN a[i] ELSE b[i - n]
  <2>1. /\ DOMAIN all = 1..(Len(a) + Len(b))
        /\ \A i \in 1..(Len(a) + Len(b)) : all[i] = IF i <= Len(a) THEN a[i] ELSE b[i - Len(a)]
    <3>1. a \in Seq(Elements(a)) /\ b \in Seq(Elements(b))
      BY <1>5
    <3> QED
      BY <1>6, <3>1, TwoJoined
  <2> QED
    BY <1>5, <2>1
<1>8. ASSUME NEW key \in declared(t) PROVE key \in {f.key : f \in Elements(t.fields)} \cup SecretKeys(t)
  <2>1. PICK k \in 1..(n + m) : key = all[k]
    BY <1>3, <1>4, <1>6, <1>7 DEF declared, Elements
  <2>2. CASE k <= n
    <3>1. k \in 1..n /\ key = t.fields[k].key
      BY <1>5, <1>7, <2>1, <2>2
    <3> QED
      BY <1>1, <3>1 DEF Elements
  <2>3. CASE ~(k <= n)
    <3>1. k - n \in 1..m /\ key = t.secrets[k - n].key
      BY <1>5, <1>7, <2>1, <2>3
    <3> QED
      BY <1>2, <3>1 DEF Elements, SecretKeys
  <2> QED
    BY <2>2, <2>3
<1> QED
  BY <1>8

\* The placeholders of a template's values.
Asked(t) == UNION {placeholders(v) : v \in environment(t)}

\* What the installer does to a placeholder.
LEMMA PartBecomes ==
  ASSUME NEW plan, NEW host, NEW part, part[1] = "key" =>
           part[2][1] = "own" \/ (part[2][1] \in {"platform", "companion"} /\ part[2][2] \in {"url", "host", "port"}),
         NEW left, left = PlatformPart(plan, host, part)
  PROVE  /\ part[1] = "key" /\ part[2][1] = "own" => left = part
         /\ left[1] = "key" =>
              /\ left = part
              /\ \/ part[2][1] = "own" \/ part[3] # {}
                 \/ part[2][1] = "companion" /\ ~\E s \in companions(plan) : s.name = part[2][3]
<1>1. CASE part[1] # "key"
  BY <1>1 DEF PlatformPart
<1>2. CASE part[1] = "key" /\ part[3] # {}
  BY <1>2 DEF PlatformPart
<1>3. CASE part[1] = "key" /\ part[3] = {} /\ part[2][1] = "own"
  BY <1>3 DEF PlatformPart
<1>4. CASE part[1] = "key" /\ part[3] = {} /\ part[2][1] = "platform"
  <2>1. left = <<part[2][2], host>>
    BY <1>4 DEF PlatformPart
  <2>2. left[1] = part[2][2]
    BY <2>1
  <2> QED
    BY <1>4, <2>2
<1>5. CASE part[1] = "key" /\ part[3] = {} /\ part[2][1] = "companion"
  <2>1. CASE \E s \in companions(plan) : s.name = part[2][3]
    <3>1. left = <<part[2][2], CompanionHost(plan, part[2][3])>>
      BY <1>5, <2>1 DEF PlatformPart
    <3>2. left[1] = part[2][2]
      BY <3>1
    <3> QED
      BY <1>5, <3>2
  <2>2. CASE ~\E s \in companions(plan) : s.name = part[2][3]
    <3>1. left = part
      BY <1>5, <2>2 DEF PlatformPart
    <3> QED
      BY <1>5, <2>2, <3>1
  <2> QED
    BY <2>1, <2>2
<1> QED
  BY <1>1, <1>2, <1>3, <1>4, <1>5

\* A template that is addressed asks what it asked, except for its addresses.
LEMMA AddressedAsks ==
  ASSUME NEW t, IsTemplate(t), NEW other, other = Addressed(t)
  PROVE  /\ other.fields = t.fields /\ other.secrets = t.secrets /\ other.seeds = t.seeds
         /\ other.plan = fill_platform_values(t.plan, MainHost(t.plan))
         /\ \A part \in Asked(other) :
              /\ part \in Asked(t)
              /\ \/ part[2][1] = "own" \/ part[3] # {}
                 \/ part[2][1] = "companion" /\ ~\E s \in companions(t.plan) : s.name = part[2][3]
         /\ \A part \in Asked(t) : part[2][1] = "own" => part \in Asked(other)
<1>0. PICK plan : plan = t.plan
  OBVIOUS
<1>1. PICK host : host = MainHost(plan)
  OBVIOUS
<1>2. PICK filled : filled = fill_platform_values(plan, host)
  OBVIOUS
<1>3. other = [t EXCEPT !.plan = filled] /\ IsPlan(plan)
  BY <1>0, <1>1, <1>2 DEF Addressed, IsTemplate
<1>4. other.fields = t.fields /\ other.secrets = t.secrets /\ other.seeds = t.seeds /\ other.plan = filled
  BY <1>3 DEF IsTemplate
<1>5. DOMAIN filled.services = DOMAIN plan.services
  BY <1>2, <1>3, PlatformChanges DEF Like
<1>6. ASSUME NEW i \in DOMAIN plan.services
      PROVE  /\ DOMAIN filled.services[i].environment = DOMAIN plan.services[i].environment
             /\ \A j \in DOMAIN plan.services[i].environment : filled.services[i].environment[j]
                  = [k \in DOMAIN plan.services[i].environment[j] |-> PlatformPart(plan, host, plan.services[i].environment[j][k])]
  <2>1. PICK is : is = fill_platform_values(plan, host).services[i].environment
    OBVIOUS
  <2>2. PICK was : was = plan.services[i].environment
    OBVIOUS
  <2>3. DOMAIN is = DOMAIN was /\ \A j \in DOMAIN was : is[j] = [k \in DOMAIN was[j] |-> PlatformPart(plan, host, was[j][k])]
    BY <1>3, <2>1, <2>2, PlatformValues
  <2>4. is = filled.services[i].environment
    BY <1>2, <2>1
  <2> QED
    BY <2>2, <2>3, <2>4
<1>7. ASSUME NEW part, part[1] = "key" => part \in Asked(t)
      PROVE  part[1] = "key" => part[2][1] = "own" \/ (part[2][1] \in {"platform", "companion"} /\ part[2][2] \in {"url", "host", "port"})
  BY <1>7 DEF IsTemplate, Asked
<1>8. ASSUME NEW i \in DOMAIN plan.services, NEW j \in DOMAIN plan.services[i].environment,
             NEW k \in DOMAIN plan.services[i].environment[j], plan.services[i].environment[j][k][1] = "key"
      PROVE  plan.services[i].environment[j][k] \in Asked(t)
  <2>1. PICK value : value = plan.services[i].environment[j]
    OBVIOUS
  <2>2. value \in environment(t)
    BY <1>0, <2>1 DEF environment, Elements
  <2>3. value[k] \in placeholders(value)
    BY <1>8, <2>1 DEF placeholders, Elements
  <2> QED
    BY <2>1, <2>2, <2>3 DEF Asked
<1>9. ASSUME NEW left \in Asked(other)
      PROVE  /\ left \in Asked(t)
             /\ \/ left[2][1] = "own" \/ left[3] # {}
                \/ left[2][1] = "companion" /\ ~\E s \in companions(plan) : s.name = left[2][3]
  <2>1. PICK value \in environment(other) : left \in placeholders(value)
    BY DEF Asked
  <2>2. PICK i \in DOMAIN plan.services : value \in Elements(filled.services[i].environment)
    BY <1>4, <1>5, <2>1 DEF environment, Elements
  <2>3. PICK j \in DOMAIN plan.services[i].environment : value = filled.services[i].environment[j]
    BY <1>6, <2>2 DEF Elements
  <2>4. PICK was : was = plan.services[i].environment[j]
    OBVIOUS
  <2>5. value = [k \in DOMAIN was |-> PlatformPart(plan, host, was[k])]
    BY <1>6, <2>3, <2>4
  <2>6. PICK k \in DOMAIN was : left = PlatformPart(plan, host, was[k]) /\ left[1] = "key"
    BY <2>1, <2>5 DEF placeholders, Elements
  <2>7. PICK part : part = was[k]
    OBVIOUS
  <2>8. part[1] = "key" => part \in Asked(t)
    BY <1>8, <2>4, <2>7
  <2>9. part[1] = "key" => part[2][1] = "own" \/ (part[2][1] \in {"platform", "companion"} /\ part[2][2] \in {"url", "host", "port"})
    BY <1>7, <2>8
  <2>10. /\ left = part
         /\ \/ part[2][1] = "own" \/ part[3] # {}
            \/ part[2][1] = "companion" /\ ~\E s \in companions(plan) : s.name = part[2][3]
    BY <2>6, <2>7, <2>9, PartBecomes
  <2> QED
    BY <2>6, <2>8, <2>10
<1>10. ASSUME NEW part \in Asked(t), part[2][1] = "own" PROVE part \in Asked(other)
  <2>1. PICK was \in environment(t) : part \in placeholders(was)
    BY DEF Asked
  <2>2. PICK i \in DOMAIN plan.services : was \in Elements(plan.services[i].environment)
    BY <1>0, <2>1 DEF environment, Elements
  <2>3. PICK j \in DOMAIN plan.services[i].environment : was = plan.services[i].environment[j]
    BY <2>2 DEF Elements
  <2>4. PICK k \in DOMAIN was : part = was[k] /\ part[1] = "key"
    BY <2>1 DEF placeholders, Elements
  <2>5. PICK value : value = filled.services[i].environment[j]
    OBVIOUS
  <2>6. value = [l \in DOMAIN was |-> PlatformPart(plan, host, was[l])]
    BY <1>6, <2>3, <2>5
  <2>7. PlatformPart(plan, host, part) = part
    BY <1>10, <2>4, PartBecomes
  <2>8. k \in DOMAIN value /\ value[k] = part
    BY <2>4, <2>6, <2>7
  <2>9. part \in placeholders(value)
    BY <2>4, <2>8 DEF placeholders, Elements
  <2>10. j \in DOMAIN filled.services[i].environment
    BY <1>6, <2>3
  <2>11. value \in environment(other)
    BY <1>4, <1>5, <2>5, <2>10 DEF environment, Elements
  <2> QED
    BY <2>9, <2>11 DEF Asked
<1> QED
  BY <1>0, <1>1, <1>2, <1>4, <1>9, <1>10

\* What can be shared is a question's answer.
LEMMA HostsAsked ==
  ASSUME NEW t, FoldersAreAsked(t)
  PROVE  \A s \in Elements(t.plan.services) : \A m \in Elements(s.mounts) : m.kind = "host" => m.source.root = "${"
BY DEF FoldersAreAsked

\* A template that is addressed is as valid as it was.
LEMMA AddressedIsValid ==
  ASSUME NEW t, IsTemplate(t), ValidTemplate(t), NEW other, other = Addressed(t)
  PROVE  ValidTemplate(other) /\ IsPlan(other.plan) /\ HasChecks(other.plan)
<1>1. PICK plan : plan = t.plan
  OBVIOUS
<1>2. PICK filled : filled = fill_platform_values(plan, MainHost(plan))
  OBVIOUS
<1>3. /\ other.fields = t.fields /\ other.secrets = t.secrets /\ other.seeds = t.seeds /\ other.plan = filled
      /\ \A part \in Asked(other) : part \in Asked(t)
      /\ \A part \in Asked(t) : part[2][1] = "own" => part \in Asked(other)
  BY <1>1, <1>2, AddressedAsks
<1>4. IsPlan(plan) /\ HasChecks(plan) /\ FoldersAreAsked(t)
  BY <1>1 DEF IsTemplate
<1>5. StandsFor(filled, plan) /\ HasChecks(filled)
  BY <1>1, <1>2, <1>4, HostsAsked, PlatformStands
<1>6. Like(filled, plan) /\ SameAddresses(filled, plan)
  BY <1>2, <1>4, PlatformChanges
<1>7. validate(filled) /\ IsPlan(filled)
  BY <1>1, <1>5, StandsSound DEF ValidTemplate, StandsFor
<1>8. SeedsAreSound(other)
  BY <1>3 DEF ValidTemplate, SeedsAreSound
<1>9. \A f \in Elements(other.fields) : FieldIsSound(f)
  BY <1>3 DEF ValidTemplate
<1>10. \A s \in Elements(other.secrets) : SecretIsSound(other, s)
  BY <1>3 DEF ValidTemplate, SecretIsSound
<1>11. CommandsAreSound(other)
  <2>1. ASSUME NEW s \in Elements(filled.services) PROVE placeholders(s.overrides.words) = {}
    <3>1. PICK r \in Elements(plan.services) : s.overrides = r.overrides
      BY <1>6 DEF Like, Elements
    <3> QED
      BY <1>1, <3>1 DEF ValidTemplate, CommandsAreSound
  <2> QED
    BY <1>3, <2>1 DEF CommandsAreSound
<1>12. SourcesAreSound(other)
  <2>1. PICK used : used = {part[2] : part \in Asked(t)}
    OBVIOUS
  <2>2. PICK left : left = {part[2] : part \in Asked(other)}
    OBVIOUS
  <2>3. left \subseteq used /\ {key \in left : ~IsReserved(key)} = {key \in used : ~IsReserved(key)}
    BY <1>3, <2>1, <2>2 DEF IsReserved
  <2>4. HostKeys(other) = HostKeys(t)
    <3>1. UNION {Elements(s.mounts) : s \in Elements(filled.services)} = UNION {Elements(s.mounts) : s \in Elements(plan.services)}
      BY <1>6 DEF Like, Elements
    <3> QED
      BY <1>1, <1>3, <3>1 DEF HostKeys
  <2>5. declared(other) = declared(t)
    BY <1>3 DEF declared
  <2>6. /\ {key \in used : ~IsReserved(key)} \cup HostKeys(t) = declared(t)
        /\ IsInjective(Keys(t.fields) \o Keys(t.secrets))
        /\ \A key \in used : key[1] = "companion" => \E s \in companions(plan) : s.name = key[3]
    BY <1>1, <2>1 DEF ValidTemplate, SourcesAreSound, Asked
  <2>7. ASSUME NEW key \in left, key[1] = "companion" PROVE \E s \in companions(filled) : s.name = key[3]
    <3>1. \E s \in companions(plan) : s.name = key[3]
      BY <2>3, <2>6, <2>7
    <3>2. (\E s \in companions(filled) : s.name = key[3]) <=> (\E s \in companions(plan) : s.name = key[3])
      BY <1>6, SameHosts
    <3> QED
      BY <3>1, <3>2
  <2>8. {key \in left : ~IsReserved(key)} \cup HostKeys(other) = declared(other)
    BY <2>3, <2>4, <2>5, <2>6
  <2>9. IsInjective(Keys(other.fields) \o Keys(other.secrets))
    BY <1>3, <2>6
  <2> QED
    BY <1>3, <2>2, <2>7, <2>8, <2>9 DEF SourcesAreSound, Asked
<1> QED
  BY <1>3, <1>5, <1>7, <1>8, <1>9, <1>10, <1>11, <1>12 DEF ValidTemplate

\* Everything it still asks has an answer, a credential or a default.
LEMMA AddressedFills ==
  ASSUME NEW t, IsTemplate(t), ValidTemplate(t), NEW other, other = Addressed(t),
         NEW answers, NEW given \in accept_answers(t, answers), NEW secrets, DOMAIN secrets = SecretKeys(t),
         NEW value \in environment(other)
  PROVE  CanSubstitute(value, given, secrets)
<1>1. SUFFICES ASSUME NEW part \in placeholders(value) PROVE Replacement(part, given, secrets) # {}
  BY DEF CanSubstitute
<1>2. part \in Asked(other)
  BY DEF Asked
<1>3. /\ part \in Asked(t)
      /\ \/ part[2][1] = "own" \/ part[3] # {}
         \/ part[2][1] = "companion" /\ ~\E s \in companions(t.plan) : s.name = part[2][3]
  BY <1>2, AddressedAsks
<1>4. part[2] \in {p[2] : p \in Asked(t)}
  BY <1>3
<1>5. PICK used : used = {p[2] : p \in Asked(t)}
  OBVIOUS
<1>6. /\ {key \in used : ~IsReserved(key)} \cup HostKeys(t) = declared(t)
      /\ \A key \in used : key[1] = "companion" => \E s \in companions(t.plan) : s.name = key[3]
  BY <1>5 DEF ValidTemplate, SourcesAreSound, Asked
<1>7. part[2][1] = "own" \/ part[3] # {}
  BY <1>3, <1>4, <1>5, <1>6
<1>8. CASE part[2] \in DOMAIN given
  BY <1>8 DEF Replacement
<1>9. CASE part[2] \notin DOMAIN given /\ part[2] \in DOMAIN secrets
  BY <1>9 DEF Replacement
<1>10. CASE part[2] \notin DOMAIN given /\ part[2] \notin DOMAIN secrets
  <2>1. part[3] # {}
    <3>1. SUFFICES ASSUME part[2][1] = "own" PROVE FALSE
      BY <1>7
    <3>2. part[2] \in declared(t)
      BY <1>4, <1>5, <1>6, <3>1 DEF IsReserved
    <3>3. part[2] \in {f.key : f \in Elements(t.fields)} \cup SecretKeys(t)
      BY <3>2, DeclaredAre DEF IsTemplate
    <3>4. DOMAIN given = {f.key : f \in Elements(t.fields)}
      BY DEF accept_answers
    <3> QED
      BY <1>10, <3>3, <3>4
  <2>2. Replacement(part, given, secrets) = {<< <<"text", x>> >> : x \in part[3]}
    BY <1>10 DEF Replacement
  <2>3. PICK x : x \in part[3]
    BY <2>1
  <2>4. << <<"text", x>> >> \in Replacement(part, given, secrets)
    BY <2>2, <2>3
  <2> QED
    BY <2>4
<1> QED
  BY <1>8, <1>9, <1>10

\* The credentials that are made for a template fit it.
Made(t, id) == [key \in SecretKeys(t) |-> generate(CHOOSE s \in Elements(t.secrets) : s.key = key, id)]

LEMMA MadeFit ==
  ASSUME NEW t, IsTemplate(t), IsInjective(Keys(t.fields) \o Keys(t.secrets)), NEW id
  PROVE  SecretsFit(t, Made(t, id))
<1>1. \A r, s \in Elements(t.secrets) : r.key = s.key => r = s
  BY KeysApart DEF IsTemplate
<1>2. SUFFICES ASSUME NEW s \in Elements(t.secrets)
               PROVE  s.key \in DOMAIN Made(t, id) /\ accepts(s, Made(t, id)[s.key])
  BY DEF SecretsFit
<1>3. s.key \in SecretKeys(t)
  BY DEF SecretKeys
<1>4. (CHOOSE r \in Elements(t.secrets) : r.key = s.key) = s
  BY <1>1
<1>5. Made(t, id)[s.key] = generate(s, id) /\ s.key \in DOMAIN Made(t, id)
  BY <1>3, <1>4 DEF Made
<1>6. s.format \in {"alphanumeric", "hex", "base64"}
  BY DEF IsTemplate, Wider
<1>7. s.format \in Wider[s.format]
  BY <1>6 DEF Wider
<1>8. generate(s, id).length = output_len(s) /\ generate(s, id).format = s.format
  BY DEF generate
<1> QED
  BY <1>5, <1>7, <1>8 DEF accepts

\* A template that passes its checks resolves: whatever answers are accepted, if they leave
\* no folder out, and with the credentials that are made for it, the plan that is filled in
\* passes every check again.
THEOREM EveryTemplateResolves ==
  ASSUME NEW t, IsTemplate(t), NEW answers, NEW id
  PROVE  Resolves(t, answers, Made(t, id))
<1>1. SUFFICES ASSUME ValidTemplate(t), NEW given \in accept_answers(t, answers),
                      \A f \in Elements(t.fields) : f.kind = "folder" => given[f.key] # <<>>
               PROVE  resolve(Addressed(t), answers, Made(t, id)) # {}
  BY DEF Resolves
<1>2. PICK other : other = Addressed(t)
  OBVIOUS
<1>3. PICK secrets : secrets = Made(t, id)
  OBVIOUS
<1>4. ValidTemplate(other) /\ IsPlan(other.plan) /\ HasChecks(other.plan)
  BY <1>1, <1>2, AddressedIsValid
<1>5. other.fields = t.fields /\ other.secrets = t.secrets /\ other.plan = fill_platform_values(t.plan, MainHost(t.plan))
  BY <1>2, AddressedAsks
<1>6. SecretsFit(other, secrets) /\ DOMAIN secrets = SecretKeys(t)
  <2>1. IsInjective(Keys(t.fields) \o Keys(t.secrets))
    BY <1>1 DEF ValidTemplate, SourcesAreSound
  <2>2. SecretsFit(t, secrets)
    BY <1>3, <2>1, MadeFit
  <2>3. SecretsFit(other, secrets)
    BY <1>5, <2>2 DEF SecretsFit
  <2> QED
    BY <1>3, <2>3 DEF Made
<1>7. given \in accept_answers(other, answers)
  BY <1>1, <1>5 DEF accept_answers
<1>8. \A value \in environment(other) : CanSubstitute(value, given, secrets)
  BY <1>1, <1>2, <1>6, AddressedFills
<1>9. Like(other.plan, t.plan)
  BY <1>5, PlatformChanges DEF IsTemplate
<1>10. PICK filled : filled = Substitution(other.plan, given, secrets)
  OBVIOUS
<1>11. Like(filled, other.plan)
  BY <1>4, <1>10, AnswersChange
<1>12. \A s \in Elements(other.plan.services) : \A m \in Elements(s.mounts) : m.kind = "host" => m.source.root = "${"
  <2>1. ASSUME NEW s \in Elements(other.plan.services) PROVE \E r \in Elements(t.plan.services) : s.mounts = r.mounts
    BY <1>9 DEF Like, Elements
  <2> QED
    BY <2>1, HostsAsked DEF IsTemplate
<1>13. StandsFor(filled, other.plan) /\ HasChecks(filled)
  BY <1>4, <1>10, <1>12, AnswersStand
<1>14. validate(filled) /\ IsPlan(filled)
  BY <1>4, <1>13, StandsSound DEF ValidTemplate, StandsFor
<1>15. FoldersAreGiven(filled, given)
  <2>1. SUFFICES ASSUME NEW s \in Elements(filled.services), NEW m \in Elements(s.mounts), m.kind = "host"
                 PROVE  /\ m.source.root = "${" /\ given[m.source.key] # <<>>
                        /\ \E folder \in Folders : given[m.source.key] = FolderPath(folder)
    BY DEF FoldersAreGiven
  <2>2. PICK r \in Elements(t.plan.services) : s.mounts = r.mounts
    BY <1>9, <1>11 DEF Like, Elements
  <2>3. m \in Elements(r.mounts)
    BY <2>2
  <2>4. FoldersAreAsked(t)
    BY DEF IsTemplate
  <2>5. /\ m.source.root = "${"
        /\ given[m.source.key] = <<>> \/ \E a : \E folder \in share_folder(a) : given[m.source.key] = FolderPath(folder)
    BY <1>1, <2>1, <2>3, <2>4, GivenIs
  <2>6. PICK f \in Elements(t.fields) : f.key = m.source.key /\ f.kind = "folder"
    <3>1. {f.kind : f \in {g \in Elements(t.fields) : g.key = m.source.key}} = {"folder"}
      BY <2>1, <2>3, <2>4 DEF FoldersAreAsked
    <3> QED
      BY <3>1
  <2>7. given[m.source.key] # <<>>
    BY <1>1, <2>6
  <2>8. \A a : share_folder(a) \subseteq Folders
    BY DEF share_folder
  <2> QED
    BY <2>5, <2>7, <2>8
<1>16. PICK resolved : resolved = WithFolders(filled, given)
  OBVIOUS
<1>17. validate(resolved)
  BY <1>13, <1>14, <1>15, <1>16, FoldersStand, StandsSound
<1>18. resolved \in resolve(other, answers, secrets)
  BY <1>4, <1>6, <1>7, <1>8, <1>10, <1>16, <1>17 DEF resolve
<1> QED
  BY <1>2, <1>3, <1>18

\* The form of any template tells nothing of a credential.
LEMMA EveryFormIsDiscreet ==
  ASSUME NEW t
  PROVE  ReviewIsDiscreet(t)
<1>1. SUFFICES ASSUME NEW review \in setup_review(t), NEW i \in DOMAIN t.fields, t.fields[i].sensitive
               PROVE  review.fields[i].default = {} /\ review.fields[i].options = {}
  BY DEF ReviewIsDiscreet
<1>2. PICK fields : fields = [k \in DOMAIN t.fields |->
           [key |-> t.fields[k].key, required |-> t.fields[k].required, sensitive |-> t.fields[k].sensitive,
            control |-> IF t.fields[k].sensitive THEN "password" ELSE t.fields[k].kind, readOnly |-> t.fields[k].readOnly,
            default |-> IF t.fields[k].sensitive THEN {} ELSE t.fields[k].default,
            options |-> IF t.fields[k].sensitive \/ t.fields[k].kind # "choice" THEN {} ELSE t.fields[k].allows]]
  OBVIOUS
<1>3. review.fields = fields
  <2>1. PICK services, credentials : services = Len(t.plan.services) /\ credentials = Len(t.secrets)
    OBVIOUS
  <2>2. setup_review(t) \subseteq {[fields |-> fields, services |-> services, credentials |-> credentials]}
    BY <1>2, <2>1, Zenon DEF setup_review
  <2>3. review = [fields |-> fields, services |-> services, credentials |-> credentials]
    BY <2>2
  <2> QED
    BY <2>3
<1>4. fields[i].default = {} /\ fields[i].options = {}
  BY <1>1, <1>2
<1> QED
  BY <1>3, <1>4

=============================================================================
