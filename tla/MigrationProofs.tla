-------------------------- MODULE MigrationProofs --------------------------
(***************************************************************************)
(* Proofs about Migration: job names are distinct whatever containers are  *)
(* planned, nothing is done for a service that was not reviewed, and the   *)
(* exit status says whether every service was moved.                       *)
(***************************************************************************)
EXTENDS Migration, FiniteSetTheorems, SequenceTheorems, TLAPS

-----------------------------------------------------------------------------
(* Job names *)

(* Every set of natural numbers has a least one: what stands in for an     *)
(* induction in the proofs about names and plans below.                    *)
LEMMA LeastNat ==
    ASSUME NEW S \in SUBSET Nat, S # {} PROVE \E x \in S : \A y \in S : x <= y
<1> DEFINE Below == {1 .. x : x \in S}
<1>1. /\ Below # {}
      /\ Below \subseteq FiniteSubsetsOf(Nat)
  <2>1. \A x \in S : 1 .. x \in FiniteSubsetsOf(Nat)
    <3> TAKE x \in S
    <3>1. IsFiniteSet(1 .. x) BY FS_Interval
    <3>2. 1 .. x \in SUBSET Nat OBVIOUS
    <3>3. QED BY <3>1, <3>2 DEF FiniteSubsetsOf
  <2>2. QED BY <2>1
<1>2. \E m \in Below : \A b \in Below : ~ (<<b, m>> \in StrictSubsetOrdering(Nat))
  <2> HIDE DEF Below
  <2>1. QED BY <1>1, FS_StrictSubsetOrderingWellFounded, WFMin
<1>3. PICK x \in S : \A b \in Below : ~ (<<b, 1 .. x>> \in StrictSubsetOrdering(Nat))
  BY <1>2
<1>4. ASSUME NEW y \in S, y < x PROVE FALSE
  <2>1. 1 .. y \in Below OBVIOUS
  <2>2. (1 .. y) \subseteq (1 .. x) /\ (1 .. y) # (1 .. x)
    <3>1. x \in 1 .. x /\ x \notin 1 .. y BY <1>4
    <3>2. QED BY <1>4, <3>1
  <2>3. <<1 .. y, 1 .. x>> \in StrictSubsetOrdering(Nat)
    BY <2>2 DEF StrictSubsetOrdering
  <2>4. QED BY <2>1, <2>3, <1>3
<1>5. QED BY <1>4

(* Names, and what jobNames makes of them.  (The provers do not know that a *)
(* string literal is a member of STRING.)                                  *)
JobTitles == Seq(STRING \cup {"x"})

(* A name with k times "x" behind it. *)
Padded(name, k) == name \o [i \in 1 .. k |-> "x"]

LEMMA PaddedNames ==
    ASSUME NEW name \in JobTitles, NEW k \in Nat
    PROVE  Padded(name, k) \in JobTitles /\ Len(Padded(name, k)) = Len(name) + k
<1>1. [i \in 1 .. k |-> "x"] \in JobTitles /\ Len([i \in 1 .. k |-> "x"]) = k
  <2> DEFINE padding == [i \in 1 .. k |-> "x"]
  <2>1. padding \in [1 .. k -> STRING \cup {"x"}] OBVIOUS
  <2>2. padding \in Seq(STRING \cup {"x"}) BY <2>1, SeqDef
  <2>3. Len(padding) = k
    <3>1. DOMAIN padding = 1 .. k OBVIOUS
    <3> HIDE DEF padding
    <3>2. QED BY <2>2, <3>1, LenProperties
  <2>4. QED BY <2>2, <2>3 DEF JobTitles
<1>2. QED BY <1>1 DEF Padded, JobTitles

(* Among one name more than are used, one is free. *)
LEMMA SomeNameIsFree ==
    ASSUME NEW name \in JobTitles, NEW used, IsFiniteSet(used)
    PROVE  \E n \in 0 .. Cardinality(used) : Padded(name, n) \notin used
<1> DEFINE c == Cardinality(used)
<1>1. c \in Nat BY FS_CardinalityType
<1>2. SUFFICES ASSUME \A n \in 0 .. c : Padded(name, n) \in used PROVE FALSE
  OBVIOUS
<1> DEFINE f == [n \in 0 .. c |-> Padded(name, n)]
<1>3. f \in [0 .. c -> used] BY <1>2
<1>4. IsFiniteSet(0 .. c) /\ Cardinality(0 .. c) = c + 1
  BY <1>1, FS_Interval
<1>5. \E x, y \in 0 .. c : x # y /\ f[x] = f[y]
  <2> HIDE DEF f
  <2>1. Cardinality(0 .. c) > Cardinality(used) BY <1>1, <1>4
  <2>2. QED BY <1>3, <1>4, <2>1, FS_PigeonHole
<1>6. PICK x \in 0 .. c, y \in 0 .. c : x # y /\ Padded(name, x) = Padded(name, y)
  BY <1>5
<1>7. Len(Padded(name, x)) = Len(name) + x /\ Len(Padded(name, y)) = Len(name) + y
  BY <1>1, PaddedNames
<1>8. Len(name) \in Nat BY DEF JobTitles
<1>9. QED BY <1>1, <1>6, <1>7, <1>8

LEMMA FreeNameIsFree ==
    ASSUME NEW name \in JobTitles, NEW used, IsFiniteSet(used)
    PROVE  FreeName(name, used) \in JobTitles \ used
<1> DEFINE Free(n) == /\ Padded(name, n) \notin used
                      /\ \A m \in 0 .. n - 1 : Padded(name, m) \in used
           k == CHOOSE n \in 0 .. Cardinality(used) : Free(n)
           S == {n \in 0 .. Cardinality(used) : Padded(name, n) \notin used}
<1>1. Cardinality(used) \in Nat BY FS_CardinalityType
<1>2. S \in SUBSET Nat /\ S # {} BY <1>1, SomeNameIsFree
<1>3. PICK n \in S : \A m \in S : n <= m
  <2> HIDE DEF S
  <2>1. QED BY <1>2, LeastNat
<1>4. n \in 0 .. Cardinality(used) /\ Free(n)
  <2>1. ASSUME NEW m \in 0 .. n - 1 PROVE Padded(name, m) \in used
    <3>1. m \in 0 .. Cardinality(used) /\ ~(n <= m) BY <1>1
    <3>2. QED BY <1>3, <3>1
  <2>2. QED BY <2>1
<1>5. k \in 0 .. Cardinality(used) /\ Free(k)
  <2> HIDE DEF Free
  <2>1. QED BY <1>4
<1>6. FreeName(name, used) = Padded(name, k)
  BY DEF FreeName, Padded
<1>7. Padded(name, k) \in JobTitles
  BY <1>1, <1>5, PaddedNames
<1>8. QED BY <1>5, <1>6, <1>7

(* One round of jobNames, and the names after every round. *)
Base(c) == IF c.service # << >> THEN c.service ELSE c.name

Named(cs, before, n) ==
    LET taken == {before[i] : i \in 1 .. n - 1}
        base == Base(cs[n])
        name == IF base \in taken THEN base \o cs[n].name ELSE base
    IN  Append(before, FreeName(name, taken))

Round(cs, f, n) == IF n = 0 THEN << >> ELSE Named(cs, f[n - 1], n)
Table(cs, f) == f = [n \in 0 .. Len(cs) |-> Round(cs, f, n)]

LEMMA JobNamesIsLastRound ==
    ASSUME NEW cs PROVE JobNames(cs) = (CHOOSE f : Table(cs, f))[Len(cs)]
BY DEF JobNames, Table, Round, Named, Base

(* The rounds exist: the least number of them that did not would be one    *)
(* more than one that does.                                                *)
LEMMA RoundsExist ==
    ASSUME NEW cs \in Seq(Containers) PROVE \E f : Table(cs, f)
<1> DEFINE Rounds(n, f) == f = [m \in 0 .. n |-> Round(cs, f, m)]
           Bad == {n \in 0 .. Len(cs) : ~ \E f : Rounds(n, f)}
<1>1. Len(cs) \in Nat OBVIOUS
<1>2. SUFFICES ASSUME Bad # {} PROVE FALSE
  <2>1. Len(cs) \in 0 .. Len(cs) BY <1>1
  <2>2. ASSUME Bad = {} PROVE \E f : Rounds(Len(cs), f) BY <2>1, <2>2
  <2>3. QED BY <1>2, <2>2 DEF Table
<1>3. PICK n \in Bad : \A m \in Bad : n <= m
  <2>1. Bad \in SUBSET Nat BY <1>1
  <2> HIDE DEF Bad
  <2>2. QED BY <1>2, <2>1, LeastNat
<1>4. n \in 0 .. Len(cs) /\ ~ \E f : Rounds(n, f) OBVIOUS
<1>5. CASE n = 0
  <2> DEFINE g == [m \in 0 .. n |-> << >>]
  <2>1. g = [m \in 0 .. n |-> Round(cs, g, m)] BY <1>5 DEF Round
  <2>2. Rounds(n, g) BY <2>1
  <2>3. QED BY <1>4, <2>2
<1>6. CASE n # 0
  <2>1. n - 1 \in 0 .. Len(cs) /\ ~(n <= n - 1) BY <1>1, <1>4, <1>6
  <2>2. PICK f : Rounds(n - 1, f) BY <1>3, <2>1
  <2> DEFINE g == [m \in 0 .. n |-> IF m = n THEN Named(cs, f[n - 1], n) ELSE f[m]]
  <2>3. \A m \in 0 .. n - 1 : g[m] = f[m] BY <1>4
  <2>4. ASSUME NEW m \in 0 .. n PROVE g[m] = Round(cs, g, m)
    <3>1. CASE m = n
      <4>1. g[n - 1] = f[n - 1] BY <1>4, <1>6, <2>3
      <4>2. g[m] = Named(cs, f[n - 1], n) BY <3>1
      <4>3. Round(cs, g, m) = Named(cs, g[n - 1], n) BY <3>1, <1>6 DEF Round
      <4> HIDE DEF g
      <4>4. QED BY <4>1, <4>2, <4>3
    <3>2. CASE m # n
      <4>1. m \in 0 .. n - 1 /\ g[m] = f[m] BY <1>4, <3>2
      <4>2. f[m] = Round(cs, f, m) BY <2>2, <4>1
      <4>3. Round(cs, f, m) = Round(cs, g, m)
        <5>1. m # 0 => m - 1 \in 0 .. n - 1 BY <1>4, <4>1
        <5>2. m # 0 => g[m - 1] = f[m - 1] BY <2>3, <5>1
        <5> HIDE DEF g
        <5>3. QED BY <5>2 DEF Round
      <4> HIDE DEF g
      <4>4. QED BY <4>1, <4>2, <4>3
    <3>3. QED BY <3>1, <3>2
  <2>5. g = [m \in 0 .. n |-> Round(cs, g, m)]
    <3>1. g = [m \in 0 .. n |-> g[m]] OBVIOUS
    <3> HIDE DEF g
    <3>2. QED BY <2>4, <3>1
  <2>6. Rounds(n, g) BY <2>5
  <2>7. QED BY <1>4, <2>6
<1>7. QED BY <1>5, <1>6

(* One more name, different from those before it. *)
DistinctNames(names, n) ==
    /\ names \in Seq(JobTitles) /\ Len(names) = n
    /\ \A i, j \in 1 .. n : i # j => names[i] # names[j]

LEMMA OneMoreName ==
    ASSUME NEW cs \in Seq(Containers), NEW n \in 1 .. Len(cs), NEW before,
           DistinctNames(before, n - 1)
    PROVE  DistinctNames(Named(cs, before, n), n)
<1> DEFINE taken == {before[i] : i \in 1 .. n - 1}
           name == IF Base(cs[n]) \in taken THEN Base(cs[n]) \o cs[n].name ELSE Base(cs[n])
           new == FreeName(name, taken)
<1>1. before \in Seq(JobTitles) /\ Len(before) = n - 1 BY DEF DistinctNames
<1>2. IsFiniteSet(taken)
  <2>1. IsFiniteSet(1 .. n - 1) BY FS_Interval
  <2> DEFINE named == [i \in 1 .. n - 1 |-> before[i]]
  <2>2. taken = {named[i] : i \in 1 .. n - 1} OBVIOUS
  <2>3. named \in [1 .. n - 1 -> taken] OBVIOUS
  <2>4. named \in Surjection(1 .. n - 1, taken)
    <3> HIDE DEF named, taken
    <3>1. QED BY <2>2, <2>3 DEF Surjection
  <2>5. QED
    <3> HIDE DEF named, taken
    <3>1. QED BY <2>1, <2>4, FS_Surjection
<1>3. name \in JobTitles
  <2>1. cs[n] \in Containers OBVIOUS
  <2>2. cs[n].name \in Names /\ cs[n].service \in Names BY <2>1 DEF Containers
  <2>3. Names \subseteq JobTitles BY DEF Names, JobTitles
  <2>4. \A a, b \in JobTitles : a \o b \in JobTitles BY DEF JobTitles
  <2>5. Base(cs[n]) \in JobTitles /\ cs[n].name \in JobTitles BY <2>2, <2>3 DEF Base
  <2>6. QED BY <2>4, <2>5
<1>4. new \in JobTitles \ taken
  <2> HIDE DEF name, taken
  <2>1. QED BY <1>2, <1>3, FreeNameIsFree
<1>5. Named(cs, before, n) = Append(before, new) BY DEF Named
<1> HIDE DEF new
<1>6. /\ Append(before, new) \in Seq(JobTitles) /\ Len(Append(before, new)) = n
      /\ \A i \in 1 .. n - 1 : Append(before, new)[i] = before[i]
      /\ Append(before, new)[n] = new
  BY <1>1, <1>4
<1>7. ASSUME NEW i \in 1 .. n, NEW j \in 1 .. n, i # j
      PROVE  Append(before, new)[i] # Append(before, new)[j]
  <2>1. CASE i \in 1 .. n - 1 /\ j \in 1 .. n - 1 BY <1>6, <1>7, <2>1 DEF DistinctNames
  <2>2. CASE i = n /\ j \in 1 .. n - 1 BY <1>4, <1>6, <2>2
  <2>3. CASE j = n /\ i \in 1 .. n - 1 BY <1>4, <1>6, <2>3
  <2>4. \A k \in 1 .. n : k \in 1 .. n - 1 \/ k = n OBVIOUS
  <2>5. QED BY <1>7, <2>1, <2>2, <2>3, <2>4
<1>8. QED BY <1>5, <1>6, <1>7 DEF DistinctNames

(* jobNames gives every container a name of its own. *)
LEMMA JobNamesAreDistinct ==
    ASSUME NEW cs \in Seq(Containers)
    PROVE  DistinctNames(JobNames(cs), Len(cs))
<1> DEFINE f == CHOOSE g : Table(cs, g)
           Bad == {n \in 0 .. Len(cs) : ~ DistinctNames(f[n], n)}
<1>1. Len(cs) \in Nat OBVIOUS
<1>2. Table(cs, f) BY RoundsExist
<1>3. \A n \in 0 .. Len(cs) : f[n] = Round(cs, f, n)
  <2> HIDE DEF f
  <2>1. QED BY <1>2 DEF Table
<1> HIDE DEF f
<1>4. Bad = {}
  <2>1. SUFFICES ASSUME Bad # {} PROVE FALSE OBVIOUS
  <2>2. PICK n \in Bad : \A m \in Bad : n <= m
    <3>1. Bad \in SUBSET Nat BY <1>1
    <3> HIDE DEF Bad
    <3>2. QED BY <2>1, <3>1, LeastNat
  <2>3. n \in 0 .. Len(cs) /\ ~ DistinctNames(f[n], n) OBVIOUS
  <2>4. CASE n = 0
    <3>1. f[n] = << >> BY <1>3, <2>3, <2>4 DEF Round
    <3>2. QED BY <2>3, <2>4, <3>1 DEF DistinctNames
  <2>5. CASE n # 0
    <3>1. n \in 1 .. Len(cs) /\ n - 1 \in 0 .. Len(cs) /\ ~(n <= n - 1) BY <1>1, <2>3, <2>5
    <3>2. DistinctNames(f[n - 1], n - 1) BY <2>2, <3>1
    <3>3. f[n] = Named(cs, f[n - 1], n) BY <1>3, <2>3, <2>5 DEF Round
    <3>4. QED BY <2>3, <3>1, <3>2, <3>3, OneMoreName
  <2>6. QED BY <2>4, <2>5
<1>5. DistinctNames(f[Len(cs)], Len(cs)) BY <1>1, <1>4
<1>6. QED BY <1>5, JobNamesIsLastRound DEF f
-----------------------------------------------------------------------------
(* The inductive invariant *)

(* Where the commands are: before the operator agreed, and after.  *)
Looking == {"plan", "config", "saved", "inspect", "probe"}
Early == Looking \cup {"confirm"}
Busy == Remote \ {"inspect", "probe"}
Serving == Busy \cup {"next"}
Late == {"health", "exit", "done"}

Mounts == UNION {[B -> STRING] : B \in SUBSET STRING}
Moves == [name : JobTitles, container : Names, compose : BOOLEAN, project : Names, service : Names,
          image : STRING, acquire : {"pull", "preload", "unknown"}, volumes : SUBSET STRING, binds : SUBSET STRING,
          db : STRING, port : Nat, dir : STRING, url : BOOLEAN, toPort : Nat, toDir : STRING,
          toBinds : Mounts]

Looks == [found |-> seen.found, target |-> seen.target, blocked |-> seen.blocked,
          agreed |-> seen.agreed, planned |-> seen.planned]

(* seen is a record of these fields, plan a list of services, and the      *)
(* hosts are as assumed for as long as apply looks at them.                *)
Shape ==
    /\ pc \in Early \cup Serving \cup Late
    /\ world \in Nat
    /\ plan \in Seq(Moves)
    /\ seen = Looks
    /\ seen.agreed \in BOOLEAN
    /\ IF pc \in {"plan", "config", "saved"} THEN done = << >>
       ELSE done = [i \in Services |-> done[i]]
    /\ pc = "plan" => /\ DOMAIN source \subseteq Names /\ IsFiniteSet(DOMAIN source)
                      /\ \A n \in DOMAIN source : source[n] \in Containers /\ source[n].name = n
    /\ pc \in Looking => target \in Hosts

(* What the second look finds again of the blockers of the plan. *)
Recheck(found) == TargetRisks(target.report, HasVolumes(plan)) \cup VerifySource(plan, found)

(* What is known of a service that is not left out. *)
Vetted(s) ==
    /\ world = 0 => \A r \in seen.planned : r.service \notin {NoService, s.name}
    /\ s.container \in DOMAIN seen.found
    /\ LET c == seen.found[s.container]
       IN  /\ <<c.image, c.project, c.service>> = <<s.image, s.project, s.service>>
           /\ <<c.volumes, c.binds, c.db>> = <<s.volumes, s.binds, s.db>>
           /\ ~c.blocked
    /\ \A t \in seen.target :
         /\ t.report.docker = "ok" /\ t.report.compose = "ok" /\ t.report.restic = "ok"
         /\ s.container \notin t.names /\ Alias(s) \notin t.projects
         /\ PlannedPort(s) \notin t.ports /\ s.toDir \notin t.dirs
         /\ s.acquire = "preload" => s.image \in t.images

(* The blockers of the plan survive until the second verdict; after it,    *)
(* whatever is not blocked was looked at and found fit.                    *)
Reviewed ==
    /\ pc \in {"config", "saved", "inspect"} /\ world = 0 => seen.planned \subseteq Blockers(Recheck(source))
    /\ pc = "probe" /\ world = 0 => seen.planned \subseteq Blockers(Recheck(seen.found))
    /\ pc \in Early => ~seen.agreed
    /\ (pc = "confirm" \/ seen.agreed) =>
         /\ ~flags.dryRun
         /\ \A i \in Services : plan[i].name \notin seen.blocked => Vetted(plan[i])
    /\ pc \in Busy => plan[cur].name \notin seen.blocked
    /\ \A i \in DOMAIN done : done[i] # {} => seen.agreed /\ plan[i].name \notin seen.blocked

(* What has been done for service s when its step p comes next. *)
HasFiles == {"backup", "files"}
VolumesDone(s, D) == s.volumes # {} => D \cap {"volumes", "unread"} # {}

Stage(p, s, D) ==
    /\ p = "backup" => D = {}
    /\ p = "restore" => D = {"backup"}
    /\ p \in {"move", "rewrite", "volumes"} => D = HasFiles
    /\ p = "up" => /\ HasFiles \subseteq D /\ D \subseteq HasFiles \cup {"volumes", "unread"}
                    /\ VolumesDone(s, D)
    /\ p = "database" => /\ HasFiles \cup {"started"} \subseteq D
                          /\ D \subseteq HasFiles \cup {"started", "volumes"}
                          /\ s.db = "dump" /\ VolumesDone(s, D)

(* The services before the one in progress have their outcome, those after *)
(* it have not been touched.                                               *)
Progress ==
    /\ pc \in {"inspect", "probe", "confirm"} => \A i \in Services : done[i] = {}
    /\ pc \in Early => cur \in Nat \ {0} /\ out = << >>
    /\ pc \in {"inspect", "probe", "confirm"} => cur = 1
    /\ pc \in Serving => /\ seen.agreed
                         /\ cur \in 1 .. Len(plan) + 1
                         /\ DOMAIN out = 1 .. cur - 1
                         /\ \A i \in Services : i > cur => done[i] = {}
    /\ pc \in Busy => cur \in Services /\ Stage(pc, plan[cur], done[cur])
    /\ pc = "next" => \A i \in Services : i = cur => done[i] = {}
    /\ pc \in {"health", "exit"} \/ (pc = "done" /\ seen.agreed) => DOMAIN out = Services
    /\ pc \in Serving \cup {"health", "exit"} =>
         \A i \in DOMAIN out : out[i] = "success" <=> Moved(i)

Inv == Shape /\ JobNamesDistinct /\ Reviewed /\ Progress /\ ExitStatusEarned

-----------------------------------------------------------------------------
(* Plans *)

LEMMA BuiltPlan ==
    ASSUME NEW cs \in Seq(Containers), NEW seeable, NEW report, NEW url \in BOOLEAN,
           NEW p, p = BuildPlan(cs, seeable, report, url)
    PROVE  /\ p \in Seq(Moves) /\ DOMAIN p = DOMAIN cs
           /\ \A i \in DOMAIN p : p[i].container = cs[i].name
           /\ \A i, j \in DOMAIN p : i # j => p[i].name # p[j].name
<1> DEFINE names == JobNames(cs)
           health == url /\ Len(cs) = 1
           service(i) == BuildService(cs[i], names[i], seeable, report)
<1>1. /\ names \in Seq(JobTitles) /\ Len(names) = Len(cs)
      /\ \A i, j \in 1 .. Len(cs) : i # j => names[i] # names[j]
  BY JobNamesAreDistinct DEF DistinctNames
<1>2. Len(cs) \in Nat /\ DOMAIN cs = 1 .. Len(cs) OBVIOUS
<1>3. ASSUME NEW i \in 1 .. Len(cs)
      PROVE  /\ [service(i) EXCEPT !.url = health] \in Moves
             /\ [service(i) EXCEPT !.url = health].container = cs[i].name
             /\ [service(i) EXCEPT !.url = health].name = names[i]
  <2> DEFINE c == cs[i]
             acquire == ImageAcquisition(seeable, report)
             binds == [b \in c.binds |-> b]
  <2>1. c \in Containers OBVIOUS
  <2>2. /\ c.name \in Names /\ c.project \in Names /\ c.service \in Names /\ c.image \in STRING
        /\ c.volumes \in SUBSET STRING /\ c.binds \in SUBSET STRING /\ c.db \in STRING
        /\ c.port \in Nat /\ c.dir \in STRING
    <3> HIDE DEF c
    <3>1. QED BY <2>1 DEF Containers
  <2>3. acquire \in {"pull", "preload", "unknown"} BY DEF ImageAcquisition
  <2>4. binds \in Mounts
    <3>1. binds \in [c.binds -> STRING] BY <2>2
    <3>2. QED BY <2>2, <3>1 DEF Mounts
  <2>5. (c.project # Plain) \in BOOLEAN OBVIOUS
  <2>6. health \in BOOLEAN OBVIOUS
  <2>7. names[i] \in JobTitles BY <1>1, <1>2
  <2> DEFINE move ==
          [name |-> names[i], container |-> c.name, compose |-> c.project # Plain,
           project |-> c.project, service |-> c.service, image |-> c.image,
           acquire |-> acquire, volumes |-> c.volumes,
           binds |-> c.binds, db |-> c.db, port |-> c.port, dir |-> c.dir, url |-> health,
           toPort |-> c.port, toDir |-> c.dir, toBinds |-> binds]
  <2>8. [service(i) EXCEPT !.url = health] = move
    <3>1. service(i) =
            [name |-> names[i], container |-> c.name, compose |-> c.project # Plain,
             project |-> c.project, service |-> c.service, image |-> c.image,
             acquire |-> acquire, volumes |-> c.volumes,
             binds |-> c.binds, db |-> c.db, port |-> c.port, dir |-> c.dir, url |-> FALSE,
             toPort |-> c.port, toDir |-> c.dir, toBinds |-> binds]
      BY Zenon DEF BuildService
    <3> HIDE DEF c, acquire, health, names, binds, service
    <3>2. QED BY <3>1
  <2> HIDE DEF c, acquire, health, names, binds, service
  <2>9. move \in Moves
    BY <2>2, <2>3, <2>4, <2>5, <2>6, <2>7 DEF Moves
  <2>10. move.container = c.name /\ move.name = names[i]
    OBVIOUS
  <2> HIDE DEF move
  <2>11. QED BY <2>8, <2>9, <2>10 DEF c
<1>4. p = [i \in 1 .. Len(cs) |-> [service(i) EXCEPT !.url = health]]
  BY <1>2 DEF BuildPlan
<1> HIDE DEF service, health, names
<1>5. p \in [1 .. Len(cs) -> Moves] BY <1>3, <1>4
<1>6. p \in Seq(Moves) BY <1>2, <1>5, SeqDef
<1>7. DOMAIN p = 1 .. Len(cs) BY <1>4
<1>8. \A i \in 1 .. Len(cs) : /\ p[i].container = cs[i].name
                             /\ p[i].name = names[i]
  BY <1>3, <1>4
<1>9. \A i, j \in 1 .. Len(cs) : i # j => p[i].name # p[j].name BY <1>1, <1>8
<1>10. QED BY <1>2, <1>6, <1>7, <1>8, <1>9

-----------------------------------------------------------------------------
(* The invariant holds at first *)

LEMMA InitInv == ASSUME Init PROVE Inv
<1>1. PICK containers \in Sources :
         source = [n \in {containers[i].name : i \in DOMAIN containers} |->
                      CHOOSE c \in {containers[i] : i \in DOMAIN containers} : c.name = n]
  BY DEF Init
<1>2. containers \in Seq(Containers) /\ DOMAIN containers = 1 .. Len(containers) /\ target \in Hosts
  BY MigrationAssumption DEF Init
<1>3. DOMAIN source = {containers[i].name : i \in 1 .. Len(containers)}
  <2> DEFINE all == {containers[i].name : i \in 1 .. Len(containers)}
             F(n) == CHOOSE c \in {containers[i] : i \in DOMAIN containers} : c.name = n
  <2>1. source = [n \in all |-> F(n)] BY <1>1, <1>2
  <2> HIDE DEF all, F
  <2>2. DOMAIN source = all BY <2>1
  <2>3. QED BY <2>2 DEF all
<1>4. \A i \in 1 .. Len(containers) : containers[i] \in Containers /\ containers[i].name \in Names
  <2> TAKE i \in 1 .. Len(containers)
  <2>1. containers[i] \in Containers BY <1>2
  <2>2. QED BY <2>1 DEF Containers
<1>5. IsFiniteSet(DOMAIN source)
  <2> DEFINE named == [i \in 1 .. Len(containers) |-> containers[i].name]
  <2>1. Len(containers) \in Nat BY <1>2
  <2>2. IsFiniteSet(1 .. Len(containers)) BY <2>1, FS_Interval
  <2>3. named \in Surjection(1 .. Len(containers), DOMAIN source)
    BY <1>3 DEF Surjection
  <2> HIDE DEF named
  <2>4. QED BY <2>2, <2>3, FS_Surjection
<1>6. ASSUME NEW n \in DOMAIN source PROVE source[n] \in Containers /\ source[n].name = n
  <2> DEFINE all == {containers[i] : i \in DOMAIN containers}
  <2>1. PICK i \in 1 .. Len(containers) : n = containers[i].name BY <1>3
  <2>2. containers[i] \in all BY <1>2, <2>1
  <2>3. all \subseteq Containers BY <1>2
  <2>4. source[n] = CHOOSE c \in all : c.name = n BY <1>1
  <2> HIDE DEF all
  <2>5. QED BY <2>1, <2>2, <2>3, <2>4
<1>7. /\ pc = "plan" /\ world = 0 /\ plan = << >> /\ cur = 1 /\ done = << >> /\ out = << >>
      /\ seen = Nothing
  BY DEF Init
<1>8. Shape
  <2>1. << >> \in Seq(Moves) OBVIOUS
  <2>2. seen = [found |-> seen.found, target |-> seen.target, blocked |-> seen.blocked,
                agreed |-> seen.agreed, planned |-> seen.planned] /\ seen.agreed = FALSE
    BY <1>7 DEF Nothing
  <2>3. DOMAIN source \subseteq Names BY <1>3, <1>4
  <2>4. QED BY <1>2, <1>5, <1>6, <1>7, <2>1, <2>2, <2>3 DEF Shape, Looks, Early, Looking
<1>9. JobNamesDistinct /\ ExitStatusEarned
  BY <1>7 DEF JobNamesDistinct, ExitStatusEarned, Services
<1>10. Reviewed BY <1>7 DEF Reviewed, Busy, Remote, Nothing
<1>11. Progress BY <1>7 DEF Progress, Serving, Busy, Remote
<1>12. QED BY <1>8, <1>9, <1>10, <1>11 DEF Inv

-----------------------------------------------------------------------------
(* Steps keep the shape of the state *)

LEMMA SelectionsAreSequences ==
    ASSUME Shape, pc = "plan", NEW selection \in Selections
    PROVE  /\ selection[1] \in Seq(DOMAIN source) /\ selection[2] \in BOOLEAN
           /\ [i \in DOMAIN selection[1] |-> source[selection[1][i]]] \in Seq(Containers)
<1>1. /\ IsFiniteSet(DOMAIN source)
      /\ \A n \in DOMAIN source : source[n] \in Containers
  BY DEF Shape
<1>2. Cardinality(DOMAIN source) \in Nat BY <1>1, FS_CardinalityType
<1>3. selection[1] \in Seq(DOMAIN source) /\ selection[2] \in BOOLEAN
  <2> DEFINE Sorted == {order \in [1 .. Cardinality(DOMAIN source) -> DOMAIN source] :
                           \A i, j \in DOMAIN order : i < j => Before(order[i], order[j])}
             One == {<<n>> : n \in DOMAIN source}
  <2>1. selection \in (Sorted \X {FALSE}) \cup (One \X BOOLEAN)
    BY DEF Selections
  <2>2. Sorted \subseteq Seq(DOMAIN source) BY <1>2, SeqDef
  <2>3. One \subseteq Seq(DOMAIN source)
    <3>1. \A n \in DOMAIN source : <<n>> \in Seq(DOMAIN source) OBVIOUS
    <3>2. QED BY <3>1
  <2> HIDE DEF Sorted, One
  <2>4. CASE selection \in Sorted \X {FALSE} BY <2>2, <2>4
  <2>5. CASE selection \in One \X BOOLEAN BY <2>3, <2>5
  <2>6. QED BY <2>1, <2>4, <2>5
<1>4. [i \in DOMAIN selection[1] |-> source[selection[1][i]]] \in Seq(Containers)
  <2> DEFINE order == selection[1]
             cs == [i \in 1 .. Len(order) |-> source[order[i]]]
  <2>1. Len(order) \in Nat /\ DOMAIN order = 1 .. Len(order) BY <1>3
  <2>2. \A i \in 1 .. Len(order) : source[order[i]] \in Containers BY <1>1, <1>3
  <2>3. cs \in [1 .. Len(order) -> Containers] BY <2>2
  <2>4. cs \in Seq(Containers)
    <3> HIDE DEF cs, order
    <3>1. QED BY <2>1, <2>3, SeqDef
  <2>5. QED BY <2>1, <2>4
<1>5. QED BY <1>3, <1>4

(* One field of it changes. *)
LEMMA LooksUpdated ==
    ASSUME seen = Looks, NEW x, NEW y
    PROVE  /\ seen' = [seen EXCEPT !.found = x] =>
                seen' = [found |-> x, target |-> seen.target, blocked |-> seen.blocked,
                         agreed |-> seen.agreed, planned |-> seen.planned]
           /\ seen' = [seen EXCEPT !.planned = x] =>
                seen' = [found |-> seen.found, target |-> seen.target, blocked |-> seen.blocked,
                         agreed |-> seen.agreed, planned |-> x]
           /\ seen' = [seen EXCEPT !.agreed = x] =>
                seen' = [found |-> seen.found, target |-> seen.target, blocked |-> seen.blocked,
                         agreed |-> x, planned |-> seen.planned]
           /\ seen' = [seen EXCEPT !.target = x, !.blocked = y] =>
                seen' = [found |-> seen.found, target |-> x, blocked |-> y,
                         agreed |-> seen.agreed, planned |-> seen.planned]
BY DEF Looks

(* A step of apply that leaves the plan alone. *)
Applies ==
    /\ pc \notin Looking /\ pc' \in Serving \cup Late
    /\ UNCHANGED <<plan, seen, world>>
    /\ done' = done \/ \E W : Did(W) \/ \E F : done' = [i \in DOMAIN done |-> F[i]]

LEMMA AppliesShape == ASSUME Shape, JobNamesDistinct, Applies PROVE Shape' /\ JobNamesDistinct'
<1>1. pc \notin {"plan", "config", "saved"} /\ pc' \notin Looking
  BY DEF Applies, Looking, Serving, Busy, Remote, Late
<1>2. done = [i \in Services |-> done[i]] BY <1>1 DEF Shape
<1>3. done' = [i \in Services' |-> done'[i]]
  BY <1>2 DEF Applies, Did, Services
<1>4. JobNamesDistinct' BY DEF JobNamesDistinct, Services, Applies
<1>5. QED BY <1>1, <1>3, <1>4 DEF Shape, Looks, Applies, Looking

(* What an edit does not touch. *)
Unedited(s) == [f \in {"name", "container", "compose", "project", "service", "image",
                       "volumes", "binds", "db"} |-> s[f]]

LEMMA EditKeeps ==
    ASSUME Shape, Edit
    PROVE  /\ plan' \in Seq(Moves) /\ Services' = Services
           /\ \A i \in Services : Unedited(plan'[i]) = Unedited(plan[i])
           /\ \A i \in Services : plan'[i].name = plan[i].name
<1>1. plan \in Seq(Moves) BY DEF Shape
<1>2. PICK e \in Edits :
        /\ e[1] \in Services /\ plan' # plan
        /\ plan' = CASE e[2] = "dir" -> [plan EXCEPT ![e[1]].toDir = e[3]]
                     [] e[2] = "port" -> [plan EXCEPT ![e[1]].toPort = e[3]]
                     [] e[2] = "bind" -> [plan EXCEPT ![e[1]].toBinds = [b \in DOMAIN @ |-> e[3]]]
  BY DEF Edit
<1>3. e[3] \in IF e[2] = "port" THEN Nat ELSE STRING BY MigrationAssumption
<1> DEFINE s == plan[e[1]]
<1>4. s \in Moves BY <1>1, <1>2 DEF Services
<1>5. ASSUME NEW t \in Moves, plan' = [plan EXCEPT ![e[1]] = t],
             Unedited(t) = Unedited(s), t.name = s.name
      PROVE  /\ plan' \in Seq(Moves) /\ Services' = Services
             /\ \A i \in Services : Unedited(plan'[i]) = Unedited(plan[i])
             /\ \A i \in Services : plan'[i].name = plan[i].name
  <2>1. plan' \in Seq(Moves)
    <3>1. e[1] \in 1 .. Len(plan) BY <1>1, <1>2 DEF Services
    <3>2. [plan EXCEPT ![e[1]] = t] \in Seq(Moves) BY <1>1, <3>1, ExceptSeq
    <3>3. QED BY <1>5, <3>2
  <2>2. Services' = Services BY <1>5 DEF Services
  <2>3. ASSUME NEW i \in Services
        PROVE  Unedited(plan'[i]) = Unedited(plan[i]) /\ plan'[i].name = plan[i].name
    <3> HIDE DEF s
    <3>1. CASE i = e[1]
      <4>1. plan'[i] = t BY <1>2, <1>5, <3>1 DEF Services
      <4>2. QED BY <1>5, <3>1, <4>1 DEF s
    <3>2. CASE i # e[1]
      <4>1. plan'[i] = plan[i] BY <1>5, <3>2 DEF Services
      <4>2. QED BY <4>1
    <3>3. QED BY <3>1, <3>2
  <2>4. QED BY <2>1, <2>2, <2>3
<1>6. CASE e[2] = "dir"
  <2> DEFINE t == [s EXCEPT !.toDir = e[3]]
  <2>1. t \in Moves BY <1>3, <1>4, <1>6 DEF Moves
  <2>2. Unedited(t) = Unedited(s) /\ t.name = s.name BY <1>4 DEF Moves, Unedited
  <2>3. plan' = [plan EXCEPT ![e[1]] = t] BY <1>2, <1>6
  <2> HIDE DEF t, s
  <2>4. QED BY <1>5, <2>1, <2>2, <2>3
<1>7. CASE e[2] = "port"
  <2> DEFINE t == [s EXCEPT !.toPort = e[3]]
  <2>1. t \in Moves BY <1>3, <1>4, <1>7 DEF Moves
  <2>2. Unedited(t) = Unedited(s) /\ t.name = s.name BY <1>4 DEF Moves, Unedited
  <2>3. plan' = [plan EXCEPT ![e[1]] = t] BY <1>2, <1>7
  <2> HIDE DEF t, s
  <2>4. QED BY <1>5, <2>1, <2>2, <2>3
<1>8. CASE e[2] = "bind"
  <2> DEFINE binds == [b \in DOMAIN s.toBinds |-> e[3]]
             t == [s EXCEPT !.toBinds = binds]
  <2>1. t \in Moves
    <3>1. s.toBinds \in Mounts BY <1>4 DEF Moves
    <3>2. PICK B \in SUBSET STRING : s.toBinds \in [B -> STRING] BY <3>1 DEF Mounts
    <3>3. binds \in [B -> STRING] BY <1>3, <1>8, <3>2
    <3>4. binds \in Mounts BY <3>3 DEF Mounts
    <3> HIDE DEF binds, s
    <3>5. QED BY <1>4, <3>4 DEF Moves
  <2>2. Unedited(t) = Unedited(s) /\ t.name = s.name BY <1>4 DEF Moves, Unedited
  <2>3. plan' = [plan EXCEPT ![e[1]] = t] BY <1>2, <1>8
  <2> HIDE DEF t, s
  <2>4. QED BY <1>5, <2>1, <2>2, <2>3
<1>9. e[2] \in {"dir", "port", "bind"} BY MigrationAssumption
<1>10. QED BY <1>6, <1>7, <1>8, <1>9

LEMMA ShapeStep == ASSUME Shape, JobNamesDistinct, [Next]_vars PROVE Shape' /\ JobNamesDistinct'
<1> USE DEF Looks, Looking, Early, Serving, Busy, Remote, Late
<1>1. CASE BuildAndSave
  <2>1. pc = "plan" /\ pc' \in {"config", "saved"} /\ UNCHANGED <<source, target, world, done>>
    BY <1>1 DEF BuildAndSave, hosts
  <2>2. PICK selection \in Selections :
          plan' = BuildPlan([i \in DOMAIN selection[1] |-> source[selection[1][i]]], TRUE,
                            target.report, selection[2])
    BY <1>1 DEF BuildAndSave
  <2> DEFINE cs == [i \in DOMAIN selection[1] |-> source[selection[1][i]]]
  <2>3. cs \in Seq(Containers) /\ selection[2] \in BOOLEAN
    BY <2>1, SelectionsAreSequences
  <2>4. plan' = BuildPlan(cs, TRUE, target.report, selection[2]) BY <2>2
  <2> HIDE DEF cs
  <2>5. plan' \in Seq(Moves) /\ \A i, j \in DOMAIN plan' : i # j => plan'[i].name # plan'[j].name
    <3> DEFINE seeable == TRUE
               url == selection[2]
    <3>1. cs \in Seq(Containers) /\ url \in BOOLEAN /\ plan' = BuildPlan(cs, seeable, target.report, url)
      BY <2>3, <2>4
    <3> HIDE DEF seeable, url
    <3>2. QED BY <3>1, BuiltPlan
  <2>6. \E x : seen' = [seen EXCEPT !.planned = x] BY <1>1 DEF BuildAndSave
  <2>7. seen' = Looks' /\ seen'.agreed = seen.agreed
    BY <2>6, LooksUpdated DEF Shape, Looks
  <2>8. QED BY <2>1, <2>5, <2>7 DEF Shape, Looks, JobNamesDistinct, Services
<1>2. CASE SaveJob \/ ConfigWritten
  BY <1>2 DEF SaveJob, ConfigWritten, hosts, Shape, JobNamesDistinct, Services
<1>3. CASE Edit
  <2>1. UNCHANGED <<pc, source, target, world, seen, done>> /\ pc = "saved" BY <1>3 DEF Edit, hosts
  <2>2. plan' \in Seq(Moves) /\ Services' = Services /\ \A i \in Services : plan'[i].name = plan[i].name
    BY <1>3, EditKeeps DEF Unedited
  <2>3. JobNamesDistinct' BY <2>2 DEF JobNamesDistinct
  <2>4. QED BY <2>1, <2>2, <2>3 DEF Shape
<1>4. CASE SourceChanges
  BY <1>4 DEF SourceChanges, planned, Shape, JobNamesDistinct, Services
<1>5. CASE TargetChanges
  <2>1. UNCHANGED <<pc, plan, source, seen, done>> /\ pc # "plan" /\ world' = world + 1
    BY <1>5 DEF TargetChanges, planned
  <2>2. pc \in Looking => target' \in Hosts
    <3>1. SUFFICES ASSUME pc \in Looking PROVE target' \in Hosts OBVIOUS
    <3>2. target \in Hosts BY <3>1 DEF Shape
    <3>3. PICK i \in Services :
            \/ target' = [target EXCEPT !.dirs = @ \cup {plan[i].toDir}]
            \/ target' = [target EXCEPT !.ports = @ \cup ({plan[i].port} \ {NoPort})]
            \/ target' = [target EXCEPT !.names = @ \cup {plan[i].container}]
      BY <1>5 DEF TargetChanges
    <3>4. plan[i] \in Moves BY DEF Shape, Services
    <3>5. plan[i].toDir \in STRING /\ plan[i].port \in Nat /\ plan[i].container \in Names
      BY <3>4 DEF Moves
    <3>6. QED BY <3>2, <3>3, <3>5 DEF Hosts
  <2>3. QED BY <2>1, <2>2 DEF Shape, JobNamesDistinct, Services
<1>6. CASE Cancel \/ Hang \/ Finished \/ UNCHANGED vars
  BY <1>6 DEF Cancel, Hang, Finished, vars, hosts, planned, Shape, JobNamesDistinct, Services
<1>7. CASE Load
  BY <1>7 DEF Load, hosts, Shape, JobNamesDistinct, Services
<1>8. CASE Inspect
  <2>1. \E x : seen' = [seen EXCEPT !.found = x] BY <1>8 DEF Inspect
  <2>2. seen' = Looks' /\ seen'.agreed = seen.agreed BY <2>1, LooksUpdated DEF Shape, Looks
  <2>3. QED BY <1>8, <2>2 DEF Inspect, hosts, Shape, Looks, JobNamesDistinct, Services
<1>9. CASE LookFails
  BY <1>9 DEF LookFails, Stop, hosts, Shape, JobNamesDistinct, Services
<1>10. CASE Decide
  <2>1. \E x, y : seen' = [seen EXCEPT !.target = x, !.blocked = y] BY <1>10 DEF Decide
  <2>2. seen' = Looks' /\ seen'.agreed = seen.agreed BY <2>1, LooksUpdated DEF Shape, Looks
  <2>3. pc = "probe" /\ pc' \in {"done", "confirm"} /\ UNCHANGED <<source, target, world, plan, done>>
    BY <1>10 DEF Decide, Stop, hosts
  <2>4. QED BY <2>2, <2>3 DEF Shape, Looks, JobNamesDistinct, Services
<1>11. CASE Confirm
  <2>1. seen' = [seen EXCEPT !.agreed = TRUE] \/ seen' = seen BY <1>11 DEF Confirm
  <2>2. seen' = Looks' /\ seen'.agreed \in BOOLEAN BY <2>1, LooksUpdated DEF Shape, Looks
  <2>3. pc = "confirm" /\ pc' \in {"done", "next"} /\ UNCHANGED <<source, target, world, plan, done>>
    BY <1>11 DEF Confirm, Stop, hosts
  <2>4. QED BY <2>2, <2>3 DEF Shape, Looks, JobNamesDistinct, Services
<1>12. CASE NextService
  <2>1. Applies BY <1>12 DEF NextService, Applies, Close, hosts
  <2>2. QED BY <2>1, AppliesShape
<1>13. CASE Migrate
  <2>1. pc \in Busy /\ UNCHANGED <<plan, seen, world>>
    BY <1>13 DEF Migrate, Backup, Restore, Move, Rewrite, ImportVolumes, ComposeUp, ImportDatabase,
                 StepFails, hosts
  <2>2. pc' \in Serving
    BY <1>13 DEF Migrate, Backup, Restore, Move, Rewrite, ImportVolumes, ComposeUp, ImportDatabase,
                 StepFails, Close
  <2>3. done' = done \/ \E W : Did(W)
    BY <1>13 DEF Migrate, Backup, Restore, Move, Rewrite, ImportVolumes, ComposeUp, ImportDatabase,
                 StepFails
  <2>4. Applies BY <2>1, <2>2, <2>3 DEF Applies
  <2>5. QED BY <2>4, AppliesShape
<1>14. CASE Health
  <2>1. done' = done \/ \E F : done' = [i \in DOMAIN done |-> F[i]]
    <3>1. CASE done' = done BY <3>1
    <3>2. CASE done' # done
      <4>1. done' = [i \in DOMAIN done |-> done'[i]] BY <1>14, <3>2 DEF Health
      <4>2. QED BY <4>1
    <3>3. QED BY <3>1, <3>2
  <2>2. Applies BY <1>14, <2>1 DEF Health, Applies, hosts
  <2>3. QED BY <2>2, AppliesShape
<1>15. CASE ExitStatus
  <2>1. Applies BY <1>15 DEF ExitStatus, Stop, Applies, hosts
  <2>2. QED BY <2>1, AppliesShape
<1>16. QED
  BY <1>1, <1>2, <1>3, <1>4, <1>5, <1>6, <1>7, <1>8, <1>9, <1>10, <1>11, <1>12, <1>13, <1>14, <1>15
     DEF Next, Apply

-----------------------------------------------------------------------------
(* Risks *)

LEMMA InVerifySource ==
    ASSUME NEW p, NEW found, NEW r
    PROVE  r \in VerifySource(p, found) <=>
             \E j \in DOMAIN p :
               \/ p[j].container \notin DOMAIN found /\ r = Risk("source_missing", p[j].name)
               \/ /\ p[j].container \in DOMAIN found
                  /\ \/ Drifted(p[j], found[p[j].container]) /\ r = Risk("source_drift", p[j].name)
                     \/ found[p[j].container].blocked /\ r = Risk("analysis", p[j].name)
BY DEF VerifySource

LEMMA InVerifyTarget ==
    ASSUME NEW p, NEW now, NEW j \in DOMAIN p, NEW code \in Conflicts(p[j], now)
    PROVE  Risk(code, p[j].name) \in VerifyTarget(p, now)
BY DEF VerifyTarget

LEMMA InVerifyTargetImages ==
    ASSUME NEW p, NEW now, NEW j \in DOMAIN p, p[j].acquire = "preload", p[j].image \notin now.images
    PROVE  Risk("image_missing", p[j].name) \in VerifyTargetImages(p, now)
BY DEF VerifyTargetImages

LEMMA InTargetRisks ==
    ASSUME NEW report, NEW volumes
    PROVE  /\ report.docker # "ok" => Risk("docker", NoService) \in TargetRisks(report, volumes)
           /\ report.restic # "ok" => Risk("restic", NoService) \in TargetRisks(report, volumes)
           /\ report.compose # "ok" => Risk("compose", NoService) \in TargetRisks(report, volumes)
BY DEF TargetRisks, HostRisks

LEMMA RiskFields ==
    ASSUME NEW code, NEW name
    PROVE  Risk(code, name).code = code /\ Risk(code, name).service = name
BY DEF Risk

(* Risks the plan reports of one service, whose container is c. *)
OwnRisks(s, c) ==
    {Risk(code, s.name) : code \in
        (IF c.blocked THEN {"analysis"} ELSE {})
        \cup (IF ~s.compose THEN {"generated_compose", "manual_preparation"} ELSE {})
        \cup (IF s.binds # {} THEN {"external_bind_mount"} ELSE {})}

LEMMA InPlanRisks ==
    ASSUME NEW p, NEW found, NEW reports, NEW r \in PlanRisks(p, found, reports)
    PROVE  \/ r \in SourceRisks(reports.source, HasVolumes(p))
           \/ r \in TargetRisks(reports.target, HasVolumes(p))
           \/ \E i \in DOMAIN p : r \in OwnRisks(p[i], found[p[i].container])
           \/ r \in HealthPlanRisks(p)
<1> DEFINE owned == {OwnRisks(p[i], found[p[i].container]) : i \in DOMAIN p}
<1>1. PlanRisks(p, found, reports) =
        SourceRisks(reports.source, HasVolumes(p)) \cup TargetRisks(reports.target, HasVolumes(p))
        \cup (UNION owned) \cup HealthPlanRisks(p)
  BY DEF PlanRisks, OwnRisks
<1>2. r \in UNION owned => \E i \in DOMAIN p : r \in OwnRisks(p[i], found[p[i].container])
  OBVIOUS
<1> HIDE DEF owned
<1>3. QED BY <1>1, <1>2

(* What the plan reports as a blocker is found again on unchanged hosts. *)
LEMMA PlannedBlockersRecur ==
    ASSUME NEW p, NEW found, NEW report, \A i \in DOMAIN p : p[i].container \in DOMAIN found
    PROVE  Blockers(PlanRisks(p, found, [source |-> SourceReport, target |-> report]))
             \subseteq Blockers(TargetRisks(report, HasVolumes(p)) \cup VerifySource(p, found))
<1> DEFINE reports == [source |-> SourceReport, target |-> report]
<1>1. SUFFICES ASSUME NEW r \in PlanRisks(p, found, reports), r.code \in BlockerCodes
               PROVE  r \in TargetRisks(report, HasVolumes(p)) \cup VerifySource(p, found)
  BY DEF Blockers
<1>2. SourceRisks(reports.source, HasVolumes(p)) = {}
  BY DEF SourceRisks, HostRisks, SourceReport
<1>3. reports.target = report OBVIOUS
<1>4. ASSUME NEW i \in DOMAIN p, r \in OwnRisks(p[i], found[p[i].container])
      PROVE  r \in VerifySource(p, found)
  <2>1. PICK code : /\ r = Risk(code, p[i].name)
                    /\ \/ found[p[i].container].blocked /\ code = "analysis"
                       \/ code \in {"generated_compose", "manual_preparation", "external_bind_mount"}
    BY <1>4 DEF OwnRisks
  <2>2. r.code = code BY <2>1, RiskFields
  <2>3. code = "analysis" /\ found[p[i].container].blocked BY <1>1, <2>1, <2>2 DEF BlockerCodes
  <2>4. QED BY <2>1, <2>3, InVerifySource
<1>5. \/ r \in SourceRisks(reports.source, HasVolumes(p))
      \/ r \in TargetRisks(reports.target, HasVolumes(p))
      \/ \E i \in DOMAIN p : r \in OwnRisks(p[i], found[p[i].container])
      \/ r \in HealthPlanRisks(p)
  <2> HIDE DEF reports
  <2>1. QED BY <1>1, InPlanRisks
<1>6. r \notin HealthPlanRisks(p)
  <2>1. SUFFICES ASSUME r \in HealthPlanRisks(p) PROVE FALSE OBVIOUS
  <2>2. r.code = "health_http_not_configured" BY <2>1, RiskFields DEF HealthPlanRisks
  <2>3. QED BY <1>1, <2>2 DEF BlockerCodes
<1>7. QED
  <2> HIDE DEF reports
  <2>1. QED BY <1>2, <1>3, <1>4, <1>5, <1>6

(* The look at the containers of the plan finds what is running. *)
LEMMA InspectedIsFound ==
    ASSUME NEW p, NEW all, NEW found,
           found = [n \in {p[i].container : i \in DOMAIN p} \cap DOMAIN all |-> all[n]]
    PROVE  VerifySource(p, all) \subseteq VerifySource(p, found)
<1>1. ASSUME NEW j \in DOMAIN p
      PROVE  /\ p[j].container \in DOMAIN found <=> p[j].container \in DOMAIN all
             /\ p[j].container \in DOMAIN all => found[p[j].container] = all[p[j].container]
  OBVIOUS
<1>2. SUFFICES ASSUME NEW r \in VerifySource(p, all) PROVE r \in VerifySource(p, found)
  OBVIOUS
<1>3. PICK j \in DOMAIN p :
               \/ p[j].container \notin DOMAIN all /\ r = Risk("source_missing", p[j].name)
               \/ /\ p[j].container \in DOMAIN all
                  /\ \/ Drifted(p[j], all[p[j].container]) /\ r = Risk("source_drift", p[j].name)
                     \/ all[p[j].container].blocked /\ r = Risk("analysis", p[j].name)
  BY InVerifySource
<1>4. \/ p[j].container \notin DOMAIN found /\ r = Risk("source_missing", p[j].name)
      \/ /\ p[j].container \in DOMAIN found
         /\ \/ Drifted(p[j], found[p[j].container]) /\ r = Risk("source_drift", p[j].name)
            \/ found[p[j].container].blocked /\ r = Risk("analysis", p[j].name)
  BY <1>1, <1>3
<1>5. QED BY <1>4, InVerifySource

(* An edit changes nothing that is compared with the source. *)
LEMMA UneditedRisks ==
    ASSUME NEW p, NEW q, NEW found, DOMAIN p = DOMAIN q,
           \A i \in DOMAIN p : Unedited(p[i]) = Unedited(q[i])
    PROVE  VerifySource(p, found) = VerifySource(q, found) /\ HasVolumes(p) = HasVolumes(q)
<1>1. ASSUME NEW j \in DOMAIN p
      PROVE  /\ p[j].container = q[j].container /\ p[j].name = q[j].name
             /\ p[j].volumes = q[j].volumes
             /\ \A c : Drifted(p[j], c) <=> Drifted(q[j], c)
  <2>1. Unedited(p[j]) = Unedited(q[j]) OBVIOUS
  <2>2. \A f \in {"name", "container", "compose", "project", "service", "image",
                  "volumes", "binds", "db"} : p[j][f] = q[j][f]
    BY <2>1 DEF Unedited
  <2>3. QED BY <2>2 DEF Drifted
<1>2. ASSUME NEW r PROVE r \in VerifySource(p, found) <=> r \in VerifySource(q, found)
  BY <1>1, InVerifySource
<1>3. VerifySource(p, found) = VerifySource(q, found) BY <1>2
<1>4. HasVolumes(p) = HasVolumes(q) BY <1>1 DEF HasVolumes
<1>5. QED BY <1>3, <1>4

-----------------------------------------------------------------------------
(* Steps keep what was reviewed *)

LEMMA VettedKept ==
    ASSUME NEW s, seen'.found = seen.found, seen'.target = seen.target, seen'.planned = seen.planned,
           world' = 0 => world = 0, Vetted(s)
    PROVE  Vetted(s)'
BY DEF Vetted

(* Planning: the blockers of the plan are those of the hosts. *)
LEMMA BuildReviewed == ASSUME Shape, Reviewed, BuildAndSave PROVE Reviewed'
<1>1. /\ pc = "plan" /\ pc' \in {"config", "saved"}
      /\ UNCHANGED <<source, target, world, done>>
  BY DEF BuildAndSave, hosts
<1>2. PICK selection \in Selections :
        plan' = BuildPlan([i \in DOMAIN selection[1] |-> source[selection[1][i]]], TRUE,
                          target.report, selection[2])
  BY DEF BuildAndSave
<1> DEFINE order == selection[1]
           cs == [i \in DOMAIN order |-> source[order[i]]]
<1>3. cs \in Seq(Containers) /\ selection[2] \in BOOLEAN /\ order \in Seq(DOMAIN source)
  BY <1>1, SelectionsAreSequences
<1>4. DOMAIN plan' = DOMAIN cs /\ \A i \in DOMAIN plan' : plan'[i].container = cs[i].name
  <2> DEFINE seeable == TRUE
             url == selection[2]
  <2>1. cs \in Seq(Containers) /\ url \in BOOLEAN /\ plan' = BuildPlan(cs, seeable, target.report, url)
    BY <1>2, <1>3
  <2> HIDE DEF seeable, url, cs
  <2>2. QED BY <2>1, BuiltPlan
<1>5. \A i \in DOMAIN plan' : plan'[i].container \in DOMAIN source
  <2> TAKE i \in DOMAIN plan'
  <2>1. i \in DOMAIN order /\ cs[i] = source[order[i]] BY <1>4
  <2>2. order[i] \in DOMAIN source BY <1>3, <2>1
  <2>3. source[order[i]].name = order[i] BY <1>1, <2>2 DEF Shape
  <2> HIDE DEF cs, order
  <2>4. QED BY <1>4, <2>1, <2>2, <2>3
<1> DEFINE planned1 == Blockers(PlanRisks(plan', source,
                                   [source |-> SourceReport, target |-> target.report]))
<1>6. planned1 \subseteq Blockers(TargetRisks(target.report, HasVolumes(plan')) \cup VerifySource(plan', source))
  BY <1>5, PlannedBlockersRecur
<1>7. seen' = [found |-> seen.found, target |-> seen.target, blocked |-> seen.blocked,
               agreed |-> seen.agreed, planned |-> planned1]
  <2>1. seen' = [seen EXCEPT !.planned = planned1] BY DEF BuildAndSave
  <2> HIDE DEF planned1
  <2>2. QED BY <2>1, LooksUpdated DEF Shape, Looks
<1>8. seen'.planned = planned1 /\ seen'.agreed = seen.agreed BY <1>7
<1>9. ~seen.agreed /\ done = << >> BY <1>1 DEF Reviewed, Shape, Early, Looking
<1>10. seen'.planned \subseteq Blockers(Recheck(source))'
  <2> HIDE DEF planned1
  <2>1. QED BY <1>1, <1>6, <1>8 DEF Recheck
<1>11. QED BY <1>1, <1>8, <1>9, <1>10 DEF Reviewed, Busy, Remote

LEMMA EditReviewed == ASSUME Shape, Reviewed, Edit PROVE Reviewed'
<1>1. pc = "saved" /\ UNCHANGED <<pc, flags, source, target, world, seen, done>>
  BY DEF Edit, hosts
<1>2. /\ DOMAIN plan' = DOMAIN plan
      /\ \A i \in DOMAIN plan' : Unedited(plan'[i]) = Unedited(plan[i])
  BY EditKeeps DEF Services
<1>3. VerifySource(plan', source) = VerifySource(plan, source) /\ HasVolumes(plan') = HasVolumes(plan)
  BY <1>2, UneditedRisks
<1>4. Recheck(source)' = Recheck(source) BY <1>1, <1>3 DEF Recheck
<1>5. ~seen.agreed /\ done = << >> BY <1>1 DEF Reviewed, Shape, Early, Looking
<1>6. QED BY <1>1, <1>4, <1>5 DEF Reviewed, Busy, Remote

LEMMA InspectReviewed == ASSUME Shape, Reviewed, Inspect PROVE Reviewed'
<1> DEFINE looked == [n \in {plan[i].container : i \in Services} \cap DOMAIN source |-> source[n]]
<1>1. pc = "inspect" /\ pc' = "probe" /\ UNCHANGED <<flags, source, target, world, plan, done>>
  BY DEF Inspect, hosts
<1>2. seen' = [found |-> looked, target |-> seen.target, blocked |-> seen.blocked,
               agreed |-> seen.agreed, planned |-> seen.planned]
  <2>1. seen' = [seen EXCEPT !.found = looked] BY DEF Inspect
  <2> HIDE DEF looked
  <2>2. QED BY <2>1, LooksUpdated DEF Shape, Looks
<1>3. VerifySource(plan, source) \subseteq VerifySource(plan, looked)
  BY InspectedIsFound DEF Services
<1> HIDE DEF looked
<1>4. ~seen.agreed /\ ~seen'.agreed /\ seen'.planned = seen.planned /\ seen'.found = looked
  BY <1>1, <1>2 DEF Reviewed, Early, Looking
<1>5. Blockers(Recheck(source)) \subseteq Blockers(Recheck(looked))
  BY <1>3 DEF Recheck, Blockers
<1>6. Recheck(seen.found)' = Recheck(looked) BY <1>1, <1>4 DEF Recheck
<1>7. \A i \in DOMAIN done : done[i] = {} BY <1>4 DEF Reviewed
<1>8. QED BY <1>1, <1>4, <1>5, <1>6, <1>7 DEF Reviewed, Busy, Remote

(* The verdict: a service that is not blocked is fit. *)
LEMMA DecideReviewed == ASSUME Shape, Reviewed, Decide PROVE Reviewed'
<1> DEFINE risks == Risks(seen.found, target)
           blockers == Blockers(risks)
           names == {r.service : r \in blockers}
<1>1. /\ pc = "probe" /\ UNCHANGED <<flags, source, target, world, plan, done>>
      /\ IF flags.dryRun THEN pc' = "done"
         ELSE IF \E r \in blockers : r.service = NoService THEN pc' = "done"
         ELSE pc' = "confirm"
  BY DEF Decide, Stop, hosts
<1>2. seen' = [found |-> seen.found, target |-> {target}, blocked |-> names,
               agreed |-> seen.agreed, planned |-> seen.planned]
  <2>1. seen' = [seen EXCEPT !.target = {target}, !.blocked = names] BY DEF Decide
  <2> HIDE DEF names
  <2>2. QED BY <2>1, LooksUpdated DEF Shape, Looks
<1>3. /\ seen'.found = seen.found /\ seen'.target = {target} /\ seen'.blocked = names
      /\ seen'.agreed = seen.agreed /\ seen'.planned = seen.planned
  <2> HIDE DEF names
  <2>1. QED BY <1>2
<1>4. ~seen.agreed BY <1>1 DEF Reviewed, Early, Looking
<1>5. \A i \in DOMAIN done : done[i] = {} BY <1>4 DEF Reviewed
<1>6. ASSUME pc' = "confirm", NEW i \in Services, plan[i].name \notin names
      PROVE  Vetted(plan[i])'
  <2> DEFINE s == plan[i]
             v == HasVolumes(plan)
  <2>1. \A r \in risks : r.code \in BlockerCodes => r.service # NoService /\ r.service # s.name
    BY <1>1, <1>6 DEF Blockers
  <2>2. /\ TargetRisks(target.report, v) \subseteq risks /\ VerifySource(plan, seen.found) \subseteq risks
        /\ VerifyTarget(plan, target) \subseteq risks /\ VerifyTargetImages(plan, target) \subseteq risks
    BY DEF Risks
  <2> HIDE DEF risks, blockers
  <2>3. target.report.docker = "ok" /\ target.report.compose = "ok" /\ target.report.restic = "ok"
    <3>1. {"docker", "restic", "compose"} \subseteq BlockerCodes BY DEF BlockerCodes
    <3>2. \A code \in {"docker", "restic", "compose"} : Risk(code, NoService) \notin TargetRisks(target.report, v)
      BY <2>1, <2>2, <3>1, RiskFields
    <3>3. QED BY <3>2, InTargetRisks
  <2>4. /\ s.container \in DOMAIN seen.found
        /\ ~Drifted(s, seen.found[s.container]) /\ ~seen.found[s.container].blocked
    <3>1. {"source_missing", "source_drift", "analysis"} \subseteq BlockerCodes BY DEF BlockerCodes
    <3>2. \A code \in {"source_missing", "source_drift", "analysis"} :
             Risk(code, s.name) \notin VerifySource(plan, seen.found)
      BY <2>1, <2>2, <3>1, RiskFields
    <3>3. Risk("source_missing", s.name) \notin VerifySource(plan, seen.found) BY <3>2
    <3>4. Risk("source_drift", s.name) \notin VerifySource(plan, seen.found) BY <3>2
    <3>5. Risk("analysis", s.name) \notin VerifySource(plan, seen.found) BY <3>2
    <3>6. s.container \in DOMAIN seen.found BY <3>3, InVerifySource DEF Services
    <3>7. ~Drifted(s, seen.found[s.container]) BY <3>4, <3>6, InVerifySource DEF Services
    <3>8. ~seen.found[s.container].blocked BY <3>5, <3>6, InVerifySource DEF Services
    <3>9. QED BY <3>6, <3>7, <3>8
  <2>5. Conflicts(s, target) = {}
    <3>1. Conflicts(s, target) \subseteq BlockerCodes BY DEF Conflicts, BlockerCodes
    <3>2. ASSUME NEW code \in Conflicts(s, target) PROVE FALSE
      <4>1. Risk(code, s.name) \in VerifyTarget(plan, target) BY InVerifyTarget DEF Services
      <4>2. QED BY <2>1, <2>2, <3>1, <4>1, RiskFields
    <3>3. QED BY <3>2
  <2>6. s.acquire = "preload" => s.image \in target.images
    <3>1. SUFFICES ASSUME s.acquire = "preload", s.image \notin target.images PROVE FALSE
      OBVIOUS
    <3>2. Risk("image_missing", s.name) \in VerifyTargetImages(plan, target)
      BY <3>1, InVerifyTargetImages DEF Services
    <3>3. "image_missing" \in BlockerCodes BY DEF BlockerCodes
    <3>4. QED BY <2>1, <2>2, <3>2, <3>3, RiskFields
  <2>7. /\ s.container \notin target.names /\ Alias(s) \notin target.projects
        /\ PlannedPort(s) \notin target.ports /\ s.toDir \notin target.dirs
    <3>1. NoPort \notin target.ports
      <4>1. target \in Hosts BY <1>1 DEF Shape, Looking
      <4>2. target.ports \in SUBSET (Nat \ {NoPort}) BY <4>1 DEF Hosts
      <4>3. QED BY <4>2
    <3>2. QED BY <2>5, <3>1 DEF Conflicts
  <2>8. world = 0 => \A r \in seen.planned : r.service \notin {NoService, s.name}
    <3>1. SUFFICES ASSUME world = 0, NEW r \in seen.planned
                   PROVE  r.service \notin {NoService, s.name}
      OBVIOUS
    <3>2. r \in Blockers(Recheck(seen.found)) BY <1>1, <3>1 DEF Reviewed
    <3>3. r \in risks /\ r.code \in BlockerCodes BY <2>2, <3>2 DEF Blockers, Recheck
    <3>4. QED BY <2>1, <3>3
  <2>9. plan'[i] = s /\ world' = world BY <1>1
  <2> HIDE DEF s, names
  <2>10. QED BY <1>3, <2>3, <2>4, <2>6, <2>7, <2>8, <2>9 DEF Vetted, Drifted
<1>7. pc' = "confirm" => ~flags.dryRun BY <1>1
<1>8. pc' \in {"done", "confirm"} BY <1>1
<1> HIDE DEF names
<1>9. QED BY <1>1, <1>3, <1>4, <1>5, <1>6, <1>7, <1>8 DEF Reviewed, Busy, Remote, Services

(* Migrate works on a service that is not blocked, and on no other. *)
LEMMA MigrateTouchesOne ==
    ASSUME Migrate
    PROVE  /\ pc \in Busy /\ pc' \in Serving /\ UNCHANGED <<plan, seen, world, flags>>
           /\ pc' \in Busy => cur' = cur
           /\ done' = done \/ \E W : Did(W)
BY DEF Migrate, Backup, Restore, Move, Rewrite, ImportVolumes, ComposeUp, ImportDatabase,
       StepFails, Close, hosts, Busy, Serving, Remote

LEMMA SomethingChanges == ASSUME Shape, SourceChanges \/ TargetChanges PROVE world' = world + 1 /\ world' # 0
<1>1. world' = world + 1 BY DEF SourceChanges, TargetChanges
<1>2. QED BY <1>1 DEF Shape

LEMMA ReviewStep == ASSUME Shape, Reviewed, Progress, [Next]_vars PROVE Reviewed'
<1>1. CASE BuildAndSave BY <1>1, BuildReviewed
<1>2. CASE Edit BY <1>2, EditReviewed
<1>3. CASE Inspect BY <1>3, InspectReviewed
<1>4. CASE Decide BY <1>4, DecideReviewed
<1>5. CASE SaveJob \/ ConfigWritten
  <2>1. /\ pc = "config" /\ pc' \in {"config", "saved"}
        /\ UNCHANGED <<flags, source, target, world, plan, seen, done>>
    BY <1>5 DEF SaveJob, ConfigWritten, hosts
  <2>2. ~seen.agreed BY <2>1 DEF Reviewed, Early, Looking
  <2>3. QED BY <2>1, <2>2 DEF Reviewed, Busy, Remote, Recheck
<1>6. CASE Load
  <2>1. /\ pc = "saved" /\ pc' = "inspect"
        /\ UNCHANGED <<flags, source, target, world, plan, seen>>
        /\ done' = [i \in Services |-> {}]
    BY <1>6 DEF Load, hosts
  <2>2. ~seen.agreed BY <2>1 DEF Reviewed, Early, Looking
  <2>3. QED BY <2>1, <2>2 DEF Reviewed, Busy, Remote, Recheck, Services
<1>7. CASE SourceChanges \/ TargetChanges
  <2>1. UNCHANGED <<pc, flags, plan, cur, seen, done>>
    BY <1>7 DEF SourceChanges, TargetChanges, planned
  <2>2. world' # 0 BY <1>7, SomethingChanges
  <2>3. \A s : Vetted(s) => Vetted(s)' BY <2>1, <2>2, VettedKept
  <2>4. QED BY <2>1, <2>2, <2>3 DEF Reviewed, Services
<1>8. CASE Cancel \/ Hang \/ Finished \/ UNCHANGED vars
  <2>1. UNCHANGED <<pc, flags, source, target, world, plan, cur, seen, done>>
    BY <1>8 DEF Cancel, Hang, Finished, vars, hosts, planned
  <2>2. \A s : Vetted(s) => Vetted(s)' BY <2>1, VettedKept
  <2>3. Recheck(source)' = Recheck(source) /\ Recheck(seen.found)' = Recheck(seen.found)
    BY <2>1 DEF Recheck
  <2>4. QED BY <2>1, <2>2, <2>3 DEF Reviewed, Services
<1>9. CASE LookFails
  <2>1. /\ pc \in Looking /\ pc' = "done" /\ UNCHANGED <<seen, plan, done>>
    BY <1>9 DEF LookFails, Stop, hosts, Looking
  <2>2. ~seen.agreed BY <2>1 DEF Reviewed, Early
  <2>3. QED BY <2>1, <2>2 DEF Reviewed, Busy, Remote, Early, Looking
<1>10. CASE Confirm
  <2>1. /\ pc = "confirm" /\ pc' \in {"next", "done"} /\ UNCHANGED <<flags, world, plan, done>>
        /\ seen' = [seen EXCEPT !.agreed = TRUE] \/ seen' = seen
    BY <1>10 DEF Confirm, Stop, hosts
  <2>2. /\ seen'.found = seen.found /\ seen'.target = seen.target
        /\ seen'.planned = seen.planned /\ seen'.blocked = seen.blocked
    BY <2>1, LooksUpdated DEF Shape, Looks
  <2>3. \A s : Vetted(s) => Vetted(s)' BY <2>1, <2>2, VettedKept
  <2>4. \A i \in DOMAIN done : done[i] = {} BY <2>1 DEF Reviewed, Early
  <2>5. QED BY <2>1, <2>2, <2>3, <2>4 DEF Reviewed, Busy, Remote, Services, Early, Looking
<1>11. CASE NextService
  <2>1. /\ pc = "next" /\ UNCHANGED <<flags, world, plan, seen, done>>
        /\ pc' \in {"health", "next", "backup"}
        /\ pc' = "backup" => plan[cur].name \notin seen.blocked /\ cur' = cur
    BY <1>11 DEF NextService, Close, hosts
  <2>2. seen.agreed BY <2>1 DEF Progress, Serving
  <2>3. \A s : Vetted(s) => Vetted(s)' BY <2>1, VettedKept
  <2>4. QED BY <2>1, <2>2, <2>3 DEF Reviewed, Busy, Remote, Services, Early, Looking
<1>12. CASE Migrate
  <2>1. /\ pc \in Busy /\ pc' \in Serving /\ UNCHANGED <<plan, seen, world, flags>>
        /\ pc' \in Busy => cur' = cur
        /\ done' = done \/ \E W : Did(W)
    BY <1>12, MigrateTouchesOne
  <2>2. seen.agreed BY <2>1 DEF Progress, Serving
  <2>3. plan[cur].name \notin seen.blocked BY <2>1 DEF Reviewed
  <2>4. \A s : Vetted(s) => Vetted(s)' BY <2>1, VettedKept
  <2>5. \A i \in DOMAIN done' : done'[i] # {} => plan[i].name \notin seen.blocked
    <3>1. CASE done' = done BY <3>1 DEF Reviewed
    <3>2. CASE \E W : Did(W)
      <4>1. PICK W : done' = [done EXCEPT ![cur] = @ \cup W] BY <3>2 DEF Did
      <4>2. QED BY <2>3, <4>1 DEF Reviewed
    <3>3. QED BY <2>1, <3>1, <3>2
  <2>6. pc' \notin Early BY <2>1 DEF Serving, Busy, Remote, Early, Looking
  <2>7. QED BY <2>1, <2>2, <2>3, <2>4, <2>5, <2>6 DEF Reviewed, Services, Early, Looking
<1>13. CASE Health
  <2>1. pc = "health" /\ pc' = "exit" /\ UNCHANGED <<flags, world, plan, seen>>
    BY <1>13 DEF Health, hosts
  <2>2. \A s : Vetted(s) => Vetted(s)' BY <2>1, VettedKept
  <2>3. \A i \in DOMAIN done' : i \in DOMAIN done /\ (done'[i] # {} => done[i] # {})
    <3>1. ASSUME NEW i \in Succeeded PROVE done[i] # {}
      <4>1. Moved(i) BY <2>1, <3>1 DEF Succeeded, Progress
      <4>2. QED BY <4>1 DEF Moved
    <3>2. CASE done' = done BY <3>2
    <3>3. CASE done' # done
      <4>1. \A i \in DOMAIN done : done'[i] = done[i] \/ i \in Succeeded
        BY <1>13, <3>3 DEF Health
      <4>2. DOMAIN done' = DOMAIN done BY <1>13, <3>3 DEF Health
      <4>3. QED BY <3>1, <4>1, <4>2
    <3>4. QED BY <3>2, <3>3
  <2>4. QED BY <2>1, <2>2, <2>3 DEF Reviewed, Services, Busy, Remote, Early, Looking
<1>14. CASE ExitStatus
  <2>1. pc = "exit" /\ pc' = "done" /\ UNCHANGED <<flags, world, plan, seen, done>>
    BY <1>14 DEF ExitStatus, Stop, hosts
  <2>2. \A s : Vetted(s) => Vetted(s)' BY <2>1, VettedKept
  <2>3. QED BY <2>1, <2>2 DEF Reviewed, Services, Busy, Remote, Early, Looking
<1>15. QED
  BY <1>1, <1>2, <1>3, <1>4, <1>5, <1>6, <1>7, <1>8, <1>9, <1>10, <1>11, <1>12, <1>13, <1>14
     DEF Next, Apply

(* What is invariant implies what the run checks. *)
LEMMA ReviewedImplies == ASSUME Shape, Reviewed PROVE ReviewedStateOnly
<1>1. \A i \in DOMAIN done : i \in Services BY DEF Shape
<1>2. SUFFICES ASSUME NEW i \in DOMAIN done, done[i] # {}
               PROVE  seen.agreed /\ ~flags.dryRun /\ Vetted(plan[i])
  BY Zenon DEF ReviewedStateOnly, Vetted
<1>3. seen.agreed /\ plan[i].name \notin seen.blocked BY <1>2 DEF Reviewed
<1>4. QED BY <1>1, <1>2, <1>3 DEF Reviewed

-----------------------------------------------------------------------------
(* Steps keep the progress *)

LEMMA DidAt ==
    ASSUME Shape, pc \in Busy, cur \in Services, NEW W, Did(W)
    PROVE  /\ DOMAIN done' = Services /\ done'[cur] = done[cur] \cup W
           /\ \A i \in Services \ {cur} : done'[i] = done[i]
<1>1. done = [i \in Services |-> done[i]] BY DEF Shape, Busy, Remote
<1>2. QED BY <1>1 DEF Did

MovedAs(s, D) ==
    /\ {"backup", "files", "started"} \subseteq D
    /\ Data(s) \subseteq D \/ "unread" \in D
    /\ "unhealthy" \notin D

LEMMA MovedIs == ASSUME NEW i PROVE Moved(i) <=> MovedAs(plan[i], done[i])
BY DEF Moved, MovedAs

(* The service in progress gets its outcome. *)
LEMMA CloseProgress ==
    ASSUME Shape, Progress, pc \in Serving, cur \in Services,
           NEW status, Close(status), UNCHANGED <<plan, seen>>,
           DOMAIN done' = Services, \A i \in Services \ {cur} : done'[i] = done[i],
           status = "success" <=> MovedAs(plan[cur], done'[cur])
    PROVE  Progress'
<1>1. /\ pc' = "next" /\ cur' = cur + 1 /\ out' = Over(At(cur, status), out)
      /\ Services' = Services
  BY DEF Close, Services
<1>2. /\ seen.agreed /\ DOMAIN out = 1 .. cur - 1 /\ \A i \in Services : i > cur => done[i] = {}
      /\ \A i \in DOMAIN out : out[i] = "success" <=> Moved(i)
  BY DEF Progress
<1>3. Len(plan) \in Nat /\ Services = 1 .. Len(plan) BY DEF Shape, Services
<1>4. /\ DOMAIN out' = 1 .. cur /\ out'[cur] = status
      /\ \A i \in 1 .. cur - 1 : out'[i] = out[i]
  <2>1. DOMAIN At(cur, status) = {cur} /\ At(cur, status)[cur] = status BY DEF At
  <2>2. {cur} \cup 1 .. cur - 1 = 1 .. cur /\ cur \notin 1 .. cur - 1 BY <1>3
  <2> DEFINE f == At(cur, status)
  <2>3. out' = [x \in 1 .. cur |-> IF x \in {cur} THEN f[x] ELSE out[x]]
    <3> HIDE DEF f
    <3>1. DOMAIN f = {cur} BY <2>1 DEF f
    <3>2. QED BY <1>1, <1>2, <2>2, <3>1 DEF Over, f
  <2> HIDE DEF f
  <2>4. QED BY <1>3, <2>1, <2>2, <2>3 DEF f
<1>5. \A i \in 1 .. cur : out'[i] = "success" <=> Moved(i)'
  <2> TAKE i \in 1 .. cur
  <2>1. CASE i = cur
    <3>1. Moved(i)' <=> MovedAs(plan'[i], done'[i]) BY DEF Moved, MovedAs
    <3>2. QED BY <1>4, <2>1, <3>1
  <2>2. CASE i # cur
    <3>1. i \in 1 .. cur - 1 /\ i \in Services \ {cur} BY <1>3, <2>2
    <3>2. Moved(i)' <=> Moved(i) BY <3>1 DEF Moved, Data
    <3>3. QED BY <1>2, <1>4, <3>1, <3>2
  <2>3. QED BY <2>1, <2>2
<1>6. cur' \in 1 .. Len(plan) + 1 /\ DOMAIN out' = 1 .. cur' - 1 BY <1>1, <1>3, <1>4
<1>7. \A i \in Services : i >= cur' => done'[i] = {} BY <1>1, <1>2, <1>3
<1>8. \A i \in Services : i > cur' \/ i = cur' => done'[i] = {} BY <1>1, <1>3, <1>7
<1>9. seen'.agreed /\ plan' = plan BY <1>2
<1>10. QED BY <1>1, <1>4, <1>5, <1>6, <1>8, <1>9 DEF Progress, Serving, Busy, Remote, Early, Looking

(* One step of the service in progress. *)
LEMMA StageProgress ==
    ASSUME Shape, Progress, pc \in Busy, pc' \in Busy, cur' = cur, out' = out, UNCHANGED <<plan, seen>>,
           DOMAIN done' = Services, \A i \in Services \ {cur} : done'[i] = done[i],
           Stage(pc', plan[cur], done'[cur])
    PROVE  Progress'
<1>1. /\ seen.agreed /\ DOMAIN out = 1 .. cur - 1 /\ \A i \in Services : i > cur => done[i] = {}
      /\ \A i \in DOMAIN out : out[i] = "success" <=> Moved(i)
      /\ cur \in Services /\ cur \in 1 .. Len(plan) + 1
  BY DEF Progress, Serving
<1>2. Len(plan) \in Nat /\ Services = 1 .. Len(plan) /\ Services' = Services BY DEF Shape, Services
<1>3. \A i \in DOMAIN out : i \in Services \ {cur} BY <1>1, <1>2
<1>4. \A i \in DOMAIN out : Moved(i)' <=> Moved(i) BY <1>3 DEF Moved, Data
<1>5. \A i \in Services : i > cur => done'[i] = {} BY <1>1, <1>2
<1>6. pc' \notin {"inspect", "probe", "confirm", "next", "health", "exit", "done"} /\ pc' \notin Early
  BY DEF Busy, Remote, Early, Looking
<1>7. plan' = plan /\ seen' = seen /\ pc' \in Serving BY DEF Serving
<1>8. \A i \in DOMAIN out' : out'[i] = "success" <=> Moved(i)' BY <1>1, <1>4
<1>9. \A i \in Services' : i > cur' => done'[i] = {} BY <1>2, <1>5
<1>10. DOMAIN out' = 1 .. cur' - 1 /\ cur' \in 1 .. Len(plan') + 1 /\ cur' \in Services'
  BY <1>1, <1>2, <1>7
<1>11. Stage(pc', plan'[cur'], done'[cur']) BY <1>7
<1>12. QED BY <1>1, <1>6, <1>7, <1>8, <1>9, <1>10, <1>11 DEF Progress

(* Where a step of the engines leaves the service, with what it has done. *)
LEMMA BackupProgress == ASSUME Shape, Progress, Backup PROVE Progress'
<1>1. pc = "backup" /\ pc \in Busy /\ UNCHANGED <<plan, seen>> BY DEF Backup, Busy, Remote
<1>2. cur \in Services /\ done[cur] = {} BY <1>1 DEF Progress, Stage
<1>3. CASE Did({"backup"}) /\ pc' = "restore" /\ UNCHANGED <<out, cur>>
  <2>1. /\ DOMAIN done' = Services /\ \A i \in Services \ {cur} : done'[i] = done[i]
        /\ done'[cur] = {"backup"}
    BY <1>1, <1>2, <1>3, DidAt
  <2>2. Stage(pc', plan[cur], done'[cur]) BY <1>3, <2>1 DEF Stage
  <2>3. pc' \in Busy BY <1>3 DEF Busy, Remote
  <2>4. QED BY <1>1, <1>3, <2>1, <2>2, <2>3, StageProgress
<1>4. CASE Did({"untracked"}) /\ Close("failed")
  <2>1. /\ DOMAIN done' = Services /\ \A i \in Services \ {cur} : done'[i] = done[i]
        /\ done'[cur] = {"untracked"}
    BY <1>1, <1>2, <1>4, DidAt
  <2>2. ~MovedAs(plan[cur], done'[cur]) BY <2>1 DEF MovedAs
  <2>3. pc \in Serving BY <1>1 DEF Serving
  <2>4. QED BY <1>1, <1>2, <1>4, <2>1, <2>2, <2>3, CloseProgress
<1>5. QED BY <1>3, <1>4 DEF Backup

LEMMA RestoreProgress == ASSUME Shape, Progress, Restore PROVE Progress'
<1>1. pc = "restore" /\ pc \in Busy /\ UNCHANGED <<plan, seen>> BY DEF Restore, Busy, Remote
<1>2. cur \in Services /\ done[cur] = {"backup"} BY <1>1 DEF Progress, Stage
<1>3. CASE Adjusted(plan[cur])
  <2>1. Did({"files"}) /\ pc' \in {"move", "rewrite"} /\ UNCHANGED <<out, cur>> BY <1>3 DEF Restore
  <2>2. /\ DOMAIN done' = Services /\ \A i \in Services \ {cur} : done'[i] = done[i]
        /\ done'[cur] = {"backup", "files"}
    BY <1>1, <1>2, <2>1, DidAt
  <2>3. Stage(pc', plan[cur], done'[cur]) BY <2>1, <2>2 DEF Stage, HasFiles
  <2>4. pc' \in Busy BY <2>1 DEF Busy, Remote
  <2>5. QED BY <1>1, <2>1, <2>2, <2>3, <2>4, StageProgress
<1>4. CASE ~Adjusted(plan[cur])
  <2>1. PICK data \in {Data(plan[cur]), {"unread"}} : Did({"files", "started"} \cup data)
    BY <1>4 DEF Restore
  <2>2. Close("success") BY <1>4 DEF Restore
  <2>3. /\ DOMAIN done' = Services /\ \A i \in Services \ {cur} : done'[i] = done[i]
        /\ done'[cur] = {"backup", "files", "started"} \cup data
    BY <1>1, <1>2, <2>1, DidAt
  <2>4. MovedAs(plan[cur], done'[cur])
    <3>1. CASE data = Data(plan[cur])
      <4>1. data \subseteq {"volumes", "database"} BY <3>1 DEF Data
      <4>2. QED BY <2>3, <3>1, <4>1 DEF MovedAs
    <3>2. CASE data = {"unread"} BY <2>3, <3>2 DEF MovedAs
    <3>3. QED BY <3>1, <3>2
  <2>5. pc \in Serving BY <1>1 DEF Serving
  <2>6. QED BY <1>1, <1>2, <2>2, <2>3, <2>4, <2>5, CloseProgress
<1>5. QED BY <1>3, <1>4

LEMMA MoveProgress == ASSUME Shape, Progress, Move PROVE Progress'
<1>1. /\ pc = "move" /\ pc' = "rewrite" /\ pc \in Busy /\ pc' \in Busy
      /\ UNCHANGED <<plan, seen, cur, done, out>>
  BY DEF Move, Busy, Remote
<1>2. cur \in Services /\ done[cur] = HasFiles BY <1>1 DEF Progress, Stage
<1>3. DOMAIN done' = Services BY <1>1 DEF Shape
<1>4. Stage(pc', plan[cur], done'[cur]) BY <1>1, <1>2 DEF Stage
<1>5. QED BY <1>1, <1>3, <1>4, StageProgress

LEMMA RewriteProgress == ASSUME Shape, Progress, Rewrite PROVE Progress'
<1>1. /\ pc = "rewrite" /\ pc' \in {"volumes", "up"} /\ pc \in Busy /\ pc' \in Busy
      /\ UNCHANGED <<plan, seen, cur, out>>
  BY DEF Rewrite, Busy, Remote
<1>2. cur \in Services /\ done[cur] = HasFiles BY <1>1 DEF Progress, Stage
<1>3. CASE pc' = (IF plan[cur].volumes # {} THEN "volumes" ELSE "up") /\ UNCHANGED done
  <2>1. DOMAIN done' = Services BY <1>1, <1>3 DEF Shape
  <2>2. Stage(pc', plan[cur], done'[cur]) BY <1>2, <1>3 DEF Stage, HasFiles, VolumesDone
  <2>3. QED BY <1>1, <1>3, <2>1, <2>2, StageProgress
<1>4. CASE Did({"unread"}) /\ pc' = "up"
  <2>1. /\ DOMAIN done' = Services /\ \A i \in Services \ {cur} : done'[i] = done[i]
        /\ done'[cur] = HasFiles \cup {"unread"}
    BY <1>1, <1>2, <1>4, DidAt
  <2>2. Stage(pc', plan[cur], done'[cur]) BY <1>4, <2>1 DEF Stage, VolumesDone, HasFiles
  <2>3. QED BY <1>1, <2>1, <2>2, StageProgress
<1>5. QED BY <1>3, <1>4 DEF Rewrite

LEMMA ImportVolumesProgress == ASSUME Shape, Progress, ImportVolumes PROVE Progress'
<1>1. /\ pc = "volumes" /\ pc' = "up" /\ pc \in Busy /\ pc' \in Busy
      /\ UNCHANGED <<plan, seen, cur, out>> /\ Did({"volumes"})
  BY DEF ImportVolumes, Busy, Remote
<1>2. cur \in Services /\ done[cur] = HasFiles BY <1>1 DEF Progress, Stage
<1>3. /\ DOMAIN done' = Services /\ \A i \in Services \ {cur} : done'[i] = done[i]
      /\ done'[cur] = HasFiles \cup {"volumes"}
  BY <1>1, <1>2, DidAt
<1>4. Stage(pc', plan[cur], done'[cur]) BY <1>1, <1>3 DEF Stage, VolumesDone, HasFiles
<1>5. QED BY <1>1, <1>3, <1>4, StageProgress

LEMMA ComposeUpProgress == ASSUME Shape, Progress, ComposeUp PROVE Progress'
<1>1. /\ pc = "up" /\ pc \in Busy /\ UNCHANGED <<plan, seen>> /\ Did({"started"})
      /\ IF plan[cur].db = "dump" /\ "unread" \notin done[cur]
         THEN pc' = "database" /\ UNCHANGED <<out, cur>>
         ELSE Close("success")
  BY DEF ComposeUp, Busy, Remote
<1>2. /\ cur \in Services /\ HasFiles \subseteq done[cur]
      /\ done[cur] \subseteq HasFiles \cup {"volumes", "unread"} /\ VolumesDone(plan[cur], done[cur])
  BY <1>1 DEF Progress, Stage
<1>3. /\ DOMAIN done' = Services /\ \A i \in Services \ {cur} : done'[i] = done[i]
      /\ done'[cur] = done[cur] \cup {"started"}
  BY <1>1, <1>2, DidAt
<1>4. CASE plan[cur].db = "dump" /\ "unread" \notin done[cur]
  <2>1. Stage(pc', plan[cur], done'[cur])
    BY <1>1, <1>2, <1>3, <1>4 DEF Stage, VolumesDone, HasFiles
  <2>2. pc' \in Busy BY <1>1, <1>4 DEF Busy, Remote
  <2>3. QED BY <1>1, <1>3, <1>4, <2>1, <2>2, StageProgress
<1>5. CASE ~(plan[cur].db = "dump" /\ "unread" \notin done[cur])
  <2>1. MovedAs(plan[cur], done'[cur])
    BY <1>2, <1>3, <1>5 DEF MovedAs, Data, VolumesDone, HasFiles
  <2>2. pc \in Serving BY <1>1 DEF Serving
  <2>3. QED BY <1>1, <1>2, <1>3, <1>5, <2>1, <2>2, CloseProgress
<1>6. QED BY <1>4, <1>5

LEMMA ImportDatabaseProgress == ASSUME Shape, Progress, ImportDatabase PROVE Progress'
<1>1. /\ pc = "database" /\ pc \in Busy /\ pc \in Serving /\ UNCHANGED <<plan, seen>>
      /\ Did({"database"}) /\ Close("success")
  BY DEF ImportDatabase, Busy, Remote, Serving
<1>2. /\ cur \in Services /\ HasFiles \cup {"started"} \subseteq done[cur]
      /\ done[cur] \subseteq HasFiles \cup {"started", "volumes"} /\ VolumesDone(plan[cur], done[cur])
  BY <1>1 DEF Progress, Stage
<1>3. /\ DOMAIN done' = Services /\ \A i \in Services \ {cur} : done'[i] = done[i]
      /\ done'[cur] = done[cur] \cup {"database"}
  BY <1>1, <1>2, DidAt
<1>4. MovedAs(plan[cur], done'[cur]) BY <1>2, <1>3 DEF MovedAs, Data, VolumesDone, HasFiles
<1>5. QED BY <1>1, <1>2, <1>3, <1>4, CloseProgress

(* A step that fails leaves the service unfinished, wherever it was. *)
LEMMA StepFailsProgress == ASSUME Shape, Progress, StepFails PROVE Progress'
<1>1. pc \in Busy /\ pc \in Serving /\ UNCHANGED <<plan, seen>> /\ Close("failed")
  BY DEF StepFails, Busy, Serving
<1>2. cur \in Services /\ Stage(pc, plan[cur], done[cur]) BY <1>1 DEF Progress
<1>3. ~MovedAs(plan[cur], done[cur])
  <2>1. CASE pc # "database"
    <3>1. "started" \notin done[cur]
      BY <1>1, <1>2, <2>1 DEF Stage, HasFiles, Busy, Remote
    <3>2. QED BY <3>1 DEF MovedAs
  <2>2. CASE pc = "database" BY <1>2, <2>2 DEF Stage, HasFiles, MovedAs, Data
  <2>3. QED BY <2>1, <2>2
<1>4. CASE UNCHANGED <<target, done>>
  <2>1. DOMAIN done' = Services BY <1>1, <1>4 DEF Shape, Busy, Remote
  <2>2. QED BY <1>1, <1>2, <1>3, <1>4, <2>1, CloseProgress
<1>5. CASE pc = "restore" /\ Did({"files"})
  <2>1. done[cur] = {"backup"} BY <1>2, <1>5 DEF Stage
  <2>2. /\ DOMAIN done' = Services /\ \A i \in Services \ {cur} : done'[i] = done[i]
        /\ done'[cur] = {"backup", "files"}
    BY <1>1, <1>2, <1>5, <2>1, DidAt
  <2>3. ~MovedAs(plan[cur], done'[cur]) BY <2>2 DEF MovedAs
  <2>4. QED BY <1>1, <1>2, <2>2, <2>3, CloseProgress
<1>6. QED BY <1>4, <1>5 DEF StepFails

(* The next service, one left out, or the last one done. *)
LEMMA NextServiceProgress == ASSUME Shape, Progress, NextService PROVE Progress'
<1>1. pc = "next" /\ pc \in Serving /\ UNCHANGED <<plan, seen, done>>
  BY DEF NextService, Serving
<1>2. /\ seen.agreed /\ cur \in 1 .. Len(plan) + 1 /\ DOMAIN out = 1 .. cur - 1
      /\ \A i \in Services : i > cur \/ i = cur => done[i] = {}
      /\ \A i \in DOMAIN out : out[i] = "success" <=> Moved(i)
  BY <1>1 DEF Progress
<1>3. Len(plan) \in Nat /\ Services = 1 .. Len(plan) /\ DOMAIN done = Services BY <1>1 DEF Shape, Services
<1>4. \A i : Moved(i)' <=> Moved(i) BY <1>1 DEF Moved, Data
<1>5. Services' = Services BY <1>1 DEF Services
<1>6. CASE cur > Len(plan)
  <2>1. pc' = "health" /\ UNCHANGED <<cur, out>> BY <1>6 DEF NextService
  <2>2. DOMAIN out' = Services' BY <1>2, <1>3, <1>5, <1>6, <2>1
  <2>3. QED BY <1>1, <1>2, <1>4, <2>1, <2>2 DEF Progress, Serving, Busy, Remote, Early, Looking
<1>7. CASE cur <= Len(plan) /\ plan[cur].name \in seen.blocked
  <2>1. Close("skipped") BY <1>2, <1>3, <1>7 DEF NextService
  <2>2. cur \in Services BY <1>2, <1>3, <1>7
  <2>3. ~MovedAs(plan[cur], done'[cur]) BY <1>1, <1>2, <2>2 DEF MovedAs
  <2>4. DOMAIN done' = Services BY <1>1, <1>3
  <2>5. QED BY <1>1, <2>1, <2>2, <2>3, <2>4, CloseProgress
<1>8. CASE cur <= Len(plan) /\ plan[cur].name \notin seen.blocked
  <2>1. pc' = "backup" /\ UNCHANGED <<cur, out>> BY <1>2, <1>3, <1>8 DEF NextService
  <2>2. cur \in Services /\ Stage(pc', plan[cur], done[cur]) BY <1>2, <1>3, <1>8, <2>1 DEF Stage
  <2>3. QED BY <1>1, <1>2, <1>4, <1>5, <2>1, <2>2 DEF Progress, Serving, Busy, Remote, Early, Looking
<1>9. QED BY <1>2, <1>3, <1>6, <1>7, <1>8

(* A service that was probed is not moved if a check failed, and moved as  *)
(* before otherwise.                                                       *)
LEMMA HealthProgress == ASSUME Shape, Progress, Health PROVE Progress'
<1>1. pc = "health" /\ pc' = "exit" /\ UNCHANGED <<plan, seen, cur>> BY DEF Health
<1>2. DOMAIN out = Services /\ \A i \in DOMAIN out : out[i] = "success" <=> Moved(i)
  BY <1>1 DEF Progress
<1>3. DOMAIN done = Services BY <1>1 DEF Shape
<1>4. DOMAIN out' = Services /\ \A i \in Services : out'[i] = "success" <=> MovedAs(plan[i], done'[i])
  <2>1. CASE UNCHANGED <<out, done>> BY <1>2, <2>1 DEF Moved, MovedAs
  <2>2. CASE ~ UNCHANGED <<out, done>>
    <3>1. PICK host \in [docker : {"running", "stopped"}, ss : BOOLEAN, curl : BOOLEAN],
               state \in [Succeeded -> {"running", "restarting", "unresolved"}] :
            /\ out' = [i \in DOMAIN out |->
                         IF i \in Succeeded THEN FoldHealth(i, Checks(plan[i], host, state[i])) ELSE out[i]]
            /\ done' = [i \in DOMAIN done |->
                          IF i \in Succeeded /\ "failed" \in Checks(plan[i], host, state[i])
                          THEN done[i] \cup {"unhealthy"}
                          ELSE IF i \in Succeeded /\ "manual" \in Checks(plan[i], host, state[i])
                          THEN done[i] \cup {"unverified"} ELSE done[i]]
      BY <2>2 DEF Health
    <3>2. ASSUME NEW i \in Services PROVE out'[i] = "success" <=> MovedAs(plan[i], done'[i])
      <4>1. out[i] = "success" <=> MovedAs(plan[i], done[i]) BY <1>2, MovedIs
      <4> DEFINE checks == Checks(plan[i], host, state[i])
      <4>2. CASE i \in Succeeded /\ "failed" \in checks
        <5>1. out'[i] = "failed" /\ done'[i] = done[i] \cup {"unhealthy"}
          BY <1>2, <1>3, <3>1, <4>2 DEF FoldHealth
        <5>2. QED BY <5>1 DEF MovedAs
      <4>3. CASE i \in Succeeded /\ "failed" \notin checks
        <5>1. out'[i] = out[i] /\ (done'[i] = done[i] \/ done'[i] = done[i] \cup {"unverified"})
          BY <1>2, <1>3, <3>1, <4>3 DEF FoldHealth
        <5>2. out[i] = "success" BY <4>3 DEF Succeeded
        <5>3. QED BY <4>1, <5>1, <5>2 DEF MovedAs
      <4>4. CASE i \notin Succeeded
        <5>1. out'[i] = out[i] /\ done'[i] = done[i] BY <1>2, <1>3, <3>1, <4>4
        <5>2. QED BY <4>1, <5>1
      <4>5. QED BY <4>2, <4>3, <4>4
    <3>3. DOMAIN out' = Services BY <1>2, <3>1
    <3>4. QED BY <3>2, <3>3
  <2>3. QED BY <2>1, <2>2
<1>5. \A i \in DOMAIN out' : out'[i] = "success" <=> Moved(i)' BY <1>1, <1>4 DEF Moved, MovedAs, Data
<1>6. DOMAIN out' = Services' BY <1>1, <1>4 DEF Services
<1>7. QED BY <1>1, <1>5, <1>6 DEF Progress, Serving, Busy, Remote, Early, Looking

LEMMA ExitProgress ==
    ASSUME Shape, Progress, ExitStatus PROVE Progress' /\ ExitStatusEarned'
<1>1. /\ pc = "exit" /\ pc' = "done" /\ UNCHANGED <<plan, seen, cur, done, out>>
      /\ exit' = IF \A i \in DOMAIN out : out[i] = "success" THEN "ok" ELSE "failed"
  BY DEF ExitStatus, Stop
<1>2. DOMAIN out = Services /\ \A i \in DOMAIN out : out[i] = "success" <=> Moved(i)
  BY <1>1 DEF Progress
<1>3. DOMAIN out' = Services' /\ \A i : Moved(i)' <=> Moved(i)
  BY <1>1, <1>2 DEF Services, Moved, Data
<1>4. exit' = "ok" <=> \A i \in Services : Moved(i) BY <1>1, <1>2
<1>5. Services' = Services BY <1>1 DEF Services
<1>6. QED
  BY <1>1, <1>3, <1>4, <1>5 DEF Progress, ExitStatusEarned, Serving, Busy, Remote, Early, Looking

LEMMA ProgressStep ==
    ASSUME Shape, Reviewed, Progress, ExitStatusEarned, [Next]_vars
    PROVE  Progress' /\ ExitStatusEarned'
<1>1. CASE Migrate
  <2>1. Progress'
    BY <1>1, BackupProgress, RestoreProgress, MoveProgress, RewriteProgress, ImportVolumesProgress,
       ComposeUpProgress, ImportDatabaseProgress, StepFailsProgress DEF Migrate
  <2>2. pc' # "done" BY <1>1, MigrateTouchesOne DEF Serving, Busy, Remote
  <2>3. QED BY <2>1, <2>2 DEF ExitStatusEarned
<1>2. CASE NextService
  <2>1. pc' # "done" BY <1>2 DEF NextService, Close
  <2>2. QED BY <1>2, <2>1, NextServiceProgress DEF ExitStatusEarned
<1>3. CASE Health
  <2>1. pc' # "done" BY <1>3 DEF Health
  <2>2. QED BY <1>3, <2>1, HealthProgress DEF ExitStatusEarned
<1>4. CASE ExitStatus BY <1>4, ExitProgress
<1>5. CASE BuildAndSave \/ Edit
  <2>1. pc \in {"plan", "saved"} /\ pc' \in {"config", "saved"} /\ UNCHANGED <<cur, out>>
    BY <1>5 DEF BuildAndSave, Edit
  <2>2. QED BY <2>1 DEF Progress, ExitStatusEarned, Serving, Busy, Remote, Early, Looking
<1>6. CASE SaveJob \/ ConfigWritten
  <2>1. pc = "config" /\ pc' \in {"config", "saved"} /\ cur' \in {cur, cur + 1, 1} /\ UNCHANGED out
    BY <1>6 DEF SaveJob, ConfigWritten
  <2>2. QED BY <2>1 DEF Progress, ExitStatusEarned, Serving, Busy, Remote, Early, Looking
<1>7. CASE Load
  <2>1. /\ pc = "saved" /\ pc' = "inspect" /\ cur' = 1 /\ UNCHANGED <<plan, out>>
        /\ done' = [i \in Services |-> {}]
    BY <1>7 DEF Load
  <2>2. QED BY <2>1 DEF Progress, ExitStatusEarned, Services, Serving, Busy, Remote, Early, Looking
<1>8. CASE Inspect
  <2>1. pc = "inspect" /\ pc' = "probe" /\ UNCHANGED <<plan, cur, done, out>> BY <1>8 DEF Inspect
  <2>2. QED BY <2>1 DEF Progress, ExitStatusEarned, Services, Serving, Busy, Remote, Early, Looking
<1>9. CASE LookFails
  <2>1. pc \in Early /\ pc' = "done" /\ UNCHANGED <<plan, seen>>
    BY <1>9 DEF LookFails, Stop, Early, Looking
  <2>2. ~seen.agreed BY <2>1 DEF Reviewed
  <2>3. QED BY <2>1, <2>2 DEF Progress, ExitStatusEarned, Serving, Busy, Remote, Early, Looking
<1>10. CASE Decide
  <2>1. pc = "probe" /\ pc' \in {"done", "confirm"} /\ UNCHANGED <<plan, cur, done, out>>
    BY <1>10 DEF Decide, Stop
  <2>2. ~seen.agreed BY <2>1 DEF Reviewed, Early, Looking
  <2>3. \E x, y : seen' = [seen EXCEPT !.target = x, !.blocked = y] BY <1>10 DEF Decide
  <2>4. seen'.agreed = seen.agreed BY <2>3, LooksUpdated DEF Shape, Looks
  <2>5. QED
    BY <2>1, <2>2, <2>4 DEF Progress, ExitStatusEarned, Services, Serving, Busy, Remote, Early, Looking
<1>11. CASE Confirm
  <2>1. /\ pc = "confirm" /\ UNCHANGED <<plan, cur, done, out>>
        /\ \/ seen' = [seen EXCEPT !.agreed = TRUE] /\ pc' = "next"
           \/ pc' = "done" /\ seen' = seen
    BY <1>11 DEF Confirm, Stop
  <2>2. ~seen.agreed BY <2>1 DEF Reviewed, Early
  <2>3. CASE pc' = "done" /\ seen' = seen
    BY <2>1, <2>2, <2>3 DEF Progress, ExitStatusEarned, Serving, Busy, Remote, Early, Looking
  <2>4. CASE seen' = [seen EXCEPT !.agreed = TRUE] /\ pc' = "next"
    <3>1. seen'.agreed BY <2>4, LooksUpdated DEF Shape, Looks
    <3>2. cur = 1 /\ out = << >> /\ \A i \in Services : done[i] = {}
      BY <2>1 DEF Progress, Early
    <3>3. Len(plan) \in Nat BY DEF Shape
    <3>4. DOMAIN out' = 1 .. cur' - 1 /\ cur' \in 1 .. Len(plan') + 1 /\ DOMAIN out' = {}
      BY <2>1, <3>2, <3>3
    <3>5. QED
      BY <2>1, <2>4, <3>1, <3>2, <3>4
         DEF Progress, ExitStatusEarned, Services, Serving, Busy, Remote, Early, Looking
  <2>5. QED BY <2>1, <2>3, <2>4
<1>12. CASE SourceChanges \/ TargetChanges \/ Cancel \/ Hang \/ Finished \/ UNCHANGED vars
  <2>1. UNCHANGED <<pc, plan, cur, seen, done, out, exit>>
    BY <1>12 DEF SourceChanges, TargetChanges, Cancel, Hang, Finished, vars, planned
  <2>2. \A i : Moved(i)' <=> Moved(i) BY <2>1 DEF Moved, Data
  <2>3. Services' = Services BY <2>1 DEF Services
  <2>4. Progress' BY <2>1, <2>2, <2>3 DEF Progress
  <2>5. ExitStatusEarned' BY <2>1, <2>2, <2>3 DEF ExitStatusEarned
  <2>6. QED BY <2>4, <2>5
<1>13. QED
  BY <1>1, <1>2, <1>3, <1>4, <1>5, <1>6, <1>7, <1>8, <1>9, <1>10, <1>11, <1>12 DEF Next, Apply

-----------------------------------------------------------------------------
(* The theorems *)

LEMMA Invariance == Spec => []Inv
<1>1. Init => Inv BY InitInv
<1>2. Inv /\ [Next]_vars => Inv'
  BY ShapeStep, ReviewStep, ProgressStep DEF Inv
<1>3. QED BY <1>1, <1>2, PTL DEF Spec

(* jobNames: whatever the containers and their Compose services are called,*)
(* and however often the plan is edited, no two services share a name.     *)
THEOREM NamesStayDistinct == Spec => []JobNamesDistinct
<1>1. Inv => JobNamesDistinct BY DEF Inv
<1>2. QED BY <1>1, Invariance, PTL

(* docker_apply.go: nothing is done for a service that the operator did not*)
(* agree to, that changed since it was planned, or for which the target was*)
(* not ready when apply looked.                                            *)
THEOREM NothingUnreviewed == Spec => []ReviewedStateOnly
<1>1. Inv => ReviewedStateOnly BY ReviewedImplies DEF Inv
<1>2. QED BY <1>1, Invariance, PTL

(* runDockerApply: once agreed to, every service has an outcome and the    *)
(* command succeeds exactly if all of them were moved.                     *)
THEOREM SuccessMeansMoved == Spec => []ExitStatusEarned
<1>1. Inv => ExitStatusEarned BY DEF Inv
<1>2. QED BY <1>1, Invariance, PTL
=============================================================================
