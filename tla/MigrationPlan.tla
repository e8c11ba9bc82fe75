----------------------------- MODULE MigrationPlan -----------------------------
(***************************************************************************)
(* internal/migration/plan.go, verify.go and health.go, and the verdicts of*)
(* internal/capability/health.go: the pure part of a container migration.  *)
(* A plan is built from what was seen on two hosts, edited by hand, and    *)
(* checked again against the hosts before it is applied.                   *)
(*                                                                         *)
(* A container is a record [name, project, service, image, volumes, binds, *)
(* db, port, dir, blocked]: `project` is << >> for a plain container, names*)
(* are sequences of words (joined by "-" in the program), and `volumes`    *)
(* and `binds` are sets.  A report has one status per prerequisite.        *)
(***************************************************************************)
EXTENDS Integers, Sequences, FiniteSets

CONSTANT Before(_, _)   \* the order of job names

Plain == << >>
NoPort == 0
NoService == << >>

Names == Seq(STRING)
Containers == [name : Names, project : Names, service : Names, image : STRING,
               volumes : SUBSET STRING, binds : SUBSET STRING, db : STRING, port : Nat,
               dir : STRING, blocked : BOOLEAN]
Reports == [docker : STRING, restic : STRING, compose : STRING, helper : STRING,
            disk : STRING, registry : STRING, paths : STRING]
Hosts == [names : SUBSET Names, projects : SUBSET Names, ports : SUBSET (Nat \ {NoPort}),
          dirs : SUBSET STRING, images : SUBSET STRING, report : Reports]

(* Faulty: a name that is still taken after the fallback is used anyway. *)
TakenNameReused(name, used) == name

(* jobNames: "-x" is appended for as long as the name is taken. *)
FreeName(name, used) ==
    LET padded(k) == name \o [i \in 1 .. k |-> "x"]
        k == CHOOSE n \in 0 .. Cardinality(used) :
               /\ padded(n) \notin used
               /\ \A m \in 0 .. n - 1 : padded(m) \in used
    IN  padded(k)

(* jobNames: the Compose service, else the container; a second one of that *)
(* name also gets the container's.                                         *)
JobNames(containers) ==
    LET Base(c) == IF c.service # << >> THEN c.service ELSE c.name
        names[n \in 0 .. Len(containers)] ==
            IF n = 0 THEN << >>
            ELSE LET taken == {names[n - 1][i] : i \in 1 .. n - 1}
                     base == Base(containers[n])
                     name == IF base \in taken THEN base \o containers[n].name ELSE base
                 IN  Append(names[n - 1], FreeName(name, taken))
    IN  names[Len(containers)]

(* imageAcquisition *)
ImageAcquisition(target, report) ==
    IF ~target THEN "unknown"
    ELSE CASE report.registry = "ok" -> "pull"
           [] report.registry = "missing" -> "preload"
           [] OTHER -> "unknown"

(* buildService: the target starts out as a copy of the source.            *)
BuildService(c, jobName, target, report) ==
    [name |-> jobName, container |-> c.name, compose |-> c.project # Plain,
     project |-> c.project, service |-> c.service, image |-> c.image,
     acquire |-> ImageAcquisition(target, report), volumes |-> c.volumes,
     binds |-> c.binds, db |-> c.db, port |-> c.port, dir |-> c.dir, url |-> FALSE,
     toPort |-> c.port, toDir |-> c.dir, toBinds |-> [b \in c.binds |-> b]]

(* BuildPlan: a URL for the health check belongs to the only service.      *)
BuildPlan(containers, target, report, url) ==
    LET names == JobNames(containers)
        health == url /\ Len(containers) = 1
    IN  [i \in DOMAIN containers |->
            [BuildService(containers[i], names[i], target, report) EXCEPT !.url = health]]

(* ApplyAlias: the backup job, and the Compose project on the target. *)
Alias(s) == IF s.compose THEN s.project ELSE s.name

(* Adjustments(service).Any() *)
Adjusted(s) ==
    \/ s.toPort # s.port /\ s.toPort # NoPort
    \/ s.toDir # s.dir
    \/ \E b \in s.binds : s.toBinds[b] # b

PlannedPort(s) == IF s.toPort # NoPort THEN s.toPort ELSE s.port

-----------------------------------------------------------------------------
(* Risks.  One of no service concerns the whole plan. *)

Risk(code, name) == [code |-> code, service |-> name]

BlockerCodes == {"analysis", "docker", "restic", "helper", "disk_full", "compose", "path",
                 "source_missing", "source_drift", "container_conflict", "project_conflict",
                 "port_conflict", "path_conflict", "image_missing", "multi_service"}

(* RiskSummary.Add routes a risk by its code. *)
Blockers(risks) == {r \in risks : r.code \in BlockerCodes}

HasVolumes(plan) == \E i \in DOMAIN plan : plan[i].volumes # {}

(* Prerequisites both hosts have: sourceRisks, targetRisks, diskRisks. *)
HostRisks(report, volumes) ==
    {Risk(code, NoService) : code \in
        {k \in {"docker", "restic"} : report[k] # "ok"}
        \cup (IF volumes /\ report.helper = "missing" THEN {"helper"} ELSE {})
        \cup (IF report.disk = "missing" THEN {"disk_full"} ELSE {})
        \cup (IF report.disk = "partial" THEN {"disk_tight"} ELSE {})}

SourceRisks(report, volumes) == HostRisks(report, volumes)

TargetRisks(report, volumes) ==
    HostRisks(report, volumes) \cup
    {Risk(code, NoService) : code \in
        (IF report.compose # "ok" THEN {"compose"} ELSE {})
        \cup (IF report.registry = "missing" THEN {"registry"} ELSE {})
        \cup (IF report.paths = "missing" THEN {"path"} ELSE {})}

(* sourceDriftRisks: what makes the container another one than was planned.*)
(* Ports and the project directory are not compared.                       *)
Drifted(s, now) ==
    \/ now.image # s.image
    \/ (now.project # Plain) # s.compose
    \/ now.project # s.project \/ now.service # s.service
    \/ now.volumes # s.volumes \/ now.binds # s.binds \/ now.db # s.db

(* VerifySource: `found` maps the names of the containers that were inspected *)
(* to what was seen; a container that is gone is missing from it.          *)
VerifySource(plan, found) ==
    {Risk("source_missing", s.name) :
        s \in {plan[i] : i \in {j \in DOMAIN plan : plan[j].container \notin DOMAIN found}}}
    \cup {Risk("source_drift", s.name) :
        s \in {plan[i] : i \in {j \in DOMAIN plan :
                  plan[j].container \in DOMAIN found /\ Drifted(plan[j], found[plan[j].container])}}}
    \cup {Risk("analysis", s.name) :
        s \in {plan[i] : i \in {j \in DOMAIN plan :
                  plan[j].container \in DOMAIN found /\ found[plan[j].container].blocked}}}

(* Faulty: a directory in the way is not looked for. *)
ConflictsButDirectory(s, target) ==
    (IF s.container \in target.names THEN {"container_conflict"} ELSE {})
    \cup (IF Alias(s) \in target.projects THEN {"project_conflict"} ELSE {})
    \cup (IF PlannedPort(s) # NoPort /\ PlannedPort(s) \in target.ports THEN {"port_conflict"} ELSE {})

(* targetConflicts: names, projects, ports of running containers, and the  *)
(* Compose directory the plan names for the target.                        *)
Conflicts(s, target) ==
    (IF s.container \in target.names THEN {"container_conflict"} ELSE {})
    \cup (IF Alias(s) \in target.projects THEN {"project_conflict"} ELSE {})
    \cup (IF PlannedPort(s) # NoPort /\ PlannedPort(s) \in target.ports THEN {"port_conflict"} ELSE {})
    \cup (IF s.toDir \in target.dirs THEN {"path_conflict"} ELSE {})

VerifyTarget(plan, target) ==
    UNION {{Risk(code, plan[i].name) : code \in Conflicts(plan[i], target)} : i \in DOMAIN plan}

VerifyTargetImages(plan, target) ==
    {Risk("image_missing", s.name) :
        s \in {plan[i] : i \in {j \in DOMAIN plan :
                  plan[j].acquire = "preload" /\ plan[j].image \notin target.images}}}

(* One follow-up for all services that have no URL to check.               *)
HealthPlanRisks(plan) ==
    {Risk("health_http_not_configured", NoService) : i \in {j \in DOMAIN plan : ~plan[j].url}}

(* collectRisks and serviceRisks: what the plan itself reports.  Warnings  *)
(* and follow-ups are for the reader, two of each kind stand for all.      *)
PlanRisks(plan, found, report) ==
    SourceRisks(report.source, HasVolumes(plan)) \cup TargetRisks(report.target, HasVolumes(plan))
    \cup (UNION {{Risk(code, plan[i].name) : code \in
                   (IF found[plan[i].container].blocked THEN {"analysis"} ELSE {})
                   \cup (IF ~plan[i].compose THEN {"generated_compose", "manual_preparation"} ELSE {})
                   \cup (IF plan[i].binds # {} THEN {"external_bind_mount"} ELSE {})} : i \in DOMAIN plan})
    \cup HealthPlanRisks(plan)

(* VerifyProjectBatching: of the services of one project the plan selects, *)
(* the first by name is blocked.                                           *)
VerifyProjectBatching(plan) ==
    LET Of(p) == {plan[i].name : i \in {j \in DOMAIN plan : plan[j].compose /\ plan[j].project = p}}
        First(names) == CHOOSE n \in names : \A m \in names \ {n} : Before(n, m)
        Shared == {p \in {plan[i].project : i \in DOMAIN plan} : Cardinality(Of(p)) >= 2}
    IN  {Risk("multi_service", First(Of(p))) : p \in Shared}

-----------------------------------------------------------------------------
(* The post-start checks.  A host says which tools it has, a service what  *)
(* state it is in.                                                         *)

(* healthContainerScript: the state of the container, if one is found. *)
ContainerLine(host, state) ==
    IF host.docker # "running" \/ state = "unresolved" THEN "unknown" ELSE state

(* containerHealthCheck; RestartCount counts like a restart in progress. *)
ContainerCheck(docker, line) ==
    CASE docker # "running" -> IF docker = "unknown" THEN "manual" ELSE "failed"
      [] docker = "running" /\ line = "unknown" -> "manual"
      [] docker = "running" /\ line = "running" -> "ok"
      [] OTHER -> "failed"

(* The PORT line: yes, no, or unknown for want of ss and netstat. *)
PortLine(host, state) ==
    IF ~host.ss THEN "unknown" ELSE IF state = "running" THEN "yes" ELSE "no"

(* The DB line: unknown without a container to ask. *)
DatabaseLine(host, state) ==
    IF ContainerLine(host, state) = "unknown" THEN "unknown"
    ELSE IF state = "running" THEN "yes" ELSE "no"

(* portHealthCheck and databaseHealthCheck. *)
PortCheck(answer) ==
    CASE answer = "yes" -> "ok" [] answer = "no" -> "failed" [] OTHER -> "manual"

(* The last two fields of the HTTP line. *)
HttpLine(host, state) ==
    IF ~host.curl THEN <<"tool-missing", "no">>
    ELSE IF state = "running" THEN <<"200", "yes">> ELSE <<"500", "no">>

(* httpHealthCheck reads its verdict from the last field. *)
HttpCheck(line) ==
    CASE line[2] = "tool-missing" -> "manual" [] line[2] = "yes" -> "ok" [] OTHER -> "failed"

(* ParseHealthOutput: the checks of one service on one host. *)
Checks(s, host, state) ==
    {ContainerCheck(host.docker, ContainerLine(host, state))}
    \cup (IF PlannedPort(s) = NoPort THEN {} ELSE {PortCheck(PortLine(host, state))})
    \cup (IF s.db # "dump" THEN {"skipped"} ELSE {PortCheck(DatabaseLine(host, state))})
    \cup (IF ~s.url THEN {"skipped"} ELSE {HttpCheck(HttpLine(host, state))})
=============================================================================
