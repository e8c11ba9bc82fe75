------------------------------- MODULE Migration -------------------------------
(***************************************************************************)
(* cmd/opspulse/docker_plan.go and docker_apply.go: containers of a source *)
(* host are planned, the plan is edited and reviewed, and some time later  *)
(* applied to a target host, one service after the other: back up, restore,*)
(* adjust, start, and look whether the service can be used.  Both hosts    *)
(* have other users.                                                       *)
(*                                                                         *)
(* The backup and restore engines are one step each: what they do inside,  *)
(* and their audit, is BackupRunner and RestoreRunner.                     *)
(***************************************************************************)
EXTENDS MigrationPlan

CONSTANTS
    Sources,      \* what the source host may run: sequences of containers
    Targets,      \* what the target host may look like when planned
    Edits,        \* edits of a saved plan: <<service's position, field, value>>
    Flags,        \* command-line flags: [dryRun, yes, health, config]
    MaxWorld      \* bound: changes of others to the two hosts

ASSUME MigrationAssumption ==
    /\ MaxWorld \in Nat
    /\ Sources \subseteq Seq(Containers) /\ Targets \subseteq Hosts
    /\ \A e \in Edits : /\ e[2] \in {"dir", "port", "bind"}
                         /\ e[3] \in IF e[2] = "port" THEN Nat ELSE STRING
    /\ Flags \subseteq [dryRun : BOOLEAN, yes : BOOLEAN, health : BOOLEAN, config : BOOLEAN]

VARIABLES
    pc,       \* where the two commands are
    flags,    \* of docker apply, and --write-config of docker plan
    source,   \* the containers of the source host: name -> container
    target,   \* the target host: names, projects, ports, dirs, images, report
    world,    \* how often others changed a host
    plan,     \* the saved plan
    jobs,     \* backups.yaml: job -> container it backs up
    seen,     \* what apply found on the two hosts, and made of it
    cur,      \* the service apply works on
    done,     \* per service, what has been done for it
    out,      \* dockerApplyOutcome: service -> success, failed, skipped
    ctx,      \* apply was interrupted or is over its time
    hung,     \* the script in progress does not end by itself
    exit      \* the exit status of apply

vars == <<pc, flags, source, target, world, plan, jobs, seen, cur, done, out, ctx, hung, exit>>
planned == <<pc, plan, jobs, cur>>
hosts == <<source, target, world>>

Services == DOMAIN plan
Nothing == [found |-> << >>, target |-> {}, blocked |-> {}, agreed |-> FALSE, planned |-> {}]
SourceReport == [docker |-> "ok", restic |-> "ok", helper |-> "ok", disk |-> "ok"]
Remote == {"inspect", "probe", "backup", "restore", "move", "rewrite", "volumes", "up", "database"}

Init ==
    /\ pc = "plan"
    /\ flags \in Flags
    /\ \E containers \in Sources :
         source = [n \in {containers[i].name : i \in DOMAIN containers} |->
                      CHOOSE c \in {containers[i] : i \in DOMAIN containers} : c.name = n]
    /\ target \in Targets
    /\ world = 0 /\ plan = << >> /\ jobs = << >>
    /\ seen = Nothing /\ cur = 1 /\ done = << >> /\ out = << >>
    /\ ctx = FALSE /\ hung = FALSE /\ exit = "none"

(* Functions of different domains, one taking precedence: f @@ g. *)
Over(f, g) == [x \in DOMAIN f \cup DOMAIN g |-> IF x \in DOMAIN f THEN f[x] ELSE g[x]]
At(k, x) == [y \in {k} |-> x]

(* Store.Save: a job replaces the one of its name, or is added.            *)
Saved(name, container) == Over(At(name, container), jobs)

-----------------------------------------------------------------------------
(* ops docker plan *)

(* The flags select one container, or with --all every one, in the order   *)
(* of their names; --health-url goes with one container only.              *)
Selections ==
    LET Sorted(names) == {order \in [1 .. Cardinality(names) -> names] :
                             \A i, j \in DOMAIN order : i < j => Before(order[i], order[j])}
    IN  Sorted(DOMAIN source) \X {FALSE}
        \cup {<<n>> : n \in DOMAIN source} \X BOOLEAN

BuildAndSave ==
    /\ pc = "plan"
    /\ \E selection \in Selections :
         LET order == selection[1] url == selection[2]
         IN  plan' = BuildPlan([i \in DOMAIN order |-> source[order[i]]], TRUE, target.report, url)
    /\ seen' = [seen EXCEPT !.planned =
                  Blockers(PlanRisks(plan', source, [source |-> SourceReport, target |-> target.report]))]
    /\ pc' = IF flags.config THEN "config" ELSE "saved"
    /\ UNCHANGED <<flags, hosts, jobs, cur, done, out, ctx, hung, exit>>

(* writeDockerPlanBackupConfig: confirmed, the jobs are saved one by one.  *)
SaveJob ==
    /\ pc = "config" /\ cur <= Len(plan)
    /\ \/ /\ jobs' = Saved(plan[cur].name, plan[cur].container)
          /\ cur' = cur + 1
          /\ UNCHANGED pc
       \/ pc' = "saved" /\ cur' = 1 /\ UNCHANGED jobs  \* refused, or the write failed
    /\ UNCHANGED <<flags, hosts, plan, seen, done, out, ctx, hung, exit>>

ConfigWritten ==
    /\ pc = "config" /\ cur = Len(plan) + 1
    /\ pc' = "saved" /\ cur' = 1
    /\ UNCHANGED <<flags, hosts, plan, jobs, seen, done, out, ctx, hung, exit>>

(* The operator edits target_ports or target_paths of the saved plan.      *)
(* Bound: one edit.                                                        *)
Edit ==
    /\ pc = "saved"
    /\ \A i \in Services : ~Adjusted(plan[i])
    /\ \E e \in Edits :
         /\ e[1] \in Services
         /\ plan' = CASE e[2] = "dir" -> [plan EXCEPT ![e[1]].toDir = e[3]]
                      [] e[2] = "port" -> [plan EXCEPT ![e[1]].toPort = e[3]]
                      [] e[2] = "bind" -> [plan EXCEPT ![e[1]].toBinds = [b \in DOMAIN @ |-> e[3]]]
         /\ plan' # plan
    /\ UNCHANGED <<pc, flags, hosts, jobs, seen, cur, done, out, ctx, hung, exit>>

-----------------------------------------------------------------------------
(* What others do to the hosts, before, during and after apply *)

SourceChanges ==
    /\ world < MaxWorld /\ pc \notin {"plan", "done"}
    /\ \E n \in DOMAIN source :
         \/ source' = [m \in DOMAIN source \ {n} |-> source[m]]
         \/ source' = [source EXCEPT ![n].image = "other"]
    /\ world' = world + 1
    /\ UNCHANGED <<target, flags, planned, seen, done, out, ctx, hung, exit>>

TargetChanges ==
    /\ world < MaxWorld /\ pc \notin {"plan", "done"}
    /\ \E i \in Services :
         \/ target' = [target EXCEPT !.dirs = @ \cup {plan[i].toDir}]
         \/ target' = [target EXCEPT !.ports = @ \cup ({plan[i].port} \ {NoPort})]
         \/ target' = [target EXCEPT !.names = @ \cup {plan[i].container}]
    /\ target' # target
    /\ world' = world + 1
    /\ UNCHANGED <<source, flags, planned, seen, done, out, ctx, hung, exit>>

(* SIGINT, SIGTERM, or dockerApplyTimeout. *)
Cancel ==
    /\ pc \notin {"plan", "config", "saved", "done"} /\ ~ctx
    /\ ctx' = TRUE
    /\ UNCHANGED <<hosts, flags, planned, seen, done, out, hung, exit>>

(* A script on a host blocks. *)
Hang ==
    /\ pc \in Remote /\ ~hung /\ ~ctx
    /\ hung' = TRUE
    /\ UNCHANGED <<hosts, flags, planned, seen, done, out, ctx, exit>>

-----------------------------------------------------------------------------
(* ops docker apply: the hosts are looked at again *)

Stop(status) == pc' = "done" /\ exit' = status

Load ==
    /\ pc = "saved"
    /\ pc' = "inspect" /\ cur' = 1
    /\ done' = [i \in Services |-> {}]
    /\ UNCHANGED <<flags, hosts, plan, jobs, seen, out, ctx, hung, exit>>

(* InspectContainer of every service; a container that is gone is drift.   *)
Inspect ==
    /\ pc = "inspect" /\ ~hung /\ ~ctx
    /\ seen' = [seen EXCEPT !.found = [n \in {plan[i].container : i \in Services} \cap DOMAIN source
                                         |-> source[n]]]
    /\ pc' = "probe"
    /\ UNCHANGED <<flags, hosts, plan, jobs, cur, done, out, ctx, hung, exit>>

(* Any other error of a look at a host ends the command. *)
LookFails ==
    /\ pc \in {"inspect", "probe"} /\ (hung => ctx)
    /\ Stop("failed")
    /\ UNCHANGED <<flags, hosts, plan, jobs, seen, cur, done, out, ctx, hung>>

Risks(found, now) ==
    SourceRisks(SourceReport, HasVolumes(plan))
    \cup TargetRisks(now.report, HasVolumes(plan))
    \cup VerifyProjectBatching(plan)
    \cup VerifySource(plan, found)
    \cup VerifyTarget(plan, now)
    \cup VerifyTargetImages(plan, now)

(* The two probes, the containers of the target, and the verdict: a risk of*)
(* no service stops everything, one of a service leaves that service out.  *)
Decide ==
    /\ pc = "probe" /\ ~hung /\ ~ctx
    /\ LET blockers == Blockers(Risks(seen.found, target))
       IN  /\ seen' = [seen EXCEPT !.target = {target}, !.blocked = {r.service : r \in blockers}]
           /\ IF flags.dryRun
              THEN Stop(IF blockers = {} THEN "ok" ELSE "failed")
              ELSE IF \E r \in blockers : r.service = NoService THEN Stop("failed")
              ELSE pc' = "confirm" /\ UNCHANGED exit
    /\ UNCHANGED <<flags, hosts, plan, jobs, cur, done, out, ctx, hung>>

(* confirmGate: --yes, an answer, or nobody to ask. *)
Confirm ==
    /\ pc = "confirm"
    /\ \/ seen' = [seen EXCEPT !.agreed = TRUE] /\ pc' = "next" /\ UNCHANGED exit
       \/ ~flags.yes /\ Stop("failed") /\ UNCHANGED seen
    /\ UNCHANGED <<flags, hosts, plan, jobs, cur, done, out, ctx, hung>>

-----------------------------------------------------------------------------
(* runDockerApplyServices and Migrate *)

Did(what) == done' = [done EXCEPT ![cur] = @ \cup what]

(* The outcome of the service is known; the next one follows. *)
Close(status) ==
    /\ out' = Over(At(cur, status), out)
    /\ cur' = cur + 1
    /\ pc' = "next"

NextService ==
    /\ pc = "next"
    /\ IF cur > Len(plan)
       THEN pc' = "health" /\ UNCHANGED <<cur, out>>
       ELSE IF plan[cur].name \in seen.blocked THEN Close("skipped")
       ELSE pc' = "backup" /\ UNCHANGED <<cur, out>>
    /\ UNCHANGED <<flags, hosts, plan, jobs, seen, done, ctx, hung, exit>>

(* RunContainerBackup: it inspects the container again, and saves its job  *)
(* under the alias.  A backup without a row in the ledger is not used.     *)
Backup ==
    /\ pc = "backup" /\ ~hung /\ ~ctx
    /\ plan[cur].container \in DOMAIN source
    /\ jobs' = Saved(Alias(plan[cur]), plan[cur].container)
    /\ \/ Did({"backup"}) /\ pc' = "restore" /\ UNCHANGED <<out, cur>>
       \/ Did({"untracked"}) /\ Close("failed")
    /\ UNCHANGED <<flags, hosts, plan, seen, ctx, hung, exit>>

(* What a service brings to the target besides its files. *)
Data(s) ==
    (IF s.volumes # {} THEN {"volumes"} ELSE {}) \cup (IF s.db = "dump" THEN {"database"} ELSE {})

(* The files of the project are written to the directory they came from.   *)
Files(s) ==
    target' = [target EXCEPT !.dirs = @ \cup {s.dir}]

(* The target runs the service under its container's name and its project. *)
Started(s) == [names |-> target.names \cup {s.container}, projects |-> target.projects \cup {Alias(s)},
               ports |-> target.ports \cup ({PlannedPort(s)} \ {NoPort})]

(* RestoreRunner.Run.  Unadjusted, it also starts the service; where it    *)
(* finds no manifest it starts it without its data.                        *)
Restore ==
    /\ pc = "restore" /\ ~hung /\ ~ctx
    /\ LET s == plan[cur]
       IN  IF Adjusted(s)
           THEN /\ Did({"files"}) /\ Files(s)
                /\ pc' = IF s.toDir # s.dir THEN "move" ELSE "rewrite"
                /\ UNCHANGED <<out, cur>>
           ELSE /\ target' = Over(Started(s), [target EXCEPT !.dirs = @ \cup {s.dir}])
                /\ \E data \in {Data(s), {"unread"}} : Did({"files", "started"} \cup data)
                /\ Close("success")
    /\ UNCHANGED <<flags, source, world, plan, jobs, seen, ctx, hung, exit>>

(* The project directory is moved, never over one that exists. *)
Move ==
    /\ pc = "move" /\ ~hung /\ ~ctx
    /\ plan[cur].toDir \notin target.dirs
    /\ target' = [target EXCEPT !.dirs = (@ \ {plan[cur].dir}) \cup {plan[cur].toDir}]
    /\ pc' = "rewrite"
    /\ UNCHANGED <<flags, source, world, plan, jobs, seen, cur, done, out, ctx, hung, exit>>

(* OverrideCompose, written back over the Compose file, if ports changed;  *)
(* then the manifest is read: one that cannot be read counts as none.      *)
Rewrite ==
    /\ pc = "rewrite" /\ ~hung /\ ~ctx
    /\ \/ pc' = (IF plan[cur].volumes # {} THEN "volumes" ELSE "up") /\ UNCHANGED done
       \/ Did({"unread"}) /\ pc' = "up"
    /\ UNCHANGED <<flags, hosts, plan, jobs, seen, cur, out, ctx, hung, exit>>

ImportVolumes ==
    /\ pc = "volumes" /\ ~hung /\ ~ctx
    /\ Did({"volumes"}) /\ pc' = "up"
    /\ UNCHANGED <<flags, hosts, plan, jobs, seen, cur, out, ctx, hung, exit>>

ComposeUp ==
    /\ pc = "up" /\ ~hung /\ ~ctx
    /\ target' = Over(Started(plan[cur]), target)
    /\ Did({"started"})
    /\ IF plan[cur].db = "dump" /\ "unread" \notin done[cur]
       THEN pc' = "database" /\ UNCHANGED <<out, cur>>
       ELSE Close("success")
    /\ UNCHANGED <<flags, source, world, plan, jobs, seen, ctx, hung, exit>>

ImportDatabase ==
    /\ pc = "database" /\ ~hung /\ ~ctx
    /\ Did({"database"}) /\ Close("success")
    /\ UNCHANGED <<flags, hosts, plan, jobs, seen, ctx, hung, exit>>

(* A step fails, or is given up once the context is gone; the restore may  *)
(* have written files by then.  The other services go on.                  *)
StepFails ==
    /\ pc \in Remote \ {"inspect", "probe"} /\ (hung => ctx)
    /\ hung' = FALSE
    /\ Close("failed")
    /\ \/ UNCHANGED <<target, done>>
       \/ pc = "restore" /\ Did({"files"}) /\ Files(plan[cur])
    /\ UNCHANGED <<flags, source, world, plan, jobs, seen, ctx, exit>>

-----------------------------------------------------------------------------
(* runDockerApplyHealthCheck, foldHealthIntoOutcomes and the exit status *)

Succeeded == {i \in DOMAIN out : out[i] = "success"}

(* Faulty: a check that could not be made counts as a failed one. *)
FoldUnverified(i, checks) ==
    IF checks \cap {"failed", "manual"} # {} THEN "failed" ELSE out[i]

FoldHealth(i, checks) == IF "failed" \in checks THEN "failed" ELSE out[i]

(* The services that were started are probed in one script. *)
Health ==
    /\ pc = "health"
    /\ \/ /\ flags.health /\ Succeeded # {} /\ ~ctx
          /\ \E host \in [docker : {"running", "stopped"}, ss : BOOLEAN, curl : BOOLEAN],
                state \in [Succeeded -> {"running", "restarting", "unresolved"}] :
               LET checks(i) == Checks(plan[i], host, state[i])
               IN  /\ out' = [i \in DOMAIN out |->
                                 IF i \in Succeeded THEN FoldHealth(i, checks(i)) ELSE out[i]]
                   /\ done' = [i \in DOMAIN done |->
                                 IF i \in Succeeded /\ "failed" \in checks(i)
                                 THEN done[i] \cup {"unhealthy"}
                                 ELSE IF i \in Succeeded /\ "manual" \in checks(i)
                                 THEN done[i] \cup {"unverified"} ELSE done[i]]
       \/ UNCHANGED <<out, done>>  \* --no-health, nothing to check, or no answer
    /\ pc' = "exit"
    /\ UNCHANGED <<flags, hosts, plan, jobs, seen, cur, ctx, hung, exit>>

ExitStatus ==
    /\ pc = "exit"
    /\ Stop(IF \A i \in DOMAIN out : out[i] = "success" THEN "ok" ELSE "failed")
    /\ UNCHANGED <<flags, hosts, plan, jobs, seen, cur, done, out, ctx, hung>>

Finished == pc = "done" /\ UNCHANGED vars

Migrate == Backup \/ Restore \/ Move \/ Rewrite \/ ImportVolumes \/ ComposeUp \/ ImportDatabase \/ StepFails
Apply == Inspect \/ LookFails \/ Decide \/ NextService \/ Migrate \/ Health \/ ExitStatus

Next ==
    \/ BuildAndSave \/ SaveJob \/ ConfigWritten \/ Edit \/ Load \/ Confirm
    \/ SourceChanges \/ TargetChanges \/ Cancel \/ Hang
    \/ Apply \/ Finished

Spec == Init /\ [][Next]_vars

-----------------------------------------------------------------------------
(* Properties *)

(* jobNames: two services of one plan never share a name, whatever their   *)
(* containers and Compose services are called.                             *)
JobNamesDistinct ==
    \A i, j \in Services : i # j => plan[i].name # plan[j].name

(* docker_apply.go: a plan is no way around the check of the current state.*)
(* Whatever was done for a service was agreed to, with the container as it *)
(* was planned and a target that was ready for it and had nothing in its   *)
(* place when apply looked; edits of the plan in between included.  Nor did *)
(* the plan report a blocker, unless a host has changed since.             *)
ReviewedStateOnly ==
    \A i \in DOMAIN done : done[i] # {} =>
        LET s == plan[i]
        IN  /\ seen.agreed /\ ~flags.dryRun
            /\ world = 0 => \A r \in seen.planned : r.service \notin {NoService, s.name}
            /\ s.container \in DOMAIN seen.found
            /\ LET c == seen.found[s.container]
               IN  /\ <<c.image, c.project, c.service>> = <<s.image, s.project, s.service>>
                   /\ <<c.volumes, c.binds, c.db>> = <<s.volumes, s.binds, s.db>>
                   /\ ~c.blocked
            /\ \A t \in seen.target :
                 /\ t.report.docker = "ok" /\ t.report.compose = "ok" /\ t.report.restic = "ok"
                 /\ s.container \notin t.names /\ Alias(s) \notin t.projects
                 /\ PlannedPort(s) \notin t.ports /\ s.toDir \notin t.dirs
                 /\ s.acquire = "preload" => s.image \in t.images

(* A service of which the tool can say that it was moved and works. *)
Moved(i) ==
    LET s == plan[i]
    IN  /\ {"backup", "files", "started"} \subseteq done[i]
        /\ Data(s) \subseteq done[i] \/ "unread" \in done[i]
        /\ "unhealthy" \notin done[i]

(* runDockerApply: once the operator agreed, every service gets an outcome *)
(* although others fail, and the command succeeds exactly if all of them   *)
(* were moved and no check proved one broken; a check that could not be    *)
(* made is not a failure.  An import that was left out because the manifest*)
(* could not be read still counts as moved.                                *)
ExitStatusEarned ==
    pc = "done" /\ seen.agreed =>
        /\ DOMAIN out = Services
        /\ exit = "ok" <=> \A i \in Services : Moved(i)

-----------------------------------------------------------------------------
(* What the documentation says and the code does not keep (see the README).*)

(* docs/reference/cli.md:567: a project directory that exists on the target*)
(* is a blocker.  For a service whose directory was edited the blocker is  *)
(* looked for at the new place, and the files are restored at the old one. *)
ExistingDirectoryKept ==
    \A i \in DOMAIN done : "files" \in done[i] =>
        \A t \in seen.target : plan[i].dir \notin t.dirs

(* verify.go:217: a batch must not silently overwrite one backup job with  *)
(* another.                                                                *)
JobsNotShared ==
    \A i, j \in DOMAIN done :
        i # j /\ "backup" \in done[i] /\ "backup" \in done[j] => Alias(plan[i]) # Alias(plan[j])
=============================================================================
