----------------------------- MODULE RestoreRunner -----------------------------
(***************************************************************************)
(* internal/backup/restore_runner.go with restore_steps.go, the preflight  *)
(* and internal/storage/restore_repo.go: invocations of RestoreRunner.Run. *)
(* A restore writes its row before it validates anything, runs restic on   *)
(* the target, and then, if the scenario asks for it, imports volumes,     *)
(* starts Compose and imports the database, one remote script after the    *)
(* other.  The four steps are reported to the operator, their aggregate    *)
(* goes into the row.                                                      *)
(*                                                                         *)
(* Abstracted: the read-only scripts of a stage (snapshot lookup, manifest *)
(* probe, preflight) are one script; a request says what a restore will    *)
(* find on its target.                                                     *)
(***************************************************************************)
EXTENDS Integers, Sequences

CONSTANTS
    Runs,         \* invocations of RestoreRunner.Run
    RequestsOf,   \* for each of them, the requests it may be called with
    MaxVolumes    \* bound: named volumes of a container package

(* RestoreOptions, and what the snapshot holds: a container package whose  *)
(* manifest names this job ("match"), another one or none; its volumes and *)
(* its database; a database asset of the job in assets.yaml.               *)
Request == [policy : {"auto", "start", "no-start"}, cross : BOOLEAN, dryRun : BOOLEAN,
            allow : BOOLEAN, local : BOOLEAN, manifest : {"none", "foreign", "match"},
            volumes : 0 .. MaxVolumes, database : {"none", "nodump", "dump"},
            asset : BOOLEAN]

ASSUME RestoreAssumption ==
    /\ MaxVolumes \in Nat
    /\ RequestsOf \in [Runs -> SUBSET Request]

VARIABLES
    req,          \* the request of an invocation
    pc,           \* where the invocation is; in Scripts, the script it runs
    ctx,          \* its context was canceled
    conn,         \* its Execute call: "none", session "opening", "asked" over SSH, local "bash"
    did,          \* per script, the process on the target
    imported,     \* named volumes imported so far
    rec,          \* the in-memory storage.RestoreRun
    steps,        \* RestoreResult.Steps
    untracked,    \* RestoreResult.Untracked
    err,          \* the error of the restore
    audit,        \* what is joined to it: ErrRestoreUntracked, ErrRestoreAuditFailed
    restore_runs  \* the SQLite table; a row's id is its position

vars == <<req, pc, ctx, conn, did, imported, rec, steps, untracked, err, audit, restore_runs>>

Scripts == {"files", "volumes", "compose", "database", "autostart"}
ContainerSteps == {"volumes", "database", "compose"}
Steps == {"files"} \cup ContainerSteps
ReadOnly == {"validate", "probe", "preflight"}
InFlight == {"record", "final"} \cup ReadOnly \cup Scripts
Stages == {"", "validation", "execution", "post_restore"}
Statuses == {"running", "success", "partial", "failed", "canceled", "dry-run"}

RecordsTypeOK ==
    /\ req \in [Runs -> Request]
    /\ pc \in [Runs -> InFlight \cup {"idle", "returned", "crashed"}]
    /\ ctx \in [Runs -> BOOLEAN]
    /\ did \in [Runs -> [Scripts -> {"none", "running", "done", "broken"}]]
    /\ imported \in [Runs -> 0 .. MaxVolumes]
    /\ rec \in [Runs -> [id : Nat, status : Statuses, stage : Stages]]
    /\ steps \in [Runs -> [Steps -> {"success", "failed", "skipped", "blocked", "manual"}]]
    /\ untracked \in [Runs -> BOOLEAN]
    /\ err \in [Runs -> {"nil", "refused", "failed", "canceled"}]
    /\ audit \in [Runs -> {"none", "untracked", "failed"}]
    /\ restore_runs \in Seq([run : Runs, status : Statuses, stage : Stages])

RestoreTypeOK ==
    /\ RecordsTypeOK
    /\ conn \in [Runs -> {"none", "opening", "asked", "bash"}]

Init ==
    /\ req \in {f \in [Runs -> UNION {RequestsOf[r] : r \in Runs}] :
                 \A r \in Runs : f[r] \in RequestsOf[r]}
    /\ pc = [r \in Runs |-> "idle"]
    /\ ctx = [r \in Runs |-> FALSE]
    /\ conn = [r \in Runs |-> "none"]
    /\ did = [r \in Runs |-> [s \in Scripts |-> "none"]]
    /\ imported = [r \in Runs |-> 0]
    /\ rec = [r \in Runs |-> [id |-> 0, status |-> "running", stage |-> ""]]
    /\ steps = [r \in Runs |-> [k \in Steps |-> "skipped"]]
    /\ untracked = [r \in Runs |-> FALSE]
    /\ err = [r \in Runs |-> "nil"]
    /\ audit = [r \in Runs |-> "none"]
    /\ restore_runs = << >>

Goto(r, next) == pc' = [pc EXCEPT ![r] = next]

(* setStep and blockSteps: the outcome of one step, and the steps after it *)
(* that cannot run any more.                                               *)
Report(r, step, status, blocked) ==
    steps' = [steps EXCEPT ![r] =
        [k \in Steps |-> IF k = step THEN status ELSE IF k \in blocked THEN "blocked" ELSE @[k]]]

(* The restore ends here, with an error and the stage it died in. *)
Fail(r, stage, e) ==
    /\ err' = [err EXCEPT ![r] = e]
    /\ rec' = [rec EXCEPT ![r].stage = stage]
    /\ Goto(r, "final")

-----------------------------------------------------------------------------
(* The record comes first *)

Start(r) ==
    /\ pc[r] = "idle"
    /\ Goto(r, "record")
    /\ UNCHANGED <<req, ctx, conn, did, imported, rec, steps, untracked, err, audit, restore_runs>>

CreateRun(r) ==
    /\ pc[r] = "record" /\ ~ctx[r]
    /\ restore_runs' = Append(restore_runs, [run |-> r, status |-> "running", stage |-> ""])
    /\ rec' = [rec EXCEPT ![r].id = Len(restore_runs) + 1]
    /\ Goto(r, "validate")
    /\ UNCHANGED <<req, ctx, conn, did, imported, steps, untracked, err, audit>>

(* Faulty: the failed insert is only a warning. *)
CreateRunIgnored(r) ==
    /\ pc[r] = "record" /\ ~req[r].allow
    /\ Goto(r, "validate")
    /\ UNCHANGED <<req, ctx, conn, did, imported, rec, steps, untracked, err, audit, restore_runs>>

CreateRunRefused(r) ==
    /\ pc[r] = "record" /\ ~req[r].allow
    /\ err' = [err EXCEPT ![r] = "refused"]
    /\ Goto(r, "returned")
    /\ UNCHANGED <<req, ctx, conn, did, imported, rec, steps, untracked, audit, restore_runs>>

CreateRunUntracked(r) ==
    /\ pc[r] = "record" /\ req[r].allow
    /\ untracked' = [untracked EXCEPT ![r] = TRUE]
    /\ Goto(r, "validate")
    /\ UNCHANGED <<req, ctx, conn, did, imported, rec, steps, err, audit, restore_runs>>

-----------------------------------------------------------------------------
(* Execute: how a script gets to its target.  Only the TCP dial looks at   *)
(* the context; handshake and session end when the server lets them.  A    *)
(* canceled call returns at once over SSH; on this machine it waits for    *)
(* the children of bash.                                                   *)

Hang(r, c) == conn' = [conn EXCEPT ![r] = c]

(* The dial got through, or the local bash of a read-only script is        *)
(* started; snapshots are looked up where the job lives, the other scripts *)
(* run on the target of the restore.                                       *)
Ask(r) ==
    /\ pc[r] \in ReadOnly \cup Scripts /\ ~ctx[r] /\ conn[r] = "none"
    /\ pc[r] \in Scripts => ~req[r].local /\ did[r][pc[r]] = "none"
    /\ \E c \in IF pc[r] = "validate" THEN {"opening", "bash"}
                ELSE IF req[r].local THEN {"bash"} ELSE {"opening"} : Hang(r, c)
    /\ UNCHANGED <<req, pc, ctx, did, imported, rec, steps, untracked, err, audit, restore_runs>>

(* The session of a read-only script is open. *)
SessionOpens(r) ==
    /\ pc[r] \in ReadOnly /\ conn[r] = "opening"
    /\ Hang(r, "asked")
    /\ UNCHANGED <<req, pc, ctx, did, imported, rec, steps, untracked, err, audit, restore_runs>>

(* A script that changes the target starts: here at once, over SSH when    *)
(* the session is open, even if the run was canceled meanwhile.            *)
Launch(r) ==
    /\ pc[r] \in Scripts
    /\ did[r][pc[r]] = "none"
    /\ conn[r] = "opening" \/ (req[r].local /\ ~ctx[r])
    /\ did' = [did EXCEPT ![r][pc[r]] = "running"]
    /\ Hang(r, "none")
    /\ UNCHANGED <<req, pc, ctx, imported, rec, steps, untracked, err, audit, restore_runs>>

-----------------------------------------------------------------------------
(* Validation *)

(* Job, alias, secrets, snapshot, target and asset are in order. *)
Validated(r) ==
    /\ pc[r] = "validate"
    /\ Goto(r, "files") /\ Hang(r, "none")
    /\ UNCHANGED <<req, ctx, did, imported, rec, steps, untracked, err, audit, restore_runs>>

(* failRun *)
ValidationFails(r) ==
    /\ pc[r] = "validate"
    /\ \E e \in {"failed"} \cup (IF ctx[r] /\ conn[r] # "opening" THEN {"canceled"} ELSE {}) :
         Fail(r, "validation", e)
    /\ Report(r, "files", "failed", ContainerSteps)
    /\ Hang(r, "none")
    /\ UNCHANGED <<req, ctx, did, imported, untracked, audit, restore_runs>>

-----------------------------------------------------------------------------
(* Scripts on the target, and what Execute returns of them *)

(* The process ends by itself, whoever still waits for it. *)
RemoteEnds(r, s) ==
    /\ did[r][s] = "running"
    /\ \E w \in {"done", "broken"} : did' = [did EXCEPT ![r][s] = w]
    /\ UNCHANGED <<req, pc, ctx, conn, imported, rec, steps, untracked, err, audit, restore_runs>>

(* Faulty: a cancellation is noticed when the process has ended. *)
ReturnsAfterExit(r, e) ==
    LET process == did[r][pc[r]]
    IN  \/ process = "done" /\ e = "nil"
        \/ process = "broken" /\ e \in {"failed", "missing"}
        \/ process = "none" /\ e = "failed"
        \/ ctx[r] /\ e = "canceled" /\ process # "running"

(* "missing" is exit code 127, a tool the target does not have.  A canceled*)
(* context ends an SSH execution at once, its dial included; a local one   *)
(* waits for its process and returns its exit error, or the context's (see *)
(* BackupRunner).                                                          *)
Returns(r, e) ==
    LET process == did[r][pc[r]]
    IN  \/ process = "done" /\ e = "nil"
        \/ process = "broken" /\ e \in {"failed", "missing"}
        \/ process = "none" /\ e = "failed"
        \/ ctx[r] /\ e = "canceled" /\ (req[r].local => process \in {"none", "done"})
        \/ ctx[r] /\ e = "failed" /\ req[r].local /\ process = "done"

Kind(e) == IF e = "missing" THEN "failed" ELSE e

(* classifyStepStatus *)
StepStatus(e) == IF e = "missing" THEN "blocked" ELSE "failed"

(* runPostRestoreSteps *)
StartsServices(r) ==
    \/ req[r].policy = "start"
    \/ req[r].policy = "auto" /\ req[r].cross

(* restic restore has returned, or with --dry-run the listing of files. *)
FilesReturned(r, e) ==
    /\ pc[r] = "files"
    /\ IF e = "nil"
       THEN /\ Report(r, "files", "success", {})
            /\ Goto(r, IF ~req[r].dryRun /\ StartsServices(r) THEN "probe" ELSE "final")
            /\ UNCHANGED <<rec, err>>
       ELSE /\ Report(r, "files", "failed", ContainerSteps)
            /\ Fail(r, "execution", Kind(e))
    /\ UNCHANGED <<req, ctx, did, imported, untracked, audit, restore_runs>>

(* Reading the manifests from the target: a script that fails, whatever the*)
(* reason, counts as a manifest that is not there.                         *)
Probe(r, found) ==
    /\ pc[r] = "probe"
    /\ Goto(r, IF found = "match" THEN "preflight"
               ELSE IF req[r].policy = "start" THEN "autostart" ELSE "final")
    /\ Hang(r, "none")
    /\ UNCHANGED <<req, ctx, did, imported, rec, steps, untracked, err, audit, restore_runs>>

AfterPreflight(r) == IF req[r].volumes = 0 THEN "compose" ELSE "volumes"

PreflightPasses(r) ==
    /\ pc[r] = "preflight"
    /\ Goto(r, AfterPreflight(r)) /\ Hang(r, "none")
    /\ UNCHANGED <<req, ctx, did, imported, rec, steps, untracked, err, audit, restore_runs>>

(* Any error or conflict, a canceled context included, becomes             *)
(* ErrRestorePreflightBlocked.                                             *)
PreflightBlocks(r) ==
    /\ pc[r] = "preflight"
    /\ Report(r, "volumes", "blocked", ContainerSteps)
    /\ Fail(r, "post_restore", "failed")
    /\ Hang(r, "none")
    /\ UNCHANGED <<req, ctx, did, imported, untracked, audit, restore_runs>>

(* Faulty: a volume that fails does not stop the restore. *)
VolumeFailureIgnored(r, e) ==
    /\ pc[r] = "volumes"
    /\ imported' = [imported EXCEPT ![r] = IF e = "nil" THEN @ + 1 ELSE @]
    /\ IF e = "nil" /\ imported[r] + 1 < req[r].volumes
       THEN /\ did' = [did EXCEPT ![r].volumes = "none"]
            /\ UNCHANGED <<pc, steps>>
       ELSE /\ Report(r, "volumes", IF e = "nil" THEN "success" ELSE StepStatus(e), {})
            /\ Goto(r, "compose") /\ UNCHANGED did
    /\ UNCHANGED <<req, ctx, rec, untracked, err, audit, restore_runs>>

(* The import of one volume has returned; its error hides a cancellation.  *)
VolumeReturned(r, e) ==
    /\ pc[r] = "volumes"
    /\ IF e # "nil"
       THEN /\ Report(r, "volumes", StepStatus(e), {"database", "compose"})
            /\ Fail(r, "post_restore", "failed")
            /\ UNCHANGED <<did, imported>>
       ELSE /\ imported' = [imported EXCEPT ![r] = @ + 1]
            /\ IF imported[r] + 1 < req[r].volumes
               THEN /\ did' = [did EXCEPT ![r].volumes = "none"]
                    /\ UNCHANGED <<pc, steps>>
               ELSE /\ Report(r, "volumes", "success", {})
                    /\ Goto(r, "compose") /\ UNCHANGED did
            /\ UNCHANGED <<rec, err>>
    /\ UNCHANGED <<req, ctx, untracked, audit, restore_runs>>

(* compose up, then importRestoredDatabase decides. *)
ComposeReturned(r, e) ==
    /\ pc[r] = "compose"
    /\ IF e # "nil"
       THEN /\ Report(r, "compose", StepStatus(e), {"database"})
            /\ Fail(r, "post_restore", "failed")
       ELSE /\ steps' = [steps EXCEPT ![r].compose = "success",
                  ![r].database = IF req[r].database = "nodump" THEN "manual" ELSE @]
            /\ Goto(r, IF req[r].database = "dump" THEN "database" ELSE "final")
            /\ UNCHANGED <<rec, err>>
    /\ UNCHANGED <<req, ctx, did, imported, untracked, audit, restore_runs>>

(* The last script of a path: the database import, or startWithoutManifest *)
(* whose script starts what it finds and imports the asset's dump.         *)
LastReturned(r, script, step, e) ==
    /\ pc[r] = script
    /\ IF e # "nil"
       THEN /\ Report(r, step, StepStatus(e), {})
            /\ Fail(r, "post_restore", Kind(e))
       ELSE /\ Report(r, step, "success", {})
            /\ Goto(r, "final")
            /\ UNCHANGED <<rec, err>>
    /\ UNCHANGED <<req, ctx, did, imported, untracked, audit, restore_runs>>

ScriptReturned(r, e) ==
    /\ \/ FilesReturned(r, e) \/ VolumeReturned(r, e) \/ ComposeReturned(r, e)
       \/ LastReturned(r, "database", "database", e)
       \/ LastReturned(r, "autostart", "compose", e)
    /\ Hang(r, "none")

(* The SSH connection breaks, whatever the remote process does, or the     *)
(* server refuses the handshake or the session.                            *)
ConnectionLost(r) ==
    /\ pc[r] \in Scripts /\ ~req[r].local
    /\ did[r][pc[r]] # "none" \/ conn[r] = "opening"
    /\ ScriptReturned(r, "failed")

(* What a read-only script comes back with. *)
ReadOnlyAnswers(r) == Validated(r) \/ Probe(r, req[r].manifest) \/ PreflightPasses(r)
ReadOnlyFails(r) == ValidationFails(r) \/ Probe(r, "none") \/ PreflightBlocks(r)

-----------------------------------------------------------------------------
(* The outcome *)

(* Faulty: blocked steps do not count. *)
OnlyFailedSteps(s) ==
    IF s["files"] = "failed" THEN "failed"
    ELSE IF \E k \in Steps : s[k] = "failed" THEN "partial" ELSE "success"

AggregateStatus(s) ==
    IF s["files"] = "failed" THEN "failed"
    ELSE IF \E k \in Steps : s[k] \in {"failed", "blocked"} THEN "partial" ELSE "success"

(* A failure before the files are restored has its own status. *)
Outcome(r) ==
    IF rec[r].stage \in {"validation", "execution"}
    THEN IF err[r] = "canceled" THEN "canceled" ELSE "failed"
    ELSE IF req[r].dryRun THEN "dry-run" ELSE AggregateStatus(steps[r])

(* What is joined to the error.  After a lost write a success is untracked,*)
(* an interrupted restore is too, a failed one keeps its failure; failRun  *)
(* and a failed dry run know no other case than the failure.               *)
AuditError(r, lost) ==
    LET interrupted == Outcome(r) = "canceled" /\ rec[r].stage = "execution" /\ ~req[r].dryRun
    IN  IF lost THEN IF err[r] = "nil" \/ interrupted THEN "untracked" ELSE "failed"
        ELSE IF untracked[r] /\ err[r] = "nil" THEN "untracked" ELSE "none"

(* updateRunRecord: a detached context; nothing to write without a row.    *)
Finish(r) ==
    /\ pc[r] = "final"
    /\ \E lost \in IF rec[r].id = 0 THEN {FALSE} ELSE BOOLEAN :
         /\ restore_runs' = IF lost \/ rec[r].id = 0 THEN restore_runs
              ELSE [restore_runs EXCEPT ![rec[r].id] =
                      [@ EXCEPT !.status = Outcome(r), !.stage = rec[r].stage]]
         /\ audit' = [audit EXCEPT ![r] = AuditError(r, lost)]
         /\ untracked' = [untracked EXCEPT ![r] = @ \/ (lost /\ AuditError(r, lost) = "untracked")]
    /\ rec' = [rec EXCEPT ![r].status = Outcome(r)]
    /\ Goto(r, "returned")
    /\ UNCHANGED <<req, ctx, conn, did, imported, steps, err>>

-----------------------------------------------------------------------------
Cancel(r) ==
    /\ ~ctx[r] /\ pc[r] \in InFlight
    /\ ctx' = [ctx EXCEPT ![r] = TRUE]
    /\ UNCHANGED <<req, pc, conn, did, imported, rec, steps, untracked, err, audit, restore_runs>>

Crash(r) ==
    /\ pc[r] \in InFlight
    /\ Goto(r, "crashed")
    /\ UNCHANGED <<req, ctx, conn, did, imported, rec, steps, untracked, err, audit, restore_runs>>

(* What the goroutine of the restore does by itself. *)
RunStep(r) ==
    \/ CreateRun(r) \/ CreateRunRefused(r) \/ CreateRunUntracked(r)
    \/ Ask(r)
    \/ (conn[r] = "none" \/ (conn[r] = "asked" /\ ctx[r])) /\ ReadOnlyFails(r)
    \/ conn[r] = "none" /\ Launch(r)
    \/ pc[r] \in Scripts /\ conn[r] = "none" /\ \E e \in {"nil", "failed", "missing", "canceled"} :
         Returns(r, e) /\ ScriptReturned(r, e)
    \/ Finish(r)

(* What the server, the connection or the children of bash decide, if they *)
(* ever do.                                                                *)
TargetStep(r) ==
    \/ SessionOpens(r)
    \/ conn[r] = "opening" /\ Launch(r)
    \/ conn[r] # "none" /\ ReadOnlyFails(r)
    \/ conn[r] \in {"asked", "bash"} /\ ReadOnlyAnswers(r)
    \/ ConnectionLost(r)
    \/ \E s \in Scripts : RemoteEnds(r, s)

Finished ==
    /\ \A r \in Runs : pc[r] \in {"returned", "crashed"}
    /\ UNCHANGED vars

Next ==
    \/ \E r \in Runs :
         Start(r) \/ RunStep(r) \/ TargetStep(r) \/ Cancel(r) \/ Crash(r)
    \/ Finished

Spec == Init /\ [][Next]_vars

(* As for backups: goroutines are scheduled, SQLite answers and the dial   *)
(* times out; the target, its server and the connection owe nothing.       *)
FairSpec == Spec /\ \A r \in Runs : WF_vars(RunStep(r))

-----------------------------------------------------------------------------
(* Properties *)

RowStatus(r) == IF rec[r].id = 0 THEN "none" ELSE restore_runs[rec[r].id].status

Touched(r, s) == did[r][s] # "none"

(* What the operator reads about the four steps is what happened on the    *)
(* target: success is a process that ended well, for every volume; a step  *)
(* that is skipped or manual was never tried; and a step that was blocked  *)
(* has another one that explains it.                                       *)
StepsHonest ==
    \A r \in Runs : pc[r] = "returned" =>
        /\ steps[r].files = "success" => did[r].files = "done"
        /\ steps[r].volumes = "success" => imported[r] = req[r].volumes /\ imported[r] > 0
        /\ steps[r].database = "success" => did[r].database = "done"
        /\ steps[r].compose = "success" => "done" \in {did[r].compose, did[r].autostart}
        /\ steps[r].volumes = "skipped" => imported[r] = 0 /\ ~Touched(r, "volumes")
        /\ steps[r].database \in {"skipped", "manual"} => ~Touched(r, "database")
        /\ steps[r].compose = "skipped" => ~Touched(r, "compose") /\ ~Touched(r, "autostart")
        /\ (\E k \in ContainerSteps : steps[r][k] = "blocked") => err[r] # "nil"

(* Nothing of a package touches the target before the files are restored,  *)
(* no service starts on volumes that were not all imported, and no dump is *)
(* imported into a project that did not come up.  It holds for the target, *)
(* also while processes of a canceled restore are still running there.     *)
StepsOrdered ==
    \A r \in Runs :
        /\ (\E s \in Scripts \ {"files"} : Touched(r, s)) => did[r].files = "done"
        /\ Touched(r, "compose") => imported[r] = req[r].volumes
        /\ Touched(r, "database") => did[r].compose = "done"

(* Volumes, databases and services of the target are left alone by a dry   *)
(* run, --no-start, a same-host restore without --start, and a plain       *)
(* restore without a manifest that names the job (C72).                    *)
ServicesUntouched ==
    \A r \in Runs :
        /\ (\/ req[r].dryRun \/ req[r].policy = "no-start"
            \/ req[r].policy = "auto" /\ (~req[r].cross \/ req[r].manifest # "match"))
           => \A s \in Scripts \ {"files"} : ~Touched(r, s)
        /\ req[r].manifest # "match" =>
             \A s \in {"volumes", "compose", "database"} : ~Touched(r, s)

(* The aggregate in the row: success hides no step that went wrong, partial*)
(* always means restored files, a validation failure touched nothing and   *)
(* canceled is an interruption.                                            *)
StatusTruthful ==
    \A r \in Runs :
        /\ RowStatus(r) = "success" =>
             did[r].files = "done" /\ \A k \in Steps : steps[r][k] \notin {"failed", "blocked"}
        /\ RowStatus(r) = "partial" => did[r].files = "done" /\ err[r] # "nil"
        /\ RowStatus(r) = "canceled" => ctx[r]
        /\ rec[r].stage = "validation" => \A s \in Scripts : ~Touched(r, s)

(* No script without a row, unless the operator allowed it and the result  *)
(* is flagged; exit code 0 means that the row holds the outcome; a row that*)
(* stays 'running' after the restore returned has an error of its own.     *)
GapsReported ==
    \A r \in Runs :
        /\ RowStatus(r) = "none" /\ Touched(r, "files") => untracked[r] /\ req[r].allow
        /\ pc[r] = "returned" =>
             /\ err[r] = "nil" /\ audit[r] = "none" => RowStatus(r) \in {"success", "dry-run"}
             /\ RowStatus(r) = "running" => audit[r] # "none"

(* When a package may touch the target at all, and in which order.         *)
ServicesGuarded == StepsOrdered /\ ServicesUntouched

(* What the steps, the row and the exit code say of the target is true.    *)
AnswerHonest == StepsHonest /\ StatusTruthful /\ GapsReported

(* A restore keeps the contract of every audited operation; its work is    *)
(* restic's, a partial restore is not a success.                           *)
Phase(r) == IF pc[r] \in {"idle", "record"} THEN "idle"
            ELSE IF pc[r] \in {"returned", "crashed"} THEN "closed" ELSE "open"

AuditStatus(status) == CASE status = "partial" -> "failed"
                         [] status = "dry-run" -> "success"
                         [] OTHER -> status

Gap(r) == untracked[r] \/ audit[r] # "none"

ReportOf(r) == IF pc[r] # "returned" THEN "none"
               ELSE IF rec[r].status \notin {"success", "dry-run"} THEN "error"
               ELSE IF audit[r] = "none" THEN "clean" ELSE "unaudited"

Audited == INSTANCE AuditedRun WITH
    UntrackedOK <- {r \in Runs : \E q \in RequestsOf[r] : q.allow},
    phase <- [r \in Runs |-> Phase(r)],
    work <- [r \in Runs |-> did[r].files],
    ledger <- [r \in Runs |-> AuditStatus(RowStatus(r))],
    gap <- [r \in Runs |-> Gap(r)],
    report <- [r \in Runs |-> ReportOf(r)]

ImplementsAudit == Audited!Spec

(* The part of Execute that no cancellation ends: a session that is being  *)
(* opened, and the children of a local bash.                               *)
Uncancelable(r) ==
    \/ conn[r] \in {"opening", "bash"}
    \/ req[r].local /\ pc[r] \in Scripts /\ did[r][pc[r]] = "running"

(* Ctrl-C ends a restore in every step, whatever its scripts do on the     *)
(* server; once canceled it gets into no other wait.                       *)
CanceledRestoreReturns ==
    \A r \in Runs : (ctx[r] /\ pc[r] \in InFlight /\ ~Uncancelable(r))
                      ~> (pc[r] \in {"returned", "crashed"})

-----------------------------------------------------------------------------
(* What the documentation says and the code does not keep (see the README).*)

(* "skipped: the step was deliberately not attempted" (restore_steps.go):  *)
(* the database also when the generic auto-start's script imported it.     *)
SkippedDatabaseUntouched ==
    \A r \in Runs : pc[r] = "returned" /\ err[r] = "nil" /\ steps[r].database = "skipped" =>
        ~(req[r].asset /\ did[r].autostart = "done")

(* "a cross-machine restore driven by a matching container manifest starts *)
(* them" (runPostRestoreSteps): if it reports success, it did.             *)
MatchingPackageStarted ==
    \A r \in Runs :
        /\ RowStatus(r) = "success" /\ req[r].manifest = "match"
        /\ req[r].cross /\ req[r].policy = "auto"
        => steps[r].compose = "success"
=============================================================================
