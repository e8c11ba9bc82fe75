----------------------------- MODULE BackupRunner -----------------------------
(***************************************************************************)
(* internal/backup/runner.go with the part of internal/storage it drives:  *)
(* concurrent invocations of Runner.Run, each of which writes a 'running'  *)
(* row into backup_runs, runs restic on its target and writes the outcome  *)
(* into the row.  SQLite fails at any time, contexts are canceled at any   *)
(* time, processes are killed at any time, and the restic process on the   *)
(* target lives its own life.                                              *)
(*                                                                         *)
(* Abstracted: what a job backs up, its secrets and script (they can only  *)
(* fail), the restic summary, log files and all output.                    *)
(***************************************************************************)
EXTENDS Integers, Sequences

CONSTANTS
    Runs,         \* invocations of Runner.Run: pool goroutines, cron triggers, CLI calls
    Jobs,         \* the configured backup jobs
    JobOf,        \* the job of an invocation; one job may be run twice at once
    LocalRuns,    \* invocations whose target is the local machine
    UntrackedOK   \* invocations of a process started with --allow-untracked

ASSUME BackupAssumption ==
    /\ JobOf \in [Runs -> Jobs]
    /\ LocalRuns \subseteq Runs
    /\ UntrackedOK \subseteq Runs

VARIABLES
    pc,           \* where the invocation is
    ctx,          \* its context was canceled
    rec,          \* runRecord: the in-memory storage.BackupRun
    err,          \* the error it carries, then the error it returns
    remote,       \* the restic process on the target
    clock,        \* wall clock, in the seconds of RFC3339
    backup_runs   \* the SQLite table; a row's id is its position

vars == <<pc, ctx, rec, err, remote, clock, backup_runs>>

Outcomes == {"success", "failed", "canceled"}
InFlight == {"begin", "ready", "connecting", "executing", "finalize"}

Record == [id : Nat, status : Outcomes \cup {"none", "running"},
           untracked : BOOLEAN, started : Nat]
Row == [run : Runs, status : Outcomes \cup {"running"}, untracked : BOOLEAN, started : Nat]

TypeOK ==
    /\ pc \in [Runs -> InFlight \cup {"idle", "returned", "crashed"}]
    /\ ctx \in [Runs -> BOOLEAN]
    /\ rec \in [Runs -> Record]
    /\ err \in [Runs -> {"nil", "invalid", "refused", "failed", "exit3", "canceled", "untracked"}]
    /\ remote \in [Runs -> {"none", "running", "done", "broken"}]
    /\ clock \in Nat
    /\ backup_runs \in Seq(Row)

Init ==
    /\ pc = [r \in Runs |-> "idle"]
    /\ ctx = [r \in Runs |-> FALSE]
    /\ rec = [r \in Runs |-> [id |-> 0, status |-> "none", untracked |-> FALSE, started |-> 0]]
    /\ err = [r \in Runs |-> "nil"]
    /\ remote = [r \in Runs |-> "none"]
    /\ clock = 0
    /\ backup_runs = << >>

-----------------------------------------------------------------------------
(* storage.BackupRepo.  A write that fails leaves the table alone.         *)

RowOf(r, record) == [run |-> r, status |-> record.status,
                     untracked |-> record.untracked, started |-> record.started]

CreateRun(r, record) ==
    /\ backup_runs' = Append(backup_runs, RowOf(r, record))
    /\ rec' = [rec EXCEPT ![r] = [record EXCEPT !.id = Len(backup_runs) + 1]]

(* UPDATE ... WHERE id = ?: the columns job_name and started_at stay. *)
UpdateRun(r, record) ==
    /\ backup_runs' = [backup_runs EXCEPT ![record.id] =
         [@ EXCEPT !.status = record.status, !.untracked = record.untracked]]
    /\ rec' = [rec EXCEPT ![r] = record]

RowsOfJob(j) == {i \in DOMAIN backup_runs : JobOf[backup_runs[i].run] = j}

(* SELECT MAX(id) ... GROUP BY job_name, what 'ops backup status' shows. *)
GetAllLatestRuns(j) == {i \in RowsOfJob(j) : \A k \in RowsOfJob(j) : k <= i}

(* ORDER BY started_at DESC LIMIT 1: any row with the greatest started_at. *)
GetLatestRun(j) ==
    {i \in RowsOfJob(j) : \A k \in RowsOfJob(j) :
        backup_runs[k].started <= backup_runs[i].started}

-----------------------------------------------------------------------------
(* Runner.Run *)

(* Assets, validation and target resolution fail before there is a record. *)
RunInvalid(r) ==
    /\ pc[r] = "idle"
    /\ pc' = [pc EXCEPT ![r] = "returned"]
    /\ err' = [err EXCEPT ![r] = "invalid"]
    /\ UNCHANGED <<ctx, rec, remote, clock, backup_runs>>

(* startTime := time.Now(); time passes or not before the next reading. *)
RunStarts(r) ==
    /\ pc[r] = "idle"
    /\ pc' = [pc EXCEPT ![r] = "begin"]
    /\ rec' = [rec EXCEPT ![r].started = clock]
    /\ clock' \in {clock, clock + 1}
    /\ UNCHANGED <<ctx, err, remote, backup_runs>>

(* beginRun: the row is written under the caller's context, so a canceled  *)
(* context fails the write.                                                *)
BeginRun(r) ==
    /\ pc[r] = "begin"
    /\ ~ctx[r]
    /\ CreateRun(r, [rec[r] EXCEPT !.status = "running"])
    /\ pc' = [pc EXCEPT ![r] = "ready"]
    /\ UNCHANGED <<ctx, err, remote, clock>>

BeginRunRefused(r) ==
    /\ pc[r] = "begin"
    /\ r \notin UntrackedOK
    /\ pc' = [pc EXCEPT ![r] = "returned"]
    /\ err' = [err EXCEPT ![r] = "refused"]
    /\ UNCHANGED <<ctx, rec, remote, clock, backup_runs>>

(* Faulty: the emergency mode runs on without the flag. *)
BeginRunUnflagged(r) ==
    /\ pc[r] = "begin"
    /\ r \in UntrackedOK
    /\ rec' = [rec EXCEPT ![r].status = "running"]
    /\ pc' = [pc EXCEPT ![r] = "ready"]
    /\ UNCHANGED <<ctx, err, remote, clock, backup_runs>>

BeginRunUntracked(r) ==
    /\ pc[r] = "begin"
    /\ r \in UntrackedOK
    /\ rec' = [rec EXCEPT ![r].status = "running", ![r].untracked = TRUE]
    /\ pc' = [pc EXCEPT ![r] = "ready"]
    /\ UNCHANGED <<ctx, err, remote, clock, backup_runs>>

(* Faulty: an early error returns without finalizeRun. *)
LaunchFailsEarly(r) ==
    /\ pc[r] = "ready"
    /\ err' = [err EXCEPT ![r] = "failed"]
    /\ pc' = [pc EXCEPT ![r] = "returned"]
    /\ UNCHANGED <<ctx, rec, remote, clock, backup_runs>>

(* executeRun: secrets, script or the dial fail, nothing runs remotely.    *)
(* Their errors wrap the context's error when the context ended them.      *)
LaunchFails(r) ==
    /\ pc[r] = "ready"
    /\ \E e \in {"failed"} \cup (IF ctx[r] THEN {"canceled"} ELSE {}) :
         err' = [err EXCEPT ![r] = e]
    /\ pc' = [pc EXCEPT ![r] = "finalize"]
    /\ UNCHANGED <<ctx, rec, remote, clock, backup_runs>>

(* The local bash is started, unless the context is canceled already. *)
Launch(r) ==
    /\ pc[r] = "ready"
    /\ r \in LocalRuns
    /\ ~ctx[r]
    /\ remote' = [remote EXCEPT ![r] = "running"]
    /\ pc' = [pc EXCEPT ![r] = "executing"]
    /\ UNCHANGED <<ctx, rec, err, clock, backup_runs>>

(* DialContext got its TCP connection, the one step of connecting that     *)
(* looks at the context and has a timeout.                                 *)
Dial(r) ==
    /\ pc[r] = "ready"
    /\ r \notin LocalRuns
    /\ ~ctx[r]
    /\ pc' = [pc EXCEPT ![r] = "connecting"]
    /\ UNCHANGED <<ctx, rec, err, remote, clock, backup_runs>>

(* The handshake, the tunnel through a jump host and NewSession know       *)
(* neither the context nor a deadline: they end when the server lets them, *)
(* and then the script is started, even for a run canceled meanwhile.      *)
SessionOpens(r) ==
    /\ pc[r] = "connecting"
    /\ remote' = [remote EXCEPT ![r] = "running"]
    /\ pc' = [pc EXCEPT ![r] = "executing"]
    /\ UNCHANGED <<ctx, rec, err, clock, backup_runs>>

SessionFails(r) ==
    /\ pc[r] = "connecting"
    /\ err' = [err EXCEPT ![r] = "failed"]
    /\ pc' = [pc EXCEPT ![r] = "finalize"]
    /\ UNCHANGED <<ctx, rec, remote, clock, backup_runs>>

(* The restic process ends by itself, whoever still waits for it. *)
RemoteEnds(r) ==
    /\ remote[r] = "running"
    /\ \E w \in {"done", "broken"} : remote' = [remote EXCEPT ![r] = w]
    /\ UNCHANGED <<pc, ctx, rec, err, clock, backup_runs>>

(* Execute returns the exit status of the process: success only for 0.     *)
(* "exit3" is an ExecutionError with code 3, restic's code for a backup    *)
(* that could not read all its sources; it matters to commandExitCode.     *)
ExecuteReturns(r) ==
    /\ pc[r] = "executing"
    /\ \/ remote[r] = "done" /\ UNCHANGED err
       \/ remote[r] = "broken" /\ \E e \in {"failed", "exit3"} : err' = [err EXCEPT ![r] = e]
    /\ pc' = [pc EXCEPT ![r] = "finalize"]
    /\ UNCHANGED <<ctx, rec, remote, clock, backup_runs>>

(* The SSH connection breaks: session.Run fails without an exit status,    *)
(* whatever the remote process does or did.                                *)
ConnectionLost(r) ==
    /\ pc[r] = "executing"
    /\ r \notin LocalRuns
    /\ err' = [err EXCEPT ![r] = "failed"]
    /\ pc' = [pc EXCEPT ![r] = "finalize"]
    /\ UNCHANGED <<ctx, rec, remote, clock, backup_runs>>

(* Faulty: the cancellation is noticed only when the process has ended. *)
SSHCanceledAfterExit(r) ==
    /\ pc[r] = "executing"
    /\ r \notin LocalRuns
    /\ ctx[r]
    /\ remote[r] # "running"
    /\ err' = [err EXCEPT ![r] = "canceled"]
    /\ pc' = [pc EXCEPT ![r] = "finalize"]
    /\ UNCHANGED <<ctx, rec, remote, clock, backup_runs>>

(* SSHExecutor.Execute returns ctx.Err() at once; the remote process is    *)
(* sent SIGTERM and nobody waits for it.                                   *)
SSHCanceled(r) ==
    /\ pc[r] = "executing"
    /\ r \notin LocalRuns
    /\ ctx[r]
    /\ err' = [err EXCEPT ![r] = "canceled"]
    /\ pc' = [pc EXCEPT ![r] = "finalize"]
    /\ UNCHANGED <<ctx, rec, remote, clock, backup_runs>>

(* exec.CommandContext kills the local bash only; its child restic holds   *)
(* the output pipe, and Wait returns when restic has ended too (with the   *)
(* terminal's process group, or by itself).  Wait prefers the exit error of*)
(* bash to the context's, which it returns for a bash that had exited 0    *)
(* just before it was killed.                                              *)
LocalKilled(r) ==
    /\ pc[r] = "executing"
    /\ r \in LocalRuns
    /\ ctx[r]
    /\ remote[r] # "running"
    /\ \E e \in {"failed"} \cup (IF remote[r] = "done" THEN {"canceled"} ELSE {}) :
         err' = [err EXCEPT ![r] = e]
    /\ pc' = [pc EXCEPT ![r] = "finalize"]
    /\ UNCHANGED <<ctx, rec, remote, clock, backup_runs>>

-----------------------------------------------------------------------------
(* finalizeRun *)

FinalStatus(e) == IF e = "nil" THEN "success" ELSE IF e = "canceled" THEN "canceled" ELSE "failed"

(* Faulty: the outcome is always inserted. *)
FinalizeRunInserts(r) ==
    /\ pc[r] = "finalize"
    /\ CreateRun(r, [rec[r] EXCEPT !.status = FinalStatus(err[r])])
    /\ pc' = [pc EXCEPT ![r] = "returned"]
    /\ UNCHANGED <<ctx, err, remote, clock>>

(* The outcome is persisted: under a context of its own, so a canceled run *)
(* is recorded too.  A run without a row gets one now.                     *)
FinalizeRun(r) ==
    LET final == [rec[r] EXCEPT !.status = FinalStatus(err[r])]
    IN  /\ pc[r] = "finalize"
        /\ IF rec[r].id > 0 THEN UpdateRun(r, final) ELSE CreateRun(r, final)
        /\ pc' = [pc EXCEPT ![r] = "returned"]
        /\ UNCHANGED <<ctx, err, remote, clock>>

(* The write fails: the run is untracked from now on, and a run that was   *)
(* tracked until now does not return a nil (or a context) error.           *)
PersistError(r) ==
    IF ~rec[r].untracked /\ err[r] \in {"nil", "canceled"} THEN "untracked" ELSE err[r]

(* Faulty: the failed write is logged and forgotten. *)
FinalizeRunSilent(r) ==
    /\ pc[r] = "finalize"
    /\ rec' = [rec EXCEPT ![r].status = FinalStatus(err[r])]
    /\ pc' = [pc EXCEPT ![r] = "returned"]
    /\ UNCHANGED <<ctx, err, remote, clock, backup_runs>>

FinalizeRunFails(r) ==
    /\ pc[r] = "finalize"
    /\ rec' = [rec EXCEPT ![r].status = FinalStatus(err[r]), ![r].untracked = TRUE]
    /\ err' = [err EXCEPT ![r] = PersistError(r)]
    /\ pc' = [pc EXCEPT ![r] = "returned"]
    /\ UNCHANGED <<ctx, remote, clock, backup_runs>>

-----------------------------------------------------------------------------
(* The environment *)

(* Ctrl-C, SIGTERM or the daemon's shutdown cancels the context of a set   *)
(* of invocations of one process.                                          *)
Cancel(S) ==
    /\ \E r \in S : ~ctx[r]
    /\ ctx' = [r \in Runs |-> ctx[r] \/ r \in S]
    /\ UNCHANGED <<pc, rec, err, remote, clock, backup_runs>>

(* A process is killed with the invocations it runs. *)
Crash(S) ==
    /\ \E r \in S : pc[r] \in InFlight
    /\ pc' = [r \in Runs |-> IF r \in S /\ pc[r] \in InFlight THEN "crashed" ELSE pc[r]]
    /\ UNCHANGED <<ctx, rec, err, remote, clock, backup_runs>>

(* The steps the invocation's own goroutine takes once it was called. *)
RunStep(r) ==
    \/ BeginRun(r) \/ BeginRunRefused(r) \/ BeginRunUntracked(r)
    \/ LaunchFails(r) \/ Launch(r) \/ Dial(r)
    \/ ExecuteReturns(r) \/ SSHCanceled(r) \/ LocalKilled(r)
    \/ FinalizeRun(r) \/ FinalizeRunFails(r)

(* What only the server decides: nothing obliges it to answer. *)
ServerStep(r) == SessionOpens(r) \/ SessionFails(r) \/ ConnectionLost(r)

(* All invocations have ended: nothing is left to do but stutter. *)
Finished ==
    /\ \A r \in Runs : pc[r] \in {"returned", "crashed"}
    /\ UNCHANGED vars

Next ==
    \/ \E r \in Runs :
         \/ RunInvalid(r) \/ RunStarts(r) \/ RunStep(r)
         \/ ServerStep(r) \/ RemoteEnds(r) \/ Crash({r})
    \/ \E S \in SUBSET Runs : Cancel(S)
    \/ Finished

Spec == Init /\ [][Next]_vars

(* A called goroutine is scheduled, its SQLite write ends within           *)
(* auditWriteTimeout and its TCP dial within ConnectTimeout; nothing is    *)
(* assumed of the process on the target or of the server, which may leave  *)
(* the handshake unanswered for ever.                                      *)
FairSpec == Spec /\ \A r \in Runs : WF_vars(RunStep(r))
-----------------------------------------------------------------------------
(* Properties *)

(* The row of an invocation, which the in-memory record finds by its id. *)
Recorded(r) == rec[r].id # 0
RowStatus(r) == IF Recorded(r) THEN backup_runs[rec[r].id].status ELSE "none"

(* What the caller of Run can tell the operator: success without any       *)
(* restriction, success that is not audited, or an error.                  *)
Report(r) ==
    IF pc[r] # "returned" THEN "none"
    ELSE IF rec[r].status # "success" THEN "error"
    ELSE IF rec[r].untracked THEN "unaudited" ELSE "clean"

(* backup_runs and the in-memory records name each other: every row belongs*)
(* to the invocation that holds its id, so no invocation, not even one that*)
(* got its row only at its end, ever has two rows or updates another's.    *)
RowsOwned ==
    /\ \A r \in Runs : Recorded(r) =>
         /\ rec[r].id \in DOMAIN backup_runs
         /\ backup_runs[rec[r].id].run = r
    /\ \A i \in DOMAIN backup_runs : rec[backup_runs[i].run].id = i

(* Fail closed: restic runs on a target only when the ledger has a row for *)
(* the run or the run was flagged untracked under --allow-untracked        *)
(* (beginRun, "refused before any remote work happens").                   *)
FailClosed ==
    \A r \in Runs : remote[r] # "none" =>
        \/ RowStatus(r) # "none"
        \/ r \in UntrackedOK /\ rec[r].untracked

(* Run returns a record with status success, no untracked flag and no error*)
(* only if the row says success and restic really finished; whatever the   *)
(* row says, success in it means restic finished and canceled means that   *)
(* the context was canceled.                                               *)
HonestLedger ==
    \A r \in Runs :
        /\ Report(r) = "clean" =>
             /\ err[r] = "nil"
             /\ RowStatus(r) = "success"
             /\ ~backup_runs[rec[r].id].untracked
        /\ RowStatus(r) = "success" => remote[r] = "done"
        /\ RowStatus(r) = "canceled" => ctx[r]

(* A row that says 'running' belongs to a run in flight, to a run whose    *)
(* process was killed, or to one whose last write failed - and then the    *)
(* caller got both an error and the untracked flag: no stale row is silent.*)
StaleRowsReported ==
    \A r \in Runs : RowStatus(r) = "running" =>
        \/ pc[r] \in {"ready", "connecting", "executing", "finalize", "crashed"}
        \/ pc[r] = "returned" /\ err[r] # "nil" /\ rec[r].untracked

(* The ledger only grows; a row keeps its run and its start, an outcome in *)
(* it is final, and an untracked run never turns into a tracked one.       *)
LedgerStep ==
    /\ Len(backup_runs') >= Len(backup_runs)
    /\ \A i \in DOMAIN backup_runs :
         /\ backup_runs'[i].run = backup_runs[i].run
         /\ backup_runs'[i].started = backup_runs[i].started
         /\ backup_runs[i].status # "running" => backup_runs'[i] = backup_runs[i]
         /\ backup_runs[i].untracked => backup_runs'[i].untracked

LedgerAppendOnly == [][LedgerStep]_vars

(* What the callers rely on: the runner implements the audit contract.     *)
Phase(r) == IF pc[r] \in {"idle", "begin"} THEN "idle"
            ELSE IF pc[r] \in {"ready", "connecting", "executing", "finalize"}
            THEN "open" ELSE "closed"

Contract == INSTANCE AuditedRun WITH
    phase <- [r \in Runs |-> Phase(r)],
    work <- [r \in Runs |-> remote[r]],
    ledger <- [r \in Runs |-> RowStatus(r)],
    gap <- [r \in Runs |-> rec[r].untracked],
    report <- [r \in Runs |-> Report(r)]

ImplementsContract == Contract!Spec

(* A restic process of this machine that the run waits for, even canceled. *)
AwaitsLocalProcess(r) == r \in LocalRuns /\ pc[r] = "executing" /\ remote[r] = "running"

(* A run inside the part of Execute that cannot be canceled: the server    *)
(* accepted the TCP connection and has not opened the session yet.         *)
AwaitsConnection(r) == pc[r] = "connecting"

(* A canceled run comes back, also when restic on a server hangs for ever: *)
(* Ctrl-C never leaves the CLI waiting for a remote process.  Only a local *)
(* restic and a session that is still being opened hold it, and a run      *)
(* canceled before its dial never gets into either.                        *)
CanceledRunReturns ==
    \A r \in Runs :
        (ctx[r] /\ pc[r] \in InFlight /\ ~AwaitsLocalProcess(r) /\ ~AwaitsConnection(r))
            ~> (pc[r] \in {"returned", "crashed"})

-----------------------------------------------------------------------------
(* What the documentation says and the code does not keep (see the README).*)

(* "surface ErrUntracked when the backup itself succeeded" (finalizeRun).  *)
UntrackedErrorMeansSuccess ==
    \A r \in Runs : pc[r] = "returned" /\ err[r] = "untracked" => rec[r].status = "success"

(* "the most recent backup run for every known job" (GetAllLatestRuns).    *)
LatestIsMostRecent ==
    \A j \in Jobs : GetAllLatestRuns(j) \subseteq GetLatestRun(j)
=============================================================================
