------------------------------- MODULE Scheduler -------------------------------
(***************************************************************************)
(* 'ops daemon': internal/scheduler/scheduler.go and cmd/opspulse/daemon.go*)
(* Cron triggers executions of jobs; each ends by handing an event to the  *)
(* notification dispatcher, a bounded queue in front of workers that start *)
(* lazily.  The daemon shuts down on a signal: stop cron, wait for the     *)
(* jobs (bounded), stop the dispatcher (bounded), close the database, end. *)
(* With --once the jobs are run one after the other by the main goroutine. *)
(*                                                                         *)
(* The runner is BackupRunner reduced to what an execution does to its row *)
(* and to what it returns; the timeouts may fire at any moment.            *)
(***************************************************************************)
EXTENDS Integers, Sequences, FiniteSets

CONSTANTS
    Jobs,        \* jobs of backups.yaml with a valid schedule
    LocalJobs,   \* those whose target is the local machine
    MaxRuns,     \* bound: triggers of a job that are followed
    Workers,     \* the notifyWorkers goroutines
    QueueSize    \* notifyQueueSize

ASSUME SchedulerAssumption ==
    /\ LocalJobs \subseteq Jobs
    /\ MaxRuns \in Nat \ {0}
    /\ QueueSize \in Nat \ {0}
    /\ IsFiniteSet(Jobs) /\ IsFiniteSet(Workers) /\ Workers # {}

Execs == Jobs \X (1 .. MaxRuns)   \* the k-th execution of a job; its event has its name

VARIABLES
    mode,         \* "daemon" or "once"
    allow,        \* --allow-untracked
    main,         \* the goroutine of Run, RunOnce and the command
    signaled,     \* SIGINT or SIGTERM arrived
    canceled,     \* daemonCtx
    timedOut,     \* shutdownTimeout ended the wait for the jobs
    undrained,    \* dispatcherDrainTimeout ended the wait for the workers
    epc,          \* an execution's goroutine
    row,          \* its row in backup_runs
    err,          \* the error of the execution
    gap,          \* the record's Untracked flag
    current,      \* the execution RunOnce waits for
    firstErr,     \* RunOnce's
    exit,         \* the exit code of --once, -1 before
    closed,       \* notifyClosed
    stop,         \* notifyStop is closed
    queue,        \* notifyQueue
    worker,       \* the workers' goroutines
    holding,      \* the event a worker delivers
    delivered, dropped   \* events dispatched, events refused with a warning

execVars == <<epc, row, err, gap>>
mainVars == <<mode, allow, main, signaled, canceled, timedOut, undrained, current, firstErr,
              exit>>
notifyVars == <<closed, stop, queue, worker, holding, delivered, dropped>>
vars == <<mainVars, execVars, notifyVars>>

None == "none"
Errors == {"nil", "failed", "exit3", "canceled", "untracked"}

SchedulerTypeOK ==
    /\ mode \in {"daemon", "once"} /\ allow \in BOOLEAN
    /\ main \in {"serving", "stopping", "closing", "closed", "draining", "returned",
                 "exited"}
    /\ signaled \in BOOLEAN /\ canceled \in BOOLEAN /\ timedOut \in BOOLEAN
    /\ undrained \in BOOLEAN /\ closed \in BOOLEAN /\ stop \in BOOLEAN
    /\ epc \in [Execs -> {"idle", "begin", "dial", "connecting", "work", "final", "notify",
                       "start", "send", "done"}]
    /\ row \in [Execs -> {None, "running", "success", "failed", "canceled"}]
    /\ err \in [Execs -> Errors] /\ gap \in [Execs -> BOOLEAN]
    /\ current \in {{}} \cup {{e} : e \in Execs} /\ firstErr \in Errors /\ exit \in {-1, 0, 1, 3}
    /\ queue \in Seq(Execs) /\ Len(queue) <= QueueSize
    /\ worker \in [Workers -> {"off", "idle", "busy", "stopping", "flushing", "gone"}]
    /\ holding \in [Workers -> {{}} \cup {{e} : e \in Execs}]
    /\ delivered \subseteq Execs /\ dropped \subseteq Execs

Init ==
    /\ mode \in {"daemon", "once"} /\ allow \in BOOLEAN
    /\ main = "serving" /\ signaled = FALSE /\ canceled = FALSE
    /\ timedOut = FALSE /\ undrained = FALSE
    /\ epc = [e \in Execs |-> "idle"] /\ row = [e \in Execs |-> None]
    /\ err = [e \in Execs |-> "nil"] /\ gap = [e \in Execs |-> FALSE]
    /\ current = {} /\ firstErr = "nil" /\ exit = -1
    /\ closed = FALSE /\ stop = FALSE /\ queue = << >>
    /\ worker = [w \in Workers |-> "off"] /\ holding = [w \in Workers |-> {}]
    /\ delivered = {} /\ dropped = {}

Active(e) == epc[e] \notin {"idle", "done"}
NoJobRuns == \A e \in Execs : ~Active(e)

(* The context an execution runs under: daemonCtx, or the signal's. *)
Canceled == IF mode = "daemon" THEN canceled ELSE signaled

Goto(e, next) == epc' = [epc EXCEPT ![e] = next]

-----------------------------------------------------------------------------
(* executeJob: the runner *)

(* Cron starts the next execution of a job unless the last one still runs  *)
(* (SkipIfStillRunning).                                                   *)
Trigger(e) ==
    /\ mode = "daemon" /\ main = "serving"
    /\ epc[e] = "idle"
    /\ e[2] > 1 => epc[<<e[1], e[2] - 1>>] = "done"
    /\ Goto(e, "begin")
    /\ UNCHANGED <<mainVars, notifyVars, row, err, gap>>

JobBegins(e) ==
    /\ epc[e] = "begin" /\ ~Canceled
    /\ row' = [row EXCEPT ![e] = "running"]
    /\ Goto(e, "dial")
    /\ UNCHANGED <<mainVars, notifyVars, err, gap>>

JobRefused(e) ==
    /\ epc[e] = "begin" /\ ~allow
    /\ err' = [err EXCEPT ![e] = "failed"]
    /\ Goto(e, "notify")
    /\ UNCHANGED <<mainVars, notifyVars, row, gap>>

JobUntracked(e) ==
    /\ epc[e] = "begin" /\ allow
    /\ gap' = [gap EXCEPT ![e] = TRUE]
    /\ Goto(e, "dial")
    /\ UNCHANGED <<mainVars, notifyVars, row, err>>

(* Secrets, script or the dial fail; the dial looks at the context. *)
LaunchFails(e) ==
    /\ epc[e] = "dial"
    /\ \E x \in {"failed"} \cup (IF Canceled THEN {"canceled"} ELSE {}) :
         err' = [err EXCEPT ![e] = x]
    /\ Goto(e, "final")
    /\ UNCHANGED <<mainVars, notifyVars, row, gap>>

(* The local bash is started, or the server took the TCP connection. *)
Launch(e) ==
    /\ epc[e] = "dial" /\ ~Canceled
    /\ Goto(e, IF e[1] \in LocalJobs THEN "work" ELSE "connecting")
    /\ UNCHANGED <<mainVars, notifyVars, row, err, gap>>

(* Handshake and session: the server ends them, or never; the context and  *)
(* the clock do not.                                                       *)
SessionOpens(e) ==
    /\ epc[e] = "connecting"
    /\ Goto(e, "work")
    /\ UNCHANGED <<mainVars, notifyVars, row, err, gap>>

SessionFails(e) ==
    /\ epc[e] = "connecting"
    /\ err' = [err EXCEPT ![e] = "failed"]
    /\ Goto(e, "final")
    /\ UNCHANGED <<mainVars, notifyVars, row, gap>>

(* restic ends on the target, with any exit code, or never.  The code 3 is *)
(* told apart for the exit code of --once.                                 *)
WorkEnds(e) ==
    /\ epc[e] = "work"
    /\ \E x \in {"nil", "failed"} \cup (IF mode = "once" THEN {"exit3"} ELSE {})
                                  \cup (IF Canceled THEN {"canceled"} ELSE {}) :
         err' = [err EXCEPT ![e] = x]
    /\ Goto(e, "final")
    /\ UNCHANGED <<mainVars, notifyVars, row, gap>>

(* A canceled context ends an execution whose script runs, whatever restic *)
(* does on the server; a local one still waits for its restic process.     *)
WorkCanceled(e) ==
    /\ epc[e] = "work" /\ Canceled
    /\ e[1] \notin LocalJobs
    /\ err' = [err EXCEPT ![e] = "canceled"]
    /\ Goto(e, "final")
    /\ UNCHANGED <<mainVars, notifyVars, row, gap>>

RunStatus(e) == IF err[e] = "nil" THEN "success"
                ELSE IF err[e] = "canceled" THEN "canceled" ELSE "failed"

(* finalizeRun; then executeJob turns an unflagged nil error of an         *)
(* untracked run into ErrUntracked.                                        *)
Recorded(e) ==
    /\ epc[e] = "final"
    /\ row' = [row EXCEPT ![e] = RunStatus(e)]
    /\ err' = [err EXCEPT ![e] = IF @ = "nil" /\ gap[e] THEN "untracked" ELSE @]
    /\ Goto(e, "notify")
    /\ UNCHANGED <<mainVars, notifyVars, gap>>

NotRecorded(e) ==
    /\ epc[e] = "final"
    /\ gap' = [gap EXCEPT ![e] = TRUE]
    /\ err' = [err EXCEPT ![e] =
         IF @ = "nil" \/ (@ = "canceled" /\ ~gap[e]) THEN "untracked" ELSE @]
    /\ Goto(e, "notify")
    /\ UNCHANGED <<mainVars, notifyVars, row>>

-----------------------------------------------------------------------------
(* enqueueNotification *)

(* notifyClosed.Load(): a late event is dropped with a warning. *)
EnqueueChecks(e) ==
    /\ epc[e] = "notify"
    /\ IF closed
       THEN dropped' = dropped \cup {e} /\ Goto(e, "done")
       ELSE UNCHANGED dropped /\ Goto(e, "start")
    /\ UNCHANGED <<mainVars, row, err, gap, closed, stop, queue, worker, holding, delivered>>

(* startDispatcher: sync.Once launches the workers. *)
EnqueueStarts(e) ==
    /\ epc[e] = "start"
    /\ worker' = [w \in Workers |-> IF worker[w] = "off" THEN "idle" ELSE worker[w]]
    /\ Goto(e, "send")
    /\ UNCHANGED <<mainVars, row, err, gap, closed, stop, queue, holding, delivered, dropped>>

(* Faulty: a full queue drops the event without a word. *)
EnqueueSendsSilently(e) ==
    /\ epc[e] = "send"
    /\ queue' = IF Len(queue) < QueueSize THEN Append(queue, e) ELSE queue
    /\ Goto(e, "done")
    /\ UNCHANGED <<mainVars, row, err, gap, closed, stop, worker, holding, delivered, dropped>>

(* The send never blocks: a full queue drops the event with a warning. *)
EnqueueSends(e) ==
    /\ epc[e] = "send"
    /\ IF Len(queue) < QueueSize
       THEN queue' = Append(queue, e) /\ UNCHANGED dropped
       ELSE dropped' = dropped \cup {e} /\ UNCHANGED queue
    /\ Goto(e, "done")
    /\ UNCHANGED <<mainVars, row, err, gap, closed, stop, worker, holding, delivered>>

(* What the goroutine of an execution does by itself. *)
ExecStep(e) ==
    \/ JobBegins(e) \/ JobRefused(e) \/ JobUntracked(e) \/ LaunchFails(e) \/ Launch(e)
    \/ WorkCanceled(e) \/ Recorded(e) \/ NotRecorded(e)
    \/ EnqueueChecks(e) \/ EnqueueStarts(e) \/ EnqueueSends(e)

(* What only the target decides. *)
TargetStep(e) == SessionOpens(e) \/ SessionFails(e) \/ WorkEnds(e)

-----------------------------------------------------------------------------
(* notifyWorker *)

Take(w) ==
    /\ worker[w] \in {"idle", "stopping"} /\ queue # << >>
    /\ holding' = [holding EXCEPT ![w] = {Head(queue)}]
    /\ queue' = Tail(queue)
    /\ worker' = [worker EXCEPT ![w] = IF @ = "idle" THEN "busy" ELSE "flushing"]
    /\ UNCHANGED <<mainVars, execVars, closed, stop, delivered, dropped>>

(* The dispatch ends: at most notifyDeliveryTimeout later, which is longer *)
(* than shutdown waits.                                                    *)
Deliver(w) ==
    /\ worker[w] \in {"busy", "flushing"}
    /\ delivered' = delivered \cup holding[w]
    /\ holding' = [holding EXCEPT ![w] = {}]
    /\ worker' = [worker EXCEPT ![w] = IF @ = "busy" THEN "idle" ELSE "stopping"]
    /\ UNCHANGED <<mainVars, execVars, closed, stop, queue, dropped>>

(* Faulty: the stop signal ends the worker without the final drain. *)
SeesStopAndLeaves(w) ==
    /\ worker[w] = "idle" /\ stop
    /\ worker' = [worker EXCEPT ![w] = "gone"]
    /\ UNCHANGED <<mainVars, execVars, closed, stop, queue, holding, delivered, dropped>>

(* select takes the stop branch, also when events wait. *)
SeesStop(w) ==
    /\ worker[w] = "idle" /\ stop
    /\ worker' = [worker EXCEPT ![w] = "stopping"]
    /\ UNCHANGED <<mainVars, execVars, closed, stop, queue, holding, delivered, dropped>>

Leaves(w) ==
    /\ worker[w] = "stopping" /\ queue = << >>
    /\ worker' = [worker EXCEPT ![w] = "gone"]
    /\ UNCHANGED <<mainVars, execVars, closed, stop, queue, holding, delivered, dropped>>

WorkerStep(w) == Take(w) \/ SeesStop(w) \/ Leaves(w)

-----------------------------------------------------------------------------
(* Run: the daemon's main goroutine *)

Signal ==
    /\ ~signaled /\ main = "serving"
    /\ signaled' = TRUE
    /\ UNCHANGED <<mode, allow, main, canceled, timedOut, undrained, current, firstErr, exit,
                   execVars, notifyVars>>

(* cron.Stop: no triggers from now on. *)
Stop ==
    /\ mode = "daemon" /\ main = "serving" /\ signaled
    /\ main' = "stopping"
    /\ UNCHANGED <<mode, allow, signaled, canceled, timedOut, undrained, current, firstErr, exit,
                   execVars, notifyVars>>

(* The goroutine of Stop cancels daemonCtx now: no execution is left that  *)
(* could notice.                                                           *)
JobsCompleted ==
    /\ main = "stopping" /\ NoJobRuns
    /\ main' = "closing" /\ canceled' = TRUE
    /\ UNCHANGED <<mode, allow, signaled, timedOut, undrained, current, firstErr, exit,
                   execVars, notifyVars>>

(* Faulty: no bound on the wait for the jobs. *)
NoShutdownTimeout == FALSE /\ UNCHANGED vars

(* shutdownTimeout: the jobs are canceled and not waited for any more. *)
ShutdownTimeout ==
    /\ main = "stopping"
    /\ timedOut' = TRUE /\ canceled' = TRUE /\ main' = "closing"
    /\ UNCHANGED <<mode, allow, signaled, undrained, current, firstErr, exit, execVars, notifyVars>>

-----------------------------------------------------------------------------
(* RunOnce: the same goroutine runs the jobs itself, one after the other,  *)
(* and keeps the first error.                                              *)

OnceStarts(e) ==
    /\ mode = "once" /\ main = "serving" /\ ~signaled
    /\ current = {}
    /\ e[2] = 1 /\ epc[e] = "idle"
    /\ current' = {e}
    /\ Goto(e, "begin")
    /\ UNCHANGED <<mode, allow, main, signaled, canceled, timedOut, undrained, firstErr, exit,
                   notifyVars, row, err, gap>>

(* commandExitCode: the audit gap's own code, restic's code, or 1. *)
ExitCodeOf(e) == IF e = "nil" THEN 0 ELSE IF e \in {"untracked", "exit3"} THEN 3 ELSE 1

(* executeJob has returned.  A failure under a canceled context ends the   *)
(* loop with the context's error; the first error only adds its text.      *)
OnceReturns(e) ==
    LET failed == err[e] # "nil"
    IN  /\ main = "serving" /\ e \in current /\ epc[e] = "done"
        /\ current' = {}
        /\ firstErr' = IF firstErr = "nil" THEN err[e] ELSE firstErr
        /\ IF failed /\ signaled
           THEN main' = "closing" /\ exit' = ExitCodeOf("canceled")
           ELSE UNCHANGED <<main, exit>>
        /\ UNCHANGED <<mode, allow, signaled, canceled, timedOut, undrained, execVars, notifyVars>>

(* The context is looked at before each job. *)
OnceInterrupted ==
    /\ mode = "once" /\ main = "serving" /\ current = {} /\ signaled
    /\ \E j \in Jobs : epc[<<j, 1>>] = "idle"
    /\ exit' = ExitCodeOf("canceled")
    /\ main' = "closing"
    /\ UNCHANGED <<mode, allow, signaled, canceled, timedOut, undrained, current, firstErr,
                   execVars, notifyVars>>

(* All jobs have run: the first error is the command's. *)
OnceCompletes ==
    /\ mode = "once" /\ main = "serving" /\ current = {}
    /\ \A j \in Jobs : epc[<<j, 1>>] = "done"
    /\ exit' = ExitCodeOf(firstErr)
    /\ main' = "closing"
    /\ UNCHANGED <<mode, allow, signaled, canceled, timedOut, undrained, current, firstErr,
                   execVars, notifyVars>>

-----------------------------------------------------------------------------
(* shutdownDispatcher, then the command's deferred db.Close and its end *)

MarkClosed ==
    /\ main = "closing"
    /\ closed' = TRUE /\ main' = "closed"
    /\ UNCHANGED <<mode, allow, signaled, canceled, timedOut, undrained, current, firstErr, exit,
                   execVars, stop, queue, worker, holding, delivered, dropped>>

CloseStop ==
    /\ main = "closed"
    /\ stop' = TRUE /\ main' = "draining"
    /\ UNCHANGED <<mode, allow, signaled, canceled, timedOut, undrained, current, firstErr, exit,
                   execVars, closed, queue, worker, holding, delivered, dropped>>

(* notifyWG.Wait returns at once when no worker was ever started. *)
Drained ==
    /\ main = "draining"
    /\ \A w \in Workers : worker[w] \in {"off", "gone"}
    /\ main' = "returned"
    /\ UNCHANGED <<mode, allow, signaled, canceled, timedOut, undrained, current, firstErr, exit,
                   execVars, notifyVars>>

(* dispatcherDrainTimeout *)
DrainTimeout ==
    /\ main = "draining"
    /\ undrained' = TRUE /\ main' = "returned"
    /\ UNCHANGED <<mode, allow, signaled, canceled, timedOut, current, firstErr, exit,
                   execVars, notifyVars>>

(* The deferred db.Close and the end of the process, with every goroutine  *)
(* it still has.  A write to the closed database fails, as any may.        *)
Exit ==
    /\ main = "returned"
    /\ main' = "exited"
    /\ UNCHANGED <<mode, allow, signaled, canceled, timedOut, undrained, current, firstErr, exit,
                   execVars, notifyVars>>

MainStep ==
    \/ Stop \/ JobsCompleted \/ ShutdownTimeout
    \/ (\E e \in Execs : OnceStarts(e) \/ OnceReturns(e)) \/ OnceInterrupted \/ OnceCompletes
    \/ MarkClosed \/ CloseStop \/ Drained \/ DrainTimeout \/ Exit

Alive == main # "exited"

Exited == ~Alive /\ UNCHANGED vars

Next ==
    \/ Alive /\ \E e \in Execs : Trigger(e) \/ TargetStep(e) \/ ExecStep(e)
    \/ Alive /\ \E w \in Workers : Deliver(w) \/ WorkerStep(w)
    \/ Signal \/ MainStep
    \/ Exited

Spec == Init /\ [][Next]_vars

(* Goroutines are scheduled and timers fire, the dial's among them.        *)
(* Nothing is assumed of cron, of the targets, which may leave a handshake *)
(* unanswered, or of the webhooks.                                         *)
Fairness ==
    /\ \A e \in Execs : WF_vars(Alive /\ ExecStep(e))
    /\ \A w \in Workers : WF_vars(Alive /\ WorkerStep(w))
    /\ WF_vars(MainStep)

FairSpec == Spec /\ Fairness

-----------------------------------------------------------------------------
(* Properties *)

(* An execution that has ended left exactly one trace of its notification: *)
(* it waits, a worker delivers it, it was dispatched, or a warning says    *)
(* that it was dropped.  No race of enqueue, take and shutdown loses it or *)
(* sends it twice.                                                         *)
EventsConserved ==
    \A e \in Execs :
        Cardinality({i \in DOMAIN queue : queue[i] = e})
            + Cardinality({w \in Workers : e \in holding[w]})
            + Cardinality({e} \cap delivered) + Cardinality({e} \cap dropped)
        = IF epc[e] = "done" THEN 1 ELSE 0

(* The process may end with an event neither dispatched nor reported only  *)
(* after one of the two shutdown bounds was hit, and both print a warning. *)
NoSilentLoss ==
    (~Alive /\ ~timedOut /\ ~undrained) =>
        /\ {e \in Execs : epc[e] = "done"} \subseteq delivered \cup dropped
        /\ \A w \in Workers : worker[w] \in {"off", "gone"}

(* "a graceful shutdown does not abort a backup mid-run (audit B1)": the   *)
(* daemon's context ends no execution before the bound on the wait.        *)
GracefulNotAborted ==
    (mode = "daemon" /\ \E e \in Execs : err[e] = "canceled") => timedOut

(* When the process ends after a wait that was not cut short, no row is    *)
(* left 'running' unless its run told its caller that it is untracked.     *)
LedgerClosed ==
    (~Alive /\ ~timedOut) => \A e \in Execs : row[e] = "running" => gap[e]

(* Successive triggers of a job never leave two open rows of it: the next  *)
(* execution begins when the last one's row is closed or given up loudly.  *)
OneOpenRow ==
    \A d, e \in Execs :
        /\ d[1] = e[1] /\ d # e
        /\ row[d] = "running" /\ row[e] = "running"
        => gap[d] \/ gap[e]

(* --once exits 0 only when every job ran and the ledger shows a success   *)
(* of it; an untracked success or an interruption never looks like that.   *)
OnceExitTruthful ==
    exit = 0 => \A j \in Jobs : row[<<j, 1>>] = "success" /\ ~gap[<<j, 1>>]

(* What the end of the process, by a signal or by itself, leaves behind is *)
(* what it says.                                                           *)
ShutdownHonest == NoSilentLoss /\ LedgerClosed /\ GracefulNotAborted /\ OnceExitTruthful

(* The execution cannot be ended by its context: the server has not opened *)
(* the session yet, or restic runs on this machine.                        *)
Uncancelable(e) == epc[e] = "connecting" \/ (epc[e] = "work" /\ e[1] \in LocalJobs)

(* After a signal the process ends, with restic hanging on servers, hanging*)
(* webhooks and a full queue; the daemon also with executions that cannot  *)
(* be canceled.  Only --once, which has no bound on its wait (executeJob is*)
(* called synchronously), is held by the one it is in.                     *)
ShutdownCompletes == (signaled /\ ~\E e \in current : Uncancelable(e)) ~> ~Alive

-----------------------------------------------------------------------------
(* What the documentation says and the code does not keep (see the README).*)

(* scheduler.go, shutdownDispatcher: an enqueue that races with shutdown   *)
(* "is rejected with a warning instead of landing in a queue nobody        *)
(* drains".                                                                *)
LateEventRejected == ~Alive /\ ~undrained => queue = << >>

(* docs/reference/backup.md: exit code 3 of --once tells an unaudited      *)
(* success from a normal failure, so no job of the batch has failed.       *)
OnceExit3MeansUnaudited ==
    exit = 3 => \A e \in Execs : err[e] \notin {"failed", "exit3"}
=============================================================================
