------------------------------ MODULE BackupPool ------------------------------
(***************************************************************************)
(* 'ops backup run job1,job2,...': internal/backup/pool.go over the runner *)
(* (one goroutine per job behind a channel semaphore, a mutex around the   *)
(* tallies) and the exit code of the command (cmd/opspulse/backup.go,      *)
(* main.go).  All invocations belong to one process: one signal cancels    *)
(* them all.                                                               *)
(***************************************************************************)
EXTENDS BackupRunner, FiniteSets

CONSTANT MaxParallel   \* what ParseParallelism made of --parallel; below 1 is no limit

ASSUME PoolAssumption ==
    /\ IsFiniteSet(Runs) /\ Runs # {}
    /\ MaxParallel \in Int

VARIABLES
    worker,   \* a job's goroutine, launched at once: before, inside or after the semaphore
    sem,      \* the goroutines that hold a slot of the channel
    res,      \* PoolResult: the three tallies
    exit      \* the command's exit code, -1 while it runs

poolVars == <<worker, sem, res, exit>>
allVars == <<vars, poolVars>>

PoolTypeOK ==
    /\ TypeOK
    /\ worker \in [Runs -> {"waiting", "running", "counted", "done"}]
    /\ sem \subseteq Runs
    /\ res \in [success : Nat, failure : Nat, untracked : Nat]
    /\ exit \in {-1, 0, 1, 3}

PoolInit ==
    /\ Init
    /\ worker = [r \in Runs |-> "waiting"]
    /\ sem = {}
    /\ res = [success |-> 0, failure |-> 0, untracked |-> 0]
    /\ exit = -1

(* "unlimited", and any limit above the number of jobs, is that number. *)
Limit == IF MaxParallel <= 0 \/ MaxParallel > Cardinality(Runs)
         THEN Cardinality(Runs) ELSE MaxParallel

(* sem <- struct{}{} *)
Acquire(r) ==
    /\ worker[r] = "waiting"
    /\ Cardinality(sem) < Limit
    /\ sem' = sem \cup {r}
    /\ worker' = [worker EXCEPT ![r] = "running"]
    /\ UNCHANGED <<vars, res, exit>>

(* runner.Run; no property of the pool reads started_at, the clock stands. *)
RunInPool(r) ==
    /\ worker[r] = "running"
    /\ \/ RunInvalid(r)
       \/ RunStarts(r) /\ clock' = clock
       \/ RunStep(r)
    /\ UNCHANGED poolVars

(* Faulty: an untracked run is tallied as a success whatever happened. *)
CountUntrackedAsSuccess(r) ==
    /\ worker[r] = "running"
    /\ pc[r] = "returned"
    /\ res' = IF rec[r].untracked
              THEN [res EXCEPT !.untracked = @ + 1, !.success = @ + 1]
              ELSE IF rec[r].status = "success"
              THEN [res EXCEPT !.success = @ + 1]
              ELSE [res EXCEPT !.failure = @ + 1]
    /\ worker' = [worker EXCEPT ![r] = "counted"]
    /\ UNCHANGED <<vars, sem, exit>>

(* Under the mutex: an untracked run counts by its outcome and as untracked;*)
(* a run without a record, or with an error, is a failure.                 *)
Count(r) ==
    LET untracked == rec[r].untracked
        success == rec[r].status = "success" /\ (untracked \/ err[r] = "nil")
    IN  /\ worker[r] = "running"
        /\ pc[r] = "returned"
        /\ res' = [success   |-> res.success + (IF success THEN 1 ELSE 0),
                   failure   |-> res.failure + (IF success THEN 0 ELSE 1),
                   untracked |-> res.untracked + (IF untracked THEN 1 ELSE 0)]
        /\ worker' = [worker EXCEPT ![r] = "counted"]
        /\ UNCHANGED <<vars, sem, exit>>

(* Faulty: a run that was refused keeps its slot. *)
ReleaseUnlessRefused(r) ==
    /\ worker[r] = "counted"
    /\ sem' = IF err[r] = "refused" THEN sem ELSE sem \ {r}
    /\ worker' = [worker EXCEPT ![r] = "done"]
    /\ UNCHANGED <<vars, res, exit>>

(* The deferred <-sem, then wg.Done. *)
Release(r) ==
    /\ worker[r] = "counted"
    /\ sem' = sem \ {r}
    /\ worker' = [worker EXCEPT ![r] = "done"]
    /\ UNCHANGED <<vars, res, exit>>

(* Faulty: the audit gap is looked at first. *)
ExitCodeUntrackedFirst == IF res.untracked > 0 THEN 3 ELSE IF res.failure > 0 THEN 1 ELSE 0

(* backupRunCmd's returns through commandExitCode: failures come first. *)
ExitCode == IF res.failure > 0 THEN 1 ELSE IF res.untracked > 0 THEN 3 ELSE 0

(* wg.Wait, then the command ends with what it counted. *)
Exit ==
    /\ exit = -1
    /\ \A r \in Runs : worker[r] = "done"
    /\ exit' = ExitCode
    /\ UNCHANGED <<vars, worker, sem, res>>

(* --dry-run: scripts are built and counted, no goroutine, no runner; any  *)
(* of them may fail to build.                                              *)
DryRun ==
    /\ exit = -1
    /\ \A r \in Runs : worker[r] = "waiting"
    /\ \E broken \in SUBSET Runs :
         /\ res' = [success |-> Cardinality(Runs \ broken),
                    failure |-> Cardinality(broken), untracked |-> 0]
         /\ exit' = IF broken = {} THEN 0 ELSE 1
    /\ worker' = [r \in Runs |-> "done"]
    /\ UNCHANGED <<vars, sem>>

(* SIGINT or SIGTERM: the jobs that run stop, those that wait still start  *)
(* and find their context canceled.                                        *)
Signal == exit = -1 /\ Cancel(Runs) /\ UNCHANGED poolVars

Environment ==
    /\ \E r \in Runs : RemoteEnds(r) \/ ServerStep(r)
    /\ UNCHANGED poolVars

WorkerStep(r) == Acquire(r) \/ RunInPool(r) \/ Count(r) \/ Release(r)

Exited == exit # -1 /\ UNCHANGED allVars

PoolNext ==
    \/ \E r \in Runs : WorkerStep(r)
    \/ Exit \/ DryRun \/ Signal \/ Environment \/ Exited

PoolSpec == PoolInit /\ [][PoolNext]_allVars

(* Every goroutine is scheduled; a channel slot that stays free goes to the*)
(* goroutine that waits for it.  The targets owe nothing.                  *)
PoolFairness == WF_allVars(Exit) /\ \A r \in Runs : WF_allVars(WorkerStep(r))

FairPoolSpec == PoolSpec /\ PoolFairness

-----------------------------------------------------------------------------
(* Never more jobs on targets than --parallel allows, whoever is canceled, *)
(* fails early or is still to be counted.                                  *)
ParallelismBounded ==
    /\ Cardinality({r \in Runs : pc[r] \in InFlight}) <= Cardinality(sem)
    /\ Cardinality(sem) <= Limit
    /\ MaxParallel > 0 => Cardinality(sem) <= MaxParallel

(* The summary's tallies agree with the records behind it at every moment: *)
(* no concurrent goroutine's result is lost or counted twice.              *)
TalliesExact ==
    LET counted == {r \in Runs : worker[r] \in {"counted", "done"} /\ pc[r] = "returned"}
    IN  (\E r \in Runs : pc[r] # "idle") =>
          /\ res.success + res.failure = Cardinality(counted)
          /\ res.untracked = Cardinality({r \in counted : rec[r].untracked})
          /\ res.success = Cardinality({r \in counted : rec[r].status = "success"})

(* "0 is a normal success, 3 an unaudited one, anything else a failure"    *)
(* (docs/reference/backup.md): 0 means that the ledger holds a success of  *)
(* every job of the batch, 3 that restic finished for all of them.         *)
ExitCodeTruthful ==
    (exit # -1 /\ \E r \in Runs : pc[r] # "idle") =>
        /\ exit = 0 => \A r \in Runs : RowStatus(r) = "success" /\ ~rec[r].untracked
        /\ exit = 3 => /\ \A r \in Runs : remote[r] = "done"
                       /\ \E r \in Runs : rec[r].untracked
        /\ (\A r \in Runs : RowStatus(r) = "success" /\ ~rec[r].untracked) => exit = 0

(* After Ctrl-C the command ends, with restic hanging on servers and with  *)
(* jobs that still wait for a slot: no slot is leaked on any path of a job,*)
(* and no job that had to wait gets as far as a server after the signal.   *)
SignaledCommandExits ==
    (\A r \in Runs : ctx[r] /\ ~AwaitsLocalProcess(r) /\ ~AwaitsConnection(r))
        ~> (exit # -1)
=============================================================================
