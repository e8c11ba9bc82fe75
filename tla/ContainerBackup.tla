---------------------------- MODULE ContainerBackup ----------------------------
(***************************************************************************)
(* Runner.RunContainerBackup (internal/backup/container_runner.go): the    *)
(* backup of a container with no declared job. A run opens its audit row,  *)
(* inspects the container, asks before it writes secrets into a generated  *)
(* compose.yaml, archives the named volumes and dumps the database into a  *)
(* scratch directory on the target, and takes a snapshot of the project    *)
(* directory with the backup script of Repository. Deferred functions then *)
(* remove the scratch files and close the row.                             *)
(*                                                                         *)
(* Runs of several terminals may overlap: all of one container share one   *)
(* scratch directory. Every remote command may fail, with its effect made  *)
(* in part or in whole, a run may be interrupted, or killed, at any step,  *)
(* and the database may refuse a write. A command whose run is interrupted *)
(* or killed, or whose connection is lost, may go on without it.           *)
(***************************************************************************)
EXTENDS Repository

CONSTANTS Runs,         \* executions of the command, each a backup script
          App,          \* the job name that they use: the container's or --as
          Volumes,      \* the container's named volumes
          DataDir,      \* the one mounted where a database keeps its files
          Dump,         \* the dump of the database
          Containers,   \* the kinds of container to consider
          Untracked,    \* runs given --allow-untracked
          MaxOverlap,   \* bound on the runs at one time
          MaxFaults,    \* bound on interrupts, kills, lost connections, refused
                        \* writes of the database and failed removals
          Nobody

ASSUME ContainerAssumption == /\ Runs \subseteq Scripts
                              /\ \A r \in Runs : JobOf[r] = App
                              /\ KeepLast[App] = 0
                              /\ DataDir \in Volumes /\ Dump \notin Volumes
                              /\ Nobody \notin Runs

VARIABLES container,    \* the container: [compose, database, secrets]
          scratch,      \* scratch[a]: whose archive or dump a is, and whether whole
          manifest,     \* the run that wrote manifest.yaml there
          orphans,      \* the commands that go on without their run
          row,          \* row[r]: the status in backup_runs
          run,          \* run[r]: the program counter and the locals of run r
          whole,        \* whole[r]: the snapshot of run r holds all of its package
          job,          \* the run that last saved job App in backups.yaml
          faults        \* faults so far

target == <<scratch, manifest>>
vars == <<repository, container, target, orphans, row, run, whole, job, faults>>

Artifacts == Volumes \union {Dump}
Absent == [by |-> Nobody, whole |-> FALSE]

(* What the manifest lists. A database's data directory is dumped, not     *)
(* archived.                                                               *)
Archives == IF container.database THEN Volumes \ {DataDir} ELSE Volumes
Contents == Archives \union IF container.database THEN {Dump} ELSE {}

Before == {"inspect", "confirm", "sanitize", "volumes", "dump", "compose",
           "manifest", "execute"}
After == {"script", "persist", "cleanup", "finalize"}
Active(r) == run[r].pc \in Before \union After

NotStarted == [pc |-> "idle", todo |-> {}, clean |-> {}, tracked |-> FALSE,
               interrupted |-> FALSE, aborted |-> "no", refused |-> FALSE,
               dirty |-> FALSE, alone |-> TRUE]

Init ==
   /\ InitRepository
   /\ container \in Containers
   /\ scratch = [a \in Artifacts |-> Absent]
   /\ manifest = Nobody
   /\ orphans = {}
   /\ row = [r \in Runs |-> "none"]
   /\ run = [r \in Runs |-> NotStarted]
   /\ whole = [r \in Runs |-> FALSE]
   /\ job = Nobody
   /\ faults = 0

Fault(happens) == /\ happens => faults < MaxFaults
                  /\ faults' = faults + IF happens THEN 1 ELSE 0

(* What the properties tell of a run that has ended.                       *)
Ended(record, how) ==
   [NotStarted EXCEPT !.pc = how, !.alone = record.alone, !.refused = record.refused,
                      !.dirty = record.dirty]

Set(r, record) == run' = [run EXCEPT ![r] = record]
To(r, pc) == Set(r, [run[r] EXCEPT !.pc = pc])

(* The command that a run has on the target. The context of an interrupted *)
(* run ends the wait for it, a kill or a lost connection as well, and it   *)
(* may go on: what it may leave is nothing or itself (ssh.go:307-315).     *)
Command(r, does, on) == [by |-> r, does |-> does, on |-> on]
Current(r) ==
   LET pc == run[r].pc
   IN (IF pc = "sanitize" THEN {Command(r, "remove", Artifacts)} ELSE {})
      \union {Command(r, "write", {a}) : a \in IF pc = "volumes" THEN run[r].todo
                                            ELSE IF pc = "dump" THEN {Dump} ELSE {}}
      \union (IF pc = "manifest" THEN {Command(r, "manifest", {})} ELSE {})
      \union (IF pc = "cleanup" THEN {Command(r, "remove", run[r].clean)} ELSE {})
Leavable(r) == {{}} \union {{o} : o \in Current(r)}
WritesDump(left) == \E o \in left : o.does = "write" /\ Dump \in o.on

(* A returned error: the deferred functions run. Only an error that wraps  *)
(* the context's counts as a cancellation. The command that has failed may *)
(* go on: after an interrupt, or when the connection was lost.             *)
AbortFrom(r, record, wrapped) ==
   \E left \in Leavable(r) :
      /\ Fault(left # {} /\ ~run[r].interrupted)
      /\ orphans' = orphans \union left
      /\ Set(r, [record EXCEPT !.pc = "cleanup",
                               !.aborted = IF wrapped /\ record.interrupted THEN "canceled"
                                           ELSE "failed",
                               !.dirty = WritesDump(left)])
Abort(r, wrapped) == AbortFrom(r, run[r], wrapped)

(* A command on the target fails, and always does once the context ends.   *)
Works(r) == ~run[r].interrupted

-----------------------------------------------------------------------------
(* beginRun: no row, no backup, unless untracked runs are allowed. Whether *)
(* the run is alone at this moment is noted, for the properties.           *)
Begin(r) ==
   /\ run[r].pc = "idle" /\ script[r] = "idle"
   /\ LET others == {o \in Runs \ {r} : Active(o)} IN
      /\ Cardinality(others) < MaxOverlap
      /\ \E recorded \in BOOLEAN :
            /\ Fault(~recorded)
            /\ row' = IF recorded THEN [row EXCEPT ![r] = "running"] ELSE row
            /\ run' = [o \in Runs |->
                         IF o = r
                         THEN [run[r] EXCEPT
                                 !.pc = IF recorded \/ r \in Untracked THEN "inspect"
                                        ELSE "done",
                                 !.tracked = recorded,
                                 !.alone = others = {} /\ orphans = {}]
                         ELSE IF o \in others THEN [run[o] EXCEPT !.alone = FALSE]
                         ELSE run[o]]
   /\ UNCHANGED <<repository, container, target, orphans, whole, job>>

(* docker inspect and ParseInspectJSON.                                    *)
Inspect(r) ==
   /\ run[r].pc = "inspect"
   /\ \/ Works(r) /\ To(r, "confirm") /\ UNCHANGED <<orphans, faults>>
      \/ Abort(r, TRUE)
   /\ UNCHANGED <<repository, container, target, row, whole, job>>

(* Only a generated compose.yaml carries the environment. The operator     *)
(* answers; without a terminal and --yes the answer is no.                 *)
NeedsConsent == ~container.compose /\ container.secrets

Confirm(r) ==
   /\ run[r].pc = "confirm"
   /\ \/ To(r, "sanitize") /\ UNCHANGED <<orphans, faults>>
      \/ NeedsConsent /\ Abort(r, FALSE)
   /\ UNCHANGED <<repository, container, target, row, whole, job>>

ToVolumes(record) ==
   [record EXCEPT !.pc = IF record.todo # {} THEN "volumes"
                         ELSE IF container.database THEN "dump" ELSE "compose"]

(* What earlier runs have left of dumps/ and volumes/ is removed. A        *)
(* failure is a warning, whatever has been removed or still will be.       *)
Sanitize(r) ==
   /\ run[r].pc = "sanitize"
   /\ \E kept \in {{}, Volumes, Artifacts}, left \in Leavable(r) :
         /\ Fault(Works(r) /\ (kept # {} \/ left # {}))
         /\ scratch' = [a \in Artifacts |-> IF a \in kept THEN scratch[a] ELSE Absent]
         /\ orphans' = orphans \union left
         /\ Set(r, ToVolumes([run[r] EXCEPT !.todo = Archives, !.alone = @ /\ left = {}]))
   /\ UNCHANGED <<repository, container, manifest, row, whole, job>>

(* Faulty: an archive that fails is left out of the backup.                *)
ExportTolerant(r) ==
   /\ run[r].pc = "volumes"
   /\ \E a \in run[r].todo :
         \/ /\ Works(r)
            /\ scratch' = [scratch EXCEPT ![a] = [by |-> r, whole |-> TRUE]]
            /\ Set(r, ToVolumes([run[r] EXCEPT !.todo = @ \ {a}, !.clean = @ \union {a}]))
         \/ /\ scratch' = [scratch EXCEPT ![a] = [by |-> r, whole |-> FALSE]]
            /\ Set(r, ToVolumes([run[r] EXCEPT !.todo = @ \ {a}]))
   /\ UNCHANGED <<repository, container, manifest, orphans, row, whole, job,
                  faults>>

(* One volume, by a helper container. The archive is registered for the    *)
(* clean-up when it has been made.                                         *)
Export(r) ==
   /\ run[r].pc = "volumes"
   /\ \E a \in run[r].todo :
         \/ /\ Works(r)
            /\ scratch' = [scratch EXCEPT ![a] = [by |-> r, whole |-> TRUE]]
            /\ Set(r, ToVolumes([run[r] EXCEPT !.todo = @ \ {a}, !.clean = @ \union {a}]))
            /\ UNCHANGED <<orphans, faults>>
         \/ /\ \/ UNCHANGED scratch
               \/ \E complete \in BOOLEAN :
                     scratch' = [scratch EXCEPT ![a] = [by |-> r, whole |-> complete]]
            /\ Abort(r, FALSE)
   /\ UNCHANGED <<repository, container, manifest, row, whole, job>>

(* Faulty: the dump is registered when it has been made.                   *)
DumpThenRegister(r) ==
   /\ run[r].pc = "dump"
   /\ \/ /\ Works(r)
         /\ scratch' = [scratch EXCEPT ![Dump] = [by |-> r, whole |-> TRUE]]
         /\ Set(r, [run[r] EXCEPT !.pc = "compose", !.clean = @ \union {Dump}])
         /\ UNCHANGED <<orphans, faults>>
      \/ /\ scratch' = [scratch EXCEPT ![Dump] = [by |-> r, whole |-> FALSE]]
         /\ Abort(r, FALSE)
   /\ UNCHANGED <<repository, container, manifest, row, whole, job>>

(* The hot dump is registered before it is made.                           *)
HotDump(r) ==
   /\ run[r].pc = "dump"
   /\ LET registered == [run[r] EXCEPT !.clean = @ \union {Dump}] IN
      \/ /\ Works(r)
         /\ scratch' = [scratch EXCEPT ![Dump] = [by |-> r, whole |-> TRUE]]
         /\ Set(r, [registered EXCEPT !.pc = "compose"])
         /\ UNCHANGED <<orphans, faults>>
      \/ /\ \/ UNCHANGED scratch
            \/ \E complete \in BOOLEAN :
                  scratch' = [scratch EXCEPT ![Dump] = [by |-> r, whole |-> complete]]
         /\ AbortFrom(r, registered, FALSE)
   /\ UNCHANGED <<repository, container, manifest, row, whole, job>>

(* A standalone container gets a generated compose.yaml, the same from     *)
(* every run.                                                              *)
WriteCompose(r) ==
   /\ run[r].pc = "compose"
   /\ \/ /\ container.compose \/ Works(r)
         /\ To(r, "manifest")
         /\ UNCHANGED <<orphans, faults>>
      \/ /\ ~container.compose
         /\ Abort(r, FALSE)
   /\ UNCHANGED <<repository, container, target, row, whole, job>>

WriteManifest(r) ==
   /\ run[r].pc = "manifest"
   /\ \/ /\ Works(r)
         /\ manifest' = r
         /\ To(r, "execute")
         /\ UNCHANGED <<orphans, faults>>
      \/ /\ manifest' \in {manifest, r}
         /\ Abort(r, FALSE)
   /\ UNCHANGED <<repository, container, scratch, row, whole, job>>

(* resolveInheritedBackend may find none. executeRun resolves the secrets  *)
(* and starts the script; before that it may fail and close the row.       *)
Execute(r) ==
   /\ run[r].pc = "execute"
   /\ \/ /\ Abort(r, FALSE)
         /\ UNCHANGED script
      \/ /\ Works(r)
         /\ StartScript(r)
         /\ To(r, "script")
         /\ UNCHANGED <<orphans, faults>>
   /\ UNCHANGED <<server, present, snapshots, taken, restored, moves,
                  container, target, row, whole, job>>

(* What a restore of the run needs is on the target.                       *)
Packaged(r) == /\ manifest = r
               /\ \A a \in Contents : scratch[a] = [by |-> r, whole |-> TRUE]

(* The backup script of a run reads the project directory. It may outlive  *)
(* the run as any other command.                                           *)
ScriptStep(x) ==
   /\ Step(x)
   /\ whole' = IF x \in Runs /\ script'[x] = "success"
               THEN [whole EXCEPT ![x] = Packaged(x)]
               ELSE whole
   /\ UNCHANGED <<container, target, orphans, row, run, job, faults>>

(* executeRun closes the row with what Execute reports: how the script     *)
(* ended, a context that has ended, or a lost connection. Only an audited  *)
(* success, or one that was untracked from the start, goes on to save the  *)
(* job.                                                                    *)
EndScript(r) ==
   /\ run[r].pc = "script"
   /\ \E written \in BOOLEAN, status \in {"success", "failed", "canceled"} :
         LET audited == written \/ ~run[r].tracked
             lost == status = "failed" /\ script[r] # "failed" IN
         /\ status = "success" => script[r] = "success"
         /\ status = "canceled" => run[r].interrupted
         /\ Fault(~written \/ lost)
         /\ row' = IF written THEN [row EXCEPT ![r] = status] ELSE row
         /\ Set(r, [run[r] EXCEPT !.refused = ~written,
                                  !.pc = IF status = "success" /\ audited THEN "persist"
                                         ELSE "cleanup"])
   /\ UNCHANGED <<repository, container, target, orphans, whole, job>>

(* backupStore.Save and assetStore.Save; a failure is a warning.           *)
Persist(r) ==
   /\ run[r].pc = "persist"
   /\ job' \in {job, r}
   /\ To(r, "cleanup")
   /\ UNCHANGED <<repository, container, target, orphans, row, whole, faults>>

(* The deferred clean-up has a context of its own, which ends after a      *)
(* while. A failure is a warning.                                          *)
Cleanup(r) ==
   /\ run[r].pc = "cleanup"
   /\ \E kept \in {{}, run[r].clean}, left \in Leavable(r) :
         /\ Fault(kept # {} \/ left # {})
         /\ scratch' = [a \in Artifacts |->
                          IF a \in run[r].clean \ kept THEN Absent ELSE scratch[a]]
         /\ orphans' = orphans \union left
         /\ Set(r, [run[r] EXCEPT !.pc = "finalize", !.dirty = @ \/ kept # {}])
   /\ UNCHANGED <<repository, container, manifest, row, whole, job>>

(* The deferred finalize closes a row that is still running. A run that    *)
(* has none makes no further attempt.                                      *)
Finalize(r) ==
   /\ run[r].pc = "finalize"
   /\ IF run[r].aborted # "no" /\ run[r].tracked
      THEN \E written \in BOOLEAN :
              /\ Fault(~written)
              /\ row' = IF written THEN [row EXCEPT ![r] = run[r].aborted] ELSE row
              /\ Set(r, Ended([run[r] EXCEPT !.refused = ~written], "done"))
      ELSE Set(r, Ended(run[r], "done")) /\ UNCHANGED <<row, faults>>
   /\ UNCHANGED <<repository, container, target, orphans, whole, job>>

(* SIGINT or SIGTERM: the context ends.                                    *)
Interrupt(r) ==
   /\ Active(r) /\ ~run[r].interrupted
   /\ Fault(TRUE)
   /\ Set(r, [run[r] EXCEPT !.interrupted = TRUE])
   /\ UNCHANGED <<repository, container, target, orphans, row, whole, job>>

(* The process dies: no deferred function runs.                            *)
Kill(r) ==
   /\ Active(r)
   /\ Fault(TRUE)
   /\ \E left \in Leavable(r) : orphans' = orphans \union left
   /\ Set(r, Ended(run[r], "killed"))
   /\ UNCHANGED <<repository, container, target, row, whole, job>>

(* A command that goes on: it removes another file, opens, truncates or    *)
(* completes the one that it writes, or ends.                              *)
OrphanStep(o) ==
   /\ \/ /\ orphans' = orphans \ {o}
         /\ UNCHANGED target
      \/ /\ o.does = "remove"
         /\ \E a \in o.on : scratch' = [scratch EXCEPT ![a] = Absent]
         /\ UNCHANGED <<manifest, orphans>>
      \/ /\ o.does = "write"
         /\ \E a \in o.on, complete \in BOOLEAN :
               scratch' = [scratch EXCEPT ![a] = [by |-> o.by, whole |-> complete]]
         /\ UNCHANGED <<manifest, orphans>>
      \/ /\ o.does = "manifest"
         /\ manifest' = o.by
         /\ UNCHANGED <<scratch, orphans>>
   /\ UNCHANGED <<repository, container, row, run, whole, job, faults>>

RunStep(r) ==
   \/ Begin(r) \/ Inspect(r) \/ Confirm(r) \/ Sanitize(r)
   \/ Export(r) \/ HotDump(r) \/ WriteCompose(r)
   \/ WriteManifest(r) \/ Execute(r) \/ EndScript(r) \/ Persist(r)
   \/ Cleanup(r) \/ Finalize(r) \/ Interrupt(r) \/ Kill(r)

(* Other jobs use the repository at the same time.                         *)
OtherJobs == {JobOf[x] : x \in {y \in Scripts \ Runs : script[y] # "never"}} \ {App}

Others ==
   /\ \/ \E x \in Scripts \ Runs : StartScript(x) /\ UNCHANGED <<server, present,
                                       snapshots, taken, restored, moves>>
      \/ \E j \in OtherJobs : RestoreLatest(j)
      \/ \E j \in OtherJobs : Move(j)
   /\ UNCHANGED <<container, target, orphans, row, run, whole, job, faults>>

Finished == /\ \A r \in Runs : script[r] = "never" \/ run[r].pc \in {"done", "killed"}
            /\ \A x \in Scripts \ Runs : script[x] \in {"never", "success", "failed"}
            /\ UNCHANGED vars

Next == \/ \E r \in Runs : RunStep(r)
        \/ \E x \in Scripts : ScriptStep(x)
        \/ \E o \in orphans : OrphanStep(o)
        \/ Others
        \/ Finished

Spec == Init /\ [][Next]_vars

-----------------------------------------------------------------------------
(* A run that has returned has closed its row, unless the database refused *)
(* the write, and a row says success only of a script that succeeded       *)
(* (container_runner.go:126-142).                                          *)
RowsClosed ==
   \A r \in Runs : /\ run[r].pc = "done" /\ row[r] = "running" => run[r].refused
                   /\ row[r] = "success" => script[r] = "success"

(* What is reported as a success, or registered as a job, can be restored: *)
(* the snapshot holds this run's manifest and everything that it lists,    *)
(* whole and made by this run, whatever failed or was killed before it.    *)
(* Runs of one container share their files (container_runner.go:181-204    *)
(* and 256-268): a run is excepted that overlaps with another, or with a   *)
(* command that an earlier run, or its own removal of stale files, has     *)
(* left going on.                                                          *)
SnapshotWhole ==
   \A r \in Runs : run[r].alone /\ (row[r] = "success" \/ job = r) => whole[r]

(* A run that has returned leaves no dump on the target, and a success no  *)
(* archive either, unless their removal failed (container_runner.go:178)   *)
(* or the command that makes the dump went on without the run.             *)
ScratchCleared ==
   \A r \in Runs :
      run[r].pc = "done" /\ ~run[r].dirty =>
         /\ scratch[Dump].by # r
         /\ row[r] = "success" => \A a \in Artifacts : scratch[a].by # r

(* A run that has returned says in its row what it did, and leaves nothing *)
(* of the application's data lying about on the target.                    *)
RunsEndClean == RowsClosed /\ ScratchCleared
=============================================================================
