------------------------- MODULE RestoreRunnerProofs -------------------------
(***************************************************************************)
(* The properties of RestoreRunner for every set of invocations and every  *)
(* choice of their requests.  They follow from one inductive invariant: of *)
(* each invocation, what its target has seen, what its row says, and what  *)
(* the operator has been told, at each point of RestoreRunner.Run.         *)
(***************************************************************************)
EXTENDS RestoreRunner, SequenceTheorems, TLAPS

Record == [id : Nat, status : Statuses, stage : Stages]
TableRow == [run : Runs, status : Statuses, stage : Stages]
StepStatuses == {"success", "failed", "skipped", "blocked", "manual"}
Package == {"volumes", "compose", "database"}
Post == Scripts \ {"files"}

(* What the probe may report.                                              *)
Found(r) == {"none", req[r].manifest}

(* Everything but conn: how far a call has got to its target changes none  *)
(* of what the invariant says.                                             *)
Recorded == <<req, pc, ctx, did, imported, rec, steps, untracked, err, audit, restore_runs>>

(* The request is one of its own, the row too. *)
OwnRow(r) ==
    /\ req[r] \in RequestsOf[r]
    /\ rec[r].id # 0 => rec[r].id \in DOMAIN restore_runs /\ restore_runs[rec[r].id].run = r

(* What the target has seen, whatever has become of the invocation.        *)
TargetOK(r) ==
    /\ (\E s \in Post : Touched(r, s)) =>
         did[r].files = "done" /\ ~req[r].dryRun /\ StartsServices(r)
    /\ (\E s \in Package : Touched(r, s)) => req[r].manifest = "match"
    /\ Touched(r, "autostart") => req[r].policy = "start"
    /\ Touched(r, "compose") => imported[r] = req[r].volumes
    /\ Touched(r, "database") => did[r].compose = "done"
    /\ Touched(r, "files") /\ rec[r].id = 0 => untracked[r] /\ req[r].allow

NothingPost(r) ==
    /\ \A s \in Post : ~Touched(r, s)
    /\ imported[r] = 0
    /\ \A k \in ContainerSteps : steps[r][k] = "skipped"

Fresh(r) == NothingPost(r) /\ ~Touched(r, "files") /\ steps[r].files = "skipped"

NoError(r) == err[r] = "nil" /\ rec[r].stage = ""

(* The invocation has no row and is not known to lack one. *)
Unopened(r) ==
    /\ rec[r].id = 0 /\ rec[r].status = "running" /\ rec[r].stage = ""
    /\ ~untracked[r] /\ audit[r] = "none" /\ Fresh(r)

(* The row is there, or the operator accepted that it is not. *)
Opened(r) ==
    /\ rec[r].status = "running" /\ audit[r] = "none"
    /\ IF rec[r].id = 0 THEN untracked[r] /\ req[r].allow
                        ELSE ~untracked[r] /\ RowStatus(r) = "running"

Restored(r) ==
    /\ did[r].files = "done" /\ steps[r].files = "success"
    /\ ~req[r].dryRun /\ StartsServices(r)

VolumesTold(r) ==
    /\ imported[r] = req[r].volumes
    /\ IF req[r].volumes = 0 THEN steps[r].volumes = "skipped" /\ ~Touched(r, "volumes")
                             ELSE steps[r].volumes = "success"

(* The steps as they are when the restore has ended, with the error that   *)
(* belongs to them.                                                        *)
StepsTold(r) ==
    /\ steps[r].files = "success" => did[r].files = "done"
    /\ steps[r].volumes = "success" => imported[r] = req[r].volumes /\ imported[r] > 0
    /\ steps[r].database = "success" => did[r].database = "done"
    /\ steps[r].compose = "success" => "done" \in {did[r].compose, did[r].autostart}
    /\ steps[r].volumes = "skipped" => imported[r] = 0 /\ ~Touched(r, "volumes")
    /\ steps[r].database \in {"skipped", "manual"} => ~Touched(r, "database")
    /\ steps[r].compose = "skipped" => ~Touched(r, "compose") /\ ~Touched(r, "autostart")
    /\ (\E k \in ContainerSteps : steps[r][k] = "blocked") => err[r] # "nil"

Told(r) ==
    /\ StepsTold(r)
    /\ err[r] \in {"nil", "failed", "canceled"}
    /\ err[r] = "canceled" => ctx[r]
    /\ err[r] = "nil" <=> rec[r].stage = ""
    /\ rec[r].stage = "" =>
         did[r].files = "done" /\ \A k \in Steps : steps[r][k] \notin {"failed", "blocked"}
    /\ rec[r].stage = "validation" => \A s \in Scripts : ~Touched(r, s)
    /\ rec[r].stage = "post_restore" =>
         /\ did[r].files = "done" /\ steps[r].files = "success" /\ ~req[r].dryRun
         /\ \E k \in Steps : steps[r][k] \in {"failed", "blocked"}

(* The row holds the outcome, or what is joined to the error says why not. *)
Ended(r) ==
    /\ rec[r].status = Outcome(r)
    /\ IF rec[r].id = 0
       THEN /\ untracked[r] /\ req[r].allow
            /\ err[r] = "nil" => audit[r] = "untracked"
       ELSE \/ RowStatus(r) = Outcome(r) /\ audit[r] = "none" /\ ~untracked[r]
            \/ RowStatus(r) = "running" /\ audit[r] # "none"

Stage(r) ==
    /\ pc[r] \in {"idle", "record"} => Unopened(r) /\ err[r] = "nil"
    /\ pc[r] \in InFlight \ {"record"} => Opened(r)
    /\ pc[r] \in InFlight \ {"record", "final"} => NoError(r)
    /\ pc[r] = "validate" => Fresh(r)
    /\ pc[r] = "files" => NothingPost(r) /\ steps[r].files = "skipped"
    /\ pc[r] \in Post \cup {"probe", "preflight"} => Restored(r)
    /\ pc[r] \in {"probe", "preflight"} => NothingPost(r)
    /\ pc[r] \in Package \cup {"preflight"} => req[r].manifest = "match"
    /\ pc[r] \in Package => ~Touched(r, "autostart")
    /\ pc[r] = "autostart" =>
         /\ req[r].policy = "start" /\ imported[r] = 0
         /\ \A s \in Package : ~Touched(r, s)
         /\ \A k \in ContainerSteps : steps[r][k] = "skipped"
    /\ pc[r] = "volumes" =>
         /\ imported[r] < req[r].volumes
         /\ ~Touched(r, "compose") /\ ~Touched(r, "database")
         /\ \A k \in ContainerSteps : steps[r][k] = "skipped"
    /\ pc[r] = "compose" =>
         /\ VolumesTold(r) /\ ~Touched(r, "database")
         /\ steps[r].compose = "skipped" /\ steps[r].database = "skipped"
    /\ pc[r] = "database" =>
         /\ VolumesTold(r) /\ did[r].compose = "done"
         /\ steps[r].compose = "success" /\ steps[r].database = "skipped"
    /\ pc[r] = "final" => Told(r)
    /\ pc[r] = "returned" =>
         \/ Unopened(r) /\ err[r] = "refused"
         \/ Told(r) /\ Ended(r)
    /\ pc[r] = "crashed" =>
         \/ Unopened(r)
         \/ Opened(r) /\ (rec[r].stage = "validation" => \A s \in Scripts : ~Touched(r, s))

RunOK(r) == OwnRow(r) /\ TargetOK(r) /\ Stage(r)

IInv == RecordsTypeOK /\ \A r \in Runs : RunOK(r)

-----------------------------------------------------------------------------
(* What the invariant says is what the operator is promised. *)
LEMMA Guarded == IInv => ServicesGuarded
<1> SUFFICES ASSUME IInv PROVE ServicesGuarded
  OBVIOUS
<1>1. ASSUME NEW r \in Runs
      PROVE  /\ (\E s \in Scripts \ {"files"} : Touched(r, s)) => did[r].files = "done"
             /\ Touched(r, "compose") => imported[r] = req[r].volumes
             /\ Touched(r, "database") => did[r].compose = "done"
  BY DEF IInv, RunOK, TargetOK, Post
<1>2. ASSUME NEW r \in Runs
      PROVE  /\ (\/ req[r].dryRun \/ req[r].policy = "no-start"
                 \/ req[r].policy = "auto" /\ (~req[r].cross \/ req[r].manifest # "match"))
                => \A s \in Scripts \ {"files"} : ~Touched(r, s)
             /\ req[r].manifest # "match" =>
                  \A s \in {"volumes", "compose", "database"} : ~Touched(r, s)
  <2>1. /\ (\E s \in Post : Touched(r, s)) => ~req[r].dryRun /\ StartsServices(r)
        /\ (\E s \in Package : Touched(r, s)) => req[r].manifest = "match"
        /\ Touched(r, "autostart") => req[r].policy = "start"
    BY DEF IInv, RunOK, TargetOK
  <2>2. Post = Package \cup {"autostart"}
    BY DEF Post, Package, Scripts
  <2> QED
    BY <2>1, <2>2 DEF StartsServices, Post, Package
<1> QED
  BY <1>1, <1>2, Zenon DEF ServicesGuarded, StepsOrdered, ServicesUntouched

(* The aggregate of an ended restore, case by case. *)
LEMMA OutcomeTold ==
    ASSUME IInv, NEW r \in Runs, Told(r)
    PROVE  /\ Outcome(r) \in {"success", "partial", "failed", "canceled", "dry-run"}
           /\ Outcome(r) = "success" =>
                /\ did[r].files = "done" /\ rec[r].stage = ""
                /\ \A k \in Steps : steps[r][k] \notin {"failed", "blocked"}
           /\ Outcome(r) = "dry-run" => did[r].files = "done" /\ rec[r].stage = ""
           /\ Outcome(r) = "partial" => did[r].files = "done" /\ err[r] # "nil"
           /\ Outcome(r) = "canceled" => ctx[r]
           /\ err[r] = "nil" => Outcome(r) \in {"success", "dry-run"}
<1>1. rec[r].stage \in Stages
  BY DEF IInv, RecordsTypeOK
<1>2. CASE rec[r].stage \in {"validation", "execution"}
  BY <1>2 DEF Outcome, Told
<1>3. CASE rec[r].stage = ""
  BY <1>3 DEF Outcome, Told, AggregateStatus, Steps
<1>4. CASE rec[r].stage = "post_restore"
  BY <1>4 DEF Outcome, Told, AggregateStatus, Steps
<1> QED
  BY <1>1, <1>2, <1>3, <1>4 DEF Stages

LEMMA Honest == IInv => AnswerHonest
<1> SUFFICES ASSUME IInv PROVE AnswerHonest
  OBVIOUS
<1>1. ASSUME NEW r \in Runs, pc[r] = "returned" PROVE StepsTold(r)
  <2>1. CASE Unopened(r) /\ err[r] = "refused"
    BY <2>1 DEF Unopened, Fresh, NothingPost, StepsTold, ContainerSteps, Post, Scripts
  <2>2. CASE Told(r)
    BY <2>2 DEF Told
  <2> QED
    BY <1>1, <2>1, <2>2 DEF IInv, RunOK, Stage
<1>2. StepsHonest
  BY <1>1 DEF StepsHonest, StepsTold
<1>3. ASSUME NEW r \in Runs
      PROVE  \/ RowStatus(r) \in {"none", "running"}
             \/ pc[r] = "returned" /\ Told(r) /\ Ended(r) /\ RowStatus(r) = Outcome(r)
  <2>1. pc[r] \in InFlight \cup {"idle", "returned", "crashed"} /\ Stage(r)
    BY DEF IInv, RecordsTypeOK, RunOK
  <2>2. Unopened(r) \/ Opened(r) \/ Ended(r) => RowStatus(r) \in {"none", "running", Outcome(r)}
    BY DEF Unopened, Opened, Ended, RowStatus
  <2>3. Unopened(r) \/ Opened(r) => RowStatus(r) \in {"none", "running"}
    BY DEF Unopened, Opened, RowStatus
  <2>4. CASE pc[r] # "returned"
    BY <2>1, <2>3, <2>4 DEF Stage, InFlight, ReadOnly
  <2>5. CASE pc[r] = "returned"
    BY <2>1, <2>2, <2>3, <2>5 DEF Stage
  <2> QED
    BY <2>4, <2>5
<1>4. ASSUME NEW r \in Runs, rec[r].stage = "validation"
      PROVE  \A s \in Scripts : ~Touched(r, s)
  <2>1. pc[r] \in InFlight \cup {"idle", "returned", "crashed"} /\ Stage(r)
    BY DEF IInv, RecordsTypeOK, RunOK
  <2>2. ~Unopened(r) /\ ~NoError(r)
    BY <1>4 DEF Unopened, NoError
  <2> QED
    BY <1>4, <2>1, <2>2 DEF Stage, InFlight, ReadOnly, Told
<1>5. StatusTruthful
  BY <1>3, <1>4, OutcomeTold, Zenon DEF StatusTruthful
<1>6. GapsReported
  <2>1. ASSUME NEW r \in Runs, RowStatus(r) = "none", Touched(r, "files")
        PROVE  untracked[r] /\ req[r].allow
    <3>1. CASE rec[r].id = 0
      BY <2>1, <3>1 DEF IInv, RunOK, TargetOK
    <3>2. CASE rec[r].id # 0
      <4>1. restore_runs \in Seq(TableRow) /\ rec[r].id \in DOMAIN restore_runs
        BY <3>2 DEF IInv, RecordsTypeOK, RunOK, OwnRow, TableRow
      <4>2. restore_runs[rec[r].id] \in TableRow
        BY <4>1, LenProperties, ElementOfSeq
      <4> QED
        BY <2>1, <3>2, <4>2 DEF RowStatus, TableRow, Statuses
    <3> QED
      BY <3>1, <3>2
  <2>2. ASSUME NEW r \in Runs, pc[r] = "returned"
        PROVE  /\ err[r] = "nil" /\ audit[r] = "none" => RowStatus(r) \in {"success", "dry-run"}
               /\ RowStatus(r) = "running" => audit[r] # "none"
    <3>1. CASE Unopened(r) /\ err[r] = "refused"
      BY <3>1 DEF Unopened, RowStatus
    <3>2. CASE Told(r) /\ Ended(r)
      BY <3>2, OutcomeTold DEF Ended, RowStatus
    <3> QED
      BY <2>2, <3>1, <3>2 DEF IInv, RunOK, Stage
  <2> QED
    BY <2>1, <2>2 DEF GapsReported
<1> QED
  BY <1>2, <1>5, <1>6 DEF AnswerHonest

-----------------------------------------------------------------------------
(* The invariant holds at the start, and a step of one invocation leaves   *)
(* the others alone.                                                       *)
LEMMA InitInv == Init => IInv
<1> SUFFICES ASSUME Init PROVE IInv
  OBVIOUS
<1>1. ASSUME NEW r \in Runs PROVE req[r] \in RequestsOf[r] /\ req[r] \in Request
  <2>1. req[r] \in RequestsOf[r]
    BY DEF Init
  <2>2. RequestsOf[r] \in SUBSET Request
    BY RestoreAssumption
  <2> QED
    BY <2>1, <2>2
<1>2. req \in [Runs -> Request]
  <2>1. req \in [Runs -> UNION {RequestsOf[r] : r \in Runs}]
    BY DEF Init
  <2> QED
    BY <1>1, <2>1
<1>3. /\ pc \in [Runs -> InFlight \cup {"idle", "returned", "crashed"}]
      /\ ctx \in [Runs -> BOOLEAN] /\ untracked \in [Runs -> BOOLEAN]
      /\ err \in [Runs -> {"nil", "refused", "failed", "canceled"}]
      /\ audit \in [Runs -> {"none", "untracked", "failed"}]
  BY DEF Init
<1>8. imported \in [Runs -> 0 .. MaxVolumes]
  <2>1. 0 \in 0 .. MaxVolumes
    BY RestoreAssumption
  <2> QED
    BY <2>1 DEF Init
<1>9. did \in [Runs -> [Scripts -> {"none", "running", "done", "broken"}]]
  <2>1. [s \in Scripts |-> "none"] \in [Scripts -> {"none", "running", "done", "broken"}]
    OBVIOUS
  <2> QED
    BY <2>1 DEF Init
<1>4. /\ rec \in [Runs -> [id : Nat, status : Statuses, stage : Stages]]
      /\ steps \in [Runs -> [Steps -> {"success", "failed", "skipped", "blocked", "manual"}]]
  BY DEF Init, Statuses, Stages
<1>5. restore_runs \in Seq([run : Runs, status : Statuses, stage : Stages])
  BY EmptySeq DEF Init
<1>6. RecordsTypeOK
  BY <1>2, <1>3, <1>4, <1>5, <1>8, <1>9 DEF RecordsTypeOK
<1>7. ASSUME NEW r \in Runs PROVE RunOK(r)
  <2>1. \A s \in Scripts : ~Touched(r, s)
    BY DEF Init, Touched
  <2>2. \A k \in Steps : steps[r][k] = "skipped"
    BY DEF Init
  <2>3. Unopened(r) /\ err[r] = "nil" /\ pc[r] = "idle"
    BY <2>1, <2>2 DEF Init, Unopened, Fresh, NothingPost, Post, Scripts, Steps, ContainerSteps
  <2>4. OwnRow(r) /\ TargetOK(r)
    BY <1>1, <2>1, <2>3 DEF OwnRow, TargetOK, Unopened, Post, Package, Scripts
  <2> QED
    BY <2>3, <2>4 DEF RunOK, Stage, InFlight, ReadOnly, Post, Package, Scripts
<1> QED
  BY <1>6, <1>7 DEF IInv

(* Nothing of q changes. *)
Same(q) ==
    /\ pc'[q] = pc[q] /\ ctx'[q] = ctx[q] /\ did'[q] = did[q] /\ imported'[q] = imported[q]
    /\ rec'[q] = rec[q] /\ steps'[q] = steps[q] /\ untracked'[q] = untracked[q]
    /\ err'[q] = err[q] /\ audit'[q] = audit[q]
    /\ OwnRow(q)' /\ RowStatus(q)' = RowStatus(q)

LEMMA Frame ==
    ASSUME req' = req, NEW q \in Runs, RunOK(q), Same(q)
    PROVE  RunOK(q)'
<1>1. \A s : Touched(q, s)' <=> Touched(q, s)
  BY DEF Same, Touched
<1>2. TargetOK(q)'
  BY <1>1 DEF RunOK, Same, TargetOK, Touched, StartsServices
<1>3. /\ NothingPost(q) => NothingPost(q)'
      /\ Fresh(q) => Fresh(q)'
      /\ Restored(q) => Restored(q)'
      /\ VolumesTold(q) => VolumesTold(q)'
      /\ NoError(q) => NoError(q)'
      /\ Opened(q) => Opened(q)'
  BY DEF Same, NothingPost, Fresh, Restored, VolumesTold, NoError, Opened, Touched, StartsServices
<1>4. Unopened(q) => Unopened(q)'
  BY <1>3 DEF Same, Unopened
<1>5. Told(q) => Told(q)'
  <2>1. StepsTold(q)' <=> StepsTold(q)
    BY <1>1 DEF Same, StepsTold
  <2> QED
    BY <1>1, <2>1 DEF Same, Told
<1>6. Outcome(q)' = Outcome(q)
  BY DEF Same, Outcome
<1>7. Ended(q) => Ended(q)'
  BY <1>6 DEF Same, Ended
<1>8. Stage(q)'
  BY <1>1, <1>3, <1>4, <1>5, <1>7 DEF RunOK, Same, Stage
<1> QED
  BY <1>2, <1>8 DEF RunOK, Same

(* A step of r that leaves the table alone. *)
LEMMA LocalStep ==
    ASSUME IInv, req' = req, restore_runs' = restore_runs, NEW r \in Runs,
           rec'[r].id = rec[r].id, RecordsTypeOK',
           \A q \in Runs \ {r} :
              /\ pc'[q] = pc[q] /\ ctx'[q] = ctx[q] /\ did'[q] = did[q]
              /\ imported'[q] = imported[q] /\ rec'[q] = rec[q] /\ steps'[q] = steps[q]
              /\ untracked'[q] = untracked[q] /\ err'[q] = err[q] /\ audit'[q] = audit[q],
           TargetOK(r)', Stage(r)'
    PROVE  IInv'
<1>1. \A q \in Runs : OwnRow(q)'
  BY DEF IInv, RunOK, OwnRow
<1>2. \A q \in Runs \ {r} : Same(q)
  BY <1>1 DEF Same, RowStatus
<1>3. \A q \in Runs \ {r} : RunOK(q)'
  BY <1>2, Frame DEF IInv
<1>4. RunOK(r)'
  BY <1>1 DEF RunOK
<1> QED
  BY <1>3, <1>4 DEF IInv

(* What Report and Fail assign. *)
LEMMA ReportStep ==
    ASSUME RecordsTypeOK, NEW r \in Runs, NEW step \in Steps, NEW status \in StepStatuses,
           NEW blocked \in SUBSET Steps, Report(r, step, status, blocked)
    PROVE  /\ steps' \in [Runs -> [Steps -> StepStatuses]]
           /\ \A q \in Runs \ {r} : steps'[q] = steps[q]
           /\ steps'[r][step] = status
           /\ \A k \in Steps \ {step} :
                 steps'[r][k] = IF k \in blocked THEN "blocked" ELSE steps[r][k]
<1> DEFINE new == [k \in Steps |-> IF k = step THEN status
                                   ELSE IF k \in blocked THEN "blocked" ELSE steps[r][k]]
<1>1. steps' = [steps EXCEPT ![r] = new] /\ steps \in [Runs -> [Steps -> StepStatuses]]
  BY DEF Report, RecordsTypeOK, StepStatuses
<1>2. new \in [Steps -> StepStatuses]
  BY <1>1 DEF StepStatuses
<1>3. /\ new[step] = status
      /\ \A k \in Steps \ {step} : new[k] = IF k \in blocked THEN "blocked" ELSE steps[r][k]
  OBVIOUS
<1> HIDE DEF new
<1> QED
  BY <1>1, <1>2, <1>3

LEMMA FailStep ==
    ASSUME RecordsTypeOK, NEW r \in Runs, NEW stage \in Stages, NEW e \in {"failed", "canceled"},
           Fail(r, stage, e)
    PROVE  /\ err' \in [Runs -> {"nil", "refused", "failed", "canceled"}]
           /\ rec' \in [Runs -> Record]
           /\ pc' \in [Runs -> InFlight \cup {"idle", "returned", "crashed"}]
           /\ \A q \in Runs \ {r} : err'[q] = err[q] /\ rec'[q] = rec[q] /\ pc'[q] = pc[q]
           /\ err'[r] = e /\ pc'[r] = "final"
           /\ rec'[r].stage = stage /\ rec'[r].id = rec[r].id /\ rec'[r].status = rec[r].status
<1> DEFINE new == [rec[r] EXCEPT !.stage = stage]
<1>1. rec \in [Runs -> Record] /\ rec' = [rec EXCEPT ![r] = new]
  BY DEF Fail, RecordsTypeOK, Record
<1>2. new \in Record /\ new.stage = stage /\ new.id = rec[r].id /\ new.status = rec[r].status
  BY <1>1 DEF Record
<1> HIDE DEF new
<1>3. /\ rec' \in [Runs -> Record] /\ rec'[r] = new
      /\ \A q \in Runs \ {r} : rec'[q] = rec[q]
  BY <1>1, <1>2
<1>4. /\ err' \in [Runs -> {"nil", "refused", "failed", "canceled"}]
      /\ pc' \in [Runs -> InFlight \cup {"idle", "returned", "crashed"}]
      /\ \A q \in Runs \ {r} : err'[q] = err[q] /\ pc'[q] = pc[q]
      /\ err'[r] = e /\ pc'[r] = "final"
  BY DEF Fail, Goto, RecordsTypeOK, InFlight, ReadOnly
<1> QED
  BY <1>2, <1>3, <1>4

LEMMA GotoStep ==
    ASSUME RecordsTypeOK, NEW r \in Runs, NEW p \in InFlight \cup {"returned", "crashed"}, Goto(r, p)
    PROVE  /\ pc' \in [Runs -> InFlight \cup {"idle", "returned", "crashed"}]
           /\ pc'[r] = p /\ \A q \in Runs \ {r} : pc'[q] = pc[q]
BY DEF Goto, RecordsTypeOK

(* A restore that dies: the steps after the one that failed are blocked.   *)
LEMMA DiesStep ==
    ASSUME IInv, NEW r \in Runs, pc[r] \in InFlight \ {"record", "final"},
           UNCHANGED <<req, ctx, did, untracked, audit, imported, restore_runs>>,
           NEW step \in Steps, NEW status \in {"failed", "blocked"},
           NEW blocked \in SUBSET ContainerSteps,
           Report(r, step, status, blocked),
           NEW stage \in {"validation", "execution", "post_restore"},
           NEW e \in {"failed", "canceled"}, e = "canceled" => ctx[r],
           Fail(r, stage, e),
           stage = "validation" => \A s \in Scripts : ~Touched(r, s),
           stage = "post_restore" => Restored(r) /\ step # "files",
           StepsTold(r)'
    PROVE  IInv'
<1>1. RecordsTypeOK /\ status \in StepStatuses /\ stage \in Stages /\ blocked \in SUBSET Steps
  BY DEF IInv, StepStatuses, Stages, Steps
<1>2. /\ steps' \in [Runs -> [Steps -> StepStatuses]]
      /\ \A q \in Runs \ {r} : steps'[q] = steps[q]
      /\ steps'[r][step] = status
      /\ \A k \in Steps \ {step} :
            steps'[r][k] = IF k \in blocked THEN "blocked" ELSE steps[r][k]
  BY <1>1, ReportStep
<1>3. /\ err' \in [Runs -> {"nil", "refused", "failed", "canceled"}]
      /\ rec' \in [Runs -> Record]
      /\ pc' \in [Runs -> InFlight \cup {"idle", "returned", "crashed"}]
      /\ \A q \in Runs \ {r} : err'[q] = err[q] /\ rec'[q] = rec[q] /\ pc'[q] = pc[q]
      /\ err'[r] = e /\ pc'[r] = "final"
      /\ rec'[r].stage = stage /\ rec'[r].id = rec[r].id /\ rec'[r].status = rec[r].status
  BY <1>1, FailStep
<1>4. RecordsTypeOK'
  BY <1>1, <1>2, <1>3 DEF RecordsTypeOK, StepStatuses, Record
<1>5. TargetOK(r)'
  BY <1>3 DEF IInv, RunOK, TargetOK, Touched, StartsServices
<1>6. Opened(r)'
  <2>1. Opened(r)
    BY DEF IInv, RunOK, Stage
  <2> QED
    BY <1>3, <2>1 DEF Opened, RowStatus
<1>7. Told(r)'
  <2>1. stage = "validation" => \A s \in Scripts : ~Touched(r, s)'
    BY DEF Touched
  <2>2. stage = "post_restore" =>
           /\ did'[r].files = "done" /\ steps'[r].files = "success" /\ ~req'[r].dryRun
           /\ \E k \in Steps : steps'[r][k] \in {"failed", "blocked"}
    BY <1>2 DEF Restored, Steps, ContainerSteps
  <2>3. e # "nil" /\ stage # "" /\ (e = "canceled" => ctx'[r])
    OBVIOUS
  <2> QED
    BY <1>3, <2>1, <2>2, <2>3 DEF Told
<1>8. Stage(r)'
  BY <1>3, <1>6, <1>7 DEF Stage, InFlight, ReadOnly, Post, Package, Scripts
<1> QED
  BY <1>2, <1>3, <1>4, <1>5, <1>8, LocalStep

(* A restore that goes on to p, with the steps as they are reported.       *)
LEMMA GoesOn ==
    ASSUME IInv, NEW r \in Runs, pc[r] \in InFlight \ {"record", "final"},
           UNCHANGED <<req, ctx, untracked, audit, rec, err, restore_runs>>,
           NEW p \in InFlight \ {"record"}, Goto(r, p),
           RecordsTypeOK',
           \A q \in Runs \ {r} :
              did'[q] = did[q] /\ imported'[q] = imported[q] /\ steps'[q] = steps[q],
           TargetOK(r)',
           pc'[r] = p /\ Opened(r)' /\ NoError(r)' => Stage(r)'
    PROVE  IInv'
<1>1. /\ pc'[r] = p /\ \A q \in Runs \ {r} : pc'[q] = pc[q]
  BY GotoStep DEF IInv
<1>2. Opened(r) /\ NoError(r)
  BY DEF IInv, RunOK, Stage
<1>3. Opened(r)' /\ NoError(r)'
  BY <1>2 DEF Opened, NoError, RowStatus
<1> QED
  BY <1>1, <1>3, LocalStep

-----------------------------------------------------------------------------
(* The steps of the invocation, from the record to the restored files. *)

LEMMA StartStep ==
    ASSUME IInv, NEW r \in Runs, Start(r) PROVE IInv'
<1>1. RecordsTypeOK /\ RunOK(r) /\ pc[r] = "idle" /\ "record" \in InFlight
  BY DEF IInv, Start, InFlight, ReadOnly
<1>2. /\ UNCHANGED <<req, ctx, did, imported, rec, steps, untracked, err, audit, restore_runs>>
      /\ Goto(r, "record")
  BY DEF Start
<1>3. /\ pc' \in [Runs -> InFlight \cup {"idle", "returned", "crashed"}]
      /\ pc'[r] = "record" /\ \A q \in Runs \ {r} : pc'[q] = pc[q]
  BY <1>1, <1>2, GotoStep
<1>4. RecordsTypeOK'
  BY <1>1, <1>2, <1>3 DEF RecordsTypeOK
<1>5. TargetOK(r)'
  BY <1>1, <1>2 DEF RunOK, TargetOK, Touched, StartsServices
<1>6. Unopened(r)'
  BY <1>1, <1>2 DEF RunOK, Stage, Unopened, Fresh, NothingPost, Touched
<1>7. err'[r] = "nil"
  BY <1>1, <1>2 DEF RunOK, Stage
<1>8. Stage(r)'
  BY <1>3, <1>6, <1>7 DEF Stage, InFlight, ReadOnly, Post, Package, Scripts
<1> QED
  BY <1>2, <1>3, <1>4, <1>5, <1>8, LocalStep

(* The INSERT gives r the next id, which no other invocation has.          *)
LEMMA CreateRunStep ==
    ASSUME IInv, NEW r \in Runs, CreateRun(r)
    PROVE  /\ IInv' /\ Unopened(r) /\ err[r] = "nil"
           /\ \A q \in Runs \ {r} : Same(q)
           /\ pc'[r] = "validate" /\ did'[r] = did[r] /\ untracked'[r] = untracked[r]
           /\ audit'[r] = audit[r] /\ RowStatus(r)' = "running"
<1> DEFINE n == Len(restore_runs) + 1
           row == [run |-> r, status |-> "running", stage |-> ""]
<1>1. RecordsTypeOK /\ RunOK(r) /\ Unopened(r) /\ err[r] = "nil" /\ "validate" \in InFlight
  BY DEF IInv, RunOK, Stage, CreateRun, InFlight, ReadOnly
<1>2. /\ restore_runs' = Append(restore_runs, row)
      /\ rec' = [rec EXCEPT ![r] = [rec[r] EXCEPT !.id = n]]
      /\ UNCHANGED <<req, ctx, did, imported, steps, untracked, err, audit>>
      /\ Goto(r, "validate")
  BY DEF CreateRun
<1>3. row \in TableRow /\ restore_runs \in Seq(TableRow)
  BY <1>1 DEF TableRow, Statuses, Stages, RecordsTypeOK
<1> HIDE DEF row
<1>4. /\ restore_runs' \in Seq(TableRow) /\ n \in Nat \ {0}
      /\ DOMAIN restore_runs = 1 .. (n - 1) /\ DOMAIN restore_runs' = 1 .. n
      /\ \A i \in 1 .. (n - 1) : restore_runs'[i] = restore_runs[i]
      /\ restore_runs'[n] = row
  <2>1. Append(restore_runs, row) \in Seq(TableRow) /\ Len(Append(restore_runs, row)) = n
    BY <1>3, AppendProperties
  <2>2. Len(restore_runs) \in Nat /\ DOMAIN restore_runs = 1 .. Len(restore_runs)
        /\ DOMAIN restore_runs' = 1 .. n
    BY <1>2, <1>3, <2>1, LenProperties
  <2>3. /\ \A i \in 1 .. Len(restore_runs) : restore_runs'[i] = restore_runs[i]
        /\ restore_runs'[n] = row
    BY <1>2, <1>3, <2>2, AppendProperties
  <2> QED
    BY <1>2, <2>1, <2>2, <2>3
<1> HIDE DEF n
<1>5. /\ rec' \in [Runs -> Record] /\ \A q \in Runs \ {r} : rec'[q] = rec[q]
      /\ rec'[r].id = n /\ rec'[r].status = "running" /\ rec'[r].stage = ""
  <2> DEFINE new == [rec[r] EXCEPT !.id = n]
  <2>1. rec \in [Runs -> Record]
    BY <1>1 DEF RecordsTypeOK, Record
  <2>2. new \in Record /\ new.id = n /\ new.status = "running" /\ new.stage = ""
    BY <1>1, <1>4, <2>1 DEF Record, Unopened
  <2> HIDE DEF new
  <2>3. rec' = [rec EXCEPT ![r] = new]
    BY <1>2 DEF new
  <2> QED
    BY <2>1, <2>2, <2>3
<1>6. /\ pc' \in [Runs -> InFlight \cup {"idle", "returned", "crashed"}]
      /\ pc'[r] = "validate" /\ \A q \in Runs \ {r} : pc'[q] = pc[q]
  BY <1>1, <1>2, GotoStep
<1>7. RecordsTypeOK'
  BY <1>1, <1>2, <1>4, <1>5, <1>6 DEF RecordsTypeOK, Record, TableRow
<1>8. ASSUME NEW q \in Runs \ {r} PROVE RunOK(q)' /\ Same(q)
  <2>1. RunOK(q) /\ OwnRow(q)
    BY DEF IInv, RunOK
  <2>2. rec[q].id # 0 => restore_runs'[rec[q].id] = restore_runs[rec[q].id]
                         /\ rec[q].id \in DOMAIN restore_runs'
    BY <1>4, <2>1 DEF OwnRow
  <2>3. OwnRow(q)' /\ RowStatus(q)' = RowStatus(q)
    BY <1>2, <1>5, <2>1, <2>2 DEF OwnRow, RowStatus
  <2>4. Same(q)
    BY <1>2, <1>5, <1>6, <2>3 DEF Same
  <2> QED
    BY <1>2, <2>1, <2>4, Frame
<1>9. OwnRow(r)' /\ RowStatus(r)' = "running"
  <2>1. /\ rec'[r].id = n /\ n # 0 /\ n \in DOMAIN restore_runs'
        /\ restore_runs'[n].run = r /\ restore_runs'[n].status = "running"
    <3>1. n # 0 /\ n \in 1 .. n
      BY <1>4
    <3>2. row.run = r /\ row.status = "running"
      BY DEF row
    <3> QED
      BY <1>4, <1>5, <3>1, <3>2
  <2>2. req'[r] \in RequestsOf[r]
    BY <1>1, <1>2 DEF RunOK, OwnRow
  <2> QED
    BY <2>1, <2>2 DEF OwnRow, RowStatus
<1>10. Fresh(r)' /\ NoError(r)' /\ Opened(r)'
  BY <1>1, <1>2, <1>4, <1>5, <1>9 DEF Unopened, Fresh, NothingPost, Touched, NoError, Opened
<1>11. TargetOK(r)'
  BY <1>10 DEF Fresh, NothingPost, TargetOK, Package, Post, Scripts
<1>12. Stage(r)'
  BY <1>6, <1>10 DEF Stage, InFlight, ReadOnly, Post, Package, Scripts
<1> QED
  BY <1>1, <1>2, <1>6, <1>7, <1>8, <1>9, <1>11, <1>12 DEF IInv, RunOK

LEMMA CreateRunFailsStep ==
    ASSUME IInv, NEW r \in Runs, CreateRunRefused(r) \/ CreateRunUntracked(r) PROVE IInv'
<1>1. /\ RecordsTypeOK /\ RunOK(r) /\ Unopened(r) /\ err[r] = "nil"
      /\ UNCHANGED <<req, ctx, did, imported, rec, steps, audit, restore_runs>>
  BY DEF IInv, RunOK, Stage, CreateRunRefused, CreateRunUntracked
<1>2. Fresh(r)'
  BY <1>1 DEF Unopened, Fresh, NothingPost, Touched
<1>3. TargetOK(r)'
  BY <1>2 DEF Fresh, NothingPost, TargetOK, Package, Post, Scripts
<1>4. CASE CreateRunRefused(r)
  <2>1. /\ err' = [err EXCEPT ![r] = "refused"] /\ UNCHANGED untracked
        /\ Goto(r, "returned")
    BY <1>4 DEF CreateRunRefused
  <2>2. /\ pc' \in [Runs -> InFlight \cup {"idle", "returned", "crashed"}]
        /\ pc'[r] = "returned" /\ \A q \in Runs \ {r} : pc'[q] = pc[q]
    BY <1>1, <2>1, GotoStep
  <2>3. err'[r] = "refused" /\ \A q \in Runs \ {r} : err'[q] = err[q]
    BY <1>1, <2>1 DEF RecordsTypeOK
  <2>4. RecordsTypeOK'
    BY <1>1, <2>1, <2>2 DEF RecordsTypeOK
  <2>5. Unopened(r)'
    BY <1>1, <1>2, <2>1 DEF Unopened
  <2>6. Stage(r)'
    BY <2>2, <2>3, <2>5 DEF Stage, InFlight, ReadOnly, Post, Package, Scripts
  <2> QED
    BY <1>1, <1>3, <2>1, <2>2, <2>3, <2>4, <2>6, LocalStep
<1>5. CASE CreateRunUntracked(r)
  <2>1. /\ untracked' = [untracked EXCEPT ![r] = TRUE] /\ UNCHANGED err
        /\ Goto(r, "validate") /\ req[r].allow /\ "validate" \in InFlight
    BY <1>5 DEF CreateRunUntracked, InFlight, ReadOnly
  <2>2. /\ pc' \in [Runs -> InFlight \cup {"idle", "returned", "crashed"}]
        /\ pc'[r] = "validate" /\ \A q \in Runs \ {r} : pc'[q] = pc[q]
    BY <1>1, <2>1, GotoStep
  <2>3. untracked'[r] /\ \A q \in Runs \ {r} : untracked'[q] = untracked[q]
    BY <1>1, <2>1 DEF RecordsTypeOK
  <2>4. RecordsTypeOK'
    BY <1>1, <2>1, <2>2 DEF RecordsTypeOK
  <2>5. Opened(r)' /\ NoError(r)'
    BY <1>1, <2>1, <2>3 DEF Unopened, Opened, NoError
  <2>6. Stage(r)'
    BY <1>2, <2>2, <2>5 DEF Stage, InFlight, ReadOnly, Post, Package, Scripts
  <2> QED
    BY <1>1, <1>3, <2>1, <2>2, <2>3, <2>4, <2>6, LocalStep
<1> QED
  BY <1>4, <1>5

LEMMA ValidateStep ==
    ASSUME IInv, NEW r \in Runs, Validated(r) \/ ValidationFails(r) PROVE IInv'
<1>1. /\ RecordsTypeOK /\ RunOK(r) /\ pc[r] = "validate" /\ Fresh(r)
      /\ UNCHANGED <<req, ctx, did, imported, untracked, audit, restore_runs>>
  BY DEF IInv, RunOK, Stage, Validated, ValidationFails
<1>2. \A s \in Scripts : ~Touched(r, s) /\ ~Touched(r, s)'
  BY <1>1 DEF Fresh, NothingPost, Post, Touched
<1>3. pc[r] \in InFlight \ {"record", "final"} /\ "files" \in InFlight \ {"record"}
  BY <1>1 DEF InFlight, ReadOnly, Scripts
<1>4. CASE Validated(r)
  <2>1. UNCHANGED <<rec, err, steps>> /\ Goto(r, "files")
    BY <1>4 DEF Validated
  <2>2. RecordsTypeOK'
    BY <1>1, <1>3, <2>1, GotoStep DEF RecordsTypeOK
  <2>3. TargetOK(r)'
    BY <1>2 DEF TargetOK, Package, Post, Scripts
  <2>4. NothingPost(r)' /\ steps'[r].files = "skipped"
    BY <1>1, <1>2, <2>1 DEF Fresh, NothingPost, Post
  <2>5. pc'[r] = "files" /\ Opened(r)' /\ NoError(r)' => Stage(r)'
    BY <2>4 DEF Stage, InFlight, ReadOnly, Post, Package, Scripts
  <2> QED
    BY <1>1, <1>3, <2>1, <2>2, <2>3, <2>5, GoesOn
<1>5. CASE ValidationFails(r)
  <2>1. PICK e \in {"failed", "canceled"} : Fail(r, "validation", e) /\ (e = "canceled" => ctx[r])
    BY <1>5 DEF ValidationFails
  <2>2. Report(r, "files", "failed", ContainerSteps) /\ "files" \in Steps
    BY <1>5 DEF ValidationFails, Steps
  <2>3. /\ steps'[r].files = "failed" /\ \A k \in ContainerSteps : steps'[r][k] = "blocked"
        /\ err'[r] = e
    <3>1. /\ "failed" \in StepStatuses /\ "validation" \in Stages
          /\ ContainerSteps \subseteq Steps \ {"files"}
      BY DEF Steps, ContainerSteps, StepStatuses, Stages
    <3>2. err'[r] = e
      BY <1>1, <2>1, <3>1, FailStep
    <3>3. /\ steps'[r].files = "failed"
          /\ \A k \in Steps \ {"files"} :
                steps'[r][k] = IF k \in ContainerSteps THEN "blocked" ELSE steps[r][k]
      BY <1>1, <2>2, <3>1, ReportStep
    <3> QED
      BY <3>1, <3>2, <3>3
  <2>4. StepsTold(r)'
    BY <2>3 DEF StepsTold, ContainerSteps
  <2> QED
    BY <1>1, <1>2, <1>3, <2>1, <2>2, <2>4, DiesStep
<1> QED
  BY <1>4, <1>5

-----------------------------------------------------------------------------
(* The processes on the target. *)
LEMMA DidStep ==
    ASSUME RecordsTypeOK, NEW r \in Runs, NEW s \in Scripts,
           NEW w \in {"none", "running", "done", "broken"},
           did' = [did EXCEPT ![r][s] = w]
    PROVE  /\ did' \in [Runs -> [Scripts -> {"none", "running", "done", "broken"}]]
           /\ did'[r][s] = w /\ \A x \in Scripts \ {s} : did'[r][x] = did[r][x]
           /\ \A q \in Runs \ {r} : did'[q] = did[q]
BY DEF RecordsTypeOK

LEMMA LaunchStep ==
    ASSUME IInv, NEW r \in Runs, Launch(r) PROVE IInv'
<1> DEFINE s == pc[r]
<1>1. /\ RecordsTypeOK /\ TargetOK(r) /\ Stage(r) /\ s \in Scripts /\ did[r][s] = "none"
      /\ did' = [did EXCEPT ![r][s] = "running"]
      /\ UNCHANGED <<req, pc, ctx, imported, rec, steps, untracked, err, audit, restore_runs>>
  BY DEF IInv, RunOK, Launch
<1> HIDE DEF s
<1>2. /\ did' \in [Runs -> [Scripts -> {"none", "running", "done", "broken"}]]
      /\ did'[r][s] = "running" /\ \A x \in Scripts \ {s} : did'[r][x] = did[r][x]
      /\ \A q \in Runs \ {r} : did'[q] = did[q]
  BY <1>1, DidStep
<1>3. RecordsTypeOK'
  BY <1>1, <1>2 DEF RecordsTypeOK
<1>4. Opened(r) /\ NoError(r) /\ Opened(r)' /\ NoError(r)'
  BY <1>1 DEF Stage, InFlight, ReadOnly, Scripts, s, Opened, NoError, RowStatus
<1>5. \A x \in Scripts \ {s} : (Touched(r, x)' <=> Touched(r, x))
  BY <1>2 DEF Touched
<1>6. \A x \in Scripts : did[r][x] = "done" => did'[r][x] = "done"
  BY <1>1, <1>2
<1>7. CASE s = "files"
  <2>1. NothingPost(r) /\ steps[r].files = "skipped"
    BY <1>1, <1>7 DEF Stage, s
  <2>2. NothingPost(r)' /\ steps'[r].files = "skipped"
    BY <1>1, <1>5, <1>7, <2>1 DEF NothingPost, Post
  <2>3. TargetOK(r)'
    BY <1>1, <1>4, <2>2 DEF TargetOK, Opened, NothingPost, Package, Post, Scripts
  <2>4. pc'[r] = "files"
    BY <1>1, <1>7 DEF s
  <2>5. Stage(r)'
    BY <1>4, <2>2, <2>4 DEF Stage, InFlight, ReadOnly, Post, Package, Scripts
  <2> QED
    BY <1>1, <1>2, <1>3, <2>3, <2>5, LocalStep
<1>8. CASE s \in Post
  <2>1. Restored(r) /\ Restored(r)'
    BY <1>1, <1>6, <1>8 DEF Stage, Restored, StartsServices, Scripts, s
  <2>2. /\ s \in Package => req[r].manifest = "match" /\ ~Touched(r, "autostart")
        /\ s = "autostart" => req[r].policy = "start" /\ \A x \in Package : ~Touched(r, x)
        /\ s = "volumes" => ~Touched(r, "compose") /\ ~Touched(r, "database")
        /\ s = "compose" => imported[r] = req[r].volumes /\ ~Touched(r, "database")
        /\ s = "database" => did[r].compose = "done"
    BY <1>1, <1>8 DEF Stage, VolumesTold, s
  <2>3. TargetOK(r)'
    <3>1. /\ (\E x \in Package : Touched(r, x)') => req'[r].manifest = "match"
          /\ Touched(r, "autostart")' => req'[r].policy = "start"
      BY <1>1, <1>5, <2>2 DEF TargetOK, Package, Scripts
    <3>2. /\ Touched(r, "compose")' => imported'[r] = req'[r].volumes
          /\ Touched(r, "database")' => did'[r].compose = "done"
      BY <1>1, <1>5, <1>6, <2>2 DEF TargetOK, Scripts
    <3>3. Touched(r, "files")' /\ rec'[r].id = 0 => untracked'[r] /\ req'[r].allow
      BY <1>4 DEF Opened
    <3> QED
      BY <2>1, <3>1, <3>2, <3>3 DEF TargetOK, Restored
  <2>4. VolumesTold(r) /\ s # "volumes" => VolumesTold(r)'
    BY <1>1, <1>5 DEF VolumesTold, Scripts
  <2>5. Stage(r)'
    <3>1. pc'[r] = s /\ pc[r] = s
      BY <1>1 DEF s
    <3>2. CASE s = "autostart"
      BY <1>1, <1>4, <1>5, <2>1, <3>1, <3>2 DEF Stage, InFlight, ReadOnly, Post, Package, Scripts
    <3>3. CASE s = "volumes"
      BY <1>1, <1>4, <1>5, <2>1, <3>1, <3>3 DEF Stage, InFlight, ReadOnly, Post, Package, Scripts
    <3>4. CASE s = "compose"
      BY <1>1, <1>4, <1>5, <2>1, <2>4, <3>1, <3>4 DEF Stage, InFlight, ReadOnly, Post, Package, Scripts
    <3>5. CASE s = "database"
      BY <1>1, <1>4, <1>5, <1>6, <2>1, <2>4, <3>1, <3>5
         DEF Stage, InFlight, ReadOnly, Post, Package, Scripts
    <3> QED
      BY <1>8, <3>2, <3>3, <3>4, <3>5 DEF Post, Scripts
  <2> QED
    BY <1>1, <1>2, <1>3, <2>3, <2>5, LocalStep
<1> QED
  BY <1>1, <1>7, <1>8 DEF Post

(* What was touched stays touched and what is done stays done; the context *)
(* stays canceled.                                                         *)
LEMMA TargetMoves ==
    ASSUME IInv, NEW r \in Runs,
           UNCHANGED <<req, pc, imported, rec, steps, untracked, err, audit, restore_runs>>,
           RecordsTypeOK',
           \A q \in Runs \ {r} : ctx'[q] = ctx[q] /\ did'[q] = did[q],
           ctx[r] => ctx'[r],
           \A x \in Scripts : Touched(r, x)' <=> Touched(r, x),
           \A x \in Scripts : did[r][x] = "done" => did'[r][x] = "done"
    PROVE  IInv'
<1>1. TargetOK(r) /\ Stage(r)
  BY DEF IInv, RunOK
<1>2. TargetOK(r)'
  BY <1>1 DEF TargetOK, StartsServices, Package, Post, Scripts
<1>3. /\ NothingPost(r) => NothingPost(r)'
      /\ Fresh(r) => Fresh(r)'
      /\ Restored(r) => Restored(r)'
      /\ VolumesTold(r) => VolumesTold(r)'
      /\ NoError(r) => NoError(r)'
      /\ Opened(r) => Opened(r)'
  BY DEF NothingPost, Fresh, Restored, VolumesTold, NoError, Opened, StartsServices, RowStatus,
         Post, Scripts
<1>4. Unopened(r) => Unopened(r)'
  BY <1>3 DEF Unopened
<1>5. StepsTold(r) => StepsTold(r)'
  BY DEF StepsTold, Scripts
<1>6. Told(r) => Told(r)'
  BY <1>5 DEF Told, Scripts
<1>7. Ended(r) => Ended(r)'
  BY DEF Ended, Outcome, RowStatus
<1>8. Stage(r)'
  <2>1. /\ \A x \in Scripts : Touched(r, x)' <=> Touched(r, x)
        /\ did[r].compose = "done" => did'[r].compose = "done"
        /\ "autostart" \in Scripts /\ "compose" \in Scripts /\ "database" \in Scripts
        /\ Package \subseteq Scripts
    BY DEF Scripts, Package
  <2> QED
    BY <1>1, <1>3, <1>4, <1>6, <1>7, <2>1 DEF Stage
<1> QED
  BY <1>2, <1>8, LocalStep

LEMMA RemoteEndsStep ==
    ASSUME IInv, NEW r \in Runs, NEW s \in Scripts, RemoteEnds(r, s) PROVE IInv'
<1>1. PICK w \in {"done", "broken"} : did' = [did EXCEPT ![r][s] = w]
  BY DEF RemoteEnds
<1>2. /\ RecordsTypeOK /\ did[r][s] = "running"
      /\ UNCHANGED <<req, pc, ctx, imported, rec, steps, untracked, err, audit, restore_runs>>
  BY DEF IInv, RemoteEnds
<1>3. /\ did' \in [Runs -> [Scripts -> {"none", "running", "done", "broken"}]]
      /\ did'[r][s] = w /\ \A x \in Scripts \ {s} : did'[r][x] = did[r][x]
      /\ \A q \in Runs \ {r} : did'[q] = did[q]
  <2>1. w \in {"none", "running", "done", "broken"}
    OBVIOUS
  <2> QED
    BY <1>1, <1>2, <2>1 DEF RecordsTypeOK
<1>4. RecordsTypeOK'
  BY <1>2, <1>3 DEF RecordsTypeOK
<1>5. /\ \A x \in Scripts : Touched(r, x)' <=> Touched(r, x)
      /\ \A x \in Scripts : did[r][x] = "done" => did'[r][x] = "done"
  BY <1>2, <1>3 DEF Touched
<1> QED
  BY <1>2, <1>3, <1>4, <1>5, TargetMoves

LEMMA CancelStep ==
    ASSUME IInv, NEW r \in Runs, Cancel(r) PROVE IInv'
<1>1. /\ RecordsTypeOK /\ ctx' = [ctx EXCEPT ![r] = TRUE]
      /\ UNCHANGED <<req, pc, did, imported, rec, steps, untracked, err, audit, restore_runs>>
  BY DEF IInv, Cancel
<1>2. RecordsTypeOK' /\ ctx'[r] /\ \A q \in Runs \ {r} : ctx'[q] = ctx[q]
  BY <1>1 DEF RecordsTypeOK
<1>3. \A x \in Scripts : Touched(r, x)' <=> Touched(r, x)
  BY <1>1 DEF Touched
<1> QED
  BY <1>1, <1>2, <1>3, TargetMoves

LEMMA CrashStep ==
    ASSUME IInv, NEW r \in Runs, Crash(r) PROVE IInv'
<1>1. /\ RecordsTypeOK /\ TargetOK(r) /\ Stage(r) /\ pc[r] \in InFlight /\ Goto(r, "crashed")
      /\ UNCHANGED <<req, ctx, did, imported, rec, steps, untracked, err, audit, restore_runs>>
  BY DEF IInv, RunOK, Crash
<1>2. /\ pc' \in [Runs -> InFlight \cup {"idle", "returned", "crashed"}]
      /\ pc'[r] = "crashed" /\ \A q \in Runs \ {r} : pc'[q] = pc[q]
  BY <1>1, GotoStep
<1>3. RecordsTypeOK'
  BY <1>1, <1>2 DEF RecordsTypeOK
<1>4. TargetOK(r)'
  BY <1>1 DEF TargetOK, Touched, StartsServices
<1>5. \/ Unopened(r)
      \/ Opened(r) /\ (rec[r].stage = "validation" => \A s \in Scripts : ~Touched(r, s))
  BY <1>1 DEF Stage, Told, NoError
<1>6. \/ Unopened(r)'
      \/ Opened(r)' /\ (rec'[r].stage = "validation" => \A s \in Scripts : ~Touched(r, s)')
  BY <1>1, <1>5 DEF Unopened, Fresh, NothingPost, Opened, Touched, RowStatus
<1>7. Stage(r)'
  BY <1>2, <1>6 DEF Stage, InFlight, ReadOnly, Post, Package, Scripts
<1> QED
  BY <1>1, <1>2, <1>3, <1>4, <1>7, LocalStep

-----------------------------------------------------------------------------
(* What a script returned, and where the restore goes then. *)
Answers == {"nil", "failed", "missing", "canceled"}

(* A nil error is a process that ended well, and only a canceled context   *)
(* gives "canceled".                                                       *)
Answered(r, e) ==
    /\ pc[r] \in Scripts
    /\ e = "nil" => did[r][pc[r]] = "done"
    /\ e = "canceled" => ctx[r]

LEMMA FilesStep ==
    ASSUME IInv, NEW r \in Runs, NEW e \in Answers, Answered(r, e), FilesReturned(r, e)
    PROVE  IInv'
<1>1. /\ RecordsTypeOK /\ TargetOK(r) /\ Stage(r) /\ pc[r] = "files"
      /\ UNCHANGED <<req, ctx, did, imported, untracked, audit, restore_runs>>
  BY DEF IInv, RunOK, FilesReturned
<1>2. NothingPost(r) /\ steps[r].files = "skipped"
  BY <1>1 DEF Stage
<1>3. \A x : Touched(r, x)' <=> Touched(r, x)
  BY <1>1 DEF Touched
<1>4. /\ "files" \in Steps /\ {"success", "failed"} \subseteq StepStatuses
      /\ ContainerSteps \subseteq Steps \ {"files"} /\ "execution" \in Stages
      /\ pc[r] \in InFlight \ {"record", "final"}
  BY <1>1 DEF Steps, StepStatuses, ContainerSteps, Stages, InFlight, ReadOnly, Scripts
<1>5. CASE e = "nil"
  <2> DEFINE p == IF ~req[r].dryRun /\ StartsServices(r) THEN "probe" ELSE "final"
  <2>1. Report(r, "files", "success", {}) /\ Goto(r, p) /\ UNCHANGED <<rec, err>>
    BY <1>5 DEF FilesReturned
  <2>2. p \in InFlight \ {"record"}
    BY DEF InFlight, ReadOnly
  <2>3. p = "probe" => ~req[r].dryRun /\ StartsServices(r)
    OBVIOUS
  <2>4. p \in {"probe", "final"}
    OBVIOUS
  <2> HIDE DEF p
  <2>5. {} \in SUBSET Steps /\ "success" \in StepStatuses
    BY <1>4
  <2>6. /\ steps' \in [Runs -> [Steps -> StepStatuses]]
        /\ \A q \in Runs \ {r} : steps'[q] = steps[q]
        /\ steps'[r].files = "success"
        /\ \A k \in Steps \ {"files"} : steps'[r][k] = IF k \in {} THEN "blocked" ELSE steps[r][k]
    BY <1>1, <1>4, <2>1, <2>5, ReportStep
  <2>7. RecordsTypeOK'
    BY <1>1, <2>1, <2>2, <2>6, GotoStep DEF RecordsTypeOK, StepStatuses
  <2>8. did'[r].files = "done" /\ did[r].files = "done"
    BY <1>1, <1>5 DEF Answered
  <2>9. TargetOK(r)'
    BY <1>1, <1>3, <2>1 DEF TargetOK, StartsServices
  <2>10. NothingPost(r)'
    BY <1>1, <1>2, <1>3, <1>4, <2>6 DEF NothingPost
  <2>11. p = "probe" => Restored(r)'
    BY <1>1, <2>3, <2>6, <2>8 DEF Restored, StartsServices
  <2>12. NoError(r)' => Told(r)'
    BY <1>1, <2>6, <2>8, <2>10
       DEF NoError, Told, StepsTold, NothingPost, ContainerSteps, Steps, Post, Scripts
  <2>13. pc'[r] = p /\ Opened(r)' /\ NoError(r)' => Stage(r)'
    BY <2>4, <2>10, <2>11, <2>12 DEF Stage, InFlight, ReadOnly, Post, Package, Scripts
  <2> QED
    BY <1>1, <1>4, <2>1, <2>2, <2>6, <2>7, <2>9, <2>13, GoesOn
<1>6. CASE e # "nil"
  <2> DEFINE d == Kind(e)
  <2>1. Report(r, "files", "failed", ContainerSteps) /\ Fail(r, "execution", d)
    BY <1>6 DEF FilesReturned
  <2>2. d \in {"failed", "canceled"} /\ (d = "canceled" => ctx[r])
    BY <1>6 DEF Kind, Answers, Answered
  <2> HIDE DEF d
  <2>3. err'[r] = d
    BY <1>1, <1>4, <2>1, <2>2, FailStep
  <2>4. /\ steps'[r].files = "failed"
        /\ \A k \in Steps \ {"files"} :
              steps'[r][k] = IF k \in ContainerSteps THEN "blocked" ELSE steps[r][k]
    <3>1. ContainerSteps \in SUBSET Steps /\ "failed" \in StepStatuses
      BY <1>4
    <3> QED
      BY <1>1, <1>4, <2>1, <3>1, ReportStep
  <2>5. StepsTold(r)'
    BY <1>4, <2>2, <2>3, <2>4 DEF StepsTold, ContainerSteps
  <2> QED
    BY <1>1, <1>4, <2>1, <2>2, <2>5, DiesStep
<1> QED
  BY <1>5, <1>6

(* A container step that fails: its status, and what it blocks.            *)
LEMMA StepFailsStep ==
    ASSUME IInv, NEW r \in Runs, NEW e \in Answers, Answered(r, e), e # "nil",
           pc[r] \in Post, NEW step \in ContainerSteps, NEW blocked \in SUBSET ContainerSteps,
           UNCHANGED <<req, ctx, did, imported, untracked, audit, restore_runs>>,
           Report(r, step, StepStatus(e), blocked),
           NEW d \in {"failed", "canceled"}, d = "canceled" => ctx[r],
           Fail(r, "post_restore", d),
           \A k \in ContainerSteps \ ({step} \cup blocked) :
              /\ steps[r][k] = "skipped" => ~Touched(r, k) /\ (k = "volumes" => imported[r] = 0)
              /\ steps[r][k] = "skipped" /\ k = "compose" => ~Touched(r, "autostart")
              /\ steps[r][k] = "success" =>
                    /\ k = "volumes" => imported[r] = req[r].volumes /\ imported[r] > 0
                    /\ k # "volumes" => did[r][k] = "done"
              /\ steps[r][k] # "manual" /\ steps[r][k] # "blocked"
    PROVE  IInv'
<1>1. /\ RecordsTypeOK /\ Stage(r) /\ Restored(r)
      /\ pc[r] \in InFlight \ {"record", "final"}
  BY DEF IInv, RunOK, Stage, Post, InFlight, ReadOnly, Scripts
<1> DEFINE st == StepStatus(e)
<1>2. st \in {"failed", "blocked"} /\ st \in StepStatuses
  BY DEF StepStatus, StepStatuses
<1> HIDE DEF st
<1>3. /\ step \in Steps /\ step # "files" /\ blocked \in SUBSET Steps
      /\ "post_restore" \in Stages /\ ContainerSteps = Steps \ {"files"}
  BY DEF Steps, ContainerSteps, Stages
<1>4. err'[r] = d
  BY <1>1, <1>3, FailStep
<1>5. Report(r, step, st, blocked)
  BY DEF st
<1>6. /\ steps'[r][step] = st
      /\ \A k \in Steps \ {step} :
            steps'[r][k] = IF k \in blocked THEN "blocked" ELSE steps[r][k]
  BY <1>1, <1>2, <1>3, <1>5, ReportStep
<1>7. \A k \in ContainerSteps :
         /\ steps'[r][k] = "skipped" => ~Touched(r, k)' /\ (k = "volumes" => imported'[r] = 0)
         /\ steps'[r][k] = "skipped" /\ k = "compose" => ~Touched(r, "autostart")'
         /\ steps'[r][k] = "success" =>
               /\ k = "volumes" => imported'[r] = req'[r].volumes /\ imported'[r] > 0
               /\ k # "volumes" => did'[r][k] = "done"
         /\ steps'[r][k] # "manual"
  BY <1>2, <1>3, <1>6 DEF Touched
<1>8. steps'[r].files = "success" /\ did'[r].files = "done"
  BY <1>1, <1>3, <1>6 DEF Restored, Steps, ContainerSteps
<1>9. StepsTold(r)'
  BY <1>4, <1>7, <1>8 DEF StepsTold, ContainerSteps
<1> QED
  BY <1>1, <1>2, <1>3, <1>5, <1>9, DiesStep

LEMMA VolumeStep ==
    ASSUME IInv, NEW r \in Runs, NEW e \in Answers, Answered(r, e), VolumeReturned(r, e)
    PROVE  IInv'
<1>1. /\ RecordsTypeOK /\ TargetOK(r) /\ Stage(r) /\ pc[r] = "volumes"
      /\ UNCHANGED <<req, ctx, untracked, audit, restore_runs>>
      /\ pc[r] \in Post /\ pc[r] \in InFlight \ {"record", "final"} /\ "volumes" \in Scripts
  BY DEF IInv, RunOK, VolumeReturned, Post, InFlight, ReadOnly, Scripts
<1>2. /\ Opened(r) /\ NoError(r) /\ Restored(r) /\ req[r].manifest = "match"
      /\ imported[r] < req[r].volumes
      /\ ~Touched(r, "compose") /\ ~Touched(r, "database") /\ ~Touched(r, "autostart")
      /\ \A k \in ContainerSteps : steps[r][k] = "skipped"
  BY <1>1 DEF Stage, InFlight, ReadOnly, Post, Package, Scripts
<1>3. /\ imported[r] \in Nat /\ req[r].volumes \in 0 .. MaxVolumes /\ MaxVolumes \in Nat
  BY <1>1, RestoreAssumption DEF RecordsTypeOK, Request
<1>4. CASE e # "nil"
  <2>1. /\ Report(r, "volumes", StepStatus(e), {"database", "compose"})
        /\ Fail(r, "post_restore", "failed") /\ UNCHANGED <<did, imported>>
    BY <1>4 DEF VolumeReturned
  <2>2. "volumes" \in ContainerSteps /\ {"database", "compose"} \in SUBSET ContainerSteps
        /\ ContainerSteps \ ({"volumes"} \cup {"database", "compose"}) = {}
    BY DEF ContainerSteps
  <2> QED
    BY <1>1, <1>4, <2>1, <2>2, StepFailsStep
<1>5. CASE e = "nil"
  <2>1. imported' = [imported EXCEPT ![r] = imported[r] + 1] /\ UNCHANGED <<rec, err>>
    BY <1>5 DEF VolumeReturned
  <2>2. /\ imported' \in [Runs -> 0 .. MaxVolumes] /\ imported'[r] = imported[r] + 1
        /\ \A q \in Runs \ {r} : imported'[q] = imported[q]
    BY <1>1, <1>2, <1>3, <2>1 DEF RecordsTypeOK
  <2>3. Opened(r)' /\ NoError(r)'
    BY <1>1, <1>2, <2>1 DEF Opened, NoError, RowStatus
  <2>4. CASE imported[r] + 1 < req[r].volumes
    <3>1. did' = [did EXCEPT ![r].volumes = "none"] /\ UNCHANGED <<pc, steps>>
      BY <1>5, <2>4 DEF VolumeReturned
    <3>2. /\ did' \in [Runs -> [Scripts -> {"none", "running", "done", "broken"}]]
          /\ did'[r]["volumes"] = "none"
          /\ \A x \in Scripts \ {"volumes"} : did'[r][x] = did[r][x]
          /\ \A q \in Runs \ {r} : did'[q] = did[q]
      BY <1>1, <3>1 DEF RecordsTypeOK
    <3>3. RecordsTypeOK'
      BY <1>1, <2>1, <2>2, <3>1, <3>2 DEF RecordsTypeOK
    <3>4. \A x \in Scripts \ {"volumes"} : Touched(r, x)' <=> Touched(r, x)
      BY <3>2 DEF Touched
    <3>5. ~Touched(r, "volumes")'
      BY <3>2 DEF Touched
    <3>6. Restored(r)'
      BY <1>1, <1>2, <3>1, <3>2 DEF Restored, StartsServices, Scripts
    <3>7. \A x \in Post : ~Touched(r, x)'
      BY <1>2, <3>4, <3>5 DEF Post, Scripts
    <3>8. TargetOK(r)'
      BY <2>3, <3>7 DEF TargetOK, Opened, Post, Package, Scripts
    <3>9. Stage(r)'
      BY <1>1, <1>2, <2>2, <2>3, <2>4, <3>1, <3>6, <3>7
         DEF Stage, InFlight, ReadOnly, Post, Package, Scripts
    <3> QED
      BY <1>1, <2>1, <2>2, <3>1, <3>2, <3>3, <3>8, <3>9, LocalStep
  <2>5. CASE ~(imported[r] + 1 < req[r].volumes)
    <3>1. Report(r, "volumes", "success", {}) /\ Goto(r, "compose") /\ UNCHANGED did
      BY <1>5, <2>5 DEF VolumeReturned
    <3>2. /\ "volumes" \in Steps /\ "success" \in StepStatuses /\ {} \in SUBSET Steps
          /\ "compose" \in InFlight \ {"record"}
      BY DEF Steps, ContainerSteps, StepStatuses, InFlight, ReadOnly, Scripts
    <3>3. /\ steps' \in [Runs -> [Steps -> StepStatuses]]
          /\ \A q \in Runs \ {r} : steps'[q] = steps[q]
          /\ steps'[r]["volumes"] = "success"
          /\ \A k \in Steps \ {"volumes"} :
                steps'[r][k] = IF k \in {} THEN "blocked" ELSE steps[r][k]
      BY <1>1, <3>1, <3>2, ReportStep
    <3>4. imported'[r] = req'[r].volumes /\ req'[r].volumes # 0
      BY <1>1, <1>2, <1>3, <2>2, <2>5
    <3>5. RecordsTypeOK'
      BY <1>1, <2>1, <2>2, <3>1, <3>2, <3>3, GotoStep DEF RecordsTypeOK, StepStatuses
    <3>6. \A x : Touched(r, x)' <=> Touched(r, x)
      BY <3>1 DEF Touched
    <3>7. TargetOK(r)'
      BY <1>1, <1>2, <2>1, <3>1, <3>6 DEF TargetOK, StartsServices
    <3>8. Restored(r)'
      BY <1>1, <1>2, <3>1, <3>3 DEF Restored, StartsServices, Steps, ContainerSteps
    <3>9. VolumesTold(r)' /\ steps'[r].compose = "skipped" /\ steps'[r].database = "skipped"
      BY <1>2, <3>3, <3>4 DEF VolumesTold, Steps, ContainerSteps
    <3>10. pc'[r] = "compose" /\ Opened(r)' /\ NoError(r)' => Stage(r)'
      BY <1>1, <1>2, <3>6, <3>8, <3>9 DEF Stage, InFlight, ReadOnly, Post, Package, Scripts
    <3> QED
      BY <1>1, <2>1, <2>2, <3>1, <3>2, <3>3, <3>5, <3>7, <3>10, GoesOn
  <2> QED
    BY <2>4, <2>5
<1> QED
  BY <1>4, <1>5

LEMMA ComposeStep ==
    ASSUME IInv, NEW r \in Runs, NEW e \in Answers, Answered(r, e), ComposeReturned(r, e)
    PROVE  IInv'
<1>1. /\ RecordsTypeOK /\ TargetOK(r) /\ Stage(r) /\ pc[r] = "compose"
      /\ UNCHANGED <<req, ctx, did, imported, untracked, audit, restore_runs>>
      /\ pc[r] \in Post /\ pc[r] \in InFlight \ {"record", "final"}
  BY DEF IInv, RunOK, ComposeReturned, Post, InFlight, ReadOnly, Scripts
<1>2. /\ Opened(r) /\ NoError(r) /\ Restored(r) /\ req[r].manifest = "match"
      /\ VolumesTold(r) /\ ~Touched(r, "database") /\ ~Touched(r, "autostart")
      /\ steps[r].compose = "skipped" /\ steps[r].database = "skipped"
  BY <1>1 DEF Stage, InFlight, ReadOnly, Post, Package, Scripts
<1>3. imported[r] \in Nat /\ req[r].volumes \in Nat
  BY <1>1, RestoreAssumption DEF RecordsTypeOK, Request
<1>4. CASE e # "nil"
  <2>1. /\ Report(r, "compose", StepStatus(e), {"database"})
        /\ Fail(r, "post_restore", "failed")
    BY <1>4 DEF ComposeReturned
  <2>2. "compose" \in ContainerSteps /\ {"database"} \in SUBSET ContainerSteps
        /\ ContainerSteps \ ({"compose"} \cup {"database"}) = {"volumes"}
    BY DEF ContainerSteps
  <2>3. /\ steps[r]["volumes"] = "skipped" => ~Touched(r, "volumes") /\ imported[r] = 0
        /\ steps[r]["volumes"] = "success" => imported[r] = req[r].volumes /\ imported[r] > 0
        /\ steps[r]["volumes"] # "manual" /\ steps[r]["volumes"] # "blocked"
    BY <1>2, <1>3 DEF VolumesTold
  <2> QED
    BY <1>1, <1>4, <2>1, <2>2, <2>3, StepFailsStep
<1>5. CASE e = "nil"
  <2> DEFINE d == IF req[r].database = "nodump" THEN "manual" ELSE "skipped"
             p == IF req[r].database = "dump" THEN "database" ELSE "final"
             new == [steps[r] EXCEPT !.compose = "success", !.database = d]
  <2>1. steps' = [steps EXCEPT ![r] = new] /\ Goto(r, p) /\ UNCHANGED <<rec, err>>
    BY <1>1, <1>2, <1>5 DEF ComposeReturned, RecordsTypeOK
  <2>2. p \in InFlight \ {"record"} /\ p \in {"database", "final"} /\ d \in {"manual", "skipped"}
        /\ d \in StepStatuses /\ "success" \in StepStatuses
    BY DEF InFlight, ReadOnly, Scripts, StepStatuses
  <2> HIDE DEF p, d
  <2>3. steps[r] \in [Steps -> StepStatuses]
    BY <1>1 DEF RecordsTypeOK, StepStatuses
  <2>4. /\ new \in [Steps -> StepStatuses] /\ new.compose = "success" /\ new.database = d
        /\ new.files = steps[r].files /\ new.volumes = steps[r].volumes
    BY <2>2, <2>3 DEF Steps, ContainerSteps
  <2> HIDE DEF new
  <2>5. /\ steps' \in [Runs -> [Steps -> StepStatuses]]
        /\ \A q \in Runs \ {r} : steps'[q] = steps[q]
        /\ steps'[r].compose = "success" /\ steps'[r].database = d
        /\ steps'[r].files = steps[r].files /\ steps'[r].volumes = steps[r].volumes
    BY <1>1, <2>1, <2>4 DEF RecordsTypeOK, StepStatuses
  <2>6. RecordsTypeOK'
    BY <1>1, <2>1, <2>2, <2>5, GotoStep DEF RecordsTypeOK, StepStatuses
  <2>7. \A x : Touched(r, x)' <=> Touched(r, x)
    BY <1>1 DEF Touched
  <2>8. TargetOK(r)'
    BY <1>1, <2>1, <2>7 DEF TargetOK, StartsServices
  <2>9. did'[r].compose = "done"
    BY <1>1, <1>5 DEF Answered
  <2>10. Restored(r)' /\ VolumesTold(r)'
    BY <1>1, <1>2, <2>5, <2>7 DEF Restored, StartsServices, VolumesTold
  <2>11. p = "database" => d = "skipped"
    BY DEF p, d
  <2>12. NoError(r)' => Told(r)'
    <3>1. StepsTold(r)'
      BY <1>1, <1>2, <1>3, <2>2, <2>5, <2>7, <2>9, <2>10
         DEF StepsTold, Restored, VolumesTold, ContainerSteps
    <3>2. \A k \in Steps : steps'[r][k] \notin {"failed", "blocked"}
      BY <2>2, <2>5, <2>10 DEF Restored, VolumesTold, Steps, ContainerSteps
    <3> QED
      BY <2>10, <3>1, <3>2 DEF NoError, Told, Restored
  <2>13. pc'[r] = p /\ Opened(r)' /\ NoError(r)' => Stage(r)'
    BY <1>1, <1>2, <2>2, <2>5, <2>7, <2>9, <2>10, <2>11, <2>12
       DEF Stage, InFlight, ReadOnly, Post, Package, Scripts
  <2> QED
    BY <1>1, <2>1, <2>2, <2>5, <2>6, <2>8, <2>13, GoesOn
<1> QED
  BY <1>4, <1>5

LEMMA DatabaseStep ==
    ASSUME IInv, NEW r \in Runs, NEW e \in Answers, Answered(r, e),
           LastReturned(r, "database", "database", e)
    PROVE  IInv'
<1>1. /\ RecordsTypeOK /\ TargetOK(r) /\ Stage(r) /\ pc[r] = "database"
      /\ UNCHANGED <<req, ctx, did, imported, untracked, audit, restore_runs>>
      /\ pc[r] \in Post /\ pc[r] \in InFlight \ {"record", "final"}
  BY DEF IInv, RunOK, LastReturned, Post, InFlight, ReadOnly, Scripts
<1>2. /\ Opened(r) /\ NoError(r) /\ Restored(r) /\ VolumesTold(r)
      /\ did[r].compose = "done"
      /\ steps[r].compose = "success" /\ steps[r].database = "skipped"
  BY <1>1 DEF Stage, InFlight, ReadOnly, Post, Package, Scripts
<1>3. imported[r] \in Nat /\ req[r].volumes \in Nat
  BY <1>1, RestoreAssumption DEF RecordsTypeOK, Request
<1>4. CASE e # "nil"
  <2> DEFINE d == Kind(e)
  <2>1. /\ Report(r, "database", StepStatus(e), {}) /\ Fail(r, "post_restore", d)
    BY <1>4 DEF LastReturned
  <2>2. d \in {"failed", "canceled"} /\ (d = "canceled" => ctx[r])
    BY <1>4 DEF Kind, Answers, Answered
  <2> HIDE DEF d
  <2>3. "database" \in ContainerSteps /\ {} \in SUBSET ContainerSteps
        /\ ContainerSteps \ ({"database"} \cup {}) = {"volumes", "compose"}
    BY DEF ContainerSteps
  <2>4. /\ steps[r]["volumes"] = "skipped" => ~Touched(r, "volumes") /\ imported[r] = 0
        /\ steps[r]["volumes"] = "success" => imported[r] = req[r].volumes /\ imported[r] > 0
        /\ steps[r]["volumes"] # "manual" /\ steps[r]["volumes"] # "blocked"
        /\ steps[r]["compose"] = "success" /\ did[r]["compose"] = "done"
    BY <1>2, <1>3 DEF VolumesTold
  <2> QED
    BY <1>1, <1>4, <2>1, <2>2, <2>3, <2>4, StepFailsStep
<1>5. CASE e = "nil"
  <2>1. Report(r, "database", "success", {}) /\ Goto(r, "final") /\ UNCHANGED <<rec, err>>
    BY <1>5 DEF LastReturned
  <2>2. /\ "database" \in Steps /\ "success" \in StepStatuses /\ {} \in SUBSET Steps
        /\ "final" \in InFlight \ {"record"}
    BY DEF Steps, ContainerSteps, StepStatuses, InFlight, ReadOnly
  <2>3. /\ steps' \in [Runs -> [Steps -> StepStatuses]]
        /\ \A q \in Runs \ {r} : steps'[q] = steps[q]
        /\ steps'[r]["database"] = "success"
        /\ \A k \in Steps \ {"database"} :
              steps'[r][k] = IF k \in {} THEN "blocked" ELSE steps[r][k]
    BY <1>1, <2>1, <2>2, ReportStep
  <2>4. RecordsTypeOK'
    BY <1>1, <2>1, <2>2, <2>3, GotoStep DEF RecordsTypeOK, StepStatuses
  <2>5. \A x : Touched(r, x)' <=> Touched(r, x)
    BY <1>1 DEF Touched
  <2>6. TargetOK(r)'
    BY <1>1, <2>1, <2>5 DEF TargetOK, StartsServices
  <2>7. did'[r].database = "done" /\ did'[r].compose = "done" /\ did'[r].files = "done"
    BY <1>1, <1>2, <1>5 DEF Answered, Restored
  <2>8. /\ steps'[r].files = "success" /\ steps'[r].compose = "success"
        /\ steps'[r].volumes = steps[r].volumes /\ VolumesTold(r)'
    BY <1>1, <1>2, <2>3, <2>5 DEF Restored, VolumesTold, Steps, ContainerSteps
  <2>9. NoError(r)' => Told(r)'
    <3>1. StepsTold(r)'
      BY <1>1, <1>3, <2>3, <2>7, <2>8 DEF StepsTold, VolumesTold, ContainerSteps
    <3>2. \A k \in Steps : steps'[r][k] \notin {"failed", "blocked"}
      BY <2>3, <2>8 DEF VolumesTold, Steps, ContainerSteps
    <3> QED
      BY <2>7, <3>1, <3>2 DEF NoError, Told
  <2>10. pc'[r] = "final" /\ Opened(r)' /\ NoError(r)' => Stage(r)'
    BY <2>9 DEF Stage, InFlight, ReadOnly, Post, Package, Scripts
  <2> QED
    BY <1>1, <2>1, <2>2, <2>3, <2>4, <2>6, <2>10, GoesOn
<1> QED
  BY <1>4, <1>5

(* startWithoutManifest, where no container step was tried before.         *)
LEMMA AutostartStep ==
    ASSUME IInv, NEW r \in Runs, NEW e \in Answers, Answered(r, e),
           LastReturned(r, "autostart", "compose", e)
    PROVE  IInv'
<1>1. /\ RecordsTypeOK /\ TargetOK(r) /\ Stage(r) /\ pc[r] = "autostart"
      /\ UNCHANGED <<req, ctx, did, imported, untracked, audit, restore_runs>>
      /\ pc[r] \in Post /\ pc[r] \in InFlight \ {"record", "final"}
  BY DEF IInv, RunOK, LastReturned, Post, InFlight, ReadOnly, Scripts
<1>2. /\ Opened(r) /\ NoError(r) /\ Restored(r) /\ imported[r] = 0
      /\ ~Touched(r, "volumes") /\ ~Touched(r, "compose") /\ ~Touched(r, "database")
      /\ steps[r]["volumes"] = "skipped" /\ steps[r]["database"] = "skipped"
  BY <1>1 DEF Stage, InFlight, ReadOnly, Post, Package, Scripts, ContainerSteps
<1>3. CASE e # "nil"
  <2> DEFINE d == Kind(e)
  <2>1. /\ Report(r, "compose", StepStatus(e), {}) /\ Fail(r, "post_restore", d)
    BY <1>3 DEF LastReturned
  <2>2. d \in {"failed", "canceled"} /\ (d = "canceled" => ctx[r])
    BY <1>3 DEF Kind, Answers, Answered
  <2> HIDE DEF d
  <2>3. "compose" \in ContainerSteps /\ {} \in SUBSET ContainerSteps
        /\ ContainerSteps \ ({"compose"} \cup {}) = {"volumes", "database"}
    BY DEF ContainerSteps
  <2> QED
    BY <1>1, <1>2, <1>3, <2>1, <2>2, <2>3, StepFailsStep
<1>4. CASE e = "nil"
  <2>1. Report(r, "compose", "success", {}) /\ Goto(r, "final") /\ UNCHANGED <<rec, err>>
    BY <1>4 DEF LastReturned
  <2>2. /\ "compose" \in Steps /\ "success" \in StepStatuses /\ {} \in SUBSET Steps
        /\ "final" \in InFlight \ {"record"}
    BY DEF Steps, ContainerSteps, StepStatuses, InFlight, ReadOnly
  <2>3. /\ steps' \in [Runs -> [Steps -> StepStatuses]]
        /\ \A q \in Runs \ {r} : steps'[q] = steps[q]
        /\ steps'[r]["compose"] = "success"
        /\ \A k \in Steps \ {"compose"} :
              steps'[r][k] = IF k \in {} THEN "blocked" ELSE steps[r][k]
    BY <1>1, <2>1, <2>2, ReportStep
  <2>4. RecordsTypeOK'
    BY <1>1, <2>1, <2>2, <2>3, GotoStep DEF RecordsTypeOK, StepStatuses
  <2>5. \A x : Touched(r, x)' <=> Touched(r, x)
    BY <1>1 DEF Touched
  <2>6. TargetOK(r)'
    BY <1>1, <2>1, <2>5 DEF TargetOK, StartsServices
  <2>7. did'[r].autostart = "done" /\ did'[r].files = "done"
    BY <1>1, <1>2, <1>4 DEF Answered, Restored
  <2>8. /\ steps'[r].files = "success"
        /\ steps'[r].volumes = "skipped" /\ steps'[r].database = "skipped"
    BY <1>2, <2>3 DEF Restored, Steps, ContainerSteps
  <2>9. NoError(r)' => Told(r)'
    <3>1. StepsTold(r)'
      BY <1>1, <1>2, <2>3, <2>5, <2>7, <2>8 DEF StepsTold, ContainerSteps
    <3>2. \A k \in Steps : steps'[r][k] \notin {"failed", "blocked"}
      BY <2>3, <2>8 DEF Steps, ContainerSteps
    <3> QED
      BY <2>7, <3>1, <3>2 DEF NoError, Told
  <2>10. pc'[r] = "final" /\ Opened(r)' /\ NoError(r)' => Stage(r)'
    BY <2>9 DEF Stage, InFlight, ReadOnly, Post, Package, Scripts
  <2> QED
    BY <1>1, <2>1, <2>2, <2>3, <2>4, <2>6, <2>10, GoesOn
<1> QED
  BY <1>3, <1>4

LEMMA ScriptStep ==
    ASSUME IInv, NEW r \in Runs,
           \/ pc[r] \in Scripts /\ \E e \in Answers : Returns(r, e) /\ ScriptReturned(r, e)
           \/ ConnectionLost(r)
    PROVE  IInv'
<1>1. PICK e \in Answers : Answered(r, e) /\ ScriptReturned(r, e)
  BY DEF ConnectionLost, Returns, Answers, Answered
<1> QED
  BY <1>1, FilesStep, VolumeStep, ComposeStep, DatabaseStep, AutostartStep DEF ScriptReturned

-----------------------------------------------------------------------------
(* The probe for a manifest and the preflight. *)
LEMMA ProbeStep ==
    ASSUME IInv, NEW r \in Runs, (\E found \in Found(r) : Probe(r, found)) \/ PreflightPasses(r)
    PROVE  IInv'
<1>1. /\ RecordsTypeOK /\ TargetOK(r) /\ Stage(r)
      /\ pc[r] \in {"probe", "preflight"} /\ pc[r] \in InFlight \ {"record", "final"}
      /\ UNCHANGED <<req, ctx, did, imported, rec, steps, untracked, err, audit, restore_runs>>
  BY DEF IInv, RunOK, Probe, PreflightPasses, InFlight, ReadOnly, Scripts
<1>2. Restored(r) /\ NothingPost(r)
  BY <1>1 DEF Stage, InFlight, ReadOnly, Post, Package, Scripts
<1>3. Restored(r)' /\ NothingPost(r)' /\ \A x : Touched(r, x)' <=> Touched(r, x)
  BY <1>1, <1>2 DEF Restored, NothingPost, StartsServices, Touched
<1>4. PICK p \in {"preflight", "autostart", "final", "volumes", "compose"} :
         /\ Goto(r, p)
         /\ p \in {"preflight", "volumes", "compose"} => req[r].manifest = "match"
         /\ p = "autostart" => req[r].policy = "start"
         /\ p = "volumes" => req[r].volumes # 0
         /\ p = "compose" => req[r].volumes = 0
  <2>1. CASE \E found \in Found(r) : Probe(r, found)
    BY <2>1 DEF Probe, Found
  <2>2. CASE PreflightPasses(r)
    BY <1>1, <2>2 DEF PreflightPasses, AfterPreflight, Stage
  <2> QED
    BY <2>1, <2>2
<1>5. p \in InFlight \ {"record"}
  BY DEF InFlight, ReadOnly, Scripts
<1>6. RecordsTypeOK'
  BY <1>1, <1>4, <1>5, GotoStep DEF RecordsTypeOK
<1>7. TargetOK(r)'
  BY <1>1, <1>3 DEF TargetOK, StartsServices
<1>8. req[r].volumes \in Nat /\ imported[r] = 0
  BY <1>1, <1>2, RestoreAssumption DEF RecordsTypeOK, Request, NothingPost
<1>9. NoError(r)' => Told(r)'
  BY <1>3 DEF NoError, Told, StepsTold, Restored, NothingPost, ContainerSteps, Steps, Post, Scripts
<1>10. p = "compose" => VolumesTold(r)'
  BY <1>1, <1>3, <1>4, <1>8 DEF VolumesTold, NothingPost, ContainerSteps, Post, Scripts
<1>11. pc'[r] = p /\ Opened(r)' /\ NoError(r)' => Stage(r)'
  <2> SUFFICES ASSUME pc'[r] = p, Opened(r)', NoError(r)' PROVE Stage(r)'
    OBVIOUS
  <2>1. CASE p \in {"preflight", "final"}
    BY <1>1, <1>3, <1>4, <1>9, <2>1 DEF Stage, InFlight, ReadOnly, Post, Package, Scripts
  <2>2. CASE p = "autostart"
    BY <1>1, <1>3, <1>4, <1>8, <2>2 DEF Stage, InFlight, ReadOnly, Post, Package, Scripts, NothingPost
  <2>3. CASE p = "volumes"
    BY <1>1, <1>3, <1>4, <1>8, <2>3 DEF Stage, InFlight, ReadOnly, Post, Package, Scripts, NothingPost
  <2>4. CASE p = "compose"
    BY <1>1, <1>3, <1>4, <1>10, <2>4
       DEF Stage, InFlight, ReadOnly, Post, Package, Scripts, NothingPost, ContainerSteps
  <2> QED
    BY <2>1, <2>2, <2>3, <2>4
<1> QED
  BY <1>1, <1>4, <1>5, <1>6, <1>7, <1>11, GoesOn

LEMMA PreflightStep ==
    ASSUME IInv, NEW r \in Runs, PreflightBlocks(r)
    PROVE  IInv'
<1>1. /\ RecordsTypeOK /\ Stage(r) /\ pc[r] = "preflight"
      /\ UNCHANGED <<req, ctx, did, imported, untracked, audit, restore_runs>>
      /\ Report(r, "volumes", "blocked", ContainerSteps) /\ Fail(r, "post_restore", "failed")
  BY DEF IInv, RunOK, PreflightBlocks
<1>2. Restored(r)
  BY <1>1 DEF Stage
<1>3. /\ pc[r] \in InFlight \ {"record", "final"} /\ "volumes" \in Steps /\ "blocked" \in StepStatuses
      /\ ContainerSteps \in SUBSET Steps /\ "post_restore" \in Stages
  BY <1>1 DEF InFlight, ReadOnly, Steps, ContainerSteps, StepStatuses, Stages
<1>4. err'[r] = "failed"
  BY <1>1, <1>3, FailStep
<1>5. /\ steps'[r]["volumes"] = "blocked"
      /\ \A k \in Steps \ {"volumes"} :
            steps'[r][k] = IF k \in ContainerSteps THEN "blocked" ELSE steps[r][k]
  BY <1>1, <1>3, ReportStep
<1>6. /\ \A k \in ContainerSteps : steps'[r][k] = "blocked"
      /\ steps'[r].files = "success" /\ did'[r].files = "done"
  BY <1>1, <1>2, <1>3, <1>5 DEF Restored, Steps, ContainerSteps
<1>7. StepsTold(r)'
  BY <1>4, <1>6 DEF StepsTold, ContainerSteps
<1> QED
  BY <1>1, <1>2, <1>3, <1>7, DiesStep

-----------------------------------------------------------------------------
(* The last write: updateRunRecord, and what is joined to the error.       *)
LEMMA FinishStep ==
    ASSUME IInv, NEW r \in Runs, Finish(r)
    PROVE  /\ IInv' /\ Told(r) /\ Opened(r) /\ pc[r] = "final" /\ pc'[r] = "returned"
           /\ \A q \in Runs \ {r} : Same(q)
           /\ did'[r] = did[r] /\ rec'[r].status = Outcome(r)
           /\ \/ /\ rec[r].id = 0 /\ RowStatus(r)' = RowStatus(r)
                 /\ untracked'[r]
                 /\ err[r] = "nil" => audit'[r] # "none"
              \/ /\ rec[r].id # 0 /\ RowStatus(r)' = RowStatus(r) /\ audit'[r] # "none"
              \/ /\ rec[r].id # 0 /\ RowStatus(r)' = Outcome(r)
                 /\ untracked'[r] = untracked[r] /\ audit'[r] = "none"
<1>1. /\ RecordsTypeOK /\ RunOK(r) /\ TargetOK(r) /\ OwnRow(r) /\ Told(r) /\ Opened(r)
      /\ pc[r] = "final"
  BY DEF IInv, RunOK, Stage, Finish, InFlight, ReadOnly
<1> DEFINE o == Outcome(r)
           new == [rec[r] EXCEPT !.status = o]
<1>2. PICK lost \in IF rec[r].id = 0 THEN {FALSE} ELSE BOOLEAN :
         /\ restore_runs' = IF lost \/ rec[r].id = 0 THEN restore_runs
              ELSE [restore_runs EXCEPT ![rec[r].id] =
                      [restore_runs[rec[r].id] EXCEPT !.status = o, !.stage = rec[r].stage]]
         /\ audit' = [audit EXCEPT ![r] = AuditError(r, lost)]
         /\ untracked' = [untracked EXCEPT ![r] =
                             untracked[r] \/ (lost /\ AuditError(r, lost) = "untracked")]
  BY DEF Finish
<1>3. /\ rec' = [rec EXCEPT ![r] = new] /\ Goto(r, "returned")
      /\ UNCHANGED <<req, ctx, did, imported, steps, err>>
  BY DEF Finish
<1>4. lost \in BOOLEAN /\ (rec[r].id = 0 => ~lost)
  BY <1>2
<1>5. /\ o \in Statuses /\ o # "running"
      /\ err[r] = "nil" => o \in {"success", "dry-run"}
  BY <1>1, OutcomeTold DEF Statuses
<1> HIDE DEF o
<1>6. /\ new \in Record /\ new.status = o /\ new.id = rec[r].id /\ new.stage = rec[r].stage
      /\ rec \in [Runs -> Record]
  BY <1>1, <1>5 DEF RecordsTypeOK, Record
<1> HIDE DEF new
<1>7. /\ rec' \in [Runs -> Record] /\ \A q \in Runs \ {r} : rec'[q] = rec[q]
      /\ rec'[r].status = o /\ rec'[r].id = rec[r].id /\ rec'[r].stage = rec[r].stage
  BY <1>3, <1>6
<1>8. /\ AuditError(r, lost) \in {"none", "untracked", "failed"}
      /\ lost => AuditError(r, lost) # "none"
      /\ ~lost => AuditError(r, lost) = IF untracked[r] /\ err[r] = "nil" THEN "untracked" ELSE "none"
  BY <1>4 DEF AuditError
<1> DEFINE a == AuditError(r, lost)
<1> HIDE DEF a
<1>9. /\ audit' \in [Runs -> {"none", "untracked", "failed"}] /\ audit'[r] = a
      /\ \A q \in Runs \ {r} : audit'[q] = audit[q]
  BY <1>1, <1>2, <1>8 DEF RecordsTypeOK, a
<1>10. /\ untracked' \in [Runs -> BOOLEAN] /\ \A q \in Runs \ {r} : untracked'[q] = untracked[q]
       /\ ~lost => untracked'[r] = untracked[r]
  BY <1>1, <1>2, <1>4 DEF RecordsTypeOK
<1>11. /\ pc' \in [Runs -> InFlight \cup {"idle", "returned", "crashed"}]
       /\ pc'[r] = "returned" /\ \A q \in Runs \ {r} : pc'[q] = pc[q]
  BY <1>1, <1>3, GotoStep
<1>12. /\ restore_runs' \in Seq(TableRow) /\ DOMAIN restore_runs' = DOMAIN restore_runs
       /\ \A i \in DOMAIN restore_runs :
             /\ restore_runs'[i].run = restore_runs[i].run
             /\ i # rec[r].id \/ lost => restore_runs'[i] = restore_runs[i]
       /\ rec[r].id # 0 /\ ~lost => restore_runs'[rec[r].id].status = o
  <2> DEFINE k == rec[r].id
             row == [restore_runs[k] EXCEPT !.status = o, !.stage = rec[r].stage]
  <2>1. restore_runs \in Seq(TableRow)
    BY <1>1 DEF RecordsTypeOK, TableRow
  <2>2. CASE lost \/ k = 0
    <3>1. restore_runs' = restore_runs
      BY <1>2, <2>2
    <3> QED
      BY <2>1, <2>2, <3>1
  <2>3. CASE ~lost /\ k # 0
    <3>1. k \in DOMAIN restore_runs /\ restore_runs[k] \in TableRow /\ DOMAIN restore_runs = 1 .. Len(restore_runs)
      BY <1>1, <2>1, <2>3, LenProperties, ElementOfSeq DEF OwnRow
    <3>2. row \in TableRow /\ row.run = restore_runs[k].run /\ row.status = o
      BY <1>1, <1>5, <3>1 DEF TableRow, RecordsTypeOK
    <3>3. restore_runs' = [restore_runs EXCEPT ![k] = row]
      BY <1>2, <2>3
    <3> HIDE DEF row, k
    <3>4. /\ restore_runs' \in Seq(TableRow) /\ Len(restore_runs') = Len(restore_runs)
          /\ \A i \in 1 .. Len(restore_runs) :
                restore_runs'[i] = IF i = k THEN row ELSE restore_runs[i]
      BY <2>1, <3>1, <3>2, <3>3, ExceptSeq
    <3>5. DOMAIN restore_runs' = DOMAIN restore_runs
      BY <3>1, <3>3
    <3> QED
      BY <2>3, <3>1, <3>2, <3>4, <3>5 DEF k
  <2> QED
    BY <1>4, <2>2, <2>3
<1>13. RecordsTypeOK'
  BY <1>1, <1>3, <1>7, <1>9, <1>10, <1>11, <1>12 DEF RecordsTypeOK, Record, TableRow
<1>14. ASSUME NEW q \in Runs \ {r} PROVE RunOK(q)' /\ Same(q)
  <2>1. RunOK(q) /\ OwnRow(q)
    BY DEF IInv, RunOK
  <2>2. rec[q].id # 0 => rec[q].id \in DOMAIN restore_runs /\ rec[q].id # rec[r].id
    BY <1>1, <2>1 DEF OwnRow
  <2>3. OwnRow(q)' /\ RowStatus(q)' = RowStatus(q)
    BY <1>3, <1>7, <1>12, <2>1, <2>2 DEF OwnRow, RowStatus
  <2>4. Same(q)
    BY <1>3, <1>7, <1>9, <1>10, <1>11, <2>3 DEF Same
  <2> QED
    BY <1>3, <2>1, <2>4, Frame
<1>15. OwnRow(r)'
  BY <1>1, <1>3, <1>7, <1>12 DEF OwnRow
<1>16. TargetOK(r)'
  <2>1. Touched(r, "files") /\ rec[r].id = 0 => untracked'[r]
    BY <1>1, <1>4, <1>10 DEF TargetOK
  <2> QED
    BY <1>1, <1>3, <1>7, <2>1 DEF TargetOK, Touched, StartsServices
<1>17. Told(r)' /\ o = Outcome(r) /\ Outcome(r)' = Outcome(r)
  <2>1. Told(r)'
    <3>1. \A s : Touched(r, s)' <=> Touched(r, s)
      BY <1>3 DEF Touched
    <3>2. StepsTold(r)' <=> StepsTold(r)
      BY <1>3, <3>1 DEF StepsTold
    <3>3. rec'[r].stage = rec[r].stage
      BY <1>7
    <3> QED
      BY <1>1, <1>3, <3>1, <3>2, <3>3 DEF Told
  <2>2. o = Outcome(r) /\ Outcome(r)' = Outcome(r)
    BY <1>1, <1>3, <1>7 DEF Outcome, o
  <2> QED
    BY <2>1, <2>2
<1>18. \/ /\ rec[r].id = 0 /\ RowStatus(r)' = RowStatus(r)
          /\ untracked'[r] /\ req[r].allow
          /\ err[r] = "nil" => audit'[r] = "untracked"
       \/ /\ rec[r].id # 0 /\ RowStatus(r)' = RowStatus(r) /\ RowStatus(r) = "running"
          /\ audit'[r] # "none"
       \/ /\ rec[r].id # 0 /\ RowStatus(r)' = o
          /\ untracked'[r] = untracked[r] /\ ~untracked[r] /\ audit'[r] = "none"
  <2>1. CASE rec[r].id = 0
    BY <1>1, <1>4, <1>7, <1>8, <1>9, <1>10, <2>1 DEF Opened, RowStatus, a
  <2>2. CASE rec[r].id # 0 /\ lost
    BY <1>1, <1>7, <1>8, <1>9, <1>12, <2>2 DEF Opened, OwnRow, RowStatus, a
  <2>3. CASE rec[r].id # 0 /\ ~lost
    BY <1>1, <1>7, <1>8, <1>9, <1>10, <1>12, <2>3 DEF Opened, OwnRow, RowStatus, a
  <2> QED
    BY <1>4, <2>1, <2>2, <2>3
<1>19. Ended(r)'
  BY <1>3, <1>7, <1>17, <1>18 DEF Ended
<1>20. Stage(r)'
  BY <1>11, <1>17, <1>19 DEF Stage, InFlight, ReadOnly, Post, Package, Scripts
<1>21. IInv'
  BY <1>13, <1>14, <1>15, <1>16, <1>20 DEF IInv, RunOK
<1> QED
  BY <1>1, <1>3, <1>7, <1>11, <1>14, <1>17, <1>18, <1>21

-----------------------------------------------------------------------------
LEMMA Invariance == IInv /\ [Next]_vars => IInv'
<1> SUFFICES ASSUME IInv, [Next]_vars PROVE IInv'
  OBVIOUS
<1>1. ASSUME NEW r \in Runs, Start(r) \/ Cancel(r) \/ Crash(r) PROVE IInv'
  BY <1>1, StartStep, CancelStep, CrashStep
<1>2. ASSUME NEW r \in Runs, CreateRun(r) \/ CreateRunRefused(r) \/ CreateRunUntracked(r)
      PROVE  IInv'
  BY <1>2, CreateRunStep, CreateRunFailsStep
<1>3. ASSUME NEW r \in Runs, Validated(r) \/ ValidationFails(r) PROVE IInv'
  BY <1>3, ValidateStep
<1>4. ASSUME NEW r \in Runs, NEW s \in Scripts, RemoteEnds(r, s) PROVE IInv'
  BY <1>4, RemoteEndsStep
<1>5. ASSUME NEW r \in Runs, \/ Launch(r) \/ \E found \in Found(r) : Probe(r, found)
                             \/ PreflightPasses(r) \/ PreflightBlocks(r)
      PROVE  IInv'
  BY <1>5, LaunchStep, ProbeStep, PreflightStep
<1>6. ASSUME NEW r \in Runs,
             \/ pc[r] \in Scripts /\ \E e \in Answers : Returns(r, e) /\ ScriptReturned(r, e)
             \/ ConnectionLost(r)
      PROVE  IInv'
  BY <1>6, ScriptStep
<1>7. ASSUME NEW r \in Runs, Finish(r) PROVE IInv'
  BY <1>7, FinishStep
<1>8. CASE UNCHANGED Recorded
  <2>1. /\ UNCHANGED <<req, pc, ctx, did, imported, rec, steps, untracked, err, audit, restore_runs>>
        /\ RecordsTypeOK'
    BY <1>8 DEF Recorded, IInv, RecordsTypeOK
  <2>2. \A q \in Runs : Same(q)
    BY <2>1 DEF IInv, RunOK, Same, OwnRow, RowStatus
  <2>3. \A q \in Runs : RunOK(q)'
    BY <2>1, <2>2, Frame DEF IInv
  <2> QED
    BY <2>1, <2>3 DEF IInv
<1>9. ASSUME NEW r \in Runs, Ask(r) \/ SessionOpens(r) PROVE UNCHANGED Recorded
  BY <1>9 DEF Ask, SessionOpens, Recorded
<1>10. ASSUME NEW r \in Runs, ReadOnlyAnswers(r) \/ ReadOnlyFails(r) PROVE IInv'
  BY <1>10, <1>3, <1>5 DEF ReadOnlyAnswers, ReadOnlyFails, Found
<1>11. ASSUME NEW r \in Runs, RunStep(r) PROVE IInv'
  BY <1>11, <1>2, <1>5, <1>6, <1>7, <1>8, <1>9, <1>10 DEF RunStep, Answers
<1>12. ASSUME NEW r \in Runs, TargetStep(r) PROVE IInv'
  BY <1>12, <1>4, <1>5, <1>6, <1>8, <1>9, <1>10 DEF TargetStep
<1>13. UNCHANGED vars => UNCHANGED Recorded
  BY DEF vars, Recorded
<1> QED
  BY <1>1, <1>8, <1>11, <1>12, <1>13 DEF Next, Finished

LEMMA Inductive == Spec => []IInv
BY InitInv, Invariance, PTL DEF Spec

(* Nothing of a package touches the target out of order or uncalled for.   *)
THEOREM Services == Spec => []ServicesGuarded
BY Inductive, Guarded, PTL

(* What Run returns, its four steps and its row say of the target is true. *)
THEOREM Answer == Spec => []AnswerHonest
BY Inductive, Honest, PTL

-----------------------------------------------------------------------------
(* The refinement: every step is a step of AuditedRun of the same          *)
(* invocation, or one that the contract does not see.                      *)
Unseen(q) ==
    /\ Phase(q)' = Phase(q) /\ did'[q].files = did[q].files
    /\ AuditStatus(RowStatus(q))' = AuditStatus(RowStatus(q))
    /\ Gap(q)' = Gap(q) /\ ReportOf(q)' = ReportOf(q)

LEMMA SameUnseen ==
    ASSUME NEW q \in Runs, Same(q) PROVE Unseen(q)
<1>1. AuditStatus(RowStatus(q))' = AuditStatus(RowStatus(q))
  BY DEF Same, AuditStatus
<1> QED
  BY <1>1 DEF Same, Unseen, Phase, Gap, ReportOf

(* A step that leaves the table and what the contract sees of the others.  *)
LEMMA OthersUnseen ==
    ASSUME NEW r \in Runs, restore_runs' = restore_runs,
           \A q \in Runs \ {r} :
              /\ pc'[q] = pc[q] /\ did'[q] = did[q] /\ rec'[q] = rec[q]
              /\ untracked'[q] = untracked[q] /\ audit'[q] = audit[q]
    PROVE  \A q \in Runs \ {r} : Unseen(q)
<1> SUFFICES ASSUME NEW q \in Runs \ {r} PROVE Unseen(q)
  OBVIOUS
<1>1. RowStatus(q)' = RowStatus(q)
  BY DEF RowStatus
<1>2. AuditStatus(RowStatus(q))' = AuditStatus(RowStatus(q))
  BY <1>1 DEF AuditStatus
<1> QED
  BY <1>2 DEF Unseen, Phase, Gap, ReportOf

LEMMA UnseenStutters ==
    ASSUME \A q \in Runs : Unseen(q)
    PROVE  UNCHANGED Audited!vars
BY DEF Unseen, Audited!vars

LEMMA InitRefines == Init => Audited!Init
<1> SUFFICES ASSUME Init PROVE Audited!Init
  OBVIOUS
<1>1. \A r \in Runs : /\ Phase(r) = "idle" /\ did[r].files = "none" /\ RowStatus(r) = "none"
                     /\ Gap(r) = FALSE /\ pc[r] # "returned"
  BY DEF Init, Phase, RowStatus, Gap, Scripts
<1>2. AuditStatus("none") = "none"
  BY DEF AuditStatus
<1> QED
  BY <1>1, <1>2 DEF Audited!Init, ReportOf

(* A step of r inside the restore that the contract does not see.          *)
LEMMA InsideUnseen ==
    ASSUME IInv, NEW r \in Runs, restore_runs' = restore_runs,
           \A q \in Runs \ {r} :
              /\ pc'[q] = pc[q] /\ did'[q] = did[q] /\ rec'[q] = rec[q]
              /\ untracked'[q] = untracked[q] /\ audit'[q] = audit[q],
           Phase(r)' = Phase(r), pc[r] # "returned", pc'[r] # "returned",
           did'[r].files = did[r].files, rec'[r].id = rec[r].id,
           untracked'[r] = untracked[r], audit'[r] = audit[r]
    PROVE  UNCHANGED Audited!vars
<1>1. \A q \in Runs \ {r} : Unseen(q)
  BY OthersUnseen
<1>2. RowStatus(r)' = RowStatus(r)
  BY DEF RowStatus
<1>3. AuditStatus(RowStatus(r))' = AuditStatus(RowStatus(r))
  BY <1>2 DEF AuditStatus
<1>4. Unseen(r)
  BY <1>3 DEF Unseen, Gap, ReportOf
<1> QED
  BY <1>1, <1>4, UnseenStutters

(* The steps between the record and the outcome.                           *)
LEMMA InsideRefines ==
    ASSUME IInv, NEW r \in Runs,
           \/ Validated(r) \/ ValidationFails(r) \/ ConnectionLost(r)
           \/ pc[r] \in Scripts /\ \E e \in Answers : Returns(r, e) /\ ScriptReturned(r, e)
           \/ (\E found \in Found(r) : Probe(r, found)) \/ PreflightPasses(r) \/ PreflightBlocks(r)
           \/ Start(r)
    PROVE  UNCHANGED Audited!vars
<1>1. RecordsTypeOK
  BY DEF IInv
<1>2. UNCHANGED <<untracked, audit, restore_runs>>
  BY DEF Validated, ValidationFails, ConnectionLost, ScriptReturned, FilesReturned,
         VolumeReturned, ComposeReturned, LastReturned, Probe, PreflightPasses, PreflightBlocks,
         Start
<1>3. did' = did \/ did' = [did EXCEPT ![r].volumes = "none"]
  BY DEF Validated, ValidationFails, ConnectionLost, ScriptReturned, FilesReturned,
         VolumeReturned, ComposeReturned, LastReturned, Probe, PreflightPasses, PreflightBlocks,
         Start
<1>4. did'[r].files = did[r].files /\ \A q \in Runs \ {r} : did'[q] = did[q]
  BY <1>1, <1>3 DEF RecordsTypeOK, Scripts
<1>5. rec' = rec \/ \E stage \in Stages : rec' = [rec EXCEPT ![r].stage = stage]
  BY DEF Validated, ValidationFails, ConnectionLost, ScriptReturned, FilesReturned, Fail,
         VolumeReturned, ComposeReturned, LastReturned, Probe, PreflightPasses, PreflightBlocks,
         Start, Stages
<1>6. rec'[r].id = rec[r].id /\ \A q \in Runs \ {r} : rec'[q] = rec[q]
  BY <1>1, <1>5 DEF RecordsTypeOK
<1>7. CASE Start(r)
  <2>1. pc[r] = "idle" /\ pc'[r] = "record" /\ \A q \in Runs \ {r} : pc'[q] = pc[q]
    BY <1>1, <1>7 DEF Start, Goto, RecordsTypeOK
  <2> QED
    BY <1>2, <1>4, <1>6, <2>1, InsideUnseen DEF Phase
<1>8. CASE ~Start(r)
  <2>1. pc[r] \in {"validate", "probe", "preflight"} \cup Scripts
    BY <1>8 DEF Validated, ValidationFails, ConnectionLost, Probe, PreflightPasses, PreflightBlocks
  <2>2. pc' = pc \/ \E p \in {"probe", "preflight", "final"} \cup Scripts : pc' = [pc EXCEPT ![r] = p]
    <3>1. CASE Validated(r) \/ ValidationFails(r) \/ PreflightBlocks(r)
      BY <3>1 DEF Validated, ValidationFails, PreflightBlocks, Goto, Fail, Scripts
    <3>2. CASE \E found \in Found(r) : Probe(r, found)
      BY <3>2 DEF Probe, Goto, Scripts
    <3>3. CASE PreflightPasses(r)
      BY <3>3 DEF PreflightPasses, AfterPreflight, Goto, Scripts
    <3>4. ASSUME NEW e, ScriptReturned(r, e)
          PROVE  pc' = pc \/ \E p \in {"probe", "preflight", "final"} \cup Scripts : pc' = [pc EXCEPT ![r] = p]
      BY <3>4 DEF ScriptReturned, FilesReturned, VolumeReturned, ComposeReturned, LastReturned,
             Goto, Fail, Scripts
    <3> QED
      BY <1>8, <3>1, <3>2, <3>3, <3>4 DEF ConnectionLost
  <2>3. /\ pc'[r] \in {"validate", "probe", "preflight", "final"} \cup Scripts
        /\ \A q \in Runs \ {r} : pc'[q] = pc[q]
    BY <1>1, <2>1, <2>2 DEF RecordsTypeOK
  <2>4. Phase(r) = "open" /\ Phase(r)' = "open"
    BY <2>1, <2>3 DEF Phase, Scripts
  <2>5. pc[r] # "returned" /\ pc'[r] # "returned"
    BY <2>1, <2>3 DEF Scripts
  <2> QED
    BY <1>2, <1>4, <1>6, <2>3, <2>4, <2>5, InsideUnseen
<1> QED
  BY <1>7, <1>8

LEMMA CloseRefines ==
    ASSUME NEW r \in Runs, \A q \in Runs \ {r} : Unseen(q),
           NEW o, Phase(r) = "open", Phase(r)' = "closed", did'[r].files = did[r].files,
           o = "success" => did[r].files = "done",
           AuditStatus(RowStatus(r))' = o, Gap(r)' = Gap(r),
           ReportOf(r)' = IF o # "success" THEN "error"
                          ELSE IF Gap(r) THEN "unaudited" ELSE "clean"
    PROVE  Audited!Close(r, o)
BY DEF Unseen, Audited!Close

(* The outcome, as the contract sees it.                                   *)
LEMMA FinishRefines ==
    ASSUME IInv, NEW r \in Runs, Finish(r)
    PROVE  Audited!Next
<1> DEFINE o == Outcome(r)
           a == AuditStatus(o)
<1>1. /\ Told(r) /\ Opened(r) /\ pc[r] = "final" /\ pc'[r] = "returned"
      /\ \A q \in Runs \ {r} : Same(q)
      /\ did'[r] = did[r] /\ rec'[r].status = o
      /\ \/ /\ rec[r].id = 0 /\ RowStatus(r)' = RowStatus(r)
            /\ untracked'[r]
            /\ err[r] = "nil" => audit'[r] # "none"
         \/ /\ rec[r].id # 0 /\ RowStatus(r)' = RowStatus(r) /\ audit'[r] # "none"
         \/ /\ rec[r].id # 0 /\ RowStatus(r)' = o
            /\ untracked'[r] = untracked[r] /\ audit'[r] = "none"
  BY FinishStep
<1>2. /\ o \in {"success", "partial", "failed", "canceled", "dry-run"}
      /\ o \in {"success", "dry-run"} => did[r].files = "done" /\ rec[r].stage = ""
  BY <1>1, OutcomeTold
<1>3. o \in {"success", "dry-run"} => err[r] = "nil"
  BY <1>1, <1>2 DEF Told
<1> HIDE DEF o
<1>4. a \in Audited!Outcomes /\ (a = "success" <=> o \in {"success", "dry-run"})
  BY <1>2 DEF AuditStatus, Audited!Outcomes
<1>5. \A q \in Runs \ {r} : Unseen(q)
  BY <1>1, SameUnseen
<1>6. Phase(r) = "open" /\ Phase(r)' = "closed"
  BY <1>1 DEF Phase
<1>7. audit[r] = "none" /\ (rec[r].id # 0 => Gap(r) = FALSE)
  BY <1>1 DEF Opened, Gap
<1>8. ReportOf(r)' = IF a # "success" THEN "error"
                     ELSE IF audit'[r] = "none" THEN "clean" ELSE "unaudited"
  BY <1>1, <1>4 DEF ReportOf
<1>9. CASE RowStatus(r)' = RowStatus(r) /\ (untracked'[r] \/ audit'[r] # "none")
           /\ (err[r] = "nil" => audit'[r] # "none")
  <2>1. AuditStatus(RowStatus(r))' = AuditStatus(RowStatus(r)) /\ Gap(r)' = TRUE
    BY <1>9 DEF AuditStatus, Gap
  <2>2. \/ ReportOf(r)' = "error"
        \/ did[r].files = "done" /\ ReportOf(r)' = "unaudited"
    <3>1. CASE a # "success"
      BY <1>8, <3>1
    <3>2. CASE a = "success"
      <4>1. did[r].files = "done" /\ err[r] = "nil"
        BY <1>2, <1>3, <1>4, <3>2
      <4>2. audit'[r] # "none"
        BY <1>9, <4>1
      <4> QED
        BY <1>8, <3>2, <4>1, <4>2
    <3> QED
      BY <3>1, <3>2
  <2>3. Audited!CloseUnrecorded(r)
    BY <1>1, <1>5, <1>6, <2>1, <2>2 DEF Unseen, Audited!CloseUnrecorded
  <2> QED
    BY <2>3 DEF Audited!Next
<1>10. CASE rec[r].id # 0 /\ RowStatus(r)' = o
            /\ untracked'[r] = untracked[r] /\ audit'[r] = "none"
  <2>1. AuditStatus(RowStatus(r))' = a /\ Gap(r)' = Gap(r) /\ Gap(r) = FALSE
    BY <1>7, <1>10 DEF AuditStatus, Gap
  <2>2. ReportOf(r)' = IF a # "success" THEN "error" ELSE IF Gap(r) THEN "unaudited" ELSE "clean"
    BY <1>8, <1>10, <2>1
  <2>3. a = "success" => did[r].files = "done"
    BY <1>2, <1>4
  <2> HIDE DEF a
  <2>4. Audited!Close(r, a)
    BY <1>1, <1>5, <1>6, <2>1, <2>2, <2>3, CloseRefines
  <2>5. a \in Audited!Outcomes
    BY <1>4
  <2> QED
    BY <2>4, <2>5 DEF Audited!Next
<1> QED
  BY <1>1, <1>9, <1>10

(* An invocation that changes its phase, its work, its row or its flag.    *)
LEMMA OpenRefines ==
    ASSUME IInv, NEW r \in Runs,
           CreateRun(r) \/ CreateRunRefused(r) \/ CreateRunUntracked(r)
    PROVE  Audited!Next
<1>1. /\ RecordsTypeOK /\ OwnRow(r) /\ pc[r] = "record" /\ Unopened(r)
      /\ Phase(r) = "idle" /\ ReportOf(r) = "none"
  BY DEF IInv, RunOK, Stage, CreateRun, CreateRunRefused, CreateRunUntracked, Phase, ReportOf
<1>2. Gap(r) = FALSE /\ RowStatus(r) = "none"
  BY <1>1 DEF Unopened, Gap, RowStatus
<1>3. CASE CreateRun(r)
  <2>1. /\ \A q \in Runs \ {r} : Same(q)
        /\ pc'[r] = "validate" /\ did'[r] = did[r] /\ untracked'[r] = untracked[r]
        /\ audit'[r] = audit[r] /\ RowStatus(r)' = "running"
    BY <1>3, CreateRunStep
  <2>2. \A q \in Runs \ {r} : Unseen(q)
    BY <2>1, SameUnseen
  <2>3. /\ Phase(r)' = "open" /\ did'[r].files = did[r].files
        /\ AuditStatus(RowStatus(r))' = "running"
        /\ Gap(r)' = Gap(r) /\ ReportOf(r)' = ReportOf(r)
    BY <1>1, <2>1 DEF Phase, AuditStatus, Gap, ReportOf
  <2>4. Audited!Open(r)
    BY <1>1, <2>2, <2>3 DEF Unseen, Audited!Open
  <2> QED
    BY <2>4 DEF Audited!Next
<1>4. CASE CreateRunRefused(r)
  <2>1. /\ UNCHANGED <<did, rec, untracked, audit, restore_runs>>
        /\ pc'[r] = "returned" /\ \A q \in Runs \ {r} : pc'[q] = pc[q]
    BY <1>1, <1>4 DEF CreateRunRefused, Goto, RecordsTypeOK
  <2>2. \A q \in Runs \ {r} : Unseen(q)
    BY <2>1, OthersUnseen
  <2>3. RowStatus(r)' = RowStatus(r)
    BY <2>1 DEF RowStatus
  <2>4. /\ Phase(r)' = "closed" /\ did'[r].files = did[r].files
        /\ AuditStatus(RowStatus(r))' = AuditStatus(RowStatus(r))
        /\ Gap(r)' = Gap(r) /\ ReportOf(r)' = "error"
    BY <1>1, <2>1, <2>3 DEF Phase, AuditStatus, Gap, ReportOf, Unopened
  <2>5. Audited!Refuse(r)
    BY <1>1, <2>2, <2>4 DEF Unseen, Audited!Refuse
  <2> QED
    BY <2>5 DEF Audited!Next
<1>5. CASE CreateRunUntracked(r)
  <2>1. /\ UNCHANGED <<did, rec, audit, restore_runs>> /\ req[r].allow
        /\ pc'[r] = "validate" /\ \A q \in Runs \ {r} : pc'[q] = pc[q]
        /\ untracked'[r] /\ \A q \in Runs \ {r} : untracked'[q] = untracked[q]
    BY <1>1, <1>5 DEF CreateRunUntracked, Goto, RecordsTypeOK
  <2>2. \A q \in Runs \ {r} : Unseen(q)
    BY <2>1, OthersUnseen
  <2>3. RowStatus(r)' = RowStatus(r)
    BY <2>1 DEF RowStatus
  <2>4. /\ Phase(r)' = "open" /\ did'[r].files = did[r].files
        /\ AuditStatus(RowStatus(r))' = AuditStatus(RowStatus(r))
        /\ Gap(r)' = TRUE /\ ReportOf(r)' = ReportOf(r)
    BY <1>1, <2>1, <2>3 DEF Phase, AuditStatus, Gap, ReportOf
  <2>5. r \in {x \in Runs : \E q \in RequestsOf[x] : q.allow}
    BY <1>1, <2>1 DEF OwnRow
  <2>6. Audited!OpenUnaudited(r)
    BY <1>1, <2>2, <2>4, <2>5 DEF Unseen, Audited!OpenUnaudited
  <2> QED
    BY <2>6 DEF Audited!Next
<1> QED
  BY <1>3, <1>4, <1>5

LEMMA WorkRefines ==
    ASSUME IInv, NEW r \in Runs, Launch(r) \/ \E s \in Scripts : RemoteEnds(r, s)
    PROVE  Audited!Next \/ UNCHANGED Audited!vars
<1>1. PICK s \in Scripts : (Launch(r) /\ s = pc[r]) \/ RemoteEnds(r, s)
  BY DEF Launch
<1>2. /\ RecordsTypeOK /\ Stage(r)
      /\ UNCHANGED <<req, pc, ctx, imported, rec, steps, untracked, err, audit, restore_runs>>
  BY <1>1 DEF IInv, RunOK, Launch, RemoteEnds
<1>3. PICK w \in {"running", "done", "broken"} : did' = [did EXCEPT ![r][s] = w]
  BY <1>1 DEF Launch, RemoteEnds
<1>4. /\ did'[r][s] = w /\ \A x \in Scripts \ {s} : did'[r][x] = did[r][x]
      /\ \A q \in Runs \ {r} : did'[q] = did[q]
  BY <1>2, <1>3 DEF RecordsTypeOK
<1>5. \A q \in Runs \ {r} : Unseen(q)
  BY <1>2, <1>4, OthersUnseen
<1>6. RowStatus(r)' = RowStatus(r)
  BY <1>2 DEF RowStatus
<1>7. /\ Phase(r)' = Phase(r) /\ Gap(r)' = Gap(r) /\ ReportOf(r)' = ReportOf(r)
      /\ AuditStatus(RowStatus(r))' = AuditStatus(RowStatus(r))
  BY <1>2, <1>6 DEF Phase, Gap, ReportOf, AuditStatus
<1>8. CASE s # "files"
  <2>1. did'[r].files = did[r].files
    BY <1>4, <1>8 DEF Scripts
  <2> QED
    BY <1>5, <1>7, <2>1, UnseenStutters DEF Unseen
<1>9. CASE s = "files" /\ Launch(r) /\ s = pc[r]
  <2>1. Phase(r) = "open" /\ did[r].files = "none" /\ did'[r].files = "running"
    <3>1. did' = [did EXCEPT ![r][s] = "running"]
      BY <1>9 DEF Launch
    <3> QED
      BY <1>2, <1>9, <3>1 DEF Launch, Phase, RecordsTypeOK
  <2>2. Audited!Work(r)
    BY <1>5, <1>7, <2>1 DEF Unseen, Audited!Work
  <2> QED
    BY <2>2 DEF Audited!Next
<1>10. CASE s = "files" /\ RemoteEnds(r, s)
  <2>1. PICK v \in {"done", "broken"} : did' = [did EXCEPT ![r][s] = v]
    BY <1>10 DEF RemoteEnds
  <2>2. did[r].files = "running" /\ did'[r].files = v
    BY <1>2, <1>10, <2>1 DEF RemoteEnds, RecordsTypeOK
  <2>3. Audited!WorkEnds(r)
    BY <1>5, <1>7, <2>2 DEF Unseen, Audited!WorkEnds
  <2> QED
    BY <2>3 DEF Audited!Next
<1> QED
  BY <1>1, <1>8, <1>9, <1>10

LEMMA EndRefines ==
    ASSUME IInv, NEW r \in Runs, Cancel(r) \/ Crash(r)
    PROVE  Audited!Next \/ UNCHANGED Audited!vars
<1>1. RecordsTypeOK /\ pc[r] \in InFlight
      /\ UNCHANGED <<did, rec, untracked, audit, restore_runs>>
  BY DEF IInv, Cancel, Crash
<1>2. pc[r] # "returned" /\ Phase(r) # "closed"
  BY <1>1 DEF InFlight, ReadOnly, Scripts, Phase
<1>3. CASE Cancel(r)
  <2>1. pc' = pc /\ Phase(r)' = Phase(r)
    BY <1>3 DEF Cancel, Phase
  <2> QED
    BY <1>1, <1>2, <2>1, InsideUnseen
<1>4. CASE Crash(r)
  <2>1. pc'[r] = "crashed" /\ \A q \in Runs \ {r} : pc'[q] = pc[q]
    BY <1>1, <1>4 DEF Crash, Goto, RecordsTypeOK
  <2>2. \A q \in Runs \ {r} : Unseen(q)
    BY <1>1, <2>1, OthersUnseen
  <2>3. RowStatus(r)' = RowStatus(r)
    BY <1>1 DEF RowStatus
  <2>4. /\ Phase(r)' = "closed" /\ Gap(r)' = Gap(r) /\ ReportOf(r)' = ReportOf(r)
        /\ AuditStatus(RowStatus(r))' = AuditStatus(RowStatus(r))
    BY <1>1, <1>2, <2>1, <2>3 DEF Phase, Gap, ReportOf, AuditStatus
  <2>5. Audited!Crash(r)
    BY <1>1, <1>2, <2>2, <2>4 DEF Unseen, Audited!Crash
  <2> QED
    BY <2>5 DEF Audited!Next
<1> QED
  BY <1>3, <1>4

LEMMA StepRefines == IInv /\ [Next]_vars => [Audited!Next]_(Audited!vars)
<1> DEFINE Refines == Audited!Next \/ UNCHANGED Audited!vars
<1> SUFFICES ASSUME IInv, [Next]_vars PROVE Refines
  OBVIOUS
<1>1. ASSUME NEW r \in Runs, CreateRun(r) \/ CreateRunRefused(r) \/ CreateRunUntracked(r)
      PROVE  Refines
  BY <1>1, OpenRefines
<1>2. ASSUME NEW r \in Runs, Launch(r) \/ \E s \in Scripts : RemoteEnds(r, s) PROVE Refines
  BY <1>2, WorkRefines
<1>3. ASSUME NEW r \in Runs,
             \/ Validated(r) \/ ValidationFails(r) \/ ConnectionLost(r)
             \/ pc[r] \in Scripts /\ \E e \in Answers : Returns(r, e) /\ ScriptReturned(r, e)
             \/ (\E found \in Found(r) : Probe(r, found)) \/ PreflightPasses(r) \/ PreflightBlocks(r)
             \/ Start(r)
      PROVE  Refines
  BY <1>3, InsideRefines
<1>4. ASSUME NEW r \in Runs, Finish(r) PROVE Refines
  BY <1>4, FinishRefines
<1>5. ASSUME NEW r \in Runs, Cancel(r) \/ Crash(r) PROVE Refines
  BY <1>5, EndRefines
<1>6. CASE UNCHANGED Recorded
  <2>1. UNCHANGED <<pc, did, rec, untracked, audit, restore_runs>>
    BY <1>6 DEF Recorded
  <2>2. \A q \in Runs : RowStatus(q)' = RowStatus(q)
    BY <2>1 DEF RowStatus
  <2>3. \A q \in Runs : Unseen(q)
    BY <2>1, <2>2 DEF Unseen, Phase, Gap, ReportOf, AuditStatus
  <2> QED
    BY <2>3, UnseenStutters
<1> HIDE DEF Refines
<1>7. ASSUME NEW r \in Runs, Ask(r) \/ SessionOpens(r) PROVE UNCHANGED Recorded
  BY <1>7 DEF Ask, SessionOpens, Recorded
<1>8. ASSUME NEW r \in Runs, ReadOnlyAnswers(r) \/ ReadOnlyFails(r) PROVE Refines
  BY <1>8, <1>3 DEF ReadOnlyAnswers, ReadOnlyFails, Found
<1>9. ASSUME NEW r \in Runs, RunStep(r) PROVE Refines
  BY <1>9, <1>1, <1>2, <1>3, <1>4, <1>6, <1>7, <1>8 DEF RunStep, Answers
<1>10. ASSUME NEW r \in Runs, TargetStep(r) PROVE Refines
  BY <1>10, <1>2, <1>3, <1>6, <1>7, <1>8 DEF TargetStep
<1>11. UNCHANGED vars => UNCHANGED Recorded
  BY DEF vars, Recorded
<1> QED
  BY <1>3, <1>5, <1>6, <1>9, <1>10, <1>11 DEF Next, Finished

(* A restore keeps the audit contract, for every request, every number of  *)
(* concurrent restores and every failure of the ledger, the target, the    *)
(* connection or the process.                                              *)
THEOREM Refinement == Spec => ImplementsAudit
<1>1. Init => Audited!Init
  BY InitRefines
<1>2. IInv /\ [Next]_vars => [Audited!Next]_(Audited!vars)
  BY StepRefines
<1> QED
  BY <1>1, <1>2, Inductive, PTL DEF Spec, ImplementsAudit, Audited!Spec
===============================================================================
