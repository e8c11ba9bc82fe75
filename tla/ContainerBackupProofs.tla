------------------------ MODULE ContainerBackupProofs ------------------------
(***************************************************************************)
(* The properties of ContainerBackup for any runs, other jobs, volumes and *)
(* containers, and whatever fails how often: one inductive invariant says  *)
(* of each run what its row, its files on the target and its snapshot are  *)
(* at each of its steps.                                                   *)
(***************************************************************************)
EXTENDS ContainerBackup, TLAPS

ScriptStates == {"never", "idle", "check", "init", "backup", "forget", "success", "failed"}
RowStates == {"none", "running", "success", "failed", "canceled"}
Pcs == {"idle", "done", "killed"} \union Before \union After
RunState == [pc : Pcs, todo : SUBSET Artifacts, clean : SUBSET Artifacts,
             tracked : BOOLEAN, interrupted : BOOLEAN,
             aborted : {"no", "failed", "canceled"}, refused : BOOLEAN,
             dirty : BOOLEAN, alone : BOOLEAN]
File == [by : Runs \union {Nobody}, whole : BOOLEAN]
Commands == [by : Runs, does : {"remove", "write", "manifest"}, on : SUBSET Artifacts]

TypeOK ==
   /\ script \in [Scripts -> ScriptStates]
   /\ scratch \in [Artifacts -> File]
   /\ row \in [Runs -> RowStates]
   /\ run \in [Runs -> RunState]
   /\ whole \in [Runs -> BOOLEAN]
   /\ orphans \subseteq Commands

(* A run without others beside it is the only one that is active, and no   *)
(* command of another goes on until its own script has ended.              *)
Packing(r) == run[r].pc \in Before \union {"script"}
AloneOK ==
   /\ \A r, o \in Runs : Active(r) /\ run[r].alone /\ o # r => ~Active(o)
   /\ \A r \in Runs : Packing(r) /\ run[r].alone => orphans = {}

Opened(r) == row[r] = IF run[r].tracked THEN "running" ELSE "none"

(* The row of a run, its script and its way out.                           *)
RowOK(r) ==
   /\ run[r].pc = "idle" => row[r] = "none" /\ run[r].aborted = "no"
   /\ run[r].pc \in Before \union {"script"} => Opened(r) /\ run[r].aborted = "no"
   /\ run[r].pc \in {"idle"} \union Before => script[r] \in {"idle", "never"}
   /\ run[r].pc \in {"persist", "cleanup", "finalize"} =>
         IF run[r].aborted = "no" THEN row[r] = "running" => run[r].refused
                                  ELSE Opened(r)
   /\ run[r].pc = "done" /\ row[r] = "running" => run[r].refused
   /\ run[r].pc = "persist" => script[r] = "success" /\ run[r].aborted = "no"
   /\ row[r] = "success" \/ job = r => script[r] = "success"

(* What of the target's scratch directory is the run's, and that it will   *)
(* remove it.                                                              *)
LeftOK(r) ==
   /\ run[r].pc = "volumes" => run[r].todo \subseteq Volumes
   /\ run[r].pc = "idle" => \A a \in Artifacts : scratch[a].by # r
   /\ Active(r) /\ run[r].pc # "finalize" =>
         /\ scratch[Dump].by = r => Dump \in run[r].clean
         /\ run[r].aborted = "no" =>
               \A a \in Artifacts : scratch[a].by = r => a \in run[r].clean
   /\ run[r].pc = "finalize" /\ ~run[r].dirty =>
         /\ scratch[Dump].by # r
         /\ run[r].aborted = "no" => \A a \in Artifacts : scratch[a].by # r
   /\ run[r].pc = "done" /\ ~run[r].dirty =>
         /\ scratch[Dump].by # r
         /\ row[r] = "success" => \A a \in Artifacts : scratch[a].by # r

Made(r, a) == scratch[a] = [by |-> r, whole |-> TRUE]

(* How much of the package is there when nobody interferes.                *)
PackageOK(r) ==
   /\ run[r].pc = "volumes" => \A a \in Archives \ run[r].todo : Made(r, a)
   /\ run[r].pc = "dump" => container.database /\ \A a \in Archives : Made(r, a)
   /\ run[r].pc \in {"compose", "manifest"} => \A a \in Contents : Made(r, a)
   /\ run[r].pc \in {"execute", "script"} => Packaged(r)
   /\ run[r].pc = "script" /\ script[r] = "success" => whole[r]
   /\ run[r].pc = "persist" => whole[r]

WholeOK(r) ==
   run[r].alone => /\ PackageOK(r)
                   /\ row[r] = "success" \/ job = r => whole[r]

(* A run whose command goes on with a file has given up, and knows of a    *)
(* dump.                                                                   *)
OrphansOK(r) ==
   \A o \in orphans : o.by = r =>
      /\ run[r].pc # "idle"
      /\ o.does = "write" =>
            /\ Active(r) => run[r].aborted # "no"
            /\ run[r].pc = "done" => row[r] # "success"
            /\ Dump \in o.on => /\ run[r].pc = "killed" \/ run[r].dirty
                                /\ Active(r) => Dump \in run[r].clean

RunOK(r) == RowOK(r) /\ LeftOK(r) /\ WholeOK(r) /\ OrphansOK(r)

IInv == TypeOK /\ AloneOK /\ \A r \in Runs : RunOK(r)

-----------------------------------------------------------------------------
(* What the invariant says is what is promised.                            *)
LEMMA Promises == IInv => RunsEndClean /\ SnapshotWhole
<1> SUFFICES ASSUME IInv PROVE RunsEndClean /\ SnapshotWhole
  OBVIOUS
<1>1. RowsClosed
  BY DEF IInv, RunOK, RowOK, RowsClosed
<1>2. ScratchCleared
  BY DEF IInv, RunOK, LeftOK, ScratchCleared
<1>3. SnapshotWhole
  BY DEF IInv, RunOK, WholeOK, SnapshotWhole
<1> QED
  BY <1>1, <1>2, <1>3 DEF RunsEndClean

LEMMA NotStartedTyped == NotStarted \in RunState
BY DEF NotStarted, RunState, Pcs

LEMMA ScriptOfRun == \A r \in Runs : r \in Scripts /\ r # Nobody
BY ContainerAssumption

LEMMA InitInv == Init => IInv
<1> SUFFICES ASSUME Init PROVE IInv
  OBVIOUS
<1>1. \A r \in Runs : run[r] = NotStarted /\ row[r] = "none" /\ job # r
                      /\ script[r] \in {"idle", "never"}
  BY ScriptOfRun DEF Init, InitRepository
<1>2. (\A a \in Artifacts : scratch[a] = Absent) /\ orphans = {}
  BY DEF Init
<1>3. TypeOK
  BY NotStartedTyped DEF Init, InitRepository, TypeOK, Absent, File, RowStates, ScriptStates
<1>4. AloneOK
  BY <1>1, <1>2 DEF AloneOK, Active, NotStarted, Before, After
<1>5. ASSUME NEW r \in Runs PROVE RunOK(r)
  <2>1. RowOK(r)
    BY <1>1 DEF RowOK, NotStarted, Before
  <2>2. LeftOK(r)
    BY <1>1, <1>2, ScriptOfRun DEF LeftOK, NotStarted, Absent, Active, Before, After
  <2>3. WholeOK(r)
    BY <1>1 DEF WholeOK, PackageOK, NotStarted
  <2>4. OrphansOK(r)
    BY <1>2 DEF OrphansOK
  <2> QED BY <2>1, <2>2, <2>3, <2>4 DEF RunOK
<1> QED
  BY <1>3, <1>4, <1>5 DEF IInv

(* What a step of an active run leaves of another one.                     *)
LEMMA OtherRun ==
  ASSUME IInv, NEW r \in Runs, Active(r), NEW q \in Runs, q # r,
         run'[q] = run[q], row'[q] = row[q], script'[q] = script[q],
         whole'[q] = whole[q], job' \in {job, r},
         \A a \in Artifacts : scratch'[a].by = q => scratch[a].by = q,
         \A o \in orphans' : o \in orphans \/ o.by = r
  PROVE  RunOK(q)'
<1>1. RunOK(q) /\ (run[q].alone => ~Active(q))
  BY DEF IInv, AloneOK
<1>2. RowOK(q)'
  BY <1>1 DEF RunOK, RowOK, Opened
<1>3. LeftOK(q)'
  BY <1>1, ContainerAssumption DEF RunOK, LeftOK, Active, Artifacts
<1>4. WholeOK(q)'
  BY <1>1 DEF RunOK, WholeOK, PackageOK, Active, Before, After
<1>5. OrphansOK(q)'
  BY <1>1 DEF RunOK, OrphansOK, Active
<1> QED BY <1>2, <1>3, <1>4, <1>5 DEF RunOK

(* A step of run r: what is left to show is its own part.                  *)
LEMMA OwnStep ==
  ASSUME IInv, NEW r \in Runs, Active(r), NEW record \in RunState,
         run' = [run EXCEPT ![r] = record], record.alone => run[r].alone,
         record.pc # "idle",
         orphans' \subseteq Commands, \A o \in orphans' : o \in orphans \/ o.by = r,
         record.alone /\ record.pc \in Before \union {"script"} => orphans' = {},
         script' \in [Scripts -> ScriptStates],
         \A x \in Runs \ {r} : script'[x] = script[x],
         scratch' \in [Artifacts -> File],
         \A q \in Runs \ {r} : \A a \in Artifacts : scratch'[a].by = q => scratch[a].by = q,
         row' \in [Runs -> RowStates], \A q \in Runs \ {r} : row'[q] = row[q],
         whole' = whole, job' \in {job, r},
         RunOK(r)'
  PROVE  IInv'
<1>1. TypeOK'
  BY DEF IInv, TypeOK
<1>2. run'[r] = record /\ \A q \in Runs \ {r} : run'[q] = run[q]
  BY DEF IInv, TypeOK
<1>3. AloneOK'
  <2>1. \A q \in Runs \ {r} : Active(q) => ~run[q].alone
    BY DEF IInv, AloneOK
  <2>2. \A q \in Runs \ {r} : Packing(q)' => Active(q)
    BY <1>2 DEF Packing, Active, Before, After
  <2>3. \A q \in Runs : Packing(q)' /\ run'[q].alone => orphans' = {}
    BY <1>2, <2>1, <2>2 DEF Packing
  <2>4. \A p, q \in Runs : Active(p)' /\ run'[p].alone /\ q # p => ~Active(q)'
    BY <1>2, <2>1 DEF IInv, AloneOK, Active
  <2> QED BY <2>3, <2>4 DEF AloneOK
<1>4. \A q \in Runs \ {r} : RunOK(q)'
  BY <1>2, OtherRun
<1> QED
  BY <1>1, <1>3, <1>4 DEF IInv

-----------------------------------------------------------------------------
(* What a run may leave going on.                                          *)
LEMMA LeavableIs ==
  ASSUME IInv, NEW r \in Runs, NEW left \in Leavable(r)
  PROVE  /\ left \subseteq Commands
         /\ \A o \in left : o.by = r
         /\ \A o \in left : o.does = "write" => run[r].pc \in {"volumes", "dump"}
         /\ WritesDump(left) => run[r].pc = "dump"
<1>1. /\ run[r].todo \subseteq Artifacts /\ run[r].clean \subseteq Artifacts
      /\ run[r].pc = "volumes" => run[r].todo \subseteq Volumes
      /\ Dump \in Artifacts /\ Dump \notin Volumes
  BY ContainerAssumption DEF IInv, TypeOK, RunState, RunOK, LeftOK, Artifacts
<1>2. ASSUME NEW o \in left
      PROVE  /\ o \in Commands /\ o.by = r
             /\ o.does = "write" => run[r].pc \in {"volumes", "dump"}
             /\ o.does = "write" /\ Dump \in o.on => run[r].pc = "dump"
  <2>1. o \in Current(r)
    BY DEF Leavable
  <2>2. CASE \E d \in {"remove", "manifest"}, on \in SUBSET Artifacts :
                o = [by |-> r, does |-> d, on |-> on]
    BY <2>2 DEF Commands
  <2>3. CASE /\ run[r].pc = "volumes"
             /\ \E a \in run[r].todo : o = [by |-> r, does |-> "write", on |-> {a}]
    BY <1>1, <2>3 DEF Commands
  <2>4. CASE run[r].pc = "dump" /\ o = [by |-> r, does |-> "write", on |-> {Dump}]
    BY <1>1, <2>4 DEF Commands
  <2> QED
    BY <1>1, <2>1, <2>2, <2>3, <2>4 DEF Current, Command
<1> QED
  BY <1>2 DEF WritesDump

(* A run that ends before its script has begun: the deferred functions are *)
(* next, and the row is still open.                                        *)
LEMMA AbortInv ==
  ASSUME IInv, NEW r \in Runs, run[r].pc \in Before,
         NEW w \in BOOLEAN, NEW c \in SUBSET Artifacts, run[r].clean \subseteq c,
         AbortFrom(r, [run[r] EXCEPT !.clean = c], w),
         run[r].pc = "dump" => Dump \in c,
         scratch' \in [Artifacts -> File],
         \A q \in Runs \ {r} : \A a \in Artifacts : scratch'[a].by = q => scratch[a].by = q,
         scratch'[Dump].by = r => scratch[Dump].by = r \/ Dump \in c,
         UNCHANGED <<script, row, whole, job, container>>
  PROVE  IInv'
<1>1. run[r] \in RunState /\ Active(r) /\ RunOK(r) /\ run[r].aborted = "no"
  BY DEF IInv, TypeOK, Active, RunOK, RowOK
<1>2. PICK old \in RunState : old = [run[r] EXCEPT !.clean = c]
  BY <1>1 DEF RunState
<1>3. old.clean = c /\ old.tracked = run[r].tracked /\ old.alone = run[r].alone
  BY <1>1, <1>2 DEF RunState
<1>4. PICK left \in Leavable(r) :
         /\ orphans' = orphans \union left
         /\ Set(r, [old EXCEPT !.pc = "cleanup",
                               !.aborted = IF w /\ old.interrupted THEN "canceled" ELSE "failed",
                               !.dirty = WritesDump(left)])
  BY <1>2 DEF AbortFrom
<1>5. PICK how \in {"failed", "canceled"} :
         how = IF w /\ old.interrupted THEN "canceled" ELSE "failed"
  OBVIOUS
<1>6. PICK d \in BOOLEAN : d = WritesDump(left)
  BY DEF WritesDump
<1>7. PICK record \in RunState :
         record = [old EXCEPT !.pc = "cleanup", !.aborted = how, !.dirty = d]
  BY DEF RunState, Pcs, After
<1>8. /\ record.pc = "cleanup" /\ record.clean = c /\ record.aborted = how
      /\ record.tracked = run[r].tracked /\ record.alone = run[r].alone /\ record.dirty = d
  BY <1>3, <1>7 DEF RunState
<1>9. run' = [run EXCEPT ![r] = record]
  BY <1>4, <1>5, <1>6, <1>7 DEF Set
<1>10. run'[r] = record
  BY <1>9 DEF IInv, TypeOK
<1>11. /\ left \subseteq Commands /\ \A o \in left : o.by = r
       /\ WritesDump(left) => Dump \in c
  BY LeavableIs
<1>12. RowOK(r)'
  BY <1>1, <1>8, <1>10 DEF RunOK, RowOK, Opened, Before
<1>13. LeftOK(r)'
  BY <1>1, <1>8, <1>10, ContainerAssumption DEF RunOK, LeftOK, Active, Artifacts, Before
<1>14. WholeOK(r)'
  BY <1>1, <1>8, <1>10 DEF RunOK, RowOK, WholeOK, PackageOK, Opened
<1>15. OrphansOK(r)'
  <2> SUFFICES ASSUME NEW o \in orphans', o.by = r, o.does = "write"
               PROVE  Dump \in o.on => d /\ Dump \in c
    BY <1>8, <1>10 DEF OrphansOK
  <2>1. o \in left
    BY <1>1, <1>4 DEF RunOK, OrphansOK
  <2> QED BY <1>6, <1>11, <2>1 DEF WritesDump
<1>16. RunOK(r)'
  BY <1>12, <1>13, <1>14, <1>15 DEF RunOK
<1>17. /\ script' \in [Scripts -> ScriptStates] /\ row' \in [Runs -> RowStates]
       /\ \A x \in Runs \ {r} : script'[x] = script[x]
       /\ \A q \in Runs \ {r} : row'[q] = row[q]
       /\ whole' = whole /\ job' \in {job, r}
  BY DEF IInv, TypeOK
<1>18. /\ orphans' \subseteq Commands /\ \A o \in orphans' : o \in orphans \/ o.by = r
       /\ record.pc \notin Before \union {"script"} /\ record.pc # "idle"
  BY <1>4, <1>8, <1>11 DEF IInv, TypeOK, Before
<1> QED
  BY <1>1, <1>8, <1>9, <1>16, <1>17, <1>18, OwnStep

(* Abort with the files as they are.                                       *)
LEMMA PlainAbortInv ==
  ASSUME IInv, NEW r \in Runs, run[r].pc \in Before, run[r].pc # "dump",
         NEW w \in BOOLEAN, Abort(r, w),
         UNCHANGED <<scratch, script, row, whole, job, container>>
  PROVE  IInv'
<1>1. run[r] \in RunState
  BY DEF IInv, TypeOK
<1>2. [run[r] EXCEPT !.clean = run[r].clean] = run[r]
  BY <1>1 DEF RunState
<1>3. AbortFrom(r, [run[r] EXCEPT !.clean = run[r].clean], w)
  BY <1>2 DEF Abort
<1>4. run[r].clean \in SUBSET Artifacts
  BY <1>1 DEF RunState
<1>5. scratch' \in [Artifacts -> File]
  BY DEF IInv, TypeOK
<1> QED
  BY <1>3, <1>4, <1>5, AbortInv

(* A run that has not given up leaves no command that writes, and one that *)
(* has keeps what the invariant says of those that it has left.            *)
LEMMA OwnOrphans ==
  ASSUME IInv, NEW r \in Runs, Active(r), Active(r)',
         run'[r].aborted = run[r].aborted, run[r].clean \subseteq run'[r].clean,
         run[r].dirty => run'[r].dirty,
         \A o \in orphans' : o.by = r /\ o.does = "write" => o \in orphans
  PROVE  OrphansOK(r)'
<1>1. OrphansOK(r) /\ run[r].pc # "killed" /\ run'[r].pc \notin {"idle", "done"}
  BY DEF IInv, RunOK, Active, Before, After
<1> QED BY <1>1 DEF OrphansOK

(* The commands that go on, when a step of r leaves none.                  *)
LEMMA NoneLeft ==
  ASSUME IInv, NEW r \in Runs, UNCHANGED orphans
  PROVE  /\ orphans' \subseteq Commands /\ \A o \in orphans' : o \in orphans \/ o.by = r
         /\ Packing(r) /\ run[r].alone => orphans' = {}
BY DEF IInv, TypeOK, AloneOK

(* A run that goes on to another step without an effect on anything shared.*)
LEMMA GoInv ==
  ASSUME IInv, NEW r \in Runs, run[r].pc \in Before, NEW p \in Before \ {"volumes"},
         To(r, p),
         UNCHANGED <<scratch, script, orphans, row, whole, job, container>>,
         run[r].alone => PackageOK(r)'
  PROVE  IInv'
<1> DEFINE record == [run[r] EXCEPT !.pc = p]
<1>1. run[r] \in RunState /\ Active(r) /\ RunOK(r)
  BY DEF IInv, TypeOK, Active
<1>2. /\ record \in RunState /\ record.pc = p /\ record.clean = run[r].clean
      /\ record.aborted = run[r].aborted /\ record.tracked = run[r].tracked
      /\ record.alone = run[r].alone /\ record.dirty = run[r].dirty
  BY <1>1 DEF RunState, Pcs
<1>3. run'[r] = record /\ run' = [run EXCEPT ![r] = record]
  BY DEF IInv, TypeOK, To, Set
<1>4. RowOK(r)'
  BY <1>1, <1>2, <1>3 DEF RunOK, RowOK, Opened, Before
<1>5. LeftOK(r)'
  BY <1>1, <1>2, <1>3 DEF RunOK, LeftOK, Active, Before
<1>6. WholeOK(r)'
  BY <1>1, <1>2, <1>3 DEF RunOK, WholeOK
<1>7. OrphansOK(r)'
  BY <1>1, <1>2, <1>3, OwnOrphans DEF Active
<1>8. RunOK(r)' /\ p # "idle"
  BY <1>4, <1>5, <1>6, <1>7 DEF RunOK, Before
<1> HIDE DEF record
<1>9. /\ script' \in [Scripts -> ScriptStates] /\ row' \in [Runs -> RowStates]
      /\ scratch' \in [Artifacts -> File]
      /\ whole' = whole /\ job' \in {job, r}
  BY DEF IInv, TypeOK
<1>10. /\ orphans' \subseteq Commands /\ \A o \in orphans' : o \in orphans \/ o.by = r
       /\ record.alone => orphans' = {}
  BY <1>2, NoneLeft DEF Packing
<1> QED
  BY <1>1, <1>2, <1>3, <1>8, <1>9, <1>10, OwnStep

LEMMA InspectInv == ASSUME IInv, NEW r \in Runs, Inspect(r) PROVE IInv'
<1>1. run[r].pc \in Before /\ run[r].pc # "dump"
      /\ UNCHANGED <<scratch, script, row, whole, job, container>>
  BY DEF Inspect, target, repository, Before
<1>2. CASE Abort(r, TRUE)
  BY <1>1, <1>2, PlainAbortInv
<1>3. CASE To(r, "confirm") /\ UNCHANGED orphans
  <2>1. run'[r].pc = "confirm"
    BY <1>3 DEF To, Set, IInv, TypeOK, RunState
  <2>2. PackageOK(r)'
    BY <2>1 DEF PackageOK
  <2> QED BY <1>1, <1>3, <2>2, GoInv DEF Before
<1> QED BY <1>2, <1>3 DEF Inspect

LEMMA ConfirmInv == ASSUME IInv, NEW r \in Runs, Confirm(r) PROVE IInv'
<1>1. run[r].pc \in Before /\ run[r].pc # "dump"
      /\ UNCHANGED <<scratch, script, row, whole, job, container>>
  BY DEF Confirm, target, repository, Before
<1>2. CASE Abort(r, FALSE)
  BY <1>1, <1>2, PlainAbortInv
<1>3. CASE To(r, "sanitize") /\ UNCHANGED orphans
  <2>1. run'[r].pc = "sanitize"
    BY <1>3 DEF To, Set, IInv, TypeOK, RunState
  <2>2. PackageOK(r)'
    BY <2>1 DEF PackageOK
  <2> QED BY <1>1, <1>3, <2>2, GoInv DEF Before
<1> QED BY <1>2, <1>3 DEF Confirm

(* A step towards the script: the record, the scratch directory and the    *)
(* files of the package change, the row and the script do not.             *)
LEMMA PackInv ==
  ASSUME IInv, NEW r \in Runs, run[r].pc \in Before, NEW record \in RunState,
         run' = [run EXCEPT ![r] = record],
         record.pc \in Before, record.alone => run[r].alone,
         record.tracked = run[r].tracked, record.aborted = run[r].aborted,
         record.dirty = run[r].dirty,
         run[r].clean \subseteq record.clean,
         record.pc = "volumes" => record.todo \subseteq Volumes,
         scratch' \in [Artifacts -> File],
         \A q \in Runs \ {r} : \A a \in Artifacts : scratch'[a].by = q => scratch[a].by = q,
         \A a \in Artifacts : scratch'[a].by = r => scratch[a].by = r \/ a \in record.clean,
         UNCHANGED <<script, row, whole, job, container>>,
         orphans' \subseteq Commands,
         \A o \in orphans' : o \in orphans \/ (o.by = r /\ o.does # "write"),
         record.alone => UNCHANGED orphans /\ PackageOK(r)'
  PROVE  IInv'
<1>1. run[r] \in RunState /\ Active(r) /\ RunOK(r)
  BY DEF IInv, TypeOK, Active
<1>2. run'[r] = record
  BY DEF IInv, TypeOK
<1>3. RowOK(r)'
  BY <1>1, <1>2 DEF RunOK, RowOK, Opened, Before
<1>4. LeftOK(r)'
  BY <1>1, <1>2, ContainerAssumption DEF RunOK, LeftOK, Active, Before, RowOK, Artifacts
<1>5. WholeOK(r)'
  BY <1>1, <1>2 DEF RunOK, WholeOK
<1>6. OrphansOK(r)'
  BY <1>1, <1>2, OwnOrphans DEF Active
<1>8. RunOK(r)'
  BY <1>3, <1>4, <1>5, <1>6 DEF RunOK
<1>7. /\ script' \in [Scripts -> ScriptStates] /\ row' \in [Runs -> RowStates]
      /\ whole' = whole /\ job' \in {job, r} /\ record.pc # "idle"
  BY DEF IInv, TypeOK, Before
<1>9. record.alone => orphans' = {}
  BY NoneLeft DEF Packing
<1> QED
  BY <1>1, <1>7, <1>8, <1>9, OwnStep

LEMMA ArchivesAre == Archives \subseteq Volumes /\ Volumes \subseteq Artifacts
                     /\ Dump \in Artifacts /\ Dump \notin Volumes
BY ContainerAssumption DEF Archives, Artifacts

(* ToVolumes goes on to what is left to do.                                *)
Onwards(record, old, todo, clean) ==
   /\ record.pc \in {"volumes", "dump", "compose"}
   /\ record.todo = todo
   /\ record.clean = clean
   /\ record.alone = old.alone
   /\ record.tracked = old.tracked
   /\ record.aborted = old.aborted
   /\ record.dirty = old.dirty
   /\ record.pc # "volumes" => todo = {}
   /\ record.pc = "dump" => container.database
   /\ record.pc = "compose" => ~container.database

LEMMA ToVolumesIs ==
  ASSUME NEW old \in RunState, NEW todo \in SUBSET Artifacts, NEW clean \in SUBSET Artifacts
  PROVE  \E record \in RunState :
            /\ record = ToVolumes([old EXCEPT !.todo = todo, !.clean = clean])
            /\ Onwards(record, old, todo, clean)
<1>1. PICK mid \in RunState : mid = [old EXCEPT !.todo = todo, !.clean = clean]
  BY DEF RunState
<1>2. /\ mid.todo = todo /\ mid.clean = clean
      /\ mid.alone = old.alone /\ mid.tracked = old.tracked /\ mid.aborted = old.aborted
      /\ mid.dirty = old.dirty
  BY <1>1 DEF RunState
<1>3. PICK to : to = IF todo # {} THEN "volumes"
                     ELSE IF container.database THEN "dump" ELSE "compose"
  OBVIOUS
<1>4. to \in {"volumes", "dump", "compose"} /\ to \in Pcs
  BY <1>3 DEF Pcs, Before
<1>5. PICK record \in RunState : record = [mid EXCEPT !.pc = to]
  BY <1>4 DEF RunState
<1>6. /\ record.pc = to /\ record.todo = todo /\ record.clean = clean
      /\ record.alone = old.alone /\ record.tracked = old.tracked
      /\ record.aborted = old.aborted /\ record.dirty = old.dirty
  BY <1>2, <1>5 DEF RunState
<1>7. record = ToVolumes(mid)
  BY <1>2, <1>3, <1>5 DEF ToVolumes
<1>8. /\ to # "volumes" => todo = {}
      /\ to = "dump" => container.database
      /\ to = "compose" => ~container.database
  BY <1>3
<1>9. Onwards(record, old, todo, clean)
  BY <1>4, <1>6, <1>8 DEF Onwards
<1> QED BY <1>1, <1>7, <1>9

LEMMA SanitizeInv == ASSUME IInv, NEW r \in Runs, Sanitize(r) PROVE IInv'
<1>1. run[r] \in RunState /\ run[r].pc = "sanitize" /\ RunOK(r)
  BY DEF IInv, TypeOK, Sanitize
<1>2. PICK kept \in {{}, Volumes, Artifacts}, left \in Leavable(r) :
         /\ scratch' = [a \in Artifacts |-> IF a \in kept THEN scratch[a] ELSE Absent]
         /\ orphans' = orphans \union left
         /\ Set(r, ToVolumes([run[r] EXCEPT !.todo = Archives, !.alone = @ /\ left = {}]))
  BY DEF Sanitize
<1>3. PICK al \in BOOLEAN : al = (run[r].alone /\ left = {})
  OBVIOUS
<1>4. PICK old \in RunState : old = [run[r] EXCEPT !.alone = al]
  BY <1>1 DEF RunState
<1>5. /\ old.clean = run[r].clean /\ old.tracked = run[r].tracked /\ old.alone = al
      /\ old.aborted = run[r].aborted /\ old.dirty = run[r].dirty
      /\ [run[r] EXCEPT !.todo = Archives, !.alone = al]
         = [old EXCEPT !.todo = Archives, !.clean = run[r].clean]
  BY <1>1, <1>4 DEF RunState
<1>6. run[r].clean \in SUBSET Artifacts /\ Archives \in SUBSET Artifacts
  BY <1>1, ArchivesAre DEF RunState
<1>7. PICK record \in RunState :
         /\ record = ToVolumes([old EXCEPT !.todo = Archives, !.clean = run[r].clean])
         /\ Onwards(record, old, Archives, run[r].clean)
  BY <1>6, ToVolumesIs
<1>8. run' = [run EXCEPT ![r] = record]
  BY <1>2, <1>3, <1>5, <1>7 DEF Set
<1>9. run'[r] = record
  BY <1>8 DEF IInv, TypeOK
<1>10. UNCHANGED <<script, row, whole, job, container>>
  BY DEF Sanitize, repository
<1>11. Absent \in File /\ Absent.by = Nobody
  BY DEF Absent, File
<1>12. /\ scratch' \in [Artifacts -> File]
       /\ \A q \in Runs : \A a \in Artifacts : scratch'[a].by = q => scratch[a].by = q
  BY <1>2, <1>11, ScriptOfRun DEF IInv, TypeOK
<1>13. PackageOK(r)'
  <2>1. container' = container /\ Archives' = Archives /\ Contents' = Contents
    BY <1>10 DEF Archives, Contents
  <2>2. record.pc = "compose" => Contents = {}
    BY <1>7 DEF Contents, Onwards
  <2>3. Archives \ record.todo = {}
    BY <1>7 DEF Onwards
  <2> QED BY <1>7, <1>9, <2>1, <2>2, <2>3 DEF PackageOK, Onwards
<1>14. /\ record.pc \in Before /\ run[r].pc \in Before /\ run[r].clean \subseteq record.clean
       /\ record.tracked = run[r].tracked /\ record.aborted = run[r].aborted
       /\ record.dirty = run[r].dirty /\ record.todo \subseteq Volumes
  BY <1>1, <1>5, <1>7, ArchivesAre DEF Before, Onwards
<1>15. record.alone => run[r].alone /\ left = {}
  BY <1>3, <1>5, <1>7 DEF Onwards
<1>16. /\ left \subseteq Commands
       /\ \A o \in left : o.by = r /\ o.does # "write"
  BY <1>1, LeavableIs
<1>17. /\ orphans' \subseteq Commands
       /\ \A o \in orphans' : o \in orphans \/ (o.by = r /\ o.does # "write")
       /\ record.alone => UNCHANGED orphans /\ PackageOK(r)'
  BY <1>2, <1>13, <1>15, <1>16 DEF IInv, TypeOK
<1>18. /\ \A q \in Runs \ {r} : \A a \in Artifacts : scratch'[a].by = q => scratch[a].by = q
       /\ \A a \in Artifacts : scratch'[a].by = r => scratch[a].by = r \/ a \in record.clean
  BY <1>12
<1>19. record.alone => run[r].alone
  BY <1>15
<1>20. scratch' \in [Artifacts -> File]
  BY <1>12
<1> QED
  BY <1>8, <1>10, <1>14, <1>17, <1>18, <1>19, <1>20, PackInv

(* What writing one file of the package does to the scratch directory.     *)
LEMMA WriteFile ==
  ASSUME IInv, NEW r \in Runs, NEW a \in Artifacts, NEW b \in BOOLEAN,
         scratch' = [scratch EXCEPT ![a] = [by |-> r, whole |-> b]]
  PROVE  /\ scratch' \in [Artifacts -> File]
         /\ scratch'[a] = [by |-> r, whole |-> b]
         /\ \A d \in Artifacts \ {a} : scratch'[d] = scratch[d]
         /\ \A q \in Runs \ {r} : \A d \in Artifacts : scratch'[d].by = q => scratch[d].by = q
<1>1. [by |-> r, whole |-> b] \in File
  BY DEF File
<1> QED
  BY <1>1 DEF IInv, TypeOK

(* The case of a file that is whole and registered.                        *)
LEMMA ExportedInv ==
  ASSUME IInv, NEW r \in Runs, run[r].pc = "volumes", NEW a \in run[r].todo,
         scratch' = [scratch EXCEPT ![a] = [by |-> r, whole |-> TRUE]],
         Set(r, ToVolumes([run[r] EXCEPT !.todo = @ \ {a}, !.clean = @ \union {a}])),
         UNCHANGED <<orphans, script, row, whole, job, container>>
  PROVE  IInv'
<1>1. run[r] \in RunState /\ run[r].pc \in Before /\ RunOK(r)
  BY DEF IInv, TypeOK, Before
<1>2. /\ run[r].todo \in SUBSET Artifacts /\ run[r].clean \in SUBSET Artifacts
      /\ a \in Artifacts /\ run[r].todo \subseteq Volumes
  BY <1>1 DEF RunState, RunOK, LeftOK
<1>3. PICK record \in RunState :
         /\ record = ToVolumes([run[r] EXCEPT !.todo = run[r].todo \ {a},
                                              !.clean = run[r].clean \union {a}])
         /\ Onwards(record, run[r], run[r].todo \ {a}, run[r].clean \union {a})
  <2>1. run[r].todo \ {a} \in SUBSET Artifacts /\ run[r].clean \union {a} \in SUBSET Artifacts
    BY <1>2
  <2> QED BY <1>1, <2>1, ToVolumesIs
<1>4. run' = [run EXCEPT ![r] = record] /\ run'[r] = record
  BY <1>3 DEF Set, IInv, TypeOK
<1>5. /\ scratch' \in [Artifacts -> File]
      /\ Made(r, a)'
      /\ \A d \in Artifacts \ {a} : scratch'[d] = scratch[d]
      /\ \A q \in Runs \ {r} : \A d \in Artifacts : scratch'[d].by = q => scratch[d].by = q
  BY <1>2, WriteFile DEF Made
<1>6. ASSUME run[r].alone PROVE PackageOK(r)'
  <2>1. \A b \in Archives \ run[r].todo : Made(r, b)
    BY <1>1, <1>6 DEF RunOK, WholeOK, PackageOK
  <2>2. container' = container /\ Archives' = Archives /\ Contents' = Contents
    BY DEF Archives, Contents
  <2>3. \A b \in Archives \ record.todo : Made(r, b)'
    BY <1>3, <1>5, <2>1, <2>2, ArchivesAre DEF Onwards, Made
  <2>4. record.pc = "compose" => Contents = Archives
    BY <1>3 DEF Contents, Onwards
  <2>5. record.pc # "volumes" => \A b \in Archives : Made(r, b)'
    BY <1>3, <2>3 DEF Onwards
  <2> QED BY <1>3, <1>4, <2>2, <2>3, <2>4, <2>5 DEF PackageOK, Onwards
<1>7. /\ record.pc \in Before /\ run[r].clean \subseteq record.clean
      /\ record.alone = run[r].alone /\ record.tracked = run[r].tracked
      /\ record.aborted = run[r].aborted /\ record.todo \subseteq Volumes
      /\ a \in record.clean /\ record.dirty = run[r].dirty
  BY <1>2, <1>3 DEF Before, Onwards
<1>8. run' = [run EXCEPT ![r] = record]
  BY <1>4
<1>9. /\ \A q \in Runs \ {r} : \A d \in Artifacts : scratch'[d].by = q => scratch[d].by = q
      /\ \A d \in Artifacts : scratch'[d].by = r => scratch[d].by = r \/ d \in record.clean
  BY <1>5, <1>7
<1>10. /\ orphans' \subseteq Commands /\ \A o \in orphans' : o \in orphans
       /\ record.alone => UNCHANGED orphans /\ PackageOK(r)'
  BY <1>6, <1>7, NoneLeft
<1>11. /\ run[r].pc \in Before /\ scratch' \in [Artifacts -> File]
       /\ record.alone => run[r].alone
       /\ record.pc = "volumes" => record.todo \subseteq Volumes
       /\ UNCHANGED <<script, row, whole, job, container>>
       /\ \A o \in orphans' : o \in orphans \/ (o.by = r /\ o.does # "write")
  BY <1>1, <1>5, <1>7, <1>10
<1> QED
  BY <1>7, <1>8, <1>9, <1>10, <1>11, PackInv

LEMMA ExportInv == ASSUME IInv, NEW r \in Runs, Export(r) PROVE IInv'
<1>1. run[r] \in RunState /\ run[r].pc = "volumes" /\ run[r].pc \in Before /\ RunOK(r)
  BY DEF IInv, TypeOK, Export, Before
<1>2. UNCHANGED <<script, row, whole, job, container>>
  BY DEF Export, repository
<1>3. PICK a \in run[r].todo :
         \/ /\ scratch' = [scratch EXCEPT ![a] = [by |-> r, whole |-> TRUE]]
            /\ Set(r, ToVolumes([run[r] EXCEPT !.todo = @ \ {a}, !.clean = @ \union {a}]))
            /\ UNCHANGED orphans
         \/ /\ \/ UNCHANGED scratch
               \/ \E complete \in BOOLEAN :
                     scratch' = [scratch EXCEPT ![a] = [by |-> r, whole |-> complete]]
            /\ Abort(r, FALSE)
  BY DEF Export
<1>4. CASE Abort(r, FALSE) /\ UNCHANGED scratch
  BY <1>1, <1>2, <1>4, PlainAbortInv
<1>5. ASSUME Abort(r, FALSE), NEW b \in BOOLEAN,
             scratch' = [scratch EXCEPT ![a] = [by |-> r, whole |-> b]]
      PROVE  IInv'
  <2>1. /\ run[r].clean \in SUBSET Artifacts /\ a \in Artifacts /\ a # Dump
        /\ Dump \in Artifacts
    BY <1>1, ArchivesAre DEF RunState, RunOK, LeftOK
  <2>2. /\ scratch' \in [Artifacts -> File]
        /\ \A d \in Artifacts \ {a} : scratch'[d] = scratch[d]
        /\ \A q \in Runs \ {r} : \A d \in Artifacts : scratch'[d].by = q => scratch[d].by = q
    BY <1>5, <2>1, WriteFile
  <2>3. scratch'[Dump].by = r => scratch[Dump].by = r \/ Dump \in run[r].clean
    BY <2>1, <2>2
  <2>4. AbortFrom(r, [run[r] EXCEPT !.clean = run[r].clean], FALSE)
    <3>1. [run[r] EXCEPT !.clean = run[r].clean] = run[r]
      BY <1>1 DEF RunState
    <3> QED BY <1>5, <3>1 DEF Abort
  <2> QED BY <1>1, <1>2, <2>1, <2>2, <2>3, <2>4, AbortInv
<1> QED
  BY <1>1, <1>2, <1>3, <1>4, <1>5, ExportedInv

LEMMA HotDumpInv == ASSUME IInv, NEW r \in Runs, HotDump(r) PROVE IInv'
<1> DEFINE c == run[r].clean \union {Dump}
<1>1. run[r] \in RunState /\ run[r].pc = "dump" /\ run[r].pc \in Before /\ RunOK(r)
  BY DEF IInv, TypeOK, HotDump, Before
<1>2. UNCHANGED <<script, row, whole, job, container>>
  BY DEF HotDump, repository
<1>3. c \in SUBSET Artifacts /\ Dump \in Artifacts /\ run[r].clean \subseteq c /\ Dump \in c
  BY <1>1, ArchivesAre DEF RunState
<1>4. \/ /\ scratch' = [scratch EXCEPT ![Dump] = [by |-> r, whole |-> TRUE]]
         /\ Set(r, [[run[r] EXCEPT !.clean = c] EXCEPT !.pc = "compose"])
         /\ UNCHANGED orphans
      \/ /\ \/ UNCHANGED scratch
            \/ \E complete \in BOOLEAN :
                  scratch' = [scratch EXCEPT ![Dump] = [by |-> r, whole |-> complete]]
         /\ AbortFrom(r, [run[r] EXCEPT !.clean = c], FALSE)
  BY DEF HotDump
<1> HIDE DEF c
<1>5. CASE /\ scratch' = [scratch EXCEPT ![Dump] = [by |-> r, whole |-> TRUE]]
           /\ Set(r, [[run[r] EXCEPT !.clean = c] EXCEPT !.pc = "compose"])
           /\ UNCHANGED orphans
  <2>1. PICK record \in RunState : record = [[run[r] EXCEPT !.clean = c] EXCEPT !.pc = "compose"]
    BY <1>1, <1>3 DEF RunState, Pcs, Before
  <2>2. /\ record.pc = "compose" /\ record.clean = c /\ record.alone = run[r].alone
        /\ record.tracked = run[r].tracked /\ record.aborted = run[r].aborted
        /\ record.dirty = run[r].dirty
    BY <1>1, <2>1 DEF RunState
  <2>3. run' = [run EXCEPT ![r] = record] /\ run'[r] = record
    BY <1>5, <2>1 DEF Set, IInv, TypeOK
  <2>4. /\ scratch' \in [Artifacts -> File]
        /\ Made(r, Dump)'
        /\ \A d \in Artifacts \ {Dump} : scratch'[d] = scratch[d]
        /\ \A q \in Runs \ {r} : \A d \in Artifacts : scratch'[d].by = q => scratch[d].by = q
    BY <1>3, <1>5, WriteFile DEF Made
  <2>5. \A d \in Artifacts : scratch'[d].by = r => scratch[d].by = r \/ d \in record.clean
    BY <1>3, <2>2, <2>4
  <2>6. ASSUME run[r].alone PROVE PackageOK(r)'
    <3>1. \A a \in Archives : Made(r, a)
      BY <1>1, <2>6 DEF RunOK, WholeOK, PackageOK
    <3>2. Contents' = Contents /\ Contents \subseteq Archives \union {Dump}
      BY <1>2 DEF Contents, Archives
    <3>3. \A a \in Contents : Made(r, a)'
      BY <2>4, <3>1, <3>2, ArchivesAre DEF Made
    <3> QED BY <2>2, <2>3, <3>2, <3>3 DEF PackageOK
  <2>7. record.pc \in Before /\ run[r].clean \subseteq record.clean /\ record.pc # "volumes"
    BY <1>3, <2>2 DEF Before
  <2>8. /\ orphans' \subseteq Commands /\ \A o \in orphans' : o \in orphans
        /\ record.alone => UNCHANGED orphans /\ PackageOK(r)'
    BY <1>5, <2>2, <2>6, NoneLeft
  <2>9. /\ record.alone => run[r].alone
        /\ \A o \in orphans' : o \in orphans \/ (o.by = r /\ o.does # "write")
    BY <2>2, <2>8
  <2>10. run' = [run EXCEPT ![r] = record] /\ scratch' \in [Artifacts -> File]
    BY <2>3, <2>4
  <2>11. \A q \in Runs \ {r} : \A d \in Artifacts : scratch'[d].by = q => scratch[d].by = q
    BY <2>4
  <2> QED BY <1>1, <1>2, <2>2, <2>5, <2>7, <2>8, <2>9, <2>10, <2>11, PackInv
<1>6. CASE AbortFrom(r, [run[r] EXCEPT !.clean = c], FALSE)
           /\ (UNCHANGED scratch \/ \E complete \in BOOLEAN :
                  scratch' = [scratch EXCEPT ![Dump] = [by |-> r, whole |-> complete]])
  <2>1. /\ scratch' \in [Artifacts -> File]
        /\ \A q \in Runs \ {r} : \A d \in Artifacts : scratch'[d].by = q => scratch[d].by = q
    <3>1. CASE UNCHANGED scratch
      BY <3>1 DEF IInv, TypeOK
    <3>2. CASE \E complete \in BOOLEAN :
                  scratch' = [scratch EXCEPT ![Dump] = [by |-> r, whole |-> complete]]
      <4>1. PICK complete \in BOOLEAN :
               scratch' = [scratch EXCEPT ![Dump] = [by |-> r, whole |-> complete]]
        BY <3>2
      <4>2. Dump \in Artifacts
        BY <1>3
      <4> QED BY <4>1, <4>2, WriteFile
    <3> QED BY <1>6, <3>1, <3>2
  <2> QED BY <1>1, <1>2, <1>3, <1>6, <2>1, AbortInv
<1> QED BY <1>4, <1>5, <1>6

LEMMA WriteComposeInv == ASSUME IInv, NEW r \in Runs, WriteCompose(r) PROVE IInv'
<1>1. /\ run[r].pc = "compose" /\ run[r].pc \in Before
      /\ run[r].pc # "dump" /\ RunOK(r)
      /\ UNCHANGED <<scratch, script, row, whole, job, container>>
  BY DEF WriteCompose, repository, target, Before, IInv
<1>2. CASE Abort(r, FALSE)
  BY <1>1, <1>2, PlainAbortInv
<1>3. CASE To(r, "manifest") /\ UNCHANGED orphans
  <2>1. run'[r].pc = "manifest"
    BY <1>3 DEF To, Set, IInv, TypeOK, RunState
  <2>2. Contents' = Contents /\ \A a \in Contents : Made(r, a)' <=> Made(r, a)
    BY <1>1 DEF Contents, Archives, Made
  <2>3. run[r].alone => PackageOK(r)'
    BY <1>1, <2>1, <2>2 DEF PackageOK, RunOK, WholeOK
  <2> QED BY <1>1, <1>3, <2>3, GoInv DEF Before
<1> QED BY <1>2, <1>3 DEF WriteCompose

LEMMA WriteManifestInv == ASSUME IInv, NEW r \in Runs, WriteManifest(r) PROVE IInv'
<1>1. /\ run[r].pc = "manifest" /\ run[r].pc \in Before
      /\ run[r].pc # "dump" /\ RunOK(r)
      /\ UNCHANGED <<scratch, script, row, whole, job, container>>
  BY DEF WriteManifest, repository, Before, IInv
<1>2. CASE Abort(r, FALSE)
  BY <1>1, <1>2, PlainAbortInv
<1>3. CASE To(r, "execute") /\ UNCHANGED orphans /\ manifest' = r
  <2>1. run'[r].pc = "execute"
    BY <1>3 DEF To, Set, IInv, TypeOK, RunState
  <2>2. Contents' = Contents
    BY <1>1 DEF Contents, Archives
  <2>3. ASSUME run[r].alone PROVE PackageOK(r)'
    <3>1. \A a \in Contents : Made(r, a)
      BY <1>1, <2>3 DEF PackageOK, RunOK, WholeOK
    <3>2. Packaged(r)'
      BY <1>1, <1>3, <2>2, <3>1 DEF Packaged, Made
    <3> QED BY <2>1, <3>2 DEF PackageOK
  <2> QED BY <1>1, <1>3, <2>3, GoInv DEF Before
<1> QED BY <1>2, <1>3 DEF WriteManifest

(* The script of a run begins.                                             *)
LEMMA ExecuteInv == ASSUME IInv, NEW r \in Runs, Execute(r) PROVE IInv'
<1>1. /\ run[r].pc = "execute" /\ run[r].pc \in Before /\ RunOK(r) /\ Active(r)
      /\ UNCHANGED <<scratch, manifest, row, whole, job, container>>
      /\ run[r] \in RunState /\ run[r].pc # "dump"
  BY DEF Execute, target, Before, IInv, TypeOK, Active
<1>2. CASE Abort(r, FALSE) /\ UNCHANGED script
  BY <1>1, <1>2, PlainAbortInv
<1>3. CASE StartScript(r) /\ To(r, "script") /\ UNCHANGED orphans
  <2>1. PICK record \in RunState : record = [run[r] EXCEPT !.pc = "script"]
    BY <1>1 DEF RunState, Pcs, After
  <2>2. /\ record.pc = "script" /\ record.alone = run[r].alone /\ record.clean = run[r].clean
        /\ record.tracked = run[r].tracked /\ record.aborted = run[r].aborted
        /\ record.dirty = run[r].dirty
    BY <1>1, <2>1 DEF RunState
  <2>3. run' = [run EXCEPT ![r] = record] /\ run'[r] = record
    BY <1>3, <2>1 DEF To, Set, IInv, TypeOK
  <2>4. /\ script' \in [Scripts -> ScriptStates] /\ script[r] = "idle" /\ script'[r] = "check"
        /\ \A x \in Runs \ {r} : script'[x] = script[x]
    BY <1>3, ScriptOfRun DEF StartScript, Goto, IInv, TypeOK, ScriptStates
  <2>5. RowOK(r)'
    BY <1>1, <2>2, <2>3, <2>4 DEF RunOK, RowOK, Opened, Before
  <2>6. LeftOK(r)'
    BY <1>1, <2>2, <2>3 DEF RunOK, LeftOK, Active
  <2>7. Packaged(r)' <=> Packaged(r)
    BY <1>1 DEF Packaged, Contents, Archives
  <2>8. WholeOK(r)'
    BY <1>1, <2>2, <2>3, <2>4, <2>7 DEF RunOK, WholeOK, PackageOK
  <2>9. RunOK(r)'
    <3>1. OrphansOK(r)'
      BY <1>1, <1>3, <2>2, <2>3, OwnOrphans DEF Active, After
    <3> QED BY <2>5, <2>6, <2>8, <3>1 DEF RunOK
  <2>10. /\ scratch' \in [Artifacts -> File] /\ row' \in [Runs -> RowStates]
         /\ job' \in {job, r} /\ record.pc # "idle"
    BY <1>1, <2>2 DEF IInv, TypeOK
  <2>11. /\ orphans' \subseteq Commands /\ \A o \in orphans' : o \in orphans \/ o.by = r
         /\ record.alone => orphans' = {}
    BY <1>1, <1>3, <2>2, NoneLeft DEF Packing
  <2> QED BY <1>1, <2>2, <2>3, <2>4, <2>9, <2>10, <2>11, OwnStep
<1> QED BY <1>2, <1>3 DEF Execute

-----------------------------------------------------------------------------
(* The end of the script, and the deferred functions.                      *)
LEMMA EndScriptInv == ASSUME IInv, NEW r \in Runs, EndScript(r) PROVE IInv'
<1>1. /\ run[r].pc = "script" /\ RunOK(r) /\ Active(r) /\ run[r] \in RunState
      /\ UNCHANGED <<scratch, manifest, script, orphans, whole, job, container>>
  BY DEF EndScript, repository, target, After, IInv, TypeOK, Active
<1>2. PICK written \in BOOLEAN, status \in RowStates, pc \in {"persist", "cleanup"} :
         /\ row' = IF written THEN [row EXCEPT ![r] = status] ELSE row
         /\ status # "running" /\ (status = "success" => script[r] = "success")
         /\ pc = "persist" => script[r] = "success"
         /\ run' = [run EXCEPT ![r] = [run[r] EXCEPT !.refused = ~written, !.pc = pc]]
  BY DEF EndScript, Set, RowStates
<1>3. PICK record \in RunState : record = [run[r] EXCEPT !.refused = ~written, !.pc = pc]
  BY <1>1 DEF RunState, Pcs, After
<1>4. /\ record.pc = pc /\ record.refused = ~written /\ record.alone = run[r].alone
      /\ record.clean = run[r].clean /\ record.tracked = run[r].tracked
      /\ record.aborted = run[r].aborted /\ record.dirty = run[r].dirty
  BY <1>1, <1>3 DEF RunState
<1>5. run' = [run EXCEPT ![r] = record] /\ run'[r] = record
  BY <1>2, <1>3 DEF IInv, TypeOK
<1>6. /\ row' \in [Runs -> RowStates] /\ \A q \in Runs \ {r} : row'[q] = row[q]
      /\ row'[r] = IF written THEN status ELSE row[r]
  BY <1>2 DEF IInv, TypeOK
<1>7. RowOK(r)'
  BY <1>1, <1>2, <1>4, <1>5, <1>6 DEF RunOK, RowOK, Opened, Before
<1>8. LeftOK(r)'
  BY <1>1, <1>2, <1>4, <1>5 DEF RunOK, LeftOK, Active
<1>9. WholeOK(r)'
  <2>1. row'[r] = "success" \/ job = r => script[r] = "success"
    BY <1>1, <1>2, <1>6 DEF RunOK, RowOK
  <2> QED BY <1>1, <1>2, <1>4, <1>5, <2>1 DEF RunOK, WholeOK, PackageOK
<1>10. RunOK(r)'
  <2>1. OrphansOK(r)'
    BY <1>1, <1>2, <1>4, <1>5, OwnOrphans DEF Active, After
  <2> QED BY <1>7, <1>8, <1>9, <2>1 DEF RunOK
<1>11. /\ scratch' \in [Artifacts -> File] /\ script' \in [Scripts -> ScriptStates]
       /\ job' \in {job, r} /\ record.pc \notin {"idle", "script"} \union Before
  BY <1>1, <1>2, <1>4 DEF IInv, TypeOK, Before
<1>12. orphans' \subseteq Commands /\ \A o \in orphans' : o \in orphans \/ o.by = r
  BY <1>1, NoneLeft
<1> QED
  BY <1>1, <1>4, <1>5, <1>6, <1>10, <1>11, <1>12, OwnStep

LEMMA PersistInv == ASSUME IInv, NEW r \in Runs, Persist(r) PROVE IInv'
<1>1. /\ run[r].pc = "persist" /\ RunOK(r) /\ Active(r) /\ run[r] \in RunState
      /\ UNCHANGED <<scratch, manifest, script, orphans, row, whole, container>>
      /\ job' \in {job, r} /\ To(r, "cleanup")
  BY DEF Persist, repository, target, After, IInv, TypeOK, Active
<1>2. PICK record \in RunState : record = [run[r] EXCEPT !.pc = "cleanup"]
  BY <1>1 DEF RunState, Pcs, After
<1>3. /\ record.pc = "cleanup" /\ record.refused = run[r].refused
      /\ record.alone = run[r].alone
      /\ record.clean = run[r].clean /\ record.tracked = run[r].tracked
      /\ record.aborted = run[r].aborted /\ record.dirty = run[r].dirty
  BY <1>1, <1>2 DEF RunState
<1>4. run' = [run EXCEPT ![r] = record] /\ run'[r] = record
  BY <1>1, <1>2 DEF To, Set, IInv, TypeOK
<1>5. RowOK(r)'
  BY <1>1, <1>3, <1>4 DEF RunOK, RowOK, Opened, Before
<1>6. LeftOK(r)'
  BY <1>1, <1>3, <1>4 DEF RunOK, LeftOK, Active
<1>7. WholeOK(r)'
  BY <1>1, <1>3, <1>4 DEF RunOK, WholeOK, PackageOK
<1>8. RunOK(r)'
  <2>1. OrphansOK(r)'
    BY <1>1, <1>3, <1>4, OwnOrphans DEF Active, After
  <2> QED BY <1>5, <1>6, <1>7, <2>1 DEF RunOK
<1>9. /\ scratch' \in [Artifacts -> File] /\ script' \in [Scripts -> ScriptStates]
      /\ row' \in [Runs -> RowStates] /\ record.pc \notin {"idle", "script"} \union Before
  BY <1>1, <1>3 DEF IInv, TypeOK, Before
<1>10. orphans' \subseteq Commands /\ \A o \in orphans' : o \in orphans \/ o.by = r
  BY <1>1, NoneLeft
<1> QED
  BY <1>1, <1>3, <1>4, <1>8, <1>9, <1>10, OwnStep

LEMMA CleanupInv == ASSUME IInv, NEW r \in Runs, Cleanup(r) PROVE IInv'
<1>1. /\ run[r].pc = "cleanup" /\ RunOK(r) /\ Active(r) /\ run[r] \in RunState
      /\ UNCHANGED <<manifest, script, row, whole, job, container>>
  BY DEF Cleanup, repository, target, After, IInv, TypeOK, Active
<1>2. PICK kept \in {{}, run[r].clean}, left \in Leavable(r) :
         /\ scratch' = [a \in Artifacts |->
                          IF a \in run[r].clean \ kept THEN Absent ELSE scratch[a]]
         /\ orphans' = orphans \union left
         /\ run' = [run EXCEPT ![r] = [run[r] EXCEPT !.pc = "finalize", !.dirty = @ \/ kept # {}]]
  BY DEF Cleanup, Set
<1>3. PICK d \in BOOLEAN, record \in RunState :
         /\ d = (run[r].dirty \/ kept # {})
         /\ record = [run[r] EXCEPT !.pc = "finalize", !.dirty = d]
  BY <1>1 DEF RunState, Pcs, After
<1>4. /\ record.pc = "finalize" /\ record.refused = run[r].refused
      /\ record.alone = run[r].alone /\ record.tracked = run[r].tracked
      /\ record.aborted = run[r].aborted /\ record.clean = run[r].clean
      /\ (run[r].dirty => record.dirty) /\ (~record.dirty => kept = {})
  BY <1>1, <1>3 DEF RunState
<1>5. run' = [run EXCEPT ![r] = record] /\ run'[r] = record
  BY <1>2, <1>3 DEF IInv, TypeOK
<1>6. Absent \in File /\ Absent.by = Nobody
  BY DEF Absent, File
<1>7. /\ scratch' \in [Artifacts -> File]
      /\ \A q \in Runs : \A a \in Artifacts : scratch'[a].by = q => scratch[a].by = q
      /\ kept = {} => \A a \in Artifacts : scratch'[a].by = r => a \notin run[r].clean
  BY <1>2, <1>6, ScriptOfRun DEF IInv, TypeOK
<1>8. RowOK(r)'
  BY <1>1, <1>4, <1>5 DEF RunOK, RowOK, Opened, Before
<1>9. LeftOK(r)'
  <2>1. /\ scratch[Dump].by = r => Dump \in run[r].clean
        /\ run[r].aborted = "no" =>
              \A a \in Artifacts : scratch[a].by = r => a \in run[r].clean
    BY <1>1 DEF RunOK, LeftOK
  <2>2. kept = {} => /\ scratch'[Dump].by # r
                     /\ run[r].aborted = "no" => \A a \in Artifacts : scratch'[a].by # r
    BY <1>7, <2>1, ArchivesAre
  <2> QED BY <1>4, <1>5, <2>2 DEF LeftOK
<1>10. WholeOK(r)'
  BY <1>1, <1>4, <1>5 DEF RunOK, WholeOK, PackageOK
<1>11. /\ orphans' \subseteq Commands /\ \A o \in orphans' : o \in orphans \/ o.by = r
       /\ \A o \in orphans' : o.does = "write" => o \in orphans
  BY <1>1, <1>2, LeavableIs DEF IInv, TypeOK
<1>13. RunOK(r)'
  <2>1. OrphansOK(r)'
    BY <1>1, <1>4, <1>5, <1>11, OwnOrphans DEF Active, After
  <2> QED BY <1>8, <1>9, <1>10, <2>1 DEF RunOK
<1>12. /\ script' \in [Scripts -> ScriptStates] /\ job' \in {job, r}
       /\ row' \in [Runs -> RowStates] /\ record.pc \notin {"idle", "script"} \union Before
  BY <1>1, <1>4 DEF IInv, TypeOK, Before
<1> QED
  BY <1>1, <1>4, <1>5, <1>7, <1>11, <1>12, <1>13, OwnStep

(* What a run keeps of itself when it has ended.                           *)
Over(record, old, how) ==
   /\ record.pc = how
   /\ record.alone = old.alone
   /\ record.refused = old.refused
   /\ record.dirty = old.dirty

LEMMA EndedIs ==
  ASSUME NEW old \in RunState, NEW how \in {"done", "killed"}
  PROVE  \E record \in RunState : record = Ended(old, how) /\ Over(record, old, how)
<1>1. NotStarted \in RunState /\ how \in Pcs
  BY NotStartedTyped DEF Pcs
<1>2. PICK record \in RunState :
         record = [NotStarted EXCEPT !.pc = how, !.alone = old.alone,
                                     !.refused = old.refused, !.dirty = old.dirty]
  BY <1>1 DEF RunState
<1>3. Over(record, old, how)
  BY <1>1, <1>2 DEF RunState, Over
<1> QED BY <1>2, <1>3 DEF Ended

LEMMA FinalizeInv == ASSUME IInv, NEW r \in Runs, Finalize(r) PROVE IInv'
<1>1. /\ run[r].pc = "finalize" /\ RunOK(r) /\ Active(r) /\ run[r] \in RunState
      /\ UNCHANGED <<scratch, manifest, script, orphans, whole, job, container>>
  BY DEF Finalize, repository, target, After, IInv, TypeOK, Active
<1>2. PICK record \in RunState :
         /\ run' = [run EXCEPT ![r] = record]
         /\ record.pc = "done" /\ record.alone = run[r].alone /\ record.dirty = run[r].dirty
         /\ \/ /\ run[r].aborted # "no" /\ row' = [row EXCEPT ![r] = run[r].aborted]
            \/ record.refused /\ row' = row
            \/ /\ ~(run[r].aborted # "no" /\ run[r].tracked)
               /\ record.refused = run[r].refused /\ row' = row
  <2>1. CASE run[r].aborted # "no" /\ run[r].tracked
    <3>1. PICK written \in BOOLEAN :
             /\ row' = IF written THEN [row EXCEPT ![r] = run[r].aborted] ELSE row
             /\ Set(r, Ended([run[r] EXCEPT !.refused = ~written], "done"))
      BY <2>1 DEF Finalize
    <3>2. PICK old \in RunState : old = [run[r] EXCEPT !.refused = ~written]
      BY <1>1 DEF RunState
    <3>3. old.refused = ~written /\ old.alone = run[r].alone /\ old.dirty = run[r].dirty
      BY <1>1, <3>2 DEF RunState
    <3>4. PICK record \in RunState : record = Ended(old, "done") /\ Over(record, old, "done")
      BY EndedIs
    <3>5. run' = [run EXCEPT ![r] = record]
      BY <3>1, <3>2, <3>4 DEF Set
    <3>6. /\ record.pc = "done" /\ record.alone = run[r].alone /\ record.dirty = run[r].dirty
          /\ record.refused = ~written
      BY <3>3, <3>4 DEF Over
    <3>7. \/ run[r].aborted # "no" /\ row' = [row EXCEPT ![r] = run[r].aborted]
          \/ record.refused /\ row' = row
      BY <2>1, <3>1, <3>6
    <3> QED BY <3>5, <3>6, <3>7
  <2>2. CASE ~(run[r].aborted # "no" /\ run[r].tracked)
    <3>1. Set(r, Ended(run[r], "done")) /\ row' = row
      BY <2>2 DEF Finalize
    <3>2. PICK record \in RunState : record = Ended(run[r], "done") /\ Over(record, run[r], "done")
      BY <1>1, EndedIs
    <3>3. run' = [run EXCEPT ![r] = record]
      BY <3>1, <3>2 DEF Set
    <3> QED BY <2>2, <3>1, <3>2, <3>3 DEF Over
  <2> QED BY <2>1, <2>2
<1>3. run'[r] = record
  BY <1>2 DEF IInv, TypeOK
<1>4. run[r].aborted \in {"no", "failed", "canceled"}
  BY <1>1 DEF RunState
<1>5. /\ row' \in [Runs -> RowStates] /\ \A q \in Runs \ {r} : row'[q] = row[q]
      /\ \/ row'[r] \in {"failed", "canceled"} /\ run[r].aborted # "no"
         \/ record.refused /\ row'[r] = row[r]
         \/ /\ ~(run[r].aborted # "no" /\ run[r].tracked)
            /\ record.refused = run[r].refused /\ row'[r] = row[r]
  BY <1>2, <1>4 DEF IInv, TypeOK, RowStates
<1>6. row'[r] = "success" => row[r] = "success" /\ run[r].aborted = "no"
  BY <1>1, <1>5 DEF RunOK, RowOK, Opened
<1>7. RowOK(r)'
  BY <1>1, <1>2, <1>3, <1>5, <1>6 DEF RunOK, RowOK, Opened, Before
<1>8. LeftOK(r)'
  BY <1>1, <1>2, <1>3, <1>6 DEF RunOK, LeftOK, Active, Before, After
<1>9. WholeOK(r)'
  BY <1>1, <1>2, <1>3, <1>6 DEF RunOK, WholeOK, PackageOK
<1>10. RunOK(r)'
  <2>1. OrphansOK(r)'
    BY <1>1, <1>2, <1>3, <1>6 DEF RunOK, OrphansOK, Active, Before, After
  <2> QED BY <1>7, <1>8, <1>9, <2>1 DEF RunOK
<1>11. /\ script' \in [Scripts -> ScriptStates] /\ job' \in {job, r}
       /\ scratch' \in [Artifacts -> File] /\ record.pc \notin {"idle", "script"} \union Before
  BY <1>1, <1>2 DEF IInv, TypeOK, Before
<1>12. orphans' \subseteq Commands /\ \A o \in orphans' : o \in orphans \/ o.by = r
  BY <1>1, NoneLeft
<1> QED
  BY <1>1, <1>2, <1>3, <1>5, <1>10, <1>11, <1>12, OwnStep

LEMMA KillInv == ASSUME IInv, NEW r \in Runs, Kill(r) PROVE IInv'
<1>1. /\ RunOK(r) /\ Active(r) /\ run[r] \in RunState
      /\ UNCHANGED <<scratch, manifest, script, row, whole, job, container>>
      /\ Set(r, Ended(run[r], "killed"))
  BY DEF Kill, repository, target, IInv, TypeOK
<1>2. PICK record \in RunState :
         record = Ended(run[r], "killed") /\ Over(record, run[r], "killed")
  BY <1>1, EndedIs
<1>3. /\ run' = [run EXCEPT ![r] = record] /\ run'[r] = record
      /\ record.pc = "killed" /\ record.alone = run[r].alone
  BY <1>1, <1>2 DEF Set, IInv, TypeOK, Over
<1>4. RowOK(r)'
  BY <1>1, <1>3 DEF RunOK, RowOK, Before
<1>5. LeftOK(r)'
  BY <1>1, <1>3 DEF LeftOK, Active, Before, After
<1>6. WholeOK(r)'
  BY <1>1, <1>3 DEF RunOK, WholeOK, PackageOK
<1>7. RunOK(r)'
  <2>1. OrphansOK(r)'
    BY <1>3 DEF OrphansOK, Active, Before, After
  <2> QED BY <1>4, <1>5, <1>6, <2>1 DEF RunOK
<1>8. /\ scratch' \in [Artifacts -> File] /\ script' \in [Scripts -> ScriptStates]
      /\ row' \in [Runs -> RowStates] /\ job' \in {job, r} /\ record.pc \notin {"idle", "script"} \union Before
  BY <1>1, <1>3 DEF IInv, TypeOK, Before
<1>9. orphans' \subseteq Commands /\ \A o \in orphans' : o \in orphans \/ o.by = r
  BY LeavableIs DEF Kill, IInv, TypeOK
<1> QED
  BY <1>1, <1>3, <1>7, <1>8, <1>9, OwnStep

LEMMA InterruptInv == ASSUME IInv, NEW r \in Runs, Interrupt(r) PROVE IInv'
<1>1. /\ RunOK(r) /\ Active(r) /\ run[r] \in RunState
      /\ UNCHANGED <<scratch, manifest, script, orphans, row, whole, job, container>>
      /\ Set(r, [run[r] EXCEPT !.interrupted = TRUE])
  BY DEF Interrupt, repository, target, IInv, TypeOK
<1>2. PICK record \in RunState : record = [run[r] EXCEPT !.interrupted = TRUE]
  BY <1>1 DEF RunState
<1>3. /\ run' = [run EXCEPT ![r] = record] /\ run'[r] = record
      /\ record.pc = run[r].pc /\ record.alone = run[r].alone
      /\ record.todo = run[r].todo /\ record.clean = run[r].clean
      /\ record.refused = run[r].refused /\ record.dirty = run[r].dirty
      /\ record.tracked = run[r].tracked /\ record.aborted = run[r].aborted
  BY <1>1, <1>2 DEF Set, IInv, TypeOK, RunState
<1>4. RowOK(r)'
  BY <1>1, <1>3 DEF RunOK, RowOK, Opened
<1>5. LeftOK(r)'
  BY <1>1, <1>3 DEF RunOK, LeftOK, Active
<1>6. WholeOK(r)'
  <2>1. Contents' = Contents /\ Archives' = Archives /\ (Packaged(r)' <=> Packaged(r))
        /\ \A a \in Artifacts : Made(r, a)' <=> Made(r, a)
    BY <1>1 DEF Contents, Archives, Packaged, Made
  <2>2. PackageOK(r)' <=> PackageOK(r)
    BY <1>1, <1>3, <2>1 DEF PackageOK, Made
  <2> QED BY <1>1, <1>3, <2>2 DEF RunOK, WholeOK
<1>7. RunOK(r)'
  <2>1. OrphansOK(r)'
    BY <1>1, <1>3, OwnOrphans DEF Active
  <2> QED BY <1>4, <1>5, <1>6, <2>1 DEF RunOK
<1>8. /\ scratch' \in [Artifacts -> File] /\ script' \in [Scripts -> ScriptStates]
      /\ row' \in [Runs -> RowStates] /\ job' \in {job, r} /\ record.pc # "idle"
  BY <1>1, <1>3 DEF IInv, TypeOK, Active, Before, After
<1>9. /\ orphans' \subseteq Commands /\ \A o \in orphans' : o \in orphans \/ o.by = r
      /\ record.alone /\ record.pc \in Before \union {"script"} => orphans' = {}
  BY <1>1, <1>3, NoneLeft DEF Packing
<1> QED
  BY <1>1, <1>3, <1>7, <1>8, <1>9, OwnStep

-----------------------------------------------------------------------------
(* A run that nothing happens to, but that may not be alone any more.      *)
LEMMA Untouched ==
  ASSUME IInv, NEW q \in Runs, run'[q].pc = run[q].pc, run'[q].todo = run[q].todo,
         run'[q].clean = run[q].clean, run'[q].tracked = run[q].tracked,
         run'[q].aborted = run[q].aborted, run'[q].refused = run[q].refused,
         run'[q].dirty = run[q].dirty, run'[q].alone => run[q].alone,
         row'[q] = row[q], script'[q] = script[q], whole'[q] = whole[q],
         UNCHANGED <<scratch, manifest, orphans, container, job>>
  PROVE  RunOK(q)'
<1>1. RunOK(q)
  BY DEF IInv
<1>2. RowOK(q)'
  BY <1>1 DEF RunOK, RowOK, Opened
<1>3. LeftOK(q)'
  BY <1>1 DEF RunOK, LeftOK, Active
<1>4. PackageOK(q)' <=> PackageOK(q)
  BY DEF PackageOK, Contents, Archives, Packaged, Made
<1>5. WholeOK(q)'
  BY <1>1, <1>4 DEF RunOK, WholeOK
<1>6. OrphansOK(q)'
  BY <1>1 DEF RunOK, OrphansOK, Active
<1> QED BY <1>2, <1>3, <1>5, <1>6 DEF RunOK

LEMMA BeginInv == ASSUME IInv, NEW r \in Runs, Begin(r) PROVE IInv'
<1> DEFINE others == {o \in Runs \ {r} : Active(o)}
<1>1. /\ run[r].pc = "idle" /\ script[r] = "idle" /\ RunOK(r) /\ run[r] \in RunState
      /\ UNCHANGED <<scratch, manifest, script, orphans, whole, job, container>>
  BY DEF Begin, repository, target, IInv, TypeOK
<1>2. PICK recorded \in BOOLEAN :
         /\ row' = IF recorded THEN [row EXCEPT ![r] = "running"] ELSE row
         /\ run' = [o \in Runs |->
                      IF o = r
                      THEN [run[r] EXCEPT
                              !.pc = IF recorded \/ r \in Untracked THEN "inspect"
                                     ELSE "done",
                              !.tracked = recorded,
                              !.alone = others = {} /\ orphans = {}]
                      ELSE IF o \in others THEN [run[o] EXCEPT !.alone = FALSE]
                      ELSE run[o]]
  BY DEF Begin
<1>3. PICK pc \in {"inspect", "done"} :
         /\ pc = IF recorded \/ r \in Untracked THEN "inspect" ELSE "done"
         /\ pc = "done" => ~recorded
  OBVIOUS
<1>4. PICK al \in BOOLEAN, record \in RunState :
         /\ al = (others = {} /\ orphans = {})
         /\ record = [run[r] EXCEPT !.pc = pc, !.tracked = recorded, !.alone = al]
  BY <1>1, <1>3 DEF RunState, Pcs, Before
<1>5. /\ run'[r] = record /\ record.pc = pc /\ record.tracked = recorded
      /\ record.aborted = "no" /\ (record.alone => others = {} /\ orphans = {})
      /\ record.clean = run[r].clean
  BY <1>1, <1>2, <1>3, <1>4 DEF RunState, RunOK, RowOK
<1>6. ASSUME NEW q \in Runs \ {r}
      PROVE  /\ run'[q] \in RunState
             /\ run'[q].pc = run[q].pc /\ run'[q].todo = run[q].todo
             /\ run'[q].clean = run[q].clean /\ run'[q].tracked = run[q].tracked
             /\ run'[q].aborted = run[q].aborted /\ run'[q].refused = run[q].refused
             /\ run'[q].dirty = run[q].dirty /\ (run'[q].alone => run[q].alone)
             /\ Active(q) => ~run'[q].alone
  <2>1. run[q] \in RunState
    BY DEF IInv, TypeOK
  <2>2. CASE Active(q)
    <3>1. run'[q] = [run[q] EXCEPT !.alone = FALSE]
      BY <1>2, <2>2
    <3>2. [run[q] EXCEPT !.alone = FALSE] \in RunState
      BY <2>1 DEF RunState
    <3> QED BY <2>1, <3>1, <3>2 DEF RunState
  <2>3. CASE ~Active(q)
    <3>1. run'[q] = run[q]
      BY <1>2, <2>3
    <3> QED BY <2>1, <2>3, <3>1
  <2> QED BY <2>2, <2>3
<1>7. /\ row' \in [Runs -> RowStates] /\ \A q \in Runs \ {r} : row'[q] = row[q]
      /\ row'[r] = IF recorded THEN "running" ELSE "none"
  BY <1>1, <1>2 DEF IInv, TypeOK, RowStates, RunOK, RowOK
<1>8. TypeOK'
  <2>1. run' = [o \in Runs |-> run'[o]]
    BY <1>2
  <2>2. \A o \in Runs : run'[o] \in RunState
    BY <1>5, <1>6
  <2>3. run' \in [Runs -> RunState]
    BY <2>1, <2>2
  <2> QED BY <1>1, <1>7, <2>3 DEF IInv, TypeOK
<1>9. AloneOK'
  <2>1. \A q \in Runs \ {r} : Active(q)' => Active(q) /\ ~run'[q].alone
    BY <1>6 DEF Active
  <2>2. run'[r].alone => \A q \in Runs \ {r} : ~Active(q)
    BY <1>5
  <2>3. \A q \in Runs \ {r} : Packing(q)' => ~run'[q].alone
    BY <1>6 DEF Packing, Active, Before, After
  <2>4. run'[r].alone => orphans' = {}
    BY <1>1, <1>5
  <2> QED BY <2>1, <2>2, <2>3, <2>4 DEF AloneOK
<1>10. RunOK(r)'
  <2>1. RowOK(r)'
    BY <1>1, <1>3, <1>5, <1>7 DEF RunOK, RowOK, Opened, Before
  <2>2. LeftOK(r)'
    BY <1>1, <1>3, <1>5, ArchivesAre DEF RunOK, LeftOK, Active, Before, After
  <2>3. WholeOK(r)'
    BY <1>1, <1>3, <1>5, <1>7 DEF RunOK, RowOK, WholeOK, PackageOK
  <2>4. OrphansOK(r)'
    BY <1>1 DEF RunOK, OrphansOK
  <2> QED BY <2>1, <2>2, <2>3, <2>4 DEF RunOK
<1>11. \A q \in Runs \ {r} : RunOK(q)'
  BY <1>1, <1>6, <1>7, Untouched
<1> QED
  BY <1>8, <1>9, <1>10, <1>11 DEF IInv

(* What one command of a script does to the scripts.                       *)
LEMMA StepScript ==
  ASSUME IInv, NEW x \in Scripts, Step(x)
  PROVE  /\ script[x] \in {"check", "init", "backup", "forget"}
         /\ script' \in [Scripts -> ScriptStates]
         /\ \A y \in Scripts \ {x} : script'[y] = script[y]
<1>1. script[x] \in {"check", "init", "backup", "forget"}
  BY DEF Step, Check, InitRepo, Backup, Forget
<1>2. \E pc \in ScriptStates : Goto(x, pc)
  BY DEF Step, Check, InitRepo, Backup, Forget, Fail, ScriptStates
<1> QED
  BY <1>1, <1>2 DEF Goto, IInv, TypeOK

LEMMA ScriptStepInv == ASSUME IInv, NEW x \in Scripts, ScriptStep(x) PROVE IInv'
<1>1. UNCHANGED <<scratch, manifest, orphans, row, run, job, container>> /\ Step(x)
  BY DEF ScriptStep, target
<1>2. /\ script[x] \in {"check", "init", "backup", "forget"}
      /\ script' \in [Scripts -> ScriptStates]
      /\ \A y \in Scripts \ {x} : script'[y] = script[y]
  BY <1>1, StepScript
<1>3. PICK b \in BOOLEAN : b = Packaged(x)
  BY DEF Packaged
<1>4. whole' = IF x \in Runs /\ script'[x] = "success" THEN [whole EXCEPT ![x] = b] ELSE whole
  BY <1>3 DEF ScriptStep
<1>5. /\ whole' \in [Runs -> BOOLEAN] /\ \A q \in Runs \ {x} : whole'[q] = whole[q]
      /\ x \in Runs /\ script'[x] = "success" => whole'[x] = b
  BY <1>4 DEF IInv, TypeOK
<1>6. TypeOK' /\ AloneOK'
  BY <1>1, <1>2, <1>5 DEF IInv, TypeOK, AloneOK, Active, Packing
<1>7. ASSUME NEW q \in Runs \ {x} PROVE RunOK(q)'
  BY <1>1, <1>2, <1>5, ScriptOfRun, Untouched
<1>8. ASSUME x \in Runs PROVE RunOK(x)'
  <2>1. RunOK(x) /\ row[x] # "success" /\ job # x
    BY <1>2, <1>8 DEF IInv, RunOK, RowOK
  <2>2. run'[x] = run[x] /\ run[x].pc \notin {"idle", "persist"} \union Before
    BY <1>1, <1>2, <1>8, <2>1 DEF RunOK, RowOK
  <2>3. RowOK(x)'
    BY <1>1, <2>1, <2>2 DEF RunOK, RowOK, Opened, Before
  <2>4. LeftOK(x)'
    BY <1>1, <2>1, <2>2 DEF RunOK, LeftOK, Active
  <2>5. Packaged(x)' <=> Packaged(x)
    BY <1>1 DEF Packaged, Contents, Archives
  <2>6. WholeOK(x)'
    BY <1>1, <1>3, <1>5, <1>8, <2>1, <2>2, <2>5 DEF RunOK, WholeOK, PackageOK, Before
  <2>7. OrphansOK(x)'
    BY <1>1, <2>1 DEF RunOK, OrphansOK, Active
  <2> QED BY <2>3, <2>4, <2>6, <2>7 DEF RunOK
<1> QED
  BY <1>6, <1>7, <1>8 DEF IInv

LEMMA OthersInv == ASSUME IInv, Others \/ UNCHANGED vars PROVE IInv'
<1>1. /\ UNCHANGED <<scratch, manifest, orphans, container, row, run, whole, job>>
      /\ script' \in [Scripts -> ScriptStates]
      /\ \A q \in Runs : script'[q] = script[q]
  <2>1. CASE Others
    <3>1. UNCHANGED script \/ \E x \in Scripts \ Runs : StartScript(x)
      BY <2>1 DEF Others, OtherJobs, RestoreLatest, Move
    <3>2. ASSUME NEW x \in Scripts \ Runs, StartScript(x)
          PROVE  /\ script' \in [Scripts -> ScriptStates]
                 /\ \A q \in Runs : script'[q] = script[q]
      BY <3>2, ScriptOfRun DEF StartScript, Goto, IInv, TypeOK, ScriptStates
    <3>3. UNCHANGED <<scratch, manifest, orphans, container, row, run, whole, job>>
      BY <2>1 DEF Others, target
    <3> QED BY <3>1, <3>2, <3>3 DEF IInv, TypeOK
  <2>2. CASE UNCHANGED vars
    BY <2>2 DEF vars, target, repository, IInv, TypeOK
  <2> QED BY <2>1, <2>2
<1>2. TypeOK' /\ AloneOK'
  BY <1>1 DEF IInv, TypeOK, AloneOK, Active, Packing
<1>3. \A q \in Runs : RunOK(q)'
  BY <1>1, Untouched
<1> QED BY <1>2, <1>3 DEF IInv

(* A command that goes on belongs to a run that has given up, and comes in *)
(* the way of no run that is alone.                                        *)
LEMMA OrphanStepInv == ASSUME IInv, NEW o \in orphans, OrphanStep(o) PROVE IInv'
<1>1. /\ o \in Commands
      /\ UNCHANGED <<script, container, row, run, whole, job>>
      /\ orphans' \subseteq orphans
  BY DEF OrphanStep, target, repository, IInv, TypeOK
<1>2. PICK f \in [Artifacts -> File] :
         /\ scratch' = f
         /\ \A a \in Artifacts :
               \/ f[a] = scratch[a]
               \/ f[a].by = Nobody
               \/ o.does = "write" /\ a \in o.on /\ f[a].by = o.by
  <2>1. CASE UNCHANGED scratch
    BY <2>1 DEF IInv, TypeOK
  <2>2. CASE \E a \in o.on : scratch' = [scratch EXCEPT ![a] = Absent]
    <3>1. Absent \in File /\ Absent.by = Nobody
      BY DEF Absent, File
    <3> QED BY <2>2, <3>1 DEF IInv, TypeOK
  <2>3. CASE /\ o.does = "write"
             /\ \E a \in o.on, complete \in BOOLEAN :
                   scratch' = [scratch EXCEPT ![a] = [by |-> o.by, whole |-> complete]]
    <3>1. PICK a \in o.on, file \in File :
             file.by = o.by /\ scratch' = [scratch EXCEPT ![a] = file]
      BY <1>1, <2>3 DEF Commands, File
    <3> QED BY <2>3, <3>1 DEF IInv, TypeOK
  <2> QED BY <2>1, <2>2, <2>3 DEF OrphanStep, target
<1>3. TypeOK' /\ AloneOK'
  BY <1>1, <1>2 DEF IInv, TypeOK, AloneOK, Active, Packing
<1>4. ASSUME NEW r \in Runs PROVE RunOK(r)'
  <2>1. RunOK(r) /\ RowOK(r) /\ LeftOK(r) /\ OrphansOK(r)
    BY DEF IInv, RunOK
  <2>2. RowOK(r)'
    BY <1>1, <2>1 DEF RowOK, Opened
  <2>3. ASSUME NEW a \in Artifacts, scratch'[a].by = r, scratch[a].by # r
        PROVE  o.by = r /\ o.does = "write" /\ a \in o.on
    BY <1>2, <2>3, ScriptOfRun
  <2>4. Dump \in Artifacts
    BY ArchivesAre
  <2>5. LeftOK(r)'
    <3>1. ASSUME NEW a \in Artifacts, scratch'[a].by = r, scratch[a].by # r
          PROVE  /\ run[r].pc # "idle"
                 /\ Active(r) => run[r].aborted # "no"
                 /\ run[r].pc = "done" => row[r] # "success"
                 /\ a = Dump => /\ run[r].pc = "killed" \/ run[r].dirty
                                /\ Active(r) => Dump \in run[r].clean
      BY <2>1, <2>3, <3>1 DEF OrphansOK
    <3>2. (run[r].pc = "volumes" => run[r].todo \subseteq Volumes)'
      BY <1>1, <2>1 DEF LeftOK
    <3>3. (run[r].pc = "idle" => \A a \in Artifacts : scratch[a].by # r)'
      BY <1>1, <2>1, <3>1 DEF LeftOK
    <3>4. (Active(r) /\ run[r].pc # "finalize" =>
              /\ scratch[Dump].by = r => Dump \in run[r].clean
              /\ run[r].aborted = "no" =>
                    \A a \in Artifacts : scratch[a].by = r => a \in run[r].clean)'
      BY <1>1, <2>1, <2>4, <3>1 DEF LeftOK, Active
    <3>5. (run[r].pc = "finalize" /\ ~run[r].dirty =>
              /\ scratch[Dump].by # r
              /\ run[r].aborted = "no" => \A a \in Artifacts : scratch[a].by # r)'
      BY <1>1, <2>1, <2>4, <3>1 DEF LeftOK, Active, After
    <3>6. (run[r].pc = "done" /\ ~run[r].dirty =>
              /\ scratch[Dump].by # r
              /\ row[r] = "success" => \A a \in Artifacts : scratch[a].by # r)'
      BY <1>1, <2>1, <2>4, <3>1 DEF LeftOK
    <3> QED BY <3>2, <3>3, <3>4, <3>5, <3>6 DEF LeftOK
  <2>6. OrphansOK(r)'
    BY <1>1, <2>1 DEF OrphansOK, Active
  <2>7. WholeOK(r)'
    <3>1. run[r].alone => ~Packing(r)
      BY DEF IInv, AloneOK
    <3> QED BY <1>1, <2>1, <3>1 DEF RunOK, WholeOK, PackageOK, Packing, Before
  <2> QED BY <2>2, <2>5, <2>6, <2>7 DEF RunOK
<1> QED BY <1>3, <1>4 DEF IInv

-----------------------------------------------------------------------------
LEMMA StepInv == IInv /\ [Next]_vars => IInv'
<1> SUFFICES ASSUME IInv, [Next]_vars PROVE IInv'
  OBVIOUS
<1>1. ASSUME NEW r \in Runs, RunStep(r) PROVE IInv'
  BY <1>1, BeginInv, InspectInv, ConfirmInv, SanitizeInv, ExportInv, HotDumpInv,
     WriteComposeInv, WriteManifestInv, ExecuteInv, EndScriptInv, PersistInv, CleanupInv,
     FinalizeInv, InterruptInv, KillInv DEF RunStep
<1>2. ASSUME NEW x \in Scripts, ScriptStep(x) PROVE IInv'
  BY <1>2, ScriptStepInv
<1>3. CASE Others \/ UNCHANGED vars
  BY <1>3, OthersInv
<1>4. ASSUME NEW o \in orphans, OrphanStep(o) PROVE IInv'
  BY <1>4, OrphanStepInv
<1> QED
  BY <1>1, <1>2, <1>3, <1>4 DEF Next, Finished

(* A run that has returned says in its row what it did, and leaves nothing *)
(* of the application's data on the target, whatever other runs of the     *)
(* container do meanwhile (container_runner.go:126-142 and 178-204).       *)
THEOREM EndClean == Spec => []RunsEndClean
<1>1. IInv => RunsEndClean
  BY Promises
<1> QED
  BY <1>1, InitInv, StepInv, PTL DEF Spec

(* What a run reports or registers can be restored, if it met no other and *)
(* no command that one has left going on (container_runner.go:144-176).    *)
THEOREM Whole == Spec => []SnapshotWhole
<1>1. IInv => SnapshotWhole
  BY Promises
<1> QED
  BY <1>1, InitInv, StepInv, PTL DEF Spec

(* Only a script's forget removes snapshots, those that its flags match,   *)
(* and only a restore of the latest takes one, of those that they list.    *)
LEMMA StepApart ==
  ASSUME IInv, [Next]_vars
  PROVE  [/\ \A s \in snapshots \ snapshots' :
               \E x \in Scripts : /\ script'[x] # script[x]
                                  /\ s.host = server[JobOf[x]]
          /\ restored' # restored => restored'.snapshot.host = server[restored'.job]]_repository
<1>1. CASE \E r \in Runs : RunStep(r)
  <2>1. UNCHANGED <<snapshots, restored>>
    BY <1>1 DEF RunStep, Begin, Inspect, Confirm, Sanitize, Export, HotDump, WriteCompose,
       WriteManifest, Execute, EndScript, Persist, Cleanup, Finalize, Interrupt, Kill, repository
  <2> QED BY <2>1
<1>2. ASSUME NEW x \in Scripts, Step(x)
      PROVE  /\ restored' = restored
             /\ \A s \in snapshots \ snapshots' :
                   script'[x] # script[x] /\ s.host = server[JobOf[x]]
  <2>1. CASE Forget(x)
    <3>1. script'[x] # script[x]
      BY <2>1 DEF Forget, Goto, IInv, TypeOK
    <3>2. \A s \in snapshots \ snapshots' : s.host = server[JobOf[x]]
      BY <2>1 DEF Forget, Expired, Matches, Flags
    <3> QED BY <2>1, <3>1, <3>2 DEF Forget
  <2>2. CASE Backup(x)
    BY <2>2 DEF Backup
  <2>3. CASE Check(x) \/ InitRepo(x) \/ Fail(x)
    BY <2>3 DEF Check, InitRepo, Fail
  <2> QED BY <1>2, <2>1, <2>2, <2>3 DEF Step
<1>3. CASE \E x \in Scripts : ScriptStep(x)
  BY <1>2, <1>3 DEF ScriptStep
<1>4. CASE Others
  <2>1. ASSUME NEW j \in Jobs, RestoreLatest(j)
        PROVE  /\ snapshots' = snapshots
               /\ restored'.snapshot.host = server[restored'.job]
    BY <2>1 DEF RestoreLatest, Listed, Matches, Flags
  <2>2. ASSUME NEW j \in Jobs, Move(j)
        PROVE  UNCHANGED <<snapshots, restored>>
    BY <2>2 DEF Move
  <2>3. OtherJobs \subseteq Jobs
    BY RepositoryAssumption DEF OtherJobs
  <2> QED BY <1>4, <2>1, <2>2, <2>3 DEF Others
<1>5. CASE UNCHANGED vars \/ \E o \in orphans : OrphanStep(o)
  BY <1>5 DEF vars, repository, OrphanStep
<1> QED
  BY <1>1, <1>3, <1>4, <1>5 DEF Next, Finished

(* Retention and restores keep to the snapshots of the server that the job *)
(* names, however many scripts, jobs and edits there are (script.go:129-138*)
(* and 167-184).                                                           *)
THEOREM Apart == Spec => HostsApart
  BY InitInv, StepInv, StepApart, PTL DEF Spec, HostsApart
=============================================================================
