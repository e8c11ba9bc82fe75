----------------------------- MODULE BackupProofs -----------------------------
(***************************************************************************)
(* The properties of BackupRunner for every set of invocations, jobs and   *)
(* every choice of local and --allow-untracked ones, and those of          *)
(* BackupPool for every batch and every --parallel.                        *)
(*                                                                         *)
(* What is promised of a runner follows from one inductive invariant: a    *)
(* description of an invocation, its record and its row at each point of   *)
(* Runner.Run.  A pool steps its runners as BackupRunner allows, so all    *)
(* that holds of each of them; on top of it stand the slots of the         *)
(* semaphore and the tallies.                                              *)
(***************************************************************************)
EXTENDS BackupPool, SequenceTheorems, FiniteSetTheorems, TLAPS

-----------------------------------------------------------------------------
(* One runner *)

(* Nothing was written or started for r. *)
Untouched(r) ==
    /\ rec[r].id = 0
    /\ rec[r].status = "none"
    /\ ~rec[r].untracked
    /\ remote[r] = "none"

(* beginRun succeeded: r has its 'running' row, or is flagged untracked.   *)
Opened(r) ==
    /\ rec[r].status = "running"
    /\ \/ /\ rec[r].id # 0
          /\ ~rec[r].untracked
          /\ backup_runs[rec[r].id].status = "running"
          /\ ~backup_runs[rec[r].id].untracked
       \/ /\ rec[r].id = 0
          /\ rec[r].untracked
          /\ r \in UntrackedOK

(* finalizeRun ended: the row holds the outcome, or the flag says it does  *)
(* not - because the update failed, or both inserts did.                   *)
Closed(r) ==
    /\ rec[r].status \in Outcomes
    /\ rec[r].status = "success" => remote[r] = "done"
    /\ rec[r].status = "canceled" => ctx[r]
    /\ \/ /\ rec[r].id # 0
          /\ backup_runs[rec[r].id].status = rec[r].status
          /\ backup_runs[rec[r].id].untracked = rec[r].untracked
          /\ rec[r].untracked => r \in UntrackedOK
          /\ rec[r].status = "success" => err[r] = "nil"
       \/ /\ rec[r].id # 0
          /\ rec[r].untracked
          /\ backup_runs[rec[r].id].status = "running"
          /\ err[r] # "nil"
       \/ /\ rec[r].id = 0
          /\ rec[r].untracked
          /\ r \in UntrackedOK

Stage(r) ==
    /\ pc[r] \in {"idle", "begin"} => Untouched(r) /\ err[r] = "nil"
    /\ pc[r] \in {"ready", "connecting", "executing", "finalize"} => Opened(r)
    /\ pc[r] \in {"ready", "connecting"} => remote[r] = "none"
    /\ pc[r] \in {"ready", "connecting", "executing"} => err[r] = "nil"
    /\ pc[r] = "executing" => remote[r] # "none"
    /\ pc[r] = "finalize" =>
         /\ err[r] \in {"nil", "failed", "exit3", "canceled"}
         /\ err[r] = "nil" => remote[r] = "done"
         /\ err[r] = "canceled" => ctx[r]
    /\ pc[r] = "crashed" => Untouched(r) \/ Opened(r)
    /\ pc[r] = "returned" => Closed(r) \/ (Untouched(r) /\ err[r] # "nil")

StageOK == \A r \in Runs : Stage(r)

IInv == TypeOK /\ RowsOwned /\ StageOK

-----------------------------------------------------------------------------
(* The two writes of BackupRepo: what they do to the table. *)

(* An INSERT keeps every row and puts the new one at id Len + 1. *)
LEMMA AppendTable ==
    ASSUME NEW s \in Seq(Row), NEW e \in Row
    PROVE  /\ Append(s, e) \in Seq(Row)
           /\ Len(Append(s, e)) = Len(s) + 1
           /\ DOMAIN Append(s, e) = 1 .. (Len(s) + 1)
           /\ \A i \in 1 .. Len(s) : Append(s, e)[i] = s[i]
           /\ Append(s, e)[Len(s) + 1] = e
<1>1. Append(s, e) \in Seq(Row) /\ Len(Append(s, e)) = Len(s) + 1
  BY AppendProperties
<1>2. Len(s) \in Nat /\ DOMAIN Append(s, e) = 1 .. (Len(s) + 1)
  BY <1>1, LenProperties
<1>3. \A i \in 1 .. Len(s) : Append(s, e)[i] = s[i]
  BY <1>2, AppendProperties
<1>4. Append(s, e)[Len(s) + 1] = e
  BY <1>2, AppendProperties
<1> QED
  BY <1>1, <1>2, <1>3, <1>4

(* An UPDATE by id replaces that row only. *)
LEMMA UpdateTable ==
    ASSUME NEW s \in Seq(Row), NEW k \in DOMAIN s, NEW row \in Row
    PROVE  /\ [s EXCEPT ![k] = row] \in Seq(Row)
           /\ Len([s EXCEPT ![k] = row]) = Len(s)
           /\ DOMAIN [s EXCEPT ![k] = row] = DOMAIN s
           /\ \A i \in DOMAIN s : i # k => [s EXCEPT ![k] = row][i] = s[i]
           /\ [s EXCEPT ![k] = row][k] = row
<1>1. k \in 1 .. Len(s) /\ DOMAIN s = 1 .. Len(s)
  BY LenProperties
<1> QED
  BY <1>1, ExceptSeq

-----------------------------------------------------------------------------
(* How the two writes keep rows and records tied to each other. *)

(* r's values after a write: everything but its status is as it was. *)
Written(r, st) ==
    /\ rec'[r].id # 0
    /\ rec'[r].status = st
    /\ rec'[r].untracked = rec[r].untracked
    /\ backup_runs'[rec'[r].id].status = st
    /\ backup_runs'[rec'[r].id].untracked = rec[r].untracked

(* What a write of r does to the rows that were there. *)
RowsKept(r) ==
    /\ Len(backup_runs') >= Len(backup_runs)
    /\ \A i \in DOMAIN backup_runs :
         /\ backup_runs'[i].run = backup_runs[i].run
         /\ backup_runs'[i].started = backup_runs[i].started
         /\ i # rec[r].id => backup_runs'[i] = backup_runs[i]

(* Another invocation and its row are untouched by the write of r. *)
OthersKept(r) ==
    \A q \in Runs \ {r} :
        /\ rec'[q] = rec[q]
        /\ rec[q].id # 0 => backup_runs'[rec[q].id] = backup_runs[rec[q].id]

(* CreateRun for an invocation without a row gives it one of its own.      *)
LEMMA CreateRunStep ==
    ASSUME TypeOK, RowsOwned, NEW r \in Runs, rec[r].id = 0,
           NEW st \in Outcomes \cup {"running"},
           CreateRun(r, [rec[r] EXCEPT !.status = st])
    PROVE  /\ rec' \in [Runs -> Record]
           /\ backup_runs' \in Seq(Row)
           /\ RowsOwned'
           /\ Written(r, st)
           /\ OthersKept(r)
           /\ RowsKept(r)
<1> DEFINE new == [rec[r] EXCEPT !.status = st]
           row == RowOf(r, new)
           n == Len(backup_runs) + 1
<1>1. new \in Record /\ new.id = 0 /\ new.status = st /\ new.untracked = rec[r].untracked
  BY DEF TypeOK, Record
<1>2. /\ row \in Row /\ row.run = r /\ row.status = st /\ row.untracked = rec[r].untracked
  BY <1>1 DEF RowOf, Row, Record
<1>3. n \in Nat /\ n # 0 /\ DOMAIN backup_runs = 1 .. (n - 1)
  BY LenProperties DEF TypeOK
<1>4. rec' = [rec EXCEPT ![r] = [new EXCEPT !.id = n]] /\ backup_runs' = Append(backup_runs, row)
  BY DEF CreateRun
<1> HIDE DEF new, row
<1>5. /\ backup_runs' \in Seq(Row)
      /\ DOMAIN backup_runs' = 1 .. n
      /\ \A i \in 1 .. (n - 1) : backup_runs'[i] = backup_runs[i]
      /\ backup_runs'[n] = row
  BY <1>2, <1>3, <1>4, AppendTable DEF TypeOK
<1>6. /\ [new EXCEPT !.id = n] \in Record
      /\ [new EXCEPT !.id = n].id = n
      /\ [new EXCEPT !.id = n].status = st
      /\ [new EXCEPT !.id = n].untracked = rec[r].untracked
  BY <1>1, <1>3 DEF Record
<1> HIDE DEF n
<1>7. rec' \in [Runs -> Record] /\ rec'[r].id = n /\ \A q \in Runs \ {r} : rec'[q] = rec[q]
  BY <1>4, <1>6 DEF TypeOK
<1>8. Written(r, st)
  BY <1>2, <1>3, <1>4, <1>5, <1>6, <1>7 DEF Written, TypeOK
<1>9. OthersKept(r)
  BY <1>3, <1>5, <1>7 DEF OthersKept, RowsOwned, Recorded
<1>10. RowsOwned'
  <2>1. ASSUME NEW q \in Runs, Recorded(q)'
        PROVE  rec'[q].id \in DOMAIN backup_runs' /\ backup_runs'[rec'[q].id].run = q
    BY <2>1, <1>2, <1>3, <1>5, <1>7 DEF RowsOwned, Recorded
  <2>2. ASSUME NEW i \in DOMAIN backup_runs'
        PROVE  rec'[backup_runs'[i].run].id = i
    <3>1. CASE i = n
      BY <3>1, <1>2, <1>5, <1>7
    <3>2. CASE i # n
      <4>1. i \in DOMAIN backup_runs /\ backup_runs'[i] = backup_runs[i]
        BY <2>2, <3>2, <1>3, <1>5
      <4>2. backup_runs[i] \in Row /\ rec[backup_runs[i].run].id = i /\ i # 0
        BY <4>1, <1>3, ElementOfSeq DEF RowsOwned, TypeOK
      <4>3. backup_runs[i].run \in Runs \ {r}
        BY <4>2 DEF Row
      <4> QED
        BY <4>1, <4>2, <4>3, <1>7
    <3> QED
      BY <3>1, <3>2
  <2> QED
    BY <2>1, <2>2 DEF RowsOwned
<1>11. Len(backup_runs') >= Len(backup_runs)
  BY <1>2, <1>4, AppendTable, LenProperties DEF TypeOK
<1>12. RowsKept(r)
  BY <1>3, <1>5, <1>11 DEF RowsKept
<1> QED
  BY <1>5, <1>7, <1>8, <1>9, <1>10, <1>12

(* UpdateRun by id reaches the row of the invocation and no other.         *)
LEMMA UpdateRunStep ==
    ASSUME TypeOK, RowsOwned, NEW r \in Runs, rec[r].id # 0,
           NEW st \in Outcomes \cup {"running"},
           UpdateRun(r, [rec[r] EXCEPT !.status = st])
    PROVE  /\ rec' \in [Runs -> Record]
           /\ backup_runs' \in Seq(Row)
           /\ RowsOwned'
           /\ Written(r, st)
           /\ OthersKept(r)
           /\ RowsKept(r)
           /\ rec'[r].id = rec[r].id
<1> DEFINE new == [rec[r] EXCEPT !.status = st]
           k == rec[r].id
           u == rec[r].untracked
<1>1. /\ new \in Record /\ new.id = k /\ new.status = st /\ new.untracked = u
      /\ u \in BOOLEAN
  BY DEF TypeOK, Record
<1>2. k \in DOMAIN backup_runs /\ backup_runs[k].run = r
  BY DEF RowsOwned, Recorded
<1>3. /\ rec' = [rec EXCEPT ![r] = new]
      /\ backup_runs' = [backup_runs EXCEPT ![k] = [@ EXCEPT !.status = st, !.untracked = u]]
  BY <1>1 DEF UpdateRun
<1> HIDE DEF new, k, u
<1>4. /\ backup_runs' \in Seq(Row)
      /\ DOMAIN backup_runs' = DOMAIN backup_runs
      /\ \A i \in DOMAIN backup_runs : i # k => backup_runs'[i] = backup_runs[i]
      /\ backup_runs'[k].run = r /\ backup_runs'[k].started = backup_runs[k].started
      /\ backup_runs'[k].status = st /\ backup_runs'[k].untracked = u
      /\ Len(backup_runs') = Len(backup_runs)
  <2> DEFINE row == [backup_runs[k] EXCEPT !.status = st, !.untracked = u]
  <2>1. backup_runs \in Seq(Row)
    BY DEF TypeOK
  <2>2. backup_runs[k] \in Row
    BY <1>2, <2>1, LenProperties, ElementOfSeq
  <2>3. /\ row \in Row /\ row.run = r /\ row.status = st /\ row.untracked = u
        /\ row.started = backup_runs[k].started
    BY <1>1, <1>2, <2>2 DEF Row
  <2>4. backup_runs' = [backup_runs EXCEPT ![k] = row]
    BY <1>3
  <2> HIDE DEF row
  <2> QED
    BY <1>2, <2>1, <2>3, <2>4, UpdateTable
<1>5. rec' \in [Runs -> Record] /\ rec'[r] = new /\ \A q \in Runs \ {r} : rec'[q] = rec[q]
  BY <1>1, <1>3 DEF TypeOK
<1>6. Written(r, st)
  BY <1>1, <1>4, <1>5 DEF Written, k, u
<1>7. OthersKept(r)
  BY <1>2, <1>4, <1>5 DEF OthersKept, RowsOwned, Recorded
<1>8. RowsOwned'
  <2>1. ASSUME NEW q \in Runs, Recorded(q)'
        PROVE  rec'[q].id \in DOMAIN backup_runs' /\ backup_runs'[rec'[q].id].run = q
    BY <2>1, <1>1, <1>2, <1>4, <1>5 DEF RowsOwned, Recorded
  <2>2. ASSUME NEW i \in DOMAIN backup_runs'
        PROVE  rec'[backup_runs'[i].run].id = i
    <3>1. CASE i = k
      BY <3>1, <1>1, <1>4, <1>5
    <3>2. CASE i # k
      <4>1. i \in DOMAIN backup_runs /\ backup_runs'[i] = backup_runs[i]
        BY <2>2, <3>2, <1>4
      <4>2. backup_runs[i] \in Row /\ rec[backup_runs[i].run].id = i
        BY <4>1, LenProperties, ElementOfSeq DEF RowsOwned, TypeOK
      <4>3. backup_runs[i].run \in Runs \ {r}
        BY <4>2, <3>2 DEF Row, k
      <4> QED
        BY <4>1, <4>2, <4>3, <1>5
    <3> QED
      BY <3>1, <3>2
  <2> QED
    BY <2>1, <2>2 DEF RowsOwned
<1>9. Len(backup_runs) \in Nat
  BY LenProperties DEF TypeOK
<1>10. RowsKept(r)
  BY <1>2, <1>4, <1>9 DEF RowsKept, k
<1> QED
  BY <1>1, <1>4, <1>5, <1>6, <1>7, <1>8, <1>10 DEF k

-----------------------------------------------------------------------------
(* The inductive invariant. *)

(* Before any invocation nothing is written: the invariant holds. *)
LEMMA InitInv == Init => IInv
<1> SUFFICES ASSUME Init PROVE IInv
  OBVIOUS
<1>1. TypeOK
  BY DEF Init, TypeOK, Record, Row
<1>2. RowsOwned
  BY DEF Init, RowsOwned, Recorded
<1>3. StageOK
  BY DEF Init, StageOK, Stage, Untouched
<1> QED
  BY <1>1, <1>2, <1>3 DEF IInv

(* A step of r leaves the other invocations where they are.                *)
LEMMA StageFrame ==
    ASSUME NEW q \in Runs, Stage(q),
           pc'[q] = pc[q], ctx[q] => ctx'[q], rec'[q] = rec[q], err'[q] = err[q],
           remote'[q] = remote[q],
           rec[q].id # 0 => backup_runs'[rec[q].id] = backup_runs[rec[q].id]
    PROVE  Stage(q)'
<1>1. Untouched(q) => Untouched(q)'
  BY DEF Untouched
<1>2. Opened(q) => Opened(q)'
  BY DEF Opened
<1>3. Closed(q) => Closed(q)'
  BY DEF Closed
<1> QED
  BY <1>1, <1>2, <1>3, Zenon DEF Stage

(* Every step that leaves the table and the records alone keeps RowsOwned. *)
LEMMA RowsOwnedFrame ==
    ASSUME RowsOwned, backup_runs' = backup_runs,
           \A r \in Runs : rec'[r].id = rec[r].id,
           \A i \in DOMAIN backup_runs : backup_runs[i].run \in Runs
    PROVE  RowsOwned'
  BY DEF RowsOwned, Recorded

(* The rows of the table are rows, each of some invocation. *)
LEMMA RowsTyped ==
    ASSUME TypeOK
    PROVE  \A i \in DOMAIN backup_runs : backup_runs[i] \in Row /\ backup_runs[i].run \in Runs
<1>1. \A i \in DOMAIN backup_runs : backup_runs[i] \in Row
  BY LenProperties, ElementOfSeq DEF TypeOK
<1> QED
  BY <1>1 DEF Row

(* finalizeRun's write, insert or update: the row takes the outcome.       *)
LEMMA FinalizeRunStep ==
    ASSUME IInv, NEW r \in Runs, FinalizeRun(r)
    PROVE  LET st == FinalStatus(err[r])
           IN  /\ Opened(r) /\ pc[r] = "finalize"
               /\ st \in Outcomes
               /\ st = "success" => err[r] = "nil" /\ remote[r] = "done"
               /\ st = "canceled" => ctx[r]
               /\ rec' \in [Runs -> Record] /\ backup_runs' \in Seq(Row)
               /\ RowsOwned' /\ Written(r, st) /\ OthersKept(r) /\ RowsKept(r)
<1> DEFINE st == FinalStatus(err[r])
<1>1. /\ Opened(r) /\ pc[r] = "finalize"
      /\ err[r] \in {"nil", "failed", "exit3", "canceled"}
      /\ err[r] = "nil" => remote[r] = "done"
      /\ err[r] = "canceled" => ctx[r]
  BY DEF FinalizeRun, IInv, StageOK, Stage
<1>2. /\ st \in Outcomes
      /\ st = "success" => err[r] = "nil"
      /\ st = "canceled" => err[r] = "canceled"
  BY <1>1 DEF FinalStatus, Outcomes
<1>3. rec[r].id \in Nat /\ TypeOK /\ RowsOwned
  BY DEF IInv, TypeOK, Record
<1> HIDE DEF st
<1>4. CASE rec[r].id = 0
  BY <1>1, <1>2, <1>3, <1>4, CreateRunStep DEF FinalizeRun, st
<1>5. CASE rec[r].id # 0
  <2>1. rec[r].id > 0
    BY <1>3, <1>5
  <2>2. UpdateRun(r, [rec[r] EXCEPT !.status = st])
    BY <2>1 DEF FinalizeRun, st
  <2> QED
    BY <1>1, <1>2, <1>3, <1>5, <2>2, UpdateRunStep DEF st
<1> QED
  BY <1>4, <1>5

(* Every step of an invocation and of its environment keeps the invariant. *)
LEMMA NextInv == IInv /\ [Next]_vars => IInv'
<1> SUFFICES ASSUME IInv, [Next]_vars PROVE IInv'
  OBVIOUS
<1> USE DEF IInv
<1>0. \A i \in DOMAIN backup_runs : backup_runs[i].run \in Runs
  BY RowsTyped
<1>1. ASSUME NEW r \in Runs, RunInvalid(r) PROVE IInv'
  <2>1. TypeOK'
    BY <1>1 DEF RunInvalid, TypeOK
  <2>2. RowsOwned'
    BY <1>0, <1>1, RowsOwnedFrame DEF RunInvalid
  <2>3. \A q \in Runs \ {r} : Stage(q)'
    BY <1>1, StageFrame DEF RunInvalid, StageOK, TypeOK
  <2>4. Stage(r)'
    BY <1>1 DEF RunInvalid, StageOK, Stage, TypeOK, Untouched, InFlight
  <2> QED
    BY <2>1, <2>2, <2>3, <2>4 DEF StageOK
<1>2. ASSUME NEW r \in Runs, RunStarts(r) PROVE IInv'
  <2>1. TypeOK'
    <3>1. [rec[r] EXCEPT !.started = clock] \in Record
      BY DEF TypeOK, Record
    <3>2. rec' \in [Runs -> Record]
      BY <1>2, <3>1 DEF RunStarts, TypeOK
    <3> QED
      BY <1>2, <3>2 DEF RunStarts, TypeOK, InFlight
  <2>2. RowsOwned'
    <3>1. \A q \in Runs : rec'[q].id = rec[q].id
      BY <1>2 DEF RunStarts, TypeOK, Record
    <3> QED
      BY <1>0, <1>2, <3>1, RowsOwnedFrame DEF RunStarts
  <2>3. \A q \in Runs \ {r} : Stage(q)'
    BY <1>2, StageFrame DEF RunStarts, StageOK, TypeOK
  <2>4. Stage(r)'
    BY <1>2 DEF RunStarts, StageOK, Stage, TypeOK, Record, Untouched
  <2> QED
    BY <2>1, <2>2, <2>3, <2>4 DEF StageOK
<1>3. ASSUME NEW r \in Runs, BeginRun(r) PROVE IInv'
  <2>1. /\ Untouched(r) /\ err[r] = "nil"
    BY <1>3 DEF BeginRun, StageOK, Stage
  <2>2. /\ rec' \in [Runs -> Record] /\ backup_runs' \in Seq(Row)
        /\ RowsOwned' /\ Written(r, "running") /\ OthersKept(r)
    BY <1>3, <2>1, CreateRunStep DEF BeginRun, Untouched
  <2>3. TypeOK'
    BY <1>3, <2>2 DEF BeginRun, TypeOK, InFlight
  <2>4. \A q \in Runs \ {r} : Stage(q)'
    BY <1>3, <2>2, StageFrame DEF BeginRun, StageOK, TypeOK, OthersKept
  <2>5. Stage(r)'
    BY <1>3, <2>1, <2>2 DEF BeginRun, Stage, Written, TypeOK, Untouched, Opened
  <2> QED
    BY <2>2, <2>3, <2>4, <2>5 DEF StageOK
<1>4. ASSUME NEW r \in Runs, BeginRunRefused(r) PROVE IInv'
  <2>1. TypeOK'
    BY <1>4 DEF BeginRunRefused, TypeOK
  <2>2. RowsOwned'
    BY <1>0, <1>4, RowsOwnedFrame DEF BeginRunRefused
  <2>3. \A q \in Runs \ {r} : Stage(q)'
    BY <1>4, StageFrame DEF BeginRunRefused, StageOK, TypeOK
  <2>4. Stage(r)'
    BY <1>4 DEF BeginRunRefused, StageOK, Stage, TypeOK, Untouched
  <2> QED
    BY <2>1, <2>2, <2>3, <2>4 DEF StageOK
<1>5. ASSUME NEW r \in Runs, BeginRunUntracked(r) PROVE IInv'
  <2>1. TypeOK'
    <3>1. [rec[r] EXCEPT !.status = "running", !.untracked = TRUE] \in Record
      BY DEF TypeOK, Record
    <3>2. rec' \in [Runs -> Record]
      BY <1>5, <3>1 DEF BeginRunUntracked, TypeOK
    <3> QED
      BY <1>5, <3>2 DEF BeginRunUntracked, TypeOK, InFlight
  <2>2. RowsOwned'
    <3>1. \A q \in Runs : rec'[q].id = rec[q].id
      BY <1>5 DEF BeginRunUntracked, TypeOK, Record
    <3> QED
      BY <1>0, <1>5, <3>1, RowsOwnedFrame DEF BeginRunUntracked
  <2>3. \A q \in Runs \ {r} : Stage(q)'
    BY <1>5, StageFrame DEF BeginRunUntracked, StageOK, TypeOK
  <2>4. Stage(r)'
    BY <1>5 DEF BeginRunUntracked, StageOK, Stage, TypeOK, Record, Untouched, Opened
  <2> QED
    BY <2>1, <2>2, <2>3, <2>4 DEF StageOK
<1>6. ASSUME NEW r \in Runs, LaunchFails(r) PROVE IInv'
  <2>1. TypeOK'
    BY <1>6 DEF LaunchFails, TypeOK, InFlight
  <2>2. RowsOwned'
    BY <1>0, <1>6, RowsOwnedFrame DEF LaunchFails
  <2>3. \A q \in Runs \ {r} : Stage(q)'
    BY <1>6, StageFrame DEF LaunchFails, StageOK, TypeOK
  <2>4. Stage(r)'
    BY <1>6 DEF LaunchFails, StageOK, Stage, TypeOK, Opened
  <2> QED
    BY <2>1, <2>2, <2>3, <2>4 DEF StageOK
<1>7. ASSUME NEW r \in Runs, Launch(r) PROVE IInv'
  <2>1. TypeOK'
    BY <1>7 DEF Launch, TypeOK, InFlight
  <2>2. RowsOwned'
    BY <1>0, <1>7, RowsOwnedFrame DEF Launch
  <2>3. \A q \in Runs \ {r} : Stage(q)'
    BY <1>7, StageFrame DEF Launch, StageOK, TypeOK
  <2>4. Stage(r)'
    BY <1>7 DEF Launch, StageOK, Stage, TypeOK, Opened
  <2> QED
    BY <2>1, <2>2, <2>3, <2>4 DEF StageOK
<1>8. ASSUME NEW r \in Runs, RemoteEnds(r) PROVE IInv'
  <2>1. TypeOK'
    BY <1>8 DEF RemoteEnds, TypeOK, InFlight
  <2>2. RowsOwned'
    BY <1>0, <1>8, RowsOwnedFrame DEF RemoteEnds
  <2>3. \A q \in Runs \ {r} : Stage(q)'
    BY <1>8, StageFrame DEF RemoteEnds, StageOK, TypeOK
  <2>4. Stage(r)'
    BY <1>8 DEF RemoteEnds, StageOK, Stage, TypeOK, Untouched, Opened, Closed, InFlight
  <2> QED
    BY <2>1, <2>2, <2>3, <2>4 DEF StageOK
<1>9. ASSUME NEW r \in Runs, ExecuteReturns(r) PROVE IInv'
  <2>1. TypeOK'
    BY <1>9 DEF ExecuteReturns, TypeOK, InFlight
  <2>2. RowsOwned'
    BY <1>0, <1>9, RowsOwnedFrame DEF ExecuteReturns
  <2>3. \A q \in Runs \ {r} : Stage(q)'
    BY <1>9, StageFrame DEF ExecuteReturns, StageOK, TypeOK
  <2>4. Stage(r)'
    BY <1>9 DEF ExecuteReturns, StageOK, Stage, TypeOK, Opened
  <2> QED
    BY <2>1, <2>2, <2>3, <2>4 DEF StageOK
<1>10. ASSUME NEW r \in Runs, ConnectionLost(r) PROVE IInv'
  <2>1. TypeOK'
    BY <1>10 DEF ConnectionLost, TypeOK, InFlight
  <2>2. RowsOwned'
    BY <1>0, <1>10, RowsOwnedFrame DEF ConnectionLost
  <2>3. \A q \in Runs \ {r} : Stage(q)'
    BY <1>10, StageFrame DEF ConnectionLost, StageOK, TypeOK
  <2>4. Stage(r)'
    BY <1>10 DEF ConnectionLost, StageOK, Stage, TypeOK, Opened
  <2> QED
    BY <2>1, <2>2, <2>3, <2>4 DEF StageOK
<1>11. ASSUME NEW r \in Runs, SSHCanceled(r) PROVE IInv'
  <2>1. TypeOK'
    BY <1>11 DEF SSHCanceled, TypeOK, InFlight
  <2>2. RowsOwned'
    BY <1>0, <1>11, RowsOwnedFrame DEF SSHCanceled
  <2>3. \A q \in Runs \ {r} : Stage(q)'
    BY <1>11, StageFrame DEF SSHCanceled, StageOK, TypeOK
  <2>4. Stage(r)'
    BY <1>11 DEF SSHCanceled, StageOK, Stage, TypeOK, Opened
  <2> QED
    BY <2>1, <2>2, <2>3, <2>4 DEF StageOK
<1>12. ASSUME NEW r \in Runs, LocalKilled(r) PROVE IInv'
  <2>1. TypeOK'
    BY <1>12 DEF LocalKilled, TypeOK, InFlight
  <2>2. RowsOwned'
    BY <1>0, <1>12, RowsOwnedFrame DEF LocalKilled
  <2>3. \A q \in Runs \ {r} : Stage(q)'
    BY <1>12, StageFrame DEF LocalKilled, StageOK, TypeOK
  <2>4. Stage(r)'
    BY <1>12 DEF LocalKilled, StageOK, Stage, TypeOK, Opened
  <2> QED
    BY <2>1, <2>2, <2>3, <2>4 DEF StageOK
<1>13. ASSUME NEW r \in Runs, FinalizeRun(r) PROVE IInv'
  <2> DEFINE st == FinalStatus(err[r])
  <2>1. /\ Opened(r) /\ pc[r] = "finalize"
        /\ st \in Outcomes
        /\ st = "success" => err[r] = "nil" /\ remote[r] = "done"
        /\ st = "canceled" => ctx[r]
        /\ rec' \in [Runs -> Record] /\ backup_runs' \in Seq(Row)
        /\ RowsOwned' /\ Written(r, st) /\ OthersKept(r)
    BY <1>13, FinalizeRunStep
  <2> HIDE DEF st
  <2>2. TypeOK'
    BY <1>13, <2>1 DEF FinalizeRun, TypeOK
  <2>3. \A q \in Runs \ {r} : Stage(q)'
    BY <1>13, <2>1, StageFrame DEF FinalizeRun, StageOK, TypeOK, OthersKept
  <2>4. Closed(r)'
    BY <1>13, <2>1 DEF FinalizeRun, Written, Opened, Closed, TypeOK
  <2>5. Stage(r)'
    BY <1>13, <2>4 DEF FinalizeRun, Stage, TypeOK
  <2> QED
    BY <2>1, <2>2, <2>3, <2>5 DEF StageOK
<1>14. ASSUME NEW r \in Runs, FinalizeRunFails(r) PROVE IInv'
  <2> DEFINE new == [rec[r] EXCEPT !.status = FinalStatus(err[r]), !.untracked = TRUE]
  <2>1. /\ Opened(r) /\ pc[r] = "finalize"
        /\ err[r] \in {"nil", "failed", "exit3", "canceled"}
        /\ err[r] = "nil" => remote[r] = "done"
        /\ err[r] = "canceled" => ctx[r]
    BY <1>14 DEF FinalizeRunFails, StageOK, Stage
  <2>2. /\ FinalStatus(err[r]) \in Outcomes
        /\ FinalStatus(err[r]) = "success" => err[r] = "nil"
        /\ FinalStatus(err[r]) = "canceled" => err[r] = "canceled"
    BY <2>1 DEF FinalStatus, Outcomes
  <2>3. /\ new \in Record /\ new.id = rec[r].id /\ new.untracked
        /\ new.status = FinalStatus(err[r])
    BY <2>2 DEF TypeOK, Record
  <2>4. rec' = [rec EXCEPT ![r] = new]
    BY <1>14 DEF FinalizeRunFails
  <2> HIDE DEF new
  <2>5. TypeOK'
    BY <1>14, <2>1, <2>3, <2>4 DEF FinalizeRunFails, TypeOK, PersistError
  <2>6. RowsOwned'
    <3>1. \A q \in Runs : rec'[q].id = rec[q].id
      BY <2>3, <2>4 DEF TypeOK
    <3> QED
      BY <1>0, <1>14, <3>1, RowsOwnedFrame DEF FinalizeRunFails
  <2>7. \A q \in Runs \ {r} : Stage(q)'
    BY <1>14, <2>4, StageFrame DEF FinalizeRunFails, StageOK, TypeOK
  <2>8. Stage(r)'
    <3>1. rec'[r] = new
      BY <2>4 DEF TypeOK
    <3>2. /\ remote' = remote /\ ctx' = ctx /\ backup_runs' = backup_runs
          /\ err'[r] = PersistError(r) /\ pc'[r] = "returned"
      BY <1>14 DEF FinalizeRunFails, TypeOK
    <3>3. new.status = "success" => remote[r] = "done"
      BY <2>1, <2>2, <2>3
    <3>4. new.status = "canceled" => ctx[r]
      BY <2>1, <2>2, <2>3
    <3>5. \/ rec[r].id # 0 /\ backup_runs[rec[r].id].status = "running" /\ err'[r] # "nil"
          \/ rec[r].id = 0 /\ r \in UntrackedOK
      <4>1. CASE rec[r].id # 0
        <5>1. ~rec[r].untracked /\ backup_runs[rec[r].id].status = "running"
          BY <2>1, <4>1 DEF Opened
        <5>2. PersistError(r) # "nil"
          BY <5>1, <2>1 DEF PersistError
        <5> QED BY <3>2, <4>1, <5>1, <5>2
      <4>2. CASE rec[r].id = 0
        BY <2>1, <4>2 DEF Opened
      <4> QED BY <4>1, <4>2
    <3>6. Closed(r)'
      BY <2>2, <2>3, <3>1, <3>2, <3>3, <3>4, <3>5 DEF Closed
    <3> QED
      BY <3>2, <3>6 DEF Stage
  <2> QED
    BY <2>5, <2>6, <2>7, <2>8 DEF StageOK
<1>15. ASSUME NEW S \in SUBSET Runs, Cancel(S) PROVE IInv'
  <2>1. TypeOK'
    BY <1>15 DEF Cancel, TypeOK
  <2>2. RowsOwned'
    BY <1>0, <1>15, RowsOwnedFrame DEF Cancel
  <2>3. \A q \in Runs : Stage(q)'
    BY <1>15, StageFrame DEF Cancel, StageOK, TypeOK
  <2> QED
    BY <2>1, <2>2, <2>3 DEF StageOK
<1>16. ASSUME NEW r \in Runs, Crash({r}) PROVE IInv'
  <2>1. TypeOK'
    BY <1>16 DEF Crash, TypeOK
  <2>2. RowsOwned'
    BY <1>0, <1>16, RowsOwnedFrame DEF Crash
  <2>3. ASSUME NEW q \in Runs, pc'[q] = pc[q] PROVE Stage(q)'
    BY <1>16, <2>3, StageFrame DEF Crash, StageOK, TypeOK
  <2>4. ASSUME NEW q \in Runs, pc'[q] # pc[q] PROVE Stage(q)'
    BY <1>16, <2>4 DEF Crash, InFlight, StageOK, Stage, TypeOK, Untouched, Opened
  <2> QED
    BY <2>1, <2>2, <2>3, <2>4 DEF StageOK
<1>17. CASE UNCHANGED vars
  <2>1. TypeOK' /\ RowsOwned'
    BY <1>17 DEF vars, TypeOK, RowsOwned, Recorded
  <2>2. \A q \in Runs : Stage(q)'
    BY <1>17, StageFrame DEF vars, StageOK
  <2> QED
    BY <2>1, <2>2 DEF StageOK
<1>18. ASSUME NEW r \in Runs, Dial(r) PROVE IInv'
  <2>1. TypeOK'
    BY <1>18 DEF Dial, TypeOK, InFlight
  <2>2. RowsOwned'
    BY <1>0, <1>18, RowsOwnedFrame DEF Dial
  <2>3. \A q \in Runs \ {r} : Stage(q)'
    BY <1>18, StageFrame DEF Dial, StageOK, TypeOK
  <2>4. Stage(r)'
    BY <1>18 DEF Dial, StageOK, Stage, TypeOK, Opened
  <2> QED
    BY <2>1, <2>2, <2>3, <2>4 DEF StageOK
<1>19. ASSUME NEW r \in Runs, SessionOpens(r) PROVE IInv'
  <2>1. TypeOK'
    BY <1>19 DEF SessionOpens, TypeOK, InFlight
  <2>2. RowsOwned'
    BY <1>0, <1>19, RowsOwnedFrame DEF SessionOpens
  <2>3. \A q \in Runs \ {r} : Stage(q)'
    BY <1>19, StageFrame DEF SessionOpens, StageOK, TypeOK
  <2>4. Stage(r)'
    BY <1>19 DEF SessionOpens, StageOK, Stage, TypeOK, Opened
  <2> QED
    BY <2>1, <2>2, <2>3, <2>4 DEF StageOK
<1>20. ASSUME NEW r \in Runs, SessionFails(r) PROVE IInv'
  <2>1. TypeOK'
    BY <1>20 DEF SessionFails, TypeOK, InFlight
  <2>2. RowsOwned'
    BY <1>0, <1>20, RowsOwnedFrame DEF SessionFails
  <2>3. \A q \in Runs \ {r} : Stage(q)'
    BY <1>20, StageFrame DEF SessionFails, StageOK, TypeOK
  <2>4. Stage(r)'
    BY <1>20 DEF SessionFails, StageOK, Stage, TypeOK, Opened
  <2> QED
    BY <2>1, <2>2, <2>3, <2>4 DEF StageOK
<1> QED
  BY <1>1, <1>2, <1>3, <1>4, <1>5, <1>6, <1>7, <1>8, <1>9, <1>10, <1>11, <1>12,
     <1>13, <1>14, <1>15, <1>16, <1>17, <1>18, <1>19, <1>20
     DEF Next, RunStep, ServerStep, Finished

-----------------------------------------------------------------------------
(* Theorems *)

(* The inductive invariant holds: at every point of Runner.Run the record, *)
(* the row and the target agree as Stage says.                             *)
THEOREM Invariance == Spec => []IInv
  BY InitInv, NextInv, PTL DEF Spec

(* Every variable keeps its type, whatever fails and whoever is canceled.  *)
THEOREM TypeCorrect == Spec => []TypeOK
<1>1. IInv => TypeOK
  BY DEF IInv
<1> QED
  BY <1>1, Invariance, PTL

(* No invocation has two rows and none writes another's row: CreateRun     *)
(* hands out an id once and UpdateRun uses the invocation's own.           *)
THEOREM RowOwnership == Spec => []RowsOwned
<1>1. IInv => RowsOwned
  BY DEF IInv
<1> QED
  BY <1>1, Invariance, PTL

(* beginRun fails closed: no restic process without a row or the flag.     *)
THEOREM FailsClosed == Spec => []FailClosed
<1>1. IInv => FailClosed
  <2> SUFFICES ASSUME IInv, NEW r \in Runs, remote[r] # "none"
               PROVE  RowStatus(r) # "none" \/ (r \in UntrackedOK /\ rec[r].untracked)
    BY DEF FailClosed
  <2>1. Stage(r) /\ pc[r] \in InFlight \cup {"idle", "returned", "crashed"}
    BY DEF IInv, StageOK, TypeOK
  <2>2. Opened(r) \/ Closed(r)
    BY <2>1 DEF Stage, Untouched, InFlight
  <2> QED
    BY <2>2 DEF Opened, Closed, RowStatus, Recorded, Outcomes
<1> QED
  BY <1>1, Invariance, PTL

(* A clean success is in the ledger, and the ledger claims nothing that    *)
(* did not happen on the target (finalizeRun).                             *)
THEOREM LedgerHonest == Spec => []HonestLedger
<1>1. IInv => HonestLedger
  <2> SUFFICES ASSUME IInv, NEW r \in Runs
               PROVE  /\ Report(r) = "clean" =>
                           /\ err[r] = "nil" /\ RowStatus(r) = "success"
                           /\ ~backup_runs[rec[r].id].untracked
                      /\ RowStatus(r) = "success" => remote[r] = "done"
                      /\ RowStatus(r) = "canceled" => ctx[r]
    BY DEF HonestLedger
  <2>1. Stage(r) /\ pc[r] \in InFlight \cup {"idle", "returned", "crashed"}
    BY DEF IInv, StageOK, TypeOK
  <2>2. Untouched(r) \/ Opened(r) \/ Closed(r)
    BY <2>1 DEF Stage, InFlight
  <2>3. Report(r) = "clean" => Closed(r) /\ rec[r].status = "success" /\ ~rec[r].untracked
    BY <2>1 DEF Report, Stage, Untouched
  <2> QED
    BY <2>2, <2>3 DEF Untouched, Opened, Closed, RowStatus, Recorded, Outcomes
<1> QED
  BY <1>1, Invariance, PTL

(* A 'running' row that nobody will complete was reported or is a crash's. *)
THEOREM NoSilentStaleRow == Spec => []StaleRowsReported
<1>1. IInv => StaleRowsReported
  <2> SUFFICES ASSUME IInv, NEW r \in Runs, RowStatus(r) = "running"
               PROVE  \/ pc[r] \in {"ready", "connecting", "executing", "finalize", "crashed"}
                      \/ pc[r] = "returned" /\ err[r] # "nil" /\ rec[r].untracked
    BY DEF StaleRowsReported
  <2>1. Stage(r) /\ pc[r] \in InFlight \cup {"idle", "returned", "crashed"}
    BY DEF IInv, StageOK, TypeOK
  <2>2. rec[r].id # 0 /\ backup_runs[rec[r].id].status = "running"
    BY DEF RowStatus, Recorded
  <2>3. pc[r] \in {"ready", "connecting", "executing", "finalize", "crashed", "returned"}
    BY <2>1, <2>2 DEF Stage, Untouched, InFlight
  <2>4. CASE pc[r] = "returned"
    BY <2>1, <2>2, <2>4 DEF Stage, Untouched, Closed, Outcomes
  <2> QED
    BY <2>3, <2>4
<1> QED
  BY <1>1, Invariance, PTL

(* No step takes a row away or rewrites an outcome.                        *)
THEOREM LedgerOnlyGrows == Spec => LedgerAppendOnly
<1>1. IInv /\ [Next]_vars => [LedgerStep]_vars
  <2> SUFFICES ASSUME IInv, Next PROVE LedgerStep
    OBVIOUS
  <2>1. Len(backup_runs) \in Nat
    BY LenProperties DEF IInv, TypeOK
  <2>2. CASE UNCHANGED backup_runs
    BY <2>1, <2>2 DEF LedgerStep
  <2>3. ASSUME NEW r \in Runs, BeginRun(r) PROVE LedgerStep
    <3>1. rec[r].id = 0
      BY <2>3 DEF BeginRun, IInv, StageOK, Stage, Untouched
    <3>2. RowsKept(r)
      BY <2>3, <3>1, CreateRunStep DEF BeginRun, IInv
    <3>3. \A i \in DOMAIN backup_runs : i # 0
      BY LenProperties DEF IInv, TypeOK
    <3> QED
      BY <3>1, <3>2, <3>3 DEF RowsKept, LedgerStep
  <2>4. ASSUME NEW r \in Runs, FinalizeRun(r) PROVE LedgerStep
    <3>1. Opened(r) /\ RowsKept(r)
      BY <2>4, FinalizeRunStep
    <3>2. \A i \in DOMAIN backup_runs : i # 0
      BY LenProperties DEF IInv, TypeOK
    <3> QED
      BY <3>1, <3>2 DEF Opened, RowsKept, LedgerStep
  <2> QED
    BY <2>2, <2>3, <2>4
       DEF Next, RunStep, Finished, vars, RunInvalid, RunStarts, BeginRunRefused,
           BeginRunUntracked, LaunchFails, Launch, Dial, SessionOpens, SessionFails, RemoteEnds, ExecuteReturns,
           ServerStep,
           ConnectionLost, SSHCanceled, LocalKilled, FinalizeRunFails, Cancel, Crash
<1> QED
  BY <1>1, Invariance, PTL DEF Spec, LedgerAppendOnly

-----------------------------------------------------------------------------
(* The refinement: every step of BackupRunner is a step of AuditedRun of   *)
(* the same invocation, or leaves what the contract sees unchanged.        *)

(* What the contract sees of q is the same before and after the step. *)
Unseen(q) ==
    /\ Phase(q)' = Phase(q)
    /\ remote'[q] = remote[q]
    /\ RowStatus(q)' = RowStatus(q)
    /\ rec'[q].untracked = rec[q].untracked
    /\ Report(q)' = Report(q)

(* The contract does not see a step that leaves the record and row of q.   *)
LEMMA UnseenFrame ==
    ASSUME NEW q \in Runs,
           pc'[q] = pc[q], rec'[q] = rec[q], remote'[q] = remote[q],
           rec[q].id # 0 => backup_runs'[rec[q].id] = backup_runs[rec[q].id]
    PROVE  Unseen(q)
  BY DEF Unseen, Phase, RowStatus, Recorded, Report

(* The empty ledger is where the contract starts.                          *)
LEMMA InitRefines == Init => Contract!Init
<1> SUFFICES ASSUME Init PROVE Contract!Init
  OBVIOUS
<1>1. \A r \in Runs : /\ Phase(r) = "idle" /\ remote[r] = "none" /\ RowStatus(r) = "none"
                     /\ rec[r].untracked = FALSE /\ Report(r) = "none"
  BY DEF Init, Phase, RowStatus, Recorded, Report
<1> QED
  BY <1>1 DEF Contract!Init

(* A step that no invocation shows is a stutter of the contract.           *)
LEMMA UnseenStutters ==
    ASSUME \A q \in Runs : Unseen(q)
    PROVE  UNCHANGED Contract!vars
  BY DEF Unseen, Contract!vars

(* finalizeRun with a persisted outcome closes the invocation.             *)
LEMMA CloseRefines ==
    ASSUME NEW r \in Runs, \A q \in Runs \ {r} : Unseen(q),
           NEW o \in Outcomes,
           Phase(r) = "open", Phase(r)' = "closed", remote'[r] = remote[r],
           o = "success" => remote[r] = "done",
           RowStatus(r)' = o, rec'[r].untracked = rec[r].untracked,
           Report(r)' = IF o # "success" THEN "error"
                        ELSE IF rec[r].untracked THEN "unaudited" ELSE "clean"
    PROVE  Contract!Close(r, o)
  BY DEF Unseen, Contract!Close

(* Every step of Runner.Run is one step of the contract, or none.          *)
LEMMA StepRefines == IInv /\ [Next]_vars => [Contract!Next]_(Contract!vars)
<1> DEFINE Step == Contract!Next \/ UNCHANGED Contract!vars
<1> SUFFICES ASSUME IInv, [Next]_vars PROVE Step
  OBVIOUS
<1> USE DEF IInv
<1> HIDE DEF Step
<1>1. ASSUME NEW r \in Runs, RunInvalid(r) PROVE Step
  <2>1. \A q \in Runs \ {r} : Unseen(q)
    BY <1>1, UnseenFrame DEF RunInvalid, TypeOK
  <2>2. /\ Phase(r) = "idle" /\ Phase(r)' = "closed" /\ remote'[r] = remote[r]
        /\ RowStatus(r)' = RowStatus(r) /\ rec'[r].untracked = rec[r].untracked
        /\ Report(r)' = "error"
    BY <1>1 DEF RunInvalid, StageOK, Stage, Untouched, Phase, RowStatus, Recorded, Report, TypeOK, Record
  <2>3. Contract!Refuse(r)
    BY <2>1, <2>2 DEF Unseen, Contract!Refuse
  <2> QED
    BY <2>3 DEF Step, Contract!Next
<1>2. ASSUME NEW r \in Runs, RunStarts(r) PROVE Step
  <2>1. \A q \in Runs \ {r} : Unseen(q)
    BY <1>2, UnseenFrame DEF RunStarts, TypeOK
  <2>2. Unseen(r)
    BY <1>2 DEF RunStarts, Unseen, Phase, RowStatus, Recorded, Report, TypeOK, Record
  <2> QED
    BY <2>1, <2>2, UnseenStutters DEF Step
<1>3. ASSUME NEW r \in Runs, BeginRun(r) PROVE Step
  <2>1. Untouched(r)
    BY <1>3 DEF BeginRun, StageOK, Stage
  <2>2. Written(r, "running") /\ OthersKept(r)
    BY <1>3, <2>1, CreateRunStep DEF BeginRun, Untouched
  <2>3. \A q \in Runs \ {r} : Unseen(q)
    BY <1>3, <2>2, UnseenFrame DEF BeginRun, OthersKept, TypeOK
  <2>4. /\ Phase(r) = "idle" /\ Phase(r)' = "open" /\ remote'[r] = remote[r]
        /\ RowStatus(r)' = "running" /\ rec'[r].untracked = rec[r].untracked
        /\ Report(r)' = Report(r)
    BY <1>3, <2>2 DEF BeginRun, Written, Phase, RowStatus, Recorded, Report, TypeOK
  <2>5. Contract!Open(r)
    BY <2>3, <2>4 DEF Unseen, Contract!Open
  <2> QED
    BY <2>5 DEF Step, Contract!Next
<1>4. ASSUME NEW r \in Runs, BeginRunRefused(r) PROVE Step
  <2>1. \A q \in Runs \ {r} : Unseen(q)
    BY <1>4, UnseenFrame DEF BeginRunRefused, TypeOK
  <2>2. /\ Phase(r) = "idle" /\ Phase(r)' = "closed" /\ remote'[r] = remote[r]
        /\ RowStatus(r)' = RowStatus(r) /\ rec'[r].untracked = rec[r].untracked
        /\ Report(r)' = "error"
    BY <1>4 DEF BeginRunRefused, StageOK, Stage, Untouched, Phase, RowStatus, Recorded, Report, TypeOK, Record
  <2>3. Contract!Refuse(r)
    BY <2>1, <2>2 DEF Unseen, Contract!Refuse
  <2> QED
    BY <2>3 DEF Step, Contract!Next
<1>5. ASSUME NEW r \in Runs, BeginRunUntracked(r) PROVE Step
  <2>1. \A q \in Runs \ {r} : Unseen(q)
    BY <1>5, UnseenFrame DEF BeginRunUntracked, TypeOK
  <2>2. /\ r \in UntrackedOK
        /\ Phase(r) = "idle" /\ Phase(r)' = "open" /\ remote'[r] = remote[r]
        /\ RowStatus(r)' = RowStatus(r) /\ rec'[r].untracked = TRUE
        /\ Report(r)' = Report(r)
    BY <1>5 DEF BeginRunUntracked, StageOK, Stage, Untouched, Phase, RowStatus, Recorded, Report, TypeOK, Record
  <2>3. Contract!OpenUnaudited(r)
    BY <2>1, <2>2 DEF Unseen, Contract!OpenUnaudited
  <2> QED
    BY <2>3 DEF Step, Contract!Next
<1>6. ASSUME NEW r \in Runs, LaunchFails(r) PROVE Step
  <2>1. \A q \in Runs \ {r} : Unseen(q)
    BY <1>6, UnseenFrame DEF LaunchFails, TypeOK
  <2>2. Unseen(r)
    BY <1>6 DEF LaunchFails, Unseen, Phase, RowStatus, Recorded, Report, TypeOK, Record
  <2> QED
    BY <2>1, <2>2, UnseenStutters DEF Step
<1>7. ASSUME NEW r \in Runs, Launch(r) PROVE Step
  <2>1. \A q \in Runs \ {r} : Unseen(q)
    BY <1>7, UnseenFrame DEF Launch, TypeOK
  <2>2. /\ Phase(r) = "open" /\ Phase(r)' = Phase(r)
        /\ remote[r] = "none" /\ remote'[r] = "running"
        /\ RowStatus(r)' = RowStatus(r) /\ rec'[r].untracked = rec[r].untracked
        /\ Report(r)' = Report(r)
    BY <1>7 DEF Launch, StageOK, Stage, Untouched, Phase, RowStatus, Recorded, Report, TypeOK, Record
  <2>3. Contract!Work(r)
    BY <2>1, <2>2 DEF Unseen, Contract!Work
  <2> QED
    BY <2>3 DEF Step, Contract!Next
<1>8. ASSUME NEW r \in Runs, RemoteEnds(r) PROVE Step
  <2>1. \A q \in Runs \ {r} : Unseen(q)
    BY <1>8, UnseenFrame DEF RemoteEnds, TypeOK
  <2>2. /\ Phase(r)' = Phase(r) /\ remote[r] = "running"
        /\ remote'[r] \in {"done", "broken"}
        /\ RowStatus(r)' = RowStatus(r) /\ rec'[r].untracked = rec[r].untracked
        /\ Report(r)' = Report(r)
    BY <1>8 DEF RemoteEnds, StageOK, Stage, Untouched, Phase, RowStatus, Recorded, Report, TypeOK, Record
  <2>3. Contract!WorkEnds(r)
    BY <2>1, <2>2 DEF Unseen, Contract!WorkEnds
  <2> QED
    BY <2>3 DEF Step, Contract!Next
<1>9. ASSUME NEW r \in Runs, ExecuteReturns(r) PROVE Step
  <2>1. \A q \in Runs \ {r} : Unseen(q)
    BY <1>9, UnseenFrame DEF ExecuteReturns, TypeOK
  <2>2. Unseen(r)
    BY <1>9 DEF ExecuteReturns, Unseen, Phase, RowStatus, Recorded, Report, TypeOK, Record
  <2> QED
    BY <2>1, <2>2, UnseenStutters DEF Step
<1>10. ASSUME NEW r \in Runs, ConnectionLost(r) PROVE Step
  <2>1. \A q \in Runs \ {r} : Unseen(q)
    BY <1>10, UnseenFrame DEF ConnectionLost, TypeOK
  <2>2. Unseen(r)
    BY <1>10 DEF ConnectionLost, Unseen, Phase, RowStatus, Recorded, Report, TypeOK, Record
  <2> QED
    BY <2>1, <2>2, UnseenStutters DEF Step
<1>11. ASSUME NEW r \in Runs, SSHCanceled(r) PROVE Step
  <2>1. \A q \in Runs \ {r} : Unseen(q)
    BY <1>11, UnseenFrame DEF SSHCanceled, TypeOK
  <2>2. Unseen(r)
    BY <1>11 DEF SSHCanceled, Unseen, Phase, RowStatus, Recorded, Report, TypeOK, Record
  <2> QED
    BY <2>1, <2>2, UnseenStutters DEF Step
<1>12. ASSUME NEW r \in Runs, LocalKilled(r) PROVE Step
  <2>1. \A q \in Runs \ {r} : Unseen(q)
    BY <1>12, UnseenFrame DEF LocalKilled, TypeOK
  <2>2. Unseen(r)
    BY <1>12 DEF LocalKilled, Unseen, Phase, RowStatus, Recorded, Report, TypeOK, Record
  <2> QED
    BY <2>1, <2>2, UnseenStutters DEF Step
<1>13. ASSUME NEW r \in Runs, FinalizeRun(r) PROVE Step
  <2> DEFINE st == FinalStatus(err[r])
  <2>1. /\ pc[r] = "finalize" /\ st \in Outcomes
        /\ st = "success" => remote[r] = "done"
        /\ Written(r, st) /\ OthersKept(r)
    BY <1>13, FinalizeRunStep
  <2> HIDE DEF st
  <2>2. \A q \in Runs \ {r} : Unseen(q)
    BY <1>13, <2>1, UnseenFrame DEF FinalizeRun, OthersKept, TypeOK
  <2>3. /\ Phase(r) = "open" /\ Phase(r)' = "closed" /\ remote'[r] = remote[r]
        /\ RowStatus(r)' = st /\ rec'[r].untracked = rec[r].untracked
        /\ Report(r)' = IF st # "success" THEN "error"
                        ELSE IF rec[r].untracked THEN "unaudited" ELSE "clean"
    BY <1>13, <2>1 DEF FinalizeRun, Written, Phase, RowStatus, Recorded, Report, TypeOK
  <2>4. Contract!Close(r, st)
    BY <2>1, <2>2, <2>3, CloseRefines
  <2>5. st \in Contract!Outcomes
    BY <2>1 DEF Outcomes, Contract!Outcomes
  <2> QED
    BY <2>4, <2>5 DEF Step, Contract!Next
<1>14. ASSUME NEW r \in Runs, FinalizeRunFails(r) PROVE Step
  <2> DEFINE new == [rec[r] EXCEPT !.status = FinalStatus(err[r]), !.untracked = TRUE]
  <2>1. /\ Opened(r) /\ pc[r] = "finalize"
        /\ FinalStatus(err[r]) = "success" => remote[r] = "done"
    BY <1>14 DEF FinalizeRunFails, StageOK, Stage, FinalStatus
  <2>2. /\ new.id = rec[r].id /\ new.untracked = TRUE
        /\ new.status = FinalStatus(err[r])
    BY DEF TypeOK, Record
  <2>3. rec' = [rec EXCEPT ![r] = new]
    BY <1>14 DEF FinalizeRunFails
  <2> HIDE DEF new
  <2>4. \A q \in Runs \ {r} : Unseen(q)
    BY <1>14, <2>3, UnseenFrame DEF FinalizeRunFails, TypeOK
  <2>5. rec'[r].id = rec[r].id /\ rec'[r].untracked = TRUE /\ rec'[r].status = FinalStatus(err[r])
    BY <2>2, <2>3 DEF TypeOK
  <2>6. /\ Phase(r) = "open" /\ Phase(r)' = "closed" /\ remote'[r] = remote[r]
        /\ RowStatus(r)' = RowStatus(r)
        /\ \/ Report(r)' = "error"
           \/ remote[r] = "done" /\ Report(r)' = "unaudited"
    BY <1>14, <2>1, <2>5 DEF FinalizeRunFails, Phase, RowStatus, Recorded, Report, TypeOK
  <2>7. Contract!CloseUnrecorded(r)
    BY <2>4, <2>5, <2>6 DEF Unseen, Contract!CloseUnrecorded
  <2> QED
    BY <2>7 DEF Step, Contract!Next
<1>15. ASSUME NEW S \in SUBSET Runs, Cancel(S) PROVE Step
  <2>1. \A q \in Runs : Unseen(q)
    BY <1>15, UnseenFrame DEF Cancel, TypeOK
  <2> QED
    BY <2>1, UnseenStutters DEF Step
<1>16. ASSUME NEW r \in Runs, Crash({r}) PROVE Step
  <2>1. pc[r] \in InFlight /\ pc' = [pc EXCEPT ![r] = "crashed"]
    BY <1>16 DEF Crash, TypeOK
  <2>2. \A q \in Runs \ {r} : Unseen(q)
    BY <1>16, <2>1, UnseenFrame DEF Crash, TypeOK
  <2>3. /\ Phase(r) # "closed" /\ Phase(r)' = "closed" /\ remote'[r] = remote[r]
        /\ RowStatus(r)' = RowStatus(r) /\ rec'[r].untracked = rec[r].untracked
        /\ Report(r)' = Report(r)
    BY <1>16, <2>1 DEF Crash, InFlight, Phase, RowStatus, Recorded, Report, TypeOK
  <2>4. Contract!Crash(r)
    BY <2>2, <2>3 DEF Unseen, Contract!Crash
  <2> QED
    BY <2>4 DEF Step, Contract!Next
<1>17. CASE UNCHANGED vars
  <2>1. \A q \in Runs : Unseen(q)
    BY <1>17, UnseenFrame DEF vars
  <2> QED
    BY <2>1, UnseenStutters DEF Step
<1>18. ASSUME NEW r \in Runs, Dial(r) PROVE Step
  <2>1. \A q \in Runs \ {r} : Unseen(q)
    BY <1>18, UnseenFrame DEF Dial, TypeOK
  <2>2. Unseen(r)
    BY <1>18 DEF Dial, Unseen, Phase, RowStatus, Recorded, Report, TypeOK, Record
  <2> QED
    BY <2>1, <2>2, UnseenStutters DEF Step
<1>19. ASSUME NEW r \in Runs, SessionOpens(r) PROVE Step
  <2>1. \A q \in Runs \ {r} : Unseen(q)
    BY <1>19, UnseenFrame DEF SessionOpens, TypeOK
  <2>2. /\ Phase(r) = "open" /\ Phase(r)' = Phase(r)
        /\ remote[r] = "none" /\ remote'[r] = "running"
        /\ RowStatus(r)' = RowStatus(r) /\ rec'[r].untracked = rec[r].untracked
        /\ Report(r)' = Report(r)
    BY <1>19 DEF SessionOpens, StageOK, Stage, Untouched, Phase, RowStatus, Recorded, Report, TypeOK, Record
  <2>3. Contract!Work(r)
    BY <2>1, <2>2 DEF Unseen, Contract!Work
  <2> QED
    BY <2>3 DEF Step, Contract!Next
<1>20. ASSUME NEW r \in Runs, SessionFails(r) PROVE Step
  <2>1. \A q \in Runs \ {r} : Unseen(q)
    BY <1>20, UnseenFrame DEF SessionFails, TypeOK
  <2>2. Unseen(r)
    BY <1>20 DEF SessionFails, Unseen, Phase, RowStatus, Recorded, Report, TypeOK, Record
  <2> QED
    BY <2>1, <2>2, UnseenStutters DEF Step
<1> QED
  BY <1>1, <1>2, <1>3, <1>4, <1>5, <1>6, <1>7, <1>8, <1>9, <1>10, <1>11, <1>12,
     <1>13, <1>14, <1>15, <1>16, <1>17, <1>18, <1>19, <1>20
     DEF Next, RunStep, ServerStep, Finished

(* Runner.Run keeps the audit contract, for every number of concurrent     *)
(* invocations and every failure of the database, the target, the          *)
(* connection or the process.                                              *)
THEOREM Refinement == Spec => ImplementsContract
<1>1. Init => Contract!Init
  BY InitRefines
<1>2. IInv /\ [Next]_vars => [Contract!Next]_(Contract!vars)
  BY StepRefines
<1> QED
  BY <1>1, <1>2, Invariance, PTL DEF Spec, ImplementsContract, Contract!Spec

-----------------------------------------------------------------------------
(* The pool *)

Holding == {r \in Runs : worker[r] \in {"running", "counted"}}
Counted == {r \in Runs : worker[r] \in {"counted", "done"} /\ pc[r] = "returned"}
Untracked == {r \in Counted : rec[r].untracked}
Succeeded == {r \in Counted : rec[r].status = "success"}

(* --dry-run ended the command: no runner was ever called. *)
DryRan == \A r \in Runs : worker[r] = "done" /\ pc[r] = "idle"

(* The channel holds the goroutines between Acquire and Release. *)
SlotsOK ==
    /\ worker \in [Runs -> {"waiting", "running", "counted", "done"}]
    /\ sem = Holding
    /\ Cardinality(sem) <= Limit

(* A runner runs only inside the slot of its goroutine. *)
InSlot ==
    \A r \in Runs :
        /\ worker[r] = "waiting" => pc[r] = "idle"
        /\ pc[r] \in InFlight => worker[r] = "running"
        /\ worker[r] = "counted" => pc[r] = "returned"

TalliesOK ==
    /\ res \in [success : Nat, failure : Nat, untracked : Nat]
    /\ \/ DryRan
       \/ /\ \A r \in Runs : worker[r] = "done" => pc[r] = "returned"
          /\ res.success + res.failure = Cardinality(Counted)
          /\ res.untracked = Cardinality(Untracked)
          /\ res.success = Cardinality(Succeeded)

ExitOK ==
    /\ exit \in {-1, 0, 1, 3}
    /\ exit # -1 => /\ \A r \in Runs : worker[r] = "done"
                    /\ DryRan \/ exit = ExitCode

PoolInv == SlotsOK /\ InSlot /\ TalliesOK /\ ExitOK

-----------------------------------------------------------------------------
(* The pool and the runner *)

(* A step of the pool is a step of the runners, or leaves them alone.      *)
LEMMA PoolStepsRunner == [PoolNext]_allVars => [Next]_vars
<1> SUFFICES ASSUME [PoolNext]_allVars PROVE Next \/ UNCHANGED vars
  OBVIOUS
<1>1. ASSUME NEW r \in Runs, WorkerStep(r) PROVE Next \/ UNCHANGED vars
  BY <1>1 DEF WorkerStep, Acquire, RunInPool, Count, Release, Next
<1>2. CASE Exit \/ DryRun \/ Exited \/ UNCHANGED allVars
  BY <1>2 DEF Exit, DryRun, Exited, allVars
<1>3. CASE Signal
  <2>1. Cancel(Runs) /\ Runs \in SUBSET Runs
    BY <1>3 DEF Signal
  <2> QED
    BY <2>1 DEF Next
<1>4. CASE Environment
  BY <1>4 DEF Environment, Next
<1> QED
  BY <1>1, <1>2, <1>3, <1>4 DEF PoolNext

(* Every invocation of a pool behaves as Runner.Run specifies; theorems    *)
(* about Spec are theorems about the pool.                                 *)
THEOREM PoolRunsRunners == PoolSpec => Spec
<1>1. PoolInit => Init
  BY DEF PoolInit
<1> QED
  BY <1>1, PoolStepsRunner, PTL DEF PoolSpec, Spec

(* What a step of q's runner, or of its target, can change: q only, never  *)
(* after q returned, and q takes off from "idle" only when it is called.   *)
LEMMA RunnerFrame ==
    ASSUME TypeOK, NEW q \in Runs,
           \/ RunInvalid(q) \/ RunStarts(q) \/ RunStep(q)
           \/ RemoteEnds(q) \/ ServerStep(q)
    PROVE  /\ \A r \in Runs \ {q} : pc'[r] = pc[r] /\ rec'[r] = rec[r]
           /\ \/ pc'[q] = pc[q] /\ rec'[q] = rec[q]
              \/ pc[q] \in InFlight \cup {"idle"}
<1>1. CASE RunInvalid(q) \/ RunStarts(q)
  BY <1>1 DEF RunInvalid, RunStarts, TypeOK
<1>2. CASE BeginRun(q)
  BY <1>2 DEF BeginRun, CreateRun, InFlight, TypeOK
<1>3. CASE BeginRunRefused(q) \/ BeginRunUntracked(q)
  BY <1>3 DEF BeginRunRefused, BeginRunUntracked, InFlight, TypeOK
<1>4. CASE LaunchFails(q) \/ Launch(q) \/ Dial(q) \/ SessionOpens(q) \/ SessionFails(q)
  BY <1>4 DEF LaunchFails, Launch, Dial, SessionOpens, SessionFails, InFlight, TypeOK
<1>5. CASE ExecuteReturns(q) \/ SSHCanceled(q) \/ LocalKilled(q) \/ ConnectionLost(q)
  BY <1>5 DEF ExecuteReturns, SSHCanceled, LocalKilled, ConnectionLost, InFlight, TypeOK
<1>6. CASE FinalizeRun(q)
  BY <1>6 DEF FinalizeRun, CreateRun, UpdateRun, InFlight, TypeOK
<1>7. CASE FinalizeRunFails(q)
  BY <1>7 DEF FinalizeRunFails, InFlight, TypeOK
<1>8. CASE RemoteEnds(q)
  BY <1>8 DEF RemoteEnds
<1> QED
  BY <1>1, <1>2, <1>3, <1>4, <1>5, <1>6, <1>7, <1>8 DEF RunStep, ServerStep

-----------------------------------------------------------------------------
(* The inductive invariant *)

(* Limit is a positive number, and no more than --parallel when that is one. *)
LEMMA LimitPositive ==
    /\ Limit \in Nat \ {0}
    /\ MaxParallel > 0 => Limit <= MaxParallel
<1>1. Cardinality(Runs) \in Nat /\ Cardinality(Runs) # 0
  BY PoolAssumption, FS_CardinalityType, FS_EmptySet
<1> QED
  BY <1>1, PoolAssumption DEF Limit

(* A set of jobs is finite and counts as many jobs as it holds. *)
LEMMA JobSets ==
    /\ IsFiniteSet(sem \cap Runs)
    /\ IsFiniteSet(Counted) /\ Cardinality(Counted) \in Nat
    /\ IsFiniteSet(Untracked) /\ Cardinality(Untracked) \in Nat
    /\ IsFiniteSet(Succeeded) /\ Cardinality(Succeeded) \in Nat
<1>1. /\ Counted \in SUBSET Runs /\ Untracked \in SUBSET Runs
      /\ Succeeded \in SUBSET Runs /\ sem \cap Runs \in SUBSET Runs
  BY DEF Counted, Untracked, Succeeded
<1>2. \A T \in SUBSET Runs : IsFiniteSet(T)
  BY PoolAssumption, FS_Subset
<1> QED
  BY <1>1, <1>2, FS_CardinalityType

(* Before the first Acquire no slot is held and nothing is counted. *)
LEMMA PoolInitInv == PoolInit => PoolInv
<1> SUFFICES ASSUME PoolInit PROVE PoolInv
  OBVIOUS
<1>1. Holding = {} /\ Counted = {} /\ Untracked = {} /\ Succeeded = {}
  BY DEF PoolInit, Holding, Counted, Untracked, Succeeded
<1>2. SlotsOK
  BY <1>1, LimitPositive, FS_EmptySet DEF PoolInit, SlotsOK
<1>3. InSlot
  BY DEF PoolInit, Init, InSlot, InFlight
<1>4. TalliesOK
  BY <1>1, FS_EmptySet DEF PoolInit, TalliesOK
<1>5. ExitOK
  BY DEF PoolInit, ExitOK
<1> QED
  BY <1>2, <1>3, <1>4, <1>5 DEF PoolInv

(* A step that counts nobody and leaves the counted runs alone.            *)
LEMMA CountedFrame ==
    ASSUME \A r \in Runs : (worker'[r] \in {"counted", "done"}) <=> (worker[r] \in {"counted", "done"}),
           \A r \in Runs : worker[r] \in {"counted", "done"} => pc'[r] = pc[r] /\ rec'[r] = rec[r]
    PROVE  Counted' = Counted /\ Untracked' = Untracked /\ Succeeded' = Succeeded
  BY DEF Counted, Untracked, Succeeded

(* A step of a runner, of a target or of the operator while the goroutines *)
(* stay where they are.                                                    *)
LEMMA RunnersMove ==
    ASSUME PoolInv, UNCHANGED poolVars, InSlot',
           \A r \in Runs : worker[r] # "running" => pc'[r] = pc[r] /\ rec'[r] = rec[r]
    PROVE  PoolInv'
<1>1. SlotsOK'
  BY DEF PoolInv, SlotsOK, poolVars, Holding, Limit
<1>2. Counted' = Counted /\ Untracked' = Untracked /\ Succeeded' = Succeeded
  BY CountedFrame DEF poolVars
<1>3. DryRan => DryRan'
  BY DEF DryRan, poolVars
<1>4. TalliesOK'
  BY <1>2, <1>3 DEF PoolInv, TalliesOK, poolVars
<1>5. ExitOK'
  BY <1>3 DEF PoolInv, ExitOK, ExitCode, poolVars
<1> QED
  BY <1>1, <1>4, <1>5 DEF PoolInv

(* What Count adds for one returned run is one failure or one success, and *)
(* at most one untracked run: "success without an error unless untracked"  *)
(* is just the record's status, because a clean success has no error.      *)
LEMMA CountStep ==
    ASSUME PoolInv, IInv, HonestLedger, NEW r \in Runs, Count(r)
    PROVE  /\ res' \in [success : Nat, failure : Nat, untracked : Nat]
           /\ res'.success + res'.failure = Cardinality(Counted')
           /\ res'.untracked = Cardinality(Untracked')
           /\ res'.success = Cardinality(Succeeded')
<1> DEFINE ok == rec[r].status = "success"
           late == rec[r].untracked
<1>1. /\ worker[r] = "running" /\ pc[r] = "returned"
      /\ worker' = [worker EXCEPT ![r] = "counted"]
      /\ pc' = pc /\ rec' = rec
  BY DEF Count, vars
<1>2. late \in BOOLEAN
  BY DEF IInv, TypeOK, Record
<1>3. ok /\ ~late => err[r] = "nil"
  BY <1>1 DEF HonestLedger, Report
<1>4. (ok /\ (late \/ err[r] = "nil")) <=> ok
  BY <1>2, <1>3
<1>5. res' = [success   |-> res.success + (IF ok THEN 1 ELSE 0),
              failure   |-> res.failure + (IF ok THEN 0 ELSE 1),
              untracked |-> res.untracked + (IF late THEN 1 ELSE 0)]
  BY <1>4 DEF Count
<1>6. /\ r \notin Counted /\ Counted' = Counted \cup {r}
      /\ Untracked' = IF late THEN Untracked \cup {r} ELSE Untracked
      /\ Succeeded' = IF ok THEN Succeeded \cup {r} ELSE Succeeded
      /\ r \notin Untracked /\ r \notin Succeeded
  <2>1. worker \in [Runs -> {"waiting", "running", "counted", "done"}]
    BY DEF PoolInv, SlotsOK
  <2>2. r \notin Counted /\ Counted' = Counted \cup {r}
    BY <1>1, <2>1 DEF Counted
  <2> QED
    BY <1>1, <2>2 DEF Untracked, Succeeded
<1> HIDE DEF ok, late
<1>7. /\ Cardinality(Counted') = Cardinality(Counted) + 1
      /\ Cardinality(Untracked') = Cardinality(Untracked) + (IF late THEN 1 ELSE 0)
      /\ Cardinality(Succeeded') = Cardinality(Succeeded) + (IF ok THEN 1 ELSE 0)
  <2>1. \A S : IsFiniteSet(S) /\ r \notin S => Cardinality(S \cup {r}) = Cardinality(S) + 1
    BY FS_AddElement
  <2>2. Cardinality(Counted') = Cardinality(Counted) + 1
    BY <1>6, <2>1, JobSets
  <2>3. Cardinality(Untracked') = Cardinality(Untracked) + (IF late THEN 1 ELSE 0)
    BY <1>6, <2>1, JobSets
  <2>4. Cardinality(Succeeded') = Cardinality(Succeeded) + (IF ok THEN 1 ELSE 0)
    BY <1>6, <2>1, JobSets
  <2> QED
    BY <2>2, <2>3, <2>4
<1>8. ~DryRan
  BY <1>1 DEF DryRan
<1>9. /\ res \in [success : Nat, failure : Nat, untracked : Nat]
      /\ res.success + res.failure = Cardinality(Counted)
      /\ res.untracked = Cardinality(Untracked)
      /\ res.success = Cardinality(Succeeded)
  BY <1>8 DEF PoolInv, TalliesOK
<1>10. res' \in [success : Nat, failure : Nat, untracked : Nat]
  BY <1>5, <1>9
<1>11. /\ res'.success = res.success + (IF ok THEN 1 ELSE 0)
       /\ res'.failure = res.failure + (IF ok THEN 0 ELSE 1)
       /\ res'.untracked = res.untracked + (IF late THEN 1 ELSE 0)
  BY <1>5
<1>12. res'.success + res'.failure = res.success + res.failure + 1
  BY <1>9, <1>11
<1> QED
  BY <1>7, <1>9, <1>10, <1>11, <1>12

(* The inductive step: a slot is taken only while one is free and comes    *)
(* back once, every returned run is counted once, and the exit code is     *)
(* computed after the last Release.                                        *)
LEMMA PoolNextInv == PoolInv /\ IInv /\ HonestLedger /\ [PoolNext]_allVars => PoolInv'
<1> SUFFICES ASSUME PoolInv, IInv, HonestLedger, [PoolNext]_allVars PROVE PoolInv'
  OBVIOUS
<1>0. /\ TypeOK
      /\ worker \in [Runs -> {"waiting", "running", "counted", "done"}]
      /\ sem = Holding /\ IsFiniteSet(sem) /\ Cardinality(sem) \in Nat
      /\ Cardinality(sem) <= Limit
  <2>1. sem = Holding /\ sem \cap Runs = sem
    BY DEF PoolInv, SlotsOK, Holding
  <2>2. IsFiniteSet(sem)
    BY <2>1, JobSets
  <2> QED
    BY <2>1, <2>2, FS_CardinalityType DEF PoolInv, SlotsOK, IInv
<1>1. ASSUME NEW r \in Runs, Acquire(r) PROVE PoolInv'
  <2>1. SlotsOK'
    <3>1. Holding' = Holding \cup {r} /\ r \notin Holding
      BY <1>0, <1>1 DEF Acquire, Holding
    <3>2. Cardinality(sem') = Cardinality(sem) + 1
      BY <1>0, <1>1, <3>1, FS_AddElement DEF Acquire
    <3>3. Cardinality(sem') <= Limit
      BY <1>0, <1>1, <3>2, LimitPositive DEF Acquire
    <3>4. Limit' = Limit
      BY DEF Limit
    <3> QED
      BY <1>0, <1>1, <3>1, <3>3, <3>4 DEF Acquire, SlotsOK
  <2>2. InSlot'
    BY <1>0, <1>1 DEF Acquire, InSlot, PoolInv, InFlight, vars
  <2>3. Counted' = Counted /\ Untracked' = Untracked /\ Succeeded' = Succeeded
    BY <1>0, <1>1, CountedFrame DEF Acquire, vars
  <2>4. ~DryRan /\ (\A q \in Runs : worker'[q] = "done" => worker[q] = "done" /\ pc'[q] = pc[q])
    BY <1>0, <1>1 DEF Acquire, DryRan, vars
  <2>5. TalliesOK'
    BY <1>1, <2>3, <2>4 DEF Acquire, PoolInv, TalliesOK
  <2>6. ExitOK'
    BY <1>1 DEF Acquire, PoolInv, ExitOK
  <2> QED
    BY <2>1, <2>2, <2>5, <2>6 DEF PoolInv
<1>2. ASSUME NEW r \in Runs, RunInPool(r) PROVE PoolInv'
  <2>1. /\ worker[r] = "running" /\ UNCHANGED poolVars
        /\ RunInvalid(r) \/ RunStarts(r) \/ RunStep(r)
    BY <1>2 DEF RunInPool
  <2>2. \A q \in Runs \ {r} : pc'[q] = pc[q] /\ rec'[q] = rec[q]
    BY <1>0, <2>1, RunnerFrame
  <2>3. InSlot'
    BY <2>1, <2>2 DEF InSlot, PoolInv, poolVars
  <2> QED
    BY <2>1, <2>2, <2>3, RunnersMove
<1>3. ASSUME NEW r \in Runs, Count(r) PROVE PoolInv'
  <2>1. /\ worker[r] = "running" /\ pc[r] = "returned" /\ pc' = pc
        /\ worker' = [worker EXCEPT ![r] = "counted"] /\ sem' = sem /\ exit' = exit
    BY <1>3 DEF Count, vars
  <2>2. SlotsOK'
    BY <1>0, <2>1 DEF SlotsOK, Holding, Limit
  <2>3. InSlot'
    BY <1>0, <2>1 DEF InSlot, PoolInv, InFlight
  <2>4. \A q \in Runs : worker'[q] = "done" => pc'[q] = "returned"
    BY <1>0, <2>1 DEF PoolInv, TalliesOK, DryRan
  <2>5. TalliesOK'
    BY <1>3, <2>4, CountStep DEF TalliesOK
  <2>6. ExitOK'
    BY <2>1 DEF PoolInv, ExitOK
  <2> QED
    BY <2>2, <2>3, <2>5, <2>6 DEF PoolInv
<1>4. ASSUME NEW r \in Runs, Release(r) PROVE PoolInv'
  <2>1. /\ worker[r] = "counted" /\ pc' = pc /\ rec' = rec /\ res' = res
        /\ worker' = [worker EXCEPT ![r] = "done"] /\ sem' = sem \ {r} /\ exit' = exit
    BY <1>4 DEF Release, vars
  <2>2. SlotsOK'
    <3>1. Holding' = Holding \ {r} /\ r \in Holding
      BY <1>0, <2>1 DEF Holding
    <3>2. Cardinality(sem') <= Cardinality(sem) /\ Cardinality(sem') \in Int
      <4>1. r \in sem /\ sem' = sem \ {r}
        BY <1>0, <2>1, <3>1
      <4>2. Cardinality(sem \ {r}) = Cardinality(sem) - 1
        BY <1>0, <4>1, FS_RemoveElement
      <4> QED
        BY <1>0, <4>1, <4>2
    <3>3. Limit' = Limit
      BY DEF Limit
    <3> QED
      BY <1>0, <2>1, <3>1, <3>2, <3>3, LimitPositive DEF SlotsOK
  <2>3. InSlot'
    BY <1>0, <2>1 DEF InSlot, PoolInv, InFlight
  <2>4. Counted' = Counted /\ Untracked' = Untracked /\ Succeeded' = Succeeded
    BY <1>0, <2>1, CountedFrame
  <2>5. ~DryRan /\ pc[r] = "returned"
    BY <2>1 DEF DryRan, PoolInv, InSlot
  <2>6. \A q \in Runs : worker'[q] = "done" => pc'[q] = "returned"
    BY <1>0, <2>1, <2>5 DEF PoolInv, TalliesOK
  <2>7. TalliesOK'
    BY <2>1, <2>4, <2>5, <2>6 DEF PoolInv, TalliesOK
  <2>8. ExitOK'
    BY <2>1 DEF PoolInv, ExitOK
  <2> QED
    BY <2>2, <2>3, <2>7, <2>8 DEF PoolInv
<1>5. CASE Exit
  <2>1. /\ \A r \in Runs : worker[r] = "done"
        /\ exit' = ExitCode /\ pc' = pc /\ rec' = rec
        /\ worker' = worker /\ sem' = sem /\ res' = res
    BY <1>5 DEF Exit, vars
  <2>2. SlotsOK' /\ InSlot'
    BY <2>1 DEF PoolInv, SlotsOK, InSlot, Holding, Limit
  <2>3. Counted' = Counted /\ Untracked' = Untracked /\ Succeeded' = Succeeded
    BY <2>1, CountedFrame
  <2>4. (DryRan => DryRan') /\ ExitCode' = ExitCode
    BY <2>1 DEF DryRan, ExitCode
  <2>5. TalliesOK'
    BY <2>1, <2>3, <2>4 DEF PoolInv, TalliesOK
  <2>6. ExitOK'
    BY <2>1, <2>4 DEF ExitOK, ExitCode
  <2> QED
    BY <2>2, <2>5, <2>6 DEF PoolInv
<1>6. CASE DryRun
  <2>1. /\ \A r \in Runs : worker[r] = "waiting"
        /\ worker' = [r \in Runs |-> "done"]
        /\ pc' = pc /\ sem' = sem /\ exit' \in {0, 1}
    BY <1>6 DEF DryRun, vars
  <2>2. DryRan'
    BY <2>1 DEF DryRan, PoolInv, InSlot
  <2>3. SlotsOK'
    BY <1>0, <2>1 DEF SlotsOK, Holding, Limit
  <2>4. InSlot'
    BY <2>2 DEF DryRan, InSlot, InFlight
  <2>5. res' \in [success : Nat, failure : Nat, untracked : Nat]
    <3>1. \A broken \in SUBSET Runs :
            Cardinality(Runs \ broken) \in Nat /\ Cardinality(broken) \in Nat
      BY PoolAssumption, FS_Subset, FS_CardinalityType
    <3> QED
      BY <1>6, <3>1 DEF DryRun
  <2>6. TalliesOK' /\ ExitOK'
    BY <2>1, <2>2, <2>5 DEF TalliesOK, ExitOK, DryRan
  <2> QED
    BY <2>3, <2>4, <2>6 DEF PoolInv
<1>7. CASE Signal
  <2>1. pc' = pc /\ rec' = rec /\ UNCHANGED poolVars
    BY <1>7 DEF Signal, Cancel
  <2>2. InSlot'
    BY <2>1 DEF InSlot, PoolInv, poolVars
  <2> QED
    BY <2>1, <2>2, RunnersMove
<1>8. CASE Environment
  <2> PICK r \in Runs : RemoteEnds(r) \/ ServerStep(r)
    BY <1>8 DEF Environment
  <2>1. UNCHANGED poolVars /\ rec' = rec
    BY <1>8 DEF Environment, RemoteEnds, ServerStep, SessionOpens, SessionFails, ConnectionLost
  <2>2. \/ pc' = pc
        \/ pc[r] \in InFlight /\ \E w \in InFlight : pc' = [pc EXCEPT ![r] = w]
    BY DEF RemoteEnds, ServerStep, SessionOpens, SessionFails, ConnectionLost, InFlight
  <2>3. pc[r] \in InFlight => worker[r] = "running"
    BY DEF PoolInv, InSlot, InFlight
  <2>4. InSlot'
    BY <1>0, <2>1, <2>2, <2>3 DEF InSlot, PoolInv, poolVars, TypeOK, InFlight
  <2>5. \A q \in Runs : worker[q] # "running" => pc'[q] = pc[q] /\ rec'[q] = rec[q]
    BY <1>0, <2>1, <2>2, <2>3 DEF TypeOK
  <2> QED
    BY <2>1, <2>4, <2>5, RunnersMove
<1>9. CASE UNCHANGED allVars
  <2>1. pc' = pc /\ rec' = rec /\ UNCHANGED poolVars
    BY <1>9 DEF allVars, vars
  <2>2. InSlot'
    BY <2>1 DEF InSlot, PoolInv, poolVars
  <2> QED
    BY <2>1, <2>2, RunnersMove
<1> QED
  BY <1>1, <1>2, <1>3, <1>4, <1>5, <1>6, <1>7, <1>8, <1>9
     DEF PoolNext, WorkerStep, Exited

-----------------------------------------------------------------------------
(* Theorems *)

(* At every moment a goroutine's slot, its runner and the tallies agree.   *)
THEOREM PoolInvariance == PoolSpec => []PoolInv
  BY PoolInitInv, PoolNextInv, PoolRunsRunners, Invariance, LedgerHonest, PTL DEF PoolSpec

(* --parallel bounds the jobs on targets for every batch and every limit.  *)
THEOREM ParallelismIsBounded == PoolSpec => []ParallelismBounded
<1>1. PoolInv => ParallelismBounded
  <2> SUFFICES ASSUME PoolInv PROVE ParallelismBounded
    OBVIOUS
  <2> DEFINE busy == {r \in Runs : pc[r] \in InFlight}
  <2>1. sem = sem \cap Runs /\ busy \subseteq sem
    BY DEF PoolInv, SlotsOK, InSlot, Holding
  <2>2. Cardinality(busy) <= Cardinality(sem) /\ Cardinality(sem) \in Nat
    BY <2>1, JobSets, FS_Subset, FS_CardinalityType
  <2> QED
    BY <2>2, LimitPositive, PoolAssumption DEF PoolInv, SlotsOK, ParallelismBounded
<1> QED
  BY <1>1, PoolInvariance, PTL

(* The summary's tallies are exact however the goroutines interleave.      *)
THEOREM TalliesAreExact == PoolSpec => []TalliesExact
<1>1. PoolInv => TalliesExact
  BY DEF PoolInv, TalliesOK, DryRan, TalliesExact, Counted, Untracked, Succeeded
<1> QED
  BY <1>1, PoolInvariance, PTL

(* Once every goroutine is done, the tallies tell whether all the batch    *)
(* succeeded and whether any of it is untracked.                           *)
LEMMA TalliesDecide ==
    ASSUME PoolInv, ~DryRan, \A r \in Runs : worker[r] = "done"
    PROVE  /\ Counted = Runs
           /\ res.failure = 0 <=> Succeeded = Runs
           /\ res.untracked = 0 <=> Untracked = {}
           /\ res \in [success : Nat, failure : Nat, untracked : Nat]
<1>1. /\ \A r \in Runs : worker[r] = "done" => pc[r] = "returned"
      /\ res.success + res.failure = Cardinality(Counted)
      /\ res.untracked = Cardinality(Untracked)
      /\ res.success = Cardinality(Succeeded)
      /\ res \in [success : Nat, failure : Nat, untracked : Nat]
  BY DEF PoolInv, TalliesOK
<1>2. Counted = Runs /\ Succeeded \in SUBSET Runs
  BY <1>1 DEF Counted, Succeeded
<1>3. Cardinality(Succeeded) = Cardinality(Runs) <=> Succeeded = Runs
  BY <1>2, PoolAssumption, FS_Subset
<1>4. res.failure = 0 <=> res.success = Cardinality(Counted)
  BY <1>1
<1>5. res.untracked = 0 <=> Untracked = {}
  BY <1>1, JobSets, FS_EmptySet
<1> QED
  BY <1>1, <1>2, <1>3, <1>4, <1>5

(* 0, 3 and anything else mean what docs/reference/backup.md says they do: *)
(* 0 exactly when the ledger holds a success of every job of the batch.    *)
THEOREM ExitCodeIsTruthful == PoolSpec => []ExitCodeTruthful
<1>1. IInv /\ PoolInv => ExitCodeTruthful
  <2> SUFFICES ASSUME IInv, PoolInv, exit # -1, \E r \in Runs : pc[r] # "idle"
               PROVE  /\ exit = 0 => \A r \in Runs : RowStatus(r) = "success" /\ ~rec[r].untracked
                      /\ exit = 3 => /\ \A r \in Runs : remote[r] = "done"
                                     /\ \E r \in Runs : rec[r].untracked
                      /\ (\A r \in Runs : RowStatus(r) = "success" /\ ~rec[r].untracked) => exit = 0
    BY DEF ExitCodeTruthful
  <2>1. ~DryRan /\ (\A r \in Runs : worker[r] = "done") /\ exit = ExitCode
    BY DEF PoolInv, ExitOK, DryRan
  <2>2. /\ Counted = Runs
        /\ res.failure = 0 <=> Succeeded = Runs
        /\ res.untracked = 0 <=> Untracked = {}
        /\ res \in [success : Nat, failure : Nat, untracked : Nat]
    BY <2>1, TalliesDecide
  <2>3. exit = 0 <=> Succeeded = Runs /\ Untracked = {}
    BY <2>1, <2>2 DEF ExitCode
  <2>4. exit = 3 <=> Succeeded = Runs /\ Untracked # {}
    BY <2>1, <2>2 DEF ExitCode
  <2>5. Succeeded = Runs <=> \A r \in Runs : rec[r].status = "success"
    BY <2>2 DEF Succeeded
  <2>6. Untracked = {} <=> \A r \in Runs : ~rec[r].untracked
    BY <2>2 DEF Untracked
  <2>7. ASSUME NEW r \in Runs
        PROVE  /\ rec[r].status = "success" => remote[r] = "done"
               /\ rec[r].status = "success" /\ ~rec[r].untracked => RowStatus(r) = "success"
               /\ RowStatus(r) = "success" => rec[r].status = "success"
    <3>1. pc[r] = "returned" /\ Stage(r)
      BY <2>2 DEF Counted, IInv, StageOK
    <3>2. Closed(r) \/ Untouched(r)
      BY <3>1 DEF Stage
    <3> QED
      BY <3>2 DEF Closed, Untouched, RowStatus, Recorded
  <2> QED
    BY <2>3, <2>4, <2>5, <2>6, <2>7
<1> QED
  BY <1>1, PoolInvariance, PoolRunsRunners, Invariance, PTL
===============================================================================
