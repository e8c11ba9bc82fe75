------------------------------ MODULE AuditedRun ------------------------------
(***************************************************************************)
(* What opspulse promises about an audited operation, whatever it does on  *)
(* the target (a restic backup, a restore): it works on the target only    *)
(* after the SQLite ledger holds its row, or after the operator accepted   *)
(* an unaudited run; its row never says something that did not happen; and *)
(* it reports a clean success only when the ledger says the same.          *)
(*                                                                         *)
(* The contract is the one the comments of internal/backup/runner.go state *)
(* ("It fails closed", "a run that cannot be recorded cannot be trusted"); *)
(* BackupRunner implements it.                                             *)
(***************************************************************************)

CONSTANTS
    Runs,         \* the invocations of the operation
    UntrackedOK   \* those started in --allow-untracked emergency mode

VARIABLES
    phase,    \* "idle", "open" (in flight) or "closed" (returned or killed)
    work,     \* what really happens on the target
    ledger,   \* the status of the run's row in SQLite, "none" without a row
    gap,      \* the run is known not to be audited
    report    \* what the caller was told

vars == <<phase, work, ledger, gap, report>>

Outcomes == {"success", "failed", "canceled"}

TypeOK ==
    /\ phase \in [Runs -> {"idle", "open", "closed"}]
    /\ work \in [Runs -> {"none", "running", "done", "broken"}]
    /\ ledger \in [Runs -> Outcomes \cup {"none", "running"}]
    /\ gap \in [Runs -> BOOLEAN]
    /\ report \in [Runs -> {"none", "clean", "unaudited", "error"}]

Init ==
    /\ phase = [r \in Runs |-> "idle"]
    /\ work = [r \in Runs |-> "none"]
    /\ ledger = [r \in Runs |-> "none"]
    /\ gap = [r \in Runs |-> FALSE]
    /\ report = [r \in Runs |-> "none"]

(* The operation ends before it wrote or touched anything. *)
Refuse(r) ==
    /\ phase[r] = "idle"
    /\ phase' = [phase EXCEPT ![r] = "closed"]
    /\ report' = [report EXCEPT ![r] = "error"]
    /\ UNCHANGED <<work, ledger, gap>>

(* The row is written first, with status "running". *)
Open(r) ==
    /\ phase[r] = "idle"
    /\ phase' = [phase EXCEPT ![r] = "open"]
    /\ ledger' = [ledger EXCEPT ![r] = "running"]
    /\ UNCHANGED <<work, gap, report>>

(* The row cannot be written and the operator accepted that. *)
OpenUnaudited(r) ==
    /\ r \in UntrackedOK
    /\ phase[r] = "idle"
    /\ phase' = [phase EXCEPT ![r] = "open"]
    /\ gap' = [gap EXCEPT ![r] = TRUE]
    /\ UNCHANGED <<work, ledger, report>>

Work(r) ==
    /\ phase[r] = "open"
    /\ work[r] = "none"
    /\ work' = [work EXCEPT ![r] = "running"]
    /\ UNCHANGED <<phase, ledger, gap, report>>

(* The work ends when it wants to, also after the operation was given up. *)
WorkEnds(r) ==
    /\ work[r] = "running"
    /\ \E w \in {"done", "broken"} : work' = [work EXCEPT ![r] = w]
    /\ UNCHANGED <<phase, ledger, gap, report>>

(* The operation ends with outcome o and its row says so; only work that   *)
(* was done is recorded as a success, and only an audited success is clean.*)
Close(r, o) ==
    /\ phase[r] = "open"
    /\ o = "success" => work[r] = "done"
    /\ phase' = [phase EXCEPT ![r] = "closed"]
    /\ ledger' = [ledger EXCEPT ![r] = o]
    /\ report' = [report EXCEPT ![r] =
         IF o # "success" THEN "error" ELSE IF gap[r] THEN "unaudited" ELSE "clean"]
    /\ UNCHANGED <<work, gap>>

(* The outcome could not be recorded: the run becomes unaudited.           *)
CloseUnrecorded(r) ==
    /\ phase[r] = "open"
    /\ phase' = [phase EXCEPT ![r] = "closed"]
    /\ gap' = [gap EXCEPT ![r] = TRUE]
    /\ \/ report' = [report EXCEPT ![r] = "error"]
       \/ work[r] = "done" /\ report' = [report EXCEPT ![r] = "unaudited"]
    /\ UNCHANGED <<work, ledger>>

(* The process is killed; nobody is told anything. *)
Crash(r) ==
    /\ phase[r] # "closed"
    /\ phase' = [phase EXCEPT ![r] = "closed"]
    /\ UNCHANGED <<work, ledger, gap, report>>

Next ==
    \E r \in Runs :
        \/ Refuse(r) \/ Open(r) \/ OpenUnaudited(r) \/ Work(r) \/ WorkEnds(r)
        \/ (\E o \in Outcomes : Close(r, o)) \/ CloseUnrecorded(r) \/ Crash(r)

Spec == Init /\ [][Next]_vars

(* No work on a target without a row for it, unless the operator accepted  *)
(* an unaudited run (fail-closed rule of beginRun).                        *)
FailClosed ==
    \A r \in Runs : work[r] # "none" => ledger[r] # "none" \/ (r \in UntrackedOK /\ gap[r])

(* Whoever was told "clean" finds the success in the ledger, and the work  *)
(* was done; a success in the ledger is never about work that was not.     *)
CleanIsAudited ==
    \A r \in Runs :
        /\ report[r] = "clean" => ledger[r] = "success" /\ ~gap[r]
        /\ report[r] = "unaudited" => gap[r]
        /\ ledger[r] = "success" => work[r] = "done"
=============================================================================
