---------------------------- MODULE SchedulerProofs ----------------------------
(***************************************************************************)
(* The safety properties of Scheduler for any number of jobs, triggers and *)
(* workers and any queue: no event is lost or doubled, what the end of the *)
(* process leaves behind is what it says, and a job has one open row. And  *)
(* those of Notifier, which is inside Scheduler's step Deliver, for any    *)
(* set of channels, any trigger of each and any number of attempts.        *)
(***************************************************************************)
EXTENDS Scheduler, Notifier, TLAPS, FiniteSetTheorems

(* An event is in the queue, in a worker's hands, dispatched or refused.   *)
Queued(e) == \E i \in 1 .. Len(queue) : queue[i] = e
Held(e) == \E w \in Workers : e \in holding[w]

(* Each execution that has ended is in exactly one of these places, once.  *)
PlacesOK ==
    /\ \A e \in Execs : epc[e] = "done" <=>
          Queued(e) \/ Held(e) \/ e \in delivered \/ e \in dropped
    /\ \A e \in Execs : Queued(e) => ~Held(e) /\ e \notin delivered /\ e \notin dropped
    /\ \A e \in Execs : Held(e) => e \notin delivered /\ e \notin dropped
    /\ delivered \cap dropped = {}
    /\ \A i, j \in 1 .. Len(queue) : queue[i] = queue[j] => i = j
    /\ \A v, w \in Workers : holding[v] \cap holding[w] # {} => v = w

(* How far shutdown has come, and that from its second half on nothing     *)
(* runs any more unless shutdownTimeout gave the jobs up.                  *)
Closing == main \notin {"serving", "stopping"}
PhasesOK ==
    /\ mode = "daemon" => current = {} /\ exit = -1
    /\ mode = "once" => main # "stopping" /\ ~timedOut
    /\ mode = "daemon" /\ canceled => Closing
    /\ stop => main \in {"draining", "returned", "exited"}
    /\ Closing /\ ~timedOut => NoJobRuns
    /\ mode = "once" => \A e \in Execs : Active(e) => e \in current
    /\ Closing /\ mode = "once" => current = {}

(* Workers start together, before the first event is sent, and leave an    *)
(* empty queue.                                                            *)
WorkersOK ==
    /\ \A w \in Workers : worker[w] \in {"busy", "flushing"} <=> holding[w] # {}
    /\ \A w \in Workers : worker[w] \in {"stopping", "flushing", "gone"} => stop
    /\ (\E w \in Workers : worker[w] = "off") =>
          /\ \A w \in Workers : worker[w] = "off"
          /\ queue = << >>
          /\ \A e \in Execs : epc[e] # "send"
    /\ ~timedOut /\ (\E w \in Workers : worker[w] = "gone") => queue = << >>
    /\ main \in {"returned", "exited"} /\ ~timedOut /\ ~undrained =>
          \A w \in Workers : worker[w] \in {"off", "gone"}

(* What the row and the error of an execution say at each of its stages.   *)
RowsOK ==
    /\ \A e \in Execs : row[e] = "running" => gap[e] \/ epc[e] \in {"dial", "connecting", "work", "final"}
    /\ \A e \in Execs :
          epc[e] \in {"notify", "start", "send", "done"} /\ err[e] = "nil" =>
              row[e] = "success" /\ ~gap[e]
    /\ mode = "daemon" => \A e \in Execs : err[e] = "canceled" => timedOut

(* A job's executions follow each other.                                   *)
SerialOK ==
    \A j \in Jobs : \A k, l \in 1 .. MaxRuns :
        k < l /\ epc[<<j, l>>] # "idle" => epc[<<j, k>>] = "done"

(* --once keeps the first error, and exits 0 only without one.             *)
OnceOK ==
    /\ mode = "once" /\ firstErr = "nil" =>
          \A e \in Execs : epc[e] = "done" /\ e \notin current => err[e] = "nil"
    /\ exit # -1 => main # "serving"
    /\ exit = 0 => \A j \in Jobs : epc[<<j, 1>>] = "done" /\ err[<<j, 1>>] = "nil"

(* The type invariant in three parts: executions, main goroutine, dispatcher. *)
ExecTypeOK ==
    /\ epc \in [Execs -> {"idle", "begin", "dial", "connecting", "work", "final", "notify",
                       "start", "send", "done"}]
    /\ row \in [Execs -> {"none", "running", "success", "failed", "canceled"}]
    /\ err \in [Execs -> Errors] /\ gap \in [Execs -> BOOLEAN]
MainTypeOK ==
    /\ mode \in {"daemon", "once"} /\ allow \in BOOLEAN
    /\ main \in {"serving", "stopping", "closing", "closed", "draining", "returned",
                 "exited"}
    /\ signaled \in BOOLEAN /\ canceled \in BOOLEAN /\ timedOut \in BOOLEAN
    /\ undrained \in BOOLEAN
    /\ current \in {{}} \cup {{e} : e \in Execs} /\ firstErr \in Errors
    /\ exit \in {-1, 0, 1, 3}
NotifyTypeOK ==
    /\ closed \in BOOLEAN /\ stop \in BOOLEAN
    /\ queue \in Seq(Execs) /\ Len(queue) <= QueueSize
    /\ worker \in [Workers -> {"off", "idle", "busy", "stopping", "flushing", "gone"}]
    /\ holding \in [Workers -> {{}} \cup {{e} : e \in Execs}]
    /\ delivered \subseteq Execs /\ dropped \subseteq Execs

IInv == /\ ExecTypeOK /\ MainTypeOK /\ NotifyTypeOK
        /\ PlacesOK /\ PhasesOK /\ WorkersOK /\ RowsOK /\ SerialOK /\ OnceOK

-----------------------------------------------------------------------------
LEMMA ExecPairs == \A e \in Execs : e = <<e[1], e[2]>> /\ e[1] \in Jobs /\ e[2] \in 1 .. MaxRuns
BY DEF Execs

LEMMA ExecOf == \A j \in Jobs, k \in 1 .. MaxRuns : <<j, k>> \in Execs
BY DEF Execs

LEMMA FirstOf == \A j \in Jobs : <<j, 1>> \in Execs
<1>1. 1 \in 1 .. MaxRuns
  BY SchedulerAssumption
<1> QED
  BY <1>1, ExecOf

LEMMA InitInv == Init => IInv
<1> SUFFICES ASSUME Init PROVE IInv
  OBVIOUS
<1>1. ExecTypeOK
  BY DEF Init, ExecTypeOK, Errors, None
<1>2. MainTypeOK
  BY DEF Init, MainTypeOK, Errors
<1>3. NotifyTypeOK
  <2>1. queue = << >>
    BY DEF Init
  <2>2. queue \in Seq(Execs) /\ Len(queue) <= QueueSize
    BY <2>1, SchedulerAssumption
  <2>3. holding \in [Workers -> {{}} \cup {{e} : e \in Execs}]
    BY DEF Init
  <2> QED
    BY <2>2, <2>3 DEF Init, NotifyTypeOK
<1>4. PlacesOK
  BY DEF Init, PlacesOK, Queued, Held
<1>5. PhasesOK
  BY DEF Init, PhasesOK, Closing, Active
<1>6. WorkersOK /\ RowsOK /\ OnceOK
  BY DEF Init, WorkersOK, RowsOK, OnceOK, None
<1>7. SerialOK
  BY ExecOf DEF Init, SerialOK
<1> QED
  BY <1>1, <1>2, <1>3, <1>4, <1>5, <1>6, <1>7 DEF IInv

(* What a step does to the executions' part of the state keeps its types.  *)
LEMMA ExecTypeStep == ExecTypeOK /\ Next => ExecTypeOK'
<1> SUFFICES ASSUME ExecTypeOK, Next PROVE ExecTypeOK'
  OBVIOUS
<1> USE DEF ExecTypeOK, Errors, Goto
<1>1. ASSUME NEW e \in Execs, Trigger(e) PROVE ExecTypeOK'
  BY <1>1 DEF Trigger
<1>2. ASSUME NEW e \in Execs, JobBegins(e) PROVE ExecTypeOK'
  BY <1>2 DEF JobBegins
<1>3. ASSUME NEW e \in Execs, JobRefused(e) \/ JobUntracked(e) PROVE ExecTypeOK'
  BY <1>3 DEF JobRefused, JobUntracked
<1>4. ASSUME NEW e \in Execs, TargetStep(e) \/ WorkCanceled(e) \/ LaunchFails(e) \/ Launch(e)
      PROVE ExecTypeOK'
  BY <1>4 DEF TargetStep, SessionOpens, SessionFails, WorkEnds, WorkCanceled, LaunchFails, Launch
<1>5. ASSUME NEW e \in Execs, Recorded(e) PROVE ExecTypeOK'
  BY <1>5 DEF Recorded, RunStatus
<1>6. ASSUME NEW e \in Execs, NotRecorded(e) PROVE ExecTypeOK'
  BY <1>6 DEF NotRecorded
<1>7. ASSUME NEW e \in Execs, EnqueueChecks(e) \/ EnqueueStarts(e) \/ EnqueueSends(e)
      PROVE ExecTypeOK'
  BY <1>7 DEF EnqueueChecks, EnqueueStarts, EnqueueSends
<1>8. ASSUME NEW w \in Workers, Deliver(w) \/ WorkerStep(w) PROVE ExecTypeOK'
  BY <1>8 DEF Deliver, WorkerStep, Take, SeesStop, Leaves, execVars
<1>9. ASSUME NEW e \in Execs, OnceStarts(e) \/ OnceReturns(e) PROVE ExecTypeOK'
  BY <1>9 DEF OnceStarts, OnceReturns, execVars
<1>10. CASE Signal \/ Stop \/ JobsCompleted \/ ShutdownTimeout \/ OnceInterrupted
            \/ OnceCompletes \/ Exited
  BY <1>10 DEF Signal, Stop, JobsCompleted, ShutdownTimeout, OnceInterrupted, OnceCompletes,
               Exited, vars, execVars
<1>11. CASE MarkClosed \/ CloseStop \/ Drained \/ DrainTimeout \/ Exit
  BY <1>11 DEF MarkClosed, CloseStop, Drained, DrainTimeout, Exit, execVars
<1> QED
  BY <1>1, <1>2, <1>3, <1>4, <1>5, <1>6, <1>7, <1>8, <1>9, <1>10, <1>11
  DEF Next, ExecStep, MainStep

LEMMA MainTypeStep == ExecTypeOK /\ MainTypeOK /\ Next => MainTypeOK'
<1> SUFFICES ASSUME ExecTypeOK, MainTypeOK, Next PROVE MainTypeOK'
  OBVIOUS
<1>1. CASE UNCHANGED mainVars
  BY <1>1 DEF mainVars, MainTypeOK
<1>2. ASSUME NEW e \in Execs, OnceStarts(e) PROVE MainTypeOK'
  BY <1>2 DEF OnceStarts, MainTypeOK
<1>3. ASSUME NEW e \in Execs, OnceReturns(e) PROVE MainTypeOK'
  <2>1. err[e] \in Errors
    BY DEF ExecTypeOK
  <2> QED
    BY <1>3, <2>1 DEF OnceReturns, ExitCodeOf, MainTypeOK
<1>4. CASE Signal \/ Stop \/ JobsCompleted \/ ShutdownTimeout
  BY <1>4 DEF Signal, Stop, JobsCompleted, ShutdownTimeout, MainTypeOK
<1>5. CASE OnceInterrupted \/ OnceCompletes
  BY <1>5 DEF OnceInterrupted, OnceCompletes, ExitCodeOf, MainTypeOK
<1>6. CASE MarkClosed \/ CloseStop \/ Drained \/ DrainTimeout \/ Exit
  BY <1>6 DEF MarkClosed, CloseStop, Drained, DrainTimeout, Exit, MainTypeOK
<1>7. ASSUME NEW e \in Execs, Trigger(e) \/ TargetStep(e) \/ ExecStep(e) PROVE UNCHANGED mainVars
  BY <1>7 DEF Trigger, TargetStep, SessionOpens, SessionFails, WorkEnds, ExecStep,
              LaunchFails, Launch, JobBegins, JobRefused, JobUntracked, WorkCanceled,
              Recorded, NotRecorded, EnqueueChecks, EnqueueStarts, EnqueueSends
<1>8. ASSUME NEW w \in Workers, Deliver(w) \/ WorkerStep(w) PROVE UNCHANGED mainVars
  BY <1>8 DEF Deliver, WorkerStep, Take, SeesStop, Leaves
<1>9. Exited => UNCHANGED mainVars
  BY DEF Exited, vars
<1> QED
  BY <1>1, <1>2, <1>3, <1>4, <1>5, <1>6, <1>7, <1>8, <1>9 DEF Next, MainStep

LEMMA NotifyTypeStep == NotifyTypeOK /\ Next => NotifyTypeOK'
<1> SUFFICES ASSUME NotifyTypeOK, Next PROVE NotifyTypeOK'
  OBVIOUS
<1>1. CASE UNCHANGED notifyVars
  BY <1>1 DEF notifyVars, NotifyTypeOK
<1>2. ASSUME NEW e \in Execs, EnqueueChecks(e) PROVE NotifyTypeOK'
  BY <1>2 DEF EnqueueChecks, NotifyTypeOK
<1>3. ASSUME NEW e \in Execs, EnqueueStarts(e) PROVE NotifyTypeOK'
  BY <1>3 DEF EnqueueStarts, NotifyTypeOK
<1>4. ASSUME NEW e \in Execs, EnqueueSends(e) PROVE NotifyTypeOK'
  <2>1. queue' \in Seq(Execs) /\ Len(queue') <= QueueSize
    BY <1>4, SchedulerAssumption DEF EnqueueSends, NotifyTypeOK
  <2> QED
    BY <1>4, <2>1 DEF EnqueueSends, NotifyTypeOK
<1>5. ASSUME NEW w \in Workers, Take(w) PROVE NotifyTypeOK'
  <2>1. /\ queue' \in Seq(Execs) /\ Len(queue') <= QueueSize
        /\ Head(queue) \in Execs
    BY <1>5, SchedulerAssumption DEF Take, NotifyTypeOK
  <2>2. holding' \in [Workers -> {{}} \cup {{e} : e \in Execs}]
    BY <1>5, <2>1 DEF Take, NotifyTypeOK
  <2> QED
    BY <1>5, <2>1, <2>2 DEF Take, NotifyTypeOK
<1>6. ASSUME NEW w \in Workers, Deliver(w) PROVE NotifyTypeOK'
  <2>1. holding' \in [Workers -> {{}} \cup {{e} : e \in Execs}]
    BY <1>6 DEF Deliver, NotifyTypeOK
  <2>2. delivered' \subseteq Execs
    BY <1>6 DEF Deliver, NotifyTypeOK
  <2> QED
    BY <1>6, <2>1, <2>2 DEF Deliver, NotifyTypeOK
<1>7. ASSUME NEW w \in Workers, SeesStop(w) \/ Leaves(w) PROVE NotifyTypeOK'
  BY <1>7 DEF SeesStop, Leaves, NotifyTypeOK
<1>8. CASE MarkClosed \/ CloseStop
  BY <1>8 DEF MarkClosed, CloseStop, NotifyTypeOK
<1>9. ASSUME NEW e \in Execs,
             \/ Trigger(e) \/ TargetStep(e) \/ JobBegins(e) \/ JobRefused(e) \/ JobUntracked(e)
             \/ LaunchFails(e) \/ Launch(e)
             \/ WorkCanceled(e) \/ Recorded(e) \/ NotRecorded(e) \/ OnceStarts(e) \/ OnceReturns(e)
      PROVE UNCHANGED notifyVars
  BY <1>9 DEF Trigger, TargetStep, SessionOpens, SessionFails, WorkEnds, JobBegins, JobRefused,
              JobUntracked, LaunchFails, Launch, WorkCanceled,
              Recorded, NotRecorded, OnceStarts, OnceReturns, notifyVars
<1>10. Signal \/ Stop \/ JobsCompleted \/ ShutdownTimeout \/ OnceInterrupted \/ OnceCompletes
       \/ Drained \/ DrainTimeout \/ Exit \/ Exited => UNCHANGED notifyVars
  BY DEF Signal, Stop, JobsCompleted, ShutdownTimeout, OnceInterrupted, OnceCompletes,
         Drained, DrainTimeout, Exit, Exited, vars
<1> QED
  BY <1>1, <1>2, <1>3, <1>4, <1>5, <1>6, <1>7, <1>8, <1>9, <1>10
  DEF Next, ExecStep, WorkerStep, MainStep

-----------------------------------------------------------------------------
(* Which executions a step moves, and from where to where. *)
ExecAction(e) == Trigger(e) \/ TargetStep(e) \/ ExecStep(e) \/ OnceStarts(e)
ExecQuiet == UNCHANGED <<epc, row, err, gap>>

LEMMA StepMovesOne ==
    ASSUME Next
    PROVE  \/ \E e \in Execs : ExecAction(e)
           \/ ExecQuiet
<1>1. ASSUME NEW w \in Workers, Deliver(w) \/ WorkerStep(w) PROVE ExecQuiet
  BY <1>1 DEF Deliver, WorkerStep, Take, SeesStop, Leaves, execVars, ExecQuiet
<1>2. ASSUME NEW e \in Execs, OnceReturns(e) PROVE ExecQuiet
  BY <1>2 DEF OnceReturns, execVars, ExecQuiet
<1>3. CASE Signal \/ Stop \/ JobsCompleted \/ ShutdownTimeout \/ OnceInterrupted
           \/ OnceCompletes \/ Exited
  BY <1>3 DEF Signal, Stop, JobsCompleted, ShutdownTimeout, OnceInterrupted, OnceCompletes,
              Exited, vars, execVars, ExecQuiet
<1>4. CASE MarkClosed \/ CloseStop \/ Drained \/ DrainTimeout \/ Exit
  BY <1>4 DEF MarkClosed, CloseStop, Drained, DrainTimeout, Exit, execVars, ExecQuiet
<1> QED
  BY <1>1, <1>2, <1>3, <1>4 DEF Next, MainStep, ExecAction

(* An execution goes forward and never leaves "done"; it starts when the   *)
(* one before it has ended.                                                *)
LEMMA ExecMoves ==
    ASSUME ExecTypeOK, NEW e \in Execs, ExecAction(e)
    PROVE  /\ \A d \in Execs \ {e} : /\ epc'[d] = epc[d] /\ row'[d] = row[d]
                                    /\ err'[d] = err[d] /\ gap'[d] = gap[d]
           /\ epc[e] # "done" /\ epc'[e] # "idle"
           /\ epc[e] = "idle" => /\ epc'[e] = "begin"
                                 /\ e[2] > 1 => epc[<<e[1], e[2] - 1>>] = "done"
                                 /\ row'[e] = row[e] /\ err'[e] = err[e] /\ gap'[e] = gap[e]
<1> USE DEF ExecTypeOK, Goto
<1>1. CASE Trigger(e)
  BY <1>1 DEF Trigger
<1>2. CASE OnceStarts(e)
  BY <1>2 DEF OnceStarts
<1>3. CASE JobBegins(e) \/ JobRefused(e) \/ JobUntracked(e)
  BY <1>3 DEF JobBegins, JobRefused, JobUntracked
<1>4. CASE TargetStep(e) \/ WorkCanceled(e) \/ LaunchFails(e) \/ Launch(e)
  BY <1>4 DEF TargetStep, SessionOpens, SessionFails, WorkEnds, WorkCanceled, LaunchFails, Launch
<1>5. CASE Recorded(e) \/ NotRecorded(e)
  BY <1>5 DEF Recorded, NotRecorded
<1>6. CASE EnqueueChecks(e) \/ EnqueueStarts(e) \/ EnqueueSends(e)
  BY <1>6 DEF EnqueueChecks, EnqueueStarts, EnqueueSends
<1> QED
  BY <1>1, <1>2, <1>3, <1>4, <1>5, <1>6 DEF ExecAction, ExecStep

LEMMA SerialStep == ExecTypeOK /\ SerialOK /\ Next => SerialOK'
<1> SUFFICES ASSUME ExecTypeOK, SerialOK, Next PROVE SerialOK'
  OBVIOUS
<1>1. CASE ExecQuiet
  BY <1>1 DEF ExecQuiet, SerialOK
<1>2. ASSUME NEW e \in Execs, ExecAction(e) PROVE SerialOK'
  <2> SUFFICES ASSUME NEW j \in Jobs, NEW k \in 1 .. MaxRuns, NEW l \in 1 .. MaxRuns,
                      k < l, epc'[<<j, l>>] # "idle"
               PROVE  epc'[<<j, k>>] = "done"
    BY DEF SerialOK
  <2>1. <<j, k>> \in Execs /\ <<j, l>> \in Execs
    BY ExecOf
  <2>2. \A d \in Execs : epc[d] = "done" => epc'[d] = "done"
    BY <1>2, ExecMoves
  <2>3. CASE epc[<<j, l>>] # "idle"
    BY <2>1, <2>2, <2>3 DEF SerialOK
  <2>4. CASE epc[<<j, l>>] = "idle"
    <3>1. e = <<j, l>>
      BY <1>2, <2>1, <2>4, ExecMoves
    <3>2. e[1] = j /\ e[2] = l /\ l > 1
      BY <3>1, SchedulerAssumption
    <3>3. epc[<<j, l - 1>>] = "done"
      BY <1>2, <2>4, <3>1, <3>2, ExecMoves
    <3>4. CASE k = l - 1
      BY <2>1, <2>2, <3>3, <3>4
    <3>5. CASE k # l - 1
      <4>1. l - 1 \in 1 .. MaxRuns /\ k < l - 1
        BY <3>2, <3>5, SchedulerAssumption
      <4>2. epc[<<j, k>>] = "done"
        BY <3>3, <4>1 DEF SerialOK
      <4> QED
        BY <2>1, <2>2, <4>2
    <3> QED
      BY <3>4, <3>5
  <2> QED
    BY <2>3, <2>4
<1> QED
  BY <1>1, <1>2, StepMovesOne

-----------------------------------------------------------------------------
(* Rows and errors *)

(* Whoever is canceled has been given up by shutdownTimeout. *)
LEMMA CanceledTimedOut ==
    ASSUME PhasesOK, NEW e \in Execs, Active(e), mode = "daemon", Canceled
    PROVE  timedOut
BY DEF PhasesOK, Canceled, NoJobRuns

LEMMA TimedOutStays == Next /\ timedOut = TRUE => timedOut' = TRUE
<1> SUFFICES ASSUME Next, timedOut = TRUE PROVE timedOut' = TRUE
  OBVIOUS
<1>1. ASSUME NEW e \in Execs, Trigger(e) \/ TargetStep(e) \/ ExecStep(e) PROVE timedOut' = TRUE
  BY <1>1 DEF Trigger, TargetStep, SessionOpens, SessionFails, WorkEnds, ExecStep,
              LaunchFails, Launch, JobBegins, JobRefused, JobUntracked, WorkCanceled,
              Recorded, NotRecorded, EnqueueChecks, EnqueueStarts, EnqueueSends, mainVars
<1>2. ASSUME NEW w \in Workers, Deliver(w) \/ WorkerStep(w) PROVE timedOut' = TRUE
  BY <1>2 DEF Deliver, WorkerStep, Take, SeesStop, Leaves, mainVars
<1>3. ASSUME NEW e \in Execs, OnceStarts(e) \/ OnceReturns(e) PROVE timedOut' = TRUE
  BY <1>3 DEF OnceStarts, OnceReturns
<1>4. CASE Signal \/ Stop \/ JobsCompleted \/ ShutdownTimeout \/ OnceInterrupted
           \/ OnceCompletes \/ Exited
  BY <1>4 DEF Signal, Stop, JobsCompleted, ShutdownTimeout, OnceInterrupted, OnceCompletes,
              Exited, vars, mainVars
<1>5. CASE MarkClosed \/ CloseStop \/ Drained \/ DrainTimeout \/ Exit
  BY <1>5 DEF MarkClosed, CloseStop, Drained, DrainTimeout, Exit
<1> QED
  BY <1>1, <1>2, <1>3, <1>4, <1>5 DEF Next, MainStep

LEMMA ModeStays == Next => mode' = mode
<1> SUFFICES ASSUME Next PROVE mode' = mode
  OBVIOUS
<1>1. ASSUME NEW e \in Execs, Trigger(e) \/ TargetStep(e) \/ ExecStep(e) PROVE mode' = mode
  BY <1>1 DEF Trigger, TargetStep, SessionOpens, SessionFails, WorkEnds, ExecStep,
              LaunchFails, Launch, JobBegins, JobRefused, JobUntracked, WorkCanceled,
              Recorded, NotRecorded, EnqueueChecks, EnqueueStarts, EnqueueSends, mainVars
<1>2. ASSUME NEW w \in Workers, Deliver(w) \/ WorkerStep(w) PROVE mode' = mode
  BY <1>2 DEF Deliver, WorkerStep, Take, SeesStop, Leaves, mainVars
<1>3. ASSUME NEW e \in Execs, OnceStarts(e) \/ OnceReturns(e) PROVE mode' = mode
  BY <1>3 DEF OnceStarts, OnceReturns
<1>4. CASE Signal \/ Stop \/ JobsCompleted \/ ShutdownTimeout \/ OnceInterrupted
           \/ OnceCompletes \/ Exited
  BY <1>4 DEF Signal, Stop, JobsCompleted, ShutdownTimeout, OnceInterrupted, OnceCompletes,
              Exited, vars, mainVars
<1>5. CASE MarkClosed \/ CloseStop \/ Drained \/ DrainTimeout \/ Exit
  BY <1>5 DEF MarkClosed, CloseStop, Drained, DrainTimeout, Exit
<1> QED
  BY <1>1, <1>2, <1>3, <1>4, <1>5 DEF Next, MainStep

(* The part of RowsOK that is about one execution. *)
RowOK(e) ==
    /\ row[e] = "running" => gap[e] \/ epc[e] \in {"dial", "connecting", "work", "final"}
    /\ epc[e] \in {"notify", "start", "send", "done"} /\ err[e] = "nil" =>
          row[e] = "success" /\ ~gap[e]
    /\ mode = "daemon" /\ err[e] = "canceled" => timedOut

LEMMA RowsStep == IInv /\ Next => RowsOK'
<1> SUFFICES ASSUME IInv, Next PROVE RowsOK'
  OBVIOUS
<1>1. ExecTypeOK /\ MainTypeOK /\ PhasesOK /\ \A e \in Execs : RowOK(e)
  BY DEF IInv, RowsOK, RowOK
<1>2. mode' = mode /\ (timedOut => timedOut')
  BY <1>1, ModeStays, TimedOutStays DEF MainTypeOK
<1>3. \A d \in Execs : /\ epc'[d] = epc[d] /\ row'[d] = row[d]
                       /\ err'[d] = err[d] /\ gap'[d] = gap[d]
                       => RowOK(d)'
  BY <1>1, <1>2 DEF RowOK
<1>4. CASE ExecQuiet
  <2>1. \A d \in Execs : RowOK(d)'
    BY <1>3, <1>4 DEF ExecQuiet
  <2> QED
    BY <2>1 DEF RowsOK, RowOK
<1>5. ASSUME NEW e \in Execs, ExecAction(e) PROVE RowsOK'
  <2>1. \A d \in Execs \ {e} : RowOK(d)'
    BY <1>1, <1>3, <1>5, ExecMoves
  <2>2. RowOK(e)'
    <3> USE DEF ExecTypeOK, Goto, Errors
    <3>1. CASE Trigger(e) \/ OnceStarts(e)
      BY <1>1, <1>2, <3>1 DEF Trigger, OnceStarts, RowOK
    <3>2. CASE JobBegins(e)
      BY <1>1, <1>2, <3>2 DEF JobBegins, RowOK
    <3>3. CASE JobRefused(e) \/ JobUntracked(e)
      BY <1>1, <1>2, <3>3 DEF JobRefused, JobUntracked, RowOK
    <3>4. CASE WorkEnds(e)
      <4>1. Active(e)
        BY <3>4 DEF WorkEnds, Active
      <4>2. mode = "daemon" /\ err'[e] = "canceled" => timedOut
        BY <1>1, <3>4, <4>1, CanceledTimedOut DEF WorkEnds
      <4> QED
        BY <1>1, <1>2, <3>4, <4>2 DEF WorkEnds, RowOK
    <3>9. CASE SessionOpens(e) \/ SessionFails(e) \/ Launch(e)
      BY <1>1, <1>2, <3>9 DEF SessionOpens, SessionFails, Launch, RowOK
    <3>10. CASE LaunchFails(e)
      <4>1. Active(e)
        BY <3>10 DEF LaunchFails, Active
      <4>2. mode = "daemon" /\ err'[e] = "canceled" => timedOut
        BY <1>1, <3>10, <4>1, CanceledTimedOut DEF LaunchFails
      <4> QED
        BY <1>1, <1>2, <3>10, <4>2 DEF LaunchFails, RowOK
    <3>5. CASE WorkCanceled(e)
      <4>1. Active(e) /\ Canceled
        BY <3>5 DEF WorkCanceled, Active
      <4>2. mode = "daemon" => timedOut
        BY <1>1, <4>1, CanceledTimedOut
      <4> QED
        BY <1>1, <1>2, <3>5, <4>2 DEF WorkCanceled, RowOK
    <3>6. CASE Recorded(e)
      BY <1>1, <1>2, <3>6 DEF Recorded, RowOK, RunStatus
    <3>7. CASE NotRecorded(e)
      BY <1>1, <1>2, <3>7 DEF NotRecorded, RowOK
    <3>8. CASE EnqueueChecks(e) \/ EnqueueStarts(e) \/ EnqueueSends(e)
      BY <1>1, <1>2, <3>8 DEF EnqueueChecks, EnqueueStarts, EnqueueSends, RowOK
    <3> QED
      BY <1>5, <3>1, <3>2, <3>3, <3>4, <3>5, <3>6, <3>7, <3>8, <3>9, <3>10
         DEF ExecAction, ExecStep, TargetStep
  <2> QED
    BY <2>1, <2>2 DEF RowsOK, RowOK
<1> QED
  BY <1>4, <1>5, StepMovesOne

-----------------------------------------------------------------------------
(* Shutdown *)

(* What the goroutine of an execution or of a worker leaves alone. *)
LEMMA OthersKeepMain ==
    /\ \A e \in Execs : Trigger(e) \/ TargetStep(e) \/ ExecStep(e) => UNCHANGED mainVars
    /\ \A w \in Workers : Deliver(w) \/ WorkerStep(w) => UNCHANGED mainVars
    /\ Exited => UNCHANGED mainVars
<1>1. ASSUME NEW e \in Execs, Trigger(e) \/ TargetStep(e) \/ ExecStep(e) PROVE UNCHANGED mainVars
  BY <1>1 DEF Trigger, TargetStep, SessionOpens, SessionFails, WorkEnds, ExecStep,
              LaunchFails, Launch, JobBegins, JobRefused, JobUntracked, WorkCanceled,
              Recorded, NotRecorded, EnqueueChecks, EnqueueStarts, EnqueueSends
<1>2. ASSUME NEW w \in Workers, Deliver(w) \/ WorkerStep(w) PROVE UNCHANGED mainVars
  BY <1>2 DEF Deliver, WorkerStep, Take, SeesStop, Leaves
<1>3. Exited => UNCHANGED mainVars
  BY DEF Exited, vars
<1> QED
  BY <1>1, <1>2, <1>3

LEMMA OthersKeepExecs ==
    /\ \A w \in Workers : Deliver(w) \/ WorkerStep(w) => UNCHANGED <<execVars, stop>>
    /\ Signal \/ Stop \/ JobsCompleted \/ ShutdownTimeout \/ OnceInterrupted \/ OnceCompletes
       \/ Drained \/ DrainTimeout \/ Exit \/ Exited => UNCHANGED <<execVars, notifyVars>>
    /\ MarkClosed \/ CloseStop => UNCHANGED execVars
    /\ \A e \in Execs : OnceReturns(e) => UNCHANGED <<execVars, notifyVars>>
    /\ \A e \in Execs : ExecAction(e) => UNCHANGED stop
<1>1. ASSUME NEW w \in Workers, Deliver(w) \/ WorkerStep(w) PROVE UNCHANGED <<execVars, stop>>
  BY <1>1 DEF Deliver, WorkerStep, Take, SeesStop, Leaves
<1>2. Signal \/ Stop \/ JobsCompleted \/ ShutdownTimeout \/ OnceInterrupted \/ OnceCompletes
      \/ Drained \/ DrainTimeout \/ Exit \/ Exited => UNCHANGED <<execVars, notifyVars>>
  BY DEF Signal, Stop, JobsCompleted, ShutdownTimeout, OnceInterrupted, OnceCompletes,
         Drained, DrainTimeout, Exit, Exited, vars
<1>3. MarkClosed \/ CloseStop => UNCHANGED execVars
  BY DEF MarkClosed, CloseStop
<1>4. ASSUME NEW e \in Execs, OnceReturns(e) PROVE UNCHANGED <<execVars, notifyVars>>
  BY <1>4 DEF OnceReturns
<1>5. ASSUME NEW e \in Execs, ExecAction(e) PROVE UNCHANGED stop
  BY <1>5 DEF ExecAction, Trigger, OnceStarts, TargetStep, SessionOpens, SessionFails, WorkEnds, ExecStep,
              LaunchFails, Launch, JobBegins, JobRefused,
              JobUntracked, WorkCanceled, Recorded, NotRecorded, EnqueueChecks, EnqueueStarts,
              EnqueueSends, notifyVars
<1> QED
  BY <1>1, <1>2, <1>3, <1>4, <1>5

LEMMA PhasesStep == ExecTypeOK /\ MainTypeOK /\ PhasesOK /\ OnceOK /\ Next => PhasesOK'
<1> SUFFICES ASSUME ExecTypeOK, MainTypeOK, PhasesOK, OnceOK, Next PROVE PhasesOK'
  OBVIOUS
<1>1. ASSUME NEW e \in Execs, TargetStep(e) \/ ExecStep(e) PROVE PhasesOK'
  <2>1. UNCHANGED <<mainVars, stop>>
    BY <1>1, OthersKeepMain, OthersKeepExecs DEF ExecAction
  <2>2. Active(e)
    BY <1>1 DEF TargetStep, SessionOpens, SessionFails, WorkEnds, ExecStep,
              LaunchFails, Launch, JobBegins, JobRefused, JobUntracked, WorkCanceled,
                Recorded, NotRecorded, EnqueueChecks, EnqueueStarts, EnqueueSends, Active
  <2>3. \A d \in Execs : Active(d)' => Active(d)
    BY <1>1, <2>2, ExecMoves DEF ExecAction, Active
  <2>4. NoJobRuns => NoJobRuns'
    BY <2>3 DEF NoJobRuns
  <2> QED
    BY <2>1, <2>3, <2>4 DEF PhasesOK, Closing, mainVars
<1>2. ASSUME NEW e \in Execs, Trigger(e) PROVE PhasesOK'
  <2>1. UNCHANGED <<mainVars, stop>> /\ main = "serving" /\ mode = "daemon"
    BY <1>2, OthersKeepMain, OthersKeepExecs DEF ExecAction, Trigger
  <2> QED
    BY <2>1 DEF PhasesOK, Closing, mainVars
<1>3. ASSUME NEW w \in Workers, Deliver(w) \/ WorkerStep(w) PROVE PhasesOK'
  BY <1>3, OthersKeepMain, OthersKeepExecs
  DEF PhasesOK, Closing, NoJobRuns, Active, mainVars, execVars
<1>4. ASSUME NEW e \in Execs, OnceStarts(e) PROVE PhasesOK'
  <2>1. /\ mode = "once" /\ mode' = mode /\ main = "serving" /\ main' = main
        /\ current = {} /\ current' = {e} /\ exit' = exit /\ timedOut' = timedOut
        /\ stop' = stop /\ canceled' = canceled
    BY <1>4 DEF OnceStarts, notifyVars
  <2>2. \A d \in Execs \ {e} : epc'[d] = epc[d]
    BY <1>4, ExecMoves DEF ExecAction
  <2>3. \A d \in Execs \ {e} : ~Active(d)
    BY <2>1 DEF PhasesOK
  <2> QED
    BY <2>1, <2>2, <2>3 DEF PhasesOK, Closing, Active
<1>5. ASSUME NEW e \in Execs, OnceReturns(e) PROVE PhasesOK'
  <2>1. /\ main = "serving" /\ e \in current /\ epc[e] = "done" /\ current' = {}
        /\ UNCHANGED <<mode, canceled, timedOut, stop, epc>>
        /\ main' \in {"serving", "closing"}
    BY <1>5 DEF OnceReturns, execVars, notifyVars
  <2>2. mode = "once" /\ ~timedOut /\ current = {e}
    BY <2>1 DEF PhasesOK, MainTypeOK
  <2>3. \A d \in Execs : ~Active(d)
    BY <2>1, <2>2 DEF PhasesOK, Active
  <2>4. NoJobRuns' /\ \A d \in Execs : ~Active(d)'
    BY <2>1, <2>3 DEF NoJobRuns, Active
  <2> QED
    BY <2>1, <2>2, <2>4 DEF PhasesOK, Closing
<1>6. CASE OnceInterrupted \/ OnceCompletes
  <2>1. /\ mode = "once" /\ main = "serving" /\ current = {} /\ main' = "closing"
        /\ UNCHANGED <<mode, canceled, timedOut, stop, epc, current>>
    BY <1>6 DEF OnceInterrupted, OnceCompletes, execVars, notifyVars
  <2>2. NoJobRuns' /\ \A d \in Execs : ~Active(d)'
    BY <2>1 DEF PhasesOK, NoJobRuns, Active
  <2> QED
    BY <2>1, <2>2 DEF PhasesOK, Closing
<1>7. CASE Signal \/ Stop \/ JobsCompleted \/ ShutdownTimeout
  <2>1. UNCHANGED <<execVars, notifyVars>>
    BY <1>7, OthersKeepExecs
  <2>2. UNCHANGED <<mode, current, exit>>
    BY <1>7 DEF Signal, Stop, JobsCompleted, ShutdownTimeout
  <2>3. (NoJobRuns' <=> NoJobRuns) /\ \A d \in Execs : Active(d)' <=> Active(d)
    BY <2>1 DEF NoJobRuns, Active, execVars
  <2>4. CASE Signal
    BY <2>1, <2>2, <2>3, <2>4 DEF Signal, PhasesOK, Closing, notifyVars
  <2>5. CASE Stop
    BY <2>1, <2>2, <2>3, <2>5 DEF Stop, PhasesOK, Closing, notifyVars
  <2>6. CASE JobsCompleted
    <3>1. mode = "daemon"
      BY <2>6 DEF JobsCompleted, PhasesOK, MainTypeOK
    <3> QED
      BY <2>1, <2>2, <2>3, <2>6, <3>1 DEF JobsCompleted, PhasesOK, Closing, notifyVars
  <2>7. CASE ShutdownTimeout
    <3>1. mode = "daemon"
      BY <2>7 DEF ShutdownTimeout, PhasesOK, MainTypeOK
    <3> QED
      BY <2>1, <2>2, <2>3, <2>7, <3>1 DEF ShutdownTimeout, PhasesOK, Closing, notifyVars
  <2> QED
    BY <1>7, <2>4, <2>5, <2>6, <2>7
<1>8. CASE MarkClosed \/ CloseStop \/ Drained \/ DrainTimeout \/ Exit
  <2>1. UNCHANGED execVars
    BY <1>8, OthersKeepExecs
  <2>2. (NoJobRuns' <=> NoJobRuns) /\ \A d \in Execs : Active(d)' <=> Active(d)
    BY <2>1 DEF NoJobRuns, Active, execVars
  <2> QED
    BY <1>8, <2>2 DEF MarkClosed, CloseStop, Drained, DrainTimeout, Exit, PhasesOK, Closing,
                      notifyVars
<1>9. CASE Exited
  BY <1>9 DEF Exited, vars, mainVars, execVars, notifyVars, PhasesOK, Closing, NoJobRuns, Active
<1> QED
  BY <1>1, <1>2, <1>3, <1>4, <1>5, <1>6, <1>7, <1>8, <1>9 DEF Next, MainStep

LEMMA OnceStep == ExecTypeOK /\ MainTypeOK /\ PhasesOK /\ OnceOK /\ Next => OnceOK'
<1> SUFFICES ASSUME ExecTypeOK, MainTypeOK, PhasesOK, OnceOK, Next PROVE OnceOK'
  OBVIOUS
<1>1. ASSUME NEW e \in Execs, Trigger(e) \/ TargetStep(e) \/ ExecStep(e) PROVE OnceOK'
  <2>1. UNCHANGED mainVars
    BY <1>1, OthersKeepMain
  <2>2. \A d \in Execs : epc[d] = "done" => epc'[d] = "done" /\ err'[d] = err[d]
    BY <1>1, ExecMoves DEF ExecAction
  <2>3. mode = "once" => e \in current
    BY <1>1 DEF TargetStep, SessionOpens, SessionFails, WorkEnds, ExecStep,
              LaunchFails, Launch, JobBegins, JobRefused, JobUntracked, WorkCanceled, Trigger,
                Recorded, NotRecorded, EnqueueChecks, EnqueueStarts, EnqueueSends, Active,
                PhasesOK
  <2>4. \A d \in Execs \ {e} : epc'[d] = epc[d] /\ err'[d] = err[d]
    BY <1>1, ExecMoves DEF ExecAction
  <2>5. (mode = "once" /\ firstErr = "nil" =>
          \A d \in Execs : epc[d] = "done" /\ d \notin current => err[d] = "nil")'
    BY <2>1, <2>3, <2>4 DEF OnceOK, mainVars
  <2>6. (exit = 0 => \A j \in Jobs : epc[<<j, 1>>] = "done" /\ err[<<j, 1>>] = "nil")'
    BY <2>1, <2>2, FirstOf DEF OnceOK, mainVars
  <2> QED
    BY <2>1, <2>5, <2>6 DEF OnceOK, mainVars
<1>2. ASSUME NEW w \in Workers, Deliver(w) \/ WorkerStep(w) PROVE OnceOK'
  BY <1>2, OthersKeepMain, OthersKeepExecs DEF OnceOK, mainVars, execVars
<1>3. ASSUME NEW e \in Execs, OnceStarts(e) PROVE OnceOK'
  <2>1. /\ main = "serving" /\ current = {} /\ current' = {e}
        /\ UNCHANGED <<mode, firstErr, exit, main>>
    BY <1>3 DEF OnceStarts
  <2>2. \A d \in Execs \ {e} : epc'[d] = epc[d] /\ err'[d] = err[d]
    BY <1>3, ExecMoves DEF ExecAction
  <2>3. exit = -1
    BY <2>1 DEF OnceOK
  <2> QED
    BY <2>1, <2>2, <2>3 DEF OnceOK
<1>4. ASSUME NEW e \in Execs, OnceReturns(e) PROVE OnceOK'
  <2>1. /\ main = "serving" /\ current' = {}
        /\ UNCHANGED <<mode, epc, err>>
        /\ e \in current
        /\ firstErr' = IF firstErr = "nil" THEN err[e] ELSE firstErr
        /\ exit' # exit => exit' = 1 /\ main' = "closing"
        /\ main' # main => exit' # exit \/ main' = "closing"
    BY <1>4 DEF OnceReturns, execVars, ExitCodeOf
  <2>2. exit = -1 /\ current = {e}
    BY <2>1 DEF OnceOK, MainTypeOK
  <2> QED
    BY <2>1, <2>2 DEF OnceOK
<1>5. CASE OnceInterrupted
  BY <1>5 DEF OnceInterrupted, OnceOK, ExitCodeOf, execVars
<1>6. CASE OnceCompletes
  <2>1. /\ mode = "once" /\ current = {} /\ main' = "closing"
        /\ \A j \in Jobs : epc[<<j, 1>>] = "done"
        /\ exit' = ExitCodeOf(firstErr)
        /\ UNCHANGED <<mode, current, firstErr, epc, err>>
    BY <1>6 DEF OnceCompletes, execVars
  <2>2. exit' = 0 => firstErr = "nil"
    BY <2>1 DEF ExitCodeOf
  <2>3. exit' = 0 => \A j \in Jobs : err[<<j, 1>>] = "nil"
    BY <2>1, <2>2, FirstOf DEF OnceOK
  <2> QED
    BY <2>1, <2>3 DEF OnceOK
<1>7. CASE Signal \/ Stop \/ JobsCompleted \/ ShutdownTimeout
  BY <1>7 DEF Signal, Stop, JobsCompleted, ShutdownTimeout, execVars, OnceOK
<1>8. CASE MarkClosed \/ CloseStop \/ Drained \/ DrainTimeout \/ Exit
  BY <1>8 DEF MarkClosed, CloseStop, Drained, DrainTimeout, Exit, execVars, OnceOK
<1>9. CASE Exited
  BY <1>9 DEF Exited, vars, mainVars, execVars, OnceOK
<1> QED
  BY <1>1, <1>2, <1>3, <1>4, <1>5, <1>6, <1>7, <1>8, <1>9 DEF Next, MainStep

-----------------------------------------------------------------------------
(* The dispatcher *)

LEMMA WorkersStep == IInv /\ Next => WorkersOK'
<1> SUFFICES ASSUME IInv, Next PROVE WorkersOK'
  OBVIOUS
<1> USE DEF WorkersOK
<1>0. ExecTypeOK /\ MainTypeOK /\ NotifyTypeOK /\ PhasesOK /\ WorkersOK
  BY DEF IInv
<1>1. CASE UNCHANGED <<queue, worker, holding>> /\ (stop => stop')
           /\ (\A e \in Execs : epc'[e] = "send" => epc[e] = "send")
           /\ (timedOut => timedOut')
           /\ (main' \in {"returned", "exited"} /\ ~timedOut' /\ ~undrained' =>
                 \/ \A w \in Workers : worker[w] \in {"off", "gone"}
                 \/ main \in {"returned", "exited"} /\ ~undrained)
  BY <1>0, <1>1
(* A worker that has left, or a wait that ended in time, has left no       *)
(* execution behind.                                                       *)
<1>2. ASSUME NEW e \in Execs, Active(e), ~timedOut
      PROVE  ~stop /\ ~Closing /\ \A w \in Workers : worker[w] # "gone"
  BY <1>0, <1>2 DEF PhasesOK, NoJobRuns, Closing
<1>3. ASSUME NEW e \in Execs, ExecAction(e) PROVE WorkersOK'
  <2>1. \A d \in Execs \ {e} : epc'[d] = epc[d]
    BY <1>0, <1>3, ExecMoves
  <2>2. UNCHANGED <<stop, timedOut, undrained, main, holding>>
    BY <1>3, OthersKeepExecs
    DEF ExecAction, Trigger, OnceStarts, TargetStep, SessionOpens, SessionFails, WorkEnds, ExecStep,
              LaunchFails, Launch, JobBegins, JobRefused,
        JobUntracked, WorkCanceled, Recorded, NotRecorded, EnqueueChecks, EnqueueStarts,
        EnqueueSends, notifyVars, mainVars
  <2>3. CASE EnqueueStarts(e)
    <3>1. epc[e] = "start" /\ Active(e)
      BY <2>3 DEF EnqueueStarts, Active
    <3>2. /\ worker' = [w \in Workers |-> IF worker[w] = "off" THEN "idle" ELSE worker[w]]
          /\ queue' = queue
      BY <2>3 DEF EnqueueStarts
    <3>3. \A w \in Workers : worker'[w] # "off" /\ (worker[w] # "off" => worker'[w] = worker[w])
                             /\ (worker[w] = "off" => worker'[w] = "idle")
      BY <3>2
    <3>4. main \in {"returned", "exited"} => timedOut
      BY <1>2, <3>1 DEF Closing
    <3> QED
      BY <1>0, <2>2, <3>2, <3>3, <3>4
  <2>4. CASE EnqueueSends(e)
    <3>1. epc[e] = "send" /\ Active(e) /\ worker' = worker
      BY <2>4 DEF EnqueueSends, Active
    <3>2. \A w \in Workers : worker[w] # "off"
      BY <1>0, <3>1
    <3>3. ~timedOut => \A w \in Workers : worker[w] # "gone"
      BY <1>2, <3>1
    <3>4. main \in {"returned", "exited"} => timedOut
      BY <1>2, <3>1 DEF Closing
    <3> QED
      BY <1>0, <2>2, <3>1, <3>2, <3>3, <3>4
  <2>5. CASE ~EnqueueStarts(e) /\ ~EnqueueSends(e)
    <3>1. epc'[e] # "send" /\ UNCHANGED <<queue, worker>>
      BY <1>0, <1>3, <2>5
      DEF ExecAction, Trigger, OnceStarts, TargetStep, SessionOpens, SessionFails, WorkEnds, ExecStep,
              LaunchFails, Launch, JobBegins, JobRefused,
          JobUntracked, WorkCanceled, Recorded, NotRecorded, EnqueueChecks, notifyVars,
          Goto, ExecTypeOK
    <3> QED
      BY <1>1, <2>1, <2>2, <3>1
  <2> QED
    BY <2>3, <2>4, <2>5
<1>4. ASSUME NEW w \in Workers, Deliver(w) \/ WorkerStep(w) PROVE WorkersOK'
  <2> USE DEF NotifyTypeOK
  <2>1. UNCHANGED <<epc, stop, timedOut, undrained, main>>
    BY <1>4, OthersKeepMain, OthersKeepExecs DEF execVars, mainVars
  <2>2. worker[w] \notin {"off", "gone"}
    BY <1>4 DEF Deliver, WorkerStep, Take, SeesStop, Leaves
  <2>3. \A v \in Workers : worker[v] # "off"
    BY <1>0, <2>2
  <2>4. \A v \in Workers \ {w} : worker'[v] = worker[v] /\ holding'[v] = holding[v]
    BY <1>0, <1>4 DEF Deliver, WorkerStep, Take, SeesStop, Leaves
  <2>5. main \in {"returned", "exited"} => timedOut \/ undrained
    BY <1>0, <2>2
  <2>6. CASE Take(w)
    <3>1. queue # << >> /\ holding'[w] # {} /\ worker'[w] \in {"busy", "flushing"}
          /\ (worker'[w] = "flushing" => worker[w] = "stopping")
      BY <1>0, <2>6 DEF Take
    <3>2. ~timedOut => \A v \in Workers : worker[v] # "gone"
      BY <1>0, <3>1
    <3>3. \A v \in Workers : worker'[v] # "off" /\ (~timedOut => worker'[v] # "gone")
      BY <2>3, <2>4, <3>1, <3>2
    <3> QED
      BY <1>0, <2>1, <2>4, <2>5, <3>1, <3>3
  <2>7. CASE Deliver(w)
    <3>1. /\ holding'[w] = {} /\ worker'[w] \in {"idle", "stopping"} /\ queue' = queue
          /\ worker'[w] = "stopping" => worker[w] = "flushing"
      BY <1>0, <2>7 DEF Deliver
    <3>2. \A v \in Workers : worker'[v] # "off" /\ (worker'[v] = "gone" => worker[v] = "gone")
      BY <2>3, <2>4, <3>1
    <3> QED
      BY <1>0, <2>1, <2>4, <2>5, <3>1, <3>2
  <2>8. CASE SeesStop(w)
    <3>1. holding' = holding /\ worker[w] = "idle" /\ worker'[w] = "stopping" /\ queue' = queue
          /\ stop
      BY <1>0, <2>8 DEF SeesStop
    <3> QED
      BY <1>0, <2>1, <2>3, <2>4, <2>5, <3>1
  <2>9. CASE Leaves(w)
    <3>1. holding' = holding /\ worker[w] = "stopping" /\ worker'[w] = "gone"
          /\ queue' = queue /\ queue = << >>
      BY <1>0, <2>9 DEF Leaves
    <3> QED
      BY <1>0, <2>1, <2>3, <2>4, <2>5, <3>1
  <2> QED
    BY <1>4, <2>6, <2>7, <2>8, <2>9 DEF WorkerStep
<1>5. ASSUME NEW e \in Execs, OnceReturns(e) PROVE WorkersOK'
  <2>1. UNCHANGED <<execVars, notifyVars>>
    BY <1>5, OthersKeepExecs
  <2>2. main' \in {"serving", "closing"} /\ timedOut' = timedOut
    BY <1>5 DEF OnceReturns
  <2> QED
    BY <1>1, <2>1, <2>2 DEF execVars, notifyVars
<1>6. CASE Signal \/ Stop \/ JobsCompleted \/ ShutdownTimeout \/ OnceInterrupted
           \/ OnceCompletes
  <2>1. UNCHANGED <<execVars, notifyVars>>
    BY <1>6, OthersKeepExecs
  <2>2. main' \notin {"returned", "exited"} /\ (timedOut => timedOut')
    BY <1>6 DEF Signal, Stop, JobsCompleted, ShutdownTimeout, OnceInterrupted, OnceCompletes
  <2> QED
    BY <1>1, <2>1, <2>2 DEF execVars, notifyVars
<1>7. CASE MarkClosed \/ CloseStop
  <2>1. UNCHANGED <<queue, worker, holding, epc, timedOut>> /\ (stop => stop')
        /\ main' \notin {"returned", "exited"}
    BY <1>7 DEF MarkClosed, CloseStop, execVars
  <2> QED
    BY <1>1, <2>1
<1>8. CASE Drained \/ DrainTimeout \/ Exit \/ Exited
  <2>1. UNCHANGED <<execVars, notifyVars>>
    BY <1>8, OthersKeepExecs
  <2>2. /\ timedOut' = timedOut
        /\ \/ \A w \in Workers : worker[w] \in {"off", "gone"}
           \/ undrained'
           \/ main \in {"returned", "exited"} /\ undrained' = undrained
    BY <1>8 DEF Drained, DrainTimeout, Exit, Exited, Alive, vars, mainVars
  <2> QED
    BY <1>1, <2>1, <2>2 DEF execVars, notifyVars
<1> QED
  BY <1>3, <1>4, <1>5, <1>6, <1>7, <1>8 DEF Next, MainStep, ExecAction

-----------------------------------------------------------------------------
(* Events *)

(* What an action does to the places of the events other than e, and that  *)
(* it leaves at most one place to e.                                       *)
LEMMA PlacesQuiet ==
    ASSUME PlacesOK, UNCHANGED <<queue, holding, delivered, dropped>>,
           \A e \in Execs : epc'[e] = "done" <=> epc[e] = "done"
    PROVE  PlacesOK'
BY DEF PlacesOK, Queued, Held

LEMMA SendPlaces ==
    ASSUME ExecTypeOK, NotifyTypeOK, PlacesOK, NEW e \in Execs, EnqueueSends(e)
    PROVE  PlacesOK'
<1>1. /\ epc[e] = "send" /\ epc'[e] = "done" /\ \A d \in Execs \ {e} : epc'[d] = epc[d]
      /\ UNCHANGED <<holding, delivered>>
  BY DEF EnqueueSends, Goto, ExecTypeOK
<1>2. ~Queued(e) /\ ~Held(e) /\ e \notin delivered /\ e \notin dropped
  BY <1>1 DEF PlacesOK
<1>3. \A d \in Execs : Held(d)' <=> Held(d)
  BY <1>1 DEF Held
<1>4. CASE Len(queue) < QueueSize
  <2>1. queue' = Append(queue, e) /\ dropped' = dropped
    BY <1>4 DEF EnqueueSends
  <2>2. /\ Len(queue') = Len(queue) + 1 /\ Len(queue) \in Nat
        /\ \A i \in 1 .. Len(queue) : queue'[i] = queue[i]
        /\ queue'[Len(queue) + 1] = e
    BY <2>1 DEF NotifyTypeOK
  <2>3. \A i \in 1 .. Len(queue') : i \in 1 .. Len(queue) \/ i = Len(queue) + 1
    BY <2>2
  <2>4. \A d \in Execs : Queued(d)' <=> Queued(d) \/ d = e
    <3>1. Queued(e)'
      BY <2>2 DEF Queued
    <3>2. ASSUME NEW d \in Execs, Queued(d) PROVE Queued(d)'
      BY <2>2, <3>2 DEF Queued
    <3>3. ASSUME NEW d \in Execs, Queued(d)', d # e PROVE Queued(d)
      BY <2>2, <2>3, <3>3 DEF Queued
    <3> QED
      BY <3>1, <3>2, <3>3
  <2>5. \A i, j \in 1 .. Len(queue') : queue'[i] = queue'[j] => i = j
    <3>1. \A i \in 1 .. Len(queue) : queue[i] # e
      BY <1>2 DEF Queued
    <3> QED
      BY <2>2, <2>3, <3>1 DEF PlacesOK
  <2> QED
    BY <1>1, <1>2, <1>3, <2>1, <2>4, <2>5 DEF PlacesOK
<1>5. CASE ~(Len(queue) < QueueSize)
  <2>1. queue' = queue /\ dropped' = dropped \cup {e}
    BY <1>5 DEF EnqueueSends
  <2>2. \A d \in Execs : Queued(d)' <=> Queued(d)
    BY <2>1 DEF Queued
  <2> QED
    BY <1>1, <1>2, <1>3, <2>1, <2>2 DEF PlacesOK
<1> QED
  BY <1>4, <1>5

LEMMA TakePlaces ==
    ASSUME NotifyTypeOK, PlacesOK, WorkersOK, NEW w \in Workers, Take(w)
    PROVE  PlacesOK'
<1>1. /\ worker[w] \in {"idle", "stopping"} /\ queue # << >>
      /\ holding'[w] = {Head(queue)} /\ \A v \in Workers \ {w} : holding'[v] = holding[v]
      /\ queue' = Tail(queue)
      /\ UNCHANGED <<epc, delivered, dropped>>
  BY DEF Take, NotifyTypeOK, execVars
<1>2. holding[w] = {}
  BY <1>1 DEF WorkersOK
<1> DEFINE h == queue[1]
<1>3. /\ Len(queue) \in Nat \ {0} /\ Head(queue) = h /\ h \in Execs
      /\ Len(queue') = Len(queue) - 1
      /\ \A i \in 1 .. Len(queue') : queue'[i] = queue[i + 1] /\ i + 1 \in 1 .. Len(queue)
  BY <1>1 DEF NotifyTypeOK
<1>4. Queued(h) /\ ~Held(h) /\ h \notin delivered /\ h \notin dropped
  <2>1. Queued(h)
    BY <1>3 DEF Queued
  <2> QED
    BY <1>3, <2>1 DEF PlacesOK
<1>5. \A i \in 2 .. Len(queue) : queue[i] # h
  BY <1>3 DEF PlacesOK
<1>6. \A d \in Execs : Queued(d)' <=> Queued(d) /\ d # h
  <2>1. ASSUME NEW d \in Execs, Queued(d)' PROVE Queued(d) /\ d # h
    <3>1. PICK i \in 1 .. Len(queue') : queue'[i] = d
      BY <2>1 DEF Queued
    <3>2. queue[i + 1] = d /\ i + 1 \in 2 .. Len(queue)
      BY <1>3, <3>1
    <3> QED
      BY <1>5, <3>2 DEF Queued
  <2>2. ASSUME NEW d \in Execs, Queued(d), d # h PROVE Queued(d)'
    <3>1. PICK i \in 1 .. Len(queue) : queue[i] = d
      BY <2>2 DEF Queued
    <3>2. i # 1
      BY <2>2, <3>1
    <3>3. i - 1 \in 1 .. Len(queue') /\ (i - 1) + 1 = i
      BY <1>3, <3>2
    <3>4. queue'[i - 1] = d
      BY <1>3, <3>1, <3>3
    <3> QED
      BY <3>3, <3>4 DEF Queued
  <2> QED
    BY <2>1, <2>2
<1>7. \A d \in Execs : Held(d)' <=> Held(d) \/ d = h
  BY <1>1, <1>2, <1>3 DEF Held
<1>8. \A i, j \in 1 .. Len(queue') : queue'[i] = queue'[j] => i = j
  BY <1>3 DEF PlacesOK
<1>9. \A u, v \in Workers : holding'[u] \cap holding'[v] # {} => u = v
  BY <1>1, <1>3, <1>4 DEF PlacesOK, Held
<1> QED
  BY <1>1, <1>4, <1>6, <1>7, <1>8, <1>9 DEF PlacesOK

LEMMA DeliverPlaces ==
    ASSUME NotifyTypeOK, PlacesOK, WorkersOK, NEW w \in Workers, Deliver(w)
    PROVE  PlacesOK'
<1>1. /\ holding'[w] = {} /\ \A v \in Workers \ {w} : holding'[v] = holding[v]
      /\ delivered' = delivered \cup holding[w]
      /\ UNCHANGED <<epc, queue, dropped>>
  BY DEF Deliver, NotifyTypeOK, execVars
<1>2. PICK e \in Execs : holding[w] = {e}
  BY DEF Deliver, WorkersOK, NotifyTypeOK
<1>3. Held(e) /\ \A v \in Workers \ {w} : e \notin holding[v]
  BY <1>2 DEF Held, PlacesOK
<1>4. \A d \in Execs : Held(d)' <=> Held(d) /\ d # e
  BY <1>1, <1>2, <1>3 DEF Held
<1>5. \A d \in Execs : Queued(d)' <=> Queued(d)
  BY <1>1 DEF Queued
<1>6. \A u, v \in Workers : holding'[u] \cap holding'[v] # {} => u = v
  BY <1>1 DEF PlacesOK
<1> QED
  BY <1>1, <1>2, <1>3, <1>4, <1>5, <1>6 DEF PlacesOK

LEMMA PlacesStep == IInv /\ Next => PlacesOK'
<1> SUFFICES ASSUME IInv, Next PROVE PlacesOK'
  OBVIOUS
<1>1. ExecTypeOK /\ NotifyTypeOK /\ PlacesOK /\ WorkersOK
  BY DEF IInv
<1>2. ASSUME NEW e \in Execs, EnqueueSends(e) PROVE PlacesOK'
  BY <1>1, <1>2, SendPlaces
<1>3. ASSUME NEW e \in Execs, EnqueueChecks(e) PROVE PlacesOK'
  <2>1. \A d \in Execs \ {e} : epc'[d] = epc[d]
    BY <1>1, <1>3 DEF EnqueueChecks, Goto, ExecTypeOK
  <2>2. epc[e] = "notify" /\ UNCHANGED <<queue, holding, delivered>>
    BY <1>3 DEF EnqueueChecks
  <2>3. \A d \in Execs : (Queued(d)' <=> Queued(d)) /\ (Held(d)' <=> Held(d))
    BY <2>2 DEF Queued, Held
  <2>4. CASE closed
    <3>1. dropped' = dropped \cup {e} /\ epc'[e] = "done"
      BY <1>1, <1>3, <2>4 DEF EnqueueChecks, Goto, ExecTypeOK
    <3>2. ~Queued(e) /\ ~Held(e) /\ e \notin delivered /\ e \notin dropped
      BY <1>1, <2>2 DEF PlacesOK
    <3> QED
      BY <1>1, <2>1, <2>2, <2>3, <3>1, <3>2 DEF PlacesOK
  <2>5. CASE ~closed
    <3>1. dropped' = dropped /\ epc'[e] = "start"
      BY <1>1, <1>3, <2>5 DEF EnqueueChecks, Goto, ExecTypeOK
    <3> QED
      BY <1>1, <2>1, <2>2, <3>1, PlacesQuiet
  <2> QED
    BY <2>4, <2>5
<1>4. ASSUME NEW e \in Execs, ExecAction(e), ~EnqueueSends(e), ~EnqueueChecks(e)
      PROVE  PlacesOK'
  <2>1. \A d \in Execs : epc'[d] = "done" <=> epc[d] = "done"
    BY <1>1, <1>4
    DEF ExecAction, Trigger, OnceStarts, TargetStep, SessionOpens, SessionFails, WorkEnds, ExecStep,
              LaunchFails, Launch, JobBegins, JobRefused,
        JobUntracked, WorkCanceled, Recorded, NotRecorded, EnqueueStarts, Goto, ExecTypeOK
  <2>2. UNCHANGED <<queue, holding, delivered, dropped>>
    BY <1>4
    DEF ExecAction, Trigger, OnceStarts, TargetStep, SessionOpens, SessionFails, WorkEnds, ExecStep,
              LaunchFails, Launch, JobBegins, JobRefused,
        JobUntracked, WorkCanceled, Recorded, NotRecorded, EnqueueStarts, notifyVars
  <2> QED
    BY <1>1, <2>1, <2>2, PlacesQuiet
<1>5. ASSUME NEW w \in Workers, Take(w) PROVE PlacesOK'
  BY <1>1, <1>5, TakePlaces
<1>6. ASSUME NEW w \in Workers, Deliver(w) PROVE PlacesOK'
  BY <1>1, <1>6, DeliverPlaces
<1>7. ASSUME NEW w \in Workers, SeesStop(w) \/ Leaves(w) PROVE PlacesOK'
  <2>1. UNCHANGED <<epc, queue, holding, delivered, dropped>>
    BY <1>7 DEF SeesStop, Leaves, execVars
  <2> QED
    BY <1>1, <2>1, PlacesQuiet
<1>8. ASSUME NEW e \in Execs, OnceReturns(e) PROVE PlacesOK'
  <2>1. UNCHANGED <<epc, queue, holding, delivered, dropped>>
    BY <1>8, OthersKeepExecs DEF execVars, notifyVars
  <2> QED
    BY <1>1, <2>1, PlacesQuiet
<1>9. CASE Signal \/ Stop \/ JobsCompleted \/ ShutdownTimeout \/ OnceInterrupted
           \/ OnceCompletes \/ Drained \/ DrainTimeout \/ Exit \/ Exited
  <2>1. UNCHANGED <<epc, queue, holding, delivered, dropped>>
    BY <1>9, OthersKeepExecs DEF execVars, notifyVars
  <2> QED
    BY <1>1, <2>1, PlacesQuiet
<1>10. CASE MarkClosed \/ CloseStop
  <2>1. UNCHANGED <<epc, queue, holding, delivered, dropped>>
    BY <1>10 DEF MarkClosed, CloseStop, execVars
  <2> QED
    BY <1>1, <2>1, PlacesQuiet
<1> QED
  BY <1>2, <1>3, <1>4, <1>5, <1>6, <1>7, <1>8, <1>9, <1>10
  DEF Next, MainStep, WorkerStep, ExecStep, ExecAction

LEMMA Invariance == Spec => []IInv
<1>1. Init => IInv
  BY InitInv
<1>2. IInv /\ [Next]_vars => IInv'
  <2> SUFFICES ASSUME IInv, [Next]_vars PROVE IInv'
    OBVIOUS
  <2>1. CASE Next
    <3>1. ExecTypeOK' /\ MainTypeOK' /\ NotifyTypeOK'
      BY <2>1, ExecTypeStep, MainTypeStep, NotifyTypeStep DEF IInv
    <3>2. PhasesOK' /\ OnceOK' /\ SerialOK'
      BY <2>1, PhasesStep, OnceStep, SerialStep DEF IInv
    <3>3. PlacesOK' /\ WorkersOK' /\ RowsOK'
      BY <2>1, PlacesStep, WorkersStep, RowsStep
    <3> QED
      BY <3>1, <3>2, <3>3 DEF IInv
  <2>2. CASE UNCHANGED vars
    BY <2>2 DEF vars, mainVars, execVars, notifyVars, IInv, ExecTypeOK, MainTypeOK, NotifyTypeOK,
                PlacesOK, Queued, Held, PhasesOK, Closing, NoJobRuns, Active, WorkersOK, RowsOK,
                SerialOK, OnceOK
  <2> QED
    BY <2>1, <2>2
<1> QED
  BY <1>1, <1>2, PTL DEF Spec

-----------------------------------------------------------------------------
(* Theorems *)

(* Type correctness of the daemon, its executions and its dispatcher.      *)
THEOREM TypeCorrect == Spec => []SchedulerTypeOK
<1>1. IInv => SchedulerTypeOK
  BY DEF IInv, ExecTypeOK, MainTypeOK, NotifyTypeOK, SchedulerTypeOK, None
<1> QED
  BY <1>1, Invariance, PTL

(* What a set holds of a single event counts one or nothing.               *)
LEMMA CountOne ==
    ASSUME NEW D, NEW x
    PROVE  Cardinality({x} \cap D) = IF x \in D THEN 1 ELSE 0
<1>1. CASE x \in D
  <2>1. {x} \cap D = {x}
    BY <1>1
  <2> QED
    BY <1>1, <2>1, FS_Singleton
<1>2. CASE x \notin D
  <2>1. {x} \cap D = {}
    BY <1>2
  <2> QED
    BY <1>2, <2>1, FS_EmptySet
<1> QED
  BY <1>1, <1>2

(* enqueueNotification and notifyWorker: the notification of an execution  *)
(* that has ended is in exactly one place, in every order of enqueue, take *)
(* and shutdown, for any number of workers and any size of the queue.      *)
THEOREM Conservation == Spec => []EventsConserved
<1>1. ASSUME IInv PROVE EventsConserved
  <2> SUFFICES ASSUME NEW e \in Execs
               PROVE  Cardinality({i \in DOMAIN queue : queue[i] = e})
                        + Cardinality({w \in Workers : e \in holding[w]})
                        + Cardinality({e} \cap delivered) + Cardinality({e} \cap dropped)
                      = IF epc[e] = "done" THEN 1 ELSE 0
    BY DEF EventsConserved
  <2>1. PlacesOK /\ DOMAIN queue = 1 .. Len(queue)
    BY <1>1 DEF IInv, NotifyTypeOK
  <2>2. Cardinality({i \in DOMAIN queue : queue[i] = e}) = IF Queued(e) THEN 1 ELSE 0
    <3>1. CASE Queued(e)
      <4>1. PICK i \in 1 .. Len(queue) : queue[i] = e
        BY <3>1 DEF Queued
      <4>2. {k \in DOMAIN queue : queue[k] = e} = {i}
        BY <2>1, <4>1 DEF PlacesOK
      <4> QED
        BY <3>1, <4>2, FS_Singleton
    <3>2. CASE ~Queued(e)
      <4>1. {k \in DOMAIN queue : queue[k] = e} = {}
        BY <2>1, <3>2 DEF Queued
      <4> QED
        BY <3>2, <4>1, FS_EmptySet
    <3> QED
      BY <3>1, <3>2
  <2>3. Cardinality({w \in Workers : e \in holding[w]}) = IF Held(e) THEN 1 ELSE 0
    <3>1. CASE Held(e)
      <4>1. PICK w \in Workers : e \in holding[w]
        BY <3>1 DEF Held
      <4>2. {v \in Workers : e \in holding[v]} = {w}
        BY <2>1, <4>1 DEF PlacesOK
      <4> QED
        BY <3>1, <4>2, FS_Singleton
    <3>2. CASE ~Held(e)
      <4>1. {v \in Workers : e \in holding[v]} = {}
        BY <3>2 DEF Held
      <4> QED
        BY <3>2, <4>1, FS_EmptySet
    <3> QED
      BY <3>1, <3>2
  <2>4. Cardinality({e} \cap delivered) = IF e \in delivered THEN 1 ELSE 0
    BY CountOne
  <2>5. Cardinality({e} \cap dropped) = IF e \in dropped THEN 1 ELSE 0
    BY CountOne
  <2> HIDE DEF Queued, Held
  <2>6. CASE Queued(e)
    <3>1. ~Held(e) /\ e \notin delivered /\ e \notin dropped /\ epc[e] = "done"
      BY <2>1, <2>6 DEF PlacesOK
    <3> QED
      BY <2>2, <2>3, <2>4, <2>5, <2>6, <3>1
  <2>7. CASE ~Queued(e) /\ Held(e)
    <3>1. e \notin delivered /\ e \notin dropped /\ epc[e] = "done"
      BY <2>1, <2>7 DEF PlacesOK
    <3> QED
      BY <2>2, <2>3, <2>4, <2>5, <2>7, <3>1
  <2>8. CASE ~Queued(e) /\ ~Held(e)
    <3>1. /\ ~(e \in delivered /\ e \in dropped)
          /\ epc[e] = "done" <=> e \in delivered \/ e \in dropped
      BY <2>1, <2>8 DEF PlacesOK
    <3> QED
      BY <2>2, <2>3, <2>4, <2>5, <2>8, <3>1
  <2> QED
    BY <2>6, <2>7, <2>8
<1> QED
  BY <1>1, Invariance, PTL

(* Run, RunOnce, shutdownDispatcher: whatever the end of the process leaves *)
(* behind undelivered, open, aborted or failed shows in what it reported.  *)
THEOREM HonestEnd == Spec => []ShutdownHonest
<1>1. ASSUME IInv PROVE NoSilentLoss
  <2> SUFFICES ASSUME ~Alive, ~timedOut, ~undrained PROVE
         /\ {e \in Execs : epc[e] = "done"} \subseteq delivered \cup dropped
         /\ \A w \in Workers : worker[w] \in {"off", "gone"}
    BY DEF NoSilentLoss
  <2>1. PlacesOK /\ WorkersOK /\ \A w \in Workers : worker[w] \in {"off", "gone"}
    BY <1>1 DEF IInv, Alive, WorkersOK
  <2>2. queue = << >>
    BY <2>1, SchedulerAssumption DEF WorkersOK
  <2>3. \A e \in Execs : ~Queued(e)
    BY <2>2 DEF Queued
  <2>4. \A e \in Execs : ~Held(e)
    BY <2>1 DEF Held, WorkersOK
  <2> QED
    BY <2>1, <2>3, <2>4 DEF PlacesOK
<1>2. ASSUME IInv PROVE LedgerClosed
  <2> SUFFICES ASSUME ~Alive, ~timedOut, NEW e \in Execs, row[e] = "running" PROVE gap[e]
    BY DEF LedgerClosed
  <2>1. ExecTypeOK /\ PhasesOK /\ RowsOK
    BY <1>2 DEF IInv
  <2>2. ~Active(e)
    BY <2>1 DEF PhasesOK, Closing, Alive, NoJobRuns
  <2>3. epc[e] \notin {"dial", "connecting", "work", "final"}
    BY <2>2 DEF Active
  <2> QED
    BY <2>1, <2>3 DEF RowsOK, ExecTypeOK
<1>3. IInv => GracefulNotAborted
  BY DEF IInv, RowsOK, GracefulNotAborted
<1>4. IInv => OnceExitTruthful
  BY FirstOf DEF IInv, RowsOK, OnceOK, OnceExitTruthful
<1> QED
  BY <1>1, <1>2, <1>3, <1>4, Invariance, PTL DEF ShutdownHonest

(* SkipIfStillRunning and the runner's last write: no number of triggers   *)
(* leaves two rows of a job open, unless a run told of its gap.            *)
THEOREM OneRow == Spec => []OneOpenRow
<1>1. ASSUME IInv PROVE OneOpenRow
  <2> SUFFICES ASSUME NEW d \in Execs, NEW e \in Execs, d[1] = e[1], d # e,
                      row[d] = "running", row[e] = "running", ~gap[d], ~gap[e]
               PROVE  FALSE
    BY DEF OneOpenRow
  <2>1. epc[d] \in {"dial", "connecting", "work", "final"} /\ epc[e] \in {"dial", "connecting", "work", "final"}
    BY <1>1 DEF IInv, RowsOK
  <2>2. PICK j \in Jobs, k \in 1 .. MaxRuns, l \in 1 .. MaxRuns :
           d = <<j, k>> /\ e = <<j, l>> /\ k # l
    BY ExecPairs
  <2>3. CASE k < l
    <3>1. epc[<<j, k>>] = "done"
      BY <1>1, <2>1, <2>2, <2>3 DEF IInv, SerialOK
    <3> QED
      BY <2>1, <2>2, <3>1
  <2>4. CASE l < k
    <3>1. epc[<<j, l>>] = "done"
      BY <1>1, <2>1, <2>2, <2>4 DEF IInv, SerialOK
    <3> QED
      BY <2>1, <2>2, <3>1
  <2> QED
    BY <2>2, <2>3, <2>4, SchedulerAssumption
<1> QED
  BY <1>1, Invariance, PTL

-----------------------------------------------------------------------------
(* Notifier *)

DispatchTypeOK ==
   /\ event \in Events
   /\ caller \in {"list", "unread", "wait", "done"}
   /\ send \in [Channels -> {"none", "check", "await", "backoff", "returned"}]
   /\ attempt \in [Channels -> Attempts]
   /\ request \in [Channels -> [Attempts -> {"unsent", "sent", "taken", "rejected", "failed"}]]
   /\ answer \in [Channels ->
                     [Attempts -> {"none", "unsent", "sent", "taken", "rejected", "failed"}]]
   /\ errors \subseteq Channels
   /\ ctx \in BOOLEAN

(* Who has a sender, and what it has done: nothing beyond its attempt, and *)
(* nothing more after an answer that settles the matter.                   *)
SenderOK(c) ==
   /\ send[c] = "none" => c \notin errors /\ \A k \in Attempts : request[c][k] = "unsent"
   /\ send[c] = "check" => request[c][attempt[c]] = "unsent"
   /\ send[c] = "returned" => Heard(c)
   /\ \A k \in Attempts : k > attempt[c] => request[c][k] = "unsent"
   /\ \A k \in Attempts : answer[c][k] \in {"taken", "rejected"} =>
         send[c] = "returned" /\ k = attempt[c]

(* Dispatch serves the channels that want the event and waits for them.    *)
DispatchOK ==
   /\ caller \in {"list", "unread"} => \A c \in Channels : send[c] = "none"
   /\ caller \in {"wait", "done"} => \A c \in Channels : send[c] = "none" <=> c \notin Matching
   /\ caller = "done" => \A c \in Matching : send[c] = "returned"

DispatchInv == DispatchTypeOK /\ DispatchOK /\ \A c \in Channels : SenderOK(c)

LEMMA AttemptsNat == 1 \in Attempts /\ \A k \in Attempts : k \in Nat
BY NotifierAssumption DEF Attempts

LEMMA InitDispatchInv == InitDispatch => DispatchInv
<1> SUFFICES ASSUME InitDispatch PROVE DispatchInv
  OBVIOUS
<1>1. DispatchTypeOK
  BY AttemptsNat DEF InitDispatch, DispatchTypeOK
<1>2. DispatchOK
  BY DEF InitDispatch, DispatchOK
<1>3. \A c \in Channels : SenderOK(c)
  BY DEF InitDispatch, SenderOK
<1> QED
  BY <1>1, <1>2, <1>3 DEF DispatchInv

(* A sender's step moves its own channel only, and never its existence.    *)
LEMMA SendFrame ==
    ASSUME DispatchInv, NEW c \in Channels, SendStep(c)
    PROVE  /\ send[c] \notin {"none", "returned"} /\ send'[c] # "none"
           /\ \A d \in Channels \ {c} :
                 /\ send'[d] = send[d] /\ attempt'[d] = attempt[d]
                 /\ request'[d] = request[d] /\ answer'[d] = answer[d]
                 /\ d \in errors' <=> d \in errors
           /\ UNCHANGED <<event, caller, ctx>>
<1> USE DEF DispatchInv, DispatchTypeOK, Returns
<1>1. CASE Check(c)
  BY <1>1 DEF Check
<1>2. CASE Answered(c)
  BY <1>2 DEF Answered
<1>3. CASE TransportFails(c)
  BY <1>3 DEF TransportFails
<1>4. CASE Backoff(c)
  BY <1>4 DEF Backoff
<1> QED
  BY <1>1, <1>2, <1>3, <1>4 DEF SendStep

LEMMA SendType ==
    ASSUME DispatchTypeOK, NEW c \in Channels, SendStep(c)
    PROVE  DispatchTypeOK'
<1> USE DEF DispatchTypeOK, Returns
<1>1. CASE Check(c)
  <2> DEFINE Requests == [Attempts -> {"unsent", "sent", "taken", "rejected", "failed"}]
  <2>1. attempt[c] \in Attempts /\ request[c] \in Requests
    OBVIOUS
  <2>2. [request[c] EXCEPT ![attempt[c]] = "sent"] \in Requests
    BY <2>1
  <2>3. request' = request
        \/ request' = [request EXCEPT ![c] = [request[c] EXCEPT ![attempt[c]] = "sent"]]
    BY <1>1 DEF Check
  <2>4. request' \in [Channels -> Requests]
    BY <2>2, <2>3
  <2> QED
    BY <1>1, <2>4 DEF Check
<1>2. CASE Answered(c)
  BY <1>2 DEF Answered
<1>3. CASE TransportFails(c)
  BY <1>3 DEF TransportFails
<1>4. CASE Backoff(c)
  <2>1. attempt[c] < MaxAttempts => attempt[c] + 1 \in Attempts
    BY NotifierAssumption DEF Attempts
  <2> QED
    BY <1>4, <2>1 DEF Backoff
<1> QED
  BY <1>1, <1>2, <1>3, <1>4 DEF SendStep

LEMMA SenderStep ==
    ASSUME DispatchInv, NEW c \in Channels, SendStep(c)
    PROVE  SenderOK(c)'
<1> USE DEF DispatchInv, DispatchTypeOK, Returns, SenderOK, Heard
<1>0. attempt[c] \in Attempts /\ \A k \in Attempts : k \in Nat
  BY AttemptsNat
<1>1. CASE Check(c)
  <2>1. CASE ctx
    BY <1>0, <1>1, <2>1 DEF Check
  <2>2. CASE ~ ctx
    <3>1. /\ send[c] = "check" /\ send'[c] = "await" /\ UNCHANGED <<attempt, answer, errors>>
          /\ request'[c][attempt[c]] = "sent"
          /\ \A k \in Attempts \ {attempt[c]} : request'[c][k] = request[c][k]
      BY <1>0, <1>1, <2>2 DEF Check
    <3> QED
      BY <1>0, <3>1
  <2> QED
    BY <2>1, <2>2
<1>2. CASE Answered(c)
  <2>1. /\ send[c] = "await" /\ UNCHANGED <<attempt, request>>
        /\ answer'[c][attempt[c]] = request[c][attempt[c]]
        /\ \A k \in Attempts \ {attempt[c]} : answer'[c][k] = answer[c][k]
    BY <1>0, <1>2 DEF Answered
  <2>2. \/ request[c][attempt[c]] = "taken" /\ send'[c] = "returned"
        \/ request[c][attempt[c]] = "rejected" /\ send'[c] = "returned" /\ c \in errors'
        \/ request[c][attempt[c]] = "failed" /\ send'[c] = "backoff"
    BY <1>2 DEF Answered
  <2> QED
    BY <1>0, <2>1, <2>2
<1>3. CASE TransportFails(c)
  BY <1>0, <1>3 DEF TransportFails
<1>4. CASE Backoff(c)
  <2>1. send[c] = "backoff" /\ UNCHANGED <<request, answer>>
    BY <1>4 DEF Backoff
  <2>2. CASE attempt'[c] = attempt[c] /\ send'[c] = "returned" /\ c \in errors'
    BY <1>0, <2>1, <2>2
  <2>3. CASE /\ attempt[c] < MaxAttempts /\ attempt'[c] = attempt[c] + 1
             /\ send'[c] = "check"
    <3>1. attempt[c] + 1 \in Attempts /\ attempt[c] + 1 > attempt[c]
      BY <1>0, <2>3, NotifierAssumption DEF Attempts
    <3> QED
      BY <1>0, <2>1, <2>3, <3>1
  <2> QED
    BY <1>4, <2>2, <2>3 DEF Backoff
<1> QED
  BY <1>1, <1>2, <1>3, <1>4 DEF SendStep

(* A late request changes nothing that a sender or a promise builds on: it *)
(* was sent, and being taken is only better.                               *)
LEMMA ReceiveStep ==
    ASSUME DispatchInv, NEW c \in Channels, NEW k \in Attempts, Receive(c, k)
    PROVE  DispatchInv'
<1> USE DEF DispatchInv, DispatchTypeOK
<1>1. /\ request[c][k] = "sent" /\ request'[c][k] \in {"taken", "rejected", "failed"}
      /\ \A m \in Attempts \ {k} : request'[c][m] = request[c][m]
      /\ \A d \in Channels \ {c} : request'[d] = request[d]
      /\ UNCHANGED <<event, caller, send, attempt, answer, errors, ctx>>
  BY DEF Receive
<1>2. DispatchTypeOK'
  BY DEF Receive
<1>3. DispatchOK'
  BY <1>1 DEF DispatchOK, Matching, ShouldNotify
<1>4. \A d \in Channels : Heard(d) => Heard(d)'
  BY <1>1 DEF Heard
<1>5. \A d \in Channels : SenderOK(d)'
  BY <1>1, <1>4 DEF SenderOK
<1> QED
  BY <1>2, <1>3, <1>5

LEMMA DispatchStep == DispatchInv /\ [NextDispatch]_dispatch => DispatchInv'
<1> SUFFICES ASSUME DispatchInv, [NextDispatch]_dispatch PROVE DispatchInv'
  OBVIOUS
<1>1. CASE UNCHANGED dispatch
  BY <1>1 DEF dispatch, DispatchInv, DispatchTypeOK, DispatchOK, Matching, ShouldNotify, SenderOK, Heard
<1>2. ASSUME NEW c \in Channels, SendStep(c) PROVE DispatchInv'
  <2>1. DispatchTypeOK'
    BY <1>2, SendType DEF DispatchInv
  <2>2. SenderOK(c)'
    BY <1>2, SenderStep
  <2>3. /\ send[c] \notin {"none", "returned"} /\ send'[c] # "none"
        /\ \A d \in Channels \ {c} :
              /\ send'[d] = send[d] /\ attempt'[d] = attempt[d]
              /\ request'[d] = request[d] /\ answer'[d] = answer[d]
              /\ d \in errors' <=> d \in errors
        /\ Matching' = Matching /\ caller' = caller
    BY <1>2, SendFrame DEF Matching, ShouldNotify
  <2>4. ASSUME NEW d \in Channels \ {c} PROVE SenderOK(d)'
    <3>1. SenderOK(d)
      BY DEF DispatchInv
    <3> QED
      BY <2>3, <3>1 DEF SenderOK, Heard
  <2>5. DispatchOK'
    <3>1. Matching \subseteq Channels
      BY DEF Matching
    <3>2. caller \notin {"list", "unread", "done"}
      BY <2>3 DEF DispatchInv, DispatchOK
    <3>3. caller = "wait" => \A d \in Channels : send'[d] = "none" <=> d \notin Matching
      BY <2>3 DEF DispatchInv, DispatchOK
    <3> QED
      BY <2>3, <3>2, <3>3 DEF DispatchInv, DispatchTypeOK, DispatchOK
  <2> QED
    BY <2>1, <2>2, <2>4, <2>5 DEF DispatchInv
<1>3. ASSUME NEW c \in Channels, NEW k \in Attempts, Receive(c, k) PROVE DispatchInv'
  BY <1>3, ReceiveStep
<1>4. CASE ListFails
  BY <1>4 DEF ListFails, DispatchInv, DispatchTypeOK, DispatchOK, SenderOK, Heard
<1>5. CASE Fork
  <2>1. /\ caller = "list" /\ caller' = "wait"
        /\ \A c \in Channels : send[c] = "none"
        /\ \A c \in Channels : send'[c] = IF c \in Matching THEN "check" ELSE "none"
        /\ UNCHANGED <<event, attempt, request, answer, errors, ctx>>
    BY <1>5 DEF Fork, DispatchInv, DispatchOK
  <2>2. DispatchTypeOK'
    BY <1>5 DEF Fork, DispatchInv, DispatchTypeOK
  <2>3. DispatchOK'
    BY <2>1 DEF DispatchOK, Matching, ShouldNotify
  <2>4. \A c \in Channels : SenderOK(c)'
    BY <2>1 DEF DispatchInv, DispatchTypeOK, SenderOK, Heard
  <2> QED
    BY <2>2, <2>3, <2>4 DEF DispatchInv
<1>6. CASE Join
  BY <1>6 DEF Join, DispatchInv, DispatchTypeOK, DispatchOK, Matching, ShouldNotify, SenderOK, Heard
<1>7. CASE Cancel
  BY <1>7 DEF Cancel, DispatchInv, DispatchTypeOK, DispatchOK, Matching, ShouldNotify, SenderOK, Heard
<1> QED
  BY <1>1, <1>2, <1>3, <1>4, <1>5, <1>6, <1>7 DEF NextDispatch, Done

LEMMA DispatchInvariance == DispatchSpec => []DispatchInv
BY InitDispatchInv, DispatchStep, PTL DEF DispatchSpec

(* Dispatch and Send: when Dispatch returns, every channel that wants the  *)
(* event has it or its error is returned, and no other was sent anything.  *)
THEOREM NobodyForgotten == DispatchSpec => []EveryoneHeard
<1>1. ASSUME DispatchInv PROVE EveryoneHeard
  <2> SUFFICES ASSUME caller = "done", NEW c \in Channels
               PROVE  IF Promised(c) THEN Heard(c) ELSE Silent(c)
    BY DEF EveryoneHeard
  <2>1. SenderOK(c) /\ event \in Events /\ Wants[c] \in {"always", "success", "failure"}
    BY <1>1, NotifierAssumption DEF DispatchInv, DispatchTypeOK
  <2>2. c \in Matching => Heard(c)
    BY <1>1, <2>1 DEF DispatchInv, DispatchOK, SenderOK
  <2>3. c \notin Matching => Silent(c)
    <3>1. c \notin Matching => send[c] = "none"
      BY <1>1 DEF DispatchInv, DispatchOK
    <3> QED
      BY <1>1, <2>1, <3>1 DEF DispatchInv, DispatchTypeOK, SenderOK, Silent
  <2>4. event = [status |-> "success", untracked |-> FALSE]
          <=> event.status = "success" /\ ~ event.untracked
    BY <2>1 DEF Events
  <2>5. c \in Matching <=> Promised(c)
    BY <2>1, <2>4 DEF Matching, ShouldNotify, Promised
  <2> QED
    BY <2>2, <2>3, <2>5
<1> QED
  BY <1>1, DispatchInvariance, PTL

(* Send: no request follows an answer that settles the matter.             *)
THEOREM SettledOnce == DispatchSpec => []NoNeedlessCopy
<1>1. DispatchInv => NoNeedlessCopy
  BY DEF DispatchInv, SenderOK, NoNeedlessCopy
<1> QED
  BY <1>1, DispatchInvariance, PTL
===============================================================================
