----------------------------- MODULE CommandProofs -----------------------------
(***************************************************************************)
(* The safety properties of FileTransfer for any number of files and any   *)
(* set of workers, and those of ServerCommands for any inventory, any jobs *)
(* and any ~/.ssh/config that the commands may find.                       *)
(***************************************************************************)
EXTENDS FileTransfer, ServerCommands, SequenceTheorems, TLAPS

Contents == {"none", "old", "new"}
Temps == {"none", "empty", "partial", "new"}

Stages == {"idle", "received", "cleared", "exited", "error", "temp", "secure", "copy",
           "closing", "install", "clean", "park", "move", "move parked", "restore", "drop", "done"}
WorkerState == [pc : Stages, file : Nat]

TypeOK ==
   /\ direction \in {"upload", "download"} /\ posix \in BOOLEAN
   /\ producer \in [pc : {"prepare", "send", "wait", "returned"}, next : Nat \ {0},
                    result : {"none", "ok", "failed"}]
   /\ worker \in [Workers -> WorkerState]
   /\ stopped \in BOOLEAN /\ cancelled \in BOOLEAN /\ faulty \in BOOLEAN
   /\ client \in {"open", "closing", "closed"} /\ existed \subseteq Files
   /\ dest \in [Files -> Contents] /\ parked \in [Files -> Contents]
   /\ temp \in [Files -> Temps]

(* A file has one worker at most, from the moment it is handed out. *)
Busy(w) == worker[w].pc \notin {"idle", "exited"}
OwnOK ==
   /\ \A w \in Workers : Busy(w) => File(w) \in Files /\ File(w) < producer.next
   /\ \A v, w \in Workers : Busy(v) /\ Busy(w) /\ v # w => File(v) # File(w)

(* What the renames of a file have come to at each stage of its worker.    *)
StageOK(w) ==
   /\ worker[w].pc = "install" => temp[File(w)] = "new"
   /\ worker[w].pc \in {"park", "move", "move parked"} => temp[File(w)] \in {"new", "none"}
   /\ worker[w].pc \in {"drop", "done"} => dest[File(w)] = "new"

Kept(f) == f \in existed => dest[f] # "none" \/ parked[f] # "none"

(* A file that was handed out is in place or in work, or an error is known. *)
SentOK ==
   \A f \in Files : f < producer.next /\ ~stopped =>
      dest[f] = "new" \/ \E w \in Workers : Busy(w) /\ File(w) = f

PhaseOK ==
   /\ producer.pc \in {"prepare", "returned"} => \A w \in Workers : ~Busy(w)
   /\ producer.pc = "wait" => producer.next \notin Files \/ stopped
   /\ producer.result = "ok" =>
         producer.pc = "returned" /\ producer.next \notin Files /\ ~stopped

IInv == /\ TypeOK /\ OwnOK /\ SentOK /\ PhaseOK
        /\ \A w \in Workers : StageOK(w)
        /\ \A f \in Files : Kept(f)

-----------------------------------------------------------------------------
LEMMA FilesNat == Files \subseteq Nat \ {0}
BY FilesAssumption

LEMMA InitInv == Init => IInv
<1> SUFFICES ASSUME Init PROVE IInv
  OBVIOUS
<1>1. TypeOK
  <2>1. Rest \in WorkerState
    BY DEF Rest, WorkerState, Stages
  <2>2. worker \in [Workers -> WorkerState]
    BY <2>1 DEF Init
  <2>3. dest \in [Files -> Contents] /\ parked \in [Files -> Contents]
        /\ temp \in [Files -> Temps]
    BY DEF Init, Contents, Temps
  <2>4. producer \in [pc : {"prepare", "send", "wait", "returned"}, next : Nat \ {0},
                      result : {"none", "ok", "failed"}]
    BY DEF Init
  <2>5. /\ direction \in {"upload", "download"} /\ posix \in BOOLEAN
        /\ stopped \in BOOLEAN /\ cancelled \in BOOLEAN /\ faulty \in BOOLEAN
        /\ client \in {"open", "closing", "closed"} /\ existed \subseteq Files
    BY DEF Init
  <2> QED
    BY <2>2, <2>3, <2>4, <2>5 DEF TypeOK
<1>2. \A w \in Workers : worker[w].pc = "idle"
  BY DEF Init, Rest
<1>3. SentOK
  BY FilesNat DEF Init, SentOK
<1> QED
  BY <1>1, <1>2, <1>3 DEF Init, IInv, OwnOK, PhaseOK, StageOK, Kept, Busy

(* What a worker does that is busy with a file: nothing to another file    *)
(* or worker, and nothing that loses its own file.                         *)
Moves(w) ==
   /\ UNCHANGED <<transfer, producer, cancelled, existed>>
   /\ \A v \in Workers \ {w} : worker'[v] = worker[v]
   /\ stopped => stopped'
   /\ \A f \in Files \ {File(w)} : dest'[f] = dest[f] /\ parked'[f] = parked[f] /\ temp'[f] = temp[f]
   /\ File(w) \in existed => dest'[File(w)] # "none" \/ parked'[File(w)] # "none"
   /\ StageOK(w)'
   /\ Busy(w)' => File(w)' = File(w)
   /\ ~Busy(w)' /\ ~stopped' => dest'[File(w)] = "new"
   /\ TypeOK'

LEMMA GoMoves ==
    ASSUME TypeOK, NEW w \in Workers, NEW p \in Stages, Go(w, p)
    PROVE  /\ worker' \in [Workers -> WorkerState]
           /\ worker'[w].pc = p /\ File(w)' = File(w)
           /\ \A v \in Workers \ {w} : worker'[v] = worker[v]
<1>1. worker[w] \in WorkerState
  BY DEF TypeOK
<1>2. worker' = [worker EXCEPT ![w] = [worker[w] EXCEPT !.pc = p]]
  BY DEF Go
<1>3. [worker[w] EXCEPT !.pc = p] \in WorkerState
  BY <1>1 DEF WorkerState
<1>4. worker'[w] = [worker[w] EXCEPT !.pc = p]
  BY <1>2 DEF TypeOK
<1>5. worker'[w].pc = p /\ worker'[w].file = worker[w].file
  BY <1>1, <1>4 DEF WorkerState
<1> QED
  BY <1>2, <1>3, <1>5 DEF TypeOK, File

LEMMA TempMoves ==
    ASSUME IInv, NEW w \in Workers, Busy(w),
           MakeTemp(w) \/ SecureTemp(w) \/ Answer(w) \/ Abandon(w)
           \/ Closed(w) \/ Clean(w)
    PROVE  Moves(w)
<1> DEFINE f == File(w)
<1>1. f \in Files /\ TypeOK /\ Kept(f) /\ StageOK(w)
  BY DEF IInv, OwnOK
<1>2. /\ UNCHANGED <<direction, posix, producer, cancelled, stopped, existed>>
      /\ UNCHANGED <<dest, parked>>
  BY DEF MakeTemp, SecureTemp, Answer, Abandon, Closed, Clean, files, transfer, ghosts
<1>3. temp' = temp \/ \E t \in Temps : temp' = [temp EXCEPT ![f] = t]
  BY DEF MakeTemp, SecureTemp, Answer, Abandon, Closed, Clean, files, Temps
<1>4. \E p \in {"secure", "copy", "closing", "error", "install", "clean"} :
         Go(w, p) /\ (p = "install" => temp' = [temp EXCEPT ![f] = "new"])
  BY DEF MakeTemp, SecureTemp, Answer, Abandon, Closed, Clean
<1>5. client' \in {"open", "closing", "closed"} /\ faulty' \in BOOLEAN
  BY <1>1 DEF MakeTemp, SecureTemp, Answer, Abandon, Closed, Clean, Open, Works, Fails, TypeOK
<1>6. /\ temp' \in [Files -> Temps]
      /\ \A g \in Files \ {f} : temp'[g] = temp[g]
  BY <1>1, <1>3 DEF TypeOK, Temps
<1>7. PICK p \in {"secure", "copy", "closing", "error", "install", "clean"} :
         Go(w, p) /\ (p = "install" => temp'[f] = "new")
  BY <1>1, <1>4 DEF TypeOK
<1>8. p \in Stages
  BY DEF Stages
<1>9. /\ worker' \in [Workers -> WorkerState]
      /\ worker'[w].pc = p /\ File(w)' = File(w)
      /\ \A v \in Workers \ {w} : worker'[v] = worker[v]
  BY <1>1, <1>7, <1>8, GoMoves
<1>10. TypeOK'
  BY <1>1, <1>2, <1>5, <1>6, <1>9 DEF TypeOK, Temps
<1>11. StageOK(w)'
  BY <1>7, <1>9 DEF StageOK
<1>12. Busy(w)' /\ (f \in existed => dest'[f] # "none" \/ parked'[f] # "none")
  BY <1>1, <1>2, <1>9 DEF Kept, Busy
<1> QED
  BY <1>2, <1>6, <1>9, <1>10, <1>11, <1>12 DEF Moves, transfer

(* The renames: x, y and z are what they leave in place, beside it and in  *)
(* the temporary file, and p is the next stage.                            *)
LEMMA RenameMoves ==
    ASSUME IInv, NEW w \in Workers, Busy(w),
           UNCHANGED <<transfer, producer, stopped, cancelled, client, ghosts>>,
           faulty' \in BOOLEAN,
           NEW p \in {"park", "move", "move parked", "clean", "restore", "drop", "done"},
           NEW x \in Contents, NEW y \in Contents, NEW z \in Temps,
           Go(w, p),
           dest' = [dest EXCEPT ![File(w)] = x],
           parked' = [parked EXCEPT ![File(w)] = y],
           temp' = [temp EXCEPT ![File(w)] = z],
           File(w) \in existed => x # "none" \/ y # "none",
           p \in {"park", "move", "move parked"} => z \in {"new", "none"},
           p \in {"drop", "done"} => x = "new"
    PROVE  Moves(w)
<1> DEFINE f == File(w)
<1>1. f \in Files /\ TypeOK /\ p \in Stages
  BY DEF IInv, OwnOK, Stages
<1>2. /\ dest' \in [Files -> Contents] /\ parked' \in [Files -> Contents]
      /\ temp' \in [Files -> Temps]
      /\ dest'[f] = x /\ parked'[f] = y /\ temp'[f] = z
      /\ \A g \in Files \ {f} : dest'[g] = dest[g] /\ parked'[g] = parked[g] /\ temp'[g] = temp[g]
  BY <1>1 DEF TypeOK
<1>3. /\ worker' \in [Workers -> WorkerState]
      /\ worker'[w].pc = p /\ File(w)' = File(w)
      /\ \A v \in Workers \ {w} : worker'[v] = worker[v]
  BY <1>1, GoMoves
<1>4. TypeOK'
  BY <1>1, <1>2, <1>3 DEF TypeOK, transfer, ghosts
<1>5. StageOK(w)'
  BY <1>2, <1>3 DEF StageOK
<1>6. Busy(w)' /\ (f \in existed => dest'[f] # "none" \/ parked'[f] # "none")
  BY <1>2, <1>3 DEF Busy
<1> QED
  BY <1>2, <1>3, <1>4, <1>5, <1>6 DEF Moves, ghosts

LEMMA InstallMoves ==
    ASSUME IInv, NEW w \in Workers, Busy(w),
           InstallDownload(w) \/ InstallUpload(w)
    PROVE  Moves(w)
<1> DEFINE f == File(w)
<1>1. /\ f \in Files /\ TypeOK /\ Kept(f) /\ temp[f] = "new"
      /\ UNCHANGED <<transfer, producer, stopped, cancelled, client, ghosts, parked>>
      /\ faulty' \in BOOLEAN
  BY DEF IInv, OwnOK, StageOK, TypeOK, InstallDownload, InstallUpload, Works, Fails
<1>2. /\ dest[f] \in Contents /\ parked[f] \in Contents
      /\ dest = [dest EXCEPT ![f] = dest[f]] /\ parked = [parked EXCEPT ![f] = parked[f]]
      /\ temp = [temp EXCEPT ![f] = temp[f]]
      /\ "new" \in Contents /\ "new" \in Temps /\ "none" \in Temps
  BY <1>1 DEF TypeOK, Contents, Temps
<1>3. CASE /\ dest' = [dest EXCEPT ![f] = "new"] /\ temp' = [temp EXCEPT ![f] = "none"]
           /\ Go(w, "done") \/ Go(w, "park")
  BY <1>1, <1>2, <1>3, RenameMoves
<1>4. CASE UNCHANGED <<dest, temp>> /\ (Go(w, "clean") \/ Go(w, "park"))
  <2>1. f \in existed => dest[f] # "none" \/ parked[f] # "none"
    BY <1>1 DEF Kept
  <2>2. /\ dest' = [dest EXCEPT ![f] = dest[f]] /\ parked' = [parked EXCEPT ![f] = parked[f]]
        /\ temp' = [temp EXCEPT ![f] = "new"]
    BY <1>1, <1>2, <1>4
  <2>3. CASE Go(w, "clean")
    BY <1>1, <1>2, <2>1, <2>2, <2>3, RenameMoves
  <2>4. CASE Go(w, "park")
    BY <1>1, <1>2, <2>1, <2>2, <2>4, RenameMoves
  <2> QED
    BY <1>4, <2>3, <2>4
<1> QED
  BY <1>1, <1>3, <1>4 DEF InstallDownload, InstallUpload, Install

LEMMA ParkMoves ==
    ASSUME IInv, NEW w \in Workers, Busy(w),
           Park(w) \/ Move(w) \/ Restore(w) \/ DropParked(w)
    PROVE  Moves(w)
<1> DEFINE f == File(w)
<1>1. /\ f \in Files /\ TypeOK /\ Kept(f) /\ StageOK(w)
      /\ UNCHANGED <<transfer, producer, stopped, cancelled, client, ghosts>>
      /\ faulty' \in BOOLEAN
  BY DEF IInv, OwnOK, TypeOK, Park, Move, Restore, DropParked, Works, Fails
<1>2. /\ dest[f] \in Contents /\ parked[f] \in Contents /\ temp[f] \in Temps
      /\ dest = [dest EXCEPT ![f] = dest[f]] /\ parked = [parked EXCEPT ![f] = parked[f]]
      /\ temp = [temp EXCEPT ![f] = temp[f]]
      /\ "new" \in Contents /\ "none" \in Contents /\ "none" \in Temps
  BY <1>1 DEF TypeOK, Contents, Temps
<1>3. f \in existed => dest[f] # "none" \/ parked[f] # "none"
  BY <1>1 DEF Kept
<1>4. CASE Park(w)
  <2>1. temp[f] \in {"new", "none"} /\ temp' = temp
    BY <1>1, <1>4 DEF Park, StageOK
  <2>2. CASE UNCHANGED <<dest, parked>> /\ Go(w, "move")
    BY <1>1, <1>2, <1>3, <2>1, <2>2, RenameMoves
  <2>3. CASE UNCHANGED <<dest, parked>> /\ Go(w, "clean")
    BY <1>1, <1>2, <1>3, <2>1, <2>3, RenameMoves
  <2>4. CASE ParkFile(f) /\ dest[f] # "none" /\ Go(w, "move parked")
    BY <1>1, <1>2, <2>1, <2>4, RenameMoves DEF ParkFile
  <2>5. CASE ParkFile(f) /\ dest[f] # "none" /\ Go(w, "clean")
    BY <1>1, <1>2, <2>1, <2>5, RenameMoves DEF ParkFile
  <2> QED
    BY <1>4, <2>2, <2>3, <2>4, <2>5 DEF Park
<1>5. CASE Move(w)
  <2>1. temp[f] \in {"new", "none"} /\ parked' = parked
    BY <1>1, <1>5 DEF Move, StageOK
  <2>2. CASE temp[f] # "none" /\ Install(f)
    <3>1. dest' = [dest EXCEPT ![f] = "new"] /\ temp' = [temp EXCEPT ![f] = "none"]
      BY <2>1, <2>2 DEF Install
    <3>2. parked' = [parked EXCEPT ![f] = parked[f]]
      BY <1>2, <2>1
    <3>3. PICK p \in {"done", "drop", "clean", "restore"} : Go(w, p)
      BY <1>5 DEF Move
    <3>4. CASE p = "done"
      BY <1>1, <1>2, <3>1, <3>2, <3>3, <3>4, RenameMoves
    <3>5. CASE p = "drop"
      BY <1>1, <1>2, <3>1, <3>2, <3>3, <3>5, RenameMoves
    <3>6. CASE p = "clean"
      BY <1>1, <1>2, <3>1, <3>2, <3>3, <3>6, RenameMoves
    <3>7. CASE p = "restore"
      BY <1>1, <1>2, <3>1, <3>2, <3>3, <3>7, RenameMoves
    <3> QED
      BY <3>4, <3>5, <3>6, <3>7
  <2>3. CASE UNCHANGED <<temp, dest>> /\ \E p \in {"clean", "restore"} : Go(w, p)
    <3>1. /\ dest' = [dest EXCEPT ![f] = dest[f]] /\ parked' = [parked EXCEPT ![f] = parked[f]]
          /\ temp' = [temp EXCEPT ![f] = temp[f]]
      BY <1>2, <2>1, <2>3
    <3>2. CASE Go(w, "clean")
      BY <1>1, <1>2, <1>3, <3>1, <3>2, RenameMoves
    <3>3. CASE Go(w, "restore")
      BY <1>1, <1>2, <1>3, <3>1, <3>3, RenameMoves
    <3> QED
      BY <2>3, <3>2, <3>3
  <2> QED
    BY <1>5, <2>2, <2>3 DEF Move
<1>6. CASE Restore(w)
  <2>1. Go(w, "clean") /\ temp' = temp
    BY <1>6 DEF Restore
  <2>2. CASE dest[f] = "none" /\ Unpark(f)
    <3>1. dest' = [dest EXCEPT ![f] = parked[f]] /\ parked' = [parked EXCEPT ![f] = "none"]
          /\ (f \in existed => parked[f] # "none")
      BY <1>3, <2>2 DEF Unpark
    <3> QED
      BY <1>1, <1>2, <2>1, <3>1, RenameMoves
  <2>3. CASE UNCHANGED <<parked, dest>>
    BY <1>1, <1>2, <1>3, <2>1, <2>3, RenameMoves
  <2> QED
    BY <1>6, <2>2, <2>3 DEF Restore
<1>7. CASE DropParked(w)
  <2>1. dest[f] = "new" /\ UNCHANGED <<dest, temp>> /\ Go(w, "done")
    BY <1>1, <1>7 DEF DropParked, StageOK
  <2>2. parked' = [parked EXCEPT ![f] = "none"] \/ parked' = parked
    BY <1>7 DEF DropParked
  <2> QED
    BY <1>1, <1>2, <2>1, <2>2, RenameMoves
<1> QED
  BY <1>4, <1>5, <1>6, <1>7

(* Beginning, ending and giving up a file. *)
LEMMA OtherMoves ==
    ASSUME IInv, NEW w \in Workers, Busy(w),
           Look(w) \/ Begin(w) \/ ReportError(w) \/ FileDone(w)
    PROVE  Moves(w)
<1> DEFINE f == File(w)
<1>1. /\ f \in Files /\ TypeOK /\ Kept(f) /\ StageOK(w)
      /\ UNCHANGED <<transfer, producer, cancelled, client, files, existed, faulty>>
      /\ stopped' \in BOOLEAN /\ (stopped => stopped')
  BY DEF IInv, OwnOK, TypeOK, Look, Begin, ReportError, FileDone, ghosts
<1>2. f \in existed => dest'[f] # "none" \/ parked'[f] # "none"
  BY <1>1 DEF Kept, files
<1>3. CASE FileDone(w)
  <2>1. /\ worker' = [worker EXCEPT ![w] = Rest] /\ Rest \in WorkerState
        /\ dest[f] = "new"
    BY <1>1, <1>3 DEF FileDone, StageOK, Rest, WorkerState, Stages
  <2>2. /\ worker' \in [Workers -> WorkerState] /\ worker'[w] = Rest
        /\ \A v \in Workers \ {w} : worker'[v] = worker[v]
    BY <1>1, <2>1 DEF TypeOK
  <2>3. TypeOK'
    BY <1>1, <2>2 DEF TypeOK, transfer, files
  <2>4. StageOK(w)' /\ ~Busy(w)'
    BY <2>2 DEF StageOK, Busy, Rest
  <2> QED
    BY <1>1, <1>2, <2>1, <2>2, <2>3, <2>4 DEF Moves, files
<1>4. CASE Look(w) \/ Begin(w) \/ ReportError(w)
  <2>1. PICK p \in {"cleared", "exited", "error", "temp"} : Go(w, p) /\ (p = "exited" => stopped')
    BY <1>1, <1>4 DEF Look, Begin, ReportError
  <2>2. p \in Stages
    BY DEF Stages
  <2>3. /\ worker' \in [Workers -> WorkerState]
        /\ worker'[w].pc = p /\ File(w)' = File(w)
        /\ \A v \in Workers \ {w} : worker'[v] = worker[v]
    BY <1>1, <2>1, <2>2, GoMoves
  <2>4. TypeOK'
    BY <1>1, <2>3 DEF TypeOK, transfer, files
  <2>5. StageOK(w)' /\ (~Busy(w)' => stopped')
    BY <2>1, <2>3 DEF StageOK, Busy
  <2> QED
    BY <1>1, <1>2, <2>3, <2>4, <2>5 DEF Moves, files
<1> QED
  BY <1>3, <1>4

LEMMA WorkerMoves ==
    ASSUME IInv, NEW w \in Workers, Step(w), ~Leave(w)
    PROVE  Busy(w) /\ Moves(w)
<1>1. Busy(w)
  BY DEF Step, Look, Begin, ReportError, MakeTemp, SecureTemp, Answer, Abandon, Closed, InstallDownload,
         InstallUpload, Park, Move, Restore, DropParked, FileDone, Clean, Busy
<1> QED
  BY <1>1, TempMoves, InstallMoves, ParkMoves, OtherMoves DEF Step

-----------------------------------------------------------------------------
LEMMA MovesStep ==
    ASSUME IInv, NEW w \in Workers, Busy(w), Moves(w)
    PROVE  IInv'
<1> DEFINE f == File(w)
<1> USE DEF Moves
<1>1. /\ TypeOK' /\ producer' = producer /\ existed' = existed
      /\ \A v \in Workers \ {w} : worker'[v] = worker[v]
      /\ \A g \in Files \ {f} : dest'[g] = dest[g] /\ parked'[g] = parked[g] /\ temp'[g] = temp[g]
  OBVIOUS
<1>2. \A v \in Workers \ {w} : (Busy(v)' <=> Busy(v)) /\ File(v)' = File(v)
  BY <1>1 DEF Busy, File
<1>3. OwnOK'
  BY <1>1, <1>2 DEF IInv, OwnOK
<1>4. SentOK'
  <2> SUFFICES ASSUME NEW g \in Files, g < producer.next, ~stopped'
               PROVE  dest'[g] = "new" \/ \E v \in Workers : Busy(v)' /\ File(v)' = g
    BY <1>1 DEF SentOK
  <2>1. ~stopped
    OBVIOUS
  <2>2. CASE g = f
    BY <2>2
  <2>3. CASE g # f
    <3>1. dest[g] = "new" \/ \E v \in Workers : Busy(v) /\ File(v) = g
      BY <2>1 DEF IInv, SentOK
    <3> QED
      BY <1>1, <1>2, <2>3, <3>1
  <2> QED
    BY <2>2, <2>3
<1>5. PhaseOK'
  <2>1. producer.pc \notin {"prepare", "returned"} /\ producer.result # "ok"
    BY DEF IInv, PhaseOK
  <2> QED
    BY <1>1, <2>1 DEF IInv, PhaseOK
<1>6. \A v \in Workers : StageOK(v)'
  <2>1. ASSUME NEW v \in Workers \ {w} PROVE StageOK(v)'
    <3>1. StageOK(v) /\ worker'[v] = worker[v] /\ File(v)' = File(v)
      BY <1>1, <1>2 DEF IInv
    <3>2. CASE ~Busy(v)
      BY <3>1, <3>2 DEF StageOK, Busy
    <3>3. CASE Busy(v)
      <4>1. File(v) \in Files /\ File(v) # f
        BY <3>3 DEF IInv, OwnOK
      <4> QED
        BY <1>1, <3>1, <4>1 DEF StageOK
    <3> QED
      BY <3>2, <3>3
  <2> QED
    BY <2>1
<1>7. ASSUME NEW g \in Files PROVE Kept(g)'
  <2>1. Kept(g)
    BY DEF IInv
  <2>2. CASE g = f
    BY <1>1, <2>2 DEF Kept
  <2>3. CASE g # f
    BY <1>1, <2>1, <2>3 DEF Kept
  <2> QED
    BY <2>2, <2>3
<1> QED
  BY <1>1, <1>3, <1>4, <1>5, <1>6, <1>7 DEF IInv

(* The steps of the producer leave every busy worker and file alone. *)
LEMMA LeaveStep ==
    ASSUME IInv, NEW w \in Workers, Leave(w)
    PROVE  IInv'
<1>1. TypeOK /\ ~Busy(w) /\ "exited" \in Stages
  BY DEF IInv, Leave, Busy, Stages
<1>2. /\ worker' \in [Workers -> WorkerState] /\ worker'[w].pc = "exited"
      /\ \A v \in Workers \ {w} : worker'[v] = worker[v]
  BY <1>1, GoMoves DEF Leave
<1>3. UNCHANGED <<transfer, producer, stopped, cancelled, client, files, ghosts, faulty>>
  BY DEF Leave
<1>4. /\ ~Busy(w)'
      /\ \A v \in Workers : Busy(v)' <=> Busy(v)
      /\ \A v \in Workers : Busy(v) => File(v)' = File(v)
  BY <1>1, <1>2 DEF Busy, File
<1>5. TypeOK'
  BY <1>1, <1>2, <1>3 DEF TypeOK, transfer, files, ghosts
<1>6. OwnOK' /\ SentOK' /\ PhaseOK'
  BY <1>3, <1>4 DEF IInv, OwnOK, SentOK, PhaseOK, files
<1>7. \A v \in Workers : StageOK(v)'
  BY <1>2, <1>3 DEF IInv, StageOK, File, files
<1>8. \A g \in Files : Kept(g)'
  BY <1>3 DEF IInv, Kept, files, ghosts
<1> QED
  BY <1>5, <1>6, <1>7, <1>8 DEF IInv

LEMMA SendStep ==
    ASSUME IInv, NEW w \in Workers, Send(w)
    PROVE  IInv'
<1> DEFINE n == producer.next
<1>1. TypeOK /\ ~Busy(w) /\ n \in Files /\ n \in Nat \ {0} /\ producer.pc = "send"
  BY FilesNat DEF IInv, Send, Busy
<1>2. /\ worker' = [worker EXCEPT ![w] = [pc |-> "received", file |-> n]]
      /\ producer' = [producer EXCEPT !.next = n + 1]
      /\ UNCHANGED <<transfer, stopped, cancelled, client, files, ghosts, faulty>>
  BY DEF Send
<1>3. /\ worker' \in [Workers -> WorkerState]
      /\ worker'[w] = [pc |-> "received", file |-> n]
      /\ \A v \in Workers \ {w} : worker'[v] = worker[v]
  <2>1. [pc |-> "received", file |-> n] \in WorkerState
    BY <1>1 DEF WorkerState, Stages
  <2> QED
    BY <1>1, <1>2, <2>1 DEF TypeOK
<1>4. /\ producer' \in [pc : {"prepare", "send", "wait", "returned"}, next : Nat \ {0},
                        result : {"none", "ok", "failed"}]
      /\ producer'.pc = "send" /\ producer'.next = n + 1 /\ producer'.result = producer.result
  BY <1>1, <1>2 DEF TypeOK
<1>5. /\ Busy(w)' /\ File(w)' = n
      /\ \A v \in Workers \ {w} : (Busy(v)' <=> Busy(v)) /\ File(v)' = File(v)
  BY <1>3 DEF Busy, File
<1>6. TypeOK'
  BY <1>1, <1>2, <1>3, <1>4 DEF TypeOK, transfer, files, ghosts
<1>7. OwnOK'
  <2>1. \A v \in Workers \ {w} : Busy(v) => File(v) \in Files /\ File(v) \in Nat /\ File(v) < n
    BY FilesNat DEF IInv, OwnOK
  <2>2. \A v \in Workers : Busy(v)' => File(v)' \in Files /\ File(v)' < n + 1
    BY <1>1, <1>5, <2>1
  <2>3. \A u, v \in Workers : Busy(u)' /\ Busy(v)' /\ u # v => File(u)' # File(v)'
    <3> SUFFICES ASSUME NEW u \in Workers, NEW v \in Workers, Busy(u)', Busy(v)', u # v
                 PROVE  File(u)' # File(v)'
      OBVIOUS
    <3>1. CASE u = w
      BY <1>1, <1>5, <2>1, <3>1
    <3>2. CASE v = w
      BY <1>1, <1>5, <2>1, <3>2
    <3>3. CASE u # w /\ v # w
      BY <1>5, <3>3 DEF IInv, OwnOK
    <3> QED
      BY <3>1, <3>2, <3>3
  <2> QED
    BY <1>4, <2>2, <2>3 DEF OwnOK
<1>8. SentOK'
  <2> SUFFICES ASSUME NEW g \in Files, g < n + 1, ~stopped
               PROVE  dest[g] = "new" \/ \E v \in Workers : Busy(v)' /\ File(v)' = g
    BY <1>2, <1>4 DEF SentOK, files
  <2>1. CASE g = n
    BY <1>5, <2>1
  <2>2. CASE g # n
    <3>1. g < n
      BY <1>1, <2>2, FilesNat
    <3>2. dest[g] = "new" \/ \E v \in Workers : Busy(v) /\ File(v) = g
      BY <3>1 DEF IInv, SentOK
    <3> QED
      BY <1>1, <1>5, <3>2
  <2> QED
    BY <2>1, <2>2
<1>9. PhaseOK'
  BY <1>1, <1>4 DEF IInv, PhaseOK
<1>10. \A v \in Workers : StageOK(v)'
  BY <1>2, <1>3 DEF IInv, StageOK, File, files
<1>11. \A g \in Files : Kept(g)'
  BY <1>2 DEF IInv, Kept, files, ghosts
<1> QED
  BY <1>6, <1>7, <1>8, <1>9, <1>10, <1>11 DEF IInv

LEMMA ProducerStep ==
    ASSUME IInv, Prepare \/ CloseJobs \/ Return
    PROVE  IInv'
<1>1. /\ TypeOK /\ producer.next \in Nat \ {0}
      /\ UNCHANGED <<transfer, worker, stopped, cancelled, client, files, ghosts>>
      /\ faulty' \in BOOLEAN
  BY DEF IInv, TypeOK, Prepare, CloseJobs, Return
<1>2. /\ producer' \in [pc : {"prepare", "send", "wait", "returned"}, next : Nat \ {0},
                        result : {"none", "ok", "failed"}]
      /\ producer'.next = producer.next
  BY <1>1 DEF TypeOK, Prepare, CloseJobs, Return, Producer, Result
<1>3. TypeOK'
  BY <1>1, <1>2 DEF TypeOK, transfer, files, ghosts
<1>4. \A v \in Workers : (Busy(v)' <=> Busy(v)) /\ File(v)' = File(v)
  BY <1>1 DEF Busy, File
<1>5. OwnOK' /\ SentOK'
  BY <1>1, <1>2, <1>4 DEF IInv, OwnOK, SentOK, files
<1>6. PhaseOK'
  <2>1. CASE Prepare
    BY <1>1, <1>4, <2>1 DEF Prepare, Producer, Result, IInv, TypeOK, PhaseOK
  <2>2. CASE CloseJobs
    BY <1>1, <1>4, <2>2 DEF CloseJobs, Producer, IInv, TypeOK, PhaseOK
  <2>3. CASE Return
    <3>1. producer.pc = "wait" /\ \A v \in Workers : ~Busy(v)
      BY <2>3 DEF Return, Busy
    <3>2. producer.next \notin Files \/ stopped
      BY <3>1 DEF IInv, PhaseOK
    <3>3. producer' = [producer EXCEPT !.pc = "returned",
                                       !.result = IF stopped \/ cancelled THEN "failed" ELSE "ok"]
      BY <2>3 DEF Return, Result
    <3>4. producer'.pc = "returned" /\ (producer'.result = "ok" => ~stopped)
      BY <1>1, <3>3 DEF TypeOK
    <3> QED
      BY <1>1, <1>2, <1>4, <3>1, <3>2, <3>4 DEF PhaseOK
  <2> QED
    BY <2>1, <2>2, <2>3
<1>7. \A v \in Workers : StageOK(v)'
  BY <1>1 DEF IInv, StageOK, File, files
<1>8. \A g \in Files : Kept(g)'
  BY <1>1 DEF IInv, Kept, files, ghosts
<1> QED
  BY <1>3, <1>5, <1>6, <1>7, <1>8 DEF IInv

LEMMA IdleStep ==
    ASSUME IInv, Cancel \/ SessionEnds \/ UNCHANGED vars
    PROVE  IInv'
<1>1. /\ UNCHANGED <<transfer, producer, worker, stopped, files, ghosts, faulty>>
      /\ cancelled' \in BOOLEAN /\ client' \in {"open", "closing", "closed"}
  BY DEF Cancel, SessionEnds, vars, IInv, TypeOK
<1>2. TypeOK'
  BY <1>1 DEF IInv, TypeOK, transfer, files, ghosts
<1> QED
  BY <1>1, <1>2 DEF IInv, OwnOK, SentOK, PhaseOK, StageOK, Kept, Busy, File, files, ghosts

LEMMA Invariance == IInv /\ [Next]_vars => IInv'
<1> SUFFICES ASSUME IInv, [Next]_vars PROVE IInv'
  OBVIOUS
<1>1. CASE Prepare \/ CloseJobs \/ Return
  BY <1>1, ProducerStep
<1>2. ASSUME NEW w \in Workers, Send(w) PROVE IInv'
  BY <1>2, SendStep
<1>3. ASSUME NEW w \in Workers, Leave(w) PROVE IInv'
  BY <1>3, LeaveStep
<1>4. ASSUME NEW w \in Workers, Step(w), ~Leave(w) PROVE IInv'
  BY <1>4, WorkerMoves, MovesStep
<1>5. CASE Cancel \/ SessionEnds \/ Done \/ UNCHANGED vars
  BY <1>5, IdleStep DEF Done
<1> QED
  BY <1>1, <1>2, <1>3, <1>4, <1>5 DEF Next, Pool, Step

LEMMA Inductive == Spec => []IInv
BY InitInv, Invariance, PTL DEF Spec

-----------------------------------------------------------------------------
(* runBounded returns only when every worker has left its last file; a     *)
(* destination that existed is never lost between the renames of           *)
(* installRemoteFile; and success means that every file is in place.       *)
THEOREM Safe == Spec => []TransferSafe
<1>1. IInv => TransferSafe
  <2> SUFFICES ASSUME IInv PROVE TransferSafe
    OBVIOUS
  <2>1. WorkersGone
    BY DEF IInv, PhaseOK, Busy, WorkersGone
  <2>2. DestinationWhole
    BY DEF IInv, TypeOK, Contents, Kept, DestinationWhole
  <2>3. SuccessIsAll
    <3> SUFFICES ASSUME producer.result = "ok", NEW f \in Files PROVE dest[f] = "new"
      BY DEF SuccessIsAll
    <3>1. /\ producer.next \notin Files /\ ~stopped
          /\ \A w \in Workers : ~Busy(w)
      BY DEF IInv, PhaseOK
    <3>2. f < producer.next
      BY <3>1, FilesAssumption DEF IInv, TypeOK
    <3> QED
      BY <3>1, <3>2 DEF IInv, SentOK
  <2> QED
    BY <2>1, <2>2, <2>3 DEF TransferSafe
<1> QED
  BY <1>1, Inductive, PTL

(* A worker that has called fn after stop was closed has not looked since, *)
(* and the one that closed it is gone.                                     *)
LateOK ==
   /\ ~stopped => late = {}
   /\ \A w \in Workers, f \in Files : <<w, f>> \in late =>
         /\ worker[w].pc # "cleared"
         /\ \A g \in Files : <<w, g>> \in late => f = g
   /\ stopped => \E w \in Workers : worker[w].pc = "exited"
                                    /\ \A f \in Files : <<w, f>> \notin late

LEMMA LateStep ==
    ASSUME TypeOK, LateOK, Next
    PROVE  LateOK'
<1>1. stopped \in BOOLEAN /\ worker \in [Workers -> WorkerState]
  BY DEF TypeOK
<1>2. ASSUME UNCHANGED <<stopped, late>>,
             \A v \in Workers : worker'[v].pc = "cleared" => worker[v].pc = "cleared",
             \A v \in Workers : worker[v].pc = "exited" => worker'[v].pc = "exited"
      PROVE  LateOK'
  <2>1. ~stopped' => late' = {}
    BY <1>2 DEF LateOK
  <2>2. ASSUME NEW v \in Workers, NEW f \in Files, <<v, f>> \in late'
        PROVE  worker'[v].pc # "cleared" /\ \A g \in Files : <<v, g>> \in late' => f = g
    BY <1>2, <2>2 DEF LateOK
  <2>3. ASSUME stopped'
        PROVE  \E v \in Workers : worker'[v].pc = "exited" /\ \A f \in Files : <<v, f>> \notin late'
    <3>1. PICK v \in Workers : worker[v].pc = "exited" /\ \A f \in Files : <<v, f>> \notin late
      BY <1>2, <2>3 DEF LateOK
    <3> QED
      BY <1>2, <3>1
  <2> QED
    BY <2>1, <2>2, <2>3 DEF LateOK
<1>3. ASSUME NEW w \in Workers, Look(w) PROVE LateOK'
  <2>1. /\ UNCHANGED <<stopped, late>>
        /\ worker[w].pc = "received"
        /\ Go(w, IF stopped THEN "exited" ELSE "cleared")
    BY <1>3 DEF Look, ghosts
  <2>2. /\ worker'[w].pc = IF stopped THEN "exited" ELSE "cleared"
        /\ \A v \in Workers \ {w} : worker'[v] = worker[v]
    BY <1>1, <2>1 DEF Go, WorkerState
  <2>3. CASE stopped
    BY <2>1, <2>2, <2>3 DEF LateOK
  <2>4. CASE ~stopped
    BY <2>1, <2>4 DEF LateOK
  <2> QED
    BY <2>3, <2>4
<1>4. ASSUME NEW w \in Workers, Begin(w) PROVE LateOK'
  <2>1. /\ stopped' = stopped
        /\ worker[w].pc = "cleared"
        /\ late' = IF stopped THEN late \union {<<w, worker[w].file>>} ELSE late
        /\ Go(w, IF cancelled THEN "error" ELSE "temp")
    BY <1>4 DEF Begin
  <2>2. /\ worker'[w].pc # "cleared"
        /\ \A v \in Workers \ {w} : worker'[v] = worker[v]
    BY <1>1, <2>1 DEF Go, WorkerState
  <2>3. \A f \in Files : <<w, f>> \notin late
    BY <2>1 DEF LateOK
  <2>4. /\ \A f \in Files : <<w, f>> \in late' => f = worker[w].file
        /\ \A v \in Workers \ {w} : \A f \in Files : <<v, f>> \in late' <=> <<v, f>> \in late
    BY <2>1, <2>3
  <2>5. ~stopped => late' = {}
    BY <2>1 DEF LateOK
  <2>6. ASSUME stopped
        PROVE  \E v \in Workers : worker'[v].pc = "exited" /\ \A f \in Files : <<v, f>> \notin late'
    <3>1. PICK v \in Workers : worker[v].pc = "exited" /\ \A f \in Files : <<v, f>> \notin late
      BY <2>6 DEF LateOK
    <3>2. v # w
      BY <2>1, <3>1
    <3> QED
      BY <2>2, <2>4, <3>1, <3>2
  <2>7. ASSUME NEW v \in Workers, NEW f \in Files, <<v, f>> \in late'
        PROVE  worker'[v].pc # "cleared" /\ \A g \in Files : <<v, g>> \in late' => f = g
    <3>1. CASE v = w
      BY <2>2, <2>4, <2>7, <3>1
    <3>2. CASE v # w
      BY <2>2, <2>4, <2>7, <3>2 DEF LateOK
    <3> QED
      BY <3>1, <3>2
  <2> QED
    BY <2>1, <2>5, <2>6, <2>7 DEF LateOK
<1>5. ASSUME NEW w \in Workers, ReportError(w) PROVE LateOK'
  <2>1. late' = late /\ stopped' = TRUE /\ Go(w, "exited")
    BY <1>5 DEF ReportError, ghosts
  <2>2. /\ worker'[w].pc = "exited"
        /\ \A v \in Workers \ {w} : worker'[v] = worker[v]
    BY <1>1, <2>1 DEF Go, WorkerState
  <2>3. \E v \in Workers : worker'[v].pc = "exited" /\ \A f \in Files : <<v, f>> \notin late
    <3>1. CASE stopped
      BY <2>2, <3>1 DEF LateOK
    <3>2. CASE ~stopped
      BY <2>2, <3>2 DEF LateOK
    <3> QED
      BY <3>1, <3>2
  <2> QED
    BY <2>1, <2>2, <2>3 DEF LateOK
<1>6. ASSUME Prepare \/ CloseJobs \/ Return \/ Cancel \/ SessionEnds \/ Done PROVE LateOK'
  <2>1. UNCHANGED <<worker, stopped, late>>
    BY <1>6 DEF Prepare, CloseJobs, Return, Cancel, SessionEnds, Done, ghosts, vars
  <2> QED
    BY <1>2, <2>1
<1>7. ASSUME NEW w \in Workers, Send(w) PROVE LateOK'
  <2>1. /\ UNCHANGED <<stopped, late>>
        /\ worker[w].pc = "idle"
        /\ worker' = [worker EXCEPT ![w] = [pc |-> "received", file |-> producer.next]]
    BY <1>7 DEF Send, ghosts
  <2> QED
    BY <1>1, <1>2, <2>1
<1>8. ASSUME NEW w \in Workers, Step(w), ~Look(w), ~Begin(w), ~ReportError(w) PROVE LateOK'
  <2>1. UNCHANGED <<stopped, late>> /\ worker[w].pc # "exited"
    BY <1>8 DEF Step, Leave, MakeTemp, SecureTemp, Answer, Abandon, Closed, InstallDownload,
           InstallUpload, Park, Move, Restore, DropParked, FileDone, Clean, ghosts
  <2>2. (\E p : p # "cleared" /\ Go(w, p)) \/ worker' = [worker EXCEPT ![w] = Rest]
    BY <1>8 DEF Step, Leave, MakeTemp, SecureTemp, Answer, Abandon, Closed, InstallDownload,
           InstallUpload, Park, Move, Restore, DropParked, FileDone, Clean
  <2>3. /\ worker'[w].pc # "cleared"
        /\ \A v \in Workers \ {w} : worker'[v] = worker[v]
    BY <1>1, <2>2 DEF Go, Rest, WorkerState
  <2> QED
    BY <1>2, <2>1, <2>3
<1>9. ASSUME NEW w \in Workers, Step(w) PROVE LateOK'
  BY <1>3, <1>4, <1>5, <1>8, <1>9
<1>10. CASE Pool
  BY <1>6, <1>7, <1>10 DEF Pool
<1> QED
  BY <1>6, <1>9, <1>10 DEF Next

(* Once an error has closed stop, no worker calls fn for more than the one *)
(* file that it was about to begin, and the worker that closed it for none *)
(* (pool.go:38-57).                                                        *)
THEOREM FewBegun == Spec => []OneMoreEach
<1>1. Init => LateOK
  BY DEF Init, LateOK
<1>2. IInv /\ LateOK /\ [Next]_vars => LateOK'
  <2>1. IInv /\ LateOK /\ Next => LateOK'
    BY LateStep DEF IInv
  <2>2. LateOK /\ UNCHANGED vars => LateOK'
    BY DEF LateOK, vars, ghosts
  <2> QED
    BY <2>1, <2>2
<1>3. LateOK => OneMoreEach
  BY DEF LateOK, OneMoreEach
<1> QED
  BY <1>1, <1>2, <1>3, Inductive, PTL DEF Spec

-----------------------------------------------------------------------------
(***************************************************************************)
(*                      The block in ~/.ssh/config                         *)
(***************************************************************************)

(* new is config with the block in place of lines p + 1 to e, which hold no *)
(* text of the operator; no other line belongs to a block.                 *)
LinesOf(lines) == {lines[i] : i \in DOMAIN lines}
Replaces(new, config, block, p, e) ==
   /\ p \in 0 .. Len(config) /\ e \in p .. Len(config)
   /\ new \in Seq(LinesOf(config) \union LinesOf(block))
   /\ Len(new) = p + 3 + Len(config) - e
   /\ \A i \in 1 .. p : new[i] = config[i]
   /\ \A i \in 1 .. 3 : new[p + i] = block[i]
   /\ \A i \in e + 1 .. Len(config) : new[i - e + p + 3] = config[i]
   /\ \A i \in 1 .. Len(config) :
         IF i <= p \/ i > e
         THEN config[i] \notin {BeginMarker, EndMarker} /\ config[i][1] # "entries"
         ELSE config[i][1] # "text"

(* A block as RenderSSHConfig writes it. *)
Block(entries) == <<BeginMarker, Entries(entries), EndMarker>>

LEMMA BlockLines ==
   ASSUME NEW entries, NEW block, block = Block(entries)
   PROVE  /\ Len(block) = 3 /\ DOMAIN block = 1 .. 3
          /\ block \in Seq(LinesOf(block))
          /\ block[1] = BeginMarker /\ block[1][1] = "begin"
          /\ block[2] = Entries(entries) /\ block[2][1] = "entries"
          /\ block[3] = EndMarker /\ block[3][1] = "end"
          /\ block[2] \notin {BeginMarker, EndMarker} /\ BeginMarker # EndMarker
BY DEF Block, BeginMarker, EndMarker, Entries, LinesOf

(* A sequence of lines remains one among more lines. *)
LEMMA MoreLines ==
   ASSUME NEW S, NEW T, S \subseteq T, NEW lines \in Seq(S)
   PROVE  lines \in Seq(T)
<1>1. lines \in [1 .. Len(lines) -> S] /\ Len(lines) \in Nat
  BY LenProperties
<1>2. lines \in [1 .. Len(lines) -> T]
  BY <1>1
<1> QED BY <1>1, <1>2, SeqDef

(* The lines of two pieces, one after the other. *)
LEMMA Joined ==
   ASSUME NEW S, NEW s \in Seq(S), NEW t \in Seq(S)
   PROVE  /\ s \o t \in Seq(S) /\ Len(s \o t) = Len(s) + Len(t)
          /\ \A i \in 1 .. Len(s) : (s \o t)[i] = s[i]
          /\ \A i \in 1 .. Len(t) : (s \o t)[Len(s) + i] = t[i]
<1>1. Len(s) \in Nat /\ Len(t) \in Nat
  BY LenProperties
<1>2. \A i \in 1 .. Len(t) : /\ Len(s) + i \in 1 .. Len(s) + Len(t)
                            /\ ~ (Len(s) + i <= Len(s))
                            /\ (Len(s) + i) - Len(s) = i
  BY <1>1
<1>3. \A i \in 1 .. Len(s) : i \in 1 .. Len(s) + Len(t) /\ i <= Len(s)
  BY <1>1
<1> QED BY <1>2, <1>3, ConcatProperties

(* The place of the only line of its kind is the first. *)
LEMMA OnlyPlace ==
   ASSUME NEW lines, NEW line, NEW k \in Nat, Places(lines, line) = {k}
   PROVE  First(lines, line) = k
BY DEF First

LEMMA MergedReplaces ==
   ASSUME NEW config \in Configs, Updatable(config), NEW entries,
          NEW block, block = Block(entries)
   PROVE  \E p, e \in Nat : Replaces(Merged(config, block), config, block, p, e)
<1> DEFINE L == Len(config)
           Line == LinesOf(config) \union LinesOf(block)
<1>1. /\ config \in Seq(Line) /\ block \in Seq(Line)
      /\ L \in Nat /\ DOMAIN config = 1 .. L
  <2>1. config \in Seq(LinesOf(config)) /\ block \in Seq(LinesOf(block))
    BY CommandsAssumption, BlockLines DEF LinesOf
  <2>2. config \in Seq(Line) /\ block \in Seq(Line)
    <3>1. LinesOf(config) \subseteq Line /\ LinesOf(block) \subseteq Line
      OBVIOUS
    <3> HIDE DEF Line
    <3> QED BY <2>1, <3>1, MoreLines
  <2> HIDE DEF Line
  <2> QED BY <2>2, LenProperties
<1>2. \A i \in DOMAIN config : /\ config[i][1] = "entries" => Inside(config, i)
                               /\ config[i][1] = "text" => ~ Inside(config, i)
  BY CommandsAssumption
<1> HIDE DEF Line, L
<1>3. CASE Places(config, BeginMarker) = {} /\ Places(config, EndMarker) = {}
  <2>1. Merged(config, block) = config \o block
    BY <1>3 DEF Merged, HasBlock
  <2>2. /\ config \o block \in Seq(Line)
        /\ Len(config \o block) = L + 3
        /\ \A i \in 1 .. L : (config \o block)[i] = config[i]
        /\ \A i \in 1 .. 3 : (config \o block)[L + i] = block[i]
    BY <1>1, BlockLines, Joined DEF L
  <2>3. \A i \in 1 .. L : /\ config[i] \notin {BeginMarker, EndMarker}
                          /\ config[i][1] # "entries"
    BY <1>1, <1>2, <1>3 DEF Places, Inside
  <2> DEFINE new == config \o block
  <2> HIDE DEF new
  <2>4. /\ new \in Seq(Line) /\ Len(new) = L + 3
        /\ \A i \in 1 .. L : new[i] = config[i]
        /\ \A i \in 1 .. 3 : new[L + i] = block[i]
    BY <2>2 DEF new
  <2>5. Replaces(new, config, block, L, L)
    BY <1>1, <2>3, <2>4 DEF Replaces, L, Line
  <2> QED BY <1>1, <2>1, <2>5 DEF new
<1>4. ASSUME NEW b \in DOMAIN config, NEW e \in DOMAIN config, b < e,
             Places(config, BeginMarker) = {b}, Places(config, EndMarker) = {e}
      PROVE  \E p, q \in Nat : Replaces(Merged(config, block), config, block, p, q)
  <2> DEFINE front == SubSeq(config, 1, b - 1)
             back == SubSeq(config, e + 1, L)
             new == (front \o block) \o back
  <2>1. Merged(config, block) = new
    <3>1. First(config, BeginMarker) = b /\ First(config, EndMarker) = e
      BY <1>1, <1>4, OnlyPlace
    <3>2. HasBlock(config) /\ First(config, BeginMarker) <= First(config, EndMarker)
      BY <1>1, <1>4, <3>1 DEF HasBlock
    <3> QED BY <3>1, <3>2 DEF Merged, L
  <2>2. /\ front \in Seq(Line) /\ Len(front) = b - 1
        /\ \A i \in 1 .. b - 1 : front[i] = config[i]
    BY <1>1, SubSeqProperties DEF L
  <2>3. /\ back \in Seq(Line) /\ Len(back) = L - e
        /\ \A i \in 1 .. L - e : back[i] = config[e + i]
    <3>1. \A i \in 1 .. L - e : (e + 1) + i - 1 = e + i
      BY <1>1
    <3> QED BY <1>1, <3>1, SubSeqProperties DEF L
  <2> HIDE DEF front, back
  <2>4. /\ front \o block \in Seq(Line) /\ Len(front \o block) = b + 2
        /\ \A i \in 1 .. b - 1 : (front \o block)[i] = config[i]
        /\ \A i \in 1 .. 3 : (front \o block)[b - 1 + i] = block[i]
    <3>1. Len(front) = b - 1 /\ Len(block) = 3 /\ (b - 1) + 3 = b + 2
      BY <1>1, <2>2, BlockLines
    <3>2. /\ front \o block \in Seq(Line) /\ Len(front \o block) = Len(front) + Len(block)
          /\ \A i \in 1 .. Len(front) : (front \o block)[i] = front[i]
          /\ \A i \in 1 .. Len(block) : (front \o block)[Len(front) + i] = block[i]
      <4>1. front \in Seq(Line) /\ block \in Seq(Line)
        BY <1>1, <2>2
      <4> QED BY <4>1, Joined
    <3> QED BY <2>2, <3>1, <3>2
  <2>5. /\ new \in Seq(Line) /\ Len(new) = b + 2 + (L - e)
        /\ \A i \in 1 .. b - 1 : new[i] = config[i]
        /\ \A i \in 1 .. 3 : new[b - 1 + i] = block[i]
        /\ \A i \in 1 .. L - e : new[b + 2 + i] = config[e + i]
    <3> DEFINE head == front \o block
    <3> HIDE DEF head
    <3>1. /\ head \in Seq(Line) /\ Len(head) = b + 2
          /\ \A i \in 1 .. b - 1 : head[i] = config[i]
          /\ \A i \in 1 .. 3 : head[b - 1 + i] = block[i]
      BY <2>4 DEF head
    <3>2. /\ head \o back \in Seq(Line) /\ Len(head \o back) = b + 2 + (L - e)
          /\ \A i \in 1 .. b + 2 : (head \o back)[i] = head[i]
          /\ \A i \in 1 .. L - e : (head \o back)[b + 2 + i] = back[i]
      <4>1. /\ head \o back \in Seq(Line) /\ Len(head \o back) = Len(head) + Len(back)
            /\ \A i \in 1 .. Len(head) : (head \o back)[i] = head[i]
            /\ \A i \in 1 .. Len(back) : (head \o back)[Len(head) + i] = back[i]
        <5>1. head \in Seq(Line) /\ back \in Seq(Line)
          BY <2>3, <3>1
        <5> QED BY <5>1, Joined
      <4> QED BY <2>3, <3>1, <4>1
    <3>3. /\ \A i \in 1 .. b - 1 : i \in 1 .. b + 2
          /\ \A i \in 1 .. 3 : b - 1 + i \in 1 .. b + 2
      BY <1>1
    <3> QED BY <2>3, <3>1, <3>2, <3>3 DEF head
  <2> HIDE DEF new
  <2>7. \A i \in 1 .. L : IF i <= b - 1 \/ i > e
                          THEN config[i] \notin {BeginMarker, EndMarker} /\ config[i][1] # "entries"
                          ELSE config[i][1] # "text"
    <3> SUFFICES ASSUME NEW i \in 1 .. L
                 PROVE  IF i <= b - 1 \/ i > e
                        THEN config[i] \notin {BeginMarker, EndMarker} /\ config[i][1] # "entries"
                        ELSE config[i][1] # "text"
      OBVIOUS
    <3>1. /\ config[i] = BeginMarker <=> i = b
          /\ config[i] = EndMarker <=> i = e
      BY <1>1, <1>4 DEF Places
    <3>2. Inside(config, i) <=> b < i /\ i < e
      BY <1>4 DEF Inside
    <3>3. BeginMarker[1] # "text" /\ EndMarker[1] # "text"
      BY DEF BeginMarker, EndMarker
    <3> QED BY <1>1, <1>2, <1>4, <3>1, <3>2, <3>3
  <2>8. \A i \in e + 1 .. L : new[i - e + (b - 1) + 3] = config[i]
    <3> TAKE i \in e + 1 .. L
    <3>1. i - e \in 1 .. L - e /\ b + 2 + (i - e) = i - e + (b - 1) + 3 /\ e + (i - e) = i
      BY <1>1
    <3>2. new[b + 2 + (i - e)] = config[e + (i - e)]
      BY <2>5, <3>1
    <3> QED BY <3>1, <3>2
  <2>9. Replaces(new, config, block, b - 1, e)
    BY <1>1, <1>4, <2>5, <2>7, <2>8 DEF Replaces, L, Line
  <2> QED BY <1>1, <2>1, <2>9
<1> QED BY <1>3, <1>4 DEF Updatable

(* Every file has its own lines.                                           *)
LEMMA SameAsItself ==
   ASSUME NEW kind, NEW lines
   PROVE  SameLines(kind, lines, lines)
<1> DEFINE K == Kind(lines, kind)
           move == [i \in K |-> i]
<1>1. move \in [K -> K] /\ \A i \in K : move[i] = i
  OBVIOUS
<1> HIDE DEF move
<1> QED BY <1>1 DEF SameLines

(* Where a line that stays moves to when lines p + 1 to e become three. *)
Shifted(i, p, e) == IF i <= p THEN i ELSE i - e + p + 3

Moved(new, config, p, e) ==
   /\ Places(new, BeginMarker) = {p + 1}
   /\ Places(new, EndMarker) = {p + 3}
   /\ Kind(new, "entries") = {p + 2}
   /\ \A i \in Kind(config, "text") : i <= p \/ i > e
   /\ \A i \in Kind(config, "text") : Shifted(i, p, e) \in Kind(new, "text")
   /\ \A k \in Kind(new, "text") :
         \E i \in Kind(config, "text") : k = Shifted(i, p, e)

(* The places of the markers and of the kinds of lines after a replacement.*)
LEMMA ReplacedLines ==
   ASSUME NEW new, NEW config, NEW block, NEW entries, NEW p \in Nat, NEW e \in Nat,
          block = Block(entries), config \in Seq(LinesOf(config)),
          Replaces(new, config, block, p, e)
   PROVE  Moved(new, config, p, e)
<1> DEFINE L == Len(config)
<1>1. L \in Nat /\ DOMAIN config = 1 .. L /\ DOMAIN new = 1 .. p + 3 + L - e
  BY LenProperties DEF Replaces
<1>2. /\ p \in 0 .. L /\ e \in p .. L
      /\ \A i \in 1 .. p : new[i] = config[i]
      /\ \A i \in e + 1 .. L : new[i - e + p + 3] = config[i]
      /\ new[p + 1] = block[1] /\ new[p + 2] = block[2] /\ new[p + 3] = block[3]
      /\ \A i \in 1 .. L :
            IF i <= p \/ i > e
            THEN config[i] \notin {BeginMarker, EndMarker} /\ config[i][1] # "entries"
            ELSE config[i][1] # "text"
  BY DEF Replaces
<1>3. ASSUME NEW i \in DOMAIN new
      PROVE  \/ i <= p /\ i \in DOMAIN config /\ new[i] = config[i]
             \/ i \in {p + 1, p + 2, p + 3}
             \/ \E k \in DOMAIN config : k > e /\ i = k - e + p + 3 /\ new[i] = config[k]
  <2>1. CASE i <= p
    BY <1>1, <1>2, <2>1
  <2>2. CASE i > p + 3
    <3> DEFINE k == i - p - 3 + e
    <3>1. i \in Nat /\ i <= p + 3 + L - e
      BY <1>1
    <3>2. k \in e + 1 .. L /\ i = k - e + p + 3
      <4> HIDE DEF L
      <4> QED BY <1>1, <2>2, <3>1
    <3>3. k \in DOMAIN config /\ k > e /\ new[i] = config[k]
      <4> HIDE DEF k
      <4> QED BY <1>1, <1>2, <3>2
    <3> QED BY <3>2, <3>3
  <2> QED BY <1>1, <1>2, <2>1, <2>2
<1>4. p + 1 \in DOMAIN new /\ p + 2 \in DOMAIN new /\ p + 3 \in DOMAIN new
  BY <1>1, <1>2
<1>5. ASSUME NEW i \in DOMAIN new, i \notin {p + 1, p + 2, p + 3}
      PROVE  new[i] \notin {BeginMarker, EndMarker} /\ new[i][1] # "entries"
  <2>1. \E k \in 1 .. L : (k <= p \/ k > e) /\ new[i] = config[k]
    BY <1>1, <1>3, <1>5
  <2> QED BY <1>2, <2>1
<1>6. /\ Places(new, BeginMarker) = {p + 1} /\ Places(new, EndMarker) = {p + 3}
      /\ Kind(new, "entries") = {p + 2}
  BY <1>2, <1>4, <1>5, BlockLines DEF Places, Kind
<1>7. \A i \in Kind(config, "text") : i \in 1 .. L /\ (i <= p \/ i > e)
  BY <1>1, <1>2 DEF Kind
<1>8. /\ \A i \in Kind(config, "text") : Shifted(i, p, e) \in Kind(new, "text")
      /\ \A k \in Kind(new, "text") : \E i \in Kind(config, "text") : k = Shifted(i, p, e)
  <2>1. ASSUME NEW i \in Kind(new, "text")
        PROVE  \E k \in Kind(config, "text") : i = Shifted(k, p, e)
    <3>1. i \in DOMAIN new /\ new[i][1] = "text"
      BY DEF Kind
    <3>2. i \notin {p + 1, p + 2, p + 3}
      BY <1>2, <3>1, BlockLines
    <3>3. CASE i <= p /\ i \in DOMAIN config /\ new[i] = config[i]
      BY <3>1, <3>3 DEF Kind, Shifted
    <3>4. CASE \E k \in DOMAIN config : k > e /\ i = k - e + p + 3 /\ new[i] = config[k]
      <4>1. PICK k \in DOMAIN config : k > e /\ i = k - e + p + 3 /\ new[i] = config[k]
        BY <3>4
      <4>2. k \in Kind(config, "text") /\ ~ (k <= p)
        BY <1>1, <1>2, <3>1, <4>1 DEF Kind
      <4> QED BY <4>1, <4>2 DEF Shifted
    <3> QED BY <1>3, <3>1, <3>2, <3>3, <3>4
  <2>2. ASSUME NEW k \in Kind(config, "text")
        PROVE  Shifted(k, p, e) \in Kind(new, "text")
    <3>1. k \in 1 .. L /\ config[k][1] = "text"
      BY <1>7 DEF Kind
    <3>2. CASE k <= p
      BY <1>1, <1>2, <3>1, <3>2 DEF Kind, Shifted
    <3>3. CASE k > e
      <4>1. k \in e + 1 .. L /\ k - e + p + 3 \in DOMAIN new /\ ~ (k <= p)
        BY <1>1, <1>2, <3>1, <3>3
      <4> QED BY <1>2, <3>1, <4>1 DEF Kind, Shifted
    <3> QED BY <1>7, <3>2, <3>3
  <2> QED BY <2>1, <2>2
<1> QED BY <1>6, <1>7, <1>8 DEF Moved

(* A merge keeps the operator's lines and their order, leaves no entry of  *)
(* an earlier export, and changes nothing when it is made again.           *)
LEMMA MergedWhole ==
   ASSUME NEW config \in Configs, Updatable(config), NEW entries,
          NEW block, block = Block(entries),
          NEW new, new = Merged(config, block)
   PROVE  /\ SameLines("text", config, new)
          /\ SameLines("entries", block, new)
          /\ Merged(new, block) = new
<1>0. config \in Seq(LinesOf(config)) /\ block \in Seq(LinesOf(block))
  BY CommandsAssumption, BlockLines DEF LinesOf
<1>1. PICK p \in Nat, e \in Nat : Replaces(new, config, block, p, e)
  BY MergedReplaces
<1>2. /\ Places(new, BeginMarker) = {p + 1} /\ Places(new, EndMarker) = {p + 3}
      /\ Kind(new, "entries") = {p + 2}
      /\ \A i \in Kind(config, "text") : i <= p \/ i > e
      /\ \A i \in Kind(config, "text") : Shifted(i, p, e) \in Kind(new, "text")
      /\ \A k \in Kind(new, "text") : \E i \in Kind(config, "text") : k = Shifted(i, p, e)
  <2>1. Moved(new, config, p, e)
    BY <1>0, <1>1, ReplacedLines
  <2> QED BY <2>1 DEF Moved
<1> DEFINE L == Len(config)
<1>3. /\ L \in Nat /\ DOMAIN config = 1 .. L
      /\ p \in 0 .. L /\ e \in p .. L
      /\ new \in Seq(LinesOf(config) \union LinesOf(block)) /\ Len(new) = p + 3 + L - e
      /\ \A i \in 1 .. p : new[i] = config[i]
      /\ \A i \in e + 1 .. L : new[i - e + p + 3] = config[i]
      /\ new[p + 1] = block[1] /\ new[p + 2] = block[2] /\ new[p + 3] = block[3]
  BY <1>0, <1>1, LenProperties DEF Replaces
<1> HIDE DEF L
<1>4. SameLines("text", config, new)
  <2> DEFINE T == Kind(config, "text")
             move == [i \in T |-> Shifted(i, p, e)]
  <2>1. \A i \in T : move[i] = Shifted(i, p, e)
    OBVIOUS
  <2>2. move \in [T -> Kind(new, "text")] /\ \A k \in Kind(new, "text") : \E i \in T : move[i] = k
    BY <1>2
  <2> HIDE DEF move
  <2>3. \A i \in T : i \in 1 .. L
    BY <1>3 DEF Kind
  <2>4. ASSUME NEW i \in T, NEW k \in T, i < k PROVE move[i] < move[k]
    <3>1. i \in 1 .. L /\ k \in 1 .. L
      BY <2>3
    <3>0. (i <= p \/ i > e) /\ (k <= p \/ k > e)
      BY <1>2
    <3>2. Shifted(i, p, e) < Shifted(k, p, e)
      <4> HIDE DEF T
      <4> QED BY <1>3, <2>4, <3>0, <3>1 DEF Shifted
    <3> QED BY <2>1, <3>2
  <2>5. \A i \in T : new[move[i]] = config[i]
    <3> TAKE i \in T
    <3>1. CASE i <= p
      BY <1>3, <2>1, <2>3, <3>1 DEF Shifted
    <3>2. CASE ~ (i <= p)
      <4>1. i \in e + 1 .. L
        BY <1>2, <1>3, <2>3, <3>2
      <4> QED BY <1>3, <2>1, <3>2, <4>1 DEF Shifted
    <3> QED BY <3>1, <3>2
  <2> QED BY <2>2, <2>4, <2>5 DEF SameLines
<1>5. SameLines("entries", block, new)
  <2> DEFINE E == Kind(block, "entries")
             move == [i \in E |-> p + 2]
  <2>1. E = {2}
    BY BlockLines DEF Kind
  <2>2. move \in [E -> Kind(new, "entries")] /\ \A i \in E : move[i] = p + 2
    BY <1>2
  <2> HIDE DEF move
  <2>3. \A i, k \in E : ~ (i < k)
    <3> HIDE DEF E
    <3> QED BY <2>1
  <2>4. /\ \A k \in Kind(new, "entries") : \E i \in E : move[i] = k
        /\ \A i \in E : new[move[i]] = block[i]
    <3> HIDE DEF E
    <3> QED BY <1>2, <1>3, <2>1, <2>2
  <2> QED BY <2>2, <2>3, <2>4 DEF SameLines
<1>6. Merged(new, block) = new
  <2> DEFINE S == LinesOf(config) \union LinesOf(block)
             front == SubSeq(new, 1, p)
             back == SubSeq(new, p + 4, Len(new))
             again == (front \o block) \o back
  <2>1. Merged(new, block) = again
    <3>1. First(new, BeginMarker) = p + 1 /\ First(new, EndMarker) = p + 3
      <4>1. p + 1 \in Nat /\ p + 3 \in Nat
        OBVIOUS
      <4> QED BY <1>2, <4>1, OnlyPlace
    <3>2. /\ HasBlock(new) /\ p + 1 <= p + 3
          /\ (p + 1) - 1 = p /\ (p + 3) + 1 = p + 4
      BY <1>2, <1>3 DEF HasBlock
    <3> QED BY <3>1, <3>2 DEF Merged
  <2>2. block \in Seq(S) /\ new \in Seq(S)
    <3>1. LinesOf(block) \subseteq S
      OBVIOUS
    <3> HIDE DEF S
    <3>2. block \in Seq(S)
      BY <1>0, <3>1, MoreLines
    <3> QED BY <1>3, <3>2 DEF S
  <2> DEFINE N == Len(new)
  <2>3. N \in Nat /\ N >= p + 3 /\ new \in [1 .. N -> S]
    BY <1>3, <2>2, LenProperties
  <2> HIDE DEF S, N
  <2>4. /\ front \in Seq(S) /\ Len(front) = p
        /\ \A i \in 1 .. p : front[i] = new[i]
    BY <1>3, <2>3, SubSeqProperties
  <2>5. /\ back \in Seq(S) /\ Len(back) = N - (p + 3)
        /\ \A i \in 1 .. N - (p + 3) : back[i] = new[p + 3 + i]
    <3>1. \A i \in 1 .. N - (p + 3) : (p + 4) + i - 1 = p + 3 + i
      BY <1>3, <2>3
    <3>2. \A i \in p + 4 .. N : new[i] \in S
      BY <1>3, <2>3
    <3>3. /\ p + 4 \in Int /\ N \in Int /\ N - (p + 4) + 1 = N - (p + 3)
          /\ (IF p + 4 <= N THEN N - (p + 4) + 1 ELSE 0) = N - (p + 3)
      BY <1>3, <2>3
    <3>4. /\ SubSeq(new, p + 4, N) \in Seq(S)
          /\ Len(SubSeq(new, p + 4, N)) = IF p + 4 <= N THEN N - (p + 4) + 1 ELSE 0
          /\ \A i \in 1 .. N - (p + 4) + 1 : SubSeq(new, p + 4, N)[i] = new[(p + 4) + i - 1]
      BY <3>2, <3>3, SubSeqProperties
    <3>5. back \in Seq(S) /\ Len(back) = N - (p + 3)
      BY <3>3, <3>4 DEF N
    <3>6. ASSUME NEW i \in 1 .. N - (p + 3) PROVE back[i] = new[p + 3 + i]
      <4>1. SubSeq(new, p + 4, N)[i] = new[(p + 4) + i - 1]
        BY <3>3, <3>4
      <4> QED BY <3>1, <4>1 DEF N
    <3> QED BY <3>5, <3>6
  <2> HIDE DEF front, back
  <2>6. /\ front \o block \in Seq(S) /\ Len(front \o block) = p + 3
        /\ \A i \in 1 .. p : (front \o block)[i] = new[i]
        /\ \A i \in 1 .. 3 : (front \o block)[p + i] = block[i]
    <3>1. /\ front \o block \in Seq(S) /\ Len(front \o block) = Len(front) + Len(block)
          /\ \A i \in 1 .. Len(front) : (front \o block)[i] = front[i]
          /\ \A i \in 1 .. Len(block) : (front \o block)[Len(front) + i] = block[i]
      <4>1. front \in Seq(S) /\ block \in Seq(S)
        BY <2>2, <2>4
      <4> QED BY <4>1, Joined
    <3>2. Len(front) = p /\ Len(block) = 3
      BY <2>4, BlockLines
    <3>3. /\ \A i \in 1 .. p : (front \o block)[i] = front[i]
          /\ \A i \in 1 .. 3 : (front \o block)[p + i] = block[i]
      BY <3>1, <3>2
    <3>4. /\ front \o block \in Seq(S) /\ Len(front \o block) = p + 3
          /\ \A i \in 1 .. p : front[i] = new[i]
      BY <2>4, <3>1, <3>2
    <3> QED BY <3>3, <3>4
  <2> DEFINE head == front \o block
  <2> HIDE DEF head
  <2>7. /\ head \in Seq(S) /\ Len(head) = p + 3
        /\ \A i \in 1 .. p + 3 : head[i] = new[i]
    <3>1. /\ head \in Seq(S) /\ Len(head) = p + 3
          /\ \A i \in 1 .. p : head[i] = new[i]
          /\ \A i \in 1 .. 3 : head[p + i] = block[i]
      BY <2>6 DEF head
    <3>2. head[p + 1] = new[p + 1] /\ head[p + 2] = new[p + 2] /\ head[p + 3] = new[p + 3]
      BY <1>3, <3>1
    <3>3. \A i \in 1 .. p + 3 : i \in 1 .. p \/ i = p + 1 \/ i = p + 2 \/ i = p + 3
      OBVIOUS
    <3> QED BY <3>1, <3>2, <3>3
  <2>8. /\ head \o back \in Seq(S) /\ Len(head \o back) = N
        /\ \A i \in 1 .. N : (head \o back)[i] = new[i]
    <3>1. /\ head \o back \in Seq(S) /\ Len(head \o back) = Len(head) + Len(back)
          /\ \A i \in 1 .. Len(head) : (head \o back)[i] = head[i]
          /\ \A i \in 1 .. Len(back) : (head \o back)[Len(head) + i] = back[i]
      <4>1. head \in Seq(S) /\ back \in Seq(S)
        BY <2>5, <2>7
      <4> QED BY <4>1, Joined
    <3>2. Len(head \o back) = N
      BY <1>3, <2>3, <2>5, <2>7, <3>1
    <3>3. ASSUME NEW i \in 1 .. N PROVE (head \o back)[i] = new[i]
      <4>1. CASE i <= p + 3
        BY <1>3, <2>7, <3>1, <4>1
      <4>2. CASE i > p + 3
        <5>1. PICK j \in 1 .. N - (p + 3) : p + 3 + j = i
          <6>1. i - (p + 3) \in 1 .. N - (p + 3) /\ p + 3 + (i - (p + 3)) = i
            BY <1>3, <2>3, <4>2
          <6> QED BY <6>1
        <5>a. \A k \in 1 .. N - (p + 3) : back[k] = new[p + 3 + k]
          BY <2>5
        <5>0. back[j] = new[p + 3 + j]
          BY <5>a
        <5>2. back[j] = new[i]
          BY <5>0, <5>1
        <5>3. (head \o back)[Len(head) + j] = back[j]
          BY <2>5, <3>1, <5>1
        <5>4. (head \o back)[p + 3 + j] = back[j]
          BY <2>7, <5>3
        <5> QED BY <5>1, <5>2, <5>4
      <4>3. i <= p + 3 \/ i > p + 3
        BY <2>3
      <4> QED BY <4>1, <4>2, <4>3
    <3> QED BY <3>1, <3>2, <3>3
  <2> DEFINE whole == head \o back
  <2> HIDE DEF whole
  <2>9. whole \in Seq(S) /\ Len(whole) = Len(new) /\ \A i \in 1 .. Len(whole) : whole[i] = new[i]
    BY <2>8 DEF whole, N
  <2>10. whole = new
    BY <2>2, <2>9, SeqEqual
  <2> QED BY <2>1, <2>10 DEF whole, head
<1> QED BY <1>4, <1>5, <1>6

-----------------------------------------------------------------------------
(***************************************************************************)
(*                            The commands                                 *)
(***************************************************************************)

Inventories == UNION {[D -> Servers] : D \in SUBSET Names}
KeyFields == Keys \union {NoKey}

AddCommands == [op : {"add"}, pc : {"secure", "test", "inject", "install", "probe", "save"},
                name : Names, next : {"test", "save"}, given : BOOLEAN,
                copied : BOOLEAN, target : KeyFields, record : Servers]
RemoveCommands == [op : {"remove"}, pc : {"confirm", "jobs", "delete", "clean"},
                   name : Names, keep : BOOLEAN, unread : BOOLEAN, old : KeyFields]
SetCommands == [op : {"set"}, pc : {"secure", "save", "clean"}, next : {"save"}, name : Names,
                copied : BOOLEAN, keep : BOOLEAN, old : KeyFields, record : [key : KeyFields]]
EditCommands == [op : {"edit"}, pc : {"save"}, name : Names, draft : Inventories]
RenameCommands == [op : {"rename"}, pc : {"entry", "jobs", "rollback"}, name : Names,
                   new : Names, hosting : [Jobs -> Hosts \union {NoJump}]]
SetupCommands == [op : {"setup"}, pc : {"pair", "install", "bind", "probe", "drop"},
                  name : Names, drop : BOOLEAN, given : BOOLEAN, record : Servers]

FilesTyped ==
   /\ servers \in Inventories
   /\ jobs \in [Jobs -> Names]
   /\ file \in [Paths -> Nat]
   /\ made \in Nat \ {0}

(* Until it saves, an add has the password it was given; what it saves     *)
(* without logs in without. Its jump host is in the inventory.             *)
AddOK ==
   cmd.op = "add" =>
      /\ cmd \in AddCommands
      /\ cmd.record.jump \in DOMAIN servers \union {NoJump}
      /\ IF cmd.pc = "save"
         THEN cmd.given /\ ~ cmd.record.password => Login(cmd.record)
         ELSE cmd.record.password = cmd.given

(* Nobody jumps through an entry about to be removed, if that could be     *)
(* read; a key is cleaned up when its entry is gone, or names another path.*)
(* A key that is to be copied is there.                                    *)
RemoveOK ==
   cmd.op = "remove" =>
      /\ cmd \in RemoveCommands
      /\ cmd.pc # "clean" =>
            /\ cmd.name \in DOMAIN servers
            /\ cmd.unread \/ Dependents(servers, cmd.name) = {}
      /\ cmd.pc = "clean" => cmd.name \notin DOMAIN servers
SetOK ==
   cmd.op = "set" =>
      /\ cmd \in SetCommands
      /\ cmd.pc = "secure" /\ cmd.record.key # NoKey => file[cmd.record.key[2]] # 0
      /\ cmd.pc = "clean" => cmd.name \in DOMAIN servers /\ servers[cmd.name].key # cmd.old

(* Between the two files a job that had a host has it under the old name   *)
(* in the job and the new one in the inventory.                            *)
RenameOK ==
   cmd.op = "rename" =>
      /\ cmd \in RenameCommands
      /\ cmd.pc = "entry" =>
            /\ cmd.name \in DOMAIN servers /\ cmd.new \notin DOMAIN servers
            /\ \A j \in Jobs : cmd.hosting[j] = Hosting(j)
      /\ cmd.pc # "entry" =>
            /\ cmd.name \notin DOMAIN servers /\ cmd.new \in DOMAIN servers
            /\ \A j \in Jobs : cmd.hosting[j] # NoJump =>
                  IF jobs[j] = cmd.name
                  THEN servers[cmd.new].host = cmd.hosting[j]
                  ELSE /\ jobs[j] \in DOMAIN servers \ {cmd.new}
                       /\ servers[jobs[j]].host = cmd.hosting[j]

SetupOK ==
   cmd.op = "setup" =>
      /\ cmd \in SetupCommands
      /\ cmd.name \in DOMAIN servers
      /\ cmd.record.jump = servers[cmd.name].jump
      /\ cmd.pc # "drop" => cmd.record.password
      /\ cmd.pc = "drop" => Login(cmd.record)

(* What an export has read is in the file until it is replaced, and in the *)
(* copy, or back in the file, afterwards.                                  *)
ExportOK ==
   cmd.op = "export" =>
      /\ {"op", "pc", "before", "config", "backup", "block"} \subseteq DOMAIN cmd
      /\ cmd.pc \in {"merge", "rename", "retry", "torn", "written"}
      /\ cmd.before \in Configs
      /\ cmd.block = Block(cmd.block[2][2])
      /\ cmd.pc \in {"merge", "rename"} => cmd.config = cmd.before
      /\ cmd.pc \in {"rename", "retry", "written"} => Updatable(cmd.before)
      /\ cmd.pc = "retry" => cmd.backup = cmd.before
      /\ cmd.pc = "torn" => cmd.before \in {cmd.config, cmd.backup}
      /\ cmd.pc = "written" => cmd.config = Merged(cmd.before, cmd.block)

CommandOK ==
   /\ cmd.op \in {"none", "add", "remove", "set", "edit", "export", "rename", "setup"}
   /\ cmd.op = "none" => cmd = Idle
   /\ AddOK /\ RemoveOK /\ SetOK /\ RenameOK /\ SetupOK /\ ExportOK
   /\ cmd.op = "edit" => cmd \in EditCommands

CommandInv == FilesTyped /\ CommandOK

-----------------------------------------------------------------------------
(* Types *)

LEMMA InventoryTypes ==
   ASSUME NEW inv \in Inventories
   PROVE  /\ DOMAIN inv \subseteq Names
          /\ inv \in [DOMAIN inv -> Servers]
          /\ \A n \in DOMAIN inv :
                /\ inv[n] \in Servers
                /\ inv[n].jump \in Names \union {NoJump} /\ inv[n].host \in Hosts
                /\ inv[n].key \in KeyFields /\ inv[n].password \in BOOLEAN
<1>1. DOMAIN inv \subseteq Names /\ inv \in [DOMAIN inv -> Servers]
  BY DEF Inventories
<1>2. \A n \in DOMAIN inv : inv[n] \in Servers
  BY <1>1
<1> QED BY <1>1, <1>2 DEF Servers, KeyFields

LEMMA IsInventory ==
   ASSUME NEW D \in SUBSET Names, NEW inv \in [D -> Servers]
   PROVE  inv \in Inventories
BY DEF Inventories

LEMMA PathTypes ==
   /\ Own \in Paths /\ Outside \in Paths
   /\ \A n \in Names : Gen(n) \in Paths /\ Copy(n) \in Paths
   /\ \A path \in Paths : Home(path) \in KeyFields
   /\ \A key \in KeyFields \ {NoKey} : key[2] \in Paths
<1>1. /\ Own \in Paths /\ Outside \in Paths
      /\ \A n \in Names : Gen(n) \in Paths /\ Copy(n) \in Paths
  BY DEF Paths, Managed, Own, Outside, Gen, Copy
<1>2. \A path \in Paths : Home(path) \in Keys
  BY DEF Keys, Home, Spellings
<1>3. \A key \in Keys : key[2] \in Paths
  BY DEF Keys
<1> QED BY <1>1, <1>2, <1>3 DEF KeyFields

(* Every write to the inventory makes an inventory.                        *)
LEMMA SavedTypes ==
   ASSUME NEW inv \in Inventories, NEW n \in Names, NEW record \in Servers
   PROVE  /\ Saved(inv, n, record) \in Inventories
          /\ DOMAIN Saved(inv, n, record) = DOMAIN inv \union {n}
          /\ Saved(inv, n, record)[n] = record
          /\ \A m \in DOMAIN inv \ {n} : Saved(inv, n, record)[m] = inv[m]
<1>1. DOMAIN inv \union {n} \in SUBSET Names
  BY InventoryTypes
<1>2. Saved(inv, n, record) \in [DOMAIN inv \union {n} -> Servers]
  BY InventoryTypes DEF Saved
<1>3. Saved(inv, n, record) \in Inventories
  BY <1>1, <1>2, IsInventory
<1> QED BY <1>3 DEF Saved

LEMMA DeletedTypes ==
   ASSUME NEW inv \in Inventories, NEW n
   PROVE  /\ Deleted(inv, n) \in Inventories
          /\ DOMAIN Deleted(inv, n) = DOMAIN inv \ {n}
          /\ \A m \in DOMAIN inv \ {n} : Deleted(inv, n)[m] = inv[m]
<1>1. DOMAIN inv \ {n} \in SUBSET Names
  BY InventoryTypes
<1>2. Deleted(inv, n) \in [DOMAIN inv \ {n} -> Servers]
  BY InventoryTypes DEF Deleted
<1>3. Deleted(inv, n) \in Inventories
  BY <1>1, <1>2, IsInventory
<1> QED BY <1>3 DEF Deleted

(* The name that the entry n has had before a rename.                      *)
Former(n, old, new) == IF n = new THEN old ELSE n

(* The jump host of an entry whose jump host has been jump.                *)
NewJump(jump, old, new) == IF jump = old THEN new ELSE jump

(* A rename keeps all hosts, and every jump host under its name.           *)
LEMMA RenamedTypes ==
   ASSUME NEW inv \in Inventories, NEW old \in DOMAIN inv, NEW new \in Names \ DOMAIN inv
   PROVE  /\ Renamed(inv, old, new) \in Inventories
          /\ DOMAIN Renamed(inv, old, new) = (DOMAIN inv \ {old}) \union {new}
          /\ \A n \in (DOMAIN inv \ {old}) \union {new} :
                /\ Renamed(inv, old, new)[n].host = inv[Former(n, old, new)].host
                /\ Renamed(inv, old, new)[n].jump = NewJump(inv[Former(n, old, new)].jump, old, new)
<1> DEFINE D == (DOMAIN inv \ {old}) \union {new}
           from(n) == Former(n, old, new)
           moved(n) == IF inv[from(n)].jump = old THEN [inv[from(n)] EXCEPT !.jump = new]
                       ELSE inv[from(n)]
<1>1. D \in SUBSET Names
  BY InventoryTypes
<1>2. \A n \in D : from(n) \in DOMAIN inv
  BY DEF Former
<1>3. ASSUME NEW n \in D
      PROVE  /\ moved(n) \in Servers
             /\ moved(n).host = inv[from(n)].host
             /\ moved(n).jump = NewJump(inv[from(n)].jump, old, new)
  <2> DEFINE r == inv[from(n)]
  <2>1. r \in Servers /\ new \in Names
    BY <1>2, InventoryTypes
  <2> HIDE DEF r
  <2>2. /\ [r EXCEPT !.jump = new] \in Servers
        /\ [r EXCEPT !.jump = new].host = r.host
        /\ [r EXCEPT !.jump = new].jump = new
    BY <2>1 DEF Servers
  <2> QED BY <2>1, <2>2 DEF r, NewJump
<1>4. Renamed(inv, old, new) = [n \in D |-> moved(n)]
  BY DEF Renamed, Former
<1> HIDE DEF moved
<1>5. Renamed(inv, old, new) \in [D -> Servers]
  BY <1>3, <1>4
<1>6. Renamed(inv, old, new) \in Inventories
  BY <1>1, <1>5, IsInventory
<1>7. \A n \in D : Renamed(inv, old, new)[n] = moved(n)
  BY <1>4
<1> QED BY <1>3, <1>5, <1>6, <1>7

-----------------------------------------------------------------------------
(* The steps *)

LEMMA Idles ==
   ASSUME FilesTyped', cmd' = Idle
   PROVE  CommandInv'
<1>1. cmd'.op = "none"
  BY DEF Idle
<1> QED BY <1>1 DEF CommandInv, CommandOK, AddOK, RemoveOK, SetOK, RenameOK, SetupOK, ExportOK

LEMMA CommandInit == InitCommands => CommandInv
<1> SUFFICES ASSUME InitCommands PROVE CommandInv
  OBVIOUS
<1>1. PICK start \in Starts :
         LET used(p) == \E n \in DOMAIN start.servers :
                           start.servers[n].key # NoKey /\ start.servers[n].key[2] = p
         IN  /\ servers = start.servers
             /\ jobs = start.jobs
             /\ file = [p \in Paths |-> IF p = Own THEN start.own
                                       ELSE IF p = Outside \/ used(p) THEN 2 ELSE 0]
  BY DEF InitCommands
<1>s. StartTypeOK(start)
  BY CommandsAssumption
<1>2. servers \in Inventories
  BY <1>1, <1>s, IsInventory DEF StartTypeOK
<1>3. jobs \in [Jobs -> Names]
  BY <1>1, <1>s DEF StartTypeOK
<1>4. file \in [Paths -> Nat]
  BY <1>1, <1>s DEF StartTypeOK
<1>5. FilesTyped /\ cmd = Idle
  BY <1>2, <1>3, <1>4 DEF FilesTyped, InitCommands
<1>6. cmd.op = "none"
  BY <1>5 DEF Idle
<1> QED BY <1>5, <1>6 DEF CommandInv, CommandOK, AddOK, RemoveOK, SetOK, RenameOK, SetupOK, ExportOK

(* A command that has started, or goes on, with nothing else changed. *)
LEMMA KeptFiles ==
   ASSUME CommandInv, UNCHANGED <<servers, jobs, file, made>>
   PROVE  FilesTyped'
BY DEF CommandInv, FilesTyped

LEMMA PairTypes ==
   ASSUME FilesTyped, NEW path \in Paths, EnsureKeyPair(path)
   PROVE  /\ file' \in [Paths -> Nat] /\ made' \in Nat \ {0}
          /\ \A p \in Paths : file[p] # 0 => file'[p] = file[p]
<1>1. CASE UNCHANGED <<file, made>>
  BY <1>1 DEF FilesTyped
<1>2. CASE /\ file[path] = 0
           /\ made' = made + 1
           /\ file' = [file EXCEPT ![path] = made']
  BY <1>2 DEF FilesTyped
<1> QED BY <1>1, <1>2 DEF EnsureKeyPair

(* While an add runs only its own invariant says anything. *)
LEMMA AddGoesOn ==
   ASSUME FilesTyped', AddOK', cmd'.op = "add"
   PROVE  CommandInv'
BY DEF CommandInv, CommandOK, RemoveOK, SetOK, RenameOK, SetupOK, ExportOK
LEMMA RemoveGoesOn ==
   ASSUME FilesTyped', RemoveOK', cmd'.op = "remove"
   PROVE  CommandInv'
BY DEF CommandInv, CommandOK, AddOK, SetOK, RenameOK, SetupOK, ExportOK
LEMMA SetGoesOn ==
   ASSUME FilesTyped', SetOK', cmd'.op = "set"
   PROVE  CommandInv'
BY DEF CommandInv, CommandOK, AddOK, RemoveOK, RenameOK, SetupOK, ExportOK
LEMMA RenameGoesOn ==
   ASSUME FilesTyped', RenameOK', cmd'.op = "rename"
   PROVE  CommandInv'
BY DEF CommandInv, CommandOK, AddOK, RemoveOK, SetOK, SetupOK, ExportOK
LEMMA SetupGoesOn ==
   ASSUME FilesTyped', SetupOK', cmd'.op = "setup"
   PROVE  CommandInv'
BY DEF CommandInv, CommandOK, AddOK, RemoveOK, SetOK, RenameOK, ExportOK
LEMMA ExportGoesOn ==
   ASSUME FilesTyped', ExportOK', cmd'.op = "export"
   PROVE  CommandInv'
BY DEF CommandInv, CommandOK, AddOK, RemoveOK, SetOK, RenameOK, SetupOK

LEMMA AddSteps ==
   ASSUME CommandInv,
          \/ StartAdd \/ (SecureKey /\ cmd.op = "add") \/ AddTest
          \/ Inject \/ InjectInstall \/ InjectProbe \/ AddSave
   PROVE  CommandInv'
<1>t. FilesTyped /\ AddOK /\ file \in [Paths -> Nat] /\ servers \in Inventories
      /\ jobs \in [Jobs -> Names] /\ made \in Nat \ {0}
  BY DEF CommandInv, CommandOK, FilesTyped
<1>1. CASE StartAdd
  <2>1. PICK n \in Names, h \in Hosts, key \in Given, pw, tested \in BOOLEAN,
             jump \in {NoJump} \union DOMAIN servers :
          LET record == [jump |-> jump, host |-> h, key |-> key, password |-> pw] IN
          /\ Valid(n, record)
          /\ Start([op |-> "add", pc |-> "secure", name |-> n,
                    next |-> IF tested THEN "test" ELSE "save",
                    given |-> pw, copied |-> FALSE, target |-> NoKey, record |-> record])
    BY <1>1 DEF StartAdd
  <2> DEFINE r == [jump |-> jump, host |-> h, key |-> key, password |-> pw]
           next == IF tested THEN "test" ELSE "save"
  <2>k. key \in Keys \union {NoKey}
    BY CommandsAssumption DEF Given, Keys
  <2>2. r \in Servers /\ r.jump \in DOMAIN servers \union {NoJump} /\ r.password = pw
    BY <1>t, <2>k, InventoryTypes DEF Servers
  <2> HIDE DEF r
  <2>3. cmd' = [op |-> "add", pc |-> "secure", name |-> n, next |-> next,
                given |-> pw, copied |-> FALSE, target |-> NoKey, record |-> r]
    BY <2>1 DEF Start, r
  <2>4. cmd' \in AddCommands
    BY <2>2, <2>3 DEF AddCommands, KeyFields
  <2>5. FilesTyped' /\ servers' = servers
    BY <2>1, KeptFiles DEF Start, world, keys
  <2>6. AddOK'
    BY <2>2, <2>3, <2>4, <2>5 DEF AddOK
  <2> QED BY <2>3, <2>5, <2>6, AddGoesOn
<1> SUFFICES ASSUME \/ (SecureKey /\ cmd.op = "add") \/ AddTest
                    \/ Inject \/ InjectInstall \/ InjectProbe \/ AddSave
             PROVE  CommandInv'
  BY <1>1
<1>a. /\ cmd.op = "add"
      /\ cmd \in AddCommands
      /\ cmd.record.jump \in DOMAIN servers \union {NoJump}
      /\ cmd.pc # "save" => cmd.record.password = cmd.given
  BY <1>t DEF AddOK, SecureKey, AddTest, Inject, InjectInstall, InjectProbe, AddSave, At
<1>r. cmd.record \in Servers /\ cmd.name \in Names
  BY <1>a DEF AddCommands
<1>p. cmd.record.key \in KeyFields /\ Copy(cmd.name) \in Paths /\ Gen(cmd.name) \in Paths
      /\ Own \in Paths /\ Outside \in Paths
  BY <1>r, PathTypes DEF Servers, KeyFields
(* The tail shared by the steps that only go on, to pc, with one record. *)
<1>g. ASSUME NEW pc \in {"test", "inject", "install", "probe", "save"}, Goto(pc),
             cmd.pc # "save", FilesTyped', servers' = servers
      PROVE  CommandInv'
  <2>1. /\ cmd' \in AddCommands /\ cmd'.op = "add" /\ cmd'.pc = pc
        /\ cmd'.record = cmd.record /\ cmd'.given = cmd.given
    BY <1>a, <1>g DEF Goto, AddCommands
  <2>2. AddOK'
    BY <1>a, <1>g, <2>1 DEF AddOK
  <2> QED BY <1>g, <2>1, <2>2, AddGoesOn
<1>d. ASSUME DiscardCopy PROVE file' \in [Paths -> Nat]
  BY <1>t, <1>p, <1>d DEF DiscardCopy, DeleteKey, keys
<1>2. CASE SecureKey
  <2>0. cmd.pc = "secure" /\ UNCHANGED <<servers, jobs, authorized, counters>>
    BY <1>2 DEF SecureKey
  <2>1. CASE /\ file' = [file EXCEPT ![Copy(cmd.name)] = file[Outside]]
             /\ cmd' = [cmd EXCEPT !.record.key = Home(Copy(cmd.name)), !.copied = TRUE,
                                   !.pc = cmd.next]
    <3>1. FilesTyped'
      BY <1>t, <1>p, <2>0, <2>1 DEF FilesTyped, counters, keys
    <3> DEFINE r == [cmd.record EXCEPT !.key = Home(Copy(cmd.name))]
    <3>k. Home(Copy(cmd.name)) \in Keys \union {NoKey}
      BY <1>p, PathTypes DEF KeyFields
    <3>2. r \in Servers /\ r.jump = cmd.record.jump /\ r.password = cmd.record.password
      BY <1>r, <3>k DEF Servers
    <3>3. /\ cmd' = [op |-> "add", pc |-> cmd.next, name |-> cmd.name, next |-> cmd.next,
                     given |-> cmd.given, copied |-> TRUE, target |-> cmd.target, record |-> r]
      BY <1>a, <2>1 DEF AddCommands
    <3> HIDE DEF r
    <3>4. cmd.next \in {"test", "save"}
      BY <1>a DEF AddCommands
    <3>5. cmd' \in AddCommands
      BY <1>a, <3>2, <3>3, <3>4 DEF AddCommands
    <3>6. AddOK'
      BY <1>a, <2>0, <3>2, <3>3, <3>5 DEF AddOK
    <3> QED BY <3>1, <3>3, <3>6, AddGoesOn
  <2>2. CASE Goto(cmd.next) /\ UNCHANGED <<file, outcome>>
    <3>1. FilesTyped'
      BY <2>0, <2>2, KeptFiles DEF world, keys, counters
    <3>2. cmd.next \in {"test", "save"}
      BY <1>a DEF AddCommands
    <3> QED BY <1>g, <2>0, <2>2, <3>1, <3>2
  <2>3. CASE Finish("failed") /\ UNCHANGED file
    <3>1. FilesTyped'
      BY <2>0, <2>3, KeptFiles DEF world, keys, counters
    <3> QED BY <2>3, <3>1, Idles DEF Finish
  <2> QED BY <1>2, <2>1, <2>2, <2>3 DEF SecureKey
<1>3. CASE AddTest
  <2>0. At("add", "test") /\ UNCHANGED <<servers, jobs, authorized, counters>>
    BY <1>3 DEF AddTest
  <2>1. CASE UNCHANGED <<keys, outcome>> /\ \E pc \in {"inject", "save"} : Goto(pc)
    <3>1. FilesTyped'
      BY <2>0, <2>1, KeptFiles DEF world, keys, counters
    <3> QED BY <1>g, <2>0, <2>1, <3>1 DEF At
  <2>2. CASE DiscardCopy /\ Finish("failed")
    <3>1. FilesTyped'
      BY <1>t, <1>d, <2>0, <2>2 DEF FilesTyped, counters, keys
    <3> QED BY <2>2, <3>1, Idles DEF Finish
  <2> QED BY <1>3, <2>1, <2>2 DEF AddTest
<1>4. CASE Inject
  <2>0. At("add", "inject") /\ UNCHANGED <<servers, jobs, authorized, outcome, commands>>
    BY <1>4 DEF Inject
  <2> DEFINE path == IF file[Own] # 0 /\ public[Own] # 0 THEN Own ELSE Gen(cmd.name)
  <2>p. path \in Paths
    BY <1>p
  <2>c. (EnsureKeyPair(path) /\ cmd' = [cmd EXCEPT !.target = Home(path), !.pc = "install"])
        \/ (Goto("save") /\ UNCHANGED <<keys, made>>)
    BY <1>4 DEF Inject
  <2> HIDE DEF path
  <2>1. CASE EnsureKeyPair(path) /\ cmd' = [cmd EXCEPT !.target = Home(path), !.pc = "install"]
    <3>1. FilesTyped'
      BY <1>t, <2>0, <2>1, <2>p, PairTypes DEF FilesTyped
    <3>2. /\ cmd' \in AddCommands /\ cmd'.op = "add" /\ cmd'.pc = "install"
          /\ cmd'.record = cmd.record /\ cmd'.given = cmd.given
      <4>1. Home(path) \in KeyFields
        BY <2>p, PathTypes
      <4> QED BY <1>a, <2>1, <4>1 DEF AddCommands
    <3>3. AddOK'
      BY <1>a, <2>0, <3>2 DEF AddOK, At
    <3> QED BY <3>1, <3>2, <3>3, AddGoesOn
  <2>2. CASE Goto("save") /\ UNCHANGED <<keys, made>>
    <3>1. FilesTyped'
      BY <2>0, <2>2, KeptFiles DEF world, keys
    <3> QED BY <1>g, <2>0, <2>2, <3>1 DEF At
  <2> QED BY <2>c, <2>1, <2>2
<1>5. CASE InjectInstall
  <2>1. FilesTyped' /\ servers' = servers
    BY <1>5, <1>t DEF InjectInstall, FilesTyped, counters, keys
  <2>2. cmd.pc # "save" /\ \E pc \in {"probe", "save"} : Goto(pc)
    BY <1>5 DEF InjectInstall, At
  <2> QED BY <1>g, <2>1, <2>2
<1>6. CASE InjectProbe
  <2>0. /\ cmd.pc = "probe" /\ UNCHANGED <<world, outcome, counters>>
    BY <1>6 DEF InjectProbe, At
  <2>1. FilesTyped' /\ UNCHANGED <<servers, file, authorized>>
    BY <2>0, KeptFiles DEF world, keys, counters
  <2> DEFINE upgraded == [cmd.record EXCEPT !.key = cmd.target, !.password = FALSE]
  <2>c. (Login(upgraded) /\ cmd' = [cmd EXCEPT !.record = upgraded, !.pc = "save"]) \/ Goto("save")
    BY <1>6 DEF InjectProbe
  <2>2. CASE Login(upgraded) /\ cmd' = [cmd EXCEPT !.record = upgraded, !.pc = "save"]
    <3>1. cmd.target \in KeyFields
      BY <1>a DEF AddCommands
    <3>2. upgraded \in Servers /\ upgraded.jump = cmd.record.jump
      BY <1>r, <3>1 DEF Servers, KeyFields
    <3> HIDE DEF upgraded
    <3>3. /\ cmd' \in AddCommands /\ cmd'.op = "add" /\ cmd'.record = upgraded
      BY <1>a, <2>2, <3>2 DEF AddCommands
    <3>4. Login(cmd.record)'
      BY <2>1, <2>2, <3>3 DEF Login, KeyWorks, AgentWorks
    <3>5. cmd'.record.jump \in DOMAIN servers' \union {NoJump} /\ cmd'.pc = "save"
      BY <1>a, <2>1, <2>2, <3>2, <3>3 DEF AddCommands
    <3>6. AddOK'
      BY <3>3, <3>4, <3>5 DEF AddOK
    <3> QED BY <2>1, <3>3, <3>6, AddGoesOn
  <2>3. CASE Goto("save")
    BY <1>g, <2>0, <2>1, <2>3
  <2> QED BY <2>c, <2>2, <2>3
<1>7. CASE AddSave
  <2>0. UNCHANGED <<jobs, authorized, counters>>
    BY <1>7 DEF AddSave
  <2>1. CASE /\ servers' = Saved(servers, cmd.name, cmd.record)
             /\ Finish("ok") /\ UNCHANGED keys
    <3>1. servers' \in Inventories
      BY <1>t, <1>r, <2>1, SavedTypes
    <3>2. FilesTyped'
      BY <1>t, <2>0, <2>1, <3>1 DEF FilesTyped, counters, keys
    <3> QED BY <2>1, <3>2, Idles DEF Finish
  <2>2. CASE DiscardCopy /\ Finish("failed") /\ UNCHANGED servers
    <3>1. FilesTyped'
      BY <1>t, <1>d, <2>0, <2>2 DEF FilesTyped, counters, keys
    <3> QED BY <2>2, <3>1, Idles DEF Finish
  <2> QED BY <1>7, <2>1, <2>2 DEF AddSave
<1> QED BY <1>2, <1>3, <1>4, <1>5, <1>6, <1>7

LEMMA RemoveSteps ==
   ASSUME CommandInv,
          StartRemove \/ ConfirmRemoval \/ RemoveEntry
   PROVE  CommandInv'
<1>t. FilesTyped /\ RemoveOK /\ file \in [Paths -> Nat] /\ servers \in Inventories
      /\ jobs \in [Jobs -> Names] /\ made \in Nat \ {0}
  BY DEF CommandInv, CommandOK, FilesTyped
<1>1. CASE StartRemove
  <2>1. PICK n \in DOMAIN servers, keep, unread \in BOOLEAN :
          /\ unread \/ Dependents(servers, n) = {}
          /\ Start([op |-> "remove", pc |-> "confirm", name |-> n, keep |-> keep,
                    unread |-> unread, old |-> servers[n].key])
    BY <1>1 DEF StartRemove
  <2>2. FilesTyped' /\ servers' = servers
    BY <2>1, KeptFiles DEF Start, world, keys
  <2>3. n \in Names /\ servers[n].key \in KeyFields
    BY <1>t, InventoryTypes
  <2>4. /\ cmd' \in RemoveCommands /\ cmd'.op = "remove" /\ cmd'.pc = "confirm"
        /\ cmd'.name = n /\ cmd'.unread = unread
    BY <2>1, <2>3 DEF Start, RemoveCommands
  <2>5. RemoveOK'
    BY <2>1, <2>2, <2>4 DEF RemoveOK
  <2> QED BY <2>2, <2>4, <2>5, RemoveGoesOn
<1> SUFFICES ASSUME ConfirmRemoval \/ RemoveEntry
             PROVE  CommandInv'
  BY <1>1
<1>a. /\ cmd.op = "remove" /\ cmd \in RemoveCommands
      /\ cmd.pc # "clean" => /\ cmd.name \in DOMAIN servers
                             /\ cmd.unread \/ Dependents(servers, cmd.name) = {}
  BY <1>t DEF RemoveOK, ConfirmRemoval, RemoveEntry, At
<1>g. ASSUME NEW pc \in {"jobs", "delete", "clean"}, Goto(pc)
      PROVE  /\ cmd' \in RemoveCommands /\ cmd'.op = "remove" /\ cmd'.pc = pc
             /\ cmd'.name = cmd.name /\ cmd'.unread = cmd.unread
  BY <1>a, <1>g DEF Goto, RemoveCommands
<1>2. CASE ConfirmRemoval
  <2>1. FilesTyped' /\ servers' = servers
    BY <1>2, KeptFiles DEF ConfirmRemoval, world, keys, counters
  <2>2. CASE cmd.pc \in {"confirm", "jobs"} /\ \E pc \in {"jobs", "delete"} : Goto(pc)
    <3>1. PICK pc \in {"jobs", "delete"} : Goto(pc)
      BY <2>2
    <3>2. RemoveOK'
      BY <1>a, <1>g, <2>1, <2>2, <3>1 DEF RemoveOK
    <3> QED BY <1>g, <2>1, <3>1, <3>2, RemoveGoesOn
  <2>3. CASE Finish("failed")
    BY <2>1, <2>3, Idles DEF Finish
  <2> QED BY <1>2, <2>2, <2>3 DEF ConfirmRemoval
<1>3. CASE RemoveEntry
  <2>1. CASE servers' = Deleted(servers, cmd.name) /\ Goto("clean")
    <3>1. servers' \in Inventories /\ cmd.name \notin DOMAIN servers'
      BY <1>t, <2>1, DeletedTypes
    <3>2. FilesTyped'
      BY <1>3, <1>t, <3>1 DEF RemoveEntry, FilesTyped, counters, keys
    <3>3. RemoveOK'
      BY <1>g, <2>1, <3>1 DEF RemoveOK
    <3> QED BY <1>g, <2>1, <3>2, <3>3, RemoveGoesOn
  <2>2. CASE Finish("failed") /\ UNCHANGED servers
    <3>1. FilesTyped'
      BY <1>3, <1>t, <2>2 DEF RemoveEntry, FilesTyped, counters, keys
    <3> QED BY <2>2, <3>1, Idles DEF Finish
  <2> QED BY <1>3, <2>1, <2>2 DEF RemoveEntry
<1> QED BY <1>2, <1>3

(* A key is cleaned up only after its entry is gone or names another path. *)
LEMMA CleaningOps ==
   ASSUME CommandInv, cmd.pc = "clean"
   PROVE  /\ cmd.op \in {"remove", "set"}
          /\ cmd.old \in KeyFields
          /\ cmd.name \in DOMAIN servers => cmd.op = "set" /\ servers[cmd.name].key # cmd.old
BY DEF CommandInv, CommandOK, AddOK, RemoveOK, SetOK, RenameOK, SetupOK, ExportOK, Idle,
       AddCommands, RemoveCommands, SetCommands, EditCommands, RenameCommands, SetupCommands

LEMMA CleanStep ==
   ASSUME CommandInv, CleanKey
   PROVE  CommandInv'
<1>1. file' \in [Paths -> Nat]
  BY DEF CommandInv, FilesTyped, CleanKey, DeleteKey, keys
<1>2. FilesTyped'
  BY <1>1 DEF CommandInv, FilesTyped, CleanKey, counters, keys
<1> QED BY <1>2, Idles DEF CleanKey, Finish

LEMMA SetSteps ==
   ASSUME CommandInv, StartSet \/ (SecureKey /\ cmd.op = "set") \/ SetSave
   PROVE  CommandInv'
<1>t. FilesTyped /\ SetOK /\ file \in [Paths -> Nat] /\ servers \in Inventories
      /\ jobs \in [Jobs -> Names] /\ made \in Nat \ {0}
  BY DEF CommandInv, CommandOK, FilesTyped
<1>1. CASE StartSet
  <2>1. PICK n \in Names, key \in Given :
          Start([op |-> "set", pc |-> "secure", next |-> "save", name |-> n, copied |-> FALSE,
                 keep |-> FALSE, old |-> NoKey, record |-> [key |-> key]])
    BY <1>1 DEF StartSet
  <2>2. FilesTyped' /\ file' = file
    BY <2>1, KeptFiles DEF Start, world, keys
  <2>3. key \in KeyFields /\ (key # NoKey => file[key[2]] # 0)
    BY CommandsAssumption DEF Given, Keys, KeyFields
  <2>4. /\ cmd' \in SetCommands /\ cmd'.op = "set" /\ cmd'.pc = "secure"
        /\ cmd'.record.key = key
    BY <2>1, <2>3 DEF Start, SetCommands, KeyFields
  <2>5. SetOK'
    BY <2>2, <2>3, <2>4 DEF SetOK
  <2> QED BY <2>2, <2>4, <2>5, SetGoesOn
<1> SUFFICES ASSUME (SecureKey /\ cmd.op = "set") \/ SetSave
             PROVE  CommandInv'
  BY <1>1
<1>a. /\ cmd.op = "set" /\ cmd \in SetCommands /\ cmd.next = "save"
      /\ cmd.name \in Names /\ cmd.record.key \in KeyFields
  <2>1. cmd.op = "set" /\ cmd \in SetCommands
    BY <1>t DEF SetSave, At, SetOK
  <2> QED BY <2>1 DEF SetCommands
<1>s. ASSUME cmd' \in SetCommands, cmd'.pc = "save", FilesTyped'
      PROVE  CommandInv'
  <2>1. cmd'.op = "set"
    BY <1>s DEF SetCommands
  <2> QED BY <1>s, <2>1, SetGoesOn DEF SetOK
<1>2. CASE SecureKey
  <2>0. UNCHANGED <<servers, jobs, authorized, counters>>
    BY <1>2 DEF SecureKey
  <2>1. CASE /\ file' = [file EXCEPT ![Copy(cmd.name)] = file[Outside]]
             /\ cmd' = [cmd EXCEPT !.record.key = Home(Copy(cmd.name)), !.copied = TRUE,
                                   !.pc = cmd.next]
    <3>1. Copy(cmd.name) \in Paths /\ Outside \in Paths /\ Home(Copy(cmd.name)) \in KeyFields
      BY <1>a, PathTypes
    <3>2. FilesTyped'
      BY <1>t, <2>0, <2>1, <3>1 DEF FilesTyped, counters
    <3>3. cmd' \in SetCommands /\ cmd'.pc = "save"
      BY <1>a, <2>1, <3>1 DEF SetCommands
    <3> QED BY <1>s, <3>2, <3>3
  <2>2. CASE Goto(cmd.next) /\ UNCHANGED <<file, outcome>>
    <3>1. FilesTyped'
      BY <2>0, <2>2, KeptFiles DEF counters
    <3>2. cmd' \in SetCommands /\ cmd'.pc = "save"
      BY <1>a, <2>2 DEF Goto, SetCommands
    <3> QED BY <1>s, <3>1, <3>2
  <2>3. CASE Finish("failed") /\ UNCHANGED file
    <3>1. FilesTyped'
      BY <2>0, <2>3, KeptFiles DEF counters
    <3> QED BY <2>3, <3>1, Idles DEF Finish
  <2> QED BY <1>2, <2>1, <2>2, <2>3 DEF SecureKey
<1>3. CASE SetSave
  <2>0. UNCHANGED <<jobs, keys, authorized, counters>>
    BY <1>3 DEF SetSave
  <2> DEFINE old == servers[cmd.name]
             new == [old EXCEPT !.key = cmd.record.key]
  <2>1. CASE /\ cmd.name \in DOMAIN servers
             /\ servers' = Saved(servers, cmd.name, new)
             /\ \/ Finish("ok")
                \/ /\ old.key \notin {NoKey, cmd.record.key}
                   /\ cmd' = [cmd EXCEPT !.old = old.key, !.pc = "clean"]
    <3>1. old \in Servers /\ old.key \in KeyFields
      BY <1>t, <2>1, InventoryTypes
    <3>2. new \in Servers /\ new.key = cmd.record.key
      BY <1>a, <3>1 DEF Servers, KeyFields
    <3> HIDE DEF new, old
    <3>3. servers' \in Inventories
      BY <1>t, <1>a, <2>1, <3>2, SavedTypes
    <3>4. FilesTyped'
      BY <1>t, <2>0, <3>3 DEF FilesTyped, counters, keys
    <3>5. CASE Finish("ok")
      BY <3>4, <3>5, Idles DEF Finish
    <3>6. CASE /\ old.key \notin {NoKey, cmd.record.key}
               /\ cmd' = [cmd EXCEPT !.old = old.key, !.pc = "clean"]
      <4>1. /\ cmd' \in SetCommands /\ cmd'.op = "set" /\ cmd'.pc = "clean"
            /\ cmd'.name = cmd.name /\ cmd'.old = old.key
        BY <1>a, <3>1, <3>6 DEF SetCommands
      <4>2. cmd.name \in DOMAIN servers' /\ servers'[cmd.name].key # old.key
        BY <2>1, <3>2, <3>6 DEF Saved
      <4>3. SetOK'
        BY <4>1, <4>2 DEF SetOK
      <4> QED BY <3>4, <4>1, <4>3, SetGoesOn
    <3> QED BY <2>1, <3>5, <3>6
  <2>2. CASE Finish("failed") /\ UNCHANGED servers
    <3>1. FilesTyped'
      BY <2>0, <2>2, KeptFiles DEF counters, keys
    <3> QED BY <2>2, <3>1, Idles DEF Finish
  <2> QED BY <1>3, <2>1, <2>2 DEF SetSave
<1> QED BY <1>2, <1>3

LEMMA EditSteps ==
   ASSUME CommandInv, StartEdit \/ EditSave
   PROVE  CommandInv'
<1>t. FilesTyped /\ file \in [Paths -> Nat] /\ servers \in Inventories
      /\ jobs \in [Jobs -> Names] /\ made \in Nat \ {0}
  BY DEF CommandInv, CommandOK, FilesTyped
<1>1. CASE StartEdit
  <2>1. PICK n \in DOMAIN servers, draft \in Drafts :
          Start([op |-> "edit", pc |-> "save", name |-> n, draft |-> draft])
    BY <1>1 DEF StartEdit
  <2>2. FilesTyped' /\ servers' = servers
    BY <2>1, KeptFiles DEF Start, world, keys
  <2>3. draft \in Inventories
    <3>1. CASE \E m \in DOMAIN servers : draft = Deleted(servers, m)
      <4>1. PICK m \in DOMAIN servers : draft = Deleted(servers, m)
        BY <3>1
      <4>2. Deleted(servers, m) \in Inventories
        BY <1>t, DeletedTypes
      <4> QED BY <4>1, <4>2
    <3>2. CASE \E m \in DOMAIN servers, jump \in {NoJump} \union Names :
                  draft = Saved(servers, m, [servers[m] EXCEPT !.jump = jump])
      <4>0. PICK m \in DOMAIN servers, jump \in {NoJump} \union Names :
                  draft = Saved(servers, m, [servers[m] EXCEPT !.jump = jump])
        BY <3>2
      <4>1. m \in Names /\ servers[m] \in Servers
        BY <1>t, InventoryTypes
      <4> DEFINE r == [servers[m] EXCEPT !.jump = jump]
      <4>2. r \in Servers
        BY <4>1 DEF Servers
      <4>3. draft = Saved(servers, m, r)
        BY <4>0
      <4> HIDE DEF r
      <4> QED BY <1>t, <4>1, <4>2, <4>3, SavedTypes
    <3>3. \/ \E m \in DOMAIN servers : draft = Deleted(servers, m)
          \/ \E m \in DOMAIN servers, jump \in {NoJump} \union Names :
                draft = Saved(servers, m, [servers[m] EXCEPT !.jump = jump])
      BY DEF Drafts
    <3> QED BY <3>1, <3>2, <3>3
  <2>4. n \in Names
    BY <1>t, InventoryTypes
  <2>5. cmd' \in EditCommands /\ cmd'.op = "edit"
    BY <2>1, <2>3, <2>4 DEF Start, EditCommands
  <2> QED BY <2>2, <2>5
          DEF CommandInv, CommandOK, AddOK, RemoveOK, SetOK, RenameOK, SetupOK, ExportOK
<1>2. CASE EditSave
  <2>1. cmd \in EditCommands
    BY <1>2 DEF EditSave, At, CommandInv, CommandOK
  <2>2. servers' \in Inventories
    BY <1>t, <1>2, <2>1 DEF EditSave, EditCommands
  <2>3. FilesTyped'
    BY <1>t, <1>2, <2>2 DEF EditSave, FilesTyped, counters, keys
  <2> QED BY <1>2, <2>3, Idles DEF EditSave, Finish
<1> QED BY <1>1, <1>2

LEMMA RenderedBlock ==
   ASSUME NEW inventory
   PROVE  /\ Rendered(inventory) = Block(Rendered(inventory)[2][2])
BY DEF Rendered, Block, Entries

LEMMA ExportSteps ==
   ASSUME CommandInv, StartExport \/ MergeConfig \/ ReplaceConfig \/ RetryReplace \/ ExportEnds
   PROVE  CommandInv'
<1>1. CASE StartExport
  <2>1. PICK chosen \in SUBSET DOMAIN servers, config \in Configs :
          Start([op |-> "export", pc |-> "merge", before |-> config,
                 config |-> config, backup |-> <<>>,
                 block |-> Rendered([n \in chosen |-> servers[n]])])
    BY <1>1 DEF StartExport
  <2> DEFINE block == Rendered([n \in chosen |-> servers[n]])
  <2>2. block = Block(block[2][2])
    BY RenderedBlock
  <2>3. cmd' = [op |-> "export", pc |-> "merge", before |-> config,
                config |-> config, backup |-> <<>>, block |-> block]
    BY <2>1 DEF Start
  <2> HIDE DEF block
  <2>4. FilesTyped'
    BY <2>1, KeptFiles DEF Start, world, keys
  <2>5. ExportOK' /\ cmd'.op = "export"
    BY <2>2, <2>3 DEF ExportOK
  <2> QED BY <2>4, <2>5, ExportGoesOn
<1> SUFFICES ASSUME MergeConfig \/ ReplaceConfig \/ RetryReplace \/ ExportEnds
             PROVE  CommandInv'
  BY <1>1
<1>a. /\ cmd.op = "export"
      /\ {"op", "pc", "before", "config", "backup", "block"} \subseteq DOMAIN cmd
      /\ cmd.before \in Configs
      /\ cmd.block = Block(cmd.block[2][2])
      /\ cmd.pc \in {"merge", "rename"} => cmd.config = cmd.before
      /\ cmd.pc \in {"rename", "retry"} => Updatable(cmd.before)
      /\ cmd.pc = "retry" => cmd.backup = cmd.before
  BY DEF CommandInv, CommandOK, ExportOK, MergeConfig, ReplaceConfig, RetryReplace, ExportEnds, At
<1>b. FilesTyped'
  BY KeptFiles DEF MergeConfig, ReplaceConfig, RetryReplace, ExportEnds, world, keys, counters
<1>f. ASSUME NEW how, Finish(how) PROVE CommandInv'
  BY <1>b, <1>f, Idles DEF Finish
(* A step to pc that leaves the file and its backup as given. *)
<1>w. ASSUME NEW config, NEW backup, NEW pc \in {"retry", "torn", "written"},
             WithConfig(config, backup, pc),
             pc # "torn" => Updatable(cmd.before),
             pc = "retry" => backup = cmd.before,
             pc = "torn" => cmd.before \in {config, backup},
             pc = "written" => config = Merged(cmd.before, cmd.block)
      PROVE  CommandInv'
  <2>1. /\ DOMAIN cmd' = DOMAIN cmd /\ cmd'.op = "export" /\ cmd'.pc = pc
        /\ cmd'.before = cmd.before /\ cmd'.block = cmd.block
        /\ cmd'.config = config /\ cmd'.backup = backup
    BY <1>a, <1>w DEF WithConfig
  <2>2. ExportOK'
    BY <1>a, <1>w, <2>1 DEF ExportOK
  <2> QED BY <1>b, <2>1, <2>2, ExportGoesOn
<1>2. CASE MergeConfig
  <2>1. CASE cmd.pc = "merge" /\ Updatable(cmd.config) /\ Goto("rename")
    <3>1. /\ DOMAIN cmd' = DOMAIN cmd /\ cmd'.op = "export" /\ cmd'.pc = "rename"
          /\ cmd'.before = cmd.before /\ cmd'.block = cmd.block /\ cmd'.config = cmd.config
      BY <1>a, <2>1 DEF Goto
    <3>2. ExportOK'
      BY <1>a, <2>1, <3>1 DEF ExportOK
    <3> QED BY <1>b, <3>1, <3>2, ExportGoesOn
  <2> QED BY <1>2, <1>f, <2>1 DEF MergeConfig, At
<1>3. CASE ReplaceConfig
  <2>1. cmd.pc = "rename" /\ cmd.config = cmd.before /\ Updatable(cmd.before)
    BY <1>3, <1>a DEF ReplaceConfig, At
  <2>2. CASE WithConfig(Merged(cmd.config, cmd.block), <<>>, "written")
    BY <1>w, <2>1, <2>2
  <2>3. CASE WithConfig(<<>>, cmd.config, "retry")
    BY <1>w, <2>1, <2>3
  <2> QED BY <1>3, <1>f, <2>2, <2>3 DEF ReplaceConfig
<1>4. CASE RetryReplace
  <2>1. cmd.pc = "retry" /\ cmd.backup = cmd.before /\ Updatable(cmd.before)
    BY <1>4, <1>a DEF RetryReplace, At
  <2>2. CASE WithConfig(Merged(cmd.backup, cmd.block), <<>>, "written")
    BY <1>w, <2>1, <2>2
  <2>3. CASE WithConfig(cmd.backup, <<>>, "torn")
    BY <1>w, <2>1, <2>3
  <2>4. CASE WithConfig(<<>>, cmd.backup, "torn")
    BY <1>w, <2>1, <2>4
  <2> QED BY <1>4, <2>2, <2>3, <2>4 DEF RetryReplace
<1>5. CASE ExportEnds
  BY <1>5, <1>f DEF ExportEnds
<1> QED BY <1>2, <1>3, <1>4, <1>5

(* What an export says of the operator's lines.                            *)
LEMMA ExportKeeps == CommandInv => ExportWhole
<1> SUFFICES ASSUME CommandInv, cmd.op = "export"
             PROVE  /\ \/ SameLines("text", cmd.before, cmd.config)
                       \/ SameLines("text", cmd.before, cmd.backup)
                    /\ cmd.pc = "written" => /\ SameLines("text", cmd.before, cmd.config)
                                             /\ SameLines("entries", cmd.block, cmd.config)
                                             /\ Merged(cmd.config, cmd.block) = cmd.config
  BY DEF ExportWhole
<1>1. ExportOK
  BY DEF CommandInv, CommandOK
<1>2. CASE cmd.pc = "written"
  <2>1. /\ cmd.before \in Configs /\ Updatable(cmd.before)
        /\ cmd.block = Block(cmd.block[2][2])
        /\ cmd.config = Merged(cmd.before, cmd.block)
    BY <1>1, <1>2 DEF ExportOK
  <2>2. /\ SameLines("text", cmd.before, cmd.config)
        /\ SameLines("entries", cmd.block, cmd.config)
        /\ Merged(cmd.config, cmd.block) = cmd.config
    BY <2>1, MergedWhole
  <2> QED BY <2>2
<1>3. CASE cmd.pc # "written"
  <2>1. cmd.before \in {cmd.config, cmd.backup}
    BY <1>1, <1>3 DEF ExportOK
  <2>2. SameLines("text", cmd.before, cmd.before)
    BY SameAsItself
  <2> QED BY <1>3, <2>1, <2>2
<1> QED BY <1>2, <1>3

(* A rename of a server, there or back, leaves each job that has a host    *)
(* with that host, under the other name.                                   *)
LEMMA RenameSteps ==
   ASSUME CommandInv, StartRename \/ RenameEntry \/ RenameJobs \/ RollBack
   PROVE  CommandInv'
<1>t. FilesTyped /\ RenameOK /\ file \in [Paths -> Nat] /\ servers \in Inventories
      /\ jobs \in [Jobs -> Names] /\ made \in Nat \ {0}
  BY DEF CommandInv, CommandOK, FilesTyped
<1>i. servers \in Inventories
  BY <1>t
<1>1. CASE StartRename
  <2>1. PICK old \in DOMAIN servers, new \in Names \ DOMAIN servers :
          Start([op |-> "rename", pc |-> "entry", name |-> old, new |-> new,
                 hosting |-> [j \in Jobs |-> Hosting(j)]])
    BY <1>1 DEF StartRename
  <2> DEFINE hosting == [j \in Jobs |-> Hosting(j)]
  <2>2. FilesTyped' /\ servers' = servers /\ jobs' = jobs
    BY <2>1, KeptFiles DEF Start, world, keys
  <2>3. ASSUME NEW j \in Jobs PROVE Hosting(j) \in Hosts \union {NoJump}
    BY <1>t, InventoryTypes DEF Hosting
  <2>4. hosting \in [Jobs -> Hosts \union {NoJump}] /\ \A j \in Jobs : hosting[j] = Hosting(j)
    BY <2>3
  <2>5. cmd' = [op |-> "rename", pc |-> "entry", name |-> old, new |-> new, hosting |-> hosting]
    BY <2>1 DEF Start
  <2> HIDE DEF hosting
  <2>6. old \in Names
    BY <1>t, InventoryTypes
  <2>7. /\ cmd' \in RenameCommands /\ cmd'.op = "rename" /\ cmd'.pc = "entry"
        /\ cmd'.name = old /\ cmd'.new = new /\ cmd'.hosting = hosting
    BY <2>4, <2>5, <2>6 DEF RenameCommands
  <2>8. \A j \in Jobs : Hosting(j)' = Hosting(j)
    BY <2>2 DEF Hosting
  <2>9. RenameOK'
    BY <2>1, <2>2, <2>4, <2>7, <2>8 DEF RenameOK
  <2> QED BY <2>2, <2>7, <2>9, RenameGoesOn
<1> SUFFICES ASSUME RenameEntry \/ RenameJobs \/ RollBack
             PROVE  CommandInv'
  BY <1>1
<1>a. cmd.op = "rename" /\ cmd \in RenameCommands
  BY <1>t DEF RenameEntry, RenameJobs, RollBack, At, RenameOK
<1>n. cmd.name \in Names /\ cmd.new \in Names
  BY <1>a DEF RenameCommands
<1>g. ASSUME NEW pc \in {"jobs", "rollback"}, Goto(pc)
      PROVE  /\ cmd' \in RenameCommands /\ cmd'.op = "rename" /\ cmd'.pc = pc
             /\ cmd'.name = cmd.name /\ cmd'.new = cmd.new /\ cmd'.hosting = cmd.hosting
  BY <1>a, <1>g DEF Goto, RenameCommands
<1>2. CASE RenameEntry
  <2>1. /\ cmd.name \in DOMAIN servers /\ cmd.new \in Names \ DOMAIN servers
        /\ \A j \in Jobs : cmd.hosting[j] = Hosting(j)
        /\ UNCHANGED <<jobs, keys, authorized, counters>>
    BY <1>2, <1>t, <1>n DEF RenameEntry, At, RenameOK
  <2>2. CASE servers' = Renamed(servers, cmd.name, cmd.new) /\ Goto("jobs")
    <3>1. /\ servers' \in Inventories
          /\ DOMAIN servers' = (DOMAIN servers \ {cmd.name}) \union {cmd.new}
          /\ \A n \in (DOMAIN servers \ {cmd.name}) \union {cmd.new} :
                servers'[n].host = servers[Former(n, cmd.name, cmd.new)].host
      <4>1. Renamed(servers, cmd.name, cmd.new) \in Inventories
        BY <1>i, <2>1, RenamedTypes
      <4>2. DOMAIN Renamed(servers, cmd.name, cmd.new)
               = (DOMAIN servers \ {cmd.name}) \union {cmd.new}
        BY DEF Renamed
      <4>3. \A n \in (DOMAIN servers \ {cmd.name}) \union {cmd.new} :
               Renamed(servers, cmd.name, cmd.new)[n].host
                  = servers[Former(n, cmd.name, cmd.new)].host
        <5>1. ASSUME NEW old \in DOMAIN servers, NEW new \in Names \ DOMAIN servers
              PROVE  \A n \in (DOMAIN servers \ {old}) \union {new} :
                        Renamed(servers, old, new)[n].host = servers[Former(n, old, new)].host
          BY <1>i, RenamedTypes
        <5> QED BY <2>1, <5>1, Zenon
      <4> QED BY <2>2, <4>1, <4>2, <4>3
    <3>2. FilesTyped'
      BY <1>t, <2>1, <3>1 DEF FilesTyped, counters, keys
    <3>3. ASSUME NEW j \in Jobs, cmd.hosting[j] # NoJump
          PROVE  IF jobs[j] = cmd.name
                 THEN servers'[cmd.new].host = cmd.hosting[j]
                 ELSE /\ jobs[j] \in DOMAIN servers' \ {cmd.new}
                      /\ servers'[jobs[j]].host = cmd.hosting[j]
      <4>1. jobs[j] \in DOMAIN servers /\ servers[jobs[j]].host = cmd.hosting[j]
        BY <2>1, <3>3 DEF Hosting
      <4> QED BY <2>1, <3>1, <4>1 DEF Former
    <3>4. cmd.name \notin DOMAIN servers' /\ cmd.new \in DOMAIN servers'
      BY <2>1, <3>1
    <3>5. RenameOK'
      BY <1>g, <2>1, <2>2, <3>3, <3>4 DEF RenameOK
    <3> QED BY <1>g, <2>2, <3>2, <3>5, RenameGoesOn
  <2>3. CASE Finish("failed") /\ UNCHANGED servers
    <3>1. FilesTyped'
      BY <1>t, <2>1, <2>3 DEF FilesTyped, counters, keys
    <3> QED BY <2>3, <3>1, Idles DEF Finish
  <2> QED BY <1>2, <2>2, <2>3 DEF RenameEntry
<1>3. CASE RenameJobs
  <2>0. cmd.pc = "jobs" /\ UNCHANGED <<servers, keys, authorized, counters>>
    BY <1>3 DEF RenameJobs, At
  <2>1. CASE /\ jobs' = [j \in Jobs |-> IF jobs[j] = cmd.name THEN cmd.new ELSE jobs[j]]
             /\ Finish("ok")
    <3>1. jobs' \in [Jobs -> Names]
      BY <1>t, <1>n, <2>1
    <3>2. FilesTyped'
      BY <1>t, <2>0, <3>1 DEF FilesTyped, counters, keys
    <3> QED BY <2>1, <3>2, Idles DEF Finish
  <2>2. CASE Goto("rollback") /\ UNCHANGED <<jobs, outcome>>
    <3>1. FilesTyped'
      BY <2>0, <2>2, KeptFiles DEF world, keys, counters
    <3>2. RenameOK'
      BY <1>t, <1>a, <1>g, <2>0, <2>2 DEF RenameOK
    <3> QED BY <1>g, <2>2, <3>1, <3>2, RenameGoesOn
  <2> QED BY <1>3, <2>1, <2>2 DEF RenameJobs
<1>4. CASE RollBack
  <2>1. /\ cmd.new \in DOMAIN servers /\ cmd.name \in Names \ DOMAIN servers
        /\ UNCHANGED <<jobs, keys, authorized, counters>>
    BY <1>4, <1>t, <1>n DEF RollBack, At, RenameOK
  <2>2. servers' = Renamed(servers, cmd.new, cmd.name) \/ servers' = servers
    BY <1>4 DEF RollBack
  <2>3. Renamed(servers, cmd.new, cmd.name) \in Inventories
    BY <1>i, <2>1, RenamedTypes
  <2>4. servers' \in Inventories
    BY <1>t, <2>2, <2>3
  <2>5. FilesTyped'
    BY <1>t, <2>1, <2>4 DEF FilesTyped, counters, keys
  <2> QED BY <1>4, <2>5, Idles DEF RollBack, Finish
<1> QED BY <1>2, <1>3, <1>4

LEMMA SetupSteps ==
   ASSUME CommandInv,
          StartSetup \/ SetupPair \/ SetupInstall \/ SetupBind \/ SetupProbe \/ DropPassword
   PROVE  CommandInv'
<1>t. FilesTyped /\ SetupOK /\ file \in [Paths -> Nat] /\ servers \in Inventories
      /\ jobs \in [Jobs -> Names] /\ made \in Nat \ {0}
  BY DEF CommandInv, CommandOK, FilesTyped
<1>1. CASE StartSetup
  <2>1. PICK n \in DOMAIN servers, drop \in BOOLEAN :
          /\ servers[n].password
          /\ Start([op |-> "setup", pc |-> "pair", name |-> n, drop |-> drop,
                    given |-> TRUE, record |-> servers[n]])
    BY <1>1 DEF StartSetup
  <2>2. FilesTyped' /\ servers' = servers
    BY <2>1, KeptFiles DEF Start, world, keys
  <2>3. n \in Names /\ servers[n] \in Servers
    BY <1>t, InventoryTypes
  <2>4. /\ cmd' \in SetupCommands /\ cmd'.op = "setup" /\ cmd'.pc = "pair"
        /\ cmd'.name = n /\ cmd'.record = servers[n]
    BY <2>1, <2>3 DEF Start, SetupCommands
  <2>5. SetupOK'
    BY <2>1, <2>2, <2>4 DEF SetupOK
  <2> QED BY <2>2, <2>4, <2>5, SetupGoesOn
<1> SUFFICES ASSUME SetupPair \/ SetupInstall \/ SetupBind \/ SetupProbe \/ DropPassword
             PROVE  CommandInv'
  BY <1>1
<1>a. /\ cmd.op = "setup" /\ cmd \in SetupCommands /\ cmd.name \in DOMAIN servers
      /\ cmd.record.jump = servers[cmd.name].jump
      /\ cmd.pc # "drop" => cmd.record.password
  BY <1>t DEF SetupPair, SetupInstall, SetupBind, SetupProbe, DropPassword, At, SetupOK
<1>n. cmd.name \in Names /\ Gen(cmd.name) \in Paths /\ cmd.record \in Servers
  BY <1>a, PathTypes DEF SetupCommands
<1>g. ASSUME NEW pc \in {"install", "probe"}, Goto(pc)
      PROVE  /\ cmd' \in SetupCommands /\ cmd'.op = "setup" /\ cmd'.pc = pc
             /\ cmd'.name = cmd.name /\ cmd'.record = cmd.record
  BY <1>a, <1>g DEF Goto, SetupCommands
<1>f. ASSUME NEW how, Finish(how), FilesTyped' PROVE CommandInv'
  BY <1>f, Idles DEF Finish
<1>2. CASE SetupPair
  <2>0. cmd.pc = "pair" /\ UNCHANGED <<servers, jobs, authorized, commands>>
    BY <1>2 DEF SetupPair, At
  <2>1. CASE EnsureKeyPair(Gen(cmd.name)) /\ Goto("install")
    <3>1. FilesTyped'
      BY <1>t, <1>n, <2>0, <2>1, PairTypes DEF FilesTyped
    <3>2. SetupOK'
      BY <1>a, <1>g, <2>0, <2>1 DEF SetupOK
    <3> QED BY <1>g, <2>1, <3>1, <3>2, SetupGoesOn
  <2>2. CASE Finish("failed") /\ UNCHANGED <<keys, made>>
    <3>1. FilesTyped'
      BY <2>0, <2>2, KeptFiles DEF world, keys
    <3> QED BY <1>f, <2>2, <3>1
  <2> QED BY <1>2, <2>1, <2>2 DEF SetupPair
<1>3. CASE SetupInstall
  <2>0. cmd.pc = "install" /\ UNCHANGED <<servers, jobs, keys, counters>>
    BY <1>3 DEF SetupInstall, At
  <2>1. FilesTyped'
    BY <1>t, <2>0 DEF FilesTyped, counters, keys
  <2>2. CASE cmd' = [cmd EXCEPT !.pc = "bind", !.record.key = Home(Gen(cmd.name))]
    <3> DEFINE r == [cmd.record EXCEPT !.key = Home(Gen(cmd.name))]
    <3>k. Home(Gen(cmd.name)) \in Keys \union {NoKey}
      BY <1>n, PathTypes DEF KeyFields
    <3>1. r \in Servers /\ r.jump = cmd.record.jump /\ r.password = cmd.record.password
      BY <1>n, <3>k DEF Servers
    <3>2. cmd' = [op |-> "setup", pc |-> "bind", name |-> cmd.name, drop |-> cmd.drop,
                  given |-> cmd.given, record |-> r]
      BY <1>a, <2>2 DEF SetupCommands
    <3> HIDE DEF r
    <3>3. /\ cmd' \in SetupCommands /\ cmd'.op = "setup" /\ cmd'.pc = "bind"
          /\ cmd'.name = cmd.name /\ cmd'.record = r
      BY <1>a, <3>1, <3>2 DEF SetupCommands
    <3>4. SetupOK'
      BY <1>a, <2>0, <3>1, <3>3 DEF SetupOK
    <3> QED BY <2>1, <3>3, <3>4, SetupGoesOn
  <2> QED BY <1>3, <1>f, <2>1, <2>2 DEF SetupInstall
<1>4. CASE SetupBind
  <2>0. cmd.pc = "bind" /\ UNCHANGED <<jobs, keys, authorized, counters>>
    BY <1>4 DEF SetupBind, At
  <2> DEFINE saved == Saved(servers, cmd.name, cmd.record)
  <2>1. saved \in Inventories /\ cmd.name \in DOMAIN saved /\ saved[cmd.name] = cmd.record
    <3>1. saved \in Inventories
      BY <1>t, <1>n, SavedTypes
    <3> QED BY <3>1 DEF Saved
  <2> HIDE DEF saved
  <2>c. \/ servers' = saved /\ (Goto("probe") \/ Finish("ok"))
        \/ Finish("failed") /\ UNCHANGED servers
    BY <1>4 DEF SetupBind, saved
  <2>2. FilesTyped'
    BY <1>t, <2>0, <2>1, <2>c DEF FilesTyped, counters, keys
  <2>3. CASE servers' = saved /\ Goto("probe")
    <3>1. SetupOK'
      BY <1>a, <1>g, <2>0, <2>1, <2>3 DEF SetupOK
    <3> QED BY <1>g, <2>2, <2>3, <3>1, SetupGoesOn
  <2> QED BY <1>f, <2>2, <2>3, <2>c
<1>5. CASE SetupProbe
  <2>1. FilesTyped' /\ cmd.pc = "probe" /\ UNCHANGED <<servers, file, authorized>>
    BY <1>5, KeptFiles DEF SetupProbe, At, world, keys, counters
  <2> DEFINE bare == [cmd.record EXCEPT !.password = FALSE]
  <2>c. (Login(bare) /\ cmd' = [cmd EXCEPT !.pc = "drop", !.record = bare]) \/ Finish("failed")
    BY <1>5 DEF SetupProbe
  <2>2. CASE Login(bare) /\ cmd' = [cmd EXCEPT !.pc = "drop", !.record = bare]
    <3>1. bare \in Servers /\ bare.jump = cmd.record.jump
      BY <1>n DEF Servers
    <3> HIDE DEF bare
    <3>2. cmd' = [op |-> "setup", pc |-> "drop", name |-> cmd.name, drop |-> cmd.drop,
                  given |-> cmd.given, record |-> bare]
      BY <1>a, <2>2 DEF SetupCommands
    <3>3. /\ cmd' \in SetupCommands /\ cmd'.op = "setup" /\ cmd'.pc = "drop"
          /\ cmd'.name = cmd.name /\ cmd'.record = bare
      BY <1>a, <3>1, <3>2 DEF SetupCommands
    <3>4. Login(cmd.record)'
      BY <2>1, <2>2, <3>3 DEF Login, KeyWorks, AgentWorks
    <3>5. SetupOK'
      BY <1>a, <2>1, <3>1, <3>3, <3>4 DEF SetupOK
    <3> QED BY <2>1, <3>3, <3>5, SetupGoesOn
  <2> QED BY <1>f, <2>1, <2>2, <2>c
<1>6. CASE DropPassword
  <2>0. UNCHANGED <<jobs, keys, authorized, counters>>
    BY <1>6 DEF DropPassword
  <2>1. Saved(servers, cmd.name, cmd.record) \in Inventories
    BY <1>t, <1>n, SavedTypes
  <2>2. servers' \in Inventories
    BY <1>6, <1>t, <2>1 DEF DropPassword
  <2>3. FilesTyped'
    BY <1>t, <2>0, <2>2 DEF FilesTyped, counters, keys
  <2> QED BY <1>6, <1>f, <2>3 DEF DropPassword
<1> QED BY <1>2, <1>3, <1>4, <1>5, <1>6

LEMMA CommandStep == CommandInv /\ [NextCommand]_commandVars => CommandInv'
<1> SUFFICES ASSUME CommandInv, [NextCommand]_commandVars
             PROVE  CommandInv'
  OBVIOUS
<1>1. CASE UNCHANGED commandVars
  BY <1>1 DEF commandVars, CommandInv, FilesTyped, CommandOK, AddOK, RemoveOK, SetOK, RenameOK,
              SetupOK, ExportOK, Login, KeyWorks, AgentWorks, keys, Hosting
<1>2. CASE Kill
  <2>1. FilesTyped'
    BY <1>2, KeptFiles DEF Kill, world, counters, keys
  <2> QED BY <1>2, <2>1, Idles DEF Kill, Finish
<1>3. CASE SecureKey
  <2>1. cmd.op \in {"add", "set"}
    BY <1>3 DEF SecureKey
  <2> QED BY <1>3, <2>1, AddSteps, SetSteps
<1> QED BY <1>1, <1>2, <1>3, AddSteps, RemoveSteps, CleanStep, SetSteps, EditSteps, ExportSteps,
           RenameSteps, SetupSteps DEF NextCommand, NoMoreCommands

(* In every reachable state what the running command remembers still holds *)
(* of the files.                                                           *)
THEOREM CommandsRemember == CommandSpec => []CommandInv
<1> QED BY CommandInit, CommandStep, PTL DEF CommandSpec

(* At every point where an export may fail or be killed (ReplaceFile of    *)
(* UpdateSSHConfigFile) the operator's lines are in the file or in the     *)
(* copy; and what it has written has the operator's lines in their order,  *)
(* one block with the servers that were chosen, and nothing of an earlier  *)
(* export, for every content that CommandsAssumption admits.               *)
THEOREM ExportsAreWhole == CommandSpec => []ExportWhole
<1> QED BY CommandsRemember, ExportKeeps, PTL

-----------------------------------------------------------------------------
(* Keys *)

(* The steps that write or delete a private key.                           *)
LEMMA KeyWriters ==
   ASSUME CommandInv, [NextCommand]_commandVars, file' # file
   PROVE  cmd.op = "add" \/ SecureKey \/ CleanKey \/ SetupPair
BY DEF NextCommand, commandVars, world, keys, Start, SecureKey, AddTest, Inject, InjectInstall,
       InjectProbe, AddSave, StartAdd, StartRemove, ConfirmRemoval, RemoveEntry, StartSet,
       SetSave, StartEdit, EditSave, StartExport, MergeConfig, ReplaceConfig, RetryReplace,
       ExportEnds, StartRename, RenameEntry, RenameJobs, RollBack, StartSetup, SetupInstall,
       SetupBind, SetupProbe, DropPassword, Kill, NoMoreCommands, At

(* remove, set, rename and setup-key never delete a private key to which   *)
(* an entry of the inventory is bound by a path that expands to the same   *)
(* (CleanupManagedKeyWithRefCheck), unless set has just written it anew.   *)
THEOREM KeysInUseStay == CommandSpec => UsedKeyKept
<1>1. CommandInv /\ [NextCommand]_commandVars =>
         (cmd.op # "add" => \A n \in Orphaned :
            \/ Expanded(servers[n].key) # Expanded(cmd.old)
            \/ cmd.op = "set" /\ n = cmd.name /\ servers[n].key # cmd.old)
  <2> SUFFICES ASSUME CommandInv, [NextCommand]_commandVars, cmd.op # "add",
                      NEW n \in Orphaned, Expanded(servers[n].key) = Expanded(cmd.old)
               PROVE  cmd.op = "set" /\ n = cmd.name /\ servers[n].key # cmd.old
    OBVIOUS
  <2> DEFINE path == servers[n].key[2]
  <2>1. /\ n \in DOMAIN servers /\ servers[n].key # NoKey
        /\ file[path] # 0 /\ file'[path] = 0
    BY DEF Orphaned
  <2>2. path \in Paths
    BY <2>1, InventoryTypes, PathTypes DEF CommandInv, FilesTyped
  <2> HIDE DEF path
  <2>3. file' # file
    BY <2>1
  <2>4. CASE CleanKey
    <3>1. cmd.pc = "clean" /\ ~ UsedByOthers(cmd.name, cmd.old)
      BY <2>3, <2>4 DEF CleanKey, keys
    <3>2. n = cmd.name
      BY <2>1, <3>1 DEF UsedByOthers
    <3> QED BY <2>1, <3>1, <3>2, CleaningOps
  <2>5. CASE SetupPair
    <3>1. cmd.op = "setup" /\ cmd \in SetupCommands
      BY <2>5 DEF SetupPair, At, CommandInv, CommandOK, SetupOK
    <3>2. Gen(cmd.name) \in Paths
      BY <3>1, PathTypes DEF SetupCommands
    <3>3. EnsureKeyPair(Gen(cmd.name))
      BY <2>3, <2>5 DEF SetupPair, keys
    <3>4. file'[path] = file[path]
      BY <2>1, <2>2, <3>2, <3>3, PairTypes DEF CommandInv
    <3> QED BY <2>1, <3>4
  <2>6. CASE SecureKey
    <3>1. /\ cmd.op = "set" /\ cmd.record.key \in Spellings \X {Outside}
          /\ file' = [file EXCEPT ![Copy(cmd.name)] = file[Outside]]
      BY <2>3, <2>6 DEF SecureKey
    <3>2. cmd.record.key # NoKey /\ cmd.record.key[2] = Outside
      BY <3>1 DEF NoKey
    <3>3. file[Outside] # 0
      BY <2>6, <3>1, <3>2 DEF SecureKey, CommandInv, CommandOK, SetOK
    <3> QED BY <2>1, <2>2, <3>1, <3>3 DEF CommandInv, FilesTyped
  <2> QED BY <2>3, <2>4, <2>5, <2>6, KeyWriters
<1> QED BY <1>1, CommandsRemember, PTL DEF CommandSpec, UsedKeyKept

-----------------------------------------------------------------------------
(* The inventory *)

(* The steps that write the inventory.                                     *)
LEMMA InventoryWriters ==
   ASSUME [NextCommand]_commandVars, servers' # servers
   PROVE  \/ AddSave \/ RemoveEntry \/ SetSave \/ EditSave \/ RenameEntry \/ RollBack
          \/ SetupBind \/ DropPassword
BY DEF NextCommand, commandVars, world, keys, Start, SecureKey, AddTest, Inject, InjectInstall,
       InjectProbe, StartAdd, StartRemove, ConfirmRemoval, CleanKey, StartSet, StartEdit,
       StartExport, MergeConfig, ReplaceConfig, RetryReplace, ExportEnds, StartRename,
       RenameJobs, StartSetup, SetupPair, SetupInstall, SetupProbe, Kill, NoMoreCommands

(* handlePublicKeyInjection and setup-key --remove-password give a         *)
(* password up only for an entry that has just logged in without it.       *)
THEOREM PasswordsOutlived == CommandSpec => PasswordOutlived
<1>1. ASSUME CommandInv, [NextCommand]_commandVars,
             cmd.op \in {"add", "setup"}, cmd.given, servers' # servers,
             ~ servers'[cmd.name].password
      PROVE  Login(servers'[cmd.name])
  <2>1. AddSave \/ SetupBind \/ DropPassword
    BY <1>1, InventoryWriters DEF RemoveEntry, SetSave, EditSave, RenameEntry, RollBack, At
  <2>2. servers' = Saved(servers, cmd.name, cmd.record)
    BY <1>1, <2>1 DEF AddSave, SetupBind, DropPassword
  <2>3. Saved(servers, cmd.name, cmd.record)[cmd.name] = cmd.record
    BY DEF Saved
  <2>4. servers'[cmd.name] = cmd.record
    BY <2>2, <2>3
  <2>5. AddOK /\ SetupOK
    BY <1>1 DEF CommandInv, CommandOK
  <2>6. CASE AddSave
    BY <1>1, <2>4, <2>5, <2>6 DEF AddSave, At, AddOK
  <2>7. CASE SetupBind
    BY <1>1, <2>4, <2>5, <2>7 DEF SetupBind, At, SetupOK
  <2>8. CASE DropPassword
    BY <1>1, <2>4, <2>5, <2>8 DEF DropPassword, At, SetupOK
  <2> QED BY <2>1, <2>6, <2>7, <2>8
<1> QED BY <1>1, CommandsRemember, PTL DEF CommandSpec, PasswordOutlived

(* Saving a record whose jump host is in the inventory, or is that of the  *)
(* entry it replaces, leaves no other server without its jump host.        *)
LEMMA SavedJumps ==
   ASSUME servers \in Inventories, NEW n \in Names, NEW record \in Servers,
          servers' = Saved(servers, n, record),
          \/ record.jump \in DOMAIN servers \union {NoJump}
          \/ n \in DOMAIN servers /\ record.jump = servers[n].jump
   PROVE  Missing' \subseteq Missing
<1>1. /\ DOMAIN servers' = DOMAIN servers \union {n}
      /\ servers'[n] = record
      /\ \A m \in DOMAIN servers \ {n} : servers'[m] = servers[m]
  BY DEF Saved
<1>2. ASSUME NEW m \in DOMAIN servers', servers'[m].jump \notin DOMAIN servers' \union {NoJump}
      PROVE  servers'[m].jump \in Missing
  BY <1>1, <1>2 DEF Missing
<1>3. ASSUME NEW jump \in Missing' PROVE jump \in Missing
  <2>1. PICK m \in DOMAIN servers' : jump = servers'[m].jump
    BY DEF Missing
  <2>2. jump \notin DOMAIN servers' \union {NoJump}
    BY DEF Missing
  <2> QED BY <1>2, <2>1, <2>2
<1> QED BY <1>3

LEMMA RenamedJumps ==
   ASSUME servers \in Inventories,
          NEW old \in DOMAIN servers, NEW new \in Names \ DOMAIN servers,
          servers' = Renamed(servers, old, new)
   PROVE  Missing' \subseteq Missing
<1>1. /\ DOMAIN servers' = (DOMAIN servers \ {old}) \union {new}
  BY DEF Renamed
<1>2. \A n \in (DOMAIN servers \ {old}) \union {new} :
         servers'[n].jump = NewJump(servers[Former(n, old, new)].jump, old, new)
  BY RenamedTypes
<1>3. ASSUME NEW jump \in Missing' PROVE jump \in Missing
  <2>1. PICK m \in DOMAIN servers' : jump = servers'[m].jump
    BY DEF Missing
  <2>2. jump \notin DOMAIN servers' \union {NoJump}
    BY DEF Missing
  <2> DEFINE from == Former(m, old, new)
  <2>3. from \in DOMAIN servers
    BY <1>1, <2>1 DEF Former
  <2>4. jump = NewJump(servers[from].jump, old, new)
    BY <1>1, <1>2, <2>1
  <2> HIDE DEF from
  <2>5. jump = servers[from].jump /\ jump # old
    BY <1>1, <2>2, <2>4 DEF NewJump
  <2>6. jump \notin DOMAIN servers \union {NoJump}
    BY <1>1, <2>2, <2>5
  <2> QED BY <2>3, <2>5, <2>6 DEF Missing
<1> QED BY <1>3

LEMMA JumpsKept ==
   ASSUME CommandInv, [NextCommand]_commandVars,
          cmd.op # "edit", ~ (cmd.op = "remove" /\ cmd.unread)
   PROVE  Missing' \subseteq Missing
<1>t. servers \in Inventories /\ AddOK /\ RemoveOK /\ SetOK /\ RenameOK /\ SetupOK
  BY DEF CommandInv, CommandOK, FilesTyped
<1>i. servers \in Inventories
  BY <1>t
<1>1. CASE servers' = servers
  BY <1>1 DEF Missing
<1>2. CASE AddSave /\ servers' # servers
  <2>1. /\ servers' = Saved(servers, cmd.name, cmd.record)
        /\ cmd.name \in Names /\ cmd.record \in Servers
        /\ cmd.record.jump \in DOMAIN servers \union {NoJump}
    BY <1>2, <1>t DEF AddSave, At, AddOK, AddCommands
  <2> QED BY <1>i, <2>1, SavedJumps
<1>3. CASE RemoveEntry /\ servers' # servers
  <2>1. /\ servers' = Deleted(servers, cmd.name)
        /\ Dependents(servers, cmd.name) = {}
    BY <1>3, <1>t DEF RemoveEntry, At, RemoveOK
  <2>2. /\ DOMAIN servers' = DOMAIN servers \ {cmd.name}
        /\ \A n \in DOMAIN servers' : servers'[n] = servers[n]
    BY <2>1 DEF Deleted
  <2>3. \A n \in DOMAIN servers : servers[n].jump # cmd.name
    BY <2>1 DEF Dependents
  <2> QED BY <2>2, <2>3 DEF Missing
<1>4. CASE (SetupBind \/ DropPassword) /\ servers' # servers
  <2>1. servers' = Saved(servers, cmd.name, cmd.record)
    BY <1>4 DEF SetupBind, DropPassword
  <2>2. /\ cmd.name \in DOMAIN servers /\ cmd.name \in Names /\ cmd.record \in Servers
        /\ cmd.record.jump = servers[cmd.name].jump
    BY <1>4, <1>t DEF SetupBind, DropPassword, At, SetupOK, SetupCommands
  <2> QED BY <1>i, <2>1, <2>2, SavedJumps
<1>7. CASE SetSave /\ servers' # servers
  <2> DEFINE new == [servers[cmd.name] EXCEPT !.key = cmd.record.key]
  <2>1. cmd.name \in DOMAIN servers /\ servers' = Saved(servers, cmd.name, new)
    BY <1>7 DEF SetSave
  <2>2. cmd.name \in Names /\ cmd.record.key \in KeyFields
    BY <1>7, <1>t DEF SetSave, At, SetOK, SetCommands
  <2>3. servers[cmd.name] \in Servers
    BY <1>i, <2>1, InventoryTypes
  <2>4. new \in Servers /\ new.jump = servers[cmd.name].jump
    BY <2>2, <2>3 DEF Servers, KeyFields
  <2> HIDE DEF new
  <2> QED BY <1>i, <2>1, <2>2, <2>4, SavedJumps
<1>5. CASE (RenameEntry \/ RollBack) /\ servers' # servers
  <2>1. cmd.name \in Names /\ cmd.new \in Names
    BY <1>5, <1>t DEF RenameEntry, RollBack, At, RenameOK, RenameCommands
  <2>2. CASE RenameEntry
    <3>1. /\ servers' = Renamed(servers, cmd.name, cmd.new)
          /\ cmd.name \in DOMAIN servers /\ cmd.new \in Names \ DOMAIN servers
      BY <1>5, <1>t, <2>1, <2>2 DEF RenameEntry, At, RenameOK
    <3> QED BY <1>i, <3>1, RenamedJumps
  <2>3. CASE RollBack
    <3>1. /\ servers' = Renamed(servers, cmd.new, cmd.name)
          /\ cmd.new \in DOMAIN servers /\ cmd.name \in Names \ DOMAIN servers
      BY <1>5, <1>t, <2>1, <2>3 DEF RollBack, At, RenameOK
    <3> QED BY <1>i, <3>1, RenamedJumps
  <2> QED BY <1>5, <2>2, <2>3
<1>6. ~ EditSave
  BY DEF EditSave, At
<1> QED BY <1>1, <1>2, <1>3, <1>4, <1>5, <1>6, <1>7, InventoryWriters

(* A rename that says how it ended.                                        *)
LEMMA RenameEnds ==
   ASSUME CommandInv, [NextCommand]_commandVars, cmd.op = "rename",
          cmd'.op = "none", outcome' \in {"ok", "failed"}
   PROVE  RenameEntry \/ RenameJobs \/ RollBack
<1>1. cmd # Idle /\ cmd.pc # "clean"
  BY DEF Idle, CommandInv, CommandOK, RenameOK, RenameCommands
<1>2. cmd' # cmd
  OBVIOUS
<1>3. ~ Kill
  BY DEF Kill, Finish
<1> QED BY <1>1, <1>2, <1>3
        DEF NextCommand, commandVars, Start, SecureKey, AddTest, Inject, InjectInstall,
            InjectProbe, AddSave, StartAdd, StartRemove, ConfirmRemoval, RemoveEntry, CleanKey,
            StartSet, SetSave, StartEdit, EditSave, StartExport, MergeConfig, ReplaceConfig,
            RetryReplace, ExportEnds, StartRename, StartSetup, SetupPair, SetupInstall,
            SetupBind, SetupProbe, DropPassword, NoMoreCommands, At

LEMMA RenamesWhole ==
   ASSUME CommandInv, [NextCommand]_commandVars, cmd.op = "rename",
          cmd'.op = "none", outcome' \in {"ok", "failed"},
          NEW job \in Jobs, cmd.hosting[job] # NoJump
   PROVE  Hosting(job)' = cmd.hosting[job]
<1>t. RenameOK /\ jobs \in [Jobs -> Names]
  BY DEF CommandInv, CommandOK, FilesTyped
<1>i. servers \in Inventories
  BY DEF CommandInv, FilesTyped
<1>n. cmd.name \in Names /\ cmd.new \in Names
  BY <1>t DEF RenameOK, RenameCommands
<1>g. ~ Goto("jobs") /\ ~ Goto("rollback")
  <2>1. cmd \in RenameCommands
    BY <1>t DEF RenameOK
  <2> QED BY <2>1 DEF Goto, RenameCommands
<1>1. CASE RenameEntry
  <2>1. cmd.hosting[job] = Hosting(job) /\ UNCHANGED <<servers, jobs>>
    BY <1>1, <1>g, <1>t DEF RenameEntry, At, RenameOK
  <2> QED BY <2>1 DEF Hosting
<1>2. CASE RenameJobs
  <2>1. /\ jobs' = [k \in Jobs |-> IF jobs[k] = cmd.name THEN cmd.new ELSE jobs[k]]
        /\ servers' = servers /\ cmd.pc = "jobs"
    BY <1>2, <1>g DEF RenameJobs, At
  <2>2. /\ cmd.new \in DOMAIN servers
        /\ IF jobs[job] = cmd.name
           THEN servers[cmd.new].host = cmd.hosting[job]
           ELSE /\ jobs[job] \in DOMAIN servers \ {cmd.new}
                /\ servers[jobs[job]].host = cmd.hosting[job]
    BY <1>t, <2>1 DEF RenameOK
  <2> QED BY <2>1, <2>2 DEF Hosting
<1>3. CASE RollBack
  <2>1. /\ servers' = Renamed(servers, cmd.new, cmd.name)
        /\ jobs' = jobs /\ cmd.pc = "rollback"
    BY <1>3 DEF RollBack, At, Finish
  <2>2. /\ cmd.new \in DOMAIN servers /\ cmd.name \in Names \ DOMAIN servers
        /\ IF jobs[job] = cmd.name
           THEN servers[cmd.new].host = cmd.hosting[job]
           ELSE /\ jobs[job] \in DOMAIN servers \ {cmd.new}
                /\ servers[jobs[job]].host = cmd.hosting[job]
    BY <1>t, <1>n, <2>1 DEF RenameOK
  <2>3. DOMAIN servers' = (DOMAIN servers \ {cmd.new}) \union {cmd.name}
    BY <2>1 DEF Renamed
  <2>4. \A n \in (DOMAIN servers \ {cmd.new}) \union {cmd.name} :
           servers'[n].host = servers[Former(n, cmd.new, cmd.name)].host
    <3>1. ASSUME NEW old \in DOMAIN servers, NEW new \in Names \ DOMAIN servers
          PROVE  \A n \in (DOMAIN servers \ {old}) \union {new} :
                    Renamed(servers, old, new)[n].host = servers[Former(n, old, new)].host
      BY <1>i, RenamedTypes
    <3> QED BY <2>1, <2>2, <3>1, Zenon
  <2>5. jobs[job] \in DOMAIN servers' /\ servers'[jobs[job]].host = cmd.hosting[job]
    BY <2>2, <2>3, <2>4 DEF Former
  <2> QED BY <2>1, <2>5 DEF Hosting
<1> QED BY <1>1, <1>2, <1>3, RenameEnds

(* A rename that reports how it ended leaves each job with the host that   *)
(* it had (RenameServerReferences and the rollback), and no command but    *)
(* the editor, and a remove that could not read the inventory, takes away  *)
(* a jump host that servers still name.                                    *)
THEOREM ReferencesStay == CommandSpec => ReferencesKept
<1>1. CommandInv /\ [NextCommand]_commandVars =>
         (/\ cmd.op = "rename" /\ cmd'.op = "none" /\ outcome' \in {"ok", "failed"}
          => \A j \in Jobs : cmd.hosting[j] # NoJump => Hosting(j)' = cmd.hosting[j])
  BY RenamesWhole
<1>2. CommandInv /\ [NextCommand]_commandVars =>
         \/ cmd.op = "edit"
         \/ cmd.op = "remove" /\ cmd.unread
         \/ Missing' \subseteq Missing
  BY JumpsKept
<1>3. CommandSpec => RenameWhole
  BY <1>1, CommandsRemember, PTL DEF CommandSpec, RenameWhole
<1>4. CommandSpec => JumpHostsKept
  BY <1>2, CommandsRemember, PTL DEF CommandSpec, JumpHostsKept
<1> QED BY <1>3, <1>4 DEF ReferencesKept
===============================================================================
