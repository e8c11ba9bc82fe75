---------------------------- MODULE FileTransfer ----------------------------
(***************************************************************************)
(* Recursive ops cp (cmd/opspulse/cp.go, internal/sftp): a pool of workers *)
(* uploads or downloads the files of a directory over one SFTP client.     *)
(*                                                                         *)
(* Every file goes through a temporary file and is then moved into place.  *)
(* Each exchange with the server is a step that may fail, and a rename may *)
(* fail after it was made; no exchange has a deadline, so a server may     *)
(* leave any of them unanswered. The user may cancel at any time, and the  *)
(* first worker to notice closes the SFTP client that all of them share.   *)
(***************************************************************************)
EXTENDS Naturals, Sequences, FiniteSets

CONSTANTS Workers,      \* the goroutines of runBounded
          Files         \* the files, 1 .. N in the order they are listed

ASSUME FilesAssumption == Cardinality(Files) \in Nat /\ Files = 1 .. Cardinality(Files)

VARIABLES direction,    \* "upload" or "download"
          posix,        \* the server supports posix-rename
          producer,     \* runBounded: where it is and the next file
          worker,       \* worker[w]: where it is, its file, what failed
          stopped,      \* the stop channel is closed
          cancelled,    \* the context is cancelled
          client,       \* the SFTP client: "open", "closing" or "closed"
          dest,         \* dest[f]: what the destination of f holds
          parked,       \* parked[f]: what the sibling name of f holds
          temp,         \* temp[f]: what the temporary file of f holds
          existed,      \* the files whose destination existed before
          late,         \* <<w, f>>: w called fn with f after stop was closed
          faulty        \* an operation has failed of itself

files == <<dest, parked, temp>>
transfer == <<direction, posix>>
ghosts == <<existed, late>>
vars == <<transfer, producer, worker, stopped, cancelled, client, files, ghosts, faulty>>

Rest == [pc |-> "idle", file |-> 0]

Init == /\ direction \in {"upload", "download"}
        /\ posix \in BOOLEAN
        /\ existed \in SUBSET Files
        /\ producer = [pc |-> "prepare", next |-> 1, result |-> "none"]
        /\ worker = [w \in Workers |-> Rest]
        /\ stopped = FALSE
        /\ cancelled = FALSE
        /\ client = "open"
        /\ dest = [f \in Files |-> IF f \in existed THEN "old" ELSE "none"]
        /\ parked = [f \in Files |-> "none"]
        /\ temp = [f \in Files |-> "none"]
        /\ late = {}
        /\ faulty = FALSE

-----------------------------------------------------------------------------
(* runBounded                                                              *)

Producer(pc) == producer' = [producer EXCEPT !.pc = pc]
Result(result) == producer' = [producer EXCEPT !.pc = "returned", !.result = result]

(* UploadDirContext and DownloadDirContext: the tree is listed and every   *)
(* directory made before the first file is transferred.                    *)
Prepare ==
   /\ producer.pc = "prepare"
   /\ \/ Producer("send") /\ UNCHANGED faulty
      \/ Result("failed") /\ faulty' = TRUE
   /\ UNCHANGED <<transfer, worker, stopped, cancelled, client, files, ghosts>>

(* The select of the producer: a send that a worker receives...            *)
Send(w) ==
   /\ producer.pc = "send"
   /\ producer.next \in Files
   /\ worker[w].pc = "idle"
   /\ producer' = [producer EXCEPT !.next = @ + 1]
   /\ worker' = [worker EXCEPT ![w] = [pc |-> "received", file |-> producer.next]]
   /\ UNCHANGED <<transfer, stopped, cancelled, client, files, ghosts, faulty>>


(* ... or the closed stop channel. The jobs channel is closed either way.  *)
CloseJobs ==
   /\ producer.pc = "send"
   /\ producer.next \notin Files \/ stopped
   /\ Producer("wait")
   /\ UNCHANGED <<transfer, worker, stopped, cancelled, client, files, ghosts, faulty>>

(* wg.Wait, the first error, or else that of the context.                  *)
Return ==
   /\ producer.pc = "wait"
   /\ \A w \in Workers : worker[w].pc = "exited"
   /\ Result(IF stopped \/ cancelled THEN "failed" ELSE "ok")
   /\ UNCHANGED <<transfer, worker, stopped, cancelled, client, files, ghosts, faulty>>

Go(w, pc) == worker' = [worker EXCEPT ![w].pc = pc]

(* The select of a worker: jobs closed, or stop.                           *)
Leave(w) ==
   /\ worker[w].pc = "idle"
   /\ stopped \/ producer.pc = "wait"
   /\ Go(w, "exited")
   /\ UNCHANGED <<transfer, producer, stopped, cancelled, client, files, ghosts, faulty>>

(* Faulty: a file that was received is transferred.                        *)
TakeReceived(w) ==
   /\ worker[w].pc = "received"
   /\ Go(w, "cleared")
   /\ UNCHANGED <<transfer, producer, stopped, cancelled, client, files, ghosts, faulty>>

(* The second look at stop.                                                *)
Look(w) ==
   /\ worker[w].pc = "received"
   /\ Go(w, IF stopped THEN "exited" ELSE "cleared")
   /\ UNCHANGED <<transfer, producer, stopped, cancelled, client, files, ghosts, faulty>>

(* The call of fn, which first looks at the context. Another worker may    *)
(* have closed stop since the look.                                        *)
Begin(w) ==
   /\ worker[w].pc = "cleared"
   /\ late' = IF stopped THEN late \union {<<w, worker[w].file>>} ELSE late
   /\ Go(w, IF cancelled THEN "error" ELSE "temp")
   /\ UNCHANGED <<transfer, producer, stopped, cancelled, client, files, existed, faulty>>

(* once.Do: the first error closes stop; the worker returns.               *)
ReportError(w) ==
   /\ worker[w].pc = "error"
   /\ stopped' = TRUE
   /\ Go(w, "exited")
   /\ UNCHANGED <<transfer, producer, cancelled, client, files, ghosts, faulty>>

-----------------------------------------------------------------------------
(* One file. An operation over SFTP succeeds with its effect, or fails of  *)
(* itself, or because another worker has closed the client.                *)

Open == client = "open"
Works == Open /\ UNCHANGED faulty
Fails == IF Open THEN faulty' = TRUE ELSE UNCHANGED faulty
File(w) == worker[w].file
Uploading == direction = "upload"

(* createPrivateRemoteTemp: a command over SSH makes the file, SFTP calls  *)
(* secure it and remove it again if they cannot. os.CreateTemp.            *)
MakeTemp(w) ==
   /\ worker[w].pc = "temp"
   /\ \/ /\ Works
         /\ temp' = [temp EXCEPT ![File(w)] = "empty"]
         /\ Go(w, IF Uploading THEN "secure" ELSE "copy")
      \/ /\ Fails
         /\ Go(w, "error")
         /\ \/ UNCHANGED temp
            \/ Uploading /\ Open /\ temp' = [temp EXCEPT ![File(w)] = "empty"]
   /\ UNCHANGED <<transfer, producer, stopped, cancelled, client, dest, parked, ghosts>>

(* copyToRemoteFile then opens it, before it looks at the context.         *)
SecureTemp(w) ==
   /\ worker[w].pc = "secure"
   /\ \/ Works /\ Go(w, "copy") /\ UNCHANGED temp
      \/ Fails /\ Go(w, "clean") /\ UNCHANGED temp
      \/ /\ Fails
         /\ Go(w, "error")
         /\ \/ UNCHANGED temp
            \/ Open /\ temp' = [temp EXCEPT ![File(w)] = "none"]
   /\ UNCHANGED <<transfer, producer, stopped, cancelled, client, dest, parked, ghosts>>

(* The server answers the last read or write of a copy. The reader notices *)
(* a cancelled context only then.                                          *)
Answer(w) ==
   /\ worker[w].pc = "copy"
   /\ \/ /\ Works
         /\ temp' = [temp EXCEPT ![File(w)] = "new"]
         /\ Go(w, "install")
      \/ /\ IF cancelled THEN UNCHANGED faulty ELSE Fails
         /\ temp' = [temp EXCEPT ![File(w)] = "partial"]
         /\ Go(w, "clean")
   /\ UNCHANGED <<transfer, producer, stopped, cancelled, client, dest, parked, ghosts>>

(* copyToRemoteFile does not wait for the answer when it is cancelled: it  *)
(* closes the client that the workers share, which sends the server the    *)
(* end of the session and waits until the server has ended it too; only    *)
(* then do the pending requests fail. copyWithContext has nothing to close *)
(* and waits for its goroutine, that is, for the answer.                   *)
Abandon(w) ==
   /\ worker[w].pc = "copy"
   /\ Uploading
   /\ cancelled
   /\ client' = IF Open THEN "closing" ELSE client
   /\ temp' = [temp EXCEPT ![File(w)] = "partial"]
   /\ Go(w, "closing")
   /\ UNCHANGED <<transfer, producer, stopped, cancelled, dest, parked, ghosts, faulty>>

SessionEnds ==
   /\ client = "closing"
   /\ client' = "closed"
   /\ UNCHANGED <<transfer, producer, worker, stopped, cancelled, files, ghosts, faulty>>

Closed(w) ==
   /\ worker[w].pc = "closing"
   /\ client = "closed"
   /\ Go(w, "clean")
   /\ UNCHANGED <<transfer, producer, stopped, cancelled, client, files, ghosts, faulty>>

(* The renames of a file between its three names.                          *)
Install(f) == /\ dest' = [dest EXCEPT ![f] = temp[f]]
              /\ temp' = [temp EXCEPT ![f] = "none"]
ParkFile(f) == /\ parked' = [parked EXCEPT ![f] = dest[f]]
               /\ dest' = [dest EXCEPT ![f] = "none"]
Unpark(f) == /\ dest' = [dest EXCEPT ![f] = parked[f]]
             /\ parked' = [parked EXCEPT ![f] = "none"]

(* DownloadFileContext: chmod, close and os.Rename.                        *)
InstallDownload(w) ==
   /\ worker[w].pc = "install"
   /\ ~Uploading
   /\ \/ /\ Install(File(w))
         /\ Go(w, "done")
         /\ UNCHANGED faulty
      \/ /\ Go(w, "clean")
         /\ faulty' = TRUE
         /\ UNCHANGED <<dest, temp>>
   /\ UNCHANGED <<transfer, producer, stopped, cancelled, client, parked, ghosts>>

(* The file is closed and chmod set; then installRemoteFile: posix-rename, *)
(* which overwrites; any failure of it falls back on plain renames.        *)
InstallUpload(w) ==
   /\ worker[w].pc = "install"
   /\ Uploading
   /\ LET f == File(w)
      IN \/ /\ posix
            /\ Works
            /\ Install(f)
            /\ Go(w, "done")
         \/ /\ Go(w, "clean")
            /\ Fails
            /\ UNCHANGED <<temp, dest>>
         \/ /\ Go(w, "park")
            /\ IF posix THEN Fails ELSE UNCHANGED faulty
            /\ \/ UNCHANGED <<temp, dest>>
               \/ posix /\ Open /\ Install(f)
   /\ UNCHANGED <<transfer, producer, stopped, cancelled, client, parked, ghosts>>

(* Faulty: the destination is deleted before the second rename.            *)
DeleteExisting(w) ==
   /\ worker[w].pc = "park"
   /\ \/ /\ Works
         /\ dest' = [dest EXCEPT ![File(w)] = "none"]
         /\ Go(w, "move")
      \/ /\ Fails
         /\ Go(w, "clean")
         /\ UNCHANGED dest
   /\ UNCHANGED <<transfer, producer, stopped, cancelled, client, parked, temp, ghosts>>

(* Stat and the rename of an existing destination to a sibling. A failing  *)
(* Stat counts as no destination.                                          *)
Park(w) ==
   /\ worker[w].pc = "park"
   /\ LET f == File(w)
      IN \/ /\ IF dest[f] = "none" THEN UNCHANGED faulty ELSE Fails
            /\ Go(w, "move")
            /\ UNCHANGED <<dest, parked>>
         \/ /\ dest[f] # "none"
            /\ Works
            /\ ParkFile(f)
            /\ Go(w, "move parked")
         \/ /\ dest[f] # "none"
            /\ Fails
            /\ Go(w, "clean")
            /\ \/ UNCHANGED <<dest, parked>>
               \/ Open /\ ParkFile(f)
   /\ UNCHANGED <<transfer, producer, stopped, cancelled, client, temp, ghosts>>

(* The rename of the new file to the free name.                            *)
Move(w) ==
   /\ worker[w].pc \in {"move", "move parked"}
   /\ LET f == File(w)
      IN \/ /\ temp[f] # "none" /\ dest[f] = "none"
            /\ Works
            /\ Install(f)
            /\ Go(w, IF worker[w].pc = "move" THEN "done" ELSE "drop")
         \/ /\ IF Open /\ temp[f] # "none" /\ dest[f] = "none"
               THEN faulty' = TRUE ELSE UNCHANGED faulty
            /\ Go(w, IF worker[w].pc = "move" THEN "clean" ELSE "restore")
            /\ \/ UNCHANGED <<temp, dest>>
               \/ /\ Open /\ temp[f] # "none" /\ dest[f] = "none"
                  /\ Install(f)
   /\ UNCHANGED <<transfer, producer, stopped, cancelled, client, parked, ghosts>>

(* The parked file goes back, or stays where it is.                        *)
Restore(w) ==
   /\ worker[w].pc = "restore"
   /\ LET f == File(w)
      IN \/ /\ dest[f] = "none"
            /\ Works
            /\ Unpark(f)
         \/ /\ IF dest[f] = "none" THEN Fails ELSE UNCHANGED faulty
            /\ UNCHANGED <<parked, dest>>
   /\ Go(w, "clean")
   /\ UNCHANGED <<transfer, producer, stopped, cancelled, client, temp, ghosts>>

DropParked(w) ==
   /\ worker[w].pc = "drop"
   /\ \/ Works /\ parked' = [parked EXCEPT ![File(w)] = "none"]
      \/ Fails /\ UNCHANGED parked
   /\ Go(w, "done")
   /\ UNCHANGED <<transfer, producer, stopped, cancelled, client, dest, temp, ghosts>>

(* The next file.                                                          *)
FileDone(w) ==
   /\ worker[w].pc = "done"
   /\ worker' = [worker EXCEPT ![w] = Rest]
   /\ UNCHANGED <<transfer, producer, stopped, cancelled, client, files, ghosts, faulty>>

(* removeRemoteTemp: over SFTP, or over SSH when the client is closed. The *)
(* local temporary file is removed by a deferred os.Remove.                *)
Clean(w) ==
   /\ worker[w].pc = "clean"
   /\ \/ temp' = [temp EXCEPT ![File(w)] = "none"] /\ UNCHANGED faulty
      \/ faulty' = TRUE /\ UNCHANGED temp
   /\ Go(w, "error")
   /\ UNCHANGED <<transfer, producer, stopped, cancelled, client, dest, parked, ghosts>>

(* A signal.                                                               *)
Cancel ==
   /\ ~cancelled
   /\ producer.pc # "returned"
   /\ cancelled' = TRUE
   /\ UNCHANGED <<transfer, producer, worker, stopped, client, files, ghosts, faulty>>

Done == producer.pc = "returned" /\ UNCHANGED vars

Step(w) == \/ Leave(w) \/ Look(w) \/ Begin(w) \/ ReportError(w)
           \/ MakeTemp(w) \/ SecureTemp(w) \/ Answer(w) \/ Abandon(w) \/ Closed(w)
           \/ InstallDownload(w) \/ InstallUpload(w) \/ Park(w)
           \/ Move(w) \/ Restore(w) \/ DropParked(w) \/ FileDone(w) \/ Clean(w)
Pool == CloseJobs \/ Return \/ \E w \in Workers : Send(w)
Next == Pool \/ Prepare \/ Cancel \/ SessionEnds \/ Done \/ \E w \in Workers : Step(w)

(* What waits for the server, without a deadline and without an eye on the *)
(* context: listing the tree and making directories; every request over    *)
(* SFTP unless the client has closed it; the cleanup of an upload, which   *)
(* turns to SSH when SFTP fails; and the end of the session.               *)
Requests == {"temp", "secure", "install", "park", "move", "move parked", "restore", "drop"}
AwaitsServer(w) ==
   LET pc == worker[w].pc
   IN \/ pc \in Requests /\ client # "closed" /\ (pc = "install" => Uploading)
      \/ pc = "copy" /\ ~(Uploading /\ cancelled)
      \/ pc = "closing" /\ client = "closing"
      \/ pc = "clean" /\ Uploading
Awaiting == producer.pc = "prepare" \/ \E w \in Workers : AwaitsServer(w)

(* Goroutines are scheduled. Nothing is assumed of the server.             *)
Spec == /\ Init /\ [][Next]_vars
        /\ WF_vars(Pool)
        /\ \A w \in Workers : WF_vars(~AwaitsServer(w) /\ Step(w))

-----------------------------------------------------------------------------
(* pool.go:5-7 "Once a call fails, no new work is intentionally            *)
(* dispatched": a worker that had looked at stop before it was closed      *)
(* still calls fn, but for one file only, and the one that closed it for   *)
(* none. The producer may go on handing out files meanwhile.               *)
OneMoreEach ==
   /\ \A w \in Workers, f, g \in Files : <<w, f>> \in late /\ <<w, g>> \in late => f = g
   /\ stopped => \E w \in Workers : \A f \in Files : <<w, f>> \notin late

(* pool.go:7-8: the error is returned when no worker is running any more,  *)
(* so that the caller may close the client.                                *)
WorkersGone ==
   producer.pc = "returned" => \A w \in Workers : worker[w].pc \in {"idle", "exited"}

(* A destination is never torn, and one that existed always survives whole *)
(* under its own name or parked beside it, whichever rename fails, and     *)
(* whoever closes the client between two of them (installRemoteFile).      *)
DestinationWhole ==
   \A f \in Files : /\ dest[f] \in {"none", "old", "new"}
                    /\ f \in existed => dest[f] # "none" \/ parked[f] # "none"

(* A transfer that reports success has put every file in place.            *)
SuccessIsAll ==
   producer.result = "ok" => \A f \in Files : dest[f] = "new"

(* What a transfer leaves behind when it returns, and at any moment before.*)
TransferSafe == WorkersGone /\ DestinationWhole /\ SuccessIsAll


-----------------------------------------------------------------------------
(* What the documentation says and the code does not keep (see the README).*)

(* pool.go:38-41 "so no post-failure item starts after the in-flight work  *)
(* has been accounted for".                                                *)
NothingAfterError == late = {}

(* client.go:89-90 and 358-359 "aborts on context cancellation".           *)
CancelledReturns == cancelled ~> producer.pc = "returned"

(* client.go:89-90 "The remote temporary file is removed before            *)
(* returning", when the transfer is cancelled and nothing else goes wrong. *)
TempsRemoved ==
   producer.pc = "returned" /\ ~faulty => \A f \in Files : temp[f] = "none"

(* client.go:337-339 "Both copies are left in place on purpose", when the  *)
(* parked file could not be put back: UploadFileContext then removes the   *)
(* new one (client.go:141), as after a rename to the sibling that was made *)
(* though it was reported to have failed.                                  *)
BothCopiesKept ==
   [][\A w \in Workers, f \in Files :
         dest[f] = "none" /\ parked[f] = "old" /\ temp[f] = "new"
         /\ worker[w].pc = "clean" /\ worker[w].file = f => temp'[f] = "new"]_vars
=============================================================================
