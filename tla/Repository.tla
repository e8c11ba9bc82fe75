------------------------------ MODULE Repository ------------------------------
(***************************************************************************)
(* The restic repository that the jobs of backups.yaml share, and the      *)
(* scripts that use it (internal/backup/script.go): the backup script,     *)
(* which initializes a missing repository, takes a snapshot and applies    *)
(* the retention of its job, and the snapshot list from which a restore    *)
(* takes the latest.                                                       *)
(*                                                                         *)
(* One restic command is one step: restic locks the repository. Any may    *)
(* fail, before or after it took effect. What restic does with its flags   *)
(* is external: Matches, Expired and Initialize.                           *)
(***************************************************************************)
EXTENDS Naturals, FiniteSets

CONSTANTS Jobs,         \* names of jobs
          Hosts,        \* inventory servers
          Scripts,      \* executions of the backup script
          Plans,        \* sets of executions that may take place together
          JobOf,        \* JobOf[x]: the job that execution x backs up
          PathsOf,      \* PathsOf[j]: the paths of job j
          KeepLast,     \* KeepLast[j]: keep_last of its retention, 0 if none
          Homes,        \* servers that the jobs may name at first
          MaxMoves,     \* bound on the edits of a job's server
          NoSnapshot

ASSUME RepositoryAssumption ==
   /\ JobOf \in [Scripts -> Jobs]
   /\ KeepLast \in [Jobs -> Nat]
   /\ Plans \subseteq SUBSET Scripts
   /\ Homes \subseteq [Jobs -> Hosts]

VARIABLES server,       \* server[j]: the server that job j names
          present,      \* the backend holds a repository
          snapshots,    \* the snapshots in it
          taken,        \* snapshots taken: their times are 1 .. taken
          script,       \* script[x]: the next restic command of execution x
          restored,     \* what the last restore of the latest snapshot took
          moves         \* edits made

repository == <<server, present, snapshots, taken, script, restored, moves>>

JobTag(j) == <<"job", j>>
HostTag(h) == <<"host", h>>

InitRepository ==
   /\ server \in Homes
   /\ present \in BOOLEAN
   /\ snapshots = {}
   /\ taken = 0
   /\ \E plan \in Plans :
         script = [x \in Scripts |-> IF x \in plan THEN "idle" ELSE "never"]
   /\ restored = NoSnapshot
   /\ moves = 0

-----------------------------------------------------------------------------
(* restic: --tag flags are alternatives, --host is a condition.            *)
Matches(flags, s) == /\ flags.tags \intersect s.tags # {}
                     /\ s.host \in flags.hosts

(* restic forget: the policy applies to each group of one host and one set *)
(* of paths; without a rule nothing is removed.                            *)
Expired(flags, keep, all) ==
   {s \in all : /\ Matches(flags, s)
                /\ keep > 0
                /\ Cardinality({t \in all : /\ Matches(flags, t)
                                            /\ t.host = s.host
                                            /\ t.paths = s.paths
                                            /\ t.at > s.at}) >= keep}

(* restic init refuses an existing repository.                             *)
Initialize == /\ ~present
              /\ present' = TRUE

(* Faulty: the retention is limited to the tags.                           *)
FlagsWithoutHost(j) == [tags |-> {JobTag(j), HostTag(server[j])}, hosts |-> Hosts]

(* The flags that select the snapshots of a job.                           *)
Flags(j) == [tags |-> {JobTag(j), HostTag(server[j])}, hosts |-> {server[j]}]

Goto(x, pc) == script' = [script EXCEPT ![x] = pc]

Fail(x) == /\ Goto(x, "failed")
           /\ UNCHANGED <<server, present, snapshots, taken, restored, moves>>

(* restic snapshots finds the repository, or that there is none, or fails  *)
(* in another way, which ends the script.                                  *)
Check(x) ==
   /\ script[x] = "check"
   /\ Goto(x, IF present THEN "backup" ELSE "init")
   /\ UNCHANGED <<server, present, snapshots, taken, restored, moves>>

(* restic init. A script that found none before another made one fails.    *)
InitRepo(x) ==
   /\ script[x] = "init"
   /\ Initialize
   /\ Goto(x, "backup")
   /\ UNCHANGED <<server, snapshots, taken, restored, moves>>

HasKeepRule(j) == KeepLast[j] > 0

(* restic backup of the job's paths. With unreadable files it takes the    *)
(* snapshot and still exits with an error.                                 *)
Backup(x) ==
   /\ script[x] = "backup"
   /\ LET j == JobOf[x] IN
      /\ taken' = taken + 1
      /\ snapshots' = snapshots \union
            {[tags |-> {JobTag(j), HostTag(server[j])}, host |-> server[j],
              paths |-> PathsOf[j], job |-> j, by |-> x, at |-> taken']}
      /\ \E complete \in BOOLEAN :
            Goto(x, IF ~complete THEN "failed"
                    ELSE IF HasKeepRule(j) THEN "forget" ELSE "success")
   /\ UNCHANGED <<server, present, restored, moves>>

(* restic forget --prune.                                                  *)
Forget(x) ==
   /\ script[x] = "forget"
   /\ LET j == JobOf[x] IN
      snapshots' = snapshots \ Expired(Flags(j), KeepLast[j], snapshots)
   /\ Goto(x, "success")
   /\ UNCHANGED <<server, present, taken, restored, moves>>

Step(x) == \/ Check(x) \/ InitRepo(x) \/ Backup(x) \/ Forget(x)
           \/ /\ script[x] \in {"check", "init", "backup", "forget"}
              /\ Fail(x)

StartScript(x) == /\ script[x] = "idle"
                  /\ Goto(x, "check")

-----------------------------------------------------------------------------
(* ListSnapshots: the same flags.                                          *)
Listed(j) == {s \in snapshots : Matches(Flags(j), s)}

(* resolveLatestSnapshot of a restore of job j.                            *)
RestoreLatest(j) ==
   /\ \E s \in Listed(j) : /\ \A t \in Listed(j) : t.at <= s.at
                           /\ restored' = [job |-> j, snapshot |-> s]
   /\ UNCHANGED <<server, present, snapshots, taken, script, moves>>

(* The operator edits the server of a job that is not running.             *)
Move(j) ==
   /\ moves < MaxMoves
   /\ \A x \in Scripts : JobOf[x] = j => script[x] \in {"never", "idle", "success", "failed"}
   /\ \E h \in Hosts \ {server[j]} : server' = [server EXCEPT ![j] = h]
   /\ moves' = moves + 1
   /\ UNCHANGED <<present, snapshots, taken, script, restored>>

AllEnded == /\ \A x \in Scripts : script[x] \in {"never", "success", "failed"}
            /\ UNCHANGED repository

RepositoryNext == \/ \E x \in Scripts : \/ Step(x)
                             \/ /\ StartScript(x)
                                /\ UNCHANGED <<server, present, snapshots, taken,
                                               restored, moves>>
        \/ \E j \in Jobs : RestoreLatest(j) \/ Move(j)
        \/ AllEnded

RepositorySpec == InitRepository /\ [][RepositoryNext]_repository

-----------------------------------------------------------------------------
(* The retention of a job, and the latest snapshot that its restore takes, *)
(* never reach the snapshots of another server, and so not those that the  *)
(* job itself has left on the server it named before (script.go:129-138    *)
(* and 167-184).                                                           *)
HostsApart ==
   [][/\ \A s \in snapshots \ snapshots' :
            \E x \in Scripts : /\ script'[x] # script[x]
                               /\ s.host = server[JobOf[x]]
      /\ restored' # restored => restored'.snapshot.host = server[restored'.job]]_repository
=============================================================================
