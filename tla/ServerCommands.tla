---------------------------- MODULE ServerCommands ----------------------------
(***************************************************************************)
(* The commands that maintain the inventory (ops add, ops server remove,   *)
(* rename, set, edit and setup-key: cmd/opspulse/server*.go) and export it *)
(* (ops export ssh-config) over everything they change: servers.yaml, the  *)
(* private keys and the config file under ~/.ssh, the jobs of backups.yaml *)
(* and the authorized keys of the hosts.                                   *)
(*                                                                         *)
(* One command runs at a time, one external effect per step. Every write,  *)
(* test and remote installation may fail, an installation may fail after   *)
(* it was made, and the process may be killed between any two steps. Each  *)
(* operation of server.Store is one step: ServerStore shows that it is.    *)
(***************************************************************************)
EXTENDS ServerInventory, SSHConfig

CONSTANTS Hosts,        \* the remote hosts
          KeyHosts,     \* those whose sshd accepts public keys at all
          AgentHosts,   \* those that know a key of an SSH agent that is running
          Jobs,         \* jobs of backups.yaml
          Typed,        \* the spellings of key paths that the operator types
          Starts,       \* what earlier commands have left (StartTypeOK)
          Configs,      \* contents of ~/.ssh/config, which the operator edits freely
          MaxCommands,  \* bound on the commands
          MaxKeys       \* bound on the key pairs that ssh-keygen makes

(***************************************************************************)
(* Paths of private keys. Gen(n) is opspulse_<n>, which setup-key and add  *)
(* generate; Copy(n) is opspulse_<n>.key, to which add and set copy a key  *)
(* from outside ~/.ssh. Both are managed: OpsPulse may delete them.        *)
(***************************************************************************)
Own == <<"id_ed25519">>
Outside == <<"outside">>
Gen(n) == <<"opspulse", n>>
Copy(n) == <<"opspulse", n, "key">>
Managed == {Gen(n) : n \in Names} \union {Copy(n) : n \in Names}
Paths == Managed \union {Own, Outside}

(* The key of an entry is a path as it was written: from the home          *)
(* directory (~/...), absolute, or absolute with a detour (/home/u/./...), *)
(* which expandHome leaves as it is.                                       *)
NoKey == <<>>
Spellings == {"home", "absolute", "detour"}
Keys == Spellings \X Paths
Home(path) == <<"home", path>>
Expanded(key) == <<IF key[1] = "home" THEN "absolute" ELSE key[1], key[2]>>

Servers == [jump : Names \union {NoJump}, host : Hosts, key : Keys \union {NoKey},
            password : BOOLEAN]

(* The inventory, the server that each job names, the operator's own key   *)
(* (0 if there is none), the keys that the hosts know, and whether the     *)
(* public keys beside the managed ones belong to others.                   *)
StartTypeOK(start) == /\ DOMAIN start.servers \subseteq Names
                      /\ start.servers \in [DOMAIN start.servers -> Servers]
                      /\ start.jobs \in [Jobs -> Names]
                      /\ start.own \in Nat
                      /\ start.known \subseteq Nat
                      /\ start.stale \in BOOLEAN

(* An earlier export has written what stands between the two markers; what *)
(* stands elsewhere is the operator's.                                     *)
ASSUME CommandsAssumption ==
   /\ KeyHosts \subseteq Hosts
   /\ AgentHosts \subseteq KeyHosts
   /\ Typed \subseteq Spellings
   /\ \A start \in Starts : StartTypeOK(start)
   /\ \A config \in Configs :
         /\ config \in Seq({config[i] : i \in DOMAIN config})
         /\ Updatable(config) => \A i \in DOMAIN config :
               /\ config[i][1] = "entries" => Inside(config, i)
               /\ config[i][1] = "text" => ~ Inside(config, i)

VARIABLES servers,      \* servers.yaml
          jobs,         \* jobs[j]: the server that job j names
          file,         \* file[path]: the key at path, 0 if there is none
          public,       \* public[path]: the key that path.pub belongs to, or 0
          authorized,   \* authorized[h]: the keys in authorized_keys of h
          cmd,          \* the running command and its locals
          outcome,      \* how the last command ended
          commands,     \* commands started
          made          \* key pairs generated

commandVars == <<servers, jobs, file, public, authorized, cmd, outcome, commands, made>>
keys == <<file, public>>
world == <<servers, jobs, keys, authorized>>
counters == <<commands, made>>

Idle == [op |-> "none", pc |-> "idle"]

(* IsKeyUsedByOtherServers compares what the paths expand to.              *)
UsedByOthers(name, key) ==
   \E n \in DOMAIN servers \ {name} : /\ servers[n].key # NoKey
                                     /\ Expanded(servers[n].key) = Expanded(key)

(* Keys 1 and 2 are the operator's own and one on another disk, of which a *)
(* managed path that is in use holds a copy.                               *)
InitCommands ==
   /\ \E start \in Starts :
         LET used(p) == \E n \in DOMAIN start.servers :
                           start.servers[n].key # NoKey /\ start.servers[n].key[2] = p
         IN  /\ servers = start.servers
             /\ jobs = start.jobs
             /\ file = [p \in Paths |-> IF p = Own THEN start.own
                                       ELSE IF p = Outside \/ used(p) THEN 2 ELSE 0]
             /\ public = [p \in Paths |-> IF p = Own THEN start.own
                                         ELSE IF used(p) /\ start.stale THEN 1
                                         ELSE IF used(p) THEN 2 ELSE 0]
             /\ authorized = [h \in Hosts |-> start.known]
   /\ cmd = Idle
   /\ outcome = "ok"
   /\ commands = 0
   /\ made = 2

-----------------------------------------------------------------------------
(* buildClientConfig: the keys of a running agent, and besides them one    *)
(* method: the bound key, which must load, or else the password, or else   *)
(* the default key.                                                        *)
KeyWorks(record) == /\ record.key # NoKey
                    /\ file[record.key[2]] \in authorized[record.host]
                    /\ record.host \in KeyHosts
AgentWorks(record) == record.host \in AgentHosts
Login(record) ==
   IF record.key # NoKey
   THEN file[record.key[2]] # 0 /\ (KeyWorks(record) \/ AgentWorks(record))
   ELSE \/ record.password
        \/ AgentWorks(record)
        \/ KeyWorks([record EXCEPT !.key = Home(Own)])

(* The private key and its public half.                                    *)
DeleteKey(path) == /\ file' = [file EXCEPT ![path] = 0]
                   /\ public' = [public EXCEPT ![path] = 0]

Goto(pc) == cmd' = [cmd EXCEPT !.pc = pc]

Finish(how) == /\ cmd' = Idle
               /\ outcome' = how

Start(command) == /\ cmd = Idle
                  /\ commands < MaxCommands
                  /\ commands' = commands + 1
                  /\ cmd' = command
                  /\ UNCHANGED <<world, outcome, made>>

At(op, pc) == cmd.op = op /\ cmd.pc = pc

(* ensureSSHKeyPair: existing files are used again, a public key that is   *)
(* missing is derived from the private one.                                *)
EnsureKeyPair(path) ==
   \/ /\ file[path] # 0
      /\ public' = [public EXCEPT ![path] = IF @ # 0 THEN @ ELSE file[path]]
      /\ UNCHANGED <<file, made>>
   \/ /\ file[path] = 0
      /\ made < MaxKeys
      /\ made' = made + 1
      /\ file' = [file EXCEPT ![path] = made']
      /\ public' = [public EXCEPT ![path] = made']

(* installPublicKeyScript, with what stands in path.pub.                   *)
Authorize(host, path) ==
   authorized' = [authorized EXCEPT ![host] = @ \union {public[path]}]

-----------------------------------------------------------------------------
(* Server.Validate: the fields, whose syntax is abstracted, and no server  *)
(* is its own jump host.                                                   *)
Valid(name, record) == record.jump # name

(* What -i and --key may name: a key that exists.                          *)
Given == {NoKey} \union {key \in Typed \X Paths : file[key[2]] # 0}

(* runServerAdd. The jump host must be in the inventory. An entry of the   *)
(* same name is replaced.                                                  *)
StartAdd ==
   /\ cmd = Idle
   /\ \E n \in Names, h \in Hosts, key \in Given, pw, tested \in BOOLEAN,
         jump \in {NoJump} \union DOMAIN servers :
         LET record == [jump |-> jump, host |-> h, key |-> key, password |-> pw] IN
         /\ Valid(n, record)
         /\ Start([op |-> "add", pc |-> "secure", name |-> n,
                   next |-> IF tested THEN "test" ELSE "save",
                   given |-> pw, copied |-> FALSE, target |-> NoKey, record |-> record])

(* ResolveAndSecureKeyPath: a key outside ~/.ssh is copied, without its    *)
(* public half, over whatever is at the managed path, unless the operator  *)
(* declines; or this fails.                                                *)
SecureKey ==
   /\ cmd.op \in {"add", "set"} /\ cmd.pc = "secure"
   /\ \/ /\ cmd.record.key \in Spellings \X {Outside}
         /\ file' = [file EXCEPT ![Copy(cmd.name)] = file[Outside]]
         /\ cmd' = [cmd EXCEPT !.record.key = Home(Copy(cmd.name)), !.copied = TRUE,
                               !.pc = cmd.next]
         /\ UNCHANGED outcome
      \/ Goto(cmd.next) /\ UNCHANGED <<file, outcome>>
      \/ cmd.record.key # NoKey /\ Finish("failed") /\ UNCHANGED file
   /\ UNCHANGED <<servers, jobs, public, authorized, counters>>

(* What add does about its copy when it gives up.                          *)
DiscardCopy == IF cmd.copied THEN DeleteKey(Copy(cmd.name)) ELSE UNCHANGED keys

(* The connection test: the login works, or it or the network does not.    *)
AddTest ==
   /\ At("add", "test")
   /\ \/ /\ Login(cmd.record)
         /\ Goto(IF cmd.record.key = NoKey /\ cmd.given THEN "inject" ELSE "save")
         /\ UNCHANGED <<keys, outcome>>
      \/ DiscardCopy /\ Finish("failed")
   /\ UNCHANGED <<servers, jobs, authorized, counters>>

(* handlePublicKeyInjection: the operator's default key if both halves are *)
(* there, a generated one otherwise, is installed with the password,       *)
(* unless it is declined or fails; a failure may come after the            *)
(* installation.                                                           *)
Inject ==
   /\ At("add", "inject")
   /\ LET path == IF file[Own] # 0 /\ public[Own] # 0 THEN Own ELSE Gen(cmd.name) IN
      \/ EnsureKeyPair(path) /\ cmd' = [cmd EXCEPT !.target = Home(path), !.pc = "install"]
      \/ Goto("save") /\ UNCHANGED <<keys, made>>
   /\ UNCHANGED <<servers, jobs, authorized, outcome, commands>>

InjectInstall ==
   /\ At("add", "install")
   /\ \/ Authorize(cmd.record.host, cmd.target[2]) /\ Goto("probe")
      \/ Authorize(cmd.record.host, cmd.target[2]) /\ Goto("save")
      \/ Goto("save") /\ UNCHANGED authorized
   /\ UNCHANGED <<servers, jobs, keys, outcome, counters>>

(* The record takes the key for the password when it logs in without one.  *)
InjectProbe ==
   /\ At("add", "probe")
   /\ LET upgraded == [cmd.record EXCEPT !.key = cmd.target, !.password = FALSE] IN
      \/ Login(upgraded) /\ cmd' = [cmd EXCEPT !.record = upgraded, !.pc = "save"]
      \/ Goto("save")
   /\ UNCHANGED <<world, outcome, counters>>

AddSave ==
   /\ At("add", "save")
   /\ \/ /\ Accepted(Save(cmd.name, cmd.record), servers)
         /\ servers' = Saved(servers, cmd.name, cmd.record)
         /\ Finish("ok")
         /\ UNCHANGED keys
      \/ DiscardCopy /\ Finish("failed") /\ UNCHANGED servers
   /\ UNCHANGED <<jobs, authorized, counters>>

-----------------------------------------------------------------------------
(* ops server remove: refused while other servers jump through the server, *)
(* unless the inventory could not be read for this question.               *)
StartRemove ==
   \E n \in DOMAIN servers, keep, unread \in BOOLEAN :
      /\ unread \/ Dependents(servers, n) = {}
      /\ Start([op |-> "remove", pc |-> "confirm", name |-> n, keep |-> keep,
                unread |-> unread, old |-> servers[n].key])

(* jobsReferencingServer: the backup jobs that name the server.            *)
Referring(name) == {j \in Jobs : jobs[j] = name}

(* --yes, or the operator agrees to the removal, and once more if backup   *)
(* jobs, which are left as they are, name the server. A shell that is not  *)
(* interactive cannot agree.                                               *)
ConfirmRemoval ==
   /\ cmd.op = "remove"
   /\ \/ /\ cmd.pc = "confirm"
         /\ Goto(IF Referring(cmd.name) = {} THEN "delete" ELSE "jobs")
         /\ UNCHANGED outcome
      \/ cmd.pc = "jobs" /\ Goto("delete") /\ UNCHANGED outcome
      \/ cmd.pc \in {"confirm", "jobs"} /\ Finish("failed")
   /\ UNCHANGED <<world, counters>>

RemoveEntry ==
   /\ At("remove", "delete")
   /\ \/ servers' = Deleted(servers, cmd.name) /\ Goto("clean") /\ UNCHANGED outcome
      \/ Finish("failed") /\ UNCHANGED servers
   /\ UNCHANGED <<jobs, keys, authorized, counters>>

(* CleanupManagedKeyWithRefCheck, which does nothing if it cannot read.    *)
Disposable == cmd.old # NoKey /\ cmd.old[2] \in Managed /\ ~ cmd.keep

(* Faulty: the key goes with its entry. *)
CleanKeyUnchecked ==
   /\ cmd.pc = "clean"
   /\ IF Disposable THEN DeleteKey(cmd.old[2]) ELSE UNCHANGED keys
   /\ Finish("ok")
   /\ UNCHANGED <<servers, jobs, authorized, counters>>
CleanKey ==
   /\ cmd.pc = "clean"
   /\ \/ Disposable /\ ~ UsedByOthers(cmd.name, cmd.old) /\ DeleteKey(cmd.old[2])
      \/ UNCHANGED keys
   /\ Finish("ok")
   /\ UNCHANGED <<servers, jobs, authorized, counters>>

-----------------------------------------------------------------------------
(* ops server set --key, with a path or with "". The key is secured before *)
(* the entry is looked up, and stays copied when there is none.            *)
StartSet ==
   /\ cmd = Idle
   /\ \E n \in Names, key \in Given :
         Start([op |-> "set", pc |-> "secure", next |-> "save", name |-> n, copied |-> FALSE,
                keep |-> FALSE, old |-> NoKey, record |-> [key |-> key]])

(* setServerFields: the key it replaces is cleaned up after the write, if  *)
(* its path was written in another way.                                    *)
SetSave ==
   /\ At("set", "save")
   /\ \/ /\ cmd.name \in DOMAIN servers
         /\ LET old == servers[cmd.name] IN
               /\ servers' = Saved(servers, cmd.name, [old EXCEPT !.key = cmd.record.key])
               /\ IF old.key \in {NoKey, cmd.record.key}
                  THEN Finish("ok")
                  ELSE cmd' = [cmd EXCEPT !.old = old.key, !.pc = "clean"] /\ UNCHANGED outcome
      \/ Finish("failed") /\ UNCHANGED servers
   /\ UNCHANGED <<jobs, keys, authorized, counters>>

-----------------------------------------------------------------------------
(* editServerConfig: a copy of servers.yaml as it is when the editor opens *)
(* replaces the file when it closes. The operator may leave the server out *)
(* which the command names, or make the jump hosts a loop.                 *)
Drafts == {Deleted(servers, n) : n \in DOMAIN servers} \union
          {Saved(servers, n, [servers[n] EXCEPT !.jump = jump]) :
              n \in DOMAIN servers, jump \in {NoJump} \union Names}

StartEdit ==
   \E n \in DOMAIN servers, draft \in Drafts :
      Start([op |-> "edit", pc |-> "save", name |-> n, draft |-> draft])

EditSave ==
   /\ At("edit", "save")
   /\ \/ /\ Accepted(Replace(cmd.draft), servers)
         /\ cmd.name \in DOMAIN cmd.draft
         /\ servers' = cmd.draft
         /\ Finish("ok")
      \/ Finish("failed") /\ UNCHANGED servers
   /\ UNCHANGED <<jobs, keys, authorized, counters>>

-----------------------------------------------------------------------------
(* ops export ssh-config --write, and server setup --write-config. The     *)
(* servers may be filtered; without any, a file that has no block is left  *)
(* alone.                                                                  *)
StartExport ==
   \E chosen \in SUBSET DOMAIN servers, config \in Configs :
      /\ chosen # {} \/ HasBlock(config)
      /\ Start([op |-> "export", pc |-> "merge", before |-> config,
                config |-> config, backup |-> <<>>,
                block |-> Rendered([n \in chosen |-> servers[n]])])

(* UpdateSSHConfigFile: the file is read, and the new one written beside   *)
(* it.                                                                     *)
MergeConfig ==
   /\ At("export", "merge")
   /\ \/ Updatable(cmd.config) /\ Goto("rename") /\ UNCHANGED outcome
      \/ Finish("failed")
   /\ UNCHANGED <<world, counters>>

WithConfig(config, backup, pc) ==
   cmd' = [cmd EXCEPT !.config = config, !.backup = backup, !.pc = pc]

(* Where a file cannot be renamed over another, the old one is moved out   *)
(* of the way first, and back when the second attempt fails, if it can be. *)
(* Faulty: the old file is removed first. *)
ReplaceConfigRemoving ==
   /\ At("export", "rename")
   /\ \/ WithConfig(Merged(cmd.config, cmd.block), <<>>, "written") /\ UNCHANGED outcome
      \/ WithConfig(<<>>, <<>>, "retry") /\ UNCHANGED outcome
      \/ Finish("failed")
   /\ UNCHANGED <<world, counters>>
ReplaceConfig ==
   /\ At("export", "rename")
   /\ \/ WithConfig(Merged(cmd.config, cmd.block), <<>>, "written") /\ UNCHANGED outcome
      \/ WithConfig(<<>>, cmd.config, "retry") /\ UNCHANGED outcome
      \/ Finish("failed")
   /\ UNCHANGED <<world, counters>>

RetryReplace ==
   /\ At("export", "retry")
   /\ \/ WithConfig(Merged(cmd.backup, cmd.block), <<>>, "written")
      \/ WithConfig(cmd.backup, <<>>, "torn")
      \/ WithConfig(<<>>, cmd.backup, "torn")
   /\ UNCHANGED <<world, outcome, counters>>

ExportEnds ==
   /\ cmd.op = "export"
   /\ \/ cmd.pc = "written" /\ Finish("ok")
      \/ cmd.pc = "torn" /\ Finish("failed")
   /\ UNCHANGED <<world, counters>>

-----------------------------------------------------------------------------
(* ops server rename: the inventory first, then backups.yaml; the former   *)
(* is renamed back if the latter cannot be written.                        *)
Hosting(j) == IF jobs[j] \in DOMAIN servers THEN servers[jobs[j]].host ELSE NoJump

StartRename ==
   \E old \in DOMAIN servers, new \in Names \ DOMAIN servers :
      Start([op |-> "rename", pc |-> "entry", name |-> old, new |-> new,
             hosting |-> [j \in Jobs |-> Hosting(j)]])

RenameEntry ==
   /\ At("rename", "entry")
   /\ \/ /\ servers' = Renamed(servers, cmd.name, cmd.new)
         /\ Goto("jobs")
         /\ UNCHANGED outcome
      \/ Finish("failed") /\ UNCHANGED servers
   /\ UNCHANGED <<jobs, keys, authorized, counters>>

(* RenameServerReferences fails as a whole, or not at all.                 *)
(* Faulty: a failure is reported and the new name stays. *)
RenameJobsOnly ==
   /\ At("rename", "jobs")
   /\ \/ /\ jobs' = [j \in Jobs |-> IF jobs[j] = cmd.name THEN cmd.new ELSE jobs[j]]
         /\ Finish("ok")
      \/ Finish("failed") /\ UNCHANGED jobs
   /\ UNCHANGED <<servers, keys, authorized, counters>>
RenameJobs ==
   /\ At("rename", "jobs")
   /\ \/ /\ jobs' = [j \in Jobs |-> IF jobs[j] = cmd.name THEN cmd.new ELSE jobs[j]]
         /\ Finish("ok")
      \/ Goto("rollback") /\ UNCHANGED <<jobs, outcome>>
   /\ UNCHANGED <<servers, keys, authorized, counters>>

RollBack ==
   /\ At("rename", "rollback")
   /\ \/ servers' = Renamed(servers, cmd.new, cmd.name) /\ Finish("failed")
      \/ Finish("torn") /\ UNCHANGED servers
   /\ UNCHANGED <<jobs, keys, authorized, counters>>

-----------------------------------------------------------------------------
(* ops server setup-key, with and without --remove-password.               *)
StartSetup ==
   \E n \in DOMAIN servers, drop \in BOOLEAN :
      /\ servers[n].password
      /\ Start([op |-> "setup", pc |-> "pair", name |-> n, drop |-> drop,
                given |-> TRUE, record |-> servers[n]])

SetupPair ==
   /\ At("setup", "pair")
   /\ \/ EnsureKeyPair(Gen(cmd.name)) /\ Goto("install") /\ UNCHANGED outcome
      \/ Finish("failed") /\ UNCHANGED <<keys, made>>
   /\ UNCHANGED <<servers, jobs, authorized, commands>>

SetupInstall ==
   /\ At("setup", "install")
   /\ \/ /\ Authorize(cmd.record.host, Gen(cmd.name))
         /\ cmd' = [cmd EXCEPT !.pc = "bind", !.record.key = Home(Gen(cmd.name))]
         /\ UNCHANGED outcome
      \/ Authorize(cmd.record.host, Gen(cmd.name)) /\ Finish("failed")
      \/ Finish("failed") /\ UNCHANGED authorized
   /\ UNCHANGED <<servers, jobs, keys, counters>>

SetupBind ==
   /\ At("setup", "bind")
   /\ \/ /\ servers' = Saved(servers, cmd.name, cmd.record)
         /\ IF cmd.drop THEN Goto("probe") /\ UNCHANGED outcome ELSE Finish("ok")
      \/ Finish("failed") /\ UNCHANGED servers
   /\ UNCHANGED <<jobs, keys, authorized, counters>>

(* removePasswordAfterKeyVerification: the probe has no password to fall   *)
(* back to, but it has the agent.                                          *)
(* Faulty: the probe connects with the saved password. *)
SetupProbeWithPassword ==
   /\ At("setup", "probe")
   /\ \/ /\ Login([cmd.record EXCEPT !.key = NoKey])
         /\ cmd' = [cmd EXCEPT !.pc = "drop", !.record.password = FALSE]
         /\ UNCHANGED outcome
      \/ Finish("failed")
   /\ UNCHANGED <<world, counters>>
SetupProbe ==
   /\ At("setup", "probe")
   /\ LET bare == [cmd.record EXCEPT !.password = FALSE] IN
      \/ Login(bare) /\ cmd' = [cmd EXCEPT !.pc = "drop", !.record = bare] /\ UNCHANGED outcome
      \/ Finish("failed")
   /\ UNCHANGED <<world, counters>>

DropPassword ==
   /\ At("setup", "drop")
   /\ \/ servers' = Saved(servers, cmd.name, cmd.record) /\ Finish("ok")
      \/ Finish("failed") /\ UNCHANGED servers
   /\ UNCHANGED <<jobs, keys, authorized, counters>>

-----------------------------------------------------------------------------
(* The process is killed.                                                  *)
Kill == /\ cmd # Idle
        /\ Finish("killed")
        /\ UNCHANGED <<world, counters>>

NoMoreCommands ==
   /\ cmd = Idle
   /\ commands >= MaxCommands
   /\ UNCHANGED commandVars

NextCommand ==
        \/ StartAdd \/ SecureKey \/ AddTest \/ Inject \/ InjectInstall
        \/ InjectProbe \/ AddSave
        \/ StartRemove \/ ConfirmRemoval \/ RemoveEntry \/ CleanKey
        \/ StartSet \/ SetSave \/ StartEdit \/ EditSave
        \/ StartExport \/ MergeConfig \/ ReplaceConfig \/ RetryReplace \/ ExportEnds
        \/ StartRename \/ RenameEntry \/ RenameJobs \/ RollBack
        \/ StartSetup \/ SetupPair \/ SetupInstall \/ SetupBind \/ SetupProbe
        \/ DropPassword
        \/ Kill \/ NoMoreCommands

CommandSpec == InitCommands /\ [][NextCommand]_commandVars

-----------------------------------------------------------------------------
(* The entries whose key is there before a step and gone after it.         *)
Orphaned == {n \in DOMAIN servers \intersect DOMAIN servers' :
                /\ servers'[n].key = servers[n].key
                /\ servers[n].key # NoKey
                /\ file[servers[n].key[2]] # 0
                /\ file'[servers[n].key[2]] = 0}

(* remove, set, rename and setup-key never delete a private key that an    *)
(* entry of the inventory is bound to, however names and paths were mixed  *)
(* by earlier renames and sets (IsKeyUsedByOtherServers), unless the entry *)
(* writes the path in another way: one that expands to something else, or  *)
(* for the entry that set has just changed, any other (setServerFields).   *)
UsedKeyKept ==
   [][cmd.op # "add" => \A n \in Orphaned :
         \/ Expanded(servers[n].key) # Expanded(cmd.old)
         \/ cmd.op = "set" /\ n = cmd.name /\ servers[n].key # cmd.old]_commandVars

(* A password leaves the inventory only for an entry that logs in without  *)
(* it, by its key or an agent's, at every point where the command may fail *)
(* or be killed.                                                           *)
PasswordOutlived ==
   [][/\ cmd.op \in {"add", "setup"}
      /\ cmd.given
      /\ servers' # servers
      /\ ~ servers'[cmd.name].password
      => Login(servers'[cmd.name])]_commandVars

(* A rename that ends changes the name for the inventory and for all jobs, *)
(* or for none of them, unless it says that the rollback failed too: each  *)
(* job that backed up a host of the inventory still does.                  *)
RenameWhole ==
   [][/\ cmd.op = "rename"
      /\ cmd'.op = "none"
      /\ outcome' \in {"ok", "failed"}
      => \A j \in Jobs : cmd.hosting[j] # NoJump => Hosting(j)' = cmd.hosting[j]]_commandVars

(* No command takes away a jump host that servers still name: add asks for *)
(* it, remove refuses, rename takes the references along. Only the editor  *)
(* may (validateJumpHosts), and a remove that could not read who names it  *)
(* (GetDependents).                                                        *)
Missing == {servers[n].jump : n \in DOMAIN servers} \ (DOMAIN servers \union {NoJump})
JumpHostsKept ==
   [][\/ cmd.op = "edit"
      \/ cmd.op = "remove" /\ cmd.unread
      \/ Missing' \subseteq Missing]_commandVars

(* What the jobs and the other servers refer to stays there, under the     *)
(* name that they use.                                                     *)
ReferencesKept == RenameWhole /\ JumpHostsKept

(* The operator's lines of ~/.ssh/config are in the file or in its backup  *)
(* at every point where an export may fail or be killed; and the file that *)
(* it writes has, besides them, one block with the chosen servers and no   *)
(* stale entry of an earlier export, however its markers were mistreated.  *)
ExportWhole ==
   cmd.op = "export" =>
      /\ \/ SameLines("text", cmd.before, cmd.config)
         \/ SameLines("text", cmd.before, cmd.backup)
      /\ cmd.pc = "written" => /\ SameLines("text", cmd.before, cmd.config)
                               /\ SameLines("entries", cmd.block, cmd.config)
                               /\ Merged(cmd.config, cmd.block) = cmd.config

-----------------------------------------------------------------------------
(* What the documentation says and the code does not keep (see the README).*)

(* What the comments of server.go:252 and server_config.go:96 say, of the  *)
(* command that adds: a failure never leaves an entry pointing at a        *)
(* private key that is already gone.                                       *)
FailedAddKeepsKeys == [][cmd.op = "add" => Orphaned = {}]_commandVars

(* What the help of remove says (server.go:215): the managed key is kept   *)
(* while another server uses it. What the comment of set says              *)
(* (server_config.go:94): its entry is not left with a deleted key.        *)
SharedKeyKept == [][cmd.op = "remove" => Orphaned = {}]_commandVars
BoundKeyKept == [][cmd.op = "set" => cmd.name \notin Orphaned]_commandVars

(* What docs/reference/server_ops.md:47 says: a server through which       *)
(* others are reached is not removed.                                      *)
DependentsProtected == [][cmd.op = "remove" => Missing' \subseteq Missing]_commandVars

(* What setup-key and its help say (server_key.go:29, :86): the new key    *)
(* proves that it logs in on its own before the password goes.             *)
PasswordOutlivedByKey ==
   [][/\ cmd.op = "setup"
      /\ servers' # servers
      /\ ~ servers'[cmd.name].password
      => KeyWorks(servers'[cmd.name])]_commandVars

(* What the help of setup-key says (server_key.go:26): the password can    *)
(* still be used as before, so OpsPulse logs in as before.                 *)
SetupKeepsLogin ==
   [][cmd.op = "setup" => \A n \in DOMAIN servers :
         Login(servers[n]) => Login(servers[n])' ]_commandVars
=============================================================================
