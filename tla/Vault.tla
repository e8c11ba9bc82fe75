-------------------------------- MODULE Vault --------------------------------
(***************************************************************************)
(* ops 1p backup and ops 1p restore (cmd/opspulse/onepassword_*.go and     *)
(* MergeInventories of internal/server): one machine's servers.yaml and    *)
(* private keys, and the backup documents of this and of other machines in *)
(* a 1Password vault.                                                      *)
(*                                                                         *)
(* A backup reads the document it is about to replace, inherits the keys   *)
(* this machine has lost, replaces the document, reads it back and rolls   *)
(* it back if it is not what was written. A restore merges every machine's *)
(* server list into servers.yaml and brings back keys and passwords.       *)
(*                                                                         *)
(* One backup or restore runs at a time; the process may be killed between *)
(* any two steps. The op CLI may fail, lose the answer to a write it made, *)
(* or accept a write and store something else. Meanwhile servers are added *)
(* and removed in another terminal, key files disappear and other machines *)
(* back up.                                                                *)
(***************************************************************************)
EXTENDS Naturals, Sequences

CONSTANTS Servers,        \* server names
          Titles,       \* titles of the backup documents in sorted order
          Mine,         \* this machine's title
          SharedList,   \* the servers in the item of the historical format
          KeyItem,      \* KeyItem[n]: the key in the per-server item, "" if none
          PassItem,     \* the same for passwords
          Machines,     \* what earlier commands leave: [servers, disk, vault]
          NewEntries,   \* entries that ops add makes
          Others,       \* documents that other machines write
          MaxRuns,      \* bound on the backups and restores
          MaxEdits      \* bound on what happens outside them

(***************************************************************************)
(* In an entry of servers.yaml host stands for the fields two machines can *)
(* disagree on. A secret is "" when there is none and Ref when it is a     *)
(* legacy op:// reference.                                                 *)
(***************************************************************************)
Entry(host, path, pw) == [host |-> host, path |-> path, pw |-> pw]
NoPath == <<>>
RefPath == <<"op">>
Own == <<"id_ed25519">>
Managed(n) == <<"opspulse", n>>
Paths == {Managed(n) : n \in Servers} \union {Own}
Ref == "op://"
NoServers == [n \in {} |-> n]

(* BackupFile: the server list and the private keys side by side. An item  *)
(* of the vault holds one, nothing, or text that is no backup document.    *)
Doc(list, keys) == [state |-> "doc", servers |-> list, keys |-> keys]
Other(state) == [state |-> state, servers |-> NoServers, keys |-> [n \in Servers |-> ""]]
Missing == Other("missing")
Blank == Other("blank")
Garbled == Other("garbled")
Parses(item) == item.state # "garbled"

ASSUME VaultAssumption ==
   /\ \A m \in Machines :
         /\ DOMAIN m.servers \subseteq Servers
         /\ DOMAIN m.disk = Paths
         /\ Mine \in DOMAIN m.vault
         /\ Titles \in Seq(DOMAIN m.vault)
         /\ \A t \in DOMAIN m.vault : DOMAIN m.vault[t].servers \subseteq Servers
   /\ \A item \in Others : DOMAIN item.servers \subseteq Servers
   /\ DOMAIN SharedList \subseteq Servers

VARIABLES servers,      \* servers.yaml
          disk,         \* disk[path]: the private key at path, "" if there is none
          vault,        \* vault[title]: the item of that title
          cmd,          \* the running command and its locals
          outcome,      \* what the last command reported
          safe,         \* servers whose key a backup has reported as stored
          mangled,      \* the CLI has stored something else in this machine's item
          runs, edits   \* commands run and outside events so far

vaultVars == <<servers, disk, vault, cmd, outcome, safe, mangled, runs, edits>>
local == <<servers, disk>>
ghosts == <<safe, mangled>>
counters == <<runs, edits>>

Idle == [pc |-> "idle"]

InitVault == /\ \E m \in Machines : /\ servers = m.servers
                               /\ disk = m.disk
                               /\ vault = m.vault
        /\ cmd = Idle
        /\ outcome = "none"
        /\ safe = {}
        /\ mangled = FALSE
        /\ runs = 0
        /\ edits = 0

Running == cmd.pc # "idle"
At(phase) == cmd.pc = phase
Goto(phase) == cmd' = [cmd EXCEPT !.pc = phase]
Finish(result) == cmd' = Idle /\ outcome' = result
Start(command) ==
   /\ ~Running
   /\ runs < MaxRuns
   /\ runs' = runs + 1
   /\ outcome' = "none"
   /\ cmd' = command
   /\ UNCHANGED <<servers, disk, vault, edits>>

-----------------------------------------------------------------------------
(* ops 1p backup                                                           *)

HasRef(list) == \E n \in DOMAIN list : list[n].path = RefPath \/ list[n].pw = Ref

(* runBackupToOnePassword. A document the CLI has spoilt was reported, or  *)
(* its backup was killed: no key counts as stored from here on.            *)
StartBackup ==
   /\ Start(IF DOMAIN servers = {} \/ HasRef(servers)
            THEN Idle
            ELSE [pc |-> "previous", list |-> servers])
   /\ safe' = IF mangled THEN {} ELSE safe
   /\ UNCHANGED mangled

(* Faulty: any failure to read is taken for a first backup.                *)
ReadPreviousBlind ==
   /\ At("previous")
   /\ \/ /\ Parses(vault[Mine])
         /\ cmd' = [pc |-> "write", list |-> cmd.list, previous |-> vault[Mine]]
      \/ cmd' = [pc |-> "write", list |-> cmd.list, previous |-> Blank]
   /\ UNCHANGED <<outcome, local, vault, ghosts, counters>>

(* readPreviousBackup: an absent or an empty item is a first backup, every *)
(* other failure stops before anything is written.                         *)
ReadPrevious ==
   /\ At("previous")
   /\ \/ /\ Parses(vault[Mine])
         /\ cmd' = [pc |-> "write", list |-> cmd.list, previous |-> vault[Mine]]
         /\ UNCHANGED outcome
      \/ Finish("failed")
   /\ UNCHANGED <<local, vault, ghosts, counters>>

(* buildBackup and inheritMissingKeys: a key file that cannot be read is   *)
(* replaced by the copy in the previous document; keys of servers that     *)
(* have left servers.yaml are dropped.                                     *)
Unreadable(list) == {n \in DOMAIN list : list[n].path # NoPath /\ disk[list[n].path] = ""}
LocalKey(list, n) == IF n \in DOMAIN list /\ list[n].path # NoPath
                     THEN disk[list[n].path] ELSE ""
Document(list, previous) ==
   Doc(list, [n \in Servers |-> IF n \in Unreadable(list) THEN previous.keys[n]
                              ELSE LocalKey(list, n)])

(* What the CLI may store in place of a document: nothing, another text,   *)
(* or the document without some of its keys.                               *)
Mangled(doc) ==
   {Blank, Garbled} \union
   {Doc(doc.servers, [n \in Servers |-> IF n \in lost THEN "" ELSE doc.keys[n]]) :
      lost \in (SUBSET Servers) \ {{}}}

(* A write that the CLI acknowledges or not: with the document stored, not *)
(* stored, or stored as something else.                                    *)
Written(doc, acknowledged) ==
   \/ /\ vault' = [vault EXCEPT ![Mine] = doc]
      /\ mangled' = FALSE
   \/ \E other \in Mangled(doc) :
         /\ vault' = [vault EXCEPT ![Mine] = other]
         /\ mangled' = TRUE
   \/ /\ ~acknowledged
      /\ UNCHANGED <<vault, mangled>>

(* writeBackupItem: op item edit, and op item create if the title names no *)
(* item. A failed write is not undone.                                     *)
WriteItem ==
   /\ At("write")
   /\ LET doc == Document(cmd.list, cmd.previous)
      IN \/ /\ vault[Mine].state # "missing"
            /\ Written(doc, TRUE)
            /\ cmd' = [pc |-> "verify", previous |-> cmd.previous, doc |-> doc]
            /\ UNCHANGED outcome
         \/ /\ vault[Mine].state = "missing"
            /\ cmd' = [pc |-> "create", previous |-> cmd.previous, doc |-> doc]
            /\ UNCHANGED <<vault, mangled, outcome>>
         \/ /\ vault[Mine].state # "missing"
            /\ Written(doc, FALSE)
            /\ Finish("failed")
   /\ UNCHANGED <<local, safe, counters>>

CreateItem ==
   /\ At("create")
   /\ \/ Written(cmd.doc, TRUE) /\ Goto("verify") /\ UNCHANGED outcome
      \/ Written(cmd.doc, FALSE) /\ Finish("failed")
   /\ UNCHANGED <<local, safe, counters>>

(* verifyBackupItem: the item must hold what was written, byte for byte.   *)
(* An entry that another one without a key has replaced meanwhile does not *)
(* count.                                                                  *)
Verify ==
   /\ At("verify")
   /\ \/ /\ vault[Mine] = cmd.doc
         /\ Finish("verified")
         /\ safe' = {n \in Servers : /\ n \in DOMAIN servers
                                      /\ servers[n].path # NoPath
                                      /\ cmd.doc.keys[n] # ""}
      \/ /\ Goto("rollback")
         /\ UNCHANGED <<outcome, safe>>
   /\ UNCHANGED <<local, vault, mangled, counters>>

(* rollbackBackupItem: the previous document is written back. A failed     *)
(* write, or no previous document, is reported as an untrusted item.       *)
Rollback ==
   /\ At("rollback")
   /\ \/ /\ cmd.previous.state # "doc"
         /\ Finish("untrusted")
         /\ UNCHANGED <<vault, mangled>>
      \/ /\ cmd.previous.state = "doc"
         /\ \/ Written(cmd.previous, TRUE) /\ Finish("rolled back")
            \/ Written(cmd.previous, FALSE) /\ Finish("untrusted")
   /\ UNCHANGED <<local, safe, counters>>

-----------------------------------------------------------------------------
(* ops 1p restore                                                          *)

(* runRestoreFromOnePassword and selectRestoreTargets: named servers must  *)
(* be in servers.yaml and are read from it now.                            *)
StartRestore ==
   \E named \in SUBSET DOMAIN servers, force \in BOOLEAN :
      /\ Start([pc |-> "blobs", named |-> [n \in named |-> servers[n]],
                force |-> force, approved |-> FALSE, read |-> 0,
                blobs |-> <<>>, seen |-> [n \in named |-> servers[n]],
                touched |-> {}])
      /\ UNCHANGED ghosts

(* readBackupBlobs: an empty item is skipped, one that cannot be read or   *)
(* parsed ends the restore.                                                *)
ReadBlob ==
   /\ At("blobs")
   /\ cmd.read < Len(Titles)
   /\ LET item == vault[Titles[cmd.read + 1]]
      IN \/ /\ Parses(item)
            /\ cmd' = [cmd EXCEPT
                         !.read = @ + 1,
                         !.blobs = IF item.state = "doc" THEN Append(@, item) ELSE @]
            /\ UNCHANGED outcome
         \/ /\ item.state # "missing"
            /\ Finish("failed")
   /\ UNCHANGED <<local, vault, ghosts, counters>>

(* pickCredential: this machine's value wins whenever it has one.          *)
Pick(mine, theirs, none) == IF mine = none THEN theirs ELSE mine

(* MergeInventories: a union. Where the lists disagree about a server the  *)
(* decision, take, says whose definition counts; credentials are picked.   *)
DiffServers(mine, theirs) ==
   {n \in DOMAIN mine \intersect DOMAIN theirs : mine[n].host # theirs[n].host}
ResolveServer(mine, theirs, takeRemote) ==
   Entry(IF takeRemote THEN theirs.host ELSE mine.host,
         Pick(mine.path, theirs.path, NoPath),
         Pick(mine.pw, theirs.pw, ""))
MergeInventories(mine, theirs, take) ==
   [n \in DOMAIN mine \union DOMAIN theirs |->
      IF n \notin DOMAIN mine THEN theirs[n]
      ELSE IF n \notin DOMAIN theirs THEN mine[n]
      ELSE ResolveServer(mine[n], theirs[n], n \in take)]
SameInventory(one, other) == one = other

(* mergeBackupServers over the documents in order, or over the shared item *)
(* of the historical format when there is none.                            *)
Remote(blobs) == IF blobs = <<>> THEN <<SharedList>>
                 ELSE [i \in DOMAIN blobs |-> blobs[i].servers]
MergeAll(mine, lists, takes) ==
   LET fold[i \in 0 .. Len(lists)] ==
          IF i = 0 THEN mine ELSE MergeInventories(fold[i - 1], lists[i], takes[i])
   IN fold[Len(lists)]

(* countPlaintextPasswordsToWrite                                          *)
PlaintextOf(was, now) ==
   {n \in DOMAIN now : /\ now[n].pw \notin {"", Ref}
                       /\ ~(n \in DOMAIN was /\ was[n].pw = now[n].pw)}

(* restoreInventoryFromOnePassword up to the write. The decisions are made *)
(* by a flag or by the user, who may also give up; without either the      *)
(* restore fails.                                                          *)
Conflict(lists) == \E i, j \in DOMAIN lists : DiffServers(lists[i], lists[j]) # {}
MergeLists ==
   /\ At("blobs")
   /\ cmd.read = Len(Titles)
   /\ \/ /\ DOMAIN cmd.named # {}
         /\ Goto("plan")
         /\ UNCHANGED outcome
      \/ /\ DOMAIN cmd.named = {}
         /\ LET lists == Remote(cmd.blobs)
            IN \/ /\ Conflict(<<servers>> \o lists)
                  /\ Finish("failed")
               \/ \E takes \in [DOMAIN lists -> SUBSET Servers] :
                     LET merged == MergeAll(servers, lists, takes)
                     IN /\ cmd' = [pc |-> IF SameInventory(merged, servers) THEN "plan"
                                          ELSE IF PlaintextOf(servers, merged) = {}
                                               THEN "replace" ELSE "confirm list",
                                   named |-> cmd.named, force |-> cmd.force,
                                   approved |-> FALSE, blobs |-> cmd.blobs,
                                   seen |-> servers, merged |-> merged,
                                   touched |-> cmd.touched]
                        /\ UNCHANGED outcome
   /\ UNCHANGED <<local, vault, ghosts, counters>>

(* confirmPlaintextRestore: an answer, --yes, or a refusal.                *)
Confirm(phase, next) ==
   /\ At(phase)
   /\ \/ cmd' = [cmd EXCEPT !.pc = next, !.approved = TRUE] /\ UNCHANGED outcome
      \/ Finish("refused")
   /\ UNCHANGED <<local, vault, ghosts, counters>>

ConfirmList == Confirm("confirm list", "replace")

(* Store.Replace: whatever servers.yaml holds now is replaced by the merge *)
(* of what it held before the confirmation.                                *)
ReplaceList ==
   /\ At("replace")
   /\ \/ /\ servers' = cmd.merged
         /\ safe' = safe \intersect DOMAIN cmd.merged
         /\ Goto("plan")
         /\ UNCHANGED outcome
      \/ /\ Finish("failed")
         /\ UNCHANGED <<servers, safe>>
   /\ UNCHANGED <<disk, vault, mangled, counters>>

(* collectBackupCredentials: the first document that holds one wins.       *)
First(values) ==
   LET given == {i \in DOMAIN values : values[i] # ""}
   IN IF given = {} THEN ""
      ELSE values[CHOOSE i \in given : \A j \in given : i <= j]
BlobKey(blobs, n) == First([i \in DOMAIN blobs |-> blobs[i].keys[n]])
BlobPass(blobs, n) ==
   First([i \in DOMAIN blobs |->
             IF n \in DOMAIN blobs[i].servers THEN blobs[i].servers[n].pw ELSE ""])

(* planRestore: a reference names its item; otherwise a key comes back for *)
(* a server that has a key path, a password for one that has none, from    *)
(* the documents or else from the server's own item.                       *)
PlanRestore(blobs, n, entry) ==
   [entry |-> entry,
    wantKey |-> \/ entry.path = RefPath
                \/ entry.path # NoPath /\ (BlobKey(blobs, n) # "" \/ KeyItem[n] # ""),
    key |-> IF entry.path = RefPath \/ BlobKey(blobs, n) = ""
            THEN KeyItem[n] ELSE BlobKey(blobs, n),
    wantPass |-> \/ entry.pw = Ref
                 \/ entry.pw = "" /\ (BlobPass(blobs, n) # "" \/ PassItem[n] # ""),
    pass |-> IF entry.pw = Ref \/ BlobPass(blobs, n) = ""
             THEN PassItem[n] ELSE BlobPass(blobs, n)]

(* Faulty: passwords that come from a document are not counted.            *)
PasswordsFetched(plans) ==
   \E n \in DOMAIN plans : plans[n].wantPass /\ plans[n].pass = PassItem[n]
(* countRestorePasswords                                                   *)
PasswordsPlanned(plans) == \E n \in DOMAIN plans : plans[n].wantPass

Plan ==
   /\ At("plan")
   /\ LET targets == IF DOMAIN cmd.named # {} THEN cmd.named ELSE servers
          plans == [n \in DOMAIN targets |-> PlanRestore(cmd.blobs, n, targets[n])]
      IN IF DOMAIN targets = {} THEN Finish("failed")
         ELSE /\ cmd' = [pc |-> IF PasswordsPlanned(plans) THEN "confirm" ELSE "next",
                         force |-> cmd.force, approved |-> FALSE,
                         seen |-> targets, touched |-> cmd.touched,
                         plans |-> plans, todo |-> DOMAIN plans, at |-> "",
                         failed |-> FALSE, blocked |-> FALSE]
              /\ UNCHANGED outcome
   /\ UNCHANGED <<local, vault, ghosts, counters>>

ConfirmPasswords == Confirm("confirm", "next")

(* restoreOneServer for each server in turn.                               *)
NextServer ==
   /\ At("next")
   /\ cmd.todo # {}
   /\ LET n == CHOOSE n \in cmd.todo : TRUE
      IN cmd' = [cmd EXCEPT !.at = n, !.todo = @ \ {n},
                            !.pc = IF cmd.plans[n].wantKey THEN "key" ELSE "pass"]
   /\ UNCHANGED <<local, vault, ghosts, outcome, counters>>

Failed == cmd' = [cmd EXCEPT !.pc = "next", !.failed = TRUE]

(* mayReplaceLocalKey: the same key, none, or --force.                     *)
MayReplace(path, key) == cmd.force \/ disk[path] \in {"", key}

(* writeRestoredKey: the key goes to the managed path of the server, and   *)
(* the entry is bound to it. Not replacing a key leaves the server blocked *)
(* and its password is still restored; an error ends the server.           *)
RestoreKey ==
   /\ At("key")
   /\ LET n == cmd.at
          plan == cmd.plans[n]
      IN \/ /\ plan.key # ""
            /\ MayReplace(Managed(n), plan.key)
            /\ disk' = [disk EXCEPT ![Managed(n)] = plan.key]
            /\ Goto(IF plan.entry.path = Managed(n) THEN "pass" ELSE "bind")
         \/ /\ plan.key # ""
            /\ ~MayReplace(Managed(n), plan.key)
            /\ cmd' = [cmd EXCEPT !.pc = "pass", !.blocked = TRUE]
            /\ UNCHANGED disk
         \/ Failed /\ UNCHANGED disk
   /\ UNCHANGED <<servers, vault, ghosts, outcome, counters>>

(* Store.Save of the entry that the plan was made from.                    *)
SaveEntry(n, entry) == servers' = [m \in DOMAIN servers \union {n} |->
                                IF m = n THEN entry ELSE servers[m]]

BindKey ==
   /\ At("bind")
   /\ LET n == cmd.at
          entry == cmd.plans[n].entry
          bound == Entry(entry.host, Managed(n), entry.pw)
      IN \/ /\ SaveEntry(n, bound)
            /\ cmd' = [cmd EXCEPT !.pc = "pass", !.plans[n].entry = bound]
         \/ Failed /\ UNCHANGED servers
   /\ UNCHANGED <<disk, vault, ghosts, outcome, counters>>

RestorePassword ==
   /\ At("pass")
   /\ LET n == cmd.at
          plan == cmd.plans[n]
      IN \/ ~plan.wantPass /\ Goto("next") /\ UNCHANGED servers
         \/ /\ plan.wantPass
            /\ plan.pass # ""
            /\ SaveEntry(n, Entry(plan.entry.host, plan.entry.path, plan.pass))
            /\ Goto("next")
         \/ plan.wantPass /\ Failed /\ UNCHANGED servers
   /\ UNCHANGED <<disk, vault, ghosts, outcome, counters>>

(* Faulty: a blocked server counts as skipped.                             *)
ReportSkipped ==
   /\ At("next")
   /\ cmd.todo = {}
   /\ Finish(IF cmd.failed THEN "failed" ELSE "restored")
   /\ UNCHANGED <<local, vault, ghosts, counters>>

(* reportRestoreOutcomes: one failed or blocked server fails the restore.  *)
Report ==
   /\ At("next")
   /\ cmd.todo = {}
   /\ Finish(IF cmd.failed \/ cmd.blocked THEN "failed" ELSE "restored")
   /\ UNCHANGED <<local, vault, ghosts, counters>>

-----------------------------------------------------------------------------
(* What happens outside the two commands                                   *)

Outside == edits < MaxEdits /\ edits' = edits + 1 /\ UNCHANGED <<outcome, runs, mangled>>
Touched(names) ==
   cmd' = IF Running /\ "touched" \in DOMAIN cmd
          THEN [cmd EXCEPT !.touched = @ \union names] ELSE cmd

AddServer ==
   /\ Outside
   /\ \E n \in Servers \ DOMAIN servers, entry \in NewEntries :
         SaveEntry(n, entry) /\ Touched({n})
   /\ UNCHANGED <<disk, vault, safe>>

RemoveServer ==
   /\ Outside
   /\ \E n \in DOMAIN servers :
         /\ servers' = [m \in DOMAIN servers \ {n} |-> servers[m]]
         /\ safe' = safe \ {n}
         /\ Touched({n})
   /\ UNCHANGED <<disk, vault>>

LoseKey ==
   /\ Outside
   /\ \E p \in {q \in Paths : disk[q] # ""} :
         /\ disk' = [disk EXCEPT ![p] = ""]
         /\ Touched({n \in Servers : Managed(n) = p})
   /\ UNCHANGED <<servers, vault, safe>>

OtherBackup ==
   /\ Outside
   /\ \E i \in DOMAIN Titles, item \in Others :
         /\ Titles[i] # Mine
         /\ vault[Titles[i]] # item
         /\ vault' = [vault EXCEPT ![Titles[i]] = item]
   /\ UNCHANGED <<local, cmd, safe>>

Kill == /\ Running
        /\ Finish("killed")
        /\ UNCHANGED <<local, vault, ghosts, counters>>

Done == ~Running /\ runs = MaxRuns /\ UNCHANGED vaultVars

Backup == StartBackup \/ ReadPrevious \/ WriteItem \/ CreateItem \/ Verify \/ Rollback
Restore == \/ StartRestore \/ ReadBlob \/ MergeLists \/ ConfirmList \/ ReplaceList
           \/ Plan \/ ConfirmPasswords \/ NextServer \/ RestoreKey \/ BindKey
           \/ RestorePassword \/ Report
NextVault == \/ Backup \/ Restore \/ Kill
        \/ AddServer \/ RemoveServer \/ LoseKey \/ OtherBackup
        \/ Done
VaultSpec == InitVault /\ [][NextVault]_vaultVars

-----------------------------------------------------------------------------
(* A key that a backup has once reported as stored is in this machine's    *)
(* document for as long as its server is in servers.yaml: through lost key *)
(* files, later backups that fail or are killed anywhere, lost answers and *)
(* restores (inheritMissingKeys, readPreviousBackup). Only a CLI that      *)
(* stores something else can lose it.                                      *)
KeysKept ==
   ~mangled => \A n \in safe \intersect DOMAIN servers :
                  vault[Mine].state = "doc" /\ vault[Mine].keys[n] # ""

(* A backup reports success only when the item holds the document that was *)
(* written (verifyBackupItem), whatever the CLI acknowledged.              *)
SuccessIsStored ==
   [][outcome' = "verified" /\ Running => vault'[Mine] = cmd.doc]_vaultVars

(* A restore that exits 0 has brought back everything it planned: every    *)
(* key is at its managed path with the entry bound to it, every password   *)
(* in servers.yaml, unless somebody else touched the server meanwhile      *)
(* (restoreOneServer, reportRestoreOutcomes).                              *)
SuccessIsComplete ==
   [][outcome' = "restored" /\ Running =>
        \A n \in DOMAIN cmd.plans \ cmd.touched :
           LET plan == cmd.plans[n]
           IN /\ n \in DOMAIN servers
              /\ plan.wantKey => /\ servers[n].path = Managed(n)
                                 /\ disk[Managed(n)] = plan.key
              /\ plan.wantPass => servers[n].pw = plan.pass]_vaultVars

(* What exits 0 has been done.                                             *)
SuccessEarned == SuccessIsStored /\ SuccessIsComplete

(* No password reaches servers.yaml in the clear without a confirmation,   *)
(* by the server list or by the credentials, unless the restore had read   *)
(* it there (confirmPlaintextRestore in front of both writes).             *)
PlaintextApproved ==
   [][(ReplaceList \/ BindKey \/ RestorePassword) /\ ~cmd.approved =>
        PlaintextOf(cmd.seen, servers') \subseteq PlaintextOf(cmd.seen, servers)]_vaultVars

(* A restore replaces a different private key only with --force            *)
(* (mayReplaceLocalKey), and a server is blocked rather than skipped.      *)
LocalKeysGuarded ==
   [][RestoreKey /\ ~cmd.force =>
        \A p \in Paths : disk[p] # "" => disk'[p] = disk[p]]_vaultVars

(* A restore puts nothing on this machine that the operator has not agreed *)
(* to, and takes no key away.                                              *)
RestoreGuarded == PlaintextApproved /\ LocalKeysGuarded

-----------------------------------------------------------------------------
(* What the documentation says and the code does not keep (see the README).*)

(* onepassword_backup.go:216-223 "the outcome has to be stated without     *)
(* hedging": a rollback that is reported has put the previous document     *)
(* back.                                                                   *)
RollbackIsStored ==
   [][outcome' = "rolled back" /\ Running => vault'[Mine] = cmd.previous]_vaultVars

(* onepassword_inventory.go:410-414 "merges a vault backup into            *)
(* servers.yaml, without ever deleting".                                   *)
NeverDeletes == [][Restore => DOMAIN servers \subseteq DOMAIN servers']_vaultVars
=============================================================================
