------------------------------- MODULE CreateUser -------------------------------
(***************************************************************************)
(* ops server create-user (cmd/opspulse/server_create_user.go): it creates *)
(* a sudo user with one key on a server, proves that this user can log in, *)
(* switches servers.yaml to it, and then makes SSH key-only and closes it  *)
(* to root. Each of its connections checks the host key (HostTrust).       *)
(*                                                                         *)
(* A remote script is one step. It may stop after any prefix of its        *)
(* effects: a command of it fails, its time is up or the connection is     *)
(* lost. Commands on one server overlap, sshd reloads its configuration    *)
(* for other reasons too, and the machine at an address may be replaced.   *)
(* An SSH agent may be reachable: every connection offers its keys, too.   *)
(***************************************************************************)
EXTENDS HostTrust

CONSTANTS Target,       \* the server that is set up
          Runs,         \* executions of ops server create-user
          UserOf,       \* UserOf[r]: the name of the user that run r creates
          Users,        \* accounts, root among them
          Keys,         \* key pairs: the bound ones, and those of --key or generated
          Fresh,        \* the latter
          AgentKeys,    \* keys that an SSH agent offers, when it can be reached
          DefaultKeys,  \* the key under ~/.ssh that a login falls back on, if any
          Starts,       \* [plan, machine, login]: the commands that take place, the
                        \* states of the machines and the saved login at first
          NoKey

Logins == [user : Users, key : Keys \union {NoKey}, password : BOOLEAN]
MachineStates == [authorized : [Users -> SUBSET Keys], sudo : SUBSET Users,
                  sudoers : [Users -> {"none", "managed", "foreign"}],
                  dropin : {"none", "managed", "foreign"},
                  overridden : BOOLEAN, locked : BOOLEAN]

(* Two runs for one user name replace each other's authorized_keys.        *)
ASSUME CreateUserAssumption ==
   /\ \A r \in Runs : UserOf[r] \in Users \ {"root"}
   /\ \A r, q \in Runs : UserOf[r] = UserOf[q] => r = q
   /\ Target \in Servers /\ NoKey \notin Keys
   /\ Fresh \union AgentKeys \union DefaultKeys \subseteq Keys
   /\ \A start \in Starts : /\ start.machine \in [Machines -> MachineStates]
                            /\ start.login \in Logins

VARIABLES machine,      \* machine[m]: [authorized, sudo, sudoers, dropin, overridden, locked]
          login,        \* what servers.yaml holds for Target: [user, key, password]
          run,          \* run[r]: the program counter and the locals of run r
          proven        \* the machine on which that login is known to work

vars == <<hostTrust, machine, login, run, proven>>

NotStarted == [pc |-> "idle", addr |-> {}, login |-> <<>>, key |-> NoKey, public |-> NoKey,
               on |-> {}, asked |-> {}, seen |-> {}, own |-> FALSE]

(* What a connection offers: the keys of the agent, if it can be reached,  *)
(* then the bound key. Without one the password, and without both the      *)
(* default key.                                                            *)
OwnKeys(as) == IF as.key # NoKey THEN {as.key}
               ELSE IF as.password THEN {} ELSE DefaultKeys
Offers(as) == AgentKeys \union OwnKeys(as)

(* What sshd accepts. A locked one takes keys, and no root.                *)
Admits(h, as) ==
   \/ /\ Offers(as) \intersect h.authorized[as.user] # {}
      /\ as.user = "root" => ~h.locked
   \/ as.key = NoKey /\ as.password /\ ~h.locked

CanLogin(m, as) == Admits(machine[m], as)

Elevated(m, as) == as.user = "root" \/ as.user \in machine[m].sudo

(* What sshd reads from its configuration: an earlier file wins.           *)
KeyOnly(h) == h.dropin = "managed" /\ ~h.overridden
Reloaded(h) == [h EXCEPT !.locked = KeyOnly(h)]

(* A login works on machine m, and will after sshd's next reload.          *)
Works(m, as) == CanLogin(m, as) /\ Admits(Reloaded(machine[m]), as) /\ Elevated(m, as)

Init == \E start \in Starts :
        /\ InitHostTrust(start.plan)
        /\ machine = start.machine
        /\ login = start.login
        /\ run = [r \in Runs |->
                    [NotStarted EXCEPT !.pc = IF r \in start.plan THEN "idle" ELSE "absent"]]
        /\ proven = at[host[Target]]
        /\ Works(proven, login)

SetRun(r, record) == run' = [run EXCEPT ![r] = record]
GotoRun(r, pc) == SetRun(r, [run[r] EXCEPT !.pc = pc])

-----------------------------------------------------------------------------
(* The login that run r uses: what it read, or the one that it sets up.    *)
Candidate(r) == [user |-> UserOf[r], key |-> run[r].key, password |-> FALSE]
LoginOf(r) == IF run[r].pc = "create" THEN run[r].login ELSE Candidate(r)

Connecting == {"create", "verify", "lockdown", "reverify"}
Answers(r) == at[run[r].addr]
Connected(r) == /\ Accepted(run[r].addr)
                /\ CanLogin(Answers(r), LoginOf(r))

(* A connection to an unknown host waits for the operator, who may refuse. *)
Ask(r) ==
   /\ run[r].pc \in Connecting /\ run[r].asked = {}
   /\ Unknown(run[r].addr)
   /\ SetRun(r, [run[r] EXCEPT !.asked = {Offered(run[r].addr)},
                               !.seen = Recorded(run[r].addr)])
   /\ UNCHANGED <<hostTrust, machine, login, proven>>

Answer(r) ==
   /\ run[r].pc \in Connecting
   /\ \E key \in run[r].asked : Record(run[r].addr, key, run[r].seen)
   /\ SetRun(r, [run[r] EXCEPT !.asked = {}, !.seen = {}])
   /\ UNCHANGED <<world, setup, machine, login, proven>>

-----------------------------------------------------------------------------
(* The server is read from the inventory, once. Then the operator, or      *)
(* --yes, confirms, and the key is resolved: the bound one, or a fresh one.*)
(* The public half that lies beside a private key may be another key's,    *)
(* one of the agent among them.                                            *)
Begin(r) ==
   /\ run[r].pc = "idle"
   /\ SetRun(r, [run[r] EXCEPT !.pc = "confirm", !.login = login, !.addr = host[Target]])
   /\ UNCHANGED <<hostTrust, machine, login, proven>>

Confirm(r) ==
   /\ run[r].pc = "confirm"
   /\ \/ GotoRun(r, "refused")
      \/ \E key \in (Fresh \union {run[r].login.key}) \ {NoKey} : \E public \in Keys :
            SetRun(r, [run[r] EXCEPT !.pc = "create", !.key = key, !.public = public])
   /\ UNCHANGED <<hostTrust, machine, login, proven>>

(* A step that fails before it reaches the machine, or without an effect.  *)
Fail(r) ==
   /\ run[r].pc \in Connecting
   /\ GotoRun(r, "failed")
   /\ UNCHANGED <<hostTrust, machine, login, proven>>

(* createUserScript: authorized_keys is replaced by the selected key, then *)
(* the sudo rule is written, unless a rule of somebody else is there.      *)
WithKey(h, r) == [h EXCEPT !.authorized[UserOf[r]] = {run[r].public}]
WithSudo(h, r) == [h EXCEPT !.sudo = @ \union {UserOf[r]}, !.sudoers[UserOf[r]] = "managed"]

Create(r) ==
   /\ run[r].pc = "create" /\ run[r].asked = {}
   /\ Connected(r) /\ Elevated(Answers(r), LoginOf(r))
   /\ LET h == WithKey(machine[Answers(r)], r)
          mine == h.sudoers[UserOf[r]] # "foreign" IN
      \E done \in {FALSE} \union (IF mine THEN {TRUE} ELSE {}) :
         \E after \in IF done THEN {WithSudo(h, r)}
                      ELSE {h} \union (IF mine THEN {WithSudo(h, r)} ELSE {}) :
            /\ machine' = [machine EXCEPT ![Answers(r)] = after]
            /\ SetRun(r, [run[r] EXCEPT !.pc = IF done THEN "verify" ELSE "failed",
                                        !.own = login.user = UserOf[r]])
   /\ UNCHANGED <<hostTrust, login, proven>>

(* verifyCreatedUser: a login that the new key is bound to, by this key or *)
(* by one of the agent, and sudo without password.                         *)
Proven(r) == Connected(r) /\ Elevated(Answers(r), Candidate(r))

(* Faulty: the login is verified with the account that created the user.   *)
VerifySudoOnly(r) ==
   /\ run[r].pc = "verify" /\ run[r].asked = {}
   /\ Accepted(run[r].addr)
   /\ Elevated(Answers(r), Candidate(r))
   /\ SetRun(r, [run[r] EXCEPT !.pc = "save", !.on = {Answers(r)}])
   /\ UNCHANGED <<hostTrust, machine, login, proven>>

Verify(r) ==
   /\ run[r].pc = "verify" /\ run[r].asked = {}
   /\ Proven(r)
   /\ SetRun(r, [run[r] EXCEPT !.pc = "save", !.on = {Answers(r)}])
   /\ UNCHANGED <<hostTrust, machine, login, proven>>

(* store.Save of the server as it was read, with the new login.            *)
Save(r) ==
   /\ run[r].pc = "save"
   /\ \/ /\ GotoRun(r, "failed")
         /\ UNCHANGED <<host, login, proven>>
      \/ /\ GotoRun(r, "lockdown")
         /\ login' = Candidate(r)
         /\ host' = [host EXCEPT ![Target] = run[r].addr]
         /\ \E m \in run[r].on : proven' = m
   /\ UNCHANGED <<at, edits, rebuilds, trust, setup, machine>>

-----------------------------------------------------------------------------
(* sshLockdownScript refuses a drop-in that is not its own, writes it,     *)
(* validates the configuration and what is effective, and reloads sshd.    *)
(* Every failure that it handles puts back what was there. One that it     *)
(* does not, as that of sshd -T itself, leaves the new drop-in.            *)
Lockdown(r) ==
   /\ run[r].pc = "lockdown" /\ run[r].asked = {}
   /\ Connected(r) /\ Elevated(Answers(r), LoginOf(r))
   /\ LET h == machine[Answers(r)]
          with == [h EXCEPT !.dropin = "managed"] IN
      \/ /\ GotoRun(r, "failed")
         /\ \/ UNCHANGED machine
            \/ /\ h.dropin # "foreign"
               /\ machine' = [machine EXCEPT ![Answers(r)] = with]
      \/ /\ h.dropin # "foreign"
         /\ KeyOnly(with)
         /\ machine' = [machine EXCEPT ![Answers(r)] = [with EXCEPT !.locked = TRUE]]
         /\ GotoRun(r, "reverify")
   /\ UNCHANGED <<hostTrust, login, proven>>

(* The same verification, under the new policy.                            *)
Reverify(r) ==
   /\ run[r].pc = "reverify" /\ run[r].asked = {}
   /\ Proven(r)
   /\ SetRun(r, [run[r] EXCEPT !.pc = "success", !.on = @ \union {Answers(r)}])
   /\ UNCHANGED <<hostTrust, machine, login, proven>>

RunStep(r) == \/ Ask(r) \/ Answer(r) \/ Begin(r) \/ Confirm(r) \/ Fail(r) \/ Create(r)
              \/ Verify(r) \/ Save(r) \/ Lockdown(r) \/ Reverify(r)

(* sshd is reloaded or restarted: an upgrade, a reboot.                    *)
Reload(m) ==
   /\ machine' = [machine EXCEPT ![m] = Reloaded(machine[m])]
   /\ UNCHANGED <<hostTrust, login, run, proven>>

-----------------------------------------------------------------------------
Finished == /\ \A r \in Runs : run[r].pc \in {"absent", "refused", "failed", "success"}
            /\ \A p \in Setups : setup[p].pc \in {"absent", "done"}
            /\ UNCHANGED vars

Next == \/ \E r \in Runs : RunStep(r)
        \/ /\ \/ \E p \in Setups : SetupStep(p)
              \/ /\ Edit \/ Rebuild
                 /\ UNCHANGED <<trust, setup>>
           /\ UNCHANGED <<machine, login, run, proven>>
        \/ \E m \in Machines : Reload(m)
        \/ Finished

Spec == Init /\ [][Next]_vars

-----------------------------------------------------------------------------
(* Whatever fails, and in whatever order, the login that servers.yaml      *)
(* holds can log in to the machine on which it is known to work, also      *)
(* after sshd's next reload, and become root: by its own key or password,  *)
(* or by a key of the agent that was there when it was proved. A run that  *)
(* creates the user that servers.yaml already names is excepted: it        *)
(* replaces the keys of this very login before it proves the new one       *)
(* (server_create_user.go:46-53 and 139-152, executor/auth.go:61-76).      *)
NeverLockedOut == (\E r \in Runs : run[r].own) \/ Works(proven, login)

(* A success means what it says of every machine that the run has verified *)
(* the login on: key-only and closed to root, now and after every reload,  *)
(* and open to the new user with one key alone, the selected one or, when  *)
(* the public half that lay beside it was that of another, a key of the    *)
(* agent (server_create_user.go:172). Host keys that two commands recorded *)
(* at a time for one address may stand for two machines, and are excepted. *)
SuccessLocksDown ==
   \A r \in Runs : run[r].pc = "success" =>
      \/ run[r].addr \in raced
      \/ /\ run[r].on # {}
         /\ \A m \in run[r].on :
              /\ machine[m].locked /\ KeyOnly(machine[m])
              /\ machine[m].authorized[UserOf[r]] = {run[r].public}
              /\ run[r].public \in {run[r].key} \union AgentKeys
              /\ Works(m, Candidate(r))

(* The lockdown is safe while it is made and complete when it is reported. *)
LockdownSafe == NeverLockedOut /\ SuccessLocksDown

(* A machine is changed only by way of a host key that known_hosts held    *)
(* from the start or that the operator has accepted for this very address, *)
(* however servers' entries are edited and machines replaced between two   *)
(* connections. What a setup imports for a server is excepted when the     *)
(* address of that server was edited while this setup ran: it takes the    *)
(* keys it has shown for the old address to the new one                    *)
(* (server_setup.go:421-438, executor/auth.go:154-240).                    *)
VettedHostsOnly ==
   [][\A m \in Machines :
         machine'[m] # machine[m] =>
            \/ machine'[m] = Reloaded(machine[m])
            \/ \E r \in Runs : LET e == Entry(run[r].addr, Offered(run[r].addr)) IN
                  /\ run'[r] # run[r] /\ Answers(r) = m
                  /\ e \in approved \union moved]_vars

-----------------------------------------------------------------------------
(* What the documentation says and the code does not keep *)

(* "A login with the new user name and the new key" proves the user, who   *)
(* "still authenticates with its key" (server_create_user.go:52 and 172):  *)
(* a key of the agent proves it as well.                                   *)
SelectedKeyProved ==
   \A r \in Runs :
      run[r].pc = "success" /\ run[r].addr \notin raced =>
         \A m \in run[r].on : run[r].key \in machine[m].authorized[UserOf[r]]
=============================================================================
