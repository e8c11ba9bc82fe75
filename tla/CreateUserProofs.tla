--------------------------- MODULE CreateUserProofs ---------------------------
(***************************************************************************)
(* What HostTrust and CreateUser promise, for every number of commands,    *)
(* servers, addresses, machines, key types, edits and rebuilds.            *)
(*                                                                         *)
(* The argument runs from the host keys to the logins. While no two        *)
(* commands append for one address at a time, known_hosts has one key of a *)
(* type for it, so all connections of a create-user run reach one machine; *)
(* what the run has done there, nothing undoes; and from the first saved   *)
(* login on, servers.yaml holds a key login that is not root's.            *)
(***************************************************************************)
EXTENDS CreateUser, TLAPS

SetupPcs == {"idle", "absent", "probe", "trust", "import", "append", "done"}
Statuses == {"unprobed", "failed", "mismatch", "present", "missing"}
Checks == [Servers -> [status : Statuses, keys : SUBSET HostKeys]]
SetupRecords == [pc : SetupPcs, all : BOOLEAN, names : SUBSET Servers, todo : SUBSET Servers,
                 checks : Checks, address : {<<>>} \union [Servers -> Addresses],
                 pending : SUBSET Entries, seen : SUBSET HostKeys]

RunPcs == {"idle", "absent", "confirm", "refused", "failed", "save", "success"} \union Connecting
RunRecords == [pc : RunPcs, addr : {{}} \union Addresses, login : {<<>>} \union Logins,
               key : Keys \union {NoKey}, public : Keys \union {NoKey},
               on : SUBSET Machines, asked : SUBSET HostKeys, seen : SUBSET HostKeys,
               own : BOOLEAN]

TypeOK ==
   /\ host \in [Servers -> Addresses]
   /\ at \in [Addresses -> Machines]
   /\ known \subseteq Entries
   /\ approved \subseteq Entries
   /\ edits \in Nat
   /\ setup \in [Setups -> SetupRecords]
   /\ machine \in [Machines -> MachineStates]
   /\ login \in Logins
   /\ run \in [Runs -> RunRecords]
   /\ proven \in Machines

-----------------------------------------------------------------------------
(* Host keys *)

OnePerType(keys) == \A k, j \in keys : k.type = j.type => k = j

SetupActive == {"probe", "trust", "import", "append"}

(* What setup p is about to append conflicts with nothing that it has read *)
(* from known_hosts, and not with itself.                                  *)
SetupOK(p) ==
   /\ setup[p].pc \in SetupActive => setup[p].address \in [Servers -> Addresses]
   /\ \A s \in Servers : OnePerType(setup[p].checks[s].keys)
   /\ setup[p].pc = "append" =>
         \E a \in Addresses : \A e \in setup[p].pending :
            /\ e.addr = a
            /\ \A f \in setup[p].pending : e.key.type = f.key.type => e = f
            /\ \A k \in setup[p].seen : k.type # e.key.type

(* A run asks about hosts of which nothing was recorded.                   *)
AskOK(r) ==
   /\ run[r].pc \notin {"idle", "absent"} => run[r].addr \in Addresses
   /\ run[r].asked # {} => run[r].seen = {}

KeysOK == (\A p \in Setups : SetupOK(p)) /\ (\A r \in Runs : AskOK(r))

(* What a setup imports has been accepted, for the address that it was     *)
(* shown for, and what is recorded has been accepted or moved.             *)
SetupVetted(p) ==
   /\ setup[p].pc \in {"import", "append"} =>
         \A s \in setup[p].todo : \A k \in setup[p].checks[s].keys :
            Entry(setup[p].address[s], k) \in approved
   /\ setup[p].pc = "append" => setup[p].pending \subseteq approved \union moved

AllVetted == known \subseteq approved \union moved /\ \A p \in Setups : SetupVetted(p)

-----------------------------------------------------------------------------
(* Logins *)

(* A connection of run r may reach machine m.                              *)
Reachable(r, m) == Entry(run[r].addr, HostKey(m, Preferred)) \in known

(* The run's user is set up on m; a key that the run offers is accepted    *)
(* for it; sshd there accepts only keys, and no root.                      *)
Prepared(r, m) == /\ machine[m].authorized[UserOf[r]] = {run[r].public}
                  /\ UserOf[r] \in machine[m].sudo
Opened(r, m) ==
   ({run[r].key} \union AgentKeys) \intersect machine[m].authorized[UserOf[r]] # {}
Closed(m) == machine[m].locked /\ KeyOnly(machine[m])

Created == {"verify", "save", "lockdown", "reverify", "success"}
Saved == {"lockdown", "reverify", "success"}

RunOK(r) ==
   /\ run[r].pc \in {"idle", "confirm", "create"} => ~run[r].own
   /\ run[r].pc \in {"confirm", "create"} => run[r].login \in Logins
   /\ run[r].pc \in {"create"} \union Created => run[r].key # NoKey /\ run[r].public \in Keys
   /\ run[r].pc \in Created =>
         /\ \E m \in Machines : Reachable(r, m)
         /\ \/ run[r].addr \in raced
            \/ \A m \in Machines : Reachable(r, m) => Prepared(r, m)
   /\ run[r].pc \in {"save"} \union Saved =>
         /\ run[r].on # {}
         /\ \A m \in run[r].on : /\ Reachable(r, m)
                                 /\ Opened(r, m)
                                 /\ UserOf[r] \in machine[m].sudo
   /\ run[r].pc \in {"reverify", "success"} =>
         \/ run[r].addr \in raced
         \/ \A m \in Machines : Reachable(r, m) => Closed(m)

(* Once a run has saved its login, it, or that of a later run, stays.      *)
KeyLogin == login.key # NoKey /\ login.user # "root"
LoginOK == (\E r \in Runs : run[r].pc \in Saved) => KeyLogin

IInv == /\ TypeOK /\ KeysOK /\ NoSecondKey
        /\ AllVetted
        /\ \A r \in Runs : RunOK(r)
        /\ LoginOK /\ NeverLockedOut

-----------------------------------------------------------------------------
(* Types *)

(* known_hosts read for an address: the keys of its entries.               *)
LEMMA RecordedEntries ==
   ASSUME known \subseteq Entries, NEW a, NEW k
   PROVE  k \in Recorded(a) <=> Entry(a, k) \in known
<1>1. \A e \in known : e = Entry(e.addr, e.key)
   BY DEF Entries, HostKeys, Entry
<1>2. Entry(a, k).addr = a /\ Entry(a, k).key = k
   BY DEF Entry
<1> QED BY <1>1, <1>2 DEF Recorded

LEMMA KeysTyped ==
   /\ \A m \in Machines, t \in KeyTypes : HostKey(m, t) \in HostKeys
   /\ \A m \in Machines : Advertised(m) \subseteq HostKeys /\ OnePerType(Advertised(m))
   /\ \A a \in Addresses, k \in HostKeys : Entry(a, k) \in Entries
BY DEF HostKey, HostKeys, Advertised, Entry, Entries, OnePerType

LEMMA OfferedTyped ==
   ASSUME TypeOK, NEW a \in Addresses
   PROVE  Offered(a) \in HostKeys /\ Recorded(a) \subseteq HostKeys
<1>1. Offered(a) \in HostKeys
   BY KeysTyped, TrustAssumption DEF TypeOK, Offered
<1>2. Recorded(a) \subseteq HostKeys
   BY DEF TypeOK, Recorded, Entries
<1> QED BY <1>1, <1>2

LEMMA SetupTyped ==
   ASSUME TypeOK, NEW p \in Setups, SetupStep(p), \A q \in Setups : SetupOK(q)
   PROVE  /\ known' \subseteq Entries
          /\ approved' \subseteq Entries
          /\ setup' \in [Setups -> SetupRecords]
<1>. DEFINE s == setup[p]
<1>0. /\ s \in SetupRecords /\ setup \in [Setups -> SetupRecords]
      /\ known \subseteq Entries /\ approved \subseteq Entries
      /\ host \in [Servers -> Addresses] /\ at \in [Addresses -> Machines]
   BY DEF TypeOK
<1>1. NoSetup \in SetupRecords /\ [NoSetup EXCEPT !.pc = "done"] \in SetupRecords
   BY DEF NoSetup, SetupRecords, SetupPcs, Checks, Statuses
<1>2. ASSUME EndSetup(p) PROVE setup' \in [Setups -> SetupRecords]
   BY <1>0, <1>1, <1>2 DEF EndSetup, SetSetup
<1>3. CASE StartSetup(p)
   <2>1. PICK named \in SUBSET Servers :
            setup' = [setup EXCEPT ![p] = [NoSetup EXCEPT !.pc = "probe", !.all = (named = {}),
                        !.names = SetupTargets(named), !.todo = SetupTargets(named),
                        !.address = host]]
      BY <1>3 DEF StartSetup, SetSetup
   <2>2. SetupTargets(named) \subseteq Servers
      BY DEF SetupTargets
   <2>3. [NoSetup EXCEPT !.pc = "probe", !.all = (named = {}), !.names = SetupTargets(named),
                         !.todo = SetupTargets(named), !.address = host] \in SetupRecords
      BY <1>0, <1>1, <2>2 DEF NoSetup, SetupRecords, SetupPcs
   <2>4. setup' \in [Setups -> SetupRecords]
      BY <1>0, <2>1, <2>3
   <2> QED BY <1>0, <1>3, <2>4 DEF StartSetup, trust
<1>4. CASE Probe(p)
   <2>1. PICK q \in s.todo : \E check \in
               {[status |-> CheckKnownHost(s.address[q], Advertised(at[s.address[q]])),
                 keys |-> Advertised(at[s.address[q]])],
                [status |-> "failed", keys |-> {}]} :
            setup' = [setup EXCEPT ![p] = [s EXCEPT !.checks[q] = check, !.todo = s.todo \ {q},
                         !.pc = IF s.todo \ {q} = {} THEN "trust" ELSE "probe"]]
      BY <1>4 DEF Probe, SetSetup
   <2>2. s.address \in [Servers -> Addresses]
      BY <1>4 DEF Probe, SetupOK, SetupActive
   <2>3. q \in Servers /\ s.address[q] \in Addresses /\ at[s.address[q]] \in Machines
      BY <1>0, <2>2 DEF SetupRecords
   <2>4. PICK check \in [status : Statuses, keys : SUBSET HostKeys] :
            setup' = [setup EXCEPT ![p] = [s EXCEPT !.checks[q] = check, !.todo = s.todo \ {q},
                         !.pc = IF s.todo \ {q} = {} THEN "trust" ELSE "probe"]]
      BY <2>1, <2>3, KeysTyped DEF Statuses, CheckKnownHost
   <2>5. [s EXCEPT !.checks[q] = check, !.todo = s.todo \ {q},
                   !.pc = IF s.todo \ {q} = {} THEN "trust" ELSE "probe"] \in SetupRecords
      BY <1>0, <2>3, <2>4 DEF SetupRecords, SetupPcs, Checks
   <2> QED BY <1>0, <1>4, <2>4, <2>5 DEF Probe, trust
<1>5. CASE Trust(p)
   <2>1. CASE EndSetup(p) /\ UNCHANGED approved
      BY <1>0, <1>2, <1>5, <2>1 DEF Trust
   <2>2. CASE /\ approved' = approved \union Shown(p)
              /\ SetSetup(p, [setup[p] EXCEPT !.pc = "import", !.todo = Missing(p)])
      <3>1. s.address \in [Servers -> Addresses]
         BY <1>5 DEF Trust, SetupOK, SetupActive
      <3>2. Missing(p) \subseteq Servers /\ \A q \in Servers : s.checks[q].keys \subseteq HostKeys
         BY <1>0 DEF Missing, SetupRecords, Checks
      <3>3. Shown(p) \subseteq Entries
         BY <3>1, <3>2, KeysTyped DEF Shown
      <3>4. [s EXCEPT !.pc = "import", !.todo = Missing(p)] \in SetupRecords
         BY <1>0, <3>2 DEF SetupRecords, SetupPcs
      <3> QED BY <1>0, <1>5, <2>2, <3>3, <3>4 DEF Trust, SetSetup
   <2> QED BY <1>5, <2>1, <2>2 DEF Trust
<1>6. CASE Import(p)
   <2>1. UNCHANGED <<known, approved>>
      BY <1>6 DEF Import
   <2>2. CASE EndSetup(p)
      BY <1>0, <1>2, <2>1, <2>2
   <2>3. ASSUME NEW q \in s.todo,
                SetSetup(p, [setup[p] EXCEPT
                               !.pc = "append", !.todo = @ \ {q}, !.seen = Recorded(host[q]),
                               !.pending = {Entry(host[q], k) : k \in s.checks[q].keys \ Recorded(host[q])}])
         PROVE  setup' \in [Setups -> SetupRecords]
      <3>1. q \in Servers /\ host[q] \in Addresses /\ s.checks[q].keys \subseteq HostKeys
         BY <1>0 DEF SetupRecords, Checks
      <3>2. Recorded(host[q]) \subseteq HostKeys
         BY <3>1, OfferedTyped
      <3>3. {Entry(host[q], k) : k \in s.checks[q].keys \ Recorded(host[q])} \subseteq Entries
         BY <3>1, KeysTyped
      <3>4. [s EXCEPT !.pc = "append", !.todo = @ \ {q}, !.seen = Recorded(host[q]),
                      !.pending = {Entry(host[q], k) : k \in s.checks[q].keys \ Recorded(host[q])}]
               \in SetupRecords
         BY <1>0, <3>2, <3>3 DEF SetupRecords, SetupPcs
      <3> QED BY <1>0, <2>3, <3>4 DEF SetSetup
   <2> QED BY <1>0, <1>6, <2>1, <2>2, <2>3 DEF Import, Adopt
<1>7. CASE Append(p)
   <2>1. PICK written \in SUBSET s.pending :
            /\ known' = known \union written
            /\ IF written # s.pending \/ s.todo = {}
               THEN EndSetup(p)
               ELSE SetSetup(p, [setup[p] EXCEPT !.pc = "import", !.pending = {}, !.seen = {}])
      BY <1>7 DEF Append
   <2>2. known' \subseteq Entries
      BY <1>0, <2>1 DEF SetupRecords
   <2>3. [s EXCEPT !.pc = "import", !.pending = {}, !.seen = {}] \in SetupRecords
      BY <1>0 DEF SetupRecords, SetupPcs
   <2>4. setup' \in [Setups -> SetupRecords]
      BY <1>0, <1>2, <2>1, <2>3 DEF SetSetup
   <2> QED BY <1>0, <1>7, <2>2, <2>4 DEF Append
<1> QED BY <1>3, <1>4, <1>5, <1>6, <1>7 DEF SetupStep

LEMMA RunTyped ==
   ASSUME TypeOK, NEW r \in Runs, RunStep(r), AskOK(r), RunOK(r)
   PROVE  TypeOK'
<1>. DEFINE s == run[r]
<1>0. /\ s \in RunRecords /\ run \in [Runs -> RunRecords]
      /\ machine \in [Machines -> MachineStates]
      /\ UserOf[r] \in Users
   BY CreateUserAssumption DEF TypeOK
<1>1. s.pc \in Connecting => /\ s.addr \in Addresses
                             /\ Answers(r) \in Machines
                             /\ Offered(s.addr) \in HostKeys
                             /\ Recorded(s.addr) \subseteq HostKeys
   BY OfferedTyped DEF AskOK, Connecting, Answers, TypeOK
<1>2. ASSUME NEW record \in RunRecords, run' = [run EXCEPT ![r] = record]
      PROVE  run' \in [Runs -> RunRecords]
   BY <1>0, <1>2
<1>3. CASE Ask(r)
   <2>1. [s EXCEPT !.asked = {Offered(s.addr)}, !.seen = Recorded(s.addr)] \in RunRecords
      BY <1>0, <1>1, <1>3 DEF Ask, RunRecords
   <2> QED BY <1>2, <1>3, <2>1 DEF Ask, SetRun, TypeOK, hostTrust, world, trust
<1>4. CASE Answer(r)
   <2>1. [s EXCEPT !.asked = {}, !.seen = {}] \in RunRecords
      BY <1>0 DEF RunRecords
   <2>2. PICK key \in s.asked : Record(s.addr, key, s.seen)
      BY <1>4 DEF Answer
   <2>3. Entry(s.addr, key) \in Entries
      BY <1>0, <1>1, <1>4, KeysTyped DEF Answer, RunRecords
   <2> QED BY <1>2, <1>4, <2>1, <2>2, <2>3 DEF Answer, Record, SetRun, TypeOK, world
<1>5. CASE Begin(r)
   <2>1. [s EXCEPT !.pc = "confirm", !.login = login, !.addr = host[Target]] \in RunRecords
      BY <1>0, CreateUserAssumption DEF RunRecords, RunPcs, TypeOK
   <2> QED BY <1>2, <1>5, <2>1 DEF Begin, SetRun, TypeOK, hostTrust, world, trust
<1>6. CASE Confirm(r)
   <2>1. s.login \in Logins
      BY <1>6 DEF Confirm, RunOK
   <2>2. \A key \in (Fresh \union {s.login.key}) \ {NoKey}, public \in Keys :
            [s EXCEPT !.pc = "create", !.key = key, !.public = public] \in RunRecords
      BY <1>0, <2>1, CreateUserAssumption DEF RunRecords, RunPcs, Connecting, Logins
   <2>3. [s EXCEPT !.pc = "refused"] \in RunRecords
      BY <1>0 DEF RunRecords, RunPcs
   <2> QED BY <1>2, <1>6, <2>2, <2>3 DEF Confirm, GotoRun, SetRun, TypeOK, hostTrust, world, trust
<1>7. CASE Fail(r)
   <2>1. [s EXCEPT !.pc = "failed"] \in RunRecords
      BY <1>0 DEF RunRecords, RunPcs
   <2> QED BY <1>2, <1>7, <2>1 DEF Fail, GotoRun, SetRun, TypeOK, hostTrust, world, trust
<1>8. CASE Create(r)
   <2>. DEFINE h == WithKey(machine[Answers(r)], r)
   <2>0. s.public \in Keys
      BY <1>8 DEF Create, RunOK
   <2>1. h \in MachineStates /\ WithSudo(h, r) \in MachineStates
      <3>1. machine[Answers(r)] \in MachineStates
         BY <1>0, <1>1, <1>8 DEF Create, Connecting
      <3>2. h \in MachineStates
         BY <1>0, <2>0, <3>1 DEF WithKey, MachineStates
      <3>3. WithSudo(h, r) \in MachineStates
         <4>. HIDE DEF h
         <4> QED BY <1>0, <3>2 DEF WithSudo, MachineStates
      <3> QED BY <3>2, <3>3
   <2>2. \A pc \in {"verify", "failed"}, own \in BOOLEAN :
            [s EXCEPT !.pc = pc, !.own = own] \in RunRecords
      BY <1>0 DEF RunRecords, RunPcs, Connecting
   <2>3. PICK done \in BOOLEAN, after \in {h, WithSudo(h, r)} :
            /\ machine' = [machine EXCEPT ![Answers(r)] = after]
            /\ SetRun(r, [s EXCEPT !.pc = IF done THEN "verify" ELSE "failed",
                                   !.own = login.user = UserOf[r]])
      BY <1>8 DEF Create
   <2>4. machine' \in [Machines -> MachineStates]
      BY <1>0, <2>1, <2>3
   <2>5. run' \in [Runs -> RunRecords]
      BY <1>2, <2>2, <2>3 DEF SetRun
   <2> QED BY <1>8, <2>4, <2>5 DEF Create, TypeOK, hostTrust, world, trust
<1>9. CASE Verify(r)
   <2>1. [s EXCEPT !.pc = "save", !.on = {Answers(r)}] \in RunRecords
      BY <1>0, <1>1, <1>9 DEF Verify, RunRecords, RunPcs, Connecting
   <2> QED BY <1>2, <1>9, <2>1 DEF Verify, SetRun, TypeOK, hostTrust, world, trust
<1>10. CASE Save(r)
   <2>1. [s EXCEPT !.pc = "failed"] \in RunRecords /\ [s EXCEPT !.pc = "lockdown"] \in RunRecords
      BY <1>0 DEF RunRecords, RunPcs, Connecting
   <2>2. s.addr \in Addresses /\ Candidate(r) \in Logins /\ s.on \subseteq Machines
      BY <1>0, <1>10 DEF Save, AskOK, RunOK, Created, Candidate, Logins, RunRecords
   <2> QED BY <1>2, <1>10, <2>1, <2>2, CreateUserAssumption
           DEF Save, GotoRun, SetRun, TypeOK, trust
<1>11. CASE Lockdown(r)
   <2>. DEFINE with == [machine[Answers(r)] EXCEPT !.dropin = "managed"]
   <2>1. with \in MachineStates /\ [with EXCEPT !.locked = TRUE] \in MachineStates
      BY <1>0, <1>1, <1>11 DEF Lockdown, Connecting, MachineStates
   <2>2. [s EXCEPT !.pc = "failed"] \in RunRecords /\ [s EXCEPT !.pc = "reverify"] \in RunRecords
      BY <1>0 DEF RunRecords, RunPcs, Connecting
   <2>3. machine' \in [Machines -> MachineStates]
      BY <1>0, <1>11, <2>1 DEF Lockdown
   <2>4. run' \in [Runs -> RunRecords]
      BY <1>2, <1>11, <2>2 DEF Lockdown, GotoRun, SetRun
   <2> QED BY <1>11, <2>3, <2>4 DEF Lockdown, TypeOK, hostTrust, world, trust
<1>12. CASE Reverify(r)
   <2>1. [s EXCEPT !.pc = "success", !.on = @ \union {Answers(r)}] \in RunRecords
      BY <1>0, <1>1, <1>12 DEF Reverify, RunRecords, RunPcs, Connecting
   <2> QED BY <1>2, <1>12, <2>1 DEF Reverify, SetRun, TypeOK, hostTrust, world, trust
<1> QED BY <1>3, <1>4, <1>5, <1>6, <1>7, <1>8, <1>9, <1>10, <1>11, <1>12 DEF RunStep

-----------------------------------------------------------------------------
(* Host keys: one of a type for an address *)

(* An import compares what was probed with what is recorded now.           *)
LEMMA ImportKeeps ==
   ASSUME TypeOK, NEW p \in Setups, Import(p), SetupOK(p)
   PROVE  SetupOK(p)'
<1>. DEFINE s == setup[p]
<1>0. s \in SetupRecords /\ setup \in [Setups -> SetupRecords] /\ host \in [Servers -> Addresses]
   BY DEF TypeOK
<1>1. CASE EndSetup(p)
   BY <1>0, <1>1 DEF EndSetup, SetSetup, SetupOK, NoSetup, SetupActive, OnePerType
<1>2. ASSUME NEW q \in s.todo,
             Conflicting(s.checks[q].keys, Recorded(host[q])) = {},
             SetSetup(p, [setup[p] EXCEPT
                            !.pc = "append", !.todo = @ \ {q}, !.seen = Recorded(host[q]),
                            !.pending = {Entry(host[q], k) : k \in s.checks[q].keys \ Recorded(host[q])}])
      PROVE  SetupOK(p)'
   <2>. DEFINE a == host[q]
               keys == s.checks[q].keys
   <2>1. q \in Servers /\ a \in Addresses
      BY <1>0 DEF SetupRecords
   <2>2. /\ setup'[p].pc = "append" /\ setup'[p].seen = Recorded(a)
         /\ setup'[p].pending = {Entry(a, k) : k \in keys \ Recorded(a)}
         /\ setup'[p].checks = s.checks /\ setup'[p].address = s.address
      BY <1>0, <1>2 DEF SetSetup, SetupRecords
   <2>3. OnePerType(keys)
      BY <2>1 DEF SetupOK
   <2>4. \A k \in keys \ Recorded(a) : \A j \in Recorded(a) : j.type # k.type
      BY <1>2 DEF Conflicting
   <2>5. ASSUME NEW e \in setup'[p].pending
         PROVE  /\ e.addr = a
                /\ \A f \in setup'[p].pending : e.key.type = f.key.type => e = f
                /\ \A k \in setup'[p].seen : k.type # e.key.type
      <3>1. PICK k \in keys \ Recorded(a) : e = Entry(a, k)
         BY <2>2
      <3>2. \A f \in setup'[p].pending : \E j \in keys : f = Entry(a, j)
         BY <2>2
      <3> QED BY <2>2, <2>3, <2>4, <3>1, <3>2 DEF Entry, OnePerType
   <2>6. s.pc = "import"
      BY DEF Import
   <2> QED BY <2>1, <2>2, <2>5, <2>6 DEF SetupOK, SetupActive
<1> QED BY <1>1, <1>2 DEF Import, Adopt

LEMMA SetupKeeps ==
   ASSUME TypeOK, NEW p \in Setups, SetupStep(p), \A q \in Setups : SetupOK(q)
   PROVE  (\A q \in Setups : SetupOK(q))'
<1>. DEFINE s == setup[p]
<1>0. /\ s \in SetupRecords /\ setup \in [Setups -> SetupRecords]
      /\ host \in [Servers -> Addresses] /\ at \in [Addresses -> Machines]
   BY DEF TypeOK
<1>1. ASSUME EndSetup(p) PROVE SetupOK(p)'
   BY <1>0, <1>1 DEF EndSetup, SetSetup, SetupOK, NoSetup, SetupActive, OnePerType
<1>2. ASSUME NEW q \in Setups, q # p PROVE SetupOK(q)'
   <2>1. setup'[q] = setup[q]
      BY <1>0, <1>2 DEF SetupStep, StartSetup, Probe, Trust, Import, Adopt, Append, EndSetup, SetSetup
   <2> QED BY <2>1 DEF SetupOK
<1>3. CASE StartSetup(p)
   BY <1>0, <1>3 DEF StartSetup, SetSetup, SetupOK, NoSetup, SetupActive, OnePerType
<1>4. CASE Probe(p)
   <2>1. PICK q \in s.todo : \E check \in
               {[status |-> CheckKnownHost(s.address[q], Advertised(at[s.address[q]])),
                 keys |-> Advertised(at[s.address[q]])],
                [status |-> "failed", keys |-> {}]} :
            setup' = [setup EXCEPT ![p] = [s EXCEPT !.checks[q] = check, !.todo = s.todo \ {q},
                         !.pc = IF s.todo \ {q} = {} THEN "trust" ELSE "probe"]]
      BY <1>4 DEF Probe, SetSetup
   <2>2. s.address \in [Servers -> Addresses]
      BY <1>4 DEF Probe, SetupOK, SetupActive
   <2>3. q \in Servers /\ s.address[q] \in Addresses /\ at[s.address[q]] \in Machines
      BY <1>0, <2>2 DEF SetupRecords
   <2>4. PICK check :
            /\ OnePerType(check.keys)
            /\ setup' = [setup EXCEPT ![p] = [s EXCEPT !.checks[q] = check, !.todo = s.todo \ {q},
                            !.pc = IF s.todo \ {q} = {} THEN "trust" ELSE "probe"]]
      <3>1. OnePerType({}) /\ OnePerType(Advertised(at[s.address[q]]))
         BY <2>3, KeysTyped DEF OnePerType
      <3> QED BY <2>1, <3>1
   <2>5. setup'[p] = [s EXCEPT !.checks[q] = check, !.todo = s.todo \ {q},
                               !.pc = IF s.todo \ {q} = {} THEN "trust" ELSE "probe"]
      BY <1>0, <2>4
   <2>6. /\ setup'[p].pc \in {"trust", "probe"} /\ setup'[p].address = s.address
         /\ \A v \in Servers : setup'[p].checks[v] = IF v = q THEN check ELSE s.checks[v]
      BY <1>0, <2>5 DEF SetupRecords, Checks
   <2>7. SetupOK(p)'
      BY <2>2, <2>4, <2>6 DEF SetupOK
   <2> QED BY <1>2, <2>7
<1>5. CASE Trust(p)
   <2>1. CASE SetSetup(p, [setup[p] EXCEPT !.pc = "import", !.todo = Missing(p)])
      BY <1>0, <1>2, <1>5, <2>1 DEF Trust, SetSetup, SetupOK, SetupActive, SetupRecords
   <2> QED BY <1>1, <1>2, <1>5, <2>1 DEF Trust
<1>6. CASE Import(p)
   BY <1>2, <1>6, ImportKeeps
<1>7. CASE Append(p)
   <2>1. CASE SetSetup(p, [setup[p] EXCEPT !.pc = "import", !.pending = {}, !.seen = {}])
      BY <1>0, <1>2, <1>7, <2>1 DEF Append, SetSetup, SetupOK, SetupActive, SetupRecords
   <2> QED BY <1>1, <1>2, <1>7, <2>1 DEF Append
<1> QED BY <1>2, <1>3, <1>4, <1>5, <1>6, <1>7 DEF SetupStep

(* Entries of one address are appended by one command, or the address is   *)
(* raced; a command that appends alone has read all that is there.         *)
LEMMA AppendKeeps ==
   ASSUME TypeOK, NEW p \in Setups, SetupStep(p), SetupOK(p), NoSecondKey
   PROVE  NoSecondKey' /\ known \subseteq known' /\ raced \subseteq raced'
<1>. DEFINE s == setup[p]
<1>1. CASE Append(p)
   <2>1. PICK written \in SUBSET s.pending :
            /\ known' = known \union written
            /\ raced' = raced \union {e.addr : e \in {e \in written : Recorded(e.addr) # s.seen}}
      BY <1>1 DEF Append
   <2>2. PICK a \in Addresses : \A e \in s.pending :
            /\ e.addr = a
            /\ \A f \in s.pending : e.key.type = f.key.type => e = f
            /\ \A k \in s.seen : k.type # e.key.type
      BY <1>1 DEF Append, SetupOK
   <2>3. ASSUME NEW e \in written, NEW f \in known, e.addr = f.addr, e.key.type = f.key.type
         PROVE  e.addr \in raced'
      <3>1. f.key \in Recorded(e.addr)
         BY <2>3 DEF Recorded
      <3>2. f.key \notin s.seen
         BY <2>2, <2>3
      <3> QED BY <2>1, <3>1, <3>2
   <2>4. \A e, f \in written : e.key.type = f.key.type => e = f
      BY <2>2
   <2> QED BY <2>1, <2>3, <2>4 DEF NoSecondKey
<1>2. CASE ~Append(p)
   BY <1>2 DEF SetupStep, StartSetup, Probe, Trust, Import, trust, NoSecondKey
<1> QED BY <1>1, <1>2

LEMMA AnswerKeeps ==
   ASSUME NEW r \in Runs, Answer(r), AskOK(r), NoSecondKey
   PROVE  NoSecondKey' /\ known \subseteq known' /\ raced \subseteq raced'
<1>. DEFINE a == run[r].addr
<1>1. PICK key \in run[r].asked :
         /\ known' = known \union {Entry(a, key)}
         /\ raced' = raced \union IF Recorded(a) # run[r].seen THEN {a} ELSE {}
   BY DEF Answer, Record
<1>2. run[r].seen = {} /\ Entry(a, key).addr = a
   BY <1>1 DEF AskOK, Entry
<1>3. ASSUME NEW f \in known, f.addr = a PROVE a \in raced'
   BY <1>1, <1>2, <1>3 DEF Recorded
<1> QED BY <1>1, <1>2, <1>3 DEF NoSecondKey

LEMMA RunFrame ==
   ASSUME NEW r \in Runs, RunStep(r)
   PROVE  /\ UNCHANGED <<at, edits, rebuilds, setup>>
          /\ Answer(r) \/ UNCHANGED <<known, approved, raced>>
          /\ UNCHANGED moved
          /\ Save(r) \/ UNCHANGED <<host, login, proven>>
          /\ Create(r) \/ Lockdown(r) \/ UNCHANGED machine
          /\ \E record : SetRun(r, record)
BY DEF RunStep, Ask, Answer, Begin, Confirm, Fail, Create, Verify, Save, Lockdown, Reverify,
       Record, GotoRun, hostTrust, world, trust

LEMMA ConfirmFields ==
   ASSUME NEW r \in Runs, run \in [Runs -> RunRecords], Confirm(r)
   PROVE  /\ run[r].pc = "confirm"
          /\ run'[r].addr = run[r].addr /\ run'[r].login = run[r].login
          /\ run'[r].asked = run[r].asked /\ run'[r].seen = run[r].seen
          /\ run'[r].on = run[r].on /\ run'[r].own = run[r].own
          /\ \/ run'[r].pc = "refused"
             \/ /\ run'[r].pc = "create" /\ run'[r].key # NoKey
                /\ run'[r].public \in Keys
<1>0. run[r] \in RunRecords
   OBVIOUS
<1>1. CASE GotoRun(r, "refused")
   BY <1>0, <1>1 DEF Confirm, GotoRun, SetRun, RunRecords
<1>2. CASE ~GotoRun(r, "refused")
   <2>1. PICK key \in (Fresh \union {run[r].login.key}) \ {NoKey} : \E public \in Keys :
            run' = [run EXCEPT ![r] = [run[r] EXCEPT !.pc = "create", !.key = key,
                                                     !.public = public]]
      BY <1>2 DEF Confirm, SetRun
   <2>2. PICK public \in Keys :
            run'[r] = [run[r] EXCEPT !.pc = "create", !.key = key, !.public = public]
      BY <2>1
   <2>3. run[r].pc = "confirm"
      BY DEF Confirm
   <2> QED BY <1>0, <2>1, <2>2, <2>3 DEF RunRecords
<1> QED BY <1>1, <1>2

LEMMA RunKeeps ==
   ASSUME TypeOK, NEW r \in Runs, RunStep(r), KeysOK, RunOK(r), NoSecondKey
   PROVE  KeysOK' /\ NoSecondKey' /\ known \subseteq known' /\ raced \subseteq raced'
<1>0. /\ run \in [Runs -> RunRecords] /\ run[r] \in RunRecords
      /\ host[Target] \in Addresses
   BY CreateUserAssumption DEF TypeOK
<1>1. (\A p \in Setups : SetupOK(p))'
   BY RunFrame DEF KeysOK, SetupOK
<1>2. ASSUME NEW q \in Runs, q # r PROVE AskOK(q)'
   BY <1>0, <1>2, RunFrame DEF KeysOK, AskOK, SetRun
<1>3. AskOK(r)'
   <2>1. AskOK(r)
      BY DEF KeysOK
   <2>2. CASE Ask(r)
      BY <1>0, <2>1, <2>2 DEF Ask, SetRun, AskOK, Unknown, Connecting, RunRecords
   <2>3. CASE Answer(r)
      BY <1>0, <2>1, <2>3 DEF Answer, SetRun, AskOK, Connecting, RunRecords
   <2>4. CASE Begin(r)
      BY <1>0, <2>1, <2>4 DEF Begin, SetRun, AskOK, RunRecords
   <2>5. CASE Confirm(r)
      BY <1>0, <2>1, <2>5, ConfirmFields DEF AskOK
   <2>6. CASE Fail(r)
      BY <1>0, <2>1, <2>6 DEF Fail, GotoRun, SetRun, AskOK, Connecting, RunRecords
   <2>7. CASE Create(r)
      BY <1>0, <2>1, <2>7 DEF Create, SetRun, AskOK, RunRecords
   <2>8. CASE Verify(r)
      BY <1>0, <2>1, <2>8 DEF Verify, SetRun, AskOK, RunRecords
   <2>9. CASE Save(r)
      BY <1>0, <2>1, <2>9 DEF Save, GotoRun, SetRun, AskOK, RunRecords
   <2>10. CASE Lockdown(r)
      BY <1>0, <2>1, <2>10 DEF Lockdown, GotoRun, SetRun, AskOK, RunRecords
   <2>11. CASE Reverify(r)
      BY <1>0, <2>1, <2>11 DEF Reverify, SetRun, AskOK, RunRecords
   <2> QED BY <2>2, <2>3, <2>4, <2>5, <2>6, <2>7, <2>8, <2>9, <2>10, <2>11 DEF RunStep
<1>4. NoSecondKey' /\ known \subseteq known' /\ raced \subseteq raced'
   <2>1. CASE Answer(r)
      BY <2>1, AnswerKeeps DEF KeysOK
   <2>2. CASE ~Answer(r)
      BY <2>2, RunFrame DEF NoSecondKey
   <2> QED BY <2>1, <2>2
<1> QED BY <1>1, <1>2, <1>3, <1>4 DEF KeysOK

-----------------------------------------------------------------------------
(* Host keys: what is recorded has been accepted *)

LEMMA SetupVets ==
   ASSUME TypeOK, NEW p \in Setups, SetupStep(p), AllVetted
   PROVE  AllVetted'
<1>. DEFINE s == setup[p]
<1>0. /\ s \in SetupRecords /\ setup \in [Setups -> SetupRecords]
      /\ known \subseteq approved \union moved /\ SetupVetted(p)
   BY DEF TypeOK, AllVetted
<1>1. approved \subseteq approved' /\ moved \subseteq moved'
   BY DEF SetupStep, StartSetup, Probe, Trust, Import, Adopt, Append, trust
<1>2. ASSUME NEW q \in Setups, q # p PROVE SetupVetted(q)'
   <2>1. setup'[q] = setup[q]
      BY <1>0, <1>2 DEF SetupStep, StartSetup, Probe, Trust, Import, Adopt, Append, EndSetup, SetSetup
   <2> QED BY <1>1, <2>1 DEF SetupVetted, AllVetted
<1>3. ASSUME EndSetup(p) PROVE SetupVetted(p)'
   BY <1>0, <1>3 DEF EndSetup, SetSetup, SetupVetted, NoSetup
<1>4. Append(p) \/ known' = known
   BY DEF SetupStep, StartSetup, Probe, Trust, Import, trust
<1>5. ASSUME ~Append(p), SetupVetted(p)' PROVE AllVetted'
   BY <1>0, <1>1, <1>2, <1>4, <1>5 DEF AllVetted
<1>6. CASE StartSetup(p)
   <2>1. setup'[p].pc = "probe"
      BY <1>0, <1>6 DEF StartSetup, SetSetup, NoSetup
   <2> QED BY <1>5, <1>6, <2>1 DEF StartSetup, Append, SetupVetted
<1>7. CASE Probe(p)
   <2>1. setup'[p].pc \in {"probe", "trust"}
      <3>1. PICK q, check :
               setup' = [setup EXCEPT ![p] = [s EXCEPT !.checks[q] = check, !.todo = s.todo \ {q},
                            !.pc = IF s.todo \ {q} = {} THEN "trust" ELSE "probe"]]
         BY <1>7 DEF Probe, SetSetup
      <3> QED BY <1>0, <3>1 DEF SetupRecords
   <2> QED BY <1>5, <1>7, <2>1 DEF Probe, Append, SetupVetted
<1>8. CASE Trust(p)
   <2>1. CASE /\ approved' = approved \union Shown(p)
              /\ SetSetup(p, [setup[p] EXCEPT !.pc = "import", !.todo = Missing(p)])
      <3>1. /\ setup'[p].pc = "import" /\ setup'[p].todo = Missing(p)
            /\ setup'[p].checks = s.checks /\ setup'[p].address = s.address
         BY <1>0, <2>1 DEF SetSetup, SetupRecords
      <3>2. \A q \in Missing(p) : \A k \in s.checks[q].keys : Entry(s.address[q], k) \in approved'
         BY <2>1 DEF Shown
      <3> QED BY <1>5, <1>8, <3>1, <3>2 DEF Trust, Append, SetupVetted
   <2> QED BY <1>3, <1>5, <1>8, <2>1 DEF Trust, Append
<1>9. CASE Import(p)
   <2>1. ASSUME NEW q \in s.todo, Adopt(p, q)
         PROVE  SetupVetted(p)'
      <3>. DEFINE new == {Entry(host[q], k) : k \in s.checks[q].keys \ Recorded(host[q])}
      <3>1. /\ setup'[p].pc = "append" /\ setup'[p].todo = s.todo \ {q}
            /\ setup'[p].checks = s.checks /\ setup'[p].address = s.address
            /\ setup'[p].pending = new
         BY <1>0, <2>1 DEF Adopt, SetSetup, SetupRecords
      <3>2. \A v \in s.todo : \A k \in s.checks[v].keys : Entry(s.address[v], k) \in approved
         BY <1>0, <1>9 DEF Import, SetupVetted
      <3>3. new \subseteq approved \union moved'
         <4>1. CASE host[q] = s.address[q]
            BY <3>2, <4>1
         <4>2. CASE host[q] # s.address[q]
            BY <2>1, <4>2 DEF Adopt
         <4> QED BY <4>1, <4>2
      <3> QED BY <1>1, <3>1, <3>2, <3>3 DEF SetupVetted
   <2> QED BY <1>3, <1>5, <1>9, <2>1 DEF Import, Append
<1>10. CASE Append(p)
   <2>1. known' \subseteq approved' \union moved'
      BY <1>0, <1>1, <1>10 DEF Append, SetupVetted
   <2>2. SetupVetted(p)'
      <3>1. CASE SetSetup(p, [setup[p] EXCEPT !.pc = "import", !.pending = {}, !.seen = {}])
         <4>1. /\ setup'[p].pc = "import" /\ setup'[p].todo = s.todo
               /\ setup'[p].checks = s.checks /\ setup'[p].address = s.address
            BY <1>0, <3>1 DEF SetSetup, SetupRecords
         <4> QED BY <1>0, <1>1, <1>10, <4>1 DEF Append, SetupVetted
      <3> QED BY <1>3, <1>10, <3>1 DEF Append
   <2> QED BY <1>2, <2>1, <2>2 DEF AllVetted
<1> QED BY <1>6, <1>7, <1>8, <1>9, <1>10 DEF SetupStep

LEMMA RunVets ==
   ASSUME NEW r \in Runs, RunStep(r), AllVetted
   PROVE  AllVetted'
<1>1. UNCHANGED <<setup, moved>>
   BY RunFrame
<1>2. approved \subseteq approved' /\ known' \subseteq approved' \union moved'
   <2>1. CASE Answer(r)
      BY <1>1, <2>1 DEF Answer, Record, AllVetted
   <2>2. CASE ~Answer(r)
      BY <1>1, <2>2, RunFrame DEF AllVetted
   <2> QED BY <2>1, <2>2
<1>3. \A p \in Setups : SetupVetted(p)'
   BY <1>1, <1>2 DEF SetupVetted, AllVetted
<1> QED BY <1>2, <1>3 DEF AllVetted

-----------------------------------------------------------------------------
(* What a run has done stays done *)

(* No step but a run's own takes its user's key or sudo rule, and none     *)
(* opens a machine that is closed.                                         *)
UserKept(r) ==
   \A m \in Machines :
      /\ machine'[m].authorized[UserOf[r]] = machine[m].authorized[UserOf[r]]
      /\ UserOf[r] \in machine[m].sudo => UserOf[r] \in machine'[m].sudo
ClosedKept == \A m \in Machines : Closed(m) => Closed(m)'

LEMMA LockdownMachines ==
   ASSUME TypeOK, NEW r \in Runs, Lockdown(r), NEW m \in Machines
   PROVE  /\ machine'[m].authorized = machine[m].authorized
          /\ machine'[m].sudo = machine[m].sudo
          /\ KeyOnly(machine[m]) => KeyOnly(machine'[m])
          /\ machine[m].locked => machine'[m].locked
          /\ m # Answers(r) => machine'[m] = machine[m]
<1>0. machine \in [Machines -> MachineStates] /\ machine[m] \in MachineStates
   BY DEF TypeOK
<1>. DEFINE with == [machine[Answers(r)] EXCEPT !.dropin = "managed"]
<1>1. PICK after \in {machine[Answers(r)], with, [with EXCEPT !.locked = TRUE]} :
         machine' = [machine EXCEPT ![Answers(r)] = after]
   BY <1>0 DEF Lockdown
<1>2. CASE m # Answers(r)
   BY <1>0, <1>1, <1>2
<1>3. CASE m = Answers(r)
   <2>1. machine'[m] = after
      BY <1>0, <1>1, <1>3
   <2>2. /\ after.authorized = machine[m].authorized /\ after.sudo = machine[m].sudo
         /\ after.overridden = machine[m].overridden
         /\ after.dropin = machine[m].dropin \/ after.dropin = "managed"
         /\ machine[m].locked => after.locked
      BY <1>0, <1>3 DEF MachineStates
   <2> QED BY <1>3, <2>1, <2>2 DEF KeyOnly
<1> QED BY <1>2, <1>3

LEMMA CreateMachines ==
   ASSUME TypeOK, NEW r \in Runs, Create(r), NEW m \in Machines
   PROVE  /\ \A u \in Users \ {UserOf[r]} : machine'[m].authorized[u] = machine[m].authorized[u]
          /\ machine[m].sudo \subseteq machine'[m].sudo
          /\ KeyOnly(machine'[m]) <=> KeyOnly(machine[m])
          /\ machine'[m].locked = machine[m].locked
          /\ m # Answers(r) => machine'[m] = machine[m]
          /\ m = Answers(r) /\ run'[r].pc = "verify" => Prepared(r, m)'
<1>0. /\ machine \in [Machines -> MachineStates] /\ machine[m] \in MachineStates
      /\ UserOf[r] \in Users
      /\ run \in [Runs -> RunRecords] /\ run[r] \in RunRecords
   BY CreateUserAssumption DEF TypeOK
<1>. DEFINE h == WithKey(machine[Answers(r)], r)
<1>1. PICK done \in BOOLEAN, after \in {h, WithSudo(h, r)} :
         /\ done => after = WithSudo(h, r)
         /\ machine' = [machine EXCEPT ![Answers(r)] = after]
         /\ SetRun(r, [run[r] EXCEPT !.pc = IF done THEN "verify" ELSE "failed",
                                     !.own = login.user = UserOf[r]])
   BY DEF Create
<1>2. CASE m # Answers(r)
   BY <1>0, <1>1, <1>2
<1>3. CASE m = Answers(r)
   <2>1. machine'[m] = after
      BY <1>0, <1>1, <1>3
   <2>2. /\ h.authorized = [machine[m].authorized EXCEPT ![UserOf[r]] = {run[r].public}]
         /\ h.sudo = machine[m].sudo /\ h.dropin = machine[m].dropin
         /\ h.overridden = machine[m].overridden /\ h.locked = machine[m].locked
         /\ WithSudo(h, r).authorized = h.authorized
         /\ WithSudo(h, r).sudo = h.sudo \union {UserOf[r]}
         /\ WithSudo(h, r).dropin = h.dropin
         /\ WithSudo(h, r).overridden = h.overridden /\ WithSudo(h, r).locked = h.locked
      BY <1>0, <1>3 DEF WithKey, WithSudo, MachineStates
   <2>3. run'[r].pc = (IF done THEN "verify" ELSE "failed") /\ run'[r].public = run[r].public
      BY <1>0, <1>1 DEF SetRun, RunRecords
   <2>4. h.authorized[UserOf[r]] = {run[r].public}
      BY <1>0, <2>2 DEF MachineStates
   <2>5. \A u \in Users \ {UserOf[r]} : h.authorized[u] = machine[m].authorized[u]
      BY <1>0, <2>2 DEF MachineStates
   <2>6. run'[r].pc = "verify" => Prepared(r, m)'
      BY <1>1, <2>1, <2>2, <2>3, <2>4 DEF Prepared
   <2>7. /\ after.authorized = h.authorized /\ machine[m].sudo \subseteq after.sudo
         /\ after.dropin = machine[m].dropin
         /\ after.overridden = machine[m].overridden /\ after.locked = machine[m].locked
      BY <1>1, <2>2
   <2>8. KeyOnly(after) <=> KeyOnly(machine[m])
      BY <2>7 DEF KeyOnly
   <2> HIDE DEF h
   <2> QED BY <1>3, <2>1, <2>5, <2>6, <2>7, <2>8
<1> QED BY <1>2, <1>3

LEMMA RunKeepsUsers ==
   ASSUME TypeOK, NEW r \in Runs, RunStep(r)
   PROVE  /\ ClosedKept
          /\ \A q \in Runs : q # r \/ ~Create(r) => UserKept(q)
<1>1. \A q \in Runs : UserOf[q] \in Users /\ (q # r => UserOf[q] # UserOf[r])
   BY CreateUserAssumption
<1>2. CASE Create(r)
   BY <1>1, <1>2, CreateMachines DEF UserKept, ClosedKept, Closed
<1>3. CASE Lockdown(r)
   <2>1. ~Create(r)
      BY <1>3 DEF Create, Lockdown
   <2> QED BY <1>1, <1>3, <2>1, LockdownMachines DEF UserKept, ClosedKept, Closed, KeyOnly
<1>4. CASE ~Create(r) /\ ~Lockdown(r)
   BY <1>4, RunFrame DEF UserKept, ClosedKept, Closed
<1> QED BY <1>2, <1>3, <1>4

(* All connections of a run reach one machine, unless the host keys of its *)
(* address have been raced.                                                *)
LEMMA OneMachine ==
   ASSUME NoSecondKey, NEW r, NEW m, NEW n, Reachable(r, m), Reachable(r, n),
          run[r].addr \notin raced
   PROVE  m = n
<1>. DEFINE e == Entry(run[r].addr, HostKey(m, Preferred))
            f == Entry(run[r].addr, HostKey(n, Preferred))
<1>1. e \in known /\ f \in known
   BY DEF Reachable
<1>2. /\ e.addr = run[r].addr /\ f.addr = run[r].addr
      /\ e.key = HostKey(m, Preferred) /\ f.key = HostKey(n, Preferred)
      /\ e.key.type = Preferred /\ f.key.type = Preferred
   BY DEF Entry, HostKey
<1>3. HostKey(m, Preferred) = HostKey(n, Preferred)
   BY <1>1, <1>2 DEF NoSecondKey
<1> QED BY <1>3 DEF HostKey

LEMMA AcceptedReaches ==
   ASSUME known \subseteq Entries, NEW r, Accepted(run[r].addr)
   PROVE  Reachable(r, Answers(r))
BY RecordedEntries DEF Accepted, Offered, Answers, Reachable

SameRun(r) ==
   /\ run'[r].pc = run[r].pc /\ run'[r].addr = run[r].addr /\ run'[r].login = run[r].login
   /\ run'[r].key = run[r].key /\ run'[r].public = run[r].public
   /\ run'[r].on = run[r].on /\ run'[r].own = run[r].own

(* Steps that leave a run alone keep what it has established.              *)
LEMMA OthersKeep ==
   ASSUME TypeOK, NEW r \in Runs, RunOK(r), SameRun(r), UserKept(r), ClosedKept,
          NoSecondKey', known \subseteq known', raced \subseteq raced'
   PROVE  RunOK(r)'
<1>1. \A m \in Machines : Reachable(r, m) => Reachable(r, m)'
   BY DEF Reachable, SameRun
<1>2. ASSUME run[r].pc \in Created
      PROVE  \/ run'[r].addr \in raced'
             \/ \A m \in Machines : Reachable(r, m)' => Reachable(r, m)
   <2>1. PICK n \in Machines : Reachable(r, n)
      BY <1>2 DEF RunOK
   <2>2. ASSUME NEW m \in Machines, Reachable(r, m)', run'[r].addr \notin raced'
         PROVE  m = n
      <3>. DEFINE e == Entry(run'[r].addr, HostKey(m, Preferred))
                  f == Entry(run'[r].addr, HostKey(n, Preferred))
      <3>1. e \in known' /\ f \in known'
         BY <1>1, <2>1, <2>2 DEF Reachable
      <3>2. /\ e.addr = run'[r].addr /\ f.addr = run'[r].addr
            /\ e.key = HostKey(m, Preferred) /\ f.key = HostKey(n, Preferred)
            /\ e.key.type = Preferred /\ f.key.type = Preferred
         BY DEF Entry, HostKey
      <3>3. HostKey(m, Preferred) = HostKey(n, Preferred)
         BY <2>2, <3>1, <3>2 DEF NoSecondKey
      <3> QED BY <3>3 DEF HostKey
   <2> QED BY <2>1, <2>2
<1>3. \A m \in Machines : Prepared(r, m) => Prepared(r, m)'
   BY DEF Prepared, UserKept, SameRun
<1>4. run[r].pc \in Created =>
         /\ \E m \in Machines : Reachable(r, m)'
         /\ run'[r].addr \in raced' \/ \A m \in Machines : Reachable(r, m)' => Prepared(r, m)'
   BY <1>1, <1>2, <1>3 DEF RunOK, SameRun
<1>5. run[r].pc \in {"save"} \union Saved =>
         /\ run'[r].on # {}
         /\ \A m \in run'[r].on : /\ Reachable(r, m)'
                                  /\ Opened(r, m)'
                                  /\ UserOf[r] \in machine'[m].sudo
   <2>1. run[r].on \subseteq Machines
      BY DEF TypeOK, RunRecords
   <2> QED BY <1>1, <2>1 DEF RunOK, SameRun, UserKept, Opened
<1>6. run[r].pc \in {"reverify", "success"} =>
         \/ run'[r].addr \in raced'
         \/ \A m \in Machines : Reachable(r, m)' => Closed(m)'
   BY <1>2 DEF RunOK, SameRun, ClosedKept, Created
<1> QED BY <1>4, <1>5, <1>6 DEF RunOK, SameRun

(* A login that a key is bound to, other than root's, works as far as keys *)
(* are accepted for it, however sshd is configured.                        *)
LEMMA KeyAdmits ==
   ASSUME NEW h, NEW as, as.key # NoKey, as.user # "root"
   PROVE  Admits(h, as) <=> ({as.key} \union AgentKeys) \intersect h.authorized[as.user] # {}
BY DEF Admits, Offers, OwnKeys

LEMMA AdmitsAlike ==
   ASSUME NEW h, NEW g, NEW as, g.authorized[as.user] = h.authorized[as.user],
          g.locked = h.locked
   PROVE  Admits(g, as) <=> Admits(h, as)
BY DEF Admits

LEMMA ReloadedFields ==
   ASSUME NEW h \in MachineStates
   PROVE  /\ Reloaded(h) \in MachineStates
          /\ Reloaded(h).authorized = h.authorized /\ Reloaded(h).sudo = h.sudo
          /\ Reloaded(h).locked = KeyOnly(h)
          /\ KeyOnly(Reloaded(h)) <=> KeyOnly(h)
<1>1. KeyOnly(h) \in BOOLEAN
   BY DEF KeyOnly
<1>2. PICK k \in BOOLEAN : k = KeyOnly(h)
   BY <1>1
<1>3. Reloaded(h) = [h EXCEPT !.locked = k]
   BY <1>2 DEF Reloaded
<1>4. /\ Reloaded(h) \in MachineStates
      /\ Reloaded(h).authorized = h.authorized /\ Reloaded(h).sudo = h.sudo
      /\ Reloaded(h).locked = k
      /\ Reloaded(h).dropin = h.dropin /\ Reloaded(h).overridden = h.overridden
   BY <1>3 DEF MachineStates
<1> QED BY <1>2, <1>4 DEF KeyOnly

LEMMA CandidateIs ==
   ASSUME NEW r \in Runs
   PROVE  /\ Candidate(r).key = run[r].key /\ Candidate(r).user = UserOf[r]
          /\ UserOf[r] # "root"
BY CreateUserAssumption DEF Candidate

(* A connection as the candidate proves its sudo rule there, and that a    *)
(* key that the run offers is accepted.                                    *)
LEMMA ProvenReaches ==
   ASSUME TypeOK, NEW r \in Runs, Proven(r), RunOK(r), run[r].pc \in Created
   PROVE  /\ Reachable(r, Answers(r))
          /\ Opened(r, Answers(r))
          /\ UserOf[r] \in machine[Answers(r)].sudo
<1>1. LoginOf(r) = Candidate(r) /\ run[r].key # NoKey
   BY DEF LoginOf, RunOK, Created
<1>2. known \subseteq Entries
   BY DEF TypeOK
<1>3. Admits(machine[Answers(r)], Candidate(r)) /\ Accepted(run[r].addr)
   BY <1>1 DEF Proven, Connected, CanLogin
<1>4. Opened(r, Answers(r))
   BY <1>1, <1>3, CandidateIs, KeyAdmits DEF Opened
<1>5. UserOf[r] \in machine[Answers(r)].sudo
   BY CandidateIs DEF Proven, Elevated
<1> QED BY <1>2, <1>3, <1>4, <1>5, AcceptedReaches

(* Whether sshd is to accept keys only does not depend on its last reload. *)
LEMMA LockedStays ==
   ASSUME NEW h \in MachineStates, KeyOnly(h)
   PROVE  [h EXCEPT !.locked = TRUE].locked /\ KeyOnly([h EXCEPT !.locked = TRUE])
<1>1. /\ [h EXCEPT !.locked = TRUE].locked
      /\ [h EXCEPT !.locked = TRUE].dropin = h.dropin
      /\ [h EXCEPT !.locked = TRUE].overridden = h.overridden
   BY DEF MachineStates
<1> QED BY <1>1 DEF KeyOnly

(* The run's own step keeps what is known of it.                           *)
LEMMA OwnKeeps ==
   ASSUME TypeOK, NEW r \in Runs, RunStep(r), AskOK(r), RunOK(r),
          NoSecondKey, NoSecondKey', known \subseteq known', raced \subseteq raced'
   PROVE  RunOK(r)'
<1>. DEFINE s == run[r]
<1>0. /\ run \in [Runs -> RunRecords] /\ s \in RunRecords
      /\ machine \in [Machines -> MachineStates]
      /\ known \subseteq Entries
   BY DEF TypeOK
<1>1. ClosedKept /\ (~Create(r) => UserKept(r))
   BY RunKeepsUsers
<1>2. CASE Ask(r) \/ Answer(r)
   <2>1. SameRun(r)
      <3>1. CASE Ask(r)
         BY <1>0, <3>1 DEF Ask, SetRun, SameRun, RunRecords
      <3>2. CASE Answer(r)
         BY <1>0, <3>2 DEF Answer, SetRun, SameRun, RunRecords
      <3> QED BY <1>2, <3>1, <3>2
   <2>2. ~Create(r)
      <3>1. CASE Ask(r)
         BY <1>0, <3>1 DEF Ask, Create, Connected, Unknown, Accepted
      <3>2. CASE Answer(r)
         BY <3>2 DEF Answer, Create
      <3> QED BY <1>2, <3>1, <3>2
   <2> QED BY <1>1, <2>1, <2>2, OthersKeep
<1>3. CASE Begin(r)
   <2>1. run'[r].pc = "confirm" /\ run'[r].login = login /\ run'[r].own = s.own
      BY <1>0, <1>3 DEF Begin, SetRun, RunRecords
   <2> QED BY <1>3, <2>1 DEF Begin, RunOK, Created, Saved, TypeOK
<1>4. CASE Confirm(r)
   BY <1>0, <1>4, ConfirmFields DEF RunOK, Created, Saved
<1>5. ASSUME run'[r].pc = "failed" PROVE RunOK(r)'
   BY <1>5 DEF RunOK, Created, Saved
<1>6. CASE Fail(r)
   BY <1>0, <1>5, <1>6 DEF Fail, GotoRun, SetRun, RunRecords
<1>7. CASE Create(r)
   <2>1. /\ run'[r].pc \in {"verify", "failed"} /\ run'[r].addr = s.addr
         /\ run'[r].key = s.key /\ run'[r].public = s.public
      BY <1>0, <1>7 DEF Create, SetRun, RunRecords
   <2>2. CASE run'[r].pc = "verify"
      <3>1. UNCHANGED <<known, raced, at>>
         BY <1>7 DEF Create, hostTrust, trust, world
      <3>2. Answers(r) \in Machines /\ Reachable(r, Answers(r))
         BY <1>0, <1>7, AcceptedReaches DEF Create, Connected, AskOK, Answers, TypeOK
      <3>3. Reachable(r, Answers(r))'
         <4>1. Entry(run'[r].addr, HostKey(Answers(r), Preferred)) \in known'
            BY <2>1, <3>1, <3>2 DEF Reachable
         <4>2. Answers(r)' = Answers(r)
            BY <2>1, <3>1 DEF Answers
         <4> QED BY <4>1, <4>2 DEF Reachable
      <3>4. ASSUME run'[r].addr \notin raced', NEW m \in Machines, Reachable(r, m)'
            PROVE  Prepared(r, m)'
         <4>1. Reachable(r, m)
            BY <2>1, <3>1, <3>4 DEF Reachable
         <4>2. m = Answers(r)
            BY <2>1, <3>1, <3>2, <3>4, <4>1, OneMachine
         <4> QED BY <1>7, <2>2, <4>2, CreateMachines
      <3>5. s.key # NoKey /\ s.public \in Keys
         BY <1>7 DEF Create, RunOK
      <3>6. \E m \in Machines : Reachable(r, m)'
         BY <2>1, <3>1, <3>2 DEF Reachable
      <3> QED BY <2>1, <2>2, <3>4, <3>5, <3>6 DEF RunOK, Created, Saved
   <2> QED BY <1>5, <2>1, <2>2
<1>8. CASE Verify(r)
   <2>1. /\ run'[r].pc = "save" /\ run'[r].addr = s.addr /\ run'[r].on = {Answers(r)}
         /\ run'[r].key = s.key /\ run'[r].public = s.public
         /\ s.pc = "verify"
      BY <1>0, <1>8 DEF Verify, SetRun, RunRecords
   <2>2. UNCHANGED <<known, raced, machine>>
      BY <1>8 DEF Verify, hostTrust, trust
   <2>3. /\ Reachable(r, Answers(r))
         /\ Opened(r, Answers(r))
         /\ UserOf[r] \in machine[Answers(r)].sudo
      BY <1>8, <2>1, ProvenReaches DEF Verify, Created
   <2> QED BY <2>1, <2>2, <2>3 DEF RunOK, Created, Saved, Reachable, Prepared, Opened
<1>9. CASE Save(r)
   <2>1. /\ run'[r].pc \in {"lockdown", "failed"} /\ run'[r].addr = s.addr
         /\ run'[r].on = s.on
         /\ run'[r].key = s.key /\ run'[r].public = s.public
         /\ s.pc = "save"
      BY <1>0, <1>9 DEF Save, GotoRun, SetRun, RunRecords
   <2>2. UNCHANGED <<known, raced, machine>>
      BY <1>9 DEF Save, trust
   <2> QED BY <2>1, <2>2 DEF RunOK, Created, Saved, Reachable, Prepared, Opened
<1>10. CASE Lockdown(r)
   <2>1. /\ run'[r].pc \in {"reverify", "failed"} /\ run'[r].addr = s.addr
         /\ run'[r].on = s.on /\ run'[r].login = s.login /\ run'[r].own = s.own
         /\ run'[r].key = s.key /\ run'[r].public = s.public
         /\ s.pc = "lockdown"
      BY <1>0, <1>10 DEF Lockdown, GotoRun, SetRun, RunRecords
   <2>2. UNCHANGED <<known, raced, at>>
      BY <1>10 DEF Lockdown, hostTrust, trust, world
   <2>3. UserKept(r)
      BY <1>1, <1>10 DEF Create, Lockdown
   <2>4. CASE run'[r].pc = "reverify"
      <3>1. Answers(r) \in Machines /\ Reachable(r, Answers(r))
         BY <1>0, <1>10, AcceptedReaches DEF Lockdown, Connected, AskOK, Answers, TypeOK
      <3>2. Closed(Answers(r))'
         <4>. DEFINE with == [machine[Answers(r)] EXCEPT !.dropin = "managed"]
         <4>1. /\ KeyOnly(with)
               /\ machine' = [machine EXCEPT ![Answers(r)] = [with EXCEPT !.locked = TRUE]]
            BY <1>0, <1>10, <2>4 DEF Lockdown, GotoRun, SetRun, RunRecords
         <4>2. machine'[Answers(r)] = [with EXCEPT !.locked = TRUE]
            BY <1>0, <3>1, <4>1
         <4>3. Answers(r)' = Answers(r)
            BY <2>1, <2>2 DEF Answers
         <4>4. with \in MachineStates
            BY <1>0, <3>1 DEF MachineStates
         <4>5. machine'[Answers(r)].locked /\ KeyOnly(machine'[Answers(r)])
            BY <4>1, <4>2, <4>4, LockedStays
         <4> QED BY <4>3, <4>5 DEF Closed
      <3>3. ASSUME run'[r].addr \notin raced', NEW m \in Machines, Reachable(r, m)'
            PROVE  Closed(m)'
         <4>1. Reachable(r, m)
            BY <2>1, <2>2, <3>3 DEF Reachable
         <4>2. m = Answers(r)'
            BY <2>1, <2>2, <3>1, <3>3, <4>1, OneMachine DEF Answers
         <4> QED BY <3>2, <4>2 DEF Closed
      <3>4. /\ \A m \in Machines : Reachable(r, m)' <=> Reachable(r, m)
            /\ \A m \in Machines : Prepared(r, m) => Prepared(r, m)'
         BY <2>1, <2>2, <2>3 DEF Reachable, Prepared, UserKept
      <3>5. s.on \subseteq Machines
         BY <1>0 DEF RunRecords
      <3>6. \A m \in s.on : /\ Reachable(r, m)'
                            /\ Opened(r, m)'
                            /\ UserOf[r] \in machine'[m].sudo
         BY <2>1, <2>3, <3>4, <3>5 DEF RunOK, Saved, UserKept, Opened
      <3> QED BY <2>1, <2>2, <2>4, <3>3, <3>4, <3>6 DEF RunOK, Created, Saved
   <2> QED BY <1>5, <2>1, <2>4
<1>11. CASE Reverify(r)
   <2>1. /\ run'[r].pc = "success" /\ run'[r].addr = s.addr
         /\ run'[r].on = s.on \union {Answers(r)}
         /\ run'[r].key = s.key /\ run'[r].public = s.public
         /\ s.pc = "reverify"
      BY <1>0, <1>11 DEF Reverify, SetRun, RunRecords
   <2>2. UNCHANGED <<known, raced, machine>>
      BY <1>11 DEF Reverify, hostTrust, trust
   <2>3. /\ Reachable(r, Answers(r))
         /\ Opened(r, Answers(r))
         /\ UserOf[r] \in machine[Answers(r)].sudo
      BY <1>11, <2>1, ProvenReaches DEF Reverify, Created
   <2>4. \A m : /\ Reachable(r, m)' <=> Reachable(r, m)
                /\ Prepared(r, m)' <=> Prepared(r, m)
                /\ Closed(m)' <=> Closed(m)
                /\ Opened(r, m)' <=> Opened(r, m)
      BY <2>1, <2>2 DEF Reachable, Prepared, Closed, Opened
   <2>5. /\ run'[r].key # NoKey /\ run'[r].public \in Keys
         /\ \E m \in Machines : Reachable(r, m)'
         /\ run'[r].addr \in raced' \/ \A m \in Machines : Reachable(r, m)' => Prepared(r, m)'
         /\ run'[r].addr \in raced' \/ \A m \in Machines : Reachable(r, m)' => Closed(m)'
      BY <2>1, <2>2, <2>4 DEF RunOK, Created
   <2>6. /\ run'[r].on # {}
         /\ \A m \in run'[r].on : /\ Reachable(r, m)'
                                  /\ Opened(r, m)'
                                  /\ UserOf[r] \in machine'[m].sudo
      BY <2>1, <2>2, <2>3, <2>4 DEF RunOK, Saved
   <2> QED BY <2>1, <2>5, <2>6 DEF RunOK, Created, Saved
<1> QED BY <1>2, <1>3, <1>4, <1>6, <1>7, <1>8, <1>9, <1>10, <1>11 DEF RunStep

-----------------------------------------------------------------------------
(* The saved login *)

LEMMA StepFields ==
   ASSUME NEW r \in Runs, run \in [Runs -> RunRecords], RunStep(r)
   PROVE  /\ Save(r) \/ (run'[r].pc \in Saved => run[r].pc \in Saved)
          /\ Create(r) \/ run'[r].own = run[r].own
<1>0. run[r] \in RunRecords
   OBVIOUS
<1>1. CASE Ask(r)
   BY <1>0, <1>1 DEF Ask, SetRun, RunRecords
<1>2. CASE Answer(r)
   BY <1>0, <1>2 DEF Answer, SetRun, RunRecords
<1>3. CASE Begin(r)
   BY <1>0, <1>3 DEF Begin, SetRun, RunRecords, Saved
<1>4. CASE Confirm(r)
   BY <1>0, <1>4, ConfirmFields DEF Saved
<1>5. CASE Fail(r)
   BY <1>0, <1>5 DEF Fail, GotoRun, SetRun, RunRecords, Saved
<1>6. CASE Create(r)
   <2>1. run'[r].pc \in {"verify", "failed"}
      BY <1>0, <1>6 DEF Create, SetRun, RunRecords
   <2> QED BY <1>6, <2>1 DEF Saved
<1>7. CASE Verify(r)
   BY <1>0, <1>7 DEF Verify, SetRun, RunRecords, Saved
<1>8. CASE Save(r)
   BY <1>0, <1>8 DEF Save, GotoRun, SetRun, RunRecords
<1>9. CASE Lockdown(r)
   BY <1>0, <1>9 DEF Lockdown, GotoRun, SetRun, RunRecords, Saved
<1>10. CASE Reverify(r)
   BY <1>0, <1>10 DEF Reverify, SetRun, RunRecords, Saved
<1> QED BY <1>1, <1>2, <1>3, <1>4, <1>5, <1>6, <1>7, <1>8, <1>9, <1>10 DEF RunStep

(* What a run has verified works, whatever sshd reads and when.            *)
LEMMA OpenedWorks ==
   ASSUME TypeOK, NEW r \in Runs, NEW m \in Machines, run[r].key # NoKey,
          Opened(r, m), UserOf[r] \in machine[m].sudo
   PROVE  Works(m, Candidate(r))
<1>1. machine[m] \in MachineStates
   BY DEF TypeOK
<1>2. Admits(machine[m], Candidate(r))
   BY CandidateIs, KeyAdmits DEF Opened
<1>3. Admits(Reloaded(machine[m]), Candidate(r))
   BY <1>1, CandidateIs, KeyAdmits, ReloadedFields DEF Opened
<1> QED BY <1>2, <1>3, CandidateIs DEF Works, CanLogin, Elevated

(* The saved login works on while its keys and its sudo rule stay, and     *)
(* while either it is a key login or sshd stays as open as it is.          *)
LEMMA LoginWorks ==
   ASSUME TypeOK, TypeOK', UNCHANGED <<login, proven>>, Works(proven, login),
          machine'[proven].authorized[login.user] = machine[proven].authorized[login.user],
          machine[proven].sudo \subseteq machine'[proven].sudo,
          \/ KeyLogin
          \/ /\ KeyOnly(machine'[proven]) <=> KeyOnly(machine[proven])
             /\ \/ machine'[proven].locked = machine[proven].locked
                \/ machine'[proven].locked = KeyOnly(machine[proven])
   PROVE  Works(proven, login)'
<1>. DEFINE h == machine[proven]
            g == machine'[proven]
<1>0. /\ h \in MachineStates /\ g \in MachineStates
      /\ Admits(h, login) /\ Admits(Reloaded(h), login) /\ Elevated(proven, login)
      /\ g.authorized[login.user] = h.authorized[login.user] /\ h.sudo \subseteq g.sudo
   BY DEF TypeOK, Works, CanLogin
<1>. HIDE DEF h, g
<1>1. Admits(g, login) /\ Admits(Reloaded(g), login)
   <2>1. CASE KeyLogin
      BY <1>0, <2>1, KeyAdmits, ReloadedFields DEF KeyLogin
   <2>2. CASE ~KeyLogin
      <3>1. /\ KeyOnly(g) <=> KeyOnly(h)
            /\ g.locked = h.locked \/ g.locked = KeyOnly(h)
         BY <2>2 DEF h, g
      <3>2. Reloaded(g).locked = Reloaded(h).locked
         BY <1>0, <3>1, ReloadedFields DEF KeyOnly
      <3>3. /\ Reloaded(g).authorized[login.user] = Reloaded(h).authorized[login.user]
            /\ g.authorized[login.user] = Reloaded(h).authorized[login.user]
         BY <1>0, ReloadedFields
      <3>4. Admits(Reloaded(g), login)
         BY <1>0, <3>2, <3>3, AdmitsAlike
      <3>5. CASE g.locked = h.locked
         BY <1>0, <3>4, <3>5, AdmitsAlike
      <3>6. CASE g.locked = KeyOnly(h)
         <4>1. g.locked = Reloaded(h).locked
            BY <1>0, <3>6, ReloadedFields
         <4> QED BY <1>0, <3>3, <3>4, <4>1, AdmitsAlike
      <3> QED BY <3>1, <3>5, <3>6
   <2> QED BY <2>1, <2>2
<1>2. Elevated(proven, login)'
   BY <1>0 DEF Elevated, h, g
<1>3. Admits(machine'[proven'], login') /\ Admits(Reloaded(machine'[proven']), login')
   BY <1>1 DEF g
<1> QED BY <1>2, <1>3 DEF Works, CanLogin

LEMMA RunKeepsLogin ==
   ASSUME TypeOK, TypeOK', NEW r \in Runs, RunStep(r), \A q \in Runs : RunOK(q),
          LoginOK, NeverLockedOut
   PROVE  LoginOK' /\ NeverLockedOut'
<1>. DEFINE s == run[r]
<1>0. /\ run \in [Runs -> RunRecords] /\ s \in RunRecords
      /\ proven \in Machines /\ login.user \in Users
      /\ UserOf[r] \in Users \ {"root"}
      /\ RunOK(r)
   BY CreateUserAssumption DEF TypeOK, Logins
<1>1. ASSUME NEW q \in Runs, q # r PROVE run'[q] = run[q]
   BY <1>0, <1>1, RunFrame DEF SetRun
<1>2. ASSUME s.own => run'[r].own, Works(proven, login) => Works(proven, login)'
      PROVE  NeverLockedOut'
   <2>1. (\E q \in Runs : run[q].own) => \E q \in Runs : run'[q].own
      BY <1>1, <1>2
   <2> QED BY <1>2, <2>1 DEF NeverLockedOut
<1>3. CASE Save(r)
   <2>1. CASE GotoRun(r, "failed") /\ UNCHANGED <<host, login, proven>>
      <3>1. run'[r].pc = "failed" /\ run'[r].own = s.own /\ UNCHANGED machine
         BY <1>0, <1>3, <2>1 DEF Save, GotoRun, SetRun, RunRecords
      <3>2. LoginOK'
         BY <1>1, <2>1, <3>1 DEF LoginOK, KeyLogin, Saved
      <3>3. Works(proven, login) => Works(proven, login)'
         BY <2>1, <3>1 DEF Works, CanLogin, Elevated
      <3> QED BY <1>2, <3>1, <3>2, <3>3
   <2>2. CASE ~(GotoRun(r, "failed") /\ UNCHANGED <<host, login, proven>>)
      <3>1. PICK m \in s.on : proven' = m /\ login' = Candidate(r) /\ UNCHANGED machine
         BY <1>3, <2>2 DEF Save
      <3>2. s.key # NoKey /\ Opened(r, m) /\ UserOf[r] \in machine[m].sudo
         BY <1>0, <1>3, <3>1 DEF Save, RunOK, Created
      <3>3. m \in Machines
         BY <1>0, <3>1 DEF RunRecords
      <3>4. KeyLogin'
         BY <3>1, <3>2, CandidateIs DEF KeyLogin
      <3>5. Works(m, Candidate(r))
         BY <3>2, <3>3, OpenedWorks
      <3>6. Works(proven, login)'
         BY <3>1, <3>5 DEF Works, CanLogin, Elevated
      <3> QED BY <3>4, <3>6 DEF LoginOK, NeverLockedOut
   <2> QED BY <2>1, <2>2
<1>4. CASE ~Save(r)
   <2>1. UNCHANGED <<login, proven>>
      BY <1>4, RunFrame
   <2>2. run'[r].pc \in Saved => s.pc \in Saved
      BY <1>0, <1>4, StepFields
   <2>3. LoginOK'
      BY <1>1, <2>1, <2>2 DEF LoginOK, KeyLogin
   <2>4. CASE Create(r)
      <3>1. ~s.own /\ run'[r].own = (login.user = UserOf[r])
         <4>1. PICK done, after :
                  run' = [run EXCEPT ![r] = [s EXCEPT !.pc = IF done THEN "verify" ELSE "failed",
                                                      !.own = login.user = UserOf[r]]]
            BY <2>4 DEF Create, SetRun
         <4>2. run'[r].own = (login.user = UserOf[r])
            BY <1>0, <4>1 DEF RunRecords
         <4> QED BY <1>0, <2>4, <4>2 DEF Create, RunOK
      <3>2. CASE login.user = UserOf[r]
         BY <2>3, <3>1, <3>2 DEF NeverLockedOut
      <3>3. CASE login.user # UserOf[r]
         <4>1. /\ machine'[proven].authorized[login.user] = machine[proven].authorized[login.user]
               /\ machine[proven].sudo \subseteq machine'[proven].sudo
               /\ KeyOnly(machine'[proven]) <=> KeyOnly(machine[proven])
               /\ machine'[proven].locked = machine[proven].locked
            BY <1>0, <2>4, <3>3, CreateMachines
         <4>2. Works(proven, login) => Works(proven, login)'
            BY <2>1, <4>1, LoginWorks
         <4> QED BY <1>2, <2>3, <3>1, <4>2
      <3> QED BY <2>3, <3>2, <3>3
   <2>5. CASE ~Create(r)
      <3>1. run'[r].own = s.own
         BY <1>0, <2>5, StepFields
      <3>2. Works(proven, login) => Works(proven, login)'
         <4>1. CASE Lockdown(r)
            <5>1. KeyLogin
               BY <4>1 DEF LoginOK, Lockdown, Saved
            <5>2. /\ machine'[proven].authorized = machine[proven].authorized
                  /\ machine'[proven].sudo = machine[proven].sudo
               BY <1>0, <4>1, LockdownMachines
            <5> QED BY <2>1, <5>1, <5>2, LoginWorks
         <4>2. CASE ~Lockdown(r)
            <5>1. UNCHANGED machine
               BY <2>5, <4>2, RunFrame
            <5> QED BY <2>1, <5>1 DEF Works, CanLogin, Elevated
         <4> QED BY <4>1, <4>2
      <3> QED BY <1>2, <2>3, <3>1, <3>2
   <2> QED BY <2>4, <2>5
<1> QED BY <1>3, <1>4

-----------------------------------------------------------------------------
(* Every step keeps the invariant *)

LEMMA InitInv == Init => IInv
<1>. SUFFICES ASSUME Init PROVE IInv
   OBVIOUS
<1>1. PICK start \in Starts :
         /\ InitHostTrust(start.plan)
         /\ machine = start.machine
         /\ login = start.login
         /\ run = [r \in Runs |-> [NotStarted EXCEPT !.pc = IF r \in start.plan THEN "idle" ELSE "absent"]]
         /\ proven = at[host[Target]]
         /\ Works(proven, login)
   BY DEF Init
<1>2. /\ host \in [Servers -> Addresses] /\ at \in [Addresses -> Machines]
      /\ known \subseteq Entries /\ NoSecondKey
      /\ approved = known /\ edits = 0
   BY <1>1, TrustAssumption DEF InitHostTrust, NoSecondKey
<1>3. \A p \in Setups : /\ setup[p] \in SetupRecords /\ setup[p].pc \in {"idle", "absent"}
                        /\ SetupOK(p) /\ SetupVetted(p)
   <2>1. ASSUME NEW p \in Setups, NEW pc \in {"idle", "absent"},
                setup[p] = [NoSetup EXCEPT !.pc = pc]
         PROVE  /\ setup[p] \in SetupRecords /\ setup[p].pc \in {"idle", "absent"}
                /\ SetupOK(p) /\ SetupVetted(p)
      <3>1. setup[p] \in SetupRecords
         <4>1. NoSetup \in SetupRecords
            BY DEF NoSetup, SetupRecords, SetupPcs, Checks, Statuses
         <4> QED BY <2>1, <4>1 DEF SetupRecords, SetupPcs
      <3>2. /\ setup[p].pc = pc
            /\ setup[p].checks = [s \in Servers |-> [status |-> "unprobed", keys |-> {}]]
         BY <2>1 DEF NoSetup
      <3>3. \A s \in Servers : OnePerType(setup[p].checks[s].keys)
         BY <3>2 DEF OnePerType
      <3> QED BY <3>1, <3>2, <3>3 DEF SetupOK, SetupActive, SetupVetted
   <2> QED BY <1>1, <2>1 DEF InitHostTrust
<1>4. setup \in [Setups -> SetupRecords]
   BY <1>1, <1>3 DEF InitHostTrust
<1>5. \A r \in Runs : /\ run[r] \in RunRecords /\ run[r].pc \in {"idle", "absent"}
                      /\ AskOK(r) /\ RunOK(r) /\ ~run[r].own
   <2>1. ASSUME NEW r \in Runs, NEW pc \in {"idle", "absent"},
                run[r] = [NotStarted EXCEPT !.pc = pc]
         PROVE  /\ run[r] \in RunRecords /\ run[r].pc \in {"idle", "absent"}
                /\ AskOK(r) /\ RunOK(r) /\ ~run[r].own
      BY <2>1 DEF NotStarted, RunRecords, RunPcs, AskOK, RunOK, Created, Saved, Connecting
   <2> QED BY <1>1, <2>1
<1>6. run \in [Runs -> RunRecords]
   BY <1>1, <1>5
<1>7. TypeOK
   BY <1>1, <1>2, <1>4, <1>6, CreateUserAssumption DEF TypeOK
<1>8. KeysOK /\ AllVetted /\ LoginOK
   BY <1>2, <1>3, <1>5 DEF KeysOK, AllVetted, LoginOK, Saved
<1> QED BY <1>1, <1>2, <1>5, <1>7, <1>8 DEF IInv, NeverLockedOut

LEMMA RunInv ==
   ASSUME IInv, NEW r \in Runs, RunStep(r)
   PROVE  IInv'
<1>1. TypeOK' /\ AllVetted'
   BY RunTyped, RunVets DEF IInv, KeysOK
<1>2. KeysOK' /\ NoSecondKey' /\ known \subseteq known' /\ raced \subseteq raced'
   BY RunKeeps DEF IInv
<1>3. ASSUME NEW q \in Runs PROVE RunOK(q)'
   <2>1. CASE q = r
      BY <1>2, <2>1, OwnKeeps DEF IInv, KeysOK
   <2>2. CASE q # r
      <3>1. run'[q] = run[q]
         BY <2>2, RunFrame DEF IInv, TypeOK, SetRun
      <3> QED BY <1>2, <2>2, <3>1, RunKeepsUsers, OthersKeep DEF IInv, SameRun
   <2> QED BY <2>1, <2>2
<1>4. LoginOK' /\ NeverLockedOut'
   BY <1>1, RunKeepsLogin DEF IInv
<1> QED BY <1>1, <1>2, <1>3, <1>4 DEF IInv

(* Setup, edits and rebuilds leave the machines, the runs and the login.   *)
LEMMA OtherInv ==
   ASSUME IInv, UNCHANGED <<machine, login, run, proven>>,
          TypeOK', KeysOK', NoSecondKey', AllVetted',
          known \subseteq known', raced \subseteq raced'
   PROVE  IInv'
<1>1. ASSUME NEW r \in Runs PROVE RunOK(r)'
   <2>1. SameRun(r) /\ UserKept(r) /\ ClosedKept
      BY DEF SameRun, UserKept, ClosedKept, Closed
   <2> QED BY <2>1, OthersKeep DEF IInv
<1>2. LoginOK' /\ NeverLockedOut'
   BY DEF IInv, LoginOK, NeverLockedOut, KeyLogin, Works, CanLogin, Elevated
<1> QED BY <1>1, <1>2 DEF IInv

LEMMA NextInv == IInv /\ [Next]_vars => IInv'
<1>. SUFFICES ASSUME IInv, [Next]_vars PROVE IInv'
   OBVIOUS
<1>1. CASE \E r \in Runs : RunStep(r)
   BY <1>1, RunInv
<1>2. CASE (\E p \in Setups : SetupStep(p)) /\ UNCHANGED <<machine, login, run, proven>>
   <2>1. PICK p \in Setups : SetupStep(p)
      BY <1>2
   <2>2. UNCHANGED world
      BY <2>1 DEF SetupStep, StartSetup, Probe, Trust, Import, Append
   <2>3. TypeOK'
      BY <1>2, <2>1, <2>2, SetupTyped DEF IInv, TypeOK, KeysOK, world
   <2>4. KeysOK'
      BY <1>2, <2>1, SetupKeeps DEF IInv, KeysOK, AskOK
   <2>5. NoSecondKey' /\ known \subseteq known' /\ raced \subseteq raced'
      BY <2>1, AppendKeeps DEF IInv, KeysOK
   <2>6. AllVetted'
      BY <2>1, SetupVets DEF IInv
   <2> QED BY <1>2, <2>3, <2>4, <2>5, <2>6, OtherInv
<1>3. CASE Edit /\ UNCHANGED <<trust, setup, machine, login, run, proven>>
   <2>1. TypeOK'
      BY <1>3 DEF IInv, TypeOK, Edit, trust
   <2>2. KeysOK' /\ NoSecondKey' /\ AllVetted'
      BY <1>3 DEF IInv, KeysOK, SetupOK, AskOK, NoSecondKey, AllVetted, SetupVetted, trust
   <2> QED BY <1>3, <2>1, <2>2, OtherInv DEF trust
<1>4. CASE Rebuild /\ UNCHANGED <<trust, setup, machine, login, run, proven>>
   <2>1. TypeOK'
      BY <1>4 DEF IInv, TypeOK, Rebuild, trust
   <2>2. KeysOK' /\ NoSecondKey' /\ AllVetted'
      BY <1>4 DEF IInv, KeysOK, SetupOK, AskOK, NoSecondKey, AllVetted, SetupVetted, trust
   <2> QED BY <1>4, <2>1, <2>2, OtherInv DEF trust
<1>5. ASSUME NEW m \in Machines, Reload(m) PROVE IInv'
   <2>. DEFINE h == machine[m]
   <2>0. /\ machine \in [Machines -> MachineStates] /\ h \in MachineStates
         /\ UNCHANGED <<hostTrust, world, trust, setup, login, run, proven>>
         /\ UNCHANGED <<host, at, edits, rebuilds, known, approved, raced, moved>>
         /\ machine' = [machine EXCEPT ![m] = Reloaded(h)]
      BY <1>5 DEF IInv, TypeOK, Reload, hostTrust, world, trust
   <2>1. Reloaded(h) \in MachineStates
      BY <2>0, ReloadedFields
   <2>2. TypeOK'
      BY <2>0, <2>1 DEF IInv, TypeOK
   <2>3. KeysOK' /\ NoSecondKey' /\ AllVetted' /\ LoginOK'
      BY <2>0 DEF IInv, KeysOK, SetupOK, AskOK, NoSecondKey, AllVetted, SetupVetted, LoginOK,
                  KeyLogin
   <2>4. \A n \in Machines : /\ machine'[n].authorized = machine[n].authorized
                             /\ machine'[n].sudo = machine[n].sudo
                             /\ KeyOnly(machine'[n]) <=> KeyOnly(machine[n])
                             /\ \/ machine'[n].locked = machine[n].locked
                                \/ machine'[n].locked = KeyOnly(machine[n])
                             /\ Closed(n) => Closed(n)'
      <3>1. ASSUME NEW n \in Machines, n = m
            PROVE  /\ machine'[n].authorized = h.authorized
                   /\ machine'[n].sudo = h.sudo
                   /\ KeyOnly(machine'[n]) <=> KeyOnly(h)
                   /\ machine'[n].locked = KeyOnly(h)
         BY <2>0, <3>1, ReloadedFields
      <3>2. \A n \in Machines : n # m => machine'[n] = machine[n]
         BY <2>0
      <3> QED BY <3>1, <3>2 DEF Closed
   <2>5. \A r \in Runs : RunOK(r)'
      <3>1. ASSUME NEW r \in Runs PROVE SameRun(r) /\ UserKept(r) /\ ClosedKept
         BY <2>0, <2>4 DEF SameRun, UserKept, ClosedKept
      <3> QED BY <2>0, <2>3, <3>1, OthersKeep DEF IInv
   <2>6. NeverLockedOut'
      <3>1. proven \in Machines
         BY DEF IInv, TypeOK
      <3>2. TypeOK /\ UNCHANGED <<login, proven>>
         BY <2>0 DEF IInv
      <3>3. Works(proven, login) => Works(proven, login)'
         BY <2>2, <2>4, <3>1, <3>2, LoginWorks
      <3> QED BY <2>0, <3>3 DEF IInv, NeverLockedOut
   <2> QED BY <2>2, <2>3, <2>5, <2>6 DEF IInv
<1>6. CASE UNCHANGED vars
   BY <1>6 DEF vars, hostTrust, world, trust, IInv, TypeOK, KeysOK, SetupOK, AskOK, NoSecondKey,
               AllVetted, SetupVetted, RunOK, Reachable, Prepared, Opened, Closed, LoginOK,
               KeyLogin, NeverLockedOut, Works, CanLogin, Elevated
<1> QED BY <1>1, <1>2, <1>3, <1>4, <1>5, <1>6 DEF Next, Finished

LEMMA Invariance == Spec => []IInv
<1> QED BY InitInv, NextInv, PTL DEF Spec

-----------------------------------------------------------------------------
(* Every variable keeps to its values.                                     *)
THEOREM TypeCorrect == Spec => []TypeOK
<1>1. IInv => TypeOK
   BY DEF IInv
<1> QED BY <1>1, Invariance, PTL

(* known_hosts records one key of a type for an address, unless two        *)
(* commands appended for it at a time (known_hosts.go:277-316).            *)
THEOREM OneKeyOfAType == Spec => []NoSecondKey
<1>1. IInv => NoSecondKey
   BY DEF IInv
<1> QED BY <1>1, Invariance, PTL

(* The saved login works at every step of every command, and the machines  *)
(* of a run that reports success are key-only and closed to root, with one *)
(* key of the new user alone, the selected one or one of the agent         *)
(* (server_create_user.go:139-172).                                        *)
THEOREM SafeLockdown == Spec => []LockdownSafe
<1>1. ASSUME IInv, NEW r \in Runs, run[r].pc = "success", run[r].addr \notin raced,
             NEW m \in run[r].on
      PROVE  /\ machine[m].locked /\ KeyOnly(machine[m])
             /\ machine[m].authorized[UserOf[r]] = {run[r].public}
             /\ run[r].public \in {run[r].key} \union AgentKeys
             /\ Works(m, Candidate(r))
   <2>1. TypeOK /\ RunOK(r) /\ m \in Machines
      BY <1>1 DEF IInv, TypeOK, RunRecords
   <2>2. /\ Reachable(r, m) /\ Opened(r, m)
         /\ UserOf[r] \in machine[m].sudo /\ run[r].key # NoKey
      BY <1>1, <2>1 DEF RunOK, Created, Saved
   <2>3. Prepared(r, m) /\ Closed(m)
      BY <1>1, <2>1, <2>2 DEF RunOK, Created
   <2>4. run[r].public \in {run[r].key} \union AgentKeys
      BY <2>2, <2>3 DEF Prepared, Opened
   <2>5. Works(m, Candidate(r))
      BY <2>1, <2>2, OpenedWorks
   <2> QED BY <2>3, <2>4, <2>5 DEF Prepared, Closed
<1>2. IInv => SuccessLocksDown
   BY <1>1 DEF SuccessLocksDown, IInv, RunOK, Saved
<1>3. IInv => LockdownSafe
   BY <1>2 DEF LockdownSafe, IInv
<1> QED BY <1>3, Invariance, PTL

(* A machine is changed only by way of a host key that known_hosts held    *)
(* from the start or that the operator has accepted for this very address, *)
(* but for the keys that a setup takes along to another address            *)
(* (server_setup.go:421-438, executor/auth.go:154-240).                    *)
THEOREM OnlyVettedHosts == Spec => VettedHostsOnly
<1>. DEFINE Vetted ==
        \A m \in Machines :
           machine'[m] # machine[m] =>
              \/ machine'[m] = Reloaded(machine[m])
              \/ \E r \in Runs : LET e == Entry(run[r].addr, Offered(run[r].addr)) IN
                    /\ run'[r] # run[r] /\ Answers(r) = m
                    /\ e \in approved \union moved
<1>1. ASSUME IInv, [Next]_vars PROVE Vetted
   <2>0. TypeOK /\ run \in [Runs -> RunRecords] /\ machine \in [Machines -> MachineStates]
         /\ known \subseteq Entries
      BY <1>1 DEF IInv, TypeOK
   <2>1. ASSUME NEW r \in Runs, RunStep(r), NEW m \in Machines, machine'[m] # machine[m]
         PROVE  /\ run'[r] # run[r] /\ Answers(r) = m
                /\ Entry(run[r].addr, Offered(run[r].addr)) \in approved \union moved
      <3>1. Create(r) \/ Lockdown(r)
         BY <2>1, RunFrame
      <3>2. Answers(r) = m
         BY <2>0, <2>1, <3>1, CreateMachines, LockdownMachines
      <3>3. run'[r] # run[r]
         <4>1. CASE Create(r)
            <5>1. run'[r].pc \in {"verify", "failed"} /\ run[r].pc = "create"
               BY <2>0, <4>1 DEF Create, SetRun, RunRecords
            <5> QED BY <5>1
         <4>2. CASE Lockdown(r)
            <5>1. run'[r].pc \in {"reverify", "failed"} /\ run[r].pc = "lockdown"
               BY <2>0, <4>2 DEF Lockdown, GotoRun, SetRun, RunRecords
            <5> QED BY <5>1
         <4> QED BY <3>1, <4>1, <4>2
      <3>4. Entry(run[r].addr, Offered(run[r].addr)) \in known
         BY <2>0, <3>1, RecordedEntries DEF Create, Lockdown, Connected, Accepted
      <3>5. known \subseteq approved \union moved
         BY <1>1 DEF IInv, AllVetted
      <3> QED BY <3>2, <3>3, <3>4, <3>5
   <2>2. ASSUME NEW n \in Machines, Reload(n), NEW m \in Machines, machine'[m] # machine[m]
         PROVE  machine'[m] = Reloaded(machine[m])
      BY <2>0, <2>2 DEF Reload
   <2>3. CASE UNCHANGED machine
      BY <2>3
   <2> QED BY <1>1, <2>1, <2>2, <2>3 DEF Next, Finished, vars
<1>2. Spec => [][Vetted]_vars
   BY <1>1, Invariance, PTL DEF Spec
<1> QED BY <1>2 DEF VettedHostsOnly
===============================================================================
