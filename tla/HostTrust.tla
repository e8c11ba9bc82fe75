------------------------------- MODULE HostTrust -------------------------------
(***************************************************************************)
(* The host keys that this machine trusts: known_hosts, the command        *)
(* ops server setup, which probes servers and imports their keys           *)
(* (cmd/opspulse/server_setup.go, internal/server/known_hosts.go), and the *)
(* check that every SSH connection makes (internal/executor/auth.go).      *)
(*                                                                         *)
(* Several commands may run at a time. Each reads known_hosts, decides,    *)
(* asks, and later appends, without a lock. Meanwhile servers may be       *)
(* edited in another terminal, and the machine at an address replaced. A   *)
(* command that is killed takes no further step.                           *)
(***************************************************************************)
EXTENDS Naturals

CONSTANTS Servers, Addresses,
          Machines,     \* what may answer at an address
          KeyTypes,     \* algorithms of which each machine has a host key
          Preferred,    \* the one that the client asks for first
          Setups,       \* executions of ops server setup
          Inventories,  \* addresses that the servers may have at first
          Answering,    \* machines that may answer at first
          KnownAtFirst, \* contents that known_hosts may have at first
          MaxEdits, MaxRebuilds         \* bounds

HostKeys == [type : KeyTypes, machine : Machines]
Entries == [addr : Addresses, key : HostKeys]

(* At first, known_hosts holds one key of a type for an address.           *)
ASSUME TrustAssumption ==
   /\ Preferred \in KeyTypes
   /\ Inventories \subseteq [Servers -> Addresses]
   /\ Answering \subseteq [Addresses -> Machines]
   /\ \A entries \in KnownAtFirst :
         /\ entries \subseteq Entries
         /\ \A e, f \in entries : e.addr = f.addr /\ e.key.type = f.key.type => e = f

VARIABLES host,         \* host[s]: the address of server s in servers.yaml
          at,           \* at[a]: the machine that answers at address a
          known,        \* known_hosts: addresses and host keys
          setup,        \* setup[p]: the program counter and the locals of p
          approved,     \* what the operator has accepted, at first or later
          raced,        \* addresses for which two appends have overlapped
          moved,        \* keys that a setup imports for another address than it
                        \* has shown them for: the server's was edited meanwhile
          edits, rebuilds

world == <<host, at, edits, rebuilds>>
trust == <<known, approved, raced, moved>>
hostTrust == <<world, trust, setup>>

HostKey(m, t) == [type |-> t, machine |-> m]
Advertised(m) == {HostKey(m, t) : t \in KeyTypes}
Entry(a, key) == [addr |-> a, key |-> key]
Recorded(a) == {e.key : e \in {e \in known : e.addr = a}}

NoSetup == [pc |-> "idle", all |-> FALSE, names |-> {}, todo |-> {}, address |-> <<>>,
            checks |-> [s \in Servers |-> [status |-> "unprobed", keys |-> {}]],
            pending |-> {}, seen |-> {}]

InitHostTrust(plan) ==
   /\ host \in Inventories
   /\ at \in Answering
   /\ known \in KnownAtFirst
   /\ setup = [p \in Setups |-> [NoSetup EXCEPT !.pc = IF p \in plan THEN "idle" ELSE "absent"]]
   /\ approved = known
   /\ raced = {}
   /\ moved = {}
   /\ edits = 0
   /\ rebuilds = 0

SetSetup(p, record) == setup' = [setup EXCEPT ![p] = record]
GotoSetup(p, pc) == SetSetup(p, [setup[p] EXCEPT !.pc = pc])
EndSetup(p) == SetSetup(p, [NoSetup EXCEPT !.pc = "done"])

-----------------------------------------------------------------------------
(* A key conflicts when another of its type is recorded for the address.   *)
Conflicting(keys, recorded) ==
   {k \in keys \ recorded : \E j \in recorded : j.type = k.type}

(* CheckKnownHost.                                                         *)
CheckKnownHost(a, keys) ==
   IF Conflicting(keys, Recorded(a)) # {} THEN "mismatch"
   ELSE IF keys \intersect Recorded(a) # {} THEN "present"
   ELSE "missing"

(* setupTargets: the servers that --trust names, else the whole inventory. *)
SetupTargets(names) == IF names = {} THEN Servers ELSE names

(* The inventory is read once. Either servers are named for --trust, or    *)
(* --trust-all means all missing ones; without both, nothing is imported.  *)
StartSetup(p) ==
   /\ setup[p].pc = "idle"
   /\ \E named \in SUBSET Servers :
         LET selected == SetupTargets(named)
         IN  SetSetup(p, [NoSetup EXCEPT !.pc = "probe", !.all = (named = {}), !.names = selected,
                             !.todo = selected, !.address = host])
   /\ UNCHANGED <<world, trust>>

(* ssh-keyscan of one server. It may fail, and so may the reading of       *)
(* known_hosts.                                                            *)
Probe(p) ==
   /\ setup[p].pc = "probe"
   /\ \E s \in setup[p].todo :
         LET a == setup[p].address[s]
             keys == Advertised(at[a])
             rest == setup[p].todo \ {s} IN
         \E check \in {[status |-> CheckKnownHost(a, keys), keys |-> keys],
                       [status |-> "failed", keys |-> {}]} :
            SetSetup(p, [setup[p] EXCEPT !.checks[s] = check, !.todo = rest,
                            !.pc = IF rest = {} THEN "trust" ELSE "probe"])
   /\ UNCHANGED <<world, trust>>

Missing(p) == {s \in setup[p].names : setup[p].checks[s].status = "missing"}

(* A server that was named and cannot be trusted: nothing is imported.     *)
Refused(p) == /\ ~setup[p].all
              /\ \E s \in setup[p].names :
                    setup[p].checks[s].status \in {"mismatch", "failed"}

Shown(p) == UNION {{Entry(setup[p].address[s], k) : k \in setup[p].checks[s].keys} :
                   s \in Missing(p)}

(* trustSetupHostKeys: the fingerprints are shown, and the operator, or    *)
(* --yes, accepts them.                                                    *)
Trust(p) ==
   /\ setup[p].pc = "trust"
   /\ \/ EndSetup(p) /\ UNCHANGED approved
      \/ /\ ~Refused(p) /\ Missing(p) # {}
         /\ approved' = approved \union Shown(p)
         /\ SetSetup(p, [setup[p] EXCEPT !.pc = "import", !.todo = Missing(p)])
   /\ UNCHANGED <<world, known, raced, moved>>

(* The keys of server s are about to be appended, for the address that it  *)
(* has now.                                                                *)
Adopt(p, s) ==
   LET a == host[s]
       new == {Entry(a, k) : k \in setup[p].checks[s].keys \ Recorded(a)} IN
   /\ SetSetup(p, [setup[p] EXCEPT !.pc = "append", !.todo = @ \ {s},
                                   !.seen = Recorded(a), !.pending = new])
   /\ moved' = moved \union IF a = setup[p].address[s] THEN {} ELSE new

(* Faulty: what the probe has compared is not compared again.              *)
ImportOnCheck(p) ==
   /\ setup[p].pc = "import"
   /\ \E s \in setup[p].todo : Adopt(p, s)
   /\ UNCHANGED <<world, known, approved, raced>>

(* The server is read again, and AppendKnownHosts compares the keys of the *)
(* probe with known_hosts as it is now, at the address that it has now.    *)
Import(p) ==
   /\ setup[p].pc = "import"
   /\ \E s \in setup[p].todo :
         \/ EndSetup(p) /\ UNCHANGED moved
         \/ /\ Conflicting(setup[p].checks[s].keys, Recorded(host[s])) = {}
            /\ Adopt(p, s)
   /\ UNCHANGED <<world, known, approved, raced>>

(* The lines are appended one by one; an error ends the command.           *)
Append(p) ==
   /\ setup[p].pc = "append"
   /\ \E written \in SUBSET setup[p].pending :
         /\ known' = known \union written
         /\ raced' = raced \union {e.addr : e \in {e \in written : Recorded(e.addr) # setup[p].seen}}
         /\ IF written # setup[p].pending \/ setup[p].todo = {}
            THEN EndSetup(p)
            ELSE SetSetup(p, [setup[p] EXCEPT !.pc = "import", !.pending = {}, !.seen = {}])
   /\ UNCHANGED <<world, approved, moved>>

SetupStep(p) == \/ StartSetup(p) \/ Probe(p) \/ Trust(p) \/ Import(p) \/ Append(p)

-----------------------------------------------------------------------------
(* The client's HostKeyAlgorithms are a fixed list: of the keys that a     *)
(* machine has, it sees the one that comes first there.                    *)
Offered(a) == HostKey(at[a], Preferred)

(* Faulty: a recorded host is accepted.                                    *)
AcceptedByHost(a) == Recorded(a) # {}

(* tofuHostKeyCallback: a recorded key is accepted; another key of a       *)
(* recorded host is refused; an unknown host is asked about.               *)
Accepted(a) == Offered(a) \in Recorded(a)
Unknown(a) == Recorded(a) = {}

(* The operator's yes, given while the connection waits.                   *)
Record(a, key, seen) ==
   /\ known' = known \union {Entry(a, key)}
   /\ approved' = approved \union {Entry(a, key)}
   /\ raced' = raced \union IF Recorded(a) # seen THEN {a} ELSE {}
   /\ UNCHANGED moved

-----------------------------------------------------------------------------
(* ops server edit of an address, in another terminal.                     *)
Edit == /\ edits < MaxEdits
        /\ \E s \in Servers, a \in Addresses : /\ host[s] # a
                                               /\ host' = [host EXCEPT ![s] = a]
        /\ edits' = edits + 1
        /\ UNCHANGED <<at, rebuilds>>

(* Another machine, or a reinstalled one, takes over an address.           *)
Rebuild == /\ rebuilds < MaxRebuilds
           /\ \E a \in Addresses, m \in Machines :
                 /\ \A b \in Addresses : at[b] # m
                 /\ at' = [at EXCEPT ![a] = m]
           /\ rebuilds' = rebuilds + 1
           /\ UNCHANGED <<host, edits>>

-----------------------------------------------------------------------------
(* known_hosts records one key of a type for an address, whoever appended  *)
(* what while a command waited for its probes and its operator; only two   *)
(* appends that overlap can break it (known_hosts.go:277-316: "a           *)
(* conflicting entry aborts instead of being silently replaced").          *)
NoSecondKey ==
   \A e, f \in known :
      e.addr = f.addr /\ e.key.type = f.key.type => e = f \/ e.addr \in raced
=============================================================================
