----------------------------- MODULE ServerStore -----------------------------
(***************************************************************************)
(* server.Store (internal/server/store.go), and with it the read, cache    *)
(* and write protocol that the asset, backup and notify stores share       *)
(* (internal/yamlstore/store.go).                                          *)
(*                                                                         *)
(* A client is a goroutine that calls the store of its process. Every call *)
(* holds the mutex of the store; a write also holds the lock on            *)
(* servers.yaml.lock, which orders the processes; a read takes no file     *)
(* lock. The store keeps the last inventory it parsed, with the size and   *)
(* mtime it saw BEFORE it read the file, and trusts it while the file has  *)
(* the same stamp. A write goes to a temporary file that is renamed over   *)
(* servers.yaml. A process may crash between any two steps; its flock is   *)
(* released by the kernel, and what it left in a temporary file is never   *)
(* read.                                                                   *)
(*                                                                         *)
(* A stamp is a number that every rename raises: two files with the same   *)
(* size and mtime are outside the model (see the README).                  *)
(***************************************************************************)
EXTENDS ServerInventory, Naturals

CONSTANTS Stores,      \* the processes, each with its Store value
          Clients,     \* the goroutines
          StoreOf,     \* the process a goroutine runs in
          Requests,    \* the writes that clients may ask for
          Nothing,     \* no client, or no inventory
          MaxCrashes,  \* bound on the crashes of processes
          MaxWrites    \* bound on the renames

ASSUME StoreAssumption == /\ StoreOf \in [Clients -> Stores]
                          /\ Nothing \notin Clients
                          /\ MaxCrashes \in Nat
                          /\ MaxWrites \in Nat
                          /\ \A req \in Requests :
                                /\ req.op \in {"save", "delete", "rename", "replace"}
                                /\ req.op = "replace" => Acyclic(req.document)

Read == [op |-> "read"]

VARIABLES inventory,   \* the contents of servers.yaml
          stamp,       \* its size and mtime
          lock,        \* the client that holds the file lock
          mu,          \* mu[s]: the client that holds the mutex of store s
          cache,       \* cache[s]: the inventory store s trusts, with its stamp
          pc,          \* pc[c]: the next step of client c
          req,         \* req[c]: what client c asked for
          seen,        \* seen[c]: the stamp that client c took
          cf,          \* cf[c]: the inventory that client c works on
          current,     \* history: what the file held during c's read
          crashes

vars == <<inventory, stamp, lock, mu, cache, pc, req, seen, cf, current,
          crashes>>
shared == <<inventory, stamp>>

NoCache == [valid |-> FALSE, data |-> Empty, stamp |-> 0]

Init == /\ inventory = Empty
        /\ stamp = 0
        /\ lock = Nothing
        /\ mu = [s \in Stores |-> Nothing]
        /\ cache = [s \in Stores |-> NoCache]
        /\ pc = [c \in Clients |-> "idle"]
        /\ req = [c \in Clients |-> Read]
        /\ seen = [c \in Clients |-> 0]
        /\ cf = [c \in Clients |-> Empty]
        /\ current = [c \in Clients |-> {}]
        /\ crashes = 0

Reads(c) == req[c].op = "read"

Go(c, from, to) == /\ pc[c] = from
                   /\ pc' = [pc EXCEPT ![c] = to]

(* A command or a goroutine calls List or Get, or one of the writes.       *)
Call(c) == /\ Go(c, "idle", "mutex")
           /\ \E r \in Requests \union {Read} :
                 /\ req' = [req EXCEPT ![c] = r]
                 /\ current' = [current EXCEPT ![c] = IF r = Read THEN {inventory}
                                                     ELSE {}]
           /\ stamp < MaxWrites
           /\ UNCHANGED <<shared, lock, mu, cache, seen, cf, crashes>>

(* Replace drops the cache as soon as it has the mutex.                    *)
Mutex(c) == LET s == StoreOf[c] IN
            /\ Go(c, "mutex", IF Reads(c) THEN "stat" ELSE "lock")
            /\ mu[s] = Nothing
            /\ mu' = [mu EXCEPT ![s] = c]
            /\ cache' = IF req[c].op = "replace"
                        THEN [cache EXCEPT ![s] = NoCache] ELSE cache
            /\ UNCHANGED <<shared, lock, req, seen, cf, current, crashes>>

(* filelock.Lock waits until no other process holds the lock.              *)
(* Faulty: the processes do not wait for each other. *)
LockNotExclusive(c) ==
            /\ Go(c, "lock", IF req[c].op = "replace" THEN "write" ELSE "stat")
            /\ lock' = c
            /\ UNCHANGED <<shared, mu, cache, req, seen, cf, current, crashes>>
Lock(c) ==  /\ Go(c, "lock", IF req[c].op = "replace" THEN "write" ELSE "stat")
            /\ lock = Nothing
            /\ lock' = c
            /\ UNCHANGED <<shared, mu, cache, req, seen, cf, current, crashes>>

(* The lock file cannot be made or locked: the call fails.                 *)
LockFails(c) == /\ Go(c, "lock", "return")
                /\ UNCHANGED <<shared, lock, mu, cache, req, seen, cf, current, crashes>>

(* The cache of the store is trusted while the file has its stamp.         *)
(* Faulty: it is trusted for as long as the process lives. *)
TrustedAlways(s) == cache[s].valid
Trusted(s) == /\ cache[s].valid
              /\ cache[s].stamp = stamp

Stat(c) == LET s == StoreOf[c] IN
           /\ seen' = [seen EXCEPT ![c] = stamp]
           /\ \/ /\ Trusted(s)
                 /\ Go(c, "stat", "loaded")
                 /\ cf' = [cf EXCEPT ![c] = cache[s].data]
              \/ /\ ~ Trusted(s)
                 /\ Go(c, "stat", "read")
                 /\ UNCHANGED cf
           /\ UNCHANGED <<shared, lock, mu, cache, req, current, crashes>>

(* The file is parsed, and cached under the stamp taken before.            *)
ReadFile(c) == LET s == StoreOf[c] IN
           /\ Go(c, "read", "loaded")
           /\ cf' = [cf EXCEPT ![c] = inventory]
           /\ cache' = [cache EXCEPT ![s] = [valid |-> TRUE, data |-> inventory,
                                             stamp |-> seen[c]]]
           /\ UNCHANGED <<shared, lock, mu, req, seen, current, crashes>>

(* stat or read fails: the cache is dropped, and the call with it.         *)
ReadFails(c) == /\ pc[c] \in {"stat", "read"}
                /\ pc' = [pc EXCEPT ![c] = "return"]
                /\ cache' = [cache EXCEPT ![StoreOf[c]] = NoCache]
                /\ UNCHANGED <<shared, lock, mu, req, seen, cf, current, crashes>>

Answer(c) == /\ Reads(c)
             /\ Go(c, "loaded", "return")
             /\ UNCHANGED <<shared, lock, mu, cache, req, seen, cf, current, crashes>>

(* Save, Rename and Delete look at the inventory they have loaded.         *)
(* Faulty: Save does not validate the jump hosts. *)
ModifyUnvalidated(c) ==
   /\ ~ Reads(c)
   /\ pc[c] = "loaded"
   /\ \/ /\ req[c].op = "save" \/ Accepted(req[c], cf[c])
         /\ pc' = [pc EXCEPT ![c] = "write"]
         /\ cf' = [cf EXCEPT ![c] = Effect(req[c], cf[c])]
      \/ /\ ~ Accepted(req[c], cf[c])
         /\ pc' = [pc EXCEPT ![c] = "return"]
         /\ UNCHANGED cf
   /\ UNCHANGED <<shared, lock, mu, cache, req, seen, current, crashes>>
Modify(c) ==
   /\ ~ Reads(c)
   /\ pc[c] = "loaded"
   /\ \/ /\ Accepted(req[c], cf[c])
         /\ pc' = [pc EXCEPT ![c] = "write"]
         /\ cf' = [cf EXCEPT ![c] = Effect(req[c], cf[c])]
      \/ /\ ~ Accepted(req[c], cf[c])
         /\ pc' = [pc EXCEPT ![c] = "return"]
         /\ UNCHANGED cf
   /\ UNCHANGED <<shared, lock, mu, cache, req, seen, current, crashes>>

(* The cache is dropped first, then the temporary file is created, written *)
(* and closed; each of these may fail.                                     *)
WriteTemp(c) ==
   /\ pc[c] = "write"
   /\ \E to \in {"rename", "return"} : pc' = [pc EXCEPT ![c] = to]
   /\ cache' = [cache EXCEPT ![StoreOf[c]] = NoCache]
   /\ cf' = IF req[c].op = "replace" THEN [cf EXCEPT ![c] = req[c].document]
                                     ELSE cf
   /\ UNCHANGED <<shared, lock, mu, req, seen, current, crashes>>

RenameFile(c) ==
   /\ Go(c, "rename", "return")
   /\ inventory' = cf[c]
   /\ stamp' = stamp + 1
   /\ current' = [d \in Clients |-> IF pc[d] # "idle" /\ Reads(d)
                                    THEN current[d] \union {cf[c]} ELSE {}]
   /\ UNCHANGED <<lock, mu, cache, req, seen, cf, crashes>>

(* What a call that ends or dies leaves behind in its locals.              *)
Forget(ended) ==
   /\ req' = [c \in Clients |-> IF c \in ended THEN Read ELSE req[c]]
   /\ seen' = [c \in Clients |-> IF c \in ended THEN 0 ELSE seen[c]]
   /\ cf' = [c \in Clients |-> IF c \in ended THEN Empty ELSE cf[c]]
   /\ current' = [c \in Clients |-> IF c \in ended THEN {} ELSE current[c]]

(* The deferred unlocks.                                                   *)
Return(c) ==
   /\ Go(c, "return", "idle")
   /\ mu' = [mu EXCEPT ![StoreOf[c]] = Nothing]
   /\ lock' = IF lock = c THEN Nothing ELSE lock
   /\ Forget({c})
   /\ UNCHANGED <<shared, cache, crashes>>

(* A process dies and is started again.                                    *)
Crash(s) ==
   /\ crashes < MaxCrashes
   /\ crashes' = crashes + 1
   /\ pc' = [c \in Clients |-> IF StoreOf[c] = s THEN "idle" ELSE pc[c]]
   /\ lock' = IF lock # Nothing /\ StoreOf[lock] = s THEN Nothing ELSE lock
   /\ mu' = [mu EXCEPT ![s] = Nothing]
   /\ cache' = [cache EXCEPT ![s] = NoCache]
   /\ Forget({c \in Clients : StoreOf[c] = s})
   /\ UNCHANGED shared

(* The bound on the renames is reached and every client is idle.           *)
Finished == /\ stamp >= MaxWrites
            /\ \A c \in Clients : pc[c] = "idle"
            /\ UNCHANGED vars

Step(c) == \/ Stat(c) \/ ReadFile(c) \/ ReadFails(c) \/ Answer(c)
           \/ Modify(c) \/ WriteTemp(c) \/ RenameFile(c) \/ Return(c)

Next == \/ \E c \in Clients : Call(c) \/ Mutex(c) \/ Lock(c) \/ LockFails(c) \/ Step(c)
        \/ \E s \in Stores : Crash(s)
        \/ Finished

Spec == Init /\ [][Next]_vars

-----------------------------------------------------------------------------
TypeOK == /\ stamp \in Nat
          /\ lock \in Clients \union {Nothing}
          /\ mu \in [Stores -> Clients \union {Nothing}]
          /\ DOMAIN cache = Stores
          /\ \A s \in Stores : /\ cache[s].valid \in BOOLEAN
                               /\ cache[s].stamp \in Nat
          /\ pc \in [Clients -> {"idle", "mutex", "lock", "stat", "read", "loaded",
                                 "write", "rename", "return"}]
          /\ req \in [Clients -> Requests \union {Read}]
          /\ seen \in [Clients -> Nat]
          /\ DOMAIN cf = Clients
          /\ DOMAIN current = Clients

(* The inventory never has servers whose jump hosts form a loop, whatever  *)
(* the processes write at the same time: each validates the whole of what  *)
(* it replaces, and nothing changes between its read and its rename.       *)
InventoryAcyclic == Acyclic(inventory)

(* Every write is made to the inventory as it is when the file is renamed: *)
(* no update of another process is lost, though the inventory it was made  *)
(* from was read, or taken from the cache, several steps before.           *)
Atomic == INSTANCE AtomicInventory
AtomicStore == Atomic!Spec

(* A read, which takes no file lock, never answers with an inventory that  *)
(* was replaced before the call began: neither the cache nor the file      *)
(* that another process renames between stat and read can make it stale    *)
(* (store.go:395).                                                         *)
ReadsFresh == \A c \in Clients : Reads(c) /\ pc[c] = "loaded"
                                  => cf[c] \in current[c]
=============================================================================
