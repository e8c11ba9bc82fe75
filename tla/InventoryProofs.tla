---------------------------- MODULE InventoryProofs ----------------------------
(***************************************************************************)
(* Proofs about the inventory and its backups, for every value of the      *)
(* constants. ServerStore: the store implements the atomic inventory, its  *)
(* reads are fresh and no interleaving of writes leaves a loop of jump     *)
(* hosts. Vault: no stored key is lost, what exits 0 has been done, and a  *)
(* restore writes nothing unasked.                                         *)
(***************************************************************************)
EXTENDS ServerStore, Vault, FiniteSetTheorems, SequenceTheorems, TLAPS

(***************************************************************************)
(*                              ServerStore                                *)
(***************************************************************************)

InWrite == {"stat", "read", "loaded", "write", "rename"}

(* A write between its lock and its unlock is alone.                       *)
LockOK == \A c \in Clients : pc[c] \in InWrite /\ ~ Reads(c) => lock = c

(* Only writes come to the lock, the temporary file and the rename.        *)
OnlyWrites == \A c \in Clients : pc[c] \in {"lock", "write", "rename"} => ~ Reads(c)

(* A trusted cache is the file: no stamp was ever taken after its contents.*)
CacheOK == /\ \A s \in Stores : /\ cache[s].stamp \leq stamp
                                /\ Trusted(s) => cache[s].data = inventory
           /\ \A c \in Clients : seen[c] \leq stamp

(* What a write has loaded and made of it is still what the file calls for.*)
WriteOK == \A c \in Clients : ~ Reads(c) =>
              /\ pc[c] = "loaded" => cf[c] = inventory
              /\ pc[c] = "write" => /\ Accepted(req[c], inventory)
                                    /\ req[c].op # "replace"
                                       => cf[c] = Effect(req[c], inventory)
              /\ pc[c] = "rename" => /\ Accepted(req[c], inventory)
                                     /\ cf[c] = Effect(req[c], inventory)

(* The current inventory is among those a read may answer with.            *)
ReadOK == \A c \in Clients : Reads(c) /\ pc[c] # "idle" =>
             /\ inventory \in current[c]
             /\ pc[c] = "loaded" => cf[c] \in current[c]

IInv == TypeOK /\ LockOK /\ OnlyWrites /\ CacheOK /\ WriteOK /\ ReadOK
        /\ InventoryAcyclic

-----------------------------------------------------------------------------
(* An inventory without entries has no loop.                               *)
LEMMA EmptyAcyclic == Acyclic(Empty)
  BY DEF Acyclic, Empty

(* Removing an entry makes no loop.                                        *)
LEMMA DeletedAcyclic ==
  ASSUME NEW inv, NEW name, Acyclic(inv)
  PROVE  Acyclic(Deleted(inv, name))
<1> SUFFICES ASSUME NEW S \in SUBSET DOMAIN Deleted(inv, name), S # {}
             PROVE  \E n \in S : Deleted(inv, name)[n].jump \notin S
  BY DEF Acyclic
<1>1. S \in SUBSET DOMAIN inv
  BY DEF Deleted
<1>2. PICK n \in S : inv[n].jump \notin S
  BY <1>1 DEF Acyclic
<1>3. Deleted(inv, name)[n] = inv[n]
  BY DEF Deleted
<1> QED BY <1>2, <1>3

(* An accepted request leaves an inventory without loops.                  *)
LEMMA EffectAcyclic ==
  ASSUME NEW r \in Requests, NEW inv, Acyclic(inv), Accepted(r, inv)
  PROVE  Acyclic(Effect(r, inv))
<1>1. CASE r.op = "delete"
  <2>1. Effect(r, inv) = Deleted(inv, r.name)
    BY <1>1 DEF Effect
  <2> QED BY <2>1, DeletedAcyclic
<1>2. CASE r.op # "delete"
  BY <1>2 DEF Accepted
<1> QED BY <1>1, <1>2

(* A document that was validated is accepted whatever it replaces.         *)
LEMMA ReplaceAccepted ==
  ASSUME NEW r \in Requests, r.op = "replace", NEW inv
  PROVE  Accepted(r, inv) /\ Effect(r, inv) = r.document
BY StoreAssumption DEF Accepted, Effect

(* The requests that write are not reads.                                  *)
LEMMA RequestsWrite == \A r \in Requests : r.op # "read"
BY StoreAssumption

-----------------------------------------------------------------------------
(* The inductive invariant holds initially: an empty file, no caches and   *)
(* no calls.                                                               *)
LEMMA InitInv == Init => IInv
<1> SUFFICES ASSUME Init PROVE IInv
  OBVIOUS
<1>1. TypeOK
  BY StoreAssumption DEF Init, TypeOK, NoCache, Read
<1>2. LockOK /\ OnlyWrites /\ WriteOK /\ ReadOK
  BY DEF Init, LockOK, OnlyWrites, WriteOK, ReadOK, InWrite, Reads, Read
<1>3. CacheOK
  BY DEF Init, CacheOK, NoCache, Trusted
<1>4. InventoryAcyclic
  BY EmptyAcyclic DEF Init, InventoryAcyclic
<1> QED BY <1>1, <1>2, <1>3, <1>4 DEF IInv

(* A call begins.                                                           *)
LEMMA CallInv == ASSUME IInv, NEW c \in Clients, Call(c) PROVE IInv'
<1> USE DEF IInv
<1>1. TypeOK'
  BY StoreAssumption DEF TypeOK, Call, Go, shared, Read
<1>2. LockOK' /\ OnlyWrites'
  BY RequestsWrite DEF TypeOK, LockOK, OnlyWrites, InWrite, Reads, Call, Go, shared, Read
<1>3. CacheOK'
  BY DEF TypeOK, CacheOK, Trusted, Call, Go, shared, Read
<1>4. WriteOK'
  BY ReplaceAccepted, RequestsWrite
     DEF TypeOK, LockOK, OnlyWrites, CacheOK, WriteOK, InWrite, Reads, Call, Go, shared,
         Read
<1>5. ReadOK'
  BY RequestsWrite DEF TypeOK, CacheOK, ReadOK, OnlyWrites, Reads, Call, Go, shared, Read
<1>6. InventoryAcyclic'
  BY DEF InventoryAcyclic, Call, Go, shared, Read
<1> QED BY <1>1, <1>2, <1>3, <1>4, <1>5, <1>6

(* A call gets the mutex of its store.                                      *)
LEMMA MutexInv == ASSUME IInv, NEW c \in Clients, Mutex(c) PROVE IInv'
<1> USE DEF IInv
<1>1. TypeOK'
  BY StoreAssumption DEF TypeOK, Mutex, Go, shared, NoCache
<1>2. LockOK' /\ OnlyWrites'
  BY RequestsWrite DEF TypeOK, LockOK, OnlyWrites, InWrite, Reads, Mutex, Go, shared
<1>3. CacheOK'
  BY DEF TypeOK, CacheOK, Trusted, Mutex, Go, shared, NoCache
<1>4. WriteOK'
  BY ReplaceAccepted, RequestsWrite
     DEF TypeOK, LockOK, OnlyWrites, CacheOK, WriteOK, InWrite, Reads, Mutex, Go, shared
<1>5. ReadOK'
  BY RequestsWrite DEF TypeOK, CacheOK, ReadOK, OnlyWrites, Reads, Mutex, Go, shared
<1>6. InventoryAcyclic'
  BY DEF InventoryAcyclic, Mutex, Go, shared
<1> QED BY <1>1, <1>2, <1>3, <1>4, <1>5, <1>6

(* A write gets the file lock.                                              *)
LEMMA LockInv == ASSUME IInv, NEW c \in Clients, Lock(c) PROVE IInv'
<1> USE DEF IInv
<1>1. TypeOK'
  BY StoreAssumption DEF TypeOK, Lock, Go, shared
<1>2. LockOK' /\ OnlyWrites'
  BY StoreAssumption DEF TypeOK, LockOK, OnlyWrites, InWrite, Reads, Lock, Go, shared
<1>3. CacheOK'
  BY DEF TypeOK, CacheOK, Trusted, Lock, Go, shared
<1>4. WriteOK'
  <2>1. ~ Reads(c) /\ req[c] \in Requests
    BY DEF TypeOK, OnlyWrites, Reads, Read, Lock, Go
  <2>2. req[c].op = "replace" => Accepted(req[c], inventory)
    BY <2>1, ReplaceAccepted
  <2> QED BY <2>1, <2>2 DEF TypeOK, WriteOK, Reads, Lock, Go, shared
<1>5. ReadOK'
  BY RequestsWrite DEF TypeOK, CacheOK, ReadOK, OnlyWrites, Reads, Lock, Go, shared
<1>6. InventoryAcyclic'
  BY DEF InventoryAcyclic, Lock, Go, shared
<1> QED BY <1>1, <1>2, <1>3, <1>4, <1>5, <1>6

(* A call looks at the stamp and at the cache.                              *)
LEMMA StatInv == ASSUME IInv, NEW c \in Clients, Stat(c) PROVE IInv'
<1> USE DEF IInv
<1>1. TypeOK'
  BY StoreAssumption DEF TypeOK, Stat, Go, shared
<1>2. LockOK' /\ OnlyWrites'
  BY RequestsWrite DEF TypeOK, LockOK, OnlyWrites, InWrite, Reads, Stat, Go, shared
<1>3. CacheOK'
  BY DEF TypeOK, CacheOK, Trusted, Stat, Go, shared
<1>4. WriteOK'
  <2>1. CASE Trusted(StoreOf[c])
    <3>1. cf' = [cf EXCEPT ![c] = inventory]
      BY <2>1, StoreAssumption DEF CacheOK, Stat
    <3> QED BY <2>1, <3>1 DEF TypeOK, WriteOK, Reads, Stat, Go, shared
  <2>2. CASE ~ Trusted(StoreOf[c])
    BY <2>2 DEF TypeOK, WriteOK, Reads, Stat, Go, shared
  <2> QED BY <2>1, <2>2
<1>5. ReadOK'
  <2>1. CASE Trusted(StoreOf[c])
    <3>1. cf' = [cf EXCEPT ![c] = inventory]
      BY <2>1, StoreAssumption DEF CacheOK, Stat
    <3> QED BY <2>1, <3>1 DEF TypeOK, ReadOK, Reads, Stat, Go, shared
  <2>2. CASE ~ Trusted(StoreOf[c])
    BY <2>2 DEF TypeOK, ReadOK, Reads, Stat, Go, shared
  <2> QED BY <2>1, <2>2
<1>6. InventoryAcyclic'
  BY DEF InventoryAcyclic, Stat, Go, shared
<1> QED BY <1>1, <1>2, <1>3, <1>4, <1>5, <1>6

(* A call reads the file.                                                   *)
LEMMA ReadFileInv == ASSUME IInv, NEW c \in Clients, ReadFile(c) PROVE IInv'
<1> USE DEF IInv
<1>1. TypeOK'
  BY StoreAssumption DEF TypeOK, ReadFile, Go, shared
<1>2. LockOK' /\ OnlyWrites'
  BY RequestsWrite DEF TypeOK, LockOK, OnlyWrites, InWrite, Reads, ReadFile, Go, shared
<1>3. CacheOK'
  BY DEF TypeOK, CacheOK, Trusted, ReadFile, Go, shared
<1>4. WriteOK'
  BY ReplaceAccepted, RequestsWrite
     DEF TypeOK, LockOK, OnlyWrites, CacheOK, WriteOK, InWrite, Reads, ReadFile, Go, shared
<1>5. ReadOK'
  BY RequestsWrite DEF TypeOK, CacheOK, ReadOK, OnlyWrites, Reads, ReadFile, Go, shared
<1>6. InventoryAcyclic'
  BY DEF InventoryAcyclic, ReadFile, Go, shared
<1> QED BY <1>1, <1>2, <1>3, <1>4, <1>5, <1>6

(* A read answers.                                                          *)
LEMMA LockFailsInv == ASSUME IInv, NEW c \in Clients, LockFails(c) PROVE IInv'
<1> USE DEF IInv
<1>1. TypeOK'
  BY StoreAssumption DEF TypeOK, LockFails, Go, shared
<1>2. LockOK' /\ OnlyWrites'
  BY RequestsWrite DEF TypeOK, LockOK, OnlyWrites, InWrite, Reads, LockFails, Go, shared
<1>3. CacheOK'
  BY DEF TypeOK, CacheOK, Trusted, LockFails, Go, shared
<1>4. WriteOK'
  BY ReplaceAccepted, RequestsWrite
     DEF TypeOK, LockOK, OnlyWrites, CacheOK, WriteOK, InWrite, Reads, LockFails, Go, shared
<1>5. ReadOK'
  BY RequestsWrite DEF TypeOK, CacheOK, ReadOK, OnlyWrites, Reads, LockFails, Go, shared
<1>6. InventoryAcyclic'
  BY DEF InventoryAcyclic, LockFails, Go, shared
<1> QED BY <1>1, <1>2, <1>3, <1>4, <1>5, <1>6

(* A call cannot read.                                                      *)
LEMMA ReadFailsInv == ASSUME IInv, NEW c \in Clients, ReadFails(c) PROVE IInv'
<1> USE DEF IInv
<1>1. TypeOK'
  BY StoreAssumption DEF TypeOK, ReadFails, shared, NoCache
<1>2. LockOK' /\ OnlyWrites'
  BY RequestsWrite DEF TypeOK, LockOK, OnlyWrites, InWrite, Reads, ReadFails, shared
<1>3. CacheOK'
  BY DEF TypeOK, CacheOK, Trusted, ReadFails, shared, NoCache
<1>4. WriteOK'
  BY ReplaceAccepted, RequestsWrite
     DEF TypeOK, LockOK, OnlyWrites, CacheOK, WriteOK, InWrite, Reads, ReadFails, shared
<1>5. ReadOK'
  BY RequestsWrite DEF TypeOK, CacheOK, ReadOK, OnlyWrites, Reads, ReadFails, shared
<1>6. InventoryAcyclic'
  BY DEF InventoryAcyclic, ReadFails, shared
<1> QED BY <1>1, <1>2, <1>3, <1>4, <1>5, <1>6

(* A read answers.                                                          *)
LEMMA AnswerInv == ASSUME IInv, NEW c \in Clients, Answer(c) PROVE IInv'
<1> USE DEF IInv
<1>1. TypeOK'
  BY StoreAssumption DEF TypeOK, Answer, Go, shared
<1>2. LockOK' /\ OnlyWrites'
  BY RequestsWrite DEF TypeOK, LockOK, OnlyWrites, InWrite, Reads, Answer, Go, shared
<1>3. CacheOK'
  BY DEF TypeOK, CacheOK, Trusted, Answer, Go, shared
<1>4. WriteOK'
  BY ReplaceAccepted, RequestsWrite
     DEF TypeOK, LockOK, OnlyWrites, CacheOK, WriteOK, InWrite, Reads, Answer, Go, shared
<1>5. ReadOK'
  BY RequestsWrite DEF TypeOK, CacheOK, ReadOK, OnlyWrites, Reads, Answer, Go, shared
<1>6. InventoryAcyclic'
  BY DEF InventoryAcyclic, Answer, Go, shared
<1> QED BY <1>1, <1>2, <1>3, <1>4, <1>5, <1>6

(* A write changes what it has loaded.                                      *)
LEMMA ModifyInv == ASSUME IInv, NEW c \in Clients, Modify(c) PROVE IInv'
<1> USE DEF IInv
<1>1. TypeOK'
  BY StoreAssumption DEF TypeOK, Modify, shared
<1>2. LockOK' /\ OnlyWrites'
  BY RequestsWrite DEF TypeOK, LockOK, OnlyWrites, InWrite, Reads, Modify, shared
<1>3. CacheOK'
  BY DEF TypeOK, CacheOK, Trusted, Modify, shared
<1>4. WriteOK'
  BY ReplaceAccepted, RequestsWrite
     DEF TypeOK, LockOK, OnlyWrites, CacheOK, WriteOK, InWrite, Reads, Modify, shared
<1>5. ReadOK'
  BY RequestsWrite DEF TypeOK, CacheOK, ReadOK, OnlyWrites, Reads, Modify, shared
<1>6. InventoryAcyclic'
  BY DEF InventoryAcyclic, Modify, shared
<1> QED BY <1>1, <1>2, <1>3, <1>4, <1>5, <1>6

(* A write fills its temporary file.                                        *)
LEMMA WriteTempInv == ASSUME IInv, NEW c \in Clients, WriteTemp(c) PROVE IInv'
<1> USE DEF IInv
<1>1. TypeOK'
  BY StoreAssumption DEF TypeOK, WriteTemp, shared, NoCache
<1>2. LockOK' /\ OnlyWrites'
  BY RequestsWrite DEF TypeOK, LockOK, OnlyWrites, InWrite, Reads, WriteTemp, shared
<1>3. CacheOK'
  BY DEF TypeOK, CacheOK, Trusted, WriteTemp, shared, NoCache
<1>4. WriteOK'
  <2>1. ~ Reads(c) /\ req[c] \in Requests
    BY DEF TypeOK, OnlyWrites, Reads, Read, WriteTemp
  <2>2. /\ Accepted(req[c], inventory)
        /\ cf'[c] = Effect(req[c], inventory)
    <3>1. CASE req[c].op = "replace"
      BY <2>1, <3>1, ReplaceAccepted DEF TypeOK, WriteTemp
    <3>2. CASE req[c].op # "replace"
      BY <2>1, <3>2 DEF WriteOK, WriteTemp
    <3> QED BY <3>1, <3>2
  <2> QED BY <2>1, <2>2 DEF TypeOK, WriteOK, Reads, WriteTemp, shared
<1>5. ReadOK'
  BY RequestsWrite DEF TypeOK, CacheOK, ReadOK, OnlyWrites, Reads, WriteTemp, shared
<1>6. InventoryAcyclic'
  BY DEF InventoryAcyclic, WriteTemp, shared
<1> QED BY <1>1, <1>2, <1>3, <1>4, <1>5, <1>6

(* A write renames its file.                                                *)
LEMMA RenameFileInv == ASSUME IInv, NEW c \in Clients, RenameFile(c) PROVE IInv'
<1> USE DEF IInv
<1>1. TypeOK'
  BY StoreAssumption DEF TypeOK, RenameFile, Go
<1>2. LockOK' /\ OnlyWrites'
  BY RequestsWrite DEF TypeOK, LockOK, OnlyWrites, InWrite, Reads, RenameFile, Go
<1>3. CacheOK'
  BY DEF TypeOK, CacheOK, Trusted, RenameFile, Go
<1>4. WriteOK'
  BY ReplaceAccepted, RequestsWrite
     DEF TypeOK, LockOK, OnlyWrites, CacheOK, WriteOK, InWrite, Reads, RenameFile, Go
<1>5. ReadOK'
  BY RequestsWrite DEF TypeOK, CacheOK, ReadOK, OnlyWrites, Reads, RenameFile, Go
<1>6. InventoryAcyclic'
  <2>1. /\ ~ Reads(c)
        /\ req[c] \in Requests
    BY DEF TypeOK, OnlyWrites, Reads, Read, RenameFile, Go
  <2>2. /\ Accepted(req[c], inventory)
        /\ cf[c] = Effect(req[c], inventory)
    BY <2>1 DEF WriteOK, RenameFile, Go
  <2> QED BY <2>1, <2>2, EffectAcyclic DEF InventoryAcyclic, RenameFile
<1> QED BY <1>1, <1>2, <1>3, <1>4, <1>5, <1>6

(* A call returns.                                                          *)
LEMMA ReturnInv == ASSUME IInv, NEW c \in Clients, Return(c) PROVE IInv'
<1> USE DEF IInv
<1>1. TypeOK'
  BY StoreAssumption DEF TypeOK, Return, Forget, Go, shared
<1>2. LockOK' /\ OnlyWrites'
  BY RequestsWrite DEF TypeOK, LockOK, OnlyWrites, InWrite, Reads, Return, Forget, Go, shared
<1>3. CacheOK'
  BY DEF TypeOK, CacheOK, Trusted, Return, Forget, Go, shared
<1>4. WriteOK'
  BY ReplaceAccepted, RequestsWrite
     DEF TypeOK, LockOK, OnlyWrites, CacheOK, WriteOK, InWrite, Reads, Return, Forget, Go,
         shared
<1>5. ReadOK'
  BY RequestsWrite DEF TypeOK, CacheOK, ReadOK, OnlyWrites, Reads, Return, Forget, Go, shared
<1>6. InventoryAcyclic'
  BY DEF InventoryAcyclic, Return, Forget, Go, shared
<1> QED BY <1>1, <1>2, <1>3, <1>4, <1>5, <1>6

(* A process dies.                                                          *)
LEMMA CrashInv == ASSUME IInv, NEW p \in Stores, Crash(p) PROVE IInv'
<1> USE DEF IInv
<1>1. TypeOK'
  BY StoreAssumption DEF TypeOK, Crash, Forget, shared, NoCache
<1>2. LockOK' /\ OnlyWrites'
  BY StoreAssumption DEF TypeOK, LockOK, OnlyWrites, InWrite, Reads, Crash, Forget
<1>3. CacheOK'
  BY DEF TypeOK, CacheOK, Trusted, Crash, Forget, shared, NoCache
<1>4. WriteOK'
  BY DEF TypeOK, WriteOK, Reads, Crash, Forget, shared
<1>5. ReadOK'
  BY DEF TypeOK, ReadOK, Reads, Crash, Forget, shared
<1>6. InventoryAcyclic'
  BY DEF InventoryAcyclic, Crash, shared
<1> QED BY <1>1, <1>2, <1>3, <1>4, <1>5, <1>6

-----------------------------------------------------------------------------
(* The invariant holds in every state the store can reach.                 *)
THEOREM Invariant == Spec => []IInv
<1>1. IInv /\ [Next]_vars => IInv'
  <2> SUFFICES ASSUME IInv, [Next]_vars PROVE IInv'
    OBVIOUS
  <2>1. CASE \E c \in Clients : Call(c) \/ Mutex(c) \/ Lock(c) \/ LockFails(c) \/ Step(c)
    BY <2>1, CallInv, MutexInv, LockInv, LockFailsInv, StatInv, ReadFileInv, ReadFailsInv,
       AnswerInv, ModifyInv, WriteTempInv, RenameFileInv, ReturnInv DEF Step
  <2>2. CASE \E s \in Stores : Crash(s)
    BY <2>2, CrashInv
  <2>3. CASE Finished \/ UNCHANGED vars
    <3>1. UNCHANGED vars
      BY <2>3 DEF Finished
    <3>2. TypeOK' /\ LockOK' /\ OnlyWrites'
      BY <3>1 DEF vars, IInv, TypeOK, LockOK, OnlyWrites, InWrite, Reads
    <3>3. CacheOK' /\ WriteOK' /\ ReadOK' /\ InventoryAcyclic'
      BY <3>1 DEF vars, IInv, CacheOK, WriteOK, ReadOK, InventoryAcyclic, Reads,
                  Trusted
    <3> QED BY <3>2, <3>3 DEF IInv
  <2> QED BY <2>1, <2>2, <2>3 DEF Next
<1> QED BY InitInv, <1>1, PTL DEF Spec

(* No interleaving of writes by any processes leaves servers that jump to  *)
(* one another in a loop.                                                  *)
THEOREM NoLoops == Spec => []InventoryAcyclic
<1>1. IInv => InventoryAcyclic
  BY DEF IInv
<1> QED BY Invariant, <1>1, PTL

(* A read that takes no file lock answers with an inventory that was in    *)
(* the file during the call.                                               *)
THEOREM Fresh == Spec => []ReadsFresh
<1>1. IInv => ReadsFresh
  BY DEF IInv, ReadOK, ReadsFresh
<1> QED BY Invariant, <1>1, PTL

-----------------------------------------------------------------------------
(* The two modules mean the same by a request.                             *)
LEMMA SameRequests ==
  ASSUME NEW r, NEW inv
  PROVE  /\ Atomic!Accepted(r, inv) <=> Accepted(r, inv)
         /\ Atomic!Effect(r, inv) = Effect(r, inv)
<1>1. Atomic!Effect(r, inv) = Effect(r, inv)
  BY DEF Effect, Saved, Deleted, Renamed, Atomic!Effect, Atomic!Saved,
         Atomic!Deleted, Atomic!Renamed
<1> QED BY <1>1 DEF Accepted, Acyclic, Atomic!Accepted, Atomic!Acyclic

(* The rename of a temporary file is a write of the atomic inventory.      *)
LEMMA RenameIsWrite ==
  ASSUME IInv, NEW c \in Clients, RenameFile(c)
  PROVE  Atomic!Next
<1>1. /\ ~ Reads(c)
      /\ req[c] \in Requests
  BY DEF IInv, TypeOK, OnlyWrites, Reads, Read, RenameFile, Go
<1>2. /\ Accepted(req[c], inventory)
      /\ inventory' = Effect(req[c], inventory)
  BY <1>1 DEF IInv, WriteOK, RenameFile, Go
<1> QED BY <1>1, <1>2, SameRequests DEF Atomic!Next, Atomic!Write

(* Every step of the store is a write of the atomic inventory or changes   *)
(* nothing that its users can see.                                         *)
LEMMA StepRefines == IInv /\ [Next]_vars => [Atomic!Next]_inventory
<1> SUFFICES ASSUME IInv, [Next]_vars
             PROVE  [Atomic!Next]_inventory
  OBVIOUS
<1>1. CASE \E c \in Clients : RenameFile(c)
  BY <1>1, RenameIsWrite
<1>2. CASE ~ \E c \in Clients : RenameFile(c)
  BY <1>2 DEF Next, vars, Step, Call, Mutex, Lock, LockFails, Stat, ReadFile, ReadFails,
              Answer, Modify, WriteTemp, Return, Crash, Finished, shared
<1> QED BY <1>1, <1>2

(* The store implements the atomic inventory: no update of any process is  *)
(* lost, and none is made to anything but the current contents.            *)
THEOREM Refinement == Spec => AtomicStore
<1>1. Init => Atomic!Init
  BY DEF Init, Atomic!Init, Empty, Atomic!Empty
<1> QED BY <1>1, Invariant, StepRefines, PTL DEF Spec, AtomicStore, Atomic!Spec

(***************************************************************************)
(*                                  Vault                                  *)
(***************************************************************************)

(* What a backup has reported as stored is in this item. *)
Held(item) == \A n \in safe : item.state = "doc" /\ item.keys[n] # ""
(* Every server whose key counts as stored is in the list, with a key.     *)
HasKeys(list) == \A n \in safe : n \in DOMAIN list /\ list[n].path # NoPath

(* servers.yaml, the disk and the vault name servers and paths only; what  *)
(* counts as stored belongs to an entry with a key, and its key is in the  *)
(* item unless the CLI has spoilt that.                                    *)
FilesOK ==
   /\ DOMAIN servers \subseteq Servers
   /\ DOMAIN disk = Paths
   /\ Mine \in DOMAIN vault
   /\ Titles \in Seq(DOMAIN vault)
   /\ \A t \in DOMAIN vault : DOMAIN vault[t].servers \subseteq Servers
   /\ safe \subseteq Servers
   /\ HasKeys(servers)
   /\ ~mangled => Held(vault[Mine])

WritePcs == {"create", "verify", "rollback"}
BackupPcs == {"previous", "write"} \union WritePcs
ListPcs == {"confirm list", "replace"}
ReadPcs == {"blobs", "plan"} \union ListPcs
AtServer == {"key", "bind", "pass"}
ServerPcs == {"confirm", "next"} \union AtServer

(* A backup: as long as it has not verified what it wrote, neither the     *)
(* document it makes nor the one it would put back lacks a stored key.     *)
BackupOK ==
   /\ At("previous") =>
         /\ {"pc", "list"} \subseteq DOMAIN cmd
         /\ DOMAIN cmd.list \subseteq Servers
         /\ HasKeys(cmd.list)
         /\ Held(vault[Mine])
   /\ At("write") =>
         /\ {"pc", "list", "previous"} \subseteq DOMAIN cmd
         /\ DOMAIN cmd.list \subseteq Servers
         /\ DOMAIN cmd.previous.servers \subseteq Servers
         /\ HasKeys(cmd.list)
         /\ Held(cmd.previous)
   /\ cmd.pc \in WritePcs =>
         /\ {"pc", "previous", "doc"} \subseteq DOMAIN cmd
         /\ DOMAIN cmd.previous.servers \subseteq Servers
         /\ DOMAIN cmd.doc.servers \subseteq Servers
         /\ Held(cmd.previous)
         /\ cmd.doc.state = "doc"
         /\ cmd.pc # "rollback" => Held(cmd.doc)

IsSeq(s) == s \in Seq({s[i] : i \in DOMAIN s})

(* A restore up to its plan: what it has read of the named servers is      *)
(* still there unless somebody touched it, and the list it is about to     *)
(* write takes no key away and nothing unapproved in the clear.            *)
RestoreOK ==
   /\ cmd.pc \in ReadPcs =>
         /\ {"pc", "named", "force", "approved", "blobs", "seen", "touched"} \subseteq DOMAIN cmd
         /\ DOMAIN cmd.named \subseteq Servers
         /\ IsSeq(cmd.blobs)
         /\ \A i \in DOMAIN cmd.blobs : DOMAIN cmd.blobs[i].servers \subseteq Servers
         /\ \A n \in safe \intersect DOMAIN cmd.named : cmd.named[n].path # NoPath
         /\ \A n \in DOMAIN cmd.named \ cmd.touched :
               n \in DOMAIN servers /\ servers[n] = cmd.named[n]
   /\ At("blobs") => "read" \in DOMAIN cmd /\ cmd.read \in Nat
   /\ cmd.pc \in ListPcs =>
         /\ "merged" \in DOMAIN cmd
         /\ DOMAIN cmd.named = {}
         /\ DOMAIN cmd.merged \subseteq Servers
         /\ HasKeys(cmd.merged)
   /\ At("replace") /\ ~cmd.approved => PlaintextOf(cmd.seen, cmd.merged) = {}

PlanFields == {"entry", "wantKey", "key", "wantPass", "pass"}
CmdFields == {"pc", "force", "approved", "seen", "touched", "plans", "todo", "at", "failed",
              "blocked"}

PlansOK ==
   cmd.pc \in ServerPcs =>
      /\ CmdFields \subseteq DOMAIN cmd
      /\ DOMAIN cmd.plans \subseteq Servers
      /\ cmd.todo \subseteq DOMAIN cmd.plans
      /\ At("confirm") => cmd.todo = DOMAIN cmd.plans
      /\ cmd.pc \in AtServer => cmd.at \in DOMAIN cmd.plans \ cmd.todo
      /\ DOMAIN cmd.seen = DOMAIN cmd.plans
      /\ \A n \in DOMAIN cmd.plans :
            /\ DOMAIN cmd.plans[n] = PlanFields
            /\ cmd.seen[n].pw = cmd.plans[n].entry.pw
            /\ n \in safe => cmd.plans[n].entry.path # NoPath
      /\ ~At("confirm") /\ ~cmd.approved => ~PasswordsPlanned(cmd.plans)

KeyBack(n) ==
   cmd.plans[n].wantKey => disk[Managed(n)] = cmd.plans[n].key
Clean == ~cmd.failed /\ ~cmd.blocked
Waits(n) == n \in cmd.todo \/ (cmd.pc \in AtServer /\ n = cmd.at)
Settled(n) == n \notin cmd.todo /\ ~(cmd.pc \in AtServer /\ n = cmd.at)

(* A planned server that nobody else touched has the entry of its plan     *)
(* until its turn, and what was planned for it after it.                   *)
ProgressOK ==
   cmd.pc \in ServerPcs =>
      \A n \in DOMAIN cmd.plans \ cmd.touched :
         /\ n \in DOMAIN servers
         /\ Waits(n) => servers[n] = cmd.plans[n].entry
         /\ At("bind") /\ n = cmd.at => KeyBack(n)
         /\ At("pass") /\ n = cmd.at /\ Clean =>
               /\ KeyBack(n)
               /\ cmd.plans[n].wantKey => cmd.plans[n].entry.path = Managed(n)
         /\ Settled(n) /\ Clean =>
               /\ KeyBack(n)
               /\ cmd.plans[n].wantKey => servers[n].path = Managed(n)
               /\ cmd.plans[n].wantPass => servers[n].pw = cmd.plans[n].pass

CommandOK ==
   /\ cmd.pc \in {"idle"} \union BackupPcs \union ReadPcs \union ServerPcs
   /\ "pc" \in DOMAIN cmd
   /\ Running => outcome = "none"

CmdOK == CommandOK /\ BackupOK /\ RestoreOK /\ PlansOK /\ ProgressOK

VaultInv == FilesOK /\ CmdOK

(* Every set of natural numbers has a least one: what stands in for an     *)
(* induction in the proof about mergeBackupServers.                        *)
LEMMA LeastNat ==
    ASSUME NEW S \in SUBSET Nat, S # {} PROVE \E x \in S : \A y \in S : x <= y
<1> DEFINE Below == {1 .. x : x \in S}
<1>1. /\ Below # {}
      /\ Below \subseteq FiniteSubsetsOf(Nat)
  <2>1. \A x \in S : 1 .. x \in FiniteSubsetsOf(Nat)
    <3> TAKE x \in S
    <3>1. IsFiniteSet(1 .. x) BY FS_Interval
    <3>2. 1 .. x \in SUBSET Nat OBVIOUS
    <3>3. QED BY <3>1, <3>2 DEF FiniteSubsetsOf
  <2>2. QED BY <2>1
<1>2. \E m \in Below : \A b \in Below : ~ (<<b, m>> \in StrictSubsetOrdering(Nat))
  <2> HIDE DEF Below
  <2>1. QED BY <1>1, FS_StrictSubsetOrderingWellFounded, WFMin
<1>3. PICK x \in S : \A b \in Below : ~ (<<b, 1 .. x>> \in StrictSubsetOrdering(Nat))
  BY <1>2
<1>4. ASSUME NEW y \in S, y < x PROVE FALSE
  <2>1. 1 .. y \in Below OBVIOUS
  <2>2. (1 .. y) \subseteq (1 .. x) /\ (1 .. y) # (1 .. x)
    <3>1. x \in 1 .. x /\ x \notin 1 .. y BY <1>4
    <3>2. QED BY <1>4, <3>1
  <2>3. <<1 .. y, 1 .. x>> \in StrictSubsetOrdering(Nat)
    BY <2>2 DEF StrictSubsetOrdering
  <2>4. QED BY <2>1, <2>3, <1>3
<1>5. QED BY <1>4

-----------------------------------------------------------------------------
(* Operators *)

LEMMA ManagedPaths ==
    /\ \A n \in Servers : Managed(n) \in Paths /\ Managed(n) # NoPath
    /\ \A n, m : Managed(n) = Managed(m) => n = m
BY DEF Managed, Paths, NoPath

(* MergeInventories takes no key path from a server. *)
LEMMA MergeKeepsKeys ==
    ASSUME NEW mine, NEW theirs, NEW take, NEW n \in DOMAIN mine, mine[n].path # NoPath
    PROVE  /\ n \in DOMAIN MergeInventories(mine, theirs, take)
           /\ MergeInventories(mine, theirs, take)[n].path # NoPath
<1> DEFINE merged == MergeInventories(mine, theirs, take)
<1>1. n \in DOMAIN merged BY DEF MergeInventories
<1>2. CASE n \notin DOMAIN theirs BY <1>1, <1>2 DEF MergeInventories
<1>3. CASE n \in DOMAIN theirs
  <2>1. merged[n] = ResolveServer(mine[n], theirs[n], n \in take)
    BY <1>1, <1>3 DEF MergeInventories
  <2> HIDE DEF merged
  <2>2. merged[n].path = Pick(mine[n].path, theirs[n].path, NoPath)
    <3> DEFINE host == IF n \in take THEN theirs[n].host ELSE mine[n].host
               path == Pick(mine[n].path, theirs[n].path, NoPath)
               pw == Pick(mine[n].pw, theirs[n].pw, "")
    <3>1. merged[n] = [host |-> host, path |-> path, pw |-> pw]
      BY <2>1, Zenon DEF ResolveServer, Entry
    <3> HIDE DEF host, path, pw
    <3>2. merged[n].path = path BY <3>1
    <3>3. QED BY <3>2 DEF path
  <2>3. QED BY <1>1, <2>2 DEF Pick, merged
<1>4. QED BY <1>2, <1>3

LEMMA MergeNamesServers ==
    ASSUME NEW mine, NEW theirs, NEW take,
           DOMAIN mine \subseteq Servers, DOMAIN theirs \subseteq Servers
    PROVE  DOMAIN MergeInventories(mine, theirs, take) \subseteq Servers
BY DEF MergeInventories

(* mergeBackupServers, list after list: the fold exists, since the least   *)
(* number of lists that had none would be one more than one that has.      *)
Merge(mine, lists, takes, f, i) ==
    IF i = 0 THEN mine ELSE MergeInventories(f[i - 1], lists[i], takes[i])
Merges(mine, lists, takes, f, n) ==
    f = [i \in 0 .. n |-> Merge(mine, lists, takes, f, i)]

LEMMA MergeAllIsLast ==
    ASSUME NEW mine, NEW lists, NEW takes
    PROVE  MergeAll(mine, lists, takes)
              = (CHOOSE f : Merges(mine, lists, takes, f, Len(lists)))[Len(lists)]
BY DEF MergeAll, Merges, Merge

LEMMA MergesExist ==
    ASSUME NEW mine, NEW lists, NEW takes, NEW last \in Nat
    PROVE  \E f : Merges(mine, lists, takes, f, last)
<1> DEFINE Bad == {n \in Nat : ~ \E f : Merges(mine, lists, takes, f, n)}
<1>1. SUFFICES ASSUME Bad # {} PROVE FALSE OBVIOUS
<1>2. PICK n \in Bad : \A m \in Bad : n <= m
  <2>1. Bad \in SUBSET Nat OBVIOUS
  <2> HIDE DEF Bad
  <2>2. QED BY <1>1, <2>1, LeastNat
<1>3. CASE n = 0
  <2> DEFINE f == [i \in 0 .. 0 |-> mine]
  <2>1. Merges(mine, lists, takes, f, 0) BY DEF Merges, Merge
  <2>2. QED BY <1>3, <2>1
<1>4. CASE n # 0
  <2>1. n - 1 \in Nat /\ n \in Nat BY <1>4
  <2>2. PICK f : Merges(mine, lists, takes, f, n - 1)
    <3>1. n - 1 \notin Bad BY <1>2, <2>1
    <3>2. QED BY <2>1, <3>1
  <2> DEFINE g == [i \in 0 .. n |-> IF i = n THEN MergeInventories(f[n - 1], lists[n], takes[n])
                                    ELSE f[i]]
  <2>3. g = [i \in 0 .. n |-> Merge(mine, lists, takes, g, i)]
    <3>1. ASSUME NEW i \in 0 .. n PROVE g[i] = Merge(mine, lists, takes, g, i)
      <4>1. CASE i = n
        <5>1. g[n - 1] = f[n - 1] /\ g[i] = MergeInventories(f[n - 1], lists[n], takes[n])
          BY <2>1, <4>1
        <5> HIDE DEF g
        <5>2. QED BY <1>4, <4>1, <5>1 DEF Merge
      <4>2. CASE i # n
        <5>1. i \in 0 .. n - 1 BY <2>1, <4>2
        <5>2. g[i] = f[i] /\ (i # 0 => g[i - 1] = f[i - 1]) BY <2>1, <4>2
        <5>3. f[i] = Merge(mine, lists, takes, f, i)
          <6>1. f = [j \in 0 .. n - 1 |-> Merge(mine, lists, takes, f, j)]
            BY <2>2 DEF Merges
          <6>2. QED BY <5>1, <6>1
        <5> HIDE DEF g
        <5>4. QED BY <5>2, <5>3 DEF Merge
      <4>3. QED BY <4>1, <4>2
    <3>2. g = [i \in 0 .. n |-> g[i]] OBVIOUS
    <3> HIDE DEF g
    <3>3. QED BY <3>1, <3>2
  <2>4. Merges(mine, lists, takes, g, n)
    <3> HIDE DEF g
    <3>1. QED BY <2>3 DEF Merges
  <2>5. QED BY <2>4
<1>5. QED BY <1>3, <1>4

LEMMA MergeAllKeeps ==
    ASSUME NEW mine, NEW lists, NEW takes, Len(lists) \in Nat,
           DOMAIN mine \subseteq Servers,
           \A i \in 1 .. Len(lists) : DOMAIN lists[i] \subseteq Servers
    PROVE  LET merged == MergeAll(mine, lists, takes)
           IN /\ DOMAIN merged \subseteq Servers
              /\ \A n \in DOMAIN mine : mine[n].path # NoPath =>
                    n \in DOMAIN merged /\ merged[n].path # NoPath
<1> DEFINE last == Len(lists)
           f == CHOOSE h : Merges(mine, lists, takes, h, last)
           Good(list) == /\ DOMAIN list \subseteq Servers
                         /\ \A n \in DOMAIN mine : mine[n].path # NoPath =>
                               n \in DOMAIN list /\ list[n].path # NoPath
           Bad == {i \in 0 .. last : ~Good(f[i])}
<1>1. f = [i \in 0 .. last |-> Merge(mine, lists, takes, f, i)]
  <2>1. \E h : Merges(mine, lists, takes, h, last) BY MergesExist
  <2>2. Merges(mine, lists, takes, f, last) BY <2>1
  <2> HIDE DEF f
  <2>3. QED BY <2>2 DEF Merges
<1>2. MergeAll(mine, lists, takes) = f[last] BY MergeAllIsLast
<1>3. Bad = {}
  <2> SUFFICES ASSUME Bad # {} PROVE FALSE OBVIOUS
  <2>1. PICK i \in Bad : \A j \in Bad : i <= j
    <3>1. Bad \in SUBSET Nat OBVIOUS
    <3> HIDE DEF Bad
    <3>2. QED BY <3>1, LeastNat
  <2> HIDE DEF f
  <2>2. CASE i = 0
    <3>1. f[0] = mine BY <1>1 DEF Merge
    <3>2. QED BY <2>1, <2>2, <3>1
  <2>3. CASE i # 0
    <3>1. i - 1 \in 0 .. last /\ i \in 1 .. last BY <2>3
    <3>2. Good(f[i - 1]) BY <2>1, <3>1
    <3>3. f[i] = MergeInventories(f[i - 1], lists[i], takes[i]) BY <1>1, <2>3, <3>1 DEF Merge
    <3>4. Good(f[i])
      BY <3>1, <3>2, <3>3, MergeKeepsKeys, MergeNamesServers
    <3>5. QED BY <3>4
  <2>4. QED BY <2>2, <2>3
<1>4. Good(f[last]) BY <1>3
<1>5. QED BY <1>2, <1>4

(* The document that a backup makes holds what its predecessor held.       *)
LEMMA DocumentHolds ==
    ASSUME NEW list, NEW previous, safe \subseteq Servers, HasKeys(list), Held(previous)
    PROVE  Held(Document(list, previous))
<1> SUFFICES ASSUME NEW n \in safe
             PROVE  /\ Document(list, previous).state = "doc"
                    /\ Document(list, previous).keys[n] # ""
  BY DEF Held
<1>1. Document(list, previous).state = "doc" BY DEF Document, Doc
<1>2. /\ n \in Servers
      /\ Document(list, previous).keys[n] =
            IF n \in Unreadable(list) THEN previous.keys[n] ELSE LocalKey(list, n)
  BY DEF Document, Doc
<1>3. n \in DOMAIN list /\ list[n].path # NoPath BY DEF HasKeys
<1>4. CASE n \in Unreadable(list) BY <1>1, <1>2, <1>4 DEF Held
<1>5. CASE n \notin Unreadable(list) BY <1>1, <1>2, <1>3, <1>5 DEF Unreadable, LocalKey
<1>6. QED BY <1>4, <1>5

-----------------------------------------------------------------------------
(* The first state, and the steps of a backup *)

LEMMA NoCommand == ASSUME cmd' = Idle PROVE CmdOK'
<1>1. cmd'.pc = "idle" /\ DOMAIN cmd' = {"pc"} BY DEF Idle
<1>2. CommandOK' BY <1>1 DEF CommandOK, Running
<1>3. BackupOK' BY <1>1 DEF BackupOK, At, WritePcs
<1>4. RestoreOK' BY <1>1 DEF RestoreOK, At, ReadPcs, ListPcs
<1>5. PlansOK' /\ ProgressOK' BY <1>1 DEF PlansOK, ProgressOK, ServerPcs, AtServer
<1>6. QED BY <1>2, <1>3, <1>4, <1>5 DEF CmdOK

LEMMA VaultStarts == InitVault => VaultInv
<1> SUFFICES ASSUME InitVault PROVE VaultInv OBVIOUS
<1>1. PICK m \in Machines : servers = m.servers /\ disk = m.disk /\ vault = m.vault
  BY DEF InitVault
<1>2. FilesOK
  BY <1>1, VaultAssumption DEF InitVault, FilesOK, HasKeys, Held
<1>3. cmd.pc = "idle" /\ DOMAIN cmd = {"pc"} BY DEF InitVault, Idle
<1>4. CommandOK BY <1>3 DEF CommandOK, Running
<1>5. BackupOK BY <1>3 DEF BackupOK, At, WritePcs
<1>6. RestoreOK BY <1>3 DEF RestoreOK, At, ReadPcs, ListPcs
<1>7. PlansOK /\ ProgressOK BY <1>3 DEF PlansOK, ProgressOK, ServerPcs, AtServer
<1>8. QED BY <1>2, <1>4, <1>5, <1>6, <1>7 DEF VaultInv, CmdOK

LEMMA FilesFrame ==
    ASSUME FilesOK, UNCHANGED <<servers, disk, vault, safe, mangled>> PROVE FilesOK'
BY DEF FilesOK, HasKeys, Held

(* A command that is in a backup is in nothing else. *)
LEMMA InBackup ==
    ASSUME cmd'.pc \in BackupPcs, "pc" \in DOMAIN cmd', outcome' = "none", BackupOK'
    PROVE  CmdOK'
<1>1. CommandOK' BY DEF CommandOK
<1>2. RestoreOK' BY DEF RestoreOK, At, ReadPcs, ListPcs, BackupPcs, WritePcs
<1>3. PlansOK' /\ ProgressOK'
  BY DEF PlansOK, ProgressOK, ServerPcs, AtServer, BackupPcs, WritePcs
<1>4. QED BY <1>1, <1>2, <1>3 DEF CmdOK

LEMMA StartBackupStep == ASSUME VaultInv, StartBackup PROVE VaultInv'
<1>1. UNCHANGED <<servers, disk, vault, mangled>> /\ outcome' = "none"
  BY DEF StartBackup, Start
<1>2. safe' = IF mangled THEN {} ELSE safe BY DEF StartBackup
<1>3. FilesOK' /\ HasKeys(servers)' /\ Held(vault[Mine])'
  <2>1. CASE mangled BY <1>1, <1>2, <2>1 DEF VaultInv, FilesOK, HasKeys, Held
  <2>2. CASE ~mangled BY <1>1, <1>2, <2>2 DEF VaultInv, FilesOK, HasKeys, Held
  <2>3. QED BY <2>1, <2>2
<1>4. cmd' = Idle \/ cmd' = [pc |-> "previous", list |-> servers]
  BY DEF StartBackup, Start
<1>5. CASE cmd' = [pc |-> "previous", list |-> servers]
  <2>1. cmd'.pc = "previous" /\ DOMAIN cmd' = {"pc", "list"} /\ cmd'.list = servers
    BY <1>5
  <2>2. BackupOK' BY <1>1, <1>3, <2>1 DEF BackupOK, At, WritePcs, FilesOK, HasKeys, Held
  <2>3. CmdOK' BY <1>1, <2>1, <2>2, InBackup DEF BackupPcs
  <2>4. QED BY <1>3, <2>3 DEF VaultInv
<1>6. QED BY <1>3, <1>4, <1>5, NoCommand DEF VaultInv

LEMMA ReadPreviousStep == ASSUME VaultInv, ReadPrevious PROVE VaultInv'
<1>1. UNCHANGED <<servers, disk, vault, safe, mangled>> BY DEF ReadPrevious, local, ghosts
<1>2. FilesOK' BY <1>1, FilesFrame DEF VaultInv
<1>3. \/ cmd' = Idle
      \/ /\ cmd' = [pc |-> "write", list |-> cmd.list, previous |-> vault[Mine]]
         /\ outcome' = outcome
  BY DEF ReadPrevious, Finish
<1>4. CASE /\ cmd' = [pc |-> "write", list |-> cmd.list, previous |-> vault[Mine]]
           /\ outcome' = outcome
  <2>1. cmd'.pc = "write" /\ DOMAIN cmd' = {"pc", "list", "previous"}
        /\ cmd'.list = cmd.list /\ cmd'.previous = vault[Mine]
    BY <1>4
  <2>2. At("previous") BY DEF ReadPrevious
  <2>3. /\ DOMAIN cmd.list \subseteq Servers
        /\ HasKeys(cmd.list)
        /\ Held(vault[Mine])
        /\ DOMAIN vault[Mine].servers \subseteq Servers
    BY <2>2 DEF VaultInv, CmdOK, BackupOK, FilesOK
  <2>4. BackupOK' BY <1>1, <2>1, <2>3 DEF BackupOK, At, WritePcs, HasKeys, Held
  <2>5. outcome' = "none" BY <1>4, <2>2 DEF VaultInv, CmdOK, CommandOK, Running, At
  <2>6. CmdOK' BY <2>1, <2>4, <2>5, InBackup DEF BackupPcs
  <2>7. QED BY <1>2, <2>6 DEF VaultInv
<1>5. QED BY <1>2, <1>3, <1>4, NoCommand DEF VaultInv

(* Whatever becomes of the write of a document that holds the stored keys. *)
LEMMA WrittenKeeps ==
    ASSUME FilesOK, UNCHANGED <<servers, disk, safe>>,
           NEW doc, DOMAIN doc.servers \subseteq Servers, Held(doc),
           NEW acknowledged \in BOOLEAN, Written(doc, acknowledged)
    PROVE  FilesOK'
<1>1. ASSUME NEW item, vault' = [vault EXCEPT ![Mine] = item],
             DOMAIN item.servers \subseteq Servers, mangled' \/ Held(item)
      PROVE  FilesOK'
  <2>1. DOMAIN vault' = DOMAIN vault /\ vault'[Mine] = item BY <1>1 DEF FilesOK
  <2>2. ASSUME NEW t \in DOMAIN vault' PROVE DOMAIN vault'[t].servers \subseteq Servers
    BY <1>1, <2>1, <2>2 DEF FilesOK
  <2>3. ~mangled' => Held(vault[Mine])' BY <1>1, <2>1 DEF Held
  <2>4. QED BY <2>1, <2>2, <2>3 DEF FilesOK, HasKeys
<1>2. CASE vault' = [vault EXCEPT ![Mine] = doc] /\ mangled' = FALSE BY <1>1, <1>2
<1>3. ASSUME NEW other \in Mangled(doc), vault' = [vault EXCEPT ![Mine] = other],
             mangled' = TRUE
      PROVE  FilesOK'
  <2>1. DOMAIN other.servers \subseteq Servers
    <3>1. \/ other = Blank \/ other = Garbled
          \/ \E keys : other = Doc(doc.servers, keys)
      BY <1>3 DEF Mangled
    <3>2. Blank.servers = NoServers /\ Garbled.servers = NoServers
      BY DEF Blank, Garbled, Other
    <3>3. DOMAIN NoServers = {} BY DEF NoServers
    <3>4. \A keys : Doc(doc.servers, keys).servers = doc.servers BY DEF Doc
    <3>5. QED BY <3>1, <3>2, <3>3, <3>4
  <2>2. QED BY <1>1, <1>3, <2>1
<1>4. CASE UNCHANGED <<vault, mangled>> BY <1>4, FilesFrame
<1>5. QED BY <1>2, <1>3, <1>4 DEF Written

LEMMA WriteItemStep == ASSUME VaultInv, WriteItem PROVE VaultInv'
<1> DEFINE doc == Document(cmd.list, cmd.previous)
<1>1. UNCHANGED <<servers, disk, safe>> /\ At("write") BY DEF WriteItem, local
<1>2. /\ DOMAIN cmd.list \subseteq Servers
      /\ DOMAIN cmd.previous.servers \subseteq Servers
      /\ HasKeys(cmd.list)
      /\ Held(cmd.previous)
      /\ FilesOK
  BY <1>1 DEF VaultInv, CmdOK, BackupOK
<1>3. Held(doc) /\ doc.state = "doc" /\ doc.servers = cmd.list
  BY <1>2, DocumentHolds DEF FilesOK, Document, Doc
<1> HIDE DEF doc
<1>4. /\ \/ Written(doc, TRUE) \/ Written(doc, FALSE) \/ UNCHANGED <<vault, mangled>>
      /\ \/ cmd' = Idle
         \/ /\ outcome' = outcome
            /\ \/ cmd' = [pc |-> "verify", previous |-> cmd.previous, doc |-> doc]
               \/ cmd' = [pc |-> "create", previous |-> cmd.previous, doc |-> doc]
  BY DEF WriteItem, Finish, doc
<1>5. FilesOK'
  BY <1>1, <1>2, <1>3, <1>4, WrittenKeeps, FilesFrame
<1>6. CASE /\ outcome' = outcome
           /\ \/ cmd' = [pc |-> "verify", previous |-> cmd.previous, doc |-> doc]
              \/ cmd' = [pc |-> "create", previous |-> cmd.previous, doc |-> doc]
  <2>1. /\ cmd'.pc \in {"verify", "create"} /\ DOMAIN cmd' = {"pc", "previous", "doc"}
        /\ cmd'.previous = cmd.previous /\ cmd'.doc = doc
    BY <1>6
  <2>2. BackupOK' BY <1>1, <1>2, <1>3, <2>1 DEF BackupOK, At, WritePcs, Held
  <2>3. outcome' = "none" BY <1>1, <1>6 DEF VaultInv, CmdOK, CommandOK, Running, At
  <2>4. CmdOK' BY <2>1, <2>2, <2>3, InBackup DEF BackupPcs, WritePcs
  <2>5. QED BY <1>5, <2>4 DEF VaultInv
<1>7. QED BY <1>4, <1>5, <1>6, NoCommand DEF VaultInv

(* The steps after the first write: what they write holds the stored keys. *)
LEMMA AfterWrite ==
    ASSUME CmdOK, cmd.pc \in WritePcs, UNCHANGED <<safe, outcome>>,
           NEW phase \in {"verify", "rollback"}, Goto(phase),
           phase = "verify" => Held(cmd.doc)
    PROVE  CmdOK'
<1>1. {"pc", "previous", "doc"} \subseteq DOMAIN cmd BY DEF CmdOK, BackupOK
<1>2. /\ cmd'.pc = phase /\ DOMAIN cmd' = DOMAIN cmd
      /\ cmd'.previous = cmd.previous /\ cmd'.doc = cmd.doc
  BY <1>1 DEF Goto
<1>3. BackupOK' BY <1>1, <1>2 DEF CmdOK, BackupOK, At, WritePcs, Held
<1>4. outcome' = "none" BY DEF CmdOK, CommandOK, Running, WritePcs
<1>5. QED BY <1>1, <1>2, <1>3, <1>4, InBackup DEF BackupPcs, WritePcs

LEMMA CreateItemStep == ASSUME VaultInv, CreateItem PROVE VaultInv'
<1>1. /\ UNCHANGED <<servers, disk, safe>> /\ At("create")
      /\ Written(cmd.doc, TRUE) \/ Written(cmd.doc, FALSE)
      /\ cmd' = Idle \/ (Goto("verify") /\ UNCHANGED outcome)
  BY DEF CreateItem, local, Finish
<1>2. Held(cmd.doc) /\ DOMAIN cmd.doc.servers \subseteq Servers /\ cmd.pc \in WritePcs
  BY <1>1 DEF VaultInv, CmdOK, BackupOK, WritePcs, At
<1>3. FilesOK' BY <1>1, <1>2, WrittenKeeps DEF VaultInv
<1>4. CmdOK' BY <1>1, <1>2, NoCommand, AfterWrite DEF VaultInv
<1>5. QED BY <1>3, <1>4 DEF VaultInv

LEMMA VerifyStep == ASSUME VaultInv, Verify PROVE VaultInv'
<1>1. UNCHANGED <<servers, disk, vault, mangled>> /\ At("verify") BY DEF Verify, local
<1>2. cmd.pc \in WritePcs /\ cmd.doc.state = "doc"
  BY <1>1 DEF VaultInv, CmdOK, BackupOK, WritePcs, At
<1>3. CASE /\ vault[Mine] = cmd.doc
           /\ Finish("verified")
           /\ safe' = {n \in Servers : /\ n \in DOMAIN servers
                                       /\ servers[n].path # NoPath
                                       /\ cmd.doc.keys[n] # ""}
  <2>1. FilesOK' BY <1>1, <1>2, <1>3 DEF VaultInv, FilesOK, HasKeys, Held
  <2>2. QED BY <1>3, <2>1, NoCommand DEF VaultInv, Finish
<1>4. CASE Goto("rollback") /\ UNCHANGED <<outcome, safe>>
  <2>1. FilesOK' BY <1>1, <1>4, FilesFrame DEF VaultInv
  <2>2. CmdOK' BY <1>2, <1>4, AfterWrite DEF VaultInv
  <2>3. QED BY <2>1, <2>2 DEF VaultInv
<1>5. QED BY <1>3, <1>4 DEF Verify

LEMMA RollbackStep == ASSUME VaultInv, Rollback PROVE VaultInv'
<1>1. /\ UNCHANGED <<servers, disk, safe>> /\ At("rollback") /\ cmd' = Idle
      /\ \/ UNCHANGED <<vault, mangled>>
         \/ Written(cmd.previous, TRUE)
         \/ Written(cmd.previous, FALSE)
  BY DEF Rollback, local, Finish
<1>2. Held(cmd.previous) /\ DOMAIN cmd.previous.servers \subseteq Servers
  BY <1>1 DEF VaultInv, CmdOK, BackupOK, WritePcs, At
<1>3. FilesOK' BY <1>1, <1>2, WrittenKeeps, FilesFrame DEF VaultInv
<1>4. QED BY <1>1, <1>3, NoCommand DEF VaultInv

-----------------------------------------------------------------------------
(* The steps of a restore up to its plan *)

LEMMA InRead ==
    ASSUME cmd'.pc \in ReadPcs, "pc" \in DOMAIN cmd', outcome' = "none", RestoreOK'
    PROVE  CmdOK'
<1>1. CommandOK' BY DEF CommandOK
<1>2. BackupOK' BY DEF BackupOK, At, ReadPcs, ListPcs, WritePcs
<1>3. PlansOK' /\ ProgressOK'
  BY DEF PlansOK, ProgressOK, ServerPcs, AtServer, ReadPcs, ListPcs
<1>4. QED BY <1>1, <1>2, <1>3 DEF CmdOK

LEMMA SequencesAreSeq ==
    ASSUME NEW S, NEW s \in Seq(S) PROVE IsSeq(s)
<1> DEFINE T == {s[i] : i \in DOMAIN s}
<1>1. DOMAIN s = 1 .. Len(s) /\ Len(s) \in Nat BY LenProperties
<1>2. s = [i \in 1 .. Len(s) |-> s[i]]
  <2>1. s \in [1 .. Len(s) -> S] BY LenProperties
  <2>2. QED BY <2>1
<1>3. \A i \in 1 .. Len(s) : s[i] \in T BY <1>1
<1>4. s \in [1 .. Len(s) -> T]
  <2> HIDE DEF T
  <2>1. QED BY <1>2, <1>3
<1>5. s \in Seq(T)
  <2> HIDE DEF T
  <2>1. QED BY <1>1, <1>4, SeqDef
<1>6. QED BY <1>5 DEF IsSeq

LEMMA AppendIsSeq ==
    ASSUME NEW s, IsSeq(s), NEW e
    PROVE  /\ IsSeq(Append(s, e))
           /\ \A i \in DOMAIN Append(s, e) :
                 Append(s, e)[i] = e \/ (i \in DOMAIN s /\ Append(s, e)[i] = s[i])
<1> DEFINE S == {s[i] : i \in DOMAIN s} \union {e}
<1>1. s \in Seq(S) BY SeqMonotonic DEF IsSeq
<1>2. e \in S OBVIOUS
<1> HIDE DEF S
<1>3. Append(s, e) \in Seq(S) BY <1>1, <1>2, AppendProperties
<1>4. IsSeq(Append(s, e)) BY <1>3, SequencesAreSeq
<1>5. /\ Len(Append(s, e)) = Len(s) + 1 /\ Append(s, e)[Len(s) + 1] = e
      /\ \A i \in 1 .. Len(s) : Append(s, e)[i] = s[i]
  BY <1>1, <1>2, AppendProperties
<1>6. /\ DOMAIN s = 1 .. Len(s) /\ Len(s) \in Nat
      /\ DOMAIN Append(s, e) = 1 .. Len(Append(s, e))
  BY <1>1, <1>3, LenProperties
<1>7. QED BY <1>4, <1>5, <1>6

LEMMA StartRestoreStep == ASSUME VaultInv, StartRestore PROVE VaultInv'
<1>1. PICK names \in SUBSET DOMAIN servers, force \in BOOLEAN :
         Start([pc |-> "blobs", named |-> [n \in names |-> servers[n]],
                force |-> force, approved |-> FALSE, read |-> 0,
                blobs |-> <<>>, seen |-> [n \in names |-> servers[n]],
                touched |-> {}])
  BY DEF StartRestore
<1>2. UNCHANGED <<servers, disk, vault, safe, mangled>> /\ outcome' = "none"
  BY <1>1 DEF StartRestore, Start, ghosts
<1>3. FilesOK' BY <1>2, FilesFrame DEF VaultInv
<1> DEFINE list == [n \in names |-> servers[n]]
<1>4. /\ cmd'.pc = "blobs" /\ cmd'.named = list /\ cmd'.blobs = <<>> /\ cmd'.touched = {}
      /\ cmd'.read = 0
      /\ DOMAIN cmd' = {"pc", "named", "force", "approved", "read", "blobs", "seen", "touched"}
  BY <1>1 DEF Start
<1>5. IsSeq(<<>>) /\ DOMAIN <<>> = {}
  <2>1. <<>> \in Seq({}) /\ Len(<<>>) = 0 OBVIOUS
  <2>2. DOMAIN <<>> = 1 .. 0 BY <2>1, LenProperties
  <2>3. DOMAIN <<>> = {} BY <2>2
  <2> DEFINE none == <<>>
  <2>4. IsSeq(none)
    <3>1. none \in Seq({}) BY <2>1
    <3> HIDE DEF none
    <3>2. QED BY <3>1, SequencesAreSeq
  <2>5. QED BY <2>3, <2>4
<1>6. /\ DOMAIN list \subseteq Servers
      /\ \A n \in DOMAIN list : n \in DOMAIN servers /\ servers[n] = list[n]
      /\ \A n \in safe \intersect DOMAIN list : list[n].path # NoPath
  BY DEF VaultInv, FilesOK, HasKeys
<1> HIDE DEF list
<1>7. RestoreOK'
  BY <1>2, <1>4, <1>5, <1>6 DEF RestoreOK, At, ReadPcs, ListPcs
<1>8. QED BY <1>2, <1>3, <1>4, <1>7, InRead DEF VaultInv, ReadPcs

LEMMA ReadBlobStep == ASSUME VaultInv, ReadBlob PROVE VaultInv'
<1>1. UNCHANGED <<servers, disk, vault, safe, mangled>> /\ At("blobs")
  BY DEF ReadBlob, local, ghosts
<1>2. FilesOK' BY <1>1, FilesFrame DEF VaultInv
<1> DEFINE item == vault[Titles[cmd.read + 1]]
           blobs == IF item.state = "doc" THEN Append(cmd.blobs, item) ELSE cmd.blobs
<1>3. \/ cmd' = Idle
      \/ /\ cmd' = [cmd EXCEPT !.read = @ + 1, !.blobs = blobs]
         /\ UNCHANGED outcome
  BY DEF ReadBlob, Finish
<1>4. CASE cmd' = [cmd EXCEPT !.read = @ + 1, !.blobs = blobs] /\ UNCHANGED outcome
  <2>1. /\ RestoreOK
        /\ {"pc", "blobs", "named", "touched", "seen", "approved", "read"} \subseteq DOMAIN cmd
    BY <1>1 DEF VaultInv, CmdOK, RestoreOK, At, ReadPcs
  <2>2. IsSeq(blobs) /\ \A i \in DOMAIN blobs : DOMAIN blobs[i].servers \subseteq Servers
    <3>1. /\ IsSeq(cmd.blobs)
          /\ \A i \in DOMAIN cmd.blobs : DOMAIN cmd.blobs[i].servers \subseteq Servers
      BY <1>1, <2>1 DEF RestoreOK, At, ReadPcs
    <3>2. CASE item.state = "doc"
      <4>1. Titles[cmd.read + 1] \in DOMAIN vault
        <5>1. cmd.read \in Nat /\ cmd.read < Len(Titles)
          BY <1>1, <2>1 DEF RestoreOK, ReadBlob
        <5>2. Titles \in Seq(DOMAIN vault) BY DEF VaultInv, FilesOK
        <5>3. QED BY <5>1, <5>2
      <4>2. DOMAIN item.servers \subseteq Servers BY <4>1 DEF VaultInv, FilesOK
      <4> HIDE DEF item
      <4>3. QED BY <3>1, <3>2, <4>2, AppendIsSeq
    <3>3. CASE item.state # "doc" BY <3>1, <3>3
    <3>4. QED BY <3>2, <3>3
  <2> HIDE DEF blobs
  <2>3. /\ DOMAIN cmd' = DOMAIN cmd /\ cmd'.blobs = blobs /\ cmd'.pc = cmd.pc
        /\ cmd'.named = cmd.named /\ cmd'.touched = cmd.touched /\ cmd'.read = cmd.read + 1
    BY <1>4, <2>1
  <2>4. RestoreOK' BY <1>1, <2>1, <2>2, <2>3 DEF RestoreOK, At, ReadPcs, ListPcs
  <2>5. outcome' = "none" BY <1>1, <1>4 DEF VaultInv, CmdOK, CommandOK, Running, At
  <2>6. CmdOK' BY <1>1, <2>1, <2>3, <2>4, <2>5, InRead DEF ReadPcs, At
  <2>7. QED BY <1>2, <2>6 DEF VaultInv
<1>5. QED BY <1>2, <1>3, <1>4, NoCommand DEF VaultInv

(* The lists that mergeBackupServers folds over. *)
LEMMA RemoteLists ==
    ASSUME NEW blobs, IsSeq(blobs),
           \A i \in DOMAIN blobs : DOMAIN blobs[i].servers \subseteq Servers
    PROVE  /\ Len(Remote(blobs)) \in Nat
           /\ \A i \in 1 .. Len(Remote(blobs)) : DOMAIN Remote(blobs)[i] \subseteq Servers
<1>1. CASE blobs = <<>>
  <2>1. Remote(blobs) = <<SharedList>> BY <1>1 DEF Remote
  <2>2. Len(<<SharedList>>) = 1 /\ <<SharedList>>[1] = SharedList OBVIOUS
  <2>3. QED BY <2>1, <2>2, VaultAssumption
<1>2. CASE blobs # <<>>
  <2> DEFINE lists == [i \in DOMAIN blobs |-> blobs[i].servers]
             S == {blobs[i].servers : i \in DOMAIN blobs}
  <2>1. Remote(blobs) = lists BY <1>2 DEF Remote
  <2>2. DOMAIN blobs = 1 .. Len(blobs) /\ Len(blobs) \in Nat BY LenProperties DEF IsSeq
  <2>3. lists \in [1 .. Len(blobs) -> S] /\ DOMAIN lists = 1 .. Len(blobs) BY <2>2
  <2>4. \A i \in DOMAIN lists : DOMAIN lists[i] \subseteq Servers OBVIOUS
  <2> HIDE DEF lists, S
  <2>5. lists \in Seq(S) BY <2>2, <2>3, SeqDef
  <2>6. Len(lists) \in Nat /\ DOMAIN lists = 1 .. Len(lists) BY <2>5, LenProperties
  <2>7. QED BY <2>1, <2>4, <2>6
<1>3. QED BY <1>1, <1>2

LEMMA MergeListsStep == ASSUME VaultInv, MergeLists PROVE VaultInv'
<1>1. UNCHANGED <<servers, disk, vault, safe, mangled>> /\ At("blobs")
  BY DEF MergeLists, local, ghosts
<1>2. FilesOK' BY <1>1, FilesFrame DEF VaultInv
<1>3. /\ RestoreOK
      /\ {"pc", "blobs", "named", "touched", "seen", "approved", "force"} \subseteq DOMAIN cmd
  BY <1>1 DEF VaultInv, CmdOK, RestoreOK, At, ReadPcs
<1>4. outcome = "none" BY <1>1 DEF VaultInv, CmdOK, CommandOK, Running, At
<1>5. CASE Goto("plan") /\ UNCHANGED outcome
  <2>1. /\ DOMAIN cmd' = DOMAIN cmd /\ cmd'.blobs = cmd.blobs /\ cmd'.pc = "plan"
        /\ cmd'.named = cmd.named /\ cmd'.touched = cmd.touched
    BY <1>3, <1>5 DEF Goto
  <2>2. RestoreOK' BY <1>1, <1>3, <2>1 DEF RestoreOK, At, ReadPcs, ListPcs
  <2>3. QED BY <1>2, <1>3, <1>4, <1>5, <2>1, <2>2, InRead DEF ReadPcs, VaultInv
<1> DEFINE lists == Remote(cmd.blobs)
<1>6. ASSUME DOMAIN cmd.named = {},
             NEW takes, NEW merged, merged = MergeAll(servers, lists, takes),
             cmd' = [pc |-> IF SameInventory(merged, servers) THEN "plan"
                            ELSE IF PlaintextOf(servers, merged) = {}
                                 THEN "replace" ELSE "confirm list",
                     named |-> cmd.named, force |-> cmd.force,
                     approved |-> FALSE, blobs |-> cmd.blobs,
                     seen |-> servers, merged |-> merged,
                     touched |-> cmd.touched],
             UNCHANGED outcome
      PROVE  VaultInv'
  <2>1. Len(lists) \in Nat /\ \A i \in 1 .. Len(lists) : DOMAIN lists[i] \subseteq Servers
    BY <1>1, <1>3, RemoteLists DEF RestoreOK, At, ReadPcs
  <2>2. DOMAIN merged \subseteq Servers /\ HasKeys(merged)
    <3> HIDE DEF lists
    <3>1. QED BY <1>6, <2>1, MergeAllKeeps DEF VaultInv, FilesOK, HasKeys
  <2>3. /\ cmd'.pc = "replace" => PlaintextOf(servers, merged) = {}
        /\ cmd'.pc \in {"plan", "replace", "confirm list"}
        /\ DOMAIN cmd' = {"pc", "named", "force", "approved", "blobs", "seen", "merged", "touched"}
        /\ cmd'.named = cmd.named /\ cmd'.blobs = cmd.blobs /\ cmd'.seen = servers
        /\ cmd'.merged = merged
    BY <1>6
  <2>4. RestoreOK'
    BY <1>1, <1>3, <1>6, <2>2, <2>3 DEF RestoreOK, At, ReadPcs, ListPcs, HasKeys
  <2>5. QED BY <1>2, <1>4, <1>6, <2>3, <2>4, InRead DEF ReadPcs, ListPcs, VaultInv
<1>7. CASE cmd' = Idle BY <1>2, <1>7, NoCommand DEF VaultInv
<1>8. QED BY <1>5, <1>6, <1>7 DEF MergeLists, Finish

LEMMA ConfirmListStep == ASSUME VaultInv, ConfirmList PROVE VaultInv'
<1>1. /\ UNCHANGED <<servers, disk, vault, safe, mangled>> /\ At("confirm list")
      /\ \/ cmd' = Idle
         \/ cmd' = [cmd EXCEPT !.pc = "replace", !.approved = TRUE] /\ UNCHANGED outcome
  BY DEF ConfirmList, Confirm, local, ghosts, Finish
<1>2. FilesOK' BY <1>1, FilesFrame DEF VaultInv
<1>3. /\ RestoreOK /\ outcome = "none" /\ "merged" \in DOMAIN cmd
      /\ {"pc", "blobs", "named", "touched", "seen", "approved", "force"} \subseteq DOMAIN cmd
  BY <1>1 DEF VaultInv, CmdOK, CommandOK, Running, RestoreOK, At, ReadPcs, ListPcs
<1>4. CASE cmd' = [cmd EXCEPT !.pc = "replace", !.approved = TRUE] /\ UNCHANGED outcome
  <2>1. /\ DOMAIN cmd' = DOMAIN cmd /\ cmd'.blobs = cmd.blobs /\ cmd'.pc = "replace"
        /\ cmd'.named = cmd.named /\ cmd'.touched = cmd.touched /\ cmd'.merged = cmd.merged
        /\ cmd'.approved = TRUE
    BY <1>3, <1>4
  <2>2. RestoreOK' BY <1>1, <1>3, <2>1 DEF RestoreOK, At, ReadPcs, ListPcs, HasKeys
  <2>3. QED BY <1>2, <1>3, <1>4, <2>1, <2>2, InRead DEF ReadPcs, ListPcs, VaultInv
<1>5. QED BY <1>1, <1>2, <1>4, NoCommand DEF VaultInv

LEMMA ReplaceListStep == ASSUME VaultInv, ReplaceList PROVE VaultInv'
<1>1. UNCHANGED <<disk, vault, mangled>> /\ At("replace") BY DEF ReplaceList
<1>2. /\ RestoreOK /\ outcome = "none"
      /\ {"pc", "blobs", "named", "touched", "seen", "approved", "force"} \subseteq DOMAIN cmd
  BY <1>1 DEF VaultInv, CmdOK, CommandOK, Running, RestoreOK, At, ReadPcs, ListPcs
<1>3. DOMAIN cmd.named = {} /\ DOMAIN cmd.merged \subseteq Servers /\ HasKeys(cmd.merged)
  BY <1>1, <1>2 DEF RestoreOK, At, ListPcs
<1>4. CASE /\ servers' = cmd.merged
           /\ safe' = safe \intersect DOMAIN cmd.merged
           /\ Goto("plan")
           /\ UNCHANGED outcome
  <2>1. FilesOK' BY <1>1, <1>3, <1>4 DEF VaultInv, FilesOK, HasKeys, Held
  <2>2. /\ DOMAIN cmd' = DOMAIN cmd /\ cmd'.blobs = cmd.blobs /\ cmd'.pc = "plan"
        /\ cmd'.named = cmd.named /\ cmd'.touched = cmd.touched
    BY <1>2, <1>4 DEF Goto
  <2>3. RestoreOK' BY <1>1, <1>2, <1>3, <2>2 DEF RestoreOK, At, ReadPcs, ListPcs
  <2>4. QED BY <1>2, <1>4, <2>1, <2>2, <2>3, InRead DEF ReadPcs, VaultInv
<1>5. CASE Finish("failed") /\ UNCHANGED <<servers, safe>>
  <2>1. FilesOK' BY <1>1, <1>5, FilesFrame DEF VaultInv
  <2>2. QED BY <1>5, <2>1, NoCommand DEF Finish, VaultInv
<1>6. QED BY <1>4, <1>5 DEF ReplaceList

-----------------------------------------------------------------------------
(* The steps of a restore, server by server *)

LEMMA InPlan ==
    ASSUME cmd'.pc \in ServerPcs, "pc" \in DOMAIN cmd', outcome' = "none", PlansOK', ProgressOK'
    PROVE  CmdOK'
<1>1. CommandOK' BY DEF CommandOK
<1>2. BackupOK' BY DEF BackupOK, At, ServerPcs, AtServer, WritePcs
<1>3. RestoreOK' BY DEF RestoreOK, At, ServerPcs, AtServer, ReadPcs, ListPcs
<1>4. QED BY <1>1, <1>2, <1>3 DEF CmdOK

LEMMA PlanStep == ASSUME VaultInv, Plan PROVE VaultInv'
<1>1. UNCHANGED <<servers, disk, vault, safe, mangled>> /\ At("plan")
  BY DEF Plan, local, ghosts
<1>2. FilesOK' BY <1>1, FilesFrame DEF VaultInv
<1>3. /\ RestoreOK /\ outcome = "none"
      /\ {"pc", "blobs", "named", "touched", "seen", "approved", "force"} \subseteq DOMAIN cmd
  BY <1>1 DEF VaultInv, CmdOK, CommandOK, Running, RestoreOK, At, ReadPcs, ListPcs
<1> DEFINE targets == IF DOMAIN cmd.named # {} THEN cmd.named ELSE servers
           plans == [n \in DOMAIN targets |-> PlanRestore(cmd.blobs, n, targets[n])]
<1>4. \/ cmd' = Idle
      \/ /\ cmd' = [pc |-> IF PasswordsPlanned(plans) THEN "confirm" ELSE "next",
                    force |-> cmd.force, approved |-> FALSE,
                    seen |-> targets, touched |-> cmd.touched,
                    plans |-> plans, todo |-> DOMAIN plans, at |-> "",
                    failed |-> FALSE, blocked |-> FALSE]
         /\ UNCHANGED outcome
  BY DEF Plan, Finish
<1>5. /\ DOMAIN targets \subseteq Servers
      /\ \A n \in DOMAIN targets \ cmd.touched : n \in DOMAIN servers /\ servers[n] = targets[n]
      /\ \A n \in safe \intersect DOMAIN targets : targets[n].path # NoPath
  <2>1. CASE DOMAIN cmd.named # {} BY <1>1, <1>3, <2>1 DEF RestoreOK, At, ReadPcs
  <2>2. CASE DOMAIN cmd.named = {} BY <2>2 DEF VaultInv, FilesOK, HasKeys
  <2>3. QED BY <2>1, <2>2
<1>6. /\ DOMAIN plans = DOMAIN targets
      /\ \A n \in DOMAIN plans : DOMAIN plans[n] = PlanFields /\ plans[n].entry = targets[n]
  BY DEF PlanRestore, PlanFields
<1> HIDE DEF targets, plans
<1>7. CASE /\ cmd' = [pc |-> IF PasswordsPlanned(plans) THEN "confirm" ELSE "next",
                      force |-> cmd.force, approved |-> FALSE,
                      seen |-> targets, touched |-> cmd.touched,
                      plans |-> plans, todo |-> DOMAIN plans, at |-> "",
                      failed |-> FALSE, blocked |-> FALSE]
           /\ UNCHANGED outcome
  <2>1. /\ cmd'.pc \in {"confirm", "next"} /\ (PasswordsPlanned(plans) => cmd'.pc = "confirm")
        /\ DOMAIN cmd' = CmdFields /\ cmd'.seen = targets /\ cmd'.touched = cmd.touched
        /\ cmd'.plans = plans /\ cmd'.todo = DOMAIN plans
    BY <1>7 DEF CmdFields
  <2>2. PlansOK' BY <1>1, <1>5, <1>6, <2>1 DEF PlansOK, At, ServerPcs, AtServer
  <2>3. ProgressOK'
    BY <1>1, <1>5, <1>6, <2>1 DEF ProgressOK, At, Waits, Settled, ServerPcs, AtServer
  <2>4. QED BY <1>2, <1>3, <1>7, <2>1, <2>2, <2>3, InPlan DEF VaultInv, ServerPcs, CmdFields
<1>8. QED BY <1>2, <1>4, <1>7, NoCommand DEF VaultInv

LEMMA ConfirmPasswordsStep == ASSUME VaultInv, ConfirmPasswords PROVE VaultInv'
<1>1. /\ UNCHANGED <<servers, disk, vault, safe, mangled>> /\ At("confirm")
      /\ \/ cmd' = Idle
         \/ cmd' = [cmd EXCEPT !.pc = "next", !.approved = TRUE] /\ UNCHANGED outcome
  BY DEF ConfirmPasswords, Confirm, local, ghosts, Finish
<1>2. FilesOK' BY <1>1, FilesFrame DEF VaultInv
<1>3. PlansOK /\ ProgressOK /\ outcome = "none" /\ CmdFields \subseteq DOMAIN cmd
  BY <1>1 DEF VaultInv, CmdOK, CommandOK, Running, PlansOK, At, ServerPcs
<1>4. CASE cmd' = [cmd EXCEPT !.pc = "next", !.approved = TRUE] /\ UNCHANGED outcome
  <2>1. /\ DOMAIN cmd' = DOMAIN cmd /\ cmd'.pc = "next" /\ cmd'.approved = TRUE
        /\ cmd'.seen = cmd.seen /\ cmd'.touched = cmd.touched /\ cmd'.plans = cmd.plans
        /\ cmd'.todo = cmd.todo
    BY <1>3, <1>4 DEF CmdFields
  <2>2. PlansOK' BY <1>1, <1>3, <2>1 DEF PlansOK, At, ServerPcs, AtServer
  <2>3. cmd.todo = DOMAIN cmd.plans BY <1>1, <1>3 DEF PlansOK, At, ServerPcs
  <2>4. ProgressOK'
    BY <1>1, <1>3, <2>1, <2>3 DEF ProgressOK, At, Waits, Settled, ServerPcs, AtServer
  <2>5. QED BY <1>2, <1>3, <1>4, <2>1, <2>2, <2>4, InPlan DEF VaultInv, ServerPcs, CmdFields
<1>5. QED BY <1>1, <1>2, <1>4, NoCommand DEF VaultInv

LEMMA NextServerStep == ASSUME VaultInv, NextServer PROVE VaultInv'
<1>1. UNCHANGED <<servers, disk, vault, safe, mangled, outcome>> /\ At("next") /\ cmd.todo # {}
  BY DEF NextServer, local, ghosts
<1>2. FilesOK' BY <1>1, FilesFrame DEF VaultInv
<1>3. PlansOK /\ ProgressOK /\ outcome = "none" /\ CmdFields \subseteq DOMAIN cmd
  BY <1>1 DEF VaultInv, CmdOK, CommandOK, Running, PlansOK, At, ServerPcs
<1> DEFINE n == CHOOSE m \in cmd.todo : TRUE
<1>4. n \in cmd.todo BY <1>1
<1>5. cmd' = [cmd EXCEPT !.at = n, !.todo = @ \ {n},
                         !.pc = IF cmd.plans[n].wantKey THEN "key" ELSE "pass"]
  BY DEF NextServer
<1> HIDE DEF n
<1>6. /\ DOMAIN cmd' = DOMAIN cmd /\ cmd'.approved = cmd.approved
      /\ cmd'.pc \in {"key", "pass"} /\ (cmd'.pc = "pass" => ~cmd.plans[n].wantKey)
      /\ cmd'.seen = cmd.seen /\ cmd'.touched = cmd.touched /\ cmd'.plans = cmd.plans
      /\ cmd'.todo = cmd.todo \ {n} /\ cmd'.at = n
      /\ cmd'.failed = cmd.failed /\ cmd'.blocked = cmd.blocked
  BY <1>3, <1>5 DEF CmdFields
<1>7. PlansOK' BY <1>1, <1>3, <1>4, <1>6 DEF PlansOK, At, ServerPcs, AtServer
<1>8. ProgressOK'
  BY <1>1, <1>3, <1>4, <1>6
     DEF ProgressOK, At, Waits, Settled, Clean, KeyBack, ServerPcs, AtServer
<1>9. QED
  BY <1>1, <1>2, <1>3, <1>6, <1>7, <1>8, InPlan
    DEF VaultInv, ServerPcs, AtServer, CmdFields

LEMMA FailedStep ==
    ASSUME VaultInv, cmd.pc \in AtServer, Failed, UNCHANGED <<servers, disk, safe, outcome>>
    PROVE  CmdOK'
<1>1. /\ PlansOK /\ ProgressOK /\ outcome = "none" /\ CmdFields \subseteq DOMAIN cmd
      /\ cmd.pc \in ServerPcs
  BY DEF VaultInv, CmdOK, CommandOK, Running, PlansOK, At, ServerPcs, AtServer
<1>2. /\ DOMAIN cmd' = DOMAIN cmd /\ cmd'.approved = cmd.approved
      /\ cmd'.pc = "next" /\ cmd'.failed = TRUE
      /\ cmd'.seen = cmd.seen /\ cmd'.touched = cmd.touched /\ cmd'.plans = cmd.plans
      /\ cmd'.todo = cmd.todo /\ cmd'.at = cmd.at
  BY <1>1 DEF Failed, CmdFields
<1>3. PlansOK' BY <1>1, <1>2 DEF PlansOK, At, ServerPcs, AtServer
<1>4. ProgressOK'
  BY <1>1, <1>2 DEF ProgressOK, At, Waits, Settled, Clean, ServerPcs, AtServer
<1>5. QED BY <1>1, <1>2, <1>3, <1>4, InPlan DEF ServerPcs, CmdFields

LEMMA RestoreKeyStep == ASSUME VaultInv, RestoreKey PROVE VaultInv'
<1> DEFINE n == cmd.at
           plan == cmd.plans[n]
<1>1. UNCHANGED <<servers, vault, safe, mangled, outcome>> /\ At("key")
  BY DEF RestoreKey, ghosts
<1>2. /\ PlansOK /\ ProgressOK /\ outcome = "none" /\ CmdFields \subseteq DOMAIN cmd
      /\ cmd.pc \in AtServer /\ cmd.pc \in ServerPcs
      /\ n \in DOMAIN cmd.plans \ cmd.todo /\ n \in Servers
  BY <1>1 DEF VaultInv, CmdOK, CommandOK, Running, PlansOK, At, ServerPcs, AtServer
<1>3. FilesOK'
  <2>1. DOMAIN disk' = DOMAIN disk BY DEF RestoreKey, VaultInv, FilesOK
  <2>2. QED BY <1>1, <2>1 DEF VaultInv, FilesOK, HasKeys, Held
<1>4. CASE /\ disk' = [disk EXCEPT ![Managed(n)] = plan.key]
           /\ Goto(IF plan.entry.path = Managed(n) THEN "pass" ELSE "bind")
  <2>1. /\ DOMAIN cmd' = DOMAIN cmd /\ cmd'.approved = cmd.approved
        /\ cmd'.pc \in {"bind", "pass"} /\ (cmd'.pc = "pass" => plan.entry.path = Managed(n))
        /\ cmd'.seen = cmd.seen /\ cmd'.touched = cmd.touched /\ cmd'.plans = cmd.plans
        /\ cmd'.todo = cmd.todo /\ cmd'.at = n
        /\ cmd'.failed = cmd.failed /\ cmd'.blocked = cmd.blocked
    BY <1>2, <1>4 DEF Goto, CmdFields
  <2>2. disk'[Managed(n)] = plan.key
    BY <1>2, <1>4, ManagedPaths DEF VaultInv, FilesOK
  <2>3. ASSUME NEW m \in Servers, m # n PROVE disk'[Managed(m)] = disk[Managed(m)]
    <3>1. Managed(m) # Managed(n) /\ Managed(m) \in DOMAIN disk
      BY <2>3, ManagedPaths DEF VaultInv, FilesOK
    <3>2. QED BY <1>4, <3>1
  <2>4. PlansOK' BY <1>1, <1>2, <2>1 DEF PlansOK, At, ServerPcs, AtServer
  <2>5. ProgressOK'
    <3>1. DOMAIN cmd.plans \subseteq Servers BY <1>2 DEF PlansOK
    <3>2. QED
      BY <1>1, <1>2, <2>1, <2>2, <2>3, <3>1
         DEF ProgressOK, At, Waits, Settled, Clean, KeyBack, ServerPcs, AtServer
  <2>6. QED
    BY <1>1, <1>2, <1>3, <2>1, <2>4, <2>5, InPlan
      DEF VaultInv, ServerPcs, AtServer, CmdFields
<1>5. CASE cmd' = [cmd EXCEPT !.pc = "pass", !.blocked = TRUE] /\ UNCHANGED disk
  <2>1. /\ DOMAIN cmd' = DOMAIN cmd /\ cmd'.approved = cmd.approved
        /\ cmd'.pc = "pass" /\ cmd'.blocked = TRUE
        /\ cmd'.seen = cmd.seen /\ cmd'.touched = cmd.touched /\ cmd'.plans = cmd.plans
        /\ cmd'.todo = cmd.todo /\ cmd'.at = n
    BY <1>2, <1>5 DEF CmdFields
  <2>2. PlansOK' BY <1>1, <1>2, <2>1 DEF PlansOK, At, ServerPcs, AtServer
  <2>3. ProgressOK'
    BY <1>1, <1>2, <1>5, <2>1
       DEF ProgressOK, At, Waits, Settled, Clean, ServerPcs, AtServer
  <2>4. QED
    BY <1>1, <1>2, <1>3, <2>1, <2>2, <2>3, InPlan
      DEF VaultInv, ServerPcs, AtServer, CmdFields
<1>6. CASE Failed /\ UNCHANGED disk
  BY <1>1, <1>2, <1>3, <1>6, FailedStep DEF VaultInv
<1>7. QED BY <1>4, <1>5, <1>6 DEF RestoreKey

(* Saving an entry with a key leaves the other entries alone. *)
LEMMA SavedEntry ==
    ASSUME FilesOK, NEW n \in Servers, NEW entry, SaveEntry(n, entry),
           n \in safe => entry.path # NoPath, UNCHANGED <<disk, vault, safe, mangled>>
    PROVE  /\ FilesOK'
           /\ servers'[n] = entry
           /\ DOMAIN servers' = DOMAIN servers \union {n}
           /\ \A m \in DOMAIN servers : m # n => servers'[m] = servers[m]
<1>1. /\ servers'[n] = entry
      /\ DOMAIN servers' = DOMAIN servers \union {n}
      /\ \A m \in DOMAIN servers : m # n => servers'[m] = servers[m]
  BY DEF SaveEntry
<1>2. HasKeys(servers)' BY <1>1 DEF FilesOK, HasKeys
<1>3. QED BY <1>1, <1>2 DEF FilesOK, Held

LEMMA BindKeyStep == ASSUME VaultInv, BindKey PROVE VaultInv'
<1> DEFINE n == cmd.at
           entry == cmd.plans[n].entry
           bound == Entry(entry.host, Managed(n), entry.pw)
<1>1. UNCHANGED <<disk, vault, safe, mangled, outcome>> /\ At("bind")
  BY DEF BindKey, ghosts
<1>2. /\ PlansOK /\ ProgressOK /\ outcome = "none" /\ CmdFields \subseteq DOMAIN cmd
      /\ cmd.pc \in AtServer /\ cmd.pc \in ServerPcs
      /\ n \in DOMAIN cmd.plans \ cmd.todo /\ n \in Servers
  BY <1>1 DEF VaultInv, CmdOK, CommandOK, Running, PlansOK, At, ServerPcs, AtServer
<1>3. bound.path = Managed(n) /\ bound.path # NoPath /\ bound.pw = entry.pw
  BY <1>2, ManagedPaths DEF Entry
<1> HIDE DEF bound
<1>4. CASE SaveEntry(n, bound) /\ cmd' = [cmd EXCEPT !.pc = "pass", !.plans[n].entry = bound]
  <2>1. /\ FilesOK' /\ servers'[n] = bound /\ DOMAIN servers' = DOMAIN servers \union {n}
        /\ \A m \in DOMAIN servers : m # n => servers'[m] = servers[m]
    BY <1>1, <1>2, <1>3, <1>4, SavedEntry DEF VaultInv
  <2>2. /\ DOMAIN cmd' = DOMAIN cmd /\ cmd'.approved = cmd.approved /\ cmd'.pc = "pass"
        /\ cmd'.seen = cmd.seen /\ cmd'.touched = cmd.touched
        /\ cmd'.todo = cmd.todo /\ cmd'.at = n
        /\ cmd'.failed = cmd.failed /\ cmd'.blocked = cmd.blocked
        /\ cmd'.plans = [cmd.plans EXCEPT ![n].entry = bound]
    BY <1>2, <1>4 DEF CmdFields
  <2>3. \A m \in DOMAIN cmd.plans : DOMAIN cmd.plans[m] = PlanFields
    BY <1>2 DEF PlansOK
  <2>4. /\ DOMAIN cmd'.plans = DOMAIN cmd.plans
        /\ \A m \in DOMAIN cmd.plans : m # n => cmd'.plans[m] = cmd.plans[m]
        /\ DOMAIN cmd'.plans[n] = PlanFields
        /\ cmd'.plans[n].entry = bound
        /\ cmd'.plans[n].wantKey = cmd.plans[n].wantKey
        /\ cmd'.plans[n].key = cmd.plans[n].key
        /\ cmd'.plans[n].wantPass = cmd.plans[n].wantPass
        /\ cmd'.plans[n].pass = cmd.plans[n].pass
    BY <1>2, <2>2, <2>3 DEF PlanFields
  <2>5. PasswordsPlanned(cmd.plans)' => PasswordsPlanned(cmd.plans)
    BY <1>2, <2>4 DEF PasswordsPlanned
  <2>6. PlansOK'
    BY <1>1, <1>2, <1>3, <2>2, <2>3, <2>4, <2>5 DEF PlansOK, At, ServerPcs, AtServer
  <2>7. ProgressOK'
    BY <1>1, <1>2, <1>3, <2>1, <2>2, <2>4
       DEF ProgressOK, At, Waits, Settled, Clean, KeyBack, ServerPcs, AtServer
  <2>8. QED
    BY <1>1, <1>2, <2>1, <2>2, <2>6, <2>7, InPlan
      DEF VaultInv, ServerPcs, AtServer, CmdFields
<1>5. CASE Failed /\ UNCHANGED servers
  <2>1. FilesOK' BY <1>1, <1>5, FilesFrame DEF VaultInv
  <2>2. QED BY <1>1, <1>2, <1>5, <2>1, FailedStep DEF VaultInv
<1>6. QED BY <1>4, <1>5 DEF BindKey, bound

LEMMA RestorePasswordStep == ASSUME VaultInv, RestorePassword PROVE VaultInv'
<1> DEFINE n == cmd.at
           plan == cmd.plans[n]
           saved == Entry(plan.entry.host, plan.entry.path, plan.pass)
<1>1. UNCHANGED <<disk, vault, safe, mangled, outcome>> /\ At("pass")
  BY DEF RestorePassword, ghosts
<1>2. /\ PlansOK /\ ProgressOK /\ outcome = "none" /\ CmdFields \subseteq DOMAIN cmd
      /\ cmd.pc \in AtServer /\ cmd.pc \in ServerPcs
      /\ n \in DOMAIN cmd.plans \ cmd.todo /\ n \in Servers
      /\ n \in safe => plan.entry.path # NoPath
  BY <1>1 DEF VaultInv, CmdOK, CommandOK, Running, PlansOK, At, ServerPcs, AtServer
<1>3. saved.path = plan.entry.path /\ saved.pw = plan.pass BY DEF Entry
<1> HIDE DEF saved
<1>4. ASSUME Goto("next"), FilesOK', UNCHANGED <<disk, safe>>,
             n \in DOMAIN servers => n \in DOMAIN servers',
             servers'[n].path = servers[n].path \/ servers'[n].path = plan.entry.path,
             plan.wantPass => servers'[n].pw = plan.pass,
             \A m \in DOMAIN servers : m # n => m \in DOMAIN servers' /\ servers'[m] = servers[m]
      PROVE  VaultInv'
  <2>1. /\ DOMAIN cmd' = DOMAIN cmd /\ cmd'.approved = cmd.approved /\ cmd'.pc = "next"
        /\ cmd'.seen = cmd.seen /\ cmd'.touched = cmd.touched /\ cmd'.plans = cmd.plans
        /\ cmd'.todo = cmd.todo /\ cmd'.at = n
        /\ cmd'.failed = cmd.failed /\ cmd'.blocked = cmd.blocked
    BY <1>2, <1>4 DEF Goto, CmdFields
  <2>2. PlansOK' BY <1>1, <1>2, <2>1 DEF PlansOK, At, ServerPcs, AtServer
  <2>3. ProgressOK'
    BY <1>1, <1>2, <1>4, <2>1
       DEF ProgressOK, At, Waits, Settled, Clean, KeyBack, ServerPcs, AtServer
  <2>4. QED
    BY <1>1, <1>2, <1>4, <2>1, <2>2, <2>3, InPlan
      DEF VaultInv, ServerPcs, AtServer, CmdFields
<1>5. CASE ~plan.wantPass /\ Goto("next") /\ UNCHANGED servers
  <2>1. FilesOK' BY <1>1, <1>5, FilesFrame DEF VaultInv
  <2>2. QED BY <1>1, <1>4, <1>5, <2>1
<1>6. CASE SaveEntry(n, saved) /\ Goto("next")
  <2>1. /\ FilesOK' /\ servers'[n] = saved /\ DOMAIN servers' = DOMAIN servers \union {n}
        /\ \A m \in DOMAIN servers : m # n => servers'[m] = servers[m]
    BY <1>1, <1>2, <1>3, <1>6, SavedEntry DEF VaultInv
  <2>2. QED BY <1>1, <1>3, <1>4, <1>6, <2>1
<1>7. CASE Failed /\ UNCHANGED servers
  <2>1. FilesOK' BY <1>1, <1>7, FilesFrame DEF VaultInv
  <2>2. QED BY <1>1, <1>2, <1>7, <2>1, FailedStep DEF VaultInv
<1>8. QED BY <1>5, <1>6, <1>7 DEF RestorePassword, saved

-----------------------------------------------------------------------------
(* The end of a command, and what happens outside it *)

LEMMA EndStep == ASSUME VaultInv, Report \/ Kill PROVE VaultInv'
<1>1. UNCHANGED <<servers, disk, vault, safe, mangled>> /\ cmd' = Idle
  BY DEF Report, Kill, Finish, local, ghosts
<1>2. QED BY <1>1, FilesFrame, NoCommand DEF VaultInv

(* A restore is told of the names that somebody else has changed. *)
LEMMA TouchedNames ==
    ASSUME NEW names, Touched(names)
    PROVE  /\ DOMAIN cmd' = DOMAIN cmd
           /\ \A f \in DOMAIN cmd : f # "touched" => cmd'[f] = cmd[f]
           /\ Running /\ "touched" \in DOMAIN cmd => cmd'.touched = cmd.touched \union names
           /\ ~("touched" \in DOMAIN cmd) => cmd' = cmd
BY DEF Touched

(* What others do keeps an invariant if it adds no stored key and changes  *)
(* only what belongs to the names it touches.                              *)
LEMMA OutsideStep ==
    ASSUME VaultInv, FilesOK', UNCHANGED <<vault, outcome>>, safe' \subseteq safe,
           NEW names, Touched(names),
           \A n \in DOMAIN servers \ names : n \in DOMAIN servers' /\ servers'[n] = servers[n],
           \A n \in Servers \ names : disk'[Managed(n)] = disk[Managed(n)]
    PROVE  VaultInv'
<1>1. /\ DOMAIN cmd' = DOMAIN cmd
      /\ \A f \in DOMAIN cmd : f # "touched" => cmd'[f] = cmd[f]
      /\ Running /\ "touched" \in DOMAIN cmd => cmd'.touched = cmd.touched \union names
  BY TouchedNames
<1>2. "pc" \in DOMAIN cmd /\ cmd'.pc = cmd.pc
  BY <1>1 DEF VaultInv, CmdOK, CommandOK
<1>3. CommandOK' BY <1>1, <1>2 DEF VaultInv, CmdOK, CommandOK, Running
<1>4. BackupOK'
  <2>1. BackupOK BY DEF VaultInv, CmdOK
  <2>2. CASE At("previous") BY <1>1, <1>2, <2>1, <2>2 DEF BackupOK, At, WritePcs, HasKeys, Held
  <2>3. CASE At("write") BY <1>1, <1>2, <2>1, <2>3 DEF BackupOK, At, WritePcs, HasKeys, Held
  <2>4. CASE cmd.pc \in WritePcs
    BY <1>1, <1>2, <2>1, <2>4 DEF BackupOK, At, WritePcs, Held
  <2>5. QED BY <1>2, <2>2, <2>3, <2>4 DEF BackupOK, At, WritePcs
<1>5. RestoreOK'
  <2>1. RestoreOK BY DEF VaultInv, CmdOK
  <2>2. CASE cmd.pc \in ReadPcs
    <3>1. {"pc", "named", "force", "approved", "blobs", "seen", "touched"} \subseteq DOMAIN cmd
      BY <2>1, <2>2 DEF RestoreOK
    <3>2. Running BY <2>2 DEF Running, ReadPcs, ListPcs
    <3>3. /\ cmd'.named = cmd.named /\ cmd'.blobs = cmd.blobs /\ cmd'.seen = cmd.seen
          /\ cmd'.approved = cmd.approved /\ cmd'.touched = cmd.touched \union names
      BY <1>1, <3>1, <3>2
    <3>4. \A n \in safe' \intersect DOMAIN cmd'.named : cmd'.named[n].path # NoPath
      BY <2>1, <2>2, <3>3 DEF RestoreOK
    <3>5. \A n \in DOMAIN cmd'.named \ cmd'.touched :
             n \in DOMAIN servers' /\ servers'[n] = cmd'.named[n]
      BY <2>1, <2>2, <3>3 DEF RestoreOK
    <3>6. cmd.pc \in ListPcs =>
            /\ "merged" \in DOMAIN cmd' /\ DOMAIN cmd'.named = {}
            /\ DOMAIN cmd'.merged \subseteq Servers
            /\ HasKeys(cmd.merged)' /\ cmd'.merged = cmd.merged
      BY <1>1, <2>1, <3>3 DEF RestoreOK, HasKeys
    <3>7. At("blobs") => "read" \in DOMAIN cmd' /\ cmd'.read \in Nat
      BY <1>1, <2>1 DEF RestoreOK
    <3>8. At("replace") /\ ~cmd'.approved => PlaintextOf(cmd'.seen, cmd'.merged) = {}
      BY <2>1, <3>3, <3>6 DEF RestoreOK, At, ListPcs
    <3>9. QED
      BY <1>1, <1>2, <2>1, <2>2, <3>1, <3>3, <3>4, <3>5, <3>6, <3>7, <3>8
         DEF RestoreOK, At, HasKeys
  <2>3. CASE cmd.pc \notin ReadPcs BY <1>2, <2>3 DEF RestoreOK, At, ReadPcs, ListPcs
  <2>4. QED BY <2>2, <2>3
<1>6. PlansOK' /\ ProgressOK'
  <2>1. PlansOK /\ ProgressOK BY DEF VaultInv, CmdOK
  <2>2. CASE cmd.pc \in ServerPcs
    <3>1. CmdFields \subseteq DOMAIN cmd BY <2>1, <2>2 DEF PlansOK
    <3>2. Running BY <2>2 DEF Running, ServerPcs, AtServer
    <3>3. /\ cmd'.approved = cmd.approved /\ cmd'.seen = cmd.seen /\ cmd'.plans = cmd.plans
          /\ cmd'.todo = cmd.todo /\ cmd'.at = cmd.at
          /\ cmd'.failed = cmd.failed /\ cmd'.blocked = cmd.blocked
          /\ cmd'.touched = cmd.touched \union names
      BY <1>1, <3>1, <3>2 DEF CmdFields
    <3>4. PlansOK' BY <1>1, <1>2, <2>1, <2>2, <3>3 DEF PlansOK, At, ServerPcs, AtServer
    <3>5. DOMAIN cmd.plans \subseteq Servers BY <2>1, <2>2 DEF PlansOK
    <3>6. ProgressOK'
      BY <1>2, <2>1, <2>2, <3>3, <3>5
         DEF ProgressOK, At, Waits, Settled, Clean, KeyBack, ServerPcs, AtServer
    <3>7. QED BY <3>4, <3>6
  <2>3. CASE cmd.pc \notin ServerPcs BY <1>2, <2>3 DEF PlansOK, ProgressOK
  <2>4. QED BY <2>2, <2>3
<1>7. QED BY <1>3, <1>4, <1>5, <1>6 DEF VaultInv, CmdOK

LEMMA AddServerStep == ASSUME VaultInv, AddServer PROVE VaultInv'
<1>1. PICK n \in Servers \ DOMAIN servers, entry \in NewEntries :
         SaveEntry(n, entry) /\ Touched({n})
  BY DEF AddServer
<1>2. UNCHANGED <<disk, vault, safe, mangled, outcome>> BY DEF AddServer, Outside
<1>3. n \notin safe BY DEF VaultInv, FilesOK, HasKeys
<1>4. /\ FilesOK'
      /\ \A m \in DOMAIN servers : m # n => m \in DOMAIN servers' /\ servers'[m] = servers[m]
  BY <1>1, <1>2, <1>3, SavedEntry DEF VaultInv
<1>5. QED BY <1>1, <1>2, <1>4, OutsideStep

LEMMA RemoveServerStep == ASSUME VaultInv, RemoveServer PROVE VaultInv'
<1>1. PICK n \in DOMAIN servers :
         /\ servers' = [m \in DOMAIN servers \ {n} |-> servers[m]]
         /\ safe' = safe \ {n}
         /\ Touched({n})
  BY DEF RemoveServer
<1>2. UNCHANGED <<disk, vault, mangled, outcome>> BY DEF RemoveServer, Outside
<1>3. FilesOK' BY <1>1, <1>2 DEF VaultInv, FilesOK, HasKeys, Held
<1>4. QED BY <1>1, <1>2, <1>3, OutsideStep

LEMMA LoseKeyStep == ASSUME VaultInv, LoseKey PROVE VaultInv'
<1>1. PICK p \in Paths : /\ disk' = [disk EXCEPT ![p] = ""]
                         /\ Touched({n \in Servers : Managed(n) = p})
  BY DEF LoseKey
<1>2. UNCHANGED <<servers, vault, safe, mangled, outcome>> BY DEF LoseKey, Outside
<1>3. FilesOK' BY <1>1, <1>2 DEF VaultInv, FilesOK, HasKeys, Held
<1>4. ASSUME NEW n \in Servers, Managed(n) # p PROVE disk'[Managed(n)] = disk[Managed(n)]
  BY <1>1, <1>4, ManagedPaths DEF VaultInv, FilesOK
<1>5. QED BY <1>1, <1>2, <1>3, <1>4, OutsideStep

LEMMA OtherBackupStep == ASSUME VaultInv, OtherBackup PROVE VaultInv'
<1>1. PICK i \in DOMAIN Titles, item \in Others :
         Titles[i] # Mine /\ vault' = [vault EXCEPT ![Titles[i]] = item]
  BY DEF OtherBackup
<1>2. UNCHANGED <<servers, disk, cmd, safe, mangled, outcome>> BY DEF OtherBackup, Outside, local
<1>3. DOMAIN vault' = DOMAIN vault /\ vault'[Mine] = vault[Mine]
  BY <1>1 DEF VaultInv, FilesOK
<1>4. ASSUME NEW t \in DOMAIN vault' PROVE DOMAIN vault'[t].servers \subseteq Servers
  <2>1. vault'[t] = item \/ vault'[t] = vault[t] BY <1>1, <1>3
  <2>2. QED BY <1>3, <2>1, VaultAssumption DEF VaultInv, FilesOK
<1>5. FilesOK' BY <1>2, <1>3, <1>4 DEF VaultInv, FilesOK, HasKeys, Held
<1>6. CmdOK'
  <2>1. BackupOK' BY <1>2, <1>3 DEF VaultInv, CmdOK, BackupOK, At, HasKeys, Held
  <2>2. UNCHANGED <<CommandOK, RestoreOK, PlansOK, ProgressOK>>
    BY <1>2 DEF CommandOK, Running, RestoreOK, At, HasKeys, PlaintextOf, PlansOK, ProgressOK,
                Waits, Settled, Clean, KeyBack
  <2>3. QED BY <2>1, <2>2 DEF VaultInv, CmdOK
<1>7. QED BY <1>5, <1>6 DEF VaultInv

LEMMA VaultStutters == ASSUME VaultInv, UNCHANGED vaultVars PROVE VaultInv'
<1>1. UNCHANGED <<servers, disk, vault, cmd, outcome, safe, mangled>> BY DEF vaultVars
<1>2. FilesOK' BY <1>1, FilesFrame DEF VaultInv
<1>3. UNCHANGED <<CommandOK, BackupOK, RestoreOK, PlansOK, ProgressOK>>
  BY <1>1 DEF CommandOK, Running, BackupOK, RestoreOK, At, HasKeys, Held, PlaintextOf, PlansOK,
              ProgressOK, Waits, Settled, Clean, KeyBack
<1>4. QED BY <1>2, <1>3 DEF VaultInv, CmdOK

LEMMA VaultInvariance == VaultSpec => []VaultInv
<1>1. InitVault => VaultInv BY VaultStarts
<1>2. VaultInv /\ [NextVault]_vaultVars => VaultInv'
  <2> SUFFICES ASSUME VaultInv, [NextVault]_vaultVars PROVE VaultInv' OBVIOUS
  <2>1. CASE Backup
    BY <2>1, StartBackupStep, ReadPreviousStep, WriteItemStep, CreateItemStep, VerifyStep,
       RollbackStep DEF Backup
  <2>2. CASE Restore
    BY <2>2, StartRestoreStep, ReadBlobStep, MergeListsStep, ConfirmListStep, ReplaceListStep,
       PlanStep, ConfirmPasswordsStep, NextServerStep, RestoreKeyStep, BindKeyStep,
       RestorePasswordStep, EndStep DEF Restore
  <2>3. CASE Kill BY <2>3, EndStep
  <2>4. CASE AddServer \/ RemoveServer \/ LoseKey \/ OtherBackup
    BY <2>4, AddServerStep, RemoveServerStep, LoseKeyStep, OtherBackupStep
  <2>5. CASE Done BY <2>5, VaultStutters DEF Done
  <2>6. QED BY <2>1, <2>2, <2>3, <2>4, <2>5, VaultStutters DEF NextVault
<1>3. QED BY <1>1, <1>2, PTL DEF VaultSpec

-----------------------------------------------------------------------------
(* The theorems *)

(* inheritMissingKeys, readPreviousBackup, rollbackBackupItem: for any     *)
(* servers, machines and documents, a key that a backup has reported as    *)
(* stored stays in this machine's document while its server does.          *)
THEOREM KeysStayStored == VaultSpec => []KeysKept
<1>1. VaultInv => KeysKept BY DEF VaultInv, FilesOK, Held, KeysKept
<1>2. QED BY <1>1, VaultInvariance, PTL

(* Only a verification reports "verified", only a report "restored".       *)
LEMMA Outcomes ==
    ASSUME VaultInv, NextVault, Running
    PROVE  /\ outcome' = "verified" => Verify /\ vault[Mine] = cmd.doc /\ UNCHANGED vault
           /\ outcome' = "restored" =>
                Report /\ At("next") /\ cmd.todo = {} /\ ~cmd.failed /\ ~cmd.blocked
<1>1. outcome = "none" BY DEF VaultInv, CmdOK, CommandOK
<1>2. CASE Backup
  <2>1. CASE Verify BY <1>1, <2>1 DEF Verify, Finish, local
  <2>2. CASE StartBackup \/ ReadPrevious \/ WriteItem \/ CreateItem \/ Rollback
    <3>1. outcome' \in {"none", "failed", "rolled back", "untrusted"}
      BY <1>1, <2>2 DEF StartBackup, Start, ReadPrevious, WriteItem, CreateItem, Rollback, Finish
    <3>2. QED BY <3>1
  <2>3. QED BY <1>2, <2>1, <2>2 DEF Backup
<1>3. CASE Restore
  <2>1. CASE Report BY <1>1, <2>1 DEF Report, Finish
  <2>2. CASE ~Report
    <3>1. outcome' \in {"none", "failed", "refused"}
      BY <1>1, <1>3, <2>2
         DEF Restore, StartRestore, Start, ReadBlob, MergeLists, ConfirmList, ReplaceList, Plan,
             ConfirmPasswords, Confirm, NextServer, RestoreKey, BindKey, RestorePassword, Finish
    <3>2. QED BY <3>1
  <2>3. QED BY <2>1, <2>2
<1>4. CASE Kill BY <1>4 DEF Kill, Finish
<1>5. CASE AddServer \/ RemoveServer \/ LoseKey \/ OtherBackup
  BY <1>1, <1>5 DEF AddServer, RemoveServer, LoseKey, OtherBackup, Outside
<1>6. CASE Done BY <1>6 DEF Done
<1>7. QED BY <1>2, <1>3, <1>4, <1>5, <1>6 DEF NextVault

(* verifyBackupItem, restoreOneServer, reportRestoreOutcomes: whatever op, *)
(* the disk and other terminals do, a backup that reports success is in    *)
(* the vault, and a restore that exits 0 has brought back what it planned. *)
THEOREM SuccessIsEarned == VaultSpec => SuccessEarned
<1>1. VaultInv /\ [NextVault]_vaultVars =>
         [outcome' = "verified" /\ Running => vault'[Mine] = cmd.doc]_vaultVars
  BY Outcomes DEF vaultVars
<1>2. ASSUME VaultInv, At("next"), cmd.todo = {}, ~cmd.failed, ~cmd.blocked,
             NEW n \in DOMAIN cmd.plans \ cmd.touched
      PROVE  LET plan == cmd.plans[n]
             IN /\ n \in DOMAIN servers
                /\ plan.wantKey => /\ servers[n].path = Managed(n)
                                   /\ disk[Managed(n)] = plan.key
                /\ plan.wantPass => servers[n].pw = plan.pass
  BY <1>2 DEF VaultInv, CmdOK, ProgressOK, KeyBack, Clean, Settled, At, ServerPcs, AtServer
<1>3. VaultInv /\ [NextVault]_vaultVars =>
         [outcome' = "restored" /\ Running =>
            \A n \in DOMAIN cmd.plans \ cmd.touched :
               LET plan == cmd.plans[n]
               IN /\ n \in DOMAIN servers
                  /\ plan.wantKey => /\ servers[n].path = Managed(n)
                                     /\ disk[Managed(n)] = plan.key
                  /\ plan.wantPass => servers[n].pw = plan.pass]_vaultVars
  BY <1>2, Outcomes
<1>4. QED
  BY <1>1, <1>3, VaultInvariance, PTL
     DEF VaultSpec, SuccessEarned, SuccessIsStored, SuccessIsComplete

(* confirmPlaintextRestore, mayReplaceLocalKey: a restore writes no        *)
(* password in the clear that was not there when it read servers.yaml,     *)
(* unless the operator has agreed to this write, and replaces no other key *)
(* without --force.                                                        *)
THEOREM RestoreIsGuarded == VaultSpec => RestoreGuarded
<1>1. ASSUME VaultInv, ReplaceList \/ BindKey \/ RestorePassword, ~cmd.approved
      PROVE  PlaintextOf(cmd.seen, servers') \subseteq PlaintextOf(cmd.seen, servers)
  <2>1. CASE ReplaceList
    <3>1. At("replace") /\ servers' \in {servers, cmd.merged} BY <2>1 DEF ReplaceList
    <3>2. PlaintextOf(cmd.seen, cmd.merged) = {}
      BY <1>1, <3>1 DEF VaultInv, CmdOK, RestoreOK
    <3>3. QED BY <3>1, <3>2
  <2> DEFINE n == cmd.at
             entry == cmd.plans[n].entry
  <2>2. ASSUME At("bind") \/ At("pass")
        PROVE  /\ n \in DOMAIN cmd.seen /\ cmd.seen[n].pw = entry.pw
               /\ ~cmd.plans[n].wantPass
    BY <1>1, <2>2 DEF VaultInv, CmdOK, PlansOK, At, ServerPcs, AtServer, PasswordsPlanned
  <2>3. CASE BindKey
    <3> DEFINE bound == Entry(entry.host, Managed(n), entry.pw)
    <3>1. At("bind") /\ (SaveEntry(n, bound) \/ UNCHANGED servers) BY <2>3 DEF BindKey
    <3>2. bound.pw = entry.pw BY DEF Entry
    <3> HIDE DEF bound
    <3>3. CASE SaveEntry(n, bound)
      <4>1. /\ DOMAIN servers' = DOMAIN servers \union {n} /\ servers'[n] = bound
            /\ \A m \in DOMAIN servers : m # n => servers'[m] = servers[m]
        BY <3>3 DEF SaveEntry
      <4>2. QED BY <2>2, <3>1, <3>2, <4>1 DEF PlaintextOf
    <3>4. QED BY <3>1, <3>3 DEF PlaintextOf
  <2>4. CASE RestorePassword
    <3>1. At("pass") /\ (cmd.plans[n].wantPass \/ UNCHANGED servers)
      BY <2>4 DEF RestorePassword
    <3>2. QED BY <2>2, <3>1 DEF PlaintextOf
  <2>5. QED BY <1>1, <2>1, <2>3, <2>4
<1>2. ASSUME VaultInv, RestoreKey, ~cmd.force, NEW p \in Paths, disk[p] # ""
      PROVE  disk'[p] = disk[p]
  <2> DEFINE n == cmd.at
             key == cmd.plans[n].key
  <2>1. CASE disk' = [disk EXCEPT ![Managed(n)] = key] /\ MayReplace(Managed(n), key)
    <3>1. disk[Managed(n)] \in {"", key} BY <1>2, <2>1 DEF MayReplace
    <3>2. p \in DOMAIN disk BY <1>2 DEF VaultInv, FilesOK
    <3>3. QED BY <1>2, <2>1, <3>1, <3>2
  <2>2. CASE UNCHANGED disk BY <2>2
  <2>3. QED BY <1>2, <2>1, <2>2 DEF RestoreKey
<1>3. VaultInv /\ [NextVault]_vaultVars =>
         [(ReplaceList \/ BindKey \/ RestorePassword) /\ ~cmd.approved =>
            PlaintextOf(cmd.seen, servers') \subseteq PlaintextOf(cmd.seen, servers)]_vaultVars
  BY <1>1
<1>4. VaultInv /\ [NextVault]_vaultVars =>
         [RestoreKey /\ ~cmd.force =>
            \A p \in Paths : disk[p] # "" => disk'[p] = disk[p]]_vaultVars
  BY <1>2
<1>5. QED
  BY <1>3, <1>4, VaultInvariance, PTL
     DEF VaultSpec, RestoreGuarded, PlaintextApproved, LocalKeysGuarded
=============================================================================
