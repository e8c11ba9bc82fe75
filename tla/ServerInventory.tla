--------------------------- MODULE ServerInventory ---------------------------
(***************************************************************************)
(* What the operations of server.Store mean for the inventory as a whole   *)
(* (internal/server/store.go), without files, caches and locks.            *)
(*                                                                         *)
(* An inventory maps the names of the configured servers to their records. *)
(* A record has a field jump, the name of the jump host or NoJump; its     *)
(* other fields are the caller's.                                          *)
(***************************************************************************)
CONSTANTS Names,      \* server names
          NoJump      \* the JumpHost of a server that is reached directly

ASSUME NoJumpAssumption == NoJump \notin Names

Empty == [n \in {} |-> NoJump]

(* validateJumpHosts: following jump hosts from any server ends. A jump    *)
(* host outside the inventory ends the walk and is tolerated. A walk that  *)
(* comes back visits a set of servers that all jump within the set.        *)
Acyclic(inv) == \A S \in SUBSET DOMAIN inv :
                   S # {} => \E n \in S : inv[n].jump \notin S

Saved(inv, name, record) == [n \in DOMAIN inv \union {name} |->
                                IF n = name THEN record ELSE inv[n]]

Deleted(inv, name) == [n \in DOMAIN inv \ {name} |-> inv[n]]

(* The entry moves to its new name, and every direct reference with it.    *)
Renamed(inv, old, new) ==
   [n \in (DOMAIN inv \ {old}) \union {new} |->
      LET record == inv[IF n = new THEN old ELSE n]
      IN  IF record.jump = old THEN [record EXCEPT !.jump = new] ELSE record]

Dependents(inv, name) == {n \in DOMAIN inv : inv[n].jump = name}

(***************************************************************************)
(* The requests that write. Replace carries a whole document, which it     *)
(* has validated before it takes any lock; the others change the inventory *)
(* they find.                                                              *)
(***************************************************************************)
Save(name, record)  == [op |-> "save", name |-> name, record |-> record]
Delete(name)        == [op |-> "delete", name |-> name]
Rename(old, new)    == [op |-> "rename", name |-> old, new |-> new]
Replace(document)   == [op |-> "replace", document |-> document]

Effect(req, inv) ==
   CASE req.op = "save"    -> Saved(inv, req.name, req.record)
     [] req.op = "delete"  -> Deleted(inv, req.name)
     [] req.op = "rename"  -> Renamed(inv, req.name, req.new)
     [] req.op = "replace" -> req.document

Accepted(req, inv) ==
   /\ req.op \in {"delete", "rename"} => req.name \in DOMAIN inv
   /\ req.op = "rename" => req.new \notin DOMAIN inv
   /\ req.op # "delete" => Acyclic(Effect(req, inv))
=============================================================================
