--------------------------- MODULE AtomicInventory ---------------------------
(***************************************************************************)
(* What server.Store promises about its writes, however many processes use *)
(* it: a write is one step that applies an acceptable request to the       *)
(* inventory as it is at that moment.                                      *)
(***************************************************************************)
EXTENDS ServerInventory

CONSTANT Requests

VARIABLE inventory

Init == inventory = Empty

Write(req) == /\ Accepted(req, inventory)
              /\ inventory' = Effect(req, inventory)

Next == \E req \in Requests : Write(req)

Spec == Init /\ [][Next]_inventory
=============================================================================
