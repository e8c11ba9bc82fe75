--------------------------- MODULE MCServerStore ---------------------------
EXTENDS ServerStore, TLC

CONSTANTS a, b, p, q, c1, c2, c3

Via(j) == [jump |-> j]

(* Two goroutines of one process, and one of another.                      *)
MCStoreOf == (c1 :> p) @@ (c2 :> p) @@ (c3 :> q)

(* Two servers that can be made to jump to each other, by two saves, by a  *)
(* rename, or by an edited document.                                       *)
MCRequests == {Save(a, Via(b)), Save(b, Via(a)), Delete(a), Rename(a, b),
               Replace(a :> Via(NoJump))}
=============================================================================
