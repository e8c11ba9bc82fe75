-------------------------- MODULE MCServerCommands --------------------------
EXTENDS ServerCommands

CONSTANTS a, b, c, g, h, j

Entry(jump, host, key, password) ==
   [jump |-> jump, host |-> host, key |-> key, password |-> password]

(* Two servers with one key (a was renamed to b, and added again under its *)
(* old name), one the jump host of the other; and a server with a password *)
(* whose generated key is bound to another server too.                     *)
Twins == [n \in {a, b} |-> Entry(IF n = b THEN a ELSE NoJump, g, Home(Copy(a)), FALSE)]
Shared == [n \in {a, b} |-> IF n = a THEN Entry(NoJump, g, Home(Gen(a)), TRUE)
                            ELSE Entry(a, h, <<"absolute", Gen(a)>>, TRUE)]

(* Nothing yet, or one of the above, with and without a default key, with  *)
(* a job for each server or for none that there is, and once with hosts    *)
(* that know no key and a public key that is not that of the private one.  *)
MCStarts ==
   LET Left(inventory, n, key) ==
          [servers |-> inventory, jobs |-> [i \in Jobs |-> n], own |-> key,
           known |-> {1, 2}, stale |-> FALSE]
   IN  {Left(Empty, a, 1), Left(Twins, c, 0), Left(Shared, b, 1),
        [Left(Shared, a, 0) EXCEPT !.known = {}, !.stale = TRUE]}

(* Nothing; the operator's text alone and around a block of an earlier     *)
(* export; two blocks, markers out of order, an end that is missing, and   *)
(* one block in another.                                                   *)
MCConfigs ==
   LET t == Text("own")
       old == Entries([n \in {c} |-> [host |-> h, proxy |-> NoJump, auth |-> <<>>]])
   IN  {<<>>, <<t>>, <<t, BeginMarker, old, EndMarker, t>>,
        <<BeginMarker, old, EndMarker, t, BeginMarker, old, EndMarker>>, <<EndMarker, t, BeginMarker>>,
        <<t, BeginMarker, old>>, <<BeginMarker, t, BeginMarker, old, EndMarker>>}
=============================================================================
