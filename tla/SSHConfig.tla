------------------------------ MODULE SSHConfig ------------------------------
(***************************************************************************)
(* The managed block of ~/.ssh/config (internal/server/ssh_config.go). A   *)
(* file is a sequence of lines. A line is a marker, text of the operator,  *)
(* or the Host entries of a block, which stand together in one line here.  *)
(***************************************************************************)
EXTENDS Naturals, Sequences

BeginMarker == <<"begin">>
EndMarker == <<"end">>
Text(t) == <<"text", t>>
Entries(entries) == <<"entries", entries>>

(* RenderSSHConfig: every server with the one way in which ssh is to log   *)
(* in, and its jump host.                                                  *)
Rendered(inventory) ==
   LET entry(s) == [host |-> s.host, proxy |-> s.jump,
                    auth |-> IF s.key # <<>> THEN s.key
                             ELSE IF s.password THEN <<"password">> ELSE <<>>]
   IN  <<BeginMarker, Entries([n \in DOMAIN inventory |-> entry(inventory[n])]), EndMarker>>

Places(lines, line) == {i \in DOMAIN lines : lines[i] = line}
First(lines, line) == CHOOSE i \in Places(lines, line) :
                         \A k \in Places(lines, line) : i <= k

(* ValidateSSHConfigUpdate: no markers, or one pair of them, in order.     *)
Updatable(lines) ==
   \/ Places(lines, BeginMarker) = {} /\ Places(lines, EndMarker) = {}
   \/ \E i, k \in DOMAIN lines : /\ Places(lines, BeginMarker) = {i}
                                 /\ Places(lines, EndMarker) = {k}
                                 /\ i < k

(* hasManagedSSHBlock, which asks for the markers only.                    *)
HasBlock(lines) == Places(lines, BeginMarker) # {} /\ Places(lines, EndMarker) # {}

(* MergeSSHConfigContent: the first block is replaced, or one is appended. *)
Merged(lines, block) ==
   IF HasBlock(lines) /\ First(lines, BeginMarker) <= First(lines, EndMarker)
   THEN SubSeq(lines, 1, First(lines, BeginMarker) - 1) \o block
        \o SubSeq(lines, First(lines, EndMarker) + 1, Len(lines))
   ELSE lines \o block

-----------------------------------------------------------------------------
(* Line i stands between the two markers of an updatable file.             *)
Inside(lines, i) == \E b \in Places(lines, BeginMarker), e \in Places(lines, EndMarker) :
                       b < i /\ i < e

(* The lines of a kind are the same in two files, and in the same order.   *)
Kind(lines, kind) == {i \in DOMAIN lines : lines[i][1] = kind}
SameLines(kind, old, new) ==
   \E move \in [Kind(old, kind) -> Kind(new, kind)] :
      /\ \A k \in Kind(new, kind) : \E i \in Kind(old, kind) : move[i] = k
      /\ \A i, k \in Kind(old, kind) : i < k => move[i] < move[k]
      /\ \A i \in Kind(old, kind) : new[move[i]] = old[i]
=============================================================================
