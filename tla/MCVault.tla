------------------------------- MODULE MCVault -------------------------------
EXTENDS Vault

CONSTANTS a, b, me, them

NoKeys == [n \in Servers |-> ""]
NoDisk == [p \in Paths |-> ""]

(* Another machine knows a under another address, and b, each by its own   *)
(* key.                                                                    *)
Theirs ==
   Doc([n \in {a, b} |-> IF n = a THEN Entry("h2", Own, "") ELSE Entry("h1", Own, "q")],
       [n \in Servers |-> IF n = a THEN "k2" ELSE "k3"])

MCTitles == <<them, me>>
MCShared == [n \in {b} |-> Entry("h1", NoPath, "p")]
MCKeyItem == [n \in Servers |-> IF n = b THEN "k3" ELSE ""]
MCPassItem == [n \in Servers |-> IF n = b THEN "p" ELSE ""]
MCOthers == {Theirs}
MCNewEntries == {Entry("h1", Own, ""), Entry("h1", NoPath, "p")}

(* A new machine; one with the user's own key and a password; and one that *)
(* an old version left with references.                                    *)
MCMachines ==
   {[servers |-> NoServers, disk |-> NoDisk,
     vault |-> [t \in {me, them} |-> IF t = me THEN Missing ELSE Theirs]],
    [servers |-> [n \in {a} |-> Entry("h1", Own, "")],
     disk |-> [NoDisk EXCEPT ![Own] = "k1", ![Managed(b)] = "k1"],
     vault |-> [t \in {me, them} |-> Missing]],
    [servers |-> [n \in {a, b} |-> IF n = a THEN Entry("h1", Managed(a), "p")
                                   ELSE Entry("h1", RefPath, Ref)],
     disk |-> [NoDisk EXCEPT ![Managed(a)] = "k1"],
     vault |-> [t \in {me, them} |-> IF t = me THEN Blank ELSE Missing]]}
=============================================================================
