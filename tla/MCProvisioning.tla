----------------------------- MODULE MCProvisioning -----------------------------
(***************************************************************************)
(* A machine that is set up and one more server, two commands at a time    *)
(* (setup or create-user), and a machine that takes over an address. The   *)
(* agent holds a key of its own.                                           *)
(***************************************************************************)
EXTENDS CreateUser

CONSTANTS s1, s2, p1, p2, a1, a2, m1, m2, m3, ed, rsa, c1, c2, k0, k1, k2

MCInventories == {[s \in {s1, s2} |-> IF s = s1 THEN a1 ELSE a2]}
MCAnswering == {[a \in {a1, a2} |-> IF a = a1 THEN m1 ELSE m2], [a \in {a1, a2} |-> m1]}
MCKnownAtFirst == {{},
                   {[addr |-> a1, key |-> [type |-> rsa, machine |-> m1]],
                    [addr |-> a2, key |-> [type |-> ed, machine |-> m3]]}}
MCUserOf == [r \in Runs |-> IF r = c1 THEN "ops" ELSE "bob"]
MCUsers == {"root", "ops", "bob"}
MCLogins == {[user |-> "root", key |-> NoKey, password |-> TRUE],
             [user |-> "root", key |-> NoKey, password |-> FALSE],
             [user |-> "ops", key |-> k0, password |-> FALSE]}
NoKeys == [u \in MCUsers |-> IF u = "root" THEN {k0} ELSE {}]
Blank == [authorized |-> NoKeys, sudo |-> {}, sudoers |-> [u \in MCUsers |-> "none"],
          dropin |-> "none", overridden |-> FALSE, locked |-> FALSE]
SetUp == [Blank EXCEPT !.authorized["ops"] = {k0}, !.sudo = {"ops"}]
MCStates == {Blank,
             [SetUp EXCEPT !.overridden = TRUE],
             [SetUp EXCEPT !.dropin = "managed", !.locked = TRUE],
             [SetUp EXCEPT !.sudoers["ops"] = "foreign", !.dropin = "foreign"]}
MCStarts ==
   LET From(plan, state, as) ==
          [plan |-> plan, machine |-> [m \in Machines |-> IF m = m1 THEN state ELSE Blank],
           login |-> as]
   IN {From({c1, c2}, state, l) : state \in MCStates, l \in MCLogins}
      \union {From({p1, c1}, Blank, l) : l \in MCLogins}
      \union {From({p1, p2}, Blank, [user |-> "root", key |-> NoKey, password |-> TRUE])}
=================================================================================
