------------------------------ MODULE MCMigration ------------------------------
(* Two and three replicas of one Compose service; another project whose    *)
(* service has the name the second replica falls back to; and a container  *)
(* of no project.                                                          *)
EXTENDS Migration, TLC

Site == [name |-> <<"a", "1">>, project |-> <<"a">>, service |-> <<"web", "b", "2">>, image |-> "i",
         volumes |-> {"v"}, binds |-> {"/data"}, db |-> "none", port |-> 1, dir |-> "/a", blocked |-> FALSE]

Replica1 == [name |-> <<"b", "1">>, project |-> <<"b">>, service |-> <<"web">>, image |-> "i",
             volumes |-> {}, binds |-> {"/db"}, db |-> "dump", port |-> 2, dir |-> "/b", blocked |-> FALSE]

Replica2 == [Replica1 EXCEPT !.name = <<"b", "2">>, !.port = 3]

Loner == [Replica2 EXCEPT !.name = <<"c">>, !.project = Plain, !.service = << >>, !.port = NoPort,
          !.db = "none", !.blocked = TRUE]

Replica3 == [Replica1 EXCEPT !.name = <<"b", "3">>, !.port = 4]

MCSources == {<<Site, Replica1, Replica2>>, <<Replica1, Replica2, Replica3>>, <<Replica1, Loner>>}

Ready == [docker |-> "ok", restic |-> "ok", compose |-> "ok", helper |-> "ok", disk |-> "ok",
          registry |-> "ok", paths |-> "ok"]

Empty == [names |-> {}, projects |-> {}, ports |-> {}, dirs |-> {}, images |-> {}, report |-> Ready]

MCTargets == {Empty,
              [Empty EXCEPT !.report.registry = "missing"],
              [Empty EXCEPT !.report.docker = "missing"],
              [Empty EXCEPT !.dirs = {"/a"}, !.ports = {2}]}

MCEdits == {<<1, "dir", "/new">>, <<2, "port", 9>>, <<3, "bind", "/moved">>}

MCFlags == {[dryRun |-> FALSE, yes |-> FALSE, health |-> TRUE, config |-> TRUE],
            [dryRun |-> TRUE, yes |-> TRUE, health |-> FALSE, config |-> FALSE]}

(* The order of the names above, by their first word and their last. *)
Position(n) == CHOOSE i \in 1 .. 12 :
    n = <<<<"a", "1">>, <<"b", "1">>, <<"b", "2">>, <<"b", "3">>, <<"c">>,
          <<"web">>, <<"web", "b", "1">>, <<"web", "b", "2">>, <<"web", "b", "2", "x">>,
          <<"web", "b", "3">>, <<"web", "c">>, <<"c", "x">>>>[i]
MCBefore(m, n) == Position(m) < Position(n)
=============================================================================
