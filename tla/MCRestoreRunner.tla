--------------------------- MODULE MCRestoreRunner ---------------------------
(* One restore with any of the requests that differ in control, beside a   *)
(* plain restore of files that writes into the same table.                 *)
EXTENDS RestoreRunner, TLC

CONSTANTS any, plain

MCRuns == {any, plain}

(* A plain restore on its own host. *)
Files == [policy |-> "auto", cross |-> FALSE, dryRun |-> FALSE, allow |-> FALSE, local |-> FALSE,
          manifest |-> "none", volumes |-> 0, database |-> "none", asset |-> FALSE]

(* A package with volumes and a dump, moved to another machine. *)
Move == [Files EXCEPT !.cross = TRUE, !.manifest = "match", !.volumes = 2, !.database = "dump"]

MCRequestsOf ==
    any :> {Files, Move,
            [Files EXCEPT !.dryRun = TRUE, !.allow = TRUE],
            [Files EXCEPT !.policy = "start", !.asset = TRUE],
            [Files EXCEPT !.policy = "start", !.manifest = "foreign", !.allow = TRUE],
            [Files EXCEPT !.manifest = "match", !.database = "dump"],
            [Files EXCEPT !.cross = TRUE],
            [Move EXCEPT !.policy = "no-start"],
            [Move EXCEPT !.manifest = "foreign"],
            [Move EXCEPT !.allow = TRUE, !.database = "nodump", !.volumes = 1],
            [Move EXCEPT !.local = TRUE, !.volumes = 0],
            [Move EXCEPT !.policy = "start", !.cross = FALSE, !.database = "none"]}
    @@ plain :> {Files}
=============================================================================
