--------------------------- MODULE MCBackupRunner ---------------------------
(* Two processes run the same job at once on one ledger: one locally, one   *)
(* over SSH in --allow-untracked mode (which takes the tracked path too     *)
(* whenever its first write succeeds).                                      *)
EXTENDS BackupRunner

CONSTANTS here, remotely, web

MCRuns == {here, remotely}
MCJobOf == [r \in MCRuns |-> web]
=============================================================================
