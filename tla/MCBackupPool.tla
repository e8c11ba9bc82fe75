----------------------------- MODULE MCBackupPool -----------------------------
(* Three jobs, one of them local, and two slots, without --allow-untracked. *)
EXTENDS BackupPool

CONSTANTS here, there, yonder, web

MCRuns == {here, there, yonder}
MCJobOf == [r \in MCRuns |-> web]
=============================================================================
