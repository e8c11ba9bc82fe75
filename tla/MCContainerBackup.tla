-------------------------- MODULE MCContainerBackup --------------------------
(***************************************************************************)
(* Two runs on one container, of every kind, one of them with              *)
(* --allow-untracked, and a job of each of two servers with retention, in  *)
(* one repository.                                                         *)
(***************************************************************************)
EXTENDS ContainerBackup

CONSTANTS r1, r2, web, web1, web2, mail, h1, h2, v1, v2

MCJobs == {App, web, mail}
MCHosts == {h1, h2}
MCScripts == {r1, r2, web1, web2, mail}
MCPlans == {{r1, r2}, {r1, web1}, {web1, web2, mail}}
MCJobOf == [x \in MCScripts |-> IF x \in {r1, r2} THEN App
                               ELSE IF x = mail THEN mail ELSE web]
MCPathsOf == [j \in MCJobs |-> j]
MCKeepLast == [j \in MCJobs |-> IF j = App THEN 0 ELSE 1]
MCHomes == {[j \in MCJobs |-> IF j = mail THEN h2 ELSE h1]}
MCContainers == {[compose |-> FALSE, database |-> TRUE, secrets |-> TRUE],
                 [compose |-> TRUE, database |-> FALSE, secrets |-> FALSE]}
==============================================================================
