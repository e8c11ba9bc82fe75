------------------------------ MODULE MCNotifier ------------------------------
(* A channel for each trigger, so that each event is for two of them.      *)
EXTENDS Notifier, TLC

CONSTANTS all, good, bad

MCWants == (all :> "always") @@ (good :> "success") @@ (bad :> "failure")
=============================================================================
