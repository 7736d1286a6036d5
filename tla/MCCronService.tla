---------------------------- MODULE MCCronService ----------------------------
(* Small instances of CronService for TLC. *)
EXTENDS CronService, TLC

CONSTANT j1

Recurring == j1 :> {"every"}
AnyKind == j1 :> {"every", "at", "once"}
=============================================================================
