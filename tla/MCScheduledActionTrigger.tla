---------------------- MODULE MCScheduledActionTrigger ----------------------
(* Instances of ScheduledActionTrigger for TLC. *)
EXTENDS ScheduledActionTrigger, TLC

CONSTANTS l1, l2, l3
=============================================================================
