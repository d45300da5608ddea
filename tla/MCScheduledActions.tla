------------------------- MODULE MCScheduledActions -------------------------
(* ScheduledActions on small instances.                                     *)
EXTENDS ScheduledActions

=============================================================================
