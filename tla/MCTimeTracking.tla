---------------------------- MODULE MCTimeTracking ----------------------------
(* Model checking TimeTracking: two jobs, without quotes (see Billing).         *)
EXTENDS TimeTracking, TLC
=============================================================================
