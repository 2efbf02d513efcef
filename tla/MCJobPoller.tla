---------------------------- MODULE MCJobPoller ----------------------------
(* Model checking JobPoller.                                               *)
EXTENDS JobPoller, TLC

=============================================================================
