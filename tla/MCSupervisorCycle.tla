------------------------- MODULE MCSupervisorCycle -------------------------
(* Instance of SupervisorCycle for TLC: two memories in a page instead of 50. *)
EXTENDS SupervisorCycle
=============================================================================
