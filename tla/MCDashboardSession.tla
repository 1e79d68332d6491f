------------------------ MODULE MCDashboardSession -------------------------
(* Instance of DashboardSession for TLC. *)
EXTENDS DashboardSession
=============================================================================
