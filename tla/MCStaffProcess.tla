---------------------------- MODULE MCStaffProcess ----------------------------
(* The instance of StaffProcess for TLC; its constants are numbers. *)
EXTENDS StaffProcess
=============================================================================
