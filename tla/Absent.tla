------------------------------- MODULE Absent -------------------------------
(* What stands for a file, a field or a flag that is not there. *)
None == "none"
=============================================================================
