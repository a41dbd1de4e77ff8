----------------------------- MODULE MCExecRun -----------------------------
(* Instances of ExecRun for TLC. *)
EXTENDS ExecRun
=============================================================================
