----------------------------- MODULE MCEventLog -----------------------------
(* A log of two lines, five events, two power failures.                      *)
EXTENDS EventLog
=============================================================================
