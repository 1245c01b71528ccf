----------------------------- MODULE MCSafeApply -----------------------------
(* Two overlapping calls, two channels and one value no radio has.           *)
EXTENDS SafeApply

CONSTANTS p1, p2, chA, chB, chX
==============================================================================
