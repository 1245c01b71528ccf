--------------------------- MODULE MCRadioRecovery ---------------------------
(* Two channels; caps that differ and one chip reset fewer than the script.  *)
EXTENDS RadioRecovery

CONSTANTS c1, c2

MCCap == [channel |-> 1, defaults |-> 2]
==============================================================================
