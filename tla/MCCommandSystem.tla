--------------------------- MODULE MCCommandSystem ---------------------------
(* One optimizer command and one reboot, on a device with two channels.      *)
EXTENDS CommandSystem, TLC

CONSTANTS h1, r1, p1, p2, ch0, chA

MCParamOf == [c \in Commands |-> IF c = r1 THEN "reboot" ELSE "halow_operating_freq"]
MCTtlOf == [c \in Commands |-> 1]
MCTargetOf == [c \in Commands |-> IF c = r1 THEN ch0 ELSE chA]

(* The two calls are alike.                                                  *)
CallsAreAlike == Permutations(Calls)
==============================================================================
