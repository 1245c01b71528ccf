---------------------------- MODULE MCCommandJobs ----------------------------
(* Small instances of CommandJobs.  Two HaLow changes and a reboot, or one   *)
(* change of each radio and one inserted by hand: ttl_seconds exceeds the    *)
(* verify delay for HaLow and equals it for 2.4 GHz.                         *)
EXTENDS CommandJobs

CONSTANTS h1, h2, w1, m1, r1

MCParamOf == [c \in Commands |-> CASE c \in {h1, h2, m1} -> "halow_operating_freq"
                                   [] c = w1 -> "wifi24_channel"
                                   [] c = r1 -> "reboot"]
MCTtlOf == [c \in Commands |-> IF c = w1 THEN 1 ELSE 2]
==============================================================================
