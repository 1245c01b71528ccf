----------------------------- MODULE MCRadioLock -----------------------------
(* Three processes: two applies that overlap and cron's recover-radio.       *)
EXTENDS RadioLock

CONSTANTS p1, p2, p3

==============================================================================
