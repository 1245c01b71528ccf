--------------------------- MODULE CommandLedger ---------------------------
(***************************************************************************)
(* What the commands table promises to whoever reads the dashboard, with   *)
(* no job, no SSH session and no clock: a command is issued once, moves    *)
(* only forward, settles at most once, and two commands the optimizer      *)
(* chose for the same parameter are never in flight together.  CommandJobs *)
(* (the scheduler's jobs) is shown to implement this module.               *)
(***************************************************************************)
CONSTANTS
    Commands,   \* the rows the commands table may come to hold
    ParamOf,    \* the row's param column
    ByHand      \* the rows an operator inserts with SQL (README, "Validating the full loop")

VARIABLE status \* the row's status column, "none" before the INSERT

Params   == {"halow_operating_freq", "wifi24_channel", "reboot"}
Statuses == {"none", "pending", "applied", "acked", "reverted", "unknown"}
InFlight == {"pending", "applied"}
Settled  == {"acked", "reverted", "unknown"}

Reboots == {c \in Commands : ParamOf[c] = "reboot"}
Tuned   == Commands \ (Reboots \cup ByHand)  \* chosen by the optimizer

LedgerInit == status = [c \in Commands |-> "none"]

Issue(c) ==
    /\ status[c] = "none"
    /\ c \in Tuned => \A d \in Tuned :
                         ParamOf[d] = ParamOf[c] => status[d] \notin InFlight
    /\ status' = [status EXCEPT ![c] = "pending"]

Apply(c) ==
    /\ status[c] = "pending"
    /\ status' = [status EXCEPT ![c] = IF c \in Reboots THEN "acked" ELSE "applied"]

Settle(c) ==
    /\ status[c] = "applied"
    /\ \E outcome \in Settled : status' = [status EXCEPT ![c] = outcome]

LedgerNext == \E c \in Commands : Issue(c) \/ Apply(c) \/ Settle(c)

LedgerSpec == LedgerInit /\ [][LedgerNext]_status
=============================================================================
