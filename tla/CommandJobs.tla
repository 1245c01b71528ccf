---------------------------- MODULE CommandJobs ----------------------------
(***************************************************************************)
(* The life of a command in the server: the commands table and the three   *)
(* scheduler jobs that read and write it.  run_optimizer_pass inserts      *)
(* rows, apply_pending_commands sends them to a device over SSH,           *)
(* check_in_flight_commands asks the device for the outcome.               *)
(*                                                                         *)
(* Each job runs in the one asyncio loop and never overlaps itself         *)
(* (APScheduler's max_instances is 1), but another job runs whenever one   *)
(* awaits, so every await ends an action here: the SELECT that takes the   *)
(* rows, the SSH call, the UPDATE.  What the device does with a call is in *)
(* SafeApply and CommandSystem; here a call simply returns or is lost.     *)
(***************************************************************************)
EXTENDS Naturals, FiniteSets

CONSTANTS
    Commands,     \* the rows the commands table may come to hold
    ParamOf,      \* the row's param column
    ByHand,       \* rows inserted with SQL by an operator (README, "Validating the full loop")
    TtlOf,        \* the row's ttl_seconds, in ticks
    VerifyDelay,  \* app_settings.command_verify_delay_seconds, in ticks
    Grace,        \* the 15 s added to ttl_seconds, in ticks
    MaxAge,       \* bound: where a row's elapsed time stops growing, in ticks
    MaxFaults,    \* bound: server restarts and failed database calls
    NoCommand

VARIABLES
    status,     \* commands.status, "none" before the INSERT
    serial,     \* the rank of commands.created_at, 0 before the INSERT
    age,        \* now - commands.applied_at, held at MaxAge
    enabled,    \* optimizer_state.enabled, the kill switch
    optPc,      \* run_optimizer_pass: "idle" or the param it is evaluating
    optCmd,     \* the row it decided to INSERT, not yet inserted
    applyPc,    \* apply_pending_commands: where it is
    applyRows,  \* its fetched rows still to do
    applyCmd,   \* the row in hand
    applyTry,   \* ssh_client.run's attempt
    checkPc,    \* check_in_flight_commands: where it is
    checkRows,  \* its fetched rows still to do
    checkAge,   \* `now - applied_at` of those rows, computed once per pass
    checkCmd,   \* the row in hand
    checkTry,   \* ssh_client.run's attempt
    checkSaw,   \* `confirmed`: "true", "false" or "none"
    faults

rows      == <<status, serial, age>>
optVars   == <<enabled, optPc, optCmd>>
applyVars == <<applyPc, applyRows, applyCmd, applyTry>>
checkVars == <<checkPc, checkRows, checkAge, checkCmd, checkTry, checkSaw>>
jobsVars      == <<rows, optVars, applyVars, checkVars, faults>>

Ledger == INSTANCE CommandLedger WITH
              Commands <- Commands, ParamOf <- ParamOf, ByHand <- ByHand, status <- status

Params   == Ledger!Params
InFlight == Ledger!InFlight
Settled  == Ledger!Settled
Reboots  == Ledger!Reboots
Tuned    == Ledger!Tuned

ASSUME CommandsAssumption ==
    /\ IsFiniteSet(Commands)
    /\ NoCommand \notin Commands
    /\ ParamOf \in [Commands -> Params]
    /\ ByHand \subseteq Commands
ASSUME TimesAssumption ==
    /\ TtlOf \in [Commands -> Nat]
    /\ VerifyDelay \in Nat /\ Grace \in Nat /\ MaxFaults \in Nat
    /\ MaxAge \in Nat /\ MaxAge >= VerifyDelay
    /\ \A c \in Commands : MaxAge >= TtlOf[c] + Grace

Links == {"halow_operating_freq", "wifi24_channel"}

JobsInit ==
    /\ status = [c \in Commands |-> "none"]
    /\ serial = [c \in Commands |-> 0]
    /\ age = [c \in Commands |-> 0]
    /\ enabled = TRUE
    /\ optPc = "idle" /\ optCmd = NoCommand
    /\ applyPc = "idle" /\ applyRows = {} /\ applyCmd = NoCommand /\ applyTry = 0
    /\ checkPc = "idle" /\ checkRows = {} /\ checkAge = [c \in Commands |-> 0]
    /\ checkCmd = NoCommand /\ checkTry = 0 /\ checkSaw = "none"
    /\ faults = 0

Inserted == {c \in Commands : status[c] # "none"}

Insert(c) ==
    /\ status' = [status EXCEPT ![c] = "pending"]
    /\ serial' = [serial EXCEPT ![c] = Cardinality(Inserted) + 1]
    /\ UNCHANGED age

-----------------------------------------------------------------------------
(* The dashboard and the operator.                                         *)

SetEnabled ==
    /\ enabled' = ~enabled
    /\ UNCHANGED <<rows, optPc, optCmd, applyVars, checkVars, faults>>

QueueByHand(c) ==
    /\ status[c] = "none"
    /\ c \in Reboots \cup ByHand
    /\ Insert(c)
    /\ UNCHANGED <<optVars, applyVars, checkVars, faults>>

-----------------------------------------------------------------------------
(* run_optimizer_pass: reads `enabled` and the per-link switches once, then *)
(* evaluates the HaLow link and the 2.4 GHz link in turn.  What makes it    *)
(* choose a channel is not modelled here: it may or may not issue one.      *)

HasAppliedCommand(param) ==  \* mutant: status = 'applied' only
    \E c \in Commands : ParamOf[c] = param /\ status[c] = "applied"

HasPendingCommand(param) ==
    \E c \in Commands : ParamOf[c] = param /\ status[c] \in InFlight

OptBegin ==
    /\ optPc = "idle"
    /\ enabled
    /\ optPc' \in Links
    /\ UNCHANGED <<rows, enabled, optCmd, applyVars, checkVars, faults>>

OptDecide(c) ==
    /\ c \in Tuned
    /\ optPc = ParamOf[c]
    /\ optCmd = NoCommand
    /\ status[c] = "none"
    /\ ~HasPendingCommand(optPc)
    /\ optCmd' = c
    /\ UNCHANGED <<rows, enabled, optPc, applyVars, checkVars, faults>>

OptNextLink ==
    optPc' \in IF optPc = "halow_operating_freq" THEN {"wifi24_channel", "idle"}
                                                 ELSE {"idle"}

OptInsert ==
    /\ optCmd # NoCommand
    /\ Insert(optCmd)
    /\ optCmd' = NoCommand
    /\ OptNextLink
    /\ UNCHANGED <<enabled, applyVars, checkVars, faults>>

OptSkip ==
    /\ optPc # "idle"
    /\ optCmd = NoCommand
    /\ OptNextLink
    /\ UNCHANGED <<rows, enabled, optCmd, applyVars, checkVars, faults>>

-----------------------------------------------------------------------------
(* apply_pending_commands.                                                 *)

PendingRows == {c \in Commands : status[c] = "pending"}

ApplyFetch ==
    /\ applyPc = "idle"
    /\ applyRows' = PendingRows
    /\ applyRows' # {}
    /\ applyPc' = "row"
    /\ UNCHANGED <<rows, optVars, applyCmd, applyTry, checkVars, faults>>

ApplyDial(c) ==
    /\ applyPc = "row"
    /\ c \in applyRows
    /\ \A d \in applyRows : serial[c] <= serial[d]
    /\ applyPc' = "ssh"
    /\ applyRows' = applyRows \ {c}
    /\ applyCmd' = c
    /\ applyTry' = 1
    /\ UNCHANGED <<rows, optVars, checkVars, faults>>

ApplyNextRow == applyPc' = "row" /\ applyCmd' = NoCommand /\ applyTry' = 0

(* The command exited.  device_client.apply_command raises on a status     *)
(* other than 0 (the row waits for the next tick); device_client.reboot    *)
(* does not look at the status.                                            *)
ApplyReturns(ok) ==
    /\ applyPc = "ssh"
    /\ IF ok \/ applyCmd \in Reboots
         THEN applyPc' = "write" /\ UNCHANGED <<applyCmd, applyTry>>
         ELSE ApplyNextRow
    /\ UNCHANGED <<rows, optVars, applyRows, checkVars, faults>>

(* No answer: refused, dropped or timed out.  ssh_client.run reconnects and *)
(* sends the command once more, then raises; device_client.reboot swallows  *)
(* the exception.                                                           *)
ApplyLost ==
    /\ applyPc = "ssh"
    /\ \/ applyTry = 1 /\ applyTry' = 2 /\ UNCHANGED <<applyPc, applyCmd>>
       \/ /\ applyTry = 2
          /\ IF applyCmd \in Reboots
               THEN applyPc' = "write" /\ UNCHANGED <<applyCmd, applyTry>>
               ELSE ApplyNextRow
    /\ UNCHANGED <<rows, optVars, applyRows, checkVars, faults>>

SentAlike(c) == "applied"  \* mutant: no special case for a reboot

SentStatus(c) == IF c \in Reboots THEN "acked" ELSE "applied"

ApplyWrite ==
    /\ applyPc = "write"
    /\ status' = [status EXCEPT ![applyCmd] = SentStatus(applyCmd)]
    /\ age' = [age EXCEPT ![applyCmd] = 0]
    /\ ApplyNextRow
    /\ UNCHANGED <<serial, optVars, applyRows, checkVars, faults>>

ApplyEnd ==
    /\ applyPc = "row" /\ applyRows = {}
    /\ applyPc' = "idle"
    /\ UNCHANGED <<rows, optVars, applyRows, applyCmd, applyTry, checkVars, faults>>

-----------------------------------------------------------------------------
(* check_in_flight_commands.                                               *)

CheckFetch ==
    /\ checkPc = "idle"
    /\ checkRows' = {c \in Commands : status[c] = "applied"}
    /\ checkRows' # {}
    /\ checkAge' = [c \in Commands |-> IF c \in checkRows' THEN age[c] ELSE 0]
    /\ checkPc' = "row"
    /\ UNCHANGED <<rows, optVars, applyVars, checkCmd, checkTry, checkSaw, faults>>

CheckSkip(c) ==
    /\ checkPc = "row"
    /\ c \in checkRows
    /\ checkAge[c] < VerifyDelay
    /\ checkRows' = checkRows \ {c}
    /\ UNCHANGED <<rows, optVars, applyVars, checkPc, checkAge, checkCmd, checkTry,
                   checkSaw, faults>>

CheckDial(c) ==
    /\ checkPc = "row"
    /\ c \in checkRows
    /\ checkAge[c] >= VerifyDelay
    /\ checkPc' = "ssh"
    /\ checkRows' = checkRows \ {c}
    /\ checkCmd' = c
    /\ checkTry' = 1
    /\ UNCHANGED <<rows, optVars, applyVars, checkAge, checkSaw, faults>>

(* verify-confirm exited: `return status == 0`.                            *)
CheckReturns(ok) ==
    /\ checkPc = "ssh"
    /\ checkPc' = "write"
    /\ checkSaw' = IF ok THEN "true" ELSE "false"
    /\ UNCHANGED <<rows, optVars, applyVars, checkRows, checkAge, checkCmd, checkTry,
                   faults>>

CheckLost ==
    /\ checkPc = "ssh"
    /\ \/ checkTry = 1 /\ checkTry' = 2 /\ UNCHANGED checkPc
       \/ checkTry = 2 /\ checkPc' = "write" /\ UNCHANGED checkTry
    /\ UNCHANGED <<rows, optVars, applyVars, checkRows, checkAge, checkCmd, checkSaw,
                   faults>>

VerdictByOutcome(c, saw, elapsed) ==  \* mutant: no retry window
    CASE saw = "true"  -> "acked"
      [] saw = "false" -> "reverted"
      [] saw = "none"  -> "unknown"

VerdictNever(c, saw, elapsed) ==  \* mutant: retries without end
    CASE saw = "true"  -> "acked"
      [] saw = "false" -> "reverted"
      [] saw = "none"  -> status[c]

(* In the retry window nothing is written.                                  *)
Verdict(c, saw, elapsed) ==
    CASE saw = "true"  -> "acked"
      [] saw = "false" -> "reverted"
      [] saw = "none"  -> IF elapsed >= TtlOf[c] + Grace THEN "unknown" ELSE status[c]

CheckWrite ==
    /\ checkPc = "write"
    /\ status' = [status EXCEPT ![checkCmd] = Verdict(checkCmd, checkSaw, checkAge[checkCmd])]
    /\ checkPc' = "row" /\ checkCmd' = NoCommand /\ checkTry' = 0 /\ checkSaw' = "none"
    /\ UNCHANGED <<serial, age, optVars, applyVars, checkRows, checkAge, faults>>

CheckEnd ==
    /\ checkPc = "row" /\ checkRows = {}
    /\ checkPc' = "idle"
    /\ checkAge' = [c \in Commands |-> 0]
    /\ UNCHANGED <<rows, optVars, applyVars, checkRows, checkCmd, checkTry, checkSaw, faults>>

-----------------------------------------------------------------------------
(* Time, and what ends a job early: a database call that raises (asyncpg's  *)
(* error leaves the job, APScheduler logs it and runs the job again at the  *)
(* next interval), or the end of the process.                               *)

Aging == {c \in Commands : status[c] = "applied" /\ age[c] < MaxAge}

JobsTick ==
    /\ Aging # {}
    /\ age' = [c \in Commands |-> IF c \in Aging THEN age[c] + 1 ELSE age[c]]
    /\ UNCHANGED <<status, serial, optVars, applyVars, checkVars, faults>>

OptStops   == optPc' = "idle" /\ optCmd' = NoCommand
ApplyStops == applyPc' = "idle" /\ applyRows' = {} /\ applyCmd' = NoCommand /\ applyTry' = 0
CheckStops == /\ checkPc' = "idle" /\ checkRows' = {} /\ checkCmd' = NoCommand
              /\ checkTry' = 0 /\ checkSaw' = "none"
              /\ checkAge' = [c \in Commands |-> 0]

Fault == faults < MaxFaults /\ faults' = faults + 1 /\ UNCHANGED <<rows, enabled>>

OptAborts == optPc # "idle" /\ OptStops /\ Fault /\ UNCHANGED <<applyVars, checkVars>>
ApplyAborts ==
    /\ applyPc # "idle" /\ ApplyStops
    /\ Fault /\ UNCHANGED <<optPc, optCmd, checkVars>>
CheckAborts ==
    /\ checkPc # "idle" /\ CheckStops
    /\ Fault /\ UNCHANGED <<optPc, optCmd, applyVars>>
ServerRestarts == OptStops /\ ApplyStops /\ CheckStops /\ Fault

-----------------------------------------------------------------------------
OptJob == OptBegin \/ OptInsert \/ OptSkip \/ \E c \in Commands : OptDecide(c)

ApplyJob ==
    \/ ApplyFetch \/ ApplyLost \/ ApplyWrite \/ ApplyEnd
    \/ \E c \in Commands : ApplyDial(c)
    \/ \E ok \in BOOLEAN : ApplyReturns(ok)

CheckJob ==
    \/ CheckFetch \/ CheckLost \/ CheckWrite \/ CheckEnd
    \/ \E c \in Commands : CheckSkip(c) \/ CheckDial(c)
    \/ \E ok \in BOOLEAN : CheckReturns(ok)

Operator == SetEnabled \/ \E c \in Commands : QueueByHand(c)

Faults == OptAborts \/ ApplyAborts \/ CheckAborts \/ ServerRestarts

JobsNext == OptJob \/ ApplyJob \/ CheckJob \/ Operator \/ JobsTick \/ Faults

JobsSpec == JobsInit /\ [][JobsNext]_jobsVars

(* The scheduler runs every job again and again, an SSH call ends by its    *)
(* timeout, and time passes; nothing makes an operator, the optimizer or a  *)
(* fault act.                                                               *)
FairJobsSpec ==
    JobsSpec /\ WF_jobsVars(ApplyJob) /\ WF_jobsVars(CheckJob) /\ WF_jobsVars(JobsTick)

-----------------------------------------------------------------------------
JobsTypeOK ==
    /\ status \in [Commands -> Ledger!Statuses]
    /\ serial \in [Commands -> Nat]
    /\ age \in [Commands -> Nat]
    /\ enabled \in BOOLEAN
    /\ optPc \in Links \cup {"idle"}
    /\ optCmd \in Commands \cup {NoCommand}
    /\ applyPc \in {"idle", "row", "ssh", "write"}
    /\ applyRows \subseteq Commands
    /\ applyCmd \in Commands \cup {NoCommand}
    /\ applyTry \in 0..2
    /\ checkPc \in {"idle", "row", "ssh", "write"}
    /\ checkRows \subseteq Commands
    /\ checkAge \in [Commands -> Nat]
    /\ checkCmd \in Commands \cup {NoCommand}
    /\ checkTry \in 0..2
    /\ checkSaw \in {"true", "false", "none"}
    /\ faults \in Nat

(* A job acts on rows it read before its last await.  Whatever the other    *)
(* jobs did since, the rows it still holds are as it read them: what        *)
(* apply_pending_commands is about to send is pending, what                 *)
(* check_in_flight_commands is about to settle is applied, so neither       *)
(* UPDATE (which names only the id) overwrites an outcome.                  *)
RowsAreFresh ==
    /\ \A c \in applyRows \cup {applyCmd} : c # NoCommand => status[c] = "pending"
    /\ \A c \in checkRows \cup {checkCmd} : c # NoCommand => status[c] = "applied"

(* The optimizer's check (_has_pending_command) and its INSERT are apart,   *)
(* yet it never has two changes of the same parameter in flight.            *)
SingleFlight ==
    \A c, d \in Tuned :
        /\ ParamOf[c] = ParamOf[d]
        /\ status[c] \in InFlight /\ status[d] \in InFlight
        => c = d

(* What the jobs know of the rows they hold, from which the properties      *)
(* above and below follow at every step (the inductive invariant).          *)
RowsHeld ==
    /\ applyPc \in {"ssh", "write"} <=> applyCmd # NoCommand
    /\ checkPc \in {"ssh", "write"} <=> checkCmd # NoCommand
    /\ applyCmd \notin applyRows
    /\ checkCmd \notin checkRows
    /\ \A c \in checkRows \cup {checkCmd} : c # NoCommand => checkAge[c] <= age[c]

OptimizerHeld ==
    optCmd # NoCommand =>
        /\ optCmd \in Tuned
        /\ status[optCmd] = "none"
        /\ \A d \in Tuned : ParamOf[d] = ParamOf[optCmd] => status[d] \notin InFlight

JobsInv == RowsHeld /\ RowsAreFresh /\ OptimizerHeld /\ SingleFlight

(* "unknown" is written only when the device's own rollback window is over, *)
(* although the job decides on an elapsed time it computed before its SSH   *)
(* calls to every earlier row.                                              *)
UnknownAfterWindow ==
    [][\A c \in Commands :
          status[c] # "unknown" /\ status'[c] = "unknown" => age[c] >= TtlOf[c]]_jobsVars

(* The jobs together keep the promise of CommandLedger.                     *)
LedgerSpec == Ledger!LedgerSpec

(* A command that was sent gets an outcome, however often its verify call   *)
(* is lost: the retry window of check_in_flight_commands closes.            *)
AppliedSettles ==
    \A c \in Commands \ Reboots : (status[c] = "applied") ~> (status[c] \in Settled)
=============================================================================
