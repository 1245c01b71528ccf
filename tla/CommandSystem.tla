--------------------------- MODULE CommandSystem ---------------------------
(***************************************************************************)
(* The server's jobs (CommandJobs) and one device (SafeApply), joined by   *)
(* SSH: ssh_client.run starts a call on the device, waits for its exit     *)
(* status, and on a lost answer starts the command a second time while the *)
(* first may still be running there.  All commands address this device and *)
(* its HaLow radio; a reboot command really restarts it.                   *)
(***************************************************************************)
EXTENDS CommandJobs, SafeApply

CONSTANTS
    TargetOf,   \* the row's target_value
    MayLose,    \* which started calls may lose their answer: a subset of {"apply", "check"}
    NoCall

VARIABLES
    applyCall,  \* the call apply_pending_commands waits for
    checkCall,  \* the call check_in_flight_commands waits for
    callCmd,    \* history: the command each call was made for
    owner,      \* history: the command whose apply started the last timer
    awaited,    \* history: the server was waiting for that call when it started it
    covered     \* history: commands whose apply started a timer

waits   == <<applyCall, checkCall, callCmd>>
history == <<owner, awaited, covered>>
vars    == <<jobsVars, deviceVars, waits, history>>

(* apply_command gives the row's ttl_seconds to `uci apply` as its timeout,  *)
(* and the server adds its 15 s to it before it gives a row up.             *)
ASSUME SystemAssumption ==
    /\ TargetOf \in [Commands -> Targets]
    /\ MayLose \subseteq {"apply", "check"}
    /\ NoCall \notin Calls
ASSUME WindowAssumption ==
    Grace > 0 /\ \A c \in Commands \ Reboots : TtlOf[c] = RollbackTtl

Init ==
    /\ JobsInit /\ DeviceInit
    /\ applyCall = NoCall /\ checkCall = NoCall
    /\ callCmd = [p \in Calls |-> NoCommand]
    /\ owner = NoCommand /\ awaited = FALSE /\ covered = {}

-----------------------------------------------------------------------------
(* ssh_client.run: the command is started on the device, or the connection   *)
(* fails and nothing reaches it.                                            *)

Unreached == UNCHANGED <<deviceVars, callCmd>>

SendApply(c) ==
    \/ applyCall' = NoCall /\ Unreached
    \/ \E p \in Calls : /\ StartApply(p, TargetOf[c])
                        /\ applyCall' = p
                        /\ callCmd' = [callCmd EXCEPT ![p] = c]

SendVerify(c) ==
    \/ checkCall' = NoCall /\ Unreached
    \/ \E p \in Calls : /\ StartVerify(p, TargetOf[c])
                        /\ checkCall' = p
                        /\ callCmd' = [callCmd EXCEPT ![p] = c]

(* A reboot command gives no exit status to wait for.                       *)
SendReboot == applyCall' = NoCall /\ Unreached

Dial ==
    \E c \in Commands :
        \/ /\ ApplyDial(c)
           /\ IF c \in Reboots THEN SendReboot ELSE SendApply(c)
           /\ UNCHANGED <<checkCall, history>>
        \/ CheckDial(c) /\ SendVerify(c) /\ UNCHANGED <<applyCall, history>>

Exited(p) == pc[p] \in ExitPcs

Returns ==
    \E p \in Calls :
        /\ Exited(p)
        /\ Report(p)
        /\ callCmd' = [callCmd EXCEPT ![p] = NoCommand]
        /\ \/ /\ p = applyCall /\ applyCall' = NoCall
              /\ ApplyReturns(pc[p] = "exit0")
              /\ UNCHANGED checkCall
           \/ /\ p = checkCall /\ checkCall' = NoCall
              /\ CheckReturns(pc[p] = "exit0")
              /\ UNCHANGED applyCall
           \/ p \notin {applyCall, checkCall} /\ UNCHANGED <<jobsVars, applyCall, checkCall>>
        /\ UNCHANGED history

(* No answer: the connection failed, or the call goes on without the server. *)
Lost ==
    \/ /\ ApplyLost
       /\ applyCall # NoCall => "apply" \in MayLose
       /\ IF applyTry = 1 /\ applyCmd \notin Reboots
            THEN SendApply(applyCmd)
            ELSE applyCall' = NoCall /\ Unreached
       /\ UNCHANGED <<checkCall, history>>
    \/ /\ CheckLost
       /\ checkCall # NoCall => "check" \in MayLose
       /\ IF checkTry = 1 THEN SendVerify(checkCmd)
                          ELSE checkCall' = NoCall /\ Unreached
       /\ UNCHANGED <<applyCall, history>>

(* The reboot command reaches the device, which ends every call on it.       *)
Obey ==
    /\ applyPc = "ssh" /\ applyCmd \in Reboots
    /\ Reboot
    /\ callCmd' = [p \in Calls |-> NoCommand]
    /\ checkCall' = NoCall
    /\ UNCHANGED <<jobsVars, applyCall, history>>

-----------------------------------------------------------------------------
(* The server's steps that do not touch the device.                         *)

ServerStep ==
    /\ \/ OptJob \/ Operator
       \/ ApplyFetch \/ ApplyWrite \/ ApplyEnd
       \/ CheckFetch \/ CheckWrite \/ CheckEnd
       \/ \E c \in Commands : CheckSkip(c)
    /\ UNCHANGED <<deviceVars, waits, history>>

ServerFault ==
    \/ OptAborts /\ UNCHANGED <<deviceVars, waits, history>>
    \/ /\ ApplyAborts /\ applyCall' = NoCall
       /\ UNCHANGED <<deviceVars, checkCall, callCmd, history>>
    \/ /\ CheckAborts /\ checkCall' = NoCall
       /\ UNCHANGED <<deviceVars, applyCall, callCmd, history>>
    \/ /\ ServerRestarts /\ applyCall' = NoCall /\ checkCall' = NoCall
       /\ UNCHANGED <<deviceVars, callCmd, history>>

(* The device's steps.                                                      *)
DeviceStep ==
    /\ \/ Device
       \/ \E p \in Calls : CallStep(p)
    /\ owner' = IF ~armed /\ armed' THEN callCmd[lock] ELSE owner
    /\ awaited' = IF ~armed /\ armed' THEN lock = applyCall ELSE awaited
    /\ covered' = IF ~armed /\ armed' THEN covered \cup {callCmd[lock]} ELSE covered
    /\ UNCHANGED <<jobsVars, waits>>

(* One clock: an applied row ages while rpcd's timer runs down.             *)
Tick ==
    /\ JobsTick \/ (Aging = {} /\ armed /\ UNCHANGED jobsVars)
    /\ IF armed THEN DeviceTick ELSE UNCHANGED deviceVars
    /\ UNCHANGED <<waits, history>>

Next == Dial \/ Returns \/ Lost \/ Obey \/ ServerStep \/ ServerFault \/ DeviceStep \/ Tick

Spec == Init /\ [][Next]_vars
-----------------------------------------------------------------------------
(* A command recorded as applied really went under the device's safety net:  *)
(* its apply armed the rollback timer before the call could exit 0.         *)
AppliedWasArmed ==
    [][\A c \in Commands :
          status[c] = "pending" /\ status'[c] = "applied"
            => c \in covered]_vars

(* When the server gives a command up as unknown, no rollback timer that the *)
(* apply it waited for had started is still running on the device ("should  *)
(* have reverted the change on its own by now").  An apply whose answer was  *)
(* lost, or that a restarted server forgot, may start one later than that.   *)
UnknownIsOver ==
    \A c \in Commands : status[c] = "unknown" /\ owner = c /\ awaited => ~armed

=============================================================================
