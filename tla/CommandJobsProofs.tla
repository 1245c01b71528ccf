------------------------- MODULE CommandJobsProofs -------------------------
(***************************************************************************)
(* What CommandJobs guarantees for every table of commands, every set of   *)
(* times and every number of faults: its types, that a job's rows are      *)
(* never stale, that the optimizer has one change per parameter in flight, *)
(* that "unknown" waits for the rollback window, and that the jobs         *)
(* implement CommandLedger.                                                *)
(***************************************************************************)
EXTENDS CommandJobs, FiniteSetTheorems, TLAPS

USE DEF Params, InFlight, Settled, Reboots, Tuned,
        Ledger!Params, Ledger!InFlight, Ledger!Settled, Ledger!Statuses,
        Ledger!Reboots, Ledger!Tuned

(* The number of inserted rows, from which created_at is ranked, is a       *)
(* natural number: the table holds finitely many rows.                      *)
LEMMA InsertedIsCounted == ASSUME CommandsAssumption PROVE Cardinality(Inserted) \in Nat
<1>1. IsFiniteSet(Inserted)
  BY FS_Subset DEF CommandsAssumption, Inserted
<1> QED BY <1>1, FS_CardinalityType

(* Every variable of the jobs keeps its type.                               *)
LEMMA JobsTypeStep ==
  ASSUME JobsTypeOK, [JobsNext]_jobsVars, CommandsAssumption, TimesAssumption
  PROVE  JobsTypeOK'
<1> USE DEF JobsTypeOK, rows, optVars, applyVars, checkVars, Links
<1>0. Cardinality(Inserted) + 1 \in Nat BY InsertedIsCounted
<1>1. CASE SetEnabled BY <1>1 DEF SetEnabled
<1>2. ASSUME NEW c \in Commands, QueueByHand(c) PROVE JobsTypeOK'
  BY <1>2, <1>0 DEF QueueByHand, Insert
<1>3. CASE OptBegin BY <1>3 DEF OptBegin
<1>4. ASSUME NEW c \in Commands, OptDecide(c) PROVE JobsTypeOK'
  BY <1>4 DEF OptDecide
<1>5. CASE OptInsert BY <1>5, <1>0 DEF OptInsert, Insert, OptNextLink
<1>6. CASE OptSkip BY <1>6 DEF OptSkip, OptNextLink
<1>7. CASE ApplyFetch BY <1>7 DEF ApplyFetch, PendingRows
<1>8. ASSUME NEW c \in Commands, ApplyDial(c) PROVE JobsTypeOK'
  BY <1>8 DEF ApplyDial
<1>9. ASSUME NEW ok \in BOOLEAN, ApplyReturns(ok) PROVE JobsTypeOK'
  BY <1>9 DEF ApplyReturns, ApplyNextRow
<1>10. CASE ApplyLost BY <1>10 DEF ApplyLost, ApplyNextRow
<1>11. CASE ApplyWrite
  <2>1. SentStatus(applyCmd) \in Ledger!Statuses BY DEF SentStatus
  <2>2. status' \in [Commands -> Ledger!Statuses] BY <1>11, <2>1 DEF ApplyWrite
  <2>3. age' \in [Commands -> Nat] BY <1>11 DEF ApplyWrite
  <2> QED BY <1>11, <2>2, <2>3 DEF ApplyWrite, ApplyNextRow
<1>12. CASE ApplyEnd BY <1>12 DEF ApplyEnd
<1>13. CASE CheckFetch BY <1>13 DEF CheckFetch
<1>14. ASSUME NEW c \in Commands, CheckSkip(c) PROVE JobsTypeOK'
  BY <1>14 DEF CheckSkip
<1>15. ASSUME NEW c \in Commands, CheckDial(c) PROVE JobsTypeOK'
  BY <1>15 DEF CheckDial
<1>16. ASSUME NEW ok \in BOOLEAN, CheckReturns(ok) PROVE JobsTypeOK'
  BY <1>16 DEF CheckReturns
<1>17. CASE CheckLost BY <1>17 DEF CheckLost
<1>18. CASE CheckWrite
  <2>1. checkCmd \in Commands
          => Verdict(checkCmd, checkSaw, checkAge[checkCmd]) \in Ledger!Statuses
    BY DEF Verdict
  <2>2. status' \in [Commands -> Ledger!Statuses] BY <1>18, <2>1 DEF CheckWrite
  <2> QED BY <1>18, <2>2 DEF CheckWrite
<1>19. CASE CheckEnd BY <1>19 DEF CheckEnd
<1>20. CASE JobsTick BY <1>20 DEF JobsTick, Aging
<1>21. CASE Faults
  BY <1>21 DEF Faults, Fault, OptAborts, ApplyAborts, CheckAborts, ServerRestarts,
               OptStops, ApplyStops, CheckStops
<1>22. CASE UNCHANGED jobsVars BY <1>22 DEF jobsVars
<1> QED
  BY <1>1, <1>2, <1>3, <1>4, <1>5, <1>6, <1>7, <1>8, <1>9, <1>10, <1>11, <1>12, <1>13,
     <1>14, <1>15, <1>16, <1>17, <1>18, <1>19, <1>20, <1>21, <1>22
  DEF JobsNext, OptJob, ApplyJob, CheckJob, Operator

(* Type correctness of the commands table and of the three jobs.            *)
THEOREM JobsTyping ==
  ASSUME CommandsAssumption, TimesAssumption PROVE JobsSpec => []JobsTypeOK
<1>1. JobsInit => JobsTypeOK BY DEF JobsInit, JobsTypeOK, Links
<1>2. JobsTypeOK /\ [JobsNext]_jobsVars => JobsTypeOK' BY JobsTypeStep
<1> QED BY <1>1, <1>2, PTL DEF JobsSpec

-----------------------------------------------------------------------------
LEMMA InvInit == ASSUME CommandsAssumption PROVE JobsInit => JobsInv
  BY DEF CommandsAssumption, JobsInit, JobsInv, RowsHeld, RowsAreFresh, OptimizerHeld,
         SingleFlight

(* An INSERT starts a row no job holds yet, so what the jobs hold is as it  *)
(* was.                                                                     *)
LEMMA InsertKeepsRows ==
  ASSUME JobsTypeOK, CommandsAssumption, RowsHeld, RowsAreFresh,
         NEW c \in Commands, status[c] = "none", Insert(c),
         UNCHANGED <<applyVars, checkVars>>
  PROVE  RowsHeld' /\ RowsAreFresh'
<1> USE DEF JobsTypeOK, Insert, applyVars, checkVars
<1>1. RowsHeld' BY DEF RowsHeld
<1>2. \A d \in applyRows \cup {applyCmd} :
          d # NoCommand => d # c /\ d \in Commands /\ status[d] = "pending"
  BY DEF RowsAreFresh
<1>3. \A d \in checkRows \cup {checkCmd} :
          d # NoCommand => d # c /\ d \in Commands /\ status[d] = "applied"
  BY DEF RowsAreFresh
<1>4. RowsAreFresh' BY <1>2, <1>3 DEF RowsAreFresh
<1> QED BY <1>1, <1>4

LEMMA InvStep ==
  ASSUME JobsTypeOK, JobsInv, [JobsNext]_jobsVars, CommandsAssumption, TimesAssumption
  PROVE  JobsInv'
<1> USE DEF rows, optVars, applyVars, checkVars
<1>0. NoCommand \notin Commands BY DEF CommandsAssumption
<1>1. CASE SetEnabled
  BY <1>1 DEF SetEnabled, JobsInv, RowsHeld, RowsAreFresh, OptimizerHeld, SingleFlight
<1>2. ASSUME NEW c \in Commands, QueueByHand(c) PROVE JobsInv'
  <2>1. RowsHeld' /\ RowsAreFresh'
    BY <1>2, InsertKeepsRows DEF QueueByHand, JobsInv
  <2>2. OptimizerHeld' /\ SingleFlight'
    BY <1>2 DEF QueueByHand, Insert, JobsInv, OptimizerHeld, SingleFlight, JobsTypeOK
  <2> QED BY <2>1, <2>2 DEF JobsInv
<1>3. CASE OptBegin \/ OptSkip
  BY <1>3 DEF OptBegin, OptSkip, JobsInv, RowsHeld, RowsAreFresh, OptimizerHeld, SingleFlight
<1>4. ASSUME NEW c \in Commands, OptDecide(c) PROVE JobsInv'
  <2>1. RowsHeld' /\ RowsAreFresh' /\ SingleFlight'
    BY <1>4 DEF OptDecide, JobsInv, RowsHeld, RowsAreFresh, SingleFlight
  <2>2. OptimizerHeld'
    BY <1>4 DEF OptDecide, HasPendingCommand, OptimizerHeld
  <2> QED BY <2>1, <2>2 DEF JobsInv
<1>5. CASE OptInsert
  <2>1. optCmd \in Commands /\ status[optCmd] = "none"
    BY <1>5 DEF OptInsert, JobsInv, OptimizerHeld
  <2>2. RowsHeld' /\ RowsAreFresh'
    BY <1>5, <2>1, InsertKeepsRows DEF OptInsert, JobsInv
  <2>3. OptimizerHeld' BY <1>5 DEF OptInsert, OptimizerHeld
  <2>4. SingleFlight'
    BY <1>5, <2>1 DEF OptInsert, Insert, JobsInv, OptimizerHeld, SingleFlight, JobsTypeOK
  <2> QED BY <2>2, <2>3, <2>4 DEF JobsInv
<1>6. ASSUME UNCHANGED <<status, optVars>> PROVE OptimizerHeld' /\ SingleFlight'
  BY <1>6 DEF JobsInv, OptimizerHeld, SingleFlight
<1>7. CASE ApplyFetch
  <2>1. RowsHeld' /\ RowsAreFresh'
    BY <1>7, <1>0 DEF ApplyFetch, PendingRows, JobsInv, RowsHeld, RowsAreFresh, JobsTypeOK
  <2> QED BY <1>6, <1>7, <2>1 DEF ApplyFetch, JobsInv
<1>8. ASSUME NEW c \in Commands, ApplyDial(c) PROVE JobsInv'
  <2>1. RowsHeld' /\ RowsAreFresh'
    BY <1>8, <1>0 DEF ApplyDial, JobsInv, RowsHeld, RowsAreFresh, JobsTypeOK
  <2> QED BY <1>6, <1>8, <2>1 DEF ApplyDial, JobsInv
<1>9. CASE ApplyLost \/ ApplyEnd \/ \E ok \in BOOLEAN : ApplyReturns(ok)
  <2>1. RowsHeld' /\ RowsAreFresh'
    BY <1>9, <1>0 DEF ApplyLost, ApplyEnd, ApplyReturns, ApplyNextRow, JobsInv,
                      RowsHeld, RowsAreFresh, JobsTypeOK
  <2> QED BY <1>6, <1>9, <2>1 DEF ApplyLost, ApplyEnd, ApplyReturns, JobsInv
<1>10. CASE ApplyWrite
  <2>1. applyCmd \in Commands /\ status[applyCmd] = "pending"
    BY <1>10 DEF ApplyWrite, JobsInv, RowsHeld, RowsAreFresh, JobsTypeOK
  <2>2. \A d \in checkRows \cup {checkCmd} : d # NoCommand => d # applyCmd
    BY <2>1 DEF JobsInv, RowsAreFresh
  <2>3. RowsHeld'
    BY <1>10, <2>2 DEF ApplyWrite, ApplyNextRow, JobsInv, RowsHeld, JobsTypeOK
  <2>4. RowsAreFresh'
    BY <1>10, <2>1, <2>2
    DEF ApplyWrite, ApplyNextRow, JobsInv, RowsHeld, RowsAreFresh, JobsTypeOK
  <2>5. OptimizerHeld' /\ SingleFlight'
    BY <1>10, <2>1 DEF ApplyWrite, SentStatus, JobsInv, OptimizerHeld, SingleFlight, JobsTypeOK
  <2> QED BY <2>3, <2>4, <2>5 DEF JobsInv
<1>11. CASE CheckFetch
  <2>1. RowsHeld' /\ RowsAreFresh'
    BY <1>11, <1>0 DEF CheckFetch, JobsInv, RowsHeld, RowsAreFresh, JobsTypeOK
  <2> QED BY <1>6, <1>11, <2>1 DEF CheckFetch, JobsInv
<1>12. ASSUME NEW c \in Commands, CheckSkip(c) \/ CheckDial(c) PROVE JobsInv'
  <2>1. RowsHeld' /\ RowsAreFresh'
    BY <1>12, <1>0 DEF CheckSkip, CheckDial, JobsInv, RowsHeld, RowsAreFresh, JobsTypeOK
  <2> QED BY <1>6, <1>12, <2>1 DEF CheckSkip, CheckDial, JobsInv
<1>13. CASE CheckLost \/ CheckEnd \/ \E ok \in BOOLEAN : CheckReturns(ok)
  <2>1. RowsHeld' /\ RowsAreFresh'
    BY <1>13 DEF CheckLost, CheckEnd, CheckReturns, JobsInv, RowsHeld, RowsAreFresh, JobsTypeOK
  <2> QED BY <1>6, <1>13, <2>1 DEF CheckLost, CheckEnd, CheckReturns, JobsInv
<1>14. CASE CheckWrite
  <2>1. checkCmd \in Commands /\ status[checkCmd] = "applied"
    BY <1>14 DEF CheckWrite, JobsInv, RowsHeld, RowsAreFresh, JobsTypeOK
  <2>2. \A d \in applyRows \cup {applyCmd} : d # NoCommand => d # checkCmd
    BY <2>1 DEF JobsInv, RowsAreFresh
  <2>3. RowsHeld' BY <1>14, <1>0 DEF CheckWrite, JobsInv, RowsHeld, JobsTypeOK
  <2>4. RowsAreFresh'
    BY <1>14, <2>1, <2>2 DEF CheckWrite, JobsInv, RowsHeld, RowsAreFresh, JobsTypeOK
  <2>5. Verdict(checkCmd, checkSaw, checkAge[checkCmd]) \in Settled \cup {"applied"}
    BY <2>1 DEF Verdict, JobsTypeOK
  <2>6. OptimizerHeld' /\ SingleFlight'
    BY <1>14, <2>1, <2>5 DEF CheckWrite, JobsInv, OptimizerHeld, SingleFlight, JobsTypeOK
  <2> QED BY <2>3, <2>4, <2>6 DEF JobsInv
<1>15. CASE JobsTick
  <2>1. RowsHeld'
    BY <1>15 DEF JobsTick, Aging, JobsInv, RowsHeld, JobsTypeOK
  <2>2. RowsAreFresh' BY <1>15 DEF JobsTick, JobsInv, RowsAreFresh
  <2> QED BY <1>6, <1>15, <2>1, <2>2 DEF JobsTick, JobsInv
<1>16. CASE Faults
  BY <1>16, <1>0
  DEF Faults, Fault, OptAborts, ApplyAborts, CheckAborts, ServerRestarts, OptStops,
      ApplyStops, CheckStops, JobsInv, RowsHeld, RowsAreFresh, OptimizerHeld, SingleFlight
<1>17. CASE UNCHANGED jobsVars
  BY <1>17 DEF jobsVars, JobsInv, RowsHeld, RowsAreFresh, OptimizerHeld, SingleFlight
<1> QED
  BY <1>1, <1>2, <1>3, <1>4, <1>5, <1>7, <1>8, <1>9, <1>10, <1>11, <1>12, <1>13, <1>14,
     <1>15, <1>16, <1>17
  DEF JobsNext, OptJob, ApplyJob, CheckJob, Operator

-----------------------------------------------------------------------------
(* The inductive invariant holds of every reachable state.                  *)
THEOREM JobsInvariance ==
  ASSUME CommandsAssumption, TimesAssumption PROVE JobsSpec => [](JobsTypeOK /\ JobsInv)
<1>1. JobsInit => JobsInv BY InvInit
<1>2. JobsTypeOK /\ JobsInv /\ [JobsNext]_jobsVars => JobsInv' BY InvStep
<1> QED BY <1>1, <1>2, JobsTyping, PTL DEF JobsSpec

(* apply_pending_commands and check_in_flight_commands only ever write a    *)
(* row whose status is still the one they read before their awaits.         *)
THEOREM FreshRows ==
  ASSUME CommandsAssumption, TimesAssumption PROVE JobsSpec => []RowsAreFresh
<1>1. JobsInv => RowsAreFresh BY DEF JobsInv
<1> QED BY <1>1, JobsInvariance, PTL

(* The optimizer never has two changes of one parameter in flight.          *)
THEOREM OneInFlight ==
  ASSUME CommandsAssumption, TimesAssumption PROVE JobsSpec => []SingleFlight
<1>1. JobsInv => SingleFlight BY DEF JobsInv
<1> QED BY <1>1, JobsInvariance, PTL

(* No command is written off as unknown before its rollback window is over. *)
THEOREM UnknownWaits ==
  ASSUME CommandsAssumption, TimesAssumption PROVE JobsSpec => UnknownAfterWindow
<1> DEFINE Waits == \A c \in Commands :
                       status[c] # "unknown" /\ status'[c] = "unknown" => age[c] >= TtlOf[c]
<1>1. ASSUME JobsTypeOK, JobsInv, [JobsNext]_jobsVars PROVE [Waits]_jobsVars
  <2> SUFFICES ASSUME NEW c \in Commands, status[c] # "unknown", status'[c] = "unknown"
               PROVE  age[c] >= TtlOf[c]
    OBVIOUS
  <2>1. CASE CheckWrite
    <3>1. c = checkCmd /\ Verdict(checkCmd, checkSaw, checkAge[checkCmd]) = "unknown"
      BY <1>1, <2>1 DEF CheckWrite, JobsTypeOK
    <3>2. checkAge[c] >= TtlOf[c] + Grace
      BY <1>1, <3>1 DEF Verdict, JobsTypeOK
    <3>3. checkAge[c] <= age[c]
      BY <1>1, <2>1, <3>1 DEF CheckWrite, JobsInv, RowsHeld, CommandsAssumption
    <3>4. age[c] \in Nat /\ checkAge[c] \in Nat /\ TtlOf[c] \in Nat /\ Grace \in Nat
      BY <1>1 DEF JobsTypeOK, TimesAssumption
    <3> QED BY <3>2, <3>3, <3>4
  <2>2. CASE ApplyWrite
    BY <1>1, <2>2 DEF ApplyWrite, SentStatus, JobsTypeOK
  <2>3. ASSUME NEW d, Insert(d) PROVE FALSE
    BY <1>1, <2>3 DEF Insert, JobsTypeOK
  <2>4. CASE UNCHANGED status
    BY <2>4
  <2> QED
    BY <1>1, <2>1, <2>2, <2>3, <2>4
    DEF JobsNext, OptJob, ApplyJob, CheckJob, Operator, Faults, Fault, jobsVars, rows,
        OptInsert, QueueByHand, SetEnabled, OptBegin, OptDecide, OptSkip, ApplyFetch, ApplyDial,
        ApplyReturns,
        ApplyLost, ApplyEnd, CheckFetch, CheckSkip, CheckDial, CheckReturns, CheckLost,
        CheckEnd, JobsTick, OptAborts, ApplyAborts, CheckAborts, ServerRestarts
<1> QED BY <1>1, JobsInvariance, PTL DEF UnknownAfterWindow, JobsSpec

-----------------------------------------------------------------------------
(* Every step of the jobs is a step of the ledger, or leaves it alone.      *)
LEMMA LedgerStep ==
  ASSUME JobsTypeOK, JobsInv, [JobsNext]_jobsVars, CommandsAssumption, TimesAssumption
  PROVE  [Ledger!LedgerNext]_status
<1>1. ASSUME NEW c \in Commands, QueueByHand(c) PROVE Ledger!Issue(c)
  BY <1>1 DEF QueueByHand, Insert, Ledger!Issue
<1>2. CASE OptInsert
  <2>1. optCmd \in Commands BY <1>2 DEF OptInsert, JobsTypeOK
  <2>2. Ledger!Issue(optCmd)
    BY <1>2 DEF OptInsert, Insert, JobsInv, OptimizerHeld, Ledger!Issue
  <2> QED BY <2>1, <2>2 DEF Ledger!LedgerNext
<1>3. CASE ApplyWrite
  <2>1. applyCmd \in Commands /\ status[applyCmd] = "pending"
    BY <1>3 DEF ApplyWrite, JobsInv, RowsHeld, RowsAreFresh, JobsTypeOK
  <2>2. Ledger!Apply(applyCmd)
    BY <1>3, <2>1 DEF ApplyWrite, SentStatus, Ledger!Apply
  <2> QED BY <2>1, <2>2 DEF Ledger!LedgerNext
<1>4. CASE CheckWrite
  <2>1. checkCmd \in Commands /\ status[checkCmd] = "applied"
    BY <1>4 DEF CheckWrite, JobsInv, RowsHeld, RowsAreFresh, JobsTypeOK
  <2> DEFINE v == Verdict(checkCmd, checkSaw, checkAge[checkCmd])
  <2>2. v \in Settled \cup {"applied"}
    BY <2>1 DEF Verdict, JobsTypeOK
  <2>3. CASE v \in Settled
    <3>1. Ledger!Settle(checkCmd)
      BY <1>4, <2>1, <2>3 DEF CheckWrite, Ledger!Settle
    <3> QED BY <2>1, <3>1 DEF Ledger!LedgerNext
  <2>4. CASE v = "applied"
    <3>1. status' = status
      BY <1>4, <2>1, <2>4 DEF CheckWrite, JobsTypeOK
    <3> QED BY <3>1
  <2> QED BY <2>2, <2>3, <2>4
<1>5. CASE UNCHANGED status
  BY <1>5
<1> QED
  BY <1>1, <1>2, <1>3, <1>4, <1>5
  DEF Ledger!LedgerNext, JobsNext, OptJob, ApplyJob, CheckJob, Operator, Faults, Fault, jobsVars,
      rows, SetEnabled, OptBegin, OptDecide, OptSkip, ApplyFetch, ApplyDial, ApplyReturns,
      ApplyLost, ApplyEnd, CheckFetch, CheckSkip, CheckDial, CheckReturns, CheckLost,
      CheckEnd, JobsTick, OptAborts, ApplyAborts, CheckAborts, ServerRestarts

(* The three jobs, interleaved at every await and restarted at any moment,  *)
(* implement the ledger.                                                    *)
THEOREM Refinement ==
  ASSUME CommandsAssumption, TimesAssumption PROVE JobsSpec => LedgerSpec
<1>1. JobsInit => Ledger!LedgerInit BY DEF JobsInit, Ledger!LedgerInit
<1>2. JobsTypeOK /\ JobsInv /\ [JobsNext]_jobsVars => [Ledger!LedgerNext]_status BY LedgerStep
<1> QED BY <1>1, <1>2, JobsInvariance, PTL DEF JobsSpec, LedgerSpec, Ledger!LedgerSpec
-----------------------------------------------------------------------------
(* What AppliedSettles rests on, but for the fairness: a pass over the rows   *)
(* comes to its end, and a pass that does leaves no row whose window is over. *)

(* The pass has seen of this row that its retry window is closed.            *)
Due(c) ==
    checkAge[c] > 0 /\ checkAge[c] >= VerifyDelay /\ checkAge[c] >= TtlOf[c] + Grace

NoneOverlooked ==
    \A c \in Commands : Due(c) =>
        \/ c \in checkRows
        \/ checkPc \in {"ssh", "write"} /\ c = checkCmd
        \/ status[c] \in Settled

(* A pass of check_in_flight_commands that runs to its end has settled every  *)
(* row that was due when it began, whatever was lost and whatever the other   *)
(* jobs wrote meanwhile.                                                     *)
DueIsSettled ==
    [][CheckEnd => \A c \in Commands : Due(c) => status[c] \in Settled]_jobsVars

LEMMA NoneOverlookedStep ==
  ASSUME JobsTypeOK, JobsInv, NoneOverlooked, [JobsNext]_jobsVars,
         CommandsAssumption, TimesAssumption
  PROVE  NoneOverlooked'
<1> USE DEF rows, optVars, applyVars, checkVars, NoneOverlooked, Due
<1>1. CASE UNCHANGED checkVars
  <2>1. \A c \in Commands : status[c] \in Settled => status'[c] = status[c]
    <3>1. [Ledger!LedgerNext]_status BY LedgerStep
    <3> QED
      BY <3>1 DEF Ledger!LedgerNext, Ledger!Issue, Ledger!Apply, Ledger!Settle, JobsTypeOK
  <2> QED BY <1>1, <2>1
<1>2. CASE CheckFetch
  <2>1. \A c \in Commands : c \notin checkRows' => checkAge'[c] = 0 BY <1>2 DEF CheckFetch
  <2>2. \A c \in Commands : Due(c)' => c \in checkRows' BY <2>1
  <2> HIDE DEF Due
  <2> QED BY <2>2
<1>3. ASSUME NEW c \in Commands, CheckSkip(c) PROVE NoneOverlooked'
  BY <1>3 DEF CheckSkip, JobsTypeOK, TimesAssumption
<1>4. ASSUME NEW c \in Commands, CheckDial(c) PROVE NoneOverlooked'
  <2>1. /\ checkPc = "row" /\ checkPc' = "ssh" /\ checkRows' = checkRows \ {c}
        /\ checkCmd' = c /\ UNCHANGED <<checkAge, status>>
    BY <1>4 DEF CheckDial
  <2>2. \A d \in Commands : Due(d)' => Due(d) BY <2>1
  <2>3. \A d \in Commands : Due(d) => d \in checkRows \/ status[d] \in Settled BY <2>1
  <2> HIDE DEF Due
  <2> QED BY <2>1, <2>2, <2>3
<1>5. CASE CheckLost \/ \E ok \in BOOLEAN : CheckReturns(ok)
  BY <1>5 DEF CheckLost, CheckReturns
<1>6. CASE CheckWrite
  <2>1. Due(checkCmd) => Verdict(checkCmd, checkSaw, checkAge[checkCmd]) \in Settled
    BY DEF Verdict, JobsTypeOK
  <2>2. checkCmd \in Commands BY <1>6 DEF CheckWrite, JobsInv, RowsHeld, JobsTypeOK
  <2> QED BY <1>6, <2>1, <2>2 DEF CheckWrite, JobsTypeOK
<1>7. CASE CheckEnd \/ CheckStops
  <2>1. checkAge' = [c \in Commands |-> 0] BY <1>7 DEF CheckEnd, CheckStops
  <2> QED BY <2>1
<1> QED
  BY <1>1, <1>2, <1>3, <1>4, <1>5, <1>6, <1>7
  DEF JobsNext, OptJob, ApplyJob, CheckJob, Operator, Faults, Fault, jobsVars,
      SetEnabled, QueueByHand, OptBegin, OptDecide, OptInsert, OptSkip, ApplyFetch, ApplyDial,
      ApplyReturns, ApplyLost, ApplyWrite, ApplyEnd, JobsTick, OptAborts, ApplyAborts,
      CheckAborts, ServerRestarts

(* No command whose window is over is left in flight by a whole pass.        *)
THEOREM PassSettlesDue ==
  ASSUME CommandsAssumption, TimesAssumption PROVE JobsSpec => DueIsSettled
<1>1. JobsInit => NoneOverlooked BY DEF JobsInit, NoneOverlooked, Due
<1>2. JobsTypeOK /\ JobsInv /\ NoneOverlooked /\ [JobsNext]_jobsVars => NoneOverlooked'
  BY NoneOverlookedStep
<1>3. NoneOverlooked => [CheckEnd => \A c \in Commands : Due(c) => status[c] \in Settled]_jobsVars
  BY DEF NoneOverlooked, CheckEnd
<1> QED BY <1>1, <1>2, <1>3, JobsInvariance, PTL DEF JobsSpec, DueIsSettled

(* How many steps a pass may still take: four for a row it has not come to.   *)
PassLeft(place, left, try) ==
    IF place = "idle" THEN 0
    ELSE 4 * Cardinality(left) + (CASE place = "ssh" -> 5 - try [] place = "write" -> 2
                                    [] OTHER -> 1)

ApplyLeft == PassLeft(applyPc, applyRows, applyTry)
CheckLeft == PassLeft(checkPc, checkRows, checkTry)

(* Every step of a pass, and every fault, brings it nearer to its end: no row *)
(* that comes in meanwhile prolongs it, and none is sent a third time.        *)
PassesGoOn ==
    [][/\ applyPc # "idle" => UNCHANGED applyVars \/ ApplyLeft' < ApplyLeft
       /\ checkPc # "idle" => UNCHANGED checkVars \/ CheckLeft' < CheckLeft]_jobsVars

LEMMA OneRowLess ==
  ASSUME CommandsAssumption, NEW s, s \subseteq Commands
  PROVE  /\ Cardinality(s) \in Nat
         /\ \A c \in s : Cardinality(s \ {c}) = Cardinality(s) - 1
<1>1. IsFiniteSet(s) BY FS_Subset DEF CommandsAssumption
<1> QED BY <1>1, FS_CardinalityType, FS_RemoveElement

LEMMA ApplyPassStep ==
  ASSUME JobsTypeOK, JobsNext, applyPc # "idle", CommandsAssumption
  PROVE  UNCHANGED applyVars \/ ApplyLeft' < ApplyLeft
<1> USE DEF JobsTypeOK, applyVars, ApplyLeft, PassLeft
<1>0. Cardinality(applyRows) \in Nat BY OneRowLess
<1>1. CASE UNCHANGED applyVars BY <1>1
<1>2. ASSUME NEW c \in Commands, ApplyDial(c) PROVE ApplyLeft' < ApplyLeft
  <2>1. Cardinality(applyRows') = Cardinality(applyRows) - 1 BY <1>2, OneRowLess DEF ApplyDial
  <2>2. applyPc = "row" /\ applyPc' = "ssh" /\ applyTry' = 1 BY <1>2 DEF ApplyDial
  <2> QED BY <1>0, <2>1, <2>2
<1>3. CASE ApplyLost \/ ApplyWrite \/ \E ok \in BOOLEAN : ApplyReturns(ok)
  BY <1>0, <1>3 DEF ApplyLost, ApplyWrite, ApplyReturns, ApplyNextRow
<1>4. CASE ApplyEnd \/ ApplyStops
  <2>1. ApplyLeft' = 0 BY <1>4 DEF ApplyEnd, ApplyStops
  <2>2. ApplyLeft > 0 BY <1>0
  <2> QED BY <2>1, <2>2
<1> QED
  BY <1>1, <1>2, <1>3, <1>4
  DEF JobsNext, OptJob, ApplyJob, CheckJob, Operator, Faults, SetEnabled, QueueByHand, OptBegin,
      OptDecide, OptInsert, OptSkip, ApplyFetch, CheckFetch, CheckSkip, CheckDial, CheckReturns,
      CheckLost, CheckWrite, CheckEnd, JobsTick, OptAborts, ApplyAborts, CheckAborts, ServerRestarts

LEMMA CheckPassStep ==
  ASSUME JobsTypeOK, JobsNext, checkPc # "idle", CommandsAssumption
  PROVE  UNCHANGED checkVars \/ CheckLeft' < CheckLeft
<1> USE DEF JobsTypeOK, checkVars, CheckLeft, PassLeft
<1>0. Cardinality(checkRows) \in Nat BY OneRowLess
<1>1. CASE UNCHANGED checkVars BY <1>1
<1>2. ASSUME NEW c \in Commands, CheckSkip(c) \/ CheckDial(c) PROVE CheckLeft' < CheckLeft
  <2>1. Cardinality(checkRows') = Cardinality(checkRows) - 1
    BY <1>2, OneRowLess DEF CheckSkip, CheckDial
  <2>2. \/ checkPc = "row" /\ checkPc' = "row"
        \/ checkPc = "row" /\ checkPc' = "ssh" /\ checkTry' = 1
    BY <1>2 DEF CheckSkip, CheckDial
  <2> QED BY <1>0, <2>1, <2>2
<1>3. CASE CheckLost \/ CheckWrite \/ \E ok \in BOOLEAN : CheckReturns(ok)
  BY <1>0, <1>3 DEF CheckLost, CheckWrite, CheckReturns
<1>4. CASE CheckEnd \/ CheckStops
  <2>1. CheckLeft' = 0 BY <1>4 DEF CheckEnd, CheckStops
  <2>2. CheckLeft > 0 BY <1>0
  <2> QED BY <2>1, <2>2
<1> QED
  BY <1>1, <1>2, <1>3, <1>4
  DEF JobsNext, OptJob, ApplyJob, CheckJob, Operator, Faults, SetEnabled, QueueByHand, OptBegin,
      OptDecide, OptInsert, OptSkip, ApplyFetch, ApplyDial, ApplyReturns, ApplyLost, ApplyWrite,
      ApplyEnd, CheckFetch, JobsTick, OptAborts, ApplyAborts, CheckAborts, ServerRestarts

(* Every pass of the two SSH jobs runs down, whatever the devices answer.     *)
THEOREM PassesRunDown ==
  ASSUME CommandsAssumption, TimesAssumption PROVE JobsSpec => PassesGoOn
<1>1. JobsTypeOK /\ [JobsNext]_jobsVars =>
        [/\ applyPc # "idle" => UNCHANGED applyVars \/ ApplyLeft' < ApplyLeft
         /\ checkPc # "idle" => UNCHANGED checkVars \/ CheckLeft' < CheckLeft]_jobsVars
  BY ApplyPassStep, CheckPassStep
<1> QED BY <1>1, JobsTyping, PTL DEF JobsSpec, PassesGoOn
=============================================================================
