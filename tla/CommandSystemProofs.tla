------------------------- MODULE CommandSystemProofs -------------------------
(***************************************************************************)
(* What the device's side of a command guarantees (SafeApply), for any     *)
(* number of overlapping calls, any channels and any rollback timeout, and *)
(* what it and the server's jobs guarantee together (CommandSystem).        *)
(***************************************************************************)
EXTENDS CommandSystem, CommandJobsProofs, TLAPS

(* SafeApply, calls being killed and the device restarting at any moment:    *)
(* the timer covers every unconfirmed change, a staged change has an owner, *)
(* and a reload takes the radio only to a covered channel, but for the one  *)
(* fault that breaks each of them.                                          *)

USE DEF ApplyPcs, VerifyPcs, ExitPcs, Critical, Targets, LockIsOpen, AfterArmFails, config,
        scars

(* The steps of one call, as one case each.                                 *)
LEMMA DeviceTypeStep ==
  ASSUME DeviceTypeOK, [DeviceNext]_deviceVars,
         ChannelsAssumption, LockAssumption, SwitchesAssumption
  PROVE  DeviceTypeOK'
<1> USE DEF DeviceTypeOK, ChannelsAssumption, SwitchesAssumption
<1>0. 0 \in 0..RollbackTtl /\ RollbackTtl \in 0..RollbackTtl OBVIOUS
<1>1. Effective \in Channels BY DEF Effective
<1>2. ASSUME NEW p \in Calls, ApplyStep(p) PROVE DeviceTypeOK'
  <2>1. CASE AcquireLock(p) BY <2>1 DEF AcquireLock, GoTo
  <2>2. CASE LockTimeout(p) \/ ReclaimLock(p) \/ RefuseTarget(p)
    BY <2>2 DEF LockTimeout, ReclaimLock, RefuseTarget, Exit, GoTo
  <2>3. CASE Stage(p) BY <2>3 DEF Stage, GoTo
  <2>4. CASE Arm(p) BY <2>4, <1>1 DEF Arm, GoTo
  <2>5. CASE ArmFails(p) \/ RevertStaged(p)
    BY <2>5 DEF ArmFails, RevertStaged, Exit, GoTo
  <2>6. CASE Reload(p) BY <2>6, <1>1 DEF Reload, Exit, GoTo
  <2> QED BY <1>2, <2>1, <2>2, <2>3, <2>4, <2>5, <2>6 DEF ApplyStep
<1>3. ASSUME NEW p \in Calls, VerifyStep(p) PROVE DeviceTypeOK'
  <2>1. CASE VerifyRead(p) \/ VerifyFails(p)
    BY <2>1 DEF VerifyRead, VerifyFails, Exit, GoTo
  <2>2. CASE Confirm(p) BY <2>2, <1>0 DEF Confirm, Exit, GoTo
  <2> QED BY <1>3, <2>1, <2>2 DEF VerifyStep
<1>4. ASSUME NEW p \in Calls, Report(p) \/ Kill(p) PROVE DeviceTypeOK'
  BY <1>4 DEF Report, Kill, GoTo
<1>5. ASSUME NEW p \in Calls, NEW t \in Targets, StartApply(p, t) \/ StartVerify(p, t)
      PROVE  DeviceTypeOK'
  BY <1>5 DEF StartApply, StartVerify, Start, GoTo
<1>6. CASE Device BY <1>6, <1>1 DEF Device, Rollback, RadioFails, RecoverRadio
<1>7. CASE DeviceTick BY <1>7 DEF DeviceTick
<1>8. CASE Reboot BY <1>8, <1>0 DEF Reboot
<1>9. CASE UNCHANGED deviceVars BY <1>9 DEF deviceVars
<1> QED
  BY <1>2, <1>3, <1>4, <1>5, <1>6, <1>7, <1>8, <1>9 DEF DeviceNext, CallStep

(* Type correctness of the device.                                          *)
THEOREM DeviceTyping ==
  ASSUME ChannelsAssumption, LockAssumption, SwitchesAssumption
  PROVE  DeviceSpec => []DeviceTypeOK
<1>0. 0 \in 0..RollbackTtl BY DEF SwitchesAssumption
<1>1. DeviceInit => DeviceTypeOK BY <1>0 DEF DeviceInit, DeviceTypeOK, ChannelsAssumption
<1>2. DeviceTypeOK /\ [DeviceNext]_deviceVars => DeviceTypeOK' BY DeviceTypeStep
<1> QED BY <1>1, <1>2, PTL DEF DeviceSpec

-----------------------------------------------------------------------------
(* Only `uci apply`, `uci confirm` and the timer touch the committed option, *)
(* and each keeps it covered; a reboot takes a running timer with it.       *)
LEMMA CoverStep ==
  ASSUME ChangeIsCovered, [DeviceNext]_deviceVars PROVE ChangeIsCovered'
<1> USE DEF ChangeIsCovered
<1>1. ASSUME NEW p \in Calls, Arm(p) PROVE ChangeIsCovered' BY <1>1 DEF Arm
<1>2. ASSUME NEW p \in Calls, Confirm(p) PROVE ChangeIsCovered' BY <1>2 DEF Confirm
<1>3. CASE Rollback BY <1>3 DEF Rollback
<1>4. CASE Reboot BY <1>4 DEF Reboot
<1>6. CASE UNCHANGED <<uci, armed, snapshot, good, exposed>> BY <1>6
<1>5. [DeviceNext]_deviceVars => \/ \E p \in Calls : Arm(p) \/ Confirm(p)
                     \/ Rollback \/ Reboot
                     \/ UNCHANGED <<uci, armed, snapshot, good, exposed>>
  BY DEF DeviceNext, CallStep, ApplyStep, VerifyStep, Device, AcquireLock, LockTimeout,
         ReclaimLock,
      Stage, RefuseTarget, ArmFails, RevertStaged, Reload, VerifyRead, VerifyFails,
      Report, Kill, StartApply, StartVerify, Start, RadioFails, RecoverRadio, DeviceTick,
      deviceVars
<1> QED BY <1>1, <1>2, <1>3, <1>4, <1>5, <1>6

(* The safety net of cmd_apply holds until a reboot falls into its window.   *)
THEOREM Covered == DeviceSpec => []ChangeIsCovered
<1>1. DeviceInit => ChangeIsCovered BY DEF DeviceInit, ChangeIsCovered
<1>2. ChangeIsCovered /\ [DeviceNext]_deviceVars => ChangeIsCovered' BY CoverStep
<1> QED BY <1>1, <1>2, PTL DEF DeviceSpec

-----------------------------------------------------------------------------
(* The lock's owner is the only call in its critical section, and it removes *)
(* what it staged before it leaves; the device may restart.                 *)
LEMMA OwnedStep ==
  ASSUME DeviceTypeOK, StagedIsOwned, [DeviceNext]_deviceVars, LockAssumption
  PROVE  StagedIsOwned'
<1> USE DEF DeviceTypeOK, StagedIsOwned, LockAssumption
<1>1. ASSUME NEW p \in Calls, ApplyStep(p) PROVE StagedIsOwned'
  <2>1. CASE AcquireLock(p) BY <2>1 DEF AcquireLock, GoTo
  <2>2. CASE LockTimeout(p) BY <2>2 DEF LockTimeout, Exit, GoTo
  <2>3. CASE ReclaimLock(p) BY <2>3 DEF ReclaimLock
  <2>4. CASE Stage(p) BY <2>4 DEF Stage, GoTo
  <2>5. CASE RefuseTarget(p) BY <2>5 DEF RefuseTarget, Exit, GoTo
  <2>6. CASE Arm(p) BY <2>6 DEF Arm, GoTo
  <2>7. CASE ArmFails(p) BY <2>7 DEF ArmFails, GoTo
  <2>8. CASE RevertStaged(p) BY <2>8 DEF RevertStaged, Exit, GoTo
  <2>9. CASE Reload(p) BY <2>9 DEF Reload, Exit, GoTo
  <2> QED
    BY <1>1, <2>1, <2>2, <2>3, <2>4, <2>5, <2>6, <2>7, <2>8, <2>9 DEF ApplyStep
<1>2. ASSUME NEW p \in Calls, VerifyStep(p) PROVE StagedIsOwned'
  BY <1>2 DEF VerifyStep, VerifyRead, VerifyFails, Confirm, Exit, GoTo
<1>3. ASSUME NEW p \in Calls, Report(p) \/ Kill(p) PROVE StagedIsOwned'
  BY <1>3 DEF Report, Kill, GoTo
<1>4. ASSUME NEW p \in Calls, NEW t \in Targets, StartApply(p, t) \/ StartVerify(p, t)
      PROVE  StagedIsOwned'
  BY <1>4 DEF StartApply, StartVerify, Start, GoTo
<1>5. CASE Device \/ DeviceTick
  BY <1>5 DEF Device, Rollback, RadioFails, RecoverRadio, DeviceTick
<1>6. CASE Reboot BY <1>6 DEF Reboot
<1>7. CASE UNCHANGED deviceVars BY <1>7 DEF deviceVars
<1> QED
  BY <1>1, <1>2, <1>3, <1>4, <1>5, <1>6, <1>7 DEF DeviceNext, CallStep

(* Nothing is left staged when no call is at work, but by a killed one.      *)
THEOREM Owned ==
  ASSUME ChannelsAssumption, LockAssumption, SwitchesAssumption
  PROVE  DeviceSpec => []StagedIsOwned
<1>1. DeviceInit => StagedIsOwned BY DEF DeviceInit, StagedIsOwned
<1>2. DeviceTypeOK /\ StagedIsOwned /\ [DeviceNext]_deviceVars => StagedIsOwned' BY OwnedStep
<1> QED BY <1>1, <1>2, DeviceTyping, PTL DEF DeviceSpec

-----------------------------------------------------------------------------
(* A call that owns the lock is inside: what acquire_radio_lock opens only    *)
(* an exit or a kill closes, and both take the lock away from the call.       *)
OwnerIsInside == \A p \in Calls : lock = p => pc[p] \in Critical

LEMMA InsideStep ==
  ASSUME DeviceTypeOK, OwnerIsInside, [DeviceNext]_deviceVars, LockAssumption
  PROVE  OwnerIsInside'
<1> USE DEF DeviceTypeOK, OwnerIsInside, LockAssumption
<1>1. ASSUME NEW p \in Calls, ApplyStep(p) PROVE OwnerIsInside'
  <2>1. CASE AcquireLock(p) BY <2>1 DEF AcquireLock, GoTo
  <2>2. CASE LockTimeout(p) \/ RefuseTarget(p) \/ RevertStaged(p) \/ Reload(p)
    BY <2>2 DEF LockTimeout, RefuseTarget, RevertStaged, Reload, Exit, GoTo
  <2>3. CASE ReclaimLock(p) BY <2>3 DEF ReclaimLock
  <2>4. CASE Stage(p) \/ Arm(p) \/ ArmFails(p) BY <2>4 DEF Stage, Arm, ArmFails, GoTo
  <2> QED BY <1>1, <2>1, <2>2, <2>3, <2>4 DEF ApplyStep
<1>2. ASSUME NEW p \in Calls, VerifyStep(p) PROVE OwnerIsInside'
  BY <1>2 DEF VerifyStep, VerifyRead, VerifyFails, Confirm, Exit, GoTo
<1>3. ASSUME NEW p \in Calls, Report(p) \/ Kill(p) PROVE OwnerIsInside'
  BY <1>3 DEF Report, Kill, GoTo
<1>4. ASSUME NEW p \in Calls, NEW t \in Targets, StartApply(p, t) \/ StartVerify(p, t)
      PROVE  OwnerIsInside'
  BY <1>4 DEF StartApply, StartVerify, Start, GoTo
<1>5. CASE Device \/ DeviceTick \/ Reboot
  BY <1>5 DEF Device, Rollback, RadioFails, RecoverRadio, DeviceTick, Reboot
<1>6. CASE UNCHANGED deviceVars BY <1>6 DEF deviceVars
<1> QED BY <1>1, <1>2, <1>3, <1>4, <1>5, <1>6 DEF DeviceNext, CallStep

(* Who is inside changes only with the owner.                                *)
LEMMA CallStepMaps ==
  ASSUME DeviceTypeOK, DeviceTypeOK', StagedIsOwned, StagedIsOwned', OwnerIsInside,
         OwnerIsInside', [DeviceNext]_deviceVars, LockAssumption
  PROVE  [Exclusive!ExclusiveNext]_<<lock, {p \in Calls : pc[p] \in Critical}, lock = Dead>>
<1> DEFINE within == {p \in Calls : pc[p] \in Critical}
<1> USE DEF DeviceTypeOK, LockAssumption
<1>1. within = IF lock \in Calls THEN {lock} ELSE {} BY DEF StagedIsOwned, OwnerIsInside
<1>2. within' = IF lock' \in Calls THEN {lock'} ELSE {} BY DEF StagedIsOwned, OwnerIsInside
<1>3. CASE lock' = lock BY <1>1, <1>2, <1>3
<1>4. CASE lock = Dead \/ lock' = Dead BY <1>4 DEF Exclusive!ExclusiveNext
<1>5. ASSUME NEW p \in Calls, lock = Free, lock' = p PROVE Exclusive!Take(p)
  BY <1>1, <1>2, <1>5 DEF Exclusive!Take
<1>6. ASSUME NEW p \in Calls, lock = p, lock' = Free PROVE Exclusive!Release(p)
  BY <1>1, <1>2, <1>6 DEF Exclusive!Release
<1>7. ASSUME NEW p \in Calls, lock = p, lock' \in Calls PROVE lock' = lock
  BY <1>7 DEF DeviceNext, CallStep, ApplyStep, VerifyStep, Device, AcquireLock, LockTimeout,
      ReclaimLock, Stage, RefuseTarget, Arm, ArmFails, RevertStaged, Reload, VerifyRead,
      VerifyFails, Confirm, Exit, Report, Kill, StartApply, StartVerify, Start, Rollback,
      RadioFails, RecoverRadio, DeviceTick, Reboot, deviceVars
<1> QED BY <1>3, <1>4, <1>5, <1>6, <1>7 DEF Exclusive!ExclusiveNext

(* The calls of a device use the lock as ExclusiveLock promises it, and as   *)
(* AgentProofs shows the shell commands to provide it.                       *)
THEOREM CallsImplement ==
  ASSUME ChannelsAssumption, LockAssumption, SwitchesAssumption
  PROVE  DeviceSpec => CallsExclude
<1>1. DeviceInit => OwnerIsInside BY DEF DeviceInit, OwnerIsInside, LockAssumption
<1>2. DeviceTypeOK /\ OwnerIsInside /\ [DeviceNext]_deviceVars => OwnerIsInside'
  BY InsideStep
<1>3. DeviceInit => Exclusive!ExclusiveInit
  BY DEF DeviceInit, Exclusive!ExclusiveInit, LockAssumption
<1>4. /\ DeviceTypeOK /\ DeviceTypeOK' /\ StagedIsOwned /\ StagedIsOwned'
      /\ OwnerIsInside /\ OwnerIsInside' /\ [DeviceNext]_deviceVars
      => [Exclusive!ExclusiveNext]_<<lock, {p \in Calls : pc[p] \in Critical}, lock = Dead>>
  BY CallStepMaps
<1> QED
  BY <1>1, <1>2, <1>3, <1>4, DeviceTyping, Owned, PTL
  DEF DeviceSpec, CallsExclude, Exclusive!ExclusiveSpec

-----------------------------------------------------------------------------
(* A reload by the lock's owner, or by the recovery, finds nothing staged but *)
(* what a killed call left.                                                 *)
LEMMA ReloadsCommitted ==
  ASSUME DeviceTypeOK, StagedIsOwned, LockAssumption,
         RecoverRadio \/ \E p \in Calls : Reload(p)
  PROVE  Effective = uci \/ littered
<1>1. staged = None \/ littered
  <2>1. CASE RecoverRadio BY <2>1 DEF RecoverRadio, StagedIsOwned, LockAssumption
  <2>2. ASSUME NEW p \in Calls, Reload(p) PROVE staged = None \/ littered
    BY <2>2 DEF Reload, StagedIsOwned, DeviceTypeOK
  <2> QED BY <2>1, <2>2
<1> QED BY <1>1 DEF Effective

(* The option moves with `uci apply`, `uci confirm`, the timer and a reboot;  *)
(* every other step moves the radio alone, if anything.                      *)
LEMMA PromiseStep ==
  ASSUME DeviceTypeOK, DeviceTypeOK', StagedIsOwned, [DeviceNext]_deviceVars,
         ChannelsAssumption, LockAssumption, SwitchesAssumption
  PROVE  [Promise!SafeNext]_<<uci, IF armed THEN snapshot ELSE uci, armed, live, littered>>
<1> DEFINE back == IF armed THEN snapshot ELSE uci
           Alone == UNCHANGED <<uci, snapshot, armed>>
<1> USE DEF DeviceTypeOK, Promise!SafeNext, Promise!Follows
<1>1. live' \in Channels \cup {Down} OBVIOUS
<1>2. ASSUME NEW p \in Calls, Arm(p) PROVE Promise!SafeNext
  <2>1. uci' \in Channels OBVIOUS
  <2> QED BY <1>2, <2>1 DEF Arm, Promise!Put
<1>3. ASSUME NEW p \in Calls, Confirm(p) PROVE Promise!SafeNext
  BY <1>3 DEF Confirm, Promise!Keep, Promise!Move
<1>4. CASE Rollback BY <1>4 DEF Rollback, Promise!Undo
<1>5. CASE Reboot BY <1>5 DEF Reboot, Promise!Keep, Promise!Move
<1>6. CASE RecoverRadio \/ \E p \in Calls : Reload(p)
  <2>1. live' \in {live, Effective, Down} /\ Alone /\ UNCHANGED littered
    BY <1>6 DEF RecoverRadio, Reload
  <2>2. Effective = uci \/ littered BY <1>6, ReloadsCommitted
  <2> QED BY <2>1, <2>2 DEF Promise!Move
<1>7. CASE Alone /\ live' \in {live, Down} /\ (littered => littered')
  BY <1>7 DEF Promise!Move
<1>8. \/ \E p \in Calls : Arm(p) \/ Confirm(p) \/ Reload(p)
      \/ Rollback \/ Reboot \/ RecoverRadio
      \/ Alone /\ live' \in {live, Down} /\ (littered => littered')
  BY DEF DeviceNext, CallStep, ApplyStep, VerifyStep, Device, AcquireLock, LockTimeout,
      ReclaimLock, Stage, RefuseTarget, ArmFails, RevertStaged, VerifyRead,
      VerifyFails, Report, Kill, StartApply, StartVerify, Start, RadioFails, DeviceTick, deviceVars
<1> QED BY <1>2, <1>3, <1>4, <1>5, <1>6, <1>7, <1>8

(* However calls overlap, are killed or meet a reboot, the option changes only *)
(* under a timer that leads back, and the radio goes only where it says.       *)
THEOREM CallsKeep ==
  ASSUME ChannelsAssumption, LockAssumption, SwitchesAssumption
  PROVE  DeviceSpec => CallsKeepPromise
<1>1. DeviceInit => Promise!SafeInit
  BY DEF DeviceInit, Promise!SafeInit, ChannelsAssumption
<1>2. DeviceTypeOK /\ DeviceTypeOK' /\ StagedIsOwned /\ [DeviceNext]_deviceVars
        => [Promise!SafeNext]_<<uci, IF armed THEN snapshot ELSE uci, armed, live, littered>>
  BY PromiseStep
<1> QED
  BY <1>1, <1>2, DeviceTyping, Owned, PTL DEF DeviceSpec, CallsKeepPromise, Promise!SafeSpec

(* A reload by the agent never puts the radio on an uncovered channel: the     *)
(* promise, read where no timer runs and the option is the confirmed one.      *)
THEOREM LiveCovered ==
  ASSUME ChannelsAssumption, LockAssumption, SwitchesAssumption
  PROVE  DeviceSpec => LiveIsCovered
<1> DEFINE Safe == live' # live /\ live' # Down /\ uci' = uci /\ ~armed
                     => live' = good \/ littered \/ exposed
<1>1. ASSUME DeviceTypeOK, DeviceTypeOK', StagedIsOwned, ChangeIsCovered, [DeviceNext]_deviceVars
      PROVE  [Safe]_deviceVars
  <2>1. ~armed => uci = good \/ exposed BY <1>1 DEF ChangeIsCovered
  <2>2. ~armed /\ Promise!SafeNext => Promise!Follows
    BY DEF Promise!SafeNext, Promise!Keep, Promise!Undo, Promise!Move, Promise!Put
  <2>3. Promise!SafeNext \/ live' = live BY <1>1, PromiseStep
  <2> QED BY <2>1, <2>2, <2>3 DEF Promise!Follows
<1> QED BY <1>1, DeviceTyping, Owned, Covered, PTL DEF LiveIsCovered, DeviceSpec

-----------------------------------------------------------------------------
(* CommandSystem.  Its steps, seen from each side.                          *)

(* The server's jobs take no step that CommandJobs does not allow.          *)
LEMMA JobsSide == ASSUME [Next]_vars PROVE [JobsNext]_jobsVars
<1>1. CASE Dial BY <1>1 DEF Dial, JobsNext, ApplyJob, CheckJob
<1>2. CASE Returns
  <2> PICK p \in Calls :
         \/ ApplyReturns(pc[p] = "exit0") \/ CheckReturns(pc[p] = "exit0") \/ UNCHANGED jobsVars
    BY <1>2 DEF Returns
  <2>1. (pc[p] = "exit0") \in BOOLEAN OBVIOUS
  <2> QED BY <2>1 DEF JobsNext, ApplyJob, CheckJob
<1>3. CASE Lost BY <1>3 DEF Lost, JobsNext, ApplyJob, CheckJob
<1>4. CASE Obey BY <1>4 DEF Obey
<1>5. CASE ServerStep BY <1>5 DEF ServerStep, JobsNext, ApplyJob, CheckJob
<1>6. CASE ServerFault BY <1>6 DEF ServerFault, JobsNext, Faults
<1>7. CASE DeviceStep BY <1>7 DEF DeviceStep
<1>8. CASE Tick BY <1>8 DEF Tick, JobsNext
<1>9. CASE UNCHANGED vars BY <1>9 DEF vars
<1> QED BY <1>1, <1>2, <1>3, <1>4, <1>5, <1>6, <1>7, <1>8, <1>9 DEF Next

(* Nor does the device: a call is started with its command's target.         *)
LEMMA DeviceSide ==
  ASSUME [Next]_vars, JobsTypeOK, JobsInv, CommandsAssumption, SystemAssumption
  PROVE  [DeviceNext]_deviceVars
<1> USE DEF Unreached
<1>1. ASSUME NEW c \in Commands, SendApply(c) \/ SendVerify(c) PROVE [DeviceNext]_deviceVars
  <2>1. TargetOf[c] \in Targets BY DEF SystemAssumption
  <2> QED BY <1>1, <2>1 DEF SendApply, SendVerify, DeviceNext
<1>2. CASE Dial BY <1>1, <1>2 DEF Dial, SendReboot
<1>3. CASE Returns BY <1>3 DEF Returns, DeviceNext
<1>4. CASE Lost
  <2>1. ApplyLost => applyCmd \in Commands
    BY DEF ApplyLost, JobsTypeOK, JobsInv, RowsHeld
  <2>2. CheckLost => checkCmd \in Commands
    BY DEF CheckLost, JobsTypeOK, JobsInv, RowsHeld
  <2> QED BY <1>1, <1>4, <2>1, <2>2 DEF Lost
<1>5. CASE Obey BY <1>5 DEF Obey, DeviceNext
<1>6. CASE ServerStep \/ ServerFault BY <1>6 DEF ServerStep, ServerFault
<1>7. CASE DeviceStep BY <1>7 DEF DeviceStep, DeviceNext
<1>8. CASE Tick BY <1>8 DEF Tick, DeviceNext
<1>9. CASE UNCHANGED vars BY <1>9 DEF vars
<1> QED BY <1>2, <1>3, <1>4, <1>5, <1>6, <1>7, <1>8, <1>9 DEF Next

(* What is proved of the jobs and of the device alone holds of the two        *)
(* joined by SSH, answers being lost and calls going on without the server.  *)
THEOREM Composes ==
  ASSUME CommandsAssumption, TimesAssumption, SystemAssumption
  PROVE  Spec => JobsSpec /\ DeviceSpec
<1>1. Init => JobsInit /\ DeviceInit BY DEF Init
<1>2. [Next]_vars => [JobsNext]_jobsVars BY JobsSide
<1>3. Spec => JobsSpec BY <1>1, <1>2, PTL DEF Spec, JobsSpec
<1>4. [Next]_vars /\ JobsTypeOK /\ JobsInv => [DeviceNext]_deviceVars BY DeviceSide
<1> QED BY <1>1, <1>3, <1>4, JobsInvariance, PTL DEF Spec, DeviceSpec

(* So the table's readers may rely on the ledger, nobody at the device finds  *)
(* an unconfirmed change without its timer, and nothing prolongs a pass of a *)
(* job, whose end finds what was due settled, with both sides at work.       *)
THEOREM KeptTogether ==
  ASSUME CommandsAssumption, TimesAssumption, SystemAssumption, ChannelsAssumption,
         LockAssumption, SwitchesAssumption
  PROVE  Spec => /\ LedgerSpec
                 /\ [](RowsAreFresh /\ SingleFlight) /\ UnknownAfterWindow
                 /\ [](ChangeIsCovered /\ StagedIsOwned) /\ LiveIsCovered
                 /\ CallsExclude /\ CallsKeepPromise
                 /\ DueIsSettled /\ PassesGoOn
BY Composes, Refinement, FreshRows, OneInFlight, UnknownWaits, Covered, Owned, LiveCovered,
   CallsImplement, CallsKeep, PassSettlesDue, PassesRunDown, PTL

-----------------------------------------------------------------------------
(* What the server knows of the calls it waits for: an apply it waits for    *)
(* was made for the row in hand and is nobody else's.                       *)
CallsInv ==
    /\ callCmd \in [Calls -> Commands \cup {NoCommand}]
    /\ applyCall \in Calls \cup {NoCall} /\ checkCall \in Calls \cup {NoCall}
    /\ applyCall # NoCall =>
          /\ applyPc = "ssh" /\ applyCmd \notin Reboots
          /\ callCmd[applyCall] = applyCmd
          /\ pc[applyCall] \in ApplyPcs \cup ExitPcs
          /\ applyCall # checkCall
    /\ checkCall # NoCall => checkPc = "ssh" /\ pc[checkCall] \in VerifyPcs \cup ExitPcs

(* A call that has passed `uci apply` has started a timer for its command,   *)
(* and only such a call exits 0, so what the server is about to write is so. *)
CoverInv ==
    /\ \A p \in Calls : pc[p] = "reload" => callCmd[p] \in covered
    /\ applyCall # NoCall /\ pc[applyCall] = "exit0" => applyCmd \in covered
    /\ applyPc = "write" /\ applyCmd \notin Reboots => applyCmd \in covered

(* A timer the server waited for runs out before its row is old enough to be *)
(* given up: the row is not older than the time the timer has run.          *)
TimerInv ==
    awaited /\ armed =>
        /\ owner \in Commands \ Reboots
        /\ status[owner] \notin {"none", "unknown"}
        /\ status[owner] = "applied" => left + age[owner] <= RollbackTtl

SystemInv == CallsInv /\ CoverInv /\ TimerInv

(* The two components' own invariants, from which the composition starts.    *)
Parts == JobsTypeOK /\ JobsInv /\ DeviceTypeOK /\ StagedIsOwned

Assumptions ==
    /\ CommandsAssumption /\ TimesAssumption /\ ChannelsAssumption /\ LockAssumption
    /\ SwitchesAssumption /\ SystemAssumption /\ WindowAssumption

(* Starting a call leaves the timer alone and takes a slot nobody waits for. *)
LEMMA ApplyStarts ==
  ASSUME Parts, SystemInv, Assumptions, NEW c \in Commands \ Reboots, SendApply(c),
         applyPc' = "ssh", applyCmd' = c, UNCHANGED <<checkPc, checkCall, covered>>
  PROVE  CallsInv' /\ CoverInv'
<1> USE DEF Assumptions, CommandsAssumption, SystemAssumption, LockAssumption, SystemInv,
            CallsInv, CoverInv, Parts, DeviceTypeOK
<1>1. CASE applyCall' = NoCall /\ Unreached BY <1>1 DEF Unreached, deviceVars
<1>2. ASSUME NEW p \in Calls, StartApply(p, TargetOf[c]), applyCall' = p,
             callCmd' = [callCmd EXCEPT ![p] = c]
      PROVE  CallsInv' /\ CoverInv'
  <2>1. pc[p] = "free" /\ pc' = [pc EXCEPT ![p] = "lock"]
    BY <1>2 DEF StartApply, Start, GoTo
  <2>2. p # checkCall BY <2>1
  <2>3. CallsInv' BY <1>2, <2>1, <2>2
  <2>4. CoverInv' BY <1>2, <2>1
  <2> QED BY <2>3, <2>4
<1> QED BY <1>1, <1>2 DEF SendApply

LEMMA VerifyStarts ==
  ASSUME Parts, SystemInv, Assumptions, NEW c \in Commands, SendVerify(c),
         checkPc' = "ssh", UNCHANGED <<applyPc, applyCmd, applyCall, covered>>
  PROVE  CallsInv' /\ CoverInv'
<1> USE DEF Assumptions, CommandsAssumption, SystemAssumption, LockAssumption, SystemInv,
            CallsInv, CoverInv, Parts, DeviceTypeOK
<1>1. CASE checkCall' = NoCall /\ Unreached BY <1>1 DEF Unreached, deviceVars
<1>2. ASSUME NEW p \in Calls, StartVerify(p, TargetOf[c]), checkCall' = p,
             callCmd' = [callCmd EXCEPT ![p] = c]
      PROVE  CallsInv' /\ CoverInv'
  <2>1. pc[p] = "free" /\ pc' = [pc EXCEPT ![p] = "read"]
    BY <1>2 DEF StartVerify, Start, GoTo
  <2>2. p # applyCall BY <2>1
  <2>3. CallsInv' BY <1>2, <2>1, <2>2
  <2>4. CoverInv' BY <1>2, <2>1, <2>2
  <2> QED BY <2>3, <2>4
<1> QED BY <1>1, <1>2 DEF SendVerify

(* The server and the calls it waits for.                                   *)
LEMMA DialKeeps ==
  ASSUME Parts, SystemInv, Assumptions, Dial \/ Lost PROVE CallsInv' /\ CoverInv'
<1>1. ASSUME NEW c \in Commands, ApplyDial(c), c \in Reboots, SendReboot, UNCHANGED checkCall,
             UNCHANGED history
      PROVE  CallsInv' /\ CoverInv'
  BY <1>1 DEF ApplyDial, SendReboot, Unreached, deviceVars, history, checkVars, SystemInv,
              CallsInv, CoverInv
<1>2. ASSUME NEW c \in Commands, ApplyDial(c), c \notin Reboots, SendApply(c),
             UNCHANGED checkCall, UNCHANGED history
      PROVE  CallsInv' /\ CoverInv'
  BY <1>2, ApplyStarts DEF ApplyDial, history, checkVars
<1>3. ASSUME NEW c \in Commands, CheckDial(c), SendVerify(c), UNCHANGED applyCall,
             UNCHANGED history
      PROVE  CallsInv' /\ CoverInv'
  BY <1>3, VerifyStarts DEF CheckDial, history, applyVars
<1>4. CASE Dial BY <1>1, <1>2, <1>3, <1>4 DEF Dial
<1>5. CASE ApplyLost /\ UNCHANGED <<checkCall, history>> /\ applyTry = 1
           /\ applyCmd \notin Reboots /\ SendApply(applyCmd)
  <2>1. applyCmd \in Commands \ Reboots
    BY <1>5 DEF ApplyLost, Parts, JobsTypeOK, JobsInv, RowsHeld
  <2>2. applyPc' = "ssh" /\ applyCmd' = applyCmd /\ UNCHANGED checkPc
    BY <1>5 DEF ApplyLost, checkVars
  <2> QED BY <1>5, <2>1, <2>2, ApplyStarts DEF history
<1>6. CASE ApplyLost /\ UNCHANGED <<checkCall, history>> /\ applyCall' = NoCall /\ Unreached
           /\ ~(applyTry = 1 /\ applyCmd \notin Reboots)
  BY <1>6 DEF ApplyLost, ApplyNextRow, Unreached, deviceVars, history, checkVars, SystemInv,
              CallsInv, CoverInv
<1>7. CASE CheckLost /\ UNCHANGED <<applyCall, history>> /\ checkTry = 1 /\ SendVerify(checkCmd)
  <2>1. checkCmd \in Commands BY <1>7 DEF CheckLost, Parts, JobsTypeOK, JobsInv, RowsHeld
  <2>2. checkPc' = "ssh" /\ UNCHANGED <<applyPc, applyCmd>>
    BY <1>7 DEF CheckLost, applyVars
  <2> QED BY <1>7, <2>1, <2>2, VerifyStarts DEF history
<1>8. CASE CheckLost /\ UNCHANGED <<applyCall, history>> /\ checkCall' = NoCall /\ Unreached
  BY <1>8 DEF CheckLost, Unreached, deviceVars, history, applyVars, SystemInv, CallsInv, CoverInv
<1> QED BY <1>4, <1>5, <1>6, <1>7, <1>8 DEF Lost

LEMMA ReturnKeeps ==
  ASSUME Parts, SystemInv, Assumptions, Returns PROVE CallsInv' /\ CoverInv'
<1> USE DEF Assumptions, CommandsAssumption, SystemAssumption, LockAssumption, SystemInv,
            CallsInv, CoverInv, Parts, DeviceTypeOK
<1> PICK p \in Calls :
      /\ pc[p] \in ExitPcs /\ pc' = [pc EXCEPT ![p] = "free"]
      /\ callCmd' = [callCmd EXCEPT ![p] = NoCommand]
      /\ \/ p = applyCall /\ applyCall' = NoCall /\ ApplyReturns(pc[p] = "exit0")
            /\ UNCHANGED checkCall
         \/ p = checkCall /\ checkCall' = NoCall /\ CheckReturns(pc[p] = "exit0")
            /\ UNCHANGED applyCall
         \/ p \notin {applyCall, checkCall} /\ UNCHANGED <<jobsVars, applyCall, checkCall>>
      /\ UNCHANGED history
  BY DEF Returns, Exited, Report, GoTo
<1>1. callCmd' \in [Calls -> Commands \cup {NoCommand}] OBVIOUS
<1>2. \A q \in Calls : q # p => pc'[q] = pc[q] /\ callCmd'[q] = callCmd[q] OBVIOUS
<1>3. pc'[p] = "free" OBVIOUS
<1>4. covered' = covered BY DEF history
<1>5. CASE p = applyCall /\ applyCall' = NoCall /\ ApplyReturns(pc[p] = "exit0")
           /\ UNCHANGED checkCall
  BY <1>1, <1>2, <1>3, <1>4, <1>5 DEF ApplyReturns, ApplyNextRow, checkVars
<1>6. CASE p = checkCall /\ checkCall' = NoCall /\ CheckReturns(pc[p] = "exit0")
           /\ UNCHANGED applyCall
  BY <1>1, <1>2, <1>3, <1>4, <1>6 DEF CheckReturns, applyVars
<1>7. CASE p \notin {applyCall, checkCall} /\ UNCHANGED <<jobsVars, applyCall, checkCall>>
  BY <1>1, <1>2, <1>3, <1>4, <1>7 DEF jobsVars, applyVars, checkVars
<1> QED BY <1>5, <1>6, <1>7

LEMMA ServerKeeps ==
  ASSUME Parts, SystemInv, Assumptions, ServerStep \/ ServerFault \/ Obey
  PROVE  CallsInv' /\ CoverInv'
<1> USE DEF Assumptions, CommandsAssumption, SystemAssumption, SystemInv, CallsInv, CoverInv
<1>1. CASE ServerStep
  <2>1. UNCHANGED <<deviceVars, waits, history>> BY <1>1 DEF ServerStep
  <2>2. \/ UNCHANGED <<applyPc, applyCmd>>
        \/ applyPc # "ssh" /\ applyPc' \in {"row", "idle"}
    BY <1>1
    DEF ServerStep, OptJob, OptBegin, OptInsert, OptSkip, OptDecide, Operator, SetEnabled,
        QueueByHand, ApplyFetch, ApplyWrite, ApplyNextRow, ApplyEnd, CheckFetch, CheckWrite,
        CheckEnd, CheckSkip, applyVars
  <2>3. checkPc = "ssh" => checkPc' = checkPc
    BY <1>1
    DEF ServerStep, OptJob, OptBegin, OptInsert, OptSkip, OptDecide, Operator, SetEnabled,
        QueueByHand, ApplyFetch, ApplyWrite, ApplyNextRow, ApplyEnd, CheckFetch, CheckWrite,
        CheckEnd, CheckSkip, checkVars
  <2> QED BY <2>1, <2>2, <2>3 DEF deviceVars, waits, history
<1>2. CASE ServerFault
  BY <1>2 DEF ServerFault, OptAborts, ApplyAborts, CheckAborts, ServerRestarts, OptStops,
              ApplyStops, CheckStops, deviceVars, waits, history, applyVars, checkVars
<1>3. CASE Obey
  <2>1. applyCall = NoCall BY <1>3 DEF Obey
  <2> QED BY <1>3, <2>1 DEF Obey, Reboot, history, jobsVars, applyVars, checkVars
<1> QED BY <1>1, <1>2, <1>3

(* The device: only `uci apply` starts a timer, by the lock's owner.         *)
LEMMA ArmIsOwned ==
  ASSUME Parts, Assumptions, DeviceStep, ~armed, armed'
  PROVE  lock \in Calls /\ Arm(lock)
<1> USE DEF Parts, Assumptions, StagedIsOwned
<1>1. PICK p \in Calls : Arm(p)
  BY DEF DeviceStep, Device, CallStep, ApplyStep, VerifyStep, AcquireLock, LockTimeout,
         ReclaimLock, Stage, RefuseTarget, ArmFails, RevertStaged, Reload, VerifyRead,
         VerifyFails, Confirm, Rollback, RadioFails, RecoverRadio
<1>2. lock = p BY <1>1 DEF Arm
<1> QED BY <1>1, <1>2

LEMMA DeviceKeeps ==
  ASSUME Parts, SystemInv, Assumptions, DeviceStep PROVE CallsInv' /\ CoverInv'
<1> USE DEF Assumptions, SystemAssumption, Parts, DeviceTypeOK
<1>1. UNCHANGED <<jobsVars, waits>> /\ UNCHANGED <<applyPc, applyCmd, checkPc>>
  BY DEF DeviceStep, jobsVars, applyVars, checkVars
<1>2. CASE Device
  <2>1. UNCHANGED pc BY <1>2 DEF Device, Rollback, RadioFails, RecoverRadio
  <2>2. covered \subseteq covered' BY DEF DeviceStep
  <2> QED BY <1>1, <2>1, <2>2 DEF SystemInv, CallsInv, CoverInv, waits
<1>3. ASSUME NEW p \in Calls, CallStep(p) PROVE CallsInv' /\ CoverInv'
  <2>1. \A q \in Calls : q # p => pc'[q] = pc[q]
    BY <1>3 DEF CallStep, ApplyStep, VerifyStep, AcquireLock, LockTimeout, ReclaimLock, Stage,
                RefuseTarget, Arm, ArmFails, RevertStaged, Reload, VerifyRead, VerifyFails,
                Confirm, Exit, GoTo
  <2>2. \/ pc[p] \in ApplyPcs /\ pc'[p] \in ApplyPcs \cup {"exit1"}
           /\ (pc'[p] = "reload" => Arm(p))
        \/ pc[p] = "reload" /\ pc'[p] \in ExitPcs
        \/ pc[p] \in VerifyPcs /\ pc'[p] \in VerifyPcs \cup ExitPcs
    BY <1>3 DEF CallStep, ApplyStep, VerifyStep, AcquireLock, LockTimeout, ReclaimLock, Stage,
                RefuseTarget, ArmFails, RevertStaged, Reload, VerifyRead, VerifyFails,
                Confirm, Arm, Exit, GoTo
  <2>3. covered \subseteq covered' BY DEF DeviceStep
  <2>4. Arm(p) => callCmd[p] \in covered'
    <3> SUFFICES ASSUME Arm(p) PROVE callCmd[p] \in covered'
      OBVIOUS
    <3>1. lock = p BY DEF Arm, StagedIsOwned
    <3> QED BY <3>1 DEF Arm, DeviceStep
  <2>5. CallsInv' BY <1>1, <2>1, <2>2 DEF SystemInv, CallsInv, waits
  <2>6. CoverInv' BY <1>1, <2>1, <2>2, <2>3, <2>4 DEF SystemInv, CallsInv, CoverInv, waits
  <2> QED BY <2>5, <2>6
<1> QED BY <1>2, <1>3 DEF DeviceStep

LEMMA CallsStep ==
  ASSUME Parts, SystemInv, Assumptions, [Next]_vars PROVE CallsInv' /\ CoverInv'
<1>1. CASE Tick \/ UNCHANGED vars
  <2>1. UNCHANGED <<pc, applyPc, applyCmd, checkPc, waits, history>>
    BY <1>1 DEF Tick, JobsTick, DeviceTick, vars, jobsVars, deviceVars, applyVars, checkVars
  <2> QED BY <2>1 DEF SystemInv, CallsInv, CoverInv, waits, history
<1> QED BY <1>1, DialKeeps, ReturnKeeps, ServerKeeps, DeviceKeeps DEF Next

-----------------------------------------------------------------------------
(* Where a row's status goes: the server's two UPDATEs and the INSERT.       *)
LEMMA StatusMoves ==
  ASSUME Parts, Assumptions, [Next]_vars, NEW c \in Commands, status'[c] # status[c]
  PROVE  \/ status[c] = "none" /\ status'[c] = "pending"
         \/ /\ applyPc = "write" /\ c = applyCmd /\ status[c] = "pending"
            /\ status'[c] = SentStatus(c) /\ age'[c] = 0 /\ ApplyWrite
         \/ /\ CheckWrite /\ c = checkCmd /\ status[c] = "applied" /\ UNCHANGED age
            /\ status'[c] = Verdict(c, checkSaw, checkAge[c])
<1> USE DEF Assumptions, Parts, JobsTypeOK
<1>1. CASE ApplyWrite
  <2>1. c = applyCmd BY <1>1 DEF ApplyWrite
  <2>2. status[c] = "pending"
    BY <2>1 DEF JobsInv, RowsAreFresh, CommandsAssumption
  <2> QED BY <1>1, <2>1, <2>2 DEF ApplyWrite
<1>2. CASE CheckWrite
  <2>1. c = checkCmd BY <1>2 DEF CheckWrite
  <2>2. status[c] = "applied"
    BY <2>1 DEF JobsInv, RowsAreFresh, CommandsAssumption
  <2> QED BY <1>2, <2>1, <2>2 DEF CheckWrite
<1>3. ASSUME NEW d \in Commands, status[d] = "none", Insert(d)
      PROVE  status[c] = "none" /\ status'[c] = "pending"
  BY <1>3 DEF Insert
<1>4. OptInsert => optCmd \in Commands /\ status[optCmd] = "none"
  BY DEF OptInsert, JobsInv, OptimizerHeld
<1> QED
  BY <1>1, <1>2, <1>3, <1>4, JobsSide
  DEF JobsNext, OptJob, ApplyJob, CheckJob, Operator, Faults, Fault, jobsVars, rows,
      OptInsert, QueueByHand, SetEnabled, OptBegin, OptDecide, OptSkip, ApplyFetch, ApplyDial,
      ApplyReturns, ApplyLost, ApplyEnd, CheckFetch, CheckSkip, CheckDial, CheckReturns,
      CheckLost, CheckEnd, JobsTick, OptAborts, ApplyAborts, CheckAborts, ServerRestarts

(* What the step of a row that is not rewritten may do to its age.           *)
LEMMA AgeMoves ==
  ASSUME Parts, Assumptions, [Next]_vars, NEW c \in Commands, armed, armed'
  PROVE  \/ age'[c] + left' <= age[c] + left
         \/ ApplyWrite /\ c = applyCmd /\ left' = left /\ age'[c] = 0
<1> USE DEF Assumptions, Parts, JobsTypeOK, DeviceTypeOK
<1>1. CASE Tick
  <2>1. left' = left - 1 BY <1>1 DEF Tick, DeviceTick
  <2>2. age'[c] = age[c] \/ age'[c] = age[c] + 1
    <3>1. CASE JobsTick BY <3>1 DEF JobsTick
    <3>2. CASE UNCHANGED jobsVars BY <3>2 DEF jobsVars, rows
    <3> QED BY <1>1, <3>1, <3>2 DEF Tick
  <2>3. age[c] \in Nat /\ left \in Int BY DEF SwitchesAssumption
  <2> QED BY <2>1, <2>2, <2>3
<1>2. CASE ServerStep
  <2>1. left' = left BY <1>2 DEF ServerStep, deviceVars, config
  <2>2. CASE ApplyWrite BY <2>1, <2>2 DEF ApplyWrite
  <2>3. CASE ~ApplyWrite
    <3>1. age' = age
      BY <1>2, <2>3
      DEF ServerStep, OptJob, OptBegin, OptInsert, OptSkip, OptDecide, Operator, SetEnabled,
          QueueByHand, Insert, ApplyFetch, ApplyEnd, CheckFetch, CheckWrite, CheckEnd,
          CheckSkip, rows
    <3> QED BY <2>1, <3>1
  <2> QED BY <2>2, <2>3
<1>3. CASE DeviceStep
  <2>1. age' = age BY <1>3 DEF DeviceStep, jobsVars, rows
  <2>2. left' = left
    BY <1>3 DEF DeviceStep, Device, CallStep, ApplyStep, VerifyStep, AcquireLock, LockTimeout,
                ReclaimLock, Stage, RefuseTarget, Arm, ArmFails, RevertStaged, Reload,
                VerifyRead, VerifyFails, Confirm, Rollback, RadioFails, RecoverRadio, config
  <2> QED BY <2>1, <2>2
<1>4. CASE Dial \/ Returns \/ Lost \/ ServerFault
  <2>1. left' = left
    BY <1>4 DEF Dial, Returns, Lost, ServerFault, SendApply, SendVerify, SendReboot, Unreached,
                StartApply, StartVerify, Start, Report, deviceVars, config
  <2>2. age' = age
    BY <1>4 DEF Dial, Returns, Lost, ServerFault, ApplyDial, CheckDial, ApplyReturns,
                CheckReturns, ApplyLost, CheckLost, OptAborts, ApplyAborts, CheckAborts,
                ServerRestarts, Fault, rows, jobsVars
  <2> QED BY <2>1, <2>2
<1>5. CASE Obey BY <1>5 DEF Obey, Reboot
<1>6. CASE UNCHANGED vars BY <1>6 DEF vars, jobsVars, rows, deviceVars, config
<1> QED BY <1>1, <1>2, <1>3, <1>4, <1>5, <1>6 DEF Next

LEMMA TimerStep == ASSUME Parts, Parts', SystemInv, Assumptions, [Next]_vars PROVE TimerInv'
<1> USE DEF Assumptions, Parts
<1> SUFFICES ASSUME awaited', armed'
             PROVE  /\ owner' \in Commands \ Reboots
                    /\ status'[owner'] \notin {"none", "unknown"}
                    /\ status'[owner'] = "applied" => left' + age'[owner'] <= RollbackTtl
  BY DEF TimerInv
<1>1. CASE armed
  <2>1. owner' = owner /\ awaited
    BY <1>1 DEF Next, Dial, Returns, Lost, Obey, ServerStep, ServerFault, DeviceStep, Tick,
                vars, history
  <2> PICK c \in Commands \ Reboots :
        /\ c = owner /\ status[c] \notin {"none", "unknown"}
        /\ status[c] = "applied" => left + age[c] <= RollbackTtl
    BY <1>1, <2>1 DEF SystemInv, TimerInv
  <2>2. age[c] \in Nat /\ age'[c] \in Nat /\ left \in Nat /\ left' \in Nat
        /\ left' <= RollbackTtl /\ RollbackTtl \in Nat
    BY DEF JobsTypeOK, DeviceTypeOK, SwitchesAssumption
  <2> SUFFICES /\ status'[c] \notin {"none", "unknown"}
               /\ status'[c] = "applied" => left' + age'[c] <= RollbackTtl
    BY <2>1
  <2>3. age'[c] = 0 => left' + age'[c] <= RollbackTtl
    <3>1. \A n \in Nat : n = 0 => left' + n <= RollbackTtl BY <2>2
    <3> QED BY <2>2, <3>1
  <2>4. CASE status'[c] = status[c]
    <3>1. CASE age'[c] + left' <= age[c] + left BY <2>2, <2>4, <3>1
    <3>2. CASE age'[c] = 0 BY <2>3, <2>4, <3>2
    <3> QED BY <1>1, <3>1, <3>2, AgeMoves
  <2>5. CASE status'[c] = SentStatus(c) /\ age'[c] = 0
    <3>1. status'[c] = "applied" BY <2>5 DEF SentStatus
    <3>2. left' + age'[c] <= RollbackTtl BY <2>3, <2>5
    <3> QED BY <3>1, <3>2
  <2>6. CASE /\ CheckWrite /\ c = checkCmd /\ status[c] = "applied" /\ UNCHANGED age
             /\ status'[c] = Verdict(c, checkSaw, checkAge[c]) /\ status'[c] # status[c]
    <3>1. checkAge[c] <= age[c] /\ checkAge[c] \in Nat
      BY <2>6 DEF JobsInv, RowsHeld, JobsTypeOK, CommandsAssumption
    <3>2. TtlOf[c] = RollbackTtl /\ Grace > 0 /\ Grace \in Nat
      BY DEF WindowAssumption, TimesAssumption
    <3>3. left + age[c] <= RollbackTtl BY <2>6
    <3>4. ~(checkAge[c] >= TtlOf[c] + Grace)
      BY <2>2, <3>1, <3>2, <3>3
    <3>5. checkSaw \in {"true", "false", "none"} BY DEF JobsTypeOK
    <3>6. status'[c] \in {"acked", "reverted", "applied"}
      BY <2>6, <3>4, <3>5 DEF Verdict
    <3> QED BY <2>6, <3>6
  <2> QED BY <2>4, <2>5, <2>6, StatusMoves
<1>2. CASE ~armed
  <2>1. DeviceStep
    BY <1>2 DEF Next, Dial, Returns, Lost, Obey, ServerStep, ServerFault, Tick, SendApply,
                SendVerify, SendReboot, Unreached, StartApply, StartVerify, Start, Report, Reboot,
                DeviceTick, vars, deviceVars, config
  <2>2. lock \in Calls /\ owner' = callCmd[lock] /\ lock = applyCall
    BY <1>2, <2>1, ArmIsOwned DEF DeviceStep
  <2>3. owner' = applyCmd /\ applyCmd \notin Reboots /\ applyPc = "ssh"
    BY <2>2 DEF SystemInv, CallsInv, SystemAssumption
  <2>4. applyCmd \in Commands /\ status[applyCmd] = "pending"
    BY <2>3 DEF JobsInv, RowsHeld, RowsAreFresh, JobsTypeOK
  <2>5. status' = status BY <2>1 DEF DeviceStep, jobsVars, rows
  <2> QED BY <2>3, <2>4, <2>5
<1> QED BY <1>1, <1>2

-----------------------------------------------------------------------------
(* The inductive invariant of server and device together.                   *)
THEOREM SystemInvariance == ASSUME Assumptions PROVE Spec => [](Parts /\ SystemInv)
<1>1. Spec => []Parts
  <2> USE DEF Assumptions
  <2>1. JobsTypeOK /\ JobsInv /\ DeviceTypeOK /\ StagedIsOwned => Parts BY DEF Parts
  <2> QED BY <2>1, Composes, JobsInvariance, DeviceTyping, Owned, PTL
<1>2. Init => SystemInv
  BY DEF Init, JobsInit, DeviceInit, SystemInv, CallsInv, CoverInv, TimerInv, Assumptions,
         CommandsAssumption
<1>3. Parts /\ Parts' /\ SystemInv /\ [Next]_vars => SystemInv'
  BY CallsStep, TimerStep DEF SystemInv
<1> QED BY <1>1, <1>2, <1>3, PTL DEF Spec

(* When a row is given up as unknown, the timer of the apply the server      *)
(* waited for has run out.                                                  *)
THEOREM UnknownOver == ASSUME Assumptions PROVE Spec => []UnknownIsOver
<1>1. SystemInv => UnknownIsOver BY DEF SystemInv, TimerInv, UnknownIsOver
<1> QED BY <1>1, SystemInvariance, PTL

(* A row becomes applied only after a call of its own started a timer.       *)
THEOREM WasArmed == ASSUME Assumptions PROVE Spec => AppliedWasArmed
<1> DEFINE Armed == \A c \in Commands :
                      status[c] = "pending" /\ status'[c] = "applied" => c \in covered
<1>1. Parts /\ SystemInv /\ [Next]_vars => [Armed]_vars
  <2> SUFFICES ASSUME Parts, SystemInv, [Next]_vars, NEW c \in Commands,
                      status[c] = "pending", status'[c] = "applied"
               PROVE  c \in covered
    OBVIOUS
  <2>1. applyPc = "write" /\ c = applyCmd /\ SentStatus(c) = "applied" BY StatusMoves
  <2> QED BY <2>1 DEF SentStatus, SystemInv, CoverInv
<1> QED BY <1>1, SystemInvariance, PTL DEF AppliedWasArmed, Spec
=============================================================================
