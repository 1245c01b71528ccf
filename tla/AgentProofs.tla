----------------------------- MODULE AgentProofs -----------------------------
(***************************************************************************)
(* Theorems about the two parts of the device's agent that take the radio  *)
(* lock: RadioRecovery and RadioLock.                                      *)
(***************************************************************************)
EXTENDS RadioRecovery, RadioLock, TLAPS

-----------------------------------------------------------------------------
(* RadioRecovery.                                                           *)

(* The counter files: what a path has spent is in its file, or was wiped     *)
(* from it, and a reboot is in the file before it happens; no file ever      *)
(* goes past its cap.                                                       *)
CountsInv ==
    /\ \A k \in Paths : count[k] <= Cap[k] /\ spent[k] <= count[k] + lost[k]
    /\ pc = "reboot" => count[path] >= 1 /\ spent[path] + 1 <= count[path] + lost[path]

(* The loop goes round MaxResets times.                                     *)
AttemptsInv == pc \in {"look", "country", "judge", "reset"} => attempt <= MaxResets

(* A run that has seen nothing but a radio on its channel compares with that *)
(* channel, and has not judged against it.                                  *)
FitInv ==
    fit => /\ live = uci
           /\ pc \in {"look", "country"} => expected = uci
           /\ pc \notin {"judge", "reset", "count", "reboot"}

RecoveryInv == TypeOK /\ CountsInv /\ AttemptsInv /\ FitInv

USE DEF Paths, run, flash, world, hist

(* What a run's own steps do to its counters.                               *)
LEMMA QuietStepKeeps ==
  ASSUME RecoveryInv, Watch, UNCHANGED <<cron, disabled, hook, up, cuts, world>>,
         \/ FindInterface \/ NoInterface \/ ReadChannel \/ WrongCountry
         \/ Confirm \/ JudgeChannel \/ JudgeDefaults \/ GiveUp \/ CountReboot
  PROVE  RecoveryInv'
<1> USE ChannelsAssumption, LimitsAssumption
    DEF RecoveryInv, TypeOK, CountsInv, AttemptsInv, FitInv, Watch, GoTo,
        ChannelsAssumption, LimitsAssumption
<1>1. CASE FindInterface BY <1>1 DEF FindInterface, ExpectedChannel
<1>2. CASE NoInterface BY <1>2 DEF NoInterface
<1>3. CASE ReadChannel BY <1>3 DEF ReadChannel
<1>4. CASE WrongCountry BY <1>4 DEF WrongCountry, CountryMatches
<1>5. CASE Confirm BY <1>5 DEF Confirm
<1>6. CASE JudgeChannel BY <1>6 DEF JudgeChannel
<1>7. CASE JudgeDefaults BY <1>7 DEF JudgeDefaults
<1>8. CASE GiveUp BY <1>8 DEF GiveUp
<1>9. CASE CountReboot BY <1>9 DEF CountReboot, Exhausted
<1> QED BY <1>1, <1>2, <1>3, <1>4, <1>5, <1>6, <1>7, <1>8, <1>9

LEMMA RunStepKeeps == ASSUME RecoveryInv, RunStep, Watch PROVE RecoveryInv'
<1>1. CASE Reset
  <2> USE ChannelsAssumption, LimitsAssumption
      DEF RecoveryInv, TypeOK, CountsInv, AttemptsInv, FitInv, Watch, ChannelsAssumption,
          LimitsAssumption
  <2>1. attempt' \in 1..(MaxResets + 1) /\ (pc' = "look" => attempt' <= MaxResets)
    BY <1>1 DEF Reset, AfterReset
  <2> QED BY <1>1, <2>1 DEF Reset, AfterReset, RunStep, Outcomes, WithParameters, WithDefaults
<1> QED BY <1>1, QuietStepKeeps DEF RunStep

(* Going down leaves a run in no place and a radio off its channel.          *)
LEMMA GoDownKeeps ==
  ASSUME RecoveryInv, GoDown, Watch, cuts' \in 0..MaxCuts,
         count' \in [Paths -> Nat], spent' \in [Paths -> Nat], lost' \in [Paths -> Nat],
         \A k \in Paths : count'[k] <= Cap[k] /\ spent'[k] <= count'[k] + lost'[k]
  PROVE  RecoveryInv'
<1> USE ChannelsAssumption, LimitsAssumption
    DEF TypeOK, CountsInv, AttemptsInv, FitInv, Watch, RunOver, GoDown,
        ChannelsAssumption, LimitsAssumption
<1>1. ~fit' BY DEF RecoveryInv
<1>2. TypeOK'
  <2>1. attempt' \in 1..(MaxResets + 1) OBVIOUS
  <2>2. uci' \in Channels /\ kept' \in Channels /\ cron' \in BOOLEAN /\ disabled' \in BOOLEAN
    BY DEF RecoveryInv
  <2> QED BY <1>1, <2>1, <2>2
<1>3. CountsInv' /\ AttemptsInv' /\ FitInv' BY <1>1
<1> QED BY <1>2, <1>3 DEF RecoveryInv

(* What ends a run: its end, a reboot of its own, a power cut.                *)
LEMMA EndingKeeps ==
  ASSUME RecoveryInv, Ends \/ Reboot \/ Cut, Watch
  PROVE  RecoveryInv'
<1> USE ChannelsAssumption, LimitsAssumption
    DEF RecoveryInv, TypeOK, CountsInv, LimitsAssumption, ChannelsAssumption
<1>1. CASE Ends BY <1>1 DEF Ends, Watch, RunOver, AttemptsInv, FitInv
<1>2. CASE Reboot
  <2>1. spent' = [spent EXCEPT ![path] = @ + 1] /\ UNCHANGED <<count, lost, cuts>> /\ GoDown
    BY <1>2 DEF Reboot
  <2>2. spent[path] + 1 <= count[path] + lost[path]
    BY <1>2 DEF Reboot
  <2> QED BY <2>1, <2>2, GoDownKeeps
<1>3. CASE Cut
  <2>1. GoDown /\ cuts' \in 0..MaxCuts /\ UNCHANGED spent
    BY <1>3 DEF Cut
  <2>2. CASE UNCHANGED <<count, lost>> BY <2>1, <2>2, GoDownKeeps
  <2>3. CASE /\ pc = "reboot"
             /\ count' = [count EXCEPT ![path] = 0]
             /\ lost' = [lost EXCEPT ![path] = @ + count[path] - 1]
    <3>1. lost[path] + count[path] - 1 \in Nat BY <2>3
    <3>2. spent[path] <= lost[path] + count[path] - 1 BY <2>3
    <3> QED BY <2>1, <2>3, <3>1, <3>2, GoDownKeeps
  <2> QED BY <1>3, <2>2, <2>3 DEF Cut
<1> QED BY <1>1, <1>2, <1>3

(* A step that leaves the run and its counters alone, and moves the radio or *)
(* the option within their types.                                           *)
LEMMA OutsideKeeps ==
  ASSUME RecoveryInv, Watch, UNCHANGED <<run, count, hist, hook, up, cuts, cron, disabled>>,
         settling' \in BOOLEAN, armed' \in BOOLEAN,
         live' \in Channels \cup {Drifted, Corrupt, Absent},
         uci' \in Channels, kept' \in Channels
  PROVE  RecoveryInv'
<1> USE DEF TypeOK, CountsInv, AttemptsInv, FitInv, Watch
<1>1. TypeOK' /\ CountsInv' /\ AttemptsInv' BY DEF RecoveryInv
<1>2. FitInv' BY DEF RecoveryInv
<1> QED BY <1>1, <1>2 DEF RecoveryInv

(* What starts a run, and what the world does around it.                      *)
LEMMA AroundKeeps ==
  ASSUME RecoveryInv, Watch,
         Hook \/ CronRuns \/ ComingUp \/ Stray \/ Rollback \/ VerifyConfirm \/ Toggle
           \/ \E c \in Channels : Apply(c)
  PROVE  RecoveryInv'
<1> USE DEF RecoveryInv, TypeOK, Outcomes, WithParameters, WithDefaults
<1>1. CASE Hook \/ CronRuns \/ Boot \/ Toggle
  <2> USE DEF Begin, Watch, CountsInv, AttemptsInv, FitInv
  <2>1. CASE HookStarts BY <2>1 DEF HookStarts
  <2>2. CASE HookChecks BY <2>2 DEF HookChecks
  <2>3. CASE HookSkips \/ Register BY <2>3 DEF HookSkips, Register
  <2>4. CASE CronRuns BY <2>4 DEF CronRuns
  <2>5. CASE Boot BY <2>5 DEF Boot
  <2>6. CASE Toggle BY <2>6 DEF Toggle
  <2> QED BY <1>1, <2>1, <2>2, <2>3, <2>4, <2>5, <2>6 DEF Hook
<1>2. CASE Settle BY <1>2, OutsideKeeps DEF Settle
<1>3. CASE Stray BY <1>3, OutsideKeeps DEF Stray
<1>4. CASE Rollback BY <1>4, OutsideKeeps DEF Rollback
<1>5. CASE VerifyConfirm BY <1>5, OutsideKeeps DEF VerifyConfirm
<1>6. ASSUME NEW c \in Channels, Apply(c) PROVE RecoveryInv' BY <1>6, OutsideKeeps DEF Apply
<1> QED BY <1>1, <1>2, <1>3, <1>4, <1>5, <1>6 DEF ComingUp

(* Every reachable state of a device that looks after its own radio keeps   *)
(* the counters, the attempts and the history in step with each other.      *)
THEOREM RecoveryInvariance == Spec => []RecoveryInv
<1>1. Init => RecoveryInv
  <2> SUFFICES ASSUME Init PROVE RecoveryInv
    OBVIOUS
  <2>1. attempt = 1 /\ 1 \in 1..(MaxResets + 1) /\ cuts = 0 /\ 0 \in 0..MaxCuts
    BY LimitsAssumption DEF Init, LimitsAssumption
  <2>2. TypeOK BY <2>1, ChannelsAssumption, Zenon DEF Init, TypeOK, ChannelsAssumption
  <2>3. CountsInv /\ AttemptsInv /\ FitInv
    BY LimitsAssumption DEF Init, CountsInv, AttemptsInv, FitInv, LimitsAssumption
  <2> QED BY <2>2, <2>3 DEF RecoveryInv
<1>2. RecoveryInv /\ [Next]_vars => RecoveryInv'
  <2> SUFFICES ASSUME RecoveryInv, [Next]_vars PROVE RecoveryInv'
    OBVIOUS
  <2>1. CASE UNCHANGED vars
    BY <2>1 DEF vars, RecoveryInv, TypeOK, CountsInv, AttemptsInv, FitInv
  <2> QED
    BY <2>1, RunStepKeeps, EndingKeeps, AroundKeeps DEF Next, Running, Environment
<1> QED BY <1>1, <1>2, PTL DEF Spec

(* Type correctness of the device that recovers.                            *)
THEOREM RecoveryTyping == Spec => []TypeOK
<1>1. RecoveryInv => TypeOK BY DEF RecoveryInv
<1> QED BY <1>1, RecoveryInvariance, PTL

(* Between two confirmations neither signature reboots the device more often *)
(* than its cap, but for the counts a power cut wiped from the files.       *)
THEOREM Capped == Spec => []RebootsAreCapped
<1>1. RecoveryInv => RebootsAreCapped
  BY LimitsAssumption
  DEF RecoveryInv, TypeOK, CountsInv, RebootsAreCapped, LimitsAssumption
<1> QED BY <1>1, RecoveryInvariance, PTL

(* A radio on its configured channel is never reset, nor its device rebooted. *)
THEOREM LeftAlone == Spec => []HealthyIsLeftAlone
<1>1. RecoveryInv => HealthyIsLeftAlone BY DEF RecoveryInv, FitInv, HealthyIsLeftAlone
<1> QED BY <1>1, RecoveryInvariance, PTL

(* How many steps a run of the recovery may still take.                      *)
RunLeft ==
    LET more == 4 * (MaxResets - attempt)
    IN  CASE pc = "idle" -> 0
          [] pc = "wait" -> 4 * MaxResets + 4
          [] pc = "look" -> more + 7
          [] pc = "country" -> more + 6
          [] pc = "judge" -> more + 5
          [] pc = "reset" -> more + 4
          [] pc = "count" -> 3
          [] OTHER -> 1

(* A run that has begun only ever comes nearer to its end, whatever the radio *)
(* does to it and whoever moves the option meanwhile.                        *)
RunGoesOn == [][pc # "idle" => UNCHANGED <<pc, attempt>> \/ RunLeft' < RunLeft]_vars

LEMMA RunGoesDown ==
  ASSUME RecoveryInv, Next, pc # "idle"
  PROVE  UNCHANGED <<pc, attempt>> \/ RunLeft' < RunLeft
<1> USE LimitsAssumption DEF RecoveryInv, TypeOK, AttemptsInv, LimitsAssumption, GoTo, RunOver
<1>0. attempt \in Nat /\ MaxResets \in Nat OBVIOUS
<1>1. CASE FindInterface BY <1>1 DEF FindInterface, RunLeft
<1>2. CASE NoInterface BY <1>2 DEF NoInterface, RunLeft
<1>3. CASE ReadChannel BY <1>3 DEF ReadChannel, RunLeft
<1>4. CASE WrongCountry \/ Confirm BY <1>4 DEF WrongCountry, Confirm, RunLeft
<1>5. CASE JudgeChannel \/ JudgeDefaults BY <1>5 DEF JudgeChannel, JudgeDefaults, RunLeft
<1>6. CASE Reset BY <1>6 DEF Reset, AfterReset, RunLeft
<1>7. CASE GiveUp \/ CountReboot BY <1>7 DEF GiveUp, CountReboot, RunLeft
<1>8. CASE Ends \/ Reboot \/ Cut
  <2>1. pc' = "idle" BY <1>8 DEF Ends, Reboot, Cut, GoDown
  <2>2. RunLeft' = 0 BY <2>1 DEF RunLeft
  <2>3. RunLeft > 0 BY DEF RunLeft
  <2> QED BY <2>2, <2>3
<1>9. CASE Hook \/ CronRuns \/ ComingUp \/ Stray \/ Rollback \/ VerifyConfirm \/ Toggle
             \/ \E c \in Channels : Apply(c)
  BY <1>9 DEF Hook, HookStarts, HookChecks, HookSkips, Register, CronRuns, Begin, ComingUp,
              Boot, Settle, Stray, Rollback, VerifyConfirm, Toggle, Apply
<1> QED
  BY <1>1, <1>2, <1>3, <1>4, <1>5, <1>6, <1>7, <1>8, <1>9
  DEF Next, Running, RunStep, Environment

(* Every run of recover-radio runs down, for any number of resets: what is    *)
(* left of BadIsReported is that the shell goes on and a run is started.      *)
THEOREM RunRunsDown == Spec => RunGoesOn
<1>1. RecoveryInv /\ [Next]_vars =>
        [pc # "idle" => UNCHANGED <<pc, attempt>> \/ RunLeft' < RunLeft]_vars
  BY RunGoesDown
<1> QED BY <1>1, RecoveryInvariance, PTL DEF Spec, RunGoesOn

-----------------------------------------------------------------------------
(* RadioLock.  The lock excludes, for any number of processes, any age limit *)
(* and any number of attempts, as long as owners leave before their stamp   *)
(* goes stale and none has died without its trap.  Both conditions are       *)
(* needed: TLC finds two processes in the critical section otherwise.       *)

USE DEF Holding, MoveTo, RemoveDir, LooksStale, FirstAttempt,
        NextAttempt

LEMMA LockTypeStep ==
  ASSUME LockTypeOK, [LockNext]_lockVars, LockAssumption PROVE LockTypeOK'
<1> USE DEF LockTypeOK, LockAssumption
<1>1. CASE Tick BY <1>1 DEF Tick
<1>2. ASSUME NEW p \in Procs, Ask(p) PROVE LockTypeOK' BY <1>2 DEF Ask
<1>3. ASSUME NEW p \in Procs, Step(p) PROVE LockTypeOK'
  <2>1. CASE MakeDir(p) \/ MkdirFails(p) \/ FindStale(p)
    BY <2>1 DEF MakeDir, MkdirFails, FindStale
  <2>2. CASE FindTaken(p) BY <2>2 DEF FindTaken
  <2>3. CASE Reclaim(p) \/ Leave(p) \/ StopTrying(p) BY <2>3 DEF Reclaim, Leave, StopTrying
  <2>4. CASE Stamp(p) BY <2>4 DEF Stamp
  <2> QED BY <1>3, <2>1, <2>2, <2>3, <2>4 DEF Step, Acquire
<1>4. ASSUME NEW p \in Procs, Kill(p) PROVE LockTypeOK' BY <1>4 DEF Kill
<1>5. CASE UNCHANGED lockVars BY <1>5 DEF lockVars
<1> QED BY <1>1, <1>2, <1>3, <1>4, <1>5 DEF LockNext

(* Type correctness of the lock.                                            *)
THEOREM LockTyping == ASSUME LockAssumption PROVE LockSpec => []LockTypeOK
<1>1. LockInit => LockTypeOK BY DEF LockInit, LockTypeOK, LockAssumption
<1>2. LockTypeOK /\ [LockNext]_lockVars => LockTypeOK' BY LockTypeStep
<1> QED BY <1>1, <1>2, PTL DEF LockSpec

-----------------------------------------------------------------------------
LEMMA LockInvStep ==
  ASSUME LockTypeOK, LockInv, [LockNext]_lockVars, LockAssumption, HoldsShort
  PROVE  LockInv'
<1> USE DEF LockTypeOK, LockInv, LockAssumption
<1>1. CASE Tick BY <1>1 DEF Tick
<1>2. ASSUME NEW p \in Procs, Ask(p) PROVE LockInv' BY <1>2 DEF Ask
<1>3. ASSUME NEW p \in Procs, Step(p) PROVE LockInv'
  <2>1. CASE MakeDir(p) BY <2>1 DEF MakeDir
  <2>2. CASE MkdirFails(p) BY <2>2 DEF MkdirFails
  <2>3. CASE FindStale(p) BY <2>3 DEF FindStale
  <2>4. CASE FindTaken(p) BY <2>4 DEF FindTaken
  <2>5. CASE Reclaim(p) BY <2>5 DEF Reclaim
  <2>6. CASE Stamp(p) BY <2>6 DEF Stamp
  <2>7. CASE Leave(p) BY <2>7 DEF Leave
  <2>8. CASE StopTrying(p) BY <2>8 DEF StopTrying
  <2> QED
    BY <1>3, <2>1, <2>2, <2>3, <2>4, <2>5, <2>6, <2>7, <2>8 DEF Step, Acquire
<1>4. ASSUME NEW p \in Procs, Kill(p) PROVE LockInv' BY <1>4 DEF Kill
<1>5. CASE UNCHANGED lockVars BY <1>5 DEF lockVars
<1> QED BY <1>1, <1>2, <1>3, <1>4, <1>5 DEF LockNext

(* Until an owner is killed, the lock directory always has a living owner    *)
(* whose stamp is fresh, and nobody is about to reclaim it.                   *)
THEOREM LockOwned == ASSUME LockAssumption, HoldsShort PROVE LockSpec => []LockInv
<1>1. LockInit => LockInv BY DEF LockInit, LockInv, LockAssumption
<1>2. LockTypeOK /\ LockInv /\ [LockNext]_lockVars => LockInv' BY LockInvStep
<1> QED BY <1>1, <1>2, LockTyping, PTL DEF LockSpec

(* Two radio operations never overlap.                                      *)
THEOREM LockExcludes == ASSUME LockAssumption, HoldsShort PROVE LockSpec => []Exclusion
<1>1. LockInv => Exclusion BY DEF LockInv, Exclusion, MutualExclusion
<1> QED BY <1>1, LockOwned, PTL

-----------------------------------------------------------------------------
(* With nobody killed, a step of the shell commands takes the lock, gives it *)
(* back, or changes neither who holds it nor who is inside.                  *)
LEMMA LockStepMaps ==
  ASSUME LockTypeOK, LockInv, LockInv', [LockNext]_lockVars, LockAssumption
  PROVE  [OneStep!ExclusiveNext]_<<IF dir = "absent" THEN Nobody ELSE maker,
                                   {p \in Procs : lockPc[p] \in Holding}, kills > 0>>
<1> DEFINE owner == IF dir = "absent" THEN Nobody ELSE maker
           within == {p \in Procs : lockPc[p] \in Holding}
<1> USE DEF LockTypeOK, LockAssumption
<1>1. CASE kills' > 0 BY <1>1 DEF OneStep!ExclusiveNext
<1>2. CASE ~(kills' > 0)
  <2>0. kills' = kills /\ kills = 0
    BY <1>2 DEF LockNext, Tick, Ask, Step, Acquire, MakeDir, MkdirFails, FindStale, FindTaken,
                Reclaim, Stamp, Leave, StopTrying, Kill, lockVars
  <2> USE <2>0
  <2>1. \A p \in Procs : lockPc[p] \in Holding <=> dir # "absent" /\ maker = p
    BY DEF LockInv
  <2>2. ASSUME NEW p \in Procs, MakeDir(p) PROVE OneStep!Take(p)
    <3>1. owner = Nobody /\ within = {} BY <2>1, <2>2 DEF MakeDir
    <3>2. owner' = p BY <2>2 DEF MakeDir
    <3>3. within' = {p} BY <2>1, <2>2 DEF MakeDir
    <3> QED BY <3>1, <3>2, <3>3 DEF OneStep!Take
  <2>3. ASSUME NEW p \in Procs, Leave(p) PROVE OneStep!Release(p)
    <3>1. owner = p /\ within = {p} BY <2>1, <2>3 DEF Leave
    <3>2. owner' = Nobody BY <2>3 DEF Leave
    <3>3. within' = {} BY <2>1, <2>3 DEF Leave
    <3> QED BY <3>1, <3>2, <3>3 DEF OneStep!Release
  <2>4. ASSUME NEW p \in Procs, Stamp(p) PROVE owner' = owner /\ within' = within
    <3>1. dir # "absent" BY <2>1, <2>4 DEF Stamp
    <3> QED BY <2>4, <3>1 DEF Stamp
  <2>5. ASSUME NEW p \in Procs,
               Ask(p) \/ MkdirFails(p) \/ FindStale(p) \/ FindTaken(p) \/ StopTrying(p)
        PROVE  owner' = owner /\ within' = within
    BY <2>5 DEF Ask, MkdirFails, FindStale, FindTaken, StopTrying
  <2>6. ASSUME NEW p \in Procs, Reclaim(p) PROVE FALSE BY <2>6 DEF Reclaim, LockInv
  <2>7. ASSUME NEW p \in Procs, Kill(p) PROVE FALSE BY <2>7 DEF Kill
  <2>8. CASE Tick \/ UNCHANGED lockVars
    <3>1. owner' = owner /\ within' = within BY <2>8 DEF Tick, lockVars
    <3> QED BY <3>1
  <2> QED
    BY <1>2, <2>2, <2>3, <2>4, <2>5, <2>6, <2>7, <2>8
    DEF LockNext, Step, Acquire, OneStep!ExclusiveNext
<1> QED BY <1>1, <1>2

(* Whatever the waiting processes read, compare and try to remove meanwhile, *)
(* the lock directory is a lock that is taken and given back in one step.    *)
THEOREM LockImplements ==
  ASSUME LockAssumption, HoldsShort PROVE LockSpec => LockIsOneStep
<1>1. LockInit => OneStep!ExclusiveInit
  BY DEF LockInit, OneStep!ExclusiveInit, LockAssumption
<1>2. LockTypeOK /\ LockInv /\ LockInv' /\ [LockNext]_lockVars
        => [OneStep!ExclusiveNext]_<<IF dir = "absent" THEN Nobody ELSE maker,
                                     {p \in Procs : lockPc[p] \in Holding}, kills > 0>>
  BY LockStepMaps
<1> QED
  BY <1>1, <1>2, LockTyping, LockOwned, PTL DEF LockSpec, LockIsOneStep, OneStep!ExclusiveSpec
-----------------------------------------------------------------------------
(* How many steps a process may still take for the lock and under it.        *)
WaitLeft(p) ==
    LET more == 3 * (MaxAttempts - attempts[p])
    IN  CASE lockPc[p] = "idle" -> 0
          [] lockPc[p] = "try" -> more + 2
          [] lockPc[p] = "look" -> more + 1
          [] lockPc[p] = "reclaim" -> more
          [] lockPc[p] = "stamp" -> 2
          [] OTHER -> 1

(* Who waits has attempts left.                                             *)
AttemptsLeft ==
    \A p \in Procs : lockPc[p] \in {"try", "look", "reclaim"} => attempts[p] < MaxAttempts

(* A process only ever comes nearer to the end of its wait and to its exit;   *)
(* only reclaiming, which counts as no attempt, makes it begin a round again. *)
WaitGoesOn ==
    [][\A p \in Procs : lockPc[p] \notin {"idle", "reclaim"} =>
          UNCHANGED <<lockPc[p], attempts[p]>> \/ WaitLeft(p)' < WaitLeft(p)]_lockVars

LEMMA WaitStep ==
  ASSUME LockAssumption, LockTypeOK, AttemptsLeft, LockNext
  PROVE  /\ AttemptsLeft'
         /\ \A p \in Procs : lockPc[p] \notin {"idle", "reclaim"} =>
               UNCHANGED <<lockPc[p], attempts[p]>> \/ WaitLeft(p)' < WaitLeft(p)
<1> USE DEF LockAssumption, LockTypeOK, AttemptsLeft
<1> DEFINE Goes(p) == lockPc[p] \notin {"idle", "reclaim"} =>
               UNCHANGED <<lockPc[p], attempts[p]>> \/ WaitLeft(p)' < WaitLeft(p)
           Others(p) == \A q \in Procs \ {p} : UNCHANGED <<lockPc[q], attempts[q]>>
<1>1. CASE Tick BY <1>1 DEF Tick
<1>2. ASSUME NEW p \in Procs, Ask(p) \/ Step(p) \/ Kill(p)
      PROVE  AttemptsLeft' /\ \A q \in Procs : Goes(q)
  <2>0. attempts[p] \in Nat /\ MaxAttempts \in Nat OBVIOUS
  <2>1. Others(p)
    BY <1>2 DEF Ask, Kill, Step, Acquire, MakeDir, MkdirFails, FindStale, FindTaken, Reclaim,
                Stamp, Leave, StopTrying
  <2>2. CASE Ask(p) BY <2>1, <2>2 DEF Ask
  <2>3. CASE Kill(p) \/ Leave(p) \/ StopTrying(p)
    <3>1. lockPc'[p] = "idle" BY <2>3 DEF Kill, Leave, StopTrying
    <3>2. WaitLeft(p)' = 0 BY <3>1 DEF WaitLeft
    <3>3. lockPc[p] # "idle" /\ (lockPc[p] # "reclaim" => WaitLeft(p) > 0)
      BY <2>3 DEF WaitLeft, Kill, Leave, StopTrying
    <3> QED BY <2>1, <3>1, <3>2, <3>3
  <2>4. CASE MakeDir(p) BY <2>1, <2>4 DEF MakeDir, WaitLeft
  <2>5. CASE MkdirFails(p) BY <2>1, <2>5 DEF MkdirFails, WaitLeft
  <2>6. CASE FindStale(p) BY <2>1, <2>6 DEF FindStale, WaitLeft
  <2>7. CASE FindTaken(p) BY <2>1, <2>7 DEF FindTaken, WaitLeft
  <2>8. CASE Reclaim(p) BY <2>1, <2>8 DEF Reclaim
  <2>9. CASE Stamp(p) BY <2>1, <2>9 DEF Stamp, WaitLeft
  <2> QED BY <1>2, <2>2, <2>3, <2>4, <2>5, <2>6, <2>7, <2>8, <2>9 DEF Step, Acquire
<1> QED BY <1>1, <1>2 DEF LockNext

(* The wait for the lock runs down by its attempts; with LockOwned, by which  *)
(* nobody reclaims until an owner is killed, what is left of WaitEnds is that *)
(* the shell goes on.                                                       *)
THEOREM WaitRunsDown == ASSUME LockAssumption PROVE LockSpec => WaitGoesOn
<1>1. LockInit => AttemptsLeft BY DEF LockInit, AttemptsLeft
<1>2. LockTypeOK /\ AttemptsLeft /\ [LockNext]_lockVars => AttemptsLeft'
  <2>1. CASE UNCHANGED lockVars BY <2>1 DEF lockVars, AttemptsLeft
  <2> QED BY <2>1, WaitStep
<1>3. LockTypeOK /\ AttemptsLeft /\ [LockNext]_lockVars =>
        [\A p \in Procs : lockPc[p] \notin {"idle", "reclaim"} =>
            UNCHANGED <<lockPc[p], attempts[p]>> \/ WaitLeft(p)' < WaitLeft(p)]_lockVars
  BY WaitStep
<1> QED BY <1>1, <1>2, <1>3, LockTyping, PTL DEF LockSpec, WaitGoesOn
=============================================================================
