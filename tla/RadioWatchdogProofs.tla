------------------------ MODULE RadioWatchdogProofs ------------------------
(***************************************************************************)
(* What the watchdog promises holds for any devices, any limits and any    *)
(* number of faults: it sends no more reboots than it may, no reboot       *)
(* before its time, and no second alert.                                   *)
(*                                                                         *)
(* Between a collect and the writes it causes the row lags behind what     *)
(* happened: the invariant says by how much at each place of the job.      *)
(***************************************************************************)
EXTENDS RadioWatchdog, TLAPS

(* The job has seen dev healthy and has not reset its row yet.              *)
SawHealthy == pc \in {"healthy", "recovered"} \/ (pc = "ingest" /\ saw)

(* The reboots sent and not recorded: one in hand, and one lost per fault.  *)
RebootsInv ==
    /\ SawHealthy => sent[dev] = 0 /\ alerts[dev] = 0
    /\ pc \in {"reboot", "record"} => reboots[dev] < MaxReboots
    /\ \A d \in Devices :
         sent[d] <= reboots[d] + faults + (IF pc = "record" /\ d = dev THEN 1 ELSE 0)

(* An alert leaves its flag behind, and is in hand only when none was sent. *)
AlertsInv ==
    /\ \A d \in Devices : alerts[d] <= 1 /\ (alerts[d] > 0 => exhausted[d])
    /\ pc = "giveup" => alerts[dev] = 0
    /\ pc = "alert" => alerts[dev] = 0 /\ exhausted[dev]

(* The counters of the row never run ahead of what they count.              *)
DueInv ==
    faults = 0 =>
      /\ \A d \in Devices : d \notin known => downPolls[d] = 0
      /\ \A d \in Devices : downPolls[d] <= streak[d]
                              \/ (d = dev /\ saw /\ pc \in {"ingest", "healthy"})
      /\ \A d \in Devices : since[d] <= gap[d] \/ (d = dev /\ pc = "record")
      /\ pc = "down" \/ (pc = "ingest" /\ ~saw)
           => streak[dev] = MinDownPolls \/ downPolls[dev] < streak[dev]
      /\ pc = "reboot" => streak[dev] = MinDownPolls /\ gap[dev] >= Cooldown

WatchdogInv == TypeOK /\ RebootsInv /\ AlertsInv /\ DueInv

-----------------------------------------------------------------------------
LEMMA RolesAreDevices ==
  ASSUME RolesAssumption
  PROVE  Roles \in Seq(Devices) /\ Roles[1] \in Devices
BY DEF RolesAssumption, Devices

LEMMA InitInv == ASSUME RolesAssumption, LimitsAssumption, Init PROVE WatchdogInv
<1>1. TodoOK BY DEF Init, TodoOK
<1>2. Roles[1] \in Devices BY RolesAreDevices
<1>3. TypeOK
  <2> USE DEF Init, LimitsAssumption
  <2>1. /\ 0 \in 0..MinDownPolls /\ 0 \in 0..MaxReboots /\ 0 \in 0..MaxFaults
        /\ Cooldown \in 0..Cooldown
    OBVIOUS
  <2> QED BY <1>1, <1>2, <2>1 DEF TypeOK
<1> QED
  BY <1>3 DEF Init, WatchdogInv, RebootsInv, AlertsInv, DueInv, SawHealthy, LimitsAssumption

(* The roles still to visit are devices.                                    *)
LEMMA Visit == ASSUME TypeOK, TakeRole PROVE dev' \in Devices /\ TodoOK'
<1>1. todo \in Seq(Devices) /\ todo # <<>> BY DEF TypeOK, TodoOK, TakeRole
<1>2. Head(todo) \in Devices /\ Tail(todo) \in Seq(Devices) BY <1>1
<1> QED BY <1>2 DEF TakeRole, TodoOK

LEMMA TodoStep == ASSUME RolesAssumption, TypeOK, [Next]_vars PROVE TodoOK'
<1>1. CASE BeginPoll BY <1>1, RolesAreDevices DEF BeginPoll, TodoOK
<1>2. CASE Collect \/ CollectFails BY <1>2, Visit DEF Collect, CollectFails
<1>3. CASE Abort BY <1>3 DEF Abort, TodoOK
<1>4. CASE ~BeginPoll /\ ~Collect /\ ~CollectFails /\ ~Abort
  <2>1. todo' = todo
    BY <1>4 DEF Next, PollTelemetry, EndPoll, Ingest, NoRow, CountDown, GiveUp, Alert,
           SendReboot, RecordReboot, ResetPolls, ResetReboots, Tick, Environment, Fade, Booted,
           ComeUp, ComeUpWedged, Wedge, Heal, Restart, Turns, job, vars
  <2> QED BY <2>1 DEF TypeOK, TodoOK
<1> QED BY <1>1, <1>2, <1>3, <1>4

LEMMA TypeStep ==
  ASSUME RolesAssumption, LimitsAssumption, WatchdogInv, [Next]_vars
  PROVE  TypeOK'
<1>0. TypeOK /\ TodoOK' BY TodoStep DEF WatchdogInv
<1> USE <1>0 DEF TypeOK, LimitsAssumption, row
<1>1. CASE BeginPoll \/ EndPoll BY <1>1 DEF BeginPoll, EndPoll, devices, history
<1>2. CASE Collect
  <2>1. dev' \in Devices BY <1>2, Visit DEF Collect
  <2>2. saw' \in BOOLEAN BY <1>2 DEF Collect, ReportsUp
  <2>3. 0 \in 0..MinDownPolls /\ UpTo(streak[dev'], MinDownPolls) \in 0..MinDownPolls
    <3>1. \A n \in 0..MinDownPolls : UpTo(n, MinDownPolls) \in 0..MinDownPolls BY DEF UpTo
    <3>2. streak[dev'] \in 0..MinDownPolls BY <2>1
    <3>3. UpTo(streak[dev'], MinDownPolls) \in 0..MinDownPolls BY <3>1, <3>2
    <3>4. 0 \in 0..MinDownPolls OBVIOUS
    <3> QED BY <3>3, <3>4
  <2>4. streak' \in [Devices -> 0..MinDownPolls]
    <3>1. PICK n \in 0..MinDownPolls : streak' = [streak EXCEPT ![dev'] = n]
      BY <1>2, <2>3 DEF Collect
    <3> QED BY <3>1
  <2>5. sent' \in [Devices -> Nat] /\ alerts' \in [Devices -> Nat] BY <1>2, <2>1 DEF Collect
  <2> QED BY <1>2, <2>1, <2>2, <2>4, <2>5 DEF Collect, devices
<1>3. CASE CollectFails BY <1>3, Visit DEF CollectFails, devices, history
<1>4. CASE Ingest \/ NoRow BY <1>4 DEF Ingest, NoRow, NextRole, devices, history
<1>5. CASE CountDown BY <1>5 DEF CountDown, UpTo, NextRole, devices, history
<1>6. CASE GiveUp BY <1>6 DEF GiveUp, NextRole, devices, history
<1>7. CASE Alert BY <1>7 DEF Alert, NextRole, devices
<1>8. CASE SendReboot
  <2>1. radio' \in [Devices -> {"on", "boot", "wedged"}] BY <1>8 DEF SendReboot
  <2>2. sent' \in [Devices -> Nat] /\ gap' \in [Devices -> 0..Cooldown]
    BY <1>8 DEF SendReboot
  <2> QED BY <1>8, <2>1, <2>2 DEF SendReboot
<1>9. CASE RecordReboot
  <2>1. reboots[dev] < MaxReboots BY <1>9 DEF RecordReboot, WatchdogInv, RebootsInv
  <2> QED BY <1>9, <2>1 DEF RecordReboot, NextRole, devices, history
<1>10. CASE ResetPolls BY <1>10 DEF ResetPolls, NextRole, devices, history
<1>11. CASE ResetReboots BY <1>11 DEF ResetReboots, NextRole, devices, history
<1>12. CASE Abort BY <1>12 DEF Abort, devices, history
<1>13. CASE Tick
  <2>1. \A n \in 0..Cooldown : UpTo(n, Cooldown) \in 0..Cooldown BY DEF UpTo
  <2>2. gap' \in [Devices -> 0..Cooldown] /\ since' \in [Devices -> 0..Cooldown]
    BY <1>13, <2>1 DEF Tick
  <2> QED BY <1>13, <2>2 DEF Tick, devices, job
<1>14. CASE Environment
  BY <1>14 DEF Environment, Fade, Booted, ComeUp, ComeUpWedged, Wedge, Heal, Restart, Turns, job,
              history
<1>15. CASE UNCHANGED vars BY <1>15 DEF vars, devices, job, history
<1> QED
  BY <1>1, <1>2, <1>3, <1>4, <1>5, <1>6, <1>7, <1>8, <1>9, <1>10, <1>11, <1>12, <1>13, <1>14,
     <1>15
  DEF Next, PollTelemetry

LEMMA RebootsStep == ASSUME LimitsAssumption, WatchdogInv, [Next]_vars PROVE RebootsInv'
<1> USE DEF TypeOK, LimitsAssumption, WatchdogInv, RebootsInv, SawHealthy, UpTo, NextRole,
            devices, row, job, history
<1>1. CASE BeginPoll \/ EndPoll BY <1>1 DEF BeginPoll, EndPoll
<1>2. CASE Collect BY <1>2, Visit DEF Collect, ReportsUp
<1>3. CASE CollectFails BY <1>3, Visit DEF CollectFails
<1>4. CASE Ingest \/ NoRow BY <1>4 DEF Ingest, NoRow
<1>5. CASE CountDown BY <1>5 DEF CountDown, Spent
<1>6. CASE GiveUp \/ Alert BY <1>6 DEF GiveUp, Alert
<1>7. CASE SendReboot BY <1>7 DEF SendReboot
<1>8. CASE RecordReboot BY <1>8 DEF RecordReboot
<1>9. CASE ResetPolls \/ ResetReboots BY <1>9 DEF ResetPolls, ResetReboots
<1>10. CASE Abort
  <2>1. pc' = "idle" /\ faults' = faults + 1 /\ UNCHANGED <<sent, reboots, alerts, dev>>
    BY <1>10 DEF Abort
  <2>2. \A d \in Devices : sent[d] \in Nat /\ reboots[d] \in Nat /\ faults \in Nat OBVIOUS
  <2> QED BY <2>1, <2>2
<1>11. CASE Tick BY <1>11 DEF Tick
<1>12. CASE Environment
  BY <1>12 DEF Environment, Fade, Booted, ComeUp, ComeUpWedged, Wedge, Heal, Restart, Turns
<1>13. CASE UNCHANGED vars BY <1>13 DEF vars
<1> QED
  BY <1>1, <1>2, <1>3, <1>4, <1>5, <1>6, <1>7, <1>8, <1>9, <1>10, <1>11, <1>12, <1>13
  DEF Next, PollTelemetry

LEMMA AlertsStep == ASSUME LimitsAssumption, WatchdogInv, [Next]_vars PROVE AlertsInv'
<1> USE DEF TypeOK, LimitsAssumption, WatchdogInv, AlertsInv, UpTo, NextRole,
            devices, row, job, history
<1>1. CASE BeginPoll \/ EndPoll BY <1>1 DEF BeginPoll, EndPoll
<1>2. CASE Collect BY <1>2, Visit DEF Collect, ReportsUp
<1>3. CASE CollectFails BY <1>3, Visit DEF CollectFails
<1>4. CASE Ingest \/ NoRow BY <1>4 DEF Ingest, NoRow
<1>5. CASE CountDown BY <1>5 DEF CountDown
<1>6. CASE GiveUp \/ Alert BY <1>6 DEF GiveUp, Alert
<1>7. CASE SendReboot BY <1>7 DEF SendReboot
<1>8. CASE RecordReboot BY <1>8 DEF RecordReboot
<1>9. CASE ResetPolls BY <1>9 DEF ResetPolls
<1>10. CASE ResetReboots BY <1>10 DEF ResetReboots, RebootsInv, SawHealthy
<1>11. CASE Abort BY <1>11 DEF Abort
<1>12. CASE Tick BY <1>12 DEF Tick
<1>13. CASE Environment
  BY <1>13 DEF Environment, Fade, Booted, ComeUp, ComeUpWedged, Wedge, Heal, Restart, Turns
<1>14. CASE UNCHANGED vars BY <1>14 DEF vars
<1> QED
  BY <1>1, <1>2, <1>3, <1>4, <1>5, <1>6, <1>7, <1>8, <1>9, <1>10, <1>11, <1>12, <1>13, <1>14
  DEF Next, PollTelemetry

LEMMA DueStep == ASSUME LimitsAssumption, WatchdogInv, [Next]_vars PROVE DueInv'
<1> USE DEF TypeOK, LimitsAssumption, WatchdogInv, DueInv, UpTo, NextRole,
            devices, row, job, history
<1>1. CASE BeginPoll \/ EndPoll BY <1>1 DEF BeginPoll, EndPoll
<1>2. CASE Collect BY <1>2, Visit DEF Collect, ReportsUp
<1>3. CASE CollectFails BY <1>3, Visit DEF CollectFails
<1>4. CASE Ingest \/ NoRow BY <1>4 DEF Ingest, NoRow
<1>5. CASE CountDown BY <1>5 DEF CountDown, Sustained, Cooled
<1>6. CASE GiveUp \/ Alert BY <1>6 DEF GiveUp, Alert
<1>7. CASE SendReboot BY <1>7 DEF SendReboot
<1>8. CASE RecordReboot BY <1>8 DEF RecordReboot
<1>9. CASE ResetPolls BY <1>9 DEF ResetPolls
<1>10. CASE ResetReboots BY <1>10 DEF ResetReboots
<1>11. CASE Abort BY <1>11 DEF Abort
<1>12. CASE Tick BY <1>12 DEF Tick
<1>13. CASE Environment
  BY <1>13 DEF Environment, Fade, Booted, ComeUp, ComeUpWedged, Wedge, Heal, Restart, Turns
<1>14. CASE UNCHANGED vars BY <1>14 DEF vars
<1> QED
  BY <1>1, <1>2, <1>3, <1>4, <1>5, <1>6, <1>7, <1>8, <1>9, <1>10, <1>11, <1>12, <1>13, <1>14
  DEF Next, PollTelemetry

(* What the watchdog knows at every place of its job (the invariant).        *)
THEOREM Invariance == ASSUME RolesAssumption, LimitsAssumption PROVE Spec => []WatchdogInv
<1>1. Init => WatchdogInv BY InitInv
<1>2. WatchdogInv /\ [Next]_vars => WatchdogInv'
  BY TypeStep, RebootsStep, AlertsStep, DueStep DEF WatchdogInv
<1> QED BY <1>1, <1>2, PTL DEF Spec

-----------------------------------------------------------------------------
(* Type correctness, with the counters within their limits.                  *)
THEOREM Typing == ASSUME RolesAssumption, LimitsAssumption PROVE Spec => []TypeOK
<1>1. WatchdogInv => TypeOK BY DEF WatchdogInv
<1> QED BY <1>1, Invariance, PTL

(* A radio that stays down is rebooted at most MAX_CONSECUTIVE_AUTO_REBOOTS   *)
(* times, and once more for every reboot a fault left unrecorded.            *)
THEOREM Bounded == ASSUME RolesAssumption, LimitsAssumption PROVE Spec => []RebootsAreBounded
<1>1. WatchdogInv => RebootsAreBounded
  <2> SUFFICES ASSUME WatchdogInv, NEW d \in Devices PROVE sent[d] <= MaxReboots + faults
    BY DEF RebootsAreBounded
  <2>1. reboots[d] \in 0..MaxReboots /\ sent[d] \in Nat /\ faults \in Nat /\ MaxReboots \in Nat
    BY DEF WatchdogInv, TypeOK, LimitsAssumption
  <2> QED BY <2>1 DEF WatchdogInv, RebootsInv
<1> QED BY <1>1, Invariance, PTL

(* An outage is never alerted twice.                                         *)
THEOREM Once == ASSUME RolesAssumption, LimitsAssumption PROVE Spec => []AlertedOnce
<1>1. WatchdogInv => AlertedOnce BY DEF WatchdogInv, AlertsInv, AlertedOnce
<1> QED BY <1>1, Invariance, PTL

(* No reboot comes before its third unhealthy report and its cooldown.       *)
THEOREM Due == ASSUME RolesAssumption, LimitsAssumption PROVE Spec => RebootsAreDue
<1>1. WatchdogInv /\ [Next]_vars =>
        [\A d \in Devices :
           sent'[d] > sent[d] /\ faults = 0
             => streak[d] >= MinDownPolls /\ gap[d] >= Cooldown]_vars
  <2> SUFFICES ASSUME WatchdogInv, Next, NEW d \in Devices, sent'[d] > sent[d], faults = 0
               PROVE  streak[d] >= MinDownPolls /\ gap[d] >= Cooldown
    OBVIOUS
  <2>1. CASE SendReboot
    BY <2>1 DEF SendReboot, WatchdogInv, DueInv, TypeOK, LimitsAssumption
  <2>2. CASE Collect
    <3>1. sent'[d] = 0 \/ sent'[d] = sent[d] BY <2>2 DEF Collect, WatchdogInv, TypeOK
    <3> QED BY <3>1 DEF WatchdogInv, TypeOK
  <2>3. CASE ~SendReboot /\ ~Collect
    <3>1. sent' = sent
      BY <2>3 DEF Next, PollTelemetry, BeginPoll, EndPoll, CollectFails, Ingest, NoRow,
             CountDown, GiveUp, Alert, RecordReboot, ResetPolls, ResetReboots, Abort, Tick,
             Environment, Fade, Booted, ComeUp, ComeUpWedged, Wedge, Heal, Restart, Turns,
             history
    <3> QED BY <3>1 DEF WatchdogInv, TypeOK
  <2> QED BY <2>1, <2>2, <2>3
<1> QED BY <1>1, Invariance, PTL DEF Spec, RebootsAreDue
=============================================================================
