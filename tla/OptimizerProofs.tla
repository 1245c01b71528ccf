-------------------------- MODULE OptimizerProofs --------------------------
(***************************************************************************)
(* What the pass read some queries ago still holds when it commands: the   *)
(* invariant says, for each place of the pass, what it has established.    *)
(***************************************************************************)
EXTENDS Optimizer, TLAPS

(* Past _has_pending_command: nothing of the link is in flight.             *)
CheckedInv ==
    \/ pc \in {"current", "cycle", "emit"}
    \/ link = HaLow /\ pc \in {"cooldown", "retries", "widen", "narrow"}
    => target[link] = NoChannel

(* Past _in_cooldown: the newest command is a cooldown old.                 *)
CooledInv ==
    \/ pc \in {"cycle", "emit"}
    \/ link = HaLow /\ pc \in {"retries", "widen", "narrow"}
    \/ link = Wifi24 /\ pc \in {"pending", "current"}
    => age[link] >= Cooldown

(* The channel picked has not failed, now as when it was picked.            *)
GoalInv ==
    /\ pc = "emit" => goal \notin failed[link]
    /\ pc \in {"widen", "narrow"} => link = HaLow

(* Past the telemetry query: the current channel is known.                  *)
ReadInv == link = HaLow /\ pc \in {"cooldown", "retries"} => cur # NoChannel

NearInv == pc = "emit" /\ link = HaLow => Near(goal, cur)

PassInv == TypeOK /\ CheckedInv /\ CooledInv /\ GoalInv /\ ReadInv /\ FailedStaysOut

-----------------------------------------------------------------------------
USE DEF HaLow, Wifi24, Links

LEMMA InitInv == ASSUME PlanAssumption, PassAssumption, Init PROVE PassInv
<1>1. TypeOK BY DEF Init, TypeOK, PlanAssumption, PassAssumption
<1> QED
  BY <1>1 DEF Init, PassInv, CheckedInv, CooledInv, GoalInv, ReadInv, FailedStaysOut, PlanAssumption,
     TypeOK

(* What a query that only moves the pass on leaves as it was.               *)
LEMMA GotoType ==
  ASSUME TypeOK, NEW step \in {"known", "pending", "current", "cooldown", "retries", "cycle",
                               "widen", "narrow"},
         Goto(step), step \in {"cycle", "widen", "narrow"} => cur # NoChannel,
         UNCHANGED <<world, faults>>, pc # "emit"
  PROVE  TypeOK'
BY DEF TypeOK, Goto, world

LEMMA NextLinkType ==
  ASSUME TypeOK, NextLink, UNCHANGED <<world, faults>>
  PROVE  TypeOK'
BY DEF TypeOK, NextLink, world

LEMMA PickType ==
  ASSUME PlanAssumption, TypeOK, NEW c \in Channels, goal' = c, pc' = "emit",
         UNCHANGED <<on, link, cur>>, UNCHANGED <<world, faults>>, cur # NoChannel
  PROVE  TypeOK'
BY DEF TypeOK, world, PlanAssumption

LEMMA PassTypes == ASSUME PassInv, PlanAssumption, PassAssumption, Pass PROVE TypeOK'
<1> USE DEF PassInv
<1>1. CASE BeginPass BY <1>1 DEF BeginPass, TypeOK, world
<1>2. CASE ReadDevice \/ ReadPending \/ ReadCooldown
  BY <1>2, NextLinkType, GotoType DEF ReadDevice, ReadPending, ReadCooldown, Check, After, TypeOK
<1>3. CASE ReadCurrent
  <2>1. CASE report[link] = NoChannel BY <1>3, <2>1, NextLinkType DEF ReadCurrent
  <2>2. CASE report[link] # NoChannel
    <3>1. cur' \in Channels /\ cur' # NoChannel BY <1>3, <2>2 DEF ReadCurrent, TypeOK
    <3>2. pc = "current" /\ pc' \in {"cooldown", "cycle"} /\ UNCHANGED <<on, link, goal>>
      BY <1>3, <2>2 DEF ReadCurrent, After, TypeOK
    <3> QED BY <1>3, <3>1, <3>2 DEF ReadCurrent, TypeOK, world
  <2> QED BY <2>1, <2>2
<1>4. CASE ReadRetries
  <2>1. CASE NextLink BY <1>4, <2>1, NextLinkType DEF ReadRetries
  <2>2. CASE Goto("cooldown") BY <1>4, <2>2 DEF ReadRetries, Goto, TypeOK, world
  <2>3. ASSUME NEW step \in {"cycle", "widen"}, Goto(step), link = HaLow PROVE TypeOK'
    <3>1. cur # NoChannel BY <1>4, <2>3 DEF ReadRetries, ReadInv
    <3> QED BY <1>4, <2>3, <3>1 DEF ReadRetries, Goto, TypeOK, world
  <2> QED BY <1>4, <2>1, <2>2, <2>3 DEF ReadRetries, TypeOK
<1>5. CASE Cycle
  <2>1. cur # NoChannel BY <1>5 DEF Cycle, TypeOK
  <2>2. CASE NextLink BY <1>5, <2>2, NextLinkType DEF Cycle
  <2> QED BY <1>5, <2>1, <2>2, PickType DEF Cycle, PickFrom
<1>6. CASE KeepBandwidth
  <2>1. CASE NextLink BY <1>6, <2>1, NextLinkType DEF KeepBandwidth
  <2>2. CASE pc = "widen" /\ Goto("narrow")
    BY <1>6, <2>2 DEF KeepBandwidth, Goto, TypeOK, world
  <2> QED BY <1>6, <2>1, <2>2 DEF KeepBandwidth
<1>7. CASE Widen
  <2>1. cur # NoChannel BY <1>7 DEF Widen, TypeOK
  <2>2. CASE Goto("narrow") BY <1>7, <2>1, <2>2 DEF Widen, Goto, TypeOK, world
  <2> QED BY <1>7, <2>1, <2>2, PickType DEF Widen, PickFrom
<1>8. CASE Narrow
  <2>1. cur # NoChannel BY <1>8 DEF Narrow, TypeOK
  <2>2. CASE NextLink BY <1>8, <2>2, NextLinkType DEF Narrow
  <2> QED BY <1>8, <2>1, <2>2, PickType DEF Narrow, PickFrom
<1>9. CASE UnknownTier BY <1>9 DEF UnknownTier, Ends, TypeOK, world
<1>10. CASE Emit
  <2>1. target' \in [Links -> Channels \cup {NoChannel}] BY <1>10 DEF Emit, TypeOK
  <2>2. age' \in [Links -> 0..Cooldown] BY <1>10 DEF Emit, TypeOK, PassAssumption
  <2>3. NextLink /\ UNCHANGED <<known, at, report, bad, failed, faults>> BY <1>10 DEF Emit
  <2> QED BY <2>1, <2>2, <2>3 DEF NextLink, TypeOK
<1> QED
  BY <1>1, <1>2, <1>3, <1>4, <1>5, <1>6, <1>7, <1>8, <1>9, <1>10 DEF Pass

LEMMA PassKeeps ==
  ASSUME PassInv, PassAssumption, Pass
  PROVE  CheckedInv' /\ CooledInv' /\ GoalInv' /\ ReadInv' /\ FailedStaysOut'
<1> USE DEF PassInv, TypeOK, CheckedInv, CooledInv, GoalInv, ReadInv, FailedStaysOut, world
<1>1. CASE BeginPass BY <1>1 DEF BeginPass
<1>2. CASE ReadDevice BY <1>2 DEF ReadDevice, Check, After, Goto, NextLink
<1>3. CASE ReadPending
  BY <1>3 DEF ReadPending, HasPendingCommand, Check, After, Goto, NextLink
<1>4. CASE ReadCooldown
  <2>1. CASE InCooldown(link) BY <1>4, <2>1 DEF ReadCooldown, Check, NextLink
  <2>2. CASE age[link] >= Cooldown /\ pc = "cooldown" /\ Goto(After("cooldown"))
    BY <1>4, <2>2 DEF ReadCooldown, Check, After, Goto
  <2>3. age[link] \in Int /\ Cooldown \in Int BY DEF PassAssumption
  <2> QED BY <1>4, <2>1, <2>2, <2>3 DEF ReadCooldown, InCooldown, Check
<1>5. CASE ReadCurrent BY <1>5 DEF ReadCurrent, After, NextLink
<1>6. CASE ReadRetries BY <1>6 DEF ReadRetries, Goto, NextLink
<1>7. CASE Cycle BY <1>7 DEF Cycle, PickFrom, FirstUntried, NextLink
<1>8. CASE KeepBandwidth BY <1>8 DEF KeepBandwidth, Goto, NextLink
<1>9. CASE Widen BY <1>9 DEF Widen, PickFrom, FirstUntried, Goto
<1>10. CASE Narrow BY <1>10 DEF Narrow, PickFrom, FirstUntried, NextLink
<1>11. CASE UnknownTier BY <1>11 DEF UnknownTier, Ends
<1>12. CASE Emit BY <1>12 DEF Emit, NextLink
<1> QED
  BY <1>1, <1>2, <1>3, <1>4, <1>5, <1>6, <1>7, <1>8, <1>9, <1>10, <1>11, <1>12 DEF Pass

LEMMA FailedStep ==
  ASSUME NEW l \in Links, target[l] \in Channels, failed \in [Links -> SUBSET Channels],
         failed' = failed \/ failed' = [failed EXCEPT ![l] = @ \cup {target[l]}]
  PROVE  failed' \in [Links -> SUBSET Channels]
<1>1. failed[l] \cup {target[l]} \in SUBSET Channels OBVIOUS
<1>2. \A k \in Links : failed'[k] \in SUBSET Channels BY <1>1
<1> QED BY <1>2

LEMMA RestKeeps ==
  ASSUME PassInv, PlanAssumption, PassAssumption, Abort \/ World \/ UNCHANGED vars
  PROVE  PassInv'
<1> USE DEF PassInv, TypeOK, CheckedInv, CooledInv, GoalInv, ReadInv, FailedStaysOut, pass,
            HasPendingCommand, PassAssumption
<1>1. CASE Abort BY <1>1 DEF Abort, Ends, world
<1>2. CASE Tick
  <2>1. \A l \in Links : age'[l] \in 0..Cooldown /\ age'[l] >= age[l] BY <1>2 DEF Tick
  <2>2. age' \in [Links -> 0..Cooldown] BY <1>2, <2>1 DEF Tick
  <2>3. UNCHANGED <<known, at, report, bad, target, failed, pass, faults>> BY <1>2 DEF Tick
  <2>4. TypeOK' BY <2>2, <2>3
  <2>5. CheckedInv' /\ GoalInv' /\ ReadInv' /\ FailedStaysOut' BY <2>3
  <2>6. CooledInv' BY <2>1, <2>3
  <2> QED BY <2>4, <2>5, <2>6
<1>3. ASSUME NEW l \in Links, Report(l) PROVE PassInv' BY <1>3 DEF Report
<1>4. ASSUME NEW l \in Links, Misreport(l) PROVE PassInv' BY <1>4 DEF Misreport, Dead
<1>5. ASSUME NEW l \in Links, Fade(l) PROVE PassInv' BY <1>5 DEF Fade
<1>6. ASSUME NEW l \in Links, Settle(l) \/ NeverLearnt(l) PROVE PassInv'
  <2>1. target[l] \in Channels /\ target' = [target EXCEPT ![l] = NoChannel]
    BY <1>6 DEF Settle, Acked, Reverted, NeverLearnt
  <2>2. UNCHANGED <<known, report, bad, age, pass>>
    BY <1>6 DEF Settle, Acked, Reverted, NeverLearnt
  <2>3. at' \in [Links -> Channels] BY <1>6, <2>1 DEF Settle, Acked, Reverted, NeverLearnt
  <2>4. failed' = failed \/ failed' = [failed EXCEPT ![l] = @ \cup {target[l]}]
    BY <1>6 DEF Settle, Acked, Reverted, NeverLearnt
  <2>5. failed' \in [Links -> SUBSET Channels]
    <3>1. failed \in [Links -> SUBSET Channels] OBVIOUS
    <3> QED BY <2>1, <2>4, <3>1, FailedStep
  <2>6. faults' \in 0..MaxFaults
    <3>1. faults' = faults \/ (faults < MaxFaults /\ faults' = faults + 1)
      BY <1>6 DEF Settle, Acked, Reverted, NeverLearnt
    <3>2. faults \in 0..MaxFaults /\ MaxFaults \in Nat OBVIOUS
    <3> HIDE DEF PassInv, TypeOK, CheckedInv, CooledInv, GoalInv, ReadInv, FailedStaysOut
    <3> QED BY <3>1, <3>2
  <2>7. target' \in [Links -> Channels \cup {NoChannel}] BY <2>1
  <2>8. TypeOK' BY <2>2, <2>3, <2>5, <2>6, <2>7
  <2>9. CheckedInv' /\ CooledInv' /\ ReadInv' BY <2>1, <2>2
  <2>10. GoalInv' BY <2>1, <2>2, <2>4
  <2>11. FailedStaysOut'
    <3>1. NoChannel \notin failed'[l] BY <2>5 DEF PlanAssumption
    <3>2. \A k \in Links \ {l} : failed'[k] = failed[k] /\ target'[k] = target[k]
      BY <2>1, <2>4
    <3> QED BY <2>1, <3>1, <3>2
  <2> QED BY <2>8, <2>9, <2>10, <2>11
<1>7. CASE UNCHANGED vars BY <1>7 DEF vars, world
<1> QED BY <1>1, <1>2, <1>3, <1>4, <1>5, <1>6, <1>7 DEF World

(* What the pass has established at each place (the invariant).              *)
THEOREM Invariance == ASSUME PlanAssumption, PassAssumption PROVE Spec => []PassInv
<1>1. Init => PassInv BY InitInv
<1>2. PassInv /\ [Next]_vars => PassInv'
  BY PassTypes, PassKeeps, RestKeeps DEF Next, PassInv
<1> QED BY <1>1, <1>2, PTL DEF Spec

-----------------------------------------------------------------------------
(* Type correctness: a channel is known wherever one is needed.              *)
THEOREM Typing == ASSUME PlanAssumption, PassAssumption PROVE Spec => []TypeOK
<1>1. PassInv => TypeOK BY DEF PassInv
<1> QED BY <1>1, Invariance, PTL

(* For any channel plan, a channel that was reverted is not commanded again. *)
THEOREM NotAgain == ASSUME PlanAssumption, PassAssumption PROVE Spec => []FailedStaysOut
<1>1. PassInv => FailedStaysOut BY DEF PassInv
<1> QED BY <1>1, Invariance, PTL

(* No other action puts a command in flight.                                *)
LEMMA OnlyEmit ==
  ASSUME Next, ~Emit
  PROVE  target' = target \/ \E l \in Links : target' = [target EXCEPT ![l] = NoChannel]
BY DEF Next, Pass, BeginPass, ReadDevice, ReadPending, ReadCooldown, Check, ReadCurrent,
       ReadRetries, Cycle, KeepBandwidth, Widen, Narrow, UnknownTier, Abort, World, Tick,
       Report, Misreport, Fade, Settle, Acked, Reverted, NeverLearnt, world

(* Whatever the settings, commands of a link are a cooldown apart and never   *)
(* two in flight.                                                            *)
THEOREM Spaced == ASSUME PlanAssumption, PassAssumption PROVE Spec => ChangesAreSpaced
<1>1. PassInv /\ [Next]_vars =>
        [\A l \in Links :
           target'[l] # target[l] /\ target'[l] # NoChannel
             => age[l] >= Cooldown /\ target[l] = NoChannel]_vars
  <2> SUFFICES ASSUME PassInv, Next, NEW l \in Links, target'[l] # target[l],
                      target'[l] # NoChannel
               PROVE  age[l] >= Cooldown /\ target[l] = NoChannel
    OBVIOUS
  <2>1. CASE Emit BY <2>1 DEF Emit, PassInv, TypeOK, CheckedInv, CooledInv
  <2>2. CASE ~Emit BY <2>2, OnlyEmit DEF PassInv, TypeOK
  <2> QED BY <2>1, <2>2
<1> QED BY <1>1, Invariance, PTL DEF Spec, ChangesAreSpaced

-----------------------------------------------------------------------------
(* The picks: a channel of the list that was asked for.                      *)

LEMMA ListOf ==
  ASSUME PlanAssumption, NEW bw \in Bandwidths
  PROVE  /\ ValidChannels(HaLow, bw) \in Seq(Channels)
         /\ \A i \in 1..Len(ValidChannels(HaLow, bw)) : BwOf[ValidChannels(HaLow, bw)[i]] = bw
BY DEF PlanAssumption, ValidChannels

LEMMA TierOf ==
  ASSUME PlanAssumption, NEW i \in 1..Len(Tiers)
  PROVE  Tier(Tiers[i]) = i /\ Tiers[i] \in Bandwidths
BY DEF PlanAssumption, Tier, Bandwidths

LEMMA TierIs ==
  ASSUME PlanAssumption, NEW bw \in Bandwidths
  PROVE  Tier(bw) \in 1..Len(Tiers) /\ Tiers[Tier(bw)] = bw
BY DEF PlanAssumption, Tier, Bandwidths

(* A rotation holds the channels of its list and no other.                  *)
LEMMA RotationIn ==
  ASSUME NEW S, NEW list \in Seq(S), NEW c, NEW i \in 1..Len(Rotation(list, c))
  PROVE  \E j \in 1..Len(list) : Rotation(list, c)[i] = list[j]
<1> DEFINE n == Len(list)
<1> DEFINE start == IF \E j \in 1..n : list[j] = c
                      THEN CHOOSE j \in 1..n : list[j] = c ELSE 0
<1>1. n \in Nat /\ start \in 0..n OBVIOUS
<1>2. Rotation(list, c) = [step \in 1..n |-> list[((start - 1 + step) % n) + 1]]
  BY DEF Rotation
<1>3. i \in 1..n BY <1>1, <1>2
<1> HIDE DEF n, start
<1>4. ((start - 1 + i) % n) + 1 \in 1..n BY <1>1, <1>3
<1> QED BY <1>2, <1>3, <1>4 DEF n

LEMMA NearStep ==
  ASSUME PlanAssumption, PassInv, NearInv, [Next]_vars
  PROVE  NearInv'
<1> USE DEF PassInv
<1>1. ASSUME pc \in {"cycle", "widen", "narrow"}, link' = HaLow, pc' = "emit",
             UNCHANGED <<link, cur>>, NEW bw \in Bandwidths, BwOf[goal'] = bw,
             \/ bw = BwOf[cur]
             \/ BwOf[cur] \in Bandwidths /\ Tier(bw) - Tier(BwOf[cur]) \in {-1, 1}
      PROVE  NearInv'
  BY <1>1 DEF NearInv, Near
<1>2. ASSUME Cycle, pc' = "emit", link' = HaLow PROVE NearInv'
  <2> DEFINE bw == BwOf[cur]
  <2> DEFINE list == ValidChannels(HaLow, bw)
  <2>1. FirstUntried(Rotation(list, cur), failed[link], goal') /\ UNCHANGED <<link, cur>>
    BY <1>2 DEF Cycle, PickFrom, NextLink, TypeOK
  <2>2. PICK i \in 1..Len(Rotation(list, cur)) : goal' = Rotation(list, cur)[i]
    BY <2>1 DEF FirstUntried
  <2>3. bw \in Bandwidths
    <3>1. CASE bw \notin Bandwidths
      <4>1. list = <<>> BY <3>1 DEF ValidChannels
      <4> HIDE DEF list
      <4>2. list \in Seq(Channels) BY <4>1
      <4>3. \E j \in 1..Len(list) : Rotation(list, cur)[i] = list[j] BY <4>2, RotationIn
      <4> QED BY <4>1, <4>3
    <3> QED BY <3>1
  <2>4. list \in Seq(Channels) BY <2>3, ListOf
  <2>5. PICK j \in 1..Len(list) : goal' = list[j]
    <3> HIDE DEF list
    <3>1. \E j \in 1..Len(list) : Rotation(list, cur)[i] = list[j] BY <2>4, RotationIn
    <3> QED BY <2>2, <3>1
  <2>6. BwOf[goal'] = bw BY <2>3, <2>5, ListOf
  <2> QED BY <1>1, <1>2, <2>1, <2>3, <2>6 DEF Cycle
<1>3. ASSUME Widen, pc' = "emit", link' = HaLow PROVE NearInv'
  <2> DEFINE t == Tier(BwOf[cur])
  <2> DEFINE bw == Tiers[t + 1]
  <2>1. t \in 1..Len(Tiers) /\ t + 1 \in 1..Len(Tiers)
    <3>1. Len(Tiers) \in Nat BY DEF PlanAssumption
    <3>2. t \in 1..Len(Tiers) /\ t < Len(Tiers) BY <1>3, TierIs DEF Widen
    <3> QED BY <3>1, <3>2
  <2>2. Tier(bw) = t + 1 /\ bw \in Bandwidths BY <2>1, TierOf
  <2>3. FirstUntried(ValidChannels(HaLow, bw), failed[link], goal') /\ UNCHANGED <<link, cur>>
    BY <1>3 DEF Widen, PickFrom, Goto, TypeOK
  <2>4. BwOf[goal'] = bw BY <2>2, <2>3, ListOf DEF FirstUntried
  <2>5. Tier(bw) - t \in {-1, 1} BY <2>1, <2>2
  <2> QED BY <1>1, <1>3, <2>2, <2>3, <2>4, <2>5 DEF Widen
<1>4. ASSUME Narrow, pc' = "emit", link' = HaLow PROVE NearInv'
  <2> DEFINE t == Tier(BwOf[cur])
  <2> DEFINE bw == Tiers[t - 1]
  <2>1. t \in 1..Len(Tiers) /\ t - 1 \in 1..Len(Tiers)
    <3>1. Len(Tiers) \in Nat BY DEF PlanAssumption
    <3>2. t \in 1..Len(Tiers) /\ t > 1 BY <1>4, TierIs DEF Narrow
    <3> QED BY <3>1, <3>2
  <2>2. Tier(bw) = t - 1 /\ bw \in Bandwidths BY <2>1, TierOf
  <2>3. FirstUntried(ValidChannels(HaLow, bw), failed[link], goal') /\ UNCHANGED <<link, cur>>
    BY <1>4 DEF Narrow, PickFrom, NextLink, TypeOK
  <2>4. BwOf[goal'] = bw BY <2>2, <2>3, ListOf DEF FirstUntried
  <2>5. Tier(bw) - t \in {-1, 1} BY <2>1, <2>2
  <2> QED BY <1>1, <1>4, <2>2, <2>3, <2>4, <2>5 DEF Narrow
<1>5. CASE ~Cycle /\ ~Widen /\ ~Narrow
  <2>1. pc' # "emit" \/ UNCHANGED <<pc, link, cur, goal>>
    BY <1>5 DEF Next, Pass, BeginPass, ReadDevice, ReadPending, ReadCooldown, Check, After,
           ReadCurrent, ReadRetries, KeepBandwidth, UnknownTier, Emit, Goto, NextLink, Ends,
           Abort, World, Tick, Report, Misreport, Fade, Settle, Acked, Reverted, NeverLearnt,
           pass, vars, TypeOK
  <2> QED BY <2>1 DEF NearInv, Near
<1> QED BY <1>2, <1>3, <1>4, <1>5 DEF NearInv

(* For any plan whose lists do not overlap, a HaLow command keeps the         *)
(* bandwidth reported last or moves to a tier next to it.                    *)
THEOREM OneTier == ASSUME PlanAssumption, PassAssumption PROVE Spec => OneTierAtATime
<1>1. Init => NearInv BY DEF Init, NearInv
<1>2. PassInv /\ NearInv /\ [Next]_vars => NearInv' BY NearStep
<1>3. PassInv /\ NearInv /\ [Next]_vars =>
        [target'[HaLow] # target[HaLow] /\ target'[HaLow] # NoChannel
           => Near(target'[HaLow], cur)]_vars
  <2> SUFFICES ASSUME PassInv, NearInv, Next, target'[HaLow] # target[HaLow],
                      target'[HaLow] # NoChannel
               PROVE  Near(target'[HaLow], cur)
    OBVIOUS
  <2>1. CASE Emit BY <2>1 DEF Emit, PassInv, TypeOK, NearInv
  <2>2. CASE ~Emit BY <2>2, OnlyEmit DEF PassInv, TypeOK
  <2> QED BY <2>1, <2>2
<1> QED BY <1>1, <1>2, <1>3, Invariance, PTL DEF Spec, OneTierAtATime
=============================================================================
