----------------------------- MODULE Optimizer -----------------------------
(***************************************************************************)
(* run_optimizer_pass: when the optimizer changes a channel, and to which. *)
(* CommandJobs has what becomes of a command in the server's other jobs;   *)
(* here a command is in flight until it gets its outcome.  The pass reads  *)
(* the database one query at a time, each an action, while the radios,     *)
(* their telemetry and the outcomes go on.                                 *)
(***************************************************************************)
EXTENDS Integers, Sequences

CONSTANTS
    Tiers,       \* BANDWIDTH_TIERS
    Plan,        \* US_CHANNELS_BY_BANDWIDTH_MHZ
    Channels24,  \* WIFI24_CHANNELS
    BwOf,        \* the bandwidth of each channel a radio may report
    Cooldown,    \* channel_cooldown_minutes, in ticks
    Deployments, \* bound: the sets of links whose device has a row
    Home,        \* the channel each radio was set up with
    MaxFaults,   \* bound: passes that end by an error and outcomes never learnt
    NoChannel

VARIABLES
    known,   \* the links whose device has a row
    at,      \* per link: the channel its radio is configured to
    report,  \* the channel (and with it the bandwidth) of its newest telemetry row
    bad,     \* its average retries are at or over the threshold
    target,  \* the channel of its pending or applied command, or NoChannel
    failed,  \* the channels of its commands with status 'reverted'
    age,     \* now - created_at of its newest command, held at Cooldown
    on,      \* the per-behaviour switches this pass read
    link,    \* the link it is evaluating
    pc,      \* the query it comes to
    cur,     \* cur_channel, current_channel
    goal,    \* next_channel, new_channel
    faults

world == <<known, at, report, bad, target, failed, age>>
pass  == <<on, link, pc, cur, goal>>
vars  == <<world, pass, faults>>

HaLow  == "halow_operating_freq"
Wifi24 == "wifi24_channel"
Links  == {HaLow, Wifi24}

Channels == DOMAIN BwOf
Bandwidths == {Tiers[i] : i \in 1..Len(Tiers)}

ASSUME PlanAssumption ==
    /\ Tiers \in Seq(Int) /\ Tiers # <<>>
    /\ \A i, j \in 1..Len(Tiers) : Tiers[i] = Tiers[j] => i = j
    /\ BwOf \in [Channels -> Int]
    /\ NoChannel \notin Channels
    /\ Plan \in [Bandwidths -> Seq(Channels)]
    /\ Channels24 \in Seq(Channels)
    /\ \A b \in Bandwidths : \A i \in 1..Len(Plan[b]) : BwOf[Plan[b][i]] = b
ASSUME PassAssumption ==
    /\ Cooldown \in Nat /\ MaxFaults \in Nat
    /\ Deployments \subseteq SUBSET Links
    /\ Home \in [Links -> Channels]

Switches == {"halow_channel_cycling_enabled", "halow_bandwidth_changes_enabled",
             "wifi24_channel_cycling_enabled"}

Init ==
    /\ known \in Deployments
    /\ at = Home
    /\ report = [l \in Links |-> NoChannel]
    /\ bad = [l \in Links |-> FALSE]
    /\ target = [l \in Links |-> NoChannel]
    /\ failed = [l \in Links |-> {}]
    /\ age = [l \in Links |-> Cooldown]
    /\ on = {} /\ link = HaLow /\ pc = "idle" /\ cur = NoChannel /\ goal = NoChannel
    /\ faults = 0

-----------------------------------------------------------------------------
(* What the pass looks up.                                                 *)

HasPendingCommand(l) == target[l] # NoChannel

InCooldownShort(l) == age[l] + 1 < Cooldown  \* mutant: one tick too few
InCooldown(l) == age[l] < Cooldown

(* halow_channel_plan.valid_channels, and the one list of the other link.    *)
ValidChannels(l, bw) ==
    IF l = Wifi24 THEN Channels24 ELSE IF bw \in Bandwidths THEN Plan[bw] ELSE <<>>

(* Mutant of Rotation: the others from the start of the list, wherever c is.  *)
OthersInOrder(list, c) == SelectSeq(list, LAMBDA d : d # c)

(* The channels after c, in the order of the list and around its end, c last; *)
(* from the start when c is not in it.                                      *)
Rotation(list, c) ==
    LET n == Len(list)
        start == IF \E i \in 1..n : list[i] = c
                   THEN CHOOSE i \in 1..n : list[i] = c ELSE 0
    IN [step \in 1..n |-> list[((start - 1 + step) % n) + 1]]

FirstOf(list, tried, c) == list # <<>> /\ c = list[1]  \* mutant: what failed is forgotten

FirstUntried(list, tried, c) ==
    \E i \in 1..Len(list) :
        /\ c = list[i] /\ c \notin tried
        /\ \A j \in 1..(i - 1) : list[j] \in tried

Goto(step) == pc' = step /\ UNCHANGED <<on, link, cur, goal>>

(* The evaluation of the link returns: the other link, or the end.           *)
NextLink ==
    /\ IF link = HaLow /\ "wifi24_channel_cycling_enabled" \in on
         THEN link' = Wifi24 /\ pc' = "known"
         ELSE link' = HaLow /\ pc' = "idle"
    /\ on' = IF pc' = "idle" THEN {} ELSE on
    /\ cur' = NoChannel /\ goal' = NoChannel

-----------------------------------------------------------------------------
(* The pass, query by query.                                               *)

(* The switches are read once; the master switch is off: no pass.            *)
BeginPass ==
    /\ pc = "idle"
    /\ on' \in SUBSET Switches /\ on' # {}
    /\ link' = IF on' = {"wifi24_channel_cycling_enabled"} THEN Wifi24 ELSE HaLow
    /\ pc' = "known"
    /\ UNCHANGED <<world, cur, goal, faults>>

(* The guards come in another order for each link.                          *)
After(step) ==
    IF link = HaLow
      THEN CASE step = "known" -> "pending" [] step = "pending" -> "current"
             [] step = "current" -> "cooldown" [] step = "cooldown" -> "retries"
      ELSE CASE step = "known" -> "retries" [] step = "cooldown" -> "pending"
             [] step = "pending" -> "current" [] step = "current" -> "cycle"

Check(step, proceed) ==
    /\ pc = step
    /\ IF proceed THEN Goto(After(step)) ELSE NextLink
    /\ UNCHANGED <<world, faults>>

ReadDevice   == Check("known", link \in known)
ReadPending  == Check("pending", ~HasPendingCommand(link))
ReadCooldown == Check("cooldown", ~InCooldown(link))

ReadCurrent ==
    /\ pc = "current"
    /\ IF report[link] = NoChannel THEN NextLink
       ELSE /\ cur' = report[link] /\ pc' = After("current")
            /\ UNCHANGED <<on, link, goal>>
    /\ UNCHANGED <<world, faults>>

(* _avg_over_window, None with fewer than MIN_SAMPLES_FOR_AVERAGE samples.    *)
ReadRetries ==
    /\ pc = "retries"
    /\ \/ /\ bad[link]
          /\ IF link = Wifi24 THEN Goto("cooldown")
             ELSE IF "halow_channel_cycling_enabled" \in on THEN Goto("cycle") ELSE NextLink
       \/ /\ ~bad[link]
          /\ IF link = HaLow /\ "halow_bandwidth_changes_enabled" \in on
               THEN Goto("widen") ELSE NextLink
    /\ UNCHANGED <<world, faults>>

(* The channel goes into the INSERT, or none is left and `otherwise` follows. *)
PickFrom(list, otherwise) ==
    \/ \E c \in Channels :
         /\ FirstUntried(list, failed[link], c)
         /\ goal' = c /\ pc' = "emit"
         /\ UNCHANGED <<on, link, cur>>
    \/ /\ \A c \in Channels : ~FirstUntried(list, failed[link], c)
       /\ otherwise

Cycle ==
    /\ pc = "cycle"
    /\ PickFrom(Rotation(ValidChannels(link, BwOf[cur]), cur), NextLink)
    /\ UNCHANGED <<world, faults>>

Tier(bw) == CHOOSE i \in 1..Len(Tiers) : Tiers[i] = bw

(* _throughput_utilization says nothing, or the current bandwidth is kept.    *)
KeepBandwidth ==
    /\ \/ pc = "widen" /\ Goto("narrow")
       \/ pc = "narrow" /\ NextLink
    /\ UNCHANGED <<world, faults>>

TwoTiersUp == pc = "widen" /\ BwOf[cur] \in Bandwidths /\ Tier(BwOf[cur]) < Len(Tiers)
    /\ PickFrom(ValidChannels(link, Tiers[Len(Tiers)]), Goto("narrow"))
    /\ UNCHANGED <<world, faults>>  \* mutant: straight to the widest

Widen ==
    /\ pc = "widen"
    /\ BwOf[cur] \in Bandwidths /\ Tier(BwOf[cur]) < Len(Tiers)
    /\ PickFrom(ValidChannels(link, Tiers[Tier(BwOf[cur]) + 1]), Goto("narrow"))
    /\ UNCHANGED <<world, faults>>

Narrow ==
    /\ pc = "narrow"
    /\ BwOf[cur] \in Bandwidths /\ Tier(BwOf[cur]) > 1
    /\ PickFrom(ValidChannels(link, Tiers[Tier(BwOf[cur]) - 1]), NextLink)
    /\ UNCHANGED <<world, faults>>

Ends == on' = {} /\ link' = HaLow /\ pc' = "idle" /\ cur' = NoChannel /\ goal' = NoChannel

(* BANDWIDTH_TIERS.index raises on a bandwidth it does not list: the whole    *)
(* pass ends.                                                               *)
UnknownTier ==
    /\ pc \in {"widen", "narrow"} /\ BwOf[cur] \notin Bandwidths
    /\ Ends
    /\ UNCHANGED <<world, faults>>

Emit ==
    /\ pc = "emit"
    /\ target' = [target EXCEPT ![link] = goal]
    /\ age' = [age EXCEPT ![link] = 0]
    /\ NextLink
    /\ UNCHANGED <<known, at, report, bad, failed, faults>>

Abort ==
    /\ faults < MaxFaults /\ faults' = faults + 1
    /\ pc # "idle" /\ Ends
    /\ UNCHANGED world

Pass ==
    \/ BeginPass \/ ReadDevice \/ ReadPending \/ ReadCooldown \/ ReadCurrent \/ ReadRetries
    \/ Cycle \/ KeepBandwidth \/ Widen \/ Narrow \/ UnknownTier \/ Emit

-----------------------------------------------------------------------------
(* The links, the polls that report them and the outcomes of the commands.   *)

Dead == {c \in Channels : BwOf[c] \notin Bandwidths}

(* While a command is in flight the radio may be on its channel already.     *)
Report(l) ==
    /\ l \in known
    /\ \E c \in {at[l], target[l]} \ {NoChannel} : report' = [report EXCEPT ![l] = c]
    /\ UNCHANGED <<known, at, bad, target, failed, age, pass, faults>>

(* A radio in trouble reports channel 0, or nothing.                         *)
Misreport(l) ==
    /\ l \in known
    /\ \E c \in Dead \cup {NoChannel} : report' = [report EXCEPT ![l] = c]
    /\ UNCHANGED <<known, at, bad, target, failed, age, pass, faults>>

Fade(l) ==
    /\ l \in known
    /\ bad' = [bad EXCEPT ![l] = ~@]
    /\ UNCHANGED <<known, at, report, target, failed, age, pass, faults>>

Acked(l) ==
    /\ HasPendingCommand(l)
    /\ target' = [target EXCEPT ![l] = NoChannel]
    /\ at' = [at EXCEPT ![l] = target[l]]
    /\ UNCHANGED <<known, report, bad, failed, age, pass, faults>>

Reverted(l) ==
    /\ HasPendingCommand(l)
    /\ target' = [target EXCEPT ![l] = NoChannel]
    /\ failed' = [failed EXCEPT ![l] = @ \cup {target[l]}]
    /\ UNCHANGED <<known, at, report, bad, age, pass, faults>>

(* 'unknown': the device kept the channel or rolled it back.                 *)
NeverLearnt(l) ==
    /\ HasPendingCommand(l)
    /\ faults < MaxFaults /\ faults' = faults + 1
    /\ target' = [target EXCEPT ![l] = NoChannel]
    /\ at' \in {at, [at EXCEPT ![l] = target[l]]}
    /\ UNCHANGED <<known, report, bad, failed, age, pass>>

Settle(l) == Acked(l) \/ Reverted(l)

Tick ==
    /\ \E l \in known : age[l] < Cooldown
    /\ age' = [l \in Links |-> IF age[l] < Cooldown THEN age[l] + 1 ELSE Cooldown]
    /\ UNCHANGED <<known, at, report, bad, target, failed, pass, faults>>

World == Tick \/ \E l \in Links : \/ Report(l) \/ Misreport(l) \/ Fade(l)
                                  \/ Settle(l) \/ NeverLearnt(l)

Next == Pass \/ Abort \/ World

Spec == Init /\ [][Next]_vars

(* The scheduler runs pass after pass, polls report, commands get their       *)
(* outcome and time passes; what the links do is up to the air.               *)
FairSpec ==
    /\ Spec
    /\ WF_vars(Pass) /\ WF_vars(Tick)
    /\ \A l \in Links : WF_vars(Report(l)) /\ WF_vars(Settle(l))

-----------------------------------------------------------------------------
TypeOK ==
    /\ known \in Deployments
    /\ at \in [Links -> Channels]
    /\ report \in [Links -> Channels \cup {NoChannel}]
    /\ bad \in [Links -> BOOLEAN]
    /\ target \in [Links -> Channels \cup {NoChannel}]
    /\ failed \in [Links -> SUBSET Channels]
    /\ age \in [Links -> 0..Cooldown]
    /\ on \subseteq Switches
    /\ link \in Links
    /\ pc \in {"idle", "known", "pending", "current", "cooldown", "retries", "cycle", "widen",
               "narrow", "emit"}
    /\ cur \in Channels \cup {NoChannel}
    /\ goal \in Channels \cup {NoChannel}
    /\ pc = "emit" <=> goal # NoChannel
    /\ pc \in {"cycle", "widen", "narrow", "emit"} => cur # NoChannel
    /\ faults \in 0..MaxFaults

(* _reverted_channels: "without this [...] retries forever on a target that   *)
(* will never succeed": a channel that was reverted is not commanded again,   *)
(* although the pass picks it some queries before the command exists.        *)
FailedStaysOut == \A l \in Links : target[l] \notin failed[l]

(* channel_cooldown_minutes: two commands of a link are a cooldown apart, and  *)
(* never in flight together, although each is checked some queries before.   *)
ChangesAreSpaced ==
    [][\A l \in Links :
          target'[l] # target[l] /\ target'[l] # NoChannel
            => age[l] >= Cooldown /\ target[l] = NoChannel]_vars

(* "channel numbering is bandwidth-dependent": the channel alone is sent, and  *)
(* it means the bandwidth reported last or, on a link that was not degraded,  *)
(* its neighbour among the tiers.                                            *)
Near(c, d) ==
    \/ BwOf[c] = BwOf[d]
    \/ /\ {BwOf[c], BwOf[d]} \subseteq Bandwidths
       /\ Tier(BwOf[c]) - Tier(BwOf[d]) \in {-1, 1}

OneTierAtATime ==
    [][target'[HaLow] # target[HaLow] /\ target'[HaLow] # NoChannel
         => Near(target'[HaLow], cur)]_vars

(* "cycles to the next valid channel at the SAME bandwidth in a fixed          *)
(* round-robin order": on a link that stays degraded every channel of its     *)
(* bandwidth that has not failed gets its turn again and again.              *)
Cycled(l) ==
    {c \in Channels : \E i \in 1..Len(ValidChannels(l, BwOf[c])) :
                        ValidChannels(l, BwOf[c])[i] = c}

Degraded(l, bw) ==
    /\ l \in known /\ bad[l]
    /\ report[l] \in Cycled(l)
    /\ l = HaLow => BwOf[report[l]] = bw /\ BwOf[at[l]] = bw
    /\ pc # "idle" => (IF l = HaLow THEN "halow_channel_cycling_enabled"
                                    ELSE "wifi24_channel_cycling_enabled") \in on

CycleVisitsAll ==
    \A l \in Links : \A c \in Cycled(l) :
        <>[]Degraded(l, BwOf[c]) => []<>(at[l] = c \/ c \in failed[l])
=============================================================================
