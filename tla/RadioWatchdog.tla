--------------------------- MODULE RadioWatchdog ---------------------------
(***************************************************************************)
(* The server's watchdog over the HaLow radios: poll_telemetry collects    *)
(* from one device after the other, and _maybe_auto_recover_radio or       *)
(* _reset_auto_recovery acts on the radio_up each device reports.  What    *)
(* they know of a device is in its row of the devices table; every await   *)
(* ends an action here, since the device goes on meanwhile and the job may *)
(* end there.                                                              *)
(***************************************************************************)
EXTENDS Naturals, Sequences

CONSTANTS
    Roles,        \* the order in which poll_telemetry visits device_targets
    MinDownPolls, \* MIN_CONSECUTIVE_DOWN_POLLS_BEFORE_REBOOT
    MaxReboots,   \* MAX_CONSECUTIVE_AUTO_REBOOTS
    Cooldown,     \* AUTO_REBOOT_COOLDOWN_SECONDS, in ticks
    MayFade,      \* the RF link between healthy radios may be lost
    MaxFaults     \* bound: server restarts and failed database calls

VARIABLES
    radio,      \* per device: "on", "boot" (restarting, no SSH) or "wedged"
    link,       \* the RF link between radios that are on
    known,      \* the devices that have a row
    downPolls,  \* consecutive_radio_down_polls, held at MinDownPolls
    reboots,    \* consecutive_auto_reboots
    exhausted,  \* auto_recovery_exhausted_alerted
    since,      \* now - last_auto_reboot_at, held at Cooldown (also when NULL)
    pc,         \* where poll_telemetry is
    todo,       \* the roles it has still to visit
    dev,        \* the role in hand
    saw,        \* the radio_up it collected
    sent,       \* history: reboots sent since the last healthy report
    streak,     \* history: unhealthy reports since the last healthy one
    gap,        \* history: ticks since the last reboot sent, held at Cooldown
    alerts,     \* history: "auto-recovery exhausted" alerts sent since that report,
                \* whether or not their push came through
    faults

devices == <<radio, link>>
row     == <<known, downPolls, reboots, exhausted, since>>
job     == <<pc, todo, dev, saw>>
history == <<sent, streak, gap, alerts>>
vars    == <<devices, row, job, history, faults>>

Devices == {Roles[i] : i \in 1..Len(Roles)}

ASSUME RolesAssumption == Roles \in Seq(STRING) /\ Roles # <<>>
ASSUME LimitsAssumption ==
    /\ MinDownPolls \in Nat \ {0} /\ MaxReboots \in Nat \ {0} /\ Cooldown \in Nat
    /\ MayFade \in BOOLEAN /\ MaxFaults \in Nat

Init ==
    /\ radio = [d \in Devices |-> "on"]
    /\ link = TRUE
    /\ known = {}
    /\ downPolls = [d \in Devices |-> 0]
    /\ reboots = [d \in Devices |-> 0]
    /\ exhausted = [d \in Devices |-> FALSE]
    /\ since = [d \in Devices |-> Cooldown]
    /\ pc = "idle" /\ todo = <<>> /\ dev = Roles[1] /\ saw = FALSE
    /\ sent = [d \in Devices |-> 0]
    /\ streak = [d \in Devices |-> 0]
    /\ gap = [d \in Devices |-> Cooldown]
    /\ alerts = [d \in Devices |-> 0]
    /\ faults = 0

UpTo(n, limit) == IF n < limit THEN n + 1 ELSE limit

NextRole == pc' = "visit"

-----------------------------------------------------------------------------
(* poll_telemetry.                                                         *)

BeginPoll ==
    /\ pc = "idle"
    /\ pc' = "visit" /\ todo' = Roles
    /\ UNCHANGED <<devices, row, dev, saw, history, faults>>

EndPoll ==
    /\ pc = "visit" /\ todo = <<>>
    /\ pc' = "idle"
    /\ UNCHANGED <<devices, row, todo, dev, saw, history, faults>>

(* collect_halow: radio_up is the driver being up and a peer associated.     *)
ReportsUp(d) == link /\ \A e \in Devices : radio[e] = "on"

TakeRole == todo # <<>> /\ dev' = Head(todo) /\ todo' = Tail(todo)

Collect ==
    /\ pc = "visit"
    /\ TakeRole
    /\ radio[dev'] # "boot"
    /\ saw' = ReportsUp(dev')
    /\ streak' = [streak EXCEPT ![dev'] = IF saw' THEN 0 ELSE UpTo(@, MinDownPolls)]
    /\ sent' = [sent EXCEPT ![dev'] = IF saw' THEN 0 ELSE @]
    /\ alerts' = [alerts EXCEPT ![dev'] = IF saw' THEN 0 ELSE @]
    /\ pc' = "ingest"
    /\ UNCHANGED <<devices, row, gap, faults>>

CollectFails ==
    /\ pc = "visit"
    /\ TakeRole
    /\ UNCHANGED <<devices, row, pc, saw, history, faults>>

(* _ingest_collect, whose failure is logged; the row is created before its   *)
(* transaction.                                                             *)
Ingest ==
    /\ pc = "ingest"
    /\ known' \in {known, known \cup {dev}}
    /\ pc' = IF saw THEN "healthy" ELSE "down"
    /\ UNCHANGED <<devices, downPolls, reboots, exhausted, since, todo, dev, saw, history,
                   faults>>

-----------------------------------------------------------------------------
(* _maybe_auto_recover_radio.                                               *)

SustainedEarly(n) == n >= MinDownPolls - 1  \* mutant: one poll too early
Sustained(n) == n >= MinDownPolls

Cooled(d) == since[d] >= Cooldown

SpentLate(d) == reboots[d] > MaxReboots  \* mutant: > for >=
Spent(d) == reboots[d] >= MaxReboots

NoRow ==
    /\ pc \in {"down", "healthy"} /\ dev \notin known
    /\ NextRole
    /\ UNCHANGED <<devices, row, todo, dev, saw, history, faults>>

CountDown ==
    /\ pc = "down" /\ dev \in known
    /\ downPolls' = [downPolls EXCEPT ![dev] = UpTo(@, MinDownPolls)]
    /\ IF ~Sustained(downPolls'[dev]) \/ ~Cooled(dev) THEN NextRole
       ELSE IF ~Spent(dev) THEN pc' = "reboot"
       ELSE IF ~exhausted[dev] THEN pc' = "giveup" ELSE NextRole
    /\ UNCHANGED <<devices, known, reboots, exhausted, since, todo, dev, saw, history, faults>>

GiveUpAgain ==  \* mutant: the flag is not written
    /\ pc = "giveup"
    /\ pc' = "alert"
    /\ UNCHANGED <<devices, row, todo, dev, saw, history, faults>>

GiveUpQuietly ==  \* mutant: the flag is written, the alert left out
    /\ pc = "giveup"
    /\ exhausted' = [exhausted EXCEPT ![dev] = TRUE]
    /\ NextRole
    /\ UNCHANGED <<devices, known, downPolls, reboots, since, todo, dev, saw, history, faults>>

GiveUp ==
    /\ pc = "giveup"
    /\ exhausted' = [exhausted EXCEPT ![dev] = TRUE]
    /\ pc' = "alert"
    /\ UNCHANGED <<devices, known, downPolls, reboots, since, todo, dev, saw, history, faults>>

(* notify.py swallows a push that fails; the event in the log stays.         *)
Alert ==
    /\ pc = "alert"
    /\ alerts' = [alerts EXCEPT ![dev] = @ + 1]
    /\ NextRole
    /\ UNCHANGED <<devices, row, todo, dev, saw, sent, streak, gap, faults>>

(* device_client.reboot: the device restarts, or the call fails, which looks *)
(* the same.                                                                *)
SendReboot ==
    /\ pc = "reboot"
    /\ radio' \in {radio, [radio EXCEPT ![dev] = "boot"]}
    /\ sent' = [sent EXCEPT ![dev] = @ + 1]
    /\ gap' = [gap EXCEPT ![dev] = 0]
    /\ pc' = "record"
    /\ UNCHANGED <<link, row, todo, dev, saw, streak, alerts, faults>>

RecordReboot ==
    /\ pc = "record"
    /\ since' = [since EXCEPT ![dev] = 0]
    /\ reboots' = [reboots EXCEPT ![dev] = @ + 1]
    /\ NextRole
    /\ UNCHANGED <<devices, known, downPolls, exhausted, todo, dev, saw, history, faults>>

-----------------------------------------------------------------------------
(* _reset_auto_recovery.                                                    *)

ResetPolls ==
    /\ pc = "healthy" /\ dev \in known
    /\ downPolls' = [downPolls EXCEPT ![dev] = 0]
    /\ IF reboots[dev] = 0 /\ ~exhausted[dev] THEN NextRole ELSE pc' = "recovered"
    /\ UNCHANGED <<devices, known, reboots, exhausted, since, todo, dev, saw, history, faults>>

ResetReboots ==
    /\ pc = "recovered"
    /\ reboots' = [reboots EXCEPT ![dev] = 0]
    /\ exhausted' = [exhausted EXCEPT ![dev] = FALSE]
    /\ NextRole
    /\ UNCHANGED <<devices, known, downPolls, since, todo, dev, saw, history, faults>>

-----------------------------------------------------------------------------
(* The end of the job by an error or a restart, time, and the devices.       *)

Abort ==
    /\ faults < MaxFaults
    /\ faults' = faults + 1
    /\ pc # "idle" /\ pc' = "idle" /\ todo' = <<>>
    /\ UNCHANGED <<devices, row, dev, saw, history>>

Tick ==
    /\ \E d \in Devices : since[d] < Cooldown \/ gap[d] < Cooldown
    /\ since' = [d \in Devices |-> UpTo(since[d], Cooldown)]
    /\ gap' = [d \in Devices |-> UpTo(gap[d], Cooldown)]
    /\ UNCHANGED <<devices, known, downPolls, reboots, exhausted, job, sent, streak, alerts,
                   faults>>

Turns(d, from, to) ==
    /\ radio[d] \in from
    /\ radio' = [radio EXCEPT ![d] = to]
    /\ UNCHANGED <<link, row, job, history, faults>>

Wedge(d)    == Turns(d, {"on"}, "wedged")
Heal(d)     == Turns(d, {"wedged"}, "on")       \* recover-radio on the device
Restart(d)  == Turns(d, {"on", "wedged"}, "boot")  \* an operator, cron or the power
ComeUp(d)   == Turns(d, {"boot"}, "on")
ComeUpWedged(d) == Turns(d, {"boot"}, "wedged")

Fade ==
    /\ MayFade
    /\ link' = ~link
    /\ UNCHANGED <<radio, row, job, history, faults>>

Booted == \E d \in Devices : ComeUp(d) \/ ComeUpWedged(d)

Environment == Fade \/ Booted \/ \E d \in Devices : Wedge(d) \/ Heal(d) \/ Restart(d)

PollTelemetry ==
    \/ BeginPoll \/ EndPoll \/ Collect \/ CollectFails \/ Ingest
    \/ NoRow \/ CountDown \/ GiveUp \/ Alert \/ SendReboot \/ RecordReboot
    \/ ResetPolls \/ ResetReboots

Next == PollTelemetry \/ Abort \/ Tick \/ Environment

Spec == Init /\ [][Next]_vars

(* The scheduler polls again and again and time passes; a device that is up  *)
(* answers, and its report is stored, again and again.                      *)
FairSpec ==
    /\ Spec
    /\ WF_vars(PollTelemetry) /\ WF_vars(Tick) /\ WF_vars(Booted)
    /\ \A d \in Devices : /\ SF_vars(Collect /\ dev' = d)
                          /\ SF_vars(Ingest /\ known' = known \cup {d})

-----------------------------------------------------------------------------
TodoOK == todo \in Seq(Devices)

TypeOK ==
    /\ radio \in [Devices -> {"on", "boot", "wedged"}]
    /\ link \in BOOLEAN
    /\ known \subseteq Devices
    /\ downPolls \in [Devices -> 0..MinDownPolls]
    /\ reboots \in [Devices -> 0..MaxReboots]
    /\ exhausted \in [Devices -> BOOLEAN]
    /\ since \in [Devices -> 0..Cooldown]
    /\ pc \in {"idle", "visit", "ingest", "down", "healthy", "reboot", "record", "giveup",
               "alert", "recovered"}
    /\ TodoOK
    /\ dev \in Devices
    /\ saw \in BOOLEAN
    /\ sent \in [Devices -> Nat]
    /\ streak \in [Devices -> 0..MinDownPolls]
    /\ gap \in [Devices -> 0..Cooldown]
    /\ alerts \in [Devices -> Nat]
    /\ faults \in 0..MaxFaults

(* "Rebooting hasn't helped the last few times in a row [...] Stop retrying": *)
(* without a healthy report in between, the server reboots a device at most  *)
(* MAX_CONSECUTIVE_AUTO_REBOOTS times, plus once for each time it stopped    *)
(* between the reboot and its record.                                       *)
RebootsAreBounded == \A d \in Devices : sent[d] <= MaxReboots + faults

(* A reboot is sent only after MIN_CONSECUTIVE_DOWN_POLLS_BEFORE_REBOOT      *)
(* unhealthy reports with no healthy one in between, and a cooldown after    *)
(* the last, as long as the job was not ended half way.                     *)
RebootsAreDue ==
    [][\A d \in Devices :
          sent'[d] > sent[d] /\ faults = 0
            => streak[d] >= MinDownPolls /\ gap[d] >= Cooldown]_vars

(* "alert exactly once for this transition": never twice in one outage, and   *)
(* not again when the push of the first failed, since the flag is committed.  *)
AlertedOnce == \A d \in Devices : alerts[d] <= 1

(* "so a radio that stays down past the last attempt doesn't go unnoticed":   *)
(* one that never works again, rebooted or not, is alerted about if its       *)
(* device goes on answering, unless the job was ended; the alert is tried,    *)
(* and a push that fails leaves only the event "auto_recovery_exhausted".     *)
OutageIsAlerted ==
    \A d \in Devices :
        <>[](radio[d] # "on") /\ []<>(pc = "ingest" /\ dev = d)
            => <>[](alerts[d] > 0 \/ faults > 0)
=============================================================================
