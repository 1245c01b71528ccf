--------------------------- MODULE RadioRecovery ---------------------------
(***************************************************************************)
(* What a device does by itself about a HaLow radio that is not on its     *)
(* channel: verify_and_recover_radio of wifi-agent.sh, started by the boot *)
(* hook (wifi-agent-boot.init) and then by cron every quarter of an hour.  *)
(* It resets the chip, and when that does not help it reboots the device,  *)
(* counting in two files that outlive the reboot.                          *)
(*                                                                         *)
(* A run holds the radio lock from its first step to its last (RadioLock), *)
(* so there is one at a time and no apply begins meanwhile; a rollback, a  *)
(* confirm and the power ask nobody.  Events and log lines are left out    *)
(* but for the one that asks for a human: the place "exhausted".           *)
(***************************************************************************)
EXTENDS Naturals

CONSTANTS
    Channels, FirstChannel,
    Drifted,       \* the radio is on a fallback channel, with its own country
    Corrupt,       \* on the chip's compiled-in defaults, country included
    Absent,        \* netifd knows no interface
    MaxResets,     \* the 3 chip resets of one run
    Cap,           \* path -> how many reboots it may cause: 2 and 4
    CountryKnown,  \* /etc/modules.d/morse names a country
    MaxCuts        \* bound: power cuts, and reboots ordered by others

VARIABLES
    pc, attempt, expected,  \* the run: its place, `attempt`, `expected_channel`
    path,      \* what it is about to reboot for
    count,     \* the two counter files; a missing or empty one reads as 0
    hook,      \* where the boot hook is
    cron,      \* the crontab has the line
    disabled,  \* /etc/wifi-agent-disabled exists
    up,        \* the device runs
    settling,  \* the radio is still in its own bring-up after a boot
    live,      \* what iwinfo reports of it
    uci, kept, armed,  \* the option, what rpcd's timer returns to, whether it runs
    cuts,
    spent,     \* history: own reboots by path since the radio was last confirmed
    lost,      \* history: counts that a power cut took from the files
    fit        \* history: since this run began the radio was where uci wants it,
               \* and uci said the same

run   == <<pc, attempt, expected, path>>
flash == <<count, cron, disabled>>
world == <<settling, live, uci, kept, armed>>
hist  == <<spent, lost>>
vars  == <<run, flash, world, hist, hook, up, cuts, fit>>

Paths == {"channel", "defaults"}

ASSUME ChannelsAssumption ==
    /\ FirstChannel \in Channels
    /\ {Drifted, Corrupt, Absent} \cap Channels = {}
    /\ Drifted \notin {Corrupt, Absent} /\ Corrupt # Absent
ASSUME LimitsAssumption ==
    /\ MaxResets \in Nat \ {0} /\ MaxCuts \in Nat
    /\ Cap \in [Paths -> Nat] /\ CountryKnown \in BOOLEAN

(* Loaded with the parameters of modules.d the radio may still miss its      *)
(* channel; when rmmod found the module busy, or modprobe did nothing, it    *)
(* runs on compiled-in defaults.                                            *)
WithParameters(c) == {c, Drifted, Absent}
WithDefaults == {Corrupt, Absent}
Outcomes(c) == WithParameters(c) \cup WithDefaults

Healthy == live = uci

Init ==
    /\ pc = "idle" /\ attempt = 1 /\ expected = FirstChannel
    /\ path = "channel"
    /\ count = [k \in Paths |-> 0]
    /\ hook = "start" /\ cron = FALSE /\ disabled = FALSE
    /\ up = TRUE /\ settling = TRUE /\ live = Absent
    /\ uci = FirstChannel /\ kept = FirstChannel /\ armed = FALSE
    /\ cuts = 0
    /\ spent = [k \in Paths |-> 0] /\ lost = [k \in Paths |-> 0]
    /\ fit = FALSE

-----------------------------------------------------------------------------
(* Who starts a run.  The marker is looked at once, before the lock.         *)

Begin ==
    /\ pc = "idle" /\ ~disabled
    /\ pc' = "wait"
    /\ UNCHANGED <<attempt, expected, path>>

HookStarts ==
    /\ up /\ hook = "start"
    /\ hook' = IF disabled THEN "done" ELSE "sleep"
    /\ UNCHANGED <<run, flash, world, hist, up, cuts>>

(* `sleep 180` outlasts the radio's bring-up of about 110 s.                 *)
HookChecks ==
    /\ up /\ hook = "sleep" /\ ~settling
    /\ Begin
    /\ hook' = "check"
    /\ UNCHANGED <<flash, world, hist, up, cuts>>

(* recover-radio returned at once: by the marker, or because the lock stayed *)
(* taken for its thirty attempts.                                           *)
HookSkips ==
    /\ up /\ hook = "sleep" /\ ~settling
    /\ disabled \/ pc # "idle"
    /\ hook' = "register"
    /\ UNCHANGED <<run, flash, world, hist, up, cuts>>

Register ==
    /\ up /\ hook = "register"
    /\ cron' = TRUE /\ hook' = "done"
    /\ UNCHANGED <<run, count, disabled, world, hist, up, cuts>>

(* The line outlives a boot, so cron may run while the radio comes up.       *)
CronRuns ==
    /\ up /\ cron
    /\ Begin
    /\ UNCHANGED <<flash, world, hist, hook, up, cuts>>

-----------------------------------------------------------------------------
(* The run.                                                                 *)

GoTo(l) == pc' = l /\ UNCHANGED <<attempt, expected, path>>

(* The process is gone, and its variables with it.                          *)
RunOver == pc' = "idle" /\ attempt' = 1 /\ expected' = FirstChannel /\ path' = "channel"

ExpectKept == kept  \* mutant: reads what a rollback would restore
ExpectedChannel == uci

FindInterface ==
    /\ pc = "wait" /\ live # Absent
    /\ pc' = "look" /\ attempt' = 1 /\ expected' = ExpectedChannel
    /\ UNCHANGED <<path, count, hist>>

(* "HaLow ifname never appeared after 30s, giving up".                       *)
NoInterface ==
    /\ pc = "wait" /\ live = Absent
    /\ GoTo("unseen")
    /\ UNCHANGED <<count, hist>>

(* An interface that is gone answers neither question.                       *)
CountryMatches == ~CountryKnown \/ live \notin {Corrupt, Absent}

(* Channel and country are asked for one after the other, and the country    *)
(* a second time before it is decided what to do.                           *)
ReadChannel ==
    /\ pc = "look"
    /\ GoTo(IF live = expected THEN "country" ELSE "judge")
    /\ UNCHANGED <<count, hist>>

WrongCountry ==
    /\ pc = "country" /\ ~CountryMatches
    /\ GoTo("judge")
    /\ UNCHANGED <<count, hist>>

Confirm ==
    /\ pc = "country" /\ CountryMatches
    /\ GoTo("confirmed")
    /\ count' = [k \in Paths |-> 0]
    /\ spent' = [k \in Paths |-> 0] /\ lost' = [k \in Paths |-> 0]

JudgeChannel ==
    /\ pc = "judge" /\ CountryMatches
    /\ GoTo("reset")
    /\ UNCHANGED <<count, hist>>

JudgeDefaults ==
    /\ pc = "judge" /\ ~CountryMatches
    /\ pc' = "count" /\ path' = "defaults"
    /\ UNCHANGED <<attempt, expected, count, hist>>

AfterReset ==
    IF attempt < MaxResets
      THEN pc' = "look" /\ UNCHANGED path
      ELSE pc' = "count" /\ path' = "channel"

(* `wifi down`, the chip, the module, `wifi up` and a full reload.  The last  *)
(* one is not looked at: the loop ends, whatever it achieved.               *)
Reset ==
    /\ pc = "reset"
    /\ live' \in Outcomes(uci) /\ settling' = FALSE
    /\ attempt' = attempt + 1
    /\ AfterReset
    /\ UNCHANGED <<expected, count, uci, kept, armed, hist>>

SpentBeyond(k) == count[k] > Cap[k]  \* mutant: -gt for -ge
Exhausted(k) == count[k] >= Cap[k]

GiveUpQuietly ==  \* mutant: no event that asks for a human
    /\ pc = "count" /\ Exhausted(path)
    /\ GoTo("confirmed")
    /\ UNCHANGED <<count, hist>>

GiveUp ==
    /\ pc = "count" /\ Exhausted(path)
    /\ GoTo("exhausted")
    /\ UNCHANGED <<count, hist>>

CountReboot ==
    /\ pc = "count" /\ ~Exhausted(path)
    /\ GoTo("reboot")
    /\ count' = [count EXCEPT ![path] = @ + 1]
    /\ UNCHANGED hist

RunStep ==
    /\ up
    /\ \/ /\ \/ FindInterface \/ NoInterface \/ ReadChannel \/ WrongCountry
             \/ Confirm \/ JudgeChannel \/ JudgeDefaults \/ GiveUp \/ CountReboot
          /\ UNCHANGED world
       \/ Reset
    /\ UNCHANGED <<cron, disabled, hook, up, cuts>>

(* The run returns and its trap frees the lock.                             *)
Ends ==
    /\ up /\ pc \in {"confirmed", "unseen", "exhausted"}
    /\ RunOver
    /\ hook' = IF hook = "check" THEN "register" ELSE hook
    /\ UNCHANGED <<flash, world, hist, up, cuts>>

-----------------------------------------------------------------------------
(* Going down loses the run, the hook and rpcd's timer.                     *)
GoDown ==
    /\ up /\ up' = FALSE
    /\ RunOver
    /\ hook' = "start"
    /\ live' = Absent /\ settling' = TRUE
    /\ armed' = FALSE /\ kept' = uci
    /\ UNCHANGED <<uci, cron, disabled>>

(* `reboot`, then a sleep that outlasts it.                                 *)
Reboot ==
    /\ pc = "reboot"
    /\ GoDown
    /\ spent' = [spent EXCEPT ![path] = @ + 1]
    /\ UNCHANGED <<count, lost, cuts>>

(* A power cut may find the counter file truncated and not yet written.      *)
Cut ==
    /\ cuts < MaxCuts /\ cuts' = cuts + 1
    /\ GoDown
    /\ UNCHANGED spent
    /\ \/ UNCHANGED <<count, lost>>
       \/ /\ pc = "reboot"
          /\ count' = [count EXCEPT ![path] = 0]
          /\ lost' = [lost EXCEPT ![path] = @ + count[path] - 1]

Boot ==
    /\ ~up /\ up' = TRUE
    /\ UNCHANGED <<run, flash, world, hist, hook, cuts>>

Settle ==
    /\ up /\ settling
    /\ settling' = FALSE /\ live' \in Outcomes(uci)
    /\ UNCHANGED <<run, flash, uci, kept, armed, hist, hook, up, cuts>>

(* The radio loses its channel, its parameters or its interface, or finds    *)
(* its way back.                                                            *)
Stray ==
    /\ up /\ ~settling
    /\ live' \in Outcomes(uci)
    /\ UNCHANGED <<run, flash, settling, uci, kept, armed, hist, hook, up, cuts>>

(* The server's apply (SafeApply) needs the lock; the rollback and           *)
(* verify-confirm do not.                                                   *)
Apply(c) ==
    /\ up /\ pc = "idle" /\ ~armed
    /\ uci' = c /\ kept' = uci /\ armed' = TRUE
    /\ live' \in Outcomes(c) \cup {live}
    /\ UNCHANGED <<run, flash, settling, hist, hook, up, cuts>>

Rollback ==
    /\ up /\ armed
    /\ uci' = kept /\ armed' = FALSE
    /\ live' \in Outcomes(kept) \cup {live}
    /\ UNCHANGED <<run, flash, settling, kept, hist, hook, up, cuts>>

VerifyConfirm ==
    /\ up /\ armed /\ Healthy
    /\ armed' = FALSE /\ kept' = uci
    /\ UNCHANGED <<run, flash, settling, live, uci, hist, hook, up, cuts>>

Toggle ==
    /\ disabled' = ~disabled
    /\ UNCHANGED <<run, count, cron, world, hist, hook, up, cuts>>

-----------------------------------------------------------------------------
Hook == HookStarts \/ HookChecks \/ HookSkips \/ Register

Environment ==
    \/ Cut \/ Stray \/ Rollback \/ VerifyConfirm \/ Toggle
    \/ \E c \in Channels : Apply(c)

(* The history `fit`, of every step.                                        *)
Watch == fit' = (live' = uci' /\ uci' = uci /\ (fit \/ pc = "idle"))

Running == RunStep \/ Ends \/ Reboot
ComingUp == Boot \/ Settle

Next == (Hook \/ CronRuns \/ Running \/ ComingUp \/ Environment) /\ Watch

Spec == Init /\ [][Next]_vars

(* The shell goes on, cron comes round, a device that goes down comes up and *)
(* its radio's bring-up ends.                                               *)
FairSpec ==
    /\ Spec
    /\ WF_vars(Hook /\ Watch) /\ WF_vars(CronRuns /\ Watch)
    /\ WF_vars(Running /\ Watch) /\ WF_vars(ComingUp /\ Watch)

-----------------------------------------------------------------------------
TypeOK ==
    /\ pc \in {"idle", "wait", "look", "country", "judge", "reset", "count",
               "reboot", "confirmed", "unseen", "exhausted"}
    /\ attempt \in 1..(MaxResets + 1) /\ expected \in Channels
    /\ path \in Paths
    /\ count \in [Paths -> Nat] /\ spent \in [Paths -> Nat] /\ lost \in [Paths -> Nat]
    /\ hook \in {"start", "sleep", "check", "register", "done"}
    /\ cron \in BOOLEAN /\ disabled \in BOOLEAN /\ up \in BOOLEAN
    /\ settling \in BOOLEAN /\ armed \in BOOLEAN /\ fit \in BOOLEAN
    /\ live \in Channels \cup {Drifted, Corrupt, Absent}
    /\ uci \in Channels /\ kept \in Channels
    /\ cuts \in 0..MaxCuts

(* "caps how many times this will reboot the device on its own": between two *)
(* confirmations a path causes no more reboots than its cap, but for counts  *)
(* a power cut wiped, however the two signatures alternate and whoever runs. *)
RebootsAreCapped == \A k \in Paths : spent[k] <= Cap[k] + lost[k]

(* A radio that was on its configured channel all through the run is neither *)
(* reset nor is the device rebooted for it.                                 *)
HealthyIsLeftAlone == pc \in {"reset", "count", "reboot"} => ~fit

(* A radio off its channel gets back, or the device asks for a human, or it  *)
(* says that it saw no interface; unless it was told to do nothing.          *)
BadIsReported ==
    (up /\ ~Healthy /\ (cron \/ hook \in {"start", "sleep"}))
        ~> (Healthy \/ disabled \/ pc \in {"exhausted", "unseen"})
=============================================================================
