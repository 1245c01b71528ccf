------------------------------- MODULE Alerts -------------------------------
(***************************************************************************)
(* Is a device there?  poll_telemetry registers a device that answers and  *)
(* marks when it was last seen; check_device_liveness, a job of its own,   *)
(* pages a human about a device that has not been seen; the next answer    *)
(* pages that it is back.  Both write devices.offline_alerted, each UPDATE *)
(* committed by itself, and both await the push of a page in between;      *)
(* notify.py swallows a push that fails, and the flag stays as it is.      *)
(* _uptime_pct answers the same question for the past.                     *)
(*                                                                         *)
(* One device: nothing two devices share is written here.                  *)
(***************************************************************************)
EXTENDS Naturals, FiniteSets

CONSTANTS
    Threshold,    \* app_settings.offline_alert_seconds, in ticks
    MaxOutages,   \* bound: silences longer than Threshold
    MaxFaults,    \* bound: restarts of the server, failed database calls
    Window,       \* bound: the ticks of the uptime window
    Expected      \* EXPECTED_POLL_INTERVAL_SECONDS, in ticks

VARIABLES
    up,         \* the device answers
    known,      \* it has a row in devices
    age,        \* now - devices.last_seen, held at Threshold + 1
    flag,       \* devices.offline_alerted
    pollPc,     \* _get_or_create_device: the statement it runs next
    pollFlag,   \* row["offline_alerted"]
    livePc,     \* check_device_liveness: the statement it runs next
    heard,      \* history: the last page sent, "none", "offline" or "online"
    lost,       \* history: since then a page was lost: its push failed, or the job
                \* ended between the UPDATE and the page
    outages,    \* history: silences longer than Threshold, so far
    flagged,    \* history: how often offline_alerted was set
    faults

poll    == <<pollPc, pollFlag>>
history == <<heard, lost, outages, flagged>>
vars    == <<up, known, age, flag, poll, livePc, history, faults>>

ASSUME AlertsAssumption ==
    /\ Threshold \in Nat \ {0} /\ MaxOutages \in Nat /\ MaxFaults \in Nat
    /\ Window \in Nat /\ Expected \in Nat

Init ==
    /\ up = TRUE /\ known = FALSE /\ age = 0 /\ flag = FALSE
    /\ pollPc = "idle" /\ pollFlag = FALSE /\ livePc = "idle"
    /\ heard = "none" /\ lost = FALSE /\ outages = 0 /\ flagged = 0
    /\ faults = 0

-----------------------------------------------------------------------------
(* poll_telemetry asks the device; _get_or_create_device writes its row.     *)

Collect ==
    /\ pollPc = "idle" /\ up
    /\ pollPc' = "select"
    /\ UNCHANGED <<up, known, age, flag, pollFlag, livePc, history, faults>>

Register ==
    /\ pollPc = "select" /\ ~known
    /\ known' = TRUE /\ age' = 0
    /\ pollPc' = "idle"
    /\ UNCHANGED <<up, flag, pollFlag, livePc, history, faults>>

Select ==
    /\ pollPc = "select" /\ known
    /\ pollFlag' = flag /\ pollPc' = "seen"
    /\ UNCHANGED <<up, known, age, flag, livePc, history, faults>>

SeenIsBack ==  \* mutant: clears the flag and pages without having written last_seen
    /\ pollPc = "seen"
    /\ pollPc' = IF pollFlag THEN "clear" ELSE "idle"
    /\ UNCHANGED <<up, known, age, flag, pollFlag, livePc, history, faults>>

Seen ==
    /\ pollPc = "seen"
    /\ age' = 0
    /\ pollPc' = IF pollFlag THEN "clear" ELSE "idle"
    /\ UNCHANGED <<up, known, flag, pollFlag, livePc, history, faults>>

KeepFlag ==  \* mutant: pages that the device is back and leaves the flag
    /\ pollPc = "clear"
    /\ pollPc' = "page"
    /\ UNCHANGED <<up, known, age, flag, pollFlag, livePc, history, faults>>

ClearFlag ==
    /\ pollPc = "clear"
    /\ flag' = FALSE /\ pollPc' = "page"
    /\ UNCHANGED <<up, known, age, pollFlag, livePc, history, faults>>

(* Best effort: a push that fails is logged and forgotten.                   *)
Page(message) ==
    \/ heard' = message /\ lost' = FALSE
    \/ UNCHANGED heard /\ lost' = TRUE

PageOnline ==
    /\ pollPc = "page"
    /\ Page("online") /\ pollPc' = "idle"
    /\ UNCHANGED <<up, known, age, flag, pollFlag, livePc, outages, flagged, faults>>

-----------------------------------------------------------------------------
(* check_device_liveness.                                                   *)

Stale == known /\ ~flag /\ age > Threshold

Fetch ==
    /\ livePc = "idle" /\ Stale
    /\ livePc' = "set"
    /\ UNCHANGED <<up, known, age, flag, poll, history, faults>>

SetFlag ==
    /\ livePc = "set"
    /\ flag' = TRUE /\ flagged' = flagged + 1
    /\ livePc' = "page"
    /\ UNCHANGED <<up, known, age, poll, heard, lost, outages, faults>>

PageFirstOnly ==  \* mutant: the page is skipped when one was sent before
    /\ livePc = "page"
    /\ IF outages > 1 THEN UNCHANGED <<heard, lost>> ELSE Page("offline")
    /\ livePc' = "idle"
    /\ UNCHANGED <<up, known, age, flag, poll, outages, flagged, faults>>

PageOffline ==
    /\ livePc = "page"
    /\ Page("offline") /\ livePc' = "idle"
    /\ UNCHANGED <<up, known, age, flag, poll, outages, flagged, faults>>

-----------------------------------------------------------------------------
(* The device, the clock and the server's faults.                           *)

Vanish ==
    /\ up /\ up' = FALSE
    /\ UNCHANGED <<known, age, flag, poll, livePc, history, faults>>

Return ==
    /\ ~up /\ up' = TRUE
    /\ UNCHANGED <<known, age, flag, poll, livePc, history, faults>>

(* A tick is longer than a job's database calls and its push, which          *)
(* notify._send gives 10 s: no job is between two statements when it falls.  *)
Tick ==
    /\ known /\ age <= Threshold
    /\ pollPc \notin {"clear", "page"} /\ livePc # "page"
    /\ age = Threshold => outages < MaxOutages
    /\ age' = age + 1
    /\ outages' = outages + (IF age = Threshold THEN 1 ELSE 0)
    /\ UNCHANGED <<up, known, flag, poll, livePc, heard, lost, flagged, faults>>

(* A failed database call ends the job that made it, a restart ends both,    *)
(* and with a job goes the page it had not sent.                            *)
Fault ==
    /\ faults < MaxFaults /\ faults' = faults + 1
    /\ UNCHANGED <<up, known, age, flag, pollFlag, heard, outages, flagged>>

PollAborts ==
    /\ pollPc # "idle" /\ pollPc' = "idle" /\ UNCHANGED livePc
    /\ lost' = (lost \/ pollPc = "page")
    /\ Fault

LivenessAborts ==
    /\ livePc # "idle" /\ livePc' = "idle" /\ UNCHANGED pollPc
    /\ lost' = (lost \/ livePc = "page")
    /\ Fault

Restart ==
    /\ pollPc' = "idle" /\ livePc' = "idle"
    /\ lost' = (lost \/ pollPc = "page" \/ livePc = "page")
    /\ Fault

Poll     == Collect \/ Register \/ Select \/ Seen \/ ClearFlag \/ PageOnline
Liveness == Fetch \/ SetFlag \/ PageOffline

Next ==
    \/ Poll \/ Liveness \/ Vanish \/ Return \/ Tick
    \/ PollAborts \/ LivenessAborts \/ Restart

Spec == Init /\ [][Next]_vars

(* Both jobs run at their intervals, and time passes.                        *)
FairSpec == Spec /\ WF_vars(Poll) /\ WF_vars(Liveness) /\ WF_vars(Tick)

-----------------------------------------------------------------------------
(* _uptime_pct: the gaps between the readings of a window, bookended by its  *)
(* two ends, and of each gap what exceeds the expected interval.             *)

BoundsOpen(readings) == readings \cup {0}  \* mutant: no virtual reading at now
WithBounds(readings) == readings \cup {0, Window}

PrevTime(times, t) == CHOOSE u \in times : u < t /\ \A w \in times : w < t => w <= u

Excess(times, t) ==
    IF t \in times /\ t - PrevTime(times, t) > Expected
      THEN t - PrevTime(times, t) - Expected
      ELSE 0

Downtime(readings) ==
    LET sum[t \in 0..Window] ==
            IF t = 0 THEN 0 ELSE sum[t - 1] + Excess(WithBounds(readings), t)
    IN  sum[Window]

-----------------------------------------------------------------------------
TypeOK ==
    /\ up \in BOOLEAN /\ known \in BOOLEAN /\ flag \in BOOLEAN /\ pollFlag \in BOOLEAN
    /\ age \in 0..Threshold + 1
    /\ pollPc \in {"idle", "select", "seen", "clear", "page"}
    /\ livePc \in {"idle", "set", "page"}
    /\ heard \in {"none", "offline", "online"} /\ lost \in BOOLEAN
    /\ outages \in 0..MaxOutages /\ flagged \in 0..MaxOutages /\ faults \in 0..MaxFaults

(* README, "Alerts once per outage, not repeatedly": however the two jobs    *)
(* interleave, a silence is paged about at most once.                        *)
OncePerOutage == flagged <= outages

(* A device that stays silent is flagged in the end, and the last word that  *)
(* was sent is that it is offline, unless a page was lost since, to a push   *)
(* that failed (notify.py:21-24) or with its job: no page is sent again.     *)
SilenceIsPaged ==
    <>[](known /\ ~up) =>
        <>[](\/ flag /\ (heard = "offline" \/ lost)
             \/ age <= Threshold /\ outages = MaxOutages)

(* A device that answers again does not stay flagged: "clear the flag so a   *)
(* future outage alerts again" (main.py:132).                                *)
ReturnIsNoticed == <>[]up => []<>~flag

(* A reading, or the window's start, vouches for the next Expected ticks.    *)
Uncovered(readings) ==
    {t \in 1..Window : \A u \in readings \cup {0} : u < t => t - u > Expected}

(* The gap analysis counts the ticks of the window that no reading vouches   *)
(* for.  The newest reading, if it is in the window, wrote last_seen.         *)
UptimeAgrees ==
    known => \A older \in SUBSET (1..Window - age - 1) :
        LET readings == older \cup ({Window - age} \cap 1..Window)
        IN  Downtime(readings) = Cardinality(Uncovered(readings))
=============================================================================
