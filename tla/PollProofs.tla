----------------------------- MODULE PollProofs -----------------------------
(***************************************************************************)
(* Theorems about the two things a poll keeps account of: whether the      *)
(* device is there (Alerts, for any threshold and any number of outages    *)
(* and faults) and what it carried (Telemetry, for any channels and any    *)
(* number of packets and resets).                                          *)
(***************************************************************************)
EXTENDS Alerts, Telemetry, FiniteSetTheorems, WellFoundedInduction, TLAPS

-----------------------------------------------------------------------------
(* Alerts.                                                                  *)

(* Somebody was told that the device is gone, is being told, or would have    *)
(* been but for a page that was lost.                                        *)
Told == heard = "offline" \/ livePc = "page" \/ lost

(* Whoever is flagged was paged about last: no poll that is about to page    *)
(* that a device is back is overtaken by a new flag.                         *)
FlagIsPaged == flag => Told

(* "After we'd already alerted on the outage" (main.py:131), as far as it     *)
(* goes: the page that a device is back is never sent unless the one that it  *)
(* was gone is out, on its way or lost.  It may overtake that one: the flag   *)
(* is committed before the push of the page is awaited.                      *)
AlertIsOut == [][PageOnline => Told]_vars

(* The inductive invariant: a silence is counted before a flag is set for it *)
(* and a flag is cleared only by a poll that has just renewed last_seen, so  *)
(* the liveness job never acts on a flag that is about to go.                *)
AInv ==
    /\ TypeOK
    /\ OncePerOutage
    /\ ~flag /\ age > Threshold => flagged < outages
    /\ livePc = "set" => ~flag /\ flagged < outages
    /\ pollPc = "seen" /\ pollFlag => flag
    /\ pollPc = "clear" => flag /\ age = 0
    /\ ~known => age = 0
    /\ FlagIsPaged
    /\ pollPc = "page" => Told /\ ~flag /\ age = 0 /\ livePc # "set"

(* Every reachable state satisfies the inductive invariant.                   *)
THEOREM AlertsInvariance == Spec => []AInv
<1> USE AlertsAssumption DEF AlertsAssumption
<1>1. Init => AInv
  <2> SUFFICES ASSUME Init PROVE AInv
    OBVIOUS
  <2>1. age = 0 /\ outages = 0 /\ flagged = 0 /\ faults = 0 /\ Threshold > 0
    BY DEF Init
  <2>2. TypeOK
    <3>1. age \in 0..Threshold + 1 /\ outages \in 0..MaxOutages
          /\ flagged \in 0..MaxOutages /\ faults \in 0..MaxFaults
      BY <2>1
    <3> QED
      BY <3>1, Zenon DEF Init, TypeOK
  <2> QED
    BY <2>1, <2>2 DEF Init, AInv, OncePerOutage, FlagIsPaged
<1>2. AInv /\ [Next]_vars => AInv'
  <2> SUFFICES ASSUME AInv, [Next]_vars PROVE AInv'
    OBVIOUS
  <2> USE DEF AInv, TypeOK, OncePerOutage, FlagIsPaged, Told, poll, history
  <2>1. CASE Collect
    BY <2>1 DEF Collect
  <2>2. CASE Register
    BY <2>2 DEF Register
  <2>3. CASE Select
    BY <2>3 DEF Select
  <2>4. CASE Seen
    BY <2>4 DEF Seen
  <2>5. CASE ClearFlag
    <3>1. age' = 0 /\ flag' = FALSE /\ livePc' # "set" /\ pollPc' = "page"
      BY <2>5 DEF ClearFlag
    <3>2. TypeOK' /\ OncePerOutage'
      BY <2>5 DEF ClearFlag
    <3>3. Told'
      BY <2>5 DEF ClearFlag
    <3> QED
      BY <3>1, <3>2, <3>3
  <2>6. CASE PageOnline
    BY <2>6 DEF PageOnline, Page
  <2>7. CASE Fetch
    BY <2>7 DEF Fetch, Stale
  <2>8. CASE SetFlag
    BY <2>8 DEF SetFlag
  <2>9. CASE PageOffline
    BY <2>9 DEF PageOffline, Page
  <2>10. CASE Vanish
    BY <2>10 DEF Vanish
  <2>11. CASE Tick
    BY <2>11 DEF Tick
  <2>12. CASE Restart
    BY <2>12 DEF Restart, Fault
  <2>15. CASE PollAborts
    BY <2>15 DEF PollAborts, Fault
  <2>16. CASE LivenessAborts
    <3>1. livePc' = "idle" /\ UNCHANGED <<up, known, age, flag, poll, heard, outages, flagged>>
      BY <2>16 DEF LivenessAborts, Fault
    <3>2. lost' = (lost \/ livePc = "page") /\ faults' \in 0..MaxFaults
      BY <2>16 DEF LivenessAborts, Fault
    <3>3. lost' \in BOOLEAN /\ (Told => Told') BY <3>1, <3>2, Zenon
    <3> QED BY <3>1, <3>2, <3>3
  <2>13. CASE Return
    BY <2>13 DEF Return
  <2>14. CASE UNCHANGED vars
    BY <2>14 DEF vars
  <2> QED
    BY <2>1, <2>2, <2>3, <2>4, <2>5, <2>6, <2>7, <2>8, <2>9, <2>10, <2>11, <2>12, <2>13, <2>14,
       <2>15, <2>16
       DEF Next, Poll, Liveness
<1> QED
  BY <1>1, <1>2, PTL DEF Spec

(* The row and the two jobs are well typed.                                   *)
THEOREM AlertsTyping == Spec => []TypeOK
  BY AlertsInvariance, PTL DEF AInv

(* However the two jobs interleave, one silence is flagged and paged about at *)
(* most once.                                                                *)
THEOREM PagedOnce == Spec => []OncePerOutage
  BY AlertsInvariance, PTL DEF AInv

(* A flag means a page, and a page that the device is back means that one was *)
(* sent, is being sent or was lost about its silence: their order may differ. *)
THEOREM FlagMeansPage == Spec => []FlagIsPaged /\ AlertIsOut
<1>1. AInv => FlagIsPaged BY DEF AInv
<1>2. AInv /\ [Next]_vars => [PageOnline => Told]_vars BY DEF AInv, PageOnline
<1> QED BY <1>1, <1>2, AlertsInvariance, PTL DEF Spec, AlertIsOut

-----------------------------------------------------------------------------
(* The least element of a set of numbers, and the greatest of a bounded one:  *)
(* what stands for induction below.                                         *)
LEMMA Least == ASSUME NEW S \in SUBSET Nat, S # {} PROVE \E m \in S : \A n \in S : m <= n
<1> DEFINE Less == {ss \in Nat \X Nat : ss[1] < ss[2]}
<1>1. IsWellFoundedOn(Less, Nat) BY NatLessThanWellFounded DEF OpToRel
<1> HIDE DEF Less
<1>2. PICK m \in S : \A n \in S : ~(<<n, m>> \in Less) BY <1>1, WFMin
<1>3. \A n \in S : ~(n < m) BY <1>2 DEF Less
<1> QED BY <1>3

LEMMA Greatest ==
  ASSUME NEW b \in Nat, NEW S \in SUBSET (0..b), S # {}
  PROVE  \E m \in S : \A n \in S : n <= m
<1> DEFINE Mirror == {b - n : n \in S}
<1>1. Mirror \in SUBSET Nat /\ Mirror # {}
  <2>1. \A n \in S : n \in Nat /\ b - n \in Nat OBVIOUS
  <2>2. Mirror \subseteq Nat BY <2>1
  <2>3. PICK n \in S : TRUE OBVIOUS
  <2>4. b - n \in Mirror BY <2>3
  <2> QED BY <2>2, <2>4
<1>2. PICK k \in Mirror : \A n \in Mirror : k <= n BY <1>1, Least
<1>3. PICK m \in S : k = b - m BY <1>2
<1>4. \A n \in S : b - m <= b - n BY <1>2, <1>3
<1> QED BY <1>4

(* The gap analysis of _uptime_pct.                                        *)
LEMMA PrevTimeIs ==
  ASSUME AlertsAssumption, NEW times \in SUBSET (0..Window), 0 \in times, NEW t \in 1..Window
  PROVE  /\ PrevTime(times, t) \in times /\ PrevTime(times, t) < t
         /\ \A w \in times : w < t => w <= PrevTime(times, t)
<1> DEFINE Earlier == {u \in times : u < t}
<1>0. Window \in Nat BY DEF AlertsAssumption
<1>1. Earlier \in SUBSET (0..Window) /\ Earlier # {}
  <2>1. 0 \in Earlier BY <1>0
  <2> QED BY <2>1
<1>2. PICK u \in Earlier : \A w \in Earlier : w <= u BY <1>0, <1>1, Greatest
<1>3. u \in times /\ u < t /\ \A w \in times : w < t => w <= u BY <1>2
<1> QED BY <1>3 DEF PrevTime

(* What is summed up to t is what no reading vouches for up to the last time  *)
(* at or before t.                                                          *)
LastTime(times, t) == CHOOSE u \in times : u <= t /\ \A w \in times : w <= t => w <= u

UncoveredTo(readings, n) == {t \in 1..n : t \in Uncovered(readings)}

LEMMA LastTimeIs ==
  ASSUME AlertsAssumption, NEW times \in SUBSET (0..Window), 0 \in times, NEW t \in 0..Window
  PROVE  /\ LastTime(times, t) \in times /\ LastTime(times, t) <= t
         /\ \A w \in times : w <= t => w <= LastTime(times, t)
<1> DEFINE Upto == {u \in times : u <= t}
<1>0. Window \in Nat BY DEF AlertsAssumption
<1>1. Upto \in SUBSET (0..Window) /\ Upto # {}
  <2>1. 0 \in Upto BY <1>0
  <2> QED BY <2>1
<1>2. PICK u \in Upto : \A w \in Upto : w <= u BY <1>0, <1>1, Greatest
<1>3. u \in times /\ u <= t /\ \A w \in times : w <= t => w <= u BY <1>2
<1> QED BY <1>3 DEF LastTime

LEMMA GapIs ==
  ASSUME AlertsAssumption, NEW readings \in SUBSET (1..Window), NEW t \in 1..Window,
         t \in WithBounds(readings)
  PROVE  Cardinality(UncoveredTo(readings, t)) =
             Cardinality(UncoveredTo(readings, PrevTime(WithBounds(readings), t)))
                 + Excess(WithBounds(readings), t)
<1> DEFINE times == WithBounds(readings)
           prev == PrevTime(times, t)
           before == UncoveredTo(readings, prev)
           gap == (prev + Expected + 1)..t
<1>0. Window \in Nat /\ Expected \in Nat BY DEF AlertsAssumption
<1>1. times \in SUBSET (0..Window) /\ 0 \in times BY <1>0 DEF WithBounds
<1>2. /\ prev \in times /\ prev \in Nat /\ prev < t
      /\ \A w \in times : w < t => w <= prev
  <2> HIDE DEF times
  <2>1. prev \in times /\ prev < t /\ \A w \in times : w < t => w <= prev
    BY <1>1, PrevTimeIs
  <2> HIDE DEF prev
  <2>2. prev \in Nat BY <1>1, <2>1
  <2> QED BY <2>1, <2>2
<1> HIDE DEF prev
<1>3. \A k \in (prev + 1)..t : k \in Uncovered(readings) <=> k - prev > Expected
  <2> TAKE k \in (prev + 1)..t
  <2>1. k \in 1..Window BY <1>0, <1>2
  <2>2. \A u \in readings \cup {0} : u < k => u <= prev
    BY <1>0, <1>2 DEF WithBounds
  <2>3. prev \in readings \cup {0} BY <1>0, <1>2 DEF WithBounds
  <2>4. \A u \in readings \cup {0} : u \in Nat BY <1>0
  <2> QED BY <1>0, <1>2, <2>1, <2>2, <2>3, <2>4 DEF Uncovered
<1>4. UncoveredTo(readings, t) = before \cup gap
  <2>1. \A k \in 1..t : k \in UncoveredTo(readings, t) <=> k \in before \/ k \in gap
    BY <1>0, <1>2, <1>3 DEF UncoveredTo
  <2>2. UncoveredTo(readings, t) \subseteq 1..t /\ before \subseteq 1..t /\ gap \subseteq 1..t
    BY <1>0, <1>2 DEF UncoveredTo
  <2> QED BY <2>1, <2>2
<1>5. before \cap gap = {} BY <1>0, <1>2 DEF UncoveredTo
<1>6. IsFiniteSet(before) /\ Cardinality(before) \in Nat
  <2>1. IsFiniteSet(1..prev) BY <1>2, FS_Interval
  <2>2. before \in SUBSET (1..prev) BY DEF UncoveredTo
  <2> QED BY <2>1, <2>2, FS_Subset, FS_CardinalityType
<1>7. IsFiniteSet(gap) /\ Cardinality(gap) = IF t - prev > Expected THEN t - prev - Expected ELSE 0
  <2>1. prev + Expected + 1 \in Int /\ t \in Int BY <1>0, <1>2
  <2>2. /\ IsFiniteSet(gap)
        /\ Cardinality(gap) = IF prev + Expected + 1 > t THEN 0 ELSE t - (prev + Expected + 1) + 1
    BY <2>1, FS_Interval
  <2> HIDE DEF gap
  <2> QED BY <1>0, <1>2, <2>2
<1>8. Cardinality(before \cup gap) = Cardinality(before) + Cardinality(gap)
  <2> HIDE DEF before, gap
  <2>1. Cardinality(before \cap gap) = 0 BY <1>5, FS_EmptySet
  <2>2. Cardinality(gap) \in Nat BY <1>7, FS_CardinalityType
  <2>3. Cardinality(before \cup gap)
          = Cardinality(before) + Cardinality(gap) - Cardinality(before \cap gap)
    BY <1>6, <1>7, FS_Union
  <2> QED BY <1>6, <2>1, <2>2, <2>3
<1>9. Excess(times, t) = IF t - prev > Expected THEN t - prev - Expected ELSE 0
  BY DEF Excess, prev
<1> QED BY <1>4, <1>7, <1>8, <1>9 DEF prev

(* The sum the query makes is the number of ticks no reading vouches for.     *)
THEOREM GapsAreCounted ==
  ASSUME AlertsAssumption, NEW readings \in SUBSET (1..Window)
  PROVE  Downtime(readings) = Cardinality(Uncovered(readings))
<1> DEFINE times == WithBounds(readings)
           gap(t) == Excess(times, t)
           Sums(f) == f = [t \in 0..Window |-> IF t = 0 THEN 0 ELSE f[t - 1] + gap(t)]
           last(t) == LastTime(times, t)
           sofar == [t \in 0..Window |-> Cardinality(UncoveredTo(readings, last(t)))]
<1>0. Window \in Nat /\ Expected \in Nat BY DEF AlertsAssumption
<1>1. times \in SUBSET (0..Window) /\ 0 \in times /\ Window \in times
  BY <1>0 DEF WithBounds
<1>2. \A t \in 0..Window : /\ last(t) \in times /\ last(t) <= t /\ last(t) \in Nat
                           /\ \A w \in times : w <= t => w <= last(t)
  <2> TAKE t \in 0..Window
  <2> HIDE DEF times
  <2>1. last(t) \in times /\ last(t) <= t /\ \A w \in times : w <= t => w <= last(t)
    BY <1>1, LastTimeIs
  <2>2. last(t) \in 0..Window BY <1>1, <2>1
  <2> HIDE DEF last
  <2> QED BY <1>0, <2>1, <2>2
<1>3. Sums(sofar)
  <2>1. sofar[0] = 0
    <3>1. last(0) = 0 BY <1>0, <1>2
    <3>2. UncoveredTo(readings, 0) = {} BY DEF UncoveredTo
    <3> QED BY <1>0, <3>1, <3>2, FS_EmptySet
  <2>2. ASSUME NEW t \in 1..Window PROVE sofar[t] = sofar[t - 1] + gap(t)
    <3>0. t \in 0..Window /\ t - 1 \in 0..Window BY <1>0
    <3>1. CASE t \notin times
      <4>1. last(t) = last(t - 1)
        <5> HIDE DEF last, times
        <5>1. last(t) # t BY <1>2, <3>0, <3>1
        <5>2. last(t) <= t - 1 BY <1>2, <3>0, <5>1
        <5>3. last(t) <= last(t - 1) BY <1>2, <3>0, <5>2
        <5>4. last(t - 1) <= last(t) BY <1>2, <3>0
        <5> QED BY <1>2, <3>0, <5>3, <5>4
      <4>2. gap(t) = 0 BY <3>1 DEF Excess
      <4>3. Cardinality(UncoveredTo(readings, last(t))) \in Nat
        <5>1. IsFiniteSet(1..last(t)) BY <1>2, <3>0, FS_Interval
        <5>2. UncoveredTo(readings, last(t)) \in SUBSET (1..last(t)) BY DEF UncoveredTo
        <5> QED BY <5>1, <5>2, FS_Subset, FS_CardinalityType
      <4> HIDE DEF last, gap
      <4> QED BY <3>0, <4>1, <4>2, <4>3
    <3>2. CASE t \in times
      <4>1. last(t) = t BY <1>2, <3>0, <3>2
      <4>2. last(t - 1) = PrevTime(times, t)
        <5>1. /\ PrevTime(times, t) \in times /\ PrevTime(times, t) < t
              /\ \A w \in times : w < t => w <= PrevTime(times, t)
          <6> HIDE DEF times
          <6> QED BY <1>1, PrevTimeIs
        <5> DEFINE prev == PrevTime(times, t)
        <5>a. prev \in times /\ prev < t /\ \A w \in times : w < t => w <= prev
          BY <5>1
        <5> HIDE DEF last, prev, times
        <5>b. prev \in 0..Window BY <1>1, <5>a
        <5>2. prev \in Nat /\ prev <= t - 1 BY <1>0, <3>0, <5>a, <5>b
        <5>3. prev <= last(t - 1) BY <1>2, <3>0, <5>a, <5>2
        <5>4. last(t - 1) <= prev
          <6>1. last(t - 1) \in times /\ last(t - 1) < t BY <1>2, <3>0
          <6> QED BY <5>a, <6>1
        <5>5. last(t - 1) = prev BY <1>2, <3>0, <5>2, <5>3, <5>4
        <5> QED BY <5>5 DEF prev
      <4>3. Cardinality(UncoveredTo(readings, t)) =
              Cardinality(UncoveredTo(readings, PrevTime(times, t))) + gap(t)
        BY <3>2, GapIs
      <4> HIDE DEF last, gap, times
      <4> QED BY <3>0, <4>1, <4>2, <4>3
    <3> QED BY <3>1, <3>2
  <2> HIDE DEF sofar, gap
  <2>3. \A t \in 0..Window : sofar[t] = IF t = 0 THEN 0 ELSE sofar[t - 1] + gap(t)
    BY <1>0, <2>1, <2>2
  <2>4. sofar = [t \in 0..Window |-> sofar[t]] BY DEF sofar
  <2> QED BY <2>3, <2>4
<1>4. ASSUME NEW f, Sums(f) PROVE f[Window] = sofar[Window]
  <2> DEFINE Differ == {t \in 0..Window : f[t] # sofar[t]}
  <2> HIDE DEF gap, sofar
  <2>1. Differ = {}
    <3> SUFFICES ASSUME Differ # {} PROVE FALSE OBVIOUS
    <3>1. PICK t \in Differ : \A u \in Differ : t <= u
      <4>1. Differ \in SUBSET Nat BY <1>0
      <4> HIDE DEF Differ
      <4> QED BY <4>1, Least
    <3>2. t # 0 BY <1>3, <1>4
    <3>3. t - 1 \in 0..Window /\ t \in 0..Window BY <1>0, <3>2
    <3>4. f[t - 1] = sofar[t - 1] BY <3>1, <3>3
    <3>5. f[t] = f[t - 1] + gap(t) BY <1>4, <3>2, <3>3
    <3>6. sofar[t] = sofar[t - 1] + gap(t) BY <1>3, <3>2, <3>3
    <3> QED BY <3>1, <3>4, <3>5, <3>6
  <2> QED BY <1>0, <2>1
<1>5. Downtime(readings) = (CHOOSE f : Sums(f))[Window] BY DEF Downtime
<1>6. Downtime(readings) = sofar[Window]
  <2> HIDE DEF Sums, sofar
  <2>1. Sums(CHOOSE f : Sums(f)) BY <1>3
  <2> QED BY <1>4, <1>5, <2>1
<1>7. last(Window) = Window BY <1>0, <1>1, <1>2
<1>8. UncoveredTo(readings, Window) = Uncovered(readings) BY DEF UncoveredTo, Uncovered
<1> QED BY <1>0, <1>6, <1>7, <1>8

(* What _uptime_pct divides lies between nothing and the whole window, so its *)
(* clamps to 0 and to 100 percent never change what it says.                  *)
THEOREM ClampsIdle ==
  ASSUME AlertsAssumption, NEW readings \in SUBSET (1..Window)
  PROVE  Downtime(readings) \in 0..Window
<1>0. Window \in Nat BY DEF AlertsAssumption
<1>1. IsFiniteSet(1..Window) /\ Cardinality(1..Window) = Window
  <2>1. Window = IF 1 > Window THEN 0 ELSE Window - 1 + 1 BY <1>0
  <2> QED BY <1>0, <2>1, FS_Interval
<1>2. Uncovered(readings) \in SUBSET (1..Window) BY DEF Uncovered
<1>3. Cardinality(Uncovered(readings)) <= Window /\ Cardinality(Uncovered(readings)) \in Nat
  BY <1>1, <1>2, FS_Subset, FS_CardinalityType
<1> QED BY <1>0, <1>3, GapsAreCounted

(* The uptime percentage and the alerts mean the same by being there: for any *)
(* window, interval and set of older readings, with the newest reading at     *)
(* last_seen, the gap analysis counts the ticks no reading vouches for.       *)
THEOREM UptimeAgreed == Spec => []UptimeAgrees
<1>1. ASSUME AInv PROVE UptimeAgrees
  <2>1. Window \in Nat /\ age \in Nat
    BY <1>1, AlertsAssumption DEF AInv, TypeOK, AlertsAssumption
  <2> SUFFICES ASSUME NEW older \in SUBSET (1..Window - age - 1)
               PROVE  LET readings == older \cup ({Window - age} \cap 1..Window)
                      IN  Downtime(readings) = Cardinality(Uncovered(readings))
    BY DEF UptimeAgrees
  <2> DEFINE readings == older \cup ({Window - age} \cap 1..Window)
  <2>2. readings \in SUBSET (1..Window)
    <3>1. 1..Window - age - 1 \subseteq 1..Window BY <2>1
    <3> QED BY <3>1
  <2> HIDE DEF readings
  <2>3. Downtime(readings) = Cardinality(Uncovered(readings))
    BY <2>2, AlertsAssumption, GapsAreCounted
  <2> QED BY <2>3 DEF readings
<1> QED BY <1>1, AlertsInvariance, PTL

-----------------------------------------------------------------------------
(* Telemetry.                                                               *)

(* What was sent by the time of a is no more than what was sent by b's, and  *)
(* of the packets in between no more were retried than sent.                *)
Before(a, b) ==
    a.retries <= b.retries /\ b.retries - a.retries <= b.packets - a.packets

(* A reading, collected or kept, against the device: it is older, and it     *)
(* counts from the device's last reset or is older than that reset.         *)
Dated(r) ==
    /\ Before(r.sent, sent) /\ r.resets <= resets
    /\ r.resets # resets => Before(r.sent, base)
    /\ r.resets = resets /\ r.counters # None => r.counters = Minus(r.sent, base)

(* The reading kept at one poll against the next: they count from the same   *)
(* reset, or the newer one counts what is newer than the older one.         *)
Follows(k, r) ==
    /\ Before(k.sent, r.sent)
    /\ r.counters # None =>
          IF k.resets = r.resets
            THEN k.counters # None =>
                    Minus(k.sent, k.counters) = Minus(r.sent, r.counters)
            ELSE /\ r.counters.retries <= r.sent.retries - k.sent.retries
                 /\ r.counters.packets <= r.sent.packets - k.sent.packets

KeptInv == \A t \in Tables : Dated(kept[t]) /\ (~kept[t].row => kept[t].counters = None)

ReadingInv == reading # None => Dated(reading) /\ \A t \in Tables : Follows(kept[t], reading)

TelemetryInv ==
    /\ TelemetryTypeOK
    /\ Before(Zero, base) /\ Before(base, sent)
    /\ KeptInv /\ ReadingInv
    /\ RatesAreReal /\ IntervalsMeet /\ LogFollowsChannel

USE DEF Tables, Counts, Zero, Before

LEMMA MinusCounts ==
  ASSUME NEW a \in Counts, NEW b \in Counts, Before(b, a)
  PROVE  /\ Minus(a, b) \in Counts
         /\ Minus(a, b).retries = a.retries - b.retries
         /\ Minus(a, b).packets = a.packets - b.packets
BY TelemetryAssumption DEF Minus, TelemetryAssumption

(* What the device does to its counters leaves what was read of them.        *)
LEMMA TransmitKeeps == ASSUME TelemetryInv, Transmit PROVE TelemetryInv'
<1> USE TelemetryAssumption DEF TelemetryAssumption, TelemetryInv, TelemetryTypeOK
<1>1. UNCHANGED <<channel, base, resets, reading, kept, newest, rates, believed, told>>
  BY DEF Transmit, tables
<1>2. sent' \in Counts /\ Before(sent, sent') BY DEF Transmit
<1>3. \A a \in Counts : Before(a, sent) => Before(a, sent') BY <1>2
<1>4. KeptInv'
  <2> SUFFICES ASSUME NEW t \in Tables
               PROVE  Dated(kept[t])' /\ (~kept[t].row => kept[t].counters = None)
    BY <1>1 DEF KeptInv
  <2>1. kept[t].sent \in Counts BY DEF Kept
  <2> QED BY <1>1, <1>3, <2>1 DEF KeptInv, Dated
<1>5. ReadingInv'
  <2>1. reading # None => reading.sent \in Counts BY DEF Readings
  <2> QED BY <1>1, <1>3, <2>1 DEF ReadingInv, Dated, Follows
<1> QED BY <1>1, <1>2, <1>3, <1>4, <1>5 DEF RatesAreReal, IntervalsMeet, LogFollowsChannel

LEMMA ForgetKeeps == ASSUME TelemetryInv, Forget PROVE TelemetryInv'
<1> USE TelemetryAssumption DEF TelemetryAssumption, TelemetryInv, TelemetryTypeOK
<1>1. UNCHANGED <<channel, sent, reading, kept, newest, rates, believed, told>>
  BY DEF Forget, tables
<1>2. base' = sent /\ resets' = resets + 1 /\ resets' \in 0..MaxResets BY DEF Forget
<1>3. KeptInv'
  <2> SUFFICES ASSUME NEW t \in Tables
               PROVE  Dated(kept[t])' /\ (~kept[t].row => kept[t].counters = None)
    BY <1>1 DEF KeptInv
  <2>1. kept[t].sent \in Counts /\ kept[t].resets \in 0..MaxResets BY DEF Kept
  <2> QED BY <1>1, <1>2, <2>1 DEF KeptInv, Dated
<1>4. ReadingInv'
  <2>1. reading # None => reading.sent \in Counts /\ reading.resets \in 0..MaxResets
    BY DEF Readings
  <2> QED BY <1>1, <1>2, <2>1 DEF ReadingInv, Dated, Follows
<1> QED BY <1>1, <1>2, <1>3, <1>4 DEF RatesAreReal, IntervalsMeet, LogFollowsChannel

LEMMA CollectKeeps == ASSUME TelemetryInv, CollectHalow PROVE TelemetryInv'
<1> USE TelemetryAssumption DEF TelemetryAssumption, TelemetryInv, TelemetryTypeOK
<1>1. UNCHANGED <<channel, sent, base, resets, kept, newest, rates, believed, told>>
  BY DEF CollectHalow, device, tables
<1>2. /\ reading'.sent = sent /\ reading'.resets = resets
      /\ reading'.counters \in {Minus(sent, base), None}
      /\ reading'.channel \in {channel, None}
      /\ reading' \in [channel : Channels \cup {None}, counters : {Minus(sent, base), None},
                       sent : {sent}, resets : {resets}]
  BY DEF CollectHalow, Reading
<1>3. /\ Minus(sent, base) \in Counts
      /\ Minus(sent, base).retries = sent.retries - base.retries
      /\ Minus(sent, base).packets = sent.packets - base.packets
  BY MinusCounts
<1>4. reading' \in Readings BY <1>2, <1>3 DEF Readings
<1>5. Dated(reading)'
  BY <1>1, <1>2 DEF Dated
<1>6. ASSUME NEW t \in Tables PROVE Follows(kept[t], reading)'
  <2>1. kept[t].sent \in Counts /\ kept[t].counters \in Counts \cup {None} BY DEF Kept
  <2>2. Dated(kept[t]) BY DEF KeptInv
  <2>3. Before(kept[t].sent, sent) BY <2>2 DEF Dated
  <2>4. ASSUME reading'.counters # None, kept[t].resets = resets, kept[t].counters # None
        PROVE  Minus(kept[t].sent, kept[t].counters) = Minus(sent, reading'.counters)
    <3>1. kept[t].counters = Minus(kept[t].sent, base) /\ reading'.counters = Minus(sent, base)
      BY <1>2, <2>2, <2>4 DEF Dated
    <3>2. /\ kept[t].counters.retries = kept[t].sent.retries - base.retries
          /\ kept[t].counters.packets = kept[t].sent.packets - base.packets
      BY <3>1 DEF Minus
    <3> QED BY <1>3, <2>1, <3>1, <3>2 DEF Minus
  <2>5. ASSUME reading'.counters # None, kept[t].resets # resets
        PROVE  /\ reading'.counters.retries <= sent.retries - kept[t].sent.retries
               /\ reading'.counters.packets <= sent.packets - kept[t].sent.packets
    <3>1. reading'.counters = Minus(sent, base) /\ Before(kept[t].sent, base)
      BY <1>2, <2>2, <2>5 DEF Dated
    <3> QED BY <1>3, <2>1, <3>1
  <2> QED BY <1>1, <1>2, <2>3, <2>4, <2>5 DEF Follows
<1>7. KeptInv' BY <1>1 DEF KeptInv, Dated
<1> QED
  BY <1>1, <1>4, <1>5, <1>6, <1>7
  DEF ReadingInv, RatesAreReal, IntervalsMeet, LogFollowsChannel

LEMMA AtLeastOnce ==
  ASSUME NEW m \in Nat, NEW n \in Nat, NEW k \in Nat \ {0}, m <= n
  PROVE  m <= n * k
<1>1. PICK j \in Nat : k = j + 1
  <2>1. k - 1 \in Nat /\ k = (k - 1) + 1 OBVIOUS
  <2> QED BY <2>1
<1>2. n * (j + 1) = n * j + n OBVIOUS
<1>3. n * j \in Nat OBVIOUS
<1> QED BY <1>1, <1>2, <1>3

(* The rates a poll stores for a table, against what was carried.            *)
LEMMA RatesOfPoll ==
  ASSUME TelemetryInv, reading # None, NEW t \in Tables
  PROVE  /\ Minus(reading.sent, kept[t].sent) \in Counts
         /\ Retried(t) \in Fractions \cup {None} /\ Carried(t) \in Nat \cup {None}
         /\ Carried(t) # None =>
              /\ Carried(t) <= Minus(reading.sent, kept[t].sent).packets
              /\ ~(kept[t].row /\ kept[t].resets # reading.resets)
                   => Carried(t) = Minus(reading.sent, kept[t].sent).packets
         /\ Retried(t) # None =>
              /\ Retried(t).retries <= Minus(reading.sent, kept[t].sent).retries
              /\ ~(kept[t].row /\ kept[t].resets # reading.resets)
                   => Retried(t) = TrueRate(Minus(reading.sent, kept[t].sent))
<1> USE TelemetryAssumption DEF TelemetryAssumption
<1> DEFINE now == reading.sent  then == kept[t].sent
           m == reading.counters  n == kept[t].counters
           truth == Minus(now, then)
<1>1. now \in Counts /\ then \in Counts /\ m \in Counts \cup {None} /\ n \in Counts \cup {None}
  BY DEF TelemetryInv, TelemetryTypeOK, Readings, Kept
<1>2. Follows(kept[t], reading) BY DEF TelemetryInv, ReadingInv
<1>3. Before(then, now) BY <1>2 DEF Follows
<1>4. /\ truth \in Counts
      /\ truth.retries = now.retries - then.retries
      /\ truth.packets = now.packets - then.packets
  BY <1>1, <1>3, MinusCounts
<1>5. CASE ~Comparable(t) BY <1>4, <1>5 DEF Retried, Carried
<1>6. CASE Comparable(t)
  <2>1. m \in Counts /\ n \in Counts /\ kept[t].row
    BY <1>1, <1>6 DEF Comparable, TelemetryInv, KeptInv
  <2>2. Delta(t) = [retries |-> m.retries - n.retries, packets |-> m.packets - n.packets]
    BY DEF Delta, Minus
  <2>3. CASE kept[t].resets = reading.resets
    <3>1. Minus(then, n) = Minus(now, m) BY <1>2, <1>6, <2>3 DEF Follows, Comparable
    <3>2. then.retries - n.retries = now.retries - m.retries
          /\ then.packets - n.packets = now.packets - m.packets
      BY <3>1 DEF Minus
    <3>3. m.retries - n.retries = truth.retries /\ m.packets - n.packets = truth.packets
      BY <1>1, <1>4, <2>1, <3>2
    <3>4. truth.retries <= truth.packets BY <1>1, <1>3, <1>4
    <3>5. truth = [retries |-> truth.retries, packets |-> truth.packets] BY <1>4
    <3>6. Delta(t) = truth BY <2>2, <3>3, <3>5
    <3>7. Retried(t) = TrueRate(truth) /\ Retried(t) \in Fractions
          /\ Retried(t).retries <= truth.retries
      <4>1. truth.packets = 0 => truth.retries = 0 BY <1>4, <3>4
      <4>2. Retried(t) = TrueRate(truth) BY <1>4, <1>6, <3>6 DEF Retried, TrueRate
      <4> HIDE DEF truth
      <4> QED BY <1>4, <4>1, <4>2 DEF TrueRate, NoRetries, Fractions
    <3>8. Carried(t) \in {None, truth.packets} BY <1>4, <1>6, <3>6 DEF Carried
    <3> HIDE DEF truth
    <3> QED BY <1>4, <3>7, <3>8 DEF truth
  <2>4. CASE kept[t].resets # reading.resets
    <3>1. m.retries <= truth.retries /\ m.packets <= truth.packets
      BY <1>2, <1>4, <1>6, <2>4 DEF Follows, Comparable
    <3>2. m.retries - n.retries <= truth.retries /\ m.packets - n.packets <= truth.packets
      BY <1>4, <2>1, <3>1
    <3>3. /\ Delta(t).retries = m.retries - n.retries
          /\ Delta(t).packets = m.packets - n.packets
      BY <2>2
    <3>4. Carried(t) \in Nat \cup {None}
          /\ (Carried(t) # None => Carried(t) <= truth.packets)
      BY <1>4, <1>6, <2>1, <3>2, <3>3 DEF Carried
    <3>5. Retried(t) \in Fractions /\ Retried(t).retries <= truth.retries
      <4>1. CASE Retried(t) = NoRetries BY <1>4, <4>1 DEF NoRetries, Fractions
      <4>2. CASE Delta(t).retries >= 0 /\ Delta(t).packets > 0 /\ Retried(t) = Delta(t)
        <5>1. Delta(t) \in Fractions BY <1>4, <2>1, <2>2, <3>2, <3>3, <4>2 DEF Fractions
        <5> QED BY <3>2, <3>3, <4>2, <5>1
      <4> QED BY <1>6, <4>1, <4>2 DEF Retried
    <3> QED BY <1>4, <2>1, <2>4, <3>4, <3>5
  <2> QED BY <2>3, <2>4
<1> QED BY <1>5, <1>6

LEMMA IngestKeeps == ASSUME TelemetryInv, Ingest PROVE TelemetryInv'
<1> USE TelemetryAssumption DEF TelemetryAssumption
<1>1. UNCHANGED <<channel, sent, base, resets>> /\ reading # None /\ reading' = None
  BY DEF Ingest, device
<1>2. reading \in Readings /\ Dated(reading)
  BY <1>1 DEF TelemetryInv, TelemetryTypeOK, ReadingInv
<1> DEFINE new == [counters |-> reading.counters, sent |-> reading.sent,
                   resets |-> reading.resets, row |-> TRUE]
<1>3. new \in Kept BY <1>2 DEF Readings, Kept
<1>4. kept' = [t \in Tables |-> IF t \in Written THEN new ELSE kept[t]]
  BY DEF Ingest, Upsert
<1>5. kept' \in [Tables -> Kept]
  BY <1>3, <1>4 DEF TelemetryInv, TelemetryTypeOK
<1>6. KeptInv'
  <2> SUFFICES ASSUME NEW t \in Tables
               PROVE  Dated(kept[t])' /\ (~kept'[t].row => kept'[t].counters = None)
    BY DEF KeptInv
  <2>1. CASE kept'[t] = kept[t] BY <1>1, <2>1 DEF TelemetryInv, KeptInv, Dated
  <2>2. CASE kept'[t] = new BY <1>1, <1>2, <2>2 DEF Dated
  <2> QED BY <1>4, <2>1, <2>2
<1>7. rates' \in [Tables -> Rates] /\ RatesAreReal'
  <2> DEFINE Lapse(t) == kept[t].row /\ kept[t].resets # reading.resets
             Rate(t) == [retried |-> Retried(t), carried |-> Carried(t),
                         truth |-> Minus(reading.sent, kept[t].sent),
                         reset |-> Lapse(t)]
  <2>1. rates' = [t \in Tables |-> IF t \in Written THEN Rate(t) ELSE rates[t]]
    BY DEF Ingest, Insert
  <2>2. \A t \in Tables : Rate(t) \in Rates
    BY <1>1, RatesOfPoll DEF Rates
  <2>3. rates' \in [Tables -> Rates]
    <3> HIDE DEF Rate
    <3> QED BY <2>1, <2>2 DEF TelemetryInv, TelemetryTypeOK
  <2>4. ASSUME NEW t \in Tables
        PROVE  /\ rates'[t].carried # None =>
                    /\ rates'[t].carried <= rates'[t].truth.packets
                    /\ ~rates'[t].reset => rates'[t].carried = rates'[t].truth.packets
               /\ rates'[t].retried # None =>
                    /\ 0 <= rates'[t].retried.retries
                    /\ rates'[t].retried.retries
                         <= rates'[t].truth.retries * rates'[t].retried.packets
                    /\ ~rates'[t].reset
                         => SameRate(rates'[t].retried, TrueRate(rates'[t].truth))
    <3>1. CASE rates'[t] = rates[t] BY <3>1 DEF TelemetryInv, RatesAreReal
    <3>2. CASE rates'[t] = Rate(t)
      <4>1. /\ rates'[t].retried = Retried(t) /\ rates'[t].carried = Carried(t)
            /\ rates'[t].truth = Minus(reading.sent, kept[t].sent)
        BY <3>2
      <4>2. rates'[t].reset = Lapse(t)
        <5> HIDE DEF Lapse
        <5> QED BY <3>2
      <4>3. ~rates'[t].reset => ~(kept[t].row /\ kept[t].resets # reading.resets)
        BY <4>2, Zenon
      <4>4. Retried(t) # None =>
              /\ 0 <= Retried(t).retries
              /\ Retried(t).retries <= Minus(reading.sent, kept[t].sent).retries
                                          * Retried(t).packets
        BY <1>1, RatesOfPoll, AtLeastOnce DEF Fractions
      <4>5. Retried(t) # None /\ ~rates'[t].reset
              => SameRate(Retried(t), TrueRate(Minus(reading.sent, kept[t].sent)))
        BY <1>1, <4>3, RatesOfPoll DEF SameRate
      <4>6. Carried(t) # None =>
              /\ Carried(t) <= Minus(reading.sent, kept[t].sent).packets
              /\ ~rates'[t].reset => Carried(t) = Minus(reading.sent, kept[t].sent).packets
        BY <1>1, <4>3, RatesOfPoll
      <4> QED BY <4>1, <4>4, <4>5, <4>6
    <3> HIDE DEF Rate
    <3> QED BY <2>1, <3>1, <3>2
  <2> QED BY <2>3, <2>4 DEF RatesAreReal
<1>8. IntervalsMeet' /\ told' \in Nat
  <2>1. told' = told + reading.sent.packets - kept["radio"].sent.packets
    BY DEF Ingest, Insert
  <2>2. kept'["radio"].sent = reading.sent BY <1>4 DEF Written
  <2>3. told = kept["radio"].sent.packets /\ told \in Nat /\ reading.sent.packets \in Nat
    BY <1>2 DEF TelemetryInv, TelemetryTypeOK, IntervalsMeet, Readings
  <2> QED BY <2>1, <2>2, <2>3 DEF IntervalsMeet
<1>9. newest' \in Channels \cup {None} /\ believed' \in Channels \cup {None}
      /\ LogFollowsChannel'
  <2>1. reading.channel \in Channels \cup {None} BY <1>2 DEF Readings
  <2> QED
    BY <2>1 DEF Ingest, Insert, NoteChange, Changed, TelemetryInv, TelemetryTypeOK,
                LogFollowsChannel
<1> QED
  BY <1>1, <1>5, <1>6, <1>7, <1>8, <1>9 DEF TelemetryInv, TelemetryTypeOK, ReadingInv

(* Every reachable state of the poll satisfies the inductive invariant.      *)
THEOREM TelemetryInvariance == TelemetrySpec => []TelemetryInv
<1>1. TelemetryInit => TelemetryInv
  <2> SUFFICES ASSUME TelemetryInit PROVE TelemetryInv
    OBVIOUS
  <2> USE TelemetryAssumption DEF TelemetryAssumption
  <2>1. Zero \in Counts OBVIOUS
  <2>2. NoRow \in Kept BY <2>1 DEF NoRow, Kept
  <2>3. NoRate \in Rates BY <2>1 DEF NoRate, Rates
  <2>4. TelemetryTypeOK BY <2>1, <2>2, <2>3 DEF TelemetryInit, TelemetryTypeOK
  <2>5. KeptInv BY DEF TelemetryInit, KeptInv, Dated, NoRow
  <2>6. RatesAreReal BY DEF TelemetryInit, RatesAreReal, NoRate
  <2>7. IntervalsMeet /\ LogFollowsChannel /\ ReadingInv
    BY DEF TelemetryInit, IntervalsMeet, LogFollowsChannel, ReadingInv, NoRow
  <2> QED BY <2>4, <2>5, <2>6, <2>7 DEF TelemetryInv, TelemetryInit
<1>2. TelemetryInv /\ [TelemetryNext]_telemetryVars => TelemetryInv'
  <2> SUFFICES ASSUME TelemetryInv, [TelemetryNext]_telemetryVars PROVE TelemetryInv'
    OBVIOUS
  <2> USE DEF TelemetryInv, TelemetryTypeOK, KeptInv, ReadingInv, RatesAreReal, IntervalsMeet,
              LogFollowsChannel, Dated, Follows
  <2>1. CASE MoveChannel BY <2>1 DEF MoveChannel, tables
  <2>2. CASE Fails BY <2>2 DEF Fails, device, tables
  <2>3. CASE UNCHANGED telemetryVars BY <2>3 DEF telemetryVars, device, tables
  <2> QED
    BY <2>1, <2>2, <2>3, TransmitKeeps, ForgetKeeps, CollectKeeps, IngestKeeps
    DEF TelemetryNext
<1> QED BY <1>1, <1>2, PTL DEF TelemetrySpec

(* The tables of a poll are well typed.                                     *)
THEOREM TelemetryTyping == TelemetrySpec => []TelemetryTypeOK
  BY TelemetryInvariance, PTL DEF TelemetryInv

(* No stored throughput tells of more than was carried, and it and the stored *)
(* quotient of retries are what was really carried, retried and sent when no *)
(* reset came in between; after one the quotient need not be real.           *)
THEOREM RatesReal == TelemetrySpec => []RatesAreReal
  BY TelemetryInvariance, PTL DEF TelemetryInv

(* Every packet falls into one row's interval.                              *)
THEOREM IntervalsJoin == TelemetrySpec => []IntervalsMeet
  BY TelemetryInvariance, PTL DEF TelemetryInv

(* The activity log leads to the newest row's channel.                      *)
THEOREM LogFollows == TelemetrySpec => []LogFollowsChannel
  BY TelemetryInvariance, PTL DEF TelemetryInv
=============================================================================
