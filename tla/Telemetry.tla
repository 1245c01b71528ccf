----------------------------- MODULE Telemetry -----------------------------
(***************************************************************************)
(* From a device's cumulative counters to the rates the optimizer and the  *)
(* dashboard read: poll_telemetry collects a reading, _ingest_collect      *)
(* turns it, in one transaction, into a telemetry row, the counters kept   *)
(* for the next poll and, when the channel differs from the newest row's,  *)
(* an event in the activity log.                                           *)
(*                                                                         *)
(* The device forgets its counters when it reboots and when its peer       *)
(* associates anew; with no peer it reports none, and with no interface    *)
(* not even a channel.  The peer is also the radio's one client, whose     *)
(* counters live in a table of their own.  A packet stands for one unit of *)
(* bytes, a rate times its interval for what it says was carried.          *)
(***************************************************************************)
EXTENDS Integers

CONSTANTS
    Channels,
    MaxPackets,  \* bound: packets the device ever sends
    MaxResets,   \* bound: reboots and new associations
    None         \* SQL's NULL, JSON's null, and no row

VARIABLES
    channel,    \* the live channel
    sent,       \* history: [retries, packets] since the device was set up
    base,       \* what of `sent` the last reset forgot
    resets,
    reading,    \* collect's answer, not ingested yet, or None
    kept,       \* device_radio_counters and device_radio_client_counters
    newest,     \* the newest telemetry row's channel, or None
    rates,      \* the rates of the newest rows, with the truth about them
    believed,   \* history: the channel the activity log leads to from the first
                \*   row, or the first after a row without a channel, or None
    told        \* history: the packets the intervals of the rows add up to

device == <<channel, sent, base, resets>>
tables == <<kept, newest, rates, believed, told>>
telemetryVars == <<device, reading, tables>>

ASSUME TelemetryAssumption ==
    None \notin Channels /\ MaxPackets \in Nat /\ MaxResets \in Nat

Tables == {"radio", "client"}

Counts    == [retries : 0..MaxPackets, packets : 0..MaxPackets]
Minus(a, b) == [retries |-> a.retries - b.retries, packets |-> a.packets - b.packets]
Zero      == [retries |-> 0, packets |-> 0]

(* A rate of retries is a quotient, kept as a fraction; this one is 0.0.      *)
NoRetries == [retries |-> 0, packets |-> 1]

NoRow  == [counters |-> None, sent |-> Zero, resets |-> 0, row |-> FALSE]
NoRate == [retried |-> None, carried |-> None, truth |-> Zero, reset |-> FALSE]

TelemetryInit ==
    /\ channel \in Channels
    /\ sent = Zero /\ base = Zero /\ resets = 0
    /\ reading = None
    /\ kept = [t \in Tables |-> NoRow] /\ newest = None
    /\ rates = [t \in Tables |-> NoRate] /\ believed = None /\ told = 0

-----------------------------------------------------------------------------
(* The device.                                                              *)

Transmit ==
    /\ sent.packets < MaxPackets
    /\ \E r \in {0, 1} :
          sent' = [retries |-> sent.retries + r, packets |-> sent.packets + 1]
    /\ UNCHANGED <<channel, base, resets, reading, tables>>

Forget ==
    /\ resets < MaxResets
    /\ resets' = resets + 1 /\ base' = sent
    /\ UNCHANGED <<channel, sent, reading, tables>>

MoveChannel ==
    /\ channel' \in Channels
    /\ UNCHANGED <<sent, base, resets, reading, tables>>

-----------------------------------------------------------------------------
(* collect_halow: all of it, no peer, or no interface.  The answer may be    *)
(* lost, which is never having asked.                                       *)

Reading(withChannel, withPeer) ==
    [channel  |-> IF withChannel THEN channel ELSE None,
     counters |-> IF withPeer THEN Minus(sent, base) ELSE None,
     sent |-> sent, resets |-> resets]

CollectHalow ==
    /\ reading = None
    /\ \E c \in BOOLEAN, p \in BOOLEAN : (p => c) /\ reading' = Reading(c, p)
    /\ UNCHANGED <<device, tables>>

-----------------------------------------------------------------------------
(* _upsert_radio_counters and _upsert_client_counters: the difference from   *)
(* the reading kept at the previous poll, when both have counters.  Retries   *)
(* go over packets, whatever the two differences are of.                    *)

Comparable(t) == reading.counters # None /\ kept[t].counters # None

Delta(t) == Minus(reading.counters, kept[t].counters)

Retried(t) ==
    IF ~Comparable(t) THEN None
    ELSE IF Delta(t).retries >= 0 /\ Delta(t).packets > 0 THEN Delta(t) ELSE NoRetries

Absolute(n) == IF n < 0 THEN -n ELSE n

CarriedAbsolute(t) ==  \* mutant: a negative difference loses its sign
    IF ~Comparable(t) \/ t # "radio" THEN None ELSE Absolute(Delta(t).packets)

Carried(t) ==
    IF ~Comparable(t) \/ t # "radio" THEN None
    ELSE IF Delta(t).packets >= 0 THEN Delta(t).packets ELSE 0

(* collect lists a client only when there is a peer: its row then stays.     *)
Written == {t \in Tables : t = "radio" \/ reading.counters # None}

Upsert ==
    kept' = [t \in Tables |->
                IF t \in Written
                  THEN [counters |-> reading.counters, sent |-> reading.sent,
                        resets |-> reading.resets, row |-> TRUE]
                  ELSE kept[t]]

Insert ==
    /\ newest' = reading.channel
    /\ rates' = [t \in Tables |->
                   IF t \in Written
                     THEN [retried |-> Retried(t), carried |-> Carried(t),
                           truth |-> Minus(reading.sent, kept[t].sent),
                           reset |-> kept[t].row /\ kept[t].resets # reading.resets]
                     ELSE rates[t]]
    /\ told' = told + reading.sent.packets - kept["radio"].sent.packets

(* _record_channel_change_if_any: against the newest row, whatever it holds. *)
(* After a row without a channel it records nothing, and the log starts over.*)
Changed == reading.channel # None /\ newest # None /\ newest # reading.channel

NoteChange ==
    believed' = IF Changed \/ (newest = None /\ reading.channel # None)
                  THEN reading.channel ELSE believed

Ingest ==
    /\ reading # None
    /\ NoteChange /\ Upsert /\ Insert
    /\ reading' = None
    /\ UNCHANGED device

FailsHalfway ==  \* mutant: no transaction, so what ran before the failure stays
    /\ reading # None
    /\ NoteChange /\ Upsert
    /\ reading' = None
    /\ UNCHANGED <<device, newest, rates, told>>

Fails ==
    /\ reading # None
    /\ reading' = None
    /\ UNCHANGED <<device, tables>>

TelemetryNext == Transmit \/ Forget \/ MoveChannel \/ CollectHalow \/ Ingest \/ Fails

TelemetrySpec == TelemetryInit /\ [][TelemetryNext]_telemetryVars
-----------------------------------------------------------------------------
Readings == [channel : Channels \cup {None}, counters : Counts \cup {None},
             sent : Counts, resets : 0..MaxResets]
Fractions == [retries : 0..MaxPackets, packets : Nat \ {0}]
Rates    == [retried : Fractions \cup {None}, carried : Nat \cup {None}, truth : Counts,
             reset : BOOLEAN]
Kept     == [counters : Counts \cup {None}, sent : Counts, resets : 0..MaxResets,
             row : BOOLEAN]

TelemetryTypeOK ==
    /\ channel \in Channels
    /\ sent \in Counts /\ base \in Counts /\ resets \in 0..MaxResets
    /\ reading \in Readings \cup {None}
    /\ kept \in [Tables -> Kept] /\ rates \in [Tables -> Rates]
    /\ newest \in Channels \cup {None} /\ believed \in Channels \cup {None}
    /\ told \in Nat

(* What was really retried of what was really sent.                        *)
TrueRate(truth) == IF truth.packets > 0 THEN truth ELSE NoRetries

SameRate(a, b) == a.retries * b.packets = b.retries * a.packets

(* The stored throughput never tells of more than was carried since the      *)
(* reading it is compared with, and the stored quotient of retries is that   *)
(* of what was really retried and sent, unless a reset came in between.      *)
(* Then the quotient is not negative, and no more than if all the retries    *)
(* had been of one packet, but it may be more than one: a kept 0 of 1, a     *)
(* reset and 2 of 2 give 2/1, the "nonsense [...] huge value" that           *)
(* main.py:216-218 says a reset does not give.                              *)
RatesAreReal ==
    \A t \in Tables :
        LET r == rates[t]
        IN  /\ r.carried # None =>
                  r.carried <= r.truth.packets /\ (~r.reset => r.carried = r.truth.packets)
            /\ r.retried # None =>
                  /\ 0 <= r.retried.retries
                  /\ r.retried.retries <= r.truth.retries * r.retried.packets
                  /\ ~r.reset => SameRate(r.retried, TrueRate(r.truth))

(* Every packet falls into the interval of exactly one telemetry row, over   *)
(* failed polls, failed transactions and polls without counters.            *)
IntervalsMeet == told = kept["radio"].sent.packets

(* Following the channel_changed events leads to the channel of the newest   *)
(* row ("every channel change", migration 017), as far back as the newest    *)
(* row without a channel.                                                    *)
LogFollowsChannel == newest # None => believed = newest
=============================================================================
