------------------------------ MODULE EventLog ------------------------------
(***************************************************************************)
(* The trail of on-device events, from wifi-agent.sh's record_event to the *)
(* device_events table.  record_event numbers an event from a file, one    *)
(* shell command a step, and appends it to a log it trims; `collect` sends *)
(* the whole log with every poll; the server inserts the lines in one      *)
(* transaction and lets a unique index on (device_id, device_seq) refuse   *)
(* the ones it has.  Power may fail between two commands.                  *)
(*                                                                         *)
(* Every caller of record_event holds the radio lock: one writer at a      *)
(* time.  An event is the number of its line since the device was set up,  *)
(* so the log is the interval first..appended.                             *)
(***************************************************************************)
EXTENDS Naturals

CONSTANTS
    MaxLines,   \* EVENT_LOG_MAX_LINES
    MaxEvents,  \* bound: events recorded
    MaxCuts     \* bound: power failures during record_event

VARIABLES
    step,       \* record_event: the command it runs next
    seq,        \* its shell variable
    seqFile,    \* the number in EVENT_SEQ_FILE, 0 when it is absent or empty
    appended,   \* the lines ever appended to EVENT_LOG
    first,      \* the oldest line still in it
    seqOf,      \* the "seq" each line carries
    pollPc,     \* poll_telemetry: "idle", or "answer" with the lines in hand
    answer,     \* the lines in collect's answer
    copies,     \* how many rows of device_events each line has
    cuts,
    restarted   \* history: a power failure emptied EVENT_SEQ_FILE

device == <<step, seq, seqFile, appended, first, seqOf>>
server == <<pollPc, answer, copies>>
vars   == <<device, server, cuts, restarted>>

ASSUME EventLogAssumption ==
    MaxLines \in Nat \ {0} /\ MaxEvents \in Nat /\ MaxCuts \in Nat

Events  == 1..MaxEvents
Logged  == first..appended
Shown   == {e \in Events : copies[e] > 0}

Init ==
    /\ step = "idle" /\ seq = 0 /\ seqFile = 0
    /\ appended = 0 /\ first = 1 /\ seqOf = [e \in Events |-> 0]
    /\ pollPc = "idle" /\ answer = {} /\ copies = [e \in Events |-> 0]
    /\ cuts = 0 /\ restarted = FALSE

-----------------------------------------------------------------------------
(* record_event, one shell command a step.                                  *)

ReadSeqFromLog ==  \* mutant: numbers the event by `wc -l` of the log
    /\ step = "idle" /\ appended < MaxEvents
    /\ seq' = appended + 2 - first /\ step' = "truncate"
    /\ UNCHANGED <<seqFile, appended, first, seqOf, server, cuts, restarted>>

ReadSeq ==
    /\ step = "idle" /\ appended < MaxEvents
    /\ seq' = seqFile + 1 /\ step' = "truncate"
    /\ UNCHANGED <<seqFile, appended, first, seqOf, server, cuts, restarted>>

(* `echo "$seq" > "$EVENT_SEQ_FILE"`: the shell opens the file with O_TRUNC,  *)
(* then echo writes it.                                                      *)
Truncate ==
    /\ step = "truncate"
    /\ seqFile' = 0 /\ step' = "number"
    /\ UNCHANGED <<seq, appended, first, seqOf, server, cuts, restarted>>

Number ==
    /\ step = "number"
    /\ seqFile' = seq /\ step' = "append"
    /\ UNCHANGED <<seq, appended, first, seqOf, server, cuts, restarted>>

Append ==
    /\ step = "append"
    /\ appended' = appended + 1
    /\ seqOf' = [seqOf EXCEPT ![appended + 1] = seq]
    /\ step' = "trim"
    /\ UNCHANGED <<seq, seqFile, first, server, cuts, restarted>>

TrimTwice ==  \* mutant: keeps one line less than EVENT_LOG_MAX_LINES
    /\ step = "trim"
    /\ first' = IF appended + 1 - first > MaxLines THEN appended + 2 - MaxLines ELSE first
    /\ step' = "idle"
    /\ UNCHANGED <<seq, seqFile, appended, seqOf, server, cuts, restarted>>

Trim ==
    /\ step = "trim"
    /\ first' = IF appended + 1 - first > MaxLines THEN appended + 1 - MaxLines ELSE first
    /\ step' = "idle"
    /\ UNCHANGED <<seq, seqFile, appended, seqOf, server, cuts, restarted>>

PowerCut ==
    /\ step # "idle" /\ cuts < MaxCuts
    /\ step' = "idle" /\ cuts' = cuts + 1
    /\ restarted' = (restarted \/ step = "number")
    /\ UNCHANGED <<seq, seqFile, appended, first, seqOf, server>>

-----------------------------------------------------------------------------
(* One telemetry poll: the answer may be lost, and the transaction that      *)
(* ingests it may fail.                                                      *)

Collect ==
    /\ pollPc = "idle"
    /\ pollPc' = "answer" /\ answer' = Logged
    /\ UNCHANGED <<device, copies, cuts, restarted>>

Fails ==
    /\ pollPc = "answer"
    /\ pollPc' = "idle" /\ answer' = {}
    /\ UNCHANGED <<device, copies, cuts, restarted>>

StoredSeqs == {seqOf[e] : e \in Shown}

(* ON CONFLICT (device_id, device_seq) DO NOTHING, line by line in order.    *)
Inserted ==
    {e \in answer : /\ seqOf[e] \notin StoredSeqs
                    /\ \A d \in answer : d < e => seqOf[d] # seqOf[e]}

IngestAllOrNothing ==  \* mutant: no ON CONFLICT clause, so a conflict rolls back
    /\ pollPc = "answer"
    /\ copies' = [e \in Events |-> IF Inserted = answer /\ e \in answer THEN 1 ELSE copies[e]]
    /\ pollPc' = "idle" /\ answer' = {}
    /\ UNCHANGED <<device, cuts, restarted>>

Ingest ==
    /\ pollPc = "answer"
    /\ copies' = [e \in Events |-> IF e \in Inserted THEN copies[e] + 1 ELSE copies[e]]
    /\ pollPc' = "idle" /\ answer' = {}
    /\ UNCHANGED <<device, cuts, restarted>>

-----------------------------------------------------------------------------
RecordEvent == ReadSeq \/ Truncate \/ Number \/ Append \/ Trim

Next == RecordEvent \/ PowerCut \/ Collect \/ Fails \/ Ingest

Spec == Init /\ [][Next]_vars

(* Polls come again and again, and not every one of them fails.              *)
FairSpec == Spec /\ WF_vars(Collect) /\ SF_vars(Ingest)
-----------------------------------------------------------------------------
TypeOK ==
    /\ step \in {"idle", "truncate", "number", "append", "trim"}
    /\ seq \in Nat /\ seqFile \in Nat
    /\ appended \in 0..MaxEvents /\ first \in 1..appended + 1
    /\ seqOf \in [Events -> Nat]
    /\ pollPc \in {"idle", "answer"} /\ answer \subseteq 1..appended
    /\ copies \in [Events -> Nat]
    /\ cuts \in 0..MaxCuts /\ restarted \in BOOLEAN

(* main._ingest_device_events, "makes resending the same lines on every poll *)
(* harmless": a line sent in any number of answers has one row at most.      *)
ShownOnce == \A e \in Events : copies[e] <= 1

(* While EVENT_SEQ_FILE was never emptied by a power failure, no event is    *)
(* refused as a duplicate of another one, wherever else the power failed     *)
(* ("the on-device monotonic counter that lets the server dedupe a line").   *)
NothingIsSwallowed ==
    ~restarted => \A e \in 1..appended, d \in Shown : seqOf[e] = seqOf[d] => e = d

(* The detailed trail implements the abstract one: a shown event stays, one  *)
(* that was never shown is out of reach only when MaxLines newer lines have  *)
(* pushed it out of the log and no answer on its way holds it.               *)
OutOfReach == {e \in 1..appended : e < first /\ e \notin answer /\ copies[e] = 0}

Trail == INSTANCE EventTrail WITH
             Capacity <- MaxLines, recorded <- appended, shown <- Shown, lost <- OutOfReach

TrailSpec == Trail!TrailSpec

(* "so these show up on the dashboard's event log" (wifi-agent.sh:82): what  *)
(* is logged is shown, unless it was pushed out or the numbering restarted.  *)
LoggedIsShown ==
    \A e \in Events : e \in Logged ~> (e \in Shown \/ e \in OutOfReach \/ restarted)
=============================================================================
