--------------------------- MODULE EventLogProofs ---------------------------
(* Theorems about EventLog, for any log size and any number of events and    *)
(* power failures.                                                           *)
EXTENDS EventLog, TLAPS

(* While the counter file was never emptied, the numbers grow with the lines *)
(* and the next one is above all of them.                                    *)
Numbered ==
    /\ \A d, e \in 1..appended : d < e => seqOf[d] < seqOf[e]
    /\ step \in {"idle", "truncate", "trim"} => \A e \in 1..appended : seqOf[e] <= seqFile
    /\ step \in {"truncate", "number", "append"} => \A e \in 1..appended : seqOf[e] < seq
    /\ step = "append" => seqFile = seq

(* The inductive invariant.                                                  *)
EInv ==
    /\ TypeOK
    /\ step \in {"truncate", "number", "append"} => appended < MaxEvents
    /\ pollPc = "idle" => answer = {}
    /\ Shown \subseteq 1..appended
    /\ first = 1 \/ first + MaxLines <= appended + 1
    /\ ~restarted => Numbered

(* A step of the poll alone leaves the numbering as it is.                    *)
LEMMA NumberedStutters == UNCHANGED device => (Numbered' <=> Numbered)
  BY DEF Numbered, device

(* Every reachable state satisfies the inductive invariant.                   *)
THEOREM Invariance == Spec => []EInv
<1>1. Init => EInv
  <2> SUFFICES ASSUME Init PROVE EInv
    OBVIOUS
  <2>1. TypeOK
    <3>1. appended \in 0..MaxEvents /\ first \in 1..appended + 1 /\ cuts \in 0..MaxCuts
      BY EventLogAssumption DEF Init
    <3> QED
      BY <3>1 DEF Init, TypeOK
  <2>2. Shown = {} /\ 1..appended = {}
    BY DEF Init, Shown, Events
  <2> QED
    BY <2>1, <2>2 DEF Init, EInv, Numbered
<1>2. EInv /\ [Next]_vars => EInv'
  <2> SUFFICES ASSUME EInv, [Next]_vars PROVE EInv'
    OBVIOUS
  <2> USE EventLogAssumption
  <2>1. CASE ReadSeq
    BY <2>1 DEF ReadSeq, EInv, TypeOK, Shown, Numbered, Events, server
  <2>2. CASE Truncate
    BY <2>2 DEF Truncate, EInv, TypeOK, Shown, Numbered, Events, server
  <2>3. CASE Number
    BY <2>3 DEF Number, EInv, TypeOK, Shown, Numbered, Events, server
  <2>4. CASE Append
    <3> USE <2>4 DEF Append, EInv, server
    <3>1. TypeOK'
      BY DEF TypeOK, Events
    <3>2. ~restarted' => Numbered'
      <4> SUFFICES ASSUME ~restarted PROVE Numbered'
        OBVIOUS
      <4>1. appended + 1 \in Events /\ 1..appended \subseteq Events /\ seqOf \in [Events -> Nat]
        BY DEF TypeOK, Events
      <4>2. seqOf'[appended + 1] = seq /\ \A e \in 1..appended : seqOf'[e] = seqOf[e]
        BY <4>1 DEF TypeOK, Events
      <4>3. seqFile' = seq /\ \A e \in 1..appended : seqOf[e] < seq
        BY DEF Numbered
      <4> QED
        BY <4>1, <4>2, <4>3 DEF Numbered, TypeOK
    <3> QED
      BY <3>1, <3>2 DEF TypeOK, Shown
  <2>5. CASE Trim
    BY <2>5 DEF Trim, EInv, TypeOK, Shown, Numbered, Events, server
  <2>6. CASE PowerCut
    <3> USE <2>6 DEF PowerCut, EInv, server
    <3>1. TypeOK'
      BY DEF TypeOK
    <3>2. ~restarted' => Numbered'
      <4> SUFFICES ASSUME ~restarted' PROVE Numbered'
        OBVIOUS
      <4>1. ~restarted /\ step # "number"
        OBVIOUS
      <4>2. Numbered /\ \A e \in 1..appended : seqOf[e] \in Nat
        BY <4>1 DEF TypeOK, Events
      <4>3. \A e \in 1..appended : seqOf[e] <= seqFile
        BY <4>1, <4>2 DEF Numbered, TypeOK
      <4> QED
        BY <4>2, <4>3 DEF Numbered
    <3> QED
      BY <3>1, <3>2 DEF Shown
  <2>7. CASE Collect
    BY <2>7, NumberedStutters DEF Collect, EInv, TypeOK, Shown, Logged, Events, device
  <2>8. CASE Fails
    BY <2>8, NumberedStutters DEF Fails, EInv, TypeOK, Shown, Events, device
  <2>9. CASE Ingest
    <3>1. TypeOK'
      BY <2>9 DEF Ingest, EInv, TypeOK, Events, device
    <3>2. Shown' \subseteq 1..appended'
      BY <2>9 DEF Ingest, EInv, TypeOK, Inserted, Shown, Events, device
    <3> QED
      BY <2>9, <3>1, <3>2, NumberedStutters DEF Ingest, EInv, device
  <2>10. CASE UNCHANGED vars
    BY <2>10, NumberedStutters DEF vars, device, server, EInv, TypeOK, Shown, Events
  <2> QED
    BY <2>1, <2>2, <2>3, <2>4, <2>5, <2>6, <2>7, <2>8, <2>9, <2>10 DEF Next, RecordEvent
<1> QED
  BY <1>1, <1>2, PTL DEF Spec

(* The state of the log and of the poll is well typed.                        *)
THEOREM Typing == Spec => []TypeOK
  BY Invariance, PTL DEF EInv

(* Resending the same lines on every poll is harmless: a row each at most.   *)
THEOREM AtMostOneRow == Spec => []ShownOnce
<1>1. Init => ShownOnce
  BY DEF Init, ShownOnce
<1>2. EInv /\ ShownOnce /\ [Next]_vars => ShownOnce'
  <2> SUFFICES ASSUME EInv, ShownOnce, [Next]_vars PROVE ShownOnce'
    OBVIOUS
  <2>1. CASE Ingest
    <3> SUFFICES ASSUME NEW e \in Events PROVE copies'[e] <= 1
      BY DEF ShownOnce
    <3>1. CASE e \in Inserted
      <4>1. copies[e] = 0
        BY <3>1 DEF Inserted, StoredSeqs, Shown, EInv, TypeOK
      <4> QED
        BY <2>1, <3>1, <4>1 DEF Ingest
    <3>2. CASE e \notin Inserted
      BY <2>1, <3>2 DEF Ingest, ShownOnce
    <3> QED
      BY <3>1, <3>2
  <2>2. CASE UNCHANGED copies
    BY <2>2 DEF ShownOnce
  <2> QED
    BY <2>1, <2>2 DEF Next, RecordEvent, ReadSeq, Truncate, Number, Append, Trim, PowerCut,
                      Collect, Fails, vars, server
<1> QED
  BY <1>1, <1>2, Invariance, PTL DEF Spec

(* Until a power failure empties the counter file, no event is refused as a   *)
(* duplicate of another one.                                                 *)
THEOREM NoneIsSwallowed == Spec => []NothingIsSwallowed
<1>1. EInv => NothingIsSwallowed
  <2> SUFFICES ASSUME EInv, ~restarted,
                      NEW e \in 1..appended, NEW d \in Shown, seqOf[e] = seqOf[d]
               PROVE  e = d
    BY DEF NothingIsSwallowed
  <2>1. d \in 1..appended /\ appended \in Nat
    BY DEF EInv, TypeOK
  <2>2. seqOf[e] \in Nat /\ seqOf[d] \in Nat
    BY <2>1, EventLogAssumption DEF EInv, TypeOK, Events
  <2> QED
    BY <2>1, <2>2 DEF EInv, Numbered
<1> QED
  BY <1>1, Invariance, PTL

(* A line that the log no longer has is MaxLines lines old.                   *)
LEMMA Pushed == EInv => \A e \in 1..appended : e < first => e + MaxLines <= appended
  BY EventLogAssumption DEF EInv, TypeOK

(* The file, the counter, the polls and the unique index implement the trail. *)
THEOREM Refinement == Spec => TrailSpec
<1>1. Init => Trail!TrailInit
  BY DEF Init, Trail!TrailInit, Shown, OutOfReach, Events
<1>2. EInv /\ EInv' /\ [Next]_vars => [Trail!TrailNext]_<<appended, Shown, OutOfReach>>
  <2> SUFFICES ASSUME EInv, EInv', [Next]_vars
               PROVE  \/ Trail!TrailNext
                      \/ UNCHANGED <<appended, Shown, OutOfReach>>
    OBVIOUS
  <2> USE EventLogAssumption
  <2>1. CASE Append
    <3>1. Shown' = Shown
      BY <2>1 DEF Append, server, Shown
    <3>2. OutOfReach' = OutOfReach
      BY <2>1 DEF Append, server, OutOfReach, EInv, TypeOK
    <3> QED
      BY <2>1, <3>1, <3>2 DEF Append, Trail!TrailNext, Trail!Record
  <2>2. CASE Trim
    <3>1. appended' = appended /\ Shown' = Shown /\ answer' = answer /\ copies' = copies
      BY <2>2 DEF Trim, server, Shown
    <3>2. first <= first' /\ first \in Nat /\ first' \in Nat
      BY <2>2 DEF Trim, EInv, TypeOK
    <3>3. OutOfReach \subseteq OutOfReach'
      BY <3>1, <3>2 DEF OutOfReach, EInv, TypeOK
    <3>4. \A e \in OutOfReach' : e + MaxLines <= appended
      <4> SUFFICES ASSUME NEW e \in OutOfReach' PROVE e + MaxLines <= appended
        OBVIOUS
      <4>1. e \in Nat /\ 1 <= e /\ e < first'
        BY <3>1 DEF OutOfReach, EInv, TypeOK
      <4>2. first = 1 \/ first + MaxLines <= appended + 1
        BY DEF EInv
      <4>3. first' = first \/ first' = appended + 1 - MaxLines
        BY <2>2 DEF Trim
      <4>4. MaxLines \in Nat /\ appended \in Nat /\ first \in Nat
        BY DEF EventLogAssumption, EInv, TypeOK
      <4> QED
        BY <4>1, <4>2, <4>3, <4>4
    <3> QED
      BY <3>1, <3>3, <3>4 DEF Trail!TrailNext, Trail!Resolve, OutOfReach, Shown, EInv
  <2>3. CASE Collect
    BY <2>3 DEF Collect, device, Logged, Shown, OutOfReach, EInv, TypeOK
  <2>4. CASE Fails
    <3>1. appended' = appended /\ Shown' = Shown /\ first' = first /\ copies' = copies
      BY <2>4 DEF Fails, device, Shown
    <3>2. OutOfReach \subseteq OutOfReach'
      BY <2>4, <3>1 DEF Fails, OutOfReach
    <3>3. \A e \in OutOfReach' : e + MaxLines <= appended
      BY <3>1, Pushed DEF OutOfReach
    <3> QED
      BY <3>1, <3>2, <3>3 DEF Trail!TrailNext, Trail!Resolve, OutOfReach, Shown, EInv
  <2>5. CASE Ingest
    <3>1. appended' = appended /\ first' = first /\ answer' = {}
      BY <2>5 DEF Ingest, device
    <3>2. Shown \subseteq Shown' /\ Shown' \subseteq 1..appended
      BY <2>5, <3>1 DEF Ingest, Shown, EInv, TypeOK
    <3>3. OutOfReach \subseteq OutOfReach'
      BY <2>5, <3>1 DEF Ingest, OutOfReach, Inserted, EInv, TypeOK, Events
    <3>4. \A e \in OutOfReach' : e + MaxLines <= appended
      BY <3>1, Pushed DEF OutOfReach
    <3> QED
      BY <3>1, <3>2, <3>3, <3>4 DEF Trail!TrailNext, Trail!Resolve, OutOfReach, Shown
  <2>6. CASE UNCHANGED <<appended, first, answer, copies>>
    BY <2>6 DEF Shown, OutOfReach
  <2> QED
    BY <2>1, <2>2, <2>3, <2>4, <2>5, <2>6
       DEF Next, RecordEvent, ReadSeq, Truncate, Number, PowerCut, vars, device, server
<1> QED
  BY <1>1, <1>2, Invariance, PTL DEF Spec, TrailSpec, Trail!TrailSpec
=============================================================================
