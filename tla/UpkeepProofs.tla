---------------------------- MODULE UpkeepProofs ----------------------------
(***************************************************************************)
(* Theorems about what the server does for the dashboard and its jobs on a *)
(* device: the connections it keeps (SshPool, for any tasks, devices and   *)
(* connections and any number of faults) and the settings, the backups and *)
(* their restores (Upkeep, for any configs, requests and saves).           *)
(***************************************************************************)
EXTENDS SshPool, Upkeep, SequenceTheorems, TLAPS

-----------------------------------------------------------------------------
(* SshPool.                                                                 *)

(* A task dials only while it holds _lock and its device has no connection    *)
(* anybody could use.                                                        *)
DialsAlone ==
    /\ \A t \in Tasks : pc[t] = "dial" <=> lock = t
    /\ \A t \in Tasks : lock = t => ~Usable(HostOf[t])

(* A task holds connections of its own device only, and once it has failed    *)
(* on one, that one is closed before it asks for another.                    *)
Holds ==
    \A t \in Tasks :
        /\ conn[t] # None => peer[conn[t]] = HostOf[t]
        /\ pc[t] = "command" => conn[t] # None
        /\ pc[t] = "idle" => conn[t] = None
        /\ pc[t] \in {"get", "dial"} => conn[t] = None \/ ~Live(conn[t])

TableIsRight == \A h \in Hosts : table[h] # None => peer[table[h]] = h

(* The inductive invariant.                                                  *)
PInv == TypeOK /\ NothingLeaks /\ DialsAlone /\ Holds /\ TableIsRight

LEMMA PoolInitIsTyped == Init => TypeOK
<1> SUFFICES ASSUME Init PROVE TypeOK
  OBVIOUS
<1>1. faults \in 0..MaxFaults
  BY SshPoolAssumption DEF SshPoolAssumption, Init
<1> QED
  BY <1>1 DEF Init, TypeOK

LEMMA PoolStepIsTyped == TypeOK /\ [Next]_vars => TypeOK'
<1> SUFFICES ASSUME TypeOK, [Next]_vars PROVE TypeOK'
  OBVIOUS
<1> USE SshPoolAssumption DEF SshPoolAssumption, TypeOK, pool, task
<1>1. ASSUME NEW t \in Tasks, Start(t) PROVE TypeOK'
  BY <1>1 DEF Start
<1>2. ASSUME NEW t \in Tasks, Share(t) PROVE TypeOK'
  BY <1>2 DEF Share, Usable
<1>3. ASSUME NEW t \in Tasks, Dial(t) PROVE TypeOK'
  BY <1>3 DEF Dial
<1>4. ASSUME NEW t \in Tasks, DropStale(t) PROVE TypeOK'
  BY <1>4 DEF DropStale, NextTry, Returns
<1>5. ASSUME NEW t \in Tasks, Dialed(t) PROVE TypeOK'
  BY <1>5 DEF Dialed
<1>6. ASSUME NEW t \in Tasks, DialFails(t) PROVE TypeOK'
  BY <1>6 DEF DialFails, Raises, Returns
<1>7. ASSUME NEW t \in Tasks, Answered(t) PROVE TypeOK'
  BY <1>7 DEF Answered, Returns
<1>8. ASSUME NEW t \in Tasks, TimesOut(t) PROVE TypeOK'
  BY <1>8 DEF TimesOut, Raises, Returns
<1>9. ASSUME NEW t \in Tasks, ConnectionLost(t) PROVE TypeOK'
  BY <1>9 DEF ConnectionLost, Raises, Returns
<1>10. ASSUME NEW c \in Conns, Break(c) PROVE TypeOK'
  BY <1>10 DEF Break
<1>11. ASSUME NEW c \in Conns, Notice(c) PROVE TypeOK'
  BY <1>11 DEF Notice
<1>12. CASE CloseAll
  BY <1>12 DEF CloseAll
<1>13. CASE UNCHANGED vars
  BY <1>13 DEF vars
<1> QED
  BY <1>1, <1>2, <1>3, <1>4, <1>5, <1>6, <1>7, <1>8, <1>9, <1>10, <1>11, <1>12, <1>13
     DEF Next, Locks, Ends

(* The rest of the inductive invariant, action by action.                     *)
LEMMA PoolStepKeeps == PInv /\ TypeOK' /\ [Next]_vars => PInv'
<1> SUFFICES ASSUME PInv, TypeOK', [Next]_vars PROVE PInv'
  OBVIOUS
<1> USE SshPoolAssumption
    DEF SshPoolAssumption, PInv, TypeOK, NothingLeaks, DialsAlone, Holds, TableIsRight,
        Live, Usable, pool, task
<1>1. ASSUME NEW t \in Tasks, Start(t) PROVE PInv'
  BY <1>1 DEF Start
<1>2. ASSUME NEW t \in Tasks, Share(t) PROVE PInv'
  BY <1>2 DEF Share
<1>3. ASSUME NEW t \in Tasks, Dial(t) PROVE PInv'
  BY <1>3 DEF Dial
<1>4. ASSUME NEW t \in Tasks, DropStale(t) PROVE PInv'
  <2>1. /\ lock = None /\ lock' = None /\ peer' = peer /\ pc[t] = "failed"
        /\ table' = [table EXCEPT ![HostOf[t]] = None]
        /\ \A c \in Conns : state'[c] = IF c = table[HostOf[t]] THEN "closed" ELSE state[c]
    BY <1>4 DEF DropStale
  <2>2. /\ pc'[t] \in {"idle", "get"} /\ (pc'[t] = "idle" => conn'[t] = None)
        /\ conn'[t] \in {conn[t], None}
        /\ \A u \in Tasks \ {t} : pc'[u] = pc[u] /\ conn'[u] = conn[u]
    BY <1>4 DEF DropStale, NextTry, Returns
  <2>3. NothingLeaks'
    BY <2>1
  <2>4. DialsAlone'
    BY <2>1, <2>2
  <2>5. Holds'
    <3>1. ASSUME conn[t] # None PROVE state'[conn[t]] = "closed"
      <4>1. conn[t] \in Conns /\ peer[conn[t]] = HostOf[t]
        BY <3>1
      <4>2. state[conn[t]] # "closed" => table[peer[conn[t]]] = conn[t]
        BY <4>1
      <4>3. CASE state[conn[t]] = "closed"
        BY <2>1, <4>1, <4>3
      <4>4. CASE conn[t] = table[HostOf[t]]
        BY <2>1, <4>1, <4>4
      <4> QED
        BY <4>1, <4>2, <4>3, <4>4
    <3>2. ASSUME NEW u \in Tasks, u # t, pc[u] \in {"get", "dial"}, conn[u] # None
          PROVE  state'[conn[u]] = "closed"
      <4>1. conn[u] \in Conns /\ state[conn[u]] = "closed"
        BY <3>2
      <4> QED
        BY <2>1, <4>1
    <3> QED
      BY <2>1, <2>2, <3>1, <3>2
  <2>6. TableIsRight'
    BY <2>1
  <2> QED
    BY <2>3, <2>4, <2>5, <2>6
<1>5. ASSUME NEW t \in Tasks, Dialed(t) PROVE PInv'
  BY <1>5 DEF Dialed, Fresh
<1>6. ASSUME NEW t \in Tasks, DialFails(t) PROVE PInv'
  BY <1>6 DEF DialFails, Raises, Returns
<1>7. ASSUME NEW t \in Tasks, Answered(t) PROVE PInv'
  BY <1>7 DEF Answered, Returns
<1>8. ASSUME NEW t \in Tasks, TimesOut(t) PROVE PInv'
  BY <1>8 DEF TimesOut, Raises, Returns
<1>9. ASSUME NEW t \in Tasks, ConnectionLost(t) PROVE PInv'
  BY <1>9 DEF ConnectionLost, Raises, Returns
<1>10. ASSUME NEW c \in Conns, Break(c) PROVE PInv'
  BY <1>10 DEF Break
<1>11. ASSUME NEW c \in Conns, Notice(c) PROVE PInv'
  BY <1>11 DEF Notice
<1>12. CASE CloseAll
  BY <1>12 DEF CloseAll
<1>13. CASE UNCHANGED vars
  BY <1>13 DEF vars
<1> QED
  BY <1>1, <1>2, <1>3, <1>4, <1>5, <1>6, <1>7, <1>8, <1>9, <1>10, <1>11, <1>12, <1>13
     DEF Next, Locks, Ends

(* Every reachable state satisfies the inductive invariant.                   *)
THEOREM PoolInvariance == Spec => []PInv
<1>1. Init => PInv
  BY PoolInitIsTyped, SshPoolAssumption
     DEF SshPoolAssumption, Init, PInv, NothingLeaks, DialsAlone, Holds, TableIsRight, Live
<1>2. PInv /\ [Next]_vars => PInv'
  BY PoolStepIsTyped, PoolStepKeeps DEF PInv
<1> QED
  BY <1>1, <1>2, PTL DEF Spec

(* The table, the lock and the tasks are well typed.                          *)
THEOREM PoolTyping == Spec => []TypeOK
  BY PoolInvariance, PTL DEF PInv

(* "One reused connection per (host, port)": nothing open is outside the      *)
(* table.                                                                    *)
THEOREM NoLeak == Spec => []NothingLeaks
  BY PoolInvariance, PTL DEF PInv

(* The retry never goes out on the connection the first attempt failed on.    *)
THEOREM FreshRetry == Spec => RetryIsFresh
<1>1. PInv /\ [Next]_vars =>
        [\A t \in Tasks :
            pc[t] = "get" /\ pc'[t] = "command" /\ try[t] = 2 => conn'[t] # conn[t]]_vars
  <2> SUFFICES ASSUME PInv, Next, NEW t \in Tasks,
                      pc[t] = "get", pc'[t] = "command"
               PROVE  conn'[t] # conn[t]
    OBVIOUS
  <2>1. Share(t)
    BY DEF Next, Start, Locks, Ends, Share, Dial, DropStale, NextTry, Returns, Dialed,
           DialFails, Answered, TimesOut, ConnectionLost, Raises, Break, Notice, CloseAll,
           task, PInv, TypeOK
  <2> QED
    BY <2>1, SshPoolAssumption
       DEF SshPoolAssumption, Share, Usable, Live, PInv, TypeOK, Holds
<1> QED
  BY <1>1, PoolInvariance, PTL DEF Spec, RetryIsFresh

(* How many steps of its own a call may still take.                          *)
CallLeft(t) ==
    IF pc[t] = "idle" THEN 0
    ELSE 4 * (2 - try[t]) + (CASE pc[t] = "get" -> 4 [] pc[t] = "dial" -> 3
                               [] pc[t] = "command" -> 2 [] OTHER -> 1)

(* A call that has begun only ever comes nearer to its end: no step of its    *)
(* own or of anybody else starts it again, so it waits for the lock twice at  *)
(* most, dials twice at most and sends its command twice at most.            *)
CallsGoOn ==
    [][\A t \in Tasks : pc[t] # "idle" =>
          UNCHANGED <<pc[t], try[t]>> \/ CallLeft(t)' < CallLeft(t)]_vars

LEMMA CallStep ==
  ASSUME TypeOK, Next, NEW t \in Tasks, pc[t] # "idle"
  PROVE  UNCHANGED <<pc[t], try[t]>> \/ CallLeft(t)' < CallLeft(t)
<1> USE DEF CallLeft, TypeOK
<1>1. ASSUME NEW u \in Tasks, u # t, Start(u) \/ Locks(u) \/ Ends(u)
      PROVE  UNCHANGED <<pc[t], try[t]>>
  BY <1>1 DEF Start, Locks, Ends, Share, Dial, DropStale, NextTry, Returns, Dialed, DialFails,
              Answered, TimesOut, ConnectionLost, Raises, task
<1>2. CASE \E c \in Conns : Break(c) \/ Notice(c)
  BY <1>2 DEF Break, Notice, task
<1>3. CASE CloseAll BY <1>3 DEF CloseAll
<1>4. CASE Start(t) BY <1>4 DEF Start
<1>5. CASE Share(t) BY <1>5 DEF Share
<1>6. CASE Dial(t) BY <1>6 DEF Dial
<1>7. CASE Dialed(t) BY <1>7 DEF Dialed
<1>8. CASE DropStale(t) BY <1>8 DEF DropStale, NextTry, Returns
<1>9. CASE DialFails(t) \/ Answered(t) \/ TimesOut(t) \/ ConnectionLost(t)
  BY <1>9 DEF DialFails, Answered, TimesOut, ConnectionLost, Raises, Returns
<1> QED
  BY <1>1, <1>2, <1>3, <1>4, <1>5, <1>6, <1>7, <1>8, <1>9 DEF Next, Locks, Ends

(* Every call of run and put_bytes runs down: what is left of CallsEnd is     *)
(* that the lock is served and the awaits end.                               *)
THEOREM CallsRunDown == Spec => CallsGoOn
<1>1. TypeOK /\ [Next]_vars =>
        [\A t \in Tasks : pc[t] # "idle" =>
            UNCHANGED <<pc[t], try[t]>> \/ CallLeft(t)' < CallLeft(t)]_vars
  BY CallStep
<1> QED BY <1>1, PoolTyping, PTL DEF Spec, CallsGoOn

-----------------------------------------------------------------------------
(* Upkeep.                                                                  *)

(* While no two saves have crossed, the one in progress is the one that      *)
(* wrote app_settings, the scheduler has followed once it says so, and as    *)
(* long as no policy statement has failed the next one is to make of the     *)
(* policy what was asked.                                                   *)
SaveInv ==
    /\ asked = 0 <=> DaysOf[settings] = 0
    /\ "save" \notin crossed =>
          /\ \A s \in Saving : settings = s /\ (savePc[s] = "scheduled" => schedule = s)
          /\ lapse = "none" => PolicyAfter(DaysOf[settings]) = asked
          /\ Saving = {} => /\ schedule = settings
                            /\ lapse # "last" => (policy = 0 <=> DaysOf[settings] = 0)
                            /\ lapse = "none" => policy = asked

(* A pass that has stored its archive prunes to one version at least, and    *)
(* before it stores one the newest is what the last pass left.              *)
PassInv ==
    /\ pollPc \in {"compare", "insert", "prune"} => archive \in Configs
    /\ pollPc = "prune" => keepRead > 0
    /\ ~deleted /\ pollPc = "prune" => Newest = archive
    /\ ~deleted /\ pollPc \in {"idle", "fetch"} /\ fetched # Nothing => Newest = fetched

(* While no two installs have crossed, one is in progress at most, and what  *)
(* lies uploaded when it unpacks is its own.                                *)
InstallInv ==
    "install" \notin crossed =>
        /\ \A r, q \in Busy : r = q
        /\ \A r \in Requests : requestPc[r] = "unpack" => upload = chosen[r]
        /\ \A r \in Requests : requestPc[r] = "again" => upload \in {chosen[r], Nothing}

UpkeepInv == UpkeepTypeOK /\ SaveInv /\ PassInv /\ InstallInv

USE DEF device, job, install, saves, history, Requests

(* What storing, pruning and deleting make of the stored versions.          *)
LEMMA Stored ==
  ASSUME NEW s \in Seq(Configs), NEW e \in Configs
  PROVE  /\ Append(s, e) \in Seq(Configs) /\ Append(s, e) # <<>>
         /\ Append(s, e)[Len(Append(s, e))] = e
BY AppendProperties

LEMMA Pruned ==
  ASSUME NEW s \in Seq(Configs), NEW n \in Nat, Len(s) > n,
         NEW k, k = SubSeq(s, Len(s) + 1 - n, Len(s))
  PROVE  /\ k \in Seq(Configs)
         /\ n > 0 => k # <<>> /\ k[Len(k)] = s[Len(s)]
<1>1. Len(s) \in Nat /\ \A i \in 1..Len(s) : s[i] \in Configs
  BY LenProperties, ElementOfSeq
<1>2. /\ k \in Seq(Configs)
      /\ Len(k) = n
      /\ \A i \in 1..n : k[i] = s[Len(s) + 1 - n + i - 1]
  BY <1>1, SubSeqProperties
<1>3. n > 0 => k[n] = s[Len(s)] BY <1>1, <1>2
<1>4. n > 0 => k # <<>>
  <2>1. k = <<>> => Len(k) = 0 BY Zenon, EmptySeq
  <2> QED BY <1>2, <2>1
<1> QED BY <1>2, <1>3, <1>4

LEMMA Deleted ==
  ASSUME NEW s \in Seq(Configs), NEW i \in 1..Len(s)
  PROVE  SubSeq(s, 1, i - 1) \o SubSeq(s, i + 1, Len(s)) \in Seq(Configs)
<1>1. Len(s) \in Nat /\ \A j \in 1..Len(s) : s[j] \in Configs
  BY LenProperties, ElementOfSeq
<1>2. SubSeq(s, 1, i - 1) \in Seq(Configs) BY <1>1, SubSeqProperties
<1>3. SubSeq(s, i + 1, Len(s)) \in Seq(Configs) BY <1>1, SubSeqProperties
<1> QED BY <1>2, <1>3, ConcatProperties

LEMMA UpkeepTypeStep ==
  ASSUME UpkeepTypeOK, PassInv, [UpkeepNext]_upkeepVars PROVE UpkeepTypeOK'
<1> USE UpkeepAssumption DEF UpkeepAssumption, UpkeepTypeOK
<1>1. CASE ReadCount BY <1>1 DEF ReadCount
<1>2. CASE Fetch
  <2>1. archive' \in Configs \cup {Nothing} /\ keepRead' \in Nat
        /\ pollPc' \in {"compare", "idle"}
    BY <1>2 DEF Fetch
  <2>2. deleted' \in BOOLEAN BY <1>2, Zenon DEF Fetch
  <2> QED BY <1>2, <2>1, <2>2 DEF Fetch
<1>3. CASE Compare BY <1>3 DEF Compare, PassEnds
<1>4. CASE Insert
  <2>1. backups' \in Seq(Configs) BY <1>4, Stored DEF Insert, PassInv
  <2> QED BY <1>4, <2>1 DEF Insert, PassEnds
<1>5. CASE Prune
  <2>1. backups' \in Seq(Configs) BY <1>5, Pruned DEF Prune
  <2> QED BY <1>5, <2>1 DEF Prune, PassEnds
<1>6. CASE Delete
  <2>1. backups' \in Seq(Configs) BY <1>6, Deleted DEF Delete
  <2> QED BY <1>6, <2>1 DEF Delete
<1>7. CASE Edit BY <1>7 DEF Edit
<1>8. CASE Restart
  <2>1. policy' \in Nat /\ lapse' \in {"none", "last", "past"}
    BY <1>8 DEF Restart, EnsureRetentionPolicies, PolicyAfter
  <2>2. restarts' \in 0..MaxRestarts BY <1>8 DEF Restart
  <2> QED BY <1>8, <2>1, <2>2 DEF Restart
<1>9. ASSUME NEW r \in Requests, Choose(r) PROVE UpkeepTypeOK'
  <2>1. \A i \in 1..Len(backups) : backups[i] \in Configs BY ElementOfSeq
  <2> QED BY <1>9, <2>1 DEF Choose
<1>10. ASSUME NEW r \in Requests, Upload(r) PROVE UpkeepTypeOK'
  BY <1>10 DEF Upload, Answers
<1>11. ASSUME NEW r \in Requests, Unpack(r) PROVE UpkeepTypeOK'
  BY <1>11 DEF Unpack, Tar, Answers, AnswerLost
<1>12. ASSUME NEW s \in Saves, Write(s) PROVE UpkeepTypeOK' BY <1>12 DEF Write
<1>13. ASSUME NEW s \in Saves, Reschedule(s) PROVE UpkeepTypeOK' BY <1>13 DEF Reschedule
<1>14. ASSUME NEW s \in Saves, EnsurePolicy(s) PROVE UpkeepTypeOK'
  BY <1>14 DEF EnsurePolicy, EnsureRetentionPolicies, PolicyAfter
<1>15. CASE UNCHANGED upkeepVars BY <1>15 DEF upkeepVars
<1> QED
  BY <1>1, <1>2, <1>3, <1>4, <1>5, <1>6, <1>7, <1>8, <1>9, <1>10, <1>11, <1>12, <1>13, <1>14,
     <1>15
  DEF UpkeepNext, PollBackups

LEMMA SaveStep ==
  ASSUME UpkeepTypeOK, SaveInv, [UpkeepNext]_upkeepVars PROVE SaveInv'
<1> USE UpkeepAssumption DEF UpkeepAssumption, UpkeepTypeOK, SaveInv, Saving
<1>1. ASSUME NEW s \in Saves, Write(s) PROVE SaveInv' BY <1>1 DEF Write, PolicyAfter
<1>2. ASSUME NEW s \in Saves, Reschedule(s) PROVE SaveInv'
  BY <1>2 DEF Reschedule, PolicyAfter
<1>3. ASSUME NEW s \in Saves, EnsurePolicy(s) PROVE SaveInv'
  BY <1>3 DEF EnsurePolicy, EnsureRetentionPolicies, PolicyAfter
<1>4. CASE Restart BY <1>4 DEF Restart, EnsureRetentionPolicies, PolicyAfter
<1>5. CASE UNCHANGED saves /\ ("save" \in crossed' <=> "save" \in crossed)
  BY <1>5 DEF PolicyAfter
<1> QED
  BY <1>1, <1>2, <1>3, <1>4, <1>5
  DEF UpkeepNext, PollBackups, ReadCount, Fetch, Compare, Insert, Prune, PassEnds, Delete, Edit,
      Choose, Upload, Unpack, upkeepVars

LEMMA PassStep ==
  ASSUME UpkeepTypeOK, PassInv, [UpkeepNext]_upkeepVars PROVE PassInv'
<1> USE UpkeepAssumption DEF UpkeepAssumption, UpkeepTypeOK, PassInv
<1>1. UNCHANGED backups => Newest' = Newest BY DEF Newest
<1>2. CASE ReadCount BY <1>1, <1>2 DEF ReadCount
<1>3. CASE Fetch BY <1>1, <1>3 DEF Fetch
<1>4. CASE Compare BY <1>1, <1>4 DEF Compare, PassEnds
<1>5. CASE Insert
  <2>1. Newest' = archive BY <1>5, Stored DEF Insert, Newest
  <2> QED BY <1>5, <2>1 DEF Insert, PassEnds
<1>6. CASE Prune
  <2>1. ~deleted => Newest' = Newest
    <3>1. CASE Len(backups) > keepRead
      <4>1. keepRead > 0 /\ backups' = SubSeq(backups, Len(backups) + 1 - keepRead, Len(backups))
        BY <1>6, <3>1 DEF Prune
      <4>2. backups' # <<>> /\ backups'[Len(backups')] = backups[Len(backups)]
        BY <3>1, <4>1, Pruned
      <4>3. backups # <<>> BY <3>1, <4>1, EmptySeq
      <4> QED BY <4>2, <4>3 DEF Newest
    <3>2. CASE ~(Len(backups) > keepRead) BY <1>1, <1>6, <3>2 DEF Prune
    <3> QED BY <3>1, <3>2
  <2> QED BY <1>6, <2>1 DEF Prune, PassEnds
<1>7. CASE Delete BY <1>7 DEF Delete
<1>8. CASE Restart BY <1>1, <1>8 DEF Restart
<1>9. CASE UNCHANGED <<job, backups, fetched, deleted>> BY <1>1, <1>9
<1> QED
  BY <1>2, <1>3, <1>4, <1>5, <1>6, <1>7, <1>8, <1>9
  DEF UpkeepNext, PollBackups, Edit, Choose, Upload, Unpack, Write, Reschedule, EnsurePolicy,
      upkeepVars

LEMMA InstallStep ==
  ASSUME UpkeepTypeOK, InstallInv, [UpkeepNext]_upkeepVars PROVE InstallInv'
<1> USE DEF UpkeepTypeOK, InstallInv, Busy
<1>1. ASSUME NEW r \in Requests, Choose(r) PROVE InstallInv'
  <2> SUFFICES ASSUME "install" \notin crossed' PROVE InstallInv'
    OBVIOUS
  <2>1. Busy = {} BY <1>1 DEF Choose
  <2>2. /\ requestPc' = [requestPc EXCEPT ![r] = "upload"] /\ UNCHANGED upload
        /\ \A q \in Requests : q # r => chosen'[q] = chosen[q]
    BY <1>1 DEF Choose
  <2> QED BY <2>1, <2>2
<1>2. ASSUME NEW r \in Requests, Upload(r) PROVE InstallInv'
  BY <1>2 DEF Upload, Answers
<1>3. ASSUME NEW r \in Requests, Unpack(r) PROVE InstallInv'
  BY <1>3 DEF Unpack, Tar, Answers, AnswerLost
<1>4. CASE Restart BY <1>4 DEF Restart
<1>5. CASE /\ UNCHANGED <<install, upload>>
           /\ "install" \in crossed' <=> "install" \in crossed
  BY <1>5
<1> QED
  BY <1>1, <1>2, <1>3, <1>4, <1>5
  DEF UpkeepNext, PollBackups, ReadCount, Fetch, Compare, Insert, Prune, PassEnds, Delete, Edit,
      Write, Reschedule, EnsurePolicy, upkeepVars

(* Every reachable state of the dashboard's requests satisfies the invariant.*)
THEOREM UpkeepInvariance == UpkeepSpec => []UpkeepInv
<1>1. UpkeepInit => UpkeepInv
  <2> SUFFICES ASSUME UpkeepInit PROVE UpkeepInv
    OBVIOUS
  <2> USE UpkeepAssumption DEF UpkeepAssumption, UpkeepInit
  <2>1. UpkeepTypeOK
    <3>1. restarts \in 0..MaxRestarts OBVIOUS
    <3> QED BY <3>1, EmptySeq DEF UpkeepTypeOK
  <2>2. SaveInv BY DEF SaveInv, Saving, PolicyAfter
  <2>3. PassInv BY DEF PassInv
  <2>4. InstallInv BY DEF InstallInv, Busy
  <2> QED BY <2>1, <2>2, <2>3, <2>4 DEF UpkeepInv
<1>2. UpkeepInv /\ [UpkeepNext]_upkeepVars => UpkeepInv'
  BY UpkeepTypeStep, SaveStep, PassStep, InstallStep DEF UpkeepInv
<1> QED BY <1>1, <1>2, PTL DEF UpkeepSpec

(* Settings, backups and requests are well typed.                           *)
THEOREM UpkeepTyping == UpkeepSpec => []UpkeepTypeOK
  BY UpkeepInvariance, PTL DEF UpkeepInv

(* Between two saves the scheduler runs app_settings, the last statement     *)
(* that did not fail has made or removed the policy as app_settings asks,    *)
(* and the policy is of the days it was turned on with.                     *)
THEOREM SettingsHold == UpkeepSpec => []SettingsInForce
<1>1. UpkeepInv => SettingsInForce BY DEF UpkeepInv, SaveInv, SettingsInForce
<1> QED BY <1>1, UpkeepInvariance, PTL

(* No pass of poll_backups loses the version it has just fetched.           *)
THEOREM NewestKept == UpkeepSpec => []NewestIsKept
<1>1. UpkeepInv => NewestIsKept BY DEF UpkeepInv, PassInv, NewestIsKept
<1> QED BY <1>1, UpkeepInvariance, PTL

(* A request that answers "ok" has installed the version it was asked for.   *)
THEOREM InstalledOk == UpkeepSpec => OkIsInstalled
<1>1. UpkeepInv /\ [UpkeepNext]_upkeepVars =>
        [\A r \in Requests :
            requestPc[r] # "ok" /\ requestPc'[r] = "ok" /\ "install" \notin crossed
              => config' = chosen[r]]_upkeepVars
  <2> SUFFICES ASSUME UpkeepInv, UpkeepNext, NEW r \in Requests, requestPc[r] # "ok",
                      requestPc'[r] = "ok", "install" \notin crossed
               PROVE  config' = chosen[r]
    OBVIOUS
  <2> USE DEF UpkeepInv, UpkeepTypeOK
  <2>1. ASSUME NEW q \in Requests, Choose(q) \/ Upload(q) PROVE FALSE
    BY <2>1 DEF Choose, Upload, Answers
  <2>2. ASSUME NEW q \in Requests, Unpack(q) PROVE config' = chosen[r]
    <3>1. q = r /\ Tar
      BY <2>2 DEF Unpack, Answers, AnswerLost
    <3>2. requestPc[r] \in {"unpack", "again"} BY <2>2, <3>1 DEF Unpack
    <3> QED BY <3>1, <3>2 DEF InstallInv, Tar
  <2>3. ~Restart BY DEF Restart
  <2> QED
    BY <2>1, <2>2, <2>3
    DEF UpkeepNext, PollBackups, ReadCount, Fetch, Compare, Insert, Prune, PassEnds, Delete,
        Edit, Write, Reschedule, EnsurePolicy
<1> QED BY <1>1, UpkeepInvariance, PTL DEF UpkeepSpec, OkIsInstalled
=============================================================================
