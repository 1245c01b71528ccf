----------------------------- MODULE RadioLock -----------------------------
(***************************************************************************)
(* The agent's radio lock: acquire_radio_lock and release_radio_lock of    *)
(* wifi-agent.sh, run by cmd_apply and verify_and_recover_radio in shell   *)
(* processes that know of each other only through the lock directory.      *)
(* Every shell command that changes the directory is a step of its own, and *)
(* so is reading it: a process can act on what it read of a lock that has   *)
(* since been replaced.                                                    *)
(***************************************************************************)
EXTENDS Naturals

CONSTANTS
    Procs,        \* the processes that take the lock
    MaxAge,       \* RADIO_LOCK_MAX_AGE_SECONDS, in ticks
    MaxAttempts,  \* the 30 of acquire_radio_lock
    HoldsShort,   \* TRUE: an owner leaves before its stamp is older than MaxAge
    MaxKills,     \* bound: processes that die without running their trap
    Nobody

VARIABLES
    lockPc,   \* where each process is
    attempts, \* its `attempt`
    dir,      \* the lock directory: "absent", "bare" or "stamped"
    age,      \* now - started_at, held just above MaxAge
    maker,    \* history: whose mkdir made the directory, Nobody once it died
    kills

lockVars == <<lockPc, attempts, dir, age, maker, kills>>

ASSUME LockAssumption ==
    /\ MaxAge \in Nat /\ MaxAttempts \in Nat \ {0} /\ MaxKills \in Nat
    /\ HoldsShort \in BOOLEAN
    /\ Nobody \notin Procs

Holding == {"stamp", "critical"}

LockInit ==
    /\ lockPc = [p \in Procs |-> "idle"]
    /\ attempts = [p \in Procs |-> 0]
    /\ dir = "absent" /\ age = 0 /\ maker = Nobody
    /\ kills = 0

MoveTo(p, l) == lockPc' = [lockPc EXCEPT ![p] = l]

RemoveDir == dir' = "absent" /\ age' = 0 /\ maker' = Nobody

FirstAttempt == 0

Ask(p) ==
    /\ lockPc[p] = "idle"
    /\ MoveTo(p, "try")
    /\ attempts' = [attempts EXCEPT ![p] = FirstAttempt]
    /\ UNCHANGED <<dir, age, maker, kills>>

(* `while ! mkdir`                                                          *)
MakeDir(p) ==
    /\ lockPc[p] = "try"
    /\ dir = "absent"
    /\ dir' = "bare" /\ maker' = p
    /\ MoveTo(p, "stamp")
    /\ UNCHANGED <<attempts, age, kills>>

MkdirFails(p) ==
    /\ lockPc[p] = "try"
    /\ dir # "absent"
    /\ MoveTo(p, "look")
    /\ UNCHANGED <<attempts, dir, age, maker, kills>>

(* `cat` of the stamp, `date` and `[ -n "$lock_started" ] && [ ... -gt ... ]`  *)
(* are one step: no tick of the clock falls between them, so the read alone   *)
(* decides.  A directory that has no stamp, or is gone, reads as empty.       *)
StaleAtLimit == dir = "stamped" /\ age >= MaxAge  \* mutant: -ge for -gt
StaleNever == FALSE  \* mutant: no reclaiming

LooksStale == dir = "stamped" /\ age > MaxAge

FindStale(p) ==
    /\ lockPc[p] = "look"
    /\ LooksStale
    /\ MoveTo(p, "reclaim")
    /\ UNCHANGED <<attempts, dir, age, maker, kills>>

(* Taken: one attempt more, then two seconds' sleep or giving up.           *)
SameAttempt(n) == n  \* mutant: the attempts are not counted
NextAttempt(n) == n + 1

FindTaken(p) ==
    /\ lockPc[p] = "look"
    /\ ~LooksStale
    /\ attempts' = [attempts EXCEPT ![p] = NextAttempt(@)]
    /\ MoveTo(p, IF attempts'[p] >= MaxAttempts THEN "gaveup" ELSE "try")
    /\ UNCHANGED <<dir, age, maker, kills>>

(* `rm -rf` of whatever is there now, then `continue`.                      *)
Reclaim(p) ==
    /\ lockPc[p] = "reclaim"
    /\ RemoveDir
    /\ MoveTo(p, "try")
    /\ UNCHANGED <<attempts, kills>>

(* `date +%s > started_at`, whose failure is not looked at.                 *)
Stamp(p) ==
    /\ lockPc[p] = "stamp"
    /\ IF dir = "absent"
         THEN UNCHANGED <<dir, age>>
         ELSE dir' = "stamped" /\ age' = 0
    /\ MoveTo(p, "critical")
    /\ UNCHANGED <<attempts, maker, kills>>

(* The EXIT trap removes the directory, whoever made it.                    *)
Leave(p) ==
    /\ lockPc[p] = "critical"
    /\ RemoveDir
    /\ MoveTo(p, "idle")
    /\ UNCHANGED <<attempts, kills>>

StopTryingTrapped(p) ==  \* mutant: the trap is set before the lock is held
    /\ lockPc[p] = "gaveup"
    /\ RemoveDir
    /\ MoveTo(p, "idle")
    /\ UNCHANGED <<attempts, kills>>

StopTrying(p) ==
    /\ lockPc[p] = "gaveup"
    /\ MoveTo(p, "idle")
    /\ UNCHANGED <<attempts, dir, age, maker, kills>>

Kill(p) ==
    /\ kills < MaxKills
    /\ lockPc[p] # "idle"
    /\ kills' = kills + 1
    /\ maker' = IF maker = p THEN Nobody ELSE maker
    /\ MoveTo(p, "idle")
    /\ UNCHANGED <<attempts, dir, age>>

Tick ==
    /\ dir = "stamped" /\ age <= MaxAge
    /\ HoldsShort /\ maker # Nobody => age < MaxAge
    /\ age' = age + 1
    /\ UNCHANGED <<lockPc, attempts, dir, maker, kills>>

Acquire(p) ==
    \/ MakeDir(p) \/ MkdirFails(p) \/ FindStale(p) \/ FindTaken(p)
    \/ Reclaim(p) \/ Stamp(p)

Step(p) == Acquire(p) \/ Leave(p) \/ StopTrying(p)

LockNext == Tick \/ \E p \in Procs : Ask(p) \/ Step(p) \/ Kill(p)

LockSpec == LockInit /\ [][LockNext]_lockVars

(* A shell process runs, time passes, and cron starts recover-radio again    *)
(* and again (every 15 minutes).                                            *)
FairLockSpec ==
    /\ LockSpec
    /\ WF_lockVars(Tick)
    /\ \A p \in Procs : WF_lockVars(Step(p)) /\ WF_lockVars(Ask(p))

-----------------------------------------------------------------------------
LockTypeOK ==
    /\ lockPc \in [Procs -> Holding \cup {"idle", "try", "look", "reclaim", "gaveup"}]
    /\ attempts \in [Procs -> Nat]
    /\ dir \in {"absent", "bare", "stamped"}
    /\ age \in 0..(MaxAge + 1)
    /\ maker \in Procs \cup {Nobody}
    /\ kills \in 0..MaxKills

(* "Mutex around anything that touches the radio module/interface state":    *)
(* from its mkdir to its exit a process is alone.                           *)
MutualExclusion ==
    \A p, q \in Procs : lockPc[p] \in Holding /\ lockPc[q] \in Holding => p = q

(* The same as long as no owner has died without its trap.                   *)
Exclusion == kills = 0 => MutualExclusion

(* The directory is a lock: mkdir takes it in one step and only its maker's  *)
(* exit gives it back, whatever the waiting processes read, compare and try  *)
(* to remove in between.                                                    *)
OneStep == INSTANCE ExclusiveLock WITH
    holder <- IF dir = "absent" THEN Nobody ELSE maker,
    inside <- {p \in Procs : lockPc[p] \in Holding},
    dead   <- kills > 0

LockIsOneStep == OneStep!ExclusiveSpec

(* Who waits for the lock gets it or gives up, although reclaiming a lock    *)
(* does not count as an attempt.                                            *)
WaitEnds ==
    \A p \in Procs : (lockPc[p] = "try") ~> (lockPc[p] = "critical" \/ lockPc[p] = "idle")

(* A lock that a killed owner had stamped is taken away from it.            *)
StampedIsReclaimed ==
    (dir = "stamped" /\ maker = Nobody) ~> (dir = "absent")

-----------------------------------------------------------------------------
(* Why a process is alone when owners are quick and none was killed: a lock  *)
(* directory always has a living owner, whose stamp never looks stale, so    *)
(* nobody ever decides to reclaim it.                                       *)
LockInv ==
    kills = 0 =>
        /\ \A p \in Procs : lockPc[p] \in Holding => maker = p /\ dir # "absent"
        /\ maker \in Procs => lockPc[maker] \in Holding
        /\ dir # "absent" => maker \in Procs
        /\ dir = "stamped" => age <= MaxAge
        /\ \A p \in Procs : lockPc[p] # "reclaim"
=============================================================================
