----------------------------- MODULE SafeApply -----------------------------
(***************************************************************************)
(* One device's side of a channel change: wifi-agent.sh's cmd_apply and    *)
(* cmd_verify_confirm, run by SSH calls that may overlap, over OpenWrt's   *)
(* safe apply (rpcd's `uci apply` with a rollback timer, `uci confirm`)    *)
(* and the radio.  rpcd and the radio are not in the repository: they are  *)
(* modelled from how the agent uses them.                                  *)
(*                                                                         *)
(* One radio and its one uci option (wireless.radioN.channel).  What is    *)
(* staged by `uci set` lives in /tmp and is seen by a reload; `uci apply`  *)
(* commits it to flash.                                                    *)
(***************************************************************************)
EXTENDS Naturals

CONSTANTS
    Calls,       \* slots for SSH calls running on the device at once
    Channels,    \* target values that pass is_plausible_channel
    Implausible, \* target values that do not
    FirstChannel,
    NeedsPeer,   \* TRUE for halow_operating_freq: the peer must be associated
    RollbackTtl, \* the timeout given to `uci apply`, in ticks
    MayKill,     \* a call may be killed half way
    MayReboot,   \* the device may reboot
    None, Down,  \* no staged change; a radio that reports no channel
    Free, Dead   \* the lock: nobody's, or left behind by a killed call

VARIABLES
    pc,        \* where each call is
    target,    \* the channel its target_value names
    lock,      \* RADIO_LOCK_DIR's owner
    staged,    \* the uncommitted `uci set`
    uci,       \* the committed option
    armed,     \* rpcd waits for `uci confirm`
    left,      \* ticks until it rolls back
    snapshot,  \* what it rolls back to
    live,      \* the channel the radio is on
    good,      \* history: the option as last confirmed
    littered,  \* history: a call was killed that had staged a change
    exposed    \* history: the device rebooted inside a rollback window

scars  == <<littered, exposed>>
config == <<staged, uci, armed, left, snapshot, good, scars>>
deviceVars   == <<pc, target, lock, live, config>>

ASSUME ChannelsAssumption ==
    /\ FirstChannel \in Channels
    /\ None \notin Channels \cup Implausible /\ Down \notin Channels
ASSUME LockAssumption == Free \notin Calls /\ Dead \notin Calls /\ Free # Dead
ASSUME SwitchesAssumption ==
    /\ NeedsPeer \in BOOLEAN /\ MayKill \in BOOLEAN /\ MayReboot \in BOOLEAN
    /\ RollbackTtl \in Nat \ {0}

Targets == Channels \cup Implausible

ApplyPcs == {"lock", "stage", "arm", "revert", "reload"}
VerifyPcs == {"read", "confirm"}
ExitPcs == {"exit0", "exit1"}

(* The section acquire_radio_lock opens and the EXIT trap closes.           *)
Critical == {"stage", "arm", "revert", "reload"}

DeviceInit ==
    /\ pc = [p \in Calls |-> "free"]
    /\ target = [p \in Calls |-> FirstChannel]
    /\ lock = Free
    /\ staged = None
    /\ uci = FirstChannel /\ live = FirstChannel /\ good = FirstChannel
    /\ armed = FALSE /\ left = 0 /\ snapshot = FirstChannel
    /\ littered = FALSE /\ exposed = FALSE

(* What `uci get` and a reload see: the staged value over the committed one. *)

Effective == IF staged = None THEN uci ELSE staged

GoTo(p, l) == pc' = [pc EXCEPT ![p] = l]

(* `exit`: the trap set by acquire_radio_lock removes the lock directory.   *)
Exit(p, l) ==
    /\ GoTo(p, l)
    /\ lock' = IF lock = p THEN Free ELSE lock
    /\ UNCHANGED target

-----------------------------------------------------------------------------
(* A call begins, and its exit status leaves the device (or is lost).       *)

Start(p, l, t) ==
    /\ pc[p] = "free"
    /\ GoTo(p, l)
    /\ target' = [target EXCEPT ![p] = t]
    /\ UNCHANGED <<lock, config, live>>

StartApply(p, t) == Start(p, "lock", t)
StartVerify(p, t) == Start(p, "read", t)

Report(p) ==
    /\ pc[p] \in ExitPcs
    /\ GoTo(p, "free")
    /\ target' = [target EXCEPT ![p] = FirstChannel]
    /\ UNCHANGED <<lock, config, live>>

-----------------------------------------------------------------------------
(* cmd_apply.                                                               *)

LockIsOpen == lock = Free

AcquireLock(p) ==
    /\ pc[p] = "lock"
    /\ LockIsOpen
    /\ lock' = p
    /\ GoTo(p, "stage")
    /\ UNCHANGED <<target, config, live>>

(* Thirty attempts found the lock taken.                                    *)
LockTimeout(p) ==
    /\ pc[p] = "lock"
    /\ lock # Free
    /\ Exit(p, "exit1")
    /\ UNCHANGED <<config, live>>

(* A dead owner's lock is removed once it is older than 300 s.              *)
ReclaimLock(p) ==
    /\ pc[p] = "lock"
    /\ lock = Dead
    /\ lock' = Free
    /\ UNCHANGED <<pc, target, config, live>>

StageCommits(p) ==  \* mutant: `uci commit` right after `uci set`
    /\ pc[p] = "stage"
    /\ target[p] \in Channels
    /\ uci' = target[p]
    /\ GoTo(p, "arm")
    /\ UNCHANGED <<target, lock, staged, armed, left, snapshot, live, good, scars>>

Stage(p) ==
    /\ pc[p] = "stage"
    /\ target[p] \in Channels
    /\ staged' = target[p]
    /\ GoTo(p, "arm")
    /\ UNCHANGED <<target, lock, uci, armed, left, snapshot, live, good, scars>>

RefuseTarget(p) ==
    /\ pc[p] = "stage"
    /\ target[p] \notin Channels
    /\ Exit(p, "exit1")
    /\ UNCHANGED <<config, live>>

ArmWithoutRollback(p) ==  \* mutant: "rollback":false
    /\ pc[p] = "arm"
    /\ ~armed
    /\ uci' = Effective
    /\ staged' = None
    /\ GoTo(p, "reload")
    /\ UNCHANGED <<target, lock, armed, left, snapshot, live, good, scars>>

(* `uci apply` with rollback: rpcd keeps one pending change at a time.      *)
Arm(p) ==
    /\ pc[p] = "arm"
    /\ ~armed
    /\ armed' = TRUE /\ left' = RollbackTtl
    /\ snapshot' = uci
    /\ uci' = Effective
    /\ staged' = None
    /\ GoTo(p, "reload")
    /\ UNCHANGED <<target, lock, live, good, scars>>

AfterArmIgnored == "reload"  \* mutant: the status of `uci apply` is ignored
AfterArmFails == "revert"

ArmFails(p) ==
    /\ pc[p] = "arm"
    /\ GoTo(p, AfterArmFails)
    /\ UNCHANGED <<target, lock, config, live>>

RevertStaged(p) ==
    /\ pc[p] = "revert"
    /\ staged' = None
    /\ Exit(p, "exit1")
    /\ UNCHANGED <<uci, armed, left, snapshot, live, good, scars>>

(* The reload may leave the radio where it was, or bring it down; the        *)
(* script's status is that of its last command.                             *)
Reload(p) ==
    /\ pc[p] = "reload"
    /\ live' \in {live, Effective, Down}
    /\ \E l \in ExitPcs : Exit(p, l)
    /\ UNCHANGED config

-----------------------------------------------------------------------------
(* cmd_verify_confirm.                                                      *)

VerifyRead(p) ==
    /\ pc[p] = "read"
    /\ live = target[p]
    /\ GoTo(p, "confirm")
    /\ UNCHANGED <<target, lock, config, live>>

VerifyFails(p) ==
    /\ pc[p] = "read"
    /\ live # target[p] \/ NeedsPeer
    /\ Exit(p, "exit1")
    /\ UNCHANGED <<config, live>>

(* `uci confirm` has no target: it keeps whatever change is pending.  Its    *)
(* status is not looked at.                                                 *)
Confirm(p) ==
    /\ pc[p] = "confirm"
    /\ armed' = FALSE /\ left' = 0
    /\ good' = IF armed THEN uci ELSE good
    /\ Exit(p, "exit0")
    /\ UNCHANGED <<staged, uci, snapshot, live, scars>>

-----------------------------------------------------------------------------
(* rpcd's timer, the radio, and recover-radio's reload (a cron job that      *)
(* takes the same lock; here one step).                                     *)

DeviceTick ==
    /\ armed /\ left > 0
    /\ left' = left - 1
    /\ UNCHANGED <<pc, target, lock, staged, uci, armed, snapshot, live, good, scars>>

Rollback ==
    /\ armed /\ left = 0
    /\ armed' = FALSE
    /\ uci' = snapshot
    /\ live' \in {live, Down, IF staged = None THEN snapshot ELSE staged}
    /\ UNCHANGED <<pc, target, lock, staged, left, snapshot, good, scars>>

RadioFails ==
    /\ live # Down
    /\ live' = Down
    /\ UNCHANGED <<pc, target, lock, config>>

RecoverRadio ==
    /\ lock = Free
    /\ live # Effective
    /\ live' = Effective
    /\ UNCHANGED <<pc, target, lock, config>>

-----------------------------------------------------------------------------
(* A killed call runs no trap; a reboot clears /tmp (the lock, the staged    *)
(* change, rpcd's snapshot) and rpcd's timer, and keeps what is in flash.   *)

Kill(p) ==
    /\ MayKill
    /\ pc[p] \in ApplyPcs \cup VerifyPcs
    /\ GoTo(p, "free")
    /\ target' = [target EXCEPT ![p] = FirstChannel]
    /\ lock' = IF lock = p THEN Dead ELSE lock
    /\ littered' = (littered \/ pc[p] \in {"arm", "revert"})
    /\ UNCHANGED <<staged, uci, armed, left, snapshot, live, good, exposed>>

Reboot ==
    /\ MayReboot
    /\ pc' = [p \in Calls |-> "free"]
    /\ target' = [p \in Calls |-> FirstChannel]
    /\ lock' = Free
    /\ staged' = None
    /\ armed' = FALSE /\ left' = 0
    /\ live' \in {uci, Down}
    /\ exposed' = (exposed \/ armed)
    /\ UNCHANGED <<uci, snapshot, good, littered>>

-----------------------------------------------------------------------------
ApplyStep(p) ==
    \/ AcquireLock(p) \/ LockTimeout(p) \/ ReclaimLock(p)
    \/ Stage(p) \/ RefuseTarget(p)
    \/ Arm(p) \/ ArmFails(p) \/ RevertStaged(p) \/ Reload(p)

VerifyStep(p) == VerifyRead(p) \/ VerifyFails(p) \/ Confirm(p)

CallStep(p) == ApplyStep(p) \/ VerifyStep(p)

Device == Rollback \/ RadioFails \/ RecoverRadio

DeviceNext ==
    \/ \E p \in Calls : CallStep(p) \/ Report(p) \/ Kill(p)
    \/ \E p \in Calls, t \in Targets : StartApply(p, t) \/ StartVerify(p, t)
    \/ Device \/ DeviceTick \/ Reboot

DeviceSpec == DeviceInit /\ [][DeviceNext]_deviceVars

(* rpcd's timer runs whatever the calls and the server do.                  *)
FairDeviceSpec == DeviceSpec /\ WF_deviceVars(DeviceTick) /\ WF_deviceVars(Rollback)

-----------------------------------------------------------------------------
DeviceTypeOK ==
    /\ pc \in [Calls -> ApplyPcs \cup VerifyPcs \cup ExitPcs \cup {"free"}]
    /\ target \in [Calls -> Targets]
    /\ lock \in Calls \cup {Free, Dead}
    /\ staged \in Channels \cup {None}
    /\ uci \in Channels
    /\ armed \in BOOLEAN
    /\ left \in 0..RollbackTtl
    /\ snapshot \in Channels
    /\ live \in Channels \cup {Down}
    /\ good \in Channels
    /\ littered \in BOOLEAN /\ exposed \in BOOLEAN

(* The safety net: a committed option that nobody confirmed is always under *)
(* a running rollback timer, and that timer returns to the confirmed one,   *)
(* unless the device rebooted while a timer was running.                    *)
ChangeIsCovered ==
    ~exposed => /\ uci # good => armed
                /\ armed => snapshot = good

(* No two calls are between acquire_radio_lock and their exit, and what one *)
(* of them staged is gone when it leaves: nothing is left for a later       *)
(* reload to pick up, unless that call was killed.                          *)
StagedIsOwned ==
    /\ \A p \in Calls : pc[p] \in Critical => lock = p
    /\ staged # None => littered \/ \E p \in Calls : pc[p] \in {"arm", "revert"}

(* The calls use the lock as what it promises: until one is killed, the call *)
(* that owns it is the one inside.                                          *)
Exclusive == INSTANCE ExclusiveLock WITH
    Procs <- Calls, Nobody <- Free, holder <- lock,
    inside <- {p \in Calls : pc[p] \in Critical},
    dead <- lock = Dead

CallsExclude == Exclusive!ExclusiveSpec

(* No reload by the agent takes the radio to a channel that is neither the  *)
(* confirmed one nor under a running rollback timer, but for those faults.  *)
LiveIsCovered ==
    [][live' # live /\ live' # Down /\ uci' = uci /\ ~armed
         => live' = good \/ littered \/ exposed]_deviceVars

(* The calls keep what safe apply promises, with the recovery as one step of  *)
(* the radio; a call killed after `uci set` leaves the radio to what it set.  *)
Promise == INSTANCE SafeChannel WITH
    option <- uci, back <- IF armed THEN snapshot ELSE uci, pending <- armed,
    radio <- live, Nowhere <- Down, loose <- littered

CallsKeepPromise == Promise!SafeSpec

(* A change that is not confirmed is undone.                                *)
RollbackHappens == (uci # good) ~> (uci = good \/ exposed)
=============================================================================
