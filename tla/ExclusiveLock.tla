--------------------------- MODULE ExclusiveLock ---------------------------
(***************************************************************************)
(* What acquire_radio_lock promises to cmd_apply and to recover-radio: the  *)
(* lock is taken in one step, by a process that finds it free, and until    *)
(* that process leaves nobody else is inside.  A process that dies without  *)
(* its trap ends the promise.  RadioLock (the shell commands) and SafeApply *)
(* (the calls that use the lock) are shown to implement this module.        *)
(***************************************************************************)
CONSTANTS Procs, Nobody

VARIABLES
    holder, \* whose lock it is
    inside, \* the processes between acquire_radio_lock and their exit
    dead    \* a process died without its trap

ExclusiveInit == holder = Nobody /\ inside = {} /\ dead = FALSE

Take(p) ==
    /\ holder = Nobody /\ inside = {}
    /\ holder' = p /\ inside' = {p}

Release(p) ==
    /\ holder = p /\ inside = {p}
    /\ holder' = Nobody /\ inside' = {}

ExclusiveNext ==
    \/ ~dead /\ ~dead' /\ \E p \in Procs : Take(p) \/ Release(p)
    \/ dead \/ dead'

ExclusiveSpec == ExclusiveInit /\ [][ExclusiveNext]_<<holder, inside, dead>>
=============================================================================
