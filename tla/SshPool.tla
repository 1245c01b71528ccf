------------------------------ MODULE SshPool ------------------------------
(***************************************************************************)
(* ssh_client: one connection per device in a table, shared by every task  *)
(* (the scheduler's jobs and the dashboard's requests) and guarded by one  *)
(* asyncio lock for all devices.  run dials when the table holds no usable *)
(* connection, runs its command, and after a failure closes whatever the   *)
(* table holds by then and tries once more; put_bytes does not retry.      *)
(* Every await ends a step.  asyncssh and the network are external: a      *)
(* connection may break, noticed or not, a dial may fail and a command may *)
(* take longer than its timeout.                                           *)
(***************************************************************************)
EXTENDS Naturals

CONSTANTS
    Tasks,      \* the coroutines that call run or put_bytes, again and again
    Hosts,      \* the (host, port) keys
    HostOf,     \* the device a task talks to
    Puts,       \* the tasks that call put_bytes; the others call run
    Conns,      \* connection objects, numbered; one nobody refers to is used anew
    MaxFaults,  \* bound: breaks, failed dials and timeouts
    None

VARIABLES
    pc,       \* each task: where it is
    try,      \* run's attempt
    conn,     \* the connection it was given last, or None
    lock,     \* the task inside _lock while it dials, or None
    table,    \* _connections
    state,    \* "open", "broken" (nobody noticed) or "closed"
    peer,     \* the device a connection was dialled for, or None
    faults,
    stopped   \* close_all has run

task  == <<pc, try, conn>>
pool  == <<lock, table, state, peer>>
vars  == <<task, pool, faults, stopped>>

ASSUME SshPoolAssumption ==
    /\ MaxFaults \in Nat /\ Conns \subseteq Nat
    /\ None \notin Tasks \cup Hosts \cup Conns
    /\ HostOf \in [Tasks -> Hosts] /\ Puts \subseteq Tasks

Live(c) == state[c] # "closed"

Init ==
    /\ pc = [t \in Tasks |-> "idle"] /\ try = [t \in Tasks |-> 1]
    /\ conn = [t \in Tasks |-> None]
    /\ lock = None /\ table = [h \in Hosts |-> None]
    /\ state = [c \in Conns |-> "closed"] /\ peer = [c \in Conns |-> None]
    /\ faults = 0 /\ stopped = FALSE

-----------------------------------------------------------------------------
(* run and put_bytes.                                                       *)

Start(t) ==
    /\ pc[t] = "idle" /\ ~stopped
    /\ pc' = [pc EXCEPT ![t] = "get"]
    /\ UNCHANGED <<try, conn, pool, faults, stopped>>

(* _get_connection: a connection that is not known to be closed is shared.   *)
Usable(h) == table[h] # None /\ Live(table[h])

Share(t) ==
    /\ pc[t] = "get" /\ lock = None /\ Usable(HostOf[t])
    /\ conn' = [conn EXCEPT ![t] = table[HostOf[t]]]
    /\ pc' = [pc EXCEPT ![t] = "command"]
    /\ UNCHANGED <<try, pool, faults, stopped>>

DialUnlocked(t) ==  \* mutant: _lock guards only the look-up
    /\ pc[t] = "get" /\ ~Usable(HostOf[t])
    /\ pc' = [pc EXCEPT ![t] = "dial"]
    /\ UNCHANGED <<try, conn, pool, faults, stopped>>

Dial(t) ==
    /\ pc[t] = "get" /\ lock = None /\ ~Usable(HostOf[t])
    /\ lock' = t
    /\ pc' = [pc EXCEPT ![t] = "dial"]
    /\ UNCHANGED <<try, conn, table, state, peer, faults, stopped>>

Fresh(c) ==
    /\ ~Live(c)
    /\ \A h \in Hosts : table[h] # c
    /\ \A u \in Tasks : conn[u] # c

Dialed(t) ==
    /\ pc[t] = "dial"
    /\ \E c \in Conns :
          /\ Fresh(c) /\ \A d \in Conns : Fresh(d) => c <= d
          /\ state' = [state EXCEPT ![c] = "open"]
          /\ peer' = [peer EXCEPT ![c] = HostOf[t]]
          /\ table' = [table EXCEPT ![HostOf[t]] = c]
          /\ conn' = [conn EXCEPT ![t] = c]
    /\ lock' = None
    /\ pc' = [pc EXCEPT ![t] = "command"]
    /\ UNCHANGED <<try, faults, stopped>>

Returns(t) ==
    /\ pc' = [pc EXCEPT ![t] = "idle"]
    /\ try' = [try EXCEPT ![t] = 1] /\ conn' = [conn EXCEPT ![t] = None]

(* What an exception does: run has a handler, put_bytes has none.            *)
Raises(t) ==
    IF t \in Puts THEN Returns(t)
    ELSE pc' = [pc EXCEPT ![t] = "failed"] /\ UNCHANGED <<try, conn>>

DialFailsInside(t) ==  \* mutant: the failed dial leaves _lock taken
    /\ pc[t] = "dial" /\ faults < MaxFaults
    /\ faults' = faults + 1
    /\ Raises(t)
    /\ UNCHANGED <<pool, stopped>>

DialFails(t) ==
    /\ pc[t] = "dial" /\ faults < MaxFaults
    /\ faults' = faults + 1 /\ lock' = None
    /\ Raises(t)
    /\ UNCHANGED <<table, state, peer, stopped>>

Answered(t) ==
    /\ pc[t] = "command" /\ state[conn[t]] = "open"
    /\ Returns(t)
    /\ UNCHANGED <<pool, faults, stopped>>

(* Only run's command has a timeout; a broken connection gives no answer.    *)
TimesOut(t) ==
    /\ pc[t] = "command" /\ t \notin Puts /\ Live(conn[t])
    /\ IF state[conn[t]] = "open" THEN faults < MaxFaults /\ faults' = faults + 1
                                  ELSE faults' = faults
    /\ Raises(t)
    /\ UNCHANGED <<pool, stopped>>

ConnectionLost(t) ==
    /\ pc[t] = "command" /\ ~Live(conn[t])
    /\ Raises(t)
    /\ UNCHANGED <<pool, faults, stopped>>

NextTry(t) ==
    IF try[t] = 1
      THEN /\ try' = [try EXCEPT ![t] = 2] /\ pc' = [pc EXCEPT ![t] = "get"]
           /\ UNCHANGED conn
      ELSE Returns(t)

RetryAtOnce(t) ==  \* mutant: tries again with what the table holds
    /\ pc[t] = "failed" /\ lock = None
    /\ NextTry(t)
    /\ UNCHANGED <<pool, faults, stopped>>

(* run's handler: pops what the table holds now, and closes it without an    *)
(* await in between.                                                        *)
DropStale(t) ==
    /\ pc[t] = "failed" /\ lock = None
    /\ table' = [table EXCEPT ![HostOf[t]] = None]
    /\ state' = IF table[HostOf[t]] = None THEN state
                ELSE [state EXCEPT ![table[HostOf[t]]] = "closed"]
    /\ NextTry(t)
    /\ UNCHANGED <<lock, peer, faults, stopped>>

-----------------------------------------------------------------------------
(* The network, and the end of the server.                                  *)

Break(c) ==
    /\ state[c] = "open" /\ faults < MaxFaults
    /\ \E s \in {"broken", "closed"} : state' = [state EXCEPT ![c] = s]
    /\ faults' = faults + 1
    /\ UNCHANGED <<task, lock, table, peer, stopped>>

(* TCP gives up on a connection somebody is writing to.                      *)
Notice(c) ==
    /\ state[c] = "broken" /\ \E t \in Tasks : pc[t] = "command" /\ conn[t] = c
    /\ state' = [state EXCEPT ![c] = "closed"]
    /\ UNCHANGED <<task, lock, table, peer, faults, stopped>>

(* lifespan's end: scheduler.shutdown cancels the jobs, a dial among them,   *)
(* and close_all closes what the table holds.                               *)
CloseAll ==
    /\ ~stopped /\ stopped' = TRUE
    /\ pc' = [t \in Tasks |-> "idle"] /\ try' = [t \in Tasks |-> 1]
    /\ conn' = [t \in Tasks |-> None] /\ lock' = None
    /\ state' = [c \in Conns |-> IF \E h \in Hosts : table[h] = c THEN "closed" ELSE state[c]]
    /\ table' = [h \in Hosts |-> None]
    /\ UNCHANGED <<peer, faults>>

Locks(t) == Share(t) \/ Dial(t) \/ DropStale(t)
Ends(t)  == Dialed(t) \/ DialFails(t) \/ Answered(t) \/ TimesOut(t) \/ ConnectionLost(t)

Next ==
    \/ \E t \in Tasks : Start(t) \/ Locks(t) \/ Ends(t)
    \/ \E c \in Conns : Break(c) \/ Notice(c)
    \/ CloseAll

Spec == Init /\ [][Next]_vars

(* asyncio.Lock serves its waiters in turn, every dial has a timeout, every  *)
(* command of run too, and a broken connection in use is noticed.            *)
FairSpec ==
    /\ Spec
    /\ \A t \in Tasks : SF_vars(Locks(t)) /\ WF_vars(Ends(t))
    /\ \A c \in Conns : WF_vars(Notice(c))
-----------------------------------------------------------------------------
TypeOK ==
    /\ pc \in [Tasks -> {"idle", "get", "dial", "command", "failed"}]
    /\ try \in [Tasks -> {1, 2}] /\ conn \in [Tasks -> Conns \cup {None}]
    /\ lock \in Tasks \cup {None} /\ table \in [Hosts -> Conns \cup {None}]
    /\ state \in [Conns -> {"open", "broken", "closed"}]
    /\ peer \in [Conns -> Hosts \cup {None}]
    /\ faults \in 0..MaxFaults /\ stopped \in BOOLEAN

(* "One reused connection per (host, port)" (ssh_client.py:8): every         *)
(* connection that is not closed is the table's for its device, so there is  *)
(* one at most and close_all misses none, whoever popped or dialled it.      *)
NothingLeaks == \A c \in Conns : Live(c) => peer[c] # None /\ table[peer[c]] = c

(* "Reconnects once and retries" (run): the second attempt never gets the    *)
(* connection on which the first one failed.                                *)
RetryIsFresh ==
    [][\A t \in Tasks :
          pc[t] = "get" /\ pc'[t] = "command" /\ try[t] = 2 => conn'[t] # conn[t]]_vars

(* No call of run or put_bytes waits for ever, whoever holds the lock and    *)
(* whatever breaks.                                                         *)
CallsEnd == \A t \in Tasks : pc[t] # "idle" ~> pc[t] = "idle"
=============================================================================
