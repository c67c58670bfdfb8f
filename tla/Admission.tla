------------------------------ MODULE Admission ------------------------------
(***************************************************************************)
(* Admission of client connections by `oixc-proxy serve`: the listener     *)
(* task (serve_dynamic_listener, admit_connection of src/src/cli.rs and    *)
(* accept of src/src/accept.rs), the counter it shares with the connection *)
(* tasks, and the limit that a configuration reload may change.            *)
(*                                                                         *)
(* Reload, listener and connection tasks run on different threads, so each *)
(* access to a shared object is a step.  tokio's Notify is external:       *)
(* notify_one wakes the waiter or stores one permit, a wait takes the      *)
(* permit; a Notified that is dropped after it was notified passes the     *)
(* permit on.  So is the watch channel: changed() is ready while the last  *)
(* value sent is newer than the last one seen.                             *)
(***************************************************************************)
EXTENDS Integers, FiniteSets

CONSTANTS
    Conns,       \* client connections that may be served at one time
    Limits,      \* values of max-client-connections
    MaxReloads   \* bound: reloads in one behaviour

ASSUME AdmissionAssumption ==
    /\ IsFiniteSet(Conns)
    /\ Limits \subseteq Nat \ {0}
    /\ MaxReloads \in Nat

VARIABLES
    pc,      \* the listener task
    limit,   \* AcceptSettings.max_connections last sent
    version, \* how many settings have been sent
    current, \* the limit the listener has borrowed
    seen,    \* the version it has borrowed
    count,   \* ActiveConnections.count
    permit,  \* the permit stored in ActiveConnections.changed
    conn     \* each connection: "free", "serving" or "leaving"

vars == <<pc, limit, version, current, seen, count, permit, conn>>

PcStates == {"accept", "backoff", "borrow", "test", "add", "full", "wait",
             "stopped"}

Init ==
    /\ pc = "accept"
    /\ limit \in Limits
    /\ version = 0
    /\ current = limit
    /\ seen = 0
    /\ count = 0
    /\ permit = FALSE
    /\ conn = [c \in Conns |-> "free"]

-----------------------------------------------------------------------------
(* accept *)

\* A connection was accepted, or one failed before it was (AcceptError::
\* Connection), after which the next one is accepted.
Accept ==
    /\ pc = "accept"
    /\ pc' = "borrow"
    /\ UNCHANGED <<limit, version, current, seen, count, permit, conn>>

\* AcceptError::Resource: the listener sleeps RESOURCE_BACKOFF.
AcceptBacksOff ==
    /\ pc = "accept"
    /\ pc' = "backoff"
    /\ UNCHANGED <<limit, version, current, seen, count, permit, conn>>

BackoffEnds ==
    /\ pc = "backoff"
    /\ pc' = "accept"
    /\ UNCHANGED <<limit, version, current, seen, count, permit, conn>>

\* AcceptError::Fatal: the listener task ends, and the service with it.
AcceptFatal ==
    /\ pc = "accept"
    /\ pc' = "stopped"
    /\ UNCHANGED <<limit, version, current, seen, count, permit, conn>>

-----------------------------------------------------------------------------
(* admit_connection *)

\* settings.borrow_and_update()
Borrow ==
    /\ pc = "borrow"
    /\ pc' = "test"
    /\ current' = limit
    /\ seen' = version
    /\ UNCHANGED <<limit, version, count, permit, conn>>

\* Mutant: one connection too many is admitted.
TestOffByOne ==
    /\ pc = "test"
    /\ pc' = IF count <= current THEN "add" ELSE "full"
    /\ UNCHANGED <<limit, version, current, seen, count, permit, conn>>

\* count.load() < max_connections
Test ==
    /\ pc = "test"
    /\ pc' = IF count < current THEN "add" ELSE "full"
    /\ UNCHANGED <<limit, version, current, seen, count, permit, conn>>

\* count.fetch_add(1); the connection is served by a task of its own.
Admit(c) ==
    /\ pc = "add" /\ conn[c] = "free"
    /\ count' = count + 1
    /\ conn' = [conn EXCEPT ![c] = "serving"]
    /\ pc' = "accept"
    /\ UNCHANGED <<limit, version, current, seen, permit>>

\* The select! polls settings.changed() and changed.notified() for the first
\* time.
Wait ==
    /\ pc = "full"
    /\ pc' = "wait"
    /\ UNCHANGED <<limit, version, current, seen, count, permit, conn>>

\* settings.changed()
SettingsChanged ==
    /\ pc = "wait" /\ seen # version
    /\ pc' = "borrow"
    /\ seen' = version
    /\ UNCHANGED <<limit, version, current, count, permit, conn>>

\* changed.notified()
Notified ==
    /\ pc = "wait" /\ permit
    /\ pc' = "borrow"
    /\ permit' = FALSE
    /\ UNCHANGED <<limit, version, current, seen, count, conn>>

-----------------------------------------------------------------------------
(* Drop for ActiveConnection *)

\* A connection ends: count.fetch_sub(1) ...
Leave(c) ==
    /\ conn[c] = "serving"
    /\ conn' = [conn EXCEPT ![c] = "leaving"]
    /\ count' = count - 1
    /\ UNCHANGED <<pc, limit, version, current, seen, permit>>

\* Mutant: only a task that already waits is woken (notify_waiters).
LeftNotifyWaiters(c) ==
    /\ conn[c] = "leaving"
    /\ conn' = [conn EXCEPT ![c] = "free"]
    /\ permit' = (permit \/ pc = "wait")
    /\ UNCHANGED <<pc, limit, version, current, seen, count>>
\* ... then changed.notify_one().
Left(c) ==
    /\ conn[c] = "leaving"
    /\ conn' = [conn EXCEPT ![c] = "free"]
    /\ permit' = TRUE
    /\ UNCHANGED <<pc, limit, version, current, seen, count>>

\* settings_tx.send_replace() after a successful reload.
Reload(l) ==
    /\ version < MaxReloads
    /\ limit' = l
    /\ version' = version + 1
    /\ UNCHANGED <<pc, current, seen, count, permit, conn>>

-----------------------------------------------------------------------------
Listener ==
    \/ Borrow \/ Test \/ Wait \/ SettingsChanged \/ Notified

Next ==
    \/ Accept \/ AcceptBacksOff \/ BackoffEnds \/ AcceptFatal
    \/ Listener
    \/ \E c \in Conns : Admit(c) \/ Leave(c) \/ Left(c)
    \/ \E l \in Limits : Reload(l)

Spec == Init /\ [][Next]_vars

-----------------------------------------------------------------------------
(* Properties *)

\* Every variable has its type; the counter, an AtomicUsize, does not pass
\* below zero.
TypeOK ==
    /\ pc \in PcStates
    /\ limit \in Limits
    /\ version \in 0..MaxReloads
    /\ current \in Limits
    /\ seen \in 0..MaxReloads
    /\ count \in Nat
    /\ permit \in BOOLEAN
    /\ conn \in [Conns -> {"free", "serving", "leaving"}]

\* The counter is the number of connections being served, whatever ends while
\* others are admitted.
CountExact == count = Cardinality({c \in Conns : conn[c] = "serving"})

\* A listener that waits, or is about to, although there is room by the limit
\* now in force, has something to wake it: a stored permit, a drop about to
\* notify, or settings it has not seen.  This is what makes it sound to test
\* the counter before registering for the notification.
NoLostWakeup ==
    pc \in {"full", "wait"} /\ count < limit =>
      \/ permit
      \/ seen # version
      \/ \E c \in Conns : conn[c] = "leaving"

\* No admission takes the number of served connections beyond the limit that
\* was borrowed for it, also while a reload lowers the limit.
AdmitWithinLimit == [][count' > count => count' <= current]_vars
=============================================================================
