--------------------------- MODULE UdpAssociation ---------------------------
(***************************************************************************)
(* One SOCKS5 UDP association after its port is bound: serve_udp_associate *)
(* with udp_client_loop, udp_upstream_loop and Activity of                 *)
(* src/src/socks5.rs, over SnellPacketSession of src/src/snell/client.rs.  *)
(*                                                                         *)
(* The loops, the control connection and the idle timer are polled by one  *)
(* select!, so what runs between two awaits is atomic.  Datagrams are told *)
(* apart by their sender and by what decoding makes of them.  Time is      *)
(* counted in ticks, PerMilli of them to a millisecond, because Activity   *)
(* keeps whole milliseconds.  A timer fires at the tick it is set for.     *)
(***************************************************************************)
EXTENDS Integers

CONSTANTS
    Addrs,        \* addresses that datagrams arrive from
    ControlAddrs, \* those with the IP of the control connection
    Nobody,       \* no address
    PerMilli,     \* ticks in a millisecond
    IdleTimeout,  \* udp_idle_timeout, in ticks
    MaxTime       \* bound: ticks in one behaviour

ASSUME UdpAssociationAssumption ==
    /\ ControlAddrs \subseteq Addrs
    /\ Nobody \notin Addrs
    /\ PerMilli \in Nat \ {0}
    /\ IdleTimeout \in Nat /\ IdleTimeout % PerMilli = 0
    /\ MaxTime \in Nat

VARIABLES
    assocPc,   \* "bound", "dialed", "relay", "closing" or "ended"
    ipKnown,   \* control_ip is some address
    client,    \* client_address
    writing,   \* the sender whose datagram write_to_host is writing
    now,       \* the clock
    started,   \* Activity.started
    last,      \* Activity.last_millis, in ticks
    wakeAt,    \* the deadline the idle timer sleeps until
    timedOut,  \* the idle timer has ended the association
    moved,     \* history: when a datagram was last relayed
    peers      \* history: senders and receivers of relayed datagrams

assocVars == <<assocPc, ipKnown, client, writing, now, started, last, wakeAt,
               timedOut, moved, peers>>
timeVars == <<now, started>>
idleVars == <<last, wakeAt, timedOut, moved>>

AssocInit ==
    /\ assocPc = "bound"
    /\ ipKnown = FALSE
    /\ client = Nobody
    /\ writing = Nobody
    /\ now = 0
    /\ started = 0
    /\ last = 0
    /\ wakeAt = 0
    /\ timedOut = FALSE
    /\ moved = 0
    /\ peers = {}

-----------------------------------------------------------------------------
(* serve_udp_associate *)

\* dial_udp fails: the failure is replied, and the port is given back.
DialFails ==
    /\ assocPc = "bound"
    /\ assocPc' = "ended"
    /\ UNCHANGED <<ipKnown, client, writing, timeVars, idleVars, peers>>

Dialed ==
    /\ assocPc = "bound"
    /\ assocPc' = "dialed"
    /\ UNCHANGED <<ipKnown, client, writing, timeVars, idleVars, peers>>

\* The reply cannot be written: the upstream is dropped, not closed.
ReplyFails ==
    /\ assocPc = "dialed"
    /\ assocPc' = "ended"
    /\ UNCHANGED <<ipKnown, client, writing, timeVars, idleVars, peers>>

\* The reply is written, peer_addr() gives the IP or fails, Activity::new() is
\* called and the timer computes its first deadline.
Replied(known) ==
    /\ assocPc = "dialed"
    /\ assocPc' = "relay"
    /\ ipKnown' = known
    /\ started' = now
    /\ last' = 0
    /\ wakeAt' = now + IdleTimeout
    /\ moved' = now
    /\ UNCHANGED <<client, writing, now, timedOut, peers>>

\* The select! ends: the loops are dropped, with a write they may be in.
Stop ==
    /\ assocPc = "relay"
    /\ assocPc' = "closing"
    /\ writing' = Nobody

\* The control connection is closed or fails, the local socket fails, or the
\* upstream fails while it is read or written.
LoopEnds ==
    /\ Stop
    /\ UNCHANGED <<ipKnown, client, timeVars, idleVars, peers>>

\* upstream.close()
Closed ==
    /\ assocPc = "closing"
    /\ assocPc' = "ended"
    /\ UNCHANGED <<ipKnown, client, writing, timeVars, idleVars, peers>>

-----------------------------------------------------------------------------
(* Activity *)

\* touch(): elapsed().as_millis()
Millis(t) == (t \div PerMilli) * PerMilli

Touch ==
    /\ last' = Millis(now - started)
    /\ moved' = now
    /\ UNCHANGED <<wakeAt, timedOut>>

\* idle(): the sleep is over; the timer ends the association or sleeps again.
IdleWakes ==
    /\ assocPc = "relay" /\ now >= wakeAt
    /\ LET deadline == started + last + IdleTimeout IN
       IF now >= deadline
       THEN Stop /\ timedOut' = TRUE /\ UNCHANGED wakeAt
       ELSE wakeAt' = deadline /\ UNCHANGED <<assocPc, writing, timedOut>>
    /\ UNCHANGED <<ipKnown, client, timeVars, last, moved, peers>>

\* Time passes, but not past a timer that is due.
Tick ==
    /\ now < MaxTime
    /\ assocPc = "relay" => now < wakeAt
    /\ now' = now + 1
    /\ UNCHANGED <<assocPc, ipKnown, client, writing, started, idleVars, peers>>

-----------------------------------------------------------------------------
(* udp_client_loop *)

\* What becomes of a datagram: it is not a SOCKS5 datagram (decode_datagram),
\* cannot be encoded for the server (DatagramError), or can be.
Kinds == {"malformed", "oversized", "valid"}

\* Mutant: the sender is not compared with the one before.
ClientDatagramAnyone(s, kind) ==
    /\ assocPc = "relay" /\ writing = Nobody
    /\ ipKnown => s \in ControlAddrs
    /\ client' = s
    /\ writing' = IF kind = "valid" THEN s ELSE Nobody
    /\ UNCHANGED <<assocPc, ipKnown, timeVars, idleVars, peers>>

\* A datagram of a sender with the control connection's IP.  The first one,
\* even if malformed, settles the client; those of others are dropped.
ClientDatagram(s, kind) ==
    /\ assocPc = "relay" /\ writing = Nobody
    /\ ipKnown => s \in ControlAddrs
    /\ client \in {Nobody, s}
    /\ client' = s
    /\ writing' = IF kind = "valid" THEN s ELSE Nobody
    /\ UNCHANGED <<assocPc, ipKnown, timeVars, idleVars, peers>>

\* write_to_host succeeds.
Written ==
    /\ assocPc = "relay" /\ writing # Nobody
    /\ peers' = peers \cup {writing}
    /\ writing' = Nobody
    /\ Touch
    /\ UNCHANGED <<assocPc, ipKnown, client, timeVars>>

(* udp_upstream_loop *)

\* Mutant: a datagram that nobody received counts as activity.
UpstreamDroppedTouches ==
    /\ assocPc = "relay"
    /\ last' = Millis(now - started)
    /\ UNCHANGED <<assocPc, ipKnown, client, writing, timeVars, wakeAt, timedOut, moved,
                   peers>>

\* A datagram from the server that cannot be decoded, for which there is no
\* client yet, or that cannot be sent to it, is dropped.
UpstreamDropped ==
    /\ assocPc = "relay"
    /\ UNCHANGED assocVars

\* A datagram from the server is sent to the client.
UpstreamDatagram ==
    /\ assocPc = "relay" /\ client # Nobody
    /\ peers' = peers \cup {client}
    /\ Touch
    /\ UNCHANGED <<assocPc, ipKnown, client, writing, timeVars>>

-----------------------------------------------------------------------------
AssocNext ==
    \/ DialFails \/ Dialed \/ ReplyFails
    \/ \E known \in BOOLEAN : Replied(known)
    \/ LoopEnds \/ Closed \/ IdleWakes \/ Tick
    \/ \E s \in Addrs, kind \in Kinds : ClientDatagram(s, kind)
    \/ Written \/ UpstreamDropped \/ UpstreamDatagram

AssocSpec == AssocInit /\ [][AssocNext]_assocVars

-----------------------------------------------------------------------------
(* Properties *)

\* An association serves one peer: all datagrams relayed, in both directions,
\* are those of one address, and it has the IP of the control connection.
OnePeer ==
    /\ \A s, t \in peers : s = t
    /\ ipKnown => peers \subseteq ControlAddrs

\* The idle timer is right on both sides.  The association is not timed out
\* while it is used: the idle timeout has passed since the last datagram
\* relayed in either direction, but for the fraction of a millisecond that
\* touch() cuts off.  Nor does it outlive the idle timeout, whatever else
\* arrives meanwhile and however often the timer was set anew.
ExpiresOnTime ==
    /\ [][timedOut' /\ ~timedOut => now > moved + IdleTimeout - PerMilli]_assocVars
    /\ [](assocPc = "relay" => now <= moved + IdleTimeout)
=============================================================================
