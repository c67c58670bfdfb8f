------------------------------- MODULE UdpPorts -------------------------------
(***************************************************************************)
(* The relay ports of SOCKS5 UDP associations: UdpRelay::bind of           *)
(* src/src/socks5.rs with a fixed port range.  Associations are tasks on   *)
(* several threads that share nothing but the rotating index next_port     *)
(* and the operating system's table of bound ports.                        *)
(*                                                                         *)
(* A port is its index in the range.  The table of bound ports is          *)
(* external, and so are other programs that use a port of the range.       *)
(***************************************************************************)
EXTENDS Integers

CONSTANTS
    Assocs,     \* tasks that serve a UDP ASSOCIATE
    PortCount,  \* UdpPortRange::port_count
    UsizeWrap   \* 2^64: next_port is an AtomicUsize

\* A range is limited to 4096 ports, so index + 1 is far from the wrap.
ASSUME UdpPortsAssumption ==
    /\ PortCount \in Nat \ {0}
    /\ UsizeWrap \in Nat /\ UsizeWrap > PortCount

VARIABLES
    nextPort, \* UdpRelay.next_port
    portPc,   \* where each association is
    first,    \* bind: first
    offset,   \* bind: offset
    bound,    \* the operating system: ports that are in use
    free      \* history: ports free ever since the association's bind began

portVars == <<nextPort, portPc, first, offset, bound, free>>

Ports == 0..PortCount - 1

PortPcStates == {"idle", "scan", "store", "open", "refused"}

PortsInit ==
    /\ nextPort = 0
    /\ portPc = [a \in Assocs |-> "idle"]
    /\ first = [a \in Assocs |-> 0]
    /\ offset = [a \in Assocs |-> 0]
    /\ bound = {}
    /\ free = [a \in Assocs |-> {}]

-----------------------------------------------------------------------------
\* next_port.fetch_add(1) % count
BeginBind(a) ==
    /\ portPc[a] = "idle"
    /\ portPc' = [portPc EXCEPT ![a] = "scan"]
    /\ first' = [first EXCEPT ![a] = nextPort % PortCount]
    /\ offset' = [offset EXCEPT ![a] = 0]
    /\ nextPort' = (nextPort + 1) % UsizeWrap
    /\ free' = [free EXCEPT ![a] = Ports \ bound]
    /\ UNCHANGED bound

Index(a) == (first[a] + offset[a]) % PortCount

\* A port leaves the history of every scan when somebody binds it.
Take(p) ==
    /\ bound' = bound \cup {p}
    /\ free' = [a \in Assocs |-> free[a] \ {p}]

\* UdpSocket::bind succeeds.
Bind(a) ==
    /\ portPc[a] = "scan" /\ Index(a) \notin bound
    /\ Take(Index(a))
    /\ portPc' = [portPc EXCEPT ![a] = "store"]
    /\ UNCHANGED <<nextPort, first, offset>>

\* Mutant: the last port of the range is never tried.
AddrInUseShort(a) ==
    /\ portPc[a] = "scan" /\ Index(a) \in bound
    /\ offset' = [offset EXCEPT ![a] = @ + 1]
    /\ portPc' = [portPc EXCEPT ![a] = IF offset[a] + 2 >= PortCount
                               THEN "refused" ELSE "scan"]
    /\ UNCHANGED <<nextPort, first, bound, free>>

\* It fails with AddrInUse, and the next port is tried, or there is none.
AddrInUse(a) ==
    /\ portPc[a] = "scan" /\ Index(a) \in bound
    /\ offset' = [offset EXCEPT ![a] = @ + 1]
    /\ portPc' = [portPc EXCEPT ![a] = IF offset[a] + 1 = PortCount
                               THEN "refused" ELSE "scan"]
    /\ UNCHANGED <<nextPort, first, bound, free>>

\* It fails with another error, which ends the association.
BindFails(a) ==
    /\ portPc[a] = "scan"
    /\ portPc' = [portPc EXCEPT ![a] = "idle"]
    /\ UNCHANGED <<nextPort, first, offset, bound, free>>

\* next_port.store(index + 1)
StoreNext(a) ==
    /\ portPc[a] = "store"
    /\ nextPort' = Index(a) + 1
    /\ portPc' = [portPc EXCEPT ![a] = "open"]
    /\ UNCHANGED <<first, offset, bound, free>>

\* The association ends, with the failure reply of a refused bind or for any
\* reason after it was bound, and its socket is closed.
Refused(a) ==
    /\ portPc[a] = "refused"
    /\ portPc' = [portPc EXCEPT ![a] = "idle"]
    /\ UNCHANGED <<nextPort, first, offset, bound, free>>
Ends(a) ==
    /\ portPc[a] = "open"
    /\ portPc' = [portPc EXCEPT ![a] = "idle"]
    /\ bound' = bound \ {Index(a)}
    /\ UNCHANGED <<nextPort, first, offset, free>>

\* Another program binds or closes a port of the range.
Holds(a, p) == portPc[a] \in {"store", "open"} /\ Index(a) = p
OtherBinds(p) ==
    /\ p \notin bound
    /\ Take(p)
    /\ UNCHANGED <<nextPort, portPc, first, offset>>
OtherCloses(p) ==
    /\ p \in bound /\ \A a \in Assocs : ~Holds(a, p)
    /\ bound' = bound \ {p}
    /\ UNCHANGED <<nextPort, portPc, first, offset, free>>

-----------------------------------------------------------------------------
PortsNext ==
    \/ \E a \in Assocs :
         \/ BeginBind(a) \/ Bind(a) \/ AddrInUse(a) \/ BindFails(a)
         \/ StoreNext(a) \/ Refused(a) \/ Ends(a)
    \/ \E p \in Ports : OtherBinds(p) \/ OtherCloses(p)

PortsSpec == PortsInit /\ [][PortsNext]_portVars

-----------------------------------------------------------------------------
(* Properties *)

\* Every variable has its type.
PortsTypeOK ==
    /\ nextPort \in 0..UsizeWrap - 1
    /\ portPc \in [Assocs -> PortPcStates]
    /\ first \in [Assocs -> Ports]
    /\ offset \in [Assocs -> 0..PortCount]
    /\ bound \subseteq Ports
    /\ free \in [Assocs -> SUBSET Ports]

\* "all configured SOCKS5 UDP relay ports are in use" is only reported if
\* every port was in use at some moment of the scan, wherever the scan began
\* and however next_port was moved by others meanwhile.
FreePortFound == \A a \in Assocs : portPc[a] = "refused" => free[a] = {}

\* Two associations never relay through one port, and the port an association
\* advertises stays bound as long as it lasts: no other association's end
\* closes it.
OwnPort ==
    \A a, b \in Assocs :
      portPc[a] \in {"store", "open"} =>
        /\ Index(a) \in bound
        /\ Holds(b, Index(a)) => a = b
=============================================================================
