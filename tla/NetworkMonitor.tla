--------------------------- MODULE NetworkMonitor ---------------------------
(***************************************************************************)
(* The egress selection (src/network.rs): which interface and which source *)
(* addresses outgoing connections use, kept by a monitor that any number   *)
(* of callers ask for a snapshot.  A snapshot older than two seconds is    *)
(* refreshed by its caller, who holds the monitor's mutex across a         *)
(* blocking detection and may be dropped (a dial that times out) anywhere  *)
(* in it.                                                                  *)
(***************************************************************************)
EXTENDS Naturals, FiniteSets

CONSTANTS
    Callers,       \* tasks that ask for snapshots
    Kind,          \* interface name -> "primary", "usual", "other", "virtual",
                   \* "loopback"
    OsStates,      \* [addresses, routes]: what the system may report
    PinnedChoices, \* values of the configured outbound IP, NoIp for automatic
    V6,            \* the addresses of the IPv6 family
    NoIp,          \* an absent address or interface
    Unreadable,    \* getifaddrs() fails, among the OsStates
    MaxChanges     \* bound: changes of the system's network

\* The address entries the system may report, and their addresses.
Reported == UNION {o.addresses : o \in OsStates \ {Unreadable}}
Addresses == {e.address : e \in Reported} \cup PinnedChoices

\* Lists are finite, in an order, and about known interfaces; an address is
\* not one of the words a bind's outcome is told by.
ASSUME MonAssumption ==
    /\ \A e \in Reported : e.name \in DOMAIN Kind /\ e.index \in Nat /\ e.place \in Nat
                           /\ e.up \in BOOLEAN
    /\ \A o \in OsStates \ {Unreadable} : IsFiniteSet(o.addresses)
    /\ NoIp \notin DOMAIN Kind \cup Callers \cup {e.address : e \in Reported}
    /\ {"refused", "any"} \cap Addresses = {}

VARIABLES
    os,            \* the network as the system has it now
    pinnedIp,      \* NetworkMonitor.pinned_ip
    monSelection,  \* MonitorState.selection
    monGeneration, \* MonitorState.generation
    monStale,      \* checked_at is at least REFRESH_INTERVAL ago
    monRoute,      \* MonitorState.default_route, with the age of its answer
    monHolder,     \* the caller holding the mutex for a detection, or NoIp
    snapPc,        \* where each caller is in snapshot()
    detected,      \* the addresses its detection has read
    snap,          \* the last snapshot each caller got
    changes        \* changes of the network so far

monVars == <<os, pinnedIp, monSelection, monGeneration, monStale, monRoute,
             monHolder, snapPc, detected, snap, changes>>

(***************************************************************************)
(* Choosing the egress.  An address entry is a record of its interface     *)
(* (name, index), the address, its scope, whether the interface is up, the *)
(* kernel's flags of an IPv6 address, and its place in the system's list;  *)
(* a route is one of its interface, whether it is up, its metric and its   *)
(* place.  A list is the set of its records: they carry their order.       *)
(***************************************************************************)
First(list) == CHOOSE e \in list : \A f \in list : e.place <= f.place
Latest(list) == CHOOSE e \in list : \A f \in list : f.place <= e.place

EmptySelection == [name |-> NoIp, index |-> 0, ipv4 |-> NoIp, ipv6 |-> NoIp]

PinnedWithoutInterface(ip) ==
    IF ip \in V6 THEN [EmptySelection EXCEPT !.ipv6 = ip]
             ELSE [EmptySelection EXCEPT !.ipv4 = ip]

IsVirtualInterface(name) == Kind[name] = "virtual"

InterfaceScore(name, preferred) ==
    (IF name = preferred THEN 1000 ELSE 0)
    + CASE Kind[name] = "primary" -> 500
        [] Kind[name] = "usual"   -> 400
        [] OTHER                  -> 100

IsUsableAddress(entry) == entry.scope \in {"global", "ula"}

\* getifaddrs() filtered: interfaces that are up, not a loopback and known by
\* an index, and addresses worth using.
InterfaceAddresses(all) ==
    {e \in all : /\ e.up /\ Kind[e.name] # "loopback"
                 /\ IsUsableAddress(e) /\ e.index # 0}

\* What the flags of /proc/net/if_inet6 say about an address.
AddressState(flags) ==
    [temporary    |-> "temporary" \in flags,
     deprecated   |-> "deprecated" \in flags,
     unassignable |-> \/ "dadfailed" \in flags
                      \/ "tentative" \in flags /\ "optimistic" \notin flags]

\* The lexicographic order of (unique local, deprecated, temporary).
Rank(entry) ==
    LET state == AddressState(entry.flags)
        Bit(b) == IF b THEN 1 ELSE 0
    IN  4 * Bit(entry.scope = "ula") + 2 * Bit(state.deprecated)
        + Bit(state.temporary)

FirstAddress(entries) == IF entries = {} THEN NoIp ELSE First(entries).address

SelectionForInterface(addresses, name, pinned) ==
    LET own    == {e \in addresses : e.name = name}
        usable == {e \in own : pinned \in {NoIp, e.address}}
        v4     == {e \in usable : e.address \notin V6}
        v6     == {e \in usable :
                      /\ e.address \in V6
                      /\ pinned # NoIp \/ ~AddressState(e.flags).unassignable}
        best   == {e \in v6 : \A f \in v6 : Rank(e) <= Rank(f)}
    IN  [name |-> name, index |-> Latest(own).index,
         ipv4 |-> FirstAddress(v4), ipv6 |-> FirstAddress(best)]

\* The last of the best-scored entries wins, as with max_by_key.
BestInterface(addresses, preferred) ==
    LET Score(e) == InterfaceScore(e.name, preferred)
        physical == {e \in addresses : ~IsVirtualInterface(e.name)}
        top      == {e \in physical : \A f \in physical : Score(f) <= Score(e)}
    IN  IF top = {} THEN NoIp ELSE Latest(top).name

DetectEgressFromAddresses(addresses, pinned, preferred) ==
    IF pinned # NoIp
    THEN LET found == {e \in addresses : e.address = pinned}
         IN  IF found = {} THEN EmptySelection
             ELSE SelectionForInterface(addresses, First(found).name, pinned)
    ELSE LET name == BestInterface(addresses, preferred)
         IN  IF name = NoIp THEN EmptySelection
             ELSE SelectionForInterface(addresses, name, NoIp)

\* The usable default route of the lowest metric, the first of equals.
DefaultPhysicalInterface(routes) ==
    LET usable == {r \in routes : r.up /\ ~IsVirtualInterface(r.name)}
        best   == {r \in usable : \A q \in usable : r.metric <= q.metric}
    IN  IF best = {} THEN NoIp ELSE First(best).name

(***************************************************************************)
(* What a snapshot lets its user do for a destination of one family.       *)
(***************************************************************************)
HasAddress(selection) == selection.ipv4 # NoIp \/ selection.ipv6 # NoIp

SourceFor(s, v6) == IF v6 THEN s.selection.ipv6 ELSE s.selection.ipv4

\* Mutant: a pinned address does not restrict an empty selection.
SupportsAnyWhenEmpty(s, v6) ==
    SourceFor(s, v6) # NoIp \/ ~HasAddress(s.selection)

\* Asked for the addresses of a TCP dial; a DNS query is sent without asking.
Supports(s, v6) ==
    IF pinnedIp # NoIp THEN SourceFor(s, v6) # NoIp
    ELSE ~HasAddress(s.selection) \/ SourceFor(s, v6) # NoIp

\* The source a TCP socket is bound to: an address, left to the system, or
\* the bind refused.
BindTcp(s, v6) ==
    IF SourceFor(s, v6) # NoIp THEN SourceFor(s, v6)
    ELSE IF pinnedIp # NoIp THEN "refused" ELSE "any"

\* bind_udp_socket: the unspecified address stands for a missing source.
BindUdp(s, v6) ==
    LET bind == SourceFor(s, v6)
    IN  IF bind = NoIp THEN (IF pinnedIp # NoIp THEN "refused" ELSE "any")
                       ELSE bind

(***************************************************************************)
(* The monitor.                                                            *)
(***************************************************************************)
EmptyRoute == [addresses |-> {}, interface |-> NoIp, age |-> "never"]

Snapshot == [selection |-> monSelection, generation |-> monGeneration]

\* NetworkMonitor::new: the first detection, with its route lookup.
DetectedAtStart ==
    IF os = Unreadable
    THEN IF pinnedIp # NoIp THEN PinnedWithoutInterface(pinnedIp) ELSE EmptySelection
    ELSE DetectEgressFromAddresses(InterfaceAddresses(os.addresses), pinnedIp,
                                   DefaultPhysicalInterface(os.routes))

MonInit ==
    /\ os \in OsStates
    /\ pinnedIp \in PinnedChoices
    /\ monSelection = DetectedAtStart
    /\ monGeneration = 1
    /\ monStale = FALSE
    /\ monRoute = IF os = Unreadable \/ pinnedIp # NoIp THEN EmptyRoute
                  ELSE [addresses |-> InterfaceAddresses(os.addresses),
                        interface |-> DefaultPhysicalInterface(os.routes),
                        age |-> "recent"]
    /\ monHolder = NoIp
    /\ snapPc = [c \in Callers |-> "idle"]
    /\ detected = [c \in Callers |-> {}]
    /\ snap = [c \in Callers |-> [selection |-> EmptySelection, generation |-> 0]]
    /\ changes = 0

AskSnapshot(c) ==
    /\ snapPc[c] = "idle"
    /\ snapPc' = [snapPc EXCEPT ![c] = "waiting"]
    /\ UNCHANGED <<os, pinnedIp, monSelection, monGeneration, monStale, monRoute,
                   monHolder, detected, snap, changes>>

\* The mutex is taken and the state is recent enough to be returned.
ReturnCurrent(c) ==
    /\ snapPc[c] = "waiting" /\ monHolder = NoIp /\ ~monStale
    /\ snap' = [snap EXCEPT ![c] = Snapshot]
    /\ snapPc' = [snapPc EXCEPT ![c] = "idle"]
    /\ UNCHANGED <<os, pinnedIp, monSelection, monGeneration, monStale, monRoute,
                   monHolder, detected, changes>>

\* The mutex is taken and a detection started on a blocking thread, which
\* the route cache moves to and, unless the caller is dropped, comes back from.
StartDetection(c) ==
    /\ snapPc[c] = "waiting" /\ monHolder = NoIp /\ monStale
    /\ monHolder' = c
    /\ snapPc' = [snapPc EXCEPT ![c] = "reading"]
    /\ UNCHANGED <<os, pinnedIp, monSelection, monGeneration, monStale, monRoute,
                   detected, snap, changes>>

ReadAddresses(c) ==
    /\ snapPc[c] = "reading"
    /\ detected' = [detected EXCEPT ![c] =
                       IF os = Unreadable THEN Unreadable
                       ELSE InterfaceAddresses(os.addresses)]
    /\ snapPc' = [snapPc EXCEPT ![c] =
                     IF os = Unreadable \/ pinnedIp # NoIp THEN "joining" ELSE "routing"]
    /\ UNCHANGED <<os, pinnedIp, monSelection, monGeneration, monStale, monRoute,
                   monHolder, snap, changes>>

\* Mutant: a cached route answer is never checked again.
RouteCurrentWithoutAge(addresses) ==
    monRoute.addresses = addresses /\ monRoute.age # "never"

\* DefaultRouteCache::interface: the cached answer is current while the
\* addresses are the same and it is younger than DEFAULT_ROUTE_RECHECK.
RouteCurrent(addresses) ==
    monRoute.addresses = addresses /\ monRoute.age = "recent"

RouteInterface(addresses) ==
    IF RouteCurrent(addresses) THEN monRoute
    ELSE [addresses |-> addresses, age |-> "recent",
          interface |-> IF os = Unreadable THEN NoIp
                        ELSE DefaultPhysicalInterface(os.routes)]

LookUpRoute(c) ==
    /\ snapPc[c] = "routing"
    /\ monRoute' = RouteInterface(detected[c])
    /\ snapPc' = [snapPc EXCEPT ![c] = "joining"]
    /\ UNCHANGED <<os, pinnedIp, monSelection, monGeneration, monStale, monHolder,
                   detected, snap, changes>>

\* Mutant: only a change of the IPv4 source is noticed.
UpdatedGenerationIpv4Only(selection) ==
    IF selection.ipv4 # monSelection.ipv4 THEN monGeneration + 1 ELSE monGeneration

\* MonitorState::update with the generation it leaves.
UpdatedGeneration(selection) ==
    IF selection # monSelection THEN monGeneration + 1 ELSE monGeneration

\* The detection joins: an error without a pinned address keeps the selection.
FinishDetection(c) ==
    /\ snapPc[c] = "joining"
    /\ LET selection ==
               IF detected[c] = Unreadable
               THEN IF pinnedIp # NoIp THEN PinnedWithoutInterface(pinnedIp)
                                       ELSE monSelection
               ELSE DetectEgressFromAddresses(detected[c], pinnedIp,
                                              monRoute.interface)
       IN  /\ monSelection' = selection
           /\ monGeneration' = UpdatedGeneration(selection)
           /\ snap' = [snap EXCEPT ![c] = [selection |-> selection,
                                           generation |-> UpdatedGeneration(selection)]]
    /\ monStale' = FALSE
    /\ monHolder' = NoIp
    /\ snapPc' = [snapPc EXCEPT ![c] = "idle"]
    /\ detected' = [detected EXCEPT ![c] = {}]
    /\ UNCHANGED <<os, pinnedIp, monRoute, changes>>

\* The blocking thread panics: the join error keeps the selection until the
\* next refresh, and the route cache is lost with the thread.
DetectionPanics(c) ==
    /\ snapPc[c] \in {"reading", "routing", "joining"}
    /\ snap' = [snap EXCEPT ![c] = Snapshot]
    /\ monRoute' = EmptyRoute
    /\ monStale' = FALSE
    /\ monHolder' = NoIp
    /\ snapPc' = [snapPc EXCEPT ![c] = "idle"]
    /\ detected' = [detected EXCEPT ![c] = {}]
    /\ UNCHANGED <<os, pinnedIp, monSelection, monGeneration, changes>>

\* The caller is dropped.  A detection under way is lost with the route cache
\* it took; the mutex is free again, and the state as old as it was.
CancelSnapshot(c) ==
    /\ snapPc[c] # "idle"
    /\ IF monHolder = c
       THEN monHolder' = NoIp /\ monRoute' = EmptyRoute
       ELSE UNCHANGED <<monHolder, monRoute>>
    /\ snapPc' = [snapPc EXCEPT ![c] = "idle"]
    /\ detected' = [detected EXCEPT ![c] = {}]
    /\ UNCHANGED <<os, pinnedIp, monSelection, monGeneration, monStale, snap, changes>>

\* REFRESH_INTERVAL passes.
Age ==
    /\ ~monStale
    /\ monStale' = TRUE
    /\ UNCHANGED <<os, pinnedIp, monSelection, monGeneration, monRoute, monHolder,
                   snapPc, detected, snap, changes>>

\* DEFAULT_ROUTE_RECHECK passes since the last route lookup.
AgeRoute ==
    /\ monRoute.age = "recent"
    /\ monRoute' = [monRoute EXCEPT !.age = "old"]
    /\ UNCHANGED <<os, pinnedIp, monSelection, monGeneration, monStale, monHolder,
                   snapPc, detected, snap, changes>>

OsChange ==
    /\ changes < MaxChanges
    /\ changes' = changes + 1
    /\ os' \in OsStates \ {os}
    /\ UNCHANGED <<pinnedIp, monSelection, monGeneration, monStale, monRoute,
                   monHolder, snapPc, detected, snap>>

MonNext ==
    \/ \E c \in Callers :
          \/ AskSnapshot(c) \/ ReturnCurrent(c) \/ StartDetection(c)
          \/ ReadAddresses(c) \/ LookUpRoute(c) \/ FinishDetection(c)
          \/ DetectionPanics(c) \/ CancelSnapshot(c)
    \/ Age \/ AgeRoute \/ OsChange

MonFairness == WF_monVars(AgeRoute)

MonSpec == MonInit /\ [][MonNext]_monVars /\ MonFairness

-----------------------------------------------------------------------------
(***************************************************************************)
(* Properties.                                                             *)
(***************************************************************************)
E == INSTANCE Egress WITH
        netSelection <- monSelection, netGeneration <- monGeneration,
        Selections <- [name : DOMAIN Kind \cup {NoIp}, index : Nat,
                       ipv4 : Addresses \cup {NoIp}, ipv6 : Addresses \cup {NoIp}]

(***************************************************************************)
(* Whatever callers are queued, dropped or refreshed, the monitor is the   *)
(* numbered selection its users rely on: its generation moves exactly when *)
(* the selection does (network.rs, MonitorState::update and snapshot).     *)
(***************************************************************************)
MonitorImplementsEgress == E!NetSpec

\* Some state of the system had the addresses of this selection on its
\* interface, one that is up, real and not a loopback.
OfOneInterface(selection) ==
    /\ ~IsVirtualInterface(selection.name)
    /\ \E o \in OsStates \ {Unreadable} :
          \A ip \in {selection.ipv4, selection.ipv6} \ {NoIp} :
              \E e \in InterfaceAddresses(o.addresses) :
                  e.name = selection.name /\ e.address = ip

(***************************************************************************)
(* A configured outbound IP is the only source any caller ever uses: with  *)
(* one, each family is bound to it or refused, whichever detection failed, *)
(* and refused exactly where the dialer drops the address; without one, no *)
(* bind is refused, and the sources of a snapshot were the addresses of    *)
(* one real interface at one time, however long the caller has kept it.  A *)
(* family the selected interface has no address of is left to the system:  *)
(* the dialer asks Supports first, a DNS query does not.                   *)
(***************************************************************************)
SourceAsConfigured ==
    \A c \in Callers, v6 \in BOOLEAN :
        LET s == snap[c]
        IN  s.generation > 0 =>
            /\ BindUdp(s, v6) = BindTcp(s, v6)
            /\ pinnedIp # NoIp =>
                 /\ BindTcp(s, v6) \in {pinnedIp, "refused"}
                 /\ Supports(s, v6) <=> BindTcp(s, v6) # "refused"
            /\ pinnedIp = NoIp =>
                 /\ BindTcp(s, v6) # "refused"
                 /\ HasAddress(s.selection) => OfOneInterface(s.selection)

(***************************************************************************)
(* "With the default loopback setup, control-plane, private DNS, and       *)
(* ECH-TLS node connections automatically use an active non-virtual        *)
(* physical interface" (README.en.md): while one is selected, a private    *)
(* DNS query, sent to an IPv4 server, does not leave its source to the     *)
(* system.  False of network.rs bind_udp_socket for an interface that has  *)
(* IPv6 addresses only: query_once does not ask Supports.                  *)
(***************************************************************************)
PrivateDnsUsesInterface ==
    \A c \in Callers :
        snap[c].generation > 0 /\ pinnedIp = NoIp /\ HasAddress(snap[c].selection) =>
            BindUdp(snap[c], FALSE) # "any"

(***************************************************************************)
(* Once the network stops changing, detections that go on completing end   *)
(* with the selection a first detection of it would make, whatever route   *)
(* answers were cached, lost with a dropped caller or a panic, or read     *)
(* between two changes: DEFAULT_ROUTE_RECHECK bounds how long an answer is *)
(* reused.                                                                 *)
(***************************************************************************)
EgressSettles ==
    ([]<><<\E c \in Callers : FinishDetection(c)>>_monVars) =>
        <>[](os # Unreadable => monSelection = DetectedAtStart)
=============================================================================
