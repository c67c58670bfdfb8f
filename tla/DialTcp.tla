------------------------------ MODULE DialTcp ------------------------------
(***************************************************************************)
(* The part of a dial below TLS (EchDialer::dial_tcp): take a network      *)
(* snapshot, resolve the node, keep the addresses the egress can reach,    *)
(* put the last one that worked on this network first, and connect to one  *)
(* of them from the snapshot's source.  Several dials run at once, against *)
(* the resolver they share, while the network changes under them.          *)
(***************************************************************************)
EXTENDS Egress, PrivateDns

CONSTANTS
    Pinned,    \* an outbound IP is configured
    MaxGen     \* bound: generations of the network

VARIABLES
    dialPc,          \* where each dial is: "idle", "resolving", "racing"
    dialNet,         \* its network snapshot [generation, selection]
    candidates,      \* the addresses it may connect to
    preferred,       \* those moved to the front
    lastSuccess      \* last_success per node: [generation, address]

dialVars == <<dialPc, dialNet, candidates, preferred, lastSuccess>>

NoNet     == [generation |-> 0, selection |-> {}]
NoSuccess == [generation |-> 0, address |-> <<"v4", 0>>]

DialInit ==
    /\ NetInit
    /\ DnsInit
    /\ dialPc = [t \in Tasks |-> "idle"]
    /\ dialNet = [t \in Tasks |-> NoNet]
    /\ candidates = [t \in Tasks |-> {}]
    /\ preferred = [t \in Tasks |-> {}]
    /\ lastSuccess = [h \in Hosts |-> NoSuccess]

Current == [generation |-> netGeneration, selection |-> netSelection]

\* NetworkSnapshot::supports: without a configured source, any family while
\* the egress has no address.
SupportsFamily(net, address) ==
    address[1] \in net.selection \/ (~Pinned /\ net.selection = {})

\* dial_tcp takes its snapshot and starts to resolve the node with it.
StartDial(t, h) ==
    /\ dialPc[t] = "idle"
    /\ dialPc' = [dialPc EXCEPT ![t] = "resolving"]
    /\ dialNet' = [dialNet EXCEPT ![t] = Current]
    /\ LookUp(t, h, netGeneration)
    /\ UNCHANGED <<netVars, candidates, preferred, lastSuccess>>

Resolving(t) ==
    /\ dialPc[t] = "resolving"
    /\ LookupStep(t)
    /\ UNCHANGED <<netVars, dialVars>>

\* last_success counts only for the generation of this dial's snapshot.
Preferred(t) ==
    LET last == lastSuccess[lookHost[t]]
    IN  IF last.generation = dialNet[t].generation THEN {last.address} ELSE {}

\* The addresses are filtered by family, and last_success read.  System DNS
\* answers with addresses of its own, that no generation is attached to.
Resolved(t) ==
    /\ dialPc[t] = "resolving"
    /\ \E addresses \in
          CASE lookPc[t] = "found"  -> {found[t]}
            [] lookPc[t] = "system" -> SUBSET {<<f, 0>> : f \in Families}
            [] OTHER                -> {} :
         candidates' = [candidates EXCEPT ![t] =
                          {a \in addresses : SupportsFamily(dialNet[t], a)}]
    /\ preferred' = [preferred EXCEPT ![t] = Preferred(t)]
    /\ dialPc' = [dialPc EXCEPT ![t] = "racing"]
    /\ DropLookup(t)
    /\ UNCHANGED <<netVars, dialNet, lastSuccess, lookHost>>

\* dial_tcp returns: the dial's locals are gone, a lookup under way with them.
ReturnTcp(t) ==
    /\ dialPc' = [dialPc EXCEPT ![t] = "idle"]
    /\ dialNet' = [dialNet EXCEPT ![t] = NoNet]
    /\ candidates' = [candidates EXCEPT ![t] = {}]
    /\ preferred' = [preferred EXCEPT ![t] = {}]
    /\ DropLookup(t)
    /\ lookHost' = [lookHost EXCEPT ![t] = NoHost]

\* connect_happy_eyeballs succeeds (see RaceConnects for the race itself) and
\* the address is remembered for the generation the connection belongs to.
Connected(t) ==
    /\ dialPc[t] = "racing"
    /\ \E a \in candidates[t] :
          lastSuccess' = [lastSuccess EXCEPT ![lookHost[t]] =
                [generation |-> dialNet[t].generation, address |-> a]]
    /\ ReturnTcp(t)
    /\ UNCHANGED netVars

\* The dial fails (no address, no connection) or times out wherever it is.
EndDial(t) ==
    /\ dialPc[t] # "idle"
    /\ ReturnTcp(t)
    /\ UNCHANGED <<netVars, lastSuccess>>

NetworkChanges ==
    /\ netGeneration < MaxGen
    /\ NetChange
    /\ UNCHANGED <<dnsVars, dialVars>>

TimePasses == DnsPeriod /\ UNCHANGED <<netVars, dialVars>>

DialNext ==
    \/ \E t \in Tasks, h \in Hosts : StartDial(t, h)
    \/ \E t \in Tasks : Resolving(t) \/ Resolved(t) \/ Connected(t) \/ EndDial(t)
    \/ NetworkChanges \/ TimePasses

dialTcpVars == <<netVars, dnsVars, dialVars>>

DialSpec == DialInit /\ [][DialNext]_dialTcpVars

-----------------------------------------------------------------------------
(***************************************************************************)
(* A dial only ever uses what was learnt on its own network: the addresses *)
(* of a private name were answered through the generation of the dial's    *)
(* snapshot, and the preferred one connected under it, although the cache, *)
(* its locks and last_success are shared with dials of other generations   *)
(* (private_dns.rs cached(), ech.rs dial_tcp).                             *)
(***************************************************************************)
AddressesOfOwnNetwork ==
    \A t \in Tasks :
        lookHost[t] \in PrivateHosts =>
            \A a \in found[t] \cup candidates[t] \cup preferred[t] :
                a[2] = dialNet[t].generation

(***************************************************************************)
(* The resolver never asks for what it already knows: whenever a lookup    *)
(* stores its answer, the cache held no valid answer for its network, so   *)
(* that tasks waiting for a name reuse the answer of the one that asked    *)
(* (private_dns.rs lookup(), the second cached() under the lock).          *)
(***************************************************************************)
NoWastedQuery ==
    [][\A t \in Tasks :
          lookPc[t] = "querying" /\ lookPc'[t] = "found"
            => ~CacheHit(lookHost[t], lookNet[t])]_dialTcpVars
=============================================================================
