--------------------------- MODULE ServicesProofs ---------------------------
(***************************************************************************)
(* Proofs about the services around the proxy, for any number of callers,  *)
(* interfaces, requests, accounts, processes and URLs.                     *)
(*                                                                         *)
(* The network monitor: whatever list of addresses a detection has read,   *)
(* what it selects keeps to the configuration (Proper), and the generation *)
(* is the number of changes, so that the monitor refines Egress.  The      *)
(* provider: what a request has gathered is bound to where it is, and the  *)
(* router and the metadata in place are ordered by their fetches against   *)
(* each other and against every request that waits for or has read them.   *)
(* The control socket: a live service's file is at the path and nobody is  *)
(* about to remove it.  The API client: an equal share of the time left    *)
(* leaves their shares to the URLs behind, but for the ticks by which      *)
(* timers were late.                                                       *)
(***************************************************************************)
EXTENDS NetworkMonitor, Provider, ControlSocket, ApiClient, SharedLemmas, FiniteSetTheorems

-----------------------------------------------------------------------------
(***************************************************************************)
(* The network monitor.                                                    *)
(***************************************************************************)
\* A list has a first entry ...
LEMMA FirstInList ==
  ASSUME NEW list, list # {}, \A e \in list : e.place \in Nat
  PROVE  First(list) \in list
<1> DEFINE places == {e.place : e \in list}
<1>1. places \subseteq Nat /\ places # {}
  OBVIOUS
<1>2. PICK n \in places : \A m \in places : n <= m
  BY <1>1, LeastNumber
<1>3. \E e \in list : \A f \in list : e.place <= f.place
  BY <1>2
<1> QED BY <1>3 DEF First

\* ... and, because it is finite, a last one: a smallest list without one
\* would have one less entry in another without one.
LEMMA LatestInList ==
  ASSUME NEW list, IsFiniteSet(list), list # {}, \A e \in list : e.place \in Nat
  PROVE  Latest(list) \in list
<1> DEFINE Tops(l)  == \E e \in l : \A f \in l : f.place <= e.place
           endless  == {l \in SUBSET list : l # {} /\ ~Tops(l)}
           sizes    == {Cardinality(l) : l \in endless}
<1>1. endless = {}
  <2> SUFFICES ASSUME endless # {} PROVE FALSE
    OBVIOUS
  <2>1. \A l \in SUBSET list : IsFiniteSet(l) /\ Cardinality(l) \in Nat
    BY FS_Subset, FS_CardinalityType
  <2>2. sizes \subseteq Nat /\ sizes # {}
    BY <2>1
  <2>3. PICK n \in sizes : \A m \in sizes : n <= m
    BY <2>2, LeastNumber
  <2>4. PICK l \in endless : Cardinality(l) = n
    BY <2>3
  <2>5. PICK x \in l : TRUE
    BY <2>4
  <2> DEFINE rest == l \ {x}
  <2>6. rest \in SUBSET list /\ Cardinality(rest) = n - 1 /\ n \in Nat
    BY <2>1, <2>4, <2>5, FS_RemoveElement
  <2>7. rest \notin endless
    <3> SUFFICES ASSUME rest \in endless PROVE FALSE
      OBVIOUS
    <3>1. n - 1 \in sizes
      BY <2>6
    <3>2. n <= n - 1
      <4> HIDE DEF sizes
      <4> QED BY <3>1, <2>3
    <3> QED BY <3>2, <2>6
  <2>8. CASE rest = {}
    <3>1. l = {x} /\ x.place <= x.place
      BY <2>5, <2>8, <2>4
    <3> QED BY <3>1, <2>4
  <2>9. CASE rest # {}
    <3>1. PICK e \in rest : \A f \in rest : f.place <= e.place
      BY <2>6, <2>7, <2>9
    <3>2. e.place \in Nat /\ x.place \in Nat /\ \A f \in l : f.place \in Nat
      BY <2>4, <2>5
    <3>3. Tops(l)
      <4>1. CASE x.place <= e.place
        <5>1. \A f \in l : f.place <= e.place
          BY <3>1, <4>1
        <5> QED BY <5>1
      <4>2. CASE ~(x.place <= e.place)
        <5>1. \A f \in l : f.place <= x.place
          BY <3>1, <3>2, <4>2
        <5> QED BY <5>1, <2>5
      <4> QED BY <4>1, <4>2
    <3> QED BY <3>3, <2>4
  <2> QED BY <2>8, <2>9
<1>2. \E e \in list : \A f \in list : f.place <= e.place
  BY <1>1
<1> QED BY <1>2 DEF Latest

-----------------------------------------------------------------------------
EgressSelections ==
    [name : DOMAIN Kind \cup {NoIp}, index : Nat,
     ipv4 : Addresses \cup {NoIp}, ipv6 : Addresses \cup {NoIp}]

\* A selection that keeps to the configuration.
Proper(selection) ==
    /\ selection \in EgressSelections
    /\ pinnedIp # NoIp => /\ selection.ipv4 \in {NoIp, pinnedIp}
                          /\ selection.ipv6 \in {NoIp, pinnedIp}
    /\ pinnedIp = NoIp /\ HasAddress(selection) => OfOneInterface(selection)

\* What a detection may have read, or nothing yet.
Lists == {{}} \cup {InterfaceAddresses(o.addresses) : o \in OsStates \ {Unreadable}}

\* What the filters of detect keep of a report is a finite list as well.
LEMMA FilteredLists ==
  ASSUME NEW list \in Lists
  PROVE  /\ list \subseteq Reported /\ IsFiniteSet(list)
         /\ \A e \in list : e.place \in Nat /\ e.name \in DOMAIN Kind /\ e.name # NoIp
<1>1. CASE list = {}
  BY <1>1, FS_EmptySet
<1>2. ASSUME NEW o \in OsStates \ {Unreadable}, list = InterfaceAddresses(o.addresses)
      PROVE  list \subseteq Reported /\ IsFiniteSet(list)
  <2>1. o.addresses \subseteq Reported /\ IsFiniteSet(o.addresses)
    BY MonAssumption DEF Reported
  <2>2. list \subseteq o.addresses
    BY <1>2 DEF InterfaceAddresses
  <2> QED BY <2>1, <2>2, FS_Subset
<1>3. list \subseteq Reported /\ IsFiniteSet(list)
  BY <1>1, <1>2 DEF Lists
<1> QED BY <1>3, MonAssumption

\* The address a family gets is none, or that of an entry of the list.
LEMMA FirstAddressOf ==
  ASSUME NEW list, list \subseteq Reported
  PROVE  FirstAddress(list) = NoIp \/ \E e \in list : FirstAddress(list) = e.address
<1>1. CASE list = {}
  BY <1>1 DEF FirstAddress
<1>2. CASE list # {}
  BY <1>2, FirstInList, MonAssumption DEF FirstAddress
<1> QED BY <1>1, <1>2

\* The addresses of one interface, not a virtual one unless an address is
\* configured, make a proper selection.
LEMMA InterfaceProper ==
  ASSUME NEW list \in Lists, pinnedIp \in PinnedChoices, NEW e \in list,
         pinnedIp = NoIp => ~IsVirtualInterface(e.name)
  PROVE  Proper(SelectionForInterface(list, e.name, pinnedIp))
<1> DEFINE name   == e.name
           own    == {f \in list : f.name = name}
           usable == {f \in own : pinnedIp \in {NoIp, f.address}}
           v4     == {f \in usable : f.address \notin V6}
           v6     == {f \in usable :
                        /\ f.address \in V6
                        /\ pinnedIp # NoIp \/ ~AddressState(f.flags).unassignable}
           best   == {f \in v6 : \A g \in v6 : Rank(f) <= Rank(g)}
           s      == [name |-> name, index |-> Latest(own).index,
                      ipv4 |-> FirstAddress(v4), ipv6 |-> FirstAddress(best)]
<1>1. SelectionForInterface(list, e.name, pinnedIp) = s
  BY DEF SelectionForInterface
<1>2. own # {} /\ own \subseteq list /\ own \subseteq Reported /\ IsFiniteSet(own)
  BY FS_Subset, FilteredLists
<1>3. \A f \in Reported : f.place \in Nat /\ f.index \in Nat /\ f.name \in DOMAIN Kind
                          /\ f.address \in Addresses
  BY MonAssumption DEF Addresses
<1>4. Latest(own).index \in Nat /\ name \in DOMAIN Kind
  <2>1. Latest(own) \in own
    BY <1>2, <1>3, LatestInList
  <2> QED BY <2>1, <1>2, <1>3
<1>5. v4 \subseteq usable /\ best \subseteq usable /\ usable \subseteq Reported
  BY <1>2
<1>6. \A f \in usable : f.address \in Addresses /\ (pinnedIp # NoIp => f.address = pinnedIp)
  BY <1>3, <1>5
<1> HIDE DEF usable, v4, v6, best, own
<1>7. /\ FirstAddress(v4) = NoIp \/ \E f \in usable : FirstAddress(v4) = f.address
      /\ FirstAddress(best) = NoIp \/ \E f \in usable : FirstAddress(best) = f.address
  <2>1. v4 \subseteq Reported /\ best \subseteq Reported
    BY <1>5
  <2>2. FirstAddress(v4) = NoIp \/ \E f \in v4 : FirstAddress(v4) = f.address
    BY <2>1, FirstAddressOf
  <2>3. FirstAddress(best) = NoIp \/ \E f \in best : FirstAddress(best) = f.address
    BY <2>1, FirstAddressOf
  <2> QED BY <2>2, <2>3, <1>5
<1>8. s \in EgressSelections
  BY <1>4, <1>6, <1>7 DEF EgressSelections
<1>9. pinnedIp # NoIp => s.ipv4 \in {NoIp, pinnedIp} /\ s.ipv6 \in {NoIp, pinnedIp}
  BY <1>6, <1>7
<1>10. pinnedIp = NoIp /\ HasAddress(s) => OfOneInterface(s)
  <2> SUFFICES ASSUME pinnedIp = NoIp PROVE OfOneInterface(s)
    OBVIOUS
  <2>1. PICK o \in OsStates \ {Unreadable} : list = InterfaceAddresses(o.addresses)
    BY DEF Lists
  <2>2. \A f \in usable : f \in list /\ f.name = name
    BY DEF usable, own
  <2>3. \A ip \in {s.ipv4, s.ipv6} \ {NoIp} : \E f \in list : f.name = name /\ f.address = ip
    BY <1>7, <2>2
  <2> QED BY <2>1, <2>3 DEF OfOneInterface
<1> QED BY <1>1, <1>8, <1>9, <1>10 DEF Proper

\* A host without a usable interface has a proper, empty selection.
LEMMA EmptyProper == Proper(EmptySelection)
  BY DEF Proper, EmptySelection, EgressSelections, HasAddress

\* A configured outbound IP is the selection that is proper for it.
LEMMA PinnedProper ==
  ASSUME pinnedIp \in PinnedChoices, pinnedIp # NoIp
  PROVE  Proper(PinnedWithoutInterface(pinnedIp))
  BY DEF Proper, PinnedWithoutInterface, EmptySelection, EgressSelections, Addresses

\* Whatever the system reports, detection ends in a proper selection.
LEMMA DetectionProper ==
  ASSUME NEW list \in Lists, NEW preferred, pinnedIp \in PinnedChoices
  PROVE  Proper(DetectEgressFromAddresses(list, pinnedIp, preferred))
<1>0. \A f \in list : f.place \in Nat /\ f.name \in DOMAIN Kind /\ f.name # NoIp
  BY FilteredLists
<1>1. CASE pinnedIp # NoIp
  <2> DEFINE found == {e \in list : e.address = pinnedIp}
  <2>1. CASE found = {}
    BY <1>1, <2>1, EmptyProper DEF DetectEgressFromAddresses
  <2>2. CASE found # {}
    <3>1. First(found) \in list
      BY <2>2, <1>0, FirstInList
    <3>2. DetectEgressFromAddresses(list, pinnedIp, preferred)
            = SelectionForInterface(list, First(found).name, pinnedIp)
      BY <1>1, <2>2 DEF DetectEgressFromAddresses
    <3> QED BY <3>1, <3>2, <1>1, InterfaceProper
  <2> QED BY <2>1, <2>2
<1>2. CASE pinnedIp = NoIp
  <2> DEFINE best == BestInterface(list, preferred)
  <2>1. CASE best = NoIp
    BY <1>2, <2>1, EmptyProper DEF DetectEgressFromAddresses
  <2>2. CASE best # NoIp
    <3> DEFINE physical == {e \in list : ~IsVirtualInterface(e.name)}
               top      == {e \in physical : \A f \in physical :
                               InterfaceScore(f.name, preferred) <= InterfaceScore(e.name, preferred)}
    <3>1. top # {} /\ best = Latest(top).name
      BY <2>2 DEF BestInterface
    <3>2. IsFiniteSet(top) /\ top \subseteq physical /\ \A f \in top : f.place \in Nat
      BY <1>0, FS_Subset, FilteredLists
    <3>3. Latest(top) \in physical
      <4> HIDE DEF top
      <4> QED BY <3>1, <3>2, LatestInList
    <3>4. DetectEgressFromAddresses(list, pinnedIp, preferred)
            = SelectionForInterface(list, Latest(top).name, pinnedIp)
      BY <1>2, <2>2, <3>1 DEF DetectEgressFromAddresses
    <3> QED BY <3>3, <3>4, InterfaceProper
  <2> QED BY <2>1, <2>2
<1> QED BY <1>1, <1>2

-----------------------------------------------------------------------------
MonInv ==
    /\ os \in OsStates /\ pinnedIp \in PinnedChoices
    /\ monGeneration \in Nat /\ Proper(monSelection)
    /\ detected \in [Callers -> Lists \cup {Unreadable}]
    /\ snap \in [Callers -> [selection : EgressSelections, generation : Nat]]
    /\ \A c \in Callers : Proper(snap[c].selection)

\* NetworkMonitor::new selects properly or not at all.
LEMMA MonInitial == MonInit => MonInv
<1> SUFFICES ASSUME MonInit PROVE MonInv
  OBVIOUS
<1>1. os \in OsStates /\ pinnedIp \in PinnedChoices /\ monGeneration \in Nat
  BY DEF MonInit
<1>2. Proper(monSelection)
  <2>1. CASE os = Unreadable
    BY <1>1, <2>1, EmptyProper, PinnedProper DEF MonInit, DetectedAtStart
  <2>2. CASE os # Unreadable
    <3>1. InterfaceAddresses(os.addresses) \in Lists
      BY <1>1, <2>2 DEF Lists
    <3> QED BY <1>1, <2>2, <3>1, DetectionProper DEF MonInit, DetectedAtStart
  <2> QED BY <2>1, <2>2
<1>3. {} \in Lists
  BY DEF Lists
<1>4. EmptySelection \in EgressSelections
  BY EmptyProper DEF Proper
<1> QED BY <1>1, <1>2, <1>3, <1>4, EmptyProper DEF MonInit, MonInv

\* What the steps do to the selection, the generation and the snapshots.
LEMMA MonEffect ==
  ASSUME MonInv, [MonNext]_monVars
  PROVE  /\ MonInv'
         /\ Proper(monSelection)'
         /\ \/ UNCHANGED <<monSelection, monGeneration>>
            \/ monSelection' # monSelection /\ monGeneration' = monGeneration + 1
<1>a. {} \in Lists
  BY DEF Lists
<1>0. ASSUME UNCHANGED <<pinnedIp, monSelection, monGeneration>>, os' \in OsStates,
             detected' \in [Callers -> Lists \cup {Unreadable}],
             snap' = snap \/ \E c \in Callers : snap' = [snap EXCEPT ![c] = Snapshot]
      PROVE  MonInv' /\ Proper(monSelection)'
  <2>1. \A s : Proper(s) => Proper(s)'
    BY <1>0 DEF Proper, HasAddress, OfOneInterface, IsVirtualInterface,
                        InterfaceAddresses, IsUsableAddress
  <2>2. Snapshot \in [selection : EgressSelections, generation : Nat] /\ Proper(Snapshot.selection)
    BY DEF Snapshot, MonInv, Proper
  <2>3. /\ snap' \in [Callers -> [selection : EgressSelections, generation : Nat]]
        /\ \A c \in Callers : Proper(snap'[c].selection)
    <3>1. CASE snap' = snap
      BY <3>1 DEF MonInv
    <3>2. ASSUME NEW c \in Callers, snap' = [snap EXCEPT ![c] = Snapshot]
          PROVE  /\ snap' \in [Callers -> [selection : EgressSelections, generation : Nat]]
                 /\ \A d \in Callers : Proper(snap'[d].selection)
      <4>1. \A d \in Callers : snap'[d] = IF d = c THEN Snapshot ELSE snap[d]
        BY <3>2 DEF MonInv
      <4>2. snap' \in [Callers -> [selection : EgressSelections, generation : Nat]]
        BY <3>2, <2>2 DEF MonInv
      <4>3. \A d \in Callers : Proper(snap'[d].selection)
        BY <4>1, <2>2 DEF MonInv
      <4> QED BY <4>2, <4>3
    <3> QED BY <1>0, <3>1, <3>2
  <2>4. \A c \in Callers : Proper(snap[c].selection)'
    BY <1>0, <2>3 DEF Proper, HasAddress, OfOneInterface, IsVirtualInterface,
                        InterfaceAddresses, IsUsableAddress
  <2>5. Proper(monSelection)'
    BY <1>0 DEF MonInv, Proper, HasAddress, OfOneInterface, IsVirtualInterface,
                 InterfaceAddresses, IsUsableAddress
  <2> QED BY <1>0, <2>3, <2>4, <2>5 DEF MonInv
<1>1. CASE UNCHANGED monVars
  BY <1>0, <1>1 DEF monVars, MonInv
<1>2. ASSUME NEW c \in Callers, AskSnapshot(c) \/ StartDetection(c) \/ LookUpRoute(c)
      PROVE  MonInv' /\ Proper(monSelection)' /\ UNCHANGED <<monSelection, monGeneration>>
  BY <1>0, <1>2 DEF AskSnapshot, StartDetection, LookUpRoute, MonInv
<1>3. ASSUME NEW c \in Callers, ReturnCurrent(c)
      PROVE  MonInv' /\ Proper(monSelection)' /\ UNCHANGED <<monSelection, monGeneration>>
  BY <1>0, <1>3 DEF ReturnCurrent, MonInv
<1>4. ASSUME NEW c \in Callers, ReadAddresses(c)
      PROVE  MonInv' /\ Proper(monSelection)' /\ UNCHANGED <<monSelection, monGeneration>>
  <2>1. UNCHANGED <<os, pinnedIp, monSelection, monGeneration, snap>>
    BY <1>4 DEF ReadAddresses
  <2>2. (IF os = Unreadable THEN Unreadable ELSE InterfaceAddresses(os.addresses))
           \in Lists \cup {Unreadable}
    BY DEF MonInv, Lists
  <2>3. detected' \in [Callers -> Lists \cup {Unreadable}]
    BY <1>4, <2>2 DEF ReadAddresses, MonInv
  <2> QED BY <1>0, <2>1, <2>3 DEF MonInv
<1>5. ASSUME NEW c \in Callers, FinishDetection(c)
      PROVE  /\ MonInv' /\ Proper(monSelection)'
             /\ \/ UNCHANGED <<monSelection, monGeneration>>
                \/ monSelection' # monSelection /\ monGeneration' = monGeneration + 1
  <2> DEFINE selection == IF detected[c] = Unreadable
                          THEN IF pinnedIp # NoIp THEN PinnedWithoutInterface(pinnedIp)
                                                  ELSE monSelection
                          ELSE DetectEgressFromAddresses(detected[c], pinnedIp, monRoute.interface)
  <2>1. /\ monSelection' = selection /\ monGeneration' = UpdatedGeneration(selection)
        /\ snap' = [snap EXCEPT ![c] = [selection |-> selection,
                                        generation |-> UpdatedGeneration(selection)]]
        /\ detected' = [detected EXCEPT ![c] = {}] /\ UNCHANGED <<os, pinnedIp>>
    BY <1>5 DEF FinishDetection
  <2>2. Proper(selection)
    <3>1. detected[c] \in Lists \cup {Unreadable} /\ pinnedIp \in PinnedChoices
      BY DEF MonInv
    <3>2. CASE detected[c] = Unreadable
      BY <3>1, <3>2, PinnedProper DEF MonInv
    <3>3. CASE detected[c] # Unreadable
      <4>1. detected[c] \in Lists
        BY <3>1, <3>3
      <4> QED BY <3>1, <3>3, <4>1, DetectionProper
    <3> QED BY <3>2, <3>3
  <2> HIDE DEF selection
  <2>3. /\ UpdatedGeneration(selection) \in Nat
        /\ \/ UNCHANGED <<monSelection, monGeneration>>
           \/ monSelection' # monSelection /\ monGeneration' = monGeneration + 1
    BY <2>1 DEF UpdatedGeneration, MonInv
  <2>4. detected' \in [Callers -> Lists \cup {Unreadable}]
    BY <2>1, <1>a DEF MonInv
  <2>5. [selection |-> selection, generation |-> UpdatedGeneration(selection)]
           \in [selection : EgressSelections, generation : Nat]
    BY <2>2, <2>3 DEF Proper
  <2>6. snap' \in [Callers -> [selection : EgressSelections, generation : Nat]]
    BY <2>1, <2>5 DEF MonInv
  <2>7. \A d \in Callers : Proper(snap'[d].selection)
    <3> TAKE d \in Callers
    <3>1. CASE d = c
      BY <3>1, <2>1, <2>2 DEF MonInv
    <3>2. CASE d # c
      BY <3>2, <2>1 DEF MonInv
    <3> QED BY <3>1, <3>2
  <2>8. Proper(monSelection)' /\ \A d \in Callers : Proper(snap[d].selection)'
    BY <2>1, <2>2, <2>7 DEF Proper, HasAddress, OfOneInterface, IsVirtualInterface,
                        InterfaceAddresses, IsUsableAddress
  <2>9. MonInv'
    BY <2>1, <2>3, <2>4, <2>6, <2>8 DEF MonInv
  <2> QED BY <2>3, <2>8, <2>9
<1>6. ASSUME NEW c \in Callers, CancelSnapshot(c)
      PROVE  MonInv' /\ Proper(monSelection)' /\ UNCHANGED <<monSelection, monGeneration>>
  <2>1. /\ UNCHANGED <<os, pinnedIp, monSelection, monGeneration, snap>>
        /\ detected' \in [Callers -> Lists \cup {Unreadable}]
    BY <1>6, <1>a DEF CancelSnapshot, MonInv
  <2> QED BY <1>0, <2>1 DEF MonInv
<1>b. ASSUME NEW c \in Callers, DetectionPanics(c)
      PROVE  MonInv' /\ Proper(monSelection)' /\ UNCHANGED <<monSelection, monGeneration>>
  <2>1. /\ UNCHANGED <<os, pinnedIp, monSelection, monGeneration>>
        /\ detected' \in [Callers -> Lists \cup {Unreadable}]
        /\ snap' = [snap EXCEPT ![c] = Snapshot]
    BY <1>b, <1>a DEF DetectionPanics, MonInv
  <2> QED BY <1>0, <2>1 DEF MonInv
<1>7. CASE Age \/ AgeRoute \/ OsChange
  BY <1>0, <1>7 DEF Age, AgeRoute, OsChange, MonInv
<1>8. MonInv' /\ Proper(monSelection)'
  BY <1>1, <1>2, <1>3, <1>4, <1>5, <1>6, <1>b, <1>7 DEF MonNext
<1>9. \/ UNCHANGED <<monSelection, monGeneration>>
      \/ monSelection' # monSelection /\ monGeneration' = monGeneration + 1
  <2>1. CASE \E c \in Callers : FinishDetection(c)
    BY <2>1, <1>5
  <2>2. CASE ~\E c \in Callers : FinishDetection(c)
    BY <2>2 DEF MonNext, monVars, AskSnapshot, StartDetection, LookUpRoute, ReturnCurrent,
                ReadAddresses, DetectionPanics, CancelSnapshot, Age, AgeRoute, OsChange
  <2> QED BY <2>1, <2>2
<1> QED BY <1>8, <1>9

(***************************************************************************)
(* The network monitor implements Egress: its generation moves exactly     *)
(* when its selection does, whichever callers are queued, dropped in the   *)
(* middle of a detection or served from a recent state (network.rs,        *)
(* snapshot and MonitorState::update).                                     *)
(***************************************************************************)
THEOREM MonitorIsEgress == MonSpec => MonitorImplementsEgress
<1>1. MonInit => E!NetInit
  BY MonInitial DEF MonInit, MonInv, Proper, EgressSelections, E!NetInit
<1>2. MonInv /\ [MonNext]_monVars => [E!NetChange]_E!netVars
  BY MonEffect DEF Proper, EgressSelections, E!NetChange, E!netVars
<1>3. MonInv /\ [MonNext]_monVars => MonInv'
  BY MonEffect
<1> QED BY <1>1, <1>2, <1>3, MonInitial, PTL DEF MonSpec, MonitorImplementsEgress, E!NetSpec

(***************************************************************************)
(* A configured outbound IP is the only source any snapshot leads to, or   *)
(* the bind is refused, and without one nothing is refused and the sources *)
(* of a snapshot were the addresses of one real interface at one time      *)
(* (network.rs, detect_egress_from_addresses, bind_tcp, bind_udp_socket).  *)
(***************************************************************************)
THEOREM SourcesAreConfigured == MonSpec => []SourceAsConfigured
<1>1. ASSUME MonInv PROVE SourceAsConfigured
  <2> SUFFICES ASSUME NEW c \in Callers, NEW v6 \in BOOLEAN
               PROVE  LET s == snap[c]
                      IN  s.generation > 0 =>
            /\ BindUdp(s, v6) = BindTcp(s, v6)
            /\ pinnedIp # NoIp =>
                 /\ BindTcp(s, v6) \in {pinnedIp, "refused"}
                 /\ Supports(s, v6) <=> BindTcp(s, v6) # "refused"
            /\ pinnedIp = NoIp =>
                 /\ BindTcp(s, v6) # "refused"
                 /\ HasAddress(s.selection) => OfOneInterface(s.selection)
    BY DEF SourceAsConfigured
  <2> DEFINE s == snap[c]
             source == SourceFor(s, v6)
  <2>1. Proper(s.selection)
    BY <1>1 DEF MonInv
  <2>2. /\ source = NoIp \/ source \in Addresses
        /\ pinnedIp # NoIp => source \in {NoIp, pinnedIp}
    BY <2>1 DEF Proper, EgressSelections, SourceFor
  <2>3. source # NoIp => source # "refused" /\ source # "any"
    BY <2>2, MonAssumption
  <2>4. BindTcp(s, v6) = IF source # NoIp THEN source ELSE IF pinnedIp # NoIp THEN "refused" ELSE "any"
    BY DEF BindTcp
  <2>5. BindUdp(s, v6) = BindTcp(s, v6)
    BY <2>4 DEF BindUdp
  <2>6. pinnedIp # NoIp => /\ BindTcp(s, v6) \in {pinnedIp, "refused"}
                           /\ Supports(s, v6) <=> BindTcp(s, v6) # "refused"
    BY <2>2, <2>3, <2>4 DEF Supports
  <2>7. pinnedIp = NoIp =>
                 /\ BindTcp(s, v6) # "refused"
                 /\ HasAddress(s.selection) => OfOneInterface(s.selection)
    BY <2>1, <2>3, <2>4 DEF Proper
  <2> QED BY <2>5, <2>6, <2>7
<1>2. MonInv /\ [MonNext]_monVars => MonInv'
  BY MonEffect
<1> QED BY <1>1, <1>2, MonInitial, PTL DEF MonSpec

-----------------------------------------------------------------------------
(***************************************************************************)
(* The provider.                                                           *)
(***************************************************************************)
Documents == [account : Accounts \cup {None}, allow : BOOLEAN, fetch : Nat]
Infos     == [account : Accounts \cup {None}, fetch : Nat]
Places    == {"idle", "refreshing", "reading", "heading", "rendering", "answered"}
Stages    == {"rest", "fetching", "replaced"}
JobKinds  == {"none", "reload", "refresh", "forced"}

GwTypes ==
    /\ gwRouter \in Documents /\ gwSub \in Infos /\ jobs \in Nat
    /\ gwJob \in [stage : Stages, kind : JobKinds, for : Reqs \cup {None},
                  account : Accounts \cup {None}, allow : BOOLEAN]

ReqTypes ==
    /\ req \in [Reqs -> Requests \cup {NoRequest}]
    /\ reqPc \in [Reqs -> Places]
    /\ reqDoc \in [Reqs -> Documents]
    /\ reqHead \in [Reqs -> Infos]
    /\ reqStatus \in [Reqs -> {0, 200, 403, 503}]
    /\ asked \in [Reqs -> Nat]
    /\ docStage \in [Reqs -> Stages]

\* The gate is held by the request that waits for its refresh, and the job
\* answers that one only, which came before the job began.
GateHeld ==
    /\ \A r \in Reqs : reqPc[r] = "refreshing" => refreshGate = r
    /\ gwJob.for # None => /\ reqPc[gwJob.for] = "refreshing"
                           /\ asked[gwJob.for] < jobs
    /\ gwJob.stage = "rest" => gwJob.for = None

\* Only between the two updates of a job is the metadata not of the fetch the
\* router is of.
UpdatedInOrder ==
    /\ gwRouter.fetch <= jobs
    /\ gwJob.stage = "replaced" => gwRouter.fetch = jobs
    /\ gwJob.stage # "replaced" => gwSub = NoInfo \/ gwSub.fetch = gwRouter.fetch

\* What a request has gathered where it is.
Gathered(r) ==
    /\ reqPc[r] \in {"idle", "refreshing", "reading"} => reqDoc[r] = NoDoc
    /\ reqPc[r] # "answered" => reqHead[r] = NoInfo /\ reqStatus[r] = 0
    /\ req[r].path = "raw" /\ reqDoc[r] # NoDoc =>
          RawPeerAllowed(req[r].local, reqDoc[r].allow)

\* A refreshed request finds, and has read, what was fetched after it came;
\* and a document read between jobs finds no older metadata.
NotStale(r) ==
    /\ asked[r] <= jobs /\ reqDoc[r].fetch <= jobs
    /\ req[r].refresh /\ reqPc[r] \in {"reading", "heading"} =>
          /\ asked[r] < gwRouter.fetch
          /\ gwSub # NoInfo => asked[r] < gwSub.fetch
    /\ req[r].refresh /\ (reqPc[r] \in {"heading", "rendering"} \/ reqStatus[r] = 200) =>
          asked[r] < reqDoc[r].fetch
    /\ reqPc[r] = "heading" /\ docStage[r] # "replaced" /\ gwSub # NoInfo =>
          reqDoc[r].fetch <= gwSub.fetch
    /\ reqHead[r] # NoInfo =>
          /\ req[r].refresh => asked[r] < reqHead[r].fetch
          /\ docStage[r] # "replaced" => reqDoc[r].fetch <= reqHead[r].fetch

ProvInv ==
    /\ GwTypes /\ ReqTypes /\ GateHeld /\ UpdatedInOrder
    /\ \A r \in Reqs : Gathered(r) /\ NotStale(r)

\* The fields of a request, by name, and the empty records.
LEMMA RequestFields ==
  /\ \A q \in Requests \cup {NoRequest} :
        q.path \in {"none", "surge", "clash", "raw"} /\ q.refresh \in BOOLEAN /\ q.local \in BOOLEAN
  /\ NoRequest.path = "none" /\ NoRequest.refresh = FALSE
  /\ NoDoc \in Documents /\ NoDoc.fetch = 0
  /\ NoInfo \in Infos
<1>1. \A q \in Requests : /\ q.path \in {"surge", "clash", "raw"} /\ q.refresh \in BOOLEAN
                          /\ q.local \in BOOLEAN
  BY ProvAssumption
<1>2. NoRequest.path = "none" /\ NoRequest.refresh = FALSE /\ NoRequest.local \in BOOLEAN
  BY DEF NoRequest
<1>3. NoDoc \in Documents /\ NoDoc.fetch = 0 /\ NoInfo \in Infos
  BY DEF NoDoc, Documents, NoInfo, Infos
<1> QED BY <1>1, <1>2, <1>3

\* Before the first request nothing is gathered and the gate is open.
LEMMA ProvInitial == ProvInit => ProvInv
<1> SUFFICES ASSUME ProvInit PROVE ProvInv
  OBVIOUS
<1>1. PICK a \in Accounts, allow \in BOOLEAN :
          gwRouter = [account |-> a, allow |-> allow, fetch |-> 0]
  BY DEF ProvInit
<1>2. gwRouter \in Documents /\ gwRouter.fetch = 0 /\ gwRouter.account \in Accounts
  BY <1>1 DEF Documents
<1>3. gwSub \in Infos /\ gwSub.fetch = 0
  BY <1>2 DEF ProvInit, Infos, NoInfo
<1>4. GwTypes /\ UpdatedInOrder
  BY <1>2, <1>3 DEF ProvInit, GwTypes, UpdatedInOrder, AtRest, Stages, JobKinds
<1>5. ReqTypes
  BY RequestFields DEF ProvInit, ReqTypes, Places, Stages
<1>6. GateHeld
  BY DEF ProvInit, GateHeld, AtRest
<1>7. \A r \in Reqs : Gathered(r) /\ NotStale(r)
  BY RequestFields DEF ProvInit, Gathered, NotStale
<1> QED BY <1>4, <1>5, <1>6, <1>7 DEF ProvInv

\* The effect of an answer on the requests.
LEMMA Answered ==
  ASSUME ReqTypes, NEW r \in Reqs, NEW status \in {200, 403, 503}, Answer(r, status)
  PROVE  /\ reqPc' \in [Reqs -> Places]
         /\ reqStatus' \in [Reqs -> {0, 200, 403, 503}]
         /\ reqPc'[r] = "answered" /\ reqStatus'[r] = status
         /\ \A t \in Reqs \ {r} : reqPc'[t] = reqPc[t] /\ reqStatus'[t] = reqStatus[t]
  BY DEF ReqTypes, Answer, Places

\* A step that leaves a request as it is.
Kept(t) ==
    /\ req'[t] = req[t] /\ reqPc'[t] = reqPc[t] /\ reqDoc'[t] = reqDoc[t]
    /\ reqHead'[t] = reqHead[t] /\ reqStatus'[t] = reqStatus[t]
    /\ asked'[t] = asked[t] /\ docStage'[t] = docStage[t]

\* A step that only lets the manager go forward: metadata is dropped, or is of
\* the last job.
Forward ==
    /\ jobs' \in Nat /\ jobs <= jobs'
    /\ gwRouter'.fetch \in Nat /\ gwRouter.fetch <= gwRouter'.fetch
    /\ \/ gwSub' = gwSub
       \/ gwSub' = NoInfo
       \/ gwSub'.fetch = jobs

\* Such a step keeps what is known of a request.
LEMMA RequestKept ==
  ASSUME ProvInv, Forward, NEW t \in Reqs, Kept(t)
  PROVE  Gathered(t)' /\ NotStale(t)'
<1>1. Gathered(t) /\ NotStale(t)
  BY DEF ProvInv
<1>2. Gathered(t)'
  BY <1>1 DEF Gathered, RawPeerAllowed, Kept
<1>3. /\ jobs \in Nat /\ asked[t] \in Nat /\ reqDoc[t].fetch \in Nat /\ reqHead[t].fetch \in Nat
      /\ gwRouter.fetch \in Nat /\ gwRouter.fetch <= jobs /\ gwSub.fetch \in Nat
  BY DEF ProvInv, GwTypes, ReqTypes, UpdatedInOrder, Documents, Infos
<1>4. asked'[t] <= jobs' /\ reqDoc'[t].fetch <= jobs'
  BY <1>1, <1>3 DEF NotStale, Kept, Forward
<1>5. req'[t].refresh /\ reqPc'[t] \in {"reading", "heading"} =>
          /\ asked'[t] < gwRouter'.fetch
          /\ gwSub' # NoInfo => asked'[t] < gwSub'.fetch
  BY <1>1, <1>3 DEF NotStale, Kept, Forward
<1>6. req'[t].refresh /\ (reqPc'[t] \in {"heading", "rendering"} \/ reqStatus'[t] = 200) =>
          asked'[t] < reqDoc'[t].fetch
  BY <1>1 DEF NotStale, Kept
<1>7. reqPc'[t] = "heading" /\ docStage'[t] # "replaced" /\ gwSub' # NoInfo =>
          reqDoc'[t].fetch <= gwSub'.fetch
  BY <1>1, <1>3 DEF NotStale, Kept, Forward
<1>8. reqHead'[t] # NoInfo =>
          /\ req'[t].refresh => asked'[t] < reqHead'[t].fetch
          /\ docStage'[t] # "replaced" => reqDoc'[t].fetch <= reqHead'[t].fetch
  BY <1>1 DEF NotStale, Kept
<1> QED BY <1>2, <1>4, <1>5, <1>6, <1>7, <1>8 DEF NotStale

-----------------------------------------------------------------------------
\* A job begins: its number is above those of all fetches and requests.
LEMMA BeginStep ==
  ASSUME ProvInv, NEW kind \in JobKinds, NEW for \in Reqs \cup {None},
         NEW account \in Accounts \cup {None}, NEW allow \in BOOLEAN,
         for # None => reqPc[for] = "refreshing",
         BeginJob(kind, for, account, allow)
  PROVE  ProvInv'
<1>0. /\ gwJob.stage = "rest" /\ jobs' = jobs + 1
      /\ gwJob' = [stage |-> "fetching", kind |-> kind, for |-> for, account |-> account,
                   allow |-> allow]
      /\ UNCHANGED <<gwRouter, gwSub, refreshGate, req, reqPc, reqDoc, reqHead, reqStatus,
                     asked, docStage>>
  BY DEF BeginJob, reqVars
<1>1. jobs \in Nat /\ gwRouter.fetch \in Nat /\ gwRouter.fetch <= jobs
  BY DEF ProvInv, GwTypes, Documents, UpdatedInOrder
<1>2. GwTypes' /\ ReqTypes'
  BY <1>0, <1>1 DEF ProvInv, GwTypes, ReqTypes, Stages
<1>3. UpdatedInOrder'
  BY <1>0, <1>1 DEF ProvInv, UpdatedInOrder
<1>4. GateHeld'
  <2>1. for # None => asked[for] \in Nat /\ asked[for] <= jobs
    BY DEF ProvInv, ReqTypes, NotStale
  <2>2. for # None => asked'[for] < jobs'
    BY <2>1, <1>0, <1>1
  <2> QED BY <2>2, <1>0 DEF ProvInv, GateHeld
<1>5. ASSUME NEW t \in Reqs PROVE Gathered(t)' /\ NotStale(t)'
  <2>1. Forward /\ Kept(t)
    BY <1>0, <1>1 DEF Forward, Kept
  <2> QED BY <2>1, RequestKept
<1> QED BY <1>2, <1>3, <1>4, <1>5 DEF ProvInv

\* A reload without a fetch changes what the router allows, and nothing else.
LEMMA KeptStep ==
  ASSUME ProvInv, NEW allow \in BOOLEAN, ReloadKept(allow)
  PROVE  ProvInv'
<1>0. /\ gwJob.stage = "rest" /\ jobs' = jobs + 1
      /\ gwRouter' = [gwRouter EXCEPT !.allow = allow]
      /\ UNCHANGED <<gwSub, gwJob, refreshGate, req, reqPc, reqDoc, reqHead, reqStatus,
                     asked, docStage>>
  BY DEF ReloadKept, reqVars
<1>1. /\ jobs \in Nat /\ gwRouter.fetch \in Nat /\ gwRouter.fetch <= jobs
      /\ gwRouter' \in Documents /\ gwRouter'.fetch = gwRouter.fetch
  BY <1>0 DEF ProvInv, GwTypes, Documents, UpdatedInOrder
<1>2. GwTypes' /\ ReqTypes'
  BY <1>0, <1>1 DEF ProvInv, GwTypes, ReqTypes
<1>3. UpdatedInOrder'
  BY <1>0, <1>1 DEF ProvInv, UpdatedInOrder
<1>4. GateHeld'
  BY <1>0 DEF ProvInv, GateHeld
<1>5. ASSUME NEW t \in Reqs PROVE Gathered(t)' /\ NotStale(t)'
  <2>1. Forward /\ Kept(t)
    BY <1>0, <1>1 DEF Forward, Kept
  <2> QED BY <2>1, RequestKept
<1> QED BY <1>2, <1>3, <1>4, <1>5 DEF ProvInv

\* The router that is installed is of the newest fetch.
LEMMA InstallStep ==
  ASSUME ProvInv, Install
  PROVE  ProvInv'
<1>0. /\ gwJob.stage = "fetching" /\ gwJob' = [gwJob EXCEPT !.stage = "replaced"]
      /\ gwRouter' = [account |-> gwJob.account, allow |-> gwJob.allow, fetch |-> jobs]
      /\ UNCHANGED <<gwSub, jobs, refreshGate, req, reqPc, reqDoc, reqHead, reqStatus,
                     asked, docStage>>
  BY DEF Install, reqVars
<1>1. /\ jobs \in Nat /\ gwRouter.fetch \in Nat /\ gwRouter.fetch <= jobs
      /\ gwRouter' \in Documents /\ gwRouter'.fetch = jobs
  BY <1>0 DEF ProvInv, GwTypes, Documents, UpdatedInOrder
<1>2. /\ GwTypes' /\ ReqTypes'
      /\ gwJob'.stage = "replaced" /\ gwJob'.for = gwJob.for
  BY <1>0, <1>1 DEF ProvInv, GwTypes, ReqTypes, Stages
<1>3. UpdatedInOrder'
  BY <1>0, <1>1, <1>2 DEF UpdatedInOrder
<1>4. GateHeld'
  BY <1>0, <1>2 DEF ProvInv, GateHeld
<1>5. ASSUME NEW t \in Reqs PROVE Gathered(t)' /\ NotStale(t)'
  <2>1. Forward /\ Kept(t)
    BY <1>0, <1>1 DEF Forward, Kept
  <2> QED BY <2>1, RequestKept
<1> QED BY <1>2, <1>3, <1>4, <1>5 DEF ProvInv

\* A job ends and its requester, if it still waits, is told: with success only
\* when router and metadata are of the job's own fetch.
LEMMA EndStep ==
  ASSUME ProvInv, NEW ok \in BOOLEAN, Reply(ok), gwJob.stage # "rest", gwJob' = AtRest,
         UNCHANGED <<gwRouter, jobs, req, reqDoc, reqHead, asked, docStage>>,
         gwSub' \in Infos, gwSub' = NoInfo \/ gwSub'.fetch = gwRouter.fetch, Forward,
         ok => gwRouter.fetch = jobs
  PROVE  ProvInv'
<1>0. gwJob.for \in Reqs \cup {None} /\ ReqTypes
  BY DEF ProvInv, GwTypes
<1>1. GwTypes' /\ UpdatedInOrder'
  BY DEF ProvInv, GwTypes, UpdatedInOrder, AtRest, Stages, JobKinds
<1>2. CASE gwJob.for = None
  <2>1. UNCHANGED <<refreshGate, reqPc, reqStatus>>
    BY <1>2 DEF Reply
  <2>2. ReqTypes'
    BY <2>1, <1>0 DEF ReqTypes
  <2>3. GateHeld'
    BY <2>1 DEF ProvInv, GateHeld, AtRest
  <2>4. ASSUME NEW t \in Reqs PROVE Gathered(t)' /\ NotStale(t)'
    <3>1. Kept(t)
      BY <2>1 DEF Kept
    <3> QED BY <3>1, RequestKept
  <2> QED BY <1>1, <2>2, <2>3, <2>4 DEF ProvInv
<1>3. CASE gwJob.for # None
  <2>0. PICK r \in Reqs : r = gwJob.for
    BY <1>0, <1>3
  <2>1. r \in Reqs /\ reqPc[r] = "refreshing" /\ asked[r] < jobs /\ Gathered(r) /\ NotStale(r)
    BY <2>0, <1>3 DEF ProvInv, GateHeld
  <2>2. /\ reqPc' = [reqPc EXCEPT ![r] = IF ok THEN "reading" ELSE "answered"]
        /\ reqStatus' = [reqStatus EXCEPT ![r] = IF ok THEN @ ELSE 503]
        /\ refreshGate' = None
    BY <2>0, <1>3 DEF Reply
  <2>3. /\ reqPc' \in [Reqs -> Places] /\ reqStatus' \in [Reqs -> {0, 200, 403, 503}]
        /\ reqPc'[r] = IF ok THEN "reading" ELSE "answered"
        /\ reqStatus'[r] = IF ok THEN reqStatus[r] ELSE 503
        /\ \A t \in Reqs \ {r} : reqPc'[t] = reqPc[t] /\ reqStatus'[t] = reqStatus[t]
    BY <2>1, <2>2, <1>0 DEF ReqTypes, Places
  <2>4. ReqTypes'
    BY <2>3, <1>0 DEF ReqTypes
  <2>5. GateHeld'
    <3>1. \A t \in Reqs \ {r} : reqPc[t] # "refreshing"
      BY <2>1 DEF ProvInv, GateHeld
    <3> QED BY <3>1, <2>1, <2>3 DEF GateHeld, AtRest
  <2>6. reqDoc[r] = NoDoc /\ reqHead[r] = NoInfo /\ reqStatus[r] = 0
    BY <2>1 DEF Gathered
  <2>7. Gathered(r)'
    BY <2>3, <2>6 DEF Gathered
  <2>8. NotStale(r)'
    <3>1. jobs \in Nat /\ asked[r] \in Nat /\ NoDoc.fetch = 0
      BY <2>1, RequestFields DEF ProvInv, GwTypes, ReqTypes
    <3>2. reqPc'[r] \in {"reading", "heading"} => ok
      BY <2>3
    <3>3. reqPc'[r] \notin {"heading", "rendering"} /\ reqStatus'[r] # 200
      BY <2>3, <2>6
    <3>4. asked'[r] = asked[r] /\ reqDoc'[r] = NoDoc /\ reqHead'[r] = NoInfo
      BY <2>6
    <3>5. ok => asked[r] < gwRouter'.fetch /\ (gwSub' # NoInfo => asked[r] < gwSub'.fetch)
      BY <2>1, <3>1
    <3> QED BY <2>1, <3>1, <3>2, <3>3, <3>4, <3>5 DEF NotStale
  <2>9. ASSUME NEW t \in Reqs \ {r} PROVE Gathered(t)' /\ NotStale(t)'
    <3>1. Kept(t)
      BY <2>3 DEF Kept
    <3> QED BY <3>1, RequestKept
  <2> QED BY <1>1, <2>4, <2>5, <2>7, <2>8, <2>9 DEF ProvInv
<1> QED BY <1>2, <1>3

\* A job that sets the metadata ends with one fetch in place.
LEMMA FinishStep ==
  ASSUME ProvInv, NEW info \in BOOLEAN, FinishJob(info)
  PROVE  ProvInv'
<1>1. /\ gwJob.stage = "replaced" /\ gwJob' = AtRest /\ Reply(TRUE)
      /\ UNCHANGED <<gwRouter, jobs, req, reqDoc, reqHead, asked, docStage>>
      /\ gwSub' = IF info THEN [account |-> gwJob.account, fetch |-> jobs] ELSE NoInfo
  BY DEF FinishJob, UpdateSubscription
<1>2. jobs \in Nat /\ gwRouter.fetch = jobs /\ gwJob.account \in Accounts \cup {None}
  BY <1>1 DEF ProvInv, GwTypes, UpdatedInOrder
<1>3. gwSub' \in Infos /\ (gwSub' = NoInfo \/ gwSub'.fetch = jobs)
  BY <1>1, <1>2, RequestFields DEF Infos
<1>4. Forward
  BY <1>1, <1>2, <1>3 DEF Forward
<1> QED BY <1>1, <1>2, <1>3, <1>4, EndStep

\* A job that fails keeps the router, and clears the metadata if it was denied.
LEMMA FailStep ==
  ASSUME ProvInv, NEW denied \in BOOLEAN, FetchFails(denied)
  PROVE  ProvInv'
<1>1. /\ gwJob.stage = "fetching" /\ gwJob' = AtRest /\ Reply(FALSE)
      /\ UNCHANGED <<gwRouter, jobs, req, reqDoc, reqHead, asked, docStage>>
      /\ gwSub' = NoInfo \/ gwSub' = gwSub
  BY DEF FetchFails
<1>2. /\ jobs \in Nat /\ gwRouter.fetch \in Nat /\ gwSub \in Infos
      /\ gwSub = NoInfo \/ gwSub.fetch = gwRouter.fetch
  BY <1>1 DEF ProvInv, GwTypes, Documents, UpdatedInOrder
<1>3. gwSub' \in Infos /\ (gwSub' = NoInfo \/ gwSub'.fetch = gwRouter.fetch)
  BY <1>1, <1>2, RequestFields
<1>4. Forward
  BY <1>1, <1>2 DEF Forward
<1> QED BY <1>1, <1>3, <1>4, EndStep

-----------------------------------------------------------------------------
\* A request that arrives has read nothing yet.
LEMMA AskStep ==
  ASSUME ProvInv, NEW r \in Reqs, NEW q \in Requests, NEW full \in BOOLEAN, Ask(r, q, full)
  PROVE  ProvInv'
<1>0. /\ reqPc[r] = "idle" /\ req' = [req EXCEPT ![r] = q]
      /\ asked' = [asked EXCEPT ![r] = IF q.refresh THEN jobs ELSE 0]
      /\ UNCHANGED <<gwRouter, gwSub, gwJob, jobs, reqDoc, reqHead, docStage>>
  BY DEF Ask, gwVars
<1>a. Gathered(r) /\ ReqTypes /\ jobs \in Nat /\ q.refresh \in BOOLEAN
  BY RequestFields DEF ProvInv, GwTypes
<1>b. reqDoc[r] = NoDoc /\ reqHead[r] = NoInfo /\ reqStatus[r] = 0
  BY <1>0, <1>a DEF Gathered
<1>1. \/ /\ ~q.refresh
         /\ reqPc' = [reqPc EXCEPT ![r] = "reading"] /\ UNCHANGED <<refreshGate, reqStatus>>
      \/ Answer(r, 403) /\ UNCHANGED refreshGate
      \/ Answer(r, 503) /\ UNCHANGED refreshGate
      \/ /\ refreshGate = None /\ refreshGate' = r
         /\ reqPc' = [reqPc EXCEPT ![r] = "refreshing"] /\ UNCHANGED reqStatus
  <2>2. CASE ~q.refresh
    BY <2>2 DEF Ask
  <2>3. CASE q.refresh /\ q.path = "raw" /\ ~RawPeerAllowed(q.local, gwRouter.allow)
    BY <2>3 DEF Ask
  <2>4. CASE q.refresh /\ (q.path = "raw" => RawPeerAllowed(q.local, gwRouter.allow))
    <3>1. IF refreshGate # None \/ full
          THEN Answer(r, 503) /\ UNCHANGED refreshGate
          ELSE /\ refreshGate' = r
               /\ reqPc' = [reqPc EXCEPT ![r] = "refreshing"]
               /\ UNCHANGED reqStatus
      BY <2>4 DEF Ask
    <3> QED BY <3>1
  <2> QED BY <1>a, <2>2, <2>3, <2>4
<1>2. /\ reqPc' \in [Reqs -> Places]
      /\ reqStatus' \in [Reqs -> {0, 200, 403, 503}]
      /\ \A t \in Reqs \ {r} : reqPc'[t] = reqPc[t] /\ reqStatus'[t] = reqStatus[t]
      /\ \/ reqPc'[r] = "answered" /\ reqStatus'[r] # 200 /\ UNCHANGED refreshGate
         \/ /\ reqPc'[r] = "reading" /\ ~q.refresh /\ reqStatus'[r] = 0
            /\ UNCHANGED refreshGate
         \/ /\ reqPc'[r] = "refreshing" /\ reqStatus'[r] = 0
            /\ refreshGate = None /\ refreshGate' = r
  BY <1>1, <1>a, <1>b DEF ReqTypes, Answer, Places
<1>3. /\ req' \in [Reqs -> Requests \cup {NoRequest}] /\ asked' \in [Reqs -> Nat]
      /\ req'[r] = q /\ asked'[r] <= jobs
      /\ \A t \in Reqs \ {r} : req'[t] = req[t] /\ asked'[t] = asked[t]
  BY <1>0, <1>a DEF ReqTypes
<1>4. ReqTypes' /\ GwTypes' /\ UpdatedInOrder'
  BY <1>0, <1>2, <1>3 DEF ProvInv, ReqTypes, GwTypes, UpdatedInOrder
<1>5. GateHeld'
  <2>1. \A t \in Reqs : reqPc'[t] = "refreshing" => refreshGate' = t
    <3> TAKE t \in Reqs
    <3>1. CASE t = r
      BY <1>2, <3>1
    <3>2. CASE t # r
      <4>1. reqPc'[t] = reqPc[t] /\ t # None
        BY <1>2, <3>2, ProvAssumption
      <4> QED BY <1>2, <4>1, <3>2 DEF ProvInv, GateHeld
    <3> QED BY <3>1, <3>2
  <2>2. gwJob.for # None => gwJob.for \in Reqs \ {r}
    BY <1>0 DEF ProvInv, GateHeld, GwTypes
  <2> QED BY <2>1, <2>2, <1>0, <1>2, <1>3 DEF ProvInv, GateHeld
<1>6. Gathered(r)'
  BY <1>0, <1>2, <1>3, <1>b DEF Gathered
<1>7. NotStale(r)'
  <2>1. NoDoc.fetch = 0
    BY RequestFields
  <2> QED BY <2>1, <1>0, <1>2, <1>3, <1>a, <1>b DEF NotStale
<1>8. ASSUME NEW t \in Reqs \ {r} PROVE Gathered(t)' /\ NotStale(t)'
  <2>1. Kept(t)
    BY <1>0, <1>2, <1>3 DEF Kept
  <2>2. Forward
    BY <1>0, <1>a DEF Forward, ProvInv, GwTypes, Documents
  <2> QED BY <2>1, <2>2, RequestKept
<1> QED BY <1>4, <1>5, <1>6, <1>7, <1>8 DEF ProvInv

\* A forced refresh that times out opens the gate it held.
LEMMA TimeoutStep ==
  ASSUME ProvInv, NEW r \in Reqs, RefreshTimeout(r)
  PROVE  ProvInv'
<1>0. /\ reqPc[r] = "refreshing" /\ refreshGate' = None /\ Answer(r, 503)
      /\ gwJob' = [gwJob EXCEPT !.for = IF @ = r THEN None ELSE @]
      /\ UNCHANGED <<gwRouter, gwSub, jobs, req, reqDoc, reqHead, asked, docStage>>
  BY DEF RefreshTimeout
<1>a. ReqTypes /\ GwTypes /\ 503 \in {200, 403, 503}
  BY DEF ProvInv
<1>1. /\ reqPc' \in [Reqs -> Places]
      /\ reqStatus' \in [Reqs -> {0, 200, 403, 503}]
      /\ reqPc'[r] = "answered" /\ reqStatus'[r] = 503
      /\ \A t \in Reqs \ {r} : reqPc'[t] = reqPc[t] /\ reqStatus'[t] = reqStatus[t]
  BY <1>0, <1>a, Answered
<1>2. /\ GwTypes' /\ gwJob'.stage = gwJob.stage
      /\ gwJob'.for # None => gwJob'.for = gwJob.for /\ gwJob.for # r
      /\ gwJob.for = None => gwJob'.for = None
  BY <1>0, <1>a DEF GwTypes
<1>3. ReqTypes'
  BY <1>0, <1>1, <1>a DEF ReqTypes
<1>4. GateHeld'
  <2>1. \A t \in Reqs \ {r} : reqPc[t] # "refreshing"
    BY <1>0 DEF ProvInv, GateHeld
  <2>2. gwJob.for \in Reqs \cup {None}
    BY <1>a DEF GwTypes
  <2> QED BY <2>1, <2>2, <1>0, <1>1, <1>2 DEF ProvInv, GateHeld
<1>5. UpdatedInOrder'
  BY <1>0, <1>2 DEF ProvInv, UpdatedInOrder
<1>6. Gathered(r)' /\ NotStale(r)'
  <2>1. Gathered(r) /\ NotStale(r)
    BY DEF ProvInv
  <2>2. Gathered(r)'
    BY <2>1, <1>0, <1>1 DEF Gathered, RawPeerAllowed
  <2>3. NotStale(r)'
    BY <2>1, <1>0, <1>1 DEF NotStale
  <2> QED BY <2>2, <2>3
<1>7. ASSUME NEW t \in Reqs \ {r} PROVE Gathered(t)' /\ NotStale(t)'
  <2>1. Kept(t)
    BY <1>0, <1>1 DEF Kept
  <2>2. Forward
    BY <1>0, <1>a DEF Forward, GwTypes, Documents
  <2> QED BY <2>1, <2>2, RequestKept
<1> QED BY <1>2, <1>3, <1>4, <1>5, <1>6, <1>7 DEF ProvInv

\* The steps of a request that touch neither the manager nor the gate.
LEMMA OwnStep ==
  ASSUME ProvInv, NEW r \in Reqs, UNCHANGED <<gwRouter, gwSub, gwJob, jobs, refreshGate>>,
         ReqTypes', reqPc[r] # "refreshing", reqPc'[r] # "refreshing",
         Gathered(r)', NotStale(r)', \A t \in Reqs \ {r} : Kept(t)
  PROVE  ProvInv'
<1>1. GwTypes' /\ UpdatedInOrder'
  BY DEF ProvInv, GwTypes, UpdatedInOrder
<1>2. GateHeld'
  <2>1. gwJob.for # None => gwJob.for \in Reqs \ {r}
    BY DEF ProvInv, GateHeld, GwTypes
  <2> QED BY <2>1 DEF ProvInv, GateHeld, Kept
<1>3. Forward
  BY DEF Forward, ProvInv, GwTypes, Documents
<1>4. ASSUME NEW t \in Reqs \ {r} PROVE Gathered(t)' /\ NotStale(t)'
  BY <1>3, RequestKept
<1> QED BY <1>1, <1>2, <1>4 DEF ProvInv

\* A document is read from the router in place.
LEMMA ReadStep ==
  ASSUME ProvInv, NEW r \in Reqs, ReadDocument(r)
  PROVE  ProvInv'
<1>0. /\ reqPc[r] = "reading" /\ req[r].path # "raw"
      /\ UNCHANGED <<gwRouter, gwSub, gwJob, jobs, refreshGate, req, reqHead, asked>>
      /\ reqDoc' = [reqDoc EXCEPT ![r] = gwRouter]
      /\ docStage' = [docStage EXCEPT ![r] = gwJob.stage]
      /\ \/ reqPc' = [reqPc EXCEPT ![r] = "heading"] /\ UNCHANGED reqStatus
         \/ Answer(r, 200)
  BY DEF ReadDocument, gwVars
<1>a. /\ Gathered(r) /\ NotStale(r) /\ ReqTypes /\ UpdatedInOrder /\ gwRouter \in Documents
      /\ gwJob.stage \in Stages
  BY DEF ProvInv, GwTypes
<1>b. reqHead[r] = NoInfo /\ reqStatus[r] = 0
  BY <1>0, <1>a DEF Gathered
<1>1. /\ ReqTypes' /\ reqDoc'[r] = gwRouter /\ docStage'[r] = gwJob.stage
      /\ \/ reqPc'[r] = "heading" /\ reqStatus'[r] = 0
         \/ reqPc'[r] = "answered" /\ reqStatus'[r] = 200
      /\ \A t \in Reqs \ {r} : Kept(t)
  BY <1>0, <1>a, <1>b DEF ReqTypes, Answer, Places, Kept
<1>2. Gathered(r)'
  BY <1>0, <1>1, <1>b DEF Gathered
<1>3. NotStale(r)'
  <2>1. gwRouter.fetch \in Nat /\ gwRouter.fetch <= jobs
    BY <1>a DEF UpdatedInOrder, Documents
  <2>2. gwJob.stage # "replaced" /\ gwSub # NoInfo => gwRouter.fetch <= gwSub.fetch
    BY <2>1, <1>a DEF UpdatedInOrder
  <2> QED BY <2>1, <2>2, <1>0, <1>1, <1>a, <1>b DEF NotStale
<1> QED BY <1>0, <1>1, <1>2, <1>3, OwnStep

\* The metadata is read after the document.
LEMMA HeadStep ==
  ASSUME ProvInv, NEW r \in Reqs, NEW fresh \in BOOLEAN, ReadMetadata(r, fresh)
  PROVE  ProvInv'
<1>0. /\ reqPc[r] = "heading" /\ Answer(r, 200)
      /\ UNCHANGED <<gwRouter, gwSub, gwJob, jobs, refreshGate, req, reqDoc, asked, docStage>>
      /\ reqHead' = [reqHead EXCEPT ![r] = IF fresh THEN gwSub ELSE NoInfo]
  BY DEF ReadMetadata, gwVars
<1>a. Gathered(r) /\ NotStale(r) /\ ReqTypes /\ gwSub \in Infos /\ NoInfo \in Infos
  BY RequestFields DEF ProvInv, GwTypes
<1>1. /\ reqHead' \in [Reqs -> Infos] /\ reqHead'[r] \in {NoInfo, gwSub}
      /\ \A t \in Reqs \ {r} : reqHead'[t] = reqHead[t]
  BY <1>0, <1>a DEF ReqTypes
<1>2. /\ ReqTypes' /\ reqPc'[r] = "answered" /\ reqStatus'[r] = 200
      /\ \A t \in Reqs \ {r} : Kept(t)
  BY <1>0, <1>1, <1>a DEF ReqTypes, Answer, Places, Kept
<1>3. Gathered(r)'
  BY <1>0, <1>1, <1>2, <1>a DEF Gathered, RawPeerAllowed
<1>4. NotStale(r)'
  BY <1>0, <1>1, <1>2, <1>a DEF NotStale
<1> QED BY <1>0, <1>1, <1>2, <1>3, <1>4, OwnStep

\* A raw request is checked against the router it exports from.
LEMMA RawStep ==
  ASSUME ProvInv, NEW r \in Reqs, NEW hosts, RawStart(r, hosts)
  PROVE  ProvInv'
<1>0. /\ reqPc[r] = "reading" /\ req[r].path = "raw"
      /\ UNCHANGED <<gwRouter, gwSub, gwJob, jobs, refreshGate, req, reqHead, asked, docStage>>
  BY DEF RawStart, gwVars
<1>a. Gathered(r) /\ NotStale(r) /\ ReqTypes /\ gwRouter \in Documents /\ gwRouter.fetch <= jobs
  BY DEF ProvInv, GwTypes, UpdatedInOrder
<1>b. reqDoc[r] = NoDoc /\ reqHead[r] = NoInfo /\ reqStatus[r] = 0
  BY <1>0, <1>a DEF Gathered
<1>1. CASE RawAllowed(r)
  <2>1. /\ reqDoc' = [reqDoc EXCEPT ![r] = gwRouter]
        /\ reqPc' = [reqPc EXCEPT ![r] = "rendering"] /\ UNCHANGED reqStatus
    BY <1>1 DEF RawStart
  <2>2. ReqTypes' /\ reqDoc'[r] = gwRouter /\ reqPc'[r] = "rendering"
        /\ \A t \in Reqs \ {r} : Kept(t)
    BY <2>1, <1>0, <1>a DEF ReqTypes, Places, Kept
  <2>3. RawPeerAllowed(req[r].local, gwRouter.allow)
    BY <1>1 DEF RawAllowed
  <2>4. Gathered(r)'
    BY <2>1, <2>2, <2>3, <1>0, <1>b DEF Gathered, RawPeerAllowed
  <2>5. NotStale(r)'
    BY <2>1, <2>2, <1>0, <1>a, <1>b DEF NotStale
  <2> QED BY <2>1, <2>2, <2>4, <2>5, <1>0, OwnStep
<1>2. CASE ~RawAllowed(r)
  <2>1. Answer(r, 403) /\ UNCHANGED reqDoc
    BY <1>2 DEF RawStart
  <2>2. ReqTypes' /\ reqPc'[r] = "answered" /\ reqStatus'[r] = 403
        /\ \A t \in Reqs \ {r} : Kept(t)
    BY <2>1, <1>0, <1>a DEF ReqTypes, Answer, Places, Kept
  <2>3. Gathered(r)'
    BY <2>1, <2>2, <1>0, <1>b DEF Gathered
  <2>4. NotStale(r)'
    BY <2>1, <2>2, <1>0, <1>a, <1>b DEF NotStale
  <2> QED BY <2>1, <2>2, <2>3, <2>4, <1>0, OwnStep
<1> QED BY <1>1, <1>2

\* A raw request whose lookups are done is answered with its document.
LEMMA AnswerStep ==
  ASSUME ProvInv, NEW r \in Reqs, RawAnswer(r)
  PROVE  ProvInv'
<1>0. /\ reqPc[r] = "rendering" /\ Answer(r, 200)
      /\ UNCHANGED <<gwRouter, gwSub, gwJob, jobs, refreshGate, req, reqDoc, reqHead, asked,
                     docStage>>
  BY DEF RawAnswer, gwVars
<1>a. Gathered(r) /\ NotStale(r) /\ ReqTypes
  BY DEF ProvInv
<1>1. ReqTypes' /\ reqPc'[r] = "answered" /\ reqStatus'[r] = 200
      /\ \A t \in Reqs \ {r} : Kept(t)
  BY <1>0, <1>a DEF ReqTypes, Answer, Places, Kept
<1>2. Gathered(r)'
  BY <1>0, <1>1, <1>a DEF Gathered, RawPeerAllowed
<1>3. NotStale(r)'
  BY <1>0, <1>1, <1>a DEF NotStale
<1> QED BY <1>0, <1>1, <1>2, <1>3, OwnStep

\* A request that is over forgets what it gathered.
LEMMA HangupStep ==
  ASSUME ProvInv, NEW r \in Reqs, Hangup(r)
  PROVE  ProvInv'
<1>0. /\ reqPc[r] = "answered" /\ UNCHANGED <<gwRouter, gwSub, gwJob, jobs, refreshGate>>
      /\ reqPc' = [reqPc EXCEPT ![r] = "idle"] /\ req' = [req EXCEPT ![r] = NoRequest]
      /\ reqDoc' = [reqDoc EXCEPT ![r] = NoDoc] /\ reqHead' = [reqHead EXCEPT ![r] = NoInfo]
      /\ reqStatus' = [reqStatus EXCEPT ![r] = 0] /\ asked' = [asked EXCEPT ![r] = 0]
      /\ docStage' = [docStage EXCEPT ![r] = "rest"]
  BY DEF Hangup, gwVars
<1>a. ReqTypes /\ jobs \in Nat
  BY DEF ProvInv, GwTypes
<1>1. ReqTypes'
  BY <1>0, <1>a, RequestFields DEF ReqTypes, Places, Stages
<1>2. /\ reqPc'[r] = "idle" /\ req'[r] = NoRequest /\ reqDoc'[r] = NoDoc /\ reqHead'[r] = NoInfo
      /\ reqStatus'[r] = 0 /\ asked'[r] = 0
      /\ \A t \in Reqs \ {r} : Kept(t)
  BY <1>0, <1>a DEF ReqTypes, Kept
<1>3. Gathered(r)' /\ NotStale(r)'
  BY <1>0, <1>2, <1>a, RequestFields DEF Gathered, NotStale
<1> QED BY <1>0, <1>1, <1>2, <1>3, OwnStep

\* Every step of a request or a job keeps the invariant.
LEMMA ProvStep ==
  ASSUME ProvInv, [ProvNext]_provVars
  PROVE  ProvInv'
<1>1. ASSUME UNCHANGED <<gwVars, refreshGate, reqVars>> PROVE ProvInv'
  BY <1>1 DEF gwVars, reqVars, ProvInv, GwTypes, ReqTypes, GateHeld, Gathered, NotStale,
              UpdatedInOrder, RawPeerAllowed
<1>2. CASE UNCHANGED provVars
  BY <1>1, <1>2 DEF provVars
<1>3. ASSUME NEW l \in Lookups, LookupEnds(l) PROVE ProvInv'
  BY <1>1, <1>3 DEF LookupEnds
<1>4. ASSUME NEW r \in Reqs, NEW h \in NodeHosts, SpawnLookup(r, h) PROVE ProvInv'
  BY <1>1, <1>4 DEF SpawnLookup
<1>5. ASSUME NEW r \in Reqs, RequestStep(r) PROVE ProvInv'
  BY <1>4, <1>5, TimeoutStep, ReadStep, AnswerStep, RawStep, HeadStep DEF RequestStep
<1>6. gwRouter.account \in Accounts \cup {None} /\ gwRouter.allow \in BOOLEAN
  BY DEF ProvInv, GwTypes, Documents
<1>7. ASSUME NEW a \in Accounts, NEW allow \in BOOLEAN, BeginReload(a, allow) PROVE ProvInv'
  BY <1>7, BeginStep DEF BeginReload, JobKinds
<1>8. CASE BeginRefresh
  BY <1>6, <1>8, BeginStep DEF BeginRefresh, JobKinds
<1>9. ASSUME NEW r \in Reqs, BeginForced(r) PROVE ProvInv'
  BY <1>6, <1>9, BeginStep DEF BeginForced, JobKinds
<1> QED BY <1>2, <1>3, <1>5, <1>7, <1>8, <1>9, KeptStep, InstallStep, FinishStep, FailStep,
           AskStep, HangupStep DEF ProvNext

\* The invariant of the provider holds always.
LEMMA ProvAlways == ProvSpec => []ProvInv
  BY ProvInitial, ProvStep, PTL DEF ProvSpec

(***************************************************************************)
(* A raw document goes to a remote peer only from a router that allows it, *)
(* whatever is reloaded between the request's first check and the export   *)
(* (gateway.rs raw_provider).                                              *)
(***************************************************************************)
THEOREM SecretsStayHome == ProvSpec => []RawDocumentAllowed
<1>1. ProvInv => RawDocumentAllowed
  BY DEF ProvInv, Gathered, RawDocumentAllowed
<1> QED BY <1>1, ProvAlways, PTL

(***************************************************************************)
(* A refresh=1 request is answered with a document and metadata fetched    *)
(* after it came, whatever jobs run before, for and after it; and metadata *)
(* older than the document goes out only with a document read while its    *)
(* own job was between its two updates of the manager (gateway.rs          *)
(* refresh_provider, http_server.rs the provider branch, cli.rs            *)
(* apply_refreshed_catalog).                                               *)
(***************************************************************************)
THEOREM AnswersAreFresh == ProvSpec => []AnswersNotStale
<1>1. ProvInv => AnswersNotStale
  <2> SUFFICES ASSUME ProvInv, NEW r \in Reqs, reqStatus[r] = 200
               PROVE  /\ req[r].refresh => reqDoc[r].fetch > asked[r]
                      /\ req[r].refresh /\ reqHead[r] # NoInfo => reqHead[r].fetch > asked[r]
                      /\ reqHead[r] # NoInfo /\ reqHead[r].fetch < reqDoc[r].fetch =>
                           docStage[r] = "replaced"
    BY DEF AnswersNotStale
  <2>1. /\ asked[r] \in Nat /\ reqDoc[r].fetch \in Nat /\ reqHead[r].fetch \in Nat /\ NotStale(r)
    BY DEF ProvInv, ReqTypes, Documents, Infos
  <2> QED BY <2>1 DEF NotStale
<1> QED BY <1>1, ProvAlways, PTL

-----------------------------------------------------------------------------
(***************************************************************************)
(* The control socket.                                                     *)
(***************************************************************************)
CtlTypes ==
    /\ fits \in BOOLEAN /\ raced \in BOOLEAN
    /\ sockFile \in [ino : Inodes \cup {0}, kind : {"none", "socket", "other", "foreign"}]
    /\ svcPc \in [Services -> {"down", "uncontrolled", "probing", "checking", "removing",
                               "binding", "bound", "owning", "securing", "running",
                               "unlinking"}]
    /\ seenIno \in [Services -> Inodes \cup {0}]
    /\ ownIno \in [Services -> Inodes \cup {0}]
    /\ listener \in [Services -> Inodes \cup {0}]
    /\ accepting \in [Services -> BOOLEAN]

\* The services whose socket is, or will be, the one to use.
Live(s) == svcPc[s] \in {"bound", "owning", "securing", "running"}

\* No two listeners are bound to one inode.
OwnInodes ==
    \A s, t \in Services : listener[s] = listener[t] /\ listener[s] # 0 => s = t

\* A live service's file is at the path, and nobody is about to remove it.
AtThePath(s) ==
    /\ listener[s] # 0
    /\ sockFile = [ino |-> listener[s], kind |-> "socket"]
    /\ svcPc[s] # "bound" => accepting[s]
    /\ svcPc[s] \in {"securing", "running"} => ownIno[s] = listener[s]
    /\ \A t \in Services \ {s} : ~PendingRemoval(t, listener[s])

CtlInv ==
    /\ CtlTypes
    /\ OwnInodes
    /\ ~raced => \A s \in Services : Live(s) => AtThePath(s)

\* Before the first service starts nobody listens.
LEMMA CtlInitial == CtlInit => CtlInv
<1> SUFFICES ASSUME CtlInit PROVE CtlInv
  OBVIOUS
<1>1. sockFile \in [ino : Inodes \cup {0}, kind : {"none", "socket", "other", "foreign"}]
  BY DEF CtlInit, NoFile
<1>2. accepting \in [Services -> BOOLEAN] /\ fits \in BOOLEAN /\ raced \in BOOLEAN
  BY DEF CtlInit
<1>3. CtlTypes
  BY <1>1, <1>2 DEF CtlInit, CtlTypes
<1> QED BY <1>3 DEF CtlInit, CtlInv, OwnInodes, Live

\* A service that ends leaves no listener and no inode of its own.
LEMMA GoneTypes ==
  ASSUME CtlInv, NEW s \in Services, Gone(s)
  PROVE  /\ svcPc' = [svcPc EXCEPT ![s] = "down"]
         /\ \A t \in Services \ {s} : /\ svcPc'[t] = svcPc[t] /\ listener'[t] = listener[t]
                                      /\ accepting'[t] = accepting[t] /\ ownIno'[t] = ownIno[t]
                                      /\ seenIno'[t] = seenIno[t]
         /\ svcPc'[s] = "down" /\ listener'[s] = 0
         /\ svcPc' \in [Services -> {"down", "uncontrolled", "probing", "checking", "removing",
                               "binding", "bound", "owning", "securing", "running",
                               "unlinking"}]
         /\ seenIno' \in [Services -> Inodes \cup {0}]
         /\ ownIno' \in [Services -> Inodes \cup {0}]
         /\ listener' \in [Services -> Inodes \cup {0}]
         /\ accepting' \in [Services -> BOOLEAN]
         /\ OwnInodes'
<1>1. /\ svcPc' \in [Services -> {"down", "uncontrolled", "probing", "checking", "removing",
                               "binding", "bound", "owning", "securing", "running",
                               "unlinking"}]
      /\ seenIno' \in [Services -> Inodes \cup {0}]
      /\ ownIno' \in [Services -> Inodes \cup {0}]
      /\ listener' \in [Services -> Inodes \cup {0}]
      /\ accepting' \in [Services -> BOOLEAN]
  BY DEF CtlInv, CtlTypes, Gone, Step
<1>2. /\ \A t \in Services \ {s} : /\ svcPc'[t] = svcPc[t] /\ listener'[t] = listener[t]
                                   /\ accepting'[t] = accepting[t] /\ ownIno'[t] = ownIno[t]
                                   /\ seenIno'[t] = seenIno[t]
      /\ svcPc'[s] = "down" /\ listener'[s] = 0
  BY DEF CtlInv, CtlTypes, Gone, Step
<1>3. OwnInodes'
  BY <1>2 DEF CtlInv, OwnInodes
<1> QED BY <1>1, <1>2, <1>3 DEF Gone, Step

\* A service that goes, or goes on without a socket, disturbs nobody, as long
\* as the file stays.
LEMMA LeavesOthers ==
  ASSUME CtlInv, NEW s \in Services, Gone(s), UNCHANGED <<fits, sockFile>>,
         raced' \in BOOLEAN, raced => raced'
  PROVE  CtlInv'
<1>1. CtlTypes' /\ OwnInodes'
  BY GoneTypes DEF CtlTypes, CtlInv
<1>2. ASSUME ~raced', NEW t \in Services, Live(t)' PROVE AtThePath(t)'
  <2>1. t # s /\ Live(t) /\ AtThePath(t)
    BY <1>2, GoneTypes DEF Live, CtlInv
  <2>2. \A u \in Services \ {t} : PendingRemoval(u, listener[t])' => PendingRemoval(u, listener[t])
    BY <2>1, GoneTypes DEF PendingRemoval
  <2> QED BY <2>1, <2>2, GoneTypes DEF AtThePath
<1> QED BY <1>1, <1>2 DEF CtlInv

\* Every system call of Server::bind, and of the removal, keeps the invariant.
LEMMA CtlStep ==
  ASSUME CtlInv, [CtlNext]_ctlVars
  PROVE  CtlInv'
<1> USE CtlAssumption
<1>0. CASE UNCHANGED ctlVars
  BY <1>0 DEF ctlVars, CtlInv, CtlTypes, OwnInodes, Live, AtThePath, PendingRemoval
<1> SUFFICES ASSUME NEW s \in Services,
                    \/ Start(s) \/ Probe(s) \/ Check(s) \/ RemoveStale(s) \/ BindSocket(s)
                    \/ Listen(s) \/ Own(s) \/ Secure(s) \/ Shutdown(s) \/ Unlink(s) \/ Kill(s)
             PROVE  CtlInv'
  BY <1>0 DEF CtlNext
\* The steps that change a label only, to one that threatens nobody.
<1>a. ASSUME NEW l \in {"uncontrolled", "probing", "binding", "down"}, Go(s, l),
             UNCHANGED <<fits, sockFile, raced>>
      PROVE  CtlInv'
  <2>1. CtlTypes' /\ OwnInodes'
    BY <1>a DEF CtlInv, CtlTypes, OwnInodes, Go, Step
  <2>2. ASSUME ~raced', NEW t \in Services, Live(t)' PROVE AtThePath(t)'
    <3>1. t # s /\ Live(t) /\ AtThePath(t)
      BY <1>a, <2>2 DEF Live, CtlInv, CtlTypes, Go, Step
    <3>2. \A u \in Services \ {t} : PendingRemoval(u, listener[t])' => PendingRemoval(u, listener[t])
      BY <3>1, <1>a DEF PendingRemoval, CtlInv, CtlTypes, Go, Step
    <3> QED BY <3>1, <3>2, <1>a DEF AtThePath, CtlInv, CtlTypes, Go, Step
  <2> QED BY <2>1, <2>2 DEF CtlInv
<1>1. CASE Start(s)
  <2>1. CASE ~fits \/ sockFile.kind # "socket"
    <3>1. \E l \in {"uncontrolled", "probing", "binding", "down"} : Go(s, l)
      BY <1>1, <2>1 DEF Start
    <3> QED BY <3>1, <1>1, <1>a DEF Start
  <2>2. CASE fits /\ sockFile.kind = "socket"
    <3>1. /\ Step(s, "probing") /\ seenIno' = [seenIno EXCEPT ![s] = sockFile.ino]
          /\ UNCHANGED <<ownIno, listener, accepting, fits, sockFile, raced>>
      BY <1>1, <2>2 DEF Start
    <3>2. CtlTypes' /\ OwnInodes'
      BY <3>1 DEF CtlInv, CtlTypes, OwnInodes, Step
    <3>3. ASSUME ~raced', NEW t \in Services, Live(t)' PROVE AtThePath(t)'
      <4>1. t # s /\ Live(t) /\ AtThePath(t)
        BY <3>1, <3>3 DEF Live, CtlInv, CtlTypes, Step
      <4>2. \A u \in Services \ {t} : PendingRemoval(u, listener[t])' => PendingRemoval(u, listener[t])
        BY <4>1, <3>1 DEF PendingRemoval, CtlInv, CtlTypes, Step
      <4> QED BY <4>1, <4>2, <3>1 DEF AtThePath, CtlInv, CtlTypes, Step
    <3> QED BY <3>2, <3>3 DEF CtlInv
  <2> QED BY <2>1, <2>2 DEF CtlInv, CtlTypes
<1>2. CASE Probe(s)
  <2>0. raced' \in BOOLEAN /\ (raced => raced')
    BY <1>2 DEF Probe, CtlInv, CtlTypes
  <2>1. CASE ProbedStale(s)
    <3>1. /\ svcPc' = [svcPc EXCEPT ![s] = "checking"] /\ svcPc[s] = "probing"
          /\ UNCHANGED <<seenIno, ownIno, listener, accepting, fits, sockFile>>
      BY <1>2, <2>1 DEF Probe, Go, Step
    <3>2. CtlTypes' /\ OwnInodes'
      BY <3>1, <2>0 DEF CtlInv, CtlTypes, OwnInodes
    <3>3. ASSUME ~raced', NEW t \in Services, Live(t)' PROVE FALSE
      <4>1. t # s /\ Live(t) /\ AtThePath(t)
        BY <3>1, <3>3, <2>0 DEF Live, CtlInv, CtlTypes
      <4>2. t \in Owners
        BY <4>1 DEF Owners, AtThePath
      <4>3. CASE accepting[t]
        BY <4>2, <4>3, <2>1 DEF ProbedStale
      <4>4. CASE ~accepting[t]
        BY <4>2, <4>4, <3>3, <1>2 DEF Probe
      <4> QED BY <4>3, <4>4
    <3> QED BY <3>2, <3>3 DEF CtlInv
  <2>2. CASE ~ProbedStale(s)
    <3>1. Gone(s) /\ UNCHANGED <<fits, sockFile>>
      BY <1>2, <2>2 DEF Probe
    <3> QED BY <3>1, <2>0, LeavesOthers
  <2> QED BY <2>1, <2>2
<1>3. CASE Check(s)
  <2>0. UNCHANGED <<fits, sockFile, raced>> /\ svcPc[s] = "checking"
    BY <1>3 DEF Check
  <2>1. CASE sockFile # NoFile /\ UnchangedFile(s)
    <3>1. /\ svcPc' = [svcPc EXCEPT ![s] = "removing"]
          /\ UNCHANGED <<seenIno, ownIno, listener, accepting>>
      BY <1>3, <2>1 DEF Check, Go, Step
    <3>2. CtlTypes' /\ OwnInodes'
      BY <3>1, <2>0 DEF CtlInv, CtlTypes, OwnInodes
    <3>3. ASSUME ~raced', NEW t \in Services, Live(t)' PROVE FALSE
      <4>1. t # s /\ Live(t) /\ AtThePath(t)
        BY <3>1, <3>3, <2>0 DEF Live, CtlInv, CtlTypes
      <4>2. sockFile.ino = listener[t] /\ seenIno[s] = sockFile.ino
        BY <4>1, <2>1 DEF AtThePath, UnchangedFile
      <4> QED BY <4>1, <4>2, <2>0 DEF AtThePath, PendingRemoval
    <3> QED BY <3>2, <3>3 DEF CtlInv
  <2>2. CASE ~(sockFile # NoFile /\ UnchangedFile(s))
    <3>1. Gone(s)
      BY <1>3, <2>2 DEF Check
    <3> QED BY <3>1, <2>0, LeavesOthers DEF CtlInv, CtlTypes
  <2> QED BY <2>1, <2>2
\* A removal that is pending when no race has happened finds nobody live.
<1>b. ASSUME svcPc[s] \in {"removing", "unlinking"}, ~raced, NEW t \in Services, Live(t) PROVE FALSE
  <2>1. t # s /\ AtThePath(t)
    BY <1>b DEF Live, CtlInv
  <2> QED BY <2>1, <1>b DEF AtThePath, PendingRemoval
<1>4. CASE RemoveStale(s)
  <2>0. UNCHANGED <<fits, raced>> /\ svcPc[s] = "removing"
    BY <1>4 DEF RemoveStale
  <2>1. CASE sockFile = NoFile
    <3>1. Gone(s) /\ UNCHANGED sockFile
      BY <1>4, <2>1 DEF RemoveStale
    <3> QED BY <3>1, <2>0, LeavesOthers DEF CtlInv, CtlTypes
  <2>2. CASE sockFile # NoFile
    <3>1. /\ svcPc' = [svcPc EXCEPT ![s] = "binding"] /\ sockFile' = NoFile
          /\ UNCHANGED <<seenIno, ownIno, listener, accepting>>
      BY <1>4, <2>2 DEF RemoveStale, Go, Step
    <3>2. CtlTypes' /\ OwnInodes'
      BY <3>1, <2>0 DEF CtlInv, CtlTypes, OwnInodes, NoFile
    <3>3. ASSUME ~raced', NEW t \in Services, Live(t)' PROVE FALSE
      <4>1. Live(t)
        BY <3>1, <3>3, <2>0 DEF Live, CtlInv, CtlTypes
      <4> QED BY <4>1, <1>b, <2>0, <3>3
    <3> QED BY <3>2, <3>3 DEF CtlInv
  <2> QED BY <2>1, <2>2
<1>5. CASE BindSocket(s)
  <2>0. UNCHANGED fits /\ svcPc[s] = "binding"
    BY <1>5 DEF BindSocket
  <2>1. CASE sockFile # NoFile
    <3>1. Gone(s) /\ UNCHANGED <<sockFile, raced>>
      BY <1>5, <2>1 DEF BindSocket
    <3> QED BY <3>1, <2>0, LeavesOthers DEF CtlInv, CtlTypes
  <2>2. CASE sockFile = NoFile
    <3>1. PICK ino \in Inodes \ {listener[t] : t \in Services} :
              /\ sockFile' = [ino |-> ino, kind |-> "socket"]
              /\ listener' = [listener EXCEPT ![s] = ino]
              /\ svcPc' = [svcPc EXCEPT ![s] = "bound"]
              /\ raced' = (raced \/ \E t \in Services \ {s} : PendingRemoval(t, ino))
              /\ UNCHANGED <<seenIno, ownIno, accepting>>
      BY <1>5, <2>2 DEF BindSocket, Step
    <3>a. raced' \in BOOLEAN /\ (raced => raced')
      BY <3>1 DEF CtlInv, CtlTypes
    <3>2. CtlTypes'
      BY <3>1, <2>0, <3>a DEF CtlInv, CtlTypes
    <3>3. OwnInodes'
      BY <3>1 DEF CtlInv, CtlTypes, OwnInodes
    <3>4. ASSUME ~raced', NEW t \in Services, Live(t)' PROVE AtThePath(t)'
      <4>1. t = s
        <5>1. SUFFICES ASSUME t # s PROVE FALSE
          OBVIOUS
        <5>2. Live(t) /\ AtThePath(t)
          BY <5>1, <3>1, <3>a, <3>4 DEF Live, CtlInv, CtlTypes
        <5> QED BY <5>2, <2>2 DEF AtThePath, NoFile
      <4>2. \A u \in Services \ {s} : ~PendingRemoval(u, ino)
        BY <3>1, <3>4
      <4>3. \A u \in Services \ {s} : ~PendingRemoval(u, ino)'
        BY <4>2, <3>1 DEF PendingRemoval, CtlInv, CtlTypes
      <4>4. listener'[s] = ino /\ ino # 0 /\ svcPc'[s] = "bound"
        BY <3>1 DEF CtlInv, CtlTypes
      <4> QED BY <4>1, <4>3, <4>4, <3>1 DEF AtThePath, PendingRemoval
    <3> QED BY <3>2, <3>3, <3>4 DEF CtlInv
  <2> QED BY <2>1, <2>2
\* The steps of a live service that leave it live, and the file alone.
<1>c. ASSUME NEW l \in {"owning", "securing", "running"}, Live(s),
             svcPc' = [svcPc EXCEPT ![s] = l],
             UNCHANGED <<fits, sockFile, raced, seenIno, listener>>,
             CtlTypes',
             \A t \in Services \ {s} : accepting'[t] = accepting[t] /\ ownIno'[t] = ownIno[t],
             ~raced => accepting'[s],
             ~raced /\ l \in {"securing", "running"} => ownIno'[s] = sockFile.ino
      PROVE  CtlInv'
  <2>1. OwnInodes'
    BY <1>c DEF CtlInv, OwnInodes
  <2>2. ASSUME ~raced', NEW t \in Services, Live(t)' PROVE AtThePath(t)'
    <3>1. Live(t) /\ AtThePath(t) /\ ~raced
      BY <1>c, <2>2 DEF Live, CtlInv, CtlTypes
    <3>2. \A u \in Services \ {t} : PendingRemoval(u, listener[t])' => PendingRemoval(u, listener[t])
      BY <3>1, <1>c DEF PendingRemoval, CtlInv, CtlTypes
    <3>3. svcPc'[t] # "bound" => accepting'[t]
      BY <3>1, <1>c DEF CtlInv, CtlTypes, AtThePath
    <3>4. svcPc'[t] \in {"securing", "running"} => ownIno'[t] = listener[t]
      <4>1. CASE t = s
        <5>1. sockFile.ino = listener[s]
          BY <3>1, <4>1 DEF AtThePath
        <5>2. svcPc'[s] = l
          BY <1>c DEF CtlInv, CtlTypes
        <5> QED BY <5>1, <5>2, <4>1, <3>1, <1>c
      <4>2. CASE t # s
        BY <3>1, <4>2, <1>c DEF CtlInv, CtlTypes, AtThePath
      <4> QED BY <4>1, <4>2
    <3> QED BY <3>1, <3>2, <3>3, <3>4, <1>c DEF AtThePath
  <2> QED BY <2>1, <2>2, <1>c DEF CtlInv
<1>6. CASE Listen(s)
  <2>1. Live(s) /\ CtlTypes' /\ accepting'[s]
    BY <1>6 DEF Listen, Step, Live, CtlInv, CtlTypes
  <2>2. \A t \in Services \ {s} : accepting'[t] = accepting[t] /\ ownIno'[t] = ownIno[t]
    BY <1>6 DEF Listen, CtlInv, CtlTypes
  <2> QED BY <1>6, <2>1, <2>2, <1>c DEF Listen, Step
<1>7. CASE Own(s)
  <2>1. CASE sockFile = NoFile
    BY <1>7, <2>1, LeavesOthers DEF Own, CtlInv, CtlTypes
  <2>2. CASE sockFile # NoFile
    <3>1. /\ ownIno' = [ownIno EXCEPT ![s] = sockFile.ino]
          /\ svcPc' = [svcPc EXCEPT ![s] = "securing"] /\ svcPc[s] = "owning"
          /\ UNCHANGED <<seenIno, listener, accepting, fits, sockFile, raced>>
      BY <1>7, <2>2 DEF Own, Step
    <3>2. Live(s) /\ CtlTypes' /\ ownIno'[s] = sockFile.ino
      BY <3>1 DEF Live, CtlInv, CtlTypes
    <3>3. \A t \in Services \ {s} : accepting'[t] = accepting[t] /\ ownIno'[t] = ownIno[t]
      BY <3>1 DEF CtlInv, CtlTypes
    <3>4. ~raced => accepting'[s]
      BY <3>1, <3>2 DEF CtlInv, AtThePath
    <3> QED BY <3>1, <3>2, <3>3, <3>4, <1>c
  <2> QED BY <2>1, <2>2
<1>8. CASE Secure(s)
  <2>1. CASE sockFile = NoFile
    BY <1>8, <2>1, LeavesOthers DEF Secure, CtlInv, CtlTypes
  <2>2. CASE sockFile # NoFile
    <3>1. /\ svcPc' = [svcPc EXCEPT ![s] = "running"] /\ svcPc[s] = "securing"
          /\ UNCHANGED <<seenIno, ownIno, listener, accepting, fits, sockFile, raced>>
      BY <1>8, <2>2 DEF Secure, Go, Step
    <3>2. Live(s) /\ CtlTypes'
      BY <3>1 DEF Live, CtlInv, CtlTypes
    <3>3. ~raced => accepting'[s] /\ ownIno'[s] = sockFile.ino
      BY <3>1, <3>2 DEF CtlInv, AtThePath
    <3> QED BY <3>1, <3>2, <3>3, <1>c
  <2> QED BY <2>1, <2>2
<1>9. CASE Shutdown(s)
  <2>0. svcPc[s] = "running" /\ UNCHANGED <<fits, sockFile, raced>>
    BY <1>9 DEF Shutdown
  <2>1. CASE Gone(s)
    BY <2>0, <2>1, LeavesOthers DEF CtlInv, CtlTypes
  <2>2. CASE ~Gone(s)
    <3>1. /\ svcPc' = [svcPc EXCEPT ![s] = "unlinking"]
          /\ UNCHANGED <<seenIno, ownIno>>
          /\ listener' = listener \/ listener' = [listener EXCEPT ![s] = 0]
          /\ accepting' = accepting \/ accepting' = [accepting EXCEPT ![s] = FALSE]
      BY <1>9, <2>2 DEF Shutdown, Step
    <3>2. /\ listener' \in [Services -> Inodes \cup {0}]
          /\ listener'[s] \in {listener[s], 0}
          /\ \A t \in Services \ {s} : listener'[t] = listener[t]
      BY <3>1 DEF CtlInv, CtlTypes
    <3>3. CtlTypes'
      BY <3>1, <3>2, <2>0 DEF CtlInv, CtlTypes
    <3>4. OwnInodes'
      BY <3>2 DEF CtlInv, OwnInodes
    <3>5. ASSUME ~raced', NEW t \in Services, Live(t)' PROVE FALSE
      <4>1. t # s /\ Live(t) /\ Live(s) /\ ~raced
        BY <3>1, <3>5, <2>0 DEF Live, CtlInv, CtlTypes
      <4>2. AtThePath(t) /\ AtThePath(s)
        BY <4>1 DEF CtlInv
      <4>3. listener[s] = listener[t] /\ listener[s] # 0
        BY <4>2 DEF AtThePath
      <4> QED BY <4>1, <4>3 DEF CtlInv, OwnInodes
    <3> QED BY <3>3, <3>4, <3>5 DEF CtlInv
  <2> QED BY <2>1, <2>2
<1>10. CASE Unlink(s)
  <2>1. Gone(s) /\ sockFile' = NoFile /\ UNCHANGED <<fits, raced>> /\ svcPc[s] = "unlinking"
    BY <1>10 DEF Unlink
  <2>2. CtlTypes' /\ OwnInodes'
    BY <2>1, GoneTypes DEF CtlInv, CtlTypes, NoFile
  <2>3. ASSUME ~raced', NEW t \in Services, Live(t)' PROVE FALSE
    <3>1. Live(t) /\ ~raced
      BY <2>1, <2>3, GoneTypes DEF Live
    <3> QED BY <3>1, <1>b, <2>1
  <2> QED BY <2>2, <2>3 DEF CtlInv
<1>11. CASE Kill(s)
  BY <1>11, LeavesOthers DEF Kill, CtlInv, CtlTypes
<1> QED BY <1>1, <1>2, <1>3, <1>4, <1>5, <1>6, <1>7, <1>8, <1>9, <1>10, <1>11

\* The invariant says that a live service is alone and at the path.
LEMMA CtlImplies == CtlInv => SoleService
<1> SUFFICES ASSUME CtlInv, ~raced, NEW s \in Services, svcPc[s] = "running"
             PROVE  /\ sockFile = [ino |-> listener[s], kind |-> "socket"]
                    /\ ownIno[s] = listener[s]
                    /\ \A t \in Services \ {s} : svcPc[t] # "running"
  BY DEF SoleService
<1>1. AtThePath(s) /\ \A t \in Services : svcPc[t] = "running" => AtThePath(t)
  BY DEF CtlInv, Live
<1>2. \A t \in Services : svcPc[t] = "running" => listener[t] = listener[s] /\ listener[t] # 0
  BY <1>1 DEF AtThePath
<1> QED BY <1>1, <1>2 DEF AtThePath, CtlInv, OwnInodes

(***************************************************************************)
(* A running service is the only one and the one the path leads to, unless *)
(* a socket appeared under a removal already decided or was probed between *)
(* bind and listen (control.rs, Server::bind and the drop of SocketFile).  *)
(***************************************************************************)
THEOREM ServiceIsAlone == CtlSpec => []SoleService
<1>1. CtlSpec => []CtlInv
  BY CtlInitial, CtlStep, PTL DEF CtlSpec
<1> QED BY <1>1, CtlImplies, PTL

-----------------------------------------------------------------------------
(***************************************************************************)
(* The API client.                                                         *)
(***************************************************************************)
\* What an equal share of a time leaves: if the rest, but for L ticks, was
\* enough for m parts of q, then a part is enough but for L ticks, and so is
\* what remains for the m - 1 others.
LEMMA EqualShares ==
  ASSUME NEW R \in Nat, NEW L \in Nat, NEW q \in Nat, NEW m \in Nat \ {0}, R + L >= m * q
  PROVE  LET b == R \div m
         IN  b \in Nat /\ b <= R /\ b + L >= q /\ R - b + L >= (m - 1) * q
<1> DEFINE b == R \div m
<1>1. b \in Nat /\ R = m * b + (R % m) /\ R % m \in 0..(m - 1)
  OBVIOUS
<1>2. PICK r \in 0..(m - 1) : R = m * b + r
  BY <1>1
<1> HIDE DEF b
<1>3. m * b \in Nat /\ m * q \in Nat /\ (m - 1) * q = m * q - q
  BY <1>1
<1>4. b <= m * b
  BY <1>1
<1>5. b + L >= q
  <2> SUFFICES ASSUME b + L + 1 <= q PROVE FALSE
    BY <1>1
  <2>1. m * (b + L + 1) <= m * q
    BY <1>1
  <2>2. m * (b + L + 1) = m * b + m * L + m /\ m * L \in Nat /\ L <= m * L
    BY <1>1
  <2> QED BY <2>1, <2>2, <1>2, <1>3, <1>1
<1>6. R - b + L >= (m - 1) * q
  <2>1. CASE b >= q
    <3>1. (m - 1) * b >= (m - 1) * q /\ (m - 1) * b = m * b - b
      BY <2>1, <1>1
    <3> QED BY <3>1, <1>2, <1>3, <1>1
  <2>2. CASE b < q
    BY <2>2, <1>3, <1>1
  <2> QED BY <2>1, <2>2, <1>1
<1> QED BY <1>1, <1>2, <1>3, <1>4, <1>5, <1>6 DEF b

-----------------------------------------------------------------------------
ApiTypes ==
    /\ urlCount \in 1..MaxUrls
    /\ apiPc \in {"idle", "waiting", "done"} /\ apiOp \in Ops
    /\ apiIndex \in Nat /\ apiNow \in Nat /\ until \in Nat /\ apiBudget \in Nat
    /\ posted \in Nat /\ issued \in Nat /\ late \in Nat

\* Each URL's part of the timeout.
Share(op) == Timeout \div Endpoints(op)

\* Before the first attempt nothing has happened.
Fresh ==
    apiPc = "idle" => apiNow = 0 /\ late = 0 /\ posted = 0 /\ issued = 0 /\ apiResult = "none"

\* During an attempt, the URLs behind it still have their parts, now and when
\* the attempt's budget ends, but for the ticks timers were late.
PartsLeft ==
    apiPc = "waiting" =>
        /\ apiIndex \in 1..Endpoints(apiOp) /\ apiResult = "none"
        /\ until <= Timeout /\ apiBudget + late >= Share(apiOp)
        /\ Timeout - until + late >= (Endpoints(apiOp) - apiIndex) * Share(apiOp)
        /\ Timeout - apiNow + late >= (Endpoints(apiOp) - apiIndex) * Share(apiOp)

\* Only a rebind makes the server issue anything.
PostedOnce == posted + issued <= 1 /\ (apiOp # "rebind" => posted + issued = 0)

ApiInv == ApiTypes /\ Fresh /\ PartsLeft /\ PostedOnce /\ AnswerJustified

\* A call that has not begun has posted nothing and used no time.
LEMMA ApiInitial == ApiInit => ApiInv
  BY ApiAssumption
  DEF ApiInit, ApiInv, ApiTypes, Ops, Fresh, PartsLeft, PostedOnce, AnswerJustified

\* A call has an endpoint, and the parts of all its endpoints fit the timeout.
LEMMA EndpointsType ==
  ASSUME ApiTypes, NEW op \in Ops
  PROVE  Endpoints(op) \in Nat \ {0} /\ Share(op) \in Nat
         /\ Endpoints(op) * Share(op) <= Timeout
<1>1. Endpoints(op) \in Nat \ {0}
  BY ApiAssumption DEF ApiTypes, Endpoints
<1> DEFINE e == Endpoints(op)
<1> HIDE DEF e
<1>2. ASSUME e \in Nat \ {0} PROVE Timeout \div e \in Nat /\ e * (Timeout \div e) <= Timeout
  <2>1. Timeout \div e \in Nat /\ Timeout = e * (Timeout \div e) + (Timeout % e) /\ Timeout % e \in Nat
    BY <1>2, ApiAssumption
  <2>2. e * (Timeout \div e) \in Nat
    BY <2>1, <1>2
  <2> QED BY <2>1, <2>2, ApiAssumption
<1> QED BY <1>1, <1>2 DEF e, Share

\* One turn of the loop, from the time the URLs left need.
LEMMA AttemptGives ==
  ASSUME ApiTypes, NEW op \in Ops, NEW index \in 1..Endpoints(op), Attempt(index, op),
         Timeout - apiNow + late >= (Endpoints(op) - index + 1) * Share(op)
  PROVE  \/ /\ apiPc' = "done" /\ apiResult' = "timeout" /\ apiNow >= Timeout
            /\ UNCHANGED <<apiIndex, until, apiBudget, posted>>
         \/ /\ apiPc' = "waiting" /\ apiIndex' = index /\ UNCHANGED apiResult
            /\ apiBudget' \in Nat /\ until' \in Nat /\ until' <= Timeout
            /\ apiBudget' + late >= Share(op)
            /\ Timeout - until' + late >= (Endpoints(op) - index) * Share(op)
            /\ Timeout - apiNow + late >= (Endpoints(op) - index) * Share(op)
            /\ posted' = IF op = "rebind" THEN posted + 1 ELSE posted
<1>0. Endpoints(op) \in Nat \ {0} /\ Share(op) \in Nat
  BY EndpointsType
<1>1. CASE apiNow >= Timeout
  <2>1. ~(apiNow < Timeout)
    BY <1>1, ApiAssumption DEF ApiTypes
  <2> QED BY <1>1, <2>1 DEF Attempt
<1>2. CASE apiNow < Timeout
  <2> DEFINE R == Timeout - apiNow
             m == Endpoints(op) - index + 1
             q == Share(op)
  <2>1. R \in Nat \ {0} /\ m \in Nat \ {0} /\ q \in Nat /\ R + late >= m * q
    BY <1>0, <1>2, ApiAssumption DEF ApiTypes
  <2>2. /\ apiPc' = "waiting" /\ apiIndex' = index /\ UNCHANGED apiResult
        /\ apiBudget' = R \div m /\ until' = apiNow + (R \div m)
        /\ posted' = IF op = "rebind" THEN posted + 1 ELSE posted
    BY <1>2, <2>1 DEF Attempt, Budget
  <2>3. /\ R \div m \in Nat /\ R \div m <= R /\ (R \div m) + late >= q
        /\ R - (R \div m) + late >= (m - 1) * q
    <3> HIDE DEF R, m, q
    <3>1. late \in Nat
      BY DEF ApiTypes
    <3> QED BY <2>1, <3>1, EqualShares
  <2>4. (m - 1) * q = (Endpoints(op) - index) * Share(op)
    <3>1. m - 1 = Endpoints(op) - index
      BY <1>0
    <3> QED BY <3>1
  <2>5. Timeout - until' + late = R - (R \div m) + late
    <3> DEFINE b == R \div m
    <3> HIDE DEF b
    <3>1. b \in Nat /\ until' = apiNow + b
      BY <2>2, <2>3 DEF b
    <3>2. Timeout - until' + late = R - b + late
      BY <3>1, ApiAssumption DEF ApiTypes
    <3> QED BY <3>2 DEF b
  <2>6. until' \in Nat /\ until' <= Timeout
    <3> DEFINE b == R \div m
    <3> HIDE DEF b
    <3>1. b \in Nat /\ b <= R /\ until' = apiNow + b
      BY <2>2, <2>3 DEF b
    <3> QED BY <3>1, ApiAssumption DEF ApiTypes
  <2>7. R + late >= (m - 1) * q
    <3> DEFINE b == R \div m
    <3> HIDE DEF b
    <3>1. b \in Nat /\ R - b + late >= (m - 1) * q
      BY <2>3 DEF b
    <3>2. (m - 1) * q \in Int
      BY <2>1
    <3> HIDE DEF R, m, q
    <3> QED BY <3>1, <3>2, <2>1 DEF ApiTypes
  <2> QED BY <2>2, <2>3, <2>4, <2>5, <2>6, <2>7
<1> QED BY <1>1, <1>2, ApiAssumption DEF ApiTypes

\* An attempt's failure: final, or another attempt with what is left.
LEMMA FailureKeeps ==
  ASSUME ApiInv, apiPc = "waiting", NEW kind, Failed(kind), kind # "ok",
         UNCHANGED <<urlCount, apiOp, apiNow, apiResponse, issued, late>>
  PROVE  ApiInv'
<1>0. Endpoints(apiOp) \in Nat \ {0} /\ Share(apiOp) \in Nat /\ apiOp \in Ops
  BY EndpointsType DEF ApiInv, ApiTypes
<1>1. Endpoints(apiOp)' = Endpoints(apiOp) /\ Share(apiOp)' = Share(apiOp)
  BY DEF Endpoints, Share
<1>2. CASE Retryable(kind) /\ apiIndex < Endpoints(apiOp)
  <2>1. apiOp # "rebind"
    BY <1>2 DEF Endpoints, ApiInv, PartsLeft, ApiTypes
  <2>2. apiIndex + 1 \in 1..Endpoints(apiOp)
    BY <1>0, <1>2 DEF ApiInv, ApiTypes
  <2>3. Endpoints(apiOp) - (apiIndex + 1) + 1 = Endpoints(apiOp) - apiIndex
    BY <1>0 DEF ApiInv, ApiTypes
  <2>4. Attempt(apiIndex + 1, apiOp)
    BY <1>2 DEF Failed
  <2>5. \/ /\ apiPc' = "done" /\ apiResult' = "timeout" /\ apiNow >= Timeout
           /\ UNCHANGED <<apiIndex, until, apiBudget, posted>>
        \/ /\ apiPc' = "waiting" /\ apiIndex' = apiIndex + 1 /\ UNCHANGED apiResult
           /\ apiBudget' \in Nat /\ until' \in Nat /\ until' <= Timeout
           /\ apiBudget' + late >= Share(apiOp)
           /\ Timeout - until' + late >= (Endpoints(apiOp) - (apiIndex + 1)) * Share(apiOp)
           /\ Timeout - apiNow + late >= (Endpoints(apiOp) - (apiIndex + 1)) * Share(apiOp)
           /\ posted' = posted
    <3>1. Timeout - apiNow + late >= (Endpoints(apiOp) - (apiIndex + 1) + 1) * Share(apiOp)
      BY <2>3 DEF ApiInv, PartsLeft
    <3> HIDE <1>1
    <3> QED BY <1>0, <2>1, <2>2, <2>4, <3>1, AttemptGives DEF ApiInv
  <2>6. CASE apiPc' = "done"
    <3>1. apiResult' = "timeout" /\ apiNow >= Timeout /\ UNCHANGED <<apiIndex, until, apiBudget, posted>>
      BY <2>5, <2>6
    <3> QED BY <3>1, <2>6 DEF ApiInv, ApiTypes, Fresh, PartsLeft, PostedOnce, AnswerJustified
  <2>7. CASE apiPc' = "waiting"
    <3>1. /\ apiIndex' = apiIndex + 1 /\ apiResult' = "none"
          /\ apiBudget' \in Nat /\ until' \in Nat /\ until' <= Timeout
          /\ apiBudget' + late >= Share(apiOp)
          /\ Timeout - until' + late >= (Endpoints(apiOp) - apiIndex') * Share(apiOp)
          /\ Timeout - apiNow + late >= (Endpoints(apiOp) - apiIndex') * Share(apiOp)
          /\ posted' = posted
      BY <2>5, <2>7 DEF ApiInv, PartsLeft
    <3>2. ApiTypes'
      BY <3>1, <2>7 DEF ApiInv, ApiTypes
    <3>3. PartsLeft'
      BY <3>1, <2>2, <1>1 DEF PartsLeft
    <3> QED BY <3>1, <3>2, <3>3, <2>7 DEF ApiInv, Fresh, PostedOnce, AnswerJustified
  <2> QED BY <2>5, <2>6, <2>7
<1>3. CASE ~(Retryable(kind) /\ apiIndex < Endpoints(apiOp))
  <2>1. apiPc' = "done" /\ apiResult' = kind /\ UNCHANGED <<apiIndex, until, apiBudget, posted>>
    BY <1>3 DEF Failed
  <2>2. apiOp # "rebind" /\ kind \in {"timeout", "network", "server"} => apiIndex = urlCount
    BY <1>3, <1>0 DEF Retryable, Endpoints, ApiInv, PartsLeft, ApiTypes
  <2> QED BY <2>1, <2>2 DEF ApiInv, ApiTypes, Fresh, PartsLeft, PostedOnce, AnswerJustified
<1> QED BY <1>2, <1>3

\* Every step of with_fallback and rebind_token keeps the invariant.
LEMMA ApiStep ==
  ASSUME ApiInv, [ApiNext]_apiVars
  PROVE  ApiInv'
<1>0. CASE UNCHANGED apiVars
  BY <1>0 DEF apiVars, ApiInv, ApiTypes, Fresh, PartsLeft, PostedOnce, AnswerJustified,
              Endpoints, Share
<1>1. ASSUME NEW op \in Ops, Call(op) PROVE ApiInv'
  <2>0. Endpoints(op) \in Nat \ {0} /\ Share(op) \in Nat /\ Endpoints(op) * Share(op) <= Timeout
    BY EndpointsType DEF ApiInv
  <2>1. apiNow = 0 /\ late = 0 /\ posted = 0 /\ issued = 0 /\ apiResult = "none" /\ apiPc = "idle"
    BY <1>1 DEF Call, ApiInv, Fresh
  <2>2. /\ apiOp' = op /\ Attempt(1, op)
        /\ UNCHANGED <<urlCount, apiNow, apiResponse, issued, late>>
    BY <1>1 DEF Call
  <2>3. Endpoints(apiOp)' = Endpoints(op) /\ Share(apiOp)' = Share(op)
    BY <2>2 DEF Endpoints, Share
  <2>4. Timeout - apiNow + late >= (Endpoints(op) - 1 + 1) * Share(op)
    <3>1. Endpoints(op) - 1 + 1 = Endpoints(op) /\ Timeout - apiNow + late = Timeout
      BY <2>0, <2>1, ApiAssumption
    <3> QED BY <3>1, <2>0
  <2>5. 1 \in 1..Endpoints(op)
    BY <2>0
  <2>6. \/ /\ apiPc' = "done" /\ apiResult' = "timeout" /\ apiNow >= Timeout
           /\ UNCHANGED <<apiIndex, until, apiBudget, posted>>
        \/ /\ apiPc' = "waiting" /\ apiIndex' = 1 /\ UNCHANGED apiResult
           /\ apiBudget' \in Nat /\ until' \in Nat /\ until' <= Timeout
           /\ apiBudget' + late >= Share(op)
           /\ Timeout - until' + late >= (Endpoints(op) - 1) * Share(op)
           /\ Timeout - apiNow + late >= (Endpoints(op) - 1) * Share(op)
           /\ posted' = IF op = "rebind" THEN posted + 1 ELSE posted
    BY <2>2, <2>4, <2>5, AttemptGives DEF ApiInv
  <2>7. CASE apiPc' = "done"
    <3>1. apiResult' = "timeout" /\ apiNow >= Timeout /\ UNCHANGED <<apiIndex, until, apiBudget, posted>>
      BY <2>6, <2>7
    <3> QED BY <3>1, <2>1, <2>2, <2>7
            DEF ApiInv, ApiTypes, Fresh, PartsLeft, PostedOnce, AnswerJustified
  <2>8. CASE apiPc' = "waiting"
    <3>1. /\ apiIndex' = 1 /\ apiResult' = "none"
          /\ apiBudget' \in Nat /\ until' \in Nat /\ until' <= Timeout
          /\ apiBudget' + late >= Share(op)
          /\ Timeout - until' + late >= (Endpoints(op) - apiIndex') * Share(op)
          /\ Timeout - apiNow + late >= (Endpoints(op) - apiIndex') * Share(op)
          /\ posted' = IF op = "rebind" THEN 1 ELSE 0
      BY <2>1, <2>6, <2>8
    <3>2. ApiTypes'
      BY <3>1, <2>1, <2>2, <2>8 DEF ApiInv, ApiTypes
    <3>3. PartsLeft'
      BY <3>1, <2>2, <2>3, <2>5 DEF PartsLeft
    <3>4. PostedOnce'
      BY <3>1, <2>1, <2>2 DEF PostedOnce
    <3> QED BY <3>1, <3>2, <3>3, <3>4, <2>8 DEF ApiInv, Fresh, PostedOnce, AnswerJustified
  <2> QED BY <2>6, <2>7, <2>8
<1>2. ASSUME NEW r \in Responses, Respond(r) PROVE ApiInv'
  <2>1. /\ apiPc = "waiting" /\ UNCHANGED <<urlCount, apiOp, apiNow, issued, late>>
    BY <1>2 DEF Respond
  <2>2. CASE Outcome(r) = "ok"
    <3>1. /\ apiPc' = "done" /\ apiResult' = "ok" /\ apiResponse' = r
          /\ UNCHANGED <<apiIndex, until, apiBudget, posted>>
      BY <1>2, <2>2 DEF Respond
    <3>2. Received(r) = "ok" => r.status = 200
      BY DEF Received, HttpErrorKind
    <3>3. Received(r) = "ok" /\ r.json /\ (apiOp = "managed" => r.ret = 200 /\ r.signature = "right")
      <4>1. HttpErrorKind(r.ret) # "ok" /\ HttpErrorKind(r.status) # "ok"
        BY DEF HttpErrorKind
      <4>2. CASE apiOp = "information"
        BY <2>2, <4>2 DEF Outcome, InformationOutcome
      <4>3. CASE apiOp = "managed"
        BY <2>2, <4>1, <4>3 DEF Outcome, ManagedOutcome
      <4>4. CASE apiOp = "rebind"
        BY <2>2, <4>1, <4>4 DEF Outcome, RebindOutcome
      <4> QED BY <4>2, <4>3, <4>4 DEF ApiInv, ApiTypes, Ops
    <3>4. AnswerJustified'
      BY <2>1, <3>1, <3>2, <3>3 DEF ApiInv, AnswerJustified
    <3> QED BY <2>1, <3>1, <3>4 DEF ApiInv, ApiTypes, Fresh, PartsLeft, PostedOnce
  <2>3. CASE Outcome(r) # "ok"
    BY <1>2, <2>1, <2>3, FailureKeeps DEF Respond
  <2> QED BY <2>2, <2>3
<1>3. ASSUME NEW kind \in {"network", "tls", "other"}, TransportFails(kind) PROVE ApiInv'
  BY <1>3, FailureKeeps DEF TransportFails
<1>4. CASE TimerFires
  BY <1>4, FailureKeeps DEF TimerFires
<1>5. CASE Issue
  <2>1. Endpoints(apiOp)' = Endpoints(apiOp) /\ Share(apiOp)' = Share(apiOp)
    BY <1>5 DEF Issue, Endpoints, Share
  <2>2. ApiTypes' /\ PostedOnce' /\ Fresh' /\ AnswerJustified'
    BY <1>5 DEF Issue, ApiInv, ApiTypes, PostedOnce, Fresh, AnswerJustified
  <2>3. PartsLeft'
    BY <1>5, <2>1 DEF Issue, ApiInv, PartsLeft
  <2> QED BY <2>2, <2>3 DEF ApiInv
<1>6. CASE Tick
  <2>1. Endpoints(apiOp)' = Endpoints(apiOp) /\ Share(apiOp)' = Share(apiOp)
    BY <1>6 DEF Tick, Endpoints, Share
  <2>2. ApiTypes' /\ PostedOnce' /\ Fresh' /\ AnswerJustified'
    BY <1>6, ApiAssumption DEF Tick, ApiInv, ApiTypes, PostedOnce, Fresh, AnswerJustified
  <2>3. PartsLeft'
    <3>0. Endpoints(apiOp) \in Nat \ {0} /\ Share(apiOp) \in Nat
      BY EndpointsType DEF ApiInv, ApiTypes
    <3> DEFINE need == (Endpoints(apiOp) - apiIndex) * Share(apiOp)
    <3>1. need \in Int
      BY <3>0 DEF ApiInv, ApiTypes
    <3>2. /\ Timeout - until + late >= need /\ Timeout - apiNow + late >= need
          /\ apiIndex \in 1..Endpoints(apiOp) /\ apiResult = "none"
          /\ until <= Timeout /\ apiBudget + late >= Share(apiOp)
      BY <1>6 DEF Tick, ApiInv, PartsLeft
    <3> HIDE DEF need
    <3>3. Timeout - until + late' >= need /\ Timeout - apiNow' + late' >= need
          /\ apiBudget + late' >= Share(apiOp)
      <4>1. CASE apiNow < until
        <5>1. late' = late /\ apiNow' = apiNow + 1 /\ apiNow + 1 <= until
          BY <1>6, <4>1 DEF Tick, ApiInv, ApiTypes
        <5> QED BY <5>1, <3>0, <3>1, <3>2, ApiAssumption DEF ApiInv, ApiTypes
      <4>2. CASE apiNow >= until
        <5>1. late' = late + 1 /\ apiNow' = apiNow + 1
          BY <1>6, <4>2 DEF Tick, ApiInv, ApiTypes
        <5> QED BY <5>1, <3>0, <3>1, <3>2, ApiAssumption DEF ApiInv, ApiTypes
      <4> QED BY <4>1, <4>2 DEF ApiInv, ApiTypes
    <3>4. UNCHANGED <<apiIndex, until, apiBudget, apiResult>>
      BY <1>6 DEF Tick
    <3> QED BY <2>1, <3>2, <3>3, <3>4 DEF PartsLeft, need
  <2> QED BY <2>2, <2>3 DEF ApiInv
<1> QED BY <1>0, <1>1, <1>2, <1>3, <1>4, <1>5, <1>6 DEF ApiNext

(***************************************************************************)
(* A call's answer is justified, one call never makes the server issue two *)
(* tokens, and each URL gets its part of the timeout but for the ticks     *)
(* timers were late (api.rs with_fallback, rebind_token).                  *)
(***************************************************************************)
THEOREM CallsAreSound == ApiSpec => []CallSound
<1>1. ApiSpec => []ApiInv
  BY ApiInitial, ApiStep, PTL DEF ApiSpec
<1>2. ApiInv => CallSound
  BY DEF ApiInv, PartsLeft, CallSound, FairShare, Share
<1> QED BY <1>1, <1>2, PTL
=============================================================================
