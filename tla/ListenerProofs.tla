--------------------------- MODULE ListenerProofs ---------------------------
(***************************************************************************)
(* Proofs about the parts that clients meet.                               *)
(*                                                                         *)
(* Admission, for any connections, limits and number of reloads:           *)
(* CountExact is needed for one reason, a counter that equals a number of  *)
(* connections never passes below zero, so that TypeOK is inductive only   *)
(* together with it.                                                       *)
(*                                                                         *)
(* UdpPorts, for any number of associations and any range: FreePortFound   *)
(* needs to know how far a scan has come (Tried) and that PortCount        *)
(* consecutive indices, taken modulo PortCount, are all of them.           *)
(*                                                                         *)
(* UdpAssociation, for any addresses, idle timeout and length of a         *)
(* millisecond: ExpiresOnTime needs the deadline the timer sleeps until,   *)
(* which is never later than the last activity allows (TimerSet).          *)
(*                                                                         *)
(* HttpRequest, for any heads, credentials, limits, digits, bodies and     *)
(* reads of them. The headers that frame a body are forwarded whatever the *)
(* Connection header of the request lists (FramingIsForwarded), so that    *)
(* the framing the proxy parsed is the one that every reader with the same *)
(* header lines (Apt) sees (Fits). A line that the proxy accepts ends for  *)
(* every reader where it does for the proxy (LineReads), and the size in   *)
(* it, of few enough digits, is the same number for both (SizeReads); one  *)
(* that it refuses is none of the grammar (LineRefused, EndRefused). While *)
(* a body is forwarded, what was sent, is pending, is kept of a line, is   *)
(* buffered, is left over and is unread are consecutive parts of what the  *)
(* client sends (Pieces), and from where the proxy stands a reader has the *)
(* end of the body where the proxy will find it (Place). HttpInv says this *)
(* of every such reader, with what holds before the upstream is there      *)
(* (Starting) and when the request is over (Settled).                      *)
(***************************************************************************)
EXTENDS Admission, UdpPorts, UdpAssociation, HttpRequest, SharedLemmas, FiniteSetTheorems

-----------------------------------------------------------------------------
(* Admission *)

Serving == {c \in Conns : conn[c] = "serving"}

\* The admission about to be counted was found to be within the limit, and
\* drops since then have only made more room.
RoomLeft == pc = "add" => count < current

\* The limit last borrowed is the one in force unless settings were sent
\* since.
BorrowedCurrent == pc \in {"test", "add", "full", "wait"} =>
                     seen # version \/ current = limit

\* `seen` never runs ahead.
SeenBefore == seen <= version

AdmissionInv ==
    /\ TypeOK
    /\ CountExact
    /\ RoomLeft
    /\ BorrowedCurrent
    /\ SeenBefore
    /\ NoLostWakeup

-----------------------------------------------------------------------------
\* The initial states satisfy the invariant: nobody is served.
LEMMA AdmissionInitInv == Init => AdmissionInv
<1> SUFFICES ASSUME Init PROVE AdmissionInv
  OBVIOUS
<1> USE AdmissionAssumption
<1>1. TypeOK
  <2>1. permit \in BOOLEAN
    BY Zenon DEF Init
  <2>2. conn \in [Conns -> {"free", "serving", "leaving"}]
    BY Zenon DEF Init
  <2> QED
    BY <2>1, <2>2 DEF Init, TypeOK, PcStates
<1>2. CountExact
  <2>1. {c \in Conns : conn[c] = "serving"} = {}
    BY DEF Init
  <2> QED
    BY <2>1, FS_EmptySet DEF Init, CountExact
<1> QED
  BY <1>1, <1>2 DEF Init, AdmissionInv, RoomLeft, BorrowedCurrent, SeenBefore,
                    NoLostWakeup

\* Steps of the listener that move no connection: they change the listener's
\* place, its copy of the settings or the stored permit.
LEMMA ListenerInv ==
    ASSUME AdmissionInv,
           \/ Accept \/ AcceptBacksOff \/ BackoffEnds \/ AcceptFatal
           \/ Listener \/ UNCHANGED vars
    PROVE  AdmissionInv'
<1> USE AdmissionAssumption
<1>1. TypeOK'
  BY DEF AdmissionInv, TypeOK, PcStates, Accept, AcceptBacksOff, BackoffEnds,
         AcceptFatal, Listener, Borrow, Test, Wait, SettingsChanged, Notified,
         vars
<1>2. count' = count /\ conn' = conn /\ limit' = limit /\ version' = version
  BY DEF Accept, AcceptBacksOff, BackoffEnds, AcceptFatal, Listener, Borrow,
         Test, Wait, SettingsChanged, Notified, vars
<1>3. CountExact'
  BY <1>2 DEF AdmissionInv, CountExact
<1>4. RoomLeft' /\ BorrowedCurrent' /\ SeenBefore'
  BY <1>2 DEF AdmissionInv, TypeOK, PcStates, RoomLeft, BorrowedCurrent, SeenBefore,
         Accept, AcceptBacksOff, BackoffEnds, AcceptFatal, Listener, Borrow,
         Test, Wait, SettingsChanged, Notified, vars
<1>5. NoLostWakeup'
  BY <1>2 DEF AdmissionInv, TypeOK, PcStates, BorrowedCurrent, NoLostWakeup,
         Accept, AcceptBacksOff, BackoffEnds, AcceptFatal, Listener, Borrow,
         Test, Wait, SettingsChanged, Notified, vars
<1> QED
  BY <1>1, <1>3, <1>4, <1>5 DEF AdmissionInv

\* An admission adds one connection to those being served.
LEMMA AdmitInv ==
    ASSUME AdmissionInv, NEW c \in Conns, Admit(c)
    PROVE  AdmissionInv'
<1> USE AdmissionAssumption
<1>1. Serving' = Serving \cup {c} /\ c \notin Serving
  BY DEF AdmissionInv, TypeOK, Admit, Serving
<1>2. IsFiniteSet(Serving)
  BY FS_Subset DEF Serving
<1>3. CountExact'
  BY <1>1, <1>2, FS_AddElement DEF AdmissionInv, CountExact, Serving, Admit
<1>4. TypeOK'
  BY DEF AdmissionInv, TypeOK, PcStates, Admit
<1> QED
  BY <1>3, <1>4 DEF AdmissionInv, TypeOK, Admit, RoomLeft, BorrowedCurrent,
                    SeenBefore, NoLostWakeup

\* A connection that ends is counted out; as there was one, the counter was
\* positive.
LEMMA LeaveInv ==
    ASSUME AdmissionInv, NEW c \in Conns, Leave(c)
    PROVE  AdmissionInv'
<1> USE AdmissionAssumption
<1>1. Serving' = Serving \ {c} /\ c \in Serving
  BY DEF AdmissionInv, TypeOK, Leave, Serving
<1>2. IsFiniteSet(Serving)
  BY FS_Subset DEF Serving
<1>3. Cardinality(Serving') = Cardinality(Serving) - 1
  BY <1>1, <1>2, FS_RemoveElement
<1>4. Cardinality(Serving') \in Nat
  BY <1>1, <1>2, FS_RemoveElement, FS_CardinalityType
<1>5. CountExact'
  BY <1>3 DEF AdmissionInv, CountExact, Serving, Leave
<1>6. count' \in Nat
  BY <1>4, <1>5 DEF CountExact, Serving
<1>7. TypeOK'
  BY <1>6 DEF AdmissionInv, TypeOK, PcStates, Leave
<1>8. RoomLeft' /\ BorrowedCurrent' /\ SeenBefore'
  BY DEF AdmissionInv, TypeOK, Leave, RoomLeft, BorrowedCurrent, SeenBefore
<1>9. conn'[c] = "leaving"
  BY DEF AdmissionInv, TypeOK, Leave
<1>10. NoLostWakeup'
  BY <1>9 DEF NoLostWakeup
<1> QED
  BY <1>5, <1>7, <1>8, <1>10 DEF AdmissionInv

\* The end of a drop leaves a permit behind, whatever the listener is doing.
LEMMA LeftInv ==
    ASSUME AdmissionInv, NEW c \in Conns, Left(c)
    PROVE  AdmissionInv'
<1> USE AdmissionAssumption
<1>1. Serving' = Serving
  BY DEF AdmissionInv, TypeOK, Left, Serving
<1>2. CountExact'
  BY <1>1 DEF AdmissionInv, CountExact, Serving, Left
<1>3. TypeOK'
  BY DEF AdmissionInv, TypeOK, PcStates, Left
<1> QED
  BY <1>2, <1>3 DEF AdmissionInv, TypeOK, Left, RoomLeft, BorrowedCurrent,
                    SeenBefore, NoLostWakeup

\* A reload makes every copy of the settings out of date.
LEMMA ReloadInv ==
    ASSUME AdmissionInv, NEW l \in Limits, Reload(l)
    PROVE  AdmissionInv'
<1> USE AdmissionAssumption
<1>1. TypeOK'
  BY DEF AdmissionInv, TypeOK, PcStates, Reload
<1>2. CountExact'
  BY DEF AdmissionInv, CountExact, Reload
<1>3. seen' # version'
  BY DEF AdmissionInv, TypeOK, SeenBefore, Reload
<1> QED
  BY <1>1, <1>2, <1>3 DEF AdmissionInv, TypeOK, Reload, RoomLeft, BorrowedCurrent,
                          SeenBefore, NoLostWakeup

\* Every step of the listener, a connection or a reload keeps the invariant.
LEMMA AdmissionNextInv == AdmissionInv /\ [Next]_vars => AdmissionInv'
<1> SUFFICES ASSUME AdmissionInv, [Next]_vars PROVE AdmissionInv'
  OBVIOUS
<1>1. CASE \/ Accept \/ AcceptBacksOff \/ BackoffEnds \/ AcceptFatal
           \/ Listener \/ UNCHANGED vars
  BY <1>1, ListenerInv
<1>2. ASSUME NEW c \in Conns, Admit(c) PROVE AdmissionInv'
  BY <1>2, AdmitInv
<1>3. ASSUME NEW c \in Conns, Leave(c) PROVE AdmissionInv'
  BY <1>3, LeaveInv
<1>4. ASSUME NEW c \in Conns, Left(c) PROVE AdmissionInv'
  BY <1>4, LeftInv
<1>5. ASSUME NEW l \in Limits, Reload(l) PROVE AdmissionInv'
  BY <1>5, ReloadInv
<1> QED
  BY <1>1, <1>2, <1>3, <1>4, <1>5 DEF Next

\* Whatever ends, is admitted or is reloaded at the same time: the counter of
\* serve_dynamic_listener is exact and admit_connection loses no wakeup.
THEOREM AdmissionCorrect == Spec => [](TypeOK /\ CountExact /\ NoLostWakeup)
<1>1. AdmissionInv => TypeOK /\ CountExact /\ NoLostWakeup
  BY DEF AdmissionInv
<1> QED
  BY <1>1, AdmissionInitInv, AdmissionNextInv, PTL DEF Spec

\* Only admit_connection raises the counter, and it has found room below the
\* limit it borrowed, of which nothing but its own admission takes any.
THEOREM AdmissionWithinLimit == Spec => AdmitWithinLimit
<1>1. AdmissionInv /\ [Next]_vars => [count' > count => count' <= current]_vars
  <2> SUFFICES ASSUME AdmissionInv, Next PROVE count' > count => count' <= current
    BY DEF vars
  <2>1. ASSUME NEW c \in Conns, Admit(c) PROVE count' <= current
    BY <2>1, AdmissionAssumption DEF AdmissionInv, TypeOK, RoomLeft, Admit
  <2>2. ASSUME NEW c \in Conns, Leave(c) \/ Left(c) PROVE ~(count' > count)
    BY <2>2 DEF AdmissionInv, TypeOK, Leave, Left
  <2>3. ASSUME NEW l \in Limits, Reload(l) PROVE ~(count' > count)
    BY <2>3 DEF AdmissionInv, TypeOK, Reload
  <2>4. ASSUME \/ Accept \/ AcceptBacksOff \/ BackoffEnds \/ AcceptFatal
               \/ Listener
        PROVE  ~(count' > count)
    BY <2>4 DEF AdmissionInv, TypeOK, Accept, AcceptBacksOff, BackoffEnds,
           AcceptFatal, Listener, Borrow, Test, Wait, SettingsChanged, Notified
  <2> QED
    BY <2>1, <2>2, <2>3, <2>4 DEF Next
<1> QED
  BY <1>1, AdmissionInitInv, AdmissionNextInv, PTL DEF Spec, AdmitWithinLimit

-----------------------------------------------------------------------------
(* UDP *)

\* A scan has passed by no port that was free ever since it began.
Tried ==
    \A a \in Assocs : portPc[a] = "scan" =>
      /\ offset[a] < PortCount
      /\ \A k \in 0..offset[a] - 1 : (first[a] + k) % PortCount \notin free[a]

\* What is free ever since is free.
FreeNow == \A a \in Assocs : portPc[a] = "scan" => free[a] \cap bound = {}

PortsInv == PortsTypeOK /\ Tried /\ FreeNow /\ FreePortFound /\ OwnPort

-----------------------------------------------------------------------------
\* The remainder of a sum of two indices.
LEMMA ModStep ==
    ASSUME NEW n \in Nat \ {0}, NEW i \in 0..n - 1
    PROVE  i % n = i /\ (i + n) % n = i
  BY SMTT(60)

\* Any number has a remainder below n.
LEMMA ModRange ==
    ASSUME NEW n \in Nat \ {0}, NEW x \in Nat
    PROVE  x % n \in 0..n - 1
  BY SMTT(60)

\* n steps from anywhere lead past every index.
LEMMA AllTried ==
    ASSUME NEW n \in Nat \ {0}, NEW f \in 0..n - 1, NEW p \in 0..n - 1
    PROVE  \E k \in 0..n - 1 : (f + k) % n = p
<1>1. CASE f <= p
  <2>1. p - f \in 0..n - 1 /\ f + (p - f) = p
    BY <1>1
  <2>2. (f + (p - f)) % n = p
    BY <2>1, ModStep
  <2> QED
    BY <2>1, <2>2
<1>2. CASE p < f
  <2>1. p + n - f \in 0..n - 1 /\ f + (p + n - f) = p + n
    BY <1>2
  <2>2. (f + (p + n - f)) % n = p
    BY <2>1, ModStep
  <2> QED
    BY <2>1, <2>2
<1> QED
  BY <1>1, <1>2

\* The port tried next is one of the range.
LEMMA IndexInRange ==
    ASSUME PortsTypeOK, NEW a \in Assocs
    PROVE  Index(a) \in Ports
<1>1. first[a] + offset[a] \in Nat
  BY UdpPortsAssumption DEF PortsTypeOK, Ports
<1> QED
  BY <1>1, ModRange, UdpPortsAssumption DEF Index, Ports

-----------------------------------------------------------------------------
\* No association has begun its scan, and none has a port.
LEMMA PortsInitInv == PortsInit => PortsInv
  BY UdpPortsAssumption
  DEF PortsInit, PortsInv, PortsTypeOK, Tried, FreeNow, FreePortFound, OwnPort, Holds,
      Ports, PortPcStates

\* An association begins to look for a port.
LEMMA BeginBindInv ==
    ASSUME PortsInv, NEW a \in Assocs, BeginBind(a)
    PROVE  PortsInv'
<1> USE UdpPortsAssumption
<1>1. nextPort % PortCount \in Ports
  BY ModRange DEF PortsInv, PortsTypeOK, Ports
<1>2. (nextPort + 1) % UsizeWrap \in 0..UsizeWrap - 1
  BY ModRange DEF PortsInv, PortsTypeOK
<1>3. PortsTypeOK'
  BY <1>1, <1>2 DEF PortsInv, BeginBind, PortsTypeOK, Ports, PortPcStates
<1>4. Tried'
  BY DEF PortsInv, BeginBind, PortsTypeOK, Tried
<1>5. FreeNow' /\ FreePortFound'
  BY DEF PortsInv, BeginBind, PortsTypeOK, FreeNow, FreePortFound
<1>6. OwnPort'
  BY DEF PortsInv, BeginBind, PortsTypeOK, OwnPort, Holds, Index
<1> QED
  BY <1>3, <1>4, <1>5, <1>6 DEF PortsInv

\* It binds one: nobody held it, since those that are held are bound.
LEMMA BindInv ==
    ASSUME PortsInv, NEW a \in Assocs, Bind(a)
    PROVE  PortsInv'
<1> USE UdpPortsAssumption
<1>1. Index(a) \in Ports
  BY IndexInRange DEF PortsInv
<1>2. PortsTypeOK'
  BY <1>1 DEF PortsInv, Bind, Take, PortsTypeOK, PortPcStates
<1>3. Tried' /\ FreeNow' /\ FreePortFound'
  BY DEF PortsInv, Bind, Take, PortsTypeOK, Tried, FreeNow, FreePortFound
<1>4. \A b \in Assocs : Index(b)' = Index(b)
  BY DEF Bind, Index
<1>5. OwnPort'
  BY <1>4 DEF PortsInv, Bind, Take, PortsTypeOK, OwnPort, Holds
<1> QED
  BY <1>2, <1>3, <1>5 DEF PortsInv

\* It passes by a port in use, which is therefore not one that was free ever
\* since; after the last one, none is left.
LEMMA AddrInUseInv ==
    ASSUME PortsInv, NEW a \in Assocs, AddrInUse(a)
    PROVE  PortsInv'
<1> USE UdpPortsAssumption
<1>1. offset[a] \in 0..PortCount - 1 /\ offset'[a] = offset[a] + 1
  BY DEF PortsInv, AddrInUse, PortsTypeOK, Tried
<1>2. PortsTypeOK'
  BY <1>1 DEF PortsInv, AddrInUse, PortsTypeOK, PortPcStates
<1>3. (first[a] + offset[a]) % PortCount \notin free[a]
  BY DEF PortsInv, AddrInUse, FreeNow, Index
<1>4. \A k \in 0..offset[a] : (first[a] + k) % PortCount \notin free[a]
  <2> SUFFICES ASSUME NEW k \in 0..offset[a]
               PROVE  (first[a] + k) % PortCount \notin free[a]
    OBVIOUS
  <2>1. CASE k = offset[a]
    BY <2>1, <1>3
  <2>2. CASE k \in 0..offset[a] - 1
    BY <2>2 DEF PortsInv, AddrInUse, Tried
  <2> QED
    BY <1>1, <2>1, <2>2
<1>5. Tried'
  <2> SUFFICES ASSUME NEW b \in Assocs, portPc'[b] = "scan"
               PROVE  /\ offset'[b] < PortCount
                      /\ \A k \in 0..offset'[b] - 1 :
                           (first'[b] + k) % PortCount \notin free'[b]
    BY DEF Tried
  <2>1. CASE b = a
    <3>1. offset[a] + 1 # PortCount
      BY <2>1 DEF PortsInv, PortsTypeOK, AddrInUse
    <3>2. 0..offset'[a] - 1 = 0..offset[a]
      BY <1>1
    <3> QED
      BY <2>1, <3>1, <3>2, <1>1, <1>4 DEF AddrInUse
  <2>2. CASE b # a
    BY <2>2 DEF PortsInv, PortsTypeOK, AddrInUse, Tried
  <2> QED
    BY <2>1, <2>2
<1>6. FreeNow'
  BY DEF PortsInv, PortsTypeOK, AddrInUse, FreeNow
<1>7. FreePortFound'
  <2> SUFFICES ASSUME NEW b \in Assocs, portPc'[b] = "refused"
               PROVE  free'[b] = {}
    BY DEF FreePortFound
  <2>1. CASE b = a
    <3>1. offset[a] = PortCount - 1
      BY <2>1, <1>1 DEF PortsInv, PortsTypeOK, AddrInUse
    <3>2. ASSUME NEW p \in free[a] PROVE FALSE
      <4>1. p \in 0..PortCount - 1 /\ first[a] \in 0..PortCount - 1
        BY DEF PortsInv, PortsTypeOK, Ports
      <4>2. PICK k \in 0..PortCount - 1 : (first[a] + k) % PortCount = p
        BY <4>1, AllTried
      <4> QED
        BY <4>2, <3>1, <1>4
    <3> QED
      BY <2>1, <3>2 DEF AddrInUse
  <2>2. CASE b # a
    BY <2>2 DEF PortsInv, PortsTypeOK, AddrInUse, FreePortFound
  <2> QED
    BY <2>1, <2>2
<1>8. OwnPort'
  <2>1. \A b \in Assocs : b # a => Index(b)' = Index(b)
    BY DEF PortsInv, PortsTypeOK, AddrInUse, Index
  <2>2. portPc'[a] \notin {"store", "open"} /\ portPc[a] = "scan"
    BY DEF PortsInv, PortsTypeOK, AddrInUse
  <2>3. \A b \in Assocs : b # a => portPc'[b] = portPc[b]
    BY DEF PortsInv, PortsTypeOK, AddrInUse
  <2> QED
    BY <2>1, <2>2, <2>3 DEF PortsInv, AddrInUse, OwnPort, Holds
<1> QED
  BY <1>2, <1>5, <1>6, <1>7, <1>8 DEF PortsInv

\* A bind that fails, the rotation of next_port and the end of a refused
\* association touch no port.
LEMMA QuietInv ==
    ASSUME PortsInv, NEW a \in Assocs, BindFails(a) \/ StoreNext(a) \/ Refused(a)
    PROVE  PortsInv'
<1> USE UdpPortsAssumption
<1>1. Index(a) + 1 \in 0..UsizeWrap - 1
  BY IndexInRange DEF PortsInv, Ports
<1>2. PortsTypeOK'
  BY <1>1 DEF PortsInv, BindFails, StoreNext, Refused, PortsTypeOK, PortPcStates
<1>3. Tried' /\ FreeNow' /\ FreePortFound'
  BY DEF PortsInv, BindFails, StoreNext, Refused, PortsTypeOK, Tried, FreeNow,
         FreePortFound
<1>4. \A b \in Assocs : Index(b)' = Index(b)
  BY DEF BindFails, StoreNext, Refused, Index
<1>5. OwnPort'
  BY <1>4 DEF PortsInv, BindFails, StoreNext, Refused, PortsTypeOK, OwnPort, Holds
<1> QED
  BY <1>2, <1>3, <1>5 DEF PortsInv

\* An association ends and closes a port that no other holds.
LEMMA EndsInv ==
    ASSUME PortsInv, NEW a \in Assocs, Ends(a)
    PROVE  PortsInv'
<1>1. PortsTypeOK'
  BY DEF PortsInv, Ends, PortsTypeOK, PortPcStates
<1>2. Tried' /\ FreeNow' /\ FreePortFound'
  BY DEF PortsInv, Ends, PortsTypeOK, Tried, FreeNow, FreePortFound
<1>3. \A b \in Assocs : Index(b)' = Index(b)
  BY DEF Ends, Index
<1>4. OwnPort'
  BY <1>3 DEF PortsInv, Ends, PortsTypeOK, OwnPort, Holds
<1> QED
  BY <1>1, <1>2, <1>4 DEF PortsInv

\* Other programs bind free ports and close their own.
LEMMA OtherInv ==
    ASSUME PortsInv, NEW p \in Ports, OtherBinds(p) \/ OtherCloses(p)
    PROVE  PortsInv'
<1>1. PortsTypeOK'
  BY DEF PortsInv, OtherBinds, OtherCloses, Take, PortsTypeOK
<1>2. Tried' /\ FreeNow' /\ FreePortFound'
  BY DEF PortsInv, OtherBinds, OtherCloses, Take, PortsTypeOK, Tried, FreeNow,
         FreePortFound
<1>3. \A b \in Assocs : Index(b)' = Index(b)
  BY DEF OtherBinds, OtherCloses, Index
<1>4. OwnPort'
  BY <1>3 DEF PortsInv, OtherBinds, OtherCloses, Take, PortsTypeOK, OwnPort, Holds
<1> QED
  BY <1>1, <1>2, <1>4 DEF PortsInv

\* Every step of UdpRelay::bind, and every port another program takes or
\* gives back, keeps the invariant.
LEMMA PortsNextInv == PortsInv /\ [PortsNext]_portVars => PortsInv'
<1> SUFFICES ASSUME PortsInv, [PortsNext]_portVars PROVE PortsInv'
  OBVIOUS
<1>1. CASE UNCHANGED portVars
  BY <1>1 DEF portVars, PortsInv, PortsTypeOK, Tried, FreeNow, FreePortFound, OwnPort,
              Holds, Index
<1>2. ASSUME NEW a \in Assocs, BeginBind(a) PROVE PortsInv'
  BY <1>2, BeginBindInv
<1>3. ASSUME NEW a \in Assocs, Bind(a) PROVE PortsInv'
  BY <1>3, BindInv
<1>4. ASSUME NEW a \in Assocs, AddrInUse(a) PROVE PortsInv'
  BY <1>4, AddrInUseInv
<1>5. ASSUME NEW a \in Assocs, BindFails(a) \/ StoreNext(a) \/ Refused(a)
      PROVE  PortsInv'
  BY <1>5, QuietInv
<1>6. ASSUME NEW a \in Assocs, Ends(a) PROVE PortsInv'
  BY <1>6, EndsInv
<1>7. ASSUME NEW p \in Ports, OtherBinds(p) \/ OtherCloses(p) PROVE PortsInv'
  BY <1>7, OtherInv
<1> QED
  BY <1>1, <1>2, <1>3, <1>4, <1>5, <1>6, <1>7 DEF PortsNext

\* UdpRelay::bind refuses an association only if every port of the range was
\* in use at some moment of its scan, and gives no two associations one port.
THEOREM PortsCorrect == PortsSpec => [](PortsTypeOK /\ FreePortFound /\ OwnPort)
<1>1. PortsInv => PortsTypeOK /\ FreePortFound /\ OwnPort
  BY DEF PortsInv
<1> QED
  BY <1>1, PortsInitInv, PortsNextInv, PTL DEF PortsSpec

-----------------------------------------------------------------------------
(* One association: its peer and its idle timer. *)

AssocTypeOK ==
    /\ assocPc \in {"bound", "dialed", "relay", "closing", "ended"}
    /\ ipKnown \in BOOLEAN
    /\ client \in Addrs \cup {Nobody}
    /\ writing \in Addrs \cup {Nobody}
    /\ now \in Nat /\ started \in Nat /\ last \in Nat /\ wakeAt \in Nat /\ moved \in Nat
    /\ timedOut \in BOOLEAN
    /\ peers \subseteq Addrs

\* Everything relayed is the settled client's, who is settled by a datagram
\* from the right IP and not before the relay begins.
ClientSettled ==
    /\ peers \subseteq {client} \ {Nobody}
    /\ writing \in {Nobody, client}
    /\ ipKnown /\ client # Nobody => client \in ControlAddrs
    /\ assocPc \in {"bound", "dialed"} => client = Nobody

\* While it relays, the timer is set no later than the last activity, as
\* Activity knows it, allows.
TimerSet ==
    assocPc = "relay" =>
      /\ started <= moved /\ moved <= now
      /\ last = Millis(moved - started)
      /\ now <= wakeAt /\ wakeAt <= started + last + IdleTimeout

AssocInv == AssocTypeOK /\ ClientSettled /\ TimerSet

\* Whole milliseconds are at most the time and less than one short of it.
LEMMA MillisBounds ==
    ASSUME NEW t \in Nat
    PROVE  Millis(t) \in Nat /\ Millis(t) <= t /\ t < Millis(t) + PerMilli
<1>1. PerMilli \in Nat /\ PerMilli > 0
  BY UdpAssociationAssumption
<1>2. t = PerMilli * (t \div PerMilli) + (t % PerMilli)
  BY <1>1
<1>3. t % PerMilli \in 0..PerMilli - 1 /\ t \div PerMilli \in Nat
  BY <1>1
<1>4. (t \div PerMilli) * PerMilli = PerMilli * (t \div PerMilli) /\ (t \div PerMilli) * PerMilli \in Nat
  BY <1>1, <1>3
<1> QED
  BY <1>1, <1>2, <1>3, <1>4 DEF Millis

\* Millis is monotone.
LEMMA MillisMonotone ==
    ASSUME NEW t \in Nat, NEW u \in Nat, t <= u
    PROVE  Millis(t) <= Millis(u)
<1>1. PerMilli \in Nat /\ PerMilli > 0
  BY UdpAssociationAssumption
<1>2. PICK q \in Nat, r \in Nat : q = t \div PerMilli /\ r = u \div PerMilli
  BY <1>1
<1>3. q <= r
  BY <1>1, <1>2, SMTT(30)
<1>4. q * PerMilli <= r * PerMilli
  BY <1>1, <1>3, SMTT(30)
<1> QED
  BY <1>2, <1>4 DEF Millis

\* Init establishes the invariant.
LEMMA AssocInitInv == AssocInit => AssocInv
<1> SUFFICES ASSUME AssocInit PROVE AssocInv
  OBVIOUS
<1>1. AssocTypeOK
  BY DEF AssocInit, AssocTypeOK
<1>2. ClientSettled
  BY DEF AssocInit, ClientSettled
<1>3. TimerSet
  BY DEF AssocInit, TimerSet
<1> QED
  BY <1>1, <1>2, <1>3 DEF AssocInv

\* Every step preserves it.
LEMMA AssocNextInv == AssocInv /\ [AssocNext]_assocVars => AssocInv'
<1> SUFFICES ASSUME AssocInv, [AssocNext]_assocVars PROVE AssocInv'
  OBVIOUS
<1>0. AssocTypeOK /\ ClientSettled /\ TimerSet
  BY DEF AssocInv
<1>a. Nobody \notin Addrs /\ ControlAddrs \subseteq Addrs
  BY UdpAssociationAssumption
<1>b. PerMilli \in Nat /\ PerMilli > 0 /\ IdleTimeout \in Nat
  BY UdpAssociationAssumption
<1>t. assocPc = "relay" => now - started \in Nat /\ Millis(now - started) \in Nat
  BY <1>0, MillisBounds DEF AssocTypeOK, TimerSet
<1>1. AssocTypeOK'
  <2>1. CASE UNCHANGED assocVars \/ UpstreamDropped
    BY <1>0, <2>1 DEF AssocTypeOK, assocVars, UpstreamDropped
  <2>2. CASE DialFails \/ Dialed \/ ReplyFails \/ LoopEnds \/ Closed \/ Tick
    BY <1>0, <2>2 DEF AssocTypeOK, timeVars, idleVars, DialFails, Dialed, ReplyFails,
       LoopEnds, Stop, Closed, Tick
  <2>3. CASE \E known \in BOOLEAN : Replied(known)
    BY <1>0, <1>b, <2>3 DEF AssocTypeOK, Replied
  <2>4. CASE IdleWakes
    <3>1. UNCHANGED <<ipKnown, client, now, started, last, moved, peers>>
      BY <2>4 DEF IdleWakes, timeVars
    <3>2. /\ assocPc' = assocPc \/ assocPc' = "closing"
          /\ writing' = writing \/ writing' = Nobody
          /\ wakeAt' = wakeAt \/ wakeAt' = started + last + IdleTimeout
      BY <2>4 DEF IdleWakes, Stop
    <3>3. timedOut' \in BOOLEAN
      BY <1>0, <2>4, Zenon DEF AssocTypeOK, IdleWakes
    <3> QED
      BY <1>0, <1>b, <3>1, <3>2, <3>3 DEF AssocTypeOK
  <2>5. CASE \E s \in Addrs, kind \in Kinds : ClientDatagram(s, kind)
    BY <1>0, <2>5 DEF AssocTypeOK, timeVars, idleVars, ClientDatagram
  <2>6. CASE Written \/ UpstreamDatagram
    BY <1>0, <1>t, <2>6 DEF AssocTypeOK, timeVars, Written, UpstreamDatagram, Touch
  <2> QED
    BY <2>1, <2>2, <2>3, <2>4, <2>5, <2>6 DEF AssocNext
<1>2. ClientSettled'
  <2>1. CASE UNCHANGED assocVars \/ UpstreamDropped
    BY <1>0, <2>1 DEF ClientSettled, assocVars, UpstreamDropped
  <2>2. CASE DialFails \/ Dialed \/ ReplyFails \/ LoopEnds \/ Closed \/ Tick
    BY <1>0, <2>2 DEF ClientSettled, timeVars, idleVars, DialFails, Dialed, ReplyFails,
       LoopEnds, Stop, Closed, Tick
  <2>3. CASE \E known \in BOOLEAN : Replied(known)
    BY <1>0, <2>3 DEF ClientSettled, Replied
  <2>4. CASE IdleWakes
    BY <1>0, <2>4 DEF ClientSettled, timeVars, IdleWakes, Stop
  <2>5. CASE \E s \in Addrs, kind \in Kinds : ClientDatagram(s, kind)
    BY <1>0, <1>a, <2>5 DEF ClientSettled, timeVars, idleVars, ClientDatagram
  <2>6. CASE Written \/ UpstreamDatagram
    BY <1>0, <2>6 DEF ClientSettled, timeVars, Written, UpstreamDatagram, Touch
  <2> QED
    BY <2>1, <2>2, <2>3, <2>4, <2>5, <2>6 DEF AssocNext
<1>3. TimerSet'
  <2>1. CASE \E known \in BOOLEAN : Replied(known)
    <3>1. Millis(0) = 0
      BY MillisBounds
    <3>2. moved' = now /\ started' = now /\ now' = now /\ last' = 0 /\ wakeAt' = now + IdleTimeout
      BY <2>1 DEF Replied
    <3>3. moved' - started' = 0
      BY <1>0, <3>2 DEF AssocTypeOK
    <3> QED
      BY <1>0, <1>b, <3>1, <3>2, <3>3 DEF AssocTypeOK, TimerSet
  <2>2. CASE IdleWakes
    <3>1. UNCHANGED <<now, started, last, moved>> /\ assocPc = "relay"
      BY <2>2 DEF IdleWakes, timeVars
    <3>2. Millis(moved' - started') = Millis(moved - started)
      BY <3>1
    <3>3. assocPc' = "relay" => wakeAt' = started + last + IdleTimeout /\ ~(now >= wakeAt')
      BY <2>2 DEF IdleWakes, Stop
    <3> QED
      BY <1>0, <1>b, <3>1, <3>2, <3>3 DEF AssocTypeOK, TimerSet
  <2>3. CASE Written \/ UpstreamDatagram
    <3>0. assocPc = "relay" /\ assocPc' = "relay" /\ Touch /\ UNCHANGED <<now, started>>
      BY <2>3 DEF Written, UpstreamDatagram, timeVars
    <3>1. now - started \in Nat /\ moved - started \in Nat /\ moved - started <= now - started
      BY <1>0, <3>0 DEF AssocTypeOK, TimerSet
    <3>2. Millis(moved - started) <= Millis(now - started)
      BY <3>1, MillisMonotone
    <3>3. last' = Millis(now - started) /\ moved' = now /\ wakeAt' = wakeAt
      BY <3>0 DEF Touch
    <3>4. Millis(now - started) \in Nat /\ last = Millis(moved - started) /\ last \in Nat
      BY <1>0, <3>0, <3>1, MillisBounds DEF TimerSet, AssocTypeOK
    <3>5. Millis(moved' - started') = last'
      BY <3>0, <3>3
    <3> QED
      BY <1>0, <1>b, <3>0, <3>2, <3>3, <3>4, <3>5 DEF AssocTypeOK, TimerSet
  <2>4. CASE UNCHANGED assocVars \/ UpstreamDropped \/ Tick
             \/ (\E s \in Addrs, kind \in Kinds : ClientDatagram(s, kind))
    <3>1. UNCHANGED <<started, last, wakeAt, moved, assocPc>>
      BY <2>4 DEF assocVars, timeVars, idleVars, Tick, ClientDatagram, UpstreamDropped
    <3>2. now' = now \/ (now' = now + 1 /\ (assocPc = "relay" => now < wakeAt))
      BY <2>4 DEF assocVars, timeVars, Tick, ClientDatagram, UpstreamDropped
    <3>3. Millis(moved' - started') = Millis(moved - started)
      BY <3>1
    <3> QED
      BY <1>0, <3>1, <3>2, <3>3 DEF AssocTypeOK, TimerSet
  <2>5. CASE DialFails \/ Dialed \/ ReplyFails \/ LoopEnds \/ Closed
    <3>1. assocPc' # "relay"
      BY <2>5 DEF DialFails, Dialed, ReplyFails, LoopEnds, Stop, Closed
    <3> QED
      BY <3>1 DEF TimerSet
  <2> QED
    BY <2>1, <2>2, <2>3, <2>4, <2>5 DEF AssocNext
<1> QED
  BY <1>1, <1>2, <1>3 DEF AssocInv

\* For any addresses, millisecond and idle timeout: an association serves one
\* peer, who has the IP of the control connection (udp_client_loop).
THEOREM AssociationOnePeer == AssocSpec => []OnePeer
<1>1. AssocInv => OnePeer
  BY DEF AssocInv, AssocTypeOK, ClientSettled, OnePeer
<1> QED
  BY <1>1, AssocInitInv, AssocNextInv, PTL DEF AssocSpec

\* The idle timer ends no association before its time, but for the fraction of
\* a millisecond that touch() cuts off, and none outlives it (Activity).
THEOREM AssociationExpires == AssocSpec => ExpiresOnTime
<1>1. AssocInv => (assocPc = "relay" => now <= moved + IdleTimeout)
  <2> SUFFICES ASSUME AssocInv, assocPc = "relay" PROVE now <= moved + IdleTimeout
    OBVIOUS
  <2>1. Millis(moved - started) <= moved - started
    BY MillisBounds DEF AssocInv, AssocTypeOK, TimerSet
  <2> QED
    BY <2>1, UdpAssociationAssumption DEF AssocInv, AssocTypeOK, TimerSet
<1>2. AssocInv /\ [AssocNext]_assocVars =>
        [timedOut' /\ ~timedOut => now > moved + IdleTimeout - PerMilli]_assocVars
  <2> SUFFICES ASSUME AssocInv, AssocNext, timedOut', ~timedOut
               PROVE  now > moved + IdleTimeout - PerMilli
    OBVIOUS
  <2>1. IdleWakes
    BY DEF AssocNext, timeVars, idleVars, assocVars, DialFails, Dialed, ReplyFails, Replied,
       LoopEnds, Stop, Closed, Tick, ClientDatagram, Written, UpstreamDropped,
       UpstreamDatagram, Touch
  <2>2. assocPc = "relay" /\ now >= started + last + IdleTimeout
    BY <2>1 DEF IdleWakes
  <2>3. moved - started < Millis(moved - started) + PerMilli
    BY <2>2, MillisBounds DEF AssocInv, AssocTypeOK, TimerSet
  <2> QED
    BY <2>2, <2>3, UdpAssociationAssumption DEF AssocInv, AssocTypeOK, TimerSet
<1> QED
  BY <1>1, <1>2, AssocInitInv, AssocNextInv, PTL DEF AssocSpec, ExpiresOnTime

-----------------------------------------------------------------------------
(* HTTP: recursive functions *)

\* There is a function that begins with x and goes on from each value to the
\* next as G says.
Steps(n, X, x, G) ==
    \E f \in [0..n -> X] : f[0] = x /\ \A i \in 1..n : f[i] = G[i][f[i - 1]]

\* Such a function exists.
LEMMA StepsExist ==
    ASSUME NEW n \in Nat, NEW X, NEW x \in X, NEW G \in [1..n -> [X -> X]]
    PROVE  Steps(n, X, x, G)
<1> DEFINE Good(f, d) == /\ f \in [0..n -> X] /\ f[0] = x
                         /\ \A i \in 1..n : i <= d => f[i] = G[i][f[i - 1]]
           P == {d \in Nat : \E f : Good(f, d)}
<1>1. 0 \in P
  <2>1. Good([i \in 0..n |-> x], 0)
    OBVIOUS
  <2> HIDE DEF Good
  <2> QED
    BY <2>1
<1>2. ASSUME NEW d \in Nat, d \in P PROVE d + 1 \in P
  <2>1. PICK f : Good(f, d)
    BY <1>2
  <2>2. CASE d + 1 > n
    <3>1. Good(f, d + 1)
      BY <2>1, <2>2
    <3> HIDE DEF Good
    <3> QED
      BY <3>1
  <2>3. CASE d + 1 <= n
    <3> DEFINE v == G[d + 1][f[d]]
               g == [f EXCEPT ![d + 1] = v]
    <3>1. d + 1 \in 1..n /\ d + 1 \in 0..n /\ d \in 0..n /\ (d + 1) - 1 = d /\ 0 \in 0..n
      BY <2>3
    <3>2. f[d] \in X /\ v \in X
      BY <2>1, <3>1
    <3> HIDE DEF v
    <3>3. /\ g \in [0..n -> X] /\ g[d + 1] = v
          /\ \A i \in 0..n : i # d + 1 => g[i] = f[i]
      BY <2>1, <3>1, <3>2
    <3> HIDE DEF g
    <3>4. ASSUME NEW i \in 1..n, i <= d + 1 PROVE g[i] = G[i][g[i - 1]]
      <4>1. i - 1 \in 0..n /\ i - 1 # d + 1 /\ i \in 0..n
        BY <3>4
      <4>2. CASE i = d + 1
        BY <3>1, <3>3, <4>1, <4>2 DEF v
      <4>3. CASE i # d + 1
        <5>1. i <= d
          BY <3>4, <4>3
        <5> QED
          BY <2>1, <3>3, <4>1, <4>3, <5>1
      <4> QED
        BY <4>2, <4>3
    <3>5. g[0] = x
      BY <2>1, <3>1, <3>3
    <3>6. Good(g, d + 1)
      BY <3>3, <3>4, <3>5
    <3> HIDE DEF Good
    <3> QED
      BY <3>6
  <2> QED
    BY <2>2, <2>3
<1> HIDE DEF Good
<1>3. Nat \subseteq P
  <2> HIDE DEF P
  <2> QED
    BY <1>1, <1>2, NatSetInduction
<1>4. PICK f : Good(f, n)
  BY <1>3
<1> QED
  BY <1>4 DEF Good, Steps

\* There is a function on 1..n + 1 that has at each position its value where
\* J goes on from there, or V if it does not.
Jumps(n, J, V) == \E f : f = [i \in 1..n + 1 |-> IF J[i] # 0 THEN f[J[i]] ELSE V[i]]

\* Such a function exists if J goes forward.
LEMMA JumpsExist ==
    ASSUME NEW n \in Nat, NEW J, NEW V,
           \A i \in 1..n + 1 : J[i] \in Nat /\ (J[i] # 0 => J[i] > i /\ J[i] <= n + 1)
    PROVE  Jumps(n, J, V)
<1> DEFINE Val(f, i) == IF J[i] # 0 THEN f[J[i]] ELSE V[i]
           Good(f, d) == /\ f = [i \in 1..n + 1 |-> f[i]]
                         /\ \A i \in 1..n + 1 : i + d > n + 1 => f[i] = Val(f, i)
           P == {d \in Nat : \E f : Good(f, d)}
<1>1. 0 \in P
  <2>1. Good([i \in 1..n + 1 |-> 0], 0)
    OBVIOUS
  <2> HIDE DEF Good
  <2> QED
    BY <2>1
<1>2. ASSUME NEW d \in Nat, d \in P PROVE d + 1 \in P
  <2>1. PICK f : Good(f, d)
    BY <1>2
  <2>2. CASE d >= n + 1
    <3>1. \A i \in 1..n + 1 : i + d > n + 1
      BY <2>2
    <3>2. Good(f, d + 1)
      BY <2>1, <3>1
    <3> HIDE DEF Good
    <3> QED
      BY <3>2
  <2>3. CASE ~(d >= n + 1)
    <3>1. PICK m \in 1..n + 1 : m + d = n + 1
      <4>1. (n + 1) - d \in 1..n + 1 /\ ((n + 1) - d) + d = n + 1
        BY <2>3
      <4> QED
        BY <4>1
    <3> DEFINE v == Val(f, m)
               g == [i \in 1..n + 1 |-> IF i = m THEN v ELSE f[i]]
    <3>2. /\ g[m] = v /\ \A i \in 1..n + 1 : i # m => g[i] = f[i]
          /\ g = [i \in 1..n + 1 |-> g[i]]
      BY <3>1
    <3> HIDE DEF g
    <3>3. ASSUME NEW i \in 1..n + 1, i >= m PROVE Val(g, i) = Val(f, i)
      <4>1. CASE J[i] # 0
        <5>1. J[i] \in 1..n + 1 /\ J[i] # m
          BY <3>1, <3>3, <4>1
        <5> QED
          BY <3>2, <4>1, <5>1
      <4> QED
        BY <4>1
    <3>4. ASSUME NEW i \in 1..n + 1, i + (d + 1) > n + 1 PROVE g[i] = Val(g, i)
      <4>1. i >= m /\ (i # m => i + d > n + 1)
        BY <3>1, <3>4
      <4>2. Val(g, i) = Val(f, i)
        BY <3>3, <4>1
      <4>3. i # m => f[i] = Val(f, i)
        BY <2>1, <4>1
      <4> HIDE DEF Val
      <4> QED
        BY <3>2, <4>2, <4>3 DEF v
    <3>5. Good(g, d + 1)
      BY <3>2, <3>4
    <3> HIDE DEF Good
    <3> QED
      BY <3>5
  <2> QED
    BY <2>2, <2>3
<1>3. Nat \subseteq P
  <2> HIDE DEF P
  <2> QED
    BY <1>1, <1>2, NatSetInduction
<1>4. PICK f : Good(f, n + 1)
  <2> HIDE DEF Good
  <2> QED
    BY <1>3
<1>5. \A i \in 1..n + 1 : f[i] = Val(f, i)
  <2>1. \A i \in 1..n + 1 : i + (n + 1) > n + 1
    OBVIOUS
  <2> QED
    BY <1>4, <2>1
<1>6. f = [i \in 1..n + 1 |-> f[i]]
  BY <1>4
<1>7. [i \in 1..n + 1 |-> f[i]] = [i \in 1..n + 1 |-> Val(f, i)]
  <2> HIDE DEF Val
  <2> QED
    BY <1>5
<1>8. f = [i \in 1..n + 1 |-> IF J[i] # 0 THEN f[J[i]] ELSE V[i]]
  BY <1>6, <1>7, Zenon
<1> QED
  BY <1>8, Zenon DEF Jumps

\* A bound on the values of such a function.
LEMMA JumpsBound ==
    ASSUME NEW n \in Nat, NEW f, NEW J,
           \A i \in 1..n + 1 : /\ J[i] \in Nat
                               /\ J[i] # 0 => J[i] > i /\ J[i] <= n + 1 /\ f[i] = f[J[i]]
                               /\ J[i] = 0 => f[i] = Incomplete \/ (f[i] \in Nat /\ f[i] >= i)
    PROVE  \A i \in 1..n + 1 : f[i] = Incomplete \/ (f[i] \in Nat /\ f[i] >= i)
<1> DEFINE Fine(i) == f[i] = Incomplete \/ (f[i] \in Nat /\ f[i] >= i)
           P == {d \in Nat : \A i \in 1..n + 1 : i + d > n + 1 => Fine(i)}
<1>1. 0 \in P
  OBVIOUS
<1>2. ASSUME NEW d \in Nat, d \in P PROVE d + 1 \in P
  <2> SUFFICES ASSUME NEW i \in 1..n + 1, i + (d + 1) > n + 1 PROVE Fine(i)
    OBVIOUS
  <2>1. CASE J[i] = 0
    BY <2>1
  <2>2. CASE J[i] # 0
    <3>1. J[i] \in 1..n + 1 /\ J[i] > i /\ J[i] + d > n + 1 /\ f[i] = f[J[i]]
      BY <2>2
    <3>2. Fine(J[i])
      BY <1>2, <3>1
    <3> QED
      BY <3>1, <3>2
  <2> QED
    BY <2>1, <2>2
<1>3. Nat \subseteq P
  <2> HIDE DEF P
  <2> QED
    BY <1>1, <1>2, NatSetInduction
<1>4. n + 1 \in P
  <2>1. n + 1 \in Nat
    OBVIOUS
  <2> HIDE DEF P
  <2> QED
    BY <1>3, <2>1
<1>5. \A i \in 1..n + 1 : i + (n + 1) > n + 1
  OBVIOUS
<1> QED
  BY <1>4, <1>5

-----------------------------------------------------------------------------
(* HTTP: the size of a chunk *)

\* A factor keeps the order.
LEMMA Factor ==
    ASSUME NEW k \in Nat, NEW x \in Nat, NEW y \in Nat, x <= y
    PROVE  k * x \in Nat /\ k * y \in Nat /\ k * x <= k * y
<1>1. PICK d \in Nat : y = x + d
  <2>1. y - x \in Nat /\ y = x + (y - x)
    OBVIOUS
  <2> QED
    BY <2>1
<1>2. k * y = k * x + k * d
  BY <1>1
<1>3. k * x \in Nat /\ k * d \in Nat
  OBVIOUS
<1> QED
  BY <1>2, <1>3

\* SizeCount grows by a factor with every digit.
LEMMA SizeCounts ==
    /\ SizeCount[0] = 1
    /\ \A d \in 0..MaxSizeDigits : SizeCount[d] \in Nat
    /\ \A d \in 1..MaxSizeDigits : SizeCount[d] = Radix * SizeCount[d - 1]
<1> DEFINE n == MaxSizeDigits
           G == [i \in 1..n |-> [v \in Nat |-> Radix * v]]
<1>1. n \in Nat /\ Radix \in Nat
  BY HttpAssumption
<1>2. Steps(n, Nat, 1, G)
  <2>1. G \in [1..n -> [Nat -> Nat]] /\ 1 \in Nat
    BY <1>1
  <2> HIDE DEF G, n
  <2> QED
    BY <1>1, <2>1, StepsExist
<1>3. PICK f \in [0..n -> Nat] : f[0] = 1 /\ \A i \in 1..n : f[i] = G[i][f[i - 1]]
  <2> HIDE DEF G, n
  <2> QED
    BY <1>2 DEF Steps
<1>4. f = [i \in 0..n |-> IF i = 0 THEN 1 ELSE Radix * f[i - 1]]
  <2>1. \A i \in 1..n : f[i - 1] \in Nat
    BY <1>1
  <2>2. \A i \in 1..n : f[i] = Radix * f[i - 1]
    BY <1>3, <2>1
  <2> QED
    BY <1>1, <1>3, <2>2
<1>5. \E g : g = [i \in 0..n |-> IF i = 0 THEN 1 ELSE Radix * g[i - 1]]
  BY <1>4, Zenon
<1>6. SizeCount = [i \in 0..n |-> IF i = 0 THEN 1 ELSE Radix * SizeCount[i - 1]]
  BY <1>5, Zenon DEF SizeCount
<1>7. SizeCount[0] = 1 /\ \A i \in 1..n : SizeCount[i] = Radix * SizeCount[i - 1]
  <2>1. 0 \in 0..n /\ \A i \in 1..n : i \in 0..n /\ i # 0
    BY <1>1
  <2> QED
    BY <1>6, <2>1, Zenon
<1> DEFINE P == {i \in Nat : i <= n => SizeCount[i] \in Nat}
<1>8. Nat \subseteq P
  <2>1. 0 \in P
    BY <1>7
  <2>2. ASSUME NEW i \in Nat, i \in P PROVE i + 1 \in P
    <3> SUFFICES ASSUME i + 1 <= n PROVE SizeCount[i + 1] \in Nat
      OBVIOUS
    <3>1. i + 1 \in 1..n /\ (i + 1) - 1 = i /\ i <= n
      BY <1>1
    <3>2. SizeCount[i + 1] = Radix * SizeCount[i] /\ SizeCount[i] \in Nat
      BY <1>7, <2>2, <3>1
    <3> QED
      BY <1>1, <3>2
  <2> HIDE DEF P
  <2> QED
    BY <2>1, <2>2, NatSetInduction
<1> QED
  BY <1>1, <1>7, <1>8

\* No number of digits up to the largest has more sizes than that.
LEMMA SizeCountsFit ==
    \A d \in 0..MaxSizeDigits : SizeCount[d] <= OriginWidth
<1> DEFINE n == MaxSizeDigits
           P == {i \in Nat : i <= n => SizeCount[n - i] <= OriginWidth}
<1>1. n \in Nat /\ Radix \in Nat /\ Radix >= 1 /\ OriginWidth \in Nat /\ SizeCount[n] <= OriginWidth
  BY HttpAssumption
<1>2. 0 \in P
  BY <1>1
<1>3. ASSUME NEW i \in Nat, i \in P PROVE i + 1 \in P
  <2> SUFFICES ASSUME i + 1 <= n PROVE SizeCount[n - (i + 1)] <= OriginWidth
    OBVIOUS
  <2>1. PICK d \in 1..n : d = n - i /\ d - 1 = n - (i + 1) /\ d - 1 \in 0..n
    <3>1. n - i \in 1..n /\ (n - i) - 1 = n - (i + 1) /\ (n - i) - 1 \in 0..n
      BY <1>1
    <3> QED
      BY <3>1
  <2>2. PICK c \in Nat : c = SizeCount[d - 1] /\ SizeCount[d] = Radix * c
    BY <2>1, SizeCounts
  <2>3. 1 * c <= Radix * c
    <3>1. c * 1 <= c * Radix
      BY <1>1, Factor
    <3> QED
      BY <1>1, <3>1
  <2>4. SizeCount[d] <= OriginWidth
    BY <1>1, <1>3, <2>1
  <2>5. Radix * c \in Nat /\ 1 * c = c
    BY <1>1
  <2> QED
    BY <1>1, <2>1, <2>2, <2>3, <2>4, <2>5
<1>4. Nat \subseteq P
  <2> HIDE DEF P
  <2> QED
    BY <1>2, <1>3, NatSetInduction
<1>5. ASSUME NEW d \in 0..n PROVE SizeCount[d] <= OriginWidth
  <2>1. n - d \in Nat /\ n - d <= n /\ n - (n - d) = d
    BY <1>1
  <2> QED
    BY <1>4, <2>1
<1> QED
  BY <1>5

\* What digits denote is a number, and one that fits if there are not too
\* many of them.
LEMMA Values ==
    ASSUME NEW q \in Seq(STRING)
    PROVE  /\ Value(q) \in Nat
           /\ Len(q) <= MaxSizeDigits => Value(q) < OriginWidth
<1> DEFINE n == Len(q)
           D(i) == DigitValue(q[i])
           G == [i \in 1..n |-> [v \in Nat |-> Radix * v + D(i)]]
           h == ValueUpTo(q)
<1>1. n \in Nat /\ Radix \in Nat /\ Radix >= 1 /\ OriginWidth \in Nat /\ MaxSizeDigits \in Nat
  BY LenProperties, HttpAssumption
<1>2. \A i : D(i) \in Nat /\ D(i) <= Radix - 1
  BY HttpAssumption DEF DigitValue
<1> HIDE DEF D
<1>3. Steps(n, Nat, 0, G)
  <2>1. G \in [1..n -> [Nat -> Nat]] /\ 0 \in Nat
    BY <1>1, <1>2
  <2> HIDE DEF G, n
  <2> QED
    BY <1>1, <2>1, StepsExist
<1>4. PICK f \in [0..n -> Nat] : f[0] = 0 /\ \A i \in 1..n : f[i] = G[i][f[i - 1]]
  <2> HIDE DEF G, n
  <2> QED
    BY <1>3 DEF Steps
<1>5. f = [i \in 0..n |-> IF i = 0 THEN 0 ELSE Radix * f[i - 1] + D(i)]
  <2>1. \A i \in 1..n : f[i - 1] \in Nat
    BY <1>1
  <2>2. \A i \in 1..n : f[i] = Radix * f[i - 1] + D(i)
    BY <1>4, <2>1
  <2> QED
    BY <1>1, <1>4, <2>2
<1>6. \E g : g = [i \in 0..n |-> IF i = 0 THEN 0 ELSE Radix * g[i - 1] + D(i)]
  BY <1>5, Zenon
<1>7. h = [i \in 0..n |-> IF i = 0 THEN 0 ELSE Radix * h[i - 1] + D(i)]
  BY <1>6, Zenon DEF ValueUpTo, D
<1> HIDE DEF h
<1>8. h[0] = 0 /\ \A i \in 1..n : h[i] = Radix * h[i - 1] + D(i)
  <2>1. 0 \in 0..n /\ \A i \in 1..n : i \in 0..n /\ i # 0
    BY <1>1
  <2> QED
    BY <1>7, <2>1, Zenon
<1> HIDE DEF n
<1> DEFINE P == {i \in Nat : i <= n =>
                   /\ h[i] \in Nat
                   /\ i <= MaxSizeDigits => h[i] + 1 <= SizeCount[i]}
<1>9. Nat \subseteq P
  <2>1. 0 \in P
    BY <1>8, SizeCounts
  <2>2. ASSUME NEW i \in Nat, i \in P PROVE i + 1 \in P
    <3> SUFFICES ASSUME i + 1 <= n
                 PROVE  /\ h[i + 1] \in Nat
                        /\ i + 1 <= MaxSizeDigits => h[i + 1] + 1 <= SizeCount[i + 1]
      OBVIOUS
    <3>1. i + 1 \in 1..n /\ (i + 1) - 1 = i /\ i <= n
      BY <1>1
    <3>2. PICK v \in Nat, d \in Nat :
            /\ v = h[i] /\ d <= Radix - 1 /\ h[i + 1] = Radix * v + d
            /\ i <= MaxSizeDigits => v + 1 <= SizeCount[i]
      BY <1>2, <1>8, <2>2, <3>1
    <3>3. Radix * v \in Nat
      BY <1>1
    <3>4. ASSUME i + 1 <= MaxSizeDigits PROVE h[i + 1] + 1 <= SizeCount[i + 1]
      <4>1. i + 1 \in 1..MaxSizeDigits /\ i \in 0..MaxSizeDigits /\ i <= MaxSizeDigits
        BY <1>1, <3>4
      <4>2. PICK c \in Nat : c = SizeCount[i] /\ SizeCount[i + 1] = Radix * c /\ v + 1 <= c
        BY <3>1, <3>2, <4>1, SizeCounts
      <4>3. v + 1 \in Nat
        OBVIOUS
      <4>4. Radix * (v + 1) <= Radix * c /\ Radix * c \in Nat
        BY <1>1, <4>2, <4>3, Factor
      <4>5. Radix * (v + 1) = Radix * v + Radix
        BY <1>1
      <4>6. PICK a \in Nat, b \in Nat : a = Radix * v /\ b = Radix * c
        BY <3>3, <4>4
      <4>7. a + Radix <= b
        BY <4>4, <4>5, <4>6
      <4>8. h[i + 1] = a + d /\ SizeCount[i + 1] = b
        BY <3>2, <4>2, <4>6
      <4>9. d <= Radix - 1
        BY <3>2
      <4> QED
        BY <1>1, <4>7, <4>8, <4>9
    <3> QED
      BY <3>2, <3>3, <3>4
  <2> HIDE DEF P
  <2> QED
    BY <2>1, <2>2, NatSetInduction
<1>10. h[n] \in Nat /\ (n <= MaxSizeDigits => h[n] + 1 <= SizeCount[n])
  BY <1>1, <1>9
<1>11. ASSUME n <= MaxSizeDigits PROVE h[n] < OriginWidth
  <2>1. n \in 0..MaxSizeDigits
    BY <1>1, <1>11
  <2>2. PICK c \in Nat : c = SizeCount[n] /\ c <= OriginWidth
    BY <2>1, SizeCounts, SizeCountsFit
  <2> QED
    BY <1>1, <1>10, <1>11, <2>2
<1> QED
  BY <1>10, <1>11 DEF Value, h, n

\* What goes to the origin: what the client sends, behind the head.
BodySymbols == STRING \cup {"head"}

-----------------------------------------------------------------------------
(* HTTP: lines and sizes *)

\* The least number of a set.
LEMMA MinIs ==
    ASSUME NEW A, A \subseteq Nat, NEW j \in A, \A m \in A : j <= m
    PROVE  Min(A) = j
<1>1. PICK c : c = Min(A)
  OBVIOUS
<1>2. \E x \in A : \A y \in A : x =< y
  OBVIOUS
<1>3. c \in A /\ \A y \in A : c =< y
  BY <1>1, <1>2, Zenon DEF Min
<1>4. c <= j /\ j <= c /\ c \in Nat /\ j \in Nat
  BY <1>3
<1> QED
  BY <1>1, <1>4

\* There is one.
LEMMA MinExists ==
    ASSUME NEW A, A \subseteq Nat, A # {}
    PROVE  Min(A) \in A /\ Min(A) \in Nat /\ \A m \in A : Min(A) <= m
<1>1. PICK j \in A : \A m \in A : j <= m
  BY LeastNumber
<1>2. Min(A) = j
  BY <1>1, MinIs
<1> QED
  BY <1>1, <1>2

\* j is the first LF of s at or after i.
FirstLf(s, i, j) == j \in i..Len(s) /\ s[j] = "lf" /\ \A m \in i..(j - 1) : s[m] # "lf"

\* There is none.
NoLf(s, i) == \A j \in i..Len(s) : s[j] # "lf"

\* Where a reader may end a line that starts at i.
AfterCr(s, i, j) == j > i /\ s[j - 1] = "cr"
LfsAt(o, s, i) == {j \in i..Len(s) : s[j] = "lf" /\ (o.lines = "crlf" => AfterCr(s, i, j))}

\* The line ends at the first of these.
LEMMA LineEndsAt ==
    ASSUME NEW o \in Readers, NEW s \in Seq(STRING), NEW i \in Nat \ {0}
    PROVE  /\ LfsAt(o, s, i) = {} => LineEnd(o, s, i) = Incomplete
           /\ LfsAt(o, s, i) # {} =>
                /\ Min(LfsAt(o, s, i)) \in LfsAt(o, s, i) /\ Min(LfsAt(o, s, i)) \in Nat
                /\ \A m \in LfsAt(o, s, i) : Min(LfsAt(o, s, i)) <= m
                /\ LineEnd(o, s, i) =
                     IF o.lines = "strict" /\ ~AfterCr(s, i, Min(LfsAt(o, s, i)))
                     THEN Incomplete ELSE Min(LfsAt(o, s, i))
<1>1. LfsAt(o, s, i) \subseteq Nat
  BY LenProperties DEF LfsAt
<1>2. LfsAt(o, s, i) # {} => /\ Min(LfsAt(o, s, i)) \in LfsAt(o, s, i) /\ Min(LfsAt(o, s, i)) \in Nat
                            /\ \A m \in LfsAt(o, s, i) : Min(LfsAt(o, s, i)) <= m
  BY <1>1, MinExists
<1>3. LineEnd(o, s, i) =
        IF LfsAt(o, s, i) = {} \/ (o.lines = "strict" /\ ~AfterCr(s, i, Min(LfsAt(o, s, i))))
        THEN Incomplete ELSE Min(LfsAt(o, s, i))
  BY Zenon DEF LineEnd, LfsAt, AfterCr
<1> QED
  BY <1>2, <1>3

\* A line ends at an LF, for a strict reader behind a CR.
LEMMA LineEnds ==
    ASSUME NEW o \in Readers, NEW s \in Seq(STRING), NEW i \in Nat \ {0}
    PROVE  \/ LineEnd(o, s, i) = Incomplete
           \/ /\ LineEnd(o, s, i) \in Nat /\ LineEnd(o, s, i) >= i /\ LineEnd(o, s, i) <= Len(s)
              /\ s[LineEnd(o, s, i)] = "lf" /\ LineEnd(o, s, i) # Incomplete
              /\ o.lines = "strict" => AfterCr(s, i, LineEnd(o, s, i))
<1>1. CASE LfsAt(o, s, i) = {}
  BY <1>1, LineEndsAt
<1>2. CASE LfsAt(o, s, i) # {}
  <2>1. PICK j \in Nat : j = Min(LfsAt(o, s, i)) /\ j \in LfsAt(o, s, i)
    BY <1>2, LineEndsAt
  <2>2. j >= i /\ j <= Len(s) /\ s[j] = "lf" /\ j # Incomplete
    BY <2>1, LenProperties DEF LfsAt, Incomplete
  <2>3. \/ LineEnd(o, s, i) = Incomplete
        \/ LineEnd(o, s, i) = j /\ (o.lines = "strict" => AfterCr(s, i, j))
    BY <1>2, <2>1, LineEndsAt
  <2> QED
    BY <2>2, <2>3
<1> QED
  BY <1>1, <1>2

\* Every reader ends a line at its first LF if a CR stands before it, and a
\* strict one does not accept another.
LEMMA LineEndIs ==
    ASSUME NEW o \in Readers, NEW s \in Seq(STRING), NEW i \in Nat \ {0}, NEW j, FirstLf(s, i, j)
    PROVE  /\ AfterCr(s, i, j) => LineEnd(o, s, i) = j
           /\ ~AfterCr(s, i, j) /\ o.lines = "strict" => LineEnd(o, s, i) = Incomplete
<1>1. Len(s) \in Nat
  BY LenProperties
<1>2. j \in Nat /\ j \in i..Len(s) /\ s[j] = "lf" /\ \A m \in i..(j - 1) : s[m] # "lf"
  BY <1>1 DEF FirstLf
<1>3. ASSUME NEW m \in LfsAt(o, s, i) PROVE j <= m
  <2>1. m \in Nat /\ m >= i /\ s[m] = "lf"
    BY <1>1 DEF LfsAt
  <2>2. ~(m \in i..(j - 1))
    BY <1>2, <2>1
  <2> QED
    BY <1>2, <2>1, <2>2
<1>4. LfsAt(o, s, i) \subseteq Nat
  BY <1>1 DEF LfsAt
<1>5. ASSUME AfterCr(s, i, j) \/ o.lines = "strict"
      PROVE  LfsAt(o, s, i) # {} /\ Min(LfsAt(o, s, i)) = j
  <2>1. j \in LfsAt(o, s, i)
    BY <1>2, <1>5 DEF LfsAt
  <2> QED
    BY <1>3, <1>4, <2>1, MinIs
<1> QED
  BY <1>5, LineEndsAt

\* Without an LF there is no line.
LEMMA NoLineEnd ==
    ASSUME NEW o \in Readers, NEW s \in Seq(STRING), NEW i \in Nat \ {0}, NoLf(s, i)
    PROVE  LineEnd(o, s, i) = Incomplete
<1>1. LfsAt(o, s, i) = {}
  BY DEF LfsAt, NoLf
<1> QED
  BY <1>1, LineEndsAt

\* A line l of what the client sends, from position i on.
Stands(l, s, i) ==
    /\ l \in Seq(BodySymbols) /\ Len(l) \in Nat \ {0}
    /\ (i + Len(l)) - 1 <= Len(s)
    /\ \A k \in 1..Len(l) : l[k] = s[(i + k) - 1]
    /\ \A k \in 1..Len(l) - 1 : l[k] # "lf"

\* Two symbols that make an empty line.
LEMMA EmptyLineIs ==
    ASSUME NEW l \in Seq(BodySymbols), EndsInCrlf(l)
    PROVE  l = EmptyLine <=> Len(l) = 2
<1>1. Len(EmptyLine) = 2 /\ EmptyLine[1] = "cr" /\ EmptyLine[2] = "lf"
  BY DEF EmptyLine
<1>2. ASSUME Len(l) = 2 PROVE l = EmptyLine
  <2>1. l[1] = "cr" /\ l[2] = "lf"
    BY <1>2 DEF EndsInCrlf
  <2>2. PICK x \in BodySymbols, y \in BodySymbols : x = l[1] /\ y = l[2]
    BY <1>2, ElementOfSeq
  <2>3. <<x, y>> \in Seq(BodySymbols) /\ Len(<<x, y>>) = 2 /\ <<x, y>>[1] = x /\ <<x, y>>[2] = y
    OBVIOUS
  <2>4. l = <<x, y>>
    <3>1. \A k \in 1..Len(l) : k = 1 \/ k = 2
      BY <1>2
    <3>2. \A k \in 1..Len(l) : l[k] = <<x, y>>[k]
      BY <2>2, <2>3, <3>1
    <3> QED
      BY <1>2, <2>3, <3>2, SeqEqual
  <2>5. <<x, y>> = EmptyLine
    BY <2>1, <2>2 DEF EmptyLine
  <2> QED
    BY <2>4, <2>5
<1> QED
  BY <1>1, <1>2

\* A line that the proxy accepts ends for every reader where it ends for the
\* proxy, and is empty for both or for none.
LEMMA LineReads ==
    ASSUME NEW o \in Readers, NEW s \in Seq(STRING), NEW i \in Nat \ {0}, NEW l, Stands(l, s, i),
           EndsInCrlf(l)
    PROVE  /\ LineEnd(o, s, i) = (i + Len(l)) - 1
           /\ IsEmptyLine(s, i, (i + Len(l)) - 1) <=> l = EmptyLine
<1>1. PICK n \in Nat, j \in Nat : n = Len(l) /\ n >= 2 /\ j = (i + n) - 1 /\ j \in i..Len(s) /\ j > i
  BY LenProperties DEF Stands, EndsInCrlf
<1>2. \A k \in 1..n : l[k] = s[(i + k) - 1]
  BY <1>1 DEF Stands
<1>3. s[j] = "lf" /\ s[j - 1] = "cr"
  <2>1. l[n] = "lf" /\ l[n - 1] = "cr" /\ n \in 1..n /\ n - 1 \in 1..n /\ (i + (n - 1)) - 1 = j - 1
    BY <1>1 DEF EndsInCrlf
  <2> QED
    BY <1>1, <1>2, <2>1
<1>4. ASSUME NEW m \in i..(j - 1) PROVE s[m] # "lf"
  <2>1. PICK k \in 1..n - 1 : (i + k) - 1 = m
    <3>1. (m + 1) - i \in 1..n - 1 /\ (i + ((m + 1) - i)) - 1 = m
      BY <1>1
    <3> QED
      BY <3>1
  <2>2. k \in 1..n /\ l[k] # "lf"
    BY <1>1 DEF Stands
  <2> QED
    BY <1>2, <2>1, <2>2
<1>5. FirstLf(s, i, j) /\ AfterCr(s, i, j)
  BY <1>1, <1>3, <1>4 DEF FirstLf, AfterCr
<1>6. LineEnd(o, s, i) = j
  BY <1>5, LineEndIs
<1>7. IsEmptyLine(s, i, j) <=> n = 2
  <2>1. n = 2 <=> j = i + 1
    BY <1>1
  <2>2. j = i + 1 => s[i] = "cr"
    <3>1. j = i + 1 => j - 1 = i
      BY <1>1
    <3> QED
      BY <1>3, <3>1
  <2> QED
    BY <1>1, <2>1, <2>2 DEF IsEmptyLine
<1>8. l = EmptyLine <=> n = 2
  BY <1>1, EmptyLineIs DEF Stands
<1> QED
  BY <1>1, <1>6, <1>7, <1>8

\* One that ends in a bare LF is no line of the grammar.
LEMMA LineRefused ==
    ASSUME NEW o \in Readers, o.lines = "strict", NEW s \in Seq(STRING), NEW i \in Nat \ {0}, NEW l,
           Stands(l, s, i), l[Len(l)] = "lf", ~EndsInCrlf(l)
    PROVE  LineEnd(o, s, i) = Incomplete
<1>1. PICK n \in Nat, j \in Nat : n = Len(l) /\ n >= 1 /\ j = (i + n) - 1 /\ j \in i..Len(s)
  BY LenProperties DEF Stands
<1>2. \A k \in 1..n : l[k] = s[(i + k) - 1]
  BY <1>1 DEF Stands
<1>3. s[j] = "lf"
  <2>1. n \in 1..n
    BY <1>1
  <2> QED
    BY <1>1, <1>2, <2>1
<1>4. ASSUME NEW m \in i..(j - 1) PROVE s[m] # "lf"
  <2>1. PICK k \in 1..n - 1 : (i + k) - 1 = m
    <3>1. (m + 1) - i \in 1..n - 1 /\ (i + ((m + 1) - i)) - 1 = m
      BY <1>1
    <3> QED
      BY <3>1
  <2>2. k \in 1..n /\ l[k] # "lf"
    BY <1>1 DEF Stands
  <2> QED
    BY <1>2, <2>1, <2>2
<1>5. FirstLf(s, i, j)
  BY <1>1, <1>3, <1>4 DEF FirstLf
<1>6. ~AfterCr(s, i, j)
  <2> SUFFICES ASSUME j > i, s[j - 1] = "cr" PROVE FALSE
    BY DEF AfterCr
  <2>1. n >= 2 /\ n - 1 \in 1..n /\ (i + (n - 1)) - 1 = j - 1
    BY <1>1
  <2>2. l[n - 1] = "cr"
    BY <1>2, <2>1
  <2> QED
    BY <1>1, <2>1, <2>2 DEF EndsInCrlf
<1> QED
  BY <1>5, <1>6, LineEndIs

\* What should end a chunk and is no empty line is none for a strict reader.
LEMMA EndRefused ==
    ASSUME NEW o \in Readers, o.lines = "strict", NEW s \in Seq(STRING), NEW i \in Nat \ {0}, NEW l,
           Stands(l, s, i), l # EmptyLine, l[Len(l)] = "lf" \/ Len(l) > 2
    PROVE  AfterData(o, s, i) = 0
<1> SUFFICES ASSUME AfterData(o, s, i) # 0 PROVE FALSE
  OBVIOUS
<1>1. PICK n \in Nat : n = Len(l) /\ n >= 1
  BY DEF Stands
<1>2. \A k \in 1..n : l[k] = s[(i + k) - 1]
  BY <1>1 DEF Stands
<1>3. PICK j : j = LineEnd(o, s, i) /\ j # Incomplete /\ IsEmptyLine(s, i, j)
  BY DEF AfterData
<1>4. j \in Nat /\ j = i + 1 /\ s[i] = "cr" /\ s[i + 1] = "lf"
  <2>1. j \in Nat /\ s[j] = "lf" /\ j > i /\ s[j - 1] = "cr"
    BY <1>3, LineEnds DEF AfterCr
  <2>2. j = i + 1
    BY <1>3, <2>1 DEF IsEmptyLine
  <2>3. j - 1 = i
    BY <2>2
  <2> QED
    BY <2>1, <2>2, <2>3
<1>5. (i + 1) - 1 = i /\ (i + 2) - 1 = i + 1
  OBVIOUS
<1>6. CASE n = 1
  BY <1>1, <1>2, <1>4, <1>5, <1>6
<1>7. CASE n = 2
  <2>1. l[1] = "cr" /\ l[2] = "lf"
    <3>1. 1 \in 1..n /\ 2 \in 1..n
      BY <1>7
    <3> QED
      BY <1>2, <1>4, <1>5, <3>1
  <2>2. EndsInCrlf(l)
    BY <1>1, <1>7, <2>1 DEF EndsInCrlf
  <2> QED
    BY <1>1, <1>7, <2>2, EmptyLineIs DEF Stands
<1>8. CASE n > 2
  <2>1. 2 \in 1..n /\ 2 \in 1..n - 1
    BY <1>8
  <2>2. l[2] # "lf" /\ l[2] = "lf"
    BY <1>1, <1>2, <1>4, <1>5, <2>1 DEF Stands
  <2> QED
    BY <2>2
<1> QED
  BY <1>1, <1>6, <1>7, <1>8

\* What parse_chunk_size finds: the size before the extension or the CRLF, and
\* its digits before the blanks.
LEMMA SizeParsed ==
    ASSUME NEW l \in Seq(BodySymbols), EndsInCrlf(l)
    PROVE  /\ ExtensionAt(l) \in Nat /\ ExtensionAt(l) \in 1..Len(l) - 1
           /\ ExtensionAt(l) = Len(l) - 1 \/ l[ExtensionAt(l)] = "semicolon"
           /\ SizeDigits(l) \in Nat /\ SizeDigits(l) \in 0..ExtensionAt(l) - 1
           /\ \A i \in SizeDigits(l) + 1..ExtensionAt(l) - 1 : l[i] = "blank"
<1> DEFINE n == Len(l)
           A == {i \in 1..n - 1 : i = n - 1 \/ l[i] = "semicolon"}
<1>1. n \in Nat /\ n >= 2
  BY LenProperties DEF EndsInCrlf
<1>2. A \subseteq Nat /\ n - 1 \in A
  BY <1>1
<1>3. PICK x \in Nat : x = ExtensionAt(l) /\ x \in A
  <2>1. Min(A) \in A /\ Min(A) \in Nat
    <3> HIDE DEF A
    <3> QED
      BY <1>2, MinExists
  <2>2. ExtensionAt(l) = Min(A)
    BY DEF ExtensionAt
  <2> QED
    BY <2>1, <2>2
<1> DEFINE B == {k \in 0..x - 1 : \A i \in k + 1..x - 1 : l[i] = "blank"}
<1>4. B \subseteq Nat /\ x - 1 \in B
  BY <1>3
<1>5. PICK k \in Nat : k = SizeDigits(l) /\ k \in B
  <2>1. Min(B) \in B /\ Min(B) \in Nat
    <3> HIDE DEF B
    <3> QED
      BY <1>4, MinExists
  <2>2. SizeDigits(l) = Min(B)
    BY <1>3 DEF SizeDigits
  <2> QED
    BY <2>1, <2>2
<1> QED
  BY <1>1, <1>3, <1>5

\* A size that the proxy accepts is followed by something else than a digit.
LEMMA SizeDelimited ==
    ASSUME NEW l \in Seq(BodySymbols), EndsInCrlf(l), NEW k, k = SizeDigits(l)
    PROVE  k + 1 \in 1..Len(l) /\ l[k + 1] \notin DOMAIN DigitValues
<1>1. PICK n \in Nat, x \in Nat :
        /\ n = Len(l) /\ x = ExtensionAt(l) /\ x \in 1..n - 1 /\ (x = n - 1 \/ l[x] = "semicolon")
        /\ k \in Nat /\ k \in 0..x - 1 /\ \A i \in k + 1..x - 1 : l[i] = "blank"
  BY SizeParsed, LenProperties
<1>2. k + 1 \in 1..n
  BY <1>1
<1>3. CASE k + 1 = x
  <2>1. l[x] = "semicolon" \/ l[x] = "cr"
    BY <1>1 DEF EndsInCrlf
  <2> QED
    BY <1>1, <1>2, <1>3, <2>1, HttpAssumption
<1>4. CASE k + 1 # x
  <2>1. k + 1 \in k + 1..x - 1
    BY <1>1, <1>4
  <2> QED
    BY <1>1, <1>2, <2>1, HttpAssumption
<1> QED
  BY <1>3, <1>4

\* The digits of an accepted size are what every reader takes for them.
LEMMA DigitsRead ==
    ASSUME NEW s \in Seq(STRING), NEW i \in Nat \ {0}, NEW l, Stands(l, s, i), EndsInCrlf(l),
           NEW k \in Nat, k + 1 \in 1..Len(l), l[k + 1] \notin DOMAIN DigitValues, IsSize(l, k)
    PROVE  /\ DigitsEnd(s, i) = i + k
           /\ SubSeq(s, i, (i + k) - 1) = SubSeq(l, 1, k) /\ SubSeq(s, i, (i + k) - 1) \in Seq(STRING)
           /\ Len(SubSeq(s, i, (i + k) - 1)) = k
<1>1. PICK n \in Nat, N \in Nat : /\ n = Len(l) /\ N = Len(s) /\ (i + n) - 1 <= N
                                  /\ \A m \in 1..n : l[m] = s[(i + m) - 1]
  BY LenProperties DEF Stands
<1>2. k + 1 \in 1..n /\ l[k + 1] \notin DOMAIN DigitValues
  BY <1>1
<1>3. k >= 1 /\ \A m \in 1..k : l[m] \in DOMAIN DigitValues
  BY DEF IsSize
<1> DEFINE A == {e \in i..N + 1 : e = N + 1 \/ s[e] \notin DOMAIN DigitValues}
<1>4. i + k \in A
  <2>1. (i + (k + 1)) - 1 = i + k /\ i + k \in i..N + 1
    BY <1>1, <1>2
  <2> QED
    BY <1>1, <1>2, <2>1
<1>5. ASSUME NEW e \in A PROVE i + k <= e
  <2> SUFFICES ASSUME e < i + k PROVE FALSE
    BY <1>1
  <2>1. PICK m \in 1..k : (i + m) - 1 = e
    <3>1. (e + 1) - i \in 1..k /\ (i + ((e + 1) - i)) - 1 = e
      BY <1>1
    <3> QED
      BY <3>1
  <2>2. s[e] = l[m] /\ e # N + 1
    BY <1>1, <1>2, <2>1
  <2> QED
    BY <1>3, <2>1, <2>2
<1>6. A \subseteq Nat
  BY <1>1
<1>7. DigitsEnd(s, i) = i + k
  <2>1. Min(A) = i + k
    <3> HIDE DEF A
    <3> QED
      BY <1>4, <1>5, <1>6, MinIs
  <2>2. DigitsEnd(s, i) = Min(A)
    BY <1>1 DEF DigitsEnd
  <2> QED
    BY <2>1, <2>2
<1>8. PICK p \in Nat, q \in Nat : /\ p = i - 1 /\ q = (i + k) - 1 /\ p + 1 = i
                                  /\ p <= q /\ q <= N /\ q - p = k
  BY <1>1, <1>2
<1>9. PICK y : y = SubSeq(s, i, q) /\ y \in Seq(STRING) /\ Part(y, s, p, q)
  BY <1>1, <1>8, SubSeqParts
<1>10. PICK x : x = SubSeq(l, 1, k) /\ x \in Seq(BodySymbols) /\ Part(x, l, 0, k)
  <2>1. 0 + 1 = 1 /\ 0 \in Nat /\ 0 <= k /\ k <= Len(l) /\ l \in Seq(BodySymbols)
    BY <1>1, <1>2 DEF Stands
  <2> QED
    BY <2>1, SubSeqParts
<1>11. y \in Seq(BodySymbols)
  BY <1>9, SeqMonotonic DEF BodySymbols
<1>12. Len(x) = k /\ Len(y) = k
  BY <1>8, <1>9, <1>10 DEF Part
<1>13. ASSUME NEW m \in 1..k PROVE x[m] = y[m]
  <2>1. x[m] = l[m] /\ y[m] = s[p + m]
    BY <1>8, <1>9, <1>10 DEF Part
  <2>2. m \in Int /\ m \in 1..n
    BY <1>2
  <2>3. (i + m) - 1 = p + m
    <3>1. i = p + 1
      BY <1>8
    <3> QED
      BY <2>2, <3>1
  <2> QED
    BY <1>1, <2>1, <2>2, <2>3
<1>14. x = y
  BY <1>10, <1>11, <1>12, <1>13, SeqEqual
<1> QED
  BY <1>7, <1>8, <1>9, <1>10, <1>12, <1>14

\* The proxy accepts the sizes of the grammar.
LEMMA GrammarIs ==
    ASSUME NEW s \in Seq(STRING), NEW i \in Nat \ {0}, NEW l, Stands(l, s, i), EndsInCrlf(l)
    PROVE  InGrammar(s, i, (i + Len(l)) - 1) <=> IsSize(l, SizeDigits(l))
<1>1. PICK n \in Nat, j \in Nat : /\ n = Len(l) /\ n >= 2 /\ j = (i + n) - 1
                                  /\ \A m \in 1..n : l[m] = s[(i + m) - 1]
  BY DEF Stands, EndsInCrlf
<1>2. PICK x \in Nat, k \in Nat :
        /\ x = ExtensionAt(l) /\ x \in 1..n - 1 /\ (x = n - 1 \/ l[x] = "semicolon")
        /\ k = SizeDigits(l) /\ k \in 0..x - 1 /\ \A m \in k + 1..x - 1 : l[m] = "blank"
  BY <1>1, SizeParsed DEF Stands
<1>a. x \in 1..n - 1 /\ k \in 0..x - 1
  BY <1>2
<1>3. MaxSizeDigits \in Nat
  BY HttpAssumption
<1>4. ASSUME IsSize(l, k) PROVE InGrammar(s, i, j)
  <2>1. PICK e \in i + 1..i + MaxSizeDigits : e = i + k
    <3>1. i + k \in i + 1..i + MaxSizeDigits
      BY <1>3, <1>4 DEF IsSize
    <3> QED
      BY <3>1
  <2>2. PICK m \in e..j - 1 : m = (i + x) - 1
    <3>1. (i + x) - 1 \in e..j - 1
      BY <1>1, <1>a, <2>1
    <3> QED
      BY <3>1
  <2>3. ASSUME NEW c \in i..e - 1 PROVE s[c] \in DOMAIN DigitValues
    <3>1. PICK d \in 1..k : (i + d) - 1 = c /\ d \in 1..n
      <4>1. (c + 1) - i \in 1..k /\ (i + ((c + 1) - i)) - 1 = c /\ (c + 1) - i \in 1..n
        BY <1>1, <1>a, <2>1
      <4> QED
        BY <4>1
    <3> QED
      BY <1>1, <1>4, <3>1 DEF IsSize
  <2>4. ASSUME NEW c \in e..m - 1 PROVE s[c] = "blank"
    <3>1. PICK d \in k + 1..x - 1 : (i + d) - 1 = c /\ d \in 1..n
      <4>1. (c + 1) - i \in k + 1..x - 1 /\ (i + ((c + 1) - i)) - 1 = c /\ (c + 1) - i \in 1..n
        BY <1>1, <1>a, <2>1, <2>2
      <4> QED
        BY <4>1
    <3> QED
      BY <1>1, <1>2, <3>1
  <2>5. m = j - 1 \/ s[m] = "semicolon"
    <3>1. x \in 1..n
      BY <1>a, <1>1
    <3>2. s[m] = l[x]
      BY <1>1, <2>2, <3>1
    <3>3. x = n - 1 => m = j - 1
      BY <1>1, <1>a, <2>2
    <3> QED
      BY <1>2, <3>2, <3>3
  <2> QED
    BY <2>3, <2>4, <2>5 DEF InGrammar
<1>5. ASSUME InGrammar(s, i, j) PROVE IsSize(l, k)
  <2>1. PICK e \in i + 1..i + MaxSizeDigits : \E m \in e..j - 1 :
          /\ \A c \in i..e - 1 : s[c] \in DOMAIN DigitValues
          /\ \A c \in e..m - 1 : s[c] = "blank"
          /\ m = j - 1 \/ s[m] = "semicolon"
    BY <1>5 DEF InGrammar
  <2>2. PICK m \in e..j - 1 :
          /\ \A c \in i..e - 1 : s[c] \in DOMAIN DigitValues
          /\ \A c \in e..m - 1 : s[c] = "blank"
          /\ m = j - 1 \/ s[m] = "semicolon"
    BY <2>1
  <2>3. PICK d \in Nat, y \in Nat : /\ d = e - i /\ y = (m - i) + 1 /\ d \in 1..MaxSizeDigits
                                    /\ d + 1 <= y /\ y <= n - 1 /\ (y = n - 1 <=> m = j - 1)
    <3>1. /\ e - i \in Nat /\ (m - i) + 1 \in Nat /\ e - i \in 1..MaxSizeDigits
          /\ (e - i) + 1 <= (m - i) + 1 /\ (m - i) + 1 <= n - 1 /\ ((m - i) + 1 = n - 1 <=> m = j - 1)
      BY <1>1, <1>3
    <3> QED
      BY <3>1
  <2>4. ASSUME NEW c \in 1..d PROVE l[c] \in DOMAIN DigitValues
    <3>1. c \in 1..n /\ (i + c) - 1 \in i..e - 1
      BY <1>1, <2>3
    <3> QED
      BY <1>1, <2>2, <3>1
  <2>5. ASSUME NEW c \in d + 1..y - 1 PROVE l[c] = "blank"
    <3>1. c \in 1..n /\ (i + c) - 1 \in e..m - 1
      BY <1>1, <2>3
    <3> QED
      BY <1>1, <2>2, <3>1
  <2>6. y = n - 1 \/ l[y] = "semicolon"
    <3>1. y \in 1..n /\ (i + y) - 1 = m
      BY <1>1, <2>3
    <3> QED
      BY <1>1, <2>2, <2>3, <3>1
  <2>7. ExtensionAt(l) = y
    <3> DEFINE A == {c \in 1..n - 1 : c = n - 1 \/ l[c] = "semicolon"}
    <3>1. A \subseteq Nat /\ y \in A
      BY <1>1, <2>3, <2>6
    <3>2. ASSUME NEW c \in A PROVE y <= c
      <4> SUFFICES ASSUME c < y PROVE FALSE
        BY <1>1, <2>3
      <4>1. l[c] = "semicolon" /\ (c \in 1..d \/ c \in d + 1..y - 1)
        BY <1>1, <2>3
      <4>2. l[c] \in DOMAIN DigitValues \/ l[c] = "blank"
        BY <2>4, <2>5, <4>1
      <4> QED
        BY <4>1, <4>2, HttpAssumption
    <3>3. Min(A) = y
      <4> HIDE DEF A
      <4> QED
        BY <3>1, <3>2, MinIs
    <3>4. ExtensionAt(l) = Min(A)
      BY <1>1 DEF ExtensionAt
    <3> QED
      BY <3>3, <3>4
  <2>8. SizeDigits(l) = d
    <3> DEFINE B == {c \in 0..y - 1 : \A h \in c + 1..y - 1 : l[h] = "blank"}
    <3>1. B \subseteq Nat /\ d \in B
      BY <2>3, <2>5
    <3>2. ASSUME NEW c \in B PROVE d <= c
      <4> SUFFICES ASSUME c < d PROVE FALSE
        BY <2>3
      <4>1. d \in c + 1..y - 1 /\ d \in 1..d
        BY <2>3
      <4>2. l[d] = "blank" /\ l[d] \in DOMAIN DigitValues
        BY <2>4, <4>1
      <4> QED
        BY <4>2, HttpAssumption
    <3>3. Min(B) = d
      <4> HIDE DEF B
      <4> QED
        BY <3>1, <3>2, MinIs
    <3>4. SizeDigits(l) = Min(B)
      BY <2>7 DEF SizeDigits
    <3> QED
      BY <3>3, <3>4
  <2> QED
    BY <1>2, <2>3, <2>4, <2>8 DEF IsSize
<1> QED
  BY <1>1, <1>2, <1>4, <1>5

\* A chunk size that the proxy accepts is the size that every reader takes it
\* for, and one that it does not accept is none of the grammar.
LEMMA SizeReads ==
    ASSUME NEW o \in Readers, NEW s \in Seq(STRING), NEW i \in Nat \ {0}, NEW l, Stands(l, s, i),
           EndsInCrlf(l)
    PROVE  /\ ChunkSize(l) # Invalid => SizeAt(o, s, i) = ChunkSize(l) /\ ChunkSize(l) \in Nat
           /\ ChunkSize(l) = Invalid /\ o.lines = "strict" => SizeAt(o, s, i) = Invalid
<1>1. PICK j \in Nat : j = (i + Len(l)) - 1 /\ LineEnd(o, s, i) = j /\ j # Incomplete
  BY LineReads DEF Stands, Incomplete
<1>2. PICK k \in Nat : k = SizeDigits(l)
  BY SizeParsed DEF Stands
<1>3. InGrammar(s, i, j) <=> IsSize(l, k)
  BY <1>1, <1>2, GrammarIs
<1>4. CASE ~IsSize(l, k)
  <2>1. ChunkSize(l) = Invalid
    BY <1>2, <1>4 DEF ChunkSize
  <2>2. o.lines = "strict" => SizeAt(o, s, i) = Invalid
    BY <1>1, <1>3, <1>4 DEF SizeAt
  <2> QED
    BY <2>1, <2>2
<1>5. CASE IsSize(l, k)
  <2>0. k + 1 \in 1..Len(l) /\ l[k + 1] \notin DOMAIN DigitValues
    BY <1>2, SizeDelimited DEF Stands
  <2>a. /\ DigitsEnd(s, i) = i + k
        /\ SubSeq(s, i, (i + k) - 1) = SubSeq(l, 1, k) /\ SubSeq(s, i, (i + k) - 1) \in Seq(STRING)
        /\ Len(SubSeq(s, i, (i + k) - 1)) = k
    BY <1>5, <2>0, DigitsRead, Zenon
  <2>1. PICK q : /\ q = SubSeq(s, i, (i + k) - 1) /\ q = SubSeq(l, 1, k) /\ q \in Seq(STRING)
                 /\ Len(q) = k /\ DigitsEnd(s, i) = i + k
    BY <2>a, Zenon
  <2>2. k >= 1 /\ k <= MaxSizeDigits
    BY <1>5, HttpAssumption DEF IsSize
  <2>3. PICK v \in Nat : v = Value(q) /\ v < OriginWidth
    BY <2>1, <2>2, Values
  <2>4. ChunkSize(l) = v
    BY <1>2, <1>5, <2>1, <2>3 DEF ChunkSize
  <2>5. SizeAt(o, s, i) = v % OriginWidth
    <3>1. DigitsEnd(s, i) # i
      BY <2>1, <2>2
    <3> QED
      BY <1>1, <1>3, <1>5, <2>1, <2>3, <3>1 DEF SizeAt
  <2>6. v % OriginWidth = v
    BY <2>3, HttpAssumption
  <2>7. v # Invalid
    BY DEF Invalid
  <2> QED
    BY <2>4, <2>5, <2>6, <2>7
<1> QED
  BY <1>4, <1>5

-----------------------------------------------------------------------------
(* HTTP: where a body ends *)

\* The end of trailers: at a line end, if the line is empty, or where those
\* that follow end.
LEMMA TrailerEndsAt ==
    ASSUME NEW o \in Readers, NEW s \in Seq(STRING), NEW i \in 1..Len(s) + 1
    PROVE  /\ TrailerEnds(o, s)[i] =
                IF TrailersGoOn(o, s, i) THEN TrailerEnds(o, s)[LineEnd(o, s, i) + 1]
                ELSE LineEnd(o, s, i)
           /\ TrailerEnds(o, s)[i] = Incomplete
              \/ (TrailerEnds(o, s)[i] \in Nat /\ TrailerEnds(o, s)[i] >= i)
<1> DEFINE n == Len(s)
           J == [k \in 1..n + 1 |-> IF TrailersGoOn(o, s, k) THEN LineEnd(o, s, k) + 1 ELSE 0]
           V == [k \in 1..n + 1 |-> LineEnd(o, s, k)]
           h == TrailerEnds(o, s)
<1>1. n \in Nat
  BY LenProperties
<1>2. ASSUME NEW k \in 1..n + 1
      PROVE  /\ LineEnd(o, s, k) = Incomplete
                \/ (LineEnd(o, s, k) \in Nat /\ LineEnd(o, s, k) >= k /\ LineEnd(o, s, k) <= n)
             /\ TrailersGoOn(o, s, k) => LineEnd(o, s, k) # Incomplete
  <2>1. k \in Nat \ {0}
    OBVIOUS
  <2> QED
    BY <2>1, LineEnds DEF TrailersGoOn
<1>3. \A k \in 1..n + 1 : J[k] \in Nat /\ (J[k] # 0 => J[k] > k /\ J[k] <= n + 1)
  BY <1>1, <1>2
<1>4. Jumps(n, J, V)
  <2> HIDE DEF J, V, n
  <2> QED
    BY <1>1, <1>3, JumpsExist
<1>5. PICK f : f = [k \in 1..n + 1 |-> IF J[k] # 0 THEN f[J[k]] ELSE V[k]]
  <2> HIDE DEF J, V, n
  <2> QED
    BY <1>4, Zenon DEF Jumps
<1>6. \A k \in 1..n + 1 : /\ J[k] # 0 <=> TrailersGoOn(o, s, k)
                          /\ TrailersGoOn(o, s, k) => J[k] = LineEnd(o, s, k) + 1
                          /\ V[k] = LineEnd(o, s, k)
  BY <1>2
<1>7. f = [k \in 1..n + 1 |-> IF TrailersGoOn(o, s, k) THEN f[LineEnd(o, s, k) + 1]
                              ELSE LineEnd(o, s, k)]
  <2> HIDE DEF J, V, n
  <2> QED
    BY <1>5, <1>6
<1>8. \E g : g = [k \in 1..n + 1 |-> IF TrailersGoOn(o, s, k) THEN g[LineEnd(o, s, k) + 1]
                                     ELSE LineEnd(o, s, k)]
  BY <1>7, Zenon
<1>9. h = [k \in 1..n + 1 |-> IF TrailersGoOn(o, s, k) THEN h[LineEnd(o, s, k) + 1]
                              ELSE LineEnd(o, s, k)]
  BY <1>8, Zenon DEF TrailerEnds
<1> HIDE DEF h
<1>10. \A k \in 1..n + 1 : h[k] = IF TrailersGoOn(o, s, k) THEN h[LineEnd(o, s, k) + 1]
                                  ELSE LineEnd(o, s, k)
  BY <1>9, Zenon
<1>11. \A k \in 1..n + 1 :
         /\ J[k] \in Nat
         /\ J[k] # 0 => J[k] > k /\ J[k] <= n + 1 /\ h[k] = h[J[k]]
         /\ J[k] = 0 => h[k] = Incomplete \/ (h[k] \in Nat /\ h[k] >= k)
  <2> SUFFICES ASSUME NEW k \in 1..n + 1
               PROVE  /\ J[k] \in Nat
                      /\ J[k] # 0 => J[k] > k /\ J[k] <= n + 1 /\ h[k] = h[J[k]]
                      /\ J[k] = 0 => h[k] = Incomplete \/ (h[k] \in Nat /\ h[k] >= k)
    OBVIOUS
  <2>1. CASE ~TrailersGoOn(o, s, k)
    BY <1>2, <1>3, <1>6, <1>10, <2>1
  <2>2. CASE TrailersGoOn(o, s, k)
    BY <1>3, <1>6, <1>10, <2>2
  <2> QED
    BY <2>1, <2>2
<1>12. \A k \in 1..n + 1 : h[k] = Incomplete \/ (h[k] \in Nat /\ h[k] >= k)
  <2> HIDE DEF J, n
  <2> QED
    BY <1>1, <1>11, JumpsBound
<1> QED
  BY <1>10, <1>12 DEF h

\* The size line of a chunk.
LEMMA SizesAt ==
    ASSUME NEW o \in Readers, NEW s \in Seq(STRING), NEW i \in 1..Len(s) + 1
    PROVE  \/ SizeAt(o, s, i) = Invalid
           \/ /\ SizeAt(o, s, i) \in Nat /\ LineEnd(o, s, i) \in Nat
              /\ LineEnd(o, s, i) >= i /\ LineEnd(o, s, i) <= Len(s)
<1> DEFINE j == LineEnd(o, s, i)
           A == {e \in i..Len(s) + 1 : e = Len(s) + 1 \/ s[e] \notin DOMAIN DigitValues}
<1>1. Len(s) \in Nat /\ i \in Nat \ {0}
  BY LenProperties
<1>2. CASE j = Incomplete
  BY <1>2 DEF SizeAt
<1>3. CASE j # Incomplete
  <2>1. j \in Nat /\ j >= i /\ j <= Len(s)
    BY <1>1, <1>3, LineEnds
  <2>2. A \subseteq Nat /\ Len(s) + 1 \in A
    BY <1>1
  <2>3. DigitsEnd(s, i) = Min(A)
    BY DEF DigitsEnd
  <2>4. PICK e \in Nat : e = DigitsEnd(s, i) /\ e \in A
    <3> HIDE DEF A
    <3> QED
      BY <2>2, <2>3, MinExists
  <2>5. e = DigitsEnd(s, i) /\ e >= i /\ e <= Len(s) + 1
    BY <1>1, <2>4
  <2>6. SubSeq(s, i, e - 1) \in Seq(STRING)
    <3>1. /\ i - 1 \in Nat /\ e - 1 \in Nat /\ i - 1 <= e - 1 /\ e - 1 <= Len(s)
          /\ (i - 1) + 1 = i
      BY <1>1, <2>5
    <3>2. SubSeq(s, (i - 1) + 1, e - 1) \in Seq(STRING)
      BY <3>1, SubSeqParts
    <3> QED
      BY <3>1, <3>2
  <2>7. PICK v \in Nat : v = Value(SubSeq(s, i, e - 1))
    BY <2>6, Values
  <2>8. v % OriginWidth \in Nat
    BY HttpAssumption
  <2>9. SizeAt(o, s, i) = Invalid \/ SizeAt(o, s, i) = v % OriginWidth
    BY <2>5, <2>7 DEF SizeAt
  <2> QED
    BY <2>1, <2>8, <2>9
<1> QED
  BY <1>2, <1>3

\* What follows the data of a chunk lies behind it.
LEMMA AfterDataIs ==
    ASSUME NEW o \in Readers, NEW s \in Seq(STRING), NEW i \in Nat \ {0}
    PROVE  \/ AfterData(o, s, i) = 0
           \/ /\ AfterData(o, s, i) = LineEnd(o, s, i) + 1 /\ LineEnd(o, s, i) \in Nat
              /\ LineEnd(o, s, i) >= i /\ LineEnd(o, s, i) <= Len(s)
  BY LineEnds DEF AfterData

\* The next chunk lies ahead.
LEMMA NextAhead ==
    ASSUME NEW o \in Readers, NEW s \in Seq(STRING), NEW i \in 1..Len(s) + 1
    PROVE  /\ NextChunk(o, s, i) \in Nat
           /\ NextChunk(o, s, i) # 0 => NextChunk(o, s, i) > i /\ NextChunk(o, s, i) <= Len(s) + 1
           /\ SizeAt(o, s, i) = 0 => /\ NextChunk(o, s, i) = 0
                                     /\ LineEnd(o, s, i) + 1 \in 1..Len(s) + 1
                                     /\ LineEnd(o, s, i) + 1 > i
<1>1. Len(s) \in Nat /\ i \in Nat
  BY LenProperties
<1>2. CASE SizeAt(o, s, i) = Invalid
  BY <1>2 DEF NextChunk, Invalid
<1>3. CASE SizeAt(o, s, i) # Invalid
  <2>1. PICK j \in Nat, z \in Nat : j = LineEnd(o, s, i) /\ z = SizeAt(o, s, i) /\ j >= i /\ j <= Len(s)
    BY <1>3, SizesAt
  <2>2. NextChunk(o, s, i) = IF z = 0 THEN 0 ELSE AfterData(o, s, j + z + 1)
    BY <1>3, <2>1 DEF NextChunk
  <2>3. PICK d \in Nat \ {0} : d = j + z + 1
    OBVIOUS
  <2>4. \/ AfterData(o, s, d) = 0
        \/ /\ AfterData(o, s, d) = LineEnd(o, s, d) + 1 /\ LineEnd(o, s, d) \in Nat
           /\ LineEnd(o, s, d) >= d /\ LineEnd(o, s, d) <= Len(s)
    BY AfterDataIs
  <2>5. NextChunk(o, s, i) = IF z = 0 THEN 0 ELSE AfterData(o, s, d)
    BY <2>2, <2>3
  <2> QED
    BY <1>1, <2>1, <2>3, <2>4, <2>5
<1> QED
  BY <1>2, <1>3

\* The end of a chunked body: with the trailers, if the chunk is the last, or
\* where the chunks that follow end.
LEMMA ChunkEndsAt ==
    ASSUME NEW o \in Readers, NEW s \in Seq(STRING), NEW i \in 1..Len(s) + 1
    PROVE  /\ ChunkEnds(o, s)[i] =
                IF NextChunk(o, s, i) # 0 THEN ChunkEnds(o, s)[NextChunk(o, s, i)]
                ELSE IF SizeAt(o, s, i) = 0 THEN TrailerEnds(o, s)[LineEnd(o, s, i) + 1] ELSE Incomplete
           /\ ChunkEnds(o, s)[i] = Incomplete \/ (ChunkEnds(o, s)[i] \in Nat /\ ChunkEnds(o, s)[i] >= i)
<1> DEFINE n == Len(s)
           Here(k) == IF SizeAt(o, s, k) = 0 THEN TrailerEnds(o, s)[LineEnd(o, s, k) + 1] ELSE Incomplete
           J == [k \in 1..n + 1 |-> NextChunk(o, s, k)]
           V == [k \in 1..n + 1 |-> Here(k)]
           h == ChunkEnds(o, s)
<1>1. n \in Nat
  BY LenProperties
<1>2. \A k \in 1..n + 1 : J[k] \in Nat /\ (J[k] # 0 => J[k] > k /\ J[k] <= n + 1)
  BY NextAhead
<1>3. \A k \in 1..n + 1 : J[k] = NextChunk(o, s, k) /\ V[k] = Here(k)
  OBVIOUS
<1>4. Jumps(n, J, V)
  <2> HIDE DEF J, V, n
  <2> QED
    BY <1>1, <1>2, JumpsExist
<1>5. PICK f : f = [k \in 1..n + 1 |-> IF J[k] # 0 THEN f[J[k]] ELSE V[k]]
  <2> HIDE DEF J, V, n
  <2> QED
    BY <1>4, Zenon DEF Jumps
<1>6. f = [k \in 1..n + 1 |-> IF NextChunk(o, s, k) # 0 THEN f[NextChunk(o, s, k)] ELSE Here(k)]
  <2> HIDE DEF J, V, n, Here
  <2> QED
    BY <1>3, <1>5
<1>7. \E g : g = [k \in 1..n + 1 |-> IF NextChunk(o, s, k) # 0 THEN g[NextChunk(o, s, k)] ELSE Here(k)]
  BY <1>6, Zenon
<1>8. h = [k \in 1..n + 1 |-> IF NextChunk(o, s, k) # 0 THEN h[NextChunk(o, s, k)] ELSE Here(k)]
  BY <1>7, Zenon DEF ChunkEnds
<1> HIDE DEF h
<1>9. \A k \in 1..n + 1 : h[k] = IF NextChunk(o, s, k) # 0 THEN h[NextChunk(o, s, k)] ELSE Here(k)
  BY <1>8, Zenon
<1>10. ASSUME NEW k \in 1..n + 1
       PROVE  Here(k) = Incomplete \/ (Here(k) \in Nat /\ Here(k) >= k)
  <2>1. CASE SizeAt(o, s, k) = 0
    <3>1. PICK m \in 1..n + 1 : m = LineEnd(o, s, k) + 1 /\ m > k
      BY <2>1, NextAhead
    <3>2. TrailerEnds(o, s)[m] = Incomplete \/ (TrailerEnds(o, s)[m] \in Nat /\ TrailerEnds(o, s)[m] >= m)
      BY TrailerEndsAt
    <3>3. Here(k) = TrailerEnds(o, s)[m]
      BY <2>1, <3>1
    <3> HIDE DEF Here
    <3> QED
      BY <1>1, <3>1, <3>2, <3>3
  <2> QED
    BY <2>1
<1>11. \A k \in 1..n + 1 :
         /\ J[k] \in Nat
         /\ J[k] # 0 => J[k] > k /\ J[k] <= n + 1 /\ h[k] = h[J[k]]
         /\ J[k] = 0 => h[k] = Incomplete \/ (h[k] \in Nat /\ h[k] >= k)
  <2> HIDE DEF J, V, Here
  <2> QED
    BY <1>2, <1>3, <1>9, <1>10
<1>12. \A k \in 1..n + 1 : h[k] = Incomplete \/ (h[k] \in Nat /\ h[k] >= k)
  <2> HIDE DEF J, n
  <2> QED
    BY <1>1, <1>11, JumpsBound
<1> QED
  BY <1>9, <1>12 DEF h

-----------------------------------------------------------------------------
(* HTTP: the headers that frame a body *)

\* The tokens of the first i headers follow from those of the first i - 1.
LEMMA TokensStep ==
    ASSUME NEW hs \in Seq(HeaderLines), NEW name
    PROVE  /\ TokensUpTo(hs, name)[0] = <<>>
           /\ \A i \in 1..Len(hs) : TokensUpTo(hs, name)[i] =
                WithTokens(TokensUpTo(hs, name)[i - 1], hs[i], name)
<1> DEFINE n == Len(hs)
           X == Seq(STRING)
           G == [i \in 1..n |-> [x \in X |-> WithTokens(x, hs[i], name)]]
           h == TokensUpTo(hs, name)
<1>1. n \in Nat /\ \A i \in 1..n : hs[i] \in HeaderLines
  BY LenProperties, ElementOfSeq
<1>2. G \in [1..n -> [X -> X]] /\ <<>> \in X
  <2>1. ASSUME NEW i \in 1..n, NEW x \in X PROVE WithTokens(x, hs[i], name) \in X
    <3>1. hs[i].tokens \in X
      BY <1>1 DEF HeaderLines
    <3>2. x \o hs[i].tokens \in X
      BY <3>1, ConcatProperties
    <3> QED
      BY <3>2 DEF WithTokens
  <2>2. <<>> \in X
    OBVIOUS
  <2> HIDE DEF X, n
  <2> QED
    BY <2>1, <2>2
<1>3. Steps(n, X, <<>>, G)
  <2> HIDE DEF G, n, X
  <2> QED
    BY <1>1, <1>2, StepsExist
<1>4. PICK f \in [0..n -> X] : f[0] = <<>> /\ \A i \in 1..n : f[i] = G[i][f[i - 1]]
  <2> HIDE DEF G, n, X
  <2> QED
    BY <1>3 DEF Steps
<1>5. \A i \in 1..n : f[i] = WithTokens(f[i - 1], hs[i], name)
  <2>1. \A i \in 1..n : f[i - 1] \in X
    BY <1>1
  <2> HIDE DEF X, n
  <2> QED
    BY <1>4, <2>1
<1> HIDE DEF X
<1>6. f = [i \in 0..n |-> IF i = 0 THEN <<>> ELSE WithTokens(f[i - 1], hs[i], name)]
  <2>1. \A i \in 0..n : i = 0 \/ i \in 1..n
    BY <1>1
  <2> HIDE DEF n
  <2> QED
    BY <1>4, <1>5, <2>1
<1>7. \E g : g = [i \in 0..n |-> IF i = 0 THEN <<>> ELSE WithTokens(g[i - 1], hs[i], name)]
  BY <1>6, Zenon
<1>8. h = [i \in 0..n |-> IF i = 0 THEN <<>> ELSE WithTokens(h[i - 1], hs[i], name)]
  BY <1>7, Zenon DEF TokensUpTo
<1> HIDE DEF h
<1>9. h[0] = <<>> /\ \A i \in 1..n : h[i] = WithTokens(h[i - 1], hs[i], name)
  <2>1. 0 \in 0..n /\ \A i \in 1..n : i \in 0..n /\ i # 0
    BY <1>1
  <2> HIDE DEF n
  <2> QED
    BY <1>8, <2>1
<1> QED
  BY <1>9 DEF h

\* The tokens of a list of headers with one more at its end.
LEMMA NamedAppend ==
    ASSUME NEW hs \in Seq(HeaderLines), NEW e \in HeaderLines, NEW name
    PROVE  Named(Append(hs, e), name) = WithTokens(Named(hs, name), e, name)
<1> DEFINE n == Len(hs)
           q == Append(hs, e)
           f == TokensUpTo(hs, name)
           g == TokensUpTo(q, name)
<1>1. /\ n \in Nat /\ q \in Seq(HeaderLines) /\ Len(q) = n + 1 /\ q[n + 1] = e
      /\ \A i \in 1..n : q[i] = hs[i]
  BY AppendProperties, LenProperties
<1>2. f[0] = <<>> /\ \A i \in 1..n : f[i] = WithTokens(f[i - 1], hs[i], name)
  BY TokensStep
<1> HIDE DEF q
<1>3. g[0] = <<>> /\ \A i \in 1..n + 1 : g[i] = WithTokens(g[i - 1], q[i], name)
  BY <1>1, TokensStep
<1> HIDE DEF n, f, g
<1> DEFINE P == {i \in Nat : i <= n => f[i] = g[i]}
<1>4. Nat \subseteq P
  <2>1. 0 \in P
    BY <1>2, <1>3
  <2>2. ASSUME NEW i \in Nat, i \in P PROVE i + 1 \in P
    <3> SUFFICES ASSUME i + 1 <= n PROVE f[i + 1] = g[i + 1]
      OBVIOUS
    <3>1. i + 1 \in 1..n /\ i + 1 \in 1..n + 1 /\ (i + 1) - 1 = i /\ i <= n
      BY <1>1
    <3> QED
      BY <1>1, <1>2, <1>3, <2>2, <3>1
  <2> HIDE DEF P
  <2> QED
    BY <2>1, <2>2, NatSetInduction
<1>5. f[n] = g[n]
  BY <1>1, <1>4
<1>6. n + 1 \in 1..n + 1 /\ (n + 1) - 1 = n
  BY <1>1
<1>7. g[n + 1] = WithTokens(f[n], e, name)
  BY <1>1, <1>3, <1>5, <1>6
<1> QED
  BY <1>1, <1>7 DEF Named, f, g, n, q

\* What is forwarded of the first i headers follows from what is of the first
\* i - 1, and the headers that are forwarded are headers that go upstream.
LEMMA ForwardedStep ==
    ASSUME NEW hs \in Seq(HeaderLines)
    PROVE  /\ ForwardedUpTo(hs)[0] = <<>>
           /\ \A i \in 1..Len(hs) : ForwardedUpTo(hs)[i] =
                WithForwarded(ForwardedUpTo(hs)[i - 1], hs, hs[i])
           /\ \A i \in 0..Len(hs) : ForwardedUpTo(hs)[i] \in Seq({h \in HeaderLines : Forwards(hs, h)})
<1> DEFINE n == Len(hs)
           Y == {h \in HeaderLines : Forwards(hs, h)}
           X == Seq(Y)
           G == [i \in 1..n |-> [x \in X |-> WithForwarded(x, hs, hs[i])]]
           h == ForwardedUpTo(hs)
<1>1. n \in Nat /\ \A i \in 1..n : hs[i] \in HeaderLines
  BY LenProperties, ElementOfSeq
<1>2. G \in [1..n -> [X -> X]] /\ <<>> \in X
  <2>1. ASSUME NEW i \in 1..n, NEW x \in X PROVE WithForwarded(x, hs, hs[i]) \in X
    <3>1. CASE Forwards(hs, hs[i])
      <4>1. hs[i] \in Y
        BY <1>1, <3>1
      <4> HIDE DEF Y
      <4>2. Append(x, hs[i]) \in X
        BY <4>1, AppendProperties
      <4> QED
        BY <3>1, <4>2 DEF WithForwarded
    <3>2. CASE ~Forwards(hs, hs[i])
      BY <3>2 DEF WithForwarded
    <3> QED
      BY <3>1, <3>2
  <2>2. <<>> \in X
    OBVIOUS
  <2> HIDE DEF X, n
  <2> QED
    BY <2>1, <2>2
<1>3. Steps(n, X, <<>>, G)
  <2> HIDE DEF G, n, X
  <2> QED
    BY <1>1, <1>2, StepsExist
<1>4. PICK f \in [0..n -> X] : f[0] = <<>> /\ \A i \in 1..n : f[i] = G[i][f[i - 1]]
  <2> HIDE DEF G, n, X
  <2> QED
    BY <1>3 DEF Steps
<1> HIDE DEF X
<1>5. \A i \in 1..n : f[i] = WithForwarded(f[i - 1], hs, hs[i])
  <2>1. \A i \in 1..n : f[i - 1] \in X
    BY <1>1
  <2> HIDE DEF n
  <2> QED
    BY <1>4, <2>1
<1>6. f = [i \in 0..n |-> IF i = 0 THEN <<>> ELSE WithForwarded(f[i - 1], hs, hs[i])]
  <2>1. \A i \in 0..n : i = 0 \/ i \in 1..n
    BY <1>1
  <2> HIDE DEF n
  <2> QED
    BY <1>4, <1>5, <2>1
<1>7. \E g : g = [i \in 0..n |-> IF i = 0 THEN <<>> ELSE WithForwarded(g[i - 1], hs, hs[i])]
  BY <1>6, Zenon
<1>8. h = [i \in 0..n |-> IF i = 0 THEN <<>> ELSE WithForwarded(h[i - 1], hs, hs[i])]
  BY <1>7, Zenon DEF ForwardedUpTo
<1> HIDE DEF h
<1>9. h[0] = <<>> /\ \A i \in 1..n : h[i] = WithForwarded(h[i - 1], hs, hs[i])
  <2>1. 0 \in 0..n /\ \A i \in 1..n : i \in 0..n /\ i # 0
    BY <1>1
  <2> HIDE DEF n
  <2> QED
    BY <1>8, <2>1
<1> DEFINE P == {i \in Nat : i <= n => h[i] \in X}
<1>10. Nat \subseteq P
  <2>1. 0 \in P
    BY <1>2, <1>9
  <2>2. ASSUME NEW i \in Nat, i \in P PROVE i + 1 \in P
    <3> SUFFICES ASSUME i + 1 <= n PROVE h[i + 1] \in X
      OBVIOUS
    <3>1. i + 1 \in 1..n /\ (i + 1) - 1 = i /\ i <= n
      BY <1>1
    <3>2. h[i] \in X
      BY <2>2, <3>1
    <3>3. G[i + 1][h[i]] = WithForwarded(h[i], hs, hs[i + 1]) /\ G[i + 1][h[i]] \in X
      <4> HIDE DEF n
      <4>1. G[i + 1] \in [X -> X] /\ G[i + 1] = [x \in X |-> WithForwarded(x, hs, hs[i + 1])]
        BY <1>2, <3>1
      <4> QED
        BY <3>2, <4>1
    <3> QED
      BY <1>9, <3>1, <3>3
  <2> HIDE DEF P
  <2> QED
    BY <2>1, <2>2, NatSetInduction
<1>11. \A i \in 0..n : h[i] \in X
  BY <1>1, <1>10
<1> QED
  BY <1>9, <1>11 DEF h, X

\* "A Connection option may never remove these headers": the headers that
\* frame the body are forwarded with all their tokens.
LEMMA FramingIsForwarded ==
    ASSUME NEW hs \in Seq(HeaderLines), NEW name, IsFramingHeader(name)
    PROVE  Named(ForwardedHeaders(hs), name) = Named(hs, name)
<1> DEFINE n == Len(hs)
           Y == {h \in HeaderLines : Forwards(hs, h)}
           F == ForwardedUpTo(hs)
           T == TokensUpTo(hs, name)
           P == {i \in Nat : i <= n => Named(F[i], name) = T[i]}
<1>1. n \in Nat /\ \A i \in 1..n : hs[i] \in HeaderLines
  BY LenProperties, ElementOfSeq
<1>2. T[0] = <<>> /\ \A i \in 1..n : T[i] = WithTokens(T[i - 1], hs[i], name)
  BY TokensStep
<1>3. /\ F[0] = <<>> /\ \A i \in 1..n : F[i] = WithForwarded(F[i - 1], hs, hs[i])
      /\ \A i \in 0..n : F[i] \in Seq(Y)
  BY ForwardedStep
<1>4. \A i \in 0..n : F[i] \in Seq(HeaderLines)
  <2> SUFFICES ASSUME NEW i \in 0..n PROVE F[i] \in Seq(HeaderLines)
    OBVIOUS
  <2>1. \A h \in Y : h \in HeaderLines
    OBVIOUS
  <2>2. F[i] \in Seq(Y)
    BY <1>3
  <2> HIDE DEF Y, F
  <2>3. /\ Len(F[i]) \in Nat /\ F[i] = [k \in 1..Len(F[i]) |-> F[i][k]]
        /\ \A k \in 1..Len(F[i]) : F[i][k] \in HeaderLines
    BY <2>1, <2>2, ElementOfSeq, LenProperties
  <2>4. F[i] \in [1..Len(F[i]) -> HeaderLines]
    BY <2>3
  <2> QED
    BY <2>3, <2>4, SegmentIsSequence
<1>5. \A h : h.name = name => Forwards(hs, h)
  BY DEF Forwards, IsFramingHeader, IsHopByHop
<1> HIDE DEF Y, F, T, n
<1>6. 0 \in P
  <2>1. <<>> \in Seq(HeaderLines) /\ Len(<<>>) = 0
    OBVIOUS
  <2>2. TokensUpTo(<<>>, name)[0] = <<>>
    BY <2>1, TokensStep
  <2>3. Named(<<>>, name) = <<>>
    BY <2>1, <2>2 DEF Named
  <2> QED
    BY <1>2, <1>3, <2>3
<1>7. ASSUME NEW i \in Nat, i \in P PROVE i + 1 \in P
  <2> SUFFICES ASSUME i + 1 <= n PROVE Named(F[i + 1], name) = T[i + 1]
    OBVIOUS
  <2>1. i + 1 \in 1..n /\ (i + 1) - 1 = i /\ i <= n /\ i \in 0..n
    BY <1>1
  <2>2. Named(F[i], name) = T[i]
    BY <1>7, <2>1
  <2>3. PICK h \in HeaderLines : h = hs[i + 1]
    BY <1>1, <2>1
  <2>4. T[i + 1] = WithTokens(T[i], h, name) /\ F[i + 1] = WithForwarded(F[i], hs, h)
    BY <1>2, <1>3, <2>1, <2>3
  <2>5. CASE Forwards(hs, h)
    <3>1. F[i + 1] = Append(F[i], h) /\ F[i] \in Seq(HeaderLines)
      BY <1>4, <2>1, <2>4, <2>5 DEF WithForwarded
    <3>2. Named(Append(F[i], h), name) = WithTokens(Named(F[i], name), h, name)
      BY <3>1, NamedAppend
    <3> QED
      BY <2>2, <2>4, <3>1, <3>2
  <2>6. CASE ~Forwards(hs, h)
    <3>1. h.name # name
      BY <1>5, <2>6
    <3> QED
      BY <2>2, <2>4, <2>6, <3>1 DEF WithForwarded, WithTokens
  <2> QED
    BY <2>5, <2>6
<1>8. Nat \subseteq P
  <2> HIDE DEF P
  <2> QED
    BY <1>6, <1>7, NatSetInduction
<1>9. n \in P
  <2> HIDE DEF P
  <2> QED
    BY <1>1, <1>8
<1>10. Named(F[n], name) = T[n]
  BY <1>9, <1>1
<1> QED
  BY <1>10 DEF Named, ForwardedHeaders, F, T, n

\* Credentials are not forwarded.
LEMMA CredentialsStay ==
    ASSUME NEW hs \in Seq(HeaderLines)
    PROVE  ~Has(ForwardedHeaders(hs), "proxy-authorization")
<1> DEFINE Y == {h \in HeaderLines : Forwards(hs, h)}
           q == ForwardedHeaders(hs)
<1>1. q \in Seq(Y)
  <2>1. Len(hs) \in 0..Len(hs)
    BY LenProperties
  <2> QED
    BY <2>1, ForwardedStep DEF ForwardedHeaders
<1> HIDE DEF q
<1>2. \A i \in 1..Len(q) : q[i] \in Y
  <2> HIDE DEF Y
  <2> QED
    BY <1>1, ElementOfSeq
<1>3. \A h \in Y : h.name # "proxy-authorization"
  BY DEF Forwards, IsHopByHop
<1>4. ~Has(q, "proxy-authorization")
  <2> HIDE DEF Y
  <2> QED
    BY <1>2, <1>3 DEF Has
<1> QED
  BY <1>4 DEF q

\* A reader that sees the header lines the proxy sees.
Apt(o, request) == o.lines = "lf" => ~Split(request.headers)

\* The framing that the proxy follows is the one its headers give the origin.
Fits(o, request) ==
    /\ request.framing.kind \in {"chunked", "empty", "length"}
    /\ request.framing.kind = "chunked" => OriginFraming(o, request) = Framing("chunked", 0)
    /\ request.framing.kind = "empty" =>
          OriginFraming(o, request) = Framing("length", 0) /\ request.framing.length = 0
    /\ request.framing.kind = "length" =>
          OriginFraming(o, request) = request.framing /\ request.framing.length \in Nat \ {0}
    /\ request.framing.length \in Nat

\* The tokens of the headers of a name.
LEMMA NamedIsSequence ==
    ASSUME NEW hs \in Seq(HeaderLines), NEW name
    PROVE  Named(hs, name) \in Seq(STRING)
<1> DEFINE n == Len(hs)
           T == TokensUpTo(hs, name)
           P == {i \in Nat : i <= n => T[i] \in Seq(STRING)}
<1>1. n \in Nat /\ \A i \in 1..n : hs[i] \in HeaderLines
  BY LenProperties, ElementOfSeq
<1>2. T[0] = <<>> /\ \A i \in 1..n : T[i] = WithTokens(T[i - 1], hs[i], name)
  BY TokensStep
<1> HIDE DEF T, n
<1>3. 0 \in P
  <2>1. <<>> \in Seq(STRING)
    OBVIOUS
  <2> QED
    BY <1>2, <2>1
<1>4. ASSUME NEW i \in Nat, i \in P PROVE i + 1 \in P
  <2> SUFFICES ASSUME i + 1 <= n PROVE T[i + 1] \in Seq(STRING)
    OBVIOUS
  <2>1. i + 1 \in 1..n /\ (i + 1) - 1 = i /\ i <= n
    BY <1>1
  <2>2. T[i] \in Seq(STRING) /\ hs[i + 1].tokens \in Seq(STRING)
    BY <1>1, <1>4, <2>1 DEF HeaderLines
  <2>3. T[i] \o hs[i + 1].tokens \in Seq(STRING)
    BY <2>2, ConcatProperties
  <2> QED
    BY <1>2, <2>1, <2>2, <2>3 DEF WithTokens
<1>5. Nat \subseteq P
  <2> HIDE DEF P
  <2> QED
    BY <1>3, <1>4, NatSetInduction
<1>6. n \in P
  <2> HIDE DEF P
  <2> QED
    BY <1>1, <1>5
<1>7. T[n] \in Seq(STRING)
  BY <1>1, <1>6
<1> QED
  BY <1>7 DEF Named, T, n

\* If all elements of a sequence are the same, so are the first and the last.
LEMMA AllTheSame ==
    ASSUME NEW L \in Seq(STRING), L # <<>>, ToSet(L) = {Head(L)}
    PROVE  Last(L) = Head(L)
<1>1. Len(L) \in 1..Len(L)
  BY LenProperties, EmptySeq
<1>2. L[Len(L)] \in ToSet(L)
  BY <1>1 DEF ToSet
<1> QED
  BY <1>2 DEF Last

\* A number is the same modulo a larger one.
LEMMA SmallMod ==
    ASSUME NEW x \in Nat, NEW w \in Nat \ {0}, x < w
    PROVE  x % w = x
  OBVIOUS

\* request_framing refuses what an origin would read in another way.
LEMMA FramingFits ==
    ASSUME NEW o \in Readers, NEW C \in Seq(STRING), NEW L \in Seq(STRING), NEW r, Apt(o, r),
           Named(r.headers, "transfer-encoding") = C, Named(r.headers, "content-length") = L,
           r.framing = RequestFraming(r.version, L, C), r.framing.kind # "reject"
    PROVE  Fits(o, r)
<1> USE DEF Framing
<1>0. OriginLines(o, r.headers) = r.headers
  BY DEF Apt, OriginLines
<1>1. CASE C # <<>>
  <2>1. /\ Last(C) = "chunked" /\ L = <<>> /\ r.version = "1.1"
        /\ r.framing = Framing("chunked", 0)
    <3> HIDE DEF Framing
    <3>1. \/ /\ Last(C) = "chunked" /\ L = <<>> /\ r.version = "1.1"
             /\ RequestFraming(r.version, L, C) = Framing("chunked", 0)
          \/ RequestFraming(r.version, L, C) = Framing("reject", 0)
      BY <1>1, Zenon DEF RequestFraming
    <3>2. Framing("reject", 0).kind = "reject"
      BY DEF Framing
    <3> QED
      BY <3>1, <3>2
  <2>2. OriginFraming(o, r) = Framing("chunked", 0)
    BY <1>0, <1>1, <2>1 DEF OriginFraming
  <2> QED
    BY <2>1, <2>2 DEF Fits
<1>2. CASE C = <<>> /\ L = <<>>
  <2>1. r.framing = Framing("empty", 0)
    BY <1>2 DEF RequestFraming
  <2>2. OriginFraming(o, r) = Framing("length", 0)
    BY <1>0, <1>2 DEF OriginFraming
  <2> QED
    BY <2>1, <2>2 DEF Fits
<1>3. CASE C = <<>> /\ L # <<>>
  <2>1. PICK t : t = Head(L)
    OBVIOUS
  <2>2. t \in DOMAIN Numerals /\ ToSet(L) = {t} /\ ~(Numerals[t] >= LengthLimit)
    BY <1>3, <2>1 DEF RequestFraming
  <2>3. Last(L) = t
    BY <1>3, <2>1, <2>2, AllTheSame
  <2>4. PICK x \in Nat : x = Numerals[t]
    BY <2>2, HttpAssumption
  <2>5. x < OriginWidth
    BY <2>2, <2>4, HttpAssumption
  <2>6. x % OriginWidth = x
    <3>1. OriginWidth \in Nat \ {0}
      BY HttpAssumption
    <3> QED
      BY <2>5, <3>1, SmallMod
  <2>7. OriginFraming(o, r) = Framing("length", x)
    <3> HIDE DEF Framing
    <3>1. OriginFraming(o, r) = Framing("length", Numerals[t] % OriginWidth)
      BY <1>0, <1>3, <2>1, <2>2, <2>3 DEF OriginFraming
    <3> QED
      BY <2>4, <2>6, <3>1
  <2>8. CASE x = 0
    <3>1. r.framing = Framing("empty", 0)
      BY <1>3, <2>1, <2>2, <2>4, <2>8 DEF RequestFraming
    <3> QED
      BY <2>7, <2>8, <3>1 DEF Fits
  <2>9. CASE x # 0
    <3>1. r.framing = Framing("length", x)
      BY <1>3, <2>1, <2>2, <2>4, <2>9 DEF RequestFraming
    <3> QED
      BY <2>4, <2>7, <2>9, <3>1 DEF Fits
  <2> QED
    BY <2>8, <2>9
<1> QED
  BY <1>1, <1>2, <1>3

\* A request that is forwarded, and the place-holder before there is one.
LEMMA RewrittenFits ==
    ASSUME NEW o \in Readers, NEW head \in Heads, Rewritten(head).framing.kind # "reject"
    PROVE  /\ Apt(o, Rewritten(head)) => Fits(o, Rewritten(head))
           /\ ~Has(Rewritten(head).headers, "proxy-authorization")
<1> DEFINE r == Rewritten(head)
           C == Named(head.headers, "transfer-encoding")
           L == Named(head.headers, "content-length")
<1>1. head.headers \in Seq(HeaderLines)
  BY HttpAssumption
<1>2. /\ r.headers = ForwardedHeaders(head.headers) /\ r.version = head.version
      /\ r.framing = RequestFraming(head.version, L, C)
  BY DEF Rewritten
<1>3. C \in Seq(STRING) /\ L \in Seq(STRING)
  BY <1>1, NamedIsSequence
<1>4. Named(r.headers, "transfer-encoding") = C /\ Named(r.headers, "content-length") = L
  BY <1>1, <1>2, FramingIsForwarded DEF IsFramingHeader
<1>5. r.framing.kind # "reject"
  OBVIOUS
<1>6. ~Has(r.headers, "proxy-authorization")
  BY <1>1, <1>2, CredentialsStay
<1> HIDE DEF r, C, L
<1>7. Apt(o, r) => Fits(o, r)
  BY <1>2, <1>3, <1>4, <1>5, FramingFits
<1> QED
  BY <1>6, <1>7 DEF r

\* Before a head was rewritten there is nothing to fit.
LEMMA NotForwardedFits ==
    ASSUME NEW o \in Readers
    PROVE  Fits(o, NotForwarded) /\ ~Has(NotForwarded.headers, "proxy-authorization")
<1>1. <<>> \in Seq(HeaderLines) /\ Len(<<>>) = 0
  OBVIOUS
<1>2. \A name : Named(<<>>, name) = <<>>
  <2> TAKE name
  <2>1. TokensUpTo(<<>>, name)[0] = <<>>
    BY <1>1, TokensStep
  <2> QED
    BY <1>1, <2>1 DEF Named
<1>3. OriginLines(o, <<>>) = <<>>
  <2>1. ~Split(<<>>)
    BY <1>1 DEF Split
  <2> QED
    BY <2>1 DEF OriginLines
<1>4. OriginFraming(o, NotForwarded) = Framing("length", 0)
  BY <1>2, <1>3 DEF OriginFraming, NotForwarded
<1>5. ~Has(NotForwarded.headers, "proxy-authorization")
  BY <1>1 DEF Has, NotForwarded
<1> QED
  BY <1>4, <1>5 DEF Fits, NotForwarded

-----------------------------------------------------------------------------
(* HTTP: what the client sends, in pieces *)

\* Two parts next to each other.
LEMMA PartsJoin ==
    ASSUME NEW q, NEW m \in Nat, NEW n \in Nat, NEW p \in Nat,
           NEW x \in Seq(BodySymbols), NEW y \in Seq(BodySymbols), Part(x, q, m, n), Part(y, q, n, p)
    PROVE  x \o y \in Seq(BodySymbols) /\ Part(x \o y, q, m, p)
<1> DEFINE z == x \o y
           a == Len(x)
           b == Len(y)
<1>1. z \in Seq(BodySymbols) /\ Joined(z, x, y)
  BY ConcatJoins
<1>2. a \in Nat /\ b \in Nat
  BY LenProperties
<1>3. /\ a = n - m /\ b = p - n /\ Len(z) = a + b
      /\ \A i \in 1..a : z[i] = x[i] /\ x[i] = q[m + i]
      /\ \A i \in 1..b : z[a + i] = y[i] /\ y[i] = q[n + i]
  BY <1>1 DEF Part, Joined
<1> HIDE DEF z, a, b
<1>4. ASSUME NEW i \in 1..p - m PROVE z[i] = q[m + i]
  <2>1. CASE i <= a
    <3>1. i \in 1..a
      BY <1>2, <2>1
    <3> QED
      BY <1>3, <3>1
  <2>2. CASE i > a
    <3>1. PICK k \in 1..b : a + k = i /\ n + k = m + i
      <4>1. i - a \in 1..b /\ a + (i - a) = i /\ n + (i - a) = m + i
        BY <1>2, <1>3, <2>2
      <4> QED
        BY <4>1
    <3> QED
      BY <1>3, <3>1
  <2> QED
    BY <1>2, <2>1, <2>2
<1>5. Len(z) = p - m
  BY <1>2, <1>3
<1>6. Part(z, q, m, p)
  BY <1>4, <1>5 DEF Part
<1> QED
  BY <1>1, <1>6 DEF z

\* A part cut in two.
Cut(x, q, m, n, k) ==
    /\ SubSeq(x, 1, k) \in Seq(BodySymbols) /\ Part(SubSeq(x, 1, k), q, m, m + k)
    /\ SubSeq(x, k + 1, Len(x)) \in Seq(BodySymbols) /\ Part(SubSeq(x, k + 1, Len(x)), q, m + k, n)

\* Taking the first k symbols of a part cuts it there.
LEMMA PartCut ==
    ASSUME NEW q, NEW m \in Nat, NEW n \in Nat, NEW x \in Seq(BodySymbols), Part(x, q, m, n),
           NEW k \in 0..Len(x)
    PROVE  Cut(x, q, m, n, k)
<1> DEFINE N == Len(x)
           u == SubSeq(x, 1, k)
           v == SubSeq(x, k + 1, N)
<1>1. N \in Nat /\ N = n - m /\ k \in Nat /\ k <= N
  BY LenProperties DEF Part
<1>2. \A i \in 1..n - m : x[i] = q[m + i]
  BY DEF Part
<1>3. u \in Seq(BodySymbols) /\ Part(u, x, 0, k)
  <2>1. 0 + 1 = 1 /\ 0 \in Nat /\ 0 <= k
    BY <1>1
  <2> QED
    BY <1>1, <2>1, SubSeqParts
<1>4. v \in Seq(BodySymbols) /\ Part(v, x, k, N)
  BY <1>1, SubSeqParts
<1> HIDE DEF u, v
<1>5. Part(u, q, m, m + k)
  <2>1. Len(u) = k /\ \A i \in 1..k : u[i] = x[i]
    BY <1>1, <1>3 DEF Part
  <2> QED
    BY <1>1, <1>2, <2>1, SMTT(30) DEF Part
<1>6. Part(v, q, m + k, n)
  <2>1. Len(v) = N - k /\ \A i \in 1..N - k : v[i] = x[k + i]
    BY <1>1, <1>4 DEF Part
  <2> HIDE DEF N
  <2>2. ASSUME NEW i \in 1..n - (m + k) PROVE v[i] = q[(m + k) + i]
    <3>1. i \in 1..N - k /\ k + i \in 1..n - m /\ m + (k + i) = (m + k) + i
      BY <1>1
    <3> QED
      BY <1>2, <2>1, <3>1
  <2>3. Len(v) = n - (m + k)
    BY <1>1, <2>1
  <2> QED
    BY <2>2, <2>3 DEF Part
<1> QED
  BY <1>3, <1>4, <1>5, <1>6 DEF Cut, u, v

\* The empty part.
LEMMA PartEmpty ==
    ASSUME NEW q, NEW m \in Nat
    PROVE  Part(<<>>, q, m, m) /\ <<>> \in Seq(BodySymbols)
  BY DEF Part

\* Two sequences that are the same part are equal.
LEMMA PartsEqual ==
    ASSUME NEW q, NEW m \in Nat, NEW n \in Nat, NEW x \in Seq(BodySymbols), NEW y \in Seq(BodySymbols),
           Part(x, q, m, n), Part(y, q, m, n)
    PROVE  x = y
<1>1. Len(x) = Len(y) /\ \A i \in 1..Len(x) : x[i] = y[i]
  BY DEF Part
<1> QED
  BY <1>1, SeqEqual

\* A sequence is a part of itself.
LEMMA PartWhole ==
    ASSUME NEW q \in Seq(BodySymbols)
    PROVE  Part(q, q, 0, Len(q))
<1>1. Len(q) \in Nat
  BY LenProperties
<1> QED
  BY <1>1 DEF Part

\* A part at the beginning is a prefix.
LEMMA PartIsPrefix ==
    ASSUME NEW q \in Seq(BodySymbols), NEW x \in Seq(BodySymbols), NEW n \in Nat, n <= Len(q),
           Part(x, q, 0, n)
    PROVE  IsPrefix(x, q)
<1>1. Len(x) = n
  BY DEF Part
<1>2. SubSeq(x, 1, n) = x
  BY <1>1, SubSeqFull
<1>3. SubSeq(q, 1, n) \in Seq(BodySymbols) /\ Part(SubSeq(q, 1, n), q, 0, n)
  <2>1. 0 + 1 = 1 /\ 0 \in Nat /\ 0 <= n
    OBVIOUS
  <2> QED
    BY <2>1, SubSeqParts
<1>4. SubSeq(q, 1, n) = x
  BY <1>3, PartsEqual
<1> QED
  BY <1>1, <1>2, <1>4 DEF IsPrefix

\* The head, and then what the client sends.
Headed(w, s) ==
    /\ w \in Seq(BodySymbols) /\ Len(s) \in Nat /\ Len(w) = Len(s) + 1
    /\ w[1] = "head" /\ \A i \in 1..Len(s) : w[i + 1] = s[i]

\* What a client sends is headed by its head.
LEMMA WholeIsHeaded ==
    ASSUME NEW s \in Seq(STRING)
    PROVE  Headed(<<"head">> \o s, s) /\ Part(<<"head">>, <<"head">> \o s, 0, 1)
<1> DEFINE h == <<"head">>
           w == h \o s
           N == Len(s)
<1>0. s \in Seq(BodySymbols)
  BY SeqMonotonic DEF BodySymbols
<1>1. h \in Seq(BodySymbols) /\ Len(h) = 1 /\ h[1] = "head"
  <2>1. "head" \in BodySymbols
    BY DEF BodySymbols
  <2> QED
    BY <2>1, OneElement
<1>2. N \in Nat
  BY LenProperties
<1> HIDE DEF h
<1>3. w \in Seq(BodySymbols) /\ Joined(w, h, s)
  BY <1>0, <1>1, ConcatJoins
<1>4. Len(w) = 1 + N /\ w[1] = h[1] /\ \A i \in 1..N : w[1 + i] = s[i]
  BY <1>1, <1>3 DEF Joined
<1> HIDE DEF w, N
<1>5. \A i \in 1..N : i + 1 = 1 + i
  BY <1>2
<1>6. Headed(w, s)
  BY <1>1, <1>2, <1>3, <1>4, <1>5 DEF Headed, N
<1>7. Part(h, w, 0, 1)
  BY <1>1, <1>4 DEF Part
<1> QED
  BY <1>6, <1>7 DEF w, h

\* A part of what the client sends is one of the whole.
LEMMA PartShift ==
    ASSUME NEW w, NEW s, Headed(w, s), NEW m \in Nat, NEW n \in Nat, n <= Len(s), m <= n, NEW x,
           Part(x, s, m, n)
    PROVE  Part(x, w, m + 1, n + 1)
<1>1. Len(x) = n - m /\ \A i \in 1..n - m : x[i] = s[m + i]
  BY DEF Part
<1>2. PICK N \in Nat : N = Len(s) /\ n <= N
  BY DEF Headed
<1>3. ASSUME NEW i \in 1..(n + 1) - (m + 1) PROVE x[i] = w[(m + 1) + i]
  <2>1. i \in 1..n - m
    OBVIOUS
  <2>2. m + i \in 1..N /\ (m + i) + 1 = (m + 1) + i
    BY <1>2, <2>1
  <2> QED
    BY <1>1, <1>2, <2>1, <2>2 DEF Headed
<1>4. Len(x) = (n + 1) - (m + 1)
  BY <1>1
<1> QED
  BY <1>3, <1>4 DEF Part

\* Where the origin sees the end of the body.
LEMMA OriginEnds ==
    ASSUME NEW o \in Readers, NEW r, Fits(o, r), NEW s \in Seq(STRING)
    PROVE  /\ r.framing.kind = "chunked" => OriginEnd(o, r, s) = ChunkEnds(o, s)[1]
           /\ r.framing.kind = "empty" => OriginEnd(o, r, s) = 0
           /\ r.framing.kind = "length" =>
                OriginEnd(o, r, s) = IF r.framing.length <= Len(s) THEN r.framing.length ELSE Incomplete
           /\ OriginEnd(o, r, s) = Incomplete \/ OriginEnd(o, r, s) \in Nat
<1>0. Len(s) \in Nat /\ 1 \in 1..Len(s) + 1
  BY LenProperties
<1>1. CASE r.framing.kind = "chunked"
  <2>1. OriginFraming(o, r) = Framing("chunked", 0)
    BY <1>1 DEF Fits
  <2>2. OriginEnd(o, r, s) = ChunkEnds(o, s)[1]
    BY <2>1 DEF OriginEnd, Framing
  <2>3. ChunkEnds(o, s)[1] = Incomplete \/ ChunkEnds(o, s)[1] \in Nat
    BY <1>0, ChunkEndsAt
  <2> QED
    BY <1>1, <2>2, <2>3
<1>2. CASE r.framing.kind = "empty"
  <2>1. OriginFraming(o, r) = Framing("length", 0)
    BY <1>2 DEF Fits
  <2>2. OriginEnd(o, r, s) = 0
    BY <1>0, <2>1 DEF OriginEnd, Framing
  <2> QED
    BY <1>2, <2>2
<1>3. CASE r.framing.kind = "length"
  <2>1. OriginFraming(o, r) = r.framing /\ r.framing.length \in Nat
    BY <1>3 DEF Fits
  <2>2. OriginEnd(o, r, s) = IF r.framing.length <= Len(s) THEN r.framing.length ELSE Incomplete
    BY <1>3, <2>1 DEF OriginEnd
  <2> QED
    BY <1>3, <2>1, <2>2
<1> QED
  BY <1>1, <1>2, <1>3 DEF Fits

\* The head and what the client sends, and where in it the pieces are: what
\* is sent ends at a, what is pending at b, the line at e, the buffer at f and
\* the leftover at g.
Whole == <<"head">> \o stream
Pieces(a, b, e, f, g) ==
    /\ Part(sent, Whole, 0, a) /\ Part(pending, Whole, a, b) /\ Part(line, Whole, b, e)
    /\ Part(buffered, Whole, e, f) /\ Part(leftover, Whole, f, g)
    /\ Part(unread, Whole, g, Len(Whole))
    /\ 1 <= b

\* The types.
HttpTypes(o) ==
    /\ stream \in Seq(STRING)
    /\ \A q \in {leftover, unread, buffered, pending, line, sent} : q \in Seq(BodySymbols)
    /\ remaining \in Nat
    /\ Fits(o, forwarded) /\ ~Has(forwarded.headers, "proxy-authorization")

\* The pieces follow each other.
LEMMA PiecesInOrder ==
    ASSUME NEW o \in Readers, HttpTypes(o),
           NEW a \in Nat, NEW b \in Nat, NEW e \in Nat, NEW f \in Nat, NEW g \in Nat,
           Pieces(a, b, e, f, g)
    PROVE  /\ a <= b /\ b <= e /\ e <= f /\ f <= g /\ g <= Len(stream) + 1 /\ Len(stream) \in Nat
           /\ Len(sent) = a /\ Len(pending) = b - a /\ Len(line) = e - b
           /\ Len(buffered) = f - e /\ Len(leftover) = g - f /\ Len(unread) = (Len(stream) + 1) - g
           /\ Headed(Whole, stream) /\ Len(Whole) = Len(stream) + 1 /\ 1 <= b
<1>1. Headed(Whole, stream)
  BY WholeIsHeaded DEF HttpTypes, Whole
<1>2. /\ Len(sent) = a - 0 /\ Len(pending) = b - a /\ Len(line) = e - b
      /\ Len(buffered) = f - e /\ Len(leftover) = g - f /\ Len(unread) = Len(Whole) - g
  BY DEF Pieces, Part
<1>3. /\ Len(sent) \in Nat /\ Len(pending) \in Nat /\ Len(line) \in Nat /\ Len(buffered) \in Nat
      /\ Len(leftover) \in Nat /\ Len(unread) \in Nat
  BY LenProperties DEF HttpTypes
<1>4. Len(stream) \in Nat /\ Len(Whole) = Len(stream) + 1 /\ 1 <= b
  BY <1>1 DEF Headed, Pieces
<1> QED
  BY <1>1, <1>2, <1>3, <1>4

\* What read_body_line takes of the buffer: all up to the first LF.
LEMMA LineTakes ==
    ASSUME buffered \in Seq(BodySymbols), buffered # <<>>
    PROVE  /\ LineTake \in 1..Len(buffered)
           /\ \A i \in 1..LineTake - 1 : buffered[i] # "lf"
           /\ LineDone => buffered[LineTake] = "lf"
           /\ ~LineDone => LineTake = Len(buffered) /\ \A i \in 1..Len(buffered) : buffered[i] # "lf"
<1>1. PICK q \in Seq(BodySymbols), N \in Nat : q = buffered /\ N = Len(q) /\ N # 0
  BY LenProperties, EmptySeq
<1>2. CASE ~Contains(buffered, "lf")
  <2>1. LineTake = N /\ ~LineDone
    BY <1>1, <1>2 DEF LineTake, LineDone
  <2>2. \A i \in 1..N : buffered[i] # "lf"
    BY <1>1, <1>2 DEF Contains
  <2> QED
    BY <1>1, <2>1, <2>2
<1>3. CASE Contains(buffered, "lf")
  <2> DEFINE A == {i \in 1..N : q[i] = "lf"}
  <2>1. A \subseteq Nat /\ A # {}
    BY <1>1, <1>3 DEF Contains
  <2>2. LineTake = Min(A) /\ LineDone
    BY <1>1, <1>3 DEF LineTake, LineDone
  <2>3. PICK t \in A : t = Min(A) /\ \A m \in A : t <= m
    <3> HIDE DEF A
    <3> QED
      BY <2>1, MinExists
  <2>4. \A m \in 1..(t - 1) : q[m] # "lf"
    <3> SUFFICES ASSUME NEW m \in 1..(t - 1), q[m] = "lf" PROVE FALSE
      OBVIOUS
    <3>1. m \in A /\ ~(t <= m)
      BY <1>1, <2>3
    <3> QED
      BY <2>3, <3>1
  <2>5. t \in 1..N /\ q[t] = "lf" /\ LineTake = t
    BY <2>2, <2>3
  <2> QED
    BY <1>1, <2>2, <2>4, <2>5
<1> QED
  BY <1>2, <1>3

\* What a turn of read_body_line has of its line: t symbols of the buffer
\* behind what the line had, without an LF but as the last.
LineTaken(b, e, f, t) ==
    /\ t \in Nat /\ 1 <= t /\ e + t <= f
    /\ LineSoFar \in Seq(BodySymbols) /\ Part(LineSoFar, Whole, b, e + t)
    /\ Cut(buffered, Whole, e, f, t)
    /\ Stands(LineSoFar, stream, b)
    /\ LineDone => LineSoFar[Len(LineSoFar)] = "lf"
    /\ ~LineDone => e + t = f /\ \A i \in 1..Len(LineSoFar) : LineSoFar[i] # "lf"

\* read_body_line takes a line as LineTaken says.
LEMMA LineIsTaken ==
    ASSUME NEW o \in Readers, HttpTypes(o),
           NEW a \in Nat, NEW b \in Nat, NEW e \in Nat, NEW f \in Nat, NEW g \in Nat,
           Pieces(a, b, e, f, g), \A i \in 1..Len(line) : line[i] # "lf", buffered # <<>>
    PROVE  LineTaken(b, e, f, LineTake)
<1>1. PICK t \in Nat : t = LineTake /\ t \in 1..Len(buffered)
  <2>1. Len(buffered) \in Nat /\ LineTake \in 1..Len(buffered)
    BY LineTakes, LenProperties DEF HttpTypes
  <2> QED
    BY <2>1
<1>2. /\ \A i \in 1..t - 1 : buffered[i] # "lf"
      /\ LineDone => buffered[t] = "lf"
      /\ ~LineDone => t = Len(buffered) /\ \A i \in 1..Len(buffered) : buffered[i] # "lf"
  BY <1>1, LineTakes DEF HttpTypes
<1>3. PICK w : w = Whole
  OBVIOUS
<1>4. PICK N \in Nat : N = Len(stream) /\ b <= e /\ e <= f /\ f <= N + 1 /\ 1 <= b
                       /\ Len(line) = e - b /\ Len(buffered) = f - e
  BY PiecesInOrder
<1>5. \A i \in 1..N : w[i + 1] = stream[i]
  BY <1>3, <1>4, PiecesInOrder DEF Headed
<1>6. Part(line, w, b, e) /\ Part(buffered, w, e, f)
  BY <1>3 DEF Pieces
<1>7. 1 <= t /\ e + t <= f /\ t \in 0..Len(buffered)
  BY <1>1, <1>4
<1>8. Cut(buffered, w, e, f, t)
  BY <1>6, <1>7, PartCut DEF HttpTypes
<1>9. LineSoFar \in Seq(BodySymbols) /\ Part(LineSoFar, w, b, e + t)
  <2>1. PICK x \in Seq(BodySymbols) : x = SubSeq(buffered, 1, t) /\ Part(x, w, e, e + t)
    BY <1>8 DEF Cut
  <2>2. line \o x \in Seq(BodySymbols) /\ Part(line \o x, w, b, e + t)
    <3>1. line \in Seq(BodySymbols) /\ e + t \in Nat
      BY DEF HttpTypes
    <3> QED
      BY <1>6, <2>1, <3>1, PartsJoin
  <2> QED
    BY <1>1, <2>1, <2>2 DEF LineSoFar
<1>10. /\ \A i \in 1..e - b : line[i] = w[b + i] /\ line[i] # "lf"
       /\ \A i \in 1..f - e : buffered[i] = w[e + i]
  BY <1>4, <1>6 DEF Part
<1>11. ASSUME NEW i \in b + 1..(e + t) - 1 PROVE w[i] # "lf"
  <2>1. CASE i <= e
    <3>1. PICK k \in 1..e - b : b + k = i
      <4>1. i - b \in 1..e - b /\ b + (i - b) = i
        BY <1>4, <2>1
      <4> QED
        BY <4>1
    <3> QED
      BY <1>10, <3>1
  <2>2. CASE i > e
    <3>1. PICK k \in 1..f - e : e + k = i /\ k \in 1..t - 1
      <4>1. i - e \in 1..f - e /\ e + (i - e) = i /\ i - e \in 1..t - 1
        BY <1>4, <1>7, <2>2
      <4> QED
        BY <4>1
    <3> QED
      BY <1>2, <1>10, <3>1
  <2> QED
    BY <1>4, <2>1, <2>2
<1>12. t \in 1..f - e /\ w[e + t] = buffered[t]
  BY <1>1, <1>4, <1>10
<1>14. Len(LineSoFar) = (e + t) - b /\ \A i \in 1..(e + t) - b : LineSoFar[i] = w[b + i]
  BY <1>9 DEF Part
<1>15. ASSUME ~LineDone PROVE e + t = f /\ \A i \in 1..Len(LineSoFar) : LineSoFar[i] # "lf"
  <2>1. e + t = f
    BY <1>2, <1>4, <1>15
  <2>2. w[e + t] # "lf"
    BY <1>1, <1>2, <1>12, <1>15
  <2>3. ASSUME NEW i \in 1..(e + t) - b PROVE LineSoFar[i] # "lf"
    <3>1. b + i \in b + 1..(e + t) - 1 \/ b + i = e + t
      BY <1>4
    <3> QED
      BY <1>11, <1>14, <2>2, <3>1
  <2> QED
    BY <1>14, <2>1, <2>3
<1>16. Stands(LineSoFar, stream, b)
  <2>1. PICK n \in Nat : n = Len(LineSoFar) /\ n = (e + t) - b /\ n >= 1 /\ (b + n) - 1 <= N
    BY <1>4, <1>7, <1>9, <1>14, LenProperties
  <2>2. ASSUME NEW i \in 1..n PROVE LineSoFar[i] = stream[(b + i) - 1]
    <3>1. (b + i) - 1 \in 1..N /\ ((b + i) - 1) + 1 = b + i
      BY <1>4, <2>1
    <3>2. LineSoFar[i] = w[b + i]
      BY <1>14, <2>1
    <3> QED
      BY <1>5, <3>1, <3>2
  <2>3. ASSUME NEW i \in 1..n - 1 PROVE LineSoFar[i] # "lf"
    <3>1. i \in 1..(e + t) - b /\ b + i \in b + 1..(e + t) - 1
      BY <1>4, <2>1
    <3> QED
      BY <1>11, <1>14, <3>1
  <2> QED
    BY <1>4, <1>9, <2>1, <2>2, <2>3 DEF Stands
<1>17. ASSUME LineDone PROVE LineSoFar[Len(LineSoFar)] = "lf"
  <2>1. Len(LineSoFar) \in 1..(e + t) - b /\ b + Len(LineSoFar) = e + t
    BY <1>4, <1>7, <1>14
  <2> QED
    BY <1>2, <1>12, <1>14, <1>17, <2>1
<1> QED
  BY <1>1, <1>3, <1>7, <1>8, <1>9, <1>15, <1>16, <1>17 DEF LineTaken

\* A line that the proxy accepts, as every reader reads it.
LEMMA LineIsRead ==
    ASSUME NEW o \in Readers, HttpTypes(o),
           NEW a \in Nat, NEW b \in Nat, NEW e \in Nat, NEW f \in Nat, NEW g \in Nat,
           Pieces(a, b, e, f, g), NEW t, LineTaken(b, e, f, t), EndsInCrlf(LineSoFar)
    PROVE  /\ LineEnd(o, stream, b) = (e + t) - 1
           /\ IsEmptyLine(stream, b, (e + t) - 1) <=> LineSoFar = EmptyLine
           /\ ChunkSize(LineSoFar) # Invalid =>
                SizeAt(o, stream, b) = ChunkSize(LineSoFar) /\ ChunkSize(LineSoFar) \in Nat
           /\ b \in 1..Len(stream) + 1 /\ e + t \in 1..Len(stream) + 1
<1>1. PICK N \in Nat : N = Len(stream) /\ b <= e /\ e <= f /\ f <= N + 1 /\ 1 <= b
  BY PiecesInOrder, SMTT(30)
<1>2. b \in Nat \ {0} /\ stream \in Seq(STRING)
  BY <1>1 DEF HttpTypes
<1>3. (b + Len(LineSoFar)) - 1 = (e + t) - 1
  BY DEF LineTaken, Part
<1>4. Stands(LineSoFar, stream, b)
  BY DEF LineTaken
<1>5. /\ LineEnd(o, stream, b) = (e + t) - 1
      /\ IsEmptyLine(stream, b, (e + t) - 1) <=> LineSoFar = EmptyLine
  BY <1>2, <1>3, <1>4, LineReads
<1>6. ChunkSize(LineSoFar) # Invalid =>
        SizeAt(o, stream, b) = ChunkSize(LineSoFar) /\ ChunkSize(LineSoFar) \in Nat
  BY <1>2, <1>4, SizeReads
<1>7. b \in 1..N + 1 /\ e + t \in 1..N + 1
  BY <1>1 DEF LineTaken
<1> QED
  BY <1>1, <1>5, <1>6, <1>7

\* Where the chunks end that follow data with its end before i.
EndAfter(o, i) ==
    IF AfterData(o, stream, i) # 0 THEN ChunkEnds(o, stream)[AfterData(o, stream, i)] ELSE Incomplete

\* forward_body is at b of a body that the origin reads to the same end.
Place(o, b) ==
    /\ stage \in {"length", "size", "data", "terminator", "trailer", "end"}
    /\ \A i \in 1..Len(line) : line[i] # "lf"
    /\ stage \in {"length", "data", "end"} => line = <<>>
    /\ stage \in {"length", "data"} => remaining > 0
    /\ stage = "length" =>
          forwarded.framing.kind = "length" /\ forwarded.framing.length = (b - 1) + remaining
    /\ stage \in {"size", "data", "terminator", "trailer"} => forwarded.framing.kind = "chunked"
    /\ stage = "size" => ChunkEnds(o, stream)[1] = ChunkEnds(o, stream)[b]
    /\ stage = "data" => ChunkEnds(o, stream)[1] = EndAfter(o, b + remaining)
    /\ stage = "terminator" => ChunkEnds(o, stream)[1] = EndAfter(o, b)
    /\ stage = "trailer" => ChunkEnds(o, stream)[1] = TrailerEnds(o, stream)[b]
    /\ stage = "end" => OriginEnd(o, forwarded, stream) = b - 1

\* The chunks after some data end behind it.
LEMMA EndAfterAhead ==
    ASSUME NEW o \in Readers, HttpTypes(o), NEW i \in Nat \ {0}
    PROVE  EndAfter(o, i) = Incomplete \/ (EndAfter(o, i) \in Nat /\ EndAfter(o, i) >= i)
<1>1. Len(stream) \in Nat /\ stream \in Seq(STRING)
  BY LenProperties DEF HttpTypes
<1>2. CASE AfterData(o, stream, i) = 0
  BY <1>2 DEF EndAfter
<1>3. CASE AfterData(o, stream, i) # 0
  <2>1. PICK j \in Nat : /\ j = LineEnd(o, stream, i) /\ AfterData(o, stream, i) = j + 1
                         /\ j >= i /\ j <= Len(stream)
    BY <1>1, <1>3, AfterDataIs
  <2>2. j + 1 \in 1..Len(stream) + 1
    BY <1>1, <2>1
  <2>3. PICK v : v = ChunkEnds(o, stream)[j + 1] /\ (v = Incomplete \/ (v \in Nat /\ v >= j + 1))
    BY <1>1, <2>2, ChunkEndsAt
  <2>4. EndAfter(o, i) = v
    BY <1>3, <2>1, <2>3 DEF EndAfter
  <2> QED
    BY <2>1, <2>3, <2>4
<1> QED
  BY <1>2, <1>3

\* The end of the body is not before b.
LEMMA EndAhead ==
    ASSUME NEW o \in Readers, HttpTypes(o),
           NEW a \in Nat, NEW b \in Nat, NEW e \in Nat, NEW f \in Nat, NEW g \in Nat,
           Pieces(a, b, e, f, g), Place(o, b)
    PROVE  \/ OriginEnd(o, forwarded, stream) = Incomplete
           \/ OriginEnd(o, forwarded, stream) \in Nat /\ OriginEnd(o, forwarded, stream) >= b - 1
<1>1. PICK N \in Nat : N = Len(stream) /\ 1 <= b /\ b \in 1..N + 1
  BY PiecesInOrder
<1>2. PICK v : v = OriginEnd(o, forwarded, stream)
  OBVIOUS
<1>3. /\ forwarded.framing.kind = "chunked" => v = ChunkEnds(o, stream)[1]
      /\ forwarded.framing.kind = "length" =>
           v = IF forwarded.framing.length <= N THEN forwarded.framing.length ELSE Incomplete
  BY <1>1, <1>2, OriginEnds DEF HttpTypes
<1>4. CASE stage = "length"
  <2>1. v = Incomplete \/ v = (b - 1) + remaining
    BY <1>3, <1>4 DEF Place
  <2>2. remaining \in Nat
    BY DEF HttpTypes
  <2> QED
    BY <1>1, <1>2, <2>1, <2>2
<1>5. CASE stage = "size"
  <2>1. v = ChunkEnds(o, stream)[b]
    BY <1>3, <1>5 DEF Place
  <2>2. v = Incomplete \/ (v \in Nat /\ v >= b)
    BY <1>1, <2>1, ChunkEndsAt DEF HttpTypes
  <2> QED
    BY <1>1, <1>2, <2>2
<1>6. CASE stage = "data"
  <2>1. v = EndAfter(o, b + remaining)
    BY <1>3, <1>6 DEF Place
  <2>2. remaining \in Nat /\ b + remaining \in Nat \ {0}
    BY <1>1 DEF HttpTypes
  <2>3. v = Incomplete \/ (v \in Nat /\ v >= b + remaining)
    BY <2>1, <2>2, EndAfterAhead
  <2> QED
    BY <1>1, <1>2, <2>2, <2>3
<1>7. CASE stage = "terminator"
  <2>1. v = EndAfter(o, b)
    BY <1>3, <1>7 DEF Place
  <2>2. v = Incomplete \/ (v \in Nat /\ v >= b)
    BY <1>1, <2>1, EndAfterAhead
  <2> QED
    BY <1>1, <1>2, <2>2
<1>8. CASE stage = "trailer"
  <2>1. v = TrailerEnds(o, stream)[b]
    BY <1>3, <1>8 DEF Place
  <2>2. v = Incomplete \/ (v \in Nat /\ v >= b)
    BY <1>1, <2>1, TrailerEndsAt DEF HttpTypes
  <2> QED
    BY <1>1, <1>2, <2>2
<1>9. CASE stage = "end"
  <2>1. v = b - 1
    BY <1>2, <1>9 DEF Place
  <2> QED
    BY <1>1, <1>2, <2>1
<1> QED
  BY <1>4, <1>5, <1>6, <1>7, <1>8, <1>9 DEF Place

\* Where there is no line, the body has no end.
LEMMA NoLineIncomplete ==
    ASSUME NEW o \in Readers, HttpTypes(o), NEW b \in 1..Len(stream) + 1, Place(o, b),
           stage \in {"size", "terminator", "trailer"},
           LineEnd(o, stream, b) = Incomplete
    PROVE  OriginEnd(o, forwarded, stream) = Incomplete
<1>1. PICK v : v = OriginEnd(o, forwarded, stream)
  OBVIOUS
<1>2. v = ChunkEnds(o, stream)[1]
  BY <1>1, OriginEnds DEF HttpTypes, Place
<1>3. stream \in Seq(STRING)
  BY DEF HttpTypes
<1>4. CASE stage = "size"
  <2>1. v = ChunkEnds(o, stream)[b]
    BY <1>2, <1>4 DEF Place
  <2>2. SizeAt(o, stream, b) = Invalid
    BY DEF SizeAt
  <2>3. NextChunk(o, stream, b) = 0 /\ SizeAt(o, stream, b) # 0
    BY <2>2 DEF NextChunk, Invalid
  <2>4. ChunkEnds(o, stream)[b] = Incomplete
    BY <1>3, <2>3, ChunkEndsAt
  <2> QED
    BY <1>1, <2>1, <2>4
<1>5. CASE stage = "terminator"
  <2>1. v = EndAfter(o, b)
    BY <1>2, <1>5 DEF Place
  <2>2. AfterData(o, stream, b) = 0
    BY DEF AfterData
  <2> QED
    BY <1>1, <2>1, <2>2 DEF EndAfter
<1>6. CASE stage = "trailer"
  <2>1. v = TrailerEnds(o, stream)[b]
    BY <1>2, <1>6 DEF Place
  <2>2. ~TrailersGoOn(o, stream, b)
    BY DEF TrailersGoOn
  <2>3. TrailerEnds(o, stream)[b] = Incomplete
    BY <1>3, <2>2, TrailerEndsAt
  <2> QED
    BY <1>1, <2>1, <2>3
<1> QED
  BY <1>4, <1>5, <1>6

\* A body that the client ends early has no end for the origin.
LEMMA EofIncomplete ==
    ASSUME NEW o \in Readers, HttpTypes(o),
           NEW a \in Nat, NEW b \in Nat, NEW e \in Nat, NEW f \in Nat, NEW g \in Nat,
           Pieces(a, b, e, f, g), Place(o, b), stage # "end",
           buffered = <<>>, leftover = <<>>, unread = <<>>
    PROVE  OriginEnd(o, forwarded, stream) = Incomplete
<1>1. PICK N \in Nat : /\ N = Len(stream) /\ 1 <= b /\ b \in 1..N + 1 /\ b <= e /\ e = f /\ f = g
                       /\ g = N + 1 /\ Len(line) = e - b
  <2>1. Len(buffered) = 0 /\ Len(leftover) = 0 /\ Len(unread) = 0
    OBVIOUS
  <2> QED
    BY <2>1, PiecesInOrder
<1>2. PICK v : v = OriginEnd(o, forwarded, stream)
  OBVIOUS
<1>3. /\ forwarded.framing.kind = "chunked" => v = ChunkEnds(o, stream)[1]
      /\ forwarded.framing.kind = "length" =>
           v = IF forwarded.framing.length <= N THEN forwarded.framing.length ELSE Incomplete
  BY <1>1, <1>2, OriginEnds DEF HttpTypes
<1>4. ASSUME NEW m \in b..N PROVE stream[m] # "lf"
  <2>1. PICK k \in 1..Len(line) : b + k = m + 1 /\ m \in 1..N
    <3>1. (m + 1) - b \in 1..Len(line) /\ b + ((m + 1) - b) = m + 1 /\ m \in 1..N
      BY <1>1
    <3> QED
      BY <3>1
  <2>2. line[k] = Whole[b + k]
    BY <1>1, <2>1 DEF Pieces, Part
  <2>3. Whole[m + 1] = stream[m]
    BY <1>1, <2>1, PiecesInOrder DEF Headed
  <2>4. line[k] # "lf"
    BY <2>1 DEF Place
  <2> QED
    BY <2>1, <2>2, <2>3, <2>4
<1>5. LineEnd(o, stream, b) = Incomplete
  <2>1. NoLf(stream, b) /\ b \in Nat \ {0}
    BY <1>1, <1>4 DEF NoLf
  <2> QED
    BY <2>1, NoLineEnd DEF HttpTypes
<1>6. ASSUME stage \in {"length", "data"} PROVE b = N + 1 /\ remaining \in Nat /\ remaining > 0
  <2>1. Len(line) = 0
    BY <1>6 DEF Place
  <2> QED
    BY <1>1, <1>6, <2>1 DEF Place, HttpTypes
<1>7. CASE stage = "length"
  <2>1. b = N + 1 /\ remaining \in Nat /\ remaining > 0
    BY <1>6, <1>7
  <2>2. forwarded.framing.kind = "length" /\ forwarded.framing.length = (b - 1) + remaining
    BY <1>7 DEF Place
  <2>3. ~(forwarded.framing.length <= N)
    BY <2>1, <2>2
  <2> QED
    BY <1>2, <1>3, <2>2, <2>3
<1>8. CASE stage = "data"
  <2>1. b = N + 1 /\ remaining \in Nat /\ remaining > 0
    BY <1>6, <1>8
  <2>2. v = EndAfter(o, b + remaining)
    BY <1>3, <1>8 DEF Place
  <2>3. PICK d \in Nat \ {0} : d = b + remaining /\ d > N
    BY <2>1
  <2>4. NoLf(stream, d)
    BY <1>1, <2>3 DEF NoLf
  <2>5. LineEnd(o, stream, d) = Incomplete
    BY <2>4, NoLineEnd DEF HttpTypes
  <2>6. AfterData(o, stream, d) = 0
    BY <2>5 DEF AfterData
  <2> QED
    BY <1>2, <2>2, <2>3, <2>6 DEF EndAfter
<1>9. CASE stage \in {"size", "terminator", "trailer"}
  BY <1>1, <1>5, <1>9, NoLineIncomplete
<1> QED
  BY <1>7, <1>8, <1>9 DEF Place

\* A line that the proxy refuses has no place in the grammar of a body.
LEMMA MalformedIncomplete ==
    ASSUME NEW o \in Readers, HttpTypes(o), o.lines = "strict",
           NEW a \in Nat, NEW b \in Nat, NEW e \in Nat, NEW f \in Nat, NEW g \in Nat,
           Pieces(a, b, e, f, g), Place(o, b), buffered # <<>>,
           \/ /\ stage \in {"size", "terminator", "trailer"}
              /\ LineDone /\ ~EndsInCrlf(LineSoFar)
           \/ stage = "size" /\ EndsInCrlf(LineSoFar) /\ ChunkSize(LineSoFar) = Invalid
           \/ stage = "terminator" /\ LineSoFar # EmptyLine /\ (LineDone \/ Len(LineSoFar) > 2)
    PROVE  OriginEnd(o, forwarded, stream) = Incomplete
<1>1. PICK t : LineTaken(b, e, f, t)
  BY LineIsTaken DEF Place
<1>2. PICK v : v = OriginEnd(o, forwarded, stream)
  OBVIOUS
<1>3. forwarded.framing.kind = "chunked" => v = ChunkEnds(o, stream)[1]
  BY <1>2, OriginEnds DEF HttpTypes
<1>4. b \in Nat \ {0} /\ b \in 1..Len(stream) + 1 /\ stream \in Seq(STRING)
  <2>1. PICK N \in Nat : N = Len(stream) /\ 1 <= b /\ b <= N + 1
    BY PiecesInOrder, SMTT(30)
  <2> QED
    BY <2>1 DEF HttpTypes
<1>5. Stands(LineSoFar, stream, b) /\ (LineDone => LineSoFar[Len(LineSoFar)] = "lf")
  BY <1>1 DEF LineTaken
<1>6. CASE stage \in {"size", "terminator", "trailer"} /\ LineDone /\ ~EndsInCrlf(LineSoFar)
  <2>1. LineEnd(o, stream, b) = Incomplete
    BY <1>4, <1>5, <1>6, LineRefused
  <2> QED
    BY <1>4, <1>6, <2>1, NoLineIncomplete
<1>7. CASE stage = "size" /\ EndsInCrlf(LineSoFar) /\ ChunkSize(LineSoFar) = Invalid
  <2>1. v = ChunkEnds(o, stream)[b]
    BY <1>3, <1>7 DEF Place
  <2>2. SizeAt(o, stream, b) = Invalid
    BY <1>4, <1>5, <1>7, SizeReads
  <2>3. NextChunk(o, stream, b) = 0 /\ SizeAt(o, stream, b) # 0
    BY <2>2 DEF NextChunk, Invalid
  <2>4. ChunkEnds(o, stream)[b] = Incomplete
    BY <1>4, <2>3, ChunkEndsAt
  <2> QED
    BY <1>2, <2>1, <2>4
<1>8. CASE stage = "terminator" /\ LineSoFar # EmptyLine /\ (LineDone \/ Len(LineSoFar) > 2)
  <2>1. v = EndAfter(o, b)
    BY <1>3, <1>8 DEF Place
  <2>2. AfterData(o, stream, b) = 0
    BY <1>4, <1>5, <1>8, EndRefused
  <2> QED
    BY <1>2, <2>1, <2>2 DEF EndAfter
<1> QED
  BY <1>6, <1>7, <1>8

-----------------------------------------------------------------------------
(* HTTP: the proxy and the origin agree *)

\* Nothing is sent before the upstream is there, and the leftover is followed
\* by what is unread.
Starting ==
    /\ httpPc \in {"head", "connect", "dialing"} =>
          sent = <<>> /\ pending = <<>> /\ line = <<>> /\ buffered = <<>>
    /\ httpPc \in {"connect", "dialing"} =>
          \E g \in Nat : Part(leftover, Whole, 1, g) /\ Part(unread, Whole, g, Len(Whole))

Placed(o) == httpPc = "body" =>
    \E a \in Nat, b \in Nat, e \in Nat, f \in Nat, g \in Nat : Pieces(a, b, e, f, g) /\ Place(o, b)

\* What was sent when the request is over.
SentFits(o) ==
    /\ IsPrefix(sent, Whole)
    /\ OriginEnd(o, forwarded, stream) # Incomplete => Len(sent) <= OriginEnd(o, forwarded, stream) + 1
Settled(o) ==
    /\ httpPc \in {"refused", "aborted", "forwarded"} => SentFits(o)
    /\ httpPc = "forwarded" => Len(sent) = OriginEnd(o, forwarded, stream) + 1
    /\ httpPc = "refused" /\ o.lines = "strict" => OriginEnd(o, forwarded, stream) = Incomplete

\* What holds of a reader that sees the header lines the proxy sees, and the
\* invariant.
ReaderInv(o) == HttpTypes(o) /\ Starting /\ Placed(o) /\ Settled(o)
HttpInv ==
    /\ httpPc = "head" => forwarded = NotForwarded
    /\ \A o \in Readers : Apt(o, forwarded) => ReaderInv(o)


\* What is sent of a body that is being forwarded, and that nothing is held
\* back while the proxy waits for the client.
LEMMA BodyAgrees ==
    ASSUME NEW o \in Readers, HttpTypes(o), Placed(o), httpPc = "body"
    PROVE  /\ SentFits(o)
           /\ Forwarding /\ buffered = <<>> /\ pending = <<>> =>
                sent \o line \o leftover \o unread = Whole
<1>1. PICK a \in Nat, b \in Nat, e \in Nat, f \in Nat, g \in Nat : Pieces(a, b, e, f, g) /\ Place(o, b)
  BY DEF Placed
<1>2. PICK N \in Nat : /\ N = Len(Whole) /\ a <= b /\ b <= e /\ e <= f /\ f <= g /\ g <= N
                       /\ Len(sent) = a /\ Whole \in Seq(BodySymbols)
                       /\ Len(buffered) = f - e /\ Len(pending) = b - a
  BY <1>1, PiecesInOrder DEF Headed
<1>3. /\ sent \in Seq(BodySymbols) /\ line \in Seq(BodySymbols) /\ leftover \in Seq(BodySymbols)
      /\ unread \in Seq(BodySymbols)
  BY DEF HttpTypes
<1>4. SentFits(o)
  <2>1. Part(sent, Whole, 0, a) /\ a <= Len(Whole)
    BY <1>1, <1>2 DEF Pieces
  <2>2. IsPrefix(sent, Whole)
    BY <1>2, <1>3, <2>1, PartIsPrefix
  <2>3. PICK v : v = OriginEnd(o, forwarded, stream) /\ (v = Incomplete \/ (v \in Nat /\ v >= b - 1))
    BY <1>1, EndAhead
  <2>4. v # Incomplete => Len(sent) <= v + 1
    BY <1>2, <2>3
  <2> QED
    BY <2>2, <2>3, <2>4 DEF SentFits
<1>5. ASSUME buffered = <<>>, pending = <<>>
      PROVE  sent \o line \o leftover \o unread = Whole
  <2>1. e = f /\ a = b
    <3>1. Len(buffered) = 0 /\ Len(pending) = 0
      BY <1>5
    <3> QED
      BY <1>2, <3>1
  <2>2. /\ Part(sent, Whole, 0, a) /\ Part(line, Whole, a, e) /\ Part(leftover, Whole, e, g)
        /\ Part(unread, Whole, g, N)
    BY <1>1, <1>2, <2>1 DEF Pieces
  <2>3. PICK x \in Seq(BodySymbols) : x = sent \o line /\ Part(x, Whole, 0, e)
    BY <1>3, <2>2, PartsJoin
  <2>4. PICK y \in Seq(BodySymbols) : y = x \o leftover /\ Part(y, Whole, 0, g)
    BY <1>3, <2>2, <2>3, PartsJoin
  <2>5. PICK z \in Seq(BodySymbols) : z = y \o unread /\ Part(z, Whole, 0, N)
    BY <1>3, <2>2, <2>4, PartsJoin
  <2>6. Part(Whole, Whole, 0, N)
    BY <1>2, PartWhole
  <2>7. z = Whole
    BY <1>2, <2>5, <2>6, PartsEqual
  <2> QED
    BY <2>3, <2>4, <2>5, <2>7
<1> QED
  BY <1>4, <1>5

\* A request that ends as it is, with what was sent.
LEMMA EndsAsItIs ==
    ASSUME NEW o \in Readers, ReaderInv(o), httpPc \in {"head", "connect", "dialing", "body"},
           UNCHANGED <<httpAuth, httpStatus, forwarded, stream, bodyVars, sent>>,
           httpPc' \in {"closed", "refused", "aborted"},
           httpPc' = "refused" /\ o.lines = "strict" => OriginEnd(o, forwarded, stream) = Incomplete
    PROVE  ReaderInv(o)'
<1> USE DEF bodyVars
<1>1. HttpTypes(o)'
  BY DEF ReaderInv, HttpTypes
<1>2. SentFits(o)
  <2>1. CASE httpPc = "body"
    BY <2>1, BodyAgrees DEF ReaderInv
  <2>2. CASE httpPc # "body"
    <3>1. sent = <<>> /\ Len(sent) = 0
      BY <2>2 DEF ReaderInv, Starting
    <3>2. Headed(Whole, stream)
      BY WholeIsHeaded DEF ReaderInv, HttpTypes, Whole
    <3>3. IsPrefix(sent, Whole)
      <4>1. Whole \in Seq(BodySymbols) /\ 0 \in Nat /\ 0 <= Len(Whole)
        BY <3>2 DEF Headed
      <4>2. Part(sent, Whole, 0, 0) /\ sent \in Seq(BodySymbols)
        BY <3>1, <4>1, PartEmpty
      <4> QED
        BY <4>1, <4>2, PartIsPrefix
    <3>4. PICK v : v = OriginEnd(o, forwarded, stream) /\ (v = Incomplete \/ v \in Nat)
      BY OriginEnds DEF ReaderInv, HttpTypes
    <3>5. v # Incomplete => Len(sent) <= v + 1
      BY <3>1, <3>4
    <3> QED
      BY <3>3, <3>4, <3>5 DEF SentFits
  <2> QED
    BY <2>1, <2>2
<1>3. SentFits(o)'
  BY <1>2 DEF SentFits, Whole
<1>4. Settled(o)'
  BY <1>3 DEF Settled
<1>5. Starting' /\ Placed(o)'
  BY DEF Starting, Placed
<1> QED
  BY <1>1, <1>4, <1>5 DEF ReaderInv

\* The steps up to the upstream.
LEMMA HeadSteps ==
    ASSUME NEW o \in Readers, ReaderInv(o),
           \/ \E status \in {0, 400} : HeadUnread(status)
           \/ \E head \in Heads : HeadRefused(head) \/ Unauthenticated(head)
           \/ UpstreamFails
    PROVE  ReaderInv(o)'
<1>1. httpPc \in {"head", "connect", "dialing"} /\ \E status : HttpRefuse(status)
  BY DEF HeadUnread, HeadRefused, Unauthenticated, UpstreamFails
<1>2. /\ UNCHANGED <<httpAuth, forwarded, stream, bodyVars, sent>> /\ httpPc' = "closed"
  BY <1>1 DEF HttpRefuse
<1>3. HttpTypes(o)'
  BY <1>2 DEF ReaderInv, HttpTypes, bodyVars
<1>4. Starting' /\ Placed(o)' /\ Settled(o)'
  BY <1>2 DEF Starting, Placed, Settled
<1> QED
  BY <1>3, <1>4 DEF ReaderInv

\* The head, and with it a part of what follows.
LEMMA AcceptedStep ==
    ASSUME NEW o \in Readers, ReaderInv(o), NEW head \in Heads, NEW s \in Streams, NEW k \in 0..Len(s),
           HeadAccepted(head, s, k), Apt(o, forwarded')
    PROVE  ReaderInv(o)'
<1>1. s \in Seq(STRING) /\ Len(s) \in Nat /\ k \in Nat /\ k <= Len(s)
  <2>1. s \in Seq(STRING)
    BY HttpAssumption
  <2>2. Len(s) \in Nat
    BY <2>1, LenProperties
  <2> QED
    BY <2>1, <2>2
<1>2. /\ httpPc = "head" /\ httpPc' \in {"connect", "dialing"} /\ stream' = s
      /\ leftover' = SubSeq(s, 1, k) /\ unread' = SubSeq(s, k + 1, Len(s))
      /\ UNCHANGED <<buffered, pending, line, remaining, sent>>
      /\ forwarded' = NotForwarded \/ (forwarded' = Rewritten(head) /\ head.method # "connect")
      /\ WellFormed(head)
  BY DEF HeadAccepted
<1>3. Fits(o, forwarded') /\ ~Has(forwarded'.headers, "proxy-authorization")
  <2>1. CASE forwarded' = NotForwarded
    BY <2>1, NotForwardedFits
  <2>2. CASE forwarded' = Rewritten(head) /\ head.method # "connect"
    <3>1. Rewritten(head).framing.kind # "reject"
      BY <1>2, <2>2 DEF WellFormed
    <3> QED
      BY <2>2, <3>1, RewrittenFits
  <2> QED
    BY <1>2, <2>1, <2>2
<1>4. Headed(Whole', s)
  <2>1. Whole' = <<"head">> \o s
    BY <1>2 DEF Whole
  <2> QED
    BY <1>1, <2>1, WholeIsHeaded
<1>5. leftover' \in Seq(STRING) /\ Part(leftover', s, 0, k)
  <2>1. 0 + 1 = 1 /\ 0 \in Nat /\ 0 <= k
    BY <1>1
  <2> QED
    BY <1>1, <1>2, <2>1, SubSeqParts
<1>6. unread' \in Seq(STRING) /\ Part(unread', s, k, Len(s))
  BY <1>1, <1>2, SubSeqParts
<1>7. HttpTypes(o)'
  <2>1. leftover' \in Seq(BodySymbols) /\ unread' \in Seq(BodySymbols)
    BY <1>5, <1>6, SeqMonotonic DEF BodySymbols
  <2> QED
    BY <1>1, <1>2, <1>3, <2>1 DEF ReaderInv, HttpTypes
<1>8. Starting'
  <2>1. Part(leftover', Whole', 1, k + 1)
    <3>1. Part(leftover', Whole', 0 + 1, k + 1)
      BY <1>1, <1>4, <1>5, PartShift
    <3> QED
      BY <3>1
  <2>2. Part(unread', Whole', k + 1, Len(Whole'))
    <3>1. Part(unread', Whole', k + 1, Len(s) + 1)
      BY <1>1, <1>4, <1>6, PartShift
    <3> QED
      BY <1>4, <3>1 DEF Headed
  <2>3. sent' = <<>> /\ pending' = <<>> /\ line' = <<>> /\ buffered' = <<>>
    BY <1>2 DEF ReaderInv, Starting
  <2>4. k + 1 \in Nat
    BY <1>1
  <2> QED
    BY <2>1, <2>2, <2>3, <2>4 DEF Starting
<1>9. Placed(o)' /\ Settled(o)'
  BY <1>2 DEF Placed, Settled
<1> QED
  BY <1>7, <1>8, <1>9 DEF ReaderInv

\* A tunnel takes the leftover first.
LEMMA TunnelStep ==
    ASSUME NEW o \in Readers, ReaderInv(o), Tunnel
    PROVE  ReaderInv(o)'
<1>1. /\ httpPc' = "tunnel" /\ leftover' = <<>>
      /\ UNCHANGED <<forwarded, stream, unread, buffered, pending, line, remaining>>
  BY DEF Tunnel
<1>2. sent' \in Seq(BodySymbols)
  <2>1. <<>> \in Seq(BodySymbols) /\ <<"head">> \in Seq(BodySymbols) /\ leftover \in Seq(BodySymbols)
    <3>1. "head" \in BodySymbols
      BY DEF BodySymbols
    <3> QED
      BY <3>1, OneElement, EmptySeq DEF ReaderInv, HttpTypes
  <2>2. PICK x \in Seq(BodySymbols) : sent' = x \o leftover
    BY <2>1 DEF Tunnel
  <2> QED
    BY <2>1, <2>2, ConcatProperties
<1>3. HttpTypes(o)'
  <2>1. <<>> \in Seq(BodySymbols)
    BY EmptySeq
  <2> QED
    BY <1>1, <1>2, <2>1 DEF ReaderInv, HttpTypes
<1>4. Starting' /\ Placed(o)' /\ Settled(o)'
  BY <1>1 DEF Starting, Placed, Settled
<1> QED
  BY <1>3, <1>4 DEF ReaderInv

\* The head is in the output, and the body starts.
LEMMA RelayStep ==
    ASSUME NEW o \in Readers, ReaderInv(o), RelayOneRequest
    PROVE  ReaderInv(o)'
<1>1. /\ httpPc = "dialing" /\ httpPc' = "body" /\ pending' = <<"head">>
      /\ remaining' = forwarded.framing.length
      /\ UNCHANGED <<forwarded, stream, leftover, unread, buffered, line, sent>>
  BY DEF RelayOneRequest
<1>2. /\ forwarded.framing.kind = "empty" => stage' = "end"
      /\ forwarded.framing.kind = "length" => stage' = "length"
      /\ forwarded.framing.kind = "chunked" => stage' = "size"
  BY DEF RelayOneRequest
<1>3. sent' = <<>> /\ line' = <<>> /\ buffered' = <<>>
  BY <1>1 DEF ReaderInv, Starting
<1>4. PICK g \in Nat : Part(leftover, Whole, 1, g) /\ Part(unread, Whole, g, Len(Whole))
  BY <1>1 DEF ReaderInv, Starting
<1>5. Whole' = Whole
  BY <1>1 DEF Whole
<1>6. stream \in Seq(STRING) /\ Fits(o, forwarded)
  BY DEF ReaderInv, HttpTypes
<1>7. HttpTypes(o)'
  <2>1. "head" \in BodySymbols
    BY DEF BodySymbols
  <2>2. pending' \in Seq(BodySymbols)
    BY <1>1, <2>1, OneElement
  <2>3. remaining' \in Nat
    BY <1>1, <1>6 DEF Fits
  <2> QED
    BY <1>1, <2>2, <2>3 DEF ReaderInv, HttpTypes
<1>8. Pieces(0, 1, 1, 1, g)'
  <2>1. Part(pending', Whole', 0, 1)
    BY <1>1, <1>5, <1>6, WholeIsHeaded DEF Whole
  <2>2. Part(sent', Whole', 0, 0) /\ Part(line', Whole', 1, 1) /\ Part(buffered', Whole', 1, 1)
    BY <1>3, PartEmpty
  <2>3. Part(leftover', Whole', 1, g) /\ Part(unread', Whole', g, Len(Whole'))
    BY <1>1, <1>4, <1>5
  <2> QED
    BY <2>1, <2>2, <2>3 DEF Pieces
<1>9. Place(o, 1)'
  <2>1. line' = <<>> /\ \A i \in 1..Len(line') : line'[i] # "lf"
    BY <1>3
  <2>2. CASE forwarded.framing.kind = "empty"
    <3>1. OriginEnd(o, forwarded', stream') = 0
      BY <1>1, <1>6, <2>2, OriginEnds
    <3> QED
      BY <1>2, <2>1, <2>2, <3>1 DEF Place
  <2>3. CASE forwarded.framing.kind = "length"
    <3>1. /\ stage' = "length" /\ remaining' > 0 /\ remaining' \in Nat
          /\ forwarded'.framing.kind = "length" /\ forwarded'.framing.length = remaining'
      BY <1>1, <1>2, <1>6, <2>3 DEF Fits
    <3>2. forwarded'.framing.length = (1 - 1) + remaining'
      <4>1. PICK r \in Nat : r = remaining'
        BY <3>1
      <4>2. (1 - 1) + r = r
        OBVIOUS
      <4> QED
        BY <3>1, <4>1, <4>2
    <3> QED
      BY <2>1, <3>1, <3>2 DEF Place
  <2>4. CASE forwarded.framing.kind = "chunked"
    BY <1>1, <1>2, <2>1, <2>4 DEF Place
  <2> QED
    BY <1>6, <2>2, <2>3, <2>4 DEF Fits
<1>10. Placed(o)'
  <2>1. 0 \in Nat /\ 1 \in Nat
    OBVIOUS
  <2> QED
    BY <1>8, <1>9, <2>1 DEF Placed
<1>11. Starting' /\ Settled(o)'
  BY <1>1 DEF Starting, Settled
<1> QED
  BY <1>7, <1>10, <1>11 DEF ReaderInv

\* What a step of forward_body that goes on keeps.
LEMMA StillForwarding ==
    ASSUME NEW o \in Readers, ReaderInv(o), httpPc' = "body", HttpTypes(o)',
           NEW a \in Nat, NEW b \in Nat, NEW e \in Nat,
           NEW f \in Nat, NEW g \in Nat, Pieces(a, b, e, f, g)', Place(o, b)'
    PROVE  ReaderInv(o)'
<1>1. Placed(o)'
  BY DEF Placed
<1>2. Starting' /\ Settled(o)'
  BY DEF Starting, Settled
<1> QED
  BY <1>1, <1>2 DEF ReaderInv

\* fill_body: what is pending goes first, then the leftover is read, and then
\* what the client sends.
LEMMA SendPendingStep ==
    ASSUME NEW o \in Readers, ReaderInv(o), SendPending
    PROVE  ReaderInv(o)'
<1>1. /\ httpPc = "body" /\ httpPc' = "body" /\ sent' = sent \o pending /\ pending' = <<>>
      /\ UNCHANGED <<forwarded, stream, leftover, unread, buffered, line, stage, remaining>>
  BY DEF SendPending, Forwarding
<1>2. HttpTypes(o)
  BY DEF ReaderInv
<1>3. PICK a \in Nat, b \in Nat, e \in Nat, f \in Nat, g \in Nat : Pieces(a, b, e, f, g) /\ Place(o, b)
  BY <1>1 DEF ReaderInv, Placed
<1>4. Whole' = Whole
  BY <1>1 DEF Whole
<1>5. sent' \in Seq(BodySymbols) /\ Part(sent', Whole, 0, b)
  <2>1. sent \in Seq(BodySymbols) /\ pending \in Seq(BodySymbols)
    BY <1>2 DEF HttpTypes
  <2>2. Part(sent, Whole, 0, a) /\ Part(pending, Whole, a, b) /\ 0 \in Nat
    BY <1>3 DEF Pieces
  <2> QED
    BY <1>1, <2>1, <2>2, PartsJoin
<1>6. <<>> \in Seq(BodySymbols) /\ Part(<<>>, Whole, b, b)
  BY PartEmpty
<1>7. HttpTypes(o)'
  BY <1>1, <1>2, <1>5, <1>6 DEF HttpTypes
<1>8. Pieces(b, b, e, f, g)'
  BY <1>1, <1>3, <1>4, <1>5, <1>6 DEF Pieces
<1>9. Place(o, b)'
  BY <1>1, <1>3 DEF Place, EndAfter
<1> QED
  BY <1>1, <1>7, <1>8, <1>9, StillForwarding

\* The body reader takes what was read behind the head.
LEMMA FillLeftoverStep ==
    ASSUME NEW o \in Readers, ReaderInv(o), FillLeftover
    PROVE  ReaderInv(o)'
<1>1. /\ httpPc = "body" /\ httpPc' = "body" /\ buffered = <<>> /\ buffered' = leftover
      /\ leftover' = <<>>
      /\ UNCHANGED <<forwarded, stream, unread, sent, pending, line, stage, remaining>>
  BY DEF FillLeftover, Forwarding
<1>2. HttpTypes(o)
  BY DEF ReaderInv
<1>3. PICK a \in Nat, b \in Nat, e \in Nat, f \in Nat, g \in Nat : Pieces(a, b, e, f, g) /\ Place(o, b)
  BY <1>1 DEF ReaderInv, Placed
<1>4. Whole' = Whole
  BY <1>1 DEF Whole
<1>5. e = f
  <2>1. Len(buffered) = 0 /\ Len(buffered) = f - e
    BY <1>1, <1>2, <1>3, PiecesInOrder
  <2> QED
    BY <2>1
<1>6. <<>> \in Seq(BodySymbols) /\ Part(<<>>, Whole, g, g)
  BY PartEmpty
<1>7. HttpTypes(o)'
  BY <1>1, <1>2, <1>6 DEF HttpTypes
<1>8. Pieces(a, b, e, g, g)'
  BY <1>1, <1>3, <1>4, <1>5, <1>6 DEF Pieces
<1>9. Place(o, b)'
  BY <1>1, <1>3 DEF Place, EndAfter
<1> QED
  BY <1>1, <1>7, <1>8, <1>9, StillForwarding

\* The body reader reads from the client.
LEMMA FillBufStep ==
    ASSUME NEW o \in Readers, ReaderInv(o), NEW n \in 1..Len(unread), FillBuf(n)
    PROVE  ReaderInv(o)'
<1>1. /\ httpPc = "body" /\ httpPc' = "body" /\ buffered = <<>> /\ leftover = <<>>
      /\ buffered' = SubSeq(unread, 1, n) /\ unread' = SubSeq(unread, n + 1, Len(unread))
      /\ UNCHANGED <<forwarded, stream, leftover, sent, pending, line, stage, remaining>>
  BY DEF FillBuf, Forwarding
<1>2. HttpTypes(o)
  BY DEF ReaderInv
<1>3. PICK a \in Nat, b \in Nat, e \in Nat, f \in Nat, g \in Nat : Pieces(a, b, e, f, g) /\ Place(o, b)
  BY <1>1 DEF ReaderInv, Placed
<1>4. Whole' = Whole
  BY <1>1 DEF Whole
<1>5. e = g
  <2>1. /\ Len(buffered) = 0 /\ Len(buffered) = f - e
        /\ Len(leftover) = 0 /\ Len(leftover) = g - f
    BY <1>1, <1>2, <1>3, PiecesInOrder, SMTT(30)
  <2> QED
    BY <2>1
<1>6. PICK N \in Nat : N = Len(Whole)
  BY <1>2, <1>3, PiecesInOrder, SMTT(30)
<1>7. Cut(unread, Whole, g, N, n)
  <2>1. unread \in Seq(BodySymbols) /\ Part(unread, Whole, g, N)
    BY <1>2, <1>3, <1>6 DEF HttpTypes, Pieces
  <2>2. Len(unread) \in Nat
    BY <2>1, LenProperties
  <2>3. n \in 0..Len(unread)
    BY <2>2
  <2> QED
    BY <2>1, <2>3, PartCut
<1>8. PICK k \in Nat : k = g + n
  <2>1. n \in Nat
    OBVIOUS
  <2> QED
    BY <2>1
<1>9. /\ buffered' \in Seq(BodySymbols) /\ Part(buffered', Whole, g, k)
      /\ unread' \in Seq(BodySymbols) /\ Part(unread', Whole, k, N)
  BY <1>1, <1>7, <1>8 DEF Cut
<1>10. Part(leftover', Whole, k, k)
  BY <1>1, PartEmpty
<1>11. HttpTypes(o)'
  BY <1>1, <1>2, <1>9 DEF HttpTypes
<1>12. Pieces(a, b, e, k, k)'
  BY <1>1, <1>3, <1>4, <1>5, <1>6, <1>9, <1>10 DEF Pieces
<1>13. Place(o, b)'
  BY <1>1, <1>3 DEF Place, EndAfter
<1> QED
  BY <1>1, <1>11, <1>12, <1>13, StillForwarding

\* The client leaves inside the body, the upstream fails, or a line is wrong.
LEMMA FailSteps ==
    ASSUME NEW o \in Readers, ReaderInv(o), BodyEof \/ SinkFails \/ LineMalformed \/ LineTooLong
    PROVE  ReaderInv(o)'
<1>1. /\ httpPc \in {"connect", "dialing", "body"} /\ httpPc' \in {"refused", "aborted"}
      /\ UNCHANGED <<httpAuth, httpStatus, forwarded, stream, bodyVars, sent>>
  BY DEF BodyEof, SinkFails, LineMalformed, LineTooLong, BodyFails, InLine, Forwarding
<1>2. ASSUME httpPc' = "refused", o.lines = "strict" PROVE OriginEnd(o, forwarded, stream) = Incomplete
  <2>1. BodyEof \/ LineMalformed \/ (LineTooLong /\ stage = "terminator")
    BY <1>2 DEF SinkFails, BodyFails, LineTooLong
  <2>2. httpPc = "body" /\ HttpTypes(o)
    BY <2>1 DEF ReaderInv, BodyEof, LineMalformed, LineTooLong, InLine, Forwarding
  <2>3. PICK a \in Nat, b \in Nat, e \in Nat, f \in Nat, g \in Nat : Pieces(a, b, e, f, g) /\ Place(o, b)
    BY <2>2 DEF ReaderInv, Placed
  <2>4. CASE BodyEof
    BY <2>2, <2>3, <2>4, EofIncomplete DEF BodyEof, Forwarding
  <2>5. CASE LineMalformed
    <3>1. /\ buffered # <<>> /\ LineDone /\ stage \in {"size", "terminator", "trailer"}
          /\ \/ ~EndsInCrlf(LineSoFar)
             \/ stage = "size" /\ EndsInCrlf(LineSoFar) /\ ChunkSize(LineSoFar) = Invalid
             \/ stage = "terminator" /\ LineSoFar # EmptyLine
      BY <2>5 DEF LineMalformed, InLine
    <3> QED
      BY <1>2, <2>2, <2>3, <3>1, MalformedIncomplete
  <2>6. CASE LineTooLong /\ stage = "terminator"
    <3>1. buffered # <<>> /\ LineLimit = 2 /\ Len(LineSoFar) > LineLimit
      BY <2>6 DEF LineTooLong, InLine, LineLimit
    <3>2. LineSoFar # EmptyLine
      <4> SUFFICES ASSUME LineSoFar = EmptyLine PROVE FALSE
        OBVIOUS
      <4>1. Len(LineSoFar) = 2
        BY DEF EmptyLine
      <4> QED
        BY <3>1, <4>1
    <3> QED
      BY <1>2, <2>2, <2>3, <2>6, <3>1, <3>2, MalformedIncomplete
  <2> QED
    BY <2>1, <2>4, <2>5, <2>6
<1> QED
  BY <1>1, <1>2, EndsAsItIs

\* The end of the body: all of it is sent.
LEMMA EndStep ==
    ASSUME NEW o \in Readers, ReaderInv(o), ForwardBodyEnds
    PROVE  ReaderInv(o)'
<1>1. /\ httpPc = "body" /\ stage = "end" /\ sent' = sent \o pending /\ pending' = <<>>
      /\ httpPc' = "forwarded"
      /\ UNCHANGED <<forwarded, stream, leftover, unread, buffered, line, stage, remaining>>
  BY DEF ForwardBodyEnds
<1>2. HttpTypes(o)
  BY DEF ReaderInv
<1>3. PICK a \in Nat, b \in Nat, e \in Nat, f \in Nat, g \in Nat : Pieces(a, b, e, f, g) /\ Place(o, b)
  BY <1>1 DEF ReaderInv, Placed
<1>4. Whole' = Whole
  BY <1>1 DEF Whole
<1>5. sent' \in Seq(BodySymbols) /\ Part(sent', Whole, 0, b)
  <2>1. sent \in Seq(BodySymbols) /\ pending \in Seq(BodySymbols)
    BY <1>2 DEF HttpTypes
  <2>2. Part(sent, Whole, 0, a) /\ Part(pending, Whole, a, b) /\ 0 \in Nat
    BY <1>3 DEF Pieces
  <2> QED
    BY <1>1, <2>1, <2>2, PartsJoin
<1>6. OriginEnd(o, forwarded, stream) = b - 1 /\ Len(sent') = b
  BY <1>1, <1>3, <1>5 DEF Place, Part
<1>7. IsPrefix(sent', Whole)
  <2>1. Whole \in Seq(BodySymbols) /\ b <= Len(Whole)
    BY <1>2, <1>3, PiecesInOrder, SMTT(30) DEF Headed
  <2> QED
    BY <1>5, <2>1, PartIsPrefix
<1>8. HttpTypes(o)'
  <2>1. <<>> \in Seq(BodySymbols)
    BY EmptySeq
  <2> QED
    BY <1>1, <1>2, <1>5, <2>1 DEF HttpTypes
<1>9. Len(sent') = OriginEnd(o, forwarded', stream') + 1
  BY <1>1, <1>6
<1>10. Settled(o)'
  <2>1. Len(sent') <= OriginEnd(o, forwarded', stream') + 1
    BY <1>6, <1>9
  <2> QED
    BY <1>1, <1>4, <1>7, <1>9, <2>1 DEF Settled, SentFits
<1>11. Starting' /\ Placed(o)'
  BY <1>1 DEF Starting, Placed
<1> QED
  BY <1>8, <1>10, <1>11 DEF ReaderInv

\* copy_body_bytes takes no more than what remains of the body or the chunk.
LEMMA CopyStep ==
    ASSUME NEW o \in Readers, ReaderInv(o), CopyBodyBytes
    PROVE  ReaderInv(o)'
<1>1. PICK t : t = IF Len(buffered) < remaining THEN Len(buffered) ELSE remaining
  OBVIOUS
<1>2. /\ httpPc = "body" /\ httpPc' = "body" /\ stage \in {"length", "data"} /\ buffered # <<>>
      /\ Push(SubSeq(buffered, 1, t)) /\ buffered' = SubSeq(buffered, t + 1, Len(buffered))
      /\ remaining' = remaining - t
      /\ stage' = IF t < remaining THEN stage ELSE IF stage = "length" THEN "end" ELSE "terminator"
      /\ UNCHANGED <<forwarded, stream, leftover, unread, line>>
  BY <1>1 DEF CopyBodyBytes
<1>3. HttpTypes(o)
  BY DEF ReaderInv
<1>4. PICK a \in Nat, b \in Nat, e \in Nat, f \in Nat, g \in Nat : Pieces(a, b, e, f, g) /\ Place(o, b)
  BY <1>2 DEF ReaderInv, Placed
<1>5. Whole' = Whole
  BY <1>2 DEF Whole
<1>6. PICK r \in Nat : r = remaining /\ r > 0
  BY <1>2, <1>3, <1>4 DEF HttpTypes, Place
<1>7. t \in Nat /\ t \in 0..Len(buffered) /\ t <= r /\ (~(t < r) => t = r)
  <2>1. Len(buffered) \in Nat
    BY <1>3, LenProperties DEF HttpTypes
  <2> QED
    BY <1>1, <1>6, <2>1
<1>8. e = b /\ line = <<>>
  <2>1. line = <<>>
    BY <1>2, <1>4 DEF Place
  <2>2. Len(line) = 0 /\ Len(line) = e - b
    BY <1>3, <1>4, <2>1, PiecesInOrder
  <2> QED
    BY <2>1, <2>2
<1>9. Cut(buffered, Whole, b, f, t)
  <2>1. buffered \in Seq(BodySymbols) /\ Part(buffered, Whole, b, f)
    BY <1>3, <1>4, <1>8 DEF HttpTypes, Pieces
  <2> QED
    BY <1>7, <2>1, PartCut
<1>10. PICK k \in Nat : k = b + t
  BY <1>7
<1>11. PICK x \in Seq(BodySymbols) : x = SubSeq(buffered, 1, t) /\ Part(x, Whole, b, k)
  BY <1>9, <1>10 DEF Cut
<1>12. buffered' \in Seq(BodySymbols) /\ Part(buffered', Whole, k, f)
  BY <1>2, <1>9, <1>10 DEF Cut
<1>13. PICK y \in Seq(BodySymbols) : y = pending \o x /\ Part(y, Whole, a, k)
  <2>1. pending \in Seq(BodySymbols) /\ Part(pending, Whole, a, b)
    BY <1>3, <1>4 DEF HttpTypes, Pieces
  <2> QED
    BY <1>11, <2>1, PartsJoin
<1>14. PICK z \in Seq(BodySymbols) : z = sent \o y /\ Part(z, Whole, 0, k)
  <2>1. sent \in Seq(BodySymbols) /\ Part(sent, Whole, 0, a) /\ 0 \in Nat
    BY <1>3, <1>4 DEF HttpTypes, Pieces
  <2> QED
    BY <1>13, <2>1, PartsJoin
<1>15. (sent' = z /\ pending' = <<>>) \/ (pending' = y /\ sent' = sent)
  BY <1>2, <1>11, <1>13, <1>14 DEF Push
<1>16. <<>> \in Seq(BodySymbols) /\ Part(<<>>, Whole, k, k)
  BY PartEmpty
<1>17. HttpTypes(o)'
  <2>1. sent' \in Seq(BodySymbols) /\ pending' \in Seq(BodySymbols)
    BY <1>3, <1>15, <1>16 DEF HttpTypes
  <2>2. remaining' \in Nat
    BY <1>2, <1>6, <1>7
  <2> QED
    BY <1>2, <1>3, <1>12, <2>1, <2>2 DEF HttpTypes
<1>18. PICK c \in Nat : Part(sent', Whole, 0, c) /\ Part(pending', Whole, c, k)
  <2>1. CASE sent' = z /\ pending' = <<>>
    BY <1>14, <1>16, <2>1
  <2>2. CASE pending' = y /\ sent' = sent
    BY <1>4, <1>13, <2>2 DEF Pieces
  <2> QED
    BY <1>15, <2>1, <2>2
<1>19. Pieces(c, k, k, f, g)'
  <2>1. 1 <= k
    BY <1>4, <1>7, <1>10 DEF Pieces
  <2>2. Part(line', Whole', k, k)
    BY <1>2, <1>5, <1>8, <1>16
  <2>3. Part(leftover', Whole', f, g) /\ Part(unread', Whole', g, Len(Whole'))
    BY <1>2, <1>4, <1>5 DEF Pieces
  <2> QED
    BY <1>5, <1>12, <1>18, <2>1, <2>2, <2>3 DEF Pieces
<1>20. Place(o, k)'
  <2>1. line' = <<>> /\ \A i \in 1..Len(line') : line'[i] # "lf"
    BY <1>2, <1>8
  <2>2. PICK q \in Nat : q = remaining' /\ q = r - t /\ k + q = b + r /\ (k - 1) + q = (b - 1) + r
    BY <1>2, <1>6, <1>7, <1>10
  <2>3. CASE stage = "length"
    <3>1. forwarded'.framing.kind = "length" /\ forwarded'.framing.length = (b - 1) + r
      BY <1>2, <1>4, <1>6, <2>3 DEF Place
    <3>2. CASE t < r
      <4>1. stage' = "length" /\ remaining' > 0
        BY <1>2, <1>6, <1>7, <2>2, <2>3, <3>2
      <4> QED
        BY <2>1, <2>2, <3>1, <4>1 DEF Place
    <3>3. CASE ~(t < r)
      <4>1. stage' = "end" /\ t = r
        BY <1>2, <1>6, <1>7, <2>3, <3>3
      <4>2. forwarded'.framing.length = k - 1 /\ k - 1 <= Len(stream)
        <5>1. (b - 1) + r = k - 1
          BY <1>10, <4>1
        <5>2. k <= f /\ f <= Len(stream) + 1 /\ Len(stream) \in Nat
          <6>1. Len(buffered) = f - b /\ f <= Len(stream) + 1 /\ Len(stream) \in Nat
            BY <1>3, <1>4, <1>8, PiecesInOrder, SMTT(30)
          <6> QED
            BY <1>7, <1>10, <6>1
        <5> QED
          BY <3>1, <5>1, <5>2
      <4>3. OriginEnd(o, forwarded, stream) = k - 1
        <5>1. forwarded.framing.kind = "length" /\ forwarded.framing.length = k - 1
          BY <1>2, <3>1, <4>2
        <5> QED
          BY <1>3, <4>2, <5>1, OriginEnds DEF HttpTypes
      <4>4. OriginEnd(o, forwarded', stream') = k - 1
        BY <1>2, <4>3
      <4> QED
        BY <2>1, <4>1, <4>4 DEF Place
    <3> QED
      BY <3>2, <3>3
  <2>4. CASE stage = "data"
    <3>1. forwarded'.framing.kind = "chunked" /\ ChunkEnds(o, stream)[1] = EndAfter(o, b + r)
      BY <1>2, <1>4, <1>6, <2>4 DEF Place
    <3>2. CASE t < r
      <4>1. stage' = "data" /\ remaining' > 0
        BY <1>2, <1>6, <1>7, <2>2, <2>4, <3>2
      <4>2. (ChunkEnds(o, stream)[1] = EndAfter(o, k + remaining))'
        BY <1>2, <2>2, <3>1 DEF EndAfter
      <4> QED
        BY <2>1, <3>1, <4>1, <4>2 DEF Place
    <3>3. CASE ~(t < r)
      <4>1. stage' = "terminator" /\ k = b + r
        BY <1>2, <1>6, <1>7, <1>10, <2>4, <3>3
      <4>2. (ChunkEnds(o, stream)[1] = EndAfter(o, k))'
        BY <1>2, <3>1, <4>1 DEF EndAfter
      <4> QED
        BY <2>1, <3>1, <4>1, <4>2 DEF Place
    <3> QED
      BY <3>2, <3>3
  <2> QED
    BY <1>2, <2>3, <2>4
<1> QED
  BY <1>2, <1>17, <1>19, <1>20, StillForwarding

\* A line that goes on.
LEMMA PartOfLineStep ==
    ASSUME NEW o \in Readers, ReaderInv(o), ReadPartOfLine
    PROVE  ReaderInv(o)'
<1>1. /\ httpPc = "body" /\ httpPc' = "body" /\ stage \in {"size", "terminator", "trailer"}
      /\ buffered # <<>> /\ ~LineDone /\ line' = LineSoFar /\ buffered' = <<>>
      /\ UNCHANGED <<forwarded, stream, leftover, unread, sent, pending, stage, remaining>>
  BY DEF ReadPartOfLine, InLine
<1>2. HttpTypes(o)
  BY DEF ReaderInv
<1>3. PICK a \in Nat, b \in Nat, e \in Nat, f \in Nat, g \in Nat : Pieces(a, b, e, f, g) /\ Place(o, b)
  BY <1>1 DEF ReaderInv, Placed
<1>4. Whole' = Whole
  BY <1>1 DEF Whole
<1>5. PICK t : LineTaken(b, e, f, t)
  BY <1>1, <1>2, <1>3, LineIsTaken DEF Place
<1>6. /\ line' \in Seq(BodySymbols) /\ Part(line', Whole, b, f)
      /\ \A i \in 1..Len(line') : line'[i] # "lf"
  BY <1>1, <1>5 DEF LineTaken
<1>7. <<>> \in Seq(BodySymbols) /\ Part(<<>>, Whole, f, f)
  BY PartEmpty
<1>8. HttpTypes(o)'
  BY <1>1, <1>2, <1>6, <1>7 DEF HttpTypes
<1>9. Pieces(a, b, f, f, g)'
  BY <1>1, <1>3, <1>4, <1>6, <1>7 DEF Pieces
<1>10. Place(o, b)'
  BY <1>1, <1>3, <1>6 DEF Place, EndAfter
<1> QED
  BY <1>1, <1>8, <1>9, <1>10, StillForwarding

\* A line that is complete.
LEMMA LineStep ==
    ASSUME NEW o \in Readers, ReaderInv(o), ReadBodyLine
    PROVE  ReaderInv(o)'
<1>1. /\ httpPc = "body" /\ httpPc' = "body" /\ stage \in {"size", "terminator", "trailer"}
      /\ buffered # <<>> /\ LineDone /\ EndsInCrlf(LineSoFar)
      /\ line' = <<>> /\ pending' = pending \o LineSoFar
      /\ buffered' = SubSeq(buffered, LineTake + 1, Len(buffered))
      /\ UNCHANGED <<forwarded, stream, leftover, unread, sent>>
  BY DEF ReadBodyLine, InLine
<1>2. /\ stage = "size" =>
           /\ ChunkSize(LineSoFar) # Invalid /\ remaining' = ChunkSize(LineSoFar)
           /\ stage' = IF ChunkSize(LineSoFar) = 0 THEN "trailer" ELSE "data"
      /\ stage = "terminator" =>
           LineSoFar = EmptyLine /\ stage' = "size" /\ remaining' = remaining
      /\ stage = "trailer" =>
           /\ stage' = IF LineSoFar = EmptyLine THEN "end" ELSE "trailer"
           /\ remaining' = remaining
  BY DEF ReadBodyLine
<1>3. HttpTypes(o)
  BY DEF ReaderInv
<1>4. PICK a \in Nat, b \in Nat, e \in Nat, f \in Nat, g \in Nat : Pieces(a, b, e, f, g) /\ Place(o, b)
  BY <1>1 DEF ReaderInv, Placed
<1>5. Whole' = Whole
  BY <1>1 DEF Whole
<1>6. PICK t : t = LineTake /\ LineTaken(b, e, f, t)
  BY <1>1, <1>3, <1>4, LineIsTaken DEF Place
<1>7. PICK k \in Nat : k = e + t /\ k <= f /\ k > b /\ 1 <= b
  BY <1>3, <1>4, <1>6, PiecesInOrder, SMTT(30) DEF LineTaken
<1>8. /\ LineEnd(o, stream, b) = k - 1 /\ b \in 1..Len(stream) + 1 /\ k \in 1..Len(stream) + 1
      /\ IsEmptyLine(stream, b, k - 1) <=> LineSoFar = EmptyLine
      /\ ChunkSize(LineSoFar) # Invalid =>
           SizeAt(o, stream, b) = ChunkSize(LineSoFar) /\ ChunkSize(LineSoFar) \in Nat
  BY <1>1, <1>3, <1>4, <1>6, <1>7, LineIsRead, SMTT(30)
<1>9. LineSoFar \in Seq(BodySymbols) /\ Part(LineSoFar, Whole, b, k)
  BY <1>6, <1>7 DEF LineTaken
<1>10. pending' \in Seq(BodySymbols) /\ Part(pending', Whole, a, k)
  <2>1. pending \in Seq(BodySymbols) /\ Part(pending, Whole, a, b)
    BY <1>3, <1>4 DEF HttpTypes, Pieces
  <2> QED
    BY <1>1, <1>9, <2>1, PartsJoin
<1>11. buffered' \in Seq(BodySymbols) /\ Part(buffered', Whole, k, f)
  BY <1>1, <1>6, <1>7 DEF LineTaken, Cut
<1>12. <<>> \in Seq(BodySymbols) /\ Part(<<>>, Whole, k, k)
  BY PartEmpty
<1>13. stream \in Seq(STRING) /\ Fits(o, forwarded) /\ remaining \in Nat
  BY <1>3 DEF HttpTypes
<1>14. ASSUME stage = "size" PROVE SizeAt(o, stream, b) \in Nat
  BY <1>2, <1>8, <1>14
<1>15. HttpTypes(o)'
  <2>1. remaining' \in Nat
    BY <1>1, <1>2, <1>8, <1>13, <1>14
  <2> QED
    BY <1>1, <1>3, <1>10, <1>11, <1>12, <2>1 DEF HttpTypes
<1>16. Pieces(a, k, k, f, g)'
  <2>1. 1 <= k
    BY <1>7
  <2>2. /\ Part(sent', Whole', 0, a) /\ Part(leftover', Whole', f, g)
        /\ Part(unread', Whole', g, Len(Whole'))
    BY <1>1, <1>4, <1>5 DEF Pieces
  <2> QED
    BY <1>1, <1>5, <1>10, <1>11, <1>12, <2>1, <2>2 DEF Pieces
<1>17. line' = <<>> /\ (\A i \in 1..Len(line') : line'[i] # "lf") /\ forwarded'.framing.kind = "chunked"
  BY <1>1, <1>4 DEF Place
<1>18. CASE stage = "size"
  <2>1. ChunkEnds(o, stream)[1] = ChunkEnds(o, stream)[b]
    BY <1>4, <1>18 DEF Place
  <2>2. PICK z \in Nat : /\ z = SizeAt(o, stream, b) /\ remaining' = z
                         /\ stage' = IF z = 0 THEN "trailer" ELSE "data"
    BY <1>2, <1>8, <1>14, <1>18
  <2>3. ChunkEnds(o, stream)[b] =
          IF NextChunk(o, stream, b) # 0 THEN ChunkEnds(o, stream)[NextChunk(o, stream, b)]
          ELSE IF z = 0 THEN TrailerEnds(o, stream)[LineEnd(o, stream, b) + 1] ELSE Incomplete
    BY <1>8, <1>13, <2>2, ChunkEndsAt
  <2>4. CASE z = 0
    <3>1. NextChunk(o, stream, b) = 0 /\ LineEnd(o, stream, b) + 1 = k
      BY <1>8, <2>2, <2>4 DEF NextChunk
    <3>2. ChunkEnds(o, stream)[1] = TrailerEnds(o, stream)[k]
      BY <2>1, <2>3, <2>4, <3>1
    <3>3. Place(o, k)'
      BY <1>1, <1>17, <2>2, <2>4, <3>2 DEF Place
    <3> QED
      BY <1>1, <1>15, <1>16, <3>3, StillForwarding
  <2>5. CASE z # 0
    <3>1. NextChunk(o, stream, b) = AfterData(o, stream, k + z)
      <4>1. NextChunk(o, stream, b) = AfterData(o, stream, LineEnd(o, stream, b) + z + 1)
        BY <2>2, <2>5 DEF NextChunk, Invalid
      <4>2. (k - 1) + z + 1 = k + z
        BY <1>7
      <4> QED
        BY <1>8, <4>1, <4>2
    <3>2. ChunkEnds(o, stream)[1] = EndAfter(o, k + z)
      BY <2>1, <2>3, <2>5, <3>1 DEF EndAfter
    <3>3. (ChunkEnds(o, stream)[1] = EndAfter(o, k + remaining))'
      BY <1>1, <2>2, <3>2 DEF EndAfter
    <3>4. stage' = "data" /\ remaining' > 0
      BY <2>2, <2>5
    <3>5. Place(o, k)'
      BY <1>17, <3>3, <3>4 DEF Place
    <3> QED
      BY <1>1, <1>15, <1>16, <3>5, StillForwarding
  <2> QED
    BY <2>4, <2>5
<1>19. CASE stage = "terminator"
  <2>1. ChunkEnds(o, stream)[1] = EndAfter(o, b) /\ stage' = "size" /\ LineSoFar = EmptyLine
    BY <1>2, <1>4, <1>19 DEF Place
  <2>2. AfterData(o, stream, b) = k /\ k # 0
    <3>1. k - 1 # Incomplete /\ (k - 1) + 1 = k /\ k # 0
      BY <1>7 DEF Incomplete
    <3> QED
      BY <1>8, <2>1, <3>1 DEF AfterData
  <2>3. ChunkEnds(o, stream)[1] = ChunkEnds(o, stream)[k]
    BY <2>1, <2>2 DEF EndAfter
  <2>4. Place(o, k)'
    BY <1>1, <1>17, <2>1, <2>3 DEF Place
  <2> QED
    BY <1>1, <1>15, <1>16, <2>4, StillForwarding
<1>20. CASE stage = "trailer"
  <2>1. /\ ChunkEnds(o, stream)[1] = TrailerEnds(o, stream)[b]
        /\ stage' = IF LineSoFar = EmptyLine THEN "end" ELSE "trailer"
    BY <1>2, <1>4, <1>20 DEF Place
  <2>2. TrailersGoOn(o, stream, b) <=> LineSoFar # EmptyLine
    <3>1. k - 1 # Incomplete
      BY <1>7 DEF Incomplete
    <3> QED
      BY <1>8, <3>1 DEF TrailersGoOn
  <2>3. TrailerEnds(o, stream)[b] = IF LineSoFar # EmptyLine THEN TrailerEnds(o, stream)[k] ELSE k - 1
    <3>1. (k - 1) + 1 = k
      BY <1>7
    <3> QED
      BY <1>8, <1>13, <2>2, <3>1, TrailerEndsAt
  <2>4. OriginEnd(o, forwarded, stream) = ChunkEnds(o, stream)[1]
    BY <1>1, <1>13, <1>17, OriginEnds
  <2>5. CASE LineSoFar = EmptyLine
    <3>1. OriginEnd(o, forwarded', stream') = k - 1
      BY <1>1, <2>1, <2>3, <2>4, <2>5
    <3>2. Place(o, k)'
      BY <1>17, <2>1, <2>5, <3>1 DEF Place
    <3> QED
      BY <1>1, <1>15, <1>16, <3>2, StillForwarding
  <2>6. CASE LineSoFar # EmptyLine
    <3>1. ChunkEnds(o, stream)[1] = TrailerEnds(o, stream)[k]
      BY <2>1, <2>3, <2>6
    <3>2. Place(o, k)'
      BY <1>1, <1>17, <2>1, <2>6, <3>1 DEF Place
    <3> QED
      BY <1>1, <1>15, <1>16, <3>2, StillForwarding
  <2> QED
    BY <2>5, <2>6
<1> QED
  BY <1>1, <1>18, <1>19, <1>20

\* Every step keeps what holds of such a reader.
LEMMA ReaderStep ==
    ASSUME NEW o \in Readers, ReaderInv(o), [HttpNext]_httpVars, Apt(o, forwarded')
    PROVE  ReaderInv(o)'
<1>1. CASE \E status \in {0, 400} : HeadUnread(status)
  BY <1>1, HeadSteps
<1>2. CASE Handshake
  <2>1. PICK head \in Heads :
          \/ HeadRefused(head) \/ Unauthenticated(head)
          \/ \E s \in Streams : \E k \in 0..Len(s) : HeadAccepted(head, s, k)
    BY <1>2 DEF Handshake
  <2>2. CASE HeadRefused(head) \/ Unauthenticated(head)
    BY <2>2, HeadSteps
  <2>3. CASE \E s \in Streams : \E k \in 0..Len(s) : HeadAccepted(head, s, k)
    <3>1. PICK s \in Streams : \E k \in 0..Len(s) : HeadAccepted(head, s, k)
      BY <2>3
    <3>2. PICK k \in 0..Len(s) : HeadAccepted(head, s, k)
      BY <3>1
    <3> QED
      BY <3>2, AcceptedStep
  <2> QED
    BY <2>1, <2>2, <2>3
<1>3. CASE UpstreamFails
  BY <1>3, HeadSteps
<1>4. CASE Tunnel
  BY <1>4, TunnelStep
<1>5. CASE RelayOneRequest
  BY <1>5, RelayStep
<1>6. CASE SendPending
  BY <1>6, SendPendingStep
<1>7. CASE FillLeftover
  BY <1>7, FillLeftoverStep
<1>8. CASE \E n \in 1..Len(unread) : FillBuf(n)
  BY <1>8, FillBufStep
<1>9. CASE BodyEof \/ SinkFails \/ LineMalformed \/ LineTooLong
  BY <1>9, FailSteps
<1>10. CASE CopyBodyBytes
  BY <1>10, CopyStep
<1>11. CASE ReadPartOfLine
  BY <1>11, PartOfLineStep
<1>12. CASE ReadBodyLine
  BY <1>12, LineStep
<1>13. CASE ForwardBodyEnds
  BY <1>13, EndStep
<1>14. CASE UNCHANGED httpVars
  <2>1. UNCHANGED <<httpPc, forwarded, stream, leftover, unread, buffered, pending, line, stage,
                    remaining, sent>>
    BY <1>14 DEF httpVars, bodyVars
  <2>2. HttpTypes(o)'
    BY <2>1 DEF ReaderInv, HttpTypes
  <2>3. Starting'
    BY <2>1 DEF ReaderInv, Starting, Whole
  <2>4. Placed(o)'
    <3> SUFFICES ASSUME httpPc = "body" PROVE Placed(o)'
      BY <2>1 DEF Placed
    <3>1. PICK a \in Nat, b \in Nat, e \in Nat, f \in Nat, g \in Nat :
            Pieces(a, b, e, f, g) /\ Place(o, b)
      BY DEF ReaderInv, Placed
    <3>2. Pieces(a, b, e, f, g)'
      BY <2>1, <3>1 DEF Pieces, Whole
    <3>3. Place(o, b)'
      BY <2>1, <3>1 DEF Place, EndAfter
    <3> QED
      BY <3>2, <3>3 DEF Placed
  <2>5. Settled(o)'
    BY <2>1 DEF ReaderInv, Settled, SentFits, Whole
  <2> QED
    BY <2>2, <2>3, <2>4, <2>5 DEF ReaderInv
<1> QED
  BY <1>1, <1>2, <1>3, <1>4, <1>5, <1>6, <1>7, <1>8, <1>9, <1>10, <1>11, <1>12, <1>13, <1>14
     DEF HttpNext

\* The request is rewritten once, when its head was read.
LEMMA RewrittenOnce ==
    ASSUME [HttpNext]_httpVars
    PROVE  /\ httpPc # "head" => forwarded' = forwarded
           /\ httpPc' = "head" => httpPc = "head" /\ forwarded' = forwarded
<1> USE DEF HttpRefuse, BodyFails
<1>1. CASE Handshake
  BY <1>1 DEF Handshake, HeadRefused, Unauthenticated, HeadAccepted
<1>2. CASE (\E status \in {0, 400} : HeadUnread(status)) \/ UpstreamFails \/ Tunnel \/ RelayOneRequest
  BY <1>2 DEF HeadUnread, UpstreamFails, Tunnel, RelayOneRequest
<1>3. CASE SendPending \/ FillLeftover \/ (\E n \in 1..Len(unread) : FillBuf(n)) \/ CopyBodyBytes
  BY <1>3 DEF SendPending, FillLeftover, FillBuf, CopyBodyBytes
<1>4. CASE BodyEof \/ SinkFails \/ LineMalformed \/ LineTooLong
  BY <1>4 DEF BodyEof, SinkFails, LineMalformed, LineTooLong
<1>5. CASE ReadPartOfLine \/ ReadBodyLine \/ ForwardBodyEnds
  BY <1>5 DEF ReadPartOfLine, ReadBodyLine, ForwardBodyEnds
<1>6. CASE UNCHANGED httpVars
  BY <1>6 DEF httpVars
<1> QED
  BY <1>1, <1>2, <1>3, <1>4, <1>5, <1>6 DEF HttpNext

-----------------------------------------------------------------------------
(***************************************************************************)
(* HttpInv holds in every state.                                           *)
(***************************************************************************)
THEOREM BodyInPlace == HttpSpec => []HttpInv
<1>1. HttpInit => HttpInv
  <2> SUFFICES ASSUME HttpInit PROVE HttpInv
    OBVIOUS
  <2>1. <<>> \in Seq(BodySymbols) /\ <<>> \in Seq(STRING)
    BY EmptySeq
  <2>2. ASSUME NEW o \in Readers PROVE ReaderInv(o)
    <3>1. HttpTypes(o)
      BY <2>1, NotForwardedFits DEF HttpInit, HttpTypes
    <3>2. Starting /\ Placed(o) /\ Settled(o)
      BY DEF HttpInit, Starting, Placed, Settled
    <3> QED
      BY <3>1, <3>2 DEF ReaderInv
  <2> QED
    BY <2>2 DEF HttpInit, HttpInv
<1>2. HttpInv /\ [HttpNext]_httpVars => HttpInv'
  <2> SUFFICES ASSUME HttpInv, [HttpNext]_httpVars PROVE HttpInv'
    OBVIOUS
  <2>1. ASSUME NEW o \in Readers, Apt(o, forwarded') PROVE ReaderInv(o)'
    <3>1. Apt(o, forwarded)
      <4>1. CASE httpPc = "head"
        <5>1. forwarded = NotForwarded
          BY <4>1 DEF HttpInv
        <5>2. ~Split(NotForwarded.headers)
          BY DEF Split, NotForwarded
        <5> QED
          BY <5>1, <5>2 DEF Apt
      <4>2. CASE httpPc # "head"
        BY <2>1, <4>2, RewrittenOnce
      <4> QED
        BY <4>1, <4>2
    <3>2. ReaderInv(o)
      BY <3>1 DEF HttpInv
    <3> QED
      BY <2>1, <3>2, ReaderStep
  <2>2. httpPc' = "head" => forwarded' = NotForwarded
    BY RewrittenOnce DEF HttpInv
  <2> QED
    BY <2>1, <2>2 DEF HttpInv
<1> QED
  BY <1>1, <1>2, PTL DEF HttpSpec

(***************************************************************************)
(* The proxy and the origin agree on where the request body ends, for any  *)
(* heads, any bodies and any reads of them, and any limits: whichever      *)
(* header an origin follows, wherever it ends a line and whatever it makes *)
(* of a number, if it sees the header lines the proxy sees, what           *)
(* forward_body sends is the head and the body as it delimits it, all of   *)
(* it once it is done; a body is refused as malformed only if a strict     *)
(* reader finds no end of it; nothing read is held back while the proxy    *)
(* waits, and the credentials stay with the proxy.                         *)
(***************************************************************************)
THEOREM OriginAlwaysAgrees == HttpSpec => []OriginAgrees
<1>1. HttpInv => OriginAgrees
  <2> SUFFICES ASSUME HttpInv PROVE OriginAgrees
    OBVIOUS
  <2>1. ASSUME NEW o \in Readers, SeesSameLines(o) PROVE ReaderInv(o)
    BY <2>1 DEF HttpInv, SeesSameLines, Apt
  <2>2. ASSUME NEW o \in Readers, SeesSameLines(o) PROVE AgreesWith(o)
    <3>1. HttpTypes(o) /\ Placed(o) /\ Settled(o)
      BY <2>1, <2>2 DEF ReaderInv
    <3>2. ASSUME httpPc \in {"body", "refused", "aborted", "forwarded"} PROVE SentFits(o)
      BY <3>1, <3>2, BodyAgrees DEF Settled
    <3>3. /\ httpPc = "forwarded" => Len(sent) = OriginEnd(o, forwarded, stream) + 1
          /\ httpPc = "refused" /\ o.lines = "strict" => OriginEnd(o, forwarded, stream) = Incomplete
      BY <3>1 DEF Settled
    <3> QED
      BY <3>2, <3>3 DEF AgreesWith, SentFits, Whole
  <2>3. PICK o \in Readers : SeesSameLines(o)
    <3>1. PICK o : o = [lines |-> "crlf", old |-> FALSE, last |-> FALSE]
      OBVIOUS
    <3>2. o \in Readers /\ o.lines = "crlf"
      BY <3>1 DEF Readers
    <3> QED
      BY <3>2 DEF SeesSameLines
  <2>4. HttpTypes(o) /\ Placed(o)
    BY <2>1, <2>3 DEF ReaderInv
  <2>5. ~Has(forwarded.headers, "proxy-authorization")
    BY <2>4 DEF HttpTypes
  <2>6. Forwarding /\ buffered = <<>> /\ pending = <<>> =>
          sent \o line \o leftover \o unread = Whole
    BY <2>4, BodyAgrees DEF Forwarding
  <2> QED
    BY <2>2, <2>5, <2>6 DEF OriginAgrees, Whole
<1> QED
  BY <1>1, BodyInPlace, PTL
=============================================================================
