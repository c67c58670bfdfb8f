--------------------------- MODULE SnellPoolProofs ---------------------------
(***************************************************************************)
(* Proofs about SnellPool for any number of tasks, clients, connections    *)
(* and permits and any pool limits.                                        *)
(***************************************************************************)
EXTENDS SnellPool, TLAPS, SequenceTheorems, FiniteSetTheorems

\* A connection on its way into the pool, or out of it into a session, has
\* been used at least once and may be used once more.
UsesCounted ==
    \A t \in Tasks :
      /\ pc[t] \in {"reuse", "flight", "session", "release"} => uses[t] >= 1
      /\ pc[t] \in {"reuse", "release"} => uses[t] < MaxUses

\* What a request knows of the network is not older than the request, and
\* once it owns a connection to use it is that connection's network.
GenerationsFollow ==
    \A t \in Tasks :
      /\ started[t] <= netGen
      /\ pc[t] \in {"take", "reuse", "discard", "dialing", "flight",
                    "session"} => generation[t] >= started[t]
      /\ pc[t] \in {"reuse", "flight", "session"} =>
           connGen[held[t]] = generation[t]

\* NoConnectionShared, place by place.
HeldOnce ==
    \A t, u \in Tasks : held[t] = held[u] /\ held[t] # NoConn => t = u

PooledOnce ==
    \A c, d \in Clients : \A i \in 1..Len(idle[c]), j \in 1..Len(idle[d]) :
      idle[c][i].conn = idle[d][j].conn => c = d /\ i = j

HeldNotPooled ==
    \A t \in Tasks, c \in Clients : \A i \in 1..Len(idle[c]) :
      idle[c][i].conn # held[t]

RetiringApart ==
    /\ \A t \in Tasks : held[t] \notin retiring
    /\ \A c \in Clients : \A i \in 1..Len(idle[c]) :
         idle[c][i].conn \notin retiring

IndInv ==
    /\ TypeOK
    /\ UsesCounted
    /\ GenerationsFollow
    /\ PoolWithinLimits
    /\ ClosedPoolEmpty
    /\ HeldOnce
    /\ PooledOnce
    /\ HeldNotPooled
    /\ RetiringApart

-----------------------------------------------------------------------------
(* What the operations on the stacks do *)

\* take_idle on an empty pool.
TookNone(t) ==
    /\ pc' = [pc EXCEPT ![t] = "node"]
    /\ UNCHANGED <<held, uses, idle>>

\* take_idle took entry e, the last of the n entries of client c.
Popped(t, c, n, e) ==
    /\ c = route[t]
    /\ n = Len(idle[c])
    /\ e = idle[c][n]
    /\ \/ /\ pc' = [pc EXCEPT ![t] = "reuse"]
          /\ connGen[e.conn] = generation[t]
       \/ pc' = [pc EXCEPT ![t] = "discard"]
    /\ held' = [held EXCEPT ![t] = e.conn]
    /\ uses' = [uses EXCEPT ![t] = e.uses]
    /\ idle' \in [Clients -> Seq(IdleEntry)]
    /\ Len(idle'[c]) = n - 1
    /\ \A i \in 1..n - 1 : idle'[c][i] = idle[c][i]
    /\ \A d \in Clients : d # c => idle'[d] = idle[d]

\* release() found no room or the client closed.
NotPushed(t) ==
    /\ pc' = [pc EXCEPT ![t] = "retire"]
    /\ UNCHANGED <<route, udp, reusable, started, generation, held, uses,
                   idle>>

\* release() pushed entry e on the n entries of client c.
Pushed(t, c, n, e) ==
    /\ c = route[t]
    /\ n = Len(idle[c])
    /\ n < MaxIdle
    /\ phase[c] = "open"
    /\ Finished(t)
    /\ e.conn = held[t]
    /\ e.uses = uses[t]
    /\ idle' \in [Clients -> Seq(IdleEntry)]
    /\ Len(idle'[c]) = n + 1
    /\ idle'[c][n + 1] = e
    /\ \A i \in 1..n : idle'[c][i] = idle[c][i]
    /\ \A d \in Clients : d # c => idle'[d] = idle[d]

\* Task t let go of its connection and of nothing else.
LetGo(t) ==
    /\ held' = [held EXCEPT ![t] = NoConn]
    /\ UNCHANGED <<idle, phase, retiring>>

\* What pop() leaves of a stack.
LEMMA StackPop ==
    ASSUME NEW S, NEW s \in Seq(S), s # <<>>
    PROVE  /\ Len(s) \in Nat \ {0}
           /\ s[Len(s)] \in S
           /\ SubSeq(s, 1, Len(s) - 1) \in Seq(S)
           /\ Len(SubSeq(s, 1, Len(s) - 1)) = Len(s) - 1
           /\ \A i \in 1..Len(s) - 1 : SubSeq(s, 1, Len(s) - 1)[i] = s[i]
  <1>1. Len(s) \in Nat \ {0} /\ \A i \in 1..Len(s) : s[i] \in S
    BY EmptySeq, ElementOfSeq
  <1> DEFINE m == Len(s) - 1
  <1>2. m \in Nat /\ \A i \in 1..m : s[i] \in S
    BY <1>1
  <1> HIDE DEF m
  <1>3. /\ SubSeq(s, 1, m) \in Seq(S)
        /\ Len(SubSeq(s, 1, m)) = IF 1 <= m THEN m - 1 + 1 ELSE 0
        /\ \A i \in 1..m - 1 + 1 : SubSeq(s, 1, m)[i] = s[1 + i - 1]
    BY <1>2, SubSeqProperties
  <1>4. /\ SubSeq(s, 1, m) \in Seq(S)
        /\ Len(SubSeq(s, 1, m)) = m
        /\ \A i \in 1..m : SubSeq(s, 1, m)[i] = s[i]
    BY <1>2, <1>3
  <1> QED
    BY <1>1, <1>4 DEF m

\* What push() leaves of a stack.
LEMMA StackPush ==
    ASSUME NEW S, NEW s \in Seq(S), NEW e \in S
    PROVE  /\ Append(s, e) \in Seq(S)
           /\ Len(Append(s, e)) = Len(s) + 1
           /\ Append(s, e)[Len(s) + 1] = e
           /\ \A i \in 1..Len(s) : Append(s, e)[i] = s[i]
  OBVIOUS

\* take_idle either finds the pool empty or takes the last entry out of it.
LEMMA TakeIdleEffect ==
    ASSUME TaskTypes, PoolTypes, NEW t \in Tasks, TakeIdle(t)
    PROVE  \/ TookNone(t)
           \/ \E c \in Clients, n \in Nat \ {0}, e \in IdleEntry :
                Popped(t, c, n, e)
  <1> DEFINE c == route[t]
             s == idle[c]
  <1>1. c \in Clients /\ s \in Seq(IdleEntry)
    BY DEF TaskTypes, PoolTypes
  <1>2. CASE s = <<>>
    BY <1>2 DEF TakeIdle, Goto, TookNone
  <1>3. CASE s # <<>>
    <2>1. /\ Len(s) \in Nat \ {0} /\ s[Len(s)] \in IdleEntry
          /\ SubSeq(s, 1, Len(s) - 1) \in Seq(IdleEntry)
          /\ Len(SubSeq(s, 1, Len(s) - 1)) = Len(s) - 1
          /\ \A i \in 1..Len(s) - 1 : SubSeq(s, 1, Len(s) - 1)[i] = s[i]
      BY <1>1, <1>3, StackPop
    <2>2. /\ Goto(t, IF Usable(t, s[Len(s)]) THEN "reuse" ELSE "discard")
          /\ held' = [held EXCEPT ![t] = s[Len(s)].conn]
          /\ uses' = [uses EXCEPT ![t] = s[Len(s)].uses]
          /\ idle' = [idle EXCEPT ![c] = SubSeq(s, 1, Len(s) - 1)]
      BY <1>3 DEF TakeIdle
    <2>3. /\ idle' \in [Clients -> Seq(IdleEntry)]
          /\ idle'[c] = SubSeq(s, 1, Len(s) - 1)
          /\ \A d \in Clients : d # c => idle'[d] = idle[d]
      BY <1>1, <2>1, <2>2 DEF PoolTypes
    <2>4. \/ /\ pc' = [pc EXCEPT ![t] = "reuse"]
             /\ connGen[s[Len(s)].conn] = generation[t]
          \/ pc' = [pc EXCEPT ![t] = "discard"]
      BY <2>2 DEF Goto, Usable
    <2>5. Popped(t, c, Len(s), s[Len(s)])
      BY <2>1, <2>2, <2>3, <2>4 DEF Popped
    <2> QED
      BY <1>1, <2>1, <2>5
  <1> QED
    BY <1>2, <1>3

\* The pools keep their other entries, in place, when one is taken.
LEMMA PoppedStacks ==
    ASSUME NEW t \in Tasks, NEW c \in Clients, NEW n \in Nat \ {0},
           NEW e \in IdleEntry, Popped(t, c, n, e)
    PROVE  \A d \in Clients : \A i \in 1..Len(idle'[d]) :
             /\ i \in 1..Len(idle[d]) /\ idle'[d][i] = idle[d][i]
             /\ d = c => i # n
  <1> SUFFICES ASSUME NEW d \in Clients, NEW i \in 1..Len(idle'[d])
               PROVE  /\ i \in 1..Len(idle[d]) /\ idle'[d][i] = idle[d][i]
                      /\ d = c => i # n
    OBVIOUS
  <1>0. /\ n = Len(idle[c]) /\ Len(idle'[c]) = n - 1
        /\ \A j \in 1..n - 1 : idle'[c][j] = idle[c][j]
        /\ d # c => idle'[d] = idle[d]
    BY DEF Popped
  <1>1. CASE d = c
    <2>1. i \in 1..n - 1
      BY <1>0, <1>1
    <2>2. i \in 1..n /\ i # n
      BY <2>1
    <2> QED
      BY <1>0, <1>1, <2>1, <2>2
  <1>2. CASE d # c
    BY <1>0, <1>2
  <1> QED
    BY <1>1, <1>2

\* release() either pushes the connection and ends the request, or goes on
\* to retire it.
LEMMA ReleaseEffect ==
    ASSUME TaskTypes, PoolTypes, Ownership, UsesCounted,
           NEW t \in Tasks, Release(t)
    PROVE  \/ NotPushed(t)
           \/ \E c \in Clients, n \in Nat, e \in IdleEntry :
                Pushed(t, c, n, e)
  <1> DEFINE c == route[t]
             s == idle[c]
             e == [conn |-> held[t], uses |-> uses[t], expired |-> FALSE]
  <1>1. c \in Clients /\ s \in Seq(IdleEntry) /\ Len(s) \in Nat
    BY DEF TaskTypes, PoolTypes
  <1>2. CASE Closed(c) \/ ~(Len(s) < MaxIdle)
    BY <1>2 DEF Release, ReleaseIf, Goto, NotPushed
  <1>3. CASE ~Closed(c) /\ Len(s) < MaxIdle
    <2>1. Finished(t) /\ idle' = [idle EXCEPT ![c] = Append(s, e)]
      BY <1>3 DEF Release, ReleaseIf
    <2>2. e \in IdleEntry
      <3>1. pc[t] = "release"
        BY DEF Release, ReleaseIf
      <3>2. held[t] \in Conns
        BY <3>1 DEF Ownership, Owning, TaskTypes
      <3>3. uses[t] \in 1..MaxUses
        BY <3>1, PoolAssumption DEF UsesCounted, TaskTypes
      <3> QED
        BY <3>2, <3>3 DEF IdleEntry
    <2>3. /\ Append(s, e) \in Seq(IdleEntry)
          /\ Len(Append(s, e)) = Len(s) + 1
          /\ Append(s, e)[Len(s) + 1] = e
          /\ \A i \in 1..Len(s) : Append(s, e)[i] = s[i]
      BY <1>1, <2>2, StackPush
    <2>4. /\ idle' \in [Clients -> Seq(IdleEntry)]
          /\ idle'[c] = Append(s, e)
          /\ \A d \in Clients : d # c => idle'[d] = idle[d]
      BY <1>1, <2>1, <2>3 DEF PoolTypes
    <2>5. phase[c] = "open"
      BY <1>3 DEF Closed
    <2>6. e.conn = held[t] /\ e.uses = uses[t]
      OBVIOUS
    <2> HIDE DEF e
    <2>7. Pushed(t, c, Len(s), e)
      BY <1>3, <2>1, <2>3, <2>4, <2>5, <2>6 DEF Pushed
    <2> QED
      BY <1>1, <2>2, <2>7
  <1> QED
    BY <1>2, <1>3

\* Expiry changes nothing else of a pool.
LEMMA ExpireEffect ==
    ASSUME PoolTypes, NEW c \in Clients, NEW i \in 1..MaxIdle, Expire(c, i)
    PROVE  /\ idle' \in [Clients -> Seq(IdleEntry)]
           /\ \A d \in Clients :
                /\ Len(idle'[d]) = Len(idle[d])
                /\ \A j \in 1..Len(idle[d]) :
                     /\ idle'[d][j].conn = idle[d][j].conn
                     /\ idle'[d][j].uses = idle[d][j].uses
  <1> DEFINE s == idle[c]
             e == [s[i] EXCEPT !.expired = TRUE]
             r == [s EXCEPT ![i] = e]
  <1>1. s \in Seq(IdleEntry) /\ i \in 1..Len(s)
    BY DEF PoolTypes, Expire
  <1>2. s[i] \in IdleEntry
    BY <1>1, ElementOfSeq
  <1>3. e \in IdleEntry
    BY <1>2 DEF IdleEntry
  <1>4. e.conn = s[i].conn /\ e.uses = s[i].uses
    BY <1>2 DEF IdleEntry
  <1>5. idle' = [idle EXCEPT ![c] = r]
    BY DEF Expire
  <1> HIDE DEF e
  <1>6. /\ r \in Seq(IdleEntry) /\ Len(r) = Len(s)
        /\ \A j \in 1..Len(s) : r[j] = IF j = i THEN e ELSE s[j]
    BY <1>1, <1>3, ExceptSeq
  <1> HIDE DEF r
  <1>7. /\ idle' \in [Clients -> Seq(IdleEntry)] /\ idle'[c] = r
        /\ \A d \in Clients : d # c => idle'[d] = idle[d]
    BY <1>5, <1>6 DEF PoolTypes
  <1> QED
    BY <1>4, <1>6, <1>7

\* Every pooled entry is an entry.
LEMMA PooledEntry ==
    ASSUME PoolTypes, NEW c \in Clients, NEW i \in 1..Len(idle[c])
    PROVE  /\ idle[c][i] \in IdleEntry
           /\ idle[c][i].conn \in Conns
           /\ idle[c][i].uses \in 1..MaxUses
           /\ Len(idle[c]) \in Nat
  <1>1. idle[c] \in Seq(IdleEntry)
    BY DEF PoolTypes
  <1>2. idle[c][i] \in IdleEntry /\ Len(idle[c]) \in Nat
    BY <1>1, ElementOfSeq
  <1> QED
    BY <1>2 DEF IdleEntry

\* A connection that is not in use is in none of the places.
LEMMA NotInUse ==
    ASSUME NEW k \in Conns, k \notin InUse, NoConn \notin Conns
    PROVE  /\ k \notin retiring
           /\ \A t \in Tasks : held[t] # k
           /\ \A c \in Clients : \A i \in 1..Len(idle[c]) :
                idle[c][i].conn # k
  BY DEF InUse, HeldConns, IdleConns

-----------------------------------------------------------------------------
\* The locals of every task keep their types.
LEMMA StepTaskTypes == IndInv /\ [Next]_vars => TaskTypes'
  <1> SUFFICES ASSUME IndInv, [Next]_vars PROVE TaskTypes'
    OBVIOUS
  <1> USE DEF taskVars, permitVars, connVars
  <1>a. /\ MaxIdle \in Nat /\ MaxUses \in Nat /\ MaxUses >= 1
        /\ MaxGen \in Nat /\ NoConn \notin Conns
    BY PoolAssumption
  <1>0. TaskTypes /\ PoolTypes /\ Ownership /\ UsesCounted
    BY DEF IndInv, TypeOK
  <1>1. ASSUME NEW t \in Tasks, NEW c \in Clients, DialTcp(t, c)
        PROVE  TaskTypes'
    BY <1>a, <1>0, <1>1
    DEF TaskTypes, PoolTypes, PcStates, DialTcp, Goto
  <1>2. ASSUME NEW t \in Tasks, NEW c \in Clients, DialUdp(t, c)
        PROVE  TaskTypes'
    BY <1>a, <1>0, <1>2
    DEF TaskTypes, PoolTypes, PcStates, DialUdp, Goto
  <1>3. ASSUME NEW t \in Tasks, ReadGeneration(t) PROVE TaskTypes'
    BY <1>a, <1>0, <1>3
    DEF TaskTypes, PoolTypes, PcStates, ReadGeneration, Goto
  <1>4. ASSUME NEW t \in Tasks, TakeIdle(t) PROVE TaskTypes'
    <2>1. UNCHANGED <<route, started, generation>>
      BY <1>4 DEF TakeIdle
    <2>2. CASE TookNone(t)
      BY <1>a, <1>0, <2>1, <2>2
      DEF TaskTypes, PcStates, TookNone
    <2>3. CASE \E c \in Clients, n \in Nat \ {0}, e \in IdleEntry :
                 Popped(t, c, n, e)
      <3> PICK c \in Clients, n \in Nat \ {0}, e \in IdleEntry :
                 Popped(t, c, n, e)
        BY <2>3
      <3>1. /\ pc' \in [Tasks -> PcStates]
            /\ UNCHANGED <<route, started, generation>>
        BY <1>0, <2>1 DEF TaskTypes, PcStates, Popped
      <3>2. e.conn \in Conns /\ e.uses \in 0..MaxUses
        BY <1>a DEF IdleEntry
      <3>3. /\ held' \in [Tasks -> Conns \cup {NoConn}]
            /\ uses' \in [Tasks -> 0..MaxUses]
        BY <1>0, <3>2 DEF TaskTypes, Popped
      <3> QED
        BY <1>0, <3>1, <3>3 DEF TaskTypes
    <2> QED
      BY <1>0, <1>4, <2>2, <2>3, TakeIdleEffect
  <1>5. ASSUME NEW t \in Tasks, StartReuse(t) PROVE TaskTypes'
    <2>1. uses[t] + 1 \in 0..MaxUses
      BY <1>a, <1>0, <1>5 DEF StartReuse, UsesCounted, TaskTypes
    <2> QED
      BY <1>0, <1>5, <2>1 DEF StartReuse, TaskTypes, PcStates, Goto
  <1>6. ASSUME NEW t \in Tasks, StartReuseFails(t) PROVE TaskTypes'
    BY <1>a, <1>0, <1>6
    DEF TaskTypes, PoolTypes, PcStates, StartReuseFails, Goto
  <1>7. ASSUME NEW t \in Tasks, Discarded(t) PROVE TaskTypes'
    BY <1>a, <1>0, <1>7
    DEF TaskTypes, PoolTypes, PcStates, Discarded, Goto
  <1>8. ASSUME NEW t \in Tasks, AcquireNode(t) PROVE TaskTypes'
    BY <1>a, <1>0, <1>8
    DEF TaskTypes, PoolTypes, PcStates, AcquireNode, Goto
  <1>9. ASSUME NEW t \in Tasks, AcquireGlobal(t) PROVE TaskTypes'
    BY <1>a, <1>0, <1>9
    DEF TaskTypes, PoolTypes, PcStates, AcquireGlobal, Goto
  <1>10. ASSUME NEW t \in Tasks, PermitTimeout(t) PROVE TaskTypes'
    BY <1>a, <1>0, <1>10
    DEF TaskTypes, PoolTypes, PcStates, PermitTimeout, Finished, Goto
  <1>11. ASSUME NEW t \in Tasks, DialSnapshot(t) PROVE TaskTypes'
    BY <1>a, <1>0, <1>11
    DEF TaskTypes, PoolTypes, PcStates, DialSnapshot, Goto
  <1>12. ASSUME NEW t \in Tasks, NEW k \in Conns, Dialed(t, k)
        PROVE  TaskTypes'
    BY <1>a, <1>0, <1>12
    DEF TaskTypes, PoolTypes, PcStates, Dialed, Goto
  <1>13. ASSUME NEW t \in Tasks, DialFails(t) PROVE TaskTypes'
    BY <1>a, <1>0, <1>13
    DEF TaskTypes, PoolTypes, PcStates, DialFails, Finished, ReleasePermits,
        Goto
  <1>14. ASSUME NEW t \in Tasks, OpenDone(t) PROVE TaskTypes'
    BY <1>a, <1>0, <1>14
    DEF TaskTypes, PoolTypes, PcStates, OpenDone, ReleasePermits, Goto
  <1>15. ASSUME NEW t \in Tasks, FinishRetire(t) PROVE TaskTypes'
    BY <1>a, <1>0, <1>15
    DEF TaskTypes, PoolTypes, PcStates, FinishRetire, Goto
  <1>16. ASSUME NEW t \in Tasks, DropSession(t) PROVE TaskTypes'
    BY <1>a, <1>0, <1>16
    DEF TaskTypes, PoolTypes, PcStates, DropSession, Finished, Goto
  <1>17. ASSUME NEW t \in Tasks, FinishClean(t) PROVE TaskTypes'
    BY <1>a, <1>0, <1>17
    DEF TaskTypes, PoolTypes, PcStates, FinishClean, Goto
  <1>18. ASSUME NEW t \in Tasks, Release(t) PROVE TaskTypes'
    <2>2. CASE NotPushed(t)
      BY <1>a, <1>0, <2>2
      DEF TaskTypes, PcStates, NotPushed
    <2>3. CASE \E c \in Clients, n \in Nat, e \in IdleEntry :
                 Pushed(t, c, n, e)
      <3> PICK c \in Clients, n \in Nat, e \in IdleEntry : Pushed(t, c, n, e)
        BY <2>3
      <3> QED
        BY <1>a, <1>0
        DEF TaskTypes, PcStates, Finished, Goto, Pushed
    <2> QED
      BY <1>0, <1>18, <2>2, <2>3, ReleaseEffect
  <1>19. ASSUME NEW t \in Tasks, Retired(t) PROVE TaskTypes'
    BY <1>a, <1>0, <1>19
    DEF TaskTypes, PoolTypes, PcStates, Retired, Finished, Goto
  <1>20. ASSUME NEW t \in Tasks, FinishUdp(t) PROVE TaskTypes'
    BY <1>a, <1>0, <1>20
    DEF TaskTypes, PoolTypes, PcStates, FinishUdp, Goto
  <1>21. ASSUME NEW t \in Tasks, UdpClosed(t) PROVE TaskTypes'
    BY <1>a, <1>0, <1>21
    DEF TaskTypes, PoolTypes, PcStates, UdpClosed, Finished, Goto
  <1>22. ASSUME NEW c \in Clients, CloseSwap(c) PROVE TaskTypes'
    BY <1>a, <1>0, <1>22
    DEF TaskTypes, PoolTypes, PcStates, CloseSwap, Goto
  <1>23. ASSUME NEW c \in Clients, CloseDrain(c) PROVE TaskTypes'
    BY <1>a, <1>0, <1>23
    DEF TaskTypes, PoolTypes, PcStates, CloseDrain, Goto
  <1>24. ASSUME NEW c \in Clients, NEW i \in 1..MaxIdle, Expire(c, i)
        PROVE  TaskTypes'
    BY <1>a, <1>0, <1>24
    DEF TaskTypes, PoolTypes, PcStates, Expire, Goto
  <1>25. ASSUME NEW k \in Conns, SpawnedRetired(k) PROVE TaskTypes'
    BY <1>a, <1>0, <1>25
    DEF TaskTypes, PoolTypes, PcStates, SpawnedRetired, Goto
  <1>26. ASSUME NEW k \in Conns, ServerInput(k) PROVE TaskTypes'
    BY <1>a, <1>0, <1>26
    DEF TaskTypes, PoolTypes, PcStates, ServerInput, Goto
  <1>27. ASSUME NEW k \in Conns, ServerStalls(k) PROVE TaskTypes'
    BY <1>a, <1>0, <1>27
    DEF TaskTypes, PoolTypes, PcStates, ServerStalls, Goto
  <1>28. CASE NetworkChanges
    BY <1>a, <1>0, <1>28
    DEF TaskTypes, PoolTypes, PcStates, NetworkChanges, Goto
  <1>29. CASE UNCHANGED vars
    BY <1>a, <1>0, <1>29
    DEF TaskTypes, PoolTypes, PcStates, vars
  <1> QED
    BY <1>1, <1>2, <1>3, <1>4, <1>5, <1>6, <1>7, <1>8, <1>9, <1>10, <1>11,
       <1>12, <1>13, <1>14, <1>15, <1>16, <1>17, <1>18, <1>19, <1>20, <1>21,
       <1>22, <1>23, <1>24, <1>25, <1>26, <1>27, <1>28, <1>29
    DEF Next, TaskStep

\* So do the flags.
LEMMA StepFlagTypes == IndInv /\ [Next]_vars => FlagTypes'
  <1> SUFFICES ASSUME IndInv, [Next]_vars PROVE FlagTypes'
    OBVIOUS
  <1> USE DEF taskVars, permitVars, connVars
  <1>0. FlagTypes
    BY DEF IndInv, TypeOK
  <1>1. ASSUME NEW t \in Tasks, NEW c \in Clients, DialTcp(t, c)
        PROVE  FlagTypes'
    BY <1>0, <1>1
    DEF FlagTypes, DialTcp, Goto
  <1>2. ASSUME NEW t \in Tasks, NEW c \in Clients, DialUdp(t, c)
        PROVE  FlagTypes'
    BY <1>0, <1>2
    DEF FlagTypes, DialUdp, Goto
  <1>3. ASSUME NEW t \in Tasks, ReadGeneration(t) PROVE FlagTypes'
    BY <1>0, <1>3
    DEF FlagTypes, ReadGeneration, Goto
  <1>4. ASSUME NEW t \in Tasks, TakeIdle(t) PROVE FlagTypes'
    BY <1>0, <1>4
    DEF FlagTypes, TakeIdle, Usable, Goto
  <1>5. ASSUME NEW t \in Tasks, StartReuse(t) PROVE FlagTypes'
    BY <1>0, <1>5
    DEF FlagTypes, StartReuse, Goto
  <1>6. ASSUME NEW t \in Tasks, StartReuseFails(t) PROVE FlagTypes'
    BY <1>0, <1>6
    DEF FlagTypes, StartReuseFails, Goto
  <1>7. ASSUME NEW t \in Tasks, Discarded(t) PROVE FlagTypes'
    BY <1>0, <1>7
    DEF FlagTypes, Discarded, Goto
  <1>8. ASSUME NEW t \in Tasks, AcquireNode(t) PROVE FlagTypes'
    BY <1>0, <1>8
    DEF FlagTypes, AcquireNode, Goto
  <1>9. ASSUME NEW t \in Tasks, AcquireGlobal(t) PROVE FlagTypes'
    BY <1>0, <1>9
    DEF FlagTypes, AcquireGlobal, Goto
  <1>10. ASSUME NEW t \in Tasks, PermitTimeout(t) PROVE FlagTypes'
    BY <1>0, <1>10
    DEF FlagTypes, PermitTimeout, Finished, Goto
  <1>11. ASSUME NEW t \in Tasks, DialSnapshot(t) PROVE FlagTypes'
    BY <1>0, <1>11
    DEF FlagTypes, DialSnapshot, Goto
  <1>12. ASSUME NEW t \in Tasks, NEW k \in Conns, Dialed(t, k)
        PROVE  FlagTypes'
    BY <1>0, <1>12
    DEF FlagTypes, Dialed, Goto
  <1>13. ASSUME NEW t \in Tasks, DialFails(t) PROVE FlagTypes'
    BY <1>0, <1>13
    DEF FlagTypes, DialFails, Finished, ReleasePermits, Goto
  <1>14. ASSUME NEW t \in Tasks, OpenDone(t) PROVE FlagTypes'
    BY <1>0, <1>14
    DEF FlagTypes, OpenDone, ReleasePermits, Goto
  <1>15. ASSUME NEW t \in Tasks, FinishRetire(t) PROVE FlagTypes'
    BY <1>0, <1>15
    DEF FlagTypes, FinishRetire, Goto
  <1>16. ASSUME NEW t \in Tasks, DropSession(t) PROVE FlagTypes'
    BY <1>0, <1>16
    DEF FlagTypes, DropSession, Finished, Goto
  <1>17. ASSUME NEW t \in Tasks, FinishClean(t) PROVE FlagTypes'
    BY <1>0, <1>17
    DEF FlagTypes, FinishClean, Goto
  <1>18. ASSUME NEW t \in Tasks, Release(t) PROVE FlagTypes'
    BY <1>0, <1>18
    DEF FlagTypes, Release, ReleaseIf, Finished, Goto
  <1>19. ASSUME NEW t \in Tasks, Retired(t) PROVE FlagTypes'
    BY <1>0, <1>19
    DEF FlagTypes, Retired, Finished, Goto
  <1>20. ASSUME NEW t \in Tasks, FinishUdp(t) PROVE FlagTypes'
    BY <1>0, <1>20
    DEF FlagTypes, FinishUdp, Goto
  <1>21. ASSUME NEW t \in Tasks, UdpClosed(t) PROVE FlagTypes'
    BY <1>0, <1>21
    DEF FlagTypes, UdpClosed, Finished, Goto
  <1>22. ASSUME NEW c \in Clients, CloseSwap(c) PROVE FlagTypes'
    BY <1>0, <1>22
    DEF FlagTypes, CloseSwap, Goto
  <1>23. ASSUME NEW c \in Clients, CloseDrain(c) PROVE FlagTypes'
    BY <1>0, <1>23
    DEF FlagTypes, CloseDrain, Goto
  <1>24. ASSUME NEW c \in Clients, NEW i \in 1..MaxIdle, Expire(c, i)
        PROVE  FlagTypes'
    BY <1>0, <1>24
    DEF FlagTypes, Expire, Goto
  <1>25. ASSUME NEW k \in Conns, SpawnedRetired(k) PROVE FlagTypes'
    BY <1>0, <1>25
    DEF FlagTypes, SpawnedRetired, Goto
  <1>26. ASSUME NEW k \in Conns, ServerInput(k) PROVE FlagTypes'
    BY <1>0, <1>26
    DEF FlagTypes, ServerInput, Goto
  <1>27. ASSUME NEW k \in Conns, ServerStalls(k) PROVE FlagTypes'
    BY <1>0, <1>27
    DEF FlagTypes, ServerStalls, Goto
  <1>28. CASE NetworkChanges
    BY <1>0, <1>28
    DEF FlagTypes, NetworkChanges, Goto
  <1>29. CASE UNCHANGED vars
    BY <1>0, <1>29
    DEF FlagTypes, vars
  <1> QED
    BY <1>1, <1>2, <1>3, <1>4, <1>5, <1>6, <1>7, <1>8, <1>9, <1>10, <1>11,
       <1>12, <1>13, <1>14, <1>15, <1>16, <1>17, <1>18, <1>19, <1>20, <1>21,
       <1>22, <1>23, <1>24, <1>25, <1>26, <1>27, <1>28, <1>29
    DEF Next, TaskStep

\* So do pools, permits and connections.
LEMMA StepPoolTypes == IndInv /\ [Next]_vars => PoolTypes'
  <1> SUFFICES ASSUME IndInv, [Next]_vars PROVE PoolTypes'
    OBVIOUS
  <1> USE DEF taskVars, permitVars, connVars
  <1>a. /\ MaxIdle \in Nat /\ MaxUses \in Nat /\ MaxUses >= 1
        /\ MaxGen \in Nat /\ NoConn \notin Conns
    BY PoolAssumption
  <1>0. TaskTypes /\ PoolTypes /\ Ownership /\ UsesCounted
    BY DEF IndInv, TypeOK
  <1>1. ASSUME NEW t \in Tasks, NEW c \in Clients, DialTcp(t, c)
        PROVE  PoolTypes'
    BY <1>0, <1>1
    DEF PoolTypes, PeerStates, DialTcp, Goto
  <1>2. ASSUME NEW t \in Tasks, NEW c \in Clients, DialUdp(t, c)
        PROVE  PoolTypes'
    BY <1>0, <1>2
    DEF PoolTypes, PeerStates, DialUdp, Goto
  <1>3. ASSUME NEW t \in Tasks, ReadGeneration(t) PROVE PoolTypes'
    BY <1>0, <1>3
    DEF PoolTypes, PeerStates, ReadGeneration, Goto
  <1>4. ASSUME NEW t \in Tasks, TakeIdle(t) PROVE PoolTypes'
    <2>1. UNCHANGED <<phase, permitVars, connVars, netGen>>
      BY <1>4 DEF TakeIdle
    <2>2. CASE TookNone(t)
      BY <1>0, <2>1, <2>2
      DEF PoolTypes, TookNone
    <2>3. CASE \E c \in Clients, n \in Nat \ {0}, e \in IdleEntry :
                 Popped(t, c, n, e)
      <3> PICK c \in Clients, n \in Nat \ {0}, e \in IdleEntry :
                 Popped(t, c, n, e)
        BY <2>3
      <3> QED
        BY <1>0, <2>1
        DEF PoolTypes, Popped
    <2> QED
      BY <1>0, <1>4, <2>2, <2>3, TakeIdleEffect
  <1>5. ASSUME NEW t \in Tasks, StartReuse(t) PROVE PoolTypes'
    BY <1>0, <1>5
    DEF PoolTypes, PeerStates, StartReuse, Goto
  <1>6. ASSUME NEW t \in Tasks, StartReuseFails(t) PROVE PoolTypes'
    BY <1>0, <1>6
    DEF PoolTypes, PeerStates, StartReuseFails, Goto
  <1>7. ASSUME NEW t \in Tasks, Discarded(t) PROVE PoolTypes'
    BY <1>0, <1>7
    DEF PoolTypes, PeerStates, Discarded, Goto
  <1>8. ASSUME NEW t \in Tasks, AcquireNode(t) PROVE PoolTypes'
    <2>1. nodeFree[route[t]] - 1 \in Nat
      BY <1>0, <1>8 DEF AcquireNode, PoolTypes, TaskTypes
    <2> QED
      BY <1>0, <1>8, <2>1 DEF AcquireNode, PoolTypes
  <1>9. ASSUME NEW t \in Tasks, AcquireGlobal(t) PROVE PoolTypes'
    <2>1. globalFree' \in Nat
      BY <1>0, <1>9 DEF AcquireGlobal, PoolTypes
    <2> QED
      BY <1>0, <1>9, <2>1 DEF AcquireGlobal, PoolTypes
  <1>10. ASSUME NEW t \in Tasks, PermitTimeout(t) PROVE PoolTypes'
    <2>1. nodeFree' \in [Clients -> Nat]
      BY <1>0, <1>10 DEF PermitTimeout, PoolTypes, TaskTypes
    <2> QED
      BY <1>0, <1>10, <2>1 DEF PermitTimeout, PoolTypes
  <1>11. ASSUME NEW t \in Tasks, DialSnapshot(t) PROVE PoolTypes'
    BY <1>0, <1>11
    DEF PoolTypes, PeerStates, DialSnapshot, Goto
  <1>12. ASSUME NEW t \in Tasks, NEW k \in Conns, Dialed(t, k)
        PROVE  PoolTypes'
    <2>1. connGen' \in [Conns -> 0..MaxGen]
      BY <1>0, <1>12 DEF Dialed, PoolTypes, TaskTypes
    <2>2. peer' \in [Conns -> PeerStates]
      BY <1>0, <1>12 DEF Dialed, PoolTypes, PeerStates
    <2> QED
      BY <1>0, <1>12, <2>1, <2>2 DEF Dialed, PoolTypes
  <1>13. ASSUME NEW t \in Tasks, DialFails(t) PROVE PoolTypes'
    <2>1. nodeFree' \in [Clients -> Nat] /\ globalFree' \in Nat
      BY <1>0, <1>13 DEF DialFails, ReleasePermits, PoolTypes, TaskTypes
    <2> QED
      BY <1>0, <1>13, <2>1 DEF DialFails, PoolTypes
  <1>14. ASSUME NEW t \in Tasks, OpenDone(t) PROVE PoolTypes'
    <2>1. nodeFree' \in [Clients -> Nat] /\ globalFree' \in Nat
      BY <1>0, <1>14 DEF OpenDone, ReleasePermits, PoolTypes, TaskTypes
    <2> QED
      BY <1>0, <1>14, <2>1 DEF OpenDone, PoolTypes
  <1>15. ASSUME NEW t \in Tasks, FinishRetire(t) PROVE PoolTypes'
    BY <1>0, <1>15
    DEF PoolTypes, PeerStates, FinishRetire, Goto
  <1>16. ASSUME NEW t \in Tasks, DropSession(t) PROVE PoolTypes'
    BY <1>0, <1>16
    DEF PoolTypes, PeerStates, DropSession, Finished, Goto
  <1>17. ASSUME NEW t \in Tasks, FinishClean(t) PROVE PoolTypes'
    BY <1>0, <1>17
    DEF PoolTypes, PeerStates, FinishClean, Goto
  <1>18. ASSUME NEW t \in Tasks, Release(t) PROVE PoolTypes'
    <2>1. UNCHANGED <<phase, permitVars, connVars, netGen>>
      BY <1>18 DEF Release, ReleaseIf
    <2>2. CASE NotPushed(t)
      BY <1>0, <2>1, <2>2
      DEF PoolTypes, NotPushed
    <2>3. CASE \E c \in Clients, n \in Nat, e \in IdleEntry :
                 Pushed(t, c, n, e)
      <3> PICK c \in Clients, n \in Nat, e \in IdleEntry : Pushed(t, c, n, e)
        BY <2>3
      <3> QED
        BY <1>0, <2>1
        DEF PoolTypes, Pushed
    <2> QED
      BY <1>0, <1>18, <2>2, <2>3, ReleaseEffect
  <1>19. ASSUME NEW t \in Tasks, Retired(t) PROVE PoolTypes'
    BY <1>0, <1>19
    DEF PoolTypes, PeerStates, Retired, Finished, Goto
  <1>20. ASSUME NEW t \in Tasks, FinishUdp(t) PROVE PoolTypes'
    BY <1>0, <1>20
    DEF PoolTypes, PeerStates, FinishUdp, Goto
  <1>21. ASSUME NEW t \in Tasks, UdpClosed(t) PROVE PoolTypes'
    BY <1>0, <1>21
    DEF PoolTypes, PeerStates, UdpClosed, Finished, Goto
  <1>22. ASSUME NEW c \in Clients, CloseSwap(c) PROVE PoolTypes'
    BY <1>0, <1>22
    DEF PoolTypes, PeerStates, CloseSwap, Goto
  <1>23. ASSUME NEW c \in Clients, CloseDrain(c) PROVE PoolTypes'
    <2>1. \A i \in 1..Len(idle[c]) : idle[c][i].conn \in Conns
      BY <1>0, PooledEntry
    <2>2. retiring' \subseteq Conns
      BY <1>0, <1>23, <2>1 DEF CloseDrain, IdleConns, PoolTypes
    <2>3. idle' \in [Clients -> Seq(IdleEntry)]
      BY <1>0, <1>23 DEF CloseDrain, PoolTypes
    <2> QED
      BY <1>0, <1>23, <2>2, <2>3 DEF CloseDrain, PoolTypes
  <1>24. ASSUME NEW c \in Clients, NEW i \in 1..MaxIdle, Expire(c, i)
        PROVE  PoolTypes'
    BY <1>0, <1>24, ExpireEffect DEF Expire, PoolTypes
  <1>25. ASSUME NEW k \in Conns, SpawnedRetired(k) PROVE PoolTypes'
    BY <1>0, <1>25
    DEF PoolTypes, PeerStates, SpawnedRetired, Goto
  <1>26. ASSUME NEW k \in Conns, ServerInput(k) PROVE PoolTypes'
    BY <1>0, <1>26
    DEF PoolTypes, PeerStates, ServerInput, Goto
  <1>27. ASSUME NEW k \in Conns, ServerStalls(k) PROVE PoolTypes'
    BY <1>0, <1>27
    DEF PoolTypes, PeerStates, ServerStalls, Goto
  <1>28. CASE NetworkChanges
    <2>1. netGen' \in 0..MaxGen
      BY <1>a, <1>0, <1>28 DEF NetworkChanges, PoolTypes
    <2> QED
      BY <1>0, <1>28, <2>1 DEF NetworkChanges, PoolTypes
  <1>29. CASE UNCHANGED vars
    BY <1>0, <1>29
    DEF PoolTypes, PeerStates, vars
  <1> QED
    BY <1>1, <1>2, <1>3, <1>4, <1>5, <1>6, <1>7, <1>8, <1>9, <1>10, <1>11,
       <1>12, <1>13, <1>14, <1>15, <1>16, <1>17, <1>18, <1>19, <1>20, <1>21,
       <1>22, <1>23, <1>24, <1>25, <1>26, <1>27, <1>28, <1>29
    DEF Next, TaskStep

\* A task owns a connection where it should.
LEMMA StepOwnership == IndInv /\ [Next]_vars => Ownership'
  <1> SUFFICES ASSUME IndInv, [Next]_vars PROVE Ownership'
    OBVIOUS
  <1> USE DEF taskVars, permitVars, connVars
  <1>a. /\ MaxIdle \in Nat /\ MaxUses \in Nat /\ MaxUses >= 1
        /\ MaxGen \in Nat /\ NoConn \notin Conns
    BY PoolAssumption
  <1>0. TaskTypes /\ PoolTypes /\ Ownership /\ UsesCounted
    BY DEF IndInv, TypeOK
  <1>1. ASSUME NEW t \in Tasks, NEW c \in Clients, DialTcp(t, c)
        PROVE  Ownership'
    BY <1>a, <1>0, <1>1
    DEF Ownership, TaskTypes, Owning, DialTcp, Goto
  <1>2. ASSUME NEW t \in Tasks, NEW c \in Clients, DialUdp(t, c)
        PROVE  Ownership'
    BY <1>a, <1>0, <1>2
    DEF Ownership, TaskTypes, Owning, DialUdp, Goto
  <1>3. ASSUME NEW t \in Tasks, ReadGeneration(t) PROVE Ownership'
    BY <1>a, <1>0, <1>3
    DEF Ownership, TaskTypes, Owning, ReadGeneration, Goto
  <1>4. ASSUME NEW t \in Tasks, TakeIdle(t) PROVE Ownership'
    <2>1. pc[t] = "take"
      BY <1>4 DEF TakeIdle
    <2>2. CASE TookNone(t)
      BY <1>a, <1>0, <2>1, <2>2
      DEF Ownership, TaskTypes, Owning, TookNone
    <2>3. CASE \E c \in Clients, n \in Nat \ {0}, e \in IdleEntry :
                 Popped(t, c, n, e)
      <3> PICK c \in Clients, n \in Nat \ {0}, e \in IdleEntry :
                 Popped(t, c, n, e)
        BY <2>3
      <3>1. e.conn # NoConn
        BY <1>a DEF IdleEntry
      <3> QED
        BY <1>0, <3>1 DEF Ownership, TaskTypes, Owning, Popped
    <2> QED
      BY <1>0, <1>4, <2>2, <2>3, TakeIdleEffect
  <1>5. ASSUME NEW t \in Tasks, StartReuse(t) PROVE Ownership'
    BY <1>a, <1>0, <1>5
    DEF Ownership, TaskTypes, Owning, StartReuse, Goto
  <1>6. ASSUME NEW t \in Tasks, StartReuseFails(t) PROVE Ownership'
    BY <1>a, <1>0, <1>6
    DEF Ownership, TaskTypes, Owning, StartReuseFails, Goto
  <1>7. ASSUME NEW t \in Tasks, Discarded(t) PROVE Ownership'
    BY <1>a, <1>0, <1>7
    DEF Ownership, TaskTypes, Owning, Discarded, Goto
  <1>8. ASSUME NEW t \in Tasks, AcquireNode(t) PROVE Ownership'
    BY <1>a, <1>0, <1>8
    DEF Ownership, TaskTypes, Owning, AcquireNode, Goto
  <1>9. ASSUME NEW t \in Tasks, AcquireGlobal(t) PROVE Ownership'
    BY <1>a, <1>0, <1>9
    DEF Ownership, TaskTypes, Owning, AcquireGlobal, Goto
  <1>10. ASSUME NEW t \in Tasks, PermitTimeout(t) PROVE Ownership'
    BY <1>a, <1>0, <1>10
    DEF Ownership, TaskTypes, Owning, PermitTimeout, Finished, Goto
  <1>11. ASSUME NEW t \in Tasks, DialSnapshot(t) PROVE Ownership'
    BY <1>a, <1>0, <1>11
    DEF Ownership, TaskTypes, Owning, DialSnapshot, Goto
  <1>12. ASSUME NEW t \in Tasks, NEW k \in Conns, Dialed(t, k)
        PROVE  Ownership'
    BY <1>a, <1>0, <1>12
    DEF Ownership, TaskTypes, Owning, Dialed, Goto
  <1>13. ASSUME NEW t \in Tasks, DialFails(t) PROVE Ownership'
    BY <1>a, <1>0, <1>13
    DEF Ownership, TaskTypes, Owning, DialFails, Finished, ReleasePermits,
        Goto
  <1>14. ASSUME NEW t \in Tasks, OpenDone(t) PROVE Ownership'
    BY <1>a, <1>0, <1>14
    DEF Ownership, TaskTypes, Owning, OpenDone, ReleasePermits, Goto
  <1>15. ASSUME NEW t \in Tasks, FinishRetire(t) PROVE Ownership'
    BY <1>a, <1>0, <1>15
    DEF Ownership, TaskTypes, Owning, FinishRetire, Goto
  <1>16. ASSUME NEW t \in Tasks, DropSession(t) PROVE Ownership'
    BY <1>a, <1>0, <1>16
    DEF Ownership, TaskTypes, Owning, DropSession, Finished, Goto
  <1>17. ASSUME NEW t \in Tasks, FinishClean(t) PROVE Ownership'
    BY <1>a, <1>0, <1>17
    DEF Ownership, TaskTypes, Owning, FinishClean, Goto
  <1>18. ASSUME NEW t \in Tasks, Release(t) PROVE Ownership'
    <2>1. pc[t] = "release"
      BY <1>18 DEF Release, ReleaseIf
    <2>2. CASE NotPushed(t)
      BY <1>0, <2>1, <2>2
      DEF Ownership, TaskTypes, Owning, NotPushed
    <2>3. CASE \E c \in Clients, n \in Nat, e \in IdleEntry :
                 Pushed(t, c, n, e)
      <3> PICK c \in Clients, n \in Nat, e \in IdleEntry : Pushed(t, c, n, e)
        BY <2>3
      <3> QED
        BY <1>0, <2>1
        DEF Ownership, TaskTypes, Owning, Finished, Goto, Pushed
    <2> QED
      BY <1>0, <1>18, <2>2, <2>3, ReleaseEffect
  <1>19. ASSUME NEW t \in Tasks, Retired(t) PROVE Ownership'
    BY <1>a, <1>0, <1>19
    DEF Ownership, TaskTypes, Owning, Retired, Finished, Goto
  <1>20. ASSUME NEW t \in Tasks, FinishUdp(t) PROVE Ownership'
    BY <1>a, <1>0, <1>20
    DEF Ownership, TaskTypes, Owning, FinishUdp, Goto
  <1>21. ASSUME NEW t \in Tasks, UdpClosed(t) PROVE Ownership'
    BY <1>a, <1>0, <1>21
    DEF Ownership, TaskTypes, Owning, UdpClosed, Finished, Goto
  <1>22. ASSUME NEW c \in Clients, CloseSwap(c) PROVE Ownership'
    BY <1>a, <1>0, <1>22
    DEF Ownership, TaskTypes, Owning, CloseSwap, Goto
  <1>23. ASSUME NEW c \in Clients, CloseDrain(c) PROVE Ownership'
    BY <1>a, <1>0, <1>23
    DEF Ownership, TaskTypes, Owning, CloseDrain, Goto
  <1>24. ASSUME NEW c \in Clients, NEW i \in 1..MaxIdle, Expire(c, i)
        PROVE  Ownership'
    BY <1>a, <1>0, <1>24
    DEF Ownership, TaskTypes, Owning, Expire, Goto
  <1>25. ASSUME NEW k \in Conns, SpawnedRetired(k) PROVE Ownership'
    BY <1>a, <1>0, <1>25
    DEF Ownership, TaskTypes, Owning, SpawnedRetired, Goto
  <1>26. ASSUME NEW k \in Conns, ServerInput(k) PROVE Ownership'
    BY <1>a, <1>0, <1>26
    DEF Ownership, TaskTypes, Owning, ServerInput, Goto
  <1>27. ASSUME NEW k \in Conns, ServerStalls(k) PROVE Ownership'
    BY <1>a, <1>0, <1>27
    DEF Ownership, TaskTypes, Owning, ServerStalls, Goto
  <1>28. CASE NetworkChanges
    BY <1>a, <1>0, <1>28
    DEF Ownership, TaskTypes, Owning, NetworkChanges, Goto
  <1>29. CASE UNCHANGED vars
    BY <1>a, <1>0, <1>29
    DEF Ownership, TaskTypes, Owning, vars
  <1> QED
    BY <1>1, <1>2, <1>3, <1>4, <1>5, <1>6, <1>7, <1>8, <1>9, <1>10, <1>11,
       <1>12, <1>13, <1>14, <1>15, <1>16, <1>17, <1>18, <1>19, <1>20, <1>21,
       <1>22, <1>23, <1>24, <1>25, <1>26, <1>27, <1>28, <1>29
    DEF Next, TaskStep

-----------------------------------------------------------------------------
(* Safety, conjunct by conjunct *)

\* No connection is used beyond its limit: only one that may still be used
\* enters the pool, and only release() puts one there.
LEMMA StepUses == IndInv /\ [Next]_vars => UsesCounted'
  <1> SUFFICES ASSUME IndInv, [Next]_vars PROVE UsesCounted'
    OBVIOUS
  <1> USE DEF taskVars, permitVars, connVars
  <1>a. /\ MaxIdle \in Nat /\ MaxUses \in Nat /\ MaxUses >= 1
        /\ MaxGen \in Nat /\ NoConn \notin Conns
    BY PoolAssumption
  <1>0. TaskTypes /\ PoolTypes /\ Ownership /\ UsesCounted
    BY DEF IndInv, TypeOK
  <1>b. PoolWithinLimits /\ ClosedPoolEmpty /\ FlagTypes
    BY DEF IndInv, TypeOK
  <1>1. ASSUME NEW t \in Tasks, NEW c \in Clients, DialTcp(t, c)
        PROVE  UsesCounted'
    BY <1>a, <1>0, <1>1
    DEF UsesCounted, TaskTypes, DialTcp, Goto
  <1>2. ASSUME NEW t \in Tasks, NEW c \in Clients, DialUdp(t, c)
        PROVE  UsesCounted'
    BY <1>a, <1>0, <1>2
    DEF UsesCounted, TaskTypes, DialUdp, Goto
  <1>3. ASSUME NEW t \in Tasks, ReadGeneration(t) PROVE UsesCounted'
    BY <1>a, <1>0, <1>3
    DEF UsesCounted, TaskTypes, ReadGeneration, Goto
  <1>4. ASSUME NEW t \in Tasks, TakeIdle(t) PROVE UsesCounted'
    <2>1. pc[t] = "take"
      BY <1>4 DEF TakeIdle
    <2>2. CASE TookNone(t)
      BY <1>0, <2>2
      DEF UsesCounted, TaskTypes, TookNone
    <2>3. CASE \E c \in Clients, n \in Nat \ {0}, e \in IdleEntry :
                 Popped(t, c, n, e)
      <3> PICK c \in Clients, n \in Nat \ {0}, e \in IdleEntry :
                 Popped(t, c, n, e)
        BY <2>3
      <3>1. e.uses >= 1 /\ e.uses < MaxUses
        <4>1. n \in 1..Len(idle[c])
          BY DEF Popped
        <4>2. e.uses < MaxUses
          BY <1>b, <4>1 DEF PoolWithinLimits, Popped
        <4> QED
          BY <1>a, <4>2 DEF IdleEntry
      <3> QED
        BY <1>0, <3>1 DEF UsesCounted, TaskTypes, Popped
    <2> QED
      BY <1>0, <1>4, <2>2, <2>3, TakeIdleEffect
  <1>5. ASSUME NEW t \in Tasks, StartReuse(t) PROVE UsesCounted'
    BY <1>a, <1>0, <1>5
    DEF UsesCounted, TaskTypes, StartReuse, Goto
  <1>6. ASSUME NEW t \in Tasks, StartReuseFails(t) PROVE UsesCounted'
    BY <1>a, <1>0, <1>6
    DEF UsesCounted, TaskTypes, StartReuseFails, Goto
  <1>7. ASSUME NEW t \in Tasks, Discarded(t) PROVE UsesCounted'
    BY <1>a, <1>0, <1>7
    DEF UsesCounted, TaskTypes, Discarded, Goto
  <1>8. ASSUME NEW t \in Tasks, AcquireNode(t) PROVE UsesCounted'
    BY <1>a, <1>0, <1>8
    DEF UsesCounted, TaskTypes, AcquireNode, Goto
  <1>9. ASSUME NEW t \in Tasks, AcquireGlobal(t) PROVE UsesCounted'
    BY <1>a, <1>0, <1>9
    DEF UsesCounted, TaskTypes, AcquireGlobal, Goto
  <1>10. ASSUME NEW t \in Tasks, PermitTimeout(t) PROVE UsesCounted'
    BY <1>a, <1>0, <1>10
    DEF UsesCounted, TaskTypes, PermitTimeout, Finished, Goto
  <1>11. ASSUME NEW t \in Tasks, DialSnapshot(t) PROVE UsesCounted'
    BY <1>a, <1>0, <1>11
    DEF UsesCounted, TaskTypes, DialSnapshot, Goto
  <1>12. ASSUME NEW t \in Tasks, NEW k \in Conns, Dialed(t, k)
        PROVE  UsesCounted'
    BY <1>a, <1>0, <1>12
    DEF UsesCounted, TaskTypes, Dialed, Goto
  <1>13. ASSUME NEW t \in Tasks, DialFails(t) PROVE UsesCounted'
    BY <1>a, <1>0, <1>13
    DEF UsesCounted, TaskTypes, DialFails, Finished, ReleasePermits, Goto
  <1>14. ASSUME NEW t \in Tasks, OpenDone(t) PROVE UsesCounted'
    BY <1>a, <1>0, <1>14
    DEF UsesCounted, TaskTypes, OpenDone, ReleasePermits, Goto
  <1>15. ASSUME NEW t \in Tasks, FinishRetire(t) PROVE UsesCounted'
    BY <1>a, <1>0, <1>15
    DEF UsesCounted, TaskTypes, FinishRetire, Goto
  <1>16. ASSUME NEW t \in Tasks, DropSession(t) PROVE UsesCounted'
    BY <1>a, <1>0, <1>16
    DEF UsesCounted, TaskTypes, DropSession, Finished, Goto
  <1>17. ASSUME NEW t \in Tasks, FinishClean(t) PROVE UsesCounted'
    BY <1>a, <1>0, <1>17
    DEF UsesCounted, TaskTypes, FinishClean, Goto
  <1>18. ASSUME NEW t \in Tasks, Release(t) PROVE UsesCounted'
    <2>2. CASE NotPushed(t)
      BY <1>0, <2>2
      DEF UsesCounted, TaskTypes, NotPushed
    <2>3. CASE \E c \in Clients, n \in Nat, e \in IdleEntry :
                 Pushed(t, c, n, e)
      <3> PICK c \in Clients, n \in Nat, e \in IdleEntry : Pushed(t, c, n, e)
        BY <2>3
      <3> QED
        BY <1>0
        DEF UsesCounted, TaskTypes, Finished, Goto, Pushed
    <2> QED
      BY <1>0, <1>18, <2>2, <2>3, ReleaseEffect
  <1>19. ASSUME NEW t \in Tasks, Retired(t) PROVE UsesCounted'
    BY <1>a, <1>0, <1>19
    DEF UsesCounted, TaskTypes, Retired, Finished, Goto
  <1>20. ASSUME NEW t \in Tasks, FinishUdp(t) PROVE UsesCounted'
    BY <1>a, <1>0, <1>20
    DEF UsesCounted, TaskTypes, FinishUdp, Goto
  <1>21. ASSUME NEW t \in Tasks, UdpClosed(t) PROVE UsesCounted'
    BY <1>a, <1>0, <1>21
    DEF UsesCounted, TaskTypes, UdpClosed, Finished, Goto
  <1>22. ASSUME NEW c \in Clients, CloseSwap(c) PROVE UsesCounted'
    BY <1>a, <1>0, <1>22
    DEF UsesCounted, TaskTypes, CloseSwap, Goto
  <1>23. ASSUME NEW c \in Clients, CloseDrain(c) PROVE UsesCounted'
    BY <1>a, <1>0, <1>23
    DEF UsesCounted, TaskTypes, CloseDrain, Goto
  <1>24. ASSUME NEW c \in Clients, NEW i \in 1..MaxIdle, Expire(c, i)
        PROVE  UsesCounted'
    BY <1>a, <1>0, <1>24
    DEF UsesCounted, TaskTypes, Expire, Goto
  <1>25. ASSUME NEW k \in Conns, SpawnedRetired(k) PROVE UsesCounted'
    BY <1>a, <1>0, <1>25
    DEF UsesCounted, TaskTypes, SpawnedRetired, Goto
  <1>26. ASSUME NEW k \in Conns, ServerInput(k) PROVE UsesCounted'
    BY <1>a, <1>0, <1>26
    DEF UsesCounted, TaskTypes, ServerInput, Goto
  <1>27. ASSUME NEW k \in Conns, ServerStalls(k) PROVE UsesCounted'
    BY <1>a, <1>0, <1>27
    DEF UsesCounted, TaskTypes, ServerStalls, Goto
  <1>28. CASE NetworkChanges
    BY <1>a, <1>0, <1>28
    DEF UsesCounted, TaskTypes, NetworkChanges, Goto
  <1>29. CASE UNCHANGED vars
    BY <1>a, <1>0, <1>29
    DEF UsesCounted, TaskTypes, vars
  <1> QED
    BY <1>1, <1>2, <1>3, <1>4, <1>5, <1>6, <1>7, <1>8, <1>9, <1>10, <1>11,
       <1>12, <1>13, <1>14, <1>15, <1>16, <1>17, <1>18, <1>19, <1>20, <1>21,
       <1>22, <1>23, <1>24, <1>25, <1>26, <1>27, <1>28, <1>29
    DEF Next, TaskStep

\* Where connections are changes in few ways: pop, push, dial, letting go,
\* and close().
LEMMA PlaceSteps ==
    ASSUME TaskTypes, [Next]_vars
    PROVE  \/ \E t \in Tasks : \/ TakeIdle(t) \/ Release(t) \/ LetGo(t)
                               \/ \E k \in Conns : Dialed(t, k)
           \/ \E c \in Clients : \/ CloseSwap(c) \/ CloseDrain(c)
                                 \/ \E i \in 1..MaxIdle : Expire(c, i)
           \/ \E k \in Conns : SpawnedRetired(k)
           \/ UNCHANGED <<held, idle, phase, retiring>>
  <1> USE DEF taskVars, permitVars, connVars
  <1>1. ASSUME NEW t \in Tasks,
               \/ PermitTimeout(t) \/ DialFails(t) \/ DropSession(t)
               \/ Retired(t) \/ UdpClosed(t) \/ Discarded(t)
        PROVE  LetGo(t)
    BY <1>1 DEF LetGo, PermitTimeout, DialFails, DropSession, Retired,
        UdpClosed, Discarded, Finished
  <1>2. ASSUME NEW t \in Tasks,
               \/ ReadGeneration(t) \/ StartReuse(t) \/ StartReuseFails(t)
               \/ AcquireNode(t) \/ AcquireGlobal(t) \/ DialSnapshot(t)
               \/ OpenDone(t) \/ FinishRetire(t) \/ FinishClean(t)
               \/ FinishUdp(t)
        PROVE  UNCHANGED <<held, idle, phase, retiring>>
    BY <1>2 DEF ReadGeneration, StartReuse, StartReuseFails, AcquireNode,
        AcquireGlobal, DialSnapshot, OpenDone, FinishRetire, FinishClean,
        FinishUdp
  <1>3. ASSUME NEW t \in Tasks, NEW c \in Clients,
               DialTcp(t, c) \/ DialUdp(t, c)
        PROVE  UNCHANGED <<held, idle, phase, retiring>>
    BY <1>3 DEF DialTcp, DialUdp
  <1>4. ASSUME NEW k \in Conns, ServerInput(k) \/ ServerStalls(k)
        PROVE  UNCHANGED <<held, idle, phase, retiring>>
    BY <1>4 DEF ServerInput, ServerStalls
  <1>5. CASE NetworkChanges \/ UNCHANGED vars
    BY <1>5 DEF NetworkChanges, vars
  <1> QED
    BY <1>1, <1>2, <1>3, <1>4, <1>5 DEF Next, TaskStep

\* The pool stays within its limits.
LEMMA StepLimits == IndInv /\ [Next]_vars => PoolWithinLimits'
  <1> SUFFICES ASSUME IndInv, [Next]_vars PROVE PoolWithinLimits'
    OBVIOUS
  <1> USE DEF taskVars, permitVars, connVars
  <1>a. /\ MaxIdle \in Nat /\ MaxUses \in Nat /\ MaxUses >= 1
        /\ MaxGen \in Nat /\ NoConn \notin Conns
    BY PoolAssumption
  <1>0. TaskTypes /\ PoolTypes /\ Ownership /\ UsesCounted
    BY DEF IndInv, TypeOK
  <1>b. PoolWithinLimits /\ ClosedPoolEmpty /\ FlagTypes
    BY DEF IndInv, TypeOK
  <1>1. ASSUME NEW t \in Tasks, TakeIdle(t) PROVE PoolWithinLimits'
    <2>2. CASE TookNone(t)
      BY <1>0, <1>b, <2>2
      DEF PoolWithinLimits, TookNone
    <2>3. CASE \E c \in Clients, n \in Nat \ {0}, e \in IdleEntry :
                 Popped(t, c, n, e)
      <3> PICK c \in Clients, n \in Nat \ {0}, e \in IdleEntry :
                 Popped(t, c, n, e)
        BY <2>3
      <3>1. n \in 1..Len(idle[c]) /\ Len(idle[c]) <= MaxIdle
        BY <1>b DEF PoolWithinLimits, Popped
      <3>2. \A d \in Clients : Len(idle'[d]) \in Nat /\ Len(idle[d]) \in Nat
        BY <1>0 DEF Popped, PoolTypes
      <3>3. ASSUME NEW d \in Clients
            PROVE  /\ Len(idle'[d]) <= Len(idle[d])
                   /\ \A i \in 1..Len(idle'[d]) :
                        i \in 1..Len(idle[d]) /\ idle'[d][i] = idle[d][i]
        <4>1. CASE d = c
          BY <4>1 DEF Popped
        <4>2. CASE d # c
          BY <3>2, <4>2 DEF Popped
        <4> QED
          BY <4>1, <4>2
      <3> QED
        BY <1>a, <1>b, <3>2, <3>3 DEF PoolWithinLimits
    <2> QED
      BY <1>0, <1>1, <2>2, <2>3, TakeIdleEffect
  <1>2. ASSUME NEW t \in Tasks, Release(t) PROVE PoolWithinLimits'
    <2>1. pc[t] = "release"
      BY <1>2 DEF Release, ReleaseIf
    <2>2. CASE NotPushed(t)
      BY <1>0, <1>b, <2>2
      DEF PoolWithinLimits, NotPushed
    <2>3. CASE \E c \in Clients, n \in Nat, e \in IdleEntry :
                 Pushed(t, c, n, e)
      <3> PICK c \in Clients, n \in Nat, e \in IdleEntry : Pushed(t, c, n, e)
        BY <2>3
      <3>1. e.uses < MaxUses
        BY <1>0, <2>1 DEF UsesCounted, Pushed
      <3>2. SUFFICES ASSUME NEW d \in Clients
                     PROVE  /\ Len(idle'[d]) <= MaxIdle
                            /\ \A i \in 1..Len(idle'[d]) :
                                 idle'[d][i].uses < MaxUses
        BY DEF PoolWithinLimits
      <3>3. CASE d = c
        <4>1. Len(idle'[d]) = n + 1 /\ n + 1 <= MaxIdle
          BY <1>a, <3>3 DEF Pushed
        <4>2. ASSUME NEW i \in 1..n + 1 PROVE idle'[d][i].uses < MaxUses
          <5>1. CASE i \in 1..n
            BY <1>b, <3>3, <5>1 DEF Pushed, PoolWithinLimits
          <5>2. CASE i = n + 1
            BY <3>1, <3>3, <5>2 DEF Pushed
          <5> QED
            BY <5>1, <5>2
        <4> QED
          BY <4>1, <4>2
      <3>4. CASE d # c
        BY <1>b, <3>4 DEF Pushed, PoolWithinLimits
      <3> QED
        BY <3>3, <3>4
    <2> QED
      BY <1>0, <1>2, <2>2, <2>3, ReleaseEffect
  <1>3. ASSUME NEW t \in Tasks, NEW k \in Conns, Dialed(t, k)
        PROVE  PoolWithinLimits'
    BY <1>b, <1>3
    DEF PoolWithinLimits, Dialed
  <1>4. ASSUME NEW t \in Tasks, LetGo(t) PROVE PoolWithinLimits'
    BY <1>b, <1>4
    DEF PoolWithinLimits, LetGo
  <1>5. ASSUME NEW c \in Clients, CloseSwap(c) PROVE PoolWithinLimits'
    BY <1>b, <1>5
    DEF PoolWithinLimits, CloseSwap
  <1>6. ASSUME NEW c \in Clients, CloseDrain(c) PROVE PoolWithinLimits'
    BY <1>a, <1>0, <1>b, <1>6 DEF PoolWithinLimits, CloseDrain, PoolTypes
  <1>7. ASSUME NEW c \in Clients, NEW i \in 1..MaxIdle, Expire(c, i)
        PROVE  PoolWithinLimits'
    BY <1>0, <1>b, <1>7, ExpireEffect DEF PoolWithinLimits
  <1>8. ASSUME NEW k \in Conns, SpawnedRetired(k) PROVE PoolWithinLimits'
    BY <1>b, <1>8
    DEF PoolWithinLimits, SpawnedRetired
  <1>9. CASE UNCHANGED <<held, idle, phase, retiring>>
    BY <1>b, <1>9
    DEF PoolWithinLimits
  <1> QED
    BY <1>0, <1>1, <1>2, <1>3, <1>4, <1>5, <1>6, <1>7, <1>8, <1>9, PlaceSteps

\* A drained pool stays empty: only release() adds to a pool, and it tests
\* `closed` in the critical section that pushes.
LEMMA StepClosed == IndInv /\ [Next]_vars => ClosedPoolEmpty'
  <1> SUFFICES ASSUME IndInv, [Next]_vars PROVE ClosedPoolEmpty'
    OBVIOUS
  <1> USE DEF taskVars, permitVars, connVars
  <1>a. /\ MaxIdle \in Nat /\ MaxUses \in Nat /\ MaxUses >= 1
        /\ MaxGen \in Nat /\ NoConn \notin Conns
    BY PoolAssumption
  <1>0. TaskTypes /\ PoolTypes /\ Ownership /\ UsesCounted
    BY DEF IndInv, TypeOK
  <1>b. PoolWithinLimits /\ ClosedPoolEmpty /\ FlagTypes
    BY DEF IndInv, TypeOK
  <1>1. ASSUME NEW t \in Tasks, TakeIdle(t) PROVE ClosedPoolEmpty'
    <2>1. UNCHANGED phase
      BY <1>1 DEF TakeIdle
    <2>2. CASE TookNone(t)
      BY <1>0, <1>b, <2>1, <2>2
      DEF ClosedPoolEmpty, TookNone
    <2>3. CASE \E c \in Clients, n \in Nat \ {0}, e \in IdleEntry :
                 Popped(t, c, n, e)
      <3> PICK c \in Clients, n \in Nat \ {0}, e \in IdleEntry :
                 Popped(t, c, n, e)
        BY <2>3
      <3>1. idle[c] # <<>>
        BY DEF Popped
      <3> QED
        BY <1>b, <2>1, <3>1 DEF ClosedPoolEmpty, Popped
    <2> QED
      BY <1>0, <1>1, <2>2, <2>3, TakeIdleEffect
  <1>2. ASSUME NEW t \in Tasks, Release(t) PROVE ClosedPoolEmpty'
    <2>1. UNCHANGED phase
      BY <1>2 DEF Release, ReleaseIf
    <2>2. CASE NotPushed(t)
      BY <1>0, <1>b, <2>1, <2>2
      DEF ClosedPoolEmpty, NotPushed
    <2>3. CASE \E c \in Clients, n \in Nat, e \in IdleEntry :
                 Pushed(t, c, n, e)
      <3> PICK c \in Clients, n \in Nat, e \in IdleEntry : Pushed(t, c, n, e)
        BY <2>3
      <3> QED
        BY <1>0, <1>b, <2>1
        DEF ClosedPoolEmpty, Pushed
    <2> QED
      BY <1>0, <1>2, <2>2, <2>3, ReleaseEffect
  <1>3. ASSUME NEW t \in Tasks, NEW k \in Conns, Dialed(t, k)
        PROVE  ClosedPoolEmpty'
    BY <1>b, <1>3
    DEF ClosedPoolEmpty, Dialed
  <1>4. ASSUME NEW t \in Tasks, LetGo(t) PROVE ClosedPoolEmpty'
    BY <1>b, <1>4
    DEF ClosedPoolEmpty, LetGo
  <1>5. ASSUME NEW c \in Clients, CloseSwap(c) PROVE ClosedPoolEmpty'
    BY <1>0, <1>b, <1>5 DEF ClosedPoolEmpty, CloseSwap, PoolTypes
  <1>6. ASSUME NEW c \in Clients, CloseDrain(c) PROVE ClosedPoolEmpty'
    BY <1>0, <1>b, <1>6 DEF ClosedPoolEmpty, CloseDrain, PoolTypes
  <1>7. ASSUME NEW c \in Clients, NEW i \in 1..MaxIdle, Expire(c, i)
        PROVE  ClosedPoolEmpty'
    <2>1. UNCHANGED phase
      BY <1>7 DEF Expire
    <2>2. ASSUME NEW d \in Clients, idle[d] = <<>> PROVE idle'[d] = <<>>
      <3>1. /\ idle'[d] \in Seq(IdleEntry) /\ idle[d] \in Seq(IdleEntry)
            /\ Len(idle'[d]) = Len(idle[d])
        BY <1>0, <1>7, ExpireEffect DEF PoolTypes
      <3> QED
        BY <2>2, <3>1, EmptySeq
    <2> QED
      BY <1>b, <2>1, <2>2 DEF ClosedPoolEmpty
  <1>8. ASSUME NEW k \in Conns, SpawnedRetired(k) PROVE ClosedPoolEmpty'
    BY <1>b, <1>8
    DEF ClosedPoolEmpty, SpawnedRetired
  <1>9. CASE UNCHANGED <<held, idle, phase, retiring>>
    BY <1>b, <1>9
    DEF ClosedPoolEmpty
  <1> QED
    BY <1>0, <1>1, <1>2, <1>3, <1>4, <1>5, <1>6, <1>7, <1>8, <1>9, PlaceSteps

\* A request's generation is read after it began, and it only uses a
\* connection of that generation.
LEMMA StepGenerations == IndInv /\ [Next]_vars => GenerationsFollow'
  <1> SUFFICES ASSUME IndInv, [Next]_vars PROVE GenerationsFollow'
    OBVIOUS
  <1> USE DEF taskVars, permitVars, connVars
  <1>a. /\ MaxIdle \in Nat /\ MaxUses \in Nat /\ MaxUses >= 1
        /\ MaxGen \in Nat /\ NoConn \notin Conns
    BY PoolAssumption
  <1>0. TaskTypes /\ PoolTypes /\ Ownership /\ UsesCounted
    BY DEF IndInv, TypeOK
  <1>g. GenerationsFollow
    BY DEF IndInv
  <1>1. ASSUME NEW t \in Tasks, NEW c \in Clients, DialTcp(t, c)
        PROVE  GenerationsFollow'
    BY <1>a, <1>0, <1>g, <1>1
    DEF GenerationsFollow, TaskTypes, PoolTypes, DialTcp, Goto
  <1>2. ASSUME NEW t \in Tasks, NEW c \in Clients, DialUdp(t, c)
        PROVE  GenerationsFollow'
    BY <1>a, <1>0, <1>g, <1>2
    DEF GenerationsFollow, TaskTypes, PoolTypes, DialUdp, Goto
  <1>3. ASSUME NEW t \in Tasks, ReadGeneration(t) PROVE GenerationsFollow'
    BY <1>a, <1>0, <1>g, <1>3
    DEF GenerationsFollow, TaskTypes, PoolTypes, ReadGeneration, Goto
  <1>4. ASSUME NEW t \in Tasks, TakeIdle(t) PROVE GenerationsFollow'
    <2>1. /\ pc[t] = "take"
          /\ UNCHANGED <<started, generation, connGen, netGen>>
      BY <1>4 DEF TakeIdle
    <2>2. CASE TookNone(t)
      BY <1>0, <1>g, <2>1, <2>2
      DEF GenerationsFollow, TaskTypes, TookNone
    <2>3. CASE \E c \in Clients, n \in Nat \ {0}, e \in IdleEntry :
                 Popped(t, c, n, e)
      <3> PICK c \in Clients, n \in Nat \ {0}, e \in IdleEntry :
                 Popped(t, c, n, e)
        BY <2>3
      <3> QED
        BY <1>0, <1>g, <2>1
        DEF GenerationsFollow, TaskTypes, Popped
    <2> QED
      BY <1>0, <1>4, <2>2, <2>3, TakeIdleEffect
  <1>5. ASSUME NEW t \in Tasks, StartReuse(t) PROVE GenerationsFollow'
    BY <1>a, <1>0, <1>g, <1>5
    DEF GenerationsFollow, TaskTypes, PoolTypes, StartReuse, Goto
  <1>6. ASSUME NEW t \in Tasks, StartReuseFails(t)
        PROVE  GenerationsFollow'
    BY <1>a, <1>0, <1>g, <1>6
    DEF GenerationsFollow, TaskTypes, PoolTypes, StartReuseFails, Goto
  <1>7. ASSUME NEW t \in Tasks, Discarded(t) PROVE GenerationsFollow'
    BY <1>a, <1>0, <1>g, <1>7
    DEF GenerationsFollow, TaskTypes, PoolTypes, Discarded, Goto
  <1>8. ASSUME NEW t \in Tasks, AcquireNode(t) PROVE GenerationsFollow'
    BY <1>a, <1>0, <1>g, <1>8
    DEF GenerationsFollow, TaskTypes, PoolTypes, AcquireNode, Goto
  <1>9. ASSUME NEW t \in Tasks, AcquireGlobal(t) PROVE GenerationsFollow'
    BY <1>a, <1>0, <1>g, <1>9
    DEF GenerationsFollow, TaskTypes, PoolTypes, AcquireGlobal, Goto
  <1>10. ASSUME NEW t \in Tasks, PermitTimeout(t) PROVE GenerationsFollow'
    BY <1>a, <1>0, <1>g, <1>10
    DEF GenerationsFollow, TaskTypes, PoolTypes, PermitTimeout, Finished, Goto
  <1>11. ASSUME NEW t \in Tasks, DialSnapshot(t) PROVE GenerationsFollow'
    BY <1>a, <1>0, <1>g, <1>11
    DEF GenerationsFollow, TaskTypes, PoolTypes, DialSnapshot, Goto
  <1>12. ASSUME NEW t \in Tasks, NEW k \in Conns, Dialed(t, k)
        PROVE  GenerationsFollow'
    <2>1. \A u \in Tasks : held[u] # k
      BY <1>a, <1>12, NotInUse DEF Dialed
    <2>2. connGen'[k] = generation[t]
      BY <1>0, <1>12 DEF Dialed, PoolTypes
    <2>3. \A u \in Tasks : connGen'[held[u]] = connGen[held[u]]
      BY <1>0, <1>12, <2>1 DEF Dialed, PoolTypes
    <2> QED
      BY <1>0, <1>g, <1>12, <2>2, <2>3
      DEF GenerationsFollow, TaskTypes, Dialed, Goto
  <1>13. ASSUME NEW t \in Tasks, DialFails(t) PROVE GenerationsFollow'
    BY <1>a, <1>0, <1>g, <1>13
    DEF GenerationsFollow, TaskTypes, PoolTypes, DialFails, Finished,
        ReleasePermits, Goto
  <1>14. ASSUME NEW t \in Tasks, OpenDone(t) PROVE GenerationsFollow'
    BY <1>a, <1>0, <1>g, <1>14
    DEF GenerationsFollow, TaskTypes, PoolTypes, OpenDone, ReleasePermits,
        Goto
  <1>15. ASSUME NEW t \in Tasks, FinishRetire(t) PROVE GenerationsFollow'
    BY <1>a, <1>0, <1>g, <1>15
    DEF GenerationsFollow, TaskTypes, PoolTypes, FinishRetire, Goto
  <1>16. ASSUME NEW t \in Tasks, DropSession(t) PROVE GenerationsFollow'
    BY <1>a, <1>0, <1>g, <1>16
    DEF GenerationsFollow, TaskTypes, PoolTypes, DropSession, Finished, Goto
  <1>17. ASSUME NEW t \in Tasks, FinishClean(t) PROVE GenerationsFollow'
    BY <1>a, <1>0, <1>g, <1>17
    DEF GenerationsFollow, TaskTypes, PoolTypes, FinishClean, Goto
  <1>18. ASSUME NEW t \in Tasks, Release(t) PROVE GenerationsFollow'
    <2>1. UNCHANGED <<connGen, netGen>>
      BY <1>18 DEF Release, ReleaseIf
    <2>2. CASE NotPushed(t)
      BY <1>a, <1>0, <1>g, <2>1, <2>2
      DEF GenerationsFollow, TaskTypes, NotPushed
    <2>3. CASE \E c \in Clients, n \in Nat, e \in IdleEntry :
                 Pushed(t, c, n, e)
      <3> PICK c \in Clients, n \in Nat, e \in IdleEntry : Pushed(t, c, n, e)
        BY <2>3
      <3> QED
        BY <1>a, <1>0, <1>g, <2>1
        DEF GenerationsFollow, TaskTypes, PoolTypes, Finished, Goto, Pushed
    <2> QED
      BY <1>0, <1>18, <2>2, <2>3, ReleaseEffect
  <1>19. ASSUME NEW t \in Tasks, Retired(t) PROVE GenerationsFollow'
    BY <1>a, <1>0, <1>g, <1>19
    DEF GenerationsFollow, TaskTypes, PoolTypes, Retired, Finished, Goto
  <1>20. ASSUME NEW t \in Tasks, FinishUdp(t) PROVE GenerationsFollow'
    BY <1>a, <1>0, <1>g, <1>20
    DEF GenerationsFollow, TaskTypes, PoolTypes, FinishUdp, Goto
  <1>21. ASSUME NEW t \in Tasks, UdpClosed(t) PROVE GenerationsFollow'
    BY <1>a, <1>0, <1>g, <1>21
    DEF GenerationsFollow, TaskTypes, PoolTypes, UdpClosed, Finished, Goto
  <1>22. ASSUME NEW c \in Clients, CloseSwap(c) PROVE GenerationsFollow'
    BY <1>a, <1>0, <1>g, <1>22
    DEF GenerationsFollow, TaskTypes, PoolTypes, CloseSwap, Goto
  <1>23. ASSUME NEW c \in Clients, CloseDrain(c) PROVE GenerationsFollow'
    BY <1>a, <1>0, <1>g, <1>23
    DEF GenerationsFollow, TaskTypes, PoolTypes, CloseDrain, Goto
  <1>24. ASSUME NEW c \in Clients, NEW i \in 1..MaxIdle, Expire(c, i)
        PROVE  GenerationsFollow'
    BY <1>a, <1>0, <1>g, <1>24
    DEF GenerationsFollow, TaskTypes, PoolTypes, Expire, Goto
  <1>25. ASSUME NEW k \in Conns, SpawnedRetired(k) PROVE GenerationsFollow'
    BY <1>a, <1>0, <1>g, <1>25
    DEF GenerationsFollow, TaskTypes, PoolTypes, SpawnedRetired, Goto
  <1>26. ASSUME NEW k \in Conns, ServerInput(k) PROVE GenerationsFollow'
    BY <1>a, <1>0, <1>g, <1>26
    DEF GenerationsFollow, TaskTypes, PoolTypes, ServerInput, Goto
  <1>27. ASSUME NEW k \in Conns, ServerStalls(k) PROVE GenerationsFollow'
    BY <1>a, <1>0, <1>g, <1>27
    DEF GenerationsFollow, TaskTypes, PoolTypes, ServerStalls, Goto
  <1>28. CASE NetworkChanges
    BY <1>a, <1>0, <1>g, <1>28
    DEF GenerationsFollow, TaskTypes, PoolTypes, NetworkChanges, Goto
  <1>29. CASE UNCHANGED vars
    BY <1>a, <1>0, <1>g, <1>29
    DEF GenerationsFollow, TaskTypes, PoolTypes, vars
  <1> QED
    BY <1>1, <1>2, <1>3, <1>4, <1>5, <1>6, <1>7, <1>8, <1>9, <1>10, <1>11,
       <1>12, <1>13, <1>14, <1>15, <1>16, <1>17, <1>18, <1>19, <1>20, <1>21,
       <1>22, <1>23, <1>24, <1>25, <1>26, <1>27, <1>28, <1>29
    DEF Next, TaskStep

\* Two tasks never hold the same connection.
LEMMA StepHeldOnce == IndInv /\ [Next]_vars => HeldOnce'
  <1> SUFFICES ASSUME IndInv, [Next]_vars PROVE HeldOnce'
    OBVIOUS
  <1> USE DEF taskVars, permitVars, connVars
  <1>a. /\ MaxIdle \in Nat /\ MaxUses \in Nat /\ MaxUses >= 1
        /\ MaxGen \in Nat /\ NoConn \notin Conns
    BY PoolAssumption
  <1>0. TaskTypes /\ PoolTypes /\ Ownership /\ UsesCounted
    BY DEF IndInv, TypeOK
  <1>c. HeldOnce /\ PooledOnce /\ HeldNotPooled /\ RetiringApart
    BY DEF IndInv
  <1>1. ASSUME NEW t \in Tasks, TakeIdle(t) PROVE HeldOnce'
    <2>2. CASE TookNone(t)
      BY <1>c, <2>2
      DEF HeldOnce, TookNone
    <2>3. CASE \E c \in Clients, n \in Nat \ {0}, e \in IdleEntry :
                 Popped(t, c, n, e)
      <3> PICK c \in Clients, n \in Nat \ {0}, e \in IdleEntry :
                 Popped(t, c, n, e)
        BY <2>3
      <3>1. n \in 1..Len(idle[c]) /\ e.conn # NoConn
        BY <1>a DEF Popped, IdleEntry
      <3>2. \A u \in Tasks : held[u] # e.conn
        BY <1>c, <3>1 DEF HeldNotPooled, Popped
      <3> QED
        BY <1>0, <1>c, <3>2 DEF HeldOnce, TaskTypes, Popped
    <2> QED
      BY <1>0, <1>1, <2>2, <2>3, TakeIdleEffect
  <1>2. ASSUME NEW t \in Tasks, Release(t) PROVE HeldOnce'
    <2>2. CASE NotPushed(t)
      BY <1>0, <1>c, <2>2
      DEF HeldOnce, NotPushed
    <2>3. CASE \E c \in Clients, n \in Nat, e \in IdleEntry :
                 Pushed(t, c, n, e)
      <3> PICK c \in Clients, n \in Nat, e \in IdleEntry : Pushed(t, c, n, e)
        BY <2>3
      <3> QED
        BY <1>0, <1>c
        DEF HeldOnce, TaskTypes, Finished, Pushed
    <2> QED
      BY <1>0, <1>2, <2>2, <2>3, ReleaseEffect
  <1>3. ASSUME NEW t \in Tasks, NEW k \in Conns, Dialed(t, k)
        PROVE  HeldOnce'
    <2>1. \A u \in Tasks : held[u] # k
      BY <1>a, <1>3, NotInUse DEF Dialed
    <2> QED
      BY <1>0, <1>c, <1>3, <2>1 DEF HeldOnce, TaskTypes, Dialed
  <1>4. ASSUME NEW t \in Tasks, LetGo(t) PROVE HeldOnce'
    BY <1>0, <1>c, <1>4
    DEF HeldOnce, TaskTypes, LetGo
  <1>5. ASSUME NEW c \in Clients, CloseSwap(c) PROVE HeldOnce'
    BY <1>0, <1>c, <1>5
    DEF HeldOnce, TaskTypes, CloseSwap
  <1>6. ASSUME NEW c \in Clients, CloseDrain(c) PROVE HeldOnce'
    BY <1>0, <1>c, <1>6
    DEF HeldOnce, TaskTypes, CloseDrain
  <1>7. ASSUME NEW c \in Clients, NEW i \in 1..MaxIdle, Expire(c, i)
        PROVE  HeldOnce'
    BY <1>0, <1>c, <1>7
    DEF HeldOnce, TaskTypes, Expire
  <1>8. ASSUME NEW k \in Conns, SpawnedRetired(k) PROVE HeldOnce'
    BY <1>0, <1>c, <1>8
    DEF HeldOnce, TaskTypes, SpawnedRetired
  <1>9. CASE UNCHANGED <<held, idle, phase, retiring>>
    BY <1>0, <1>c, <1>9
    DEF HeldOnce, TaskTypes
  <1> QED
    BY <1>0, <1>1, <1>2, <1>3, <1>4, <1>5, <1>6, <1>7, <1>8, <1>9, PlaceSteps

\* Taking entries out of the pools adds no duplicate.
LEMMA FewerPooled ==
    ASSUME PooledOnce,
           \A d \in Clients : \A i \in 1..Len(idle'[d]) :
             i \in 1..Len(idle[d]) /\ idle'[d][i] = idle[d][i]
    PROVE  PooledOnce'
  <1> SUFFICES ASSUME NEW c \in Clients, NEW d \in Clients,
                      NEW i \in 1..Len(idle'[c]), NEW j \in 1..Len(idle'[d]),
                      idle'[c][i].conn = idle'[d][j].conn
               PROVE  c = d /\ i = j
    BY DEF PooledOnce
  <1>1. /\ i \in 1..Len(idle[c]) /\ j \in 1..Len(idle[d])
        /\ idle[c][i].conn = idle[d][j].conn
    OBVIOUS
  <1> QED
    BY <1>1 DEF PooledOnce

\* No connection is twice in the pools.
LEMMA StepPooledOnce == IndInv /\ [Next]_vars => PooledOnce'
  <1> SUFFICES ASSUME IndInv, [Next]_vars PROVE PooledOnce'
    OBVIOUS
  <1> USE DEF taskVars, permitVars, connVars
  <1>a. /\ MaxIdle \in Nat /\ MaxUses \in Nat /\ MaxUses >= 1
        /\ MaxGen \in Nat /\ NoConn \notin Conns
    BY PoolAssumption
  <1>0. TaskTypes /\ PoolTypes /\ Ownership /\ UsesCounted
    BY DEF IndInv, TypeOK
  <1>c. HeldOnce /\ PooledOnce /\ HeldNotPooled /\ RetiringApart
    BY DEF IndInv
  <1>1. ASSUME NEW t \in Tasks, TakeIdle(t) PROVE PooledOnce'
    <2>2. CASE TookNone(t)
      BY <1>c, <2>2
      DEF PooledOnce, TookNone
    <2>3. CASE \E c \in Clients, n \in Nat \ {0}, e \in IdleEntry :
                 Popped(t, c, n, e)
      <3> PICK c \in Clients, n \in Nat \ {0}, e \in IdleEntry :
                 Popped(t, c, n, e)
        BY <2>3
      <3>1. n \in 1..Len(idle[c]) /\ e.conn # NoConn
        BY <1>a DEF Popped, IdleEntry
      <3>2. \A d \in Clients : \A i \in 1..Len(idle'[d]) :
              i \in 1..Len(idle[d]) /\ idle'[d][i] = idle[d][i]
        BY PoppedStacks
      <3> QED
        BY <1>c, <3>2, FewerPooled
    <2> QED
      BY <1>0, <1>1, <2>2, <2>3, TakeIdleEffect
  <1>2. ASSUME NEW t \in Tasks, Release(t) PROVE PooledOnce'
    <2>1. pc[t] = "release"
      BY <1>2 DEF Release, ReleaseIf
    <2>2. CASE NotPushed(t)
      BY <1>0, <1>c, <2>2
      DEF PooledOnce, NotPushed
    <2>3. CASE \E c \in Clients, n \in Nat, e \in IdleEntry :
                 Pushed(t, c, n, e)
      <3> PICK c \in Clients, n \in Nat, e \in IdleEntry : Pushed(t, c, n, e)
        BY <2>3
      <3>1. \A d \in Clients : \A i \in 1..Len(idle'[d]) :
              \/ i \in 1..Len(idle[d]) /\ idle'[d][i] = idle[d][i]
              \/ d = c /\ i = n + 1 /\ idle'[d][i].conn = held[t]
        BY DEF Pushed
      <3>2. \A d \in Clients : \A i \in 1..Len(idle[d]) :
              idle[d][i].conn # held[t]
        BY <1>c DEF HeldNotPooled
      <3> SUFFICES ASSUME NEW a \in Clients, NEW b \in Clients,
                          NEW i \in 1..Len(idle'[a]),
                          NEW j \in 1..Len(idle'[b]),
                          idle'[a][i].conn = idle'[b][j].conn
                   PROVE  a = b /\ i = j
        BY DEF PooledOnce
      <3>3. CASE /\ i \in 1..Len(idle[a]) /\ idle'[a][i] = idle[a][i]
                 /\ j \in 1..Len(idle[b]) /\ idle'[b][j] = idle[b][j]
        BY <1>c, <3>3 DEF PooledOnce
      <3> QED
        BY <3>1, <3>2, <3>3
    <2> QED
      BY <1>0, <1>2, <2>2, <2>3, ReleaseEffect
  <1>3. ASSUME NEW t \in Tasks, NEW k \in Conns, Dialed(t, k)
        PROVE  PooledOnce'
    BY <1>c, <1>3
    DEF PooledOnce, Dialed
  <1>4. ASSUME NEW t \in Tasks, LetGo(t) PROVE PooledOnce'
    BY <1>c, <1>4
    DEF PooledOnce, LetGo
  <1>5. ASSUME NEW c \in Clients, CloseSwap(c) PROVE PooledOnce'
    BY <1>c, <1>5
    DEF PooledOnce, CloseSwap
  <1>6. ASSUME NEW c \in Clients, CloseDrain(c) PROVE PooledOnce'
    <2>1. \A d \in Clients : \A i \in 1..Len(idle'[d]) :
            i \in 1..Len(idle[d]) /\ idle'[d][i] = idle[d][i]
      BY <1>0, <1>6 DEF CloseDrain, PoolTypes
    <2> QED
      BY <1>c, <2>1, FewerPooled
  <1>7. ASSUME NEW c \in Clients, NEW i \in 1..MaxIdle, Expire(c, i)
        PROVE  PooledOnce'
    BY <1>0, <1>c, <1>7, ExpireEffect DEF PooledOnce
  <1>8. ASSUME NEW k \in Conns, SpawnedRetired(k) PROVE PooledOnce'
    BY <1>c, <1>8
    DEF PooledOnce, SpawnedRetired
  <1>9. CASE UNCHANGED <<held, idle, phase, retiring>>
    BY <1>c, <1>9
    DEF PooledOnce
  <1> QED
    BY <1>0, <1>1, <1>2, <1>3, <1>4, <1>5, <1>6, <1>7, <1>8, <1>9, PlaceSteps

\* What a task holds is not in a pool.
LEMMA StepHeldNotPooled == IndInv /\ [Next]_vars => HeldNotPooled'
  <1> SUFFICES ASSUME IndInv, [Next]_vars PROVE HeldNotPooled'
    OBVIOUS
  <1> USE DEF taskVars, permitVars, connVars
  <1>a. /\ MaxIdle \in Nat /\ MaxUses \in Nat /\ MaxUses >= 1
        /\ MaxGen \in Nat /\ NoConn \notin Conns
    BY PoolAssumption
  <1>0. TaskTypes /\ PoolTypes /\ Ownership /\ UsesCounted
    BY DEF IndInv, TypeOK
  <1>c. HeldOnce /\ PooledOnce /\ HeldNotPooled /\ RetiringApart
    BY DEF IndInv
  <1>n. \A c \in Clients : \A i \in 1..Len(idle[c]) :
          idle[c][i].conn # NoConn
    BY <1>a, <1>0, PooledEntry
  <1>1. ASSUME NEW t \in Tasks, TakeIdle(t) PROVE HeldNotPooled'
    <2>2. CASE TookNone(t)
      BY <1>c, <2>2
      DEF HeldNotPooled, TookNone
    <2>3. CASE \E c \in Clients, n \in Nat \ {0}, e \in IdleEntry :
                 Popped(t, c, n, e)
      <3> PICK c \in Clients, n \in Nat \ {0}, e \in IdleEntry :
                 Popped(t, c, n, e)
        BY <2>3
      <3>1. n \in 1..Len(idle[c]) /\ e.conn # NoConn
        BY <1>a DEF Popped, IdleEntry
      <3>2. \A d \in Clients : \A i \in 1..Len(idle'[d]) :
              /\ i \in 1..Len(idle[d]) /\ idle'[d][i] = idle[d][i]
              /\ d = c => i # n
        BY PoppedStacks
      <3>3. \A d \in Clients : \A i \in 1..Len(idle'[d]) :
              idle'[d][i].conn # e.conn
        <4>1. e = idle[c][n]
          BY DEF Popped
        <4> QED
          BY <1>c, <3>1, <3>2, <4>1 DEF PooledOnce
      <3>4. \A u \in Tasks : held'[u] \in {held[u], e.conn}
        BY <1>0 DEF TaskTypes, Popped
      <3>5. ASSUME NEW u \in Tasks, NEW d \in Clients,
                   NEW i \in 1..Len(idle'[d])
            PROVE  idle'[d][i].conn # held'[u]
        BY <1>c, <3>2, <3>3, <3>4 DEF HeldNotPooled
      <3> QED
        BY <3>5 DEF HeldNotPooled
    <2> QED
      BY <1>0, <1>1, <2>2, <2>3, TakeIdleEffect
  <1>2. ASSUME NEW t \in Tasks, Release(t) PROVE HeldNotPooled'
    <2>1. pc[t] = "release"
      BY <1>2 DEF Release, ReleaseIf
    <2>2. CASE NotPushed(t)
      BY <1>0, <1>c, <2>2
      DEF HeldNotPooled, NotPushed
    <2>3. CASE \E c \in Clients, n \in Nat, e \in IdleEntry :
                 Pushed(t, c, n, e)
      <3> PICK c \in Clients, n \in Nat, e \in IdleEntry : Pushed(t, c, n, e)
        BY <2>3
      <3>1. \A d \in Clients : \A i \in 1..Len(idle'[d]) :
              \/ i \in 1..Len(idle[d]) /\ idle'[d][i] = idle[d][i]
              \/ idle'[d][i].conn = held[t]
        BY DEF Pushed
      <3>2. held[t] # NoConn
        BY <1>0, <2>1 DEF Ownership, Owning
      <3>3. \A u \in Tasks : held'[u] = IF u = t THEN NoConn ELSE held[u]
        BY <1>0 DEF Pushed, Finished, TaskTypes
      <3>4. \A d \in Clients : \A i \in 1..Len(idle'[d]) :
              idle'[d][i].conn # NoConn
        BY <1>0, <1>a, <3>1, <3>2, PooledEntry
      <3>5. \A u \in Tasks : u # t => held[u] # held[t]
        BY <1>c, <3>2 DEF HeldOnce
      <3> QED
        BY <1>c, <3>1, <3>3, <3>4, <3>5 DEF HeldNotPooled
    <2> QED
      BY <1>0, <1>2, <2>2, <2>3, ReleaseEffect
  <1>3. ASSUME NEW t \in Tasks, NEW k \in Conns, Dialed(t, k)
        PROVE  HeldNotPooled'
    <2>1. \A c \in Clients : \A i \in 1..Len(idle[c]) : idle[c][i].conn # k
      BY <1>a, <1>3, NotInUse DEF Dialed
    <2> QED
      BY <1>0, <1>c, <1>3, <2>1 DEF HeldNotPooled, TaskTypes, Dialed
  <1>4. ASSUME NEW t \in Tasks, LetGo(t) PROVE HeldNotPooled'
    <2>1. \A u \in Tasks : held'[u] \in {held[u], NoConn}
      BY <1>0, <1>4 DEF TaskTypes, LetGo
    <2> QED
      BY <1>c, <1>n, <1>4, <2>1 DEF HeldNotPooled, LetGo
  <1>5. ASSUME NEW c \in Clients, CloseSwap(c) PROVE HeldNotPooled'
    BY <1>0, <1>c, <1>5
    DEF HeldNotPooled, TaskTypes, CloseSwap
  <1>6. ASSUME NEW c \in Clients, CloseDrain(c) PROVE HeldNotPooled'
    <2>1. \A d \in Clients : \A i \in 1..Len(idle'[d]) :
            i \in 1..Len(idle[d]) /\ idle'[d][i] = idle[d][i]
      BY <1>0, <1>6 DEF CloseDrain, PoolTypes
    <2> QED
      BY <1>c, <1>6, <2>1 DEF HeldNotPooled, CloseDrain
  <1>7. ASSUME NEW c \in Clients, NEW i \in 1..MaxIdle, Expire(c, i)
        PROVE  HeldNotPooled'
    <2>1. UNCHANGED held
      BY <1>7 DEF Expire
    <2> QED
      BY <1>0, <1>c, <1>7, <2>1, ExpireEffect DEF HeldNotPooled
  <1>8. ASSUME NEW k \in Conns, SpawnedRetired(k) PROVE HeldNotPooled'
    BY <1>0, <1>c, <1>8
    DEF HeldNotPooled, TaskTypes, SpawnedRetired
  <1>9. CASE UNCHANGED <<held, idle, phase, retiring>>
    BY <1>0, <1>c, <1>9
    DEF HeldNotPooled, TaskTypes
  <1> QED
    BY <1>0, <1>1, <1>2, <1>3, <1>4, <1>5, <1>6, <1>7, <1>8, <1>9, PlaceSteps

\* What close() retires is neither held nor pooled.
LEMMA StepRetiringApart == IndInv /\ [Next]_vars => RetiringApart'
  <1> SUFFICES ASSUME IndInv, [Next]_vars PROVE RetiringApart'
    OBVIOUS
  <1> USE DEF taskVars, permitVars, connVars
  <1>a. /\ MaxIdle \in Nat /\ MaxUses \in Nat /\ MaxUses >= 1
        /\ MaxGen \in Nat /\ NoConn \notin Conns
    BY PoolAssumption
  <1>0. TaskTypes /\ PoolTypes /\ Ownership /\ UsesCounted
    BY DEF IndInv, TypeOK
  <1>c. HeldOnce /\ PooledOnce /\ HeldNotPooled /\ RetiringApart
    BY DEF IndInv
  <1>n. NoConn \notin retiring
    BY <1>a, <1>0 DEF PoolTypes
  <1>1. ASSUME NEW t \in Tasks, TakeIdle(t) PROVE RetiringApart'
    <2>1. UNCHANGED retiring
      BY <1>1 DEF TakeIdle
    <2>2. CASE TookNone(t)
      BY <1>c, <2>1, <2>2
      DEF RetiringApart, TookNone
    <2>3. CASE \E c \in Clients, n \in Nat \ {0}, e \in IdleEntry :
                 Popped(t, c, n, e)
      <3> PICK c \in Clients, n \in Nat \ {0}, e \in IdleEntry :
                 Popped(t, c, n, e)
        BY <2>3
      <3>1. n \in 1..Len(idle[c]) /\ e.conn # NoConn
        BY <1>a DEF Popped, IdleEntry
      <3>2. \A d \in Clients : \A i \in 1..Len(idle'[d]) :
              i \in 1..Len(idle[d]) /\ idle'[d][i] = idle[d][i]
        BY PoppedStacks
      <3>3. e.conn \notin retiring
        BY <1>c, <3>1 DEF RetiringApart, Popped
      <3> QED
        BY <1>0, <1>c, <2>1, <3>2, <3>3 DEF RetiringApart, TaskTypes, Popped
    <2> QED
      BY <1>0, <1>1, <2>2, <2>3, TakeIdleEffect
  <1>2. ASSUME NEW t \in Tasks, Release(t) PROVE RetiringApart'
    <2>1. UNCHANGED retiring
      BY <1>2 DEF Release, ReleaseIf
    <2>2. CASE NotPushed(t)
      BY <1>0, <1>c, <2>1, <2>2
      DEF RetiringApart, NotPushed
    <2>3. CASE \E c \in Clients, n \in Nat, e \in IdleEntry :
                 Pushed(t, c, n, e)
      <3> PICK c \in Clients, n \in Nat, e \in IdleEntry : Pushed(t, c, n, e)
        BY <2>3
      <3>1. \A d \in Clients : \A i \in 1..Len(idle'[d]) :
              \/ i \in 1..Len(idle[d]) /\ idle'[d][i] = idle[d][i]
              \/ idle'[d][i].conn = held[t]
        BY DEF Pushed
      <3>2. \A u \in Tasks : held'[u] \in {held[u], NoConn}
        BY <1>0 DEF Pushed, Finished, TaskTypes
      <3> QED
        BY <1>c, <1>n, <2>1, <3>1, <3>2 DEF RetiringApart
    <2> QED
      BY <1>0, <1>2, <2>2, <2>3, ReleaseEffect
  <1>3. ASSUME NEW t \in Tasks, NEW k \in Conns, Dialed(t, k)
        PROVE  RetiringApart'
    <2>1. k \notin retiring
      BY <1>a, <1>3, NotInUse DEF Dialed
    <2> QED
      BY <1>0, <1>c, <1>3, <2>1 DEF RetiringApart, TaskTypes, Dialed
  <1>4. ASSUME NEW t \in Tasks, LetGo(t) PROVE RetiringApart'
    <2>1. \A u \in Tasks : held'[u] \in {held[u], NoConn}
      BY <1>0, <1>4 DEF TaskTypes, LetGo
    <2> QED
      BY <1>c, <1>n, <1>4, <2>1 DEF RetiringApart, LetGo
  <1>5. ASSUME NEW c \in Clients, CloseSwap(c) PROVE RetiringApart'
    BY <1>0, <1>c, <1>5
    DEF RetiringApart, TaskTypes, CloseSwap
  <1>6. ASSUME NEW c \in Clients, CloseDrain(c) PROVE RetiringApart'
    <2>1. \A d \in Clients : \A i \in 1..Len(idle'[d]) :
            /\ i \in 1..Len(idle[d]) /\ idle'[d][i] = idle[d][i]
            /\ d # c
      BY <1>0, <1>6 DEF CloseDrain, PoolTypes
    <2>2. \A d \in Clients : \A i \in 1..Len(idle'[d]) :
            idle'[d][i].conn \notin IdleConns(c)
      BY <1>c, <2>1 DEF PooledOnce, IdleConns
    <2>3. \A t \in Tasks : held[t] \notin IdleConns(c)
      BY <1>c DEF HeldNotPooled, IdleConns
    <2> QED
      BY <1>c, <1>6, <2>1, <2>2, <2>3 DEF RetiringApart, CloseDrain
  <1>7. ASSUME NEW c \in Clients, NEW i \in 1..MaxIdle, Expire(c, i)
        PROVE  RetiringApart'
    <2>1. UNCHANGED <<held, retiring>>
      BY <1>7 DEF Expire
    <2> QED
      BY <1>0, <1>c, <1>7, <2>1, ExpireEffect DEF RetiringApart
  <1>8. ASSUME NEW k \in Conns, SpawnedRetired(k) PROVE RetiringApart'
    BY <1>0, <1>c, <1>8
    DEF RetiringApart, TaskTypes, SpawnedRetired
  <1>9. CASE UNCHANGED <<held, idle, phase, retiring>>
    BY <1>0, <1>c, <1>9
    DEF RetiringApart, TaskTypes
  <1> QED
    BY <1>0, <1>1, <1>2, <1>3, <1>4, <1>5, <1>6, <1>7, <1>8, <1>9, PlaceSteps

-----------------------------------------------------------------------------
(* The theorem *)

\* Clients start with empty pools and every permit free.
LEMMA InitInv == Init => IndInv
  <1> SUFFICES ASSUME Init PROVE IndInv
    OBVIOUS
  <1>a. /\ MaxIdle \in Nat /\ MaxUses \in Nat /\ MaxUses >= 1
        /\ MaxGen \in Nat /\ NoConn \notin Conns
        /\ NodeDials \in Nat /\ GlobalDials \in Nat
    BY PoolAssumption
  <1>1. TaskTypes /\ Ownership /\ UsesCounted
    BY <1>a DEF Init, TaskTypes, Ownership, UsesCounted, PcStates, Owning
  <1>2. FlagTypes
    BY DEF Init, FlagTypes
  <1>3. PoolTypes
    BY <1>a DEF Init, PoolTypes, PeerStates
  <1>4. PoolWithinLimits /\ ClosedPoolEmpty
    BY <1>a DEF Init, PoolWithinLimits, ClosedPoolEmpty
  <1>5. GenerationsFollow
    BY DEF Init, GenerationsFollow
  <1>6. HeldOnce /\ PooledOnce /\ HeldNotPooled /\ RetiringApart
    BY DEF Init, HeldOnce, PooledOnce, HeldNotPooled, RetiringApart
  <1> QED
    BY <1>1, <1>2, <1>3, <1>4, <1>5, <1>6 DEF IndInv, TypeOK

\* The places, taken together, are what the pool promises.
LEMMA InvImpliesSafety ==
    IndInv => /\ TypeOK
              /\ NoConnectionShared
              /\ PoolWithinLimits
              /\ ClosedPoolEmpty
              /\ SessionOnCurrentNetwork
  <1> SUFFICES ASSUME IndInv
               PROVE  NoConnectionShared /\ SessionOnCurrentNetwork
    BY DEF IndInv
  <1>1. HeldOnce /\ PooledOnce /\ HeldNotPooled /\ RetiringApart
    BY DEF IndInv
  <1>2. \A c \in Clients : IdleConns(c) \cap (retiring \cup HeldConns) = {}
    BY <1>1 DEF HeldNotPooled, RetiringApart, IdleConns, HeldConns
  <1>3. retiring \cap HeldConns = {}
    BY <1>1 DEF RetiringApart, HeldConns
  <1>4. NoConnectionShared
    BY <1>1, <1>2, <1>3 DEF HeldOnce, PooledOnce, NoConnectionShared
  <1>5. SessionOnCurrentNetwork
    BY DEF IndInv, GenerationsFollow, SessionOnCurrentNetwork
  <1> QED
    BY <1>4, <1>5

\* For any number of tasks, clients, connections and permits, any pool limits
\* and any number of network changes: client.rs never hands one physical
\* connection to two sessions, never lets a pool exceed reuse-max-idle or a
\* connection reuse-max-uses, never puts a connection into a pool that close()
\* has drained, and never runs a session on a network that was gone when the
\* request began.
THEOREM PoolSafe ==
    Spec => [](/\ TypeOK
               /\ NoConnectionShared
               /\ PoolWithinLimits
               /\ ClosedPoolEmpty
               /\ SessionOnCurrentNetwork)
  <1>1. Init => IndInv
    BY InitInv
  <1>2. IndInv /\ [Next]_vars => IndInv'
    BY StepTaskTypes, StepFlagTypes, StepPoolTypes, StepOwnership, StepUses,
       StepLimits, StepClosed, StepGenerations, StepHeldOnce, StepPooledOnce,
       StepHeldNotPooled, StepRetiringApart
    DEF IndInv, TypeOK
  <1>3. IndInv => /\ TypeOK
                  /\ NoConnectionShared
                  /\ PoolWithinLimits
                  /\ ClosedPoolEmpty
                  /\ SessionOnCurrentNetwork
    BY InvImpliesSafety
  <1> QED
    BY <1>1, <1>2, <1>3, PTL DEF Spec

\* The pool of every client stays within reuse-max-idle and reuse-max-uses, and
\* is empty once close() has drained it.
THEOREM PoolStaysBounded == Spec => []PoolBounded
  <1>1. PoolWithinLimits /\ ClosedPoolEmpty => PoolBounded
    BY DEF PoolBounded
  <1> QED
    BY <1>1, PoolSafe, PTL

\* A session never runs on a network that was gone when its request began,
\* though the generation is read before the pool is and before the dial.
THEOREM SessionsFollowNetwork == Spec => []SessionOnCurrentNetwork
  BY PoolSafe, PTL

-----------------------------------------------------------------------------
(* Dial permits *)

\* The tasks that hold a permit of the global semaphore, and of client c's.
GlobalHolders == {t \in Tasks : pc[t] \in HoldsGlobal}
NodeHolders(c) == {t \in Tasks : pc[t] \in HoldsNode /\ route[t] = c}

\* What a step does to the permits: nothing, or task t takes or gives back
\* its node permit, the global one, or both.
PermitsQuiet ==
    /\ UNCHANGED permitVars
    /\ GlobalHolders' = GlobalHolders
    /\ \A c \in Clients : NodeHolders(c)' = NodeHolders(c)

TakesNode(t) ==
    /\ t \notin NodeHolders(route[t])
    /\ nodeFree[route[t]] > 0
    /\ nodeFree' = [nodeFree EXCEPT ![route[t]] = @ - 1]
    /\ \A c \in Clients : NodeHolders(c)' = NodeHolders(c) \cup (IF c = route[t] THEN {t} ELSE {})
    /\ UNCHANGED globalFree
    /\ GlobalHolders' = GlobalHolders

TakesGlobal(t) ==
    /\ t \notin GlobalHolders
    /\ globalFree > 0
    /\ globalFree' = globalFree - 1
    /\ GlobalHolders' = GlobalHolders \cup {t}
    /\ UNCHANGED nodeFree
    /\ \A c \in Clients : NodeHolders(c)' = NodeHolders(c)

GivesNode(t) ==
    /\ t \in NodeHolders(route[t])
    /\ nodeFree' = [nodeFree EXCEPT ![route[t]] = @ + 1]
    /\ \A c \in Clients : NodeHolders(c)' = NodeHolders(c) \ (IF c = route[t] THEN {t} ELSE {})

GivesGlobal(t) ==
    /\ t \in GlobalHolders
    /\ globalFree' = globalFree + 1
    /\ GlobalHolders' = GlobalHolders \ {t}

PermitStep ==
    \/ PermitsQuiet
    \/ \E t \in Tasks : \/ TakesNode(t)
                        \/ TakesGlobal(t)
                        \/ GivesNode(t) /\ UNCHANGED globalFree /\ GlobalHolders' = GlobalHolders
                        \/ GivesNode(t) /\ GivesGlobal(t)

\* Every step of open_command, and of any other part of client.rs, takes or
\* gives back the permits that the step of the task says.
LEMMA PermitEffect == TypeOK /\ [Next]_vars => PermitStep
<1> SUFFICES ASSUME TypeOK, [Next]_vars PROVE PermitStep
  OBVIOUS
<1> USE DEF taskVars, permitVars, connVars, GlobalHolders, NodeHolders, HoldsGlobal, HoldsNode
<1>0. pc \in [Tasks -> PcStates] /\ route \in [Tasks -> Clients]
  BY DEF TypeOK, TaskTypes
<1>p. nodeFree \in [Clients -> Nat] /\ globalFree \in Nat
  BY DEF TypeOK, PoolTypes
<1>q. ASSUME UNCHANGED permitVars, NEW t \in Tasks,
             \E l \in PcStates : pc' = [pc EXCEPT ![t] = l],
             pc[t] \notin HoldsNode, pc'[t] \notin HoldsNode,
             \A u \in Tasks : u # t => route'[u] = route[u]
      PROVE  PermitsQuiet
  BY <1>0, <1>q DEF PermitsQuiet
<1>r. ASSUME UNCHANGED permitVars, NEW t \in Tasks,
             \E l \in PcStates : pc' = [pc EXCEPT ![t] = l],
             pc[t] \in HoldsGlobal, pc'[t] \in HoldsGlobal,
             UNCHANGED route
      PROVE  PermitsQuiet
  BY <1>0, <1>r DEF PermitsQuiet
<1>1. ASSUME NEW t \in Tasks, NEW c \in Clients, DialTcp(t, c) \/ DialUdp(t, c)
      PROVE  PermitsQuiet
  <2>1. UNCHANGED permitVars /\ route' = [route EXCEPT ![t] = c] /\ pc[t] = "start"
    BY <1>1 DEF DialTcp, DialUdp
  <2>2. \E l \in {"generation", "node"} : pc' = [pc EXCEPT ![t] = l]
    BY <1>1 DEF DialTcp, DialUdp, Goto
  <2> QED
    BY <1>0, <1>q, <2>1, <2>2 DEF PcStates
<1>2. ASSUME NEW t \in Tasks,
             \/ ReadGeneration(t) \/ TakeIdle(t) \/ StartReuse(t) \/ StartReuseFails(t)
             \/ Discarded(t) \/ FinishRetire(t) \/ DropSession(t) \/ FinishClean(t)
             \/ Release(t) \/ Retired(t) \/ FinishUdp(t) \/ UdpClosed(t)
      PROVE  PermitsQuiet
  <2>1. UNCHANGED permitVars /\ UNCHANGED route
    BY <1>2 DEF ReadGeneration, TakeIdle, StartReuse, StartReuseFails, Discarded,
       FinishRetire, DropSession, FinishClean, Release, ReleaseIf, Retired, FinishUdp,
       UdpClosed, Finished
  <2>2. pc[t] \in {"generation", "take", "reuse", "discard", "session", "release", "retire",
                   "closeUdp"}
    BY <1>2 DEF ReadGeneration, TakeIdle, StartReuse, StartReuseFails, Discarded,
       FinishRetire, DropSession, FinishClean, Release, ReleaseIf, Retired, FinishUdp,
       UdpClosed
  <2>3. \E l \in {"take", "node", "reuse", "discard", "session", "retire", "start", "release",
                  "closeUdp"} : pc' = [pc EXCEPT ![t] = l]
    <3>1. CASE TakeIdle(t)
      BY <3>1 DEF TakeIdle, Goto
    <3>2. CASE ReadGeneration(t) \/ StartReuse(t) \/ StartReuseFails(t) \/ Discarded(t)
      BY <3>2 DEF ReadGeneration, StartReuse, StartReuseFails, Discarded, Goto
    <3>3. CASE FinishRetire(t) \/ FinishClean(t) \/ FinishUdp(t)
      BY <3>3 DEF FinishRetire, FinishClean, FinishUdp, Goto
    <3>4. CASE Release(t)
      BY <3>4 DEF Release, ReleaseIf, Finished, Goto
    <3>5. CASE DropSession(t) \/ Retired(t) \/ UdpClosed(t)
      BY <3>5 DEF DropSession, Retired, UdpClosed, Finished, Goto
    <3> QED
      BY <1>2, <3>1, <3>2, <3>3, <3>4, <3>5
  <2> QED
    BY <1>0, <1>q, <2>1, <2>2, <2>3 DEF PcStates
<1>3. ASSUME NEW t \in Tasks, DialSnapshot(t) \/ \E k \in Conns : Dialed(t, k)
      PROVE  PermitsQuiet
  <2>1. UNCHANGED permitVars /\ UNCHANGED route /\ pc[t] \in HoldsGlobal
    BY <1>3 DEF DialSnapshot, Dialed
  <2>2. \E l \in {"dialing", "flight"} : pc' = [pc EXCEPT ![t] = l]
    BY <1>3 DEF DialSnapshot, Dialed, Goto
  <2> QED
    BY <1>0, <1>r, <2>1, <2>2 DEF PcStates
<1>4. ASSUME NEW t \in Tasks, AcquireNode(t) PROVE TakesNode(t)
  BY <1>0, <1>4 DEF AcquireNode, TakesNode, Goto
<1>5. ASSUME NEW t \in Tasks, AcquireGlobal(t) PROVE TakesGlobal(t)
  BY <1>0, <1>5 DEF AcquireGlobal, TakesGlobal, Goto
<1>6. ASSUME NEW t \in Tasks, PermitTimeout(t) PROVE PermitStep
  <2>0. UNCHANGED route /\ UNCHANGED globalFree /\ pc' = [pc EXCEPT ![t] = "start"]
    BY <1>6 DEF PermitTimeout, Finished, Goto
  <2>1. CASE pc[t] = "node"
    <3>1. nodeFree' = [nodeFree EXCEPT ![route[t]] = @]
      BY <1>6, <2>1 DEF PermitTimeout
    <3>2. nodeFree' = nodeFree
      BY <1>0, <1>p, <3>1
    <3> QED
      BY <1>0, <1>q, <2>0, <2>1, <3>2 DEF PcStates, PermitStep
  <2>2. CASE pc[t] = "global"
    <3>1. nodeFree' = [nodeFree EXCEPT ![route[t]] = @ + 1]
      BY <1>6, <2>2 DEF PermitTimeout
    <3>2. GivesNode(t)
      BY <1>0, <2>0, <2>2, <3>1 DEF GivesNode
    <3>3. GlobalHolders' = GlobalHolders
      BY <1>0, <2>0, <2>2
    <3> QED
      BY <2>0, <3>2, <3>3 DEF PermitStep
  <2> QED
    BY <1>6, <2>1, <2>2 DEF PermitTimeout
<1>7. ASSUME NEW t \in Tasks, DialFails(t) \/ OpenDone(t)
      PROVE  GivesNode(t) /\ GivesGlobal(t)
  <2>1. UNCHANGED route /\ ReleasePermits(t) /\ pc[t] \in {"dialing", "flight"}
    BY <1>7 DEF DialFails, OpenDone, Finished
  <2>2. \E l \in {"start", "session"} : pc' = [pc EXCEPT ![t] = l]
    BY <1>7 DEF DialFails, OpenDone, Finished, Goto
  <2>3. GivesNode(t)
    BY <1>0, <2>1, <2>2 DEF ReleasePermits, GivesNode
  <2>4. GivesGlobal(t)
    BY <1>0, <2>1, <2>2 DEF ReleasePermits, GivesGlobal
  <2> QED
    BY <2>3, <2>4
<1>8. ASSUME \/ \E c \in Clients : \/ CloseSwap(c) \/ CloseDrain(c)
                                   \/ \E i \in 1..MaxIdle : Expire(c, i)
             \/ \E k \in Conns : SpawnedRetired(k) \/ ServerInput(k) \/ ServerStalls(k)
             \/ NetworkChanges \/ UNCHANGED vars
      PROVE  PermitsQuiet
  <2>1. UNCHANGED <<pc, route, nodeFree, globalFree>>
    BY <1>8 DEF CloseSwap, CloseDrain, Expire, SpawnedRetired, ServerInput, ServerStalls,
       NetworkChanges, vars
  <2> QED
    BY <2>1 DEF PermitsQuiet
<1> QED
  BY <1>1, <1>2, <1>3, <1>4, <1>5, <1>6, <1>7, <1>8 DEF PermitStep, Next, TaskStep

\* The counts follow the sets of holders.
LEMMA PermitCounts == TypeOK /\ PermitsConserved /\ PermitStep => PermitsConserved'
<1> SUFFICES ASSUME TypeOK, PermitsConserved, PermitStep PROVE PermitsConserved'
  OBVIOUS
<1>0. route \in [Tasks -> Clients] /\ nodeFree \in [Clients -> Nat] /\ globalFree \in Nat
  BY DEF TypeOK, TaskTypes, PoolTypes
<1>f. /\ IsFiniteSet(GlobalHolders) /\ Cardinality(GlobalHolders) \in Nat
      /\ \A c \in Clients : IsFiniteSet(NodeHolders(c)) /\ Cardinality(NodeHolders(c)) \in Nat
  BY PoolAssumption, FS_Subset, FS_CardinalityType DEF GlobalHolders, NodeHolders
<1>a. GlobalDials \in Nat /\ NodeDials \in Nat
  BY PoolAssumption
<1>s. PermitsConserved <=> /\ globalFree + Cardinality(GlobalHolders) = GlobalDials
                           /\ \A c \in Clients :
                                nodeFree[c] + Cardinality(NodeHolders(c)) = NodeDials
  BY DEF PermitsConserved, GlobalHolders, NodeHolders
<1>t. PermitsConserved' <=> /\ globalFree' + Cardinality(GlobalHolders') = GlobalDials
                            /\ \A c \in Clients :
                                 nodeFree'[c] + Cardinality(NodeHolders(c)') = NodeDials
  BY DEF PermitsConserved, GlobalHolders, NodeHolders
<1>1. CASE PermitsQuiet
  BY <1>1, <1>s, <1>t DEF PermitsQuiet, permitVars
<1>2. ASSUME NEW t \in Tasks, TakesNode(t) PROVE PermitsConserved'
  <2>1. ASSUME NEW c \in Clients
        PROVE  nodeFree'[c] + Cardinality(NodeHolders(c)') = NodeDials
    <3>1. CASE c = route[t]
      <4>1. nodeFree'[c] = nodeFree[c] - 1
        BY <1>0, <1>2, <3>1 DEF TakesNode
      <4>2. NodeHolders(c)' = NodeHolders(c) \cup {t} /\ t \notin NodeHolders(c)
        BY <1>2, <3>1 DEF TakesNode
      <4>3. Cardinality(NodeHolders(c)') = Cardinality(NodeHolders(c)) + 1
        BY <1>f, <4>2, FS_AddElement
      <4> QED
        BY <1>0, <1>a, <1>f, <1>s, <4>1, <4>3
    <3>2. CASE c # route[t]
      <4>1. nodeFree'[c] = nodeFree[c]
        BY <1>0, <1>2, <3>2 DEF TakesNode
      <4>2. NodeHolders(c)' = NodeHolders(c)
        BY <1>2, <3>2 DEF TakesNode
      <4> QED
        BY <1>s, <4>1, <4>2
    <3> QED
      BY <3>1, <3>2
  <2>2. globalFree' + Cardinality(GlobalHolders') = GlobalDials
    BY <1>2, <1>s DEF TakesNode
  <2> QED
    BY <1>t, <2>1, <2>2
<1>3. ASSUME NEW t \in Tasks, TakesGlobal(t) PROVE PermitsConserved'
  <2>1. Cardinality(GlobalHolders') = Cardinality(GlobalHolders) + 1
    BY <1>3, <1>f, FS_AddElement DEF TakesGlobal
  <2>2. globalFree' + Cardinality(GlobalHolders') = GlobalDials
    BY <1>0, <1>a, <1>f, <1>s, <1>3, <2>1 DEF TakesGlobal
  <2> QED
    BY <1>s, <1>t, <1>3, <2>2 DEF TakesGlobal
<1>4. ASSUME NEW t \in Tasks, GivesNode(t), NEW c \in Clients
      PROVE  nodeFree'[c] + Cardinality(NodeHolders(c)') = NodeDials
  <2>1. CASE c = route[t]
    <3>1. nodeFree'[c] = nodeFree[c] + 1
      BY <1>0, <1>4, <2>1 DEF GivesNode
    <3>2. NodeHolders(c)' = NodeHolders(c) \ {t} /\ t \in NodeHolders(c)
      BY <1>4, <2>1 DEF GivesNode
    <3>3. Cardinality(NodeHolders(c)') = Cardinality(NodeHolders(c)) - 1
      BY <1>f, <3>2, FS_RemoveElement
    <3> QED
      BY <1>0, <1>a, <1>f, <1>s, <3>1, <3>3
  <2>2. CASE c # route[t]
    <3>1. nodeFree'[c] = nodeFree[c]
      BY <1>0, <1>4, <2>2 DEF GivesNode
    <3>2. NodeHolders(c)' = NodeHolders(c)
      BY <1>4, <2>2 DEF GivesNode
    <3> QED
      BY <1>s, <3>1, <3>2
  <2> QED
    BY <2>1, <2>2
<1>5. ASSUME NEW t \in Tasks, GivesGlobal(t)
      PROVE  globalFree' + Cardinality(GlobalHolders') = GlobalDials
  <2>1. Cardinality(GlobalHolders') = Cardinality(GlobalHolders) - 1
    BY <1>5, <1>f, FS_RemoveElement DEF GivesGlobal
  <2> QED
    BY <1>0, <1>a, <1>f, <1>s, <1>5, <2>1 DEF GivesGlobal
<1>6. ASSUME NEW t \in Tasks, GivesNode(t), UNCHANGED globalFree, GlobalHolders' = GlobalHolders
      PROVE  PermitsConserved'
  BY <1>4, <1>6, <1>s, <1>t
<1>7. ASSUME NEW t \in Tasks, GivesNode(t), GivesGlobal(t) PROVE PermitsConserved'
  BY <1>4, <1>5, <1>7, <1>t
<1> QED
  BY <1>1, <1>2, <1>3, <1>6, <1>7 DEF PermitStep

\* All permits are free at first.
LEMMA PermitsInit == Init => PermitsConserved
<1> SUFFICES ASSUME Init PROVE PermitsConserved
  OBVIOUS
<1>1. GlobalHolders = {} /\ \A c \in Clients : NodeHolders(c) = {}
  BY DEF Init, GlobalHolders, NodeHolders, HoldsGlobal, HoldsNode
<1>2. Cardinality({}) = 0
  BY FS_EmptySet
<1>3. globalFree = GlobalDials /\ \A c \in Clients : nodeFree[c] = NodeDials
  BY DEF Init
<1>4. GlobalDials + 0 = GlobalDials /\ NodeDials + 0 = NodeDials
  BY PoolAssumption
<1> QED
  BY <1>1, <1>2, <1>3, <1>4, Zenon DEF PermitsConserved, GlobalHolders, NodeHolders

\* For any tasks, clients and numbers of permits: on every path through
\* open_command, its timeouts and its failures included, a dial permit that is
\* not free is held by exactly one task on its way to a session.
THEOREM PermitsNeverLost == Spec => []PermitsConserved
  <1>1. TypeOK /\ PermitsConserved /\ [Next]_vars => PermitsConserved'
    BY PermitEffect, PermitCounts
  <1> QED
    BY <1>1, PermitsInit, PoolSafe, PTL DEF Spec
==============================================================================
