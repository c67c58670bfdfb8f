------------------------------ MODULE SnellPool ------------------------------
(***************************************************************************)
(* The connection pool of src/src/snell/client.rs: SnellClient, its stack  *)
(* of idle physical connections, the two dial semaphores, and the life of  *)
(* a physical connection from dial to retirement.                          *)
(*                                                                         *)
(* A task is a proxied client connection; it issues one dial_tcp or        *)
(* dial_udp at a time.  Every await of the code is a step boundary.  The   *)
(* `idle` mutex is only ever held across statements without an await       *)
(* (pop, push, mem::take), so each critical section is one atomic action.  *)
(* Time is abstracted: any timeout may fire whenever its wait is pending,  *)
(* and an idle entry may pass reuse-idle-timeout at any moment.  What the  *)
(* records on a connection carry is the subject of SnellSession.           *)
(***************************************************************************)
EXTENDS Integers, Sequences, FiniteSets

CONSTANTS
    Tasks,        \* proxied connections that may use the pools concurrently
    Clients,      \* SnellClient objects: one per node, plus replaced ones
    Conns,        \* identities of physical connections, recycled when freed
    Reusing,      \* the clients whose options.reuse is set
    MaxIdle,      \* options.max_idle
    MaxUses,      \* options.max_uses
    NodeDials,    \* permits of node_dial_limit, one semaphore per client
    GlobalDials,  \* permits of options.dial_limit, shared by all clients
    MaxGen,       \* bound: network changes in one behaviour
    NoConn        \* a task that holds no physical connection

ASSUME PoolAssumption ==
    /\ IsFiniteSet(Tasks)
    /\ Reusing \subseteq Clients
    /\ MaxIdle \in Nat \ {0}
    /\ MaxUses \in Nat \ {0}
    /\ NodeDials \in Nat \ {0}
    /\ GlobalDials \in Nat \ {0}
    /\ MaxGen \in Nat
    /\ NoConn \notin Conns

VARIABLES
    pc,         \* where each task is inside dial / session / finish
    route,      \* the client each task dials through (Route.client)
    udp,        \* the request is a dial_udp, its session a SnellPacketSession
    reusable,   \* SnellSession.reusable of the task's request
    started,    \* network generation when the request began (history)
    generation, \* what dialer.network_generation() or the dial returned
    held,       \* the physical connection a task owns
    uses,       \* SnellSession.uses / IdleConnection.uses while held
    idle,       \* ClientInner.idle, a stack: the last entry is popped first
    phase,      \* close(): "open", "closing" (flag swapped), "closed"
    nodeFree,   \* available permits of each node_dial_limit
    globalFree, \* available permits of the shared dial_limit
    connGen,    \* PhysicalConnection.network_generation
    peer,       \* what the server does on a connection, one of PeerStates
    retiring,   \* connections in retire(), off the pool and off any session
    netGen      \* NetworkMonitor generation

taskVars == <<pc, route, udp, reusable, started, generation, held, uses>>
permitVars == <<nodeFree, globalFree>>
connVars == <<connGen, peer, retiring>>
vars == <<taskVars, idle, phase, permitVars, connVars, netGen>>

-----------------------------------------------------------------------------
PcStates == {"start", "generation", "take", "reuse", "discard", "node",
             "global", "permitted", "dialing", "flight", "session",
             "release", "retire", "closeUdp"}

\* "input": bytes, EOF or a reset from the server are readable; "stuck": it
\* has stopped reading and no write goes through any more.
PeerStates == {"quiet", "input", "stuck"}

\* Steps at which a task owns a physical connection.
Owning == {"reuse", "discard", "flight", "session", "release", "retire",
           "closeUdp"}

\* Steps of open_command at which `_permits` hold a permit of the node
\* semaphore, and of the global one (acquired second).
HoldsNode == {"global", "permitted", "dialing", "flight"}
HoldsGlobal == {"permitted", "dialing", "flight"}

IdleEntry == [conn : Conns, uses : 1..MaxUses, expired : BOOLEAN]

IdleConns(c) == {idle[c][i].conn : i \in 1..Len(idle[c])}
HeldConns == {held[t] : t \in Tasks} \ {NoConn}
InUse == retiring \cup HeldConns \cup UNION {IdleConns(c) : c \in Clients}

\* ClientInner.closed
Closed(c) == phase[c] # "open"

Init ==
    /\ pc = [t \in Tasks |-> "start"]
    /\ route \in [Tasks -> Clients]
    /\ udp = [t \in Tasks |-> FALSE]
    /\ reusable = [t \in Tasks |-> FALSE]
    /\ started = [t \in Tasks |-> 0]
    /\ generation = [t \in Tasks |-> 0]
    /\ held = [t \in Tasks |-> NoConn]
    /\ uses = [t \in Tasks |-> 0]
    /\ idle = [c \in Clients |-> <<>>]
    /\ phase = [c \in Clients |-> "open"]
    /\ nodeFree = [c \in Clients |-> NodeDials]
    /\ globalFree = GlobalDials
    /\ connGen = [k \in Conns |-> 0]
    /\ peer = [k \in Conns |-> "quiet"]
    /\ retiring = {}
    /\ netGen = 0

Goto(t, l) == pc' = [pc EXCEPT ![t] = l]

\* The task's request is over; normalising its locals keeps the model finite
\* in what a finished request leaves behind.
Finished(t) ==
    /\ Goto(t, "start")
    /\ udp' = [udp EXCEPT ![t] = FALSE]
    /\ reusable' = [reusable EXCEPT ![t] = FALSE]
    /\ started' = [started EXCEPT ![t] = 0]
    /\ generation' = [generation EXCEPT ![t] = 0]
    /\ held' = [held EXCEPT ![t] = NoConn]
    /\ uses' = [uses EXCEPT ![t] = 0]
    /\ UNCHANGED route

-----------------------------------------------------------------------------
(* dial_tcp and dial_udp *)

\* dial_tcp on a client that is not closed.  Only a reusing client consults
\* the pool; the others go straight to open_tcp.  A closed client bails out,
\* which leaves the task where it was.
DialTcp(t, c) ==
    /\ pc[t] = "start"
    /\ ~Closed(c)
    /\ Goto(t, IF c \in Reusing THEN "generation" ELSE "node")
    /\ route' = [route EXCEPT ![t] = c]
    /\ reusable' = [reusable EXCEPT ![t] = c \in Reusing]
    /\ started' = [started EXCEPT ![t] = netGen]
    /\ UNCHANGED <<udp, generation, held, uses, idle, phase, permitVars,
                   connVars, netGen>>

\* dial_udp goes to open_command without looking at `closed`, and its
\* session is never pooled.
DialUdp(t, c) ==
    /\ pc[t] = "start"
    /\ Goto(t, "node")
    /\ route' = [route EXCEPT ![t] = c]
    /\ udp' = [udp EXCEPT ![t] = TRUE]
    /\ started' = [started EXCEPT ![t] = netGen]
    /\ UNCHANGED <<reusable, generation, held, uses, idle, phase, permitVars,
                   connVars, netGen>>

\* dialer.network_generation().await
ReadGeneration(t) ==
    /\ pc[t] = "generation"
    /\ Goto(t, "take")
    /\ generation' = [generation EXCEPT ![t] = netGen]
    /\ UNCHANGED <<route, udp, reusable, started, held, uses, idle, phase,
                   permitVars, connVars, netGen>>

\* Mutant: the generation is not compared.
UsableAnyNetwork(t, entry) == ~entry.expired

\* take_idle: the entry may be used if it has neither expired nor been dialled
\* on another network than the one the request read.
Usable(t, entry) ==
    /\ ~entry.expired
    /\ connGen[entry.conn] = generation[t]

\* Mutant: the entry is read but not popped.
TakeIdlePeek(t) ==
    LET stack == idle[route[t]]
        entry == stack[Len(stack)]
    IN
    /\ pc[t] = "take"
    /\ Goto(t, IF stack = <<>> THEN "node"
               ELSE IF Usable(t, entry) THEN "reuse" ELSE "discard")
    /\ held' = [held EXCEPT ![t] = IF stack = <<>> THEN @ ELSE entry.conn]
    /\ uses' = [uses EXCEPT ![t] = IF stack = <<>> THEN @ ELSE entry.uses]
    /\ UNCHANGED <<route, udp, reusable, started, generation, idle, phase,
                   permitVars, connVars, netGen>>

\* take_idle pops the most recent entry.  A usable one is handed to
\* start_reuse, any other is retired before the next pop; an empty pool
\* ends the loop and a new connection is opened.
TakeIdle(t) ==
    LET stack == idle[route[t]]
        entry == stack[Len(stack)]
    IN
    /\ pc[t] = "take"
    /\ \/ /\ stack = <<>>
          /\ Goto(t, "node")
          /\ UNCHANGED <<held, uses, idle>>
       \/ /\ stack # <<>>
          /\ Goto(t, IF Usable(t, entry) THEN "reuse" ELSE "discard")
          /\ held' = [held EXCEPT ![t] = entry.conn]
          /\ uses' = [uses EXCEPT ![t] = entry.uses]
          /\ idle' = [idle EXCEPT ![route[t]] =
                         SubSeq(stack, 1, Len(stack) - 1)]
    /\ UNCHANGED <<route, udp, reusable, started, generation, phase,
                   permitVars, connVars, netGen>>

\* start_reuse succeeded: nothing was readable and the CONNECT was written.
StartReuse(t) ==
    /\ pc[t] = "reuse"
    /\ peer[held[t]] # "input"
    /\ Goto(t, "session")
    /\ uses' = [uses EXCEPT ![t] = @ + 1]
    /\ UNCHANGED <<route, udp, reusable, started, generation, held, idle,
                   phase, permitVars, connVars, netGen>>

\* start_reuse failed: the probe saw input or EOF, or the write failed or
\* timed out.  The connection is retired and the loop goes on.
StartReuseFails(t) ==
    /\ pc[t] = "reuse"
    /\ Goto(t, "discard")
    /\ UNCHANGED <<route, udp, reusable, started, generation, held, uses, idle,
                   phase, permitVars, connVars, netGen>>

\* The retire().await inside the take loop ended (RETIRE_TIMEOUT bounds it).
Discarded(t) ==
    /\ pc[t] = "discard"
    /\ Goto(t, "take")
    /\ held' = [held EXCEPT ![t] = NoConn]
    /\ uses' = [uses EXCEPT ![t] = 0]
    /\ UNCHANGED <<route, udp, reusable, started, generation, idle, phase,
                   permitVars, connVars, netGen>>

-----------------------------------------------------------------------------
(* open_command *)

AcquireNode(t) ==
    /\ pc[t] = "node"
    /\ nodeFree[route[t]] > 0
    /\ nodeFree' = [nodeFree EXCEPT ![route[t]] = @ - 1]
    /\ Goto(t, "global")
    /\ UNCHANGED <<route, udp, reusable, started, generation, held, uses, idle,
                   phase, globalFree, connVars, netGen>>

AcquireGlobal(t) ==
    /\ pc[t] = "global"
    /\ globalFree > 0
    /\ globalFree' = globalFree - 1
    /\ Goto(t, "permitted")
    /\ UNCHANGED <<route, udp, reusable, started, generation, held, uses, idle,
                   phase, nodeFree, connVars, netGen>>

\* Mutant: a timed-out wait for the global permit keeps the node permit.
PermitTimeoutLeaks(t) ==
    /\ pc[t] \in {"node", "global"}
    /\ Finished(t)
    /\ UNCHANGED <<idle, phase, permitVars, connVars, netGen>>

\* dial_limit_timeout fired before both permits were acquired; dropping the
\* future gives back the node permit if it was already taken.
PermitTimeout(t) ==
    /\ pc[t] \in {"node", "global"}
    /\ nodeFree' = [nodeFree EXCEPT ![route[t]] =
                       IF pc[t] = "global" THEN @ + 1 ELSE @]
    /\ Finished(t)
    /\ UNCHANGED <<idle, phase, globalFree, connVars, netGen>>

\* EchDialer.dial_tcp takes the network snapshot that stamps the connection.
\* A handshake retried with another trust store or ECH configuration
\* (dial_inner, dial_with_trust) takes a new one.
DialSnapshot(t) ==
    /\ pc[t] \in {"permitted", "dialing"}
    /\ Goto(t, "dialing")
    /\ generation' = [generation EXCEPT ![t] = netGen]
    /\ UNCHANGED <<route, udp, reusable, started, held, uses, idle, phase,
                   permitVars, connVars, netGen>>

\* The transport is up; the initial flight is about to be written.
Dialed(t, k) ==
    /\ pc[t] = "dialing"
    /\ k \notin InUse
    /\ Goto(t, "flight")
    /\ held' = [held EXCEPT ![t] = k]
    /\ uses' = [uses EXCEPT ![t] = 1]
    /\ connGen' = [connGen EXCEPT ![k] = generation[t]]
    /\ peer' = [peer EXCEPT ![k] = "quiet"]
    /\ UNCHANGED <<route, udp, reusable, started, generation, idle, phase,
                   permitVars, retiring, netGen>>

ReleasePermits(t) ==
    /\ nodeFree' = [nodeFree EXCEPT ![route[t]] = @ + 1]
    /\ globalFree' = globalFree + 1

\* The dial failed or timed out, or the initial flight (and, for UDP, the
\* reply) failed: the half-open connection is dropped with the future.
DialFails(t) ==
    /\ pc[t] \in {"dialing", "flight"}
    /\ ReleasePermits(t)
    /\ Finished(t)
    /\ UNCHANGED <<idle, phase, connVars, netGen>>

\* open_command returns: `_permits` go out of scope, the session begins.
OpenDone(t) ==
    /\ pc[t] = "flight"
    /\ ReleasePermits(t)
    /\ Goto(t, "session")
    /\ UNCHANGED <<route, udp, reusable, started, generation, held, uses, idle,
                   phase, connVars, netGen>>

-----------------------------------------------------------------------------
(* SnellSession::finish, release and retire *)

\* finish with an unclean relay, a session that is not reusable, or a close
\* handshake that failed or timed out.
FinishRetire(t) ==
    /\ pc[t] = "session"
    /\ ~udp[t]
    /\ Goto(t, "retire")
    /\ UNCHANGED <<route, udp, reusable, started, generation, held, uses, idle,
                   phase, permitVars, connVars, netGen>>

\* The caller returned early with `?`: the session is dropped, not finished.
DropSession(t) ==
    /\ pc[t] = "session"
    /\ Finished(t)
    /\ UNCHANGED <<idle, phase, permitVars, connVars, netGen>>

\* Both zero records were exchanged.  release() first tests `closed` and the
\* use count without the lock.
FinishClean(t) ==
    /\ pc[t] = "session"
    /\ reusable[t]
    /\ Goto(t, IF Closed(route[t]) \/ uses[t] >= MaxUses
               THEN "retire" ELSE "release")
    /\ UNCHANGED <<route, udp, reusable, started, generation, held, uses, idle,
                   phase, permitVars, connVars, netGen>>

\* The critical section of release(): the connection is pushed if there is
\* room and the client is open, and otherwise retired after the unlock.
ReleaseIf(t, room, open) ==
    LET c == route[t] IN
    /\ pc[t] = "release"
    /\ \/ /\ ~room \/ ~open
          /\ Goto(t, "retire")
          /\ UNCHANGED <<route, udp, reusable, started, generation, held, uses,
                         idle>>
       \/ /\ room /\ open
          /\ idle' = [idle EXCEPT ![c] = Append(@,
                         [conn |-> held[t], uses |-> uses[t],
                          expired |-> FALSE])]
          /\ Finished(t)
    /\ UNCHANGED <<phase, permitVars, connVars, netGen>>

\* Mutant: `closed` is not tested again under the lock.
ReleaseUnchecked(t) == ReleaseIf(t, Len(idle[route[t]]) < MaxIdle, TRUE)

\* release() under the lock: `closed` is tested again, then the capacity.
Release(t) ==
    ReleaseIf(t, Len(idle[route[t]]) < MaxIdle, ~Closed(route[t]))

\* Mutant: no RETIRE_TIMEOUT around the shutdown.
RetiredUnbounded(t) ==
    /\ pc[t] = "retire"
    /\ peer[held[t]] # "stuck"
    /\ Finished(t)
    /\ UNCHANGED <<idle, phase, permitVars, connVars, netGen>>

\* retire().await at the end of a request: shutdown, at most RETIRE_TIMEOUT.
Retired(t) ==
    /\ pc[t] = "retire"
    /\ Finished(t)
    /\ UNCHANGED <<idle, phase, permitVars, connVars, netGen>>

\* The UDP association ended: SnellPacketSession::close awaits the shutdown,
\* with no timeout around it.
FinishUdp(t) ==
    /\ pc[t] = "session"
    /\ udp[t]
    /\ Goto(t, "closeUdp")
    /\ UNCHANGED <<route, udp, reusable, started, generation, held, uses, idle,
                   phase, permitVars, connVars, netGen>>

\* close_notify and FIN went out, which a full send buffer prevents.
UdpClosed(t) ==
    /\ pc[t] = "closeUdp"
    /\ peer[held[t]] # "stuck"
    /\ Finished(t)
    /\ UNCHANGED <<idle, phase, permitVars, connVars, netGen>>

-----------------------------------------------------------------------------
(* SnellClient::close, run when a catalog replacement drops the client *)

\* closed.swap(true): a second close() returns at once.
CloseSwap(c) ==
    /\ phase[c] = "open"
    /\ phase' = [phase EXCEPT ![c] = "closing"]
    /\ UNCHANGED <<taskVars, idle, permitVars, connVars, netGen>>

\* mem::take of the pool under the lock; each entry retires in a task of its
\* own.
CloseDrain(c) ==
    /\ phase[c] = "closing"
    /\ phase' = [phase EXCEPT ![c] = "closed"]
    /\ retiring' = retiring \cup IdleConns(c)
    /\ idle' = [idle EXCEPT ![c] = <<>>]
    /\ UNCHANGED <<taskVars, permitVars, connGen, peer, netGen>>

\* A spawned retire() ended.
SpawnedRetired(k) ==
    /\ k \in retiring
    /\ retiring' = retiring \ {k}
    /\ UNCHANGED <<taskVars, idle, phase, permitVars, connGen, peer, netGen>>

-----------------------------------------------------------------------------
(* The environment *)

\* reuse-idle-timeout passes for an entry of the pool.
Expire(c, i) ==
    /\ i \in 1..Len(idle[c])
    /\ ~idle[c][i].expired
    /\ idle' = [idle EXCEPT ![c][i].expired = TRUE]
    /\ UNCHANGED <<taskVars, phase, permitVars, connVars, netGen>>

\* The server closes a connection, resets it or sends unexpected bytes.
ServerInput(k) ==
    /\ peer[k] = "quiet"
    /\ k \in InUse
    /\ peer' = [peer EXCEPT ![k] = "input"]
    /\ UNCHANGED <<taskVars, idle, phase, permitVars, connGen, retiring,
                   netGen>>

\* The server stops reading and the send buffer fills up.
ServerStalls(k) ==
    /\ peer[k] = "quiet"
    /\ k \in InUse
    /\ peer' = [peer EXCEPT ![k] = "stuck"]
    /\ UNCHANGED <<taskVars, idle, phase, permitVars, connGen, retiring,
                   netGen>>

\* A snapshot of the network monitor finds another egress selection.
NetworkChanges ==
    /\ netGen < MaxGen
    /\ netGen' = netGen + 1
    /\ UNCHANGED <<taskVars, idle, phase, permitVars, connVars>>

-----------------------------------------------------------------------------
\* The steps a task takes by itself once a request has begun.
TaskStep(t) ==
    \/ ReadGeneration(t) \/ TakeIdle(t)
    \/ StartReuse(t) \/ StartReuseFails(t) \/ Discarded(t)
    \/ AcquireNode(t) \/ AcquireGlobal(t) \/ PermitTimeout(t)
    \/ DialSnapshot(t) \/ (\E k \in Conns : Dialed(t, k))
    \/ DialFails(t) \/ OpenDone(t)
    \/ FinishRetire(t) \/ DropSession(t) \/ FinishClean(t)
    \/ Release(t) \/ Retired(t) \/ FinishUdp(t) \/ UdpClosed(t)

Next ==
    \/ \E t \in Tasks : \/ \E c \in Clients : DialTcp(t, c) \/ DialUdp(t, c)
                        \/ TaskStep(t)
    \/ \E c \in Clients : \/ CloseSwap(c) \/ CloseDrain(c)
                          \/ \E i \in 1..MaxIdle : Expire(c, i)
    \/ \E k \in Conns : SpawnedRetired(k) \/ ServerInput(k) \/ ServerStalls(k)
    \/ NetworkChanges

\* The timers of open_command (permit wait, dial, reply to a UDP associate)
\* always fire and a fresh socket's send buffer takes the first flight;
\* retire() is bounded by RETIRE_TIMEOUT, a shutdown whose bytes can leave
\* completes, and a swapped close() goes on to drain.  Nothing is assumed of
\* the client, the server or the network.
Fairness ==
    /\ \A t \in Tasks :
         /\ WF_vars(PermitTimeout(t))
         /\ WF_vars(DialSnapshot(t) /\ pc[t] = "permitted")
         /\ WF_vars(DialFails(t) \/ OpenDone(t))
         /\ WF_vars(Release(t))
         /\ WF_vars(Retired(t))
         /\ WF_vars(UdpClosed(t))
    /\ \A c \in Clients : WF_vars(CloseDrain(c))
    /\ \A k \in Conns : WF_vars(SpawnedRetired(k))

Spec == Init /\ [][Next]_vars /\ Fairness

-----------------------------------------------------------------------------
(* Properties *)

TaskTypes ==
    /\ pc \in [Tasks -> PcStates]
    /\ route \in [Tasks -> Clients]
    /\ started \in [Tasks -> 0..MaxGen]
    /\ generation \in [Tasks -> 0..MaxGen]
    /\ held \in [Tasks -> Conns \cup {NoConn}]
    /\ uses \in [Tasks -> 0..MaxUses]

FlagTypes ==
    /\ udp \in [Tasks -> BOOLEAN]
    /\ reusable \in [Tasks -> BOOLEAN]

PoolTypes ==
    /\ idle \in [Clients -> Seq(IdleEntry)]
    /\ phase \in [Clients -> {"open", "closing", "closed"}]
    /\ nodeFree \in [Clients -> Nat]
    /\ globalFree \in Nat
    /\ connGen \in [Conns -> 0..MaxGen]
    /\ peer \in [Conns -> PeerStates]
    /\ retiring \subseteq Conns
    /\ netGen \in 0..MaxGen

Ownership == \A t \in Tasks : pc[t] \in Owning <=> held[t] # NoConn

\* Every variable has its type, no use count exceeds reuse-max-uses, and a
\* task owns a connection exactly in the steps of client.rs in which a
\* PhysicalConnection is in scope.
TypeOK ==
    /\ TaskTypes
    /\ FlagTypes
    /\ PoolTypes
    /\ Ownership

\* A physical connection is in one place only: in one session, at one place
\* of one idle stack, or being retired.  Two sessions never write to the same
\* TLS stream, and a connection handed out is off the pool.
NoConnectionShared ==
    /\ \A t, u \in Tasks : held[t] = held[u] /\ held[t] # NoConn => t = u
    /\ \A c, d \in Clients : \A i \in 1..Len(idle[c]), j \in 1..Len(idle[d]) :
         idle[c][i].conn = idle[d][j].conn => c = d /\ i = j
    /\ \A c \in Clients : IdleConns(c) \cap (retiring \cup HeldConns) = {}
    /\ retiring \cap HeldConns = {}

\* reuse-max-idle bounds every pool however many releases race, and what is
\* pooled may still be used once more: no connection carries more than
\* reuse-max-uses sessions.
PoolWithinLimits ==
    \A c \in Clients :
      /\ Len(idle[c]) <= MaxIdle
      /\ \A i \in 1..Len(idle[c]) : idle[c][i].uses < MaxUses

\* Once close() has drained a pool nothing can enter it again: a session that
\* ends after, or while, its client is replaced retires its connection.  The
\* second test of `closed` in release(), under the lock, is what this needs.
ClosedPoolEmpty ==
    \A c \in Clients : phase[c] = "closed" => idle[c] = <<>>

\* What a release may leave in a pool, however many of them race with each
\* other and with close(): PoolWithinLimits and ClosedPoolEmpty.
PoolBounded == PoolWithinLimits /\ ClosedPoolEmpty

\* A session never runs on a connection of a network that was already gone
\* when the request began, whether it was dialled for it or taken from the
\* pool after the egress changed.
SessionOnCurrentNetwork ==
    \A t \in Tasks :
      pc[t] = "session" => connGen[held[t]] >= started[t]

\* Dial permits are neither lost nor invented on any path through
\* open_command: the free ones and the ones held by tasks add up.
PermitsConserved ==
    /\ globalFree + Cardinality({t \in Tasks : pc[t] \in HoldsGlobal})
         = GlobalDials
    /\ \A c \in Clients :
         nodeFree[c] + Cardinality({t \in Tasks :
                                     pc[t] \in HoldsNode /\ route[t] = c})
           = NodeDials

\* Every request that has begun to open a connection gets an answer, even if
\* all permits are taken and the node never answers: the timers bound each
\* wait.
OpenResolves ==
    \A t \in Tasks :
      (pc[t] \in {"node", "global", "permitted", "dialing", "flight"})
        ~> (pc[t] \in {"session", "start"})

\* A session that finishes gets rid of its connection, pooled or retired, even
\* if the peer no longer reads: RETIRE_TIMEOUT bounds the shutdown.
RetireResolves ==
    \A t \in Tasks : pc[t] \in {"release", "retire"} ~> pc[t] = "start"

\* The same of a UDP association, whose idle lifetime udp-idle-timeout bounds:
\* once it ends its connection, slot and relay port are given back.
UdpCloseResolves ==
    \A t \in Tasks : pc[t] = "closeUdp" ~> pc[t] = "start"

\* A closed client lets go of every pooled connection: what close() found in
\* the pool is eventually shut down.
ClosedPoolRetires ==
    \A c \in Clients : \A k \in Conns :
      (phase[c] = "closing" /\ k \in IdleConns(c))
        ~> (k \notin retiring /\ k \notin IdleConns(c))

\* Nothing the pool does lasts for ever: OpenResolves, RetireResolves and
\* ClosedPoolRetires.
PoolResolves == OpenResolves /\ RetireResolves /\ ClosedPoolRetires
=============================================================================
