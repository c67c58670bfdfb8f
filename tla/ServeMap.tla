------------------------------ MODULE ServeMap ------------------------------
(***************************************************************************)
(* `oixc-proxy serve-map`: one listener per node, whose route a refresh of *)
(* the catalog may replace (run_serve_map, plan_map_refresh,               *)
(* build_fixed_route of src/src/cli.rs, FixedRoute of src/src/socks5.rs).  *)
(*                                                                         *)
(* The refresh loop is one task, each connection another.  A proxy is its  *)
(* name and the rest of its profile; a catalog is a sequence of proxies    *)
(* without duplicate names, as ManagedConfig::validate ensures.  Whether a *)
(* client can be built depends on the profile.  The API is external, and   *)
(* the limit on client connections is the number of Conns.  Ports are      *)
(* numbered by the index of their listener.                                *)
(***************************************************************************)
EXTENDS Integers, Sequences, FiniteSets

CONSTANTS
    Names,       \* node names
    Profiles,    \* the other fields of a proxy
    Bad,         \* those for which EchDialer or SnellClient cannot be built
    MaxNodes,    \* bound: nodes of a catalog
    Conns,       \* client connections
    MaxChanges   \* bound: changes of the remote catalog in one behaviour

ASSUME ServeMapAssumption ==
    /\ Bad \subseteq Profiles
    /\ MaxNodes \in Nat \ {0}
    /\ MaxChanges \in Nat

VARIABLES
    pc,       \* the refresh loop: "select", "fetch", "update" or "close"
    mapped,   \* run_serve_map: mapped
    routes,   \* the client of each port's FixedRoute
    clients,  \* the proxy each client was built for, in order of building
    closed,   \* clients whose close() has begun
    plan,     \* updates still to be made: the new proxy of each port
    old,      \* the client that is being closed, 0 for none
    conn,     \* each connection: its place, port and client
    remote,   \* the catalog behind the API
    changes   \* how often it has changed

vars == <<pc, mapped, routes, clients, closed, plan, old, conn, remote,
          changes>>
envVars == <<remote, changes>>

Proxies == [name : Names, profile : Profiles]

Catalogs ==
    {c \in UNION {[1..n -> Proxies] : n \in 1..MaxNodes} :
       \A i, j \in DOMAIN c : c[i].name = c[j].name => i = j}

Buildable(proxy) == proxy.profile \notin Bad

NoConn == [at |-> "free", port |-> 0, client |-> 0]

\* The catalog is fetched, every listener bound and every route built, or
\* serve-map does not start.
Init ==
    /\ remote \in {c \in Catalogs : \A i \in DOMAIN c : Buildable(c[i])}
    /\ pc = "select"
    /\ mapped = remote
    /\ clients = remote
    /\ routes = [i \in DOMAIN remote |-> i]
    /\ closed = {}
    /\ plan = <<>>
    /\ old = 0
    /\ conn = [c \in Conns |-> NoConn]
    /\ changes = 0

Indices == DOMAIN mapped

-----------------------------------------------------------------------------
(* The refresh loop *)

\* refresh.tick() or transport.catalog_refresh.notified()
Wake ==
    /\ pc = "select"
    /\ pc' = "fetch"
    /\ UNCHANGED <<mapped, routes, clients, closed, plan, old, conn, envVars>>

FetchFails ==
    /\ pc = "fetch"
    /\ pc' = "select"
    /\ UNCHANGED <<mapped, routes, clients, closed, plan, old, conn, envVars>>

\* Mutant: node and port are matched by position.
UpdatesByPosition(refreshed) ==
    [i \in {i \in Indices \cap DOMAIN refreshed : refreshed[i] # mapped[i]} |->
       refreshed[i]]

\* plan_map_refresh: the ports whose node keeps its name but not its profile.
\* Nodes that appear or disappear are only counted.
Updates(refreshed) ==
    LET Named(i) == {j \in DOMAIN refreshed :
                       refreshed[j].name = mapped[i].name}
        Found(i) == refreshed[CHOOSE j \in Named(i) : TRUE]
    IN [i \in {i \in Indices : Named(i) # {} /\ Found(i) # mapped[i]} |->
          Found(i)]

FetchOk ==
    /\ pc = "fetch"
    /\ plan' = Updates(remote)
    /\ pc' = IF DOMAIN plan' = {} THEN "select" ELSE "update"
    /\ UNCHANGED <<mapped, routes, clients, closed, old, conn, envVars>>

\* The update the for loop is at: plan.updates is in the order of the ports.
Index == CHOOSE i \in DOMAIN plan : \A j \in DOMAIN plan : i <= j

\* The for loop goes on with the next update.
Advance ==
    /\ plan' = [i \in DOMAIN plan \ {Index} |-> plan[i]]
    /\ pc' = IF DOMAIN plan = {Index} THEN "select" ELSE "update"

\* Mutant: a failed build ends the loop.
BuildFailsAll ==
    /\ pc = "update" /\ ~Buildable(plan[Index])
    /\ plan' = <<>> /\ pc' = "select"
    /\ UNCHANGED <<mapped, routes, clients, closed, old, conn, envVars>>

\* build_fixed_route fails: the port keeps its route and its mapped proxy.
BuildFails ==
    /\ pc = "update" /\ ~Buildable(plan[Index])
    /\ Advance
    /\ UNCHANGED <<mapped, routes, clients, closed, old, conn, envVars>>

\* Mutant: the old client is closed while the port still leads to it.
ReplaceAfterClose ==
    /\ pc = "update" /\ Buildable(plan[Index])
    /\ closed' = closed \cup {routes[Index]}
    /\ old' = routes[Index]
    /\ clients' = Append(clients, plan[Index])
    /\ pc' = "close"
    /\ UNCHANGED <<mapped, routes, plan, conn, envVars>>

\* routes[index].replace(route)
Replace ==
    /\ pc = "update" /\ Buildable(plan[Index])
    /\ clients' = Append(clients, plan[Index])
    /\ routes' = [routes EXCEPT ![Index] = Len(clients')]
    /\ old' = routes[Index]
    /\ pc' = "close"
    /\ UNCHANGED <<mapped, closed, plan, conn, envVars>>

\* client.close() of what it replaced, whose idle connections are retired by
\* tasks of their own, and mapped[index] = proxy.
CloseOld ==
    /\ pc = "close"
    /\ closed' = closed \cup {old}
    /\ mapped' = [mapped EXCEPT ![Index] = plan[Index]]
    /\ old' = 0
    /\ Advance
    /\ UNCHANGED <<routes, clients, conn, envVars>>

-----------------------------------------------------------------------------
(* Connections *)

\* The route of the port is read during the handshake (FixedRoute::get) ...
GetRoute(c, i) ==
    /\ conn[c].at = "free"
    /\ conn' = [conn EXCEPT ![c] =
                  [at |-> "handshake", port |-> i, client |-> routes[i]]]
    /\ UNCHANGED <<pc, mapped, routes, clients, closed, plan, old, envVars>>

\* The request is not read in time or not valid, UDP is disabled for the node
\* or the command is unknown.
HandshakeFails(c) ==
    /\ conn[c].at = "handshake"
    /\ conn' = [conn EXCEPT ![c] = NoConn]
    /\ UNCHANGED <<pc, mapped, routes, clients, closed, plan, old, envVars>>

\* ... and used after it, by dial_tcp or dial_udp.  Only dial_tcp looks whether
\* the client was closed meanwhile,
Dial(c) ==
    /\ conn[c].at = "handshake"
    /\ conn' = [conn EXCEPT ![c].at = "session"]
    /\ UNCHANGED <<pc, mapped, routes, clients, closed, plan, old, envVars>>

\* and refuses then.
DialClosed(c) ==
    /\ conn[c].at = "handshake" /\ conn[c].client \in closed
    /\ conn' = [conn EXCEPT ![c] = NoConn]
    /\ UNCHANGED <<pc, mapped, routes, clients, closed, plan, old, envVars>>

\* The session ends or was never opened; a closed client leaves sessions alone.
SessionEnds(c) ==
    /\ conn[c].at = "session"
    /\ conn' = [conn EXCEPT ![c] = NoConn]
    /\ UNCHANGED <<pc, mapped, routes, clients, closed, plan, old, envVars>>

RemoteChanges(c) ==
    /\ changes < MaxChanges /\ c # remote
    /\ remote' = c
    /\ changes' = changes + 1
    /\ UNCHANGED <<pc, mapped, routes, clients, closed, plan, old, conn>>

-----------------------------------------------------------------------------
Update == BuildFails \/ Replace \/ CloseOld

Next ==
    \/ Wake \/ FetchFails \/ FetchOk \/ Update
    \/ \E c \in Conns, i \in Indices : GetRoute(c, i)
    \/ \E c \in Conns :
         HandshakeFails(c) \/ Dial(c) \/ DialClosed(c) \/ SessionEnds(c)
    \/ \E c \in Catalogs : RemoteChanges(c)

\* The interval ticks, every fetch ends, the updates of a refresh are made
\* one after the other, and the API does not fail for ever.
Fairness ==
    /\ WF_vars(Wake) /\ WF_vars(FetchFails \/ FetchOk) /\ SF_vars(FetchOk)
    /\ WF_vars(Update)

Spec == Init /\ [][Next]_vars /\ Fairness

-----------------------------------------------------------------------------
(* Properties *)

\* A port never leads to another node than the one it was started for,
\* whatever is added, removed or reordered in the catalog: "renumbering ports
\* would silently send clients to other nodes".
PortKeepsNode ==
    [][\A i \in Indices :
         clients'[routes'[i]].name = clients[routes[i]].name]_vars

\* A connection that reads the route of a port gets an open client, also in
\* the middle of a refresh.  Between refreshes every client that no port leads
\* to is closed, and none other: no pool is left behind, and mapped says what
\* is routed, so that a node whose build failed is tried again at the next one.
RoutesClean ==
    /\ \A i \in Indices : routes[i] \notin closed
    /\ pc = "select" =>
         /\ closed = (1..Len(clients)) \ {routes[i] : i \in Indices}
         /\ \A i \in Indices : clients[routes[i]] = mapped[i]

\* Once the catalog no longer changes, every node of the map that is still in
\* it, and that can be built, is served with its current profile, whatever
\* becomes of the others.
MapConverges ==
    <>[](\A i \in Indices, j \in DOMAIN remote :
           remote[j].name = mapped[i].name /\ Buildable(remote[j])
             => clients[routes[i]] = remote[j])
=============================================================================
