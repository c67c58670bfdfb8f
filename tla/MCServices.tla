----------------------------- MODULE MCServices -----------------------------
(***************************************************************************)
(* The services around the proxy: the network monitor, the provider, the   *)
(* control socket and the API client.  Each behaviour exercises one of the *)
(* Parts; they share no variable, so what a run explores is the sum of the *)
(* parts, not their product.                                               *)
(***************************************************************************)
EXTENDS NetworkMonitor, Provider, ControlSocket, ApiClient

CONSTANTS a4, b4, a6, b6, t4, A, Parts

VARIABLE part

servicesVars == <<part, monVars, provVars, ctlVars, apiVars>>

MCKind == [eth0 |-> "usual", wlan0 |-> "usual", tun0 |-> "virtual",
           lo |-> "loopback"]

Entry(n, i, a) == [name |-> n, index |-> i, address |-> a, scope |-> "global",
                   up |-> TRUE, flags |-> {}, place |-> i]
Via(n, m) == [name |-> n, up |-> TRUE, metric |-> m, place |-> m]
Wired == Entry("eth0", 1, a4)
Wifi  == Entry("wlan0", 2, b4)

\* Two interfaces, with the default route on either; one with IPv6, where a
\* temporary address comes first, beside a tunnel with IPv4; only a tunnel and
\* a loopback with an address of its own up; and a failing getifaddrs.
FirstOs == [addresses |-> {Wired, Wifi},
            routes |-> {Via("eth0", 1), Via("wlan0", 2)}]
MCOsStates ==
    {FirstOs,
     [FirstOs EXCEPT !.routes = {Via("tun0", 0), Via("wlan0", 2), Via("eth0", 3)}],
     [addresses |-> {[Entry("eth0", 1, a6) EXCEPT !.flags = {"temporary"}],
                     [Entry("eth0", 1, b6) EXCEPT !.place = 2], Entry("tun0", 3, t4)},
      routes |-> {Via("eth0", 1)}],
     [addresses |-> {[Wired EXCEPT !.up = FALSE], Entry("tun0", 3, t4),
                     Entry("lo", 4, b4)},
      routes |-> {}],
     Unreadable}
MCPinned == {NoIp, a4, b6}
MCV6 == {a6, b6}

Asks(path, refresh, local) == [path |-> path, refresh |-> refresh, local |-> local]
MCRequests ==
    {Asks("surge", FALSE, TRUE), Asks("clash", FALSE, TRUE), Asks("clash", TRUE, TRUE),
     Asks("raw", FALSE, TRUE), Asks("raw", FALSE, FALSE), Asks("raw", TRUE, FALSE)}

\* A part that is not exercised stays in one of its initial states.  The
\* accounts are interchangeable, so the first may be any.
ServicesInit ==
    /\ part \in Parts
    /\ MonInit /\ ProvInit /\ CtlInit /\ ApiInit
    /\ gwRouter.account = A
    /\ part # "monitor" => os = FirstOs /\ pinnedIp = NoIp
    /\ part # "provider" => ~gwRouter.allow /\ gwSub = NoInfo
    /\ part # "control" => fits /\ sockFile = NoFile
    /\ part # "api" => urlCount = 1

ServicesNext ==
    \/ part = "monitor" /\ MonNext /\ UNCHANGED <<part, provVars, ctlVars, apiVars>>
    \/ part = "provider" /\ ProvNext /\ UNCHANGED <<part, monVars, ctlVars, apiVars>>
    \/ part = "control" /\ CtlNext /\ UNCHANGED <<part, monVars, provVars, apiVars>>
    \/ part = "api" /\ ApiNext /\ UNCHANGED <<part, monVars, provVars, ctlVars>>

\* MonFairness and ProvFairness, where those parts are exercised.
ServicesFairness ==
    /\ WF_monVars(part = "monitor" /\ AgeRoute)
    /\ \A r \in Reqs : WF_provVars(part = "provider" /\ RequestStep(r))
    /\ \A l \in Lookups : WF_provVars(part = "provider" /\ LookupEnds(l))

ServicesSpec == ServicesInit /\ [][ServicesNext]_servicesVars /\ ServicesFairness
=============================================================================
