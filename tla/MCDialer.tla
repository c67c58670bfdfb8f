------------------------------ MODULE MCDialer ------------------------------
(***************************************************************************)
(* Outgoing connections to nodes, checked in one run: the resolution of a  *)
(* node's name by concurrent dials, the race of the connects, TLS with its *)
(* shared configuration, and the routes by which the ports of serve-map    *)
(* lead to nodes.  Each behaviour exercises one part.  The parts share no  *)
(* variable, so what the run explores is the sum of the parts, not their   *)
(* product.                                                                *)
(***************************************************************************)
EXTENDS DialTcp, RaceConnects, EchTls, ServeMap

CONSTANTS r1, n1, p1

VARIABLE part

dialerVars == <<part, dialTcpVars, raceVars, echVars, vars>>

MCSelections == {{"v4"}, {"v4", "v6"}}

\* A part that is not exercised stays in one of its initial states.  The
\* roots are interchangeable, so the server's first issuer may be any.
DialerInit ==
    /\ part \in {"dial", "race", "tls", "map"}
    /\ DialInit /\ RaceInit /\ EchInit /\ Init
    /\ part # "dial" => netSelection = {"v4"}
    /\ part # "tls" => platform = {r1} /\ settled
    /\ part # "map" => remote = <<[name |-> n1, profile |-> p1]>>
    /\ serverRoot = r1

DialerNext ==
    \/ part = "dial" /\ DialNext /\ UNCHANGED <<part, raceVars, echVars, vars>>
    \/ part = "race" /\ RaceNext /\ UNCHANGED <<part, dialTcpVars, echVars, vars>>
    \/ part = "tls" /\ EchNext /\ UNCHANGED <<part, dialTcpVars, raceVars, vars>>
    \/ part = "map" /\ Next /\ UNCHANGED <<part, dialTcpVars, raceVars, echVars>>

\* EchFairness, and Fairness of serve-map, where those parts are exercised.
DialerFairness ==
    /\ \A t \in Dials : WF_echVars(part = "tls" /\ AbandonDial(t))
    /\ WF_vars(part = "map" /\ Wake) /\ WF_vars(part = "map" /\ (FetchFails \/ FetchOk))
    /\ SF_vars(part = "map" /\ FetchOk) /\ WF_vars(part = "map" /\ Update)

DialerSpec == DialerInit /\ [][DialerNext]_dialerVars /\ DialerFairness
=============================================================================
