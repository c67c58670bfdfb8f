---- MODULE Egress ----
(***************************************************************************)
(* What the network monitor promises its users (the connection pool, the   *)
(* dialer, the private DNS cache): the egress has one current selection,   *)
(* numbered by a generation that moves exactly when the selection does, so *)
(* that whatever was learnt under a generation (a socket's source address, *)
(* a resolved name, a working server address) may be kept while the        *)
(* generation stays the same, and must not be kept afterwards.             *)
(***************************************************************************)
EXTENDS Naturals

CONSTANT Selections     \* the egress selections there can be

VARIABLES netSelection, \* the current selection
          netGeneration \* its generation, starting at 1

netVars == <<netSelection, netGeneration>>

NetInit ==
    /\ netSelection \in Selections
    /\ netGeneration = 1

NetChange ==
    /\ netSelection' \in Selections \ {netSelection}
    /\ netGeneration' = netGeneration + 1

NetSpec == NetInit /\ [][NetChange]_netVars
====
