---------------------------- MODULE RaceConnects ----------------------------
(***************************************************************************)
(* Connecting to one of a node's addresses (src/transport/ech.rs): the     *)
(* order interleave_addresses puts them in, and the Happy Eyeballs race of *)
(* race_connects, which starts an attempt per address, staggered by a      *)
(* delay, and at once when an attempt fails.                               *)
(***************************************************************************)
EXTENDS Naturals, Sequences, FiniteSets, SequencesExt

CONSTANTS
    Candidates,   \* server addresses
    Ipv6,         \* those of the IPv6 family
    NoPreferred,  \* no address succeeded on this network before
    MaxAddresses  \* bound: addresses resolved for a node

ASSUME AddressesAssumption == MaxAddresses \in Nat

VARIABLES
    raceGiven,    \* the resolved addresses and the preferred one
    pending,      \* addresses not started yet
    attempts,     \* addresses being connected to
    failed,       \* addresses whose attempt failed
    exhausted,    \* no address was left when one was to be started
    raceResult    \* "idle", "running", "connected" or "failed"

raceVars == <<raceGiven, pending, attempts, failed, exhausted, raceResult>>

\* filter() keeps the addresses at the positions I, in their order.
Rank(I, i) == Cardinality({j \in I : j <= i})
Kept(s, I) == [k \in 1..Cardinality(I) |-> s[CHOOSE i \in I : Rank(I, i) = k]]

Unique(s) == Kept(s, {i \in DOMAIN s : \A j \in 1..(i - 1) : s[j] # s[i]})

MoveToFront(s, p) ==
    IF p \in ToSet(s) THEN <<p>> \o Kept(s, {i \in DOMAIN s : s[i] # p}) ELSE s

\* One of each in turn, beginning with `one`, then what is left of the longer.
Alternate(one, two) ==
    LET pairs == IF Len(one) < Len(two) THEN Len(one) ELSE Len(two)
    IN  [i \in 1..(2 * pairs) |-> IF i % 2 = 1 THEN one[(i + 1) \div 2] ELSE two[i \div 2]]
        \o SubSeq(one, pairs + 1, Len(one)) \o SubSeq(two, pairs + 1, Len(two))

\* The preferred address first, then the two families in turn, beginning with
\* the family of the first address.
InterleaveAddresses(addresses, p) ==
    LET unique == MoveToFront(Unique(addresses), p)
        v4     == Kept(unique, {i \in DOMAIN unique : unique[i] \notin Ipv6})
        v6     == Kept(unique, {i \in DOMAIN unique : unique[i] \in Ipv6})
    IN  IF unique = <<>> \/ Head(unique) \notin Ipv6 THEN Alternate(v4, v6)
                                                    ELSE Alternate(v6, v4)

Inputs == [addresses : SeqOf(Candidates, MaxAddresses),
           preferred : Candidates \cup {NoPreferred}]

RaceInit ==
    /\ raceGiven = [addresses |-> <<>>, preferred |-> NoPreferred]
    /\ pending = <<>> /\ attempts = {} /\ failed = {}
    /\ exhausted = FALSE
    /\ raceResult = "idle"

\* race_connects starts with the first address; without one it fails.
StartRace(given) ==
    /\ raceResult = "idle"
    /\ raceGiven' = given
    /\ LET order == InterleaveAddresses(given.addresses, given.preferred)
       IN  IF order = <<>>
           THEN raceResult' = "failed" /\ UNCHANGED <<pending, attempts>>
           ELSE /\ pending' = Tail(order) /\ attempts' = {Head(order)}
                /\ raceResult' = "running"
    /\ UNCHANGED <<failed, exhausted>>

\* launch_next: `inFlight` are the attempts left when it is called.
LaunchNext(inFlight) ==
    /\ exhausted' = (pending = <<>>)
    /\ IF pending = <<>>
       THEN attempts' = inFlight /\ UNCHANGED pending
       ELSE attempts' = inFlight \cup {Head(pending)} /\ pending' = Tail(pending)

AttemptSucceeds(a) ==
    /\ raceResult = "running" /\ a \in attempts
    /\ raceResult' = "connected"
    /\ attempts' = {}          \* the other attempts are dropped
    /\ UNCHANGED <<raceGiven, pending, failed, exhausted>>

\* Mutant: an attempt that fails with no address left ends the race.
GiveUpWhenExhausted == exhausted'

\* The race has failed when nothing was left to start and nothing is running.
GiveUp == exhausted' /\ attempts' = {}

AttemptFailed(a) ==
    /\ raceResult = "running" /\ a \in attempts
    /\ failed' = failed \cup {a}
    /\ LaunchNext(attempts \ {a})
    /\ raceResult' = IF GiveUp THEN "failed" ELSE "running"
    /\ UNCHANGED raceGiven

DelayFires ==
    /\ raceResult = "running" /\ ~exhausted
    /\ LaunchNext(attempts)
    /\ UNCHANGED <<raceGiven, failed, raceResult>>

RaceNext ==
    \/ \E given \in Inputs : StartRace(given)
    \/ \E a \in Candidates : AttemptSucceeds(a) \/ AttemptFailed(a)
    \/ DelayFires

RaceSpec == RaceInit /\ [][RaceNext]_raceVars

-----------------------------------------------------------------------------
(***************************************************************************)
(* A race fails only when every resolved address was tried and failed, is  *)
(* never left without an attempt to wait for (select! would have nothing   *)
(* to do), and starts the addresses in an order a reference describes:     *)
(* each once, the preferred one first, and no family twice in a row while  *)
(* the other has an address left (interleave_addresses, race_connects).    *)
(***************************************************************************)
RunsOfOneFamilyOnlyAtTheEnd(order) ==
    \A i \in 1..(Len(order) - 1) :
        (order[i] \in Ipv6 <=> order[i + 1] \in Ipv6) =>
            \A j \in (i + 1)..Len(order) : order[j] \in Ipv6 <=> order[i] \in Ipv6

EveryAddressTried ==
    LET all == ToSet(raceGiven.addresses)
        order == InterleaveAddresses(raceGiven.addresses, raceGiven.preferred)
    IN  /\ raceResult = "failed" => failed = all
        /\ raceResult = "running" => attempts # {}
        /\ failed \cup attempts \cup ToSet(pending) \subseteq all
        /\ ToSet(order) = all /\ IsInjective(order)
        /\ raceGiven.preferred \in all => order[1] = raceGiven.preferred
        /\ RunsOfOneFamilyOnlyAtTheEnd(order)
=============================================================================
