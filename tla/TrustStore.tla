----------------------------- MODULE TrustStore -----------------------------
(***************************************************************************)
(* The TLS roots shared by all dials (src/transport/trust.rs): a snapshot  *)
(* never waits, a dial whose peer's issuer is unknown may refresh it, and  *)
(* at most one worker scans the platform's store at a time.  A scan may    *)
(* read only part of the store.                                            *)
(***************************************************************************)
EXTENDS Naturals, FiniteSets

CONSTANTS
    Dials,       \* tasks that dial
    Roots,       \* trust anchors
    NoDial       \* no task

VARIABLES
    platform,    \* the platform's trust anchors
    trustRoots,  \* State.snapshot.roots
    trustGen,    \* State.snapshot.generation
    settled,     \* State.settled
    worker,      \* the reload: "free", "held" (its lock taken), "scanned"
    cooling,     \* one started less than RELOAD_INTERVAL ago
    scan,        \* what the worker has read: [roots, complete]
    awaiting,    \* the dial that awaits the reload, or NoDial
    refreshed,   \* per dial: the snapshot refresh() returned to it
    removed,     \* anchors the platform has ever removed (history)
    trusted      \* anchors ever in the store (history)

trustVars == <<platform, trustRoots, trustGen, settled, worker, cooling,
               scan, awaiting, refreshed, removed, trusted>>

NoScan   == [roots |-> {}, complete |-> FALSE]
NoRoots  == [roots |-> {}, generation |-> 0]
Scans    == {[roots |-> platform, complete |-> TRUE]}
            \cup [roots : SUBSET platform, complete : {FALSE}]
Store    == [roots |-> trustRoots, generation |-> trustGen]

\* TrustStore::new: a store without a usable root is refused.
TrustInit ==
    /\ platform \in SUBSET Roots \ {{}}
    /\ \E loaded \in Scans :
          /\ loaded.roots # {}
          /\ trustRoots = loaded.roots
          /\ settled = loaded.complete
    /\ trustGen = 1
    /\ worker = "free"
    /\ cooling = FALSE
    /\ scan = NoScan
    /\ awaiting = NoDial
    /\ refreshed = [t \in Dials |-> NoRoots]
    /\ removed = {}
    /\ trusted = trustRoots

\* start_reload: the worker owns the lock until it has applied its scan.
StartReload(t) ==
    /\ worker' = "held"
    /\ cooling' = TRUE
    /\ awaiting' = t
    /\ UNCHANGED <<platform, trustRoots, trustGen, settled, scan, removed, trusted>>

\* snapshot(): the caller takes Store; an unsettled store starts a reload
\* in the background if none runs and none started lately.
SnapshotTrust ==
    IF ~settled /\ worker = "free" /\ ~cooling
    THEN StartReload(NoDial) /\ UNCHANGED refreshed
    ELSE UNCHANGED trustVars

\* refresh(), once the lock is free: the current roots if they have moved
\* since the dial read them or were just reloaded, else a reload is awaited.
RefreshReturns(t, observed) ==
    /\ worker = "free"
    /\ trustGen # observed \/ cooling
    /\ refreshed' = [refreshed EXCEPT ![t] = Store]
    /\ UNCHANGED <<platform, trustRoots, trustGen, settled, worker, cooling,
                   scan, awaiting, removed, trusted>>

RefreshReloads(t, observed) ==
    /\ worker = "free"
    /\ trustGen = observed /\ ~cooling
    /\ StartReload(t)
    /\ UNCHANGED refreshed

ScanPlatform ==
    /\ worker = "held"
    /\ scan' \in Scans
    /\ worker' = "scanned"
    /\ UNCHANGED <<platform, trustRoots, trustGen, settled, cooling, awaiting,
                   refreshed, removed, trusted>>

\* A partial scan can still add anchors; it must not remove any.
Usable ==
    /\ scan.roots # {}
    /\ \/ scan.complete
       \/ /\ Cardinality(scan.roots) > Cardinality(trustRoots)
          /\ trustRoots \subseteq scan.roots

\* apply_reload, after which the worker drops the lock and a dial that still
\* awaits it gets the snapshot.
ApplyReload ==
    /\ worker = "scanned"
    /\ IF scan.roots = trustRoots
       THEN settled' = TRUE /\ UNCHANGED <<trustRoots, trustGen>>
       ELSE IF Usable
       THEN /\ trustRoots' = scan.roots
            /\ trustGen' = trustGen + 1
            /\ settled' = scan.complete
       ELSE UNCHANGED <<trustRoots, trustGen, settled>>
    /\ trusted' = trusted \cup trustRoots'
    /\ worker' = "free"
    /\ scan' = NoScan
    /\ refreshed' = IF awaiting = NoDial THEN refreshed
                    ELSE [refreshed EXCEPT ![awaiting] =
                            [roots |-> trustRoots', generation |-> trustGen']]
    /\ awaiting' = NoDial
    /\ UNCHANGED <<platform, cooling, removed>>

\* The worker panics and drops the lock: the dial keeps the roots it found.
ReloadPanics ==
    /\ worker = "held"
    /\ worker' = "free"
    /\ refreshed' = IF awaiting = NoDial THEN refreshed
                    ELSE [refreshed EXCEPT ![awaiting] = Store]
    /\ awaiting' = NoDial
    /\ UNCHANGED <<platform, trustRoots, trustGen, settled, cooling, scan, removed,
                   trusted>>

\* RELOAD_INTERVAL passes.
CooldownEnds ==
    /\ cooling
    /\ cooling' = FALSE
    /\ UNCHANGED <<platform, trustRoots, trustGen, settled, worker, scan, awaiting,
                   refreshed, removed, trusted>>

PlatformChanges ==
    /\ platform' \in SUBSET Roots \ {platform}
    /\ removed' = removed \cup (platform \ platform')
    /\ UNCHANGED <<trustRoots, trustGen, settled, worker, cooling, scan,
                   awaiting, refreshed, trusted>>

(***************************************************************************)
(* An anchor that was ever trusted and that the platform never removed is  *)
(* still trusted: whatever part of the store a reload managed to read, and *)
(* whichever dial asked for it, "a failed or partial reload never replaces *)
(* a usable store" (trust.rs apply_reload).                                *)
(***************************************************************************)
RootsNeverLost == trusted \ removed \subseteq trustRoots
=============================================================================
