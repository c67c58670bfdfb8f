------------------------------- MODULE EchTls -------------------------------
(***************************************************************************)
(* The TLS part of dials to one node (EchDialer in src/transport/ech.rs):  *)
(* the dials share the ECH configuration, which follows the retry          *)
(* configurations the server sends, a cached TLS configuration, and the    *)
(* trust store.  A dial retries the handshake once with a retry            *)
(* configuration, and once more with refreshed roots.  Meanwhile the       *)
(* server rotates its keys, its certificate moves to another issuer and    *)
(* the platform's store changes.                                           *)
(***************************************************************************)
EXTENDS TrustStore

CONSTANTS
    MaxKeys,     \* bound: ECH keys of the server, numbered from 1
    MaxEnv       \* bound: changes of the server and the platform

VARIABLES
    serverKey,   \* the ECH key the server accepts now
    serverRoot,  \* the issuer of its certificate
    envChanges,  \* changes so far
    ech,         \* EchDialer.ech: the shared configuration
    tlsConfig,   \* EchDialer.tls_config: [generation, ech, roots] or NoConfig
    tlsPc,       \* where each dial is
    trust,       \* the dial's trust snapshot
    config,      \* the TLS configuration of its handshake
    retry,       \* retry configuration received: a key, 0 for none
    echRetried,  \* this is the retry that dial_with_trust allows
    trustRetried \* this is the retry that dial_inner allows

serverVars == <<serverKey, serverRoot, envChanges>>
sharedVars == <<ech, tlsConfig>>
localVars  == <<tlsPc, trust, config, retry, echRetried, trustRetried>>
echVars    == <<trustVars, serverVars, sharedVars, localVars>>

NoConfig == [generation |-> 0, ech |-> 0, roots |-> {}]

EchInit ==
    /\ TrustInit
    /\ serverKey = 1 /\ ech = 1
    /\ serverRoot \in Roots
    /\ envChanges = 0
    /\ tlsConfig = NoConfig
    /\ tlsPc = [t \in Dials |-> "idle"]
    /\ trust = [t \in Dials |-> NoRoots]
    /\ config = [t \in Dials |-> NoConfig]
    /\ retry = [t \in Dials |-> 0]
    /\ echRetried = [t \in Dials |-> FALSE]
    /\ trustRetried = [t \in Dials |-> FALSE]

Goto(t, label) == tlsPc' = [tlsPc EXCEPT ![t] = label]

\* The dial returns, with a connection or an error.
Return(t) ==
    /\ Goto(t, "idle")
    /\ trust' = [trust EXCEPT ![t] = NoRoots]
    /\ config' = [config EXCEPT ![t] = NoConfig]
    /\ retry' = [retry EXCEPT ![t] = 0]
    /\ echRetried' = [echRetried EXCEPT ![t] = FALSE]
    /\ trustRetried' = [trustRetried EXCEPT ![t] = FALSE]

\* dial_inner takes a trust snapshot.
StartTls(t) ==
    /\ tlsPc[t] = "idle"
    /\ trust' = [trust EXCEPT ![t] = Store]
    /\ SnapshotTrust
    /\ Goto(t, "connecting")
    /\ UNCHANGED <<serverVars, sharedVars, config, retry, echRetried, trustRetried>>

\* Mutant: a cached configuration is reused whatever roots it was built with.
ConfigCachedForAnyTrust(t) == tlsConfig.ech = ech

ConfigCached(t) ==
    tlsConfig.generation = trust[t].generation /\ tlsConfig.ech = ech

\* dial_once has its TCP connection: config_for reads the shared ECH
\* configuration, and reuses or replaces the cached TLS configuration.  (Two
\* configurations of one key are alike here; the code compares identities,
\* which only makes it rebuild the same configuration.)
ConfigFor(t) ==
    /\ tlsPc[t] = "connecting"
    /\ LET new == IF ConfigCached(t) THEN tlsConfig
                  ELSE [generation |-> trust[t].generation, ech |-> ech,
                        roots |-> trust[t].roots]
       IN  tlsConfig' = new /\ config' = [config EXCEPT ![t] = new]
    /\ Goto(t, "handshake")
    /\ UNCHANGED <<trustVars, serverVars, ech, trust, retry, echRetried, trustRetried>>

\* The server answers.  Its certificate is verified first, also for the public
\* name of a rejection; a rejection may carry the server's current key.
HandshakeAnswered(t) ==
    /\ tlsPc[t] = "handshake"
    /\ IF serverRoot \in config[t].roots /\ config[t].ech = serverKey
       THEN Return(t)
       ELSE /\ IF serverRoot \notin config[t].roots
               THEN Goto(t, "unknown_issuer") /\ UNCHANGED retry
               ELSE /\ Goto(t, "rejected")
                    /\ \E key \in {0, serverKey} : retry' = [retry EXCEPT ![t] = key]
            /\ config' = [config EXCEPT ![t] = NoConfig]
            /\ UNCHANGED <<trust, echRetried, trustRetried>>
    /\ UNCHANGED <<trustVars, serverVars, sharedVars>>

\* Mutant: the retry uses the new configuration but does not share it.
ShareRetryNot(t) == UNCHANGED ech

ShareRetry(t) == ech' = retry[t]

\* dial_with_trust, first attempt rejected: the retry configuration is shared
\* with the other dials and tried once.  Without one the dial fails.  (A first
\* rejection also asks for a catalog refresh, the wakeup of CatalogService.)
RetryEch(t) ==
    /\ tlsPc[t] = "rejected"
    /\ IF retry[t] # 0 /\ ~echRetried[t]
       THEN /\ ShareRetry(t)
            /\ echRetried' = [echRetried EXCEPT ![t] = TRUE]
            /\ retry' = [retry EXCEPT ![t] = 0]
            /\ Goto(t, "connecting")
            /\ UNCHANGED <<trust, config, trustRetried>>
       ELSE Return(t) /\ UNCHANGED ech
    /\ UNCHANGED <<trustVars, serverVars, tlsConfig>>

\* dial_inner, unknown issuer: refresh() returns, at once or after a reload.
RefreshTrust(t) ==
    /\ tlsPc[t] = "unknown_issuer"
    /\ \/ trustRetried[t] /\ Return(t) /\ UNCHANGED trustVars
       \/ /\ ~trustRetried[t]
          /\ \/ RefreshReturns(t, trust[t].generation) /\ Goto(t, "refreshed")
             \/ RefreshReloads(t, trust[t].generation) /\ Goto(t, "reloading")
          /\ UNCHANGED <<trust, config, retry, echRetried, trustRetried>>
    /\ UNCHANGED <<serverVars, sharedVars>>

\* The handshake is repeated if the roots have changed.
RetryTrust(t) ==
    /\ \/ tlsPc[t] = "refreshed"
       \/ tlsPc[t] = "reloading" /\ refreshed[t] # NoRoots
    /\ IF refreshed[t].generation # trust[t].generation
       THEN /\ trust' = [trust EXCEPT ![t] = refreshed[t]]
            /\ trustRetried' = [trustRetried EXCEPT ![t] = TRUE]
            /\ echRetried' = [echRetried EXCEPT ![t] = FALSE]
            /\ Goto(t, "connecting")
            /\ UNCHANGED <<config, retry>>
       ELSE Return(t)
    /\ refreshed' = [refreshed EXCEPT ![t] = NoRoots]
    /\ UNCHANGED <<platform, trustRoots, trustGen, settled, worker, cooling,
                   scan, awaiting, removed, trusted, serverVars, sharedVars>>

\* Below TLS the dial fails, or its timeout drops it wherever it is; a reload
\* it awaits goes on without it.
AbandonDial(t) ==
    /\ tlsPc[t] # "idle"
    /\ Return(t)
    /\ refreshed' = [refreshed EXCEPT ![t] = NoRoots]
    /\ awaiting' = IF awaiting = t THEN NoDial ELSE awaiting
    /\ UNCHANGED <<platform, trustRoots, trustGen, settled, worker, cooling,
                   scan, removed, trusted, serverVars, sharedVars>>

EnvChange == envChanges < MaxEnv /\ envChanges' = envChanges + 1

RotateKey ==
    /\ EnvChange
    /\ serverKey < MaxKeys
    /\ serverKey' = serverKey + 1
    /\ UNCHANGED <<trustVars, serverRoot, sharedVars, localVars>>

Reissue ==
    /\ EnvChange
    /\ serverRoot' \in Roots \ {serverRoot}
    /\ UNCHANGED <<trustVars, serverKey, sharedVars, localVars>>

ChangePlatform ==
    /\ EnvChange
    /\ PlatformChanges
    /\ UNCHANGED <<serverKey, serverRoot, sharedVars, localVars>>

TrustWorks ==
    /\ ScanPlatform \/ ApplyReload \/ ReloadPanics \/ CooldownEnds
    /\ UNCHANGED <<serverVars, sharedVars, localVars>>

DialStep(t) ==
    \/ StartTls(t) \/ ConfigFor(t) \/ HandshakeAnswered(t) \/ RetryEch(t)
    \/ RefreshTrust(t) \/ RetryTrust(t) \/ AbandonDial(t)

EchNext ==
    \/ \E t \in Dials : DialStep(t)
    \/ RotateKey \/ Reissue \/ ChangePlatform \/ TrustWorks

\* A dial ends, by its timeout if not before; that one starts, or that the
\* server answers it in time, is not promised.
EchFairness == \A t \in Dials : WF_echVars(AbandonDial(t))

EchSpec == EchInit /\ [][EchNext]_echVars /\ EchFairness

-----------------------------------------------------------------------------
(***************************************************************************)
(* Every handshake verifies the server against the roots of the dial's own *)
(* trust snapshot, although dials that hold older and newer snapshots take *)
(* turns at the one cached TLS configuration; the roots are the ones that  *)
(* generation stands for, so the retry after a refresh really uses what    *)
(* the refresh found (ech.rs config_for, dial_inner).                      *)
(***************************************************************************)
HandshakeOwnTrust ==
    \A t \in Dials :
        /\ tlsPc[t] = "handshake" =>
              /\ config[t].generation = trust[t].generation
              /\ config[t].roots = trust[t].roots
        /\ trust[t].generation = trustGen => trust[t].roots = trustRoots

(***************************************************************************)
(* Trust is neither mixed up nor lost: handshakes use their own dial's     *)
(* roots, and no reload drops an anchor the platform still has (ech.rs     *)
(* config_for, trust.rs apply_reload).                                     *)
(***************************************************************************)
TrustSound == HandshakeOwnTrust /\ RootsNeverLost

(***************************************************************************)
(* Once the server's key is stable, dials stop needing the ECH retry: late *)
(* answers of dials that met an older key may put an old configuration     *)
(* back, but only so many are under way, and the next rejection that is    *)
(* not cut off by its dial's timeout repairs it (dial_with_trust).         *)
(***************************************************************************)
EchRetriesStop == <>[](\A t \in Dials : ~echRetried[t])
=============================================================================
