--------------------------- MODULE CatalogService ---------------------------
(***************************************************************************)
(* The service loop of `oixc-proxy serve` (src/src/cli.rs, CatalogService  *)
(* and run_serve) with what it shares: the control queue, the gate of the  *)
(* forced HTTP refresh and the routers of src/src/gateway.rs, the wakeup   *)
(* of src/src/catalog_refresh.rs, the cache of src/src/catalog_cache.rs.   *)
(*                                                                         *)
(* A catalog is the set of its proxies, numbered by the version of the     *)
(* remote catalog it was fetched from: two profiles of one name are two    *)
(* proxies, since build and retire compare whole profiles.  The steps of a *)
(* job are its awaits; what the code does between two of them is atomic.   *)
(* The API is external: a fetch returns the current remote catalog, an     *)
(* authentication error or another error.  Status records and log lines    *)
(* are left out, and so is the period of the refresh timer, which may      *)
(* fire whenever the loop selects.  A fetched catalog comes with metadata. *)
(* The listener limit that a reload changes is modelled in Admission.      *)
(***************************************************************************)
EXTENDS Integers, Sequences, FiniteSets

CONSTANTS
    Http,         \* HTTP clients that ask for refresh=1
    Control,      \* clients of the control socket
    Catalogs,     \* sets of node profiles that the API may return
    Configs,      \* valid configurations: records of ConfigFields
    Invalid,      \* a configuration file that does not load
    QueueLimit,   \* capacity of the control channel (8)
    MaxVersion,   \* bound: versions of the remote catalog
    MaxEdits,     \* bound: edits of the configuration file
    MaxCrashes,   \* bound: stops of the process
    MaxRejections, \* bound: ECH rejections that ask for a refresh
    Nobody        \* no requester, no catalog, no cache file, no metadata

\* acct: access_token; api: API URLs and secret; set: what
\* same_client_settings compares besides the token; bind: the fields that
\* require a restart.
ConfigFields == {"acct", "api", "set", "bind"}

\* Catalogs as `managed` keeps them, and files as the cache keeps them.
Accounts == {c.acct : c \in Configs}
Snapshots == [acct : Accounts, ver : 0 .. MaxVersion, nodes : Catalogs]
Envelopes == [label : Accounts, snap : Snapshots, info : BOOLEAN]

ASSUME CatalogAssumption ==
    /\ Http \cap Control = {}
    /\ Nobody \notin Http \cup Control
    /\ Nobody \notin Snapshots \cup Envelopes
    /\ {} \notin Catalogs
    /\ Invalid \notin Configs
    /\ \A c \in Configs : DOMAIN c = ConfigFields
    /\ QueueLimit \in Nat \ {0}
    /\ {MaxVersion, MaxEdits, MaxCrashes, MaxRejections} \subseteq Nat

Requesters == Http \cup Control

VARIABLES
    pc,       \* the service loop; "down" when the process does not run
    job,      \* the operation the loop runs
    before,   \* what was active when it began (history)
    file,     \* the configuration file
    service,  \* CatalogService.service, the active configuration
    managed,  \* CatalogService.managed, with its version
    router,   \* GatewayManager.router
    alive,    \* clients of published routers that are not closed
    sub,      \* GatewayManager.subscription
    cache,    \* nodes-cache.yaml
    queue,    \* the control channel
    answer,   \* what each requester waits for or got
    asked,    \* remote version when the requester asked (history)
    gate,     \* provider_refresh_gate
    wakeup,   \* the stored permit of CatalogRefresh.wakeup
    cooldown, \* less than COOLDOWN since the last request()
    remote,   \* the remote catalog
    edits,    \* edits so far
    crashes,  \* stops so far
    rejections \* ECH rejections so far

catalogVars == <<service, managed, router, alive, sub>>
askVars == <<queue, answer, asked, gate>>
wakeVars == <<wakeup, cooldown>>
envVars == <<file, remote, edits, crashes, rejections>>
vars == <<pc, job, before, catalogVars, cache, askVars, wakeVars, envVars>>

-----------------------------------------------------------------------------
Proxies == UNION Catalogs
Snapshot(acct) == [acct |-> acct, ver |-> remote.ver, nodes |-> remote.nodes]

\* What CatalogCache.store_snapshot writes: the envelope is labelled with the
\* account of the CatalogCache object.
Envelope(label, snap, info) == [label |-> label, snap |-> snap, info |-> info]

NoJob == [kind |-> "none", who |-> Nobody, live |-> FALSE, next |-> Nobody,
          snap |-> Nobody, built |-> Nobody, old |-> {}, result |-> "ok"]

Up == pc # "down"

\* The configuration a job works for: reload_inner uses the one it loaded.
Target == IF job.kind = "reload" THEN job.next ELSE service

\* The catalog a job builds from: a reload that fetched none keeps `managed`.
Source == IF job.snap = Nobody THEN managed ELSE job.snap

\* The options of SnellClient that a configuration determines.
ClientSettings(config) == <<config.acct, config.set>>

\* RuntimeConfig.same_client_settings
Reusable(old, new) == ClientSettings(old) = ClientSettings(new)

\* Router::build: an unchanged profile keeps its client if `previous` is
\* given, the others get a new one.
Build(config, nodes, previous) ==
    LET kept == {c \in previous : c.node \in nodes} IN
    [cfg |-> config,
     nodes |-> nodes,
     clients |-> kept \cup
         {[node |-> n, set |-> ClientSettings(config)] :
            n \in nodes \ {c.node : c \in kept}}]

Init ==
    /\ pc = "down"
    /\ job = NoJob
    /\ before = Nobody
    /\ file \in Configs
    /\ service = file
    /\ managed = Nobody
    /\ router = Nobody
    /\ alive = {}
    /\ sub = Nobody
    /\ cache = Nobody
    /\ queue = <<>>
    /\ answer = [r \in Requesters |-> "idle"]
    /\ asked = [r \in Requesters |-> 0]
    /\ gate = Nobody
    /\ wakeup = FALSE
    /\ cooldown = FALSE
    /\ remote \in {[ver |-> 0, nodes |-> nodes] : nodes \in Catalogs}
    /\ edits = 0
    /\ crashes = 0
    /\ rejections = 0

-----------------------------------------------------------------------------
(* Start and stop of the process *)

\* The state with which the loop is entered.
Serving(snap, info) ==
    /\ pc' = "select"
    /\ service' = file
    /\ managed' = snap
    /\ router' = Build(file, snap.nodes, {})
    /\ alive' = router'.clients
    /\ sub' = IF info THEN snap ELSE Nobody
    /\ UNCHANGED <<job, before, askVars, wakeVars, envVars>>

\* load_snapshot: the cache is usable if it belongs to the account of the
\* configuration.
Cached == cache # Nobody /\ cache.label = file.acct

StartFromCache ==
    /\ pc = "down" /\ file # Invalid /\ Cached
    /\ Serving(cache.snap, cache.info)
    /\ UNCHANGED cache

\* Without a usable cache the first fetch must succeed; that it is stored is
\* not required.
StartFromFetch(stored) ==
    /\ pc = "down" /\ file # Invalid /\ ~Cached
    /\ LET snap == Snapshot(file.acct) IN
       /\ Serving(snap, TRUE)
       /\ cache' = IF stored THEN Envelope(file.acct, snap, TRUE) ELSE cache

\* The process stops: killed, or the loop's future is dropped at an await.
Stop ==
    /\ Up /\ crashes < MaxCrashes
    /\ crashes' = crashes + 1
    /\ pc' = "down"
    /\ job' = NoJob
    /\ before' = Nobody
    /\ queue' = <<>>
    /\ answer' = [r \in Requesters |-> "idle"]
    /\ asked' = [r \in Requesters |-> 0]
    /\ gate' = Nobody
    /\ alive' = {}
    /\ sub' = Nobody
    /\ router' = Nobody
    /\ managed' = Nobody
    /\ wakeup' = FALSE
    /\ cooldown' = FALSE
    /\ UNCHANGED <<service, cache, file, remote, edits, rejections>>

-----------------------------------------------------------------------------
(* control::handle and GatewayManager::refresh_provider *)

\* try_send on the control channel.
Enqueue(r, cmd) ==
    /\ Len(queue) < QueueLimit
    /\ queue' = Append(queue, [who |-> r, cmd |-> cmd, live |-> TRUE])
    /\ answer' = [answer EXCEPT ![r] = "waiting"]
    /\ asked' = [asked EXCEPT ![r] = remote.ver]

\* A command arrives on the control socket; a full channel refuses it, which
\* leaves everything as it was.
ControlCommand(r, cmd) ==
    /\ Up /\ answer[r] = "idle"
    /\ Enqueue(r, cmd)
    /\ UNCHANGED <<pc, job, before, catalogVars, cache, gate, wakeVars,
                   envVars>>

\* refresh=1: try_lock on the gate, then try_send; a taken gate and a full
\* channel are a 503.
ForceRefresh(r) ==
    /\ Up /\ answer[r] = "idle" /\ gate = Nobody
    /\ gate' = r
    /\ Enqueue(r, "provider")
    /\ UNCHANGED <<pc, job, before, catalogVars, cache, wakeVars, envVars>>

OpenGate(r) == gate' = IF gate = r THEN Nobody ELSE gate

\* 180 s have passed: the receiver is dropped, which the loop sees as a
\* closed reply, and the gate opens.
AskTimeout(r) ==
    /\ answer[r] = "waiting"
    /\ answer' = [answer EXCEPT ![r] = "idle"]
    /\ asked' = [asked EXCEPT ![r] = 0]
    /\ queue' = [i \in DOMAIN queue |->
                   [queue[i] EXCEPT !.live = @ /\ queue[i].who # r]]
    /\ job' = [job EXCEPT !.live = @ /\ job.who # r]
    /\ OpenGate(r)
    /\ UNCHANGED <<pc, before, catalogVars, cache, wakeVars, envVars>>

\* The answer reaches the requester.  Only a forced refresh that succeeded
\* goes on, to the router's document.
Answer(r, ok) ==
    IF ok /\ r \in Http
    THEN /\ answer' = [answer EXCEPT ![r] = "ok"]
         /\ UNCHANGED <<asked, gate>>
    ELSE /\ answer' = [answer EXCEPT ![r] = "idle"]
         /\ asked' = [asked EXCEPT ![r] = 0]
         /\ OpenGate(r)

\* refresh_provider returns, which opens the gate ...
Received(r) ==
    /\ answer[r] = "ok"
    /\ answer' = [answer EXCEPT ![r] = "reading"]
    /\ OpenGate(r)
    /\ UNCHANGED <<pc, job, before, catalogVars, cache, queue, asked, wakeVars,
                   envVars>>

\* ... and the document of the current router is served.
Served(r) ==
    /\ answer[r] = "reading"
    /\ answer' = [answer EXCEPT ![r] = "idle"]
    /\ asked' = [asked EXCEPT ![r] = 0]
    /\ UNCHANGED <<pc, job, before, catalogVars, cache, queue, gate, wakeVars,
                   envVars>>

-----------------------------------------------------------------------------
(* CatalogRefresh::request, called by a dial whose ECH was rejected *)

EchRejected ==
    /\ Up /\ ~cooldown /\ rejections < MaxRejections
    /\ rejections' = rejections + 1
    /\ cooldown' = TRUE
    /\ wakeup' = TRUE
    /\ UNCHANGED <<pc, job, before, catalogVars, cache, askVars, file, remote,
                   edits, crashes>>

CooldownEnds ==
    /\ cooldown
    /\ cooldown' = FALSE
    /\ UNCHANGED <<pc, job, before, catalogVars, cache, askVars, wakeup,
                   envVars>>

-----------------------------------------------------------------------------
(* The select! of run_serve *)

Active == [service |-> service, managed |-> managed, router |-> router,
           cache |-> cache]

Begin(kind, who, step) ==
    /\ pc' = step
    /\ job' = [NoJob EXCEPT !.kind = kind, !.who = who, !.live = who # Nobody]
    /\ before' = Active

\* A request whose reply is closed is skipped.
TakeStale ==
    /\ pc = "select" /\ queue # <<>> /\ ~Head(queue).live
    /\ queue' = Tail(queue)
    /\ UNCHANGED <<pc, job, before, catalogVars, cache, answer, asked, gate,
                   wakeVars, envVars>>

\* Diagnostics are answered in place.
TakeDiagnostics ==
    /\ pc = "select" /\ queue # <<>> /\ Head(queue).live
    /\ Head(queue).cmd = "diagnostics"
    /\ queue' = Tail(queue)
    /\ Answer(Head(queue).who, TRUE)
    /\ UNCHANGED <<pc, job, before, catalogVars, cache, wakeVars, envVars>>

TakeReload ==
    /\ pc = "select" /\ queue # <<>> /\ Head(queue).live
    /\ Head(queue).cmd = "reload"
    /\ queue' = Tail(queue)
    /\ Begin("reload", Head(queue).who, "load")
    /\ UNCHANGED <<catalogVars, cache, answer, asked, gate, wakeVars, envVars>>

TakeRefresh ==
    /\ pc = "select" /\ queue # <<>> /\ Head(queue).live
    /\ Head(queue).cmd \in {"refresh", "provider"}
    /\ queue' = Tail(queue)
    /\ Begin(IF Head(queue).cmd = "provider" THEN "forced" ELSE "refresh",
             Head(queue).who, "fetch")
    /\ UNCHANGED <<catalogVars, cache, answer, asked, gate, wakeVars, envVars>>

\* refresh.tick()
Tick ==
    /\ pc = "select"
    /\ Begin("refresh", Nobody, "fetch")
    /\ UNCHANGED <<catalogVars, cache, askVars, wakeVars, envVars>>

\* Mutant: a wakeup is only looked at when no command waits.
TakeWakeupLast ==
    /\ pc = "select" /\ wakeup /\ queue = <<>>
    /\ wakeup' = FALSE
    /\ Begin("refresh", Nobody, "fetch")
    /\ UNCHANGED <<catalogVars, cache, askVars, cooldown, envVars>>

\* catalog_refresh.notified()
TakeWakeup ==
    /\ pc = "select" /\ wakeup
    /\ wakeup' = FALSE
    /\ Begin("refresh", Nobody, "fetch")
    /\ UNCHANGED <<catalogVars, cache, askVars, cooldown, envVars>>

-----------------------------------------------------------------------------
(* The steps of a job *)

Fail(kind) == job' = [job EXCEPT !.result = kind] /\ pc' = "finish"

\* reload_inner: an invalid file and a change that requires a restart end the
\* reload; only a change of account or API fetches.
LoadFails ==
    /\ pc = "load"
    /\ file # Invalid => file.bind # service.bind
    /\ Fail("error")
    /\ UNCHANGED <<before, catalogVars, cache, askVars, wakeVars, envVars>>

Load ==
    /\ pc = "load" /\ file # Invalid /\ file.bind = service.bind
    /\ job' = [job EXCEPT !.next = file]
    /\ pc' = IF file.acct # service.acct \/ file.api # service.api
             THEN "fetch" ELSE "build"
    /\ UNCHANGED <<before, catalogVars, cache, askVars, wakeVars, envVars>>

\* load_managed_catalog for the target account.
FetchOk ==
    /\ pc = "fetch"
    /\ job' = [job EXCEPT !.snap = Snapshot(Target.acct)]
    /\ pc' = "build"
    /\ UNCHANGED <<before, catalogVars, cache, askVars, wakeVars, envVars>>

FetchFails(kind) ==
    /\ pc = "fetch"
    /\ Fail(kind)
    /\ UNCHANGED <<before, catalogVars, cache, askVars, wakeVars, envVars>>

\* A refresh that brought the same proxies builds no router.
Rebuilds == job.kind = "reload" \/ Source.nodes # managed.nodes

\* Mutant: a reload takes the configuration over before its router is built.
BuildFailsLate ==
    /\ pc = "build" /\ Rebuilds
    /\ Fail("error")
    /\ service' = Target
    /\ UNCHANGED <<before, managed, router, alive, sub, cache, askVars,
                   wakeVars, envVars>>

\* The filter keeps no node, or a profile is not accepted.
BuildFails ==
    /\ pc = "build" /\ Rebuilds
    /\ Fail("error")
    /\ UNCHANGED <<before, catalogVars, cache, askVars, wakeVars, envVars>>

\* Router::build on the current router; a reload passes it as `previous` only
\* if the clients' settings are the same.
Previous ==
    IF Reusable(service, Target) THEN router.clients ELSE {}

\* Mutant: a forced refresh is stored like any other, after the switch.
AfterBuildUnstored == IF Rebuilds THEN "switch" ELSE "commit"

\* Where the job goes once built: a forced refresh stores first.
AfterBuild == IF job.kind = "forced" THEN "store"
              ELSE IF Rebuilds THEN "switch" ELSE "commit"

BuildOk ==
    /\ pc = "build"
    /\ job' = [job EXCEPT !.built = IF Rebuilds
                 THEN Build(Target, Source.nodes, Previous) ELSE Nobody]
    /\ pc' = AfterBuild
    /\ UNCHANGED <<before, catalogVars, cache, askVars, wakeVars, envVars>>

\* A forced refresh must not claim success if persistence failed.
StoreFails ==
    /\ pc = "store"
    /\ Fail("error")
    /\ UNCHANGED <<before, catalogVars, cache, askVars, wakeVars, envVars>>

StoreOk ==
    /\ pc = "store"
    /\ cache' = Envelope(service.acct, job.snap, TRUE)
    /\ pc' = IF Rebuilds THEN "switch" ELSE "commit"
    /\ UNCHANGED <<job, before, catalogVars, askVars, wakeVars, envVars>>

\* Mutant: every client of the previous router is closed.
ExclusiveAll(previous, replacement) == previous

\* retire_exclusive_runtimes: the clients that the replacement does not share.
Exclusive(previous, replacement) == previous \ replacement

\* GatewayManager::replace puts the router in place ...
Switch ==
    /\ pc = "switch"
    /\ router' = job.built
    /\ alive' = alive \cup job.built.clients
    /\ job' = [job EXCEPT !.old =
                 Exclusive(router.clients, job.built.clients)]
    /\ pc' = "retire"
    /\ UNCHANGED <<before, service, managed, sub, cache, askVars, wakeVars,
                   envVars>>

\* ... and closes the exclusive clients of the previous one, one by one.
CloseClient(c) ==
    /\ pc = "retire" /\ c \in job.old
    /\ alive' = alive \ {c}
    /\ job' = [job EXCEPT !.old = @ \ {c}]
    /\ UNCHANGED <<pc, before, service, managed, router, sub, cache, askVars,
                   wakeVars, envVars>>

RetireDone ==
    /\ pc = "retire" /\ job.old = {}
    /\ pc' = "commit"
    /\ UNCHANGED <<job, before, catalogVars, cache, askVars, wakeVars, envVars>>

\* apply_refreshed_catalog after the switch: metadata, cache (unless it was
\* stored before), `managed`.
CommitRefresh(stored) ==
    /\ pc = "commit" /\ job.kind # "reload"
    /\ sub' = job.snap
    /\ cache' = IF stored /\ job.kind # "forced"
                THEN Envelope(service.acct, job.snap, TRUE) ELSE cache
    /\ managed' = job.snap
    /\ pc' = "reply"
    /\ UNCHANGED <<job, before, service, router, alive, askVars, wakeVars,
                   envVars>>

\* Mutant: the metadata of the previous account stays.
CommitReloadKeepsMetadata(stored) ==
    /\ pc = "commit" /\ job.kind = "reload"
    /\ cache' = IF stored /\ job.snap # Nobody
                THEN Envelope(job.next.acct, job.snap, TRUE) ELSE cache
    /\ managed' = Source
    /\ service' = job.next
    /\ pc' = "reply"
    /\ UNCHANGED <<job, before, router, alive, sub, askVars, wakeVars, envVars>>

\* reload_inner after the switch: a fetched catalog replaces metadata, cache
\* and `managed`; then the new configuration is the active one.
CommitReload(stored) ==
    /\ pc = "commit" /\ job.kind = "reload"
    /\ sub' = IF job.snap = Nobody THEN sub ELSE job.snap
    /\ cache' = IF stored /\ job.snap # Nobody
                THEN Envelope(job.next.acct, job.snap, TRUE) ELSE cache
    /\ managed' = Source
    /\ service' = job.next
    /\ pc' = "reply"
    /\ UNCHANGED <<job, before, router, alive, askVars, wakeVars, envVars>>

\* finish_refresh of a failed job; an authentication error of a refresh that
\* was not forced clears the metadata, in memory and, if the write succeeds,
\* in the cache.
Clears == job.kind = "refresh" /\ job.result = "auth"

FinishFailed ==
    /\ pc = "finish" /\ ~Clears
    /\ pc' = "reply"
    /\ UNCHANGED <<job, before, catalogVars, cache, askVars, wakeVars, envVars>>

FinishCleared(stored) ==
    /\ pc = "finish" /\ Clears
    /\ sub' = Nobody
    /\ cache' = IF stored THEN Envelope(service.acct, managed, FALSE)
                ELSE cache
    /\ pc' = "reply"
    /\ UNCHANGED <<job, before, service, managed, router, alive, askVars,
                   wakeVars, envVars>>

\* The response goes to the requester, if it still waits.
Reply ==
    /\ pc = "reply"
    /\ IF job.live THEN Answer(job.who, job.result = "ok")
                   ELSE UNCHANGED <<answer, asked, gate>>
    /\ pc' = "select"
    /\ job' = NoJob
    /\ before' = Nobody
    /\ UNCHANGED <<catalogVars, cache, queue, wakeVars, envVars>>

-----------------------------------------------------------------------------
(* The environment *)

EditFile(f) ==
    /\ edits < MaxEdits /\ f # file
    /\ file' = f
    /\ edits' = edits + 1
    /\ UNCHANGED <<pc, job, before, catalogVars, cache, askVars, wakeVars,
                   remote, crashes, rejections>>

RemoteChanges(nodes) ==
    /\ remote.ver < MaxVersion
    /\ remote' = [ver |-> remote.ver + 1, nodes |-> nodes]
    /\ UNCHANGED <<pc, job, before, catalogVars, cache, askVars, wakeVars,
                   file, edits, crashes, rejections>>

-----------------------------------------------------------------------------
TakeRequest == TakeStale \/ TakeDiagnostics \/ TakeReload \/ TakeRefresh

JobStep ==
    \/ LoadFails \/ Load \/ FetchOk
    \/ \E kind \in {"auth", "error"} : FetchFails(kind)
    \/ BuildFails \/ BuildOk \/ StoreFails \/ StoreOk \/ Switch
    \/ (\E c \in job.old : CloseClient(c)) \/ RetireDone
    \/ \E stored \in BOOLEAN : \/ CommitRefresh(stored)
                               \/ CommitReload(stored)
                               \/ FinishCleared(stored)
    \/ FinishFailed \/ Reply

Ask(r) ==
    \/ r \in Http /\ ForceRefresh(r)
    \/ /\ r \in Control
       /\ \E cmd \in {"refresh", "reload", "diagnostics"} :
            ControlCommand(r, cmd)
    \/ AskTimeout(r) \/ Received(r) \/ Served(r)

Next ==
    \/ StartFromCache \/ (\E stored \in BOOLEAN : StartFromFetch(stored))
    \/ Stop
    \/ \E r \in Requesters : Ask(r)
    \/ EchRejected \/ CooldownEnds
    \/ TakeRequest \/ Tick \/ TakeWakeup
    \/ JobStep
    \/ \E f \in Configs \cup {Invalid} : EditFile(f)
    \/ \E nodes \in Catalogs : RemoteChanges(nodes)

\* Every await of a job ends (the API client has timeouts, the locks are held
\* briefly).  tokio::select! polls its branches from a random one, so neither
\* a waiting command nor a stored wakeup is passed over for ever.
Fairness ==
    /\ WF_vars(JobStep)
    /\ SF_vars(TakeRequest)
    /\ SF_vars(TakeWakeup)

Spec == Init /\ [][Next]_vars /\ Fairness

-----------------------------------------------------------------------------
(* Properties *)

\* Between two jobs everything the service shows belongs together: the router
\* was built from the active configuration and the managed catalog, both are
\* of the active account, and so is the subscription metadata, whatever
\* reloads, refreshes and failures went before.  And at no time does the cache
\* hold one account's catalog under the fingerprint of another: what a restart
\* loads was fetched with the token it runs with.
OneAccount ==
    /\ pc = "select" =>
         /\ router.cfg = service
         /\ router.nodes = managed.nodes
         /\ managed.acct = service.acct
         /\ sub \in {Nobody, managed}
    /\ cache # Nobody => cache.label = cache.snap.acct

\* A router in place never routes to a closed client, although refreshes share
\* clients between routers; between two jobs nothing but its clients is open,
\* and all of them were made with the active settings.
ClientsServed ==
    /\ router # Nobody => router.clients \subseteq alive
    /\ pc = "select" =>
         /\ alive = router.clients
         /\ \A c \in alive : c.set = ClientSettings(service)

\* A forced refresh that reports success serves, and has stored, a catalog
\* that was fetched after the request was made: never stale nodes, even if
\* other jobs, failed writes or timeouts of earlier requests came in between.
ForcedIsFresh ==
    \A r \in Http : answer[r] \in {"ok", "reading"} =>
      /\ managed.ver >= asked[r]
      /\ cache # Nobody /\ cache.snap.ver >= asked[r]

\* A failed refresh or reload keeps the configuration, the router with its
\* pools and the catalog that were active; a failed forced one also keeps the
\* cache file.
FailureKeepsCatalog ==
    pc \in {"finish", "reply"} /\ job.result # "ok" =>
      /\ service = before.service
      /\ managed = before.managed
      /\ router = before.router
      /\ job.kind = "forced" => cache = before.cache

\* A forced refresh does all it promises or nothing: ForcedIsFresh of the
\* ones that succeed, FailureKeepsCatalog of the ones that fail.
ForcedAllOrNothing == ForcedIsFresh /\ FailureKeepsCatalog

\* Every command is answered by the loop itself, not by its timeout, however
\* many ticks, wakeups and other commands compete for the loop.
CommandsAnswered ==
    \A r \in Requesters : answer[r] = "waiting" ~> answer[r] # "waiting"

\* An ECH rejection that was noted leads to a refresh, however busy the loop.
WakeupServed ==
    wakeup ~> (pc \in {"fetch", "down"} /\ ~wakeup)

\* Nothing the select! loop waits on is starved: CommandsAnswered and
\* WakeupServed.
LoopServesAll == CommandsAnswered /\ WakeupServed
=============================================================================
