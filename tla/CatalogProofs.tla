---------------------------- MODULE CatalogProofs ----------------------------
(***************************************************************************)
(* Safety of CatalogService for every set of clients, catalogs and         *)
(* configurations.  The invariant says, for each await of a job, what the  *)
(* job has gathered (JobShape), what belongs together (Consistent), what   *)
(* it has not touched yet (History), who waits for what (Asking), and in   *)
(* which order versions follow each other (Dated).                         *)
(***************************************************************************)
EXTENDS CatalogService, SequenceTheorems, TLAPS

Commands == {"provider", "refresh", "reload", "diagnostics"}
Entries == [who : Requesters, cmd : Commands, live : BOOLEAN]
Clients == [node : Proxies, set : {ClientSettings(c) : c \in Configs}]
Routers == [cfg : Configs, nodes : Catalogs, clients : SUBSET Clients]
Jobs == [kind : {"none", "refresh", "forced", "reload"},
         who : Requesters \cup {Nobody}, live : BOOLEAN,
         next : Configs \cup {Nobody}, snap : Snapshots \cup {Nobody},
         built : Routers \cup {Nobody}, old : SUBSET Clients,
         result : {"ok", "auth", "error"}]
Steps == {"load", "fetch", "build", "store", "switch", "retire", "commit",
          "finish", "reply"}

TypeOK ==
    /\ pc \in {"down", "select"} \cup Steps
    /\ job \in Jobs
    /\ file \in Configs \cup {Invalid}
    /\ service \in Configs
    /\ Up => managed \in Snapshots /\ router \in Routers
    /\ cache \in Envelopes \cup {Nobody}
    /\ remote \in [ver : 0 .. MaxVersion, nodes : Catalogs]
    /\ queue \in Seq(Entries)
    /\ answer \in [Requesters -> {"idle", "waiting", "ok", "reading"}]
    /\ asked \in [Requesters -> 0 .. MaxVersion]

\* The steps at which a job has the catalog it works with.
Fetched == {"build", "store", "switch", "retire", "commit"}

\* What a job has gathered at each step.
JobShape ==
    /\ ~Up => router = Nobody
    /\ pc \in {"down", "select"} =>
         job.kind = "none" /\ job.snap = Nobody /\ ~job.live
    /\ pc \in Steps => job.kind # "none"
    /\ pc = "load" => job.kind = "reload" /\ job.snap = Nobody
    /\ pc = "store" => job.kind = "forced"
    /\ pc \in {"fetch"} \cup Fetched /\ job.kind = "reload" =>
         job.next \in Configs
    /\ pc \in Fetched => /\ Source.acct = Target.acct
                         /\ job.kind # "reload" => job.snap # Nobody
    /\ pc = "switch" \/ (pc = "store" /\ Rebuilds) =>
         job.built = Build(Target, Source.nodes, Previous)
    /\ pc \in Steps \ {"retire", "reply"} => job.old = {}

\* At rest: configuration, router, catalog, metadata and clients are one.
Belongs ==
    /\ router.cfg = service
    /\ router.nodes = managed.nodes
    /\ managed.acct = service.acct
    /\ sub \in {Nobody, managed}
    /\ alive = router.clients
    /\ \A c \in router.clients : c.set = ClientSettings(service)

\* Between the switch and the commit: the router is the new one, and the open
\* clients are its own and those still to be closed.
Replaced ==
    /\ router.cfg = Target
    /\ router.nodes = Source.nodes
    /\ sub \in {Nobody, managed}
    /\ alive = router.clients \cup job.old
    /\ job.old \cap router.clients = {}
    /\ \A c \in router.clients : c.set = ClientSettings(Target)

Consistent ==
    /\ Up /\ pc \notin {"retire", "commit"} => Belongs
    /\ pc \in {"retire", "commit"} => Replaced
    /\ cache # Nobody => cache.label = cache.snap.acct

\* While a job can fail it has changed nothing.
History ==
    /\ pc \in {"load", "fetch", "build", "store"} => before = Active
    /\ pc \in {"load", "fetch"} \cup Fetched => job.result = "ok"
    /\ pc = "finish" => job.result # "ok"
    /\ FailureKeepsCatalog

\* A request that is alive is queued or worked on, once, and its requester
\* waits; HTTP clients ask for nothing but forced refreshes.
Asking ==
    /\ \A i \in 1 .. Len(queue) :
         /\ queue[i].who \in Http => queue[i].cmd = "provider"
         /\ queue[i].live => /\ answer[queue[i].who] = "waiting"
                             /\ job.live => job.who # queue[i].who
    /\ \A i, j \in 1 .. Len(queue) :
         queue[i].live /\ queue[j].live /\ queue[i].who = queue[j].who => i = j
    /\ job.live => /\ job.who \in Requesters
                   /\ answer[job.who] = "waiting"
                   /\ job.who \in Http => job.kind = "forced"
    /\ ~Up => queue = <<>> /\ \A r \in Requesters : answer[r] = "idle"

\* Versions: nothing is newer than the remote catalog, a fetched catalog is not
\* older than the managed one or than the request it is fetched for, and a
\* forced refresh has stored what it switches to.
Dated ==
    /\ \A r \in Requesters : asked[r] <= remote.ver
    /\ Up => managed.ver <= remote.ver
    /\ cache # Nobody => cache.snap.ver <= remote.ver
    /\ job.snap # Nobody =>
         /\ managed.ver <= job.snap.ver
         /\ job.snap.ver <= remote.ver
         /\ job.live => asked[job.who] <= job.snap.ver
    /\ job.kind = "forced" /\ pc \in {"switch", "retire", "commit"} =>
         cache # Nobody /\ cache.snap = job.snap
    /\ job.kind = "forced" /\ pc = "reply" /\ job.result = "ok" =>
         /\ cache # Nobody /\ cache.snap = job.snap
         /\ job.snap # Nobody /\ managed = job.snap

CatInv ==
    /\ TypeOK /\ JobShape /\ Consistent /\ History /\ Asking /\ Dated
    /\ ForcedIsFresh

-----------------------------------------------------------------------------
(* Operators *)

\* The account of a configuration.
LEMMA AccountOf ==
    ASSUME NEW c \in Configs
    PROVE  c.acct \in Accounts
BY DEF Accounts

\* A fetch returns a catalog of the given account and the remote version.
LEMMA SnapshotType ==
    ASSUME TypeOK, NEW a \in Accounts
    PROVE  /\ Snapshot(a) \in Snapshots
           /\ Snapshot(a).acct = a
           /\ Snapshot(a).ver = remote.ver
           /\ Snapshot(a) # Nobody
<1>1. /\ Snapshot(a) \in Snapshots
      /\ Snapshot(a).acct = a
      /\ Snapshot(a).ver = remote.ver
  BY DEF Snapshot, Snapshots, TypeOK
<1> QED  BY <1>1, CatalogAssumption

\* What is stored has the label and the catalog it was stored with.
LEMMA EnvelopeType ==
    ASSUME NEW a \in Accounts, NEW s \in Snapshots, NEW b \in BOOLEAN
    PROVE  /\ Envelope(a, s, b) \in Envelopes
           /\ Envelope(a, s, b) # Nobody
           /\ Envelope(a, s, b).label = a
           /\ Envelope(a, s, b).snap = s
<1>1. /\ Envelope(a, s, b) \in Envelopes
      /\ Envelope(a, s, b).label = a
      /\ Envelope(a, s, b).snap = s
  BY DEF Envelope, Envelopes
<1> QED  BY <1>1, CatalogAssumption

\* Router::build makes a router.
LEMMA BuildType ==
    ASSUME NEW config \in Configs, NEW nodes \in Catalogs,
           NEW previous \in SUBSET Clients
    PROVE  Build(config, nodes, previous) \in Routers
<1> DEFINE kept == {c \in previous : c.node \in nodes}
           made == {[node |-> n, set |-> ClientSettings(config)] :
                      n \in nodes \ {c.node : c \in kept}}
<1>1. nodes \subseteq Proxies
  BY DEF Proxies
<1>2. made \subseteq Clients
  BY <1>1 DEF Clients
<1>3. kept \cup made \in SUBSET Clients
  BY <1>2
<1>4. Build(config, nodes, previous)
        = [cfg |-> config, nodes |-> nodes, clients |-> kept \cup made]
  BY DEF Build
<1> HIDE DEF kept, made
<1> QED  BY <1>3, <1>4 DEF Routers

\* The router is for the given configuration and nodes, and each of its
\* clients is one of the previous router or has the configuration's settings.
LEMMA BuildFields ==
    ASSUME NEW config, NEW nodes, NEW previous
    PROVE  LET b == Build(config, nodes, previous) IN
           /\ b.cfg = config
           /\ b.nodes = nodes
           /\ \A c \in b.clients :
                c \in previous \/ c.set = ClientSettings(config)
BY DEF Build

\* What the loop takes from the queue and what it leaves.
LEMMA HeadTail ==
    ASSUME TypeOK, queue # <<>>
    PROVE  /\ Len(queue) \in Nat \ {0}
           /\ Head(queue) = queue[1]
           /\ queue[1] \in Entries
           /\ Tail(queue) \in Seq(Entries)
           /\ Len(Tail(queue)) = Len(queue) - 1
           /\ \A i \in 1 .. Len(Tail(queue)) :
                Tail(queue)[i] = queue[i + 1] /\ i + 1 \in 1 .. Len(queue)
BY DEF TypeOK

\* Every request in the queue has a requester.
LEMMA EntryAt ==
    ASSUME TypeOK, NEW i \in 1 .. Len(queue)
    PROVE  /\ queue[i] \in Entries
           /\ queue[i].who \in Requesters
<1>1. queue[i] \in Entries
  BY DEF TypeOK
<1> QED  BY <1>1 DEF Entries

-----------------------------------------------------------------------------
(* The steps *)

\* Requests and the environment leave alone what the loop works on.
LEMMA JobUntouched ==
    ASSUME JobShape, Consistent, History,
           UNCHANGED <<pc, job, before, catalogVars, cache>>
    PROVE  JobShape' /\ Consistent' /\ History'
<1> USE DEF catalogVars, Up, Source, Target
<1>1. JobShape'
  BY DEF JobShape, Rebuilds, Previous, Reusable
<1>2. Consistent'
  BY DEF Consistent, Belongs, Replaced
<1>3. History'
  BY DEF History, FailureKeepsCatalog, Active
<1> QED  BY <1>1, <1>2, <1>3

\* Wakeups, their cooldown and idle steps touch nothing of this.
LEMMA QuietStep ==
    ASSUME CatInv, EchRejected \/ CooldownEnds \/ UNCHANGED vars
    PROVE  CatInv'
<1>1. UNCHANGED <<pc, job, before, catalogVars, cache, askVars, file, remote>>
  BY DEF EchRejected, CooldownEnds, vars, envVars
<1>2. JobShape' /\ Consistent' /\ History'
  BY <1>1, JobUntouched DEF CatInv
<1>3. TypeOK' /\ Asking' /\ Dated' /\ ForcedIsFresh'
  BY <1>1 DEF CatInv, TypeOK, Asking, Dated, ForcedIsFresh, Up, catalogVars,
    askVars
<1> QED  BY <1>2, <1>3 DEF CatInv

\* run_serve starts from a cache of its own account.
LEMMA StartFromCacheStep ==
    ASSUME CatInv, StartFromCache
    PROVE  CatInv'
<1>1. TypeOK'
  <2>1. file \in Configs /\ cache.snap \in Snapshots
    BY DEF CatInv, TypeOK, StartFromCache, Cached, Envelopes
  <2>2. cache.snap.nodes \in Catalogs
    BY <2>1 DEF Snapshots
  <2>3. Build(file, cache.snap.nodes, {}) \in Routers
    BY <2>1, <2>2, BuildType
  <2> QED  BY <2>1, <2>3 DEF CatInv, TypeOK, StartFromCache, Serving, askVars, envVars
<1>2. JobShape'
  BY DEF CatInv, TypeOK, Jobs, JobShape, Source, Target, Steps, Fetched, Up,
    StartFromCache, Serving, Cached, Build
<1>3. Consistent'
  BY DEF CatInv, Consistent, Belongs, Up, StartFromCache, Serving, Cached,
    Build
<1>4. History'
  BY DEF CatInv, TypeOK, Jobs, History, FailureKeepsCatalog, Active,
    Fetched, Up, StartFromCache, Serving, Cached, Build
<1>5. Asking'
  BY DEF CatInv, Asking, Up, StartFromCache, Serving, Cached, Build, askVars
<1>6. Dated'
  <2>1. cache # Nobody /\ cache.snap \in Snapshots
    BY DEF CatInv, TypeOK, StartFromCache, Cached, Envelopes
  <2>2. pc = "down" /\ pc' = "select" /\ managed' = cache.snap
        /\ UNCHANGED <<job, cache, asked, remote>>
    BY DEF CatInv, JobShape, StartFromCache, Serving, askVars, envVars
  <2>3. job.snap = Nobody /\ job.kind = "none"
    BY <2>2 DEF CatInv, JobShape
  <2> QED  BY <2>1, <2>2, <2>3 DEF CatInv, Dated
<1>7. ForcedIsFresh'
  BY DEF CatInv, ForcedIsFresh, Up, StartFromCache, Serving, Cached, Build,
    askVars
<1> QED  BY <1>1, <1>2, <1>3, <1>4, <1>5, <1>6, <1>7 DEF CatInv

\* run_serve starts from a first fetch, stored or not.
LEMMA StartFromFetchStep ==
    ASSUME CatInv, NEW stored \in BOOLEAN, StartFromFetch(stored)
    PROVE  CatInv'
<1>1. TypeOK'
  <2>1. file \in Configs
    BY DEF CatInv, TypeOK, StartFromFetch
  <2> DEFINE snap == Snapshot(file.acct)
  <2>2. snap \in Snapshots
    BY <2>1, AccountOf, SnapshotType DEF CatInv
  <2>3. snap.nodes \in Catalogs
    BY <2>2 DEF Snapshots
  <2>4. Build(file, snap.nodes, {}) \in Routers
    BY <2>1, <2>3, BuildType
  <2>5. Envelope(file.acct, snap, TRUE) \in Envelopes
    BY <2>1, <2>2, AccountOf, EnvelopeType
  <2>6. Serving(snap, TRUE)
        /\ cache' = IF stored THEN Envelope(file.acct, snap, TRUE) ELSE cache
    BY DEF StartFromFetch
  <2> HIDE DEF snap
  <2> QED  BY <2>1, <2>2, <2>4, <2>5, <2>6
           DEF CatInv, TypeOK, Serving, askVars, envVars
<1>2. JobShape'
  BY DEF CatInv, TypeOK, Jobs, JobShape, Source, Target, Steps, Fetched, Up,
    StartFromFetch, Serving, Cached, Build, Snapshot, Envelope
<1>3. Consistent'
  BY DEF CatInv, Consistent, Belongs, Up, StartFromFetch, Serving, Cached,
    Build, Snapshot, Envelope
<1>4. History'
  BY DEF CatInv, TypeOK, Jobs, History, FailureKeepsCatalog, Active,
    Fetched, Up, StartFromFetch, Serving, Cached, Build, Snapshot, Envelope
<1>5. Asking'
  BY DEF CatInv, Asking, Up, StartFromFetch, Serving, Cached, Build,
    Snapshot, Envelope, askVars
<1>6. Dated'
  <2>1. file \in Configs
    BY DEF CatInv, TypeOK, StartFromFetch
  <2> DEFINE snap == Snapshot(file.acct)
  <2>2. snap \in Snapshots /\ snap.ver = remote.ver
    BY <2>1, AccountOf, SnapshotType DEF CatInv
  <2> DEFINE e == Envelope(file.acct, snap, TRUE)
  <2>3. e.snap = snap
    BY <2>1, <2>2, AccountOf, EnvelopeType
  <2>4. /\ pc = "down" /\ pc' = "select" /\ managed' = snap
        /\ UNCHANGED <<job, asked, remote>>
        /\ cache' = cache \/ cache' = e
    BY DEF CatInv, JobShape, StartFromFetch, Serving, askVars, envVars
  <2>5. job.snap = Nobody /\ job.kind = "none"
    BY <2>4 DEF CatInv, JobShape
  <2>6. remote.ver \in Nat
    BY CatalogAssumption DEF CatInv, TypeOK
  <2> HIDE DEF snap, e
  <2>7. managed'.ver <= remote'.ver
    BY <2>2, <2>4, <2>6
  <2>8. cache' # Nobody => cache'.snap.ver <= remote'.ver
    <3>1. CASE cache' = cache
      BY <2>4, <3>1 DEF CatInv, Dated
    <3>2. CASE cache' = e
      BY <2>2, <2>3, <2>4, <2>6, <3>2
    <3> QED  BY <2>4, <3>1, <3>2
  <2> QED  BY <2>4, <2>5, <2>7, <2>8 DEF CatInv, Dated
<1>7. ForcedIsFresh'
  BY DEF CatInv, TypeOK, Requesters, Asking, ForcedIsFresh, Up,
    StartFromFetch, Serving, Cached, Build, Snapshot, Envelope, askVars
<1> QED  BY <1>1, <1>2, <1>3, <1>4, <1>5, <1>6, <1>7 DEF CatInv

\* A process that stops leaves its cache file.
LEMMA StopStep ==
    ASSUME CatInv, Stop
    PROVE  CatInv'
<1>1. TypeOK'
  BY CatalogAssumption DEF CatInv, TypeOK, Jobs, Steps, NoJob, Up, Stop
<1>2. JobShape'
  BY DEF CatInv, TypeOK, Jobs, JobShape, Source, Target, Steps, Fetched, Up,
    Stop, NoJob
<1>3. Consistent'
  BY DEF CatInv, Consistent, Up, Stop, NoJob
<1>4. History'
  BY DEF CatInv, History, FailureKeepsCatalog, Up, Stop, NoJob
<1>5. Asking'
  BY DEF CatInv, Asking, Up, Stop, NoJob
<1>6. Dated'
  BY DEF CatInv, TypeOK, Jobs, Dated, Up, Stop, NoJob
<1>7. ForcedIsFresh'
  BY DEF CatInv, TypeOK, Requesters, ForcedIsFresh, Up, Stop, NoJob
<1> QED  BY <1>1, <1>2, <1>3, <1>4, <1>5, <1>6, <1>7 DEF CatInv

\* A command of the control socket is queued behind the others.
LEMMA ControlCommandStep ==
    ASSUME CatInv, NEW r \in Control, NEW cmd \in {"refresh", "reload", "diagnostics"},
           ControlCommand(r, cmd)
    PROVE  CatInv'
<1>1. TypeOK'
  BY CatalogAssumption DEF CatInv, TypeOK, Jobs, Steps, Requesters, Entries,
    Commands, Up, ControlCommand, Enqueue, catalogVars, envVars
<1>2. JobShape' /\ Consistent' /\ History'
  BY JobUntouched DEF CatInv, ControlCommand
<1>3. Asking'
  BY CatalogAssumption DEF CatInv, TypeOK, Jobs, Asking, JobShape,
    Requesters, Entries, Commands, Up, ControlCommand, Enqueue
<1>4. Dated'
  BY DEF CatInv, TypeOK, Jobs, JobShape, Dated, Asking, Up, ControlCommand,
    Enqueue, catalogVars, envVars
<1>5. ForcedIsFresh'
  BY DEF CatInv, ForcedIsFresh, Up, ControlCommand, Enqueue, catalogVars
<1> QED  BY <1>1, <1>2, <1>3, <1>4, <1>5 DEF CatInv

\* A forced refresh takes the gate and is queued.
LEMMA ForceRefreshStep ==
    ASSUME CatInv, NEW r \in Http, ForceRefresh(r)
    PROVE  CatInv'
<1>1. TypeOK'
  BY CatalogAssumption DEF CatInv, TypeOK, Jobs, Steps, Requesters, Entries,
    Commands, Up, ForceRefresh, Enqueue, catalogVars, envVars
<1>2. JobShape' /\ Consistent' /\ History'
  BY JobUntouched DEF CatInv, ForceRefresh
<1>3. Asking'
  BY DEF CatInv, TypeOK, Jobs, Asking, JobShape, Requesters, Up,
    ForceRefresh, Enqueue
<1>4. Dated'
  BY DEF CatInv, TypeOK, Jobs, JobShape, Dated, Asking, Up, ForceRefresh,
    Enqueue, catalogVars, envVars
<1>5. ForcedIsFresh'
  BY DEF CatInv, ForcedIsFresh, Up, ForceRefresh, Enqueue, catalogVars
<1> QED  BY <1>1, <1>2, <1>3, <1>4, <1>5 DEF CatInv

\* A requester that gives up leaves its request behind, which is dead from
\* then on, in the queue or at work.
LEMMA AskTimeoutStep ==
    ASSUME CatInv, NEW r \in Requesters, AskTimeout(r)
    PROVE  CatInv'
<1>1. TypeOK'
  <2>1. queue \in Seq(Entries) /\ DOMAIN queue = 1 .. Len(queue)
        /\ Len(queue) \in Nat
    BY DEF CatInv, TypeOK
  <2>2. \A i \in 1 .. Len(queue) :
          [queue[i] EXCEPT !.live = @ /\ queue[i].who # r] \in Entries
    <3> TAKE i \in 1 .. Len(queue)
    <3>1. queue[i] \in Entries
      BY EntryAt DEF CatInv
    <3>2. (queue[i].live /\ queue[i].who # r) \in BOOLEAN
      OBVIOUS
    <3> QED  BY <3>1, <3>2 DEF Entries
  <2>3. queue' \in Seq(Entries)
    BY <2>1, <2>2 DEF AskTimeout
  <2>4. job' \in Jobs
    BY DEF AskTimeout, CatInv, TypeOK, Jobs
  <2>5. answer' \in [Requesters -> {"idle", "waiting", "ok", "reading"}]
        /\ asked' \in [Requesters -> 0 .. MaxVersion]
    BY CatalogAssumption DEF AskTimeout, CatInv, TypeOK
  <2> QED  BY <2>3, <2>4, <2>5
           DEF AskTimeout, CatInv, TypeOK, Up, catalogVars, envVars
<1>2. JobShape'
  <2>1. /\ job'.kind = job.kind /\ job'.who = job.who
        /\ job'.next = job.next /\ job'.snap = job.snap
        /\ job'.built = job.built /\ job'.old = job.old
        /\ job'.result = job.result
        /\ job'.live <=> job.live /\ job.who # r
    BY DEF AskTimeout, CatInv, TypeOK, Jobs
  <2>3. UNCHANGED <<pc, service, managed, router>>
    BY DEF AskTimeout, catalogVars
  <2>4. Source' = Source /\ Target' = Target /\ Previous' = Previous
        /\ (Rebuilds' <=> Rebuilds)
    BY <2>1, <2>3 DEF Source, Target, Previous, Rebuilds, Reusable
  <2> QED  BY <2>1, <2>3, <2>4 DEF CatInv, JobShape, Up
<1>3. Consistent'
  BY DEF CatInv, Consistent, Belongs, Replaced, Source, Target, Up,
    AskTimeout, catalogVars
<1>4. History'
  BY DEF CatInv, History, FailureKeepsCatalog, Active, Up, AskTimeout,
    catalogVars
<1>5. Asking'
  <2>1. /\ job'.kind = job.kind /\ job'.who = job.who
        /\ job'.next = job.next /\ job'.snap = job.snap
        /\ job'.built = job.built /\ job'.old = job.old
        /\ job'.result = job.result
        /\ job'.live <=> job.live /\ job.who # r
    BY DEF AskTimeout, CatInv, TypeOK, Jobs
  <2>2. /\ DOMAIN queue = 1 .. Len(queue) /\ Len(queue) \in Nat
        /\ \A i \in 1 .. Len(queue) : queue[i] \in Entries
    BY DEF CatInv, TypeOK
  <2>3. Len(queue') = Len(queue)
    BY <2>2 DEF AskTimeout
  <2>4. \A i \in 1 .. Len(queue) :
          /\ queue'[i].who = queue[i].who
          /\ queue'[i].cmd = queue[i].cmd
          /\ queue'[i].live <=> queue[i].live /\ queue[i].who # r
    BY <2>2 DEF AskTimeout, Entries
  <2>5. \A q \in Requesters : q # r => answer'[q] = answer[q]
    BY DEF AskTimeout, CatInv, TypeOK
  <2>6. \A i \in 1 .. Len(queue) : queue[i].who \in Requesters
    BY <2>2 DEF Entries
  <2>7. Up /\ Up'
    BY DEF AskTimeout, CatInv, Asking, Up
  <2> QED  BY <2>1, <2>3, <2>4, <2>5, <2>6, <2>7 DEF CatInv, Asking
<1>6. Dated'
  BY CatalogAssumption DEF CatInv, TypeOK, Jobs, JobShape, Dated, Asking,
    Source, Target, Snapshots, Requesters, Fetched, Steps, Up, AskTimeout,
    catalogVars, envVars
<1>7. ForcedIsFresh'
  BY DEF CatInv, ForcedIsFresh, Up, AskTimeout, catalogVars
<1> QED  BY <1>1, <1>2, <1>3, <1>4, <1>5, <1>6, <1>7 DEF CatInv

\* refresh_provider returns to the request that asked.
LEMMA ReceivedStep ==
    ASSUME CatInv, NEW r \in Requesters, Received(r)
    PROVE  CatInv'
<1>1. TypeOK'
  BY DEF CatInv, TypeOK, Up, Received, catalogVars, envVars
<1>2. JobShape' /\ Consistent' /\ History'
  BY JobUntouched DEF CatInv, Received
<1>3. Asking'
  BY DEF CatInv, Asking, Up, Received
<1>4. Dated'
  BY DEF CatInv, Dated, Up, Received, catalogVars, envVars
<1>5. ForcedIsFresh'
  BY DEF CatInv, ForcedIsFresh, Up, Received, catalogVars
<1> QED  BY <1>1, <1>2, <1>3, <1>4, <1>5 DEF CatInv

\* A request that has been served has no claim left.
LEMMA ServedStep ==
    ASSUME CatInv, NEW r \in Requesters, Served(r)
    PROVE  CatInv'
<1>1. TypeOK'
  BY CatalogAssumption DEF CatInv, TypeOK, Jobs, Steps, NoJob, Up, Served,
    catalogVars, envVars
<1>2. JobShape' /\ Consistent' /\ History'
  BY JobUntouched DEF CatInv, Served
<1>3. Asking'
  BY DEF CatInv, Asking, Up, Served
<1>4. Dated'
  BY DEF CatInv, TypeOK, Jobs, JobShape, Dated, Asking, Up, Served,
    catalogVars, envVars
<1>5. ForcedIsFresh'
  BY DEF CatInv, TypeOK, Requesters, ForcedIsFresh, Up, Served, catalogVars
<1> QED  BY <1>1, <1>2, <1>3, <1>4, <1>5 DEF CatInv

\* A request nobody waits for is dropped.
LEMMA TakeStaleStep ==
    ASSUME CatInv, TakeStale
    PROVE  CatInv'
<1>1. TypeOK'
  BY DEF CatInv, TypeOK, Up, TakeStale, catalogVars, envVars
<1>2. JobShape' /\ Consistent' /\ History'
  BY JobUntouched DEF CatInv, TakeStale
<1>3. Asking'
  <2>1. UNCHANGED <<pc, job, answer>> /\ queue' = Tail(queue) /\ Up
        /\ queue # <<>>
    BY DEF TakeStale, Up
  <2> QED  BY <2>1, HeadTail DEF CatInv, Asking, Up
<1>4. Dated'
  BY DEF CatInv, Dated, Up, TakeStale, catalogVars, envVars
<1>5. ForcedIsFresh'
  BY DEF CatInv, ForcedIsFresh, Up, TakeStale, catalogVars
<1> QED  BY <1>1, <1>2, <1>3, <1>4, <1>5 DEF CatInv

\* Diagnostics answer their requester and nobody else.
LEMMA TakeDiagnosticsStep ==
    ASSUME CatInv, TakeDiagnostics
    PROVE  CatInv'
<1>1. TypeOK'
  BY CatalogAssumption DEF CatInv, TypeOK, Jobs, Steps, Requesters, Entries,
    Commands, Up, TakeDiagnostics, Answer, catalogVars, envVars
<1>2. JobShape' /\ Consistent' /\ History'
  BY JobUntouched DEF CatInv, TakeDiagnostics
<1>3. Asking'
  <2> DEFINE q == Head(queue).who
  <2>1. /\ UNCHANGED <<pc, job>> /\ queue' = Tail(queue) /\ Up
        /\ queue # <<>> /\ ~job.live
    BY DEF TakeDiagnostics, Up, CatInv, JobShape, NoJob
  <2>2. q = queue[1].who /\ q \in Requesters /\ queue[1].live
    BY <2>1, HeadTail DEF Entries, TakeDiagnostics, CatInv
  <2>3. \A p \in Requesters : p # q => answer'[p] = answer[p]
    BY DEF TakeDiagnostics, Answer, CatInv, TypeOK
  <2>4. \A i \in 1 .. Len(queue) : queue[i].who \in Requesters
    BY EntryAt DEF CatInv
  <2> HIDE DEF q
  <2> QED  BY <2>1, <2>2, <2>3, <2>4, HeadTail DEF CatInv, Asking, Up
<1>4. Dated'
  <2>1. /\ UNCHANGED <<pc, job, managed, cache, remote>>
        /\ job.snap = Nobody
    BY DEF TakeDiagnostics, CatInv, JobShape, NoJob, catalogVars, envVars
  <2>2. \A p \in Requesters : asked'[p] = asked[p] \/ asked'[p] = 0
    BY DEF TakeDiagnostics, Answer, CatInv, TypeOK
  <2>3. remote.ver \in Nat
    BY CatalogAssumption DEF CatInv, TypeOK
  <2> QED  BY <2>1, <2>2, <2>3 DEF CatInv, Dated, Up
<1>5. ForcedIsFresh'
  BY DEF CatInv, TypeOK, Requesters, Asking, ForcedIsFresh, Up,
    TakeDiagnostics, Answer, catalogVars
<1> QED  BY <1>1, <1>2, <1>3, <1>4, <1>5 DEF CatInv

\* A reload begins with what is active.
LEMMA TakeReloadStep ==
    ASSUME CatInv, TakeReload
    PROVE  CatInv'
<1>1. TypeOK'
  <2>1. queue # <<>>
    BY DEF TakeReload
  <2>2. Head(queue).who \in Requesters /\ Tail(queue) \in Seq(Entries)
    BY <2>1, HeadTail DEF Entries, CatInv
  <2>3. job' \in Jobs
    BY <2>2 DEF TakeReload, Begin, NoJob, Jobs
  <2> QED  BY <2>2, <2>3 DEF TakeReload, Begin, CatInv, TypeOK, Steps, Up, catalogVars,
           envVars
<1>2. JobShape'
  BY DEF CatInv, TypeOK, Jobs, JobShape, Source, Target, Steps, Fetched, Up,
    TakeReload, Begin, NoJob, catalogVars
<1>3. Consistent'
  BY DEF CatInv, Consistent, Belongs, Up, TakeReload, Begin, NoJob,
    catalogVars
<1>4. History'
  BY DEF CatInv, History, FailureKeepsCatalog, Active, Up, TakeReload,
    Begin, NoJob, catalogVars
<1>5. Asking'
  <2>1. /\ queue # <<>> /\ queue' = Tail(queue) /\ answer' = answer
        /\ pc' # "down"
        /\ job'.who = Head(queue).who
        /\ job'.kind = "reload"
        /\ Head(queue).cmd = "provider" => job'.kind = "forced"
    BY DEF TakeReload, Begin, NoJob
  <2>2. /\ Head(queue) = queue[1] /\ queue[1].who \in Requesters
        /\ queue[1].live
    BY <2>1, HeadTail DEF Entries, TakeReload, CatInv
  <2>3. queue[1].who \in Http => Head(queue).cmd = "provider"
    BY <2>1, <2>2, HeadTail DEF CatInv, Asking
  <2> QED  BY <2>1, <2>2, <2>3, HeadTail DEF CatInv, Asking, Up
<1>6. Dated'
  BY DEF CatInv, Dated, Up, TakeReload, Begin, NoJob, catalogVars, envVars
<1>7. ForcedIsFresh'
  BY DEF CatInv, ForcedIsFresh, Up, TakeReload, Begin, NoJob, catalogVars
<1> QED  BY <1>1, <1>2, <1>3, <1>4, <1>5, <1>6, <1>7 DEF CatInv

\* A refresh begins with what is active; one that an HTTP client waits for is
\* a forced one.
LEMMA TakeRefreshStep ==
    ASSUME CatInv, TakeRefresh
    PROVE  CatInv'
<1>1. TypeOK'
  <2>1. queue # <<>>
    BY DEF TakeRefresh
  <2>2. Head(queue).who \in Requesters /\ Tail(queue) \in Seq(Entries)
    BY <2>1, HeadTail DEF Entries, CatInv
  <2>3. job' \in Jobs
    BY <2>2 DEF TakeRefresh, Begin, NoJob, Jobs
  <2> QED  BY <2>2, <2>3 DEF TakeRefresh, Begin, CatInv, TypeOK, Steps, Up, catalogVars,
           envVars
<1>2. JobShape'
  BY DEF CatInv, TypeOK, Jobs, JobShape, Source, Target, Steps, Fetched, Up,
    TakeRefresh, Begin, NoJob, catalogVars
<1>3. Consistent'
  BY DEF CatInv, Consistent, Belongs, Up, TakeRefresh, Begin, NoJob,
    catalogVars
<1>4. History'
  BY DEF CatInv, History, FailureKeepsCatalog, Active, Up, TakeRefresh,
    Begin, NoJob, catalogVars
<1>5. Asking'
  <2>1. /\ queue # <<>> /\ queue' = Tail(queue) /\ answer' = answer
        /\ pc' # "down"
        /\ job'.who = Head(queue).who
        /\ job'.kind \in {"refresh", "forced"}
        /\ Head(queue).cmd = "provider" => job'.kind = "forced"
    BY DEF TakeRefresh, Begin, NoJob
  <2>2. /\ Head(queue) = queue[1] /\ queue[1].who \in Requesters
        /\ queue[1].live
    BY <2>1, HeadTail DEF Entries, TakeRefresh, CatInv
  <2>3. queue[1].who \in Http => Head(queue).cmd = "provider"
    BY <2>1, <2>2, HeadTail DEF CatInv, Asking
  <2> QED  BY <2>1, <2>2, <2>3, HeadTail DEF CatInv, Asking, Up
<1>6. Dated'
  BY DEF CatInv, Dated, Up, TakeRefresh, Begin, NoJob, catalogVars, envVars
<1>7. ForcedIsFresh'
  BY DEF CatInv, ForcedIsFresh, Up, TakeRefresh, Begin, NoJob, catalogVars
<1> QED  BY <1>1, <1>2, <1>3, <1>4, <1>5, <1>6, <1>7 DEF CatInv

\* A periodic refresh begins; nobody waits for it.
LEMMA TickStep ==
    ASSUME CatInv, Tick
    PROVE  CatInv'
<1>1. TypeOK'
  <2>1. job' \in Jobs
    BY DEF Jobs, NoJob, Begin, Tick
  <2> QED  BY <2>1 DEF CatInv, TypeOK, Steps, Up, Tick, Begin, catalogVars, askVars,
           envVars
<1>2. JobShape'
  BY DEF CatInv, TypeOK, Jobs, JobShape, Source, Target, Steps, Fetched, Up,
    Tick, Begin, NoJob, catalogVars
<1>3. Consistent'
  BY DEF CatInv, Consistent, Belongs, Up, Tick, Begin, NoJob, catalogVars
<1>4. History'
  BY DEF CatInv, History, FailureKeepsCatalog, Active, Up, Tick, Begin,
    NoJob, catalogVars
<1>5. Asking'
  <2>1. ~job'.live
    BY DEF NoJob, Begin, Tick
  <2> QED  BY <2>1 DEF CatInv, Asking, Up, Tick, Begin, askVars
<1>6. Dated'
  BY DEF CatInv, Dated, Up, Tick, Begin, NoJob, catalogVars, askVars,
    envVars
<1>7. ForcedIsFresh'
  BY DEF CatInv, ForcedIsFresh, Up, Tick, Begin, NoJob, catalogVars, askVars
<1> QED  BY <1>1, <1>2, <1>3, <1>4, <1>5, <1>6, <1>7 DEF CatInv

\* A refresh begins because ECH was rejected; nobody waits for it.
LEMMA TakeWakeupStep ==
    ASSUME CatInv, TakeWakeup
    PROVE  CatInv'
<1>1. TypeOK'
  <2>1. job' \in Jobs
    BY DEF Jobs, NoJob, Begin, TakeWakeup
  <2> QED  BY <2>1 DEF CatInv, TypeOK, Steps, Up, TakeWakeup, Begin, catalogVars, askVars,
           envVars
<1>2. JobShape'
  BY DEF CatInv, TypeOK, Jobs, JobShape, Source, Target, Steps, Fetched, Up,
    TakeWakeup, Begin, NoJob, catalogVars
<1>3. Consistent'
  BY DEF CatInv, Consistent, Belongs, Up, TakeWakeup, Begin, NoJob,
    catalogVars
<1>4. History'
  BY DEF CatInv, History, FailureKeepsCatalog, Active, Up, TakeWakeup,
    Begin, NoJob, catalogVars
<1>5. Asking'
  <2>1. ~job'.live
    BY DEF NoJob, Begin, TakeWakeup
  <2> QED  BY <2>1 DEF CatInv, Asking, Up, TakeWakeup, Begin, askVars
<1>6. Dated'
  BY DEF CatInv, Dated, Up, TakeWakeup, Begin, NoJob, catalogVars, askVars,
    envVars
<1>7. ForcedIsFresh'
  BY DEF CatInv, ForcedIsFresh, Up, TakeWakeup, Begin, NoJob, catalogVars,
    askVars
<1> QED  BY <1>1, <1>2, <1>3, <1>4, <1>5, <1>6, <1>7 DEF CatInv

\* A reload that cannot use the file has changed nothing.
LEMMA LoadFailsStep ==
    ASSUME CatInv, LoadFails
    PROVE  CatInv'
<1>1. TypeOK'
  <2>1. job' \in Jobs
    BY DEF CatInv, TypeOK, Jobs, LoadFails, Fail
  <2> QED  BY <2>1 DEF CatInv, TypeOK, Steps, Up, LoadFails, Fail, catalogVars, askVars, envVars
<1>2. JobShape'
  BY DEF CatInv, TypeOK, Jobs, JobShape, Source, Target, Steps, Fetched, Up,
    LoadFails, Fail, catalogVars
<1>3. Consistent'
  BY DEF CatInv, Consistent, Belongs, Up, LoadFails, Fail, catalogVars
<1>4. History'
  BY DEF CatInv, TypeOK, Jobs, History, FailureKeepsCatalog, Active,
    Fetched, Up, LoadFails, Fail, catalogVars
<1>5. Asking'
  BY DEF CatInv, Asking, Up, LoadFails, Fail, askVars
<1>6. Dated'
  BY DEF CatInv, Dated, Up, LoadFails, Fail, catalogVars, askVars, envVars
<1>7. ForcedIsFresh'
  BY DEF CatInv, ForcedIsFresh, Up, LoadFails, Fail, catalogVars, askVars
<1> QED  BY <1>1, <1>2, <1>3, <1>4, <1>5, <1>6, <1>7 DEF CatInv

\* A reload that keeps account and API keeps the catalog, which is of that
\* account.
LEMMA LoadStep ==
    ASSUME CatInv, Load
    PROVE  CatInv'
<1>1. TypeOK'
  BY DEF CatInv, TypeOK, Jobs, Steps, Up, Load, catalogVars, askVars,
    envVars
<1>2. JobShape'
  <2>1. /\ file \in Configs
        /\ job'.kind = "reload" /\ job'.snap = Nobody /\ job'.next = file
        /\ job'.old = {}
        /\ pc' = "fetch" \/ (pc' = "build" /\ file.acct = service.acct)
        /\ UNCHANGED <<service, managed>>
    BY DEF CatInv, TypeOK, JobShape, Load, Jobs, catalogVars, Steps
  <2>2. managed.acct = service.acct
    BY DEF CatInv, Consistent, Belongs, Load, Up
  <2>3. Source' = managed /\ Target' = file
    BY <2>1 DEF Source, Target
  <2> QED  BY <2>1, <2>2, <2>3 DEF JobShape, Up, Steps, Fetched
<1>3. Consistent'
  BY DEF CatInv, Consistent, Belongs, Up, Load, catalogVars
<1>4. History'
  BY DEF CatInv, History, FailureKeepsCatalog, Active, Up, Load, catalogVars
<1>5. Asking'
  BY DEF CatInv, Asking, Up, Load, askVars
<1>6. Dated'
  BY DEF CatInv, Dated, Up, Load, catalogVars, askVars, envVars
<1>7. ForcedIsFresh'
  BY DEF CatInv, ForcedIsFresh, Up, Load, catalogVars, askVars
<1> QED  BY <1>1, <1>2, <1>3, <1>4, <1>5, <1>6, <1>7 DEF CatInv

\* What is fetched is of the target's account and as new as the remote one.
LEMMA FetchOkStep ==
    ASSUME CatInv, FetchOk
    PROVE  CatInv'
<1>1. TypeOK'
  <2>1. Target \in Configs
    BY DEF CatInv, TypeOK, JobShape, FetchOk, Target
  <2>2. Snapshot(Target.acct) \in Snapshots
    BY <2>1, AccountOf, SnapshotType DEF CatInv
  <2>3. job' \in Jobs
    BY <2>2 DEF CatInv, TypeOK, FetchOk, Jobs
  <2> QED  BY <2>3 DEF CatInv, TypeOK, FetchOk, Up, Steps, catalogVars, askVars, envVars
<1>2. JobShape'
  <2>1. Target \in Configs
    BY DEF CatInv, TypeOK, JobShape, FetchOk, Target
  <2> DEFINE snap == Snapshot(Target.acct)
  <2>2. snap.acct = Target.acct /\ snap # Nobody
    BY <2>1, AccountOf, SnapshotType DEF CatInv
  <2>3. job' = [job EXCEPT !.snap = snap] /\ pc = "fetch" /\ pc' = "build"
        /\ service' = service
    BY DEF FetchOk, catalogVars
  <2> HIDE DEF snap
  <2>4. /\ job'.snap = snap /\ job'.kind = job.kind /\ job'.next = job.next
        /\ job'.old = job.old
    BY <2>3 DEF CatInv, TypeOK, Jobs
  <2>5. Source' = snap /\ Target' = Target
    BY <2>2, <2>3, <2>4 DEF Source, Target
  <2> QED  BY <2>2, <2>3, <2>4, <2>5 DEF CatInv, JobShape, Up, Steps, Fetched
<1>3. Consistent'
  BY DEF CatInv, Consistent, Belongs, Up, FetchOk, Snapshot, catalogVars
<1>4. History'
  BY DEF CatInv, History, FailureKeepsCatalog, Active, Up, FetchOk,
    Snapshot, catalogVars
<1>5. Asking'
  BY DEF CatInv, Asking, Up, FetchOk, Snapshot, askVars
<1>6. Dated'
  BY DEF CatInv, TypeOK, Jobs, JobShape, Dated, Asking, Up, FetchOk,
    Snapshot, catalogVars, askVars, envVars
<1>7. ForcedIsFresh'
  BY DEF CatInv, ForcedIsFresh, Up, FetchOk, Snapshot, catalogVars, askVars
<1> QED  BY <1>1, <1>2, <1>3, <1>4, <1>5, <1>6, <1>7 DEF CatInv

\* A job whose fetch fails has changed nothing.
LEMMA FetchFailsStep ==
    ASSUME CatInv, NEW kind \in {"auth", "error"}, FetchFails(kind)
    PROVE  CatInv'
<1>1. TypeOK'
  <2>1. job' \in Jobs
    BY DEF CatInv, TypeOK, Jobs, FetchFails, Fail
  <2> QED  BY <2>1 DEF CatInv, TypeOK, Steps, Up, FetchFails, Fail, catalogVars, askVars, envVars
<1>2. JobShape'
  BY DEF CatInv, TypeOK, Jobs, JobShape, Source, Target, Steps, Fetched, Up,
    FetchFails, Fail, catalogVars
<1>3. Consistent'
  BY DEF CatInv, Consistent, Belongs, Up, FetchFails, Fail, catalogVars
<1>4. History'
  BY DEF CatInv, TypeOK, Jobs, History, FailureKeepsCatalog, Active,
    Fetched, Up, FetchFails, Fail, catalogVars
<1>5. Asking'
  BY DEF CatInv, Asking, Up, FetchFails, Fail, askVars
<1>6. Dated'
  BY DEF CatInv, Dated, Up, FetchFails, Fail, catalogVars, askVars, envVars
<1>7. ForcedIsFresh'
  BY DEF CatInv, ForcedIsFresh, Up, FetchFails, Fail, catalogVars, askVars
<1> QED  BY <1>1, <1>2, <1>3, <1>4, <1>5, <1>6, <1>7 DEF CatInv

\* A job whose router is not built has changed nothing.
LEMMA BuildFailsStep ==
    ASSUME CatInv, BuildFails
    PROVE  CatInv'
<1>1. TypeOK'
  <2>1. job' \in Jobs
    BY DEF CatInv, TypeOK, Jobs, BuildFails, Fail
  <2> QED  BY <2>1 DEF CatInv, TypeOK, Steps, Up, BuildFails, Fail, catalogVars, askVars, envVars
<1>2. JobShape'
  BY DEF CatInv, TypeOK, Jobs, JobShape, Source, Target, Steps, Fetched, Up,
    BuildFails, Fail, catalogVars
<1>3. Consistent'
  BY DEF CatInv, Consistent, Belongs, Up, BuildFails, Fail, catalogVars
<1>4. History'
  BY DEF CatInv, TypeOK, Jobs, History, FailureKeepsCatalog, Active,
    Fetched, Up, BuildFails, Fail, catalogVars
<1>5. Asking'
  BY DEF CatInv, Asking, Up, BuildFails, Fail, askVars
<1>6. Dated'
  BY DEF CatInv, Dated, Up, BuildFails, Fail, catalogVars, askVars, envVars
<1>7. ForcedIsFresh'
  BY DEF CatInv, ForcedIsFresh, Up, BuildFails, Fail, catalogVars, askVars
<1> QED  BY <1>1, <1>2, <1>3, <1>4, <1>5, <1>6, <1>7 DEF CatInv

\* The router is built for the target and its catalog.
LEMMA BuildOkStep ==
    ASSUME CatInv, BuildOk
    PROVE  CatInv'
<1>1. TypeOK'
  <2>1. Target \in Configs /\ Source.nodes \in Catalogs
    BY DEF CatInv, TypeOK, JobShape, BuildOk, Target, Source, Jobs, Snapshots,
           Fetched, Up
  <2>2. Previous \in SUBSET Clients
    BY DEF CatInv, TypeOK, BuildOk, Previous, Routers, Up
  <2>3. Build(Target, Source.nodes, Previous) \in Routers
    BY <2>1, <2>2, BuildType
  <2>4. job' \in Jobs
    BY <2>3 DEF CatInv, TypeOK, BuildOk, Jobs
  <2> QED  BY <2>4 DEF CatInv, TypeOK, BuildOk, AfterBuild, Up, Steps, catalogVars,
           askVars, envVars
<1>2. JobShape'
  BY DEF CatInv, TypeOK, Jobs, JobShape, Source, Target, Rebuilds, Previous,
    Reusable, Steps, Fetched, Up, BuildOk, AfterBuild, catalogVars
<1>3. Consistent'
  BY CatalogAssumption DEF CatInv, TypeOK, Jobs, JobShape, Consistent,
    Belongs, Replaced, Source, Target, Rebuilds, Fetched, Steps, Envelopes,
    Snapshots, Up, BuildOk, AfterBuild, catalogVars
<1>4. History'
  BY DEF CatInv, TypeOK, Jobs, History, FailureKeepsCatalog, Active,
    Fetched, Up, BuildOk, AfterBuild, catalogVars
<1>5. Asking'
  BY DEF CatInv, Asking, Up, BuildOk, AfterBuild, askVars
<1>6. Dated'
  BY DEF CatInv, Dated, Up, BuildOk, AfterBuild, catalogVars, askVars,
    envVars
<1>7. ForcedIsFresh'
  BY DEF CatInv, ForcedIsFresh, Up, BuildOk, AfterBuild, catalogVars,
    askVars
<1> QED  BY <1>1, <1>2, <1>3, <1>4, <1>5, <1>6, <1>7 DEF CatInv

\* A forced refresh that is not stored has changed nothing.
LEMMA StoreFailsStep ==
    ASSUME CatInv, StoreFails
    PROVE  CatInv'
<1>1. TypeOK'
  <2>1. job' \in Jobs
    BY DEF CatInv, TypeOK, Jobs, StoreFails, Fail
  <2> QED  BY <2>1 DEF CatInv, TypeOK, Steps, Up, StoreFails, Fail, catalogVars, askVars, envVars
<1>2. JobShape'
  BY DEF CatInv, TypeOK, Jobs, JobShape, Source, Target, Steps, Fetched, Up,
    StoreFails, Fail, catalogVars
<1>3. Consistent'
  BY DEF CatInv, Consistent, Belongs, Up, StoreFails, Fail, catalogVars
<1>4. History'
  BY DEF CatInv, TypeOK, Jobs, History, FailureKeepsCatalog, Active,
    Fetched, Up, StoreFails, Fail, catalogVars
<1>5. Asking'
  BY DEF CatInv, Asking, Up, StoreFails, Fail, askVars
<1>6. Dated'
  BY DEF CatInv, Dated, Up, StoreFails, Fail, catalogVars, askVars, envVars
<1>7. ForcedIsFresh'
  BY DEF CatInv, ForcedIsFresh, Up, StoreFails, Fail, catalogVars, askVars
<1> QED  BY <1>1, <1>2, <1>3, <1>4, <1>5, <1>6, <1>7 DEF CatInv

\* A forced refresh is stored before anything else of it is seen.
LEMMA StoreOkStep ==
    ASSUME CatInv, StoreOk
    PROVE  CatInv'
<1>1. TypeOK'
  <2>1. job.snap \in Snapshots
    BY DEF CatInv, TypeOK, JobShape, StoreOk, Jobs, Fetched
  <2>2. Envelope(service.acct, job.snap, TRUE) \in Envelopes
    BY <2>1, AccountOf, EnvelopeType DEF CatInv, TypeOK
  <2> QED  BY <2>2 DEF CatInv, TypeOK, StoreOk, Up, Steps, catalogVars, askVars,
           envVars
<1>2. JobShape'
  BY DEF CatInv, TypeOK, Jobs, JobShape, Source, Target, Rebuilds, Previous,
    Reusable, Steps, Fetched, Up, StoreOk, Envelope, catalogVars
<1>3. Consistent'
  BY CatalogAssumption DEF CatInv, TypeOK, Jobs, JobShape, Consistent,
    Belongs, Replaced, Source, Target, Rebuilds, Fetched, Steps, Envelopes,
    Snapshots, Up, StoreOk, Envelope, catalogVars
<1>4. History'
  BY DEF CatInv, TypeOK, Jobs, History, FailureKeepsCatalog, Active,
    Fetched, Up, StoreOk, Envelope, catalogVars
<1>5. Asking'
  BY DEF CatInv, Asking, Up, StoreOk, Envelope, askVars
<1>6. Dated'
  <2>1. job.snap \in Snapshots /\ job.snap # Nobody
    BY DEF CatInv, TypeOK, JobShape, StoreOk, Jobs, Fetched
  <2> DEFINE e == Envelope(service.acct, job.snap, TRUE)
  <2>2. e # Nobody /\ e.snap = job.snap
    BY <2>1, AccountOf, EnvelopeType DEF CatInv, TypeOK
  <2>3. /\ cache' = e /\ UNCHANGED <<job, managed, remote, asked>>
        /\ pc' \in {"switch", "commit"} /\ Up
    BY DEF StoreOk, catalogVars, askVars, envVars, Up
  <2> HIDE DEF e
  <2> QED  BY <2>1, <2>2, <2>3 DEF CatInv, Dated
<1>7. ForcedIsFresh'
  <2>1. job.snap \in Snapshots /\ job.snap # Nobody
    BY DEF CatInv, TypeOK, JobShape, StoreOk, Jobs, Fetched
  <2> DEFINE e == Envelope(service.acct, job.snap, TRUE)
  <2>2. e # Nobody /\ e.snap = job.snap
    BY <2>1, AccountOf, EnvelopeType DEF CatInv, TypeOK
  <2>3. cache' = e /\ UNCHANGED <<managed, answer, asked>>
    BY DEF StoreOk, catalogVars, askVars
  <2>4. /\ \A q \in Requesters : asked[q] \in Nat
        /\ job.snap.ver \in Nat /\ managed.ver \in Nat
    BY <2>1, CatalogAssumption DEF CatInv, TypeOK, Snapshots, Up, StoreOk
  <2>5. Http \subseteq Requesters
    BY DEF Requesters
  <2> HIDE DEF e
  <2> QED  BY <2>1, <2>2, <2>3, <2>4, <2>5 DEF CatInv, Dated, ForcedIsFresh
<1> QED  BY <1>1, <1>2, <1>3, <1>4, <1>5, <1>6, <1>7 DEF CatInv

\* GatewayManager::replace: the clients of the new router are open, and those
\* still to be closed are none of them.
LEMMA SwitchStep ==
    ASSUME CatInv, Switch
    PROVE  CatInv'
<1>1. TypeOK'
  <2>1. Target \in Configs /\ Source.nodes \in Catalogs
    BY DEF CatInv, TypeOK, JobShape, Switch, Target, Source, Jobs, Snapshots,
           Fetched, Up
  <2>2. Previous \in SUBSET Clients /\ router.clients \in SUBSET Clients
    BY DEF CatInv, TypeOK, Switch, Previous, Routers, Up
  <2>3. job.built \in Routers
    BY <2>1, <2>2, BuildType DEF CatInv, JobShape, Switch
  <2>4. job' \in Jobs
    BY <2>2 DEF CatInv, TypeOK, Switch, Jobs, Exclusive
  <2> QED  BY <2>3, <2>4 DEF CatInv, TypeOK, Switch, Up, Steps, askVars, envVars
<1>2. JobShape'
  BY DEF CatInv, TypeOK, Jobs, JobShape, Source, Target, Steps, Fetched, Up,
    Switch, Exclusive
<1>3. Consistent'
  <2>1. /\ pc = "switch" /\ pc' = "retire" /\ router' = job.built
        /\ alive' = alive \cup job.built.clients
        /\ UNCHANGED <<service, managed, sub, cache>>
    BY DEF Switch
  <2>2. /\ job'.old = router.clients \ job.built.clients
        /\ job'.kind = job.kind /\ job'.snap = job.snap /\ job'.next = job.next
    BY DEF Switch, Exclusive, CatInv, TypeOK, Jobs
  <2>3. Belongs /\ job.built = Build(Target, Source.nodes, Previous)
    BY <2>1 DEF CatInv, Consistent, JobShape, Up
  <2>4. /\ job.built.cfg = Target /\ job.built.nodes = Source.nodes
        /\ \A c \in job.built.clients :
             c \in Previous \/ c.set = ClientSettings(Target)
    BY <2>3, BuildFields
  <2>5. \A c \in Previous : c.set = ClientSettings(Target)
    BY <2>3 DEF Belongs, Previous, Reusable
  <2>6. Source' = Source /\ Target' = Target
    BY <2>1, <2>2 DEF Source, Target
  <2>7. Replaced'
    BY <2>1, <2>2, <2>3, <2>4, <2>5, <2>6 DEF Replaced, Belongs
  <2> QED  BY <2>1, <2>7 DEF CatInv, Consistent
<1>4. History'
  BY DEF CatInv, TypeOK, Jobs, History, FailureKeepsCatalog, Active,
    Fetched, Up, Switch, Exclusive
<1>5. Asking'
  BY DEF CatInv, Asking, Up, Switch, Exclusive, askVars
<1>6. Dated'
  BY DEF CatInv, Dated, Up, Switch, Exclusive, askVars, envVars
<1>7. ForcedIsFresh'
  BY DEF CatInv, ForcedIsFresh, Up, Switch, Exclusive, askVars
<1> QED  BY <1>1, <1>2, <1>3, <1>4, <1>5, <1>6, <1>7 DEF CatInv

\* retire_exclusive_runtimes closes a client the new router does not have.
LEMMA CloseClientStep ==
    ASSUME CatInv, NEW c \in job.old, CloseClient(c)
    PROVE  CatInv'
<1>1. TypeOK'
  <2>1. job' \in Jobs
    BY DEF CatInv, TypeOK, Jobs, CloseClient
  <2> QED  BY <2>1 DEF CatInv, TypeOK, Steps, Up, CloseClient, askVars, envVars
<1>2. JobShape'
  BY DEF CatInv, JobShape, Source, Target, Rebuilds, Previous, Reusable, Up,
    CloseClient
<1>3. Consistent'
  BY DEF CatInv, Consistent, Belongs, Replaced, Source, Target, Up,
    CloseClient
<1>4. History'
  BY DEF CatInv, History, FailureKeepsCatalog, Up, CloseClient
<1>5. Asking'
  BY DEF CatInv, Asking, Up, CloseClient, askVars
<1>6. Dated'
  BY DEF CatInv, Dated, Up, CloseClient, askVars, envVars
<1>7. ForcedIsFresh'
  BY DEF CatInv, ForcedIsFresh, Up, CloseClient, askVars
<1> QED  BY <1>1, <1>2, <1>3, <1>4, <1>5, <1>6, <1>7 DEF CatInv

\* The exclusive clients are closed.
LEMMA RetireDoneStep ==
    ASSUME CatInv, RetireDone
    PROVE  CatInv'
<1>1. TypeOK'
  BY DEF CatInv, TypeOK, Steps, Up, RetireDone, catalogVars, askVars,
    envVars
<1>2. JobShape'
  BY DEF CatInv, TypeOK, Jobs, JobShape, Source, Target, Steps, Fetched, Up,
    RetireDone, catalogVars
<1>3. Consistent'
  BY DEF CatInv, Consistent, Belongs, Replaced, Source, Target, Up,
    RetireDone, catalogVars
<1>4. History'
  BY DEF CatInv, TypeOK, Jobs, History, FailureKeepsCatalog, Active,
    Fetched, Up, RetireDone, catalogVars
<1>5. Asking'
  BY DEF CatInv, Asking, Up, RetireDone, askVars
<1>6. Dated'
  BY DEF CatInv, Dated, Up, RetireDone, catalogVars, askVars, envVars
<1>7. ForcedIsFresh'
  BY DEF CatInv, ForcedIsFresh, Up, RetireDone, catalogVars, askVars
<1> QED  BY <1>1, <1>2, <1>3, <1>4, <1>5, <1>6, <1>7 DEF CatInv

\* apply_refreshed_catalog makes metadata, cache and catalog one again.
LEMMA CommitRefreshStep ==
    ASSUME CatInv, NEW stored \in BOOLEAN, CommitRefresh(stored)
    PROVE  CatInv'
<1>1. TypeOK'
  <2>1. job.snap \in Snapshots
    BY DEF CatInv, TypeOK, JobShape, CommitRefresh, Jobs, Fetched
  <2>2. Envelope(service.acct, job.snap, TRUE) \in Envelopes
    BY <2>1, AccountOf, EnvelopeType DEF CatInv, TypeOK
  <2> QED  BY <2>1, <2>2 DEF CatInv, TypeOK, CommitRefresh, Up, Steps, askVars,
           envVars
<1>2. JobShape'
  BY DEF CatInv, TypeOK, Jobs, JobShape, Source, Target, Steps, Fetched, Up,
    CommitRefresh, Envelope
<1>3. Consistent'
  <2>1. job.snap \in Snapshots /\ job.snap # Nobody
    BY DEF CatInv, TypeOK, JobShape, CommitRefresh, Jobs, Fetched
  <2> DEFINE e == Envelope(service.acct, job.snap, TRUE)
  <2>2. e.label = service.acct /\ e.snap = job.snap
    BY <2>1, AccountOf, EnvelopeType DEF CatInv, TypeOK
  <2>3. /\ cache' = cache \/ cache' = e
        /\ sub' = job.snap /\ managed' = job.snap /\ pc' = "reply"
        /\ UNCHANGED <<service, router, alive>>
    BY DEF CommitRefresh
  <2>4. Source = job.snap /\ Target = service
    BY <2>1 DEF Source, Target, CommitRefresh
  <2>5. Replaced /\ job.old = {} /\ job.snap.acct = service.acct
    BY <2>4 DEF CatInv, Consistent, JobShape, CommitRefresh, Fetched, Steps
  <2>6. Belongs'
    BY <2>3, <2>4, <2>5 DEF Belongs, Replaced
  <2> HIDE DEF e
  <2> QED  BY <2>2, <2>3, <2>5, <2>6 DEF CatInv, Consistent
<1>4. History'
  BY DEF CatInv, TypeOK, Jobs, History, FailureKeepsCatalog, Active,
    Fetched, Up, CommitRefresh, Envelope
<1>5. Asking'
  BY DEF CatInv, Asking, Up, CommitRefresh, Envelope, askVars
<1>6. Dated'
  BY CatalogAssumption DEF CatInv, TypeOK, Jobs, JobShape, Dated, Asking,
    Source, Target, Snapshots, Requesters, Fetched, Steps, Up,
    CommitRefresh, Envelope, askVars, envVars
<1>7. ForcedIsFresh'
  <2>1. job.snap \in Snapshots /\ job.snap # Nobody
    BY DEF CatInv, TypeOK, JobShape, CommitRefresh, Jobs, Fetched
  <2> DEFINE e == Envelope(service.acct, job.snap, TRUE)
  <2>2. e # Nobody /\ e.snap = job.snap
    BY <2>1, AccountOf, EnvelopeType DEF CatInv, TypeOK
  <2>3. /\ cache' = cache \/ cache' = e
        /\ managed' = job.snap
        /\ UNCHANGED <<answer, asked>>
    BY DEF CommitRefresh, askVars
  <2>4. /\ \A q \in Requesters : asked[q] \in Nat
        /\ job.snap.ver \in Nat /\ managed.ver \in Nat
    BY <2>1, CatalogAssumption DEF CatInv, TypeOK, Snapshots, Up, CommitRefresh
  <2>5. Http \subseteq Requesters
    BY DEF Requesters
  <2> HIDE DEF e
  <2> QED  BY <2>1, <2>2, <2>3, <2>4, <2>5 DEF CatInv, Dated, ForcedIsFresh
<1> QED  BY <1>1, <1>2, <1>3, <1>4, <1>5, <1>6, <1>7 DEF CatInv

\* reload_inner makes configuration, metadata and catalog one again.
LEMMA CommitReloadStep ==
    ASSUME CatInv, NEW stored \in BOOLEAN, CommitReload(stored)
    PROVE  CatInv'
<1>1. TypeOK'
  <2>1. job.next \in Configs /\ job.snap \in Snapshots \cup {Nobody}
    BY DEF CatInv, TypeOK, JobShape, CommitReload, Jobs, Fetched
  <2>2. job.snap # Nobody =>
          Envelope(job.next.acct, job.snap, TRUE) \in Envelopes
    BY <2>1, AccountOf, EnvelopeType
  <2>3. Source \in Snapshots
    BY <2>1 DEF CatInv, TypeOK, CommitReload, Source, Up
  <2>4. cache' \in Envelopes \cup {Nobody}
    BY <2>2 DEF CatInv, TypeOK, CommitReload
  <2> QED  BY <2>1, <2>3, <2>4 DEF CatInv, TypeOK, CommitReload, Up, Steps,
           askVars, envVars
<1>2. JobShape'
  BY DEF CatInv, TypeOK, Jobs, JobShape, Source, Target, Steps, Fetched, Up,
    CommitReload, Envelope
<1>3. Consistent'
  <2>1. job.next \in Configs /\ job.snap \in Snapshots \cup {Nobody}
    BY DEF CatInv, TypeOK, JobShape, CommitReload, Jobs, Fetched
  <2> DEFINE e == Envelope(job.next.acct, job.snap, TRUE)
  <2>2. job.snap # Nobody => e.label = job.next.acct /\ e.snap = job.snap
    BY <2>1, AccountOf, EnvelopeType
  <2>3. /\ cache' = cache \/ (job.snap # Nobody /\ cache' = e)
        /\ sub' = IF job.snap = Nobody THEN sub ELSE job.snap
        /\ managed' = Source /\ service' = job.next
        /\ pc' = "reply"
        /\ UNCHANGED <<router, alive>>
    BY DEF CommitReload
  <2>4. Target = job.next
    BY DEF Target, CommitReload
  <2>5. Replaced /\ job.old = {} /\ Source.acct = job.next.acct
    BY <2>4 DEF CatInv, Consistent, JobShape, CommitReload, Fetched, Steps
  <2>6. sub' \in {Nobody, Source}
    BY <2>3, <2>5 DEF Source, Replaced
  <2>7. Belongs'
    BY <2>3, <2>4, <2>5, <2>6 DEF Belongs, Replaced
  <2>8. job.snap # Nobody => job.snap.acct = job.next.acct
    BY <2>5 DEF Source
  <2> HIDE DEF e
  <2> QED  BY <2>2, <2>3, <2>7, <2>8 DEF CatInv, Consistent
<1>4. History'
  BY DEF CatInv, TypeOK, Jobs, History, FailureKeepsCatalog, Active,
    Fetched, Up, CommitReload, Envelope
<1>5. Asking'
  BY DEF CatInv, Asking, Up, CommitReload, Envelope, askVars
<1>6. Dated'
  BY CatalogAssumption DEF CatInv, TypeOK, Jobs, JobShape, Dated, Asking,
    Source, Target, Snapshots, Requesters, Fetched, Steps, Up, CommitReload,
    Envelope, askVars, envVars
<1>7. ForcedIsFresh'
  <2>1. job.next \in Configs /\ job.snap \in Snapshots \cup {Nobody}
    BY DEF CatInv, TypeOK, JobShape, CommitReload, Jobs, Fetched
  <2> DEFINE e == Envelope(job.next.acct, job.snap, TRUE)
  <2>2. job.snap # Nobody => e # Nobody /\ e.snap = job.snap
    BY <2>1, AccountOf, EnvelopeType
  <2>3. /\ cache' = cache \/ (job.snap # Nobody /\ cache' = e)
        /\ managed' = Source
        /\ UNCHANGED <<answer, asked>>
    BY DEF CommitReload, askVars
  <2>4. /\ \A q \in Requesters : asked[q] \in Nat
        /\ job.snap # Nobody => job.snap.ver \in Nat
        /\ managed.ver \in Nat
    BY <2>1, CatalogAssumption DEF CatInv, TypeOK, Snapshots, Up, CommitReload
  <2>5. Http \subseteq Requesters
    BY DEF Requesters
  <2>6. /\ managed'.ver >= managed.ver
        /\ job.snap # Nobody => job.snap.ver >= managed.ver
    BY <2>3, <2>4 DEF Source, CatInv, Dated
  <2>7. managed'.ver \in Nat
    BY <2>3, <2>4 DEF Source
  <2> HIDE DEF e
  <2> SUFFICES ASSUME NEW h \in Http, answer[h] \in {"ok", "reading"}
               PROVE  /\ managed'.ver >= asked[h]
                      /\ cache' # Nobody /\ cache'.snap.ver >= asked[h]
    BY <2>3 DEF ForcedIsFresh
  <2>8. /\ managed.ver >= asked[h] /\ asked[h] \in Nat
        /\ cache # Nobody /\ cache.snap.ver >= asked[h]
    BY <2>4, <2>5 DEF CatInv, ForcedIsFresh
  <2>9. CASE cache' = cache
    BY <2>4, <2>6, <2>7, <2>8, <2>9
  <2>10. CASE job.snap # Nobody /\ cache' = e
    BY <2>2, <2>4, <2>6, <2>7, <2>8, <2>10
  <2> QED  BY <2>3, <2>9, <2>10
<1> QED  BY <1>1, <1>2, <1>3, <1>4, <1>5, <1>6, <1>7 DEF CatInv

\* finish_refresh of a failure keeps everything.
LEMMA FinishFailedStep ==
    ASSUME CatInv, FinishFailed
    PROVE  CatInv'
<1>1. TypeOK'
  BY DEF CatInv, TypeOK, Steps, Up, FinishFailed, catalogVars, askVars,
    envVars
<1>2. JobShape'
  BY DEF CatInv, TypeOK, Jobs, JobShape, Source, Target, Steps, Fetched, Up,
    FinishFailed, catalogVars
<1>3. Consistent'
  BY DEF CatInv, Consistent, Belongs, Up, FinishFailed, catalogVars
<1>4. History'
  BY DEF CatInv, TypeOK, Jobs, History, FailureKeepsCatalog, Active,
    Fetched, Up, FinishFailed, catalogVars
<1>5. Asking'
  BY DEF CatInv, Asking, Up, FinishFailed, askVars
<1>6. Dated'
  <2>1. /\ pc = "finish" /\ pc' = "reply" /\ job.result # "ok"
        /\ UNCHANGED <<job, managed, cache, remote, asked>>
    BY DEF FinishFailed, CatInv, History, catalogVars, askVars, envVars
  <2> QED  BY <2>1 DEF CatInv, Dated, Up
<1>7. ForcedIsFresh'
  BY DEF CatInv, ForcedIsFresh, Up, FinishFailed, catalogVars, askVars
<1> QED  BY <1>1, <1>2, <1>3, <1>4, <1>5, <1>6, <1>7 DEF CatInv

\* An authentication error clears the metadata and nothing else.
LEMMA FinishClearedStep ==
    ASSUME CatInv, NEW stored \in BOOLEAN, FinishCleared(stored)
    PROVE  CatInv'
<1>1. TypeOK'
  <2>1. managed \in Snapshots
    BY DEF CatInv, TypeOK, FinishCleared, Up
  <2>2. Envelope(service.acct, managed, FALSE) \in Envelopes
    BY <2>1, AccountOf, EnvelopeType DEF CatInv, TypeOK
  <2> QED  BY <2>1, <2>2 DEF CatInv, TypeOK, FinishCleared, Up, Steps, askVars,
           envVars
<1>2. JobShape'
  BY DEF CatInv, TypeOK, Jobs, JobShape, Source, Target, Steps, Fetched, Up,
    FinishCleared, Clears, Envelope
<1>3. Consistent'
  BY DEF CatInv, Consistent, Belongs, Up, FinishCleared, Clears, Envelope
<1>4. History'
  BY DEF CatInv, TypeOK, Jobs, History, FailureKeepsCatalog, Active,
    Fetched, Up, FinishCleared, Clears, Envelope
<1>5. Asking'
  BY DEF CatInv, Asking, Up, FinishCleared, Clears, Envelope, askVars
<1>6. Dated'
  BY DEF CatInv, Dated, Up, FinishCleared, Clears, Envelope, askVars,
    envVars
<1>7. ForcedIsFresh'
  <2>1. managed \in Snapshots
    BY DEF CatInv, TypeOK, FinishCleared, Up
  <2> DEFINE e == Envelope(service.acct, managed, FALSE)
  <2>2. e # Nobody /\ e.snap = managed
    BY <2>1, AccountOf, EnvelopeType DEF CatInv, TypeOK
  <2>3. /\ cache' = cache \/ cache' = e
        /\ UNCHANGED <<managed, answer, asked>>
    BY DEF FinishCleared, askVars
  <2> HIDE DEF e
  <2> QED  BY <2>2, <2>3 DEF CatInv, ForcedIsFresh
<1> QED  BY <1>1, <1>2, <1>3, <1>4, <1>5, <1>6, <1>7 DEF CatInv

\* The job's requester is answered, and the loop is at rest.
LEMMA ReplyStep ==
    ASSUME CatInv, Reply
    PROVE  CatInv'
<1>1. TypeOK'
  BY CatalogAssumption DEF CatInv, TypeOK, Jobs, Steps, Requesters, Entries,
    Commands, Up, Reply, Answer, NoJob, catalogVars, envVars
<1>2. JobShape'
  BY DEF CatInv, TypeOK, Jobs, JobShape, Source, Target, Steps, Fetched, Up,
    Reply, Answer, NoJob, catalogVars
<1>3. Consistent'
  BY DEF CatInv, Consistent, Belongs, Up, Reply, Answer, NoJob, catalogVars
<1>4. History'
  BY DEF CatInv, History, FailureKeepsCatalog, Up, Reply, Answer, NoJob,
    catalogVars
<1>5. Asking'
  <2>1. pc # "down" /\ pc' # "down" /\ ~job'.live /\ queue' = queue
    BY DEF Reply, NoJob
  <2>2. \A i \in 1 .. Len(queue) : queue[i].who \in Requesters
    BY EntryAt DEF CatInv
  <2>3. CASE job.live
    <3>1. \A q \in Requesters : q # job.who => answer'[q] = answer[q]
      BY <2>3 DEF Reply, Answer, CatInv, TypeOK
    <3> QED  BY <2>1, <2>2, <2>3, <3>1 DEF CatInv, Asking, Up
  <2>4. CASE ~job.live
    BY <2>1, <2>4 DEF Reply, CatInv, Asking, Up
  <2> QED  BY <2>3, <2>4
<1>6. Dated'
  BY DEF CatInv, TypeOK, Jobs, Dated, Up, Reply, Answer, NoJob, catalogVars,
    envVars
<1>7. ForcedIsFresh'
  BY DEF CatInv, TypeOK, Requesters, JobShape, Dated, Asking, ForcedIsFresh,
    Up, Reply, Answer, NoJob, catalogVars
<1> QED  BY <1>1, <1>2, <1>3, <1>4, <1>5, <1>6, <1>7 DEF CatInv

\* An edit of the file reaches the service by a reload only.
LEMMA EditFileStep ==
    ASSUME CatInv, NEW f \in Configs \cup {Invalid}, EditFile(f)
    PROVE  CatInv'
<1>1. TypeOK'
  BY DEF CatInv, TypeOK, Up, EditFile, catalogVars, askVars
<1>2. JobShape' /\ Consistent' /\ History'
  BY JobUntouched DEF CatInv, EditFile
<1>3. Asking'
  BY DEF CatInv, Asking, Up, EditFile, askVars
<1>4. Dated'
  BY DEF CatInv, Dated, Up, EditFile, catalogVars, askVars
<1>5. ForcedIsFresh'
  BY DEF CatInv, ForcedIsFresh, Up, EditFile, catalogVars, askVars
<1> QED  BY <1>1, <1>2, <1>3, <1>4, <1>5 DEF CatInv

\* Versions of the remote catalog rise.
LEMMA RemoteChangesStep ==
    ASSUME CatInv, NEW nodes \in Catalogs, RemoteChanges(nodes)
    PROVE  CatInv'
<1>1. TypeOK'
  BY CatalogAssumption DEF CatInv, TypeOK, Jobs, Steps, NoJob, Up,
    RemoteChanges, catalogVars, askVars
<1>2. JobShape' /\ Consistent' /\ History'
  BY JobUntouched DEF CatInv, RemoteChanges
<1>3. Asking'
  BY DEF CatInv, Asking, Up, RemoteChanges, askVars
<1>4. Dated'
  <2>1. /\ UNCHANGED <<pc, job, managed, cache, asked>>
        /\ remote.ver \in Nat /\ remote'.ver = remote.ver + 1
    BY CatalogAssumption DEF CatInv, TypeOK, RemoteChanges, catalogVars, askVars
  <2>2. /\ \A r \in Requesters : asked[r] \in Nat
        /\ Up => managed.ver \in Nat
        /\ cache # Nobody => cache.snap.ver \in Nat
        /\ job.snap # Nobody => job.snap.ver \in Nat
    BY CatalogAssumption DEF CatInv, TypeOK, Jobs, Envelopes, Snapshots
  <2> QED  BY <2>1, <2>2 DEF CatInv, Dated, Up
<1>5. ForcedIsFresh'
  BY DEF CatInv, ForcedIsFresh, Up, RemoteChanges, catalogVars, askVars
<1> QED  BY <1>1, <1>2, <1>3, <1>4, <1>5 DEF CatInv

-----------------------------------------------------------------------------
(* Theorems *)

\* No process runs yet.
LEMMA InitInv == Init => CatInv
<1> SUFFICES ASSUME Init PROVE CatInv
  OBVIOUS
<1>1. job \in Jobs
  BY DEF Init, NoJob, Jobs
<1>2. TypeOK
  BY <1>1, CatalogAssumption DEF Init, TypeOK, Up
<1>3. job.kind = "none" /\ job.snap = Nobody /\ ~job.live
  BY DEF Init, NoJob
<1>4. JobShape /\ Consistent /\ History
  BY <1>3 DEF Init, JobShape, Consistent, History, FailureKeepsCatalog, Up, Steps,
    Fetched
<1>5. Asking /\ Dated /\ ForcedIsFresh
  BY <1>2, <1>3, CatalogAssumption
  DEF Init, TypeOK, Asking, Dated, ForcedIsFresh, Up, Requesters
<1> QED  BY <1>2, <1>4, <1>5 DEF CatInv

\* The steps of requesters keep the invariant.
LEMMA AskStep ==
    ASSUME CatInv, NEW r \in Requesters, Ask(r)
    PROVE  CatInv'
BY ForceRefreshStep, ControlCommandStep, AskTimeoutStep, ReceivedStep, ServedStep
   DEF Ask

\* The steps of a job keep the invariant.
LEMMA JobStepStep ==
    ASSUME CatInv, JobStep
    PROVE  CatInv'
<1>1. CASE LoadFails \/ Load \/ FetchOk \/ BuildFails \/ BuildOk
  BY <1>1, LoadFailsStep, LoadStep, FetchOkStep, BuildFailsStep, BuildOkStep
<1>2. CASE \E kind \in {"auth", "error"} : FetchFails(kind)
  BY <1>2, FetchFailsStep
<1>3. CASE StoreFails \/ StoreOk \/ Switch \/ RetireDone
  BY <1>3, StoreFailsStep, StoreOkStep, SwitchStep, RetireDoneStep
<1>4. CASE \E c \in job.old : CloseClient(c)
  BY <1>4, CloseClientStep
<1>5. CASE \E stored \in BOOLEAN : CommitRefresh(stored) \/ CommitReload(stored)
                                     \/ FinishCleared(stored)
  BY <1>5, CommitRefreshStep, CommitReloadStep, FinishClearedStep
<1>6. CASE FinishFailed \/ Reply
  BY <1>6, FinishFailedStep, ReplyStep
<1> QED  BY <1>1, <1>2, <1>3, <1>4, <1>5, <1>6 DEF JobStep

\* Every step keeps the invariant.
LEMMA NextInv == CatInv /\ [Next]_vars => CatInv'
<1> SUFFICES ASSUME CatInv, [Next]_vars PROVE CatInv'
  OBVIOUS
<1>1. CASE StartFromCache \/ Stop
  BY <1>1, StartFromCacheStep, StopStep
<1>2. CASE \E stored \in BOOLEAN : StartFromFetch(stored)
  BY <1>2, StartFromFetchStep
<1>3. CASE \E r \in Requesters : Ask(r)
  BY <1>3, AskStep
<1>4. CASE TakeRequest \/ Tick \/ TakeWakeup
  BY <1>4, TakeStaleStep, TakeDiagnosticsStep, TakeReloadStep, TakeRefreshStep,
     TickStep, TakeWakeupStep DEF TakeRequest
<1>5. CASE JobStep
  BY <1>5, JobStepStep
<1>6. CASE \E f \in Configs \cup {Invalid} : EditFile(f)
  BY <1>6, EditFileStep
<1>7. CASE \E nodes \in Catalogs : RemoteChanges(nodes)
  BY <1>7, RemoteChangesStep
<1>8. CASE EchRejected \/ CooldownEnds \/ UNCHANGED vars
  BY <1>8, QuietStep
<1> QED  BY <1>1, <1>2, <1>3, <1>4, <1>5, <1>6, <1>7, <1>8 DEF Next

\* The invariant holds always.
LEMMA CatAlways == Spec => []CatInv
BY InitInv, NextInv, PTL DEF Spec

\* Whenever the loop of run_serve is at rest, configuration, router, catalog and
\* metadata are of one account, and the cache file always bears the fingerprint
\* of the account its catalog was fetched with, for any catalogs,
\* configurations, edits, failures and restarts.
THEOREM AccountsNeverMixed == Spec => []OneAccount
<1>1. CatInv => OneAccount
  BY DEF CatInv, Consistent, Belongs, OneAccount, Up
<1> QED  BY <1>1, CatAlways, PTL

\* GatewayManager::replace never leaves a router that leads to a closed client,
\* nor an open client that no router leads to once the loop is at rest, however
\* many clients successive routers share.
THEOREM RoutersServed == Spec => []ClientsServed
<1>1. CatInv => ClientsServed
  <2> SUFFICES ASSUME CatInv PROVE ClientsServed
    OBVIOUS
  <2>1. ~Up => router = Nobody
    BY DEF CatInv, JobShape
  <2>2. Up => router.clients \subseteq alive
    BY DEF CatInv, Consistent, Belongs, Replaced, Up
  <2>3. pc = "select" => Belongs
    BY DEF CatInv, Consistent, Up
  <2> QED  BY <2>1, <2>2, <2>3 DEF ClientsServed, Belongs
<1> QED  BY <1>1, CatAlways, PTL

\* A job of CatalogService that fails leaves configuration, catalog and router
\* as they were when it began, and a forced one the cache file as well.
THEOREM FailureChangesNothing == Spec => []FailureKeepsCatalog
<1>1. CatInv => FailureKeepsCatalog
  BY DEF CatInv, History
<1> QED  BY <1>1, CatAlways, PTL

\* refresh_provider reports success only if a catalog fetched after the request
\* is in place and stored, for any number of clients, timeouts and other jobs;
\* a forced refresh that fails changes nothing.
THEOREM ForcedIsHonest == Spec => []ForcedAllOrNothing
<1>1. CatInv => ForcedAllOrNothing
  BY DEF CatInv, History, ForcedAllOrNothing
<1> QED  BY <1>1, CatAlways, PTL
=============================================================================
