# A TLA+ development for oixc-proxy

oixc-proxy is a local SOCKS5 and HTTP proxy that forwards through Snell servers
over ECH-TLS. This directory holds TLA+ models of the parts of it whose
correctness depends on what happens at the same time or fails half-way, the TLC
instances that check them, and proofs checked by TLAPS. Paths below are those of
the crate (`cli.rs` is `src/src/cli.rs`).

`PROJECT.json` is the index: components, runs, the lines each definition models,
hazards, findings and theorems.

## 1. Inventory

### Parts, their state and how they meet

| Part | State it keeps | Operations | Meets |
|---|---|---|---|
| Listener (`cli.rs`, `accept.rs`) | count of served connections, `Notify`, watched settings | accept, admit, leave, reload of the limit | spawns one task per client connection |
| SOCKS5 / HTTP front ends (`socks5.rs`, `http_proxy.rs`) | one task per connection | handshake, authentication, CONNECT, UDP ASSOCIATE, forwarded request, relay | ask the router for a client, drive a session |
| Snell client (`snell/client.rs`) | stack of idle connections, `closed`, two dial semaphores | dial, take, reuse, release, retire, close | the dialer; shared by all connections to a node |
| Snell session and records (`snell/client.rs`, `snell/record.rs`) | reader buffer and flags, `close_write_sent` | write, read, half-close, finish | the relay; the server |
| UDP associations (`socks5.rs`, `snell/udp.rs`) | relay port, client address, last activity | bind, relay both ways, idle out | shared port range |
| Catalog service (`cli.rs`, `gateway.rs`, `catalog_cache.rs`, `catalog_refresh.rs`, `control.rs`) | configuration, catalog, router, clients, metadata, cache file, command queue, refresh gate | refresh, forced refresh, reload, restart | API, control clients, HTTP clients, ECH rejections |
| `serve-map` (`cli.rs`) | one listener and route per node | hourly refresh, replacement of routes | connections that read a route |
| Traffic recorder (`traffic.rs`) | counters, sampler, journal file and lock | record, sample, append, roll back, recover, query | every relay; other processes |
| Dialer (`transport/ech.rs`, `transport/trust.rs`) | ECH configuration, cached TLS configuration, roots, last address that worked | resolve, race the connects, handshake, retry with new keys or roots | the Snell client; private DNS; the network monitor |
| Private DNS (`transport/private_dns.rs`) | cache per network generation, lookup lock | look up, query both families, cache | the dialer, the raw provider |
| Network monitor (`network.rs`) | egress selection, generation, cached default route | snapshot, detect, bind | everything that opens a socket |
| Provider HTTP server (`http_server.rs`, `raw_provider.rs`) | lookup slots, last good addresses | serve documents, force a refresh | the catalog service |
| Control socket (`control.rs`) | the socket file and its identity | bind, replace a stale one, remove, serve commands | other services, control clients |
| API client (`api.rs`) | none between calls | fetch with fallbacks under one deadline, rebind a token | the catalog service |
| Configuration, nodes, rendering, diagnostics, platform | little or none | parsing, formatting, system calls | |

### What is hard, and what correctness means

* *Pool*: sessions end, dials start, the egress changes and a replaced client is
  closed, all at once. A connection must have one owner, the pool must stay
  within its limits and be empty once closed, no dial permit may get lost, and
  every wait must end although the peer does nothing.
* *Session reuse*: a connection is used again only if both zero records have
  passed and nothing half-written is on it; otherwise the next client reads
  somebody else's bytes.
* *Catalog*: refresh, reload, forced refresh and restart change five things
  (configuration, router, clients, metadata, cache) in separate awaits, any of
  which may fail. They must belong to one account whenever the service is at
  rest, and a forced refresh must not report what it did not store.
* *Journal*: appends fail, roll back, crash, are recovered and are read by other
  processes; no byte may be counted twice or forgotten.
* *Admission, relay ports, idle timers, `serve-map`*: counters and indices
  shared without a lock, checked in one step and used in another.
* *Requests and records*: proxy and origin must agree on where a body ends for
  every combination of framing headers, every way origins read them and every way
  the bytes arrive; records
  must be flushed, in order, under nonces that never repeat.
* *Dialer*: dials share a resolver, a TLS configuration and a trust store while
  the network, the server's keys and the platform's roots change under them. What
  was learnt under one generation must not be used under another.
* *Services*: provider requests wait for a refresh and then read the document and
  its metadata in two steps, beside other refreshes and reloads; raw
  requests share a few lookup permits; services race for one socket path;
  API calls share one deadline among several endpoints.

The complete list, line by line, is under `hazards` in `PROJECT.json`.

## 2. Modules

| Module | Models | Proofs |
|---|---|---|
| `SnellPool` | `SnellClient`: pool, permits, life of physical connections | `SnellPoolProofs` |
| `SnellSession` | one reusable connection, its records, the relays on it | `SnellSessionProofs` |
| `TrafficJournal` | counters, sampler, journal, recovery, queries | `TrafficJournalProofs` |
| `CatalogService` | `run_serve`'s loop, `CatalogService`, `GatewayManager`, cache | `CatalogProofs` |
| `Admission` | listener, counter, limit | `ListenerProofs` |
| `UdpPorts` | `UdpRelay::bind` | `ListenerProofs` |
| `UdpAssociation` | datagram loops and `Activity` | `ListenerProofs` |
| `ServeMap` | `run_serve_map` and `FixedRoute`, the connections of its ports | `DialerProofs` |
| `HttpRequest` | one HTTP proxy request: head, authentication, rewriting, framing, body | `ListenerProofs` |
| `Records` | `RecordWriter` and `RecordReader` over one direction of a connection | `SnellSessionProofs` |
| `Egress` | abstract: a selection numbered by a generation | |
| `NetworkMonitor` | `NetworkMonitor::snapshot` and the choice of the egress; implements `Egress` | `ServicesProofs` |
| `PrivateDns` | `PrivateDnsResolver::lookup`, its cache and its queries | `DialerProofs` |
| `DialTcp` | `EchDialer::dial_tcp`; composes `Egress` and `PrivateDns` | `DialerProofs` |
| `RaceConnects` | `interleave_addresses` and `race_connects` | `DialerProofs` |
| `TrustStore` | the roots and their reloads | `DialerProofs` |
| `EchTls` | handshakes and retries of dials to one node; composes with `TrustStore` | `DialerProofs` |
| `Provider` | provider and raw provider requests beside the jobs that change the router | `ServicesProofs` |
| `ControlSocket` | `Server::bind` and the removal of the socket file | `ServicesProofs` |
| `ApiClient` | `with_fallback`, the checks of an answer, `rebind_token` | `ServicesProofs` |

`SharedLemmas` has the facts about numbers and sequences that the proofs of
several components cite.

Each `MC...` module extends its models and adds symmetry sets and configuration
constants. `MCListeners`, `MCDialer` and `MCServices` each hold several models
that share no variable: a variable `part` says which of them a behaviour
exercises, the others stay in an initial state, and the states explored are the
sum of the parts' and not their product. Definitions that a comment calls *Mutant*
are deliberate bugs. No specification uses them; they show that each property can
fail.

The models do not share variables; they meet at named steps. `SnellPool` treats
what happens between `open` and `finish` as one state, which `SnellSession`
opens up for one connection. `CatalogService` says when a client is closed,
`SnellPool` what closing does; `Provider` has the replacement of the router and of
the metadata as the requests see it. `UdpPorts`, `UdpAssociation` and `SnellPool` are
successive stages of `serve_udp_associate`. `Admission` has the reload of the
limit that `CatalogService` leaves out. `HttpRequest` ends where `SnellSession`
takes over (a tunnel, a response), and `Records` is what a write or a read of
`SnellSession` consists of. A dial of `SnellPool` is `DialTcp`, then
`RaceConnects`, then `EchTls`; the generation that it stamps is the one of
`Egress`, which `NetworkMonitor` is proved to implement and which `DialTcp` uses
in its place.

### State and actions against the code

* **SnellPool.** A task is a client connection. `pc` names the await it is at:
  `take` and `reuse` are `dial_tcp`'s loop, `node`, `global`, `permitted`,
  `dialing`, `flight` are `open_command`, `release`, `retire`, `closeUdp` are the
  ends of a session. Critical sections of the `idle` mutex contain no await and
  are one action each. `CloseSwap` and `CloseDrain` are the two halves of
  `close()`. `Release` has the second test of `closed` under the lock.
  `ServerInput` and `ServerStalls` let the peer write, close or stop reading at
  any time; `NetworkChanges` bumps the generation. A dial stamps the generation
  of the snapshot it took, and retries of the dialer may take a newer one.
* **SnellSession.** Records are sequences of items (a CONNECT status or a chunk,
  marked with its session). `reader` has the four fields of `SnellReader`. Upload
  and download are separate state machines; `drive` is which of them has ended
  in `drive_relay`. Writes have a beginning and an end, so that dropping one
  leaves `torn`. The server is external and follows the protocol, but may reject,
  fall silent or vanish; `srv.confused` records that the *client* broke it.
* **TrafficJournal.** Counters wrap at `Modulus`. A snapshot loads the counters
  one by one. The file is what a query adds up: committed records and a tail that
  is clean, partial or whole. `Crash` covers a kill and a power loss: unsynced
  bytes may be there or not. `Start` is `Journal::open` with its recovery.
* **CatalogService.** A job (`refresh`, `forced`, `reload`) runs through `load`,
  `fetch`, `build`, `store`, `switch`, `retire`, `commit`, `finish`, `reply`, the
  awaits of `reload_inner` and `apply_refreshed_catalog`. `before` is a history
  variable: what was active when the job began. `queue` is the control channel,
  `gate` the mutex of `refresh_provider`, whose guard is dropped by an answer or
  by the 180 s timeout while the request may still be queued.
* **Admission.** The listener's steps are the reads and writes of shared objects
  in `admit_connection`; a drop is two (`Leave`, `Left`). `Notify` and the watch
  channel are external and modelled by their contract.
* **UdpPorts.** `next_port` is read, raised and stored in separate steps;
  `UsizeWrap` is the width of the counter. Other programs bind ports as well.
* **UdpAssociation.** One `select!`; time is explicit, with a tick finer than the
  millisecond in which `Activity` counts. Timers fire at their tick.
* **ServeMap.** `plan` maps the ports still to be updated to their new nodes, of
  which `Index` is the next; a connection reads the route in one step and dials in
  another (`Dial`), where a TCP dial of a closed client is refused (`DialClosed`)
  and a UDP dial is not. What a SOCKS5 handshake and a session do is one outcome
  each.
* **HttpRequest.** A header line is a name with its list of tokens and, if it
  holds a bare LF, the lines a reader sees that ends lines there. A body is a
  sequence of symbols, CR, LF, semicolon, blank and the digits among them.
  `serve`'s refusals come in the code's order. `forward_body` is a machine over
  `stage` (size line, data, end of a chunk, trailers, length, done) whose buffer is
  refilled by any number of bytes, so that a line, a chunk or its end is cut
  anywhere. A line ends at LF and must end in CRLF; `ChunkSize` cuts the extension
  and the blanks off a size line and refuses a size of more than `MaxSizeDigits`
  digits. The reference is a family of `Readers`, with parsing operators of their
  own, that read the *forwarded* request: they differ in where a line ends (every
  LF, CRLF only, or a bare LF is an error), in whether Transfer-Encoding or
  Content-Length decides, in which of several lengths counts, and in the grammar of
  a size line; they compute modulo `OriginWidth`, so a size or a length that does
  not fit would be another one to them. What the two sides share is the value of a
  string of digits.
* **Records.** A sealed byte is a symbol that carries its key, its nonce and its
  plaintext. The writer's steps are the encoding of a chunk, the write of a full
  batch, the last write and the flush; the transport keeps bytes until it is
  flushed, sends them in any portions, and may be cut between any two. What
  `encode_frame_append` refuses (a payload or a padding beyond the limit, a padding
  without a payload) is a guard of the step; that its callers never ask for it is the
  assumption `FrameBudget <= MaxPayload + 1`, which the code's constants satisfy.
  The reader's checks of the fields of an opened header (`record.rs:280-292`) refuse
  values that this writer, under the same key, never seals; they are not repeated.
* **NetworkMonitor.** Callers queue for the mutex, find the selection fresh or
  stale, detect in two system calls and may be dropped in between, which loses the
  cached route, as `std::mem::take` does; so does a panic of the detecting thread
  (`DetectionPanics`), which keeps the selection. Loopback interfaces, interfaces
  that are down and entries without an index are passed over; scores, ranks and
  scopes of addresses are the code's. `Supports`, `BindTcp` and `BindUdp` are what a
  user of a snapshot does with it: a TCP dial asks the first, a DNS query does not.
  What `getifaddrs` and the routing table say is external. A list
  of addresses or routes is the set of its entries, each with its place.
* **PrivateDns, DialTcp.** A lookup tests the cache, waits for the lock, tests
  again, queries both families with their attempts, and leaves after the grace
  period with what it has. An address is a family and the generation through
  which it was asked for. Dials that are dropped release the lock. With a `Pinned`
  address a dial drops the addresses of a family that has no source, also when
  nothing is selected.
* **RaceConnects.** Attempts are started by the timer or by a failure and end in
  any order, for every list of up to four addresses of two families.
* **EchTls, TrustStore.** A dial takes the roots, the shared ECH configuration
  and the cached TLS configuration, shakes hands, and retries once with the keys
  the server sent and once with refreshed roots. A scan of the platform's store is
  complete or partial; one worker applies it, or panics and leaves the roots as they
  are (`ReloadPanics`).
* **Provider.** Jobs of the loop are numbered, and what a job fetches carries its
  number: `Install` replaces the router, `FinishJob` the metadata, in two steps, and
  a failing job may drop the metadata. A request waits for its refresh (behind other
  jobs; a job begun for a request that has given up goes on), reads the document,
  then the header. The history variables `asked` and `docStage` say which job was
  the last when it came and where the job was when it read. A raw request is checked
  against the router it exports from, and its lookups queue for the semaphore in
  order.
* **ControlSocket.** Each system call on the path is a step of its own, and inode
  numbers are given again. `raced` marks the two windows the code leaves open:
  a socket that appears between the last look at the path and its removal, and
  one that is probed between `bind` and `listen`.
* **ApiClient.** Time is explicit; timers may fire late by a bounded number of
  ticks. Responses are told apart by what the checks look at, failures of the
  transport by what `classify` makes of them: network and TLS failures go on to the
  next endpoint, any other ends the call.

## 3. Runs

| Run | What it shows |
|---|---|
| `pool_safety` | two tasks on two clients, one of which pools, sharing the global permits: one owner for each connection, limits kept, closed pools stay empty, no session on a network that was gone when its request began, permits add up |
| `pool_liveness` | every open, finish and drained pool ends by the code's own timers |
| `session` | two sessions on one connection, tunnel or forwarded request, two chunks each way: own bytes in order, complete if the end is clean, server in step, nothing torn or unread on a connection to be reused, and every relay ends whatever client and server do |
| `journal` | two recorders in turn, failing writes, syncs, rollbacks, crashes, a query, a failing unlock, counters that wrap: nothing lost, nothing counted twice unless an unlock failed, and the final flush ends |
| `catalog_consistency` | edits, reloads, refreshes, failures and a restart: everything at rest belongs together, the cache is bound to its account, failure changes nothing |
| `catalog_forced` | two HTTP clients beside ticks and wakeups: forced means fetched after the request and stored; failure changes nothing; one at a time; commands and wakeups are served |
| `listeners` | no admission past the limit and no lost wakeup; an association is refused only if every port was taken during its scan, has one peer, and ends neither early nor late; every origin that sees the header lines the proxy sees gets the body as it delimits it itself, and a body is refused as malformed only if a strict reader finds no end of it; raw documents go only to peers their own router allows; what `refresh=1` is answered with, document and metadata, was fetched after it came, and metadata older than its document comes only from the window between a job's two updates; the server opens exactly the records that were sealed, as soon as the writer is done |
| `dialer` | addresses and the last success are used only on the network they belong to, no lookup is asked twice for what a concurrent one has just cached, a race fails only when every address has failed, handshakes verify against their own dial's roots, reloads lose none, and ECH retries stop once the server's key is stable; ports of `serve-map` keep their nodes, never lead to a closed client, leave none open, and converge to the catalog |
| `services` | the monitor implements `Egress`, gives out only configured sources, or else those of one real interface, and settles after the last change; every provider request is answered; one service owns the socket; API answers are justified and every endpoint gets its share of the time |
| `pool_udp_close`, `journal_unlock`, `dns_source` | the findings of section 6 |

Type correctness of the modules that have proofs, `CountExact` of `Admission` and
`OwnPort` of `UdpPorts` are parts of proved invariants and are not repeated in a
run.

Deadlock checking is off where a behaviour may end: the bounded histories run
out (data, starts, edits, calls), the listener or service stops, or a task waits for
a client that need not come.

### Bounds and why they are enough

* Pool: `MaxIdle` 1 and `MaxUses` 2 put every release at a limit; one permit of
  each kind makes every second dial wait; two tasks and two connections let one
  session end or dial while the other connection is idle, in use or being
  retired; one network change separates old from new.
  Connection identities are recycled, so behaviours are not bounded in length.
* Session: two sessions are what reuse is about; two chunks show a status that
  shares a record with data and a response cut between chunks.
* Journal: three bytes in one direction wrap a counter of `Modulus` 3, one byte
  in the other makes a snapshot non-atomic; two starts give a crash, a recovery
  and a second process; one unlock may fail.
* Catalog: configurations differ in account, API, client settings and bindings,
  one edit and one new remote version apart; one crash gives a restart from the
  cache. The queue holds one command instead of eight so that it is full.
  `catalog_forced` has two HTTP clients and no control client: two are what the
  gate and its timeout are about; commands, edits and restarts are in
  `catalog_consistency`.
* Admission: limits 1 and 2 and two reloads let the limit fall below the count
  and rise again; three connections exceed both.
* Relay ports: three ports and two associations plus other programs reach full
  and partly full ranges; a counter that wraps at 8, not a multiple of 3, covers
  the jump of `next_port % count`.
* Association: 14 ticks are more than three idle timeouts of 4, so the timer
  re-arms repeatedly; two ticks to the millisecond make the truncation visible.
* Map: two names, two good and one bad profile, catalogs of one or two nodes in
  any order, two changes: added, removed, reordered, changed, unbuildable.
* HTTP: heads of up to two header lines, out of fifteen that frame, unframe or
  split, in both versions, and of three with credentials; every stream of up to two
  digits and line ends, and longer ones with two chunks, data that looks like a line
  end, trailers on both sides of the limit, extensions, blanks, sizes of too many
  digits, bare CRs and LFs, a chunk without its end and bytes after the body. Line
  and trailer limits of 6 symbols, sizes of 2 binary digits, lengths below 4 and a
  batch of 2 are all reached and exceeded by them.
* Records: a nonce of three digits in base 2 carries twice; a payload of 3 and
  writes of up to 5 give several records and an incomplete last one; batches of 5
  symbols are left full, partly full and empty at the end of a write. `FrameBudget`
  is 4, as large as it may be, so that a first frame can have a padding at the limit.
* Dialer: two dials and two network changes let a lookup begin, be cached and be
  used on three different networks; two of each family in the race cover every
  interleaving; three keys and two changes of the environment give a rejection
  during a retry, and a late answer that restores an older key.
* Monitor: five states of the host (two interfaces, the route on either, IPv6
  with a temporary address beside a tunnel, only a tunnel and a loopback,
  unreadable), two changes, two callers, with and without a pinned address.
* Provider: in `services`, which asks whether requests are answered, one lookup
  permit for two hosts and two requests makes every other lookup wait, with one job.
  In `listeners`, which asks what they are answered with, three jobs are what
  staleness takes: one left running by a request that gave up, the one asked for,
  and another between two reads.
* Control: three services, three starts, two inode numbers: the inode of a removed
  socket comes back. API: up to four endpoints, timers up to three ticks late of
  ten.

### Fairness

Only what the program itself guarantees is assumed fair.

* Pool and session: timers fire (`handshake_timeout`, `dial_limit_timeout`,
  `RETIRE_TIMEOUT`, the idle and close timers); a shutdown whose bytes can leave
  completes. Nothing is assumed of clients, servers or the network.
  `PoolResolves` begins at `open_command`, since the take loop before it is
  bounded only if other sessions stop refilling the pool. `SessionEnds` begins at
  the relay: the bytes that came with a request head (at most 1 KiB, 8 KiB for an
  upgrade) are written before its timer exists.
* Journal: the sampling thread runs, file operations return, queries end.
* Catalog: each await of a job ends; `tokio::select!` starts at a random branch,
  hence strong fairness for commands and wakeups.
* Map: the interval ticks, and the API does not fail for ever (strong fairness of
  a successful fetch; without it no refresh can promise anything).
* Dialer: a dial that runs is ended by its timeout. Nothing is assumed of servers;
  `EchRetriesStop` holds because keys change only so often (`MaxEnv`).
* Monitor: the age of a cached route passes. That detections go on completing is a
  hypothesis of `EgressSettles`, since they happen only when somebody asks.
* Provider: a request that can go on does, a lookup ends by `LOOKUP_TIMEOUT` and a
  waiting refresh by its own; neither jobs nor new requests are promised.

## 4. Proofs

All are about arbitrary constants. The assumptions are the `ASSUME`s of the
modules, which every TLC run evaluates: numbers are natural numbers and limits
not zero, names for "nobody" and "nothing" are none of the things they stand in
for, tasks and clients are finite where they are counted, and what the system
reports (`MonAssumption`) is finite and about known interfaces. Nothing is assumed
of the environment's behaviour.

None of the properties is inductive. For each component an invariant is given that
is, checked by TLC (its parts that TLC can evaluate, where it speaks of arbitrary
sequences), and then proved in the usual three steps: it holds initially, every
step keeps it (one lemma per action or group of actions), it implies the property.

**Pool** (`SnellPoolProofs`)

* `PoolSafe`, `PoolStaysBounded`, `SessionsFollowNetwork`: `TypeOK`,
  `NoConnectionShared`, `PoolBounded` and `SessionOnCurrentNetwork`. The limits need
  `UsesCounted` (a connection on its way to the pool has been used at least once
  and may be used again); the network needs `GenerationsFollow` (a task's
  generation is not older than its request and is that of the connection it
  holds); `NoConnectionShared` is split into `HeldOnce`, `PooledOnce`,
  `HeldNotPooled` and `RetiringApart`, one per pair of places. Lemmas first say
  what taking, pushing and draining do to the stacks.
* `PermitsNeverLost`: free permits and holders add up, for each client and for
  all. `PermitEffect` reduces every step to one of five effects on the permits;
  the count follows from the cardinality theorems.

**Journal** (`TrafficJournalProofs`)

* `JournalCorrect`, `NoByteLost`: `CountsOnce` (`NeverOvercounts` as long as no
  unlock has failed; finding 2 is what happens otherwise) and `NothingLost`. The
  invariant is an account: `Balanced` (moved = owed at start + stored +
  unflushed; after a failed unlock only at most that), `OwedSound`, `SnapBetween`
  (a loaded counter lies between the persisted and the live one), `TailSettled`
  and `TailCovered` (what an unacknowledged record behind the committed ones can
  be).
* `QueriesReadSettled`: no append is under way while a query holds the lock, from
  `WriterLocked`.

**Catalog** (`CatalogProofs`)

* `AccountsNeverMixed`, `RoutersServed`, `FailureChangesNothing`,
  `ForcedIsHonest`. `JobShape` says what a job has gathered at each await (the
  configuration, the catalog of its account, the router built from both);
  `Consistent` what belongs together between two jobs (`Belongs`) and between the
  switch of the router and the commit (`Replaced`: the clients still open are the
  new router's and those still to be closed, apart from each other); `History`
  that nothing was touched where a job can still fail; `Asking` that a live
  request is queued or worked on once, and that its requester waits; `Dated` that
  versions only rise from the managed catalog through the job's to the remote
  one, which is why a later job cannot make a forced answer stale.

**Sessions** (`SnellSessionProofs`)

* `ResponseIntactAlways`, `ServerInStepAlways`, for any number of sessions and
  chunks. What a client gets depends on everything that is on its way, so `SessInv`
  describes both directions from end to end. Towards the client (`DownInv`): whose
  turn the server is at, that what it sent, what the reader has buffered and what
  the client got are one sequence without a gap (`InOrder`), and what a reader that
  waits for its status, its data or the end has ahead of it (`ReplyDue`, `BodyDue`,
  `Ended`). Towards the server (`UpInv`): the records of the sessions follow one
  another, each from its CONNECT to its zero record (`UpChain`, `UpLast`,
  `OneConnect`), so that nothing of an old session is on a pooled connection.

**Records** (`SnellSessionProofs`)

* `RecordsAlwaysArrive`, for any limits, paddings and nonce sizes. `RecordInv` says
  that there is one stream of bytes, of which the writer's buffer, what the
  transport holds and what the reader has are consecutive parts (`InFlight`), and a
  layout that says at which byte and after how many seals each record begins
  (`RecordStream`); the reader stands at the beginning of a record or between a
  header and its body (`ReaderAt`), with the nonce that was used there. Nonces
  count up as numbers in base `Base` (`NonceValues`) and so differ as long as there
  are fewer seals than nonces. That is an assumption, `MaxSeals` below
  `NonceCount[Digits]`: the code does not count, and a connection does not come
  near 2^96 seals. Swapping the padding twice gives the ciphertext back
  (`SwapPaddingBack`).

**Listeners** (`ListenerProofs`)

* `AdmissionCorrect`, `AdmissionWithinLimit`: the counter is exact, no wakeup is
  lost, no admission passes its limit. `NoLostWakeup` needs `BorrowedCurrent` and
  `SeenBefore` (the borrowed limit is the one in force or the listener has settings
  it has not seen); the limit needs `RoomLeft` (the test still holds when the
  counter is raised, because only the listener raises it).
* `PortsCorrect`: an association is refused only if every port was in use during
  its scan, and no two share a port. `Tried` says how far the scan has come;
  `AllTried` that `count` steps modulo `count` visit every port.
* `AssociationOnePeer` from `ClientSettled`; `AssociationExpires`, an action
  property, from `TimerSet` (the timer is never later than the last activity, as
  `Activity` rounds it, allows).
* `OriginAlwaysAgrees`, for any heads, bodies, limits, ways the bytes arrive, and
  for each of the readers that sees the proxy's header lines. Two arguments meet.
  The head: `FramingIsForwarded` says that the lines that frame a body are forwarded
  whatever Connection lists, so `Fits`, the framing the proxy parsed is the one the
  reader finds in the rewritten head, because `request_framing` refuses everything
  readers take in different ways, and because what it accepts is below `OriginWidth`
  (with the digit limit the assumption `HttpAssumption` asks no more of the origin
  than 64 bits). The body: while it is forwarded, what
  was sent, is pending, is kept of a line, is buffered, is left over from the head
  and is unread are consecutive parts of what the client sends (`Pieces`), and the
  end of the body, read from where the proxy stands, is the end of the body read
  from its beginning (`Place`, one clause per stage). `EndAhead` says that the end is
  never behind the proxy, `EofIncomplete` and `MalformedIncomplete` that a body
  refused at its end or at a bad line has no end for a strict reader either. The
  recursive functions (tokens, forwarded lines, the value of a chunk size, the end
  of a chunked body) exist and have their values by `StepsExist` and `JumpsExist`.

**`serve-map`** (`DialerProofs`)

* `MapRoutesClean`, `MapKeepsNodes`. `MapSettled` and `Replaced` say which clients are
  closed, between two updates and within one; `OwnClient` that no client serves
  two ports. That there is a next port, `Index`, is the existence of a least
  element, by well-foundedness of the natural numbers.

**Dialer** (`DialerProofs`)

* `DialsOwnNetwork` and the action property `LookupsNotWasted`: `Stamped` (all that
  was learnt carries the generation it was learnt on), `Stages` (what each step of
  a dial leaves for the next), `QueryAlone` (who queries holds the name's lock and
  the cache has had no valid answer since).
* `TrustNeverMixed`: `GenerationMeansRoots` (two copies of one generation, in the
  store, a dial or a cached configuration, have the same roots, so comparing
  generations is enough), `HandshakeConfigured`, `FromPlatform`.
* `EveryAddressIsTried`, for any addresses. `RankBounds` and the lemmas after it say
  what keeping some elements of a list, moving one to the front and alternating two
  lists give: every address once, the preferred one first, a family twice in a row
  only when the other is used up. Of the race, `Accounted` says that until it is won
  every address is pending, being connected to or has failed, that it has an attempt
  to wait for while it runs, and nothing pending once it is exhausted.

**Services** (`ServicesProofs`)

* `MonitorIsEgress`: `NetworkMonitor` implements `Egress`, as a simulation: every
  step is one of `Egress`'s or leaves selection and generation alone.
  `SourcesAreConfigured` says that whatever a caller was given is `Proper`: of the
  pinned address, or `OfOneInterface`; lists
  have a first and a last entry because a smallest counterexample would have one.
* `SecretsStayHome`, `AnswersAreFresh`: `GateHeld` (the job that answers a request
  began after it came, and answers that one only), `UpdatedInOrder` (only between
  the two updates of a job is the metadata not of the router's fetch), `Gathered`
  (what a request has read where it is) and `NotStale` (what a refreshed request
  will find, finds and has found is younger than it). `RequestKept` reduces most
  steps to one fact: fetches only move forward.
* `ServiceIsAlone`: `OwnInodes` and `AtThePath` (a live service's socket is at the
  path and nobody is about to remove it) unless one of the two races was lost.
* `CallsAreSound`: `PartsLeft` (the endpoints behind the current one still have their
  parts of the timeout, but for the ticks timers were late), `PostedOnce`.

The proofs cite the modules' own lemmas, `SharedLemmas` and the library's facts
about finite sets, sequences and well-founded relations. Where sequences of any
length or recursive functions are concerned, induction is over the set of the
numbers for which a statement holds: a set of natural numbers that is not empty has
a least element (`LeastNumber`), so one that holds 0 and every successor is all of
them (`NatSetInduction`).

`HttpRequest` and `RaceConnects` say with recursive functions
or comprehensions what folds and recursive operators said, which the prover does
not read.

Only model-checked, since fairness and ENABLED are outside the prover, is liveness:
`PoolResolves`, `SessionEnds`, `StopResolves`, `LoopServesAll`, `MapConverges`,
`EchRetriesStop`, `EgressSettles`, `RequestsAnswered`. Every other property that a
passing run checks is the subject of a theorem.

## 5. Running

    tlasany SnellPool.tla
    tlc -workers 2 -config MCSnellPool.cfg MCSnellPool
    tlapm SnellPoolProofs.tla

The longest runs (`listeners`, `dialer`, `services`) take two to three minutes, the
longest proofs (`SnellSessionProofs`, `ListenerProofs`, `DialerProofs`) up to four.

## 6. Findings

1. `SnellPacketSession::close` awaits the TLS shutdown without the timeout that
   `retire()` has. If the server has stopped reading, an association that timed
   out does not end (`pool_udp_close`).
2. `Journal::append` returns the error of a failed unlock although the record is
   durable; the sampler then writes the same delta again, which the comment at
   `traffic.rs:257` excludes (`journal_unlock`).
3. A private DNS query to an IPv4 server is bound to the unspecified address when
   the selected interface has IPv6 addresses only: `query_once`
   (`private_dns.rs:162`) does not ask `supports()`, as a TCP dial does, and
   `bind_udp_socket` (`network.rs:375`) refuses only with a pinned address.
   `README.en.md:290` says that such queries use the physical interface. Where
   `bind_interface` does nothing (neither macOS nor Windows) the system's route
   decides (`dns_source`).

Noted while reading, and not the subject of a run: a forced refresh that meets an
authentication error keeps the subscription metadata (`cli.rs:588`), while
`README.en.md:431` says that such errors clear it. The code looks deliberate. And
the comment at `http_proxy.rs:748` says that every framing is rejected in which the
origin could see another boundary. That is so as far as proxy and origin see the
same header lines, which is the condition of `OriginAgrees` (`SeesSameLines`): the
head is split at CRLF and a header is forwarded as it is, so one that holds a bare
LF is more than one line to an origin that ends lines at a single LF, as RFC 9112
allows in section 2.2. With every other origin the model has the same header
forwarded, and the property holds.

## 7. Not modelled, and the plan

Left out for good: TLS and the ciphers themselves, the vendored rustls, text
formats (configuration, nodes, subscriptions, Surge and Clash documents) and
their rendering, operating-system interfaces (signals, services, file modes,
limits, the Windows variants), log lines, status documents and performance
traces. They are sequential conversions or system calls without state of their
own; the outcomes the rest depends on are choices in the models.

Within modelled parts: the half-close of sessions that are not reusable, which
ends the transport; the period of the catalog service's timer; the connection
semaphore and failing listeners of `serve-map`; the options a reload hands to new
connections; the limit of concurrent control clients; the bytes of a SOCKS5
handshake and of a UDP address, of which `ServeMap` and `UdpAssociation` have the
outcomes; the rewriting of a response head; the client identity of
`snell/identity.rs`; signing of DNS queries and API requests.

A connection whose route is replaced between authentication and dial is refused
although its port has an open client (`socks5.rs:191`, `DialClosed` of
`ServeMap`). No document promises more, so no property speaks about it.

Plan, in order:

1. *Done*: the models and runs above, and proofs of every safety and action
   property that they check.
2. An abstract lease specification (a connection is free, leased, idle or gone)
   that `SnellPool` implements by refinement; the same for an abstract ledger and
   `TrafficJournal`.
