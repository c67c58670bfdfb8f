------------------------------ MODULE Provider ------------------------------
(***************************************************************************)
(* Node lists over HTTP (src/http_server.rs): requests for the Surge and   *)
(* Clash documents and for the raw export (src/raw_provider.rs), answered  *)
(* from the manager of src/gateway.rs while the service loop replaces its  *)
(* router and its subscription metadata.  The jobs of the loop appear here *)
(* only by what they do to the manager (CatalogService models the rest).   *)
(* serve never closes the manager, so a router is always there.  Status    *)
(* and health requests and refused methods change and wait for nothing.    *)
(***************************************************************************)
EXTENDS Naturals, Sequences, FiniteSets, SequencesExt

CONSTANTS
    Reqs,         \* HTTP connections to the provider port
    Requests,     \* the kinds of requests: [path, refresh, local]
    Accounts,     \* access tokens
    NodeHosts,    \* server names of the raw nodes
    Filtered,     \* those of the published ones
    Concurrency,  \* CONCURRENCY: lookups at a time
    None,         \* no request, no account, no address
    MaxJobs       \* bound: jobs of the service loop

ASSUME ProvAssumption ==
    /\ None \notin Reqs \cup Accounts
    /\ Requests \subseteq [path : {"surge", "clash", "raw"}, refresh : BOOLEAN,
                           local : BOOLEAN]
    /\ Filtered \subseteq NodeHosts

VARIABLES
    gwRouter,     \* GatewayManager.router: [account, allow, fetch]
    gwSub,        \* GatewayManager.subscription: [account, fetch], or NoInfo
    gwJob,        \* the job of the service loop: [stage, kind, for, account, allow]
    jobs,         \* jobs begun, the number of the last one
    refreshGate,  \* provider_refresh_gate: the request holding it, or None
    req,          \* per request: what it asks for, one of Requests
    reqPc,        \* where it is
    reqDoc,       \* the router its document is of
    reqHead,      \* the metadata of its Subscription-Userinfo header
    reqStatus,    \* the status code answered
    hostsLeft,    \* render: hosts without a task yet
    granted,      \* <<request, host>> of lookups with a permit of `limit`
    waitq,        \* those that wait for a permit, in order
    asked,        \* history: the jobs begun when a refresh=1 request came
    docStage      \* history: the stage of the job when the document was read

gwVars   == <<gwRouter, gwSub, gwJob, jobs>>
reqVars  == <<req, reqPc, reqDoc, reqHead, reqStatus, asked, docStage>>
rawVars  == <<hostsLeft, granted, waitq>>
provVars == <<gwVars, refreshGate, reqVars, rawVars>>

AtRest    == [stage |-> "rest", kind |-> "none", for |-> None, account |-> None,
              allow |-> FALSE]
NoInfo    == [account |-> None, fetch |-> 0]
NoDoc     == [account |-> None, allow |-> FALSE, fetch |-> 0]
NoRequest == [path |-> "none", refresh |-> FALSE, local |-> TRUE]

\* What is in use at the start counts as fetch 0.
ProvInit ==
    /\ \E a \in Accounts, allow \in BOOLEAN :
          gwRouter = [account |-> a, allow |-> allow, fetch |-> 0]
    /\ gwSub \in {[account |-> gwRouter.account, fetch |-> 0], NoInfo}
    /\ gwJob = AtRest
    /\ jobs = 0
    /\ refreshGate = None
    /\ req = [r \in Reqs |-> NoRequest]
    /\ reqPc = [r \in Reqs |-> "idle"]
    /\ reqDoc = [r \in Reqs |-> NoDoc]
    /\ reqHead = [r \in Reqs |-> NoInfo]
    /\ reqStatus = [r \in Reqs |-> 0]
    /\ hostsLeft = [r \in Reqs |-> {}]
    /\ granted = {}
    /\ waitq = <<>>
    /\ asked = [r \in Reqs |-> 0]
    /\ docStage = [r \in Reqs |-> "rest"]

-----------------------------------------------------------------------------
(***************************************************************************)
(* What the jobs of the service loop, one at a time, do to the manager.    *)
(* The fetch of a job has the job's number.                                *)
(***************************************************************************)
BeginJob(kind, for, account, allow) ==
    /\ gwJob.stage = "rest" /\ jobs < MaxJobs
    /\ jobs' = jobs + 1
    /\ gwJob' = [stage |-> "fetching", kind |-> kind, for |-> for, account |-> account,
                 allow |-> allow]
    /\ UNCHANGED <<gwRouter, gwSub, refreshGate, reqVars, rawVars>>

\* reload_inner for another account or API, which fetches.
BeginReload(account, allow) == BeginJob("reload", None, account, allow)

\* A refresh by timer, wakeup or control command.
BeginRefresh == BeginJob("refresh", None, gwRouter.account, gwRouter.allow)

\* A refresh for a request that still waits in refresh_provider.
BeginForced(r) ==
    /\ refreshGate = r /\ reqPc[r] = "refreshing"
    /\ BeginJob("forced", r, gwRouter.account, gwRouter.allow)

\* reload_inner without a fetch: the router is built anew from the same nodes.
ReloadKept(allow) ==
    /\ gwJob.stage = "rest" /\ jobs < MaxJobs
    /\ jobs' = jobs + 1
    /\ gwRouter' = [gwRouter EXCEPT !.allow = allow]
    /\ UNCHANGED <<gwSub, gwJob, refreshGate, reqVars, rawVars>>

\* manager.replace, and the old clients are closed before the job goes on.  If
\* a refresh finds the same nodes the router stays: it is of this fetch too.
Install ==
    /\ gwJob.stage = "fetching"
    /\ gwRouter' = [account |-> gwJob.account, allow |-> gwJob.allow, fetch |-> jobs]
    /\ gwJob' = [gwJob EXCEPT !.stage = "replaced"]
    /\ UNCHANGED <<gwSub, jobs, refreshGate, reqVars, rawVars>>

\* Mutant: whoever waits at the gate takes the result for its own.
ReplyToWaiting(ok) ==
    LET r == refreshGate
    IN  IF r # None
        THEN /\ refreshGate' = None
             /\ reqPc' = [reqPc EXCEPT ![r] = IF ok THEN "reading" ELSE "answered"]
             /\ reqStatus' = [reqStatus EXCEPT ![r] = IF ok THEN @ ELSE 503]
        ELSE UNCHANGED <<refreshGate, reqPc, reqStatus>>

\* The requester of a job gets its result, unless it has left.
Reply(ok) ==
    LET r == gwJob.for
    IN  IF r # None
        THEN /\ refreshGate' = None
             /\ reqPc' = [reqPc EXCEPT ![r] = IF ok THEN "reading" ELSE "answered"]
             /\ reqStatus' = [reqStatus EXCEPT ![r] = IF ok THEN @ ELSE 503]
        ELSE UNCHANGED <<refreshGate, reqPc, reqStatus>>

\* update_subscription, with metadata if the API sent any.
UpdateSubscription(info) ==
    gwSub' = IF info THEN [account |-> gwJob.account, fetch |-> jobs] ELSE NoInfo

FinishJob(info) ==
    /\ gwJob.stage = "replaced"
    /\ UpdateSubscription(info)
    /\ gwJob' = AtRest
    /\ Reply(TRUE)
    /\ UNCHANGED <<gwRouter, jobs, req, reqDoc, reqHead, asked, docStage, rawVars>>

\* A job fails before it has changed the router: finish_refresh drops the
\* metadata of an account the API no longer accepts, unless it was forced.
FetchFails(denied) ==
    /\ gwJob.stage = "fetching"
    /\ IF denied /\ gwJob.kind = "refresh" THEN gwSub' = NoInfo ELSE UNCHANGED gwSub
    /\ gwJob' = AtRest
    /\ Reply(FALSE)
    /\ UNCHANGED <<gwRouter, jobs, req, reqDoc, reqHead, asked, docStage, rawVars>>

-----------------------------------------------------------------------------
(***************************************************************************)
(* serve_http.                                                             *)
(***************************************************************************)
RawPeerAllowed(local, allow) == allow \/ local

Answer(r, status) ==
    /\ reqPc' = [reqPc EXCEPT ![r] = "answered"]
    /\ reqStatus' = [reqStatus EXCEPT ![r] = status]

\* The headers are read.  A refresh refuses forbidden raw requests before any
\* remote work, takes the gate or finds it taken, and queues its command or
\* finds the queue full.
Ask(r, q, queueFull) ==
    /\ reqPc[r] = "idle"
    /\ req' = [req EXCEPT ![r] = q]
    /\ asked' = [asked EXCEPT ![r] = IF q.refresh THEN jobs ELSE 0]
    /\ CASE ~q.refresh ->
              /\ ~queueFull
              /\ reqPc' = [reqPc EXCEPT ![r] = "reading"]
              /\ UNCHANGED <<refreshGate, reqStatus>>
         [] q.refresh /\ q.path = "raw" /\ ~RawPeerAllowed(q.local, gwRouter.allow) ->
              Answer(r, 403) /\ UNCHANGED refreshGate
         [] q.refresh /\ (q.path = "raw" => RawPeerAllowed(q.local, gwRouter.allow)) ->
              IF refreshGate # None \/ queueFull
              THEN Answer(r, 503) /\ UNCHANGED refreshGate
              ELSE /\ refreshGate' = r
                   /\ reqPc' = [reqPc EXCEPT ![r] = "refreshing"]
                   /\ UNCHANGED reqStatus
    /\ UNCHANGED <<gwVars, reqDoc, reqHead, docStage, rawVars>>

\* refresh_provider gives up after 180 s; a job done for it goes on, but its
\* reply has no receiver any more.
RefreshTimeout(r) ==
    /\ reqPc[r] = "refreshing"
    /\ refreshGate' = None
    /\ gwJob' = [gwJob EXCEPT !.for = IF @ = r THEN None ELSE @]
    /\ Answer(r, 503)
    /\ UNCHANGED <<gwRouter, gwSub, jobs, req, reqDoc, reqHead, asked, docStage, rawVars>>

\* provider() and clash_provider(): the document of the current router.
ReadDocument(r) ==
    /\ reqPc[r] = "reading" /\ req[r].path # "raw"
    /\ reqDoc' = [reqDoc EXCEPT ![r] = gwRouter]
    /\ docStage' = [docStage EXCEPT ![r] = gwJob.stage]
    /\ IF req[r].path = "clash"
       THEN reqPc' = [reqPc EXCEPT ![r] = "heading"] /\ UNCHANGED reqStatus
       ELSE Answer(r, 200)
    /\ UNCHANGED <<gwVars, refreshGate, req, reqHead, asked, rawVars>>

\* subscription_header(), after another await; metadata too old gives none.
ReadMetadata(r, fresh) ==
    /\ reqPc[r] = "heading"
    /\ reqHead' = [reqHead EXCEPT ![r] = IF fresh THEN gwSub ELSE NoInfo]
    /\ Answer(r, 200)
    /\ UNCHANGED <<gwVars, refreshGate, req, reqDoc, asked, docStage, rawVars>>

\* Mutant: a request that asked for a refresh was already checked.
RawAllowedOnce(r) == req[r].refresh \/ RawPeerAllowed(req[r].local, gwRouter.allow)

\* raw_provider checks the snapshot it exports, also after a refresh.
RawAllowed(r) == RawPeerAllowed(req[r].local, gwRouter.allow)

\* The nodes are those of the snapshot, all of them or the published ones.
RawStart(r, hosts) ==
    /\ reqPc[r] = "reading" /\ req[r].path = "raw"
    /\ IF RawAllowed(r)
       THEN /\ reqDoc' = [reqDoc EXCEPT ![r] = gwRouter]
            /\ hostsLeft' = [hostsLeft EXCEPT ![r] = hosts]
            /\ reqPc' = [reqPc EXCEPT ![r] = "rendering"]
            /\ UNCHANGED reqStatus
       ELSE Answer(r, 403) /\ UNCHANGED <<reqDoc, hostsLeft>>
    /\ UNCHANGED <<gwVars, refreshGate, req, reqHead, asked, docStage, granted, waitq>>

-----------------------------------------------------------------------------
(***************************************************************************)
(* RawProvider::render and resolve.                                        *)
(***************************************************************************)
TasksOf(r) == {l \in granted \cup ToSet(waitq) : l[1] = r}

\* A task per host, at most CONCURRENCY of a request at a time, which queues
\* for one of the permits all requests share.
SpawnLookup(r, h) ==
    /\ reqPc[r] = "rendering" /\ h \in hostsLeft[r]
    /\ Cardinality(TasksOf(r)) < Concurrency
    /\ hostsLeft' = [hostsLeft EXCEPT ![r] = @ \ {h}]
    /\ IF Cardinality(granted) < Concurrency
       THEN granted' = granted \cup {<<r, h>>} /\ UNCHANGED waitq
       ELSE waitq' = Append(waitq, <<r, h>>) /\ UNCHANGED granted
    /\ UNCHANGED <<gwVars, refreshGate, reqVars>>

\* A permit is dropped and goes to the first in the queue.
Release(l) ==
    IF waitq = <<>>
    THEN granted' = granted \ {l} /\ UNCHANGED waitq
    ELSE granted' = (granted \ {l}) \cup {Head(waitq)} /\ waitq' = Tail(waitq)

\* Mutant: the permit of a lookup is not handed on while the task may still
\* spawn others.
LookupEndsHolding(l) ==
    /\ l \in granted /\ hostsLeft[l[1]] = {}
    /\ Release(l)
    /\ UNCHANGED <<gwVars, refreshGate, reqVars, hostsLeft>>

\* The lookup ends, with an address or, after an error or LOOKUP_TIMEOUT,
\* without one; which address is exported (the new one, the last good one or
\* the name itself) is text of the document.
LookupEnds(l) ==
    /\ l \in granted
    /\ Release(l)
    /\ UNCHANGED <<gwVars, refreshGate, reqVars, hostsLeft>>

\* No task is left and no host: the document is complete.
RawAnswer(r) ==
    /\ reqPc[r] = "rendering" /\ hostsLeft[r] = {} /\ TasksOf(r) = {}
    /\ Answer(r, 200)
    /\ UNCHANGED <<gwVars, refreshGate, req, reqDoc, reqHead, asked, docStage, rawVars>>

\* The response is written, or not; the connection is done either way.
Hangup(r) ==
    /\ reqPc[r] = "answered"
    /\ reqPc' = [reqPc EXCEPT ![r] = "idle"]
    /\ req' = [req EXCEPT ![r] = NoRequest]
    /\ reqDoc' = [reqDoc EXCEPT ![r] = NoDoc]
    /\ reqHead' = [reqHead EXCEPT ![r] = NoInfo]
    /\ reqStatus' = [reqStatus EXCEPT ![r] = 0]
    /\ asked' = [asked EXCEPT ![r] = 0]
    /\ docStage' = [docStage EXCEPT ![r] = "rest"]
    /\ UNCHANGED <<gwVars, refreshGate, rawVars>>

-----------------------------------------------------------------------------
Lookups == Reqs \X NodeHosts

RequestStep(r) ==
    \/ RefreshTimeout(r) \/ ReadDocument(r) \/ RawAnswer(r)
    \/ \E hosts \in {NodeHosts, Filtered} : RawStart(r, hosts)
    \/ \E fresh \in BOOLEAN : ReadMetadata(r, fresh)
    \/ \E h \in NodeHosts : SpawnLookup(r, h)

ProvNext ==
    \/ \E a \in Accounts, allow \in BOOLEAN : BeginReload(a, allow)
    \/ \E allow \in BOOLEAN : ReloadKept(allow)
    \/ BeginRefresh \/ \E r \in Reqs : BeginForced(r)
    \/ Install \/ \E b \in BOOLEAN : FinishJob(b) \/ FetchFails(b)
    \/ \E r \in Reqs, q \in Requests, full \in BOOLEAN : Ask(r, q, full)
    \/ \E r \in Reqs : RequestStep(r) \/ Hangup(r)
    \/ \E l \in Lookups : LookupEnds(l)

\* Tasks go on, and what they await is bounded by timers: 180 s for a refresh,
\* LOOKUP_TIMEOUT for a lookup.  Jobs and new requests may not come.
ProvFairness ==
    /\ \A r \in Reqs : WF_provVars(RequestStep(r))
    /\ \A l \in Lookups : WF_provVars(LookupEnds(l))

ProvSpec == ProvInit /\ [][ProvNext]_provVars /\ ProvFairness

-----------------------------------------------------------------------------
(***************************************************************************)
(* Node secrets reach a remote peer only from a catalog whose own          *)
(* configuration allows it: the check made before a forced refresh may be  *)
(* overtaken by a reload, so "Check the same catalog snapshot that will be *)
(* exported" (gateway.rs raw_provider).                                    *)
(***************************************************************************)
RawDocumentAllowed ==
    \A r \in Reqs :
        req[r].path = "raw" /\ reqStatus[r] \in {0, 200} /\ reqDoc[r] # NoDoc
            => RawPeerAllowed(req[r].local, reqDoc[r].allow)

(***************************************************************************)
(* "never serve stale data as a successful refresh": what refresh=1 is     *)
(* answered with was fetched after the request came, the document as well  *)
(* as the metadata beside it.  Its command may wait behind other jobs, an  *)
(* earlier request may have left its own job running, and further jobs may *)
(* come between its reads.  And whatever comes between the two reads of a  *)
(* Clash request, metadata older than the document is sent only if the job *)
(* that installed the document's router had not finished when that was     *)
(* read (gateway.rs refresh_provider, http_server.rs the provider branch,  *)
(* cli.rs apply_refreshed_catalog and reload_inner).                       *)
(***************************************************************************)
AnswersNotStale ==
    \A r \in Reqs : reqStatus[r] = 200 =>
        /\ req[r].refresh => reqDoc[r].fetch > asked[r]
        /\ req[r].refresh /\ reqHead[r] # NoInfo => reqHead[r].fetch > asked[r]
        /\ reqHead[r] # NoInfo /\ reqHead[r].fetch < reqDoc[r].fetch =>
             docStage[r] = "replaced"

(***************************************************************************)
(* Every request is answered: refreshes give up, lookups time out, and the *)
(* permits all raw requests share go round, so that no request starves     *)
(* although others keep coming (raw_provider.rs, gateway.rs).              *)
(***************************************************************************)
RequestsAnswered ==
    \A r \in Reqs : reqPc[r] # "idle" ~> reqPc[r] = "answered"
=============================================================================
