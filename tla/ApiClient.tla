----------------------------- MODULE ApiClient -----------------------------
(***************************************************************************)
(* The client of the service's API (src/api.rs): reads go through the      *)
(* primary and the fallback URLs under one deadline (with_fallback), the   *)
(* rebinding of a token is sent once, to the primary.  A response is told  *)
(* apart by what the checks look at, in the order in which the code makes  *)
(* them; the server and the transport are external.                        *)
(***************************************************************************)
EXTENDS Naturals

CONSTANTS
    MaxUrls,     \* the primary and at most three fallback URLs
    Timeout,     \* Client.timeout, in ticks
    MaxLate      \* bound: ticks by which a timer may fire late

ASSUME ApiAssumption == MaxUrls \in Nat \ {0} /\ Timeout \in Nat /\ MaxLate \in Nat

VARIABLES
    urlCount,    \* configured URLs
    apiPc,       \* "idle", "waiting" for a response, "done"
    apiOp,       \* "managed", "information" or "rebind"
    apiIndex,    \* the URL being tried, from 1
    apiNow,      \* ticks since the call began
    until,       \* when the attempt's budget ends
    apiBudget,   \* the budget of the attempt
    apiResult,   \* "ok" or the ErrorKind returned
    apiResponse, \* the response that was accepted, or NoResponse
    posted,      \* rebind requests on their way to the server
    issued,      \* tokens the server has issued for this call
    late         \* ticks by which timers have fired late (history)

apiVars == <<urlCount, apiPc, apiOp, apiIndex, apiNow, until, apiBudget, apiResult,
             apiResponse, posted, issued, late>>

Ops == {"managed", "information", "rebind"}

Responses ==
    [status : {200, 401, 404, 500}, small : BOOLEAN, json : BOOLEAN,
     ret : {200, 403, 503}, data : BOOLEAN, signature : {"missing", "wrong", "right"},
     decodes : BOOLEAN]

NoResponse == [status |-> 0]

HttpErrorKind(code) ==
    CASE code = 401       -> "authentication"
      [] code = 403       -> "forbidden"
      [] code = 407       -> "proxy_authentication"
      [] code = 429       -> "rate_limited"
      [] code \in 500..599 -> "server"
      [] OTHER            -> "invalid_response"

\* Mutant: an error of the server is final.
RetryableNoServer(kind) == kind \in {"timeout", "network"}

Retryable(kind) == kind \in {"timeout", "network", "server"}

\* ensure_success and read_limited_response, before anything else is read.
Received(r) ==
    IF r.status # 200 THEN HttpErrorKind(r.status)
    ELSE IF ~r.small THEN "other" ELSE "ok"

\* information_at
InformationOutcome(r) ==
    IF Received(r) # "ok" THEN Received(r)
    ELSE IF ~r.json THEN "invalid_response" ELSE "ok"

\* get_managed_config: what the signature covers is decoded only after it was
\* verified.
ManagedOutcome(r) ==
    IF Received(r) # "ok" THEN Received(r)
    ELSE IF ~r.json THEN "invalid_response"
    ELSE IF r.ret # 200 THEN HttpErrorKind(r.ret)
    ELSE IF ~r.data THEN "other"
    ELSE IF r.signature # "right" THEN "signature"
    ELSE IF ~r.decodes THEN "other" ELSE "ok"

\* rebind_token and parse_rebound_token
RebindOutcome(r) ==
    IF Received(r) # "ok" THEN Received(r)
    ELSE IF ~r.json THEN "invalid_response"
    ELSE IF r.ret # 200 THEN HttpErrorKind(r.ret)
    ELSE IF ~r.data \/ ~r.decodes THEN "invalid_response" ELSE "ok"

Outcome(r) ==
    CASE apiOp = "information" -> InformationOutcome(r)
      [] apiOp = "managed"     -> ManagedOutcome(r)
      [] apiOp = "rebind"      -> RebindOutcome(r)

\* The URLs a call may use: a mutation goes to the primary only.
Endpoints(op) == IF op = "rebind" THEN 1 ELSE urlCount

\* What is left is shared equally by the URLs left.
Budget(remaining, left) == remaining \div left

ApiInit ==
    /\ urlCount \in 1..MaxUrls
    /\ apiPc = "idle" /\ apiOp = "managed"
    /\ apiIndex = 0
    /\ apiNow = 0 /\ until = 0 /\ apiBudget = 0 /\ late = 0
    /\ apiResult = "none" /\ apiResponse = NoResponse
    /\ posted = 0 /\ issued = 0

\* One turn of the loop: no time may be left.
Attempt(index, op) ==
    LET remaining == IF apiNow < Timeout THEN Timeout - apiNow ELSE 0
        budget    == Budget(remaining, Endpoints(op) - index + 1)
    IN  IF remaining = 0
        THEN /\ apiPc' = "done"
             /\ apiResult' = "timeout"
             /\ UNCHANGED <<apiIndex, until, apiBudget, posted>>
        ELSE /\ apiPc' = "waiting"
             /\ apiIndex' = index
             /\ apiBudget' = budget
             /\ until' = apiNow + budget
             /\ posted' = IF op = "rebind" THEN posted + 1 ELSE posted
             /\ UNCHANGED apiResult

Call(op) ==
    /\ apiPc = "idle"
    /\ apiOp' = op
    /\ Attempt(1, op)
    /\ UNCHANGED <<urlCount, apiNow, apiResponse, issued, late>>

\* The attempt has ended with an error: the next URL, or the error itself.
Failed(kind) ==
    IF Retryable(kind) /\ apiIndex < Endpoints(apiOp)
    THEN Attempt(apiIndex + 1, apiOp)
    ELSE /\ apiPc' = "done"
         /\ apiResult' = kind
         /\ UNCHANGED <<apiIndex, until, apiBudget, posted>>

\* A response arrives, before the timeout or together with it.
Respond(r) ==
    /\ apiPc = "waiting"
    /\ apiOp = "rebind" /\ r.status = 200 => issued > 0
    /\ IF Outcome(r) = "ok"
       THEN /\ apiPc' = "done"
            /\ apiResult' = "ok"
            /\ apiResponse' = r
            /\ UNCHANGED <<apiIndex, until, apiBudget, posted>>
       ELSE Failed(Outcome(r)) /\ UNCHANGED apiResponse
    /\ UNCHANGED <<urlCount, apiOp, apiNow, issued, late>>

\* The connection fails, in TLS or for a cause that classify does not know
\* (neither leads to another URL), or below.
TransportFails(kind) ==
    /\ apiPc = "waiting"
    /\ Failed(kind)
    /\ UNCHANGED <<urlCount, apiOp, apiNow, apiResponse, issued, late>>

TimerFires ==
    /\ apiPc = "waiting" /\ apiNow >= until
    /\ Failed("timeout")
    /\ UNCHANGED <<urlCount, apiOp, apiNow, apiResponse, issued, late>>

\* The server issues a token for a rebind it received, perhaps after the
\* client gave up.
Issue ==
    /\ posted > 0
    /\ posted' = posted - 1
    /\ issued' = issued + 1
    /\ UNCHANGED <<urlCount, apiPc, apiOp, apiIndex, apiNow, until, apiBudget,
                   apiResult, apiResponse, late>>

Tick ==
    /\ apiPc = "waiting"
    /\ apiNow >= until => late < MaxLate
    /\ apiNow' = apiNow + 1
    /\ late' = IF apiNow >= until THEN late + 1 ELSE late
    /\ UNCHANGED <<urlCount, apiPc, apiOp, apiIndex, until, apiBudget, apiResult,
                   apiResponse, posted, issued>>

ApiNext ==
    \/ \E op \in Ops : Call(op)
    \/ \E r \in Responses : Respond(r)
    \/ \E kind \in {"network", "tls", "other"} : TransportFails(kind)
    \/ TimerFires \/ Issue \/ Tick

ApiSpec == ApiInit /\ [][ApiNext]_apiVars

-----------------------------------------------------------------------------
(***************************************************************************)
(* A call's answer is justified.  What it accepts is a successful response *)
(* and, for the catalog, one the API signed; an error that another URL     *)
(* might have avoided is returned only when every URL has been tried or    *)
(* the deadline has passed; and whatever was lost, one call never makes    *)
(* the server issue two tokens: "Never retry this mutation: a lost         *)
(* response may already have issued a token" (api.rs).                     *)
(***************************************************************************)
AnswerJustified ==
    /\ posted + issued <= 1
    /\ apiResult = "ok" =>
          /\ apiResponse.status = 200 /\ apiResponse.json
          /\ apiOp = "managed" => apiResponse.ret = 200 /\ apiResponse.signature = "right"
    /\ apiPc = "done" /\ apiOp # "rebind"
            /\ apiResult \in {"timeout", "network", "server"} =>
          apiIndex = urlCount \/ apiNow >= Timeout

(***************************************************************************)
(* One slow URL takes no time from the others: each gets at least its part *)
(* of the timeout, and the call ends within the timeout, but for the ticks *)
(* by which timers fired late (with_fallback).                             *)
(***************************************************************************)
FairShare ==
    apiPc = "waiting" =>
        /\ apiBudget + late >= Timeout \div Endpoints(apiOp)
        /\ until <= Timeout

(***************************************************************************)
(* Both at once: a call returns what it may return, and gives every URL    *)
(* its time before it gives up (api.rs with_fallback).                     *)
(***************************************************************************)
CallSound == AnswerJustified /\ FairShare
=============================================================================
