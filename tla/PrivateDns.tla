----------------------------- MODULE PrivateDns -----------------------------
(***************************************************************************)
(* The private DNS resolver (src/transport/private_dns.rs): node names     *)
(* under the private suffix are resolved by signed queries, one lookup of  *)
(* a name at a time, and cached per network generation.  An answer is a    *)
(* set of <<family, generation>> pairs: the addresses of one family as     *)
(* seen by a query sent through the network of that generation, which is   *)
(* what decides whether they are of any use.                               *)
(***************************************************************************)
EXTENDS Naturals, FiniteSets

CONSTANTS
    Tasks,         \* dials and provider requests that look names up
    Hosts,         \* the names looked up
    PrivateHosts,  \* those under the private suffix
    Nobody,        \* no task
    CacheTtl,      \* CACHE_TTL, in periods of PARTIAL_CACHE_TTL
    QueryAttempts  \* QUERY_ATTEMPTS

ASSUME DnsAssumption ==
    /\ PrivateHosts \subseteq Hosts
    /\ Nobody \notin Tasks
    /\ CacheTtl \in Nat

Families == {"v4", "v6"}
PartialCacheTtl == 1
Pending == [status |-> "pending", addresses |-> {}]
Failed  == [status |-> "failed", addresses |-> {}]
Answer(addresses) == [status |-> "ok", addresses |-> addresses]
NoHost == CHOOSE h \in Hosts : TRUE    \* of no meaning
NoEntry == [addresses |-> {}, generation |-> 0, left |-> 0]

VARIABLES
    dnsCache,      \* cache: host -> entry; left counts the periods to `expires`
    lookupLock,    \* lookup_locks: host -> the task holding its lock
    lookPc,        \* where each task is in lookup()
    lookHost,      \* the name it looks up
    lookNet,       \* the generation of the snapshot it was given
    tries,         \* attempts used per task and family
    answers,       \* per task and family: Pending, Failed or an Answer
    firstDone,     \* the family that finished first, or Nobody
    found          \* what the lookup returned

dnsVars == <<dnsCache, lookupLock, lookPc, lookHost, lookNet, tries, answers,
             firstDone, found>>

NoAnswers == [f \in Families |-> Pending]

DnsInit ==
    /\ dnsCache = [h \in PrivateHosts |-> NoEntry]
    /\ lookupLock = [h \in PrivateHosts |-> Nobody]
    /\ lookPc = [t \in Tasks |-> "idle"]
    /\ lookHost = [t \in Tasks |-> NoHost]
    /\ lookNet = [t \in Tasks |-> 0]
    /\ tries = [t \in Tasks |-> [f \in Families |-> 0]]
    /\ answers = [t \in Tasks |-> NoAnswers]
    /\ firstDone = [t \in Tasks |-> Nobody]
    /\ found = [t \in Tasks |-> {}]

\* Mutant: an entry is served whichever network it was learnt on.
CacheHitOnAnyNetwork(h, generation) == dnsCache[h].left > 0

CacheHit(h, generation) ==
    dnsCache[h].left > 0 /\ dnsCache[h].generation = generation

\* cached(): an entry that is of no use to this caller is removed.
Cached(h, generation) ==
    IF CacheHit(h, generation)
    THEN UNCHANGED dnsCache
    ELSE dnsCache' = [dnsCache EXCEPT ![h] = NoEntry]

\* lookup() is entered with a snapshot: a name outside the suffix is left to
\* the system's resolver, a cached one is returned.
LookUp(t, h, generation) ==
    /\ lookPc[t] = "idle"
    /\ lookHost' = [lookHost EXCEPT ![t] = h]
    /\ lookNet' = [lookNet EXCEPT ![t] = generation]
    /\ IF h \notin PrivateHosts
       THEN /\ lookPc' = [lookPc EXCEPT ![t] = "system"]
            /\ UNCHANGED <<dnsCache, found>>
       ELSE /\ Cached(h, generation)
            /\ IF CacheHit(h, generation)
               THEN /\ lookPc' = [lookPc EXCEPT ![t] = "found"]
                    /\ found' = [found EXCEPT ![t] = dnsCache[h].addresses]
               ELSE /\ lookPc' = [lookPc EXCEPT ![t] = "locking"]
                    /\ UNCHANGED found
    /\ UNCHANGED <<lookupLock, tries, answers, firstDone>>

\* Mutant: the cache is not read again under the lock.
LockLookupWithoutRecheck(t) ==
    LET h == lookHost[t]
    IN  /\ lookPc[t] = "locking" /\ lookupLock[h] = Nobody
        /\ lookPc' = [lookPc EXCEPT ![t] = "querying"]
        /\ lookupLock' = [lookupLock EXCEPT ![h] = t]
        /\ UNCHANGED <<dnsCache, lookHost, lookNet, tries, answers, firstDone, found>>

\* The host's lock is taken and the cache read again: the task that held the
\* lock may have filled it.  On a hit the lock is released at once.
LockLookup(t) ==
    LET h == lookHost[t]
    IN  /\ lookPc[t] = "locking" /\ lookupLock[h] = Nobody
        /\ Cached(h, lookNet[t])
        /\ IF CacheHit(h, lookNet[t])
           THEN /\ lookPc' = [lookPc EXCEPT ![t] = "found"]
                /\ found' = [found EXCEPT ![t] = dnsCache[h].addresses]
                /\ UNCHANGED lookupLock
           ELSE /\ lookPc' = [lookPc EXCEPT ![t] = "querying"]
                /\ lookupLock' = [lookupLock EXCEPT ![h] = t]
                /\ UNCHANGED found
        /\ UNCHANGED <<lookHost, lookNet, tries, answers, firstDone>>

\* The lookup ends with the addresses of the two families: none is an error,
\* others are cached, for the full time only if both families answered.
FinishLookup(t, addresses, complete) ==
    LET h == lookHost[t]
    IN  /\ lookPc' = [lookPc EXCEPT ![t] = IF addresses = {} THEN "failed" ELSE "found"]
        /\ found' = [found EXCEPT ![t] = addresses]
        /\ dnsCache' = IF addresses = {} THEN dnsCache
                       ELSE [dnsCache EXCEPT ![h] =
                               [addresses  |-> addresses,
                                generation |-> lookNet[t],
                                left       |-> IF complete THEN CacheTtl
                                               ELSE PartialCacheTtl]]
        /\ lookupLock' = [lookupLock EXCEPT ![h] = Nobody]
        /\ tries' = [tries EXCEPT ![t] = [f \in Families |-> 0]]
        /\ answers' = [answers EXCEPT ![t] = NoAnswers]
        /\ firstDone' = [firstDone EXCEPT ![t] = Nobody]

\* merge_families, once family f has ended with `result`: the first non-empty
\* answer waits for the other only within FAMILY_GRACE (GraceExpires), the
\* first empty or failed one waits for the other to end.
MergeFamilies(t, f, result) ==
    IF firstDone[t] = Nobody
    THEN /\ firstDone' = [firstDone EXCEPT ![t] = f]
         /\ answers' = [answers EXCEPT ![t][f] = result]
         /\ UNCHANGED <<dnsCache, lookupLock, lookPc, tries, found>>
    ELSE LET first == answers[t][firstDone[t]]
         IN  IF first.addresses # {}
             THEN FinishLookup(t, first.addresses \cup result.addresses,
                               result # Failed)
             ELSE FinishLookup(t, result.addresses, Failed \notin {first, result})

\* query_once and parse_response: the server answers with the addresses it
\* has for the network the query came through, or with an empty answer
\* (NXDOMAIN or no record); packets that answer something else are skipped.
Answered(t, f) ==
    /\ lookPc[t] = "querying" /\ answers[t][f] = Pending
    /\ \E addresses \in {{}, {<<f, lookNet[t]>>}} :
          MergeFamilies(t, f, Answer(addresses))
    /\ UNCHANGED <<lookHost, lookNet>>

\* An attempt fails: no answer within QUERY_TIMEOUT, a truncated or refused
\* one, or no socket.  query() gives up after QUERY_ATTEMPTS.
AttemptFails(t, f) ==
    /\ lookPc[t] = "querying" /\ answers[t][f] = Pending
    /\ IF tries[t][f] + 1 < QueryAttempts
       THEN /\ tries' = [tries EXCEPT ![t][f] = @ + 1]
            /\ UNCHANGED <<dnsCache, lookupLock, lookPc, answers, firstDone, found>>
       ELSE MergeFamilies(t, f, Failed)
    /\ UNCHANGED <<lookHost, lookNet>>

\* FAMILY_GRACE passes after the first family brought addresses.
GraceExpires(t) ==
    /\ lookPc[t] = "querying" /\ firstDone[t] # Nobody
    /\ LET first == answers[t][firstDone[t]].addresses
       IN  first # {} /\ FinishLookup(t, first, FALSE)
    /\ UNCHANGED <<lookHost, lookNet>>

\* The lookup is dropped with the task that awaits it.
DropLookup(t) ==
    /\ lookPc' = [lookPc EXCEPT ![t] = "idle"]
    /\ lookupLock' = [h \in PrivateHosts |->
                         IF lookupLock[h] = t THEN Nobody ELSE lookupLock[h]]
    /\ tries' = [tries EXCEPT ![t] = [f \in Families |-> 0]]
    /\ answers' = [answers EXCEPT ![t] = NoAnswers]
    /\ firstDone' = [firstDone EXCEPT ![t] = Nobody]
    /\ lookNet' = [lookNet EXCEPT ![t] = 0]
    /\ found' = [found EXCEPT ![t] = {}]
    /\ UNCHANGED dnsCache

\* PARTIAL_CACHE_TTL passes.
DnsPeriod ==
    /\ \E h \in PrivateHosts : dnsCache[h].left > 0
    /\ dnsCache' = [h \in PrivateHosts |->
                      [dnsCache[h] EXCEPT !.left = IF @ > 0 THEN @ - 1 ELSE 0]]
    /\ UNCHANGED <<lookupLock, lookPc, lookHost, lookNet, tries, answers,
                   firstDone, found>>

LookupStep(t) ==
    \/ LockLookup(t) \/ GraceExpires(t)
    \/ \E f \in Families : Answered(t, f) \/ AttemptFails(t, f)
=============================================================================
