---------------------------- MODULE DialerProofs ----------------------------
(***************************************************************************)
(* Proofs about DialTcp with the resolver it uses, for any number of       *)
(* dials, names and network changes; about EchTls with the trust store it  *)
(* uses, for any number of dials, roots and keys; about RaceConnects, for  *)
(* any addresses; and about ServeMap, for any names, profiles and          *)
(* connections, and any number of nodes and refreshes.                     *)
(*                                                                         *)
(* The argument about DialTcp: what is learnt is stamped with the network  *)
(* it was learnt on, in the cache, in last_success and on its way through  *)
(* a lookup (Stamped), a lookup runs under its dial's own network          *)
(* (Stages), and a name is queried by the holder of its lock only, while   *)
(* the cache has no answer for it (QueryAlone).  The argument about        *)
(* EchTls: a generation stands for one set of roots wherever a copy of     *)
(* them is kept, so that comparing generations is enough.                  *)
(*                                                                         *)
(* The argument about RaceConnects: the order the addresses are put in     *)
(* holds each of them exactly once, and until an attempt has won, every    *)
(* address is pending, being connected to or has failed; a race that runs  *)
(* has an attempt to wait for, and one that is exhausted has nothing       *)
(* pending (Accounted).                                                    *)
(*                                                                         *)
(* Both theorems about ServeMap rest on one invariant: which client each   *)
(* port leads to and which clients are closed, between two updates         *)
(* (MapSettled) and between the replacement of a route and the close of    *)
(* the client it led to (Replaced).                                        *)
(***************************************************************************)
EXTENDS DialTcp, EchTls, RaceConnects, ServeMap, SharedLemmas, FiniteSetTheorems

(* Addresses of dials *)

Addresses == Families \X Nat
Entries   == [addresses : SUBSET Addresses, generation : Nat, left : Nat]
Results   == [status : {"pending", "failed", "ok"}, addresses : SUBSET Addresses]

\* The addresses learnt through the network of a generation.
LearntOn(generation) == {a \in Addresses : a[2] = generation}

DialTypes ==
    /\ netGeneration \in Nat /\ netSelection \in Selections
    /\ dnsCache \in [PrivateHosts -> Entries]
    /\ lookupLock \in [PrivateHosts -> Tasks \cup {Nobody}]
    /\ lookPc \in [Tasks -> {"idle", "system", "locking", "querying", "found", "failed"}]
    /\ lookHost \in [Tasks -> Hosts \cup {NoHost}]
    /\ lookNet \in [Tasks -> Nat]
    /\ answers \in [Tasks -> [Families -> Results]]
    /\ firstDone \in [Tasks -> Families \cup {Nobody}]
    /\ found \in [Tasks -> SUBSET Addresses]
    /\ dialPc \in [Tasks -> {"idle", "resolving", "racing"}]
    /\ dialNet \in [Tasks -> [generation : Nat, selection : Selections \cup {{}}]]
    /\ candidates \in [Tasks -> SUBSET Addresses]
    /\ preferred \in [Tasks -> SUBSET Addresses]
    /\ lastSuccess \in [Hosts -> [generation : Nat, address : Addresses]]

\* Everything learnt carries the generation it was learnt on.
Stamped ==
    /\ \A h \in PrivateHosts :
         /\ dnsCache[h].addresses \subseteq LearntOn(dnsCache[h].generation)
         /\ lastSuccess[h].address \in LearntOn(lastSuccess[h].generation)
    /\ \A t \in Tasks :
         /\ found[t] \subseteq LearntOn(lookNet[t])
         /\ \A f \in Families : answers[t][f].addresses \subseteq LearntOn(lookNet[t])
         /\ lookHost[t] \in PrivateHosts =>
              candidates[t] \cup preferred[t] \subseteq LearntOn(dialNet[t].generation)

\* What each step of a dial leaves behind for the next.
Stages ==
    \A t \in Tasks :
      /\ lookPc[t] # "querying" => \A f \in Families : answers[t][f].addresses = {}
      /\ lookPc[t] # "found" => found[t] = {}
      /\ dialPc[t] = "resolving" <=> lookPc[t] # "idle"
      /\ dialPc[t] = "resolving" => lookNet[t] = dialNet[t].generation
      /\ lookPc[t] = "system" => lookHost[t] \in Hosts \ PrivateHosts
      /\ lookPc[t] \notin {"idle", "system"} => lookHost[t] \in PrivateHosts
      /\ dialPc[t] # "racing" => candidates[t] = {} /\ preferred[t] = {}

\* A task that queries holds the lock of its name, and since it took it nobody
\* else has filled the cache.
QueryAlone ==
    \A t \in Tasks : lookPc[t] = "querying" =>
      /\ lookupLock[lookHost[t]] = t
      /\ ~CacheHit(lookHost[t], lookNet[t])

DialInv == DialTypes /\ Stamped /\ Stages /\ QueryAlone

\* A resolver that has learnt nothing.
LEMMA DialInitInv == DialInit => DialInv
<1> SUFFICES ASSUME DialInit PROVE DialInv
  OBVIOUS
<1>0. {} \in SUBSET Addresses /\ <<"v4", 0>> \in Addresses
  BY DEF Addresses, Families
<1>1. NoEntry \in Entries /\ Pending \in Results /\ NoNet \in [generation : Nat, selection : Selections \cup {{}}]
  BY DEF NoEntry, Entries, Pending, Results, NoNet
<1>2. NoSuccess \in [generation : Nat, address : Addresses]
  BY <1>0 DEF NoSuccess
<1>3. DialTypes
  BY <1>0, <1>1, <1>2 DEF DialInit, NetInit, DnsInit, DialTypes, NoAnswers
<1>4. Stamped
  BY <1>0, <1>1, <1>2, DnsAssumption DEF DialInit, DnsInit, Stamped, NoEntry, NoSuccess, LearntOn, NoAnswers, Pending
<1>5. Stages
  BY DEF DialInit, DnsInit, Stages, NoAnswers, Pending
<1>6. QueryAlone
  BY DEF DialInit, DnsInit, QueryAlone
<1> QED
  BY <1>3, <1>4, <1>5, <1>6 DEF DialInv

-----------------------------------------------------------------------------
(* What a lookup does, read off the code's branches. *)

\* The lookup returns what the cache holds for its network.
HitEffect(t) ==
    /\ lookHost'[t] \in PrivateHosts
    /\ dnsCache[lookHost'[t]].generation = lookNet'[t]
    /\ lookPc' = [lookPc EXCEPT ![t] = "found"]
    /\ found' = [found EXCEPT ![t] = dnsCache[lookHost'[t]].addresses]
    /\ UNCHANGED <<dnsCache, lookupLock, answers, firstDone>>

\* It goes on to query, holding the lock of its name.
QueryEffect(t) ==
    /\ lookPc[t] = "locking" /\ lookupLock[lookHost[t]] = Nobody
    /\ ~CacheHit(lookHost[t], lookNet[t])
    /\ dnsCache' = [dnsCache EXCEPT ![lookHost[t]] = NoEntry]
    /\ lookPc' = [lookPc EXCEPT ![t] = "querying"]
    /\ lookupLock' = [lookupLock EXCEPT ![lookHost[t]] = t]
    /\ UNCHANGED <<found, answers, firstDone, lookHost, lookNet>>

\* An answer of one family is kept until the other ends.
WaitEffect(t) ==
    /\ lookPc[t] = "querying"
    /\ \E f \in Families, r \in Results :
         /\ r.addresses \subseteq LearntOn(lookNet[t])
         /\ \/ answers' = [answers EXCEPT ![t] = [answers[t] EXCEPT ![f] = r]]
            \/ answers' = answers
         /\ \/ firstDone' = [firstDone EXCEPT ![t] = f]
            \/ firstDone' = firstDone
    /\ UNCHANGED <<dnsCache, lookupLock, lookPc, lookHost, lookNet, found>>

\* The lookup ends and, if there are addresses, fills the cache.
FinishEffect(t) ==
    /\ lookPc[t] = "querying"
    /\ \E addresses \in SUBSET LearntOn(lookNet[t]), complete \in BOOLEAN :
         FinishLookup(t, addresses, complete)
    /\ UNCHANGED <<lookHost, lookNet>>

\* merge_families waits for the other family or ends the lookup.
LEMMA MergeEffect ==
    ASSUME DialTypes, Stamped, NEW t \in Tasks, NEW f \in Families, NEW r \in Results,
           r.addresses \subseteq LearntOn(lookNet[t]),
           lookPc[t] = "querying", MergeFamilies(t, f, r), UNCHANGED <<lookHost, lookNet>>
    PROVE  WaitEffect(t) \/ FinishEffect(t)
<1>1. CASE firstDone[t] = Nobody
  BY <1>1 DEF MergeFamilies, WaitEffect
<1>2. CASE firstDone[t] # Nobody
  <2> DEFINE first == answers[t][firstDone[t]]
  <2>1. firstDone[t] \in Families
    BY <1>2 DEF DialTypes
  <2>2. first.addresses \subseteq LearntOn(lookNet[t])
    BY <2>1 DEF Stamped
  <2>3. first.addresses \cup r.addresses \in SUBSET LearntOn(lookNet[t])
    BY <2>2
  <2>4. CASE first.addresses # {}
    <3>1. FinishLookup(t, first.addresses \cup r.addresses, r # Failed)
      BY <1>2, <2>4 DEF MergeFamilies
    <3>2. (r # Failed) \in BOOLEAN
      OBVIOUS
    <3> QED
      BY <2>3, <3>1, <3>2 DEF FinishEffect
  <2>5. CASE first.addresses = {}
    <3>1. FinishLookup(t, r.addresses, Failed \notin {first, r})
      BY <1>2, <2>5 DEF MergeFamilies
    <3>2. (Failed \notin {first, r}) \in BOOLEAN
      OBVIOUS
    <3> QED
      BY <3>1, <3>2 DEF FinishEffect
  <2> QED
    BY <2>4, <2>5
<1> QED
  BY <1>1, <1>2

\* These are all the ways a lookup goes on.
LEMMA LookupEffect ==
    ASSUME DialInv, NEW t \in Tasks, LookupStep(t)
    PROVE  \/ HitEffect(t) /\ lookPc[t] = "locking" /\ UNCHANGED <<lookHost, lookNet>>
           \/ QueryEffect(t) \/ WaitEffect(t) \/ FinishEffect(t)
<1>0. DialTypes /\ Stamped /\ Stages
  BY DEF DialInv
<1>1. CASE LockLookup(t)
  <2>1. lookHost[t] \in PrivateHosts
    BY <1>0, <1>1 DEF LockLookup, Stages
  <2>2. CASE CacheHit(lookHost[t], lookNet[t])
    BY <1>1, <2>1, <2>2 DEF LockLookup, HitEffect, CacheHit, Cached
  <2>3. CASE ~CacheHit(lookHost[t], lookNet[t])
    BY <1>1, <2>3 DEF LockLookup, QueryEffect, Cached
  <2> QED
    BY <2>2, <2>3
<1>2. CASE GraceExpires(t)
  <2>1. firstDone[t] \in Families
    BY <1>0, <1>2 DEF GraceExpires, DialTypes
  <2>2. answers[t][firstDone[t]].addresses \in SUBSET LearntOn(lookNet[t])
    BY <1>0, <2>1 DEF Stamped
  <2> QED
    BY <1>2, <2>2 DEF GraceExpires, FinishEffect
<1>3. ASSUME NEW f \in Families, Answered(t, f)
      PROVE  WaitEffect(t) \/ FinishEffect(t)
  <2>1. PICK as \in {{}, {<<f, lookNet[t]>>}} : MergeFamilies(t, f, Answer(as))
    BY <1>3 DEF Answered
  <2>2. lookNet[t] \in Nat
    BY <1>0 DEF DialTypes
  <2>3. as \subseteq LearntOn(lookNet[t]) /\ as \in SUBSET Addresses
    <3>1. <<f, lookNet[t]>> \in Addresses /\ <<f, lookNet[t]>>[2] = lookNet[t]
      BY <2>2 DEF Addresses
    <3>2. <<f, lookNet[t]>> \in LearntOn(lookNet[t])
      BY <3>1 DEF LearntOn
    <3> QED
      BY <2>1, <3>1, <3>2
  <2>4. Answer(as) \in Results /\ Answer(as).addresses = as
    BY <2>3 DEF Answer, Results
  <2> QED
    BY <1>0, <1>3, <2>1, <2>3, <2>4, MergeEffect DEF Answered
<1>4. ASSUME NEW f \in Families, AttemptFails(t, f)
      PROVE  WaitEffect(t) \/ FinishEffect(t)
  <2>1. CASE tries[t][f] + 1 < QueryAttempts
    <3>1. Failed \in Results /\ Failed.addresses = {}
      BY DEF Failed, Results
    <3> QED
      BY <1>4, <2>1, <3>1 DEF AttemptFails, WaitEffect
  <2>2. CASE ~(tries[t][f] + 1 < QueryAttempts)
    <3>1. Failed \in Results /\ Failed.addresses = {}
      BY DEF Failed, Results
    <3> QED
      BY <1>0, <1>4, <2>2, <3>1, MergeEffect DEF AttemptFails
  <2> QED
    BY <2>1, <2>2
<1> QED
  BY <1>1, <1>2, <1>3, <1>4 DEF LookupStep

-----------------------------------------------------------------------------
(* Every step preserves the invariant. *)

\* A lookup reads the cache or begins to query.
LEMMA ReadInv ==
    ASSUME DialInv, NEW t \in Tasks, UNCHANGED <<netVars, dialVars, lookHost, lookNet>>,
           (HitEffect(t) /\ lookPc[t] = "locking") \/ QueryEffect(t)
    PROVE  DialInv'
<1>0. DialTypes /\ Stamped /\ Stages /\ QueryAlone
  BY DEF DialInv
<1>u. /\ UNCHANGED <<netGeneration, netSelection, dialPc, dialNet, candidates, preferred, lastSuccess>>
      /\ UNCHANGED <<lookHost, lookNet, answers, firstDone>>
      /\ lookPc[t] = "locking" /\ lookHost[t] \in PrivateHosts
  BY <1>0 DEF netVars, dialVars, HitEffect, QueryEffect, Stages
<1>h. dnsCache[lookHost[t]] \in Entries
  BY <1>0, <1>u DEF DialTypes
<1>1. CASE HitEffect(t)
  <2>1. DialTypes'
    BY <1>0, <1>u, <1>h, <1>1 DEF DialTypes, HitEffect, Entries
  <2>2. Stamped'
    BY <1>0, <1>u, <1>1 DEF DialTypes, Stamped, HitEffect
  <2>3. Stages'
    BY <1>0, <1>u, <1>1 DEF DialTypes, Stages, HitEffect
  <2>4. QueryAlone'
    BY <1>0, <1>u, <1>1 DEF DialTypes, QueryAlone, HitEffect, CacheHit
  <2> QED
    BY <2>1, <2>2, <2>3, <2>4 DEF DialInv
<1>2. CASE QueryEffect(t)
  <2>0. NoEntry \in Entries /\ NoEntry.addresses = {} /\ NoEntry.left = 0
    BY DEF NoEntry, Entries
  <2>1. DialTypes'
    BY <1>0, <1>u, <1>2, <2>0 DEF DialTypes, QueryEffect
  <2>2. Stamped'
    BY <1>0, <1>u, <1>2, <2>0 DEF DialTypes, Stamped, QueryEffect
  <2>3. Stages'
    BY <1>0, <1>u, <1>2 DEF DialTypes, Stages, QueryEffect
  <2>4. QueryAlone'
    <3> SUFFICES ASSUME NEW u \in Tasks, lookPc'[u] = "querying"
                 PROVE  lookupLock'[lookHost[u]] = u /\ ~CacheHit(lookHost[u], lookNet[u])'
      BY <1>u DEF QueryAlone, CacheHit
    <3>1. CASE u = t
      BY <1>0, <1>u, <1>2, <2>0, <3>1 DEF DialTypes, QueryEffect, CacheHit
    <3>2. CASE u # t
      <4>1. lookPc[u] = "querying" /\ lookHost[u] \in PrivateHosts
        BY <1>0, <1>2, <3>2 DEF DialTypes, QueryEffect, Stages
      <4>2. lookupLock[lookHost[u]] = u /\ lookHost[u] # lookHost[t]
        BY <1>0, <1>2, <4>1, DnsAssumption DEF QueryAlone, QueryEffect
      <4> QED
        BY <1>0, <1>u, <1>2, <4>1, <4>2 DEF DialTypes, QueryEffect, QueryAlone, CacheHit
    <3> QED
      BY <3>1, <3>2
  <2> QED
    BY <2>1, <2>2, <2>3, <2>4 DEF DialInv
<1> QED
  BY <1>1, <1>2

\* One family has ended and the other is awaited, or is tried again.
LEMMA WaitInv ==
    ASSUME DialInv, NEW t \in Tasks, UNCHANGED <<netVars, dialVars>>, WaitEffect(t)
    PROVE  DialInv'
<1>0. DialTypes /\ Stamped /\ Stages /\ QueryAlone
  BY DEF DialInv
<1>u. /\ UNCHANGED <<netGeneration, netSelection, dialPc, dialNet, candidates, preferred, lastSuccess>>
      /\ UNCHANGED <<dnsCache, lookupLock, lookPc, lookHost, lookNet, found>>
      /\ lookPc[t] = "querying"
  BY DEF netVars, dialVars, WaitEffect
<1>1. PICK f \in Families, r \in Results :
         /\ r.addresses \subseteq LearntOn(lookNet[t])
         /\ \/ answers' = [answers EXCEPT ![t] = [answers[t] EXCEPT ![f] = r]]
            \/ answers' = answers
         /\ \/ firstDone' = [firstDone EXCEPT ![t] = f]
            \/ firstDone' = firstDone
  BY DEF WaitEffect
<1>2. /\ answers' \in [Tasks -> [Families -> Results]]
      /\ \A u \in Tasks : u # t => answers'[u] = answers[u]
      /\ \A g \in Families : answers'[t][g] = answers[t][g] \/ answers'[t][g] = r
  <2>1. answers \in [Tasks -> [Families -> Results]]
    BY <1>0 DEF DialTypes
  <2>2. CASE answers' = answers
    BY <2>1, <2>2
  <2>3. CASE answers' = [answers EXCEPT ![t] = [answers[t] EXCEPT ![f] = r]]
    <3>1. [answers[t] EXCEPT ![f] = r] \in [Families -> Results]
      BY <2>1
    <3>2. answers' \in [Tasks -> [Families -> Results]] /\ answers'[t] = [answers[t] EXCEPT ![f] = r]
      BY <2>1, <2>3, <3>1
    <3>3. \A u \in Tasks : u # t => answers'[u] = answers[u]
      BY <2>1, <2>3
    <3> QED
      BY <2>1, <3>2, <3>3
  <2> QED
    BY <1>1, <2>2, <2>3
<1>3. firstDone' \in [Tasks -> Families \cup {Nobody}]
  BY <1>0, <1>1 DEF DialTypes
<1>4. DialTypes'
  BY <1>0, <1>u, <1>2, <1>3 DEF DialTypes
<1>5. Stamped'
  BY <1>0, <1>u, <1>1, <1>2 DEF Stamped
<1>6. Stages'
  BY <1>0, <1>u, <1>2 DEF Stages
<1>7. QueryAlone'
  BY <1>0, <1>u DEF QueryAlone, CacheHit
<1> QED
  BY <1>4, <1>5, <1>6, <1>7 DEF DialInv

\* The lookup ends: only the task that holds the lock of a name fills the
\* cache for it.
LEMMA FinishInv ==
    ASSUME DialInv, NEW t \in Tasks, UNCHANGED <<netVars, dialVars>>, FinishEffect(t)
    PROVE  DialInv'
<1>0. DialTypes /\ Stamped /\ Stages /\ QueryAlone
  BY DEF DialInv
<1>u. /\ UNCHANGED <<netGeneration, netSelection, dialPc, dialNet, candidates, preferred, lastSuccess>>
      /\ UNCHANGED <<lookHost, lookNet>>
      /\ lookPc[t] = "querying" /\ lookHost[t] \in PrivateHosts /\ lookNet[t] \in Nat
  BY <1>0 DEF netVars, dialVars, FinishEffect, Stages, DialTypes
<1>1. PICK as \in SUBSET LearntOn(lookNet[t]), complete \in BOOLEAN :
         FinishLookup(t, as, complete)
  BY DEF FinishEffect
<1>2. /\ lookPc' = [lookPc EXCEPT ![t] = IF as = {} THEN "failed" ELSE "found"]
      /\ found' = [found EXCEPT ![t] = as]
      /\ lookupLock' = [lookupLock EXCEPT ![lookHost[t]] = Nobody]
      /\ answers' = [answers EXCEPT ![t] = NoAnswers]
      /\ firstDone' = [firstDone EXCEPT ![t] = Nobody]
  BY <1>1 DEF FinishLookup
<1>3. PICK e \in Entries :
         /\ e.addresses \subseteq LearntOn(e.generation)
         /\ dnsCache' = [dnsCache EXCEPT ![lookHost[t]] = e]
  <2>1. as \in SUBSET Addresses
    BY DEF LearntOn
  <2>2. CASE as = {}
    <3>1. dnsCache' = dnsCache
      BY <1>1, <2>2 DEF FinishLookup
    <3>2. dnsCache' = [dnsCache EXCEPT ![lookHost[t]] = dnsCache[lookHost[t]]]
      BY <1>0, <1>u, <3>1 DEF DialTypes
    <3>3. dnsCache[lookHost[t]] \in Entries
      BY <1>0, <1>u DEF DialTypes
    <3> QED
      BY <1>0, <1>u, <3>2, <3>3 DEF Stamped
  <2>3. CASE as # {}
    <3> DEFINE e == [addresses  |-> as, generation |-> lookNet[t],
                     left |-> IF complete THEN CacheTtl ELSE PartialCacheTtl]
    <3>1. dnsCache' = [dnsCache EXCEPT ![lookHost[t]] = e]
      BY <1>1, <2>3 DEF FinishLookup
    <3>2. (IF complete THEN CacheTtl ELSE PartialCacheTtl) \in Nat
      BY DnsAssumption DEF PartialCacheTtl
    <3>3. e \in Entries /\ e.addresses \subseteq LearntOn(e.generation)
      BY <1>u, <2>1, <3>2 DEF Entries
    <3> HIDE DEF e
    <3> QED
      BY <3>1, <3>3
  <2> QED
    BY <2>2, <2>3
<1>4. NoAnswers \in [Families -> Results] /\ \A f \in Families : NoAnswers[f].addresses = {}
  BY DEF NoAnswers, Pending, Results
<1>5. DialTypes'
  <2>1. as \in SUBSET Addresses
    BY DEF LearntOn
  <2> QED
    BY <1>0, <1>u, <1>2, <1>3, <1>4, <2>1 DEF DialTypes
<1>6. Stamped'
  BY <1>0, <1>u, <1>2, <1>3, <1>4 DEF DialTypes, Stamped
<1>7. Stages'
  BY <1>0, <1>u, <1>2, <1>4 DEF DialTypes, Stages
<1>8. QueryAlone'
  <2> SUFFICES ASSUME NEW u \in Tasks, lookPc'[u] = "querying"
               PROVE  lookupLock'[lookHost[u]] = u /\ ~CacheHit(lookHost[u], lookNet[u])'
    BY <1>u DEF QueryAlone, CacheHit
  <2>1. u # t /\ lookPc[u] = "querying"
    BY <1>0, <1>2 DEF DialTypes
  <2>2. lookHost[u] \in PrivateHosts
    BY <1>0, <2>1 DEF Stages
  <2>3. lookupLock[lookHost[u]] = u /\ lookHost[u] # lookHost[t]
    BY <1>0, <1>u, <2>1 DEF QueryAlone
  <2> QED
    BY <1>0, <1>u, <1>2, <1>3, <2>1, <2>2, <2>3 DEF DialTypes, QueryAlone, CacheHit
<1> QED
  BY <1>5, <1>6, <1>7, <1>8 DEF DialInv

\* A dial starts with the current snapshot.
LEMMA StartInv ==
    ASSUME DialInv, NEW t \in Tasks, NEW h \in Hosts, StartDial(t, h)
    PROVE  DialInv'
<1>0. DialTypes /\ Stamped /\ Stages /\ QueryAlone
  BY DEF DialInv
<1>1. /\ dialPc[t] = "idle" /\ lookPc[t] = "idle"
      /\ dialPc' = [dialPc EXCEPT ![t] = "resolving"]
      /\ dialNet' = [dialNet EXCEPT ![t] = Current]
      /\ lookHost' = [lookHost EXCEPT ![t] = h]
      /\ lookNet' = [lookNet EXCEPT ![t] = netGeneration]
      /\ UNCHANGED <<netGeneration, candidates, preferred, lastSuccess, lookupLock, answers, firstDone>>
  BY DEF StartDial, LookUp, netVars
<1>2. found[t] = {} /\ (\A f \in Families : answers[t][f].addresses = {})
      /\ candidates[t] = {} /\ preferred[t] = {}
  BY <1>0, <1>1 DEF Stages
<1>3. netGeneration \in Nat /\ Current.generation = netGeneration
  BY <1>0 DEF DialTypes, Current
<1>4. \/ h \notin PrivateHosts /\ lookPc' = [lookPc EXCEPT ![t] = "system"] /\ UNCHANGED <<dnsCache, found>>
      \/ h \in PrivateHosts /\ HitEffect(t)
      \/ /\ h \in PrivateHosts /\ lookPc' = [lookPc EXCEPT ![t] = "locking"]
         /\ UNCHANGED found /\ dnsCache' = [dnsCache EXCEPT ![h] = NoEntry]
  <2>0. lookHost'[t] = h /\ lookNet'[t] = netGeneration
    BY <1>0, <1>1 DEF DialTypes
  <2>1. CASE h \notin PrivateHosts
    BY <2>1 DEF StartDial, LookUp
  <2>2. CASE h \in PrivateHosts /\ CacheHit(h, netGeneration)
    BY <1>1, <2>0, <2>2 DEF StartDial, LookUp, Cached, CacheHit, HitEffect
  <2>3. CASE h \in PrivateHosts /\ ~CacheHit(h, netGeneration)
    BY <2>3 DEF StartDial, LookUp, Cached
  <2> QED
    BY <2>1, <2>2, <2>3
<1>c. /\ dnsCache' \in [PrivateHosts -> Entries]
      /\ \A g \in PrivateHosts : dnsCache'[g] = dnsCache[g] \/ (dnsCache'[g].left = 0 /\ dnsCache'[g].addresses = {})
  <2>1. NoEntry \in Entries /\ NoEntry.addresses = {} /\ NoEntry.left = 0
    BY DEF NoEntry, Entries
  <2>2. dnsCache \in [PrivateHosts -> Entries]
    BY <1>0 DEF DialTypes
  <2>3. dnsCache' = dnsCache \/ (h \in PrivateHosts /\ dnsCache' = [dnsCache EXCEPT ![h] = NoEntry])
    BY <1>4 DEF HitEffect
  <2> HIDE DEF NoEntry, Entries
  <2>4. CASE dnsCache' = dnsCache
    BY <2>2, <2>4
  <2>5. CASE h \in PrivateHosts /\ dnsCache' = [dnsCache EXCEPT ![h] = NoEntry]
    <3>1. \A g \in PrivateHosts : dnsCache'[g] = IF g = h THEN NoEntry ELSE dnsCache[g]
      BY <2>2, <2>5
    <3>2. dnsCache' \in [PrivateHosts -> Entries]
      BY <2>1, <2>2, <2>5
    <3> QED
      BY <2>1, <3>1, <3>2
  <2> QED
    BY <2>3, <2>4, <2>5
<1>f. /\ found' \in [Tasks -> SUBSET Addresses]
      /\ \A u \in Tasks : u # t => found'[u] = found[u]
      /\ found'[t] \subseteq LearntOn(netGeneration)
      /\ lookPc'[t] # "found" => found'[t] = {}
  <2>1. CASE HitEffect(t) /\ h \in PrivateHosts
    <3>1. dnsCache[h] \in Entries
      BY <1>0, <2>1 DEF DialTypes
    <3>2. lookHost'[t] = h /\ lookNet'[t] = netGeneration
      BY <1>0, <1>1 DEF DialTypes
    <3>3. dnsCache[h].addresses \subseteq LearntOn(netGeneration)
      BY <1>0, <2>1, <3>2 DEF Stamped, HitEffect
    <3> QED
      BY <1>0, <2>1, <3>1, <3>2, <3>3 DEF DialTypes, HitEffect, Entries
  <2>2. CASE UNCHANGED found
    BY <1>0, <1>2, <2>2 DEF DialTypes
  <2> QED
    BY <1>4, <2>1, <2>2
<1>p. /\ lookPc' \in [Tasks -> {"idle", "system", "locking", "querying", "found", "failed"}]
      /\ \A u \in Tasks : u # t => lookPc'[u] = lookPc[u]
      /\ lookPc'[t] \in {"system", "found", "locking"}
      /\ lookPc'[t] = "system" <=> h \notin PrivateHosts
  BY <1>0, <1>4 DEF DialTypes, HitEffect
<1>n. Current \in [generation : Nat, selection : Selections \cup {{}}]
  <2>1. netSelection \in Selections \cup {{}}
    BY <1>0 DEF DialTypes
  <2> QED
    BY <1>3, <2>1 DEF Current
<1>5. DialTypes'
  <2>1. netSelection' = netSelection
    BY DEF StartDial, netVars
  <2> QED
    BY <1>0, <1>1, <1>3, <1>c, <1>f, <1>p, <1>n, <2>1 DEF DialTypes
<1>6. Stamped'
  BY <1>0, <1>1, <1>2, <1>3, <1>c, <1>f DEF DialTypes, Stamped
<1>7. Stages'
  BY <1>0, <1>1, <1>2, <1>3, <1>f, <1>p DEF DialTypes, Stages
<1>8. QueryAlone'
  <2> SUFFICES ASSUME NEW u \in Tasks, lookPc'[u] = "querying"
               PROVE  lookupLock'[lookHost'[u]] = u /\ ~CacheHit(lookHost[u], lookNet[u])'
    BY DEF QueryAlone
  <2>1. u # t /\ lookPc[u] = "querying" /\ lookHost'[u] = lookHost[u] /\ lookNet'[u] = lookNet[u]
    BY <1>0, <1>1, <1>p DEF DialTypes
  <2>2. lookHost[u] \in PrivateHosts
    BY <1>0, <2>1 DEF Stages
  <2>3. ~CacheHit(lookHost[u], lookNet[u]) /\ lookupLock[lookHost[u]] = u
    BY <1>0, <2>1 DEF QueryAlone
  <2> QED
    BY <1>1, <1>c, <2>1, <2>2, <2>3 DEF CacheHit
<1> QED
  BY <1>5, <1>6, <1>7, <1>8 DEF DialInv

\* A lookup is dropped, whatever it was doing.
LEMMA DropEffect ==
    ASSUME DialTypes, NEW t \in Tasks, DropLookup(t)
    PROVE  /\ dnsCache' = dnsCache
           /\ lookPc' = [lookPc EXCEPT ![t] = "idle"]
           /\ lookPc' \in [Tasks -> {"idle", "system", "locking", "querying", "found", "failed"}]
           /\ found' \in [Tasks -> SUBSET Addresses] /\ lookNet' \in [Tasks -> Nat]
           /\ lookupLock' \in [PrivateHosts -> Tasks \cup {Nobody}]
           /\ \A h \in PrivateHosts : lookupLock[h] # t => lookupLock'[h] = lookupLock[h]
           /\ answers' \in [Tasks -> [Families -> Results]]
           /\ \A u \in Tasks : u # t => answers'[u] = answers[u]
           /\ \A f \in Families : answers'[t][f].addresses = {}
           /\ firstDone' \in [Tasks -> Families \cup {Nobody}]
           /\ lookNet' = [lookNet EXCEPT ![t] = 0]
           /\ found' = [found EXCEPT ![t] = {}]
<1>1. NoAnswers \in [Families -> Results] /\ \A f \in Families : NoAnswers[f].addresses = {}
  BY DEF NoAnswers, Pending, Results
<1>2. /\ dnsCache' = dnsCache
      /\ lookPc' = [lookPc EXCEPT ![t] = "idle"]
      /\ answers' = [answers EXCEPT ![t] = NoAnswers]
      /\ firstDone' = [firstDone EXCEPT ![t] = Nobody]
      /\ lookNet' = [lookNet EXCEPT ![t] = 0]
      /\ found' = [found EXCEPT ![t] = {}]
  BY DEF DropLookup
<1>3. lookupLock' = [h \in PrivateHosts |-> IF lookupLock[h] = t THEN Nobody ELSE lookupLock[h]]
  BY DEF DropLookup
<1>4. /\ lookupLock' \in [PrivateHosts -> Tasks \cup {Nobody}]
      /\ \A h \in PrivateHosts : lookupLock[h] # t => lookupLock'[h] = lookupLock[h]
  BY <1>3 DEF DialTypes
<1>5. /\ answers' \in [Tasks -> [Families -> Results]]
      /\ \A u \in Tasks : u # t => answers'[u] = answers[u]
      /\ \A f \in Families : answers'[t][f].addresses = {}
      /\ firstDone' \in [Tasks -> Families \cup {Nobody}]
  BY <1>1, <1>2 DEF DialTypes
<1>6. lookPc' \in [Tasks -> {"idle", "system", "locking", "querying", "found", "failed"}]
  BY <1>2 DEF DialTypes
<1>7. found' \in [Tasks -> SUBSET Addresses] /\ lookNet' \in [Tasks -> Nat]
  BY <1>2 DEF DialTypes
<1> QED
  BY <1>2, <1>4, <1>5, <1>6, <1>7

\* The others keep their locks and find the cache as it was.
LEMMA DropAlone ==
    ASSUME DialInv, NEW t \in Tasks, DropLookup(t),
           \A u \in Tasks : u # t => lookHost'[u] = lookHost[u]
    PROVE  QueryAlone'
<1>0. DialTypes /\ Stages /\ QueryAlone
  BY DEF DialInv
<1> SUFFICES ASSUME NEW u \in Tasks, lookPc'[u] = "querying"
             PROVE  lookupLock'[lookHost'[u]] = u /\ ~CacheHit(lookHost[u], lookNet[u])'
  BY DEF QueryAlone
<1>1. /\ u # t /\ lookPc[u] = "querying" /\ lookHost'[u] = lookHost[u]
      /\ lookNet'[u] = lookNet[u]
  BY <1>0, DropEffect DEF DialTypes
<1>2. lookHost[u] \in PrivateHosts /\ lookupLock[lookHost[u]] = u
  BY <1>0, <1>1 DEF Stages, QueryAlone
<1>3. lookupLock'[lookHost[u]] = u /\ dnsCache' = dnsCache
  BY <1>0, <1>1, <1>2, DropEffect
<1> QED
  BY <1>0, <1>1, <1>3 DEF QueryAlone, CacheHit

\* The addresses are filtered and the preferred one chosen.
LEMMA ResolvedInv ==
    ASSUME DialInv, NEW t \in Tasks, Resolved(t)
    PROVE  DialInv'
<1>0. DialTypes /\ Stamped /\ Stages /\ QueryAlone
  BY DEF DialInv
<1>1. /\ dialPc[t] = "resolving" /\ dialPc' = [dialPc EXCEPT ![t] = "racing"]
      /\ preferred' = [preferred EXCEPT ![t] = Preferred(t)]
      /\ DropLookup(t)
      /\ UNCHANGED <<netGeneration, netSelection, dialNet, lastSuccess, lookHost>>
  BY DEF Resolved, netVars
<1>2. lookNet[t] = dialNet[t].generation
  BY <1>0, <1>1 DEF Stages
<1>3. PICK as : /\ candidates' = [candidates EXCEPT ![t] = as]
                /\ as \in SUBSET Addresses
                /\ lookHost[t] \in PrivateHosts => as \subseteq LearntOn(dialNet[t].generation)
  <2>1. CASE lookPc[t] = "found"
    <3>1. candidates' = [candidates EXCEPT ![t] = {a \in found[t] : SupportsFamily(dialNet[t], a)}]
      BY <2>1 DEF Resolved
    <3>2. found[t] \in SUBSET Addresses /\ found[t] \subseteq LearntOn(dialNet[t].generation)
      BY <1>0, <1>2 DEF DialTypes, Stamped
    <3> QED
      BY <3>1, <3>2
  <2>2. CASE lookPc[t] = "system"
    <3>1. lookHost[t] \notin PrivateHosts
      BY <1>0, <2>2 DEF Stages
    <3>2. PICK sys \in SUBSET {<<f, 0>> : f \in Families} :
             candidates' = [candidates EXCEPT ![t] = {a \in sys : SupportsFamily(dialNet[t], a)}]
      BY <2>2 DEF Resolved
    <3>3. {<<f, 0>> : f \in Families} \subseteq Addresses
      BY DEF Addresses
    <3> QED
      BY <3>1, <3>2, <3>3
  <2>3. lookPc[t] \in {"found", "system"}
    BY DEF Resolved
  <2> QED
    BY <2>1, <2>2, <2>3
<1>4. /\ Preferred(t) \in SUBSET Addresses
      /\ lookHost[t] \in PrivateHosts => Preferred(t) \subseteq LearntOn(dialNet[t].generation)
  <2>1. lookHost[t] \in Hosts
    BY <1>0, <1>1, DnsAssumption DEF Stages, DialTypes
  <2>2. lastSuccess[lookHost[t]].address \in Addresses
    BY <1>0, <2>1 DEF DialTypes
  <2> QED
    BY <1>0, <2>2 DEF Preferred, Stamped
<1>5. DialTypes'
  <2>1. /\ candidates' \in [Tasks -> SUBSET Addresses]
        /\ preferred' \in [Tasks -> SUBSET Addresses]
        /\ dialPc' \in [Tasks -> {"idle", "resolving", "racing"}]
    BY <1>0, <1>1, <1>3, <1>4 DEF DialTypes
  <2>2. /\ found' \in [Tasks -> SUBSET Addresses] /\ lookNet' \in [Tasks -> Nat]
        /\ lookPc' \in [Tasks -> {"idle", "system", "locking", "querying", "found", "failed"}]
    BY <1>0, <1>1, DropEffect
  <2>3. /\ lookupLock' \in [PrivateHosts -> Tasks \cup {Nobody}] /\ dnsCache' = dnsCache
        /\ answers' \in [Tasks -> [Families -> Results]]
        /\ firstDone' \in [Tasks -> Families \cup {Nobody}]
    BY <1>0, <1>1, DropEffect
  <2> QED
    BY <1>0, <1>1, <2>1, <2>2, <2>3 DEF DialTypes
<1>6. Stamped'
  <2>1. \A u \in Tasks : u # t => candidates'[u] = candidates[u] /\ preferred'[u] = preferred[u]
    BY <1>0, <1>1, <1>3 DEF DialTypes
  <2>2. candidates'[t] = as /\ preferred'[t] = Preferred(t)
    BY <1>0, <1>1, <1>3 DEF DialTypes
  <2>3. \A u \in Tasks : lookHost[u] \in PrivateHosts =>
          candidates'[u] \cup preferred'[u] \subseteq LearntOn(dialNet[u].generation)
    BY <1>0, <1>3, <1>4, <2>1, <2>2 DEF Stamped
  <2>4. \A u \in Tasks :
          /\ found'[u] \subseteq LearntOn(lookNet'[u])
          /\ \A f \in Families : answers'[u][f].addresses \subseteq LearntOn(lookNet'[u])
    BY <1>0, <1>1, DropEffect, ZenonT(40) DEF DialTypes, Stamped
  <2>5. dnsCache' = dnsCache
    BY <1>0, <1>1, DropEffect
  <2> QED
    BY <1>0, <1>1, <2>3, <2>4, <2>5 DEF Stamped
<1>7. Stages'
  BY <1>0, <1>1, <1>3, DropEffect DEF DialTypes, Stages
<1>8. QueryAlone'
  BY <1>1, DropAlone
<1> QED
  BY <1>5, <1>6, <1>7, <1>8 DEF DialInv

\* The dial returns.
LEMMA ReturnInv ==
    ASSUME DialInv, NEW t \in Tasks, dialPc[t] # "idle", ReturnTcp(t), UNCHANGED netVars,
           lastSuccess' \in [Hosts -> [generation : Nat, address : Addresses]],
           \A h \in PrivateHosts :
             lastSuccess'[h].address \in LearntOn(lastSuccess'[h].generation)
    PROVE  DialInv'
<1>0. DialTypes /\ Stamped /\ Stages /\ QueryAlone
  BY DEF DialInv
<1>1. /\ dialPc' = [dialPc EXCEPT ![t] = "idle"]
      /\ dialNet' = [dialNet EXCEPT ![t] = NoNet]
      /\ candidates' = [candidates EXCEPT ![t] = {}]
      /\ preferred' = [preferred EXCEPT ![t] = {}]
      /\ DropLookup(t)
      /\ lookHost' = [lookHost EXCEPT ![t] = NoHost]
      /\ UNCHANGED <<netGeneration, netSelection>>
  BY DEF ReturnTcp, netVars
<1>2. NoNet \in [generation : Nat, selection : Selections \cup {{}}]
  BY DEF NoNet
<1>3. DialTypes'
  <2>1. /\ candidates' \in [Tasks -> SUBSET Addresses]
        /\ preferred' \in [Tasks -> SUBSET Addresses]
        /\ dialPc' \in [Tasks -> {"idle", "resolving", "racing"}]
        /\ dialNet' \in [Tasks -> [generation : Nat, selection : Selections \cup {{}}]]
        /\ lookHost' \in [Tasks -> Hosts \cup {NoHost}]
    BY <1>0, <1>1, <1>2 DEF DialTypes
  <2>2. /\ found' \in [Tasks -> SUBSET Addresses] /\ lookNet' \in [Tasks -> Nat]
        /\ lookPc' \in [Tasks -> {"idle", "system", "locking", "querying", "found", "failed"}]
    BY <1>0, <1>1, DropEffect
  <2>3. /\ lookupLock' \in [PrivateHosts -> Tasks \cup {Nobody}] /\ dnsCache' = dnsCache
        /\ answers' \in [Tasks -> [Families -> Results]]
        /\ firstDone' \in [Tasks -> Families \cup {Nobody}]
    BY <1>0, <1>1, DropEffect
  <2> QED
    BY <1>0, <1>1, <2>1, <2>2, <2>3 DEF DialTypes
<1>4. Stamped'
  <2>1. \A u \in Tasks : lookHost'[u] \in PrivateHosts =>
          candidates'[u] \cup preferred'[u] \subseteq LearntOn(dialNet'[u].generation)
    BY <1>0, <1>1 DEF DialTypes, Stamped
  <2>2. \A u \in Tasks :
          /\ found'[u] \subseteq LearntOn(lookNet'[u])
          /\ \A f \in Families : answers'[u][f].addresses \subseteq LearntOn(lookNet'[u])
    BY <1>0, <1>1, DropEffect, SMTT(30) DEF DialTypes, Stamped
  <2>3. dnsCache' = dnsCache
    BY <1>0, <1>1, DropEffect
  <2> QED
    BY <1>0, <2>1, <2>2, <2>3 DEF Stamped
<1>5. Stages'
  BY <1>0, <1>1, DropEffect DEF DialTypes, Stages
<1>6. QueryAlone'
  <2>1. \A u \in Tasks : u # t => lookHost'[u] = lookHost[u]
    BY <1>0, <1>1 DEF DialTypes
  <2> QED
    BY <1>1, <2>1, DropAlone
<1> QED
  BY <1>3, <1>4, <1>5, <1>6 DEF DialInv

\* An address that connected is remembered for the dial's own network.
LEMMA ConnectedInv ==
    ASSUME DialInv, NEW t \in Tasks, Connected(t)
    PROVE  DialInv'
<1>0. DialTypes /\ Stamped
  BY DEF DialInv
<1>1. PICK a \in candidates[t] :
         lastSuccess' = [lastSuccess EXCEPT ![lookHost[t]] =
                           [generation |-> dialNet[t].generation, address |-> a]]
  BY DEF Connected
<1>2. dialPc[t] # "idle" /\ ReturnTcp(t) /\ UNCHANGED netVars
  BY DEF Connected
<1>3. a \in Addresses /\ dialNet[t].generation \in Nat
  BY <1>0, <1>1 DEF DialTypes
<1>4. lastSuccess' \in [Hosts -> [generation : Nat, address : Addresses]]
  BY <1>0, <1>1, <1>3 DEF DialTypes
<1>5. ASSUME NEW h \in PrivateHosts
      PROVE  lastSuccess'[h].address \in LearntOn(lastSuccess'[h].generation)
  <2>1. h \in Hosts
    BY DnsAssumption
  <2>2. CASE h = lookHost[t]
    <3>1. a \in LearntOn(dialNet[t].generation)
      BY <1>0, <1>1, <2>2 DEF Stamped
    <3> QED
      BY <1>0, <1>1, <2>1, <2>2, <3>1 DEF DialTypes
  <2>3. CASE h # lookHost[t]
    BY <1>0, <1>1, <2>1, <2>3 DEF DialTypes, Stamped
  <2> QED
    BY <2>2, <2>3
<1> QED
  BY <1>2, <1>4, <1>5, ReturnInv

\* Time passes: entries run out, none becomes valid.
LEMMA PeriodInv == ASSUME DialInv, TimePasses PROVE DialInv'
<1>0. DialTypes /\ Stamped /\ Stages /\ QueryAlone
  BY DEF DialInv
<1>u. /\ UNCHANGED <<netGeneration, netSelection, dialPc, dialNet, candidates, preferred, lastSuccess>>
      /\ UNCHANGED <<lookupLock, lookPc, lookHost, lookNet, answers, firstDone, found>>
  BY DEF TimePasses, DnsPeriod, netVars, dialVars
<1>1. ASSUME NEW h \in PrivateHosts
      PROVE  /\ dnsCache'[h] \in Entries
             /\ dnsCache'[h].addresses = dnsCache[h].addresses
             /\ dnsCache'[h].generation = dnsCache[h].generation
             /\ dnsCache'[h].left > 0 => dnsCache[h].left > 0
  <2>1. dnsCache'[h] = [dnsCache[h] EXCEPT !.left = IF @ > 0 THEN @ - 1 ELSE 0]
    BY DEF TimePasses, DnsPeriod
  <2>2. dnsCache[h] \in Entries
    BY <1>0 DEF DialTypes
  <2> QED
    BY <2>1, <2>2 DEF Entries
<1>2. dnsCache' \in [PrivateHosts -> Entries]
  <2>1. dnsCache' = [h \in PrivateHosts |-> dnsCache'[h]]
    BY DEF TimePasses, DnsPeriod
  <2> QED
    BY <1>1, <2>1
<1>3. DialTypes'
  BY <1>0, <1>u, <1>2 DEF DialTypes
<1>4. Stamped'
  BY <1>0, <1>u, <1>1 DEF Stamped
<1>5. Stages'
  BY <1>0, <1>u DEF Stages
<1>6. QueryAlone'
  <2> SUFFICES ASSUME NEW u \in Tasks, lookPc[u] = "querying"
               PROVE  lookupLock[lookHost[u]] = u /\ ~CacheHit(lookHost[u], lookNet[u])'
    BY <1>u DEF QueryAlone
  <2>1. lookHost[u] \in PrivateHosts
    BY <1>0 DEF Stages
  <2> QED
    BY <1>0, <1>u, <1>1, <2>1 DEF QueryAlone, CacheHit
<1> QED
  BY <1>3, <1>4, <1>5, <1>6 DEF DialInv

\* Every step preserves the invariant.
LEMMA DialNextInv == DialInv /\ [DialNext]_dialTcpVars => DialInv'
<1> SUFFICES ASSUME DialInv, [DialNext]_dialTcpVars PROVE DialInv'
  OBVIOUS
<1>1. ASSUME NEW t \in Tasks, NEW h \in Hosts, StartDial(t, h) PROVE DialInv'
  BY <1>1, StartInv
<1>2. ASSUME NEW t \in Tasks, Resolving(t) PROVE DialInv'
  <2>1. UNCHANGED <<netVars, dialVars>> /\ LookupStep(t)
    BY <1>2 DEF Resolving
  <2>2. CASE \/ HitEffect(t) /\ lookPc[t] = "locking" /\ UNCHANGED <<lookHost, lookNet>>
             \/ QueryEffect(t)
    <3>1. UNCHANGED <<lookHost, lookNet>>
      BY <2>2 DEF QueryEffect
    <3> QED
      BY <2>1, <2>2, <3>1, ReadInv
  <2>3. CASE WaitEffect(t)
    BY <2>1, <2>3, WaitInv
  <2>4. CASE FinishEffect(t)
    BY <2>1, <2>4, FinishInv
  <2> QED
    BY <2>1, <2>2, <2>3, <2>4, LookupEffect
<1>3. ASSUME NEW t \in Tasks, Resolved(t) PROVE DialInv'
  BY <1>3, ResolvedInv
<1>4. ASSUME NEW t \in Tasks, Connected(t) PROVE DialInv'
  BY <1>4, ConnectedInv
<1>5. ASSUME NEW t \in Tasks, EndDial(t) PROVE DialInv'
  BY <1>5, ReturnInv DEF EndDial, DialInv, DialTypes, Stamped
<1>6. CASE TimePasses
  BY <1>6, PeriodInv
<1>7. CASE NetworkChanges \/ UNCHANGED dialTcpVars
  <2>1. /\ UNCHANGED <<dialPc, dialNet, candidates, preferred, lastSuccess>>
        /\ UNCHANGED <<dnsCache, lookupLock, lookPc, lookHost, lookNet, answers, firstDone, found>>
    BY <1>7 DEF NetworkChanges, dialTcpVars, dnsVars, dialVars
  <2>2. netGeneration' \in Nat /\ netSelection' \in Selections
    BY <1>7 DEF NetworkChanges, NetChange, dialTcpVars, netVars, DialInv, DialTypes
  <2>3. DialTypes'
    BY <2>1, <2>2 DEF DialInv, DialTypes
  <2>4. Stamped' /\ Stages' /\ QueryAlone'
    BY <2>1 DEF DialInv, Stamped, Stages, QueryAlone, CacheHit
  <2> QED
    BY <2>3, <2>4 DEF DialInv
<1> QED
  BY <1>1, <1>2, <1>3, <1>4, <1>5, <1>6, <1>7 DEF DialNext

\* For any number of dials, names and network changes: whatever a dial uses was
\* learnt on the network of its own snapshot, though cache, locks and
\* last_success are shared with dials of other generations (ech.rs dial_tcp,
\* private_dns.rs lookup).
THEOREM DialsOwnNetwork == DialSpec => []AddressesOfOwnNetwork
<1>1. DialInv => AddressesOfOwnNetwork
  <2> SUFFICES ASSUME DialInv, NEW t \in Tasks, lookHost[t] \in PrivateHosts,
                      NEW a \in found[t] \cup candidates[t] \cup preferred[t]
               PROVE  a[2] = dialNet[t].generation
    BY DEF AddressesOfOwnNetwork
  <2>1. CASE a \in found[t]
    <3>1. dialPc[t] = "resolving" /\ lookNet[t] = dialNet[t].generation
      BY <2>1 DEF DialInv, DialTypes, Stages
    <3> QED
      BY <2>1, <3>1 DEF DialInv, Stamped, LearntOn
  <2>2. CASE a \in candidates[t] \cup preferred[t]
    BY <2>2 DEF DialInv, Stamped, LearntOn
  <2> QED
    BY <2>1, <2>2
<1> QED
  BY <1>1, DialInitInv, DialNextInv, PTL DEF DialSpec

\* A lookup that stores its answer found none in the cache: the lock of the
\* name and the second cached() under it let nobody query in vain, with any
\* number of tasks (private_dns.rs lookup).
THEOREM LookupsNotWasted == DialSpec => NoWastedQuery
<1>1. DialInv => [\A t \in Tasks :
                    lookPc[t] = "querying" /\ lookPc'[t] = "found"
                      => ~CacheHit(lookHost[t], lookNet[t])]_dialTcpVars
  BY DEF DialInv, QueryAlone
<1> QED
  BY <1>1, DialInitInv, DialNextInv, PTL DEF DialSpec, NoWastedQuery

-----------------------------------------------------------------------------
(* The trust of TLS handshakes *)

Snapshots == [roots : SUBSET Roots, generation : Nat]

\* Every copy of the roots there is: the store, the snapshots that dials hold
\* or are about to be given, the ones of the cached TLS configuration.
Copies ==
    {NoRoots, Store, [roots |-> tlsConfig.roots, generation |-> tlsConfig.generation]}
      \cup {trust[t] : t \in Dials} \cup {refreshed[t] : t \in Dials}

TrustTypes ==
    /\ trustGen \in Nat \ {0}
    /\ trust \in [Dials -> Snapshots]
    /\ refreshed \in [Dials -> Snapshots]
    /\ tlsPc \in [Dials -> {"idle", "connecting", "handshake", "rejected",
                            "unknown_issuer", "refreshed", "reloading"}]
    /\ DOMAIN config = Dials
    /\ Copies \subseteq Snapshots
    /\ scan \in [roots : SUBSET Roots, complete : BOOLEAN]
    /\ platform \subseteq Roots

\* A generation stands for one set of roots, in whichever copy, and none is
\* ahead of the store.
GenerationMeansRoots ==
    \A x \in Copies :
      /\ x.generation <= trustGen
      /\ \A y \in Copies : x.generation = y.generation => x.roots = y.roots

\* A handshake under way uses the roots of its dial.
HandshakeConfigured ==
    \A t \in Dials : tlsPc[t] = "handshake" =>
      config[t].generation = trust[t].generation /\ config[t].roots = trust[t].roots

\* What was ever trusted came from the platform and is still there unless it
\* was removed; a complete scan has all of it.
FromPlatform ==
    /\ trustRoots \subseteq trusted
    /\ trusted \subseteq platform \cup removed
    /\ worker = "scanned" =>
         /\ scan.roots \subseteq platform \cup removed
         /\ scan.complete => trusted \ removed \subseteq scan.roots

TrustInv ==
    TrustTypes /\ GenerationMeansRoots /\ HandshakeConfigured /\ FromPlatform /\ RootsNeverLost

\* What part of the store was read.
LEMMA ScansType ==
    ASSUME platform \subseteq Roots, NEW s \in Scans
    PROVE  /\ s \in [roots : SUBSET Roots, complete : BOOLEAN]
           /\ s.roots \subseteq platform
           /\ s.complete => s.roots = platform
<1>1. CASE s = [roots |-> platform, complete |-> TRUE]
  BY <1>1
<1>2. CASE s \in [roots : SUBSET platform, complete : {FALSE}]
  <2>1. s.complete = FALSE /\ s.roots \in SUBSET platform
    BY <1>2
  <2>2. s = [roots |-> s.roots, complete |-> s.complete]
    BY <1>2
  <2>3. s.roots \in SUBSET Roots /\ s.complete \in BOOLEAN
    BY <2>1
  <2> QED
    BY <2>1, <2>2, <2>3
<1> QED
  BY <1>1, <1>2 DEF Scans

\* The first scan is all there is.
LEMMA TrustInitInv == EchInit => TrustInv
<1> SUFFICES ASSUME EchInit PROVE TrustInv
  OBVIOUS
<1>1. platform \subseteq Roots /\ platform \in SUBSET Roots
  BY DEF EchInit, TrustInit
<1>2. trustRoots \subseteq platform
  <2>1. PICK loaded \in Scans : trustRoots = loaded.roots
    BY DEF EchInit, TrustInit
  <2> QED
    BY <1>1, <2>1, ScansType
<1>3. NoRoots \in Snapshots /\ Store \in Snapshots /\ NoScan \in [roots : SUBSET Roots, complete : BOOLEAN]
  BY <1>1, <1>2 DEF NoRoots, Store, NoScan, Snapshots, EchInit, TrustInit
<1>4. Copies = {NoRoots, Store}
  <2>1. [roots |-> tlsConfig.roots, generation |-> tlsConfig.generation] = NoRoots
    BY DEF EchInit, NoConfig, NoRoots
  <2>2. \A t \in Dials : trust[t] = NoRoots /\ refreshed[t] = NoRoots
    BY DEF EchInit, TrustInit
  <2> QED
    BY <2>1, <2>2 DEF Copies
<1>5. TrustTypes
  BY <1>1, <1>3, <1>4 DEF EchInit, TrustInit, TrustTypes
<1>6. GenerationMeansRoots
  BY <1>4 DEF GenerationMeansRoots, NoRoots, Store, EchInit, TrustInit
<1>7. HandshakeConfigured
  BY DEF HandshakeConfigured, EchInit
<1>8. FromPlatform /\ RootsNeverLost
  BY <1>2 DEF FromPlatform, RootsNeverLost, EchInit, TrustInit
<1> QED
  BY <1>5, <1>6, <1>7, <1>8 DEF TrustInv

\* As long as the store stays and no copy is new, nothing is mixed up.
LEMMA CopiesKept ==
    ASSUME GenerationMeansRoots, Copies' \subseteq Copies, trustGen' = trustGen
    PROVE  GenerationMeansRoots'
  BY DEF GenerationMeansRoots

\* Steps of the dials leave the store alone, but for a reload they start.
StoreKept ==
    /\ UNCHANGED <<platform, trustRoots, trustGen, scan, removed, trusted>>
    /\ worker' = worker \/ worker' = "held"

\* They lose no root.
LEMMA StoreKeptInv ==
    ASSUME TrustInv, StoreKept
    PROVE  FromPlatform' /\ RootsNeverLost'
  BY DEF TrustInv, StoreKept, FromPlatform, RootsNeverLost

\* A step that gives dial t another snapshot, or none, from the copies there
\* are, and takes it to another place than the handshake.
LEMMA DialMoves ==
    ASSUME TrustInv, NEW t \in Dials, StoreKept, UNCHANGED tlsConfig,
           NEW x \in Copies, trust' = [trust EXCEPT ![t] = x],
           NEW y \in Copies, refreshed' = [refreshed EXCEPT ![t] = y],
           NEW l \in {"idle", "connecting", "rejected", "unknown_issuer", "refreshed", "reloading"},
           tlsPc' = [tlsPc EXCEPT ![t] = l],
           config' = config \/ config' = [config EXCEPT ![t] = NoConfig]
    PROVE  TrustInv'
<1>0. TrustTypes /\ GenerationMeansRoots /\ HandshakeConfigured
  BY DEF TrustInv
<1>1. x \in Snapshots /\ y \in Snapshots
  BY <1>0 DEF TrustTypes
<1>2. /\ trust' \in [Dials -> Snapshots] /\ refreshed' \in [Dials -> Snapshots]
      /\ \A u \in Dials : trust'[u] = (IF u = t THEN x ELSE trust[u])
      /\ \A u \in Dials : refreshed'[u] = (IF u = t THEN y ELSE refreshed[u])
  BY <1>0, <1>1 DEF TrustTypes
<1>3. Store' = Store
  BY DEF StoreKept, Store
<1>4. Copies' \subseteq Copies
  BY <1>2, <1>3 DEF Copies
<1>5. /\ tlsPc' \in [Dials -> {"idle", "connecting", "handshake", "rejected",
                               "unknown_issuer", "refreshed", "reloading"}]
      /\ tlsPc'[t] = l /\ \A u \in Dials : u # t => tlsPc'[u] = tlsPc[u]
  BY <1>0 DEF TrustTypes
<1>6. DOMAIN config' = Dials /\ \A u \in Dials : u # t => config'[u] = config[u]
  BY <1>0 DEF TrustTypes
<1>7. TrustTypes'
  BY <1>0, <1>2, <1>4, <1>5, <1>6 DEF TrustTypes, StoreKept
<1>8. GenerationMeansRoots'
  BY <1>0, <1>4, CopiesKept DEF StoreKept
<1>9. HandshakeConfigured'
  BY <1>0, <1>2, <1>5, <1>6 DEF HandshakeConfigured
<1> QED
  BY <1>7, <1>8, <1>9, StoreKeptInv DEF TrustInv

\* The snapshots of a dial are copies, and so is the empty one.
LEMMA DialCopies ==
    ASSUME TrustTypes, NEW t \in Dials
    PROVE  /\ NoRoots \in Copies /\ Store \in Copies /\ trust[t] \in Copies /\ refreshed[t] \in Copies
           /\ trust = [trust EXCEPT ![t] = trust[t]]
           /\ refreshed = [refreshed EXCEPT ![t] = refreshed[t]]
<1>1. NoRoots \in Copies /\ Store \in Copies /\ trust[t] \in Copies /\ refreshed[t] \in Copies
  BY DEF Copies
<1> QED
  BY <1>1 DEF TrustTypes

\* A handshake is configured: the cached configuration is used only if its
\* generation is the dial's.
LEMMA ConfigForInv == ASSUME TrustInv, NEW t \in Dials, ConfigFor(t) PROVE TrustInv'
<1>0. TrustTypes /\ GenerationMeansRoots /\ HandshakeConfigured
  BY DEF TrustInv
<1> DEFINE new == IF ConfigCached(t) THEN tlsConfig
                  ELSE [generation |-> trust[t].generation, ech |-> ech, roots |-> trust[t].roots]
           cached == [roots |-> tlsConfig.roots, generation |-> tlsConfig.generation]
<1>1. /\ tlsConfig' = new /\ config' = [config EXCEPT ![t] = new]
      /\ tlsPc' = [tlsPc EXCEPT ![t] = "handshake"]
      /\ StoreKept /\ UNCHANGED <<trust, refreshed>>
  BY DEF ConfigFor, Goto, StoreKept, trustVars
<1>2. new.generation = trust[t].generation /\ new.roots = trust[t].roots
  <2>1. CASE ConfigCached(t)
    <3>1. tlsConfig.generation = trust[t].generation
      BY <2>1 DEF ConfigCached
    <3>2. cached \in Copies /\ trust[t] \in Copies
      BY DEF Copies
    <3>3. cached.generation = trust[t].generation => cached.roots = trust[t].roots
      BY <1>0, <3>2 DEF GenerationMeansRoots
    <3>4. cached.generation = tlsConfig.generation /\ cached.roots = tlsConfig.roots
      OBVIOUS
    <3> QED
      BY <2>1, <3>1, <3>3, <3>4
  <2>2. CASE ~ConfigCached(t)
    BY <2>2
  <2> QED
    BY <2>1, <2>2
<1> HIDE DEF new
<1>3. [roots |-> tlsConfig'.roots, generation |-> tlsConfig'.generation] = trust[t]
  <2>1. trust[t] \in Snapshots
    BY <1>0 DEF TrustTypes
  <2> QED
    BY <1>1, <1>2, <2>1 DEF Snapshots
<1>4. Store' = Store
  BY <1>1 DEF StoreKept, Store
<1>5. Copies' \subseteq Copies
  BY <1>1, <1>3, <1>4 DEF Copies
<1>6. GenerationMeansRoots'
  BY <1>0, <1>1, <1>5, CopiesKept DEF StoreKept
<1>7. HandshakeConfigured'
  BY <1>0, <1>1, <1>2 DEF TrustTypes, HandshakeConfigured
<1>8. TrustTypes'
  BY <1>0, <1>1, <1>5 DEF TrustTypes, StoreKept
<1> QED
  BY <1>1, <1>6, <1>7, <1>8, StoreKeptInv DEF TrustInv

\* The other steps of a dial.
LEMMA DialStepInv == ASSUME TrustInv, NEW t \in Dials, DialStep(t) PROVE TrustInv'
<1>0. TrustTypes
  BY DEF TrustInv
<1>c. /\ NoRoots \in Copies /\ Store \in Copies /\ trust[t] \in Copies /\ refreshed[t] \in Copies
      /\ trust = [trust EXCEPT ![t] = trust[t]]
      /\ refreshed = [refreshed EXCEPT ![t] = refreshed[t]]
  BY <1>0, DialCopies
<1>r. ASSUME Return(t), StoreKept, UNCHANGED tlsConfig,
             refreshed' = refreshed \/ refreshed' = [refreshed EXCEPT ![t] = NoRoots]
      PROVE  TrustInv'
  <2>1. /\ tlsPc' = [tlsPc EXCEPT ![t] = "idle"] /\ trust' = [trust EXCEPT ![t] = NoRoots]
        /\ config' = [config EXCEPT ![t] = NoConfig]
    BY <1>r DEF Return, Goto
  <2> QED
    BY <1>c, <1>r, <2>1, DialMoves
<1>u. UNCHANGED trustVars => StoreKept /\ UNCHANGED refreshed
  BY DEF trustVars, StoreKept
<1>1. CASE StartTls(t)
  <2>1. StoreKept /\ UNCHANGED <<refreshed, tlsConfig, config>>
    BY <1>1 DEF StartTls, SnapshotTrust, StartReload, StoreKept, trustVars, sharedVars
  <2>2. trust' = [trust EXCEPT ![t] = Store] /\ tlsPc' = [tlsPc EXCEPT ![t] = "connecting"]
    BY <1>1 DEF StartTls, Goto
  <2> QED
    BY <1>c, <2>1, <2>2, DialMoves
<1>2. CASE ConfigFor(t)
  BY <1>2, ConfigForInv
<1>3. CASE HandshakeAnswered(t)
  <2>1. StoreKept /\ UNCHANGED <<refreshed, tlsConfig>>
    BY <1>3, <1>u DEF HandshakeAnswered, sharedVars
  <2>2. CASE Return(t)
    BY <1>r, <2>1, <2>2
  <2>3. CASE ~Return(t)
    <3>1. /\ \E l \in {"unknown_issuer", "rejected"} : tlsPc' = [tlsPc EXCEPT ![t] = l]
          /\ config' = [config EXCEPT ![t] = NoConfig] /\ UNCHANGED trust
      BY <1>3, <2>3 DEF HandshakeAnswered, Goto
    <3> QED
      BY <1>c, <2>1, <3>1, DialMoves
  <2> QED
    BY <2>2, <2>3
<1>4. CASE RetryEch(t)
  <2>1. StoreKept /\ UNCHANGED <<refreshed, tlsConfig>>
    BY <1>4, <1>u DEF RetryEch
  <2>2. CASE Return(t)
    BY <1>r, <2>1, <2>2
  <2>3. CASE ~Return(t)
    <3>1. tlsPc' = [tlsPc EXCEPT ![t] = "connecting"] /\ UNCHANGED <<trust, config>>
      BY <1>4, <2>3 DEF RetryEch, Goto
    <3> QED
      BY <1>c, <2>1, <3>1, DialMoves
  <2> QED
    BY <2>2, <2>3
<1>5. CASE RefreshTrust(t)
  <2>1. CASE Return(t) /\ UNCHANGED trustVars
    BY <1>5, <1>r, <1>u, <2>1 DEF RefreshTrust, sharedVars
  <2>2. CASE RefreshReturns(t, trust[t].generation) /\ Goto(t, "refreshed") /\ UNCHANGED <<trust, config>>
    <3>1. StoreKept /\ refreshed' = [refreshed EXCEPT ![t] = Store] /\ UNCHANGED tlsConfig
      BY <1>5, <2>2 DEF RefreshTrust, RefreshReturns, StoreKept, sharedVars
    <3> QED
      BY <1>c, <2>2, <3>1, DialMoves DEF Goto
  <2>3. CASE RefreshReloads(t, trust[t].generation) /\ Goto(t, "reloading") /\ UNCHANGED <<trust, config>>
    <3>1. StoreKept /\ UNCHANGED <<refreshed, tlsConfig>>
      BY <1>5, <2>3 DEF RefreshTrust, RefreshReloads, StartReload, StoreKept, sharedVars
    <3> QED
      BY <1>c, <2>3, <3>1, DialMoves DEF Goto
  <2> QED
    BY <1>5, <2>1, <2>2, <2>3 DEF RefreshTrust
<1>6. CASE RetryTrust(t)
  <2>1. StoreKept /\ UNCHANGED tlsConfig /\ refreshed' = [refreshed EXCEPT ![t] = NoRoots]
    BY <1>6 DEF RetryTrust, StoreKept, sharedVars
  <2>2. CASE Return(t)
    BY <1>r, <2>1, <2>2
  <2>3. CASE ~Return(t)
    <3>1. /\ tlsPc' = [tlsPc EXCEPT ![t] = "connecting"] /\ UNCHANGED config
          /\ trust' = [trust EXCEPT ![t] = refreshed[t]]
      BY <1>6, <2>3 DEF RetryTrust, Goto
    <3> QED
      BY <1>c, <2>1, <3>1, DialMoves
  <2> QED
    BY <2>2, <2>3
<1>7. CASE AbandonDial(t)
  <2>1. StoreKept /\ UNCHANGED tlsConfig /\ refreshed' = [refreshed EXCEPT ![t] = NoRoots] /\ Return(t)
    BY <1>7 DEF AbandonDial, StoreKept, sharedVars
  <2> QED
    BY <1>r, <2>1
<1> QED
  BY <1>1, <1>2, <1>3, <1>4, <1>5, <1>6, <1>7 DEF DialStep

\* What changes neither the roots nor the dials.
DialsKept == UNCHANGED <<trustRoots, trustGen, trust, refreshed, tlsConfig, tlsPc, config>>

\* It mixes no copies up.
LEMMA DialsKeptInv ==
    ASSUME TrustInv, DialsKept,
           scan' \in [roots : SUBSET Roots, complete : BOOLEAN], platform' \subseteq Roots
    PROVE  TrustTypes' /\ GenerationMeansRoots' /\ HandshakeConfigured'
<1>0. TrustTypes /\ GenerationMeansRoots /\ HandshakeConfigured
  BY DEF TrustInv
<1>1. Copies' = Copies
  BY DEF DialsKept, Copies, Store
<1>2. TrustTypes'
  BY <1>0, <1>1 DEF TrustTypes, DialsKept
<1>3. GenerationMeansRoots'
  BY <1>0, <1>1 DEF GenerationMeansRoots, DialsKept
<1>4. HandshakeConfigured'
  BY <1>0 DEF HandshakeConfigured, DialsKept
<1> QED
  BY <1>2, <1>3, <1>4

\* A scan is applied: nothing that the platform still has is lost, and a store
\* that changes gets a generation nobody has a copy of.
LEMMA ApplyInv ==
    ASSUME TrustInv, ApplyReload, UNCHANGED <<sharedVars, localVars>>
    PROVE  TrustInv'
<1>0. TrustTypes /\ GenerationMeansRoots /\ HandshakeConfigured /\ FromPlatform /\ RootsNeverLost
  BY DEF TrustInv
<1>1. /\ worker = "scanned" /\ worker' = "free" /\ scan' = NoScan
      /\ trusted' = trusted \cup trustRoots'
      /\ UNCHANGED <<platform, removed>>
      /\ UNCHANGED <<tlsConfig, tlsPc, trust, config>>
  BY DEF ApplyReload, sharedVars, localVars
<1>2. refreshed' = refreshed \/ refreshed' = [refreshed EXCEPT ![awaiting] = Store']
  BY DEF ApplyReload, Store
<1>s. scan \in [roots : SUBSET Roots, complete : BOOLEAN] /\ scan.roots \in SUBSET Roots
  BY <1>0 DEF TrustTypes
<1>3. \/ UNCHANGED <<trustRoots, trustGen>>
      \/ /\ trustGen' = trustGen + 1 /\ trustRoots' = scan.roots
         /\ scan.complete \/ trustRoots \subseteq scan.roots
  BY DEF ApplyReload, Usable
<1>g. trustGen \in Nat \ {0} /\ trustGen' \in Nat \ {0} /\ trustGen <= trustGen'
  BY <1>0, <1>3 DEF TrustTypes
<1>4. Store \in Snapshots /\ Store' \in Snapshots
  <2>1. Store \in Snapshots
    BY <1>0 DEF TrustTypes, Copies
  <2>2. trustRoots \in SUBSET Roots
    BY <2>1 DEF Store, Snapshots
  <2>3. trustRoots' \in SUBSET Roots
    BY <1>3, <1>s, <2>2
  <2> QED
    BY <1>g, <2>1, <2>3 DEF Store, Snapshots
<1>5. Copies' \subseteq Copies \cup {Store'}
  <2>1. \A t \in Dials : refreshed'[t] = refreshed[t] \/ refreshed'[t] = Store'
    BY <1>0, <1>2 DEF TrustTypes
  <2> QED
    BY <1>1, <2>1 DEF Copies
<1>6. TrustTypes'
  <2>1. refreshed' \in [Dials -> Snapshots]
    BY <1>0, <1>2, <1>4 DEF TrustTypes
  <2>2. scan' \in [roots : SUBSET Roots, complete : BOOLEAN]
    BY <1>1 DEF NoScan
  <2>3. Copies' \subseteq Snapshots
    BY <1>0, <1>4, <1>5 DEF TrustTypes
  <2> QED
    BY <1>0, <1>1, <1>g, <2>1, <2>2, <2>3 DEF TrustTypes
<1>7. GenerationMeansRoots'
  <2>1. CASE UNCHANGED <<trustRoots, trustGen>>
    <3>1. Store' \in Copies
      BY <2>1 DEF Store, Copies
    <3> QED
      BY <1>0, <1>5, <2>1, <3>1, CopiesKept
  <2>2. CASE trustGen' = trustGen + 1
    <3>1. Store'.generation = trustGen + 1
      BY <2>2 DEF Store
    <3>2. \A x \in Copies : x.generation \in Nat /\ x.generation <= trustGen
      BY <1>0 DEF TrustTypes, Snapshots, GenerationMeansRoots
    <3>3. \A x \in Copies' : x \in Copies \/ x = Store'
      BY <1>5
    <3>4. ASSUME NEW x \in Copies', NEW y \in Copies', x.generation = y.generation
          PROVE  x.roots = y.roots
      <4>1. CASE x \in Copies /\ y \in Copies
        BY <1>0, <3>4, <4>1 DEF GenerationMeansRoots
      <4>2. CASE x = Store' /\ y = Store'
        BY <4>2
      <4>3. CASE (x \in Copies /\ y = Store') \/ (x = Store' /\ y \in Copies)
        BY <1>g, <3>1, <3>2, <3>4, <4>3
      <4> QED
        BY <3>3, <4>1, <4>2, <4>3
    <3>5. \A x \in Copies' : x.generation <= trustGen'
      BY <1>g, <2>2, <3>1, <3>2, <3>3
    <3> QED
      BY <3>4, <3>5 DEF GenerationMeansRoots
  <2> QED
    BY <1>3, <2>1, <2>2
<1>8. HandshakeConfigured'
  BY <1>0, <1>1 DEF HandshakeConfigured
<1>9. FromPlatform' /\ RootsNeverLost'
  BY <1>0, <1>1, <1>3 DEF FromPlatform, RootsNeverLost
<1> QED
  BY <1>6, <1>7, <1>8, <1>9 DEF TrustInv

\* A worker that panics leaves the store, and its dial a copy of it.
LEMMA PanicInv ==
    ASSUME TrustInv, ReloadPanics, UNCHANGED <<sharedVars, localVars>>
    PROVE  TrustInv'
<1>0. TrustTypes /\ GenerationMeansRoots /\ HandshakeConfigured /\ FromPlatform /\ RootsNeverLost
  BY DEF TrustInv
<1>1. /\ worker = "held" /\ worker' = "free"
      /\ UNCHANGED <<platform, trustRoots, trustGen, scan, removed, trusted>>
      /\ UNCHANGED <<tlsConfig, tlsPc, trust, config>>
  BY DEF ReloadPanics, sharedVars, localVars
<1>2. refreshed' = refreshed \/ refreshed' = [refreshed EXCEPT ![awaiting] = Store]
  BY DEF ReloadPanics
<1>3. Store \in Snapshots /\ Store \in Copies /\ Store' = Store
  BY <1>0, <1>1 DEF TrustTypes, Copies, Store
<1>4. Copies' \subseteq Copies
  <2>1. \A t \in Dials : refreshed'[t] = refreshed[t] \/ refreshed'[t] = Store
    BY <1>0, <1>2 DEF TrustTypes
  <2> QED
    BY <1>1, <1>3, <2>1 DEF Copies
<1>5. TrustTypes'
  <2>1. refreshed' \in [Dials -> Snapshots]
    BY <1>0, <1>2, <1>3 DEF TrustTypes
  <2> QED
    BY <1>0, <1>1, <1>4, <2>1 DEF TrustTypes
<1>6. GenerationMeansRoots'
  BY <1>0, <1>1, <1>4, CopiesKept
<1>7. HandshakeConfigured'
  BY <1>0, <1>1 DEF HandshakeConfigured
<1>8. FromPlatform' /\ RootsNeverLost'
  BY <1>0, <1>1 DEF FromPlatform, RootsNeverLost
<1> QED
  BY <1>5, <1>6, <1>7, <1>8 DEF TrustInv

\* Every step preserves the invariant.
LEMMA TrustNextInv == TrustInv /\ [EchNext]_echVars => TrustInv'
<1> SUFFICES ASSUME TrustInv, [EchNext]_echVars PROVE TrustInv'
  OBVIOUS
<1>0. TrustTypes /\ FromPlatform /\ RootsNeverLost
  BY DEF TrustInv
<1>1. ASSUME NEW t \in Dials, DialStep(t) PROVE TrustInv'
  BY <1>1, DialStepInv
<1>2. CASE RotateKey \/ Reissue \/ UNCHANGED echVars \/ (TrustWorks /\ CooldownEnds)
  <2>1. DialsKept /\ UNCHANGED <<platform, scan, worker, removed, trusted>>
    BY <1>2 DEF RotateKey, Reissue, echVars, trustVars, sharedVars, localVars, DialsKept,
       TrustWorks, CooldownEnds
  <2>2. TrustTypes' /\ GenerationMeansRoots' /\ HandshakeConfigured'
    BY <1>0, <2>1, DialsKeptInv DEF TrustTypes
  <2>3. FromPlatform' /\ RootsNeverLost'
    BY <1>0, <2>1 DEF FromPlatform, RootsNeverLost, DialsKept
  <2> QED
    BY <2>2, <2>3 DEF TrustInv
<1>3. CASE ChangePlatform
  <2>1. DialsKept /\ UNCHANGED <<scan, worker, trusted>>
    BY <1>3 DEF ChangePlatform, PlatformChanges, sharedVars, localVars, DialsKept
  <2>2. platform' \subseteq Roots /\ removed' = removed \cup (platform \ platform')
    BY <1>3 DEF ChangePlatform, PlatformChanges
  <2>3. TrustTypes' /\ GenerationMeansRoots' /\ HandshakeConfigured'
    BY <1>0, <2>1, <2>2, DialsKeptInv DEF TrustTypes
  <2>4. FromPlatform' /\ RootsNeverLost'
    BY <1>0, <2>1, <2>2 DEF FromPlatform, RootsNeverLost, DialsKept
  <2> QED
    BY <2>3, <2>4 DEF TrustInv
<1>4. CASE TrustWorks /\ ScanPlatform
  <2>1. DialsKept /\ UNCHANGED <<platform, removed, trusted>> /\ scan' \in Scans
    BY <1>4 DEF TrustWorks, ScanPlatform, sharedVars, localVars, DialsKept
  <2>2. /\ scan' \in [roots : SUBSET Roots, complete : BOOLEAN]
        /\ scan'.roots \subseteq platform
        /\ scan'.complete => scan'.roots = platform
    BY <1>0, <2>1, ScansType DEF TrustTypes
  <2>3. TrustTypes' /\ GenerationMeansRoots' /\ HandshakeConfigured'
    BY <1>0, <2>1, <2>2, DialsKeptInv DEF TrustTypes
  <2>4. FromPlatform' /\ RootsNeverLost'
    BY <1>0, <2>1, <2>2 DEF FromPlatform, RootsNeverLost, DialsKept
  <2> QED
    BY <2>3, <2>4 DEF TrustInv
<1>5. CASE TrustWorks /\ ApplyReload
  BY <1>5, ApplyInv DEF TrustWorks
<1>6. CASE TrustWorks /\ ReloadPanics
  BY <1>6, PanicInv DEF TrustWorks
<1> QED
  BY <1>1, <1>2, <1>3, <1>4, <1>5, <1>6 DEF EchNext, TrustWorks

\* For any number of dials, roots, keys and changes of the server and the
\* platform: a handshake verifies the server against its own dial's roots,
\* though all share one cached TLS configuration, and no reload, complete or
\* partial, drops an anchor the platform still has (config_for, apply_reload).
THEOREM TrustNeverMixed == EchSpec => []TrustSound
<1>1. TrustInv => TrustSound
  <2> SUFFICES ASSUME TrustInv PROVE TrustSound
    OBVIOUS
  <2>1. ASSUME NEW t \in Dials, trust[t].generation = trustGen
        PROVE  trust[t].roots = trustRoots
    <3>1. trust[t] \in Copies /\ Store \in Copies
      BY DEF Copies
    <3>2. Store.generation = trustGen /\ Store.roots = trustRoots
      BY DEF Store
    <3> QED
      BY <2>1, <3>1, <3>2 DEF TrustInv, GenerationMeansRoots
  <2> QED
    BY <2>1 DEF TrustInv, HandshakeConfigured, HandshakeOwnTrust, TrustSound
<1> QED
  BY <1>1, TrustInitInv, TrustNextInv, PTL DEF EchSpec

-----------------------------------------------------------------------------
(* The order of the addresses *)

\* Ranks number the positions in I from 1, in their order.
LEMMA RankBounds ==
    ASSUME NEW n \in Nat, NEW I \in SUBSET (1..n)
    PROVE  /\ IsFiniteSet(I) /\ Cardinality(I) \in Nat
           /\ \A i \in I : Rank(I, i) \in 1..Cardinality(I)
           /\ \A i, j \in I : Rank(I, i) = Rank(I, j) => i = j
<1>1. IsFiniteSet(I) /\ Cardinality(I) \in Nat
  <2>1. IsFiniteSet(1..n)
    BY FS_Interval
  <2>2. IsFiniteSet(I)
    BY <2>1, FS_Subset
  <2> QED
    BY <2>2, FS_CardinalityType
<1>2. ASSUME NEW i \in I
      PROVE  /\ Rank(I, i) \in 1..Cardinality(I)
             /\ IsFiniteSet({j \in I : j <= i})
  <2> DEFINE A == {j \in I : j <= i}
  <2>1. A \in SUBSET I /\ i \in A
    OBVIOUS
  <2> HIDE DEF A
  <2>2. /\ IsFiniteSet(A) /\ Cardinality(A) <= Cardinality(I)
        /\ Cardinality(A) \in Nat /\ Cardinality(A) # 0
    BY <1>1, <2>1, FS_Subset, FS_CardinalityType, FS_EmptySet
  <2> QED
    BY <1>1, <2>2 DEF Rank, A
<1>3. ASSUME NEW i \in I, NEW j \in I, i < j
      PROVE  Rank(I, i) # Rank(I, j)
  <2> DEFINE A == {k \in I : k <= i}
             B == {k \in I : k <= j}
  <2>1. A \in SUBSET B /\ j \in B /\ j \notin A
    <3>1. \A k \in I : k \in Int
      OBVIOUS
    <3>2. ASSUME NEW k \in A PROVE k \in B
      <4>1. k \in Int /\ i \in Int /\ j \in Int /\ k <= i
        BY <3>1
      <4> QED
        BY <1>3, <4>1
    <3>3. i \in Int /\ j \in Int
      BY <3>1
    <3>4. j <= j /\ ~(j <= i)
      BY <1>3, <3>3
    <3> QED
      BY <3>2, <3>4
  <2>2. IsFiniteSet(B)
    BY <1>2
  <2> HIDE DEF A, B
  <2>3. Cardinality(B) # Cardinality(A)
    BY <2>1, <2>2, FS_Subset
  <2> QED
    BY <2>3 DEF Rank, A, B
<1>4. ASSUME NEW i \in I, NEW j \in I, Rank(I, i) = Rank(I, j)
      PROVE  i = j
  <2>1. i \in Int /\ j \in Int
    OBVIOUS
  <2> QED
    BY <1>3, <1>4, <2>1
<1> QED
  BY <1>1, <1>2, <1>4

\* Every number up to the size of I is the rank of a position.
LEMMA RankOnto ==
    ASSUME NEW n \in Nat, NEW I \in SUBSET (1..n), NEW k \in 1..Cardinality(I)
    PROVE  \E i \in I : Rank(I, i) = k
<1> DEFINE f == [i \in I |-> Rank(I, i)]
           T == 1..Cardinality(I)
<1>1. /\ IsFiniteSet(I) /\ Cardinality(I) \in Nat
      /\ \A i \in I : Rank(I, i) \in T
      /\ \A i, j \in I : Rank(I, i) = Rank(I, j) => i = j
  BY RankBounds
<1>2. IsFiniteSet(T) /\ Cardinality(T) = Cardinality(I)
  BY <1>1, FS_Interval
<1>3. f \in Injection(I, T)
  BY <1>1 DEF Injection, IsInjective
<1> HIDE DEF f, T
<1>4. f \in Surjection(I, T)
  BY <1>2, <1>3, FS_Injection
<1>5. \A t \in T : \E i \in I : f[i] = t
  BY <1>4 DEF Surjection
<1> QED
  BY <1>5 DEF f, T

\* What a filter keeps.
LEMMA KeptElements ==
    ASSUME NEW S, NEW s \in Seq(S), NEW I \in SUBSET (1..Len(s))
    PROVE  /\ Kept(s, I) \in Seq(S)
           /\ ToSet(Kept(s, I)) = {s[i] : i \in I}
           /\ (\A i, j \in I : s[i] = s[j] => i = j) => IsInjective(Kept(s, I))
           /\ 1 \in I => Kept(s, I) # <<>> /\ Kept(s, I)[1] = s[1]
<1> DEFINE n == Cardinality(I)
           pick(k) == CHOOSE i \in I : Rank(I, i) = k
           e == [k \in 1..n |-> s[pick(k)]]
<1>1. /\ n \in Nat /\ Len(s) \in Nat /\ IsFiniteSet(I)
      /\ \A i \in I : Rank(I, i) \in 1..n
      /\ \A i, j \in I : Rank(I, i) = Rank(I, j) => i = j
  BY RankBounds, LenProperties
<1>2. \A k \in 1..n : pick(k) \in I /\ Rank(I, pick(k)) = k
  <2> SUFFICES ASSUME NEW k \in 1..n
               PROVE  pick(k) \in I /\ Rank(I, pick(k)) = k
    OBVIOUS
  <2>1. \E i \in I : Rank(I, i) = k
    BY <1>1, RankOnto
  <2> QED
    BY <2>1
<1> HIDE DEF n, pick
<1>3. \A i \in I : Rank(I, i) \in 1..n /\ pick(Rank(I, i)) = i
  BY <1>1, <1>2
<1>4. Kept(s, I) = e
  BY DEF Kept, pick, n
<1>5. \A i \in I : s[i] \in S
  <2>1. \A i \in 1..Len(s) : s[i] \in S
    BY ElementOfSeq
  <2> QED
    BY <2>1
<1>6. e \in Seq(S) /\ DOMAIN e = 1..n /\ Len(e) = n
  <2>1. e \in [1..n -> S]
    <3>1. \A k \in 1..n : s[pick(k)] \in S
      BY <1>2, <1>5
    <3> QED
      BY <3>1
  <2> QED
    BY <1>1, <2>1, LenProperties
<1>7. \A k \in 1..n : e[k] = s[pick(k)]
  OBVIOUS
<1> HIDE DEF e
<1>8. ToSet(e) = {s[i] : i \in I}
  <2>1. ToSet(e) = {e[k] : k \in 1..n}
    BY <1>6 DEF ToSet
  <2>2. \A k \in 1..n : pick(k) \in I /\ e[k] = s[pick(k)]
    BY <1>2, <1>7
  <2>3. \A i \in I : Rank(I, i) \in 1..n /\ e[Rank(I, i)] = s[i]
    BY <1>3, <1>7
  <2>4. {e[k] : k \in 1..n} \subseteq {s[i] : i \in I}
    <3> SUFFICES ASSUME NEW k \in 1..n PROVE e[k] \in {s[i] : i \in I}
      OBVIOUS
    <3>1. PICK i \in I : e[k] = s[i]
      BY <2>2
    <3> QED
      BY <3>1
  <2>5. {s[i] : i \in I} \subseteq {e[k] : k \in 1..n}
    <3> SUFFICES ASSUME NEW i \in I PROVE s[i] \in {e[k] : k \in 1..n}
      OBVIOUS
    <3>1. PICK k \in 1..n : e[k] = s[i]
      BY <2>3
    <3> QED
      BY <3>1
  <2> QED
    BY <2>1, <2>4, <2>5
<1>9. (\A i, j \in I : s[i] = s[j] => i = j) => IsInjective(e)
  <2> SUFFICES ASSUME \A i, j \in I : s[i] = s[j] => i = j,
                      NEW a \in 1..n, NEW b \in 1..n, e[a] = e[b]
               PROVE  a = b
    BY <1>6 DEF IsInjective
  <2>1. s[pick(a)] = s[pick(b)] /\ pick(a) \in I /\ pick(b) \in I
    BY <1>2, <1>7
  <2>2. pick(a) = pick(b)
    BY <2>1
  <2> QED
    BY <1>2, <2>2
<1>10. ASSUME 1 \in I PROVE e # <<>> /\ e[1] = s[1]
  <2>1. {j \in I : j <= 1} = {1}
    <3>1. \A j \in I : j \in Int /\ j >= 1
      OBVIOUS
    <3>2. \A j \in I : j <= 1 <=> j = 1
      BY <3>1
    <3> QED
      BY <1>10, <3>2
  <2>2. Rank(I, 1) = 1
    BY <2>1, FS_Singleton DEF Rank
  <2>3. 1 \in 1..n /\ pick(1) = 1
    BY <1>3, <1>10, <2>2
  <2>4. e # <<>>
    BY <1>1, <1>6, <2>3, EmptySeq
  <2> QED
    BY <1>7, <2>3, <2>4
<1> QED
  BY <1>4, <1>6, <1>8, <1>9, <1>10

\* The elements of a sequence as a set.
LEMMA ToSetElements ==
    ASSUME NEW S, NEW s \in Seq(S)
    PROVE  /\ ToSet(s) = {s[i] : i \in 1..Len(s)}
           /\ DOMAIN s = 1..Len(s) /\ Len(s) \in Nat
           /\ \A i \in 1..Len(s) : s[i] \in S
  BY LenProperties, ElementOfSeq DEF ToSet

\* Unique keeps every address, once.
LEMMA UniqueElements ==
    ASSUME NEW S, NEW s \in Seq(S)
    PROVE  /\ Unique(s) \in Seq(S) /\ ToSet(Unique(s)) = ToSet(s)
           /\ IsInjective(Unique(s))
<1> DEFINE I == {i \in DOMAIN s : \A j \in 1..(i - 1) : s[j] # s[i]}
<1>1. /\ ToSet(s) = {s[i] : i \in 1..Len(s)}
      /\ DOMAIN s = 1..Len(s) /\ Len(s) \in Nat
  BY ToSetElements
<1>2. I \in SUBSET (1..Len(s))
  BY <1>1
<1>3. ASSUME NEW i \in 1..Len(s) PROVE \E j \in I : s[j] = s[i]
  <2> DEFINE P == {j \in 1..Len(s) : s[j] = s[i]}
  <2>1. P \subseteq Nat /\ i \in P
    BY <1>1
  <2>2. PICK j \in P : \A k \in P : j <= k
    BY <2>1, LeastNumber
  <2>3. j \in 1..Len(s) /\ s[j] = s[i]
    OBVIOUS
  <2>4. \A k \in 1..(j - 1) : s[k] # s[j]
    <3> SUFFICES ASSUME NEW k \in 1..(j - 1), s[k] = s[j] PROVE FALSE
      OBVIOUS
    <3>1. k \in 1..Len(s) /\ ~(j <= k)
      BY <1>1, <2>3
    <3>2. k \in P
      BY <2>3, <3>1
    <3> QED
      BY <2>2, <3>1, <3>2
  <2> QED
    BY <1>1, <2>3, <2>4
<1>4. ASSUME NEW i \in I, NEW j \in I, s[i] = s[j] PROVE i = j
  <2>1. i \in 1..Len(s) /\ j \in 1..Len(s)
    BY <1>1
  <2>2. CASE i < j
    <3>1. i \in 1..(j - 1)
      BY <2>1, <2>2
    <3> QED
      BY <1>4, <3>1
  <2>3. CASE j < i
    <3>1. j \in 1..(i - 1)
      BY <2>1, <2>3
    <3> QED
      BY <1>4, <3>1
  <2> QED
    BY <1>1, <2>1, <2>2, <2>3
<1>5. Unique(s) = Kept(s, I)
  BY DEF Unique
<1> HIDE DEF I
<1>6. {s[i] : i \in I} = ToSet(s)
  <2>1. \A i \in I : s[i] \in ToSet(s)
    BY <1>1, <1>2
  <2>2. \A x \in ToSet(s) : \E j \in I : s[j] = x
    BY <1>1, <1>3
  <2> QED
    BY <2>1, <2>2
<1>7. \A i, j \in I : s[i] = s[j] => i = j
  BY <1>4
<1>8. /\ Kept(s, I) \in Seq(S) /\ ToSet(Kept(s, I)) = {s[i] : i \in I}
      /\ IsInjective(Kept(s, I))
  BY <1>2, <1>7, KeptElements
<1> QED
  BY <1>5, <1>6, <1>8

\* The preferred address comes first, the others stay.
LEMMA MovedElements ==
    ASSUME NEW S, NEW s \in Seq(S), IsInjective(s), NEW p
    PROVE  /\ MoveToFront(s, p) \in Seq(S)
           /\ ToSet(MoveToFront(s, p)) = ToSet(s)
           /\ IsInjective(MoveToFront(s, p))
           /\ p \in ToSet(s) => MoveToFront(s, p)[1] = p
<1>1. CASE p \notin ToSet(s)
  BY <1>1 DEF MoveToFront
<1>2. CASE p \in ToSet(s)
  <2> DEFINE I == {i \in DOMAIN s : s[i] # p}
             r == Kept(s, I)
             e == <<p>> \o r
  <2>1. /\ ToSet(s) = {s[i] : i \in 1..Len(s)}
        /\ DOMAIN s = 1..Len(s) /\ Len(s) \in Nat
        /\ \A i \in 1..Len(s) : s[i] \in S
    BY ToSetElements
  <2>2. I \in SUBSET (1..Len(s)) /\ {s[i] : i \in I} = ToSet(s) \ {p} /\ p \in S
    BY <1>2, <2>1
  <2>3. \A i, j \in I : s[i] = s[j] => i = j
    BY DEF IsInjective
  <2>4. MoveToFront(s, p) = e
    BY <1>2 DEF MoveToFront
  <2>5. /\ r \in Seq(S) /\ IsInjective(r)
        /\ ToSet(r) = ToSet(s) \ {p}
    <3> HIDE DEF I
    <3> QED
      BY <2>2, <2>3, KeptElements
  <2> HIDE DEF r, I
  <2>6. /\ <<p>> \in Seq(S) /\ Len(<<p>>) = 1
    BY <2>2
  <2>7. /\ e \in Seq(S) /\ Len(e) = 1 + Len(r)
        /\ e[1] = p /\ \A k \in 1..Len(r) : e[k + 1] = r[k]
    BY <2>5, <2>6
  <2>8. /\ ToSet(r) = {r[i] : i \in 1..Len(r)} /\ DOMAIN r = 1..Len(r)
        /\ Len(r) \in Nat
    BY <2>5, ToSetElements
  <2> HIDE DEF e
  <2>9. ToSet(e) = {e[i] : i \in 1..Len(e)} /\ DOMAIN e = 1..Len(e)
    BY <2>7, ToSetElements
  <2>10. \A i \in 1..Len(e) : i = 1 \/ (i - 1 \in 1..Len(r) /\ e[i] = r[i - 1])
    <3> SUFFICES ASSUME NEW i \in 1..Len(e), i # 1
                 PROVE  i - 1 \in 1..Len(r) /\ e[i] = r[i - 1]
      OBVIOUS
    <3>1. i - 1 \in 1..Len(r) /\ (i - 1) + 1 = i
      BY <2>7, <2>8
    <3> QED
      BY <2>7, <3>1
  <2>11. ToSet(e) = ToSet(s)
    <3>1. ASSUME NEW x \in ToSet(s) PROVE x \in ToSet(e)
      <4>1. CASE x = p
        <5>1. 1 \in 1..Len(e)
          BY <2>7, <2>8
        <5> QED
          BY <2>7, <2>9, <4>1, <5>1
      <4>2. CASE x # p
        <5>1. PICK k \in 1..Len(r) : r[k] = x
          BY <2>5, <2>8, <4>2
        <5>2. k + 1 \in 1..Len(e) /\ e[k + 1] = x
          BY <2>7, <2>8, <5>1
        <5> QED
          BY <2>9, <5>2
      <4> QED
        BY <4>1, <4>2
    <3>2. ASSUME NEW x \in ToSet(e) PROVE x \in ToSet(s)
      <4>1. PICK i \in 1..Len(e) : x = e[i]
        BY <2>9
      <4> QED
        BY <1>2, <2>5, <2>7, <2>8, <2>10, <4>1
    <3> QED
      BY <3>1, <3>2
  <2>12. IsInjective(e)
    <3> SUFFICES ASSUME NEW a \in 1..Len(e), NEW b \in 1..Len(e), e[a] = e[b]
                 PROVE  a = b
      BY <2>9 DEF IsInjective
    <3>1. \A i \in 1..Len(r) : r[i] # p
      BY <2>5, <2>8
    <3>a. a # 1 => e[a] # p
      BY <2>10, <3>1
    <3>b. b # 1 => e[b] # p
      BY <2>10, <3>1
    <3>2. (a = 1) = (b = 1)
      <4>1. e[1] = p
        BY <2>7
      <4> QED
        BY <3>a, <3>b, <4>1
    <3>3. CASE a # 1
      <4>1. /\ a - 1 \in 1..Len(r) /\ b - 1 \in 1..Len(r) /\ r[a - 1] = r[b - 1]
        BY <2>10, <3>2, <3>3
      <4>2. a - 1 = b - 1
        BY <2>5, <2>8, <4>1 DEF IsInjective
      <4> QED
        BY <2>7, <2>8, <4>2
    <3> QED
      BY <3>2, <3>3
  <2> QED
    BY <2>4, <2>7, <2>11, <2>12
<1> QED
  BY <1>1, <1>2

\* The elements of a sequence after the m-th.
LEMMA SuffixElements ==
    ASSUME NEW S, NEW q \in Seq(S), NEW m \in 0..Len(q)
    PROVE  /\ SubSeq(q, m + 1, Len(q)) \in Seq(S)
           /\ Len(SubSeq(q, m + 1, Len(q))) = Len(q) - m
           /\ \A k \in 1..Len(q) - m : SubSeq(q, m + 1, Len(q))[k] = q[m + k]
<1>1. Len(q) \in Nat /\ m \in Nat /\ \A i \in m + 1..Len(q) : q[i] \in S
  BY ElementOfSeq, LenProperties
<1> DEFINE n == Len(q)
           x == SubSeq(q, m + 1, n)
<1>2. /\ x \in Seq(S)
      /\ Len(x) = IF m + 1 <= n THEN n - (m + 1) + 1 ELSE 0
      /\ \A i \in 1..n - (m + 1) + 1 : x[i] = q[(m + 1) + i - 1]
  <2>1. m + 1 \in Int /\ n \in Int
    BY <1>1
  <2> HIDE DEF n
  <2>2. \A i \in m + 1..n : q[i] \in S
    BY <1>1 DEF n
  <2> QED
    BY <2>1, <2>2, SubSeqProperties
<1>3. n \in Nat /\ m <= n
  BY <1>1
<1> HIDE DEF n, x
<1>4. Len(x) = n - m
  BY <1>1, <1>2, <1>3
<1>5. ASSUME NEW k \in 1..n - m PROVE x[k] = q[m + k]
  <2>1. k \in 1..n - (m + 1) + 1 /\ (m + 1) + k - 1 = m + k
    BY <1>1, <1>3
  <2> QED
    BY <1>2, <2>1
<1> QED
  BY <1>2, <1>4, <1>5 DEF n, x

\* The elements of two sequences, one after the other.
LEMMA ConcatElements ==
    ASSUME NEW S, NEW p \in Seq(S), NEW q \in Seq(S), NEW e, e = p \o q
    PROVE  /\ e \in Seq(S) /\ Len(e) = Len(p) + Len(q)
           /\ \A i \in 1..Len(p) : e[i] = p[i]
           /\ \A k \in 1..Len(q) : e[Len(p) + k] = q[k]
<1> DEFINE a == Len(p)
           b == Len(q)
<1>1. /\ e \in Seq(S) /\ Len(e) = a + b
      /\ \A i \in 1..a + b : e[i] = IF i <= a THEN p[i] ELSE q[i - a]
  BY ConcatProperties
<1>2. a \in Nat /\ b \in Nat
  BY LenProperties
<1> HIDE DEF a, b
<1>3. \A i \in 1..a : e[i] = p[i]
  BY <1>1, <1>2
<1>4. ASSUME NEW k \in 1..b PROVE e[a + k] = q[k]
  <2>1. a + k \in 1..a + b /\ ~(a + k <= a) /\ (a + k) - a = k
    BY <1>2
  <2> QED
    BY <1>1, <2>1
<1> QED
  BY <1>1, <1>3, <1>4 DEF a, b

\* f takes the first m elements of two lists in turn.
Paired(f, one, two, m) ==
    f = [i \in 1..(2 * m) |-> IF i % 2 = 1 THEN one[(i + 1) \div 2] ELSE two[i \div 2]]

\* Where the elements of such a list are.
PairsOf(f, one, two, m, S) ==
    /\ f \in Seq(S) /\ Len(f) = 2 * m
    /\ \A j \in 1..m : f[2 * j - 1] = one[j] /\ f[2 * j] = two[j]

\* The elements of two lists in turn are where PairsOf says.
LEMMA PairElements ==
    ASSUME NEW S, NEW one \in Seq(S), NEW two \in Seq(S), NEW m \in Nat,
           m <= Len(one), m <= Len(two), NEW f, Paired(f, one, two, m)
    PROVE  PairsOf(f, one, two, m, S)
<1>a. \A j \in 1..m : one[j] \in S /\ two[j] \in S
  BY ElementOfSeq, LenProperties
<1>0. f = [i \in 1..(2 * m) |-> IF i % 2 = 1 THEN one[(i + 1) \div 2] ELSE two[i \div 2]]
  BY DEF Paired
<1>1. ASSUME NEW i \in 1..(2 * m)
      PROVE  (IF i % 2 = 1 THEN one[(i + 1) \div 2] ELSE two[i \div 2]) \in S
  <2>1. CASE i % 2 = 1
    <3>1. (i + 1) \div 2 \in 1..m
      BY <2>1
    <3> QED
      BY <1>a, <2>1, <3>1
  <2>2. CASE i % 2 # 1
    <3>1. i \div 2 \in 1..m
      BY <2>2
    <3> QED
      BY <1>a, <2>2, <3>1
  <2> QED
    BY <2>1, <2>2
<1>2. f \in [1..(2 * m) -> S]
  BY <1>0, <1>1
<1>3. 2 * m \in Nat
  OBVIOUS
<1>4. f \in Seq(S) /\ Len(f) = 2 * m
  BY <1>2, <1>3, SegmentIsSequence
<1>5. ASSUME NEW j \in 1..m
      PROVE  f[2 * j - 1] = one[j] /\ f[2 * j] = two[j]
  <2>1. /\ 2 * j - 1 \in 1..(2 * m) /\ (2 * j - 1) % 2 = 1
        /\ ((2 * j - 1) + 1) \div 2 = j
    OBVIOUS
  <2>2. /\ 2 * j \in 1..(2 * m) /\ (2 * j) % 2 # 1 /\ (2 * j) \div 2 = j
    OBVIOUS
  <2>3. f[2 * j - 1] = one[((2 * j - 1) + 1) \div 2]
    BY <1>0, <2>1
  <2>4. f[2 * j] = two[(2 * j) \div 2]
    BY <1>0, <2>2
  <2> QED
    BY <2>1, <2>2, <2>3, <2>4
<1> QED
  BY <1>4, <1>5 DEF PairsOf

\* Where the elements of two lists are in o: m pairs first, then the rest.
Pairs(one, two) == IF Len(one) < Len(two) THEN Len(one) ELSE Len(two)
InTurn(o, one, two, m) ==
    /\ Len(o) = Len(one) + Len(two)
    /\ \A j \in 1..m : o[2 * j - 1] = one[j] /\ o[2 * j] = two[j]
    /\ \A j \in m + 1..Len(one) : o[m + j] = one[j]
    /\ \A j \in m + 1..Len(two) : o[m + j] = two[j]

\* Alternate takes one of each in turn.
LEMMA AlternateElements ==
    ASSUME NEW S, NEW one \in Seq(S), NEW two \in Seq(S)
    PROVE  /\ Alternate(one, two) \in Seq(S)
           /\ InTurn(Alternate(one, two), one, two, Pairs(one, two))
<1>a. PICK a \in Nat, b \in Nat : Len(one) = a /\ Len(two) = b
  BY LenProperties
<1>b. PICK m \in Nat : m = IF a < b THEN a ELSE b
  OBVIOUS
<1>c. m = Pairs(one, two)
  BY <1>a, <1>b DEF Pairs
<1> DEFINE f == [i \in 1..(2 * m) |-> IF i % 2 = 1 THEN one[(i + 1) \div 2]
                                                   ELSE two[i \div 2]]
           x == SubSeq(one, m + 1, Len(one))
           y == SubSeq(two, m + 1, Len(two))
           g == f \o x
           e == g \o y
<1>1. Alternate(one, two) = e
  <2>1. Alternate(one, two) =
          [i \in 1..(2 * Pairs(one, two)) |-> IF i % 2 = 1 THEN one[(i + 1) \div 2]
                                                       ELSE two[i \div 2]]
          \o SubSeq(one, Pairs(one, two) + 1, Len(one))
          \o SubSeq(two, Pairs(one, two) + 1, Len(two))
    BY DEF Alternate, Pairs
  <2> QED
    BY <1>c, <2>1
<1>2. m <= a /\ m <= b /\ m \in 0..a /\ m \in 0..b /\ (m = a \/ m = b)
  BY <1>b
<1> HIDE DEF f, x, y, g, e
<1>3. /\ f \in Seq(S) /\ Len(f) = 2 * m
      /\ \A j \in 1..m : f[2 * j - 1] = one[j] /\ f[2 * j] = two[j]
  <2>1. m <= Len(one) /\ m <= Len(two)
    BY <1>a, <1>2
  <2>2. Paired(f, one, two, m)
    BY DEF Paired, f
  <2>3. PairsOf(f, one, two, m, S)
    BY <2>1, <2>2, PairElements
  <2> QED
    BY <2>3 DEF PairsOf
<1>4. x \in Seq(S) /\ Len(x) = a - m /\ \A k \in 1..a - m : x[k] = one[m + k]
  <2>1. m \in 0..Len(one)
    BY <1>a, <1>2
  <2>2. /\ x \in Seq(S) /\ Len(x) = Len(one) - m
        /\ \A k \in 1..Len(one) - m : x[k] = one[m + k]
    BY <2>1, SuffixElements, Zenon DEF x
  <2> QED
    BY <1>a, <2>2
<1>5. y \in Seq(S) /\ Len(y) = b - m /\ \A k \in 1..b - m : y[k] = two[m + k]
  <2>1. m \in 0..Len(two)
    BY <1>a, <1>2
  <2>2. /\ y \in Seq(S) /\ Len(y) = Len(two) - m
        /\ \A k \in 1..Len(two) - m : y[k] = two[m + k]
    BY <2>1, SuffixElements, Zenon DEF y
  <2> QED
    BY <1>a, <2>2
<1>6. 2 * m \in Nat /\ a - m \in Nat /\ b - m \in Nat /\ 2 * m + (a - m) = m + a
      /\ m + a \in Nat /\ (m + a) + (b - m) = a + b
  BY <1>2
<1>7. /\ g \in Seq(S) /\ Len(g) = m + a
      /\ \A i \in 1..(2 * m) : g[i] = f[i]
      /\ \A k \in 1..a - m : g[2 * m + k] = x[k]
  <2>1. f \in Seq(S) /\ x \in Seq(S) /\ g = f \o x
    BY <1>3, <1>4 DEF g
  <2>2. /\ g \in Seq(S) /\ Len(g) = Len(f) + Len(x)
        /\ \A i \in 1..Len(f) : g[i] = f[i]
        /\ \A k \in 1..Len(x) : g[Len(f) + k] = x[k]
    BY <2>1, ConcatElements, SMTT(20)
  <2> QED
    BY <1>3, <1>4, <1>6, <2>2
<1>8. /\ e \in Seq(S) /\ Len(e) = a + b
      /\ \A i \in 1..m + a : e[i] = g[i]
      /\ \A k \in 1..b - m : e[(m + a) + k] = y[k]
  <2>1. g \in Seq(S) /\ y \in Seq(S) /\ e = g \o y
    BY <1>5, <1>7 DEF e
  <2>2. /\ e \in Seq(S) /\ Len(e) = Len(g) + Len(y)
        /\ \A i \in 1..Len(g) : e[i] = g[i]
        /\ \A k \in 1..Len(y) : e[Len(g) + k] = y[k]
    BY <2>1, ConcatElements, SMTT(20)
  <2> QED
    BY <1>5, <1>6, <1>7, <2>2
<1>9. ASSUME NEW j \in 1..m PROVE e[2 * j - 1] = one[j] /\ e[2 * j] = two[j]
  <2>1. /\ 2 * j - 1 \in 1..(2 * m) /\ 2 * j \in 1..(2 * m)
        /\ 2 * j - 1 \in 1..m + a /\ 2 * j \in 1..m + a
    BY <1>2
  <2> QED
    BY <1>3, <1>7, <1>8, <2>1
<1>10. ASSUME NEW j \in m + 1..a PROVE e[m + j] = one[j]
  <2>1. /\ j - m \in 1..a - m /\ 2 * m + (j - m) = m + j
        /\ m + (j - m) = j /\ m + j \in 1..m + a
    BY <1>2
  <2>2. x[j - m] = one[j] /\ g[m + j] = x[j - m]
    BY <1>4, <1>7, <2>1
  <2> QED
    BY <1>8, <2>1, <2>2
<1>11. ASSUME NEW j \in m + 1..b PROVE e[m + j] = two[j]
  <2>1. /\ j - m \in 1..b - m /\ m = a /\ (m + a) + (j - m) = m + j
        /\ m + (j - m) = j
    BY <1>2
  <2>2. y[j - m] = two[j]
    BY <1>5, <2>1
  <2>3. e[(m + a) + (j - m)] = y[j - m]
    BY <1>8, <2>1
  <2> QED
    BY <2>1, <2>2, <2>3
<1>12. InTurn(e, one, two, m)
  BY <1>a, <1>8, <1>9, <1>10, <1>11 DEF InTurn
<1> QED
  BY <1>1, <1>8, <1>12, <1>c

\* The order o has the elements of two lists, those of the first being the ones
\* in F, once each, and two of a kind in a row only when the other has none left.
Merges(o, one, two, F) ==
    /\ ToSet(o) = ToSet(one) \cup ToSet(two) /\ IsInjective(o)
    /\ one # <<>> => o[1] = one[1]
    /\ \A i \in 1..(Len(o) - 1) :
         (o[i] \in F <=> o[i + 1] \in F) =>
             \A j \in (i + 1)..Len(o) : o[j] \in F <=> o[i] \in F

\* Alternate merges lists of different families.
LEMMA AlternateOrder ==
    ASSUME NEW S, NEW one \in Seq(S), NEW two \in Seq(S), NEW F,
           IsInjective(one), IsInjective(two),
           ToSet(one) \subseteq F, ToSet(two) \cap F = {}
    PROVE  /\ Alternate(one, two) \in Seq(S)
           /\ Merges(Alternate(one, two), one, two, F)
<1> DEFINE e == Alternate(one, two)
           a == Len(one)
           b == Len(two)
           m == IF a < b THEN a ELSE b
           At1(k) == IF k <= m THEN 2 * k - 1 ELSE m + k
           At2(k) == IF k <= m THEN 2 * k ELSE m + k
<1>1. a \in Nat /\ b \in Nat /\ m \in Nat
  BY LenProperties
<1>2. /\ e \in Seq(S) /\ Len(e) = a + b
      /\ \A j \in 1..m : e[2 * j - 1] = one[j] /\ e[2 * j] = two[j]
      /\ \A j \in m + 1..a : e[m + j] = one[j]
      /\ \A j \in m + 1..b : e[m + j] = two[j]
  <2> HIDE DEF a, b, m
  <2>1. e \in Seq(S) /\ InTurn(e, one, two, Pairs(one, two))
    BY AlternateElements
  <2>2. m = Pairs(one, two) /\ Len(one) = a /\ Len(two) = b
    BY DEF Pairs, m, a, b
  <2> QED
    BY <2>1, <2>2 DEF InTurn
<1>3. /\ ToSet(one) = {one[k] : k \in 1..a} /\ DOMAIN one = 1..a
      /\ ToSet(two) = {two[k] : k \in 1..b} /\ DOMAIN two = 1..b
  BY ToSetElements
<1>4. ToSet(e) = {e[i] : i \in 1..a + b} /\ DOMAIN e = 1..a + b
  <2>1. ToSet(e) = {e[i] : i \in 1..Len(e)} /\ DOMAIN e = 1..Len(e)
    <3>1. e \in Seq(S)
      BY <1>2
    <3> QED
      BY <3>1, ToSetElements
  <2>2. Len(e) = a + b
    BY <1>2
  <2> HIDE DEF a, b
  <2> QED
    BY <2>1, <2>2, Zenon
<1>5. m <= a /\ m <= b /\ (m = a \/ m = b) /\ (m < a => m = b) /\ (m < b => m = a)
  BY <1>1
<1> HIDE DEF e, a, b, m
<1>6. \A k \in 1..a : At1(k) \in 1..a + b /\ e[At1(k)] = one[k]
  <2> SUFFICES ASSUME NEW k \in 1..a
               PROVE  At1(k) \in 1..a + b /\ e[At1(k)] = one[k]
    OBVIOUS
  <2>1. CASE k <= m
    <3>1. k \in 1..m /\ 2 * k - 1 \in 1..a + b
      BY <1>1, <1>5, <2>1
    <3> QED
      BY <1>2, <2>1, <3>1
  <2>2. CASE ~(k <= m)
    <3>1. k \in m + 1..a /\ m + k \in 1..a + b
      BY <1>1, <1>5, <2>2
    <3> QED
      BY <1>2, <2>2, <3>1
  <2> QED
    BY <2>1, <2>2
<1>7. \A k \in 1..b : At2(k) \in 1..a + b /\ e[At2(k)] = two[k]
  <2> SUFFICES ASSUME NEW k \in 1..b
               PROVE  At2(k) \in 1..a + b /\ e[At2(k)] = two[k]
    OBVIOUS
  <2>1. CASE k <= m
    <3>1. k \in 1..m /\ 2 * k \in 1..a + b
      BY <1>1, <1>5, <2>1
    <3> QED
      BY <1>2, <2>1, <3>1
  <2>2. CASE ~(k <= m)
    <3>1. k \in m + 1..b /\ m + k \in 1..a + b
      BY <1>1, <1>5, <2>2
    <3> QED
      BY <1>2, <2>2, <3>1
  <2> QED
    BY <2>1, <2>2
<1>8. ASSUME NEW i \in 1..a + b
      PROVE  \/ /\ \E k \in 1..a : i = At1(k)
                /\ i <= 2 * m => i % 2 = 1
                /\ ~(i <= 2 * m) => b < a
             \/ /\ \E k \in 1..b : i = At2(k)
                /\ i <= 2 * m => i % 2 # 1
                /\ ~(i <= 2 * m) => ~(b < a)
  <2>1. CASE i <= 2 * m /\ i % 2 = 1
    <3> DEFINE k == (i + 1) \div 2
    <3>1. k \in 1..m /\ i = 2 * k - 1
      BY <1>1, <2>1
    <3> HIDE DEF k
    <3>2. k \in 1..a /\ i = At1(k)
      BY <1>1, <1>5, <3>1
    <3> QED
      BY <2>1, <3>2
  <2>2. CASE i <= 2 * m /\ i % 2 # 1
    <3> DEFINE k == i \div 2
    <3>1. k \in 1..m /\ i = 2 * k
      BY <1>1, <2>2
    <3> HIDE DEF k
    <3>2. k \in 1..b /\ i = At2(k)
      BY <1>1, <1>5, <3>1
    <3> QED
      BY <2>2, <3>2
  <2>3. CASE ~(i <= 2 * m) /\ b < a
    <3>1. i - m \in 1..a /\ ~(i - m <= m) /\ i = m + (i - m)
      BY <1>1, <1>5, <2>3
    <3> QED
      BY <2>3, <3>1
  <2>4. CASE ~(i <= 2 * m) /\ ~(b < a)
    <3>1. i - m \in 1..b /\ ~(i - m <= m) /\ i = m + (i - m)
      BY <1>1, <1>5, <2>4
    <3> QED
      BY <2>4, <3>1
  <2> QED
    BY <2>1, <2>2, <2>3, <2>4
<1> HIDE DEF At1, At2
<1>9. ToSet(e) = ToSet(one) \cup ToSet(two)
  BY <1>3, <1>4, <1>6, <1>7, <1>8
<1>10. \A i \in 1..a + b :
         /\ e[i] \in F => \E k \in 1..a : i = At1(k) /\ e[i] = one[k]
         /\ e[i] \notin F => \E k \in 1..b : i = At2(k) /\ e[i] = two[k]
         /\ i <= 2 * m => (e[i] \in F <=> i % 2 = 1)
         /\ ~(i <= 2 * m) => (e[i] \in F <=> b < a)
  <2>1. (\A k \in 1..a : one[k] \in F) /\ (\A k \in 1..b : two[k] \notin F)
    BY <1>3
  <2> SUFFICES ASSUME NEW i \in 1..a + b
               PROVE  /\ e[i] \in F => \E k \in 1..a : i = At1(k) /\ e[i] = one[k]
                      /\ e[i] \notin F => \E k \in 1..b : i = At2(k) /\ e[i] = two[k]
                      /\ i <= 2 * m => (e[i] \in F <=> i % 2 = 1)
                      /\ ~(i <= 2 * m) => (e[i] \in F <=> b < a)
    OBVIOUS
  <2>2. CASE /\ \E k \in 1..a : i = At1(k)
             /\ i <= 2 * m => i % 2 = 1
             /\ ~(i <= 2 * m) => b < a
    <3>1. PICK k \in 1..a : i = At1(k)
      BY <2>2
    <3>2. e[i] = one[k] /\ e[i] \in F
      BY <1>6, <2>1, <3>1
    <3> QED
      BY <2>2, <3>1, <3>2
  <2>3. CASE /\ \E k \in 1..b : i = At2(k)
             /\ i <= 2 * m => i % 2 # 1
             /\ ~(i <= 2 * m) => ~(b < a)
    <3>1. PICK k \in 1..b : i = At2(k)
      BY <2>3
    <3>2. e[i] = two[k] /\ e[i] \notin F
      BY <1>7, <2>1, <3>1
    <3> QED
      BY <2>3, <3>1, <3>2
  <2> QED
    BY <1>8, <2>2, <2>3
<1>11. IsInjective(e)
  <2> SUFFICES ASSUME NEW i \in 1..a + b, NEW j \in 1..a + b, e[i] = e[j]
               PROVE  i = j
    BY <1>4 DEF IsInjective
  <2>1. (\A k, l \in 1..a : one[k] = one[l] => k = l)
        /\ (\A k, l \in 1..b : two[k] = two[l] => k = l)
    BY <1>3 DEF IsInjective
  <2> QED
    BY <1>10, <2>1
<1>12. ASSUME one # <<>> PROVE e[1] = one[1]
  <2>1. 1 \in 1..a
    BY <1>1, <1>12, EmptySeq DEF a
  <2>2. At1(1) = 1
    BY <1>1, <1>5 DEF At1, m
  <2> QED
    BY <1>6, <2>1, <2>2
<1>13. ASSUME NEW i \in 1..(Len(e) - 1), e[i] \in F <=> e[i + 1] \in F,
              NEW j \in (i + 1)..Len(e)
       PROVE  e[j] \in F <=> e[i] \in F
  <2>1. /\ i \in 1..a + b /\ i + 1 \in 1..a + b /\ j \in 1..a + b
        /\ i \in Nat /\ j \in Nat /\ i + 1 <= j
    BY <1>1, <1>2
  <2>2. ~(i + 1 <= 2 * m)
    <3> SUFFICES ASSUME i + 1 <= 2 * m PROVE FALSE
      OBVIOUS
    <3>1. i <= 2 * m /\ (i % 2 = 1 <=> (i + 1) % 2 # 1)
      BY <1>1, <2>1
    <3> QED
      BY <1>10, <1>13, <2>1, <3>1
  <2>3. ~(j <= 2 * m)
    BY <1>1, <2>1, <2>2
  <2>4. (e[i + 1] \in F <=> b < a) /\ (e[j] \in F <=> b < a)
    BY <1>10, <2>1, <2>2, <2>3
  <2> QED
    BY <1>13, <2>4
<1> QED
  BY <1>2, <1>9, <1>11, <1>12, <1>13 DEF Merges, e

\* interleave_addresses puts every resolved address in the order once, the
\* preferred one first, and alternates the families while both have addresses.
LEMMA InterleaveOrder ==
    ASSUME NEW S, NEW s \in Seq(S), NEW p, NEW o, o = InterleaveAddresses(s, p)
    PROVE  /\ o \in Seq(S) /\ ToSet(o) = ToSet(s) /\ IsInjective(o)
           /\ p \in ToSet(s) => o[1] = p
           /\ RunsOfOneFamilyOnlyAtTheEnd(o)
<1> DEFINE d == Unique(s)
           u == MoveToFront(d, p)
           I4 == {i \in DOMAIN u : u[i] \notin Ipv6}
           I6 == {i \in DOMAIN u : u[i] \in Ipv6}
           v4 == Kept(u, I4)
           v6 == Kept(u, I6)
<1>1. o = IF u = <<>> \/ Head(u) \notin Ipv6 THEN Alternate(v4, v6)
                                             ELSE Alternate(v6, v4)
  BY DEF InterleaveAddresses
<1>2. d \in Seq(S) /\ ToSet(d) = ToSet(s) /\ IsInjective(d)
  BY UniqueElements
<1> HIDE DEF d
<1>3. /\ u \in Seq(S) /\ ToSet(u) = ToSet(s) /\ IsInjective(u)
      /\ p \in ToSet(s) => u[1] = p
  BY <1>2, MovedElements
<1> HIDE DEF u
<1>4. /\ ToSet(u) = {u[i] : i \in 1..Len(u)} /\ DOMAIN u = 1..Len(u)
      /\ Len(u) \in Nat /\ \A i \in 1..Len(u) : u[i] \in S
  BY <1>3, ToSetElements
<1>5. /\ I4 \in SUBSET (1..Len(u)) /\ I6 \in SUBSET (1..Len(u))
      /\ \A i, j \in 1..Len(u) : u[i] = u[j] => i = j
      /\ \A i, j \in I4 : u[i] = u[j] => i = j
      /\ \A i, j \in I6 : u[i] = u[j] => i = j
  BY <1>3, <1>4 DEF IsInjective
<1>6. /\ {u[i] : i \in I4} \cup {u[i] : i \in I6} = ToSet(s)
      /\ \A x \in {u[i] : i \in I4} : x \in S \ Ipv6
      /\ \A x \in {u[i] : i \in I6} : x \in Ipv6
  BY <1>3, <1>4
<1>7. /\ 1 \in 1..Len(u) /\ u[1] \notin Ipv6 => 1 \in I4
      /\ 1 \in 1..Len(u) /\ u[1] \in Ipv6 => 1 \in I6
  BY <1>4
<1> HIDE DEF I4, I6
<1>8. /\ v4 \in Seq(S) /\ ToSet(v4) = {u[i] : i \in I4} /\ IsInjective(v4)
      /\ 1 \in I4 => v4 # <<>> /\ v4[1] = u[1]
  BY <1>3, <1>5, KeptElements
<1>9. /\ v6 \in Seq(S) /\ ToSet(v6) = {u[i] : i \in I6} /\ IsInjective(v6)
      /\ 1 \in I6 => v6 # <<>> /\ v6[1] = u[1]
  BY <1>3, <1>5, KeptElements
<1>10. u # <<>> => 1 \in 1..Len(u) /\ Head(u) = u[1]
  BY <1>3, <1>4, EmptySeq
<1>11. p \in ToSet(s) => u # <<>>
  <2>1. ToSet(<<>>) = {}
    BY DEF ToSet
  <2> QED
    BY <1>3, <2>1
<1> HIDE DEF v4, v6
<1>12. CASE u = <<>> \/ Head(u) \notin Ipv6
  <2> DEFINE F == S \ Ipv6
  <2>1. /\ o = Alternate(v4, v6)
        /\ ToSet(v4) \subseteq F /\ ToSet(v6) \cap F = {}
    BY <1>1, <1>6, <1>8, <1>9, <1>12
  <2> HIDE DEF F
  <2>m. o \in Seq(S) /\ Merges(o, v4, v6, F)
    BY <1>8, <1>9, <2>1, AlternateOrder
  <2>2. /\ o \in Seq(S) /\ ToSet(o) = ToSet(v4) \cup ToSet(v6)
        /\ IsInjective(o)
        /\ v4 # <<>> => o[1] = v4[1]
        /\ \A i \in 1..(Len(o) - 1) :
             (o[i] \in F <=> o[i + 1] \in F) =>
                 \A j \in (i + 1)..Len(o) : o[j] \in F <=> o[i] \in F
    BY <2>m DEF Merges
  <2>3. p \in ToSet(s) => o[1] = p
    BY <1>3, <1>7, <1>8, <1>10, <1>11, <1>12, <2>2
  <2>4. \A i \in 1..Len(o) : o[i] \in F <=> o[i] \notin Ipv6
    <3>1. \A i \in 1..Len(o) : o[i] \in S
      BY <2>2, ToSetElements
    <3> QED
      BY <3>1 DEF F
  <2>5. RunsOfOneFamilyOnlyAtTheEnd(o)
    <3> SUFFICES ASSUME NEW i \in 1..(Len(o) - 1),
                        o[i] \in Ipv6 <=> o[i + 1] \in Ipv6,
                        NEW j \in (i + 1)..Len(o)
                 PROVE  o[j] \in Ipv6 <=> o[i] \in Ipv6
      BY DEF RunsOfOneFamilyOnlyAtTheEnd
    <3>1. /\ Len(o) \in Nat /\ i \in 1..Len(o) /\ i + 1 \in 1..Len(o)
          /\ j \in 1..Len(o)
      BY <2>2, LenProperties
    <3> QED
      BY <2>2, <2>4, <3>1
  <2> QED
    BY <1>6, <1>8, <1>9, <2>2, <2>3, <2>5
<1>13. CASE ~(u = <<>> \/ Head(u) \notin Ipv6)
  <2>1. /\ o = Alternate(v6, v4)
        /\ ToSet(v6) \subseteq Ipv6 /\ ToSet(v4) \cap Ipv6 = {}
    BY <1>1, <1>6, <1>8, <1>9, <1>13
  <2>m. o \in Seq(S) /\ Merges(o, v6, v4, Ipv6)
    BY <1>8, <1>9, <2>1, AlternateOrder
  <2>2. /\ o \in Seq(S) /\ ToSet(o) = ToSet(v6) \cup ToSet(v4)
        /\ IsInjective(o)
        /\ v6 # <<>> => o[1] = v6[1]
        /\ \A i \in 1..(Len(o) - 1) :
             (o[i] \in Ipv6 <=> o[i + 1] \in Ipv6) =>
                 \A j \in (i + 1)..Len(o) : o[j] \in Ipv6 <=> o[i] \in Ipv6
    BY <2>m DEF Merges
  <2>3. p \in ToSet(s) => o[1] = p
    BY <1>3, <1>7, <1>9, <1>10, <1>13, <2>2
  <2> QED
    BY <1>6, <1>8, <1>9, <2>2, <2>3 DEF RunsOfOneFamilyOnlyAtTheEnd
<1> QED
  BY <1>12, <1>13

-----------------------------------------------------------------------------
(* The race *)

\* An address is pending, being connected to or has failed, until the race is
\* won; a race that runs has an attempt to wait for, and one that is exhausted
\* has nothing left to start.
Accounted ==
    LET all == ToSet(raceGiven.addresses)
    IN  /\ failed \cup attempts \cup ToSet(pending) \subseteq all
        /\ raceResult = "idle" =>
             failed = {} /\ attempts = {} /\ pending = <<>> /\ ~exhausted
        /\ raceResult = "running" =>
             /\ all \subseteq failed \cup attempts \cup ToSet(pending)
             /\ attempts # {}
             /\ exhausted => pending = <<>>
        /\ raceResult = "failed" => failed = all

RaceInv ==
    /\ raceGiven.addresses \in Seq(Candidates)
    /\ pending \in Seq(Candidates)
    /\ Accounted

\* Taking the first of a sequence.
LEMMA TakeFirst ==
    ASSUME NEW S, NEW q \in Seq(S), q # <<>>
    PROVE  /\ Tail(q) \in Seq(S)
           /\ ToSet(q) = {Head(q)} \cup ToSet(Tail(q))
<1> DEFINE t == Tail(q)
           n == Len(q)
<1>1. /\ Head(q) = q[1] /\ t \in Seq(S) /\ Len(t) = n - 1 /\ n \in Nat /\ n # 0
      /\ \A i \in 1..n - 1 : t[i] = q[i + 1]
  BY HeadTailProperties, LenProperties, EmptySeq
<1>2. ToSet(q) = {q[i] : i \in 1..n}
  BY ToSetElements
<1> HIDE DEF t, n
<1>3. ToSet(t) = {t[i] : i \in 1..n - 1}
  <2>1. ToSet(t) = {t[i] : i \in 1..Len(t)}
    BY <1>1, ToSetElements
  <2> QED
    BY <1>1, <2>1
<1>4. ASSUME NEW x \in ToSet(q) PROVE x \in {q[1]} \cup ToSet(t)
  <2>1. PICK i \in 1..n : x = q[i]
    BY <1>2
  <2>2. CASE i # 1
    <3>1. i - 1 \in 1..n - 1 /\ (i - 1) + 1 = i
      BY <1>1, <2>2
    <3>2. t[i - 1] = x
      BY <1>1, <2>1, <3>1
    <3> QED
      BY <1>3, <3>1, <3>2
  <2> QED
    BY <2>1, <2>2
<1>5. ASSUME NEW x \in {q[1]} \cup ToSet(t) PROVE x \in ToSet(q)
  <2>1. CASE x = q[1]
    <3>1. 1 \in 1..n
      BY <1>1
    <3> QED
      BY <1>2, <2>1, <3>1
  <2>2. CASE x \in ToSet(t)
    <3>1. PICK i \in 1..n - 1 : x = t[i]
      BY <1>3, <2>2
    <3>2. i + 1 \in 1..n /\ q[i + 1] = x
      BY <1>1, <3>1
    <3> QED
      BY <1>2, <3>2
  <2> QED
    BY <1>5, <2>1, <2>2
<1>6. ToSet(q) = {q[1]} \cup ToSet(t)
  BY <1>4, <1>5
<1> QED
  BY <1>1, <1>6 DEF t

\* An empty sequence has no elements.
LEMMA NoElements == ToSet(<<>>) = {}
  BY DEF ToSet

\* What is resolved is a sequence of addresses.
LEMMA InputTypes ==
    ASSUME NEW given \in Inputs
    PROVE  given.addresses \in Seq(Candidates)
<1>1. given.addresses \in SeqOf(Candidates, MaxAddresses)
  BY DEF Inputs
<1>2. PICK n \in 0..MaxAddresses : given.addresses \in [1..n -> Candidates]
  BY <1>1 DEF SeqOf
<1>3. n \in Nat
  BY <1>2, AddressesAssumption
<1> QED
  BY <1>2, <1>3, SegmentIsSequence

\* launch_next starts the next address, when there is one.
LEMMA LaunchNextAccounts ==
    ASSUME NEW inFlight, pending \in Seq(Candidates), LaunchNext(inFlight)
    PROVE  /\ pending' \in Seq(Candidates)
           /\ attempts' \cup ToSet(pending') = inFlight \cup ToSet(pending)
           /\ inFlight \subseteq attempts'
           /\ exhausted' => pending = <<>> /\ pending' = <<>> /\ attempts' = inFlight
           /\ ~exhausted' => attempts' # {}
<1>1. CASE pending = <<>>
  BY <1>1 DEF LaunchNext
<1>2. CASE pending # <<>>
  <2>1. /\ Tail(pending) \in Seq(Candidates)
        /\ ToSet(pending) = {Head(pending)} \cup ToSet(Tail(pending))
    BY <1>2, TakeFirst
  <2> QED
    BY <1>2, <2>1 DEF LaunchNext
<1> QED
  BY <1>1, <1>2

\* The addresses are accounted for from the first attempt on.
LEMMA StartRaceAccounts ==
    ASSUME RaceInv, NEW given \in Inputs, StartRace(given)
    PROVE  RaceInv'
<1> DEFINE order == InterleaveAddresses(given.addresses, given.preferred)
<1>1. given.addresses \in Seq(Candidates)
  BY InputTypes
<1>2. order \in Seq(Candidates) /\ ToSet(order) = ToSet(given.addresses)
  BY <1>1, InterleaveOrder
<1>3. /\ raceResult = "idle" /\ raceGiven' = given
      /\ failed = {} /\ attempts = {} /\ pending = <<>> /\ ~exhausted
      /\ failed' = failed /\ exhausted' = exhausted
      /\ IF order = <<>>
         THEN raceResult' = "failed" /\ pending' = pending /\ attempts' = attempts
         ELSE /\ pending' = Tail(order) /\ attempts' = {Head(order)}
              /\ raceResult' = "running"
  BY DEF StartRace, RaceInv, Accounted
<1> HIDE DEF order
<1>4. CASE order = <<>>
  <2>1. ToSet(raceGiven'.addresses) = {} /\ ToSet(pending') = {}
    BY <1>2, <1>3, <1>4, NoElements
  <2> QED
    BY <1>1, <1>3, <1>4, <2>1 DEF RaceInv, Accounted
<1>5. CASE order # <<>>
  <2>1. /\ Tail(order) \in Seq(Candidates)
        /\ ToSet(order) = {Head(order)} \cup ToSet(Tail(order))
    BY <1>2, <1>5, TakeFirst
  <2> QED
    BY <1>1, <1>2, <1>3, <1>5, <2>1 DEF RaceInv, Accounted
<1> QED
  BY <1>4, <1>5

\* A failed attempt moves its address to the failed ones.
LEMMA AttemptFailedAccounts ==
    ASSUME RaceInv, NEW a \in Candidates, AttemptFailed(a)
    PROVE  RaceInv'
<1> DEFINE rest == attempts \ {a}
<1>1. /\ raceResult = "running" /\ a \in attempts /\ failed' = failed \cup {a}
      /\ LaunchNext(rest) /\ raceGiven' = raceGiven
      /\ raceResult' = IF GiveUp THEN "failed" ELSE "running"
  BY DEF AttemptFailed
<1>2. /\ pending' \in Seq(Candidates)
      /\ attempts' \cup ToSet(pending') = rest \cup ToSet(pending)
      /\ exhausted' => pending = <<>> /\ pending' = <<>> /\ attempts' = rest
      /\ ~exhausted' => attempts' # {}
  BY <1>1, LaunchNextAccounts DEF RaceInv
<1>3. failed' \cup attempts' \cup ToSet(pending') = failed \cup attempts \cup ToSet(pending)
  BY <1>1, <1>2
<1> HIDE DEF rest
<1>4. CASE GiveUp
  <2>1. /\ raceResult' = "failed" /\ exhausted' /\ attempts' = {} /\ pending' = <<>>
    BY <1>1, <1>2, <1>4 DEF GiveUp
  <2>2. failed' = failed \cup attempts \cup ToSet(pending)
    BY <1>3, <2>1, NoElements
  <2> QED
    BY <1>1, <1>2, <1>3, <2>1, <2>2 DEF RaceInv, Accounted
<1>5. CASE ~GiveUp
  <2>1. raceResult' = "running" /\ attempts' # {}
    BY <1>1, <1>2, <1>5 DEF GiveUp
  <2> QED
    BY <1>1, <1>2, <1>3, <2>1 DEF RaceInv, Accounted
<1> QED
  BY <1>4, <1>5

\* The staggering delay only starts an address.
LEMMA DelayFiresAccounts ==
    ASSUME RaceInv, DelayFires
    PROVE  RaceInv'
<1>1. /\ raceResult = "running" /\ LaunchNext(attempts) /\ raceGiven' = raceGiven
      /\ failed' = failed /\ raceResult' = raceResult
  BY DEF DelayFires
<1>2. /\ pending' \in Seq(Candidates)
      /\ attempts' \cup ToSet(pending') = attempts \cup ToSet(pending)
      /\ attempts \subseteq attempts'
      /\ exhausted' => pending' = <<>>
  BY <1>1, LaunchNextAccounts DEF RaceInv
<1> QED
  BY <1>1, <1>2 DEF RaceInv, Accounted

\* A connected race has dropped its other attempts.
LEMMA AttemptSucceedsAccounts ==
    ASSUME RaceInv, NEW a \in Candidates, AttemptSucceeds(a)
    PROVE  RaceInv'
  BY DEF AttemptSucceeds, RaceInv, Accounted

\* Every address stays accounted for, whatever the order of the attempts' ends
\* and of the delays (race_connects).
THEOREM RaceAccounts == RaceSpec => []RaceInv
<1>1. RaceInit => RaceInv
  <2> SUFFICES ASSUME RaceInit PROVE RaceInv
    OBVIOUS
  <2>1. raceGiven.addresses = <<>> /\ pending = <<>>
    BY DEF RaceInit
  <2>2. <<>> \in Seq(Candidates)
    OBVIOUS
  <2> QED
    BY <2>1, <2>2, NoElements DEF RaceInit, RaceInv, Accounted
<1>2. RaceInv /\ [RaceNext]_raceVars => RaceInv'
  <2> SUFFICES ASSUME RaceInv, [RaceNext]_raceVars PROVE RaceInv'
    OBVIOUS
  <2>1. CASE \E given \in Inputs : StartRace(given)
    BY <2>1, StartRaceAccounts
  <2>2. CASE \E a \in Candidates : AttemptSucceeds(a)
    BY <2>2, AttemptSucceedsAccounts
  <2>3. CASE \E a \in Candidates : AttemptFailed(a)
    BY <2>3, AttemptFailedAccounts
  <2>4. CASE DelayFires
    BY <2>4, DelayFiresAccounts
  <2>5. CASE UNCHANGED raceVars
    BY <2>5 DEF raceVars, RaceInv, Accounted
  <2> QED
    BY <2>1, <2>2, <2>3, <2>4, <2>5 DEF RaceNext
<1> QED
  BY <1>1, <1>2, PTL DEF RaceSpec

\* A race fails only when every resolved address was tried and failed, always
\* has an attempt to wait for while it runs, and takes the addresses in the
\* order interleave_addresses promises, for any number of addresses.
THEOREM EveryAddressIsTried == RaceSpec => []EveryAddressTried
<1>1. RaceInv => EveryAddressTried
  <2> SUFFICES ASSUME RaceInv PROVE EveryAddressTried
    OBVIOUS
  <2> DEFINE s == raceGiven.addresses
             o == InterleaveAddresses(s, raceGiven.preferred)
  <2>1. s \in Seq(Candidates)
    BY DEF RaceInv
  <2>2. /\ ToSet(o) = ToSet(s) /\ IsInjective(o)
        /\ raceGiven.preferred \in ToSet(s) => o[1] = raceGiven.preferred
        /\ RunsOfOneFamilyOnlyAtTheEnd(o)
    BY <2>1, InterleaveOrder
  <2> HIDE DEF o
  <2> QED
    BY <2>2 DEF EveryAddressTried, RaceInv, Accounted, o
<1> QED
  BY <1>1, RaceAccounts, PTL

-----------------------------------------------------------------------------
(* serve-map *)

MapTypeOK ==
    /\ pc \in {"select", "fetch", "update", "close"}
    /\ mapped \in Seq(Proxies)
    /\ clients \in Seq(Proxies)
    /\ routes \in [Indices -> 1..Len(clients)]
    /\ closed \subseteq 1..Len(clients)
    /\ remote \in Catalogs

\* Updates are still to be made exactly while the loop makes them, and each
\* keeps the name of the node its port is for.
PlanKeepsNames ==
    /\ DOMAIN plan \subseteq Indices
    /\ DOMAIN plan # {} <=> pc \in {"update", "close"}
    /\ \A i \in DOMAIN plan : plan[i] \in Proxies /\ plan[i].name = mapped[i].name

\* No client serves two ports.
OwnClient == \A i, j \in Indices : routes[i] = routes[j] => i = j

Routed == {routes[i] : i \in Indices}

\* Between two updates the clients that no port leads to are the closed ones.
MapSettled ==
    pc # "close" =>
      /\ closed = (1..Len(clients)) \ Routed
      /\ \A i \in Indices : clients[routes[i]] = mapped[i]

\* Between the replacement of a route and the close of the client it led to,
\* that client is the only one that is neither routed nor closed.
Replaced ==
    pc = "close" =>
      /\ old \in 1..Len(clients)
      /\ old \notin Routed
      /\ closed = (1..Len(clients)) \ (Routed \cup {old})
      /\ \A i \in Indices :
           clients[routes[i]] = IF i = Index THEN plan[i] ELSE mapped[i]

MapInv == MapTypeOK /\ PlanKeepsNames /\ OwnClient /\ MapSettled /\ Replaced

-----------------------------------------------------------------------------

\* The loop is at one of the updates.
LEMMA IndexPlanned ==
    ASSUME MapTypeOK, PlanKeepsNames, DOMAIN plan # {}
    PROVE  Index \in DOMAIN plan /\ Index \in Indices
<1>1. DOMAIN plan \subseteq Nat
  <2>1. Indices = 1..Len(mapped) /\ Len(mapped) \in Nat
    BY LenProperties DEF MapTypeOK, Indices
  <2> QED
    BY <2>1 DEF PlanKeepsNames
<1>2. \E i \in DOMAIN plan : \A j \in DOMAIN plan : i <= j
  BY <1>1, LeastNumber
<1> QED
  BY <1>2 DEF Index, PlanKeepsNames

\* A catalog is a sequence of proxies.
LEMMA CatalogSeq ==
    ASSUME NEW c \in Catalogs
    PROVE  c \in Seq(Proxies) /\ DOMAIN c = 1..Len(c)
<1>1. PICK n \in 1..MaxNodes : c \in [1..n -> Proxies]
  BY DEF Catalogs
<1>2. n \in Nat
  BY <1>1, ServeMapAssumption
<1> QED
  BY <1>1, <1>2

\* plan_map_refresh updates only ports, and gives none of them a node of
\* another name.
LEMMA UpdatesKeepNames ==
    ASSUME MapTypeOK, NEW c \in Catalogs
    PROVE  /\ DOMAIN Updates(c) \subseteq Indices
           /\ \A i \in DOMAIN Updates(c) :
                Updates(c)[i] \in Proxies /\ Updates(c)[i].name = mapped[i].name
<1> DEFINE Named(i) == {j \in DOMAIN c : c[j].name = mapped[i].name}
           Found(i) == c[CHOOSE j \in Named(i) : TRUE]
           Ports == {i \in Indices : Named(i) # {} /\ Found(i) # mapped[i]}
<1>1. Updates(c) = [i \in Ports |-> Found(i)]
  BY DEF Updates
<1>2. ASSUME NEW i \in Ports PROVE Found(i) \in Proxies /\ Found(i).name = mapped[i].name
  <2>1. Named(i) # {}
    OBVIOUS
  <2>2. (CHOOSE j \in Named(i) : TRUE) \in Named(i)
    BY <2>1
  <2>3. \A j \in DOMAIN c : c[j] \in Proxies
    BY CatalogSeq, ElementOfSeq
  <2> QED
    BY <2>2, <2>3
<1> HIDE DEF Found, Named
<1> QED
  BY <1>1, <1>2

-----------------------------------------------------------------------------
\* serve-map starts with one client per port.
LEMMA MapInitInv == Init => MapInv
<1> SUFFICES ASSUME Init PROVE MapInv
  OBVIOUS
<1>1. remote \in Catalogs /\ mapped = remote /\ clients = remote /\ pc = "select"
  BY DEF Init
<1>2. remote \in Seq(Proxies) /\ DOMAIN remote = 1..Len(remote)
  BY <1>1, CatalogSeq
<1>3. routes = [i \in Indices |-> i] /\ Indices = 1..Len(clients)
  BY <1>1, <1>2 DEF Init, Indices
<1>4. MapTypeOK
  BY <1>1, <1>2, <1>3 DEF Init, MapTypeOK
<1>5. PlanKeepsNames
  BY <1>1 DEF Init, PlanKeepsNames
<1>6. OwnClient /\ MapSettled /\ Replaced
  BY <1>1, <1>3 DEF Init, OwnClient, MapSettled, Replaced, Routed
<1> QED
  BY <1>4, <1>5, <1>6 DEF MapInv

\* A step that leaves the map alone.
MapQuiet == UNCHANGED <<mapped, routes, clients, closed>>

\* Connections, the remote catalog and a fetch that fails change no part of it.
LEMMA QuietInv ==
    ASSUME MapInv, MapQuiet, UNCHANGED <<plan, old>>,
           \/ pc' = pc
           \/ {pc, pc'} \subseteq {"select", "fetch"},
           remote' \in Catalogs
    PROVE  MapInv'
<1>1. Indices' = Indices /\ Routed' = Routed /\ Index' = Index
  BY DEF MapQuiet, Indices, Routed, Index
<1>2. MapTypeOK'
  BY <1>1 DEF MapInv, MapTypeOK, MapQuiet
<1>3. PlanKeepsNames'
  BY <1>1 DEF MapInv, PlanKeepsNames, MapQuiet
<1>4. OwnClient' /\ MapSettled' /\ Replaced'
  BY <1>1 DEF MapInv, OwnClient, MapSettled, Replaced, MapQuiet
<1> QED
  BY <1>2, <1>3, <1>4 DEF MapInv

\* A catalog is fetched and the refresh planned.
LEMMA FetchInv == ASSUME MapInv, FetchOk PROVE MapInv'
<1>1. MapQuiet /\ UNCHANGED <<old, remote>> /\ pc = "fetch" /\ plan' = Updates(remote)
  BY DEF FetchOk, MapQuiet, envVars
<1>2. Indices' = Indices /\ Routed' = Routed
  BY <1>1 DEF MapQuiet, Indices, Routed
<1>3. pc' = IF DOMAIN plan' = {} THEN "select" ELSE "update"
  BY DEF FetchOk
<1>4. MapTypeOK'
  BY <1>1, <1>2, <1>3 DEF MapInv, MapTypeOK, MapQuiet
<1>5. PlanKeepsNames'
  <2>1. MapTypeOK /\ remote \in Catalogs
    BY DEF MapInv, MapTypeOK
  <2>2. /\ DOMAIN plan' \subseteq Indices
        /\ \A i \in DOMAIN plan' : plan'[i] \in Proxies /\ plan'[i].name = mapped[i].name
    BY <1>1, <2>1, UpdatesKeepNames
  <2> QED
    BY <1>1, <1>2, <1>3, <2>2 DEF PlanKeepsNames, MapQuiet
<1>6. OwnClient' /\ MapSettled' /\ Replaced'
  BY <1>1, <1>2, <1>3 DEF MapInv, OwnClient, MapSettled, Replaced, MapQuiet
<1> QED
  BY <1>4, <1>5, <1>6 DEF MapInv

\* What the step to the next update leaves of the plan.
LEMMA AdvanceEffect ==
    ASSUME MapInv, DOMAIN plan # {}, Advance
    PROVE  /\ DOMAIN plan' = DOMAIN plan \ {Index}
           /\ \A i \in DOMAIN plan' : plan'[i] = plan[i]
           /\ pc' \in {"select", "update"}
           /\ DOMAIN plan' # {} <=> pc' = "update"
<1>1. Index \in DOMAIN plan
  BY IndexPlanned DEF MapInv
<1> QED
  BY <1>1 DEF Advance

\* A client that cannot be built leaves its port alone.
LEMMA BuildFailsInv == ASSUME MapInv, BuildFails PROVE MapInv'
<1>1. MapQuiet /\ UNCHANGED <<old, remote>> /\ pc = "update" /\ Advance
  BY DEF BuildFails, MapQuiet, envVars
<1>2. Indices' = Indices /\ Routed' = Routed
  BY <1>1 DEF MapQuiet, Indices, Routed
<1>3. DOMAIN plan # {}
  BY <1>1 DEF MapInv, PlanKeepsNames
<1>4. MapTypeOK'
  BY <1>1, <1>2, <1>3, AdvanceEffect DEF MapInv, MapTypeOK, MapQuiet
<1>5. PlanKeepsNames'
  BY <1>1, <1>2, <1>3, AdvanceEffect DEF MapInv, PlanKeepsNames, MapQuiet
<1>6. OwnClient' /\ MapSettled' /\ Replaced'
  BY <1>1, <1>2, <1>3, AdvanceEffect DEF MapInv, OwnClient, MapSettled, Replaced, MapQuiet
<1> QED
  BY <1>4, <1>5, <1>6 DEF MapInv

\* What replacing the route of the next port does, read off the sequences.
LEMMA ReplaceEffect ==
    ASSUME MapInv, Replace
    PROVE  /\ pc = "update" /\ pc' = "close"
           /\ Index \in DOMAIN plan /\ Index \in Indices /\ Index' = Index
           /\ Indices' = Indices
           /\ Len(clients) \in Nat
           /\ clients' \in Seq(Proxies) /\ Len(clients') = Len(clients) + 1
           /\ \A k \in 1..Len(clients) : clients'[k] = clients[k]
           /\ clients'[Len(clients) + 1] = plan[Index]
           /\ routes' \in [Indices -> 1..Len(clients')]
           /\ routes'[Index] = Len(clients) + 1
           /\ \A i \in Indices : i # Index => routes'[i] = routes[i]
           /\ old' = routes[Index]
           /\ UNCHANGED <<mapped, closed, plan, remote>>
<1>1. pc = "update" /\ pc' = "close" /\ UNCHANGED <<mapped, closed, plan, remote>>
  BY DEF Replace, envVars
<1>2. Index \in DOMAIN plan /\ Index \in Indices
  BY <1>1, IndexPlanned DEF MapInv, PlanKeepsNames
<1>3. Index' = Index /\ Indices' = Indices
  BY <1>1 DEF Index, Indices
<1>4. clients \in Seq(Proxies) /\ plan[Index] \in Proxies /\ clients' = Append(clients, plan[Index])
  BY <1>2 DEF MapInv, MapTypeOK, PlanKeepsNames, Replace
<1>5. /\ Len(clients) \in Nat
      /\ clients' \in Seq(Proxies) /\ Len(clients') = Len(clients) + 1
      /\ \A k \in 1..Len(clients) : clients'[k] = clients[k]
      /\ clients'[Len(clients) + 1] = plan[Index]
  BY <1>4, AppendProperties, LenProperties
<1>6. routes \in [Indices -> 1..Len(clients)] /\ routes' = [routes EXCEPT ![Index] = Len(clients')]
  BY DEF MapInv, MapTypeOK, Replace
<1>7. /\ routes' \in [Indices -> 1..Len(clients')]
      /\ routes'[Index] = Len(clients) + 1
      /\ \A i \in Indices : i # Index => routes'[i] = routes[i]
  BY <1>2, <1>5, <1>6
<1>8. old' = routes[Index]
  BY DEF Replace
<1> QED
  BY <1>1, <1>2, <1>3, <1>5, <1>7, <1>8

\* A route is replaced: the client it led to is no longer routed.
LEMMA ReplaceInv == ASSUME MapInv, Replace PROVE MapInv'
<1>0. MapTypeOK /\ PlanKeepsNames /\ OwnClient /\ MapSettled
  BY DEF MapInv
<1>r. routes \in [Indices -> 1..Len(clients)] /\ closed \subseteq 1..Len(clients)
  BY <1>0 DEF MapTypeOK
<1>1. MapTypeOK'
  <2>1. clients' \in Seq(Proxies) /\ mapped' \in Seq(Proxies) /\ remote' \in Catalogs
    BY <1>0, ReplaceEffect DEF MapTypeOK
  <2>2. routes' \in [Indices' -> 1..Len(clients')]
    BY ReplaceEffect
  <2>3. closed' \subseteq 1..Len(clients')
    <3>1. closed' = closed /\ Len(clients') = Len(clients) + 1 /\ Len(clients) \in Nat
      BY ReplaceEffect
    <3>2. 1..Len(clients) \subseteq 1..Len(clients) + 1
      BY <3>1
    <3> QED
      BY <1>r, <3>1, <3>2
  <2>4. pc' = "close"
    BY ReplaceEffect
  <2> QED
    BY <2>1, <2>2, <2>3, <2>4 DEF MapTypeOK
<1>2. PlanKeepsNames'
  BY <1>0, ReplaceEffect DEF PlanKeepsNames
<1>3. OwnClient'
  BY <1>0, <1>r, ReplaceEffect DEF OwnClient
<1>4. MapSettled'
  BY ReplaceEffect DEF MapSettled
<1>5. Replaced'
  <2>1. old' \in 1..Len(clients) /\ old' \notin Routed'
    BY <1>0, <1>r, ReplaceEffect DEF OwnClient, Routed
  <2>2. ASSUME NEW k \in 1..Len(clients)'
        PROVE  k \in closed' <=> k \notin Routed' /\ k # old'
    <3>1. CASE k = Len(clients) + 1
      BY <1>r, <3>1, ReplaceEffect DEF Routed
    <3>2. CASE k # Len(clients) + 1
      <4>1. k \in 1..Len(clients)
        BY <2>2, <3>2, ReplaceEffect
      <4>2. k \in closed <=> k \notin Routed
        BY <1>0, <4>1, ReplaceEffect DEF MapSettled
      <4>3. k \in Routed <=> k \in Routed' \/ k = old'
        BY <1>r, <3>2, ReplaceEffect DEF Routed
      <4> QED
        BY <2>1, <4>2, <4>3, ReplaceEffect
    <3> QED
      BY <3>1, <3>2
  <2>3. closed' = (1..Len(clients)') \ (Routed' \cup {old'})
    BY <1>1, <2>2 DEF MapTypeOK
  <2>4. ASSUME NEW i \in Indices
        PROVE  clients'[routes'[i]] = IF i = Index THEN plan[i] ELSE mapped[i]
    BY <1>0, <1>r, ReplaceEffect DEF MapSettled
  <2> QED
    BY <2>1, <2>3, <2>4, ReplaceEffect DEF Replaced
<1> QED
  BY <1>1, <1>2, <1>3, <1>4, <1>5 DEF MapInv

\* The replaced client is closed and the node of the port recorded.
LEMMA CloseInv == ASSUME MapInv, CloseOld PROVE MapInv'
<1>0. MapTypeOK /\ PlanKeepsNames /\ OwnClient /\ Replaced
  BY DEF MapInv
<1>1. /\ pc = "close" /\ Advance /\ UNCHANGED <<routes, clients, remote>>
      /\ closed' = closed \cup {old}
      /\ mapped' = [mapped EXCEPT ![Index] = plan[Index]]
  BY DEF CloseOld, envVars
<1>2. DOMAIN plan # {}
  BY <1>0, <1>1 DEF PlanKeepsNames
<1>3. Index \in DOMAIN plan /\ Index \in Indices /\ plan[Index] \in Proxies
  BY <1>0, <1>2, IndexPlanned DEF PlanKeepsNames
<1>4. /\ mapped' \in Seq(Proxies) /\ Indices' = Indices
      /\ mapped'[Index] = plan[Index]
      /\ \A i \in Indices : i # Index => mapped'[i] = mapped[i]
  <2>1. mapped \in Seq(Proxies) /\ Index \in 1..Len(mapped)
    BY <1>0, <1>3, LenProperties DEF MapTypeOK, Indices
  <2>2. mapped' \in Seq(Proxies)
    BY <1>1, <1>3, <2>1, ExceptSeq
  <2> QED
    BY <1>1, <1>3, <2>1, <2>2 DEF Indices
<1>5. Routed' = Routed
  BY <1>1, <1>4 DEF Routed
<1>6. MapTypeOK'
  BY <1>0, <1>1, <1>2, <1>4, AdvanceEffect DEF MapTypeOK, Replaced
<1>7. PlanKeepsNames'
  BY <1>0, <1>1, <1>2, <1>4, AdvanceEffect DEF PlanKeepsNames
<1>8. OwnClient'
  BY <1>0, <1>1, <1>4 DEF OwnClient
<1>9. MapSettled'
  <2>1. closed' = (1..Len(clients)) \ Routed
    BY <1>0, <1>1 DEF Replaced
  <2>2. \A i \in Indices : clients[routes[i]] = mapped'[i]
    BY <1>0, <1>1, <1>3, <1>4 DEF Replaced
  <2> QED
    BY <1>1, <1>4, <1>5, <2>1, <2>2 DEF MapSettled
<1>10. Replaced'
  BY <1>1, <1>2, AdvanceEffect DEF Replaced
<1> QED
  BY <1>6, <1>7, <1>8, <1>9, <1>10 DEF MapInv

\* Every step preserves the invariant.
LEMMA MapNextInv == MapInv /\ [Next]_vars => MapInv'
<1> SUFFICES ASSUME MapInv, [Next]_vars PROVE MapInv'
  OBVIOUS
<1>1. CASE FetchOk
  BY <1>1, FetchInv
<1>2. CASE Update
  BY <1>2, BuildFailsInv, ReplaceInv, CloseInv DEF Update
<1>3. CASE \/ Wake \/ FetchFails \/ UNCHANGED vars
           \/ \E c \in Conns, i \in Indices : GetRoute(c, i)
           \/ \E c \in Conns : HandshakeFails(c) \/ Dial(c) \/ DialClosed(c) \/ SessionEnds(c)
           \/ \E c \in Catalogs : RemoteChanges(c)
  <2>1. MapQuiet /\ UNCHANGED <<plan, old>>
    BY <1>3 DEF MapQuiet, Wake, FetchFails, vars, GetRoute, HandshakeFails, Dial,
       DialClosed, SessionEnds, RemoteChanges
  <2>2. pc' = pc \/ {pc, pc'} \subseteq {"select", "fetch"}
    BY <1>3 DEF Wake, FetchFails, vars, GetRoute, HandshakeFails, Dial,
       DialClosed, SessionEnds, RemoteChanges
  <2>3. remote' = remote \/ remote' \in Catalogs
    BY <1>3 DEF Wake, FetchFails, vars, envVars, GetRoute, HandshakeFails, Dial,
       DialClosed, SessionEnds, RemoteChanges
  <2>4. remote' \in Catalogs
    BY <2>3 DEF MapInv, MapTypeOK
  <2> QED
    BY <2>1, <2>2, <2>4, QuietInv
<1> QED
  BY <1>1, <1>2, <1>3 DEF Next

\* A connection that reads a port's route gets an open client at any moment of
\* a refresh, and between refreshes the clients of replaced routes, and no
\* others, are closed and `mapped` says what is routed (run_serve_map).
THEOREM MapRoutesClean == Spec => []RoutesClean
<1>1. MapInv => RoutesClean
  <2> SUFFICES ASSUME MapInv PROVE RoutesClean
    OBVIOUS
  <2>1. \A i \in Indices : routes[i] \in Routed
    BY DEF Routed
  <2>2. closed \cap Routed = {}
    BY DEF MapInv, MapTypeOK, MapSettled, Replaced
  <2> QED
    BY <2>1, <2>2 DEF MapInv, MapSettled, Routed, RoutesClean
<1> QED
  BY <1>1, MapInitInv, MapNextInv, PTL DEF Spec

\* No refresh sends the clients of a port to a node of another name, whatever
\* the API adds, removes or reorders (plan_map_refresh).
THEOREM MapKeepsNodes == Spec => PortKeepsNode
<1>1. MapInv /\ [Next]_vars =>
        [\A i \in Indices : clients'[routes'[i]].name = clients[routes[i]].name]_vars
  <2> SUFFICES ASSUME MapInv, Next, NEW i \in Indices
               PROVE  clients'[routes'[i]].name = clients[routes[i]].name
    OBVIOUS
  <2>1. CASE Replace
    <3>1. routes[i] \in 1..Len(clients) /\ clients[routes[i]] = mapped[i]
      BY <2>1, ReplaceEffect DEF MapInv, MapTypeOK, MapSettled
    <3>2. CASE i = Index
      BY <2>1, <3>1, <3>2, ReplaceEffect DEF MapInv, PlanKeepsNames
    <3>3. CASE i # Index
      BY <2>1, <3>1, <3>3, ReplaceEffect
    <3> QED
      BY <3>2, <3>3
  <2>2. CASE UNCHANGED <<routes, clients>>
    BY <2>2
  <2> QED
    BY <2>1, <2>2 DEF Next, Update, Wake, FetchFails, FetchOk, BuildFails, CloseOld,
       GetRoute, HandshakeFails, Dial, DialClosed, SessionEnds, RemoteChanges
<1> QED
  BY <1>1, MapInitInv, MapNextInv, PTL DEF Spec, PortKeepsNode
=============================================================================
