------------------------- MODULE SnellSessionProofs -------------------------
(***************************************************************************)
(* Proofs about what one Snell connection carries: its sessions and its    *)
(* records.                                                                *)
(*                                                                         *)
(* SnellSession, for any number of sessions and chunks.  That a client     *)
(* gets its own response, whole and in order (ResponseIntact), and that    *)
(* the server meets its requests in order (ServerInStep), depend on        *)
(* everything that is on its way: SessInv says of both directions what the *)
(* items between the two ends are.  DownInv: whose turn the server is at   *)
(* (Turn), that what it sent, what the reader buffered and what the client *)
(* got are one sequence without a gap (InOrder), and what a reader that    *)
(* still waits for its status, its data or the end has ahead of it         *)
(* (ReplyDue, BodyDue, Ended).  UpInv: the records of the sessions follow  *)
(* one another, each from its CONNECT to its zero record (UpChain, UpLast, *)
(* OneConnect), so that a connection is pooled with nothing of an old      *)
(* session in it.                                                          *)
(*                                                                         *)
(* Records, for any payload and batch limits, paddings, keys and nonce     *)
(* size.  RecordInv says that there is one stream T, of which the bytes    *)
(* with the writer, the transport and the reader are consecutive parts     *)
(* (InFlight), and a layout of it, at which byte and after how many seals  *)
(* each record begins (RecordStream), at which the reader stands between   *)
(* two records or between a header and its body (ReaderAt).  Nonces count  *)
(* up as numbers in base Base (NonceValues), so that they differ while     *)
(* fewer than NonceCount[Digits] are used; swapping the padding twice      *)
(* gives the body back (SwapPaddingBack).                                  *)
(***************************************************************************)
EXTENDS SnellSession, Records, SharedLemmas, FiniteSetTheorems

-----------------------------------------------------------------------------
(* Sessions *)

DataItem(s, i) == [kind |-> "data", s |-> s, i |-> i]
Status(kind, s) == [kind |-> kind, s |-> s, i |-> 0]

\* The first record of a session: its status, alone or with the first data,
\* or a zero record in place of a status.
Opening(r, s) ==
    \/ r = Zero
    \/ r = <<Status("ok", s)>>
    \/ r = <<Status("reject", s)>>
    \/ r = <<Status("ok", s), DataItem(s, 1)>>

\* q holds the data of session s after number n, in order.
Numbered(q, s, n) == \A j \in 1..Len(q) : q[j] = DataItem(s, n + j)

\* From its n-th record on, the k-th record of d is item b + k of session s;
\* only the last may be a zero record.
Stream(d, s, b, n) ==
    /\ \A k \in n..Len(d) : d[k] = Zero \/ d[k] = <<DataItem(s, b + k)>>
    /\ \A k \in 1..Len(d) : d[k] = Zero => k = Len(d)

EndsInZero(d) == d # <<>> /\ d[Len(d)] = Zero

ItemSet == [kind : {"ok", "reject", "data"}, s : Nat, i : Nat]
UpRecords == [kind : {"connect", "data", "zero"}, s : Nat]

-----------------------------------------------------------------------------
(* The inductive invariant *)

Awaiting == downPc \in {"begin", "reply"}
Reading == downPc \in {"head", "data"}

\* How many items of the session the client's side has taken off the wire.
Have == Len(got) + Len(head) + Len(reader.buffered)

WireTypes ==
    /\ session \in Nat \ {0}
    /\ head \in Seq(ItemSet)
    /\ got \in Seq(ItemSet)
    /\ reader \in [buffered : Seq(ItemSet), serverEof : BOOLEAN,
                   replyPending : BOOLEAN, replyError : BOOLEAN]
    /\ up \in Seq(UpRecords)
    /\ down \in Seq(Seq(ItemSet))
    /\ srv \in [s : Nat, replied : BOOLEAN, sent : Nat, recv : Nat,
                inOpen : BOOLEAN, outOpen : BOOLEAN, confused : BOOLEAN]

PcTypes ==
    /\ place \in Places
    /\ mode \in {"tunnel", "request"}
    /\ upPc \in UploadPcs
    /\ downPc \in DownloadPcs
    /\ drive \in {"both", "upDone", "stopping"}
    /\ zeroSent \in BOOLEAN
    /\ torn \in BOOLEAN
    /\ lost \in BOOLEAN

\* The server is in this session, or it has yet to read its CONNECT; in that
\* case it sends nothing, and nothing has been read.
Turn ==
    /\ srv.s \in {session - 1, session}
    /\ srv.s = session - 1 => ~srv.outOpen
    /\ (Reading \/ downPc = "ok") => srv.s = session
    /\ (Awaiting /\ srv.s = session - 1) => down = <<>>

\* What has been read is the beginning of this session's data.
InOrder ==
    /\ Numbered(got, session, 0)
    /\ Reading =>
         /\ Numbered(head, session, Len(got))
         /\ Numbered(reader.buffered, session, Len(got) + Len(head))
    /\ downPc = "data" => head = <<>>
    /\ Awaiting => got = <<>> /\ head = <<>> /\ reader.buffered = <<>>
    /\ downPc = "begin" => reader = FreshReader

\* Before the status has been read, the stream begins with it.
OpensWith(d) ==
    /\ Opening(d[1], session)
    /\ Stream(d, session, Len(d[1]) - 2, 2)
    /\ EndsInZero(d) =>
         /\ ~srv.outOpen
         /\ Len(d) > 1 => srv.sent = Len(d[1]) + Len(d) - 3
    /\ srv.outOpen /\ ~lost =>
         srv.replied /\ srv.sent = Len(d[1]) + Len(d) - 2

\* The server has not replied before its reply is on the wire.
ReplyDue ==
    /\ Awaiting /\ down # <<>> => OpensWith(down)
    /\ Awaiting /\ down = <<>> /\ srv.outOpen /\ ~lost => ~srv.replied
    /\ srv.outOpen /\ ~srv.replied => srv.sent = 0

\* Once h items have been read, the stream goes on with the next one, up to
\* the last one sent.
GoesOn(d, h) ==
    /\ Stream(d, session, h, 1)
    /\ EndsInZero(d) => ~srv.outOpen /\ srv.sent = h + Len(d) - 1
    /\ srv.outOpen /\ ~lost => srv.replied /\ srv.sent = h + Len(d)

BodyDue == Reading => GoesOn(down, Have)

\* After the server's zero record there is nothing left.
Ended ==
    downPc = "ok" =>
      /\ reader.serverEof /\ reader.buffered = <<>>
      /\ down = <<>> /\ ~srv.outOpen /\ Len(got) = srv.sent

DownInv == WireTypes /\ Turn /\ InOrder /\ ReplyDue /\ BodyDue /\ Ended

\* Our zero record of this session has been written.
ZeroWritten ==
    IF place \in {"finish", "pooled"} THEN zeroSent = TRUE ELSE upPc = "eof"

\* The order of two records, one right after the other, on the way up.
UpChain(u) ==
    \A k \in 1..Len(u) - 1 :
      IF u[k].kind = "zero"
      THEN u[k+1].kind = "connect" /\ u[k+1].s = u[k].s + 1
      ELSE u[k+1].kind # "connect" /\ u[k+1].s = u[k].s

\* The first record is one the server expects.
UpFirst(u) ==
    u # <<>> =>
      IF srv.inOpen = TRUE
      THEN u[1].kind # "connect" /\ u[1].s = srv.s
      ELSE u[1].kind = "connect" /\ u[1].s = srv.s + 1

\* The last record is the one written last.
UpLast(u) ==
    IF u = <<>>
    THEN srv.s = session /\ (ZeroWritten <=> srv.inOpen = FALSE)
    ELSE u[Len(u)].s = session /\ (ZeroWritten <=> u[Len(u)].kind = "zero")

\* At most one CONNECT is on its way, and it is this session's.
OneConnect(u) ==
    \A k \in 1..Len(u) : u[k].kind = "connect" =>
      /\ u[k].s = session /\ srv.s = session - 1
      /\ \A j \in 1..Len(u) : u[j].kind = "connect" => j = k

UpOrder(u) == UpChain(u) /\ UpFirst(u) /\ UpLast(u) /\ OneConnect(u)

UpInv == (~lost => UpOrder(up)) /\ srv.confused = FALSE

\* How far the relay has come.
Stage ==
    /\ place = "lead" => upPc = "write" /\ downPc = "begin" /\ drive = "both"
    /\ place \in {"finish", "pooled"} => downPc = "ok" /\ torn = FALSE
    /\ place = "pooled" => zeroSent = TRUE
    /\ drive = "stopping" => downPc = "ok"
    /\ drive = "upDone" => upPc = IF mode = "tunnel" THEN "eof" ELSE "done"
    /\ upPc \in {"closing", "eof"} => mode = "tunnel"
    /\ upPc = "done" => mode = "request"
    /\ torn = TRUE => place = "gone" \/ upPc = "failed"
    /\ place = "gone" => lost

SessInv == PcTypes /\ Stage /\ DownInv /\ UpInv

-----------------------------------------------------------------------------
(* Sequences *)

\* The elements of a sequence with one more at its end.
LEMMA AppendElements ==
    ASSUME NEW S, NEW q \in Seq(S), NEW e \in S
    PROVE  /\ Append(q, e) \in Seq(S) /\ Append(q, e) # <<>>
           /\ Len(Append(q, e)) = Len(q) + 1
           /\ \A k \in 1..Len(q) : Append(q, e)[k] = q[k]
           /\ Append(q, e)[Len(q) + 1] = e
  BY AppendProperties

\* The elements of a sequence without its first.
LEMMA TailElements ==
    ASSUME NEW S, NEW q \in Seq(S), q # <<>>
    PROVE  /\ Head(q) = q[1] /\ q[1] \in S /\ Len(q) \in Nat /\ Len(q) >= 1
           /\ Tail(q) \in Seq(S)
           /\ Len(Tail(q)) = Len(q) - 1
           /\ \A k \in 1..Len(q) - 1 : Tail(q)[k] = q[k + 1]
  BY HeadTailProperties, EmptySeq, ElementOfSeq, LenProperties

\* The empty sequence is the one of length zero.
LEMMA NoElements ==
    ASSUME NEW S, NEW q \in Seq(S)
    PROVE  Len(q) \in Nat /\ (q = <<>> <=> Len(q) = 0)
  BY EmptySeq, LenProperties

\* A prefix has the elements of the sequence.
LEMMA PrefixElements ==
    ASSUME NEW S, NEW q \in Seq(S), NEW n \in 0..Len(q)
    PROVE  /\ SubSeq(q, 1, n) \in Seq(S) /\ Len(SubSeq(q, 1, n)) = n
           /\ \A k \in 1..n : SubSeq(q, 1, n)[k] = q[k]
  BY SubSeqProperties, LenProperties

\* Data that follows data in order is in order.
LEMMA NumberedConcat ==
    ASSUME NEW S, NEW p \in Seq(S), NEW q \in Seq(S), NEW s, NEW n \in Nat,
           Numbered(p, s, n), Numbered(q, s, n + Len(p))
    PROVE  /\ Numbered(p \o q, s, n)
           /\ p \o q \in Seq(S) /\ Len(p \o q) = Len(p) + Len(q)
<1>1. /\ p \o q \in Seq(S) /\ Len(p \o q) = Len(p) + Len(q)
      /\ Len(p) \in Nat /\ Len(q) \in Nat
      /\ \A j \in 1..Len(p) + Len(q) :
           (p \o q)[j] = IF j <= Len(p) THEN p[j] ELSE q[j - Len(p)]
  BY ConcatProperties, LenProperties
<1>2. ASSUME NEW j \in 1..Len(p \o q)
      PROVE  (p \o q)[j] = DataItem(s, n + j)
  <2>1. CASE j <= Len(p)
    BY <1>1, <2>1 DEF Numbered
  <2>2. CASE j > Len(p)
    <3>1. j - Len(p) \in 1..Len(q) /\ (n + Len(p)) + (j - Len(p)) = n + j
      BY <1>1, <2>2
    <3>2. q[j - Len(p)] = DataItem(s, (n + Len(p)) + (j - Len(p)))
      BY <3>1 DEF Numbered
    <3> QED
      BY <1>1, <2>2, <3>1, <3>2
  <2> QED
    BY <2>1, <2>2, <1>1
<1> QED
  BY <1>1, <1>2 DEF Numbered

\* A record added to a stream that has not ended continues it.
LEMMA StreamAppend ==
    ASSUME NEW S, NEW d \in Seq(S), NEW r \in S, NEW s, NEW b \in Int,
           NEW n \in Nat \ {0}, n <= Len(d) + 1, Stream(d, s, b, n), ~EndsInZero(d),
           r = Zero \/ r = <<DataItem(s, b + Len(d) + 1)>>
    PROVE  /\ Stream(Append(d, r), s, b, n)
           /\ EndsInZero(Append(d, r)) <=> r = Zero
<1> DEFINE e == Append(d, r)
<1>1. /\ e \in Seq(S) /\ e # <<>> /\ Len(e) = Len(d) + 1 /\ Len(d) \in Nat
      /\ e[Len(d) + 1] = r /\ \A k \in 1..Len(d) : e[k] = d[k]
  BY AppendElements, NoElements
<1> HIDE DEF e
<1>2. ASSUME NEW k \in n..Len(e)
      PROVE  e[k] = Zero \/ e[k] = <<DataItem(s, b + k)>>
  <2>1. CASE k = Len(d) + 1
    <3>1. e[k] = r
      BY <1>1, <2>1
    <3>2. b + k = b + Len(d) + 1
      BY <1>1, <2>1
    <3> QED
      BY <3>1, <3>2
  <2>2. CASE k <= Len(d)
    <3>1. k \in n..Len(d)
      BY <1>1, <2>2
    <3>2. e[k] = d[k]
      BY <1>1, <3>1
    <3> QED
      BY <3>1, <3>2 DEF Stream
  <2> QED
    BY <2>1, <2>2, <1>1
<1>3. ASSUME NEW k \in 1..Len(e), e[k] = Zero
      PROVE  k = Len(e)
  <2>1. CASE k <= Len(d)
    <3>1. k \in 1..Len(d) /\ d[k] = Zero
      BY <1>1, <1>3, <2>1
    <3>2. k = Len(d)
      BY <3>1 DEF Stream
    <3>3. d # <<>>
      BY <3>1, NoElements
    <3> QED
      BY <3>1, <3>2, <3>3 DEF EndsInZero
  <2> QED
    BY <2>1, <1>1
<1> QED
  BY <1>1, <1>2, <1>3 DEF Stream, EndsInZero, e

\* What is left of a stream when its first record has been taken.
LEMMA StreamTail ==
    ASSUME NEW S, NEW d \in Seq(S), d # <<>>, NEW s, NEW b \in Int,
           NEW n \in {1, 2}, Stream(d, s, b, n)
    PROVE  /\ Stream(Tail(d), s, b + 1, 1)
           /\ EndsInZero(Tail(d)) => EndsInZero(d)
<1> DEFINE e == Tail(d)
<1>1. /\ e \in Seq(S) /\ Len(d) \in Nat /\ Len(d) >= 1 /\ Len(e) = Len(d) - 1
      /\ \A k \in 1..Len(d) - 1 : e[k] = d[k + 1]
  BY TailElements
<1> HIDE DEF e
<1>2. ASSUME NEW k \in 1..Len(e)
      PROVE  /\ e[k] = Zero \/ e[k] = <<DataItem(s, b + 1 + k)>>
             /\ e[k] = Zero => k = Len(e)
  <2>1. k + 1 \in n..Len(d) /\ k + 1 \in 1..Len(d) /\ e[k] = d[k + 1]
    BY <1>1
  <2>2. /\ d[k + 1] = Zero \/ d[k + 1] = <<DataItem(s, b + (k + 1))>>
        /\ d[k + 1] = Zero => k + 1 = Len(d)
    BY <2>1 DEF Stream
  <2>3. b + (k + 1) = b + 1 + k
    OBVIOUS
  <2> QED
    BY <1>1, <2>1, <2>2, <2>3
<1>3. Stream(e, s, b + 1, 1)
  BY <1>2 DEF Stream
<1>4. ASSUME EndsInZero(e) PROVE EndsInZero(d)
  <2>1. Len(e) \in 1..Len(d) - 1
    BY <1>1, <1>4, NoElements DEF EndsInZero
  <2>2. d[Len(d)] = e[Len(e)]
    BY <1>1, <2>1
  <2> QED
    BY <2>2, <1>4 DEF EndsInZero
<1> QED
  BY <1>3, <1>4 DEF e

\* A stream that was cut short has no end unless nothing was cut off.
LEMMA StreamPrefix ==
    ASSUME NEW S, NEW d \in Seq(S), NEW m \in 0..Len(d), NEW s, NEW b \in Int,
           NEW n \in Nat \ {0}, Stream(d, s, b, n)
    PROVE  /\ Stream(SubSeq(d, 1, m), s, b, n)
           /\ EndsInZero(SubSeq(d, 1, m)) => m = Len(d) /\ EndsInZero(d)
<1> DEFINE e == SubSeq(d, 1, m)
<1>1. /\ e \in Seq(S) /\ Len(d) \in Nat /\ Len(e) = m
      /\ \A k \in 1..m : e[k] = d[k]
  BY PrefixElements, NoElements
<1>2. \A k \in 1..m : e[k] = Zero => k = Len(d)
  BY <1>1 DEF Stream
<1> HIDE DEF e
<1>3. \A k \in n..m : e[k] = Zero \/ e[k] = <<DataItem(s, b + k)>>
  <2> SUFFICES ASSUME NEW k \in n..m
               PROVE  e[k] = Zero \/ e[k] = <<DataItem(s, b + k)>>
    OBVIOUS
  <2>1. k \in 1..m /\ k \in n..Len(d)
    BY <1>1
  <2> QED
    BY <1>1, <2>1 DEF Stream
<1>4. Stream(e, s, b, n)
  <2>1. \A k \in 1..m : e[k] = Zero => k = m
    BY <1>1, <1>2
  <2> QED
    BY <1>1, <1>3, <2>1 DEF Stream
<1>5. ASSUME EndsInZero(e) PROVE m = Len(d) /\ EndsInZero(d)
  <2>1. m \in 1..m
    BY <1>1, <1>5, NoElements DEF EndsInZero
  <2>2. m = Len(d) /\ d[m] = Zero
    BY <1>1, <1>2, <1>5, <2>1 DEF EndsInZero
  <2>3. d # <<>>
    BY <2>1, <2>2, NoElements
  <2> QED
    BY <2>2, <2>3 DEF EndsInZero
<1> QED
  BY <1>4, <1>5 DEF e

-----------------------------------------------------------------------------
(* Steps that leave one direction alone *)

\* What the download knows is not touched by a step that changes neither the
\* reader, the records on the way down nor the server.
LEMMA DownFrame ==
    ASSUME DownInv, up' \in Seq(UpRecords), lost \in BOOLEAN, lost => lost',
           lost' \in BOOLEAN,
           UNCHANGED <<session, downPc, head, got, reader, down, srv>>
    PROVE  DownInv'
<1>1. WireTypes'
  BY DEF DownInv, WireTypes
<1>2. Turn' /\ InOrder' /\ Ended'
  BY DEF DownInv, Turn, InOrder, Ended, Awaiting, Reading
<1>3. ReplyDue'
  BY DEF DownInv, ReplyDue, OpensWith, Awaiting
<1>4. BodyDue'
  BY DEF DownInv, BodyDue, GoesOn, Reading, Have
<1> QED
  BY <1>1, <1>2, <1>3, <1>4 DEF DownInv

\* Nor is what the server is about to read, by a step that writes no record.
LEMMA UpFrame ==
    ASSUME UpInv,
           \/ lost'
           \/ /\ lost' = lost
              /\ UNCHANGED <<session, up>>
              /\ ZeroWritten' <=> ZeroWritten,
           UNCHANGED <<srv.s, srv.inOpen, srv.confused>>
    PROVE  UpInv'
  BY DEF UpInv, UpOrder, UpChain, UpFirst, UpLast, OneConnect

\* A record is written: one of this session, before its zero record, or the
\* next session's CONNECT after it.
LEMMA UpAppend ==
    ASSUME SessInv, ~lost, NEW r \in UpRecords, up' = Append(up, r),
           lost' = lost, srv' = srv,
           \/ /\ session' = session /\ r.s = session /\ r.kind # "connect"
              /\ ~ZeroWritten /\ (ZeroWritten' <=> r.kind = "zero")
           \/ /\ session' = session + 1 /\ r.s = session + 1
              /\ r.kind = "connect" /\ srv.s = session
              /\ ZeroWritten /\ ~ZeroWritten'
    PROVE  UpInv' /\ up' \in Seq(UpRecords)
<1> DEFINE e == Append(up, r)
<1>1. /\ e \in Seq(UpRecords) /\ e # <<>> /\ Len(e) = Len(up) + 1
      /\ Len(up) \in Nat /\ (up = <<>> <=> Len(up) = 0)
      /\ e[Len(up) + 1] = r /\ \A k \in 1..Len(up) : e[k] = up[k]
  <2>1. up \in Seq(UpRecords)
    BY DEF SessInv, DownInv, WireTypes
  <2> QED
    BY <2>1, AppendElements, NoElements
<1>2. UpOrder(up) /\ srv.confused = FALSE
  BY DEF SessInv, UpInv
<1> HIDE DEF e
<1>3. session \in Nat /\ srv.s \in Nat /\ srv.inOpen \in BOOLEAN
  BY DEF SessInv, DownInv, WireTypes
<1>4. UpChain(e)
  <2> SUFFICES ASSUME NEW k \in 1..Len(e) - 1
               PROVE  IF e[k].kind = "zero"
                      THEN e[k+1].kind = "connect" /\ e[k+1].s = e[k].s + 1
                      ELSE e[k+1].kind # "connect" /\ e[k+1].s = e[k].s
    BY DEF UpChain
  <2>1. CASE k = Len(up)
    <3>1. e[k] = up[Len(up)] /\ e[k+1] = r /\ up # <<>>
      BY <1>1, <2>1
    <3> QED
      BY <1>2, <3>1 DEF UpOrder, UpLast
  <2>2. CASE k < Len(up)
    <3>1. e[k] = up[k] /\ e[k+1] = up[k+1] /\ k \in 1..Len(up) - 1
      BY <1>1, <2>2
    <3> QED
      BY <1>2, <3>1 DEF UpOrder, UpChain
  <2> QED
    BY <2>1, <2>2, <1>1
<1>5. UpFirst(e)
  <2>1. CASE up = <<>>
    <3>1. e[1] = r
      BY <1>1, <2>1
    <3> QED
      BY <1>2, <1>3, <2>1, <3>1 DEF UpOrder, UpLast, UpFirst
  <2>2. CASE up # <<>>
    <3>1. e[1] = up[1]
      BY <1>1, <2>2
    <3> QED
      BY <1>2, <2>2, <3>1 DEF UpOrder, UpFirst
  <2> QED
    BY <2>1, <2>2
<1>6. e[Len(e)] = r
  BY <1>1
<1>7. ASSUME NEW k \in 1..Len(e), e[k].kind = "connect"
      PROVE  /\ e[k].s = session' /\ srv.s = session' - 1
             /\ \A j \in 1..Len(e) : e[j].kind = "connect" => j = k
  <2>1. CASE r.kind = "connect"
    <3>1. \A j \in 1..Len(up) : up[j].kind # "connect"
      BY <1>2, <1>3, <2>1 DEF UpOrder, OneConnect
    <3>2. \A j \in 1..Len(e) : e[j].kind = "connect" => j = Len(e)
      BY <1>1, <3>1
    <3>3. k = Len(e) /\ e[k] = r
      BY <1>6, <1>7, <3>2
    <3>4. r.s = session' /\ srv.s = session' - 1
      BY <1>3, <2>1
    <3> QED
      BY <3>2, <3>3, <3>4
  <2>2. CASE r.kind # "connect"
    <3>1. \A j \in 1..Len(e) : e[j].kind = "connect" =>
            j \in 1..Len(up) /\ e[j] = up[j]
      BY <1>1, <2>2
    <3> QED
      BY <1>2, <1>7, <2>2, <3>1 DEF UpOrder, OneConnect
  <2> QED
    BY <2>1, <2>2
<1>8. up' = e
  BY DEF e
<1>9. UpOrder(up)'
  <2>1. UpChain(up)' /\ UpFirst(up)'
    BY <1>4, <1>5, <1>8 DEF UpChain, UpFirst
  <2>2. UpLast(up)'
    BY <1>1, <1>6, <1>8 DEF UpLast
  <2>3. OneConnect(up)'
    BY <1>7, <1>8 DEF OneConnect
  <2> QED
    BY <2>1, <2>2, <2>3 DEF UpOrder
<1> QED
  BY <1>1, <1>2, <1>8, <1>9 DEF UpInv

-----------------------------------------------------------------------------
(* The upload, and how a relay ends *)

\* Steps that move only the relay along, or drop the connection.
LEMMA QuietInv ==
    ASSUME SessInv,
           \/ UploadRead \/ UploadEof \/ UploadStopped \/ UploadBodyDone
           \/ UploadFails \/ UploadFirst \/ DownloadSecond \/ DownloadFirst
           \/ UploadSecond \/ StopTimeout \/ IdleTimeout \/ LeadFails \/ Retired
    PROVE  SessInv'
<1>1. /\ UNCHANGED <<session, downPc, head, got, reader, up, down, srv>>
      /\ lost \in BOOLEAN /\ lost' \in BOOLEAN /\ (lost => lost')
  BY DEF SessInv, PcTypes, UploadRead, UploadEof, UploadStopped,
         UploadBodyDone, UploadFails, UploadFirst, DownloadSecond,
         DownloadFirst, UploadSecond, StopTimeout, IdleTimeout, LeadFails,
         Retired, End, Retire, relayVars, wireVars
<1>2. PcTypes'
  BY DEF SessInv, PcTypes, UploadRead, UploadEof, UploadStopped,
         UploadBodyDone, UploadFails, UploadFirst, DownloadSecond,
         DownloadFirst, UploadSecond, StopTimeout, IdleTimeout, LeadFails,
         Retired, End, Retire, relayVars, wireVars, Places, UploadPcs
<1>3. Stage'
  BY DEF SessInv, PcTypes, Stage, UploadRead, UploadEof, UploadStopped,
         UploadBodyDone, UploadFails, UploadFirst, DownloadSecond,
         DownloadFirst, UploadSecond, StopTimeout, IdleTimeout, LeadFails,
         Retired, End, Retire, relayVars, wireVars, Abandons
<1>4. lost' \/ (lost' = lost /\ (ZeroWritten' <=> ZeroWritten))
  BY DEF SessInv, PcTypes, Stage, UploadRead, UploadEof, UploadStopped,
         UploadBodyDone, UploadFails, UploadFirst, DownloadSecond,
         DownloadFirst, UploadSecond, StopTimeout, IdleTimeout, LeadFails,
         Retired, End, Retire, relayVars, wireVars, ZeroWritten
<1>5. DownInv'
  <2>1. up' \in Seq(UpRecords)
    BY <1>1 DEF SessInv, DownInv, WireTypes
  <2> QED
    BY <1>1, <2>1, DownFrame DEF SessInv
<1>6. UpInv'
  BY <1>1, <1>4, UpFrame DEF SessInv
<1> QED
  BY <1>2, <1>3, <1>5, <1>6 DEF SessInv

\* Steps that write a record of the session.
LEMMA WrittenInv ==
    ASSUME SessInv,
           LeadWritten \/ UploadWritten \/ UploadClosed \/ FinishZero
    PROVE  SessInv'
<1> DEFINE kind == IF LeadWritten \/ UploadWritten THEN "data" ELSE "zero"
           r == [kind |-> kind, s |-> session]
<1>1. /\ UNCHANGED <<session, downPc, head, got, reader, down, srv, lost>>
      /\ ~lost /\ lost \in BOOLEAN
  BY DEF SessInv, PcTypes, LeadWritten, UploadWritten, UploadClosed,
         FinishZero
<1>2. up' = Append(up, r)
  BY DEF LeadWritten, UploadWritten, UploadClosed, FinishZero
<1>3. r \in UpRecords /\ r.s = session /\ r.kind = kind
  BY DEF SessInv, DownInv, WireTypes, UpRecords
<1>4. PcTypes' /\ Stage'
  BY DEF SessInv, PcTypes, Stage, LeadWritten, UploadWritten, UploadClosed,
         FinishZero, Places, UploadPcs
<1>5. ~ZeroWritten /\ (ZeroWritten' <=> kind = "zero")
  BY DEF SessInv, PcTypes, Stage, LeadWritten, UploadWritten, UploadClosed,
         FinishZero, Places, ZeroWritten
<1>6. kind # "connect"
  OBVIOUS
<1> HIDE DEF r, kind
<1>7. UpInv' /\ up' \in Seq(UpRecords)
  BY <1>1, <1>2, <1>3, <1>5, <1>6, UpAppend
<1>8. DownInv'
  BY <1>1, <1>7, DownFrame DEF SessInv
<1> QED
  BY <1>4, <1>7, <1>8 DEF SessInv

\* The connection is pooled: there was nothing left to drop.
LEMMA FinishedInv ==
    ASSUME SessInv, Finished
    PROVE  SessInv'
<1>1. /\ UNCHANGED <<session, relayVars, wireVars, srv>>
      /\ place = "finish" /\ place' = "pooled" /\ zeroSent
  BY DEF Finished
<1>2. reader' = reader
  <2>1. reader.buffered = <<>>
    BY <1>1 DEF SessInv, Stage, DownInv, Ended
  <2> QED
    BY <2>1 DEF SessInv, DownInv, WireTypes, Finished
<1>3. PcTypes' /\ Stage'
  BY <1>1 DEF SessInv, PcTypes, Stage, Places, relayVars, wireVars
<1>4. DownInv'
  <2>1. up' \in Seq(UpRecords)
    BY <1>1 DEF SessInv, DownInv, WireTypes, wireVars
  <2> QED
    BY <1>1, <1>2, <2>1, DownFrame DEF SessInv, PcTypes, relayVars, wireVars
<1>5. UpInv'
  <2>1. ZeroWritten' <=> ZeroWritten
    BY <1>1 DEF ZeroWritten, relayVars
  <2> QED
    BY <1>1, <2>1, UpFrame DEF SessInv, wireVars
<1> QED
  BY <1>3, <1>4, <1>5 DEF SessInv

\* The next session begins on a connection that is quiet in both directions.
LEMMA StartReuseInv ==
    ASSUME SessInv, NEW m \in {"tunnel", "request"}, NEW leads \in BOOLEAN,
           StartReuse(m, leads)
    PROVE  SessInv'
<1> USE DEF StartReuse, SessionStarts
<1> DEFINE r == [kind |-> "connect", s |-> session + 1]
<1>1. session \in Nat /\ srv.s = session /\ ~srv.outOpen /\ downPc = "ok"
  BY DEF SessInv, Stage, DownInv, WireTypes, Turn, Ended
<1>2. r \in UpRecords /\ r.s = session + 1 /\ r.kind = "connect"
  BY <1>1 DEF UpRecords
<1>3. ZeroWritten /\ ~ZeroWritten'
  BY DEF SessInv, Stage, ZeroWritten
<1>4. UpInv' /\ up' \in Seq(UpRecords)
  <2>1. up' = Append(up, r) /\ session' = session + 1 /\ lost' = lost /\ ~lost
        /\ srv' = srv
    OBVIOUS
  <2> HIDE DEF r, StartReuse, SessionStarts
  <2> QED
    BY <1>1, <1>2, <1>3, <2>1, UpAppend
<1>5. PcTypes'
  BY DEF SessInv, PcTypes, Places, UploadPcs, DownloadPcs
<1>6. Stage'
  BY DEF SessInv, PcTypes, Stage
<1>7. WireTypes'
  <2>1. FreshReader \in [buffered : Seq(ItemSet), serverEof : BOOLEAN,
                         replyPending : BOOLEAN, replyError : BOOLEAN]
    BY EmptySeq DEF FreshReader
  <2>2. <<>> \in Seq(ItemSet)
    BY EmptySeq
  <2> QED
    BY <1>1, <1>4, <2>1, <2>2 DEF SessInv, DownInv, WireTypes
<1>8. Turn' /\ Ended' /\ BodyDue'
  BY <1>1 DEF Turn, Ended, BodyDue, Awaiting, Reading
<1>9. InOrder'
  BY EmptySeq DEF InOrder, Numbered, Awaiting, Reading, FreshReader
<1>10. ReplyDue'
  BY <1>1 DEF ReplyDue, Awaiting
<1> QED
  BY <1>4, <1>5, <1>6, <1>7, <1>8, <1>9, <1>10 DEF SessInv, DownInv

-----------------------------------------------------------------------------
(* The download *)

\* What has been read can be counted.
LEMMA HaveNat ==
    ASSUME DownInv
    PROVE  Have \in Nat
<1>1. /\ got \in Seq(ItemSet) /\ head \in Seq(ItemSet)
      /\ reader.buffered \in Seq(ItemSet)
  BY DEF DownInv, WireTypes
<1>2. Len(got) \in Nat /\ Len(head) \in Nat /\ Len(reader.buffered) \in Nat
  BY <1>1, NoElements
<1>3. \A a, b, c \in Nat : a + b + c \in Nat
  OBVIOUS
<1> QED
  BY Zenon, <1>2, <1>3 DEF Have

\* A step of the download writes nothing to the server.
LEMMA DownloadFrame ==
    ASSUME SessInv, place = "relay", DownInv', downPc' \in DownloadPcs,
           downPc = "ok" => downPc' = "ok",
           UNCHANGED <<place, session, mode, upPc, drive, zeroSent, up, torn,
                       lost, srv>>
    PROVE  SessInv'
<1>1. PcTypes' /\ Stage'
  BY DEF SessInv, PcTypes, Stage
<1>2. UpInv'
  BY UpFrame DEF SessInv, ZeroWritten
<1> QED
  BY <1>1, <1>2 DEF SessInv

\* A download that failed has delivered what it had delivered.
LEMMA FailedFrame ==
    ASSUME DownInv, WireTypes', downPc' = "failed", got' = got,
           UNCHANGED <<session, srv>>
    PROVE  DownInv'
  BY DEF DownInv, Turn, InOrder, ReplyDue, BodyDue, Ended, Awaiting, Reading

\* The download starts with a fresh reader and waits for the status.
LEMMA DownloadBeginsInv ==
    ASSUME SessInv, DownloadBegins
    PROVE  SessInv'
<1>1. /\ place = "relay" /\ downPc = "begin"
      /\ UNCHANGED <<place, session, mode, upPc, wrote, drive, zeroSent, head,
                     got, up, down, torn, lost, srv>>
  BY DEF DownloadBegins, wireVars
<1>2. reader = FreshReader
  BY <1>1 DEF SessInv, DownInv, InOrder
<1>3. downPc' = "reply" /\ reader' = [reader EXCEPT !.replyPending = FALSE]
  BY <1>2 DEF DownloadBegins, FreshReader
<1>4. WireTypes' /\ reader'.buffered = reader.buffered
  BY <1>1, <1>3 DEF SessInv, DownInv, WireTypes
<1>5. Turn' /\ InOrder' /\ Ended' /\ BodyDue'
  BY <1>1, <1>3, <1>4 DEF SessInv, DownInv, Turn, InOrder, Ended, BodyDue,
                          Awaiting, Reading
<1>6. ReplyDue'
  BY <1>1, <1>3 DEF SessInv, DownInv, ReplyDue, OpensWith, Awaiting
<1>7. DownInv'
  BY <1>4, <1>5, <1>6 DEF DownInv
<1> QED
  BY <1>1, <1>3, <1>7, DownloadFrame DEF DownloadPcs

\* The status is read: what shared its record is kept.
LEMMA DownloadReplyInv ==
    ASSUME SessInv, DownloadReply
    PROVE  SessInv'
<1> DEFINE r == down[1]
<1>1. /\ place = "relay" /\ downPc = "reply" /\ down # <<>>
      /\ reader' = ReplyRead(reader, Head(down)) /\ down' = Tail(down)
      /\ downPc' = IF reader'.replyError THEN "failed" ELSE AfterReply
      /\ UNCHANGED <<place, session, mode, upPc, wrote, drive, zeroSent, head,
                     got, up, torn, lost, srv>>
  BY DEF DownloadReply
<1>2. /\ down \in Seq(Seq(ItemSet)) /\ session \in Nat /\ srv.sent \in Nat
      /\ reader \in [buffered : Seq(ItemSet), serverEof : BOOLEAN,
                     replyPending : BOOLEAN, replyError : BOOLEAN]
  BY DEF SessInv, DownInv, WireTypes
<1>3. /\ Head(down) = r /\ r \in Seq(ItemSet) /\ Len(r) \in Nat
      /\ Len(down) \in Nat /\ Len(down) >= 1
      /\ down' \in Seq(Seq(ItemSet)) /\ Len(down') = Len(down) - 1
  BY <1>1, <1>2, TailElements, NoElements
<1>4. OpensWith(down)
  BY <1>1 DEF SessInv, DownInv, ReplyDue, Awaiting
<1> HIDE DEF r
<1>5. Opening(r, session)
  BY <1>4 DEF OpensWith, r
<1>6. r # Zero => Tail(r) \in Seq(ItemSet) /\ Len(Tail(r)) = Len(r) - 1
  BY <1>3, TailElements DEF Zero
<1>7. reader' = ReplyRead(reader, r)
  BY <1>1, <1>3
<1>8. WireTypes'
  <2>1. reader' \in [buffered : Seq(ItemSet), serverEof : BOOLEAN,
                     replyPending : BOOLEAN, replyError : BOOLEAN]
    BY <1>2, <1>6, <1>7 DEF ReplyRead
  <2> QED
    BY <1>1, <1>3, <2>1 DEF SessInv, DownInv, WireTypes
<1>9. CASE downPc' = "failed"
  <2>1. DownInv'
    BY <1>1, <1>8, <1>9, FailedFrame DEF SessInv
  <2> QED
    BY <1>1, <1>9, <2>1, DownloadFrame DEF DownloadPcs
<1>10. CASE downPc' # "failed"
  <2>1. ~reader'.replyError /\ downPc' = AfterReply /\ downPc' \in {"head", "data"}
    BY <1>1, <1>10 DEF AfterReply
  <2>2. r # Zero /\ r[1].kind = "ok" /\ reader' = [reader EXCEPT !.buffered = Tail(r)]
    BY <1>2, <1>7, <2>1 DEF ReplyRead
  <2>3. reader'.buffered = Tail(r)
    BY <1>2, <2>2
  <2>4. \/ r = <<Status("ok", session)>>
        \/ r = <<Status("ok", session), DataItem(session, 1)>>
    BY <1>5, <2>2 DEF Opening, Status
  <2>5. Numbered(Tail(r), session, 0)
    BY <2>4 DEF Numbered
  <2>6. got = <<>> /\ head = <<>> /\ Len(got) = 0 /\ Len(head) = 0
    BY <1>1 DEF SessInv, DownInv, InOrder, Awaiting
  <2>7. Have' = Len(r) - 1
    BY <1>1, <1>3, <1>6, <2>2, <2>3, <2>6 DEF Have
  <2>8. srv.s = session /\ srv.s' = session'
    BY <1>1 DEF SessInv, DownInv, Turn, Awaiting
  <2>9. Turn' /\ Ended' /\ ReplyDue'
    BY <1>1, <2>1, <2>8 DEF SessInv, DownInv, Turn, Ended, ReplyDue, Awaiting, Reading
  <2>10. InOrder'
    <3>1. Numbered(got, session, 0)' /\ Numbered(head, session, Len(got))'
      <4>1. Len(got') = 0 /\ Len(head') = 0
        BY <1>1, <2>6
      <4> QED
        BY <4>1 DEF Numbered
    <3>2. Numbered(reader.buffered, session, Len(got) + Len(head))'
      <4>1. Len(got') + Len(head') = 0
        BY <1>1, <2>6
      <4> QED
        BY <1>1, <2>3, <2>5, <4>1
    <3> QED
      BY <1>1, <2>1, <2>6, <3>1, <3>2 DEF InOrder, Awaiting, Reading
  <2>11. BodyDue'
    <3>1. Stream(down, session, Len(r) - 2, 2)
      BY <1>4 DEF OpensWith, r
    <3>2. /\ Stream(Tail(down), session, Len(r) - 2 + 1, 1)
          /\ EndsInZero(Tail(down)) => EndsInZero(down)
      BY <1>1, <1>2, <1>3, <3>1, StreamTail
    <3>3. Len(r) - 2 + 1 = Len(r) - 1
      BY <1>3
    <3>4. EndsInZero(down') => ~srv.outOpen /\ srv.sent = Len(r) - 1 + Len(down') - 1
      <4> SUFFICES ASSUME EndsInZero(down')
                   PROVE  ~srv.outOpen /\ srv.sent = Len(r) - 1 + Len(down') - 1
        OBVIOUS
      <4>1. Len(down) > 1
        BY <1>1, <1>3, NoElements DEF EndsInZero
      <4>2. ~srv.outOpen /\ srv.sent = Len(r) + Len(down) - 3
        BY <1>1, <1>4, <3>2, <4>1 DEF OpensWith, r
      <4> QED
        BY <1>3, <4>2
    <3>5. srv.outOpen /\ ~lost => srv.replied /\ srv.sent = Len(r) - 1 + Len(down')
      <4>1. srv.outOpen /\ ~lost => srv.replied /\ srv.sent = Len(r) + Len(down) - 2
        BY <1>4 DEF OpensWith, r
      <4> QED
        BY <1>3, <4>1
    <3>6. GoesOn(down, Have)'
      BY <1>1, <2>7, <3>2, <3>3, <3>4, <3>5 DEF GoesOn
    <3> QED
      BY <3>6 DEF BodyDue
  <2>12. DownInv'
    BY <1>8, <2>9, <2>10, <2>11 DEF DownInv
  <2> QED
    BY <1>1, <2>1, <2>12, DownloadFrame DEF DownloadPcs
<1> QED
  BY <1>9, <1>10

\* A chunk that is not empty is the data that comes next, and what is left on
\* the wire continues it.
LEMMA ChunkStep ==
    ASSUME DownInv, Reading, ChunkReady, ChunkTaken
    PROVE  /\ Chunk \in Seq(ItemSet)
           /\ down' \in Seq(Seq(ItemSet))
           /\ reader' \in [buffered : Seq(ItemSet), serverEof : BOOLEAN,
                           replyPending : BOOLEAN, replyError : BOOLEAN]
           /\ reader'.buffered = <<>>
           /\ Chunk = Zero => /\ reader'.serverEof
                              /\ EndsInZero(down) /\ down' = <<>>
                              /\ reader.buffered = <<>> /\ Len(down) = 1
           /\ Chunk # Zero =>
                /\ Numbered(Chunk, session, Len(got) + Len(head))
                /\ GoesOn(down', Len(got) + Len(head) + Len(Chunk))
<1> DEFINE n == Len(got) + Len(head)
<1>1. /\ down \in Seq(Seq(ItemSet)) /\ got \in Seq(ItemSet) /\ head \in Seq(ItemSet)
      /\ reader \in [buffered : Seq(ItemSet), serverEof : BOOLEAN,
                     replyPending : BOOLEAN, replyError : BOOLEAN]
      /\ srv.sent \in Nat
  BY DEF DownInv, WireTypes
<1>2. n \in Nat /\ Len(reader.buffered) \in Nat /\ Len(down) \in Nat
  BY <1>1, NoElements
<1>3. /\ Numbered(reader.buffered, session, n)
      /\ GoesOn(down, n + Len(reader.buffered))
  BY DEF DownInv, InOrder, BodyDue, Have
<1>4. /\ reader' = [reader EXCEPT !.buffered = <<>>,
                                  !.serverEof = @ \/ Chunk = Zero]
      /\ down' = IF reader.buffered # <<>> THEN down ELSE Tail(down)
  BY DEF ChunkTaken
<1>5. /\ reader' \in [buffered : Seq(ItemSet), serverEof : BOOLEAN,
                      replyPending : BOOLEAN, replyError : BOOLEAN]
      /\ reader'.buffered = <<>>
      /\ Chunk = Zero => reader'.serverEof
  <2>1. (reader.serverEof \/ Chunk = Zero) \in BOOLEAN /\ <<>> \in Seq(ItemSet)
    BY EmptySeq
  <2> QED
    BY <1>1, <1>4, <2>1
<1> HIDE DEF n
<1>6. CASE reader.buffered # <<>>
  <2>1. Chunk = reader.buffered /\ down' = down
    BY <1>4, <1>6 DEF Chunk
  <2> QED
    BY <1>1, <1>3, <1>5, <1>6, <2>1 DEF Zero, n
<1>7. CASE reader.buffered = <<>>
  <2>1. down # <<>> /\ Chunk = Head(down) /\ down' = Tail(down)
    BY <1>4, <1>7 DEF Chunk, ChunkReady
  <2>2. /\ Chunk = down[1] /\ Chunk \in Seq(ItemSet)
        /\ down' \in Seq(Seq(ItemSet)) /\ Len(down') = Len(down) - 1 /\ Len(down) >= 1
    BY <1>1, <2>1, TailElements
  <2>3. Len(reader.buffered) = 0 /\ n + Len(reader.buffered) = n /\ GoesOn(down, n)
    BY <1>1, <1>2, <1>3, <1>7, NoElements
  <2>4. Stream(down, session, n, 1)
    BY <2>3 DEF GoesOn
  <2>5. CASE Chunk = Zero
    <3>1. Len(down) = 1
      <4>1. 1 \in 1..Len(down) /\ down[1] = Zero
        BY <1>2, <2>2, <2>5
      <4> QED
        BY <2>4, <4>1 DEF Stream
    <3>2. EndsInZero(down)
      BY <2>1, <2>2, <2>5, <3>1 DEF EndsInZero
    <3>3. down' = <<>>
      BY <2>2, <3>1, NoElements
    <3> QED
      BY <1>5, <1>7, <2>2, <2>5, <3>1, <3>2, <3>3
  <2>6. CASE Chunk # Zero
    <3>1. Chunk = <<DataItem(session, n + 1)>>
      BY <1>2, <2>2, <2>4, <2>6 DEF Stream
    <3>2. Numbered(Chunk, session, n) /\ Len(Chunk) = 1
      BY <3>1 DEF Numbered
    <3>3. Stream(down', session, n + 1, 1) /\ (EndsInZero(down') => EndsInZero(down))
      BY <1>1, <1>2, <2>1, <2>4, StreamTail
    <3>4. EndsInZero(down') => ~srv.outOpen /\ srv.sent = n + 1 + Len(down') - 1
      BY <1>1, <1>2, <2>2, <2>3, <3>3 DEF GoesOn
    <3>5. srv.outOpen /\ ~lost => srv.replied /\ srv.sent = n + 1 + Len(down')
      BY <1>1, <1>2, <2>2, <2>3 DEF GoesOn
    <3>6. GoesOn(down', n + 1)
      BY <3>3, <3>4, <3>5 DEF GoesOn
    <3>7. Len(got) + Len(head) = n /\ n + Len(Chunk) = n + 1
      BY <3>2 DEF n
    <3> QED
      BY <1>5, <2>2, <2>6, <3>2, <3>6, <3>7
  <2> QED
    BY <2>5, <2>6
<1> QED
  BY <1>6, <1>7

\* A chunk of data is delivered, or kept until the response head is complete.
LEMMA DownloadDataInv ==
    ASSUME SessInv, DownloadHead \/ DownloadData
    PROVE  SessInv'
<1>1. /\ place = "relay" /\ Reading /\ ChunkReady /\ Chunk # Zero
      /\ ChunkTaken /\ downPc' \in {"head", "data"}
      /\ UNCHANGED <<place, session, mode, upPc, wrote, drive, zeroSent, up,
                     torn, lost, srv>>
  BY DEF DownloadHead, DownloadData, Reading
<1>2. /\ Chunk \in Seq(ItemSet)
      /\ down' \in Seq(Seq(ItemSet))
      /\ reader' \in [buffered : Seq(ItemSet), serverEof : BOOLEAN,
                      replyPending : BOOLEAN, replyError : BOOLEAN]
      /\ reader'.buffered = <<>>
      /\ Numbered(Chunk, session, Len(got) + Len(head))
      /\ GoesOn(down', Len(got) + Len(head) + Len(Chunk))
  BY <1>1, ChunkStep DEF SessInv
<1>3. /\ got \in Seq(ItemSet) /\ head \in Seq(ItemSet)
      /\ Numbered(got, session, 0) /\ Numbered(head, session, Len(got))
      /\ downPc = "data" => head = <<>>
  BY <1>1 DEF SessInv, DownInv, WireTypes, InOrder
<1> DEFINE c == Chunk
<1> HIDE DEF c
<1>4. /\ Len(got) \in Nat /\ Len(head) \in Nat /\ Len(c) \in Nat
      /\ c \in Seq(ItemSet) /\ Numbered(c, session, Len(got) + Len(head))
  BY <1>2, <1>3, NoElements DEF c
<1>5. \/ head' = head \o c /\ got' = got /\ downPc' = downPc /\ downPc = "head"
      \/ got' = got \o head \o c /\ head' = <<>>
      \/ got' = got \o c /\ head' = head /\ downPc = "data" /\ downPc' = "data"
  BY DEF DownloadHead, DownloadData, c
<1>6. /\ Numbered(head \o c, session, Len(got)) /\ head \o c \in Seq(ItemSet)
      /\ Len(head \o c) = Len(head) + Len(c)
  BY <1>3, <1>4, NumberedConcat
<1>7. /\ Numbered(got \o head, session, 0) /\ got \o head \in Seq(ItemSet)
      /\ Len(got \o head) = Len(got) + Len(head)
  <2>1. 0 + Len(got) = Len(got)
    BY <1>4
  <2> QED
    BY <1>3, <2>1, NumberedConcat
<1>8. /\ Numbered(got \o head \o c, session, 0) /\ got \o head \o c \in Seq(ItemSet)
      /\ Len(got \o head \o c) = Len(got) + Len(head) + Len(c)
  <2> DEFINE gh == got \o head
  <2>1. /\ gh \in Seq(ItemSet) /\ Numbered(gh, session, 0)
        /\ Len(gh) = Len(got) + Len(head)
    BY <1>7
  <2> HIDE DEF gh
  <2>2. 0 + Len(gh) = Len(got) + Len(head)
    BY <1>4, <2>1
  <2>3. Numbered(c, session, 0 + Len(gh))
    BY <1>4, <2>2
  <2>4. /\ Numbered(gh \o c, session, 0) /\ gh \o c \in Seq(ItemSet)
        /\ Len(gh \o c) = Len(gh) + Len(c)
    BY <1>4, <2>1, <2>3, NumberedConcat
  <2> QED
    BY <2>1, <2>4 DEF gh
<1>9. downPc = "data" => got \o c = got \o head \o c
  <2>1. downPc = "data" => got \o head = got
    BY <1>3, ConcatEmptySeq
  <2> QED
    BY <2>1
<1> DEFINE all == got \o head \o c
           longer == head \o c
<1>10. /\ got' \in Seq(ItemSet) /\ head' \in Seq(ItemSet)
       /\ Numbered(got', session, 0) /\ Numbered(head', session, Len(got'))
       /\ Len(got') + Len(head') = Len(got) + Len(head) + Len(c)
       /\ downPc' = "data" => head' = <<>>
  <2>1. CASE head' = longer /\ got' = got /\ downPc' = downPc /\ downPc = "head"
    <3>1. /\ Numbered(longer, session, Len(got)) /\ longer \in Seq(ItemSet)
          /\ Len(longer) = Len(head) + Len(c)
      BY <1>6
    <3> HIDE DEF longer
    <3> QED
      BY <1>3, <1>4, <2>1, <3>1
  <2>2. CASE got' = all /\ head' = <<>>
    <3>1. /\ <<>> \in Seq(ItemSet) /\ Len(<<>>) = 0
          /\ Numbered(<<>>, session, Len(all))
      BY EmptySeq DEF Numbered
    <3> HIDE DEF all
    <3>2. all \in Seq(ItemSet) /\ Numbered(all, session, 0)
          /\ Len(all) = Len(got) + Len(head) + Len(c)
      BY <1>8 DEF all
    <3> QED
      BY <1>4, <2>2, <3>1, <3>2
  <2>3. \/ head' = longer /\ got' = got /\ downPc' = downPc /\ downPc = "head"
        \/ got' = all /\ head' = <<>>
    BY <1>3, <1>5, <1>9
  <2> QED
    BY <2>1, <2>2, <2>3
<1> HIDE DEF all, longer
<1>11. WireTypes'
  BY <1>1, <1>2, <1>10 DEF SessInv, DownInv, WireTypes
<1>12. Turn' /\ Ended' /\ ReplyDue'
  BY <1>1 DEF SessInv, DownInv, Turn, Ended, ReplyDue, Awaiting, Reading
<1>13. InOrder'
  <2>1. Numbered(reader.buffered, session, Len(got) + Len(head))'
    <3>1. Len(reader'.buffered) = 0
      BY <1>2
    <3> QED
      BY <3>1 DEF Numbered
  <2>2. ~Awaiting' /\ downPc' # "begin"
    BY <1>1 DEF Awaiting
  <2> QED
    BY <1>1, <1>10, <2>1, <2>2 DEF InOrder
<1>14. BodyDue'
  <2>1. Have' = Len(got) + Len(head) + Len(c)
    <3>1. Len(reader'.buffered) = 0
      BY <1>2
    <3> QED
      BY <1>4, <1>10, <3>1 DEF Have
  <2> QED
    BY <1>1, <1>2, <2>1 DEF BodyDue, GoesOn, c
<1>15. DownInv'
  BY <1>11, <1>12, <1>13, <1>14 DEF DownInv
<1> QED
  BY <1>1, <1>15, DownloadFrame DEF DownloadPcs, Reading

\* The download fails: what was read goes with it.
LEMMA DownloadFailsInv ==
    ASSUME SessInv, DownloadHeadFails \/ DownloadFails
    PROVE  SessInv'
<1>1. /\ place = "relay" /\ downPc # "ok" /\ downPc' = "failed"
      /\ UNCHANGED <<place, session, mode, upPc, wrote, drive, zeroSent, head,
                     got, up, torn, lost, srv>>
  BY DEF DownloadHeadFails, DownloadFails, wireVars
<1>2. WireTypes'
  <2>1. CASE DownloadHeadFails
    <3>1. Reading /\ ChunkReady /\ ChunkTaken
      BY <2>1 DEF DownloadHeadFails, Reading
    <3> QED
      BY <1>1, <3>1, ChunkStep DEF SessInv, DownInv, WireTypes
  <2>2. CASE DownloadFails
    BY <1>1, <2>2 DEF SessInv, DownInv, WireTypes, DownloadFails, wireVars
  <2> QED
    BY <2>1, <2>2
<1>3. DownInv'
  BY <1>1, <1>2, FailedFrame DEF SessInv
<1> QED
  BY <1>1, <1>3, DownloadFrame DEF DownloadPcs

\* The server's zero record: all that it sent has been delivered.
LEMMA DownloadEofInv ==
    ASSUME SessInv, DownloadEof
    PROVE  SessInv'
<1>1. /\ place = "relay" /\ Reading /\ downPc = "data" /\ downPc' = "ok"
      /\ ChunkReady /\ Chunk = Zero /\ ChunkTaken
      /\ UNCHANGED <<place, session, mode, upPc, wrote, drive, zeroSent, head,
                     got, up, torn, lost, srv>>
  BY DEF DownloadEof, Reading
<1>2. /\ down' \in Seq(Seq(ItemSet))
      /\ reader' \in [buffered : Seq(ItemSet), serverEof : BOOLEAN,
                      replyPending : BOOLEAN, replyError : BOOLEAN]
      /\ reader'.buffered = <<>> /\ reader'.serverEof
      /\ EndsInZero(down) /\ down' = <<>>
      /\ reader.buffered = <<>> /\ Len(down) = 1
  BY <1>1, ChunkStep DEF SessInv
<1>3. head = <<>> /\ got \in Seq(ItemSet) /\ Len(got) \in Nat
  BY <1>1, NoElements DEF SessInv, DownInv, WireTypes, InOrder
<1>4. ~srv.outOpen /\ srv.sent = Len(got)
  <2>1. Have = Len(got)
    BY <1>2, <1>3 DEF Have
  <2>2. GoesOn(down, Len(got)) /\ srv.sent \in Nat
    BY <1>1, <2>1 DEF SessInv, DownInv, BodyDue, WireTypes
  <2> QED
    BY <1>2, <1>3, <2>2 DEF GoesOn
<1>5. WireTypes'
  BY <1>1, <1>2 DEF SessInv, DownInv, WireTypes
<1>6. Turn' /\ InOrder' /\ ReplyDue' /\ BodyDue' /\ Ended'
  BY <1>1, <1>2, <1>4 DEF SessInv, DownInv, Turn, InOrder, ReplyDue, BodyDue,
                          Ended, Awaiting, Reading
<1>7. DownInv'
  BY <1>5, <1>6 DEF DownInv
<1> QED
  BY <1>1, <1>7, DownloadFrame DEF DownloadPcs

-----------------------------------------------------------------------------
(* The server *)

\* The server reads the record it expects.
LEMMA ServerReceivesInv ==
    ASSUME SessInv, ServerReceives
    PROVE  SessInv'
<1> DEFINE r == up[1]
<1>1. /\ up # <<>> /\ ~lost /\ up' = Tail(up)
      /\ UNCHANGED <<place, session, mode, upPc, wrote, downPc, drive,
                     zeroSent, head, got, reader, down, torn, lost>>
  BY DEF ServerReceives, relayVars
<1>2. /\ up \in Seq(UpRecords) /\ session \in Nat
      /\ srv \in [s : Nat, replied : BOOLEAN, sent : Nat, recv : Nat,
                  inOpen : BOOLEAN, outOpen : BOOLEAN, confused : BOOLEAN]
  BY DEF SessInv, DownInv, WireTypes
<1>3. /\ Head(up) = r /\ r \in UpRecords /\ Len(up) \in Nat /\ Len(up) >= 1
      /\ up' \in Seq(UpRecords) /\ Len(up') = Len(up) - 1
      /\ \A k \in 1..Len(up) - 1 : up'[k] = up[k + 1]
  BY <1>1, <1>2, TailElements
<1>4. UpOrder(up) /\ srv.confused = FALSE
  BY <1>1 DEF SessInv, UpInv
<1>5. IF srv.inOpen = TRUE THEN r.kind # "connect" /\ r.s = srv.s
      ELSE r.kind = "connect" /\ r.s = srv.s + 1
  BY <1>1, <1>4 DEF UpOrder, UpFirst
<1>6. r.kind = "connect" =>
        /\ r.s = session /\ srv.s = session - 1
        /\ \A j \in 1..Len(up) : up[j].kind = "connect" => j = 1
  BY <1>3, <1>4 DEF UpOrder, OneConnect
<1>7. r.kind = "connect" => ~srv.outOpen
  BY <1>6 DEF SessInv, DownInv, Turn
<1> HIDE DEF r
<1>8. \/ /\ r.kind = "connect"
         /\ srv' = [s |-> r.s, replied |-> FALSE, sent |-> 0, recv |-> 0,
                    inOpen |-> TRUE, outOpen |-> TRUE, confused |-> srv.confused]
      \/ r.kind = "data" /\ srv' = [srv EXCEPT !.recv = @ + 1]
      \/ r.kind = "zero" /\ srv' = [srv EXCEPT !.inOpen = FALSE]
  BY <1>2, <1>3, <1>5, <1>7 DEF ServerReceives, UpRecords
<1>9. /\ srv' \in [s : Nat, replied : BOOLEAN, sent : Nat, recv : Nat,
                   inOpen : BOOLEAN, outOpen : BOOLEAN, confused : BOOLEAN]
      /\ srv'.confused = FALSE
      /\ srv'.inOpen = IF r.kind = "zero" THEN FALSE ELSE TRUE
      /\ srv'.s = r.s
      /\ IF r.kind = "connect"
         THEN srv'.sent = 0 /\ ~srv'.replied /\ srv'.outOpen
         ELSE /\ srv'.sent = srv.sent /\ srv'.replied = srv.replied
              /\ srv'.outOpen = srv.outOpen
  <2>1. CASE r.kind = "connect"
    <3>1. r.s \in Nat
      BY <1>2, <1>6, <2>1
    <3>2. srv' = [s |-> r.s, replied |-> FALSE, sent |-> 0, recv |-> 0,
                  inOpen |-> TRUE, outOpen |-> TRUE, confused |-> FALSE]
      BY <1>4, <1>8, <2>1
    <3> QED
      BY <2>1, <3>1, <3>2
  <2>2. CASE r.kind # "connect"
    <3>1. srv.inOpen = TRUE /\ r.s = srv.s
      BY <1>2, <1>5, <2>2
    <3>2. srv.recv + 1 \in Nat
      BY <1>2
    <3> QED
      BY <1>2, <1>4, <1>8, <2>2, <3>1, <3>2
  <2> QED
    BY <2>1, <2>2
<1>10. PcTypes' /\ Stage'
  BY <1>1 DEF SessInv, PcTypes, Stage
<1>11. UpInv'
  <2>1. UpChain(up)'
    <3> SUFFICES ASSUME NEW k \in 1..Len(up') - 1
                 PROVE  IF up'[k].kind = "zero"
                        THEN up'[k+1].kind = "connect" /\ up'[k+1].s = up'[k].s + 1
                        ELSE up'[k+1].kind # "connect" /\ up'[k+1].s = up'[k].s
      BY DEF UpChain
    <3>1. /\ k + 1 \in 1..Len(up) - 1 /\ up'[k] = up[k + 1]
          /\ up'[k + 1] = up[(k + 1) + 1]
      BY <1>3
    <3> QED
      BY <1>4, <3>1 DEF UpOrder, UpChain
  <2>2. UpFirst(up)'
    <3> SUFFICES ASSUME up' # <<>> PROVE UpFirst(up)'
      BY DEF UpFirst
    <3>1. Len(up') >= 1
      BY <1>3, NoElements
    <3>2. 1 \in 1..Len(up) - 1 /\ up'[1] = up[1 + 1]
      BY <1>3, <3>1
    <3>3. IF r.kind = "zero" THEN up'[1].kind = "connect" /\ up'[1].s = r.s + 1
          ELSE up'[1].kind # "connect" /\ up'[1].s = r.s
      BY <1>4, <3>2 DEF UpOrder, UpChain, r
    <3> QED
      BY <1>9, <3>3 DEF UpFirst
  <2>3. ZeroWritten' <=> ZeroWritten
    BY <1>1 DEF ZeroWritten
  <2>4. UpLast(up)'
    <3>1. up[Len(up)].s = session /\ (ZeroWritten <=> up[Len(up)].kind = "zero")
      BY <1>1, <1>4 DEF UpOrder, UpLast
    <3>2. CASE up' = <<>>
      <4>1. Len(up) = 1
        BY <1>3, <3>2
      <4> QED
        BY <1>1, <1>9, <2>3, <3>1, <3>2, <4>1 DEF UpLast, r
    <3>3. CASE up' # <<>>
      <4>1. Len(up') >= 1
        BY <1>3, <3>3, NoElements
      <4>2. up'[Len(up')] = up[Len(up)]
        BY <1>3, <4>1
      <4> QED
        BY <1>1, <2>3, <3>1, <3>3, <4>2 DEF UpLast
    <3> QED
      BY <3>2, <3>3
  <2>5. OneConnect(up)'
    <3> SUFFICES ASSUME NEW k \in 1..Len(up'), up'[k].kind = "connect"
                 PROVE  /\ up'[k].s = session' /\ srv'.s = session' - 1
                        /\ \A j \in 1..Len(up') : up'[j].kind = "connect" => j = k
      BY DEF OneConnect
    <3>1. k + 1 \in 1..Len(up) /\ up'[k] = up[k + 1]
      BY <1>3
    <3>2. /\ up[k + 1].s = session /\ srv.s = session - 1
          /\ \A j \in 1..Len(up) : up[j].kind = "connect" => j = k + 1
      BY <1>4, <3>1 DEF UpOrder, OneConnect
    <3>3. r.kind # "connect" /\ srv'.s = srv.s
      <4>1. r.kind # "connect"
        BY <1>3, <3>2 DEF r
      <4> QED
        BY <1>5, <1>9, <4>1
    <3>4. ASSUME NEW j \in 1..Len(up'), up'[j].kind = "connect" PROVE j = k
      <4>1. j + 1 \in 1..Len(up) /\ up'[j] = up[j + 1]
        BY <1>3
      <4> QED
        BY <3>2, <3>4, <4>1
    <3> QED
      BY <1>1, <3>1, <3>2, <3>3, <3>4
  <2> QED
    BY <1>9, <2>1, <2>2, <2>4, <2>5 DEF UpInv, UpOrder
<1>12. WireTypes'
  BY <1>1, <1>3, <1>9 DEF SessInv, DownInv, WireTypes
<1>13. CASE r.kind = "connect"
  <2>1. /\ r.s = session /\ srv.s = session - 1 /\ srv'.s = session'
        /\ ~Reading /\ downPc # "ok" /\ (Awaiting => down = <<>>)
    BY <1>1, <1>2, <1>6, <1>9, <1>13 DEF SessInv, DownInv, Turn
  <2>2. Turn' /\ InOrder' /\ ReplyDue' /\ BodyDue' /\ Ended'
    BY <1>1, <1>2, <1>9, <1>13, <2>1
    DEF SessInv, DownInv, Turn, InOrder, ReplyDue, BodyDue, Ended, Awaiting,
        Reading
  <2> QED
    BY <1>10, <1>11, <1>12, <2>2 DEF SessInv, DownInv
<1>14. CASE r.kind # "connect"
  <2>1. /\ srv'.s = srv.s /\ srv'.sent = srv.sent
        /\ srv'.replied = srv.replied /\ srv'.outOpen = srv.outOpen
    BY <1>5, <1>9, <1>14
  <2>2. Turn' /\ InOrder' /\ Ended'
    BY <1>1, <2>1 DEF SessInv, DownInv, Turn, InOrder, Ended, Awaiting, Reading
  <2>3. ReplyDue'
    BY <1>1, <2>1 DEF SessInv, DownInv, ReplyDue, OpensWith, Awaiting
  <2>4. BodyDue'
    BY <1>1, <2>1 DEF SessInv, DownInv, BodyDue, GoesOn, Reading, Have
  <2> QED
    BY <1>10, <1>11, <1>12, <2>2, <2>3, <2>4 DEF SessInv, DownInv
<1> QED
  BY <1>13, <1>14

\* What the server writes leaves the way up alone.
LEMMA ServerFrame ==
    ASSUME SessInv, DownInv', srv'.s = srv.s, srv'.inOpen = srv.inOpen,
           srv'.confused = srv.confused,
           UNCHANGED <<place, session, relayVars, reader, up, torn, lost>>
    PROVE  SessInv'
<1>1. PcTypes' /\ Stage'
  BY DEF SessInv, PcTypes, Stage, relayVars
<1>2. UpInv'
  BY UpFrame DEF SessInv, ZeroWritten, relayVars
<1> QED
  BY <1>1, <1>2 DEF SessInv

\* The server replies, once, before anything else it sends in the session.
LEMMA ServerRepliesInv ==
    ASSUME SessInv, ServerReplies
    PROVE  SessInv'
<1>1. /\ srv.outOpen /\ ~srv.replied /\ ~lost
      /\ UNCHANGED <<place, session, relayVars, reader, up, torn, lost>>
  BY DEF ServerReplies
<1>2. /\ down \in Seq(Seq(ItemSet)) /\ session \in Nat
      /\ srv \in [s : Nat, replied : BOOLEAN, sent : Nat, recv : Nat,
                  inOpen : BOOLEAN, outOpen : BOOLEAN, confused : BOOLEAN]
      /\ srv.s = session /\ srv.sent = 0
  BY <1>1 DEF SessInv, DownInv, WireTypes, Turn, ReplyDue
<1>3. PICK r \in {<<Status("ok", session)>>, <<Status("reject", session)>>,
                  <<Status("ok", session), DataItem(session, 1)>>} :
        /\ down' = Append(down, r)
        /\ srv' = [srv EXCEPT !.replied = TRUE, !.sent = Len(r) - 1]
  <2>1. /\ Item("ok", 0) = Status("ok", session)
        /\ Item("reject", 0) = Status("reject", session)
        /\ Item("data", 1) = DataItem(session, 1)
    BY <1>2 DEF Item, Status, DataItem
  <2>2. CASE \E kind \in {"ok", "reject"} :
               Send(<<Item(kind, 0)>>) /\ srv' = [srv EXCEPT !.replied = TRUE]
    <3>1. PICK kind \in {"ok", "reject"} : Send(<<Item(kind, 0)>>)
      BY <2>2
    <3>2. srv' = [srv EXCEPT !.replied = TRUE, !.sent = 0]
      BY <1>2, <2>2
    <3>3. <<Item(kind, 0)>> = <<Status(kind, session)>> /\ Len(<<Item(kind, 0)>>) - 1 = 0
      BY <2>1
    <3> QED
      BY <3>1, <3>2, <3>3 DEF Send
  <2>3. CASE /\ Send(<<Item("ok", 0), Item("data", 1)>>)
             /\ srv' = [srv EXCEPT !.replied = TRUE, !.sent = 1]
    BY <2>1, <2>3 DEF Send
  <2> QED
    BY <2>2, <2>3 DEF ServerReplies
<1>4. r \in Seq(ItemSet) /\ Opening(r, session) /\ r # Zero /\ Len(r) - 1 \in Nat
  <2>1. /\ Status("ok", session) \in ItemSet /\ Status("reject", session) \in ItemSet
        /\ DataItem(session, 1) \in ItemSet
    BY <1>2 DEF Status, DataItem, ItemSet
  <2>2. CASE r = <<Status("ok", session)>>
    BY <2>1, <2>2 DEF Opening, Zero
  <2>3. CASE r = <<Status("reject", session)>>
    BY <2>1, <2>3 DEF Opening, Zero
  <2>4. CASE r = <<Status("ok", session), DataItem(session, 1)>>
    BY <2>1, <2>4 DEF Opening, Zero
  <2> QED
    BY <2>2, <2>3, <2>4
<1> DEFINE e == Append(down, r)
<1>5. /\ e \in Seq(Seq(ItemSet)) /\ e # <<>> /\ Len(e) = Len(down) + 1
      /\ e[Len(down) + 1] = r
  BY <1>2, <1>4, AppendElements
<1>6. /\ srv' \in [s : Nat, replied : BOOLEAN, sent : Nat, recv : Nat,
                   inOpen : BOOLEAN, outOpen : BOOLEAN, confused : BOOLEAN]
      /\ srv'.s = srv.s /\ srv'.inOpen = srv.inOpen
      /\ srv'.confused = srv.confused /\ srv'.outOpen = srv.outOpen
      /\ srv'.replied /\ srv'.sent = Len(r) - 1
  BY <1>2, <1>3, <1>4
<1> HIDE DEF e
<1>7. WireTypes'
  BY <1>1, <1>3, <1>5, <1>6 DEF SessInv, DownInv, WireTypes, relayVars, e
<1>8. ~Reading /\ downPc # "ok" /\ (Awaiting => down = <<>>)
  <2>1. Reading => srv.replied
    BY <1>1 DEF SessInv, DownInv, BodyDue, GoesOn
  <2>2. Awaiting /\ down # <<>> => srv.replied
    BY <1>1 DEF SessInv, DownInv, ReplyDue, OpensWith
  <2> QED
    BY <1>1, <2>1, <2>2 DEF SessInv, DownInv, Ended
<1>9. Turn' /\ InOrder' /\ BodyDue' /\ Ended'
  BY <1>1, <1>2, <1>6, <1>8 DEF SessInv, DownInv, Turn, InOrder, BodyDue,
         Ended, Awaiting, Reading, relayVars
<1>10. ReplyDue'
  <2>1. CASE Awaiting
    <3>1. Len(e) = 1 /\ e[1] = r
      BY <1>5, <1>8, <2>1
    <3>2. Stream(e, session, Len(e[1]) - 2, 2) /\ ~EndsInZero(e)
      BY <1>4, <3>1 DEF Stream, EndsInZero
    <3>3. down' = e /\ session' = session
      BY <1>1, <1>3 DEF e
    <3>4. OpensWith(down)'
      <4>1. srv'.sent = Len(e[1]) + Len(e) - 2
        BY <1>4, <1>6, <3>1
      <4>2. Opening(e[1], session)
        BY <1>4, <3>1
      <4> QED
        BY <1>6, <3>2, <3>3, <4>1, <4>2 DEF OpensWith
    <3> QED
      BY <1>5, <1>6, <3>3, <3>4 DEF ReplyDue
  <2>2. CASE ~Awaiting
    BY <1>1, <1>6, <2>2 DEF ReplyDue, Awaiting, relayVars
  <2> QED
    BY <2>1, <2>2
<1>11. DownInv'
  BY <1>7, <1>9, <1>10 DEF DownInv
<1> QED
  BY <1>1, <1>6, <1>11, ServerFrame

\* The server sends its next data, or its zero record after the last.
LEMMA ServerSendsInv ==
    ASSUME SessInv, ServerSends \/ ServerCloses
    PROVE  SessInv'
<1>1. /\ srv.outOpen /\ ~lost
      /\ UNCHANGED <<place, session, relayVars, reader, up, torn, lost>>
  BY DEF ServerSends, ServerCloses
<1>2. /\ down \in Seq(Seq(ItemSet)) /\ session \in Nat
      /\ srv \in [s : Nat, replied : BOOLEAN, sent : Nat, recv : Nat,
                  inOpen : BOOLEAN, outOpen : BOOLEAN, confused : BOOLEAN]
      /\ srv.s = session /\ Len(down) \in Nat
  BY <1>1, NoElements DEF SessInv, DownInv, WireTypes, Turn
<1>3. PICK r : /\ down' = Append(down, r)
               /\ \/ /\ r = <<DataItem(session, srv.sent + 1)>> /\ srv.replied
                     /\ srv' = [srv EXCEPT !.sent = @ + 1]
                  \/ r = Zero /\ srv' = [srv EXCEPT !.outOpen = FALSE]
  <2>1. Item("data", srv.sent + 1) = DataItem(session, srv.sent + 1)
    BY <1>2 DEF Item, DataItem
  <2>2. CASE ServerSends
    BY <2>1, <2>2 DEF ServerSends, Send
  <2>3. CASE ServerCloses
    BY <2>3 DEF ServerCloses, Send
  <2> QED
    BY <2>2, <2>3
<1>4. r \in Seq(ItemSet) /\ Len(r) \in Nat
  <2> DEFINE x == DataItem(session, srv.sent + 1)
  <2>1. x \in ItemSet
    BY <1>2 DEF DataItem, ItemSet
  <2> HIDE DEF x
  <2>2. r \in Seq(ItemSet)
    <3>1. r = <<x>> \/ r = Zero
      BY <1>3 DEF x
    <3>2. <<x>> \in Seq(ItemSet)
      BY <2>1
    <3>3. Zero \in Seq(ItemSet)
      BY EmptySeq DEF Zero
    <3> QED
      BY <3>1, <3>2, <3>3
  <2> QED
    BY <2>2, NoElements
<1>5. r # Zero =>
        /\ r = <<DataItem(session, srv.sent + 1)>> /\ srv.replied
        /\ srv' = [srv EXCEPT !.sent = @ + 1]
  BY <1>3
<1>6. r = Zero => srv' = [srv EXCEPT !.outOpen = FALSE]
  BY <1>3 DEF Zero
<1>7. /\ srv' \in [s : Nat, replied : BOOLEAN, sent : Nat, recv : Nat,
                   inOpen : BOOLEAN, outOpen : BOOLEAN, confused : BOOLEAN]
      /\ srv'.s = srv.s /\ srv'.inOpen = srv.inOpen
      /\ srv'.confused = srv.confused /\ srv'.replied = srv.replied
      /\ srv'.sent = IF r = Zero THEN srv.sent ELSE srv.sent + 1
      /\ srv'.outOpen <=> r # Zero
  <2>1. CASE r = Zero
    BY <1>2, <1>6, <2>1
  <2>2. CASE r # Zero
    <3>1. srv.sent + 1 \in Nat
      BY <1>2
    <3> QED
      BY <1>1, <1>2, <1>5, <2>2, <3>1
  <2> QED
    BY <2>1, <2>2
<1> DEFINE e == Append(down, r)
<1>8. /\ e \in Seq(Seq(ItemSet)) /\ e # <<>> /\ Len(e) = Len(down) + 1
      /\ e[Len(down) + 1] = r /\ \A k \in 1..Len(down) : e[k] = down[k]
  BY <1>2, <1>4, AppendElements
<1> HIDE DEF e
<1>9. down' = e
  BY <1>3 DEF e
<1>10. WireTypes'
  BY <1>1, <1>7, <1>8, <1>9 DEF SessInv, DownInv, WireTypes, relayVars
<1>11. downPc # "ok"
  BY <1>1 DEF SessInv, DownInv, Ended
<1>12. Turn' /\ InOrder' /\ Ended'
  BY <1>1, <1>2, <1>7, <1>11 DEF SessInv, DownInv, Turn, InOrder, Ended,
         Awaiting, Reading, relayVars
<1>13. r # Zero => srv.replied
  BY <1>5
<1>14. ReplyDue'
  <2>1. Awaiting' => OpensWith(down)'
    <3> SUFFICES ASSUME Awaiting PROVE OpensWith(down)'
      BY <1>1 DEF Awaiting, relayVars
    <3>1. CASE down = <<>>
      <4>1. r = Zero
        BY <1>1, <1>13, <3>1 DEF SessInv, DownInv, ReplyDue
      <4>2. Len(e) = 1 /\ e[1] = Zero
        BY <1>8, <3>1, <4>1
      <4>3. Opening(e[1], session') /\ Stream(e, session', Len(e[1]) - 2, 2)
        BY <4>2 DEF Opening, Stream
      <4> QED
        BY <1>7, <1>9, <4>1, <4>2, <4>3 DEF OpensWith
    <3>2. CASE down # <<>>
      <4> DEFINE b == Len(down[1]) - 2
      <4>1. /\ Len(down) >= 1 /\ Len(down[1]) \in Nat
        BY <1>2, <3>2, TailElements, NoElements
      <4>2. OpensWith(down)
        BY <3>2 DEF SessInv, DownInv, ReplyDue
      <4>3. /\ Opening(down[1], session) /\ Stream(down, session, b, 2)
            /\ ~EndsInZero(down) /\ srv.replied /\ srv.sent = Len(down[1]) + Len(down) - 2
        BY <1>1, <4>2 DEF OpensWith
      <4>4. e[1] = down[1]
        BY <1>8, <4>1
      <4>5. b \in Int /\ b + Len(down) + 1 = srv.sent + 1 /\ 2 <= Len(down) + 1
        BY <1>2, <4>1, <4>3
      <4> HIDE DEF b
      <4>6. Stream(e, session, b, 2) /\ (EndsInZero(e) <=> r = Zero)
        <5>1. r = Zero \/ r = <<DataItem(session, b + Len(down) + 1)>>
          BY <1>5, <4>5
        <5> QED
          BY <1>2, <1>4, <4>3, <4>5, <5>1, StreamAppend DEF e
      <4>7. IF r = Zero THEN srv'.sent = Len(e[1]) + Len(e) - 3
            ELSE srv'.sent = Len(e[1]) + Len(e) - 2
        BY <1>2, <1>7, <1>8, <4>1, <4>3, <4>4
      <4>8. Stream(e, session, Len(e[1]) - 2, 2)
        BY <4>4, <4>6 DEF b
      <4> QED
        BY <1>1, <1>7, <1>9, <4>3, <4>4, <4>6, <4>7, <4>8 DEF OpensWith
    <3> QED
      BY <3>1, <3>2
  <2>2. srv'.outOpen /\ ~srv'.replied => srv'.sent = 0
    BY <1>7, <1>13
  <2> QED
    BY <1>8, <1>9, <2>1, <2>2 DEF ReplyDue
<1>15. BodyDue'
  <2> SUFFICES ASSUME Reading PROVE GoesOn(down, Have)'
    BY <1>1 DEF BodyDue, Reading, relayVars
  <2>1. Have' = Have /\ Have \in Nat
    <3>1. UNCHANGED <<got, head, reader>>
      BY <1>1 DEF relayVars
    <3> QED
      BY <3>1, HaveNat DEF SessInv, Have
  <2>2. /\ Stream(down, session, Have, 1) /\ srv.replied
        /\ srv.sent = Have + Len(down) /\ ~EndsInZero(down)
    BY <1>1 DEF SessInv, DownInv, BodyDue, GoesOn
  <2>3. Have + Len(down) + 1 = srv.sent + 1 /\ 1 <= Len(down) + 1
    BY <1>2, <2>1, <2>2
  <2>4. Stream(e, session, Have, 1) /\ (EndsInZero(e) <=> r = Zero)
    <3>1. r = Zero \/ r = <<DataItem(session, Have + Len(down) + 1)>>
      BY <1>5, <2>3
    <3> QED
      BY <1>2, <1>4, <2>1, <2>2, <2>3, <3>1, StreamAppend DEF e
  <2>5. IF r = Zero THEN srv'.sent = Have + Len(e) - 1
        ELSE srv'.sent = Have + Len(e)
    BY <1>2, <1>7, <1>8, <2>1, <2>2
  <2> QED
    BY <1>1, <1>7, <1>9, <2>1, <2>2, <2>4, <2>5 DEF GoesOn
<1>16. DownInv'
  BY <1>10, <1>12, <1>14, <1>15 DEF DownInv
<1> QED
  BY <1>1, <1>7, <1>16, ServerFrame

\* A lost transport cuts off what had not arrived.
LEMMA TransportLostInv ==
    ASSUME SessInv, TransportLost
    PROVE  SessInv'
<1>1. /\ lost' = TRUE
      /\ UNCHANGED <<place, session, relayVars, reader, up, torn, srv>>
  BY DEF TransportLost
<1>2. PICK n \in 0..Len(down) : down' = SubSeq(down, 1, n)
  BY DEF TransportLost
<1>3. /\ down \in Seq(Seq(ItemSet)) /\ Len(down) \in Nat
      /\ down' \in Seq(Seq(ItemSet)) /\ Len(down') = n
      /\ \A k \in 1..n : down'[k] = down[k]
  <2>1. down \in Seq(Seq(ItemSet))
    BY DEF SessInv, DownInv, WireTypes
  <2> QED
    BY <1>2, <2>1, PrefixElements, NoElements
<1>4. PcTypes' /\ Stage'
  BY <1>1 DEF SessInv, PcTypes, Stage, relayVars
<1>5. UpInv'
  BY <1>1, UpFrame DEF SessInv
<1>6. WireTypes'
  BY <1>1, <1>3 DEF SessInv, DownInv, WireTypes, relayVars
<1>7. down = <<>> => down' = <<>>
  BY <1>2, <1>3, NoElements
<1>8. Turn' /\ InOrder' /\ Ended'
  BY <1>1, <1>7 DEF SessInv, DownInv, Turn, InOrder, Ended, Awaiting, Reading,
                    relayVars
<1>9. ReplyDue'
  <2>1. (Awaiting /\ down # <<>>)' => OpensWith(down)'
    <3> SUFFICES ASSUME Awaiting, down' # <<>> PROVE OpensWith(down)'
      BY <1>1 DEF Awaiting, relayVars
    <3>1. n >= 1 /\ down # <<>> /\ down'[1] = down[1]
      BY <1>2, <1>3, <1>7, NoElements
    <3>2. OpensWith(down) /\ Len(down[1]) \in Nat
      BY <1>3, <3>1, TailElements, NoElements DEF SessInv, DownInv, ReplyDue
    <3>3. Len(down[1]) - 2 \in Int
      BY <3>2
    <3>4. /\ Stream(down', session, Len(down[1]) - 2, 2)
          /\ EndsInZero(down') => n = Len(down) /\ EndsInZero(down)
      BY <1>2, <1>3, <3>2, <3>3, StreamPrefix DEF OpensWith
    <3> QED
      BY <1>1, <1>3, <3>1, <3>2, <3>4 DEF OpensWith
  <2> QED
    BY <1>1, <2>1 DEF SessInv, DownInv, ReplyDue
<1>10. BodyDue'
  <2> SUFFICES ASSUME Reading PROVE GoesOn(down, Have)'
    BY <1>1 DEF BodyDue, Reading, relayVars
  <2>1. Have' = Have /\ Have \in Nat
    <3>1. UNCHANGED <<got, head, reader>>
      BY <1>1 DEF relayVars
    <3> QED
      BY <3>1, HaveNat DEF SessInv, Have
  <2>2. GoesOn(down, Have)
    BY DEF SessInv, DownInv, BodyDue
  <2>3. /\ Stream(down', session, Have, 1)
        /\ EndsInZero(down') => n = Len(down) /\ EndsInZero(down)
    BY <1>2, <1>3, <2>1, <2>2, StreamPrefix DEF GoesOn
  <2> QED
    BY <1>1, <1>3, <2>1, <2>2, <2>3 DEF GoesOn
<1>11. DownInv'
  BY <1>6, <1>8, <1>9, <1>10 DEF DownInv
<1> QED
  BY <1>4, <1>5, <1>11 DEF SessInv

-----------------------------------------------------------------------------
(* The theorems *)

\* The first CONNECT is on its way, and nothing else has happened.
LEMMA SessionInit == Init => SessInv
<1> SUFFICES ASSUME Init PROVE SessInv
  OBVIOUS
<1>1. PcTypes /\ Stage
  BY DEF Init, PcTypes, Stage, Places, UploadPcs, DownloadPcs
<1> DEFINE r == [kind |-> "connect", s |-> 1]
<1>2. up = <<r>> /\ r \in UpRecords /\ r.kind = "connect" /\ r.s = 1
  BY DEF Init, UpRecords
<1> HIDE DEF r
<1>3. up \in Seq(UpRecords) /\ Len(up) = 1 /\ up[1] = r /\ up # <<>>
  BY <1>2
<1>4. /\ srv \in [s : Nat, replied : BOOLEAN, sent : Nat, recv : Nat,
                  inOpen : BOOLEAN, outOpen : BOOLEAN, confused : BOOLEAN]
      /\ srv.s = 0 /\ srv.sent = 0 /\ srv.inOpen = FALSE
      /\ ~srv.outOpen /\ srv.confused = FALSE
  BY DEF Init
<1>5. UpInv
  <2>1. session = 1 /\ ~ZeroWritten
    BY DEF Init, ZeroWritten
  <2>2. UpChain(up) /\ UpFirst(up) /\ UpLast(up) /\ OneConnect(up)
    BY <1>2, <1>3, <1>4, <2>1 DEF UpChain, UpFirst, UpLast, OneConnect
  <2> QED
    BY <1>4, <2>2 DEF UpInv, UpOrder
<1>6. WireTypes
  BY <1>3, <1>4, EmptySeq DEF Init, WireTypes, FreshReader
<1>7. Turn /\ InOrder /\ ReplyDue /\ BodyDue /\ Ended
  BY <1>4 DEF Init, Turn, InOrder, ReplyDue, BodyDue, Ended, Awaiting, Reading,
              Numbered, FreshReader
<1> QED
  BY <1>1, <1>5, <1>6, <1>7 DEF SessInv, DownInv

\* Every step keeps the invariant.
LEMMA SessionNext == SessInv /\ [Next]_vars => SessInv'
<1> SUFFICES ASSUME SessInv, [Next]_vars PROVE SessInv'
  OBVIOUS
<1>1. CASE Upload
  BY <1>1, QuietInv, WrittenInv DEF Upload
<1>2. CASE Download
  BY <1>2, DownloadBeginsInv, DownloadReplyInv, DownloadDataInv,
     DownloadFailsInv, DownloadEofInv DEF Download
<1>3. CASE Drive
  BY <1>3, QuietInv DEF Drive
<1>4. CASE Lifecycle
  BY <1>4, QuietInv, WrittenInv, FinishedInv, StartReuseInv DEF Lifecycle
<1>5. CASE Server
  BY <1>5, ServerReceivesInv, ServerRepliesInv, ServerSendsInv,
     TransportLostInv DEF Server
<1>6. CASE UNCHANGED vars
  <2>1. /\ UNCHANGED <<place, session, mode, upPc, drive, zeroSent, downPc,
                       head, got, reader, up, down, torn, lost, srv>>
    BY <1>6 DEF vars, relayVars, wireVars
  <2>2. PcTypes' /\ Stage'
    BY <2>1 DEF SessInv, PcTypes, Stage
  <2>3. DownInv'
    <3>1. up' \in Seq(UpRecords) /\ lost \in BOOLEAN /\ lost' \in BOOLEAN
      BY <2>1 DEF SessInv, PcTypes, DownInv, WireTypes
    <3> QED
      BY <2>1, <3>1, DownFrame DEF SessInv
  <2>4. UpInv'
    BY <2>1, UpFrame DEF SessInv, ZeroWritten
  <2> QED
    BY <2>2, <2>3, <2>4 DEF SessInv
<1> QED
  BY <1>1, <1>2, <1>3, <1>4, <1>5, <1>6 DEF Next

\* The invariant holds in every reachable state.
THEOREM SessionInvariant == Spec => []SessInv
<1> QED
  BY SessionInit, SessionNext, PTL DEF Spec

\* A client receives the bytes of its own session, in order and without a gap,
\* and all of them when its download ends with the server's zero record
\* (ResponseIntact).
THEOREM ResponseIntactAlways == Spec => []ResponseIntact
<1>1. SessInv => ResponseIntact
  <2> SUFFICES ASSUME SessInv PROVE ResponseIntact
    OBVIOUS
  <2>1. \A j \in 1..Len(got) : got[j] = [kind |-> "data", s |-> session, i |-> j]
    <3> SUFFICES ASSUME NEW j \in 1..Len(got)
                 PROVE  got[j] = [kind |-> "data", s |-> session, i |-> j]
      OBVIOUS
    <3>1. got[j] = DataItem(session, 0 + j) /\ 0 + j = j
      BY DEF SessInv, DownInv, InOrder, Numbered
    <3> QED
      BY <3>1 DEF DataItem
  <2> QED
    BY <2>1 DEF SessInv, DownInv, Turn, Ended, ResponseIntact
<1> QED
  BY <1>1, SessionInvariant, PTL

\* The server is never out of step, and a connection that will be used again
\* is quiet in both directions (ServerInStep).
THEOREM ServerInStepAlways == Spec => []ServerInStep
<1>1. SessInv => ServerInStep
  BY DEF SessInv, Stage, PcTypes, DownInv, Ended, UpInv, ServerInStep
<1> QED
  BY <1>1, SessionInvariant, PTL

-----------------------------------------------------------------------------
(* Records: induction and nonces *)

\* A nonce has Base values for a byte, and Base times those of d bytes for
\* d + 1.
LEMMA NonceCounts ==
    /\ NonceCount[0] = 1
    /\ \A d \in 0..Digits : NonceCount[d] \in Nat
    /\ \A d \in 1..Digits : NonceCount[d] = Base * NonceCount[d - 1]
<1> DEFINE Good(f, d) == /\ f \in [0..d -> Nat] /\ f[0] = 1
                         /\ \A k \in 1..d : f[k] = Base * f[k - 1]
           P == {d \in Nat : \E f : Good(f, d)}
<1>1. 0 \in P
  <2>1. Good([k \in 0..0 |-> 1], 0)
    OBVIOUS
  <2> HIDE DEF Good
  <2> QED
    BY <2>1
<1>2. ASSUME NEW d \in Nat, d \in P PROVE d + 1 \in P
  <2>1. PICK f : Good(f, d)
    BY <1>2
  <2> DEFINE g == [k \in 0..d + 1 |-> IF k <= d THEN f[k] ELSE Base * f[d]]
  <2>2. \A k \in 0..d : f[k] \in Nat /\ g[k] = f[k]
    BY <2>1
  <2>3. f[d] \in Nat /\ Base * f[d] \in Nat /\ g[d + 1] = Base * f[d]
    <3>1. f[d] \in Nat
      <4>1. d \in 0..d
        OBVIOUS
      <4> HIDE DEF g
      <4> QED
        BY <2>2, <4>1
    <3>2. Base * f[d] \in Nat
      BY <3>1, RecordAssumption
    <3>3. d + 1 \in 0..d + 1 /\ ~(d + 1 <= d)
      OBVIOUS
    <3> QED
      BY <3>1, <3>2, <3>3
  <2>4. g \in [0..d + 1 -> Nat] /\ g[0] = 1
    BY <2>1, <2>2, <2>3
  <2>5. ASSUME NEW k \in 1..d + 1 PROVE g[k] = Base * g[k - 1]
    <3>1. CASE k <= d
      <4>1. k \in 1..d /\ k \in 0..d /\ k - 1 \in 0..d
        BY <3>1
      <4> QED
        BY <2>1, <2>2, <4>1
    <3>2. CASE k = d + 1
      <4>1. k - 1 = d /\ d \in 0..d
        BY <3>2
      <4> QED
        BY <2>2, <2>3, <3>2, <4>1
    <3> QED
      BY <3>1, <3>2
  <2>6. Good(g, d + 1)
    BY <2>4, <2>5
  <2> HIDE DEF Good, g
  <2> QED
    BY <2>6
<1> HIDE DEF Good
<1>3. Nat \subseteq P
  <2> HIDE DEF P
  <2> QED
    BY <1>1, <1>2, NatSetInduction
<1>4. PICK f : Good(f, Digits)
  BY <1>3, RecordAssumption
<1>5. f = [d \in 0..Digits |-> IF d = 0 THEN 1 ELSE Base * f[d - 1]]
  BY <1>4, RecordAssumption DEF Good
<1>6. \E g : g = [d \in 0..Digits |-> IF d = 0 THEN 1 ELSE Base * g[d - 1]]
  BY <1>5, Zenon
<1>7. NonceCount = [d \in 0..Digits |-> IF d = 0 THEN 1 ELSE Base * NonceCount[d - 1]]
  BY <1>6, Zenon DEF NonceCount
<1>8. /\ NonceCount[0] = 1
      /\ \A d \in 1..Digits : NonceCount[d] = Base * NonceCount[d - 1]
  <2>1. /\ 0 \in 0..Digits
        /\ \A d \in 1..Digits : d \in 0..Digits /\ d # 0
    BY RecordAssumption
  <2> QED
    BY <1>7, <2>1, Zenon
<1> DEFINE Q == {d \in Nat : d \in 0..Digits => NonceCount[d] \in Nat}
<1>9. 0 \in Q
  BY <1>8
<1>10. ASSUME NEW d \in Nat, d \in Q PROVE d + 1 \in Q
  <2> SUFFICES ASSUME d + 1 \in 0..Digits PROVE NonceCount[d + 1] \in Nat
    OBVIOUS
  <2>1. d \in 0..Digits /\ d + 1 \in 1..Digits /\ (d + 1) - 1 = d
    BY RecordAssumption
  <2>2. NonceCount[d] \in Nat /\ NonceCount[d + 1] = Base * NonceCount[d]
    BY <1>8, <1>10, <2>1
  <2> QED
    BY <2>2, RecordAssumption
<1>11. Nat \subseteq Q
  <2> HIDE DEF Q
  <2> QED
    BY <1>9, <1>10, NatSetInduction
<1>12. \A d \in 0..Digits : NonceCount[d] \in Nat
  BY <1>11
<1> QED
  BY <1>8, <1>12

Nonces == [1..Digits -> 0..(Base - 1)]

\* v[d] is the value of the first d bytes of the nonce n, little endian.
Values(n, v) ==
    /\ v \in [0..Digits -> Nat] /\ v[0] = 0
    /\ \A d \in 1..Digits : v[d] = v[d - 1] + n[d] * NonceCount[d - 1]

\* Every nonce has a value.
LEMMA ValuesExist ==
    ASSUME NEW n \in Nonces
    PROVE  \E v : Values(n, v)
<1> DEFINE Good(f, e) == /\ f \in [0..e -> Nat] /\ f[0] = 0
                         /\ \A d \in 1..e : f[d] = f[d - 1] + n[d] * NonceCount[d - 1]
           P == {e \in Nat : e \in 0..Digits => \E f : Good(f, e)}
<1>1. 0 \in P
  <2>1. Good([d \in 0..0 |-> 0], 0)
    OBVIOUS
  <2> HIDE DEF Good
  <2> QED
    BY <2>1
<1>2. ASSUME NEW e \in Nat, e \in P PROVE e + 1 \in P
  <2> SUFFICES ASSUME e + 1 \in 0..Digits PROVE \E f : Good(f, e + 1)
    OBVIOUS
  <2>1. e \in 0..Digits /\ e + 1 \in 1..Digits
    BY RecordAssumption
  <2>2. PICK f : Good(f, e)
    BY <1>2, <2>1
  <2> DEFINE x == f[e] + n[e + 1] * NonceCount[e]
             g == [d \in 0..e + 1 |-> IF d <= e THEN f[d] ELSE x]
  <2>3. \A d \in 0..e : f[d] \in Nat /\ g[d] = f[d]
    BY <2>2
  <2>4. x \in Nat
    <3>1. e \in 0..e
      OBVIOUS
    <3>2. f[e] \in Nat
      BY <2>2, <3>1
    <3>3. NonceCount[e] \in Nat
      BY <2>1, NonceCounts
    <3>4. n[e + 1] \in Nat
      BY <2>1, RecordAssumption DEF Nonces
    <3>5. n[e + 1] * NonceCount[e] \in Nat
      BY <3>3, <3>4
    <3> QED
      BY <3>2, <3>5
  <2> HIDE DEF x
  <2>5. g \in [0..e + 1 -> Nat] /\ g[0] = 0 /\ g[e + 1] = x
    <3>1. \A d \in 0..e + 1 : d <= e => d \in 0..e
      OBVIOUS
    <3>2. e + 1 \in 0..e + 1 /\ ~(e + 1 <= e) /\ 0 \in 0..e
      OBVIOUS
    <3>3. g \in [0..e + 1 -> Nat]
      BY <2>3, <2>4, <3>1
    <3> QED
      BY <2>2, <2>3, <3>2, <3>3
  <2> HIDE DEF g
  <2>6. ASSUME NEW d \in 1..e + 1
        PROVE  g[d] = g[d - 1] + n[d] * NonceCount[d - 1]
    <3>1. CASE d <= e
      <4>1. d \in 1..e /\ d \in 0..e /\ d - 1 \in 0..e
        BY <3>1
      <4> QED
        BY <2>2, <2>3, <4>1
    <3>2. CASE d = e + 1
      <4>1. d - 1 = e /\ e \in 0..e
        BY <3>2
      <4> QED
        BY <2>3, <2>5, <3>2, <4>1 DEF x
    <3> QED
      BY <3>1, <3>2
  <2>7. Good(g, e + 1)
    BY <2>5, <2>6
  <2> HIDE DEF Good
  <2> QED
    BY <2>7
<1> HIDE DEF Good
<1>3. Nat \subseteq P
  <2> HIDE DEF P
  <2> QED
    BY <1>1, <1>2, NatSetInduction
<1>4. \E f : Good(f, Digits)
  BY <1>3, RecordAssumption
<1> QED
  BY <1>4 DEF Good, Values

\* Nonces stay nonces.
LEMMA IncrementTypes ==
    /\ ZeroNonce \in Nonces
    /\ \A n \in Nonces : IncrementNonce(n) \in Nonces
<1>1. ZeroNonce \in Nonces
  BY RecordAssumption DEF ZeroNonce, Nonces
<1>2. ASSUME NEW n \in Nonces PROVE IncrementNonce(n) \in Nonces
  <2>1. \A i \in 1..Digits : n[i] \in 0..(Base - 1) /\ (n[i] + 1) % Base \in 0..(Base - 1)
    BY RecordAssumption DEF Nonces
  <2> QED
    BY <2>1 DEF IncrementNonce, Nonces
<1> QED
  BY <1>1, <1>2

\* All of the first d bytes are at their end.
Full(n, d) == \A j \in 1..d : n[j] = Base - 1

\* increment_nonce adds one, to the value of any number of bytes that are not
\* all at their end.
LEMMA IncrementValue ==
    ASSUME NEW n \in Nonces, NEW v, NEW w, Values(n, v), Values(IncrementNonce(n), w)
    PROVE  \A d \in 0..Digits :
             w[d] = IF Full(n, d) THEN v[d] + 1 - NonceCount[d] ELSE v[d] + 1
<1> DEFINE m == IncrementNonce(n)
           Claim(d) == w[d] = IF Full(n, d) THEN v[d] + 1 - NonceCount[d] ELSE v[d] + 1
           P == {d \in Nat : d \in 0..Digits => Claim(d)}
<1>1. \A d \in 0..Digits : v[d] \in Nat /\ w[d] \in Nat /\ NonceCount[d] \in Nat
  BY NonceCounts DEF Values
<1>2. 0 \in P
  BY NonceCounts DEF Values, Full
<1>3. ASSUME NEW e \in Nat, e \in P PROVE e + 1 \in P
  <2> SUFFICES ASSUME e + 1 \in 0..Digits PROVE Claim(e + 1)
    OBVIOUS
  <2>1. /\ e \in 0..Digits /\ e + 1 \in 1..Digits /\ (e + 1) - 1 = e
        /\ Base \in Nat /\ Base > 0
    BY RecordAssumption
  <2> DEFINE a == n[e + 1]
             b == m[e + 1]
             c == NonceCount[e]
             x == v[e]
             y == w[e]
  <2>2. Claim(e)
    BY <1>3, <2>1
  <2>3. /\ v[e + 1] = x + a * c /\ w[e + 1] = y + b * c
        /\ NonceCount[e + 1] = Base * c
    BY <2>1, NonceCounts DEF Values
  <2>4. /\ x \in Nat /\ y \in Nat /\ c \in Nat
        /\ a \in 0..(Base - 1)
    BY <1>1, <2>1, RecordAssumption DEF Nonces
  <2>5. b = IF Full(n, e) THEN (a + 1) % Base ELSE a
    <3>1. m[e + 1] = IF \A j \in 1..((e + 1) - 1) : n[j] = Base - 1
                     THEN (n[e + 1] + 1) % Base ELSE n[e + 1]
      BY <2>1 DEF IncrementNonce
    <3> QED
      BY <2>1, <3>1 DEF Full
  <2>6. Full(n, e + 1) <=> Full(n, e) /\ a = Base - 1
    <3>1. \A j \in 1..e + 1 : j \in 1..e \/ j = e + 1
      OBVIOUS
    <3>2. e + 1 \in 1..e + 1 /\ \A j \in 1..e : j \in 1..e + 1
      OBVIOUS
    <3> QED
      BY <3>1, <3>2 DEF Full
  <2> HIDE DEF a, b, c, x, y, m
  <2>7. y = IF Full(n, e) THEN x + 1 - c ELSE x + 1
    BY <2>2 DEF x, y, c
  <2>8. CASE ~Full(n, e)
    <3>1. y = x + 1 /\ b = a /\ ~Full(n, e + 1)
      BY <2>5, <2>6, <2>7, <2>8
    <3>2. a * c \in Nat
      BY <2>4
    <3>3. y + b * c = (x + a * c) + 1
      BY <2>4, <3>1, <3>2
    <3> QED
      BY <2>3, <3>1, <3>3
  <2>9. CASE Full(n, e) /\ a = Base - 1
    <3>1. (a + 1) % Base = 0
      BY <2>1, <2>9
    <3>2. y = x + 1 - c /\ b = 0 /\ Full(n, e + 1)
      BY <2>5, <2>6, <2>7, <2>9, <3>1
    <3>3. a * c = Base * c - c /\ Base * c \in Nat
      BY <2>1, <2>4, <2>9
    <3>4. y + b * c = (x + a * c) + 1 - Base * c
      BY <2>4, <3>2, <3>3
    <3> QED
      BY <2>3, <3>2, <3>4
  <2>10. CASE Full(n, e) /\ a # Base - 1
    <3>1. (a + 1) % Base = a + 1
      BY <2>1, <2>4, <2>10
    <3>2. y = x + 1 - c /\ b = a + 1 /\ ~Full(n, e + 1)
      BY <2>5, <2>6, <2>7, <2>10, <3>1
    <3>3. (a + 1) * c = a * c + c /\ a * c \in Nat
      BY <2>4
    <3>4. y + b * c = (x + a * c) + 1
      BY <2>4, <3>2, <3>3
    <3> QED
      BY <2>3, <3>2, <3>4
  <2> QED
    BY <2>8, <2>9, <2>10
<1>4. Nat \subseteq P
  <2> HIDE DEF P
  <2> QED
    BY <1>2, <1>3, NatSetInduction
<1> QED
  BY <1>4

\* The first nonce has the value 0.
LEMMA ZeroValue ==
    ASSUME NEW v, Values(ZeroNonce, v)
    PROVE  v[Digits] = 0
<1> DEFINE P == {d \in Nat : d \in 0..Digits => v[d] = 0}
<1>1. 0 \in P
  BY DEF Values
<1>2. ASSUME NEW e \in Nat, e \in P PROVE e + 1 \in P
  <2> SUFFICES ASSUME e + 1 \in 0..Digits PROVE v[e + 1] = 0
    OBVIOUS
  <2>1. e \in 0..Digits /\ e + 1 \in 1..Digits /\ (e + 1) - 1 = e
    BY RecordAssumption
  <2>2. v[e + 1] = v[e] + ZeroNonce[e + 1] * NonceCount[e]
    BY <2>1 DEF Values
  <2>3. v[e] = 0 /\ ZeroNonce[e + 1] = 0 /\ NonceCount[e] \in Nat
    BY <1>2, <2>1, NonceCounts DEF ZeroNonce
  <2> QED
    BY <2>2, <2>3
<1>3. Nat \subseteq P
  <2> HIDE DEF P
  <2> QED
    BY <1>1, <1>2, NatSetInduction
<1> QED
  BY <1>3, RecordAssumption

\* The value of a nonce.
NonceValue(n) == (CHOOSE v : Values(n, v))[Digits]

\* Nonces count up from 0 until every byte is at its end.
LEMMA NonceValues ==
    /\ NonceValue(ZeroNonce) = 0
    /\ \A n \in Nonces : NonceValue(n) \in Nat
    /\ \A n \in Nonces : NonceValue(n) + 1 < NonceCount[Digits] =>
         NonceValue(IncrementNonce(n)) = NonceValue(n) + 1
<1> DEFINE V(n) == CHOOSE v : Values(n, v)
<1>1. \A n \in Nonces : Values(n, V(n)) /\ NonceValue(n) = V(n)[Digits]
  BY ValuesExist DEF NonceValue
<1> HIDE DEF V
<1>2. \A n \in Nonces : NonceValue(n) \in Nat
  BY <1>1, RecordAssumption DEF Values
<1>3. NonceValue(ZeroNonce) = 0
  BY <1>1, IncrementTypes, ZeroValue
<1>4. ASSUME NEW n \in Nonces, NonceValue(n) + 1 < NonceCount[Digits]
      PROVE  NonceValue(IncrementNonce(n)) = NonceValue(n) + 1
  <2> DEFINE m == IncrementNonce(n)
  <2>1. m \in Nonces
    BY IncrementTypes
  <2>2. Values(n, V(n)) /\ Values(m, V(m)) /\ Digits \in 0..Digits
    BY <1>1, <2>1, RecordAssumption
  <2>3. V(m)[Digits] = IF Full(n, Digits) THEN V(n)[Digits] + 1 - NonceCount[Digits]
                                          ELSE V(n)[Digits] + 1
    BY <2>2, IncrementValue
  <2> HIDE DEF m
  <2>4. NonceValue(m) = IF Full(n, Digits) THEN NonceValue(n) + 1 - NonceCount[Digits]
                                           ELSE NonceValue(n) + 1
    BY <1>1, <2>1, <2>3
  <2>5. NonceValue(n) \in Nat /\ NonceValue(m) \in Nat /\ NonceCount[Digits] \in Nat
    BY <1>2, <2>1, <2>2, NonceCounts
  <2> QED
    BY <1>4, <2>4, <2>5 DEF m
<1> QED
  BY <1>2, <1>3, <1>4

-----------------------------------------------------------------------------
(* Records: the nonces of a writer *)

\* The i-th nonce of the stream: the ones sealed with, q, then the next, w.
NonceIn(q, w, i) == IF i <= Len(q) THEN q[i] ELSE w

\* They count up from zero, one by one.
CountUp(q, w) ==
    /\ q \in Seq(Nonces) /\ w \in Nonces
    /\ NonceValue(w) = Len(q)
    /\ \A i \in 1..Len(q) : NonceValue(q[i]) = i - 1
    /\ NonceIn(q, w, 1) = ZeroNonce
    /\ \A i \in 1..Len(q) : NonceIn(q, w, i + 1) = IncrementNonce(NonceIn(q, w, i))

\* One more seal, with the next nonce.
LEMMA SealCounted ==
    ASSUME NEW q, NEW w, CountUp(q, w), Len(q) < MaxSeals, NEW p, p = Append(q, w),
           NEW u, u = IncrementNonce(w)
    PROVE  /\ CountUp(p, u) /\ Len(p) = Len(q) + 1
           /\ \A i \in 1..Len(q) + 1 : NonceIn(p, u, i) = NonceIn(q, w, i)
           /\ \A i \in 1..Len(q) : p[i] = q[i]
           /\ p[Len(q) + 1] = w
<1> DEFINE L == Len(q)
<1>1. L \in Nat /\ q \in Seq(Nonces) /\ w \in Nonces /\ L < MaxSeals
  BY LenProperties DEF CountUp
<1>2. /\ p \in Seq(Nonces) /\ Len(p) = L + 1 /\ p[L + 1] = w
      /\ \A i \in 1..L : p[i] = q[i]
  BY <1>1, AppendProperties
<1>3. u \in Nonces
  BY <1>1, IncrementTypes
<1>4. NonceValue(w) = L /\ \A i \in 1..L : NonceValue(q[i]) = i - 1
  BY DEF CountUp
<1>5. NonceValue(u) = L + 1
  <2>1. L + 1 < NonceCount[Digits] /\ NonceCount[Digits] \in Nat
    BY <1>1, NonceCounts, RecordAssumption
  <2> HIDE DEF L
  <2> QED
    BY <1>1, <1>4, <2>1, NonceValues
<1>6. /\ \A i \in 1..L : NonceIn(q, w, i) = q[i]
      /\ NonceIn(q, w, L + 1) = w
  BY <1>1 DEF NonceIn
<1>7. /\ NonceIn(q, w, 1) = ZeroNonce
      /\ \A i \in 1..L : NonceIn(q, w, i + 1) = IncrementNonce(NonceIn(q, w, i))
  BY DEF CountUp
<1> HIDE DEF L
<1>8. /\ \A i \in 1..L + 1 : i \in 1..L \/ i = L + 1
      /\ \A i \in 1..L : i \in 1..L + 1 /\ i + 1 \in 1..L + 1
      /\ 1 \in 1..L + 1
  BY <1>1
<1>9. /\ \A i \in 1..L + 1 : NonceIn(p, u, i) = p[i]
      /\ NonceIn(p, u, L + 2) = u
  BY <1>1, <1>2 DEF NonceIn
<1>10. \A i \in 1..L + 1 : NonceValue(p[i]) = i - 1 /\ p[i] = NonceIn(q, w, i)
  BY <1>1, <1>2, <1>4, <1>6, <1>8
<1>11. ASSUME NEW i \in 1..L + 1
       PROVE  NonceIn(p, u, i + 1) = IncrementNonce(NonceIn(p, u, i))
  <2>1. CASE i \in 1..L
    BY <1>7, <1>8, <1>9, <1>10, <2>1
  <2>2. CASE i = L + 1
    <3>1. i + 1 = L + 2
      BY <1>1, <2>2
    <3> QED
      BY <1>2, <1>9, <2>2, <3>1
  <2> QED
    BY <1>8, <2>1, <2>2
<1>12. NonceIn(p, u, 1) = ZeroNonce
  BY <1>7, <1>8, <1>9, <1>10
<1>13. CountUp(p, u)
  BY <1>2, <1>3, <1>5, <1>10, <1>11, <1>12 DEF CountUp
<1> QED
  BY <1>2, <1>9, <1>10, <1>13 DEF L

\* Nonces that count up are different.
LEMMA CountUpDistinct ==
    ASSUME NEW q, NEW w, CountUp(q, w)
    PROVE  Cardinality(ToSet(q)) = Len(q)
<1>1. q \in Seq(Nonces) /\ Len(q) \in Nat /\ DOMAIN q = 1..Len(q)
  BY LenProperties DEF CountUp
<1> DEFINE T == 1..Len(q)
<1>2. IsFiniteSet(T) /\ Cardinality(T) = Len(q)
  BY <1>1, FS_Interval, SMTT(30)
<1>3. \A i, j \in T : q[i] = q[j] => i = j
  <2>1. \A i \in T : NonceValue(q[i]) = i - 1 /\ i \in Int
    BY DEF CountUp
  <2> SUFFICES ASSUME NEW i \in T, NEW j \in T, q[i] = q[j] PROVE i = j
    OBVIOUS
  <2>2. i - 1 = j - 1 /\ i \in Int /\ j \in Int
    BY <2>1
  <2> QED
    BY <2>2
<1>4. ToSet(q) = {q[i] : i \in T}
  BY <1>1 DEF ToSet
<1>5. q \in Bijection(T, ToSet(q))
  <2>1. q \in [T -> ToSet(q)]
    BY <1>1, <1>4
  <2>2. q \in Injection(T, ToSet(q))
    BY <1>3, <2>1 DEF Injection, IsInjective
  <2>3. q \in Surjection(T, ToSet(q))
    BY <1>4, <2>1 DEF Surjection
  <2> QED
    BY <2>2, <2>3 DEF Bijection
<1>6. ExistsBijection(T, ToSet(q))
  BY <1>5 DEF ExistsBijection
<1> HIDE DEF T
<1> QED
  BY <1>2, <1>6, FS_Bijection

-----------------------------------------------------------------------------
(* Records: sequences *)

\* The last three of four sequences may be joined first.
Grouped(p, q, r, t) == p \o q \o r \o t = p \o (q \o r \o t)

\* It makes no difference.
LEMMA ConcatOfFour ==
    ASSUME NEW S, NEW p \in Seq(S), NEW q \in Seq(S), NEW r \in Seq(S), NEW t \in Seq(S)
    PROVE  Grouped(p, q, r, t)
<1>1. q \o r \in Seq(S)
  BY ConcatProperties
<1>2. (p \o (q \o r)) \o t = p \o ((q \o r) \o t)
  BY <1>1, ConcatAssociative, SMTT(30)
<1>3. (p \o q) \o r = p \o (q \o r)
  BY ConcatAssociative
<1> QED
  BY <1>2, <1>3, Zenon DEF Grouped

\* e is padding p and ciphertext q with every second byte changed places.
Swaps(e, p, q) ==
    LET Both(i) == i <= Len(p) /\ i <= Len(q) /\ i % 2 = 1
    IN  /\ Len(e) = Len(p) + Len(q)
        /\ \A i \in 1..Len(p) : e[i] = IF Both(i) THEN q[i] ELSE p[i]
        /\ \A i \in 1..Len(q) : e[Len(p) + i] = IF Both(i) THEN p[i] ELSE q[i]

\* swap_padding swaps.
LEMMA SwapPaddingSwaps ==
    ASSUME NEW S, NEW p \in Seq(S), NEW q \in Seq(S)
    PROVE  SwapPadding(p, q) \in Seq(S) /\ Swaps(SwapPadding(p, q), p, q)
<1> DEFINE a == Len(p)
           b == Len(q)
           n == IF a < b THEN a ELSE b
           Sw(i) == i <= n /\ i % 2 = 1
           x == [i \in 1..a |-> IF Sw(i) THEN q[i] ELSE p[i]]
           y == [i \in 1..b |-> IF Sw(i) THEN p[i] ELSE q[i]]
<1>1. SwapPadding(p, q) = x \o y
  BY DEF SwapPadding
<1>2. a \in Nat /\ b \in Nat /\ n \in Nat
  BY LenProperties
<1>3. (\A i \in 1..a : p[i] \in S) /\ (\A i \in 1..b : q[i] \in S)
  BY ElementOfSeq
<1> HIDE DEF a, b
<1>4. /\ \A i \in 1..a : Sw(i) <=> (i <= a /\ i <= b /\ i % 2 = 1)
      /\ \A i \in 1..b : Sw(i) <=> (i <= a /\ i <= b /\ i % 2 = 1)
      /\ \A i \in 1..a : Sw(i) => i \in 1..b
      /\ \A i \in 1..b : Sw(i) => i \in 1..a
  BY <1>2
<1> HIDE DEF Sw, n
<1>5. x \in [1..a -> S] /\ y \in [1..b -> S]
  BY <1>3, <1>4
<1>6. /\ \A i \in 1..a : x[i] = IF Sw(i) THEN q[i] ELSE p[i]
      /\ \A i \in 1..b : y[i] = IF Sw(i) THEN p[i] ELSE q[i]
  OBVIOUS
<1> HIDE DEF x, y
<1>7. x \in Seq(S) /\ Len(x) = a /\ y \in Seq(S) /\ Len(y) = b
  BY <1>2, <1>5, SegmentIsSequence
<1>8. x \o y \in Seq(S) /\ Joined(x \o y, x, y)
  BY <1>7, ConcatJoins
<1> DEFINE e == x \o y
<1> HIDE DEF e
<1>9. /\ Len(e) = a + b /\ \A i \in 1..a : e[i] = x[i]
      /\ \A i \in 1..b : e[a + i] = y[i]
  BY <1>7, <1>8 DEF Joined, e
<1>10. Swaps(e, p, q)
  BY <1>4, <1>6, <1>9 DEF Swaps, a, b
<1> QED
  BY <1>1, <1>8, <1>10 DEF e

\* Swapping again, as the reader does, brings the ciphertext back.
LEMMA SwapPaddingBack ==
    ASSUME NEW S, NEW p \in Seq(S), NEW q \in Seq(S), NEW t \in Seq(S), Swaps(t, p, q)
    PROVE  LET n == Len(p) + Len(q)
               bytes == SwapPadding(SubSeq(t, 1, Len(p)), SubSeq(t, Len(p) + 1, n))
           IN  SubSeq(bytes, Len(p) + 1, n) = q
<1> DEFINE a == Len(p)
           b == Len(q)
           n == a + b
           x == SubSeq(t, 1, a)
           y == SubSeq(t, a + 1, n)
           e == SwapPadding(x, y)
           z == SubSeq(e, a + 1, n)
           Both(i) == i <= a /\ i <= b /\ i % 2 = 1
<1>1. a \in Nat /\ b \in Nat /\ n \in Nat /\ a <= n /\ n <= Len(t) /\ Len(t) = n
  BY LenProperties DEF Swaps
<1>2. /\ \A i \in 1..a : t[i] = IF Both(i) THEN q[i] ELSE p[i]
      /\ \A i \in 1..b : t[a + i] = IF Both(i) THEN p[i] ELSE q[i]
  BY DEF Swaps
<1> HIDE DEF a, b
<1>3. x \in Seq(S) /\ Len(x) = a /\ \A i \in 1..a : x[i] = t[i]
  <2>1. SubSeq(t, 0 + 1, a) \in Seq(S) /\ Part(SubSeq(t, 0 + 1, a), t, 0, a)
    <3>1. 0 \in Nat /\ 0 <= a /\ a <= Len(t)
      BY <1>1
    <3> QED
      BY <1>1, <3>1, SubSeqParts
  <2>2. 0 + 1 = 1 /\ a - 0 = a /\ \A i \in 1..a : 0 + i = i
    BY <1>1
  <2> QED
    BY <2>1, <2>2 DEF Part
<1>4. y \in Seq(S) /\ Len(y) = b /\ \A i \in 1..b : y[i] = t[a + i]
  <2>1. y \in Seq(S) /\ Part(y, t, a, n)
    BY <1>1, SubSeqParts
  <2>2. n - a = b
    BY <1>1
  <2> HIDE DEF y, n
  <2> QED
    BY <2>1, <2>2 DEF Part
<1> HIDE DEF x, y
<1>5. e \in Seq(S) /\ Swaps(e, x, y)
  BY <1>3, <1>4, SwapPaddingSwaps
<1> HIDE DEF e
<1>6. /\ Len(e) = n
      /\ \A i \in 1..b : e[a + i] = IF Both(i) THEN x[i] ELSE y[i]
  BY <1>3, <1>4, <1>5 DEF Swaps
<1>7. \A i \in 1..b : e[a + i] = q[i]
  <2> SUFFICES ASSUME NEW i \in 1..b PROVE e[a + i] = q[i]
    OBVIOUS
  <2>1. CASE Both(i)
    <3>1. i \in 1..a
      BY <1>1, <2>1
    <3>2. x[i] = q[i]
      BY <1>2, <1>3, <2>1, <3>1
    <3> QED
      BY <1>6, <2>1, <3>2
  <2>2. CASE ~Both(i)
    <3>1. y[i] = q[i]
      BY <1>2, <1>4, <2>2
    <3> QED
      BY <1>6, <2>2, <3>1
  <2> QED
    BY <2>1, <2>2
<1>8. z \in Seq(S) /\ Len(z) = b /\ \A i \in 1..b : z[i] = e[a + i]
  <2>1. n <= Len(e)
    BY <1>1, <1>6
  <2>2. z \in Seq(S) /\ Part(z, e, a, n)
    BY <1>1, <1>5, <2>1, SubSeqParts
  <2>3. n - a = b
    BY <1>1
  <2> HIDE DEF z, n
  <2> QED
    BY <2>2, <2>3 DEF Part
<1> HIDE DEF z, n
<1>9. z = q
  <2>1. Len(z) = Len(q) /\ \A i \in 1..Len(z) : z[i] = q[i]
    BY <1>7, <1>8 DEF a, b
  <2> QED
    BY <1>8, <2>1, SeqEqual
<1> QED
  BY <1>9 DEF z, e, x, y, n, a, b

-----------------------------------------------------------------------------
(* Records: the bytes of a stream *)

Symbols  == Nat \X Nat
Payloads == Seq(Symbols)
Headers  == [pad : Nat, len : Nat]
Keys     == {DeriveRecordKey(psk) : psk \in Psks}
Bytes    == {Salt, Pad} \cup
            [k : {"sealed"}, key : Keys, nonce : Nonces, text : Symbols \cup {Tag} \cup Headers]

Padding(n) == [i \in 1..n |-> Pad]
BodyText(key, nonce, payload) == Sealed(key, nonce, Append(payload, Tag))
BodyBytes(key, nonce, payload, n) == SwapPadding(Padding(n), BodyText(key, nonce, payload))
HeaderByte(key, nonce, payload, n) ==
    [k |-> "sealed", key |-> key, nonce |-> nonce, text |-> [pad |-> n, len |-> Len(payload)]]

\* What is sealed opens, with its text in it.
LEMMA BodyTextOpens ==
    ASSUME NEW key \in Keys, NEW nonce \in Nonces, NEW payload \in Payloads
    PROVE  /\ BodyText(key, nonce, payload) \in Seq(Bytes)
           /\ Len(BodyText(key, nonce, payload)) = Len(payload) + 1
           /\ Opens(key, nonce, BodyText(key, nonce, payload))
           /\ \A i \in 1..Len(payload) : BodyText(key, nonce, payload)[i].text = payload[i]
<1> DEFINE t == Append(payload, Tag)
           X == Symbols \cup {Tag}
           n == Len(payload)
           q == BodyText(key, nonce, payload)
<1>1. n \in Nat /\ payload \in Seq(Symbols)
  BY LenProperties DEF Payloads
<1>2. payload \in Seq(X)
  <2>1. Symbols \subseteq X
    OBVIOUS
  <2> HIDE DEF X
  <2> QED
    BY <1>1, <2>1, SeqMonotonic
<1>3. Tag \in X
  OBVIOUS
<1> HIDE DEF X
<1>4. t \in Seq(X) /\ Len(t) = n + 1 /\ \A i \in 1..n : t[i] = payload[i]
  BY <1>2, <1>3, AppendProperties
<1>5. \A i \in 1..n + 1 : t[i] \in X
  BY <1>4, ElementOfSeq
<1> HIDE DEF t
<1>6. q = [i \in 1..n + 1 |-> [k |-> "sealed", key |-> key, nonce |-> nonce, text |-> t[i]]]
  BY <1>4 DEF BodyText, Sealed, t
<1>7. q \in [1..n + 1 -> Bytes]
  BY <1>5, <1>6 DEF Bytes, X
<1>8. \A i \in 1..n + 1 : /\ q[i].k = "sealed" /\ q[i].key = key
                          /\ q[i].nonce = nonce /\ q[i].text = t[i]
  BY <1>6
<1> HIDE DEF q, n
<1>9. n + 1 \in Nat
  BY <1>1
<1>10. q \in Seq(Bytes) /\ Len(q) = n + 1
  BY <1>7, <1>9, SegmentIsSequence
<1>11. Opens(key, nonce, q)
  BY <1>8, <1>10 DEF Opens
<1>12. \A i \in 1..n : q[i].text = payload[i]
  <2>1. \A i \in 1..n : i \in 1..n + 1
    BY <1>1
  <2> QED
    BY <1>4, <1>8, <2>1
<1> QED
  BY <1>10, <1>11, <1>12 DEF q, n

\* The body of a record, padded, is bytes.
LEMMA BodyBytesSwap ==
    ASSUME NEW key \in Keys, NEW nonce \in Nonces, NEW payload \in Payloads, NEW n \in Nat
    PROVE  /\ Padding(n) \in Seq(Bytes) /\ Len(Padding(n)) = n
           /\ BodyBytes(key, nonce, payload, n) \in Seq(Bytes)
           /\ Len(BodyBytes(key, nonce, payload, n)) = n + (Len(payload) + 1)
           /\ Swaps(BodyBytes(key, nonce, payload, n), Padding(n), BodyText(key, nonce, payload))
<1>1. Padding(n) \in [1..n -> Bytes]
  BY DEF Padding, Bytes
<1>2. Padding(n) \in Seq(Bytes) /\ Len(Padding(n)) = n
  BY <1>1, SegmentIsSequence
<1> DEFINE q == BodyText(key, nonce, payload)
           e == BodyBytes(key, nonce, payload, n)
<1>3. q \in Seq(Bytes) /\ Len(q) = Len(payload) + 1
  BY BodyTextOpens
<1>4. e = SwapPadding(Padding(n), q)
  BY DEF BodyBytes
<1> HIDE DEF q, e
<1>5. e \in Seq(Bytes) /\ Swaps(e, Padding(n), q)
  BY <1>2, <1>3, <1>4, SwapPaddingSwaps
<1>6. Len(e) = n + (Len(payload) + 1)
  BY <1>2, <1>3, <1>5 DEF Swaps
<1> QED
  BY <1>2, <1>5, <1>6 DEF q, e

\* Record k of the stream T: off[k] bytes and idx[k] seals precede it.
RecordIn(T, off, idx, pad, k) ==
    /\ off[k + 1] <= Len(T) /\ idx[k + 1] <= Len(seals)
    /\ T[off[k] + 1] = HeaderByte(wKey, seals[idx[k] + 1], written[k], pad[k])
    /\ written[k] = <<>> => off[k + 1] = off[k] + 1 /\ idx[k + 1] = idx[k] + 1
    /\ written[k] # <<>> =>
         /\ off[k + 1] = (off[k] + 1) + (pad[k] + (Len(written[k]) + 1))
         /\ idx[k + 1] = idx[k] + 2
         /\ \A i \in 1..pad[k] + (Len(written[k]) + 1) :
              T[off[k] + 1 + i] = BodyBytes(wKey, seals[idx[k] + 2], written[k], pad[k])[i]

\* T is the whole stream: the salt, then the records one after the other.
RecordStream(T, off, idx, pad) ==
    /\ T \in Seq(Bytes)
    /\ off \in [Nat -> Nat] /\ idx \in [Nat -> Nat] /\ pad \in [Nat -> Nat]
    /\ off[1] = 1 /\ idx[1] = 0 /\ idx[Len(written) + 1] = Len(seals)
    /\ IF written = <<>> THEN T = <<>> /\ ~saltSent
                         ELSE T[1] = Salt /\ off[Len(written) + 1] = Len(T) /\ saltSent
    /\ \A k \in 1..Len(written) : RecordIn(T, off, idx, pad, k)

\* What is on its way is the stream from byte c + 1 on; a cut loses the end.
InFlight(T, c) ==
    /\ c + Len(wire) <= Len(T)
    /\ \A i \in 1..Len(wire) : wire[i] = T[c + i]
    /\ ~cut =>
         /\ c + Len(wire) + Len(tlsBuffer) + Len(frame) = Len(T)
         /\ \A i \in 1..Len(tlsBuffer) : tlsBuffer[i] = T[c + Len(wire) + i]
         /\ \A i \in 1..Len(frame) : frame[i] = T[c + Len(wire) + Len(tlsBuffer) + i]

SameKey == wKey = DeriveRecordKey(rPsk)

\* Where the reader is: behind the records it delivered.
ReaderAt(off, idx, pad, c) ==
    LET d == Len(delivered)
    IN  /\ c \in Nat
        /\ rPc = "salt" => c = 0 /\ d = 0 /\ rNonce = ZeroNonce
        /\ rPc = "header" =>
             /\ written # <<>> /\ c = off[d + 1] /\ rKey = DeriveRecordKey(rPsk)
             /\ rNonce = NonceIn(seals, wNonce, idx[d + 1] + 1)
        /\ rPc = "body" =>
             /\ d < Len(written) /\ written[d + 1] # <<>> /\ c = off[d + 1] + 1
             /\ SameKey /\ rKey = wKey
             /\ header = [pad |-> pad[d + 1], len |-> Len(written[d + 1])]
             /\ rNonce = NonceIn(seals, wNonce, idx[d + 1] + 2)

\* What was delivered was written, under the writer's key.
Delivered ==
    /\ delivered \in Seq(Payloads) /\ Len(delivered) <= Len(written)
    /\ \A i \in 1..Len(delivered) : delivered[i] = written[i]
    /\ ~SameKey => delivered = <<>>
    /\ rPc = "failed" => cut \/ ~SameKey
    /\ rPc \in {"salt", "header", "body", "failed"}

RecordTypes ==
    /\ wKey \in Keys /\ rPsk \in Psks /\ saltSent \in BOOLEAN /\ cut \in BOOLEAN
    /\ frame \in Seq(Bytes) /\ tlsBuffer \in Seq(Bytes) /\ wire \in Seq(Bytes)
    /\ content \in Payloads /\ written \in Seq(Payloads)

\* Between writes nothing is held back.
WriterIdle == wPc \in {"opening", "idle"} => frame = <<>> /\ tlsBuffer = <<>>

Nonced == CountUp(seals, wNonce) /\ Len(seals) <= MaxSeals

RecordInv ==
    /\ RecordTypes /\ WriterIdle /\ Nonced /\ Delivered
    /\ \E T, off, idx, pad, c :
         RecordStream(T, off, idx, pad) /\ InFlight(T, c) /\ ReaderAt(off, idx, pad, c)

-----------------------------------------------------------------------------
(* Records: steps that move bytes *)

\* The stream is a matter of what was written.
LEMMA StreamFrame ==
    ASSUME NEW T, NEW off, NEW idx, NEW pad, RecordStream(T, off, idx, pad),
           UNCHANGED <<written, seals, wKey, saltSent>>
    PROVE  RecordStream(T, off, idx, pad)'
  BY DEF RecordStream, RecordIn

\* The reader's place is unchanged with what it depends on.
LEMMA ReaderFrame ==
    ASSUME NEW off, NEW idx, NEW pad, NEW c, ReaderAt(off, idx, pad, c),
           UNCHANGED <<written, seals, wNonce, wKey, rPsk, rKey, rNonce, header, rPc, delivered>>
    PROVE  ReaderAt(off, idx, pad, c)'
  BY DEF ReaderAt, SameKey

\* Lengths are numbers.
LEMMA RecordLengths ==
    ASSUME RecordTypes
    PROVE  /\ Len(wire) \in Nat /\ Len(tlsBuffer) \in Nat /\ Len(frame) \in Nat
           /\ Len(written) \in Nat /\ Len(content) \in Nat
  BY LenProperties DEF RecordTypes, Payloads

\* A batch given to the transport.
LEMMA BatchInFlight ==
    ASSUME RecordTypes, NEW T, NEW c \in Nat, InFlight(T, c), WriteBatch
    PROVE  InFlight(T, c)' /\ tlsBuffer' \in Seq(Bytes)
<1> DEFINE a == Len(wire)
           b == Len(tlsBuffer)
           f == Len(frame)
<1>1. a \in Nat /\ b \in Nat /\ f \in Nat
  BY RecordLengths
<1>2. /\ ~cut /\ tlsBuffer' = tlsBuffer \o frame /\ frame' = <<>>
      /\ wire' = wire /\ cut' = cut
  BY DEF WriteBatch
<1>3. tlsBuffer' \in Seq(Bytes) /\ Joined(tlsBuffer', tlsBuffer, frame)
  BY <1>2, ConcatJoins DEF RecordTypes
<1>4. /\ c + a + b + f = Len(T)
      /\ \A i \in 1..b : tlsBuffer[i] = T[c + a + i]
      /\ \A i \in 1..f : frame[i] = T[c + a + b + i]
  BY <1>2 DEF InFlight
<1>5. /\ Len(tlsBuffer') = b + f
      /\ \A i \in 1..b : tlsBuffer'[i] = tlsBuffer[i]
      /\ \A i \in 1..f : tlsBuffer'[b + i] = frame[i]
  BY <1>3 DEF Joined
<1> HIDE DEF a, b, f
<1>6. \A i \in 1..b + f : tlsBuffer'[i] = T[c + a + i]
  <2> SUFFICES ASSUME NEW i \in 1..b + f PROVE tlsBuffer'[i] = T[c + a + i]
    OBVIOUS
  <2>1. CASE i <= b
    <3>1. i \in 1..b
      BY <1>1, <2>1
    <3> QED
      BY <1>4, <1>5, <3>1
  <2>2. CASE ~(i <= b)
    <3>1. i - b \in 1..f /\ b + (i - b) = i /\ c + a + b + (i - b) = c + a + i
      BY <1>1, <2>2
    <3>2. tlsBuffer'[b + (i - b)] = T[c + a + b + (i - b)]
      BY <1>4, <1>5, <3>1
    <3> QED
      BY <3>1, <3>2
  <2> QED
    BY <2>1, <2>2
<1>7. c + a + (b + f) + 0 = Len(T) /\ Len(frame') = 0
  BY <1>1, <1>2, <1>4
<1>8. /\ c + a <= Len(T) /\ \A i \in 1..a : wire[i] = T[c + i]
  BY DEF InFlight, a
<1>9. \A i \in 1..Len(frame') : FALSE
  BY <1>7
<1> QED
  BY <1>2, <1>3, <1>5, <1>6, <1>7, <1>8, <1>9 DEF InFlight, a

\* write_and_flush puts everything on the wire.
LEMMA FlushInFlight ==
    ASSUME RecordTypes, NEW T, NEW c \in Nat, InFlight(T, c), WriteAndFlush
    PROVE  InFlight(T, c)' /\ wire' \in Seq(Bytes)
<1> DEFINE a == Len(wire)
           b == Len(tlsBuffer)
           f == Len(frame)
           x == wire \o tlsBuffer
<1>1. a \in Nat /\ b \in Nat /\ f \in Nat
  BY RecordLengths
<1>2. /\ ~cut /\ wire' = x \o frame /\ frame' = <<>> /\ tlsBuffer' = <<>>
      /\ cut' = cut
  BY DEF WriteAndFlush
<1>3. x \in Seq(Bytes) /\ Joined(x, wire, tlsBuffer)
  BY ConcatJoins DEF RecordTypes
<1> HIDE DEF x
<1>4. wire' \in Seq(Bytes) /\ Joined(wire', x, frame)
  BY <1>2, <1>3, ConcatJoins DEF RecordTypes
<1>5. /\ c + a + b + f = Len(T)
      /\ \A i \in 1..a : wire[i] = T[c + i]
      /\ \A i \in 1..b : tlsBuffer[i] = T[c + a + i]
      /\ \A i \in 1..f : frame[i] = T[c + a + b + i]
  BY <1>2 DEF InFlight
<1>6. /\ Len(x) = a + b
      /\ \A i \in 1..a : x[i] = wire[i]
      /\ \A i \in 1..b : x[a + i] = tlsBuffer[i]
  BY <1>3 DEF Joined
<1>7. /\ Len(wire') = a + b + f
      /\ \A i \in 1..a + b : wire'[i] = x[i]
      /\ \A i \in 1..f : wire'[a + b + i] = frame[i]
  BY <1>4, <1>6 DEF Joined
<1> HIDE DEF a, b, f
<1>8. \A i \in 1..a + b + f : wire'[i] = T[c + i]
  <2> SUFFICES ASSUME NEW i \in 1..a + b + f PROVE wire'[i] = T[c + i]
    OBVIOUS
  <2>1. CASE i <= a
    <3>1. i \in 1..a /\ i \in 1..a + b
      BY <1>1, <2>1
    <3> QED
      BY <1>5, <1>6, <1>7, <3>1
  <2>2. CASE ~(i <= a) /\ i <= a + b
    <3>1. /\ i - a \in 1..b /\ a + (i - a) = i /\ c + a + (i - a) = c + i
          /\ i \in 1..a + b
      BY <1>1, <2>2
    <3>2. x[a + (i - a)] = T[c + a + (i - a)]
      BY <1>5, <1>6, <3>1
    <3> QED
      BY <1>7, <3>1, <3>2
  <2>3. CASE ~(i <= a + b)
    <3>1. /\ i - (a + b) \in 1..f /\ a + b + (i - (a + b)) = i
          /\ c + a + b + (i - (a + b)) = c + i
      BY <1>1, <2>3
    <3>2. wire'[a + b + (i - (a + b))] = T[c + a + b + (i - (a + b))]
      BY <1>5, <1>7, <3>1
    <3> QED
      BY <3>1, <3>2
  <2> QED
    BY <2>1, <2>2, <2>3
<1>9. /\ Len(frame') = 0 /\ Len(tlsBuffer') = 0
      /\ (\A i \in 1..Len(frame') : FALSE) /\ (\A i \in 1..Len(tlsBuffer') : FALSE)
  BY <1>2
<1>10. c + (a + b + f) = Len(T) /\ c + (a + b + f) <= Len(T)
       /\ c + (a + b + f) + 0 + 0 = Len(T)
  BY <1>1, <1>5
<1> QED
  BY <1>4, <1>7, <1>8, <1>9, <1>10 DEF InFlight

\* The transport sends a part of what it holds.
LEMMA SendInFlight ==
    ASSUME RecordTypes, NEW T, NEW c \in Nat, InFlight(T, c),
           NEW n \in 1..Len(tlsBuffer), TransportSends(n)
    PROVE  InFlight(T, c)' /\ wire' \in Seq(Bytes) /\ tlsBuffer' \in Seq(Bytes)
<1> DEFINE a == Len(wire)
           b == Len(tlsBuffer)
           f == Len(frame)
           x == SubSeq(tlsBuffer, 0 + 1, n)
<1>1. a \in Nat /\ b \in Nat /\ f \in Nat /\ n \in Nat /\ n <= b
  BY RecordLengths
<1>2. /\ ~cut /\ wire' = wire \o x /\ frame' = frame
      /\ tlsBuffer' = SubSeq(tlsBuffer, n + 1, b) /\ cut' = cut
  BY DEF TransportSends, writerVars
<1>3. x \in Seq(Bytes) /\ Part(x, tlsBuffer, 0, n)
  <2>1. 0 \in Nat /\ 0 <= n
    BY <1>1
  <2> QED
    BY <1>1, <2>1, SubSeqParts DEF RecordTypes
<1> HIDE DEF x
<1>4. wire' \in Seq(Bytes) /\ Joined(wire', wire, x)
  BY <1>2, <1>3, ConcatJoins DEF RecordTypes
<1>5. tlsBuffer' \in Seq(Bytes) /\ Part(tlsBuffer', tlsBuffer, n, b)
  <2>1. b <= Len(tlsBuffer) /\ tlsBuffer \in Seq(Bytes)
    BY <1>1 DEF RecordTypes
  <2> HIDE DEF b
  <2> QED
    BY <1>1, <1>2, <2>1, SubSeqParts
<1>6. /\ c + a + b + f = Len(T)
      /\ \A i \in 1..a : wire[i] = T[c + i]
      /\ \A i \in 1..b : tlsBuffer[i] = T[c + a + i]
      /\ \A i \in 1..f : frame[i] = T[c + a + b + i]
  BY <1>2 DEF InFlight
<1>7. Len(x) = n /\ \A i \in 1..n : x[i] = tlsBuffer[i]
  <2>1. n - 0 = n /\ \A i \in 1..n : 0 + i = i
    BY <1>1
  <2> QED
    BY <1>3, <2>1 DEF Part
<1>8. /\ Len(wire') = a + n
      /\ \A i \in 1..a : wire'[i] = wire[i]
      /\ \A i \in 1..n : wire'[a + i] = x[i]
  BY <1>4, <1>7 DEF Joined
<1>9. /\ Len(tlsBuffer') = b - n
      /\ \A i \in 1..b - n : tlsBuffer'[i] = tlsBuffer[n + i]
  BY <1>5 DEF Part
<1> HIDE DEF a, b
<1>10. \A i \in 1..a + n : wire'[i] = T[c + i]
  <2> SUFFICES ASSUME NEW i \in 1..a + n PROVE wire'[i] = T[c + i]
    OBVIOUS
  <2>1. CASE i <= a
    <3>1. i \in 1..a
      BY <1>1, <2>1
    <3> QED
      BY <1>6, <1>8, <3>1
  <2>2. CASE ~(i <= a)
    <3>1. /\ i - a \in 1..n /\ i - a \in 1..b /\ a + (i - a) = i
          /\ c + a + (i - a) = c + i
      BY <1>1, <2>2
    <3>2. wire'[a + (i - a)] = T[c + a + (i - a)]
      BY <1>6, <1>7, <1>8, <3>1
    <3> QED
      BY <3>1, <3>2
  <2> QED
    BY <2>1, <2>2
<1>11. \A i \in 1..b - n : tlsBuffer'[i] = T[c + (a + n) + i]
  <2> SUFFICES ASSUME NEW i \in 1..b - n PROVE tlsBuffer'[i] = T[c + (a + n) + i]
    OBVIOUS
  <2>1. n + i \in 1..b /\ c + a + (n + i) = c + (a + n) + i
    BY <1>1
  <2> QED
    BY <1>6, <1>9, <2>1
<1>12. /\ c + (a + n) <= Len(T) /\ c + (a + n) + (b - n) + f = Len(T)
       /\ \A i \in 1..f : frame'[i] = T[c + (a + n) + (b - n) + i]
  <2>1. /\ c + (a + n) <= c + a + b + f
        /\ c + (a + n) + (b - n) + f = c + a + b + f
        /\ \A i \in 1..f : c + (a + n) + (b - n) + i = c + a + b + i
    BY <1>1
  <2> QED
    BY <1>2, <1>6, <2>1
<1> QED
  BY <1>2, <1>4, <1>5, <1>8, <1>9, <1>10, <1>11, <1>12 DEF InFlight

\* A cut leaves the front of the wire.
LEMMA CutInFlight ==
    ASSUME RecordTypes, NEW T, NEW c \in Nat, InFlight(T, c), T \in Seq(Bytes),
           NEW n \in 0..Len(wire), TransportCut(n)
    PROVE  InFlight(T, c)' /\ wire' \in Seq(Bytes)
<1>1. Len(wire) \in Nat /\ n \in Nat /\ n <= Len(wire) /\ Len(T) \in Nat
  BY RecordLengths, LenProperties
<1>2. cut' /\ wire' = SubSeq(wire, 1, n)
  BY DEF TransportCut
<1>3. SubSeq(wire, 0 + 1, n) \in Seq(Bytes) /\ Part(SubSeq(wire, 0 + 1, n), wire, 0, n)
  <2>1. 0 \in Nat /\ 0 <= n /\ wire \in Seq(Bytes)
    BY <1>1 DEF RecordTypes
  <2> QED
    BY <1>1, <2>1, SubSeqParts
<1>4. wire' \in Seq(Bytes) /\ Len(wire') = n /\ \A i \in 1..n : wire'[i] = wire[i]
  <2>1. 0 + 1 = 1 /\ n - 0 = n /\ \A i \in 1..n : 0 + i = i
    BY <1>1
  <2> QED
    BY <1>2, <1>3, <2>1 DEF Part
<1>5. c + Len(wire) <= Len(T) /\ \A i \in 1..Len(wire) : wire[i] = T[c + i]
  BY DEF InFlight
<1>6. c + n <= Len(T) /\ \A i \in 1..n : i \in 1..Len(wire)
  BY <1>1, <1>5
<1> QED
  BY <1>2, <1>4, <1>5, <1>6 DEF InFlight

-----------------------------------------------------------------------------
(* Records: steps that encode a record *)

\* What encode_frame_append adds to the frame.
SaltPart == IF saltSent THEN <<>> ELSE <<Salt>>
Encoded(payload, n) ==
    SaltPart \o EncryptedHeader(payload, n)
             \o (IF payload = <<>> THEN <<>> ELSE EncryptedBody(payload, n))

\* A stream that is longer by a record.
Longer(T2, T, payload, n) == T2 = T \o Encoded(payload, n)

\* Its bytes: a salt of length h, the header and the body.
EncodedAs(e, h, payload, n) ==
    /\ h = (IF saltSent THEN 0 ELSE 1)
    /\ ~saltSent => e[1] = Salt
    /\ e[h + 1] = HeaderByte(wKey, wNonce, payload, n)
    /\ payload = <<>> => Len(e) = h + 1
    /\ payload # <<>> =>
         /\ Len(e) = (h + 1) + (n + (Len(payload) + 1))
         /\ \A i \in 1..n + (Len(payload) + 1) :
              e[h + 1 + i] = BodyBytes(wKey, PayloadNonce, payload, n)[i]

\* A record is encoded as its salt, header and body.
LEMMA EncodedBytes ==
    ASSUME RecordTypes, Nonced, NEW payload \in Payloads, NEW n \in Nat
    PROVE  /\ Encoded(payload, n) \in Seq(Bytes)
           /\ EncodedAs(Encoded(payload, n), Len(SaltPart), payload, n)
<1> DEFINE e == Encoded(payload, n)
           h == Len(SaltPart)
           A == SaltPart
           H == EncryptedHeader(payload, n)
           B == IF payload = <<>> THEN <<>> ELSE EncryptedBody(payload, n)
           X == A \o H
           y == HeaderByte(wKey, wNonce, payload, n)
           m == n + (Len(payload) + 1)
<1>1. wKey \in Keys /\ wNonce \in Nonces /\ PayloadNonce \in Nonces /\ Len(payload) \in Nat
  BY IncrementTypes, LenProperties DEF RecordTypes, Nonced, CountUp, PayloadNonce, Payloads
<1>2. /\ A \in Seq(Bytes) /\ h \in Nat /\ h = (IF saltSent THEN 0 ELSE 1)
      /\ ~saltSent => A[1] = Salt
  <2>1. Salt \in Bytes
    BY DEF Bytes
  <2>2. CASE saltSent
    BY <2>2 DEF SaltPart
  <2>3. CASE ~saltSent
    <3>1. A = <<Salt>>
      BY <2>3 DEF SaltPart
    <3> QED
      BY <2>1, <2>3, <3>1
  <2> QED
    BY <2>2, <2>3
<1>3. y \in Bytes
  <2>1. [pad |-> n, len |-> Len(payload)] \in Headers
    BY <1>1 DEF Headers
  <2> QED
    BY <1>1, <2>1 DEF HeaderByte, Bytes
<1>4. H \in Seq(Bytes) /\ Len(H) = 1 /\ H[1] = y
  <2>1. H = [i \in 1..1 |-> [k |-> "sealed", key |-> wKey, nonce |-> wNonce,
                             text |-> <<[pad |-> n, len |-> Len(payload)]>>[i]]]
    BY DEF EncryptedHeader, Sealed
  <2>2. H[1] = y /\ DOMAIN H = 1..1 /\ \A i \in 1..1 : H[i] = y
    BY <2>1 DEF HeaderByte
  <2>3. H \in [1..1 -> Bytes]
    BY <1>3, <2>1, <2>2
  <2> HIDE DEF H
  <2> QED
    BY <2>2, <2>3, SegmentIsSequence
<1>5. /\ B \in Seq(Bytes)
      /\ payload = <<>> => Len(B) = 0
      /\ payload # <<>> => /\ Len(B) = m
                           /\ B = BodyBytes(wKey, PayloadNonce, payload, n)
  <2>1. CASE payload = <<>>
    BY <2>1
  <2>2. CASE payload # <<>>
    <3>1. B = BodyBytes(wKey, PayloadNonce, payload, n)
      BY <2>2 DEF EncryptedBody, BodyBytes, Padding, BodyText
    <3> HIDE DEF B
    <3> QED
      BY <1>1, <2>2, <3>1, BodyBytesSwap
  <2> QED
    BY <2>1, <2>2
<1>6. e = X \o B /\ h = Len(A)
  BY DEF Encoded
<1> HIDE DEF A, H, B, y, m, e, h
<1>7. X \in Seq(Bytes) /\ Joined(X, A, H)
  BY <1>2, <1>4, ConcatJoins
<1>8. /\ Len(X) = h + 1 /\ X[h + 1] = y
      /\ ~saltSent => X[1] = Salt
  BY <1>2, <1>4, <1>6, <1>7 DEF Joined
<1> HIDE DEF X
<1>9. e \in Seq(Bytes) /\ Joined(e, X, B)
  BY <1>5, <1>6, <1>7, ConcatJoins
<1>10. /\ Len(e) = (h + 1) + Len(B)
       /\ \A i \in 1..h + 1 : e[i] = X[i]
       /\ \A i \in 1..Len(B) : e[h + 1 + i] = B[i]
  BY <1>8, <1>9 DEF Joined
<1>11. e[h + 1] = y /\ (~saltSent => e[1] = Salt)
  BY <1>2, <1>8, <1>10
<1>12. payload = <<>> => Len(e) = h + 1
  BY <1>2, <1>5, <1>10
<1>13. payload # <<>> =>
         /\ Len(e) = (h + 1) + m
         /\ \A i \in 1..m : e[h + 1 + i] = BodyBytes(wKey, PayloadNonce, payload, n)[i]
  BY <1>5, <1>10
<1> QED
  BY <1>2, <1>9, <1>11, <1>12, <1>13 DEF EncodedAs, e, h, y, m

\* The nonces count on.
LEMMA EncodeNonced ==
    ASSUME RecordTypes, Nonced, NEW payload \in Payloads, NEW n \in Nat,
           EncodeFrameAppend(payload, n)
    PROVE  /\ Nonced' /\ seals' \in Seq(Nonces) /\ Len(seals) \in Nat /\ Len(seals') \in Nat
           /\ \A i \in 1..Len(seals) : seals'[i] = seals[i]
           /\ \A i \in 1..Len(seals) + 1 :
                NonceIn(seals', wNonce', i) = NonceIn(seals, wNonce, i)
           /\ seals'[Len(seals) + 1] = wNonce
           /\ payload = <<>> => Len(seals') = Len(seals) + 1
           /\ payload # <<>> => /\ Len(seals') = Len(seals) + 2
                                /\ seals'[Len(seals) + 2] = PayloadNonce
<1> DEFINE L == Len(seals)
           q == Append(seals, wNonce)
           u == IncrementNonce(wNonce)
<1>1. /\ CountUp(seals, wNonce) /\ L \in Nat /\ L + 2 <= MaxSeals
      /\ seals \in Seq(Nonces) /\ wNonce \in Nonces
  BY LenProperties DEF Nonced, CountUp, EncodeFrameAppend
<1>2. L < MaxSeals /\ MaxSeals \in Nat
  BY <1>1, RecordAssumption
<1>3. /\ CountUp(q, u) /\ Len(q) = L + 1
      /\ \A i \in 1..L + 1 : NonceIn(q, u, i) = NonceIn(seals, wNonce, i)
      /\ \A i \in 1..L : q[i] = seals[i]
      /\ q[L + 1] = wNonce
  BY <1>1, <1>2, SealCounted
<1>4. CASE payload = <<>>
  <2>1. seals' = q /\ wNonce' = u
    BY <1>4 DEF EncodeFrameAppend
  <2> HIDE DEF q, u, L
  <2>2. Nonced' /\ seals' \in Seq(Nonces)
    BY <1>1, <1>2, <1>3, <2>1 DEF Nonced, CountUp
  <2> QED
    BY <1>1, <1>3, <1>4, <2>1, <2>2 DEF L
<1>5. CASE payload # <<>>
  <2> DEFINE r == Append(q, u)
             z == IncrementNonce(u)
  <2>1. wNonce' = z /\ seals' = seals \o <<wNonce, u>>
    BY <1>5 DEF EncodeFrameAppend, PayloadNonce
  <2>2. u \in Nonces /\ q \in Seq(Nonces)
    BY <1>3 DEF CountUp
  <2>3. seals' = r
    BY <1>1, <2>1, <2>2
  <2> HIDE DEF q, u
  <2>4. Len(q) < MaxSeals
    BY <1>1, <1>2, <1>3
  <2>5. /\ CountUp(r, z) /\ Len(r) = Len(q) + 1
        /\ \A i \in 1..Len(q) + 1 : NonceIn(r, z, i) = NonceIn(q, u, i)
        /\ \A i \in 1..Len(q) : r[i] = q[i]
        /\ r[Len(q) + 1] = u
    BY <1>3, <2>4, SealCounted
  <2> HIDE DEF r, z, L
  <2>6. Len(r) = L + 2 /\ Len(q) + 1 = L + 2 /\ L + 1 \in 1..Len(q)
    BY <1>1, <1>3, <2>5
  <2>7. Nonced' /\ seals' \in Seq(Nonces)
    BY <1>1, <1>2, <2>1, <2>3, <2>5, <2>6 DEF Nonced, CountUp
  <2>8. \A i \in 1..L + 1 : i \in 1..Len(q) /\ i \in 1..Len(q) + 1
    BY <1>1, <1>3
  <2>9. \A i \in 1..L : i \in 1..L + 1
    BY <1>1
  <2>10. u = PayloadNonce
    BY DEF u, PayloadNonce
  <2>11. \A i \in 1..L + 1 : NonceIn(r, z, i) = NonceIn(seals, wNonce, i)
    BY <1>3, <2>5, <2>8
  <2>12. \A i \in 1..L : r[i] = seals[i]
    BY <1>3, <2>5, <2>8, <2>9
  <2>13. r[L + 1] = wNonce /\ r[L + 2] = PayloadNonce
    BY <1>3, <2>5, <2>6, <2>10
  <2> QED
    <3>1. Len(seals') = L + 2 /\ L + 2 \in Nat
      BY <1>1, <2>3, <2>6
    <3>2. \A i \in 1..L + 1 : NonceIn(seals', wNonce', i) = NonceIn(seals, wNonce, i)
      BY <2>1, <2>3, <2>11
    <3>3. /\ \A i \in 1..L : seals'[i] = seals[i]
          /\ seals'[L + 1] = wNonce /\ seals'[L + 2] = PayloadNonce
      BY <2>3, <2>12, <2>13
    <3> QED
      BY <1>1, <1>5, <2>7, <3>1, <3>2, <3>3 DEF L
<1> QED
  BY <1>4, <1>5

\* The layouts of a stream and of a longer one agree on the records of both.
Extends(off, idx, pad, off2, idx2, pad2) ==
    /\ \A k \in 1..Len(written) + 1 : off2[k] = off[k] /\ idx2[k] = idx[k]
    /\ \A k \in 1..Len(written) : pad2[k] = pad[k]

\* The stream has one more record.
LEMMA EncodeStream ==
    ASSUME RecordTypes, Nonced, NEW T, NEW off, NEW idx, NEW pad, RecordStream(T, off, idx, pad),
           NEW payload \in Payloads, NEW n \in Nat, EncodeFrameAppend(payload, n), wKey' = wKey
    PROVE  \E T2, off2, idx2, pad2 :
             /\ RecordStream(T2, off2, idx2, pad2)' /\ Longer(T2, T, payload, n)
             /\ Extends(off, idx, pad, off2, idx2, pad2)
<1> DEFINE h == Len(SaltPart)
           e == Encoded(payload, n)
           m == n + (Len(payload) + 1)
<1>0. PICK N \in Nat, L \in Nat : N = Len(written) /\ L = Len(seals)
  BY LenProperties DEF RecordTypes, Nonced, CountUp
<1>1. /\ T \in Seq(Bytes) /\ Len(T) \in Nat
      /\ Len(payload) \in Nat /\ written \in Seq(Payloads)
  BY LenProperties DEF RecordTypes, RecordStream, Payloads
<1>2. /\ e \in Seq(Bytes) /\ h \in Nat /\ h = (IF saltSent THEN 0 ELSE 1)
      /\ ~saltSent => e[1] = Salt
      /\ e[h + 1] = HeaderByte(wKey, wNonce, payload, n)
      /\ payload = <<>> => Len(e) = h + 1
      /\ payload # <<>> =>
           /\ Len(e) = (h + 1) + m
           /\ \A i \in 1..m : e[h + 1 + i] = BodyBytes(wKey, PayloadNonce, payload, n)[i]
  <2>1. e \in Seq(Bytes) /\ EncodedAs(e, h, payload, n)
    BY EncodedBytes
  <2> HIDE DEF e, h
  <2>2. h \in Nat
    BY <2>1 DEF EncodedAs
  <2> QED
    BY <2>1, <2>2 DEF EncodedAs
<1> HIDE DEF h, e
<1>a. PICK T2 : T2 = T \o e
  OBVIOUS
<1>b. PICK off2, idx2, pad2 :
        /\ off2 = [off EXCEPT ![N + 2] = Len(T2)]
        /\ idx2 = [idx EXCEPT ![N + 2] = Len(seals')]
        /\ pad2 = [pad EXCEPT ![N + 1] = n]
  OBVIOUS
<1>3. T2 \in Seq(Bytes) /\ Joined(T2, T, e)
  BY <1>1, <1>2, <1>a, ConcatJoins
<1>4. /\ Len(T2) = Len(T) + Len(e) /\ Len(e) \in Nat /\ Len(T2) \in Nat
      /\ \A i \in 1..Len(T) : T2[i] = T[i]
      /\ \A i \in 1..Len(e) : T2[Len(T) + i] = e[i]
  BY <1>2, <1>3, LenProperties DEF Joined
<1>5. /\ Len(seals') \in Nat /\ \A i \in 1..L : seals'[i] = seals[i]
      /\ seals'[L + 1] = wNonce
      /\ payload = <<>> => Len(seals') = L + 1
      /\ payload # <<>> => Len(seals') = L + 2 /\ seals'[L + 2] = PayloadNonce
  BY <1>0, EncodeNonced
<1>c. L <= Len(seals') /\ Len(T) <= Len(T2) /\ h + 1 <= Len(e)
  <2>1. L <= Len(seals')
    BY <1>5
  <2>2. h + 1 <= Len(e)
    <3>1. m \in Nat
      BY <1>1
    <3> HIDE DEF m
    <3> QED
      BY <1>2, <3>1
  <2> QED
    BY <1>1, <1>4, <2>1, <2>2
<1>6. written' = Append(written, payload) /\ saltSent'
  BY DEF EncodeFrameAppend
<1>7. /\ Len(written') = N + 1 /\ written'[N + 1] = payload
      /\ \A k \in 1..N : written'[k] = written[k]
  BY <1>0, <1>1, <1>6, AppendProperties
<1>8. /\ off \in [Nat -> Nat] /\ idx \in [Nat -> Nat] /\ pad \in [Nat -> Nat]
      /\ off[1] = 1 /\ idx[1] = 0 /\ idx[N + 1] = L
      /\ IF written = <<>> THEN T = <<>> /\ ~saltSent
                           ELSE T[1] = Salt /\ off[N + 1] = Len(T) /\ saltSent
      /\ \A k \in 1..N : RecordIn(T, off, idx, pad, k)
  BY <1>0 DEF RecordStream
<1>9. off[N + 1] = Len(T) + h
  <2>1. CASE written = <<>>
    <3>1. N = 0 /\ Len(T) = 0
      BY <1>0, <1>8, <2>1
    <3> QED
      BY <1>2, <1>8, <2>1, <3>1
  <2>2. CASE written # <<>>
    BY <1>1, <1>2, <1>8, <2>2
  <2> QED
    BY <2>1, <2>2
<1> HIDE DEF m
<1>10. /\ off2 \in [Nat -> Nat] /\ idx2 \in [Nat -> Nat] /\ pad2 \in [Nat -> Nat]
       /\ \A k \in 1..N + 1 : off2[k] = off[k] /\ idx2[k] = idx[k]
       /\ \A k \in 1..N : pad2[k] = pad[k]
       /\ off2[N + 2] = Len(T2) /\ idx2[N + 2] = Len(seals') /\ pad2[N + 1] = n
  <2>1. /\ N + 2 \in Nat /\ N + 1 \in Nat
        /\ \A k \in 1..N + 1 : k \in Nat /\ k # N + 2
        /\ \A k \in 1..N : k \in Nat /\ k # N + 1
    BY <1>1
  <2> QED
    BY <1>4, <1>5, <1>8, <1>b, <2>1
<1>11. ASSUME NEW k \in 1..N PROVE RecordIn(T2, off2, idx2, pad2, k)'
  <2>1. RecordIn(T, off, idx, pad, k)
    BY <1>8
  <2>2. k \in 1..N + 1 /\ k + 1 \in 1..N + 1 /\ k \in Nat /\ k + 1 \in Nat
    BY <1>1
  <2>3. /\ off2[k] = off[k] /\ off2[k + 1] = off[k + 1] /\ idx2[k] = idx[k]
        /\ idx2[k + 1] = idx[k + 1] /\ pad2[k] = pad[k] /\ written'[k] = written[k]
        /\ off[k] \in Nat /\ off[k + 1] \in Nat /\ idx[k] \in Nat /\ pad[k] \in Nat
        /\ written[k] \in Payloads /\ Len(written[k]) \in Nat
    <3>1. written[k] \in Payloads
      BY <1>0, <1>1, ElementOfSeq
    <3>2. Len(written[k]) \in Nat
      BY <3>1, LenProperties DEF Payloads
    <3> QED
      BY <1>7, <1>8, <1>10, <2>2, <3>1, <3>2
  <2> DEFINE a == off[k]
             b == idx[k]
             w == written[k]
             l == pad[k] + (Len(w) + 1)
  <2>4. /\ off[k + 1] <= Len(T) /\ idx[k + 1] <= L
        /\ T[a + 1] = HeaderByte(wKey, seals[b + 1], w, pad[k])
        /\ w = <<>> => off[k + 1] = a + 1 /\ idx[k + 1] = b + 1
        /\ w # <<>> => /\ off[k + 1] = (a + 1) + l
                       /\ idx[k + 1] = b + 2
                       /\ \A i \in 1..l : T[a + 1 + i] =
                            BodyBytes(wKey, seals[b + 2], w, pad[k])[i]
    BY <1>0, <2>1 DEF RecordIn
  <2>5. a \in Nat /\ b \in Nat /\ l \in Nat
    BY <2>3
  <2> HIDE DEF a, b, w, l
  <2>6. b + 1 \in 1..L /\ (w # <<>> => b + 2 \in 1..L)
    BY <1>1, <2>4, <2>5
  <2>7. a + 1 \in 1..Len(T) /\ (w # <<>> => \A i \in 1..l : a + 1 + i \in 1..Len(T))
    BY <1>1, <2>4, <2>5
  <2>8. off[k + 1] <= Len(T2) /\ idx[k + 1] <= Len(seals')
    <3>1. idx[k + 1] \in Nat
      BY <1>8, <2>2
    <3>2. off[k + 1] <= Len(T) /\ idx[k + 1] <= L
      BY <2>4
    <3>3. off[k + 1] <= Len(T2)
      <4>1. Len(T) <= Len(T2) /\ Len(T) \in Nat /\ Len(T2) \in Nat /\ off[k + 1] \in Nat
        BY <1>1, <1>4, <1>c, <2>3
      <4> QED
        BY <3>2, <4>1
    <3>4. idx[k + 1] <= Len(seals')
      <4>1. L <= Len(seals') /\ L \in Nat /\ Len(seals') \in Nat
        BY <1>1, <1>5, <1>c
      <4> QED
        BY <3>1, <3>2, <4>1
    <3> QED
      BY <3>3, <3>4
  <2>9. T2[a + 1] = HeaderByte(wKey, seals'[b + 1], w, pad[k])
    <3>1. T2[a + 1] = T[a + 1]
      BY <1>4, <2>7
    <3>2. seals'[b + 1] = seals[b + 1]
      BY <1>5, <2>6
    <3> QED
      BY <2>4, <3>1, <3>2
  <2>10. w # <<>> => \A i \in 1..l : T2[a + 1 + i] =
                       BodyBytes(wKey, seals'[b + 2], w, pad[k])[i]
    <3> SUFFICES ASSUME w # <<>>, NEW i \in 1..l
                 PROVE  T2[a + 1 + i] = BodyBytes(wKey, seals'[b + 2], w, pad[k])[i]
      OBVIOUS
    <3>1. T2[a + 1 + i] = T[a + 1 + i]
      BY <1>4, <2>7
    <3>2. seals'[b + 2] = seals[b + 2]
      BY <1>5, <2>6
    <3>3. T[a + 1 + i] = BodyBytes(wKey, seals[b + 2], w, pad[k])[i]
      BY <2>4
    <3> QED
      BY <3>1, <3>2, <3>3
  <2> QED
    BY <2>3, <2>4, <2>8, <2>9, <2>10 DEF RecordIn, a, b, w, l
<1>12. RecordIn(T2, off2, idx2, pad2, N + 1)'
  <2> DEFINE a == off[N + 1]
  <2>1. /\ off2[N + 1] = a /\ idx2[N + 1] = L /\ pad2[N + 1] = n
        /\ (N + 1) + 1 = N + 2 /\ a = Len(T) + h /\ a \in Nat
    <3>1. N + 1 \in 1..N + 1 /\ (N + 1) + 1 = N + 2 /\ N + 1 \in Nat
      BY <1>1
    <3> QED
      BY <1>8, <1>9, <1>10, <3>1
  <2> HIDE DEF a
  <2>2. /\ a + 1 = Len(T) + (h + 1) /\ h + 1 \in 1..Len(e) /\ m \in Nat
    BY <1>1, <1>2, <1>4, <1>c, <2>1 DEF m
  <2>3. T2[a + 1] = HeaderByte(wKey, seals'[L + 1], payload, n)
    BY <1>2, <1>4, <1>5, <2>2
  <2>4. Len(T2) <= Len(T2) /\ Len(seals') <= Len(seals')
    BY <1>4, <1>5
  <2>5. CASE payload = <<>>
    <3>1. Len(e) = h + 1 /\ Len(seals') = L + 1
      BY <1>2, <1>5, <2>5
    <3>2. Len(T2) = a + 1
      BY <1>4, <2>2, <3>1
    <3> QED
      BY <1>7, <1>10, <2>1, <2>3, <2>4, <2>5, <3>1, <3>2 DEF RecordIn
  <2>6. CASE payload # <<>>
    <3>1. /\ Len(e) = (h + 1) + m /\ Len(seals') = L + 2 /\ seals'[L + 2] = PayloadNonce
          /\ \A i \in 1..m : e[h + 1 + i] = BodyBytes(wKey, PayloadNonce, payload, n)[i]
      BY <1>2, <1>5, <2>6
    <3>2. Len(T2) = (a + 1) + m
      BY <1>1, <1>2, <1>4, <2>2, <3>1
    <3>3. \A i \in 1..m : /\ a + 1 + i = Len(T) + (h + 1 + i)
                          /\ h + 1 + i \in 1..Len(e)
      BY <1>1, <1>2, <2>1, <2>2, <3>1
    <3>4. \A i \in 1..m : T2[a + 1 + i] = BodyBytes(wKey, seals'[L + 2], payload, n)[i]
      BY <1>4, <3>1, <3>3
    <3> QED
      BY <1>7, <1>10, <2>1, <2>3, <2>4, <2>6, <3>1, <3>2, <3>4 DEF RecordIn, m
  <2> QED
    BY <2>5, <2>6
<1>13. T2[1] = Salt
  <2>1. CASE written = <<>>
    <3>1. Len(T) = 0 /\ ~saltSent /\ 1 \in 1..Len(e)
      BY <1>2, <1>4, <1>8, <1>c, <2>1
    <3> QED
      BY <1>2, <1>4, <3>1
  <2>2. CASE written # <<>>
    <3>1. N # 0
      BY <1>0, <1>1, <2>2, EmptySeq
    <3>2. off[N + 1] \in Nat /\ 1 \in 1..N
      BY <1>1, <1>8, <3>1
    <3>3. T # <<>>
      <4>1. RecordIn(T, off, idx, pad, 1) /\ 1 + 1 \in Nat
        BY <1>8, <3>2
      <4>2. Len(written[1]) \in Nat /\ pad[1] \in Nat /\ off[1 + 1] \in Nat
        <5>1. written[1] \in Payloads
          BY <1>0, <1>1, <3>2, ElementOfSeq
        <5>2. Len(written[1]) \in Nat
          BY <5>1, LenProperties DEF Payloads
        <5> QED
          BY <1>8, <4>1, <5>2
      <4>3. off[1 + 1] <= Len(T)
        BY <4>1 DEF RecordIn
      <4>4. off[1 + 1] = off[1] + 1
            \/ off[1 + 1] = (off[1] + 1) + (pad[1] + (Len(written[1]) + 1))
        BY <4>1 DEF RecordIn
      <4>5. off[1 + 1] > 0
        <5>1. off[1] = 1
          BY <1>8
        <5> QED
          BY <4>2, <4>4, <5>1
      <4>6. Len(T) # 0
        BY <1>1, <4>2, <4>3, <4>5
      <4>7. T = <<>> => Len(T) = 0
        OBVIOUS
      <4> QED
        BY <4>6, <4>7
    <3>4. 1 \in 1..Len(T)
      BY <1>1, <3>3, EmptySeq
    <3> QED
      BY <1>4, <1>8, <2>2, <3>4
  <2> QED
    BY <2>1, <2>2
<1>14. \A k \in 1..N + 1 : RecordIn(T2, off2, idx2, pad2, k)'
  <2>1. \A k \in 1..N + 1 : k \in 1..N \/ k = N + 1
    BY <1>1
  <2> QED
    BY <1>11, <1>12, <2>1
<1>15. RecordStream(T2, off2, idx2, pad2)'
  <2>1. off2[1] = 1 /\ idx2[1] = 0
    <3>1. 1 \in 1..N + 1
      BY <1>1
    <3> QED
      BY <1>8, <1>10, <3>1
  <2>2. written' # <<>> /\ (N + 1) + 1 = N + 2
    BY <1>1, <1>7
  <2> QED
    BY <1>3, <1>6, <1>7, <1>10, <1>13, <1>14, <2>1, <2>2 DEF RecordStream
<1>16. Extends(off, idx, pad, off2, idx2, pad2)
  BY <1>0, <1>10 DEF Extends
<1>17. Longer(T2, T, payload, n)
  BY <1>a DEF e, Longer
<1> QED
  BY <1>15, <1>16, <1>17

\* The frame grows with the stream.
LEMMA EncodeInFlight ==
    ASSUME RecordTypes, Nonced, NEW T \in Seq(Bytes), NEW c \in Nat, InFlight(T, c),
           NEW payload \in Payloads, NEW n \in Nat, EncodeFrameAppend(payload, n),
           NEW T2, Longer(T2, T, payload, n), UNCHANGED <<tlsBuffer, wire, cut>>
    PROVE  InFlight(T2, c)' /\ frame' \in Seq(Bytes)
<1> DEFINE e == Encoded(payload, n)
           a == Len(wire)
           b == Len(tlsBuffer)
           f == Len(frame)
<1>1. /\ a \in Nat /\ b \in Nat /\ f \in Nat /\ Len(T) \in Nat
      /\ frame \in Seq(Bytes) /\ e \in Seq(Bytes)
  BY RecordLengths, EncodedBytes, LenProperties DEF RecordTypes
<1>2. frame' = frame \o e
  <2> DEFINE H == EncryptedHeader(payload, n)
             B == IF payload = <<>> THEN <<>> ELSE EncryptedBody(payload, n)
  <2>1. frame' = frame \o SaltPart \o H \o B
    BY DEF EncodeFrameAppend, SaltPart
  <2>2. e = SaltPart \o H \o B
    BY DEF Encoded
  <2>3. SaltPart \in Seq(Bytes) /\ H \in Seq(Bytes) /\ B \in Seq(Bytes)
    <3>1. /\ wKey \in Keys /\ wNonce \in Nonces /\ PayloadNonce \in Nonces
          /\ Len(payload) \in Nat
      BY IncrementTypes, LenProperties DEF RecordTypes, Nonced, CountUp, PayloadNonce, Payloads
    <3>2. SaltPart \in Seq(Bytes)
      <4>1. Salt \in Bytes
        BY DEF Bytes
      <4>2. <<Salt>> \in Seq(Bytes) /\ <<>> \in Seq(Bytes)
        BY <4>1
      <4> QED
        BY <4>2 DEF SaltPart
    <3>3. H \in [1..1 -> Bytes]
      BY <3>1 DEF EncryptedHeader, Sealed, Bytes, Headers
    <3>4. H \in Seq(Bytes)
      <4> HIDE DEF H
      <4> QED
        BY <3>3, SegmentIsSequence
    <3>5. EncryptedBody(payload, n) = BodyBytes(wKey, PayloadNonce, payload, n)
      BY DEF EncryptedBody, BodyBytes, BodyText, Padding
    <3>6. B \in Seq(Bytes)
      BY <3>1, <3>5, BodyBytesSwap
    <3> QED
      BY <3>2, <3>4, <3>6
  <2> HIDE DEF H, B, e
  <2> HIDE DEF H, B, e
  <2>4. Grouped(frame, SaltPart, H, B)
    BY <1>1, <2>3, ConcatOfFour
  <2> QED
    BY <2>1, <2>2, <2>4, Zenon DEF Grouped
<1> HIDE DEF e
<1>3. frame' \in Seq(Bytes) /\ Joined(frame', frame, e)
  BY <1>1, <1>2, ConcatJoins
<1>4. T2 \in Seq(Bytes) /\ Joined(T2, T, e)
  BY <1>1, ConcatJoins DEF e, Longer
<1>5. /\ Len(frame') = f + Len(e) /\ Len(T2) = Len(T) + Len(e) /\ Len(e) \in Nat
      /\ \A i \in 1..f : frame'[i] = frame[i]
      /\ \A i \in 1..Len(e) : frame'[f + i] = e[i]
      /\ \A i \in 1..Len(T) : T2[i] = T[i]
      /\ \A i \in 1..Len(e) : T2[Len(T) + i] = e[i]
  BY <1>1, <1>3, <1>4, LenProperties DEF Joined
<1>6. c + a <= Len(T) /\ \A i \in 1..a : wire[i] = T[c + i]
  BY DEF InFlight
<1> HIDE DEF a, b, f
<1>7. c + a <= Len(T2) /\ \A i \in 1..a : wire[i] = T2[c + i]
  <2>1. \A i \in 1..a : c + i \in 1..Len(T)
    BY <1>1, <1>6
  <2>2. c + a <= Len(T2)
    BY <1>1, <1>5, <1>6
  <2> QED
    BY <1>5, <1>6, <2>1, <2>2
<1>8. ASSUME ~cut
      PROVE  /\ c + a + b + Len(frame') = Len(T2)
             /\ \A i \in 1..b : tlsBuffer[i] = T2[c + a + i]
             /\ \A i \in 1..Len(frame') : frame'[i] = T2[c + a + b + i]
  <2>1. /\ c + a + b + f = Len(T)
        /\ \A i \in 1..b : tlsBuffer[i] = T[c + a + i]
        /\ \A i \in 1..f : frame[i] = T[c + a + b + i]
    BY <1>8 DEF InFlight, a, b, f
  <2>a. /\ c + a + b + f = Len(T) /\ Len(frame') = f + Len(e)
        /\ Len(T2) = Len(T) + Len(e) /\ Len(e) \in Nat
    BY <1>5, <2>1
  <2>2. c + a + b + Len(frame') = Len(T2)
    BY <1>1, <2>a, SMTT(30)
  <2>3. /\ \A i \in 1..b : c + a + i \in 1..Len(T)
        /\ \A i \in 1..f : c + a + b + i \in 1..Len(T)
    BY <1>1, <2>1
  <2>4. \A i \in 1..b : tlsBuffer[i] = T2[c + a + i]
    BY <1>5, <2>1, <2>3
  <2>5. ASSUME NEW i \in 1..Len(frame') PROVE frame'[i] = T2[c + a + b + i]
    <3>1. CASE i \in 1..f
      BY <1>5, <2>1, <2>3, <3>1
    <3>2. CASE ~(i \in 1..f)
      <4>1. /\ i - f \in 1..Len(e) /\ f + (i - f) = i
            /\ Len(T) + (i - f) = c + a + b + i
        <5>1. i - f \in 1..Len(e) /\ f + (i - f) = i
          BY <1>1, <2>a, <3>2
        <5>2. Len(T) + (i - f) = c + a + b + i
          BY <1>1, <2>a, <3>2, SMTT(30)
        <5> QED
          BY <5>1, <5>2
      <4>2. frame'[f + (i - f)] = T2[Len(T) + (i - f)]
        BY <1>5, <4>1
      <4> QED
        BY <4>1, <4>2
    <3> QED
      BY <3>1, <3>2
  <2> QED
    BY <2>2, <2>4, <2>5
<1> QED
  BY <1>3, <1>7, <1>8 DEF InFlight, a, b

\* The reader stays where it is while the stream grows.
LEMMA EncodeReader ==
    ASSUME RecordTypes, Nonced, Delivered, NEW T, NEW off, NEW idx, NEW pad, NEW c,
           RecordStream(T, off, idx, pad), ReaderAt(off, idx, pad, c),
           NEW payload \in Payloads, NEW n \in Nat, EncodeFrameAppend(payload, n),
           UNCHANGED <<wKey, readerVars>>,
           NEW off2, NEW idx2, NEW pad2, Extends(off, idx, pad, off2, idx2, pad2)
    PROVE  ReaderAt(off2, idx2, pad2, c)'
<1>1. PICK d \in Nat : d = Len(delivered)
  BY LenProperties DEF Delivered
<1>0. PICK N \in Nat, L \in Nat : N = Len(written) /\ L = Len(seals)
  BY LenProperties DEF RecordTypes, Nonced, CountUp
<1>2. /\ UNCHANGED <<rPsk, rKey, rNonce, header, rPc, delivered, wKey>> /\ d <= N
      /\ Len(delivered') = d
  BY <1>0, <1>1 DEF readerVars, Delivered
<1>3. /\ written' = Append(written, payload) /\ written \in Seq(Payloads)
      /\ \A k \in 1..N : written'[k] = written[k]
      /\ Len(written') = N + 1 /\ written' # <<>>
  <2>1. written' = Append(written, payload) /\ written \in Seq(Payloads)
    BY DEF RecordTypes, EncodeFrameAppend
  <2>2. Len(written') = N + 1 /\ \A k \in 1..N : written'[k] = written[k]
    BY <1>0, <2>1, AppendProperties
  <2>3. written' # <<>>
    BY <2>2
  <2> QED
    BY <2>1, <2>2, <2>3
<1>4. d + 1 \in 1..N + 1 /\ (d < N => d + 1 \in 1..N)
  BY <1>2
<1>5. off2[d + 1] = off[d + 1] /\ idx2[d + 1] = idx[d + 1]
  BY <1>0, <1>4 DEF Extends
<1>6. \A i \in 1..L + 1 : NonceIn(seals', wNonce', i) = NonceIn(seals, wNonce, i)
  BY <1>0, EncodeNonced
<1>7. idx[d + 1] \in Nat
  <2>1. d + 1 \in Nat
    OBVIOUS
  <2> QED
    BY <2>1 DEF RecordStream
<1>8. d < N => /\ idx[d + 1] + 1 <= L
               /\ written[d + 1] # <<>> => idx[d + 1] + 2 <= L
  <2> SUFFICES ASSUME d < N
               PROVE  /\ idx[d + 1] + 1 <= L
                      /\ written[d + 1] # <<>> => idx[d + 1] + 2 <= L
    OBVIOUS
  <2>1. RecordIn(T, off, idx, pad, d + 1)
    BY <1>0, <1>4 DEF RecordStream
  <2>2. idx[d + 1 + 1] <= L /\ idx[d + 1 + 1] \in Nat
    BY <1>0, <2>1 DEF RecordIn, RecordStream
  <2>3. /\ written[d + 1] = <<>> => idx[d + 1 + 1] = idx[d + 1] + 1
        /\ written[d + 1] # <<>> => idx[d + 1 + 1] = idx[d + 1] + 2
    BY <2>1 DEF RecordIn
  <2> QED
    BY <1>7, <2>2, <2>3
<1>9. idx[d + 1] + 1 \in 1..L + 1
  <2>1. d = N => idx[d + 1] = L
    BY <1>0 DEF RecordStream
  <2> QED
    BY <1>2, <1>7, <1>8, <2>1
<1>10. rPc = "salt" => c = 0 /\ d = 0 /\ rNonce = ZeroNonce
  BY <1>1 DEF ReaderAt
<1>11. ASSUME rPc = "header"
       PROVE  /\ c = off2[d + 1] /\ rKey = DeriveRecordKey(rPsk)
              /\ rNonce = NonceIn(seals', wNonce', idx2[d + 1] + 1)
  <2>1. /\ c = off[d + 1] /\ rKey = DeriveRecordKey(rPsk)
        /\ rNonce = NonceIn(seals, wNonce, idx[d + 1] + 1)
    BY <1>1, <1>11 DEF ReaderAt
  <2> QED
    BY <1>5, <1>6, <1>9, <2>1
<1>12. ASSUME rPc = "body"
       PROVE  /\ d < N + 1 /\ written'[d + 1] # <<>> /\ c = off2[d + 1] + 1
              /\ SameKey /\ rKey = wKey
              /\ header = [pad |-> pad2[d + 1], len |-> Len(written'[d + 1])]
              /\ rNonce = NonceIn(seals', wNonce', idx2[d + 1] + 2)
  <2>1. /\ d < N /\ written[d + 1] # <<>> /\ c = off[d + 1] + 1
        /\ SameKey /\ rKey = wKey
        /\ header = [pad |-> pad[d + 1], len |-> Len(written[d + 1])]
        /\ rNonce = NonceIn(seals, wNonce, idx[d + 1] + 2)
    BY <1>0, <1>1, <1>12 DEF ReaderAt
  <2>2. pad2[d + 1] = pad[d + 1] /\ written'[d + 1] = written[d + 1]
    BY <1>0, <1>3, <1>4, <2>1 DEF Extends
  <2>3. idx[d + 1] + 2 \in 1..L + 1 /\ d < N + 1
    BY <1>2, <1>7, <1>8, <2>1
  <2> QED
    BY <1>5, <1>6, <2>1, <2>2, <2>3
<1> QED
  BY <1>2, <1>3, <1>10, <1>11, <1>12 DEF ReaderAt, SameKey

\* What was delivered stays so as more is written.
LEMMA EncodeDelivered ==
    ASSUME RecordTypes, Delivered, NEW payload \in Payloads, written' = Append(written, payload),
           UNCHANGED <<wKey, readerVars, cut>>
    PROVE  Delivered'
<1>1. PICK N \in Nat, d \in Nat : N = Len(written) /\ d = Len(delivered)
  BY LenProperties DEF RecordTypes, Delivered
<1>2. /\ UNCHANGED <<rPsk, rPc, delivered, wKey, cut>> /\ d <= N
      /\ \A i \in 1..d : delivered[i] = written[i]
  BY <1>1 DEF readerVars, Delivered
<1>3. Len(written') = N + 1 /\ \A k \in 1..N : written'[k] = written[k]
  BY <1>1, AppendProperties DEF RecordTypes
<1>4. d <= N + 1 /\ \A i \in 1..d : i \in 1..N
  BY <1>2
<1>5. /\ Len(delivered') = d /\ Len(delivered') <= Len(written')
      /\ \A i \in 1..d : delivered'[i] = written'[i]
  BY <1>1, <1>2, <1>3, <1>4
<1>6. /\ delivered \in Seq(Payloads) /\ (~SameKey => delivered = <<>>)
      /\ (rPc = "failed" => cut \/ ~SameKey)
      /\ rPc \in {"salt", "header", "body", "failed"}
  BY DEF Delivered
<1>7. SameKey' = SameKey
  BY <1>2 DEF SameKey
<1> QED
  BY <1>2, <1>5, <1>6, <1>7 DEF Delivered

\* encode_frame_append keeps the invariant.
LEMMA EncodeStep ==
    ASSUME RecordInv, NEW payload \in Payloads, NEW n \in Nat, EncodeFrameAppend(payload, n),
           content' \in Payloads, ~(wPc' \in {"opening", "idle"}),
           UNCHANGED <<wKey, readerVars, tlsBuffer, wire, cut>>
    PROVE  RecordInv'
<1>1. RecordTypes /\ Nonced /\ Delivered
  BY DEF RecordInv
<1>2. PICK T, off, idx, pad, c :
        RecordStream(T, off, idx, pad) /\ InFlight(T, c) /\ ReaderAt(off, idx, pad, c)
  BY DEF RecordInv
<1>3. T \in Seq(Bytes) /\ c \in Nat
  BY <1>2 DEF RecordStream, ReaderAt
<1>4. PICK T2, off2, idx2, pad2 :
        /\ RecordStream(T2, off2, idx2, pad2)' /\ Longer(T2, T, payload, n)
        /\ Extends(off, idx, pad, off2, idx2, pad2)
  BY <1>1, <1>2, EncodeStream
<1>5. InFlight(T2, c)' /\ frame' \in Seq(Bytes)
  BY <1>1, <1>2, <1>3, <1>4, EncodeInFlight
<1>6. ReaderAt(off2, idx2, pad2, c)'
  BY <1>1, <1>2, <1>4, EncodeReader
<1>7. Nonced'
  BY <1>1, EncodeNonced
<1>8. saltSent' /\ written' = Append(written, payload)
  BY DEF EncodeFrameAppend
<1>9. Delivered'
  BY <1>1, <1>8, EncodeDelivered
<1>10. RecordTypes'
  <2>1. written' \in Seq(Payloads)
    BY <1>1, <1>8, AppendProperties DEF RecordTypes
  <2> QED
    BY <1>1, <1>5, <1>8, <2>1 DEF RecordTypes, readerVars
<1>11. WriterIdle'
  BY DEF WriterIdle
<1> QED
  BY <1>4, <1>5, <1>6, <1>7, <1>9, <1>10, <1>11 DEF RecordInv

\* A step that only moves bytes keeps it.
LEMMA MoveStep ==
    ASSUME RecordInv, RecordTypes', WriterIdle', cut => cut',
           UNCHANGED <<wKey, saltSent, wNonce, written, seals, readerVars>>,
           \A T \in Seq(Bytes), c \in Nat : InFlight(T, c) => InFlight(T, c)'
    PROVE  RecordInv'
<1>1. RecordTypes /\ Nonced /\ Delivered
  BY DEF RecordInv
<1>2. PICK T, off, idx, pad, c :
        RecordStream(T, off, idx, pad) /\ InFlight(T, c) /\ ReaderAt(off, idx, pad, c)
  BY DEF RecordInv
<1>3. T \in Seq(Bytes) /\ c \in Nat
  BY <1>2 DEF RecordStream, ReaderAt
<1>4. UNCHANGED <<written, seals, wNonce, wKey, rPsk, rKey, rNonce, header, rPc, delivered, saltSent>>
  BY DEF readerVars
<1>5. RecordStream(T, off, idx, pad)' /\ ReaderAt(off, idx, pad, c)'
  BY <1>2, <1>4, StreamFrame, ReaderFrame
<1>6. InFlight(T, c)'
  BY <1>2, <1>3
<1>7. Nonced'
  BY <1>1, <1>4 DEF Nonced
<1>8. Delivered'
  BY <1>1, <1>4 DEF Delivered, SameKey
<1> QED
  BY <1>5, <1>6, <1>7, <1>8 DEF RecordInv

\* What a write holds is a payload.
LEMMA FreshPayload ==
    ASSUME RecordTypes, NEW n \in Nat
    PROVE  Fresh(n) \in Payloads
<1>1. Len(written) \in Nat
  BY RecordLengths
<1>2. Fresh(n) \in [1..n -> Symbols]
  BY <1>1 DEF Fresh, Symbols
<1> QED
  BY <1>2, SegmentIsSequence DEF Payloads

\* The first flight.
LEMMA InitialFlightStep ==
    ASSUME RecordInv, NEW n \in 1..MaxPayload, InitialFlight(n)
    PROVE  RecordInv'
<1>1. n \in Nat /\ RecordTypes
  BY RecordAssumption DEF RecordInv
<1>2. PICK padding \in InitialPaddings(n) : EncodeFrameAppend(Fresh(n), padding)
  BY DEF InitialFlight
<1>3. padding \in Nat
  BY <1>1, RecordAssumption DEF InitialPaddings
<1>4. /\ wPc' = "flushing" /\ content' \in Payloads
      /\ UNCHANGED <<wKey, readerVars, tlsBuffer, wire, cut>>
  BY <1>1 DEF InitialFlight, RecordTypes
<1> QED
  BY <1>1, <1>2, <1>3, <1>4, FreshPayload, EncodeStep

\* One frame.
LEMMA WriteFrameStep ==
    ASSUME RecordInv, NEW n \in 0..MaxPayload, WriteFrame(n)
    PROVE  RecordInv'
<1>1. n \in Nat /\ RecordTypes /\ 0 \in Nat
  BY RecordAssumption DEF RecordInv
<1>2. EncodeFrameAppend(Fresh(n), 0)
  BY DEF WriteFrame
<1>3. /\ wPc' = "flushing" /\ content' \in Payloads
      /\ UNCHANGED <<wKey, readerVars, tlsBuffer, wire, cut>>
  BY <1>1 DEF WriteFrame, RecordTypes
<1> QED
  BY <1>1, <1>2, <1>3, FreshPayload, EncodeStep

\* One chunk of a write.
LEMMA EncodeChunkStep ==
    ASSUME RecordInv, EncodeChunk
    PROVE  RecordInv'
<1>1. RecordTypes /\ content \in Seq(Symbols) /\ Len(content) \in Nat
  BY RecordLengths DEF RecordInv, RecordTypes, Payloads
<1>2. PICK n : /\ n = (IF Len(content) < MaxPayload THEN Len(content) ELSE MaxPayload)
               /\ EncodeFrameAppend(SubSeq(content, 1, n), 0)
               /\ content' = SubSeq(content, n + 1, Len(content))
  BY DEF EncodeChunk
<1>3. n \in Nat /\ n <= Len(content) /\ 0 <= n /\ 0 \in Nat /\ 0 + 1 = 1
  BY <1>1, <1>2, RecordAssumption
<1>4. SubSeq(content, 0 + 1, n) \in Seq(Symbols)
  BY <1>1, <1>3, SubSeqParts
<1>5. SubSeq(content, n + 1, Len(content)) \in Seq(Symbols)
  <2>1. Len(content) <= Len(content)
    BY <1>1
  <2> QED
    BY <1>1, <1>3, <2>1, SubSeqParts
<1>6. SubSeq(content, 1, n) \in Payloads /\ content' \in Payloads
  BY <1>2, <1>3, <1>4, <1>5 DEF Payloads
<1>7. /\ ~(wPc' \in {"opening", "idle"})
      /\ UNCHANGED <<wKey, readerVars, tlsBuffer, wire, cut>>
  BY DEF EncodeChunk
<1> QED
  BY <1>2, <1>3, <1>6, <1>7, EncodeStep

\* The steps that hand bytes on, and those that change nothing of them.
LEMMA MoveSteps ==
    ASSUME RecordInv,
           \/ \E n \in 0..MaxContent : WritePayload(n)
           \/ WriteBatch \/ EncodingDone \/ WriteAndFlush \/ WriteFails
           \/ \E n \in 1..Len(tlsBuffer) : TransportSends(n)
           \/ \E n \in 0..Len(wire) : TransportCut(n)
    PROVE  RecordInv'
<1>1. RecordTypes /\ WriterIdle
  BY DEF RecordInv
<1>2. ASSUME NEW n \in 0..MaxContent, WritePayload(n) PROVE RecordInv'
  <2>1. n \in Nat
    BY RecordAssumption
  <2>2. /\ content' \in Payloads /\ wPc' = "encoding"
        /\ UNCHANGED <<wKey, saltSent, wNonce, frame, written, seals, readerVars, tlsBuffer, wire, cut>>
    BY <1>1, <1>2, <2>1, FreshPayload DEF WritePayload
  <2>3. RecordTypes' /\ WriterIdle'
    BY <1>1, <2>2 DEF RecordTypes, WriterIdle, readerVars
  <2>4. \A T \in Seq(Bytes), c \in Nat : InFlight(T, c) => InFlight(T, c)'
    BY <2>2 DEF InFlight
  <2> QED
    BY <2>2, <2>3, <2>4, MoveStep
<1>3. CASE WriteBatch
  <2>1. \A T \in Seq(Bytes), c \in Nat :
          InFlight(T, c) => InFlight(T, c)' /\ tlsBuffer' \in Seq(Bytes)
    BY <1>1, <1>3, BatchInFlight
  <2>2. tlsBuffer' \in Seq(Bytes)
    BY <1>1, <1>3, ConcatProperties DEF WriteBatch, RecordTypes
  <2>3. /\ wPc' = "encoding" /\ frame' = <<>>
        /\ UNCHANGED <<wKey, saltSent, wNonce, content, written, seals, readerVars, wire, cut>>
    BY <1>3 DEF WriteBatch
  <2>4. RecordTypes' /\ WriterIdle'
    BY <1>1, <2>2, <2>3 DEF RecordTypes, WriterIdle, readerVars
  <2> QED
    BY <2>1, <2>3, <2>4, MoveStep
<1>4. CASE EncodingDone \/ WriteFails
  <2>1. /\ ~(wPc' \in {"opening", "idle"})
        /\ UNCHANGED <<wKey, saltSent, wNonce, frame, content, written, seals, readerVars,
                       tlsBuffer, wire, cut>>
    BY <1>4 DEF EncodingDone, WriteFails
  <2>2. RecordTypes' /\ WriterIdle'
    BY <1>1, <2>1 DEF RecordTypes, WriterIdle, readerVars
  <2>3. \A T \in Seq(Bytes), c \in Nat : InFlight(T, c) => InFlight(T, c)'
    BY <2>1 DEF InFlight
  <2> QED
    BY <2>1, <2>2, <2>3, MoveStep
<1>5. CASE WriteAndFlush
  <2>1. \A T \in Seq(Bytes), c \in Nat :
          InFlight(T, c) => InFlight(T, c)' /\ wire' \in Seq(Bytes)
    BY <1>1, <1>5, FlushInFlight
  <2>2. wire' \in Seq(Bytes)
    <3>1. wire \o tlsBuffer \in Seq(Bytes)
      BY <1>1, ConcatProperties DEF RecordTypes
    <3> QED
      BY <1>1, <1>5, <3>1, ConcatProperties DEF WriteAndFlush, RecordTypes
  <2>3. /\ wPc' = "idle" /\ frame' = <<>> /\ tlsBuffer' = <<>>
        /\ UNCHANGED <<wKey, saltSent, wNonce, content, written, seals, readerVars, cut>>
    BY <1>5 DEF WriteAndFlush
  <2>4. RecordTypes' /\ WriterIdle'
    BY <1>1, <2>2, <2>3 DEF RecordTypes, WriterIdle, readerVars
  <2> QED
    BY <2>1, <2>3, <2>4, MoveStep
<1>6. ASSUME NEW n \in 1..Len(tlsBuffer), TransportSends(n) PROVE RecordInv'
  <2>1. \A T \in Seq(Bytes), c \in Nat :
          InFlight(T, c) => /\ InFlight(T, c)'
                            /\ wire' \in Seq(Bytes) /\ tlsBuffer' \in Seq(Bytes)
    BY <1>1, <1>6, SendInFlight
  <2>2. UNCHANGED <<writerVars, readerVars, cut>>
    BY <1>6 DEF TransportSends
  <2>3. wire' \in Seq(Bytes) /\ tlsBuffer' \in Seq(Bytes)
    BY <2>1 DEF RecordInv, RecordStream, ReaderAt
  <2>4. ~(wPc \in {"opening", "idle"})
    <3>1. Len(tlsBuffer) # 0
      BY <1>1, RecordLengths
    <3>2. tlsBuffer # <<>>
      BY <3>1
    <3> QED
      BY <1>1, <3>2 DEF WriterIdle
  <2>5. RecordTypes' /\ WriterIdle'
    BY <1>1, <2>2, <2>3, <2>4 DEF RecordTypes, WriterIdle, readerVars, writerVars
  <2>6. UNCHANGED <<wKey, saltSent, wNonce, written, seals, readerVars>>
    BY <2>2 DEF writerVars
  <2> QED
    BY <2>1, <2>2, <2>5, <2>6, MoveStep
<1>7. ASSUME NEW n \in 0..Len(wire), TransportCut(n) PROVE RecordInv'
  <2>1. \A T \in Seq(Bytes), c \in Nat :
          InFlight(T, c) => InFlight(T, c)' /\ wire' \in Seq(Bytes)
    BY <1>1, <1>7, CutInFlight
  <2>2. UNCHANGED <<writerVars, readerVars>> /\ tlsBuffer' = <<>> /\ cut'
    BY <1>7 DEF TransportCut
  <2>3. wire' \in Seq(Bytes) /\ cut' = TRUE
    BY <1>7, <2>1 DEF RecordInv, RecordStream, ReaderAt, TransportCut
  <2>4. RecordTypes' /\ WriterIdle'
    BY <1>1, <2>2, <2>3 DEF RecordTypes, WriterIdle, readerVars, writerVars
  <2>5. UNCHANGED <<wKey, saltSent, wNonce, written, seals, readerVars>>
    BY <2>2 DEF writerVars
  <2> QED
    BY <2>1, <2>2, <2>4, <2>5, MoveStep
<1> QED
  BY <1>2, <1>3, <1>4, <1>5, <1>6, <1>7

-----------------------------------------------------------------------------
(* Records: steps of the reader *)

\* The reader takes m bytes.
TakeBytes(m) == /\ m <= Len(wire) /\ wire' = SubSeq(wire, m + 1, Len(wire))
                /\ UNCHANGED <<frame, tlsBuffer, cut>>

\* The rest is in flight from m bytes further on.
LEMMA TakeInFlight ==
    ASSUME RecordTypes, NEW T, NEW c \in Nat, InFlight(T, c), NEW m \in Nat, TakeBytes(m)
    PROVE  InFlight(T, c + m)' /\ wire' \in Seq(Bytes)
<1> DEFINE a == Len(wire)
           b == Len(tlsBuffer)
           f == Len(frame)
<1>1. a \in Nat /\ b \in Nat /\ f \in Nat /\ m <= a /\ wire \in Seq(Bytes)
  BY RecordLengths DEF TakeBytes, RecordTypes
<1>2. SubSeq(wire, m + 1, a) \in Seq(Bytes) /\ Part(SubSeq(wire, m + 1, a), wire, m, a)
  <2>1. a <= Len(wire)
    BY <1>1
  <2> HIDE DEF a
  <2> QED
    BY <1>1, <2>1, SubSeqParts
<1>3. /\ wire' \in Seq(Bytes) /\ Len(wire') = a - m
      /\ \A i \in 1..a - m : wire'[i] = wire[m + i]
  BY <1>2 DEF TakeBytes, Part
<1>4. UNCHANGED <<frame, tlsBuffer, cut>>
  BY DEF TakeBytes
<1>5. c + a <= Len(T) /\ \A i \in 1..a : wire[i] = T[c + i]
  BY DEF InFlight
<1> HIDE DEF a, b, f
<1>6. /\ (c + m) + (a - m) = c + a
      /\ \A i \in 1..a - m : m + i \in 1..a /\ c + (m + i) = (c + m) + i
  BY <1>1
<1>7. \A i \in 1..a - m : wire'[i] = T[(c + m) + i]
  BY <1>3, <1>5, <1>6
<1>8. ASSUME ~cut
      PROVE  /\ (c + m) + (a - m) + b + f = Len(T)
             /\ \A i \in 1..b : tlsBuffer[i] = T[(c + m) + (a - m) + i]
             /\ \A i \in 1..f : frame[i] = T[(c + m) + (a - m) + b + i]
  <2>1. /\ c + a + b + f = Len(T)
        /\ \A i \in 1..b : tlsBuffer[i] = T[c + a + i]
        /\ \A i \in 1..f : frame[i] = T[c + a + b + i]
    BY <1>8 DEF InFlight, a, b, f
  <2> QED
    BY <1>6, <2>1
<1> QED
  BY <1>3, <1>4, <1>5, <1>6, <1>7, <1>8 DEF InFlight, b, f

\* What it took is the stream from byte c + 1 on.
LEMMA TakenBytes ==
    ASSUME RecordTypes, NEW T \in Seq(Bytes), NEW c \in Nat, InFlight(T, c),
           NEW m \in Nat, m <= Len(wire)
    PROVE  /\ SubSeq(wire, 1, m) \in Seq(Bytes) /\ Len(SubSeq(wire, 1, m)) = m
           /\ \A i \in 1..m : SubSeq(wire, 1, m)[i] = T[c + i]
           /\ c + m <= Len(T)
<1> DEFINE x == SubSeq(wire, 0 + 1, m)
<1>1. Len(wire) \in Nat /\ wire \in Seq(Bytes)
  BY RecordLengths DEF RecordTypes
<1>2. x \in Seq(Bytes) /\ Part(x, wire, 0, m)
  <2>1. 0 \in Nat /\ 0 <= m
    OBVIOUS
  <2> QED
    BY <1>1, <2>1, SubSeqParts
<1>3. 0 + 1 = 1 /\ m - 0 = m /\ \A i \in 1..m : 0 + i = i /\ i \in 1..Len(wire)
  BY <1>1
<1>4. c + Len(wire) <= Len(T) /\ \A i \in 1..Len(wire) : wire[i] = T[c + i]
  BY DEF InFlight
<1> HIDE DEF x
<1>5. x \in Seq(Bytes) /\ Len(x) = m /\ \A i \in 1..m : x[i] = T[c + i]
  BY <1>2, <1>3, <1>4 DEF Part
<1>6. c + m <= Len(T)
  <2>1. Len(T) \in Nat
    BY LenProperties
  <2> QED
    BY <1>1, <1>4, <2>1
<1> QED
  BY <1>3, <1>5, <1>6 DEF x

\* The reader's place in a stream of T bytes, when it has bytes to read: at
\* record k, whose header is byte a + 1 and was sealed with nonce b + 1.
DueIs(T, off, idx, pad, k, a, b, w, p) ==
    /\ k \in 1..Len(written) /\ k = Len(delivered) + 1
    /\ a = off[k] /\ b = idx[k] /\ w = written[k] /\ p = pad[k]
    /\ a \in Nat /\ b \in Nat /\ w \in Payloads /\ p \in Nat
    /\ b + 1 <= Len(seals)
    /\ T[a + 1] = HeaderByte(wKey, seals[b + 1], w, p)
    /\ w = <<>> => off[k + 1] = a + 1 /\ idx[k + 1] = b + 1
    /\ w # <<>> => /\ off[k + 1] = (a + 1) + (p + (Len(w) + 1))
                   /\ idx[k + 1] = b + 2 /\ b + 2 <= Len(seals)
                   /\ \A i \in 1..p + (Len(w) + 1) :
                        T[a + 1 + i] = BodyBytes(wKey, seals[b + 2], w, p)[i]

\* The next record to be delivered is in the stream.
LEMMA NextRecord ==
    ASSUME RecordTypes, Nonced, Delivered, NEW T, NEW off, NEW idx, NEW pad,
           RecordStream(T, off, idx, pad), Len(delivered) < Len(written)
    PROVE  \E k, a, b, w, p : DueIs(T, off, idx, pad, k, a, b, w, p)
<1>1. PICK N \in Nat, d \in Nat, L \in Nat :
        N = Len(written) /\ d = Len(delivered) /\ L = Len(seals)
  BY LenProperties DEF RecordTypes, Delivered, Nonced, CountUp
<1>2. PICK k \in Nat : k = d + 1
  OBVIOUS
<1>3. k \in 1..N /\ k + 1 \in Nat
  BY <1>1, <1>2
<1>4. /\ RecordIn(T, off, idx, pad, k) /\ off[k] \in Nat /\ idx[k] \in Nat /\ pad[k] \in Nat
      /\ idx[k + 1] \in Nat
  BY <1>1, <1>3 DEF RecordStream
<1>5. PICK a \in Nat, b \in Nat, p \in Nat : a = off[k] /\ b = idx[k] /\ p = pad[k]
  BY <1>4
<1>6. PICK w \in Payloads : w = written[k]
  BY <1>1, <1>3, ElementOfSeq DEF RecordTypes
<1>7. /\ idx[k + 1] <= L
      /\ T[a + 1] = HeaderByte(wKey, seals[b + 1], w, p)
      /\ w = <<>> => off[k + 1] = a + 1 /\ idx[k + 1] = b + 1
      /\ w # <<>> => /\ off[k + 1] = (a + 1) + (p + (Len(w) + 1))
                     /\ idx[k + 1] = b + 2
                     /\ \A i \in 1..p + (Len(w) + 1) :
                          T[a + 1 + i] = BodyBytes(wKey, seals[b + 2], w, p)[i]
  BY <1>1, <1>4, <1>5, <1>6 DEF RecordIn
<1>8. b + 1 <= L /\ (w # <<>> => b + 2 <= L)
  BY <1>4, <1>7
<1>9. DueIs(T, off, idx, pad, k, a, b, w, p)
  BY <1>1, <1>2, <1>3, <1>5, <1>6, <1>7, <1>8 DEF DueIs
<1> QED
  BY <1>9

\* Delivering the next record.
LEMMA DeliverNext ==
    ASSUME RecordTypes, Delivered, SameKey, NEW k \in 1..Len(written), k = Len(delivered) + 1,
           delivered' = Append(delivered, written[k]), rPc' = "header",
           UNCHANGED <<written, wKey, rPsk>>
    PROVE  Delivered' /\ Len(delivered') = k
<1>1. PICK N \in Nat, d \in Nat : N = Len(written) /\ d = Len(delivered)
  BY LenProperties DEF RecordTypes, Delivered
<1>2. written[k] \in Payloads
  BY ElementOfSeq DEF RecordTypes
<1>3. delivered \in Seq(Payloads) /\ \A i \in 1..d : delivered[i] = written[i]
  BY <1>1 DEF Delivered
<1>4. /\ delivered' \in Seq(Payloads) /\ Len(delivered') = d + 1
      /\ delivered'[d + 1] = written[k] /\ \A i \in 1..d : delivered'[i] = delivered[i]
  BY <1>1, <1>2, <1>3, AppendProperties
<1>5. k = d + 1 /\ k <= N /\ \A i \in 1..k : i \in 1..d \/ i = k
  BY <1>1
<1>6. \A i \in 1..k : delivered'[i] = written[i]
  BY <1>3, <1>4, <1>5
<1> QED
  BY <1>1, <1>4, <1>5, <1>6 DEF Delivered, SameKey

\* A step of the reader keeps what the writer has.
LEMMA ReadStep ==
    ASSUME RecordInv, UNCHANGED <<writerVars, rPsk, tlsBuffer, cut>>, wire' \in Seq(Bytes),
           Delivered',
           NEW T, NEW off, NEW idx, NEW pad, NEW c, RecordStream(T, off, idx, pad),
           InFlight(T, c)', ReaderAt(off, idx, pad, c)'
    PROVE  RecordInv'
<1>1. UNCHANGED <<wKey, saltSent, wNonce, frame, content, wPc, written, seals>>
  BY DEF writerVars
<1>2. RecordStream(T, off, idx, pad)'
  BY <1>1, StreamFrame
<1>3. RecordTypes' /\ WriterIdle' /\ Nonced'
  BY <1>1 DEF RecordInv, RecordTypes, WriterIdle, Nonced
<1> QED
  BY <1>2, <1>3 DEF RecordInv

\* The salt: the first record follows it.
LEMMA ReadSaltStep ==
    ASSUME RecordInv, ReadSalt
    PROVE  RecordInv'
<1>1. RecordTypes /\ Nonced /\ Delivered
  BY DEF RecordInv
<1>2. PICK T, off, idx, pad, c :
        RecordStream(T, off, idx, pad) /\ InFlight(T, c) /\ ReaderAt(off, idx, pad, c)
  BY DEF RecordInv
<1>3. /\ rPc = "salt" /\ rKey' = DeriveRecordKey(rPsk) /\ rPc' = "header"
      /\ UNCHANGED <<writerVars, rPsk, rNonce, header, delivered, tlsBuffer, cut>>
  BY DEF ReadSalt
<1>4. Len(wire) \in Nat /\ Len(T) \in Nat
  BY <1>1, <1>2, RecordLengths, LenProperties DEF RecordStream
<1>5. Needed = 1 /\ 1 <= Len(wire) /\ wire' = SubSeq(wire, 1 + 1, Len(wire))
  BY <1>3, <1>4 DEF ReadSalt, Blocked, Needed
<1>6. UNCHANGED <<wKey, saltSent, wNonce, frame, content, wPc, written, seals>>
  BY <1>3 DEF writerVars
<1>7. TakeBytes(1)
  BY <1>3, <1>5, <1>6 DEF TakeBytes
<1>8. c = 0 /\ Len(delivered) = 0 /\ rNonce = ZeroNonce
  BY <1>2, <1>3 DEF ReaderAt
<1>9. InFlight(T, 0 + 1)' /\ wire' \in Seq(Bytes)
  BY <1>1, <1>2, <1>7, <1>8, TakeInFlight
<1>10. written # <<>>
  <2>1. 0 + Len(wire) <= Len(T)
    BY <1>2, <1>8 DEF InFlight
  <2>2. Len(T) # 0
    BY <1>4, <1>5, <2>1
  <2>3. T # <<>>
    BY <2>2
  <2> QED
    BY <1>2, <2>3 DEF RecordStream
<1>11. off[1] = 1 /\ idx[1] = 0 /\ NonceIn(seals, wNonce, 1) = ZeroNonce /\ 0 + 1 = 1
  BY <1>1, <1>2 DEF RecordStream, Nonced, CountUp
<1>12. ReaderAt(off, idx, pad, 1)'
  BY <1>3, <1>6, <1>8, <1>10, <1>11 DEF ReaderAt
<1>13. Delivered'
  BY <1>1, <1>3, <1>6 DEF Delivered, SameKey
<1> QED
  BY <1>2, <1>3, <1>9, <1>11, <1>12, <1>13, ReadStep

\* The next nonce of the reader is the next one of the stream.
LEMMA NextNonce ==
    ASSUME Nonced, NEW b \in Nat, b + 1 <= Len(seals)
    PROVE  /\ NonceIn(seals, wNonce, b + 1) = seals[b + 1]
           /\ NonceIn(seals, wNonce, b + 2) = IncrementNonce(seals[b + 1])
<1>1. Len(seals) \in Nat
  BY LenProperties DEF Nonced, CountUp
<1>2. b + 1 \in 1..Len(seals) /\ (b + 1) + 1 = b + 2
  BY <1>1
<1>3. NonceIn(seals, wNonce, b + 1) = seals[b + 1]
  BY <1>2 DEF NonceIn
<1>4. NonceIn(seals, wNonce, (b + 1) + 1) = IncrementNonce(NonceIn(seals, wNonce, b + 1))
  BY <1>2 DEF Nonced, CountUp
<1> QED
  BY <1>2, <1>3, <1>4

\* A header with bytes to read is that of the next record.
LEMMA HeaderDue ==
    ASSUME RecordTypes, Nonced, Delivered, rPc = "header", NEW T, NEW off, NEW idx, NEW pad, NEW c,
           RecordStream(T, off, idx, pad), InFlight(T, c), ReaderAt(off, idx, pad, c), 1 <= Len(wire)
    PROVE  Len(delivered) < Len(written)
<1>1. PICK N \in Nat, d \in Nat : N = Len(written) /\ d = Len(delivered)
  BY LenProperties DEF RecordTypes, Delivered
<1>2. d <= N /\ Len(wire) \in Nat /\ Len(T) \in Nat
  BY <1>1, RecordLengths, LenProperties DEF Delivered, RecordStream
<1>3. written # <<>> /\ c = off[d + 1] /\ c \in Nat
  BY <1>1 DEF ReaderAt
<1>4. c + Len(wire) <= Len(T)
  BY DEF InFlight
<1>5. off[N + 1] = Len(T)
  BY <1>1, <1>3 DEF RecordStream
<1>6. d # N
  BY <1>2, <1>3, <1>4, <1>5
<1> QED
  BY <1>1, <1>2, <1>6

\* A header.
LEMMA ReadHeaderStep ==
    ASSUME RecordInv, ReadHeader
    PROVE  RecordInv'
<1>1. RecordTypes /\ Nonced /\ Delivered
  BY DEF RecordInv
<1>2. PICK T, off, idx, pad, c :
        RecordStream(T, off, idx, pad) /\ InFlight(T, c) /\ ReaderAt(off, idx, pad, c)
  BY DEF RecordInv
<1>3. /\ rPc = "header" /\ UNCHANGED <<writerVars, rPsk, rKey, tlsBuffer, cut>>
      /\ wire' = SubSeq(wire, Needed + 1, Len(wire)) /\ ~Blocked
  BY DEF ReadHeader
<1>4. Len(wire) \in Nat /\ c \in Nat /\ T \in Seq(Bytes)
  BY <1>1, <1>2, RecordLengths DEF ReaderAt, RecordStream
<1>5. Needed = 1 /\ 1 <= Len(wire) /\ wire' = SubSeq(wire, 1 + 1, Len(wire))
  BY <1>3, <1>4 DEF Blocked, Needed
<1>6. UNCHANGED <<wKey, saltSent, wNonce, frame, content, wPc, written, seals>>
  BY <1>3 DEF writerVars
<1>7. InFlight(T, c + 1)' /\ wire' \in Seq(Bytes)
  <2>1. TakeBytes(1)
    BY <1>3, <1>5, <1>6 DEF TakeBytes
  <2> QED
    BY <1>1, <1>2, <1>4, <2>1, TakeInFlight
<1>8. Len(delivered) < Len(written)
  BY <1>1, <1>2, <1>3, <1>5, HeaderDue
<1>9. PICK k, a, b, w, p : DueIs(T, off, idx, pad, k, a, b, w, p)
  BY <1>1, <1>2, <1>8, NextRecord
<1>10. /\ k \in 1..Len(written) /\ k = Len(delivered) + 1 /\ k \in Nat
       /\ a = off[k] /\ b = idx[k] /\ w = written[k] /\ p = pad[k]
       /\ a \in Nat /\ b \in Nat /\ w \in Payloads /\ p \in Nat /\ b + 1 <= Len(seals)
       /\ T[a + 1] = HeaderByte(wKey, seals[b + 1], w, p)
       /\ w = <<>> => off[k + 1] = a + 1 /\ idx[k + 1] = b + 1
  BY <1>9 DEF DueIs
<1>11. /\ c = a /\ rKey = DeriveRecordKey(rPsk)
       /\ rNonce = NonceIn(seals, wNonce, b + 1)
  BY <1>2, <1>3, <1>10 DEF ReaderAt
<1>12. rNonce = seals[b + 1] /\ IncrementNonce(rNonce) = NonceIn(seals, wNonce, b + 2)
  BY <1>1, <1>10, <1>11, NextNonce
<1>13. Len(Taken) = 1 /\ Taken[1] = HeaderByte(wKey, seals[b + 1], w, p)
  <2>1. 1 \in Nat /\ 1 \in 1..1
    OBVIOUS
  <2>2. /\ Len(SubSeq(wire, 1, 1)) = 1
        /\ \A i \in 1..1 : SubSeq(wire, 1, 1)[i] = T[c + i]
    BY <1>1, <1>2, <1>4, <1>5, <2>1, TakenBytes
  <2>3. Taken = SubSeq(wire, 1, 1)
    BY <1>5 DEF Taken
  <2> HIDE DEF Taken
  <2> QED
    BY <1>10, <1>11, <2>1, <2>2, <2>3
<1>14. /\ Taken[1].k = "sealed" /\ Taken[1].key = wKey /\ Taken[1].nonce = seals[b + 1]
       /\ Taken[1].text = [pad |-> p, len |-> Len(w)]
  BY <1>13 DEF HeaderByte
<1>15. Opens(rKey, rNonce, Taken) <=> SameKey
  BY <1>11, <1>12, <1>13, <1>14 DEF Opens, SameKey
<1>16. CASE ~SameKey
  <2>1. rPc' = "failed" /\ UNCHANGED <<rNonce, header, delivered>>
    BY <1>15, <1>16 DEF ReadHeader
  <2>2. Delivered'
    BY <1>1, <1>3, <1>6, <1>16, <2>1 DEF Delivered, SameKey
  <2>3. c + 1 \in Nat
    BY <1>4
  <2>4. ReaderAt(off, idx, pad, c + 1)'
    BY <2>1, <2>3 DEF ReaderAt
  <2> QED
    BY <1>2, <1>3, <1>7, <2>2, <2>4, ReadStep
<1>17. CASE SameKey
  <2>1. /\ rNonce' = IncrementNonce(rNonce) /\ header' = [pad |-> p, len |-> Len(w)]
        /\ IF header'.len = 0
           THEN delivered' = Append(delivered, <<>>) /\ UNCHANGED rPc
           ELSE rPc' = "body" /\ UNCHANGED delivered
    BY <1>14, <1>15, <1>17 DEF ReadHeader
  <2>2. header'.len = Len(w) /\ Len(w) \in Nat /\ (w = <<>> <=> Len(w) = 0)
    <3>1. w \in Seq(Symbols)
      BY <1>10 DEF Payloads
    <3>2. Len(w) \in Nat /\ (w = <<>> <=> Len(w) = 0)
      BY <3>1, EmptySeq, LenProperties
    <3> QED
      BY <2>1, <3>2
  <2>3. c + 1 \in Nat /\ c + 1 = a + 1
    BY <1>4, <1>11
  <2>4. rNonce' = NonceIn(seals', wNonce', b + 2)
    BY <1>6, <1>12, <2>1
  <2>5. rKey' = wKey' /\ SameKey' /\ rKey' = DeriveRecordKey(rPsk')
    BY <1>3, <1>6, <1>11, <1>17 DEF SameKey
  <2>6. CASE w = <<>>
    <3>1. delivered' = Append(delivered, written[k]) /\ rPc' = "header"
      BY <1>3, <1>10, <2>1, <2>2, <2>6
    <3>2. Delivered' /\ Len(delivered') = k
      BY <1>1, <1>3, <1>6, <1>10, <1>17, <3>1, DeliverNext
    <3>3. /\ off[k + 1] = c + 1 /\ idx[k + 1] + 1 = b + 2
      BY <1>10, <2>3, <2>6, SMTT(30)
    <3>4. written' # <<>>
      <4>1. Len(written) # 0
        BY <1>10
      <4> QED
        BY <1>6, <4>1
    <3>5. ReaderAt(off, idx, pad, c + 1)'
      BY <2>3, <2>4, <2>5, <3>1, <3>2, <3>3, <3>4 DEF ReaderAt
    <3> QED
      BY <1>2, <1>3, <1>7, <3>2, <3>5, ReadStep
  <2>7. CASE w # <<>>
    <3>1. delivered' = delivered /\ rPc' = "body"
      BY <2>1, <2>2, <2>7
    <3>2. Delivered'
      BY <1>1, <1>3, <1>6, <3>1 DEF Delivered, SameKey
    <3>3. /\ Len(delivered') < Len(written') /\ Len(delivered') + 1 = k
          /\ written'[k] = w /\ idx[k] + 2 = b + 2
      BY <1>6, <1>8, <1>10, <3>1
    <3>4. ReaderAt(off, idx, pad, c + 1)'
      BY <1>10, <2>1, <2>3, <2>4, <2>5, <2>7, <3>1, <3>3 DEF ReaderAt
    <3> QED
      BY <1>2, <1>3, <1>7, <3>2, <3>4, ReadStep
  <2> QED
    BY <2>6, <2>7
<1> QED
  BY <1>16, <1>17

\* The ciphertext of a body t of m bytes, p of them padding.
Unpadded(t, p, m) == SubSeq(SwapPadding(SubSeq(t, 1, p), SubSeq(t, p + 1, m)), p + 1, m)

\* t is the body of a record with payload w.
IsBody(t, key, nonce, w, p, m) ==
    /\ m = p + (Len(w) + 1) /\ t \in Seq(Bytes) /\ Len(t) = m
    /\ \A i \in 1..m : t[i] = BodyBytes(key, nonce, w, p)[i]

\* x opens as the payload w.
OpensAs(x, key, nonce, w) == Opens(key, nonce, x) /\ [i \in 1..Len(w) |-> x[i].text] = w

\* What the reader takes for a body, and opens, is the payload.
LEMMA BodyOpened ==
    ASSUME NEW key \in Keys, NEW nonce \in Nonces, NEW w \in Payloads, NEW p \in Nat,
           NEW t, NEW m, IsBody(t, key, nonce, w, p, m)
    PROVE  OpensAs(Unpadded(t, p, m), key, nonce, w)
<1> DEFINE e == BodyBytes(key, nonce, w, p)
           q == BodyText(key, nonce, w)
           z == Padding(p)
<1>1. /\ z \in Seq(Bytes) /\ Len(z) = p /\ e \in Seq(Bytes)
      /\ Len(e) = p + (Len(w) + 1) /\ Swaps(e, z, q)
  BY BodyBytesSwap
<1>2. /\ q \in Seq(Bytes) /\ Len(q) = Len(w) + 1 /\ Opens(key, nonce, q)
      /\ \A i \in 1..Len(w) : q[i].text = w[i]
  BY BodyTextOpens
<1> HIDE DEF e, q, z
<1>3. t = e
  <2>1. t \in Seq(Bytes) /\ Len(t) = Len(e) /\ \A i \in 1..Len(t) : t[i] = e[i]
    BY <1>1 DEF e, IsBody
  <2> QED
    BY <1>1, <2>1, SeqEqual
<1>4. SubSeq(SwapPadding(SubSeq(t, 1, Len(z)), SubSeq(t, Len(z) + 1, Len(z) + Len(q))),
             Len(z) + 1, Len(z) + Len(q)) = q
  BY <1>1, <1>2, <1>3, SwapPaddingBack
<1>5. Unpadded(t, p, m) = q
  <2>1. m = Len(z) + Len(q) /\ p = Len(z)
    BY <1>1, <1>2 DEF IsBody
  <2> QED
    BY <1>4, <2>1 DEF Unpadded
<1>6. [i \in 1..Len(w) |-> q[i].text] = w
  <2>1. w \in Seq(Symbols)
    BY DEF Payloads
  <2>2. Len(w) \in Nat /\ w \in [1..Len(w) -> Symbols]
    BY <2>1, LenProperties
  <2> QED
    BY <1>2, <2>2
<1> QED
  BY <1>2, <1>5, <1>6 DEF OpensAs

\* A body.
LEMMA ReadBodyStep ==
    ASSUME RecordInv, ReadBody
    PROVE  RecordInv'
<1>1. RecordTypes /\ Nonced /\ Delivered
  BY DEF RecordInv
<1>2. PICK T, off, idx, pad, c :
        RecordStream(T, off, idx, pad) /\ InFlight(T, c) /\ ReaderAt(off, idx, pad, c)
  BY DEF RecordInv
<1>3. /\ rPc = "body" /\ UNCHANGED <<writerVars, rPsk, rKey, header, tlsBuffer, cut>>
      /\ wire' = SubSeq(wire, Needed + 1, Len(wire)) /\ ~Blocked
  BY DEF ReadBody
<1>4. Len(wire) \in Nat /\ c \in Nat /\ T \in Seq(Bytes)
  BY <1>1, <1>2, RecordLengths DEF ReaderAt, RecordStream
<1>5. UNCHANGED <<wKey, saltSent, wNonce, frame, content, wPc, written, seals>>
  BY <1>3 DEF writerVars
<1>6. Len(delivered) < Len(written)
  BY <1>2, <1>3 DEF ReaderAt
<1>7. PICK k, a, b, w, p : DueIs(T, off, idx, pad, k, a, b, w, p)
  BY <1>1, <1>2, <1>6, NextRecord
<1>8. /\ k \in 1..Len(written) /\ k = Len(delivered) + 1 /\ k \in Nat
      /\ a = off[k] /\ b = idx[k] /\ w = written[k] /\ p = pad[k]
      /\ a \in Nat /\ b \in Nat /\ w \in Payloads /\ p \in Nat
  BY <1>7 DEF DueIs
<1>9. /\ w # <<>> /\ c = a + 1 /\ SameKey /\ rKey = wKey
      /\ header = [pad |-> p, len |-> Len(w)]
      /\ rNonce = NonceIn(seals, wNonce, b + 2)
  BY <1>2, <1>3, <1>8 DEF ReaderAt
<1>10. /\ off[k + 1] = (a + 1) + (p + (Len(w) + 1))
       /\ idx[k + 1] = b + 2 /\ b + 2 <= Len(seals)
       /\ \A i \in 1..p + (Len(w) + 1) :
            T[a + 1 + i] = BodyBytes(wKey, seals[b + 2], w, p)[i]
  BY <1>7, <1>9 DEF DueIs
<1>11. Len(w) \in Nat
  BY <1>8, LenProperties DEF Payloads
<1>12. PICK m \in Nat : m = p + (Len(w) + 1)
  BY <1>8, <1>11
<1>13. Needed = m /\ m <= Len(wire) /\ wire' = SubSeq(wire, m + 1, Len(wire))
  <2>1. Needed = p + Len(w) + 1
    BY <1>3, <1>9 DEF Needed
  <2>2. Needed = m
    BY <1>8, <1>11, <1>12, <2>1, SMTT(30)
  <2> QED
    BY <1>3, <1>4, <2>2 DEF Blocked
<1>14. InFlight(T, c + m)' /\ wire' \in Seq(Bytes)
  <2>1. TakeBytes(m)
    BY <1>3, <1>5, <1>13 DEF TakeBytes
  <2> QED
    BY <1>1, <1>2, <1>4, <2>1, TakeInFlight
<1>15. PICK t : t = SubSeq(wire, 1, m)
  OBVIOUS
<1>16. t \in Seq(Bytes) /\ Len(t) = m /\ \A i \in 1..m : t[i] = T[c + i]
  BY <1>1, <1>2, <1>4, <1>13, <1>15, TakenBytes
<1>17. /\ rNonce = seals[b + 2] /\ seals[b + 2] \in Nonces /\ wKey \in Keys
       /\ IncrementNonce(rNonce) = NonceIn(seals, wNonce, b + 2 + 1)
  <2>1. b + 1 \in Nat /\ (b + 1) + 1 = b + 2 /\ (b + 1) + 2 = b + 2 + 1 /\ b + 2 \in Nat
    BY <1>8
  <2>2. /\ NonceIn(seals, wNonce, (b + 1) + 1) = seals[(b + 1) + 1]
        /\ NonceIn(seals, wNonce, (b + 1) + 2) = IncrementNonce(seals[(b + 1) + 1])
    BY <1>1, <1>10, <2>1, NextNonce
  <2>3. b + 2 \in 1..Len(seals) /\ seals \in Seq(Nonces)
    <3>1. seals \in Seq(Nonces) /\ Len(seals) \in Nat
      BY <1>1, LenProperties DEF Nonced, CountUp
    <3>2. b \in Nat /\ b + 2 <= Len(seals)
      BY <1>8, <1>10
    <3> QED
      BY <3>1, <3>2
  <2>4. seals[b + 2] \in Nonces
    BY <2>3, ElementOfSeq
  <2> QED
    BY <1>1, <1>9, <2>1, <2>2, <2>4 DEF RecordTypes
<1>18. PICK x : x = Unpadded(t, p, m)
  OBVIOUS
<1>19. Opens(wKey, seals[b + 2], x) /\ [i \in 1..Len(w) |-> x[i].text] = w
  <2>1. \A i \in 1..p + (Len(w) + 1) : t[i] = BodyBytes(wKey, seals[b + 2], w, p)[i]
    BY <1>9, <1>10, <1>12, <1>16
  <2>2. IsBody(t, wKey, seals[b + 2], w, p, m)
    BY <1>12, <1>16, <2>1 DEF IsBody
  <2>3. OpensAs(x, wKey, seals[b + 2], w)
    BY <1>8, <1>17, <1>18, <2>2, BodyOpened
  <2> QED
    BY <2>3 DEF OpensAs
<1>20. /\ rNonce' = IncrementNonce(rNonce) /\ rPc' = "header"
       /\ delivered' = Append(delivered, w)
  <2>1. Taken = t
    BY <1>13, <1>15 DEF Taken
  <2>2. header.pad = p /\ header.len = Len(w)
    BY <1>9
  <2>3. IF Opens(rKey, rNonce, x)
        THEN /\ rNonce' = IncrementNonce(rNonce)
             /\ delivered' = Append(delivered, [i \in 1..header.len |-> x[i].text])
             /\ rPc' = "header"
        ELSE rPc' = "failed" /\ UNCHANGED <<rNonce, delivered>>
    BY <1>13, <1>18, <2>1, <2>2 DEF ReadBody, Unpadded
  <2> QED
    BY <1>9, <1>17, <1>19, <2>2, <2>3
<1>21. Delivered' /\ Len(delivered') = k
  BY <1>1, <1>3, <1>5, <1>8, <1>9, <1>20, DeliverNext
<1>22. ReaderAt(off, idx, pad, c + m)'
  <2>1. c + m \in Nat /\ off[k + 1] = c + m
    BY <1>4, <1>9, <1>10, <1>12
  <2>2. written' # <<>>
    <3>1. Len(written) # 0
      BY <1>8
    <3> QED
      BY <1>5, <3>1
  <2>3. rKey' = DeriveRecordKey(rPsk') /\ rNonce' = NonceIn(seals', wNonce', idx[k + 1] + 1)
    BY <1>3, <1>5, <1>9, <1>10, <1>17, <1>20 DEF SameKey
  <2> QED
    BY <1>20, <1>21, <2>1, <2>2, <2>3 DEF ReaderAt
<1> QED
  BY <1>2, <1>3, <1>14, <1>21, <1>22, ReadStep

\* A read that fails with the transport.
LEMMA ReadFailsStep ==
    ASSUME RecordInv, ReadFails
    PROVE  RecordInv'
<1>1. RecordTypes /\ Delivered
  BY DEF RecordInv
<1>2. PICK T, off, idx, pad, c :
        RecordStream(T, off, idx, pad) /\ InFlight(T, c) /\ ReaderAt(off, idx, pad, c)
  BY DEF RecordInv
<1>3. /\ rPc' = "failed" /\ cut
      /\ UNCHANGED <<writerVars, rPsk, rKey, rNonce, header, delivered, tlsBuffer, wire, cut>>
  BY DEF ReadFails
<1>4. UNCHANGED <<wKey, frame, written>>
  BY <1>3 DEF writerVars
<1>5. InFlight(T, c)' /\ wire' \in Seq(Bytes)
  BY <1>1, <1>2, <1>3, <1>4 DEF InFlight, RecordTypes
<1>6. ReaderAt(off, idx, pad, c)'
  BY <1>2, <1>3 DEF ReaderAt
<1>7. Delivered'
  BY <1>1, <1>3, <1>4 DEF Delivered, SameKey
<1> QED
  BY <1>2, <1>3, <1>5, <1>6, <1>7, ReadStep

\* Nothing is written yet.
LEMMA RecInitial ==
    ASSUME RecInit
    PROVE  RecordInv
<1>1. RecordTypes
  <2>1. wKey \in Keys
    BY DEF RecInit, Keys
  <2>2. <<>> \in Seq(Bytes) /\ <<>> \in Payloads /\ <<>> \in Seq(Payloads)
    BY DEF Payloads
  <2> QED
    BY <2>1, <2>2 DEF RecInit, RecordTypes
<1>2. WriterIdle
  BY DEF RecInit, WriterIdle
<1>3. Nonced
  <2>1. ZeroNonce \in Nonces
    BY RecordAssumption DEF ZeroNonce, Nonces
  <2>2. NonceValue(ZeroNonce) = 0
    BY ZeroValue, NonceValues
  <2>3. Len(<<>>) = 0 /\ <<>> \in Seq(Nonces)
    OBVIOUS
  <2>4. NonceIn(<<>>, ZeroNonce, 1) = ZeroNonce
    BY DEF NonceIn
  <2>5. CountUp(<<>>, ZeroNonce)
    BY <2>1, <2>2, <2>3, <2>4 DEF CountUp
  <2> QED
    BY <2>3, <2>5, RecordAssumption DEF RecInit, Nonced
<1>4. Delivered
  BY DEF RecInit, Delivered
<1> DEFINE off == [i \in Nat |-> 1]
           idx == [i \in Nat |-> 0]
<1>5. RecordStream(<<>>, off, idx, idx)
  BY DEF RecInit, RecordStream
<1>6. InFlight(<<>>, 0)
  BY DEF RecInit, InFlight
<1>7. ReaderAt(off, idx, idx, 0)
  BY DEF RecInit, ReaderAt
<1> HIDE DEF off, idx
<1> QED
  BY <1>1, <1>2, <1>3, <1>4, <1>5, <1>6, <1>7 DEF RecordInv

\* The stream, the bytes on their way and the reader's place agree, for
\* every payload limit, batch limit, nonce size and pair of keys.
THEOREM StreamAgrees == RecSpec => []RecordInv
<1>1. RecInit => RecordInv
  BY RecInitial
<1>2. RecordInv /\ [RecNext]_recVars => RecordInv'
  <2> SUFFICES ASSUME RecordInv, [RecNext]_recVars PROVE RecordInv'
    OBVIOUS
  <2>1. CASE UNCHANGED recVars
    <3>1. UNCHANGED <<wKey, saltSent, wNonce, frame, content, wPc, written, seals, readerVars,
                      tlsBuffer, wire, cut, rPsk>>
      BY <2>1 DEF recVars, writerVars, readerVars
    <3>2. RecordTypes' /\ WriterIdle'
      BY <3>1 DEF RecordInv, RecordTypes, WriterIdle
    <3>3. \A T \in Seq(Bytes), c \in Nat : InFlight(T, c) => InFlight(T, c)'
      BY <3>1 DEF InFlight
    <3> QED
      BY <3>1, <3>2, <3>3, MoveStep
  <2>2. CASE RecNext
    BY <2>2, InitialFlightStep, WriteFrameStep, EncodeChunkStep, MoveSteps, ReadSaltStep,
       ReadHeaderStep, ReadBodyStep, ReadFailsStep DEF RecNext
  <2> QED
    BY <2>1, <2>2
<1> QED
  BY <1>1, <1>2, PTL DEF RecSpec

\* A reader that waits while the writer is idle has everything.
LEMMA IdleComplete ==
    ASSUME RecordInv, wPc = "idle", Blocked, ~cut
    PROVE  delivered = written
<1>1. RecordTypes /\ Nonced /\ Delivered /\ WriterIdle
  BY DEF RecordInv
<1>2. PICK T, off, idx, pad, c :
        RecordStream(T, off, idx, pad) /\ InFlight(T, c) /\ ReaderAt(off, idx, pad, c)
  BY DEF RecordInv
<1>3. PICK N \in Nat, d \in Nat : N = Len(written) /\ d = Len(delivered)
  BY <1>1, LenProperties DEF RecordTypes, Delivered
<1>4. /\ d <= N /\ Len(wire) \in Nat /\ Len(T) \in Nat /\ c \in Nat /\ T \in Seq(Bytes)
      /\ written \in Seq(Payloads) /\ delivered \in Seq(Payloads)
      /\ \A i \in 1..d : delivered[i] = written[i]
  BY <1>1, <1>2, <1>3, RecordLengths, LenProperties DEF Delivered, RecordStream, ReaderAt, RecordTypes
<1>5. c + Len(wire) = Len(T)
  <2>1. Len(tlsBuffer) = 0 /\ Len(frame) = 0
    BY <1>1 DEF WriterIdle
  <2>2. c + Len(wire) + Len(tlsBuffer) + Len(frame) = Len(T)
    BY <1>2 DEF InFlight
  <2> QED
    BY <1>4, <2>1, <2>2
<1>6. SUFFICES d = N
  BY <1>3, <1>4, SeqEqual
<1>7. SUFFICES ASSUME d < N PROVE FALSE
  BY <1>4
<1>8. PICK k, a, b, w, p : DueIs(T, off, idx, pad, k, a, b, w, p)
  BY <1>1, <1>2, <1>3, <1>7, NextRecord
<1>9. /\ k \in 1..N /\ k = d + 1 /\ k \in Nat
      /\ a = off[k] /\ b = idx[k] /\ w = written[k] /\ p = pad[k]
      /\ a \in Nat /\ w \in Payloads /\ p \in Nat
      /\ w = <<>> => off[k + 1] = a + 1
      /\ w # <<>> => off[k + 1] = (a + 1) + (p + (Len(w) + 1))
  BY <1>3, <1>8 DEF DueIs
<1>10. off[k + 1] <= Len(T) /\ Len(w) \in Nat
  <2>1. RecordIn(T, off, idx, pad, k)
    BY <1>2, <1>3, <1>9 DEF RecordStream
  <2> QED
    BY <1>9, <2>1, LenProperties DEF RecordIn, Payloads
<1>11. Len(wire) < Needed /\ rPc # "failed"
  BY DEF Blocked
<1>12. CASE rPc = "salt"
  <2>1. Needed = 1 /\ c = 0
    BY <1>2, <1>12 DEF Needed, ReaderAt
  <2>2. Len(T) = 0
    BY <1>4, <1>5, <1>11, <2>1
  <2>3. off[k + 1] = a + 1 \/ off[k + 1] = (a + 1) + (p + (Len(w) + 1))
    BY <1>9
  <2>4. a \in Nat /\ p \in Nat /\ Len(w) \in Nat /\ off[k + 1] <= 0
    BY <1>9, <1>10, <2>2
  <2> QED
    BY <2>3, <2>4
<1>13. CASE rPc = "header"
  <2>1. Needed = 1 /\ c = a
    BY <1>2, <1>3, <1>9, <1>13 DEF Needed, ReaderAt
  <2>2. Len(T) = a
    BY <1>4, <1>5, <1>9, <1>11, <2>1
  <2> QED
    BY <1>9, <1>10, <2>2
<1>14. CASE rPc = "body"
  <2>1. Needed = p + Len(w) + 1 /\ c = a + 1 /\ w # <<>>
    BY <1>2, <1>3, <1>9, <1>14 DEF Needed, ReaderAt
  <2>2. off[k + 1] = (a + 1) + (p + (Len(w) + 1))
    BY <1>9, <2>1
  <2>3. a \in Nat /\ p \in Nat /\ Len(w) \in Nat /\ off[k + 1] <= Len(T)
    BY <1>9, <1>10
  <2>4. a + 1 + Len(wire) = Len(T) /\ Len(wire) < p + Len(w) + 1
    BY <1>5, <1>11, <2>1
  <2> QED
    BY <1>4, <2>2, <2>3, <2>4
<1> QED
  BY <1>1, <1>11, <1>12, <1>13, <1>14 DEF Delivered

\* The reader returns the records that were written, in order and whole; it
\* has them all when the writer is idle and it waits; it fails only with the
\* transport or under another key; and no nonce seals twice (record.rs,
\* encode_frame_append, write_and_flush, read_frame_into).
THEOREM RecordsAlwaysArrive == RecSpec => []RecordsArrive
<1>1. RecordInv => RecordsArrive
  <2> SUFFICES ASSUME RecordInv PROVE RecordsArrive
    OBVIOUS
  <2>1. RecordTypes /\ Delivered /\ Nonced
    BY DEF RecordInv
  <2>2. IsPrefix(delivered, written)
    <3>1. /\ delivered \in Seq(Payloads) /\ written \in Seq(Payloads)
          /\ Len(delivered) \in Nat /\ Len(written) \in Nat /\ Len(delivered) <= Len(written)
          /\ \A i \in 1..Len(delivered) : delivered[i] = written[i]
      BY <2>1, LenProperties DEF RecordTypes, Delivered
    <3>2. 0 \in Nat /\ 0 <= Len(delivered) /\ 0 + 1 = 1 /\ Len(delivered) - 0 = Len(delivered)
          /\ \A i \in 1..Len(delivered) : 0 + i = i
      BY <3>1
    <3> DEFINE x == SubSeq(written, 0 + 1, Len(delivered))
    <3>3. x \in Seq(Payloads) /\ Part(x, written, 0, Len(delivered))
      BY <3>1, <3>2, SubSeqParts
    <3> HIDE DEF x
    <3>4. delivered = x
      <4>1. Len(x) = Len(delivered) /\ \A i \in 1..Len(delivered) : x[i] = delivered[i]
        BY <3>1, <3>2, <3>3 DEF Part
      <4> QED
        BY <3>1, <3>3, <4>1, SeqEqual
    <3> QED
      BY <3>1, <3>2, <3>4 DEF IsPrefix, x
  <2>3. Cardinality(ToSet(seals)) = Len(seals)
    BY <2>1, CountUpDistinct DEF Nonced
  <2>4. wPc = "idle" /\ Blocked /\ ~cut => delivered = written
    BY IdleComplete
  <2>5. /\ wKey # DeriveRecordKey(rPsk) => delivered = <<>>
        /\ rPc = "failed" => cut \/ wKey # DeriveRecordKey(rPsk)
    BY <2>1 DEF Delivered, SameKey
  <2> QED
    BY <2>2, <2>3, <2>4, <2>5 DEF RecordsArrive
<1> QED
  BY <1>1, StreamAgrees, PTL
=============================================================================
