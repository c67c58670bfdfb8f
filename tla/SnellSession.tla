---------------------------- MODULE SnellSession ----------------------------
(***************************************************************************)
(* One reusable physical connection and the logical sessions it carries    *)
(* one after another: the record streams in both directions, SnellReader   *)
(* and SnellSession of src/src/snell/client.rs, and the relays that drive  *)
(* them, socks5::relay (a tunnel) and http_proxy::relay_one_request (one   *)
(* forwarded request).                                                     *)
(*                                                                         *)
(* A record is the sequence of items in its payload, so the zero record is *)
(* <<>>.  An item is the status of a CONNECT or one chunk of data, marked  *)
(* with the session it was meant for and its place in that session.  How   *)
(* records are sealed and framed is left out.  A write is two steps, begun *)
(* and done; a future dropped in between leaves part of a record behind.   *)
(* Every timeout may fire at any moment at which it is pending.            *)
(*                                                                         *)
(* The server is external: it answers each CONNECT and speaks the protocol *)
(* correctly, but it may reject, fall silent, or lose the connection.      *)
(***************************************************************************)
EXTENDS Integers, Sequences

CONSTANTS
    MaxSessions,  \* bound: sessions on the connection (options.max_uses)
    MaxData       \* bound: chunks per session and direction

ASSUME SessionAssumption ==
    MaxSessions \in Nat \ {0} /\ MaxData \in Nat \ {0}

VARIABLES
    place,     \* one of Places
    session,   \* number of the current logical session
    mode,      \* "tunnel" (socks5::relay) or "request" (relay_one_request)
    upPc,      \* the upload future
    wrote,     \* chunks the client has handed to the upload
    downPc,    \* the download future
    drive,     \* drive_relay: "both", "upDone" or "stopping"
    zeroSent,  \* close_write_sent, then whether finish wrote the zero record
    head,      \* forward_response_head: items read, not yet forwarded
    got,       \* items the client has received in this session
    reader,    \* SnellReader
    up,        \* records on the way to the server
    down,      \* records on the way to the client
    torn,      \* a write was abandoned part-way through a record
    lost,      \* the transport is closed or reset
    srv        \* the server's side of the connection

relayVars == <<mode, upPc, wrote, downPc, drive, zeroSent, head, got>>
wireVars == <<up, down, torn, lost>>
vars == <<place, session, relayVars, reader, wireVars, srv>>

-----------------------------------------------------------------------------
Item(kind, i) == [kind |-> kind, s |-> srv.s, i |-> i]
Zero == <<>>

\* "lead": http_proxy::serve sends on what came with the request head, before
\* the relay begins.
Places == {"lead", "relay", "finish", "pooled", "gone"}
UploadPcs == {"read", "write", "closing", "eof", "stopped", "done", "failed"}
DownloadPcs == {"begin", "reply", "head", "data", "ok", "failed"}

\* Fields of SnellReader that outlive a read.
FreshReader == [buffered |-> <<>>, serverEof |-> FALSE,
                replyPending |-> TRUE, replyError |-> FALSE]

\* A caller has its session.  socks5::relay and relay_one_request start both
\* directions; an HTTP CONNECT or upgrade that brought data along writes it
\* first.
SessionStarts(m, leads) ==
    /\ leads => m = "tunnel"
    /\ place' = IF leads THEN "lead" ELSE "relay"
    /\ mode' = m
    /\ upPc' = IF leads THEN "write" ELSE "read"
    /\ wrote' = IF leads THEN 1 ELSE 0
    /\ downPc' = "begin"
    /\ drive' = "both"
    /\ zeroSent' = FALSE
    /\ head' = <<>>
    /\ got' = <<>>

\* The connection was dialled, and open_tcp wrote the first CONNECT.
Init ==
    /\ place \in {"lead", "relay"}
    /\ session = 1
    /\ mode \in {"tunnel", "request"}
    /\ place = "lead" => mode = "tunnel"
    /\ upPc = IF place = "lead" THEN "write" ELSE "read"
    /\ wrote = IF place = "lead" THEN 1 ELSE 0
    /\ downPc = "begin"
    /\ drive = "both"
    /\ zeroSent = FALSE
    /\ head = <<>>
    /\ got = <<>>
    /\ reader = FreshReader
    /\ up = <<[kind |-> "connect", s |-> 1]>>
    /\ down = <<>>
    /\ torn = FALSE
    /\ lost = FALSE
    /\ srv = [s |-> 0, replied |-> FALSE, sent |-> 0, recv |-> 0,
              inOpen |-> FALSE, outOpen |-> FALSE, confused |-> FALSE]

-----------------------------------------------------------------------------
(* http_proxy::serve before the relay *)

\* session.write(leftover) is done, the relay begins.
LeadWritten ==
    /\ place = "lead" /\ ~lost
    /\ place' = "relay"
    /\ upPc' = "read"
    /\ up' = Append(up, [kind |-> "data", s |-> session])
    /\ UNCHANGED <<session, mode, wrote, downPc, drive, zeroSent, head, got,
                   reader, down, torn, lost, srv>>

\* It failed: serve() returns and drops the session.
LeadFails ==
    /\ place = "lead" /\ lost
    /\ place' = "gone"
    /\ torn' = TRUE
    /\ UNCHANGED <<session, relayVars, reader, up, down, lost, srv>>

-----------------------------------------------------------------------------
(* upload: client to server *)

\* client.read() returned data; the write of its record begins.  The head of
\* a forwarded request is written in the same way.
UploadRead ==
    /\ place = "relay" /\ upPc = "read" /\ wrote < MaxData
    /\ upPc' = "write"
    /\ wrote' = wrote + 1
    /\ UNCHANGED <<place, session, mode, downPc, drive, zeroSent, head, got,
                   reader, wireVars, srv>>

\* session.write(): the whole record is on the wire.
UploadWritten ==
    /\ place = "relay" /\ upPc = "write" /\ ~lost
    /\ upPc' = "read"
    /\ up' = Append(up, [kind |-> "data", s |-> session])
    /\ UNCHANGED <<place, session, mode, wrote, downPc, drive, zeroSent, head,
                   got, reader, down, torn, lost, srv>>

\* Tunnel only: the client half-closed, close_write() begins.
UploadEof ==
    /\ place = "relay" /\ mode = "tunnel" /\ upPc = "read"
    /\ upPc' = "closing"
    /\ UNCHANGED <<place, session, mode, wrote, downPc, drive, zeroSent, head,
                   got, reader, wireVars, srv>>

\* close_write() wrote the zero record: UploadEnd::ClientEof.
UploadClosed ==
    /\ place = "relay" /\ upPc = "closing" /\ ~lost
    /\ upPc' = "eof"
    /\ up' = Append(up, [kind |-> "zero", s |-> session])
    /\ UNCHANGED <<place, session, mode, wrote, downPc, drive, zeroSent, head,
                   got, reader, down, torn, lost, srv>>

\* The stop channel fired between two writes: UploadEnd::Stopped.
UploadStopped ==
    /\ place = "relay" /\ drive = "stopping" /\ upPc = "read"
    /\ upPc' = "stopped"
    /\ UNCHANGED <<place, session, mode, wrote, downPc, drive, zeroSent, head,
                   got, reader, wireVars, srv>>

\* Request only: forward_body has sent the request head and the whole body.
\* No zero record.
UploadBodyDone ==
    /\ place = "relay" /\ mode = "request" /\ upPc = "read" /\ wrote > 0
    /\ upPc' = "done"
    /\ UNCHANGED <<place, session, mode, wrote, downPc, drive, zeroSent, head,
                   got, reader, wireVars, srv>>

\* Reading the client failed (or, for a request, its body was malformed or
\* cut short), or a write failed on a lost transport.
UploadFails ==
    /\ place = "relay"
    /\ \/ upPc = "read"
       \/ upPc \in {"write", "closing"} /\ lost
    /\ upPc' = "failed"
    /\ torn' = (torn \/ upPc # "read")
    /\ UNCHANGED <<place, session, mode, wrote, downPc, drive, zeroSent, head,
                   got, reader, up, down, lost, srv>>

-----------------------------------------------------------------------------
(* download: server to client *)

\* Where the download goes on once the status has been consumed: a forwarded
\* request looks for the response head first.
AfterReply == IF mode = "request" THEN "head" ELSE "data"

\* ensure_reply() on entry: reply_pending is cleared before the read.
DownloadBegins ==
    /\ place = "relay" /\ downPc = "begin"
    /\ downPc' = IF reader.replyError THEN "failed"
                 ELSE IF reader.replyPending THEN "reply" ELSE AfterReply
    /\ reader' = [reader EXCEPT !.replyPending = FALSE]
    /\ UNCHANGED <<place, session, mode, upPc, wrote, drive, zeroSent, head,
                   got, wireVars, srv>>

\* Mutant: the rest of the record that held the status is thrown away.
ReplyReadFlushed(r, record) ==
    IF record # Zero /\ record[1].kind = "ok"
    THEN [r EXCEPT !.buffered = <<>>]
    ELSE [r EXCEPT !.replyError = TRUE]

\* read_reply() on one record: status 0 is consumed and the rest stays
\* buffered; a rejection, an unexpected status or a zero record is an error.
ReplyRead(r, record) ==
    IF record # Zero /\ record[1].kind = "ok"
    THEN [r EXCEPT !.buffered = Tail(record)]
    ELSE [r EXCEPT !.replyError = TRUE]

DownloadReply ==
    /\ place = "relay" /\ downPc = "reply" /\ down # <<>>
    /\ reader' = ReplyRead(reader, Head(down))
    /\ downPc' = IF reader'.replyError THEN "failed" ELSE AfterReply
    /\ down' = Tail(down)
    /\ UNCHANGED <<place, session, mode, upPc, wrote, drive, zeroSent, head,
                   got, up, torn, lost, srv>>

\* read_application_chunk(): what is buffered, or else the next record.
ChunkReady == reader.buffered # <<>> \/ down # <<>>
Chunk == IF reader.buffered # <<>> THEN reader.buffered ELSE Head(down)
ChunkTaken ==
    /\ reader' = [reader EXCEPT !.buffered = <<>>,
                                !.serverEof = @ \/ Chunk = Zero]
    /\ down' = IF reader.buffered # <<>> THEN down ELSE Tail(down)

\* forward_response_head(): chunks are collected until a head is complete,
\* when all of them are forwarded; after the final head (not after an interim
\* one) the body follows.
DownloadHead ==
    /\ place = "relay" /\ downPc = "head" /\ ChunkReady /\ Chunk # Zero
    /\ ChunkTaken
    /\ \/ /\ head' = head \o Chunk
          /\ UNCHANGED <<downPc, got>>
       \/ /\ got' = got \o head \o Chunk
          /\ head' = <<>>
          /\ downPc' \in {"head", "data"}
    /\ UNCHANGED <<place, session, mode, upPc, wrote, drive, zeroSent, up,
                   torn, lost, srv>>

\* The response ended inside its head, or the head is malformed.
DownloadHeadFails ==
    /\ place = "relay" /\ downPc = "head" /\ ChunkReady
    /\ ChunkTaken
    /\ downPc' = "failed"
    /\ UNCHANGED <<place, session, mode, upPc, wrote, drive, zeroSent, head,
                   got, up, torn, lost, srv>>

\* download(): one chunk is written to the client.
DownloadData ==
    /\ place = "relay" /\ downPc = "data" /\ ChunkReady /\ Chunk # Zero
    /\ ChunkTaken
    /\ got' = got \o Chunk
    /\ UNCHANGED <<place, session, mode, upPc, wrote, downPc, drive, zeroSent,
                   head, up, torn, lost, srv>>

\* The empty chunk: the client's write side is shut down.
DownloadEof ==
    /\ place = "relay" /\ downPc = "data" /\ ChunkReady /\ Chunk = Zero
    /\ ChunkTaken
    /\ downPc' = "ok"
    /\ UNCHANGED <<place, session, mode, upPc, wrote, drive, zeroSent, head,
                   got, up, torn, lost, srv>>

\* The transport ended before the record that was awaited, or writing to the
\* client failed.
DownloadFails ==
    /\ place = "relay" /\ downPc \in {"reply", "head", "data"}
    /\ downPc \in {"head", "data"} \/ (lost /\ down = <<>>)
    /\ downPc' = "failed"
    /\ UNCHANGED <<place, session, mode, upPc, wrote, drive, zeroSent, head,
                   got, reader, wireVars, srv>>

-----------------------------------------------------------------------------
(* drive_relay and relay_one_request decide how the relay ended *)

\* The futures of both directions are dropped: a write in progress leaves
\* part of a record on the wire.
Abandons == upPc \in {"write", "closing"}

\* finish() of a session that is not clean: retire().
Retire ==
    /\ place' = "gone"
    /\ lost' = TRUE

\* finish(clean, close_write_sent) is entered.
End(clean, sent) ==
    /\ torn' = (torn \/ Abandons)
    /\ zeroSent' = sent
    /\ IF clean THEN place' = "finish" /\ UNCHANGED lost ELSE Retire
    /\ UNCHANGED <<session, mode, upPc, wrote, downPc, drive, head, got,
                   reader, up, down, srv>>

\* The select! saw the upload end first; only a forwarded client EOF (or, for
\* a request, a complete body) goes on to wait for the download.
UploadFirst ==
    /\ place = "relay" /\ drive = "both"
    /\ \/ /\ upPc \in {"eof", "done"}
          /\ drive' = "upDone"
          /\ UNCHANGED <<place, session, mode, upPc, wrote, downPc, zeroSent,
                         head, got, reader, wireVars, srv>>
       \/ upPc = "failed" /\ End(FALSE, FALSE)

\* The download ended while only it was awaited.
DownloadSecond ==
    /\ place = "relay" /\ drive = "upDone"
    /\ downPc \in {"ok", "failed"}
    /\ End(downPc = "ok", mode = "tunnel")

\* Mutant: the upload is dropped at once when the upstream ends first.
DownloadFirstDrops ==
    /\ place = "relay" /\ drive = "both"
    /\ downPc \in {"ok", "failed"}
    /\ End(mode = "tunnel" /\ downPc = "ok", FALSE)

\* The select! saw the download end first.  A tunnel whose upstream finished
\* asks the upload to stop between two writes; a request is not clean.
DownloadFirst ==
    /\ place = "relay" /\ drive = "both"
    /\ \/ /\ mode = "tunnel" /\ downPc = "ok"
          /\ drive' = "stopping"
          /\ UNCHANGED <<place, session, mode, upPc, wrote, downPc, zeroSent,
                         head, got, reader, wireVars, srv>>
       \/ /\ mode = "request" \/ downPc = "failed"
          /\ downPc \in {"ok", "failed"}
          /\ End(FALSE, FALSE)

\* The upload ended after the stop was sent.
UploadSecond ==
    /\ place = "relay" /\ drive = "stopping"
    /\ upPc \in {"eof", "stopped", "failed"}
    /\ End(upPc # "failed", upPc = "eof")

\* stop_timeout fired: the upload is stuck in a write.
StopTimeout ==
    /\ place = "relay" /\ drive = "stopping"
    /\ End(FALSE, FALSE)

\* Mutant: no idle timeout once the client has half-closed.
IdleTimeoutBothOnly ==
    /\ place = "relay" /\ drive = "both"
    /\ End(FALSE, FALSE)

\* until_idle: no data has moved for tcp-idle-timeout.
IdleTimeout ==
    /\ place = "relay"
    /\ End(FALSE, FALSE)

-----------------------------------------------------------------------------
(* SnellSession::finish after a clean relay, release and start_reuse *)

\* The zero record that the upload did not send.
FinishZero ==
    /\ place = "finish" /\ ~zeroSent /\ ~lost
    /\ zeroSent' = TRUE
    /\ up' = Append(up, [kind |-> "zero", s |-> session])
    /\ UNCHANGED <<place, session, mode, upPc, wrote, downPc, drive, head, got,
                   reader, down, torn, lost, srv>>

\* complete_reuse_close() drops buffered bytes, and release() pools the
\* connection.  Its loop, which reads on until the server's zero record, never
\* runs: a clean relay has seen that record (ReusableIsQuiet).
Finished ==
    /\ place = "finish" /\ zeroSent /\ reader.serverEof
    /\ reader' = [reader EXCEPT !.buffered = <<>>]
    /\ place' = "pooled"
    /\ UNCHANGED <<session, relayVars, wireVars, srv>>

\* close_timeout, a read or write error, a full or closed pool, or, once
\* pooled, expiry: the connection is retired.
Retired ==
    /\ place \in {"finish", "pooled"}
    /\ Retire
    /\ UNCHANGED <<session, relayVars, reader, up, down, torn, srv>>

\* start_reuse(): nothing buffered, the server's zero seen, the probe finds
\* neither input nor EOF, and the CONNECT is written.
StartReuse(m, leads) ==
    /\ place = "pooled" /\ session < MaxSessions
    /\ reader.buffered = <<>> /\ reader.serverEof
    /\ down = <<>> /\ ~lost
    /\ session' = session + 1
    /\ SessionStarts(m, leads)
    /\ reader' = FreshReader
    /\ up' = Append(up, [kind |-> "connect", s |-> session + 1])
    /\ UNCHANGED <<down, torn, lost, srv>>

-----------------------------------------------------------------------------
(* The server *)

\* The server takes the next record.  What it does not expect - a CONNECT
\* inside a session, anything else outside one, or a record after a torn one -
\* leaves the two sides out of step.
ServerReceives ==
    /\ up # <<>> /\ ~lost
    /\ up' = Tail(up)
    /\ LET r == Head(up) IN
       srv' =
         IF r.kind = "connect" /\ ~srv.inOpen /\ ~srv.outOpen
         THEN [s |-> r.s, replied |-> FALSE, sent |-> 0, recv |-> 0,
               inOpen |-> TRUE, outOpen |-> TRUE, confused |-> srv.confused]
         ELSE IF r.kind = "data" /\ srv.inOpen /\ r.s = srv.s
         THEN [srv EXCEPT !.recv = @ + 1]
         ELSE IF r.kind = "zero" /\ srv.inOpen /\ r.s = srv.s
         THEN [srv EXCEPT !.inOpen = FALSE]
         ELSE [srv EXCEPT !.confused = TRUE]
    /\ UNCHANGED <<place, session, relayVars, reader, down, torn, lost>>

Send(record) == down' = Append(down, record)

\* The status of a CONNECT, alone or with the first data in one record.
ServerReplies ==
    /\ srv.outOpen /\ ~srv.replied /\ ~lost
    /\ \/ /\ \E kind \in {"ok", "reject"} : Send(<<Item(kind, 0)>>)
          /\ srv' = [srv EXCEPT !.replied = TRUE]
       \/ /\ Send(<<Item("ok", 0), Item("data", 1)>>)
          /\ srv' = [srv EXCEPT !.replied = TRUE, !.sent = 1]
    /\ UNCHANGED <<place, session, relayVars, reader, up, torn, lost>>

ServerSends ==
    /\ srv.outOpen /\ srv.replied /\ srv.sent < MaxData /\ ~lost
    /\ Send(<<Item("data", srv.sent + 1)>>)
    /\ srv' = [srv EXCEPT !.sent = @ + 1]
    /\ UNCHANGED <<place, session, relayVars, reader, up, torn, lost>>

\* The target closed, or refused without a status.
ServerCloses ==
    /\ srv.outOpen /\ ~lost
    /\ Send(Zero)
    /\ srv' = [srv EXCEPT !.outOpen = FALSE]
    /\ UNCHANGED <<place, session, relayVars, reader, up, torn, lost>>

\* The transport breaks; what has arrived by then can still be read.
TransportLost ==
    /\ ~lost
    /\ lost' = TRUE
    /\ \E n \in 0..Len(down) : down' = SubSeq(down, 1, n)
    /\ UNCHANGED <<place, session, relayVars, reader, up, torn, srv>>

-----------------------------------------------------------------------------
Upload ==
    \/ UploadRead \/ UploadWritten \/ UploadEof \/ UploadClosed
    \/ UploadStopped \/ UploadBodyDone \/ UploadFails

Download ==
    \/ DownloadBegins \/ DownloadReply \/ DownloadHead \/ DownloadHeadFails
    \/ DownloadData \/ DownloadEof \/ DownloadFails

Drive ==
    \/ UploadFirst \/ DownloadSecond \/ DownloadFirst \/ UploadSecond
    \/ StopTimeout \/ IdleTimeout

Lifecycle ==
    \/ LeadWritten \/ LeadFails
    \/ FinishZero \/ Finished \/ Retired
    \/ \E m \in {"tunnel", "request"}, leads \in BOOLEAN : StartReuse(m, leads)

Server ==
    \/ ServerReceives \/ ServerReplies \/ ServerSends \/ ServerCloses
    \/ TransportLost

Next == Upload \/ Download \/ Drive \/ Lifecycle \/ Server

\* Timers fire.  Nothing is assumed of the client or of the server.
Fairness == WF_vars(IdleTimeout) /\ WF_vars(Retired)

Spec == Init /\ [][Next]_vars /\ Fairness

-----------------------------------------------------------------------------
(* Properties *)

\* The client of a session receives that session's bytes and nothing else, in
\* order and without a gap: never the tail of an earlier response on the same
\* connection, never a CONNECT status taken for data.
\* A response that ends normally is complete: when the client's connection is
\* shut down after a zero record, everything the server sent was delivered.
ResponseIntact ==
    /\ \A j \in 1..Len(got) :
         got[j] = [kind |-> "data", s |-> session, i |-> j]
    /\ downPc = "ok" =>
         srv.s = session /\ ~srv.outOpen /\ Len(got) = srv.sent

\* The server is never out of step: it sees one CONNECT, the data and exactly
\* one zero record of each session, and no CONNECT before its own zero record.
\* A connection that finish() means to reuse is quiescent.  Nothing it carries
\* is half-written: the upload stopped between two writes.  The server's zero
\* record has been read, so that finish() never waits for it and never
\* discards a response the client has not seen, and in the pool our own zero
\* record has been sent as well.
ServerInStep ==
    /\ ~srv.confused
    /\ place \in {"finish", "pooled"} =>
         /\ ~torn
         /\ reader.serverEof /\ reader.buffered = <<>>
         /\ down = <<>> /\ ~srv.outOpen
         /\ place = "pooled" => zeroSent

\* Every session ends: the relay cannot be kept waiting for ever by a client
\* that half-closed, a server that fell silent, or a write that is stuck.
SessionEnds == place \in {"relay", "finish"} ~> place \in {"pooled", "gone"}
=============================================================================
