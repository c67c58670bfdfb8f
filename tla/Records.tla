------------------------------ MODULE Records ------------------------------
(***************************************************************************)
(* Snell records over one direction of a TLS stream (src/snell/record.rs): *)
(* RecordWriter encodes payloads, in batches, into a transport that may    *)
(* hold bytes back until it is flushed; RecordReader takes them apart.     *)
(* A byte is a symbol: a sealed one carries its key, its nonce and its     *)
(* plaintext, and can only be opened with the first two.                   *)
(***************************************************************************)
EXTENDS Naturals, Sequences, FiniteSets, SequencesExt

CONSTANTS
    MaxPayload,   \* MAX_RECORD_PAYLOAD_SIZE
    BatchLimit,   \* WRITE_BATCH_LIMIT, in symbols
    FrameBudget,  \* INITIAL_FRAME_BUDGET
    Digits,       \* RECORD_NONCE_SIZE
    Base,         \* 256: the values of a byte of the nonce
    Psks,         \* pre-shared keys
    MaxContent,   \* bound: symbols of one write
    MaxSeals      \* bound: AEAD operations on one key

\* The values that the first d bytes of a nonce can take.
NonceCount[d \in 0..Digits] == IF d = 0 THEN 1 ELSE Base * NonceCount[d - 1]

ASSUME RecordAssumption ==
    /\ MaxPayload \in Nat \ {0} /\ MaxContent \in Nat /\ FrameBudget \in Nat
    /\ FrameBudget <= MaxPayload + 1
    /\ Digits \in Nat /\ Base \in Nat \ {0}
    /\ MaxSeals \in Nat /\ MaxSeals < NonceCount[Digits]

VARIABLES
    wKey,       \* RecordWriter.aead
    saltSent,   \* RecordWriter.salt_sent
    wNonce,     \* RecordWriter.nonce
    frame,      \* the frames encoded and not yet given to the transport
    content,    \* what write_payload has still to encode
    wPc,
    tlsBuffer,  \* bytes the transport has accepted and not sent
    wire,       \* bytes sent and not yet read
    cut,        \* the transport is gone
    rPsk,       \* RecordReader.psk
    rKey,       \* RecordReader.aead
    rNonce,     \* RecordReader.nonce
    header,     \* the header of the record being read
    rPc,
    delivered,  \* history: what read_frame_into returned
    written,    \* history: the payloads encoded
    seals       \* history: the nonces the writer has sealed with

writerVars == <<wKey, saltSent, wNonce, frame, content, wPc, written, seals>>
readerVars == <<rPsk, rKey, rNonce, header, rPc, delivered>>
recVars    == <<writerVars, readerVars, tlsBuffer, wire, cut>>

NoKey    == [psk |-> "none"]
NoHeader == [pad |-> 0, len |-> 0]
Salt     == [k |-> "salt"]
Pad      == [k |-> "pad"]
Tag      == [k |-> "tag"]

\* derive_record_key: one key for a pre-shared key and the writer's salt.
DeriveRecordKey(psk) == [psk |-> psk]

ZeroNonce == [i \in 1..Digits |-> 0]

RecInit ==
    /\ \E psk \in Psks : wKey = DeriveRecordKey(psk)
    /\ rPsk \in Psks
    /\ saltSent = FALSE
    /\ wNonce = ZeroNonce /\ rNonce = ZeroNonce
    /\ frame = <<>> /\ content = <<>> /\ wPc \in {"opening", "idle"}
    /\ tlsBuffer = <<>> /\ wire = <<>> /\ cut = FALSE
    /\ rKey = NoKey /\ header = NoHeader /\ rPc = "salt"
    /\ delivered = <<>> /\ written = <<>> /\ seals = <<>>

-----------------------------------------------------------------------------
\* increment_nonce: little endian; a digit is bumped if all before it wrapped.
IncrementNonce(n) ==
    [i \in 1..Digits |-> IF \A j \in 1..(i - 1) : n[j] = Base - 1
                         THEN (n[i] + 1) % Base ELSE n[i]]

\* swap_padding: every second byte of the padding changes places with the
\* ciphertext, as far as the shorter one goes.
SwapPadding(padding, ciphertext) ==
    LET limit      == IF Len(padding) < Len(ciphertext) THEN Len(padding) ELSE Len(ciphertext)
        Swapped(i) == i <= limit /\ i % 2 = 1
    IN  [i \in 1..Len(padding) |-> IF Swapped(i) THEN ciphertext[i] ELSE padding[i]]
        \o [i \in 1..Len(ciphertext) |-> IF Swapped(i) THEN padding[i] ELSE ciphertext[i]]

Sealed(key, nonce, text) ==
    [i \in 1..Len(text) |-> [k |-> "sealed", key |-> key, nonce |-> nonce, text |-> text[i]]]

\* Opening succeeds on what was sealed with the same key and nonce.
Opens(key, nonce, bytes) ==
    \A i \in 1..Len(bytes) :
        bytes[i].k = "sealed" /\ bytes[i].key = key /\ bytes[i].nonce = nonce

EncryptedHeader(payload, padding) ==
    Sealed(wKey, wNonce, <<[pad |-> padding, len |-> Len(payload)]>>)

\* The second seal of a record, of its payload.
PayloadNonce == IncrementNonce(wNonce)

EncryptedBody(payload, padding) ==
    SwapPadding([i \in 1..padding |-> Pad], Sealed(wKey, PayloadNonce, Append(payload, Tag)))

\* encode_frame_append, with or without a payload; the salt goes ahead of the
\* first record.  Its callers never ask for what it refuses.
EncodeFrameAppend(payload, padding) ==
    /\ Len(payload) <= MaxPayload /\ padding <= MaxPayload
    /\ payload = <<>> => padding = 0
    /\ Len(seals) + 2 <= MaxSeals
    /\ frame' = frame \o (IF saltSent THEN <<>> ELSE <<Salt>>)
                      \o EncryptedHeader(payload, padding)
                      \o (IF payload = <<>> THEN <<>> ELSE EncryptedBody(payload, padding))
    /\ saltSent' = TRUE
    /\ IF payload = <<>>
       THEN /\ wNonce' = IncrementNonce(wNonce)
            /\ seals' = Append(seals, wNonce)
       ELSE /\ wNonce' = IncrementNonce(PayloadNonce)
            /\ seals' = seals \o <<wNonce, PayloadNonce>>
    /\ written' = Append(written, payload)

\* The symbols of a write are told apart from those of every other.
Fresh(n) == [i \in 1..n |-> <<Len(written), i>>]

\* initial_padding_length.
InitialPaddings(length) == IF length >= FrameBudget THEN {0} ELSE 1..(FrameBudget - length)

\* open_command: the identity carries the salt, the CONNECT request follows.
InitialFlight(n) ==
    /\ wPc = "opening"
    /\ \E padding \in InitialPaddings(n) : EncodeFrameAppend(Fresh(n), padding)
    /\ wPc' = "flushing"
    /\ UNCHANGED <<wKey, content, readerVars, tlsBuffer, wire, cut>>

\* write_frame: a request, a datagram or, empty, the end of the data.
WriteFrame(n) ==
    /\ wPc = "idle"
    /\ EncodeFrameAppend(Fresh(n), 0)
    /\ wPc' = "flushing"
    /\ UNCHANGED <<wKey, content, readerVars, tlsBuffer, wire, cut>>

\* write_payload.
WritePayload(n) ==
    /\ wPc = "idle"
    /\ content' = Fresh(n)
    /\ wPc' = "encoding"
    /\ UNCHANGED <<wKey, saltSent, wNonce, frame, written, seals, readerVars, tlsBuffer, wire, cut>>

\* One chunk; a full batch is written before the next one.
EncodeChunk ==
    /\ wPc = "encoding" /\ content # <<>>
    /\ LET n == IF Len(content) < MaxPayload THEN Len(content) ELSE MaxPayload
       IN  /\ EncodeFrameAppend(SubSeq(content, 1, n), 0)
           /\ content' = SubSeq(content, n + 1, Len(content))
    /\ wPc' = IF Len(frame') >= BatchLimit THEN "batch" ELSE "encoding"
    /\ UNCHANGED <<wKey, readerVars, tlsBuffer, wire, cut>>

\* write_all alone: the transport may keep the bytes.
WriteBatch ==
    /\ wPc = "batch" /\ ~cut
    /\ tlsBuffer' = tlsBuffer \o frame
    /\ frame' = <<>>
    /\ wPc' = "encoding"
    /\ UNCHANGED <<wKey, saltSent, wNonce, content, written, seals, readerVars, wire, cut>>

EncodingDone ==
    /\ wPc = "encoding" /\ content = <<>>
    /\ wPc' = "flushing"
    /\ UNCHANGED <<wKey, saltSent, wNonce, frame, content, written, seals, readerVars, tlsBuffer,
                   wire, cut>>

\* Mutant: nothing to write, nothing to flush.
WriteAndFlushUnlessEmpty ==
    /\ wPc = "flushing" /\ ~cut
    /\ IF frame = <<>> THEN UNCHANGED <<wire, tlsBuffer>>
                       ELSE wire' = wire \o tlsBuffer \o frame /\ tlsBuffer' = <<>>
    /\ frame' = <<>>
    /\ wPc' = "idle"
    /\ UNCHANGED <<wKey, saltSent, wNonce, content, written, seals, readerVars, cut>>

\* write_and_flush: "every logical write must reach the peer", also one whose
\* last batch has already been given to the transport.
WriteAndFlush ==
    /\ wPc = "flushing" /\ ~cut
    /\ wire' = wire \o tlsBuffer \o frame
    /\ tlsBuffer' = <<>>
    /\ frame' = <<>>
    /\ wPc' = "idle"
    /\ UNCHANGED <<wKey, saltSent, wNonce, content, written, seals, readerVars, cut>>

\* The transport fails and the write with it: the session is retired.
WriteFails ==
    /\ wPc \in {"batch", "flushing"} /\ cut
    /\ wPc' = "failed"
    /\ UNCHANGED <<wKey, saltSent, wNonce, frame, content, written, seals, readerVars, tlsBuffer,
                   wire, cut>>

\* The TLS layer sends of its own accord, and may break off anywhere.
TransportSends(n) ==
    /\ ~cut
    /\ wire' = wire \o SubSeq(tlsBuffer, 1, n)
    /\ tlsBuffer' = SubSeq(tlsBuffer, n + 1, Len(tlsBuffer))
    /\ UNCHANGED <<writerVars, readerVars, cut>>

TransportCut(n) ==
    /\ ~cut /\ cut' = TRUE
    /\ wire' = SubSeq(wire, 1, n)
    /\ tlsBuffer' = <<>>
    /\ UNCHANGED <<writerVars, readerVars>>

-----------------------------------------------------------------------------
(***************************************************************************)
(* RecordReader::read_frame_into; read_exact waits for all it needs.       *)
(***************************************************************************)
Needed ==
    CASE rPc = "body" -> header.pad + header.len + 1
      [] rPc # "body" -> 1

Blocked == rPc # "failed" /\ Len(wire) < Needed

Taken == SubSeq(wire, 1, Needed)

ReadSalt ==
    /\ rPc = "salt" /\ ~Blocked
    /\ wire' = SubSeq(wire, Needed + 1, Len(wire))
    /\ rKey' = DeriveRecordKey(rPsk)
    /\ rPc' = "header"
    /\ UNCHANGED <<writerVars, rPsk, rNonce, header, delivered, tlsBuffer, cut>>

\* A zero record has no body and ends the reader's EOF.  The version and the
\* limits read_frame_into checks hold of every header that opens, since
\* EncodeFrameAppend is what sealed it.
ReadHeader ==
    /\ rPc = "header" /\ ~Blocked
    /\ wire' = SubSeq(wire, Needed + 1, Len(wire))
    /\ IF Opens(rKey, rNonce, Taken)
       THEN /\ rNonce' = IncrementNonce(rNonce)
            /\ header' = Taken[1].text
            /\ IF header'.len = 0
               THEN delivered' = Append(delivered, <<>>) /\ UNCHANGED rPc
               ELSE rPc' = "body" /\ UNCHANGED delivered
       ELSE rPc' = "failed" /\ UNCHANGED <<rNonce, header, delivered>>
    /\ UNCHANGED <<writerVars, rPsk, rKey, tlsBuffer, cut>>

\* The padding is swapped back and dropped.
ReadBody ==
    /\ rPc = "body" /\ ~Blocked
    /\ wire' = SubSeq(wire, Needed + 1, Len(wire))
    /\ LET bytes     == SwapPadding(SubSeq(Taken, 1, header.pad),
                                    SubSeq(Taken, header.pad + 1, Needed))
           encrypted == SubSeq(bytes, header.pad + 1, Needed)
       IN  IF Opens(rKey, rNonce, encrypted)
           THEN /\ rNonce' = IncrementNonce(rNonce)
                /\ delivered' = Append(delivered, [i \in 1..header.len |-> encrypted[i].text])
                /\ rPc' = "header"
           ELSE rPc' = "failed" /\ UNCHANGED <<rNonce, delivered>>
    /\ UNCHANGED <<writerVars, rPsk, rKey, header, tlsBuffer, cut>>

ReadFails ==
    /\ Blocked /\ cut
    /\ rPc' = "failed"
    /\ UNCHANGED <<writerVars, rPsk, rKey, rNonce, header, delivered, tlsBuffer, wire, cut>>

-----------------------------------------------------------------------------
RecNext ==
    \/ \E n \in 1..MaxPayload : InitialFlight(n)
    \/ \E n \in 0..MaxPayload : WriteFrame(n)
    \/ \E n \in 0..MaxContent : WritePayload(n)
    \/ EncodeChunk \/ WriteBatch \/ EncodingDone \/ WriteAndFlush \/ WriteFails
    \/ \E n \in 1..Len(tlsBuffer) : TransportSends(n)
    \/ \E n \in 0..Len(wire) : TransportCut(n)
    \/ ReadSalt \/ ReadHeader \/ ReadBody \/ ReadFails

RecSpec == RecInit /\ [][RecNext]_recVars

-----------------------------------------------------------------------------
(***************************************************************************)
(* The reader returns the records that were written, in order and whole,   *)
(* whatever the batches, the padding and the place where the transport     *)
(* breaks; it has them all whenever the writer is done with a write and    *)
(* the reader waits; it fails only with the transport or under another     *)
(* key; and no nonce is used twice with one key (record.rs,                *)
(* encode_frame_append, write_and_flush, read_frame_into).                 *)
(***************************************************************************)
RecordsArrive ==
    /\ IsPrefix(delivered, written)
    /\ wKey # DeriveRecordKey(rPsk) => delivered = <<>>
    /\ wPc = "idle" /\ Blocked /\ ~cut => delivered = written
    /\ rPc = "failed" => cut \/ wKey # DeriveRecordKey(rPsk)
    /\ Cardinality(ToSet(seals)) = Len(seals)
=============================================================================
