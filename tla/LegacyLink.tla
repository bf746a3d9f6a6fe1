----------------------------- MODULE LegacyLink -----------------------------
(***************************************************************************)
(* One direction of a legacy connection of shroom-net, byte for byte:      *)
(*                                                                         *)
(*   LegacyEncoder -> FramedWrite's buffer -> transport                    *)
(*                 -> FramedRead's buffer  -> LegacyDecoder                *)
(*                                                                         *)
(* A frame is a header of HeaderLen bytes and the encrypted packet.  The   *)
(* bytes of a direction are numbered from 0 in the order in which they are *)
(* encoded, as TCP numbers them, and every buffer is a window of them:     *)
(*                                                                         *)
(*   consumed <= arrived <= flushed <= Encoded                             *)
(*   [consumed, arrived)  FramedRead's buffer (src of Decoder::decode)     *)
(*   [arrived, flushed)   in the transport                                 *)
(*   [flushed, Encoded)   FramedWrite's buffer (dst of Encoder::encode)    *)
(*                                                                         *)
(* What the bytes say is in frames: frame k starts at frames[k].start and  *)
(* was encrypted in round frames[k].key of the sender's cipher.  The round *)
(* key of a NetCipher is the number of updates since the handshake: the    *)
(* keys of different rounds are taken to be different.  Four bytes that    *)
(* are not a header of the decoder's round may be refused or may pass for  *)
(* a header of any length, since the check compares 16 bits of them.       *)
(***************************************************************************)
EXTENDS Integers, Sequences

CONSTANTS
    Packets,        \* packets the sending program may send, [id, len] records
    HeaderLen,      \* PACKET_HEADER_LEN
    MaxPacketLen,   \* MAX_PACKET_LEN of the decoding end
    EncLimit,       \* MAX_PACKET_LEN of the encoding end
    U16,            \* the lengths four bytes can say, those of headers included
    Boundary,       \* FramedWrite's backpressure boundary, in bytes
    Aes,            \* CRYPT & CRYPT_AES # 0
    MaxFrames,      \* bound on the frames of one run
    None,           \* Option::None in LegacyDecoder::len
    Garbled         \* what decrypting other bytes than a packet's gives: part
                    \* of a packet, noise, or an empty packet nobody sent

ASSUME LinkAssumption ==
    /\ \A p \in Packets : p = [id |-> p.id, len |-> p.len] /\ p.len \in Nat
    /\ HeaderLen \in Nat \ {0}
    /\ MaxPacketLen \in Nat
    /\ EncLimit \in Nat
    /\ U16 \subseteq Nat
    /\ \A p \in Packets : p.len <= EncLimit => p.len \in U16
    /\ Boundary \in Nat \ {0}
    /\ Aes \in BOOLEAN
    /\ MaxFrames \in Nat
    /\ None \notin Nat
    /\ Garbled \notin Packets

VARIABLES
    frames,         \* every frame encoded so far: [pkt, start, key]
    encKey,         \* LegacyEncoder: rounds of its NetCipher
    ready,          \* FramedWrite: poll_ready returned Ok since the last start_send
    flushing,       \* the program is driving poll_ready, poll_flush or poll_close
    closing,        \* ShroomStream::close was called
    flushed,        \* bytes written to the transport
    conn,           \* the direction: "open", "fin" after a shutdown, "dropped", "reset"
    arrived,        \* bytes FramedRead has read from the transport
    eof,            \* FramedRead: state.eof
    isReadable,     \* FramedRead: state.is_readable
    hasErrored,     \* FramedRead: state.has_errored
    consumed,       \* bytes LegacyDecoder has split off the buffer
    decLen,         \* LegacyDecoder::len
    decKey,         \* LegacyDecoder: rounds of its NetCipher
    got,            \* every packet yielded, oldest first
    ended,          \* poll_next has returned None at the end of the stream
    failed          \* poll_next has returned an error

encVars    == <<frames, encKey>>
writerVars == <<ready, flushing, closing>>
decVars    == <<consumed, decLen, decKey, got>>
readerVars == <<eof, isReadable, hasErrored, ended, failed>>
vars == <<encVars, writerVars, flushed, conn, arrived, decVars, readerVars>>

-----------------------------------------------------------------------------
(* Frames and buffers *)

Frame == [pkt : Packets, start : Nat, key : Nat]

BodyOf(f) == f.start + HeaderLen
EndOf(f)  == BodyOf(f) + f.pkt.len

Encoded   == IF frames = << >> THEN 0 ELSE EndOf(frames[Len(frames)])
Unwritten == Encoded - flushed
Buffered  == arrived - consumed

Init ==
    /\ frames = << >>
    /\ encKey = 0
    /\ ready = FALSE
    /\ flushing = FALSE
    /\ closing = FALSE
    /\ flushed = 0
    /\ conn = "open"
    /\ arrived = 0
    /\ eof = FALSE
    /\ isReadable = FALSE
    /\ hasErrored = FALSE
    /\ consumed = 0
    /\ decLen = None
    /\ decKey = 0
    /\ got = << >>
    /\ ended = FALSE
    /\ failed = FALSE

-----------------------------------------------------------------------------
(* The sending half: FramedWrite around LegacyEncoder *)

\* A cipher whose round key is never updated.
NextKeyFixed(k) == k

\* NetCipher::encrypt and decrypt step to the next round key with AES only.
NextKey(k) == IF Aes THEN k + 1 ELSE k

\* check_packet_len of the encoding end.
Encodable(p) == p.len <= EncLimit

\* A header made with the round key of the packet before.
EncodeFrameLate(p) ==
    /\ frames' = Append(frames, [pkt |-> p, start |-> Encoded, key |-> encKey - 1])
    /\ encKey' = NextKey(encKey)

\* LegacyEncoder::encode: the header is made with the round key the packet is
\* encrypted with, and the key is updated after it.
EncodeFrame(p) ==
    /\ frames' = Append(frames, [pkt |-> p, start |-> Encoded, key |-> encKey])
    /\ encKey' = NextKey(encKey)


\* The program may use the stream until it closes or drops it.
Usable == conn \in {"open", "reset"} /\ ~closing

\* A sink that is always ready.
AcceptingAlways == TRUE

\* poll_ready: Ok below the boundary; else the whole buffer is flushed first.
Accepting == Unwritten < Boundary

PollReady ==
    /\ Usable
    /\ ~ready
    /\ IF Accepting
       THEN ready' = TRUE /\ UNCHANGED flushing
       ELSE ~flushing /\ flushing' = TRUE /\ UNCHANGED ready
    /\ UNCHANGED <<encVars, closing, flushed, conn, arrived, decVars, readerVars>>

\* start_send: a packet above the limit is an error and changes nothing else.
StartSend(p) ==
    /\ Usable
    /\ ready
    /\ ready' = FALSE
    /\ IF Encodable(p)
       THEN Len(frames) < MaxFrames /\ EncodeFrame(p)
       ELSE UNCHANGED encVars
    /\ UNCHANGED <<flushing, closing, flushed, conn, arrived, decVars, readerVars>>

PollFlush ==
    /\ Usable
    /\ ~flushing
    /\ Unwritten > 0
    /\ flushing' = TRUE
    /\ UNCHANGED <<encVars, ready, closing, flushed, conn, arrived, decVars, readerVars>>

\* The program drops the future that was driving the flush.  What is already
\* in the buffer stays there.
CancelFlush ==
    /\ flushing
    /\ ~closing
    /\ flushing' = FALSE
    /\ UNCHANGED <<encVars, ready, closing, flushed, conn, arrived, decVars, readerVars>>

\* A flush that stops after one partial write.
WriteOnce(n) ==
    /\ flushing
    /\ conn = "open"
    /\ n \in 1 .. Unwritten
    /\ flushed' = flushed + n
    /\ flushing' = FALSE
    /\ UNCHANGED <<encVars, ready, closing, conn, arrived, decVars, readerVars>>

\* One poll_write of a flush: the transport takes some bytes of the buffer.
Write(n) ==
    /\ flushing
    /\ conn = "open"
    /\ n \in 1 .. Unwritten
    /\ flushed' = flushed + n
    /\ flushing' = (closing \/ n < Unwritten)
    /\ UNCHANGED <<encVars, ready, closing, conn, arrived, decVars, readerVars>>

\* ShroomStream::close: poll_close of the sink, a flush and then a shutdown of
\* the write half.
Close ==
    /\ Usable
    /\ closing' = TRUE
    /\ flushing' = TRUE
    /\ UNCHANGED <<encVars, ready, flushed, conn, arrived, decVars, readerVars>>

\* A shutdown that does not wait for the flush.
DrainedAlways == TRUE

\* The flush of a close is over.
Drained == Unwritten = 0

Shutdown ==
    /\ closing
    /\ conn = "open"
    /\ Drained
    /\ conn' = "fin"
    /\ flushing' = FALSE
    /\ UNCHANGED <<encVars, ready, closing, flushed, arrived, decVars, readerVars>>

\* The stream, or the future of its close, is dropped: the owned write half
\* shuts the direction down, and what is left in the buffer is lost.
Drop ==
    /\ conn = "open"
    /\ conn' = "dropped"
    /\ flushing' = FALSE
    /\ UNCHANGED <<encVars, ready, closing, flushed, arrived, decVars, readerVars>>

\* The transport fails: from here on reads and writes return errors.
Reset ==
    /\ conn = "open"
    /\ conn' = "reset"
    /\ UNCHANGED <<encVars, writerVars, flushed, arrived, decVars, readerVars>>

-----------------------------------------------------------------------------
(* LegacyDecoder: one call of decode, on the bytes [consumed, arrived) *)

\* The lengths NetCipher::decode_header can return for the four bytes at
\* consumed.  Of the header of a frame it is the frame's length.  Other bytes
\* say anything: decode_header_no_crypt checks nothing, and decode_header only
\* that two of the bytes agree with the round key.
HeaderAt(k) == frames[k].start = consumed /\ (Aes => frames[k].key = decKey)
IsHeader == \E k \in DOMAIN frames : HeaderAt(k)
HeaderLengths ==
    IF IsHeader
    THEN {frames[k].pkt.len : k \in {j \in DOMAIN frames : HeaderAt(j)}}
    ELSE U16

\* A limit that excludes the longest packet.
DecodableBelow(n) == n < MaxPacketLen

\* check_packet_len of the decoding end.
Decodable(n) == n <= MaxPacketLen

\* NetCipher::decrypt of n bytes from body on.
PlainAt(body, n) ==
    LET Match == {k \in DOMAIN frames :
                    /\ BodyOf(frames[k]) = body
                    /\ frames[k].pkt.len = n
                    /\ frames[k].key = decKey}
    IN  IF Match = {} THEN Garbled ELSE frames[CHOOSE k \in Match : TRUE].pkt

\* read_packet_len has a length: the saved one, or that of a header it takes
\* off the buffer.
SavedLength(n, body) == decLen # None /\ n = decLen /\ body = consumed
ParsedLength(n, body) ==
    /\ decLen = None
    /\ Buffered >= HeaderLen
    /\ n \in HeaderLengths
    /\ Decodable(n)
    /\ body = consumed + HeaderLen
LengthRead(n, body) == SavedLength(n, body) \/ ParsedLength(n, body)

\* The lengths and positions read_packet_len chooses from.
Lengths == U16 \union ({decLen} \ {None})
Bodies  == {consumed, consumed + HeaderLen}

\* decode returns None because there is no whole header.
AwaitHeader ==
    /\ decLen = None
    /\ Buffered < HeaderLen
    /\ UNCHANGED decVars

\* decode returns an error: the header is gone from the buffer.
RejectHeader ==
    /\ decLen = None
    /\ Buffered >= HeaderLen
    /\ \/ Aes /\ ~IsHeader
       \/ \E n \in HeaderLengths : ~Decodable(n)
    /\ consumed' = consumed + HeaderLen
    /\ UNCHANGED <<decLen, decKey, got>>

\* A decoder that forgets the length of the packet it waits for.
AwaitBodyForgetful ==
    \E n \in Lengths, body \in Bodies :
        /\ LengthRead(n, body)
        /\ arrived - body < n
        /\ consumed' = body
        /\ UNCHANGED <<decLen, decKey, got>>

\* A decoder that asks for one byte too many.
AwaitBodyEager ==
    \E n \in Lengths, body \in Bodies :
        /\ LengthRead(n, body)
        /\ arrived - body <= n
        /\ consumed' = body
        /\ decLen' = n
        /\ UNCHANGED <<decKey, got>>

\* decode returns None because the body is not complete; the length is kept.
AwaitBody ==
    \E n \in Lengths, body \in Bodies :
        /\ LengthRead(n, body)
        /\ arrived - body < n
        /\ consumed' = body
        /\ decLen' = n
        /\ UNCHANGED <<decKey, got>>

\* A decoder that does not step the cipher for an empty packet.
TakeFrameEmptyKeepsKey ==
    \E n \in Lengths, body \in Bodies :
        /\ LengthRead(n, body)
        /\ arrived - body >= n
        /\ consumed' = body + n
        /\ decLen' = None
        /\ decKey' = IF n = 0 THEN decKey ELSE NextKey(decKey)
        /\ got' = Append(got, PlainAt(body, n))

\* A decoder that keeps the length of the packet it has taken.
TakeFrameKeepsLength ==
    \E n \in Lengths, body \in Bodies :
        /\ LengthRead(n, body)
        /\ arrived - body >= n
        /\ consumed' = body + n
        /\ decKey' = NextKey(decKey)
        /\ got' = Append(got, PlainAt(body, n))
        /\ UNCHANGED decLen

\* decode returns a packet.
TakeFrame ==
    \E n \in Lengths, body \in Bodies :
        /\ LengthRead(n, body)
        /\ arrived - body >= n
        /\ consumed' = body + n
        /\ decLen' = None
        /\ decKey' = NextKey(decKey)
        /\ got' = Append(got, PlainAt(body, n))

-----------------------------------------------------------------------------
(* The receiving half: FramedRead around LegacyDecoder.  Every action is one *)
(* turn of the loop in its poll_next, or one return from it.                 *)

Decoding == isReadable /\ ~hasErrored

PollPacket ==
    /\ Decoding
    /\ TakeFrame
    /\ UNCHANGED <<encVars, writerVars, flushed, conn, arrived, readerVars>>

PollHeaderError ==
    /\ Decoding
    /\ RejectHeader
    /\ hasErrored' = TRUE
    /\ failed' = TRUE
    /\ UNCHANGED <<encVars, writerVars, flushed, conn, arrived, eof, isReadable, ended>>

PollMore ==
    /\ Decoding
    /\ ~eof
    /\ AwaitHeader \/ AwaitBody
    /\ isReadable' = FALSE
    /\ UNCHANGED <<encVars, writerVars, flushed, conn, arrived, eof, hasErrored, ended, failed>>

\* An end of the stream that does not look at the buffer.
PollEndUnchecked ==
    /\ Decoding
    /\ eof
    /\ AwaitHeader \/ AwaitBody
    /\ isReadable' = FALSE
    /\ ended' = TRUE
    /\ UNCHANGED <<encVars, writerVars, flushed, conn, arrived, eof, hasErrored, failed>>

\* decode_eof: decode has no frame, and the buffer it leaves is empty.
PollEnd ==
    /\ Decoding
    /\ eof
    /\ AwaitHeader \/ AwaitBody
    /\ consumed' = arrived
    /\ isReadable' = FALSE
    /\ ended' = TRUE
    /\ UNCHANGED <<encVars, writerVars, flushed, conn, arrived, eof, hasErrored, failed>>

\* decode_eof: bytes remaining on stream.
PollTruncated ==
    /\ Decoding
    /\ eof
    /\ AwaitHeader \/ AwaitBody
    /\ consumed' # arrived
    /\ hasErrored' = TRUE
    /\ failed' = TRUE
    /\ UNCHANGED <<encVars, writerVars, flushed, conn, arrived, eof, isReadable, ended>>

\* The poll after an error returns None; the next one reads again.
PollPause ==
    /\ hasErrored
    /\ hasErrored' = FALSE
    /\ isReadable' = FALSE
    /\ UNCHANGED <<encVars, writerVars, flushed, conn, arrived, decVars, eof, ended, failed>>

Reading == ~isReadable /\ ~hasErrored

PollRead(n) ==
    /\ Reading
    /\ conn # "reset"
    /\ n \in 1 .. flushed - arrived
    /\ arrived' = arrived + n
    /\ eof' = FALSE
    /\ isReadable' = TRUE
    /\ UNCHANGED <<encVars, writerVars, flushed, conn, decVars, hasErrored, ended, failed>>

PollReadEof ==
    /\ Reading
    /\ conn \in {"fin", "dropped"}
    /\ arrived = flushed
    /\ ~eof
    /\ eof' = TRUE
    /\ isReadable' = TRUE
    /\ UNCHANGED <<encVars, writerVars, flushed, conn, arrived, decVars, hasErrored, ended, failed>>

PollReadError ==
    /\ Reading
    /\ conn = "reset"
    /\ hasErrored' = TRUE
    /\ failed' = TRUE
    /\ UNCHANGED <<encVars, writerVars, flushed, conn, arrived, decVars, eof, isReadable, ended>>

-----------------------------------------------------------------------------
Writer ==
    \/ PollReady
    \/ \E p \in Packets : StartSend(p)
    \/ PollFlush
    \/ CancelFlush
    \/ \E n \in 1 .. Unwritten : Write(n)
    \/ Close
    \/ Shutdown
    \/ Drop

Reader ==
    \/ PollPacket
    \/ PollHeaderError
    \/ PollMore
    \/ PollEnd
    \/ PollTruncated
    \/ PollPause
    \/ \E n \in 1 .. flushed - arrived : PollRead(n)
    \/ PollReadEof
    \/ PollReadError

Next == Writer \/ Reset \/ Reader

Spec == Init /\ [][Next]_vars

\* The runtime polls a task that can make progress: a flush the program awaits
\* is driven on, and a program that reads keeps polling.  Nothing is assumed of
\* the programs' own choices: sending, flushing, cancelling, closing, dropping.
FairSpec ==
    /\ Spec
    /\ WF_vars(\E n \in 1 .. Unwritten : Write(n))
    /\ WF_vars(Shutdown)
    /\ WF_vars(Reader)

-----------------------------------------------------------------------------
(* Properties *)

\* Every variable has its type.
TypeOK ==
    /\ frames \in Seq(Frame)
    /\ encKey \in Nat
    /\ ready \in BOOLEAN
    /\ flushing \in BOOLEAN
    /\ closing \in BOOLEAN
    /\ flushed \in Nat
    /\ conn \in {"open", "fin", "dropped", "reset"}
    /\ arrived \in Nat
    /\ eof \in BOOLEAN
    /\ isReadable \in BOOLEAN
    /\ hasErrored \in BOOLEAN
    /\ ended \in BOOLEAN
    /\ failed \in BOOLEAN
    /\ consumed \in Nat
    /\ decLen \in Nat \union {None}
    /\ decKey \in Nat
    /\ got \in Seq(Packets \union {Garbled})

Sent == [k \in DOMAIN frames |-> frames[k].pkt]

\* Until the first error the packets yielded are the packets encoded, unchanged,
\* in order, each once: whatever the pieces in which the bytes arrived.
DeliveredIsPrefix ==
    ~failed =>
        /\ Len(got) <= Len(frames)
        /\ \A k \in DOMAIN got : got[k] = frames[k].pkt

\* The two ciphers of a direction step together: until the first error the
\* decoder is in the round of the first frame it has not taken, so its next
\* header will be accepted and its next packet decrypted.
KeysInStep ==
    ~failed /\ Len(got) < Len(frames) => decKey = frames[Len(got) + 1].key

\* No lost wakeup: when FramedRead goes back to waiting for the transport, its
\* buffer holds no complete frame that a poll could have yielded.
NoFrameHeldBack ==
    ~failed /\ Len(got) < Len(frames) /\ EndOf(frames[Len(got) + 1]) <= arrived
        => isReadable

\* The end of the stream is reported without an error only if every frame that
\* was completely written was yielded, and if a frame that was cut off was cut
\* before its first byte or right behind its header (see README, "A cut frame").
CleanEndMeansWhole ==
    ended /\ ~failed =>
        \A k \in DOMAIN frames :
            \/ k <= Len(got)
            \/ flushed <= frames[k].start
            \/ flushed = BodyOf(frames[k])

\* Backpressure keeps FramedWrite's buffer below the boundary and one frame.
SendBufferBound == Unwritten < Boundary + HeaderLen + EncLimit

\* FramedRead resumes after an error, and the decoder takes what is left in its
\* buffer for headers, four bytes at a time, and whatever passes for one for a
\* packet.  With AES no packet is yielded out of its place even then: the n-th
\* packet yielded is the n-th packet sent or garbled, never an earlier packet
\* again or a later one early, because the round key steps once per packet.
PacketsKeepTheirPlace ==
    Aes => \A k \in DOMAIN got :
               got[k] = Garbled \/ (k \in DOMAIN frames /\ got[k] = frames[k].pkt)

\* Every frame that was completely written is yielded in the end, unless the
\* receiver reports an error.
WrittenIsDelivered ==
    \A k \in 1 .. MaxFrames :
        Len(frames) >= k /\ EndOf(frames[k]) <= flushed ~> Len(got) >= k \/ failed

\* A close comes to its end: the direction is shut down, or the transport fails.
CloseTerminates == closing ~> conn # "open"

\* What the state of the link is in terms of the channel of whole packets.
AbsSender ==
    IF conn = "reset" \/ (conn = "dropped" /\ Unwritten # 0) THEN "aborted"
    ELSE IF closing \/ conn # "open" THEN "closed" ELSE "open"
AbsReceiver == IF failed THEN "failed" ELSE IF ended THEN "ended" ELSE "open"

Channel == INSTANCE FrameChannel WITH
    accepted  <- Sent,
    delivered <- got,
    sender    <- AbsSender,
    receiver  <- AbsReceiver

\* The link implements the channel of whole packets.
ImplementsChannel == Channel!Spec
=============================================================================
