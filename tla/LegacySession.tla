---------------------------- MODULE LegacySession ----------------------------
(***************************************************************************)
(* A legacy session of shroom-net: a client and a server create their      *)
(* ShroomStreams over one TCP connection and exchange packets.             *)
(*                                                                         *)
(* The server generates a handshake, writes it on the raw transport and    *)
(* builds its codec from it; the client reads it byte by byte off the raw  *)
(* transport and builds the mirrored codec.  From then on each direction   *)
(* is a FramedWrite, the transport and a FramedRead.  A frame is one unit  *)
(* here (LegacyLink has its bytes); a byte of the handshake is a unit too, *)
(* and the frames of a server that is ready follow right behind it.        *)
(***************************************************************************)
EXTENDS Integers, Sequences

CONSTANTS
    RoundKeys,       \* RoundKeys the generator may draw
    ServerVersion,   \* ShroomVersion of the server's handshake generator
    ClientVersion,   \* ShroomVersion of the client's (never used, see ClientCodec)
    Shapes,          \* handshakes by size: [ln, need], see Handshake
    LenBytes,        \* bytes of the length in front of the handshake
    MaxHandshakeLen, \* MAX_HANDSHAKE_LEN
    Capacity,        \* units the transport holds in one direction
    Boundary,        \* frames in FramedWrite's buffer at which poll_ready flushes
    Packets,         \* packets the programs send
    MaxSend,         \* bound on the packets one end sends
    None             \* no handshake, no cipher, or a handshake that does not decode

ASSUME SessionAssumption ==
    /\ RoundKeys # {}
    /\ \A s \in Shapes : s.ln \in Nat /\ s.need \in Nat \union {None}
    /\ LenBytes \in Nat \ {0}
    /\ MaxHandshakeLen \in Nat
    /\ Capacity \in Nat \ {0}
    /\ Boundary \in Nat \ {0}
    /\ MaxSend \in Nat
    /\ None \notin Nat

Ends == {"client", "server"}
Peer(e) == IF e = "client" THEN "server" ELSE "client"

VARIABLES
    phase,      \* per end: "write"/"length"/"body" while creating, "ready", "failed"
    handshake,  \* what the server generated
    written,    \* bytes of it that write_all has written
    have,       \* bytes the client's current read_exact has
    buffer,     \* per end: frames in its FramedWrite
    transport,  \* per end: units it has written and the peer has not read
    up,         \* the connection has not failed
    enc,        \* per end: the NetCipher of its encoder
    dec,        \* per end: the NetCipher of its decoder
    sent,       \* per end: packets given to start_send
    got,        \* per end: packets yielded by poll_next
    broken      \* ends whose poll_next has returned an error, or the end

creation == <<phase, handshake, written, have>>
vars == <<creation, buffer, transport, up, enc, dec, sent, got, broken>>

-----------------------------------------------------------------------------
(* Versions, handshakes and ciphers *)

\* A ShroomVersion and its bitwise inverse.
Version(v) == [raw |-> v, inverted |-> FALSE]
Invert(v)  == [v EXCEPT !.inverted = ~@]

\* shape.ln is the length in front of the handshake, shape.need the bytes its
\* fields take, or None if a field does not decode (a locale without a code).
\* to_buf makes the two equal and within the limit; other servers may not.
Handshake == [version : {Version(ServerVersion)}, ivEnc : RoundKeys,
              ivDec : RoundKeys, shape : Shapes]

\* What a NetCipher's next header is made and checked with.
Cipher(iv, v) == [iv |-> iv, version |-> v, round |-> 0]
Stepped(c)    == [c EXCEPT !.round = @ + 1]

HandshakeByte == [kind |-> "handshake"]
Frame(p, c)   == [kind |-> "frame", pkt |-> p, cipher |-> c]

IsFrame(u) == u.kind = "frame"

\* A client that takes the version of its own generator.
ClientCodecOwnVersion(h) ==
    [enc |-> Cipher(h.ivEnc, Version(ClientVersion)),
     dec |-> Cipher(h.ivDec, Invert(Version(ClientVersion)))]

\* create_client_codec
ClientCodec(h) ==
    [enc |-> Cipher(h.ivEnc, h.version), dec |-> Cipher(h.ivDec, Invert(h.version))]

\* create_server_codec
ServerCodec(h) ==
    [enc |-> Cipher(h.ivDec, Invert(h.version)), dec |-> Cipher(h.ivEnc, h.version)]

Init ==
    /\ phase = [e \in Ends |-> IF e = "server" THEN "write" ELSE "length"]
    /\ handshake \in Handshake
    /\ written = 0
    /\ have = 0
    /\ buffer = [e \in Ends |-> << >>]
    /\ transport = [e \in Ends |-> << >>]
    /\ up = TRUE
    /\ enc = [e \in Ends |-> None]
    /\ dec = [e \in Ends |-> None]
    /\ sent = [e \in Ends |-> << >>]
    /\ got = [e \in Ends |-> << >>]
    /\ broken = {}

-----------------------------------------------------------------------------
(* Creating the streams *)

streams == <<buffer, sent, got, broken>>

HandshakeBytes == LenBytes + handshake.shape.ln

\* create_server_inner: write_all goes on when the transport has room.
WriteHandshake ==
    /\ up
    /\ phase["server"] = "write"
    /\ written < HandshakeBytes
    /\ Len(transport["server"]) < Capacity
    /\ transport' = [transport EXCEPT !["server"] = Append(@, HandshakeByte)]
    /\ written' = written + 1
    /\ UNCHANGED <<phase, handshake, have, up, enc, dec, streams>>

ServerReady ==
    /\ phase["server"] = "write"
    /\ written = HandshakeBytes
    /\ phase' = [phase EXCEPT !["server"] = "ready"]
    /\ enc' = [enc EXCEPT !["server"] = ServerCodec(handshake).enc]
    /\ dec' = [dec EXCEPT !["server"] = ServerCodec(handshake).dec]
    /\ UNCHANGED <<handshake, written, have, transport, up, streams>>

\* A reader that also takes what follows the bytes it asked for.
ReadAhead(wanted) ==
    /\ up
    /\ have < wanted
    /\ \E n \in 1 .. Len(transport["server"]) :
        /\ have' = IF have + n > wanted THEN wanted ELSE have + n
        /\ transport' =
            [transport EXCEPT !["server"] = SubSeq(@, n + 1, Len(@))]

\* One poll_read of read_exact, whose buffer ends where the wanted bytes end.
ReadExact(wanted) ==
    /\ up
    /\ \E n \in 1 .. wanted - have :
        /\ n <= Len(transport["server"])
        /\ have' = have + n
        /\ transport' =
            [transport EXCEPT !["server"] = SubSeq(@, n + 1, Len(@))]

ReadLength ==
    /\ phase["client"] = "length"
    /\ ReadExact(LenBytes)
    /\ UNCHANGED <<phase, handshake, written, up, enc, dec, streams>>

\* decode_handshake_len
LengthAllowed == handshake.shape.ln <= MaxHandshakeLen

\* A body that is read behind the bytes of the length.
LengthDecodedNoReset ==
    /\ phase["client"] = "length"
    /\ have = LenBytes
    /\ phase' = [phase EXCEPT !["client"] = "body"]
    /\ UNCHANGED <<have, handshake, written, transport, up, enc, dec, streams>>

LengthDecoded ==
    /\ phase["client"] = "length"
    /\ have = LenBytes
    /\ LengthAllowed
    /\ phase' = [phase EXCEPT !["client"] = "body"]
    /\ have' = 0
    /\ UNCHANGED <<handshake, written, transport, up, enc, dec, streams>>

ReadBody ==
    /\ phase["client"] = "body"
    /\ ReadExact(handshake.shape.ln)
    /\ UNCHANGED <<phase, handshake, written, up, enc, dec, streams>>

\* A decode that accepts bytes behind the last field.
BodyDecodesPrefix == handshake.shape.need \in 0 .. handshake.shape.ln

\* decode_complete: every field decodes and no byte is left over.
BodyDecodes == handshake.shape.need = handshake.shape.ln

ClientReady ==
    /\ phase["client"] = "body"
    /\ have = handshake.shape.ln
    /\ BodyDecodes
    /\ phase' = [phase EXCEPT !["client"] = "ready"]
    /\ enc' = [enc EXCEPT !["client"] = ClientCodec(handshake).enc]
    /\ dec' = [dec EXCEPT !["client"] = ClientCodec(handshake).dec]
    /\ UNCHANGED <<handshake, written, have, transport, up, streams>>

\* HandshakeSize or InvalidHandshake: the client drops the transport.
ClientInvalid ==
    /\ \/ phase["client"] = "length" /\ have = LenBytes /\ ~LengthAllowed
       \/ phase["client"] = "body" /\ have = handshake.shape.ln /\ ~BodyDecodes
    /\ phase' = [phase EXCEPT !["client"] = "failed"]
    /\ up' = FALSE
    /\ UNCHANGED <<handshake, written, have, transport, enc, dec, streams>>

\* A read or write of the raw transport fails.
CreationFails(e) ==
    /\ ~up
    /\ phase[e] \in {"write", "length", "body"}
    /\ phase' = [phase EXCEPT ![e] = "failed"]
    /\ UNCHANGED <<handshake, written, have, transport, up, enc, dec, streams>>

-----------------------------------------------------------------------------
(* Using the streams *)

\* A send that does not step the cipher.
SendSameKey(e, p) ==
    /\ phase[e] = "ready"
    /\ Len(buffer[e]) < Boundary
    /\ Len(sent[e]) < MaxSend
    /\ buffer' = [buffer EXCEPT ![e] = Append(@, Frame(p, enc[e]))]
    /\ sent' = [sent EXCEPT ![e] = Append(@, p)]
    /\ UNCHANGED <<creation, transport, up, enc, dec, got, broken>>

\* poll_ready and start_send.
Send(e, p) ==
    /\ phase[e] = "ready"
    /\ Len(buffer[e]) < Boundary
    /\ Len(sent[e]) < MaxSend
    /\ buffer' = [buffer EXCEPT ![e] = Append(@, Frame(p, enc[e]))]
    /\ enc' = [enc EXCEPT ![e] = Stepped(@)]
    /\ sent' = [sent EXCEPT ![e] = Append(@, p)]
    /\ UNCHANGED <<creation, transport, up, dec, got, broken>>

\* A flush into a transport without a bound.
FlushUnbounded(e) ==
    /\ up
    /\ buffer[e] # << >>
    /\ transport' = [transport EXCEPT ![e] = Append(@, Head(buffer[e]))]
    /\ buffer' = [buffer EXCEPT ![e] = Tail(@)]
    /\ UNCHANGED <<creation, up, enc, dec, sent, got, broken>>

\* A buffer that is flushed only when it is full.
FlushWhenFull(e) ==
    /\ up
    /\ Len(buffer[e]) >= Boundary
    /\ Len(transport[e]) < Capacity
    /\ transport' = [transport EXCEPT ![e] = Append(@, Head(buffer[e]))]
    /\ buffer' = [buffer EXCEPT ![e] = Tail(@)]
    /\ UNCHANGED <<creation, up, enc, dec, sent, got, broken>>

\* One poll_write of a flush.
Flush(e) ==
    /\ up
    /\ buffer[e] # << >>
    /\ Len(transport[e]) < Capacity
    /\ transport' = [transport EXCEPT ![e] = Append(@, Head(buffer[e]))]
    /\ buffer' = [buffer EXCEPT ![e] = Tail(@)]
    /\ UNCHANGED <<creation, up, enc, dec, sent, got, broken>>

Incoming(e) == transport[Peer(e)]

\* decode_header: the header carries the decoder's key and version.
HeaderOk(e, u) == IsFrame(u) /\ u.cipher = dec[e]

Receive(e) ==
    /\ phase[e] = "ready"
    /\ e \notin broken
    /\ Incoming(e) # << >>
    /\ transport' = [transport EXCEPT ![Peer(e)] = Tail(@)]
    /\ IF HeaderOk(e, Head(Incoming(e)))
       THEN /\ got' = [got EXCEPT ![e] = Append(@, Head(Incoming(e)).pkt)]
            /\ dec' = [dec EXCEPT ![e] = Stepped(@)]
            /\ UNCHANGED broken
       ELSE broken' = broken \union {e} /\ UNCHANGED <<got, dec>>
    /\ UNCHANGED <<creation, buffer, up, enc, sent>>

ReceiveError(e) ==
    /\ ~up
    /\ phase[e] = "ready"
    /\ broken' = broken \union {e}
    /\ e \notin broken
    /\ UNCHANGED <<creation, buffer, transport, up, enc, dec, sent, got>>

\* The connection fails.  What a FramedRead has already read it still yields.
Disconnect ==
    /\ up
    /\ up' = FALSE
    /\ UNCHANGED <<creation, buffer, transport, enc, dec, sent, got, broken>>

-----------------------------------------------------------------------------
Creation ==
    \/ WriteHandshake
    \/ ServerReady
    \/ ReadLength
    \/ LengthDecoded
    \/ ReadBody
    \/ ClientReady
    \/ ClientInvalid
    \/ \E e \in Ends : CreationFails(e)

Use ==
    \E e \in Ends :
        \/ \E p \in Packets : Send(e, p)
        \/ Flush(e)
        \/ Receive(e)
        \/ ReceiveError(e)

Next == Creation \/ Use \/ Disconnect

Spec == Init /\ [][Next]_vars

\* The runtime polls the two create futures while they can make progress.
FairSpec == Spec /\ WF_vars(Creation)

-----------------------------------------------------------------------------
(* Properties *)

Ciphers == [iv : RoundKeys, version : {Version(ServerVersion), Invert(Version(ServerVersion))},
            round : 0 .. MaxSend]
Units == [kind : {"handshake"}] \union [kind : {"frame"}, pkt : Packets, cipher : Ciphers]

\* Every variable has its type.
TypeOK ==
    /\ phase \in [Ends -> {"write", "length", "body", "ready", "failed"}]
    /\ handshake \in Handshake
    /\ written \in 0 .. HandshakeBytes
    /\ have \in Nat
    /\ \A e \in Ends :
        /\ Len(transport[e]) <= Capacity
        /\ \A i \in DOMAIN transport[e] : transport[e][i] \in Units
        /\ \A i \in DOMAIN buffer[e] : buffer[e][i] \in Units
        /\ enc[e] \in Ciphers \union {None}
        /\ dec[e] \in Ciphers \union {None}
        /\ \A i \in DOMAIN sent[e] : sent[e][i] \in Packets
        /\ \A i \in DOMAIN got[e] : got[e][i] \in Packets
    /\ up \in BOOLEAN
    /\ broken \subseteq Ends

\* Bytes of the handshake in front of the first frame.
Ahead(e) == CHOOSE n \in 0 .. Len(transport[e]) :
    /\ \A i \in 1 .. n : ~IsFrame(transport[e][i])
    /\ n < Len(transport[e]) => IsFrame(transport[e][n + 1])

FramesFrom(e) == SubSeq(transport[e], Ahead(e) + 1, Len(transport[e])) \o buffer[e]

\* Reading the handshake takes no byte of a frame: the packets an end has
\* yielded and the frames still on their way to it are together the packets its
\* peer has sent, in order, from the first one on, also when the server sends
\* before the client has read the handshake.
NothingLost ==
    \A e \in Ends :
        Peer(e) \notin broken =>
            sent[e] = got[Peer(e)] \o
                [i \in 1 .. Len(FramesFrom(e)) |-> FramesFrom(e)[i].pkt]

\* The two codecs mirror each other: once both ends are ready, the next frame
\* of a direction (or the next one to be encoded) carries the key and the
\* version its decoder expects, whatever version the client was built for.
CodecsMirror ==
    \A e \in Ends :
        phase[e] = "ready" /\ phase[Peer(e)] = "ready" =>
            \/ Peer(e) \in broken
            \/ dec[Peer(e)] = IF FramesFrom(e) = << >> THEN enc[e]
                              ELSE Head(FramesFrom(e)).cipher

\* An end sees an error only after the connection has failed: no unit that a
\* conforming peer writes is ever refused.
ErrorsComeFromTheTransport == broken # {} => ~up

\* The client becomes ready only with a handshake that is within the limit and
\* fills its length, of which no byte is left in the transport.
ReadyMeansWholeHandshake ==
    phase["client"] = "ready" =>
        /\ handshake.shape.ln <= MaxHandshakeLen
        /\ handshake.shape.need = handshake.shape.ln
        /\ \A i \in DOMAIN transport["server"] : IsFrame(transport["server"][i])

\* Both create futures come to an end.
CreationTerminates == <>(\A e \in Ends : phase[e] \in {"ready", "failed"})
=============================================================================
