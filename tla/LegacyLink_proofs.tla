-------------------------- MODULE LegacyLink_proofs --------------------------
(***************************************************************************)
(* Proofs about LegacyLink, for every packet set, limit, boundary and      *)
(* number of frames, and about PacketHeader, for words of any width.       *)
(***************************************************************************)
EXTENDS LegacyLink, PacketHeader, SequenceTheorems, TLAPS

(***************************************************************************)
(* The inductive invariant.                                                *)
(***************************************************************************)

\* The frames lie behind each other in the stream.
Layout ==
    /\ \A k \in DOMAIN frames : EndOf(frames[k]) <= Encoded
    /\ \A j, k \in DOMAIN frames : j < k => EndOf(frames[j]) <= frames[k].start
    /\ \A k \in DOMAIN frames :
          k + 1 \in DOMAIN frames => frames[k + 1].start = EndOf(frames[k])

\* The round of the frame with k frames before it.
Round(k) == IF Aes THEN k ELSE 0

Rounds ==
    /\ encKey = Round(Len(frames))
    /\ \A k \in DOMAIN frames : frames[k].key = Round(k - 1)

\* Every encoded packet passed the encoder's limit.
Limited == \A k \in DOMAIN frames : frames[k].pkt.len <= EncLimit

Window == consumed <= arrived /\ arrived <= flushed /\ flushed <= Encoded

EofInv ==
    /\ eof => conn \in {"fin", "dropped"} /\ arrived = flushed
    /\ conn = "fin" => Unwritten = 0

ReadyInv == ready => Unwritten < Boundary

\* Where the first frame that was not taken starts.
NextStart ==
    IF Len(got) < Len(frames) THEN frames[Len(got) + 1].start ELSE Encoded

\* The decoder stands before a header, or between a header and its body.
BeforeHeader == decLen = None /\ consumed = NextStart
BeforeBody ==
    /\ decLen # None
    /\ Len(got) < Len(frames)
    /\ decLen = frames[Len(got) + 1].pkt.len
    /\ decLen <= MaxPacketLen
    /\ consumed = BodyOf(frames[Len(got) + 1])

InStep == BeforeHeader \/ BeforeBody

\* The decoder's round is the number of packets yielded, also after an error.
KeyCount == decKey = Round(Len(got))

\* FramedRead waits for the transport only when the decoder asked for more.
Waiting ==
    \/ decLen = None /\ Buffered < HeaderLen
    \/ decLen # None /\ Buffered < decLen

EndInv == ended => eof /\ consumed = arrived /\ ~isReadable /\ ~hasErrored

IInv ==
    /\ TypeOK
    /\ Layout
    /\ Rounds
    /\ Limited
    /\ Window
    /\ EofInv
    /\ ReadyInv
    /\ SendBufferBound
    /\ KeyCount
    /\ PacketsKeepTheirPlace
    /\ DeliveredIsPrefix
    /\ ~failed => InStep
    /\ ~failed /\ ~isReadable => Waiting
    /\ ~failed => EndInv
    /\ ~failed => ~hasErrored

(***************************************************************************)
(* Facts about the frames.                                                 *)
(***************************************************************************)

\* Positions are natural numbers.
LEMMA Positions ==
    ASSUME TypeOK, NEW k \in DOMAIN frames
    PROVE  /\ frames[k] \in Frame
           /\ frames[k].pkt \in Packets
           /\ frames[k].pkt.len \in Nat
           /\ frames[k].start \in Nat
           /\ frames[k].key \in Nat
           /\ BodyOf(frames[k]) \in Nat
           /\ BodyOf(frames[k]) > frames[k].start
           /\ EndOf(frames[k]) \in Nat
           /\ EndOf(frames[k]) >= BodyOf(frames[k])
           /\ EndOf(frames[k]) = frames[k].start + HeaderLen + frames[k].pkt.len
<1>1. frames[k] \in Frame
  BY DEF TypeOK
<1>2. /\ frames[k].pkt \in Packets
      /\ frames[k].start \in Nat
      /\ frames[k].key \in Nat
  BY <1>1 DEF Frame
<1>3. frames[k].pkt.len \in Nat
  BY <1>2, LinkAssumption DEF LinkAssumption
<1> QED
  BY <1>1, <1>2, <1>3, LinkAssumption DEF LinkAssumption, BodyOf, EndOf

\* The stream ends where the last frame does.
LEMMA EncodedNat ==
    ASSUME TypeOK
    PROVE  Encoded \in Nat
<1>1. CASE frames = << >>
  BY <1>1 DEF Encoded
<1>2. CASE frames # << >>
  <2>1. Len(frames) \in DOMAIN frames
    BY <1>2 DEF TypeOK
  <2> QED
    BY <1>2, <2>1, Positions DEF Encoded
<1> QED
  BY <1>1, <1>2

\* No two frames start at the same position.
LEMMA UniqueStart ==
    ASSUME TypeOK, Layout, NEW j \in DOMAIN frames, NEW k \in DOMAIN frames,
           frames[j].start = frames[k].start
    PROVE  j = k
<1>1. j \in Nat /\ k \in Nat
  BY DEF TypeOK
<1>2. ~(j < k)
  BY Positions DEF Layout
<1>3. ~(k < j)
  BY Positions DEF Layout
<1> QED
  BY <1>1, <1>2, <1>3

\* What a packet's encoding does to the sequence of frames.
LEMMA EncodeFrameFacts ==
    ASSUME TypeOK, NEW p \in Packets, EncodeFrame(p)
    PROVE  /\ frames' \in Seq(Frame)
           /\ Len(frames') = Len(frames) + 1
           /\ DOMAIN frames' = 1 .. Len(frames) + 1
           /\ DOMAIN frames = 1 .. Len(frames)
           /\ \A k \in DOMAIN frames : frames'[k] = frames[k]
           /\ frames'[Len(frames) + 1] = [pkt |-> p, start |-> Encoded, key |-> encKey]
           /\ Encoded' = Encoded + HeaderLen + p.len
           /\ Encoded' >= Encoded
           /\ encKey' = NextKey(encKey)
<1> DEFINE f == [pkt |-> p, start |-> Encoded, key |-> encKey]
<1>1. f \in Frame
  BY EncodedNat DEF TypeOK, Frame
<1>2. frames' = Append(frames, f) /\ encKey' = NextKey(encKey)
  BY DEF EncodeFrame
<1>3. /\ frames' \in Seq(Frame)
      /\ Len(frames') = Len(frames) + 1
      /\ DOMAIN frames' = 1 .. Len(frames) + 1
      /\ DOMAIN frames = 1 .. Len(frames)
      /\ \A k \in DOMAIN frames : frames'[k] = frames[k]
      /\ frames'[Len(frames) + 1] = f
  BY <1>1, <1>2 DEF TypeOK
<1>4. Encoded' = EndOf(f)
  <2>1. frames' # << >>
    BY <1>3 DEF TypeOK
  <2> QED
    BY <1>3, <2>1 DEF Encoded, EndOf, BodyOf
<1>5. EndOf(f) = Encoded + HeaderLen + p.len
  BY DEF EndOf, BodyOf
<1>6. p.len \in Nat /\ HeaderLen \in Nat /\ Encoded \in Nat
  BY EncodedNat, LinkAssumption DEF LinkAssumption
<1> QED
  BY <1>2, <1>3, <1>4, <1>5, <1>6

(***************************************************************************)
(* What the decoder finds.                                                 *)
(***************************************************************************)

\* In step, the decoder reads exactly the header of the next frame.
LEMMA HeaderInStep ==
    ASSUME IInv, ~failed, decLen = None, Buffered >= HeaderLen
    PROVE  /\ Len(got) < Len(frames)
           /\ consumed = frames[Len(got) + 1].start
           /\ IsHeader
           /\ HeaderLengths = {frames[Len(got) + 1].pkt.len}
<1> DEFINE g == Len(got) + 1
<1>1. TypeOK /\ Layout /\ Rounds /\ Window /\ KeyCount /\ InStep
  BY DEF IInv
<1>2. consumed = NextStart
  BY <1>1, LinkAssumption DEF LinkAssumption, InStep, BeforeHeader, BeforeBody, TypeOK
<1>3. Len(got) \in Nat /\ Len(frames) \in Nat
  BY <1>1 DEF TypeOK
<1>4. Len(got) < Len(frames)
  <2>1. consumed \in Nat /\ arrived \in Nat /\ flushed \in Nat /\ Encoded \in Nat
    BY <1>1, EncodedNat DEF TypeOK
  <2>2. consumed < Encoded
    BY <1>1, <2>1, LinkAssumption DEF LinkAssumption, Window, Buffered
  <2> QED
    BY <1>2, <1>3, <2>1, <2>2 DEF NextStart
<1>5. g \in DOMAIN frames
  BY <1>1, <1>3, <1>4 DEF TypeOK
<1>6. consumed = frames[g].start
  BY <1>2, <1>4 DEF NextStart
<1>7. HeaderAt(g)
  BY <1>1, <1>3, <1>5, <1>6 DEF HeaderAt, Rounds, KeyCount, Round
<1>8. \A k \in DOMAIN frames : HeaderAt(k) => k = g
  BY <1>1, <1>5, <1>6, UniqueStart DEF HeaderAt
<1>9. /\ IsHeader
      /\ HeaderLengths = {frames[k].pkt.len : k \in {j \in DOMAIN frames : HeaderAt(j)}}
  BY <1>5, <1>7 DEF HeaderLengths, IsHeader
<1>10. {j \in DOMAIN frames : HeaderAt(j)} = {g}
  BY <1>5, <1>7, <1>8
<1>11. HeaderLengths = {frames[g].pkt.len}
  BY <1>9, <1>10
<1> QED
  BY <1>4, <1>6, <1>9, <1>11

\* In step, the length read and the body it is for are the next frame's.
LEMMA LengthInStep ==
    ASSUME IInv, ~failed, NEW n, NEW body, LengthRead(n, body)
    PROVE  /\ Len(got) < Len(frames)
           /\ Len(got) + 1 \in DOMAIN frames
           /\ n = frames[Len(got) + 1].pkt.len
           /\ n <= MaxPacketLen
           /\ body = BodyOf(frames[Len(got) + 1])
           /\ n \in Nat
           /\ body \in Nat
<1>1. TypeOK /\ InStep
  BY DEF IInv
<1>2. CASE SavedLength(n, body)
  <2>1. BeforeBody
    BY <1>1, <1>2 DEF InStep, BeforeHeader, SavedLength
  <2>2. Len(got) + 1 \in DOMAIN frames
    BY <1>1, <2>1 DEF TypeOK, BeforeBody
  <2> QED
    BY <1>1, <1>2, <2>1, <2>2, Positions DEF BeforeBody, SavedLength
<1>3. CASE ParsedLength(n, body)
  <2>1. /\ Len(got) < Len(frames)
        /\ consumed = frames[Len(got) + 1].start
        /\ HeaderLengths = {frames[Len(got) + 1].pkt.len}
    BY <1>3, HeaderInStep DEF ParsedLength
  <2>2. Len(got) + 1 \in DOMAIN frames
    BY <1>1, <2>1 DEF TypeOK
  <2> QED
    BY <1>1, <1>3, <2>1, <2>2, Positions DEF ParsedLength, BodyOf, Decodable
<1> QED
  BY <1>2, <1>3 DEF LengthRead

\* Decrypting the next frame's body in its round gives its packet.
LEMMA PlainInStep ==
    ASSUME TypeOK, Layout, NEW k \in DOMAIN frames, decKey = frames[k].key
    PROVE  PlainAt(BodyOf(frames[k]), frames[k].pkt.len) = frames[k].pkt
<1> DEFINE Match == {j \in DOMAIN frames :
                       /\ BodyOf(frames[j]) = BodyOf(frames[k])
                       /\ frames[j].pkt.len = frames[k].pkt.len
                       /\ frames[j].key = decKey}
<1>1. k \in Match
  OBVIOUS
<1>2. \A j \in Match : j = k
  <2> SUFFICES ASSUME NEW j \in Match
               PROVE  j = k
    OBVIOUS
  <2>1. frames[j].start = frames[k].start
    BY Positions, LinkAssumption DEF BodyOf, LinkAssumption
  <2> QED
    BY <2>1, UniqueStart
<1>3. (CHOOSE j \in Match : TRUE) = k
  BY <1>1, <1>2
<1>4. Match # {}
  BY <1>1
<1> HIDE DEF Match
<1> QED
  BY <1>3, <1>4 DEF PlainAt, Match

\* PlainAt has its type.
LEMMA PlainType ==
    ASSUME TypeOK, NEW n, NEW body
    PROVE  PlainAt(body, n) \in Packets \union {Garbled}
<1> DEFINE Match == {k \in DOMAIN frames :
                       /\ BodyOf(frames[k]) = body
                       /\ frames[k].pkt.len = n
                       /\ frames[k].key = decKey}
<1>1. CASE Match = {}
  BY <1>1 DEF PlainAt
<1>2. CASE Match # {}
  <2>1. (CHOOSE k \in Match : TRUE) \in Match
    BY <1>2
  <2>2. (CHOOSE k \in Match : TRUE) \in DOMAIN frames
    BY <2>1
  <2>3. frames[CHOOSE k \in Match : TRUE].pkt \in Packets
    BY <2>2, Positions
  <2> QED
    BY <1>2, <2>3 DEF PlainAt
<1> QED
  BY <1>1, <1>2

\* What is decrypted in a round is that round's packet, or garbled.
LEMMA PlainInPlace ==
    ASSUME TypeOK, Rounds, KeyCount, Aes, NEW n, NEW body, PlainAt(body, n) # Garbled
    PROVE  /\ Len(got) + 1 \in DOMAIN frames
           /\ PlainAt(body, n) = frames[Len(got) + 1].pkt
<1> DEFINE Match == {k \in DOMAIN frames :
                       /\ BodyOf(frames[k]) = body
                       /\ frames[k].pkt.len = n
                       /\ frames[k].key = decKey}
           m == CHOOSE k \in Match : TRUE
<1>1. Match # {} /\ PlainAt(body, n) = frames[m].pkt
  BY DEF PlainAt
<1>2. m \in Match
  BY <1>1
<1>3. m \in DOMAIN frames /\ frames[m].key = decKey
  BY <1>2
<1>4. frames[m].key = m - 1 /\ decKey = Len(got)
  BY <1>3 DEF Rounds, KeyCount, Round
<1>5. m = Len(got) + 1
  BY <1>3, <1>4 DEF TypeOK
<1> QED
  BY <1>1, <1>3, <1>5

\* The lengths a header can have are numbers.
LEMMA LengthType ==
    ASSUME TypeOK, NEW n, NEW body, LengthRead(n, body)
    PROVE  n \in Nat /\ body \in Nat
<1>1. CASE SavedLength(n, body)
  BY <1>1 DEF SavedLength, TypeOK
<1>2. CASE ParsedLength(n, body)
  <2>1. HeaderLengths \subseteq Nat
    BY Positions, LinkAssumption DEF LinkAssumption, HeaderLengths
  <2> QED
    BY <1>2, <2>1, LinkAssumption DEF LinkAssumption, ParsedLength, TypeOK
<1> QED
  BY <1>1, <1>2 DEF LengthRead

(***************************************************************************)
(* Every step keeps the invariant.                                         *)
(***************************************************************************)

\* Steps that leave the frames alone keep what is said about them.
LEMMA SameFrames ==
    ASSUME UNCHANGED encVars
    PROVE  /\ Encoded' = Encoded
           /\ Layout' = Layout
           /\ Rounds' = Rounds
           /\ Limited' = Limited
           /\ \A k : BodyOf(frames'[k]) = BodyOf(frames[k])
           /\ \A k : EndOf(frames'[k]) = EndOf(frames[k])
BY DEF encVars, Encoded, Layout, Rounds, Limited, Round, BodyOf, EndOf

\* Steps that also leave the decoder alone keep its place.
LEMMA SameDecoder ==
    ASSUME IInv, UNCHANGED encVars, UNCHANGED decVars, failed => failed'
    PROVE  /\ InStep' = InStep
           /\ KeyCount'
           /\ PacketsKeepTheirPlace'
           /\ DeliveredIsPrefix'
<1>1. Encoded' = Encoded
  BY SameFrames
<1>2. /\ frames' = frames
      /\ consumed' = consumed
      /\ decLen' = decLen
      /\ decKey' = decKey
      /\ got' = got
  BY DEF encVars, decVars
<1>3. InStep' = InStep
  BY <1>1, <1>2 DEF InStep, BeforeHeader, BeforeBody, NextStart, BodyOf
<1>4. KeyCount' /\ PacketsKeepTheirPlace'
  BY <1>2 DEF IInv, KeyCount, PacketsKeepTheirPlace, Round
<1>5. DeliveredIsPrefix'
  BY <1>2 DEF IInv, DeliveredIsPrefix
<1> QED
  BY <1>3, <1>4, <1>5

LEMMA InitInv == Init => IInv
<1> SUFFICES ASSUME Init PROVE IInv
  OBVIOUS
<1>1. TypeOK
  <2>1. frames \in Seq(Frame) /\ got \in Seq(Packets \union {Garbled})
    BY DEF Init
  <2> QED
    BY <2>1 DEF Init, TypeOK
<1>2. Layout /\ Rounds /\ Limited
  BY DEF Init, Layout, Rounds, Limited, Round
<1>3. Encoded = 0
  BY DEF Init, Encoded
<1>4. Window /\ EofInv /\ ReadyInv /\ SendBufferBound
  BY <1>3, LinkAssumption
     DEF LinkAssumption, Init, Window, EofInv, ReadyInv, SendBufferBound, Unwritten
<1>5. DeliveredIsPrefix /\ PacketsKeepTheirPlace /\ KeyCount
  BY DEF Init, DeliveredIsPrefix, PacketsKeepTheirPlace, KeyCount, Round
<1>6. InStep
  BY <1>3 DEF Init, InStep, BeforeHeader, NextStart
<1>7. Waiting
  BY LinkAssumption DEF LinkAssumption, Init, Waiting, Buffered
<1>8. EndInv /\ ~failed /\ ~hasErrored
  BY DEF Init, EndInv
<1> QED
  BY <1>1, <1>2, <1>4, <1>5, <1>6, <1>7, <1>8 DEF IInv

\* Steps of the sending program that move no byte.
Control ==
    \/ PollReady \/ PollFlush \/ CancelFlush \/ Close \/ Shutdown \/ Drop \/ Reset

LEMMA ControlInv ==
    ASSUME IInv, Control
    PROVE  IInv'
<1> DEFINE Facts ==
      /\ UNCHANGED encVars
      /\ UNCHANGED decVars
      /\ UNCHANGED readerVars
      /\ UNCHANGED <<flushed, arrived>>
      /\ conn' = conn \/ conn = "open"
      /\ conn' \in {"open", "fin", "dropped", "reset"}
      /\ ready' \in BOOLEAN /\ flushing' \in BOOLEAN /\ closing' \in BOOLEAN
      /\ ready' = ready \/ Accepting
      /\ conn' = "fin" => conn = "fin" \/ Unwritten = 0
<1>0. TypeOK
  BY DEF IInv
<1>1. Facts
  <2>1. PollReady => Facts
    BY <1>0 DEF TypeOK, PollReady
  <2>2. PollFlush => Facts
    BY <1>0 DEF TypeOK, PollFlush
  <2>3. CancelFlush => Facts
    BY <1>0 DEF TypeOK, CancelFlush
  <2>4. Close => Facts
    BY <1>0 DEF TypeOK, Close
  <2>5. Shutdown => Facts
    BY <1>0 DEF TypeOK, Shutdown, Drained
  <2>6. Drop => Facts
    BY <1>0 DEF TypeOK, Drop
  <2>7. Reset => Facts
    BY <1>0 DEF TypeOK, Reset, writerVars
  <2> QED
    BY <2>1, <2>2, <2>3, <2>4, <2>5, <2>6, <2>7 DEF Control
<1>2. TypeOK'
  BY <1>1 DEF IInv, TypeOK, encVars, decVars, readerVars
<1>3. /\ Encoded' = Encoded
      /\ Layout' /\ Rounds' /\ Limited'
      /\ InStep' = InStep
      /\ KeyCount' /\ PacketsKeepTheirPlace' /\ DeliveredIsPrefix'
  BY <1>1, SameFrames, SameDecoder DEF IInv, readerVars
<1>4. Window' /\ SendBufferBound'
  BY <1>1, <1>3 DEF IInv, Window, SendBufferBound, Unwritten, decVars
<1>5. EofInv'
  <2>1. eof' => conn' \in {"fin", "dropped"} /\ arrived' = flushed'
    BY <1>1 DEF IInv, EofInv, readerVars
  <2>2. Unwritten' = Unwritten
    BY <1>1, <1>3 DEF Unwritten
  <2> QED
    BY <1>1, <2>1, <2>2 DEF IInv, EofInv
<1>6. ReadyInv'
  BY <1>1, <1>3 DEF IInv, ReadyInv, Accepting, Unwritten
<1>7. /\ Waiting' = Waiting
      /\ EndInv' = EndInv
      /\ failed' = failed
      /\ isReadable' = isReadable
      /\ hasErrored' = hasErrored
  BY <1>1 DEF Waiting, EndInv, Buffered, decVars, readerVars
<1> QED
  BY <1>2, <1>3, <1>4, <1>5, <1>6, <1>7 DEF IInv

\* Encoding a packet adds a frame behind all the others.
LEMMA StartSendInv ==
    ASSUME IInv, NEW p \in Packets, StartSend(p)
    PROVE  IInv'
<1>0. TypeOK /\ Layout /\ Rounds /\ Limited /\ Window
  BY DEF IInv
<1>1. /\ UNCHANGED decVars
      /\ UNCHANGED readerVars
      /\ UNCHANGED <<flushing, closing, flushed, conn, arrived>>
      /\ ready
      /\ ready' = FALSE
  BY DEF StartSend
<1>2. CASE ~Encodable(p)
  <2>1. UNCHANGED encVars
    BY <1>2 DEF StartSend
  <2>2. TypeOK'
    BY <1>1, <2>1 DEF IInv, TypeOK, encVars, decVars, readerVars
  <2>3. /\ Encoded' = Encoded
        /\ Layout' /\ Rounds' /\ Limited'
        /\ InStep' = InStep
        /\ KeyCount' /\ PacketsKeepTheirPlace' /\ DeliveredIsPrefix'
    BY <1>1, <2>1, SameFrames, SameDecoder DEF IInv, readerVars
  <2>4. Window' /\ SendBufferBound' /\ EofInv' /\ ReadyInv'
    BY <1>1, <2>3 DEF IInv, Window, SendBufferBound, Unwritten, EofInv, ReadyInv,
                      decVars, readerVars
  <2>5. /\ Waiting' = Waiting
        /\ EndInv' = EndInv
        /\ failed' = failed
        /\ isReadable' = isReadable
        /\ hasErrored' = hasErrored
    BY <1>1 DEF Waiting, EndInv, Buffered, decVars, readerVars
  <2> QED
    BY <2>2, <2>3, <2>4, <2>5 DEF IInv
<1>3. CASE Encodable(p)
  <2>1. EncodeFrame(p)
    BY <1>3 DEF StartSend
  <2> DEFINE f == [pkt |-> p, start |-> Encoded, key |-> encKey]
  <2>2. /\ frames' \in Seq(Frame)
        /\ Len(frames') = Len(frames) + 1
        /\ DOMAIN frames' = 1 .. Len(frames) + 1
        /\ DOMAIN frames = 1 .. Len(frames)
        /\ \A k \in DOMAIN frames : frames'[k] = frames[k]
        /\ frames'[Len(frames) + 1] = f
        /\ Encoded' = Encoded + HeaderLen + p.len
        /\ Encoded' >= Encoded
        /\ encKey' = NextKey(encKey)
    BY <1>0, <2>1, EncodeFrameFacts
  <2>3. /\ Len(frames) \in Nat
        /\ Len(got) \in Nat
        /\ Encoded \in Nat
        /\ encKey \in Nat
        /\ p.len \in Nat
        /\ HeaderLen \in Nat \ {0}
        /\ consumed \in Nat /\ arrived \in Nat /\ flushed \in Nat
    BY <1>0, EncodedNat, LinkAssumption DEF LinkAssumption, TypeOK
  <2>4. TypeOK'
    <3>1. encKey' \in Nat
      BY <2>2, <2>3 DEF NextKey
    <3> QED
      BY <1>1, <2>2, <3>1 DEF IInv, TypeOK, decVars, readerVars
  <2>5. EndOf(f) = Encoded' /\ BodyOf(f) = Encoded + HeaderLen
    BY <2>2 DEF EndOf, BodyOf
  <2>6. Layout'
    <3>1. \A k \in DOMAIN frames' : EndOf(frames'[k]) <= Encoded'
      <4> SUFFICES ASSUME NEW k \in DOMAIN frames'
                   PROVE  EndOf(frames'[k]) <= Encoded'
        OBVIOUS
      <4>1. CASE k \in DOMAIN frames
        BY <1>0, <2>2, <2>3, <4>1, Positions DEF Layout
      <4>2. CASE k = Len(frames) + 1
        BY <2>2, <2>3, <2>5, <4>2
      <4> QED
        BY <2>2, <2>3, <4>1, <4>2
    <3>2. \A j, k \in DOMAIN frames' : j < k => EndOf(frames'[j]) <= frames'[k].start
      <4> SUFFICES ASSUME NEW j \in DOMAIN frames', NEW k \in DOMAIN frames', j < k
                   PROVE  EndOf(frames'[j]) <= frames'[k].start
        OBVIOUS
      <4>1. j \in DOMAIN frames
        BY <2>2, <2>3
      <4>2. CASE k \in DOMAIN frames
        BY <1>0, <2>2, <4>1, <4>2 DEF Layout
      <4>3. CASE k = Len(frames) + 1
        BY <1>0, <2>2, <4>1, <4>3 DEF Layout
      <4> QED
        BY <2>2, <2>3, <4>2, <4>3
    <3>3. ASSUME NEW k \in DOMAIN frames', k + 1 \in DOMAIN frames'
          PROVE  frames'[k + 1].start = EndOf(frames'[k])
      <4>1. k \in DOMAIN frames
        BY <2>2, <2>3, <3>3
      <4>2. CASE k + 1 \in DOMAIN frames
        BY <1>0, <2>2, <4>1, <4>2 DEF Layout
      <4>3. CASE k = Len(frames)
        <5>1. frames # << >>
          BY <2>2, <4>1
        <5> QED
          BY <2>2, <4>1, <4>3, <5>1 DEF Encoded
      <4> QED
        BY <2>2, <2>3, <3>3, <4>2, <4>3
    <3> QED
      BY <3>1, <3>2, <3>3 DEF Layout
  <2>7. Rounds'
    <3>1. encKey' = Round(Len(frames'))
      BY <1>0, <2>2, <2>3 DEF Rounds, Round, NextKey
    <3>2. \A k \in DOMAIN frames' : frames'[k].key = Round(k - 1)
      BY <1>0, <2>2, <2>3 DEF Rounds, Round
    <3> QED
      BY <3>1, <3>2 DEF Rounds, Round
  <2>8. Limited'
    BY <1>0, <1>3, <2>2, <2>3 DEF Limited, Encodable
  <2>9. Window' /\ EofInv' /\ ReadyInv'
    <3>1. conn # "fin"
      BY DEF StartSend, Usable
    <3> QED
      BY <1>0, <1>1, <2>2, <2>3, <3>1 DEF IInv, Window, EofInv, ReadyInv, decVars, readerVars
  <2>10. SendBufferBound'
    <3>1. Encoded - flushed < Boundary
      BY <1>1 DEF IInv, ReadyInv, Unwritten
    <3>2. Boundary \in Nat /\ EncLimit \in Nat
      BY LinkAssumption DEF LinkAssumption
    <3>3. p.len <= EncLimit
      BY <1>3 DEF Encodable
    <3>4. Encoded' = Encoded + HeaderLen + p.len /\ flushed' = flushed
      BY <1>1, <2>2
    <3>5. (Encoded + HeaderLen + p.len) - flushed < Boundary + HeaderLen + EncLimit
      BY <2>3, <3>1, <3>2, <3>3
    <3> QED
      BY <3>4, <3>5 DEF SendBufferBound, Unwritten
  <2>11. DeliveredIsPrefix'
    <3> SUFFICES ASSUME ~failed'
                 PROVE  /\ Len(got') <= Len(frames')
                        /\ \A k \in DOMAIN got' : got'[k] = frames'[k].pkt
      BY DEF DeliveredIsPrefix
    <3>1. got' = got /\ Len(got) <= Len(frames)
      BY <1>1 DEF IInv, DeliveredIsPrefix, decVars, readerVars
    <3>2. DOMAIN got = 1 .. Len(got)
      BY <1>0 DEF TypeOK
    <3>3. \A k \in DOMAIN got : k \in DOMAIN frames
      BY <2>2, <2>3, <3>1, <3>2
    <3>4. \A k \in DOMAIN got : got[k] = frames'[k].pkt
      BY <1>1, <2>2, <3>3 DEF IInv, DeliveredIsPrefix, readerVars
    <3>5. Len(got) <= Len(frames')
      BY <2>2, <2>3, <3>1
    <3> QED
      BY <3>1, <3>4, <3>5
  <2>12. ~failed => InStep'
    <3> SUFFICES ASSUME ~failed PROVE InStep'
      OBVIOUS
    <3>1. InStep
      BY DEF IInv
    <3>2. Len(got) <= Len(frames)
      BY DEF IInv, DeliveredIsPrefix
    <3>3. CASE BeforeHeader
      <4>1. NextStart' = NextStart
        BY <1>1, <2>2, <2>3, <3>2 DEF NextStart, decVars
      <4> QED
        BY <1>1, <3>3, <4>1 DEF InStep, BeforeHeader, decVars
    <3>4. CASE BeforeBody
      <4>0. Len(got) < Len(frames)
        BY <3>4 DEF BeforeBody
      <4>2. Len(got) + 1 \in 1 .. Len(frames)
        BY <2>3, <4>0
      <4>1. frames'[Len(got) + 1] = frames[Len(got) + 1]
        <5>1. Len(got) + 1 \in DOMAIN frames
          BY <2>2, <4>2
        <5>2. \A k \in DOMAIN frames : frames'[k] = frames[k]
          BY <2>2
        <5> HIDE DEF f
        <5> QED
          BY ONLY <5>1, <5>2
      <4> QED
        BY <1>1, <2>2, <2>3, <3>4, <4>1 DEF InStep, BeforeBody, decVars, BodyOf
    <3> QED
      BY <3>1, <3>3, <3>4 DEF InStep
  <2>13. KeyCount' /\ PacketsKeepTheirPlace'
    <3>1. KeyCount'
      BY <1>1 DEF IInv, KeyCount, decVars, Round
    <3>2. \A k \in DOMAIN frames : k \in DOMAIN frames' /\ frames'[k] = frames[k]
      BY <2>2, <2>3
    <3>3. PacketsKeepTheirPlace'
      BY <1>1, <3>2 DEF IInv, PacketsKeepTheirPlace, decVars
    <3> QED
      BY <3>1, <3>3
  <2>14. /\ Waiting' = Waiting
         /\ EndInv' = EndInv
         /\ failed' = failed
         /\ isReadable' = isReadable
         /\ hasErrored' = hasErrored
    BY <1>1 DEF Waiting, EndInv, Buffered, decVars, readerVars
  <2> QED
    BY <2>4, <2>6, <2>7, <2>8, <2>9, <2>10, <2>11, <2>12, <2>13, <2>14 DEF IInv
<1> QED
  BY <1>2, <1>3

\* Steps that move bytes from buffer to transport and on to the other buffer.
Move ==
    \/ \E n \in 1 .. Unwritten : Write(n)
    \/ \E n \in 1 .. flushed - arrived : PollRead(n)
    \/ PollReadEof

LEMMA MoveInv ==
    ASSUME IInv, Move
    PROVE  IInv'
<1>0. TypeOK /\ Encoded \in Nat
  BY EncodedNat DEF IInv
<1>1. /\ UNCHANGED encVars
      /\ UNCHANGED decVars
      /\ UNCHANGED <<ready, closing, conn, hasErrored, ended, failed>>
  BY DEF Move, Write, PollRead, PollReadEof, encVars, decVars, readerVars, writerVars
<1>2. /\ Encoded' = Encoded
      /\ Layout' /\ Rounds' /\ Limited'
      /\ InStep' = InStep
      /\ KeyCount' /\ PacketsKeepTheirPlace' /\ DeliveredIsPrefix'
  BY <1>1, SameFrames, SameDecoder DEF IInv
<1>3. CASE \E n \in 1 .. Unwritten : Write(n)
  <2>1. PICK n \in 1 .. Unwritten : Write(n)
    BY <1>3
  <2>2. n \in Nat /\ n <= Encoded - flushed /\ n >= 1
    BY <1>0 DEF Unwritten, TypeOK
  <2>3. /\ flushed' = flushed + n
        /\ conn = "open"
        /\ flushing' \in BOOLEAN
        /\ UNCHANGED <<arrived, eof, isReadable>>
    BY <1>0, <2>1 DEF Write, readerVars, TypeOK
  <2>4. TypeOK'
    BY <1>0, <1>1, <2>2, <2>3 DEF TypeOK, encVars, decVars
  <2>5. Window' /\ SendBufferBound'
    <3>1. flushed \in Nat /\ Boundary + HeaderLen + EncLimit \in Nat
      BY <1>0, LinkAssumption DEF LinkAssumption, TypeOK
    <3>2. consumed <= arrived /\ arrived <= flushed /\ arrived \in Nat
      BY <1>0 DEF IInv, Window, TypeOK
    <3>3. arrived <= flushed + n /\ flushed + n <= Encoded
      BY <1>0, <2>2, <3>1, <3>2
    <3>4. Window'
      BY <1>1, <1>2, <2>3, <3>2, <3>3 DEF Window, decVars
    <3>5. Encoded - flushed < Boundary + HeaderLen + EncLimit
      BY DEF IInv, SendBufferBound, Unwritten
    <3>6. Encoded - (flushed + n) < Boundary + HeaderLen + EncLimit
      BY <1>0, <2>2, <3>1, <3>5
    <3> QED
      BY <1>2, <2>3, <3>4, <3>6 DEF SendBufferBound, Unwritten
  <2>6. EofInv' /\ ReadyInv'
    <3>1. eof' = eof /\ conn' = conn /\ ready' = ready
      BY <1>1, <2>3
    <3>2. EofInv'
      BY <2>3, <3>1 DEF IInv, EofInv
    <3>3. Encoded - flushed < Boundary => Encoded - (flushed + n) < Boundary
      BY <1>0, <2>2, LinkAssumption DEF LinkAssumption, TypeOK
    <3> QED
      BY <1>2, <2>3, <3>1, <3>2, <3>3 DEF IInv, ReadyInv, Unwritten
  <2>7. Waiting' = Waiting /\ EndInv' = EndInv
    BY <1>1, <2>3 DEF Waiting, EndInv, Buffered, decVars
  <2> QED
    BY <1>1, <1>2, <2>3, <2>4, <2>5, <2>6, <2>7 DEF IInv
<1>4. CASE \E n \in 1 .. flushed - arrived : PollRead(n)
  <2>1. PICK n \in 1 .. flushed - arrived : PollRead(n)
    BY <1>4
  <2>2. n \in Nat /\ n <= flushed - arrived /\ n >= 1
    BY <1>0 DEF TypeOK
  <2>3. /\ arrived' = arrived + n
        /\ conn # "reset"
        /\ ~isReadable /\ ~hasErrored
        /\ eof' = FALSE
        /\ isReadable' = TRUE
        /\ UNCHANGED <<flushed, flushing>>
    BY <2>1 DEF PollRead, Reading, writerVars
  <2>4. TypeOK'
    <3>1. arrived' \in Nat
      BY <1>0, <2>2, <2>3 DEF TypeOK
    <3>2. eof' \in BOOLEAN /\ isReadable' \in BOOLEAN
      BY <2>3
    <3>3. UNCHANGED <<flushed, flushing>>
      BY <2>3
    <3> QED
      BY <1>0, <1>1, <3>1, <3>2, <3>3 DEF TypeOK, encVars, decVars
  <2>5. Window' /\ SendBufferBound' /\ EofInv' /\ ReadyInv'
    BY <1>0, <1>1, <1>2, <2>2, <2>3
       DEF IInv, TypeOK, Window, SendBufferBound, EofInv, ReadyInv, Unwritten, decVars
  <2>6. ~eof
    BY <1>0, <2>2 DEF IInv, EofInv, TypeOK
  <2>7. ~failed => EndInv'
    BY <1>1, <2>6 DEF IInv, EndInv
  <2> QED
    BY <1>1, <1>2, <2>3, <2>4, <2>5, <2>7 DEF IInv
<1>5. CASE PollReadEof
  <2>1. /\ UNCHANGED <<flushed, arrived, flushing>>
        /\ conn \in {"fin", "dropped"}
        /\ arrived = flushed
        /\ ~isReadable /\ ~hasErrored
        /\ ~eof
        /\ eof' = TRUE
        /\ isReadable' = TRUE
    BY <1>5 DEF PollReadEof, Reading, writerVars
  <2>2. TypeOK'
    BY <1>0, <1>1, <2>1 DEF TypeOK, encVars, decVars
  <2>3. Window' /\ SendBufferBound' /\ EofInv' /\ ReadyInv'
    BY <1>0, <1>1, <1>2, <2>1
       DEF IInv, TypeOK, Window, SendBufferBound, EofInv, ReadyInv, Unwritten, decVars
  <2>4. ~failed => EndInv'
    BY <1>1, <2>1 DEF IInv, EndInv
  <2> QED
    BY <1>1, <1>2, <2>1, <2>2, <2>3, <2>4 DEF IInv
<1> QED
  BY <1>3, <1>4, <1>5 DEF Move

\* In step, a taken frame brings the decoder before the next header.
LEMMA TakeInStep ==
    ASSUME IInv, ~failed, UNCHANGED encVars,
           NEW n, NEW body, LengthRead(n, body),
           consumed' = body + n, decLen' = None,
           got' = Append(got, PlainAt(body, n))
    PROVE  /\ InStep'
           /\ Len(got') <= Len(frames)
           /\ got'[Len(got) + 1] = frames[Len(got) + 1].pkt
<1> DEFINE g == Len(got) + 1
<1>1. TypeOK /\ Layout /\ Rounds /\ KeyCount /\ Encoded \in Nat
  BY EncodedNat DEF IInv
<1>2. /\ Len(got) < Len(frames)
      /\ g \in DOMAIN frames
      /\ n = frames[g].pkt.len
      /\ body = BodyOf(frames[g])
  BY LengthInStep
<1>3. Len(got) \in Nat /\ Len(frames) \in Nat /\ DOMAIN frames = 1 .. Len(frames)
  BY <1>1 DEF TypeOK
<1>4. decKey = frames[g].key
  BY <1>1, <1>2, <1>3 DEF KeyCount, Rounds
<1>5. PlainAt(body, n) = frames[g].pkt /\ frames[g].pkt \in Packets
  BY <1>1, <1>2, <1>4, PlainInStep, Positions
<1>6. Len(got') = g /\ got'[g] = frames[g].pkt
  BY <1>1, <1>5 DEF TypeOK
<1>7. Encoded' = Encoded /\ frames' = frames
  BY SameFrames DEF encVars
<1>8. consumed' = EndOf(frames[g])
  BY <1>2 DEF EndOf
<1>9. consumed' = NextStart'
  <2>1. CASE g < Len(frames)
    <3>1. g + 1 \in DOMAIN frames /\ NextStart' = frames[g + 1].start
      BY <1>3, <1>6, <1>7, <2>1 DEF NextStart
    <3> QED
      BY <1>1, <1>2, <1>8, <3>1 DEF Layout
  <2>2. CASE g = Len(frames)
    <3>1. NextStart' = Encoded
      BY <1>3, <1>6, <1>7, <2>2 DEF NextStart
    <3>2. Encoded = EndOf(frames[g])
      BY <1>2, <1>3, <2>2 DEF Encoded
    <3> QED
      BY <1>8, <3>1, <3>2
  <2>3. g < Len(frames) \/ g = Len(frames)
    <3>1. Len(got) < Len(frames) /\ Len(got) \in Int /\ Len(frames) \in Int
      BY <1>2, <1>3
    <3>2. \A i, j \in Int : i < j => i + 1 < j \/ i + 1 = j
      OBVIOUS
    <3> QED
      BY <3>1, <3>2
  <2> QED
    BY <2>1, <2>2, <2>3
<1>10. InStep'
  BY <1>9 DEF InStep, BeforeHeader
<1>11. Len(got') <= Len(frames)
  BY <1>2, <1>3, <1>6
<1> QED
  BY <1>6, <1>10, <1>11

\* A taken frame steps the round, and is the round's packet or garbled.
LEMMA PollPacketInv ==
    ASSUME IInv, PollPacket
    PROVE  IInv'
<1>0. TypeOK /\ Rounds /\ KeyCount /\ Window
  BY DEF IInv
<1>1. /\ UNCHANGED encVars
      /\ UNCHANGED <<ready, flushing, closing, flushed, conn, arrived>>
      /\ UNCHANGED <<eof, isReadable, hasErrored, ended, failed>>
      /\ isReadable /\ ~hasErrored
      /\ TakeFrame
  BY DEF PollPacket, Decoding, writerVars, readerVars
<1>2. PICK n \in Lengths, body \in Bodies :
        /\ LengthRead(n, body)
        /\ arrived - body >= n
        /\ consumed' = body + n
        /\ decLen' = None
        /\ decKey' = NextKey(decKey)
        /\ got' = Append(got, PlainAt(body, n))
  BY <1>1 DEF TakeFrame
<1> DEFINE g == Len(got) + 1
<1>3. n \in Nat /\ body \in Nat
  BY <1>0, <1>2, LengthType
<1>4. PlainAt(body, n) \in Packets \union {Garbled}
  BY <1>0, PlainType
<1>5. /\ Len(got) \in Nat
      /\ Len(got') = g
      /\ DOMAIN got = 1 .. Len(got)
      /\ DOMAIN got' = 1 .. g
      /\ \A k \in DOMAIN got : got'[k] = got[k]
      /\ got'[g] = PlainAt(body, n)
      /\ got' \in Seq(Packets \union {Garbled})
  BY <1>0, <1>2, <1>4 DEF TypeOK
<1>6. \A k \in DOMAIN got' : k \in DOMAIN got \/ k = g
  BY <1>5
<1>7. /\ Encoded' = Encoded
      /\ Layout' /\ Rounds' /\ Limited'
      /\ frames' = frames
  BY <1>1, SameFrames DEF IInv, encVars
<1>8. consumed' \in Nat /\ consumed' <= arrived
  BY <1>0, <1>1, <1>2, <1>3 DEF TypeOK
<1>9. KeyCount' /\ decKey' \in Nat
  <2>1. decKey' = Round(g) /\ decKey' \in Nat
    BY <1>0, <1>2, <1>5 DEF NextKey, KeyCount, Round
  <2> QED
    BY <1>5, <2>1 DEF KeyCount, Round
<1>10. TypeOK'
  BY <1>0, <1>1, <1>2, <1>5, <1>8, <1>9 DEF TypeOK, encVars
<1>11. Window' /\ EofInv' /\ ReadyInv' /\ SendBufferBound'
  BY <1>0, <1>1, <1>7, <1>8
     DEF IInv, Window, EofInv, ReadyInv, SendBufferBound, Unwritten
<1>12. PacketsKeepTheirPlace'
  <2> SUFFICES ASSUME Aes, NEW k \in DOMAIN got', got'[k] # Garbled
               PROVE  k \in DOMAIN frames /\ got'[k] = frames[k].pkt
    BY <1>7 DEF PacketsKeepTheirPlace
  <2>1. CASE k \in DOMAIN got
    BY <1>5, <2>1 DEF IInv, PacketsKeepTheirPlace
  <2>2. CASE k = g
    BY <1>0, <1>5, <2>2, PlainInPlace
  <2> QED
    BY <1>6, <2>1, <2>2
<1>13. ASSUME ~failed
       PROVE  /\ InStep'
              /\ Len(got') <= Len(frames)
              /\ got'[g] = frames[g].pkt
  BY <1>1, <1>2, <1>13, TakeInStep
<1>14. DeliveredIsPrefix'
  <2> SUFFICES ASSUME ~failed, NEW k \in DOMAIN got'
               PROVE  got'[k] = frames[k].pkt
    BY <1>1, <1>7, <1>13 DEF DeliveredIsPrefix
  <2>1. CASE k \in DOMAIN got
    BY <1>5, <2>1 DEF IInv, DeliveredIsPrefix
  <2>2. CASE k = g
    BY <1>13, <2>2
  <2> QED
    BY <1>6, <2>1, <2>2
<1>15. ~failed => EndInv'
  BY <1>1 DEF IInv, EndInv
<1> QED
  BY <1>1, <1>7, <1>9, <1>10, <1>11, <1>12, <1>13, <1>14, <1>15 DEF IInv

\* A refused header is lost, and nothing else changes but that there was an error.
LEMMA PollHeaderErrorInv ==
    ASSUME IInv, PollHeaderError
    PROVE  IInv'
<1>0. TypeOK /\ Window
  BY DEF IInv
<1>1. /\ UNCHANGED encVars
      /\ UNCHANGED <<ready, flushing, closing, flushed, conn, arrived>>
      /\ UNCHANGED <<eof, isReadable, ended, decLen, decKey, got>>
      /\ hasErrored' = TRUE
      /\ failed' = TRUE
      /\ Buffered >= HeaderLen
      /\ consumed' = consumed + HeaderLen
  BY DEF PollHeaderError, RejectHeader, writerVars
<1>2. /\ Encoded' = Encoded
      /\ Layout' /\ Rounds' /\ Limited'
      /\ frames' = frames
  BY <1>1, SameFrames DEF IInv, encVars
<1>3. consumed' \in Nat /\ consumed' <= arrived
  BY <1>0, <1>1, LinkAssumption DEF LinkAssumption, TypeOK, Buffered
<1>4. TypeOK'
  BY <1>0, <1>1, <1>3 DEF TypeOK, encVars
<1>5. Window' /\ EofInv' /\ ReadyInv' /\ SendBufferBound'
  BY <1>1, <1>2, <1>3 DEF IInv, Window, EofInv, ReadyInv, SendBufferBound, Unwritten
<1>6. KeyCount' /\ PacketsKeepTheirPlace' /\ DeliveredIsPrefix'
  BY <1>1, <1>2 DEF IInv, KeyCount, PacketsKeepTheirPlace, DeliveredIsPrefix, Round
<1> QED
  BY <1>1, <1>2, <1>4, <1>5, <1>6 DEF IInv

\* Turns of the loop in which the decoder has no frame to give.
Wait == PollMore \/ PollEnd \/ PollTruncated

\* The decoder keeps its place when it asks for more bytes.
LEMMA AwaitKeepsPlace ==
    ASSUME IInv, AwaitHeader \/ AwaitBody, UNCHANGED encVars, UNCHANGED arrived,
           failed => failed'
    PROVE  /\ decKey' = decKey
           /\ got' = got
           /\ decLen' \in Nat \union {None}
           /\ consumed' \in Nat
           /\ consumed' <= arrived
           /\ KeyCount' /\ PacketsKeepTheirPlace' /\ DeliveredIsPrefix'
           /\ ~failed => InStep' /\ Waiting'
<1>0. TypeOK /\ Layout /\ Rounds /\ Window /\ Encoded \in Nat
  BY EncodedNat DEF IInv
<1>1. frames' = frames /\ Encoded' = Encoded
  BY SameFrames DEF encVars
<1>2. CASE AwaitHeader
  <2>1. UNCHANGED decVars /\ decLen = None /\ Buffered < HeaderLen
    BY <1>2 DEF AwaitHeader
  <2>2. /\ InStep' = InStep
        /\ KeyCount' /\ PacketsKeepTheirPlace' /\ DeliveredIsPrefix'
    BY <2>1, SameDecoder
  <2>3. Waiting'
    BY <2>1 DEF Waiting, decVars, Buffered
  <2> QED
    BY <1>0, <2>1, <2>2, <2>3 DEF IInv, Window, decVars, TypeOK
<1>3. CASE AwaitBody
  <2>1. PICK n \in Lengths, body \in Bodies :
          /\ LengthRead(n, body)
          /\ arrived - body < n
          /\ consumed' = body
          /\ decLen' = n
          /\ UNCHANGED <<decKey, got>>
    BY <1>3 DEF AwaitBody
  <2>2. n \in Nat /\ body \in Nat
    BY <1>0, <2>1, LengthType
  <2>3. body <= arrived
    BY <1>0, <2>1, LinkAssumption
       DEF LinkAssumption, LengthRead, SavedLength, ParsedLength, Window, Buffered, TypeOK
  <2>4. KeyCount' /\ PacketsKeepTheirPlace' /\ DeliveredIsPrefix'
    BY <1>1, <2>1 DEF IInv, KeyCount, PacketsKeepTheirPlace, DeliveredIsPrefix, Round
  <2>5. ASSUME ~failed PROVE InStep' /\ Waiting'
    <3>1. /\ Len(got) < Len(frames)
          /\ n = frames[Len(got) + 1].pkt.len
          /\ n <= MaxPacketLen
          /\ body = BodyOf(frames[Len(got) + 1])
      BY <2>1, <2>5, LengthInStep
    <3>2. n # None
      BY <2>2, LinkAssumption DEF LinkAssumption
    <3>3. BeforeBody'
      BY <1>1, <2>1, <3>1, <3>2 DEF BeforeBody, BodyOf
    <3>4. Waiting'
      BY <2>1, <3>2 DEF Waiting, Buffered
    <3> QED
      BY <3>3, <3>4 DEF InStep
  <2> QED
    BY <2>1, <2>2, <2>3, <2>4, <2>5
<1> QED
  BY <1>2, <1>3

LEMMA WaitInv ==
    ASSUME IInv, Wait
    PROVE  IInv'
<1>0. TypeOK /\ Layout /\ Rounds /\ Window /\ Encoded \in Nat
  BY EncodedNat DEF IInv
<1>1. /\ UNCHANGED encVars
      /\ UNCHANGED <<ready, flushing, closing, flushed, conn, arrived, eof>>
      /\ isReadable /\ ~hasErrored
      /\ AwaitHeader \/ AwaitBody
      /\ failed => failed'
  BY DEF Wait, PollMore, PollEnd, PollTruncated, Decoding, writerVars
<1>2. /\ decKey' = decKey
      /\ got' = got
      /\ decLen' \in Nat \union {None}
      /\ consumed' \in Nat
      /\ consumed' <= arrived
      /\ KeyCount' /\ PacketsKeepTheirPlace' /\ DeliveredIsPrefix'
      /\ ~failed => InStep' /\ Waiting'
  BY <1>1, AwaitKeepsPlace
<1>3. /\ Encoded' = Encoded
      /\ Layout' /\ Rounds' /\ Limited'
  BY <1>1, SameFrames DEF IInv
<1>4. Window' /\ EofInv' /\ ReadyInv' /\ SendBufferBound'
  BY <1>1, <1>2, <1>3 DEF IInv, Window, EofInv, ReadyInv, SendBufferBound, Unwritten
<1>6. CASE PollMore
  <2>1. /\ isReadable' = FALSE
        /\ ~eof
        /\ UNCHANGED <<hasErrored, ended, failed>>
    BY <1>6 DEF PollMore
  <2>2. TypeOK'
    BY <1>0, <1>1, <1>2, <2>1 DEF TypeOK, encVars
  <2>3. ~failed' => EndInv'
    BY <1>1, <2>1 DEF IInv, EndInv
  <2> QED
    BY <1>1, <1>2, <1>3, <1>4, <2>1, <2>2, <2>3 DEF IInv
<1>7. CASE PollEnd
  <2>1. /\ isReadable' = FALSE
        /\ eof
        /\ consumed' = arrived
        /\ ended' = TRUE
        /\ UNCHANGED <<hasErrored, failed>>
    BY <1>7 DEF PollEnd
  <2>2. TypeOK'
    BY <1>0, <1>1, <1>2, <2>1 DEF TypeOK, encVars
  <2>3. EndInv'
    BY <1>1, <2>1 DEF EndInv
  <2> QED
    BY <1>1, <1>2, <1>3, <1>4, <2>1, <2>2, <2>3 DEF IInv
<1>8. CASE PollTruncated
  <2>1. /\ isReadable' = isReadable
        /\ eof
        /\ hasErrored' = TRUE
        /\ failed' = TRUE
        /\ ended' = ended
    BY <1>8 DEF PollTruncated
  <2>2. TypeOK'
    BY <1>0, <1>1, <1>2, <2>1 DEF TypeOK, encVars
  <2> QED
    BY <1>1, <1>2, <1>3, <1>4, <2>1, <2>2 DEF IInv
<1> QED
  BY <1>6, <1>7, <1>8 DEF Wait

\* The turns after and around an error leave the decoder alone.
LEMMA ErrorTurnInv ==
    ASSUME IInv, PollPause \/ PollReadError
    PROVE  IInv'
<1>0. TypeOK
  BY DEF IInv
<1>1. /\ UNCHANGED encVars
      /\ UNCHANGED decVars
      /\ UNCHANGED <<ready, flushing, closing, flushed, conn, arrived, eof, ended>>
      /\ failed'
      /\ failed' \in BOOLEAN /\ isReadable' \in BOOLEAN /\ hasErrored' \in BOOLEAN
  BY <1>0 DEF IInv, TypeOK, PollPause, PollReadError, writerVars
<1>2. /\ Encoded' = Encoded
      /\ Layout' /\ Rounds' /\ Limited'
      /\ KeyCount' /\ PacketsKeepTheirPlace' /\ DeliveredIsPrefix'
  BY <1>1, SameFrames, SameDecoder DEF IInv
<1>3. TypeOK'
  BY <1>0, <1>1 DEF TypeOK, encVars, decVars
<1>4. Window' /\ EofInv' /\ ReadyInv' /\ SendBufferBound'
  BY <1>1, <1>2
     DEF IInv, Window, EofInv, ReadyInv, SendBufferBound, Unwritten, decVars
<1> QED
  BY <1>1, <1>2, <1>3, <1>4 DEF IInv

\* Stuttering keeps the invariant.
LEMMA StutterInv ==
    ASSUME IInv, UNCHANGED vars
    PROVE  IInv'
<1>1. /\ UNCHANGED encVars /\ UNCHANGED decVars
      /\ UNCHANGED <<ready, flushing, closing, flushed, conn, arrived>>
      /\ UNCHANGED <<eof, isReadable, hasErrored, ended, failed>>
  BY DEF vars, writerVars, readerVars
<1>2. /\ Encoded' = Encoded
      /\ Layout' /\ Rounds' /\ Limited'
      /\ InStep' = InStep
      /\ KeyCount' /\ PacketsKeepTheirPlace' /\ DeliveredIsPrefix'
  BY <1>1, SameFrames, SameDecoder DEF IInv
<1>3. TypeOK'
  BY <1>1 DEF IInv, TypeOK, encVars, decVars
<1>4. Window' /\ EofInv' /\ ReadyInv' /\ SendBufferBound'
  BY <1>1, <1>2
     DEF IInv, Window, EofInv, ReadyInv, SendBufferBound, Unwritten, decVars
<1>5. Waiting' = Waiting /\ EndInv' = EndInv
  BY <1>1 DEF Waiting, EndInv, Buffered, decVars
<1> QED
  BY <1>1, <1>2, <1>3, <1>4, <1>5 DEF IInv

LEMMA NextInv ==
    ASSUME IInv, [Next]_vars
    PROVE  IInv'
<1>1. CASE Control
  BY <1>1, ControlInv
<1>2. CASE \E p \in Packets : StartSend(p)
  BY <1>2, StartSendInv
<1>3. CASE Move
  BY <1>3, MoveInv
<1>4. CASE PollPacket
  BY <1>4, PollPacketInv
<1>5. CASE PollHeaderError
  BY <1>5, PollHeaderErrorInv
<1>6. CASE Wait
  BY <1>6, WaitInv
<1>7. CASE PollPause \/ PollReadError
  BY <1>7, ErrorTurnInv
<1>8. CASE UNCHANGED vars
  BY <1>8, StutterInv
<1> QED
  BY <1>1, <1>2, <1>3, <1>4, <1>5, <1>6, <1>7, <1>8
     DEF Next, Writer, Reader, Control, Move, Wait

(***************************************************************************)
(* The theorems.                                                           *)
(***************************************************************************)

\* The inductive invariant holds in every reachable state.
THEOREM Invariance == Spec => []IInv
<1>1. IInv /\ [Next]_vars => IInv'
  BY NextInv
<1> QED
  BY <1>1, InitInv, PTL DEF Spec

\* Type correctness.
THEOREM TypeCorrect == Spec => []TypeOK
<1>1. IInv => TypeOK
  BY DEF IInv
<1> QED
  BY <1>1, Invariance, PTL

\* The packets a stream yields are the packets sent over it, unchanged, in
\* order, each once, for any packets, limits and splitting of the bytes.
THEOREM Delivery == Spec => []DeliveredIsPrefix
<1>1. IInv => DeliveredIsPrefix
  BY DEF IInv
<1> QED
  BY <1>1, Invariance, PTL

\* The ciphers of the two ends never get out of step before an error.
THEOREM KeySynchrony == Spec => []KeysInStep
<1>1. IInv => KeysInStep
  <2> SUFFICES ASSUME IInv, ~failed, Len(got) < Len(frames)
               PROVE  decKey = frames[Len(got) + 1].key
    BY DEF KeysInStep
  <2>1. Len(got) + 1 \in DOMAIN frames /\ Len(got) \in Nat
    BY DEF IInv, TypeOK
  <2> QED
    BY <2>1 DEF IInv, KeyCount, Rounds
<1> QED
  BY <1>1, Invariance, PTL

\* A reader never waits for the transport while it holds a complete frame.
THEOREM NoLostWakeup == Spec => []NoFrameHeldBack
<1>1. IInv => NoFrameHeldBack
  <2> SUFFICES ASSUME IInv, ~failed, Len(got) < Len(frames), ~isReadable,
                      EndOf(frames[Len(got) + 1]) <= arrived
               PROVE  FALSE
    BY DEF NoFrameHeldBack
  <2> DEFINE f == frames[Len(got) + 1]
  <2>1. TypeOK /\ InStep /\ Waiting
    BY DEF IInv
  <2>2. Len(got) + 1 \in DOMAIN frames
    BY <2>1 DEF TypeOK
  <2>3. /\ f.start \in Nat
        /\ f.pkt.len \in Nat
        /\ EndOf(f) = f.start + HeaderLen + f.pkt.len
        /\ BodyOf(f) = f.start + HeaderLen
        /\ HeaderLen \in Nat
        /\ arrived \in Nat /\ consumed \in Nat
    BY <2>1, <2>2, Positions, LinkAssumption DEF LinkAssumption, BodyOf, TypeOK
  <2>4. EndOf(f) <= arrived
    OBVIOUS
  <2>5. CASE BeforeHeader
    <3>1. consumed = f.start /\ Buffered < HeaderLen
      BY <2>1, <2>5 DEF BeforeHeader, NextStart, Waiting
    <3> QED
      BY <2>3, <2>4, <3>1 DEF Buffered
  <2>6. CASE BeforeBody
    <3>1. consumed = BodyOf(f) /\ Buffered < f.pkt.len
      BY <2>1, <2>6 DEF BeforeBody, Waiting
    <3> QED
      BY <2>3, <2>4, <3>1 DEF Buffered
  <2> QED
    BY <2>1, <2>5, <2>6 DEF InStep
<1> QED
  BY <1>1, Invariance, PTL

\* A stream that ends without an error was not cut inside a frame, except
\* right behind a header.
THEOREM CleanEnd == Spec => []CleanEndMeansWhole
<1>1. IInv => CleanEndMeansWhole
  <2> SUFFICES ASSUME IInv, ended, ~failed, NEW k \in DOMAIN frames, ~(k <= Len(got))
               PROVE  flushed <= frames[k].start \/ flushed = BodyOf(frames[k])
    BY DEF CleanEndMeansWhole
  <2>1. TypeOK /\ Layout /\ InStep
    BY DEF IInv
  <2>2. consumed = flushed
    BY DEF IInv, EndInv, EofInv
  <2>3. k \in Nat /\ Len(got) \in Nat /\ Len(got) + 1 \in DOMAIN frames
    BY <2>1 DEF TypeOK
  <2>4. Len(got) < Len(frames)
    BY <2>1, <2>3 DEF TypeOK
  <2> DEFINE f == frames[Len(got) + 1]
  <2>5. flushed = f.start \/ flushed = BodyOf(f)
    BY <2>1, <2>2, <2>4 DEF InStep, BeforeHeader, BeforeBody, NextStart
  <2>6. CASE k = Len(got) + 1
    <3>1. flushed = frames[k].start \/ flushed = BodyOf(frames[k])
      BY <2>5, <2>6
    <3>2. frames[k].start \in Nat
      BY <2>1, Positions
    <3> QED
      BY <3>1, <3>2
  <2>7. CASE Len(got) + 1 < k
    <3>1. EndOf(f) <= frames[k].start
      BY <2>1, <2>3, <2>7 DEF Layout
    <3>2. /\ f.start \in Nat /\ frames[k].start \in Nat
          /\ BodyOf(f) \in Nat /\ EndOf(f) \in Nat
          /\ BodyOf(f) > f.start
          /\ EndOf(f) >= BodyOf(f)
      BY <2>1, <2>3, Positions
    <3> QED
      BY <2>5, <3>1, <3>2
  <2> QED
    BY <2>3, <2>6, <2>7
<1> QED
  BY <1>1, Invariance, PTL

\* The send buffer stays below the boundary and one frame.
THEOREM BoundedSendBuffer == Spec => []SendBufferBound
<1>1. IInv => SendBufferBound
  BY DEF IInv
<1> QED
  BY <1>1, Invariance, PTL

\* No packet is yielded out of its place, even by a decoder that goes on after an
\* error and takes any four bytes for a header.
THEOREM Places == Spec => []PacketsKeepTheirPlace
<1>1. IInv => PacketsKeepTheirPlace
  BY DEF IInv
<1> QED
  BY <1>1, Invariance, PTL

(***************************************************************************)
(* The link implements the channel.                                        *)
(***************************************************************************)

\* What a step of the link is to the channel when the receiver does not move.
LEMMA SenderStep ==
    ASSUME IInv, Control \/ Move \/ \E p \in Packets : StartSend(p)
    PROVE  [Channel!Next]_Channel!vars
<1>0. TypeOK /\ Window /\ Encoded \in Nat /\ Len(frames) \in Nat
  BY EncodedNat DEF IInv, TypeOK
<1>1. UNCHANGED got /\ AbsReceiver' = AbsReceiver
  BY DEF Control, Move, PollReady, PollFlush, CancelFlush, Close, Shutdown, Drop, Reset,
         Write, PollRead, PollReadEof, StartSend, decVars, readerVars, AbsReceiver
<1>2. CASE Control \/ Move
  <2>1. UNCHANGED frames /\ Encoded' = Encoded /\ Sent' = Sent
    BY <1>2, SameFrames
       DEF Control, Move, PollReady, PollFlush, CancelFlush, Close, Shutdown, Drop, Reset,
           Write, PollRead, PollReadEof, encVars, Sent
  <2>2. CASE PollReady \/ PollFlush \/ CancelFlush \/ \E n \in 1 .. flushed - arrived : PollRead(n)
    <3>1. AbsSender' = AbsSender
      BY <2>1, <2>2
         DEF PollReady, PollFlush, CancelFlush, PollRead, writerVars, AbsSender, Unwritten
    <3> QED
      BY <1>1, <2>1, <3>1 DEF Channel!vars
  <2>3. CASE PollReadEof
    <3>1. AbsSender' = AbsSender
      BY <2>1, <2>3 DEF PollReadEof, writerVars, AbsSender, Unwritten
    <3> QED
      BY <1>1, <2>1, <3>1 DEF Channel!vars
  <2>4. CASE \E n \in 1 .. Unwritten : Write(n)
    <3>1. AbsSender' = AbsSender
      BY <2>1, <2>4 DEF Write, AbsSender
    <3> QED
      BY <1>1, <2>1, <3>1 DEF Channel!vars
  <2>5. CASE Close
    <3>1. AbsSender' = AbsSender \/ (AbsSender = "open" /\ AbsSender' = "closed")
      BY <1>0, <2>1, <2>5 DEF Close, Usable, AbsSender, Unwritten, TypeOK
    <3> QED
      BY <1>1, <2>1, <3>1 DEF Channel!Next, Channel!Close, Channel!vars
  <2>6. CASE Shutdown
    <3>1. AbsSender' = AbsSender
      BY <2>1, <2>6 DEF Shutdown, Drained, AbsSender, Unwritten
    <3> QED
      BY <1>1, <2>1, <3>1 DEF Channel!vars
  <2>7. CASE Drop
    <3>1. AbsSender \in {"open", "closed"}
      BY <2>7 DEF Drop, AbsSender
    <3>2. \/ AbsSender' = "aborted"
          \/ AbsSender' = "closed"
      BY <2>7 DEF Drop, AbsSender
    <3> QED
      BY <1>1, <2>1, <3>1, <3>2 DEF Channel!Next, Channel!Close, Channel!Abort, Channel!vars
  <2>8. CASE Reset
    <3>1. AbsSender \in {"open", "closed"} /\ AbsSender' = "aborted"
      BY <2>8 DEF Reset, AbsSender
    <3> QED
      BY <1>1, <2>1, <3>1 DEF Channel!Next, Channel!Abort
  <2> QED
    BY <1>2, <2>2, <2>3, <2>4, <2>5, <2>6, <2>7, <2>8 DEF Control, Move
<1>3. CASE \E p \in Packets : StartSend(p)
  <2>1. PICK p \in Packets : StartSend(p)
    BY <1>3
  <2>2. CASE ~Encodable(p)
    <3>1. Encoded' = Encoded /\ Sent' = Sent
      BY <2>1, <2>2, SameFrames DEF StartSend, encVars, Sent
    <3>2. AbsSender' = AbsSender
      BY <2>1, <3>1 DEF StartSend, AbsSender, Unwritten
    <3> QED
      BY <1>1, <3>1, <3>2 DEF Channel!vars
  <2>3. CASE Encodable(p)
    <3>1. EncodeFrame(p)
      BY <2>1, <2>3 DEF StartSend
    <3>2. /\ Len(frames') = Len(frames) + 1
          /\ DOMAIN frames' = 1 .. Len(frames) + 1
          /\ DOMAIN frames = 1 .. Len(frames)
          /\ \A k \in DOMAIN frames : frames'[k] = frames[k]
          /\ frames'[Len(frames) + 1].pkt = p
      <4>1. frames'[Len(frames) + 1] = [pkt |-> p, start |-> Encoded, key |-> encKey]
        BY <1>0, <3>1, EncodeFrameFacts
      <4>2. frames'[Len(frames) + 1].pkt = p
        BY <4>1
      <4> QED
        BY <1>0, <3>1, <4>2, EncodeFrameFacts
    <3>3. Sent' = Append(Sent, p)
      <4>1. Sent \in Seq(Packets) /\ Len(Sent) = Len(frames)
        BY <1>0, <3>2, Positions DEF Sent
      <4>2. /\ Append(Sent, p) \in Seq(Packets)
            /\ Len(Append(Sent, p)) = Len(frames) + 1
            /\ \A k \in 1 .. Len(frames) : Append(Sent, p)[k] = Sent[k]
            /\ Append(Sent, p)[Len(frames) + 1] = p
        BY <4>1, AppendProperties
      <4>3. Sent' = [k \in 1 .. Len(frames) + 1 |-> frames'[k].pkt]
        BY <3>2 DEF Sent
      <4>4. \A k \in 1 .. Len(frames) + 1 : Append(Sent, p)[k] = frames'[k].pkt
        BY <1>0, <3>2, <4>2 DEF Sent
      <4>5. \A k \in 1 .. Len(frames) + 1 : frames'[k].pkt \in Packets
        BY <1>0, <4>2, <4>4
      <4>6. Sent' \in Seq(Packets) /\ Len(Sent') = Len(frames) + 1
        BY <1>0, <4>3, <4>5
      <4>7. \A k \in 1 .. Len(frames) + 1 : Sent'[k] = Append(Sent, p)[k]
        BY <4>3, <4>4
      <4> QED
        BY <4>2, <4>6, <4>7, SeqEqual
    <3>4. AbsSender' = AbsSender /\ AbsSender # "closed"
      BY <2>1 DEF StartSend, Usable, AbsSender
    <3>5. Channel!Accept(p)
      BY <1>1, <3>3, <3>4 DEF Channel!Accept
    <3> QED
      BY <3>5 DEF Channel!Next
  <2> QED
    BY <2>2, <2>3
<1> QED
  BY <1>2, <1>3

\* A decoder that waits with the whole stream in its buffer has taken it all.
LEMMA WholeStreamTaken ==
    ASSUME IInv, UNCHANGED encVars, UNCHANGED <<arrived, got>>,
           InStep', Waiting', arrived = Encoded
    PROVE  ~(Len(got) < Len(frames)) /\ consumed' = Encoded
<1>0. TypeOK /\ Layout
  BY DEF IInv
<1>1. Encoded' = Encoded /\ frames' = frames
  BY SameFrames DEF encVars
<1>2. ASSUME Len(got) < Len(frames) PROVE FALSE
  <2> DEFINE f == frames[Len(got) + 1]
  <2>1. Len(got) + 1 \in DOMAIN frames
    BY <1>0, <1>2 DEF TypeOK
  <2>2. /\ f.start \in Nat
        /\ f.pkt.len \in Nat
        /\ EndOf(f) = f.start + HeaderLen + f.pkt.len
        /\ BodyOf(f) = f.start + HeaderLen
        /\ HeaderLen \in Nat
        /\ EndOf(f) <= Encoded
        /\ Encoded \in Nat
    BY <1>0, <2>1, Positions, EncodedNat, LinkAssumption
       DEF LinkAssumption, BodyOf, Layout
  <2>3. \/ decLen' = None /\ consumed' = f.start
        \/ decLen' # None /\ decLen' = f.pkt.len /\ consumed' = BodyOf(f)
    BY <1>1, <1>2 DEF InStep, BeforeHeader, BeforeBody, NextStart, BodyOf
  <2>4. \/ decLen' = None /\ Encoded - consumed' < HeaderLen
        \/ decLen' # None /\ Encoded - consumed' < decLen'
    BY DEF Waiting, Buffered
  <2> QED
    BY <2>2, <2>3, <2>4
<1>3. consumed' = Encoded
  BY <1>1, <1>2 DEF InStep, BeforeHeader, BeforeBody, NextStart
<1> QED
  BY <1>2, <1>3

\* What a turn of the receiving half is to the channel.
LEMMA ReceiverStep ==
    ASSUME IInv, Reader, ~Move
    PROVE  [Channel!Next]_Channel!vars
<1>1. /\ UNCHANGED frames
      /\ Sent' = Sent
      /\ AbsSender' = AbsSender
  <2>1. UNCHANGED encVars /\ UNCHANGED <<flushed, conn, closing>>
    BY DEF Reader, Move, PollPacket, PollHeaderError, PollMore, PollEnd, PollTruncated,
           PollPause, PollReadError, writerVars
  <2>2. Encoded' = Encoded
    BY <2>1, SameFrames
  <2> QED
    BY <2>1, <2>2 DEF encVars, Sent, AbsSender, Unwritten
<1>2. TypeOK /\ Layout /\ Window /\ Len(got) \in Nat /\ Len(frames) \in Nat
  BY DEF IInv, TypeOK
<1>3. Len(Sent) = Len(frames) /\ DOMAIN frames = 1 .. Len(frames)
  BY <1>2 DEF Sent, TypeOK
<1>4. CASE ~failed /\ PollPacket
  <2>1. ~failed
    BY <1>4
  <2>2. ~ended
    BY <1>4, <2>1 DEF IInv, EndInv, PollPacket, Decoding
  <2>3. PICK n \in Lengths, body \in Bodies :
          LengthRead(n, body) /\ got' = Append(got, PlainAt(body, n))
    BY <1>4 DEF PollPacket, TakeFrame
  <2>4. /\ Len(got) < Len(frames)
        /\ Len(got) + 1 \in DOMAIN frames
        /\ n = frames[Len(got) + 1].pkt.len
        /\ n <= MaxPacketLen
        /\ body = BodyOf(frames[Len(got) + 1])
    BY <2>1, <2>3, LengthInStep
  <2>5. decKey = frames[Len(got) + 1].key
    BY <1>2, <2>4 DEF IInv, KeyCount, Rounds
  <2>6. PlainAt(body, n) = frames[Len(got) + 1].pkt
    BY <1>2, <2>4, <2>5, PlainInStep
  <2>7. Sent[Len(got) + 1] = frames[Len(got) + 1].pkt
    BY <2>4 DEF Sent
  <2>8. AbsReceiver = "open" /\ AbsReceiver' = "open"
    BY <1>4, <2>1, <2>2 DEF PollPacket, readerVars, AbsReceiver
  <2>9. Channel!Deliver
    BY <1>1, <1>3, <2>3, <2>4, <2>6, <2>7, <2>8
       DEF Channel!Deliver, Channel!Pending, Channel!NextPacket
  <2> QED
    BY <2>9 DEF Channel!Next
<1>5. CASE failed /\ PollPacket
  <2>1. PICK n \in Lengths, body \in Bodies : got' = Append(got, PlainAt(body, n))
    BY <1>5 DEF PollPacket, TakeFrame
  <2>2. PlainAt(body, n) \in Packets \union {Garbled}
    BY <1>2, PlainType
  <2>3. AbsReceiver = "failed" /\ AbsReceiver' = "failed"
    BY <1>5 DEF PollPacket, readerVars, AbsReceiver
  <2>4. Channel!DeliverAnything
    BY <1>1, <2>1, <2>2, <2>3 DEF Channel!DeliverAnything
  <2> QED
    BY <2>4 DEF Channel!Next
<1>6. CASE failed /\ ~PollPacket
  <2>1. UNCHANGED got /\ failed'
    BY <1>6 DEF Reader, Move, PollHeaderError, RejectHeader, PollMore, PollEnd,
                PollTruncated, AwaitHeader, AwaitBody, PollPause, PollReadError, decVars
  <2> QED
    BY <1>1, <1>6, <2>1 DEF AbsReceiver, Channel!vars
<1>7. CASE ~failed /\ PollHeaderError
  <2>1. /\ decLen = None /\ Buffered >= HeaderLen
        /\ ~IsHeader \/ \E n \in HeaderLengths : ~Decodable(n)
        /\ UNCHANGED got
        /\ failed'
        /\ ~ended
    BY <1>7 DEF IInv, EndInv, PollHeaderError, RejectHeader, Decoding
  <2>2. /\ Len(got) < Len(frames)
        /\ IsHeader
        /\ HeaderLengths = {frames[Len(got) + 1].pkt.len}
    BY <1>7, <2>1, HeaderInStep
  <2>3. Len(got) + 1 \in DOMAIN frames
    BY <1>2, <2>2 DEF TypeOK
  <2>4. Sent[Len(got) + 1] = frames[Len(got) + 1].pkt
    BY <2>3 DEF Sent
  <2>5. frames[Len(got) + 1].pkt.len > MaxPacketLen
    <3>1. ~(frames[Len(got) + 1].pkt.len <= MaxPacketLen)
      BY <2>1, <2>2 DEF Decodable
    <3>2. frames[Len(got) + 1].pkt.len \in Nat
      BY <1>2, <2>3, Positions
    <3> QED
      BY <3>1, <3>2, LinkAssumption DEF LinkAssumption
  <2>6. AbsReceiver = "open" /\ AbsReceiver' = "failed"
    BY <1>7, <2>1 DEF AbsReceiver
  <2>7. Channel!Fail
    BY <1>1, <1>3, <2>1, <2>2, <2>4, <2>5, <2>6
       DEF Channel!Fail, Channel!Pending, Channel!NextPacket
  <2> QED
    BY <2>7 DEF Channel!Next
<1>8. CASE ~failed /\ (PollMore \/ PollPause)
  <2>1. UNCHANGED <<got, failed, ended>>
    BY <1>8 DEF PollMore, PollPause, AwaitHeader, AwaitBody, decVars
  <2> QED
    BY <1>1, <2>1 DEF AbsReceiver, Channel!vars
<1>9. CASE ~failed /\ (PollEnd \/ PollTruncated)
  <2>1. /\ AwaitHeader \/ AwaitBody
        /\ UNCHANGED encVars /\ UNCHANGED arrived
        /\ eof /\ conn \in {"fin", "dropped"} /\ arrived = flushed
        /\ conn = "fin" => Unwritten = 0
        /\ ~ended
        /\ UNCHANGED flushed
    BY <1>9 DEF IInv, EofInv, EndInv, PollEnd, PollTruncated, Decoding
  <2>2. UNCHANGED got /\ InStep' /\ Waiting'
    BY <1>9, <2>1, AwaitKeepsPlace
  <2>3. AbsReceiver = "open"
    BY <1>9, <2>1 DEF AbsReceiver
  <2>4. AbsSender \in {"closed", "aborted"}
    BY <2>1 DEF AbsSender
  <2>5. CASE AbsSender = "aborted"
    <3>1. AbsReceiver' \in {"ended", "failed"}
      BY <1>9 DEF PollEnd, PollTruncated, AbsReceiver
    <3> QED
      BY <1>1, <2>2, <2>3, <2>5, <3>1 DEF Channel!Next, Channel!End, Channel!Fail
  <2>6. CASE AbsSender = "closed"
    <3>1. Unwritten = 0 /\ arrived = Encoded
      <4>1. Unwritten = 0
        BY <2>1, <2>6 DEF AbsSender
      <4> QED
        BY <1>2, <2>1, <4>1, EncodedNat DEF Unwritten, TypeOK
    <3>2. ~(Len(got) < Len(frames)) /\ consumed' = Encoded
      BY <1>1, <1>2, <2>1, <2>2, <3>1, WholeStreamTaken
    <3>3. PollEnd
      BY <1>9, <3>1, <3>2 DEF PollTruncated
    <3>4. AbsReceiver' = "ended"
      BY <1>9, <3>3 DEF PollEnd, AbsReceiver
    <3>5. Channel!End
      BY <1>1, <1>3, <2>2, <2>3, <2>6, <3>2, <3>4 DEF Channel!End, Channel!Pending
    <3> QED
      BY <3>5 DEF Channel!Next
  <2> QED
    BY <2>4, <2>5, <2>6
<1>10. CASE ~failed /\ PollReadError
  <2>1. conn = "reset" /\ UNCHANGED got /\ failed' /\ ~ended
    BY <1>10 DEF IInv, EndInv, EofInv, PollReadError, decVars
  <2>2. AbsSender = "aborted" /\ AbsReceiver = "open" /\ AbsReceiver' = "failed"
    BY <1>10, <2>1 DEF AbsSender, AbsReceiver
  <2> QED
    BY <1>1, <2>1, <2>2 DEF Channel!Next, Channel!Fail
<1> QED
  BY <1>4, <1>5, <1>6, <1>7, <1>8, <1>9, <1>10 DEF Reader, Move

\* The initial states are the channel's, and every step is a step of the
\* channel or leaves it as it is.
THEOREM Refinement == Spec => ImplementsChannel
<1>1. Init => Channel!Init
  BY DEF Init, Channel!Init, Sent, AbsSender, AbsReceiver, Encoded, Unwritten
<1>2. ASSUME IInv, [Next]_vars
      PROVE  [Channel!Next]_Channel!vars
  <2>1. CASE Control \/ Move \/ \E p \in Packets : StartSend(p)
    BY <1>2, <2>1, SenderStep
  <2>2. CASE Reader /\ ~Move
    BY <1>2, <2>2, ReceiverStep
  <2>3. CASE UNCHANGED vars
    <3>1. UNCHANGED encVars /\ UNCHANGED <<got, flushed, conn, closing, failed, ended>>
      BY <2>3 DEF vars, decVars, writerVars, readerVars
    <3>2. Encoded' = Encoded
      BY <3>1, SameFrames
    <3> QED
      BY <3>1, <3>2
         DEF encVars, Sent, AbsSender, AbsReceiver, Unwritten, Channel!vars
  <2> QED
    BY <1>2, <2>1, <2>2, <2>3 DEF Next, Writer, Reader, Control, Move
<1> QED
  BY <1>1, <1>2, Invariance, PTL DEF Spec, ImplementsChannel, Channel!Spec

-----------------------------------------------------------------------------
(* The header in front of a frame, bit for bit. *)

\* Xor of words is a word.
LEMMA XorType ==
    ASSUME NEW a \in Word, NEW b \in Word
    PROVE  Xor(a, b) \in Word
  BY DEF Xor, Word

\* Zero and the inverse of a word are words.
LEMMA WordTypes ==
    /\ Zero \in Word
    /\ \A v \in Word : Invert(v) \in Word
  BY DEF Zero, Invert, Word

\* Xor with the same word twice gives the word back.
LEMMA XorCancels ==
    ASSUME NEW a \in Word, NEW b \in Word
    PROVE  Xor(a, Xor(a, b)) = b
  <1>1. \A i \in Bits : Xor(a, Xor(a, b))[i] = b[i]
    BY DEF Xor, Word
  <1>2. Xor(a, Xor(a, b)) \in Word
    BY XorType
  <1> QED
    BY <1>1, <1>2 DEF Word

\* The same from the other side, as decode_header takes the version off again.
LEMMA XorCancelsRight ==
    ASSUME NEW a \in Word, NEW b \in Word
    PROVE  Xor(Xor(a, b), b) = a
  <1>1. \A i \in Bits : Xor(Xor(a, b), b)[i] = a[i]
    BY DEF Xor, Word
  <1>2. Xor(Xor(a, b), b) \in Word
    BY XorType
  <1> QED
    BY <1>1, <1>2 DEF Word

\* A word and its inverse differ in the sum with any third word.
LEMMA InverseDiffers ==
    ASSUME NEW k \in Word, NEW v \in Word
    PROVE  Xor(Xor(k, v), Invert(v)) # k
  <1>1. 0 \in Bits
    BY HeaderAssumption DEF Bits
  <1>2. k[0] \in {0, 1} /\ v[0] \in {0, 1}
    BY <1>1 DEF Word
  <1>3. Invert(v)[0] = 1 - v[0]
    BY <1>1 DEF Invert
  <1>4. Xor(Xor(k, v), Invert(v))[0]
            = IF (IF k[0] = v[0] THEN 0 ELSE 1) = 1 - v[0] THEN 0 ELSE 1
    BY <1>1, <1>3 DEF Xor
  <1> QED
    BY <1>2, <1>4

-----------------------------------------------------------------------------

\* The ciphers, the length and the header they make, and what has been decoded
\* from it: this is the inductive invariant.
HeaderInv ==
    /\ sender \in Cipher
    /\ receiver \in Cipher
    /\ receiver.aes = sender.aes
    /\ length \in Word
    /\ header = Encode(sender, length)
    /\ result \in {Pending, Decode(receiver, header)}

\* The invariant holds at the start and is kept by the only step.
THEOREM HeaderInvariance == HeaderSpec => []HeaderInv
  <1>1. HeaderInit => HeaderInv
    <2> SUFFICES ASSUME NEW a \in BOOLEAN, NEW k1 \in Word, NEW k2 \in Word,
                        NEW v1 \in Versions \union {Invert(v) : v \in Versions},
                        NEW v2 \in Versions \union {Invert(v) : v \in Versions},
                        sender = [aes |-> a, keyHigh |-> k1, version |-> v1],
                        receiver = [aes |-> a, keyHigh |-> k2, version |-> v2],
                        length \in LengthWords,
                        header = Encode(sender, length),
                        result = Pending
                 PROVE  HeaderInv
      BY DEF HeaderInit
    <2>1. v1 \in Word /\ v2 \in Word
      BY WordTypes, HeaderAssumption
    <2> QED
      BY <2>1, HeaderAssumption DEF HeaderInv, Cipher
  <1>2. HeaderInv /\ [HeaderNext]_headerVars => HeaderInv'
    BY DEF HeaderInv, HeaderNext, DecodeHeader, headerVars, Encode, Decode
  <1> QED
    BY <1>1, <1>2, PTL DEF HeaderSpec

\* The header of a cipher in step is decoded to its length, and no cipher gets
\* another length out of it.
LEMMA DecodesToLength ==
    ASSUME NEW s \in Cipher, NEW r \in Cipher, NEW len \in Word, r.aes = s.aes
    PROVE  /\ Decode(r, Encode(s, len)) \in {len, Invalid}
           /\ r = s => Decode(r, Encode(s, len)) = len
  <1> DEFINE low == Xor(s.keyHigh, s.version)
  <1>1. /\ s.keyHigh \in Word /\ s.version \in Word
        /\ s.aes \in BOOLEAN
    BY DEF Cipher
  <1>2. low \in Word
    BY <1>1, XorType
  <1>3. Xor(low, Xor(low, len)) = len
    BY <1>2, XorCancels
  <1>4. Xor(low, s.version) = s.keyHigh
    BY <1>1, XorCancelsRight
  <1>5. CASE s.aes
    <2>1. Encode(s, len) = [low |-> low, high |-> Xor(low, len)]
      BY <1>5 DEF Encode
    <2>2. Decode(r, Encode(s, len)) =
            IF Xor(low, r.version) = r.keyHigh THEN Xor(low, Xor(low, len)) ELSE Invalid
      BY <1>5, <2>1 DEF Decode
    <2> QED
      BY <2>2, <1>3, <1>4
  <1>6. CASE ~s.aes
    BY <1>6 DEF Encode, Decode
  <1> QED
    BY <1>1, <1>5, <1>6

\* decode_header is the inverse of encode_header for ciphers in step, and never
\* reads another length than the one put in: for words of every width.
THEOREM RoundTrip == HeaderSpec => []LengthRoundTrip
  <1>1. HeaderInv => LengthRoundTrip
    BY DecodesToLength DEF HeaderInv, LengthRoundTrip
  <1> QED
    BY <1>1, HeaderInvariance, PTL

\* A cipher of the same version in another round refuses the header.
THEOREM RefusesOtherRounds == HeaderSpec => []OtherRoundRefused
  <1> SUFFICES ASSUME HeaderInv, sender.aes, sender.version = receiver.version,
                      sender.keyHigh # receiver.keyHigh
               PROVE  Decode(receiver, header) = Invalid
    <2>1. HeaderInv => OtherRoundRefused
      BY DEF HeaderInv, OtherRoundRefused
    <2> QED
      BY <2>1, HeaderInvariance, PTL
  <1>1. header.low = Xor(sender.keyHigh, sender.version)
    BY DEF HeaderInv, Encode
  <1>2. Xor(header.low, receiver.version) = sender.keyHigh
    BY <1>1, XorCancelsRight DEF HeaderInv, Cipher
  <1> QED
    BY <1>2 DEF HeaderInv, Decode

\* A reflected header is refused.
THEOREM RefusesReflections == HeaderSpec => []ReflectionRefused
  <1> SUFFICES ASSUME HeaderInv, sender.aes, sender.keyHigh = receiver.keyHigh,
                      receiver.version = Invert(sender.version)
               PROVE  Decode(receiver, header) = Invalid
    <2>1. HeaderInv => ReflectionRefused
      BY DEF HeaderInv, ReflectionRefused
    <2> QED
      BY <2>1, HeaderInvariance, PTL
  <1>1. header.low = Xor(sender.keyHigh, sender.version)
    BY DEF HeaderInv, Encode
  <1>2. Xor(header.low, receiver.version) # receiver.keyHigh
    BY <1>1, InverseDiffers DEF HeaderInv, Cipher
  <1> QED
    BY <1>2 DEF HeaderInv, Decode
=============================================================================
