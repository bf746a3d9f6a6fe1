-------------------------- MODULE LegacySession_proofs --------------------------
(***************************************************************************)
(* Theorems about LegacySession, for any handshakes, limits, capacities    *)
(* and packets: reading the handshake takes no byte of a frame, and the    *)
(* codecs of the two ends mirror each other packet by packet.  Then about  *)
(* EchoSession: it is such a session, the answers are the requests, and    *)
(* the two backpressures leave one of the ends a step.                     *)
(***************************************************************************)
EXTENDS EchoSession, TLAPS

-----------------------------------------------------------------------------
(* The inductive invariant *)

Rounds == [iv : RoundKeys, version : {Version(ServerVersion), Invert(Version(ServerVersion))},
           round : Nat]
Unit == {HandshakeByte} \union [kind : {"frame"}, pkt : Packets, cipher : Rounds]

TypeInv ==
    /\ phase \in [Ends -> {"write", "length", "body", "ready", "failed"}]
    /\ phase["server"] \in {"write", "ready", "failed"}
    /\ phase["client"] \in {"length", "body", "ready", "failed"}
    /\ handshake \in Handshake
    /\ written \in Nat
    /\ have \in Nat
    /\ transport \in [Ends -> Seq(Unit)]
    /\ buffer \in [Ends -> Seq(Unit)]
    /\ sent \in [Ends -> Seq(Packets)]
    /\ got \in [Ends -> Seq(Packets)]
    /\ up \in BOOLEAN
    /\ broken \subseteq Ends

BoundInv == \A e \in Ends : Len(transport[e]) <= Capacity /\ Len(sent[e]) <= MaxSend

\* The cipher of the n-th packet from end e, the first has n = 0.
At(h, e, n) ==
    [iv      |-> IF e = "client" THEN h.ivEnc ELSE h.ivDec,
     version |-> IF e = "client" THEN h.version ELSE Invert(h.version),
     round   |-> n]

\* The codec of an end that is ready has made one step for every packet.
CodecInv ==
    /\ enc = [e \in Ends |-> IF phase[e] = "ready" THEN At(handshake, e, Len(sent[e])) ELSE None]
    /\ dec = [e \in Ends |-> IF phase[e] = "ready" THEN At(handshake, Peer(e), Len(got[e])) ELSE None]

\* On its way from e are n bytes of the handshake in the transport t, and behind
\* them, in t and then in the buffer b, a frame for each packet of s behind those
\* in g, made with the cipher of its number.
Nth(h, e, s, k) == Frame(s[k], At(h, e, k - 1))
Line(h, e, n, t, b, s, g) ==
    /\ n \in 0 .. Len(t)
    /\ Len(s) = Len(g) + Len(t) - n + Len(b)
    /\ \A i \in 1 .. n : t[i] = HandshakeByte
    /\ \A i \in n + 1 .. Len(t) : t[i] = Nth(h, e, s, Len(g) + i - n)
    /\ \A i \in 1 .. Len(b) : b[i] = Nth(h, e, s, Len(g) + Len(t) - n + i)
    /\ \A i \in 1 .. Len(g) : g[i] = s[i]

\* n bytes of the handshake are written and not read.
Unread(n) ==
    /\ phase["client"] = "length" => n = written - have
    /\ phase["client"] \in {"body", "ready"} => n = written - LenBytes - have

LineInv ==
    /\ Line(handshake, "client", 0, transport["client"], buffer["client"],
            sent["client"], got["server"])
    /\ \E n \in Nat :
        /\ Unread(n)
        /\ Line(handshake, "server", n, transport["server"], buffer["server"],
                sent["server"], got["client"])

\* How far the two ends are with the handshake.
CreateInv ==
    /\ written <= HandshakeBytes
    /\ phase["server"] = "ready" => written = HandshakeBytes
    /\ phase["client"] \in {"body", "ready"} => handshake.shape.ln <= MaxHandshakeLen
    /\ phase["client"] = "ready" => have = handshake.shape.ln /\ BodyDecodes
    /\ \A e \in Ends : phase[e] # "ready" => sent[e] = << >> /\ got[e] = << >>

IInv ==
    /\ TypeInv
    /\ BoundInv
    /\ CodecInv
    /\ LineInv
    /\ CreateInv
    /\ ErrorsComeFromTheTransport
-----------------------------------------------------------------------------
(* What a step does to a line *)

\* A packet is sent: its frame goes to the end of the buffer.
LEMMA LineSend ==
    ASSUME NEW h, NEW e, NEW n \in Nat, NEW t \in Seq(Unit), NEW b \in Seq(Unit),
           NEW s \in Seq(Packets), NEW g \in Seq(Packets), Line(h, e, n, t, b, s, g),
           NEW p \in Packets, Frame(p, At(h, e, Len(s))) \in Unit
    PROVE  Line(h, e, n, t, Append(b, Frame(p, At(h, e, Len(s)))), Append(s, p), g)
PROOF
<1> DEFINE s1 == Append(s, p)
           b1 == Append(b, Frame(p, At(h, e, Len(s))))
<1>1. /\ Len(s1) = Len(s) + 1 /\ s1[Len(s1)] = p
      /\ \A i \in 1 .. Len(s) : s1[i] = s[i]
    OBVIOUS
<1>2. /\ Len(b1) = Len(b) + 1 /\ b1[Len(b1)] = Frame(p, At(h, e, Len(s)))
      /\ \A i \in 1 .. Len(b) : b1[i] = b[i]
    OBVIOUS
<1> HIDE DEF s1, b1
<1>3. \A i \in n + 1 .. Len(t) : t[i] = Nth(h, e, s1, Len(g) + i - n)
    <2> TAKE i \in n + 1 .. Len(t)
    <2>1. Len(g) + i - n \in 1 .. Len(s)
        BY DEF Line
    <2>2. t[i] = Nth(h, e, s, Len(g) + i - n)
        BY DEF Line
    <2> QED
        BY <2>1, <2>2, <1>1 DEF Nth
<1>4. \A i \in 1 .. Len(b1) : b1[i] = Nth(h, e, s1, Len(g) + Len(t) - n + i)
    <2> TAKE i \in 1 .. Len(b1)
    <2>1. CASE i <= Len(b)
        <3>1. Len(g) + Len(t) - n + i \in 1 .. Len(s) /\ i \in 1 .. Len(b)
            BY <2>1, <1>2 DEF Line
        <3>2. b[i] = Nth(h, e, s, Len(g) + Len(t) - n + i)
            BY <3>1 DEF Line
        <3> QED
            BY <3>1, <3>2, <1>1, <1>2 DEF Nth
    <2>2. CASE i = Len(b) + 1
        <3>1. Len(g) + Len(t) - n + i = Len(s1) /\ Len(s1) - 1 = Len(s)
            BY <2>2, <1>1 DEF Line
        <3> QED
            BY <2>2, <3>1, <1>1, <1>2 DEF Nth
    <2> QED
        BY <2>1, <2>2, <1>2
<1>5. \A i \in 1 .. Len(g) : g[i] = s1[i]
    <2>1. Len(g) <= Len(s)
        BY DEF Line
    <2> QED
        BY <2>1, <1>1 DEF Line
<1>6. n \in 0 .. Len(t) /\ Len(s1) = Len(g) + Len(t) - n + Len(b1)
    BY <1>1, <1>2 DEF Line
<1>7. Line(h, e, n, t, b1, s1, g)
    BY <1>3, <1>4, <1>5, <1>6 DEF Line
<1> QED
    BY <1>7 DEF s1, b1

\* The first frame of the buffer goes to the end of the transport.
LEMMA LineFlush ==
    ASSUME NEW h, NEW e, NEW n \in Nat, NEW t \in Seq(Unit), NEW b \in Seq(Unit),
           NEW s \in Seq(Packets), NEW g \in Seq(Packets), Line(h, e, n, t, b, s, g),
           b # << >>
    PROVE  Line(h, e, n, Append(t, Head(b)), Tail(b), s, g)
PROOF
<1> DEFINE t1 == Append(t, Head(b))
           b1 == Tail(b)
<1>1. /\ Len(t1) = Len(t) + 1 /\ t1[Len(t1)] = b[1]
      /\ \A i \in 1 .. Len(t) : t1[i] = t[i]
    OBVIOUS
<1>2. /\ Len(b1) = Len(b) - 1 /\ Len(b) > 0
      /\ \A i \in 1 .. Len(b1) : b1[i] = b[i + 1]
    OBVIOUS
<1>3. \A i \in n + 1 .. Len(t1) : t1[i] = Nth(h, e, s, Len(g) + i - n)
    <2> TAKE i \in n + 1 .. Len(t1)
    <2>1. CASE i <= Len(t)
        BY <2>1, <1>1 DEF Line
    <2>2. CASE i = Len(t) + 1
        <3>1. t1[i] = b[1] /\ Len(g) + Len(t) - n + 1 = Len(g) + i - n
            BY <2>2, <1>1 DEF Line
        <3>2. b[1] = Nth(h, e, s, Len(g) + Len(t) - n + 1)
            BY <1>2 DEF Line
        <3> QED
            BY <3>1, <3>2
    <2> QED
        BY <2>1, <2>2, <1>1
<1>4. \A i \in 1 .. Len(b1) : b1[i] = Nth(h, e, s, Len(g) + Len(t1) - n + i)
    <2> TAKE i \in 1 .. Len(b1)
    <2>1. b1[i] = Nth(h, e, s, Len(g) + Len(t) - n + (i + 1))
        BY <1>2 DEF Line
    <2>2. Len(g) + Len(t) - n + (i + 1) = Len(g) + Len(t1) - n + i
        BY <1>1 DEF Line
    <2> QED
        BY <2>1, <2>2
<1>5. \A i \in 1 .. n : t1[i] = HandshakeByte
    BY <1>1 DEF Line
<1>6. n \in 0 .. Len(t1) /\ Len(s) = Len(g) + Len(t1) - n + Len(b1)
    BY <1>1, <1>2 DEF Line
<1> HIDE DEF t1, b1
<1> QED
    BY <1>3, <1>4, <1>5, <1>6 DEF Line, t1, b1

\* The peer takes the first unit, which is the frame of the packet it waits for.
LEMMA LineReceive ==
    ASSUME NEW h, NEW e, NEW t \in Seq(Unit), NEW b \in Seq(Unit),
           NEW s \in Seq(Packets), NEW g \in Seq(Packets), Line(h, e, 0, t, b, s, g),
           t # << >>
    PROVE  /\ Len(g) + 1 \in DOMAIN s
           /\ Head(t) = Frame(s[Len(g) + 1], At(h, e, Len(g)))
           /\ Line(h, e, 0, Tail(t), b, s, Append(g, s[Len(g) + 1]))
PROOF
<1> DEFINE t1 == Tail(t)
           g1 == Append(g, s[Len(g) + 1])
<1>1. /\ Len(t1) = Len(t) - 1 /\ Len(t) > 0
      /\ \A i \in 1 .. Len(t1) : t1[i] = t[i + 1]
    OBVIOUS
<1>2. Len(g) + 1 \in DOMAIN s
    BY <1>1 DEF Line
<1>3. Head(t) = Frame(s[Len(g) + 1], At(h, e, Len(g)))
    <2>1. Head(t) = Nth(h, e, s, Len(g) + 1 - 0)
        BY <1>1 DEF Line
    <2>2. Len(g) + 1 - 0 = Len(g) + 1 /\ (Len(g) + 1) - 1 = Len(g)
        OBVIOUS
    <2> QED
        BY <2>1, <2>2 DEF Nth
<1>4. /\ Len(g1) = Len(g) + 1 /\ g1[Len(g1)] = s[Len(g) + 1]
      /\ \A i \in 1 .. Len(g) : g1[i] = g[i]
    BY <1>2
<1>5. \A i \in 1 .. Len(t1) : t1[i] = Nth(h, e, s, Len(g1) + i - 0)
    <2> TAKE i \in 1 .. Len(t1)
    <2>1. t1[i] = Nth(h, e, s, Len(g) + (i + 1) - 0)
        BY <1>1 DEF Line
    <2>2. Len(g) + (i + 1) - 0 = Len(g1) + i - 0
        BY <1>4
    <2> QED
        BY <2>1, <2>2
<1>6. \A i \in 1 .. Len(b) : b[i] = Nth(h, e, s, Len(g1) + Len(t1) - 0 + i)
    <2> TAKE i \in 1 .. Len(b)
    <2>1. b[i] = Nth(h, e, s, Len(g) + Len(t) - 0 + i)
        BY DEF Line
    <2>2. Len(g) + Len(t) - 0 + i = Len(g1) + Len(t1) - 0 + i
        BY <1>1, <1>4
    <2> QED
        BY <2>1, <2>2
<1>7. \A i \in 1 .. Len(g1) : g1[i] = s[i]
    BY <1>4 DEF Line
<1>8. 0 \in 0 .. Len(t1) /\ Len(s) = Len(g1) + Len(t1) - 0 + Len(b)
    BY <1>1, <1>4 DEF Line
<1>9. \A i \in 0 + 1 .. Len(t1) : t1[i] = Nth(h, e, s, Len(g1) + i - 0)
    BY <1>5
<1>10. \A i \in 1 .. 0 : t1[i] = HandshakeByte
    OBVIOUS
<1> HIDE DEF t1, g1
<1>11. Line(h, e, 0, t1, b, s, g1)
    BY <1>6, <1>7, <1>8, <1>9, <1>10 DEF Line
<1> QED
    BY <1>2, <1>3, <1>11 DEF t1, g1

\* A byte of the handshake is written before anything is sent.
LEMMA LineHandshake ==
    ASSUME NEW h, NEW e, NEW n \in Nat, NEW t \in Seq(Unit), NEW b \in Seq(Unit),
           Line(h, e, n, t, b, << >>, << >>)
    PROVE  n = Len(t) /\ Line(h, e, n + 1, Append(t, HandshakeByte), b, << >>, << >>)
PROOF
<1> DEFINE t1 == Append(t, HandshakeByte)
<1>1. n = Len(t) /\ Len(b) = 0
    BY DEF Line
<1>2. /\ Len(t1) = Len(t) + 1 /\ t1[Len(t1)] = HandshakeByte
      /\ \A i \in 1 .. Len(t) : t1[i] = t[i]
    BY DEF Unit
<1> HIDE DEF t1
<1>3. Line(h, e, n + 1, t1, b, << >>, << >>)
    BY <1>1, <1>2 DEF Line
<1> QED
    BY <1>1, <1>3 DEF t1

\* Bytes of the handshake are read.
LEMMA LineRead ==
    ASSUME NEW h, NEW e, NEW n \in Nat, NEW t \in Seq(Unit), NEW b \in Seq(Unit),
           NEW s \in Seq(Packets), NEW g \in Seq(Packets), Line(h, e, n, t, b, s, g),
           NEW k \in 1 .. n
    PROVE  Line(h, e, n - k, SubSeq(t, k + 1, Len(t)), b, s, g)
PROOF
<1> DEFINE t1 == SubSeq(t, k + 1, Len(t))
<1>1. n <= Len(t)
    BY DEF Line
<1>2. /\ Len(t1) = Len(t) - k
      /\ \A i \in 1 .. Len(t1) : t1[i] = t[i + k]
    BY <1>1
<1> HIDE DEF t1
<1>3. \A i \in 1 .. n - k : t1[i] = HandshakeByte
    <2> TAKE i \in 1 .. n - k
    <2>1. i + k \in 1 .. n /\ i \in 1 .. Len(t1)
        BY <1>1, <1>2
    <2> QED
        BY <1>2, <2>1 DEF Line
<1>4. \A i \in n - k + 1 .. Len(t1) : t1[i] = Nth(h, e, s, Len(g) + i - (n - k))
    <2> TAKE i \in n - k + 1 .. Len(t1)
    <2>1. i + k \in n + 1 .. Len(t) /\ i \in 1 .. Len(t1)
        BY <1>2
    <2>2. t1[i] = Nth(h, e, s, Len(g) + (i + k) - n)
        BY <1>2, <2>1 DEF Line
    <2>3. Len(g) + (i + k) - n = Len(g) + i - (n - k)
        OBVIOUS
    <2> QED
        BY <2>2, <2>3
<1>5. \A i \in 1 .. Len(b) : b[i] = Nth(h, e, s, Len(g) + Len(t1) - (n - k) + i)
    <2> TAKE i \in 1 .. Len(b)
    <2>1. b[i] = Nth(h, e, s, Len(g) + Len(t) - n + i)
        BY DEF Line
    <2>2. Len(g) + Len(t) - n + i = Len(g) + Len(t1) - (n - k) + i
        BY <1>1, <1>2
    <2> QED
        BY <2>1, <2>2
<1>6. n - k \in 0 .. Len(t1) /\ Len(s) = Len(g) + Len(t1) - (n - k) + Len(b)
    BY <1>1, <1>2 DEF Line
<1>7. \A i \in 1 .. Len(g) : g[i] = s[i]
    BY DEF Line
<1>8. Line(h, e, n - k, t1, b, s, g)
    BY <1>3, <1>4, <1>5, <1>6, <1>7 DEF Line
<1> QED
    BY <1>8 DEF t1

-----------------------------------------------------------------------------
(* Types *)

LEMMA HandshakeType ==
    ASSUME handshake \in Handshake
    PROVE  /\ handshake.shape.ln \in Nat
           /\ LenBytes \in Nat \ {0}
           /\ HandshakeBytes = LenBytes + handshake.shape.ln
           /\ handshake.version = Version(ServerVersion)
           /\ handshake.ivEnc \in RoundKeys
           /\ handshake.ivDec \in RoundKeys
PROOF
<1>1. handshake.shape \in Shapes
    BY DEF Handshake
<1> QED
    BY <1>1, SessionAssumption DEF Handshake, HandshakeBytes

LEMMA AtType ==
    ASSUME handshake \in Handshake, NEW e \in Ends, NEW n \in Nat
    PROVE  At(handshake, e, n) \in Rounds
    BY HandshakeType DEF At, Rounds

LEMMA FrameType ==
    ASSUME handshake \in Handshake, NEW e \in Ends, NEW n \in Nat, NEW p \in Packets
    PROVE  Frame(p, At(handshake, e, n)) \in Unit
    BY AtType DEF Frame, Unit

LEMMA AtSteps ==
    ASSUME NEW h, NEW e \in Ends, NEW n \in Nat
    PROVE  Stepped(At(h, e, n)) = At(h, e, n + 1)
    BY DEF Stepped, At

\* The codecs of the two ends are made from the same handshake.
LEMMA CodecStarts ==
    ASSUME NEW h
    PROVE  /\ ClientCodec(h).enc = At(h, "client", 0)
           /\ ClientCodec(h).dec = At(h, "server", 0)
           /\ ServerCodec(h).enc = At(h, "server", 0)
           /\ ServerCodec(h).dec = At(h, "client", 0)
    BY DEF ClientCodec, ServerCodec, Cipher, At

-----------------------------------------------------------------------------
(* The initial states *)

LEMMA Initially == Init => IInv
PROOF
<1> SUFFICES ASSUME Init PROVE IInv
    OBVIOUS
<1> USE DEF Init, Ends
<1>1. TypeInv
    BY DEF TypeInv
<1>2. BoundInv
    BY SessionAssumption DEF BoundInv
<1>3. CodecInv
    BY DEF CodecInv
<1>4. LineInv
    <2>1. Line(handshake, "client", 0, << >>, << >>, << >>, << >>)
        BY DEF Line
    <2>2. Line(handshake, "server", 0, << >>, << >>, << >>, << >>)
        BY DEF Line
    <2>3. Unread(0)
        BY DEF Unread
    <2> QED
        BY <2>1, <2>2, <2>3 DEF LineInv
<1>5. CreateInv
    BY HandshakeType DEF CreateInv
<1>6. ErrorsComeFromTheTransport
    BY DEF ErrorsComeFromTheTransport
<1> QED
    BY <1>1, <1>2, <1>3, <1>4, <1>5, <1>6 DEF IInv

-----------------------------------------------------------------------------
(* Creating the streams *)

\* i bytes of the handshake are written and j are read.
LEMMA UnreadCounts ==
    ASSUME NEW n \in Nat, Unread(n), NEW i \in Nat, NEW j \in Nat,
           written \in Nat, have \in Nat, phase' = phase,
           written' = written + i, have' = have + j
    PROVE  Unread(n + i - j)'
PROOF
<1>1. LenBytes \in Nat
    BY SessionAssumption
<1>2. ASSUME phase["client"] = "length" PROVE n + i - j = written' - have'
    <2>1. n = written - have
        BY <1>2 DEF Unread
    <2> QED
        BY <2>1
<1>3. ASSUME phase["client"] \in {"body", "ready"} PROVE n + i - j = written' - LenBytes - have'
    <2>1. n = written - LenBytes - have
        BY <1>3 DEF Unread
    <2> QED
        BY <1>1, <2>1
<1> QED
    BY <1>2, <1>3 DEF Unread

LEMMA WriteHandshakeStep ==
    ASSUME IInv, WriteHandshake
    PROVE  IInv'
PROOF
<1> USE DEF WriteHandshake, streams
<1>0. handshake \in Handshake /\ handshake' = handshake /\ HandshakeBytes' = HandshakeBytes
    BY DEF IInv, TypeInv, HandshakeBytes
<1>1. TypeInv'
    BY DEF IInv, TypeInv, Ends, Unit
<1>2. BoundInv'
    BY SessionAssumption DEF IInv, TypeInv, BoundInv, Ends
<1>3. CodecInv'
    BY DEF IInv, CodecInv
<1>4. LineInv'
    <2>1. sent["server"] = << >> /\ got["server"] = << >>
        BY DEF IInv, CreateInv, Ends
    <2>2. PICK n \in Nat : /\ Unread(n)
                           /\ Line(handshake, "server", n, transport["server"], buffer["server"],
                                   sent["server"], got["client"])
        BY DEF IInv, LineInv
    <2>3. got["client"] = << >>
        BY <2>1, <2>2 DEF IInv, TypeInv, Ends, Line
    <2>4. Line(handshake, "server", n + 1, transport'["server"], buffer["server"], << >>, << >>)
        BY <2>1, <2>2, <2>3, LineHandshake DEF IInv, TypeInv, Ends
    <2>5. Unread(n + 1)'
        <3>1. /\ written \in Nat /\ have \in Nat /\ phase' = phase
              /\ written' = written + 1 /\ have' = have + 0
            BY DEF IInv, TypeInv
        <3> HIDE DEF WriteHandshake
        <3>2. Unread(n + 1 - 0)'
            BY <2>2, <3>1, UnreadCounts
        <3> QED
            BY <3>2
    <2>6. transport'["client"] = transport["client"]
        BY DEF IInv, TypeInv, Ends
    <2> QED
        BY <1>0, <2>1, <2>3, <2>4, <2>5, <2>6 DEF IInv, LineInv
<1>5. CreateInv'
    BY <1>0, HandshakeType DEF IInv, TypeInv, CreateInv, BodyDecodes, HandshakeBytes
<1>6. ErrorsComeFromTheTransport'
    BY DEF IInv, ErrorsComeFromTheTransport
<1> QED
    BY <1>1, <1>2, <1>3, <1>4, <1>5, <1>6 DEF IInv

\* An end becomes ready: its codec is the one of the handshake, without a step.
LEMMA ServerReadyStep ==
    ASSUME IInv, ServerReady
    PROVE  IInv'
PROOF
<1> USE DEF ServerReady, streams
<1>0. handshake' = handshake /\ HandshakeBytes' = HandshakeBytes
    BY DEF HandshakeBytes
<1>1. TypeInv'
    BY DEF IInv, TypeInv, Ends
<1>2. BoundInv'
    BY DEF IInv, BoundInv
<1>3. CodecInv'
    <2>1. Len(sent["server"]) = 0 /\ Len(got["server"]) = 0
        BY DEF IInv, CreateInv, Ends
    <2>2. enc'["server"] = At(handshake, "server", 0) /\ dec'["server"] = At(handshake, "client", 0)
        BY CodecStarts DEF IInv, CodecInv, Ends
    <2> QED
        BY <2>1, <2>2, <1>0 DEF IInv, TypeInv, CodecInv, Ends, Peer
<1>4. LineInv'
    BY DEF IInv, TypeInv, Ends, LineInv, Unread
<1>5. CreateInv'
    BY <1>0 DEF IInv, TypeInv, CreateInv, BodyDecodes, Ends
<1>6. ErrorsComeFromTheTransport'
    BY DEF IInv, ErrorsComeFromTheTransport
<1> QED
    BY <1>1, <1>2, <1>3, <1>4, <1>5, <1>6 DEF IInv

\* The client takes k bytes, at most as many of the handshake as are left.
LEMMA TakeStep ==
    ASSUME IInv, NEW k \in Nat \ {0},
           phase["client"] \in {"length", "body"},
           have + k <= IF phase["client"] = "length" THEN LenBytes ELSE handshake.shape.ln,
           k <= Len(transport["server"]), have' = have + k,
           transport' = [transport EXCEPT !["server"] = SubSeq(@, k + 1, Len(@))],
           UNCHANGED <<phase, handshake, written, up, enc, dec, streams>>
    PROVE  IInv'
PROOF
<1> USE DEF streams
<1>0. handshake \in Handshake /\ handshake' = handshake /\ HandshakeBytes' = HandshakeBytes
    BY DEF IInv, TypeInv, HandshakeBytes
<1>a. transport["server"] \in Seq(Unit) /\ "server" \in DOMAIN transport
    BY DEF IInv, TypeInv, Ends
<1>b. /\ transport'["server"] = SubSeq(transport["server"], k + 1, Len(transport["server"]))
      /\ transport'["client"] = transport["client"]
    BY DEF IInv, TypeInv, Ends
<1>c. /\ transport'["server"] \in Seq(Unit)
      /\ Len(transport'["server"]) <= Len(transport["server"])
    BY <1>a, <1>b
<1>1. TypeInv'
    BY <1>c DEF IInv, TypeInv, Ends
<1>2. BoundInv'
    BY <1>a, <1>b, <1>c, SessionAssumption DEF IInv, BoundInv, Ends
<1>3. CodecInv'
    BY DEF IInv, CodecInv
<1>4. LineInv'
    <2>1. PICK n \in Nat : /\ Unread(n)
                           /\ Line(handshake, "server", n, transport["server"], buffer["server"],
                                   sent["server"], got["client"])
        BY DEF IInv, LineInv
    <2>2. k <= n
        <3>1. CASE phase["server"] = "ready"
            <4>1. /\ LenBytes \in Nat /\ handshake.shape.ln \in Nat
                  /\ written = LenBytes + handshake.shape.ln
                BY <1>0, <3>1, HandshakeType DEF IInv, CreateInv
            <4>2. have \in Nat
                BY DEF IInv, TypeInv
            <4> QED
                BY <2>1, <4>1, <4>2 DEF Unread
        <3>2. CASE phase["server"] # "ready"
            <4>1. Len(transport["server"]) = n
                BY <2>1, <3>2, <1>a DEF IInv, TypeInv, CreateInv, Ends, Line
            <4> QED
                BY <4>1
        <3> QED
            BY <3>1, <3>2
    <2>3. Line(handshake, "server", n - k, transport'["server"], buffer["server"],
               sent["server"], got["client"])
        <3>1. k \in 1 .. n
            BY <2>2
        <3>2. /\ buffer["server"] \in Seq(Unit) /\ sent["server"] \in Seq(Packets)
              /\ got["client"] \in Seq(Packets)
            BY DEF IInv, TypeInv, Ends
        <3> QED
            BY <1>a, <1>b, <2>1, <3>1, <3>2, LineRead
    <2>4. n - k \in Nat /\ Unread(n - k)'
        <3>1. /\ written \in Nat /\ have \in Nat
              /\ written' = written + 0 /\ have' = have + k
            BY DEF IInv, TypeInv
        <3>2. Unread(n + 0 - k)'
            BY <2>1, <3>1, UnreadCounts
        <3> QED
            BY <2>2, <3>2
    <2> QED
        BY <1>0, <1>b, <2>3, <2>4 DEF IInv, LineInv
<1>5. CreateInv'
    BY <1>0 DEF IInv, TypeInv, CreateInv, BodyDecodes
<1>6. ErrorsComeFromTheTransport'
    BY DEF IInv, ErrorsComeFromTheTransport
<1> QED
    BY <1>1, <1>2, <1>3, <1>4, <1>5, <1>6 DEF IInv

LEMMA ReadStep ==
    ASSUME IInv, ReadLength \/ ReadBody
    PROVE  IInv'
PROOF
<1>0. /\ have \in Nat /\ LenBytes \in Nat /\ handshake.shape.ln \in Nat
      /\ Len(transport["server"]) \in Nat
    BY HandshakeType DEF IInv, TypeInv, Ends
<1>1. CASE ReadLength
    <2>1. PICK k \in 1 .. LenBytes - have :
            /\ k <= Len(transport["server"])
            /\ have' = have + k
            /\ transport' = [transport EXCEPT !["server"] = SubSeq(@, k + 1, Len(@))]
        BY <1>1 DEF ReadLength, ReadExact
    <2>2. k \in Nat \ {0} /\ have + k <= LenBytes
        BY <1>0, <2>1
    <2>3. /\ phase["client"] = "length"
          /\ UNCHANGED <<phase, handshake, written, up, enc, dec, streams>>
        BY <1>1 DEF ReadLength
    <2>4. have + k <= IF phase["client"] = "length" THEN LenBytes ELSE handshake.shape.ln
        BY <2>2, <2>3
    <2> QED
        BY <2>1, <2>2, <2>3, <2>4, TakeStep
<1>2. CASE ReadBody
    <2>1. PICK k \in 1 .. handshake.shape.ln - have :
            /\ k <= Len(transport["server"])
            /\ have' = have + k
            /\ transport' = [transport EXCEPT !["server"] = SubSeq(@, k + 1, Len(@))]
        BY <1>2 DEF ReadBody, ReadExact
    <2>2. k \in Nat \ {0} /\ have + k <= handshake.shape.ln
        BY <1>0, <2>1
    <2>3. /\ phase["client"] = "body"
          /\ UNCHANGED <<phase, handshake, written, up, enc, dec, streams>>
        BY <1>2 DEF ReadBody
    <2>4. have + k <= IF phase["client"] = "length" THEN LenBytes ELSE handshake.shape.ln
        BY <2>2, <2>3
    <2> QED
        BY <2>1, <2>2, <2>3, <2>4, TakeStep
<1> QED
    BY <1>1, <1>2

LEMMA LengthDecodedStep ==
    ASSUME IInv, LengthDecoded
    PROVE  IInv'
PROOF
<1> USE DEF LengthDecoded, streams
<1>0. handshake \in Handshake /\ handshake' = handshake /\ HandshakeBytes' = HandshakeBytes
    BY DEF IInv, TypeInv, HandshakeBytes
<1>1. TypeInv'
    BY DEF IInv, TypeInv, Ends
<1>2. BoundInv'
    BY DEF IInv, BoundInv
<1>3. CodecInv'
    BY DEF IInv, TypeInv, CodecInv, Ends
<1>4. LineInv'
    <2>1. \A n \in Nat : Unread(n) => Unread(n)'
        BY <1>0, HandshakeType DEF IInv, TypeInv, Unread, Ends
    <2> QED
        BY <1>0, <2>1 DEF IInv, LineInv
<1>5. CreateInv'
    BY <1>0 DEF IInv, TypeInv, CreateInv, BodyDecodes, LengthAllowed, Ends
<1>6. ErrorsComeFromTheTransport'
    BY DEF IInv, ErrorsComeFromTheTransport
<1> QED
    BY <1>1, <1>2, <1>3, <1>4, <1>5, <1>6 DEF IInv

LEMMA ClientReadyStep ==
    ASSUME IInv, ClientReady
    PROVE  IInv'
PROOF
<1> USE DEF ClientReady, streams
<1>0. handshake' = handshake /\ HandshakeBytes' = HandshakeBytes
    BY DEF HandshakeBytes
<1>1. TypeInv'
    BY DEF IInv, TypeInv, Ends
<1>2. BoundInv'
    BY DEF IInv, BoundInv
<1>3. CodecInv'
    <2>1. Len(sent["client"]) = 0 /\ Len(got["client"]) = 0
        BY DEF IInv, CreateInv, Ends
    <2>2. enc'["client"] = At(handshake, "client", 0) /\ dec'["client"] = At(handshake, "server", 0)
        BY CodecStarts DEF IInv, CodecInv, Ends
    <2> QED
        BY <2>1, <2>2, <1>0 DEF IInv, TypeInv, CodecInv, Ends, Peer
<1>4. LineInv'
    <2>1. \A n \in Nat : Unread(n) => Unread(n)'
        BY DEF IInv, TypeInv, Unread, Ends
    <2> QED
        BY <1>0, <2>1 DEF IInv, LineInv
<1>5. CreateInv'
    BY <1>0 DEF IInv, TypeInv, CreateInv, BodyDecodes, Ends
<1>6. ErrorsComeFromTheTransport'
    BY DEF IInv, ErrorsComeFromTheTransport
<1> QED
    BY <1>1, <1>2, <1>3, <1>4, <1>5, <1>6 DEF IInv

\* A creation that fails makes no codec.
LEMMA CreationFailsStep ==
    ASSUME IInv, ClientInvalid \/ \E e \in Ends : CreationFails(e)
    PROVE  IInv'
PROOF
<1>0. PICK e \in Ends :
        /\ phase[e] # "ready" /\ phase' = [phase EXCEPT ![e] = "failed"]
        /\ up' \in {up, FALSE}
        /\ UNCHANGED <<handshake, written, have, transport, enc, dec, streams>>
    BY DEF ClientInvalid, CreationFails, Ends, IInv, TypeInv
<1> USE <1>0 DEF streams
<1>1. TypeInv'
    BY DEF IInv, TypeInv, Ends
<1>2. BoundInv'
    BY DEF IInv, BoundInv
<1>3. CodecInv'
    BY DEF IInv, TypeInv, CodecInv
<1>4. LineInv'
    <2>1. \A n \in Nat : Unread(n) => Unread(n)'
        BY DEF IInv, TypeInv, Unread, Ends
    <2> QED
        BY <2>1 DEF IInv, LineInv
<1>5. CreateInv'
    BY DEF IInv, TypeInv, CreateInv, BodyDecodes, HandshakeBytes, Ends
<1>6. ErrorsComeFromTheTransport'
    BY DEF IInv, ErrorsComeFromTheTransport
<1> QED
    BY <1>1, <1>2, <1>3, <1>4, <1>5, <1>6 DEF IInv

-----------------------------------------------------------------------------
(* Using the streams *)

\* The line of packets from end e, with as many bytes of the handshake as there
\* may be in front of them.
EndLine(e, n) ==
    Line(handshake, e, n, transport[e], buffer[e], sent[e], got[Peer(e)])
Bytes(e, n) == IF e = "client" THEN n = 0 ELSE Unread(n)

LEMMA LineOf ==
    LineInv <=> \A e \in Ends : \E n \in Nat : Bytes(e, n) /\ EndLine(e, n)
    BY DEF LineInv, Bytes, EndLine, Ends, Peer

\* A step with a stream changes the line of one end.
LEMMA OneLine ==
    ASSUME LineInv, NEW e \in Ends, NEW n \in Nat, Bytes(e, n), UNCHANGED creation,
           \A d \in Ends \ {e} : /\ transport'[d] = transport[d]
                                 /\ buffer'[d] = buffer[d]
                                 /\ sent'[d] = sent[d]
                                 /\ got'[Peer(d)] = got[Peer(d)],
           Line(handshake, e, n, transport'[e], buffer'[e], sent'[e], got'[Peer(e)])
    PROVE  LineInv'
PROOF
<1>1. \A d \in Ends, m \in Nat : Bytes(d, m)' <=> Bytes(d, m)
    BY DEF Bytes, Unread, creation
<1>2. \A d \in Ends \ {e}, m \in Nat : EndLine(d, m)' <=> EndLine(d, m)
    BY DEF EndLine, creation
<1>3. EndLine(e, n)'
    BY DEF EndLine, creation
<1>4. \A d \in Ends : \E m \in Nat : Bytes(d, m)' /\ EndLine(d, m)'
    BY <1>1, <1>2, <1>3, LineOf
<1>5. LineInv' <=> \A d \in Ends : \E m \in Nat : Bytes(d, m)' /\ EndLine(d, m)'
    BY DEF LineInv, Bytes, EndLine, Ends, Peer
<1> QED
    BY <1>4, <1>5

LEMMA CreationStays ==
    ASSUME CreateInv, UNCHANGED creation,
           \A e \in Ends : phase[e] # "ready" => sent'[e] = sent[e] /\ got'[e] = got[e]
    PROVE  CreateInv'
    BY DEF CreateInv, creation, HandshakeBytes, BodyDecodes

LEMMA SendStep ==
    ASSUME IInv, NEW e \in Ends, NEW p \in Packets, Send(e, p)
    PROVE  IInv'
PROOF
<1> USE DEF Send
<1>0. /\ handshake \in Handshake /\ UNCHANGED creation
      /\ buffer[e] \in Seq(Unit) /\ transport[e] \in Seq(Unit)
      /\ sent[e] \in Seq(Packets) /\ got[Peer(e)] \in Seq(Packets)
    BY DEF IInv, TypeInv, Ends, Peer
<1>1. enc[e] = At(handshake, e, Len(sent[e])) /\ Frame(p, enc[e]) \in Unit
    BY <1>0, FrameType DEF IInv, CodecInv
<1>2. /\ buffer' = [buffer EXCEPT ![e] = Append(@, Frame(p, enc[e]))]
      /\ sent' = [sent EXCEPT ![e] = Append(@, p)]
      /\ enc' = [enc EXCEPT ![e] = At(handshake, e, Len(sent[e]) + 1)]
      /\ Len(Append(sent[e], p)) = Len(sent[e]) + 1
    <2>1. Stepped(enc[e]) = At(handshake, e, Len(sent[e]) + 1)
        BY <1>0, <1>1, AtSteps
    <2> QED
        BY <1>0, <2>1
<1>3. TypeInv'
    <2>1. Append(buffer[e], Frame(p, enc[e])) \in Seq(Unit) /\ Append(sent[e], p) \in Seq(Packets)
        BY <1>0, <1>1
    <2> QED
        BY <1>0, <1>2, <2>1 DEF IInv, TypeInv, creation
<1>4. BoundInv'
    BY <1>0, <1>2, SessionAssumption DEF IInv, TypeInv, BoundInv
<1>5. CodecInv'
    <2>1. \A d \in Ends : sent'[d] = IF d = e THEN Append(sent[e], p) ELSE sent[d]
        BY <1>2 DEF IInv, TypeInv
    <2>2. enc = [d \in Ends |-> IF phase[d] = "ready" THEN At(handshake, d, Len(sent[d])) ELSE None]
        BY DEF IInv, CodecInv
    <2>3. enc' = [d \in Ends |-> IF phase[d] = "ready" THEN At(handshake, d, Len(sent'[d])) ELSE None]
        <3>1. phase[e] = "ready"
            OBVIOUS
        <3> HIDE DEF Send
        <3> QED
            BY <1>2, <2>1, <2>2, <3>1
    <2> QED
        BY <1>0, <2>3 DEF IInv, CodecInv, creation
<1>6. LineInv'
    <2>1. PICK n \in Nat : Bytes(e, n) /\ EndLine(e, n)
        BY LineOf DEF IInv
    <2>2. Line(handshake, e, n, transport'[e], buffer'[e], sent'[e], got'[Peer(e)])
        <3>1. Line(handshake, e, n, transport[e], Append(buffer[e], Frame(p, At(handshake, e, Len(sent[e])))),
                   Append(sent[e], p), got[Peer(e)])
            BY <1>0, <1>1, <2>1, LineSend DEF EndLine
        <3> QED
            BY <1>0, <1>1, <1>2, <3>1 DEF IInv, TypeInv
    <2>3. \A d \in Ends \ {e} : /\ transport'[d] = transport[d]
                                /\ buffer'[d] = buffer[d]
                                /\ sent'[d] = sent[d]
                                /\ got'[Peer(d)] = got[Peer(d)]
        BY <1>2 DEF IInv, TypeInv
    <2> QED
        BY <1>0, <2>1, <2>2, <2>3, OneLine DEF IInv
<1>7. CreateInv'
    BY <1>0, <1>2, CreationStays DEF IInv, TypeInv
<1>8. ErrorsComeFromTheTransport'
    BY DEF IInv, ErrorsComeFromTheTransport
<1> QED
    BY <1>3, <1>4, <1>5, <1>6, <1>7, <1>8 DEF IInv

LEMMA FlushStep ==
    ASSUME IInv, NEW e \in Ends, Flush(e)
    PROVE  IInv'
PROOF
<1> USE DEF Flush
<1>0. /\ UNCHANGED creation
      /\ buffer[e] \in Seq(Unit) /\ transport[e] \in Seq(Unit) /\ buffer[e] # << >>
      /\ sent[e] \in Seq(Packets) /\ got[Peer(e)] \in Seq(Packets)
    BY DEF IInv, TypeInv, Ends, Peer
<1>1. /\ Append(transport[e], Head(buffer[e])) \in Seq(Unit)
      /\ Tail(buffer[e]) \in Seq(Unit)
      /\ Len(Append(transport[e], Head(buffer[e]))) = Len(transport[e]) + 1
    BY <1>0
<1>2. TypeInv'
    BY <1>0, <1>1 DEF IInv, TypeInv, creation
<1>3. BoundInv'
    BY <1>0, <1>1, SessionAssumption DEF IInv, TypeInv, BoundInv
<1>4. CodecInv'
    BY <1>0 DEF IInv, CodecInv, creation
<1>5. LineInv'
    <2>1. PICK n \in Nat : Bytes(e, n) /\ EndLine(e, n)
        BY LineOf DEF IInv
    <2>2. Line(handshake, e, n, transport'[e], buffer'[e], sent'[e], got'[Peer(e)])
        <3>1. Line(handshake, e, n, Append(transport[e], Head(buffer[e])), Tail(buffer[e]),
                   sent[e], got[Peer(e)])
            BY <1>0, <2>1, LineFlush DEF EndLine
        <3> QED
            BY <3>1 DEF IInv, TypeInv
    <2>3. \A d \in Ends \ {e} : /\ transport'[d] = transport[d]
                                /\ buffer'[d] = buffer[d]
                                /\ sent'[d] = sent[d]
                                /\ got'[Peer(d)] = got[Peer(d)]
        BY DEF IInv, TypeInv
    <2> QED
        BY <1>0, <2>1, <2>2, <2>3, OneLine DEF IInv
<1>6. CreateInv'
    BY <1>0, CreationStays DEF IInv
<1>7. ErrorsComeFromTheTransport'
    BY DEF IInv, ErrorsComeFromTheTransport
<1> QED
    BY <1>2, <1>3, <1>4, <1>5, <1>6, <1>7 DEF IInv

\* A frame that is received is the next one, and its header is never refused.
LEMMA ReceiveStep ==
    ASSUME IInv, NEW e \in Ends, Receive(e)
    PROVE  IInv'
PROOF
<1> USE DEF Receive
<1> DEFINE d == Peer(e)
           t == transport[d]
           p == sent[d][Len(got[e]) + 1]
<1>0. /\ d \in Ends /\ Peer(d) = e /\ d # e
      /\ handshake \in Handshake /\ UNCHANGED creation
      /\ t \in Seq(Unit) /\ t # << >> /\ buffer[d] \in Seq(Unit)
      /\ sent[d] \in Seq(Packets) /\ got[e] \in Seq(Packets)
      /\ transport' = [transport EXCEPT ![d] = Tail(t)]
      /\ UNCHANGED <<creation, buffer, up, enc, sent>>
    BY DEF IInv, TypeInv, Ends, Peer, Incoming
<1>1. Bytes(d, 0) /\ EndLine(d, 0)
    <2>1. PICK n \in Nat : Bytes(d, n) /\ EndLine(d, n)
        BY <1>0, LineOf DEF IInv
    <2>2. CASE d = "client"
        BY <2>1, <2>2 DEF Bytes
    <2>3. CASE d = "server"
        <3>1. /\ phase["client"] = "ready" /\ have = handshake.shape.ln
              /\ n = written - LenBytes - have
            BY <1>0, <2>1, <2>3 DEF IInv, CreateInv, Bytes, Unread, Ends, Peer
        <3>2. written <= LenBytes + have /\ written \in Nat /\ have \in Nat /\ LenBytes \in Nat
            BY <1>0, <3>1, HandshakeType DEF IInv, TypeInv, CreateInv
        <3>3. n = 0
            BY <3>1, <3>2
        <3> QED
            BY <2>1, <3>3
    <2> QED
        BY <1>0, <2>2, <2>3 DEF Ends
<1>2. /\ Len(got[e]) + 1 \in DOMAIN sent[d]
      /\ Head(t) = Frame(p, At(handshake, d, Len(got[e])))
      /\ Line(handshake, d, 0, Tail(t), buffer[d], sent[d], Append(got[e], p))
    BY <1>0, <1>1, LineReceive DEF EndLine
<1>3. p \in Packets
    BY <1>0, <1>2
<1>4. HeaderOk(e, Head(t)) /\ Head(t).pkt = p
    BY <1>0, <1>2 DEF IInv, CodecInv, HeaderOk, IsFrame, Frame
<1>5. /\ got' = [got EXCEPT ![e] = Append(@, p)]
      /\ dec' = [dec EXCEPT ![e] = At(handshake, d, Len(got[e]) + 1)]
      /\ broken' = broken
    <2>1. /\ got' = [got EXCEPT ![e] = Append(@, Head(t).pkt)]
          /\ dec' = [dec EXCEPT ![e] = Stepped(@)]
          /\ broken' = broken
        BY <1>4 DEF Incoming
    <2>2. dec[e] = At(handshake, d, Len(got[e])) /\ Len(got[e]) \in Nat
        BY <1>0 DEF IInv, CodecInv
    <2>3. Stepped(dec[e]) = At(handshake, d, Len(got[e]) + 1)
        BY <1>0, <2>2, AtSteps
    <2> QED
        BY <1>4, <2>1, <2>3
<1>6. /\ Tail(t) \in Seq(Unit) /\ Len(Tail(t)) = Len(t) - 1
      /\ Append(got[e], p) \in Seq(Packets) /\ Len(Append(got[e], p)) = Len(got[e]) + 1
    BY <1>0, <1>3
<1> HIDE DEF p, Receive
<1>7. TypeInv'
    BY <1>0, <1>5, <1>6 DEF IInv, TypeInv, creation
<1>8. BoundInv'
    BY <1>0, <1>6, SessionAssumption DEF IInv, TypeInv, BoundInv
<1>9. CodecInv'
    <2>1. \A c \in Ends : got'[c] = IF c = e THEN Append(got[e], p) ELSE got[c]
        BY <1>5 DEF IInv, TypeInv
    <2>2. dec = [c \in Ends |-> IF phase[c] = "ready" THEN At(handshake, Peer(c), Len(got[c])) ELSE None]
        BY DEF IInv, CodecInv
    <2>3. phase[e] = "ready"
        BY DEF Receive
    <2>4. dec' = [c \in Ends |-> IF phase[c] = "ready" THEN At(handshake, Peer(c), Len(got'[c])) ELSE None]
        BY <1>5, <1>6, <2>1, <2>2, <2>3
    <2> QED
        BY <1>0, <2>4 DEF IInv, CodecInv, creation
<1>10. LineInv'
    <2>1. Line(handshake, d, 0, transport'[d], buffer'[d], sent'[d], got'[Peer(d)])
        BY <1>0, <1>2, <1>5 DEF IInv, TypeInv
    <2>2. \A c \in Ends \ {d} : /\ transport'[c] = transport[c]
                                /\ buffer'[c] = buffer[c]
                                /\ sent'[c] = sent[c]
                                /\ got'[Peer(c)] = got[Peer(c)]
        BY <1>0, <1>5 DEF IInv, TypeInv, Ends, Peer
    <2> QED
        BY <1>0, <1>1, <2>1, <2>2, OneLine DEF IInv
<1>11. CreateInv'
    BY <1>0, <1>5, CreationStays DEF IInv, TypeInv, Receive
<1>12. ErrorsComeFromTheTransport'
    BY <1>0, <1>5 DEF IInv, ErrorsComeFromTheTransport
<1> QED
    BY <1>7, <1>8, <1>9, <1>10, <1>11, <1>12 DEF IInv

\* The connection fails, an end sees it, or nothing happens.
LEMMA ErrorStep ==
    ASSUME IInv, Disconnect \/ (\E e \in Ends : ReceiveError(e)) \/ UNCHANGED vars
    PROVE  IInv'
PROOF
<1>0. /\ UNCHANGED <<creation, buffer, transport, enc, dec, sent, got>>
      /\ up' \in BOOLEAN /\ broken' \subseteq Ends
      /\ broken' # {} => ~up'
    <2>0. up \in BOOLEAN /\ broken \subseteq Ends /\ (broken # {} => ~up)
        BY DEF IInv, TypeInv, ErrorsComeFromTheTransport
    <2>1. CASE Disconnect
        BY <2>0, <2>1 DEF Disconnect
    <2>2. CASE \E e \in Ends : ReceiveError(e)
        BY <2>0, <2>2 DEF ReceiveError
    <2>3. CASE UNCHANGED vars
        BY <2>0, <2>3 DEF vars, creation
    <2> QED
        BY <2>1, <2>2, <2>3
<1>1. TypeInv'
    BY <1>0 DEF IInv, TypeInv, creation
<1>2. BoundInv'
    BY <1>0 DEF IInv, BoundInv
<1>3. CodecInv'
    BY <1>0 DEF IInv, CodecInv, creation
<1>4. LineInv'
    BY <1>0 DEF IInv, LineInv, Unread, creation
<1>5. CreateInv'
    BY <1>0, CreationStays DEF IInv
<1>6. ErrorsComeFromTheTransport'
    BY <1>0 DEF ErrorsComeFromTheTransport
<1> QED
    BY <1>1, <1>2, <1>3, <1>4, <1>5, <1>6 DEF IInv

LEMMA Inductive == IInv /\ [Next]_vars => IInv'
PROOF
<1> SUFFICES ASSUME IInv, [Next]_vars PROVE IInv'
    OBVIOUS
<1>1. CASE Creation
    BY <1>1, WriteHandshakeStep, ServerReadyStep, ReadStep, LengthDecodedStep, ClientReadyStep,
       CreationFailsStep DEF Creation
<1>2. CASE Use
    <2>1. PICK e \in Ends : (\E p \in Packets : Send(e, p)) \/ Flush(e) \/ Receive(e) \/ ReceiveError(e)
        BY <1>2 DEF Use
    <2> QED
        BY <2>1, SendStep, FlushStep, ReceiveStep, ErrorStep
<1>3. CASE Disconnect \/ UNCHANGED vars
    BY <1>3, ErrorStep
<1> QED
    BY <1>1, <1>2, <1>3 DEF Next

\* The inductive invariant of the session.
THEOREM Invariance == Spec => []IInv
PROOF
<1>1. Init => IInv
    BY Initially
<1>2. IInv /\ [Next]_vars => IInv'
    BY Inductive
<1> QED
    BY <1>1, <1>2, PTL DEF Spec

-----------------------------------------------------------------------------
(* What holds of a session *)

\* The units behind the first n.
LEMMA Rest ==
    ASSUME NEW S, NEW t \in Seq(S), NEW n \in 0 .. Len(t)
    PROVE  LET f == SubSeq(t, n + 1, Len(t))
           IN  f \in Seq(S) /\ Len(f) = Len(t) - n /\ \A i \in 1 .. Len(f) : f[i] = t[i + n]
    OBVIOUS

LEMMA Joined ==
    ASSUME NEW S, NEW f \in Seq(S), NEW b \in Seq(S)
    PROVE  /\ f \o b \in Seq(S) /\ Len(f \o b) = Len(f) + Len(b)
           /\ \A i \in 1 .. Len(f) : (f \o b)[i] = f[i]
           /\ \A i \in 1 .. Len(b) : (f \o b)[Len(f) + i] = b[i]
    OBVIOUS

\* The units behind the first n of a transport, then those of a buffer.
Behind(n, t, b) == SubSeq(t, n + 1, Len(t)) \o b

\* fs is a frame for each packet of s behind those in g.
FramesOf(h, e, s, g, fs) ==
    /\ fs \in Seq(Unit)
    /\ Len(s) = Len(g) + Len(fs)
    /\ \A i \in 1 .. Len(fs) : fs[i] = Nth(h, e, s, Len(g) + i)

\* The frames of a line are those of the packets not yet received.
LEMMA LineFrames ==
    ASSUME NEW h, NEW e, NEW n \in Nat, NEW t \in Seq(Unit), NEW b \in Seq(Unit),
           NEW s \in Seq(Packets), NEW g \in Seq(Packets), Line(h, e, n, t, b, s, g)
    PROVE  FramesOf(h, e, s, g, Behind(n, t, b))
PROOF
<1> DEFINE f == SubSeq(t, n + 1, Len(t))
           fs == Behind(n, t, b)
<1>0. fs = f \o b
    BY DEF Behind
<1> HIDE DEF fs
<1>1. n \in 0 .. Len(t)
    BY DEF Line
<1>2. f \in Seq(Unit) /\ Len(f) = Len(t) - n /\ \A i \in 1 .. Len(f) : f[i] = t[i + n]
    BY <1>1, Rest
<1> HIDE DEF f
<1>3. /\ fs \in Seq(Unit) /\ Len(fs) = Len(f) + Len(b)
      /\ \A i \in 1 .. Len(f) : fs[i] = f[i]
      /\ \A i \in 1 .. Len(b) : fs[Len(f) + i] = b[i]
    <2>1. f \in Seq(Unit)
        BY <1>2
    <2>2. /\ f \o b \in Seq(Unit) /\ Len(f \o b) = Len(f) + Len(b)
          /\ \A i \in 1 .. Len(f) : (f \o b)[i] = f[i]
          /\ \A i \in 1 .. Len(b) : (f \o b)[Len(f) + i] = b[i]
        BY <2>1
    <2> QED
        BY <1>0, <2>2, Zenon
<1>a. /\ Len(f) \in Nat /\ Len(t) \in Nat /\ Len(g) \in Nat /\ Len(b) \in Nat
      /\ Len(f) = Len(t) - n /\ Len(fs) = Len(f) + Len(b)
    BY <1>2, <1>3
<1>4. Len(s) = Len(g) + Len(fs)
    BY <1>a DEF Line
<1>5. \A i \in 1 .. Len(fs) : fs[i] = Nth(h, e, s, Len(g) + i)
    <2> TAKE i \in 1 .. Len(fs)
    <2>1. CASE i <= Len(f)
        <3>1. i \in 1 .. Len(f) /\ i + n \in n + 1 .. Len(t) /\ Len(g) + (i + n) - n = Len(g) + i
            BY <1>1, <1>2, <2>1
        <3>2. fs[i] = t[i + n]
            BY <1>2, <1>3, <3>1
        <3>3. t[i + n] = Nth(h, e, s, Len(g) + (i + n) - n)
            BY <3>1 DEF Line
        <3> QED
            BY <3>1, <3>2, <3>3
    <2>2. CASE i > Len(f)
        <3>1. PICK j \in 1 .. Len(b) : Len(f) + j = i
            <4>1. i - Len(f) \in 1 .. Len(b) /\ Len(f) + (i - Len(f)) = i
                BY <1>2, <1>3, <2>2
            <4> QED
                BY <4>1
        <3>2. Len(g) + Len(t) - n + j = Len(g) + i
            <4>1. /\ Len(f) \in Nat /\ Len(t) \in Nat /\ Len(g) \in Nat
                  /\ i = (Len(t) - n) + j
                BY <1>2, <3>1
            <4> QED
                BY <4>1
        <3>3. fs[i] = b[j]
            BY <1>3, <3>1
        <3>4. b[j] = Nth(h, e, s, Len(g) + Len(t) - n + j)
            BY DEF Line
        <3> QED
            BY <3>2, <3>3, <3>4
    <2> QED
        BY <1>a, <2>1, <2>2
<1> QED
    BY <1>3, <1>4, <1>5 DEF FramesOf, fs

\* The handshake is in front of the first frame.
LEMMA AheadIs ==
    ASSUME IInv, NEW e \in Ends, NEW n \in Nat, EndLine(e, n)
    PROVE  Ahead(e) = n
PROOF
<1> DEFINE t == transport[e]
           IsAhead(m) == /\ \A i \in 1 .. m : ~IsFrame(t[i])
                         /\ m < Len(t) => IsFrame(t[m + 1])
<1>1. n \in 0 .. Len(t) /\ Len(t) \in Nat
    BY DEF EndLine, Line, IInv, TypeInv
<1>2. \A i \in 1 .. n : ~IsFrame(t[i])
    BY DEF EndLine, Line, IsFrame, HandshakeByte
<1>3. n < Len(t) => IsFrame(t[n + 1])
    <2> SUFFICES ASSUME n < Len(t) PROVE IsFrame(t[n + 1])
        OBVIOUS
    <2>1. n + 1 \in n + 1 .. Len(t)
        BY <1>1
    <2>2. t[n + 1] = Nth(handshake, e, sent[e], Len(got[Peer(e)]) + (n + 1) - n)
        BY <2>1 DEF EndLine, Line
    <2> QED
        BY <2>2 DEF Nth, Frame, IsFrame
<1> HIDE DEF t
<1>4. ASSUME NEW m \in 0 .. Len(t), IsAhead(m) PROVE m = n
    <2>1. CASE m < n
        <3>1. m + 1 \in 1 .. n /\ m < Len(t)
            BY <1>1, <2>1
        <3> QED
            BY <1>2, <1>4, <3>1
    <2>2. CASE n < m
        <3>1. n + 1 \in 1 .. m /\ n < Len(t)
            BY <1>1, <2>2
        <3> QED
            BY <1>3, <1>4, <3>1
    <2> QED
        BY <1>1, <2>1, <2>2
<1>5. Ahead(e) = CHOOSE m \in 0 .. Len(t) : IsAhead(m)
    BY DEF Ahead, t
<1>6. IsAhead(n)
    BY <1>2, <1>3
<1> HIDE DEF IsAhead
<1> QED
    BY <1>1, <1>4, <1>5, <1>6

LEMMA FramesUnderWay ==
    ASSUME IInv, NEW e \in Ends
    PROVE  /\ sent[e] \in Seq(Packets)
           /\ got[Peer(e)] \in Seq(Packets)
           /\ FramesFrom(e) \in Seq(Unit)
           /\ Len(sent[e]) = Len(got[Peer(e)]) + Len(FramesFrom(e))
           /\ \A i \in 1 .. Len(FramesFrom(e)) :
                FramesFrom(e)[i] = Nth(handshake, e, sent[e], Len(got[Peer(e)]) + i)
           /\ \A i \in 1 .. Len(got[Peer(e)]) : got[Peer(e)][i] = sent[e][i]
PROOF
<1> DEFINE h == handshake
           t == transport[e]
           b == buffer[e]
           s == sent[e]
           g == got[Peer(e)]
           fs == FramesFrom(e)
<1>1. t \in Seq(Unit) /\ b \in Seq(Unit) /\ s \in Seq(Packets) /\ g \in Seq(Packets)
    BY DEF IInv, TypeInv, Ends, Peer
<1>2. PICK n \in Nat : EndLine(e, n)
    BY LineOf DEF IInv
<1>3. fs = Behind(n, t, b)
    BY <1>2, AheadIs DEF FramesFrom, Behind
<1>4. Line(h, e, n, t, b, s, g)
    BY <1>2 DEF EndLine
<1>5. \A i \in 1 .. Len(g) : g[i] = s[i]
    BY <1>4 DEF Line
<1> HIDE DEF h, t, b, s, g, fs
<1>6. FramesOf(h, e, s, g, Behind(n, t, b))
    BY <1>1, <1>4, LineFrames
<1> QED
    BY <1>1, <1>3, <1>5, <1>6 DEF FramesOf, h, t, b, s, g, fs

LEMMA Whole ==
    ASSUME NEW s \in Seq(Packets), NEW g \in Seq(Packets), NEW ps \in Seq(Packets),
           Len(s) = Len(g) + Len(ps),
           \A i \in 1 .. Len(g) : g[i] = s[i],
           \A i \in 1 .. Len(ps) : ps[i] = s[Len(g) + i]
    PROVE  s = g \o ps
PROOF
<1> DEFINE c == g \o ps
<1>1. /\ c \in Seq(Packets) /\ Len(c) = Len(g) + Len(ps)
      /\ \A i \in 1 .. Len(g) : c[i] = g[i]
      /\ \A i \in 1 .. Len(ps) : c[Len(g) + i] = ps[i]
    BY Joined
<1> HIDE DEF c
<1>2. \A i \in 1 .. Len(s) : c[i] = s[i]
    <2> TAKE i \in 1 .. Len(s)
    <2>1. CASE i <= Len(g)
        BY <1>1, <2>1
    <2>2. CASE i > Len(g)
        <3>1. PICK j \in 1 .. Len(ps) : Len(g) + j = i
            <4>1. i - Len(g) \in 1 .. Len(ps) /\ Len(g) + (i - Len(g)) = i
                BY <2>2
            <4> QED
                BY <4>1
        <3> QED
            BY <1>1, <3>1
    <2> QED
        BY <2>1, <2>2
<1>3. s = c
    BY <1>1, <1>2
<1> QED
    BY <1>3 DEF c

\* Reading the handshake takes no byte of a frame, whatever the transport delivers
\* at once: the packets received and those under way are the packets sent.
THEOREM NoFrameLost == Spec => []NothingLost
PROOF
<1>1. IInv => NothingLost
    <2> SUFFICES ASSUME IInv, NEW e \in Ends
                 PROVE  sent[e] = got[Peer(e)] \o
                            [i \in 1 .. Len(FramesFrom(e)) |-> FramesFrom(e)[i].pkt]
        BY DEF NothingLost
    <2> DEFINE fs == FramesFrom(e)
               g  == got[Peer(e)]
               s  == sent[e]
               ps == [i \in 1 .. Len(fs) |-> fs[i].pkt]
    <2>1. /\ s \in Seq(Packets) /\ g \in Seq(Packets) /\ fs \in Seq(Unit)
          /\ Len(s) = Len(g) + Len(fs)
          /\ \A i \in 1 .. Len(g) : g[i] = s[i]
          /\ \A i \in 1 .. Len(fs) : fs[i] = Nth(handshake, e, s, Len(g) + i)
        BY FramesUnderWay
    <2> HIDE DEF fs, g, s
    <2>2. \A i \in 1 .. Len(fs) : ps[i] = s[Len(g) + i] /\ Len(g) + i \in 1 .. Len(s)
        <3> TAKE i \in 1 .. Len(fs)
        <3>1. fs[i] = Nth(handshake, e, s, Len(g) + i)
            BY <2>1
        <3>2. fs[i].pkt = s[Len(g) + i]
            BY <3>1 DEF Nth, Frame
        <3>3. Len(g) \in Nat /\ Len(fs) \in Nat /\ Len(s) = Len(g) + Len(fs)
            BY <2>1
        <3> QED
            BY <3>2, <3>3
    <2>3. \A i \in 1 .. Len(fs) : ps[i] \in Packets
        BY <2>1, <2>2
    <2>4. ps \in Seq(Packets) /\ Len(ps) = Len(fs)
        BY <2>1, <2>3
    <2> HIDE DEF ps
    <2>5. s = g \o ps
        <3>1. \A i \in 1 .. Len(ps) : ps[i] = s[Len(g) + i]
            BY <2>2, <2>4
        <3>2. Len(s) = Len(g) + Len(ps) /\ \A i \in 1 .. Len(g) : g[i] = s[i]
            BY <2>1, <2>4
        <3>3. s \in Seq(Packets) /\ g \in Seq(Packets) /\ ps \in Seq(Packets)
            BY <2>1, <2>4
        <3> QED
            BY <3>1, <3>2, <3>3, Whole
    <2> QED
        BY <2>5 DEF ps, fs, g, s
<1> QED
    BY <1>1, Invariance, PTL

\* Once both ends are ready each decoder has the key and the version of the next
\* frame, for any handshake and whatever version the client was built for.
THEOREM Mirrored == Spec => []CodecsMirror
PROOF
<1>1. IInv => CodecsMirror
    <2> SUFFICES ASSUME IInv, NEW e \in Ends, phase[e] = "ready", phase[Peer(e)] = "ready"
                 PROVE  dec[Peer(e)] = IF FramesFrom(e) = << >> THEN enc[e]
                                       ELSE Head(FramesFrom(e)).cipher
        BY DEF CodecsMirror
    <2> DEFINE fs == FramesFrom(e)
               g  == Len(got[Peer(e)])
               n  == Len(sent[e])
    <2>1. /\ fs \in Seq(Unit) /\ g \in Nat /\ n = g + Len(fs)
          /\ \A i \in 1 .. Len(fs) : fs[i] = Nth(handshake, e, sent[e], g + i)
        BY FramesUnderWay
    <2>2. dec[Peer(e)] = At(handshake, e, g) /\ enc[e] = At(handshake, e, n)
        BY DEF IInv, CodecInv, Ends, Peer
    <2> HIDE DEF fs, g, n
    <2>3. CASE fs = << >>
        <3>1. n = g
            BY <2>1, <2>3
        <3> QED
            BY <2>2, <2>3, <3>1 DEF fs
    <2>4. CASE fs # << >>
        <3>1. Head(fs) = fs[1] /\ 1 \in 1 .. Len(fs) /\ (g + 1) - 1 = g
            BY <2>1, <2>4
        <3>2. Head(fs).cipher = At(handshake, e, g)
            <4>1. Head(fs) = Nth(handshake, e, sent[e], g + 1)
                BY <2>1, <3>1
            <4>2. Nth(handshake, e, sent[e], g + 1).cipher = At(handshake, e, (g + 1) - 1)
                BY DEF Nth, Frame
            <4> QED
                BY <3>1, <4>1, <4>2
        <3> QED
            BY <2>2, <2>4, <3>2 DEF fs
    <2> QED
        BY <2>3, <2>4
<1> QED
    BY <1>1, Invariance, PTL

\* No unit that a conforming peer writes is refused: errors come from the transport.
THEOREM NoUnitRefused == Spec => []ErrorsComeFromTheTransport
PROOF
<1>1. IInv => ErrorsComeFromTheTransport
    BY DEF IInv
<1> QED
    BY <1>1, Invariance, PTL

\* A client is ready only behind the last byte of a whole handshake.
THEOREM WholeHandshake == Spec => []ReadyMeansWholeHandshake
PROOF
<1>1. IInv => ReadyMeansWholeHandshake
    <2> SUFFICES ASSUME IInv, phase["client"] = "ready"
                 PROVE  /\ handshake.shape.ln <= MaxHandshakeLen
                        /\ handshake.shape.need = handshake.shape.ln
                        /\ \A i \in DOMAIN transport["server"] : IsFrame(transport["server"][i])
        BY DEF ReadyMeansWholeHandshake
    <2>1. PICK n \in Nat : Bytes("server", n) /\ EndLine("server", n)
        BY LineOf DEF IInv, Ends
    <2>2. n = written - LenBytes - have /\ have = handshake.shape.ln
        BY <2>1 DEF IInv, CreateInv, Bytes, Unread
    <2>3. written <= LenBytes + have /\ written \in Nat /\ have \in Nat /\ LenBytes \in Nat
        BY <2>2, HandshakeType DEF IInv, TypeInv, CreateInv
    <2>4. n = 0
        BY <2>2, <2>3
    <2>5. DOMAIN transport["server"] = 1 .. Len(transport["server"])
        BY DEF IInv, TypeInv, Ends
    <2>6. \A i \in DOMAIN transport["server"] : IsFrame(transport["server"][i])
        <3> TAKE i \in DOMAIN transport["server"]
        <3>1. i \in 0 + 1 .. Len(transport["server"])
            BY <2>5
        <3>2. transport["server"][i] =
                Nth(handshake, "server", sent["server"], Len(got[Peer("server")]) + i - 0)
            BY <2>1, <2>4, <3>1 DEF EndLine, Line
        <3> QED
            BY <3>2 DEF Nth, Frame, IsFrame
    <2> QED
        BY <2>6 DEF IInv, CreateInv, BodyDecodes
<1> QED
    BY <1>1, Invariance, PTL

-----------------------------------------------------------------------------
(* The echo session *)

\* What is next in a sequence that is longer than n.
LEMMA NextIsElement ==
    ASSUME NEW S, NEW q \in Seq(S), NEW n \in Nat, Len(q) - n > 0
    PROVE  q[n + 1] \in S /\ n + 1 <= Len(q)
PROOF
<1>1. Len(q) \in Nat
    OBVIOUS
<1>2. n + 1 \in 1 .. Len(q)
    BY <1>1
<1> QED
    BY <1>1, <1>2

\* Every step of the two programs is one of the session.
LEMMA EchoStep == IInv /\ [EchoNext]_vars => [Next]_vars
PROOF
<1> SUFFICES ASSUME IInv, EchoNext PROVE Next
    OBVIOUS
<1>1. CASE Creation
    BY <1>1 DEF Next
<1>2. CASE ClientSends
    BY <1>2 DEF ClientSends, Next, Use, Ends
<1>3. CASE ServerEchoes
    <2>1. /\ sent["server"] \in Seq(Packets) /\ got["server"] \in Seq(Packets)
          /\ Len(got["server"]) - Len(sent["server"]) > 0
        BY <1>3 DEF ServerEchoes, Unanswered, IInv, TypeInv, Ends
    <2>2. Len(sent["server"]) \in Nat
        BY <2>1
    <2>3. got["server"][Len(sent["server"]) + 1] \in Packets
        BY <2>1, <2>2, NextIsElement
    <2> QED
        BY <1>3, <2>3 DEF ServerEchoes, Next, Use, Ends
<1>4. CASE ClientReceives \/ ServerReceives
    BY <1>4 DEF ClientReceives, ServerReceives, Next, Use, Ends
<1>5. CASE Flush("client") \/ Flush("server")
    BY <1>5 DEF Next, Use, Ends
<1> QED
    BY <1>1, <1>2, <1>3, <1>4, <1>5 DEF EchoNext, Client, Server

\* The remainder of one more.
LEMMA NextRemainder ==
    ASSUME NEW w \in Nat \ {0}, NEW a \in Nat
    PROVE  /\ a % w \in 0 .. w - 1
           /\ (a + 1) % w = IF a % w = w - 1 THEN 0 ELSE (a % w) + 1
PROOF
<1> DEFINE q == a \div w
           r == a % w
           p == (a + 1) \div w
           s == (a + 1) % w
<1>1. a = w * q + r /\ r \in 0 .. w - 1 /\ q \in Int
    OBVIOUS
<1>2. a + 1 = w * p + s /\ s \in 0 .. w - 1 /\ p \in Int
    OBVIOUS
<1> DEFINE d == p - q
<1>3. w * d = r + 1 - s /\ d \in Int
    <2> HIDE DEF p, q, r, s
    <2>1. w * p = a + 1 - s /\ w * q = a - r
        BY <1>1, <1>2
    <2>2. w * (p - q) = w * p - w * q
        BY <1>1, <1>2
    <2> QED
        BY <1>1, <1>2, <2>1, <2>2
<1> HIDE DEF p, q, r, s, d
<1>4. ASSUME d >= 2 PROVE FALSE
    <2>1. w * d >= w * 2
        BY <1>3, <1>4
    <2> QED
        BY <1>1, <1>2, <1>3, <2>1
<1>5. ASSUME d <= -1 PROVE FALSE
    <2>1. w * d <= w * (-1)
        BY <1>3, <1>5
    <2> QED
        BY <1>1, <1>2, <1>3, <2>1
<1>6. d = 0 \/ d = 1
    BY <1>3, <1>4, <1>5
<1>7. CASE d = 0
    <2>1. s = r + 1
        BY <1>1, <1>2, <1>3, <1>7
    <2>2. r # w - 1
        BY <1>1, <1>2, <2>1
    <2> QED
        BY <1>1, <2>1, <2>2 DEF r, s
<1>8. CASE d = 1
    <2>1. s = r + 1 - w
        BY <1>1, <1>2, <1>3, <1>8
    <2>2. r = w - 1 /\ s = 0
        BY <1>1, <1>2, <2>1
    <2> QED
        BY <1>1, <2>2 DEF r, s
<1> QED
    BY <1>6, <1>7, <1>8

\* The server's packets are the first of those it received.  The client has a
\* whole number of windows answered and sends the next, or it has sent the window
\* to its end and receives.
Echoed ==
    /\ Len(sent["server"]) <= Len(got["server"])
    /\ \A i \in 1 .. Len(sent["server"]) : sent["server"][i] = got["server"][i]
InWindow ==
    LET r == Len(got["client"]) % Window
    IN  IF r = 0 THEN Outstanding <= Window ELSE Outstanding = Window - r
EchoInv == IInv /\ Echoed /\ InWindow

\* Packets at one end do not touch what is counted at the other.
LEMMA StreamTypes ==
    ASSUME IInv
    PROVE  \A e \in Ends : /\ sent[e] \in Seq(Packets) /\ got[e] \in Seq(Packets)
                           /\ Len(sent[e]) \in Nat /\ Len(got[e]) \in Nat
    BY DEF IInv, TypeInv

LEMMA EchoSends ==
    ASSUME EchoInv, ClientSends \/ ServerEchoes
    PROVE  Echoed' /\ InWindow'
PROOF
<1>1. /\ sent["server"] \in Seq(Packets) /\ got["server"] \in Seq(Packets)
      /\ sent["client"] \in Seq(Packets) /\ got["client"] \in Seq(Packets)
      /\ sent \in [Ends -> Seq(Packets)] /\ Window \in Nat
      /\ Len(sent["server"]) \in Nat /\ Len(got["server"]) \in Nat
      /\ Len(sent["client"]) \in Nat /\ Len(got["client"]) \in Nat
    BY StreamTypes, WindowAssumption DEF EchoInv, IInv, TypeInv, Ends
<1>2. CASE ClientSends
    <2>1. PICK p \in Packets : /\ sent' = [sent EXCEPT !["client"] = Append(@, p)]
                               /\ got' = got
        BY <1>2 DEF ClientSends, Send
    <2>2. sent'["server"] = sent["server"] /\ sent'["client"] = Append(sent["client"], p)
        BY <1>1, <2>1 DEF Ends
    <2>3. Len(sent'["client"]) = Len(sent["client"]) + 1
        BY <1>1, <2>2
    <2>4. Len(got["client"]) % Window = 0 /\ Len(sent["client"]) - Len(got["client"]) < Window
        BY <1>2 DEF ClientSends, Asking, Outstanding
    <2>5. InWindow'
        <3>1. Len(sent'["client"]) - Len(got'["client"]) <= Window
            <4> DEFINE x == Len(sent["client"])
                       y == Len(got["client"])
            <4>1. x \in Nat /\ y \in Nat /\ x - y < Window
                BY <1>1, <2>4
            <4>2. Len(sent'["client"]) = x + 1 /\ Len(got'["client"]) = y
                BY <2>1, <2>3
            <4> HIDE DEF x, y
            <4> QED
                BY <1>1, <4>1, <4>2
        <3> QED
            BY <2>1, <2>4, <3>1 DEF InWindow, Outstanding
    <2> QED
        BY <2>1, <2>2, <2>5 DEF EchoInv, Echoed
<1>3. CASE ServerEchoes
    <2> DEFINE s == sent["server"]
               p == got["server"][Len(s) + 1]
    <2>1. /\ sent' = [sent EXCEPT !["server"] = Append(@, p)] /\ got' = got
          /\ Len(got["server"]) - Len(s) > 0
        BY <1>3 DEF ServerEchoes, Send, Unanswered
    <2>2. sent'["server"] = Append(s, p) /\ sent'["client"] = sent["client"]
        BY <1>1, <2>1 DEF Ends
    <2>3. p \in Packets /\ Len(s) + 1 <= Len(got["server"])
        BY <1>1, <2>1, NextIsElement
    <2>4. /\ Len(Append(s, p)) = Len(s) + 1 /\ Append(s, p)[Len(s) + 1] = p
          /\ \A i \in 1 .. Len(s) : Append(s, p)[i] = s[i]
        <3> HIDE DEF p
        <3> QED
            BY <1>1, <2>3
    <2>5. Echoed'
        <3>2. \A i \in 1 .. Len(s) + 1 : Append(s, p)[i] = got["server"][i]
            <4> TAKE i \in 1 .. Len(s) + 1
            <4>1. CASE i = Len(s) + 1
                BY <2>4, <4>1
            <4>2. CASE i # Len(s) + 1
                <5>1. i \in 1 .. Len(s)
                    BY <1>1, <4>2
                <5> QED
                    BY <2>4, <5>1 DEF EchoInv, Echoed
            <4> QED
                BY <4>1, <4>2
        <3> QED
            BY <2>1, <2>2, <2>3, <2>4, <3>2 DEF Echoed
    <2> QED
        BY <2>1, <2>2, <2>5 DEF EchoInv, InWindow, Outstanding
<1> QED
    BY <1>2, <1>3

LEMMA EchoReceives ==
    ASSUME EchoInv, ClientReceives \/ ServerReceives
    PROVE  Echoed' /\ InWindow'
PROOF
<1>1. /\ sent["server"] \in Seq(Packets) /\ got["server"] \in Seq(Packets)
      /\ sent["client"] \in Seq(Packets) /\ got["client"] \in Seq(Packets)
      /\ got \in [Ends -> Seq(Packets)] /\ Window \in Nat \ {0}
      /\ Len(sent["server"]) \in Nat /\ Len(got["server"]) \in Nat
      /\ Len(sent["client"]) \in Nat /\ Len(got["client"]) \in Nat
    BY StreamTypes, WindowAssumption DEF EchoInv, IInv, TypeInv, Ends
<1>2. CASE got' = got /\ sent' = sent
    BY <1>2 DEF EchoInv, Echoed, InWindow, Outstanding
<1>3. CASE ClientReceives /\ got' # got
    <2>1. PICK p : got' = [got EXCEPT !["client"] = Append(@, p)] /\ sent' = sent
        BY <1>3 DEF ClientReceives, Receive
    <2>2. got'["server"] = got["server"] /\ got'["client"] = Append(got["client"], p)
        BY <1>1, <2>1 DEF Ends
    <2>3. Len(got'["client"]) = Len(got["client"]) + 1
        BY <1>1, <2>2
    <2> DEFINE a == Len(got["client"])
               r == a % Window
               o == Outstanding
    <2>4. a \in Nat /\ o \in Int /\ Outstanding' = o - 1
        <3> DEFINE x == Len(sent["client"])
        <3>1. x \in Nat /\ a \in Nat /\ o = x - a
            BY <1>1 DEF Outstanding
        <3>2. Outstanding' = x - (a + 1)
            BY <2>1, <2>3 DEF Outstanding
        <3> HIDE DEF x, a, o
        <3> QED
            BY <3>1, <3>2
    <2>5. IF r = 0 THEN o <= Window ELSE o = Window - r
        BY DEF EchoInv, InWindow
    <2>6. ~(r = 0 /\ o < Window)
        BY <1>3 DEF ClientReceives, Asking
    <2>7. /\ r \in 0 .. Window - 1
          /\ (a + 1) % Window = IF r = Window - 1 THEN 0 ELSE r + 1
        <3> HIDE DEF a
        <3> QED
            BY <1>1, <2>4, NextRemainder
    <2>8. Len(got'["client"]) % Window = IF r = Window - 1 THEN 0 ELSE r + 1
        BY <2>3, <2>7
    <2> HIDE DEF a, r, o
    <2>9. o = Window - r
        BY <1>1, <2>4, <2>5, <2>6, <2>7
    <2> DEFINE t == Len(got'["client"]) % Window
    <2>10. IF t = 0 THEN o - 1 <= Window ELSE o - 1 = Window - t
        <3>1. t = IF r = Window - 1 THEN 0 ELSE r + 1
            BY <2>8
        <3> HIDE DEF t
        <3> QED
            BY <1>1, <2>4, <2>7, <2>9, <3>1
    <2>11. InWindow'
        BY <2>4, <2>10 DEF InWindow
    <2> QED
        BY <2>1, <2>2, <2>11 DEF EchoInv, Echoed
<1>4. CASE ServerReceives /\ got' # got
    <2>1. PICK p : got' = [got EXCEPT !["server"] = Append(@, p)] /\ sent' = sent
        BY <1>4 DEF ServerReceives, Receive
    <2>2. got'["client"] = got["client"] /\ got'["server"] = Append(got["server"], p)
        BY <1>1, <2>1 DEF Ends
    <2>3. /\ Len(got'["server"]) = Len(got["server"]) + 1 /\ Len(got["server"]) \in Nat
          /\ \A i \in 1 .. Len(got["server"]) : got'["server"][i] = got["server"][i]
        BY <1>1, <2>2
    <2>4. \A i \in 1 .. Len(sent["server"]) : i \in 1 .. Len(got["server"])
        BY <1>1, <2>3 DEF EchoInv, Echoed
    <2>5. Len(sent["server"]) <= Len(got'["server"])
        BY <1>1, <2>3 DEF EchoInv, Echoed
    <2>6. Echoed'
        BY <2>1, <2>3, <2>4, <2>5 DEF EchoInv, Echoed
    <2> QED
        BY <2>1, <2>2, <2>6 DEF EchoInv, InWindow, Outstanding
<1>5. sent' = sent
    BY DEF ClientReceives, ServerReceives, Receive
<1> QED
    BY <1>2, <1>3, <1>4, <1>5

LEMMA EchoInductive == EchoInv /\ [EchoNext]_vars => EchoInv'
PROOF
<1> SUFFICES ASSUME EchoInv, [EchoNext]_vars PROVE EchoInv'
    OBVIOUS
<1>1. IInv'
    BY EchoStep, Inductive DEF EchoInv
<1>2. CASE ClientSends \/ ServerEchoes
    BY <1>1, <1>2, EchoSends DEF EchoInv
<1>3. CASE ClientReceives \/ ServerReceives
    BY <1>1, <1>3, EchoReceives DEF EchoInv
<1>4. CASE Creation \/ Flush("client") \/ Flush("server") \/ UNCHANGED vars
    <2>1. sent' = sent /\ got' = got
        BY <1>4 DEF Creation, WriteHandshake, ServerReady, ReadLength, LengthDecoded, ReadBody,
                    ClientReady, ClientInvalid, CreationFails, streams, Flush, vars
    <2> QED
        BY <1>1, <2>1 DEF EchoInv, Echoed, InWindow, Outstanding
<1> QED
    BY <1>2, <1>3, <1>4 DEF EchoNext, Client, Server

LEMMA EchoInitially == Init => EchoInv
PROOF
<1> SUFFICES ASSUME Init PROVE EchoInv
    OBVIOUS
<1>1. /\ sent["server"] = << >> /\ got["server"] = << >>
      /\ sent["client"] = << >> /\ got["client"] = << >>
    BY DEF Init, Ends
<1>2. Outstanding = 0 /\ Len(got["client"]) = 0
    BY <1>1 DEF Outstanding
<1>3. Window \in Nat \ {0} /\ 0 % Window = 0
    BY WindowAssumption
<1>4. InWindow
    BY <1>2, <1>3 DEF InWindow
<1>5. Echoed
    BY <1>1 DEF Echoed
<1> QED
    BY <1>4, <1>5, Initially DEF EchoInv

\* The inductive invariant of the echo session.
THEOREM EchoInvariance == EchoSpec => []EchoInv
PROOF
<1>1. Init => EchoInv
    BY EchoInitially
<1>2. EchoInv /\ [EchoNext]_vars => EchoInv'
    BY EchoInductive
<1> QED
    BY <1>1, <1>2, PTL DEF EchoSpec

\* The programs of the echo tests use the streams as a session allows: every run of
\* them is one of LegacySession (stream.rs).
THEOREM EchoIsASession == EchoSpec => Spec
PROOF
<1>1. EchoInv /\ [EchoNext]_vars => [Next]_vars
    BY EchoStep DEF EchoInv
<1> QED
    BY <1>1, EchoInvariance, PTL DEF EchoSpec, Spec

\* What is counted on the way from end e: the packets it sent are received, in the
\* transport behind the handshake, or in its buffer.
LEMMA OnTheWay ==
    ASSUME IInv, NEW e \in Ends
    PROVE  /\ \A i \in 1 .. Len(got[Peer(e)]) : got[Peer(e)][i] = sent[e][i]
           /\ Len(got[Peer(e)]) <= Len(sent[e])
           /\ phase["client"] = "ready" =>
                Len(sent[e]) = Len(got[Peer(e)]) + Len(transport[e]) + Len(buffer[e])
PROOF
<1>1. PICK n \in Nat : Bytes(e, n) /\ EndLine(e, n)
    BY LineOf DEF IInv
<1>2. /\ Len(transport[e]) \in Nat /\ Len(buffer[e]) \in Nat
      /\ Len(sent[e]) \in Nat /\ Len(got[Peer(e)]) \in Nat
    BY DEF IInv, TypeInv, Ends, Peer
<1>3. /\ Len(sent[e]) = Len(got[Peer(e)]) + Len(transport[e]) - n + Len(buffer[e])
      /\ n <= Len(transport[e])
      /\ \A i \in 1 .. Len(got[Peer(e)]) : got[Peer(e)][i] = sent[e][i]
    BY <1>1 DEF EndLine, Line
<1>4. ASSUME phase["client"] = "ready" PROVE n = 0
    <2>1. CASE e = "client"
        BY <1>1, <2>1 DEF Bytes
    <2>2. CASE e # "client"
        <3>1. n = written - LenBytes - have /\ have = handshake.shape.ln
            BY <1>1, <1>4, <2>2 DEF Bytes, Unread, IInv, CreateInv
        <3>2. written <= LenBytes + have /\ written \in Nat /\ have \in Nat /\ LenBytes \in Nat
            BY <3>1, HandshakeType DEF IInv, TypeInv, CreateInv
        <3> QED
            BY <3>1, <3>2
    <2> QED
        BY <2>1, <2>2
<1>5. Len(got[Peer(e)]) <= Len(sent[e])
    <2> DEFINE s == Len(sent[e])
               g == Len(got[Peer(e)])
               t == Len(transport[e])
               b == Len(buffer[e])
    <2>1. /\ s \in Nat /\ g \in Nat /\ t \in Nat /\ b \in Nat
          /\ s = g + t - n + b /\ n <= t
        BY <1>2, <1>3
    <2> HIDE DEF s, g, t, b
    <2>2. g <= s
        BY <2>1
    <2> QED
        BY <2>2 DEF s, g
<1>6. phase["client"] = "ready" =>
            Len(sent[e]) = Len(got[Peer(e)]) + Len(transport[e]) + Len(buffer[e])
    BY <1>2, <1>3, <1>4
<1> QED
    BY <1>3, <1>5, <1>6

\* The client's answers are its packets, in order, and no more than it sent.
AnswersAreRequests ==
    /\ Len(got["client"]) <= Len(sent["client"])
    /\ \A i \in 1 .. Len(got["client"]) : got["client"][i] = sent["client"][i]

\* Whatever the client gets back is the packet it sent at that place, through two
\* ciphers, two transports and the server's program (stream.rs).
THEOREM Answers == EchoSpec => []AnswersAreRequests
PROOF
<1>1. EchoInv => AnswersAreRequests
    <2> SUFFICES ASSUME EchoInv PROVE AnswersAreRequests
        OBVIOUS
    <2> DEFINE a == Len(got["client"])
               b == Len(sent["server"])
               c == Len(got["server"])
               d == Len(sent["client"])
    <2>1. a \in Nat /\ b \in Nat /\ c \in Nat /\ d \in Nat
        BY StreamTypes DEF EchoInv, Ends
    <2>2. a <= b /\ \A i \in 1 .. a : got["client"][i] = sent["server"][i]
        BY OnTheWay DEF EchoInv, Ends, Peer
    <2>3. c <= d /\ \A i \in 1 .. c : got["server"][i] = sent["client"][i]
        BY OnTheWay DEF EchoInv, Ends, Peer
    <2>4. b <= c /\ \A i \in 1 .. b : sent["server"][i] = got["server"][i]
        BY DEF EchoInv, Echoed
    <2> HIDE DEF a, b, c, d
    <2>5. a <= d /\ \A i \in 1 .. a : i \in 1 .. b /\ i \in 1 .. c
        BY <2>1, <2>2, <2>3, <2>4
    <2>6. \A i \in 1 .. a : got["client"][i] = sent["client"][i]
        BY <2>2, <2>3, <2>4, <2>5
    <2> QED
        BY <2>5, <2>6 DEF AnswersAreRequests, a, d
<1> QED
    BY <1>1, EchoInvariance, PTL

\* A step one of the programs can take, by the guards of their actions.
CanMove ==
    \/ \E e \in Ends : buffer[e] # << >> /\ Len(transport[e]) < Capacity
    \/ SendDone("client") /\ Asking /\ Len(sent["client"]) < MaxSend
    \/ SendDone("client") /\ ~Asking /\ Incoming("client") # << >>
    \/ SendDone("server") /\ Unanswered > 0 /\ Len(sent["server"]) < MaxSend
    \/ SendDone("server") /\ Unanswered = 0 /\ Incoming("server") # << >>

\* While the client has something to send or is owed an answer, the two programs do
\* not wait for each other.
NoStandstill ==
    /\ up /\ \A e \in Ends : phase[e] = "ready"
    /\ ~(Asking /\ Len(sent["client"]) = MaxSend)
    => broken = {} /\ CanMove

\* A window of packets that the two transports and one send of each program do not
\* hold leaves no state in which both programs wait for the other to read.  (Of a
\* longer one it need not be so: with a Capacity of 1 and a Window of 4 TLC finds
\* such a state.)  A send waits for the transport, and meanwhile nobody reads
\* (stream.rs).
THEOREM Backpressure == EchoSpec => [](Window <= 2 * Capacity + 1 => NoStandstill)
PROOF
<1>1. EchoInv => (Window <= 2 * Capacity + 1 => NoStandstill)
    <2> SUFFICES ASSUME EchoInv, Window <= 2 * Capacity + 1, up,
                        \A e \in Ends : phase[e] = "ready",
                        ~(Asking /\ Len(sent["client"]) = MaxSend), ~CanMove
                 PROVE  FALSE
        BY DEF NoStandstill, EchoInv, IInv, ErrorsComeFromTheTransport
    <2> DEFINE sc == Len(sent["client"])
               gs == Len(got["server"])
               ss == Len(sent["server"])
               gc == Len(got["client"])
               tc == Len(transport["client"])
               bc == Len(buffer["client"])
               ts == Len(transport["server"])
               bs == Len(buffer["server"])
    <2>1. /\ sc \in Nat /\ gs \in Nat /\ ss \in Nat /\ gc \in Nat
          /\ tc \in Nat /\ bc \in Nat /\ ts \in Nat /\ bs \in Nat
          /\ buffer["client"] # << >> <=> bc > 0
          /\ buffer["server"] # << >> <=> bs > 0
          /\ transport["client"] # << >> <=> tc > 0
          /\ transport["server"] # << >> <=> ts > 0
        BY DEF EchoInv, IInv, TypeInv, Ends
    <2>2. sc = gs + tc + bc /\ ss = gc + ts + bs /\ ss <= gs
        BY OnTheWay DEF EchoInv, Echoed, Ends, Peer
    <2>3. /\ bc > 0 => tc >= Capacity
          /\ bs > 0 => ts >= Capacity
          /\ bc = 0 /\ Asking => sc >= MaxSend
          /\ bc = 0 /\ ~Asking => ts = 0
          /\ bs = 0 /\ gs - ss > 0 => ss >= MaxSend
          /\ bs = 0 /\ gs - ss = 0 => tc = 0
        <3>1. Capacity \in Nat /\ MaxSend \in Nat
            BY SessionAssumption
        <3>2. /\ buffer["client"] # << >> => ~(tc < Capacity)
              /\ buffer["server"] # << >> => ~(ts < Capacity)
            BY DEF CanMove, Ends
        <3>3. /\ buffer["client"] = << >> /\ Asking => ~(sc < MaxSend)
              /\ buffer["client"] = << >> /\ ~Asking => transport["server"] = << >>
              /\ buffer["server"] = << >> /\ gs - ss > 0 => ~(ss < MaxSend)
              /\ buffer["server"] = << >> /\ gs - ss = 0 => transport["client"] = << >>
            BY DEF CanMove, SendDone, Unanswered, Incoming, Peer
        <3> HIDE DEF sc, gs, ss, gc, tc, bc, ts, bs
        <3> QED
            BY <2>1, <3>1, <3>2, <3>3
    <2>4. /\ sc <= MaxSend /\ ~(Asking /\ sc = MaxSend)
          /\ Capacity \in Nat /\ Capacity > 0 /\ MaxSend \in Nat /\ Window \in Nat
        BY SessionAssumption, WindowAssumption DEF EchoInv, IInv, BoundInv, Ends
    <2> DEFINE r == gc % Window
    <2>5. /\ r \in 0 .. Window - 1
          /\ IF r = 0 THEN sc - gc <= Window ELSE sc - gc = Window - r
          /\ ~Asking => r # 0 \/ sc - gc >= Window
        <3>1. r \in 0 .. Window - 1
            BY <2>1, WindowAssumption, NextRemainder
        <3>2. IF r = 0 THEN sc - gc <= Window ELSE sc - gc = Window - r
            BY DEF EchoInv, InWindow, Outstanding
        <3>3. ~Asking => r # 0 \/ ~(sc - gc < Window)
            BY DEF Asking, Outstanding
        <3> HIDE DEF sc, gc, r
        <3> QED
            BY <2>1, <2>4, <3>1, <3>2, <3>3
    <2> HIDE DEF sc, gs, ss, gc, tc, bc, ts, bs, r
    <2>6. CASE bc > 0 /\ bs > 0
        <3>1. sc - gc >= 2 * Capacity + 2
            BY <2>1, <2>2, <2>3, <2>4, <2>6
        <3>2. sc - gc <= Window
            BY <2>1, <2>4, <2>5
        <3> QED
            BY <2>1, <2>4, <3>1, <3>2
    <2>7. CASE bc > 0 /\ bs = 0
        BY <2>1, <2>2, <2>3, <2>4, <2>7
    <2>8. CASE bc = 0 /\ Asking
        BY <2>1, <2>3, <2>4, <2>8
    <2>9. CASE bc = 0 /\ ~Asking
        <3>1. ts = 0 /\ bs = 0
            BY <2>1, <2>3, <2>4, <2>9
        <3>2. gs = ss
            BY <2>1, <2>2, <2>3, <2>4, <3>1
        <3>3. sc = gc
            BY <2>1, <2>2, <2>3, <2>9, <3>1, <3>2
        <3>4. r # 0 \/ 0 >= Window
            BY <2>1, <2>5, <2>9, <3>3
        <3> QED
            BY <2>1, <2>4, <2>5, <3>3, <3>4
    <2> QED
        BY <2>1, <2>6, <2>7, <2>8, <2>9
<1> QED
    BY <1>1, EchoInvariance, PTL
=============================================================================
