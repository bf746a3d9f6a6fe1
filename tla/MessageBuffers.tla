--------------------------- MODULE MessageBuffers ---------------------------
(***************************************************************************)
(* The two buffers of shroom-pkt onto which a program encodes several      *)
(* messages.  PacketBuf (buf) keeps them behind each other, each with its  *)
(* length in front, and iterates over them; EncodeBuf (onto) splits each   *)
(* off as a Message of its own.  A message is its opcode, a number of      *)
(* plain bytes and, unless that is empty, a multi-line string.  The string *)
(* is written into the spare capacity of the buffer's current chunk and    *)
(* fails when that is too small: this is how an encoding fails half way.   *)
(* A byte carries the name of its message; the 16 bits of a length have    *)
(* LenMod values.  An iterator that takes a byte of a message for a length *)
(* has lost the frames: it yields other bytes than a message or panics.    *)
(***************************************************************************)
EXTENDS Integers, Sequences, SequencesExt

CONSTANTS
    Messages,   \* messages of the program: [id, plain, text]
    Spares,     \* capacities a chunk can have to spare, in bytes
    LenMod,     \* 2^16
    MaxKept,    \* bound on the messages in the PacketBuf
    MaxStale,   \* bound on the bytes of failed encodings in the EncodeBuf
    Misread,    \* what an iterator yields that has lost the frames
    None        \* no Message yet

ASSUME MessageBuffersAssumption ==
    /\ \A m \in Messages : /\ m.id # "length" /\ m.plain \in Nat
                           /\ m.text \in Seq({"a", "CR", "LF"})
    /\ Spares \subseteq Nat
    /\ LenMod \in Nat \ {0}
    /\ MaxKept \in Nat /\ MaxStale \in Nat
    /\ None \notin Messages

VARIABLES
    buf,        \* the bytes of the PacketBuf
    kept,       \* the messages encoded into it with success since the last clear
    onto,       \* the bytes of the EncodeBuf
    failures,   \* encodings onto it that failed since the last Message
    made        \* the last Message: [of, bytes, failures]

vars == <<buf, kept, onto, failures, made>>

-----------------------------------------------------------------------------
(* Encoding a message *)

LenSize == 2
OpCodeSize == 2
LenField(owner, n) ==
    [i \in 1 .. LenSize |-> [msg |-> owner, byte |-> i, value |-> n % LenMod]]

\* Line breaks without a look at the byte in front of them.
EveryBreakCrlf(t) ==
    FlattenSeq([i \in DOMAIN t |-> IF t[i] = "LF" THEN <<"CR", "LF">> ELSE <<t[i]>>])

\* write_multi_line_str: a line loses the CR at its end, every line ends in CRLF,
\* what follows the last line break is written as it is.
WithCrlf(t) ==
    FlattenSeq([i \in DOMAIN t |->
        CASE t[i] = "LF" -> <<"CR", "LF">>
          [] t[i] = "CR" /\ i < Len(t) /\ t[i + 1] = "LF" -> << >>
          [] OTHER -> <<t[i]>>])

PlainPart(m) == [i \in 1 .. OpCodeSize + m.plain |-> [msg |-> m.id, byte |-> i]]
Text(m) ==
    LET t == WithCrlf(m.text)
    IN  IF m.text = << >> THEN << >>
        ELSE LenField(m.id, Len(t)) \o [i \in DOMAIN t |-> [msg |-> m.id, byte |-> t[i]]]
Encoding(m) == PlainPart(m) \o Text(m)

\* OutOfCapacity, before a byte of the string counts as written.
OutOfCapacity(m, spare) == Len(Text(m)) > spare

-----------------------------------------------------------------------------
Init ==
    /\ buf = << >> /\ kept = << >>
    /\ onto = << >> /\ failures = 0 /\ made = None

\* PacketBuf::encode: the dummy length is overwritten when the message is there.
Encode(m, spare) ==
    /\ Len(kept) < MaxKept
    /\ ~OutOfCapacity(m, spare)
    /\ buf' = buf \o LenField("length", Len(Encoding(m))) \o Encoding(m)
    /\ kept' = Append(kept, m)
    /\ UNCHANGED <<onto, failures, made>>

\* A reset that leaves the dummy length.
TruncatedBehindLength(b, n) == SubSeq(b, 1, n + LenSize)

\* Vec::truncate
Truncated(b, n) == SubSeq(b, 1, n)

EncodeFails(m, spare) ==
    /\ Len(kept) < MaxKept
    /\ OutOfCapacity(m, spare)
    /\ buf' = Truncated(buf \o LenField("length", 0) \o PlainPart(m), Len(buf))
    /\ UNCHANGED <<kept, onto, failures, made>>

Clear ==
    /\ buf' = << >> /\ kept' = << >>
    /\ UNCHANGED <<onto, failures, made>>

\* A message that is copied out of the buffer.
LeftInBuffer(b) == b

\* BytesMut::split takes all the buffer holds.
LeftBySplit(b) == << >>

EncodeOnto(m, spare) ==
    /\ ~OutOfCapacity(m, spare)
    /\ made' = [of |-> m, bytes |-> onto \o Encoding(m), failures |-> failures]
    /\ onto' = LeftBySplit(onto \o Encoding(m))
    /\ failures' = 0
    /\ UNCHANGED <<buf, kept>>

\* The error is returned at once, and what was written stays in the buffer.
EncodeOntoFails(m, spare) ==
    /\ OutOfCapacity(m, spare)
    /\ Len(onto) + Len(PlainPart(m)) <= MaxStale
    /\ onto' = onto \o PlainPart(m)
    /\ failures' = failures + 1
    /\ UNCHANGED <<buf, kept, made>>

Next ==
    \/ Clear
    \/ \E m \in Messages, spare \in Spares :
        \/ Encode(m, spare) \/ EncodeFails(m, spare)
        \/ EncodeOnto(m, spare) \/ EncodeOntoFails(m, spare)

Spec == Init /\ [][Next]_vars

-----------------------------------------------------------------------------
(* Readers *)

\* PacketIter::next from position i on, to the end of the buffer.
IsLength(i) == i + 1 <= Len(buf) /\ buf[i].msg = "length" /\ buf[i].byte = 1
IterFrom[i \in 1 .. Len(buf) + 1] ==
    IF i > Len(buf) THEN << >>
    ELSE IF ~IsLength(i) \/ i + LenSize + buf[i].value > Len(buf) + 1 THEN <<Misread>>
    ELSE <<SubSeq(buf, i + LenSize, i + LenSize + buf[i].value - 1)>>
            \o IterFrom[i + LenSize + buf[i].value]
Packets == IterFrom[1]

\* read_string behind opcode and plain bytes of a message: as many bytes as the
\* length in front of them says.
ReadText(bytes, m) ==
    LET at == Len(PlainPart(m)) + 1
        n == bytes[at].value
    IN  [i \in 1 .. n |-> bytes[at + LenSize + i - 1].byte]

-----------------------------------------------------------------------------
(* Properties *)

\* The iterator yields the messages that were encoded with success, whole and in
\* order, and no byte of one whose encoding failed.
PacketsAreTheMessages ==
    Packets = [k \in DOMAIN kept |-> Encoding(kept[k])]

\* A message holds its own encoding and nothing else, the opcode in front
\* included, as long as no other encoding failed since the message before.
CleanWithoutFailure ==
    made # None /\ made.failures = 0 => made.bytes = Encoding(made.of)

\* The opcode at the front of a Message is the one that was encoded for it,
\* which the assertion behind encode_onto takes for granted.
OpCodeIsItsOwn ==
    made # None =>
        SubSeq(made.bytes, 1, OpCodeSize) = SubSeq(Encoding(made.of), 1, OpCodeSize)

\* A text with CRLF and LF taken for the same.
BreakBehind(t, i) == t[i] = "CR" /\ i < Len(t) /\ t[i + 1] = "LF"
Unix(t) == FlattenSeq([i \in DOMAIN t |-> IF BreakBehind(t, i) THEN << >> ELSE <<t[i]>>])

\* The string that is read out of an iterated message has the lines of the one
\* the program wrote, each of them ended by CRLF: no line break is left bare, no
\* CR is doubled, and the length in front of the string covers it.
LinesSurvive ==
    \A k \in DOMAIN kept :
        LET m == kept[k]
            read == ReadText(Packets[k], m)
        IN  m.text # << >> =>
                /\ Unix(read) = Unix(m.text)
                /\ \A i \in DOMAIN read : read[i] = "LF" => i > 1 /\ read[i - 1] = "CR"
=============================================================================
