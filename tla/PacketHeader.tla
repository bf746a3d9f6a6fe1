---------------------------- MODULE PacketHeader ----------------------------
(***************************************************************************)
(* The header in front of a packet, bit for bit: encode_header and         *)
(* decode_header of shroom-crypto with a NetCipher at each end.  A word is *)
(* a function from bit positions to bits.  The receiving cipher may be in  *)
(* step with the sending one, in another round, of another version, or the *)
(* one of the sender's own other direction.                                *)
(***************************************************************************)
EXTENDS Naturals

CONSTANTS
    Width,       \* bits of a word, 16
    LengthWords, \* words the sender uses as lengths
    Versions,    \* words used as versions, before they are inverted
    Invalid,     \* InvalidHeaderError
    Pending      \* not decoded yet

Bits == 0 .. Width - 1
Word == [Bits -> {0, 1}]

ASSUME HeaderAssumption ==
    /\ Width \in Nat \ {0}
    /\ LengthWords \subseteq Word
    /\ Versions \subseteq Word
    /\ {Invalid, Pending} \intersect Word = {}
    /\ Invalid # Pending

Xor(a, b) == [i \in Bits |-> IF a[i] = b[i] THEN 0 ELSE 1]
Zero      == [i \in Bits |-> 0]

\* ShroomVersion::invert
Invert(v) == [i \in Bits |-> 1 - v[i]]

\* What a NetCipher makes its headers with; aes is CRYPT & CRYPT_AES # 0.
Cipher == [aes : BOOLEAN, keyHigh : Word, version : Word]

VARIABLES
    sender,     \* the NetCipher that made the header
    length,     \* the length it put in
    header,     \* [low, high], the header
    receiver,   \* the NetCipher that decodes it
    result      \* what decode_header returned

headerVars == <<sender, length, header, receiver, result>>

-----------------------------------------------------------------------------
\* A header whose second word is the length itself.
EncodePlainHigh(c, len) ==
    IF c.aes
    THEN [low |-> Xor(c.keyHigh, c.version), high |-> len]
    ELSE [low |-> Zero, high |-> len]

\* NetCipher::encode_header
Encode(c, len) ==
    IF c.aes
    THEN LET low == Xor(c.keyHigh, c.version)
         IN  [low |-> low, high |-> Xor(low, len)]
    ELSE [low |-> Zero, high |-> len]

\* A check of the key that leaves out the version.
DecodeAnyVersion(c, h) ==
    IF c.aes
    THEN IF h.low \in {Xor(c.keyHigh, c.version), Xor(c.keyHigh, Invert(c.version))}
         THEN Xor(h.low, h.high) ELSE Invalid
    ELSE h.high

\* No check of the key at all.
DecodeUnchecked(c, h) == IF c.aes THEN Xor(h.low, h.high) ELSE h.high

\* NetCipher::decode_header
Decode(c, h) ==
    IF c.aes
    THEN IF Xor(h.low, c.version) = c.keyHigh THEN Xor(h.low, h.high) ELSE Invalid
    ELSE h.high

\* Two ciphers of a connection: one kind, and a version each, which the other
\* direction inverts.
HeaderInit ==
    \E a \in BOOLEAN, k1, k2 \in Word, v1, v2 \in Versions \union {Invert(v) : v \in Versions} :
        /\ sender = [aes |-> a, keyHigh |-> k1, version |-> v1]
        /\ receiver = [aes |-> a, keyHigh |-> k2, version |-> v2]
        /\ length \in LengthWords
        /\ header = Encode(sender, length)
        /\ result = Pending

DecodeHeader ==
    /\ result = Pending
    /\ result' = Decode(receiver, header)
    /\ UNCHANGED <<sender, length, header, receiver>>

HeaderNext == DecodeHeader

HeaderSpec == HeaderInit /\ [][HeaderNext]_headerVars

-----------------------------------------------------------------------------
(* Properties *)

\* A cipher in step with the sender's gets the length that was put in, and no
\* other cipher gets another one: a foreign header is refused, never misread.
LengthRoundTrip ==
    result # Pending =>
        \/ result = length
        \/ result = Invalid /\ sender # receiver

\* A header of another round is refused by a cipher of the same version, as far
\* as the upper words of the round keys differ, which are all the header holds.
OtherRoundRefused ==
    /\ sender.aes
    /\ sender.version = receiver.version
    /\ sender.keyHigh # receiver.keyHigh
    => result \in {Pending, Invalid}

\* A header that comes back to the end that made it is refused there even if
\* both directions started with the same key: their versions are inverse.
ReflectionRefused ==
    /\ sender.aes
    /\ sender.keyHigh = receiver.keyHigh
    /\ receiver.version = Invert(sender.version)
    => result \in {Pending, Invalid}
=============================================================================
