-------------------------------- MODULE ImgText --------------------------------
(***************************************************************************)
(* A string in a file of shroom-img, in front of the canvas data that      *)
(* ChunkedStream reads with the same ImgCrypto.  A string of Latin-1       *)
(* characters is written as bytes, any other as units of UTF-16, with the  *)
(* length in a byte or behind an escape.  write_str encrypts and masks it  *)
(* in pieces; a WzStr is decoded as a whole, read_str8 and read_str16      *)
(* decode it in pieces.                                                    *)
(*                                                                         *)
(* A unit on the disk keeps the bytes of the keystream and the place of    *)
(* the mask it was encoded with; with any other it decodes to Garbled.     *)
(***************************************************************************)
EXTENDS ChunkedStream
Seqs == INSTANCE SequencesExt

CONSTANTS
    Texts,      \* strings: sequences of "latin", "wide" and "pair" (of surrogates)
    PieceLen,   \* CHUNK_LEN of read_str_inner and write_str_inner
    Escape8,    \* i8::MIN, the flag of a long string of bytes
    Escape16    \* i8::MAX, that of a long string of UTF-16

ASSUME TextAssumption ==
    /\ Texts \subseteq Seq({"latin", "wide", "pair"})
    /\ Garbled \notin {"latin", "wide", "pair", "high", "low"}
    /\ PieceLen \in Nat \ {0}
    /\ Escape8 \in Int /\ Escape8 < 0
    /\ Escape16 \in Nat \ {0}

VARIABLES
    text,       \* the string
    cipher,     \* the ImgCrypto has a cipher
    flag,       \* the first byte of the string on the disk
    long,       \* the length behind an escape, else None
    disk,       \* its units on the disk
    stream,     \* the WzDataCryptStream of the writer or reader
    place,      \* the unit at which the reader is
    decoded,    \* the characters read
    phase       \* "writing", "written", "pieces", "read", "failed", "over"

textVars == <<text, cipher, flag, long, disk, stream, place, decoded, phase>>
allVars == <<vars, textVars>>

-----------------------------------------------------------------------------
IsLatin(t) == \A i \in DOMAIN t : t[i] = "latin"

\* Latin-1 has a byte for each character, UTF-16 two units for a pair.
UnitsOf(c) == IF c = "pair" THEN <<"high", "low">> ELSE <<c>>
Units(t) == Seqs!FlattenSeq([i \in DOMAIN t |-> UnitsOf(t[i])])

\* A length that is the escape itself is written into the byte.
HeaderOffByOne(t) ==
    LET n == Len(Units(t))
    IN  IF IsLatin(t)
        THEN IF n > -Escape8 THEN [flag |-> Escape8, long |-> n] ELSE [flag |-> -n, long |-> None]
        ELSE IF n > Escape16 THEN [flag |-> Escape16, long |-> n] ELSE [flag |-> n, long |-> None]

\* WzStrRef8 and WzStrRef16: the flag, and the length behind an escape.
Header(t) ==
    LET n == Len(Units(t))
    IN  IF IsLatin(t)
        THEN IF n >= -Escape8 THEN [flag |-> Escape8, long |-> n] ELSE [flag |-> -n, long |-> None]
        ELSE IF n >= Escape16 THEN [flag |-> Escape16, long |-> n] ELSE [flag |-> n, long |-> None]

Start == [ix |-> 0, ofb |-> 0]
Advance(s, n) == [ix |-> s.ix + n, ofb |-> s.ofb + n - FromCache(s.ix, n)]

\* Where the i-th of n units of some bytes each meets keystream and mask.
Meets(s, from, n, bytes) ==
    [i \in 1 .. n |->
        [ks |-> IF cipher THEN SubSeq(KeyStream(s.ix, s.ofb, n * bytes), (i - 1) * bytes + 1, i * bytes)
                ELSE << >>,
         mask |-> from + i]]

TextInit ==
    /\ Init
    /\ text \in Texts
    /\ cipher \in BOOLEAN
    /\ flag = Header(text).flag
    /\ long = Header(text).long
    /\ disk = << >>
    /\ stream = Start
    /\ place = 0
    /\ decoded = << >>
    /\ phase = "writing"

-----------------------------------------------------------------------------
(* Writing *)

UnitBytes(t) == IF IsLatin(t) THEN 1 ELSE 2
Unwritten == Len(Units(text)) - Len(disk)

\* write_str_inner: a whole piece, or the tail.
WritePiece ==
    /\ phase = "writing" /\ cipher /\ Unwritten > 0
    /\ LET n == Lesser(PieceLen, Unwritten)
           m == Meets(stream, Len(disk), n, UnitBytes(text))
       IN  /\ disk' = disk \o [i \in 1 .. n |->
                        [unit |-> Units(text)[Len(disk) + i], ks |-> m[i].ks, mask |-> m[i].mask]]
           /\ stream' = Advance(stream, n * UnitBytes(text))
    /\ UNCHANGED <<vars, text, cipher, flag, long, place, decoded, phase>>

\* Without a cipher it writes the units as they are, and does not mask them.
WriteRaw ==
    /\ phase = "writing" /\ ~cipher /\ Unwritten > 0
    /\ disk' = [i \in 1 .. Unwritten |-> [unit |-> Units(text)[i], ks |-> << >>, mask |-> None]]
    /\ UNCHANGED <<vars, text, cipher, flag, long, stream, place, decoded, phase>>

\* The file may be cut within the string.
Written ==
    /\ phase = "writing" /\ Unwritten = 0
    /\ \E n \in 0 .. Len(disk) : disk' = SubSeq(disk, 1, n)
    /\ phase' = "written"
    /\ stream' = Start
    /\ UNCHANGED <<vars, text, cipher, flag, long, place, decoded>>

-----------------------------------------------------------------------------
(* Reading *)

\* Bytes of a unit, and the number of units, as the flag says them.
ReadBytes == IF flag <= 0 THEN 1 ELSE 2
Count == IF flag \in {Escape8, Escape16} THEN long ELSE IF flag <= 0 THEN -flag ELSE flag

\* n units from the reader's place on, as they come out of mask and cipher.
Decode(n, s) ==
    LET m == Meets(s, place, n, ReadBytes)
    IN  [i \in 1 .. n |->
            IF disk[place + i].ks = m[i].ks /\ disk[place + i].mask = m[i].mask
            THEN disk[place + i].unit ELSE Garbled]

\* Every surrogate is part of a pair.
WellFormed(us) ==
    \A i \in DOMAIN us :
        /\ us[i] = "high" => i < Len(us) /\ us[i + 1] = "low"
        /\ us[i] = "low"  => i > 1 /\ us[i - 1] = "high"
CharactersOf(u) == CASE u = "high" -> <<"pair">> [] u = "low" -> << >> [] OTHER -> <<u>>
Characters(us) == Seqs!FlattenSeq([i \in DOMAIN us |-> CharactersOf(us[i])])

\* Units that make no characters are an error; what garbled UTF-16 makes is open.
Take(us, then) ==
    \/ /\ ReadBytes = 1 \/ WellFormed(us)
       /\ decoded' = decoded \o Characters(us)
       /\ phase' = then
    \/ /\ ReadBytes = 2
       /\ ~WellFormed(us) \/ \E i \in DOMAIN us : us[i] = Garbled
       /\ phase' = "failed"
       /\ UNCHANGED decoded

\* read_exact of n units at the reader's place.
IsThere(n) == n # None /\ place + n <= Len(disk)
TextPiece == Lesser(PieceLen, Count - place)

\* WzStr::read_options: decode_str8 or decode_str16 of all of it.
ReadWhole ==
    /\ phase = "written" /\ IsThere(Count)
    /\ Take(Decode(Count, Start), "read")
    /\ place' = Count
    /\ UNCHANGED <<vars, text, cipher, flag, long, disk, stream>>

\* read_str_inner with the length that was read; it takes its cipher for granted.
ReadPiece ==
    /\ phase = "pieces" \/ (phase = "written" /\ cipher /\ Count # None)
    /\ IsThere(TextPiece)
    /\ Take(Decode(TextPiece, stream), IF place + TextPiece = Count THEN "read" ELSE "pieces")
    /\ place' = place + TextPiece
    /\ stream' = Advance(stream, TextPiece * ReadBytes)
    /\ UNCHANGED <<vars, text, cipher, flag, long, disk>>

\* The string has no length, or ends before it.
ReadOver ==
    /\ \/ phase = "written" /\ ~IsThere(Count)
       \/ phase = "pieces" /\ ~IsThere(TextPiece)
    /\ phase' = "failed"
    /\ UNCHANGED <<vars, text, cipher, flag, long, disk, stream, place, decoded>>

\* The program goes on with the canvas data.
GoOn ==
    /\ phase \in {"read", "failed"}
    /\ text' = << >> /\ cipher' = TRUE
    /\ flag' = 0 /\ long' = None /\ disk' = << >>
    /\ stream' = Start /\ place' = 0 /\ decoded' = << >>
    /\ phase' = "over"
    /\ UNCHANGED vars

-----------------------------------------------------------------------------
TextStep ==
    \/ WritePiece \/ WriteRaw \/ Written
    \/ ReadWhole \/ ReadOver \/ ReadPiece
    \/ GoOn

TextNext == TextStep \/ (phase = "over" /\ Next /\ UNCHANGED textVars)

\* The program writes and reads the string, and then as in ChunkedStream.
TextProgress == TextStep \/ (phase = "over" /\ Progress /\ UNCHANGED textVars)
TextSpec == TextInit /\ [][TextNext]_allVars /\ WF_allVars(TextProgress)

-----------------------------------------------------------------------------
(* Properties *)

\* The piece that was read last ends within a pair of surrogates.
PairIsCut == place \in 1 .. Len(Units(text)) - 1 /\ Units(text)[place] = "high"

IsCut == Len(disk) < Len(Units(text))

\* With a cipher every string is read as it was written, whatever its length, its
\* pieces and the cache make of it; a string the file has lost a part of is an
\* error and never a shorter string, and so is a pair that is cut by the pieces
\* of read_str16.  Without a cipher the writer leaves out the mask that the
\* reader takes off: only the empty string comes back.
TextReadsBack ==
    /\ phase = "read" => IF cipher THEN decoded = text ELSE decoded = text <=> text = << >>
    /\ phase = "failed" => ~cipher \/ PairIsCut \/ IsCut
=============================================================================
