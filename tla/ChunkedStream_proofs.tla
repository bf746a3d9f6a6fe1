-------------------------- MODULE ChunkedStream_proofs --------------------------
(***************************************************************************)
(* Theorems about ChunkedStream, for any lengths of chunks, buffer, cache  *)
(* and reads and any end of the data: what is returned is the payload, and *)
(* an end or an error means what it says.                                  *)
(* And about ImgText, for any strings, pieces and escapes: a string is     *)
(* read as it was written, or its error means that it is cut.              *)
(***************************************************************************)
EXTENDS ImgText, DataInduction

-----------------------------------------------------------------------------
(* The inductive invariant *)

Chunks == [start : Nat, len : Nat]
Bytes  == [chunk : Nat, off : Nat]
At(c, o) == [chunk |-> c, off |-> o]

TypeInv ==
    /\ chunks \in Seq(Chunks)
    /\ end \in Nat \union {None}
    /\ pos \in Nat /\ remaining \in Nat /\ current \in 0 .. Len(chunks)
    /\ buf \in Seq(Bytes) /\ ix \in 0 .. Len(buf)
    /\ out \in Seq(Bytes)

\* Chunks lie behind each other without a gap.
Layout ==
    /\ chunks # << >> => chunks[1].start = 0
    /\ \A k \in DOMAIN chunks : k + 1 \in DOMAIN chunks =>
            chunks[k + 1].start = EndOf(chunks[k])
    /\ \A j, k \in DOMAIN chunks : j < k => EndOf(chunks[j]) <= chunks[k].start

\* Nothing is read before the data has an end.
DataInv ==
    IF end = None
    THEN pos = 0 /\ current = 0 /\ out = << >> /\ status = "reading"
    ELSE end <= Size

\* The reader stands in its chunk, or behind it.
WhereInv ==
    status = "reading" =>
        IF current = 0 THEN pos = 0 ELSE pos + remaining = EndOf(chunks[current])

\* With the first n bytes of a chunk decrypted, the stream is at its n-th byte:
\* the cache is used up before the OFB cipher runs.
InStep(n, k, o) == k = n /\ o = IF n <= CacheLen THEN 0 ELSE n - CacheLen

\* The returned bytes o end right in front of byte n of chunk c.
Before(c, n, o) ==
    \/ c = 1 /\ n = 0 /\ o = << >>
    \/ c > 1 /\ n = 0 /\ o # << >> /\ o[Len(o)] = At(c - 1, chunks[c - 1].len - 1)
    \/ n > 0 /\ o # << >> /\ o[Len(o)] = At(c, n - 1)

\* b holds the n bytes of chunk c in front of byte m, those behind the first i are
\* still to be returned.
Holds(b, i, c, m) ==
    /\ Len(b) - i <= m
    /\ \A j \in i + 1 .. Len(b) : b[j] = At(c, m - Len(b) + j - 1)

Consumed == chunks[current].len - remaining

ChunkInv ==
    IF current = 0
    THEN remaining = 0 /\ ix = Len(buf) /\ out = << >>
    ELSE /\ end # None /\ BodyOf(chunks[current]) <= end
         /\ chunks[current].len > 0 /\ remaining <= chunks[current].len
         /\ InStep(Consumed, ksIx, ofb)
         /\ Holds(buf, ix, current, Consumed)
         /\ Before(current, Consumed - (Len(buf) - ix), out)

Payload(o) ==
    /\ o # << >> => o[1] = At(1, 0)
    /\ \A i \in 1 .. Len(o) - 1 : Follows(o[i], o[i + 1])

\* The chunk is returned to its last byte.
Returned(k, o) == chunks[k].len > 0 /\ \E i \in DOMAIN o : o[i] = At(k, chunks[k].len - 1)

PassedInv == \A k \in 1 .. current - 1 : Returned(k, out)

IInv ==
    /\ TypeInv
    /\ Layout
    /\ DataInv
    /\ WhereInv
    /\ ChunkInv
    /\ Payload(out)
    /\ PassedInv
    /\ EndMeansWholeChunks
    /\ ErrorMeansDamage

-----------------------------------------------------------------------------
(* Lemmas *)

LEMMA ChunkType ==
    ASSUME TypeInv, NEW k \in DOMAIN chunks
    PROVE  /\ k \in Nat \ {0}
           /\ chunks[k].start \in Nat
           /\ chunks[k].len \in Nat
           /\ BodyOf(chunks[k]) = chunks[k].start + LenSize
           /\ EndOf(chunks[k]) = chunks[k].start + LenSize + chunks[k].len
           /\ LenSize \in Nat \ {0}
PROOF
<1>1. k \in Nat \ {0} /\ chunks[k] \in Chunks
    BY DEF TypeInv
<1>2. LenSize \in Nat \ {0}
    BY ChunkAssumption
<1> QED
    BY <1>1, <1>2 DEF Chunks, BodyOf, EndOf

\* The data ends behind the last chunk.
LEMMA SizeIsEnd ==
    ASSUME TypeInv
    PROVE  /\ Size \in Nat
           /\ chunks = << >> => Size = 0
           /\ chunks # << >> => Len(chunks) \in DOMAIN chunks /\ Size = EndOf(chunks[Len(chunks)])
PROOF
<1>1. CASE chunks = << >>
    BY <1>1 DEF Size
<1>2. CASE chunks # << >>
    <2>1. Len(chunks) \in DOMAIN chunks
        BY <1>2 DEF TypeInv
    <2>2. EndOf(chunks[Len(chunks)]) \in Nat
        BY <2>1, ChunkType
    <2> QED
        BY <1>2, <2>1, <2>2 DEF Size
<1> QED
    BY <1>1, <1>2

\* What is appended to the returned bytes goes on with the payload.
LEMMA Grow ==
    ASSUME TypeInv, NEW c \in DOMAIN chunks, NEW n \in Nat,
           NEW o \in Seq(Bytes), Payload(o), Before(c, n, o),
           NEW s \in Seq(Bytes), \A j \in 1 .. Len(s) : s[j] = At(c, n + j - 1)
    PROVE  /\ o \o s \in Seq(Bytes)
           /\ Payload(o \o s)
           /\ Before(c, n + Len(s), o \o s)
           /\ \A i \in DOMAIN o : i \in DOMAIN (o \o s) /\ (o \o s)[i] = o[i]
PROOF
<1> DEFINE w == o \o s
<1>1. /\ w \in Seq(Bytes) /\ Len(w) = Len(o) + Len(s)
      /\ Len(o) \in Nat /\ Len(s) \in Nat /\ DOMAIN o = 1 .. Len(o) /\ DOMAIN w = 1 .. Len(w)
      /\ \A i \in 1 .. Len(o) : w[i] = o[i]
      /\ \A i \in Len(o) + 1 .. Len(w) : w[i] = s[i - Len(o)]
      /\ o = << >> <=> Len(o) = 0
      /\ w = << >> <=> Len(w) = 0
    OBVIOUS
<1>2. c \in Nat \ {0}
    BY ChunkType
<1> HIDE DEF w
<1>3. \A i \in Len(o) + 1 .. Len(w) : w[i] = At(c, n + i - Len(o) - 1)
    BY <1>1
<1>4. w # << >> => w[1] = At(1, 0)
    <2>1. CASE o = << >>
        <3>1. c = 1 /\ n = 0
            BY <2>1 DEF Before
        <3> QED
            BY <1>1, <1>3, <2>1, <3>1
    <2>2. CASE o # << >>
        BY <1>1, <2>2 DEF Payload
    <2> QED
        BY <2>1, <2>2
<1>5. ASSUME NEW i \in 1 .. Len(w) - 1
      PROVE  Follows(w[i], w[i + 1])
    <2>1. CASE i < Len(o)
        BY <1>1, <2>1 DEF Payload
    <2>2. CASE i = Len(o)
        <3>1. w[i + 1] = At(c, n) /\ w[i] = o[Len(o)] /\ o # << >>
            BY <1>1, <1>3, <2>2
        <3>2. CASE n = 0
            <4>1. c > 1 /\ o[Len(o)] = At(c - 1, chunks[c - 1].len - 1)
                BY <3>1, <3>2 DEF Before
            <4>2. c - 1 \in DOMAIN chunks
                BY <1>2, <4>1 DEF TypeInv
            <4>3. chunks[c - 1].len \in Nat
                BY <4>2, ChunkType
            <4> QED
                BY <1>2, <3>1, <3>2, <4>1, <4>3 DEF Follows, At
        <3>3. CASE n > 0
            <4>1. o[Len(o)] = At(c, n - 1)
                BY <3>1, <3>3 DEF Before
            <4> QED
                BY <3>1, <3>3, <4>1 DEF Follows, At
        <3> QED
            BY <3>2, <3>3
    <2>3. CASE i > Len(o)
        <3> DEFINE q == n + i - Len(o) - 1
        <3>1. i \in Len(o) + 1 .. Len(w) /\ i + 1 \in Len(o) + 1 .. Len(w)
            BY <1>1, <2>3
        <3>2. q \in Int /\ n + (i + 1) - Len(o) - 1 = q + 1
            BY <1>1
        <3> HIDE DEF q
        <3>3. w[i] = At(c, q) /\ w[i + 1] = At(c, q + 1)
            BY <1>3, <3>1, <3>2 DEF q
        <3>4. [At(c, q) EXCEPT !.off = @ + 1] = At(c, q + 1)
            BY DEF At
        <3>5. Follows(At(c, q), At(c, q + 1))
            BY <3>4 DEF Follows
        <3> QED
            BY <3>3, <3>5
    <2>4. i < Len(o) \/ i = Len(o) \/ i > Len(o)
        <3>1. i \in Nat /\ Len(o) \in Nat
            BY <1>1
        <3> QED
            BY <3>1
    <2> QED
        BY <2>1, <2>2, <2>3, <2>4
<1>6. Before(c, n + Len(s), w)
    <2>1. CASE Len(s) = 0
        <3>1. w = o
            BY <2>1 DEF w
        <3> QED
            BY <2>1, <3>1
    <2>2. CASE Len(s) > 0
        <3>1. /\ Len(w) \in Len(o) + 1 .. Len(w) /\ w # << >>
              /\ n + Len(w) - Len(o) - 1 = n + Len(s) - 1
            BY <1>1, <2>2
        <3>2. w[Len(w)] = At(c, n + Len(s) - 1)
            BY <1>3, <3>1
        <3> QED
            BY <1>1, <2>2, <3>1, <3>2 DEF Before
    <2> QED
        BY <1>1, <2>1, <2>2
<1> QED
    BY <1>1, <1>4, <1>5, <1>6 DEF Payload, w

\* A stream in step with its chunk decrypts the next bytes and stays in step: the
\* keystream goes on from the cache to the OFB cipher without a gap.
LEMMA KeyStreamInStep ==
    ASSUME NEW n \in Nat, NEW m \in Nat, NEW k, NEW o, InStep(n, k, o)
    PROVE  /\ \A i \in 1 .. m : KeyStream(k, o, m)[i] = n + i - 1
           /\ InStep(n + m, k + m, o + m - FromCache(k, m))
PROOF
<1>1. CacheLen \in Nat
    BY ChunkAssumption
<1>2. k = n /\ o = IF n <= CacheLen THEN 0 ELSE n - CacheLen
    BY DEF InStep
<1>3. FromCache(k, m) = IF n < CacheLen THEN (IF m < CacheLen - n THEN m ELSE CacheLen - n) ELSE 0
    BY <1>2 DEF FromCache, Lesser
<1>4. ASSUME NEW i \in 1 .. m
      PROVE  KeyStream(k, o, m)[i] = n + i - 1
    <2>1. KeyStream(k, o, m)[i] = IF i <= FromCache(k, m) THEN k + i - 1
                                  ELSE CacheLen + o + (i - FromCache(k, m) - 1)
        BY DEF KeyStream
    <2> QED
        BY <1>1, <1>2, <1>3, <2>1
<1>5. InStep(n + m, k + m, o + m - FromCache(k, m))
    BY <1>1, <1>2, <1>3 DEF InStep
<1> QED
    BY <1>4, <1>5

\* b is what lies behind the first n bytes of chunk c, m bytes of it.
IsPiece(b, c, n, m) ==
    b \in Seq(Bytes) /\ Len(b) = m /\ \A j \in 1 .. m : b[j] = At(c, n + j - 1)

LEMMA DecryptedBytes ==
    ASSUME NEW c \in Nat, NEW n \in Nat, NEW m \in Nat, NEW k, NEW o, InStep(n, k, o)
    PROVE  IsPiece(Decrypted(c, n, k, o, m), c, n, m)
PROOF
<1> DEFINE b == Decrypted(c, n, k, o, m)
<1>1. \A j \in 1 .. m : b[j] = At(c, n + j - 1)
    BY KeyStreamInStep DEF Decrypted, At
<1>2. \A j \in 1 .. m : b[j] \in Bytes
    <2>1. \A j \in 1 .. m : n + j - 1 \in Nat
        OBVIOUS
    <2> HIDE DEF b
    <2>2. \A q \in Nat : At(c, q) \in Bytes
        BY DEF At, Bytes
    <2> QED
        BY <1>1, <2>1, <2>2
<1>3. b = [j \in 1 .. m |-> b[j]]
    BY DEF Decrypted
<1> HIDE DEF b
<1>4. b \in Seq(Bytes) /\ Len(b) = m
    BY <1>2, <1>3
<1> QED
    BY <1>1, <1>4 DEF b, IsPiece

\* What is left of a buffer is returned in part: the rest is still in front of the
\* same byte of the chunk, and the payload has grown up to it.
LEMMA ReturnKeeps ==
    ASSUME TypeInv, NEW c \in DOMAIN chunks, NEW n \in Nat, NEW m \in Nat,
           NEW b \in Seq(Bytes), NEW i \in 0 .. Len(b), Holds(b, i, c, m),
           Payload(out), Before(c, m - (Len(b) - i), out), Return(b, i, n)
    PROVE  /\ buf' \in Seq(Bytes) /\ ix' \in 0 .. Len(buf')
           /\ out' \in Seq(Bytes)
           /\ Payload(out')
           /\ Holds(buf', ix', c, m)
           /\ Before(c, m - (Len(buf') - ix'), out')
           /\ \A j \in DOMAIN out : j \in DOMAIN out' /\ out'[j] = out[j]
PROOF
<1> DEFINE l == Lesser(n, Len(b) - i)
           s == SubSeq(b, i + 1, i + l)
           next == m - (Len(b) - i)
<1>1. Len(b) \in Nat /\ i \in Nat /\ i <= Len(b) /\ Len(b) - i <= m
    BY DEF Holds
<1>2. l \in 0 .. Len(b) - i /\ next \in Nat
    BY <1>1 DEF Lesser
<1>3. buf' = b /\ ix' = i + l /\ out' = out \o s
    BY DEF Return
<1> HIDE DEF l, next
<1>4. /\ s \in Seq(Bytes) /\ Len(s) = l
      /\ \A j \in 1 .. Len(s) : s[j] = b[i + j]
    BY <1>1, <1>2, PartOf
<1>5. \A j \in 1 .. Len(s) : s[j] = At(c, next + j - 1)
    <2>1. ASSUME NEW j \in 1 .. Len(s)
          PROVE  s[j] = At(c, next + j - 1)
        <3>1. i + j \in i + 1 .. Len(b)
            BY <1>1, <1>2, <1>4
        <3>2. b[i + j] = At(c, m - Len(b) + (i + j) - 1)
            BY <3>1 DEF Holds
        <3>3. m - Len(b) + (i + j) - 1 = next + j - 1
            BY <1>1, <1>4 DEF next
        <3> QED
            BY <1>4, <3>2, <3>3
    <2> QED
        BY <2>1
<1> HIDE DEF s
<1>6. /\ out \o s \in Seq(Bytes)
      /\ Payload(out \o s)
      /\ Before(c, next + Len(s), out \o s)
      /\ \A j \in DOMAIN out : j \in DOMAIN (out \o s) /\ (out \o s)[j] = out[j]
    <2>1. out \in Seq(Bytes) /\ Before(c, next, out)
        BY DEF TypeInv, next
    <2> QED
        BY <1>2, <1>4, <1>5, <2>1, Grow
<1>7. Payload(out')
    BY <1>3, <1>6
<1>8. next + Len(s) = m - (Len(buf') - ix')
    BY <1>1, <1>2, <1>3, <1>4 DEF next
<1>9. Holds(buf', ix', c, m)
    <2>1. Len(b) - (i + l) <= m
        BY <1>1, <1>2
    <2>2. i + l + 1 .. Len(b) \subseteq i + 1 .. Len(b)
        BY <1>1, <1>2
    <2> QED
        BY <1>3, <2>1, <2>2 DEF Holds
<1>10. ix' \in 0 .. Len(buf')
    BY <1>1, <1>2, <1>3
<1> QED
    BY <1>3, <1>6, <1>7, <1>8, <1>9, <1>10

-----------------------------------------------------------------------------
(* The steps *)

LEMMA InitInv == Init => IInv
PROOF
<1> SUFFICES ASSUME Init PROVE IInv
    OBVIOUS
<1>1. TypeInv
    BY DEF Init, TypeInv
<1>2. Layout /\ DataInv /\ WhereInv /\ ChunkInv /\ PassedInv
    BY DEF Init, Layout, DataInv, WhereInv, ChunkInv, PassedInv
<1>3. Payload(out)
    BY DEF Init, Payload
<1>4. EndMeansWholeChunks /\ ErrorMeansDamage
    BY DEF Init, EndMeansWholeChunks, ErrorMeansDamage
<1> QED
    BY <1>1, <1>2, <1>3, <1>4 DEF IInv

\* A chunk behind the others; nothing has been read.
LEMMA PutChunkInv ==
    ASSUME IInv, NEW n \in Nat, PutChunk(n)
    PROVE  IInv'
PROOF
<1> DEFINE c == [start |-> Size, len |-> n]
<1>1. TypeInv /\ Layout
    BY DEF IInv
<1>2. c \in Chunks
    BY <1>1, SizeIsEnd DEF Chunks
<1>3. chunks' = Append(chunks, c) /\ end = None /\ UNCHANGED <<end, reader>>
    BY DEF PutChunk
<1>4. pos = 0 /\ current = 0 /\ out = << >> /\ status = "reading"
    BY <1>3 DEF IInv, DataInv
<1> HIDE DEF c
<1>5. /\ chunks' \in Seq(Chunks) /\ Len(chunks') = Len(chunks) + 1
      /\ DOMAIN chunks = 1 .. Len(chunks) /\ Len(chunks) \in Nat
      /\ DOMAIN chunks' = 1 .. Len(chunks) + 1
      /\ chunks'[Len(chunks) + 1] = c
      /\ \A k \in DOMAIN chunks : chunks'[k] = chunks[k]
      /\ chunks = << >> <=> Len(chunks) = 0
    BY <1>1, <1>2, <1>3 DEF TypeInv
<1>6. c.start = Size
    BY DEF c
<1>7. Layout'
    <2>1. chunks'[1].start = 0
        <3>1. CASE chunks = << >>
            BY <1>1, <1>5, <1>6, <3>1, SizeIsEnd
        <3>2. CASE chunks # << >>
            <4>1. 1 \in DOMAIN chunks
                BY <1>5, <3>2
            <4> QED
                BY <1>1, <1>5, <3>2, <4>1 DEF Layout
        <3> QED
            BY <3>1, <3>2
    <2>2. ASSUME NEW k \in DOMAIN chunks', k + 1 \in DOMAIN chunks'
          PROVE  chunks'[k + 1].start = EndOf(chunks'[k])
        <3>1. k \in DOMAIN chunks
            BY <1>5, <2>2
        <3>2. CASE k + 1 \in DOMAIN chunks
            BY <1>1, <1>5, <3>1, <3>2 DEF Layout
        <3>3. CASE k = Len(chunks)
            BY <1>1, <1>5, <1>6, <3>1, <3>3, SizeIsEnd
        <3> QED
            BY <1>5, <2>2, <3>1, <3>2, <3>3
    <2>3. ASSUME NEW j \in DOMAIN chunks', NEW k \in DOMAIN chunks', j < k
          PROVE  EndOf(chunks'[j]) <= chunks'[k].start
        <3>1. j \in DOMAIN chunks
            BY <1>5, <2>3
        <3>2. CASE k \in DOMAIN chunks
            BY <1>1, <1>5, <2>3, <3>1, <3>2 DEF Layout
        <3>3. CASE k = Len(chunks) + 1
            <4> DEFINE l == Len(chunks)
            <4>1. l \in DOMAIN chunks /\ Size = EndOf(chunks[l])
                BY <1>1, <1>5, <3>1, SizeIsEnd
            <4>2. EndOf(chunks[j]) <= Size
                <5>1. CASE j = l
                    BY <1>1, <3>1, <4>1, <5>1, ChunkType
                <5>2. CASE j < l
                    <6>1. EndOf(chunks[j]) <= chunks[l].start
                        BY <1>1, <3>1, <4>1, <5>2 DEF Layout
                    <6>2. EndOf(chunks[j]) \in Nat
                        BY <1>1, <3>1, ChunkType
                    <6>3. chunks[l].start \in Nat /\ chunks[l].start <= EndOf(chunks[l])
                        BY <1>1, <4>1, ChunkType
                    <6>4. EndOf(chunks[l]) \in Nat
                        BY <1>1, <4>1, ChunkType
                    <6> HIDE DEF l
                    <6> QED
                        BY <4>1, <6>1, <6>2, <6>3, <6>4
                <5>3. j = l \/ j < l
                    BY <1>5, <3>1
                <5> QED
                    BY <5>1, <5>2, <5>3
            <4> QED
                BY <1>5, <1>6, <3>1, <3>3, <4>2
        <3> QED
            BY <1>5, <3>2, <3>3
    <2> QED
        BY <2>1, <2>2, <2>3 DEF Layout, EndOf, BodyOf
<1>8. TypeInv'
    BY <1>1, <1>3, <1>5 DEF TypeInv, reader
<1>9. DataInv' /\ WhereInv' /\ PassedInv'
    BY <1>3, <1>4 DEF DataInv, WhereInv, PassedInv, reader
<1>10. ChunkInv'
    BY <1>3, <1>4 DEF IInv, ChunkInv, reader
<1>11. Payload(out)'
    BY <1>3, <1>4 DEF Payload, reader
<1>12. EndMeansWholeChunks' /\ ErrorMeansDamage'
    BY <1>3, <1>4 DEF EndMeansWholeChunks, ErrorMeansDamage, reader
<1> QED
    BY <1>7, <1>8, <1>9, <1>10, <1>11, <1>12 DEF IInv

LEMMA EndDataInv ==
    ASSUME IInv, EndData
    PROVE  IInv'
PROOF
<1>1. TypeInv /\ Layout /\ ChunkInv
    BY DEF IInv
<1>2. end = None /\ end' \in 0 .. Size /\ UNCHANGED <<chunks, reader>>
    BY DEF EndData
<1>3. pos = 0 /\ current = 0 /\ out = << >> /\ status = "reading"
    BY <1>2 DEF IInv, DataInv
<1>4. Size \in Nat /\ Size' = Size
    BY <1>1, <1>2, SizeIsEnd DEF Size
<1>5. end' \in Nat /\ end' <= Size'
    BY <1>2, <1>4
<1>6. TypeInv' /\ Layout'
    BY <1>1, <1>2, <1>5 DEF TypeInv, Layout, reader
<1>7. DataInv' /\ WhereInv' /\ PassedInv' /\ ChunkInv'
    BY <1>1, <1>2, <1>3, <1>5, ChunkAssumption
       DEF DataInv, WhereInv, PassedInv, ChunkInv, reader
<1>8. Payload(out)'
    BY <1>2, <1>3 DEF Payload, reader
<1>9. EndMeansWholeChunks' /\ ErrorMeansDamage'
    BY <1>2, <1>3 DEF EndMeansWholeChunks, ErrorMeansDamage, reader
<1> QED
    BY <1>6, <1>7, <1>8, <1>9 DEF IInv

\* What holds of the data is not touched by the reader.
LEMMA ReaderKeeps ==
    ASSUME IInv, UNCHANGED written
    PROVE  Layout' /\ (end # None => DataInv')
PROOF
<1>1. chunks' = chunks /\ end' = end /\ Size' = Size
    BY DEF written, Size
<1> QED
    BY <1>1 DEF IInv, Layout, DataInv

\* A chunk that was returned is, when more bytes are.
LEMMA ReturnedKept ==
    ASSUME UNCHANGED chunks, NEW k,
           \A j \in DOMAIN out : j \in DOMAIN out' /\ out'[j] = out[j], Returned(k, out)
    PROVE  Returned(k, out)'
    BY DEF Returned

LEMMA ReadBufferedInv ==
    ASSUME IInv, NEW n \in Nat, ReadBuffered(n)
    PROVE  IInv'
PROOF
<1>1. TypeInv /\ ChunkInv /\ Payload(out) /\ DataInv
    BY DEF IInv
<1>2. /\ status = "reading" /\ end # None /\ Unread > 0
      /\ Return(buf, ix, n)
      /\ UNCHANGED <<written, pos, current, remaining, ksIx, ofb, status>>
    BY DEF ReadBuffered, Reading
<1>3. chunks' = chunks /\ end' = end
    BY <1>2 DEF written
<1>4. current # 0 /\ current \in DOMAIN chunks
    <2>1. current = 0 => Unread = 0
        BY <1>1 DEF ChunkInv, Unread, TypeInv
    <2> QED
        BY <1>1, <1>2, <2>1 DEF TypeInv
<1>5. /\ chunks[current].len \in Nat /\ remaining \in Nat
      /\ remaining <= chunks[current].len /\ Consumed \in Nat
    BY <1>1, <1>4, ChunkType DEF ChunkInv, TypeInv, Consumed
<1>6. /\ buf' \in Seq(Bytes) /\ ix' \in 0 .. Len(buf')
      /\ out' \in Seq(Bytes)
      /\ Payload(out')
      /\ Holds(buf', ix', current, Consumed)
      /\ Before(current, Consumed - (Len(buf') - ix'), out')
      /\ \A j \in DOMAIN out : j \in DOMAIN out' /\ out'[j] = out[j]
    BY <1>1, <1>2, <1>4, <1>5, ReturnKeeps DEF ChunkInv, TypeInv
<1>7. TypeInv'
    BY <1>1, <1>2, <1>3, <1>6 DEF TypeInv
<1>8. Layout' /\ DataInv'
    BY <1>2, ReaderKeeps
<1>9. WhereInv'
    BY <1>2, <1>3 DEF IInv, WhereInv
<1>10. Consumed' = Consumed
    BY <1>2, <1>3 DEF Consumed
<1>11. ChunkInv'
    BY <1>1, <1>2, <1>3, <1>4, <1>6, <1>10 DEF ChunkInv, Before, Holds
<1>12. Payload(out)'
    BY <1>3, <1>6 DEF Payload, Follows
<1>13. PassedInv'
    BY <1>2, <1>3, <1>6, ReturnedKept DEF IInv, PassedInv
<1>14. EndMeansWholeChunks' /\ ErrorMeansDamage'
    BY <1>2 DEF EndMeansWholeChunks, ErrorMeansDamage
<1> QED
    BY <1>7, <1>8, <1>9, <1>11, <1>12, <1>13, <1>14 DEF IInv

\* Another piece of chunk c, of which rem bytes are left at position p.
LEMMA ConsumeInv ==
    ASSUME IInv, Reading, UNCHANGED written,
           NEW c \in DOMAIN chunks, NEW rem \in Nat \ {0}, NEW p \in Nat, NEW k, NEW o, NEW n \in Nat,
           rem <= chunks[c].len, p + rem = EndOf(chunks[c]), BodyOf(chunks[c]) <= end,
           InStep(chunks[c].len - rem, k, o),
           Before(c, chunks[c].len - rem, out),
           \A j \in 1 .. c - 1 : Returned(j, out),
           ConsumeChunk(c, rem, p, k, o, n)
    PROVE  IInv'
PROOF
<1> DEFINE m == Piece(rem)
           done == chunks[c].len - rem
           b == Decrypted(c, done, k, o, m)
<1>1. TypeInv /\ Payload(out)
    BY DEF IInv
<1>2. /\ c \in Nat \ {0} /\ chunks[c].start \in Nat /\ chunks[c].len \in Nat /\ LenSize \in Nat
      /\ BodyOf(chunks[c]) = chunks[c].start + LenSize
      /\ EndOf(chunks[c]) = chunks[c].start + LenSize + chunks[c].len
    BY <1>1, ChunkType
<1>3. p - BodyOf(chunks[c]) = done /\ done \in Nat
    BY <1>2
<1>4. m \in Nat \ {0} /\ m <= rem
    BY ChunkAssumption DEF Piece, Lesser
<1>5. /\ Return(b, 0, n)
      /\ pos' = p + m /\ current' = c /\ remaining' = rem - m
      /\ ksIx' = k + m /\ ofb' = o + m - FromCache(k, m)
      /\ UNCHANGED <<written, status>>
    BY <1>3 DEF ConsumeChunk
<1>6. chunks' = chunks /\ end' = end
    BY <1>5 DEF written
<1>7. /\ b \in Seq(Bytes) /\ Len(b) = m
      /\ \A j \in 1 .. m : b[j] = At(c, done + j - 1)
    <2>1. c \in Nat /\ m \in Nat /\ done \in Nat /\ InStep(done, k, o)
        BY <1>2, <1>3, <1>4
    <2> HIDE DEF m, done
    <2>2. IsPiece(b, c, done, m)
        BY <2>1, DecryptedBytes
    <2> QED
        BY <2>2 DEF IsPiece
<1>8. InStep(done + m, ksIx', ofb')
    BY <1>3, <1>4, <1>5, KeyStreamInStep
<1> HIDE DEF m, b
<1>9. Holds(b, 0, c, done + m)
    <2>1. \A j \in 1 .. m : b[j] = At(c, (done + m) - m + j - 1)
        <3>1. (done + m) - m = done
            BY <1>3, <1>4
        <3> QED
            BY <1>7, <3>1
    <2>2. m - 0 <= done + m
        BY <1>3, <1>4
    <2> QED
        BY <1>7, <2>1, <2>2 DEF Holds
<1>10. Before(c, (done + m) - (Len(b) - 0), out)
    <2>1. (done + m) - (m - 0) = done
        BY <1>3, <1>4
    <2> QED
        BY <1>7, <2>1
<1>11. 0 \in 0 .. Len(b) /\ done + m \in Nat
    BY <1>3, <1>4, <1>7
<1>12. /\ buf' \in Seq(Bytes) /\ ix' \in 0 .. Len(buf')
       /\ out' \in Seq(Bytes)
       /\ Payload(out')
       /\ Holds(buf', ix', c, done + m)
       /\ Before(c, (done + m) - (Len(buf') - ix'), out')
       /\ \A j \in DOMAIN out : j \in DOMAIN out' /\ out'[j] = out[j]
    <2> HIDE DEF done
    <2> QED
        BY <1>1, <1>5, <1>7, <1>9, <1>10, <1>11, ReturnKeeps
<1>13. current' \in 0 .. Len(chunks') /\ current' # 0
    BY <1>1, <1>2, <1>5, <1>6 DEF TypeInv
<1>14. pos' \in Nat /\ remaining' \in Nat /\ pos' + remaining' = EndOf(chunks[c])
    BY <1>2, <1>4, <1>5
<1>15. TypeInv'
    BY <1>1, <1>6, <1>12, <1>13, <1>14 DEF TypeInv
<1>16. end # None /\ status = "reading"
    BY DEF Reading
<1>17. Layout' /\ DataInv'
    BY <1>5, <1>16, ReaderKeeps
<1>18. WhereInv'
    BY <1>5, <1>6, <1>13, <1>14 DEF WhereInv, EndOf, BodyOf
<1>19. Consumed' = done + m
    BY <1>2, <1>4, <1>5, <1>6 DEF Consumed
<1>20. ChunkInv'
    <2>1. /\ end' # None /\ BodyOf(chunks'[c]) <= end'
          /\ chunks'[c].len > 0 /\ remaining' <= chunks'[c].len
        BY <1>2, <1>4, <1>5, <1>6, <1>16
    <2> HIDE DEF done
    <2>2. InStep(Consumed, ksIx, ofb)'
        BY <1>8, <1>19 DEF InStep
    <2>3. Holds(buf, ix, current, Consumed)'
        BY <1>5, <1>12, <1>19 DEF Holds
    <2>4. Before(current, Consumed - (Len(buf) - ix), out)'
        BY <1>5, <1>6, <1>12, <1>19 DEF Before
    <2> QED
        BY <1>5, <1>13, <2>1, <2>2, <2>3, <2>4 DEF ChunkInv, BodyOf
<1>21. Payload(out)'
    BY <1>6, <1>12 DEF Payload, Follows
<1>22. PassedInv'
    BY <1>5, <1>6, <1>12, ReturnedKept DEF PassedInv
<1>23. EndMeansWholeChunks' /\ ErrorMeansDamage'
    BY <1>5, <1>16 DEF EndMeansWholeChunks, ErrorMeansDamage
<1> QED
    BY <1>15, <1>17, <1>18, <1>20, <1>21, <1>22, <1>23 DEF IInv

LEMMA ReadRestInv ==
    ASSUME IInv, NEW n \in Nat, ReadRest(n)
    PROVE  IInv'
PROOF
<1>1. TypeInv /\ ChunkInv /\ WhereInv /\ PassedInv
    BY DEF IInv
<1>2. /\ Reading /\ Unread = 0 /\ remaining > 0
      /\ ConsumeChunk(current, remaining, pos, ksIx, ofb, n)
    BY DEF ReadRest
<1>3. current \in DOMAIN chunks /\ current # 0
    BY <1>1, <1>2 DEF ChunkInv, TypeInv
<1>4. /\ remaining \in Nat \ {0} /\ pos \in Nat
      /\ remaining <= chunks[current].len /\ BodyOf(chunks[current]) <= end
      /\ InStep(chunks[current].len - remaining, ksIx, ofb)
      /\ pos + remaining = EndOf(chunks[current])
    BY <1>1, <1>2, <1>3 DEF ChunkInv, WhereInv, TypeInv, Reading, Consumed
<1>5. Before(current, chunks[current].len - remaining, out)
    <2>1. chunks[current].len - remaining - (Len(buf) - ix) = chunks[current].len - remaining
        BY <1>1, <1>2, <1>3, <1>4, ChunkType DEF Unread
    <2> QED
        BY <1>1, <1>3, <2>1 DEF ChunkInv, Consumed
<1>6. UNCHANGED written
    BY <1>2 DEF ConsumeChunk
<1> QED
    BY <1>1, <1>2, <1>3, <1>4, <1>5, <1>6, ConsumeInv DEF PassedInv

\* A reader behind the buffer and its chunk has returned all chunks up to it.
LEMMA ChunkIsOver ==
    ASSUME IInv, AtLength
    PROVE  /\ \A j \in 1 .. current : Returned(j, out)
           /\ Before(current + 1, 0, out)
PROOF
<1>1. TypeInv /\ ChunkInv /\ PassedInv
    BY DEF IInv
<1>2. CASE current = 0
    BY <1>1, <1>2 DEF ChunkInv, Before
<1>3. CASE current # 0
    <2>1. current \in DOMAIN chunks
        BY <1>1, <1>3 DEF TypeInv
    <2>2. chunks[current].len \in Nat /\ chunks[current].len > 0
        BY <1>1, <1>3, <2>1, ChunkType DEF ChunkInv
    <2>3. chunks[current].len - remaining - (Len(buf) - ix) = chunks[current].len
        BY <1>1, <2>2 DEF AtLength, Unread, TypeInv
    <2>4. Before(current, chunks[current].len, out)
        BY <1>1, <1>3, <2>3 DEF ChunkInv, Consumed
    <2>5. out # << >> /\ out[Len(out)] = At(current, chunks[current].len - 1)
        BY <2>2, <2>4 DEF Before
    <2>6. Len(out) \in DOMAIN out
        BY <1>1, <2>5 DEF TypeInv
    <2>7. Returned(current, out)
        BY <2>2, <2>5, <2>6 DEF Returned
    <2>8. Before(current + 1, 0, out)
        <3> DEFINE c == current + 1
        <3>1. c > 1 /\ c - 1 = current
            BY <1>1, <1>3 DEF TypeInv
        <3> HIDE DEF c
        <3>2. Before(c, 0, out)
            BY <2>5, <3>1 DEF Before
        <3> QED
            BY <3>2 DEF c
    <2> QED
        BY <1>1, <2>7, <2>8 DEF PassedInv, TypeInv
<1> QED
    BY <1>2, <1>3

\* It stands at the length of the next chunk, or at the end of them all.
LEMMA NextIsHere ==
    ASSUME IInv, Reading, AtLength
    PROVE  /\ NextChunk \in DOMAIN chunks => pos = chunks[NextChunk].start
           /\ NextChunk \notin DOMAIN chunks => pos = Size
           /\ LengthThere => NextChunk \in DOMAIN chunks
PROOF
<1>1. TypeInv /\ Layout /\ WhereInv /\ ChunkInv /\ DataInv
    BY DEF IInv
<1>2. end # None /\ end <= Size /\ remaining = 0
    BY <1>1 DEF Reading, DataInv, AtLength
<1>3. pos = IF current = 0 THEN 0 ELSE EndOf(chunks[current])
    BY <1>1, <1>2 DEF WhereInv, Reading, TypeInv
<1>4. ASSUME NextChunk \in DOMAIN chunks PROVE pos = chunks[NextChunk].start
    <2>1. CASE current = 0
        <3>1. chunks # << >>
            BY <1>1, <1>4 DEF TypeInv
        <3> QED
            BY <1>1, <1>3, <2>1, <3>1 DEF Layout, NextChunk
    <2>2. CASE current # 0
        <3>1. current \in DOMAIN chunks
            BY <1>1, <2>2 DEF TypeInv
        <3> QED
            BY <1>1, <1>3, <1>4, <2>2, <3>1 DEF Layout, NextChunk
    <2> QED
        BY <2>1, <2>2
<1>5. ASSUME NextChunk \notin DOMAIN chunks PROVE pos = Size
    <2>1. current = Len(chunks)
        BY <1>1, <1>5 DEF TypeInv, NextChunk
    <2>2. current = 0 <=> chunks = << >>
        BY <1>1, <2>1 DEF TypeInv
    <2> QED
        BY <1>1, <1>3, <2>1, <2>2, SizeIsEnd
<1>6. ASSUME LengthThere PROVE NextChunk \in DOMAIN chunks
    <2>1. Size \in Nat /\ LenSize \in Nat \ {0} /\ end \in Nat
        BY <1>1, <1>2, SizeIsEnd, ChunkAssumption DEF TypeInv
    <2>2. pos + LenSize <= end
        BY <1>6 DEF LengthThere
    <2>3. pos # Size
        BY <1>2, <2>1, <2>2
    <2> QED
        BY <1>5, <2>3
<1> QED
    BY <1>4, <1>5, <1>6

LEMMA ReadNextChunkInv ==
    ASSUME IInv, NEW n \in Nat, ReadNextChunk(n)
    PROVE  IInv'
PROOF
<1> DEFINE c == NextChunk
           len == chunks[c].len
<1>1. TypeInv
    BY DEF IInv
<1>2. /\ Reading /\ AtLength /\ LengthThere /\ Allowed(len)
      /\ ConsumeChunk(c, len, pos + LenSize, 0, 0, n)
    BY DEF ReadNextChunk, Reset
<1>3. c \in DOMAIN chunks /\ pos = chunks[c].start
    BY <1>2, NextIsHere
<1>4. /\ len \in Nat \ {0} /\ pos + LenSize \in Nat
      /\ pos + LenSize + len = EndOf(chunks[c])
      /\ BodyOf(chunks[c]) = pos + LenSize
      /\ len <= len /\ len - len = 0
    BY <1>1, <1>2, <1>3, ChunkType DEF Allowed
<1>5. BodyOf(chunks[c]) <= end
    BY <1>2, <1>4 DEF LengthThere
<1>6. InStep(0, 0, 0)
    BY ChunkAssumption DEF InStep
<1>7. Before(c, 0, out) /\ \A j \in 1 .. c - 1 : Returned(j, out)
    <2>1. c - 1 = current /\ c = current + 1
        BY <1>1 DEF NextChunk, TypeInv
    <2> HIDE DEF c
    <2> QED
        BY <1>2, <2>1, ChunkIsOver
<1>8. UNCHANGED written
    BY <1>2 DEF ConsumeChunk
<1> HIDE DEF c, len
<1>9. InStep(len - len, 0, 0) /\ Before(c, len - len, out)
    BY <1>4, <1>6, <1>7
<1>10. len = chunks[c].len
    BY DEF len
<1> QED
    BY <1>2, <1>3, <1>4, <1>5, <1>7, <1>8, <1>9, <1>10, ConsumeInv

\* At the end or an error nothing is returned.
LEMMA LastInv ==
    ASSUME IInv, status = "reading", end # None, status' # "reading",
           UNCHANGED <<written, current, remaining, buf, ix, ksIx, ofb, out>>,
           pos' \in Nat, EndMeansWholeChunks', ErrorMeansDamage'
    PROVE  IInv'
PROOF
<1>1. TypeInv /\ ChunkInv /\ Payload(out) /\ PassedInv
    BY DEF IInv
<1>2. chunks' = chunks /\ end' = end
    BY DEF written
<1>3. Layout' /\ DataInv'
    BY ReaderKeeps
<1>4. TypeInv' /\ WhereInv'
    BY <1>1, <1>2 DEF TypeInv, WhereInv
<1>5. ChunkInv'
    BY <1>1, <1>2 DEF ChunkInv, Consumed, Holds, Before, InStep, BodyOf
<1>6. Payload(out)' /\ PassedInv'
    BY <1>1, <1>2 DEF Payload, Follows, PassedInv, Returned
<1> QED
    BY <1>3, <1>4, <1>5, <1>6 DEF IInv

\* A reader that is behind all chunks whose length is there has returned them.
LEMMA ReadEndInv ==
    ASSUME IInv, ReadEnd
    PROVE  IInv'
PROOF
<1>1. TypeInv /\ Layout
    BY DEF IInv
<1>2. /\ Reading /\ AtLength /\ ~LengthThere /\ pos' = end /\ status' = "ended"
      /\ UNCHANGED <<written, current, remaining, buf, ix, ksIx, ofb, out>>
    BY DEF ReadEnd
<1>3. chunks' = chunks /\ end' = end /\ out' = out
    BY <1>2 DEF written
<1>4. end \in Nat /\ pos \in Nat /\ current \in Nat /\ LenSize \in Nat
    BY <1>1, <1>2, ChunkAssumption DEF TypeInv, Reading
<1>5. ASSUME NEW k \in DOMAIN chunks, BodyOf(chunks[k]) <= end
      PROVE  Returned(k, out)
    <2>1. k \in Nat /\ k > 0 /\ chunks[k].start \in Nat /\ BodyOf(chunks[k]) = chunks[k].start + LenSize
        BY <1>1, ChunkType
    <2>2. CASE k <= current
        BY <1>2, <1>4, <2>1, <2>2, ChunkIsOver
    <2>3. CASE k > current
        <3>1. current + 1 \in DOMAIN chunks
            BY <1>1, <1>4, <2>1, <2>3 DEF TypeInv
        <3>2. pos = chunks[current + 1].start
            BY <1>2, <3>1, NextIsHere DEF NextChunk
        <3>3. pos <= chunks[k].start
            <4>1. CASE k = current + 1
                BY <1>4, <3>2, <4>1
            <4>2. CASE current + 1 < k
                <5>1. EndOf(chunks[current + 1]) <= chunks[k].start
                    BY <1>1, <3>1, <4>2 DEF Layout
                <5>2. chunks[current + 1].start <= EndOf(chunks[current + 1])
                    BY <1>1, <3>1, ChunkType
                <5>3. EndOf(chunks[current + 1]) \in Nat
                    BY <1>1, <3>1, ChunkType
                <5> QED
                    BY <1>4, <2>1, <3>2, <5>1, <5>2, <5>3
            <4> QED
                BY <1>4, <2>1, <2>3, <4>1, <4>2
        <3> QED
            BY <1>2, <1>4, <1>5, <2>1, <3>3 DEF LengthThere
    <2> QED
        BY <1>4, <2>1, <2>2, <2>3
<1>6. EndMeansWholeChunks'
    <2>1. ASSUME NEW k \in DOMAIN chunks, BodyOf(chunks[k]) <= end
          PROVE  /\ chunks[k].len > 0
                 /\ out # << >>
                 /\ \E i \in DOMAIN out : out[i] = [chunk |-> k, off |-> chunks[k].len - 1]
        <3>1. chunks[k].len > 0 /\ \E i \in DOMAIN out : out[i] = [chunk |-> k, off |-> chunks[k].len - 1]
            BY <1>5, <2>1 DEF Returned, At
        <3>2. out # << >>
            BY <3>1
        <3> QED
            BY <3>1, <3>2
    <2> QED
        BY <1>3, <2>1 DEF EndMeansWholeChunks, BodyOf
<1>7. ErrorMeansDamage'
    BY <1>2 DEF ErrorMeansDamage
<1> QED
    BY <1>2, <1>4, <1>6, <1>7, LastInv DEF Reading

LEMMA ReadRefusedInv ==
    ASSUME IInv, ReadRefused
    PROVE  IInv'
PROOF
<1> DEFINE c == NextChunk
<1>1. TypeInv
    BY DEF IInv
<1>2. /\ Reading /\ AtLength /\ LengthThere /\ ~Allowed(chunks[c].len)
      /\ pos' = pos + LenSize /\ status' = "failed"
      /\ UNCHANGED <<written, current, remaining, buf, ix, ksIx, ofb, out>>
    BY DEF ReadRefused
<1>3. chunks' = chunks /\ end' = end
    BY <1>2 DEF written
<1>4. c \in DOMAIN chunks /\ pos = chunks[c].start
    BY <1>2, NextIsHere
<1>5. /\ BodyOf(chunks[c]) <= end
      /\ chunks[c].len \in Nat /\ pos + LenSize \in Nat
    BY <1>1, <1>2, <1>4, ChunkType DEF LengthThere
<1>6. chunks[c].len = 0 \/ chunks[c].len > MaxChunkSize
    BY <1>2, <1>5, ChunkAssumption DEF Allowed
<1> HIDE DEF c
<1>7. ErrorMeansDamage'
    BY <1>3, <1>4, <1>5, <1>6 DEF ErrorMeansDamage, BodyOf
<1>8. EndMeansWholeChunks'
    BY <1>2 DEF EndMeansWholeChunks
<1> QED
    BY <1>2, <1>5, <1>7, <1>8, LastInv DEF Reading

LEMMA ReadTruncatedInv ==
    ASSUME IInv, ReadTruncated
    PROVE  IInv'
PROOF
<1>1. TypeInv /\ ChunkInv /\ WhereInv
    BY DEF IInv
<1>2. /\ Reading /\ Unread = 0 /\ pos' = end /\ status' = "failed"
      /\ UNCHANGED <<written, current, remaining, buf, ix, ksIx, ofb, out>>
    BY DEF ReadTruncated
<1>3. chunks' = chunks /\ end' = end
    BY <1>2 DEF written
<1>4. end \in Nat /\ pos \in Nat /\ LenSize \in Nat
    BY <1>1, <1>2, ChunkAssumption DEF TypeInv, Reading
<1>5. \A r \in Nat : Piece(r) \in Nat /\ Piece(r) <= r
    BY ChunkAssumption DEF Piece, Lesser
<1>6. \E k \in DOMAIN chunks : BodyOf(chunks[k]) <= end /\ EndOf(chunks[k]) > end
    <2>1. CASE remaining > 0 /\ pos + Piece(remaining) > end
        <3>1. current \in DOMAIN chunks /\ current # 0
            BY <1>1, <2>1 DEF ChunkInv, TypeInv
        <3>2. pos + remaining = EndOf(chunks[current]) /\ BodyOf(chunks[current]) <= end
            BY <1>1, <1>2, <3>1 DEF ChunkInv, WhereInv, Reading
        <3>3. pos + remaining > end
            <4>1. remaining \in Nat
                BY <1>1 DEF TypeInv
            <4>2. Piece(remaining) \in Nat /\ Piece(remaining) <= remaining
                BY <1>5, <4>1
            <4> QED
                BY <1>4, <2>1, <4>1, <4>2
        <3> QED
            BY <3>1, <3>2, <3>3
    <2>2. CASE AtLength /\ LengthThere /\ pos + LenSize + Piece(chunks[NextChunk].len) > end
        <3> DEFINE c == NextChunk
                   len == chunks[c].len
        <3>1. c \in DOMAIN chunks /\ pos = chunks[c].start
            BY <1>2, <2>2, NextIsHere
        <3>2. /\ len \in Nat /\ BodyOf(chunks[c]) = pos + LenSize
              /\ EndOf(chunks[c]) = pos + LenSize + len
            BY <1>1, <3>1, ChunkType
        <3>3. Piece(len) \in Nat /\ Piece(len) <= len /\ pos + LenSize + Piece(len) > end
            BY <1>5, <2>2, <3>2
        <3> HIDE DEF len
        <3>4. pos + LenSize + len > end /\ pos + LenSize <= end
            BY <1>4, <2>2, <3>2, <3>3 DEF LengthThere
        <3> HIDE DEF c
        <3> QED
            BY <3>1, <3>2, <3>4
    <2> QED
        BY <2>1, <2>2 DEF ReadTruncated
<1>7. ErrorMeansDamage'
    BY <1>3, <1>6 DEF ErrorMeansDamage, BodyOf, EndOf
<1>8. EndMeansWholeChunks'
    BY <1>2 DEF EndMeansWholeChunks
<1> QED
    BY <1>2, <1>4, <1>7, <1>8, LastInv DEF Reading

LEMMA StepInv == IInv /\ [Next]_vars => IInv'
PROOF
<1> SUFFICES ASSUME IInv, [Next]_vars PROVE IInv'
    OBVIOUS
<1>1. ASSUME NEW n \in ChunkLens, WriteChunk(n) \/ WriteWzChunk(n) PROVE IInv'
    BY <1>1, PutChunkInv, ChunkAssumption DEF WriteChunk, WriteWzChunk
<1>2. CASE EndData
    BY <1>2, EndDataInv
<1>3. ASSUME NEW n \in ReadSizes, ReadSome(n) PROVE IInv'
    <2>1. n \in Nat
        BY ChunkAssumption
    <2> QED
        BY <1>3, <2>1, ReadBufferedInv, ReadRestInv, ReadNextChunkInv DEF ReadSome
<1>4. CASE ReadLast
    BY <1>4, ReadRefusedInv, ReadEndInv, ReadTruncatedInv DEF ReadLast
<1>5. CASE UNCHANGED vars
    <2>1. /\ chunks' = chunks /\ end' = end /\ pos' = pos /\ current' = current
          /\ remaining' = remaining /\ buf' = buf /\ ix' = ix /\ ksIx' = ksIx
          /\ ofb' = ofb /\ out' = out /\ status' = status
        BY <1>5 DEF vars, written, reader
    <2>2. TypeInv' /\ Layout' /\ DataInv' /\ WhereInv'
        BY <2>1 DEF IInv, TypeInv, Layout, DataInv, WhereInv, Size
    <2>3. ChunkInv' /\ Payload(out)' /\ PassedInv'
        BY <2>1 DEF IInv, ChunkInv, Payload, PassedInv, Returned, Follows, Consumed,
                    Holds, Before, InStep
    <2>4. EndMeansWholeChunks' /\ ErrorMeansDamage'
        BY <2>1 DEF IInv, EndMeansWholeChunks, ErrorMeansDamage
    <2> QED
        BY <2>2, <2>3, <2>4 DEF IInv
<1> QED
    BY <1>1, <1>2, <1>3, <1>4, <1>5 DEF Next, Writing

\* The invariant holds in every run of writer and reader.
THEOREM Invariance == Spec => []IInv
PROOF
<1>1. Init => IInv
    BY InitInv
<1>2. IInv /\ [Next]_vars => IInv'
    BY StepInv
<1> QED
    BY <1>1, <1>2, PTL DEF Spec

\* What a ChunkedReader returns is the payload from its first byte on, decrypted,
\* for every length of the chunks, the buffer, the cache and the reads
\* (chunked.rs, data_cipher.rs).
THEOREM ReadsThePayload == Spec => []OutIsPayload
PROOF
<1>1. IInv => OutIsPayload
    <2> SUFFICES ASSUME IInv PROVE OutIsPayload
        OBVIOUS
    <2>1. \A i \in DOMAIN out : out[i] \in Bytes
        BY DEF IInv, TypeInv
    <2>2. \A i \in DOMAIN out : out[i] # Garbled
        BY <2>1, ChunkAssumption DEF Bytes
    <2>3. /\ out # << >> => out[1] = [chunk |-> 1, off |-> 0]
          /\ \A i \in 1 .. Len(out) - 1 : Follows(out[i], out[i + 1])
        BY DEF IInv, Payload, At
    <2> QED
        BY <2>2, <2>3 DEF OutIsPayload
<1> QED
    BY <1>1, Invariance, PTL

\* A clean end means that every chunk whose length is in the data was returned to
\* its last byte, wherever the data ends (chunked.rs).
THEOREM CleanEnd == Spec => []EndMeansWholeChunks
PROOF
<1>1. IInv => EndMeansWholeChunks
    BY DEF IInv
<1> QED
    BY <1>1, Invariance, PTL

\* An error means that the data is cut within a chunk, or that a chunk is empty or
\* longer than a ChunkWriter writes (chunked.rs).
THEOREM ErrorsAreDamage == Spec => []ErrorMeansDamage
PROOF
<1>1. IInv => ErrorMeansDamage
    BY DEF IInv
<1> QED
    BY <1>1, Invariance, PTL
-----------------------------------------------------------------------------
(* Strings *)

Char == {"latin", "wide", "pair"}
Unit == {"latin", "wide", "high", "low"}
Read == Unit \union {Garbled}

UnitsFcn == [c \in Char |-> UnitsOf(c)]
CharactersFcn == [u \in Read |-> CharactersOf(u)]

LEMMA SameFlatten ==
    \A seqs : Seqs!FlattenSeq(seqs) = Ext!FlattenSeq(seqs)
    BY DEF Seqs!FlattenSeq, Ext!FlattenSeq

LEMMA UnitsOfIs ==
    ASSUME NEW x \in Char
    PROVE  /\ UnitsOf(x) \in Seq(Unit)
           /\ CASE x = "pair" -> /\ UnitsOf(x) = <<"high", "low">> /\ Len(UnitsOf(x)) = 2
                                 /\ UnitsOf(x)[1] = "high" /\ UnitsOf(x)[2] = "low"
                [] OTHER -> /\ UnitsOf(x) = <<x>> /\ Len(UnitsOf(x)) = 1 /\ UnitsOf(x)[1] = x
                            /\ x \in Unit /\ x # "high" /\ x # "low"
PROOF
<1>1. CASE x = "pair"
    <2> DEFINE h == "high"
               l == "low"
    <2>1. UnitsOf(x) = <<h, l>> /\ h \in Unit /\ l \in Unit
        BY <1>1 DEF UnitsOf, Unit
    <2> HIDE DEF h, l
    <2>2. <<h, l>> \in Seq(Unit) /\ Len(<<h, l>>) = 2 /\ <<h, l>>[1] = h /\ <<h, l>>[2] = l
        BY <2>1, ShortSeqs
    <2> QED
        BY <1>1, <2>1, <2>2 DEF h, l
<1>2. CASE x # "pair"
    <2>1. UnitsOf(x) = <<x>> /\ x \in Unit /\ x # "high" /\ x # "low"
        BY <1>2 DEF UnitsOf, Unit, Char
    <2>2. <<x>> \in Seq(Unit) /\ Len(<<x>>) = 1 /\ <<x>>[1] = x
        BY <2>1, ShortSeqs
    <2> QED
        BY <1>2, <2>1, <2>2
<1> QED
    BY <1>1, <1>2

LEMMA CharactersOfIs ==
    ASSUME NEW u \in Read
    PROVE  /\ CharactersOf(u) \in Seq(Char \union {Garbled})
           /\ u = "high" => CharactersOf(u) = <<"pair">>
           /\ u = "low" => CharactersOf(u) = << >>
           /\ u # "high" /\ u # "low" => CharactersOf(u) = <<u>>
PROOF
<1> DEFINE B == Char \union {Garbled}
           p == "pair"
<1>1. CASE u = "high"
    <2>1. CharactersOf(u) = <<p>> /\ p \in B
        BY <1>1 DEF CharactersOf, Char
    <2> HIDE DEF p, B
    <2>2. <<p>> \in Seq(B)
        BY <2>1, ShortSeqs
    <2> QED
        BY <1>1, <2>1, <2>2 DEF p, B
<1>2. CASE u = "low"
    BY <1>2 DEF CharactersOf
<1>3. CASE u # "high" /\ u # "low"
    <2>1. CharactersOf(u) = <<u>> /\ u \in B
        BY <1>3 DEF CharactersOf, Read, Unit, Char
    <2> HIDE DEF B
    <2>2. <<u>> \in Seq(B)
        BY <2>1, ShortSeqs
    <2> QED
        BY <1>3, <2>1, <2>2 DEF B
<1> QED
    BY <1>1, <1>2, <1>3

\* Units are made one character after the other, and characters one unit after
\* the other.
LEMMA UnitsAppend ==
    ASSUME NEW t \in Seq(Char), NEW x \in Char
    PROVE  /\ Units(<< >>) = << >>
           /\ Units(t) \in Seq(Unit)
           /\ Units(Append(t, x)) = Units(t) \o UnitsOf(x)
PROOF
<1>1. Spreads(UnitsFcn, Char, Unit)
    <2>1. \A c \in Char : UnitsOf(c) \in Seq(Unit)
        BY UnitsOfIs
    <2> QED
        BY <2>1 DEF Spreads, UnitsFcn
<1>2. ASSUME NEW s \in Seq(Char) PROVE Units(s) = Spread(UnitsFcn, s)
    <2>1. \A i \in DOMAIN s : s[i] \in Char
        OBVIOUS
    <2>2. [i \in DOMAIN s |-> UnitsOf(s[i])] = [i \in DOMAIN s |-> UnitsFcn[s[i]]]
        BY <2>1 DEF UnitsFcn
    <2> QED
        BY <2>2, SameFlatten DEF Units, Spread
<1>3. UnitsFcn[x] = UnitsOf(x)
    BY DEF UnitsFcn
<1>4. Append(t, x) \in Seq(Char) /\ << >> \in Seq(Char)
    OBVIOUS
<1>5. /\ Spread(UnitsFcn, << >>) = << >>
      /\ Spread(UnitsFcn, t) \in Seq(Unit)
      /\ Spread(UnitsFcn, Append(t, x)) = Spread(UnitsFcn, t) \o UnitsFcn[x]
    BY <1>1, SpreadAppend
<1> QED
    BY <1>2, <1>3, <1>4, <1>5

LEMMA CharactersJoined ==
    ASSUME NEW a \in Seq(Read), NEW b \in Seq(Read), NEW u \in Read
    PROVE  /\ Characters(<< >>) = << >>
           /\ Characters(a) \in Seq(Char \union {Garbled})
           /\ Characters(Append(a, u)) = Characters(a) \o CharactersOf(u)
           /\ Characters(a \o b) = Characters(a) \o Characters(b)
PROOF
<1> DEFINE B == Char \union {Garbled}
           ab == a \o b
           au == Append(a, u)
<1>1. Spreads(CharactersFcn, Read, B)
    <2>1. \A c \in Read : CharactersOf(c) \in Seq(B)
        BY CharactersOfIs
    <2> QED
        BY <2>1 DEF Spreads, CharactersFcn
<1>2. ASSUME NEW s \in Seq(Read) PROVE Characters(s) = Spread(CharactersFcn, s)
    <2>1. \A i \in DOMAIN s : s[i] \in Read
        OBVIOUS
    <2>2. [i \in DOMAIN s |-> CharactersOf(s[i])] = [i \in DOMAIN s |-> CharactersFcn[s[i]]]
        BY <2>1 DEF CharactersFcn
    <2> QED
        BY <2>2, SameFlatten DEF Characters, Spread
<1>3. CharactersFcn[u] = CharactersOf(u)
    BY DEF CharactersFcn
<1>4. ab \in Seq(Read) /\ au \in Seq(Read) /\ << >> \in Seq(Read)
    OBVIOUS
<1> HIDE DEF B
<1>5. /\ Spread(CharactersFcn, << >>) = << >>
      /\ Spread(CharactersFcn, a) \in Seq(B)
      /\ Spread(CharactersFcn, au) = Spread(CharactersFcn, a) \o CharactersFcn[u]
    BY <1>1, SpreadAppend
<1>6. Spread(CharactersFcn, ab) = Spread(CharactersFcn, a) \o Spread(CharactersFcn, b)
    BY <1>1, SpreadJoined
<1>7. /\ Characters(ab) = Spread(CharactersFcn, ab)
      /\ Characters(au) = Spread(CharactersFcn, au)
      /\ Characters(a) = Spread(CharactersFcn, a)
      /\ Characters(b) = Spread(CharactersFcn, b)
      /\ Characters(<< >>) = Spread(CharactersFcn, << >>)
    <2> HIDE DEF ab, au
    <2> QED
        BY <1>2, <1>4
<1> QED
    <2>1. Characters(ab) = Characters(a) \o Characters(b)
        BY <1>6, <1>7
    <2>2. Characters(au) = Characters(a) \o CharactersOf(u)
        BY <1>3, <1>5, <1>7
    <2> QED
        BY <1>5, <1>7, <2>1, <2>2 DEF B, ab, au

\* A longer well-formed sequence.
LEMMA WellFormedGrows ==
    ASSUME NEW us \in Seq(Unit), WellFormed(us), NEW x \in Char
    PROVE  WellFormed(us \o UnitsOf(x))
PROOF
<1> DEFINE v == UnitsOf(x)
           w == us \o v
<1>1. /\ v \in Seq(Unit) /\ Len(v) \in {1, 2}
      /\ Len(v) = 1 => v[1] # "high" /\ v[1] # "low"
      /\ Len(v) = 2 => v[1] = "high" /\ v[2] = "low"
    BY UnitsOfIs
<1> HIDE DEF v
<1>2. /\ w \in Seq(Unit) /\ Len(w) = Len(us) + Len(v)
      /\ \A i \in 1 .. Len(us) : w[i] = us[i]
      /\ \A i \in 1 .. Len(v) : w[Len(us) + i] = v[i]
    BY <1>1, Joined
<1>3. DOMAIN us = 1 .. Len(us) /\ Len(us) \in Nat /\ DOMAIN w = 1 .. Len(w)
    BY <1>2
<1> HIDE DEF w
<1>4. ASSUME NEW i \in DOMAIN w
      PROVE  /\ w[i] = "high" => i < Len(w) /\ w[i + 1] = "low"
             /\ w[i] = "low"  => i > 1 /\ w[i - 1] = "high"
    <2>1. CASE i <= Len(us)
        <3>1. i \in 1 .. Len(us)
            BY <1>3, <2>1
        <3>2. /\ us[i] = "high" => i < Len(us) /\ us[i + 1] = "low"
              /\ us[i] = "low"  => i > 1 /\ us[i - 1] = "high"
            BY <1>3, <3>1 DEF WellFormed
        <3>3. i < Len(us) => i + 1 \in 1 .. Len(us)
            BY <1>3, <3>1
        <3>4. i > 1 => i - 1 \in 1 .. Len(us)
            BY <1>3, <3>1
        <3> QED
            BY <1>1, <1>2, <1>3, <3>1, <3>2, <3>3, <3>4
    <2>2. CASE i = Len(us) + 1
        <3>1. w[i] = v[1]
            BY <1>1, <1>2, <2>2
        <3>2. CASE Len(v) = 1
            BY <1>1, <3>1, <3>2
        <3>3. CASE Len(v) = 2
            <4>1. w[i + 1] = v[2] /\ i < Len(w)
                BY <1>2, <1>3, <2>2, <3>3
            <4> QED
                BY <1>1, <3>1, <3>3, <4>1
        <3> QED
            BY <1>1, <3>2, <3>3
    <2>3. CASE i = Len(us) + 2
        <3>1. Len(v) = 2
            BY <1>1, <1>2, <1>3, <2>3
        <3>2. w[i] = v[2] /\ w[i - 1] = v[1] /\ i > 1
            BY <1>2, <1>3, <2>3, <3>1
        <3> QED
            BY <1>1, <3>1, <3>2
    <2>4. i \in 1 .. Len(us) + Len(v)
        BY <1>2, <1>3
    <2>5. i <= Len(us) \/ i = Len(us) + 1 \/ i = Len(us) + 2
        <3> DEFINE lu == Len(us)
                   lv == Len(v)
        <3>1. lu \in Nat /\ lv \in {1, 2} /\ i \in 1 .. lu + lv
            BY <1>1, <1>3, <2>4
        <3> HIDE DEF lu, lv
        <3>2. i <= lu \/ i = lu + 1 \/ i = lu + 2
            BY <3>1
        <3> QED
            BY <3>2 DEF lu
    <2> QED
        BY <2>1, <2>2, <2>3, <2>5
<1> QED
    BY <1>4 DEF WellFormed, w, v

\* The units of a string are its characters again, and each of its surrogates is
\* part of a pair.
LEMMA UnitsReadBack ==
    ASSUME NEW t \in Seq(Char)
    PROVE  /\ Units(t) \in Seq(Unit)
           /\ Characters(Units(t)) = t
           /\ WellFormed(Units(t))
           /\ Len(Units(t)) >= Len(t)
           /\ IsLatin(t) => Units(t) = t
PROOF
<1> DEFINE P(s) == /\ Units(s) \in Seq(Unit)
                   /\ Characters(Units(s)) = s
                   /\ WellFormed(Units(s))
                   /\ Len(Units(s)) >= Len(s)
                   /\ IsLatin(s) => Units(s) = s
           S == {s \in Seq(Char) : P(s)}
<1>1. << >> \in S
    <2>1. << >> \in Seq(Char) /\ << >> \in Seq(Read) /\ << >> \in Seq(Unit)
        OBVIOUS
    <2>2. Units(<< >>) = << >>
        BY <2>1, UnitsAppend DEF Char
    <2>3. Characters(<< >>) = << >>
        BY <2>1, CharactersJoined DEF Read
    <2>4. WellFormed(<< >>)
        BY DEF WellFormed
    <2>5. P(<< >>)
        <3>1. Len(<< >>) >= Len(<< >>)
            OBVIOUS
        <3> QED
            BY <2>1, <2>2, <2>3, <2>4, <3>1, Zenon
    <2> HIDE DEF P
    <2> QED
        BY <2>1, <2>5
<1>2. ASSUME NEW s \in Seq(Char), NEW x \in Char, s \in S
      PROVE  Append(s, x) \in S
    <2> DEFINE u == Units(s)
               v == UnitsOf(x)
               a == Append(s, x)
    <2>1. a \in Seq(Char) /\ Len(a) = Len(s) + 1 /\ Len(s) \in Nat
        OBVIOUS
    <2>2. P(s)
        BY <1>2
    <2>3. Units(a) = u \o v
        BY UnitsAppend
    <2>4. v \in Seq(Unit) /\ Len(v) \in {1, 2} /\ (x = "latin" => v = <<x>>)
        BY UnitsOfIs
    <2>5. Characters(v) = <<x>>
        <3>1. \A c \in Read : Characters(<<c>>) = CharactersOf(c)
            <4>1. ASSUME NEW c \in Read PROVE Characters(<<c>>) = CharactersOf(c)
                <5>1. << >> \in Seq(Read) /\ Append(<< >>, c) = <<c>>
                    BY ShortSeqs
                <5>2. Characters(Append(<< >>, c)) = Characters(<< >>) \o CharactersOf(c)
                      /\ Characters(<< >>) = << >>
                    BY <5>1, CharactersJoined
                <5>3. CharactersOf(c) \in Seq(Char \union {Garbled})
                    BY CharactersOfIs
                <5>4. \A w \in Seq(Char \union {Garbled}) : << >> \o w = w
                    OBVIOUS
                <5> QED
                    BY <5>1, <5>2, <5>3, <5>4
            <4> QED
                BY <4>1
        <3>2. CASE x = "pair"
            <4> DEFINE h == "high"
                       l == "low"
            <4>1. v = <<h, l>> /\ h \in Read /\ l \in Read
                BY <3>2, UnitsOfIs DEF Read, Unit
            <4>2. CharactersOf(h) = <<x>> /\ CharactersOf(l) = << >>
                BY <3>2 DEF CharactersOf
            <4> HIDE DEF h, l, v
            <4>3. <<h>> \in Seq(Read) /\ v = Append(<<h>>, l)
                BY <4>1, ShortSeqs
            <4>4. Characters(Append(<<h>>, l)) = Characters(<<h>>) \o CharactersOf(l)
                BY <4>1, <4>3, CharactersJoined
            <4>5. <<x>> \o << >> = <<x>>
                OBVIOUS
            <4> QED
                BY <3>1, <4>1, <4>2, <4>3, <4>4, <4>5
        <3>3. CASE x # "pair"
            <4>1. v = <<x>> /\ x \in Read /\ CharactersOf(x) = <<x>>
                BY <3>3, UnitsOfIs DEF Read, Unit, CharactersOf
            <4> QED
                BY <3>1, <4>1
        <3> QED
            BY <3>2, <3>3
    <2>6. u \in Seq(Read) /\ v \in Seq(Read)
        BY <2>2, <2>4 DEF Read
    <2>7. WellFormed(u \o v)
        BY <2>2, WellFormedGrows
    <2> HIDE DEF u, v
    <2>8. Characters(u \o v) = Characters(u) \o Characters(v)
        BY <2>6, CharactersJoined DEF Read
    <2>9. Characters(u) = s
        BY <2>2 DEF u
    <2>10. s \o <<x>> = a
        OBVIOUS
    <2>11. /\ u \o v \in Seq(Unit) /\ Len(u \o v) = Len(u) + Len(v)
           /\ Len(u) \in Nat /\ Len(u) >= Len(s)
        BY <2>2, <2>4 DEF u
    <2>12. IsLatin(a) => u \o v = a
        <3>1. SUFFICES ASSUME IsLatin(a) PROVE u \o v = a
            OBVIOUS
        <3>2. IsLatin(s) /\ x = "latin"
            <4>1. /\ DOMAIN a = 1 .. Len(s) + 1 /\ DOMAIN s = 1 .. Len(s)
                  /\ a[Len(s) + 1] = x /\ \A i \in 1 .. Len(s) : a[i] = s[i]
                OBVIOUS
            <4> HIDE DEF a
            <4> QED
                BY <2>1, <3>1, <4>1 DEF IsLatin
        <3> QED
            BY <2>2, <2>4, <2>10, <3>2 DEF u
    <2> HIDE DEF a
    <2>13. P(a)
        <3>1. Len(u \o v) >= Len(a)
            <4> DEFINE lu == Len(u)
                       lv == Len(v)
                       luv == Len(u \o v)
            <4>1. lu \in Nat /\ lv \in {1, 2} /\ luv = lu + lv /\ lu >= Len(s)
                BY <2>4, <2>11
            <4> HIDE DEF lu, lv, luv
            <4>2. luv >= Len(a)
                BY <2>1, <4>1
            <4> QED
                BY <4>2 DEF luv
        <3> QED
            BY <2>3, <2>5, <2>7, <2>8, <2>9, <2>10, <2>11, <2>12, <3>1
    <2> QED
        BY <2>1, <2>13 DEF a
<1> HIDE DEF S
<1>3. \A s \in Seq(Char) : s \in S
    BY <1>1, <1>2, SeqInSet
<1> QED
    BY <1>3 DEF S

\* Units that are read without the keystream they were written with make no
\* character of the string.
LEMMA GarbledCharacters ==
    ASSUME NEW us \in Seq({Garbled})
    PROVE  Characters(us) = us
PROOF
<1> DEFINE S == {s \in Seq({Garbled}) : Characters(s) = s}
<1>1. << >> \in S
    <2>1. << >> \in Seq(Read) /\ << >> \in Seq({Garbled})
        OBVIOUS
    <2>2. Characters(<< >>) = << >>
        BY <2>1, CharactersJoined DEF Read
    <2> QED
        BY <2>1, <2>2
<1>2. ASSUME NEW s \in Seq({Garbled}), NEW x \in {Garbled}, s \in S
      PROVE  Append(s, x) \in S
    <2>1. s \in Seq(Read) /\ x \in Read /\ Characters(s) = s
        BY <1>2 DEF Read
    <2>2. CharactersOf(x) = <<x>>
        BY TextAssumption DEF CharactersOf
    <2>3. Characters(Append(s, x)) = s \o <<x>>
        BY <2>1, <2>2, CharactersJoined
    <2> QED
        BY <2>3
<1> HIDE DEF S
<1>3. \A s \in Seq({Garbled}) : s \in S
    BY <1>1, <1>2, SeqInSet
<1> QED
    BY <1>3 DEF S

-----------------------------------------------------------------------------
(* The inductive invariant of the strings *)

\* Positions of the keystream that unit j of b bytes each is encoded with, and
\* the unit on the disk.
Key(j, b) == [k \in 1 .. b |-> (j - 1) * b + k - 1]
Encoded(t, c, j) ==
    [unit |-> Units(t)[j],
     ks   |-> IF c THEN Key(j, UnitBytes(t)) ELSE << >>,
     mask |-> IF c THEN j ELSE None]
Disk(t, c, n) == [j \in 1 .. n |-> Encoded(t, c, j)]
Behind(t, c, k, n) == [i \in 1 .. n |-> Encoded(t, c, k + i)]

HeaderInv == flag = Header(text).flag /\ long = Header(text).long

DiskInv == \E n \in 0 .. Len(Units(text)) : disk = Disk(text, cipher, n)

\* The stream s has crypted the n units in front.
AtUnit(s, n, b) == InStep(n * b, s.ix, s.ofb)

\* The reader does not stand within a pair, and what it has read is the string up
\* to there.
PlaceInv ==
    /\ AtUnit(stream, place, UnitBytes(text))
    /\ decoded = Characters(SubSeq(Units(text), 1, place))
    /\ place > 0 => Units(text)[place] # "high"

TextInv ==
    /\ text \in Seq(Char) /\ cipher \in BOOLEAN
    /\ HeaderInv
    /\ DiskInv
    /\ phase = "writing" => /\ place = 0 /\ decoded = << >>
                            /\ cipher => AtUnit(stream, Len(disk), UnitBytes(text))
    /\ phase = "written" => PlaceInv /\ place = 0
    /\ phase = "pieces" => PlaceInv /\ cipher /\ place \in 0 .. Len(Units(text)) - 1
    /\ TextReadsBack

-----------------------------------------------------------------------------
(* Lemmas *)

LEMMA TextFacts ==
    ASSUME text \in Seq(Char)
    PROVE  /\ Units(text) \in Seq(Unit) /\ Len(Units(text)) \in Nat
           /\ \A j \in 1 .. Len(Units(text)) : Units(text)[j] \in Unit
           /\ UnitBytes(text) \in {1, 2}
           /\ UnitBytes(text) = 1 <=> IsLatin(text)
           /\ ~IsLatin(text) => Len(Units(text)) > 0
           /\ IsLatin(text) => \A j \in 1 .. Len(Units(text)) : Units(text)[j] = "latin"
           /\ text # << >> => Len(Units(text)) > 0
PROOF
<1> DEFINE u == Units(text)
<1>1. u \in Seq(Unit) /\ Len(u) >= Len(text) /\ (IsLatin(text) => u = text)
    BY UnitsReadBack
<1>2. ~IsLatin(text) => text # << >>
    BY DEF IsLatin
<1>3. text # << >> => Len(text) > 0
    OBVIOUS
<1> HIDE DEF u
<1>4. Len(u) \in Nat /\ Len(text) \in Nat /\ (\A j \in 1 .. Len(u) : u[j] \in Unit)
      /\ DOMAIN u = 1 .. Len(u)
    BY <1>1
<1>5. text # << >> => Len(u) > 0
    BY <1>1, <1>3, <1>4
<1>6. IsLatin(text) => \A j \in 1 .. Len(u) : u[j] = "latin"
    BY <1>1, <1>4 DEF IsLatin
<1>7. UnitBytes(text) \in {1, 2} /\ (UnitBytes(text) = 1 <=> IsLatin(text))
    BY DEF UnitBytes
<1> QED
    BY <1>1, <1>2, <1>4, <1>5, <1>6, <1>7 DEF u

\* The header says how many units there are and how long each is.
LEMMA HeaderIsRead ==
    ASSUME text \in Seq(Char), HeaderInv
    PROVE  Count = Len(Units(text)) /\ ReadBytes = UnitBytes(text)
PROOF
<1> DEFINE n == Len(Units(text))
           e == -Escape8
<1>1. n \in Nat /\ (~IsLatin(text) => n > 0)
    BY TextFacts
<1>2. e \in Nat \ {0} /\ Escape16 \in Nat \ {0}
    BY TextAssumption
<1>3. Escape8 = -e
    BY TextAssumption
<1> HIDE DEF n, e
<1>4. CASE IsLatin(text)
    <2>1. flag = (IF n >= e THEN -e ELSE -n) /\ long = (IF n >= e THEN n ELSE None)
        BY <1>3, <1>4 DEF HeaderInv, Header, n, e
    <2>2. flag <= 0 /\ flag # Escape16 /\ (n < e => flag # Escape8 /\ -flag = n)
        BY <1>1, <1>2, <1>3, <2>1
    <2>3. n >= e => flag = Escape8 /\ long = n
        BY <1>3, <2>1
    <2>4. n >= e \/ n < e
        BY <1>1, <1>2
    <2> QED
        BY <1>4, <2>2, <2>3, <2>4 DEF Count, ReadBytes, UnitBytes, n
<1>5. CASE ~IsLatin(text)
    <2>1. flag = (IF n >= Escape16 THEN Escape16 ELSE n) /\ long = (IF n >= Escape16 THEN n ELSE None)
        BY <1>5 DEF HeaderInv, Header, n
    <2>2. ~(flag <= 0) /\ flag # Escape8 /\ (n < Escape16 => flag # Escape16 /\ flag = n)
        BY <1>1, <1>2, <1>3, <1>5, <2>1
    <2>3. n >= Escape16 => flag = Escape16 /\ long = n
        BY <2>1
    <2>4. n >= Escape16 \/ n < Escape16
        BY <1>1, <1>2
    <2> QED
        BY <1>5, <2>2, <2>3, <2>4 DEF Count, ReadBytes, UnitBytes, n
<1> QED
    BY <1>4, <1>5

\* A stream behind the first n units encodes, or decodes, the next m with their
\* places in the keystream and the mask.
LEMMA MeetsInStep ==
    ASSUME NEW s, NEW n \in Nat, NEW m \in Nat, NEW b \in {1, 2}, AtUnit(s, n, b)
    PROVE  /\ \A i \in 1 .. m : Meets(s, n, m, b)[i] =
                    [ks |-> IF cipher THEN Key(n + i, b) ELSE << >>, mask |-> n + i]
           /\ AtUnit(Advance(s, m * b), n + m, b)
PROOF
<1> DEFINE N == n * b
           M == m * b
           K == KeyStream(s.ix, s.ofb, M)
<1>1. N \in Nat /\ M \in Nat /\ (n + m) * b = N + M /\ b \in Nat \ {0}
    <2>1. CASE b = 1
        BY <2>1
    <2>2. CASE b = 2
        BY <2>2
    <2> QED
        BY <2>1, <2>2
<1>2. ASSUME NEW i \in 1 .. m
      PROVE  /\ (i - 1) * b \in 0 .. M - b /\ i * b = (i - 1) * b + b
             /\ (n + i - 1) * b = N + (i - 1) * b
    <2>1. CASE b = 1
        BY <2>1
    <2>2. CASE b = 2
        BY <2>2
    <2> QED
        BY <2>1, <2>2
<1>3. InStep(N, s.ix, s.ofb)
    BY DEF AtUnit
<1> HIDE DEF N, M
<1>4. /\ \A k \in 1 .. M : K[k] = N + k - 1
      /\ InStep(N + M, s.ix + M, s.ofb + M - FromCache(s.ix, M))
    BY <1>1, <1>3, KeyStreamInStep
<1>5. K = [k \in 1 .. M |-> N + k - 1]
    <2>1. K = [k \in 1 .. M |-> K[k]]
        BY DEF KeyStream
    <2> HIDE DEF K
    <2> QED
        BY <1>4, <2>1
<1> HIDE DEF K
<1>6. K \in Seq(Nat) /\ Len(K) = M
    <2>1. K \in [1 .. M -> Nat]
        BY <1>1, <1>5
    <2> QED
        BY <1>1, <2>1, SeqIs
<1>7. ASSUME NEW i \in 1 .. m
      PROVE  SubSeq(K, (i - 1) * b + 1, i * b) = Key(n + i, b)
    <2> DEFINE f == (i - 1) * b
               p == SubSeq(K, f + 1, f + b)
               q == Key(n + i, b)
    <2>1. f \in 0 .. M /\ b \in 0 .. M - f /\ i * b = f + b /\ (n + i - 1) * b = N + f
        BY <1>1, <1>2
    <2>2. q = [k \in 1 .. b |-> (n + i - 1) * b + k - 1]
        BY DEF Key
    <2> HIDE DEF f
    <2>3. p \in Seq(Nat) /\ Len(p) = b /\ \A k \in 1 .. b : p[k] = K[f + k]
        BY <1>6, <2>1, PartOf
    <2>4. \A k \in 1 .. b : p[k] = N + f + k - 1
        <3>1. \A k \in 1 .. b : f + k \in 1 .. M /\ N + (f + k) - 1 = N + f + k - 1
            BY <1>1, <2>1
        <3> HIDE DEF p
        <3> QED
            BY <1>4, <2>3, <3>1
    <2> HIDE DEF p, q
    <2>5. q = [k \in 1 .. b |-> N + f + k - 1]
        BY <2>1, <2>2
    <2>6. q \in [1 .. b -> Nat] /\ \A k \in 1 .. b : q[k] = N + f + k - 1
        <3>1. \A k \in 1 .. b : N + f + k - 1 \in Nat
            BY <1>1, <2>1
        <3> QED
            BY <2>5, <3>1
    <2>7. q \in Seq(Nat) /\ Len(q) = b
        BY <1>1, <2>6, SeqIs
    <2>8. p = q
        BY <2>3, <2>4, <2>6, <2>7, SeqEqual
    <2> QED
        BY <2>1, <2>8 DEF p, q
<1>8. ASSUME NEW i \in 1 .. m
      PROVE  Meets(s, n, m, b)[i] =
                    [ks |-> IF cipher THEN Key(n + i, b) ELSE << >>, mask |-> n + i]
    BY <1>7 DEF Meets, K, M
<1>9. AtUnit(Advance(s, m * b), n + m, b)
    <2>1. Advance(s, M).ix = s.ix + M /\ Advance(s, M).ofb = s.ofb + M - FromCache(s.ix, M)
        BY DEF Advance
    <2>2. InStep((n + m) * b, Advance(s, M).ix, Advance(s, M).ofb)
        BY <1>1, <1>4, <2>1
    <2> QED
        BY <2>2 DEF AtUnit, M
<1> QED
    BY <1>8, <1>9

\* Units that are there are decoded as they were written, if there is a cipher.
LEMMA DecodeIs ==
    ASSUME text \in Seq(Char), cipher \in BOOLEAN, HeaderInv, place \in Nat,
           NEW k \in 0 .. Len(Units(text)), disk = Disk(text, cipher, k),
           NEW n \in Nat, place + n <= Len(disk),
           NEW s, AtUnit(s, place, UnitBytes(text))
    PROVE  /\ place + n <= Len(Units(text))
           /\ cipher => Decode(n, s) = SubSeq(Units(text), place + 1, place + n)
           /\ ~cipher => Decode(n, s) \in Seq({Garbled}) /\ Len(Decode(n, s)) = n
PROOF
<1> DEFINE u == Units(text)
           d == Decode(n, s)
           b == UnitBytes(text)
           m == Meets(s, place, n, b)
<1>1. u \in Seq(Unit) /\ Len(u) \in Nat /\ b \in {1, 2}
    BY TextFacts
<1>2. ReadBytes = b
    BY HeaderIsRead
<1>3. Len(disk) = k /\ k \in Nat
    <2>1. k \in Nat
        BY <1>1
    <2>2. DOMAIN disk = 1 .. k
        BY DEF Disk
    <2>3. disk \in Seq({Encoded(text, cipher, j) : j \in 1 .. k})
        BY <2>1 DEF Disk
    <2> QED
        BY <2>1, <2>2, <2>3
<1>4. /\ \A i \in 1 .. n : m[i] = [ks |-> IF cipher THEN Key(place + i, b) ELSE << >>,
                                  mask |-> place + i]
    <2>1. AtUnit(s, place, b)
        OBVIOUS
    <2> HIDE DEF b
    <2> QED
        BY <1>1, <2>1, MeetsInStep
<1>5. ASSUME NEW i \in 1 .. n
      PROVE  /\ place + i \in 1 .. Len(u)
             /\ disk[place + i] = Encoded(text, cipher, place + i)
    BY <1>1, <1>3 DEF Disk
<1>6. d = [i \in 1 .. n |-> IF disk[place + i].ks = m[i].ks /\ disk[place + i].mask = m[i].mask
                           THEN disk[place + i].unit ELSE Garbled]
    BY <1>2 DEF Decode
<1>7. ASSUME NEW i \in 1 .. n
      PROVE  d[i] = IF cipher THEN u[place + i] ELSE Garbled
    <2> DEFINE j == place + i
               key == IF cipher THEN Key(j, b) ELSE << >>
    <2>1. j \in Nat /\ j # None
        BY ChunkAssumption
    <2>2. m[i].ks = key /\ m[i].mask = j
        <3>1. m[i] = [ks |-> key, mask |-> j]
            BY <1>4
        <3> HIDE DEF m, key, j
        <3> QED
            BY <3>1
    <2>3. disk[j].unit = u[j] /\ disk[j].ks = key /\ disk[j].mask = IF cipher THEN j ELSE None
        <3>1. disk[j] = [unit |-> u[j], ks |-> key, mask |-> IF cipher THEN j ELSE None]
            BY <1>5 DEF Encoded
        <3> HIDE DEF u, key, j
        <3> QED
            BY <3>1
    <2>4. d[i] = IF disk[place + i].ks = m[i].ks /\ disk[place + i].mask = m[i].mask
                 THEN disk[place + i].unit ELSE Garbled
        BY <1>6
    <2> HIDE DEF d, m, u, b
    <2> QED
        BY <2>1, <2>2, <2>3, <2>4
<1>8. d = [i \in 1 .. n |-> d[i]]
    BY <1>6
<1> HIDE DEF d, u
<1>9. ASSUME cipher PROVE d = SubSeq(u, place + 1, place + n)
    <2> DEFINE p == SubSeq(u, place + 1, place + n)
    <2>1. p \in Seq(Unit) /\ Len(p) = n /\ \A i \in 1 .. n : p[i] = u[place + i]
        <3>1. place \in 0 .. Len(u) /\ n \in 0 .. Len(u) - place
            BY <1>1, <1>3 DEF u
        <3> QED
            BY <1>1, <3>1, PartOf
    <2> HIDE DEF p
    <2>2. \A i \in 1 .. n : d[i] = p[i] /\ d[i] \in Unit
        <3>1. \A i \in 1 .. n : u[place + i] \in Unit
            BY <1>1, <1>5
        <3> QED
            BY <1>7, <1>9, <2>1, <3>1
    <2>3. d \in [1 .. n -> Unit]
        BY <1>8, <2>2
    <2>4. d \in Seq(Unit) /\ Len(d) = n
        BY <2>3, SeqIs
    <2>5. d = p
        BY <2>1, <2>2, <2>4, SeqEqual
    <2> QED
        BY <2>5 DEF p
<1>10. ASSUME ~cipher PROVE d \in Seq({Garbled}) /\ Len(d) = n
    <2>1. d \in [1 .. n -> {Garbled}]
        BY <1>7, <1>8, <1>10
    <2> QED
        BY <2>1, SeqIs
<1> QED
    BY <1>1, <1>3, <1>9, <1>10 DEF d, u

\* A part of a well-formed sequence that does not begin within a pair is well-formed
\* unless it ends within one.
LEMMA PieceOf ==
    ASSUME NEW us \in Seq(Unit), WellFormed(us), NEW i \in Nat, NEW n \in Nat, i + n <= Len(us),
           i > 0 => us[i] # "high"
    PROVE  LET piece == SubSeq(us, i + 1, i + n)
           IN  /\ ~WellFormed(piece) => i + n \in 1 .. Len(us) - 1 /\ us[i + n] = "high"
               /\ WellFormed(piece) /\ n > 0 => us[i + n] # "high"
PROOF
<1> DEFINE piece == SubSeq(us, i + 1, i + n)
<1>1. Len(us) \in Nat /\ DOMAIN us = 1 .. Len(us)
    OBVIOUS
<1>2. piece \in Seq(Unit) /\ Len(piece) = n /\ \A j \in 1 .. n : piece[j] = us[i + j]
    <2>1. i \in 0 .. Len(us) /\ n \in 0 .. Len(us) - i
        BY <1>1
    <2> QED
        BY <2>1, PartOf
<1>3. DOMAIN piece = 1 .. n
    BY <1>2
<1> HIDE DEF piece
<1>4. ASSUME NEW j \in 1 .. Len(us)
      PROVE  /\ us[j] = "high" => j < Len(us) /\ us[j + 1] = "low"
             /\ us[j] = "low"  => j > 1 /\ us[j - 1] = "high"
    BY <1>1 DEF WellFormed
<1>5. ASSUME ~WellFormed(piece) PROVE i + n \in 1 .. Len(us) - 1 /\ us[i + n] = "high"
    <2>1. PICK j \in 1 .. n :
                \/ piece[j] = "high" /\ ~(j < n /\ piece[j + 1] = "low")
                \/ piece[j] = "low" /\ ~(j > 1 /\ piece[j - 1] = "high")
        BY <1>2, <1>3, <1>5 DEF WellFormed
    <2>2. i + j \in 1 .. Len(us) /\ piece[j] = us[i + j]
        BY <1>1, <1>2
    <2>3. CASE piece[j] = "high" /\ ~(j < n /\ piece[j + 1] = "low")
        <3>1. i + j < Len(us) /\ us[(i + j) + 1] = "low"
            BY <1>4, <2>2, <2>3
        <3>2. ASSUME j < n PROVE FALSE
            <4>1. j + 1 \in 1 .. n /\ i + (j + 1) = (i + j) + 1
                BY <3>2
            <4> QED
                BY <1>2, <2>3, <3>1, <3>2, <4>1
        <3>3. j = n
            BY <3>2
        <3>4. i + n = i + j /\ i + j \in 1 .. Len(us) - 1
            BY <1>1, <2>2, <3>1, <3>3
        <3> QED
            BY <2>2, <2>3, <3>4
    <2>4. CASE piece[j] = "low" /\ ~(j > 1 /\ piece[j - 1] = "high")
        <3>1. i + j > 1 /\ us[(i + j) - 1] = "high"
            BY <1>4, <2>2, <2>4
        <3>2. ASSUME j > 1 PROVE FALSE
            <4>1. j - 1 \in 1 .. n /\ i + (j - 1) = (i + j) - 1
                BY <3>2
            <4> QED
                BY <1>2, <2>4, <3>1, <3>2, <4>1
        <3>3. j = 1 /\ (i + j) - 1 = i /\ i > 0
            BY <3>1, <3>2
        <3> QED
            BY <3>1, <3>3
    <2> QED
        BY <2>1, <2>3, <2>4
<1>6. ASSUME WellFormed(piece), n > 0 PROVE us[i + n] # "high"
    <2>1. n \in DOMAIN piece /\ piece[n] = us[i + n]
        BY <1>2, <1>3, <1>6
    <2>2. ~(n < Len(piece))
        BY <1>2
    <2> QED
        BY <1>6, <2>1, <2>2 DEF WellFormed
<1> QED
    BY <1>5, <1>6 DEF piece

\* The units behind the n that are on the disk.
LEMMA DiskGrows ==
    ASSUME NEW t, NEW c, NEW k \in Nat, NEW n \in Nat
    PROVE  /\ Disk(t, c, k) \o Behind(t, c, k, n) = Disk(t, c, k + n)
           /\ Len(Disk(t, c, k)) = k
PROOF
<1> DEFINE f == [j \in 1 .. k + n |-> Encoded(t, c, j)]
           S == {Encoded(t, c, j) : j \in 1 .. k + n}
<1>1. /\ \A j \in 1 .. k + n : f[j] \in S /\ f[j] = Encoded(t, c, j)
      /\ \A j \in 1 .. k : j \in 1 .. k + n
      /\ \A i \in 1 .. n : k + i \in 1 .. k + n
    OBVIOUS
<1> HIDE DEF f, S
<1>2. [j \in 1 .. k |-> f[j]] \o [i \in 1 .. n |-> f[k + i]] = [j \in 1 .. k + n |-> f[j]]
    BY <1>1, FcnJoined
<1>3. /\ [j \in 1 .. k |-> f[j]] = Disk(t, c, k)
      /\ [i \in 1 .. n |-> f[k + i]] = Behind(t, c, k, n)
      /\ [j \in 1 .. k + n |-> f[j]] = Disk(t, c, k + n)
    BY <1>1 DEF Disk, Behind
<1>4. Disk(t, c, k) \in [1 .. k -> S]
    BY <1>1, <1>3
<1>5. Len(Disk(t, c, k)) = k
    BY <1>4, SeqIs
<1> QED
    BY <1>2, <1>3, <1>5

LEMMA DiskIsCut ==
    ASSUME NEW t, NEW c, NEW k \in Nat, NEW n \in 0 .. k
    PROVE  SubSeq(Disk(t, c, k), 1, n) = Disk(t, c, n)
PROOF
<1> DEFINE f == [j \in 1 .. k |-> Encoded(t, c, j)]
           S == {Encoded(t, c, j) : j \in 1 .. k}
<1>1. /\ \A j \in 1 .. k : f[j] \in S /\ f[j] = Encoded(t, c, j)
      /\ \A j \in 1 .. n : j \in 1 .. k
    OBVIOUS
<1> HIDE DEF f, S
<1>2. SubSeq([j \in 1 .. k |-> f[j]], 1, n) = [j \in 1 .. n |-> f[j]]
    BY <1>1, FcnCut
<1>3. /\ [j \in 1 .. k |-> f[j]] = Disk(t, c, k)
      /\ [j \in 1 .. n |-> f[j]] = Disk(t, c, n)
    BY <1>1 DEF Disk
<1> QED
    BY <1>2, <1>3

LEMMA DiskIs ==
    ASSUME TextInv
    PROVE  Len(disk) \in 0 .. Len(Units(text)) /\ disk = Disk(text, cipher, Len(disk))
PROOF
<1>1. PICK j \in 0 .. Len(Units(text)) : disk = Disk(text, cipher, j)
    BY DEF TextInv, DiskInv
<1>2. Len(Units(text)) \in Nat
    BY TextFacts DEF TextInv
<1>3. Len(disk) = j
    <2>1. j \in Nat /\ 0 \in Nat
        BY <1>2
    <2> QED
        BY <1>1, <2>1, DiskGrows
<1> QED
    BY <1>1, <1>3

\* What a TextInv is made of, at a step that leaves the string and its header alone.
LEMMA TextKept ==
    ASSUME TextInv, UNCHANGED <<text, cipher, flag, long>>
    PROVE  /\ text' \in Seq(Char) /\ cipher' \in BOOLEAN
           /\ HeaderInv'
           /\ Units(text') = Units(text)
           /\ UnitBytes(text') = UnitBytes(text)
           /\ UNCHANGED disk => DiskInv'
PROOF
<1>1. text' = text /\ cipher' = cipher /\ flag' = flag /\ long' = long
    OBVIOUS
<1>2. HeaderInv'
    BY <1>1 DEF TextInv, HeaderInv
<1>3. UNCHANGED disk => DiskInv'
    BY <1>1 DEF TextInv, DiskInv
<1> QED
    BY <1>1, <1>2, <1>3 DEF TextInv

-----------------------------------------------------------------------------
(* The steps of the strings *)

LEMMA WritePieceInv ==
    ASSUME TextInv, WritePiece
    PROVE  TextInv'
PROOF
<1> DEFINE u == Units(text)
           b == UnitBytes(text)
           k == Len(disk)
           n == Lesser(PieceLen, Unwritten)
           m == Meets(stream, k, n, b)
<1>1. text \in Seq(Char) /\ phase = "writing" /\ cipher = TRUE /\ UNCHANGED <<text, cipher, flag, long>>
    BY DEF TextInv, WritePiece
<1>2. Len(u) \in Nat /\ b \in {1, 2}
    BY <1>1, TextFacts
<1>3. k \in 0 .. Len(u) /\ disk = Disk(text, cipher, k)
    BY DiskIs
<1>4. n \in Nat /\ k + n \in 0 .. Len(u)
    <2>1. Unwritten = Len(u) - k
        BY DEF Unwritten
    <2>2. PieceLen \in Nat
        BY TextAssumption
    <2> HIDE DEF u, k
    <2> QED
        BY <1>2, <1>3, <2>1, <2>2 DEF Lesser
<1>5. AtUnit(stream, k, b)
    BY <1>1 DEF TextInv
<1>6. /\ \A i \in 1 .. n : m[i] = [ks |-> IF cipher THEN Key(k + i, b) ELSE << >>, mask |-> k + i]
      /\ AtUnit(Advance(stream, n * b), k + n, b)
    <2>1. k \in Nat
        BY <1>2, <1>3
    <2> HIDE DEF n, k, b
    <2> QED
        BY <1>2, <1>4, <1>5, <2>1, MeetsInStep
<1>7. /\ disk' = disk \o [i \in 1 .. n |-> [unit |-> u[k + i], ks |-> m[i].ks, mask |-> m[i].mask]]
      /\ stream' = Advance(stream, n * b)
      /\ place' = place /\ decoded' = decoded /\ phase' = phase
    BY DEF WritePiece
<1> HIDE DEF u, n, m, k
<1>8. ASSUME NEW i \in 1 .. n
      PROVE  [unit |-> u[k + i], ks |-> m[i].ks, mask |-> m[i].mask] = Encoded(text, cipher, k + i)
    <2> DEFINE j == k + i
               key == Key(j, b)
    <2>1. m[i] = [ks |-> key, mask |-> j]
        BY <1>1, <1>6
    <2>2. Encoded(text, cipher, j) = [unit |-> u[j], ks |-> key, mask |-> j]
        BY <1>1 DEF Encoded, u
    <2> HIDE DEF j, key
    <2>3. m[i].ks = key /\ m[i].mask = j
        BY <2>1
    <2>4. [unit |-> u[j], ks |-> m[i].ks, mask |-> m[i].mask] = Encoded(text, cipher, j)
        BY <2>2, <2>3
    <2> QED
        BY <2>4 DEF j
<1>9. disk' = Disk(text, cipher, k + n)
    <2>1. disk' = Disk(text, cipher, k) \o Behind(text, cipher, k, n)
        BY <1>3, <1>7, <1>8 DEF Behind
    <2>2. k \in Nat
        BY <1>2, <1>3
    <2> QED
        BY <1>4, <2>1, <2>2, DiskGrows
<1>10. Len(disk') = k + n
    <2> DEFINE l == k + n
    <2>1. l \in Nat /\ disk' = Disk(text, cipher, l)
        BY <1>2, <1>4, <1>9
    <2> HIDE DEF l
    <2>2. Len(disk') = l
        BY <1>4, <2>1, DiskGrows
    <2> QED
        BY <2>2 DEF l
<1>11. DiskInv'
    BY <1>1, <1>4, <1>9 DEF DiskInv, u
<1>12. /\ text' \in Seq(Char) /\ cipher' \in BOOLEAN /\ HeaderInv'
       /\ UnitBytes(text') = b
    BY <1>1, TextKept
<1>13. place' = 0 /\ decoded' = << >> /\ phase' = "writing"
    BY <1>1, <1>7 DEF TextInv
<1>14. AtUnit(stream', Len(disk'), UnitBytes(text'))
    BY <1>6, <1>7, <1>10, <1>12
<1>15. TextReadsBack'
    BY <1>13 DEF TextReadsBack
<1> QED
    BY <1>11, <1>12, <1>13, <1>14, <1>15 DEF TextInv

LEMMA WriteRawInv ==
    ASSUME TextInv, WriteRaw
    PROVE  TextInv'
PROOF
<1> DEFINE u == Units(text)
           k == Len(disk)
           n == Unwritten
<1>1. /\ text \in Seq(Char) /\ phase = "writing" /\ cipher = FALSE
      /\ UNCHANGED <<text, cipher, flag, long>>
    BY DEF TextInv, WriteRaw
<1>2. Len(u) \in Nat
    BY <1>1, TextFacts
<1>3. k \in 0 .. Len(u)
    BY DiskIs
<1>4. n \in 0 .. Len(u)
    <2>1. n = Len(u) - k
        BY DEF Unwritten
    <2> HIDE DEF u, k, n
    <2> QED
        BY <1>2, <1>3, <2>1
<1>5. /\ disk' = [i \in 1 .. n |-> [unit |-> u[i], ks |-> << >>, mask |-> None]]
      /\ place' = place /\ decoded' = decoded /\ phase' = phase
    BY DEF WriteRaw
<1>6. disk' = Disk(text, cipher, n)
    BY <1>1, <1>5 DEF Disk, Encoded
<1>7. DiskInv'
    BY <1>1, <1>4, <1>6 DEF DiskInv
<1>8. text' \in Seq(Char) /\ cipher' = FALSE /\ HeaderInv'
    BY <1>1, TextKept
<1>9. place' = 0 /\ decoded' = << >> /\ phase' = "writing"
    BY <1>1, <1>5 DEF TextInv
<1>10. TextReadsBack'
    BY <1>9 DEF TextReadsBack
<1> QED
    BY <1>7, <1>8, <1>9, <1>10 DEF TextInv

LEMMA WrittenInv ==
    ASSUME TextInv, Written
    PROVE  TextInv'
PROOF
<1> DEFINE u == Units(text)
<1>1. /\ text \in Seq(Char) /\ cipher \in BOOLEAN /\ phase = "writing"
      /\ UNCHANGED <<text, cipher, flag, long>> /\ place' = place /\ decoded' = decoded
      /\ phase' = "written" /\ stream' = Start
    BY DEF TextInv, Written
<1>2. u \in Seq(Unit) /\ Len(u) \in Nat /\ UnitBytes(text) \in {1, 2}
    BY <1>1, TextFacts
<1> DEFINE k == Len(disk)
<1>3. k \in 0 .. Len(u) /\ disk = Disk(text, cipher, k)
    BY DiskIs
<1>4. k \in Nat
    BY <1>2, <1>3
<1>5. PICK n \in 0 .. Len(disk) : disk' = SubSeq(disk, 1, n)
    BY DEF Written
<1>6. disk' = Disk(text, cipher, n) /\ n \in 0 .. Len(u)
    <2>1. n \in 0 .. k /\ disk' = SubSeq(Disk(text, cipher, k), 1, n)
        BY <1>3, <1>5
    <2> HIDE DEF k, u
    <2>2. n \in 0 .. Len(u)
        BY <1>2, <1>3, <1>4, <2>1
    <2>3. SubSeq(Disk(text, cipher, k), 1, n) = Disk(text, cipher, n)
        BY <1>4, <2>1, DiskIsCut
    <2> QED
        BY <2>1, <2>2, <2>3
<1>7. DiskInv'
    BY <1>1, <1>6 DEF DiskInv
<1>8. text' \in Seq(Char) /\ cipher' \in BOOLEAN /\ HeaderInv' /\ UnitBytes(text') \in {1, 2}
    BY <1>1, <1>2, TextKept
<1>9. place' = 0 /\ decoded' = << >>
    BY <1>1 DEF TextInv
<1>10. PlaceInv'
    <2>1. AtUnit(stream', place', UnitBytes(text'))
        <3>1. 0 * UnitBytes(text') = 0
            BY <1>8
        <3>2. stream'.ix = 0 /\ stream'.ofb = 0
            BY <1>1 DEF Start
        <3>3. CacheLen \in Nat
            BY ChunkAssumption
        <3> QED
            BY <1>9, <3>1, <3>2, <3>3 DEF AtUnit, InStep
    <2>2. decoded' = Characters(SubSeq(Units(text'), 1, place'))
        <3>1. SubSeq(Units(text'), 1, 0) = << >>
            BY <1>1, <1>2
        <3>2. Characters(<< >>) = << >>
            <4>1. << >> \in Seq(Read)
                OBVIOUS
            <4> QED
                BY <4>1, CharactersJoined DEF Read
        <3> QED
            BY <1>9, <3>1, <3>2
    <2> QED
        BY <1>9, <2>1, <2>2 DEF PlaceInv
<1>11. TextReadsBack'
    BY <1>1 DEF TextReadsBack
<1> QED
    BY <1>1, <1>7, <1>8, <1>9, <1>10, <1>11 DEF TextInv

\* n units that are there are read: they go on with the string, or end within a pair;
\* without a cipher they are nothing of the string.
LEMMA TakeIs ==
    ASSUME TextInv, PlaceInv, place \in Nat, NEW n \in Nat, place + n <= Len(disk),
           NEW s, AtUnit(s, place, UnitBytes(text)), NEW then, Take(Decode(n, s), then)
    PROVE  /\ place + n \in 0 .. Len(Units(text))
           /\ cipher =>
                \/ /\ phase' = then
                   /\ decoded' = Characters(SubSeq(Units(text), 1, place + n))
                   /\ place + n > 0 => Units(text)[place + n] # "high"
                \/ /\ phase' = "failed"
                   /\ place + n \in 1 .. Len(Units(text)) - 1
                   /\ Units(text)[place + n] = "high"
           /\ ~cipher =>
                \/ phase' = then /\ \E g \in Seq({Garbled}) : Len(g) = n /\ decoded' = decoded \o g
                \/ phase' = "failed"
PROOF
<1> DEFINE u == Units(text)
           d == Decode(n, s)
           p == SubSeq(u, place + 1, place + n)
<1>1. /\ u \in Seq(Unit) /\ Len(u) \in Nat /\ WellFormed(u)
      /\ \A j \in 1 .. Len(u) : u[j] \in Unit
      /\ IsLatin(text) => \A j \in 1 .. Len(u) : u[j] = "latin"
    BY TextFacts, UnitsReadBack DEF TextInv
<1>2. ReadBytes = UnitBytes(text) /\ (ReadBytes = 1 <=> IsLatin(text))
    BY HeaderIsRead, TextFacts DEF TextInv
<1>3. /\ place + n <= Len(u)
      /\ cipher => d = p
      /\ ~cipher => d \in Seq({Garbled}) /\ Len(d) = n
    <2> DEFINE k == Len(disk)
    <2>1. k \in 0 .. Len(Units(text)) /\ disk = Disk(text, cipher, k)
        BY DiskIs
    <2>2. place + n <= Len(disk) /\ text \in Seq(Char) /\ cipher \in BOOLEAN /\ HeaderInv
        BY DEF TextInv
    <2> HIDE DEF k
    <2> QED
        BY <2>1, <2>2, DecodeIs
<1>4. \/ /\ ReadBytes = 1 \/ WellFormed(d)
         /\ decoded' = decoded \o Characters(d)
         /\ phase' = then
      \/ /\ ReadBytes = 2
         /\ ~WellFormed(d) \/ \E i \in DOMAIN d : d[i] = Garbled
         /\ phase' = "failed"
    BY DEF Take
<1>5. decoded = Characters(SubSeq(u, 1, place)) /\ (place > 0 => u[place] # "high")
    BY DEF PlaceInv
<1> HIDE DEF u, d
<1>6. place + n \in 0 .. Len(u)
    BY <1>1, <1>3
<1>7. ASSUME cipher
      PROVE  \/ /\ phase' = then
                /\ decoded' = Characters(SubSeq(u, 1, place + n))
                /\ place + n > 0 => u[place + n] # "high"
             \/ /\ phase' = "failed"
                /\ place + n \in 1 .. Len(u) - 1
                /\ u[place + n] = "high"
    <2>1. d = p
        BY <1>3, <1>7
    <2>2. /\ ~WellFormed(p) => place + n \in 1 .. Len(u) - 1 /\ u[place + n] = "high"
          /\ WellFormed(p) /\ n > 0 => u[place + n] # "high"
        <3> DEFINE from == place
        <3>1. from \in Nat /\ from + n <= Len(u) /\ (from > 0 => u[from] # "high")
            BY <1>3, <1>5
        <3> HIDE DEF from
        <3>2. LET piece == SubSeq(u, from + 1, from + n)
              IN  /\ ~WellFormed(piece) => from + n \in 1 .. Len(u) - 1 /\ u[from + n] = "high"
                  /\ WellFormed(piece) /\ n > 0 => u[from + n] # "high"
            BY <1>1, <3>1, PieceOf
        <3> QED
            BY <3>2 DEF from
    <2>3. p \in Seq(Unit) /\ Len(p) = n /\ \A i \in 1 .. n : p[i] = u[place + i]
        <3>1. place \in 0 .. Len(u) /\ n \in 0 .. Len(u) - place
            BY <1>1, <1>3
        <3> QED
            BY <1>1, <3>1, PartOf
    <2>4. \A i \in DOMAIN p : p[i] # Garbled
        <3>1. \A i \in 1 .. n : place + i \in 1 .. Len(u)
            BY <1>1, <1>3
        <3>2. Garbled \notin Unit
            BY TextAssumption DEF Unit
        <3>3. DOMAIN p = 1 .. n
            BY <2>3
        <3> HIDE DEF p
        <3> QED
            BY <1>1, <2>3, <3>1, <3>2, <3>3
    <2>5. Characters(SubSeq(u, 1, place)) \o Characters(p) = Characters(SubSeq(u, 1, place + n))
        <3> DEFINE q == SubSeq(u, 1, place)
        <3>1. q \o p = SubSeq(u, 1, place + n) /\ q \in Seq(Unit)
            BY <1>1, <1>3, PartsJoined
        <3> HIDE DEF p, q
        <3>2. q \in Seq(Read) /\ p \in Seq(Read)
            BY <2>3, <3>1 DEF Read
        <3>3. Characters(q \o p) = Characters(q) \o Characters(p)
            BY <3>2, CharactersJoined DEF Read
        <3> QED
            BY <3>1, <3>3 DEF q
    <2>6. CASE (ReadBytes = 1 \/ WellFormed(d)) /\ decoded' = decoded \o Characters(d) /\ phase' = then
        <3>1. decoded' = Characters(SubSeq(u, 1, place + n))
            BY <1>5, <2>1, <2>5, <2>6
        <3>2. ASSUME place + n > 0 PROVE u[place + n] # "high"
            <4>1. CASE ReadBytes = 1
                <5>1. place + n \in 1 .. Len(u)
                    BY <1>1, <1>3, <3>2
                <5> QED
                    BY <1>1, <1>2, <4>1, <5>1
            <4>2. CASE WellFormed(d) /\ n > 0
                BY <2>1, <2>2, <4>2
            <4>3. CASE n = 0
                BY <1>5, <3>2, <4>3
            <4> QED
                BY <2>6, <4>1, <4>2, <4>3
        <3> HIDE DEF p
        <3> QED
            BY <2>6, <3>1, <3>2
    <2>7. CASE /\ ReadBytes = 2
               /\ ~WellFormed(d) \/ \E i \in DOMAIN d : d[i] = Garbled
               /\ phase' = "failed"
        <3>1. ~WellFormed(p)
            BY <2>1, <2>4, <2>7
        <3> HIDE DEF p
        <3> QED
            BY <2>2, <2>7, <3>1
    <2> HIDE DEF p
    <2> QED
        BY <1>4, <2>6, <2>7
<1>8. ASSUME ~cipher
      PROVE  \/ phase' = then /\ \E g \in Seq({Garbled}) : Len(g) = n /\ decoded' = decoded \o g
             \/ phase' = "failed"
    <2>1. d \in Seq({Garbled}) /\ Len(d) = n
        BY <1>3, <1>8
    <2>2. Characters(d) = d
        BY <2>1, GarbledCharacters
    <2> HIDE DEF p
    <2> QED
        BY <1>4, <2>1, <2>2
<1> QED
    BY <1>6, <1>7, <1>8 DEF u

LEMMA ReadWholeInv ==
    ASSUME TextInv, ReadWhole
    PROVE  TextInv'
PROOF
<1> DEFINE u == Units(text)
           n == Len(u)
<1>1. /\ text \in Seq(Char) /\ cipher \in BOOLEAN /\ HeaderInv
      /\ phase = "written" /\ IsThere(Count) /\ Take(Decode(Count, Start), "read")
      /\ place' = Count /\ UNCHANGED <<text, cipher, flag, long, disk>>
    BY DEF TextInv, ReadWhole
<1>2. u \in Seq(Unit) /\ n \in Nat /\ UnitBytes(text) \in {1, 2}
    BY <1>1, TextFacts
<1>3. Count = n
    BY <1>1, HeaderIsRead
<1>4. PlaceInv /\ place = 0 /\ decoded = << >>
    <2>1. PlaceInv /\ place = 0
        BY <1>1 DEF TextInv
    <2>2. SubSeq(u, 1, 0) = << >>
        BY <1>2
    <2>3. Characters(<< >>) = << >>
        <3>1. << >> \in Seq(Read)
            OBVIOUS
        <3> QED
            BY <3>1, CharactersJoined DEF Read
    <2> QED
        BY <2>1, <2>2, <2>3 DEF PlaceInv
<1>5. AtUnit(Start, place, UnitBytes(text))
    <2>1. 0 * UnitBytes(text) = 0 /\ CacheLen \in Nat
        BY <1>2, ChunkAssumption
    <2> QED
        BY <1>4, <2>1 DEF AtUnit, InStep, Start
<1>6. place \in Nat /\ place + n = n /\ place + n <= Len(disk) /\ Take(Decode(n, Start), "read")
    BY <1>1, <1>2, <1>3, <1>4 DEF IsThere
<1>7. /\ cipher => \/ phase' = "read" /\ decoded' = Characters(SubSeq(u, 1, n))
                   \/ phase' = "failed" /\ n \in 1 .. n - 1
      /\ ~cipher => \/ phase' = "read" /\ \E g \in Seq({Garbled}) : Len(g) = n /\ decoded' = decoded \o g
                    \/ phase' = "failed"
    <2> DEFINE then == "read"
               start == Start
    <2>1. Take(Decode(n, start), then) /\ AtUnit(start, place, UnitBytes(text))
        BY <1>5, <1>6
    <2> HIDE DEF then, start, n
    <2>2. /\ cipher =>
                \/ phase' = then /\ decoded' = Characters(SubSeq(u, 1, place + n))
                \/ phase' = "failed" /\ place + n \in 1 .. Len(u) - 1
          /\ ~cipher =>
                \/ phase' = then /\ \E g \in Seq({Garbled}) : Len(g) = n /\ decoded' = decoded \o g
                \/ phase' = "failed"
        BY <1>2, <1>4, <1>6, <2>1, TakeIs
    <2>3. Len(u) = n
        BY DEF n
    <2> QED
        BY <1>6, <2>2, <2>3 DEF then
<1>8. phase' \in {"read", "failed"} /\ (cipher => phase' = "read")
    <2>1. ~(n \in 1 .. n - 1)
        BY <1>2
    <2> QED
        BY <1>1, <1>7, <2>1
<1>9. ASSUME phase' = "read" PROVE IF cipher THEN decoded' = text ELSE decoded' = text <=> text = << >>
    <2>1. CASE cipher
        <3>1. decoded' = Characters(SubSeq(u, 1, n))
            BY <1>7, <1>8, <1>9, <2>1
        <3>2. SubSeq(u, 1, n) = u
            BY <1>2
        <3> QED
            BY <1>1, <2>1, <3>1, <3>2, UnitsReadBack
    <2>2. CASE ~cipher
        <3>1. PICK g \in Seq({Garbled}) : Len(g) = n /\ decoded' = decoded \o g
            BY <1>7, <1>9, <2>2
        <3>2. decoded' = g
            BY <1>4, <3>1
        <3>3. CASE text = << >>
            <4>1. n = 0
                <5>1. Units(<< >>) = << >>
                    <6>1. << >> \in Seq(Char) /\ "latin" \in Char
                        BY DEF Char
                    <6> QED
                        BY <6>1, UnitsAppend
                <5> QED
                    BY <3>3, <5>1
            <4>2. g = << >>
                BY <3>1, <4>1
            <4> QED
                BY <2>2, <3>2, <3>3, <4>2
        <3>4. CASE text # << >>
            <4>1. n > 0
                BY <1>1, <3>4, TextFacts
            <4>2. g[1] = Garbled
                <5>1. 1 \in DOMAIN g
                    BY <1>2, <3>1, <4>1
                <5> QED
                    BY <5>1
            <4>3. text[1] \in Char
                <5>1. 1 \in DOMAIN text
                    BY <1>1, <3>4
                <5> QED
                    BY <1>1, <5>1
            <4>4. Garbled \notin Char
                BY TextAssumption DEF Char
            <4> QED
                BY <2>2, <3>2, <3>4, <4>2, <4>3, <4>4
        <3> QED
            BY <3>3, <3>4
    <2> QED
        BY <2>1, <2>2
<1>10. TextReadsBack'
    BY <1>1, <1>8, <1>9 DEF TextReadsBack
<1>11. text' \in Seq(Char) /\ cipher' \in BOOLEAN /\ HeaderInv' /\ DiskInv'
    BY <1>1, TextKept
<1> QED
    BY <1>8, <1>10, <1>11 DEF TextInv

LEMMA ReadPieceInv ==
    ASSUME TextInv, ReadPiece
    PROVE  TextInv'
PROOF
<1> DEFINE u == Units(text)
           b == UnitBytes(text)
           n == TextPiece
           l == place + n
           then == IF l = Count THEN "read" ELSE "pieces"
<1>1. /\ text \in Seq(Char) /\ cipher \in BOOLEAN /\ HeaderInv
      /\ phase = "pieces" \/ (phase = "written" /\ cipher)
      /\ IsThere(n) /\ Take(Decode(n, stream), then)
      /\ place' = l /\ stream' = Advance(stream, n * ReadBytes)
      /\ UNCHANGED <<text, cipher, flag, long, disk>>
    BY DEF TextInv, ReadPiece
<1>2. u \in Seq(Unit) /\ Len(u) \in Nat /\ b \in {1, 2}
    BY <1>1, TextFacts
<1>3. Count = Len(u) /\ ReadBytes = b
    BY <1>1, HeaderIsRead
<1>4. PlaceInv /\ cipher /\ place \in 0 .. Len(u)
    BY <1>1, <1>2 DEF TextInv
<1>5. n \in Nat /\ n <= Len(u) - place
    <2>1. PieceLen \in Nat
        BY TextAssumption
    <2> HIDE DEF u
    <2> QED
        BY <1>2, <1>3, <1>4, <2>1 DEF TextPiece, Lesser
<1>6. place \in Nat /\ l <= Len(disk) /\ AtUnit(stream, place, b)
    BY <1>1, <1>4 DEF IsThere, PlaceInv
<1>7. /\ l \in 0 .. Len(u)
      /\ \/ phase' = then /\ decoded' = Characters(SubSeq(u, 1, l)) /\ (l > 0 => u[l] # "high")
         \/ phase' = "failed" /\ l \in 1 .. Len(u) - 1 /\ u[l] = "high"
    <2>1. Take(Decode(n, stream), then) /\ place + n <= Len(disk)
        BY <1>1, <1>6
    <2> HIDE DEF then, n
    <2>2. /\ place + n \in 0 .. Len(Units(text))
          /\ cipher =>
                \/ /\ phase' = then
                   /\ decoded' = Characters(SubSeq(Units(text), 1, place + n))
                   /\ place + n > 0 => Units(text)[place + n] # "high"
                \/ /\ phase' = "failed"
                   /\ place + n \in 1 .. Len(Units(text)) - 1
                   /\ Units(text)[place + n] = "high"
        BY <1>4, <1>5, <1>6, <2>1, TakeIs
    <2> QED
        BY <1>4, <2>2
<1>8. AtUnit(stream', l, b)
    <2> HIDE DEF n, b
    <2>1. AtUnit(Advance(stream, n * b), place + n, b)
        BY <1>2, <1>5, <1>6, MeetsInStep
    <2> QED
        BY <1>1, <1>3, <2>1
<1> HIDE DEF u, l, n, b
<1>9. text' = text /\ cipher' = cipher /\ disk' = disk /\ place' = l
    BY <1>1
<1>10. text' \in Seq(Char) /\ cipher' \in BOOLEAN /\ HeaderInv' /\ DiskInv'
    BY <1>1, TextKept
<1>11. CASE phase' = then /\ decoded' = Characters(SubSeq(u, 1, l)) /\ (l > 0 => u[l] # "high")
    <2>1. CASE l = Len(u)
        <3>1. phase' = "read"
            BY <1>3, <1>11, <2>1
        <3>2. SubSeq(u, 1, l) = u
            BY <1>2, <2>1
        <3>3. decoded' = text
            BY <1>1, <1>11, <3>2, UnitsReadBack DEF u
        <3>4. TextReadsBack'
            BY <1>4, <1>9, <3>1, <3>3 DEF TextReadsBack
        <3> QED
            BY <1>10, <3>1, <3>4 DEF TextInv
    <2>2. CASE l # Len(u)
        <3>1. phase' = "pieces"
            BY <1>3, <1>11, <2>2
        <3>2. l \in 0 .. Len(u) - 1
            BY <1>2, <1>7, <2>2
        <3>3. PlaceInv'
            BY <1>8, <1>9, <1>11 DEF PlaceInv, u, b
        <3>4. TextReadsBack'
            BY <3>1 DEF TextReadsBack
        <3> QED
            BY <1>4, <1>9, <1>10, <3>1, <3>2, <3>3, <3>4 DEF TextInv, u
    <2> QED
        BY <2>1, <2>2
<1>12. CASE phase' = "failed" /\ l \in 1 .. Len(u) - 1 /\ u[l] = "high"
    <2>1. PairIsCut'
        BY <1>9, <1>12 DEF PairIsCut, u
    <2>2. TextReadsBack'
        BY <1>12, <2>1 DEF TextReadsBack
    <2> QED
        BY <1>10, <1>12, <2>2 DEF TextInv
<1> QED
    BY <1>7, <1>11, <1>12

LEMMA ReadOverInv ==
    ASSUME TextInv, ReadOver
    PROVE  TextInv'
PROOF
<1> DEFINE u == Units(text)
           n == TextPiece
<1>1. /\ text \in Seq(Char) /\ HeaderInv /\ phase' = "failed"
      /\ UNCHANGED <<text, cipher, flag, long, disk, place>>
    BY DEF TextInv, ReadOver
<1>2. Len(u) \in Nat /\ Count = Len(u) /\ Len(disk) \in 0 .. Len(u)
    BY <1>1, TextFacts, HeaderIsRead, DiskIs
<1>3. IsCut
    <2>1. CASE phase = "written" /\ ~IsThere(Count)
        <3>1. place = 0 /\ Count # None
            BY <1>2, <2>1, ChunkAssumption DEF TextInv
        <3> QED
            BY <1>2, <2>1, <3>1 DEF IsThere, IsCut
    <2>2. CASE phase = "pieces" /\ ~IsThere(n)
        <3>1. place \in 0 .. Len(u) - 1 /\ PieceLen \in Nat
            BY <2>2, TextAssumption DEF TextInv
        <3>2. n \in Nat /\ place + n <= Len(u)
            <4> HIDE DEF u
            <4> QED
                BY <1>2, <3>1 DEF TextPiece, Lesser
        <3>3. n # None
            BY <3>2, ChunkAssumption
        <3> QED
            BY <1>2, <2>2, <3>1, <3>2, <3>3 DEF IsThere, IsCut
    <2> QED
        BY <2>1, <2>2 DEF ReadOver
<1>4. IsCut'
    BY <1>1, <1>3 DEF IsCut
<1>5. TextReadsBack'
    BY <1>1, <1>4 DEF TextReadsBack
<1>6. text' \in Seq(Char) /\ cipher' \in BOOLEAN /\ HeaderInv' /\ DiskInv'
    BY <1>1, TextKept
<1> QED
    BY <1>1, <1>5, <1>6 DEF TextInv

\* The empty string has an empty header and no units.
LEMMA EmptyText ==
    /\ << >> \in Seq(Char) /\ Units(<< >>) = << >> /\ IsLatin(<< >>)
    /\ Header(<< >>).flag = 0 /\ Header(<< >>).long = None
PROOF
<1>1. << >> \in Seq(Char) /\ IsLatin(<< >>)
    BY DEF IsLatin
<1>2. Units(<< >>) = << >>
    <2>1. "latin" \in Char
        BY DEF Char
    <2> QED
        BY <1>1, <2>1, UnitsAppend
<1> DEFINE n == Len(Units(<< >>))
<1>3. n = 0
    BY <1>2
<1>4. Header(<< >>) = [flag |-> IF n >= -Escape8 THEN Escape8 ELSE -n,
                       long |-> IF n >= -Escape8 THEN n ELSE None]
    BY <1>1 DEF Header
<1> HIDE DEF n
<1>5. ~(n >= -Escape8) /\ -n = 0
    <2>1. n \in Int /\ Escape8 \in Int /\ Escape8 < 0
        BY <1>3, TextAssumption
    <2>2. ~(n >= -Escape8)
        BY <1>3, <2>1
    <2>3. -n = 0
        <3>1. \A k \in Int : -k = 0 - k
            OBVIOUS
        <3>2. 0 - n = 0
            BY <1>3
        <3> QED
            BY <2>1, <3>1, <3>2, Zenon
    <2> QED
        BY <2>2, <2>3
<1> QED
    BY <1>1, <1>2, <1>4, <1>5

LEMMA GoOnInv ==
    ASSUME TextInv, GoOn
    PROVE  TextInv'
PROOF
<1>1. /\ text' = << >> /\ cipher' = TRUE /\ flag' = 0 /\ long' = None /\ disk' = << >>
      /\ phase' = "over"
    BY DEF GoOn
<1>2. HeaderInv'
    BY <1>1, EmptyText DEF HeaderInv
<1>3. DiskInv'
    <2>1. Units(text') = << >>
        BY <1>1, EmptyText
    <2>2. disk' = Disk(text', cipher', 0)
        BY <1>1 DEF Disk
    <2> QED
        BY <2>1, <2>2 DEF DiskInv
<1>4. TextReadsBack'
    BY <1>1 DEF TextReadsBack
<1> QED
    BY <1>1, <1>2, <1>3, <1>4, EmptyText DEF TextInv

LEMMA TextInitInv == TextInit => TextInv
PROOF
<1> SUFFICES ASSUME TextInit PROVE TextInv
    OBVIOUS
<1>1. /\ text \in Texts /\ cipher \in BOOLEAN /\ disk = << >> /\ stream = Start
      /\ place = 0 /\ decoded = << >> /\ phase = "writing" /\ HeaderInv
    BY DEF TextInit, HeaderInv
<1>2. text \in Seq(Char)
    BY <1>1, TextAssumption DEF Char
<1>3. Len(Units(text)) \in Nat /\ UnitBytes(text) \in {1, 2}
    BY <1>2, TextFacts
<1>4. DiskInv
    <2>1. disk = Disk(text, cipher, 0) /\ 0 \in 0 .. Len(Units(text))
        BY <1>1, <1>3 DEF Disk
    <2> QED
        BY <2>1 DEF DiskInv
<1>5. AtUnit(stream, Len(disk), UnitBytes(text))
    <2>1. 0 * UnitBytes(text) = 0 /\ CacheLen \in Nat /\ Len(disk) = 0
        BY <1>1, <1>3, ChunkAssumption
    <2> QED
        BY <1>1, <2>1 DEF AtUnit, InStep, Start
<1>6. TextReadsBack
    BY <1>1 DEF TextReadsBack
<1> QED
    BY <1>1, <1>2, <1>4, <1>5, <1>6 DEF TextInv

LEMMA TextStepInv == TextInv /\ [TextNext]_allVars => TextInv'
PROOF
<1> SUFFICES ASSUME TextInv, [TextNext]_allVars PROVE TextInv'
    OBVIOUS
<1>1. CASE TextStep
    BY <1>1, WritePieceInv, WriteRawInv, WrittenInv, ReadWholeInv, ReadOverInv, ReadPieceInv, GoOnInv
       DEF TextStep
<1>2. CASE UNCHANGED textVars
    <2>1. /\ text' = text /\ cipher' = cipher /\ flag' = flag /\ long' = long /\ disk' = disk
          /\ stream' = stream /\ place' = place /\ decoded' = decoded /\ phase' = phase
        BY <1>2 DEF textVars
    <2>2. HeaderInv' /\ DiskInv'
        BY <2>1 DEF TextInv, HeaderInv, DiskInv
    <2>3. PlaceInv => PlaceInv'
        BY <2>1 DEF PlaceInv
    <2>4. TextReadsBack'
        BY <2>1 DEF TextInv, TextReadsBack, PairIsCut, IsCut
    <2> QED
        BY <2>1, <2>2, <2>3, <2>4 DEF TextInv
<1> QED
    BY <1>1, <1>2 DEF TextNext, allVars

\* With a cipher every string is read as it was written, whatever its length, its
\* pieces and the cache, and an error means that it is cut; without a cipher only
\* the empty one comes back (ty.rs, crypto.rs, data_cipher.rs).
THEOREM StringsAreRead == TextSpec => []TextReadsBack
PROOF
<1>1. TextInit => TextInv
    BY TextInitInv
<1>2. TextInv /\ [TextNext]_allVars => TextInv'
    BY TextStepInv
<1>3. TextInv => TextReadsBack
    BY DEF TextInv
<1> QED
    BY <1>1, <1>2, <1>3, PTL DEF TextSpec

\* The run with the string in front is a run of the chunks: every theorem about
\* ChunkedStream holds of it (crypto.rs, chunked.rs).
THEOREM StringThenChunks == TextSpec => Spec
PROOF
<1>1. TextInit => Init
    BY DEF TextInit
<1>2. [TextNext]_allVars => [Next]_vars
    <2> SUFFICES ASSUME [TextNext]_allVars PROVE [Next]_vars
        OBVIOUS
    <2>1. CASE TextStep
        BY <2>1 DEF TextStep, WritePiece, WriteRaw, Written, ReadWhole, ReadOver, ReadPiece, GoOn
    <2>2. CASE phase = "over" /\ Next /\ UNCHANGED textVars
        BY <2>2
    <2>3. CASE UNCHANGED allVars
        BY <2>3 DEF allVars
    <2> QED
        BY <2>1, <2>2, <2>3 DEF TextNext
<1> QED
    BY <1>1, <1>2, PTL DEF TextSpec, Spec
=============================================================================
