---------------------------- MODULE ChunkedStream ----------------------------
(***************************************************************************)
(* Chunked canvas data of shroom-img: a ChunkWriter (or write_wz_chunks)   *)
(* encrypts every chunk from the start of the cipher's keystream and puts  *)
(* its length in front; a ChunkedReader decrypts the chunks piece by piece *)
(* through a small buffer, with a WzDataCryptStream that takes the first   *)
(* CacheLen bytes of the keystream from a cache and the rest from a        *)
(* running OFB cipher.                                                     *)
(*                                                                         *)
(* A byte of the payload is named by its chunk and its offset in it; it    *)
(* was encrypted with the byte of the keystream at that offset.  Decrypted *)
(* with any other byte of the keystream it is Garbled.                     *)
(***************************************************************************)
EXTENDS Integers, Sequences

CONSTANTS
    ChunkLens,      \* lengths of the chunks a program writes
    MaxChunkSize,   \* MAX_CHUNK_SIZE
    LenSize,        \* bytes of the length in front of a chunk
    BufLen,         \* CHUNK_BUF_LEN
    CacheLen,       \* N * 16 of the WzDataCipher
    ReadSizes,      \* sizes of the buffers a program reads into
    MaxChunks,      \* bound on the chunks of a stream
    None,           \* no end of the data yet
    Garbled         \* a byte decrypted with the wrong keystream

ASSUME ChunkAssumption ==
    /\ ChunkLens \subseteq Nat
    /\ MaxChunkSize \in Nat \ {0}
    /\ LenSize \in Nat \ {0}
    /\ BufLen \in Nat \ {0}
    /\ CacheLen \in Nat
    /\ ReadSizes \subseteq Nat
    /\ MaxChunks \in Nat
    /\ None \notin Nat
    /\ Garbled \notin [chunk : Nat, off : Nat]

VARIABLES
    chunks,     \* the chunks written: [start, len], start is that of the length
    end,        \* the data ends here, None while it is written
    pos,        \* position of the inner reader
    current,    \* the chunk whose length was read last
    remaining,  \* remaining_chunk
    buf,        \* the decrypted bytes of buf[.. buf_len]
    ix,         \* bytes of buf already returned
    ksIx,       \* WzDataCryptStream: ix
    ofb,        \* WzDataCryptStream: bytes its OFB cipher has produced
    out,        \* every byte returned
    status      \* "reading"; "ended" after Ok(0), "failed" after an error

written == <<chunks, end>>
reader == <<pos, current, remaining, buf, ix, ksIx, ofb, out, status>>
vars == <<written, reader>>

Lesser(a, b) == IF a < b THEN a ELSE b
Byte == [chunk : 1 .. MaxChunks, off : Nat]

BodyOf(c) == c.start + LenSize
EndOf(c)  == BodyOf(c) + c.len
Size == IF chunks = << >> THEN 0 ELSE EndOf(chunks[Len(chunks)])

Init ==
    /\ chunks = << >>
    /\ end = None
    /\ pos = 0
    /\ current = 0
    /\ remaining = 0
    /\ buf = << >>
    /\ ix = 0
    /\ ksIx = 0
    /\ ofb = 0
    /\ out = << >>
    /\ status = "reading"

-----------------------------------------------------------------------------
(* Writing *)

PutChunk(n) ==
    /\ end = None
    /\ Len(chunks) < MaxChunks
    /\ chunks' = Append(chunks, [start |-> Size, len |-> n])
    /\ UNCHANGED <<end, reader>>

\* ChunkWriter::write_chunk: a longer chunk is an error and is not written.
WriteChunk(n) == n <= MaxChunkSize /\ PutChunk(n)

\* WriteExt::write_wz_chunk has no limit.
WriteWzChunk(n) == PutChunk(n)

\* The reader gets the data as a whole, or cut: its inner reader is limited by
\* the length in front of the canvas data.
EndData ==
    /\ end = None
    /\ end' \in 0 .. Size
    /\ UNCHANGED <<chunks, reader>>

-----------------------------------------------------------------------------
(* Reading *)

Unread == Len(buf) - ix
Reading == end # None /\ status = "reading"

\* Positions of the keystream that crypt(n) uses, with the stream at k and its
\* OFB cipher at o: from the cache while there is one left, then from the OFB.
FromCache(k, n) == IF k < CacheLen THEN Lesser(n, CacheLen - k) ELSE 0
KeyStream(k, o, n) ==
    [i \in 1 .. n |-> IF i <= FromCache(k, n) THEN k + i - 1
                      ELSE CacheLen + o + (i - FromCache(k, n) - 1)]

\* The n bytes of chunk c from offset on, decrypted with the stream at k and o.
Decrypted(c, offset, k, o, n) ==
    [i \in 1 .. n |-> IF KeyStream(k, o, n)[i] = offset + i - 1
                      THEN [chunk |-> c, off |-> offset + i - 1] ELSE Garbled]

\* A piece that always fills the buffer.
PieceUnlimited(rem) == BufLen

\* consume_chunk: what it reads in one go with rem bytes of the chunk left.
Piece(rem) == Lesser(rem, BufLen)

\* read: refill_buf leaves b with i bytes of it returned, and n are asked for.
Return(b, i, n) ==
    LET m == Lesser(n, Len(b) - i)
    IN  /\ buf' = b
        /\ ix' = i + m
        /\ out' = out \o SubSeq(b, i + 1, i + m)

ReadBuffered(n) ==
    /\ Reading
    /\ Unread > 0
    /\ Return(buf, ix, n)
    /\ UNCHANGED <<written, pos, current, remaining, ksIx, ofb, status>>

\* consume_chunk with rem bytes of chunk c left at position p, and the stream
\* at k and o; then the rest of read.
ConsumeChunk(c, rem, p, k, o, n) ==
    /\ p + Piece(rem) <= end
    /\ Return(Decrypted(c, p - BodyOf(chunks[c]), k, o, Piece(rem)), 0, n)
    /\ pos' = p + Piece(rem)
    /\ current' = c
    /\ remaining' = rem - Piece(rem)
    /\ ksIx' = k + Piece(rem)
    /\ ofb' = o + Piece(rem) - FromCache(k, Piece(rem))
    /\ UNCHANGED <<written, status>>

ReadRest(n) ==
    /\ Reading
    /\ Unread = 0
    /\ remaining > 0
    /\ ConsumeChunk(current, remaining, pos, ksIx, ofb, n)

\* The chunk whose length is at the reader's position.
NextChunk == current + 1
AtLength == Unread = 0 /\ remaining = 0
LengthThere == pos + LenSize <= end

\* A limit that excludes the longest chunk.
AllowedBelow(n) == n < MaxChunkSize /\ n # 0

\* refill_chunk takes no other length.
Allowed(n) == n <= MaxChunkSize /\ n # 0

\* A stream whose OFB cipher goes on behind the chunk before.
ResetIxOnly == [ix |-> 0, ofb |-> ofb]

\* WzDataCryptStream::reset
Reset == [ix |-> 0, ofb |-> 0]

ReadNextChunk(n) ==
    /\ Reading
    /\ AtLength
    /\ LengthThere
    /\ Allowed(chunks[NextChunk].len)
    /\ ConsumeChunk(NextChunk, chunks[NextChunk].len, pos + LenSize, Reset.ix, Reset.ofb, n)

\* An error of refill_chunk.
ReadRefused ==
    /\ Reading
    /\ AtLength
    /\ LengthThere
    /\ ~Allowed(chunks[NextChunk].len)
    /\ pos' = pos + LenSize
    /\ status' = "failed"
    /\ UNCHANGED <<written, current, remaining, buf, ix, ksIx, ofb, out>>

\* The end of the data within or before a length: read returns Ok(0).
ReadEnd ==
    /\ Reading
    /\ AtLength
    /\ ~LengthThere
    /\ pos' = end
    /\ status' = "ended"
    /\ UNCHANGED <<written, current, remaining, buf, ix, ksIx, ofb, out>>

\* An end that is clean anywhere.
ReadTruncatedClean ==
    /\ Reading
    /\ Unread = 0
    /\ \/ remaining > 0 /\ pos + Piece(remaining) > end
       \/ /\ AtLength
          /\ LengthThere
          /\ Allowed(chunks[NextChunk].len)
          /\ pos + LenSize + Piece(chunks[NextChunk].len) > end
    /\ pos' = end
    /\ status' = "ended"
    /\ UNCHANGED <<written, current, remaining, buf, ix, ksIx, ofb, out>>

\* A reader that waits for more data.
ReadTruncatedWaits ==
    /\ Reading
    /\ remaining > 0
    /\ pos + Piece(remaining) > end
    /\ pos' = end
    /\ UNCHANGED <<written, current, remaining, buf, ix, ksIx, ofb, out, status>>

\* The end of the data within a chunk: the program stops at the error.
ReadTruncated ==
    /\ Reading
    /\ Unread = 0
    /\ \/ remaining > 0 /\ pos + Piece(remaining) > end
       \/ /\ AtLength
          /\ LengthThere
          /\ Allowed(chunks[NextChunk].len)
          /\ pos + LenSize + Piece(chunks[NextChunk].len) > end
    /\ pos' = end
    /\ status' = "failed"
    /\ UNCHANGED <<written, current, remaining, buf, ix, ksIx, ofb, out>>

-----------------------------------------------------------------------------
Writing == \E n \in ChunkLens : WriteChunk(n) \/ WriteWzChunk(n)

ReadSome(n) == ReadBuffered(n) \/ ReadRest(n) \/ ReadNextChunk(n)
ReadLast == ReadRefused \/ ReadEnd \/ ReadTruncated

Next ==
    \/ Writing
    \/ EndData
    \/ \E n \in ReadSizes : ReadSome(n)
    \/ ReadLast

Spec == Init /\ [][Next]_vars

\* The program writes its data and reads into a buffer of at least one byte
\* until the end or an error, as io::copy and read_to_end do.
Progress == EndData \/ ReadLast \/ \E n \in ReadSizes \ {0} : ReadSome(n)
FairSpec == Spec /\ WF_vars(Progress)

-----------------------------------------------------------------------------
(* Properties *)

\* Every variable has its type.
TypeOK ==
    /\ \A k \in DOMAIN chunks : chunks[k] \in [start : Nat, len : ChunkLens]
    /\ end \in Nat \union {None}
    /\ pos \in Nat
    /\ current \in 0 .. Len(chunks)
    /\ remaining \in Nat
    /\ buf \in Seq(Byte \union {Garbled})
    /\ ix \in 0 .. Len(buf)
    /\ ksIx \in Nat
    /\ ofb \in Nat
    /\ out \in Seq(Byte \union {Garbled})
    /\ status \in {"reading", "ended", "failed"}

\* The byte that follows b in the payload.
Follows(a, b) ==
    \/ b = [a EXCEPT !.off = @ + 1]
    \/ a.off + 1 = chunks[a.chunk].len /\ b = [chunk |-> a.chunk + 1, off |-> 0]

\* What is returned is the payload from its first byte on, decrypted, with no
\* byte left out, twice or out of order: for every way the chunks, the buffer,
\* the cache and the reads divide it.
OutIsPayload ==
    /\ \A i \in DOMAIN out : out[i] # Garbled
    /\ out # << >> => out[1] = [chunk |-> 1, off |-> 0]
    /\ \A i \in 1 .. Len(out) - 1 : Follows(out[i], out[i + 1])

\* A clean end means that every chunk whose length is in the data has been
\* returned to its last byte: neither a cut chunk nor an empty one in the
\* middle passes for the end.
EndMeansWholeChunks ==
    status = "ended" =>
        \A k \in DOMAIN chunks :
            BodyOf(chunks[k]) <= end =>
                /\ chunks[k].len > 0
                /\ out # << >>
                /\ \E i \in DOMAIN out : out[i] = [chunk |-> k, off |-> chunks[k].len - 1]

\* The reader reports an error only for data that is cut within a chunk, or for
\* a chunk that ChunkWriter refuses or an empty one, which it does not refuse.
ErrorMeansDamage ==
    status = "failed" =>
        \E k \in DOMAIN chunks :
            /\ BodyOf(chunks[k]) <= end
            /\ \/ EndOf(chunks[k]) > end
               \/ chunks[k].len = 0
               \/ chunks[k].len > MaxChunkSize

\* A program that goes on reading comes to the end or to an error.
ReadingEnds == <>(status # "reading")
=============================================================================
