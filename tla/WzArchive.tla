------------------------------ MODULE WzArchive ------------------------------
(***************************************************************************)
(* A wz archive of shroom-wz: directories that name directories and imgs   *)
(* by encrypted offsets, the version that decrypts them and is itself only *)
(* detected, and the sub reader through which an img is read.  Where a     *)
(* program puts its directories and imgs is its own choice, a tree; the    *)
(* positions follow from the sizes of what is written.  The key of an      *)
(* offset depends on where it is stored, so that both ends must mean the   *)
(* same position by it.  Offsets have Bits bits.                           *)
(***************************************************************************)
EXTENDS Integers, Sequences, FiniteSets

CONSTANTS
    Trees,      \* nodes in the order of the file, the root first, see Node
    Bases,      \* values of data_offset
    Versions,   \* versions of the program that writes
    Bits,       \* 32, a power of two
    Magic,      \* DEFAULT_WZ_OFFSET_MAGIC
    IntMax,     \* the largest integer that is written as one byte
    ReadSizes,  \* bytes an img reader reads or skips at once
    MaxMarks,   \* bound on the data references
    Misread,    \* what is read where no directory starts
    None        \* not opened, no listing, no img

Pow2[n \in 0 .. Bits] == IF n = 0 THEN 1 ELSE 2 * Pow2[n - 1]
W == Pow2[Bits]

\* An img has a size.  A directory has entries; the entry of a directory or an
\* img has its node, and head bytes in its name and its checksum.  A node is
\* larger in number than the directories that name it, which may be several.
Entry(e, i, t) ==
    \/ e.tag = "null"
    \/ e.tag = "link" /\ e.head \in Nat
    \/ e.tag = "node" /\ e.head \in Nat /\ e.node \in i + 1 .. Len(t)

Node(i, t) ==
    \/ t[i].kind = "img" /\ t[i].size \in Nat
    \/ /\ t[i].kind = "dir"
       /\ Len(t[i].entries) \in Nat
       /\ DOMAIN t[i].entries = 1 .. Len(t[i].entries)
       /\ \A k \in DOMAIN t[i].entries : Entry(t[i].entries[k], i, t)

Tree(t) ==
    /\ Len(t) \in Nat \ {0} /\ DOMAIN t = 1 .. Len(t)
    /\ t[1].kind = "dir"
    /\ \A i \in DOMAIN t : Node(i, t)

ASSUME ArchiveAssumption ==
    /\ \A t \in Trees : Tree(t)
    /\ Bases \subseteq Nat
    /\ Versions \subseteq 1 .. 400
    /\ Bits \in Nat /\ Bits >= 8 /\ Magic \in 0 .. W - 1
    /\ IntMax \in Nat
    /\ ReadSizes \subseteq Nat /\ MaxMarks \in Nat
    /\ Misread # None /\ Misread \notin [dir : Nat, offsets : Seq(Nat \union {None})]

VARIABLES
    tree, base, ver,    \* what the program writes, where, and for which version
    file,       \* by directory, the offsets as they are stored; None before
    opened,     \* the version the reader was opened with
    listing,    \* the directory read last: [dir, offsets] with an offset per entry
    sub,        \* the sub reader of an img: [node, offset]; its len is never read
    inner,      \* the position of the reader below it
    marks       \* data references: [node, rel, place], place is where they were taken

archive == <<tree, base, ver>>
vars == <<archive, file, opened, listing, sub, inner, marks>>

-----------------------------------------------------------------------------
(* Sizes and positions *)

OffsetLen == 4
NullLen == 10
LinkLen == 4
VersionLen == 2

\* WzInt: one byte, or a marker and four
IntLen(v) == IF v <= IntMax THEN 1 ELSE 5

IsDir(i) == tree[i].kind = "dir"
Dirs == {i \in DOMAIN tree : IsDir(i)}
Entries(i) == tree[i].entries
IsNode(e) == e.tag = "node"

\* The bytes of an entry, its tag in front and its offset last, and of a node.
EntryLen(e, len) ==
    CASE e.tag = "null" -> 1 + NullLen
      [] e.tag = "link" -> 1 + LinkLen + e.head + OffsetLen
      [] e.tag = "node" -> 1 + e.head + IntLen(len[e.node]) + OffsetLen

FrontLen(es, len, k) ==
    LET Sum[j \in 0 .. Len(es)] ==
            IF j = 0 THEN IntLen(Len(es)) ELSE Sum[j - 1] + EntryLen(es[j], len)
    IN  Sum[k]

NodeLen ==
    LET L[i \in DOMAIN tree] ==
            IF IsDir(i) THEN FrontLen(Entries(i), L, Len(Entries(i))) ELSE tree[i].size
    IN  L

At ==
    LET A[i \in DOMAIN tree] ==
            IF i = 1 THEN base + VersionLen ELSE A[i - 1] + NodeLen[i - 1]
    IN  A

\* The end of the archive's last node and of the file.
FileEnd == At[Len(tree)] + NodeLen[Len(tree)]

\* Where the offset of entry k of directory i is stored.
FieldAt(i, k) == At[i] + FrontLen(Entries(i), NodeLen, k) - OffsetLen

-----------------------------------------------------------------------------
(* Versions and offsets *)

\* Exclusive or of the lowest n bits.
XorBits[n \in 0 .. Bits] ==
    [a \in Nat |-> [b \in Nat |->
        IF n = 0 THEN 0 ELSE 2 * XorBits[n - 1][a \div 2][b \div 2] + ((a + b) % 2)]]
Xor(n, a, b) == XorBits[n][a][b]

TwoTo16 == 65536
U16 == 0 .. TwoTo16 - 1
WithDigit(r, n) == (10 * r + (n % 10)) % TwoTo16
Reversed[n \in 0 .. 400] ==
    [r \in U16 |-> IF n = 0 THEN r ELSE Reversed[n \div 10][WithDigit(r, n)]]
HashOf[r \in U16] ==
    [h \in Nat |-> IF r = 0 THEN h ELSE HashOf[r \div 10][32 * h + (r % 10) + 48 + 1]]

\* wz_hash and wz_encrypt
Hash == [v \in 1 .. 400 |-> HashOf[Reversed[v][0]][0]]
ByteOf(h, i) == (h \div 256^i) % 256
Check == [v \in 1 .. 400 |->
            LET Byte(i) == ByteOf(Hash[v], i)
            IN  Xor(8, 255, Xor(8, Xor(8, Byte(0), Byte(1)), Xor(8, Byte(2), Byte(3))))]

\* wz_detect_version
Detected(check) == {v \in 1 .. 400 : Check[v] = check}

RotateLeft(x, n) == ((x * Pow2[n]) % W) + x \div Pow2[Bits - n]

\* offset_key_at
Key(v, pos) ==
    LET off == ((W - 1 - (pos - base)) * Hash[v] - Magic) % W
    IN  RotateLeft(off, off % Bits)

EncryptOffset(v, off, pos) == Xor(Bits, (off - 2 * base) % W, Key(v, pos))
DecryptOffset(v, enc, pos) == (Xor(Bits, Key(v, pos), enc) + 2 * base) % W

\* WzOffset::write_options
StoredAt(i, k) == EncryptOffset(ver, At[Entries(i)[k].node], FieldAt(i, k))

\* A read that asks for the position when the offset has been read.
LoadedBehind(i, k) == DecryptOffset(opened, file[i][k], FieldAt(i, k) + OffsetLen)

\* WzOffset::read_options
Loaded(i, k) == DecryptOffset(opened, file[i][k], FieldAt(i, k))

-----------------------------------------------------------------------------
Init ==
    /\ tree \in Trees /\ base \in Bases /\ ver \in Versions
    /\ file = None /\ opened = None /\ listing = None
    /\ sub = None /\ inner = 0 /\ marks = {}

\* write_dummy_header, and each WzDir at its position.
WriteArchive ==
    /\ file = None
    /\ file' = [i \in Dirs |-> [k \in DOMAIN Entries(i) |->
                                    IF IsNode(Entries(i)[k]) THEN StoredAt(i, k) ELSE None]]
    /\ UNCHANGED <<archive, opened, listing, sub, inner, marks>>

\* WzReader::new, with one of the versions the header allows.
Open ==
    /\ file # None /\ opened = None
    /\ opened' \in Detected(Check[ver])
    /\ UNCHANGED <<archive, file, listing, sub, inner, marks>>

\* read_dir_node_at
ReadDirAt(offset) ==
    /\ opened # None
    /\ listing' =
        IF \E i \in Dirs : At[i] = offset
        THEN LET i == CHOOSE j \in Dirs : At[j] = offset
             IN  [dir |-> i,
                  offsets |-> [k \in DOMAIN Entries(i) |->
                                IF IsNode(Entries(i)[k]) THEN Loaded(i, k) ELSE None]]
        ELSE Misread
    /\ sub' = None
    /\ inner' = IF listing' = Misread THEN offset ELSE offset + NodeLen[listing'.dir]
    /\ UNCHANGED <<archive, file, opened, marks>>

ReadRootDir == ReadDirAt(base + VersionLen)

\* The program looks an entry up in the listing.
Listed(kind) ==
    IF listing \in {None, Misread} THEN {}
    ELSE {k \in DOMAIN listing.offsets :
            LET e == Entries(listing.dir)[k] IN IsNode(e) /\ tree[e.node].kind = kind}

ReadDirNode == \E k \in Listed("dir") : ReadDirAt(listing.offsets[k])

\* img_reader: SubReader::create seeks to the img.
ImgReader ==
    \E k \in Listed("img") :
        LET i == Entries(listing.dir)[k].node
        IN  /\ sub' = [node |-> i, offset |-> listing.offsets[k]]
            /\ inner' = listing.offsets[k]
            /\ UNCHANGED <<archive, file, opened, listing, marks>>

\* Seek of a SubReader: what the caller is told, and where the reader goes.
StreamPosition == inner - sub.offset
SeekStartUnadjusted(s) == s
SeekStart(s) == s + sub.offset

\* The img reader reads n bytes, or those that are left of the file: the size of
\* the img does not cap it.
ReadImg(n) ==
    /\ sub # None
    /\ \/ inner + n <= FileEnd /\ inner' = inner + n
       \/ inner <= FileEnd /\ FileEnd < inner + n /\ inner' = FileEnd
       \/ FileEnd < inner /\ UNCHANGED inner
    /\ UNCHANGED <<archive, file, opened, listing, sub, marks>>

\* A skip is a seek and may leave the file as well; the bound: it does so once.
SkipImg(n) ==
    /\ sub # None /\ inner <= FileEnd
    /\ inner' = inner + n
    /\ UNCHANGED <<archive, file, opened, listing, sub, marks>>

\* read_canvas_len and its like keep the position of the data behind them.
KeepReference ==
    /\ sub # None /\ Cardinality(marks) < MaxMarks
    /\ marks' = marks \union {[node |-> sub.node, rel |-> StreamPosition, place |-> inner]}
    /\ UNCHANGED <<archive, file, opened, listing, sub, inner>>

\* A resolver goes back to the data, with a reader of the same img.
ResolveReference(m) ==
    /\ sub # None /\ sub.node = m.node
    /\ inner' = SeekStart(m.rel)
    /\ UNCHANGED <<archive, file, opened, listing, sub, marks>>

Next ==
    \/ WriteArchive
    \/ Open
    \/ ReadRootDir
    \/ ReadDirNode
    \/ ImgReader
    \/ \E n \in ReadSizes : ReadImg(n) \/ SkipImg(n)
    \/ KeepReference
    \/ \E m \in marks : ResolveReference(m)

Spec == Init /\ [][Next]_vars

-----------------------------------------------------------------------------
(* Properties *)

\* Versions whose numbers are the same but for zeros at their end.
Stripped[n \in 0 .. 400] == IF n = 0 \/ n % 10 # 0 THEN n ELSE Stripped[n \div 10]
RightVersion == opened # None /\ Stripped[opened] = Stripped[ver]

\* A reader that was opened with the writer's version, or one that differs from
\* it in zeros at its end only, follows every entry to the directory or the img
\* it was written for, at any depth and wherever the data begins.
EntriesFindTheirNodes ==
    RightVersion /\ listing # None =>
        /\ listing # Misread
        /\ \A k \in DOMAIN listing.offsets :
            LET e == Entries(listing.dir)[k]
            IN  IsNode(e) => listing.offsets[k] = At[e.node]

\* A data reference kept by one reader of an img leads every later one, by whatever
\* entry of whatever directory it was opened, to the byte where it was taken.  What
\* was read in between does not matter: other directories and imgs, or bytes behind
\* the end of the img, from where a reference may even have been taken.
ReferencesLeadBack ==
    [][\A m \in marks : RightVersion /\ ResolveReference(m) => inner' = m.place]_vars
=============================================================================
