------------------------------- MODULE ImgFile -------------------------------
(***************************************************************************)
(* An img file of shroom-img, written by an ImgWriter and read back by an  *)
(* ImgReader: the string tables of the two ends, the lengths that are      *)
(* patched in behind an object or a canvas, and the data a resolver        *)
(* fetches later.                                                          *)
(*                                                                         *)
(* The file is the sequence of items in the order in which Property::write *)
(* and Value::write produce them.  What an item says is abstract, its      *)
(* position and its size are those of the bytes.  A string of at least     *)
(* TableLen bytes is written once; every later use is a reference to the   *)
(* position of the first.  The reader learns positions as it reads.        *)
(***************************************************************************)
EXTENDS Integers, Sequences

CONSTANTS
    Strings,        \* strings of the tree: [id, len, enc], UTF-8 and encoded bytes
    LooseStrings,   \* those of a file whose items come in any order
    TableLen,       \* the length from which a string is put into the table
    PlainSizes,     \* sizes of values and headers without a string
    BlobSizes,      \* sizes of compressed canvases
    MaxItems,       \* bound on the items of such a file
    MaxResolves,    \* bound on the lookups of the resolver
    MaySkip,        \* the program may skip an object by its header
    None            \* no string, no reference, no entry

ASSUME ImgFileAssumption ==
    /\ \A s \in Strings : s.len \in Nat /\ s.enc \in Nat \ {0}
    /\ LooseStrings \subseteq Strings
    /\ TableLen \in Nat
    /\ PlainSizes \subseteq Nat \ {0}
    /\ BlobSizes \subseteq Nat
    /\ MaxItems \in Nat
    /\ MaxResolves \in Nat
    /\ MaySkip \in BOOLEAN
    /\ None \notin Strings \union Nat

VARIABLES
    file,       \* the items, see Item
    strTable,   \* StrOffsetTable: offset of each string the writer has put in
    open,       \* items whose length is still the dummy, innermost last
    written,    \* the tree is written
    pos,        \* the reader's position
    offsets,    \* OffsetStrTable: string read at each offset
    read,       \* every string the reader returned: [at, str]
    skipped,    \* the program has skipped an object
    failed,     \* the reader has returned UnknownStringOffset
    resolved    \* every lookup of the resolver: [at, buf], buf is all its buffer holds

writerVars == <<file, strTable, open, written>>
readerVars == <<pos, offsets, read, skipped, failed, resolved>>
vars == <<writerVars, readerVars>>

Kinds == {"string", "reference", "plain", "object", "blob"}

\* The tag of a string or reference, an object's magic and length, a canvas's
\* length with its padding byte.
TagLen == 1
RefLen == 4
ObjectHeaderLen == 5
BlobHeaderLen == 5

\* str is the string the tree has there, also behind a reference; len is what
\* the length field says.
Item == [kind : Kinds, at : Nat, size : Nat, str : Strings \union {None},
         ref : Nat \union {None}, len : Nat]

EndOf(i) == file[i].at + file[i].size
Position == IF file = << >> THEN 0 ELSE EndOf(Len(file))
Extend(item) == file' = Append(file, item)

Init ==
    /\ file = << >>
    /\ strTable = [s \in Strings |-> None]
    /\ open = << >>
    /\ written = FALSE
    /\ pos = 0
    /\ offsets = [p \in {} |-> None]
    /\ read = << >>
    /\ skipped = FALSE
    /\ failed = FALSE
    /\ resolved = << >>

-----------------------------------------------------------------------------
(* The writer *)

Writing == ~written

\* The offset of a string is that of its length, behind the tag.
NewString(s) ==
    Extend([kind |-> "string", at |-> Position, size |-> TagLen + s.enc,
            str |-> s, ref |-> None, len |-> 0])
Reference(s) ==
    Extend([kind |-> "reference", at |-> Position, size |-> TagLen + RefLen,
            str |-> s, ref |-> strTable[s], len |-> 0])

\* An offset that points at the tag.
StringOffsetAtTag == Position

\* An offset that is cut to a narrow integer.
StringOffsetNarrow == (Position + TagLen) % 6

StringOffset == Position + TagLen

\* write_ty_str and write_img_str: one table for both.
WriteString(s) ==
    /\ Writing
    /\ IF s.len < TableLen
       THEN NewString(s) /\ UNCHANGED strTable
       ELSE IF strTable[s] # None
       THEN Reference(s) /\ UNCHANGED strTable
       ELSE /\ NewString(s)
            /\ strTable' = [strTable EXCEPT ![s] = StringOffset]
    /\ UNCHANGED <<open, written, readerVars>>

WritePlain(n) ==
    /\ Writing
    /\ Extend([kind |-> "plain", at |-> Position, size |-> n,
               str |-> None, ref |-> None, len |-> 0])
    /\ UNCHANGED <<strTable, open, written, readerVars>>

\* Value::write of an object: the header with a dummy length ...
BeginObject ==
    /\ Writing
    /\ Extend([kind |-> "object", at |-> Position, size |-> ObjectHeaderLen,
               str |-> None, ref |-> None, len |-> 0])
    /\ open' = Append(open, Len(file) + 1)
    /\ UNCHANGED <<strTable, written, readerVars>>

\* write_pos_len: the bytes behind the length field up to here.
PosLen(lenPos) == Position - lenPos - RefLen

\* ... and, behind the object, write_pos_len over the dummy.
EndObject ==
    /\ ~written
    /\ open # << >>
    /\ LET i == open[Len(open)]
       IN  file' = [file EXCEPT ![i].len = PosLen(file[i].at + TagLen)]
    /\ open' = SubSeq(open, 1, Len(open) - 1)
    /\ UNCHANGED <<strTable, written, readerVars>>

\* write_canvas: its length field counts the padding byte and the data.
WriteBlob(n) ==
    /\ Writing
    /\ Extend([kind |-> "blob", at |-> Position, size |-> BlobHeaderLen + n,
               str |-> None, ref |-> None, len |-> n + 1])
    /\ UNCHANGED <<strTable, open, written, readerVars>>

Finish ==
    /\ ~written
    /\ open = << >>
    /\ written' = TRUE
    /\ UNCHANGED <<file, strTable, open, readerVars>>

-----------------------------------------------------------------------------
(* The reader: Property::from_reader and Value::from_reader make the calls   *)
(* in the order in which the writer made them, so a call meets its own item  *)
(* as long as the position is the start of an item.                          *)

Here == {i \in DOMAIN file : file[i].at = pos}
Reading == written /\ ~failed /\ resolved = << >>

Returned(i, s) == read' = Append(read, [at |-> file[i].at, str |-> s])

\* A reader that keeps only the strings a writer would put into the table,
\* by the encoded length.
KeepsLong(s) == s.enc > TableLen

\* Every string read is put into the table.
Keeps(s) == s \in Strings

ReadString ==
    \E i \in Here :
        /\ Reading
        /\ file[i].kind = "string"
        /\ offsets' = IF Keeps(file[i].str)
                      THEN [p \in DOMAIN offsets \union {pos + TagLen} |->
                              IF p = pos + TagLen THEN file[i].str ELSE offsets[p]]
                      ELSE offsets
        /\ Returned(i, file[i].str)
        /\ pos' = EndOf(i)
        /\ UNCHANGED <<writerVars, skipped, failed, resolved>>

ReadReference ==
    \E i \in Here :
        /\ Reading
        /\ file[i].kind = "reference"
        /\ file[i].ref \in DOMAIN offsets
        /\ Returned(i, offsets[file[i].ref])
        /\ pos' = EndOf(i)
        /\ UNCHANGED <<writerVars, offsets, skipped, failed, resolved>>

UnknownOffset ==
    \E i \in Here :
        /\ Reading
        /\ file[i].kind = "reference"
        /\ file[i].ref \notin DOMAIN offsets
        /\ failed' = TRUE
        /\ UNCHANGED <<writerVars, pos, offsets, read, skipped, resolved>>

\* A reader that takes an object for a value with a payload.
ReadPlainOverObject ==
    \E i \in Here :
        /\ Reading
        /\ file[i].kind \in {"plain", "object"}
        /\ pos' = EndOf(i) + file[i].len
        /\ UNCHANGED <<writerVars, offsets, read, skipped, failed, resolved>>

\* Values, headers, and the header of an object that is read.
ReadPlain ==
    \E i \in Here :
        /\ Reading
        /\ file[i].kind \in {"plain", "object"}
        /\ pos' = EndOf(i)
        /\ UNCHANGED <<writerVars, offsets, read, skipped, failed, resolved>>

\* The program skips the object its header announces.
SkipObject ==
    \E i \in Here :
        /\ Reading
        /\ MaySkip
        /\ file[i].kind = "object"
        /\ pos' = EndOf(i) + file[i].len
        /\ skipped' = TRUE
        /\ UNCHANGED <<writerVars, offsets, read, failed, resolved>>

\* A canvas length that is taken as it stands.
DataLenRaw(i) == file[i].len

\* WzCanvasLen::data_len
DataLen(i) == file[i].len - 1

SkipBlob ==
    \E i \in Here :
        /\ Reading
        /\ file[i].kind = "blob"
        /\ pos' = file[i].at + BlobHeaderLen + DataLen(i)
        /\ UNCHANGED <<writerVars, offsets, read, skipped, failed, resolved>>

\* What the resolver's buffer holds before it fetches the data.
BufferKept == IF resolved = << >> THEN << >> ELSE resolved[Len(resolved)].buf
Cleared == << >>

\* DataResolver::resolve_canvas_data, once the tree is read: a seek to any of
\* its canvases, in any order and again, moves the reader's position.
Resolve ==
    \E i \in DOMAIN file :
        /\ written
        /\ pos = Position \/ resolved # << >>
        /\ Len(resolved) < MaxResolves
        /\ file[i].kind = "blob"
        /\ resolved' = Append(resolved, [at |-> file[i].at,
                buf |-> Cleared \o << <<file[i].at, DataLen(i)>> >>])
        /\ pos' = file[i].at + BlobHeaderLen + DataLen(i)
        /\ UNCHANGED <<writerVars, offsets, read, skipped, failed>>

-----------------------------------------------------------------------------
Writer ==
    \/ /\ Len(file) < MaxItems
       /\ \/ \E s \in LooseStrings : WriteString(s)
          \/ \E n \in PlainSizes : WritePlain(n)
          \/ BeginObject
          \/ \E n \in BlobSizes : WriteBlob(n)
    \/ EndObject
    \/ Finish

Reader ==
    \/ ReadString
    \/ ReadReference
    \/ UnknownOffset
    \/ ReadPlain
    \/ SkipObject
    \/ SkipBlob
    \/ Resolve

Next == Writer \/ Reader

Spec == Init /\ [][Next]_vars

-----------------------------------------------------------------------------
(* Properties *)

\* A reference points back at a string that was written out in full, and at the
\* same string: with one table for type names and keys, and short strings kept
\* out of it.
ReferencesPointBack ==
    \A i \in DOMAIN file :
        file[i].kind = "reference" =>
            \E j \in 1 .. i - 1 :
                /\ file[j].kind = "string"
                /\ file[j].str = file[i].str
                /\ file[i].ref = file[j].at + TagLen

\* The reader never returns another string than the one the tree has at that
\* place, whatever the program has skipped before.
NoWrongString ==
    \A k \in DOMAIN read :
        \E i \in DOMAIN file : file[i].at = read[k].at /\ file[i].str = read[k].str

\* A reader that skips nothing resolves every reference; one that has skipped
\* an object may meet a string it has not seen, and reports it.
ErrorsOnlyAfterSkip == failed => skipped

\* The reader's position is always the start of an item or the end of the file:
\* the patched lengths of objects and canvases are exact, at any nesting.
Aligned == written => pos = Position \/ Here # {}

\* The reader has returned the strings of the file up to position p, each of them
\* once, in the order of the file, and nothing else.
IsUse(i) == file[i].kind \in {"string", "reference"}
ReturnedUpTo(p) ==
    /\ \A k \in DOMAIN read : \E i \in DOMAIN file :
        IsUse(i) /\ file[i].at < p /\ read[k] = [at |-> file[i].at, str |-> file[i].str]
    /\ \A k, l \in DOMAIN read : k < l => read[k].at < read[l].at
    /\ \A i \in DOMAIN file :
        IsUse(i) /\ file[i].at < p => \E k \in DOMAIN read : read[k].at = file[i].at

\* A reader that skips nothing has returned every string it has come past, also
\* behind references and within objects: at the end of the file, all of them.
ReadsEverything == written /\ ~skipped /\ resolved = << >> => ReturnedUpTo(pos)

\* Data of a canvas behind its length, or of a sound.
DataSize(i) ==
    IF file[i].kind = "blob" THEN file[i].size - BlobHeaderLen ELSE file[i].size

\* What the resolver's buffer holds is the data of the canvas or sound it was asked
\* for, all of it and nothing else, however often it was used before.
ResolvedIsOwn ==
    \A k \in DOMAIN resolved :
        \E i \in DOMAIN file :
            /\ file[i].kind \in {"blob", "plain"}
            /\ file[i].at = resolved[k].at
            /\ resolved[k].buf = << <<file[i].at, DataSize(i)>> >>
=============================================================================
