---------------------------- MODULE ImgFile_proofs ----------------------------
(***************************************************************************)
(* Theorems about ImgFile and ImgTree, for any strings, sizes and limits.  *)
(*                                                                         *)
(* References, strings and resolved data are right in every file, in       *)
(* whatever order its items are written, read, skipped and resolved.  The  *)
(* second half is about the files of trees, for any trees: a tree that is  *)
(* written is read back, and what a failed writer leaves is not taken for  *)
(* a whole one.                                                            *)
(***************************************************************************)
EXTENDS ImgTree, DataInduction

-----------------------------------------------------------------------------
(* The inductive invariant *)

Fields == [kind : Kinds, at : Nat, size : Nat, str : Strings \union {None},
           ref : Nat \union {None}, len : Int]
Returns == [at : Nat, str : Strings \union {None}]
Lookups == [at : Nat, buf : Seq(Nat \X Int)]

TypeInv ==
    /\ file \in Seq(Fields)
    /\ strTable \in [Strings -> Nat \union {None}]
    /\ open \in Seq(Nat)
    /\ read \in Seq(Returns)
    /\ resolved \in Seq(Lookups)

\* Items lie behind each other and none is empty.
Layout ==
    /\ \A i \in DOMAIN file : file[i].size > 0
    /\ \A i, j \in DOMAIN file : i < j => file[i].at + file[i].size <= file[j].at

\* Only lengths of objects are still to be patched.
OpenInv == \A k \in DOMAIN open : open[k] \in DOMAIN file /\ file[open[k]].kind = "object"

\* The length of a canvas counts its data and the padding byte.
BlobInv ==
    \A i \in DOMAIN file : file[i].kind = "blob" => file[i].len = file[i].size - BlobHeaderLen + 1

\* The item that defines string s, for a reference to p.
Defines(j, s, p) == file[j].kind = "string" /\ file[j].str = s /\ p = file[j].at + TagLen

\* The writer's table and the reader's hold what is in the file.
TableInv ==
    \A s \in Strings : strTable[s] # None => \E j \in DOMAIN file : Defines(j, s, strTable[s])
OffsetsInv ==
    \A p \in DOMAIN offsets : \E j \in DOMAIN file : Defines(j, offsets[p], p)

IInv ==
    /\ TypeInv
    /\ Layout
    /\ OpenInv
    /\ BlobInv
    /\ TableInv
    /\ OffsetsInv
    /\ ReferencesPointBack
    /\ NoWrongString
    /\ ResolvedIsOwn

-----------------------------------------------------------------------------
(* What a writer's step does to the file *)

\* Items that are in the file stay as they are, but for the length.
Keep ==
    /\ Len(file) <= Len(file')
    /\ \A i \in DOMAIN file :
        /\ file'[i].kind = file[i].kind
        /\ file'[i].at = file[i].at
        /\ file'[i].size = file[i].size
        /\ file'[i].str = file[i].str
        /\ file'[i].ref = file[i].ref

\* What is appended, and what is left without the last.
LEMMA Appended ==
    ASSUME NEW S, NEW q \in Seq(S), NEW x \in S
    PROVE  /\ Append(q, x) \in Seq(S)
           /\ \A k \in DOMAIN Append(q, x) :
                \/ Append(q, x)[k] = x
                \/ k \in DOMAIN q /\ Append(q, x)[k] = q[k]
    OBVIOUS

LEMMA Shortened ==
    ASSUME NEW S, NEW q \in Seq(S), q # << >>
    PROVE  /\ SubSeq(q, 1, Len(q) - 1) \in Seq(S)
           /\ \A k \in DOMAIN SubSeq(q, 1, Len(q) - 1) :
                k \in DOMAIN q /\ SubSeq(q, 1, Len(q) - 1)[k] = q[k]
    OBVIOUS

LEMMA ItemType ==
    ASSUME TypeInv, NEW i \in DOMAIN file
    PROVE  /\ i \in Nat
           /\ file[i] \in Fields
           /\ file[i].at \in Nat
           /\ file[i].size \in Nat
           /\ file[i].str \in Strings \union {None}
PROOF
<1>1. i \in Nat /\ file[i] \in Fields
    BY DEF TypeInv
<1> QED
    BY <1>1 DEF Fields

\* The position is behind every item.
LEMMA PositionBehind ==
    ASSUME TypeInv, Layout
    PROVE  /\ Position \in Nat
           /\ \A i \in DOMAIN file : file[i].at + file[i].size <= Position
PROOF
<1>1. CASE file = << >>
    BY <1>1 DEF Position, TypeInv
<1>2. CASE file # << >>
    <2>1. Len(file) \in DOMAIN file /\ \A i \in DOMAIN file : i <= Len(file) /\ file[i] \in Fields
        BY <1>2 DEF TypeInv
    <2>2. Position = file[Len(file)].at + file[Len(file)].size
        BY <1>2 DEF Position, EndOf
    <2>3. file[Len(file)].size > 0
        BY <2>1 DEF Layout
    <2> QED
        BY <2>1, <2>2, <2>3 DEF Layout, Fields
<1> QED
    BY <1>1, <1>2

\* An item that is put behind the others keeps the layout.
LEMMA ExtendKeeps ==
    ASSUME TypeInv, Layout, OpenInv, BlobInv,
           NEW item \in Fields, item.at = Position, item.size > 0,
           item.kind = "blob" => item.len = item.size - BlobHeaderLen + 1,
           Extend(item)
    PROVE  /\ file' \in Seq(Fields)
           /\ Keep
           /\ Len(file') = Len(file) + 1
           /\ file'[Len(file) + 1] = item
           /\ Layout'
           /\ BlobInv'
           /\ \A i \in DOMAIN file : file'[i] = file[i]
PROOF
<1>1. file \in Seq(Fields) /\ file' = Append(file, item)
    BY DEF Extend, TypeInv
<1>2. /\ file' \in Seq(Fields)
      /\ Len(file') = Len(file) + 1
      /\ file'[Len(file) + 1] = item
      /\ \A i \in DOMAIN file : i \in DOMAIN file' /\ file'[i] = file[i]
      /\ \A i \in DOMAIN file' : i \in DOMAIN file \/ i = Len(file) + 1
      /\ DOMAIN file = 1 .. Len(file) /\ Len(file) \in Nat
    BY <1>1
<1>3. Keep
    BY <1>2 DEF Keep
<1>4. Layout'
    <2>1. \A i \in DOMAIN file' : file'[i].size > 0
        BY <1>2 DEF Layout
    <2>2. ASSUME NEW i \in DOMAIN file', NEW j \in DOMAIN file', i < j
          PROVE  file'[i].at + file'[i].size <= file'[j].at
        <3>1. CASE j \in DOMAIN file
            <4>1. i \in DOMAIN file
                BY <1>2, <2>2, <3>1
            <4> QED
                BY <1>2, <2>2, <3>1, <4>1 DEF Layout
        <3>2. CASE j = Len(file) + 1
            <4>1. i \in DOMAIN file
                BY <1>2, <2>2, <3>2
            <4> QED
                BY <1>2, <3>2, <4>1, PositionBehind
        <3> QED
            BY <1>2, <3>1, <3>2
    <2> QED
        BY <2>1, <2>2 DEF Layout
<1>5. BlobInv'
    BY <1>2 DEF BlobInv
<1> QED
    BY <1>2, <1>3, <1>4, <1>5

\* What was found in a file is found in a longer one.
LEMMA KeepPreserves ==
    ASSUME TypeInv, Keep, file' \in Seq(Fields)
    PROVE  /\ UNCHANGED strTable /\ TableInv => TableInv'
           /\ UNCHANGED offsets /\ OffsetsInv => OffsetsInv'
           /\ UNCHANGED read /\ NoWrongString => NoWrongString'
           /\ UNCHANGED resolved /\ ResolvedIsOwn => ResolvedIsOwn'
           /\ UNCHANGED open /\ OpenInv => OpenInv'
PROOF
<1>1. \A i \in DOMAIN file : i \in DOMAIN file'
    BY DEF Keep, TypeInv
<1>2. ASSUME NEW j \in DOMAIN file, NEW s, NEW p, Defines(j, s, p)
      PROVE  Defines(j, s, p)'
    BY <1>2 DEF Defines, Keep
<1>3. ASSUME UNCHANGED strTable, TableInv
      PROVE  TableInv'
    BY <1>1, <1>3 DEF TableInv, Defines, Keep
<1>4. ASSUME UNCHANGED offsets, OffsetsInv
      PROVE  OffsetsInv'
    BY <1>1, <1>4 DEF OffsetsInv, Defines, Keep
<1>5. ASSUME UNCHANGED read, NoWrongString
      PROVE  NoWrongString'
    BY <1>1, <1>5 DEF NoWrongString, Keep
<1>6. ASSUME UNCHANGED resolved, ResolvedIsOwn
      PROVE  ResolvedIsOwn'
    BY <1>1, <1>6 DEF ResolvedIsOwn, DataSize, Keep
<1>7. ASSUME UNCHANGED open, OpenInv
      PROVE  OpenInv'
    BY <1>1, <1>7 DEF OpenInv, Keep
<1> QED
    BY <1>3, <1>4, <1>5, <1>6, <1>7

-----------------------------------------------------------------------------
(* The steps *)

\* All that a writer and a reader may do, whatever strings and sizes they are given
\* and whoever makes the calls.  A file may be closed with objects still open.
Closes ==
    /\ ~written
    /\ written' = TRUE
    /\ UNCHANGED <<file, strTable, open, readerVars>>
FileWrites ==
    \/ \E s \in Strings : WriteString(s)
    \/ \E n \in Nat \ {0} : WritePlain(n)
    \/ BeginObject
    \/ \E n \in Nat : WriteBlob(n)
FileNext == FileWrites \/ EndObject \/ Closes \/ Reader

LEMMA NextIsFile == [Next]_vars => [FileNext]_vars
PROOF
<1>1. /\ LooseStrings \subseteq Strings
      /\ PlainSizes \subseteq Nat \ {0}
      /\ BlobSizes \subseteq Nat
    BY ImgFileAssumption
<1> QED
    BY <1>1 DEF Next, Writer, Finish, FileNext, FileWrites, Closes

LEMMA InitInv == Init => IInv
PROOF
<1> SUFFICES ASSUME Init PROVE IInv
    OBVIOUS
<1>1. TypeInv
    BY ImgFileAssumption DEF Init, TypeInv
<1>2. Layout /\ OpenInv /\ BlobInv /\ TableInv
    BY DEF Init, Layout, OpenInv, BlobInv, TableInv
<1>3. OffsetsInv /\ ReferencesPointBack /\ NoWrongString /\ ResolvedIsOwn
    BY DEF Init, OffsetsInv, ReferencesPointBack, NoWrongString, ResolvedIsOwn
<1> QED
    BY <1>1, <1>2, <1>3 DEF IInv

\* An item that is put behind the others keeps the invariant, if the table and the
\* open objects are those of the longer file and the item, as a reference, points back.
LEMMA ExtendInv ==
    ASSUME IInv, UNCHANGED readerVars,
           NEW item \in Fields, item.at = Position, item.size > 0,
           item.kind = "blob" => item.len = item.size - BlobHeaderLen + 1,
           Extend(item),
           strTable' \in [Strings -> Nat \union {None}], TableInv',
           open' \in Seq(Nat), OpenInv',
           item.kind = "reference" =>
               \E j \in DOMAIN file : Defines(j, item.str, item.ref)
    PROVE  IInv'
PROOF
<1>1. TypeInv /\ Layout /\ OpenInv /\ BlobInv
    BY DEF IInv
<1>2. /\ file' \in Seq(Fields)
      /\ Keep
      /\ Len(file') = Len(file) + 1
      /\ file'[Len(file) + 1] = item
      /\ Layout'
      /\ BlobInv'
      /\ \A i \in DOMAIN file : file'[i] = file[i]
    BY <1>1, ExtendKeeps
<1>3. TypeInv'
    BY <1>1, <1>2 DEF TypeInv, readerVars
<1>4. OffsetsInv' /\ NoWrongString' /\ ResolvedIsOwn'
    BY <1>1, <1>2, KeepPreserves DEF IInv, readerVars
<1>5. ReferencesPointBack'
    <2>1. /\ DOMAIN file = 1 .. Len(file) /\ Len(file) \in Nat
          /\ DOMAIN file' = 1 .. Len(file) + 1
        BY <1>1, <1>2 DEF TypeInv
    <2>2. ASSUME NEW i \in DOMAIN file', file'[i].kind = "reference"
          PROVE  \E j \in 1 .. i - 1 : Defines(j, file[i].str, file[i].ref)'
        <3>1. CASE i \in DOMAIN file
            <4>1. PICK j \in 1 .. i - 1 : Defines(j, file[i].str, file[i].ref)
                BY <1>2, <2>2, <3>1 DEF IInv, ReferencesPointBack, Defines
            <4>2. j \in DOMAIN file
                BY <2>1, <3>1
            <4> QED
                BY <1>2, <3>1, <4>1, <4>2 DEF Defines
        <3>2. CASE i = Len(file) + 1
            <4>1. PICK j \in DOMAIN file : Defines(j, item.str, item.ref)
                BY <1>2, <2>2, <3>2
            <4>2. j \in 1 .. i - 1
                BY <2>1, <3>2
            <4> QED
                BY <1>2, <3>2, <4>1, <4>2 DEF Defines
        <3> QED
            BY <2>1, <2>2, <3>1, <3>2
    <2> QED
        BY <2>2 DEF ReferencesPointBack, Defines
<1> QED
    BY <1>2, <1>3, <1>4, <1>5 DEF IInv

\* The table and the open objects when only the file grows.
LEMMA ExtendSame ==
    ASSUME IInv, NEW item \in Fields, item.at = Position, item.size > 0,
           item.kind = "blob" => item.len = item.size - BlobHeaderLen + 1,
           Extend(item), UNCHANGED <<strTable, open, readerVars>>,
           item.kind = "reference" =>
               \E j \in DOMAIN file : Defines(j, item.str, item.ref)
    PROVE  IInv'
PROOF
<1>1. TypeInv /\ Layout /\ OpenInv /\ BlobInv
    BY DEF IInv
<1>2. file' \in Seq(Fields) /\ Keep
    BY <1>1, ExtendKeeps
<1>3. TableInv' /\ OpenInv'
    BY <1>1, <1>2, KeepPreserves DEF IInv
<1>4. strTable' \in [Strings -> Nat \union {None}] /\ open' \in Seq(Nat)
    BY <1>1 DEF TypeInv
<1> QED
    BY <1>3, <1>4, ExtendInv

\* Every string is new, a reference to what the table has, or new and put into
\* the table.
LEMMA WriteStringInv ==
    ASSUME IInv, NEW s \in Strings, WriteString(s)
    PROVE  IInv'
PROOF
<1> DEFINE new == [kind |-> "string", at |-> Position, size |-> TagLen + s.enc,
                   str |-> s, ref |-> None, len |-> 0]
           ref == [kind |-> "reference", at |-> Position, size |-> TagLen + RefLen,
                   str |-> s, ref |-> strTable[s], len |-> 0]
<1>1. TypeInv /\ Layout /\ OpenInv /\ BlobInv
    BY DEF IInv
<1>2. Position \in Nat
    BY <1>1, PositionBehind
<1>3. new \in Fields /\ new.size > 0
    BY <1>2, ImgFileAssumption DEF Fields, Kinds, TagLen
<1>4. UNCHANGED readerVars /\ UNCHANGED open
    BY DEF WriteString
<1>5. CASE NewString(s) /\ UNCHANGED strTable
    <2>1. Extend(new)
        BY <1>5 DEF NewString
    <2> QED
        BY <1>3, <1>4, <1>5, <2>1, ExtendSame
<1>6. CASE strTable[s] # None /\ Reference(s) /\ UNCHANGED strTable
    <2>1. Extend(ref)
        BY <1>6 DEF Reference
    <2>2. strTable[s] \in Nat \union {None}
        BY <1>1 DEF TypeInv
    <2>3. ref \in Fields /\ ref.size > 0
        BY <1>2, <2>2 DEF Fields, Kinds, TagLen, RefLen
    <2>4. \E j \in DOMAIN file : Defines(j, s, strTable[s])
        BY <1>6 DEF IInv, TableInv
    <2> QED
        BY <1>4, <1>6, <2>1, <2>3, <2>4, ExtendSame
<1>7. CASE NewString(s) /\ strTable' = [strTable EXCEPT ![s] = StringOffset]
    <2>1. Extend(new)
        BY <1>7 DEF NewString
    <2>2. /\ Keep
          /\ file' \in Seq(Fields)
          /\ Len(file') = Len(file) + 1
          /\ file'[Len(file) + 1] = new
          /\ \A i \in DOMAIN file : file'[i] = file[i]
        BY <1>1, <1>3, <2>1, ExtendKeeps
    <2>3. strTable' \in [Strings -> Nat \union {None}]
        BY <1>1, <1>2, <1>7 DEF TypeInv, StringOffset, TagLen
    <2>4. TableInv'
        <3>1. DOMAIN file' = 1 .. Len(file) + 1 /\ DOMAIN file = 1 .. Len(file) /\ Len(file) \in Nat
            BY <1>1, <2>2 DEF TypeInv
        <3>2. ASSUME NEW t \in Strings, strTable'[t] # None
              PROVE  \E j \in DOMAIN file' : Defines(j, t, strTable[t])'
            <4>1. CASE t = s
                <5>1. strTable'[t] = Position + TagLen
                    BY <1>1, <1>7, <4>1 DEF TypeInv, StringOffset
                <5>2. Len(file) + 1 \in DOMAIN file'
                    BY <3>1
                <5> QED
                    BY <2>2, <4>1, <5>1, <5>2 DEF Defines
            <4>2. CASE t # s
                <5>1. strTable'[t] = strTable[t]
                    BY <1>1, <1>7, <4>2 DEF TypeInv
                <5>2. PICK j \in DOMAIN file : Defines(j, t, strTable[t])
                    BY <3>2, <5>1 DEF IInv, TableInv
                <5> QED
                    BY <2>2, <3>1, <5>1, <5>2 DEF Defines
            <4> QED
                BY <4>1, <4>2
        <3> QED
            BY <3>2 DEF TableInv, Defines
    <2>5. OpenInv' /\ open' \in Seq(Nat)
        BY <1>1, <1>4, <2>2, KeepPreserves DEF TypeInv
    <2> QED
        BY <1>3, <1>4, <2>1, <2>3, <2>4, <2>5, ExtendInv
<1> QED
    BY <1>5, <1>6, <1>7 DEF WriteString

LEMMA WritePlainInv ==
    ASSUME IInv, NEW n \in Nat \ {0}, WritePlain(n)
    PROVE  IInv'
PROOF
<1> DEFINE item == [kind |-> "plain", at |-> Position, size |-> n,
                    str |-> None, ref |-> None, len |-> 0]
<1>1. Position \in Nat
    BY PositionBehind DEF IInv
<1>2. item \in Fields /\ item.size > 0
    BY <1>1 DEF Fields, Kinds
<1>3. Extend(item) /\ UNCHANGED <<strTable, open, readerVars>>
    BY DEF WritePlain
<1> QED
    BY <1>2, <1>3, ExtendSame

LEMMA WriteBlobInv ==
    ASSUME IInv, NEW n \in Nat, WriteBlob(n)
    PROVE  IInv'
PROOF
<1> DEFINE item == [kind |-> "blob", at |-> Position, size |-> BlobHeaderLen + n,
                    str |-> None, ref |-> None, len |-> n + 1]
<1>1. Position \in Nat
    BY PositionBehind DEF IInv
<1>2. item \in Fields /\ item.size > 0
    BY <1>1 DEF Fields, Kinds, BlobHeaderLen
<1>3. item.len = item.size - BlobHeaderLen + 1
    BY <1>1 DEF BlobHeaderLen
<1>4. Extend(item) /\ UNCHANGED <<strTable, open, readerVars>>
    BY DEF WriteBlob
<1> QED
    BY <1>2, <1>3, <1>4, ExtendSame

\* The new object is open.
LEMMA BeginObjectInv ==
    ASSUME IInv, BeginObject
    PROVE  IInv'
PROOF
<1> DEFINE item == [kind |-> "object", at |-> Position, size |-> ObjectHeaderLen,
                    str |-> None, ref |-> None, len |-> 0]
<1>1. TypeInv /\ Layout /\ OpenInv /\ BlobInv
    BY DEF IInv
<1>2. item \in Fields /\ item.size > 0
    BY <1>1, PositionBehind DEF Fields, Kinds, ObjectHeaderLen
<1>3. /\ Extend(item)
      /\ UNCHANGED <<strTable, readerVars>>
      /\ open' = Append(open, Len(file) + 1)
    BY DEF BeginObject
<1>4. /\ Keep
      /\ file' \in Seq(Fields)
      /\ Len(file') = Len(file) + 1
      /\ file'[Len(file) + 1] = item
      /\ \A i \in DOMAIN file : file'[i] = file[i]
    BY <1>1, <1>2, <1>3, ExtendKeeps
<1>5. DOMAIN file' = 1 .. Len(file) + 1 /\ DOMAIN file = 1 .. Len(file) /\ Len(file) \in Nat
    BY <1>1, <1>4 DEF TypeInv
<1>6. open' \in Seq(Nat) /\ \A k \in DOMAIN open' : 
        \/ open'[k] = Len(file) + 1
        \/ k \in DOMAIN open /\ open'[k] = open[k]
    BY <1>1, <1>3, <1>5 DEF TypeInv
<1>7. OpenInv'
    BY <1>1, <1>4, <1>5, <1>6 DEF OpenInv
<1>8. TableInv' /\ strTable' \in [Strings -> Nat \union {None}]
    BY <1>1, <1>3, <1>4, KeepPreserves DEF IInv, TypeInv
<1> QED
    BY <1>2, <1>3, <1>6, <1>7, <1>8, ExtendInv

\* The length of an object is no length of a canvas, and moves nothing.
LEMMA EndObjectInv ==
    ASSUME IInv, EndObject
    PROVE  IInv'
PROOF
<1> DEFINE i == open[Len(open)]
<1>1. TypeInv /\ Layout /\ OpenInv /\ BlobInv
    BY DEF IInv
<1>2. /\ open # << >>
      /\ open' = SubSeq(open, 1, Len(open) - 1)
      /\ file' = [file EXCEPT ![i].len = PosLen(file[i].at + TagLen)]
      /\ UNCHANGED <<strTable, readerVars>>
    BY DEF EndObject
<1>3. Len(open) \in DOMAIN open
    BY <1>1, <1>2 DEF TypeInv
<1>4. i \in DOMAIN file /\ file[i].kind = "object"
    BY <1>1, <1>3 DEF OpenInv
<1>5. PosLen(file[i].at + TagLen) \in Int
    <2>1. file[i].at \in Nat
        BY <1>1, <1>4, ItemType
    <2>2. Position \in Nat
        BY <1>1, PositionBehind
    <2> QED
        BY <2>1, <2>2 DEF PosLen, TagLen, RefLen
<1> DEFINE patched == [file[i] EXCEPT !.len = PosLen(file[i].at + TagLen)]
<1>6. /\ file' \in Seq(Fields) /\ DOMAIN file' = DOMAIN file /\ Len(file') = Len(file)
      /\ file'[i] = patched
      /\ \A j \in DOMAIN file : j # i => file'[j] = file[j]
    <2>1. file[i] \in Fields
        BY <1>1, <1>4, ItemType
    <2>2. patched \in Fields
        BY <1>5, <2>1 DEF Fields
    <2>3. file' = [file EXCEPT ![i] = patched]
        BY <1>2
    <2> HIDE DEF patched, i
    <2> QED
        BY <1>1, <1>4, <2>2, <2>3 DEF TypeInv
<1>7. /\ \A j \in DOMAIN file :
            /\ file'[j].kind = file[j].kind
            /\ file'[j].at = file[j].at
            /\ file'[j].size = file[j].size
            /\ file'[j].str = file[j].str
            /\ file'[j].ref = file[j].ref
            /\ j # i => file'[j] = file[j]
    <2>1. file[i] \in Fields
        BY <1>1, <1>4, ItemType
    <2>2. /\ patched.kind = file[i].kind
          /\ patched.at = file[i].at
          /\ patched.size = file[i].size
          /\ patched.str = file[i].str
          /\ patched.ref = file[i].ref
        BY <2>1 DEF Fields
    <2> HIDE DEF patched, i
    <2> QED
        BY <1>6, <2>2
<1>8. Keep
    <2>1. Len(file) \in Nat
        BY <1>1 DEF TypeInv
    <2> QED
        BY <1>6, <1>7, <2>1 DEF Keep
<1>9. Layout'
    BY <1>1, <1>6, <1>7 DEF Layout
<1>10. BlobInv'
    BY <1>1, <1>4, <1>6, <1>7 DEF BlobInv
<1>11. TableInv' /\ OffsetsInv' /\ NoWrongString' /\ ResolvedIsOwn'
    BY <1>1, <1>2, <1>6, <1>8, KeepPreserves DEF IInv, readerVars
<1>12. open' \in Seq(Nat) /\ \A k \in DOMAIN open' : k \in DOMAIN open /\ open'[k] = open[k]
    BY <1>1, <1>2, Shortened DEF TypeInv
<1>13. OpenInv'
    BY <1>1, <1>6, <1>7, <1>12 DEF OpenInv
<1>14. TypeInv'
    BY <1>1, <1>2, <1>6, <1>12 DEF TypeInv, readerVars
<1>15. ReferencesPointBack'
    <2>1. \A j \in DOMAIN file : 1 .. j - 1 \subseteq DOMAIN file
        BY <1>1 DEF TypeInv
    <2> QED
        BY <1>6, <1>7, <2>1 DEF IInv, ReferencesPointBack
<1> QED
    BY <1>9, <1>10, <1>11, <1>13, <1>14, <1>15 DEF IInv

-----------------------------------------------------------------------------
(* The reader leaves the file and the writer's table alone *)

FileInv == Layout /\ OpenInv /\ BlobInv /\ TableInv /\ ReferencesPointBack

LEMMA ReaderKeeps ==
    ASSUME IInv, UNCHANGED <<file, strTable, open>>
    PROVE  FileInv'
    BY DEF IInv, FileInv, Layout, OpenInv, BlobInv, TableInv, Defines, ReferencesPointBack

\* What a reader's step that returns no string and resolves nothing preserves.
LEMMA QuietInv ==
    ASSUME IInv, UNCHANGED <<file, strTable, open, offsets, read, resolved>>
    PROVE  IInv'
PROOF
<1>1. FileInv'
    BY ReaderKeeps
<1>2. TypeInv'
    BY DEF IInv, TypeInv
<1>3. OffsetsInv' /\ NoWrongString' /\ ResolvedIsOwn'
    BY DEF IInv, OffsetsInv, Defines, NoWrongString, ResolvedIsOwn, DataSize
<1> QED
    BY <1>1, <1>2, <1>3 DEF IInv, FileInv

\* A string that is returned is that of an item.
LEMMA ReturnedInv ==
    ASSUME IInv, NEW i \in DOMAIN file, Returned(i, file[i].str),
           UNCHANGED <<writerVars, resolved>>, OffsetsInv'
    PROVE  IInv'
PROOF
<1>1. FileInv'
    BY ReaderKeeps DEF writerVars
<1>2. TypeInv
    BY DEF IInv
<1> DEFINE entry == [at |-> file[i].at, str |-> file[i].str]
<1>3. entry \in Returns
    BY <1>2, ItemType DEF Returns
<1>4. /\ read' \in Seq(Returns)
      /\ \A k \in DOMAIN read' :
            \/ read'[k] = entry
            \/ k \in DOMAIN read /\ read'[k] = read[k]
    <2>1. read' = Append(read, entry)
        BY DEF Returned
    <2> HIDE DEF entry
    <2> QED
        BY <1>2, <1>3, <2>1, Appended DEF TypeInv
<1>5. TypeInv'
    BY <1>2, <1>4 DEF TypeInv, writerVars
<1>6. NoWrongString'
    BY <1>4 DEF IInv, NoWrongString, writerVars
<1>7. ResolvedIsOwn'
    BY DEF IInv, ResolvedIsOwn, DataSize, writerVars
<1> QED
    BY <1>1, <1>5, <1>6, <1>7 DEF IInv, FileInv

LEMMA ReadStringInv ==
    ASSUME IInv, ReadString
    PROVE  IInv'
PROOF
<1>1. PICK i \in Here :
        /\ file[i].kind = "string"
        /\ offsets' = IF Keeps(file[i].str)
                      THEN [p \in DOMAIN offsets \union {pos + TagLen} |->
                              IF p = pos + TagLen THEN file[i].str ELSE offsets[p]]
                      ELSE offsets
        /\ Returned(i, file[i].str)
        /\ UNCHANGED <<writerVars, resolved>>
    BY DEF ReadString
<1>2. i \in DOMAIN file /\ file[i].at = pos
    BY DEF Here
<1>3. file' = file
    BY <1>1 DEF writerVars
<1>4. Defines(i, file[i].str, pos + TagLen)
    BY <1>1, <1>2 DEF Defines
<1>5. ASSUME NEW p \in DOMAIN offsets'
      PROVE  \E j \in DOMAIN file : Defines(j, offsets'[p], p)
    <2>1. CASE p \in DOMAIN offsets /\ offsets'[p] = offsets[p]
        BY <2>1 DEF IInv, OffsetsInv
    <2>2. CASE p = pos + TagLen /\ offsets'[p] = file[i].str
        BY <1>2, <1>4, <2>2
    <2> QED
        BY <1>1, <1>5, <2>1, <2>2
<1>6. OffsetsInv'
    BY <1>3, <1>5 DEF OffsetsInv, Defines
<1> QED
    BY <1>1, <1>2, <1>6, ReturnedInv

\* Two strings do not start at the same position.
LEMMA DefinedOnce ==
    ASSUME IInv, NEW j \in DOMAIN file, NEW k \in DOMAIN file, NEW s, NEW t, NEW p,
           Defines(j, s, p), Defines(k, t, p)
    PROVE  s = t
PROOF
<1>1. /\ j \in Nat /\ k \in Nat
      /\ file[j].at \in Nat /\ file[k].at \in Nat
      /\ file[j].size \in Nat /\ file[k].size \in Nat
    BY ItemType DEF IInv
<1>2. file[j].at = file[k].at
    BY <1>1 DEF Defines, TagLen
<1>3. ~(j < k) /\ ~(k < j)
    BY <1>1, <1>2 DEF IInv, Layout
<1>4. j = k
    BY <1>1, <1>3
<1> QED
    BY <1>4 DEF Defines

\* What the reader's table has for a reference is the string the tree has there.
LEMMA ReferenceIsString ==
    ASSUME IInv, NEW i \in DOMAIN file, file[i].kind = "reference", file[i].ref \in DOMAIN offsets
    PROVE  offsets[file[i].ref] = file[i].str
PROOF
<1>1. PICK j \in 1 .. i - 1 : Defines(j, file[i].str, file[i].ref)
    BY DEF IInv, ReferencesPointBack, Defines
<1>2. j \in DOMAIN file
    BY DEF IInv, TypeInv
<1>3. PICK k \in DOMAIN file : Defines(k, offsets[file[i].ref], file[i].ref)
    BY DEF IInv, OffsetsInv
<1> QED
    BY <1>1, <1>2, <1>3, DefinedOnce

LEMMA ReadReferenceInv ==
    ASSUME IInv, ReadReference
    PROVE  IInv'
PROOF
<1>1. PICK i \in Here :
        /\ file[i].kind = "reference"
        /\ file[i].ref \in DOMAIN offsets
        /\ Returned(i, offsets[file[i].ref])
        /\ UNCHANGED <<writerVars, offsets, resolved>>
    BY DEF ReadReference
<1>2. i \in DOMAIN file
    BY DEF Here
<1>3. offsets[file[i].ref] = file[i].str
    BY <1>1, <1>2, ReferenceIsString
<1>4. OffsetsInv'
    BY <1>1 DEF IInv, OffsetsInv, Defines, writerVars
<1> QED
    BY <1>1, <1>2, <1>3, <1>4, ReturnedInv

\* Behind the data of a canvas the next item starts.
LEMMA BlobEnd ==
    ASSUME IInv, NEW i \in DOMAIN file, file[i].kind = "blob"
    PROVE  file[i].at + BlobHeaderLen + DataLen(i) = EndOf(i)
PROOF
<1>1. file[i].at \in Nat /\ file[i].size \in Nat
    BY ItemType DEF IInv
<1>2. file[i].len = file[i].size - BlobHeaderLen + 1
    BY DEF IInv, BlobInv
<1> QED
    BY <1>1, <1>2 DEF DataLen, EndOf, BlobHeaderLen

\* What is fetched is the data of a canvas or a sound.
LEMMA LookupInv ==
    ASSUME IInv, NEW i \in DOMAIN file, file[i].kind \in {"blob", "plain"},
           NEW entry, entry = [at |-> file[i].at, buf |-> << <<file[i].at, DataSize(i)>> >>],
           resolved' = Append(resolved, entry),
           UNCHANGED <<writerVars, offsets, read>>
    PROVE  IInv'
PROOF
<1>1. TypeInv
    BY DEF IInv
<1>2. file[i].at \in Nat /\ file[i].size \in Nat
    BY <1>1, ItemType
<1>3. DataSize(i) \in Int
    BY <1>2 DEF DataSize, BlobHeaderLen
<1>4. entry.at = file[i].at /\ entry.buf = << <<file[i].at, DataSize(i)>> >>
    OBVIOUS
<1>5. entry \in Lookups
    BY <1>2, <1>3 DEF Lookups
<1>6. /\ resolved' \in Seq(Lookups)
      /\ \A k \in DOMAIN resolved' :
            \/ resolved'[k] = entry
            \/ k \in DOMAIN resolved /\ resolved'[k] = resolved[k]
    BY <1>1, <1>5, Appended DEF TypeInv
<1>7. FileInv'
    <2>1. UNCHANGED <<file, strTable, open>>
        BY DEF writerVars
    <2> QED
        BY <2>1, ReaderKeeps
<1>8. TypeInv'
    BY <1>1, <1>6 DEF TypeInv, writerVars
<1>9. OffsetsInv' /\ NoWrongString'
    BY DEF IInv, OffsetsInv, Defines, NoWrongString, writerVars
<1>10. ResolvedIsOwn'
    <2>1. file' = file
        BY DEF writerVars
    <2>2. ASSUME NEW k \in DOMAIN resolved', k \in DOMAIN resolved, resolved'[k] = resolved[k]
          PROVE  \E j \in DOMAIN file :
                    /\ file[j].kind \in {"blob", "plain"}
                    /\ file[j].at = resolved'[k].at
                    /\ resolved'[k].buf = << <<file[j].at, DataSize(j)>> >>
        BY <2>2 DEF IInv, ResolvedIsOwn
    <2>3. ASSUME NEW k \in DOMAIN resolved', resolved'[k] = entry
          PROVE  /\ file[i].kind \in {"blob", "plain"}
                 /\ file[i].at = resolved'[k].at
                 /\ resolved'[k].buf = << <<file[i].at, DataSize(i)>> >>
        BY <1>4, <2>3
    <2>4. \A j : DataSize(j)' = DataSize(j)
        BY <2>1 DEF DataSize
    <2> QED
        BY <1>6, <2>1, <2>2, <2>3, <2>4 DEF ResolvedIsOwn
<1> QED
    BY <1>7, <1>8, <1>9, <1>10 DEF IInv, FileInv

\* What is fetched is as long as the canvas's length says, less the padding byte.
LEMMA ResolveInv ==
    ASSUME IInv, Resolve
    PROVE  IInv'
PROOF
<1>1. PICK i \in DOMAIN file :
        /\ file[i].kind = "blob"
        /\ resolved' = Append(resolved, [at |-> file[i].at,
                buf |-> Cleared \o << <<file[i].at, DataLen(i)>> >>])
        /\ UNCHANGED <<writerVars, offsets, read>>
    BY DEF Resolve
<1>2. file[i].at \in Nat /\ file[i].size \in Nat
    BY ItemType DEF IInv
<1>3. file[i].len = file[i].size - BlobHeaderLen + 1
    BY <1>1 DEF IInv, BlobInv
<1>4. DataLen(i) = DataSize(i)
    BY <1>1, <1>2, <1>3 DEF DataLen, DataSize, BlobHeaderLen
<1>5. Cleared \o << <<file[i].at, DataLen(i)>> >> = << <<file[i].at, DataSize(i)>> >>
    BY <1>4 DEF Cleared
<1> DEFINE entry == [at |-> file[i].at, buf |-> << <<file[i].at, DataSize(i)>> >>]
<1>6. resolved' = Append(resolved, entry)
    BY <1>1, <1>5
<1>7. entry = [at |-> file[i].at, buf |-> << <<file[i].at, DataSize(i)>> >>]
    OBVIOUS
<1> HIDE DEF entry
<1> QED
    BY <1>1, <1>6, <1>7, LookupInv

\* Every step preserves the invariant.
LEMMA StepInv == IInv /\ [FileNext]_vars => IInv'
PROOF
<1> SUFFICES ASSUME IInv, [FileNext]_vars PROVE IInv'
    OBVIOUS
<1>1. ASSUME NEW s \in Strings, WriteString(s) PROVE IInv'
    BY <1>1, WriteStringInv
<1>2. ASSUME NEW n \in Nat \ {0}, WritePlain(n) PROVE IInv'
    BY <1>2, WritePlainInv
<1>3. ASSUME NEW n \in Nat, WriteBlob(n) PROVE IInv'
    BY <1>3, WriteBlobInv
<1>4. CASE BeginObject
    BY <1>4, BeginObjectInv
<1>5. CASE EndObject
    BY <1>5, EndObjectInv
<1>6. CASE Closes
    BY <1>6, QuietInv DEF Closes, readerVars
<1>7. CASE ReadString
    BY <1>7, ReadStringInv
<1>8. CASE ReadReference
    BY <1>8, ReadReferenceInv
<1>9. CASE UnknownOffset \/ ReadPlain \/ SkipObject \/ SkipBlob
    BY <1>9, QuietInv DEF UnknownOffset, ReadPlain, SkipObject, SkipBlob, writerVars
<1>10. CASE Resolve
    BY <1>10, ResolveInv
<1>11. CASE UNCHANGED vars
    BY <1>11, QuietInv DEF vars, writerVars, readerVars
<1> QED
    BY <1>1, <1>2, <1>3, <1>4, <1>5, <1>6, <1>7, <1>8, <1>9, <1>10, <1>11
       DEF FileNext, FileWrites, Reader

\* The invariant holds in every file that is written and read.
THEOREM Invariance == Spec => []IInv
PROOF
<1>1. Init => IInv
    BY InitInv
<1>2. IInv /\ [Next]_vars => IInv'
    BY StepInv, NextIsFile
<1> QED
    BY <1>1, <1>2, PTL DEF Spec

\* Every reference in a file points back at the string the tree has there, whatever
\* the strings, their lengths and the limit of the table are (str_table.rs, writer.rs).
THEOREM References == Spec => []ReferencesPointBack
PROOF
<1>1. IInv => ReferencesPointBack
    BY DEF IInv
<1> QED
    BY <1>1, Invariance, PTL

\* A reader, one that skips objects too, returns at no place another string than the
\* tree has there (reader.rs, str_table.rs).
THEOREM StringsAreRight == Spec => []NoWrongString
PROOF
<1>1. IInv => NoWrongString
    BY DEF IInv
<1> QED
    BY <1>1, Invariance, PTL

\* A resolver gives the data of the canvas it was asked for, all of it and nothing
\* else, for every size and however often its buffer was used (reader.rs).
THEOREM DataIsOwn == Spec => []ResolvedIsOwn
PROOF
<1>1. IInv => ResolvedIsOwn
    BY DEF IInv
<1> QED
    BY <1>1, Invariance, PTL

-----------------------------------------------------------------------------
(* Patched lengths *)

\* Where a reader may stand.
Boundary(p) == p = Position \/ \E j \in DOMAIN file : file[j].at = p

\* Behind every item, and behind every object whose length is patched, another item
\* starts or the file ends.
BoundaryInv ==
    /\ Boundary(pos)
    /\ written => open = << >>
    /\ \A i \in DOMAIN file : Boundary(EndOf(i))
    /\ \A i \in DOMAIN file : file[i].kind = "object" =>
        /\ file[i].size = ObjectHeaderLen
        /\ (\E k \in DOMAIN open : open[k] = i) \/ Boundary(EndOf(i) + file[i].len)

\* The same of the step's second state.
NextBoundary(p) == p = Position' \/ \E j \in DOMAIN file' : file'[j].at = p

LEMMA NextBoundaryInv ==
    ASSUME NextBoundary(pos'), written' => open' = << >>,
           \A i \in DOMAIN file' : NextBoundary(file'[i].at + file'[i].size),
           \A i \in DOMAIN file' : file'[i].kind = "object" =>
                /\ file'[i].size = ObjectHeaderLen
                /\ \/ \E k \in DOMAIN open' : open'[k] = i
                   \/ NextBoundary(file'[i].at + file'[i].size + file'[i].len)
    PROVE  BoundaryInv'
    BY DEF BoundaryInv, Boundary, NextBoundary, EndOf

LEMMA InitBoundary == Init => BoundaryInv
    BY DEF Init, BoundaryInv, Boundary, Position

\* A position between items is one in a longer file.
LEMMA BoundaryKept ==
    ASSUME TypeInv, Keep, file' \in Seq(Fields),
           Position' = Position \/ \E j \in DOMAIN file' : file'[j].at = Position
    PROVE  \A p : Boundary(p) => NextBoundary(p)
PROOF
<1>1. \A i \in DOMAIN file : i \in DOMAIN file'
    BY DEF Keep, TypeInv
<1> QED
    BY <1>1 DEF Boundary, NextBoundary, Keep

\* An item that is put behind the others keeps the boundaries.
LEMMA ExtendBoundary ==
    ASSUME IInv, BoundaryInv, UNCHANGED <<pos, written>>, ~written,
           NEW item \in Fields, item.at = Position, item.size > 0,
           item.kind = "blob" => item.len = item.size - BlobHeaderLen + 1,
           Extend(item),
           \A k \in DOMAIN open : k \in DOMAIN open' /\ open'[k] = open[k],
           item.kind = "object" =>
                /\ item.size = ObjectHeaderLen
                /\ \E k \in DOMAIN open' : open'[k] = Len(file) + 1
    PROVE  BoundaryInv'
PROOF
<1>1. TypeInv /\ Layout /\ OpenInv /\ BlobInv
    BY DEF IInv
<1>2. /\ file' \in Seq(Fields)
      /\ Keep
      /\ Len(file') = Len(file) + 1
      /\ file'[Len(file) + 1] = item
      /\ \A i \in DOMAIN file : file'[i] = file[i]
    BY <1>1, ExtendKeeps
<1>3. /\ DOMAIN file' = 1 .. Len(file) + 1
      /\ DOMAIN file = 1 .. Len(file)
      /\ Len(file) \in Nat
    BY <1>1, <1>2 DEF TypeInv
<1>4. Position' = item.at + item.size
    <2>1. file' # << >>
        BY <1>2, <1>3
    <2> QED
        BY <1>2, <2>1 DEF Position, EndOf
<1>5. \A p : Boundary(p) => NextBoundary(p)
    <2>1. \E j \in DOMAIN file' : file'[j].at = Position
        BY <1>2, <1>3
    <2> QED
        BY <1>1, <1>2, <2>1, BoundaryKept
<1>6. NextBoundary(pos')
    BY <1>5 DEF BoundaryInv
<1>7. ASSUME NEW i \in DOMAIN file'
      PROVE  NextBoundary(file'[i].at + file'[i].size)
    <2>1. CASE i \in DOMAIN file
        BY <1>2, <1>5, <2>1 DEF BoundaryInv, EndOf
    <2>2. CASE i = Len(file) + 1
        BY <1>2, <1>4, <2>2 DEF NextBoundary
    <2> QED
        BY <1>3, <2>1, <2>2
<1>8. ASSUME NEW i \in DOMAIN file', file'[i].kind = "object"
      PROVE  /\ file'[i].size = ObjectHeaderLen
             /\ \/ \E k \in DOMAIN open' : open'[k] = i
                \/ NextBoundary(file'[i].at + file'[i].size + file'[i].len)
    <2>1. CASE i \in DOMAIN file
        <3>1. file'[i] = file[i]
            BY <1>2, <2>1
        <3>2. CASE \E k \in DOMAIN open : open[k] = i
            BY <1>8, <2>1, <3>1, <3>2 DEF BoundaryInv
        <3>3. CASE Boundary(EndOf(i) + file[i].len)
            BY <1>5, <1>8, <2>1, <3>1, <3>3 DEF BoundaryInv, EndOf
        <3> QED
            BY <1>8, <2>1, <3>1, <3>2, <3>3 DEF BoundaryInv
    <2>2. CASE i = Len(file) + 1
        BY <1>2, <1>8, <2>2
    <2> QED
        BY <1>3, <2>1, <2>2
<1> QED
    BY <1>6, <1>7, <1>8, NextBoundaryInv

LEMMA WriterBoundary ==
    ASSUME IInv, BoundaryInv,
           \/ \E s \in Strings : WriteString(s)
           \/ \E n \in PlainSizes : WritePlain(n)
           \/ BeginObject
           \/ \E n \in BlobSizes : WriteBlob(n)
    PROVE  BoundaryInv'
PROOF
<1>1. Position \in Nat /\ TypeInv
    BY PositionBehind DEF IInv
<1>2. ASSUME NEW s \in Strings, WriteString(s) PROVE BoundaryInv'
    <2> DEFINE new == [kind |-> "string", at |-> Position, size |-> TagLen + s.enc,
                       str |-> s, ref |-> None, len |-> 0]
               ref == [kind |-> "reference", at |-> Position, size |-> TagLen + RefLen,
                       str |-> s, ref |-> strTable[s], len |-> 0]
    <2>1. UNCHANGED <<pos, written, open>> /\ ~written
        BY <1>2 DEF WriteString, readerVars, Writing
    <2>2. new \in Fields /\ new.size > 0
        BY <1>1, ImgFileAssumption DEF Fields, Kinds, TagLen
    <2>3. strTable[s] \in Nat \union {None}
        BY <1>1 DEF TypeInv
    <2>4. ref \in Fields /\ ref.size > 0
        BY <1>1, <2>3 DEF Fields, Kinds, TagLen, RefLen
    <2>5. Extend(new) \/ Extend(ref)
        BY <1>2 DEF WriteString, NewString, Reference
    <2> QED
        BY <2>1, <2>2, <2>4, <2>5, ExtendBoundary
<1>3. ASSUME NEW n \in PlainSizes, WritePlain(n) PROVE BoundaryInv'
    <2> DEFINE item == [kind |-> "plain", at |-> Position, size |-> n,
                        str |-> None, ref |-> None, len |-> 0]
    <2>1. item \in Fields /\ item.size > 0
        BY <1>1, ImgFileAssumption DEF Fields, Kinds
    <2>2. Extend(item) /\ UNCHANGED <<pos, written, open>> /\ ~written
        BY <1>3 DEF WritePlain, readerVars, Writing
    <2> QED
        BY <2>1, <2>2, ExtendBoundary
<1>4. ASSUME NEW n \in BlobSizes, WriteBlob(n) PROVE BoundaryInv'
    <2> DEFINE item == [kind |-> "blob", at |-> Position, size |-> BlobHeaderLen + n,
                        str |-> None, ref |-> None, len |-> n + 1]
    <2>1. item \in Fields /\ item.size > 0 /\ item.len = item.size - BlobHeaderLen + 1
        BY <1>1, ImgFileAssumption DEF Fields, Kinds, BlobHeaderLen
    <2>2. Extend(item) /\ UNCHANGED <<pos, written, open>> /\ ~written
        BY <1>4 DEF WriteBlob, readerVars, Writing
    <2> QED
        BY <2>1, <2>2, ExtendBoundary
<1>5. CASE BeginObject
    <2> DEFINE item == [kind |-> "object", at |-> Position, size |-> ObjectHeaderLen,
                        str |-> None, ref |-> None, len |-> 0]
    <2>1. item \in Fields /\ item.size > 0
        BY <1>1 DEF Fields, Kinds, ObjectHeaderLen
    <2>2. /\ Extend(item) /\ UNCHANGED <<pos, written>> /\ ~written
          /\ open' = Append(open, Len(file) + 1)
        BY <1>5 DEF BeginObject, readerVars, Writing
    <2>3. /\ \A k \in DOMAIN open : k \in DOMAIN open' /\ open'[k] = open[k]
          /\ \E k \in DOMAIN open' : open'[k] = Len(file) + 1
        <3>1. open \in Seq(Nat) /\ Len(file) + 1 \in Nat
            BY <1>1 DEF TypeInv
        <3>2. Len(open) + 1 \in DOMAIN open' /\ open'[Len(open) + 1] = Len(file) + 1
            BY <2>2, <3>1
        <3> QED
            BY <2>2, <3>1, <3>2
    <2> QED
        BY <2>1, <2>2, <2>3, ExtendBoundary
<1> QED
    BY <1>2, <1>3, <1>4, <1>5

\* The patched length reaches from behind the header to the end of the file, where
\* the next item will start.
LEMMA EndObjectBoundary ==
    ASSUME IInv, BoundaryInv, EndObject
    PROVE  BoundaryInv'
PROOF
<1> DEFINE i == open[Len(open)]
           newLen == PosLen(file[i].at + TagLen)
<1>1. TypeInv /\ Layout /\ OpenInv /\ BlobInv
    BY DEF IInv
<1>2. /\ ~written /\ open # << >>
      /\ open' = SubSeq(open, 1, Len(open) - 1)
      /\ file' = [file EXCEPT ![i].len = newLen]
      /\ UNCHANGED <<strTable, written, pos>>
    BY DEF EndObject, readerVars
<1>3. open \in Seq(Nat) /\ Len(open) \in DOMAIN open
    BY <1>1, <1>2 DEF TypeInv
<1>4. i \in DOMAIN file /\ file[i].kind = "object" /\ file[i].size = ObjectHeaderLen
    BY <1>1, <1>3 DEF OpenInv, BoundaryInv
<1>5. file' \in Seq(Fields)
    BY EndObjectInv DEF IInv, TypeInv
<1>6. /\ DOMAIN file' = DOMAIN file /\ Len(file') = Len(file)
      /\ file'[i] = [file[i] EXCEPT !.len = newLen]
      /\ \A j \in DOMAIN file : j # i => file'[j] = file[j]
    <2> HIDE DEF i, newLen
    <2> QED
        BY <1>1, <1>2, <1>4 DEF TypeInv
<1>7. /\ file'[i].kind = file[i].kind /\ file'[i].at = file[i].at
      /\ file'[i].size = file[i].size /\ file'[i].str = file[i].str
      /\ file'[i].ref = file[i].ref /\ file'[i].len = newLen
    <2>1. file[i] \in Fields
        BY <1>1, <1>4, ItemType
    <2> HIDE DEF i, newLen
    <2> QED
        BY <1>6, <2>1 DEF Fields
<1>8. \A j \in DOMAIN file :
        /\ file'[j].kind = file[j].kind /\ file'[j].at = file[j].at
        /\ file'[j].size = file[j].size /\ file'[j].str = file[j].str
        /\ file'[j].ref = file[j].ref
    <2> HIDE DEF i, newLen
    <2> QED
        BY <1>6, <1>7
<1>9. Keep
    <2>1. Len(file) \in Nat
        BY <1>1 DEF TypeInv
    <2> QED
        BY <1>6, <1>8, <2>1 DEF Keep
<1>10. Position' = Position /\ Position \in Nat
    <2>1. file # << >> /\ file' # << >> /\ Len(file) \in DOMAIN file
        BY <1>1, <1>4, <1>5, <1>6 DEF TypeInv
    <2> QED
        BY <1>1, <1>6, <1>8, <2>1, PositionBehind DEF Position, EndOf
<1>11. \A p : Boundary(p) => NextBoundary(p)
    BY <1>1, <1>5, <1>9, <1>10, BoundaryKept
<1>12. NextBoundary(pos') /\ \A j \in DOMAIN file' : NextBoundary(file'[j].at + file'[j].size)
    BY <1>2, <1>6, <1>8, <1>11 DEF BoundaryInv, EndOf
<1>13. NextBoundary(file'[i].at + file'[i].size + file'[i].len)
    <2>1. file[i].at \in Nat
        BY <1>1, <1>4, ItemType
    <2>2. file[i].at + file[i].size + newLen = Position
        BY <1>4, <1>10, <2>1 DEF PosLen, TagLen, RefLen, ObjectHeaderLen
    <2> HIDE DEF newLen, i
    <2> QED
        BY <1>7, <1>10, <2>2 DEF NextBoundary
<1>14. ASSUME NEW j \in DOMAIN file', file'[j].kind = "object"
       PROVE  /\ file'[j].size = ObjectHeaderLen
              /\ \/ \E k \in DOMAIN open' : open'[k] = j
                 \/ NextBoundary(file'[j].at + file'[j].size + file'[j].len)
    <2>1. j \in DOMAIN file /\ file[j].kind = "object" /\ file'[j].size = ObjectHeaderLen
        BY <1>6, <1>8, <1>14 DEF BoundaryInv
    <2>2. CASE j = i
        <3> HIDE DEF i
        <3> QED
            BY <1>13, <2>1, <2>2
    <2>3. CASE j # i /\ \E k \in DOMAIN open : open[k] = j
        <3>1. PICK k \in DOMAIN open : open[k] = j
            BY <2>3
        <3>2. k # Len(open)
            BY <2>3, <3>1
        <3>3. k \in DOMAIN open' /\ open'[k] = open[k]
            BY <1>2, <1>3, <3>1, <3>2
        <3> QED
            BY <2>1, <3>1, <3>3
    <2>4. CASE j # i /\ Boundary(EndOf(j) + file[j].len)
        <3>1. file'[j] = file[j]
            BY <1>6, <2>1, <2>4
        <3> QED
            BY <1>11, <2>1, <2>4, <3>1 DEF EndOf
    <2> QED
        BY <2>1, <2>2, <2>3, <2>4 DEF BoundaryInv
<1> QED
    BY <1>2, <1>12, <1>14, NextBoundaryInv

\* A reader goes from one boundary to another.
LEMMA ReaderBoundary ==
    ASSUME IInv, BoundaryInv, UNCHANGED <<file, open>>, written' => written \/ open = << >>,
           Boundary(pos')
    PROVE  BoundaryInv'
PROOF
<1>1. \A p : Boundary(p) => NextBoundary(p)
    BY DEF Boundary, NextBoundary, Position, EndOf
<1>2. \A i \in DOMAIN file' : NextBoundary(file'[i].at + file'[i].size)
    BY <1>1 DEF BoundaryInv, EndOf
<1>3. \A i \in DOMAIN file' : file'[i].kind = "object" =>
        /\ file'[i].size = ObjectHeaderLen
        /\ \/ \E k \in DOMAIN open' : open'[k] = i
           \/ NextBoundary(file'[i].at + file'[i].size + file'[i].len)
    BY <1>1 DEF BoundaryInv, EndOf
<1> QED
    BY <1>1, <1>2, <1>3, NextBoundaryInv DEF BoundaryInv

LEMMA StepBoundary == IInv /\ BoundaryInv /\ [Next]_vars => BoundaryInv'
PROOF
<1> SUFFICES ASSUME IInv, BoundaryInv, [Next]_vars PROVE BoundaryInv'
    OBVIOUS
<1>1. CASE \/ \E s \in LooseStrings : WriteString(s)
           \/ \E n \in PlainSizes : WritePlain(n)
           \/ BeginObject
           \/ \E n \in BlobSizes : WriteBlob(n)
    BY <1>1, WriterBoundary, ImgFileAssumption
<1>2. CASE EndObject
    BY <1>2, EndObjectBoundary
<1>3. CASE Finish
    BY <1>3, ReaderBoundary DEF Finish, readerVars, BoundaryInv
<1>4. CASE ReadString \/ ReadReference \/ ReadPlain
    <2>1. PICK i \in Here : pos' = EndOf(i) /\ UNCHANGED writerVars
        BY <1>4 DEF ReadString, ReadReference, ReadPlain
    <2>2. Boundary(EndOf(i))
        BY DEF BoundaryInv, Here
    <2> QED
        BY <2>1, <2>2, ReaderBoundary DEF writerVars
<1>5. CASE UnknownOffset \/ UNCHANGED vars
    BY <1>5, ReaderBoundary DEF UnknownOffset, vars, writerVars, readerVars, BoundaryInv
<1>6. CASE SkipObject
    <2>1. PICK i \in Here : /\ file[i].kind = "object" /\ written
                            /\ pos' = EndOf(i) + file[i].len
                            /\ UNCHANGED writerVars
        BY <1>6 DEF SkipObject, Reading
    <2>2. Boundary(EndOf(i) + file[i].len)
        BY <2>1 DEF BoundaryInv, Here
    <2> QED
        BY <2>1, <2>2, ReaderBoundary DEF writerVars
<1>7. CASE SkipBlob \/ Resolve
    <2>1. PICK i \in DOMAIN file : /\ file[i].kind = "blob"
                                   /\ pos' = file[i].at + BlobHeaderLen + DataLen(i)
                                   /\ UNCHANGED writerVars
        BY <1>7 DEF SkipBlob, Resolve, Here
    <2>2. pos' = EndOf(i)
        BY <2>1, BlobEnd
    <2>3. Boundary(EndOf(i))
        BY DEF BoundaryInv
    <2> QED
        BY <2>1, <2>2, <2>3, ReaderBoundary DEF writerVars
<1> QED
    BY <1>1, <1>2, <1>3, <1>4, <1>5, <1>6, <1>7 DEF Next, Writer, Reader

\* A reader always stands at the start of an item or at the end of the file: the
\* lengths that are patched in behind objects are exact at any nesting, and those of
\* canvases count what is behind them (writer.rs, ty.rs).
THEOREM Alignment == Spec => []Aligned
PROOF
<1>1. Init => BoundaryInv
    BY InitBoundary
<1>2. IInv /\ BoundaryInv /\ [Next]_vars => BoundaryInv'
    BY StepBoundary
<1>3. BoundaryInv => Aligned
    BY DEF BoundaryInv, Boundary, Aligned, Here
<1> QED
    BY <1>1, <1>2, <1>3, Invariance, PTL DEF Spec

-----------------------------------------------------------------------------
(* A reader that skips nothing knows every string that lies before it *)

SeenInv ==
    /\ ~written => pos = 0
    /\ \A j \in DOMAIN file : file[j].kind = "string" => file[j].str \in Strings
    /\ ~skipped /\ resolved = << >> =>
        \A j \in DOMAIN file : file[j].kind = "string" /\ file[j].at < pos =>
            file[j].at + TagLen \in DOMAIN offsets
    /\ failed => skipped

\* Before anything is read there is nothing to know.
LEMMA WriterSeen ==
    ASSUME SeenInv, UNCHANGED readerVars, ~written, pos = 0, file' \in Seq(Fields),
           \A j \in DOMAIN file' : file'[j].kind = "string" => file'[j].str \in Strings
    PROVE  SeenInv'
PROOF
<1>1. \A j \in DOMAIN file' : file'[j].at \in Nat
    <2>1. \A j \in DOMAIN file' : file'[j] \in Fields
        OBVIOUS
    <2> QED
        BY <2>1 DEF Fields
<1>2. pos' = 0 /\ skipped' = skipped /\ failed' = failed
    BY DEF readerVars
<1>3. \A j \in DOMAIN file' : ~(file'[j].at < pos')
    BY <1>1, <1>2
<1> QED
    BY <1>2, <1>3 DEF SeenInv

\* An item is read or jumped over, and if it is a string it is put into the table.
LEMMA ReaderSeen ==
    ASSUME IInv, SeenInv, NEW i \in Here, written, UNCHANGED <<writerVars, skipped, failed, resolved>>,
           pos' = EndOf(i), DOMAIN offsets \subseteq DOMAIN offsets',
           file[i].kind = "string" => pos + TagLen \in DOMAIN offsets'
    PROVE  SeenInv'
PROOF
<1>1. i \in DOMAIN file /\ file[i].at = pos /\ file' = file /\ written' = written
    BY DEF Here, writerVars
<1>2. ASSUME ~skipped', resolved' = << >>,
             NEW j \in DOMAIN file', file'[j].kind = "string", file'[j].at < pos'
      PROVE  file'[j].at + TagLen \in DOMAIN offsets'
    <2>1. /\ i \in Nat /\ j \in Nat
          /\ file[i].at \in Nat /\ file[j].at \in Nat
          /\ file[i].size \in Nat /\ file[j].size \in Nat /\ file[j].size > 0
        BY <1>1, <1>2, ItemType DEF IInv, Layout
    <2>2. CASE j = i
        BY <1>1, <1>2, <2>2
    <2>3. CASE j < i
        <3>1. file[j].at + file[j].size <= file[i].at
            BY <1>1, <1>2, <2>3 DEF IInv, Layout
        <3>2. file[j].at < pos
            BY <1>1, <2>1, <3>1
        <3> QED
            BY <1>1, <1>2, <3>2 DEF SeenInv
    <2>4. CASE i < j
        <3>1. file[i].at + file[i].size <= file[j].at
            BY <1>1, <1>2, <2>4 DEF IInv, Layout
        <3> QED
            BY <1>1, <1>2, <2>1, <3>1 DEF EndOf
    <2> QED
        BY <2>1, <2>2, <2>3, <2>4
<1> QED
    BY <1>1, <1>2 DEF SeenInv

\* A reference that is met was defined before, so it is known.
LEMMA KnownReference ==
    ASSUME IInv, SeenInv, ~skipped, resolved = << >>, NEW i \in Here, file[i].kind = "reference"
    PROVE  file[i].ref \in DOMAIN offsets
PROOF
<1>1. i \in DOMAIN file /\ file[i].at = pos
    BY DEF Here
<1>2. PICK j \in 1 .. i - 1 : file[j].kind = "string" /\ file[i].ref = file[j].at + TagLen
    BY <1>1 DEF IInv, ReferencesPointBack
<1>3. /\ j \in DOMAIN file /\ j < i
      /\ file[i].at \in Nat /\ file[j].at \in Nat /\ file[j].size \in Nat
    <2>1. i \in Nat /\ i \in 1 .. Len(file) /\ j \in 1 .. i - 1
        BY <1>1, <1>2, ItemType DEF IInv, TypeInv
    <2>2. j \in DOMAIN file /\ j < i
        BY <2>1 DEF IInv, TypeInv
    <2> QED
        BY <1>1, <2>2, ItemType DEF IInv
<1>4. file[j].at < pos
    <2>1. file[j].size > 0 /\ file[j].at + file[j].size <= file[i].at
        BY <1>1, <1>3 DEF IInv, Layout
    <2> QED
        BY <1>1, <1>3, <2>1
<1> QED
    BY <1>2, <1>3, <1>4 DEF SeenInv

LEMMA UnknownSeen ==
    ASSUME IInv, SeenInv, UnknownOffset
    PROVE  SeenInv'
PROOF
<1>1. PICK i \in Here : /\ resolved = << >>
                        /\ file[i].kind = "reference"
                        /\ file[i].ref \notin DOMAIN offsets
                        /\ UNCHANGED <<writerVars, pos, offsets, read, skipped, resolved>>
    BY DEF UnknownOffset, Reading
<1>2. skipped
    BY <1>1, KnownReference
<1> QED
    BY <1>1, <1>2 DEF SeenInv, writerVars

LEMMA StepSeen == IInv /\ SeenInv /\ [FileNext]_vars => SeenInv'
PROOF
<1> SUFFICES ASSUME IInv, SeenInv, [FileNext]_vars PROVE SeenInv'
    OBVIOUS
<1>1. IInv' /\ TypeInv
    BY StepInv DEF IInv
<1>2. file' \in Seq(Fields)
    BY <1>1 DEF IInv, TypeInv
<1>3. CASE FileWrites
    <2>1. UNCHANGED readerVars /\ ~written /\ pos = 0
        BY <1>3 DEF FileWrites, WriteString, WritePlain, BeginObject, WriteBlob, Writing, SeenInv
    <2> DEFINE Known(item) == Extend(item) /\ (item.kind = "string" => item.str \in Strings)
    <2>2. PICK item : Known(item)
        <3>1. ASSUME NEW s \in Strings, WriteString(s) PROVE \E item : Known(item)
            <4>2. CASE NewString(s)
                BY <4>2 DEF NewString
            <4>3. CASE Reference(s)
                BY <4>3 DEF Reference
            <4> QED
                BY <3>1, <4>2, <4>3 DEF WriteString
        <3>2. ASSUME NEW n \in Nat \ {0}, WritePlain(n) PROVE \E item : Known(item)
            BY <3>2 DEF WritePlain
        <3>3. ASSUME NEW n \in Nat, WriteBlob(n) PROVE \E item : Known(item)
            BY <3>3 DEF WriteBlob
        <3>4. ASSUME BeginObject PROVE \E item : Known(item)
            BY <3>4 DEF BeginObject
        <3> HIDE DEF Known
        <3> QED
            BY <1>3, <3>1, <3>2, <3>3, <3>4 DEF FileWrites
    <2>3. \A j \in DOMAIN file' : file'[j].kind = "string" => file'[j].str \in Strings
        <3>1. file \in Seq(Fields) /\ file' = Append(file, item)
            BY <1>1, <2>2 DEF TypeInv, Extend
        <3>2. \A j \in DOMAIN file' :
                \/ file'[j] = item
                \/ j \in DOMAIN file /\ file'[j] = file[j]
            BY <3>1
        <3> QED
            BY <2>2, <3>2 DEF SeenInv
    <2> QED
        BY <1>2, <2>1, <2>3, WriterSeen
<1>4. CASE EndObject
    <2>1. UNCHANGED readerVars /\ ~written /\ pos = 0
        BY <1>4 DEF EndObject, SeenInv
    <2>2. \A j \in DOMAIN file' : file'[j].kind = "string" => file'[j].str \in Strings
        <3> DEFINE i == open[Len(open)]
                   newLen == PosLen(file[i].at + TagLen)
        <3>1. file' = [file EXCEPT ![i].len = newLen] /\ file \in Seq(Fields)
            BY <1>1, <1>4 DEF EndObject, TypeInv
        <3>2. ASSUME NEW j \in DOMAIN file'
              PROVE  j \in DOMAIN file /\ file'[j].kind = file[j].kind /\ file'[j].str = file[j].str
            <4>1. j \in DOMAIN file /\ file[j] \in Fields
                BY <1>1, <3>1, <3>2, ItemType
            <4> HIDE DEF i, newLen
            <4> QED
                BY <3>1, <4>1 DEF Fields
        <3> QED
            BY <3>2 DEF SeenInv
    <2> QED
        BY <1>2, <2>1, <2>2, WriterSeen
<1>5. CASE Closes
    BY <1>5 DEF Closes, readerVars, SeenInv
<1>6. CASE ReadString
    <2>1. PICK i \in Here :
            /\ written
            /\ file[i].kind = "string"
            /\ offsets' = IF Keeps(file[i].str)
                          THEN [p \in DOMAIN offsets \union {pos + TagLen} |->
                                  IF p = pos + TagLen THEN file[i].str ELSE offsets[p]]
                          ELSE offsets
            /\ pos' = EndOf(i)
            /\ UNCHANGED <<writerVars, skipped, failed, resolved>>
        BY <1>6 DEF ReadString, Reading
    <2>2. Keeps(file[i].str)
        BY <2>1 DEF SeenInv, Keeps, Here
    <2>3. DOMAIN offsets' = DOMAIN offsets \union {pos + TagLen}
        BY <2>1, <2>2
    <2> QED
        BY <2>1, <2>3, ReaderSeen
<1>7. CASE ReadReference \/ ReadPlain \/ SkipBlob
    <2>1. PICK i \in Here :
            /\ written
            /\ file[i].kind # "string"
            /\ \/ pos' = EndOf(i)
               \/ file[i].kind = "blob" /\ pos' = file[i].at + BlobHeaderLen + DataLen(i)
            /\ UNCHANGED <<writerVars, offsets, skipped, failed, resolved>>
        BY <1>7 DEF ReadReference, ReadPlain, SkipBlob, Reading
    <2>2. file[i].kind = "blob" => file[i].at + BlobHeaderLen + DataLen(i) = EndOf(i)
        BY BlobEnd DEF Here
    <2> QED
        BY <2>1, <2>2, ReaderSeen
<1>8. CASE UnknownOffset
    BY <1>8, UnknownSeen
<1>9. CASE SkipObject
    BY <1>9 DEF SkipObject, Reading, writerVars, SeenInv
<1>10. CASE Resolve
    <2>1. resolved' # << >>
        <3>1. PICK x : resolved' = Append(resolved, x)
            BY <1>10 DEF Resolve
        <3>2. resolved \in Seq(Lookups)
            BY <1>1 DEF TypeInv
        <3> QED
            BY <3>1, <3>2
    <2> QED
        BY <1>10, <2>1 DEF Resolve, writerVars, SeenInv
<1>11. CASE UNCHANGED vars
    BY <1>11 DEF vars, writerVars, readerVars, SeenInv
<1> QED
    BY <1>3, <1>4, <1>5, <1>6, <1>7, <1>8, <1>9, <1>10, <1>11 DEF FileNext, Reader

\* A reader that skips no object knows every string it meets a reference to: an
\* unknown offset is never an error of the file, only of a program that skips
\* (str_table.rs, reader.rs).
THEOREM ErrorsOnlySkipping == Spec => []ErrorsOnlyAfterSkip
PROOF
<1>1. Init => SeenInv
    BY DEF Init, SeenInv
<1>2. IInv /\ SeenInv /\ [Next]_vars => SeenInv'
    BY StepSeen, NextIsFile
<1>3. SeenInv => ErrorsOnlyAfterSkip
    BY DEF SeenInv, ErrorsOnlyAfterSkip
<1> QED
    BY <1>1, <1>2, <1>3, Invariance, PTL DEF Spec

-----------------------------------------------------------------------------
(* A reader that skips nothing returns every string it comes past *)

ReturnedInvariant ==
    /\ ~written => read = << >>
    /\ ReadsEverything

\* Before anything is read.
LEMMA NothingReturned ==
    ASSUME file' \in Seq(Fields), read' = << >>, pos' = 0
    PROVE  ReturnedUpTo(pos)'
PROOF
<1>1. \A i \in DOMAIN file' : ~(file'[i].at < 0)
    <2>1. \A i \in DOMAIN file' : file'[i] \in Fields
        OBVIOUS
    <2>2. \A i \in DOMAIN file' : file'[i].at \in Nat
        BY <2>1 DEF Fields
    <2> QED
        BY <2>2
<1> QED
    BY <1>1 DEF ReturnedUpTo

\* The items up to the end of one are those up to its start and it.
LEMMA ComePast ==
    ASSUME TypeInv, Layout, NEW i \in Here, NEW j \in DOMAIN file
    PROVE  file[j].at < EndOf(i) <=> file[j].at < pos \/ j = i
PROOF
<1>1. i \in DOMAIN file /\ file[i].at = pos
    BY DEF Here
<1>2. /\ i \in Nat /\ j \in Nat
      /\ file[i].at \in Nat /\ file[j].at \in Nat
      /\ file[i].size \in Nat /\ file[j].size \in Nat
    BY <1>1, ItemType
<1>3. file[i].size > 0 /\ file[j].size > 0
    BY <1>1 DEF Layout
<1>4. CASE j < i
    <2>1. file[j].at + file[j].size <= file[i].at
        BY <1>1, <1>4 DEF Layout
    <2> QED
        BY <1>1, <1>2, <1>3, <2>1 DEF EndOf
<1>5. CASE i < j
    <2>1. file[i].at + file[i].size <= file[j].at
        BY <1>1, <1>5 DEF Layout
    <2> QED
        BY <1>1, <1>2, <1>3, <1>5, <2>1 DEF EndOf
<1>6. CASE i = j
    BY <1>1, <1>2, <1>3, <1>6 DEF EndOf
<1> QED
    BY <1>2, <1>4, <1>5, <1>6

\* Past an item that is no string nothing more is to be returned.
LEMMA PastOther ==
    ASSUME TypeInv, Layout, NEW i \in Here, ~IsUse(i), ReturnedUpTo(pos)
    PROVE  ReturnedUpTo(EndOf(i))
PROOF
<1>1. \A j \in DOMAIN file : IsUse(j) => (file[j].at < EndOf(i) <=> file[j].at < pos)
    BY ComePast
<1> QED
    BY <1>1 DEF ReturnedUpTo

\* A string that is returned is the next one.
LEMMA PastString ==
    ASSUME TypeInv, Layout, NEW i \in Here, IsUse(i), ReturnedUpTo(pos),
           Returned(i, file[i].str), file' = file, pos' = EndOf(i)
    PROVE  ReturnedUpTo(pos)'
PROOF
<1> DEFINE entry == [at |-> file[i].at, str |-> file[i].str]
           n == Len(read)
<1>1. i \in DOMAIN file /\ file[i].at = pos
    BY DEF Here
<1>2. entry \in Returns /\ entry.at = pos
    BY <1>1, ItemType DEF Returns
<1>3. read \in Seq(Returns) /\ read' = Append(read, entry)
    BY DEF TypeInv, Returned
<1>e. entry = [at |-> file[i].at, str |-> file[i].str]
    OBVIOUS
<1> HIDE DEF entry
<1>4. /\ n \in Nat /\ DOMAIN read = 1 .. n /\ DOMAIN read' = 1 .. n + 1
      /\ read'[n + 1] = entry /\ \A k \in 1 .. n : read'[k] = read[k]
    BY <1>2, <1>3
<1>5. \A j \in DOMAIN file : file[j].at < pos' <=> file[j].at < pos \/ j = i
    BY ComePast
<1>6. ASSUME NEW k \in DOMAIN read'
      PROVE  \E j \in DOMAIN file : /\ IsUse(j) /\ file[j].at < pos'
                                    /\ read'[k] = [at |-> file[j].at, str |-> file[j].str]
    <2>1. CASE k = n + 1
        BY <1>1, <1>4, <1>5, <1>e, <2>1
    <2>2. CASE k # n + 1
        <3>1. k \in DOMAIN read /\ read'[k] = read[k]
            BY <1>4, <2>2
        <3>2. PICK j \in DOMAIN file : /\ IsUse(j) /\ file[j].at < pos
                                       /\ read[k] = [at |-> file[j].at, str |-> file[j].str]
            BY <3>1 DEF ReturnedUpTo
        <3> QED
            BY <1>5, <3>1, <3>2
    <2> QED
        BY <2>1, <2>2
<1>7. ASSUME NEW k \in DOMAIN read', NEW l \in DOMAIN read', k < l
      PROVE  read'[k].at < read'[l].at
    <2>1. k \in DOMAIN read /\ read'[k] = read[k]
        BY <1>4, <1>7
    <2>2. CASE l = n + 1
        <3>1. PICK j \in DOMAIN file : /\ IsUse(j) /\ file[j].at < pos
                                       /\ read[k] = [at |-> file[j].at, str |-> file[j].str]
            BY <2>1 DEF ReturnedUpTo
        <3> QED
            BY <1>2, <1>4, <2>1, <2>2, <3>1
    <2>3. CASE l # n + 1
        <3>1. l \in DOMAIN read /\ read'[l] = read[l]
            BY <1>4, <2>3
        <3> QED
            BY <1>7, <2>1, <3>1 DEF ReturnedUpTo
    <2> QED
        BY <2>2, <2>3
<1>8. ASSUME NEW j \in DOMAIN file, IsUse(j), file[j].at < pos'
      PROVE  \E k \in DOMAIN read' : read'[k].at = file[j].at
    <2>1. CASE j = i
        <3>1. n + 1 \in DOMAIN read'
            BY <1>4
        <3> QED
            BY <1>1, <1>2, <1>4, <2>1, <3>1
    <2>2. CASE j # i
        <3>1. PICK k \in DOMAIN read : read[k].at = file[j].at
            BY <1>5, <1>8, <2>2 DEF ReturnedUpTo
        <3>2. k \in DOMAIN read' /\ read'[k] = read[k]
            BY <1>4, <3>1
        <3> QED
            BY <3>1, <3>2
    <2> QED
        BY <2>1, <2>2
<1> QED
    BY <1>6, <1>7, <1>8 DEF ReturnedUpTo, IsUse

LEMMA StepReturned ==
    IInv /\ SeenInv /\ ReturnedInvariant /\ [FileNext]_vars => ReturnedInvariant'
PROOF
<1> SUFFICES ASSUME IInv, SeenInv, ReturnedInvariant, [FileNext]_vars PROVE ReturnedInvariant'
    OBVIOUS
<1>1. TypeInv /\ Layout /\ TypeInv' /\ SeenInv'
    BY StepInv, StepSeen DEF IInv
<1>2. CASE FileWrites \/ EndObject \/ Closes \/ UNCHANGED vars
    <2>1. UNCHANGED readerVars
        BY <1>2 DEF FileWrites, WriteString, WritePlain, BeginObject, WriteBlob, EndObject, Closes, vars
    <2>2. CASE ~written
        <3>1. read' = << >> /\ pos' = 0
            BY <2>1, <2>2 DEF ReturnedInvariant, SeenInv, readerVars
        <3>2. ReturnedUpTo(pos)'
            BY <1>1, <3>1, NothingReturned DEF TypeInv
        <3> QED
            BY <3>1, <3>2 DEF ReturnedInvariant, ReadsEverything
    <2>3. CASE written
        <3>1. UNCHANGED vars
            BY <1>2, <2>3 DEF FileWrites, WriteString, WritePlain, BeginObject, WriteBlob,
                              EndObject, Closes, Writing
        <3> QED
            BY <3>1 DEF vars, writerVars, readerVars, ReturnedInvariant, ReadsEverything,
                        ReturnedUpTo, IsUse
    <2> QED
        BY <2>2, <2>3
<1>3. CASE ReadString \/ ReadReference
    <2>1. PICK i \in Here :
            /\ Reading /\ IsUse(i)
            /\ Returned(i, file[i].str)
            /\ pos' = EndOf(i)
            /\ UNCHANGED <<writerVars, skipped, resolved>>
        <3>1. CASE ReadString
            BY <3>1 DEF ReadString, IsUse
        <3>2. CASE ReadReference
            BY <3>2, ReferenceIsString DEF ReadReference, IsUse, Here
        <3> QED
            BY <1>3, <3>1, <3>2
    <2>2. ~skipped => ReturnedUpTo(pos)
        BY <2>1 DEF ReturnedInvariant, ReadsEverything, Reading
    <2>3. file' = file /\ written' /\ skipped' = skipped
        BY <2>1 DEF writerVars, Reading
    <2>4. ~skipped => ReturnedUpTo(pos)'
        BY <1>1, <2>1, <2>2, <2>3, PastString
    <2> QED
        BY <2>3, <2>4 DEF ReturnedInvariant, ReadsEverything
<1>4. CASE ReadPlain \/ SkipBlob
    <2>1. PICK i \in Here :
            /\ Reading /\ ~IsUse(i)
            /\ \/ pos' = EndOf(i)
               \/ file[i].kind = "blob" /\ pos' = file[i].at + BlobHeaderLen + DataLen(i)
            /\ UNCHANGED <<writerVars, read, skipped, resolved>>
        BY <1>4 DEF ReadPlain, SkipBlob, IsUse
    <2>2. pos' = EndOf(i)
        BY <2>1, BlobEnd DEF Here
    <2>3. ~skipped => ReturnedUpTo(EndOf(i))
        BY <1>1, <2>1, PastOther DEF ReturnedInvariant, ReadsEverything, Reading
    <2>4. file' = file /\ written' /\ skipped' = skipped /\ read' = read
        BY <2>1 DEF writerVars, Reading
    <2>5. ~skipped => ReturnedUpTo(pos)'
        BY <2>2, <2>3, <2>4 DEF ReturnedUpTo, IsUse
    <2> QED
        BY <2>4, <2>5 DEF ReturnedInvariant, ReadsEverything
<1>5. CASE UnknownOffset
    BY <1>5 DEF UnknownOffset, writerVars, ReturnedInvariant, ReadsEverything, ReturnedUpTo, IsUse
<1>6. CASE SkipObject
    BY <1>6 DEF SkipObject, Reading, writerVars, ReturnedInvariant, ReadsEverything
<1>7. CASE Resolve
    <2>1. resolved' # << >>
        <3>1. PICK x : resolved' = Append(resolved, x)
            BY <1>7 DEF Resolve
        <3>2. resolved \in Seq(Lookups)
            BY <1>1 DEF TypeInv
        <3> QED
            BY <3>1, <3>2
    <2> QED
        BY <1>7, <2>1 DEF Resolve, writerVars, ReturnedInvariant, ReadsEverything
<1> QED
    BY <1>2, <1>3, <1>4, <1>5, <1>6, <1>7 DEF FileNext, Reader

\* A reader that skips no object has returned every string it has come past, once,
\* in the order of the file and as the tree has it there, so at the end of the file
\* all of them (reader.rs, str_table.rs).
THEOREM EverythingIsRead == Spec => []ReadsEverything
PROOF
<1>1. Init => SeenInv
    BY DEF Init, SeenInv
<1>2. IInv /\ SeenInv /\ [Next]_vars => SeenInv'
    BY StepSeen, NextIsFile
<1>3. Init => ReturnedInvariant
    BY DEF Init, ReturnedInvariant, ReadsEverything
<1>4. IInv /\ SeenInv /\ ReturnedInvariant /\ [Next]_vars => ReturnedInvariant'
    BY StepReturned, NextIsFile
<1>5. ReturnedInvariant => ReadsEverything
    BY DEF ReturnedInvariant
<1> QED
    BY <1>1, <1>2, <1>3, <1>4, <1>5, Invariance, PTL DEF Spec

-----------------------------------------------------------------------------
(* Trees: what a reader makes of the calls a tree is turned into *)

Headers == {o.hdr : o \in {x \in Objects : x.ty = "sound"}}
Values == Int \union BOOLEAN \union {None} \union Headers
Whats == ValueTypes \union
    {"count", "hasProp", "canvasHeader", "soundHeader", "vecs", "x", "y", "link"}
ValuesOf(w) ==
    CASE w \in Unsigned     -> U32
      [] w \in Flags        -> BOOLEAN
      [] w \in OnlyMagic    -> {None}
      [] w = "soundHeader"  -> Headers
      [] OTHER              -> Int
CallSet ==
    [op : {"string"}, str : Strings]
        \union {c \in [op : {"plain"}, what : Whats, val : Values] : c.val \in ValuesOf(c.what)}
        \union [op : {"begin", "end"}]
        \union [op : {"data"}, size : Nat]
        \union [op : {"sound"}, size : Nat \ {0}]
        \union [op : {"fail"}, why : {"owned", "lost"}]

\* The values of a count and of a flag.
LEMMA ValuesAre ==
    /\ ValuesOf("count") = U32 /\ ValuesOf("u32") = U32 /\ ValuesOf("f32") = U32
    /\ ValuesOf("bool") = BOOLEAN /\ ValuesOf("hasProp") = BOOLEAN
    BY DEF ValuesOf, Unsigned, Flags, OnlyMagic
Expected == Whats \union {"object", "key", "value", "text", "data", "soundData", "vecType"}
Stacks == Seq(Expected)

\* The call fits what a reader expects, and what it expects behind it.
Matches(op, h) ==
    CASE op.op = "string" -> \/ h = "object" /\ op.str \in Types
                             \/ h = "vecType" /\ op.str = TypeName.vec
                             \/ h \in {"key", "text"}
      [] op.op = "plain"  -> op.what = h \/ (h = "value" /\ op.what \in ValueTypes)
      [] op.op = "begin"  -> h = "value"
      [] op.op = "data"   -> h = "data"
      [] op.op = "sound"  -> h = "soundData"
      [] OTHER            -> FALSE
Behind(op, h) ==
    CASE op.op = "string" -> IF h = "object" THEN BehindType(op.str) ELSE << >>
      [] op.op = "plain"  -> BehindPlain(op.what, op.val)
      [] op.op = "begin"  -> <<"object">>
      [] OTHER            -> << >>

Failed(op) == op.op = "fail"

\* A call before has failed; or this one does, and more is expected, unless all
\* that is missing is the data of a canvas.
Breaks(s, k, d) ==
    \/ \E j \in 1 .. k - 1 : Failed(s[j])
    \/ /\ Failed(s[k])
       /\ d # << >> \/ (k > 1 /\ s[k].why = "lost" /\ s[k - 1] = CanvasData(0))

\* The data of a sound is as long as the header in front of it says.
Announced(s, k) ==
    s[k].op = "sound" => /\ k > 1 /\ s[k - 1].op = "plain" /\ s[k - 1].what = "soundHeader"
                         /\ s[k - 1].val.size = s[k].size

\* A reader that expects d takes the call and then expects e.
Advances(op, d, e) ==
    /\ ~Failed(op)
    /\ d # << >> /\ Matches(op, Head(d))
    /\ Behind(op, Head(d)) \in Stacks
    /\ e = Behind(op, Head(d)) \o Tail(d)

Moves(s, k, d, e) == Breaks(s, k, d) \/ (Advances(s[k], d, e) /\ Announced(s, k))

\* What the reader expects in front of and behind each call.
Follows(e, s, S) ==
    /\ S \in [0 .. Len(s) -> Stacks]
    /\ S[0] = e /\ S[Len(s)] = << >>
    /\ \A k \in 1 .. Len(s) : Moves(s, k, S[k - 1], S[k])
Reads(e, s) == \E S : Follows(e, s, S)

\* The head and the tail of a sequence that something is put behind.
LEMMA HeadOfJoined ==
    ASSUME NEW X, NEW d \in Seq(X), NEW r \in Seq(X), d # << >>
    PROVE  /\ d \o r \in Seq(X) /\ d \o r # << >>
           /\ Head(d \o r) = Head(d)
           /\ Tail(d) \in Seq(X)
           /\ Tail(d \o r) = Tail(d) \o r
PROOF
<1> DEFINE w == d \o r
           t == Tail(d)
           u == Tail(w)
           v == t \o r
<1>1. w \in Seq(X) /\ w # << >> /\ t \in Seq(X) /\ Len(d) \in Nat \ {0} /\ Len(t) = Len(d) - 1
      /\ \A i \in 1 .. Len(t) : t[i] = d[i + 1]
    OBVIOUS
<1>2. Len(w) = Len(d) + Len(r) /\ (\A i \in 1 .. Len(d) : w[i] = d[i])
      /\ \A i \in 1 .. Len(r) : w[Len(d) + i] = r[i]
    BY Joined
<1>3. Head(w) = w[1] /\ Head(d) = d[1] /\ w[1] = d[1]
    BY <1>1, <1>2
<1>4. u \in Seq(X) /\ Len(u) = Len(w) - 1 /\ \A i \in 1 .. Len(u) : u[i] = w[i + 1]
    BY <1>1
<1>5. v \in Seq(X) /\ Len(v) = Len(t) + Len(r) /\ (\A i \in 1 .. Len(t) : v[i] = t[i])
      /\ \A i \in 1 .. Len(r) : v[Len(t) + i] = r[i]
    BY <1>1, Joined
<1> HIDE DEF w, t, u, v
<1>7. Len(r) \in Nat
    OBVIOUS
<1>6. u = v
    <2>1. Len(u) = Len(v)
        BY <1>1, <1>2, <1>4, <1>5
    <2>2. ASSUME NEW i \in 1 .. Len(u) PROVE u[i] = v[i]
        <3>1. CASE i <= Len(t)
            BY <1>1, <1>2, <1>4, <1>5, <3>1
        <3>2. CASE i > Len(t)
            <4> DEFINE j == i - Len(t)
            <4>1. j \in 1 .. Len(r) /\ Len(d) + j = i + 1 /\ Len(t) + j = i
                BY <1>1, <1>7, <2>1, <1>5, <3>2
            <4> HIDE DEF j
            <4> QED
                BY <1>2, <1>4, <1>5, <4>1
        <3> QED
            BY <3>1, <3>2, <1>1, <1>4
    <2> QED
        BY <1>4, <1>5, <2>1, <2>2, SeqEqual
<1> QED
    BY <1>1, <1>3, <1>6 DEF w, t, u, v

\* More may be expected behind.
LEMMA MovesMore ==
    ASSUME NEW s, NEW k, NEW d \in Stacks, NEW e \in Stacks, NEW r \in Stacks, Moves(s, k, d, e)
    PROVE  Moves(s, k, d \o r, e \o r)
PROOF
<1>1. d # << >> => /\ d \o r # << >> /\ Head(d \o r) = Head(d)
                   /\ Tail(d) \in Stacks /\ Tail(d \o r) = Tail(d) \o r
    BY HeadOfJoined DEF Stacks
<1>2. ASSUME NEW op, Advances(op, d, e)
      PROVE  Advances(op, d \o r, e \o r)
    <2> DEFINE b == Behind(op, Head(d))
    <2>1. (b \o Tail(d)) \o r = b \o (Tail(d) \o r)
        BY <1>1, <1>2, JoinJoined DEF Stacks, Advances
    <2> QED
        BY <1>1, <1>2, <2>1 DEF Advances
<1>3. Breaks(s, k, d) => Breaks(s, k, d \o r)
    BY <1>1, Zenon DEF Breaks
<1> QED
    BY <1>2, <1>3 DEF Moves

\* The same within a longer sequence of calls.
LEMMA MovesWithin ==
    ASSUME NEW s, NEW w, NEW c \in Nat, NEW k \in Nat \ {0}, \A j \in 1 .. k : w[c + j] = s[j],
           NEW d, NEW e, Moves(s, k, d, e)
    PROVE  Moves(w, c + k, d, e)
PROOF
<1>1. w[c + k] = s[k]
    OBVIOUS
<1>2. k > 1 => c + k > 1 /\ w[c + k - 1] = s[k - 1]
    <2> SUFFICES ASSUME k > 1 PROVE c + k > 1 /\ w[c + k - 1] = s[k - 1]
        OBVIOUS
    <2> DEFINE j == k - 1
    <2>1. j \in 1 .. k /\ c + j = c + k - 1 /\ c + k > 1
        OBVIOUS
    <2>2. w[c + j] = s[j]
        BY <2>1
    <2> QED
        BY <2>1, <2>2
<1>3. CASE Breaks(s, k, d)
    <2>1. ASSUME NEW j \in 1 .. k - 1, Failed(s[j])
          PROVE  c + j \in 1 .. c + k - 1 /\ Failed(w[c + j])
        <3>1. j \in 1 .. k /\ c + j \in 1 .. c + k - 1
            OBVIOUS
        <3>2. w[c + j] = s[j]
            BY <3>1
        <3> QED
            BY <2>1, <3>1, <3>2
    <2>2. Breaks(w, c + k, d)
        <3>1. CASE \E j \in 1 .. k - 1 : Failed(s[j])
            <4>1. PICK j \in 1 .. k - 1 : Failed(s[j])
                BY <3>1
            <4>2. c + j \in 1 .. c + k - 1 /\ Failed(w[c + j])
                BY <2>1, <4>1
            <4> QED
                BY <4>2 DEF Breaks
        <3>2. CASE ~ \E j \in 1 .. k - 1 : Failed(s[j])
            <4>1. /\ Failed(s[k])
                  /\ d # << >> \/ (k > 1 /\ s[k].why = "lost" /\ s[k - 1] = CanvasData(0))
                BY <1>3, <3>2, Zenon DEF Breaks
            <4>2. /\ Failed(w[c + k])
                  /\ \/ d # << >>
                     \/ (c + k > 1 /\ w[c + k].why = "lost" /\ w[c + k - 1] = CanvasData(0))
                BY <1>1, <1>2, <4>1, Zenon
            <4> QED
                BY <4>2 DEF Breaks
        <3> QED
            BY <3>1, <3>2
    <2> QED
        BY <2>2, Zenon DEF Moves
<1>4. CASE Advances(s[k], d, e) /\ Announced(s, k)
    <2>1. Announced(w, c + k)
        BY <1>1, <1>2, <1>4 DEF Announced
    <2> QED
        BY <1>1, <1>4, <2>1 DEF Moves
<1> QED
    BY <1>3, <1>4 DEF Moves

\* No call is read by a reader that expects nothing.
LEMMA ReadsNothing == Reads(<< >>, << >>)
PROOF
<1> DEFINE S == [k \in 0 .. 0 |-> << >>]
<1>1. S[0] = << >> /\ << >> \in Stacks
    BY DEF Stacks
<1>2. Follows(<< >>, << >>, S)
    BY <1>1 DEF Follows
<1> QED
    BY <1>2 DEF Reads

\* What is expected one after the other is read so.
LEMMA ReadsJoin ==
    ASSUME NEW d \in Stacks, NEW e \in Stacks, NEW a \in Seq(CallSet), NEW b \in Seq(CallSet),
           Reads(d, a), Reads(e, b)
    PROVE  Reads(d \o e, a \o b)
PROOF
<1> DEFINE w == a \o b
           n == Len(a)
           m == Len(b)
<1>1. PICK S1 : Follows(d, a, S1)
    BY DEF Reads
<1>2. PICK S2 : Follows(e, b, S2)
    BY DEF Reads
<1>3. n \in Nat /\ m \in Nat /\ Len(w) = n + m
      /\ (\A j \in 1 .. n : w[j] = a[j]) /\ (\A j \in 1 .. m : w[n + j] = b[j])
    BY Joined
<1>4. /\ S1 \in [0 .. n -> Stacks] /\ S1[0] = d /\ S1[n] = << >>
      /\ \A k \in 1 .. n : Moves(a, k, S1[k - 1], S1[k])
    BY <1>1 DEF Follows
<1>5. /\ S2 \in [0 .. m -> Stacks] /\ S2[0] = e /\ S2[m] = << >>
      /\ \A k \in 1 .. m : Moves(b, k, S2[k - 1], S2[k])
    BY <1>2 DEF Follows
<1> DEFINE S == [k \in 0 .. Len(w) |-> IF k <= n THEN S1[k] \o e ELSE S2[k - n]]
<1> HIDE DEF w, n, m
<1>6. \A k \in 0 .. n : S1[k] \in Stacks /\ S1[k] \o e \in Stacks /\ S[k] = S1[k] \o e
    <2>1. ASSUME NEW k \in 0 .. n PROVE S1[k] \in Stacks /\ S1[k] \o e \in Stacks
        BY <1>4, Joined DEF Stacks
    <2>2. \A k \in 0 .. n : k \in 0 .. Len(w) /\ k <= n
        BY <1>3
    <2> QED
        BY <2>1, <2>2
<1>7. S[n] = e
    <2>1. << >> \o e = e
        BY DEF Stacks
    <2>2. n \in 0 .. n
        BY <1>3
    <2> HIDE DEF S
    <2> QED
        BY <1>4, <1>6, <2>1, <2>2
<1>8. \A k \in 0 .. m : S2[k] \in Stacks /\ S[n + k] = S2[k]
    <2> SUFFICES ASSUME NEW k \in 0 .. m PROVE S2[k] \in Stacks /\ S[n + k] = S2[k]
        OBVIOUS
    <2>1. CASE k = 0
        BY <1>3, <1>5, <1>7, <2>1
    <2>2. CASE k # 0
        <3> DEFINE j == n + k
        <3>1. j \in 0 .. Len(w) /\ ~(j <= n) /\ j - n = k
            BY <1>3, <2>2
        <3> HIDE DEF j
        <3>2. S[j] = S2[k]
            BY <3>1
        <3> QED
            BY <1>5, <3>2 DEF j
    <2> QED
        BY <2>1, <2>2
<1>9. ASSUME NEW k \in 0 .. Len(w) PROVE S[k] \in Stacks
    <2>1. CASE k <= n
        <3>1. k \in 0 .. n
            BY <1>3, <2>1
        <3> HIDE DEF S
        <3> QED
            BY <1>6, <3>1
    <2>2. CASE k > n
        <3> DEFINE j == k - n
        <3>1. j \in 0 .. m /\ n + j = k
            BY <1>3, <2>2
        <3> HIDE DEF j, S
        <3> QED
            BY <1>8, <3>1
    <2> QED
        BY <1>3, <2>1, <2>2
<1>10. ASSUME NEW k \in 1 .. Len(w) PROVE Moves(w, k, S[k - 1], S[k])
    <2>1. CASE k <= n
        <3>1. k \in 1 .. n /\ k - 1 \in 0 .. n /\ k \in 0 .. n
            BY <1>3, <2>1
        <3>2. Moves(a, k, S1[k - 1] \o e, S1[k] \o e)
            BY <1>4, <1>6, <3>1, MovesMore
        <3> DEFINE c == 0
        <3>3. c \in Nat /\ c + k = k /\ k \in Nat \ {0} /\ \A j \in 1 .. k : w[c + j] = a[j]
            BY <1>3, <3>1
        <3> HIDE DEF S, c
        <3>4. Moves(w, c + k, S1[k - 1] \o e, S1[k] \o e)
            BY <3>2, <3>3, MovesWithin
        <3> QED
            BY <1>6, <3>1, <3>3, <3>4
    <2>2. CASE k > n
        <3> DEFINE j == k - n
                   i == j - 1
        <3>1. j \in 1 .. m /\ n + j = k /\ i \in 0 .. m /\ j \in 0 .. m /\ n + i = k - 1 /\ j \in Nat \ {0}
            BY <1>3, <2>2
        <3>2. Moves(b, j, S2[i], S2[j])
            BY <1>5, <3>1
        <3> HIDE DEF j, S, i
        <3>3. \A l \in 1 .. j : w[n + l] = b[l]
            BY <1>3, <3>1
        <3>4. Moves(w, n + j, S2[i], S2[j])
            BY <1>3, <3>1, <3>2, <3>3, MovesWithin
        <3> QED
            BY <1>8, <3>1, <3>4
    <2> QED
        BY <1>3, <2>1, <2>2
<1>11. S[0] = d \o e /\ S[Len(w)] = << >> /\ S \in [0 .. Len(w) -> Stacks]
    <2>1. 0 \in 0 .. n /\ m \in 0 .. m
        BY <1>3
    <2>2. S \in [0 .. Len(w) -> Stacks]
        BY <1>9
    <2> HIDE DEF S
    <2> QED
        BY <1>3, <1>4, <1>5, <1>6, <1>8, <2>1, <2>2
<1> HIDE DEF S
<1>12. Follows(d \o e, w, S)
    BY <1>10, <1>11 DEF Follows
<1> QED
    BY <1>12 DEF Reads, w

\* A call that is expected, and what is expected behind it.
LEMMA ReadsCall ==
    ASSUME NEW op \in CallSet, NEW h \in Expected, NEW s \in Seq(CallSet),
           ~Failed(op), op.op # "sound", Matches(op, h), Behind(op, h) \in Stacks,
           Reads(Behind(op, h), s)
    PROVE  Reads(<<h>>, <<op>> \o s)
PROOF
<1> DEFINE a == <<op>>
           w == a \o s
           n == Len(s)
<1>1. PICK S1 : Follows(Behind(op, h), s, S1)
    BY DEF Reads
<1>2. a \in Seq(CallSet) /\ Len(a) = 1 /\ a[1] = op
    OBVIOUS
<1>3. n \in Nat /\ Len(w) = 1 + n /\ w[1] = op /\ (\A j \in 1 .. n : w[1 + j] = s[j])
    <2> HIDE DEF a
    <2> QED
        BY <1>2, Joined
<1>4. /\ S1 \in [0 .. n -> Stacks] /\ S1[0] = Behind(op, h) /\ S1[n] = << >>
      /\ \A k \in 1 .. n : Moves(s, k, S1[k - 1], S1[k])
    BY <1>1 DEF Follows
<1> HIDE DEF a, w, n
<1> DEFINE S == [k \in 0 .. Len(w) |-> IF k = 0 THEN <<h>> ELSE S1[k - 1]]
<1>5. S[0] = <<h>> /\ <<h>> \in Stacks
    BY <1>3 DEF Stacks
<1>6. ASSUME NEW k \in 0 .. n PROVE S[1 + k] = S1[k] /\ S1[k] \in Stacks
    <2> DEFINE j == 1 + k
    <2>1. j \in 0 .. Len(w) /\ j # 0 /\ j - 1 = k
        BY <1>3
    <2> HIDE DEF j
    <2>2. S[j] = S1[k]
        BY <2>1
    <2> QED
        BY <1>4, <2>2 DEF j
<1>7. ASSUME NEW k \in 0 .. Len(w) PROVE S[k] \in Stacks
    <2>1. CASE k = 0
        BY <1>5, <2>1
    <2>2. CASE k # 0
        <3> DEFINE j == k - 1
        <3>1. j \in 0 .. n /\ 1 + j = k
            BY <1>3, <2>2
        <3> HIDE DEF j, S
        <3> QED
            BY <1>6, <3>1
    <2> QED
        BY <2>1, <2>2
<1>8. ASSUME NEW k \in 1 .. Len(w) PROVE Moves(w, k, S[k - 1], S[k])
    <2>1. CASE k = 1
        <3>1. /\ S[1] = Behind(op, h) /\ <<h>> # << >> /\ Head(<<h>>) = h /\ Tail(<<h>>) = << >>
              /\ Behind(op, h) \o << >> = Behind(op, h)
            <4>1. 0 \in 0 .. n /\ 1 + 0 = 1
                BY <1>3
            <4>2. S[1] = Behind(op, h)
                <5> HIDE DEF S
                <5> QED
                    BY <1>4, <1>6, <4>1
            <4> QED
                BY <4>2 DEF Stacks
        <3>2. Advances(op, <<h>>, S[1])
            BY <3>1 DEF Advances
        <3>3. Announced(w, 1)
            BY <1>3 DEF Announced
        <3>4. 1 - 1 = 0
            OBVIOUS
        <3> HIDE DEF S
        <3> QED
            BY <1>3, <1>5, <2>1, <3>2, <3>3, <3>4 DEF Moves
    <2>2. CASE k # 1
        <3> DEFINE j == k - 1
                   i == j - 1
        <3>1. j \in 1 .. n /\ 1 + j = k /\ i \in 0 .. n /\ j \in 0 .. n /\ 1 + i = k - 1 /\ j \in Nat \ {0}
            BY <1>3, <2>2
        <3>2. Moves(s, j, S1[i], S1[j])
            BY <1>4, <3>1
        <3> HIDE DEF j, S, i
        <3>3. \A l \in 1 .. j : w[1 + l] = s[l]
            BY <1>3, <3>1
        <3>4. Moves(w, 1 + j, S1[i], S1[j])
            BY <1>3, <3>1, <3>2, <3>3, MovesWithin
        <3> QED
            BY <1>6, <3>1, <3>4
    <2> QED
        BY <2>1, <2>2
<1>9. S[Len(w)] = << >> /\ S \in [0 .. Len(w) -> Stacks]
    <2>1. n \in 0 .. n
        BY <1>3
    <2>2. S \in [0 .. Len(w) -> Stacks]
        BY <1>7
    <2> HIDE DEF S
    <2> QED
        BY <1>3, <1>4, <1>6, <2>1, <2>2
<1> HIDE DEF S
<1>10. Follows(<<h>>, w, S)
    BY <1>5, <1>8, <1>9 DEF Follows
<1> QED
    BY <1>10 DEF Reads, w, a

\* A call that fails where something is expected.
LEMMA ReadsFailure ==
    ASSUME NEW op \in CallSet, Failed(op), NEW e \in Stacks, e # << >>
    PROVE  Reads(e, <<op>>)
PROOF
<1> DEFINE w == <<op>>
           S == [k \in 0 .. 1 |-> IF k = 0 THEN e ELSE << >>]
<1>1. w[1] = op /\ Len(w) = 1 /\ S[0] = e /\ S[1] = << >> /\ S \in [0 .. 1 -> Stacks]
    BY DEF Stacks
<1>2. Moves(w, 1, e, << >>)
    BY <1>1 DEF Moves, Breaks
<1>3. \A k \in 1 .. Len(w) : k = 1 /\ k - 1 = 0
    BY <1>1
<1> HIDE DEF w, S
<1>4. \A k \in 1 .. Len(w) : Moves(w, k, S[k - 1], S[k])
    BY <1>1, <1>2, <1>3
<1>5. Follows(e, w, S)
    BY <1>1, <1>4 DEF Follows
<1> QED
    BY <1>5 DEF Reads, w

-----------------------------------------------------------------------------
(* Sequences of calls *)

\* The model and the induction lemmas flatten alike.
LEMMA SameFlatten == \A seqs : Seqs!FlattenSeq(seqs) = Ext!FlattenSeq(seqs)
    BY DEF Seqs!FlattenSeq, Ext!FlattenSeq

\* One part more.
LEMMA FlattenStep ==
    ASSUME NEW X, NEW n \in Nat, NEW f, \A i \in 1 .. n + 1 : f[i] \in Seq(X)
    PROVE  /\ Seqs!FlattenSeq([i \in 1 .. 0 |-> f[i]]) = << >>
           /\ Seqs!FlattenSeq([i \in 1 .. n |-> f[i]]) \in Seq(X)
           /\ Seqs!FlattenSeq([i \in 1 .. n + 1 |-> f[i]])
                = Seqs!FlattenSeq([i \in 1 .. n |-> f[i]]) \o f[n + 1]
PROOF
<1> DEFINE Y == Seq(X)
           a == [i \in 1 .. n |-> f[i]]
           x == f[n + 1]
           m == n + 1
           b == [i \in 1 .. m |-> f[i]]
<1>1. [i \in 1 .. 0 |-> f[i]] = << >>
    OBVIOUS
<1>2. x \in Y /\ a \in [1 .. n -> Y]
    OBVIOUS
<1>3. a \in Seq(Y) /\ Len(a) = n /\ \A i \in 1 .. n : a[i] = f[i]
    <2>1. \A i \in 1 .. n : a[i] = f[i]
        OBVIOUS
    <2> HIDE DEF a, Y
    <2> QED
        BY <1>2, <2>1, SeqIs
<1>4. Append(a, x) = b
    <2>1. \A k \in 1 .. m : f[k] = IF k = m THEN x ELSE a[k]
        OBVIOUS
    <2> HIDE DEF a, x, Y
    <2>2. Append(a, x) = [k \in 1 .. n + 1 |-> IF k = n + 1 THEN x ELSE a[k]]
        BY <1>2, <1>3, AppendIs
    <2> QED
        BY <2>1, <2>2
<1> HIDE DEF a, x, b
<1>5. /\ Ext!FlattenSeq(<< >>) = << >>
      /\ Ext!FlattenSeq(a) \in Seq(X)
      /\ Ext!FlattenSeq(Append(a, x)) = Ext!FlattenSeq(a) \o x
    BY <1>2, <1>3, FlattenedAppend
<1> QED
    BY <1>1, <1>4, <1>5, SameFlatten DEF a, x, b

\* What is expected n times, by n.
LEMMA TimesAre ==
    ASSUME NEW s \in Stacks, NEW n \in Nat
    PROVE  Times(0, s) = << >> /\ Times(n, s) \in Stacks /\ Times(n + 1, s) = Times(n, s) \o s
PROOF
<1> DEFINE f == [i \in 1 .. n + 1 |-> s]
<1>1. \A i \in 1 .. n + 1 : f[i] \in Seq(Expected) /\ f[i] = s
    BY DEF Stacks
<1>2. n + 1 \in 1 .. n + 1 /\ 1 .. n \subseteq 1 .. n + 1 /\ \A i \in 1 .. 0 : i \in 1 .. n + 1
    OBVIOUS
<1> HIDE DEF f
<1>3. /\ [i \in 1 .. 0 |-> f[i]] = [i \in 1 .. 0 |-> s]
      /\ [i \in 1 .. n |-> f[i]] = [i \in 1 .. n |-> s]
      /\ [i \in 1 .. n + 1 |-> f[i]] = [i \in 1 .. n + 1 |-> s]
    BY <1>1, <1>2
<1>4. /\ Seqs!FlattenSeq([i \in 1 .. 0 |-> f[i]]) = << >>
      /\ Seqs!FlattenSeq([i \in 1 .. n |-> f[i]]) \in Seq(Expected)
      /\ Seqs!FlattenSeq([i \in 1 .. n + 1 |-> f[i]])
            = Seqs!FlattenSeq([i \in 1 .. n |-> f[i]]) \o f[n + 1]
    BY <1>1, FlattenStep
<1> QED
    BY <1>1, <1>2, <1>3, <1>4 DEF Times, Stacks

\* The calls that leave an item in the file, or fail.
Kept == [op \in CallSet |-> IF op.op = "end" THEN << >> ELSE <<op>>]
Items(s) == Spread(Kept, s)

\* The items of one call and of calls that are joined.
LEMMA ItemsAre ==
    ASSUME NEW a \in Seq(CallSet)
    PROVE  /\ Items(<< >>) = << >>
           /\ Items(a) \in Seq(CallSet)
           /\ \A b \in Seq(CallSet) : Items(a \o b) = Items(a) \o Items(b)
           /\ \A op \in CallSet :
                /\ Items(<<op>>) = IF op.op = "end" THEN << >> ELSE <<op>>
                /\ Items(Append(a, op)) = IF op.op = "end" THEN Items(a) ELSE Append(Items(a), op)
                /\ Items(<<op>> \o a) = IF op.op = "end" THEN Items(a) ELSE <<op>> \o Items(a)
PROOF
<1>1. Spreads(Kept, CallSet, CallSet)
    <2>1. \A op \in CallSet : <<op>> \in Seq(CallSet) /\ << >> \in Seq(CallSet)
        OBVIOUS
    <2>2. Kept \in [CallSet -> Seq(CallSet)]
        BY <2>1 DEF Kept
    <2> QED
        BY <2>2 DEF Spreads
<1>2. ASSUME NEW s \in Seq(CallSet), NEW b \in Seq(CallSet)
      PROVE  Items(s \o b) = Items(s) \o Items(b)
    BY <1>1, SpreadJoined DEF Items
<1>3. CallSet # {}
    <2>1. [op |-> "begin"] \in CallSet
        BY DEF CallSet
    <2> QED
        BY <2>1
<1>4. \A t \in Seq(CallSet) : \A op \in CallSet :
        Items(<< >>) = << >> /\ Items(t) \in Seq(CallSet) /\ Items(Append(t, op)) = Items(t) \o Kept[op]
    BY <1>1, SpreadAppend DEF Items
<1>5. Items(<< >>) = << >> /\ Items(a) \in Seq(CallSet)
    BY <1>3, <1>4
<1>6. ASSUME NEW op \in CallSet
      PROVE  /\ Items(<<op>>) = IF op.op = "end" THEN << >> ELSE <<op>>
             /\ Items(Append(a, op)) = IF op.op = "end" THEN Items(a) ELSE Append(Items(a), op)
             /\ Items(<<op>> \o a) = IF op.op = "end" THEN Items(a) ELSE <<op>> \o Items(a)
    <2>1. Kept[op] = (IF op.op = "end" THEN << >> ELSE <<op>>) /\ <<op>> \in Seq(CallSet)
        BY DEF Kept
    <2>2. << >> \in Seq(CallSet) /\ Append(<< >>, op) = <<op>>
        BY ShortSeqs
    <2>3. Items(<<op>>) = << >> \o Kept[op]
        BY <1>4, <2>2
    <2>4. Items(<<op>>) = Kept[op]
        BY <2>1, <2>3
    <2>5. Items(<<op>> \o a) = Items(<<op>>) \o Items(a)
        BY <1>2, <2>1
    <2>6. Items(Append(a, op)) = Items(a) \o Kept[op]
        BY <1>4
    <2>7. << >> \o Items(a) = Items(a) /\ Items(a) \o << >> = Items(a) /\ Items(a) \o <<op>> = Append(Items(a), op)
        BY <1>5
    <2> QED
        BY <2>1, <2>4, <2>5, <2>6, <2>7
<1> QED
    BY <1>2, <1>5, <1>6

\* Parts that are each read by the same, one after the other.
LEMMA ReadsTimes ==
    ASSUME NEW e \in Stacks, NEW N \in Nat, NEW part,
           \A i \in 1 .. N : part[i] \in Seq(CallSet) /\ Reads(e, Items(part[i]))
    PROVE  /\ Seqs!FlattenSeq([i \in 1 .. N |-> part[i]]) \in Seq(CallSet)
           /\ Reads(Times(N, e), Items(Seqs!FlattenSeq([i \in 1 .. N |-> part[i]])))
PROOF
<1> DEFINE upto(n) == Seqs!FlattenSeq([i \in 1 .. n |-> part[i]])
           T == {n \in 0 .. N : upto(n) \in Seq(CallSet) /\ Reads(Times(n, e), Items(upto(n)))}
<1>1. 0 \in T
    <2>1. upto(0) = << >>
        <3>1. [i \in 1 .. 0 |-> part[i]] = << >>
            OBVIOUS
        <3>2. Len(<< >>) = 0
            OBVIOUS
        <3> QED
            BY <3>1, <3>2 DEF Seqs!FlattenSeq
    <2>2. << >> \in Seq(CallSet) /\ 0 \in Nat /\ 0 \in 0 .. N
        OBVIOUS
    <2>3. Items(<< >>) = << >> /\ Times(0, e) = << >>
        BY <2>2, ItemsAre, TimesAre
    <2> HIDE DEF upto
    <2> QED
        BY <2>1, <2>2, <2>3, ReadsNothing
<1>2. ASSUME NEW n \in 0 .. N - 1, n \in T PROVE n + 1 \in T
    <2>1. n \in Nat /\ n + 1 \in 0 .. N /\ n + 1 \in 1 .. N /\ 1 .. n + 1 \subseteq 1 .. N
        OBVIOUS
    <2>2. upto(n) \in Seq(CallSet) /\ Reads(Times(n, e), Items(upto(n)))
        BY <1>2
    <2>3. \A i \in 1 .. n + 1 : part[i] \in Seq(CallSet)
        BY <2>1
    <2>4. upto(n + 1) = upto(n) \o part[n + 1]
        BY <2>1, <2>3, FlattenStep
    <2>5. part[n + 1] \in Seq(CallSet) /\ Reads(e, Items(part[n + 1]))
        BY <2>1
    <2> HIDE DEF upto
    <2> DEFINE x == part[n + 1]
               a == upto(n)
    <2>6. x \in Seq(CallSet) /\ a \in Seq(CallSet) /\ Reads(e, Items(x)) /\ Reads(Times(n, e), Items(a))
        BY <2>2, <2>5
    <2> HIDE DEF x, a
    <2>7. Items(a) \in Seq(CallSet) /\ Items(x) \in Seq(CallSet) /\ Items(a \o x) = Items(a) \o Items(x)
        BY <2>6, ItemsAre
    <2>8. Times(n, e) \in Stacks /\ Times(n + 1, e) = Times(n, e) \o e
        BY <2>1, TimesAre
    <2>9. Reads(Times(n, e) \o e, Items(a) \o Items(x))
        BY <2>6, <2>7, <2>8, ReadsJoin
    <2>10. a \o x \in Seq(CallSet)
        BY <2>6
    <2> QED
        BY <2>1, <2>4, <2>7, <2>8, <2>9, <2>10 DEF a, x
<1> HIDE DEF T
<1>3. N \in T
    <2>1. \A n \in 0 .. N : n \in T
        BY <1>1, <1>2, UpToInSet
    <2> QED
        BY <2>1
<1> QED
    BY <1>3 DEF T

-----------------------------------------------------------------------------
(* The calls of a tree are what its reader expects *)

Fit(e, s) == s \in Seq(CallSet) /\ Reads(e, Items(s))

\* What fits one after the other fits together.
LEMMA FitJoin ==
    ASSUME NEW d \in Stacks, NEW e \in Stacks, NEW a, NEW b, Fit(d, a), Fit(e, b)
    PROVE  Fit(d \o e, a \o b)
PROOF
<1>1. a \in Seq(CallSet) /\ b \in Seq(CallSet) /\ a \o b \in Seq(CallSet)
    BY Joined DEF Fit
<1>2. Items(a) \in Seq(CallSet) /\ Items(b) \in Seq(CallSet) /\ Items(a \o b) = Items(a) \o Items(b)
    BY <1>1, ItemsAre
<1>3. Reads(d \o e, Items(a) \o Items(b))
    BY <1>2, ReadsJoin DEF Fit
<1> QED
    BY <1>1, <1>2, <1>3 DEF Fit

\* A call in front of what fits behind it.
LEMMA FitCall ==
    ASSUME NEW op \in CallSet, op.op \notin {"end", "fail", "sound"}, NEW h \in Expected,
           Matches(op, h), Behind(op, h) \in Stacks, NEW s, Fit(Behind(op, h), s)
    PROVE  Fit(<<h>>, <<op>> \o s)
PROOF
<1>1. s \in Seq(CallSet)
    BY DEF Fit
<1>2. Items(s) \in Seq(CallSet) /\ Items(<<op>> \o s) = <<op>> \o Items(s)
    BY <1>1, ItemsAre
<1>3. Reads(<<h>>, <<op>> \o Items(s))
    BY <1>2, ReadsCall DEF Fit, Failed
<1>4. <<op>> \o s \in Seq(CallSet)
    BY <1>1
<1> QED
    BY <1>2, <1>3, <1>4 DEF Fit

\* Nothing fits where nothing is expected; an end is no item.
LEMMA FitNothing == Fit(<< >>, << >>) /\ Fit(<< >>, <<End>>)
PROOF
<1>1. << >> \in Seq(CallSet) /\ End \in CallSet /\ <<End>> \in Seq(CallSet) /\ End.op = "end"
    BY DEF End, CallSet
<1>2. Items(<< >>) = << >> /\ Items(<<End>>) = << >>
    BY <1>1, ItemsAre
<1> QED
    BY <1>1, <1>2, ReadsNothing DEF Fit

\* A call behind which nothing is expected.
LEMMA FitOne ==
    ASSUME NEW op \in CallSet, op.op \notin {"end", "fail", "sound"}, NEW h \in Expected,
           Matches(op, h), Behind(op, h) = << >>
    PROVE  Fit(<<h>>, <<op>>)
PROOF
<1>1. << >> \in Stacks /\ <<op>> \o << >> = <<op>>
    BY DEF Stacks
<1> QED
    BY <1>1, FitNothing, FitCall

\* A failure, and whatever comes behind it, is never read.
LEMMA FitFailure ==
    ASSUME NEW e \in Stacks, e # << >>, NEW why \in {"owned", "lost"}
    PROVE  Fit(e, <<Fail(why)>>)
PROOF
<1>1. Fail(why) \in CallSet /\ Failed(Fail(why)) /\ Fail(why).op # "end"
    BY DEF Fail, CallSet, Failed
<1>2. <<Fail(why)>> \in Seq(CallSet) /\ << >> \in Seq(CallSet)
    BY <1>1
<1>3. Items(<<Fail(why)>>) = <<Fail(why)>>
    BY <1>1, <1>2, ItemsAre
<1> QED
    BY <1>1, <1>2, <1>3, ReadsFailure DEF Fit

\* The same thing n times.
LEMMA FitTimes ==
    ASSUME NEW e \in Stacks, NEW N \in Nat, NEW part, \A i \in 1 .. N : Fit(e, part[i])
    PROVE  Fit(Times(N, e), Seqs!FlattenSeq([i \in 1 .. N |-> part[i]]))
    BY ReadsTimes DEF Fit

\* The calls, and what is expected.
LEMMA PairIs ==
    ASSUME NEW X, NEW a \in X, NEW b \in X
    PROVE  <<a, b>> = <<a>> \o <<b>> /\ <<a>> \in Seq(X) /\ <<a, b>> \in Seq(X)
PROOF
<1> DEFINE s == <<a>>
           t == <<b>>
           p == <<a, b>>
<1>1. /\ s \in Seq(X) /\ Len(s) = 1 /\ s[1] = a
      /\ t \in Seq(X) /\ Len(t) = 1 /\ t[1] = b
      /\ p \in Seq(X) /\ Len(p) = 2 /\ p[1] = a /\ p[2] = b
    BY ShortSeqs
<1> HIDE DEF s, t, p
<1>2. s \o t \in Seq(X) /\ Len(s \o t) = 2 /\ (s \o t)[1] = a /\ (s \o t)[2] = b
    BY <1>1, Joined
<1>3. p = s \o t
    BY <1>1, <1>2, SeqEqual
<1> QED
    BY <1>1, <1>3 DEF s, t, p

\* The calls of a tree are calls.
LEMMA CallIs ==
    /\ \A t \in Strings : String(t) \in CallSet /\ String(t).op = "string" /\ String(t).str = t
    /\ \A w \in Whats : \A v \in ValuesOf(w) :
        Plain(w, v) \in CallSet /\ Plain(w, v).op = "plain" /\ Plain(w, v).what = w /\ Plain(w, v).val = v
    /\ \A n \in Nat :
        /\ CanvasData(n) \in CallSet /\ CanvasData(n).op = "data" /\ CanvasData(n).size = n
        /\ n # 0 => SoundData(n) \in CallSet /\ SoundData(n).op = "sound" /\ SoundData(n).size = n
    /\ Begin \in CallSet /\ Begin.op = "begin"
PROOF
<1>1. ASSUME NEW w \in Whats, NEW v \in ValuesOf(w)
      PROVE  /\ Plain(w, v) \in CallSet /\ Plain(w, v).op = "plain"
             /\ Plain(w, v).what = w /\ Plain(w, v).val = v
    <2>1. v \in Values
        BY TreeAssumption DEF ValuesOf, Values, U32
    <2>2. Plain(w, v) \in [op : {"plain"}, what : Whats, val : Values]
        BY <2>1 DEF Plain
    <2>3. Plain(w, v).what = w /\ Plain(w, v).val = v /\ Plain(w, v).op = "plain"
        BY DEF Plain
    <2> QED
        BY <2>2, <2>3 DEF CallSet
<1>2. \A t \in Strings : String(t) \in CallSet /\ String(t).op = "string" /\ String(t).str = t
    BY DEF String, CallSet
<1>3. ASSUME NEW n \in Nat
      PROVE  /\ CanvasData(n) \in CallSet /\ CanvasData(n).op = "data" /\ CanvasData(n).size = n
             /\ n # 0 => SoundData(n) \in CallSet /\ SoundData(n).op = "sound" /\ SoundData(n).size = n
    BY DEF CanvasData, SoundData, CallSet
<1>4. Begin \in CallSet /\ Begin.op = "begin"
    BY DEF Begin, CallSet
<1> QED
    BY <1>1, <1>2, <1>3, <1>4

\* A key, a text, the type of a vector.
LEMMA FitString ==
    ASSUME NEW t \in Strings, NEW h \in Expected,
           h \in {"key", "text"} \/ (h = "vecType" /\ t = TypeName.vec)
    PROVE  Fit(<<h>>, <<String(t)>>)
PROOF
<1>1. String(t) \in CallSet /\ String(t).op = "string" /\ String(t).str = t
    BY CallIs
<1>2. Matches(String(t), h) /\ Behind(String(t), h) = << >>
    BY <1>1 DEF Matches, Behind
<1> QED
    BY <1>1, <1>2, FitOne

\* A plain value and what is expected behind it.
LEMMA FitPlain ==
    ASSUME NEW w \in Whats, NEW v \in ValuesOf(w), NEW h \in Expected,
           w = h \/ (h = "value" /\ w \in ValueTypes),
           BehindPlain(w, v) \in Stacks, NEW s, Fit(BehindPlain(w, v), s)
    PROVE  Fit(<<h>>, <<Plain(w, v)>> \o s)
PROOF
<1>1. /\ Plain(w, v) \in CallSet /\ Plain(w, v).op = "plain"
      /\ Plain(w, v).what = w /\ Plain(w, v).val = v
    BY CallIs
<1>2. Matches(Plain(w, v), h) /\ Behind(Plain(w, v), h) = BehindPlain(w, v)
    BY <1>1 DEF Matches, Behind
<1> QED
    BY <1>1, <1>2, FitCall

\* A plain value with nothing behind it.
LEMMA FitLeaf ==
    ASSUME NEW w \in Whats, NEW v \in ValuesOf(w), NEW h \in Expected,
           w = h \/ (h = "value" /\ w \in ValueTypes), BehindPlain(w, v) = << >>
    PROVE  Fit(<<h>>, <<Plain(w, v)>>)
PROOF
<1>1. Plain(w, v) \in CallSet /\ << >> \in Stacks
    BY CallIs DEF Stacks
<1>2. <<Plain(w, v)>> \o << >> = <<Plain(w, v)>>
    BY <1>1
<1> QED
    BY <1>1, <1>2, FitPlain, FitNothing

\* The objects within fit.
FitInner(n, inner) == \A o \in Below(n - 1) : Fit(<<"object">>, inner[o])

\* Value::write and Value::from_reader.
LEMMA FitValue ==
    ASSUME NEW n, NEW inner, FitInner(n, inner), NEW v, IsValue(v, n)
    PROVE  Fit(<<"value">>, ValueOps(v, inner))
PROOF
<1>0. "value" \in Expected /\ "text" \in Expected
    BY DEF Expected
<1>1. CASE v.ty = "object"
    <2>1. v.v \in Below(n - 1)
        BY <1>1 DEF IsValue
    <2>2. Fit(<<"object">>, inner[v.v])
        BY <2>1 DEF FitInner
    <2>3. /\ Begin \in CallSet /\ Begin.op = "begin" /\ Matches(Begin, "value")
          /\ Behind(Begin, "value") = <<"object">> /\ <<"object">> \in Stacks
        BY CallIs DEF Matches, Behind, Stacks, Expected
    <2>4. Fit(<<"value">>, <<Begin>> \o inner[v.v])
        BY <1>0, <2>2, <2>3, FitCall
    <2>5. << >> \in Stacks /\ <<"value">> \in Stacks /\ <<"value">> \o << >> = <<"value">>
        BY <1>0 DEF Stacks
    <2>6. Fit(<<"value">>, (<<Begin>> \o inner[v.v]) \o <<End>>)
        BY <2>4, <2>5, FitNothing, FitJoin
    <2> QED
        BY <1>1, <2>6 DEF ValueOps
<1>2. CASE v.ty = "string"
    <2>1. v.v \in Strings
        BY <1>2 DEF IsValue
    <2>2. Fit(<<"text">>, <<String(v.v)>>)
        BY <1>0, <2>1, FitString
    <2>3. "string" \in Whats /\ None \in ValuesOf("string") /\ "string" \in ValueTypes
        BY DEF Whats, ValuesOf, ValueTypes, Unsigned, Flags, OnlyMagic
    <2>4. BehindPlain("string", None) = <<"text">> /\ <<"text">> \in Stacks
        BY <1>0 DEF BehindPlain, Stacks
    <2>5. Fit(<<"value">>, <<Plain("string", None)>> \o <<String(v.v)>>)
        BY <1>0, <2>2, <2>3, <2>4, FitPlain
    <2>6. Plain("string", None) \in CallSet /\ String(v.v) \in CallSet
        BY <2>1, <2>3, CallIs
    <2>7. <<Plain("string", None), String(v.v)>> = <<Plain("string", None)>> \o <<String(v.v)>>
        BY <2>6, PairIs
    <2> QED
        BY <1>2, <2>5, <2>7 DEF ValueOps
<1>3. CASE v.ty \notin {"object", "string"}
    <2>1. v.ty \in {"null", "bool", "i16", "u16", "i32", "i64", "f64", "u32", "f32"}
        BY <1>3 DEF IsValue
    <2>2. v.v \in ValuesOf(v.ty)
        BY <1>3 DEF IsValue, ValuesOf, Unsigned, Flags, OnlyMagic
    <2>3. v.ty \in Whats /\ v.ty \in ValueTypes
        BY <2>1 DEF Whats, ValueTypes
    <2>4. BehindPlain(v.ty, v.v) = << >>
        BY <2>1 DEF BehindPlain
    <2>5. Fit(<<"value">>, <<Plain(v.ty, v.v)>>)
        BY <1>0, <2>2, <2>3, <2>4, FitLeaf
    <2> QED
        BY <1>3, <2>5 DEF ValueOps
<1> QED
    BY <1>1, <1>2, <1>3

\* Property::write and Property::from_reader.
LEMMA FitProperty ==
    ASSUME NEW n, NEW inner, FitInner(n, inner), NEW p, IsProperty(p, n)
    PROVE  Fit(<<"count">>, PropertyOps(p, inner))
PROOF
<1> DEFINE part == [k \in DOMAIN p |-> <<String(p[k].key)>> \o ValueOps(p[k].value, inner)]
           N == Len(p)
           e == <<"key", "value">>
<1>1. N \in Nat /\ DOMAIN p = 1 .. N /\ Wide \in Nat
    BY TreeAssumption DEF IsProperty, IsList
<1>2. "key" \in Expected /\ "value" \in Expected /\ "count" \in Expected /\ "count" \in Whats
      /\ N \in ValuesOf("count")
    <2>1. ValuesOf("count") = U32
        BY ValuesAre
    <2>2. N \in U32
        BY DEF IsProperty
    <2> HIDE DEF N
    <2> QED
        BY <2>1, <2>2 DEF Expected, Whats
<1>3. e = <<"key">> \o <<"value">> /\ <<"key">> \in Stacks /\ <<"value">> \in Stacks /\ e \in Stacks
    BY <1>2, PairIs DEF Stacks
<1>4. ASSUME NEW k \in 1 .. N PROVE Fit(e, part[k])
    <2>1. p[k].key \in Strings /\ IsValue(p[k].value, n)
        BY <1>1 DEF IsProperty
    <2>2. Fit(<<"key">>, <<String(p[k].key)>>)
        BY <1>2, <2>1, FitString
    <2>3. Fit(<<"value">>, ValueOps(p[k].value, inner))
        BY <2>1, FitValue
    <2>4. Fit(<<"key">> \o <<"value">>, <<String(p[k].key)>> \o ValueOps(p[k].value, inner))
        BY <1>3, <2>2, <2>3, FitJoin
    <2>5. part[k] = <<String(p[k].key)>> \o ValueOps(p[k].value, inner)
        BY <1>1
    <2> HIDE DEF part, e
    <2> QED
        BY <1>3, <2>4, <2>5
<1>5. part = [k \in 1 .. N |-> part[k]]
    BY <1>1
<1>6. PropertyOps(p, inner) = <<Plain("count", N)>> \o Seqs!FlattenSeq(part)
    BY DEF PropertyOps
<1> HIDE DEF part, N
<1>7. Fit(Times(N, e), Seqs!FlattenSeq(part))
    <2> HIDE DEF e
    <2>1. Fit(Times(N, e), Seqs!FlattenSeq([k \in 1 .. N |-> part[k]]))
        BY <1>1, <1>3, <1>4, FitTimes
    <2> QED
        BY <1>5, <2>1
<1>8. BehindPlain("count", N) = Times(N, e)
    BY DEF BehindPlain
<1>9. Times(N, e) \in Stacks
    BY <1>1, <1>3, TimesAre
<1>10. Fit(<<"count">>, <<Plain("count", N)>> \o Seqs!FlattenSeq(part))
    BY <1>2, <1>7, <1>8, <1>9, FitPlain
<1> QED
    BY <1>6, <1>10

\* A canvas whose data is owned has failed before its header, and one whose data
\* is lost behind an empty one.
LEMMA FitCanvas ==
    ASSUME NEW o, o.hdr \in Int, o.from \in Sources, o.size \in Nat
    PROVE  Fit(<<"canvasHeader", "data">>, CanvasOps(o))
PROOF
<1> DEFINE e == <<"canvasHeader", "data">>
           p == Plain("canvasHeader", o.hdr)
<1>1. "canvasHeader" \in Expected /\ "data" \in Expected /\ "canvasHeader" \in Whats
      /\ o.hdr \in ValuesOf("canvasHeader")
    BY DEF Expected, Whats, ValuesOf, Unsigned, Flags, OnlyMagic
<1>2. e = <<"canvasHeader">> \o <<"data">> /\ <<"canvasHeader">> \in Stacks /\ <<"data">> \in Stacks
      /\ e \in Stacks /\ e # << >>
    BY <1>1, PairIs DEF Stacks
<1>3. BehindPlain("canvasHeader", o.hdr) = << >>
    BY DEF BehindPlain
<1>4. Fit(<<"canvasHeader">>, <<p>>)
    BY <1>1, <1>3, FitLeaf
<1>5. ASSUME NEW n \in Nat PROVE Fit(e, <<p, CanvasData(n)>>)
    <2>1. CanvasData(n) \in CallSet /\ CanvasData(n).op = "data" /\ p \in CallSet
        BY <1>1, CallIs
    <2>2. Matches(CanvasData(n), "data") /\ Behind(CanvasData(n), "data") = << >>
        BY <2>1 DEF Matches, Behind
    <2>3. Fit(<<"data">>, <<CanvasData(n)>>)
        BY <1>1, <2>1, <2>2, FitOne
    <2>4. Fit(<<"canvasHeader">> \o <<"data">>, <<p>> \o <<CanvasData(n)>>)
        BY <1>2, <1>4, <2>3, FitJoin
    <2>5. <<p, CanvasData(n)>> = <<p>> \o <<CanvasData(n)>>
        BY <2>1, PairIs
    <2> HIDE DEF e, p
    <2> QED
        BY <1>2, <2>4, <2>5
<1>6. CASE o.from = "owned"
    <2>1. Fit(e, <<Fail("owned")>>)
        BY <1>2, FitFailure
    <2> QED
        BY <1>6, <2>1 DEF CanvasOps
<1>7. CASE o.from = "file"
    <2>1. Fit(e, <<p, CanvasData(o.size)>>)
        BY <1>5
    <2> QED
        BY <1>7, <2>1 DEF CanvasOps
<1>8. CASE o.from = "lost"
    <2> DEFINE a == <<p, CanvasData(0)>>
               f == Fail("lost")
               w == <<p, CanvasData(0), f>>
    <2>1. p \in CallSet /\ CanvasData(0) \in CallSet /\ f \in CallSet /\ f.op = "fail" /\ f.why = "lost"
        BY <1>1, CallIs DEF Fail, CallSet
    <2>2. Fit(e, a)
        BY <1>5
    <2>3. a \in Seq(CallSet) /\ Len(a) = 2 /\ a[1] = p /\ a[2] = CanvasData(0)
        BY <2>1, ShortSeqs
    <2>4. w = Append(a, f) /\ w \in Seq(CallSet)
        BY <2>1
    <2>5. p.op = "plain" /\ CanvasData(0).op = "data"
        BY <1>1, CallIs
    <2> HIDE DEF a, w, f, p, e
    <2>6. Items(a) = a
        <3>1. Append(<< >>, p) = <<p>> /\ <<p>> \in Seq(CallSet) /\ Append(<<p>>, CanvasData(0)) = a
            BY <2>1, ShortSeqs DEF a
        <3>2. Items(<<p>>) = <<p>>
            BY <2>1, <2>5, <3>1, ItemsAre
        <3>3. Items(Append(<<p>>, CanvasData(0))) = Append(Items(<<p>>), CanvasData(0))
            BY <2>1, <2>5, <3>1, ItemsAre
        <3> QED
            BY <3>1, <3>2, <3>3
    <2>7. Items(w) = Append(a, f)
        BY <2>1, <2>3, <2>4, <2>6, ItemsAre
    <2>8. PICK S : Follows(e, a, S)
        BY <2>2, <2>6 DEF Fit, Reads
    <2>9. /\ S \in [0 .. 2 -> Stacks] /\ S[0] = e /\ S[2] = << >>
          /\ Moves(a, 1, S[0], S[1]) /\ Moves(a, 2, S[1], S[2])
        <3>1. 1 \in 1 .. 2 /\ 2 \in 1 .. 2 /\ 1 - 1 = 0 /\ 2 - 1 = 1
            OBVIOUS
        <3> QED
            BY <2>3, <2>8, <3>1 DEF Follows
    <2>10. /\ Len(w) = 3 /\ w[1] = a[1] /\ w[2] = a[2] /\ w[3] = f
        <3> DEFINE g == [k \in 1 .. 2 + 1 |-> IF k = 2 + 1 THEN f ELSE a[k]]
        <3>1. w = g
            BY <2>1, <2>3, <2>4, AppendIs
        <3>2. g[1] = a[1] /\ g[2] = a[2] /\ g[3] = f
            OBVIOUS
        <3>3. g \in [1 .. 3 -> CallSet]
            <4>1. a[1] \in CallSet /\ a[2] \in CallSet
                BY <2>1, <2>3
            <4>2. \A k \in 1 .. 3 : k = 1 \/ k = 2 \/ k = 3
                OBVIOUS
            <4>3. \A k \in 1 .. 3 : g[k] \in CallSet
                BY <2>1, <3>2, <4>1, <4>2
            <4>4. g = [k \in 1 .. 3 |-> g[k]]
                OBVIOUS
            <4> HIDE DEF g
            <4> QED
                BY <4>3, <4>4
        <3> HIDE DEF g
        <3>4. Len(g) = 3
            BY <3>3, SeqIs
        <3> QED
            BY <3>1, <3>2, <3>4
    <2> DEFINE T == [k \in 0 .. 3 |-> IF k = 3 THEN << >> ELSE S[k]]
    <2>11. /\ T \in [0 .. 3 -> Stacks] /\ T[0] = e /\ T[1] = S[1] /\ T[2] = S[2] /\ T[3] = << >>
        <3>1. \A k \in 0 .. 3 : k # 3 => k \in 0 .. 2
            OBVIOUS
        <3>2. << >> \in Stacks
            BY DEF Stacks
        <3> QED
            BY <2>9, <3>1, <3>2
    <2> HIDE DEF T
    <2>12. Moves(w, 1, T[0], T[1]) /\ Moves(w, 2, T[1], T[2])
        <3> DEFINE c == 0
        <3>1. c \in Nat /\ c + 1 = 1 /\ c + 2 = 2 /\ (\A j \in 1 .. 1 : w[c + j] = a[j])
              /\ (\A j \in 1 .. 2 : w[c + j] = a[j])
            BY <2>10
        <3> DEFINE k1 == 1
                   k2 == 2
        <3>2. k1 \in Nat \ {0} /\ k2 \in Nat \ {0} /\ c + k1 = k1 /\ c + k2 = k2
              /\ (\A j \in 1 .. k1 : w[c + j] = a[j]) /\ (\A j \in 1 .. k2 : w[c + j] = a[j])
            BY <3>1
        <3>3. Moves(a, k1, S[0], S[1]) /\ Moves(a, k2, S[1], S[2])
            BY <2>9
        <3> HIDE DEF c, k1, k2
        <3>4. Moves(w, c + k1, S[0], S[1]) /\ Moves(w, c + k2, S[1], S[2])
            BY <3>1, <3>2, <3>3, MovesWithin
        <3>5. Moves(w, k1, S[0], S[1]) /\ Moves(w, k2, S[1], S[2])
            BY <3>2, <3>4
        <3> QED
            BY <2>9, <2>11, <3>5 DEF k1, k2
    <2>13. Moves(w, 3, T[2], T[3])
        <3>1. Failed(w[3]) /\ w[3].why = "lost" /\ 3 > 1 /\ 3 - 1 = 2 /\ w[2] = CanvasData(0)
            BY <2>1, <2>3, <2>10 DEF Failed
        <3> QED
            BY <3>1 DEF Moves, Breaks
    <2>14. \A k \in 1 .. Len(w) : Moves(w, k, T[k - 1], T[k])
        <3>1. \A k \in 1 .. Len(w) : (k = 1 /\ k - 1 = 0) \/ (k = 2 /\ k - 1 = 1) \/ (k = 3 /\ k - 1 = 2)
            BY <2>10
        <3> QED
            BY <2>12, <2>13, <3>1
    <2>15. Follows(e, w, T)
        BY <2>10, <2>11, <2>14 DEF Follows
    <2>16. Items(w) = w
        BY <2>4, <2>7
    <2>17. Fit(e, w)
        BY <2>4, <2>15, <2>16 DEF Fit, Reads
    <2>18. CanvasOps(o) = w
        BY <1>8 DEF CanvasOps, w, f, p
    <2> QED
        BY <2>17, <2>18 DEF e
<1> QED
    BY <1>6, <1>7, <1>8 DEF Sources

\* Sounds, with data and without.
LEMMA FitSound ==
    ASSUME NEW o \in Objects, o.ty = "sound", IsHeader(o.hdr), o.from \in Sources
    PROVE  Fit(<<"soundHeader">>, SoundOps(o))
PROOF
<1> DEFINE e == <<"soundHeader">>
           p == Plain("soundHeader", o.hdr)
           d == SoundData(o.hdr.size)
<1>1. /\ "soundHeader" \in Expected /\ "soundData" \in Expected /\ "soundHeader" \in Whats
      /\ o.hdr \in ValuesOf("soundHeader") /\ o.hdr.size \in Nat
    BY DEF Expected, Whats, ValuesOf, Unsigned, Flags, OnlyMagic, Headers, IsHeader
<1>2. e \in Stacks /\ e # << >>
    BY <1>1 DEF Stacks
<1>3. CASE o.from # "file"
    <2>1. Fit(e, <<Fail(o.from)>>)
        BY <1>2, <1>3, FitFailure DEF Sources
    <2> QED
        BY <1>3, <2>1 DEF SoundOps
<1>4. p \in CallSet /\ p.op = "plain" /\ p.what = "soundHeader" /\ p.val = o.hdr
    BY <1>1, CallIs
<1>5. CASE o.from = "file" /\ o.hdr.size = 0
    <2>1. BehindPlain("soundHeader", o.hdr) = << >>
        BY <1>5 DEF BehindPlain
    <2>2. Fit(e, <<p>>)
        BY <1>1, <2>1, FitLeaf
    <2>3. SoundOps(o) = <<p>>
        BY <1>4, <1>5 DEF SoundOps
    <2> QED
        BY <2>2, <2>3
<1>6. CASE o.from = "file" /\ o.hdr.size # 0
    <2> DEFINE w == <<p, d>>
               S == [k \in 0 .. 2 |-> IF k = 0 THEN e ELSE IF k = 1 THEN <<"soundData">> ELSE << >>]
    <2>1. d \in CallSet /\ d.op = "sound" /\ d.size = o.hdr.size
        BY <1>1, <1>6, CallIs
    <2>2. w \in Seq(CallSet) /\ Len(w) = 2 /\ w[1] = p /\ w[2] = d
        BY <1>4, <2>1, ShortSeqs
    <2>3. Items(w) = w
        <3>1. Append(<< >>, p) = <<p>> /\ <<p>> \in Seq(CallSet) /\ Append(<<p>>, d) = w
            BY <1>4, <2>1, ShortSeqs
        <3>2. Items(<<p>>) = <<p>>
            BY <1>4, <3>1, ItemsAre
        <3>3. Items(Append(<<p>>, d)) = Append(Items(<<p>>), d)
            BY <2>1, <3>1, ItemsAre
        <3> QED
            BY <3>1, <3>2, <3>3
    <2>4. /\ S \in [0 .. 2 -> Stacks] /\ S[0] = e /\ S[1] = <<"soundData">> /\ S[2] = << >>
        BY <1>1 DEF Stacks
    <2>5. SoundOps(o) = w
        <3>1. SoundOps(o) = <<p>> \o <<d>>
            BY <1>6 DEF SoundOps
        <3> HIDE DEF p, d
        <3> QED
            BY <1>4, <2>1, <3>1, PairIs
    <2> HIDE DEF w, S
    <2>6. Advances(p, S[0], S[1])
        <3>1. Head(e) = "soundHeader" /\ Tail(e) = << >>
            OBVIOUS
        <3>2. Behind(p, "soundHeader") = <<"soundData">> /\ Matches(p, "soundHeader") /\ ~Failed(p)
            BY <1>4, <1>6 DEF Behind, BehindPlain, Matches, Failed
        <3>3. <<"soundData">> \in Stacks /\ <<"soundData">> \o << >> = <<"soundData">>
            BY <1>1 DEF Stacks
        <3> HIDE DEF e
        <3> QED
            BY <1>2, <2>4, <3>1, <3>2, <3>3 DEF Advances
    <2>7. Advances(d, S[1], S[2])
        <3>1. Head(<<"soundData">>) = "soundData" /\ Tail(<<"soundData">>) = << >> /\ <<"soundData">> # << >>
            OBVIOUS
        <3>2. Behind(d, "soundData") = << >> /\ Matches(d, "soundData") /\ ~Failed(d)
            BY <2>1 DEF Behind, Matches, Failed
        <3>3. << >> \in Stacks /\ << >> \o << >> = << >>
            BY DEF Stacks
        <3> QED
            BY <2>4, <3>1, <3>2, <3>3 DEF Advances
    <2>8. Announced(w, 1) /\ Announced(w, 2)
        <3>1. 2 > 1 /\ 2 - 1 = 1
            OBVIOUS
        <3> QED
            BY <1>4, <2>1, <2>2, <3>1 DEF Announced
    <2>9. Moves(w, 1, S[0], S[1]) /\ Moves(w, 2, S[1], S[2])
        BY <2>2, <2>6, <2>7, <2>8 DEF Moves
    <2>10. \A k \in 1 .. Len(w) : (k = 1 /\ k - 1 = 0) \/ (k = 2 /\ k - 1 = 1)
        BY <2>2
    <2>11. \A k \in 1 .. Len(w) : Moves(w, k, S[k - 1], S[k])
        BY <2>9, <2>10
    <2>12. Follows(e, w, S)
        BY <2>2, <2>4, <2>11 DEF Follows
    <2>13. Fit(e, w)
        BY <2>2, <2>3, <2>12 DEF Fit, Reads
    <2> QED
        BY <2>5, <2>13
<1> QED
    BY <1>3, <1>5, <1>6

\* What is expected behind the type of an object.
TypeStack(ty) ==
    CASE ty = "property" -> <<"count">>
      [] ty = "canvas"   -> <<"hasProp">>
      [] ty = "sound"    -> <<"soundHeader">>
      [] ty = "link"     -> <<"link">>
      [] ty = "vec"      -> <<"x", "y">>
      [] ty = "convex"   -> <<"vecs">>

\* What a type announces is what is expected behind it.
LEMMA TypeStackIs ==
    ASSUME NEW ty \in ObjectTypes
    PROVE  BehindType(TypeName[ty]) = TypeStack(ty) /\ TypeStack(ty) \in Stacks
PROOF
<1>1. \A t \in ObjectTypes : TypeName[ty] = TypeName[t] <=> ty = t
    BY TreeAssumption
<1>2. {"property", "canvas", "sound", "link", "vec", "convex"} = ObjectTypes
    BY DEF ObjectTypes
<1>3. BehindType(TypeName[ty]) = TypeStack(ty)
    BY <1>1, <1>2 DEF BehindType, TypeStack
<1>4. TypeStack(ty) \in Stacks
    <2>1. {"count", "hasProp", "soundHeader", "link", "x", "y", "vecs"} \subseteq Expected
        BY DEF Expected, Whats
    <2> QED
        BY <1>2, <2>1, PairIs DEF TypeStack, Stacks
<1> QED
    BY <1>3, <1>4

\* A vector.
LEMMA FitVec ==
    ASSUME NEW v, IsVec(v)
    PROVE  Fit(<<"x", "y">>, VecOps(v))
PROOF
<1>1. {"x", "y"} \subseteq Expected /\ {"x", "y"} \subseteq Whats
      /\ v[1] \in ValuesOf("x") /\ v[2] \in ValuesOf("y")
    BY DEF IsVec, Expected, Whats, ValuesOf, Unsigned, Flags, OnlyMagic
<1>2. BehindPlain("x", v[1]) = << >> /\ BehindPlain("y", v[2]) = << >>
    BY DEF BehindPlain
<1>3. Fit(<<"x">>, <<Plain("x", v[1])>>) /\ Fit(<<"y">>, <<Plain("y", v[2])>>)
    BY <1>1, <1>2, FitLeaf
<1>4. Plain("x", v[1]) \in CallSet /\ Plain("y", v[2]) \in CallSet
    BY <1>1, CallIs
<1>5. <<"x">> \in Stacks /\ <<"y">> \in Stacks /\ <<"x", "y">> = <<"x">> \o <<"y">>
    BY <1>1, PairIs DEF Stacks
<1>6. VecOps(v) = <<Plain("x", v[1])>> \o <<Plain("y", v[2])>>
    BY <1>4, PairIs DEF VecOps
<1>7. Fit(<<"x">> \o <<"y">>, <<Plain("x", v[1])>> \o <<Plain("y", v[2])>>)
    BY <1>3, <1>5, FitJoin
<1> QED
    BY <1>5, <1>6, <1>7

\* A list of vectors, each with its type.
LEMMA FitConvex ==
    ASSUME NEW vecs, IsList(vecs), \A k \in DOMAIN vecs : IsVec(vecs[k])
    PROVE  Fit(<<"vecs">>, ConvexOps(vecs))
PROOF
<1> DEFINE part == [k \in DOMAIN vecs |-> <<String(TypeName.vec)>> \o VecOps(vecs[k])]
           N == Len(vecs)
           e == <<"vecType", "x", "y">>
<1>1. N \in Nat /\ DOMAIN vecs = 1 .. N
    BY DEF IsList
<1>2. /\ {"vecType", "x", "y", "vecs"} \subseteq Expected /\ "vecs" \in Whats
      /\ N \in ValuesOf("vecs") /\ TypeName.vec \in Strings
    BY <1>1, TreeAssumption
       DEF Expected, Whats, ValuesOf, Unsigned, Flags, OnlyMagic, ObjectTypes
<1>3. <<"vecType">> \in Stacks /\ <<"x", "y">> \in Stacks /\ e \in Stacks
      /\ e = <<"vecType">> \o <<"x", "y">>
    BY <1>2 DEF Stacks
<1>4. ASSUME NEW k \in 1 .. N PROVE Fit(e, part[k])
    <2>1. Fit(<<"vecType">>, <<String(TypeName.vec)>>)
        BY <1>2, FitString
    <2>2. Fit(<<"x", "y">>, VecOps(vecs[k]))
        BY <1>1, FitVec
    <2>3. Fit(<<"vecType">> \o <<"x", "y">>, <<String(TypeName.vec)>> \o VecOps(vecs[k]))
        BY <1>3, <2>1, <2>2, FitJoin
    <2>4. part[k] = <<String(TypeName.vec)>> \o VecOps(vecs[k])
        BY <1>1
    <2> HIDE DEF part, e
    <2> QED
        BY <1>3, <2>3, <2>4
<1>5. part = [k \in 1 .. N |-> part[k]]
    BY <1>1
<1>6. ConvexOps(vecs) = <<Plain("vecs", N)>> \o Seqs!FlattenSeq(part)
    BY DEF ConvexOps
<1> HIDE DEF part, N
<1>7. Fit(Times(N, e), Seqs!FlattenSeq(part))
    <2> HIDE DEF e
    <2>1. Fit(Times(N, e), Seqs!FlattenSeq([k \in 1 .. N |-> part[k]]))
        BY <1>1, <1>3, <1>4, FitTimes
    <2> QED
        BY <1>5, <2>1
<1>8. BehindPlain("vecs", N) = Times(N, e)
    BY DEF BehindPlain
<1>9. Times(N, e) \in Stacks
    BY <1>1, <1>3, TimesAre
<1>10. Fit(<<"vecs">>, <<Plain("vecs", N)>> \o Seqs!FlattenSeq(part))
    BY <1>2, <1>7, <1>8, <1>9, FitPlain
<1> QED
    BY <1>6, <1>10

\* What follows the type of an object, for each type.
LEMMA FitBody ==
    ASSUME NEW n, NEW inner, FitInner(n, inner), NEW o \in Objects, IsObject(o, n)
    PROVE  Fit(TypeStack(o.ty), BodyOps(o, inner))
PROOF
<1>1. CASE o.ty = "property"
    BY <1>1, FitProperty DEF IsObject, TypeStack, BodyOps
<1>2. CASE o.ty = "canvas"
    <2> DEFINE b == o.prop # None
               e == <<"canvasHeader", "data">>
               p == <<Plain("hasProp", b)>>
               x == IF o.prop = None THEN << >> ELSE PropertyOps(o.prop, inner)
               d == IF b THEN <<"count">> ELSE << >>
               c == CanvasOps(o)
    <2>1. /\ o.prop = None \/ IsProperty(o.prop, n)
          /\ o.hdr \in Int /\ o.from \in Sources /\ o.size \in Nat
        BY <1>2 DEF IsObject
    <2>2. /\ {"canvasHeader", "data", "count", "hasProp"} \subseteq Expected
          /\ "hasProp" \in Whats /\ b \in ValuesOf("hasProp")
        <3>1. b \in BOOLEAN
            BY Zenon
        <3>2. ValuesOf("hasProp") = BOOLEAN
            BY ValuesAre
        <3>3. {"canvasHeader", "data", "count", "hasProp"} \subseteq Expected /\ "hasProp" \in Whats
            BY DEF Expected, Whats
        <3> HIDE DEF b
        <3> QED
            BY <3>1, <3>2, <3>3, Zenon
    <2>3. e \in Stacks /\ d \in Stacks
        BY <2>2, PairIs DEF Stacks
    <2>4. Fit(d, x)
        BY <2>1, FitProperty, FitNothing
    <2>5. Fit(e, c)
        BY <2>1, FitCanvas
    <2>6. BehindPlain("hasProp", b) = d \o e
        BY DEF BehindPlain
    <2>7. BodyOps(o, inner) = (p \o x) \o c
        BY <1>2 DEF BodyOps
    <2>8. Plain("hasProp", b) \in CallSet
        BY <2>2, CallIs
    <2> HIDE DEF b, e, x, d, c
    <2>9. Fit(d \o e, x \o c) /\ d \o e \in Stacks
        BY <2>3, <2>4, <2>5, FitJoin, Joined DEF Stacks
    <2>10. Fit(<<"hasProp">>, p \o (x \o c))
        BY <2>2, <2>6, <2>9, FitPlain
    <2>11. (p \o x) \o c = p \o (x \o c)
        BY <2>4, <2>5, <2>8, JoinJoined DEF Fit
    <2> QED
        BY <1>2, <2>7, <2>10, <2>11 DEF TypeStack
<1>3. CASE o.ty = "sound"
    BY <1>3, FitSound DEF IsObject, TypeStack, BodyOps
<1>4. CASE o.ty = "link"
    <2>1. o.link \in Strings
        BY <1>4 DEF IsObject
    <2>2. {"link", "text"} \subseteq Expected /\ "link" \in Whats /\ None \in ValuesOf("link")
          /\ <<"text">> \in Stacks
        BY DEF Expected, Whats, ValuesOf, Unsigned, Flags, OnlyMagic, Stacks
    <2>3. Fit(<<"text">>, <<String(o.link)>>)
        BY <2>1, <2>2, FitString
    <2>4. BehindPlain("link", None) = <<"text">>
        BY DEF BehindPlain
    <2>5. Fit(<<"link">>, <<Plain("link", None)>> \o <<String(o.link)>>)
        BY <2>2, <2>3, <2>4, FitPlain
    <2>6. Plain("link", None) \in CallSet /\ String(o.link) \in CallSet
        BY <2>1, <2>2, CallIs
    <2>7. BodyOps(o, inner) = <<Plain("link", None)>> \o <<String(o.link)>>
        BY <1>4, <2>6, PairIs DEF BodyOps
    <2> QED
        BY <1>4, <2>5, <2>7 DEF TypeStack
<1>5. CASE o.ty = "vec"
    BY <1>5, FitVec DEF IsObject, TypeStack, BodyOps
<1>6. CASE o.ty = "convex"
    BY <1>6, FitConvex DEF IsObject, TypeStack, BodyOps
<1> QED
    BY <1>1, <1>2, <1>3, <1>4, <1>5, <1>6 DEF IsObject

\* Object::write and Object::from_reader.
LEMMA FitObject ==
    ASSUME NEW n, NEW inner, FitInner(n, inner), NEW o \in Objects, IsObject(o, n)
    PROVE  Fit(<<"object">>, <<String(TypeName[o.ty])>> \o BodyOps(o, inner))
PROOF
<1>1. o.ty \in ObjectTypes
    BY DEF IsObject, ObjectTypes
<1> DEFINE t == TypeName[o.ty]
<1>2. t \in Strings /\ t \in Types
    BY <1>1, TreeAssumption DEF Types
<1>3. String(t) \in CallSet /\ String(t).op = "string" /\ String(t).str = t
    BY <1>2, CallIs
<1>4. Matches(String(t), "object") /\ Behind(String(t), "object") = TypeStack(o.ty)
    BY <1>1, <1>2, <1>3, TypeStackIs DEF Matches, Behind
<1>5. TypeStack(o.ty) \in Stacks /\ "object" \in Expected
    BY <1>1, TypeStackIs DEF Expected
<1>6. Fit(TypeStack(o.ty), BodyOps(o, inner))
    BY FitBody
<1> HIDE DEF t
<1>7. Fit(<<"object">>, <<String(t)>> \o BodyOps(o, inner))
    BY <1>3, <1>4, <1>5, <1>6, FitCall
<1> QED
    BY <1>7 DEF t

\* What Object::write does with the objects within, for each object.
OpsOf(o, inner) == <<String(TypeName[o.ty])>> \o BodyOps(o, inner)
Level(n, inner) == [o \in Objects |-> IF n = 0 THEN << >> ELSE OpsOf(o, inner)]

\* The recursive definition of the calls, level by level.
LEMMA ObjectOpsIs ==
    \A n \in 0 .. Len(Trees) : ObjectOps[n] = Level(n, ObjectOps[n - 1])
PROOF
<1> DEFINE N == Len(Trees)
           Def(m, f) == f = [n \in 0 .. m |-> Level(n, f[n - 1])]
           T == {m \in 0 .. N : \E f : Def(m, f)}
           g == CHOOSE f : Def(N, f)
<1>1. N \in Nat
    BY TreeAssumption
<1>2. ObjectOps = g
    BY DEF ObjectOps, Level, OpsOf
<1> HIDE DEF N, g
<1>3. 0 \in T
    <2> DEFINE f == [n \in 0 .. 0 |-> Level(n, << >>)]
    <2>1. \A x, y : Level(0, x) = Level(0, y)
        BY DEF Level
    <2>2. f = [n \in 0 .. 0 |-> Level(n, f[n - 1])]
        <3>1. \A n \in 0 .. 0 : n = 0
            OBVIOUS
        <3>2. \A n \in 0 .. 0 : Level(n, << >>) = Level(n, f[n - 1])
            BY <2>1, <3>1
        <3> QED
            BY <3>2
    <2>3. Def(0, f)
        BY <2>2
    <2> HIDE DEF Def
    <2> QED
        BY <1>1, <2>3
<1>4. ASSUME NEW m \in 0 .. N - 1, m \in T PROVE m + 1 \in T
    <2>1. m \in Nat /\ m + 1 \in 0 .. N
        BY <1>1
    <2>2. PICK f : f = [n \in 0 .. m |-> Level(n, f[n - 1])]
        BY <1>4
    <2> DEFINE h == [n \in 0 .. m + 1 |-> IF n = m + 1 THEN Level(n, f[m]) ELSE f[n]]
    <2>3. ASSUME NEW n \in 0 .. m + 1 PROVE h[n] = Level(n, h[n - 1])
        <3>1. CASE n = m + 1
            <4>1. n - 1 = m /\ m \in 0 .. m + 1 /\ m # m + 1
                BY <2>1, <3>1
            <4>2. h[m] = f[m] /\ h[n] = Level(n, f[m])
                BY <3>1, <4>1
            <4> HIDE DEF h
            <4> QED
                BY <4>1, <4>2
        <3>2. CASE n # m + 1
            <4>1. n \in 0 .. m
                BY <2>1, <3>2
            <4>2. h[n] = f[n]
                BY <3>2
            <4>3. f[n] = Level(n, f[n - 1])
                BY <2>2, <4>1
            <4>4. CASE n = 0
                <5>1. \A x, y : Level(0, x) = Level(0, y)
                    BY DEF Level
                <5> HIDE DEF h
                <5> QED
                    BY <4>2, <4>3, <4>4, <5>1
            <4>5. CASE n # 0
                <5>1. n - 1 \in 0 .. m + 1 /\ n - 1 # m + 1
                    BY <2>1, <4>1, <4>5
                <5>2. h[n - 1] = f[n - 1]
                    BY <5>1
                <5> HIDE DEF h
                <5> QED
                    BY <4>2, <4>3, <5>2
            <4> QED
                BY <4>4, <4>5
        <3> QED
            BY <3>1, <3>2
    <2>4. h = [n \in 0 .. m + 1 |-> h[n]]
        OBVIOUS
    <2> HIDE DEF h
    <2>5. h = [n \in 0 .. m + 1 |-> Level(n, h[n - 1])]
        BY <2>3, <2>4
    <2>6. Def(m + 1, h)
        BY <2>5
    <2> HIDE DEF Def
    <2> QED
        BY <2>1, <2>6
<1>5. N \in T
    <2> HIDE DEF T
    <2>1. \A n \in 0 .. N : n \in T
        BY <1>1, <1>3, <1>4, UpToInSet
    <2> QED
        BY <1>1, <2>1
<1>6. Def(N, g)
    <2> HIDE DEF Def
    <2>1. \E f : Def(N, f)
        BY <1>5
    <2> QED
        BY <2>1, Zenon DEF g
<1>7. \A n \in 0 .. N : g[n] = Level(n, g[n - 1])
    BY <1>6
<1> QED
    BY <1>2, <1>7 DEF N

\* The calls of every object are what its reader expects.
LEMMA FitTree ==
    \A n \in 0 .. Len(Trees) : \A o \in Below(n) : Fit(<<"object">>, ObjectOps[n][o])
PROOF
<1> DEFINE N == Len(Trees)
           T == {n \in 0 .. N : \A o \in Below(n) : Fit(<<"object">>, ObjectOps[n][o])}
<1>1. N \in Nat
    BY TreeAssumption
<1>2. 0 \in T
    <2>1. Below(0) = {}
        BY DEF Below
    <2> QED
        BY <1>1, <2>1
<1>3. ASSUME NEW n \in 0 .. N - 1, n \in T PROVE n + 1 \in T
    <2>1. n + 1 \in 0 .. N /\ n + 1 # 0 /\ (n + 1) - 1 = n /\ n \in Nat
        BY <1>1
    <2>2. ObjectOps[n + 1] = Level(n + 1, ObjectOps[n])
        BY <2>1, ObjectOpsIs
    <2>3. ASSUME NEW o \in Below(n + 1) PROVE Fit(<<"object">>, ObjectOps[n + 1][o])
        <3>1. PICK m \in 1 .. n + 1 : o \in Trees[m]
            BY DEF Below
        <3>2. m \in 1 .. N /\ m - 1 <= n /\ m \in Nat
            BY <1>1, <2>1
        <3>3. o \in Objects
            BY <3>1, <3>2 DEF Objects, Below
        <3>4. IsObject(o, m)
            BY <3>1, <3>2, TreeAssumption
        <3>5. Below(m - 1) \subseteq Below(n)
            <4>1. 1 .. m - 1 \subseteq 1 .. n
                BY <2>1, <3>2
            <4> QED
                BY <4>1 DEF Below
        <3>6. FitInner(m, ObjectOps[n])
            BY <1>3, <3>5 DEF FitInner
        <3>7. Fit(<<"object">>, OpsOf(o, ObjectOps[n]))
            BY <3>3, <3>4, <3>6, FitObject DEF OpsOf
        <3>8. ObjectOps[n + 1][o] = OpsOf(o, ObjectOps[n])
            BY <2>1, <2>2, <3>3 DEF Level
        <3> QED
            BY <3>7, <3>8
    <2> QED
        BY <2>1, <2>3
<1> HIDE DEF T, N
<1>4. \A n \in 0 .. N : n \in T
    BY <1>1, <1>2, <1>3, UpToInSet
<1> QED
    BY <1>4 DEF T, N

-----------------------------------------------------------------------------
(* Numbers *)

\* A number that is read is the one that was written, as many bytes as it took.
LEMMA IntIsRead ==
    ASSUME NEW v
    PROVE  /\ DecInt(EncInt(v)) = v
           /\ Len(EncInt(v)) \in {1, 2}
           /\ TakesInt(EncInt(v)) = Len(EncInt(v))
PROOF
<1>1. CASE v \in Int8 /\ v # V
    <2>1. EncInt(v) = <<v>>
        BY <1>1 DEF EncInt
    <2> QED
        BY <1>1, <2>1 DEF DecInt, TakesInt
<1>2. CASE ~(v \in Int8 /\ v # V)
    <2>1. EncInt(v) = <<V, v>>
        BY <1>2, Zenon DEF EncInt
    <2> QED
        BY <2>1 DEF DecInt, TakesInt
<1> QED
    BY <1>1, <1>2

\* x as i32 and back.
LEMMA UnsignedIsRead ==
    ASSUME NEW v \in U32
    PROVE  AsU32(AsI32(v)) = v
    BY TreeAssumption DEF U32, AsU32, AsI32

\* The header of a sound is one.
LEMMA HeaderIs ==
    ASSUME NEW h \in Headers
    PROVE  IsHeader(h)
PROOF
<1>1. PICK o \in Objects : o.ty = "sound" /\ h = o.hdr
    BY DEF Headers
<1>2. PICK n \in 1 .. Len(Trees) : o \in Trees[n]
    BY DEF Objects, Below
<1>3. IsObject(o, n)
    BY <1>2, TreeAssumption
<1> QED
    BY <1>1, <1>3 DEF IsObject

\* A value that is read is the one that was written.
LEMMA ValueIsRead ==
    ASSUME NEW w \in Whats, NEW v \in ValuesOf(w)
    PROVE  DecValue(w, EncValue(w, v)) = v
PROOF
<1>1. CASE w \in Unsigned
    <2>1. EncValue(w, v) = EncInt(AsI32(v)) /\ DecValue(w, EncInt(AsI32(v))) = AsU32(DecInt(EncInt(AsI32(v))))
        BY <1>1 DEF EncValue, DecValue, Unsigned, Flags, OnlyMagic, Compressed
    <2>2. v \in U32
        BY <1>1, ValuesAre DEF Unsigned
    <2> QED
        BY <2>1, <2>2, IntIsRead, UnsignedIsRead
<1>2. CASE w \in Compressed \ Unsigned
    <2>1. EncValue(w, v) = EncInt(v) /\ DecValue(w, EncInt(v)) = DecInt(EncInt(v))
        BY <1>2 DEF EncValue, DecValue, Unsigned, Flags, OnlyMagic, Compressed
    <2> QED
        BY <2>1, IntIsRead
<1>3. CASE w \in Flags
    <2>1. EncValue(w, v) = (IF v THEN <<1>> ELSE <<0>>) /\ \A b : DecValue(w, b) = (b[1] # 0)
        BY <1>3 DEF EncValue, DecValue, Unsigned, Flags, OnlyMagic, Compressed
    <2>2. v \in BOOLEAN
        BY <1>3, ValuesAre DEF Flags
    <2>3. <<1>>[1] # 0 /\ ~(<<0>>[1] # 0)
        OBVIOUS
    <2>4. CASE v
        <3>1. v = TRUE
            BY <2>2, <2>4
        <3>2. DecValue(w, EncValue(w, v)) = (<<1>>[1] # 0)
            BY <2>1, <2>4, Zenon
        <3> QED
            BY <2>3, <3>1, <3>2, Zenon
    <2>5. CASE ~v
        <3>1. v = FALSE
            BY <2>2, <2>5
        <3>2. DecValue(w, EncValue(w, v)) = (<<0>>[1] # 0)
            BY <2>1, <2>5, Zenon
        <3> QED
            BY <2>3, <3>1, <3>2, Zenon
    <2> QED
        BY <2>4, <2>5
<1>4. CASE w \in OnlyMagic
    BY <1>4 DEF DecValue, ValuesOf, Unsigned, Flags, OnlyMagic, Compressed
<1>5. CASE w \notin Unsigned \union Compressed \union Flags \union OnlyMagic
    <2>1. EncValue(w, v) = <<v>> /\ \A b : DecValue(w, b) = b[1]
        BY <1>5 DEF EncValue, DecValue
    <2> QED
        BY <2>1
<1> QED
    BY <1>1, <1>2, <1>3, <1>4, <1>5

\* No value is empty, and its reader goes to its end.
LEMMA ValueSize ==
    ASSUME NEW w \in Whats, NEW v \in ValuesOf(w)
    PROVE  /\ SizeOf(w, v) \in Nat \ {0}
           /\ w \in Compressed => MagicLen(w) + TakesInt(EncValue(w, v)) = SizeOf(w, v)
           /\ w = "soundHeader" => EncValue(w, v) = <<v>>
PROOF
<1>1. CASE w = "soundHeader"
    <2>1. v \in Headers /\ w \notin Compressed
        BY <1>1 DEF ValuesOf, Unsigned, Flags, OnlyMagic, Compressed
    <2>2. IsHeader(v)
        BY <2>1, HeaderIs
    <2>3. SizeOf(w, v) = SoundWritten(v)
        BY <1>1 DEF SizeOf
    <2>4. SoundWritten(v) \in Nat \ {0}
        BY <2>2 DEF SoundWritten, MediaHeaderLen, IsHeader
    <2>5. EncValue(w, v) = <<v>>
        BY <1>1 DEF EncValue, Unsigned, Flags, OnlyMagic, Compressed
    <2> QED
        BY <2>1, <2>3, <2>4, <2>5
<1>2. CASE w # "soundHeader"
    <2>1. SizeOf(w, v) = MagicLen(w) + Len(EncValue(w, v)) /\ MagicLen(w) \in {0, 1}
        BY <1>2 DEF SizeOf, MagicLen
    <2>2. CASE w \in Compressed
        <3>1. EncValue(w, v) = EncInt(AsI32(v)) \/ EncValue(w, v) = EncInt(v)
            BY <2>2 DEF EncValue, Unsigned, Flags, OnlyMagic, Compressed
        <3>2. Len(EncValue(w, v)) \in {1, 2} /\ TakesInt(EncValue(w, v)) = Len(EncValue(w, v))
            BY <3>1, IntIsRead
        <3> QED
            BY <1>2, <2>1, <3>2
    <2>3. CASE w \in OnlyMagic
        <3>1. EncValue(w, v) = << >> /\ w \notin Compressed /\ MagicLen(w) = 1
            BY <2>3 DEF EncValue, Unsigned, Flags, OnlyMagic, Compressed, MagicLen, NoMagic
        <3> QED
            BY <1>2, <2>1, <3>1
    <2>4. CASE w \notin Compressed /\ w \notin OnlyMagic
        <3>1. EncValue(w, v) = <<v>> \/ EncValue(w, v) = <<1>> \/ EncValue(w, v) = <<0>>
            BY <2>4 DEF EncValue, Unsigned, Compressed
        <3>2. Len(EncValue(w, v)) = 1
            BY <3>1
        <3> QED
            BY <1>2, <2>1, <2>4, <3>2
    <2> QED
        BY <2>2, <2>3, <2>4
<1> QED
    BY <1>1, <1>2

-----------------------------------------------------------------------------
(* What the calls say *)

Entries ==
    [what : Whats \union {"string", "data", "soundData"}, val : Strings \union Values \union Nat]
Telling == [op \in CallSet |-> Content(op)]
Told(s) == Spread(Telling, s)

\* What a call says are entries.
LEMMA ContentIs ==
    /\ Spreads(Telling, CallSet, Entries)
    /\ CallSet # {}
    /\ \A op \in CallSet : Content(op) \in Seq(Entries) /\ (op.op = "end" => Content(op) = << >>)
PROOF
<1>1. ASSUME NEW op \in CallSet PROVE Content(op) \in Seq(Entries)
    <2>1. CASE op.op = "string"
        <3>1. op.str \in Strings
            BY <2>1 DEF CallSet
        <3>2. [what |-> "string", val |-> op.str] \in Entries
            BY <3>1 DEF Entries
        <3>3. Content(op) = <<[what |-> "string", val |-> op.str]>>
            BY <2>1 DEF Content
        <3> QED
            BY <3>2, <3>3
    <2>2. CASE op.op = "plain"
        <3>1. op.what \in Whats /\ op.val \in Values
            BY <2>2 DEF CallSet
        <3>2. [what |-> op.what, val |-> op.val] \in Entries
            BY <3>1 DEF Entries
        <3>3. Content(op) = <<[what |-> op.what, val |-> op.val]>>
            BY <2>2 DEF Content
        <3> QED
            BY <3>2, <3>3
    <2>3. CASE op.op \in {"data", "sound"}
        <3>1. op.size \in Nat
            BY <2>3 DEF CallSet
        <3>2. [what |-> "data", val |-> op.size] \in Entries /\ [what |-> "soundData", val |-> op.size] \in Entries
            BY <3>1 DEF Entries
        <3>3. CASE op.op = "data"
            <4>1. Content(op) = <<[what |-> "data", val |-> op.size]>>
                BY <3>3 DEF Content
            <4> QED
                BY <3>2, <4>1
        <3>4. CASE op.op = "sound"
            <4>1. Content(op) = <<[what |-> "soundData", val |-> op.size]>>
                BY <3>4 DEF Content
            <4> QED
                BY <3>2, <4>1
        <3> QED
            BY <2>3, <3>3, <3>4
    <2>4. CASE op.op \notin {"string", "plain", "data", "sound"}
        BY <2>4 DEF Content
    <2> QED
        BY <2>1, <2>2, <2>3, <2>4
<1>2. Telling \in [CallSet -> Seq(Entries)]
    BY <1>1 DEF Telling
<1>3. Begin \in CallSet
    BY CallIs
<1>4. \A op \in CallSet : op.op = "end" => Content(op) = << >>
    BY DEF Content
<1> QED
    BY <1>1, <1>2, <1>3, <1>4 DEF Spreads

\* What calls say, call by call.
LEMMA ToldMore ==
    ASSUME NEW s \in Seq(CallSet), NEW op \in CallSet
    PROVE  /\ Told(<< >>) = << >>
           /\ Told(s) \in Seq(Entries)
           /\ Told(Append(s, op)) = Told(s) \o Content(op)
PROOF
<1>1. Telling[op] = Content(op)
    BY DEF Telling
<1>2. Spreads(Telling, CallSet, Entries)
    BY ContentIs
<1>3. /\ Spread(Telling, << >>) = << >>
      /\ Spread(Telling, s) \in Seq(Entries)
      /\ Spread(Telling, Append(s, op)) = Spread(Telling, s) \o Telling[op]
    BY <1>2, SpreadAppend
<1> QED
    BY <1>1, <1>3 DEF Told

\* The calls that leave no item say nothing.
LEMMA ItemsTell ==
    \A s \in Seq(CallSet) : Told(Items(s)) = Told(s)
PROOF
<1> DEFINE T == {s \in Seq(CallSet) : Told(Items(s)) = Told(s)}
<1>1. << >> \in T
    <2>1. << >> \in Seq(CallSet)
        OBVIOUS
    <2>2. Items(<< >>) = << >>
        BY <2>1, ItemsAre
    <2> QED
        BY <2>1, <2>2
<1>2. ASSUME NEW s \in Seq(CallSet), NEW op \in CallSet, s \in T
      PROVE  Append(s, op) \in T
    <2>1. Append(s, op) \in Seq(CallSet) /\ Items(s) \in Seq(CallSet)
        BY ItemsAre
    <2>2. Told(Append(s, op)) = Told(s) \o Content(op) /\ Told(s) \in Seq(Entries)
        BY ToldMore
    <2>3. Told(Items(s)) = Told(s)
        BY <1>2
    <2>4. CASE op.op = "end"
        <3>1. Items(Append(s, op)) = Items(s) /\ Content(op) = << >>
            BY <2>4, ItemsAre, ContentIs
        <3>2. Told(s) \o << >> = Told(s)
            BY <2>2
        <3> QED
            BY <2>1, <2>2, <2>3, <3>1, <3>2
    <2>5. CASE op.op # "end"
        <3>1. Items(Append(s, op)) = Append(Items(s), op)
            BY <2>5, ItemsAre
        <3>2. Told(Append(Items(s), op)) = Told(Items(s)) \o Content(op)
            BY <2>1, ToldMore
        <3> QED
            BY <2>1, <2>2, <2>3, <3>1, <3>2
    <2> QED
        BY <2>4, <2>5
<1> HIDE DEF T
<1>3. \A s \in Seq(CallSet) : s \in T
    BY <1>1, <1>2, SeqInSet
<1> QED
    BY <1>3 DEF T

\* Every item is one of the calls.
LEMMA ItemsWithin ==
    \A s \in Seq(CallSet) : \A i \in 1 .. Len(Items(s)) : \E k \in 1 .. Len(s) : s[k] = Items(s)[i]
PROOF
<1> DEFINE Within(s) == \A i \in 1 .. Len(Items(s)) : \E k \in 1 .. Len(s) : s[k] = Items(s)[i]
           T == {s \in Seq(CallSet) : Within(s)}
<1>1. << >> \in T
    <2>1. << >> \in Seq(CallSet)
        OBVIOUS
    <2>2. Items(<< >>) = << >>
        BY <2>1, ItemsAre
    <2> QED
        BY <2>1, <2>2
<1>2. ASSUME NEW s \in Seq(CallSet), NEW op \in CallSet, s \in T
      PROVE  Append(s, op) \in T
    <2> DEFINE w == Append(s, op)
               a == Items(s)
               b == Items(w)
    <2>1. w \in Seq(CallSet) /\ a \in Seq(CallSet)
        BY ItemsAre
    <2>2. /\ Len(s) \in Nat /\ Len(w) = Len(s) + 1 /\ w[Len(s) + 1] = op
          /\ \A k \in 1 .. Len(s) : w[k] = s[k]
        OBVIOUS
    <2>3. b = IF op.op = "end" THEN a ELSE Append(a, op)
        BY ItemsAre
    <2>4. \A i \in 1 .. Len(a) : \E k \in 1 .. Len(s) : s[k] = a[i]
        BY <1>2
    <2> HIDE DEF w, a, b
    <2>5. \A i \in 1 .. Len(b) : (i \in 1 .. Len(a) /\ b[i] = a[i]) \/ b[i] = op
        BY <2>1, <2>3
    <2>6. \A i \in 1 .. Len(b) : \E k \in 1 .. Len(w) : w[k] = b[i]
        <3>1. 1 .. Len(s) \subseteq 1 .. Len(w) /\ Len(s) + 1 \in 1 .. Len(w)
            BY <2>2
        <3> QED
            BY <2>2, <2>4, <2>5, <3>1
    <2> QED
        BY <2>1, <2>6 DEF w, b
<1> HIDE DEF T
<1>3. \A s \in Seq(CallSet) : s \in T
    BY <1>1, <1>2, SeqInSet
<1> QED
    BY <1>3 DEF T

\* The first calls of L.
First(L, k) == [i \in 1 .. k |-> L[i]]

\* The first calls, one by one.
LEMMA FirstAre ==
    ASSUME NEW L \in Seq(CallSet), NEW k \in 0 .. Len(L)
    PROVE  /\ First(L, k) \in Seq(CallSet)
           /\ First(L, 0) = << >>
           /\ k < Len(L) => L[k + 1] \in CallSet /\ First(L, k + 1) = Append(First(L, k), L[k + 1])
           /\ First(L, Len(L)) = L
PROOF
<1> DEFINE f == First(L, k)
<1>1. k \in Nat /\ Len(L) \in Nat /\ DOMAIN L = 1 .. Len(L) /\ \A i \in 1 .. Len(L) : L[i] \in CallSet
    OBVIOUS
<1>2. f \in [1 .. k -> CallSet]
    BY <1>1 DEF First
<1>3. f \in Seq(CallSet) /\ Len(f) = k
    <2> HIDE DEF f
    <2> QED
        BY <1>1, <1>2, SeqIs
<1>4. First(L, 0) = << >>
    BY DEF First
<1>5. First(L, Len(L)) = L
    BY <1>1 DEF First
<1>6. ASSUME k < Len(L)
      PROVE  L[k + 1] \in CallSet /\ First(L, k + 1) = Append(f, L[k + 1])
    <2>1. k + 1 \in 1 .. Len(L)
        BY <1>1, <1>6
    <2>2. L[k + 1] \in CallSet
        BY <1>1, <2>1
    <2>3. Append(f, L[k + 1]) = [i \in 1 .. k + 1 |-> IF i = k + 1 THEN L[k + 1] ELSE f[i]]
        <3> HIDE DEF f
        <3> QED
            BY <1>3, <2>2, AppendIs
    <2>4. \A i \in 1 .. k + 1 : L[i] = IF i = k + 1 THEN L[k + 1] ELSE f[i]
        BY <1>1 DEF First
    <2>5. First(L, k + 1) = [i \in 1 .. k + 1 |-> L[i]]
        BY DEF First
    <2> HIDE DEF f
    <2> QED
        BY <2>2, <2>3, <2>4, <2>5
<1> QED
    BY <1>3, <1>4, <1>5, <1>6 DEF f

\* A sequence is its head and its tail.
LEMMA HeadTail ==
    ASSUME NEW X, NEW s \in Seq(X), s # << >>
    PROVE  /\ Head(s) \in X /\ Tail(s) \in Seq(X)
           /\ s = <<Head(s)>> \o Tail(s)
PROOF
<1> DEFINE h == <<Head(s)>>
           t == Tail(s)
<1>1. /\ Len(s) \in Nat \ {0} /\ Head(s) = s[1] /\ s[1] \in X
      /\ t \in Seq(X) /\ Len(t) = Len(s) - 1 /\ \A i \in 1 .. Len(t) : t[i] = s[i + 1]
    OBVIOUS
<1>2. h \in Seq(X) /\ Len(h) = 1 /\ h[1] = s[1]
    BY <1>1
<1> HIDE DEF h, t
<1>3. /\ h \o t \in Seq(X) /\ Len(h \o t) = 1 + Len(t) /\ (h \o t)[1] = s[1]
      /\ \A i \in 1 .. Len(t) : (h \o t)[1 + i] = t[i]
    <2>1. /\ h \o t \in Seq(X) /\ Len(h \o t) = Len(h) + Len(t)
          /\ \A i \in 1 .. Len(h) : (h \o t)[i] = h[i]
          /\ \A i \in 1 .. Len(t) : (h \o t)[Len(h) + i] = t[i]
        <3>1. h \in Seq(X) /\ t \in Seq(X)
            BY <1>1, <1>2
        <3> QED
            BY <3>1, Joined
    <2>2. 1 \in 1 .. Len(h)
        BY <1>2
    <2>3. (h \o t)[1] = h[1]
        BY <2>1, <2>2
    <2> QED
        BY <1>2, <2>1, <2>3
<1>4. s = h \o t
    <2>1. ASSUME NEW i \in 1 .. Len(s) PROVE s[i] = (h \o t)[i]
        <3>1. CASE i = 1
            BY <1>3, <3>1
        <3>2. CASE i # 1
            <4> DEFINE j == i - 1
            <4>1. j \in 1 .. Len(t) /\ 1 + j = i /\ j + 1 = i
                BY <1>1, <3>2
            <4> HIDE DEF j
            <4> QED
                BY <1>1, <1>3, <4>1
        <3> QED
            BY <3>1, <3>2
    <2> QED
        BY <1>1, <1>3, <2>1, SeqEqual
<1> QED
    BY <1>1, <1>4 DEF h, t

-----------------------------------------------------------------------------
(* Writing a tree *)

\* Where item k starts, and the one behind the last will.
Starts(k) == IF k \in DOMAIN file THEN file[k].at ELSE Position
Contiguous ==
    /\ Starts(1) = 0
    /\ \A i \in DOMAIN file : EndOf(i) = Starts(i + 1)

\* The item a call leaves in the file.
ItemOf(op, item) ==
    /\ op.op = "string" => item.kind \in {"string", "reference"} /\ item.str = op.str
    /\ op.op = "plain" => item.kind = "plain" /\ item.size = SizeOf(op.what, op.val)
    /\ op.op = "sound" => item.kind = "plain" /\ item.size = op.size
    /\ op.op = "begin" => item.kind = "object"
    /\ op.op = "data" => item.kind = "blob" /\ item.size = BlobHeaderLen + op.size
    /\ op.op \in {"string", "plain", "sound", "begin", "data"}

\* The arguments of calls.
LEMMA CallTypes ==
    ASSUME NEW op \in CallSet
    PROVE  /\ op.op \in {"string", "plain", "sound", "begin", "data", "end", "fail"}
           /\ op.op = "string" => op.str \in Strings
           /\ op.op = "plain" => op.what \in Whats /\ op.val \in ValuesOf(op.what)
           /\ op.op = "sound" => op.size \in Nat \ {0}
           /\ op.op = "data" => op.size \in Nat
           /\ op.op = "fail" => op.why \in {"owned", "lost"}
    BY DEF CallSet

\* A call puts its item behind the others.
LEMMA CallExtends ==
    ASSUME IInv, NEW op \in CallSet, op.op \notin {"end", "fail"}, Call(op)
    PROVE  /\ FileWrites
           /\ UNCHANGED readerVars /\ ~written /\ ~written'
           /\ \E item \in Fields :
                /\ item.at = Position /\ item.size > 0
                /\ item.kind = "blob" => item.len = item.size - BlobHeaderLen + 1
                /\ Extend(item)
                /\ ItemOf(op, item)
PROOF
<1> DEFINE Good(item) ==
                /\ item \in Fields
                /\ item.at = Position /\ item.size > 0
                /\ item.kind = "blob" => item.len = item.size - BlobHeaderLen + 1
                /\ Extend(item)
                /\ ItemOf(op, item)
           Goal == FileWrites /\ UNCHANGED readerVars /\ ~written /\ ~written' /\ \E item : Good(item)
<1> SUFFICES Goal
    OBVIOUS
<1>1. TypeInv /\ Position \in Nat
    BY PositionBehind DEF IInv
<1>2. CASE op.op = "string"
    <2> DEFINE s == op.str
               new == [kind |-> "string", at |-> Position, size |-> TagLen + s.enc,
                       str |-> s, ref |-> None, len |-> 0]
               ref == [kind |-> "reference", at |-> Position, size |-> TagLen + RefLen,
                       str |-> s, ref |-> strTable[s], len |-> 0]
    <2>1. s \in Strings
        BY <1>2, CallTypes
    <2>2. WriteString(s)
        BY <1>2 DEF Call
    <2>3. UNCHANGED readerVars /\ ~written /\ ~written' /\ FileWrites
        BY <2>1, <2>2 DEF WriteString, Writing, FileWrites
    <2>4. new \in Fields /\ new.size > 0
        BY <1>1, <2>1, ImgFileAssumption DEF Fields, Kinds, TagLen
    <2>5. strTable[s] \in Nat \union {None}
        BY <1>1, <2>1 DEF TypeInv
    <2>6. ref \in Fields /\ ref.size > 0
        BY <1>1, <2>1, <2>5 DEF Fields, Kinds, TagLen, RefLen
    <2>7. ItemOf(op, new) /\ ItemOf(op, ref)
        BY <1>2 DEF ItemOf
    <2>8. CASE NewString(s)
        <3>1. Good(new)
            BY <2>4, <2>7, <2>8 DEF NewString
        <3> HIDE DEF Good
        <3> QED
            BY <2>3, <3>1
    <2>9. CASE Reference(s)
        <3>1. Good(ref)
            BY <2>6, <2>7, <2>9 DEF Reference
        <3> HIDE DEF Good
        <3> QED
            BY <2>3, <3>1
    <2> QED
        BY <2>2, <2>8, <2>9 DEF WriteString
<1>3. CASE op.op \in {"plain", "sound"}
    <2> DEFINE n == IF op.op = "plain" THEN SizeOf(op.what, op.val) ELSE op.size
               item == [kind |-> "plain", at |-> Position, size |-> n,
                        str |-> None, ref |-> None, len |-> 0]
    <2>1. n \in Nat \ {0}
        BY <1>3, CallTypes, ValueSize
    <2>2. WritePlain(n)
        BY <1>3 DEF Call
    <2>3. ItemOf(op, item)
        BY <1>3 DEF ItemOf
    <2> HIDE DEF n
    <2>4. Good(item)
        BY <1>1, <2>1, <2>2, <2>3 DEF WritePlain, Fields, Kinds
    <2>5. UNCHANGED readerVars /\ ~written /\ ~written' /\ FileWrites
        BY <2>1, <2>2 DEF WritePlain, Writing, FileWrites
    <2> HIDE DEF Good
    <2> QED
        BY <2>4, <2>5
<1>4. CASE op.op = "begin"
    <2> DEFINE item == [kind |-> "object", at |-> Position, size |-> ObjectHeaderLen,
                        str |-> None, ref |-> None, len |-> 0]
    <2>1. BeginObject
        BY <1>4 DEF Call
    <2>2. ItemOf(op, item)
        BY <1>4 DEF ItemOf
    <2>3. Good(item)
        BY <1>1, <2>1, <2>2 DEF BeginObject, Fields, Kinds, ObjectHeaderLen
    <2>4. UNCHANGED readerVars /\ ~written /\ ~written' /\ FileWrites
        BY <2>1 DEF BeginObject, Writing, FileWrites
    <2> HIDE DEF Good
    <2> QED
        BY <2>3, <2>4
<1>5. CASE op.op = "data"
    <2> DEFINE n == op.size
               item == [kind |-> "blob", at |-> Position, size |-> BlobHeaderLen + n,
                        str |-> None, ref |-> None, len |-> n + 1]
    <2>1. n \in Nat
        BY <1>5, CallTypes
    <2>2. WriteBlob(n)
        BY <1>5 DEF Call
    <2>3. ItemOf(op, item)
        BY <1>5 DEF ItemOf
    <2> HIDE DEF n
    <2>4. Good(item)
        BY <1>1, <2>1, <2>2, <2>3 DEF WriteBlob, Fields, Kinds, BlobHeaderLen
    <2>5. UNCHANGED readerVars /\ ~written /\ ~written' /\ FileWrites
        BY <2>1, <2>2 DEF WriteBlob, Writing, FileWrites
    <2> HIDE DEF Good
    <2> QED
        BY <2>4, <2>5
<1> QED
    BY <1>2, <1>3, <1>4, <1>5, CallTypes

\* Items lie behind each other without a gap.
LEMMA ExtendContiguous ==
    ASSUME IInv, Contiguous, NEW item \in Fields, item.at = Position, item.size > 0,
           item.kind = "blob" => item.len = item.size - BlobHeaderLen + 1, Extend(item)
    PROVE  Contiguous'
PROOF
<1>1. TypeInv /\ Layout /\ OpenInv /\ BlobInv /\ Position \in Nat
    BY PositionBehind DEF IInv
<1>2. /\ file' \in Seq(Fields) /\ Len(file') = Len(file) + 1
      /\ file'[Len(file) + 1] = item
      /\ \A i \in DOMAIN file : file'[i] = file[i]
    BY <1>1, ExtendKeeps
<1>3. DOMAIN file' = 1 .. Len(file) + 1 /\ DOMAIN file = 1 .. Len(file) /\ Len(file) \in Nat
    BY <1>1, <1>2 DEF TypeInv
<1>4. Position' = item.at + item.size
    <2>1. file' # << >>
        BY <1>2, <1>3
    <2> QED
        BY <1>2, <2>1 DEF Position, EndOf
<1>5. Starts(1)' = 0
    <2>1. CASE 1 \in DOMAIN file
        BY <1>2, <1>3, <2>1 DEF Starts, Contiguous
    <2>2. CASE 1 \notin DOMAIN file
        <3>1. Len(file) = 0 /\ Position = 0
            BY <1>3, <2>2 DEF Starts, Contiguous
        <3> QED
            BY <1>2, <1>3, <3>1 DEF Starts
    <2> QED
        BY <2>1, <2>2
<1>6. ASSUME NEW i \in DOMAIN file' PROVE (EndOf(i) = Starts(i + 1))'
    <2>1. CASE i = Len(file) + 1
        BY <1>2, <1>3, <1>4, <2>1 DEF Starts, EndOf
    <2>2. CASE i = Len(file)
        <3>1. i \in DOMAIN file /\ i + 1 = Len(file) + 1 /\ i + 1 \in DOMAIN file' /\ i + 1 \notin DOMAIN file
            BY <1>3, <2>2
        <3>2. EndOf(i) = Position
            BY <3>1 DEF Contiguous, Starts
        <3> QED
            BY <1>2, <3>1, <3>2 DEF Starts, EndOf
    <2>3. CASE i < Len(file)
        <3>1. i \in DOMAIN file /\ i + 1 \in DOMAIN file /\ i + 1 \in DOMAIN file'
            BY <1>3, <2>3
        <3>2. EndOf(i) = file[i + 1].at
            BY <3>1 DEF Contiguous, Starts
        <3> QED
            BY <1>2, <3>1, <3>2 DEF Starts, EndOf
    <2> QED
        BY <1>3, <2>1, <2>2, <2>3
<1> QED
    BY <1>5, <1>6 DEF Contiguous

\* The length of an object does not move anything.
LEMMA EndKeeps ==
    ASSUME IInv, EndObject
    PROVE  /\ Keep /\ Len(file') = Len(file) /\ DOMAIN file' = DOMAIN file
           /\ UNCHANGED <<written, readerVars>> /\ ~written
           /\ Position' = Position
PROOF
<1> DEFINE i == open[Len(open)]
           x == PosLen(file[i].at + TagLen)
<1>1. /\ file \in Seq(Fields) /\ open \in Seq(Nat)
      /\ file' = [file EXCEPT ![i].len = x]
      /\ open # << >> /\ ~written /\ UNCHANGED <<written, readerVars>>
    BY DEF IInv, TypeInv, EndObject
<1>2. file' \in Seq(Fields)
    BY EndObjectInv DEF IInv, TypeInv
<1>3. DOMAIN file' = DOMAIN file /\ Len(file') = Len(file) /\ Len(file) \in Nat
    <2> HIDE DEF i, x
    <2>1. DOMAIN file' = DOMAIN file
        BY <1>1
    <2> QED
        BY <1>1, <1>2, <2>1
<1>4. ASSUME NEW j \in DOMAIN file
      PROVE  /\ file'[j].kind = file[j].kind /\ file'[j].at = file[j].at
             /\ file'[j].size = file[j].size /\ file'[j].str = file[j].str
             /\ file'[j].ref = file[j].ref
    <2>1. file[j] \in Fields
        BY <1>1
    <2>2. file'[j] = file[j] \/ file'[j] = [file[j] EXCEPT !.len = x]
        <3> HIDE DEF i, x
        <3> QED
            BY <1>1
    <2> HIDE DEF x
    <2> QED
        BY <2>1, <2>2 DEF Fields
<1>5. Keep
    BY <1>3, <1>4 DEF Keep
<1>6. Position' = Position
    <2>1. CASE file = << >>
        BY <1>1, <1>2, <1>3, <2>1 DEF Position
    <2>2. CASE file # << >>
        <3>1. file' # << >> /\ Len(file) \in DOMAIN file
            BY <1>1, <1>2, <1>3, <2>2
        <3> QED
            BY <1>3, <1>4, <2>2, <3>1 DEF Position, EndOf
    <2> QED
        BY <2>1, <2>2
<1> QED
    BY <1>1, <1>3, <1>5, <1>6

\* ... nor does it make a gap.
LEMMA EndContiguous ==
    ASSUME IInv, Contiguous, EndObject
    PROVE  Contiguous'
PROOF
<1>1. /\ DOMAIN file' = DOMAIN file /\ Position' = Position
      /\ \A i \in DOMAIN file : file'[i].at = file[i].at /\ file'[i].size = file[i].size
    BY EndKeeps DEF Keep
<1>2. \A k : Starts(k)' = Starts(k)
    BY <1>1 DEF Starts
<1> QED
    BY <1>1, <1>2 DEF Contiguous, EndOf

\* The items in the file are those of the calls so far, L those of all calls.
Left(L) ==
    /\ todo \in Seq(CallSet)
    /\ Len(L) = Len(file) + Len(Items(todo))
    /\ \A j \in 1 .. Len(Items(todo)) : L[Len(file) + j] = Items(todo)[j]
Done(L) ==
    /\ says = [i \in 1 .. Len(file) |-> Said(L[i])]
    /\ \A i \in 1 .. Len(file) : ItemOf(L[i], file[i])
Stops ==
    /\ broken # "no" => todo # << >> /\ Failed(Head(todo)) /\ Head(todo).why = broken
    /\ written => todo = << >> \/ broken # "no"
Writes(L) == Left(L) /\ Done(L) /\ Stops

\* The next call and those behind it.
LEMMA TodoSplits ==
    ASSUME todo \in Seq(CallSet), todo # << >>
    PROVE  /\ Head(todo) \in CallSet /\ Tail(todo) \in Seq(CallSet)
           /\ Items(todo) \in Seq(CallSet) /\ Items(Tail(todo)) \in Seq(CallSet)
           /\ Head(todo).op = "end" => Items(todo) = Items(Tail(todo))
           /\ Head(todo).op # "end" =>
                /\ Len(Items(todo)) = 1 + Len(Items(Tail(todo)))
                /\ Items(todo)[1] = Head(todo)
                /\ \A j \in 1 .. Len(Items(Tail(todo))) : Items(todo)[1 + j] = Items(Tail(todo))[j]
PROOF
<1> DEFINE op == Head(todo)
           t == Tail(todo)
<1>1. op \in CallSet /\ t \in Seq(CallSet) /\ todo = <<op>> \o t
    BY HeadTail
<1> HIDE DEF op, t
<1>2. /\ Items(todo) = IF op.op = "end" THEN Items(t) ELSE <<op>> \o Items(t)
      /\ Items(t) \in Seq(CallSet)
    BY <1>1, ItemsAre
<1>3. Items(todo) \in Seq(CallSet)
    BY ItemsAre
<1>4. ASSUME op.op # "end"
      PROVE  /\ Len(Items(todo)) = 1 + Len(Items(t))
             /\ Items(todo)[1] = op
             /\ \A j \in 1 .. Len(Items(t)) : Items(todo)[1 + j] = Items(t)[j]
    <2> DEFINE h == <<op>>
               r == Items(t)
    <2>1. h \in Seq(CallSet) /\ Len(h) = 1 /\ h[1] = op
        BY <1>1
    <2>2. r \in Seq(CallSet) /\ Items(todo) = h \o r
        BY <1>2, <1>4
    <2> HIDE DEF h, r
    <2>3. /\ Len(h \o r) = Len(h) + Len(r)
          /\ \A i \in 1 .. Len(h) : (h \o r)[i] = h[i]
          /\ \A i \in 1 .. Len(r) : (h \o r)[Len(h) + i] = r[i]
        <3>1. h \in Seq(CallSet) /\ r \in Seq(CallSet)
            BY <2>1, <2>2
        <3> QED
            BY <3>1, Joined
    <2>4. 1 \in 1 .. Len(h)
        BY <2>1
    <2>5. (h \o r)[1] = h[1]
        BY <2>3, <2>4
    <2>6. Len(h \o r) = 1 + Len(r) /\ \A j \in 1 .. Len(r) : (h \o r)[1 + j] = r[j]
        BY <2>1, <2>3
    <2>7. /\ Len(Items(todo)) = 1 + Len(r) /\ Items(todo)[1] = op
          /\ \A j \in 1 .. Len(r) : Items(todo)[1 + j] = r[j]
        BY <2>1, <2>2, <2>5, <2>6
    <2> QED
        BY <2>7 DEF r
<1> QED
    BY <1>1, <1>2, <1>3, <1>4 DEF op, t

\* The next call is the one behind the items there are.
LEMMA NextCall ==
    ASSUME TypeInv, NEW L \in Seq(CallSet), Left(L), todo # << >>, Head(todo).op # "end"
    PROVE  Len(file) + 1 \in 1 .. Len(L) /\ L[Len(file) + 1] = Head(todo)
PROOF
<1>1. /\ Len(Items(todo)) = 1 + Len(Items(Tail(todo))) /\ Items(todo)[1] = Head(todo)
      /\ Items(Tail(todo)) \in Seq(CallSet)
    BY TodoSplits DEF Left
<1>2. Len(file) \in Nat /\ Len(Items(Tail(todo))) \in Nat
    BY <1>1 DEF TypeInv
<1>3. 1 \in 1 .. Len(Items(todo))
    BY <1>1, <1>2
<1>4. L[Len(file) + 1] = Items(todo)[1]
    BY <1>3 DEF Left
<1> QED
    BY <1>1, <1>2, <1>4 DEF Left

\* A call, an end, a failure or a close keeps the file and the calls in step ...
LEMMA WriteNextWrites ==
    ASSUME IInv, NEW L \in Seq(CallSet), Writes(L), WriteNext
    PROVE  Writes(L)'
PROOF
<1> DEFINE op == Head(todo)
           n == Len(file)
           m == n + 1
<1>1. /\ todo # << >> /\ broken = "no" /\ op.op \notin {"end", "fail"}
      /\ Call(op)
      /\ todo' = Tail(todo) /\ says' = Append(says, Said(op))
      /\ UNCHANGED broken
    BY DEF WriteNext
<1>2. TypeInv /\ Layout /\ OpenInv /\ BlobInv
    BY DEF IInv
<1>3. op \in CallSet
    BY <1>1, TodoSplits DEF Writes, Left
<1>4. PICK item \in Fields :
        /\ item.at = Position /\ item.size > 0
        /\ item.kind = "blob" => item.len = item.size - BlobHeaderLen + 1
        /\ Extend(item)
        /\ ItemOf(op, item)
    BY <1>1, <1>3, CallExtends
<1>5. ~written'
    BY <1>1, <1>3, CallExtends
<1>6. /\ Len(file') = m /\ file'[m] = item /\ n \in Nat
      /\ \A i \in 1 .. n : file'[i] = file[i]
    BY <1>2, <1>4, ExtendKeeps DEF TypeInv
<1>7. m \in 1 .. Len(L) /\ L[m] = op
    BY <1>1, <1>2, NextCall DEF Writes
<1>8. /\ Items(Tail(todo)) \in Seq(CallSet) /\ Tail(todo) \in Seq(CallSet)
      /\ Len(Items(todo)) = 1 + Len(Items(Tail(todo)))
      /\ \A j \in 1 .. Len(Items(Tail(todo))) : Items(todo)[1 + j] = Items(Tail(todo))[j]
    BY <1>1, TodoSplits DEF Writes, Left
<1> HIDE DEF op, n, m
<1>9. Left(L)'
    <2> DEFINE r == Items(Tail(todo))
               q == Items(todo)
    <2>1. Len(r) \in Nat
        BY <1>8
    <2>2. Len(L) = n + Len(q) /\ \A j \in 1 .. Len(q) : L[n + j] = q[j]
        BY DEF Writes, Left, n
    <2> HIDE DEF r, q
    <2>3. Len(L) = m + Len(r)
        BY <1>6, <1>8, <2>1, <2>2 DEF m, r, q
    <2>4. ASSUME NEW j \in 1 .. Len(r) PROVE L[m + j] = r[j]
        <3> DEFINE k == 1 + j
        <3>1. k \in 1 .. Len(q) /\ n + k = m + j
            BY <1>6, <1>8, <2>1 DEF m, r, q
        <3>2. L[n + k] = q[k]
            BY <2>2, <3>1
        <3>3. q[k] = r[j]
            BY <1>8 DEF r, q
        <3> HIDE DEF k
        <3> QED
            BY <3>1, <3>2, <3>3
    <2> QED
        BY <1>1, <1>6, <1>8, <2>3, <2>4 DEF Left, r
<1>10. says' = [i \in 1 .. m |-> Said(L[i])]
    <2> DEFINE X == {Said(c) : c \in CallSet}
               g == [i \in 1 .. n |-> Said(L[i])]
               x == Said(op)
    <2>1. \A i \in 1 .. m : i \in 1 .. Len(L) /\ L[i] \in CallSet
        BY <1>6, <1>7 DEF m
    <2>2. \A i \in 1 .. n : i \in 1 .. m
        BY <1>6 DEF m
    <2>3. x \in X /\ g \in [1 .. n -> X]
        BY <1>3, <2>1, <2>2
    <2>4. g \in Seq(X) /\ Len(g) = n
        <3> HIDE DEF g, X
        <3> QED
            BY <1>6, <2>3, SeqIs
    <2>5. says = g
        BY DEF Writes, Done, n
    <2>6. \A i \in 1 .. n : g[i] = Said(L[i])
        OBVIOUS
    <2>7. x = Said(L[m])
        BY <1>7
    <2> HIDE DEF g, X, x
    <2>8. Append(g, x) = [i \in 1 .. n + 1 |-> IF i = n + 1 THEN x ELSE g[i]]
        BY <2>3, <2>4, AppendIs
    <2>9. \A i \in 1 .. m : (IF i = m THEN x ELSE g[i]) = Said(L[i])
        BY <1>6, <2>6, <2>7 DEF m
    <2>10. says' = Append(g, x)
        BY <1>1, <2>5 DEF x
    <2> QED
        BY <2>8, <2>9, <2>10 DEF m
<1>11. Done(L)'
    <2>1. \A i \in 1 .. n : ItemOf(L[i], file[i])
        BY DEF Writes, Done, n
    <2>2. \A i \in 1 .. m : i = m \/ i \in 1 .. n
        BY <1>6 DEF m
    <2>3. ASSUME NEW i \in 1 .. m PROVE ItemOf(L[i], file'[i])
        BY <1>4, <1>6, <1>7, <2>1, <2>2
    <2> QED
        BY <1>6, <1>10, <2>3 DEF Done, ItemOf
<1>12. Stops'
    BY <1>1, <1>5 DEF Stops
<1> QED
    BY <1>9, <1>11, <1>12 DEF Writes

\* ... an object ends ...
LEMMA WriteEndWrites ==
    ASSUME IInv, NEW L \in Seq(CallSet), Writes(L), WriteEnd
    PROVE  Writes(L)'
PROOF
<1>1. /\ todo # << >> /\ broken = "no" /\ Head(todo).op = "end" /\ EndObject
      /\ todo' = Tail(todo) /\ UNCHANGED <<says, broken>>
    BY DEF WriteEnd
<1>2. Keep /\ Len(file') = Len(file) /\ DOMAIN file' = DOMAIN file /\ ~written'
    BY <1>1, EndKeeps
<1>3. Tail(todo) \in Seq(CallSet) /\ Items(todo) = Items(Tail(todo))
    BY <1>1, TodoSplits DEF Writes, Left
<1>4. Left(L)'
    BY <1>1, <1>2, <1>3 DEF Writes, Left
<1>5. Done(L)'
    <2>1. DOMAIN file = 1 .. Len(file)
        BY DEF IInv, TypeInv
    <2>2. \A i \in 1 .. Len(file) : ItemOf(L[i], file[i]) => ItemOf(L[i], file'[i])
        BY <1>2, <2>1 DEF ItemOf, Keep
    <2>3. \A i \in 1 .. Len(file') : ItemOf(L[i], file'[i])
        BY <1>2, <2>2 DEF Writes, Done
    <2>4. says' = [i \in 1 .. Len(file') |-> Said(L[i])]
        BY <1>1, <1>2 DEF Writes, Done
    <2> QED
        BY <2>3, <2>4 DEF Done, ItemOf
<1>6. Stops'
    BY <1>1, <1>2 DEF Stops
<1> QED
    BY <1>4, <1>5, <1>6 DEF Writes

\* ... the writing stops ...
LEMMA WriteStopsWrites ==
    ASSUME NEW L \in Seq(CallSet), Writes(L), WriteFails \/ Close
    PROVE  Writes(L)'
PROOF
<1>1. UNCHANGED <<file, todo, says>>
    BY DEF WriteFails, Close, vars, writerVars, treeVars
<1>2. Left(L)' /\ Done(L)'
    BY <1>1 DEF Writes, Left, Done, ItemOf
<1>3. Stops'
    <2>1. CASE WriteFails
        BY <2>1 DEF WriteFails, Stops, vars, writerVars, Failed, Writes
    <2>2. CASE Close
        BY <2>2 DEF Close, Stops, treeVars, Writes
    <2> QED
        BY <2>1, <2>2
<1> QED
    BY <1>2, <1>3 DEF Writes

\* ... and a reader does not write.
LEMMA ReaderWrites ==
    ASSUME NEW L \in Seq(CallSet), Writes(L), UNCHANGED <<writerVars, todo, says, broken>>
    PROVE  Writes(L)'
    BY DEF Writes, Left, Done, ItemOf, Stops, writerVars

-----------------------------------------------------------------------------
(* Reading a tree *)

\* The reader has read the first k items of L, and expects S[k].
ReadTo(L, S, k) ==
    /\ expect = S[k]
    /\ got = Told(First(L, k))
    /\ resolved = << >> => pos = Starts(k + 1)

\* A reader between two items is in front of exactly one.
LEMMA HereIs ==
    ASSUME TypeInv, Layout, NEW k \in 0 .. Len(file), pos = Starts(k + 1)
    PROVE  /\ \A i \in Here : i = k + 1 /\ k < Len(file)
           /\ k < Len(file) => k + 1 \in Here
PROOF
<1>1. DOMAIN file = 1 .. Len(file) /\ Len(file) \in Nat
    BY DEF TypeInv
<1>2. ASSUME NEW i \in Here PROVE i = k + 1 /\ k < Len(file)
    <2>1. i \in DOMAIN file /\ file[i].at = pos /\ file[i].at \in Nat /\ file[i].size \in Nat /\ file[i].size > 0
        BY ItemType DEF Here, Layout
    <2>2. k < Len(file)
        <3>a. k < Len(file) \/ k = Len(file)
            <4>1. \A n \in Nat : \A m \in 0 .. n : m < n \/ m = n
                OBVIOUS
            <4> QED
                BY <1>1, <4>1
        <3> SUFFICES ASSUME k = Len(file) PROVE FALSE
            BY <3>a
        <3> DEFINE j == k + 1
        <3>0. j \notin DOMAIN file
            BY <1>1
        <3>3. pos = Starts(j)
            OBVIOUS
        <3> HIDE DEF j
        <3>4. pos = Position
            BY <3>0, <3>3 DEF Starts
        <3>1. pos = Position /\ Position \in Nat
            BY <3>4, PositionBehind
        <3>2. file[i].at + file[i].size <= Position
            BY <2>1, PositionBehind
        <3> QED
            BY <2>1, <3>1, <3>2
    <2> DEFINE j == k + 1
    <2>3. j \in DOMAIN file
        BY <1>1, <2>2
    <2>4. file[j].at = pos /\ file[j].at \in Nat /\ file[j].size \in Nat /\ file[j].size > 0
        BY <2>3, ItemType DEF Starts, Layout
    <2> HIDE DEF j
    <2>5. ~(i < j) /\ ~(j < i)
        BY <2>1, <2>3, <2>4 DEF Layout
    <2>6. i = j
        BY <1>1, <2>1, <2>3, <2>5
    <2> QED
        BY <2>2, <2>6 DEF j
<1>3. k < Len(file) => k + 1 \in Here
    BY <1>1 DEF Here, Starts
<1> QED
    BY <1>2, <1>3

\* The call of an item, and what kind of item it is.
LEMMA CallIsRead ==
    ASSUME TypeInv, NEW L \in Seq(CallSet), NEW S, Follows(<<"object">>, L, S), Writes(L),
           NEW i \in 1 .. Len(file)
    PROVE  /\ i \in 1 .. Len(L) /\ L[i] \in CallSet /\ ~Failed(L[i])
           /\ Advances(L[i], S[i - 1], S[i]) /\ Announced(L, i)
           /\ ItemOf(L[i], file[i]) /\ says[i] = Said(L[i])
           /\ i - 1 \in 0 .. Len(L) /\ S[i - 1] \in Stacks /\ S[i] \in Stacks
PROOF
<1>1. /\ Items(todo) \in Seq(CallSet) /\ Len(L) = Len(file) + Len(Items(todo))
      /\ Len(file) \in Nat /\ Len(Items(todo)) \in Nat
    <2>1. Items(todo) \in Seq(CallSet)
        BY ItemsAre DEF Writes, Left
    <2> QED
        BY <2>1 DEF Writes, Left, TypeInv
<1>2. i \in 1 .. Len(L) /\ i - 1 \in 0 .. Len(L) /\ i \in 0 .. Len(L) /\ 1 .. i - 1 \subseteq 1 .. Len(file)
    BY <1>1
<1>3. \A j \in 1 .. Len(file) : ItemOf(L[j], file[j]) /\ ~Failed(L[j])
    BY DEF Writes, Done, ItemOf, Failed
<1>4. Moves(L, i, S[i - 1], S[i]) /\ S[i - 1] \in Stacks /\ S[i] \in Stacks
    BY <1>2 DEF Follows
<1>5. ~Breaks(L, i, S[i - 1])
    <2>1. ~ \E j \in 1 .. i - 1 : Failed(L[j])
        BY <1>2, <1>3
    <2> QED
        BY <1>3, <2>1, Zenon DEF Breaks
<1>6. says[i] = Said(L[i])
    BY DEF Writes, Done
<1> QED
    BY <1>2, <1>3, <1>4, <1>5, <1>6 DEF Moves

\* What kinds of items the calls leave.
LEMMA KindIs ==
    ASSUME NEW op, NEW item, ItemOf(op, item)
    PROVE  /\ item.kind \in {"string", "reference"} => op.op = "string"
           /\ item.kind = "plain" => op.op \in {"plain", "sound"}
           /\ item.kind = "object" => op.op = "begin"
           /\ item.kind = "blob" => op.op = "data"
           /\ item.kind \in {"string", "reference", "plain", "object", "blob"}
PROOF
<1>1. CASE op.op = "string"
    <2>1. item.kind \in {"string", "reference"}
        BY <1>1, Zenon DEF ItemOf
    <2> QED
        BY <1>1, <2>1
<1>2. CASE op.op \in {"plain", "sound"}
    <2>1. item.kind = "plain"
        BY <1>2, Zenon DEF ItemOf
    <2> QED
        BY <1>2, <2>1
<1>3. CASE op.op = "begin"
    <2>1. item.kind = "object"
        BY <1>3, Zenon DEF ItemOf
    <2> QED
        BY <1>3, <2>1
<1>4. CASE op.op = "data"
    <2>1. item.kind = "blob"
        BY <1>4, Zenon DEF ItemOf
    <2> QED
        BY <1>4, <2>1
<1>5. op.op \in {"string", "plain", "sound", "begin", "data"}
    BY Zenon DEF ItemOf
<1> QED
    BY <1>1, <1>2, <1>3, <1>4, <1>5

\* A reader that takes an item goes to the next.
LEMMA ReadOn ==
    ASSUME TypeInv, Layout, Contiguous, NEW L \in Seq(CallSet), NEW S, Follows(<<"object">>, L, S), Writes(L),
           NEW k \in 0 .. Len(file), ReadTo(L, S, k), resolved = << >>, NEW i \in Here,
           expect' = Behind(L[i], Head(expect)) \o Tail(expect), got' = got \o Content(L[i]),
           pos' = EndOf(i), UNCHANGED <<writerVars, resolved>>
    PROVE  i \in 0 .. Len(file) /\ ReadTo(L, S, i)'
PROOF
<1>1. i = k + 1 /\ k < Len(file) /\ Len(file) \in Nat /\ i \in DOMAIN file
    <2>1. pos = Starts(k + 1)
        BY DEF ReadTo
    <2>2. i = k + 1 /\ k < Len(file)
        BY <2>1, HereIs
    <2> QED
        BY <2>2 DEF TypeInv, Here
<1>2. i \in 1 .. Len(file) /\ i - 1 = k /\ i \in 0 .. Len(file)
    BY <1>1
<1>3. /\ Advances(L[i], S[k], S[i]) /\ L[i] \in CallSet /\ i \in 1 .. Len(L) /\ k \in 0 .. Len(L)
    BY <1>2, CallIsRead
<1>4. expect' = S[i]
    BY <1>3 DEF Advances, ReadTo
<1>5. got' = Told(First(L, i))
    <2>1. k < Len(L)
        BY <1>2, <1>3
    <2>2. First(L, k) \in Seq(CallSet) /\ First(L, k + 1) = Append(First(L, k), L[k + 1])
        BY <1>3, <2>1, FirstAre
    <2>3. Told(Append(First(L, k), L[i])) = Told(First(L, k)) \o Content(L[i])
        BY <1>3, <2>2, ToldMore
    <2> QED
        BY <1>1, <2>2, <2>3 DEF ReadTo
<1>6. pos' = Starts(i + 1)'
    <2>1. EndOf(i) = Starts(i + 1)
        BY <1>1 DEF Contiguous
    <2>2. Starts(i + 1)' = Starts(i + 1)
        BY DEF Starts, Position, EndOf, writerVars
    <2> QED
        BY <2>1, <2>2
<1> QED
    BY <1>2, <1>4, <1>5, <1>6 DEF ReadTo

\* What a reading of item i amounts to.
TakesItem(L, i) ==
    /\ expect' = Behind(L[i], Head(expect)) \o Tail(expect)
    /\ got' = got \o Content(L[i])
    /\ pos' = EndOf(i)
    /\ UNCHANGED <<writerVars, skipped, resolved>>
    /\ UNCHANGED <<tree, todo, says, broken, readError>>

\* What has been read are entries.
LEMMA TookIs ==
    ASSUME NEW L \in Seq(CallSet), NEW k \in 0 .. Len(L)
    PROVE  Told(First(L, k)) \in Seq(Entries)
PROOF
<1>1. First(L, k) \in Seq(CallSet)
    BY FirstAre
<1>2. Begin \in CallSet
    BY CallIs
<1> QED
    BY <1>1, <1>2, ToldMore

\* To append one entry is to join it.
LEMMA AppendJoins ==
    ASSUME NEW s \in Seq(Entries), NEW x \in Entries
    PROVE  Append(s, x) = s \o <<x>>
    OBVIOUS

\* The string an item stands for is the one its call has.
LEMMA StringIsRead ==
    ASSUME IInv, NEW L \in Seq(CallSet), NEW i \in DOMAIN file, ItemOf(L[i], file[i]),
           \/ file[i].kind = "string"
           \/ file[i].kind = "reference" /\ file[i].ref \in DOMAIN offsets
    PROVE  IsString(i) /\ L[i].op = "string" /\ StringAt(i) = L[i].str
PROOF
<1>1. L[i].op = "string" /\ file[i].str = L[i].str
    BY DEF ItemOf
<1>2. CASE file[i].kind = "string"
    BY <1>1, <1>2 DEF IsString, StringAt
<1>3. CASE file[i].kind = "reference" /\ file[i].ref \in DOMAIN offsets
    <2>1. offsets[file[i].ref] = file[i].str
        BY <1>3, ReferenceIsString
    <2> QED
        BY <1>1, <1>3, <2>1 DEF IsString, StringAt
<1> QED
    BY <1>2, <1>3

\* A string or a reference is read as its call.
LEMMA ReadsString ==
    ASSUME IInv, Contiguous, NEW L \in Seq(CallSet), NEW S, Follows(<<"object">>, L, S), Writes(L),
           NEW k \in 0 .. Len(file), ReadTo(L, S, k), TreeReadString
    PROVE  (ReadString \/ ReadReference) /\ \E i \in Here : TakesItem(L, i)
PROOF
<1>1. TypeInv /\ Layout
    BY DEF IInv
<1>2. PICK i \in Here :
        /\ TreeReading /\ Fits(i)
        /\ ReadString \/ ReadReference
        /\ got' = Append(got, [what |-> "string", val |-> StringAt(i)])
        /\ expect' = (IF Next1 = "object" THEN BehindType(StringAt(i)) ELSE << >>)
                       \o Tail(expect)
        /\ UNCHANGED <<tree, todo, says, broken, readError>>
    BY DEF TreeReadString
<1>3. i = k + 1 /\ i \in 1 .. Len(file) /\ \A j \in Here : j = i
    <2>1. pos = Starts(k + 1)
        BY <1>2 DEF ReadTo, TreeReading, Reading
    <2> QED
        BY <1>1, <2>1, HereIs
<1>4. /\ \/ file[i].kind = "string"
         \/ file[i].kind = "reference" /\ file[i].ref \in DOMAIN offsets
      /\ pos' = EndOf(i)
      /\ UNCHANGED <<writerVars, skipped, resolved>>
    <2>1. CASE ReadString
        BY <1>3, <2>1 DEF ReadString
    <2>2. CASE ReadReference
        BY <1>3, <2>2 DEF ReadReference
    <2> QED
        BY <1>2, <2>1, <2>2
<1>5. L[i].op = "string" /\ StringAt(i) = L[i].str /\ L[i] \in CallSet
    BY <1>1, <1>3, <1>4, CallIsRead, StringIsRead DEF Here
<1>6. expect' = Behind(L[i], Head(expect)) \o Tail(expect)
    BY <1>2, <1>5 DEF Behind, Next1
<1>7. got' = got \o Content(L[i])
    <2>1. Content(L[i]) = <<[what |-> "string", val |-> StringAt(i)]>>
        BY <1>5 DEF Content
    <2>2. [what |-> "string", val |-> StringAt(i)] \in Entries
        BY <1>5, CallTypes DEF Entries
    <2>3. got \in Seq(Entries)
        <3>1. k \in 0 .. Len(L)
            BY <1>1, <1>3, CallIsRead
        <3> QED
            BY <3>1, TookIs DEF ReadTo
    <2> QED
        BY <1>2, <2>1, <2>2, <2>3, AppendJoins
<1> QED
    BY <1>2, <1>4, <1>6, <1>7 DEF TakesItem

\* The one item a reader can take, and its call.
LEMMA ItemRead ==
    ASSUME IInv, NEW L \in Seq(CallSet), NEW S, Follows(<<"object">>, L, S), Writes(L),
           NEW k \in 0 .. Len(file), ReadTo(L, S, k), TreeReading, NEW i \in Here
    PROVE  /\ i = k + 1 /\ i \in DOMAIN file /\ file[i].at = pos
           /\ \A j \in Here : j = i
           /\ L[i] \in CallSet /\ ItemOf(L[i], file[i]) /\ says[i] = Said(L[i])
           /\ got \in Seq(Entries)
PROOF
<1>1. TypeInv /\ Layout
    BY DEF IInv
<1>2. pos = Starts(k + 1)
    BY DEF ReadTo, TreeReading, Reading
<1>3. i = k + 1 /\ \A j \in Here : j = i
    BY <1>1, <1>2, HereIs
<1>4. i \in DOMAIN file /\ file[i].at = pos
    BY DEF Here
<1>5. i \in 1 .. Len(file) /\ i - 1 = k
    BY <1>1, <1>3, <1>4 DEF TypeInv
<1>6. L[i] \in CallSet /\ ItemOf(L[i], file[i]) /\ says[i] = Said(L[i]) /\ k \in 0 .. Len(L)
    BY <1>1, <1>5, CallIsRead
<1>7. got \in Seq(Entries)
    BY <1>6, TookIs DEF ReadTo
<1> QED
    BY <1>3, <1>4, <1>6, <1>7

\* What is expected is a stack.
LEMMA ExpectIs ==
    ASSUME TypeInv, NEW L \in Seq(CallSet), NEW S, Follows(<<"object">>, L, S), Writes(L),
           NEW k \in 0 .. Len(file), ReadTo(L, S, k)
    PROVE  expect \in Stacks /\ k \in 0 .. Len(L)
PROOF
<1>1. /\ Items(todo) \in Seq(CallSet) /\ Len(L) = Len(file) + Len(Items(todo))
      /\ Len(file) \in Nat /\ Len(Items(todo)) \in Nat
    <2>1. Items(todo) \in Seq(CallSet)
        BY ItemsAre DEF Writes, Left
    <2> QED
        BY <2>1 DEF Writes, Left, TypeInv
<1>2. k \in 0 .. Len(L)
    BY <1>1
<1> QED
    BY <1>2 DEF Follows, ReadTo

\* What an entry of a plain item is, and how far it goes.
LEMMA PlainIsRead ==
    ASSUME NEW op \in CallSet, NEW i, op.op \in {"plain", "sound"}, ItemOf(op, file[i]), says[i] = Said(op),
           NEW w, NEW v, w = says[i].what, v = DecValue(w, says[i].bytes)
    PROVE  /\ Takes(i) = file[i].size
           /\ Content(op) = <<[what |-> w, val |-> v]>>
           /\ [what |-> w, val |-> v] \in Entries
           /\ \A h : Behind(op, h) = BehindPlain(w, v)
PROOF
<1>1. CASE op.op = "plain"
    <2> DEFINE u == op.what
               x == op.val
    <2>1. u \in Whats /\ x \in ValuesOf(u) /\ file[i].size = SizeOf(u, x)
        BY <1>1, CallTypes, Zenon DEF ItemOf
    <2>2. x \in Values
        BY <1>1 DEF CallSet
    <2>3. w = u /\ says[i].bytes = EncValue(u, x)
        <3>1. Said(op) = [what |-> u, bytes |-> EncValue(u, x)]
            BY <1>1, Zenon DEF Said
        <3> QED
            BY <3>1
    <2>4. v = x
        BY <2>1, <2>3, ValueIsRead
    <2>5. Content(op) = <<[what |-> u, val |-> x]>> /\ \A h : Behind(op, h) = BehindPlain(u, x)
        <3>1. Content(op) = <<[what |-> u, val |-> x]>>
            BY <1>1 DEF Content
        <3>2. \A h : Behind(op, h) = BehindPlain(u, x)
            BY <1>1 DEF Behind
        <3> QED
            BY <3>1, <3>2
    <2>6. [what |-> u, val |-> x] \in Entries
        <3> HIDE DEF u, x
        <3> QED
            BY <2>1, <2>2 DEF Entries
    <2>7. Takes(i) = file[i].size
        <3>1. CASE u \in Compressed
            BY <2>1, <2>3, <3>1, ValueSize DEF Takes
        <3>2. CASE u \notin Compressed
            BY <2>3, <3>2 DEF Takes
        <3> QED
            BY <3>1, <3>2
    <2> HIDE DEF u, x
    <2>8. /\ Takes(i) = file[i].size
          /\ Content(op) = <<[what |-> w, val |-> v]>>
          /\ [what |-> w, val |-> v] \in Entries
          /\ \A h : Behind(op, h) = BehindPlain(w, v)
        BY <2>3, <2>4, <2>5, <2>6, <2>7
    <2> QED
        BY <2>8
<1>2. CASE op.op = "sound"
    <2> DEFINE n == op.size
    <2>1. n \in Nat
        BY <1>2, CallTypes
    <2>2. w = "soundData" /\ says[i].bytes = <<n>>
        <3>1. Said(op) = [what |-> "soundData", bytes |-> <<n>>]
            BY <1>2, Zenon DEF Said
        <3> QED
            BY <3>1
    <2>3. v = n
        BY <2>2 DEF DecValue, Unsigned, Compressed, Flags, OnlyMagic
    <2>4. Content(op) = <<[what |-> "soundData", val |-> n]>>
        BY <1>2 DEF Content
    <2>5. \A h : Behind(op, h) = << >>
        BY <1>2 DEF Behind
    <2>6. BehindPlain("soundData", n) = << >>
        BY DEF BehindPlain
    <2>7. [what |-> "soundData", val |-> n] \in Entries
        <3> HIDE DEF n
        <3> QED
            BY <2>1 DEF Entries
    <2>8. Takes(i) = file[i].size
        BY <2>2 DEF Takes, Compressed
    <2> HIDE DEF n
    <2>9. /\ Takes(i) = file[i].size
          /\ Content(op) = <<[what |-> w, val |-> v]>>
          /\ [what |-> w, val |-> v] \in Entries
          /\ \A h : Behind(op, h) = BehindPlain(w, v)
        BY <2>2, <2>3, <2>4, <2>5, <2>6, <2>7, <2>8
    <2> QED
        BY <2>9
<1> QED
    BY <1>1, <1>2

\* A value, a number, a header or the data of a sound is read as its call.
LEMMA ReadsPlain ==
    ASSUME IInv, NEW L \in Seq(CallSet), NEW S, Follows(<<"object">>, L, S), Writes(L),
           NEW k \in 0 .. Len(file), ReadTo(L, S, k), TreeReadPlain
    PROVE  ReadPlain /\ \E i \in Here : TakesItem(L, i)
PROOF
<1>1. PICK i \in Here :
        /\ TreeReading /\ file[i].kind = "plain"
        /\ pos' = pos + Takes(i)
        /\ LET v == DecValue(says[i].what, says[i].bytes)
           IN  /\ got' = Append(got, [what |-> says[i].what, val |-> v])
               /\ expect' = BehindPlain(says[i].what, v) \o Tail(expect)
        /\ UNCHANGED <<writerVars, offsets, read, skipped, failed, resolved>>
        /\ UNCHANGED <<tree, todo, says, broken, readError>>
    BY DEF TreeReadPlain
<1> DEFINE w == says[i].what
           v == DecValue(w, says[i].bytes)
           x == [what |-> w, val |-> v]
<1>2. /\ file[i].at = pos /\ L[i] \in CallSet /\ ItemOf(L[i], file[i]) /\ says[i] = Said(L[i])
      /\ got \in Seq(Entries)
    BY <1>1, ItemRead
<1>3. L[i].op \in {"plain", "sound"}
    BY <1>1, <1>2, KindIs
<1>4. /\ Takes(i) = file[i].size
      /\ Content(L[i]) = <<x>> /\ x \in Entries
      /\ \A h : Behind(L[i], h) = BehindPlain(w, v)
    <2>1. w = says[i].what /\ v = DecValue(w, says[i].bytes)
        OBVIOUS
    <2> HIDE DEF w, v
    <2> QED
        BY <1>2, <1>3, <2>1, PlainIsRead
<1>5. pos' = EndOf(i)
    BY <1>1, <1>2, <1>4 DEF EndOf
<1>6. got' = Append(got, x) /\ expect' = BehindPlain(w, v) \o Tail(expect)
    BY <1>1
<1> HIDE DEF x, w, v
<1>7. got' = got \o Content(L[i])
    BY <1>2, <1>4, <1>6, AppendJoins
<1>8. expect' = Behind(L[i], Head(expect)) \o Tail(expect)
    BY <1>4, <1>6
<1>9. ReadPlain
    BY <1>1, <1>5 DEF ReadPlain, TreeReading
<1> QED
    BY <1>1, <1>5, <1>7, <1>8, <1>9 DEF TakesItem

\* The header of an object is read as its call.
LEMMA ReadsObject ==
    ASSUME IInv, NEW L \in Seq(CallSet), NEW S, Follows(<<"object">>, L, S), Writes(L),
           NEW k \in 0 .. Len(file), ReadTo(L, S, k), TreeReadObject
    PROVE  ReadPlain /\ \E i \in Here : TakesItem(L, i)
PROOF
<1>1. PICK i \in Here :
        /\ TreeReading /\ file[i].kind = "object"
        /\ ReadPlain
        /\ expect' = <<"object">> \o Tail(expect)
        /\ UNCHANGED <<tree, todo, says, broken, got, readError>>
    BY DEF TreeReadObject
<1>2. /\ \A j \in Here : j = i
      /\ L[i] \in CallSet /\ ItemOf(L[i], file[i]) /\ got \in Seq(Entries)
    BY <1>1, ItemRead
<1>3. L[i].op = "begin"
    BY <1>1, <1>2, KindIs
<1>4. Content(L[i]) = << >> /\ \A h : Behind(L[i], h) = <<"object">>
    <2>1. Content(L[i]) = << >>
        BY <1>3 DEF Content
    <2>2. \A h : Behind(L[i], h) = <<"object">>
        BY <1>3 DEF Behind
    <2> QED
        BY <2>1, <2>2
<1>5. got' = got \o Content(L[i])
    <2>1. got \o << >> = got
        BY <1>2
    <2> QED
        BY <1>1, <1>4, <2>1
<1>6. pos' = EndOf(i) /\ UNCHANGED <<writerVars, skipped, resolved>>
    BY <1>1, <1>2 DEF ReadPlain
<1> QED
    BY <1>1, <1>4, <1>5, <1>6 DEF TakesItem

\* The data of a canvas is passed over as long as it was written.
LEMMA SkipsData ==
    ASSUME IInv, NEW L \in Seq(CallSet), NEW S, Follows(<<"object">>, L, S), Writes(L),
           NEW k \in 0 .. Len(file), ReadTo(L, S, k), TreeSkipData
    PROVE  SkipBlob /\ \E i \in Here : TakesItem(L, i)
PROOF
<1>1. PICK i \in Here :
        /\ TreeReading /\ file[i].kind = "blob"
        /\ SkipBlob
        /\ got' = Append(got, [what |-> "data", val |-> DataLen(i)])
        /\ expect' = Tail(expect)
        /\ UNCHANGED <<tree, todo, says, broken, readError>>
    BY DEF TreeSkipData
<1>2. /\ \A j \in Here : j = i
      /\ i \in DOMAIN file
      /\ L[i] \in CallSet /\ ItemOf(L[i], file[i]) /\ got \in Seq(Entries)
    BY <1>1, ItemRead
<1>3. L[i].op = "data"
    BY <1>1, <1>2, KindIs
<1>4. file[i].size = BlobHeaderLen + L[i].size /\ L[i].size \in Nat
    BY <1>2, <1>3, CallTypes DEF ItemOf
<1>5. file[i].len = file[i].size - BlobHeaderLen + 1
    BY <1>1, <1>2 DEF IInv, BlobInv
<1>6. DataLen(i) = L[i].size
    BY <1>4, <1>5 DEF DataLen, BlobHeaderLen
<1>7. Content(L[i]) = <<[what |-> "data", val |-> DataLen(i)]>> /\ \A h : Behind(L[i], h) = << >>
    <2>1. Content(L[i]) = <<[what |-> "data", val |-> L[i].size]>>
        BY <1>3 DEF Content
    <2>2. \A h : Behind(L[i], h) = << >>
        BY <1>3 DEF Behind
    <2> QED
        BY <1>6, <2>1, <2>2
<1>8. [what |-> "data", val |-> DataLen(i)] \in Entries
    BY <1>4, <1>6 DEF Entries
<1>9. got' = got \o Content(L[i])
    BY <1>1, <1>2, <1>7, <1>8, AppendJoins
<1>10. expect' = Behind(L[i], Head(expect)) \o Tail(expect)
    <2>1. << >> \o Tail(expect) = Tail(expect)
        <3>1. expect \in Stacks
            BY ExpectIs DEF IInv
        <3>2. expect # << >>
            BY <1>1 DEF TreeReading
        <3>3. Tail(expect) \in Seq(Expected)
            BY <3>1, <3>2, HeadTail DEF Stacks
        <3> QED
            BY <3>3
    <2> QED
        BY <1>1, <1>7, <2>1
<1>11. pos' = EndOf(i) /\ UNCHANGED <<writerVars, skipped, resolved>>
    BY <1>1, <1>2, BlobEnd DEF SkipBlob
<1> QED
    BY <1>1, <1>9, <1>10, <1>11 DEF TakesItem

-----------------------------------------------------------------------------
(* What has been read of a tree *)

\* The headers of sounds are as long as their readers think.
FitHeaders(L) ==
    \A k \in 1 .. Len(L) : L[k].op = "plain" => HeaderFits(L[k].what, L[k].val)

\* An error is one of a file that is cut short, or of a sound.
ReadInv(L, S) ==
    /\ ~skipped
    /\ \E k \in 0 .. Len(file) : ReadTo(L, S, k)
    /\ ~written => ReadTo(L, S, 0) /\ ~readError /\ resolved = << >>
    /\ readError => broken # "no" \/ ~FitHeaders(L)
    /\ \E k \in Nat : pos = Starts(k)

\* While the tree is written nothing is read.
LEMMA WriterRead ==
    ASSUME TypeInv, TypeInv', Contiguous, Contiguous', NEW L, NEW S, ReadInv(L, S), ~written,
           UNCHANGED <<readerVars, expect, got, readError>>
    PROVE  ReadInv(L, S)'
PROOF
<1>1. ReadTo(L, S, 0) /\ ~readError /\ ~skipped /\ resolved = << >>
    BY DEF ReadInv
<1>2. ~readError' /\ ~skipped' /\ resolved' = << >> /\ pos' = pos
    BY <1>1 DEF readerVars
<1>3. ReadTo(L, S, 0)'
    <2>1. Starts(0 + 1) = 0 /\ Starts(0 + 1)' = 0
        BY DEF Contiguous
    <2>2. pos' = Starts(0 + 1)'
        BY <1>1, <1>2, <2>1 DEF ReadTo
    <2> QED
        BY <1>1, <2>2 DEF ReadTo
<1>4. 0 \in 0 .. Len(file')
    BY DEF TypeInv
<1>5. 1 \in Nat /\ pos' = Starts(1)'
    <2>1. pos = Starts(0 + 1)
        BY <1>1 DEF ReadTo
    <2> QED
        BY <1>2, <2>1 DEF Contiguous
<1> QED
    BY <1>2, <1>3, <1>4, <1>5 DEF ReadInv

\* An item is read.
LEMMA ReaderRead ==
    ASSUME TypeInv, Layout, Contiguous, NEW L \in Seq(CallSet), NEW S,
           Follows(<<"object">>, L, S), Writes(L), ReadInv(L, S), TreeReading,
           NEW i \in Here, TakesItem(L, i)
    PROVE  ReadInv(L, S)'
PROOF
<1>1. resolved = << >> /\ written
    BY DEF TreeReading, Reading
<1>2. PICK k \in 0 .. Len(file) : ReadTo(L, S, k)
    BY DEF ReadInv
<1>3. i \in 0 .. Len(file) /\ ReadTo(L, S, i)'
    BY <1>1, <1>2, ReadOn DEF TakesItem
<1>4. Len(file') = Len(file) /\ written' /\ ~skipped' /\ (readError' => broken' # "no" \/ ~FitHeaders(L))
    BY <1>1 DEF TakesItem, writerVars, ReadInv
<1>5. i + 1 \in Nat /\ pos' = Starts(i + 1)'
    BY <1>1, <1>3 DEF ReadTo, TakesItem, TypeInv
<1> QED
    BY <1>3, <1>4, <1>5 DEF ReadInv, FitHeaders

\* What comes next in a whole file fits what is expected.
LEMMA NextFits ==
    ASSUME IInv, SeenInv, NEW L \in Seq(CallSet), NEW S, Follows(<<"object">>, L, S), Writes(L),
           NEW k \in 0 .. Len(file), ReadTo(L, S, k), ~skipped, TreeReading, broken = "no", FitHeaders(L)
    PROVE  \E i \in Here : Fits(i)
PROOF
<1> DEFINE i == k + 1
           op == L[i]
<1>1. TypeInv /\ Layout /\ written /\ resolved = << >> /\ expect # << >> /\ expect = S[k]
    BY DEF IInv, TreeReading, Reading, ReadTo
<1>2. k # Len(file)
    <2>1. todo = << >>
        BY <1>1 DEF Writes, Stops
    <2>2. Items(todo) = << >>
        BY <2>1, ItemsAre DEF Writes, Left
    <2>3. Len(L) = Len(file)
        BY <1>1, <2>2 DEF Writes, Left, TypeInv
    <2>4. S[Len(L)] = << >>
        BY DEF Follows
    <2> QED
        BY <1>1, <2>3, <2>4
<1>3. i \in Here /\ i \in 1 .. Len(file) /\ i - 1 = k
    <2>1. Len(file) \in Nat /\ pos = Starts(k + 1)
        BY <1>1 DEF TypeInv, ReadTo
    <2>2. k < Len(file) /\ k + 1 \in 1 .. Len(file) /\ (k + 1) - 1 = k
        BY <1>2, <2>1
    <2>3. k + 1 \in Here
        BY <1>1, <2>1, <2>2, HereIs
    <2> QED
        BY <2>2, <2>3
<1>4. /\ op \in CallSet /\ Advances(op, S[k], S[i]) /\ i \in 1 .. Len(L)
      /\ ItemOf(op, file[i]) /\ says[i] = Said(op)
    BY <1>1, <1>3, CallIsRead
<1>5. Matches(op, Next1)
    BY <1>1, <1>4 DEF Advances, Next1
<1> HIDE DEF i, op
<1>6. CASE op.op = "string"
    <2>1. file[i].kind \in {"string", "reference"}
        BY <1>4, <1>6 DEF ItemOf
    <2>2. file[i].kind = "reference" => file[i].ref \in DOMAIN offsets
        BY <1>1, <1>3, KnownReference
    <2>3. i \in DOMAIN file
        BY <1>3 DEF Here
    <2>4. IsString(i) /\ StringAt(i) = op.str
        BY <1>4, <2>1, <2>2, <2>3, StringIsRead DEF op
    <2>5. op.str \in Strings /\ op.str # None
        BY <1>4, <1>6, CallTypes, ImgFileAssumption
    <2>6. TakesString(op.str)
        <3>1. \/ Next1 = "object" /\ op.str \in Types
              \/ Next1 = "vecType" /\ op.str = TypeName.vec
              \/ Next1 \in {"key", "text"}
            BY <1>5, <1>6 DEF Matches
        <3> HIDE DEF Next1
        <3> QED
            BY <2>5, <3>1 DEF TakesString
    <2>7. Fits(i)
        BY <2>4, <2>6, Zenon DEF Fits, IsString
    <2> QED
        BY <1>3, <2>7
<1>7. CASE op.op = "plain"
    <2> DEFINE w == op.what
               v == op.val
    <2>1. file[i].kind = "plain" /\ says[i].what = w /\ says[i].bytes = EncValue(w, v)
        <3>1. Said(op) = [what |-> w, bytes |-> EncValue(w, v)]
            BY <1>7, Zenon DEF Said
        <3>2. file[i].kind = "plain"
            BY <1>4, <1>7, Zenon DEF ItemOf
        <3> QED
            BY <1>4, <3>1, <3>2
    <2>2. w \in Whats /\ v \in ValuesOf(w)
        BY <1>4, <1>7, CallTypes
    <2>3. HeaderFits(w, v)
        BY <1>4, <1>7 DEF FitHeaders, op
    <2>4. Wanted(w)
        BY <1>5, <1>7 DEF Matches, Wanted
    <2>5. HeaderFits(w, says[i].bytes[1])
        <3>1. CASE w = "soundHeader"
            <4>1. says[i].bytes = <<v>>
                BY <2>1, <2>2, <3>1, ValueSize
            <4>2. says[i].bytes[1] = v
                BY <4>1
            <4> QED
                BY <2>3, <4>2
        <3>2. CASE w # "soundHeader"
            BY <3>2 DEF HeaderFits
        <3> QED
            BY <3>1, <3>2
    <2> HIDE DEF w, v
    <2>6. ~IsString(i)
        BY <2>1 DEF IsString
    <2>7. Fits(i)
        BY <2>1, <2>4, <2>5, <2>6, Zenon DEF Fits
    <2> QED
        BY <1>3, <2>7
<1>8. CASE op.op = "sound"
    <2>1. file[i].kind = "plain" /\ says[i].what = "soundData"
        <3>1. Said(op) = [what |-> "soundData", bytes |-> <<op.size>>]
            BY <1>8, Zenon DEF Said
        <3>2. file[i].kind = "plain"
            BY <1>4, <1>8, Zenon DEF ItemOf
        <3> QED
            BY <1>4, <3>1, <3>2
    <2>2. Wanted("soundData")
        BY <1>5, <1>8 DEF Matches, Wanted
    <2>3. HeaderFits("soundData", says[i].bytes[1])
        BY DEF HeaderFits
    <2>4. ~IsString(i)
        BY <2>1 DEF IsString
    <2>5. Fits(i)
        BY <2>1, <2>2, <2>3, <2>4, Zenon DEF Fits
    <2> QED
        BY <1>3, <2>5
<1>9. CASE op.op = "begin"
    <2>1. file[i].kind = "object"
        BY <1>4, <1>9, Zenon DEF ItemOf
    <2>2. Next1 = "value"
        BY <1>5, <1>9 DEF Matches
    <2>3. Fits(i)
        BY <2>1, <2>2 DEF Fits, IsString
    <2> QED
        BY <1>3, <2>3
<1>10. CASE op.op = "data"
    <2>1. file[i].kind = "blob"
        BY <1>4, <1>10, Zenon DEF ItemOf
    <2>2. Next1 = "data"
        BY <1>5, <1>10 DEF Matches
    <2>3. Fits(i)
        BY <2>1, <2>2 DEF Fits, IsString
    <2> QED
        BY <1>3, <2>3
<1>11. op.op \in {"string", "plain", "sound", "begin", "data"}
    BY <1>4, Zenon DEF ItemOf
<1> QED
    BY <1>6, <1>7, <1>8, <1>9, <1>10, <1>11

\* An error is one of a file that is cut short, or of a sound.
LEMMA FailsRead ==
    ASSUME IInv, SeenInv, NEW L \in Seq(CallSet), NEW S, Follows(<<"object">>, L, S), Writes(L),
           ReadInv(L, S), TreeReadFails
    PROVE  ReadInv(L, S)'
PROOF
<1>1. TreeReading /\ ~ \E i \in Here : Fits(i)
    BY DEF TreeReadFails
<1>2. PICK k \in 0 .. Len(file) : ReadTo(L, S, k)
    BY DEF ReadInv
<1>3. broken # "no" \/ ~FitHeaders(L)
    BY <1>1, <1>2, NextFits DEF ReadInv
<1>4. UNCHANGED <<writerVars, readerVars, broken, expect, got>>
    BY DEF TreeReadFails, vars
<1>8. \A n : Starts(n)' = Starts(n)
    BY <1>4 DEF Starts, Position, EndOf, writerVars
<1>5. ReadTo(L, S, k)'
    BY <1>2, <1>4, <1>8 DEF ReadTo, readerVars
<1>9. \E n \in Nat : pos' = Starts(n)'
    BY <1>4, <1>8 DEF ReadInv, readerVars
<1>6. written' /\ ~skipped' /\ Len(file') = Len(file)
    BY <1>1, <1>4 DEF TreeReading, Reading, ReadInv, writerVars, readerVars
<1>7. broken' # "no" \/ ~FitHeaders(L)
    BY <1>3, <1>4
<1> QED
    BY <1>5, <1>6, <1>7, <1>9 DEF ReadInv, FitHeaders

\* Where the position is after a lookup of the resolver does not matter.
LEMMA ResolverRead ==
    ASSUME NEW L, NEW S, ReadInv(L, S), written, resolved' # << >>, NEW i \in DOMAIN file,
           pos' = EndOf(i), TypeInv, Contiguous, UNCHANGED <<writerVars, skipped, broken, expect, got, readError>>
    PROVE  ReadInv(L, S)'
PROOF
<1>1. PICK k \in 0 .. Len(file) : ReadTo(L, S, k)
    BY DEF ReadInv
<1>2. ReadTo(L, S, k)' /\ Len(file') = Len(file) /\ written'
    BY <1>1 DEF ReadTo, writerVars
<1>3. i + 1 \in Nat /\ pos' = Starts(i + 1)'
    <2>1. EndOf(i) = Starts(i + 1)
        BY DEF Contiguous
    <2>2. Starts(i + 1)' = Starts(i + 1)
        BY DEF Starts, Position, EndOf, writerVars
    <2> QED
        BY <2>1, <2>2 DEF TypeInv
<1> QED
    BY <1>1, <1>2, <1>3 DEF ReadInv, FitHeaders

\* The data of a sound is as long as its header says.
LEMMA SoundIsOwn ==
    ASSUME IInv, NEW L \in Seq(CallSet), NEW S, Follows(<<"object">>, L, S), Writes(L),
           NEW i \in DOMAIN file, says[i] # None, says[i].what = "soundData"
    PROVE  /\ file[i].kind = "plain" /\ file[i].at \in Nat /\ file[i].size \in Nat
           /\ Smaller(says[i - 1].bytes[1].size, Position - file[i].at) = file[i].size
PROOF
<1>1. TypeInv /\ Layout
    BY DEF IInv
<1>2. i \in 1 .. Len(file) /\ Len(file) \in Nat
    BY <1>1 DEF TypeInv
<1>3. /\ i \in 1 .. Len(L) /\ L[i] \in CallSet /\ Announced(L, i)
      /\ ItemOf(L[i], file[i]) /\ says[i] = Said(L[i])
    BY <1>1, <1>2, CallIsRead
<1>4. L[i].op = "sound"
    <2>1. CASE L[i].op = "plain"
        <3>1. Said(L[i]) = [what |-> L[i].what, bytes |-> EncValue(L[i].what, L[i].val)]
            BY <2>1, Zenon DEF Said
        <3>2. L[i].what = "soundData"
            BY <1>3, <3>1
        <3>3. L[i].what \in Whats
            BY <1>3, <2>1, CallTypes
        <3> QED
            BY <3>2, <3>3 DEF Whats, ValueTypes
    <2>2. CASE L[i].op \notin {"plain", "sound"}
        <3>1. Said(L[i]) = None
            BY <2>2, Zenon DEF Said
        <3> QED
            BY <1>3, <3>1
    <2> QED
        BY <2>1, <2>2
<1>5. /\ file[i].kind = "plain" /\ file[i].size = L[i].size
      /\ L[i].size \in Nat /\ file[i].at \in Nat
    BY <1>1, <1>3, <1>4, CallTypes, ItemType DEF ItemOf
<1> DEFINE j == i - 1
<1>6. /\ i > 1 /\ L[j].op = "plain" /\ L[j].what = "soundHeader"
      /\ L[j].val.size = L[i].size
    BY <1>3, <1>4 DEF Announced
<1>7. j \in 1 .. Len(file)
    BY <1>2, <1>6
<1> HIDE DEF j
<1>8. L[j] \in CallSet /\ says[j] = Said(L[j])
    BY <1>1, <1>7, CallIsRead
<1>9. says[j].bytes[1].size = file[i].size
    <2>1. Said(L[j]) = [what |-> L[j].what, bytes |-> EncValue(L[j].what, L[j].val)]
        BY <1>6, Zenon DEF Said
    <2>2. L[j].what \in Whats /\ L[j].val \in ValuesOf(L[j].what)
        BY <1>6, <1>8, CallTypes
    <2>3. EncValue(L[j].what, L[j].val) = <<L[j].val>>
        BY <1>6, <2>2, ValueSize
    <2>4. says[j].bytes = <<L[j].val>>
        BY <1>8, <2>1, <2>3
    <2>5. says[j].bytes[1] = L[j].val
        BY <2>4
    <2> QED
        BY <1>5, <1>6, <2>5
<1>10. file[i].at + file[i].size <= Position /\ Position \in Nat
    BY <1>1, PositionBehind
<1>11. Smaller(file[i].size, Position - file[i].at) = file[i].size
    BY <1>5, <1>10 DEF Smaller
<1> QED
    BY <1>5, <1>9, <1>11 DEF j

\* What a lookup of a sound's data does.
LEMMA SoundLookup ==
    ASSUME IInv, SeenInv, NEW L \in Seq(CallSet), NEW S, Follows(<<"object">>, L, S), Writes(L),
           ResolveSound
    PROVE  /\ IInv' /\ SeenInv' /\ ReturnedInvariant'
           /\ written /\ resolved' # << >>
           /\ \E i \in DOMAIN file : pos' = EndOf(i)
           /\ UNCHANGED <<writerVars, skipped, treeVars>>
PROOF
<1>1. PICK i \in DOMAIN file :
        /\ Complete
        /\ says[i] # None /\ says[i].what = "soundData"
        /\ LET size == Smaller(says[i - 1].bytes[1].size, Position - file[i].at)
           IN  /\ resolved' = Append(resolved, [at |-> file[i].at,
                        buf |-> Cleared \o << <<file[i].at, size>> >>])
               /\ pos' = file[i].at + size
        /\ UNCHANGED <<writerVars, offsets, read, skipped, failed, treeVars>>
    BY DEF ResolveSound
<1>2. /\ file[i].kind = "plain" /\ file[i].at \in Nat /\ file[i].size \in Nat
      /\ Smaller(says[i - 1].bytes[1].size, Position - file[i].at) = file[i].size
    BY <1>1, SoundIsOwn
<1> DEFINE entry == [at |-> file[i].at, buf |-> << <<file[i].at, DataSize(i)>> >>]
<1>3. DataSize(i) = file[i].size
    BY <1>2 DEF DataSize
<1>4. Cleared \o << <<file[i].at, file[i].size>> >> = << <<file[i].at, DataSize(i)>> >>
    BY <1>3 DEF Cleared
<1>5. resolved' = Append(resolved, entry) /\ pos' = EndOf(i)
    <2> DEFINE size == Smaller(says[i - 1].bytes[1].size, Position - file[i].at)
    <2>1. size = file[i].size
        BY <1>2
    <2>2. /\ resolved' = Append(resolved, [at |-> file[i].at,
                        buf |-> Cleared \o << <<file[i].at, size>> >>])
          /\ pos' = file[i].at + size
        BY <1>1
    <2> HIDE DEF size
    <2>3. resolved' = Append(resolved, entry)
        BY <1>4, <2>1, <2>2
    <2> QED
        BY <2>1, <2>2, <2>3 DEF EndOf
<1>6. entry = [at |-> file[i].at, buf |-> << <<file[i].at, DataSize(i)>> >>]
    OBVIOUS
<1>12. entry \in Lookups
    BY <1>2, <1>3 DEF Lookups
<1> HIDE DEF entry
<1>7. IInv'
    BY <1>1, <1>2, <1>5, <1>6, LookupInv
<1>8. resolved' # << >>
    <2>1. resolved \in Seq(Lookups)
        BY DEF IInv, TypeInv
    <2>2. Append(resolved, entry) # << >>
        BY <1>12, <2>1
    <2> QED
        BY <1>5, <2>2
<1>9. written /\ written'
    BY <1>1 DEF Complete, writerVars
<1>10. SeenInv'
    BY <1>1, <1>8, <1>9 DEF SeenInv, writerVars
<1>11. ReturnedInvariant'
    BY <1>8, <1>9 DEF ReturnedInvariant, ReadsEverything
<1> QED
    BY <1>1, <1>5, <1>7, <1>8, <1>9, <1>10, <1>11

-----------------------------------------------------------------------------
(* The inductive invariant of a tree *)

Calls == Items(Ops)

\* How far the tree is written and read.
TreeRun ==
    \E L \in Seq(CallSet) : \E S :
        /\ L = Calls
        /\ Follows(<<"object">>, L, S)
        /\ Contiguous
        /\ Writes(L)
        /\ ReadInv(L, S)

TreeInv ==
    /\ IInv /\ SeenInv /\ ReturnedInvariant
    /\ tree \in Objects \union {None}
    /\ tree = None => todo = << >> /\ BoundaryInv
    /\ tree # None => TreeRun

\* A reader can follow the calls of every tree.
LEMMA TreeOps ==
    ASSUME tree \in Objects
    PROVE  /\ Ops \in Seq(CallSet) /\ Calls \in Seq(CallSet)
           /\ \E S : Follows(<<"object">>, Calls, S)
PROOF
<1>1. Len(Trees) \in 0 .. Len(Trees) /\ Objects = Below(Len(Trees))
    BY TreeAssumption DEF Objects
<1>2. Fit(<<"object">>, Ops)
    BY <1>1, FitTree DEF Ops
<1>3. Ops \in Seq(CallSet) /\ Reads(<<"object">>, Calls)
    BY <1>2 DEF Fit, Calls
<1>4. Calls \in Seq(CallSet)
    BY <1>3, ItemsAre DEF Calls
<1> QED
    BY <1>3, <1>4 DEF Reads

\* The initial states.
LEMMA TreeInitInv == TreeInit => TreeInv
PROOF
<1> SUFFICES ASSUME TreeInit PROVE TreeInv
    OBVIOUS
<1>1. Init /\ tree \in Objects \union {None}
    BY DEF TreeInit
<1>2. IInv
    BY <1>1, InitInv
<1>3. SeenInv
    BY <1>1 DEF Init, SeenInv
<1>4. ReturnedInvariant
    BY <1>1 DEF Init, ReturnedInvariant, ReadsEverything
<1>5. BoundaryInv
    BY <1>1, InitBoundary
<1>6. tree = None => todo = << >>
    BY DEF TreeInit
<1>7. ASSUME tree # None PROVE TreeRun
    <2>1. Ops \in Seq(CallSet) /\ Calls \in Seq(CallSet)
        BY <1>1, <1>7, TreeOps
    <2>2. PICK S : Follows(<<"object">>, Calls, S)
        BY <1>1, <1>7, TreeOps
    <2>3. PICK L \in Seq(CallSet) : L = Calls
        BY <2>1
    <2>4. /\ file = << >> /\ written = FALSE /\ pos = 0 /\ skipped = FALSE /\ resolved = << >>
          /\ todo = Ops /\ says = << >> /\ broken = "no" /\ expect = <<"object">>
          /\ got = << >> /\ readError = FALSE
        BY <1>7 DEF TreeInit, Init
    <2>5. Len(file) = 0 /\ DOMAIN file = {} /\ Position = 0
        BY <2>4 DEF Position
    <2>6. \A k : Starts(k) = 0
        BY <2>5 DEF Starts
    <2>7. Contiguous
        BY <2>5, <2>6 DEF Contiguous
    <2>8. Left(L)
        BY <2>1, <2>3, <2>4, <2>5 DEF Left, Calls
    <2>9. Done(L)
        BY <2>4, <2>5 DEF Done
    <2>10. Stops
        BY <2>4 DEF Stops
    <2>11. Follows(<<"object">>, L, S)
        BY <2>2, <2>3
    <2>12. ReadTo(L, S, 0)
        <3>1. S[0] = <<"object">>
            BY <2>11 DEF Follows
        <3>2. First(L, 0) = << >>
            BY DEF First
        <3>3. Begin \in CallSet /\ << >> \in Seq(CallSet)
            BY CallIs
        <3>4. Told(<< >>) = << >>
            BY <3>3, ToldMore
        <3> QED
            BY <2>4, <2>6, <3>1, <3>2, <3>4 DEF ReadTo
    <2>13. ReadInv(L, S)
        BY <2>4, <2>5, <2>6, <2>12 DEF ReadInv
    <2> QED
        BY <2>3, <2>7, <2>8, <2>9, <2>10, <2>11, <2>13 DEF TreeRun, Writes
<1> QED
    BY <1>1, <1>2, <1>3, <1>4, <1>5, <1>6, <1>7 DEF TreeInv

\* A call of the writer, and where it leaves what has been read.
LEMMA TreeWrites ==
    ASSUME IInv, NEW L \in Seq(CallSet), NEW S, Contiguous, Writes(L), ReadInv(L, S),
           WriteNext \/ WriteEnd \/ WriteFails \/ Close
    PROVE  /\ [FileNext]_vars /\ UNCHANGED tree
           /\ Contiguous' /\ Writes(L)' /\ ~written
           /\ UNCHANGED <<readerVars, expect, got, readError>>
PROOF
<1>1. CASE WriteNext
    <2> DEFINE op == Head(todo)
    <2>1. op \in CallSet /\ op.op \notin {"end", "fail"} /\ Call(op)
        BY <1>1, TodoSplits DEF WriteNext, Writes, Left
    <2>2. UNCHANGED <<tree, expect, got, readError>>
        BY <1>1 DEF WriteNext
    <2> HIDE DEF op
    <2>3. /\ FileWrites /\ UNCHANGED readerVars /\ ~written
          /\ \E item \in Fields :
                /\ item.at = Position /\ item.size > 0
                /\ item.kind = "blob" => item.len = item.size - BlobHeaderLen + 1
                /\ Extend(item)
        BY <2>1, CallExtends
    <2>4. Contiguous'
        BY <2>3, ExtendContiguous
    <2>5. Writes(L)'
        BY <1>1, WriteNextWrites
    <2> QED
        BY <2>2, <2>3, <2>4, <2>5 DEF FileNext
<1>2. CASE WriteEnd
    <2>1. EndObject /\ UNCHANGED <<tree, expect, got, readError>>
        BY <1>2 DEF WriteEnd
    <2>2. Contiguous' /\ UNCHANGED readerVars /\ ~written
        BY <2>1, EndContiguous, EndKeeps
    <2>3. Writes(L)'
        BY <1>2, WriteEndWrites
    <2> QED
        BY <2>1, <2>2, <2>3 DEF FileNext
<1>3. CASE WriteFails \/ Close
    <2>1. /\ UNCHANGED <<file, tree, readerVars, expect, got, readError>>
          /\ ~written /\ [FileNext]_vars
        <3>1. CASE WriteFails
            BY <3>1 DEF WriteFails, vars, writerVars, Writes, Stops
        <3>2. CASE Close
            BY <3>2 DEF Close, Closes, FileNext, treeVars
        <3> QED
            BY <1>3, <3>1, <3>2
    <2>2. Contiguous'
        BY <2>1 DEF Contiguous, Starts, Position, EndOf
    <2>3. Writes(L)'
        BY <1>3, WriteStopsWrites
    <2> QED
        BY <2>1, <2>2, <2>3
<1> QED
    BY <1>1, <1>2, <1>3

\* An item that is read.
LEMMA TreeReads ==
    ASSUME IInv, SeenInv, NEW L \in Seq(CallSet), NEW S, Follows(<<"object">>, L, S),
           Contiguous, Writes(L), ReadInv(L, S),
           TreeReadString \/ TreeReadPlain \/ TreeReadObject \/ TreeSkipData
    PROVE  /\ [FileNext]_vars /\ UNCHANGED tree
           /\ Contiguous' /\ Writes(L)' /\ ReadInv(L, S)'
PROOF
<1>1. PICK k \in 0 .. Len(file) : ReadTo(L, S, k)
    BY DEF ReadInv
<1>2. TypeInv /\ Layout
    BY DEF IInv
<1>3. TreeReading
    BY DEF TreeReadString, TreeReadPlain, TreeReadObject, TreeSkipData
<1>4. Reader /\ \E i \in Here : TakesItem(L, i)
    <2>1. CASE TreeReadString
        BY <1>1, <2>1, ReadsString DEF Reader
    <2>2. CASE TreeReadPlain
        BY <1>1, <2>2, ReadsPlain DEF Reader
    <2>3. CASE TreeReadObject
        BY <1>1, <2>3, ReadsObject DEF Reader
    <2>4. CASE TreeSkipData
        BY <1>1, <2>4, SkipsData DEF Reader
    <2> QED
        BY <2>1, <2>2, <2>3, <2>4
<1>5. PICK i \in Here : TakesItem(L, i)
    BY <1>4
<1>6. ReadInv(L, S)'
    BY <1>2, <1>3, <1>5, ReaderRead
<1>7. UNCHANGED <<writerVars, tree, todo, says, broken>>
    BY <1>5 DEF TakesItem
<1>8. Writes(L)'
    BY <1>7, ReaderWrites
<1>9. Contiguous'
    BY <1>7 DEF Contiguous, Starts, Position, EndOf, writerVars
<1> QED
    BY <1>4, <1>6, <1>7, <1>8, <1>9 DEF FileNext

\* An error, and what is done once the tree is read.
LEMMA TreeEnds ==
    ASSUME IInv, SeenInv, ReturnedInvariant, NEW L \in Seq(CallSet), NEW S, Follows(<<"object">>, L, S),
           Contiguous, Writes(L), ReadInv(L, S),
           TreeReadFails \/ TreeResolve \/ ResolveSound
    PROVE  /\ IInv' /\ SeenInv' /\ ReturnedInvariant' /\ UNCHANGED tree
           /\ Contiguous' /\ Writes(L)' /\ ReadInv(L, S)'
PROOF
<1>1. CASE TreeReadFails
    <2>1. UNCHANGED vars /\ UNCHANGED <<tree, todo, says, broken>>
        BY <1>1 DEF TreeReadFails
    <2>2. IInv' /\ SeenInv' /\ ReturnedInvariant'
        BY <2>1, StepInv, StepSeen, StepReturned
    <2>3. ReadInv(L, S)'
        BY <1>1, FailsRead
    <2>4. UNCHANGED writerVars
        BY <2>1 DEF vars
    <2>5. Contiguous'
        BY <2>4 DEF Contiguous, Starts, Position, EndOf, writerVars
    <2>6. Writes(L)'
        BY <2>1, <2>4, ReaderWrites
    <2> QED
        BY <2>1, <2>2, <2>3, <2>5, <2>6
<1>2. CASE TreeResolve
    <2>1. Resolve /\ UNCHANGED treeVars
        BY <1>2 DEF TreeResolve
    <2>2. IInv' /\ SeenInv' /\ ReturnedInvariant'
        BY <2>1, StepInv, StepSeen, StepReturned DEF FileNext, Reader
    <2>3. PICK i \in DOMAIN file : /\ written /\ file[i].kind = "blob"
                                   /\ pos' = file[i].at + BlobHeaderLen + DataLen(i)
                                   /\ \E x : resolved' = Append(resolved, x)
                                   /\ UNCHANGED <<writerVars, skipped>>
        BY <2>1 DEF Resolve
    <2>4. pos' = EndOf(i)
        BY <2>3, BlobEnd
    <2>5. resolved' # << >>
        <3>1. resolved \in Seq(Lookups)
            BY DEF IInv, TypeInv
        <3> QED
            BY <2>3, <3>1
    <2>6. UNCHANGED <<tree, todo, says, broken, expect, got, readError>>
        BY <2>1 DEF treeVars
    <2>7. ReadInv(L, S)'
        BY <2>3, <2>4, <2>5, <2>6, ResolverRead DEF IInv
    <2>8. Contiguous'
        BY <2>3 DEF Contiguous, Starts, Position, EndOf, writerVars
    <2>9. Writes(L)'
        BY <2>3, <2>6, ReaderWrites
    <2> QED
        BY <2>2, <2>6, <2>7, <2>8, <2>9
<1>3. CASE ResolveSound
    <2>1. /\ IInv' /\ SeenInv' /\ ReturnedInvariant'
          /\ written /\ resolved' # << >>
          /\ \E i \in DOMAIN file : pos' = EndOf(i)
          /\ UNCHANGED <<writerVars, skipped, treeVars>>
        BY <1>3, SoundLookup
    <2>2. UNCHANGED <<tree, todo, says, broken, expect, got, readError>>
        BY <2>1 DEF treeVars
    <2>3. ReadInv(L, S)'
        BY <2>1, <2>2, ResolverRead DEF IInv
    <2>4. Contiguous'
        BY <2>1 DEF Contiguous, Starts, Position, EndOf, writerVars
    <2>5. Writes(L)'
        BY <2>1, <2>2, ReaderWrites
    <2> QED
        BY <2>1, <2>2, <2>3, <2>4, <2>5
<1> QED
    BY <1>1, <1>2, <1>3

\* Every step.
LEMMA TreeStep == TreeInv /\ [TreeNext]_allVars => TreeInv'
PROOF
<1> SUFFICES ASSUME TreeInv, [TreeNext]_allVars PROVE TreeInv'
    OBVIOUS
<1>1. IInv /\ SeenInv /\ ReturnedInvariant /\ tree \in Objects \union {None}
    BY DEF TreeInv
<1>2. CASE tree = None
    <2>1. todo = << >> /\ BoundaryInv
        BY <1>2 DEF TreeInv
    <2>2. [Next]_vars /\ UNCHANGED <<tree, todo>>
        BY <1>2, <2>1 DEF TreeNext, allVars, treeVars, WriteNext, WriteEnd, WriteFails, Close,
            TreeReadString, TreeReadPlain, TreeReadObject, TreeSkipData, TreeReadFails, TreeReading,
            TreeResolve, ResolveSound, Complete
    <2>3. IInv' /\ SeenInv' /\ ReturnedInvariant'
        BY <1>1, <2>2, NextIsFile, StepInv, StepSeen, StepReturned
    <2>4. BoundaryInv'
        BY <1>1, <2>1, <2>2, StepBoundary
    <2> QED
        BY <1>2, <2>1, <2>2, <2>3, <2>4 DEF TreeInv
<1>3. CASE tree # None
    <2>1. PICK L \in Seq(CallSet) : \E S :
            L = Calls /\ Follows(<<"object">>, L, S) /\ Contiguous /\ Writes(L) /\ ReadInv(L, S)
        BY <1>3 DEF TreeInv, TreeRun
    <2>2. PICK S : L = Calls /\ Follows(<<"object">>, L, S) /\ Contiguous /\ Writes(L) /\ ReadInv(L, S)
        BY <2>1
    <2>3. SUFFICES /\ IInv' /\ SeenInv' /\ ReturnedInvariant' /\ UNCHANGED tree
                   /\ Contiguous' /\ Writes(L)' /\ ReadInv(L, S)'
        <3>1. ASSUME UNCHANGED tree PROVE L = Calls'
            BY <2>2, <3>1 DEF Calls, Ops
        <3>2. ASSUME UNCHANGED tree, Contiguous', Writes(L)', ReadInv(L, S)' PROVE TreeRun'
            BY <2>2, <3>1, <3>2 DEF TreeRun
        <3> QED
            BY <1>1, <1>3, <3>2 DEF TreeInv
    <2>4. CASE WriteNext \/ WriteEnd \/ WriteFails \/ Close
        <3>1. /\ [FileNext]_vars /\ UNCHANGED tree
              /\ Contiguous' /\ Writes(L)' /\ ~written
              /\ UNCHANGED <<readerVars, expect, got, readError>>
            BY <1>1, <2>2, <2>4, TreeWrites
        <3>2. IInv' /\ SeenInv' /\ ReturnedInvariant'
            BY <1>1, <3>1, StepInv, StepSeen, StepReturned
        <3>3. ReadInv(L, S)'
            BY <1>1, <2>2, <3>1, <3>2, WriterRead DEF IInv
        <3> QED
            BY <3>1, <3>2, <3>3
    <2>5. CASE TreeReadString \/ TreeReadPlain \/ TreeReadObject \/ TreeSkipData
        <3>1. /\ [FileNext]_vars /\ UNCHANGED tree
              /\ Contiguous' /\ Writes(L)' /\ ReadInv(L, S)'
            BY <1>1, <2>2, <2>5, TreeReads
        <3>2. IInv' /\ SeenInv' /\ ReturnedInvariant'
            BY <1>1, <3>1, StepInv, StepSeen, StepReturned
        <3> QED
            BY <3>1, <3>2
    <2>6. CASE TreeReadFails \/ TreeResolve \/ ResolveSound
        BY <1>1, <2>2, <2>6, TreeEnds
    <2>7. CASE UNCHANGED allVars
        <3>1. UNCHANGED vars /\ UNCHANGED <<writerVars, readerVars>>
              /\ UNCHANGED <<tree, todo, says, broken, expect, got, readError>>
            BY <2>7 DEF allVars, vars, treeVars
        <3>2. IInv' /\ SeenInv' /\ ReturnedInvariant'
            BY <1>1, <3>1, StepInv, StepSeen, StepReturned
        <3>3. Writes(L)'
            BY <2>2, <3>1, ReaderWrites
        <3>4. Contiguous' /\ \A n : Starts(n)' = Starts(n)
            BY <2>2, <3>1 DEF Contiguous, Starts, Position, EndOf, writerVars
        <3>5. ReadInv(L, S)'
            BY <2>2, <3>1, <3>4 DEF ReadInv, ReadTo, FitHeaders, writerVars, readerVars
        <3> QED
            BY <3>1, <3>2, <3>3, <3>4, <3>5
    <2> QED
        BY <1>3, <2>4, <2>5, <2>6, <2>7 DEF TreeNext
<1> QED
    BY <1>2, <1>3

\* A reader that expects nothing is behind the last item.
LEMMA CompleteAtEnd ==
    ASSUME TypeInv, NEW L \in Seq(CallSet), NEW S, Follows(<<"object">>, L, S), Writes(L),
           NEW k \in 0 .. Len(file), S[k] = << >>
    PROVE  k = Len(file)
PROOF
<1>1. Len(file) \in Nat
    BY DEF TypeInv
<1>2. ASSUME k < Len(file) PROVE FALSE
    <2> DEFINE i == k + 1
    <2>1. i \in 1 .. Len(file) /\ i - 1 = k
        BY <1>1, <1>2
    <2> HIDE DEF i
    <2>2. Advances(L[i], S[k], S[i])
        BY <2>1, CallIsRead
    <2> QED
        BY <2>2 DEF Advances
<1> QED
    BY <1>1, <1>2

\* What all calls of the tree say is what the tree says.
LEMMA CallsSay ==
    ASSUME Ops \in Seq(CallSet)
    PROVE  Told(Calls) = Contents
PROOF
<1>1. Told(Calls) = Told(Ops)
    BY ItemsTell DEF Calls
<1>2. [k \in DOMAIN Ops |-> Telling[Ops[k]]] = [k \in DOMAIN Ops |-> Content(Ops[k])]
    <2>1. \A k \in DOMAIN Ops : Ops[k] \in CallSet
        OBVIOUS
    <2>2. \A k \in DOMAIN Ops : Telling[Ops[k]] = Content(Ops[k])
        BY <2>1 DEF Telling
    <2> QED
        BY <2>2
<1>3. Told(Ops) = Ext!FlattenSeq([k \in DOMAIN Ops |-> Telling[Ops[k]]])
    BY DEF Told, Spread
<1>4. Contents = Ext!FlattenSeq([k \in DOMAIN Ops |-> Content(Ops[k])])
    BY SameFlatten DEF Contents
<1> QED
    BY <1>1, <1>2, <1>3, <1>4

\* What the invariant says of a reader that is done.
LEMMA InvReadsBack == TreeInv => TreeReadsBack
PROOF
<1> SUFFICES ASSUME TreeInv, tree # None, broken = "no", HeadersFit
             PROVE  ~readError /\ ~failed /\ (Complete => got = Contents)
    BY DEF TreeReadsBack
<1>1. PICK L \in Seq(CallSet) : \E S :
        L = Calls /\ Follows(<<"object">>, L, S) /\ Contiguous /\ Writes(L) /\ ReadInv(L, S)
    BY DEF TreeInv, TreeRun
<1>2. PICK S : L = Calls /\ Follows(<<"object">>, L, S) /\ Contiguous /\ Writes(L) /\ ReadInv(L, S)
    BY <1>1
<1>3. Ops \in Seq(CallSet) /\ TypeInv
    BY TreeOps DEF TreeInv, IInv
<1>4. FitHeaders(L)
    <2>1. \A i \in 1 .. Len(L) : \E k \in 1 .. Len(Ops) : Ops[k] = L[i]
        BY <1>2, <1>3, ItemsWithin DEF Calls
    <2>2. \A k \in 1 .. Len(Ops) : Ops[k].op = "plain" => HeaderFits(Ops[k].what, Ops[k].val)
        BY <1>3 DEF HeadersFit
    <2> QED
        BY <2>1, <2>2 DEF FitHeaders
<1>5. ~readError
    BY <1>2, <1>4 DEF ReadInv
<1>6. ~failed
    BY <1>2 DEF ReadInv, TreeInv, SeenInv
<1>7. ASSUME Complete PROVE got = Contents
    <2>1. written /\ expect = << >>
        BY <1>7 DEF Complete
    <2>2. PICK k \in 0 .. Len(file) : ReadTo(L, S, k)
        BY <1>2 DEF ReadInv
    <2>3. k = Len(file)
        BY <1>2, <1>3, <2>1, <2>2, CompleteAtEnd DEF ReadTo
    <2>4. todo = << >>
        BY <1>2, <2>1 DEF Writes, Stops
    <2>5. Items(todo) = << >>
        BY <1>2, <2>4, ItemsAre DEF Writes, Left
    <2>6. Len(L) = Len(file) /\ Len(L) \in Nat
        BY <1>2, <1>3, <2>5 DEF Writes, Left, TypeInv
    <2>7. First(L, Len(L)) = L
        <3>1. Len(L) \in 0 .. Len(L)
            BY <2>6
        <3> QED
            BY <3>1, FirstAre
    <2>8. got = Told(L)
        BY <2>2, <2>3, <2>6, <2>7 DEF ReadTo
    <2> QED
        BY <1>2, <1>3, <2>8, CallsSay
<1> QED
    BY <1>5, <1>6, <1>7

\* ... and of one that reads what a failed writer has left.
LEMMA InvNoticed == TreeInv => FailureIsNoticed
PROOF
<1> SUFFICES ASSUME TreeInv, broken # "no", Complete
             PROVE  broken = "lost" /\ got[Len(got)] = [what |-> "data", val |-> 0]
    BY DEF FailureIsNoticed
<1>1. tree # None /\ written /\ expect = << >>
    BY DEF Complete
<1>2. PICK L \in Seq(CallSet) : \E S :
        L = Calls /\ Follows(<<"object">>, L, S) /\ Contiguous /\ Writes(L) /\ ReadInv(L, S)
    BY <1>1 DEF TreeInv, TreeRun
<1>3. PICK S : L = Calls /\ Follows(<<"object">>, L, S) /\ Contiguous /\ Writes(L) /\ ReadInv(L, S)
    BY <1>2
<1>4. TypeInv /\ Len(file) \in Nat
    BY DEF TreeInv, IInv, TypeInv
<1>5. PICK k \in 0 .. Len(file) : ReadTo(L, S, k)
    BY <1>3 DEF ReadInv
<1>6. k = Len(file) /\ S[k] = << >>
    BY <1>1, <1>3, <1>4, <1>5, CompleteAtEnd DEF ReadTo
<1>7. todo # << >> /\ Head(todo).op = "fail" /\ Head(todo).why = broken
    BY <1>3 DEF Writes, Stops, Failed
<1> DEFINE i == Len(file) + 1
<1>8. i \in 1 .. Len(L) /\ L[i] = Head(todo) /\ i - 1 = k
    <2>1. Len(file) + 1 \in 1 .. Len(L) /\ L[Len(file) + 1] = Head(todo)
        BY <1>3, <1>4, <1>7, NextCall DEF Writes
    <2> QED
        BY <1>4, <1>6, <2>1
<1>9. i > 1 => i - 1 \in 1 .. Len(file)
    BY <1>4
<1>10. 1 .. i - 1 = 1 .. Len(file)
    BY <1>4
<1> HIDE DEF i
<1>11. Moves(L, i, << >>, S[i])
    BY <1>3, <1>6, <1>8 DEF Follows
<1>12. Breaks(L, i, << >>)
    BY <1>7, <1>8, <1>11 DEF Moves, Advances, Failed
<1>13. ~ \E j \in 1 .. i - 1 : Failed(L[j])
    <2>1. \A j \in 1 .. Len(file) : ~Failed(L[j])
        BY <1>3, <1>4, CallIsRead
    <2> QED
        BY <1>10, <2>1
<1>14. i > 1 /\ L[i].why = "lost" /\ L[i - 1] = CanvasData(0)
    BY <1>12, <1>13 DEF Breaks
<1>15. broken = "lost"
    BY <1>7, <1>8, <1>14
<1> DEFINE m == k - 1
<1>16. m \in 0 .. Len(L) /\ m < Len(L) /\ m + 1 = k
    BY <1>4, <1>6, <1>8, <1>14
<1> HIDE DEF m
<1>17. /\ First(L, m) \in Seq(CallSet) /\ L[k] \in CallSet
       /\ First(L, k) = Append(First(L, m), L[k])
    BY <1>16, FirstAre
<1>18. L[k] = CanvasData(0)
    BY <1>8, <1>14
<1> DEFINE x == [what |-> "data", val |-> 0]
<1>19. Content(L[k]) = <<x>>
    BY <1>18 DEF Content, CanvasData
<1>20. x \in Entries
    BY DEF Entries
<1>21. got = Told(First(L, m)) \o <<x>> /\ Told(First(L, m)) \in Seq(Entries)
    BY <1>5, <1>17, <1>19, ToldMore DEF ReadTo
<1>22. got[Len(got)] = x
    <2> DEFINE t == Told(First(L, m))
    <2>1. t \in Seq(Entries) /\ got = t \o <<x>>
        BY <1>21
    <2> HIDE DEF t, x
    <2> QED
        BY <1>20, <2>1
<1> QED
    BY <1>15, <1>22

\* ... and of the position.
LEMMA InvAligned == TreeInv => Aligned
PROOF
<1> SUFFICES ASSUME TreeInv, written PROVE pos = Position \/ Here # {}
    BY DEF Aligned
<1>1. CASE tree = None
    BY <1>1 DEF TreeInv, BoundaryInv, Boundary, Here
<1>2. CASE tree # None
    <2>1. PICK n \in Nat : pos = Starts(n)
        BY <1>2 DEF TreeInv, TreeRun, ReadInv
    <2> QED
        BY <2>1 DEF Starts, Here
<1> QED
    BY <1>1, <1>2

\* The invariant holds for every tree.
THEOREM TreeInvariance == TreeSpec => []TreeInv
PROOF
<1>1. TreeInit => TreeInv
    BY TreeInitInv
<1>2. TreeInv /\ [TreeNext]_allVars => TreeInv'
    BY TreeStep
<1> QED
    BY <1>1, <1>2, PTL DEF TreeSpec

\* A tree that was written without an error is read without one, and says the same,
\* whatever it holds and however deep it is.
THEOREM TreesReadBack == TreeSpec => []TreeReadsBack
PROOF
<1>1. TreeInv => TreeReadsBack
    BY InvReadsBack
<1> QED
    BY <1>1, TreeInvariance, PTL

\* A reader of the file that a failed writer has left meets an error, or it was the
\* resolver that failed and the last thing it gets is a canvas without a byte of data
\* (writer.rs write_canvas, value.rs from_reader).
THEOREM FailuresAreNoticed == TreeSpec => []FailureIsNoticed
PROOF
<1>1. TreeInv => FailureIsNoticed
    BY InvNoticed
<1> QED
    BY <1>1, TreeInvariance, PTL

\* What holds of files whose items come in any order holds of those of trees, also
\* with what is looked up of their sounds (sound/mod.rs, data.rs).
THEOREM TreeFiles ==
    TreeSpec => [](/\ ReferencesPointBack /\ NoWrongString /\ ErrorsOnlyAfterSkip
                   /\ ReadsEverything /\ ResolvedIsOwn /\ Aligned)
PROOF
<1>1. TreeInv => /\ ReferencesPointBack /\ NoWrongString /\ ErrorsOnlyAfterSkip
                 /\ ReadsEverything /\ ResolvedIsOwn /\ Aligned
    BY InvAligned DEF TreeInv, IInv, SeenInv, ErrorsOnlyAfterSkip, ReturnedInvariant
<1> QED
    BY <1>1, TreeInvariance, PTL
=============================================================================
