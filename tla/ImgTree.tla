------------------------------- MODULE ImgTree -------------------------------
(***************************************************************************)
(* Trees of shroom-img on their way through an img file: Object::write and *)
(* Value::write turn a tree into calls of the ImgWriter, a call may fail   *)
(* and leave the file as it is, and Object::from_reader makes a tree again *)
(* of what it finds.  Strings, references, patched lengths and canvas data *)
(* are those of ImgFile.                                                   *)
(*                                                                         *)
(* A tree is an object: [ty, ..] with a property list, a canvas with or    *)
(* without properties, a sound, a link, a vector or a list of vectors.  A  *)
(* value of a property is a plain one, a string or an object.  The data of *)
(* a canvas or a sound is "owned", or it is a reference that the resolver  *)
(* finds in another file, or does not: "file", "lost".  Where              *)
(* ImgFile writes items in any order (tree = None), here the order is that *)
(* of the tree.                                                            *)
(***************************************************************************)
EXTENDS ImgFile
Seqs == INSTANCE SequencesExt

CONSTANTS
    Trees,      \* by depth, the objects the program writes
    TypeName,   \* the string of each type of object
    Small,      \* 128: an i8 is one of -Small .. Small - 1
    Wide        \* 2^31: an i32 is one of -Wide .. Wide - 1

VARIABLES
    tree,       \* the object that is written, None where the items are loose
    todo,       \* calls of the writer that are left
    says,       \* what each item of the file says, None where ImgFile knows it
    broken,     \* "no", or the data that made the writing fail: "owned", "lost"
    expect,     \* what the reader reads next, innermost first
    got,        \* what it has read, in order
    readError   \* it meets the end of the file, or an item that does not fit

treeVars == <<tree, todo, says, broken, expect, got, readError>>
allVars == <<vars, treeVars>>

-----------------------------------------------------------------------------
(* Trees *)

U32 == 0 .. 2 * Wide - 1
Below(n) == UNION {Trees[m] : m \in 1 .. n}
Objects == Below(Len(Trees))

IsList(s) == Len(s) \in Nat /\ DOMAIN s = 1 .. Len(s)

\* A value, a property list, an object of depth n: what is in it is less deep.
IsValue(v, n) ==
    \/ v.ty = "null" /\ v.v = None
    \/ v.ty = "bool" /\ v.v \in BOOLEAN
    \/ v.ty \in {"i16", "u16", "i32", "i64", "f64"} /\ v.v \in Int
    \/ v.ty \in {"u32", "f32"} /\ v.v \in U32
    \/ v.ty = "string" /\ v.v \in Strings
    \/ v.ty = "object" /\ v.v \in Below(n - 1)

IsProperty(p, n) ==
    /\ IsList(p) /\ Len(p) \in U32
    /\ \A k \in DOMAIN p : p[k].key \in Strings /\ IsValue(p[k].value, n)

IsHeader(h) ==
    /\ h.size \in Nat
    /\ h.wave = None \/ (h.wave.fields \in Nat /\ h.wave.extra \in Nat)
IsVec(v) == v[1] \in Int /\ v[2] \in Int
Sources == {"file", "owned", "lost"}

IsObject(o, n) ==
    \/ o.ty = "property" /\ IsProperty(o.prop, n)
    \/ /\ o.ty = "canvas" /\ (o.prop = None \/ IsProperty(o.prop, n))
       /\ o.hdr \in Int /\ o.from \in Sources /\ o.size \in Nat
    \/ o.ty = "sound" /\ IsHeader(o.hdr) /\ o.from \in Sources
    \/ o.ty = "link" /\ o.link \in Strings
    \/ o.ty = "vec" /\ IsVec(o.vec)
    \/ /\ o.ty = "convex" /\ IsList(o.vecs) /\ Len(o.vecs) \in 0 .. Wide - 1
       /\ \A k \in DOMAIN o.vecs : IsVec(o.vecs[k])

ObjectTypes == {"property", "canvas", "sound", "link", "vec", "convex"}

ASSUME TreeAssumption ==
    /\ Len(Trees) \in Nat
    /\ \A n \in 1 .. Len(Trees) : \A o \in Trees[n] : IsObject(o, n)
    /\ None \notin Objects
    /\ TypeName \in [ObjectTypes -> Strings]
    /\ \A s, t \in ObjectTypes : TypeName[s] = TypeName[t] => s = t
    /\ Small \in Nat \ {0} /\ Wide \in Nat

-----------------------------------------------------------------------------
(* Numbers *)

\* The first byte of a number that did not fit into it.
V == -Small
Int8 == -Small .. Small - 1

\* A WzInt that forgets that a number may look like the escape.
EncIntUnescaped(v) == IF v \in Int8 THEN <<v>> ELSE <<V, v>>

\* WzInt::write_options
EncInt(v) == IF v \in Int8 /\ v # V THEN <<v>> ELSE <<V, v>>

\* WzInt::read_options, and how many bytes it takes.
DecInt(b)   == IF b[1] = V /\ Len(b) > 1 THEN b[2] ELSE b[1]
TakesInt(b) == IF b[1] = V THEN 2 ELSE 1

\* x as i32 and x as u32
AsI32(v) == IF v >= Wide THEN v - 2 * Wide ELSE v
AsU32(v) == IF v < 0 THEN v + 2 * Wide ELSE v

\* What is written as a number, what is only a magic byte, and what has none.
Compressed == {"i32", "i64", "u32", "f32", "count", "vecs", "x", "y"}
Unsigned   == {"u32", "f32", "count"}
Flags      == {"bool", "hasProp"}
OnlyMagic  == {"null", "string", "link"}
NoMagic    == {"x", "y", "vecs", "canvasHeader"}

\* How a value of each type is written, and read again.
EncValue(what, v) ==
    CASE what \in Unsigned               -> EncInt(AsI32(v))
      [] what \in Compressed \ Unsigned  -> EncInt(v)
      [] what \in Flags                  -> IF v THEN <<1>> ELSE <<0>>
      [] what \in OnlyMagic              -> << >>
      [] OTHER                           -> <<v>>
DecValue(what, b) ==
    CASE what \in Unsigned               -> AsU32(DecInt(b))
      [] what \in Compressed \ Unsigned  -> DecInt(b)
      [] what \in Flags                  -> b[1] # 0
      [] what \in OnlyMagic              -> None
      [] OTHER                           -> b[1]
MagicLen(what) == IF what \in NoMagic THEN 0 ELSE 1

-----------------------------------------------------------------------------
(* Sounds: [size, wave], wave None for MPEG data, else [fields, extra] *)

MediaHeaderLen == 3

\* Bytes of the header as it is written, the fields of the format, and as it is
\* read, the extra bytes it says it has.
SoundWritten(h) == MediaHeaderLen + (IF h.wave = None THEN 0 ELSE 1 + h.wave.fields)
SoundRead(h)    == MediaHeaderLen + (IF h.wave = None THEN 0 ELSE 1 + h.wave.extra)

-----------------------------------------------------------------------------
(* The calls of the writer for a tree *)

String(s)   == [op |-> "string", str |-> s]
Plain(w, v) == [op |-> "plain", what |-> w, val |-> v]
Begin       == [op |-> "begin"]
End         == [op |-> "end"]
CanvasData(n) == [op |-> "data", size |-> n]
SoundData(n)  == [op |-> "sound", size |-> n]
Fail(why)   == [op |-> "fail", why |-> why]

\* write_canvas with its look at the data behind the header and the dummy length.
CanvasOpsLateCheck(o) ==
    <<Plain("canvasHeader", o.hdr)>>
        \o (IF o.from = "file" THEN <<CanvasData(o.size)>> ELSE <<CanvasData(0), Fail(o.from)>>)

\* write_canvas: owned data is refused before anything is written, data that the
\* resolver cannot fetch behind the header and the dummy length.
CanvasOps(o) ==
    CASE o.from = "owned" -> <<Fail("owned")>>
      [] o.from = "lost"  -> <<Plain("canvasHeader", o.hdr), CanvasData(0), Fail("lost")>>
      [] o.from = "file"  -> <<Plain("canvasHeader", o.hdr), CanvasData(o.size)>>

\* write_sound fetches the data before it writes; no data is no item of the file.
SoundOps(o) ==
    IF o.from # "file" THEN <<Fail(o.from)>>
    ELSE <<Plain("soundHeader", o.hdr)>>
            \o (IF o.hdr.size = 0 THEN << >> ELSE <<SoundData(o.hdr.size)>>)

\* A list of vectors, each with its type.
VecOps(v) == <<Plain("x", v[1]), Plain("y", v[2])>>
ConvexOps(vecs) ==
    <<Plain("vecs", Len(vecs))>>
        \o Seqs!FlattenSeq([k \in DOMAIN vecs |-> <<String(TypeName.vec)>> \o VecOps(vecs[k])])

\* Value::write, inner the calls for an object
ValueOps(v, inner) ==
    CASE v.ty = "object" -> <<Begin>> \o inner[v.v] \o <<End>>
      [] v.ty = "string" -> <<Plain("string", None), String(v.v)>>
      [] OTHER           -> <<Plain(v.ty, v.v)>>

\* Property::write
PropertyOps(p, inner) ==
    <<Plain("count", Len(p))>>
        \o Seqs!FlattenSeq([k \in DOMAIN p |-> <<String(p[k].key)>> \o ValueOps(p[k].value, inner)])

\* What follows the type of an object.
BodyOps(o, inner) ==
    CASE o.ty = "property" -> PropertyOps(o.prop, inner)
      [] o.ty = "canvas"   -> <<Plain("hasProp", o.prop # None)>>
                              \o (IF o.prop = None THEN << >> ELSE PropertyOps(o.prop, inner))
                              \o CanvasOps(o)
      [] o.ty = "sound"    -> SoundOps(o)
      [] o.ty = "link"     -> <<Plain("link", None), String(o.link)>>
      [] o.ty = "vec"      -> VecOps(o.vec)
      [] o.ty = "convex"   -> ConvexOps(o.vecs)

\* Object::write, of objects up to a depth
ObjectOps[n \in 0 .. Len(Trees)] ==
    [o \in Objects |->
        IF n = 0 THEN << >> ELSE <<String(TypeName[o.ty])>> \o BodyOps(o, ObjectOps[n - 1])]

Ops == ObjectOps[Len(Trees)][tree]

TreeInit ==
    /\ Init
    /\ tree \in Objects \union {None}
    /\ todo = IF tree = None THEN << >> ELSE Ops
    /\ says = << >>
    /\ broken = "no"
    /\ expect = IF tree = None THEN << >> ELSE <<"object">>
    /\ got = << >>
    /\ readError = FALSE

-----------------------------------------------------------------------------
(* Writing the tree *)

\* The bytes of an item that says v.
SizeOf(what, v) ==
    IF what = "soundHeader" THEN SoundWritten(v) ELSE MagicLen(what) + Len(EncValue(what, v))

Said(op) ==
    CASE op.op = "plain" -> [what |-> op.what, bytes |-> EncValue(op.what, op.val)]
      [] op.op = "sound" -> [what |-> "soundData", bytes |-> <<op.size>>]
      [] OTHER           -> None

Call(op) ==
    CASE op.op = "string" -> WriteString(op.str)
      [] op.op = "plain"  -> WritePlain(SizeOf(op.what, op.val))
      [] op.op = "sound"  -> WritePlain(op.size)
      [] op.op = "begin"  -> BeginObject
      [] op.op = "data"   -> WriteBlob(op.size)

\* The next call of the writer.
WriteNext ==
    /\ todo # << >> /\ broken = "no"
    /\ Head(todo).op \notin {"end", "fail"}
    /\ Call(Head(todo))
    /\ todo' = Tail(todo)
    /\ says' = Append(says, Said(Head(todo)))
    /\ UNCHANGED <<tree, broken, expect, got, readError>>

WriteEnd ==
    /\ todo # << >> /\ broken = "no"
    /\ Head(todo).op = "end"
    /\ EndObject
    /\ todo' = Tail(todo)
    /\ UNCHANGED <<tree, says, broken, expect, got, readError>>

\* ExpectedDataOffset, or an error of the resolver.
WriteFails ==
    /\ todo # << >> /\ broken = "no"
    /\ Head(todo).op = "fail"
    /\ broken' = Head(todo).why
    /\ UNCHANGED <<vars, tree, todo, says, expect, got, readError>>

\* The file is closed, also one whose objects still have their dummy length.
Close ==
    /\ tree # None /\ ~written
    /\ todo = << >> \/ broken # "no"
    /\ written' = TRUE
    /\ UNCHANGED <<file, strTable, open, readerVars, treeVars>>

-----------------------------------------------------------------------------
(* Reading a tree *)

Smaller(m, n) == IF m < n THEN m ELSE n
Times(n, s) == Seqs!FlattenSeq([k \in 1 .. n |-> s])

\* What Object::from_reader reads behind a type.
BehindType(s) ==
    CASE s = TypeName.property -> <<"count">>
      [] s = TypeName.canvas   -> <<"hasProp">>
      [] s = TypeName.sound    -> <<"soundHeader">>
      [] s = TypeName.link     -> <<"link">>
      [] s = TypeName.vec      -> <<"x", "y">>
      [] s = TypeName.convex   -> <<"vecs">>

\* What is read behind a number, a flag or a magic byte.
BehindPlain(what, v) ==
    CASE what = "count"   -> Times(v, <<"key", "value">>)
      [] what = "hasProp" -> (IF v THEN <<"count">> ELSE << >>) \o <<"canvasHeader", "data">>
      [] what = "vecs"    -> Times(v, <<"vecType", "x", "y">>)
      [] what = "soundHeader" -> IF v.size = 0 THEN << >> ELSE <<"soundData">>
      [] what \in {"link", "string"} -> <<"text">>
      [] OTHER            -> << >>

TreeReading == tree # None /\ Reading /\ ~readError /\ expect # << >>
Next1 == Head(expect)
ValueTypes == {"null", "bool", "i16", "u16", "i32", "u32", "i64", "f32", "f64", "string"}
Wanted(what) == what = Next1 \/ (Next1 = "value" /\ what \in ValueTypes)
IsString(i) == file[i].kind \in {"string", "reference"}

Types == {TypeName[t] : t \in DOMAIN TypeName}

\* The string an item stands for, None behind a reference the reader does not know.
StringAt(i) ==
    IF file[i].kind = "string" THEN file[i].str
    ELSE IF file[i].ref \in DOMAIN offsets THEN offsets[file[i].ref] ELSE None

\* A type the reader knows, the type of a vector in a list of them, a key or a text.
TakesString(s) ==
    CASE s = None            -> FALSE
      [] Next1 = "object"    -> s \in Types
      [] Next1 = "vecType"   -> s = TypeName.vec
      [] OTHER               -> Next1 \in {"key", "text"}

\* The header of a sound ends where its reader thinks.
HeaderFits(what, h) == what = "soundHeader" => SoundRead(h) = SoundWritten(h)

\* The item can be read as what the reader expects.
Fits(i) ==
    CASE IsString(i)             -> TakesString(StringAt(i))
      [] file[i].kind = "plain"  -> /\ Wanted(says[i].what)
                                    /\ HeaderFits(says[i].what, says[i].bytes[1])
      [] file[i].kind = "object" -> Next1 = "value"
      [] file[i].kind = "blob"   -> Next1 = "data"

\* A string or a reference to one.
TreeReadString ==
    \E i \in Here :
        /\ TreeReading /\ Fits(i)
        /\ ReadString \/ ReadReference
        /\ got' = Append(got, [what |-> "string", val |-> StringAt(i)])
        /\ expect' = (IF Next1 = "object" THEN BehindType(StringAt(i)) ELSE << >>)
                       \o Tail(expect)
        /\ UNCHANGED <<tree, todo, says, broken, readError>>

\* How far a reader of the item goes.
Takes(i) ==
    IF says[i].what \in Compressed
    THEN MagicLen(says[i].what) + TakesInt(says[i].bytes) ELSE file[i].size

\* A value, a number or a header; the data behind a sound's header is skipped.
TreeReadPlain ==
    \E i \in Here :
        /\ TreeReading /\ file[i].kind = "plain" /\ Fits(i)
        /\ pos' = pos + Takes(i)
        /\ LET v == DecValue(says[i].what, says[i].bytes)
           IN  /\ got' = Append(got, [what |-> says[i].what, val |-> v])
               /\ expect' = BehindPlain(says[i].what, v) \o Tail(expect)
        /\ UNCHANGED <<writerVars, offsets, read, skipped, failed, resolved>>
        /\ UNCHANGED <<tree, todo, says, broken, readError>>

\* The header of an object: its length is not looked at.
TreeReadObject ==
    \E i \in Here :
        /\ TreeReading /\ file[i].kind = "object" /\ Fits(i)
        /\ ReadPlain
        /\ expect' = <<"object">> \o Tail(expect)
        /\ UNCHANGED <<tree, todo, says, broken, got, readError>>

TreeSkipData ==
    \E i \in Here :
        /\ TreeReading /\ file[i].kind = "blob" /\ Fits(i)
        /\ SkipBlob
        /\ got' = Append(got, [what |-> "data", val |-> DataLen(i)])
        /\ expect' = Tail(expect)
        /\ UNCHANGED <<tree, todo, says, broken, readError>>

\* The file is at its end, or goes on with something else than what is expected:
\* an error, or from here on anything.
TreeReadFails ==
    /\ TreeReading
    /\ ~ \E i \in Here : Fits(i)
    /\ readError' = TRUE
    /\ UNCHANGED <<vars, tree, todo, says, broken, expect, got>>

Complete == tree # None /\ written /\ expect = << >>

\* The data of the canvases, once the tree is read ...
TreeResolve ==
    /\ Complete
    /\ Resolve
    /\ UNCHANGED treeVars

\* ... and that of the sounds: as much of the file as the header says there is.
ResolveSound ==
    \E i \in DOMAIN file :
        /\ Complete
        /\ Len(resolved) < MaxResolves
        /\ says[i] # None /\ says[i].what = "soundData"
        /\ LET size == Smaller(says[i - 1].bytes[1].size, Position - file[i].at)
           IN  /\ resolved' = Append(resolved, [at |-> file[i].at,
                        buf |-> Cleared \o << <<file[i].at, size>> >>])
               /\ pos' = file[i].at + size
        /\ UNCHANGED <<writerVars, offsets, read, skipped, failed, treeVars>>

TreeNext ==
    \/ tree = None /\ Next /\ UNCHANGED treeVars
    \/ WriteNext \/ WriteEnd \/ WriteFails \/ Close
    \/ TreeReadString \/ TreeReadPlain \/ TreeReadObject \/ TreeSkipData
    \/ TreeReadFails \/ TreeResolve \/ ResolveSound

TreeSpec == TreeInit /\ [][TreeNext]_allVars

-----------------------------------------------------------------------------
(* Properties *)

Content(op) ==
    CASE op.op = "string" -> <<[what |-> "string", val |-> op.str]>>
      [] op.op = "plain"  -> <<[what |-> op.what, val |-> op.val]>>
      [] op.op = "data"   -> <<[what |-> "data", val |-> op.size]>>
      [] op.op = "sound"  -> <<[what |-> "soundData", val |-> op.size]>>
      [] OTHER            -> << >>

\* The tree as the sequence of all it says.
Contents == Seqs!FlattenSeq([k \in DOMAIN Ops |-> Content(Ops[k])])

\* The extra bytes every wave header speaks of are those its format writes.
HeadersFit ==
    \A k \in DOMAIN Ops : Ops[k].op = "plain" => HeaderFits(Ops[k].what, Ops[k].val)

\* A tree that was written without an error is read without one, and says the
\* same: every type, key and value in its place, also those that were written as
\* references, and every canvas with as many bytes as were written for it.  The
\* exception is a sound whose header speaks of bytes that are not written.
TreeReadsBack ==
    tree # None /\ broken = "no" /\ HeadersFit =>
        /\ ~readError /\ ~failed
        /\ Complete => got = Contents

\* The file a failed writer leaves behind is not taken for a whole one: the reader
\* meets its end, or, where the resolver failed behind the dummy length of the
\* last thing in the tree, it gets a canvas without a byte of data.
FailureIsNoticed ==
    broken # "no" /\ Complete =>
        /\ broken = "lost"
        /\ got[Len(got)] = [what |-> "data", val |-> 0]
=============================================================================
