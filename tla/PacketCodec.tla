----------------------------- MODULE PacketCodec -----------------------------
(***************************************************************************)
(* The data types of shroom-pkt on their way through a packet: a program   *)
(* encodes the fields of a packet with a PacketWriter, the bytes arrive    *)
(* whole or cut, and a PacketReader decodes the fields again.  A packet is *)
(* a sequence of fields as the derive macros see it: a field may depend on *)
(* the one before it (a condition, a size), and the last one may be an     *)
(* optional tail.                                                          *)
(*                                                                         *)
(* Bytes have the values 0 .. Max.  A byte stands for every one-word       *)
(* length, index, discriminant or number, a word of two bytes for the      *)
(* numbers that can be cut in the middle.                                  *)
(***************************************************************************)
EXTENDS Integers, Sequences
Seqs == INSTANCE SequencesExt

CONSTANTS
    Max,        \* u8::MAX, and MAX of every length and index type
    Text,       \* bytes that are text; the others are no UTF-8 on their own
    Items,      \* items of lists and values of options
    MaxItems,   \* bound on the items of a list
    Schemas,    \* the packets of the program: sequences of fields, see Kinds
    None        \* Option::None

Byte == 0 .. Max
Base == Max + 1
Word == 0 .. Base * Base - 1

\* Types with a parameter have it in n.
Kinds == {"opcode", "unit", "bool", "byte", "word", "u128", "str", "limited", "fixed",
          "array", "pair", "box", "list", "index", "indexZ", "option", "optionR", "cond",
          "either", "sized", "partial", "all", "allFlags", "flags", "packed", "padding",
          "paddingZ", "expiry", "offset", "id", "enum", "variant", "tail"}

\* A packet as a program may define one: an opcode is the first field, the length of
\* a limited string can be written, a condition is a bool and a size is a byte.
IsPacket(s) ==
    /\ s # << >>
    /\ \A k \in DOMAIN s :
        /\ s[k].kind = "opcode" => k = 1
        /\ s[k].kind \in {"opcode", "limited"} => s[k].n \in Word
        /\ s[k].kind \in {"cond", "either"} => k > 1 /\ s[k - 1].kind = "bool"
        /\ s[k].kind = "sized" => k > 1 /\ s[k - 1].kind = "byte"

\* A byte has as many negative values as others, and room for the few codes below.
\* NUL is text.  An opcode is that of one type of messages.
ASSUME CodecAssumption ==
    /\ Max \in Nat /\ Max > 1 /\ Max % 2 = 1
    /\ Text \subseteq Byte /\ 0 \in Text
    /\ Items \subseteq Byte
    /\ MaxItems \in Nat
    /\ Schemas \subseteq Seq([kind : Kinds, n : Nat])
    /\ \A s \in Schemas : IsPacket(s)
    /\ \A s, u \in Schemas :
        s[1].kind = "opcode" /\ u[1].kind = "opcode" /\ s[1].n = u[1].n => s = u
    /\ None \notin Int

VARIABLES
    schema,     \* the fields of the packet: [kind, n]
    want,       \* the fields of the packet the reader decodes it as
    msg,        \* the values encoded so far
    data,       \* the writer's buffer, then what the reader has of it
    sent,       \* the packet is on its way
    pos,        \* the reader's position
    out,        \* the values decoded so far
    status      \* "ok", "eof", "error", or "complete" and "leftover" at the end

encoder == <<schema, msg>>
vars == <<encoder, want, data, sent, pos, out, status>>

-----------------------------------------------------------------------------
(* Values *)

UpTo(S, n) == UNION {[1 .. m -> S] : m \in 0 .. n}
Option(S)  == S \union {None}

\* Bits of a partial's flags, one for each of its fields.
Flags == {0, 1}
Bit(f) == IF f = 0 THEN 1 ELSE 2

\* Bits of a type of flags, not every bit of the byte has a name.
KnownBits == {0, 1}
AllBits == Bit(0) + Bit(1)

\* SHROOM_TIME_MAX
TimeMax == Max

\* Variants of a packet enum by discriminant, and codes of a plain one.
ByteVariant == 1
WordVariant == 2
Codes == {1, 2}

Point == Items \X Items

Values(t) ==
    CASE t.kind = "opcode"  -> {t.n}
      [] t.kind \in {"unit", "allFlags", "paddingZ"} -> {None}
      [] t.kind = "bool"    -> BOOLEAN
      [] t.kind \in {"byte", "id"} -> Byte
      [] t.kind = "word"    -> Word
      [] t.kind = "u128"    -> [1 .. 4 -> Items]
      [] t.kind = "array"   -> [1 .. t.n -> Items]
      [] t.kind = "pair"    -> Items \X Word
      [] t.kind = "box"     -> Point \X Point
      [] t.kind = "all"     -> [Flags -> Items]
      [] t.kind = "flags"   -> KnownBits
      [] t.kind = "packed"  -> [enabled : BOOLEAN, tail : {0, 1}]
      [] t.kind = "padding" -> [1 .. t.n -> Byte]
      [] t.kind = "str"     -> UpTo(Text, 2)
      [] t.kind = "limited" -> UpTo(Text, t.n)
      [] t.kind = "fixed"   -> UpTo(Text, t.n)
      [] t.kind = "list"    -> UpTo(Items, MaxItems)
      [] t.kind \in {"index", "indexZ"}    -> UpTo(Byte \X Items, 2)
      [] t.kind \in {"option", "optionR"}  -> Option(Items)
      [] t.kind = "cond"    -> Option(Items)
      [] t.kind = "either"  -> [left : {TRUE}, val : Items] \union [left : {FALSE}, val : Word]
      [] t.kind = "sized"   -> UpTo(Items, 2)
      [] t.kind = "partial" -> [hdr : IF t.n = 0 THEN {None} ELSE Items,
                                data : [Flags -> Option(Items)]]
      [] t.kind = "expiry"  -> Option(Byte)
      [] t.kind = "offset"  -> -(Base \div 2) .. (Base \div 2) - 1
      [] t.kind = "enum"    -> Codes
      [] t.kind = "variant" -> [disc : {ByteVariant}, val : Byte]
                               \union [disc : {WordVariant}, val : Word]
      [] t.kind = "tail"    -> Option(Word)

-----------------------------------------------------------------------------
(* Encoding *)

EncByte(v)   == <<v % Base>>
EncWord(v)   == <<v % Base, (v \div Base) % Base>>
EncBool(b)   == IF b THEN <<1>> ELSE <<0>>

EncString(v) == EncWord(Len(v)) \o v

\* FixedPacketString::encode
EncFixed(v, n) == [i \in 1 .. n |-> IF i <= Len(v) THEN v[i] ELSE 0]

\* L::from_len cuts the length; encode_all
EncList(v) == EncByte(Len(v)) \o v

\* get_term
Terminator(t) == IF t.kind = "indexZ" THEN 0 ELSE Max

Flatten(s) == [i \in 1 .. 2 * Len(s) |-> s[(i + 1) \div 2][2 - (i % 2)]]
EncIndexed(t, v) == Flatten(v) \o <<Terminator(t)>>

\* NONE_VALUE, the reversed discriminants included; has_value is its opposite.
NoneValue(t) == IF t.kind = "optionR" THEN 1 ELSE 0

EncOption(t, v) == IF v = None THEN <<NoneValue(t)>> ELSE <<1 - NoneValue(t), v>>

\* encode_cond: the condition is not looked at.
EncCond(v)   == IF v = None THEN << >> ELSE <<v>>
EncEither(v) == IF v.left THEN EncByte(v.val) ELSE EncWord(v.val)

\* get_flags and partial_encode
FlagsOf(v) == (IF v[0] # None THEN Bit(0) ELSE 0) + (IF v[1] # None THEN Bit(1) ELSE 0)

\* PartialFlag: the flags, the header, which may be empty, and the data.
EncPartial(v) ==
    EncByte(FlagsOf(v.data)) \o EncCond(v.hdr) \o EncCond(v.data[0]) \o EncCond(v.data[1])

\* The data of a partial with every field.
EncAll(v) == EncByte(v[0]) \o EncByte(v[1])

\* Wrappers: the value of the inner type for a value of the wrapper.
Into(t, v) ==
    CASE t.kind = "expiry" -> IF v = None THEN TimeMax ELSE v
      [] t.kind = "packed" -> (IF v.enabled THEN 2 ELSE 0) + v.tail
      [] t.kind = "allFlags" -> AllBits
      [] OTHER -> v
Wrappers == {"expiry", "packed", "allFlags", "id", "flags", "enum"}

\* A ClientTimeOffset as its sign and unsigned_abs.
EncOffset(v) == EncBool(v < 0) \o EncByte(IF v < 0 THEN -v ELSE v)

\* A u128 is four blocks of u32, the highest first.
EncBlocks(v) == Seqs!Reverse(v)

\* encode_all of items of a byte each; a tuple is its members one behind the other
EncArray(v) == v
EncPair(v)  == EncByte(v[1]) \o EncWord(v[2])
EncBox(v)   == EncArray(v[1]) \o EncArray(v[2])

\* A padding in a build with debug_assertions, and in one without (paddingZ).
EncPadding(t, v) == IF t.kind = "padding" THEN v ELSE [i \in 1 .. t.n |-> 0]

EncVariant(v) ==
    EncByte(v.disc) \o (IF v.disc = ByteVariant THEN EncByte(v.val) ELSE EncWord(v.val))

\* OptionTail::encode
EncTail(v) == IF v = None THEN << >> ELSE EncWord(v)

\* The encode of a field by its type.
Encode(t, v) ==
    CASE t.kind = "unit"    -> << >>
      [] t.kind = "bool"    -> EncBool(v)
      [] t.kind = "byte"    -> EncByte(v)
      [] t.kind \in Wrappers -> EncByte(Into(t, v))
      [] t.kind \in {"word", "opcode"}    -> EncWord(v)
      [] t.kind = "u128"    -> EncBlocks(v)
      [] t.kind = "array"   -> EncArray(v)
      [] t.kind = "pair"    -> EncPair(v)
      [] t.kind = "box"     -> EncBox(v)
      [] t.kind \in {"padding", "paddingZ"} -> EncPadding(t, v)
      [] t.kind \in {"str", "limited"}    -> EncString(v)
      [] t.kind = "fixed"   -> EncFixed(v, t.n)
      [] t.kind = "list"    -> EncList(v)
      [] t.kind \in {"index", "indexZ"}   -> EncIndexed(t, v)
      [] t.kind \in {"option", "optionR"} -> EncOption(t, v)
      [] t.kind = "cond"    -> EncCond(v)
      [] t.kind = "either"  -> EncEither(v)
      [] t.kind = "sized"   -> v
      [] t.kind = "partial" -> EncPartial(v)
      [] t.kind = "all"     -> EncAll(v)
      [] t.kind = "offset"  -> EncOffset(v)
      [] t.kind = "variant" -> EncVariant(v)
      [] t.kind = "tail"    -> EncTail(v)

\* packet_str_len
StringLen(v) == 2 + Len(v)

\* The index size for every entry and the lengths of the entries, in each of which
\* its index is once more; the terminator is not counted.
IndexedLen(v) == 3 * Len(v)

\* encode_len_cond asks the condition; a value must be there when it holds.
CondLen(cond, v) == IF cond THEN Len(EncCond(v)) ELSE 0

\* A box has the hint of a pair of its components, and two pairs in it.
BoxHint == 1 + 1

\* SIZE_HINT of the types that have one.
Hint(t) ==
    CASE t.kind = "unit" -> 0
      [] t.kind \in {"bool", "byte"} \union (Wrappers \ {"allFlags"}) -> 1
      [] t.kind \in {"word", "opcode", "offset"} -> 2
      [] t.kind = "pair" -> 3
      [] t.kind = "u128" -> 4
      [] t.kind = "box" -> BoxHint
      [] t.kind \in {"fixed", "padding", "paddingZ"} -> t.n
      [] t.kind = "array" -> 1 * t.n
      [] OTHER -> None

\* size_hint_expr without its look at the conditions: the hint of the type there.
FieldHintOfType(t) == IF t.kind = "cond" THEN 1 ELSE Hint(t)

\* size_hint_expr: a field with a condition has none.
FieldHint(t) == IF t.kind \in {"cond", "either"} THEN None ELSE Hint(t)

\* SizeHint::add
AddHint(a, b) == IF a = None \/ b = None THEN None ELSE a + b

\* SIZE_HINT of a packet, the hints of its fields added up.
SizeHint(fields) ==
    LET Sum[k \in 0 .. Len(fields)] ==
            IF k = 0 THEN 0 ELSE AddHint(Sum[k - 1], FieldHint(fields[k]))
    IN  Sum[Len(fields)]

\* The encode_len of a field by its type, prev is the field before.
EncodeLen(t, v, prev) ==
    CASE FieldHint(t) # None            -> FieldHint(t)
      [] t.kind \in {"str", "limited"}  -> StringLen(v)
      [] t.kind \in {"index", "indexZ"} -> IndexedLen(v)
      [] t.kind = "cond"                -> CondLen(prev, v)
      [] OTHER                          -> Len(Encode(t, v))

-----------------------------------------------------------------------------
(* Decoding: what a read at p returns, and the position behind it *)

Ok(v, p) == [res |-> "ok", val |-> v, next |-> p]
Eof      == [res |-> "eof"]
Error    == [res |-> "error"]

\* check_size
Has(p, n) == p + n <= Len(data)

Slice(p, n) == SubSeq(data, p + 1, p + n)
ByteAt(p)   == data[p + 1]
WordAt(p)   == data[p + 1] + Base * data[p + 2]

ReadByte(p) == IF Has(p, 1) THEN Ok(ByteAt(p), p + 1) ELSE Eof
ReadWord(p) == IF Has(p, 2) THEN Ok(WordAt(p), p + 2) ELSE Eof

\* read_bytes; decode_n of items of a byte each
ReadBytes(p, n) == IF Has(p, n) THEN Ok(Slice(p, n), p + n) ELSE Eof

\* What is read behind a successful read r.
Then(r, Rest(_, _)) == IF r.res = "ok" THEN Rest(r.val, r.next) ELSE r
Map(r, Op(_)) == Then(r, LAMBDA v, p : Ok(Op(v), p))

ReadBool(p) == Map(ReadByte(p), LAMBDA v : v # 0)

IsText(s) == \A i \in DOMAIN s : s[i] \in Text
AsText(r) == Then(r, LAMBDA s, p : IF IsText(s) THEN Ok(s, p) ELSE Error)

\* read_string and read_string_limited
ReadString(p)     == Then(ReadWord(p), LAMBDA n, q : AsText(ReadBytes(q, n)))
ReadLimited(p, l) == Then(ReadWord(p), LAMBDA n, q :
                            IF n > l THEN Error ELSE AsText(ReadBytes(q, n)))

\* from_c_str: up to the first zero.
Until0(s) == LET Zeros == {i \in DOMAIN s : s[i] = 0}
             IN  IF Zeros = {} THEN s
                 ELSE SubSeq(s, 1, (CHOOSE i \in Zeros : \A j \in Zeros : i <= j) - 1)

ReadFixed(p, n) == Map(AsText(ReadBytes(p, n)), Until0)

ReadList(p) == Then(ReadByte(p), LAMBDA n, q : ReadBytes(q, n))

\* get_term(Z)
IsTerminator(t, b) == b = Terminator(t)

\* The loop of an index list from p0 on.
ReadIndexed(t, p0) ==
    LET Loop[p \in 0 .. Len(data)] ==
            IF ~Has(p, 1) THEN Eof
            ELSE IF IsTerminator(t, ByteAt(p)) THEN Ok(<< >>, p + 1)
            ELSE IF ~Has(p, 2) THEN Eof
            ELSE Map(Loop[p + 2], LAMBDA s : << <<ByteAt(p), ByteAt(p + 1)>> >> \o s)
    IN  Loop[p0]

\* CondOption::decode_cond
ReadIf(cond, p) == IF cond THEN ReadByte(p) ELSE Ok(None, p)

ReadOption(t, p) ==
    Then(ReadByte(p), LAMBDA d, q : ReadIf((d # 0) = (NoneValue(t) = 0), q))

\* CondEither::decode_cond the other way round.
ReadEitherSwapped(cond, p) ==
    IF ~cond THEN Map(ReadByte(p), LAMBDA v : [left |-> TRUE, val |-> v])
             ELSE Map(ReadWord(p), LAMBDA v : [left |-> FALSE, val |-> v])

\* CondEither::decode_cond
ReadEither(cond, p) ==
    IF cond THEN Map(ReadByte(p), LAMBDA v : [left |-> TRUE, val |-> v])
            ELSE Map(ReadWord(p), LAMBDA v : [left |-> FALSE, val |-> v])

\* partial_decode
Contains(flags, f) == (flags \div Bit(f)) % 2 = 1
PartialDecode(flags, p) ==
    Then(ReadIf(Contains(flags, 0), p), LAMBDA a, q :
        Map(ReadIf(Contains(flags, 1), q), LAMBDA b : [f \in Flags |-> IF f = 0 THEN a ELSE b]))

\* PartialFlag::decode: flags, header, data
ReadPartial(t, p) ==
    Then(ReadByte(p), LAMBDA flags, q :
        Then(ReadIf(t.n # 0, q), LAMBDA hdr, r :
            Map(PartialDecode(flags, r), LAMBDA d : [hdr |-> hdr, data |-> d])))

ReadAll(p) == Map(ReadBytes(p, 2), LAMBDA s : [f \in Flags |-> s[f + 1]])

\* from_bits_truncate drops the bits without a name.
Truncate(v) == IF Contains(v, 0) THEN Bit(0) ELSE 0

\* try_from_primitive
TryEnum(v, p) == IF v \in Codes THEN Ok(v, p) ELSE Error

\* Only a value with all bits set is taken.
TryAllFlags(v, p) == IF v = AllBits THEN Ok(None, p) ELSE Error

\* Wrappers: the value of the wrapper for a value of the inner type.
TryFrom(t, v, p) ==
    CASE t.kind = "expiry"   -> Ok(IF v # TimeMax THEN v ELSE None, p)
      [] t.kind = "flags"    -> Ok(Truncate(v), p)
      [] t.kind = "packed"   -> Ok([enabled |-> v \div 2 = 1, tail |-> v % 2], p)
      [] t.kind = "id"       -> Ok(v, p)
      [] t.kind = "enum"     -> TryEnum(v, p)
      [] t.kind = "allFlags" -> TryAllFlags(v, p)

ReadWrapped(t, p) == Then(ReadByte(p), LAMBDA v, q : TryFrom(t, v, q))

ReadBlocks(p) == Map(ReadBytes(p, 4), Seqs!Reverse)
ReadPair(p)   == Then(ReadByte(p), LAMBDA a, q : Map(ReadWord(q), LAMBDA b : <<a, b>>))
ReadBox(p)    == Then(ReadBytes(p, 2), LAMBDA a, q : Map(ReadBytes(q, 2), LAMBDA b : <<a, b>>))

\* Padding::from_data
FromData(t, s) == IF t.kind = "padding" THEN s ELSE None
ReadPadding(t, p) == Map(ReadBytes(p, t.n), LAMBDA s : FromData(t, s))

\* decode_message: a packet without an opcode is no message, and one with another
\* opcode is no message of this type.
ReadOpcode(t, p) ==
    IF Len(data) < 2 THEN Error
    ELSE Then(ReadWord(p), LAMBDA v, q : IF v = t.n THEN Ok(v, q) ELSE Error)

\* A u32 as i32, and its negation, which wraps without overflow checks.
Signed(v)   == IF v >= Base \div 2 THEN v - Base ELSE v
Negated(v)  == IF v = -(Base \div 2) THEN v ELSE -v
ReadOffset(p) ==
    Then(ReadByte(p), LAMBDA neg, q :
        Map(ReadByte(q), LAMBDA v : IF neg # 0 THEN Negated(Signed(v)) ELSE Signed(v)))

ReadVariant(p) ==
    Then(ReadByte(p), LAMBDA d, q :
        IF d = ByteVariant THEN Map(ReadByte(q), LAMBDA v : [disc |-> d, val |-> v])
        ELSE IF d = WordVariant THEN Map(ReadWord(q), LAMBDA v : [disc |-> d, val |-> v])
        ELSE Error)

\* OptionTail::decode
ReadTail(p) == IF Len(data) > p THEN ReadWord(p) ELSE Ok(None, p)

\* The decode of a field by its type, prev is the value decoded before.
Decode(t, p, prev) ==
    CASE t.kind = "opcode"  -> ReadOpcode(t, p)
      [] t.kind = "unit"    -> Ok(None, p)
      [] t.kind = "bool"    -> ReadBool(p)
      [] t.kind \in Wrappers -> ReadWrapped(t, p)
      [] t.kind = "u128"    -> ReadBlocks(p)
      [] t.kind = "array"   -> ReadBytes(p, t.n)
      [] t.kind = "pair"    -> ReadPair(p)
      [] t.kind = "box"     -> ReadBox(p)
      [] t.kind \in {"padding", "paddingZ"} -> ReadPadding(t, p)
      [] t.kind = "all"     -> ReadAll(p)
      [] t.kind = "byte"    -> ReadByte(p)
      [] t.kind = "word"    -> ReadWord(p)
      [] t.kind = "str"     -> ReadString(p)
      [] t.kind = "limited" -> ReadLimited(p, t.n)
      [] t.kind = "fixed"   -> ReadFixed(p, t.n)
      [] t.kind = "list"    -> ReadList(p)
      [] t.kind \in {"index", "indexZ"} -> ReadIndexed(t, p)
      [] t.kind \in {"option", "optionR"} -> ReadOption(t, p)
      [] t.kind = "cond"    -> ReadIf(prev, p)
      [] t.kind = "either"  -> ReadEither(prev, p)
      [] t.kind = "sized"   -> ReadBytes(p, prev)
      [] t.kind = "partial" -> ReadPartial(t, p)
      [] t.kind = "offset"  -> ReadOffset(p)
      [] t.kind = "variant" -> ReadVariant(p)
      [] t.kind = "tail"    -> ReadTail(p)

-----------------------------------------------------------------------------
(* Behaviour *)

Init ==
    /\ schema \in Schemas /\ want = schema
    /\ msg = << >> /\ data = << >> /\ sent = FALSE
    /\ pos = 0 /\ out = << >> /\ status = "ok"

\* The next field of the packet goes to the writer.
EncodeField ==
    LET t == schema[Len(msg) + 1]
    IN  /\ ~sent /\ Len(msg) < Len(schema)
        /\ \E v \in Values(t) : /\ msg' = Append(msg, v)
                               /\ data' = data \o Encode(t, v)
        /\ UNCHANGED <<schema, want, sent, pos, out, status>>

IsMessage(s) == s[1].kind = "opcode"

\* The reader gets the packet, or the first n bytes of it, and decodes it as the
\* type it was, a message also as one of another type.
Send(n, type) ==
    /\ ~sent /\ Len(msg) = Len(schema)
    /\ type = schema \/ (IsMessage(type) /\ IsMessage(schema))
    /\ want' = type
    /\ sent' = TRUE
    /\ data' = SubSeq(data, 1, n)
    /\ UNCHANGED <<encoder, pos, out, status>>

Reading == sent /\ status = "ok" /\ Len(out) < Len(want)
Next1   == LET k == Len(out) + 1
           IN  Decode(want[k], pos, IF k = 1 THEN None ELSE out[k - 1])

Decoded(r) ==
    /\ out' = Append(out, r.val)
    /\ pos' = r.next
    /\ UNCHANGED status

\* The decoding of a field; its error is the one of the packet.
DecodeField ==
    /\ Reading
    /\ \/ Next1.res = "ok" /\ Decoded(Next1)
       \/ Next1.res # "ok" /\ status' = Next1.res /\ UNCHANGED <<pos, out>>
    /\ UNCHANGED <<encoder, want, data, sent>>

\* Where the reader is after the end of the data in a sub reader, and without one.
AfterEofDirect(p) == Len(data)
AfterEof(p) == p

\* try_decode of the last field: the end of the data makes it absent.
TryDecodeField ==
    /\ Reading /\ Len(out) = Len(want) - 1
    /\ \/ Next1.res = "ok" /\ Decoded(Next1)
       \/ Next1.res = "eof" /\ Decoded(Ok(None, AfterEof(pos)))
       \/ Next1.res = "error" /\ status' = "error" /\ UNCHANGED <<pos, out>>
    /\ UNCHANGED <<encoder, want, data, sent>>

\* decode_complete, behind the last field.
Complete ==
    /\ sent /\ status = "ok" /\ Len(out) = Len(want)
    /\ status' = IF pos = Len(data) THEN "complete" ELSE "leftover"
    /\ UNCHANGED <<encoder, want, data, sent, pos, out>>

Next ==
    \/ EncodeField
    \/ \E n \in 0 .. Len(data), type \in Schemas : Send(n, type)
    \/ DecodeField
    \/ TryDecodeField
    \/ Complete

Spec == Init /\ [][Next]_vars

-----------------------------------------------------------------------------
(* Properties *)

\* The sum of the first k lengths.
Total(len, k) ==
    LET Sum[i \in 0 .. k] == IF i = 0 THEN 0 ELSE Sum[i - 1] + len[i]
    IN  Sum[k]

\* What the encoding of a type can carry: the values decode can tell apart, with
\* conditions and sizes that agree with the field they look at.  Of a CondEither it
\* is what decode_cond takes, Left where the condition holds; the comment of the type,
\* "cond false => Left, true => Right", has it the other way round, and a value
\* written as it says is not decoded as it was (see README, observations).
Faithful(k) ==
    LET t == schema[k]  v == msg[k]
    IN  /\ t.kind = "list" => Len(v) <= Max
        /\ t.kind \in {"index", "indexZ"} => \A i \in DOMAIN v : v[i][1] # Terminator(t)
        /\ t.kind = "fixed"  => \A i \in DOMAIN v : v[i] # 0
        /\ t.kind = "expiry" => v # TimeMax
        /\ t.kind = "cond"   => (v # None) = msg[k - 1]
        /\ t.kind = "either" => v.left = msg[k - 1]
        /\ t.kind = "sized"  => Len(v) = msg[k - 1]
        /\ t.kind = "tail"   => k = Len(schema)

AllFaithful == Len(msg) = Len(schema) /\ \A k \in DOMAIN msg : Faithful(k)

\* The end of field k in the whole packet.
Offset(k) == Total([i \in DOMAIN msg |-> Len(Encode(schema[i], msg[i]))], k)

\* A field is decoded as the value that was encoded when it and the fields before
\* it are faithful and its bytes have arrived, whatever comes behind: a condition
\* or a size that is decoded decides like the one that was encoded.  Nothing is
\* decoded of a message as one of another type.
FaithfulFieldsSurvive ==
    /\ want # schema => out = << >>
    /\ \A k \in DOMAIN out :
        (\A i \in 1 .. k : Faithful(i)) /\ Offset(k) <= Len(data) => out[k] = msg[k]

\* The reader of a faithful packet takes exactly its bytes.  When bytes are
\* missing, decode_complete succeeds only if they are those of the last field and
\* nothing of that field has arrived: a field that is cut in the middle is never
\* taken for an absent one.  Only a message cut in its opcode is another error.
CutIsNoticed ==
    AllFaithful /\ sent /\ want = schema =>
        /\ status = "error" => IsMessage(schema) /\ Len(data) < 2
        /\ Len(data) = Offset(Len(schema)) => status \in {"ok", "complete"}
        /\ status = "complete" => Len(data) \in {Offset(Len(schema)), Offset(Len(schema) - 1)}

\* encode_len of the packet as the derive macro adds it up.
PacketLen ==
    Total([i \in DOMAIN msg |-> EncodeLen(schema[i], msg[i], IF i = 1 THEN None ELSE msg[i - 1])],
          Len(msg))

\* encode_len of a faithful packet is the number of bytes encode writes for it.
EncodeLenExact == AllFaithful /\ ~sent => Len(data) = PacketLen

\* Types whose encode_len counts what encode does not write or leaves out what it
\* writes: an index list and a box.
Miscounted == {"index", "indexZ", "box"}

\* Where none of these is in it, the length of a faithful packet that is computed
\* beforehand is that of its bytes, and one known from its type alone is that of
\* every value: fields whose size a condition, a size or a text decides included.
LengthsAreExact ==
    ~sent /\ Len(msg) = Len(schema) /\ (\A k \in DOMAIN schema : schema[k].kind \notin Miscounted) =>
        /\ SizeHint(schema) # None => Len(data) = SizeHint(schema)
        /\ EncodeLenExact
=============================================================================
