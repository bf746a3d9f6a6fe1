---------------------------- MODULE MCPacketCodec ----------------------------
(* Instances of PacketCodec for TLC: bytes of two bits. *)
EXTENDS PacketCodec

Type(k)     == [kind |-> k, n |-> 0]
Sized(k, m) == [kind |-> k, n |-> m]

\* Packets whose types count in encode_len what encode writes.
Plain == {
    <<Type("bool"), Type("cond"), Type("byte")>>,
    <<Type("bool"), Type("either"), Type("word")>>,
    <<Type("byte"), Type("sized"), Type("byte")>>,
    <<Type("str"), Sized("limited", 2), Type("byte")>>,
    <<Sized("fixed", 2), Type("list")>>,
    <<Type("option"), Type("optionR"), Type("partial")>>,
    <<Type("expiry"), Type("offset"), Type("enum"), Type("variant")>>,
    <<Type("list"), Type("tail")>>,
    <<Type("partial"), Type("tail")>>,
    <<Sized("opcode", 1), Sized("partial", 1), Type("flags")>>,
    <<Sized("opcode", 5), Type("unit"), Type("packed"), Type("u128")>>,
    <<Type("allFlags"), Type("all"), Sized("padding", 2)>>,
    <<Sized("paddingZ", 2), Sized("array", 3), Type("pair"), Type("id")>> }

\* Packets with a list that ends at a terminator.
Terminated == {
    <<Type("index"), Type("byte")>>,
    <<Type("indexZ"), Type("word")>>,
    <<Type("byte"), Type("index"), Type("tail")>> }

\* A packet with a box.
Boxes == { <<Type("box"), Type("id")>> }

\* The two types that are counted wrong, one behind the other.
BoxAndList == { <<Type("box"), Type("indexZ")>> }

All == Plain \union Terminated \union Boxes

TextBytes == {0, 1, 2}
ItemBytes == {1, 3}
=============================================================================
