------------------------------ MODULE MCImgFile ------------------------------
(* Instances of ImgFile and ImgTree for TLC. *)
EXTENDS ImgTree

\* A string too short for the table, one at the limit, and one whose UTF-8 form
\* is longer than its encoding; then the types of objects.
Key    == [id |-> "key", len |-> 3, enc |-> 4]
Canvas == [id |-> "Canvas", len |-> 6, enc |-> 7]
Latin  == [id |-> "latin", len |-> 6, enc |-> 4]
Named(id, n) == [id |-> id, len |-> n, enc |-> n + 1]
SomeTypes ==
    [property |-> Named("Property", 8), canvas |-> Canvas, sound |-> Named("Sound_DX8", 9),
     link |-> Named("UOL", 3), vec |-> Named("Shape2D#Vector2D", 16),
     convex |-> Named("Shape2D#Convex2D", 16)]
LooseOnes == {Key, Canvas, Latin}
SomeStrings == LooseOnes \union {SomeTypes[t] : t \in DOMAIN SomeTypes}

Val(ty, v)    == [ty |-> ty, v |-> v]
Entry(key, v) == [key |-> key, value |-> v]
Prop(items)   == [ty |-> "property", prop |-> items]
Vec(x, y)     == [ty |-> "vec", vec |-> <<x, y>>]
Convex(vecs)  == [ty |-> "convex", vecs |-> vecs]
Link(s)       == [ty |-> "link", link |-> s]
Pic(prop, from, size) ==
    [ty |-> "canvas", prop |-> prop, hdr |-> 0, from |-> from, size |-> size]
Sound(wave, from) ==
    [ty |-> "sound", hdr |-> [size |-> 2, wave |-> wave], from |-> from]
Silence == [ty |-> "sound", hdr |-> [size |-> 0, wave |-> None], from |-> "file"]
Mp3 == [fields |-> 2, extra |-> 2]

\* Numbers at the escape and on both sides of what fits into a byte.
Edges == {-8, -3, -2, -1, 1, 2, 7}
Leaves == {Val("i32", v) : v \in Edges} \union {Val("i64", v) : v \in Edges}
    \union {Val("u32", v) : v \in {0, 1, 2, 7, 8, 14, 15}} \union {Val("f32", v) : v \in {13, 14}}
    \union {Val("bool", b) : b \in BOOLEAN}
    \union {Val("null", None), Val("i16", -2), Val("u16", 3), Val("f64", 4), Val("string", Latin)}

Whole == {Vec(x, y) : x, y \in {-2, 1, 2}}
    \union {Link(s) : s \in {Key, Latin, Canvas}} \union {Prop(<< >>), Convex(<< >>)}
    \union {Convex(<< <<-2, 0>>, <<1, 2>> >>), Convex(<< <<0, 1>>, <<0, 2>> >>)}
    \union {Pic(None, "file", n) : n \in {0, 3}} \union {Pic(<< >>, "file", 3)}
    \union {Sound(w, "file") : w \in {None, Mp3, [fields |-> 0, extra |-> 0], [fields |-> 0, extra |-> 1]}}
    \union {Silence}
Failing == {Pic(None, "owned", 3), Pic(None, "lost", 3), Sound(Mp3, "owned"), Sound(None, "lost")}

\* One leaf or object, two that share their keys, types and texts, a nested one,
\* and a canvas with properties; each also with a part that cannot be written.
Flat == Whole \union Failing \union {Prop(<<Entry(Latin, v)>>) : v \in Leaves}
Nested ==
    {Prop(<<Entry(Canvas, Val("object", a)), Entry(Key, Val("object", b))>>) :
        a, b \in {Pic(None, "file", 3), Link(Canvas), Convex(<< <<0, 1>>, <<0, 2>> >>),
                  Sound(Mp3, "file"), Silence} \union Failing}
    \union {Pic(<<Entry(Latin, Val("string", Latin)), Entry(Key, Val("object", o))>>, from, 3) :
                o \in {Prop(<<Entry(Latin, Val("i32", -2))>>), Pic(None, "file", 3)},
                from \in {"file", "lost", "owned"}}
SomeTrees == <<Flat, Nested>>
=============================================================================
