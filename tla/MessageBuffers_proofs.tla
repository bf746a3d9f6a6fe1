------------------------ MODULE MessageBuffers_proofs ------------------------
(***************************************************************************)
(* Theorems about MessageBuffers, for any messages, capacities and bounds: *)
(* the iterator of a PacketBuf yields the messages that were encoded into  *)
(* it, the lines of their strings survive, and a Message is clean as long  *)
(* as no encoding in front of it failed.                                   *)
(***************************************************************************)
EXTENDS MessageBuffers, DataInduction

-----------------------------------------------------------------------------
(* What is encoded *)

Chars == {"a", "CR", "LF"}
Ids == {m.id : m \in Messages}

\* Bytes of a length in front of a message, of a message, and of a length in it.
Bytes == [msg : Ids \union {"length"}, byte : Nat, value : Nat]
         \union [msg : Ids, byte : Nat \union Chars]

LEMMA JoinedPair ==
    ASSUME NEW S, NEW a \in Seq(S), NEW b \in Seq(S), Len(b) = 2
    PROVE  /\ a \o b \in Seq(S) /\ Len(a \o b) = Len(a) + 2 /\ Len(a) \in Nat
           /\ (a \o b)[Len(a) + 1] = b[1] /\ (a \o b)[Len(a) + 2] = b[2]
           /\ \A i \in 1 .. Len(a) : (a \o b)[i] = a[i]
PROOF
<1> DEFINE c == a \o b
<1>1. /\ c \in Seq(S) /\ Len(c) = Len(a) + 2
      /\ \A i \in 1 .. Len(a) : c[i] = a[i]
      /\ \A i \in 1 .. 2 : c[Len(a) + i] = b[i]
    BY Joined
<1> HIDE DEF c
<1>2. Len(a) \in Nat
    OBVIOUS
<1>3. c[Len(a) + 1] = b[1] /\ c[Len(a) + 2] = b[2]
    BY <1>1
<1> QED
    BY <1>1, <1>2, <1>3 DEF c

LEMMA LenFieldType ==
    ASSUME NEW owner \in Ids \union {"length"}, NEW n \in Nat
    PROVE  /\ LenField(owner, n) \in Seq(Bytes) /\ Len(LenField(owner, n)) = 2
           /\ \A i \in 1 .. 2 : LenField(owner, n)[i] =
                    [msg |-> owner, byte |-> i, value |-> n % LenMod]
PROOF
<1>1. n % LenMod \in Nat
    BY MessageBuffersAssumption
<1>2. \A i \in 1 .. 2 : [msg |-> owner, byte |-> i, value |-> n % LenMod] \in Bytes
    BY <1>1 DEF Bytes
<1>3. LenField(owner, n) \in [1 .. 2 -> Bytes]
    BY <1>2 DEF LenField, LenSize
<1>4. LenField(owner, n) \in Seq(Bytes) /\ Len(LenField(owner, n)) = 2
    BY <1>3, SeqIs
<1> QED
    BY <1>4 DEF LenField, LenSize

LEMMA PlainType ==
    ASSUME NEW m \in Messages
    PROVE  PlainPart(m) \in Seq(Bytes) /\ Len(PlainPart(m)) = OpCodeSize + m.plain
PROOF
<1>1. m.id \in Ids /\ OpCodeSize + m.plain \in Nat
    BY MessageBuffersAssumption DEF Ids, OpCodeSize
<1>2. \A i \in 1 .. OpCodeSize + m.plain : [msg |-> m.id, byte |-> i] \in Bytes
    BY <1>1 DEF Bytes
<1>3. PlainPart(m) \in [1 .. OpCodeSize + m.plain -> Bytes]
    BY <1>2 DEF PlainPart
<1> QED
    BY <1>1, <1>3, SeqIs

-----------------------------------------------------------------------------
(* Flattened sequences *)

LEMMA SameFlatten ==
    \A seqs : FlattenSeq(seqs) = Ext!FlattenSeq(seqs)
    BY DEF FlattenSeq, Ext!FlattenSeq

LEMMA FlattenFcn ==
    ASSUME NEW X, NEW seqs \in Seq(Seq(X)), Len(seqs) # 0
    PROVE  \E F \in [1 .. Len(seqs) -> Seq(X)] :
                Flattens(F, seqs) /\ FlattenSeq(seqs) = F[Len(seqs)]
    BY FlattenedFcn, SameFlatten

LEMMA FlattenAppend ==
    ASSUME NEW X, NEW seqs \in Seq(Seq(X)), NEW s \in Seq(X)
    PROVE  /\ FlattenSeq(<< >>) = << >>
           /\ FlattenSeq(seqs) \in Seq(X)
           /\ FlattenSeq(Append(seqs, s)) = FlattenSeq(seqs) \o s
    BY FlattenedAppend, SameFlatten

-----------------------------------------------------------------------------
(* Line breaks *)

\* What WithCrlf writes for character i of t, and what Unix keeps of it.
Written(t, i) ==
    CASE t[i] = "LF" -> <<"CR", "LF">>
      [] t[i] = "CR" /\ i < Len(t) /\ t[i + 1] = "LF" -> << >>
      [] OTHER -> <<t[i]>>
KeptOf(t, i) == IF BreakBehind(t, i) THEN << >> ELSE <<t[i]>>

WrittenSeq(t) == [i \in 1 .. Len(t) |-> Written(t, i)]
KeptSeq(t)    == [i \in 1 .. Len(t) |-> KeptOf(t, i)]

LEMMA Pieces ==
    ASSUME NEW t \in Seq(Chars)
    PROVE  /\ WrittenSeq(t) \in Seq(Seq(Chars)) /\ Len(WrittenSeq(t)) = Len(t)
           /\ KeptSeq(t) \in Seq(Seq(Chars)) /\ Len(KeptSeq(t)) = Len(t)
           /\ WithCrlf(t) = FlattenSeq(WrittenSeq(t))
           /\ Unix(t) = FlattenSeq(KeptSeq(t))
PROOF
<1>1. \A i \in 1 .. Len(t) : t[i] \in Chars
    OBVIOUS
<1>2. << >> \in Seq(Chars) /\ <<"CR", "LF">> \in Seq(Chars) /\ \A c \in Chars : <<c>> \in Seq(Chars)
    BY DEF Chars
<1>3. \A i \in 1 .. Len(t) : Written(t, i) \in Seq(Chars) /\ KeptOf(t, i) \in Seq(Chars)
    BY <1>1, <1>2 DEF Written, KeptOf
<1>4. /\ WrittenSeq(t) \in [1 .. Len(t) -> Seq(Chars)]
      /\ KeptSeq(t) \in [1 .. Len(t) -> Seq(Chars)]
    BY <1>3 DEF WrittenSeq, KeptSeq
<1>5. Len(t) \in Nat /\ DOMAIN t = 1 .. Len(t)
    OBVIOUS
<1>6. /\ WrittenSeq(t) \in Seq(Seq(Chars)) /\ Len(WrittenSeq(t)) = Len(t)
      /\ KeptSeq(t) \in Seq(Seq(Chars)) /\ Len(KeptSeq(t)) = Len(t)
    BY <1>4, <1>5, SeqIs
<1>7. WithCrlf(t) = FlattenSeq(WrittenSeq(t))
    BY <1>5 DEF WithCrlf, WrittenSeq, Written
<1>8. Unix(t) = FlattenSeq(KeptSeq(t))
    BY <1>5 DEF Unix, KeptSeq, KeptOf
<1> QED
    BY <1>6, <1>7, <1>8

LEMMA TextTypes ==
    ASSUME NEW t \in Seq(Chars)
    PROVE  WithCrlf(t) \in Seq(Chars) /\ Unix(t) \in Seq(Chars)
    BY Pieces, FlattenAppend

\* Unix of a text that grows by a character that is no line feed.
LEMMA UnixAppend ==
    ASSUME NEW s \in Seq(Chars), NEW c \in Chars, c # "LF"
    PROVE  Append(s, c) \in Seq(Chars) /\ Unix(Append(s, c)) = Unix(s) \o <<c>>
PROOF
<1> DEFINE n == Len(s)
           t == Append(s, c)
<1>1. /\ t \in Seq(Chars) /\ Len(t) = n + 1 /\ n \in Nat /\ t[n + 1] = c
      /\ \A i \in 1 .. n : t[i] = s[i]
    OBVIOUS
<1> HIDE DEF t
<1>2. \A i \in 1 .. n : KeptOf(t, i) = KeptOf(s, i)
    <2> TAKE i \in 1 .. n
    <2>1. BreakBehind(t, i) <=> BreakBehind(s, i)
        <3>1. CASE i = n
            BY <1>1, <3>1 DEF BreakBehind
        <3>2. CASE i < n
            <4>1. i + 1 \in 1 .. n /\ i < Len(t) /\ t[i] = s[i] /\ t[i + 1] = s[i + 1]
                BY <1>1, <3>2
            <4> QED
                BY <3>2, <4>1 DEF BreakBehind
        <3> QED
            BY <1>1, <3>1, <3>2
    <2> QED
        BY <1>1, <2>1 DEF KeptOf
<1>3. KeptOf(t, n + 1) = <<c>>
    BY <1>1 DEF KeptOf, BreakBehind
<1>4. <<c>> \in Seq(Chars)
    OBVIOUS
<1>5. KeptSeq(t) = Append(KeptSeq(s), <<c>>)
    <2> DEFINE a == KeptSeq(t)
               b == Append(KeptSeq(s), <<c>>)
    <2>1. /\ KeptSeq(s) \in Seq(Seq(Chars)) /\ Len(KeptSeq(s)) = n
          /\ a \in Seq(Seq(Chars)) /\ Len(a) = n + 1
        BY <1>1, Pieces
    <2>2. /\ b \in Seq(Seq(Chars)) /\ Len(b) = n + 1 /\ b[n + 1] = <<c>>
          /\ \A i \in 1 .. n : b[i] = KeptSeq(s)[i]
        BY <1>4, <2>1
    <2>3. \A i \in 1 .. n : a[i] = KeptOf(t, i) /\ KeptSeq(s)[i] = KeptOf(s, i)
        BY <1>1 DEF KeptSeq
    <2>4. a[n + 1] = KeptOf(t, n + 1)
        BY <1>1 DEF KeptSeq
    <2> HIDE DEF a, b
    <2>5. \A i \in 1 .. Len(a) : a[i] = b[i]
        <3> TAKE i \in 1 .. Len(a)
        <3>1. i \in 1 .. n \/ i = n + 1
            BY <1>1, <2>1
        <3> QED
            BY <1>2, <1>3, <2>2, <2>3, <2>4, <3>1
    <2>6. a = b
        BY <2>1, <2>2, <2>5, SeqEqual
    <2> QED
        BY <2>6 DEF a, b
<1>6. Unix(t) = FlattenSeq(KeptSeq(s)) \o <<c>>
    BY <1>1, <1>4, <1>5, Pieces, FlattenAppend
<1> QED
    BY <1>1, <1>6, Pieces DEF t

\* Unix of a text that grows by a whole line break.
LEMMA UnixBreak ==
    ASSUME NEW s \in Seq(Chars)
    PROVE  Unix(s \o <<"CR", "LF">>) = Unix(s) \o <<"LF">>
PROOF
<1> DEFINE n == Len(s)
           t == s \o <<"CR", "LF">>
<1>1. /\ t \in Seq(Chars) /\ Len(t) = n + 2 /\ n \in Nat
      /\ t[n + 1] = "CR" /\ t[n + 2] = "LF"
      /\ \A i \in 1 .. n : t[i] = s[i]
    <2> DEFINE br == <<"CR", "LF">>
    <2>1. br \in Seq(Chars) /\ Len(br) = 2 /\ br[1] = "CR" /\ br[2] = "LF"
        BY DEF Chars
    <2> HIDE DEF br
    <2>2. /\ s \o br \in Seq(Chars) /\ Len(s \o br) = n + 2 /\ n \in Nat
          /\ (s \o br)[n + 1] = "CR" /\ (s \o br)[n + 2] = "LF"
          /\ \A i \in 1 .. n : (s \o br)[i] = s[i]
        BY <2>1, JoinedPair
    <2> QED
        BY <2>2 DEF br
<1> HIDE DEF t
<1>2. \A i \in 1 .. n : KeptOf(t, i) = KeptOf(s, i)
    <2> TAKE i \in 1 .. n
    <2>1. BreakBehind(t, i) <=> BreakBehind(s, i)
        <3>1. CASE i = n
            BY <1>1, <3>1 DEF BreakBehind
        <3>2. CASE i < n
            <4>1. i + 1 \in 1 .. n /\ i < Len(t) /\ t[i] = s[i] /\ t[i + 1] = s[i + 1]
                BY <1>1, <3>2
            <4> QED
                BY <3>2, <4>1 DEF BreakBehind
        <3> QED
            BY <1>1, <3>1, <3>2
    <2> QED
        BY <1>1, <2>1 DEF KeptOf
<1>3. KeptOf(t, n + 1) = << >>
    <2>1. (n + 1) + 1 = n + 2 /\ n + 1 < Len(t)
        BY <1>1
    <2> QED
        BY <1>1, <2>1 DEF KeptOf, BreakBehind
<1>4. KeptOf(t, n + 2) = <<"LF">>
    BY <1>1 DEF KeptOf, BreakBehind
<1>5. << >> \in Seq(Chars) /\ <<"LF">> \in Seq(Chars)
    BY DEF Chars
<1> DEFINE k == KeptSeq(s)
           c == Append(k, << >>)
           b == Append(c, <<"LF">>)
           a == KeptSeq(t)
<1>6. /\ k \in Seq(Seq(Chars)) /\ Len(k) = n /\ \A i \in 1 .. n : k[i] = KeptOf(s, i)
    BY Pieces DEF KeptSeq
<1>7. a \in Seq(Seq(Chars)) /\ Len(a) = n + 2 /\ \A i \in 1 .. n + 2 : a[i] = KeptOf(t, i)
    BY <1>1, Pieces DEF KeptSeq
<1> HIDE DEF k, a
<1>8. /\ c \in Seq(Seq(Chars)) /\ Len(c) = n + 1 /\ c[n + 1] = << >>
      /\ \A i \in 1 .. n : c[i] = k[i]
    BY <1>5, <1>6
<1> HIDE DEF c
<1>9. /\ b \in Seq(Seq(Chars)) /\ Len(b) = n + 2 /\ b[n + 2] = <<"LF">>
      /\ \A i \in 1 .. n + 1 : b[i] = c[i]
    BY <1>5, <1>8
<1> HIDE DEF b
<1>10. a = b
    <2>1. ASSUME NEW i \in 1 .. n + 2 PROVE a[i] = b[i]
        <3>1. i \in 1 .. n \/ i = n + 1 \/ i = n + 2
            BY <1>1
        <3>2. CASE i \in 1 .. n
            <4>1. i \in 1 .. n + 1
                BY <1>1, <3>2
            <4>2. b[i] = c[i] /\ c[i] = k[i] /\ k[i] = KeptOf(s, i)
                BY <1>6, <1>8, <1>9, <3>2, <4>1
            <4>3. a[i] = KeptOf(t, i) /\ KeptOf(t, i) = KeptOf(s, i)
                BY <1>2, <1>7, <3>2
            <4> QED
                BY <4>2, <4>3
        <3>3. CASE i = n + 1
            BY <1>1, <1>3, <1>7, <1>8, <1>9, <3>3
        <3>4. CASE i = n + 2
            BY <1>1, <1>4, <1>7, <1>9, <3>4
        <3> QED
            BY <3>1, <3>2, <3>3, <3>4
    <2> QED
        BY <1>7, <1>9, <2>1, SeqEqual
<1>11. FlattenSeq(c) = FlattenSeq(k) \o << >> /\ FlattenSeq(k) \in Seq(Chars)
    BY <1>5, <1>6, FlattenAppend DEF c
<1>12. FlattenSeq(b) = FlattenSeq(c) \o <<"LF">>
    BY <1>5, <1>8, FlattenAppend DEF b
<1>13. FlattenSeq(k) \o << >> = FlattenSeq(k)
    BY <1>11
<1>14. Unix(t) = FlattenSeq(a) /\ Unix(s) = FlattenSeq(k)
    BY <1>1, Pieces DEF a, k
<1> QED
    BY <1>10, <1>11, <1>12, <1>13, <1>14 DEF t

\* A beginning of a sequence that grows by an element.
LEMMA Grown ==
    ASSUME NEW S, NEW s \in Seq(S), NEW k \in 0 .. Len(s) - 1
    PROVE  /\ SubSeq(s, 1, k) \in Seq(S)
           /\ s[k + 1] \in S
           /\ SubSeq(s, 1, k + 1) = Append(SubSeq(s, 1, k), s[k + 1])
    OBVIOUS

\* Every line feed ends a whole line break.
WholeBreaks(s) == \A i \in 1 .. Len(s) : s[i] = "LF" => i > 1 /\ s[i - 1] = "CR"

\* What is written for a text: its lines, each of them ended by a whole break.
LEMMA CrlfKeepsLines ==
    ASSUME NEW t \in Seq(Chars)
    PROVE  Unix(WithCrlf(t)) = Unix(t) /\ WholeBreaks(WithCrlf(t))
PROOF
<1> DEFINE n == Len(t)
           w == WrittenSeq(t)
           u == KeptSeq(t)
           W(k) == FlattenSeq(SubSeq(w, 1, k))
           U(k) == FlattenSeq(SubSeq(u, 1, k))
           P(k) == W(k) \in Seq(Chars) /\ Unix(W(k)) = U(k) /\ WholeBreaks(W(k))
           S == {k \in 0 .. n : P(k)}
<1>1. /\ n \in Nat /\ \A i \in 1 .. n : t[i] \in Chars
      /\ w \in Seq(Seq(Chars)) /\ Len(w) = n /\ \A i \in 1 .. n : w[i] = Written(t, i)
      /\ u \in Seq(Seq(Chars)) /\ Len(u) = n /\ \A i \in 1 .. n : u[i] = KeptOf(t, i)
    <2>1. n \in Nat /\ \A i \in 1 .. n : t[i] \in Chars
        OBVIOUS
    <2>2. /\ w \in Seq(Seq(Chars)) /\ Len(w) = n
          /\ u \in Seq(Seq(Chars)) /\ Len(u) = n
        BY Pieces
    <2>3. /\ \A i \in 1 .. n : w[i] = Written(t, i)
          /\ \A i \in 1 .. n : u[i] = KeptOf(t, i)
        BY DEF WrittenSeq, KeptSeq
    <2> QED
        BY <2>1, <2>2, <2>3
<1> HIDE DEF w, u
<1>2. P(0)
    <2>1. SubSeq(w, 1, 0) = << >> /\ SubSeq(u, 1, 0) = << >> /\ << >> \in Seq(Seq(Chars))
        BY <1>1
    <2>2. FlattenSeq(<< >>) = << >> /\ << >> \in Seq(Chars)
        BY <1>1, FlattenAppend
    <2>3. KeptSeq(<< >>) = << >>
        <3>1. KeptSeq(<< >>) \in Seq(Seq(Chars)) /\ Len(KeptSeq(<< >>)) = 0
            BY <2>2, Pieces
        <3> QED
            BY <3>1
    <2>4. Unix(<< >>) = << >>
        BY <2>2, <2>3, Pieces
    <2>5. W(0) = << >> /\ U(0) = << >>
        BY <2>1, <2>2
    <2>6. WholeBreaks(<< >>)
        BY DEF WholeBreaks
    <2> HIDE DEF W, U
    <2> QED
        BY <2>2, <2>4, <2>5, <2>6
<1>3. ASSUME NEW k \in 0 .. n - 1, P(k) PROVE P(k + 1)
    <2>1. k + 1 \in 1 .. n /\ t[k + 1] \in Chars /\ (k + 1) + 1 = k + 2
        BY <1>1
    <2>2. W(k + 1) = W(k) \o Written(t, k + 1) /\ U(k + 1) = U(k) \o KeptOf(t, k + 1)
        <3>1. /\ SubSeq(w, 1, k + 1) = Append(SubSeq(w, 1, k), w[k + 1])
              /\ SubSeq(w, 1, k) \in Seq(Seq(Chars)) /\ w[k + 1] \in Seq(Chars)
            BY <1>1, Grown
        <3>2. /\ SubSeq(u, 1, k + 1) = Append(SubSeq(u, 1, k), u[k + 1])
              /\ SubSeq(u, 1, k) \in Seq(Seq(Chars)) /\ u[k + 1] \in Seq(Chars)
            BY <1>1, Grown
        <3>3. W(k + 1) = W(k) \o w[k + 1]
            BY <3>1, FlattenAppend
        <3>4. U(k + 1) = U(k) \o u[k + 1] /\ U(k) \in Seq(Chars)
            BY <3>2, FlattenAppend
        <3> QED
            BY <1>1, <2>1, <3>3, <3>4
    <2>u. U(k) \in Seq(Chars)
        <3>1. SubSeq(u, 1, k) \in Seq(Seq(Chars))
            BY <1>1, Grown
        <3> QED
            BY <3>1, FlattenAppend
    <2> HIDE DEF W, U
    <2>3. CASE t[k + 1] = "LF"
        <3>1. Written(t, k + 1) = <<"CR", "LF">> /\ KeptOf(t, k + 1) = <<"LF">>
            BY <2>3 DEF Written, KeptOf, BreakBehind
        <3>2. Unix(W(k + 1)) = U(k + 1)
            BY <1>3, <2>2, <3>1, UnixBreak
        <3>3. W(k + 1) \in Seq(Chars) /\ WholeBreaks(W(k + 1))
            <4> DEFINE v == W(k)
                       br == <<"CR", "LF">>
                       x == v \o br
            <4>1. br \in Seq(Chars) /\ Len(br) = 2 /\ br[1] = "CR" /\ br[2] = "LF"
                BY DEF Chars
            <4>2. v \in Seq(Chars) /\ WholeBreaks(v)
                BY <1>3
            <4> HIDE DEF v, br
            <4>3. /\ x \in Seq(Chars) /\ Len(x) = Len(v) + 2 /\ Len(v) \in Nat
                  /\ x[Len(v) + 1] = "CR" /\ \A i \in 1 .. Len(v) : x[i] = v[i]
                BY <4>1, <4>2, JoinedPair
            <4> HIDE DEF x
            <4>4. ASSUME NEW i \in 1 .. Len(x), x[i] = "LF" PROVE i > 1 /\ x[i - 1] = "CR"
                <5>1. i \in 1 .. Len(v) \/ i = Len(v) + 1 \/ i = Len(v) + 2
                    BY <4>3
                <5>2. CASE i \in 1 .. Len(v)
                    <6>1. v[i] = "LF"
                        BY <4>3, <4>4, <5>2
                    <6>2. i > 1 /\ v[i - 1] = "CR"
                        BY <4>2, <5>2, <6>1 DEF WholeBreaks
                    <6>3. i - 1 \in 1 .. Len(v)
                        BY <5>2, <6>2
                    <6> QED
                        BY <4>3, <6>2, <6>3
                <5>3. CASE i = Len(v) + 1
                    BY <4>3, <4>4, <5>3
                <5>4. CASE i = Len(v) + 2
                    <6>1. i > 1 /\ i - 1 = Len(v) + 1
                        BY <4>3, <5>4
                    <6> QED
                        BY <4>3, <6>1
                <5> QED
                    BY <5>1, <5>2, <5>3, <5>4
            <4>5. W(k + 1) = x
                BY <2>2, <3>1 DEF x, v, br
            <4> QED
                BY <4>3, <4>4, <4>5 DEF WholeBreaks
        <3> QED
            BY <3>2, <3>3
    <2>4. CASE BreakBehind(t, k + 1)
        <3>1. Written(t, k + 1) = << >> /\ KeptOf(t, k + 1) = << >>
            BY <2>4 DEF Written, KeptOf, BreakBehind
        <3>2. W(k + 1) = W(k)
            BY <1>3, <2>2, <3>1
        <3>3. U(k + 1) = U(k)
            BY <2>2, <2>u, <3>1
        <3> QED
            BY <1>3, <3>2, <3>3
    <2>5. CASE t[k + 1] # "LF" /\ ~BreakBehind(t, k + 1)
        <3> DEFINE c == t[k + 1]
                   v == W(k)
                   x == Append(v, c)
        <3>1. Written(t, k + 1) = <<c>> /\ KeptOf(t, k + 1) = <<c>>
            BY <2>5 DEF Written, KeptOf, BreakBehind
        <3>2. c \in Chars /\ c # "LF" /\ v \in Seq(Chars) /\ WholeBreaks(v)
            BY <1>3, <2>1, <2>5
        <3>3. W(k + 1) = x
            <4>1. v \o <<c>> = Append(v, c)
                BY <3>2
            <4> QED
                BY <2>2, <3>1, <4>1
        <3>4. Unix(W(k + 1)) = U(k + 1)
            BY <1>3, <2>2, <3>1, <3>2, <3>3, UnixAppend
        <3> HIDE DEF v, c
        <3>5. /\ x \in Seq(Chars) /\ Len(x) = Len(v) + 1 /\ Len(v) \in Nat
              /\ x[Len(v) + 1] = c /\ \A i \in 1 .. Len(v) : x[i] = v[i]
            BY <3>2
        <3> HIDE DEF x
        <3>6. ASSUME NEW i \in 1 .. Len(x), x[i] = "LF" PROVE i > 1 /\ x[i - 1] = "CR"
            <4>1. i \in 1 .. Len(v)
                BY <3>2, <3>5, <3>6
            <4>2. v[i] = "LF"
                BY <3>5, <3>6, <4>1
            <4>3. i > 1 /\ v[i - 1] = "CR"
                BY <3>2, <4>1, <4>2 DEF WholeBreaks
            <4>4. i - 1 \in 1 .. Len(v)
                BY <4>1, <4>3
            <4> QED
                BY <3>5, <4>3, <4>4
        <3> QED
            BY <3>3, <3>4, <3>5, <3>6 DEF WholeBreaks
    <2> QED
        BY <2>3, <2>4, <2>5
<1>4. P(n)
    <2>1. 0 \in S
        BY <1>1, <1>2
    <2>2. ASSUME NEW k \in 0 .. n - 1, k \in S PROVE k + 1 \in S
        <3>1. P(k + 1)
            <4> HIDE DEF P
            <4> QED
                BY <1>3, <2>2
        <3>2. k + 1 \in 0 .. n
            BY <1>1
        <3> QED
            BY <3>1, <3>2
    <2> HIDE DEF S
    <2>3. \A k \in 0 .. n : k \in S
        BY <1>1, <2>1, <2>2, UpToInSet
    <2> HIDE DEF P
    <2>4. n \in 0 .. n
        BY <1>1
    <2> QED
        BY <2>3, <2>4 DEF S
<1>5. SubSeq(w, 1, n) = w /\ SubSeq(u, 1, n) = u
    BY <1>1
<1> QED
    BY <1>4, <1>5, Pieces DEF w, u

-----------------------------------------------------------------------------
(* The bytes of a message *)

\* The characters of a written text as bytes of message m.
TextBytes(m) == [i \in DOMAIN WithCrlf(m.text) |-> [msg |-> m.id, byte |-> WithCrlf(m.text)[i]]]

LEMMA TextType ==
    ASSUME NEW m \in Messages
    PROVE  /\ Text(m) \in Seq(Bytes)
           /\ m.text # << >> =>
                /\ Len(Text(m)) = 2 + Len(WithCrlf(m.text))
                /\ Text(m)[1] = [msg |-> m.id, byte |-> 1, value |-> Len(WithCrlf(m.text)) % LenMod]
                /\ \A i \in 1 .. Len(WithCrlf(m.text)) :
                        Text(m)[2 + i] = [msg |-> m.id, byte |-> WithCrlf(m.text)[i]]
PROOF
<1> DEFINE t == WithCrlf(m.text)
           f == LenField(m.id, Len(t))
           b == TextBytes(m)
<1>1. t \in Seq(Chars) /\ Len(t) \in Nat /\ DOMAIN t = 1 .. Len(t) /\ m.id \in Ids
    <2>1. m.text \in Seq(Chars)
        BY MessageBuffersAssumption DEF Chars
    <2>2. t \in Seq(Chars)
        BY <2>1, TextTypes
    <2> HIDE DEF t
    <2> QED
        BY <2>2 DEF Ids
<1>2. b \in Seq(Bytes) /\ Len(b) = Len(t) /\ \A i \in 1 .. Len(t) : b[i] = [msg |-> m.id, byte |-> t[i]]
    <2>0. b = [i \in 1 .. Len(t) |-> [msg |-> m.id, byte |-> t[i]]]
        BY <1>1 DEF TextBytes
    <2> HIDE DEF t, b
    <2>1. \A i \in 1 .. Len(t) : [msg |-> m.id, byte |-> t[i]] \in Bytes
        BY <1>1 DEF Bytes
    <2>2. b \in [1 .. Len(t) -> Bytes]
        BY <2>0, <2>1
    <2>3. b \in Seq(Bytes) /\ Len(b) = Len(t)
        BY <1>1, <2>2, SeqIs
    <2> QED
        BY <2>0, <2>3
<1>3. /\ f \in Seq(Bytes) /\ Len(f) = 2
      /\ f[1] = [msg |-> m.id, byte |-> 1, value |-> Len(t) % LenMod]
    <2> DEFINE n == Len(t)
    <2>1. n \in Nat /\ m.id \in Ids \union {"length"}
        BY <1>1
    <2>2. f = LenField(m.id, n)
        OBVIOUS
    <2> HIDE DEF n, f
    <2>3. /\ f \in Seq(Bytes) /\ Len(f) = 2
          /\ \A i \in 1 .. 2 : f[i] = [msg |-> m.id, byte |-> i, value |-> n % LenMod]
        BY <2>1, <2>2, LenFieldType
    <2> QED
        BY <2>3 DEF n
<1>4. Text(m) = IF m.text = << >> THEN << >> ELSE f \o b
    BY DEF Text, TextBytes
<1> HIDE DEF f, b
<1>5. /\ f \o b \in Seq(Bytes) /\ Len(f \o b) = 2 + Len(t)
      /\ (f \o b)[1] = f[1]
      /\ \A i \in 1 .. Len(t) : (f \o b)[2 + i] = b[i]
    <2> HIDE DEF t
    <2>0. f \in Seq(Bytes) /\ b \in Seq(Bytes)
        BY <1>2, <1>3
    <2>1. /\ f \o b \in Seq(Bytes) /\ Len(f \o b) = Len(f) + Len(b)
          /\ \A i \in 1 .. Len(f) : (f \o b)[i] = f[i]
          /\ \A i \in 1 .. Len(b) : (f \o b)[Len(f) + i] = b[i]
        BY <2>0, Joined
    <2> QED
        BY <1>2, <1>3, <2>1
<1>6. << >> \in Seq(Bytes)
    OBVIOUS
<1>7. CASE m.text = << >>
    BY <1>4, <1>6, <1>7
<1>8. CASE m.text # << >>
    <2>1. Text(m) = f \o b
        BY <1>4, <1>8
    <2> QED
        BY <1>2, <1>3, <1>5, <2>1
<1> QED
    BY <1>7, <1>8

LEMMA EncodingType ==
    ASSUME NEW m \in Messages
    PROVE  /\ Encoding(m) \in Seq(Bytes)
           /\ Len(Encoding(m)) = Len(PlainPart(m)) + Len(Text(m))
           /\ \A i \in 1 .. Len(Text(m)) : Encoding(m)[Len(PlainPart(m)) + i] = Text(m)[i]
PROOF
<1> DEFINE p == PlainPart(m)
           x == Text(m)
<1>1. p \in Seq(Bytes) /\ x \in Seq(Bytes) /\ Encoding(m) = p \o x
    BY PlainType, TextType DEF Encoding
<1> HIDE DEF p, x
<1>2. /\ p \o x \in Seq(Bytes) /\ Len(p \o x) = Len(p) + Len(x)
      /\ \A i \in 1 .. Len(x) : (p \o x)[Len(p) + i] = x[i]
    BY <1>1, Joined
<1> QED
    BY <1>1, <1>2 DEF p, x

\* The length in front of the message has a representation.
Fits(m) == Len(Encoding(m)) < LenMod

\* What is read out of a message that fits is what was written for its text.
LEMMA TextIsRead ==
    ASSUME NEW m \in Messages, m.text # << >>, Fits(m)
    PROVE  ReadText(Encoding(m), m) = WithCrlf(m.text)
PROOF
<1> DEFINE t == WithCrlf(m.text)
           p == Len(PlainPart(m))
           e == Encoding(m)
           x == Text(m)
<1>1. t \in Seq(Chars)
    <2>1. m.text \in Seq(Chars)
        BY MessageBuffersAssumption DEF Chars
    <2> QED
        BY <2>1, TextTypes
<1>2. /\ x \in Seq(Bytes) /\ Len(x) = 2 + Len(t)
      /\ x[1] = [msg |-> m.id, byte |-> 1, value |-> Len(t) % LenMod]
      /\ \A i \in 1 .. Len(t) : x[2 + i] = [msg |-> m.id, byte |-> t[i]]
    BY TextType
<1>3. /\ Len(e) = p + Len(x) /\ \A i \in 1 .. Len(x) : e[p + i] = x[i]
    BY EncodingType
<1>4. p \in Nat /\ Len(t) \in Nat
    BY <1>1, PlainType
<1>5. ReadText(e, m) = [i \in 1 .. e[p + 1].value |-> e[p + 1 + LenSize + i - 1].byte]
    BY DEF ReadText
<1>6. Len(e) < LenMod
    BY DEF Fits
<1> HIDE DEF t, p, e, x
<1>7. LenMod \in Nat /\ Len(t) < LenMod
    BY <1>2, <1>3, <1>4, <1>6, MessageBuffersAssumption
<1>8. Len(t) % LenMod = Len(t)
    BY <1>4, <1>7, NotCut
<1>9. e[p + 1].value = Len(t)
    <2>1. 1 \in 1 .. Len(x)
        BY <1>2, <1>4
    <2>2. e[p + 1] = x[1]
        BY <1>3, <2>1
    <2> QED
        BY <1>2, <1>8, <2>2
<1>10. \A i \in 1 .. Len(t) : e[p + 1 + LenSize + i - 1].byte = t[i]
    <2> TAKE i \in 1 .. Len(t)
    <2>1. 2 + i \in 1 .. Len(x) /\ p + 1 + LenSize + i - 1 = p + (2 + i)
        BY <1>2, <1>4 DEF LenSize
    <2>2. e[p + (2 + i)] = x[2 + i] /\ x[2 + i] = [msg |-> m.id, byte |-> t[i]]
        BY <1>2, <1>3, <2>1
    <2> QED
        BY <2>1, <2>2
<1>11. ReadText(e, m) = [i \in 1 .. Len(t) |-> t[i]]
    BY <1>5, <1>9, <1>10
<1>12. t = [i \in 1 .. Len(t) |-> t[i]]
    BY <1>1
<1> QED
    BY <1>11, <1>12 DEF t, e

-----------------------------------------------------------------------------
(* The frames of a PacketBuf *)

Frame(m) == LenField("length", Len(Encoding(m))) \o Encoding(m)
Frames == [k \in DOMAIN kept |-> Frame(kept[k])]

LEMMA FrameType ==
    ASSUME NEW m \in Messages
    PROVE  /\ Frame(m) \in Seq(Bytes) /\ Len(Frame(m)) = 2 + Len(Encoding(m))
           /\ Len(Encoding(m)) \in Nat
           /\ Frame(m)[1] = [msg |-> "length", byte |-> 1, value |-> Len(Encoding(m)) % LenMod]
           /\ \A i \in 1 .. Len(Encoding(m)) : Frame(m)[2 + i] = Encoding(m)[i]
PROOF
<1> DEFINE e == Encoding(m)
           n == Len(e)
           l == LenField("length", n)
<1>1. e \in Seq(Bytes) /\ Frame(m) = l \o e
    BY EncodingType DEF Frame
<1> HIDE DEF e
<1>2. n \in Nat
    BY <1>1
<1> HIDE DEF n
<1>3. /\ l \in Seq(Bytes) /\ Len(l) = 2
      /\ \A i \in 1 .. 2 : l[i] = [msg |-> "length", byte |-> i, value |-> n % LenMod]
    BY <1>2, LenFieldType
<1> HIDE DEF l
<1>4. /\ l \o e \in Seq(Bytes) /\ Len(l \o e) = Len(l) + Len(e)
      /\ \A i \in 1 .. Len(l) : (l \o e)[i] = l[i]
      /\ \A i \in 1 .. Len(e) : (l \o e)[Len(l) + i] = e[i]
    <2>1. l \in Seq(Bytes)
        BY <1>3
    <2> QED
        BY <1>1, <2>1, Joined
<1>5. l[1] = [msg |-> "length", byte |-> 1, value |-> n % LenMod] /\ 1 \in 1 .. Len(l)
    BY <1>3
<1> QED
    BY <1>1, <1>2, <1>3, <1>4, <1>5 DEF e, n

\* The buffer is the frames of the messages kept, behind each other; onto is empty
\* unless an encoding failed since the last Message.
IInv ==
    /\ kept \in Seq(Messages)
    /\ buf = FlattenSeq(Frames)
    /\ onto \in Seq(Bytes) /\ failures \in Nat
    /\ failures = 0 => onto = << >>
    /\ CleanWithoutFailure

LEMMA FramesType ==
    ASSUME kept \in Seq(Messages)
    PROVE  Frames \in Seq(Seq(Bytes)) /\ Len(Frames) = Len(kept) /\ FlattenSeq(Frames) \in Seq(Bytes)
PROOF
<1>1. DOMAIN kept = 1 .. Len(kept) /\ Len(kept) \in Nat /\ \A k \in 1 .. Len(kept) : kept[k] \in Messages
    OBVIOUS
<1>2. \A k \in 1 .. Len(kept) : Frame(kept[k]) \in Seq(Bytes)
    BY <1>1, FrameType
<1>3. Frames \in [1 .. Len(kept) -> Seq(Bytes)]
    BY <1>1, <1>2 DEF Frames
<1>4. Frames \in Seq(Seq(Bytes)) /\ Len(Frames) = Len(kept)
    BY <1>1, <1>3, SeqIs
<1> HIDE DEF Frames
<1>5. << >> \in Seq(Bytes)
    OBVIOUS
<1> QED
    BY <1>4, <1>5, FlattenAppend

LEMMA InitInv == Init => IInv
PROOF
<1> SUFFICES ASSUME Init PROVE IInv
    OBVIOUS
<1>1. Frames = << >>
    BY DEF Init, Frames
<1>2. FlattenSeq(Frames) = << >>
    BY <1>1 DEF FlattenSeq
<1> QED
    BY <1>2 DEF Init, IInv, CleanWithoutFailure

\* A string for which there is no room leaves the PacketBuf as it was.
LEMMA TruncateRestores ==
    ASSUME NEW b \in Seq(Bytes), NEW m \in Messages
    PROVE  Truncated(b \o LenField("length", 0) \o PlainPart(m), Len(b)) = b
PROOF
<1> DEFINE l == LenField("length", 0)
           p == PlainPart(m)
<1>1. l \in Seq(Bytes) /\ p \in Seq(Bytes)
    BY LenFieldType, PlainType
<1> HIDE DEF l, p
<1> QED
    BY <1>1 DEF Truncated

LEMMA StepInv == IInv /\ [Next]_vars => IInv'
PROOF
<1> SUFFICES ASSUME IInv, [Next]_vars PROVE IInv'
    OBVIOUS
<1>0. buf \in Seq(Bytes)
    BY FramesType DEF IInv
<1>1. CASE Clear
    <2>1. kept' = << >> /\ Frames' = << >>
        BY <1>1 DEF Clear, Frames
    <2>2. FlattenSeq(Frames') = << >>
        BY <2>1 DEF FlattenSeq
    <2> QED
        BY <1>1, <2>1, <2>2 DEF Clear, IInv, CleanWithoutFailure
<1>2. ASSUME NEW m \in Messages, NEW spare \in Spares, Encode(m, spare) PROVE IInv'
    <2> DEFINE K == kept
               fs == Frames
               f == Frame(m)
    <2>1. K \in Seq(Messages) /\ kept' = Append(K, m)
        BY <1>2 DEF Encode, IInv
    <2>2. f \in Seq(Bytes) /\ fs \in Seq(Seq(Bytes)) /\ Len(fs) = Len(K)
        BY <2>1, FrameType, FramesType
    <2>3. Frames' = Append(fs, f)
        <3>1. /\ kept' \in Seq(Messages) /\ Len(kept') = Len(K) + 1 /\ Len(K) \in Nat
              /\ DOMAIN kept' = 1 .. Len(K) + 1 /\ DOMAIN K = 1 .. Len(K)
              /\ kept'[Len(K) + 1] = m /\ \A i \in 1 .. Len(K) : kept'[i] = K[i]
            BY <2>1
        <3>2. fs = [k \in 1 .. Len(K) |-> Frame(K[k])]
            BY <3>1 DEF Frames
        <3>3. Frames' = [k \in 1 .. Len(K) + 1 |-> Frame(kept'[k])]
            BY <3>1 DEF Frames
        <3> HIDE DEF fs
        <3>4. Append(fs, f) = [k \in 1 .. Len(K) + 1 |-> IF k = Len(K) + 1 THEN f ELSE fs[k]]
            <4> HIDE DEF f
            <4> QED
                BY <2>2, <3>1, AppendIs
        <3>5. \A k \in 1 .. Len(K) + 1 :
                    Frame(kept'[k]) = IF k = Len(K) + 1 THEN f ELSE fs[k]
            <4> TAKE k \in 1 .. Len(K) + 1
            <4>1. CASE k = Len(K) + 1
                BY <3>1, <4>1
            <4>2. CASE k # Len(K) + 1
                <5>1. k \in 1 .. Len(K)
                    BY <3>1, <4>2
                <5> QED
                    BY <3>1, <3>2, <4>2, <5>1
            <4> QED
                BY <4>1, <4>2
        <3> QED
            BY <3>3, <3>4, <3>5
    <2>4. FlattenSeq(Append(fs, f)) = FlattenSeq(fs) \o f
        <3> HIDE DEF fs, f
        <3> QED
            BY <2>2, FlattenAppend
    <2>5. buf' = buf \o f
        <3>1. buf' = buf \o LenField("length", Len(Encoding(m))) \o Encoding(m)
            BY <1>2 DEF Encode
        <3>2. Encoding(m) \in Seq(Bytes) /\ Len(Encoding(m)) \in Nat
            BY EncodingType, FrameType
        <3>3. LenField("length", Len(Encoding(m))) \in Seq(Bytes)
            BY <3>2, LenFieldType
        <3> QED
            BY <1>0, <3>1, <3>2, <3>3 DEF Frame
    <2>6. buf' = FlattenSeq(Frames')
        BY <2>3, <2>4, <2>5 DEF IInv
    <2>7. kept' \in Seq(Messages)
        BY <2>1
    <2> QED
        BY <1>2, <2>6, <2>7 DEF Encode, IInv, CleanWithoutFailure
<1>3. ASSUME NEW m \in Messages, NEW spare \in Spares, EncodeFails(m, spare) PROVE IInv'
    <2>1. buf' = buf
        BY <1>0, <1>3, TruncateRestores DEF EncodeFails
    <2> QED
        BY <1>3, <2>1 DEF EncodeFails, IInv, CleanWithoutFailure, Frames
<1>4. ASSUME NEW m \in Messages, NEW spare \in Spares, EncodeOnto(m, spare) PROVE IInv'
    <2>1. Encoding(m) \in Seq(Bytes)
        BY EncodingType
    <2>2. failures = 0 => onto \o Encoding(m) = Encoding(m)
        BY <2>1 DEF IInv
    <2>3. CleanWithoutFailure'
        BY <1>4, <2>2 DEF EncodeOnto, CleanWithoutFailure
    <2> QED
        BY <1>4, <2>3 DEF EncodeOnto, LeftBySplit, IInv, Frames
<1>5. ASSUME NEW m \in Messages, NEW spare \in Spares, EncodeOntoFails(m, spare) PROVE IInv'
    <2>1. onto' \in Seq(Bytes)
        BY <1>5, PlainType DEF EncodeOntoFails, IInv
    <2>2. failures' \in Nat /\ failures' # 0
        BY <1>5 DEF EncodeOntoFails, IInv
    <2> QED
        BY <1>5, <2>1, <2>2 DEF EncodeOntoFails, IInv, Frames, CleanWithoutFailure
<1>6. CASE UNCHANGED vars
    BY <1>6 DEF vars, IInv, Frames, CleanWithoutFailure
<1> QED
    BY <1>1, <1>2, <1>3, <1>4, <1>5, <1>6 DEF Next

\* The invariant holds in every run.
THEOREM Invariance == Spec => []IInv
PROOF
<1>1. Init => IInv
    BY InitInv
<1>2. IInv /\ [Next]_vars => IInv'
    BY StepInv
<1> QED
    BY <1>1, <1>2, PTL DEF Spec

\* A Message split off an EncodeBuf holds its own encoding, and nothing of the
\* messages before it, unless an encoding failed in between (encode.rs).
THEOREM MessagesAreClean == Spec => []CleanWithoutFailure
PROOF
<1>1. IInv => CleanWithoutFailure
    BY DEF IInv
<1> QED
    BY <1>1, Invariance, PTL

-----------------------------------------------------------------------------
(* Reading the frames *)

\* end[k] is where the first k of seqs end in flat.
EndsAt(end, seqs, flat) ==
    /\ end[0] = 0 /\ end[Len(seqs)] = Len(flat)
    /\ \A k \in 1 .. Len(seqs) :
        /\ end[k] = end[k - 1] + Len(seqs[k])
        /\ end[k] <= Len(flat)
        /\ \A i \in 1 .. Len(seqs[k]) : flat[end[k - 1] + i] = seqs[k][i]

\* Where the elements of seqs are in its flattening.
LEMMA FlattenLayout ==
    ASSUME NEW X, NEW seqs \in Seq(Seq(X))
    PROVE  \E end \in [0 .. Len(seqs) -> Nat] : EndsAt(end, seqs, FlattenSeq(seqs))
PROOF
<1> DEFINE N == Len(seqs)
<1>1. N \in Nat /\ \A k \in 1 .. N : seqs[k] \in Seq(X) /\ Len(seqs[k]) \in Nat
    OBVIOUS
<1>2. CASE N = 0
    <2>1. seqs = << >>
        BY <1>2
    <2>2. FlattenSeq(seqs) = << >>
        BY <2>1 DEF FlattenSeq
    <2> DEFINE end == [k \in 0 .. N |-> 0]
    <2>3. end \in [0 .. N -> Nat] /\ end[0] = 0 /\ end[N] = 0
        BY <1>1
    <2>4. EndsAt(end, seqs, FlattenSeq(seqs))
        BY <1>2, <2>2, <2>3 DEF EndsAt
    <2> QED
        BY <2>3, <2>4
<1>3. CASE N # 0
    <2>1. PICK F \in [1 .. N -> Seq(X)] : Flattens(F, seqs) /\ FlattenSeq(seqs) = F[N]
        BY <1>3, FlattenFcn
    <2> DEFINE end == [k \in 0 .. N |-> IF k = 0 THEN 0 ELSE Len(F[k])]
    <2>2. \A k \in 1 .. N : F[k] \in Seq(X) /\ Len(F[k]) \in Nat /\ end[k] = Len(F[k])
        <3> TAKE k \in 1 .. N
        <3>1. F[k] \in Seq(X)
            BY <2>1
        <3>2. k \in 0 .. N /\ k # 0
            BY <1>1
        <3>3. end[k] = Len(F[k])
            BY <3>2
        <3> QED
            BY <3>1, <3>3
    <2>3. end \in [0 .. N -> Nat] /\ end[0] = 0
        BY <1>1, <2>2
    <2> HIDE DEF end
    <2>4. ASSUME NEW k \in 1 .. N
          PROVE  /\ end[k] = end[k - 1] + Len(seqs[k])
                 /\ \A i \in 1 .. Len(seqs[k]) : F[k][end[k - 1] + i] = seqs[k][i]
        <3>1. F[k] = IF k = 1 THEN seqs[k] ELSE F[k - 1] \o seqs[k]
            BY <2>1 DEF Flattens
        <3>2. CASE k = 1
            <4>1. F[k] = seqs[k] /\ end[k] = Len(F[k]) /\ k - 1 = 0 /\ end[k - 1] = 0
                BY <2>2, <2>3, <3>1, <3>2
            <4>2. \A i \in 1 .. Len(seqs[k]) : end[k - 1] + i = i
                BY <1>1, <4>1
            <4> QED
                BY <1>1, <4>1, <4>2
        <3>3. CASE k # 1
            <4>1. k - 1 \in 1 .. N
                BY <1>1, <3>3
            <4> DEFINE a == F[k - 1]
                       b == seqs[k]
            <4>2. a \in Seq(X) /\ b \in Seq(X) /\ F[k] = a \o b /\ end[k - 1] = Len(a) /\ end[k] = Len(F[k])
                BY <1>1, <2>2, <3>1, <3>3, <4>1
            <4> HIDE DEF a
            <4>3. /\ Len(a \o b) = Len(a) + Len(b)
                  /\ \A i \in 1 .. Len(b) : (a \o b)[Len(a) + i] = b[i]
                <5> HIDE DEF b
                <5> QED
                    BY <4>2, Joined
            <4> QED
                BY <4>2, <4>3
        <3> QED
            BY <3>2, <3>3
    <2> DEFINE P(j) == \A k \in 1 .. j :
                            /\ end[k] <= end[j]
                            /\ \A i \in 1 .. Len(seqs[k]) : F[j][end[k - 1] + i] = seqs[k][i]
               S == {j \in 0 .. N : P(j)}
    <2>5. \A k \in 0 .. N : end[k] \in Nat
        BY <2>3
    <2>6. ASSUME NEW j \in 0 .. N - 1, P(j) PROVE P(j + 1)
        <3>1. j + 1 \in 1 .. N /\ j \in 0 .. N /\ (j + 1) - 1 = j
            BY <1>1
        <3>2. end[j + 1] = end[j] + Len(seqs[j + 1]) /\ Len(seqs[j + 1]) \in Nat /\ end[j] \in Nat
            BY <1>1, <2>4, <2>5, <3>1
        <3> SUFFICES ASSUME NEW k \in 1 .. j + 1
                     PROVE  /\ end[k] <= end[j + 1]
                            /\ \A i \in 1 .. Len(seqs[k]) : F[j + 1][end[k - 1] + i] = seqs[k][i]
            OBVIOUS
        <3>3. CASE k = j + 1
            <4>1. \A i \in 1 .. Len(seqs[j + 1]) : F[j + 1][end[(j + 1) - 1] + i] = seqs[j + 1][i]
                BY <2>4, <3>1
            <4>2. end[j + 1] <= end[j + 1]
                BY <3>2
            <4> QED
                BY <3>3, <4>1, <4>2
        <3>4. CASE k # j + 1
            <4>1. k \in 1 .. j /\ k \in 1 .. N /\ k - 1 \in 0 .. N /\ k \in 0 .. N
                BY <3>1, <3>4
            <4>2. end[k] <= end[j] /\ end[k] \in Nat
                BY <2>5, <2>6, <4>1
            <4>3. end[k] <= end[j + 1]
                BY <3>2, <4>2
            <4> DEFINE a == F[j]
                       b == seqs[j + 1]
            <4>4. a \in Seq(X) /\ b \in Seq(X) /\ F[j + 1] = a \o b /\ Len(a) = end[j]
                <5>1. j \in 1 .. N /\ j + 1 # 1
                    BY <3>1, <4>1
                <5>2. F[j + 1] = F[(j + 1) - 1] \o seqs[j + 1]
                    BY <2>1, <3>1, <5>1 DEF Flattens
                <5> QED
                    BY <1>1, <2>2, <3>1, <5>1, <5>2
            <4> HIDE DEF a, b
            <4>5. \A i \in 1 .. Len(a) : (a \o b)[i] = a[i]
                BY <4>4, Joined
            <4>6. ASSUME NEW i \in 1 .. Len(seqs[k]) PROVE F[j + 1][end[k - 1] + i] = seqs[k][i]
                <5>1. end[k] = end[k - 1] + Len(seqs[k]) /\ end[k - 1] \in Nat /\ Len(seqs[k]) \in Nat
                    BY <1>1, <2>4, <2>5, <4>1
                <5>2. end[k - 1] + i \in 1 .. Len(a)
                    <6>1. Len(a) \in Nat /\ end[j] = Len(a)
                        BY <4>4
                    <6>2. i \in Nat /\ 1 <= i /\ i <= Len(seqs[k])
                        BY <5>1
                    <6> DEFINE x == end[k - 1]
                               y == end[k]
                               z == Len(seqs[k])
                    <6>3. x \in Nat /\ z \in Nat /\ y = x + z /\ y <= end[j]
                        BY <4>2, <5>1
                    <6> HIDE DEF x, y, z
                    <6>4. x + i \in 1 .. Len(a)
                        BY <6>1, <6>2, <6>3 DEF z
                    <6> QED
                        BY <6>4 DEF x
                <5>3. F[j][end[k - 1] + i] = seqs[k][i]
                    BY <2>6, <4>1
                <5> QED
                    BY <4>4, <4>5, <5>2, <5>3 DEF a
            <4> QED
                BY <4>3, <4>6
        <3> QED
            BY <3>3, <3>4
    <2>7. P(N)
        <3>1. 0 \in S
            BY <1>1
        <3>2. ASSUME NEW j \in 0 .. N - 1, j \in S PROVE j + 1 \in S
            <4>1. P(j + 1)
                <5> HIDE DEF P
                <5> QED
                    BY <2>6, <3>2
            <4>2. j + 1 \in 0 .. N
                BY <1>1
            <4> QED
                BY <4>1, <4>2
        <3> HIDE DEF S
        <3>3. \A j \in 0 .. N : j \in S
            BY <1>1, <3>1, <3>2, UpToInSet
        <3> HIDE DEF P
        <3>4. N \in 0 .. N
            BY <1>1
        <3> QED
            BY <3>3, <3>4 DEF S
    <2>8. end[N] = Len(F[N])
        BY <1>1, <1>3, <2>2
    <2>9. EndsAt(end, seqs, F[N])
        BY <2>3, <2>4, <2>7, <2>8 DEF EndsAt
    <2> QED
        BY <2>1, <2>3, <2>9
<1> QED
    BY <1>2, <1>3

\* One call of the iterator behind another.
NextFrom(i, rest) ==
    IF i > Len(buf) THEN << >>
    ELSE IF ~IsLength(i) \/ i + LenSize + buf[i].value > Len(buf) + 1 THEN <<Misread>>
    ELSE <<SubSeq(buf, i + LenSize, i + LenSize + buf[i].value - 1)>>
            \o rest[i + LenSize + buf[i].value]

LEMMA IterEquation ==
    ASSUME buf \in Seq(Bytes)
    PROVE  \A i \in 1 .. Len(buf) + 1 : IterFrom[i] = NextFrom(i, IterFrom)
PROOF
<1> DEFINE N == Len(buf) + 1
           D == 1 .. N
           V == Seq(Seq(Bytes) \union {Misread})
           step == [i \in D |-> [g \in [D -> V] |-> NextFrom(i, g)]]
           rank == [i \in D |-> N - i]
           Def(f) == f = [i \in 1 .. Len(buf) + 1 |->
                IF i > Len(buf) THEN << >>
                ELSE IF ~IsLength(i) \/ i + LenSize + buf[i].value > Len(buf) + 1 THEN <<Misread>>
                ELSE <<SubSeq(buf, i + LenSize, i + LenSize + buf[i].value - 1)>>
                        \o f[i + LenSize + buf[i].value]]
           F == CHOOSE f : Def(f)
<1>1. N \in Nat /\ Len(buf) \in Nat /\ N = Len(buf) + 1
    OBVIOUS
<1>2. V # {} /\ rank \in [D -> 0 .. N] /\ << >> \in V /\ <<Misread>> \in V
    <2>1. << >> \in V /\ <<Misread>> \in V
        OBVIOUS
    <2>2. \A i \in D : N - i \in 0 .. N
        BY <1>1
    <2>3. rank \in [D -> 0 .. N]
        BY <2>2
    <2> QED
        BY <2>1, <2>3
\* The call reads a length and moves on by at least its size.
<1>3. ASSUME NEW i \in D, i <= Len(buf), IsLength(i), i + LenSize + buf[i].value <= Len(buf) + 1
      PROVE  /\ i + LenSize + buf[i].value \in D /\ i < i + LenSize + buf[i].value
             /\ <<SubSeq(buf, i + LenSize, i + LenSize + buf[i].value - 1)>> \in V
    <2>1. buf[i] \in Bytes /\ buf[i].msg = "length"
        BY <1>1, <1>3 DEF IsLength
    <2>2. "length" \notin Ids
        BY MessageBuffersAssumption DEF Ids
    <2>3. buf[i].value \in Nat
        BY <2>1, <2>2 DEF Bytes
    <2> DEFINE v == buf[i].value
               p == i + LenSize
               q == p + v - 1
    <2>4. p \in Nat /\ p >= 1 /\ q \in Nat /\ q <= Len(buf)
        BY <1>1, <1>3, <2>3 DEF LenSize
    <2>5. SubSeq(buf, p, q) \in Seq(Bytes)
        <3> HIDE DEF p, q
        <3>1. \A j \in p .. q : j \in 1 .. Len(buf)
            BY <1>1, <2>4
        <3>2. \A j \in p .. q : buf[j] \in Bytes
            BY <3>1
        <3> QED
            BY <2>4, <3>2
    <2>6. <<SubSeq(buf, p, q)>> \in V
        BY <2>5
    <2> QED
        BY <1>1, <1>3, <2>3, <2>6 DEF LenSize
<1>4. step \in [D -> [[D -> V] -> V]]
    <2> SUFFICES ASSUME NEW i \in D, NEW g \in [D -> V] PROVE NextFrom(i, g) \in V
        OBVIOUS
    <2>1. CASE i > Len(buf) \/ ~IsLength(i) \/ i + LenSize + buf[i].value > Len(buf) + 1
        BY <1>2, <2>1 DEF NextFrom
    <2>2. CASE ~(i > Len(buf)) /\ IsLength(i) /\ ~(i + LenSize + buf[i].value > Len(buf) + 1)
        <3> DEFINE a == <<SubSeq(buf, i + LenSize, i + LenSize + buf[i].value - 1)>>
                   j == i + LenSize + buf[i].value
        <3>0. i <= Len(buf) /\ i + LenSize + buf[i].value <= Len(buf) + 1
            <4>1. buf[i] \in Bytes /\ buf[i].msg = "length" /\ i \in Nat
                BY <1>1, <2>2 DEF IsLength
            <4>2. "length" \notin Ids
                BY MessageBuffersAssumption DEF Ids
            <4>3. buf[i].value \in Nat
                BY <4>1, <4>2 DEF Bytes
            <4> QED
                BY <1>1, <2>2, <4>1, <4>3 DEF LenSize
        <3>1. j \in D /\ a \in V
            BY <1>3, <2>2, <3>0
        <3>2. NextFrom(i, g) = a \o g[j]
            BY <2>2 DEF NextFrom
        <3> HIDE DEF a, j, D
        <3>3. g[j] \in V
            BY <3>1
        <3> QED
            BY <3>1, <3>2, <3>3
    <2> QED
        BY <2>1, <2>2
<1>5. Local(D, rank, V, step)
    <2> SUFFICES ASSUME NEW i \in D, NEW g \in [D -> V], NEW h \in [D -> V],
                        \A j \in D : rank[j] < rank[i] => g[j] = h[j]
                 PROVE  NextFrom(i, g) = NextFrom(i, h)
        BY DEF Local
    <2>1. CASE i > Len(buf) \/ ~IsLength(i) \/ i + LenSize + buf[i].value > Len(buf) + 1
        BY <2>1 DEF NextFrom
    <2>2. CASE ~(i > Len(buf)) /\ IsLength(i) /\ ~(i + LenSize + buf[i].value > Len(buf) + 1)
        <3> DEFINE j == i + LenSize + buf[i].value
        <3>1. i <= Len(buf) /\ j <= Len(buf) + 1
            <4>1. buf[i] \in Bytes /\ buf[i].msg = "length" /\ i \in Nat
                BY <1>1, <2>2 DEF IsLength
            <4>2. "length" \notin Ids
                BY MessageBuffersAssumption DEF Ids
            <4>3. buf[i].value \in Nat
                BY <4>1, <4>2 DEF Bytes
            <4> QED
                BY <1>1, <2>2, <4>1, <4>3 DEF LenSize
        <3>2. j \in D /\ i < j
            BY <1>3, <2>2, <3>1
        <3> HIDE DEF j
        <3>3. rank[j] < rank[i]
            BY <1>1, <3>2
        <3>4. g[j] = h[j]
            BY <3>2, <3>3
        <3> QED
            BY <2>2, <3>4 DEF NextFrom, j
    <2> QED
        BY <2>1, <2>2
<1>6. PICK f \in [D -> V] : \A i \in D : f[i] = step[i][f]
    <2>1. Recursive(D, N, rank, V, step)
        <3> HIDE DEF D, V, step, rank, N
        <3> QED
            BY <1>1, <1>2, <1>4, <1>5 DEF Recursive
    <2> HIDE DEF D, V, step, rank, N
    <2> QED
        BY <2>1, RecursionExists
<1>7. Def(f)
    <2>1. \A i \in D : f[i] = NextFrom(i, f)
        BY <1>6
    <2>2. f = [i \in D |-> NextFrom(i, f)]
        <3> HIDE DEF D, V
        <3> QED
            BY <2>1
    <2> QED
        BY <2>2 DEF NextFrom
<1>8. Def(F)
    <2> HIDE DEF Def
    <2> QED
        BY <1>7
<1>9. IterFrom = F
    BY DEF IterFrom
<1> HIDE DEF F
<1> QED
    BY <1>8, <1>9 DEF NextFrom

\* The iterator at the frame of a message that fits yields the message, and goes
\* on behind it.
LEMMA FrameIsRead ==
    ASSUME buf \in Seq(Bytes), NEW m \in Messages, Fits(m), NEW at \in Nat,
           at + Len(Frame(m)) <= Len(buf),
           \A i \in 1 .. Len(Frame(m)) : buf[at + i] = Frame(m)[i]
    PROVE  IterFrom[at + 1] = <<Encoding(m)>> \o IterFrom[at + Len(Frame(m)) + 1]
PROOF
<1> DEFINE e == Encoding(m)
           f == Frame(m)
           n == Len(e)
           L == Len(buf)
<1>1. /\ Len(f) = 2 + n /\ n \in Nat /\ f[1] = [msg |-> "length", byte |-> 1, value |-> n % LenMod]
      /\ \A i \in 1 .. n : f[2 + i] = e[i]
    BY FrameType
<1>2. n % LenMod = n
    <2>1. n \in Nat /\ n < LenMod /\ LenMod \in Nat
        BY <1>1, MessageBuffersAssumption DEF Fits
    <2> HIDE DEF n
    <2> QED
        BY <2>1, NotCut
<1>3. e \in Seq(Bytes) /\ L \in Nat /\ at + Len(f) <= L /\ \A i \in 1 .. Len(f) : buf[at + i] = f[i]
    BY EncodingType
<1> HIDE DEF e, f
<1>4. buf[at + 1] = f[1]
    <2>1. 1 \in 1 .. Len(f)
        BY <1>1
    <2> QED
        BY <1>3, <2>1
<1> HIDE DEF n, L
<1>5. buf[at + 1].msg = "length" /\ buf[at + 1].byte = 1 /\ buf[at + 1].value = n
    BY <1>1, <1>2, <1>4
<1>6. /\ at + 1 \in 1 .. L + 1 /\ ~(at + 1 > L) /\ (at + 1) + 1 <= L
      /\ ~((at + 1) + 2 + n > L + 1) /\ (at + 1) + 2 + n = at + Len(f) + 1
    BY <1>1, <1>3
<1>7. IsLength(at + 1)
    BY <1>5, <1>6 DEF IsLength, L
<1>8. SubSeq(buf, (at + 1) + 2, (at + 1) + 2 + n - 1) = e
    <2> DEFINE p == (at + 1) + 2
               q == (at + 1) + 2 + n - 1
               s == SubSeq(buf, p, q)
    <2>1. p \in Nat /\ q \in Int /\ p >= 1 /\ q <= L /\ q - p + 1 = n /\ q >= p - 1
        BY <1>1, <1>3, <1>6
    <2>2. \A i \in 1 .. n : p + i - 1 = at + (2 + i) /\ 2 + i \in 1 .. Len(f)
        BY <1>1
    <2> HIDE DEF p, q
    <2>3. s \in Seq(Bytes) /\ Len(s) = n /\ \A i \in 1 .. n : s[i] = buf[p + i - 1]
        BY <1>1, <2>1 DEF L
    <2> HIDE DEF s
    <2>4. \A i \in 1 .. n : s[i] = e[i]
        BY <1>1, <1>3, <2>2, <2>3
    <2>5. Len(e) = n
        BY DEF n
    <2>6. s = e
        BY <1>3, <2>3, <2>4, <2>5, SeqEqual
    <2> QED
        BY <2>6 DEF s, p, q
<1>9. IterFrom[at + 1] = NextFrom(at + 1, IterFrom)
    BY <1>6, IterEquation DEF L
<1>10. NextFrom(at + 1, IterFrom) =
            <<SubSeq(buf, (at + 1) + 2, (at + 1) + 2 + n - 1)>> \o IterFrom[(at + 1) + 2 + n]
    BY <1>5, <1>6, <1>7 DEF NextFrom, LenSize, L
<1> QED
    BY <1>6, <1>8, <1>9, <1>10 DEF e, f

\* The whole iteration, from its end to the first frame.
LEMMA KeptAreRead ==
    ASSUME kept \in Seq(Messages), buf = FlattenSeq(Frames), \A k \in DOMAIN kept : Fits(kept[k])
    PROVE  PacketsAreTheMessages
PROOF
<1> DEFINE N == Len(kept)
           V == Seq(Bytes)
<1>1. /\ N \in Nat /\ DOMAIN kept = 1 .. N
      /\ \A k \in 1 .. N : kept[k] \in Messages /\ Fits(kept[k])
    OBVIOUS
<1>2. Frames \in Seq(Seq(Bytes)) /\ Len(Frames) = N /\ buf \in Seq(Bytes)
    BY FramesType
<1>3. \A k \in 1 .. N : Frames[k] = Frame(kept[k])
    BY <1>1 DEF Frames
<1>4. PICK end \in [0 .. N -> Nat] : EndsAt(end, Frames, buf)
    BY <1>2, FlattenLayout
<1> DEFINE P(j) == IterFrom[end[N - j] + 1] = [k \in 1 .. j |-> Encoding(kept[N - j + k])]
           S == {j \in 0 .. N : P(j)}
<1>5. P(0)
    <2>1. end[N] = Len(buf) /\ N - 0 = N /\ Len(buf) \in Nat
        BY <1>1, <1>2, <1>4 DEF EndsAt
    <2>2. IterFrom[Len(buf) + 1] = << >>
        <3>1. Len(buf) + 1 \in 1 .. Len(buf) + 1 /\ Len(buf) + 1 > Len(buf)
            BY <2>1
        <3> QED
            BY <1>2, <3>1, IterEquation DEF NextFrom
    <2>3. [k \in 1 .. 0 |-> Encoding(kept[N - 0 + k])] = << >>
        OBVIOUS
    <2> QED
        BY <2>1, <2>2, <2>3
<1>6. ASSUME NEW j \in 0 .. N - 1, P(j) PROVE P(j + 1)
    <2> DEFINE k == N - j
               m == kept[k]
               at == end[k - 1]
    <2>1. k \in 1 .. N /\ k - 1 \in 0 .. N /\ k - 1 = N - (j + 1) /\ j \in Nat
        BY <1>1
    <2>2. m \in Messages /\ Fits(m) /\ Frames[k] = Frame(m)
        BY <1>1, <1>3, <2>1
    <2>3. /\ end[k] = at + Len(Frames[k]) /\ end[k] <= Len(buf)
          /\ \A i \in 1 .. Len(Frames[k]) : buf[at + i] = Frames[k][i]
        BY <1>2, <1>4, <2>1 DEF EndsAt
    <2>4. at \in Nat
        BY <1>4, <2>1
    <2>5. IterFrom[at + 1] = <<Encoding(m)>> \o IterFrom[end[k] + 1]
        <3> HIDE DEF m, at, k
        <3>1. /\ at + Len(Frame(m)) <= Len(buf)
              /\ \A i \in 1 .. Len(Frame(m)) : buf[at + i] = Frame(m)[i]
            BY <2>2, <2>3
        <3>2. IterFrom[at + 1] = <<Encoding(m)>> \o IterFrom[at + Len(Frame(m)) + 1]
            BY <1>2, <2>2, <2>4, <3>1, FrameIsRead
        <3> QED
            BY <2>2, <2>3, <3>2
    <2> DEFINE g == [i \in 1 .. j + 1 |-> Encoding(kept[N - (j + 1) + i])]
    <2>6. g \in [1 .. j + 1 -> V]
        <3>1. \A i \in 1 .. j + 1 : N - (j + 1) + i \in 1 .. N
            BY <1>1
        <3>2. \A i \in 1 .. j + 1 : Encoding(kept[N - (j + 1) + i]) \in V
            BY <1>1, <3>1, EncodingType
        <3> QED
            BY <3>2
    <2>7. g[1] = Encoding(m)
        <3>1. 1 \in 1 .. j + 1 /\ N - (j + 1) + 1 = k
            BY <1>1, <2>1
        <3> QED
            BY <3>1
    <2>8. [i \in 1 .. j |-> g[i + 1]] = [i \in 1 .. j |-> Encoding(kept[N - j + i])]
        <3>1. \A i \in 1 .. j : i + 1 \in 1 .. j + 1 /\ N - (j + 1) + (i + 1) = N - j + i
            BY <1>1, <2>1
        <3> QED
            BY <3>1
    <2>9. <<g[1]>> \o [i \in 1 .. j |-> g[i + 1]] = g
        <3> HIDE DEF g, V
        <3> QED
            BY <2>1, <2>6, Prepended
    <2>10. IterFrom[end[N - j] + 1] = [i \in 1 .. j |-> Encoding(kept[N - j + i])]
        BY <1>6
    <2>11. IterFrom[at + 1] = g
        <3> HIDE DEF g, at, m
        <3> QED
            BY <2>5, <2>7, <2>8, <2>9, <2>10
    <2> QED
        BY <2>1, <2>11
<1>7. P(N)
    <2>1. 0 \in S
        BY <1>1, <1>5
    <2>2. ASSUME NEW j \in 0 .. N - 1, j \in S PROVE j + 1 \in S
        <3>1. P(j + 1)
            <4> HIDE DEF P
            <4> QED
                BY <1>6, <2>2
        <3>2. j + 1 \in 0 .. N
            BY <1>1
        <3> QED
            BY <3>1, <3>2
    <2> HIDE DEF S
    <2>3. \A j \in 0 .. N : j \in S
        BY <1>1, <2>1, <2>2, UpToInSet
    <2> HIDE DEF P
    <2>4. N \in 0 .. N
        BY <1>1
    <2> QED
        BY <2>3, <2>4 DEF S
<1>8. end[N - N] + 1 = 1
    <2>1. end[0] = 0 /\ N - N = 0
        BY <1>1, <1>4 DEF EndsAt
    <2> QED
        BY <2>1
<1>9. \A k \in 1 .. N : N - N + k = k
    BY <1>1
<1>10. IterFrom[1] = [k \in 1 .. N |-> Encoding(kept[k])]
    BY <1>7, <1>8, <1>9
<1> QED
    BY <1>1, <1>10 DEF PacketsAreTheMessages, Packets

\* What the iterator of a PacketBuf yields is the messages that were encoded into
\* it with success, whole and in order, and no byte of one whose encoding failed,
\* as long as the length of each of them has a representation in the 16 bits in
\* front of it (packet_buf.rs).
THEOREM MessagesAreRead ==
    Spec => []((\A k \in DOMAIN kept : Fits(kept[k])) => PacketsAreTheMessages)
PROOF
<1>1. IInv => ((\A k \in DOMAIN kept : Fits(kept[k])) => PacketsAreTheMessages)
    BY KeptAreRead DEF IInv
<1> QED
    BY <1>1, Invariance, PTL

\* The string that is read out of an iterated message has the lines that were
\* written, each ended by CRLF, whatever CRs and LFs the program put into it, under
\* the same condition (string.rs, packet_buf.rs).
THEOREM LinesAreRead ==
    Spec => []((\A k \in DOMAIN kept : Fits(kept[k])) => LinesSurvive)
PROOF
<1>1. IInv => ((\A k \in DOMAIN kept : Fits(kept[k])) => LinesSurvive)
    <2> SUFFICES ASSUME IInv, \A k \in DOMAIN kept : Fits(kept[k]),
                        NEW k \in DOMAIN kept, kept[k].text # << >>
                 PROVE  /\ Unix(ReadText(Packets[k], kept[k])) = Unix(kept[k].text)
                        /\ WholeBreaks(ReadText(Packets[k], kept[k]))
        BY DEF LinesSurvive, WholeBreaks
    <2>1. Packets[k] = Encoding(kept[k])
        <3>1. PacketsAreTheMessages
            BY KeptAreRead DEF IInv
        <3> QED
            BY <3>1 DEF PacketsAreTheMessages
    <2>2. kept[k] \in Messages /\ Fits(kept[k])
        BY DEF IInv
    <2>3. ReadText(Encoding(kept[k]), kept[k]) = WithCrlf(kept[k].text)
        BY <2>2, TextIsRead
    <2>4. kept[k].text \in Seq(Chars)
        BY <2>2, MessageBuffersAssumption DEF Chars
    <2>5. Unix(WithCrlf(kept[k].text)) = Unix(kept[k].text) /\ WholeBreaks(WithCrlf(kept[k].text))
        BY <2>4, CrlfKeepsLines
    <2> QED
        BY <2>1, <2>3, <2>5
<1> QED
    BY <1>1, Invariance, PTL
=============================================================================
