--------------------------- MODULE PacketCodec_proofs ---------------------------
(***************************************************************************)
(* Theorems about PacketCodec, for any packets, bytes and texts: what is   *)
(* faithful is decoded as it was encoded, a packet that is cut is noticed, *)
(* and the lengths that are computed beforehand are those of the bytes.    *)
(***************************************************************************)
EXTENDS PacketCodec, DataInduction

-----------------------------------------------------------------------------
(* Sums of lengths *)

\* The recursive definition of Total is the equation it looks like.
LEMMA TotalIs ==
    ASSUME NEW n \in Nat, NEW f \in [1 .. n -> Nat]
    PROVE  \A k \in 0 .. n : /\ Total(f, k) \in Nat
                             /\ Total(f, k) = IF k = 0 THEN 0 ELSE Total(f, k - 1) + f[k]
PROOF
<1> DEFINE D == 0 .. n
           rank == [i \in D |-> i]
           step == [i \in D |-> [g \in [D -> Nat] |-> IF i = 0 THEN 0 ELSE g[i - 1] + f[i]]]
<1>1. ASSUME NEW i \in D, i # 0 PROVE i - 1 \in D /\ i \in 1 .. n /\ i - 1 < i
    BY <1>1
<1>2. rank \in [D -> 0 .. n] /\ \A i \in D : rank[i] = i
    OBVIOUS
<1>3. step \in [D -> [[D -> Nat] -> Nat]]
    <2> SUFFICES ASSUME NEW i \in D, NEW g \in [D -> Nat]
                 PROVE  (IF i = 0 THEN 0 ELSE g[i - 1] + f[i]) \in Nat
        OBVIOUS
    <2>1. CASE i = 0
        BY <2>1
    <2>2. CASE i # 0
        <3>1. g[i - 1] \in Nat /\ f[i] \in Nat
            BY <1>1, <2>2
        <3> QED
            BY <3>1
    <2> QED
        BY <2>1, <2>2
<1>4. \A i \in D : \A g \in [D -> Nat] : step[i][g] = IF i = 0 THEN 0 ELSE g[i - 1] + f[i]
    OBVIOUS
<1> HIDE DEF D, rank, step
<1>5. Local(D, rank, Nat, step)
    <2> SUFFICES ASSUME NEW i \in D, NEW g \in [D -> Nat], NEW h \in [D -> Nat],
                        \A j \in D : rank[j] < rank[i] => g[j] = h[j]
                 PROVE  step[i][g] = step[i][h]
        BY DEF Local
    <2>1. i # 0 => g[i - 1] = h[i - 1]
        BY <1>1, <1>2
    <2> QED
        BY <1>4, <2>1
<1>6. Recursive(D, n, rank, Nat, step)
    BY <1>2, <1>3, <1>5 DEF Recursive
<1>7. PICK F \in [D -> Nat] : \A i \in D : F[i] = step[i][F]
    BY <1>6, RecursionExists
<1>8. \A i \in D : F[i] \in Nat /\ F[i] = IF i = 0 THEN 0 ELSE F[i - 1] + f[i]
    BY <1>4, <1>7
<1>9. ASSUME NEW k \in D PROVE Total(f, k) = F[k]
    <2> DEFINE Def(g) == g = [i \in 0 .. k |-> IF i = 0 THEN 0 ELSE g[i - 1] + f[i]]
               G == CHOOSE g : Def(g)
               H == [i \in 0 .. k |-> F[i]]
               S == {i \in 0 .. k : G[i] = F[i]}
    <2>0. k \in Nat /\ \A i \in 0 .. k : i \in D
        BY DEF D
    <2>1. \A i \in 0 .. k : i # 0 => i - 1 \in 0 .. k
        BY <2>0
    <2>2. H = [i \in 0 .. k |-> IF i = 0 THEN 0 ELSE H[i - 1] + f[i]]
        <3>1. \A i \in 0 .. k : H[i] = IF i = 0 THEN 0 ELSE H[i - 1] + f[i]
            BY <1>8, <2>0, <2>1
        <3> QED
            BY <3>1
    <2>3. Def(G)
        <3>1. Def(H)
            BY <2>2
        <3> HIDE DEF Def, H
        <3> QED
            BY <3>1, Zenon
    <2>4. \A i \in 0 .. k : G[i] = IF i = 0 THEN 0 ELSE G[i - 1] + f[i]
        <3> HIDE DEF G
        <3> QED
            BY <2>3
    <2>5. Total(f, k) = G[k]
        BY DEF Total
    <2> HIDE DEF G, H
    <2>6. 0 \in S
        BY <1>8, <2>0, <2>4
    <2>7. ASSUME NEW i \in 0 .. k - 1, i \in S PROVE i + 1 \in S
        <3>1. i + 1 \in 0 .. k /\ i + 1 # 0 /\ (i + 1) - 1 = i
            BY <2>0
        <3>2. G[i] = F[i]
            BY <2>7
        <3> QED
            BY <1>8, <2>0, <2>4, <3>1, <3>2
    <2> HIDE DEF S
    <2>8. \A i \in 0 .. k : i \in S
        BY <2>0, <2>6, <2>7, UpToInSet
    <2> QED
        BY <2>0, <2>5, <2>8 DEF S
<1>10. ASSUME NEW k \in 0 .. n, k # 0 PROVE k - 1 \in 0 .. n
    BY <1>10
<1> QED
    BY <1>8, <1>9, <1>10 DEF D

\* More fields are no shorter.
LEMMA TotalGrows ==
    ASSUME NEW n \in Nat, NEW f \in [1 .. n -> Nat], NEW j \in 0 .. n
    PROVE  \A k \in 0 .. n : j <= k => Total(f, j) <= Total(f, k)
PROOF
<1> DEFINE S == {k \in 0 .. n : j <= k => Total(f, j) <= Total(f, k)}
           T(k) == Total(f, k)
<1>1. \A k \in 0 .. n : T(k) \in Nat /\ T(k) = IF k = 0 THEN 0 ELSE T(k - 1) + f[k]
    BY TotalIs
<1>2. 0 \in S
    <2>1. j <= 0 => j = 0
        OBVIOUS
    <2>2. T(0) <= T(0)
        BY <1>1
    <2> QED
        BY <2>1, <2>2
<1>3. ASSUME NEW k \in 0 .. n - 1, k \in S PROVE k + 1 \in S
    <2>1. k + 1 \in 0 .. n /\ k \in 0 .. n /\ k + 1 # 0 /\ (k + 1) - 1 = k /\ k + 1 \in 1 .. n
        OBVIOUS
    <2>2. T(k + 1) = T(k) + f[k + 1] /\ f[k + 1] \in Nat /\ T(k) \in Nat
        BY <1>1, <2>1
    <2>3. j <= k => T(j) <= T(k)
        BY <1>3
    <2>4. T(j) \in Nat /\ T(k + 1) \in Nat
        BY <1>1, <2>1
    <2>5. j <= k + 1 => j <= k \/ j = k + 1
        BY <2>1
    <2> HIDE DEF T
    <2>6. j <= k + 1 => T(j) <= T(k + 1)
        BY <2>2, <2>3, <2>4, <2>5
    <2> QED
        BY <2>1, <2>6 DEF T
<1> HIDE DEF S
<1>4. \A k \in 0 .. n : k \in S
    BY <1>2, <1>3, UpToInSet
<1> QED
    BY <1>4 DEF S

\* A sum depends on the fields in it only.
LEMMA TotalAgrees ==
    ASSUME NEW n \in Nat, NEW f \in [1 .. n -> Nat], NEW m \in Nat, NEW g \in [1 .. m -> Nat],
           NEW l \in Nat, l <= n, l <= m, \A i \in 1 .. l : f[i] = g[i]
    PROVE  \A k \in 0 .. l : Total(f, k) = Total(g, k)
PROOF
<1> DEFINE S == {k \in 0 .. l : Total(f, k) = Total(g, k)}
<1>1. \A k \in 0 .. n : /\ Total(f, k) \in Nat
                        /\ Total(f, k) = IF k = 0 THEN 0 ELSE Total(f, k - 1) + f[k]
    BY TotalIs
<1>2. \A k \in 0 .. m : /\ Total(g, k) \in Nat
                        /\ Total(g, k) = IF k = 0 THEN 0 ELSE Total(g, k - 1) + g[k]
    BY TotalIs
<1>3. 0 \in S
    BY <1>1, <1>2
<1>4. ASSUME NEW k \in 0 .. l - 1, k \in S PROVE k + 1 \in S
    <2>1. /\ k + 1 \in 0 .. n /\ k + 1 \in 0 .. m /\ k + 1 \in 0 .. l /\ k + 1 \in 1 .. l
          /\ k + 1 # 0 /\ (k + 1) - 1 = k
        OBVIOUS
    <2>2. Total(f, k) = Total(g, k)
        BY <1>4
    <2>3. Total(f, k + 1) = Total(f, k) + f[k + 1] /\ Total(g, k + 1) = Total(g, k) + g[k + 1]
        BY <1>1, <1>2, <2>1
    <2> QED
        BY <2>1, <2>2, <2>3
<1> HIDE DEF S
<1>5. \A k \in 0 .. l : k \in S
    BY <1>3, <1>4, UpToInSet
<1> QED
    BY <1>5 DEF S

-----------------------------------------------------------------------------
(* Bytes *)

Bytes == Seq(Byte)

LEMMA BaseIs ==
    /\ Base \in Nat /\ Base >= 4 /\ Byte = 0 .. Base - 1
    /\ Base \div 2 \in Nat /\ 2 * (Base \div 2) = Base
    /\ \A b \in Byte : b \in Nat
PROOF
<1>1. Max \in Nat /\ Max > 1 /\ Max % 2 = 1
    BY CodecAssumption
<1> QED
    BY <1>1 DEF Base, Byte

\* Division of a number that may be any word.
LEMMA Division ==
    ASSUME NEW b \in Nat, b > 0, NEW a \in Nat
    PROVE  a % b \in 0 .. b - 1 /\ a \div b \in Nat /\ a = b * (a \div b) + (a % b)
PROOF
<1> DEFINE q == a \div b
           r == a % b
<1>1. a = b * q + r /\ r \in 0 .. b - 1 /\ q \in Int
    OBVIOUS
<1>2. ASSUME q < 0 PROVE FALSE
    <2> HIDE DEF q, r
    <2>1. b * q <= b * (-1)
        BY <1>1, <1>2
    <2> QED
        BY <1>1, <2>1
<1> QED
    BY <1>1, <1>2

LEMMA EncByteIs ==
    ASSUME NEW b \in Byte
    PROVE  EncByte(b) = <<b>>
PROOF
<1>1. b \in Nat /\ b < Base /\ Base \in Nat
    BY BaseIs
<1>2. b % Base = b
    BY <1>1, NotCut
<1> QED
    BY <1>2 DEF EncByte

\* A word is its two bytes.
LEMMA EncWordIs ==
    ASSUME NEW w \in Word
    PROVE  \E lo, hi \in Byte : EncWord(w) = <<lo, hi>> /\ w = lo + Base * hi
PROOF
<1> DEFINE B == Base
           q == w \div B
           r == w % B
<1>1. B \in Nat /\ B >= 4 /\ Byte = 0 .. B - 1
    BY BaseIs
<1>2. w \in Nat /\ w < B * B
    BY <1>1 DEF Word
<1> HIDE DEF B
<1>3. r \in 0 .. B - 1 /\ q \in Nat /\ w = B * q + r
    BY <1>1, <1>2, Division
<1> HIDE DEF q, r
<1>4. ASSUME q >= B PROVE FALSE
    <2>1. B * q >= B * B
        BY <1>1, <1>3, <1>4
    <2> QED
        BY <1>1, <1>2, <1>3, <2>1
<1>5. q < B
    BY <1>1, <1>3, <1>4
<1>6. q % B = q
    BY <1>1, <1>3, <1>5, NotCut
<1>7. EncWord(w) = <<r, q>>
    BY <1>6 DEF EncWord, B, q, r
<1>8. B * q + r = r + B * q
    BY <1>1, <1>3
<1>9. r \in Byte /\ q \in Byte /\ w = r + Base * q
    BY <1>1, <1>3, <1>5, <1>8 DEF B
<1> QED
    BY <1>7, <1>9

-----------------------------------------------------------------------------
(* Reading what was written *)

\* The bytes of s are in the data behind p, as far as the data goes.
Lies(p, s) == \A i \in 1 .. Len(s) : p + i <= Len(data) => data[p + i] = s[i]

\* A read r at p returns v for n bytes, or the end of the data.
Reads(r, v, p, n) == IF p + n <= Len(data) THEN r = Ok(v, p + n) ELSE r = Eof

LEMMA LiesTogether ==
    ASSUME data \in Bytes, NEW p \in Nat, NEW a \in Bytes, NEW b \in Bytes, Lies(p, a \o b)
    PROVE  Lies(p, a) /\ Lies(p + Len(a), b)
PROOF
<1>1. /\ a \o b \in Bytes /\ Len(a \o b) = Len(a) + Len(b) /\ Len(a) \in Nat /\ Len(b) \in Nat
      /\ \A i \in 1 .. Len(a) : (a \o b)[i] = a[i]
      /\ \A i \in 1 .. Len(b) : (a \o b)[Len(a) + i] = b[i]
    BY DEF Bytes
<1>2. Len(data) \in Nat
    BY DEF Bytes
<1> DEFINE c == a \o b
           l == Len(a)
           m == Len(b)
           d == Len(data)
<1>3. \A i \in 1 .. l + m : p + i <= d => data[p + i] = c[i]
    BY <1>1 DEF Lies
<1> HIDE DEF c, d
<1>4. ASSUME NEW i \in 1 .. l, p + i <= d PROVE data[p + i] = a[i]
    <2>1. i \in 1 .. l + m
        BY <1>1
    <2> QED
        BY <1>1, <1>3, <1>4, <2>1 DEF c
<1>5. ASSUME NEW i \in 1 .. m, (p + l) + i <= d PROVE data[(p + l) + i] = b[i]
    <2> HIDE DEF l, m
    <2>1. l + i \in 1 .. l + m /\ p + (l + i) = (p + l) + i
        BY <1>1 DEF l, m
    <2>2. data[p + (l + i)] = c[l + i]
        BY <1>3, <1>5, <2>1
    <2>3. c[l + i] = b[i]
        BY <1>1 DEF l, m, c
    <2> QED
        BY <2>1, <2>2, <2>3
<1> QED
    BY <1>4, <1>5 DEF Lies, d

LEMMA ByteIsRead ==
    ASSUME data \in Bytes, NEW p \in Nat, NEW b \in Byte, Lies(p, EncByte(b))
    PROVE  Reads(ReadByte(p), b, p, 1)
PROOF
<1>1. EncByte(b) = <<b>>
    BY EncByteIs
<1>2. p + 1 <= Len(data) => data[p + 1] = b
    BY <1>1 DEF Lies
<1> QED
    BY <1>2 DEF Reads, ReadByte, Has, ByteAt

LEMMA WordIsRead ==
    ASSUME data \in Bytes, NEW p \in Nat, NEW w \in Word, Lies(p, EncWord(w))
    PROVE  Reads(ReadWord(p), w, p, 2)
PROOF
<1>1. PICK lo \in Byte, hi \in Byte : EncWord(w) = <<lo, hi>> /\ w = lo + Base * hi
    BY EncWordIs
<1>2. Len(data) \in Nat
    BY DEF Bytes
<1>3. p + 2 <= Len(data) => data[p + 1] = lo /\ data[p + 2] = hi
    BY <1>1, <1>2 DEF Lies
<1> QED
    BY <1>1, <1>3 DEF Reads, ReadWord, Has, WordAt

LEMMA SliceIs ==
    ASSUME data \in Bytes, NEW p \in Nat, NEW s \in Bytes, Lies(p, s), p + Len(s) <= Len(data)
    PROVE  Slice(p, Len(s)) = s
PROOF
<1> DEFINE n == Len(s)
           d == Len(data)
<1>1. n \in Nat /\ d \in Nat /\ p + n <= d /\ s \in [1 .. n -> Byte]
    BY DEF Bytes
<1>2. \A i \in 1 .. n : data[p + i] = s[i]
    BY <1>1 DEF Lies
<1>3. SubSeq(data, p + 1, p + n) = [i \in 1 .. n |-> s[i]]
    <2> HIDE DEF n, d
    <2>1. SubSeq(data, p + 1, p + n) = [i \in 1 .. ((p + n) - (p + 1)) + 1 |-> data[(p + 1) + i - 1]]
        BY <1>1 DEF Bytes, d
    <2>2. ((p + n) - (p + 1)) + 1 = n /\ \A i \in 1 .. n : (p + 1) + i - 1 = p + i
        BY <1>1
    <2> QED
        BY <1>2, <2>1, <2>2
<1> HIDE DEF n
<1>4. s = [i \in 1 .. n |-> s[i]]
    BY <1>1
<1> QED
    BY <1>3, <1>4 DEF Slice, n

LEMMA BytesAreRead ==
    ASSUME data \in Bytes, NEW p \in Nat, NEW s \in Bytes, Lies(p, s)
    PROVE  Reads(ReadBytes(p, Len(s)), s, p, Len(s))
    BY SliceIs DEF Reads, ReadBytes, Has

-----------------------------------------------------------------------------
(* What is written *)

Field == [kind : Kinds, n : Nat]

LEMMA EncByteType ==
    ASSUME NEW x \in Int
    PROVE  EncByte(x) \in Bytes /\ Len(EncByte(x)) = 1
PROOF
<1>1. Base \in Nat /\ Base >= 4 /\ Byte = 0 .. Base - 1
    BY BaseIs
<1>2. x % Base \in Byte
    BY <1>1
<1> QED
    BY <1>2 DEF EncByte, Bytes

LEMMA EncWordType ==
    ASSUME NEW x \in Int
    PROVE  EncWord(x) \in Bytes /\ Len(EncWord(x)) = 2
PROOF
<1>1. Base \in Nat /\ Base >= 4 /\ Byte = 0 .. Base - 1
    BY BaseIs
<1>2. x % Base \in Byte /\ x \div Base \in Int
    BY <1>1
<1>3. (x \div Base) % Base \in Byte
    BY <1>1, <1>2
<1> QED
    BY <1>2, <1>3 DEF EncWord, Bytes

LEMMA EncBoolType ==
    ASSUME NEW b
    PROVE  EncBool(b) \in Bytes /\ Len(EncBool(b)) = 1
PROOF
<1>1. 0 \in Byte /\ 1 \in Byte
    BY BaseIs
<1>2. <<0>> \in Bytes /\ <<1>> \in Bytes
    BY <1>1 DEF Bytes
<1>3. EncBool(b) = <<0>> \/ EncBool(b) = <<1>>
    BY Zenon DEF EncBool
<1> QED
    BY <1>2, <1>3

LEMMA JoinType ==
    ASSUME NEW a \in Bytes, NEW b \in Bytes
    PROVE  a \o b \in Bytes /\ Len(a \o b) = Len(a) + Len(b) /\ Len(a) \in Nat /\ Len(b) \in Nat
    BY DEF Bytes

LEMMA FcnIsBytes ==
    ASSUME NEW n \in Nat, NEW s \in [1 .. n -> Byte]
    PROVE  s \in Bytes /\ Len(s) = n
    BY DEF Bytes

LEMMA UpToIs ==
    ASSUME NEW S, NEW n \in Nat, NEW s \in UpTo(S, n)
    PROVE  s \in Seq(S) /\ Len(s) \in 0 .. n
PROOF
<1>1. PICK m \in 0 .. n : s \in [1 .. m -> S]
    BY DEF UpTo
<1> QED
    BY <1>1

\* The values of an item are bytes.
LEMMA ItemsAreBytes ==
    ASSUME NEW x \in Items
    PROVE  x \in Byte /\ x \in Int /\ x # None /\ <<x>> \in Bytes /\ Len(<<x>>) = 1
    BY CodecAssumption, BaseIs DEF Bytes

LEMMA ByteType ==
    ASSUME NEW x \in Byte
    PROVE  x \in Int /\ x # None /\ <<x>> \in Bytes /\ Len(<<x>>) = 1
    BY CodecAssumption, BaseIs DEF Bytes

LEMMA WordType ==
    ASSUME NEW x \in Word
    PROVE  x \in Nat /\ x \in Int /\ x # None
    BY CodecAssumption, BaseIs DEF Word

LEMMA CondType ==
    ASSUME NEW v \in Option(Items)
    PROVE  EncCond(v) \in Bytes
    BY ItemsAreBytes DEF Option, EncCond, Bytes

\* A value of an index list, one byte behind the other.
LEMMA FlattenType ==
    ASSUME NEW v \in UpTo(Byte \X Items, 2)
    PROVE  /\ Flatten(v) \in Bytes /\ Len(Flatten(v)) = 2 * Len(v)
           /\ \A i \in 1 .. Len(v) :
                Flatten(v)[2 * i - 1] = v[i][1] /\ Flatten(v)[2 * i] = v[i][2]
PROOF
<1> DEFINE n == 2 * Len(v)
           f == Flatten(v)
<1>1. v \in Seq(Byte \X Items) /\ Len(v) \in Nat
    BY UpToIs
<1>2. ASSUME NEW i \in 1 .. n
      PROVE  /\ (i + 1) \div 2 \in 1 .. Len(v) /\ 2 - (i % 2) \in {1, 2}
    BY <1>1
<1>3. ASSUME NEW i \in 1 .. n PROVE v[(i + 1) \div 2][2 - (i % 2)] \in Byte
    <2>1. v[(i + 1) \div 2] \in Byte \X Items
        BY <1>1, <1>2
    <2>2. \A x \in Byte \X Items : x[1] \in Byte /\ x[2] \in Byte
        BY ItemsAreBytes
    <2> QED
        BY <1>2, <2>1, <2>2
<1>4. f \in [1 .. n -> Byte] /\ n \in Nat
    BY <1>1, <1>3 DEF Flatten
<1>5. ASSUME NEW i \in 1 .. Len(v) PROVE f[2 * i - 1] = v[i][1] /\ f[2 * i] = v[i][2]
    <2>1. /\ 2 * i - 1 \in 1 .. n /\ 2 * i \in 1 .. n
          /\ ((2 * i - 1) + 1) \div 2 = i /\ (2 * i + 1) \div 2 = i
          /\ 2 - ((2 * i - 1) % 2) = 1 /\ 2 - ((2 * i) % 2) = 2
        BY <1>1
    <2> QED
        BY <2>1 DEF Flatten
<1> QED
    BY <1>4, <1>5, FcnIsBytes

LEMMA IntoType ==
    ASSUME NEW t, t.kind \in Wrappers, NEW v \in Values(t)
    PROVE  Into(t, v) \in Int
PROOF
<1>1. CASE t.kind = "expiry"
    <2>1. v = None \/ v \in Byte
        BY <1>1 DEF Values, Option
    <2>2. Into(t, v) = IF v = None THEN Max ELSE v
        BY <1>1 DEF Into, TimeMax
    <2>3. Max \in Int
        BY CodecAssumption
    <2>4. v # None => v \in Int
        BY <2>1, ByteType, Zenon
    <2> QED
        BY <2>2, <2>3, <2>4
<1>2. CASE t.kind = "packed"
    <2>1. v.tail \in {0, 1}
        BY <1>2 DEF Values
    <2> QED
        BY <1>2, <2>1 DEF Into
<1>3. CASE t.kind = "allFlags"
    BY <1>3 DEF Into, AllBits, Bit
<1>4. CASE t.kind = "id"
    <2>1. v \in Byte
        BY <1>4 DEF Values
    <2> QED
        BY <1>4, <2>1, ByteType DEF Into
<1>5. CASE t.kind \in {"flags", "enum"}
    <2>1. v \in {0, 1} \/ v \in {1, 2}
        BY <1>5 DEF Values, KnownBits, Codes
    <2> QED
        BY <1>5, <2>1 DEF Into
<1> QED
    BY <1>1, <1>2, <1>3, <1>4, <1>5 DEF Wrappers

LEMMA BlocksType ==
    ASSUME NEW v \in [1 .. 4 -> Items]
    PROVE  /\ v \in Bytes /\ EncBlocks(v) \in Bytes /\ Len(v) = 4 /\ Len(EncBlocks(v)) = 4
           /\ Seqs!Reverse(EncBlocks(v)) = v
PROOF
<1> DEFINE r == EncBlocks(v)
<1>1. v \in [1 .. 4 -> Byte]
    BY ItemsAreBytes
<1>2. v \in Bytes /\ Len(v) = 4
    BY <1>1, FcnIsBytes
<1>3. \A i \in 1 .. 4 : (4 - i) + 1 \in 1 .. 4 /\ (4 - ((4 - i) + 1)) + 1 = i
    OBVIOUS
<1>4. r = [i \in 1 .. 4 |-> v[(4 - i) + 1]]
    BY <1>2 DEF EncBlocks, Seqs!Reverse
<1>5. r \in [1 .. 4 -> Byte]
    BY <1>1, <1>3, <1>4
<1>6. r \in Bytes /\ Len(r) = 4
    BY <1>5, FcnIsBytes
<1>7. Seqs!Reverse(r) = [i \in 1 .. 4 |-> r[(4 - i) + 1]]
    BY <1>6 DEF Seqs!Reverse
<1>8. Seqs!Reverse(r) = v
    BY <1>1, <1>3, <1>4, <1>7
<1> QED
    BY <1>2, <1>6, <1>8

LEMMA PointType ==
    ASSUME NEW x \in Point
    PROVE  x \in Bytes /\ Len(x) = 2
PROOF
<1>1. PICK a \in Items, b \in Items : x = <<a, b>>
    BY DEF Point
<1> QED
    BY <1>1, ItemsAreBytes DEF Bytes

LEMMA TextType ==
    ASSUME NEW t \in Field, t.kind \in {"str", "limited", "fixed"}, NEW v \in Values(t)
    PROVE  v \in Bytes /\ v \in Seq(Text) /\ Len(v) \in Nat /\ (t.kind = "str" => Len(v) <= 2)
           /\ (t.kind \in {"limited", "fixed"} => Len(v) <= t.n)
PROOF
<1>1. t.n \in Nat
    BY DEF Field
<1>2. v \in UpTo(Text, IF t.kind = "str" THEN 2 ELSE t.n)
    BY DEF Values
<1>3. v \in Seq(Text) /\ Len(v) \in 0 .. (IF t.kind = "str" THEN 2 ELSE t.n)
    BY <1>1, <1>2, UpToIs
<1>4. v \in Bytes
    BY <1>3, CodecAssumption DEF Bytes
<1> QED
    BY <1>1, <1>3, <1>4

LEMMA FixedType ==
    ASSUME NEW n \in Nat, NEW v \in UpTo(Text, n)
    PROVE  EncFixed(v, n) \in [1 .. n -> Text] /\ EncFixed(v, n) \in Bytes /\ Len(EncFixed(v, n)) = n
PROOF
<1>1. v \in Seq(Text) /\ Len(v) \in 0 .. n
    BY UpToIs
<1>2. \A i \in 1 .. n : (IF i <= Len(v) THEN v[i] ELSE 0) \in Text
    BY <1>1, CodecAssumption
<1>3. EncFixed(v, n) \in [1 .. n -> Text]
    BY <1>2 DEF EncFixed
<1>4. EncFixed(v, n) \in [1 .. n -> Byte]
    BY <1>3, CodecAssumption
<1> QED
    BY <1>3, <1>4, FcnIsBytes

LEMMA ItemListType ==
    ASSUME NEW n \in Nat, NEW v \in UpTo(Items, n)
    PROVE  v \in Bytes /\ Len(v) \in Nat /\ Len(v) <= n
PROOF
<1>1. v \in Seq(Items) /\ Len(v) \in 0 .. n
    BY UpToIs
<1> QED
    BY <1>1, CodecAssumption DEF Bytes

LEMMA PartialType ==
    ASSUME NEW t, t.kind = "partial", NEW v \in Values(t)
    PROVE  /\ v = [hdr |-> v.hdr, data |-> v.data]
           /\ v.hdr \in Option(Items) /\ (v.hdr = None <=> t.n = 0)
           /\ v.data \in [Flags -> Option(Items)]
           /\ v.data[0] \in Option(Items) /\ v.data[1] \in Option(Items)
PROOF
<1>1. v \in [hdr : IF t.n = 0 THEN {None} ELSE Items, data : [Flags -> Option(Items)]]
    BY DEF Values
<1>2. None \notin Items
    BY ItemsAreBytes
<1> QED
    BY <1>1, <1>2 DEF Option, Flags


\* Whatever is written is bytes, also of values that are not faithful.
LEMMA EncodeType ==
    ASSUME NEW t \in Field, NEW v \in Values(t)
    PROVE  Encode(t, v) \in Bytes
PROOF
<1>0. t.n \in Nat /\ t.kind \in Kinds
    BY DEF Field
<1>1. CASE t.kind = "unit"
    BY <1>1 DEF Encode, Wrappers, Bytes
<1>2. CASE t.kind = "bool"
    <2>1. Encode(t, v) = EncBool(v)
        BY <1>2 DEF Encode, Wrappers
    <2> QED
        BY <2>1, EncBoolType
<1>3. CASE t.kind = "byte"
    <2>1. Encode(t, v) = EncByte(v) /\ v \in Byte
        BY <1>3 DEF Encode, Wrappers, Values
    <2> QED
        BY <2>1, ByteType, EncByteType
<1>4. CASE t.kind \in {"expiry", "packed", "allFlags", "id", "flags", "enum"}
    <2>1. Encode(t, v) = EncByte(Into(t, v))
        BY <1>4 DEF Encode, Wrappers
    <2>2. Into(t, v) \in Int
        BY <1>4, IntoType DEF Wrappers
    <2> QED
        BY <2>1, <2>2, EncByteType
<1>5. CASE t.kind = "word"
    <2>1. Encode(t, v) = EncWord(v) /\ v \in Word
        BY <1>5 DEF Encode, Wrappers, Values
    <2> QED
        BY <2>1, WordType, EncWordType
<1>6. CASE t.kind = "opcode"
    <2>1. Encode(t, v) = EncWord(v) /\ v = t.n
        BY <1>6 DEF Encode, Wrappers, Values
    <2> QED
        BY <1>0, <2>1, EncWordType
<1>7. CASE t.kind = "u128"
    <2>1. Encode(t, v) = EncBlocks(v) /\ v \in [1 .. 4 -> Items]
        BY <1>7 DEF Encode, Wrappers, Values
    <2> QED
        BY <2>1, BlocksType
<1>8. CASE t.kind = "array"
    <2>1. Encode(t, v) = v /\ v \in [1 .. t.n -> Items]
        BY <1>8 DEF Encode, Wrappers, Values, EncArray
    <2>2. v \in [1 .. t.n -> Byte]
        BY <2>1, ItemsAreBytes
    <2> QED
        BY <1>0, <2>1, <2>2, FcnIsBytes
<1>9. CASE t.kind = "pair"
    <2>1. Encode(t, v) = EncByte(v[1]) \o EncWord(v[2]) /\ v \in Items \X Word
        BY <1>9 DEF Encode, Wrappers, Values, EncPair
    <2>2. v[1] \in Items /\ v[2] \in Word
        BY <2>1
    <2>3. v[1] \in Int /\ v[2] \in Int
        BY <2>2, ItemsAreBytes, WordType, Zenon
    <2> QED
        BY <2>1, <2>3, EncByteType, EncWordType, JoinType
<1>10. CASE t.kind = "box"
    <2>1. Encode(t, v) = v[1] \o v[2] /\ v \in Point \X Point
        BY <1>10 DEF Encode, Wrappers, Values, EncBox, EncArray
    <2>2. v[1] \in Bytes /\ v[2] \in Bytes
        BY <2>1, PointType
    <2> QED
        BY <2>1, <2>2, JoinType
<1>11. CASE t.kind = "padding"
    <2>1. Encode(t, v) = v /\ v \in [1 .. t.n -> Byte]
        BY <1>11 DEF Encode, Wrappers, Values, EncPadding
    <2> QED
        BY <1>0, <2>1, FcnIsBytes
<1>12. CASE t.kind = "paddingZ"
    <2>1. Encode(t, v) = [i \in 1 .. t.n |-> 0]
        BY <1>12 DEF Encode, Wrappers, Values, EncPadding
    <2>2. [i \in 1 .. t.n |-> 0] \in [1 .. t.n -> Byte]
        BY BaseIs
    <2> QED
        BY <1>0, <2>1, <2>2, FcnIsBytes
<1>13. CASE t.kind \in {"str", "limited"}
    <2>1. Encode(t, v) = EncWord(Len(v)) \o v
        BY <1>13 DEF Encode, Wrappers, EncString
    <2>2. v \in Bytes /\ Len(v) \in Int
        BY <1>13, TextType
    <2> QED
        BY <2>1, <2>2, EncWordType, JoinType
<1>14. CASE t.kind = "fixed"
    <2>1. Encode(t, v) = EncFixed(v, t.n) /\ v \in UpTo(Text, t.n)
        BY <1>14 DEF Encode, Wrappers, Values
    <2> QED
        BY <1>0, <2>1, FixedType
<1>15. CASE t.kind = "list"
    <2>1. Encode(t, v) = EncByte(Len(v)) \o v /\ v \in UpTo(Items, MaxItems)
        BY <1>15 DEF Encode, Wrappers, EncList, Values
    <2>2. v \in Bytes /\ Len(v) \in Int
        BY <2>1, ItemListType, CodecAssumption
    <2> QED
        BY <2>1, <2>2, EncByteType, JoinType
<1>16. CASE t.kind \in {"index", "indexZ"}
    <2>1. Encode(t, v) = Flatten(v) \o <<Terminator(t)>> /\ v \in UpTo(Byte \X Items, 2)
        BY <1>16 DEF Encode, Wrappers, EncIndexed, Values
    <2>2. Flatten(v) \in Bytes
        BY <2>1, FlattenType
    <2>3. Terminator(t) \in Byte
        BY CodecAssumption DEF Terminator, Byte
    <2> QED
        BY <2>1, <2>2, <2>3, ByteType, JoinType
<1>17. CASE t.kind \in {"option", "optionR"}
    <2>1. Encode(t, v) = EncOption(t, v) /\ v \in Option(Items)
        BY <1>17 DEF Encode, Wrappers, Values
    <2>2. NoneValue(t) \in Byte /\ 1 - NoneValue(t) \in Byte
        BY BaseIs DEF NoneValue
    <2>3. v # None => v \in Byte
        BY <2>1, ItemsAreBytes DEF Option
    <2> QED
        BY <2>1, <2>2, <2>3 DEF EncOption, Bytes
<1>18. CASE t.kind = "cond"
    <2>1. Encode(t, v) = EncCond(v) /\ v \in Option(Items)
        BY <1>18 DEF Encode, Wrappers, Values
    <2> QED
        BY <2>1, CondType
<1>19. CASE t.kind = "either"
    <2>1. /\ Encode(t, v) = EncEither(v)
          /\ v \in [left : {TRUE}, val : Items] \union [left : {FALSE}, val : Word]
        BY <1>19 DEF Encode, Wrappers, Values
    <2>2. v.val \in Items \/ v.val \in Word
        BY <2>1
    <2>3. v.val \in Int
        BY <2>2, ItemsAreBytes, WordType, Zenon
    <2> QED
        BY <2>1, <2>3, EncByteType, EncWordType DEF EncEither
<1>20. CASE t.kind = "sized"
    <2>1. Encode(t, v) = v /\ v \in UpTo(Items, 2)
        BY <1>20 DEF Encode, Wrappers, Values
    <2> QED
        BY <2>1, ItemListType
<1>21. CASE t.kind = "partial"
    <2>1. Encode(t, v) = EncPartial(v)
        BY <1>21 DEF Encode, Wrappers
    <2>2. v.hdr \in Option(Items) /\ v.data[0] \in Option(Items) /\ v.data[1] \in Option(Items)
        BY <1>21, PartialType
    <2>3. FlagsOf(v.data) \in Int
        BY DEF FlagsOf, Bit
    <2> QED
        BY <2>1, <2>2, <2>3, EncByteType, CondType, JoinType DEF EncPartial
<1>22. CASE t.kind = "all"
    <2>1. Encode(t, v) = EncByte(v[0]) \o EncByte(v[1]) /\ v \in [Flags -> Items]
        BY <1>22 DEF Encode, Wrappers, Values, EncAll
    <2>2. v[0] \in Int /\ v[1] \in Int
        BY <2>1, ItemsAreBytes DEF Flags
    <2> QED
        BY <2>1, <2>2, EncByteType, JoinType
<1>23. CASE t.kind = "offset"
    <2>1. Encode(t, v) = EncOffset(v) /\ v \in -(Base \div 2) .. (Base \div 2) - 1
        BY <1>23 DEF Encode, Wrappers, Values
    <2>2. v \in Int
        BY <2>1, BaseIs
    <2>3. EncBool(v < 0) \in Bytes
        BY EncBoolType
    <2>4. EncByte(IF v < 0 THEN -v ELSE v) \in Bytes
        BY <2>2, EncByteType
    <2>5. EncOffset(v) = EncBool(v < 0) \o EncByte(IF v < 0 THEN -v ELSE v)
        BY DEF EncOffset
    <2> QED
        BY <2>1, <2>3, <2>4, <2>5, JoinType
<1>24. CASE t.kind = "variant"
    <2>1. /\ Encode(t, v) = EncVariant(v)
          /\ v \in [disc : {ByteVariant}, val : Byte] \union [disc : {WordVariant}, val : Word]
        BY <1>24 DEF Encode, Wrappers, Values
    <2>2. v.disc \in {1, 2} /\ (v.val \in Byte \/ v.val \in Word)
        BY <2>1 DEF ByteVariant, WordVariant
    <2>3. v.disc \in Int
        BY <2>2
    <2>4. v.val \in Int
        BY <2>2, ByteType, WordType, Zenon
    <2> QED
        BY <2>1, <2>3, <2>4, EncByteType, EncWordType, JoinType DEF EncVariant
<1>25. CASE t.kind = "tail"
    <2>1. Encode(t, v) = EncTail(v) /\ v \in Option(Word)
        BY <1>25 DEF Encode, Wrappers, Values
    <2>2. v # None => v \in Int
        BY <2>1, WordType DEF Option
    <2> QED
        BY <2>1, <2>2, EncWordType DEF EncTail, Bytes
<1> QED
    BY <1>0, <1>1, <1>2, <1>3, <1>4, <1>5, <1>6, <1>7, <1>8, <1>9, <1>10, <1>11, <1>12, <1>13, <1>14, <1>15, <1>16, <1>17, <1>18, <1>19, <1>20, <1>21, <1>22, <1>23, <1>24, <1>25 DEF Kinds

-----------------------------------------------------------------------------
(* What is read, type by type *)

\* The value of a field comes out of its bytes, or the end of the data.
IsRead(t, v, p, prev) == Reads(Decode(t, p, prev), v, p, Len(Encode(t, v)))

LEMMA LenData ==
    ASSUME data \in Bytes
    PROVE  Len(data) \in Nat
    BY DEF Bytes

LEMMA UnitIsRead ==
    ASSUME NEW t \in Field, t.kind = "unit", NEW v \in Values(t), NEW prev,
           data \in Bytes, NEW p \in Nat, p <= Len(data)
    PROVE  IsRead(t, v, p, prev)
PROOF
<1>1. Encode(t, v) = << >> /\ v = None
    BY DEF Encode, Wrappers, Values
<1>2. Decode(t, p, prev) = Ok(None, p)
    BY DEF Decode, Wrappers
<1> QED
    BY <1>1, <1>2, LenData DEF IsRead, Reads

LEMMA BoolOfByte ==
    ASSUME data \in Bytes, NEW p \in Nat, NEW x \in Int, Reads(ReadByte(p), x, p, 1)
    PROVE  /\ x = 0 => Reads(ReadBool(p), FALSE, p, 1)
           /\ x = 1 => Reads(ReadBool(p), TRUE, p, 1)
PROOF
<1> DEFINE r == ReadByte(p)
           b == r.val # 0
           o == ReadBool(p)
<1>1. o = IF r.res = "ok" THEN Ok(b, r.next) ELSE r
    BY DEF ReadBool, Map, Then
<1> HIDE DEF b, o
<1>2. ASSUME p + 1 <= Len(data), x = 0 PROVE o = Ok(FALSE, p + 1)
    <2>1. r.res = "ok" /\ r.val = 0 /\ r.next = p + 1
        BY <1>2 DEF Reads, Ok
    <2>2. b = FALSE
        BY <2>1 DEF b
    <2> HIDE DEF r
    <2> QED
        BY <1>1, <2>1, <2>2, Zenon
<1>3. ASSUME p + 1 <= Len(data), x = 1 PROVE o = Ok(TRUE, p + 1)
    <2>1. r.res = "ok" /\ r.val = 1 /\ r.next = p + 1
        BY <1>3 DEF Reads, Ok
    <2>2. b = TRUE
        BY <2>1 DEF b
    <2> HIDE DEF r
    <2> QED
        BY <1>1, <2>1, <2>2, Zenon
<1>4. ASSUME ~(p + 1 <= Len(data)) PROVE o = Eof
    <2>1. r = Eof /\ r.res # "ok"
        BY <1>4 DEF Reads, Eof
    <2> HIDE DEF r
    <2> QED
        BY <1>1, <2>1, Zenon
<1> QED
    BY <1>2, <1>3, <1>4, Zenon DEF Reads, o

LEMMA BoolIsRead ==
    ASSUME NEW t \in Field, t.kind = "bool", NEW v \in Values(t), NEW prev,
           data \in Bytes, NEW p \in Nat, p <= Len(data), Lies(p, Encode(t, v))
    PROVE  IsRead(t, v, p, prev)
PROOF
<1>1. v = TRUE \/ v = FALSE
    BY DEF Values
<1>2. Encode(t, v) = EncBool(v)
    BY DEF Encode, Wrappers
<1>3. Decode(t, p, prev) = ReadBool(p)
    BY DEF Decode, Wrappers
<1>4. 0 \in Byte /\ 1 \in Byte
    BY BaseIs
<1>5. CASE v = TRUE
    <2>1. Encode(t, v) = EncByte(1) /\ Len(Encode(t, v)) = 1
        BY <1>2, <1>4, <1>5, EncByteIs DEF EncBool
    <2>2. Reads(ReadByte(p), 1, p, 1)
        BY <1>4, <2>1, ByteIsRead
    <2>3. Reads(ReadBool(p), TRUE, p, 1)
        <3>1. 1 \in Int
            OBVIOUS
        <3> QED
            BY <2>2, <3>1, BoolOfByte, Zenon
    <2> QED
        BY <1>3, <1>5, <2>1, <2>3 DEF IsRead
<1>6. CASE v = FALSE
    <2>1. Encode(t, v) = EncByte(0) /\ Len(Encode(t, v)) = 1
        BY <1>2, <1>4, <1>6, EncByteIs DEF EncBool
    <2>2. Reads(ReadByte(p), 0, p, 1)
        BY <1>4, <2>1, ByteIsRead
    <2>3. Reads(ReadBool(p), FALSE, p, 1)
        <3>1. 0 \in Int
            OBVIOUS
        <3> QED
            BY <2>2, <3>1, BoolOfByte, Zenon
    <2> QED
        BY <1>3, <1>6, <2>1, <2>3 DEF IsRead
<1> QED
    BY <1>1, <1>5, <1>6

LEMMA NumberIsRead ==
    ASSUME NEW t \in Field, t.kind \in {"byte", "word"}, NEW v \in Values(t), NEW prev,
           data \in Bytes, NEW p \in Nat, p <= Len(data), Lies(p, Encode(t, v))
    PROVE  IsRead(t, v, p, prev)
PROOF
<1>1. CASE t.kind = "byte"
    <2>1. Encode(t, v) = EncByte(v) /\ v \in Byte
        BY <1>1 DEF Encode, Wrappers, Values
    <2>2. Decode(t, p, prev) = ReadByte(p)
        BY <1>1 DEF Decode, Wrappers
    <2>3. Len(Encode(t, v)) = 1
        BY <2>1, ByteType, EncByteType
    <2> QED
        BY <2>1, <2>2, <2>3, ByteIsRead DEF IsRead
<1>2. CASE t.kind = "word"
    <2>1. Encode(t, v) = EncWord(v) /\ v \in Word
        BY <1>2 DEF Encode, Wrappers, Values
    <2>2. Decode(t, p, prev) = ReadWord(p)
        BY <1>2 DEF Decode, Wrappers
    <2>3. Len(Encode(t, v)) = 2
        BY <2>1, WordType, EncWordType
    <2> QED
        BY <2>1, <2>2, <2>3, WordIsRead DEF IsRead
<1> QED
    BY <1>1, <1>2

\* A wrapper takes from the inner value what it has put into it.
LEMMA FromInto ==
    ASSUME NEW t \in Field, t.kind \in Wrappers, NEW v \in Values(t), NEW p,
           t.kind = "expiry" => v # TimeMax
    PROVE  Into(t, v) \in Byte /\ TryFrom(t, Into(t, v), p) = Ok(v, p)
PROOF
<1>0. 0 .. 3 \subseteq Byte /\ Max \in Byte
    BY BaseIs, CodecAssumption DEF Byte
<1>1. CASE t.kind = "expiry"
    <2>1. v = None \/ v \in Byte
        BY <1>1 DEF Values, Option
    <2>2. Into(t, v) = IF v = None THEN Max ELSE v
        BY <1>1 DEF Into, TimeMax
    <2>3. \A x : TryFrom(t, x, p) = Ok(IF x # Max THEN x ELSE None, p)
        BY <1>1 DEF TryFrom, TimeMax
    <2>4. v # Max
        BY <1>1 DEF TimeMax
    <2> QED
        BY <1>0, <2>1, <2>2, <2>3, <2>4, Zenon
<1>2. CASE t.kind = "packed"
    <2>1. v \in [enabled : BOOLEAN, tail : {0, 1}]
        BY <1>2 DEF Values
    <2>2. PICK e \in BOOLEAN, l \in {0, 1} : v = [enabled |-> e, tail |-> l]
        BY <2>1
    <2>3. \A x : TryFrom(t, x, p) = Ok([enabled |-> x \div 2 = 1, tail |-> x % 2], p)
        BY <1>2 DEF TryFrom
    <2>4. Into(t, v) = (IF e THEN 2 ELSE 0) + l
        BY <1>2, <2>2 DEF Into
    <2>5. CASE e = TRUE
        <3>1. Into(t, v) = 2 + l
            BY <2>4, <2>5
        <3>2. ((2 + l) \div 2 = 1) = TRUE /\ (2 + l) % 2 = l /\ 2 + l \in 0 .. 3
            OBVIOUS
        <3> QED
            BY <1>0, <2>2, <2>3, <2>5, <3>1, <3>2
    <2>6. CASE e = FALSE
        <3>1. Into(t, v) = l
            BY <2>4, <2>6
        <3>2. (l \div 2 = 1) = FALSE /\ l % 2 = l /\ l \in 0 .. 3
            OBVIOUS
        <3> QED
            BY <1>0, <2>2, <2>3, <2>6, <3>1, <3>2
    <2> QED
        BY <2>5, <2>6
<1>3. CASE t.kind = "allFlags"
    <2>1. Into(t, v) = 3 /\ AllBits = 3 /\ v = None
        BY <1>3 DEF Into, AllBits, Bit, Values
    <2>2. TryFrom(t, 3, p) = TryAllFlags(3, p)
        BY <1>3 DEF TryFrom
    <2> QED
        BY <1>0, <2>1, <2>2 DEF TryAllFlags
<1>4. CASE t.kind = "id"
    <2>1. v \in Byte /\ Into(t, v) = v
        BY <1>4 DEF Values, Into
    <2>2. TryFrom(t, v, p) = Ok(v, p)
        BY <1>4 DEF TryFrom
    <2> QED
        BY <2>1, <2>2
<1>5. CASE t.kind = "flags"
    <2>1. v \in {0, 1} /\ Into(t, v) = v
        BY <1>5 DEF Values, Into, KnownBits
    <2>2. TryFrom(t, v, p) = Ok(Truncate(v), p)
        BY <1>5 DEF TryFrom
    <2>3. Truncate(v) = v
        BY <2>1 DEF Truncate, Contains, Bit
    <2> QED
        BY <1>0, <2>1, <2>2, <2>3
<1>6. CASE t.kind = "enum"
    <2>1. v \in {1, 2} /\ Into(t, v) = v
        BY <1>6 DEF Values, Into, Codes
    <2>2. TryFrom(t, v, p) = TryEnum(v, p)
        BY <1>6 DEF TryFrom
    <2> QED
        BY <1>0, <2>1, <2>2 DEF TryEnum, Codes
<1> QED
    BY <1>1, <1>2, <1>3, <1>4, <1>5, <1>6 DEF Wrappers

LEMMA WrapperIsRead ==
    ASSUME NEW t \in Field, t.kind \in Wrappers, NEW v \in Values(t), NEW prev,
           t.kind = "expiry" => v # TimeMax,
           data \in Bytes, NEW p \in Nat, p <= Len(data), Lies(p, Encode(t, v))
    PROVE  IsRead(t, v, p, prev)
PROOF
<1> DEFINE x == Into(t, v)
<1>1. Encode(t, v) = EncByte(x)
    BY DEF Encode, Wrappers
<1>2. Decode(t, p, prev) = ReadWrapped(t, p)
    BY DEF Decode, Wrappers
<1>3. x \in Byte /\ TryFrom(t, x, p + 1) = Ok(v, p + 1)
    BY FromInto
<1> HIDE DEF x
<1>4. Len(Encode(t, v)) = 1
    BY <1>1, <1>3, ByteType, EncByteType
<1>5. Reads(ReadByte(p), x, p, 1)
    BY <1>1, <1>3, ByteIsRead
<1>6. Reads(ReadWrapped(t, p), v, p, 1)
    BY <1>3, <1>5 DEF Reads, ReadWrapped, Then, Ok, Eof
<1> QED
    BY <1>2, <1>4, <1>6 DEF IsRead

LEMMA BlocksAreRead ==
    ASSUME NEW t \in Field, t.kind = "u128", NEW v \in Values(t), NEW prev,
           data \in Bytes, NEW p \in Nat, p <= Len(data), Lies(p, Encode(t, v))
    PROVE  IsRead(t, v, p, prev)
PROOF
<1> DEFINE r == EncBlocks(v)
<1>1. Encode(t, v) = r /\ v \in [1 .. 4 -> Items]
    BY DEF Encode, Wrappers, Values
<1>2. Decode(t, p, prev) = ReadBlocks(p)
    BY DEF Decode, Wrappers
<1>3. r \in Bytes /\ Len(r) = 4 /\ Seqs!Reverse(r) = v
    BY <1>1, BlocksType
<1> HIDE DEF r
<1>4. Reads(ReadBytes(p, 4), r, p, 4)
    BY <1>1, <1>3, BytesAreRead
<1>5. Reads(ReadBlocks(p), v, p, 4)
    BY <1>3, <1>4 DEF Reads, ReadBlocks, Map, Then, Ok, Eof
<1> QED
    BY <1>1, <1>2, <1>3, <1>5 DEF IsRead

LEMMA ArrayIsRead ==
    ASSUME NEW t \in Field, t.kind = "array", NEW v \in Values(t), NEW prev,
           data \in Bytes, NEW p \in Nat, p <= Len(data), Lies(p, Encode(t, v))
    PROVE  IsRead(t, v, p, prev)
PROOF
<1>1. Encode(t, v) = v /\ v \in [1 .. t.n -> Items] /\ t.n \in Nat
    BY DEF Encode, Wrappers, Values, EncArray, Field
<1>2. Decode(t, p, prev) = ReadBytes(p, t.n)
    BY DEF Decode, Wrappers
<1>3. v \in [1 .. t.n -> Byte]
    BY <1>1, ItemsAreBytes
<1>4. v \in Bytes /\ Len(v) = t.n
    BY <1>1, <1>3, FcnIsBytes
<1> QED
    BY <1>1, <1>2, <1>4, BytesAreRead DEF IsRead

LEMMA BoxIsRead ==
    ASSUME NEW t \in Field, t.kind = "box", NEW v \in Values(t), NEW prev,
           data \in Bytes, NEW p \in Nat, p <= Len(data), Lies(p, Encode(t, v))
    PROVE  IsRead(t, v, p, prev)
PROOF
<1>1. Encode(t, v) = v[1] \o v[2] /\ v \in Point \X Point
    BY DEF Encode, Wrappers, Values, EncBox, EncArray
<1>2. Decode(t, p, prev) = ReadBox(p)
    BY DEF Decode, Wrappers
<1>3. PICK a \in Point, b \in Point : v = <<a, b>>
    BY <1>1
<1>4. a \in Bytes /\ Len(a) = 2 /\ b \in Bytes /\ Len(b) = 2
    BY PointType
<1>5. Encode(t, v) = a \o b
    BY <1>1, <1>3
<1>6. Len(Encode(t, v)) = 4 /\ Lies(p, a) /\ Lies(p + 2, b)
    <2>1. Lies(p, a \o b)
        BY <1>5
    <2>2. Lies(p, a) /\ Lies(p + Len(a), b)
        BY <1>4, <2>1, LiesTogether
    <2>3. Len(a \o b) = Len(a) + Len(b)
        BY <1>4, JoinType
    <2> QED
        BY <1>4, <1>5, <2>2, <2>3
<1>7. Reads(ReadBytes(p, 2), a, p, 2) /\ Reads(ReadBytes(p + 2, 2), b, p + 2, 2)
    <2>1. p + 2 \in Nat
        OBVIOUS
    <2> QED
        BY <1>4, <1>6, <2>1, BytesAreRead, Zenon
<1>8. Reads(ReadBox(p), <<a, b>>, p, 4)
    BY <1>7, LenData DEF Reads, ReadBox, Map, Then, Ok, Eof
<1> QED
    BY <1>2, <1>3, <1>6, <1>8 DEF IsRead

LEMMA PaddingIsRead ==
    ASSUME NEW t \in Field, t.kind \in {"padding", "paddingZ"}, NEW v \in Values(t), NEW prev,
           data \in Bytes, NEW p \in Nat, p <= Len(data), Lies(p, Encode(t, v))
    PROVE  IsRead(t, v, p, prev)
PROOF
<1> DEFINE n == t.n
           e == Encode(t, v)
<1>1. e = EncPadding(t, v) /\ n \in Nat
    BY DEF Encode, Wrappers, Field
<1>2. Decode(t, p, prev) = ReadPadding(t, p)
    BY DEF Decode, Wrappers
<1>3. e \in [1 .. n -> Byte] /\ FromData(t, e) = v
    <2>1. CASE t.kind = "padding"
        <3>1. e = v /\ v \in [1 .. n -> Byte]
            BY <1>1, <2>1 DEF EncPadding, Values
        <3> QED
            BY <2>1, <3>1 DEF FromData
    <2>2. CASE t.kind = "paddingZ"
        <3>1. e = [i \in 1 .. n |-> 0] /\ v = None
            BY <1>1, <2>2 DEF EncPadding, Values
        <3>2. [i \in 1 .. n |-> 0] \in [1 .. n -> Byte]
            BY BaseIs
        <3> QED
            BY <2>2, <3>1, <3>2 DEF FromData
    <2> QED
        BY <2>1, <2>2
<1>4. Lies(p, e)
    OBVIOUS
<1> HIDE DEF e
<1>5. e \in Bytes /\ Len(e) = n
    BY <1>1, <1>3, FcnIsBytes
<1>6. Reads(ReadBytes(p, n), e, p, n)
    BY <1>4, <1>5, BytesAreRead
<1>7. Reads(ReadPadding(t, p), v, p, n)
    BY <1>3, <1>6 DEF Reads, ReadPadding, Map, Then, Ok, Eof
<1> QED
    BY <1>2, <1>5, <1>7 DEF IsRead, e

LEMMA ByteFirst ==
    ASSUME data \in Bytes, NEW p \in Nat, NEW x \in Byte, NEW y \in Bytes, Lies(p, EncByte(x) \o y)
    PROVE  /\ Reads(ReadByte(p), x, p, 1) /\ Lies(p + 1, y) /\ p + 1 \in Nat
           /\ Len(EncByte(x) \o y) = 1 + Len(y) /\ Len(y) \in Nat
PROOF
<1> DEFINE b == EncByte(x)
<1>1. b \in Bytes /\ Len(b) = 1
    BY ByteType, EncByteType
<1>2. Lies(p, b \o y)
    OBVIOUS
<1> HIDE DEF b
<1>3. Lies(p, b) /\ Lies(p + Len(b), y)
    BY <1>1, <1>2, LiesTogether
<1>4. Len(b \o y) = Len(b) + Len(y) /\ Len(y) \in Nat
    BY <1>1, JoinType
<1>5. Reads(ReadByte(p), x, p, 1)
    BY <1>3, ByteIsRead DEF b
<1> QED
    BY <1>1, <1>3, <1>4, <1>5 DEF b

LEMMA WordFirst ==
    ASSUME data \in Bytes, NEW p \in Nat, NEW x \in Word, NEW y \in Bytes, Lies(p, EncWord(x) \o y)
    PROVE  /\ Reads(ReadWord(p), x, p, 2) /\ Lies(p + 2, y) /\ p + 2 \in Nat
           /\ Len(EncWord(x) \o y) = 2 + Len(y) /\ Len(y) \in Nat
PROOF
<1> DEFINE b == EncWord(x)
<1>1. b \in Bytes /\ Len(b) = 2
    BY WordType, EncWordType
<1>2. Lies(p, b \o y)
    OBVIOUS
<1> HIDE DEF b
<1>3. Lies(p, b) /\ Lies(p + Len(b), y)
    BY <1>1, <1>2, LiesTogether
<1>4. Len(b \o y) = Len(b) + Len(y) /\ Len(y) \in Nat
    BY <1>1, JoinType
<1>5. Reads(ReadWord(p), x, p, 2)
    BY <1>3, WordIsRead DEF b
<1> QED
    BY <1>1, <1>3, <1>4, <1>5 DEF b

LEMMA TextIsRead ==
    ASSUME data \in Bytes, NEW p \in Nat, NEW s \in Bytes, s \in Seq(Text), Lies(p, s)
    PROVE  Reads(AsText(ReadBytes(p, Len(s))), s, p, Len(s))
PROOF
<1>1. Reads(ReadBytes(p, Len(s)), s, p, Len(s))
    BY BytesAreRead
<1>2. IsText(s)
    BY DEF IsText
<1> QED
    BY <1>1, <1>2 DEF Reads, AsText, Then, Ok, Eof

LEMMA SmallWords ==
    0 .. 15 \subseteq Word
PROOF
<1> DEFINE B == Base
<1>1. B \in Nat /\ B >= 4
    BY BaseIs
<1> HIDE DEF B
<1>2. B * B >= 4 * B
    BY <1>1
<1>3. \A x \in 0 .. 15 : x \in 0 .. B * B - 1
    BY <1>1, <1>2
<1> QED
    BY <1>3 DEF Word, B

LEMMA StringIsRead ==
    ASSUME NEW t \in Field, t.kind \in {"str", "limited"}, NEW v \in Values(t), NEW prev,
           t.kind = "limited" => t.n \in Word,
           data \in Bytes, NEW p \in Nat, p <= Len(data), Lies(p, Encode(t, v))
    PROVE  IsRead(t, v, p, prev)
PROOF
<1> DEFINE e == Encode(t, v)
           n == Len(v)
<1>1. e = EncWord(n) \o v /\ Lies(p, e)
    BY DEF Encode, Wrappers, EncString
<1>2. /\ v \in Bytes /\ v \in Seq(Text) /\ n \in Nat
      /\ (t.kind = "str" => n <= 2) /\ (t.kind = "limited" => n <= t.n)
    BY TextType
<1>3. n \in Word
    <2> HIDE DEF n
    <2>1. CASE t.kind = "str"
        <3>1. n \in 0 .. 15
            BY <1>2, <2>1
        <3> QED
            BY <3>1, SmallWords
    <2>2. CASE t.kind = "limited"
        <3>1. t.n \in Word /\ n \in Nat /\ n <= t.n
            BY <1>2, <2>2
        <3> QED
            BY <3>1, BaseIs DEF Word
    <2> QED
        BY <2>1, <2>2
<1>4. Decode(t, p, prev) = IF t.kind = "str" THEN ReadString(p) ELSE ReadLimited(p, t.n)
    BY DEF Decode, Wrappers
<1> HIDE DEF e
<1>5. /\ Reads(ReadWord(p), n, p, 2) /\ Lies(p + 2, v) /\ p + 2 \in Nat
      /\ Len(e) = 2 + n
    <2>1. Lies(p, EncWord(n) \o v)
        BY <1>1
    <2> HIDE DEF n
    <2>2. /\ Reads(ReadWord(p), n, p, 2) /\ Lies(p + 2, v) /\ p + 2 \in Nat
          /\ Len(EncWord(n) \o v) = 2 + Len(v)
        BY <1>2, <1>3, <2>1, WordFirst
    <2> QED
        BY <1>1, <2>2 DEF n
<1>6. Reads(AsText(ReadBytes(p + 2, n)), v, p + 2, n)
    BY <1>2, <1>5, TextIsRead
<1> HIDE DEF n
<1>7. CASE t.kind = "str"
    <2>1. Reads(ReadString(p), v, p, 2 + n)
        BY <1>2, <1>5, <1>6, LenData DEF Reads, ReadString, Then, Ok, Eof
    <2> QED
        BY <1>4, <1>5, <1>7, <2>1 DEF IsRead, e
<1>8. CASE t.kind = "limited"
    <2>1. ~(n > t.n)
        BY <1>2, <1>3, <1>8 DEF Field
    <2>2. Reads(ReadLimited(p, t.n), v, p, 2 + n)
        BY <1>2, <1>5, <1>6, <2>1, LenData DEF Reads, ReadLimited, Then, Ok, Eof
    <2> QED
        BY <1>4, <1>5, <1>8, <2>2 DEF IsRead, e
<1> QED
    BY <1>7, <1>8

\* The first zero of a fixed string is behind the text, if there is none in it.
LEMMA Until0Is ==
    ASSUME NEW n \in Nat, NEW v \in UpTo(Text, n), \A i \in DOMAIN v : v[i] # 0
    PROVE  Until0(EncFixed(v, n)) = v
PROOF
<1> DEFINE s == EncFixed(v, n)
           l == Len(v)
           Zeros == {i \in DOMAIN s : s[i] = 0}
<1>1. v \in Seq(Text) /\ l \in 0 .. n /\ l \in Nat
    BY UpToIs
<1>2. s \in Seq(Text) /\ Len(s) = n /\ DOMAIN s = 1 .. n
    <2>1. s \in [1 .. n -> Text] /\ Len(s) = n
        BY FixedType
    <2> HIDE DEF s
    <2> QED
        BY <2>1
<1>3. \A i \in 1 .. n : s[i] = IF i <= l THEN v[i] ELSE 0
    BY DEF EncFixed
<1>4. \A i \in 1 .. n : i \in Zeros <=> i > l
    <2> SUFFICES ASSUME NEW i \in 1 .. n PROVE i \in Zeros <=> i > l
        OBVIOUS
    <2>1. i <= l => v[i] # 0
        BY <1>1
    <2> QED
        BY <1>1, <1>2, <1>3, <2>1
<1>5. Until0(s) = IF Zeros = {} THEN s
                  ELSE SubSeq(s, 1, (CHOOSE i \in Zeros : \A j \in Zeros : i <= j) - 1)
    BY DEF Until0
<1>6. Zeros \subseteq 1 .. n
    BY <1>2
<1> HIDE DEF Zeros, s
<1>7. CASE l = n
    <2>1. Zeros = {}
        BY <1>4, <1>6, <1>7
    <2>2. \A i \in 1 .. n : s[i] = v[i]
        BY <1>3, <1>7
    <2>3. s = v
        BY <1>1, <1>2, <1>7, <2>2
    <2> QED
        BY <1>5, <2>1, <2>3 DEF s
<1>8. CASE l < n
    <2>1. l + 1 \in Zeros /\ \A j \in Zeros : l + 1 <= j
        BY <1>1, <1>4, <1>6, <1>8
    <2>2. \A i \in Zeros : (\A j \in Zeros : i <= j) => i = l + 1
        BY <1>1, <1>6, <2>1
    <2>3. (CHOOSE i \in Zeros : \A j \in Zeros : i <= j) = l + 1
        BY <2>1, <2>2
    <2>4. Until0(s) = SubSeq(s, 1, l)
        <3>1. (l + 1) - 1 = l /\ Zeros # {}
            BY <1>1, <2>1
        <3> HIDE DEF l
        <3> QED
            BY <1>5, <2>3, <3>1
    <2>5. SubSeq(s, 1, l) = [i \in 1 .. l |-> s[i]]
        BY <1>1, <1>2, <1>8
    <2>6. \A i \in 1 .. l : s[i] = v[i]
        BY <1>1, <1>3
    <2>7. v = [i \in 1 .. l |-> v[i]]
        BY <1>1
    <2> QED
        BY <2>4, <2>5, <2>6, <2>7 DEF s
<1> QED
    BY <1>1, <1>7, <1>8

LEMMA FixedIsRead ==
    ASSUME NEW t \in Field, t.kind = "fixed", NEW v \in Values(t), NEW prev,
           \A i \in DOMAIN v : v[i] # 0,
           data \in Bytes, NEW p \in Nat, p <= Len(data), Lies(p, Encode(t, v))
    PROVE  IsRead(t, v, p, prev)
PROOF
<1> DEFINE n == t.n
           e == EncFixed(v, n)
<1>1. Encode(t, v) = e /\ n \in Nat /\ v \in UpTo(Text, n)
    BY DEF Encode, Wrappers, Values, Field
<1>2. Decode(t, p, prev) = ReadFixed(p, n)
    BY DEF Decode, Wrappers
<1>3. e \in Bytes /\ e \in Seq(Text) /\ Len(e) = n
    BY <1>1, FixedType
<1>4. Until0(e) = v
    BY <1>1, Until0Is
<1> HIDE DEF e, n
<1>5. Reads(AsText(ReadBytes(p, n)), e, p, n)
    BY <1>1, <1>3, TextIsRead
<1>6. Reads(ReadFixed(p, n), v, p, n)
    BY <1>4, <1>5 DEF Reads, ReadFixed, Map, Then, Ok, Eof
<1> QED
    BY <1>1, <1>2, <1>3, <1>6 DEF IsRead

LEMMA ListIsRead ==
    ASSUME NEW t \in Field, t.kind = "list", NEW v \in Values(t), NEW prev, Len(v) <= Max,
           data \in Bytes, NEW p \in Nat, p <= Len(data), Lies(p, Encode(t, v))
    PROVE  IsRead(t, v, p, prev)
PROOF
<1> DEFINE e == Encode(t, v)
           n == Len(v)
<1>1. e = EncByte(n) \o v /\ v \in UpTo(Items, MaxItems) /\ Lies(p, e)
    BY DEF Encode, Wrappers, Values, EncList
<1>2. Decode(t, p, prev) = ReadList(p)
    BY DEF Decode, Wrappers
<1>3. v \in Bytes /\ n \in Nat
    BY <1>1, ItemListType, CodecAssumption
<1>4. n \in Byte
    BY <1>3, CodecAssumption DEF Byte
<1> HIDE DEF e
<1>5. /\ Reads(ReadByte(p), n, p, 1) /\ Lies(p + 1, v) /\ p + 1 \in Nat
      /\ Len(e) = 1 + n
    <2>1. Lies(p, EncByte(n) \o v)
        BY <1>1
    <2> HIDE DEF n
    <2>2. /\ Reads(ReadByte(p), n, p, 1) /\ Lies(p + 1, v) /\ p + 1 \in Nat
          /\ Len(EncByte(n) \o v) = 1 + Len(v)
        BY <1>3, <1>4, <2>1, ByteFirst
    <2> QED
        BY <1>1, <2>2 DEF n
<1>6. Reads(ReadBytes(p + 1, n), v, p + 1, n)
    BY <1>3, <1>5, BytesAreRead
<1> HIDE DEF n
<1>7. Reads(ReadList(p), v, p, 1 + n)
    BY <1>3, <1>5, <1>6, LenData DEF Reads, ReadList, Then, Ok, Eof
<1> QED
    BY <1>2, <1>5, <1>7 DEF IsRead, e

LEMMA SizedIsRead ==
    ASSUME NEW t \in Field, t.kind = "sized", NEW v \in Values(t), NEW prev, Len(v) = prev,
           data \in Bytes, NEW p \in Nat, p <= Len(data), Lies(p, Encode(t, v))
    PROVE  IsRead(t, v, p, prev)
PROOF
<1>1. Encode(t, v) = v /\ v \in UpTo(Items, 2)
    BY DEF Encode, Wrappers, Values
<1>2. Decode(t, p, prev) = ReadBytes(p, Len(v))
    BY DEF Decode, Wrappers
<1>3. v \in Bytes
    BY <1>1, ItemListType
<1> QED
    BY <1>1, <1>2, <1>3, BytesAreRead DEF IsRead

LEMMA PairIsRead ==
    ASSUME NEW t \in Field, t.kind = "pair", NEW v \in Values(t), NEW prev,
           data \in Bytes, NEW p \in Nat, p <= Len(data), Lies(p, Encode(t, v))
    PROVE  IsRead(t, v, p, prev)
PROOF
<1>1. Encode(t, v) = EncByte(v[1]) \o EncWord(v[2]) /\ v \in Items \X Word
    BY DEF Encode, Wrappers, Values, EncPair
<1>2. Decode(t, p, prev) = ReadPair(p)
    BY DEF Decode, Wrappers
<1>3. PICK a \in Items, b \in Word : v = <<a, b>>
    BY <1>1
<1>4. a \in Byte /\ a \in Int /\ b \in Int
    BY ItemsAreBytes, WordType, Zenon
<1>5. EncWord(b) \in Bytes /\ Len(EncWord(b)) = 2
    BY <1>4, EncWordType
<1>6. Encode(t, v) = EncByte(a) \o EncWord(b)
    BY <1>1, <1>3
<1>7. Lies(p, EncByte(a) \o EncWord(b))
    BY <1>6
<1>8. /\ Reads(ReadByte(p), a, p, 1) /\ Lies(p + 1, EncWord(b)) /\ p + 1 \in Nat
      /\ Len(EncByte(a) \o EncWord(b)) = 1 + Len(EncWord(b))
    BY <1>4, <1>5, <1>7, ByteFirst
<1>9. Reads(ReadWord(p + 1), b, p + 1, 2)
    BY <1>8, WordIsRead
<1>10. Reads(ReadPair(p), <<a, b>>, p, 3)
    BY <1>8, <1>9, LenData DEF Reads, ReadPair, Map, Then, Ok, Eof
<1> QED
    BY <1>2, <1>3, <1>5, <1>6, <1>8, <1>10 DEF IsRead

LEMMA Two ==
    ASSUME NEW S, NEW a \in S, NEW b \in S
    PROVE  <<a>> \o <<b>> = <<a, b>>
PROOF
<1> DEFINE x == <<a>>
           y == <<b>>
           z == <<a, b>>
           w == x \o y
<1>1. x \in Seq(S) /\ y \in Seq(S) /\ z \in Seq(S)
    OBVIOUS
<1>2. Len(x) = 1 /\ Len(y) = 1 /\ Len(z) = 2 /\ x[1] = a /\ y[1] = b /\ z[1] = a /\ z[2] = b
    OBVIOUS
<1> HIDE DEF x, y, z
<1>3. /\ w \in Seq(S) /\ Len(w) = Len(x) + Len(y)
      /\ \A i \in 1 .. Len(x) : w[i] = x[i]
      /\ \A i \in 1 .. Len(y) : w[Len(x) + i] = y[i]
    BY <1>1, Joined
<1> HIDE DEF w
<1>4. w \in Seq(S) /\ Len(w) = 2 /\ w[1] = a
    BY <1>2, <1>3
<1>5. w[2] = b
    <2>1. 1 \in 1 .. Len(y) /\ Len(x) + 1 = 2
        BY <1>2
    <2>2. w[Len(x) + 1] = y[1]
        BY <1>3, <2>1
    <2> QED
        BY <1>2, <2>1, <2>2
<1>6. \A i \in 1 .. 2 : w[i] = z[i]
    BY <1>2, <1>4, <1>5
<1>7. w = z
    BY <1>1, <1>2, <1>4, <1>6
<1> QED
    BY <1>7 DEF w, x, y, z

LEMMA OptionIsRead ==
    ASSUME NEW t \in Field, t.kind \in {"option", "optionR"}, NEW v \in Values(t), NEW prev,
           data \in Bytes, NEW p \in Nat, p <= Len(data), Lies(p, Encode(t, v))
    PROVE  IsRead(t, v, p, prev)
PROOF
<1> DEFINE none == NoneValue(t)
           c(d) == (d # 0) = (none = 0)
<1>1. Encode(t, v) = EncOption(t, v) /\ v \in Option(Items)
    BY DEF Encode, Wrappers, Values
<1>2. Decode(t, p, prev) = ReadOption(t, p)
    BY DEF Decode, Wrappers
<1>3. none \in {0, 1} /\ none \in Byte /\ 1 - none \in Byte /\ 0 \in Nat
    BY BaseIs DEF NoneValue
<1>4. c(none) = FALSE /\ c(1 - none) = TRUE
    BY <1>3
<1>5. ReadOption(t, p) = LET r == ReadByte(p) IN IF r.res = "ok" THEN ReadIf(c(r.val), r.next) ELSE r
    BY DEF ReadOption, Then
<1> HIDE DEF none, c
<1>6. ASSUME v = None PROVE IsRead(t, v, p, prev)
    <2>1. Encode(t, v) = EncByte(none) /\ Len(Encode(t, v)) = 1
        BY <1>1, <1>3, <1>6, EncByteIs DEF EncOption, none
    <2>2. Reads(ReadByte(p), none, p, 1)
        BY <1>3, <2>1, ByteIsRead
    <2>3. CASE p + 1 <= Len(data)
        <3>1. ReadByte(p) = Ok(none, p + 1)
            BY <2>2, <2>3 DEF Reads
        <3>2. ReadOption(t, p) = ReadIf(c(none), p + 1)
            BY <1>5, <3>1 DEF Ok
        <3>3. ReadIf(c(none), p + 1) = Ok(None, p + 1)
            BY <1>4, Zenon DEF ReadIf
        <3> QED
            BY <1>2, <1>6, <2>1, <2>3, <3>2, <3>3 DEF IsRead, Reads
    <2>4. CASE ~(p + 1 <= Len(data))
        <3>1. ReadByte(p) = Eof
            BY <2>2, <2>4 DEF Reads
        <3>2. ReadOption(t, p) = Eof
            BY <1>5, <3>1 DEF Eof
        <3> QED
            BY <1>2, <2>1, <2>4, <3>2 DEF IsRead, Reads
    <2> QED
        BY <2>3, <2>4
<1>7. ASSUME v \in Items PROVE IsRead(t, v, p, prev)
    <2>1. v \in Byte /\ v # None
        BY <1>7, ItemsAreBytes
    <2>2. EncByte(v) = <<v>> /\ EncByte(1 - none) = <<1 - none>>
        BY <1>3, <2>1, EncByteIs
    <2>3. <<1 - none>> \o <<v>> = <<1 - none, v>>
        BY <1>3, <2>1, Two
    <2>4. Encode(t, v) = EncByte(1 - none) \o EncByte(v)
        BY <1>1, <2>1, <2>2, <2>3 DEF EncOption, none
    <2>5. EncByte(v) \in Bytes /\ Len(EncByte(v)) = 1
        BY <2>1, <2>2, ByteType
    <2>6. Lies(p, EncByte(1 - none) \o EncByte(v))
        BY <2>4
    <2> DEFINE x == 1 - none
               y == EncByte(v)
    <2>11. x \in Byte /\ y \in Bytes /\ Lies(p, EncByte(x) \o y)
        BY <1>3, <2>5, <2>6
    <2> HIDE DEF x, y
    <2>7. /\ Reads(ReadByte(p), x, p, 1) /\ Lies(p + 1, y) /\ p + 1 \in Nat
          /\ Len(EncByte(x) \o y) = 1 + Len(y)
        BY <2>11, ByteFirst
    <2>8. Reads(ReadByte(p + 1), v, p + 1, 1) /\ Len(Encode(t, v)) = 2
        BY <2>1, <2>4, <2>5, <2>7, ByteIsRead DEF x, y
    <2>9. CASE p + 1 <= Len(data)
        <3>1. ReadByte(p) = Ok(x, p + 1)
            BY <2>7, <2>9 DEF Reads
        <3>2. ReadOption(t, p) = ReadIf(c(x), p + 1)
            BY <1>5, <3>1 DEF Ok
        <3>3. ReadIf(c(x), p + 1) = ReadByte(p + 1)
            BY <1>4, Zenon DEF ReadIf, x
        <3>4. (p + 1) + 1 = p + 2
            OBVIOUS
        <3> QED
            BY <1>2, <2>8, <3>2, <3>3, <3>4 DEF IsRead, Reads
    <2>10. CASE ~(p + 1 <= Len(data))
        <3>1. ReadByte(p) = Eof
            BY <2>7, <2>10 DEF Reads
        <3>2. ReadOption(t, p) = Eof
            BY <1>5, <3>1 DEF Eof
        <3>3. ~(p + 2 <= Len(data))
            BY <2>10, LenData
        <3> QED
            BY <1>2, <2>8, <3>2, <3>3 DEF IsRead, Reads
    <2> QED
        BY <2>9, <2>10
<1> QED
    BY <1>1, <1>6, <1>7 DEF Option

\* A conditional value, where the condition says that it is there.
LEMMA IfIsRead ==
    ASSUME NEW v \in Option(Items), data \in Bytes, NEW p \in Nat, p <= Len(data),
           Lies(p, EncCond(v)), NEW c \in BOOLEAN, c <=> v # None
    PROVE  Reads(ReadIf(c, p), v, p, Len(EncCond(v)))
PROOF
<1>1. CASE v = None
    <2>1. EncCond(v) = << >> /\ Len(EncCond(v)) = 0
        BY <1>1 DEF EncCond
    <2>2. ReadIf(c, p) = Ok(None, p)
        BY <1>1, Zenon DEF ReadIf
    <2>3. p + 0 = p
        OBVIOUS
    <2> QED
        BY <1>1, <2>1, <2>2, <2>3 DEF Reads
<1>2. CASE v \in Items
    <2>1. v \in Byte /\ v # None
        BY <1>2, ItemsAreBytes
    <2>2. EncCond(v) = EncByte(v) /\ Len(EncCond(v)) = 1
        BY <2>1, EncByteIs DEF EncCond
    <2>3. ReadIf(c, p) = ReadByte(p)
        BY <2>1, Zenon DEF ReadIf
    <2>4. Lies(p, EncByte(v))
        BY <2>2
    <2> QED
        BY <2>1, <2>2, <2>3, <2>4, ByteIsRead
<1> QED
    BY <1>1, <1>2 DEF Option

LEMMA CondIsRead ==
    ASSUME NEW t \in Field, t.kind = "cond", NEW v \in Values(t),
           NEW prev \in BOOLEAN, prev <=> v # None,
           data \in Bytes, NEW p \in Nat, p <= Len(data), Lies(p, Encode(t, v))
    PROVE  IsRead(t, v, p, prev)
PROOF
<1>1. Encode(t, v) = EncCond(v) /\ v \in Option(Items)
    BY DEF Encode, Wrappers, Values
<1>2. Decode(t, p, prev) = ReadIf(prev, p)
    BY DEF Decode, Wrappers
<1>3. Lies(p, EncCond(v))
    BY <1>1
<1>4. Reads(ReadIf(prev, p), v, p, Len(EncCond(v)))
    BY <1>1, <1>3, IfIsRead
<1> QED
    BY <1>1, <1>2, <1>4 DEF IsRead

LEMMA EitherIsRead ==
    ASSUME NEW t \in Field, t.kind = "either", NEW v \in Values(t),
           NEW prev \in BOOLEAN, v.left = prev,
           data \in Bytes, NEW p \in Nat, p <= Len(data), Lies(p, Encode(t, v))
    PROVE  IsRead(t, v, p, prev)
PROOF
<1>1. Encode(t, v) = EncEither(v)
    BY DEF Encode, Wrappers
<1>2. v \in [left : {TRUE}, val : Items] \/ v \in [left : {FALSE}, val : Word]
    BY DEF Values
<1>3. Decode(t, p, prev) = ReadEither(prev, p)
    BY DEF Decode, Wrappers
<1>4. CASE v \in [left : {TRUE}, val : Items]
    <2>1. PICK x \in Items : v = [left |-> TRUE, val |-> x]
        BY <1>4
    <2>2. prev = TRUE /\ v.val = x /\ x \in Byte
        BY <2>1, ItemsAreBytes
    <2>3. Encode(t, v) = EncByte(x) /\ Len(EncByte(x)) = 1
        BY <1>1, <2>1, <2>2, ByteType, EncByteType DEF EncEither
    <2>4. Lies(p, EncByte(x))
        BY <2>3
    <2>5. Reads(ReadByte(p), x, p, 1)
        BY <2>2, <2>4, ByteIsRead
    <2>6. Reads(ReadEither(TRUE, p), v, p, 1)
        <3> DEFINE o == ReadEither(TRUE, p)
                   r == ReadByte(p)
                   w(z) == [left |-> TRUE, val |-> z]
        <3>1. o = IF r.res = "ok" THEN Ok(w(r.val), r.next) ELSE r
            BY Zenon DEF ReadEither, Map, Then
        <3>2. w(x) = v
            BY <2>1
        <3> HIDE DEF o, w
        <3>3. Reads(o, w(x), p, 1)
            BY <2>5, <3>1 DEF Reads, Ok, Eof
        <3> QED
            BY <3>2, <3>3 DEF o
    <2> QED
        BY <1>3, <2>2, <2>3, <2>6 DEF IsRead
<1>5. CASE v \in [left : {FALSE}, val : Word]
    <2>1. PICK x \in Word : v = [left |-> FALSE, val |-> x]
        BY <1>5
    <2>2. prev = FALSE /\ v.val = x
        BY <2>1
    <2>3. Encode(t, v) = EncWord(x) /\ Len(EncWord(x)) = 2
        BY <1>1, <2>1, <2>2, WordType, EncWordType DEF EncEither
    <2>4. Lies(p, EncWord(x))
        BY <2>3
    <2>5. Reads(ReadWord(p), x, p, 2)
        BY <2>4, WordIsRead
    <2>6. Reads(ReadEither(FALSE, p), v, p, 2)
        <3> DEFINE o == ReadEither(FALSE, p)
                   r == ReadWord(p)
                   w(z) == [left |-> FALSE, val |-> z]
        <3>1. o = IF r.res = "ok" THEN Ok(w(r.val), r.next) ELSE r
            BY Zenon DEF ReadEither, Map, Then
        <3>2. w(x) = v
            BY <2>1
        <3> HIDE DEF o, w
        <3>3. Reads(o, w(x), p, 2)
            BY <2>5, <3>1 DEF Reads, Ok, Eof
        <3> QED
            BY <3>2, <3>3 DEF o
    <2> QED
        BY <1>3, <2>2, <2>3, <2>6 DEF IsRead
<1> QED
    BY <1>2, <1>4, <1>5

\* A read goes on behind what another one has read.
LEMMA Chain ==
    ASSUME data \in Bytes, NEW p \in Nat, NEW n \in Nat, NEW m \in Nat,
           NEW r, NEW v, NEW o, NEW x, NEW w,
           Reads(r, v, p, n), r = Ok(v, p + n) => o = x, r = Eof => o = Eof,
           p + n <= Len(data) => Reads(x, w, p + n, m)
    PROVE  Reads(o, w, p, n + m)
PROOF
<1> DEFINE q == p + n
           d == Len(data)
<1>1. q \in Nat /\ d \in Nat /\ q + m = p + (n + m) /\ q <= q + m
    BY LenData
<1> HIDE DEF q, d
<1>2. CASE q <= d
    <2>1. o = x /\ Reads(x, w, q, m)
        BY <1>2 DEF Reads, q, d
    <2> QED
        BY <1>1, <2>1 DEF Reads, d
<1>3. CASE ~(q <= d)
    <2>1. o = Eof
        BY <1>3 DEF Reads, q, d
    <2>2. ~(q + m <= d)
        BY <1>1, <1>3
    <2> QED
        BY <1>1, <2>1, <2>2 DEF Reads, d
<1> QED
    BY <1>2, <1>3

\* What was read is turned into another value.
LEMMA Mapped ==
    ASSUME NEW p \in Nat, NEW n \in Nat, NEW r, NEW v, NEW o, NEW w,
           Reads(r, v, p, n), r = Ok(v, p + n) => o = Ok(w, p + n), r = Eof => o = Eof
    PROVE  Reads(o, w, p, n)
    BY DEF Reads

LEMMA AllIsRead ==
    ASSUME NEW t \in Field, t.kind = "all", NEW v \in Values(t), NEW prev,
           data \in Bytes, NEW p \in Nat, p <= Len(data), Lies(p, Encode(t, v))
    PROVE  IsRead(t, v, p, prev)
PROOF
<1>1. Encode(t, v) = EncByte(v[0]) \o EncByte(v[1]) /\ v \in [Flags -> Items]
    BY DEF Encode, Wrappers, Values, EncAll
<1>2. Decode(t, p, prev) = ReadAll(p)
    BY DEF Decode, Wrappers
<1>3. v[0] \in Byte /\ v[1] \in Byte
    BY <1>1, ItemsAreBytes DEF Flags
<1> DEFINE s == <<v[0], v[1]>>
<1>4. EncByte(v[0]) = <<v[0]>> /\ EncByte(v[1]) = <<v[1]>>
    BY <1>3, EncByteIs
<1>5. Encode(t, v) = s
    BY <1>1, <1>3, <1>4, Two
<1>6. s \in Bytes /\ Len(s) = 2 /\ s[1] = v[0] /\ s[2] = v[1]
    BY <1>3 DEF Bytes
<1> HIDE DEF s
<1>7. Reads(ReadBytes(p, 2), s, p, 2)
    BY <1>5, <1>6, BytesAreRead
<1>8. [f \in Flags |-> s[f + 1]] = v
    BY <1>1, <1>6 DEF Flags
<1>9. Reads(ReadAll(p), v, p, 2)
    BY <1>7, <1>8 DEF Reads, ReadAll, Map, Then, Ok, Eof
<1> QED
    BY <1>2, <1>5, <1>6, <1>9 DEF IsRead

\* The sign and the number of an offset give it back, the lowest one included.
LEMMA OffsetOf ==
    ASSUME NEW v \in -(Base \div 2) .. (Base \div 2) - 1
    PROVE  LET x == IF v < 0 THEN -v ELSE v
           IN  x \in Byte /\ (IF v < 0 THEN Negated(Signed(x)) ELSE Signed(x)) = v
PROOF
<1> DEFINE H == Base \div 2
           B == Base
<1>1. B \in Nat /\ B >= 4 /\ Byte = 0 .. B - 1 /\ H \in Nat /\ 2 * H = B
    BY BaseIs
<1>2. v \in -H .. H - 1
    OBVIOUS
<1>3. \A x : Signed(x) = IF x >= H THEN x - B ELSE x
    BY DEF Signed
<1>4. \A x : Negated(x) = IF x = -H THEN x ELSE -x
    BY DEF Negated
<1> HIDE DEF H, B
<1>5. CASE v < 0
    <2>1. -v \in 1 .. H /\ -v \in 0 .. B - 1
        BY <1>1, <1>2, <1>5
    <2>2. CASE -v = H
        <3>1. Signed(-v) = -H
            BY <1>1, <1>3, <2>1, <2>2
        <3>2. Negated(-H) = -H
            BY <1>4
        <3> QED
            BY <1>1, <1>2, <1>5, <2>1, <2>2, <3>1, <3>2
    <2>3. CASE -v < H
        <3>1. Signed(-v) = -v
            BY <1>1, <1>2, <1>3, <2>3
        <3>2. Negated(-v) = -(-v)
            BY <1>1, <1>2, <1>4, <1>5
        <3> QED
            BY <1>1, <1>2, <1>5, <2>1, <3>1, <3>2
    <2> QED
        BY <1>1, <1>2, <2>1, <2>2, <2>3
<1>6. CASE ~(v < 0)
    <2>1. v \in 0 .. B - 1 /\ ~(v >= H)
        BY <1>1, <1>2, <1>6
    <2>2. Signed(v) = v
        BY <1>3, <2>1
    <2> QED
        BY <1>1, <1>6, <2>1, <2>2
<1> QED
    BY <1>5, <1>6

LEMMA OffsetIsRead ==
    ASSUME NEW t \in Field, t.kind = "offset", NEW v \in Values(t), NEW prev,
           data \in Bytes, NEW p \in Nat, p <= Len(data), Lies(p, Encode(t, v))
    PROVE  IsRead(t, v, p, prev)
PROOF
<1> DEFINE x == IF v < 0 THEN -v ELSE v
           s == IF v < 0 THEN 1 ELSE 0
           w(neg, z) == IF neg # 0 THEN Negated(Signed(z)) ELSE Signed(z)
           Rest(neg, q) == Map(ReadByte(q), LAMBDA z : w(neg, z))
<1>1. Encode(t, v) = EncOffset(v) /\ v \in -(Base \div 2) .. (Base \div 2) - 1
    BY DEF Encode, Wrappers, Values
<1>2. Decode(t, p, prev) = ReadOffset(p)
    BY DEF Decode, Wrappers
<1>3. x \in Byte /\ w(s, x) = v
    BY <1>1, OffsetOf
<1>4. s \in Byte /\ EncBool(v < 0) = EncByte(s)
    <2>1. 0 \in Byte /\ 1 \in Byte
        BY BaseIs
    <2>2. EncByte(0) = <<0>> /\ EncByte(1) = <<1>>
        BY <2>1, EncByteIs
    <2> QED
        BY <2>1, <2>2 DEF EncBool
<1>5. Encode(t, v) = EncByte(s) \o EncByte(x)
    BY <1>1, <1>4 DEF EncOffset
<1>6. Lies(p, EncByte(s) \o EncByte(x))
    BY <1>5
<1>7. ReadOffset(p) = IF ReadByte(p).res = "ok" THEN Rest(ReadByte(p).val, ReadByte(p).next) ELSE ReadByte(p)
    BY DEF ReadOffset, Then
<1>8. \A neg, q : Rest(neg, q) = IF ReadByte(q).res = "ok" THEN Ok(w(neg, ReadByte(q).val), ReadByte(q).next)
                                ELSE ReadByte(q)
    BY DEF Map, Then
<1> HIDE DEF x, s, w, Rest
<1> DEFINE y == EncByte(x)
<1>9. y \in Bytes /\ Len(y) = 1
    BY <1>3, ByteType, EncByteType
<1>10. Lies(p, EncByte(s) \o y)
    BY <1>6
<1> HIDE DEF y
<1>11. Reads(ReadByte(p), s, p, 1) /\ Lies(p + 1, y) /\ p + 1 \in Nat /\ Len(EncByte(s) \o y) = 1 + Len(y)
    BY <1>4, <1>9, <1>10, ByteFirst
<1>12. Reads(ReadByte(p + 1), x, p + 1, 1)
    BY <1>3, <1>11, ByteIsRead DEF y
<1>13. Reads(Rest(s, p + 1), v, p + 1, 1)
    <2> DEFINE r == ReadByte(p + 1)
               o == Rest(s, p + 1)
    <2>1. o = IF r.res = "ok" THEN Ok(w(s, r.val), r.next) ELSE r
        BY <1>8
    <2> HIDE DEF o
    <2> QED
        BY <1>3, <1>12, <2>1 DEF Reads, Ok, Eof, o
<1>14. Reads(ReadOffset(p), v, p, 2)
    <2>1. ReadByte(p) = Ok(s, p + 1) => ReadOffset(p) = Rest(s, p + 1)
        BY <1>7 DEF Ok
    <2>2. ReadByte(p) = Eof => ReadOffset(p) = Eof
        BY <1>7 DEF Eof
    <2>3. Reads(ReadOffset(p), v, p, 1 + 1)
        BY <1>11, <1>13, <2>1, <2>2, Chain
    <2> QED
        BY <2>3
<1> QED
    BY <1>2, <1>5, <1>9, <1>11, <1>14 DEF IsRead, y

LEMMA VariantIsRead ==
    ASSUME NEW t \in Field, t.kind = "variant", NEW v \in Values(t), NEW prev,
           data \in Bytes, NEW p \in Nat, p <= Len(data), Lies(p, Encode(t, v))
    PROVE  IsRead(t, v, p, prev)
PROOF
<1> DEFINE w(d, z) == [disc |-> d, val |-> z]
           Rest(d, q) == IF d = 1 THEN Map(ReadByte(q), LAMBDA z : w(d, z))
                         ELSE IF d = 2 THEN Map(ReadWord(q), LAMBDA z : w(d, z))
                         ELSE Error
<1>1. Encode(t, v) = EncVariant(v)
    BY DEF Encode, Wrappers
<1>2. v \in [disc : {1}, val : Byte] \/ v \in [disc : {2}, val : Word]
    BY DEF Values, ByteVariant, WordVariant
<1>3. Decode(t, p, prev) = ReadVariant(p)
    BY DEF Decode, Wrappers
<1>4. ReadVariant(p) = IF ReadByte(p).res = "ok" THEN Rest(ReadByte(p).val, ReadByte(p).next) ELSE ReadByte(p)
    BY DEF ReadVariant, Then, ByteVariant, WordVariant
<1>5. \A q : Rest(1, q) = IF ReadByte(q).res = "ok" THEN Ok(w(1, ReadByte(q).val), ReadByte(q).next)
                          ELSE ReadByte(q)
    BY DEF Map, Then
<1>6. \A q : Rest(2, q) = IF ReadWord(q).res = "ok" THEN Ok(w(2, ReadWord(q).val), ReadWord(q).next)
                          ELSE ReadWord(q)
    BY DEF Map, Then
<1>7. 1 \in Byte /\ 2 \in Byte /\ 1 \in Nat /\ 2 \in Nat
    BY BaseIs
<1>8. CASE v \in [disc : {1}, val : Byte]
    <2>1. PICK x \in Byte : v = w(1, x)
        BY <1>8
    <2> DEFINE y == EncByte(x)
    <2>2. Encode(t, v) = EncByte(1) \o y
        BY <1>1, <2>1 DEF EncVariant, ByteVariant
    <2> HIDE DEF w, Rest
    <2>3. y \in Bytes /\ Len(y) = 1
        BY ByteType, EncByteType
    <2> HIDE DEF y
    <2>4. Lies(p, EncByte(1) \o y)
        BY <2>2
    <2>5. Reads(ReadByte(p), 1, p, 1) /\ Lies(p + 1, y) /\ p + 1 \in Nat /\ Len(EncByte(1) \o y) = 1 + Len(y)
        <3> DEFINE d == 1
        <3>1. d \in Byte /\ Lies(p, EncByte(d) \o y)
            BY <1>7, <2>4
        <3> HIDE DEF d
        <3>2. Reads(ReadByte(p), d, p, 1) /\ Lies(p + 1, y) /\ p + 1 \in Nat /\ Len(EncByte(d) \o y) = 1 + Len(y)
            BY <2>3, <3>1, ByteFirst
        <3> QED
            BY <3>2 DEF d
    <2>6. Reads(ReadByte(p + 1), x, p + 1, 1)
        BY <2>5, ByteIsRead DEF y
    <2>7. Reads(Rest(1, p + 1), v, p + 1, 1)
        BY <1>5, <2>1, <2>6 DEF Reads, Ok, Eof
    <2>8. ReadByte(p) = Ok(1, p + 1) => ReadVariant(p) = Rest(1, p + 1)
        BY <1>4 DEF Ok
    <2>9. ReadByte(p) = Eof => ReadVariant(p) = Eof
        BY <1>4 DEF Eof
    <2>10. Reads(ReadVariant(p), v, p, 1 + 1)
        BY <2>5, <2>7, <2>8, <2>9, Chain
    <2> QED
        BY <1>3, <2>2, <2>3, <2>5, <2>10 DEF IsRead
<1>9. CASE v \in [disc : {2}, val : Word]
    <2>1. PICK x \in Word : v = w(2, x)
        BY <1>9
    <2> DEFINE y == EncWord(x)
    <2>2. Encode(t, v) = EncByte(2) \o y
        BY <1>1, <2>1 DEF EncVariant, ByteVariant
    <2> HIDE DEF w, Rest
    <2>3. y \in Bytes /\ Len(y) = 2
        BY WordType, EncWordType
    <2> HIDE DEF y
    <2>4. Lies(p, EncByte(2) \o y)
        BY <2>2
    <2>5. Reads(ReadByte(p), 2, p, 1) /\ Lies(p + 1, y) /\ p + 1 \in Nat /\ Len(EncByte(2) \o y) = 1 + Len(y)
        <3> DEFINE d == 2
        <3>1. d \in Byte /\ Lies(p, EncByte(d) \o y)
            BY <1>7, <2>4
        <3> HIDE DEF d
        <3>2. Reads(ReadByte(p), d, p, 1) /\ Lies(p + 1, y) /\ p + 1 \in Nat /\ Len(EncByte(d) \o y) = 1 + Len(y)
            BY <2>3, <3>1, ByteFirst
        <3> QED
            BY <3>2 DEF d
    <2>6. Reads(ReadWord(p + 1), x, p + 1, 2)
        BY <2>5, WordIsRead DEF y
    <2>7. Reads(Rest(2, p + 1), v, p + 1, 2)
        BY <1>6, <2>1, <2>6 DEF Reads, Ok, Eof
    <2>8. ReadByte(p) = Ok(2, p + 1) => ReadVariant(p) = Rest(2, p + 1)
        BY <1>4 DEF Ok
    <2>9. ReadByte(p) = Eof => ReadVariant(p) = Eof
        BY <1>4 DEF Eof
    <2>10. Reads(ReadVariant(p), v, p, 1 + 2)
        BY <2>5, <2>7, <2>8, <2>9, Chain
    <2> QED
        BY <1>3, <2>2, <2>3, <2>5, <2>10 DEF IsRead
<1> QED
    BY <1>2, <1>8, <1>9

\* The flags of a partial tell which of its fields are there.
LEMMA FlagsTell ==
    ASSUME NEW d \in [Flags -> Option(Items)]
    PROVE  /\ FlagsOf(d) \in 0 .. 3
           /\ Contains(FlagsOf(d), 0) <=> d[0] # None
           /\ Contains(FlagsOf(d), 1) <=> d[1] # None
PROOF
<1>1. FlagsOf(d) = (IF d[0] # None THEN 1 ELSE 0) + (IF d[1] # None THEN 2 ELSE 0)
    BY DEF FlagsOf, Bit
<1>2. \A f : Contains(f, 0) <=> (f \div 1) % 2 = 1
    BY DEF Contains, Bit
<1>3. \A f : Contains(f, 1) <=> (f \div 2) % 2 = 1
    BY DEF Contains, Bit
<1>4. CASE d[0] # None /\ d[1] # None
    <2>1. FlagsOf(d) = 3
        BY <1>1, <1>4
    <2> QED
        BY <1>2, <1>3, <1>4, <2>1
<1>5. CASE d[0] # None /\ d[1] = None
    <2>1. FlagsOf(d) = 1
        BY <1>1, <1>5
    <2> QED
        BY <1>2, <1>3, <1>5, <2>1
<1>6. CASE d[0] = None /\ d[1] # None
    <2>1. FlagsOf(d) = 2
        BY <1>1, <1>6
    <2> QED
        BY <1>2, <1>3, <1>6, <2>1
<1>7. CASE d[0] = None /\ d[1] = None
    <2>1. FlagsOf(d) = 0
        BY <1>1, <1>7
    <2> QED
        BY <1>2, <1>3, <1>7, <2>1
<1> QED
    BY <1>4, <1>5, <1>6, <1>7

LEMMA PartialIsRead ==
    ASSUME NEW t \in Field, t.kind = "partial", NEW v \in Values(t), NEW prev,
           data \in Bytes, NEW p \in Nat, p <= Len(data), Lies(p, Encode(t, v))
    PROVE  IsRead(t, v, p, prev)
PROOF
<1> DEFINE h == v.hdr
           a == v.data[0]
           b == v.data[1]
           f == FlagsOf(v.data)
           eh == EncCond(h)
           ea == EncCond(a)
           eb == EncCond(b)
           ef == EncByte(f)
           Both(x, y) == [g \in Flags |-> IF g = 0 THEN x ELSE y]
           All(x, y) == [hdr |-> x, data |-> y]
           RB(g, x, q) == LET r == ReadIf(Contains(g, 1), q)
                          IN  IF r.res = "ok" THEN Ok(Both(x, r.val), r.next) ELSE r
           RH(g, q) == LET r == ReadIf(t.n # 0, q)
                       IN  IF r.res = "ok"
                           THEN LET d == PartialDecode(g, r.next)
                                IN  IF d.res = "ok" THEN Ok(All(r.val, d.val), d.next) ELSE d
                           ELSE r
<1>1. Encode(t, v) = ((ef \o eh) \o ea) \o eb
    BY DEF Encode, Wrappers, EncPartial
<1>2. Decode(t, p, prev) = ReadPartial(t, p)
    BY DEF Decode, Wrappers
<1>3. /\ v = All(h, v.data) /\ h \in Option(Items) /\ (h = None <=> t.n = 0)
      /\ v.data \in [Flags -> Option(Items)] /\ a \in Option(Items) /\ b \in Option(Items)
    BY PartialType
<1>4. v.data = Both(a, b)
    BY <1>3 DEF Flags
<1>5. f \in 0 .. 3 /\ (Contains(f, 0) <=> a # None) /\ (Contains(f, 1) <=> b # None)
    BY <1>3, FlagsTell
<1>6. f \in Byte
    BY <1>5, BaseIs
<1>7. ReadPartial(t, p) = IF ReadByte(p).res = "ok" THEN RH(ReadByte(p).val, ReadByte(p).next) ELSE ReadByte(p)
    BY DEF ReadPartial, Then, Map
<1>8. \A g, q : PartialDecode(g, q) = LET r == ReadIf(Contains(g, 0), q)
                                      IN  IF r.res = "ok" THEN RB(g, r.val, r.next) ELSE r
    BY DEF PartialDecode, Then, Map
<1>9. /\ ef \in Bytes /\ eh \in Bytes /\ ea \in Bytes /\ eb \in Bytes /\ Len(ef) = 1
      /\ Len(eh) \in Nat /\ Len(ea) \in Nat /\ Len(eb) \in Nat
    <2>1. ef \in Bytes /\ Len(ef) = 1
        BY <1>6, ByteType, EncByteType
    <2>2. eh \in Bytes /\ ea \in Bytes /\ eb \in Bytes
        BY <1>3, CondType
    <2> HIDE DEF ef, eh, ea, eb
    <2> QED
        BY <2>1, <2>2 DEF Bytes
<1>10. \A g, q : RH(g, q) = LET r == ReadIf(t.n # 0, q)
                            IN  IF r.res = "ok"
                                THEN LET d == PartialDecode(g, r.next)
                                     IN  IF d.res = "ok" THEN Ok(All(r.val, d.val), d.next) ELSE d
                                ELSE r
    OBVIOUS
<1>11. \A g, x, q : RB(g, x, q) = LET r == ReadIf(Contains(g, 1), q)
                                  IN  IF r.res = "ok" THEN Ok(Both(x, r.val), r.next) ELSE r
    OBVIOUS
<1>12. t.n # 0 <=> h # None
    BY <1>3
<1> HIDE DEF h, a, b, f, eh, ea, eb, ef, Both, All, RB, RH
<1> DEFINE lh == Len(eh)
           la == Len(ea)
           lb == Len(eb)
           q1 == p + 1
           q2 == q1 + lh
           q3 == q2 + la
           c1 == ef \o eh
           c2 == c1 \o ea
<1>13. c1 \in Bytes /\ Len(c1) = 1 + lh
    <2>1. c1 \in Bytes /\ Len(c1) = Len(ef) + Len(eh)
        BY <1>9, JoinType
    <2> HIDE DEF c1
    <2> QED
        BY <1>9, <2>1
<1>14. c2 \in Bytes /\ Len(c2) = 1 + lh + la
    <2> HIDE DEF c1
    <2> QED
        BY <1>9, <1>13, JoinType
<1>15. Len(Encode(t, v)) = 1 + lh + la + lb
    <2> HIDE DEF c2
    <2>1. Len(c2 \o eb) = Len(c2) + Len(eb)
        BY <1>9, <1>14, JoinType
    <2> QED
        BY <1>1, <1>14, <2>1 DEF c2
<1>16. Lies(p, c2) /\ Lies(p + (1 + lh + la), eb)
    <2>1. Lies(p, c2 \o eb)
        BY <1>1
    <2> HIDE DEF c2
    <2> QED
        BY <1>9, <1>14, <2>1, LiesTogether
<1>17. Lies(p, c1) /\ Lies(p + (1 + lh), ea)
    <2>1. Lies(p, c1 \o ea)
        BY <1>16
    <2> HIDE DEF c1
    <2> QED
        BY <1>9, <1>13, <2>1, LiesTogether
<1>18. Lies(p, ef) /\ Lies(p + 1, eh)
    BY <1>9, <1>17, LiesTogether
<1> HIDE DEF c1, c2, lh, la, lb
<1>19. lh \in Nat /\ la \in Nat /\ lb \in Nat
    BY <1>9 DEF lh, la, lb
<1>20. /\ q1 \in Nat /\ q2 \in Nat /\ q3 \in Nat
       /\ p + (1 + lh) = q2 /\ p + (1 + lh + la) = q3
    BY <1>19
<1>21. Lies(q1, eh) /\ Lies(q2, ea) /\ Lies(q3, eb)
    BY <1>16, <1>17, <1>18, <1>20
<1>22. Reads(ReadByte(p), f, p, 1)
    BY <1>6, <1>18, ByteIsRead DEF ef
<1> HIDE DEF q1, q2, q3
<1>23. ASSUME q1 <= Len(data) PROVE Reads(ReadIf(t.n # 0, q1), h, q1, lh)
    <2> DEFINE c == t.n # 0
    <2>1. c \in BOOLEAN /\ (c <=> h # None)
        BY <1>12
    <2> HIDE DEF c
    <2>2. Reads(ReadIf(c, q1), h, q1, Len(EncCond(h)))
        BY <1>3, <1>20, <1>21, <1>23, <2>1, IfIsRead DEF eh
    <2> QED
        BY <2>2 DEF c, lh, eh
<1>24. ASSUME q2 <= Len(data) PROVE Reads(ReadIf(Contains(f, 0), q2), a, q2, la)
    <2> DEFINE c == Contains(f, 0)
    <2>1. c \in BOOLEAN /\ (c <=> a # None)
        <3>1. c \in BOOLEAN
            BY DEF Contains
        <3> QED
            BY <1>5, <3>1
    <2> HIDE DEF c
    <2>2. Reads(ReadIf(c, q2), a, q2, Len(EncCond(a)))
        BY <1>3, <1>20, <1>21, <1>24, <2>1, IfIsRead DEF ea
    <2> QED
        BY <2>2 DEF c, la, ea
<1>25. ASSUME q3 <= Len(data) PROVE Reads(ReadIf(Contains(f, 1), q3), b, q3, lb)
    <2> DEFINE c == Contains(f, 1)
    <2>1. c \in BOOLEAN /\ (c <=> b # None)
        <3>1. c \in BOOLEAN
            BY DEF Contains
        <3> QED
            BY <1>5, <3>1
    <2> HIDE DEF c
    <2>2. Reads(ReadIf(c, q3), b, q3, Len(EncCond(b)))
        BY <1>3, <1>20, <1>21, <1>25, <2>1, IfIsRead DEF eb
    <2> QED
        BY <2>2 DEF c, lb, eb
<1>26. ASSUME q3 <= Len(data) PROVE Reads(RB(f, a, q3), v.data, q3, lb)
    <2> DEFINE r == ReadIf(Contains(f, 1), q3)
    <2>1. Reads(r, b, q3, lb)
        BY <1>25, <1>26
    <2>2. RB(f, a, q3) = IF r.res = "ok" THEN Ok(Both(a, r.val), r.next) ELSE r
        BY <1>11
    <2> HIDE DEF r
    <2>3. r = Ok(b, q3 + lb) => RB(f, a, q3) = Ok(v.data, q3 + lb)
        BY <1>4, <2>2 DEF Ok
    <2>4. r = Eof => RB(f, a, q3) = Eof
        BY <2>2 DEF Eof
    <2> QED
        BY <1>19, <1>20, <2>1, <2>3, <2>4, Mapped
<1>27. ASSUME q2 <= Len(data) PROVE Reads(PartialDecode(f, q2), v.data, q2, la + lb)
    <2> DEFINE r == ReadIf(Contains(f, 0), q2)
    <2>1. Reads(r, a, q2, la)
        BY <1>24, <1>27
    <2>2. PartialDecode(f, q2) = IF r.res = "ok" THEN RB(f, r.val, r.next) ELSE r
        BY <1>8
    <2> HIDE DEF r
    <2>3. r = Ok(a, q2 + la) => PartialDecode(f, q2) = RB(f, a, q3)
        BY <2>2 DEF Ok, q3
    <2>4. r = Eof => PartialDecode(f, q2) = Eof
        BY <2>2 DEF Eof
    <2>5. q2 + la <= Len(data) => Reads(RB(f, a, q3), v.data, q2 + la, lb)
        BY <1>26 DEF q3
    <2> QED
        BY <1>19, <1>20, <2>1, <2>3, <2>4, <2>5, Chain
<1>28. ASSUME q1 <= Len(data) PROVE Reads(RH(f, q1), v, q1, lh + (la + lb))
    <2> DEFINE r == ReadIf(t.n # 0, q1)
               d == PartialDecode(f, q2)
               o == IF d.res = "ok" THEN Ok(All(h, d.val), d.next) ELSE d
               l == la + lb
    <2>1. Reads(r, h, q1, lh)
        BY <1>23, <1>28
    <2>2. RH(f, q1) = IF r.res = "ok"
                      THEN LET e == PartialDecode(f, r.next)
                           IN  IF e.res = "ok" THEN Ok(All(r.val, e.val), e.next) ELSE e
                      ELSE r
        BY <1>10
    <2>3. l \in Nat /\ (q2 <= Len(data) => Reads(d, v.data, q2, l))
        BY <1>19, <1>27
    <2> HIDE DEF r, l
    <2>4. r = Ok(h, q1 + lh) => RH(f, q1) = o
        BY <2>2 DEF Ok, q2
    <2>5. r = Eof => RH(f, q1) = Eof
        BY <2>2 DEF Eof
    <2> HIDE DEF d
    <2>6. d = Ok(v.data, q2 + l) => o = Ok(v, q2 + l)
        BY <1>3 DEF Ok
    <2>7. d = Eof => o = Eof
        BY DEF Eof
    <2> HIDE DEF o
    <2>8. q2 <= Len(data) => Reads(o, v, q2, l)
        BY <1>20, <2>3, <2>6, <2>7, Mapped
    <2>9. Reads(RH(f, q1), v, q1, lh + l)
        BY <1>19, <1>20, <2>1, <2>3, <2>4, <2>5, <2>8, Chain DEF q2
    <2> QED
        BY <2>9 DEF l
<1>29. Reads(ReadPartial(t, p), v, p, 1 + (lh + (la + lb)))
    <2> DEFINE l == lh + (la + lb)
               k == 1
    <2>1. l \in Nat /\ k \in Nat /\ Reads(ReadByte(p), f, p, k)
        BY <1>19, <1>22
    <2>2. p + k <= Len(data) => Reads(RH(f, q1), v, p + k, l)
        BY <1>28 DEF q1
    <2>3. ReadByte(p) = Ok(f, p + k) => ReadPartial(t, p) = RH(f, q1)
        BY <1>7 DEF Ok, q1
    <2>4. ReadByte(p) = Eof => ReadPartial(t, p) = Eof
        BY <1>7 DEF Eof
    <2> HIDE DEF l, k
    <2>5. Reads(ReadPartial(t, p), v, p, k + l)
        BY <2>1, <2>2, <2>3, <2>4, Chain
    <2> QED
        BY <2>5 DEF k, l
<1>30. 1 + (lh + (la + lb)) = 1 + lh + la + lb
    BY <1>19
<1> QED
    BY <1>2, <1>15, <1>29, <1>30 DEF IsRead

\* The opcode is read as that of the packet's own type, when all of it is there.
LEMMA OpcodeIsRead ==
    ASSUME NEW t \in Field, t.kind = "opcode", t.n \in Word, NEW v \in Values(t), NEW prev,
           data \in Bytes, Lies(0, Encode(t, v))
    PROVE  /\ v = t.n /\ Len(Encode(t, v)) = 2
           /\ Decode(t, 0, prev) = IF Len(data) < 2 THEN Error ELSE Ok(v, 2)
PROOF
<1>1. Encode(t, v) = EncWord(v) /\ v = t.n
    BY DEF Encode, Wrappers, Values
<1>2. Decode(t, 0, prev) = ReadOpcode(t, 0)
    BY DEF Decode, Wrappers
<1>3. Len(EncWord(v)) = 2
    BY <1>1, WordType, EncWordType
<1>4. Reads(ReadWord(0), v, 0, 2)
    <2>1. v \in Word /\ 0 \in Nat /\ Lies(0, EncWord(v))
        BY <1>1
    <2> DEFINE z == 0
    <2>2. z \in Nat /\ Lies(z, EncWord(v))
        BY <2>1
    <2> HIDE DEF z
    <2>3. Reads(ReadWord(z), v, z, 2)
        BY <2>1, <2>2, WordIsRead
    <2> QED
        BY <2>3 DEF z
<1>5. CASE Len(data) < 2
    BY <1>1, <1>2, <1>3, <1>5 DEF ReadOpcode
<1>6. CASE ~(Len(data) < 2)
    <2>1. ReadWord(0) = Ok(v, 2)
        BY <1>4, <1>6, LenData DEF Reads
    <2> QED
        BY <1>1, <1>2, <1>3, <1>6, <2>1 DEF ReadOpcode, Then, Ok
<1> QED
    BY <1>5, <1>6

\* An opcode is none of another type of messages.
LEMMA OpcodeIsForeign ==
    ASSUME NEW t \in Field, t.kind = "opcode", t.n \in Word,
           NEW u \in Field, u.kind = "opcode", u.n # t.n, NEW v \in Values(t), NEW prev,
           data \in Bytes, Lies(0, Encode(t, v))
    PROVE  Decode(u, 0, prev) = Error
PROOF
<1>1. v = t.n /\ Decode(t, 0, prev) = IF Len(data) < 2 THEN Error ELSE Ok(v, 2)
    BY OpcodeIsRead
<1>2. \A w \in {t, u} : Decode(w, 0, prev) = ReadOpcode(w, 0)
    BY DEF Decode, Wrappers
<1>3. CASE Len(data) < 2
    BY <1>2, <1>3 DEF ReadOpcode
<1>4. CASE ~(Len(data) < 2)
    <2>1. ReadOpcode(t, 0) = Ok(v, 2)
        BY <1>1, <1>2, <1>4
    <2>2. ReadWord(0).res = "ok" /\ ReadWord(0).val = t.n
        BY <1>1, <1>4, <2>1 DEF ReadOpcode, Then, Ok, Error, Eof, ReadWord
    <2> QED
        BY <1>2, <1>4, <2>2 DEF ReadOpcode, Then
<1> QED
    BY <1>3, <1>4

\* The tail of a packet is read as it was, unless none of it has arrived: then it is
\* taken for an absent one.
LEMMA TailIsRead ==
    ASSUME NEW t \in Field, t.kind = "tail", NEW v \in Values(t), NEW prev,
           data \in Bytes, NEW p \in Nat, p <= Len(data), Lies(p, Encode(t, v)),
           Len(data) <= p + Len(Encode(t, v))
    PROVE  IF Len(data) = p + Len(Encode(t, v)) THEN Decode(t, p, prev) = Ok(v, Len(data))
           ELSE \/ Decode(t, p, prev) = Eof
                \/ Len(data) = p /\ Decode(t, p, prev) = Ok(None, p)
PROOF
<1>0. Len(data) \in Nat
    BY LenData
<1>1. Encode(t, v) = EncTail(v) /\ v \in Option(Word)
    BY DEF Encode, Wrappers, Values
<1>2. Decode(t, p, prev) = IF Len(data) > p THEN ReadWord(p) ELSE Ok(None, p)
    BY DEF Decode, Wrappers, ReadTail
<1>3. CASE v = None
    <2>1. Len(Encode(t, v)) = 0
        BY <1>1, <1>3 DEF EncTail
    <2>2. Len(data) = p
        BY <1>0, <2>1
    <2> QED
        BY <1>0, <1>2, <1>3, <2>2
<1>4. CASE v \in Word
    <2>1. Encode(t, v) = EncWord(v)
        BY <1>1, <1>4, WordType DEF EncTail
    <2>2. Len(Encode(t, v)) = 2
        BY <1>4, <2>1, WordType, EncWordType
    <2>3. Reads(ReadWord(p), v, p, 2)
        BY <1>4, <2>1, WordIsRead
    <2>4. CASE Len(data) = p
        BY <1>0, <1>2, <2>2, <2>4
    <2>5. CASE Len(data) # p
        <3>1. Decode(t, p, prev) = ReadWord(p)
            BY <1>0, <1>2, <2>5
        <3>2. CASE p + 2 <= Len(data)
            <4>1. p + 2 = Len(data)
                BY <1>0, <2>2, <3>2
            <4> QED
                BY <2>2, <2>3, <3>1, <4>1 DEF Reads
        <3>3. CASE ~(p + 2 <= Len(data))
            <4>1. Decode(t, p, prev) = Eof
                BY <2>3, <3>1, <3>3 DEF Reads
            <4>2. Len(data) # p + Len(Encode(t, v))
                BY <1>0, <2>2, <3>3
            <4> QED
                BY <4>1, <4>2
        <3> QED
            BY <3>2, <3>3
    <2> QED
        BY <2>4, <2>5
<1> QED
    BY <1>1, <1>3, <1>4 DEF Option

-----------------------------------------------------------------------------
(* A list that ends at a terminator *)

\* The loop at p, when what it returns behind one entry is r.
NextEntry(t, p, r) ==
    IF ~Has(p, 1) THEN Eof
    ELSE IF IsTerminator(t, ByteAt(p)) THEN Ok(<< >>, p + 1)
    ELSE IF ~Has(p, 2) THEN Eof
    ELSE IF r.res = "ok" THEN Ok(<< <<ByteAt(p), ByteAt(p + 1)>> >> \o r.val, r.next)
    ELSE r

LEMMA LoopIs ==
    ASSUME data \in Bytes, NEW t
    PROVE  \A p \in 0 .. Len(data) : ReadIndexed(t, p) = NextEntry(t, p, ReadIndexed(t, p + 2))
PROOF
<1> DEFINE N == Len(data)
           D == 0 .. N
           L == Seq(Byte \X Byte)
           W == {Ok(x, q) : x \in L, q \in Nat}
           V == {Eof} \union W
           step == [p \in D |-> [g \in [D -> V] |-> NextEntry(t, p, g[p + 2])]]
           rank == [p \in D |-> N - p]
           Def(f) == f = [p \in 0 .. Len(data) |->
                IF ~Has(p, 1) THEN Eof
                ELSE IF IsTerminator(t, ByteAt(p)) THEN Ok(<< >>, p + 1)
                ELSE IF ~Has(p, 2) THEN Eof
                ELSE Map(f[p + 2], LAMBDA s : << <<ByteAt(p), ByteAt(p + 1)>> >> \o s)]
           F == CHOOSE f : Def(f)
<1>1. N \in Nat /\ \A p \in D : Has(p, 2) => p + 2 \in D
    BY LenData DEF Has
<1>2. /\ V # {} /\ Eof \in V /\ \A x \in L, q \in Nat : Ok(x, q) \in V
      /\ \A r \in V : r = Eof \/ \E x \in L, q \in Nat : r = Ok(x, q)
    <2> HIDE DEF L
    <2>1. \A r : r \in W <=> \E x \in L, q \in Nat : r = Ok(x, q)
        OBVIOUS
    <2> HIDE DEF W
    <2>2. \A r : r \in V <=> r = Eof \/ \E x \in L, q \in Nat : r = Ok(x, q)
        BY <2>1
    <2> HIDE DEF V
    <2>3. Eof \in V /\ \A x \in L, q \in Nat : Ok(x, q) \in V
        BY <2>2, Zenon
    <2>4. \A r \in V : r = Eof \/ \E x \in L, q \in Nat : r = Ok(x, q)
        BY <2>2, Zenon
    <2>5. V # {}
        BY <2>3
    <2> QED
        BY <2>3, <2>4, <2>5
<1> HIDE DEF V
<1>15. rank \in [D -> 0 .. N]
    <2>1. \A p \in D : N - p \in 0 .. N
        BY <1>1
    <2> QED
        BY <2>1
<1>3. ASSUME NEW p \in D, NEW r \in V, Has(p, 2)
      PROVE  (IF r.res = "ok" THEN Ok(<< <<ByteAt(p), ByteAt(p + 1)>> >> \o r.val, r.next) ELSE r) \in V
    <2> DEFINE e == <<ByteAt(p), ByteAt(p + 1)>>
    <2>1. ByteAt(p) \in Byte /\ ByteAt(p + 1) \in Byte
        BY <1>1, <1>3 DEF ByteAt, Has, Bytes
    <2>2. e \in Byte \X Byte
        BY <2>1
    <2>3. CASE r = Eof
        BY <1>2, <2>3 DEF Eof
    <2>4. CASE r # Eof
        <3>1. PICK x \in L, q \in Nat : r = Ok(x, q)
            <4> HIDE DEF L
            <4> QED
                BY <1>2, <2>4, Zenon
        <3>2. <<e>> \o x \in L
            <4> HIDE DEF e
            <4>1. <<e>> \in L
                BY <2>2
            <4> QED
                BY <4>1, Joined
        <3>3. r.res = "ok" /\ r.val = x /\ r.next = q
            BY <3>1 DEF Ok
        <3> HIDE DEF e, L
        <3>4. Ok(<<e>> \o x, q) \in V
            BY <1>2, <3>2
        <3> QED
            BY <3>3, <3>4 DEF e
    <2> QED
        BY <2>3, <2>4
<1>4. step \in [D -> [[D -> V] -> V]]
    <2> SUFFICES \A p \in D : \A g \in [D -> V] : NextEntry(t, p, g[p + 2]) \in V
        <3> HIDE DEF D
        <3> QED
            OBVIOUS
    <2> TAKE p \in D
    <2> TAKE g \in [D -> V]
    <2>1. Eof \in V
        BY <1>2
    <2>2. Ok(<< >>, p + 1) \in V
        <3>1. << >> \in L /\ p + 1 \in Nat
            BY <1>1
        <3> HIDE DEF L
        <3> QED
            BY <1>2, <3>1
    <2>3. Has(p, 2) => g[p + 2] \in V
        <3> HIDE DEF D
        <3> QED
            BY <1>1
    <2> HIDE DEF D
    <2> QED
        BY <1>3, <2>1, <2>2, <2>3 DEF NextEntry
<1>5. \A p \in D : \A g \in [D -> V] : step[p][g] = NextEntry(t, p, g[p + 2])
    OBVIOUS
<1>6. \A p \in D : Has(p, 2) => rank[p + 2] < rank[p]
    BY <1>1
<1> HIDE DEF step, rank
<1>7. Local(D, rank, V, step)
    <2> SUFFICES ASSUME NEW p \in D, NEW g \in [D -> V], NEW h \in [D -> V],
                        \A q \in D : rank[q] < rank[p] => g[q] = h[q]
                 PROVE  step[p][g] = step[p][h]
        BY DEF Local
    <2>1. Has(p, 2) => g[p + 2] = h[p + 2]
        BY <1>1, <1>6
    <2>2. NextEntry(t, p, g[p + 2]) = NextEntry(t, p, h[p + 2])
        BY <2>1 DEF NextEntry
    <2> HIDE DEF D
    <2> QED
        BY <1>5, <2>2
<1>8. Recursive(D, N, rank, V, step)
    BY <1>1, <1>2, <1>4, <1>7, <1>15 DEF Recursive
<1>9. PICK f \in [D -> V] : \A p \in D : f[p] = step[p][f]
    <2> HIDE DEF D, N
    <2> QED
        BY <1>8, RecursionExists
<1>10. \A g : [p \in 0 .. Len(data) |->
                IF ~Has(p, 1) THEN Eof
                ELSE IF IsTerminator(t, ByteAt(p)) THEN Ok(<< >>, p + 1)
                ELSE IF ~Has(p, 2) THEN Eof
                ELSE Map(g[p + 2], LAMBDA s : << <<ByteAt(p), ByteAt(p + 1)>> >> \o s)]
            = [p \in D |-> NextEntry(t, p, g[p + 2])]
    BY DEF NextEntry, Map, Then
<1>11. Def(f)
    <2>1. \A p \in D : f[p] = NextEntry(t, p, f[p + 2])
        BY <1>5, <1>9
    <2>2. f = [p \in D |-> NextEntry(t, p, f[p + 2])]
        BY <1>9, <2>1
    <2> QED
        BY <1>10, <2>2
<1>12. Def(F)
    <2> HIDE DEF Def
    <2> QED
        BY <1>11, Zenon
<1>13. \A p \in D : F[p] = NextEntry(t, p, F[p + 2])
    <2> HIDE DEF F
    <2>1. F = [p \in D |-> NextEntry(t, p, F[p + 2])]
        BY <1>10, <1>12
    <2> QED
        BY <2>1
<1>14. \A p : ReadIndexed(t, p) = F[p]
    BY DEF ReadIndexed
<1> HIDE DEF F
<1> QED
    BY <1>13, <1>14

\* The entries of a list are read up to its terminator, from the last one to the first.
LEMMA IndexIsRead ==
    ASSUME NEW t \in Field, t.kind \in {"index", "indexZ"}, NEW v \in Values(t), NEW prev,
           \A i \in DOMAIN v : v[i][1] # Terminator(t),
           data \in Bytes, NEW p \in Nat, p <= Len(data), Lies(p, Encode(t, v))
    PROVE  IsRead(t, v, p, prev)
PROOF
<1> DEFINE N == Len(data)
           l == Len(v)
           T == Terminator(t)
           f == Flatten(v)
           z == <<T>>
           e == f \o z
           E == Byte \X Items
           R(q) == ReadIndexed(t, q)
           Rest(j) == [i \in 1 .. j |-> v[(l - j) + i]]
           At(j) == p + 2 * (l - j)
           S == {j \in 0 .. l : At(j) <= N => Reads(R(At(j)), Rest(j), At(j), 2 * j + 1)}
<1>1. Encode(t, v) = e /\ v \in UpTo(E, 2) /\ Decode(t, p, prev) = R(p)
    BY DEF Encode, Decode, Wrappers, Values, EncIndexed
<1>2. v \in Seq(E) /\ l \in Nat
    BY <1>1, UpToIs
<1>3. /\ f \in Bytes /\ Len(f) = 2 * l
      /\ \A i \in 1 .. l : f[2 * i - 1] = v[i][1] /\ f[2 * i] = v[i][2]
    BY <1>1, FlattenType
<1>4. T \in Byte /\ <<T>> \in Bytes /\ Len(<<T>>) = 1 /\ <<T>>[1] = T
    BY BaseIs, CodecAssumption DEF Terminator, Bytes, Byte
<1>5. N \in Nat
    BY LenData
<1>6. \A i \in 1 .. l : v[i] \in E /\ v[i] = <<v[i][1], v[i][2]>> /\ v[i][1] # T
    BY <1>2
<1>7. \A q \in 0 .. N : R(q) = NextEntry(t, q, R(q + 2))
    BY LoopIs
<1>8. Lies(p, e)
    BY <1>1
<1>9. \A b : IsTerminator(t, b) <=> b = T
    BY DEF IsTerminator
<1> HIDE DEF f, R, E, T
<1>10. /\ e \in Bytes /\ Len(e) = 2 * l + 1
       /\ \A i \in 1 .. 2 * l : e[i] = f[i]
       /\ e[2 * l + 1] = T
    <2>1. /\ e \in Bytes /\ Len(e) = Len(f) + Len(z)
          /\ \A i \in 1 .. Len(f) : e[i] = f[i]
          /\ \A i \in 1 .. Len(z) : e[Len(f) + i] = z[i]
        <3>1. f \in Seq(Byte) /\ z \in Seq(Byte)
            BY <1>3, <1>4 DEF Bytes
        <3> HIDE DEF z
        <3> QED
            BY <3>1, Joined DEF Bytes
    <2>2. 1 \in 1 .. Len(z) /\ Len(f) + 1 = 2 * l + 1
        BY <1>3, <1>4
    <2> HIDE DEF z, e
    <2>3. e[Len(f) + 1] = z[1]
        BY <2>1, <2>2
    <2> QED
        BY <1>2, <1>3, <1>4, <2>1, <2>2, <2>3 DEF z
<1> HIDE DEF e
<1>11. \A i \in 1 .. 2 * l + 1 : p + i <= N => data[p + i] = e[i]
    BY <1>8, <1>10 DEF Lies
<1> HIDE DEF N
<1>12. 0 \in S
    <2> DEFINE q == p + 2 * l
    <2>1. q \in Nat /\ At(0) = q /\ 2 * l + 1 \in 1 .. 2 * l + 1 /\ p + (2 * l + 1) = q + 1
        BY <1>2
    <2>2. Rest(0) = << >>
        OBVIOUS
    <2>3. q + 1 <= N => ByteAt(q) = T
        BY <1>10, <1>11, <2>1 DEF ByteAt
    <2> HIDE DEF q
    <2>4. ASSUME q <= N PROVE Reads(R(q), << >>, q, 1)
        <3>1. R(q) = NextEntry(t, q, R(q + 2))
            BY <1>5, <1>7, <2>1, <2>4
        <3> QED
            BY <1>9, <2>3, <3>1 DEF NextEntry, Reads, Has, N
    <2> HIDE DEF Rest, At
    <2>5. At(0) <= N => Reads(R(At(0)), Rest(0), At(0), 2 * 0 + 1)
        BY <2>1, <2>2, <2>4
    <2> QED
        BY <1>2, <2>5
<1>13. ASSUME NEW j \in 0 .. l - 1, j \in S PROVE j + 1 \in S
    <2> DEFINE k == l - (j + 1)
               q == p + 2 * k
               x == v[k + 1][1]
               y == v[k + 1][2]
               g == Rest(j + 1)
               n == 2 * j + 1
    <2>1. /\ j \in Nat /\ k \in Nat /\ k + 1 \in 1 .. l /\ q \in Nat /\ n \in Nat
          /\ At(j + 1) = q /\ At(j) = q + 2 /\ l - j = k + 1
          /\ 2 * k + 1 \in 1 .. 2 * l /\ 2 * k + 2 \in 1 .. 2 * l
          /\ 2 * (k + 1) - 1 = 2 * k + 1 /\ 2 * (k + 1) = 2 * k + 2
          /\ p + (2 * k + 1) = q + 1 /\ p + (2 * k + 2) = q + 2 /\ (q + 1) + 1 = q + 2
          /\ 2 * (j + 1) + 1 = n + 2 /\ j + 1 \in 0 .. l
          /\ 2 * k + 1 \in 1 .. 2 * l + 1 /\ 2 * k + 2 \in 1 .. 2 * l + 1
        BY <1>2
    <2>2. e[2 * k + 1] = x /\ e[2 * k + 2] = y
        BY <1>3, <1>10, <2>1
    <2>3. q + 1 <= N => ByteAt(q) = x /\ x # T
        BY <1>6, <1>11, <2>1, <2>2 DEF ByteAt
    <2>4. q + 2 <= N => ByteAt(q + 1) = y
        BY <1>11, <2>1, <2>2 DEF ByteAt
    <2>5. q + 2 <= N => Reads(R(q + 2), Rest(j), q + 2, n)
        BY <1>13, <2>1
    <2>6. g = << <<x, y>> >> \o Rest(j)
        <3>1. \A i \in 1 .. j + 1 : k + i \in 1 .. l
            BY <1>2
        <3>2. g = [i \in 1 .. j + 1 |-> v[k + i]]
            OBVIOUS
        <3>3. g \in [1 .. j + 1 -> E]
            BY <1>6, <3>1, <3>2
        <3>4. \A i \in 1 .. j : i + 1 \in 1 .. j + 1 /\ k + (i + 1) = (k + 1) + i
            BY <2>1
        <3>5. Rest(j) = [i \in 1 .. j |-> g[i + 1]]
            <4>1. Rest(j) = [i \in 1 .. j |-> v[(k + 1) + i]]
                BY <2>1
            <4> HIDE DEF k
            <4> QED
                BY <3>2, <3>4, <4>1
        <3>6. g[1] = <<x, y>>
            <4>1. 1 \in 1 .. j + 1
                BY <2>1
            <4>2. g[1] = v[k + 1]
                BY <3>2, <4>1
            <4> QED
                BY <1>6, <2>1, <4>2
        <3> HIDE DEF g, Rest
        <3>7. <<g[1]>> \o [i \in 1 .. j |-> g[i + 1]] = g
            BY <2>1, <3>3, Prepended
        <3> QED
            BY <3>5, <3>6, <3>7
    <2> HIDE DEF k, q, x, y, g, n, Rest, At
    <2>7. ASSUME q <= N PROVE Reads(R(q), g, q, n + 2)
        <3>1. R(q) = NextEntry(t, q, R(q + 2))
            BY <1>5, <1>7, <2>1, <2>7
        <3>2. CASE ~(q + 1 <= N)
            <4>1. R(q) = Eof
                BY <3>1, <3>2 DEF NextEntry, Has, N
            <4>2. ~(q + (n + 2) <= N)
                BY <1>5, <2>1, <3>2
            <4> QED
                BY <4>1, <4>2 DEF Reads, N
        <3>3. CASE q + 1 <= N /\ ~(q + 2 <= N)
            <4>1. R(q) = Eof
                BY <1>9, <2>3, <3>1, <3>3 DEF NextEntry, Has, N
            <4>2. ~(q + (n + 2) <= N)
                BY <1>5, <2>1, <3>3
            <4> QED
                BY <4>1, <4>2 DEF Reads, N
        <3>4. CASE q + 2 <= N
            <4> DEFINE r == R(q + 2)
                       m == (q + 2) + n
            <4>0. m = q + (n + 2) /\ q + 1 <= N
                BY <1>5, <2>1, <3>4
            <4>1. Reads(r, Rest(j), q + 2, n)
                BY <2>5, <3>4
            <4> HIDE DEF r
            <4>2. R(q) = IF r.res = "ok" THEN Ok(<< <<x, y>> >> \o r.val, r.next) ELSE r
                BY <1>9, <2>3, <2>4, <3>1, <3>4, <4>0 DEF NextEntry, Has, N, r
            <4>3. CASE m <= N
                <5>1. r = Ok(Rest(j), m)
                    BY <4>1, <4>3 DEF Reads, N
                <5>2. R(q) = Ok(<< <<x, y>> >> \o Rest(j), m)
                    BY <4>2, <5>1 DEF Ok
                <5> HIDE DEF m
                <5> QED
                    BY <2>6, <4>0, <4>3, <5>2 DEF Reads, N
            <4>4. CASE ~(m <= N)
                <5>1. r = Eof
                    BY <4>1, <4>4 DEF Reads, N
                <5>2. R(q) = Eof
                    BY <4>2, <5>1 DEF Eof
                <5> HIDE DEF m
                <5> QED
                    BY <4>0, <4>4, <5>2 DEF Reads, N
            <4> QED
                BY <4>3, <4>4
        <3> QED
            BY <3>2, <3>3, <3>4
    <2>8. At(j + 1) <= N => Reads(R(At(j + 1)), Rest(j + 1), At(j + 1), 2 * (j + 1) + 1)
        BY <2>1, <2>7 DEF g
    <2> QED
        BY <2>1, <2>8
<1> HIDE DEF S
<1>14. l \in S
    <2>1. \A j \in 0 .. l : j \in S
        BY <1>2, <1>12, <1>13, UpToInSet
    <2> QED
        BY <1>2, <2>1
<1>15. At(l) = p /\ Rest(l) = v
    <2>1. l - l = 0 /\ \A i \in 1 .. l : (l - l) + i = i
        BY <1>2
    <2> HIDE DEF l
    <2>2. Rest(l) = [i \in 1 .. l |-> v[i]]
        BY <2>1
    <2>3. v = [i \in 1 .. l |-> v[i]]
        BY <1>2 DEF l
    <2>4. At(l) = p
        BY <2>1
    <2> QED
        BY <2>2, <2>3, <2>4
<1>16. p <= N => Reads(R(p), v, p, 2 * l + 1)
    <2>1. At(l) <= N => Reads(R(At(l)), Rest(l), At(l), 2 * l + 1)
        BY <1>14 DEF S
    <2> HIDE DEF At, Rest
    <2> QED
        BY <1>15, <2>1
<1> QED
    BY <1>1, <1>10, <1>16 DEF IsRead, N

-----------------------------------------------------------------------------
(* A field of any type *)

\* A value that can be read again, when prev was read before it.
Suits(t, v, prev) ==
    /\ t.kind = "limited" => t.n \in Word
    /\ t.kind = "list" => Len(v) <= Max
    /\ t.kind \in {"index", "indexZ"} => \A i \in DOMAIN v : v[i][1] # Terminator(t)
    /\ t.kind = "fixed"  => \A i \in DOMAIN v : v[i] # 0
    /\ t.kind = "expiry" => v # TimeMax
    /\ t.kind = "cond"   => prev \in BOOLEAN /\ (v # None) = prev
    /\ t.kind = "either" => prev \in BOOLEAN /\ v.left = prev
    /\ t.kind = "sized"  => Len(v) = prev

THEOREM FieldIsRead ==
    ASSUME NEW t \in Field, t.kind \notin {"opcode", "tail"}, NEW v \in Values(t), NEW prev,
           Suits(t, v, prev), data \in Bytes, NEW p \in Nat, p <= Len(data), Lies(p, Encode(t, v))
    PROVE  IsRead(t, v, p, prev)
PROOF
<1>0. t.kind \in Kinds
    BY DEF Field
<1>1. CASE t.kind = "unit"
    BY <1>1, UnitIsRead
<1>2. CASE t.kind = "bool"
    BY <1>2, BoolIsRead
<1>3. CASE t.kind \in {"byte", "word"}
    BY <1>3, NumberIsRead
<1>4. CASE t.kind \in Wrappers
    BY <1>4, WrapperIsRead DEF Suits
<1>5. CASE t.kind = "u128"
    BY <1>5, BlocksAreRead
<1>6. CASE t.kind = "array"
    BY <1>6, ArrayIsRead
<1>7. CASE t.kind = "pair"
    BY <1>7, PairIsRead
<1>8. CASE t.kind = "box"
    BY <1>8, BoxIsRead
<1>9. CASE t.kind \in {"padding", "paddingZ"}
    BY <1>9, PaddingIsRead
<1>10. CASE t.kind \in {"str", "limited"}
    <2>1. t.kind = "limited" => t.n \in Word
        BY DEF Suits
    <2> QED
        BY <1>10, <2>1, StringIsRead
<1>11. CASE t.kind = "fixed"
    <2>1. \A i \in DOMAIN v : v[i] # 0
        BY <1>11 DEF Suits
    <2> QED
        BY <1>11, <2>1, FixedIsRead
<1>12. CASE t.kind = "list"
    <2>1. Len(v) <= Max
        BY <1>12 DEF Suits
    <2> QED
        BY <1>12, <2>1, ListIsRead
<1>13. CASE t.kind \in {"index", "indexZ"}
    <2>1. \A i \in DOMAIN v : v[i][1] # Terminator(t)
        BY <1>13 DEF Suits
    <2> QED
        BY <1>13, <2>1, IndexIsRead
<1>14. CASE t.kind \in {"option", "optionR"}
    BY <1>14, OptionIsRead
<1>15. CASE t.kind = "cond"
    <2>1. prev \in BOOLEAN /\ (prev <=> v # None)
        BY <1>15 DEF Suits
    <2> QED
        BY <1>15, <2>1, CondIsRead
<1>16. CASE t.kind = "either"
    <2>1. prev \in BOOLEAN /\ v.left = prev
        BY <1>16 DEF Suits
    <2> QED
        BY <1>16, <2>1, EitherIsRead
<1>17. CASE t.kind = "sized"
    <2>1. Len(v) = prev
        BY <1>17 DEF Suits
    <2> QED
        BY <1>17, <2>1, SizedIsRead
<1>18. CASE t.kind = "partial"
    BY <1>18, PartialIsRead
<1>19. CASE t.kind = "all"
    BY <1>19, AllIsRead
<1>20. CASE t.kind = "offset"
    BY <1>20, OffsetIsRead
<1>21. CASE t.kind = "variant"
    BY <1>21, VariantIsRead
<1> QED
    BY <1>0, <1>1, <1>2, <1>3, <1>4, <1>5, <1>6, <1>7, <1>8, <1>9, <1>10, <1>11, <1>12, <1>13,
       <1>14, <1>15, <1>16, <1>17, <1>18, <1>19, <1>20, <1>21 DEF Kinds, Wrappers

-----------------------------------------------------------------------------
(* The fields of a packet *)

\* m are values of the first fields of s.
Holds(s, m) ==
    /\ s \in Schemas
    /\ m \in Seq(UNION {Values(t) : t \in Field})
    /\ Len(m) <= Len(s)
    /\ \A k \in DOMAIN m : m[k] \in Values(s[k])

\* The end of field k.
End(s, m, k) == Total([i \in DOMAIN m |-> Len(Encode(s[i], m[i]))], k)

LEMMA SchemaIs ==
    ASSUME NEW s \in Schemas
    PROVE  /\ s \in Seq(Field) /\ Len(s) \in Nat /\ Len(s) >= 1 /\ DOMAIN s = 1 .. Len(s)
           /\ \A k \in 1 .. Len(s) : s[k] \in Field
           /\ \A k \in 1 .. Len(s) : s[k].kind = "opcode" => k = 1
           /\ \A k \in 1 .. Len(s) : s[k].kind \in {"opcode", "limited"} => s[k].n \in Word
           /\ \A k \in 1 .. Len(s) : s[k].kind \in {"cond", "either"} => k > 1 /\ s[k - 1].kind = "bool"
           /\ \A k \in 1 .. Len(s) : s[k].kind = "sized" => k > 1 /\ s[k - 1].kind = "byte"
PROOF
<1>1. s \in Seq(Field) /\ IsPacket(s)
    BY CodecAssumption DEF Field
<1>2. s # << >>
    BY <1>1 DEF IsPacket
<1>3. Len(s) \in Nat /\ Len(s) >= 1 /\ DOMAIN s = 1 .. Len(s) /\ \A k \in 1 .. Len(s) : s[k] \in Field
    <2> HIDE DEF Field
    <2> QED
        BY <1>1, <1>2
<1> QED
    BY <1>1, <1>3 DEF IsPacket

LEMMA HoldsIs ==
    ASSUME NEW s, NEW m, Holds(s, m)
    PROVE  /\ Len(m) \in Nat /\ DOMAIN m = 1 .. Len(m) /\ Len(m) <= Len(s)
           /\ \A k \in 1 .. Len(m) : /\ k \in 1 .. Len(s) /\ s[k] \in Field /\ m[k] \in Values(s[k])
                                     /\ Encode(s[k], m[k]) \in Bytes
           /\ [i \in DOMAIN m |-> Len(Encode(s[i], m[i]))] \in [1 .. Len(m) -> Nat]
PROOF
<1>1. Len(m) \in Nat /\ DOMAIN m = 1 .. Len(m) /\ Len(m) <= Len(s) /\ s \in Schemas
    BY DEF Holds
<1>2. ASSUME NEW k \in 1 .. Len(m)
      PROVE  /\ k \in 1 .. Len(s) /\ s[k] \in Field /\ m[k] \in Values(s[k])
             /\ Encode(s[k], m[k]) \in Bytes
    <2>1. k \in 1 .. Len(s)
        BY <1>1, SchemaIs
    <2>2. s[k] \in Field
        BY <1>1, <2>1, SchemaIs
    <2>3. m[k] \in Values(s[k])
        BY <1>1 DEF Holds
    <2> QED
        BY <2>1, <2>2, <2>3, EncodeType
<1>3. \A i \in 1 .. Len(m) : Len(Encode(s[i], m[i])) \in Nat
    <2> SUFFICES ASSUME NEW i \in 1 .. Len(m) PROVE Len(Encode(s[i], m[i])) \in Nat
        OBVIOUS
    <2>1. Encode(s[i], m[i]) \in Bytes
        BY <1>2
    <2> QED
        BY <2>1 DEF Bytes
<1> QED
    BY <1>1, <1>2, <1>3

LEMMA EndIs ==
    ASSUME NEW s, NEW m, Holds(s, m)
    PROVE  /\ \A k \in 0 .. Len(m) : End(s, m, k) \in Nat
           /\ End(s, m, 0) = 0
           /\ \A k \in 1 .. Len(m) : End(s, m, k) = End(s, m, k - 1) + Len(Encode(s[k], m[k]))
           /\ \A j, k \in 0 .. Len(m) : j <= k => End(s, m, j) <= End(s, m, k)
PROOF
<1> DEFINE f == [i \in DOMAIN m |-> Len(Encode(s[i], m[i]))]
           n == Len(m)
<1>1. n \in Nat /\ f \in [1 .. n -> Nat] /\ DOMAIN m = 1 .. n
    BY HoldsIs
<1>2. \A i \in 1 .. n : f[i] = Len(Encode(s[i], m[i]))
    BY <1>1
<1>3. \A k : End(s, m, k) = Total(f, k)
    BY DEF End
<1> HIDE DEF f, n
<1>4. \A k \in 0 .. n : Total(f, k) \in Nat /\ Total(f, k) = IF k = 0 THEN 0 ELSE Total(f, k - 1) + f[k]
    BY <1>1, TotalIs
<1>5. \A j \in 0 .. n : \A k \in 0 .. n : j <= k => Total(f, j) <= Total(f, k)
    BY <1>1, TotalGrows
<1>6. 0 \in 0 .. n /\ \A k \in 1 .. n : k \in 0 .. n /\ k # 0
    BY <1>1
<1> QED
    BY <1>2, <1>3, <1>4, <1>5, <1>6 DEF n

\* Another field behind them moves none of them.
LEMMA EndAgrees ==
    ASSUME NEW s, NEW m, Holds(s, m), NEW w, Holds(s, w), Len(m) <= Len(w),
           \A k \in 1 .. Len(m) : w[k] = m[k]
    PROVE  \A k \in 0 .. Len(m) : End(s, w, k) = End(s, m, k)
PROOF
<1> DEFINE f == [i \in DOMAIN m |-> Len(Encode(s[i], m[i]))]
           g == [i \in DOMAIN w |-> Len(Encode(s[i], w[i]))]
           n == Len(m)
           l == Len(w)
<1>1. n \in Nat /\ f \in [1 .. n -> Nat] /\ DOMAIN m = 1 .. n
    BY HoldsIs
<1>2. l \in Nat /\ g \in [1 .. l -> Nat] /\ DOMAIN w = 1 .. l
    BY HoldsIs
<1>3. \A i \in 1 .. n : i \in 1 .. l
    BY <1>1, <1>2
<1>4. \A i \in 1 .. n : f[i] = g[i]
    BY <1>1, <1>2, <1>3
<1>5. \A k : End(s, m, k) = Total(f, k) /\ End(s, w, k) = Total(g, k)
    BY DEF End
<1> HIDE DEF f, g
<1>6. \A k \in 0 .. n : Total(f, k) = Total(g, k)
    <2>1. n <= n /\ n <= l
        BY <1>1
    <2> HIDE DEF n, l
    <2>2. n \in Nat /\ l \in Nat /\ f \in [1 .. n -> Nat] /\ g \in [1 .. l -> Nat]
        BY <1>1, <1>2
    <2> QED
        BY <1>4, <2>1, <2>2, TotalAgrees, Zenon
<1> QED
    BY <1>5, <1>6

-----------------------------------------------------------------------------
(* The inductive invariant *)

\* What is sent are values of the fields, and what was decoded is a sequence.
Typed ==
    /\ Holds(schema, msg) /\ want \in Schemas
    /\ data \in Bytes
    /\ out \in Seq({out[k] : k \in DOMAIN out})
    /\ Len(out) <= Len(want)

\* The reader has nothing before the packet is sent, and at most all of it afterwards.
Sending ==
    /\ ~sent => /\ want = schema /\ out = << >> /\ status = "ok" /\ pos = 0
                /\ Len(data) = Offset(Len(msg))
    /\ sent  => /\ Len(msg) = Len(schema) /\ Len(data) <= Offset(Len(msg))

\* The bytes of every field are at its place, as far as they have arrived.
Placed == \A k \in DOMAIN msg : Lies(Offset(k - 1), Encode(schema[k], msg[k]))

\* Nothing is decoded of a message as one of another type.
Foreign == want # schema => out = << >> /\ pos = 0 /\ IsMessage(want) /\ IsMessage(schema)

\* The first k fields can be read: they are faithful and have arrived.
Readable(k) == (\A i \in 1 .. k : Faithful(i)) /\ Offset(k) <= Len(data)

\* Fields that can be read are decoded as they were, and the reader is behind them.
Decoding ==
    want = schema =>
        \A k \in 0 .. Len(out) : Readable(k) => /\ k # 0 => out[k] = msg[k]
                                                /\ k = Len(out) => pos = Offset(k)

\* A field in front of the last one is only decoded when it has arrived, and the last
\* one when it has arrived or is taken for an absent one.
Arriving ==
    AllFaithful /\ sent /\ want = schema =>
        /\ \A k \in 0 .. Len(out) : k < Len(schema) => Offset(k) <= Len(data)
        /\ Len(out) = Len(schema) =>
                Offset(Len(schema)) <= Len(data) \/ pos = Offset(Len(schema) - 1)
        /\ status \in {"ok", "eof", "error", "complete", "leftover"}
        /\ status = "error" => IsMessage(schema) /\ Len(data) < 2
        /\ status = "eof" => Len(data) < Offset(Len(schema))
        /\ status \in {"complete", "leftover"} => Len(out) = Len(schema)
        /\ status = "complete" => pos = Len(data)
        /\ status = "leftover" => pos # Len(data)

IInv == Typed /\ Sending /\ Placed /\ Foreign /\ Decoding /\ Arriving

LEMMA OffsetIs ==
    \A k : Offset(k) = End(schema, msg, k)
    BY DEF Offset, End

\* Faithful values suit the field before them.
LEMMA FaithfulSuits ==
    ASSUME NEW k, Holds(schema, msg), k \in 1 .. Len(msg), Faithful(k)
    PROVE  Suits(schema[k], msg[k], IF k = 1 THEN None ELSE msg[k - 1])
PROOF
<1> DEFINE t == schema[k]
           v == msg[k]
           prev == IF k = 1 THEN None ELSE msg[k - 1]
<1>1. schema \in Schemas /\ k \in 1 .. Len(schema) /\ Len(msg) \in Nat
    BY HoldsIs DEF Holds
<1>2. /\ t.kind \in {"opcode", "limited"} => t.n \in Word
      /\ t.kind \in {"cond", "either"} => k > 1 /\ schema[k - 1].kind = "bool"
      /\ t.kind = "sized" => k > 1
    BY <1>1, SchemaIs
<1>3. k > 1 => msg[k - 1] \in Values(schema[k - 1])
    <2>1. k > 1 => k - 1 \in 1 .. Len(msg)
        BY <1>1
    <2> QED
        BY <2>1, HoldsIs
<1>4. /\ t.kind = "list" => Len(v) <= Max
      /\ t.kind \in {"index", "indexZ"} => \A i \in DOMAIN v : v[i][1] # Terminator(t)
      /\ t.kind = "fixed"  => \A i \in DOMAIN v : v[i] # 0
      /\ t.kind = "expiry" => v # TimeMax
      /\ t.kind = "cond"   => (v # None) = msg[k - 1]
      /\ t.kind = "either" => v.left = msg[k - 1]
      /\ t.kind = "sized"  => Len(v) = msg[k - 1]
    BY Zenon DEF Faithful
<1>5. k > 1 => prev = msg[k - 1]
    BY <1>1
<1>6. t.kind \in {"cond", "either"} => prev = msg[k - 1] /\ prev \in BOOLEAN
    <2>1. ASSUME t.kind \in {"cond", "either"} PROVE Values(schema[k - 1]) = BOOLEAN
        BY <1>2, <2>1 DEF Values
    <2> QED
        BY <1>2, <1>3, <1>5, <2>1
<1>7. t.kind = "sized" => prev = msg[k - 1]
    BY <1>2, <1>5
<1>8. t.kind = "limited" => t.n \in Word
    BY <1>2
<1> HIDE DEF t, v, prev
<1>9. t.kind = "cond" => prev \in BOOLEAN /\ (v # None) = prev
    BY <1>4, <1>6, Zenon
<1>10. t.kind = "either" => prev \in BOOLEAN /\ v.left = prev
    BY <1>4, <1>6, Zenon
<1>11. t.kind = "sized" => Len(v) = prev
    BY <1>4, <1>7, Zenon
<1>12. Suits(t, v, prev)
    BY <1>4, <1>8, <1>9, <1>10, <1>11, Zenon DEF Suits
<1> QED
    BY <1>12 DEF t, v, prev

\* What the reader finds behind fields that it has read.
LEMMA NextIs ==
    ASSUME IInv, Reading, want = schema, NEW k, k = Len(out) + 1,
           \A i \in 1 .. k : Faithful(i), Offset(k - 1) <= Len(data)
    PROVE  /\ k \in 1 .. Len(schema) /\ k \in 1 .. Len(msg) /\ k - 1 \in 0 .. Len(out)
           /\ IF Offset(k) <= Len(data) THEN Next1 = Ok(msg[k], Offset(k))
              ELSE \/ Next1 = Eof
                   \/ k = 1 /\ schema[k].kind = "opcode" /\ Len(data) < 2 /\ Next1 = Error
                   \/ k = Len(schema) /\ Len(data) = Offset(k - 1) /\ Next1 = Ok(None, Offset(k - 1))
PROOF
<1> DEFINE t == schema[k]
           v == msg[k]
           p == Offset(k - 1)
           prev == IF k = 1 THEN None ELSE msg[k - 1]
           l == Len(Encode(t, v))
<1>1. /\ Holds(schema, msg) /\ data \in Bytes /\ schema \in Schemas
      /\ Len(msg) = Len(schema) /\ Len(data) <= Offset(Len(msg))
      /\ Len(out) < Len(schema) /\ Len(out) \in Nat /\ Len(msg) \in Nat
    <2>1. Len(out) \in Nat
        BY DEF IInv, Typed
    <2>2. Holds(schema, msg) /\ data \in Bytes /\ schema \in Schemas
        BY DEF IInv, Typed, Holds
    <2>3. Len(msg) \in Nat
        BY <2>2, HoldsIs
    <2> QED
        BY <2>1, <2>2, <2>3 DEF IInv, Sending, Reading
<1>2. k \in 1 .. Len(schema) /\ k \in 1 .. Len(msg) /\ k - 1 \in 0 .. Len(out) /\ k \in Nat /\ k - 1 \in 0 .. Len(msg)
    BY <1>1
<1>3. p \in Nat /\ l \in Nat /\ Offset(k) = p + l /\ (k = 1 => p = 0)
    <2>1. Encode(t, v) \in Bytes
        BY <1>1, <1>2, HoldsIs
    <2>2. l \in Nat
        BY <2>1 DEF Bytes
    <2>3. /\ End(schema, msg, k - 1) \in Nat /\ End(schema, msg, 0) = 0
          /\ End(schema, msg, k) = End(schema, msg, k - 1) + Len(Encode(schema[k], msg[k]))
        BY <1>1, <1>2, EndIs
    <2>4. k = 1 => k - 1 = 0
        OBVIOUS
    <2> QED
        BY <2>2, <2>3, <2>4, OffsetIs
<1>4. t \in Field /\ v \in Values(t)
    BY <1>1, <1>2, HoldsIs
<1>5. Lies(p, Encode(t, v))
    BY <1>1, <1>2, HoldsIs DEF IInv, Placed
<1>6. pos = p /\ (k # 1 => out[k - 1] = msg[k - 1])
    <2>1. Readable(k - 1)
        <3>1. \A i \in 1 .. k - 1 : i \in 1 .. k
            BY <1>2
        <3> QED
            BY <3>1 DEF Readable
    <2>2. /\ k - 1 # 0 => out[k - 1] = msg[k - 1]
          /\ k - 1 = Len(out) => pos = Offset(k - 1)
        BY <1>2, <2>1 DEF IInv, Decoding
    <2>3. k - 1 = Len(out) /\ (k # 1 => k - 1 # 0)
        BY <1>1
    <2> QED
        BY <2>2, <2>3
<1>7. Next1 = Decode(t, p, prev)
    <2>1. Next1 = Decode(want[k], pos, IF k = 1 THEN None ELSE out[k - 1])
        BY DEF Next1
    <2> QED
        BY <1>6, <2>1
<1>8. Suits(t, v, prev)
    <2>1. Faithful(k)
        BY <1>2
    <2> QED
        BY <1>1, <1>2, <2>1, FaithfulSuits
<1>9. p <= Len(data) /\ Len(data) \in Nat
    BY <1>1, LenData
<1>10. (t.kind = "opcode" => k = 1 /\ t.n \in Word) /\ (t.kind = "tail" => k = Len(schema))
    <2>1. Faithful(k)
        BY <1>2
    <2> QED
        BY <1>1, <1>2, <2>1, SchemaIs DEF Faithful
<1> HIDE DEF t, v, p, prev
<1>11. CASE t.kind \notin {"opcode", "tail"}
    <2>1. IsRead(t, v, p, prev)
        BY <1>1, <1>3, <1>4, <1>5, <1>8, <1>9, <1>11, FieldIsRead
    <2>2. Reads(Next1, v, p, l)
        BY <1>7, <2>1 DEF IsRead
    <2> QED
        BY <1>2, <1>3, <2>2 DEF Reads, v
<1>12. CASE t.kind = "opcode"
    <2>1. k = 1 /\ t.n \in Word /\ p = 0
        BY <1>3, <1>10, <1>12
    <2>2. Lies(0, Encode(t, v))
        BY <1>5, <2>1
    <2>3. l = 2 /\ Decode(t, 0, prev) = IF Len(data) < 2 THEN Error ELSE Ok(v, 2)
        BY <1>1, <1>4, <1>12, <2>1, <2>2, OpcodeIsRead
    <2>4. Offset(k) = 2
        BY <1>3, <2>1, <2>3
    <2> QED
        BY <1>2, <1>7, <1>9, <1>12, <2>1, <2>3, <2>4 DEF v, t
<1>13. CASE t.kind = "tail"
    <2>1. k = Len(schema) /\ Len(data) <= p + Len(Encode(t, v))
        BY <1>1, <1>3, <1>10, <1>13
    <2>2. IF Len(data) = p + l THEN Decode(t, p, prev) = Ok(v, Len(data))
          ELSE \/ Decode(t, p, prev) = Eof
               \/ Len(data) = p /\ Decode(t, p, prev) = Ok(None, p)
        BY <1>1, <1>3, <1>4, <1>5, <1>9, <1>13, <2>1, TailIsRead
    <2> QED
        BY <1>2, <1>3, <1>7, <1>9, <2>1, <2>2 DEF v, t, p
<1> QED
    BY <1>11, <1>12, <1>13

LEMMA Appended ==
    ASSUME NEW S, NEW s \in Seq(S), NEW x \in S
    PROVE  /\ Append(s, x) \in Seq(S) /\ Len(Append(s, x)) = Len(s) + 1
           /\ Append(s, x)[Len(s) + 1] = x
           /\ \A k \in 1 .. Len(s) : Append(s, x)[k] = s[k]
           /\ DOMAIN Append(s, x) = 1 .. Len(s) + 1
    OBVIOUS

LEMMA InitIs ==
    ASSUME Init
    PROVE  IInv
PROOF
<1> USE DEF Init
<1>1. schema \in Schemas /\ want = schema /\ Len(msg) = 0 /\ Len(data) = 0 /\ Len(out) = 0
    OBVIOUS
<1>2. Len(schema) >= 1 /\ Len(schema) \in Nat
    BY <1>1, SchemaIs
<1>3. Holds(schema, msg)
    BY <1>1, <1>2 DEF Holds
<1>4. Typed
    <2>1. data \in Bytes
        BY DEF Bytes
    <2>2. out \in Seq({out[k] : k \in DOMAIN out})
        OBVIOUS
    <2> QED
        BY <1>1, <1>2, <1>3, <2>1, <2>2 DEF Typed
<1>5. Offset(0) = 0
    BY <1>3, EndIs, OffsetIs
<1>6. Sending
    BY <1>1, <1>5 DEF Sending
<1>7. Placed
    BY DEF Placed
<1>8. Foreign /\ Arriving
    BY DEF Foreign, Arriving
<1>9. Decoding
    BY <1>1, <1>5 DEF Decoding
<1> QED
    BY <1>4, <1>6, <1>7, <1>8, <1>9 DEF IInv

\* One more field is encoded behind the others.
LEMMA EncodeStep ==
    ASSUME IInv, EncodeField
    PROVE  IInv'
PROOF
<1> DEFINE n == Len(msg)
           t == schema[n + 1]
<1>1. /\ Holds(schema, msg) /\ want = schema /\ data \in Bytes /\ ~sent /\ n < Len(schema)
      /\ out = << >> /\ status = "ok" /\ pos = 0 /\ Len(data) = Offset(n)
    BY DEF IInv, Typed, Sending, EncodeField
<1>2. PICK v \in Values(t) : msg' = Append(msg, v) /\ data' = data \o Encode(t, v)
    BY DEF EncodeField
<1>3. UNCHANGED <<schema, want, sent, pos, out, status>>
    BY DEF EncodeField
<1>4. n \in Nat /\ schema \in Schemas /\ Len(schema) \in Nat /\ DOMAIN msg = 1 .. n
    BY <1>1, HoldsIs, SchemaIs DEF Holds
<1>5. t \in Field /\ Encode(t, v) \in Bytes
    <2>1. n + 1 \in 1 .. Len(schema)
        BY <1>1, <1>4
    <2>2. t \in Field
        BY <1>4, <2>1, SchemaIs
    <2> QED
        BY <2>2, EncodeType
<1>6. /\ Len(msg') = n + 1 /\ msg'[n + 1] = v /\ \A k \in 1 .. n : msg'[k] = msg[k]
      /\ msg' \in Seq(UNION {Values(u) : u \in Field}) /\ DOMAIN msg' = 1 .. n + 1
    <2> DEFINE A == UNION {Values(u) : u \in Field}
    <2>1. msg \in Seq(A) /\ v \in A
        BY <1>1, <1>5 DEF Holds
    <2> HIDE DEF A, t
    <2>2. /\ Append(msg, v) \in Seq(A) /\ Len(Append(msg, v)) = Len(msg) + 1
          /\ Append(msg, v)[Len(msg) + 1] = v
          /\ \A k \in 1 .. Len(msg) : Append(msg, v)[k] = msg[k]
          /\ DOMAIN Append(msg, v) = 1 .. Len(msg) + 1
        BY <2>1, Appended
    <2> QED
        BY <1>2, <2>2 DEF A
<1>7. Holds(schema, msg')
    <2>1. ASSUME NEW k \in 1 .. n + 1 PROVE msg'[k] \in Values(schema[k])
        <3>1. CASE k = n + 1
            BY <1>6, <3>1
        <3>2. CASE k # n + 1
            <4>1. k \in 1 .. n
                BY <1>4, <3>2
            <4> QED
                BY <1>1, <1>6, <4>1, HoldsIs
        <3> QED
            BY <3>1, <3>2
    <2> QED
        BY <1>1, <1>4, <1>6, <2>1 DEF Holds
<1>8. /\ \A k \in 0 .. n : End(schema, msg', k) = Offset(k) /\ Offset(k) \in Nat
      /\ End(schema, msg', n + 1) = Len(data) + Len(Encode(t, v))
      /\ \A k \in 1 .. n : Offset(k) = Offset(k - 1) + Len(Encode(schema[k], msg[k])) /\ Offset(k) <= Len(data)
    <2>1. \A k \in 0 .. n : End(schema, msg', k) = End(schema, msg, k)
        <3>1. Len(msg) <= Len(msg')
            BY <1>4, <1>6
        <3> HIDE DEF n
        <3> QED
            BY <1>1, <1>6, <1>7, <3>1, EndAgrees DEF n
    <2>2. \A k \in 1 .. n + 1 : End(schema, msg', k) = End(schema, msg', k - 1) + Len(Encode(schema[k], msg'[k]))
        BY <1>6, <1>7, EndIs
    <2>3. /\ \A k \in 0 .. n : Offset(k) \in Nat
          /\ \A k \in 1 .. n : Offset(k) = Offset(k - 1) + Len(Encode(schema[k], msg[k]))
          /\ \A j, k \in 0 .. n : j <= k => Offset(j) <= Offset(k)
        BY <1>1, EndIs, OffsetIs
    <2>4. End(schema, msg', n + 1) = End(schema, msg', n) + Len(Encode(t, v))
        <3>1. n + 1 \in 1 .. n + 1 /\ (n + 1) - 1 = n
            BY <1>4
        <3> HIDE DEF n
        <3> QED
            BY <1>6, <2>2, <3>1 DEF t
    <2>5. n \in 0 .. n /\ \A k \in 1 .. n : k \in 0 .. n /\ k <= n
        BY <1>4
    <2> HIDE DEF n, t
    <2> QED
        BY <1>1, <2>1, <2>3, <2>4, <2>5, OffsetIs
<1>9. \A k : Offset(k)' = End(schema, msg', k)
    BY <1>3 DEF Offset, End
<1>10. data' \in Bytes /\ Len(data') = Len(data) + Len(Encode(t, v)) /\ Len(data) \in Nat
    <2> HIDE DEF t
    <2> QED
        BY <1>1, <1>2, <1>5, JoinType
<1>11. Typed'
    <2>1. out' \in Seq({out'[k] : k \in DOMAIN out'}) /\ Len(out') = 0
        BY <1>1, <1>3
    <2>2. Holds(schema, msg)'
        BY <1>3, <1>7 DEF Holds
    <2> QED
        BY <1>1, <1>3, <1>4, <1>10, <2>1, <2>2 DEF Typed
<1>12. Sending'
    <2>1. Len(data') = Offset(Len(msg))'
        BY <1>3, <1>6, <1>8, <1>10 DEF Offset, End
    <2> QED
        BY <1>1, <1>3, <2>1 DEF Sending
<1>13. Placed'
    <2> SUFFICES ASSUME NEW k \in 1 .. n + 1
                 PROVE  Lies(Offset(k - 1), Encode(schema[k], msg[k]))'
        BY <1>6 DEF Placed
    <2>1. Offset(k - 1)' = Offset(k - 1) /\ Offset(k - 1) \in Nat
        <3>1. k - 1 \in 0 .. n
            BY <1>4
        <3> QED
            BY <1>8, <1>9, <3>1
    <2> DEFINE o == Offset(k - 1)
               e == Encode(schema'[k], msg'[k])
    <2>2. CASE k \in 1 .. n
        <3>1. e = Encode(schema[k], msg[k])
            BY <1>3, <1>6, <2>2
        <3>2. Lies(o, e) /\ o + Len(e) <= Len(data) /\ e \in Bytes
            BY <1>1, <1>8, <2>2, <3>1, HoldsIs DEF IInv, Placed
        <3> HIDE DEF o, e
        <3>3. \A i \in 1 .. Len(e) : o + i \in 1 .. Len(data) /\ data[o + i] = e[i]
            BY <1>10, <2>1, <3>2 DEF Lies, Bytes, o
        <3>4. \A i \in 1 .. Len(data) : data'[i] = data[i]
            <4> HIDE DEF t
            <4> QED
                BY <1>1, <1>2, <1>5 DEF Bytes
        <3>5. \A i \in 1 .. Len(e) : data'[o + i] = e[i]
            BY <3>3, <3>4
        <3> QED
            BY <2>1, <3>5 DEF Lies, o, e
    <2>3. CASE k = n + 1
        <3>1. e = Encode(t, v) /\ o = Len(data)
            <4>1. k - 1 = n
                BY <1>4, <2>3
            <4> QED
                BY <1>1, <1>3, <1>6, <2>3, <4>1
        <3> HIDE DEF o, e, t
        <3>2. \A i \in 1 .. Len(e) : data'[Len(data) + i] = e[i]
            <4>1. data \in Seq(Byte) /\ e \in Seq(Byte) /\ data' = data \o e
                BY <1>1, <1>2, <1>5, <3>1 DEF Bytes
            <4> QED
                BY <4>1, Joined
        <3> QED
            BY <2>1, <3>1, <3>2 DEF Lies, o, e
    <2> QED
        BY <1>4, <2>2, <2>3
<1>14. Foreign'
    BY <1>1, <1>3 DEF Foreign
<1>15. Decoding'
    <2>1. Len(out') = 0 /\ pos' = 0 /\ Offset(0)' = 0
        <3>1. End(schema, msg', 0) = 0
            BY <1>7, EndIs
        <3> QED
            BY <1>1, <1>3, <1>9, <3>1
    <2> QED
        BY <2>1 DEF Decoding
<1>16. Arriving'
    BY <1>1, <1>3 DEF Arriving
<1> QED
    BY <1>11, <1>12, <1>13, <1>14, <1>15, <1>16 DEF IInv

\* The packet arrives, whole or cut.
LEMMA SendStep ==
    ASSUME IInv, NEW n \in 0 .. Len(data), NEW type \in Schemas, Send(n, type)
    PROVE  IInv'
PROOF
<1>1. /\ Holds(schema, msg) /\ data \in Bytes /\ out = << >> /\ status = "ok" /\ pos = 0
      /\ Len(data) = Offset(Len(msg)) /\ Len(msg) = Len(schema)
    BY DEF IInv, Typed, Sending, Send
<1>2. /\ want' = type /\ sent' = TRUE /\ data' = SubSeq(data, 1, n)
      /\ UNCHANGED <<schema, msg, pos, out, status>>
      /\ type = schema \/ (IsMessage(type) /\ IsMessage(schema))
    BY DEF Send, encoder
<1>3. data' \in Bytes /\ Len(data') = n /\ Len(data) \in Nat /\ \A i \in 1 .. n : data'[i] = data[i]
    BY <1>1, <1>2 DEF Bytes
<1>4. \A k : Offset(k)' = Offset(k)
    BY <1>2 DEF Offset
<1>5. schema \in Schemas /\ Len(schema) \in Nat /\ Len(schema) >= 1 /\ Offset(0) = 0
    BY <1>1, SchemaIs, EndIs, OffsetIs DEF Holds
<1>6. Typed'
    <2>1. out' \in Seq({out'[k] : k \in DOMAIN out'}) /\ Len(out') = 0
        BY <1>1, <1>2
    <2>2. Holds(schema, msg)'
        BY <1>1, <1>2 DEF Holds
    <2>3. Len(type) \in Nat
        BY SchemaIs
    <2>4. Len(out') <= Len(want') /\ want' \in Schemas
        <3>1. want' = type /\ Len(out') = 0
            BY <1>2, <2>1, Zenon
        <3>2. Len(type) \in Nat => 0 <= Len(type)
            OBVIOUS
        <3> QED
            BY <2>3, <3>1, <3>2, Zenon
    <2> QED
        BY <1>3, <2>1, <2>2, <2>4, Zenon DEF Typed
<1>7. Sending'
    BY <1>1, <1>2, <1>3, <1>4 DEF Sending
<1>8. Placed'
    <2> SUFFICES ASSUME NEW k \in DOMAIN msg
                 PROVE  Lies(Offset(k - 1), Encode(schema[k], msg[k]))'
        BY <1>2 DEF Placed
    <2> DEFINE o == Offset(k - 1)
               e == Encode(schema[k], msg[k])
    <2>1. Lies(o, e) /\ o \in Nat /\ e \in Bytes
        <3>1. k \in 1 .. Len(msg) /\ k - 1 \in 0 .. Len(msg)
            BY <1>1, HoldsIs
        <3> QED
            BY <1>1, <3>1, EndIs, OffsetIs, HoldsIs DEF IInv, Placed
    <2>2. Offset(k - 1)' = o /\ Encode(schema[k], msg[k])' = e
        BY <1>2, <1>4
    <2> HIDE DEF o, e
    <2>3. ASSUME NEW i \in 1 .. Len(e), o + i <= n PROVE data'[o + i] = e[i]
        <3>1. o + i \in 1 .. n /\ o + i <= Len(data)
            BY <1>3, <2>1, <2>3 DEF Bytes
        <3> QED
            BY <1>3, <2>1, <3>1 DEF Lies
    <2> QED
        BY <1>3, <2>2, <2>3 DEF Lies
<1>9. Foreign'
    BY <1>1, <1>2 DEF Foreign, IsMessage
<1>10. Len(out') = 0
    BY <1>1, <1>2
<1>11. Decoding'
    BY <1>1, <1>2, <1>4, <1>5, <1>10 DEF Decoding
<1>12. Arriving'
    BY <1>1, <1>2, <1>3, <1>4, <1>5, <1>10 DEF Arriving
<1> QED
    BY <1>6, <1>7, <1>8, <1>9, <1>11, <1>12 DEF IInv

\* The first field of a message is the opcode of its type only.
LEMMA ForeignIsNoticed ==
    ASSUME IInv, Reading, want # schema
    PROVE  Next1 = Error
PROOF
<1>1. /\ Holds(schema, msg) /\ data \in Bytes /\ schema \in Schemas /\ want \in Schemas
      /\ Len(msg) = Len(schema) /\ out = << >> /\ pos = 0
      /\ want[1].kind = "opcode" /\ schema[1].kind = "opcode"
    BY DEF IInv, Typed, Holds, Sending, Reading, Foreign, IsMessage
<1>2. want[1].n # schema[1].n
    BY <1>1, CodecAssumption
<1>3. /\ 1 \in 1 .. Len(schema) /\ 1 \in 1 .. Len(want) /\ 1 \in 1 .. Len(msg) /\ 1 \in DOMAIN msg
    BY <1>1, SchemaIs, HoldsIs
<1>4. schema[1] \in Field /\ want[1] \in Field /\ schema[1].n \in Word /\ msg[1] \in Values(schema[1])
    BY <1>1, <1>3, SchemaIs, HoldsIs
<1>5. Lies(0, Encode(schema[1], msg[1]))
    <2>1. Lies(Offset(1 - 1), Encode(schema[1], msg[1]))
        BY <1>3 DEF IInv, Placed
    <2>2. Offset(1 - 1) = 0
        BY <1>1, EndIs, OffsetIs
    <2> QED
        BY <2>1, <2>2
<1>6. Next1 = Decode(want[1], 0, None)
    BY <1>1 DEF Next1
<1> DEFINE t == schema[1]
           u == want[1]
           v == msg[1]
<1>7. t.kind = "opcode" /\ u.kind = "opcode" /\ u.n # t.n /\ t.n \in Word /\ t \in Field /\ u \in Field
      /\ v \in Values(t) /\ Lies(0, Encode(t, v))
    BY <1>1, <1>2, <1>4, <1>5
<1> HIDE DEF t, u, v
<1>8. Decode(u, 0, None) = Error
    BY <1>1, <1>7, OpcodeIsForeign
<1> QED
    BY <1>6, <1>8 DEF u

\* A step of the reader leaves the packet as it is.
LEMMA ReaderKeeps ==
    ASSUME UNCHANGED <<encoder, want, data, sent>>
    PROVE  /\ schema' = schema /\ msg' = msg /\ want' = want /\ data' = data /\ sent' = sent
           /\ \A k : Offset(k)' = Offset(k)
           /\ \A k : Faithful(k)' <=> Faithful(k)
           /\ AllFaithful' <=> AllFaithful
           /\ \A k : Readable(k)' <=> Readable(k)
           /\ Placed' <=> Placed
PROOF
<1>1. schema' = schema /\ msg' = msg /\ want' = want /\ data' = data /\ sent' = sent
    BY DEF encoder
<1>2. \A k : Offset(k)' = Offset(k)
    BY <1>1 DEF Offset
<1>3. \A k : Faithful(k)' <=> Faithful(k)
    <2> DEFINE F(s, m, k) ==
            LET t == s[k]  v == m[k]
            IN  /\ t.kind = "list" => Len(v) <= Max
                /\ t.kind \in {"index", "indexZ"} => \A i \in DOMAIN v : v[i][1] # Terminator(t)
                /\ t.kind = "fixed"  => \A i \in DOMAIN v : v[i] # 0
                /\ t.kind = "expiry" => v # TimeMax
                /\ t.kind = "cond"   => (v # None) = m[k - 1]
                /\ t.kind = "either" => v.left = m[k - 1]
                /\ t.kind = "sized"  => Len(v) = m[k - 1]
                /\ t.kind = "tail"   => k = Len(s)
    <2>1. \A k : Faithful(k) <=> F(schema, msg, k)
        BY Zenon DEF Faithful
    <2>2. \A k : Faithful(k)' <=> F(schema', msg', k)
        BY Zenon DEF Faithful
    <2> HIDE DEF F
    <2> QED
        BY <1>1, <2>1, <2>2
<1>4. AllFaithful' <=> AllFaithful
    BY <1>1, <1>3, Zenon DEF AllFaithful
<1>5. \A k : Readable(k)' <=> Readable(k)
    BY <1>1, <1>2, <1>3, Zenon DEF Readable
<1>6. Placed' <=> Placed
    <2>1. \A p, s : Lies(p, s)' <=> Lies(p, s)
        BY <1>1 DEF Lies
    <2>2. \A k : Lies(Offset(k - 1), Encode(schema[k], msg[k]))'
                    <=> Lies(Offset(k - 1), Encode(schema[k], msg[k]))
        <3> SUFFICES ASSUME NEW k
                     PROVE  Lies(Offset(k - 1), Encode(schema[k], msg[k]))'
                                <=> Lies(Offset(k - 1), Encode(schema[k], msg[k]))
            OBVIOUS
        <3> DEFINE o == Offset(k - 1)
                   e == Encode(schema[k], msg[k])
        <3>1. o' = o /\ e' = e
            BY <1>1, <1>2
        <3> QED
            BY <1>1, <3>1 DEF Lies
    <2> QED
        BY <1>1, <2>2 DEF Placed
<1> QED
    BY <1>1, <1>2, <1>3, <1>4, <1>5, <1>6, Zenon

\* Whatever is decoded, it is one more value.
LEMMA OutGrows ==
    ASSUME out \in Seq({out[k] : k \in DOMAIN out}), NEW x, out' = Append(out, x)
    PROVE  /\ Len(out) \in Nat /\ Len(out') = Len(out) + 1 /\ out'[Len(out) + 1] = x
           /\ \A k \in 1 .. Len(out) : out'[k] = out[k]
           /\ out' \in Seq({out'[k] : k \in DOMAIN out'})
PROOF
<1> DEFINE S == {out[k] : k \in DOMAIN out}
           A == S \union {x}
           w == Append(out, x)
           R == {w[k] : k \in DOMAIN w}
<1>1. out \in Seq(A) /\ x \in A
    OBVIOUS
<1> HIDE DEF A, S
<1>2. /\ w \in Seq(A) /\ Len(w) = Len(out) + 1 /\ w[Len(out) + 1] = x
      /\ \A k \in 1 .. Len(out) : w[k] = out[k]
    BY <1>1, Appended
<1>3. Len(out) \in Nat
    BY <1>1
<1> HIDE DEF w
<1>4. w \in [1 .. Len(w) -> R] /\ Len(w) \in Nat
    BY <1>2
<1>5. w \in Seq(R)
    <2> HIDE DEF R
    <2> QED
        BY <1>4, SeqIs
<1>6. out' = w
    BY DEF w
<1> QED
    BY <1>2, <1>3, <1>5, <1>6

\* What holds behind a field that was read.
LEMMA OkStep ==
    ASSUME IInv, Reading, want = schema, Next1.res = "ok", Decoded(Next1),
           UNCHANGED <<encoder, want, data, sent>>
    PROVE  IInv'
PROOF
<1> DEFINE n == Len(out)
           k == n + 1
<1>1. /\ schema' = schema /\ msg' = msg /\ want' = want /\ data' = data /\ sent' = sent
      /\ \A j : Offset(j)' = Offset(j)
      /\ AllFaithful' <=> AllFaithful
      /\ \A j : Readable(j)' <=> Readable(j)
      /\ Placed' <=> Placed
    BY ReaderKeeps
<1>2. out' = Append(out, Next1.val) /\ pos' = Next1.next /\ status' = status /\ status = "ok" /\ sent
    BY DEF Decoded, Reading
<1>3. /\ Holds(schema, msg) /\ schema \in Schemas /\ data \in Bytes /\ n \in Nat /\ n < Len(schema)
      /\ Len(msg) = Len(schema) /\ Len(data) <= Offset(Len(msg))
    BY DEF IInv, Typed, Holds, Sending, Reading
<1>4. /\ Len(out') = k /\ out'[k] = Next1.val /\ \A j \in 1 .. n : out'[j] = out[j]
      /\ out' \in Seq({out'[j] : j \in DOMAIN out'})
    BY <1>2, OutGrows DEF IInv, Typed
<1>5. Len(schema) \in Nat /\ Len(data) \in Nat
    BY <1>3, SchemaIs, LenData
<1>6. /\ k \in 1 .. Len(msg) /\ k - 1 = n /\ k \in Nat /\ k <= Len(schema)
      /\ \A j \in 0 .. k : j \in 0 .. n \/ j = k
    BY <1>3, <1>5
<1>7. Offset(n) <= Offset(k) /\ Offset(n) \in Nat /\ Offset(k) \in Nat
    <2>1. n \in 0 .. Len(msg) /\ k \in 0 .. Len(msg) /\ n <= k
        BY <1>3, <1>5
    <2> HIDE DEF n, k
    <2> QED
        BY <1>3, <2>1, EndIs, OffsetIs
<1>8. ASSUME Readable(k) PROVE Next1 = Ok(msg[k], Offset(k))
    <2>1. (\A i \in 1 .. k : Faithful(i)) /\ Offset(k) <= Len(data)
        BY <1>8 DEF Readable
    <2>2. Offset(k - 1) <= Len(data)
        BY <1>5, <1>6, <1>7, <2>1
    <2> HIDE DEF k
    <2> QED
        BY <2>1, <2>2, NextIs DEF k
<1>9. ASSUME AllFaithful PROVE \/ Offset(k) <= Len(data)
                               \/ k = Len(schema) /\ pos' = Offset(k - 1)
    <2>1. \A i \in 1 .. k : Faithful(i)
        <3>1. DOMAIN msg = 1 .. Len(msg)
            BY <1>3, HoldsIs
        <3>2. \A i \in 1 .. k : i \in DOMAIN msg
            BY <1>3, <1>5, <3>1
        <3> QED
            BY <1>9, <3>2 DEF AllFaithful
    <2>2. Offset(k - 1) <= Len(data)
        <3>1. n \in 0 .. Len(out) /\ n < Len(schema)
            BY <1>3
        <3>2. Offset(n) <= Len(data)
            BY <1>2, <1>9, <3>1 DEF IInv, Arriving
        <3> QED
            BY <1>6, <3>2
    <2> HIDE DEF k
    <2>3. \/ Offset(k) <= Len(data)
          \/ Next1 = Eof \/ Next1 = Error
          \/ k = Len(schema) /\ Next1 = Ok(None, Offset(k - 1))
        BY <2>1, <2>2, NextIs DEF k
    <2>4. Next1 # Eof /\ Next1 # Error
        BY DEF Eof, Error
    <2>5. \A x, q : Next1 = Ok(x, q) => pos' = q
        BY <1>2 DEF Ok
    <2> QED
        BY <2>3, <2>4, <2>5
<1> HIDE DEF k
<1>10. Typed'
    <2>1. Holds(schema, msg)'
        BY <1>1, <1>3 DEF Holds
    <2>2. Len(out') <= Len(want')
        BY <1>1, <1>4, <1>6
    <2> QED
        BY <1>1, <1>3, <1>4, <2>1, <2>2, Zenon DEF Typed
<1>11. Sending'
    BY <1>1, <1>2, <1>3 DEF Sending
<1>12. Placed'
    BY <1>1 DEF IInv
<1>13. Foreign'
    BY <1>1 DEF Foreign
<1>14. Decoding'
    <2> SUFFICES ASSUME NEW j \in 0 .. k, Readable(j)
                 PROVE  /\ j # 0 => out'[j] = msg[j]
                        /\ j = k => pos' = Offset(j)
        BY <1>1, <1>4 DEF Decoding
    <2>1. CASE j \in 0 .. n
        <3>1. j # 0 => out[j] = msg[j]
            BY <2>1 DEF IInv, Decoding
        <3>2. j # 0 => j \in 1 .. n
            BY <1>3, <2>1
        <3>3. j # k
            BY <1>3, <2>1 DEF k
        <3> QED
            BY <1>4, <3>1, <3>2, <3>3
    <2>2. CASE j = k
        <3>1. Next1 = Ok(msg[k], Offset(k))
            BY <1>8, <2>2
        <3>2. Next1.val = msg[k] /\ Next1.next = Offset(k)
            BY <3>1 DEF Ok
        <3> QED
            BY <1>2, <1>4, <2>2, <3>2
    <2> QED
        BY <1>6, <2>1, <2>2
<1>15. Arriving'
    <2> SUFFICES ASSUME AllFaithful
                 PROVE  /\ \A j \in 0 .. k : j < Len(schema) => Offset(j) <= Len(data)
                        /\ k = Len(schema) =>
                                Offset(Len(schema)) <= Len(data) \/ pos' = Offset(Len(schema) - 1)
        BY <1>1, <1>2, <1>4 DEF Arriving
    <2>1. ASSUME NEW j \in 0 .. k, j < Len(schema) PROVE Offset(j) <= Len(data)
        <3>1. CASE j \in 0 .. n
            BY <1>2, <2>1, <3>1 DEF IInv, Arriving
        <3>2. CASE j = k
            <4>1. k # Len(schema)
                BY <1>5, <1>6, <2>1, <3>2
            <4> QED
                BY <1>9, <3>2, <4>1
        <3> QED
            BY <1>6, <3>1, <3>2
    <2>2. k = Len(schema) => Offset(Len(schema)) <= Len(data) \/ pos' = Offset(Len(schema) - 1)
        BY <1>9
    <2> QED
        BY <2>1, <2>2
<1> QED
    BY <1>10, <1>11, <1>12, <1>13, <1>14, <1>15 DEF IInv

\* The fields that the reader of a faithful packet has in front of it.
LEMMA NextOfFaithful ==
    ASSUME IInv, Reading, want = schema, AllFaithful, NEW k, k = Len(out) + 1
    PROVE  /\ \A i \in 1 .. k : Faithful(i)
           /\ Offset(k - 1) <= Len(data)
           /\ k \in 1 .. Len(msg) /\ Len(msg) = Len(schema)
           /\ Offset(k) \in Nat /\ Offset(k) <= Offset(Len(schema))
PROOF
<1>1. /\ Holds(schema, msg) /\ schema \in Schemas /\ Len(out) \in Nat /\ Len(out) < Len(schema)
      /\ Len(msg) = Len(schema) /\ sent
    BY DEF IInv, Typed, Holds, Sending, Reading
<1>2. Len(schema) \in Nat /\ DOMAIN msg = 1 .. Len(msg)
    BY <1>1, SchemaIs, HoldsIs
<1>3. k \in 1 .. Len(msg) /\ k - 1 = Len(out) /\ k \in 0 .. Len(msg) /\ Len(msg) \in 0 .. Len(msg)
      /\ k <= Len(msg)
    BY <1>1, <1>2
<1>4. \A i \in 1 .. k : Faithful(i)
    <2>1. \A i \in 1 .. k : i \in DOMAIN msg
        BY <1>2, <1>3
    <2> QED
        BY <2>1 DEF AllFaithful
<1>5. Offset(k - 1) <= Len(data)
    <2>1. k - 1 \in 0 .. Len(out) /\ k - 1 < Len(schema)
        BY <1>1, <1>3
    <2> QED
        BY <1>1, <2>1 DEF IInv, Arriving
<1>6. Offset(k) \in Nat /\ Offset(k) <= Offset(Len(msg))
    BY <1>1, <1>3, EndIs, OffsetIs
<1> QED
    BY <1>1, <1>3, <1>4, <1>5, <1>6

\* What holds when a field could not be read.
LEMMA FailStep ==
    ASSUME IInv, Reading, Next1.res # "ok", status' = Next1.res,
           UNCHANGED <<pos, out>>, UNCHANGED <<encoder, want, data, sent>>
    PROVE  IInv'
PROOF
<1>1. /\ schema' = schema /\ msg' = msg /\ want' = want /\ data' = data /\ sent' = sent
      /\ \A j : Offset(j)' = Offset(j)
      /\ AllFaithful' <=> AllFaithful
      /\ \A j : Readable(j)' <=> Readable(j)
      /\ Placed' <=> Placed
    BY ReaderKeeps
<1>2. pos' = pos /\ out' = out /\ sent /\ status = "ok"
    BY DEF Reading
<1>3. Typed'
    <2>1. Holds(schema, msg)'
        BY <1>1 DEF Holds, IInv, Typed
    <2> QED
        BY <1>1, <1>2, <2>1 DEF IInv, Typed
<1>4. Sending'
    BY <1>1, <1>2 DEF IInv, Sending
<1>5. Placed'
    BY <1>1 DEF IInv
<1>6. Foreign'
    BY <1>1, <1>2 DEF IInv, Foreign, IsMessage
<1>7. Decoding'
    BY <1>1, <1>2 DEF IInv, Decoding
<1>8. Arriving'
    <2> SUFFICES ASSUME AllFaithful, want = schema
                 PROVE  /\ Next1.res \in {"eof", "error"}
                        /\ Next1.res = "error" => IsMessage(schema) /\ Len(data) < 2
                        /\ Next1.res = "eof" => Len(data) < Offset(Len(schema))
        <3>1. ASSUME AllFaithful, want = schema
              PROVE  /\ \A k \in 0 .. Len(out) : k < Len(schema) => Offset(k) <= Len(data)
                     /\ Len(out) = Len(schema) =>
                            Offset(Len(schema)) <= Len(data) \/ pos = Offset(Len(schema) - 1)
            BY <1>2, <3>1 DEF IInv, Arriving
        <3>2. IsMessage(schema)' <=> IsMessage(schema)
            BY <1>1 DEF IsMessage
        <3> QED
            BY <1>1, <1>2, <3>1, <3>2 DEF Arriving
    <2> DEFINE k == Len(out) + 1
    <2>1. k = Len(out) + 1
        OBVIOUS
    <2> HIDE DEF k
    <2>2. /\ \A i \in 1 .. k : Faithful(i)
          /\ Offset(k - 1) <= Len(data)
          /\ k \in 1 .. Len(msg) /\ Len(msg) = Len(schema)
          /\ Offset(k) \in Nat /\ Offset(k) <= Offset(Len(schema))
        BY <2>1, NextOfFaithful
    <2>3. IF Offset(k) <= Len(data) THEN Next1 = Ok(msg[k], Offset(k))
          ELSE \/ Next1 = Eof
               \/ k = 1 /\ schema[k].kind = "opcode" /\ Len(data) < 2 /\ Next1 = Error
               \/ k = Len(schema) /\ Len(data) = Offset(k - 1) /\ Next1 = Ok(None, Offset(k - 1))
        BY <2>1, <2>2, NextIs
    <2>4. /\ \A x, q : Ok(x, q).res = "ok"
          /\ Eof.res = "eof" /\ Error.res = "error"
        BY DEF Ok, Eof, Error
    <2>5. \/ ~(Offset(k) <= Len(data)) /\ Next1 = Eof
          \/ k = 1 /\ schema[k].kind = "opcode" /\ Len(data) < 2 /\ Next1 = Error
        BY <2>3, <2>4, Zenon
    <2>6. Len(data) \in Nat /\ Offset(Len(schema)) \in Nat
        <3>1. Holds(schema, msg) /\ data \in Bytes
            BY DEF IInv, Typed
        <3>2. Len(msg) \in 0 .. Len(msg)
            BY <3>1, HoldsIs
        <3> QED
            BY <2>2, <3>1, <3>2, EndIs, OffsetIs, LenData
    <2>7. CASE ~(Offset(k) <= Len(data)) /\ Next1 = Eof
        BY <2>2, <2>4, <2>6, <2>7
    <2>8. CASE k = 1 /\ schema[k].kind = "opcode" /\ Len(data) < 2 /\ Next1 = Error
        BY <2>4, <2>8 DEF IsMessage
    <2> QED
        BY <2>5, <2>7, <2>8
<1> QED
    BY <1>3, <1>4, <1>5, <1>6, <1>7, <1>8 DEF IInv

\* What holds when the last field is taken for an absent one.
LEMMA AbsentStep ==
    ASSUME IInv, Reading, want = schema, Len(out) = Len(want) - 1, Next1.res = "eof",
           Decoded(Ok(None, AfterEof(pos))), UNCHANGED <<encoder, want, data, sent>>
    PROVE  IInv'
PROOF
<1> DEFINE n == Len(out)
           k == n + 1
<1>1. /\ schema' = schema /\ msg' = msg /\ want' = want /\ data' = data /\ sent' = sent
      /\ \A j : Offset(j)' = Offset(j)
      /\ AllFaithful' <=> AllFaithful
      /\ \A j : Readable(j)' <=> Readable(j)
      /\ Placed' <=> Placed
    BY ReaderKeeps
<1>2. out' = Append(out, None) /\ pos' = pos /\ status' = status /\ status = "ok" /\ sent
    BY DEF Decoded, Reading, Ok, AfterEof
<1>3. /\ Holds(schema, msg) /\ schema \in Schemas /\ data \in Bytes /\ n \in Nat /\ n < Len(schema)
      /\ Len(msg) = Len(schema) /\ Len(data) <= Offset(Len(msg))
    BY DEF IInv, Typed, Holds, Sending, Reading
<1>4. /\ Len(out') = k /\ \A j \in 1 .. n : out'[j] = out[j]
      /\ out' \in Seq({out'[j] : j \in DOMAIN out'})
    BY <1>2, OutGrows DEF IInv, Typed
<1>5. Len(schema) \in Nat /\ Len(data) \in Nat
    BY <1>3, SchemaIs, LenData
<1>6. /\ k \in 1 .. Len(msg) /\ k - 1 = n /\ k = Len(schema) /\ k \in Nat
      /\ \A j \in 0 .. k : j \in 0 .. n \/ j = k
    BY <1>3, <1>5
<1>7. Offset(n) <= Offset(k) /\ Offset(n) \in Nat /\ Offset(k) \in Nat
    <2>1. n \in 0 .. Len(msg) /\ k \in 0 .. Len(msg) /\ n <= k
        BY <1>3, <1>5
    <2> HIDE DEF n, k
    <2> QED
        BY <1>3, <2>1, EndIs, OffsetIs
<1>8. ~Readable(k)
    <2> SUFFICES ASSUME Readable(k) PROVE FALSE
        OBVIOUS
    <2>1. (\A i \in 1 .. k : Faithful(i)) /\ Offset(k) <= Len(data)
        BY DEF Readable
    <2>2. Offset(k - 1) <= Len(data)
        BY <1>5, <1>6, <1>7, <2>1
    <2> HIDE DEF k
    <2>3. Next1 = Ok(msg[k], Offset(k))
        BY <2>1, <2>2, NextIs DEF k
    <2> QED
        BY <2>3 DEF Ok
<1>9. ASSUME AllFaithful PROVE pos = Offset(n) /\ Offset(n) <= Len(data)
    <2> DEFINE j == n + 1
    <2>1. (\A i \in 1 .. j : Faithful(i)) /\ Offset(j - 1) <= Len(data)
        <3> HIDE DEF j
        <3> QED
            BY <1>9, NextOfFaithful DEF j
    <2>2. Readable(n)
        <3>1. \A i \in 1 .. n : i \in 1 .. j
            BY <1>3
        <3> QED
            BY <1>6, <2>1, <3>1 DEF Readable
    <2>3. n \in 0 .. Len(out) /\ n = Len(out)
        BY <1>3
    <2> QED
        BY <2>2, <2>3 DEF IInv, Decoding, Readable
<1> HIDE DEF k
<1>10. Typed'
    <2>1. Holds(schema, msg)'
        BY <1>1, <1>3 DEF Holds
    <2>2. Len(out') <= Len(want')
        BY <1>1, <1>4, <1>6
    <2> QED
        BY <1>1, <1>3, <1>4, <2>1, <2>2, Zenon DEF Typed
<1>11. Sending'
    BY <1>1, <1>2, <1>3 DEF Sending
<1>12. Placed'
    BY <1>1 DEF IInv
<1>13. Foreign'
    BY <1>1 DEF Foreign
<1>14. Decoding'
    <2> SUFFICES ASSUME NEW j \in 0 .. k, Readable(j)
                 PROVE  /\ j # 0 => out'[j] = msg[j]
                        /\ j = k => pos' = Offset(j)
        BY <1>1, <1>4 DEF Decoding
    <2>1. j # k
        BY <1>8
    <2>2. j \in 0 .. n
        BY <1>6, <2>1
    <2>3. j # 0 => out[j] = msg[j]
        BY <2>2 DEF IInv, Decoding
    <2>4. j # 0 => j \in 1 .. n
        BY <1>3, <2>2
    <2> QED
        BY <1>4, <2>1, <2>3, <2>4
<1>15. Arriving'
    <2> SUFFICES ASSUME AllFaithful
                 PROVE  /\ \A j \in 0 .. k : j < Len(schema) => Offset(j) <= Len(data)
                        /\ pos' = Offset(Len(schema) - 1)
        BY <1>1, <1>2, <1>4 DEF Arriving
    <2>1. ASSUME NEW j \in 0 .. k, j < Len(schema) PROVE Offset(j) <= Len(data)
        <3>1. j \in 0 .. n
            BY <1>6, <2>1
        <3> QED
            BY <1>2, <2>1, <3>1 DEF IInv, Arriving
    <2>2. pos' = Offset(Len(schema) - 1)
        BY <1>2, <1>6, <1>9
    <2> QED
        BY <2>1, <2>2
<1> QED
    BY <1>10, <1>11, <1>12, <1>13, <1>14, <1>15 DEF IInv

\* A field is decoded, or the packet is no packet of its type.
LEMMA DecodeStep ==
    ASSUME IInv, DecodeField
    PROVE  IInv'
PROOF
<1>1. Reading /\ UNCHANGED <<encoder, want, data, sent>>
    BY DEF DecodeField
<1>2. CASE Next1.res = "ok" /\ Decoded(Next1)
    <2>1. want = schema
        <3>1. Error.res # "ok"
            BY DEF Error
        <3> QED
            BY <1>1, <1>2, <3>1, ForeignIsNoticed
    <2> QED
        BY <1>1, <1>2, <2>1, OkStep
<1>3. CASE Next1.res # "ok" /\ status' = Next1.res /\ UNCHANGED <<pos, out>>
    BY <1>1, <1>3, FailStep
<1> QED
    BY <1>2, <1>3 DEF DecodeField

\* The last field is decoded, or absent, or an error.
LEMMA TryDecodeStep ==
    ASSUME IInv, TryDecodeField
    PROVE  IInv'
PROOF
<1>1. Reading /\ UNCHANGED <<encoder, want, data, sent>> /\ Len(out) = Len(want) - 1
    BY DEF TryDecodeField
<1>2. Next1.res # "error" => want = schema
    <2>1. Error.res = "error"
        BY DEF Error
    <2> QED
        BY <1>1, <2>1, ForeignIsNoticed
<1>3. CASE Next1.res = "ok" /\ Decoded(Next1)
    BY <1>1, <1>2, <1>3, OkStep
<1>4. CASE Next1.res = "eof" /\ Decoded(Ok(None, AfterEof(pos)))
    BY <1>1, <1>2, <1>4, AbsentStep
<1>5. CASE Next1.res = "error" /\ status' = "error" /\ UNCHANGED <<pos, out>>
    BY <1>1, <1>5, FailStep
<1> QED
    BY <1>3, <1>4, <1>5 DEF TryDecodeField

\* The end of the packet.
LEMMA CompleteStep ==
    ASSUME IInv, Complete
    PROVE  IInv'
PROOF
<1>1. /\ sent /\ status = "ok" /\ Len(out) = Len(want) /\ pos' = pos /\ out' = out
      /\ UNCHANGED <<encoder, want, data, sent>>
      /\ status' = IF pos = Len(data) THEN "complete" ELSE "leftover"
    BY DEF Complete
<1>2. /\ schema' = schema /\ msg' = msg /\ want' = want /\ data' = data /\ sent' = sent
      /\ \A j : Offset(j)' = Offset(j)
      /\ AllFaithful' <=> AllFaithful
      /\ \A j : Readable(j)' <=> Readable(j)
      /\ Placed' <=> Placed
    BY <1>1, ReaderKeeps
<1>3. Typed'
    <2>1. Holds(schema, msg)'
        BY <1>2 DEF Holds, IInv, Typed
    <2> QED
        BY <1>1, <1>2, <2>1 DEF IInv, Typed
<1>4. Sending'
    BY <1>1, <1>2 DEF IInv, Sending
<1>5. Placed'
    BY <1>2 DEF IInv
<1>6. Foreign'
    BY <1>1, <1>2 DEF IInv, Foreign, IsMessage
<1>7. Decoding'
    BY <1>1, <1>2 DEF IInv, Decoding
<1>8. Arriving'
    <2> SUFFICES ASSUME AllFaithful, want = schema PROVE Arriving'
        BY <1>2 DEF Arriving
    <2>1. /\ \A k \in 0 .. Len(out) : k < Len(schema) => Offset(k) <= Len(data)
          /\ Len(out) = Len(schema)
          /\ Offset(Len(schema)) <= Len(data) \/ pos = Offset(Len(schema) - 1)
        BY <1>1 DEF IInv, Arriving
    <2>2. /\ status' = "complete" => pos = Len(data)
          /\ status' = "leftover" => pos # Len(data)
          /\ status' \in {"complete", "leftover"}
        BY <1>1
    <2> QED
        BY <1>1, <1>2, <2>1, <2>2 DEF Arriving
<1> QED
    BY <1>3, <1>4, <1>5, <1>6, <1>7, <1>8 DEF IInv

LEMMA NothingHappens ==
    ASSUME IInv, UNCHANGED vars
    PROVE  IInv'
PROOF
<1>1. /\ UNCHANGED <<encoder, want, data, sent>> /\ pos' = pos /\ out' = out /\ status' = status
    BY DEF vars
<1>2. /\ schema' = schema /\ msg' = msg /\ want' = want /\ data' = data /\ sent' = sent
      /\ \A j : Offset(j)' = Offset(j)
      /\ AllFaithful' <=> AllFaithful
      /\ \A j : Readable(j)' <=> Readable(j)
      /\ Placed' <=> Placed
    BY <1>1, ReaderKeeps
<1>3. Typed'
    <2>1. Holds(schema, msg)'
        BY <1>2 DEF Holds, IInv, Typed
    <2> QED
        BY <1>1, <1>2, <2>1 DEF IInv, Typed
<1>4. Sending' /\ Placed'
    BY <1>1, <1>2 DEF IInv, Sending
<1>5. Foreign'
    BY <1>1, <1>2 DEF IInv, Foreign, IsMessage
<1>6. Decoding'
    BY <1>1, <1>2 DEF IInv, Decoding
<1>7. Arriving'
    BY <1>1, <1>2 DEF IInv, Arriving, IsMessage
<1> QED
    BY <1>3, <1>4, <1>5, <1>6, <1>7 DEF IInv

\* The inductive invariant.
THEOREM Inductive == Spec => []IInv
PROOF
<1>1. Init => IInv
    BY InitIs
<1>2. IInv /\ [Next]_vars => IInv'
    <2> SUFFICES ASSUME IInv, [Next]_vars PROVE IInv'
        OBVIOUS
    <2>1. CASE EncodeField
        BY <2>1, EncodeStep
    <2>2. CASE \E n \in 0 .. Len(data), type \in Schemas : Send(n, type)
        BY <2>2, SendStep
    <2>3. CASE DecodeField
        BY <2>3, DecodeStep
    <2>4. CASE TryDecodeField
        BY <2>4, TryDecodeStep
    <2>5. CASE Complete
        BY <2>5, CompleteStep
    <2>6. CASE UNCHANGED vars
        BY <2>6, NothingHappens
    <2> QED
        BY <2>1, <2>2, <2>3, <2>4, <2>5, <2>6 DEF Next
<1> QED
    BY <1>1, <1>2, PTL DEF Spec

\* FaithfulFieldsSurvive: the fields of a packet read by FieldReader and the derived
\* decode are those that were encoded, as far as they have arrived.
THEOREM FieldsSurvive == Spec => []FaithfulFieldsSurvive
PROOF
<1>1. ASSUME IInv PROVE FaithfulFieldsSurvive
    <2>1. want # schema => out = << >>
        BY <1>1 DEF IInv, Foreign
    <2>2. Len(out) \in Nat /\ DOMAIN out = 1 .. Len(out)
        BY <1>1 DEF IInv, Typed
    <2>3. ASSUME NEW k \in DOMAIN out, \A i \in 1 .. k : Faithful(i), Offset(k) <= Len(data)
          PROVE  out[k] = msg[k]
        <3>1. want = schema
            BY <2>1, <2>3
        <3>2. k \in 0 .. Len(out) /\ k # 0
            BY <2>2
        <3>3. Readable(k)
            BY <2>3 DEF Readable
        <3> QED
            BY <1>1, <3>1, <3>2, <3>3 DEF IInv, Decoding
    <2> QED
        BY <2>1, <2>3 DEF FaithfulFieldsSurvive
<1> QED
    BY <1>1, Inductive, PTL

\* CutIsNoticed: decode_complete and the optional tail of shroom-pkt notice what is
\* missing of a packet.
THEOREM CutsAreNoticed == Spec => []CutIsNoticed
PROOF
<1>1. ASSUME IInv PROVE CutIsNoticed
    <2> SUFFICES ASSUME AllFaithful, sent, want = schema
                 PROVE  /\ status = "error" => IsMessage(schema) /\ Len(data) < 2
                        /\ Len(data) = Offset(Len(schema)) => status \in {"ok", "complete"}
                        /\ status = "complete" =>
                                Len(data) \in {Offset(Len(schema)), Offset(Len(schema) - 1)}
        BY DEF CutIsNoticed
    <2> DEFINE n == Len(schema)
    <2>1. /\ Holds(schema, msg) /\ schema \in Schemas /\ data \in Bytes /\ Len(msg) = n
          /\ Len(data) <= Offset(n)
        BY <1>1 DEF IInv, Typed, Holds, Sending
    <2>2. n \in Nat /\ n >= 1 /\ Len(data) \in Nat /\ DOMAIN msg = 1 .. n
        BY <2>1, SchemaIs, HoldsIs, LenData
    <2>3. Offset(n) \in Nat
        <3>1. n \in 0 .. Len(msg)
            BY <2>1, <2>2
        <3> QED
            BY <2>1, <3>1, EndIs, OffsetIs
    <2>4. /\ Len(out) = n => Offset(n) <= Len(data) \/ pos = Offset(n - 1)
          /\ status \in {"ok", "eof", "error", "complete", "leftover"}
          /\ status = "error" => IsMessage(schema) /\ Len(data) < 2
          /\ status = "eof" => Len(data) < Offset(n)
          /\ status \in {"complete", "leftover"} => Len(out) = n
          /\ status = "complete" => pos = Len(data)
          /\ status = "leftover" => pos # Len(data)
        BY <1>1 DEF IInv, Arriving
    <2>5. ASSUME Len(out) = n, Offset(n) <= Len(data) PROVE pos = Offset(n)
        <3>1. Readable(n)
            <4>1. \A i \in 1 .. n : Faithful(i)
                BY <2>2 DEF AllFaithful
            <4> QED
                BY <2>5, <4>1 DEF Readable
        <3>2. n \in 0 .. Len(out) /\ n = Len(out)
            BY <2>2, <2>5
        <3> HIDE DEF n
        <3> QED
            BY <1>1, <3>1, <3>2 DEF IInv, Decoding
    <2>6. Len(data) = Offset(n) => status # "error"
        <3> SUFFICES ASSUME status = "error", Len(data) = Offset(n) PROVE FALSE
            OBVIOUS
        <3>1. schema[1].kind = "opcode" /\ Len(data) < 2
            BY <2>4 DEF IsMessage
        <3> DEFINE k == 1
        <3>2. k \in 1 .. Len(msg) /\ k \in 0 .. Len(msg) /\ n \in 0 .. Len(msg) /\ k <= n /\ k - 1 = 0
              /\ schema[k].kind = "opcode" /\ k - 1 \in 0 .. Len(msg)
            BY <2>1, <2>2, <3>1
        <3> HIDE DEF k
        <3>3. schema[k] \in Field /\ Encode(schema[k], msg[k]) \in Bytes
            BY <2>1, <3>2, HoldsIs
        <3>4. Len(Encode(schema[k], msg[k])) = 2
            BY <3>2 DEF Encode, EncWord, Wrappers
        <3>5. Offset(k) = 2
            <4>1. Offset(k) = Offset(k - 1) + Len(Encode(schema[k], msg[k])) /\ Offset(0) = 0
                BY <2>1, <3>2, EndIs, OffsetIs
            <4> QED
                BY <3>2, <3>4, <4>1
        <3>6. Offset(k) <= Offset(n)
            <4> HIDE DEF n
            <4> QED
                BY <2>1, <3>2, EndIs, OffsetIs
        <3> QED
            BY <2>2, <2>3, <3>1, <3>5, <3>6
    <2> HIDE DEF n
    <2>7. Len(data) = Offset(n) => status \in {"ok", "complete"}
        BY <2>2, <2>3, <2>4, <2>5, <2>6
    <2>8. status = "complete" => Len(data) \in {Offset(n), Offset(n - 1)}
        BY <2>1, <2>2, <2>3, <2>4
    <2> QED
        BY <2>4, <2>7, <2>8 DEF n
<1> QED
    BY <1>1, Inductive, PTL

-----------------------------------------------------------------------------
(* The lengths that are computed beforehand *)

LEMMA HintType ==
    ASSUME NEW t \in Field
    PROVE  FieldHint(t) \in Nat \union {None}
    BY DEF Field, Kinds, Wrappers, FieldHint, Hint, BoxHint

\* A length known from the type is that of every value, a faithful one or not, but
\* for a box, whose hint is too small.
LEMMA HintIsExact ==
    ASSUME NEW t \in Field, NEW v \in Values(t), FieldHint(t) # None, t.kind # "box"
    PROVE  FieldHint(t) = Len(Encode(t, v))
PROOF
<1>0. t.kind \in Kinds /\ t.n \in Nat /\ FieldHint(t) = Hint(t) /\ Hint(t) # None
    BY DEF Field, FieldHint
<1>1. CASE t.kind = "unit"
    BY <1>0, <1>1 DEF Hint, Encode, Wrappers
<1>2. CASE t.kind = "bool"
    <2>1. Encode(t, v) = EncBool(v) /\ Hint(t) = 1
        BY <1>2 DEF Encode, Wrappers, Hint
    <2> QED
        BY <1>0, <2>1 DEF EncBool
<1>3. CASE t.kind = "byte"
    BY <1>0, <1>3 DEF Hint, Encode, EncByte, Wrappers
<1>4. CASE t.kind \in Wrappers \ {"allFlags"}
    <2>1. Encode(t, v) = EncByte(Into(t, v)) /\ Hint(t) = 1
        BY <1>4 DEF Encode, Wrappers, Hint
    <2> QED
        BY <1>0, <2>1 DEF EncByte
<1>5. CASE t.kind \in {"word", "opcode"}
    BY <1>0, <1>5 DEF Hint, Encode, EncWord, Wrappers
<1>6. CASE t.kind = "offset"
    <2>1. Encode(t, v) = EncBool(v < 0) \o EncByte(IF v < 0 THEN -v ELSE v) /\ Hint(t) = 2
        BY <1>6 DEF Encode, EncOffset, Wrappers, Hint
    <2> QED
        BY <1>0, <2>1 DEF EncBool, EncByte
<1>7. CASE t.kind = "pair"
    <2>1. Encode(t, v) = EncByte(v[1]) \o EncWord(v[2]) /\ Hint(t) = 3
        BY <1>7 DEF Encode, EncPair, Wrappers, Hint
    <2> QED
        BY <1>0, <2>1 DEF EncByte, EncWord
<1>8. CASE t.kind = "u128"
    <2>1. Encode(t, v) = EncBlocks(v) /\ Hint(t) = 4 /\ v \in [1 .. 4 -> Items]
        BY <1>8 DEF Encode, Wrappers, Hint, Values
    <2> QED
        BY <1>0, <2>1, BlocksType
<1>9. CASE t.kind = "fixed"
    <2>1. Encode(t, v) = EncFixed(v, t.n) /\ Hint(t) = t.n /\ v \in UpTo(Text, t.n)
        BY <1>9 DEF Encode, Wrappers, Hint, Values
    <2> QED
        BY <1>0, <2>1, FixedType
<1>10. CASE t.kind = "padding"
    <2>1. Encode(t, v) = v /\ Hint(t) = t.n /\ v \in [1 .. t.n -> Byte]
        BY <1>10 DEF Encode, EncPadding, Wrappers, Hint, Values
    <2> QED
        BY <1>0, <2>1, FcnIsBytes
<1>11. CASE t.kind = "paddingZ"
    <2>1. Encode(t, v) = [i \in 1 .. t.n |-> 0] /\ Hint(t) = t.n
        BY <1>11 DEF Encode, EncPadding, Wrappers, Hint
    <2>2. [i \in 1 .. t.n |-> 0] \in [1 .. t.n -> Byte]
        BY BaseIs
    <2> QED
        BY <1>0, <2>1, <2>2, FcnIsBytes
<1>12. CASE t.kind = "array"
    <2>1. Encode(t, v) = v /\ Hint(t) = 1 * t.n /\ v \in [1 .. t.n -> Items]
        BY <1>12 DEF Encode, EncArray, Wrappers, Hint, Values
    <2>2. v \in [1 .. t.n -> Byte]
        BY <2>1, ItemsAreBytes
    <2> QED
        BY <1>0, <2>1, <2>2, FcnIsBytes
<1>13. \/ t.kind \in {"unit", "bool", "byte", "word", "opcode", "offset", "pair", "u128", "fixed",
                      "padding", "paddingZ", "array"}
       \/ t.kind \in Wrappers \ {"allFlags"}
    BY <1>0, Zenon DEF Hint, BoxHint
<1> QED
    BY <1>1, <1>2, <1>3, <1>4, <1>5, <1>6, <1>7, <1>8, <1>9, <1>10, <1>11, <1>12, <1>13

\* encode_len counts what encode writes, but for an index list and a box.
LEMMA LengthIsExact ==
    ASSUME NEW t \in Field, NEW v \in Values(t), NEW prev, Suits(t, v, prev),
           t.kind \notin Miscounted
    PROVE  EncodeLen(t, v, prev) = Len(Encode(t, v))
PROOF
<1>0. t.kind \notin {"index", "indexZ"} /\ t.kind # "box"
    BY DEF Miscounted
<1>1. CASE FieldHint(t) # None
    <2>0. t.kind \notin {"str", "limited", "index", "indexZ", "cond"}
        BY <1>1 DEF FieldHint, Hint, Wrappers
    <2>1. EncodeLen(t, v, prev) = FieldHint(t)
        BY <1>1, <2>0 DEF EncodeLen
    <2> QED
        BY <1>0, <1>1, <2>1, HintIsExact
<1>2. CASE t.kind \in {"str", "limited"}
    <2>1. FieldHint(t) = None
        BY <1>2 DEF FieldHint, Hint, Wrappers
    <2>2. EncodeLen(t, v, prev) = 2 + Len(v)
        BY <1>2, <2>1 DEF EncodeLen, StringLen
    <2>3. Encode(t, v) = EncWord(Len(v)) \o v
        BY <1>2 DEF Encode, Wrappers, EncString
    <2>4. v \in Bytes /\ Len(v) \in Int
        BY <1>2, TextType
    <2>5. EncWord(Len(v)) \in Bytes /\ Len(EncWord(Len(v))) = 2
        BY <2>4, EncWordType
    <2> QED
        BY <2>2, <2>3, <2>4, <2>5, JoinType
<1>3. CASE t.kind = "cond"
    <2>1. FieldHint(t) = None /\ Encode(t, v) = EncCond(v)
        BY <1>3 DEF FieldHint, Encode, Wrappers
    <2>2. EncodeLen(t, v, prev) = CondLen(prev, v)
        BY <1>3, <2>1 DEF EncodeLen
    <2>3. prev \in BOOLEAN /\ (v # None) = prev
        BY <1>3, Zenon DEF Suits
    <2>4. CASE v = None
        <3>1. prev = FALSE
            BY <2>3, <2>4
        <3>2. CondLen(prev, v) = 0
            BY <3>1 DEF CondLen
        <3> QED
            BY <2>1, <2>2, <2>4, <3>2 DEF EncCond
    <2>5. CASE v # None
        <3>1. prev = TRUE
            BY <2>3, <2>5
        <3> QED
            BY <2>1, <2>2, <3>1 DEF CondLen
    <2> QED
        BY <2>4, <2>5
<1>4. CASE FieldHint(t) = None /\ t.kind \notin {"str", "limited", "cond"}
    BY <1>0, <1>4 DEF EncodeLen
<1> QED
    BY <1>1, <1>2, <1>3, <1>4

\* SizeHint is the sum of its fields' lengths when it is known.
LEMMA SizeHintIs ==
    ASSUME NEW s \in Schemas, NEW f \in [1 .. Len(s) -> Nat],
           \A k \in 1 .. Len(s) : FieldHint(s[k]) # None => FieldHint(s[k]) = f[k],
           SizeHint(s) # None
    PROVE  SizeHint(s) = Total(f, Len(s))
PROOF
<1> DEFINE n == Len(s)
           h == [k \in 1 .. n |-> FieldHint(s[k])]
           V == Nat \union {None}
           D == 0 .. n
           rank == [i \in D |-> i]
           step == [i \in D |-> [g \in [D -> V] |-> IF i = 0 THEN 0 ELSE AddHint(g[i - 1], h[i])]]
<1>1. n \in Nat /\ f \in [1 .. n -> Nat]
    BY SchemaIs
<1>2. h \in [1 .. n -> V] /\ \A k \in 1 .. n : (h[k] # None => h[k] = f[k]) /\ h[k] = FieldHint(s[k])
    <2>1. \A k \in 1 .. n : FieldHint(s[k]) \in V
        BY SchemaIs, HintType
    <2> QED
        BY <2>1
<1>3. \A a, b \in V : AddHint(a, b) \in V
    BY DEF AddHint
<1>4. ASSUME NEW i \in D, i # 0 PROVE i - 1 \in D /\ i \in 1 .. n /\ i - 1 < i
    BY <1>1, <1>4
<1>5. rank \in [D -> 0 .. n] /\ \A i \in D : rank[i] = i
    OBVIOUS
<1> HIDE DEF h, n
<1>6. step \in [D -> [[D -> V] -> V]]
    <2> SUFFICES ASSUME NEW i \in D, NEW g \in [D -> V]
                 PROVE  (IF i = 0 THEN 0 ELSE AddHint(g[i - 1], h[i])) \in V
        OBVIOUS
    <2>1. CASE i = 0
        BY <2>1
    <2>2. CASE i # 0
        <3>1. g[i - 1] \in V /\ h[i] \in V
            BY <1>2, <1>4, <2>2
        <3> QED
            BY <1>3, <2>2, <3>1
    <2> QED
        BY <2>1, <2>2
<1>7. \A i \in D : \A g \in [D -> V] : step[i][g] = IF i = 0 THEN 0 ELSE AddHint(g[i - 1], h[i])
    OBVIOUS
<1> HIDE DEF D, rank, step, V
<1>8. Local(D, rank, V, step)
    <2> SUFFICES ASSUME NEW i \in D, NEW g \in [D -> V], NEW g2 \in [D -> V],
                        \A j \in D : rank[j] < rank[i] => g[j] = g2[j]
                 PROVE  step[i][g] = step[i][g2]
        BY DEF Local
    <2>1. i # 0 => g[i - 1] = g2[i - 1]
        BY <1>4, <1>5
    <2> QED
        BY <1>7, <2>1
<1>9. Recursive(D, n, rank, V, step)
    BY <1>1, <1>5, <1>6, <1>8 DEF Recursive, V
<1>10. PICK F \in [D -> V] : \A i \in D : F[i] = step[i][F]
    BY <1>9, RecursionExists
<1>11. \A i \in D : F[i] \in V /\ F[i] = IF i = 0 THEN 0 ELSE AddHint(F[i - 1], h[i])
    BY <1>7, <1>10
<1>12. SizeHint(s) = F[n]
    <2> DEFINE Def(g) == g = [i \in 0 .. n |-> IF i = 0 THEN 0 ELSE AddHint(g[i - 1], FieldHint(s[i]))]
               G == CHOOSE g : Def(g)
               S == {i \in 0 .. n : G[i] = F[i]}
    <2>1. F = [i \in 0 .. n |-> IF i = 0 THEN 0 ELSE AddHint(F[i - 1], FieldHint(s[i]))]
        <3>1. \A i \in 0 .. n : F[i] = IF i = 0 THEN 0 ELSE AddHint(F[i - 1], FieldHint(s[i]))
            BY <1>2, <1>4, <1>11 DEF D
        <3> QED
            BY <3>1 DEF D
    <2>2. Def(G)
        <3>1. Def(F)
            BY <2>1
        <3> HIDE DEF Def
        <3> QED
            BY <3>1, Zenon
    <2>3. \A i \in 0 .. n : G[i] = IF i = 0 THEN 0 ELSE AddHint(G[i - 1], FieldHint(s[i]))
        <3> HIDE DEF G
        <3> QED
            BY <2>2
    <2>4. SizeHint(s) = G[n]
        BY DEF SizeHint, n
    <2>5. \A i \in 0 .. n : F[i] = IF i = 0 THEN 0 ELSE AddHint(F[i - 1], FieldHint(s[i]))
        BY <1>2, <1>4, <1>11 DEF D
    <2> HIDE DEF G
    <2>6. 0 \in S
        BY <1>1, <2>3, <2>5
    <2>7. ASSUME NEW i \in 0 .. n - 1, i \in S PROVE i + 1 \in S
        <3>1. i + 1 \in 0 .. n /\ i + 1 # 0 /\ (i + 1) - 1 = i
            BY <1>1
        <3>2. G[i] = F[i]
            BY <2>7
        <3> QED
            BY <2>3, <2>5, <3>1, <3>2
    <2> HIDE DEF S
    <2>8. \A i \in 0 .. n : i \in S
        BY <1>1, <2>6, <2>7, UpToInSet
    <2>9. n \in S
        BY <1>1, <2>8
    <2> QED
        BY <2>4, <2>9 DEF S
<1>13. \A k \in 0 .. n : /\ Total(f, k) \in Nat
                         /\ Total(f, k) = IF k = 0 THEN 0 ELSE Total(f, k - 1) + f[k]
    BY <1>1, TotalIs
<1> DEFINE S == {k \in 0 .. n : F[k] # None => F[k] = Total(f, k)}
<1>14. 0 \in S
    BY <1>1, <1>11, <1>13 DEF D
<1>15. ASSUME NEW k \in 0 .. n - 1, k \in S PROVE k + 1 \in S
    <2>1. k + 1 \in 0 .. n /\ k + 1 # 0 /\ (k + 1) - 1 = k /\ k + 1 \in 1 .. n /\ k \in 0 .. n
        BY <1>1
    <2>2. F[k + 1] = AddHint(F[k], h[k + 1])
        BY <1>11, <2>1 DEF D
    <2>3. F[k] # None => F[k] = Total(f, k)
        BY <1>15
    <2>4. Total(f, k + 1) = Total(f, k) + f[k + 1]
        BY <1>13, <2>1
    <2>5. h[k + 1] # None => h[k + 1] = f[k + 1]
        BY <1>2, <2>1
    <2> QED
        BY <2>1, <2>2, <2>3, <2>4, <2>5 DEF AddHint
<1> HIDE DEF S
<1>16. \A k \in 0 .. n : k \in S
    BY <1>1, <1>14, <1>15, UpToInSet
<1>17. n \in S
    BY <1>1, <1>16
<1> QED
    BY <1>12, <1>17 DEF S, n

\* LengthsAreExact: for a packet without an index list and a box SIZE_HINT is the
\* length of every packet of its type, and encode_len that of a faithful one.
THEOREM LengthsAreTrue == Spec => []LengthsAreExact
PROOF
<1>1. ASSUME IInv PROVE LengthsAreExact
    <2> SUFFICES ASSUME ~sent, Len(msg) = Len(schema),
                        \A k \in DOMAIN schema : schema[k].kind \notin Miscounted
                 PROVE  /\ SizeHint(schema) # None => Len(data) = SizeHint(schema)
                        /\ EncodeLenExact
        BY DEF LengthsAreExact
    <2> DEFINE n == Len(msg)
               f == [i \in DOMAIN msg |-> Len(Encode(schema[i], msg[i]))]
    <2>1. Holds(schema, msg) /\ schema \in Schemas /\ Len(data) = Offset(n)
        BY <1>1 DEF IInv, Typed, Holds, Sending
    <2>2. /\ n \in Nat /\ DOMAIN msg = 1 .. n /\ DOMAIN schema = 1 .. n
          /\ f \in [1 .. n -> Nat]
          /\ \A k \in 1 .. n : schema[k] \in Field /\ msg[k] \in Values(schema[k])
        BY <2>1, HoldsIs, SchemaIs
    <2>3. \A k \in 1 .. n : f[k] = Len(Encode(schema[k], msg[k]))
        BY <2>2
    <2>4. Len(data) = Total(f, n)
        BY <2>1 DEF Offset
    <2>5. SizeHint(schema) # None => Len(data) = SizeHint(schema)
        <3>1. \A k \in 1 .. Len(schema) : FieldHint(schema[k]) # None => FieldHint(schema[k]) = f[k]
            BY <2>2, <2>3, HintIsExact DEF Miscounted
        <3>2. f \in [1 .. Len(schema) -> Nat]
            BY <2>2
        <3> HIDE DEF f
        <3> QED
            BY <2>1, <2>4, <3>1, <3>2, SizeHintIs
    <2>6. ASSUME AllFaithful
          PROVE  Len(data) = PacketLen
        <3> DEFINE g == [i \in DOMAIN msg |-> EncodeLen(schema[i], msg[i], IF i = 1 THEN None ELSE msg[i - 1])]
        <3>1. ASSUME NEW k \in 1 .. n
              PROVE  EncodeLen(schema[k], msg[k], IF k = 1 THEN None ELSE msg[k - 1]) = f[k]
            <4>1. Faithful(k)
                BY <2>2, <2>6 DEF AllFaithful
            <4>2. Suits(schema[k], msg[k], IF k = 1 THEN None ELSE msg[k - 1])
                BY <2>1, <4>1, FaithfulSuits
            <4>3. schema[k] \in Field /\ msg[k] \in Values(schema[k])
                BY <2>2
            <4>4. schema[k].kind \notin Miscounted
                BY <2>2
            <4> QED
                BY <2>3, <4>2, <4>3, <4>4, LengthIsExact
        <3>2. g = f
            BY <2>2, <3>1
        <3>3. PacketLen = Total(g, n)
            BY DEF PacketLen
        <3> QED
            BY <2>4, <3>2, <3>3
    <2> QED
        BY <2>5, <2>6 DEF EncodeLenExact
<1> QED
    BY <1>1, Inductive, PTL

=============================================================================
