---------------------------- MODULE DataInduction ----------------------------
(***************************************************************************)
(* Induction over data for the proof modules: what a recursive function    *)
(* computes for every argument.  The induction principles of the library   *)
(* take a predicate as an operator; these take sets and functions, which   *)
(* are terms, so that a proof can use them for its own.                    *)
(***************************************************************************)
EXTENDS Integers, Sequences, WellFoundedInduction, TLAPS
Ext == INSTANCE SequencesExt

-----------------------------------------------------------------------------
(* Induction *)

\* Every nonempty set of naturals has a least element.
LEMMA LeastNat ==
    ASSUME NEW T, T \subseteq Nat, T # {}
    PROVE  \E x \in T : \A y \in T : x <= y
PROOF
<1> DEFINE R == OpToRel(<, Nat)
<1>1. IsWellFoundedOn(R, Nat)
    BY NatLessThanWellFounded
<1>2. \A x, y \in Nat : <<x, y>> \in R <=> x < y
    BY DEF OpToRel
<1> HIDE DEF R
<1>3. PICK x \in T : \A y \in T : ~ (<<y, x>> \in R)
    BY <1>1, WFMin
<1>4. ASSUME NEW y \in T PROVE x <= y
    <2>1. x \in Nat /\ y \in Nat /\ ~(<<y, x>> \in R)
        BY <1>3
    <2>2. ~(y < x)
        BY <1>2, <2>1
    <2> QED
        BY <2>1, <2>2
<1> QED
    BY <1>4

\* A set that has 0 and with every n also n + 1 has every natural.
LEMMA NatInSet ==
    ASSUME NEW S, 0 \in S, \A n \in Nat : n \in S => n + 1 \in S
    PROVE  \A n \in Nat : n \in S
PROOF
<1> DEFINE T == Nat \ S
<1> SUFFICES ASSUME T # {} PROVE FALSE
    OBVIOUS
<1>1. T \subseteq Nat
    OBVIOUS
<1> HIDE DEF T
<1>2. PICK x \in T : \A y \in T : x <= y
    BY <1>1, LeastNat
<1>3. x # 0 /\ x \in Nat /\ x \notin S
    BY DEF T
<1>4. x - 1 \in Nat /\ x - 1 < x
    BY <1>3
<1>5. x - 1 \in S
    BY <1>2, <1>4 DEF T
<1> QED
    BY <1>3, <1>4, <1>5

\* The same for the naturals up to a bound.
LEMMA UpToInSet ==
    ASSUME NEW N \in Nat, NEW S, 0 \in S, \A n \in 0 .. N - 1 : n \in S => n + 1 \in S
    PROVE  \A n \in 0 .. N : n \in S
PROOF
<1> DEFINE T == {n \in Nat : n <= N => n \in S}
<1>1. 0 \in T
    OBVIOUS
<1>2. ASSUME NEW n \in Nat, n \in T PROVE n + 1 \in T
    BY <1>2
<1> HIDE DEF T
<1>3. \A n \in Nat : n \in T
    BY <1>1, <1>2, NatInSet
<1> QED
    BY <1>3 DEF T

-----------------------------------------------------------------------------
(* Recursive functions *)

\* step makes the value at i of the values of a lower rank only.
Local(D, rank, V, step) ==
    \A i \in D : \A g, h \in [D -> V] :
        (\A j \in D : rank[j] < rank[i] => g[j] = h[j]) => step[i][g] = step[i][h]

\* A definition by recursion of a function from D to V.
Recursive(D, N, rank, V, step) ==
    /\ N \in Nat
    /\ rank \in [D -> 0 .. N]
    /\ V # {}
    /\ step \in [D -> [[D -> V] -> V]]
    /\ Local(D, rank, V, step)

\* There is such a function, and there is one only.
LEMMA RecursionExists ==
    ASSUME NEW D, NEW N, NEW rank, NEW V, NEW step, Recursive(D, N, rank, V, step)
    PROVE  \E f \in [D -> V] : \A i \in D : f[i] = step[i][f]
PROOF
<1> USE DEF Recursive
<1> DEFINE Up(n, f) == \A i \in D : rank[i] < n => f[i] = step[i][f]
           S == {n \in Nat : \E f \in [D -> V] : Up(n, f)}
<1>1. 0 \in S
    <2>1. PICK v0 \in V : TRUE
        OBVIOUS
    <2>2. [i \in D |-> v0] \in [D -> V]
        OBVIOUS
    <2>3. Up(0, [i \in D |-> v0])
        OBVIOUS
    <2> QED
        BY <2>2, <2>3
<1>2. ASSUME NEW n \in Nat, n \in S PROVE n + 1 \in S
    <2>1. PICK f \in [D -> V] : Up(n, f)
        BY <1>2
    <2> DEFINE g == [i \in D |-> IF rank[i] = n THEN step[i][f] ELSE f[i]]
    <2>2. g \in [D -> V]
        OBVIOUS
    <2>3. ASSUME NEW i \in D, rank[i] < n + 1 PROVE g[i] = step[i][g]
        <3>1. \A j \in D : rank[j] < rank[i] => f[j] = g[j]
            BY <2>3
        <3>2. step[i][f] = step[i][g]
            BY <2>2, <3>1 DEF Local
        <3>3. rank[i] \in 0 .. N /\ (rank[i] = n \/ rank[i] < n)
            <4>1. \A r \in 0 .. N : r < n + 1 => r = n \/ r < n
                OBVIOUS
            <4>2. rank[i] \in 0 .. N
                OBVIOUS
            <4> QED
                BY <2>3, <4>1, <4>2, Zenon
        <3>4. rank[i] < n => f[i] = step[i][f]
            BY <2>1
        <3>5. g[i] = step[i][f]
            BY <3>3, <3>4
        <3> QED
            BY <3>2, <3>5
    <2> HIDE DEF g
    <2>4. \A i \in D : rank[i] < n + 1 => g[i] = step[i][g]
        BY <2>3
    <2>5. Up(n + 1, g)
        BY <2>4
    <2> QED
        BY <2>2, <2>5
<1> HIDE DEF S
<1>3. N + 1 \in S
    BY <1>1, <1>2, NatInSet
<1>4. PICK f \in [D -> V] : Up(N + 1, f)
    BY <1>3 DEF S
<1>5. \A i \in D : f[i] = step[i][f]
    BY <1>4
<1> QED
    BY <1>5

LEMMA RecursionUnique ==
    ASSUME NEW D, NEW N, NEW rank, NEW V, NEW step, Recursive(D, N, rank, V, step),
           NEW f \in [D -> V], NEW g \in [D -> V],
           \A i \in D : f[i] = step[i][f], \A i \in D : g[i] = step[i][g]
    PROVE  f = g
PROOF
<1> USE DEF Recursive
<1> DEFINE S == {n \in Nat : \A i \in D : rank[i] < n => f[i] = g[i]}
<1>1. 0 \in S
    OBVIOUS
<1>2. ASSUME NEW n \in Nat, n \in S PROVE n + 1 \in S
    <2> SUFFICES ASSUME NEW i \in D, rank[i] < n + 1 PROVE f[i] = g[i]
        OBVIOUS
    <2>1. \A j \in D : rank[j] < rank[i] => f[j] = g[j]
        BY <1>2
    <2> QED
        BY <2>1 DEF Local
<1> HIDE DEF S
<1>3. N + 1 \in S
    BY <1>1, <1>2, NatInSet
<1> QED
    BY <1>3 DEF S

\* A definition by recursion of a function of the naturals up to N, from what lies
\* below.
RecursiveBelow(N, V, step) ==
    /\ N \in Nat
    /\ V # {}
    /\ step \in [0 .. N -> [[0 .. N -> V] -> V]]
    /\ \A i \in 0 .. N : \A g, h \in [0 .. N -> V] :
            (\A j \in 0 .. N : j < i => g[j] = h[j]) => step[i][g] = step[i][h]

LEMMA RecursionBelow ==
    ASSUME NEW N, NEW V, NEW step, RecursiveBelow(N, V, step)
    PROVE  \E f \in [0 .. N -> V] : \A i \in 0 .. N : f[i] = step[i][f]
PROOF
<1> DEFINE D == 0 .. N
           rank == [i \in D |-> i]
<1>1. rank \in [D -> 0 .. N] /\ \A i \in D : rank[i] = i
    OBVIOUS
<1>2. N \in Nat /\ V # {} /\ step \in [D -> [[D -> V] -> V]]
    BY DEF RecursiveBelow
<1>3. \A i \in D : \A g, h \in [D -> V] :
            (\A j \in D : j < i => g[j] = h[j]) => step[i][g] = step[i][h]
    BY DEF RecursiveBelow
<1> HIDE DEF D, rank
<1>4. Local(D, rank, V, step)
    <2> SUFFICES ASSUME NEW i \in D, NEW g \in [D -> V], NEW h \in [D -> V],
                        \A j \in D : rank[j] < rank[i] => g[j] = h[j]
                 PROVE  step[i][g] = step[i][h]
        BY DEF Local
    <2>1. \A j \in D : j < i => g[j] = h[j]
        BY <1>1
    <2> QED
        BY <1>3, <2>1
<1>5. Recursive(D, N, rank, V, step)
    BY <1>1, <1>2, <1>4 DEF Recursive
<1>6. \E f \in [D -> V] : \A i \in D : f[i] = step[i][f]
    BY <1>5, RecursionExists
<1> QED
    BY <1>6 DEF D

-----------------------------------------------------------------------------
(* Numbers and sequences *)

\* A number that fits is not cut.
LEMMA NotCut ==
    ASSUME NEW b \in Nat, NEW a \in Nat, a < b
    PROVE  a % b = a
PROOF
<1> DEFINE q == a \div b
           r == a % b
<1>1. a = b * q + r /\ r \in 0 .. b - 1 /\ q \in Int
    OBVIOUS
<1> HIDE DEF q, r
<1>2. ASSUME q >= 1 PROVE FALSE
    <2>1. b * q >= b * 1
        BY <1>1, <1>2
    <2> QED
        BY <1>1, <2>1
<1>3. ASSUME q <= -1 PROVE FALSE
    <2>1. b * q <= b * (-1)
        BY <1>1, <1>3
    <2> QED
        BY <1>1, <2>1
<1>4. q = 0
    BY <1>1, <1>2, <1>3
<1>5. b * q = 0
    BY <1>4
<1> QED
    BY <1>1, <1>5 DEF r

\* Sequences that are given by their length and their elements.
LEMMA SeqIs ==
    ASSUME NEW S, NEW n \in Nat, NEW f \in [1 .. n -> S]
    PROVE  f \in Seq(S) /\ Len(f) = n
    OBVIOUS

LEMMA SeqEqual ==
    ASSUME NEW S, NEW a \in Seq(S), NEW b \in Seq(S), Len(a) = Len(b),
           \A i \in 1 .. Len(a) : a[i] = b[i]
    PROVE  a = b
    OBVIOUS

LEMMA Joined ==
    ASSUME NEW S, NEW a \in Seq(S), NEW b \in Seq(S)
    PROVE  /\ a \o b \in Seq(S) /\ Len(a \o b) = Len(a) + Len(b)
           /\ \A i \in 1 .. Len(a) : (a \o b)[i] = a[i]
           /\ \A i \in 1 .. Len(b) : (a \o b)[Len(a) + i] = b[i]
    OBVIOUS

\* One more element in front.
LEMMA Prepended ==
    ASSUME NEW S, NEW j \in Nat, NEW g \in [1 .. j + 1 -> S]
    PROVE  <<g[1]>> \o [k \in 1 .. j |-> g[k + 1]] = g
PROOF
<1> DEFINE h == [k \in 1 .. j |-> g[k + 1]]
           a == <<g[1]>>
<1>1. \A k \in 1 .. j : k + 1 \in 1 .. j + 1
    OBVIOUS
<1>2. h \in [1 .. j -> S]
    BY <1>1
<1>3. g[1] \in S
    <2>1. 1 \in 1 .. j + 1
        OBVIOUS
    <2> QED
        BY <2>1
<1>4. a \in Seq(S) /\ Len(a) = 1 /\ a[1] = g[1]
    BY <1>3
<1>5. h \in Seq(S) /\ Len(h) = j /\ \A k \in 1 .. j : h[k] = g[k + 1]
    BY <1>2, SeqIs
<1> HIDE DEF a, h
<1>6. /\ a \o h \in Seq(S) /\ Len(a \o h) = 1 + j
      /\ \A i \in 1 .. 1 : (a \o h)[i] = a[i]
      /\ \A i \in 1 .. j : (a \o h)[1 + i] = h[i]
    <2>1. /\ a \o h \in Seq(S) /\ Len(a \o h) = Len(a) + Len(h)
          /\ \A i \in 1 .. Len(a) : (a \o h)[i] = a[i]
          /\ \A i \in 1 .. Len(h) : (a \o h)[Len(a) + i] = h[i]
        <3>1. a \in Seq(S) /\ h \in Seq(S)
            BY <1>4, <1>5
        <3> QED
            BY <3>1, Joined
    <2> QED
        BY <1>4, <1>5, <2>1
<1>7. g \in Seq(S) /\ Len(g) = j + 1
    <2>1. j + 1 \in Nat
        OBVIOUS
    <2> QED
        BY <2>1, SeqIs
<1>8. ASSUME NEW i \in 1 .. j + 1 PROVE (a \o h)[i] = g[i]
    <2>1. CASE i = 1
        BY <1>4, <1>6, <2>1
    <2>2. CASE i # 1
        <3>1. i - 1 \in 1 .. j /\ 1 + (i - 1) = i /\ (i - 1) + 1 = i
            BY <2>2
        <3> QED
            BY <1>5, <1>6, <3>1
    <2> QED
        BY <2>1, <2>2
<1>9. Len(a \o h) = j + 1
    BY <1>6
<1>10. a \o h = g
    BY <1>6, <1>7, <1>8, <1>9, SeqEqual
<1> QED
    BY <1>10 DEF a, h

\* A part of a sequence.
LEMMA PartOf ==
    ASSUME NEW S, NEW b \in Seq(S), NEW i \in 0 .. Len(b), NEW l \in 0 .. Len(b) - i
    PROVE  /\ SubSeq(b, i + 1, i + l) \in Seq(S)
           /\ Len(SubSeq(b, i + 1, i + l)) = l
           /\ \A j \in 1 .. l : SubSeq(b, i + 1, i + l)[j] = b[i + j]
PROOF
<1> DEFINE x == i + 1
           y == i + l
<1>1. /\ x \in Int /\ y \in Int /\ 1 <= x /\ y <= Len(b) /\ x <= y + 1
      /\ y - x + 1 = l /\ \A j \in 1 .. l : x + j - 1 = i + j
    OBVIOUS
<1> HIDE DEF x, y
<1>2. /\ SubSeq(b, x, y) \in Seq(S)
      /\ Len(SubSeq(b, x, y)) = y - x + 1
      /\ \A j \in 1 .. y - x + 1 : SubSeq(b, x, y)[j] = b[x + j - 1]
    BY <1>1
<1> QED
    BY <1>1, <1>2 DEF x, y

LEMMA ShortSeqs ==
    ASSUME NEW S, NEW a \in S, NEW b \in S
    PROVE  /\ <<a>> \in Seq(S) /\ Len(<<a>>) = 1 /\ <<a>>[1] = a
           /\ <<a, b>> \in Seq(S) /\ Len(<<a, b>>) = 2 /\ <<a, b>>[1] = a /\ <<a, b>>[2] = b
           /\ << >> \in Seq(S) /\ Append(<< >>, a) = <<a>> /\ Append(<<a>>, b) = <<a, b>>
PROOF
<1>1. <<a>> \in Seq(S) /\ Len(<<a>>) = 1 /\ <<a>>[1] = a
    OBVIOUS
<1>2. <<a, b>> \in Seq(S) /\ Len(<<a, b>>) = 2
    OBVIOUS
<1>3. <<a, b>>[1] = a /\ <<a, b>>[2] = b
    OBVIOUS
<1>4. << >> \in Seq(S)
    OBVIOUS
<1>5. Append(<< >>, a) = <<a>>
    OBVIOUS
<1>6. Append(<<a>>, b) = <<a, b>>
    <2> DEFINE p == <<a>>
               q == <<a, b>>
               r == Append(p, b)
    <2>1. p \in Seq(S) /\ Len(p) = 1 /\ p[1] = a
        BY <1>1
    <2>2. q \in Seq(S) /\ Len(q) = 2 /\ q[1] = a /\ q[2] = b
        BY <1>2, <1>3
    <2> HIDE DEF p, q
    <2>3. r \in Seq(S) /\ Len(r) = 2 /\ r[1] = a /\ r[2] = b
        <3>1. /\ r \in Seq(S) /\ Len(r) = Len(p) + 1 /\ r[Len(p) + 1] = b
              /\ \A i \in 1 .. Len(p) : r[i] = p[i]
            BY <2>1
        <3> HIDE DEF r
        <3> QED
            BY <2>1, <3>1
    <2> HIDE DEF r
    <2>4. \A i \in 1 .. 2 : r[i] = q[i]
        <3>1. \A i \in 1 .. 2 : i = 1 \/ i = 2
            OBVIOUS
        <3> QED
            BY <2>2, <2>3, <3>1
    <2>5. r = q
        BY <2>2, <2>3, <2>4, SeqEqual
    <2> QED
        BY <2>5 DEF p, q, r
<1> QED
    BY <1>1, <1>2, <1>3, <1>4, <1>5, <1>6

LEMMA AppendIs ==
    ASSUME NEW S, NEW s \in Seq(S), NEW x \in S
    PROVE  Append(s, x) = [k \in 1 .. Len(s) + 1 |-> IF k = Len(s) + 1 THEN x ELSE s[k]]
PROOF
<1> DEFINE a == Append(s, x)
           n == Len(s) + 1
           g == [k \in 1 .. n |-> IF k = n THEN x ELSE s[k]]
<1>1. /\ a \in Seq(S) /\ Len(a) = n /\ n \in Nat /\ a[n] = x
      /\ \A k \in 1 .. n : k # n => a[k] = s[k]
    OBVIOUS
<1>2. \A k \in 1 .. n : k # n => s[k] \in S
    OBVIOUS
<1>3. g \in [1 .. n -> S] /\ \A k \in 1 .. n : g[k] = IF k = n THEN x ELSE s[k]
    BY <1>2
<1> HIDE DEF a, g, n
<1>4. g \in Seq(S) /\ Len(g) = n
    BY <1>1, <1>3, SeqIs
<1>5. a = g
    BY <1>1, <1>3, <1>4, SeqEqual
<1> QED
    BY <1>5 DEF a, g, n

\* A sequence taken apart and joined again.
LEMMA FcnJoined ==
    ASSUME NEW S, NEW m \in Nat, NEW n \in Nat, NEW f, \A j \in 1 .. m + n : f[j] \in S
    PROVE  [j \in 1 .. m |-> f[j]] \o [i \in 1 .. n |-> f[m + i]] = [j \in 1 .. m + n |-> f[j]]
PROOF
<1> DEFINE a == [j \in 1 .. m |-> f[j]]
           b == [i \in 1 .. n |-> f[m + i]]
           c == [j \in 1 .. m + n |-> f[j]]
           w == a \o b
<1>1. a \in [1 .. m -> S] /\ c \in [1 .. m + n -> S]
    OBVIOUS
<1>2. b \in [1 .. n -> S]
    <2>1. \A i \in 1 .. n : m + i \in 1 .. m + n
        OBVIOUS
    <2> QED
        BY <2>1
<1>3. /\ \A j \in 1 .. m : a[j] = f[j]
      /\ \A i \in 1 .. n : b[i] = f[m + i]
      /\ \A j \in 1 .. m + n : c[j] = f[j]
    OBVIOUS
<1> HIDE DEF a, b, c
<1>4. /\ a \in Seq(S) /\ Len(a) = m
      /\ b \in Seq(S) /\ Len(b) = n
      /\ c \in Seq(S) /\ Len(c) = m + n
    <2>1. m + n \in Nat
        OBVIOUS
    <2> QED
        BY <1>1, <1>2, <2>1, SeqIs
<1>5. /\ w \in Seq(S) /\ Len(w) = m + n
      /\ \A i \in 1 .. m : w[i] = a[i]
      /\ \A i \in 1 .. n : w[m + i] = b[i]
    <2>1. a \in Seq(S) /\ b \in Seq(S)
        BY <1>4
    <2>2. /\ w \in Seq(S) /\ Len(w) = Len(a) + Len(b)
          /\ \A q \in 1 .. Len(a) : w[q] = a[q]
          /\ \A q \in 1 .. Len(b) : w[Len(a) + q] = b[q]
        BY <2>1, Joined
    <2> HIDE DEF w
    <2> QED
        BY <1>4, <2>2
<1> HIDE DEF w
<1>6. ASSUME NEW i \in 1 .. m + n PROVE w[i] = c[i]
    <2>1. CASE i <= m
        BY <1>3, <1>5, <2>1
    <2>2. CASE i > m
        <3>1. i - m \in 1 .. n /\ m + (i - m) = i
            BY <2>2
        <3> QED
            BY <1>3, <1>5, <3>1
    <2> QED
        BY <2>1, <2>2
<1>7. w = c
    BY <1>4, <1>5, <1>6, SeqEqual
<1> QED
    BY <1>7 DEF a, b, c, w

LEMMA FcnCut ==
    ASSUME NEW S, NEW n \in Nat, NEW k \in 0 .. n, NEW f, \A j \in 1 .. n : f[j] \in S
    PROVE  SubSeq([j \in 1 .. n |-> f[j]], 1, k) = [j \in 1 .. k |-> f[j]]
PROOF
<1> DEFINE a == [j \in 1 .. n |-> f[j]]
           c == [j \in 1 .. k |-> f[j]]
           p == SubSeq(a, 0 + 1, 0 + k)
           z == 0
<1>1. a \in [1 .. n -> S] /\ c \in [1 .. k -> S] /\ k \in Nat
    OBVIOUS
<1>2. (\A j \in 1 .. n : a[j] = f[j]) /\ (\A j \in 1 .. k : c[j] = f[j])
    OBVIOUS
<1> HIDE DEF a, c
<1>3. a \in Seq(S) /\ Len(a) = n /\ c \in Seq(S) /\ Len(c) = k
    BY <1>1, SeqIs
<1>4. SubSeq(a, z + 1, z + k) \in Seq(S) /\ Len(SubSeq(a, z + 1, z + k)) = k
      /\ \A j \in 1 .. k : SubSeq(a, z + 1, z + k)[j] = a[z + j]
    <2>1. z \in 0 .. Len(a) /\ k \in 0 .. Len(a) - z
        BY <1>3
    <2> HIDE DEF z
    <2> QED
        BY <1>3, <2>1, PartOf
<1> HIDE DEF p
<1>5. p \in Seq(S) /\ Len(p) = k /\ \A j \in 1 .. k : p[j] = a[j]
    <2>1. \A j \in 1 .. k : z + j = j
        OBVIOUS
    <2>2. p = SubSeq(a, z + 1, z + k)
        BY DEF p, z
    <2> HIDE DEF z
    <2> QED
        BY <1>4, <2>1, <2>2
<1>6. p = c
    BY <1>2, <1>3, <1>5, SeqEqual
<1>7. 0 + 1 = 1 /\ 0 + k = k
    OBVIOUS
<1> QED
    BY <1>6, <1>7 DEF a, c, p

LEMMA PartsJoined ==
    ASSUME NEW S, NEW s \in Seq(S), NEW i \in Nat, NEW n \in Nat, i + n <= Len(s)
    PROVE  /\ SubSeq(s, 1, i) \in Seq(S)
           /\ SubSeq(s, 1, i) \o SubSeq(s, i + 1, i + n) = SubSeq(s, 1, i + n)
PROOF
<1> DEFINE a == SubSeq(s, 1, i)
           b == SubSeq(s, i + 1, i + n)
           c == SubSeq(s, 1, i + n)
           w == a \o b
<1>1. Len(s) \in Nat /\ i + n \in Nat
    OBVIOUS
<1>2. b \in Seq(S) /\ Len(b) = n /\ \A j \in 1 .. n : b[j] = s[i + j]
    <2>1. i \in 0 .. Len(s) /\ n \in 0 .. Len(s) - i
        OBVIOUS
    <2> QED
        BY <2>1, PartOf
<1>3. ASSUME NEW m \in Nat, m <= Len(s)
      PROVE  /\ SubSeq(s, 1, m) \in Seq(S) /\ Len(SubSeq(s, 1, m)) = m
             /\ \A j \in 1 .. m : SubSeq(s, 1, m)[j] = s[j]
    <2> DEFINE z == 0
    <2>1. z \in 0 .. Len(s) /\ m \in 0 .. Len(s) - z
        BY <1>3
    <2>2. z + 1 = 1 /\ z + m = m /\ \A j \in 1 .. m : z + j = j
        OBVIOUS
    <2> HIDE DEF z
    <2>3. /\ SubSeq(s, z + 1, z + m) \in Seq(S) /\ Len(SubSeq(s, z + 1, z + m)) = m
          /\ \A j \in 1 .. m : SubSeq(s, z + 1, z + m)[j] = s[z + j]
        BY <2>1, PartOf
    <2> QED
        BY <2>2, <2>3
<1>4. a \in Seq(S) /\ Len(a) = i /\ \A j \in 1 .. i : a[j] = s[j]
    BY <1>3
<1>5. c \in Seq(S) /\ Len(c) = i + n /\ \A j \in 1 .. i + n : c[j] = s[j]
    BY <1>1, <1>3
<1> HIDE DEF a, b, c
<1>6. /\ w \in Seq(S) /\ Len(w) = i + n
      /\ \A j \in 1 .. i : w[j] = a[j]
      /\ \A j \in 1 .. n : w[i + j] = b[j]
    <2>1. a \in Seq(S) /\ b \in Seq(S)
        BY <1>2, <1>4
    <2>2. /\ w \in Seq(S) /\ Len(w) = Len(a) + Len(b)
          /\ \A q \in 1 .. Len(a) : w[q] = a[q]
          /\ \A q \in 1 .. Len(b) : w[Len(a) + q] = b[q]
        BY <2>1, Joined
    <2> HIDE DEF w
    <2> QED
        BY <1>2, <1>4, <2>2
<1> HIDE DEF w
<1>7. ASSUME NEW j \in 1 .. i + n PROVE w[j] = c[j]
    <2>1. CASE j <= i
        BY <1>4, <1>5, <1>6, <2>1
    <2>2. CASE j > i
        <3>1. j - i \in 1 .. n /\ i + (j - i) = j
            BY <2>2
        <3> QED
            BY <1>2, <1>5, <1>6, <3>1
    <2> QED
        BY <2>1, <2>2
<1>8. w = c
    BY <1>5, <1>6, <1>7, SeqEqual
<1> QED
    BY <1>4, <1>8 DEF a, b, c, w

-----------------------------------------------------------------------------
(* Flattened sequences *)

\* F is the flattening of each beginning of seqs.
Flattens(F, seqs) ==
    \A i \in 1 .. Len(seqs) : F[i] = IF i = 1 THEN seqs[i] ELSE F[i - 1] \o seqs[i]

LEMMA FlattenedFcn ==
    ASSUME NEW X, NEW seqs \in Seq(Seq(X)), Len(seqs) # 0
    PROVE  \E F \in [1 .. Len(seqs) -> Seq(X)] :
                Flattens(F, seqs) /\ Ext!FlattenSeq(seqs) = F[Len(seqs)]
PROOF
<1> DEFINE N == Len(seqs)
           D == 1 .. N
           V == Seq(X)
           step == [i \in D |-> [g \in [D -> V] |->
                        IF i = 1 THEN seqs[i] ELSE g[i - 1] \o seqs[i]]]
           rank == [i \in D |-> i]
           Def(f) == f = [i \in 1 .. Len(seqs) |-> IF i = 1 THEN seqs[i] ELSE f[i - 1] \o seqs[i]]
           F == CHOOSE f : Def(f)
<1>1. N \in Nat /\ N > 0
    OBVIOUS
<1>2. V # {} /\ rank \in [D -> 0 .. N]
    <2>1. << >> \in V
        OBVIOUS
    <2> QED
        BY <1>1, <2>1
<1>3. \A i \in D : seqs[i] \in V
    OBVIOUS
<1>4. step \in [D -> [[D -> V] -> V]]
    <2> SUFFICES ASSUME NEW i \in D, NEW g \in [D -> V]
                 PROVE  (IF i = 1 THEN seqs[i] ELSE g[i - 1] \o seqs[i]) \in V
        OBVIOUS
    <2>1. CASE i = 1
        BY <1>3, <2>1
    <2>2. CASE i # 1
        <3>0. i - 1 \in D
            BY <1>1, <2>2
        <3>1. g[i - 1] \in V /\ seqs[i] \in V
            <4> HIDE DEF D, V
            <4> QED
                BY <1>3, <3>0
        <3> QED
            BY <2>2, <3>1
    <2> QED
        BY <2>1, <2>2
<1>5. Local(D, rank, V, step)
    <2> SUFFICES ASSUME NEW i \in D, NEW g \in [D -> V], NEW h \in [D -> V],
                        \A j \in D : rank[j] < rank[i] => g[j] = h[j]
                 PROVE  step[i][g] = step[i][h]
        BY DEF Local
    <2>1. i # 1 => i - 1 \in D /\ rank[i - 1] < rank[i]
        BY <1>1
    <2> QED
        BY <2>1
<1>6. PICK f \in [D -> V] : \A i \in D : f[i] = step[i][f]
    <2>1. Recursive(D, N, rank, V, step)
        <3> HIDE DEF D, V, step, rank, N
        <3> QED
            BY <1>1, <1>2, <1>4, <1>5 DEF Recursive
    <2> HIDE DEF D, V, step, rank, N
    <2> QED
        BY <2>1, RecursionExists
<1>7. Def(f)
    <2>1. \A i \in D : f[i] = IF i = 1 THEN seqs[i] ELSE f[i - 1] \o seqs[i]
        BY <1>6
    <2> QED
        BY <2>1
<1>8. Def(F)
    <2> HIDE DEF Def
    <2> QED
        BY <1>7
<1>9. Ext!FlattenSeq(seqs) = F[Len(seqs)]
    BY DEF Ext!FlattenSeq
<1> HIDE DEF F
<1>10. Flattens(F, seqs) /\ DOMAIN F = D
    BY <1>8 DEF Flattens
<1>11. \A i \in 0 .. N : i \in {j \in 0 .. N : j = 0 \/ F[j] \in V}
    <2> DEFINE S == {j \in 0 .. N : j = 0 \/ F[j] \in V}
    <2>1. 0 \in S
        BY <1>1
    <2>2. ASSUME NEW j \in 0 .. N - 1, j \in S PROVE j + 1 \in S
        <3>1. j + 1 \in D /\ seqs[j + 1] \in V /\ j + 1 \in 0 .. N
            BY <1>1, <1>3
        <3>a. F[j + 1] = IF j + 1 = 1 THEN seqs[j + 1] ELSE F[(j + 1) - 1] \o seqs[j + 1]
            <4>1. j + 1 \in 1 .. Len(seqs)
                BY <3>1
            <4> QED
                BY <1>10, <4>1 DEF Flattens
        <3>2. CASE j = 0
            <4>1. F[j + 1] = seqs[j + 1]
                BY <3>2, <3>a
            <4> QED
                BY <3>1, <4>1
        <3>3. CASE j # 0
            <4>1. F[j + 1] = F[j] \o seqs[j + 1]
                <5>1. j + 1 # 1 /\ (j + 1) - 1 = j
                    BY <3>3
                <5> QED
                    BY <3>a, <5>1
            <4>2. F[j] \in V
                BY <2>2, <3>3
            <4>3. F[j + 1] \in V
                BY <3>1, <4>1, <4>2
            <4> QED
                BY <3>1, <4>3
        <3> QED
            BY <3>2, <3>3
    <2> HIDE DEF S
    <2>3. \A i \in 0 .. N : i \in S
        BY <1>1, <2>1, <2>2, UpToInSet
    <2> QED
        BY <2>3 DEF S
<1>12. F \in [D -> V]
    <2>1. \A i \in D : F[i] \in V
        BY <1>1, <1>11
    <2>2. F = [i \in D |-> F[i]]
        BY <1>8
    <2> QED
        BY <2>1, <2>2
<1> QED
    BY <1>9, <1>10, <1>12

\* What FlattenSeq does to a sequence that grows at its end.
LEMMA FlattenedAppend ==
    ASSUME NEW X, NEW seqs \in Seq(Seq(X)), NEW s \in Seq(X)
    PROVE  /\ Ext!FlattenSeq(<< >>) = << >>
           /\ Ext!FlattenSeq(seqs) \in Seq(X)
           /\ Ext!FlattenSeq(Append(seqs, s)) = Ext!FlattenSeq(seqs) \o s
PROOF
<1> DEFINE N == Len(seqs)
           more == Append(seqs, s)
<1>1. Ext!FlattenSeq(<< >>) = << >>
    BY DEF Ext!FlattenSeq
<1>2. /\ more \in Seq(Seq(X)) /\ Len(more) = N + 1 /\ N \in Nat
      /\ more[N + 1] = s /\ \A i \in 1 .. N : more[i] = seqs[i]
    OBVIOUS
<1>3. PICK G \in [1 .. N + 1 -> Seq(X)] : Flattens(G, more) /\ Ext!FlattenSeq(more) = G[N + 1]
    <2> HIDE DEF more
    <2> QED
        BY <1>2, FlattenedFcn
<1> HIDE DEF more
<1>4. CASE N = 0
    <2>1. seqs = << >>
        BY <1>4
    <2>2. G[1] = more[1] /\ more[1] = s
        BY <1>2, <1>3, <1>4 DEF Flattens
    <2>3. Ext!FlattenSeq(more) = s
        BY <1>3, <1>4, <2>2
    <2>4. << >> \o s = s /\ << >> \in Seq(X)
        OBVIOUS
    <2> QED
        BY <1>1, <2>1, <2>3, <2>4 DEF more
<1>5. CASE N # 0
    <2>1. PICK F \in [1 .. N -> Seq(X)] : Flattens(F, seqs) /\ Ext!FlattenSeq(seqs) = F[N]
        BY <1>5, FlattenedFcn
    <2> DEFINE S == {j \in 0 .. N : j = 0 \/ G[j] = F[j]}
    <2>2. 0 \in S
        BY <1>2
    <2>3. ASSUME NEW j \in 0 .. N - 1, j \in S PROVE j + 1 \in S
        <3>1. j + 1 \in 1 .. N /\ j + 1 \in 0 .. N /\ more[j + 1] = seqs[j + 1] /\ j + 1 \in 1 .. Len(more)
            BY <1>2
        <3>a. F[j + 1] = IF j + 1 = 1 THEN seqs[j + 1] ELSE F[(j + 1) - 1] \o seqs[j + 1]
            BY <2>1, <3>1 DEF Flattens
        <3>b. G[j + 1] = IF j + 1 = 1 THEN more[j + 1] ELSE G[(j + 1) - 1] \o more[j + 1]
            BY <1>3, <3>1 DEF Flattens
        <3>2. CASE j = 0
            <4>1. j + 1 = 1
                BY <3>2
            <4> QED
                BY <3>1, <3>a, <3>b, <4>1
        <3>3. CASE j # 0
            <4>0. j + 1 # 1 /\ (j + 1) - 1 = j
                BY <3>3
            <4>1. F[j + 1] = F[j] \o seqs[j + 1]
                BY <3>a, <4>0
            <4>2. G[j + 1] = G[j] \o more[j + 1]
                BY <3>b, <4>0
            <4>3. G[j] = F[j]
                BY <2>3, <3>3
            <4> QED
                BY <3>1, <4>1, <4>2, <4>3
        <3> QED
            BY <3>2, <3>3
    <2> HIDE DEF S
    <2>4. N \in S
        <3>0. N \in Nat
            BY <1>2
        <3> HIDE DEF N
        <3>1. \A n \in 0 .. N : n \in S
            BY <3>0, <2>2, <2>3, UpToInSet
        <3> QED
            BY <3>0, <3>1
    <2>5. G[N] = F[N]
        BY <1>5, <2>4 DEF S
    <2>6. G[N + 1] = G[N] \o s
        <3>1. N + 1 \in 1 .. Len(more) /\ N + 1 # 1 /\ (N + 1) - 1 = N
            BY <1>2, <1>5
        <3> QED
            BY <1>2, <1>3, <3>1 DEF Flattens
    <2>7. F[N] \in Seq(X)
        <3>1. N \in 1 .. N
            BY <1>2, <1>5
        <3> HIDE DEF N
        <3> QED
            BY <3>1
    <2> QED
        BY <1>1, <1>3, <2>1, <2>5, <2>6, <2>7 DEF more
<1> QED
    BY <1>4, <1>5

-----------------------------------------------------------------------------
(* Spread sequences *)

\* A set that has the empty sequence, and with every sequence the longer ones, has
\* every sequence.
LEMMA SeqInSet ==
    ASSUME NEW A, NEW S, << >> \in S,
           \A s \in Seq(A) : \A x \in A : s \in S => Append(s, x) \in S
    PROVE  \A s \in Seq(A) : s \in S
PROOF
<1> DEFINE T == {n \in Nat : \A s \in Seq(A) : Len(s) = n => s \in S}
<1>1. 0 \in T
    <2>1. \A s \in Seq(A) : Len(s) = 0 => s = << >>
        OBVIOUS
    <2> QED
        BY <2>1
<1>2. ASSUME NEW n \in Nat, n \in T PROVE n + 1 \in T
    <2>1. ASSUME NEW s \in Seq(A), Len(s) = n + 1
          PROVE  s \in S
        <3> DEFINE r == SubSeq(s, 1, n)
                   x == s[n + 1]
        <3>1. r \in Seq(A) /\ Len(r) = n /\ x \in A /\ s = Append(r, x)
            BY <2>1
        <3> HIDE DEF r, x
        <3>2. r \in S
            BY <1>2, <3>1
        <3> QED
            BY <3>1, <3>2
    <2> QED
        BY <2>1
<1> HIDE DEF T
<1>3. \A n \in Nat : n \in T
    BY <1>1, <1>2, NatInSet
<1>4. ASSUME NEW s \in Seq(A) PROVE s \in S
    <2>1. Len(s) \in Nat
        OBVIOUS
    <2>2. Len(s) \in T
        BY <1>3, <2>1
    <2> QED
        BY <2>2 DEF T
<1> QED
    BY <1>4

\* G makes a sequence over B of every element of A.
Spreads(G, A, B) == G \in [A -> Seq(B)]

\* Every element of t replaced by the sequence that G makes of it.
Spread(G, t) == Ext!FlattenSeq([i \in DOMAIN t |-> G[t[i]]])

LEMMA SpreadAppend ==
    ASSUME NEW A, NEW B, NEW G, Spreads(G, A, B), NEW t \in Seq(A), NEW x \in A
    PROVE  /\ Spread(G, << >>) = << >>
           /\ Spread(G, t) \in Seq(B)
           /\ Spread(G, Append(t, x)) = Spread(G, t) \o G[x]
PROOF
<1> DEFINE V == Seq(B)
           seqs == [i \in DOMAIN t |-> G[t[i]]]
           more == [i \in DOMAIN Append(t, x) |-> G[Append(t, x)[i]]]
           none == [i \in DOMAIN << >> |-> G[<< >>[i]]]
           y == G[x]
<1>1. /\ DOMAIN t = 1 .. Len(t) /\ Len(t) \in Nat /\ \A i \in 1 .. Len(t) : t[i] \in A
      /\ DOMAIN Append(t, x) = 1 .. Len(t) + 1
      /\ \A i \in 1 .. Len(t) : Append(t, x)[i] = t[i]
      /\ Append(t, x)[Len(t) + 1] = x
    OBVIOUS
<1>2. y \in V /\ \A a \in A : G[a] \in V
    BY DEF Spreads
<1>3. seqs \in [1 .. Len(t) -> V]
    <2> HIDE DEF V
    <2> QED
        BY <1>1, <1>2
<1>4. seqs \in Seq(V) /\ Len(seqs) = Len(t) /\ \A i \in 1 .. Len(t) : seqs[i] = G[t[i]]
    <2>1. \A i \in 1 .. Len(t) : seqs[i] = G[t[i]]
        BY <1>1
    <2> HIDE DEF V, seqs
    <2> QED
        BY <1>1, <1>3, <2>1, SeqIs
<1>5. more = Append(seqs, y)
    <2>1. more \in [1 .. Len(t) + 1 -> V]
        <3>1. \A i \in 1 .. Len(t) + 1 : Append(t, x)[i] \in A
            BY <1>1
        <3> HIDE DEF V
        <3> QED
            BY <1>1, <1>2, <3>1
    <2>2. \A i \in 1 .. Len(t) + 1 : more[i] = IF i = Len(t) + 1 THEN y ELSE seqs[i]
        <3>1. \A i \in 1 .. Len(t) + 1 : more[i] = G[Append(t, x)[i]]
            BY <1>1
        <3>2. \A i \in 1 .. Len(t) + 1 : i # Len(t) + 1 => i \in 1 .. Len(t)
            BY <1>1
        <3> HIDE DEF more, seqs
        <3> QED
            BY <1>1, <1>4, <3>1, <3>2
    <2>3. more = [i \in 1 .. Len(t) + 1 |-> IF i = Len(t) + 1 THEN y ELSE seqs[i]]
        <3> HIDE DEF more, seqs, y, V
        <3> QED
            BY <2>1, <2>2
    <2>4. Append(seqs, y) = [i \in 1 .. Len(seqs) + 1 |-> IF i = Len(seqs) + 1 THEN y ELSE seqs[i]]
        <3> HIDE DEF seqs, y, V
        <3> QED
            BY <1>2, <1>4, AppendIs
    <2> HIDE DEF seqs, more, y
    <2> QED
        BY <1>4, <2>3, <2>4
<1>6. none = << >>
    OBVIOUS
<1>7. Ext!FlattenSeq(<< >>) = << >> /\ Ext!FlattenSeq(seqs) \in V
      /\ Ext!FlattenSeq(Append(seqs, y)) = Ext!FlattenSeq(seqs) \o y
    <2>1. seqs \in Seq(Seq(B)) /\ y \in Seq(B)
        BY <1>2, <1>4
    <2> HIDE DEF seqs, y
    <2> QED
        BY <2>1, FlattenedAppend
<1>8. /\ Spread(G, t) = Ext!FlattenSeq(seqs)
      /\ Spread(G, Append(t, x)) = Ext!FlattenSeq(more)
      /\ Spread(G, << >>) = Ext!FlattenSeq(none)
    BY DEF Spread
<1> HIDE DEF seqs, more, none, y
<1> QED
    BY <1>5, <1>6, <1>7, <1>8 DEF y

LEMMA JoinAppend ==
    ASSUME NEW A, NEW a \in Seq(A), NEW b \in Seq(A), NEW x \in A
    PROVE  a \o Append(b, x) = Append(a \o b, x)
    OBVIOUS

LEMMA JoinJoined ==
    ASSUME NEW A, NEW a \in Seq(A), NEW b \in Seq(A), NEW c \in Seq(A)
    PROVE  (a \o b) \o c = a \o (b \o c) /\ a \o << >> = a /\ << >> \o a = a
    OBVIOUS

LEMMA SpreadJoined ==
    ASSUME NEW A, NEW B, NEW G, Spreads(G, A, B), NEW a \in Seq(A)
    PROVE  \A b \in Seq(A) : Spread(G, a \o b) = Spread(G, a) \o Spread(G, b)
PROOF
<1> DEFINE S == {b \in Seq(A) : Spread(G, a \o b) = Spread(G, a) \o Spread(G, b)}
<1>1. << >> \in S
    <2>0. << >> \in Seq(A)
        OBVIOUS
    <2>1. Spread(G, a) \in Seq(B)
        <3>1. CASE A = {}
            <4>1. a = << >>
                BY <3>1
            <4>2. [i \in DOMAIN << >> |-> G[<< >>[i]]] = << >>
                OBVIOUS
            <4>3. Spread(G, a) = << >>
                <5>1. << >> \in Seq(Seq(B)) /\ << >> \in Seq(B)
                    OBVIOUS
                <5> QED
                    BY <4>1, <4>2, <5>1, FlattenedAppend DEF Spread
            <4> QED
                BY <4>3
        <3>2. CASE A # {}
            BY <3>2, SpreadAppend
        <3> QED
            BY <3>1, <3>2
    <2>2. Spread(G, << >>) = << >>
        <3>1. [i \in DOMAIN << >> |-> G[<< >>[i]]] = << >>
            OBVIOUS
        <3>2. << >> \in Seq(Seq(B)) /\ << >> \in Seq(B)
            OBVIOUS
        <3> QED
            BY <3>1, <3>2, FlattenedAppend DEF Spread
    <2> HIDE DEF Spread
    <2>3. a \o << >> = a /\ Spread(G, a) \o << >> = Spread(G, a)
        BY <2>1
    <2> QED
        BY <2>0, <2>2, <2>3
<1>2. ASSUME NEW b \in Seq(A), NEW x \in A, b \in S
      PROVE  Append(b, x) \in S
    <2> DEFINE ab == a \o b
               p == Spread(G, a)
               q == Spread(G, b)
               y == G[x]
    <2>1. ab \in Seq(A) /\ Append(b, x) \in Seq(A)
        OBVIOUS
    <2>2. Spread(G, Append(ab, x)) = Spread(G, ab) \o G[x]
        <3> HIDE DEF ab
        <3> QED
            BY <2>1, SpreadAppend
    <2>3. Spread(G, Append(b, x)) = q \o y
        BY SpreadAppend
    <2>4. p \in Seq(B) /\ q \in Seq(B)
        BY SpreadAppend
    <2>5. y \in Seq(B)
        BY DEF Spreads
    <2>6. Spread(G, ab) = p \o q
        BY <1>2
    <2>7. (p \o q) \o y = p \o (q \o y)
        <3> HIDE DEF p, q, y
        <3> QED
            BY <2>4, <2>5, JoinJoined
    <2>8. a \o Append(b, x) = Append(ab, x)
        BY JoinAppend
    <2>9. Spread(G, a \o Append(b, x)) = p \o Spread(G, Append(b, x))
        <3> HIDE DEF ab, p, q
        <3> QED
            BY <2>2, <2>3, <2>6, <2>7, <2>8
    <2> QED
        BY <2>1, <2>9
<1> HIDE DEF S
<1>3. \A b \in Seq(A) : b \in S
    BY <1>1, <1>2, SeqInSet
<1> QED
    BY <1>3 DEF S
=============================================================================
