-------------------------- MODULE WzArchive_proofs --------------------------
(***************************************************************************)
(* Proofs about WzArchive, for every width of offsets, every tree, data    *)
(* offset and version.                                                     *)
(***************************************************************************)
EXTENDS WzArchive, DataInduction

-----------------------------------------------------------------------------
(* Powers of two and exclusive or *)

LEMMA PowersAre ==
    /\ \A n \in 0 .. Bits : Pow2[n] \in Nat \ {0}
    /\ Bits \in Nat
    /\ Pow2[0] = 1
    /\ \A n \in 0 .. Bits : n # 0 => Pow2[n] = 2 * Pow2[n - 1]
PROOF
<1> DEFINE D == 0 .. Bits
           V == Nat \ {0}
           step == [i \in D |-> [g \in [D -> V] |-> IF i = 0 THEN 1 ELSE 2 * g[i - 1]]]
           Def(g) == g = [n \in 0 .. Bits |-> IF n = 0 THEN 1 ELSE 2 * g[n - 1]]
           F == CHOOSE g : Def(g)
<1>1. Bits \in Nat
    BY ArchiveAssumption
<1>2. ASSUME NEW i \in D, i # 0 PROVE i - 1 \in D /\ i - 1 < i
    BY <1>1, <1>2
<1>3. step \in [D -> [[D -> V] -> V]]
    <2> SUFFICES ASSUME NEW i \in D, NEW g \in [D -> V]
                 PROVE  (IF i = 0 THEN 1 ELSE 2 * g[i - 1]) \in V
        OBVIOUS
    <2>1. i # 0 => g[i - 1] \in V
        BY <1>2
    <2> QED
        BY <2>1
<1>4. \A i \in D : \A g \in [D -> V] : step[i][g] = IF i = 0 THEN 1 ELSE 2 * g[i - 1]
    OBVIOUS
<1>5. V # {}
    OBVIOUS
<1> HIDE DEF step, V
<1>6. ASSUME NEW i \in D, NEW g \in [D -> V], NEW h \in [D -> V],
             \A j \in D : j < i => g[j] = h[j]
      PROVE  step[i][g] = step[i][h]
    <2>1. i # 0 => g[i - 1] = h[i - 1]
        BY <1>2, <1>6
    <2> QED
        BY <1>4, <2>1
<1>7. PICK f \in [D -> V] : \A i \in D : f[i] = step[i][f]
    <2>1. RecursiveBelow(Bits, V, step)
        BY <1>1, <1>3, <1>5, <1>6 DEF RecursiveBelow
    <2> QED
        BY <2>1, RecursionBelow
<1>8. Def(f)
    <2>1. \A i \in D : f[i] = IF i = 0 THEN 1 ELSE 2 * f[i - 1]
        BY <1>4, <1>7
    <2> QED
        BY <2>1
<1>9. Def(F)
    <2> HIDE DEF Def
    <2> QED
        BY <1>8, Zenon
<1>10. Pow2 = F
    BY DEF Pow2
<1> HIDE DEF F
<1>11. \A n \in D : Pow2[n] = IF n = 0 THEN 1 ELSE 2 * Pow2[n - 1]
    BY <1>9, <1>10
<1>12. \A n \in D : Pow2[n] \in Nat \ {0}
    <2> DEFINE S == {n \in D : Pow2[n] \in Nat \ {0}}
    <2>1. 0 \in S
        BY <1>1, <1>11
    <2>2. ASSUME NEW n \in 0 .. Bits - 1, n \in S PROVE n + 1 \in S
        <3>1. n + 1 \in D /\ n + 1 # 0 /\ (n + 1) - 1 = n
            BY <1>1
        <3>2. Pow2[n + 1] = 2 * Pow2[n]
            BY <1>11, <3>1
        <3> QED
            BY <2>2, <3>1, <3>2
    <2> HIDE DEF S
    <2>3. \A n \in 0 .. Bits : n \in S
        BY <1>1, <2>1, <2>2, UpToInSet
    <2> QED
        BY <2>3 DEF S
<1> QED
    BY <1>1, <1>11, <1>12

LEMMA XorIs ==
    ASSUME NEW n \in 0 .. Bits, NEW a \in Nat, NEW b \in Nat
    PROVE  /\ Xor(n, a, b) \in Nat
           /\ n = 0 => Xor(n, a, b) = 0
           /\ n # 0 => Xor(n, a, b) = 2 * Xor(n - 1, a \div 2, b \div 2) + ((a + b) % 2)
PROOF
<1> DEFINE D == 0 .. Bits
           V == [Nat -> [Nat -> Nat]]
           Body(i, g) == [x \in Nat |-> [y \in Nat |->
                IF i = 0 THEN 0 ELSE 2 * g[i - 1][x \div 2][y \div 2] + ((x + y) % 2)]]
           step == [i \in D |-> [g \in [D -> V] |-> Body(i, g)]]
           Def(g) == g = [i \in 0 .. Bits |-> [x \in Nat |-> [y \in Nat |->
                IF i = 0 THEN 0 ELSE 2 * g[i - 1][x \div 2][y \div 2] + ((x + y) % 2)]]]
           F == CHOOSE g : Def(g)
<1>1. Bits \in Nat
    BY ArchiveAssumption
<1>2. ASSUME NEW i \in D, i # 0 PROVE i - 1 \in D /\ i - 1 < i
    BY <1>1, <1>2
<1>3. \A x \in Nat : x \div 2 \in Nat
    OBVIOUS
<1>4. ASSUME NEW i \in D, NEW g \in [D -> V] PROVE Body(i, g) \in V
    <2> SUFFICES ASSUME NEW x \in Nat, NEW y \in Nat
                 PROVE  (IF i = 0 THEN 0 ELSE 2 * g[i - 1][x \div 2][y \div 2] + ((x + y) % 2)) \in Nat
        OBVIOUS
    <2>1. CASE i = 0
        BY <2>1
    <2>2. CASE i # 0
        <3>1. g[i - 1] \in V
            <4> HIDE DEF V
            <4> QED
                BY <1>2, <2>2
        <3>2. g[i - 1][x \div 2][y \div 2] \in Nat
            BY <1>3, <3>1
        <3>3. (x + y) % 2 \in Nat
            OBVIOUS
        <3> QED
            BY <3>2, <3>3
    <2> QED
        BY <2>1, <2>2
<1>5. ASSUME NEW i \in D, NEW g, NEW h, i # 0 => g[i - 1] = h[i - 1]
      PROVE  Body(i, g) = Body(i, h)
    BY <1>5
<1>6. V # {}
    <2>1. [x \in Nat |-> [y \in Nat |-> 0]] \in V
        OBVIOUS
    <2> QED
        BY <2>1
<1>7. Def(F) => F = [i \in D |-> Body(i, F)]
    <2> HIDE DEF F
    <2> QED
        OBVIOUS
<1>8. \A f : f = [i \in D |-> Body(i, f)] => Def(f)
    OBVIOUS
<1>9. \A i, g, x, y : x \in Nat /\ y \in Nat =>
        Body(i, g)[x][y] = IF i = 0 THEN 0 ELSE 2 * g[i - 1][x \div 2][y \div 2] + ((x + y) % 2)
    OBVIOUS
<1> HIDE DEF Body, V
<1>10. step \in [D -> [[D -> V] -> V]]
    BY <1>4
<1>11. \A i \in D : \A g \in [D -> V] : step[i][g] = Body(i, g)
    OBVIOUS
<1> HIDE DEF step
<1>12. ASSUME NEW i \in D, NEW g \in [D -> V], NEW h \in [D -> V],
              \A j \in D : j < i => g[j] = h[j]
       PROVE  step[i][g] = step[i][h]
    <2>1. i # 0 => g[i - 1] = h[i - 1]
        BY <1>2, <1>12
    <2>2. Body(i, g) = Body(i, h)
        BY <1>5, <2>1
    <2> QED
        BY <1>11, <2>2
<1>13. PICK f \in [D -> V] : \A i \in D : f[i] = step[i][f]
    <2>1. RecursiveBelow(Bits, V, step)
        BY <1>1, <1>6, <1>10, <1>12 DEF RecursiveBelow
    <2> QED
        BY <2>1, RecursionBelow
<1>14. f = [i \in D |-> Body(i, f)]
    BY <1>11, <1>13
<1>15. Def(F)
    <2>1. Def(f)
        <3> HIDE DEF Def
        <3> QED
            BY <1>8, <1>14
    <2> HIDE DEF Def
    <2> QED
        BY <2>1, Zenon
<1>16. XorBits = F
    BY DEF XorBits
<1> HIDE DEF F
<1>17. XorBits = [i \in D |-> Body(i, XorBits)]
    <2> HIDE DEF Def
    <2> QED
        BY <1>7, <1>15, <1>16
<1>18. \A i \in D : XorBits[i] = Body(i, XorBits)
    BY <1>17
<1>19. \A i \in D : XorBits[i] = f[i]
    <2> DEFINE S == {i \in D : XorBits[i] = f[i]}
    <2>1. \A i \in D : f[i] = Body(i, f)
        BY <1>11, <1>13
    <2>2. 0 \in S
        <3>1. 0 \in D
            BY <1>1
        <3>2. Body(0, XorBits) = Body(0, f)
            BY <1>5, <3>1
        <3> QED
            BY <1>18, <2>1, <3>1, <3>2
    <2>3. ASSUME NEW i \in 0 .. Bits - 1, i \in S PROVE i + 1 \in S
        <3>1. i + 1 \in D /\ (i + 1) - 1 = i
            BY <1>1
        <3>2. Body(i + 1, XorBits) = Body(i + 1, f)
            BY <1>5, <2>3, <3>1
        <3> QED
            BY <1>18, <2>1, <3>1, <3>2
    <2> HIDE DEF S
    <2>4. \A i \in 0 .. Bits : i \in S
        BY <1>1, <2>2, <2>3, UpToInSet
    <2> QED
        BY <2>4 DEF S
<1>20. XorBits[n][a][b] = IF n = 0 THEN 0 ELSE 2 * XorBits[n - 1][a \div 2][b \div 2] + ((a + b) % 2)
    BY <1>9, <1>18
<1>21. XorBits[n][a][b] \in Nat
    <2>1. XorBits[n] \in [Nat -> [Nat -> Nat]]
        BY <1>13, <1>19 DEF V
    <2>2. XorBits[n][a] \in [Nat -> Nat]
        BY <2>1
    <2> QED
        BY <2>2
<1> QED
    BY <1>20, <1>21 DEF Xor

\* Exclusive or of n bits with the same number twice gives a number of n bits
\* back, from either side, whatever lies above these bits in the other number.
LEMMA XorCancels ==
    \A n \in 0 .. Bits : \A a \in 0 .. Pow2[n] - 1, k \in Nat :
        /\ Xor(n, a, k) \in 0 .. Pow2[n] - 1
        /\ Xor(n, k, Xor(n, a, k)) = a
PROOF
<1> DEFINE S == {n \in 0 .. Bits : \A a \in 0 .. Pow2[n] - 1, k \in Nat :
                    /\ Xor(n, a, k) \in 0 .. Pow2[n] - 1
                    /\ Xor(n, k, Xor(n, a, k)) = a}
<1>1. Bits \in Nat
    BY PowersAre
<1>2. 0 \in S
    <2> DEFINE z == 0
    <2>1. z \in 0 .. Bits /\ Pow2[z] = 1 /\ z = 0
        BY <1>1, PowersAre
    <2> HIDE DEF z
    <2>2. ASSUME NEW a \in 0 .. Pow2[z] - 1, NEW k \in Nat
          PROVE  Xor(z, a, k) = 0 /\ Xor(z, k, Xor(z, a, k)) = 0 /\ a = 0
        <3>1. a = 0 /\ a \in Nat
            BY <2>1
        <3>2. Xor(z, a, k) = 0 /\ Xor(z, a, k) \in Nat
            BY <2>1, <3>1, XorIs
        <3>3. Xor(z, k, Xor(z, a, k)) = 0
            <4> DEFINE x == Xor(z, a, k)
            <4>1. x \in Nat
                BY <3>2
            <4> HIDE DEF x
            <4>2. Xor(z, k, x) = 0
                BY <2>1, <4>1, XorIs
            <4> QED
                BY <4>2 DEF x
        <3> QED
            BY <3>1, <3>2, <3>3
    <2>3. z \in S
        BY <2>1, <2>2
    <2> QED
        BY <2>1, <2>3
<1>3. ASSUME NEW n \in 0 .. Bits - 1, n \in S PROVE n + 1 \in S
    <2> DEFINE m == n + 1
    <2>1. m \in 0 .. Bits /\ m # 0 /\ m - 1 = n /\ n \in 0 .. Bits
        BY <1>1
    <2>2. Pow2[m] = 2 * Pow2[n] /\ Pow2[n] \in Nat
        BY <2>1, PowersAre
    <2> HIDE DEF m
    <2>3. ASSUME NEW a \in 0 .. Pow2[m] - 1, NEW k \in Nat
          PROVE  Xor(m, a, k) \in 0 .. Pow2[m] - 1 /\ Xor(m, k, Xor(m, a, k)) = a
        <3> DEFINE a2 == a \div 2
                   k2 == k \div 2
                   y == Xor(n, a2, k2)
                   x == Xor(m, a, k)
        <3>1. a \in Nat /\ a2 \in 0 .. Pow2[n] - 1 /\ k2 \in Nat
            BY <2>2
        <3>2. y \in 0 .. Pow2[n] - 1 /\ Xor(n, k2, y) = a2 /\ y \in Nat
            <4>1. \A c \in 0 .. Pow2[n] - 1, l \in Nat :
                    Xor(n, c, l) \in 0 .. Pow2[n] - 1 /\ Xor(n, l, Xor(n, c, l)) = c
                BY <1>3
            <4> HIDE DEF a2, k2
            <4>2. y \in 0 .. Pow2[n] - 1 /\ Xor(n, k2, y) = a2
                BY <3>1, <4>1
            <4> QED
                BY <2>2, <4>2
        <3>3. x = 2 * y + ((a + k) % 2) /\ x \in Nat
            BY <2>1, <3>1, XorIs
        <3>4. x \div 2 = y
            <4> HIDE DEF x, y
            <4> QED
                BY <3>1, <3>2, <3>3
        <3>5. x \in 0 .. Pow2[m] - 1
            <4> HIDE DEF x, y
            <4> QED
                BY <2>2, <3>1, <3>2, <3>3
        <3>6. Xor(m, k, x) = 2 * a2 + ((k + x) % 2)
            <4> HIDE DEF x, y
            <4>1. Xor(m, k, x) = 2 * Xor(m - 1, k \div 2, x \div 2) + ((k + x) % 2)
                BY <2>1, <3>3, XorIs
            <4> QED
                BY <2>1, <3>2, <3>4, <4>1
        <3>7. (k + x) % 2 = a % 2
            <4> HIDE DEF x, y
            <4> QED
                BY <3>1, <3>2, <3>3
        <3>8. 2 * a2 + (a % 2) = a
            BY <3>1
        <3> QED
            BY <3>5, <3>6, <3>7, <3>8
    <2>4. m \in S
        BY <2>1, <2>3
    <2> QED
        BY <2>4 DEF m
<1> HIDE DEF S
<1>4. \A n \in 0 .. Bits : n \in S
    BY <1>1, <1>2, <1>3, UpToInSet
<1> QED
    BY <1>4 DEF S

-----------------------------------------------------------------------------
(* Remainders *)

\* A remainder is known by where it lies.
LEMMA RemainderIs ==
    ASSUME NEW w \in Nat \ {0}, NEW q \in Int, NEW r \in 0 .. w - 1
    PROVE  (w * q + r) % w = r
PROOF
<1> DEFINE a == w * q + r
           p == a \div w
           s == a % w
<1>1. a \in Int
    OBVIOUS
<1>2. a = w * p + s /\ s \in 0 .. w - 1 /\ p \in Int
    <2> HIDE DEF a
    <2> QED
        BY <1>1
<1>3. w * q + r = w * p + s
    BY <1>2
<1> HIDE DEF p, s
<1>4. ASSUME q >= p + 1 PROVE FALSE
    <2>1. w * q >= w * (p + 1)
        BY <1>2, <1>4
    <2>2. w * (p + 1) = w * p + w
        BY <1>2
    <2> QED
        BY <1>2, <1>3, <2>1, <2>2
<1>5. ASSUME p >= q + 1 PROVE FALSE
    <2>1. w * p >= w * (q + 1)
        BY <1>2, <1>5
    <2>2. w * (q + 1) = w * q + w
        BY <1>2
    <2> QED
        BY <1>2, <1>3, <2>1, <2>2
<1>6. p = q
    BY <1>2, <1>4, <1>5
<1>7. s = r
    BY <1>2, <1>3, <1>6
<1> QED
    BY <1>7 DEF s

\* What is taken off before a remainder and added behind it is not seen.
LEMMA ShiftedBack ==
    ASSUME NEW w \in Nat \ {0}, NEW off \in 0 .. w - 1, NEW b \in Int
    PROVE  (off - b) % w \in 0 .. w - 1 /\ (((off - b) % w) + b) % w = off
PROOF
<1> DEFINE a == off - b
           q == a \div w
           r == a % w
           p == 0 - q
<1>1. a \in Int /\ a + b = off
    OBVIOUS
<1> HIDE DEF a
<1>2. a = w * q + r /\ r \in 0 .. w - 1 /\ q \in Int
    BY <1>1
<1> HIDE DEF q, r
<1>3. r + b = w * p + off /\ p \in Int
    <2>1. w * (0 - q) = 0 - w * q
        BY <1>2
    <2> QED
        BY <1>1, <1>2, <2>1
<1> HIDE DEF p
<1>4. (w * p + off) % w = off
    BY <1>3, RemainderIs
<1> QED
    BY <1>2, <1>3, <1>4 DEF a, r

-----------------------------------------------------------------------------
(* The hash of a version *)

LEMMA U16Is ==
    TwoTo16 \in Nat \ {0} /\ 0 \in U16
    BY DEF TwoTo16, U16

LEMMA ReversedIs ==
    \A n \in 0 .. 400 :
        /\ Reversed[n] \in [U16 -> U16]
        /\ \A r \in U16 : Reversed[n][r] =
                IF n = 0 THEN r ELSE Reversed[n \div 10][WithDigit(r, n)]
PROOF
<1> DEFINE N == 400
           D == 0 .. N
           V == [U16 -> U16]
           Body(n, g) == [r \in U16 |->
                IF n = 0 THEN r ELSE g[n \div 10][WithDigit(r, n)]]
           step == [n \in D |-> [g \in [D -> V] |-> Body(n, g)]]
           Def(g) == g = [n \in 0 .. 400 |-> [r \in U16 |->
                IF n = 0 THEN r ELSE g[n \div 10][WithDigit(r, n)]]]
           F == CHOOSE g : Def(g)
<1>1. N \in Nat
    OBVIOUS
<1>2. ASSUME NEW n \in D, n # 0 PROVE n \div 10 \in D /\ n \div 10 < n
    BY <1>2
<1>3. ASSUME NEW n \in D, NEW r \in U16 PROVE WithDigit(r, n) \in U16
    <2> DEFINE x == 10 * r + (n % 10)
    <2>1. x \in Nat
        BY DEF U16
    <2> HIDE DEF x
    <2>2. x % TwoTo16 \in 0 .. TwoTo16 - 1
        BY <2>1, U16Is
    <2> QED
        BY <2>2 DEF U16, WithDigit, x
<1>4. ASSUME NEW n \in D, NEW g \in [D -> V] PROVE Body(n, g) \in V
    <2> SUFFICES ASSUME NEW r \in U16
                 PROVE  (IF n = 0 THEN r ELSE g[n \div 10][WithDigit(r, n)]) \in U16
        OBVIOUS
    <2>1. CASE n = 0
        BY <2>1
    <2>2. CASE n # 0
        <3>1. g[n \div 10] \in V
            <4> HIDE DEF V, D
            <4> QED
                BY <1>2, <2>2
        <3>2. WithDigit(r, n) \in U16
            BY <1>3
        <3>3. g[n \div 10][WithDigit(r, n)] \in U16
            BY <3>1, <3>2
        <3> QED
            BY <2>2, <3>3
    <2> QED
        BY <2>1, <2>2
<1>5. ASSUME NEW n \in D, NEW g, NEW h, n # 0 => g[n \div 10] = h[n \div 10]
      PROVE  Body(n, g) = Body(n, h)
    BY <1>5
<1>6. V # {}
    <2>1. [r \in U16 |-> r] \in V
        OBVIOUS
    <2> QED
        BY <2>1
<1>7. Def(F) => F = [n \in D |-> Body(n, F)]
    <2> HIDE DEF F
    <2> QED
        OBVIOUS
<1>8. \A f : f = [n \in D |-> Body(n, f)] => Def(f)
    OBVIOUS
<1>9. \A n, g, r : r \in U16 =>
        Body(n, g)[r] = IF n = 0 THEN r ELSE g[n \div 10][WithDigit(r, n)]
    OBVIOUS
<1> HIDE DEF Body, V, N
<1>10. step \in [D -> [[D -> V] -> V]]
    BY <1>4
<1>11. \A n \in D : \A g \in [D -> V] : step[n][g] = Body(n, g)
    OBVIOUS
<1> HIDE DEF step
<1>12. ASSUME NEW n \in D, NEW g \in [D -> V], NEW h \in [D -> V],
              \A j \in D : j < n => g[j] = h[j]
       PROVE  step[n][g] = step[n][h]
    <2>1. n # 0 => g[n \div 10] = h[n \div 10]
        BY <1>2, <1>12
    <2>2. Body(n, g) = Body(n, h)
        BY <1>5, <2>1
    <2> QED
        BY <1>11, <2>2
<1>13. PICK f \in [D -> V] : \A n \in D : f[n] = step[n][f]
    <2>1. RecursiveBelow(N, V, step)
        BY <1>1, <1>6, <1>10, <1>12 DEF RecursiveBelow
    <2> QED
        BY <2>1, RecursionBelow
<1>14. f = [n \in D |-> Body(n, f)]
    BY <1>11, <1>13
<1>15. Def(F)
    <2>1. Def(f)
        <3> HIDE DEF Def
        <3> QED
            BY <1>8, <1>14
    <2> HIDE DEF Def
    <2> QED
        BY <2>1, Zenon
<1>16. Reversed = F
    BY DEF Reversed
<1> HIDE DEF F
<1>17. \A n \in D : Reversed[n] = Body(n, Reversed)
    <2>1. Reversed = [n \in D |-> Body(n, Reversed)]
        <3> HIDE DEF Def
        <3> QED
            BY <1>7, <1>15, <1>16
    <2> QED
        BY <2>1
<1>18. \A n \in D : Reversed[n] = f[n]
    <2> DEFINE S == {n \in Nat : \A j \in D : j < n => Reversed[j] = f[j]}
    <2>1. 0 \in S
        OBVIOUS
    <2>2. ASSUME NEW n \in Nat, n \in S PROVE n + 1 \in S
        <3> SUFFICES ASSUME NEW j \in D, j < n + 1 PROVE Reversed[j] = f[j]
            OBVIOUS
        <3>1. j # 0 => Reversed[j \div 10] = f[j \div 10]
            BY <1>2, <2>2
        <3>2. Body(j, Reversed) = Body(j, f)
            BY <1>5, <3>1
        <3> QED
            BY <1>11, <1>13, <1>17, <3>2
    <2> HIDE DEF S
    <2>3. N + 1 \in S
        BY <1>1, <2>1, <2>2, NatInSet
    <2> QED
        BY <1>1, <2>3 DEF S
<1>19. \A n \in D : Reversed[n] \in V
    BY <1>13, <1>18
<1>20. \A n \in D, r \in U16 :
        Reversed[n][r] = IF n = 0 THEN r ELSE Reversed[n \div 10][WithDigit(r, n)]
    BY <1>9, <1>17
<1>21. D = 0 .. 400
    BY DEF N
<1> HIDE DEF D
<1> QED
    BY <1>19, <1>20, <1>21 DEF V

LEMMA HashType ==
    \A r \in U16 : HashOf[r] \in [Nat -> Nat]
PROOF
<1> DEFINE N == TwoTo16 - 1
           D == 0 .. N
           V == [Nat -> Nat]
           Body(r, g) == [h \in Nat |-> IF r = 0 THEN h ELSE g[r \div 10][32 * h + (r % 10) + 48 + 1]]
           step == [r \in D |-> [g \in [D -> V] |-> Body(r, g)]]
           Def(g) == g = [r \in U16 |-> [h \in Nat |->
                IF r = 0 THEN h ELSE g[r \div 10][32 * h + (r % 10) + 48 + 1]]]
           F == CHOOSE g : Def(g)
<1>1. N \in Nat /\ D = U16
    BY U16Is DEF U16
<1> HIDE DEF N
<1>2. ASSUME NEW r \in D, r # 0 PROVE r \div 10 \in D /\ r \div 10 < r
    BY <1>1, <1>2
<1>4. ASSUME NEW r \in D, NEW g \in [D -> V] PROVE Body(r, g) \in V
    <2> SUFFICES ASSUME NEW h \in Nat
                 PROVE  (IF r = 0 THEN h ELSE g[r \div 10][32 * h + (r % 10) + 48 + 1]) \in Nat
        OBVIOUS
    <2>1. CASE r = 0
        BY <2>1
    <2>2. CASE r # 0
        <3>1. g[r \div 10] \in V
            <4> HIDE DEF V, D
            <4> QED
                BY <1>2, <2>2
        <3>2. 32 * h + (r % 10) + 48 + 1 \in Nat
            OBVIOUS
        <3>3. g[r \div 10][32 * h + (r % 10) + 48 + 1] \in Nat
            BY <3>1, <3>2
        <3> QED
            BY <2>2, <3>3
    <2> QED
        BY <2>1, <2>2
<1>5. ASSUME NEW r \in D, NEW g, NEW h, r # 0 => g[r \div 10] = h[r \div 10]
      PROVE  Body(r, g) = Body(r, h)
    BY <1>5
<1>6. V # {}
    <2>1. [r \in Nat |-> r] \in V
        OBVIOUS
    <2> QED
        BY <2>1
<1>7. Def(F) => F = [r \in U16 |-> Body(r, F)]
    <2> HIDE DEF F
    <2> QED
        OBVIOUS
<1>8. \A f : f = [r \in U16 |-> Body(r, f)] => Def(f)
    OBVIOUS
<1> HIDE DEF Body, V
<1>10. step \in [D -> [[D -> V] -> V]]
    BY <1>4
<1>11. \A r \in D : \A g \in [D -> V] : step[r][g] = Body(r, g)
    OBVIOUS
<1> HIDE DEF step
<1>12. ASSUME NEW r \in D, NEW g \in [D -> V], NEW h \in [D -> V],
              \A j \in D : j < r => g[j] = h[j]
       PROVE  step[r][g] = step[r][h]
    <2>1. r # 0 => g[r \div 10] = h[r \div 10]
        BY <1>2, <1>12
    <2>2. Body(r, g) = Body(r, h)
        BY <1>5, <2>1
    <2> QED
        BY <1>11, <2>2
<1>13. PICK f \in [D -> V] : \A r \in D : f[r] = step[r][f]
    <2>1. RecursiveBelow(N, V, step)
        BY <1>1, <1>6, <1>10, <1>12 DEF RecursiveBelow
    <2> QED
        BY <2>1, RecursionBelow
<1>14. f = [r \in U16 |-> Body(r, f)]
    <2>1. f = [r \in D |-> Body(r, f)]
        BY <1>11, <1>13
    <2> HIDE DEF D
    <2> QED
        BY <1>1, <2>1
<1>15. Def(F)
    <2>1. Def(f)
        <3> HIDE DEF Def
        <3> QED
            BY <1>8, <1>14
    <2> HIDE DEF Def
    <2> QED
        BY <2>1, Zenon
<1>16. HashOf = F
    BY DEF HashOf
<1> HIDE DEF F
<1>17. \A r \in D : HashOf[r] = Body(r, HashOf)
    <2>1. HashOf = [r \in U16 |-> Body(r, HashOf)]
        <3> HIDE DEF Def
        <3> QED
            BY <1>7, <1>15, <1>16
    <2> HIDE DEF D
    <2> QED
        BY <1>1, <2>1
<1>18. \A r \in D : HashOf[r] = f[r]
    <2> DEFINE S == {n \in Nat : \A j \in D : j < n => HashOf[j] = f[j]}
    <2>1. 0 \in S
        OBVIOUS
    <2>2. ASSUME NEW n \in Nat, n \in S PROVE n + 1 \in S
        <3> SUFFICES ASSUME NEW j \in D, j < n + 1 PROVE HashOf[j] = f[j]
            OBVIOUS
        <3>1. j # 0 => HashOf[j \div 10] = f[j \div 10]
            BY <1>2, <2>2
        <3>2. Body(j, HashOf) = Body(j, f)
            BY <1>5, <3>1
        <3> QED
            BY <1>11, <1>13, <1>17, <3>2
    <2> HIDE DEF S
    <2>3. N + 1 \in S
        BY <1>1, <2>1, <2>2, NatInSet
    <2> QED
        BY <1>1, <2>3 DEF S
<1> HIDE DEF D
<1>19. \A r \in D : HashOf[r] \in V
    BY <1>13, <1>18
<1> QED
    BY <1>1, <1>19 DEF V

\* Zeros at the end of a version are not in the reversed number.
LEMMA StrippedReversed ==
    \A n \in 0 .. 400 : /\ Stripped[n] \in 0 .. 400
                        /\ Reversed[Stripped[n]][0] = Reversed[n][0]
PROOF
<1> DEFINE N == 400
           D == 0 .. N
           V == D
           step == [n \in D |-> [g \in [D -> V] |-> IF n = 0 \/ n % 10 # 0 THEN n ELSE g[n \div 10]]]
           Def(g) == g = [n \in 0 .. 400 |-> IF n = 0 \/ n % 10 # 0 THEN n ELSE g[n \div 10]]
           F == CHOOSE g : Def(g)
<1>1. N \in Nat /\ D = 0 .. 400
    OBVIOUS
<1> HIDE DEF N
<1>2. ASSUME NEW n \in D, n # 0 PROVE n \div 10 \in D /\ n \div 10 < n
    BY <1>1, <1>2
<1>3. step \in [D -> [[D -> V] -> V]]
    <2> SUFFICES ASSUME NEW n \in D, NEW g \in [D -> V]
                 PROVE  (IF n = 0 \/ n % 10 # 0 THEN n ELSE g[n \div 10]) \in D
        OBVIOUS
    <2>1. n # 0 => g[n \div 10] \in D
        <3> HIDE DEF D
        <3> QED
            BY <1>2
    <2> QED
        BY <2>1
<1>4. \A n \in D : \A g \in [D -> V] : step[n][g] = IF n = 0 \/ n % 10 # 0 THEN n ELSE g[n \div 10]
    OBVIOUS
<1> HIDE DEF step
<1>5. ASSUME NEW n \in D, NEW g \in [D -> V], NEW h \in [D -> V],
             \A j \in D : j < n => g[j] = h[j]
      PROVE  step[n][g] = step[n][h]
    <2>1. n # 0 => g[n \div 10] = h[n \div 10]
        BY <1>2, <1>5
    <2> QED
        BY <1>4, <2>1
<1>6. PICK f \in [D -> V] : \A n \in D : f[n] = step[n][f]
    <2>1. V # {}
        BY <1>1
    <2> HIDE DEF V
    <2>2. RecursiveBelow(N, V, step)
        BY <1>1, <1>3, <1>5, <2>1 DEF RecursiveBelow
    <2> QED
        BY <2>2, RecursionBelow
<1>7. Def(F)
    <2>1. Def(f)
        <3>1. f = [n \in D |-> IF n = 0 \/ n % 10 # 0 THEN n ELSE f[n \div 10]]
            <4>1. \A n \in D : f[n] = IF n = 0 \/ n % 10 # 0 THEN n ELSE f[n \div 10]
                BY <1>4, <1>6
            <4> HIDE DEF D, V
            <4> QED
                BY <1>6, <4>1
        <3> HIDE DEF D
        <3> QED
            BY <1>1, <3>1
    <2> HIDE DEF Def
    <2> QED
        BY <2>1, Zenon
<1>8. Stripped = F
    BY DEF Stripped
<1> HIDE DEF F
<1>9. \A n \in 0 .. 400 : Stripped[n] = IF n = 0 \/ n % 10 # 0 THEN n ELSE Stripped[n \div 10]
    BY <1>7, <1>8
<1> DEFINE P(j) == Stripped[j] \in 0 .. 400 /\ Reversed[Stripped[j]][0] = Reversed[j][0]
           S == {n \in Nat : \A j \in 0 .. 400 : j < n => P(j)}
<1> HIDE DEF P
<1>10. 0 \in S
    OBVIOUS
<1>11. ASSUME NEW n \in Nat, n \in S PROVE n + 1 \in S
    <2> SUFFICES ASSUME NEW j \in 0 .. 400, j < n + 1
                 PROVE  P(j)
        OBVIOUS
    <2>1. CASE j = 0 \/ j % 10 # 0
        BY <1>9, <2>1 DEF P
    <2>2. CASE j # 0 /\ j % 10 = 0
        <3> DEFINE z == 0
        <3>1. j \div 10 \in 0 .. 400 /\ j \div 10 < n
            BY <2>2
        <3>2. Stripped[j] = Stripped[j \div 10]
            BY <1>9, <2>2
        <3>3. z \in U16 /\ WithDigit(z, j) = z
            <4>1. 10 * 0 + (j % 10) = 0
                BY <2>2
            <4>2. 0 % TwoTo16 = 0
                BY U16Is, NotCut
            <4> QED
                BY <4>1, <4>2, U16Is DEF WithDigit
        <3> HIDE DEF z
        <3>4. Reversed[j][z] = Reversed[j \div 10][WithDigit(z, j)]
            BY <2>2, <3>3, ReversedIs
        <3>5. Reversed[j][z] = Reversed[j \div 10][z]
            BY <3>3, <3>4
        <3>6. Reversed[Stripped[j \div 10]][0] = Reversed[j \div 10][0] /\ Stripped[j \div 10] \in 0 .. 400
            <4>1. P(j \div 10)
                BY <1>11, <3>1
            <4> QED
                BY <4>1 DEF P
        <3> QED
            BY <3>2, <3>5, <3>6 DEF P, z
    <2> QED
        BY <2>1, <2>2
<1> HIDE DEF S
<1>12. \A n \in Nat : n \in S
    BY <1>10, <1>11, NatInSet
<1>13. \A n \in 0 .. 400 : P(n)
    <2> SUFFICES ASSUME NEW n \in 0 .. 400 PROVE P(n)
        OBVIOUS
    <2>1. n + 1 \in Nat /\ n < n + 1
        OBVIOUS
    <2>2. n + 1 \in S
        BY <1>12, <2>1
    <2> QED
        BY <2>1, <2>2 DEF S
<1> QED
    BY <1>13 DEF P

\* Versions that differ in zeros at their end have the same hash.
LEMMA SameHash ==
    ASSUME NEW v \in 1 .. 400, NEW w \in 1 .. 400
    PROVE  Hash[v] \in Nat /\ (Stripped[v] = Stripped[w] => Hash[v] = Hash[w])
PROOF
<1> DEFINE z == 0
<1>1. z \in U16 /\ z \in Nat
    BY U16Is
<1>2. ASSUME NEW x \in 1 .. 400 PROVE Hash[x] = HashOf[Reversed[x][z]][z] /\ Reversed[x][z] \in U16
    <2>1. x \in 0 .. 400
        OBVIOUS
    <2>2. Reversed[x] \in [U16 -> U16]
        BY <2>1, ReversedIs
    <2>3. Reversed[x][z] \in U16
        <3> HIDE DEF z
        <3> QED
            BY <1>1, <2>2
    <2> QED
        BY <2>3 DEF Hash
<1>3. Hash[v] \in Nat
    <2> DEFINE r == Reversed[v][z]
    <2>1. r \in U16
        BY <1>2
    <2> HIDE DEF r
    <2>2. HashOf[r] \in [Nat -> Nat]
        BY <2>1, HashType
    <2>3. HashOf[r][z] \in Nat
        <3> HIDE DEF z
        <3> QED
            BY <1>1, <2>2
    <2> QED
        BY <1>2, <2>3 DEF r
<1>4. ASSUME Stripped[v] = Stripped[w] PROVE Reversed[v][z] = Reversed[w][z]
    <2>1. v \in 0 .. 400 /\ w \in 0 .. 400
        OBVIOUS
    <2> QED
        BY <1>4, <2>1, StrippedReversed
<1> HIDE DEF z
<1> QED
    BY <1>2, <1>3, <1>4

-----------------------------------------------------------------------------
(* Sizes and positions *)

LEMMA IntLenType == \A v : IntLen(v) \in Nat \ {0}
    BY DEF IntLen

\* The bytes of a directory up to one of its entries.
LEMMA FrontLenIs ==
    ASSUME NEW es, Len(es) \in Nat, NEW len, \A k \in 1 .. Len(es) : EntryLen(es[k], len) \in Nat
    PROVE  \A k \in 0 .. Len(es) :
                /\ FrontLen(es, len, k) \in Nat
                /\ FrontLen(es, len, k) = IF k = 0 THEN IntLen(Len(es))
                                          ELSE FrontLen(es, len, k - 1) + EntryLen(es[k], len)
PROOF
<1> DEFINE n == Len(es)
           D == 0 .. n
           start == IntLen(Len(es))
           step == [i \in D |-> [g \in [D -> Nat] |->
                        IF i = 0 THEN start ELSE g[i - 1] + EntryLen(es[i], len)]]
           Def(g) == g = [j \in 0 .. Len(es) |->
                        IF j = 0 THEN IntLen(Len(es)) ELSE g[j - 1] + EntryLen(es[j], len)]
           F == CHOOSE g : Def(g)
<1>1. n \in Nat /\ start \in Nat
    BY IntLenType
<1> HIDE DEF start
<1>2. ASSUME NEW i \in D, i # 0 PROVE i - 1 \in D /\ i - 1 < i /\ EntryLen(es[i], len) \in Nat
    <2>1. i \in 1 .. Len(es)
        BY <1>1, <1>2
    <2> QED
        BY <1>1, <2>1
<1>3. step \in [D -> [[D -> Nat] -> Nat]]
    <2> SUFFICES ASSUME NEW i \in D, NEW g \in [D -> Nat]
                 PROVE  (IF i = 0 THEN start ELSE g[i - 1] + EntryLen(es[i], len)) \in Nat
        OBVIOUS
    <2>1. i # 0 => g[i - 1] \in Nat /\ EntryLen(es[i], len) \in Nat
        BY <1>2
    <2> QED
        BY <1>1, <2>1
<1>4. \A i \in D : \A g \in [D -> Nat] :
        step[i][g] = IF i = 0 THEN start ELSE g[i - 1] + EntryLen(es[i], len)
    OBVIOUS
<1> HIDE DEF step
<1>5. ASSUME NEW i \in D, NEW g \in [D -> Nat], NEW h \in [D -> Nat],
             \A j \in D : j < i => g[j] = h[j]
      PROVE  step[i][g] = step[i][h]
    <2>1. i # 0 => g[i - 1] = h[i - 1]
        BY <1>2, <1>5
    <2> QED
        BY <1>4, <2>1
<1>6. PICK f \in [D -> Nat] : \A i \in D : f[i] = step[i][f]
    <2>1. RecursiveBelow(n, Nat, step)
        <3>1. Nat # {}
            OBVIOUS
        <3> HIDE DEF n
        <3> QED
            BY <1>1, <1>3, <1>5, <3>1 DEF RecursiveBelow
    <2> HIDE DEF n
    <2> QED
        BY <2>1, RecursionBelow
<1>7. Def(F)
    <2>1. Def(f)
        <3>1. \A i \in D : f[i] = IF i = 0 THEN start ELSE f[i - 1] + EntryLen(es[i], len)
            BY <1>4, <1>6
        <3>2. f = [i \in D |-> IF i = 0 THEN start ELSE f[i - 1] + EntryLen(es[i], len)]
            <4> HIDE DEF D
            <4> QED
                BY <1>6, <3>1
        <3> QED
            BY <3>2 DEF start
    <2> HIDE DEF Def
    <2> QED
        BY <2>1, Zenon
<1>8. \A k : FrontLen(es, len, k) = F[k]
    BY DEF FrontLen
<1> HIDE DEF F
<1>9. \A i \in D : F[i] = IF i = 0 THEN start ELSE F[i - 1] + EntryLen(es[i], len)
    BY <1>7 DEF start
<1>10. \A i \in D : F[i] \in Nat
    <2> DEFINE S == {i \in D : F[i] \in Nat}
    <2>1. 0 \in S
        BY <1>1, <1>9
    <2>2. ASSUME NEW i \in 0 .. n - 1, i \in S PROVE i + 1 \in S
        <3>1. i + 1 \in D /\ i + 1 # 0 /\ (i + 1) - 1 = i
            BY <1>1
        <3>2. F[i + 1] = F[i] + EntryLen(es[i + 1], len)
            BY <1>9, <3>1
        <3>3. EntryLen(es[i + 1], len) \in Nat
            BY <1>2, <3>1
        <3> QED
            BY <2>2, <3>1, <3>2, <3>3
    <2> HIDE DEF S
    <2>3. \A i \in 0 .. n : i \in S
        BY <1>1, <2>1, <2>2, UpToInSet
    <2> QED
        BY <2>3 DEF S
<1> QED
    BY <1>8, <1>9, <1>10 DEF start

\* The bytes of a directory are those of its nodes only as far as they are named.
LEMMA FrontLenLocal ==
    ASSUME NEW es, Len(es) \in Nat, NEW len, NEW other,
           \A k \in 1 .. Len(es) : EntryLen(es[k], len) \in Nat,
           \A k \in 1 .. Len(es) : EntryLen(es[k], len) = EntryLen(es[k], other)
    PROVE  FrontLen(es, len, Len(es)) = FrontLen(es, other, Len(es))
PROOF
<1> DEFINE n == Len(es)
           S == {k \in 0 .. n : FrontLen(es, len, k) = FrontLen(es, other, k)}
<1>1. \A k \in 0 .. n : FrontLen(es, len, k) =
        IF k = 0 THEN IntLen(Len(es)) ELSE FrontLen(es, len, k - 1) + EntryLen(es[k], len)
    BY FrontLenIs
<1>2. \A k \in 0 .. n : FrontLen(es, other, k) =
        IF k = 0 THEN IntLen(Len(es)) ELSE FrontLen(es, other, k - 1) + EntryLen(es[k], other)
    <2>1. \A k \in 1 .. Len(es) : EntryLen(es[k], other) \in Nat
        OBVIOUS
    <2> QED
        BY <2>1, FrontLenIs
<1>3. 0 \in S
    BY <1>1, <1>2
<1>4. ASSUME NEW k \in 0 .. n - 1, k \in S PROVE k + 1 \in S
    <2>1. k + 1 \in 0 .. n /\ k + 1 # 0 /\ (k + 1) - 1 = k /\ k + 1 \in 1 .. Len(es)
        OBVIOUS
    <2> QED
        BY <1>1, <1>2, <1>4, <2>1
<1> HIDE DEF S
<1>5. \A k \in 0 .. n : k \in S
    BY <1>3, <1>4, UpToInSet
<1> QED
    BY <1>5 DEF S

\* The length of an entry depends on the length of the node it names.
LEMMA EntryLenIs ==
    ASSUME NEW t, NEW i, NEW e, Entry(e, i, t), NEW len
    PROVE  /\ EntryLen(e, len) \in Nat
           /\ \A other : (IsNode(e) => len[e.node] = other[e.node]) => EntryLen(e, len) = EntryLen(e, other)
PROOF
<1>1. CASE e.tag = "null"
    BY <1>1 DEF EntryLen, NullLen
<1>2. CASE e.tag = "link" /\ e.head \in Nat
    BY <1>2 DEF EntryLen, LinkLen, OffsetLen
<1>3. CASE e.tag = "node" /\ e.head \in Nat
    <2>1. \A l : EntryLen(e, l) = 1 + e.head + IntLen(l[e.node]) + OffsetLen
        BY <1>3 DEF EntryLen
    <2>2. IntLen(len[e.node]) \in Nat
        BY IntLenType
    <2> QED
        BY <1>3, <2>1, <2>2 DEF IsNode, OffsetLen
<1> QED
    BY <1>1, <1>2, <1>3 DEF Entry

\* The entries of a directory of the tree.
LEMMA DirIs ==
    ASSUME Tree(tree), NEW i \in DOMAIN tree, IsDir(i)
    PROVE  /\ Len(Entries(i)) \in Nat /\ DOMAIN Entries(i) = 1 .. Len(Entries(i))
           /\ \A k \in DOMAIN Entries(i) :
                /\ Entry(Entries(i)[k], i, tree)
                /\ IsNode(Entries(i)[k]) => Entries(i)[k].node \in i + 1 .. Len(tree)
PROOF
<1>1. tree[i].kind = "dir"
    BY DEF IsDir
<1>2. /\ Len(tree[i].entries) \in Nat
      /\ DOMAIN tree[i].entries = 1 .. Len(tree[i].entries)
      /\ \A k \in DOMAIN tree[i].entries : Entry(tree[i].entries[k], i, tree)
    BY <1>1 DEF Tree, Node
<1>3. \A e : Entry(e, i, tree) /\ IsNode(e) => e.node \in i + 1 .. Len(tree)
    BY DEF Entry, IsNode
<1> QED
    BY <1>2, <1>3 DEF Entries

\* Every node has a length.
LEMMA NodeLenType ==
    ASSUME Tree(tree)
    PROVE  NodeLen \in [DOMAIN tree -> Nat]
PROOF
<1> DEFINE N == Len(tree)
           D == DOMAIN tree
           V == Nat
           rank == [i \in D |-> N - i]
           Body(i, g) == IF IsDir(i) THEN FrontLen(Entries(i), g, Len(Entries(i))) ELSE tree[i].size
           step == [i \in D |-> [g \in [D -> V] |-> Body(i, g)]]
           Def(g) == g = [i \in DOMAIN tree |->
                IF IsDir(i) THEN FrontLen(Entries(i), g, Len(Entries(i))) ELSE tree[i].size]
           F == CHOOSE g : Def(g)
<1>1. N \in Nat /\ D = 1 .. N
    BY DEF Tree
<1>2. ASSUME NEW i \in D, NEW g PROVE Body(i, g) \in Nat
    <2>1. CASE IsDir(i)
        <3>1. \A k \in 1 .. Len(Entries(i)) : EntryLen(Entries(i)[k], g) \in Nat
            BY <2>1, DirIs, EntryLenIs
        <3>2. Len(Entries(i)) \in Nat
            BY <2>1, DirIs
        <3> DEFINE es == Entries(i)
                   l == Len(es)
        <3>3. l \in 0 .. Len(es)
            BY <3>2
        <3>4. FrontLen(es, g, l) \in Nat
            <4> HIDE DEF es
            <4> QED
                BY <3>1, <3>2, <3>3, FrontLenIs DEF es
        <3> QED
            BY <2>1, <3>4
    <2>2. CASE ~IsDir(i)
        <3>1. tree[i].size \in Nat
            BY <2>2 DEF Tree, Node, IsDir
        <3> QED
            BY <2>2, <3>1
    <2> QED
        BY <2>1, <2>2
<1>3. ASSUME NEW i \in D, NEW g, NEW h, \A j \in D : j > i => g[j] = h[j]
      PROVE  Body(i, g) = Body(i, h)
    <2>1. CASE IsDir(i)
        <3> DEFINE es == Entries(i)
        <3>1. Len(es) \in Nat
            BY <2>1, DirIs
        <3>2. ASSUME NEW k \in 1 .. Len(es)
              PROVE  EntryLen(es[k], g) \in Nat /\ EntryLen(es[k], g) = EntryLen(es[k], h)
            <4>1. Entry(es[k], i, tree) /\ (IsNode(es[k]) => es[k].node \in i + 1 .. Len(tree))
                BY <2>1, DirIs
            <4>2. IsNode(es[k]) => g[es[k].node] = h[es[k].node]
                BY <1>1, <1>3, <4>1
            <4> HIDE DEF es
            <4> QED
                BY <4>1, <4>2, EntryLenIs
        <3>3. FrontLen(es, g, Len(es)) = FrontLen(es, h, Len(es))
            <4> HIDE DEF es
            <4> QED
                BY <3>1, <3>2, FrontLenLocal
        <3> QED
            BY <2>1, <3>3
    <2>2. CASE ~IsDir(i)
        BY <2>2
    <2> QED
        BY <2>1, <2>2
<1>4. \A g : Def(g) <=> g = [i \in D |-> Body(i, g)]
    OBVIOUS
<1>5. rank \in [D -> 0 .. N] /\ \A i \in D : rank[i] = N - i
    BY <1>1
<1>6. NodeLen = F
    BY DEF NodeLen
<1> HIDE DEF Body
<1>7. step \in [D -> [[D -> V] -> V]]
    BY <1>2
<1>8. \A i \in D : \A g \in [D -> V] : step[i][g] = Body(i, g)
    OBVIOUS
<1> HIDE DEF D, N, V, rank, step
<1>9. Local(D, rank, V, step)
    <2> SUFFICES ASSUME NEW i \in D, NEW g \in [D -> V], NEW h \in [D -> V],
                        \A j \in D : rank[j] < rank[i] => g[j] = h[j]
                 PROVE  step[i][g] = step[i][h]
        BY DEF Local
    <2>1. \A j \in D : j > i => rank[j] < rank[i]
        BY <1>1, <1>5
    <2>2. Body(i, g) = Body(i, h)
        BY <1>3, <2>1
    <2> QED
        BY <1>8, <2>2
<1>10. Recursive(D, N, rank, V, step)
    <2>1. V # {}
        BY DEF V
    <2> QED
        BY <1>1, <1>5, <1>7, <1>9, <2>1 DEF Recursive
<1>11. PICK f \in [D -> V] : \A i \in D : f[i] = step[i][f]
    BY <1>10, RecursionExists
<1>12. Def(F)
    <2>1. f = [i \in D |-> Body(i, f)]
        BY <1>8, <1>11
    <2>2. Def(f)
        <3> HIDE DEF Def
        <3> QED
            BY <1>4, <2>1
    <2> HIDE DEF Def
    <2> QED
        BY <2>2, Zenon
<1> HIDE DEF F, Def
<1>13. F = [i \in D |-> Body(i, F)]
    BY <1>4, <1>12
<1>14. F \in [D -> Nat]
    <2>1. \A i \in D : Body(i, F) \in Nat
        BY <1>2
    <2> QED
        BY <1>13, <2>1
<1> QED
    BY <1>6, <1>14 DEF D

\* Every node has a place, the root right behind the version.
LEMMA AtType ==
    ASSUME Tree(tree), base \in Nat
    PROVE  /\ At \in [DOMAIN tree -> Nat]
           /\ 1 \in DOMAIN tree /\ At[1] = base + VersionLen
PROOF
<1> DEFINE N == Len(tree)
           D == DOMAIN tree
           V == Nat
           root == base + VersionLen
           rank == [i \in D |-> i]
           step == [i \in D |-> [g \in [D -> V] |-> IF i = 1 THEN root ELSE g[i - 1] + NodeLen[i - 1]]]
           Def(g) == g = [i \in DOMAIN tree |->
                IF i = 1 THEN base + VersionLen ELSE g[i - 1] + NodeLen[i - 1]]
           F == CHOOSE g : Def(g)
<1>1. N \in Nat \ {0} /\ D = 1 .. N /\ 1 \in D
    BY DEF Tree
<1>2. NodeLen \in [D -> Nat] /\ root \in Nat
    BY NodeLenType DEF VersionLen
<1>3. ASSUME NEW i \in D, i # 1 PROVE i - 1 \in D /\ i - 1 < i /\ NodeLen[i - 1] \in Nat
    <2>1. i - 1 \in D
        BY <1>1, <1>3
    <2> HIDE DEF D
    <2> QED
        BY <1>1, <1>2, <2>1
<1>4. rank \in [D -> 0 .. N] /\ \A i \in D : rank[i] = i
    BY <1>1
<1>5. At = F
    BY DEF At
<1> HIDE DEF root, rank
<1>6. step \in [D -> [[D -> V] -> V]]
    <2> SUFFICES ASSUME NEW i \in D, NEW g \in [D -> V]
                 PROVE  (IF i = 1 THEN root ELSE g[i - 1] + NodeLen[i - 1]) \in V
        OBVIOUS
    <2>1. i # 1 => g[i - 1] \in Nat /\ NodeLen[i - 1] \in Nat
        BY <1>3
    <2> QED
        BY <1>2, <2>1
<1>7. \A i \in D : \A g \in [D -> V] :
        step[i][g] = IF i = 1 THEN root ELSE g[i - 1] + NodeLen[i - 1]
    OBVIOUS
<1> HIDE DEF D, N, V, step
<1>8. Local(D, rank, V, step)
    <2> SUFFICES ASSUME NEW i \in D, NEW g \in [D -> V], NEW h \in [D -> V],
                        \A j \in D : rank[j] < rank[i] => g[j] = h[j]
                 PROVE  step[i][g] = step[i][h]
        BY DEF Local
    <2>1. i # 1 => g[i - 1] = h[i - 1]
        BY <1>3, <1>4
    <2> QED
        BY <1>7, <2>1
<1>9. Recursive(D, N, rank, V, step)
    <2>1. V # {}
        BY DEF V
    <2> QED
        BY <1>1, <1>4, <1>6, <1>8, <2>1 DEF Recursive
<1>10. PICK f \in [D -> V] : \A i \in D : f[i] = step[i][f]
    BY <1>9, RecursionExists
<1>11. Def(F)
    <2>1. \A i \in D : f[i] = IF i = 1 THEN root ELSE f[i - 1] + NodeLen[i - 1]
        BY <1>7, <1>10
    <2>2. Def(f)
        <3>1. f = [i \in D |-> IF i = 1 THEN root ELSE f[i - 1] + NodeLen[i - 1]]
            BY <1>10, <2>1
        <3> QED
            BY <3>1 DEF D, root
    <2> HIDE DEF Def
    <2> QED
        BY <2>2, Zenon
<1> HIDE DEF F
<1>12. F = [i \in D |-> IF i = 1 THEN root ELSE F[i - 1] + NodeLen[i - 1]]
    BY <1>11 DEF D, root
<1>13. \A i \in 0 .. N : i = 0 \/ F[i] \in Nat
    <2> DEFINE S == {i \in 0 .. N : i = 0 \/ F[i] \in Nat}
    <2>1. 0 \in S
        BY <1>1
    <2>2. ASSUME NEW i \in 0 .. N - 1, i \in S PROVE i + 1 \in S
        <3>1. i + 1 \in D /\ i + 1 \in 0 .. N /\ (i + 1) - 1 = i
            BY <1>1
        <3>2. F[i + 1] = IF i + 1 = 1 THEN root ELSE F[i] + NodeLen[i]
            BY <1>12, <3>1
        <3>3. CASE i = 0
            BY <1>2, <3>1, <3>2, <3>3
        <3>4. CASE i # 0
            <4>1. F[i] \in Nat /\ NodeLen[i] \in Nat /\ i + 1 # 1
                BY <1>3, <2>2, <3>1, <3>4
            <4> QED
                BY <3>1, <3>2, <4>1
        <3> QED
            BY <3>3, <3>4
    <2> HIDE DEF S
    <2>3. \A i \in 0 .. N : i \in S
        BY <1>1, <2>1, <2>2, UpToInSet
    <2> QED
        BY <2>3 DEF S
<1>14. F \in [D -> Nat]
    <2>1. \A i \in D : F[i] \in Nat
        BY <1>1, <1>13
    <2> QED
        BY <1>12, <2>1
<1>15. F[1] = root
    BY <1>1, <1>12
<1> QED
    BY <1>1, <1>5, <1>14, <1>15 DEF D, root

\* Where the offset of an entry is stored.
LEMMA FieldAtType ==
    ASSUME Tree(tree), base \in Nat, NEW i \in DOMAIN tree, IsDir(i), NEW k \in DOMAIN Entries(i)
    PROVE  FieldAt(i, k) \in Int
PROOF
<1> DEFINE es == Entries(i)
           len == NodeLen
<1>1. Len(es) \in Nat /\ k \in 0 .. Len(es) /\ \A j \in 1 .. Len(es) : EntryLen(es[j], len) \in Nat
    BY DirIs, EntryLenIs
<1> HIDE DEF es, len
<1>2. FrontLen(es, len, k) \in Nat
    BY <1>1, FrontLenIs
<1>3. At[i] \in Nat
    BY AtType
<1> QED
    BY <1>2, <1>3 DEF FieldAt, OffsetLen, es, len

-----------------------------------------------------------------------------
(* Offsets *)

LEMMA WidthIs ==
    W \in Nat \ {0} /\ Bits \in Nat \ {0}
    BY PowersAre, ArchiveAssumption DEF W

LEMMA KeyType ==
    ASSUME base \in Nat, NEW v \in 1 .. 400, NEW pos \in Int
    PROVE  Key(v, pos) \in Nat
PROOF
<1> DEFINE h == Hash[v]
           a == (W - 1 - (pos - base)) * h - Magic
           off == a % W
           n == off % Bits
           p == Pow2[n]
           q == Pow2[Bits - n]
<1>1. W \in Nat \ {0} /\ Bits \in Nat \ {0} /\ Magic \in Int
    BY WidthIs, ArchiveAssumption
<1>2. h \in Nat
    BY SameHash
<1> HIDE DEF h
<1>3. a \in Int
    BY <1>1, <1>2
<1> HIDE DEF a
<1>4. off \in Nat
    BY <1>1, <1>3
<1> HIDE DEF off
<1>5. n \in 0 .. Bits - 1
    BY <1>1, <1>4
<1> HIDE DEF n
<1>6. p \in Nat /\ q \in Nat \ {0}
    <2>1. n \in 0 .. Bits /\ Bits - n \in 0 .. Bits
        BY <1>1, <1>5
    <2> QED
        BY <2>1, PowersAre
<1> HIDE DEF p, q
<1>7. (off * p) % W \in Nat
    <2> DEFINE x == off * p
    <2>1. x \in Int
        BY <1>4, <1>6
    <2> HIDE DEF x
    <2>2. x % W \in Nat
        BY <1>1, <2>1
    <2> QED
        BY <2>2 DEF x
<1>8. off \div q \in Nat
    <2> DEFINE d == off \div q
    <2>1. off = q * d + (off % q) /\ off % q \in 0 .. q - 1 /\ d \in Int
        BY <1>4, <1>6
    <2> HIDE DEF d
    <2>2. ASSUME d <= -1 PROVE FALSE
        <3>1. q * d <= q * (-1)
            BY <1>6, <2>1, <2>2
        <3> QED
            BY <1>4, <1>6, <2>1, <3>1
    <2>3. d \in Nat
        BY <2>1, <2>2
    <2> QED
        BY <2>3 DEF d
<1> QED
    BY <1>7, <1>8 DEF Key, RotateLeft, h, a, off, n, p, q

\* What the version wrote is read back by it and by those that differ from it in
\* zeros at their end, where it was written.
LEMMA OffsetIsRead ==
    ASSUME base \in Nat, NEW v \in 1 .. 400, NEW w \in 1 .. 400, Stripped[w] = Stripped[v],
           NEW pos \in Int, NEW off \in 0 .. W - 1
    PROVE  DecryptOffset(w, EncryptOffset(v, off, pos), pos) = off
PROOF
<1> DEFINE k == Key(v, pos)
           b == 2 * base
           a == (off - b) % W
           enc == Xor(Bits, a, k)
<1>1. Key(w, pos) = k
    <2>1. Hash[w] = Hash[v]
        BY SameHash
    <2> QED
        BY <2>1 DEF Key
<1>2. k \in Nat
    BY KeyType
<1>3. b \in Int
    OBVIOUS
<1>4. EncryptOffset(v, off, pos) = enc /\ DecryptOffset(w, enc, pos) = (Xor(Bits, k, enc) + b) % W
    BY <1>1 DEF EncryptOffset, DecryptOffset
<1> HIDE DEF k, b
<1>5. a \in 0 .. W - 1 /\ (a + b) % W = off
    BY <1>3, WidthIs, ShiftedBack
<1> HIDE DEF a
<1>6. Xor(Bits, k, enc) = a
    <2>1. Bits \in 0 .. Bits /\ a \in 0 .. Pow2[Bits] - 1
        BY <1>5, WidthIs DEF W
    <2> QED
        BY <1>2, <2>1, XorCancels
<1> QED
    BY <1>4, <1>5, <1>6

-----------------------------------------------------------------------------
(* The inductive invariant *)

\* Every node lies where an offset can say: WzOffset is a u32, and the program
\* that lays the nodes out has to keep to that.
Fits == \A i \in DOMAIN tree : At[i] < W

\* What WriteArchive writes, and what a reader should make of a directory.
Stored ==
    [i \in Dirs |-> [k \in DOMAIN Entries(i) |->
                        IF IsNode(Entries(i)[k]) THEN StoredAt(i, k) ELSE None]]
Listing(i) ==
    [dir |-> i,
     offsets |-> [k \in DOMAIN Entries(i) |->
                    IF IsNode(Entries(i)[k]) THEN At[Entries(i)[k].node] ELSE None]]

SubReader(i) == [node |-> i, offset |-> At[i]]
Mark(i, r) == [node |-> i, rel |-> r, place |-> At[i] + r]

ArchiveInv == tree \in Trees /\ base \in Bases /\ ver \in Versions

\* Nothing is read before the archive is opened, nor opened before it is written.
OrderInv ==
    /\ file \in {None, Stored}
    /\ opened # None => opened \in 1 .. 400 /\ file = Stored
    /\ opened = None => listing = None /\ sub = None /\ marks = {}

ListingInv == listing = None \/ \E i \in Dirs : listing = Listing(i)
SubInv ==
    \/ sub = None
    \/ \E i \in DOMAIN tree : sub = SubReader(i) /\ inner \in Nat /\ At[i] <= inner
MarksInv == \A m \in marks : \E i \in DOMAIN tree : \E r \in Nat : m = Mark(i, r)

\* The places agree: the listing says where the nodes are, the reader of an img is
\* nowhere in front of it, though perhaps behind it, and a mark was made there.
PlacesInv == RightVersion /\ Fits => ListingInv /\ SubInv /\ MarksInv

IInv == ArchiveInv /\ OrderInv /\ PlacesInv

LEMMA ArchiveIs ==
    ASSUME ArchiveInv
    PROVE  Tree(tree) /\ base \in Nat /\ ver \in 1 .. 400
    BY ArchiveAssumption DEF ArchiveInv

\* As long as the archive is the same, so is everything that follows from it.
LEMMA SameArchive ==
    ASSUME UNCHANGED archive
    PROVE  /\ ArchiveInv' <=> ArchiveInv
           /\ Fits' <=> Fits
           /\ Stored' = Stored /\ Dirs' = Dirs /\ At' = At /\ NodeLen' = NodeLen
           /\ \A i : Listing(i)' = Listing(i) /\ SubReader(i)' = SubReader(i)
           /\ \A i, r : Mark(i, r)' = Mark(i, r)
PROOF
<1>1. tree' = tree /\ base' = base /\ ver' = ver
    BY DEF archive
<1>2. Dirs' = Dirs /\ \A i : Entries(i)' = Entries(i) /\ IsDir(i)' = IsDir(i)
    BY <1>1 DEF Dirs, IsDir, Entries
<1>3. NodeLen' = NodeLen
    BY <1>1 DEF NodeLen, IsDir, Entries
<1>4. At' = At
    BY <1>1, <1>3 DEF At
<1>5. \A i, k : FieldAt(i, k)' = FieldAt(i, k)
    BY <1>2, <1>3, <1>4 DEF FieldAt
<1>6. \A i, k : StoredAt(i, k)' = StoredAt(i, k)
    BY <1>1, <1>2, <1>4, <1>5 DEF StoredAt, EncryptOffset, Key
<1>7. Stored' = Stored
    BY <1>2, <1>6 DEF Stored
<1>8. ArchiveInv' <=> ArchiveInv
    BY <1>1 DEF ArchiveInv
<1>9. Fits' <=> Fits
    BY <1>1, <1>4 DEF Fits
<1>10. \A i : Listing(i)' = Listing(i)
    BY <1>2, <1>4 DEF Listing
<1>11. /\ \A i : SubReader(i)' = SubReader(i)
       /\ \A i, r : Mark(i, r)' = Mark(i, r)
    BY <1>3, <1>4 DEF SubReader, Mark
<1> QED
    BY <1>2, <1>3, <1>4, <1>7, <1>8, <1>9, <1>10, <1>11

\* The reader makes of every offset of a directory the place of its node.
LEMMA DirIsRead ==
    ASSUME IInv, RightVersion, Fits, NEW i \in Dirs
    PROVE  [k \in DOMAIN Entries(i) |-> IF IsNode(Entries(i)[k]) THEN Loaded(i, k) ELSE None]
                = Listing(i).offsets
PROOF
<1>1. Tree(tree) /\ base \in Nat /\ ver \in 1 .. 400
    BY ArchiveIs DEF IInv
<1>2. opened \in 1 .. 400 /\ file = Stored /\ Stripped[opened] = Stripped[ver]
    BY DEF IInv, OrderInv, RightVersion
<1>3. i \in DOMAIN tree /\ IsDir(i)
    BY DEF Dirs
<1>4. ASSUME NEW k \in DOMAIN Entries(i), IsNode(Entries(i)[k])
      PROVE  Loaded(i, k) = At[Entries(i)[k].node]
    <2> DEFINE off == At[Entries(i)[k].node]
               pos == FieldAt(i, k)
    <2>1. Entries(i)[k].node \in DOMAIN tree
        <3>1. Entries(i)[k].node \in i + 1 .. Len(tree)
            BY <1>1, <1>3, <1>4, DirIs
        <3>2. DOMAIN tree = 1 .. Len(tree) /\ Len(tree) \in Nat
            BY <1>1 DEF Tree
        <3> QED
            BY <1>3, <3>1, <3>2
    <2>2. off \in 0 .. W - 1
        <3>1. off \in Nat /\ off < W
            BY <1>1, <2>1, AtType DEF Fits
        <3> QED
            BY <3>1, WidthIs
    <2>3. pos \in Int
        BY <1>1, <1>3, FieldAtType
    <2>4. file[i][k] = EncryptOffset(ver, off, pos)
        BY <1>2, <1>4 DEF Stored, StoredAt
    <2>5. Loaded(i, k) = DecryptOffset(opened, EncryptOffset(ver, off, pos), pos)
        BY <2>4 DEF Loaded
    <2> HIDE DEF off, pos
    <2>6. DecryptOffset(opened, EncryptOffset(ver, off, pos), pos) = off
        BY <1>1, <1>2, <2>2, <2>3, OffsetIsRead
    <2> QED
        BY <2>5, <2>6 DEF off
<1>5. Listing(i).offsets =
        [k \in DOMAIN Entries(i) |-> IF IsNode(Entries(i)[k]) THEN At[Entries(i)[k].node] ELSE None]
    BY DEF Listing
<1> QED
    BY <1>4, <1>5

\* What a reader of the right version gets where a directory lies.
LEMMA ListingIsRead ==
    ASSUME IInv, RightVersion, Fits, NEW offset, ReadDirAt(offset), \E i \in Dirs : At[i] = offset
    PROVE  \E i \in Dirs : listing' = Listing(i)
PROOF
<1> DEFINE i == CHOOSE j \in Dirs : At[j] = offset
<1>1. i \in Dirs
    OBVIOUS
<1>2. listing' = [dir |-> i,
                  offsets |-> [k \in DOMAIN Entries(i) |->
                                IF IsNode(Entries(i)[k]) THEN Loaded(i, k) ELSE None]]
    BY DEF ReadDirAt
<1> HIDE DEF i
<1>3. listing' = [dir |-> i, offsets |-> Listing(i).offsets]
    BY <1>1, <1>2, DirIsRead
<1>4. listing' = Listing(i)
    BY <1>3 DEF Listing
<1> QED
    BY <1>1, <1>4

\* The nodes that a listing names.
LEMMA ListedAre ==
    ASSUME IInv, RightVersion, Fits, NEW kind, NEW k \in Listed(kind)
    PROVE  \E i \in DOMAIN tree : /\ i = Entries(listing.dir)[k].node
                                  /\ tree[i].kind = kind
                                  /\ listing.offsets[k] = At[i]
PROOF
<1>1. listing # None /\ listing # Misread
    BY DEF Listed
<1>2. PICK d \in Dirs : listing = Listing(d)
    BY <1>1 DEF IInv, PlacesInv, ListingInv
<1>3. k \in DOMAIN Entries(d) /\ IsNode(Entries(d)[k]) /\ tree[Entries(d)[k].node].kind = kind
    BY <1>1, <1>2 DEF Listed, Listing
<1>4. Tree(tree) /\ d \in DOMAIN tree /\ IsDir(d)
    BY ArchiveIs DEF IInv, Dirs
<1>5. Entries(d)[k].node \in DOMAIN tree
    <2>1. Entries(d)[k].node \in d + 1 .. Len(tree)
        BY <1>3, <1>4, DirIs
    <2>2. DOMAIN tree = 1 .. Len(tree) /\ Len(tree) \in Nat
        BY <1>4 DEF Tree
    <2> QED
        BY <1>4, <2>1, <2>2
<1>6. listing.offsets[k] = At[Entries(d)[k].node] /\ listing.dir = d
    BY <1>2, <1>3 DEF Listing
<1> QED
    BY <1>3, <1>5, <1>6

-----------------------------------------------------------------------------
(* The steps *)

LEMMA InitInv == Init => IInv
    BY DEF Init, IInv, ArchiveInv, OrderInv, PlacesInv, ListingInv, SubInv, MarksInv

LEMMA WriteArchiveInv == IInv /\ WriteArchive => IInv'
PROOF
<1> SUFFICES ASSUME IInv, WriteArchive PROVE IInv'
    OBVIOUS
<1>1. UNCHANGED <<archive, opened, listing, sub, inner, marks>> /\ file = None
    BY DEF WriteArchive
<1>2. file' = Stored
    BY DEF WriteArchive, Stored
<1>3. ArchiveInv' /\ Stored' = Stored
    BY <1>1, SameArchive DEF IInv
<1>4. OrderInv'
    BY <1>1, <1>2, <1>3 DEF IInv, OrderInv
<1>5. PlacesInv'
    <2>1. RightVersion' <=> RightVersion
        BY <1>1 DEF RightVersion, archive
    <2>2. (ListingInv' <=> ListingInv) /\ (SubInv' <=> SubInv) /\ (MarksInv' <=> MarksInv)
        BY <1>1, SameArchive DEF ListingInv, SubInv, MarksInv, archive
    <2> QED
        BY <1>1, <2>1, <2>2, SameArchive DEF IInv, PlacesInv
<1> QED
    BY <1>3, <1>4, <1>5 DEF IInv

LEMMA OpenInv == IInv /\ Open => IInv'
PROOF
<1> SUFFICES ASSUME IInv, Open PROVE IInv'
    OBVIOUS
<1>1. UNCHANGED <<archive, file, listing, sub, inner, marks>> /\ file # None /\ opened = None
    BY DEF Open
<1>2. opened' \in 1 .. 400
    BY DEF Open, Detected
<1>3. ArchiveInv' /\ Stored' = Stored
    BY <1>1, SameArchive DEF IInv
<1>4. listing' = None /\ sub' = None /\ marks' = {}
    BY <1>1 DEF IInv, OrderInv
<1>5. OrderInv'
    BY <1>1, <1>2, <1>3, <1>4 DEF IInv, OrderInv
<1>6. PlacesInv'
    BY <1>4 DEF PlacesInv, ListingInv, SubInv, MarksInv
<1> QED
    BY <1>3, <1>5, <1>6 DEF IInv

\* A step of the open reader: the archive and what was written and opened stay.
Reads == opened # None /\ UNCHANGED <<archive, file, opened>>

LEMMA ReadsKeep ==
    ASSUME IInv, Reads
    PROVE  ArchiveInv' /\ OrderInv' /\ (RightVersion' <=> RightVersion) /\ (Fits' <=> Fits)
PROOF
<1>1. opened' = opened /\ file' = file /\ ver' = ver /\ opened # None /\ UNCHANGED archive
    BY DEF Reads, archive
<1>2. ArchiveInv' /\ Stored' = Stored /\ (Fits' <=> Fits)
    BY <1>1, SameArchive DEF IInv
<1>3. OrderInv'
    BY <1>1, <1>2 DEF IInv, OrderInv
<1>4. RightVersion' <=> RightVersion
    BY <1>1 DEF RightVersion
<1> QED
    BY <1>2, <1>3, <1>4

LEMMA ReadDirAtInv ==
    ASSUME IInv, NEW offset, ReadDirAt(offset),
           RightVersion /\ Fits => \E i \in Dirs : At[i] = offset
    PROVE  IInv'
PROOF
<1>1. Reads /\ sub' = None /\ marks' = marks /\ UNCHANGED archive
    BY DEF ReadDirAt, Reads
<1>2. ArchiveInv' /\ OrderInv' /\ (RightVersion' <=> RightVersion) /\ (Fits' <=> Fits)
    BY <1>1, ReadsKeep
<1>3. ASSUME RightVersion, Fits PROVE ListingInv' /\ SubInv' /\ MarksInv'
    <2>1. ListingInv'
        <3>1. PICK i \in Dirs : listing' = Listing(i)
            BY <1>3, ListingIsRead
        <3>2. i \in Dirs' /\ listing' = Listing(i)'
            BY <1>1, <3>1, SameArchive
        <3> QED
            BY <3>2 DEF ListingInv
    <2>2. SubInv'
        BY <1>1 DEF SubInv
    <2>3. MarksInv'
        BY <1>1, <1>3, SameArchive DEF IInv, PlacesInv, MarksInv, archive
    <2> QED
        BY <2>1, <2>2, <2>3
<1> QED
    BY <1>2, <1>3 DEF IInv, PlacesInv

LEMMA ReadRootDirInv == IInv /\ ReadRootDir => IInv'
PROOF
<1> SUFFICES ASSUME IInv, ReadRootDir PROVE IInv'
    OBVIOUS
<1>1. 1 \in Dirs /\ At[1] = base + VersionLen
    BY ArchiveIs, AtType DEF IInv, Dirs, IsDir, Tree
<1> QED
    BY <1>1, ReadDirAtInv DEF ReadRootDir

LEMMA ReadDirNodeInv == IInv /\ ReadDirNode => IInv'
PROOF
<1> SUFFICES ASSUME IInv, NEW k \in Listed("dir"), ReadDirAt(listing.offsets[k]) PROVE IInv'
    BY DEF ReadDirNode
<1>1. ASSUME RightVersion, Fits PROVE \E i \in Dirs : At[i] = listing.offsets[k]
    BY <1>1, ListedAre DEF Dirs, IsDir
<1> QED
    BY <1>1, ReadDirAtInv

LEMMA ImgReaderInv == IInv /\ ImgReader => IInv'
PROOF
<1> SUFFICES ASSUME IInv, NEW k \in Listed("img"),
                    sub' = [node |-> Entries(listing.dir)[k].node, offset |-> listing.offsets[k]],
                    inner' = listing.offsets[k],
                    UNCHANGED <<archive, file, opened, listing, marks>>
             PROVE  IInv'
    BY DEF ImgReader
<1>1. opened # None
    BY DEF Listed, IInv, OrderInv
<1>2. Reads
    BY <1>1 DEF Reads
<1>3. ArchiveInv' /\ OrderInv' /\ (RightVersion' <=> RightVersion) /\ (Fits' <=> Fits)
    BY <1>2, ReadsKeep
<1>4. ASSUME RightVersion, Fits PROVE ListingInv' /\ SubInv' /\ MarksInv'
    <2>1. PICK i \in DOMAIN tree : i = Entries(listing.dir)[k].node /\ listing.offsets[k] = At[i]
        BY <1>4, ListedAre
    <2>2. sub' = SubReader(i) /\ inner' = At[i]
        BY <2>1 DEF SubReader
    <2>3. At[i] \in Nat
        BY ArchiveIs, AtType DEF IInv
    <2>4. SubInv'
        <3>1. /\ i \in (DOMAIN tree)' /\ sub' = SubReader(i)'
              /\ inner' \in Nat /\ (At[i] <= inner)'
            BY <2>2, <2>3, SameArchive DEF archive
        <3> QED
            BY <3>1 DEF SubInv
    <2>5. ListingInv' /\ MarksInv'
        BY <1>4, SameArchive DEF IInv, PlacesInv, ListingInv, MarksInv, archive
    <2> QED
        BY <2>4, <2>5
<1> QED
    BY <1>3, <1>4 DEF IInv, PlacesInv

\* The reader of an img has moved, but not to the front of it.
LEMMA MovedInv ==
    ASSUME IInv, sub # None, UNCHANGED <<archive, file, opened, listing, sub, marks>>,
           RightVersion /\ Fits => \A i \in DOMAIN tree :
                sub = SubReader(i) => inner' \in Nat /\ At[i] <= inner'
    PROVE  IInv'
PROOF
<1>1. Reads
    BY DEF Reads, IInv, OrderInv
<1>2. ArchiveInv' /\ OrderInv' /\ (RightVersion' <=> RightVersion) /\ (Fits' <=> Fits)
    BY <1>1, ReadsKeep
<1>3. ASSUME RightVersion, Fits PROVE ListingInv' /\ SubInv' /\ MarksInv'
    <2>1. PICK i \in DOMAIN tree : sub = SubReader(i)
        BY <1>3 DEF IInv, PlacesInv, SubInv
    <2>2. inner' \in Nat /\ At[i] <= inner'
        BY <1>3, <2>1
    <2>3. SubInv'
        <3>1. /\ i \in (DOMAIN tree)' /\ sub' = SubReader(i)'
              /\ inner' \in Nat /\ (At[i] <= inner)'
            BY <2>1, <2>2, SameArchive DEF archive
        <3> QED
            BY <3>1 DEF SubInv
    <2>4. ListingInv' /\ MarksInv'
        BY <1>3, SameArchive DEF IInv, PlacesInv, ListingInv, MarksInv, archive
    <2> QED
        BY <2>3, <2>4
<1> QED
    BY <1>2, <1>3 DEF IInv, PlacesInv

\* A read moves forward or, behind the end of the file, nowhere, and so does a skip.
LEMMA ForwardInv ==
    ASSUME IInv, NEW n \in ReadSizes, ReadImg(n) \/ SkipImg(n)
    PROVE  IInv'
PROOF
<1>0. sub # None /\ UNCHANGED <<archive, file, opened, listing, sub, marks>>
    BY DEF ReadImg, SkipImg
<1>1. ASSUME RightVersion, Fits, NEW i \in DOMAIN tree, sub = SubReader(i)
      PROVE  inner' \in Nat /\ At[i] <= inner'
    <2>1. At[i] \in Nat /\ n \in Nat
        BY ArchiveIs, AtType, ArchiveAssumption DEF IInv
    <2>2. inner \in Nat /\ At[i] <= inner
        <3>1. PICK j \in DOMAIN tree : sub = SubReader(j) /\ inner \in Nat /\ At[j] <= inner
            BY <1>0, <1>1 DEF IInv, PlacesInv, SubInv
        <3>2. j = i
            BY <1>1, <3>1 DEF SubReader
        <3> QED
            BY <3>1, <3>2
    <2>3. FileEnd \in Nat
        <3>1. Tree(tree) /\ base \in Nat
            BY ArchiveIs DEF IInv
        <3>2. Len(tree) \in DOMAIN tree
            BY <3>1 DEF Tree
        <3> QED
            BY <3>1, <3>2, AtType, NodeLenType DEF FileEnd
    <2>4. inner' = inner + n \/ (inner <= FileEnd /\ inner' = FileEnd) \/ inner' = inner
        BY DEF ReadImg, SkipImg
    <2> QED
        BY <2>1, <2>2, <2>3, <2>4
<1> QED
    BY <1>0, <1>1, MovedInv

\* A resolved reference is at the byte where it was taken.
LEMMA ResolvedIs ==
    ASSUME IInv, RightVersion, Fits, NEW m \in marks, ResolveReference(m)
    PROVE  \E i \in DOMAIN tree : sub = SubReader(i) /\ inner' = m.place /\ m.place \in Nat /\ At[i] <= m.place
PROOF
<1>1. sub # None /\ sub.node = m.node /\ inner' = SeekStart(m.rel)
    BY DEF ResolveReference
<1>2. PICK i \in DOMAIN tree : sub = SubReader(i)
    BY <1>1 DEF IInv, PlacesInv, SubInv
<1>3. PICK j \in DOMAIN tree : \E r \in Nat : m = Mark(j, r)
    BY DEF IInv, PlacesInv, MarksInv
<1>4. PICK r \in Nat : m = Mark(j, r)
    BY <1>3
<1>5. j = i /\ inner' = r + At[i] /\ m.place = At[i] + r
    BY <1>1, <1>2, <1>4 DEF SubReader, Mark, SeekStart
<1>6. At[i] \in Nat
    BY ArchiveIs, AtType DEF IInv
<1> QED
    BY <1>2, <1>4, <1>5, <1>6

LEMMA ResolveInv == ASSUME IInv, NEW m \in marks, ResolveReference(m) PROVE IInv'
PROOF
<1>1. sub # None /\ UNCHANGED <<archive, file, opened, listing, sub, marks>>
    BY DEF ResolveReference
<1>2. ASSUME RightVersion, Fits, NEW i \in DOMAIN tree, sub = SubReader(i)
      PROVE  inner' \in Nat /\ At[i] <= inner'
    <2>1. PICK j \in DOMAIN tree : /\ sub = SubReader(j) /\ inner' = m.place
                                   /\ m.place \in Nat /\ At[j] <= m.place
        BY <1>2, ResolvedIs
    <2>2. j = i
        BY <1>2, <2>1 DEF SubReader
    <2> QED
        BY <2>1, <2>2
<1> QED
    BY <1>1, <1>2, MovedInv

LEMMA KeepReferenceInv == IInv /\ KeepReference => IInv'
PROOF
<1> SUFFICES ASSUME IInv, KeepReference PROVE IInv'
    OBVIOUS
<1>1. /\ sub # None /\ UNCHANGED <<archive, file, opened, listing, sub, inner>>
      /\ marks' = marks \union {[node |-> sub.node, rel |-> StreamPosition, place |-> inner]}
    BY DEF KeepReference
<1>2. Reads
    BY <1>1 DEF Reads, IInv, OrderInv
<1>3. ArchiveInv' /\ OrderInv' /\ (RightVersion' <=> RightVersion) /\ (Fits' <=> Fits)
    BY <1>2, ReadsKeep
<1>4. ASSUME RightVersion, Fits PROVE ListingInv' /\ SubInv' /\ MarksInv'
    <2>1. ListingInv' /\ SubInv'
        BY <1>1, <1>4, SameArchive DEF IInv, PlacesInv, ListingInv, SubInv, archive
    <2>2. PICK i \in DOMAIN tree : sub = SubReader(i) /\ inner \in Nat /\ At[i] <= inner
        BY <1>1, <1>4 DEF IInv, PlacesInv, SubInv
    <2> DEFINE r == inner - At[i]
    <2>3. At[i] \in Nat
        BY ArchiveIs, AtType DEF IInv
    <2>4. r \in Nat /\ inner = At[i] + r
        BY <2>2, <2>3
    <2>5. StreamPosition = r /\ sub.node = i
        BY <2>2 DEF StreamPosition, SubReader
    <2> HIDE DEF r
    <2>6. [node |-> sub.node, rel |-> StreamPosition, place |-> inner] = Mark(i, r)
        BY <2>4, <2>5 DEF Mark
    <2>7. ASSUME NEW m \in marks' PROVE \E j \in DOMAIN tree : \E q \in Nat : m = Mark(j, q)
        <3>1. CASE m \in marks
            BY <1>4, <3>1 DEF IInv, PlacesInv, MarksInv
        <3>2. CASE m \notin marks
            BY <1>1, <2>4, <2>6, <3>2
        <3> QED
            BY <3>1, <3>2
    <2>8. MarksInv'
        BY <1>1, <2>7, SameArchive DEF MarksInv, archive
    <2> QED
        BY <2>1, <2>8
<1> QED
    BY <1>3, <1>4 DEF IInv, PlacesInv

LEMMA StutterInv == IInv /\ UNCHANGED vars => IInv'
PROOF
<1> SUFFICES ASSUME IInv, UNCHANGED vars PROVE IInv'
    OBVIOUS
<1>1. UNCHANGED <<archive, file, opened, listing, sub, inner, marks>>
    BY DEF vars
<1>2. ArchiveInv' /\ OrderInv'
    BY <1>1, SameArchive DEF IInv, OrderInv
<1>3. (RightVersion' <=> RightVersion) /\ (Fits' <=> Fits)
    BY <1>1, SameArchive DEF RightVersion, archive
<1>4. (ListingInv' <=> ListingInv) /\ (SubInv' <=> SubInv) /\ (MarksInv' <=> MarksInv)
    BY <1>1, SameArchive DEF ListingInv, SubInv, MarksInv, archive
<1> QED
    BY <1>2, <1>3, <1>4 DEF IInv, PlacesInv

\* The invariant is kept whatever is written, opened and read.
THEOREM Invariance == Spec => []IInv
PROOF
<1>1. IInv /\ [Next]_vars => IInv'
    BY WriteArchiveInv, OpenInv, ReadRootDirInv, ReadDirNodeInv, ImgReaderInv, ForwardInv,
       KeepReferenceInv, ResolveInv, StutterInv DEF Next
<1> QED
    BY <1>1, InitInv, PTL DEF Spec

\* A reader that was opened with the writer's version, or with one that differs
\* in zeros at its end, follows every entry to its node, as long as the archive
\* does not outgrow its offsets: WzOffset, offset_key_at and read_dir_node_at.
THEOREM OffsetsLead == Spec => [](Fits => EntriesFindTheirNodes)
PROOF
<1>1. IInv => (Fits => EntriesFindTheirNodes)
    <2> SUFFICES ASSUME IInv, Fits, RightVersion, listing # None
                 PROVE  /\ listing # Misread
                        /\ \A k \in DOMAIN listing.offsets :
                            LET e == Entries(listing.dir)[k]
                            IN  IsNode(e) => listing.offsets[k] = At[e.node]
        BY DEF EntriesFindTheirNodes
    <2>1. PICK i \in Dirs : listing = Listing(i)
        BY DEF IInv, PlacesInv, ListingInv
    <2>2. \A k \in DOMAIN listing.offsets :
            LET e == Entries(listing.dir)[k]
            IN  IsNode(e) => listing.offsets[k] = At[e.node]
        BY <2>1 DEF Listing
    <2>3. listing # Misread
        <3> DEFINE n == Len(Entries(i))
                   V == Nat \union {None}
                   o == Listing(i).offsets
        <3>1. Tree(tree) /\ base \in Nat /\ i \in DOMAIN tree /\ IsDir(i)
            BY ArchiveIs DEF IInv, Dirs
        <3>2. n \in Nat /\ DOMAIN Entries(i) = 1 .. n
            BY <3>1, DirIs
        <3>3. ASSUME NEW k \in 1 .. n PROVE o[k] \in V
            <4>1. IsNode(Entries(i)[k]) => Entries(i)[k].node \in DOMAIN tree
                <5>1. IsNode(Entries(i)[k]) => Entries(i)[k].node \in i + 1 .. Len(tree)
                    BY <3>1, <3>2, DirIs
                <5>2. DOMAIN tree = 1 .. Len(tree) /\ Len(tree) \in Nat
                    BY <3>1 DEF Tree
                <5> QED
                    BY <3>1, <5>1, <5>2
            <4> QED
                BY <3>1, <3>2, <4>1, AtType DEF Listing
        <3>4. o \in [1 .. n -> V]
            BY <3>2, <3>3 DEF Listing
        <3> HIDE DEF n, V, o
        <3>5. o \in Seq(V)
            BY <3>2, <3>4, SeqIs
        <3>6. Listing(i) \in [dir : Nat, offsets : Seq(V)]
            <4>1. i \in Nat
                BY <3>1 DEF Tree
            <4>2. Listing(i) = [dir |-> i, offsets |-> o]
                BY DEF Listing, o
            <4> QED
                BY <3>5, <4>1, <4>2
        <3> QED
            BY <2>1, <3>6, ArchiveAssumption DEF V
    <2> QED
        BY <2>2, <2>3
<1> QED
    BY <1>1, Invariance, PTL

\* And a data reference of an img leads every later reader of that img back to the
\* byte where it was taken, whatever was read in between and although no reader is
\* kept within its img: SubReader::create and SubReader::seek.
THEOREM ReferencesLead == Spec /\ []Fits => ReferencesLeadBack
PROOF
<1>1. IInv /\ Fits /\ [Next]_vars
        => [\A m \in marks : RightVersion /\ ResolveReference(m) => inner' = m.place]_vars
    BY ResolvedIs
<1> QED
    BY <1>1, Invariance, PTL DEF Spec, ReferencesLeadBack
=============================================================================
