------------------------- MODULE ConfigValidate_proofs -------------------------
(***************************************************************************)
(* What holds of every declaration, document and rounding, whatever the    *)
(* constants of ConfigValidate are: what Schema accepted keeps the         *)
(* promises it makes, what validate() accepted can be extracted, and the   *)
(* emitted schema accepts the documents that validate() accepts.           *)
(*                                                                         *)
(* The last goes from the inside out: the numbers (rounding to a double),  *)
(* a node to each of the two readers, a field of each kind, the places     *)
(* that the two get to, arrays and objects at such a place, the document.  *)
(***************************************************************************)
EXTENDS ConfigValidate, DataLemmas, SequenceTheorems

-----------------------------------------------------------------------------
(* Powers of two *)

Doubles(f, n) == f = [k \in 0..n |-> IF k = 0 THEN 1 ELSE 2 * f[k - 1]]

(* There is one table of the first powers of two. *)
LEMMA DoublesUnique ==
  ASSUME NEW n \in Nat, NEW f, NEW g, Doubles(f, n), Doubles(g, n)
  PROVE  f = g
<1>. DEFINE S == {k \in Nat : k \in 0..n => f[k] = g[k]}
<1>1. 0 \in S
  BY DEF Doubles
<1>2. \A k \in Nat : k \in S => k + 1 \in S
  <2>. SUFFICES ASSUME NEW k \in Nat, k \in S, k + 1 \in 0..n PROVE f[k + 1] = g[k + 1]
    OBVIOUS
  <2>1. k \in 0..n /\ k + 1 # 0 /\ (k + 1) - 1 = k
    OBVIOUS
  <2>. QED
    BY <2>1 DEF Doubles
<1>3. \A k \in Nat : k \in S
  <2>. HIDE DEF S
  <2>. QED
    BY <1>1, <1>2, NatSetInduction
<1>4. f = [k \in 0..n |-> f[k]] /\ g = [k \in 0..n |-> g[k]]
  BY DEF Doubles
<1>5. \A k \in 0..n : f[k] = g[k]
  BY <1>3
<1>. QED
  BY <1>4, <1>5

(* There is such a table, for every length. *)
LEMMA DoublesExist == \A n \in Nat : \E f : Doubles(f, n)
<1>. DEFINE S == {n \in Nat : \E f : Doubles(f, n)}
<1>1. 0 \in S
  <2>. DEFINE f == [k \in 0..0 |-> 1]
  <2>1. Doubles(f, 0)
    BY DEF Doubles
  <2>. QED
    BY <2>1
<1>2. \A n \in Nat : n \in S => n + 1 \in S
  <2>. SUFFICES ASSUME NEW n \in Nat, NEW f, Doubles(f, n) PROVE \E g : Doubles(g, n + 1)
    OBVIOUS
  <2>. DEFINE g == [k \in 0..(n + 1) |-> IF k = n + 1 THEN 2 * f[n] ELSE f[k]]
  <2>1. \A k \in 0..(n + 1) : g[k] = IF k = 0 THEN 1 ELSE 2 * g[k - 1]
    <3>. TAKE k \in 0..(n + 1)
    <3>1. CASE k = n + 1
      BY <3>1
    <3>2. CASE k # n + 1
      <4>1. k \in 0..n
        BY <3>2
      <4>2. g[k] = f[k] /\ (k # 0 => g[k - 1] = f[k - 1])
        BY <3>2
      <4>. QED
        BY <4>1, <4>2 DEF Doubles
    <3>. QED
      BY <3>1, <3>2
  <2>2. Doubles(g, n + 1)
    <3>. g = [k \in 0..(n + 1) |-> g[k]]
      OBVIOUS
    <3>. HIDE DEF g
    <3>. QED
      BY <2>1 DEF Doubles
  <2>. QED
    BY <2>2
<1>. QED
  <2>. HIDE DEF S
  <2>1. \A n \in Nat : n \in S
    BY <1>1, <1>2, NatSetInduction
  <2>. QED
    BY <2>1 DEF S

(* The recursive function PowerOfTwo is the powers of two. *)
LEMMA PowerOfTwoIs ==
  /\ PowerOfTwo[0] = 1
  /\ \A n \in Nat : PowerOfTwo[n + 1] = 2 * PowerOfTwo[n]
<1>. DEFINE h(n) == CHOOSE f : Doubles(f, n)
            p == [n \in Nat |-> h(n)[n]]
            Is(f) == f = [n \in Nat |-> IF n = 0 THEN 1 ELSE 2 * f[n - 1]]
<1>1. \A n \in Nat : Doubles(h(n), n)
  BY DoublesExist
<1>2. p[0] = 1
  <2>1. Doubles(h(0), 0) /\ p[0] = h(0)[0]
    BY <1>1
  <2>. HIDE DEF h, p
  <2>. QED
    BY <2>1 DEF Doubles
<1>3. ASSUME NEW n \in Nat, n # 0 PROVE p[n] = 2 * p[n - 1]
  <2>. DEFINE f == h(n)
              g == [k \in 0..(n - 1) |-> f[k]]
  <2>0. Doubles(f, n) /\ n - 1 \in Nat
    BY <1>1, <1>3
  <2>1. Doubles(g, n - 1)
    <3>1. \A k \in 0..(n - 1) : f[k] = IF k = 0 THEN 1 ELSE 2 * f[k - 1]
      <4>. HIDE DEF f
      <4>. QED
        BY <2>0, <1>3 DEF Doubles
    <3>2. \A k \in 0..(n - 1) : k # 0 => k - 1 \in 0..(n - 1)
      BY <1>3
    <3>. HIDE DEF f
    <3>. QED
      BY <3>1, <3>2 DEF Doubles
  <2>2. g = h(n - 1)
    <3>. HIDE DEF f, g, h
    <3>. QED
      BY <2>0, <2>1, <1>1, DoublesUnique
  <2>3. p[n - 1] = f[n - 1]
    <3>1. p[n - 1] = g[n - 1]
      BY <2>0, <2>2
    <3>. QED
      BY <2>0, <3>1, <1>3
  <2>4. f[n] = 2 * f[n - 1]
    <3>. HIDE DEF f
    <3>. QED
      BY <2>0, <1>3 DEF Doubles
  <2>. QED
    BY <2>3, <2>4
<1>4. Is(p)
  <2>. p = [n \in Nat |-> p[n]]
    OBVIOUS
  <2>. HIDE DEF p
  <2>. QED
    BY <1>2, <1>3
<1>5. PowerOfTwo = CHOOSE f : Is(f)
  BY DEF PowerOfTwo
<1>6. Is(PowerOfTwo)
  <2>. HIDE DEF p, Is
  <2>. QED
    BY <1>4, <1>5
<1>. QED
  BY <1>6

(* A power of two is greater than its exponent. *)
LEMMA PowerAbove == \A n \in Nat : PowerOfTwo[n] \in Nat /\ PowerOfTwo[n] > n
<1>. DEFINE S == {n \in Nat : PowerOfTwo[n] \in Nat /\ PowerOfTwo[n] > n}
<1>1. 0 \in S
  BY PowerOfTwoIs
<1>2. \A n \in Nat : n \in S => n + 1 \in S
  BY PowerOfTwoIs
<1>3. \A n \in Nat : n \in S
  <2>. HIDE DEF S
  <2>. QED
    BY <1>1, <1>2, NatSetInduction
<1>. QED
  BY <1>3

(* The power of a sum is the product of the powers. *)
LEMMA PowerOfSum == \A m, n \in Nat : PowerOfTwo[m + n] = PowerOfTwo[m] * PowerOfTwo[n]
<1>. SUFFICES ASSUME NEW m \in Nat
              PROVE  \A n \in Nat : PowerOfTwo[m + n] = PowerOfTwo[m] * PowerOfTwo[n]
  OBVIOUS
<1>. DEFINE S == {n \in Nat : PowerOfTwo[m + n] = PowerOfTwo[m] * PowerOfTwo[n]}
<1>1. 0 \in S
  <2>1. m + 0 = m /\ PowerOfTwo[m] * 1 = PowerOfTwo[m]
    BY PowerAbove
  <2>. QED
    BY <2>1, PowerOfTwoIs
<1>2. \A n \in Nat : n \in S => n + 1 \in S
  <2>. SUFFICES ASSUME NEW n \in Nat, n \in S
                PROVE  PowerOfTwo[m + (n + 1)] = PowerOfTwo[m] * PowerOfTwo[n + 1]
    OBVIOUS
  <2>1. m + (n + 1) = (m + n) + 1 /\ m + n \in Nat
    OBVIOUS
  <2>2. PowerOfTwo[(m + n) + 1] = 2 * PowerOfTwo[m + n]
    BY <2>1, PowerOfTwoIs
  <2>3. \A x, y \in Nat : 2 * (x * y) = x * (2 * y)
    OBVIOUS
  <2>4. 2 * (PowerOfTwo[m] * PowerOfTwo[n]) = PowerOfTwo[m] * (2 * PowerOfTwo[n])
    BY <2>3, PowerAbove
  <2>. QED
    BY <2>1, <2>2, <2>4, PowerOfTwoIs
<1>3. \A n \in Nat : n \in S
  <2>. HIDE DEF S
  <2>. QED
    BY <1>1, <1>2, NatSetInduction
<1>. QED
  BY <1>3

(* A greater exponent doubles the power at least. *)
LEMMA PowerGrows ==
  ASSUME NEW m \in Nat, NEW n \in Nat, m < n
  PROVE  2 * PowerOfTwo[m] <= PowerOfTwo[n]
<1>1. n = (m + 1) + (n - (m + 1)) /\ m + 1 \in Nat /\ n - (m + 1) \in Nat
  OBVIOUS
<1>2. PowerOfTwo[n] = PowerOfTwo[m + 1] * PowerOfTwo[n - (m + 1)]
  BY <1>1, PowerOfSum
<1>3. PowerOfTwo[n - (m + 1)] \in Nat /\ PowerOfTwo[n - (m + 1)] >= 1 /\ PowerOfTwo[m + 1] \in Nat
  BY <1>1, PowerAbove
<1>4. \A x, y \in Nat : y >= 1 => x * y >= x
  <2>. TAKE x, y \in Nat
  <2>. HAVE y >= 1
  <2>1. x * y = x + x * (y - 1)
    OBVIOUS
  <2>2. x * (y - 1) >= 0
    OBVIOUS
  <2>. QED
    BY <2>1, <2>2
<1>. QED
  BY <1>2, <1>3, <1>4, PowerOfTwoIs

(* A set of naturals has a least one. *)
LEMMA LeastIs ==
  ASSUME NEW T, T \subseteq Nat, T # {}
  PROVE  Min(T) \in T /\ \A k \in T : Min(T) <= k
<1>1. PICK e \in T : \A k \in T : ~(<<k, e>> \in OpToRel(<, Nat))
  BY NatLessThanWellFounded, WFMin
<1>2. \A k \in T : e <= k
  <2>. SUFFICES ASSUME NEW k \in T, k < e PROVE FALSE
    OBVIOUS
  <2>1. k \in Nat /\ e \in Nat
    OBVIOUS
  <2>2. <<k, e>> \in OpToRel(<, Nat)
    BY <2>1 DEF OpToRel
  <2>. QED
    BY <1>1, <2>2
<1>. QED
  BY <1>2 DEF Min

(* The exponent that a magnitude has. *)
LEMMA ExponentIs ==
  ASSUME NEW n \in Int
  PROVE  /\ Exponent(n) \in Nat
         /\ Magnitude(n) \in Nat
         /\ Magnitude(n) <= PowerOfTwo[Precision + Exponent(n)]
         /\ Exponent(n) # 0 => Magnitude(n) > PowerOfTwo[Precision + Exponent(n) - 1]
<1>. DEFINE m == Magnitude(n)
            S == {e \in Nat : m <= PowerOfTwo[Precision + e]}
<1>0. Precision \in Nat /\ Precision >= 2
  BY WidthAssumption
<1>1. m \in Nat
  BY DEF Magnitude
<1>2. m \in S
  <2>1. Precision + m \in Nat /\ PowerOfTwo[Precision + m] > Precision + m
    BY <1>0, <1>1, PowerAbove
  <2>2. PowerOfTwo[Precision + m] \in Nat
    BY <1>0, <1>1, PowerAbove
  <2>. HIDE DEF m
  <2>. QED
    BY <1>0, <1>1, <2>1, <2>2
<1>3. PICK e \in S : \A k \in S : e <= k
  <2>. HIDE DEF m
  <2>1. S \subseteq Nat /\ S # {}
    BY <1>2
  <2>. HIDE DEF S
  <2>. QED
    BY <2>1, LeastIs
<1>4. \A k \in S : k >= e
  BY <1>3
<1>5. e \in 0..m
  <2>1. e <= m
    BY <1>2, <1>4
  <2>2. e \in Nat
    OBVIOUS
  <2>. HIDE DEF m, S
  <2>. QED
    BY <2>1, <2>2, <1>1
<1>6. e = 0 \/ m > PowerOfTwo[Precision + e - 1]
  <2>. SUFFICES ASSUME e # 0, ~(m > PowerOfTwo[Precision + e - 1]) PROVE FALSE
    OBVIOUS
  <2>1. e - 1 \in Nat /\ Precision + (e - 1) \in Nat /\ Precision + (e - 1) = Precision + e - 1
    BY <1>0, <1>5
  <2>2. PowerOfTwo[Precision + e - 1] \in Nat
    BY <2>1, PowerAbove
  <2>3. e - 1 \in S
    <3>. HIDE DEF m
    <3>. QED
      BY <1>1, <2>1, <2>2
  <2>. QED
    BY <1>4, <2>1, <2>3
<1>7. /\ Exponent(n) \in 0..m
      /\ m <= PowerOfTwo[Precision + Exponent(n)]
      /\ Exponent(n) = 0 \/ m > PowerOfTwo[Precision + Exponent(n) - 1]
  <2>1. m <= PowerOfTwo[Precision + e]
    BY <1>3
  <2>. HIDE DEF S
  <2>. QED
    BY <1>5, <1>6, <2>1 DEF Exponent
<1>. QED
  <2>. HIDE DEF S
  <2>. QED
    BY <1>1, <1>7

(* Rounding a magnitude of so many spacings. *)
LEMMA ProductGrows ==
  ASSUME NEW a \in Nat, NEW b \in Nat, NEW s \in Nat, a <= b
  PROVE  a * s <= b * s
<1>1. b * s = a * s + (b - a) * s
  OBVIOUS
<1>2. (b - a) * s >= 0
  OBVIOUS
<1>. QED
  BY <1>1, <1>2

(* A quotient and its remainder. *)
LEMMA QuotientIs ==
  ASSUME NEW m \in Nat, NEW s \in Nat, s > 0
  PROVE  \E q, r \in Nat : q = m \div s /\ r = m % s /\ r < s /\ m = q * s + r
<1>1. m \div s \in Nat /\ m % s \in Nat /\ m % s < s
  OBVIOUS
<1>2. PICK q \in Nat : q = m \div s
  BY <1>1
<1>3. PICK r \in Nat : r = m % s
  BY <1>1
<1>4. m = q * s + r
  BY <1>2, <1>3
<1>. QED
  BY <1>1, <1>2, <1>3, <1>4

Nearest(m, s) ==
  (IF 2 * (m % s) > s \/ (2 * (m % s) = s /\ (m \div s) % 2 = 1) THEN m \div s + 1 ELSE m \div s) * s

(* A multiple of the spacing is not stepped over, and an even one takes what *)
(* is at most half a spacing above it.                                       *)
LEMMA NearestIs ==
  ASSUME NEW m \in Nat, NEW s \in Nat, s > 0, NEW a \in Nat, a * s <= m
  PROVE  /\ Nearest(m, s) \in Nat
         /\ Nearest(m, s) >= a * s
         /\ m = a * s => Nearest(m, s) = a * s
         /\ a % 2 = 0 => (Nearest(m, s) = a * s <=> 2 * (m - a * s) <= s)
<1>1. PICK q, r \in Nat : q = m \div s /\ r = m % s /\ r < s /\ m = q * s + r
  BY QuotientIs
<1>. DEFINE up == 2 * r > s \/ (2 * r = s /\ q % 2 = 1)
<1>2. Nearest(m, s) = (IF up THEN q + 1 ELSE q) * s
  BY <1>1 DEF Nearest
<1>3. (q + 1) * s = q * s + s
  BY <1>1
<1>4. a <= q
  <2>. SUFFICES ASSUME a >= q + 1 PROVE FALSE
    BY <1>1
  <2>1. (q + 1) * s <= a * s
    BY <1>1, ProductGrows
  <2>2. q * s \in Nat /\ a * s \in Nat
    BY <1>1
  <2>. QED
    BY <1>1, <1>3, <2>1, <2>2
<1>5. a * s \in Nat /\ q * s \in Nat /\ (a + 1) * s = a * s + s
  BY <1>1
<1>6. a * s <= q * s
  <2>. QED
    BY <1>1, <1>4, ProductGrows
<1>7. CASE q = a
  <2>1. q * s = a * s /\ m = a * s + r
    BY <1>1, <1>7
  <2>2. a % 2 = 0 => (up <=> 2 * r > s)
    BY <1>1, <1>7
  <2>3. CASE up
    <3>1. Nearest(m, s) = a * s + s
      BY <1>2, <1>3, <2>1, <2>3
    <3>2. 2 * r >= s
      BY <1>1, <2>3
    <3>. HIDE DEF up
    <3>. QED
      BY <1>1, <1>5, <2>1, <2>2, <2>3, <3>1, <3>2
  <2>4. CASE ~up
    <3>1. Nearest(m, s) = a * s
      BY <1>2, <2>1, <2>4
    <3>2. 2 * r <= s
      BY <1>1, <2>4
    <3>. HIDE DEF up
    <3>. QED
      BY <1>1, <1>5, <2>1, <2>4, <3>1, <3>2
  <2>. QED
    BY <2>3, <2>4
<1>8. CASE q >= a + 1
  <2>1. (a + 1) * s <= q * s
    BY <1>1, <1>8, ProductGrows
  <2>2. Nearest(m, s) = q * s + s \/ Nearest(m, s) = q * s
    BY <1>2, <1>3
  <2>. QED
    BY <1>1, <1>5, <2>1, <2>2
<1>. QED
  BY <1>1, <1>4, <1>7, <1>8

(* RoundToDouble is the nearest multiple of the spacing, with the sign put *)
(* back.                                                                   *)
LEMMA RoundToDoubleIs ==
  ASSUME NEW v \in Int
  PROVE  RoundToDouble(v) = IF v < 0 THEN -Nearest(Magnitude(v), Spacing(v))
                            ELSE Nearest(Magnitude(v), Spacing(v))
BY DEF RoundToDouble, Nearest

(* A spacing is positive, and what is rounded stays an integer. *)
LEMMA SpacingIs ==
  ASSUME NEW v \in Int
  PROVE  /\ Spacing(v) \in Nat /\ Spacing(v) > 0
         /\ Magnitude(v) \in Nat
         /\ Nearest(Magnitude(v), Spacing(v)) \in Nat
         /\ RoundToDouble(v) \in Int
<1>1. Spacing(v) \in Nat /\ Spacing(v) > 0 /\ Magnitude(v) \in Nat
  BY ExponentIs, PowerAbove DEF Spacing
<1>2. 0 * Spacing(v) <= Magnitude(v)
  BY <1>1
<1>3. Nearest(Magnitude(v), Spacing(v)) \in Nat
  BY <1>1, <1>2, NearestIs
<1>. QED
  BY <1>1, <1>3, RoundToDoubleIs

(* Zero is a double. *)
LEMMA ZeroIsDouble == RoundToDouble(0) = 0
<1>1. Magnitude(0) = 0
  BY DEF Magnitude
<1>2. 0 * Spacing(0) = 0
  BY SpacingIs
<1>3. Nearest(0, Spacing(0)) = 0
  BY <1>1, <1>2, SpacingIs, NearestIs
<1>. QED
  BY <1>1, <1>3, RoundToDoubleIs

(* Half of what lies between the doubles just beyond the integers. *)
Beyond == PowerOfTwo[IntWidth - 1 - Precision]

(* The limits of int64_t, and half the spacing of doubles just beyond them. *)
LEMMA LimitIs ==
  /\ IntWidth - 1 \in Nat /\ IntWidth - 1 - Precision \in Nat
  /\ IntMax \in Nat /\ IntMin = -(IntMax + 1) /\ IntMax + 1 = PowerOfTwo[IntWidth - 1]
  /\ Beyond \in Nat /\ Beyond > 0 /\ 4 * Beyond <= IntMax + 1
<1>1. IntWidth - 1 \in Nat /\ IntWidth - 1 - Precision \in Nat /\ Precision - 2 \in Nat
  BY WidthAssumption
<1>2. PowerOfTwo[IntWidth - 1] \in Nat /\ PowerOfTwo[IntWidth - 1] > 0
  BY <1>1, PowerAbove
<1>3. Beyond \in Nat /\ Beyond > 0
  BY <1>1, PowerAbove DEF Beyond
<1>4. 2 * PowerOfTwo[IntWidth - 1 - Precision] <= PowerOfTwo[(IntWidth - 1 - Precision) + 1]
  BY <1>1, PowerGrows
<1>5. 2 * PowerOfTwo[(IntWidth - 1 - Precision) + 1] <= PowerOfTwo[IntWidth - 1]
  BY <1>1, WidthAssumption, PowerGrows
<1>. QED
  BY <1>1, <1>2, <1>3, <1>4, <1>5, PowerAbove DEF IntMin, IntMax, Beyond

(* A magnitude beyond the integers rounds to the first of them or beyond it. *)
LEMMA RoundedMagnitude ==
  ASSUME NEW v \in Int, Magnitude(v) >= IntMax + 1
  PROVE  LET t == Nearest(Magnitude(v), Spacing(v)) IN
         /\ t >= IntMax + 1
         /\ t = IntMax + 1 <=> Magnitude(v) <= IntMax + 1 + Beyond
<1>. DEFINE m == Magnitude(v)
            e == Exponent(v)
            s == Spacing(v)
            t == Nearest(m, s)
            M == IntMax + 1
<1>1. /\ e \in Nat /\ m \in Nat /\ m <= PowerOfTwo[Precision + e]
      /\ e # 0 => m > PowerOfTwo[Precision + e - 1]
  BY ExponentIs
<1>2. s \in Nat /\ s > 0 /\ t \in Nat /\ s = PowerOfTwo[e]
  BY SpacingIs DEF Spacing
<1>3. Precision \in Nat /\ Precision >= 2 /\ IntWidth \in Nat /\ Precision < IntWidth
  BY WidthAssumption
<1>4. /\ M \in Nat /\ M = PowerOfTwo[IntWidth - 1] /\ Beyond \in Nat /\ Beyond > 0
      /\ 4 * Beyond <= M /\ IntWidth - 1 \in Nat
  BY LimitIs
<1>. HIDE DEF m, e, s
<1>5. Precision + e >= IntWidth - 1
  <2>. SUFFICES ASSUME Precision + e < IntWidth - 1 PROVE FALSE
    BY <1>1, <1>3
  <2>1. Precision + e \in Nat
    BY <1>1, <1>3
  <2>2. 2 * PowerOfTwo[Precision + e] <= PowerOfTwo[IntWidth - 1]
    BY <1>4, <2>1, PowerGrows
  <2>3. PowerOfTwo[Precision + e] \in Nat /\ PowerOfTwo[Precision + e] > 0 /\ m >= M
    BY <2>1, PowerAbove DEF m
  <2>. QED
    BY <1>1, <1>4, <2>2, <2>3
<1>6. CASE Precision + e = IntWidth - 1
  <2>1. M = PowerOfTwo[Precision] * s
    BY <1>1, <1>2, <1>3, <1>4, <1>6, PowerOfSum
  <2>2. m = M
    BY <1>1, <1>4, <1>6 DEF m
  <2>3. PowerOfTwo[Precision] \in Nat
    BY <1>3, PowerAbove
  <2>4. t = M
    BY <1>1, <1>2, <2>1, <2>2, <2>3, NearestIs
  <2>. QED
    BY <1>4, <2>2, <2>4 DEF m, s
<1>7. CASE Precision + e > IntWidth - 1
  <2>. DEFINE H == PowerOfTwo[Precision - 1]
  <2>1. e # 0 /\ Precision + e - 1 \in Nat /\ Precision + e - 1 = (Precision - 1) + e
    BY <1>1, <1>3, <1>7
  <2>2. H \in Nat /\ Precision - 1 \in Nat
    BY <1>3, PowerAbove
  <2>3. PowerOfTwo[Precision + e - 1] = H * s
    BY <1>1, <1>2, <2>1, <2>2, PowerOfSum
  <2>4. H % 2 = 0
    <3>1. Precision - 2 \in Nat /\ Precision - 1 = (Precision - 2) + 1
      BY <1>3
    <3>2. H = 2 * PowerOfTwo[Precision - 2] /\ PowerOfTwo[Precision - 2] \in Nat
      BY <3>1, PowerOfTwoIs, PowerAbove
    <3>. QED
      BY <3>2
  <2>5. m > H * s /\ H * s \in Nat
    BY <1>1, <1>2, <2>1, <2>2, <2>3
  <2>. HIDE DEF H
  <2>6. t >= H * s /\ (t = H * s <=> 2 * (m - H * s) <= s)
    <3>1. H * s <= m
      BY <1>1, <2>5
    <3>2. m \in Nat /\ s \in Nat /\ s > 0 /\ H \in Nat
      BY <1>1, <1>2, <2>2
    <3>. QED
      BY <2>4, <3>1, <3>2, NearestIs
  <2>7. CASE Precision + e - 1 = IntWidth - 1
    <3>1. H * s = M
      BY <1>4, <2>3, <2>7
    <3>2. s = 2 * Beyond
      <4>1. IntWidth - 1 - Precision \in Nat /\ e = (IntWidth - 1 - Precision) + 1
        BY <1>1, <1>3, <2>7, LimitIs
      <4>. QED
        BY <1>2, <4>1, PowerOfTwoIs DEF Beyond
    <3>. HIDE DEF t
    <3>3. t >= M /\ (t = M <=> m <= M + Beyond)
      BY <1>1, <1>2, <1>4, <2>5, <2>6, <3>1, <3>2
    <3>. QED
      BY <3>3 DEF t, m, s
  <2>8. CASE Precision + e - 1 > IntWidth - 1
    <3>1. 2 * M <= H * s
      BY <1>4, <2>1, <2>3, <2>8, PowerGrows
    <3>. HIDE DEF t
    <3>2. t > M /\ m > M + Beyond
      BY <1>1, <1>2, <1>4, <2>5, <2>6, <3>1
    <3>3. t >= M /\ ~(t = M) /\ ~(m <= M + Beyond)
      BY <1>1, <1>2, <1>4, <3>2
    <3>. QED
      BY <3>3 DEF t, m, s
  <2>. QED
    BY <1>1, <1>3, <1>7, <2>7, <2>8
<1>. QED
  BY <1>1, <1>3, <1>5, <1>6, <1>7

(* An integer that is none of the program's rounds to none of them, but just  *)
(* below the least: there it rounds to that.                                  *)
LEMMA RoundingIs ==
  ASSUME NEW v \in Int, ~InInt64(v)
  PROVE  /\ InInt64(RoundToDouble(v)) => RoundToDouble(v) = IntMin
         /\ InInt64(RoundToDouble(v)) <=> v <= IntMax /\ v >= IntMin - Beyond
<1>. DEFINE t == Nearest(Magnitude(v), Spacing(v))
<1>0. IntMax \in Nat /\ IntMin = -(IntMax + 1) /\ Beyond \in Nat
  BY LimitIs
<1>1. t \in Nat /\ RoundToDouble(v) = IF v < 0 THEN -t ELSE t
  BY SpacingIs, RoundToDoubleIs
<1>2. Magnitude(v) = IF v < 0 THEN -v ELSE v
  BY DEF Magnitude
<1>3. Magnitude(v) >= IntMax + 1
  BY <1>0, <1>2 DEF InInt64
<1>4. t >= IntMax + 1 /\ (t = IntMax + 1 <=> Magnitude(v) <= IntMax + 1 + Beyond)
  BY <1>3, RoundedMagnitude
<1>. HIDE DEF t
<1>. QED
  BY <1>0, <1>1, <1>2, <1>4 DEF InInt64

-----------------------------------------------------------------------------
(* What a node is to the validator, and to the reader of the schema *)

Alike(node, kind, value, type, json) ==
  resolve_scalar(node) = Resolved(kind, value) /\ ToJson(node) = Json(type, json)

(* What the validator resolves a node to, next to what the reader of the *)
(* schema sees: unless the literal is misread, they are alike in one of  *)
(* nine ways.                                                            *)
LEMMA Readings ==
  ASSUME NEW node, IsNode(node), ~Misread(node)
  PROVE  LET t == node.text IN
         \/ /\ node.tag # "scalar" /\ resolve_scalar(node) = Resolved("NonScalar", None)
            /\ ToJson(node).type \in {"array", "object"}
         \/ Alike(node, "String", t, "string", t)
         \/ Alike(node, "Null", None, "null", None)
         \/ Alike(node, "Bool", t.value, "boolean", t.value)
         \/ InInt64(t.value) /\ Alike(node, "Int", t.value, "number", 2 * t.value)
         \/ ~InInt64(t.value) /\ Alike(node, "Float", 2 * RoundToDouble(t.value), "number", 2 * t.value)
         \/ IsDouble(t.value) /\ Alike(node, "Float", t.value, "number", t.value)
         \/ Alike(node, "Float", 0, "number", 0)
         \/ Alike(node, "Float", None, "none", None)
<1>. DEFINE t == node.text
<1>0. /\ node.tag \in {"scalar", "seq", "map"} /\ node.quoted \in BOOLEAN
      /\ t \in ScalarTexts
  BY DEF IsNode
<1>1. t.form \in Forms /\ t.value \in Int /\ (t.form = "float" => IsDouble(t.value))
  BY <1>0 DEF ScalarTexts
<1>2. CASE node.tag # "scalar"
  BY <1>0, <1>2 DEF resolve_scalar, ToJson, Json
<1>3. CASE node.tag = "scalar" /\ node.quoted
  <2>1. resolve_scalar(node) = Resolved("String", t)
    BY <1>3 DEF resolve_scalar
  <2>2. ToJson(node) = Json("string", t)
    BY <1>3 DEF ToJson, ScalarToJson
  <2>. QED
    BY <2>1, <2>2 DEF Alike
<1>4. CASE node.tag = "scalar" /\ ~node.quoted
  <2>1. resolve_scalar(node) = resolve_plain(t) /\ ToJson(node) = ScalarToJson(node)
    BY <1>4 DEF resolve_scalar, ToJson
  <2>2. CASE t.form \in {"empty", "null"}
    <3>1. resolve_plain(t) = Resolved("Null", None)
      BY <2>2 DEF resolve_plain
    <3>2. ScalarToJson(node) = Json("null", None)
      BY <1>4, <2>2 DEF ScalarToJson
    <3>. QED
      BY <2>1, <3>1, <3>2 DEF Alike
  <2>3. CASE t.form = "bool"
    <3>1. resolve_plain(t) = Resolved("Bool", t.value)
      BY <2>3 DEF resolve_plain
    <3>2. ScalarToJson(node) = Json("boolean", t.value)
      BY <1>4, <2>3 DEF ScalarToJson
    <3>. QED
      BY <2>1, <3>1, <3>2 DEF Alike
  <2>4. CASE t.form \in {"dec", "hex"} /\ InInt64(t.value)
    <3>1. resolve_plain(t) = Resolved("Int", t.value)
      BY <2>4 DEF resolve_plain
    <3>2. ScalarToJson(node) = Json("number", 2 * t.value)
      BY <1>4, <2>4 DEF ScalarToJson
    <3>. QED
      BY <2>1, <2>4, <3>1, <3>2 DEF Alike
  <2>5. CASE t.form = "dec" /\ ~InInt64(t.value)
    <3>1. resolve_plain(t) = Resolved("Float", 2 * RoundToDouble(t.value))
      BY <2>5 DEF resolve_plain
    <3>2. ScalarToJson(node) = Json("number", 2 * t.value)
      BY <1>4, <2>5 DEF ScalarToJson
    <3>. QED
      BY <2>1, <2>5, <3>1, <3>2 DEF Alike
  <2>6. CASE t.form = "hex" /\ ~InInt64(t.value)
    BY <1>4, <2>6 DEF Misread
  <2>7. CASE t.form = "float"
    <3>1. resolve_plain(t) = Resolved("Float", t.value)
      BY <2>7 DEF resolve_plain
    <3>2. ScalarToJson(node) = Json("number", t.value)
      BY <1>4, <2>7 DEF ScalarToJson
    <3>. QED
      BY <1>1, <2>1, <2>7, <3>1, <3>2 DEF Alike
  <2>8. CASE t.form = "special"
    <3>1. resolve_plain(t) = Resolved("Float", None)
      BY <2>8 DEF resolve_plain
    <3>2. ScalarToJson(node) = Json("none", None)
      BY <1>4, <2>8 DEF ScalarToJson
    <3>. QED
      BY <2>1, <3>1, <3>2 DEF Alike
  <2>9. CASE t.form = "tiny"
    <3>0. TakenForZero(t)
      BY <1>4, <2>9 DEF Misread
    <3>1. resolve_plain(t) = Resolved("Float", 0)
      BY <2>9, <3>0 DEF resolve_plain
    <3>2. ScalarToJson(node) = Json("number", 0)
      BY <1>4, <2>9 DEF ScalarToJson
    <3>. QED
      BY <2>1, <3>1, <3>2 DEF Alike
  <2>10. CASE t.form = "huge"
    <3>0. ~TakenForZero(t)
      BY <1>4, <2>10 DEF Misread
    <3>1. resolve_plain(t) = Resolved("Float", None)
      BY <2>10, <3>0 DEF resolve_plain
    <3>2. ScalarToJson(node) = Json("none", None)
      BY <1>4, <2>10 DEF ScalarToJson
    <3>. QED
      BY <2>1, <3>1, <3>2 DEF Alike
  <2>11. CASE t.form \in {"HEX", "word"}
    <3>1. resolve_plain(t) = Resolved("String", t)
      BY <2>11 DEF resolve_plain
    <3>2. ScalarToJson(node) = Json("string", t)
      BY <1>4, <2>11 DEF ScalarToJson
    <3>. QED
      BY <2>1, <3>1, <3>2 DEF Alike
  <2>. QED
    BY <1>1, <2>2, <2>3, <2>4, <2>5, <2>6, <2>7, <2>8, <2>9, <2>10, <2>11 DEF Forms
<1>. QED
  BY <1>0, <1>2, <1>3, <1>4

(* Both take the same nodes for strings, and the same ones for booleans. *)
LEMMA TextRead ==
  ASSUME NEW node, IsNode(node), ~Misread(node)
  PROVE  LET r == resolve_scalar(node)
             v == ToJson(node) IN
         /\ r.kind = "String" <=> v.type = "string"
         /\ v.type = "string" => r.value = node.text /\ v.value = node.text
         /\ r.kind = "Bool" <=> v.type = "boolean"
         /\ v.type = "boolean" => r.value = node.text.value /\ v.value = node.text.value
         /\ node.text \in ScalarTexts /\ node.text.value \in Int
<1>1. node.text \in ScalarTexts /\ node.text.value \in Int
  BY DEF IsNode, ScalarTexts
<1>. DEFINE r == resolve_scalar(node)
            v == ToJson(node)
<1>2. \/ r.kind \notin {"String", "Bool"} /\ v.type \notin {"string", "boolean"}
      \/ r = Resolved("String", node.text) /\ v = Json("string", node.text)
      \/ r = Resolved("Bool", node.text.value) /\ v = Json("boolean", node.text.value)
  BY Readings DEF Alike, Resolved, Json
<1>3. CASE r = Resolved("String", node.text) /\ v = Json("string", node.text)
  BY <1>1, <1>3 DEF Resolved, Json
<1>4. CASE r = Resolved("Bool", node.text.value) /\ v = Json("boolean", node.text.value)
  BY <1>1, <1>4 DEF Resolved, Json
<1>. QED
  <2>. HIDE DEF r, v
  <2>. QED
    BY <1>1, <1>2, <1>3, <1>4 DEF r, v

(* Both take the same nodes for numbers, which are the same double. *)
LEMMA NumberRead ==
  ASSUME NEW node, IsNode(node), ~Misread(node)
  PROVE  LET x == number_of(resolve_scalar(node))
             v == ToJson(node) IN
         /\ x # None <=> v.type = "number"
         /\ v.type = "number" => x \in Int /\ v.value \in Int /\ x = Compared("number", v)
<1>. DEFINE r == resolve_scalar(node)
            v == ToJson(node)
            n == node.text.value
            Goal == /\ number_of(r) # None <=> v.type = "number"
                    /\ v.type = "number" =>
                         number_of(r) \in Int /\ v.value \in Int /\ number_of(r) = Compared("number", v)
<1>. SUFFICES Goal
  OBVIOUS
<1>1. n \in Int /\ None \notin Int
  BY NoneAssumption DEF IsNode, ScalarTexts
<1>2. RoundToDouble(n) \in Int /\ RoundToDouble(0) = 0
  BY <1>1, SpacingIs, ZeroIsDouble
<1>3. (2 * n) % 2 = 0 /\ (2 * n) \div 2 = n
  BY <1>1
<1>. HIDE DEF n
<1>4. CASE v.type # "number" /\ r.kind \notin {"Int", "Float"}
  BY <1>4 DEF number_of
<1>5. CASE r = Resolved("Int", n) /\ v = Json("number", 2 * n)
  <2>1. number_of(r) = 2 * RoundToDouble(n)
    BY <1>5 DEF number_of, Resolved
  <2>2. Compared("number", v) = 2 * RoundToDouble(n) /\ v.type = "number" /\ v.value = 2 * n
    BY <1>3, <1>5 DEF Compared, Json
  <2>. QED
    BY <1>1, <1>2, <2>1, <2>2
<1>6. CASE r = Resolved("Float", 2 * RoundToDouble(n)) /\ v = Json("number", 2 * n)
  <2>1. number_of(r) = 2 * RoundToDouble(n)
    BY <1>6 DEF number_of, Resolved
  <2>2. Compared("number", v) = 2 * RoundToDouble(n) /\ v.type = "number" /\ v.value = 2 * n
    BY <1>3, <1>6 DEF Compared, Json
  <2>. QED
    BY <1>1, <1>2, <2>1, <2>2
<1>7. CASE IsDouble(n) /\ r = Resolved("Float", n) /\ v = Json("number", n)
  <2>1. number_of(r) = n /\ v.type = "number" /\ v.value = n
    BY <1>7 DEF number_of, Resolved, Json
  <2>2. CASE n % 2 = 0
    <3>1. Compared("number", v) = 2 * (n \div 2)
      BY <1>7, <2>1, <2>2 DEF Compared, IsDouble
    <3>. QED
      BY <1>1, <2>1, <2>2, <3>1
  <2>3. CASE n % 2 # 0
    <3>1. Compared("number", v) = n
      BY <2>1, <2>3 DEF Compared
    <3>. QED
      BY <1>1, <2>1, <3>1
  <2>. QED
    BY <2>2, <2>3
<1>8. CASE r = Resolved("Float", 0) /\ v = Json("number", 0)
  <2>1. number_of(r) = 0 /\ v.type = "number" /\ v.value = 0
    BY <1>8 DEF number_of, Resolved, Json
  <2>2. Compared("number", v) = 0
    BY <1>2, <2>1 DEF Compared
  <2>. QED
    BY <1>1, <2>1, <2>2
<1>9. CASE r = Resolved("Float", None) /\ v = Json("none", None)
  BY <1>1, <1>9 DEF number_of, Resolved, Json
<1>. QED
  <2>. HIDE DEF Goal
  <2>1. \/ v.type # "number" /\ r.kind \notin {"Int", "Float"}
        \/ r = Resolved("Int", n) /\ v = Json("number", 2 * n)
        \/ r = Resolved("Float", 2 * RoundToDouble(n)) /\ v = Json("number", 2 * n)
        \/ IsDouble(n) /\ r = Resolved("Float", n) /\ v = Json("number", n)
        \/ r = Resolved("Float", 0) /\ v = Json("number", 0)
        \/ r = Resolved("Float", None) /\ v = Json("none", None)
    BY Readings DEF Alike, Resolved, Json, n
  <2>. HIDE DEF r, v
  <2>. QED
    BY <1>4, <1>5, <1>6, <1>7, <1>8, <1>9, <2>1

(* Both take the same nodes for integers; those are equal, but for the *)
(* documented deviation just below the least.                          *)
LEMMA IntegerRead ==
  ASSUME NEW node, IsNode(node), ~Misread(node)
  PROVE  LET x == integer_of(resolve_scalar(node))
             v == ToJson(node) IN
         /\ x # None <=> IsInteger(v)
         /\ x # None =>
              /\ x \in Int /\ InInt64(x) /\ v.type = "number" /\ v.value \in Int
              /\ 2 * x = Compared("integer", v)
              /\ v.value = 2 * x \/ (x = IntMin /\ v.value < 2 * x)
<1>. DEFINE r == resolve_scalar(node)
            v == ToJson(node)
            n == node.text.value
            Goal == /\ integer_of(r) # None <=> IsInteger(v)
                    /\ integer_of(r) # None =>
                         LET x == integer_of(r) IN
                         /\ x \in Int /\ InInt64(x) /\ v.type = "number" /\ v.value \in Int
                         /\ 2 * x = Compared("integer", v)
                         /\ v.value = 2 * x \/ (x = IntMin /\ v.value < 2 * x)
<1>. SUFFICES Goal
  OBVIOUS
<1>1. n \in Int /\ None \notin Int
  BY NoneAssumption DEF IsNode, ScalarTexts
<1>2. IntMax \in Nat /\ IntMin = -(IntMax + 1) /\ Beyond \in Nat
  BY LimitIs
<1>3. (2 * n) % 2 = 0 /\ (2 * n) \div 2 = n
  BY <1>1
<1>. HIDE DEF n
<1>4. CASE v.type # "number" /\ r.kind \notin {"Int", "Float"}
  BY <1>4 DEF integer_of, IsInteger
<1>5. CASE InInt64(n) /\ r = Resolved("Int", n) /\ v = Json("number", 2 * n)
  <2>1. integer_of(r) = n /\ v.type = "number" /\ v.value = 2 * n
    BY <1>5 DEF integer_of, Resolved, Json
  <2>2. IsInteger(v)
    BY <1>1, <1>2, <1>3, <1>5, <2>1 DEF IsInteger, InInt64, Beyond
  <2>3. Compared("integer", v) = 2 * n
    BY <1>1, <1>2, <1>5, <2>1 DEF Compared, InInt64
  <2>. QED
    BY <1>1, <1>5, <2>1, <2>2, <2>3
<1>6. CASE ~InInt64(n) /\ r = Resolved("Float", 2 * RoundToDouble(n)) /\ v = Json("number", 2 * n)
  <2>. DEFINE d == RoundToDouble(n)
  <2>1. d \in Int
    BY <1>1, SpacingIs
  <2>2. r.kind = "Float" /\ r.value = 2 * d /\ v.type = "number" /\ v.value = 2 * n
    BY <1>6 DEF Resolved, Json
  <2>3. /\ InInt64(d) => d = IntMin
        /\ InInt64(d) <=> n <= IntMax /\ n >= IntMin - Beyond
    BY <1>1, <1>6, RoundingIs
  <2>. HIDE DEF d
  <2>4. (2 * d) % 2 = 0 /\ (2 * d) \div 2 = d /\ 2 * d # None
    BY <1>1, <2>1
  <2>5. integer_of(r) = IF InInt64(d) THEN d ELSE None
    BY <2>2, <2>4 DEF integer_of
  <2>6. IsInteger(v) <=> InInt64(d)
    BY <1>3, <2>2, <2>3 DEF IsInteger, Beyond
  <2>7. CASE InInt64(d)
    <3>1. d = IntMin /\ n < IntMin
      BY <1>1, <1>2, <1>6, <2>3, <2>7 DEF InInt64
    <3>2. Compared("integer", v) = 2 * IntMin
      BY <1>1, <1>2, <2>2, <3>1 DEF Compared
    <3>. QED
      BY <1>1, <1>2, <2>1, <2>2, <2>5, <2>6, <2>7, <3>1, <3>2
  <2>8. CASE ~InInt64(d)
    BY <2>5, <2>6, <2>8
  <2>. QED
    BY <2>7, <2>8
<1>7. CASE IsDouble(n) /\ r = Resolved("Float", n) /\ v = Json("number", n)
  <2>. DEFINE h == n \div 2
  <2>1. r.kind = "Float" /\ r.value = n /\ v.type = "number" /\ v.value = n /\ n # None
    BY <1>1, <1>7 DEF Resolved, Json
  <2>2. h \in Int /\ (n % 2 = 0 => n = 2 * h)
    BY <1>1
  <2>3. integer_of(r) = IF n % 2 = 0 /\ InInt64(h) THEN h ELSE None
    BY <2>1 DEF integer_of
  <2>4. IsInteger(v) <=> n % 2 = 0 /\ h <= IntMax /\ h >= IntMin - Beyond
    BY <2>1 DEF IsInteger, Beyond
  <2>5. n % 2 = 0 => RoundToDouble(h) = h
    BY <1>7 DEF IsDouble
  <2>. HIDE DEF h
  <2>6. n % 2 = 0 /\ ~InInt64(h) => ~(h <= IntMax /\ h >= IntMin - Beyond)
    BY <2>2, <2>5, RoundingIs
  <2>7. CASE n % 2 = 0 /\ InInt64(h)
    <3>1. IsInteger(v) /\ integer_of(r) = h
      BY <1>2, <2>2, <2>3, <2>4, <2>7 DEF InInt64
    <3>2. Compared("integer", v) = 2 * h
      BY <1>1, <1>2, <2>1, <2>2, <2>7 DEF Compared, InInt64
    <3>. QED
      BY <1>1, <2>1, <2>2, <2>7, <3>1, <3>2
  <2>8. CASE ~(n % 2 = 0 /\ InInt64(h))
    <3>1. integer_of(r) = None /\ ~IsInteger(v)
      BY <2>3, <2>4, <2>6, <2>8
    <3>. QED
      BY <3>1
  <2>. QED
    BY <2>7, <2>8
<1>8. CASE r = Resolved("Float", 0) /\ v = Json("number", 0)
  <2>1. r.kind = "Float" /\ r.value = 0 /\ v.type = "number" /\ v.value = 0
    BY <1>8 DEF Resolved, Json
  <2>2. 0 % 2 = 0 /\ 0 \div 2 = 0 /\ 0 # None /\ InInt64(0)
    BY <1>1, <1>2 DEF InInt64
  <2>3. integer_of(r) = 0
    BY <2>1, <2>2 DEF integer_of
  <2>4. IsInteger(v)
    BY <1>2, <2>1, <2>2 DEF IsInteger, Beyond
  <2>5. Compared("integer", v) = 0
    BY <1>2, <2>1 DEF Compared
  <2>. QED
    BY <1>1, <2>1, <2>2, <2>3, <2>4, <2>5
<1>9. CASE r = Resolved("Float", None) /\ v = Json("none", None)
  BY <1>1, <1>9 DEF integer_of, IsInteger, Resolved, Json
<1>. QED
  <2>. HIDE DEF Goal
  <2>1. \/ v.type # "number" /\ r.kind \notin {"Int", "Float"}
        \/ InInt64(n) /\ r = Resolved("Int", n) /\ v = Json("number", 2 * n)
        \/ ~InInt64(n) /\ r = Resolved("Float", 2 * RoundToDouble(n)) /\ v = Json("number", 2 * n)
        \/ IsDouble(n) /\ r = Resolved("Float", n) /\ v = Json("number", n)
        \/ r = Resolved("Float", 0) /\ v = Json("number", 0)
        \/ r = Resolved("Float", None) /\ v = Json("none", None)
    BY Readings DEF Alike, Resolved, Json, n
  <2>. HIDE DEF r, v
  <2>. QED
    BY <1>4, <1>5, <1>6, <1>7, <1>8, <1>9, <2>1

-----------------------------------------------------------------------------
(* A field, by its kind *)

(* The schema of a string has the keywords of what was declared of it. *)
LEMMA StringKeywords ==
  ASSUME NEW spec
  PROVE  LET s == emit_string(spec) IN
         /\ DOMAIN s \subseteq {"type", "const", "oneOf", "enum", "pattern", "minLength", "not", "anolisUnique"}
         /\ "type" \in DOMAIN s /\ s["type"] = "string"
         /\ "const" \in DOMAIN s <=> spec.const_value # None
         /\ "const" \in DOMAIN s => s["const"] = StringValue(spec.const_value)
         /\ "oneOf" \in DOMAIN s <=> spec.enum_values # {} /\ spec.titled
         /\ "oneOf" \in DOMAIN s => s["oneOf"] = {Constant(t) : t \in spec.enum_values}
         /\ "enum" \in DOMAIN s <=> spec.enum_values # {} /\ ~spec.titled
         /\ "enum" \in DOMAIN s => s["enum"] = {StringValue(t) : t \in spec.enum_values}
         /\ "pattern" \in DOMAIN s <=> spec.pattern
         /\ "pattern" \in DOMAIN s => s["pattern"] = PatternTexts
         /\ "minLength" \in DOMAIN s <=> spec.non_empty
         /\ "not" \in DOMAIN s <=> spec.forbidden_values # {}
         /\ "not" \in DOMAIN s =>
              s["not"] = [enum |-> {StringValue(t) : t \in spec.forbidden_values}]
         /\ "anolisUnique" \in DOMAIN s <=> spec.unique
BY DEF emit_string, If

(* The schema of an integer or a number has the keywords of its bounds. *)
LEMMA NumberKeywords ==
  ASSUME NEW spec, NEW type, NEW unit
  PROVE  LET s == emit_number(spec, type, unit) IN
         /\ DOMAIN s \subseteq {"type", "minimum", "maximum", "exclusiveMinimum",
                               "exclusiveMaximum", "anolisUnique"}
         /\ "type" \in DOMAIN s /\ s["type"] = type
         /\ "minimum" \in DOMAIN s <=> spec.min # None
         /\ "minimum" \in DOMAIN s => s["minimum"] = unit * spec.min
         /\ "maximum" \in DOMAIN s <=> spec.max # None
         /\ "maximum" \in DOMAIN s => s["maximum"] = unit * spec.max
         /\ "exclusiveMinimum" \in DOMAIN s <=> spec.exclusive_min # None
         /\ "exclusiveMinimum" \in DOMAIN s => s["exclusiveMinimum"] = spec.exclusive_min
         /\ "exclusiveMaximum" \in DOMAIN s <=> spec.exclusive_max # None
         /\ "exclusiveMaximum" \in DOMAIN s => s["exclusiveMaximum"] = spec.exclusive_max
         /\ "anolisUnique" \in DOMAIN s <=> spec.unique
BY DEF emit_number, If

(* The schema of an address is a number's or a string's. *)
LEMMA AddressKeywords ==
  ASSUME NEW spec
  PROVE  LET s == emit_address(spec) IN
         /\ DOMAIN s \subseteq {"anolisType", "anyOf", "anolisUnique"}
         /\ "anolisType" \in DOMAIN s /\ "anyOf" \in DOMAIN s
         /\ s["anyOf"] = <<AddressNumber, AddressString>>
         /\ "anolisUnique" \in DOMAIN s <=> spec.unique
BY DEF emit_address, If

(* The schema of a boolean says its type. *)
LEMMA BooleanKeywords ==
  ASSUME NEW spec
  PROVE  LET s == emit_boolean(spec) IN
         /\ DOMAIN s \subseteq {"type", "anolisUnique"}
         /\ "type" \in DOMAIN s /\ s["type"] = "boolean"
         /\ "anolisUnique" \in DOMAIN s <=> spec.unique
BY DEF emit_boolean, If

(* A const takes the text it names and nothing else. *)
LEMMA ConstantFits ==
  ASSUME NEW t, NEW v
  PROVE  Fits(Constant(t), v) <=> v.type = "string" /\ v.value = t
<1>1. DOMAIN Constant(t) = {"const"} /\ Constant(t)["const"] = StringValue(t)
  BY DEF Constant
<1>2. Plain("const", Constant(t), v) <=> SameJson(v, StringValue(t))
  BY <1>1 DEF Plain
<1>3. SameJson(v, StringValue(t)) <=> v.type = "string" /\ v.value = t
  BY DEF SameJson, StringValue
<1>. QED
  BY <1>1, <1>2, <1>3 DEF Fits

(* A string breaks no constraint just when it keeps each; const and enum *)
(* are alternatives in the code only because no declaration has both.    *)
LEMMA StringConstraints ==
  ASSUME NEW spec, NEW t
  PROVE  validate_string_constraints(spec, t) = {} <=>
           /\ ~(spec.non_empty /\ t.form = "empty")
           /\ spec.const_value # None => t = spec.const_value
           /\ spec.enum_values # {} => t \in spec.enum_values
           /\ spec.pattern => t \in PatternTexts
           /\ t \notin spec.forbidden_values
<1>1. CASE spec.const_value # None /\ t # spec.const_value
  BY <1>1 DEF validate_string_constraints, If
<1>2. CASE (spec.const_value = None \/ t = spec.const_value)
             /\ spec.enum_values # {} /\ t \notin spec.enum_values
  BY <1>2 DEF validate_string_constraints, If
<1>3. CASE ~(spec.const_value # None /\ t # spec.const_value)
             /\ ~(spec.enum_values # {} /\ t \notin spec.enum_values)
  <2>1. validate_string_constraints(spec, t) =
          If(spec.non_empty /\ t.form = "empty", "minLength") \cup
          (If(spec.pattern /\ t \notin PatternTexts, "pattern")
            \cup If(t \in spec.forbidden_values, "not"))
    BY <1>3 DEF validate_string_constraints
  <2>. QED
    BY <1>3, <2>1 DEF If
<1>. QED
  BY <1>1, <1>2, <1>3

(* A string: validate_field and emit_field accept the same nodes. *)
LEMMA StringAgrees ==
  ASSUME NEW spec, spec.kind = "String", spec.titled \in BOOLEAN,
         NEW node, IsNode(node), ~Misread(node)
  PROVE  validate_field(spec, node) = {} <=> FieldAccepts(emit_string(spec), ToJson(node))
<1>. DEFINE r == resolve_scalar(node)
            v == ToJson(node)
            t == node.text
            s == emit_string(spec)
<1>1. /\ r.kind = "String" <=> v.type = "string"
      /\ v.type = "string" => r.value = t /\ v.value = t
  BY TextRead
<1>2. CASE v.type # "string"
  <2>1. validate_field(spec, node) = {"type"}
    BY <1>1, <1>2 DEF validate_field
  <2>2. "type" \in DOMAIN s /\ s["type"] = "string"
    BY StringKeywords
  <2>3. ~Composed("type", s, v)
    BY <1>2, <2>2 DEF Composed, Plain
  <2>. QED
    BY <2>1, <2>2, <2>3 DEF FieldAccepts
<1>3. CASE v.type = "string"
  <2>. DEFINE Rules == /\ ~(spec.non_empty /\ t.form = "empty")
                       /\ spec.const_value # None => t = spec.const_value
                       /\ spec.enum_values # {} => t \in spec.enum_values
                       /\ spec.pattern => t \in PatternTexts
                       /\ t \notin spec.forbidden_values
  <2>1. validate_field(spec, node) = {} <=> Rules
    <3>1. validate_field(spec, node) = validate_string_constraints(spec, t)
      BY <1>1, <1>3 DEF validate_field
    <3>2. validate_string_constraints(spec, t) = {} <=> Rules
      BY StringConstraints
    <3>. QED
      BY <3>1, <3>2
  <2>2. v.value = t
    BY <1>1, <1>3
  <2>. HIDE DEF s, v, t
  <2>s. \A x : SameJson(v, StringValue(x)) <=> x = t
    BY <1>3, <2>2 DEF SameJson, StringValue
  <2>a. Composed("type", s, v)
    BY <1>3, StringKeywords DEF Composed, Plain, s
  <2>b. "const" \in DOMAIN s => (Composed("const", s, v) <=> t = spec.const_value)
    <3>1. "const" \in DOMAIN s => s["const"] = StringValue(spec.const_value)
      BY StringKeywords DEF s
    <3>2. Composed("const", s, v) <=> SameJson(v, s["const"])
      BY DEF Composed, Plain
    <3>. QED
      BY <2>s, <3>1, <3>2
  <2>c. "oneOf" \in DOMAIN s => (Composed("oneOf", s, v) <=> t \in spec.enum_values)
    <3>. HAVE "oneOf" \in DOMAIN s
    <3>1. s["oneOf"] = {Constant(x) : x \in spec.enum_values}
      BY StringKeywords DEF s
    <3>2. Composed("oneOf", s, v) <=>
            \E e \in s["oneOf"] : Fits(e, v) /\ \A f \in s["oneOf"] \ {e} : ~Fits(f, v)
      BY DEF Composed
    <3>3. \A x : Fits(Constant(x), v) <=> x = t
      BY <1>3, <2>2, ConstantFits
    <3>. HIDE DEF Rules
    <3>. QED
      BY <3>1, <3>2, <3>3
  <2>d. "enum" \in DOMAIN s => (Composed("enum", s, v) <=> t \in spec.enum_values)
    <3>1. "enum" \in DOMAIN s => s["enum"] = {StringValue(x) : x \in spec.enum_values}
      BY StringKeywords DEF s
    <3>2. Composed("enum", s, v) <=> \E e \in s["enum"] : SameJson(v, e)
      BY DEF Composed, Plain
    <3>. HIDE DEF Rules
    <3>. QED
      BY <2>s, <3>1, <3>2
  <2>e. "pattern" \in DOMAIN s => (Composed("pattern", s, v) <=> t \in PatternTexts)
    BY <1>3, <2>2, StringKeywords DEF Composed, Plain, s
  <2>f. Composed("minLength", s, v) <=> t.form # "empty"
    BY <1>3, <2>2 DEF Composed, Plain
  <2>g. "not" \in DOMAIN s => (Composed("not", s, v) <=> t \notin spec.forbidden_values)
    <3>. HAVE "not" \in DOMAIN s
    <3>. DEFINE n == [enum |-> {StringValue(x) : x \in spec.forbidden_values}]
    <3>1. s["not"] = n
      BY StringKeywords DEF s
    <3>2. Composed("not", s, v) <=> ~Fits(n, v)
      BY <3>1 DEF Composed
    <3>3. DOMAIN n = {"enum"} /\ n["enum"] = {StringValue(x) : x \in spec.forbidden_values}
      OBVIOUS
    <3>. HIDE DEF n
    <3>4. Plain("enum", n, v) <=> t \in spec.forbidden_values
      <4>1. Plain("enum", n, v) <=> \E e \in n["enum"] : SameJson(v, e)
        BY DEF Plain
      <4>. HIDE DEF Rules
      <4>. QED
        BY <2>s, <3>3, <4>1
    <3>. QED
      BY <3>2, <3>3, <3>4 DEF Fits
  <2>h. Composed("anolisUnique", s, v)
    BY DEF Composed, Plain
  <2>3. FieldAccepts(s, v) <=>
          /\ "const" \in DOMAIN s => Composed("const", s, v)
          /\ "oneOf" \in DOMAIN s => Composed("oneOf", s, v)
          /\ "enum" \in DOMAIN s => Composed("enum", s, v)
          /\ "pattern" \in DOMAIN s => Composed("pattern", s, v)
          /\ "minLength" \in DOMAIN s => Composed("minLength", s, v)
          /\ "not" \in DOMAIN s => Composed("not", s, v)
    <3>1. DOMAIN s \subseteq {"type", "const", "oneOf", "enum", "pattern", "minLength", "not",
                            "anolisUnique"}
      BY StringKeywords DEF s
    <3>. QED
      BY <2>a, <2>h, <3>1 DEF FieldAccepts
  <2>4. /\ "const" \in DOMAIN s <=> spec.const_value # None
        /\ "oneOf" \in DOMAIN s <=> spec.enum_values # {} /\ spec.titled
        /\ "enum" \in DOMAIN s <=> spec.enum_values # {} /\ ~spec.titled
        /\ "pattern" \in DOMAIN s <=> spec.pattern
        /\ "minLength" \in DOMAIN s <=> spec.non_empty
        /\ "not" \in DOMAIN s <=> spec.forbidden_values # {}
    BY StringKeywords DEF s
  <2>5. FieldAccepts(s, v) <=> Rules
    BY <2>b, <2>c, <2>d, <2>e, <2>f, <2>g, <2>3, <2>4
  <2>. QED
    BY <2>1, <2>5 DEF s, v
<1>. QED
  BY <1>2, <1>3

(* What the types of Field leave a declaration of a kind. *)
LEMMA SpecIs ==
  ASSUME NEW kind \in Kinds, NEW spec \in SpecsOf(kind)
  PROVE  /\ spec.kind = kind /\ spec.required \in BOOLEAN /\ spec.unique \in BOOLEAN
         /\ spec.titled \in BOOLEAN /\ spec.pattern \in BOOLEAN /\ spec.non_empty \in BOOLEAN
         /\ spec.min \in {None} \cup Int /\ spec.max \in {None} \cup Int
         /\ spec.exclusive_min \in {None} \cup Int /\ spec.exclusive_max \in {None} \cup Int
         /\ kind # "Number" => spec.exclusive_min = None /\ spec.exclusive_max = None
         /\ spec.enum_values \subseteq ScalarTexts /\ spec.forbidden_values \subseteq ScalarTexts
         /\ spec.const_value \in {None} \cup ScalarTexts
         /\ kind # "String" => spec.enum_values = {} /\ spec.const_value = None
         /\ spec.default \in {None} \cup DefaultsOf(kind)
<1>1. IntMin \in Int /\ IntMax \in Int
  BY LimitIs
<1>2. LimitsOf(kind) \subseteq Int /\ ExclusiveOf(kind) \subseteq Int
  BY <1>1 DEF LimitsOf, ExclusiveOf
<1>3. kind # "Number" => ExclusiveOf(kind) = {}
  BY DEF ExclusiveOf
<1>4. TextsOf(kind) \subseteq ScalarTexts /\ FlagsOf(kind) \subseteq BOOLEAN
  BY DEF TextsOf, FlagsOf
<1>5. kind # "String" => TextsOf(kind) = {}
  BY DEF TextsOf
<1>. QED
  BY <1>2, <1>3, <1>4, <1>5 DEF SpecsOf

(* The four bounds of a number are the four keywords, an integer's in *)
(* halves.                                                            *)
LEMMA BoundsAgree ==
  ASSUME NEW spec, NEW type, NEW unit \in {1, 2}, NEW v, NEW x \in Int,
         v.type = "number", Compared(type, v) = unit * x,
         type = "integer" => IsInteger(v), type \in {"integer", "number"},
         spec.min \in {None} \cup Int, spec.max \in {None} \cup Int,
         spec.exclusive_min \in {None} \cup Int, spec.exclusive_max \in {None} \cup Int,
         unit = 1 \/ (spec.exclusive_min = None /\ spec.exclusive_max = None)
  PROVE  Bounds(spec, x) = {} <=> FieldAccepts(emit_number(spec, type, unit), v)
<1>. DEFINE s == emit_number(spec, type, unit)
<1>1. /\ DOMAIN s \subseteq {"type", "minimum", "maximum", "exclusiveMinimum",
                               "exclusiveMaximum", "anolisUnique"}
      /\ "type" \in DOMAIN s /\ s["type"] = type
      /\ "minimum" \in DOMAIN s <=> spec.min # None
      /\ "minimum" \in DOMAIN s => s["minimum"] = unit * spec.min
      /\ "maximum" \in DOMAIN s <=> spec.max # None
      /\ "maximum" \in DOMAIN s => s["maximum"] = unit * spec.max
      /\ "exclusiveMinimum" \in DOMAIN s <=> spec.exclusive_min # None
      /\ "exclusiveMinimum" \in DOMAIN s => s["exclusiveMinimum"] = spec.exclusive_min
      /\ "exclusiveMaximum" \in DOMAIN s <=> spec.exclusive_max # None
      /\ "exclusiveMaximum" \in DOMAIN s => s["exclusiveMaximum"] = spec.exclusive_max
  BY NumberKeywords
<1>. HIDE DEF s
<1>2. Composed("type", s, v) /\ Composed("anolisUnique", s, v)
  BY <1>1 DEF Composed, Plain
<1>3. "minimum" \in DOMAIN s => (Composed("minimum", s, v) <=> x >= spec.min)
  BY <1>1 DEF Composed, Plain
<1>4. "maximum" \in DOMAIN s => (Composed("maximum", s, v) <=> x <= spec.max)
  BY <1>1 DEF Composed, Plain
<1>5. "exclusiveMinimum" \in DOMAIN s =>
        (Composed("exclusiveMinimum", s, v) <=> x > spec.exclusive_min)
  BY <1>1 DEF Composed, Plain
<1>6. "exclusiveMaximum" \in DOMAIN s =>
        (Composed("exclusiveMaximum", s, v) <=> x < spec.exclusive_max)
  BY <1>1 DEF Composed, Plain
<1>7. FieldAccepts(s, v) <=>
        /\ "minimum" \in DOMAIN s => Composed("minimum", s, v)
        /\ "maximum" \in DOMAIN s => Composed("maximum", s, v)
        /\ "exclusiveMinimum" \in DOMAIN s => Composed("exclusiveMinimum", s, v)
        /\ "exclusiveMaximum" \in DOMAIN s => Composed("exclusiveMaximum", s, v)
  BY <1>1, <1>2 DEF FieldAccepts
<1>8. Bounds(spec, x) = {} <=>
        /\ spec.min # None => x >= spec.min
        /\ spec.max # None => x <= spec.max
        /\ spec.exclusive_min # None => x > spec.exclusive_min
        /\ spec.exclusive_max # None => x < spec.exclusive_max
  BY DEF Bounds, If
<1>9. FieldAccepts(s, v) <=>
        /\ spec.min # None => x >= spec.min
        /\ spec.max # None => x <= spec.max
        /\ spec.exclusive_min # None => x > spec.exclusive_min
        /\ spec.exclusive_max # None => x < spec.exclusive_max
  BY <1>1, <1>3, <1>4, <1>5, <1>6, <1>7
<1>. QED
  BY <1>8, <1>9 DEF s

(* An integer or a number: both accept the same nodes. *)
LEMMA NumberAgrees ==
  ASSUME NEW spec, spec.kind \in {"Integer", "Number"}, spec \in SpecsOf(spec.kind),
         NEW node, IsNode(node), ~Misread(node)
  PROVE  validate_field(spec, node) = {} <=> FieldAccepts(emit_field(spec), ToJson(node))
<1>. DEFINE r == resolve_scalar(node)
            v == ToJson(node)
<1>0. /\ spec.min \in {None} \cup Int /\ spec.max \in {None} \cup Int
      /\ spec.exclusive_min \in {None} \cup Int /\ spec.exclusive_max \in {None} \cup Int
      /\ spec.kind # "Number" => spec.exclusive_min = None /\ spec.exclusive_max = None
  BY SpecIs DEF Kinds
<1>1. CASE spec.kind = "Integer"
  <2>. DEFINE x == integer_of(r)
              s == emit_number(spec, "integer", 2)
  <2>1. emit_field(spec) = s
    BY <1>1 DEF emit_field
  <2>2. /\ x # None <=> IsInteger(v)
        /\ x # None => x \in Int /\ v.type = "number" /\ 2 * x = Compared("integer", v)
    BY IntegerRead
  <2>3. validate_field(spec, node) = IF x # None THEN Bounds(spec, x) ELSE {"type"}
    BY <1>1 DEF validate_field
  <2>4. CASE x = None
    <3>1. "type" \in DOMAIN s /\ s["type"] = "integer"
      BY NumberKeywords
    <3>. HIDE DEF s, x, v
    <3>2. ~Composed("type", s, v)
      BY <2>2, <2>4, <3>1 DEF Composed, Plain
    <3>. QED
      BY <2>1, <2>3, <2>4, <3>1, <3>2 DEF FieldAccepts, v
  <2>5. CASE x # None
    <3>1. Bounds(spec, x) = {} <=> FieldAccepts(s, v)
      <4>. HIDE DEF x, v
      <4>. QED
        BY <1>0, <1>1, <2>2, <2>5, BoundsAgree
    <3>. QED
      BY <2>1, <2>3, <2>5, <3>1
  <2>. QED
    BY <2>4, <2>5
<1>2. CASE spec.kind = "Number"
  <2>. DEFINE x == number_of(r)
              s == emit_number(spec, "number", 1)
  <2>1. emit_field(spec) = s
    BY <1>2 DEF emit_field
  <2>2. /\ x # None <=> v.type = "number"
        /\ v.type = "number" => x \in Int /\ x = Compared("number", v)
    BY NumberRead
  <2>3. validate_field(spec, node) = IF x # None THEN Bounds(spec, x) ELSE {"type"}
    BY <1>2 DEF validate_field
  <2>4. CASE x = None
    <3>1. "type" \in DOMAIN s /\ s["type"] = "number"
      BY NumberKeywords
    <3>. HIDE DEF s, x, v
    <3>2. ~Composed("type", s, v)
      BY <2>2, <2>4, <3>1 DEF Composed, Plain
    <3>. QED
      BY <2>1, <2>3, <2>4, <3>1, <3>2 DEF FieldAccepts, v
  <2>5. CASE x # None
    <3>1. Bounds(spec, x) = {} <=> FieldAccepts(s, v)
      <4>. HIDE DEF x, v
      <4>1. 1 * x = x
        BY <2>2, <2>5
      <4>. QED
        BY <1>0, <2>2, <2>5, <4>1, BoundsAgree
    <3>. QED
      BY <2>1, <2>3, <2>5, <3>1
  <2>. QED
    BY <2>4, <2>5
<1>. QED
  BY <1>1, <1>2

(* A boolean: both accept the same nodes. *)
LEMMA BooleanAgrees ==
  ASSUME NEW spec, spec.kind = "Boolean", NEW node, IsNode(node), ~Misread(node)
  PROVE  validate_field(spec, node) = {} <=> FieldAccepts(emit_boolean(spec), ToJson(node))
<1>. DEFINE s == emit_boolean(spec)
            v == ToJson(node)
<1>1. resolve_scalar(node).kind = "Bool" <=> v.type = "boolean"
  BY TextRead
<1>2. validate_field(spec, node) = {} <=> v.type = "boolean"
  BY <1>1 DEF validate_field, If
<1>3. DOMAIN s \subseteq {"type", "anolisUnique"} /\ "type" \in DOMAIN s /\ s["type"] = "boolean"
  BY BooleanKeywords
<1>. HIDE DEF s
<1>4. (Composed("type", s, v) <=> v.type = "boolean") /\ Composed("anolisUnique", s, v)
  BY <1>3 DEF Composed, Plain
<1>. QED
  BY <1>2, <1>3, <1>4 DEF FieldAccepts, s

(* What is an address to the validator: an integer in the range, or a text *)
(* of two hex digits in it.                                                *)
LEMMA AddressRead ==
  ASSUME NEW node, IsNode(node), ~Misread(node)
  PROVE  LET a == i2c_address_of(resolve_scalar(node))
             v == ToJson(node) IN
         /\ a # None <=>
              \/ IsInteger(v) /\ v.value \in (2 * kI2cAddressMin)..(2 * kI2cAddressMax)
              \/ v.type = "string" /\ MatchesHexPattern(node.text)
         /\ a # None =>
              /\ a \in kI2cAddressMin..kI2cAddressMax
              /\ \/ v.type = "number" /\ v.value = 2 * a
                 \/ v.type = "string" /\ node.text.value = a
<1>. DEFINE r == resolve_scalar(node)
            v == ToJson(node)
            x == integer_of(r)
            t == node.text
            a == i2c_address_of(r)
            Goal == /\ a # None <=>
                         \/ IsInteger(v) /\ v.value \in (2 * kI2cAddressMin)..(2 * kI2cAddressMax)
                         \/ v.type = "string" /\ MatchesHexPattern(t)
                    /\ a # None =>
                         /\ a \in kI2cAddressMin..kI2cAddressMax
                         /\ \/ v.type = "number" /\ v.value = 2 * a
                            \/ v.type = "string" /\ t.value = a
<1>. SUFFICES Goal
  OBVIOUS
<1>1. kI2cAddressMin \in Nat /\ kI2cAddressMax \in Nat /\ None \notin Int
  BY AddressAssumption, NoneAssumption
<1>2. /\ x # None <=> IsInteger(v)
      /\ x # None => /\ x \in Int /\ InInt64(x) /\ v.type = "number" /\ v.value \in Int
                     /\ v.value = 2 * x \/ (x = IntMin /\ v.value < 2 * x)
  BY IntegerRead
<1>3. /\ r.kind = "String" <=> v.type = "string"
      /\ v.type = "string" => r.value = t
      /\ t.value \in Int
  BY TextRead
<1>4. IntMin \in Int /\ IntMin < 0
  BY LimitIs
<1>5. IsInteger(v) => v.type = "number"
  BY DEF IsInteger
<1>. HIDE DEF x, v, t, a
<1>6. CASE x # None
  <2>1. a = IF x \in kI2cAddressMin..kI2cAddressMax THEN x ELSE None
    BY <1>6 DEF i2c_address_of, x, a
  <2>2. x \in kI2cAddressMin..kI2cAddressMax <=>
          v.value \in (2 * kI2cAddressMin)..(2 * kI2cAddressMax)
    BY <1>1, <1>2, <1>4, <1>6
  <2>3. x \in kI2cAddressMin..kI2cAddressMax => v.value = 2 * x
    BY <1>1, <1>2, <1>4, <1>6
  <2>4. IsInteger(v) /\ v.type = "number"
    BY <1>2, <1>6
  <2>5. CASE x \in kI2cAddressMin..kI2cAddressMax
    <3>1. a = x /\ a # None /\ v.value = 2 * a
      BY <1>6, <2>1, <2>3, <2>5
    <3>2. v.value \in (2 * kI2cAddressMin)..(2 * kI2cAddressMax)
      BY <2>2, <2>5
    <3>. QED
      BY <2>4, <2>5, <3>1, <3>2
  <2>6. CASE x \notin kI2cAddressMin..kI2cAddressMax
    BY <1>1, <1>3, <2>1, <2>2, <2>4, <2>6
  <2>. QED
    BY <2>5, <2>6
<1>7. CASE x = None
  <2>0. ~IsInteger(v)
    BY <1>2, <1>7
  <2>1. CASE v.type = "string" /\ MatchesHexPattern(t)
    <3>1. t.value \in kI2cAddressMin..kI2cAddressMax
      BY <2>1 DEF MatchesHexPattern
    <3>2. a = t.value
      <4>1. r.kind = "String" /\ r.value = t /\ t.value # None
        BY <1>1, <1>3, <2>1
      <4>. QED
        BY <1>7, <2>1, <3>1, <4>1 DEF i2c_address_of, x, a
    <3>. QED
      BY <1>1, <1>3, <2>1, <3>1, <3>2
  <2>2. CASE ~(v.type = "string" /\ MatchesHexPattern(t))
    <3>1. a = None
      BY <1>3, <1>7, <2>2 DEF i2c_address_of, x, a
    <3>. QED
      BY <2>0, <2>2, <3>1
  <2>. QED
    BY <2>1, <2>2
<1>. QED
  BY <1>6, <1>7

(* The pattern of kI2cHexPattern is the texts the validator parses. *)
LEMMA HexTextsMatch ==
  ASSUME NEW t \in ScalarTexts
  PROVE  t \in HexTexts <=> MatchesHexPattern(t)
<1>1. t = [form |-> t.form, value |-> t.value]
  BY DEF ScalarTexts
<1>2. t \in HexTexts => MatchesHexPattern(t)
  BY DEF HexTexts, MatchesHexPattern
<1>3. ASSUME MatchesHexPattern(t) PROVE t \in HexTexts
  <2>1. t.form \in {"hex", "HEX"} /\ t.value \in kI2cAddressMin..kI2cAddressMax
    BY <1>3 DEF MatchesHexPattern
  <2>. QED
    BY <1>1, <2>1 DEF HexTexts
<1>. QED
  BY <1>2, <1>3

(* An address: both accept the same nodes. *)
LEMMA AddressAgrees ==
  ASSUME NEW spec, spec.kind = "I2cAddress", NEW node, IsNode(node), ~Misread(node)
  PROVE  validate_field(spec, node) = {} <=> FieldAccepts(emit_address(spec), ToJson(node))
<1>. DEFINE s == emit_address(spec)
            v == ToJson(node)
            t == node.text
            InRange64 == v.value \in (2 * kI2cAddressMin)..(2 * kI2cAddressMax)
<1>0. /\ kI2cAddressMin \in Nat /\ kI2cAddressMax \in Nat
      /\ IntMin \in Int /\ IntMin < 0
  BY AddressAssumption, LimitIs
<1>1. validate_field(spec, node) = {} <=>
        (IsInteger(v) /\ InRange64) \/ (v.type = "string" /\ MatchesHexPattern(t))
  <2>. DEFINE a == i2c_address_of(resolve_scalar(node))
  <2>1. a # None <=> (IsInteger(v) /\ InRange64) \/ (v.type = "string" /\ MatchesHexPattern(t))
    BY AddressRead
  <2>2. validate_field(spec, node) = If(a = None, "type")
    BY DEF validate_field
  <2>. HIDE DEF a
  <2>. QED
    BY <2>1, <2>2 DEF If
<1>2. /\ DOMAIN s \subseteq {"anolisType", "anyOf", "anolisUnique"}
      /\ "anyOf" \in DOMAIN s /\ s["anyOf"] = <<AddressNumber, AddressString>>
  BY AddressKeywords
<1>3. Fits(AddressNumber, v) <=> IsInteger(v) /\ InRange64
  <2>. DEFINE n == AddressNumber
  <2>1. /\ DOMAIN n = {"type", "minimum", "maximum"} /\ n["type"] = "integer"
        /\ n["minimum"] = 2 * kI2cAddressMin /\ n["maximum"] = 2 * kI2cAddressMax
    BY DEF AddressNumber
  <2>. HIDE DEF n
  <2>2. Plain("type", n, v) <=> IsInteger(v)
    BY <2>1 DEF Plain
  <2>3. ASSUME IsInteger(v)
        PROVE  Plain("minimum", n, v) /\ Plain("maximum", n, v) <=> InRange64
    <3>1. v.type = "number" /\ v.value \in Int
      <4>1. integer_of(resolve_scalar(node)) # None
        BY <2>3, IntegerRead
      <4>. QED
        BY <4>1, IntegerRead
    <3>2. Compared("integer", v) = IF v.value < 2 * IntMin THEN 2 * IntMin ELSE v.value
      BY DEF Compared
    <3>. HIDE DEF v
    <3>3. Plain("minimum", n, v) <=> Compared("integer", v) >= 2 * kI2cAddressMin
      BY <2>1, <3>1 DEF Plain
    <3>4. Plain("maximum", n, v) <=> Compared("integer", v) <= 2 * kI2cAddressMax
      BY <2>1, <3>1 DEF Plain
    <3>. QED
      BY <1>0, <3>1, <3>2, <3>3, <3>4
  <2>4. Fits(n, v) <=> Plain("type", n, v) /\ Plain("minimum", n, v) /\ Plain("maximum", n, v)
    BY <2>1 DEF Fits
  <2>. QED
    BY <2>2, <2>3, <2>4 DEF n
<1>4. Fits(AddressString, v) <=> v.type = "string" /\ MatchesHexPattern(t)
  <2>. DEFINE n == AddressString
  <2>1. DOMAIN n = {"type", "pattern"} /\ n["type"] = "string" /\ n["pattern"] = HexTexts
    BY DEF AddressString
  <2>. HIDE DEF n
  <2>2. Plain("type", n, v) <=> v.type = "string"
    BY <2>1 DEF Plain
  <2>3. v.type = "string" => (Plain("pattern", n, v) <=> v.value \in HexTexts)
    BY <2>1 DEF Plain
  <2>4. v.type = "string" => (v.value \in HexTexts <=> MatchesHexPattern(t))
    <3>. HAVE v.type = "string"
    <3>1. v.value = t /\ t \in ScalarTexts
      BY TextRead
    <3>. HIDE DEF v, t
    <3>. QED
      BY <3>1, HexTextsMatch
  <2>5. Fits(n, v) <=> Plain("type", n, v) /\ Plain("pattern", n, v)
    BY <2>1 DEF Fits
  <2>. QED
    BY <2>2, <2>3, <2>4, <2>5 DEF n
<1>. HIDE DEF s, v
<1>5. Composed("anyOf", s, v) <=> Fits(AddressNumber, v) \/ Fits(AddressString, v)
  <2>1. Composed("anyOf", s, v) <=> \E i \in DOMAIN s["anyOf"] : Fits(s["anyOf"][i], v)
    BY DEF Composed
  <2>2. /\ DOMAIN s["anyOf"] = {1, 2}
        /\ s["anyOf"][1] = AddressNumber /\ s["anyOf"][2] = AddressString
    BY <1>2
  <2>. QED
    BY <2>1, <2>2
<1>6. Composed("anolisType", s, v) /\ Composed("anolisUnique", s, v)
  BY DEF Composed, Plain
<1>7. FieldAccepts(s, v) <=> Fits(AddressNumber, v) \/ Fits(AddressString, v)
  BY <1>2, <1>5, <1>6 DEF FieldAccepts
<1>. QED
  BY <1>1, <1>3, <1>4, <1>7 DEF s, v

(* The validator of a field and the schema it is emitted as accept the same nodes. *)
LEMMA FieldAgrees ==
  ASSUME NEW kind \in Kinds, NEW spec \in SpecsOf(kind), NEW node, IsNode(node), ~Misread(node)
  PROVE  validate_field(spec, node) = {} <=> FieldAccepts(emit_field(spec), ToJson(node))
<1>1. spec.kind = kind /\ spec.titled \in BOOLEAN
  BY SpecIs
<1>2. CASE kind = "String"
  BY <1>1, <1>2, StringAgrees DEF emit_field
<1>3. CASE kind \in {"Integer", "Number"}
  BY <1>1, <1>3, NumberAgrees
<1>4. CASE kind = "Boolean"
  BY <1>1, <1>4, BooleanAgrees DEF emit_field
<1>5. CASE kind = "I2cAddress"
  BY <1>1, <1>5, AddressAgrees DEF emit_field
<1>. QED
  BY <1>2, <1>3, <1>4, <1>5 DEF Kinds

-----------------------------------------------------------------------------
(* What a declaration promises *)

(* A quoted text resolves to itself. *)
LEMMA SpelledText ==
  ASSUME NEW t
  PROVE  resolve_scalar(Spelled("String", t)) = Resolved("String", t)
BY DEF Spelled, TextNode, Node, resolve_scalar

(* A decimal literal in the range resolves to its integer. *)
LEMMA SpelledNumeral ==
  ASSUME NEW kind \in {"Integer", "I2cAddress"}, NEW n, InInt64(n)
  PROVE  resolve_scalar(Spelled(kind, n)) = Resolved("Int", n)
<1>. DEFINE t == [form |-> "dec", value |-> n]
<1>1. Spelled(kind, n) = TextNode(FALSE, t)
  BY DEF Spelled
<1>2. resolve_scalar(TextNode(FALSE, t)) = resolve_plain(t)
  BY DEF TextNode, Node, resolve_scalar
<1>3. resolve_plain(t) = Resolved("Int", n)
  BY DEF resolve_plain
<1>. QED
  BY <1>1, <1>2, <1>3

(* A literal with a fraction resolves to its number, true and false to *)
(* theirs.                                                             *)
LEMMA SpelledOther ==
  ASSUME NEW n
  PROVE  /\ resolve_scalar(Spelled("Number", n)) = Resolved("Float", n)
         /\ resolve_scalar(Spelled("Boolean", n)) = Resolved("Bool", n)
<1>. DEFINE t(form) == [form |-> form, value |-> n]
<1>1. Spelled("Number", n) = TextNode(FALSE, t("float")) /\ Spelled("Boolean", n) = TextNode(FALSE, t("bool"))
  BY DEF Spelled
<1>2. \A x : resolve_scalar(TextNode(FALSE, x)) = resolve_plain(x)
  BY DEF TextNode, Node, resolve_scalar
<1>3. resolve_plain(t("float")) = Resolved("Float", n) /\ resolve_plain(t("bool")) = Resolved("Bool", n)
  BY DEF resolve_plain
<1>. QED
  BY <1>1, <1>2, <1>3

(* After check_field, each default, enum value and const is one that *)
(* validate_field accepts.                                           *)
LEMMA PromisesKept ==
  ASSUME NEW kind \in Kinds, NEW spec \in SpecsOf(kind), NEW in_array_item,
         check_field(spec, in_array_item),
         NEW value \in Named(spec) \cup ({spec.default} \ {None})
  PROVE  validate_field(spec, Spelled(spec.kind, value)) = {}
<1>. DEFINE node == Spelled(spec.kind, value)
<1>1. /\ spec.kind = kind /\ spec.default \in {None} \cup DefaultsOf(kind)
      /\ spec.min \in {None} \cup Int /\ spec.max \in {None} \cup Int
      /\ kind # "String" => spec.enum_values = {} /\ spec.const_value = None
  BY SpecIs
<1>2. /\ spec.const_value # None => spec.enum_values = {} /\ AcceptsString(spec, spec.const_value)
      /\ \A t \in spec.enum_values : AcceptsString(spec, t)
      /\ spec.default # None => DefaultFits(spec)
  BY DEF check_field
<1>3. None \notin Int
  BY NoneAssumption
<1>4. CASE kind = "String"
  <2>1. /\ AcceptsString(spec, value)
        /\ spec.const_value # None => value = spec.const_value
        /\ spec.enum_values # {} => value \in spec.enum_values
    <3>1. CASE value \in Named(spec)
      BY <1>2, <3>1 DEF Named
    <3>2. CASE value = spec.default /\ spec.default # None
      BY <1>1, <1>2, <1>4, <3>2 DEF DefaultFits
    <3>. QED
      BY <3>1, <3>2
  <2>2. resolve_scalar(node) = Resolved("String", value)
    BY <1>1, <1>4, SpelledText
  <2>3. validate_field(spec, node) = validate_string_constraints(spec, value)
    BY <1>1, <1>4, <2>2 DEF validate_field, Resolved
  <2>. QED
    BY <2>1, <2>3, StringConstraints DEF AcceptsString
<1>5. kind # "String" => value = spec.default /\ spec.default # None /\ value \in DefaultsOf(kind)
  BY <1>1 DEF Named
<1>6. CASE kind = "Integer"
  <2>1. value \in Int /\ InInt64(value) /\ Bounds(spec, value) = {}
    BY <1>1, <1>2, <1>5, <1>6, LimitIs DEF DefaultsOf, InInt64, DefaultFits
  <2>2. integer_of(resolve_scalar(node)) = value
    BY <1>1, <1>6, <2>1, SpelledNumeral DEF integer_of, Resolved
  <2>. QED
    BY <1>1, <1>3, <1>6, <2>1, <2>2 DEF validate_field
<1>7. CASE kind = "Number"
  <2>1. value \in Int /\ Bounds(spec, value) = {}
    BY <1>1, <1>2, <1>5, <1>7 DEF DefaultsOf, DefaultFits
  <2>2. number_of(resolve_scalar(node)) = value
    BY <1>1, <1>7, <2>1, SpelledOther DEF number_of, Resolved
  <2>. QED
    BY <1>1, <1>3, <1>7, <2>1, <2>2 DEF validate_field
<1>8. CASE kind = "Boolean"
  <2>1. resolve_scalar(node).kind = "Bool"
    BY <1>1, <1>8, SpelledOther DEF Resolved
  <2>. QED
    BY <1>1, <1>8, <2>1 DEF validate_field, If
<1>9. CASE kind = "I2cAddress"
  <2>1. value \in Int /\ InInt64(value) /\ value \in kI2cAddressMin..kI2cAddressMax
    BY <1>1, <1>2, <1>5, <1>9, LimitIs DEF DefaultsOf, InInt64, DefaultFits
  <2>2. integer_of(resolve_scalar(node)) = value
    BY <1>1, <1>9, <2>1, SpelledNumeral DEF integer_of, Resolved
  <2>3. i2c_address_of(resolve_scalar(node)) = value
    BY <1>3, <2>1, <2>2 DEF i2c_address_of
  <2>. QED
    BY <1>1, <1>3, <1>9, <2>1, <2>3 DEF validate_field, If
<1>. QED
  BY <1>4, <1>6, <1>7, <1>8, <1>9 DEF Kinds

(* Places *)
LEMMA FrontAndLast ==
  ASSUME NEW p \in Seq(Nat), p # <<>>
  PROVE  /\ p = Append(Front(p), Last(p)) /\ Front(p) \in Seq(Nat)
         /\ Len(Front(p)) = Len(p) - 1 /\ Len(p) \in Nat /\ Len(p) > 0
         /\ Last(p) = p[Len(p)] /\ Last(p) \in Nat
<1>1. Len(p) \in Nat /\ Len(p) > 0 /\ Last(p) = p[Len(p)] /\ Last(p) \in Nat
  <2>1. Len(p) \in Nat
    OBVIOUS
  <2>2. <<>> \in Seq(Nat) /\ Len(<<>>) = 0
    OBVIOUS
  <2>3. Len(p) # 0
    BY <2>2
  <2>. QED
    BY <2>1, <2>3 DEF Last
<1>. DEFINE m == Len(p) - 1
<1>2. m \in Nat /\ m - 1 + 1 = m /\ \A i \in 1..m : p[i] \in Nat /\ 1 + i - 1 = i
  BY <1>1
<1>3. Front(p) = SubSeq(p, 1, m)
  BY DEF Front
<1>. HIDE DEF m
<1>7. /\ SubSeq(p, 1, m) \in Seq(Nat) /\ Len(SubSeq(p, 1, m)) = IF 1 <= m THEN m - 1 + 1 ELSE 0
      /\ \A i \in 1..(m - 1 + 1) : SubSeq(p, 1, m)[i] = p[1 + i - 1]
  BY <1>2, SubSeqProperties
<1>8. Front(p) \in Seq(Nat) /\ Len(Front(p)) = m /\ \A i \in 1..m : Front(p)[i] = p[i]
  BY <1>2, <1>3, <1>7
<1>. DEFINE q == Append(Front(p), Last(p))
<1>4. q \in Seq(Nat) /\ Len(q) = Len(p)
  BY <1>1, <1>8 DEF m
<1>5. \A i \in 1..Len(p) : q[i] = p[i]
  <2>. TAKE i \in 1..Len(p)
  <2>1. CASE i = Len(p)
    BY <1>1, <1>8, <2>1 DEF m
  <2>2. CASE i # Len(p)
    BY <1>1, <1>8, <2>2 DEF m
  <2>. QED
    BY <2>1, <2>2
<1>6. q = p
  <2>. HIDE DEF q
  <2>. QED
    BY <1>4, <1>5, SameSequence
<1>. QED
  BY <1>1, <1>8, <1>6 DEF m

(* A place and a position further in make the place inside. *)
LEMMA FrontOfAppend ==
  ASSUME NEW p \in Seq(Nat), NEW i \in Nat
  PROVE  /\ Append(p, i) \in Seq(Nat) /\ Append(p, i) # <<>>
         /\ Front(Append(p, i)) = p /\ Last(Append(p, i)) = i
BY DEF Front, Last

(* A part that is not the root is in an object or in an array, and what an    *)
(* object checks of a member has been checked.                                *)
LEMMA PartIs ==
  ASSUME NEW tree, IsDeclaration(tree), NEW d \in DOMAIN tree
  PROVE  /\ d \in Seq(Nat) /\ IsPart(tree[d])
         /\ tree[d].kind \in {"Scalar", "Object", "Array"}
         /\ d # <<>> =>
              /\ Front(d) \in DOMAIN tree /\ tree[Front(d)].kind \in {"Object", "Array"}
              /\ tree[Front(d)].kind = "Object" => d \in MembersAt(tree, Front(d))
              /\ tree[Front(d)].kind = "Array" => d = ItemAt(Front(d)) /\ tree[d].kind # "Array"
<1>1. d \in Seq(Nat) /\ IsPart(tree[d]) /\ tree[d].kind \in {"Scalar", "Object", "Array"}
  BY DEF IsDeclaration, IsPart
<1>2. ASSUME d # <<>>
      PROVE  /\ Front(d) \in DOMAIN tree /\ tree[Front(d)].kind \in {"Object", "Array"}
             /\ tree[Front(d)].kind = "Object" => d \in MembersAt(tree, Front(d))
             /\ tree[Front(d)].kind = "Array" => d = ItemAt(Front(d)) /\ tree[d].kind # "Array"
  <2>. DEFINE p == Front(d)
  <2>1. p \in DOMAIN tree /\ Last(d) \in 1..SizeOf(tree[p])
    BY <1>2 DEF IsDeclaration
  <2>2. tree[p].kind \in {"Scalar", "Object", "Array"}
    BY <2>1 DEF IsDeclaration, IsPart
  <2>3. d = Append(p, Last(d))
    BY <1>1, <1>2, FrontAndLast
  <2>. HIDE DEF p
  <2>4. CASE tree[p].kind = "Scalar"
    BY <2>1, <2>4 DEF SizeOf
  <2>5. CASE tree[p].kind = "Object"
    <3>1. SizeOf(tree[p]) = tree[p].spec.size
      BY <2>5 DEF SizeOf
    <3>2. d \in MembersAt(tree, p)
      BY <2>1, <2>3, <3>1 DEF MembersAt
    <3>. QED
      BY <2>1, <2>5, <3>2 DEF p
  <2>6. CASE tree[p].kind = "Array"
    <3>1. SizeOf(tree[p]) = 1
      BY <2>6 DEF SizeOf
    <3>2. Last(d) = 1
      BY <2>1, <3>1
    <3>3. d = ItemAt(p)
      BY <2>3, <3>2 DEF ItemAt
    <3>4. tree[d].kind # "Array"
      BY <2>1, <2>6, <3>3 DEF IsDeclaration, ItemAt
    <3>. QED
      BY <2>1, <2>6, <3>3, <3>4 DEF p
  <2>. QED
    BY <2>2, <2>4, <2>5, <2>6
<1>. QED
  BY <1>1, <1>2

(* Each field of a declaration has passed check_field, and a unique one is *)
(* a field of an array's objects: check_object gets to all of them.        *)
LEMMA FieldChecked ==
  ASSUME NEW tree, IsDeclaration(tree), IsSchema(tree), NEW d \in PlacesOf(tree, "Scalar")
  PROVE  /\ \E kind \in Kinds : tree[d].spec \in SpecsOf(kind)
         /\ \E x : check_field(tree[d].spec, x)
         /\ tree[d].spec.unique => \E a \in PlacesOf(tree, "Array") : d \in UniqueMembers(tree, a)
<1>. DEFINE p == Front(d)
<1>1. d \in DOMAIN tree /\ tree[d].kind = "Scalar"
  BY DEF PlacesOf
<1>2. d # <<>> /\ \E kind \in Kinds : tree[d].spec \in SpecsOf(kind)
  BY <1>1 DEF IsDeclaration, IsPart
<1>3. /\ d \in Seq(Nat) /\ p \in DOMAIN tree /\ tree[p].kind \in {"Object", "Array"}
      /\ tree[p].kind = "Object" => d \in MembersAt(tree, p)
      /\ tree[p].kind = "Array" => d = ItemAt(p)
  BY <1>1, <1>2, PartIs
<1>. HIDE DEF p
<1>4. \A o \in DOMAIN tree : tree[o].kind = "Object" => check_object(tree, o)
  BY DEF IsSchema, PlacesOf
<1>5. CASE tree[p].kind = "Object"
  <2>1. check_field(tree[d].spec, IsItem(tree, p))
    BY <1>1, <1>3, <1>4, <1>5 DEF check_object
  <2>2. ASSUME tree[d].spec.unique
        PROVE  \E a \in PlacesOf(tree, "Array") : d \in UniqueMembers(tree, a)
    <3>. DEFINE a == Front(p)
    <3>1. p # <<>> /\ tree[a].kind = "Array"
      BY <2>1, <2>2 DEF check_field, IsItem
    <3>2. a \in DOMAIN tree /\ p = ItemAt(a)
      BY <1>3, <3>1, PartIs
    <3>. HIDE DEF a
    <3>3. d \in UniqueMembers(tree, a)
      BY <1>1, <1>3, <1>5, <2>2, <3>2 DEF UniqueMembers
    <3>. QED
      BY <3>1, <3>2, <3>3 DEF PlacesOf
  <2>. QED
    BY <1>2, <2>1, <2>2
<1>6. CASE tree[p].kind = "Array"
  <2>. DEFINE o == Front(p)
  <2>1. p # <<>>
    BY <1>6 DEF IsDeclaration
  <2>2. o \in DOMAIN tree /\ tree[o].kind = "Object" /\ p \in MembersAt(tree, o)
    BY <1>3, <1>6, <2>1, PartIs
  <2>. HIDE DEF o
  <2>3. check_array(tree, p)
    BY <1>4, <1>6, <2>2 DEF check_object
  <2>4. ~tree[d].spec.unique /\ check_field(tree[d].spec, FALSE)
    BY <1>1, <1>3, <1>6, <2>3 DEF check_array
  <2>. QED
    BY <1>2, <2>4
<1>. QED
  BY <1>3, <1>5, <1>6

-----------------------------------------------------------------------------
(* The invariant *)

(* What was declared has passed Schema's checks, and what was checked has been *)
(* validated.                                                                  *)
ConfigInv ==
  /\ pc \in {"declared", "checked"} => IsDeclaration(root) /\ IsSchema(root)
  /\ pc = "checked" => IsYaml(doc) /\ errors = validate(root, doc)

(* At first nothing is declared or checked. *)
LEMMA ConfigInitial == Init => ConfigInv
BY DEF Init, ConfigInv

(* No step breaks it: a tree is declared only if Schema accepted it, and *)
(* errors is what validate() returned for the document.                  *)
LEMMA ConfigStep == ConfigInv /\ [Next]_vars => ConfigInv'
<1>. SUFFICES ASSUME ConfigInv, [Next]_vars PROVE ConfigInv'
  OBVIOUS
<1>1. CASE CallSetter
  <2>1. pc = "field" /\ pc' \in {"field", "threw"}
    BY <1>1 DEF CallSetter
  <2>. QED
    BY <2>1 DEF ConfigInv
<1>2. CASE Declare
  <2>1. PICK i \in DOMAIN Trees(field) :
          /\ IsDeclaration(Trees(field)[i]) /\ root' = Trees(field)[i]
          /\ pc' = IF IsSchema(Trees(field)[i]) THEN "declared" ELSE "threw"
    BY <1>2 DEF Declare
  <2>2. pc' = "declared" => IsDeclaration(root') /\ IsSchema(root')
    BY <2>1
  <2>3. pc' # "checked"
    BY <2>1
  <2>. QED
    BY <2>2, <2>3 DEF ConfigInv
<1>3. CASE CheckConfig
  <2>1. /\ pc = "declared" /\ pc' = "checked" /\ IsYaml(doc') /\ errors' = validate(root, doc')
        /\ root' = root
    BY <1>3 DEF CheckConfig
  <2>2. IsDeclaration(root') /\ IsSchema(root') /\ errors' = validate(root', doc')
    BY <2>1 DEF ConfigInv
  <2>. QED
    BY <2>1, <2>2 DEF ConfigInv
<1>4. CASE Done \/ UNCHANGED vars
  BY <1>4 DEF Done, vars, ConfigInv
<1>. QED
  BY <1>1, <1>2, <1>3, <1>4 DEF Next

(* With the invariant, declarations keep their promises. *)
LEMMA PromisesHold == ConfigInv => DeclarationsKeepPromises
<1>. SUFFICES ASSUME ConfigInv, pc \in {"declared", "checked"}, NEW d \in PlacesOf(root, "Scalar")
              PROVE  /\ \A value \in Named(root[d].spec) \cup ({root[d].spec.default} \ {None}) :
                          validate_field(root[d].spec, Spelled(root[d].spec.kind, value)) = {}
                     /\ root[d].spec.unique =>
                          \E a \in PlacesOf(root, "Array") : d \in UniqueMembers(root, a)
  BY DEF DeclarationsKeepPromises
<1>. DEFINE spec == root[d].spec
<1>1. IsDeclaration(root) /\ IsSchema(root)
  BY DEF ConfigInv
<1>2. PICK kind \in Kinds : spec \in SpecsOf(kind)
  BY <1>1, FieldChecked
<1>3. PICK x : check_field(spec, x)
  BY <1>1, FieldChecked
<1>4. spec.unique => \E a \in PlacesOf(root, "Array") : d \in UniqueMembers(root, a)
  BY <1>1, FieldChecked
<1>5. \A value \in Named(spec) \cup ({spec.default} \ {None}) :
        validate_field(spec, Spelled(spec.kind, value)) = {}
  <2>. HIDE DEF spec
  <2>. QED
    BY <1>2, <1>3, PromisesKept
<1>. QED
  BY <1>4, <1>5

(* A string or a boolean is resolved from the node's text. *)
LEMMA TextResolved ==
  ASSUME NEW node
  PROVE  LET r == resolve_scalar(node) IN
         /\ r.kind = "String" => r.value = node.text
         /\ r.kind = "Bool" => r.value = node.text.value
         /\ r.kind # "NonScalar" => node.tag = "scalar"
<1>. DEFINE t == node.text
<1>1. CASE node.tag # "scalar"
  BY <1>1 DEF resolve_scalar, Resolved
<1>2. CASE node.tag = "scalar" /\ node.quoted
  BY <1>2 DEF resolve_scalar, Resolved
<1>3. CASE node.tag = "scalar" /\ ~node.quoted
  <2>1. resolve_scalar(node) = resolve_plain(t)
    BY <1>3 DEF resolve_scalar
  <2>. HIDE DEF t
  <2>2. /\ resolve_plain(t).kind = "String" => resolve_plain(t).value = t
        /\ resolve_plain(t).kind = "Bool" => resolve_plain(t).value = t.value
    BY DEF resolve_plain, Resolved
  <2>. QED
    BY <1>3, <2>1, <2>2 DEF t
<1>. QED
  BY <1>1, <1>2, <1>3

(* What a field accepts can be extracted, and is what the document says. *)
LEMMA AcceptedExtracts ==
  ASSUME NEW kind \in Kinds, NEW spec, spec.kind = kind, NEW node, IsNode(node),
         validate_field(spec, node) = {}
  PROVE  LET x == extract(kind, node)
             json == ScalarToJson(node) IN
         /\ x # None
         /\ ~Misread(node) =>
              CASE kind = "Integer" -> json.value = 2 * x \/ (x = IntMin /\ json.value < 2 * x)
                [] kind = "Number" -> x = Compared("number", json)
                [] kind = "I2cAddress" ->
                     x = IF json.type = "number" THEN json.value \div 2 ELSE node.text.value
                [] OTHER -> x = json.value
<1>. DEFINE r == resolve_scalar(node)
            json == ScalarToJson(node)
            x == parsed(kind, r)
<1>1. extract(kind, node) = x
  BY DEF extract
<1>2. node.text \in ScalarTexts /\ node.text.value \in Int /\ None \notin Int /\ None \notin ScalarTexts
  BY NoneAssumption DEF IsNode, ScalarTexts
<1>3. /\ r.kind = "String" => r.value = node.text
      /\ r.kind = "Bool" => r.value = node.text.value
      /\ r.kind # "NonScalar" => node.tag = "scalar"
  BY TextResolved
<1>4. node.tag = "scalar" => ToJson(node) = json
  BY DEF ToJson
<1>5. CASE kind = "String"
  <2>1. r.kind = "String" /\ x = node.text
    BY <1>3, <1>5 DEF validate_field, parsed
  <2>2. ~Misread(node) => json.value = node.text
    BY <1>3, <1>4, <2>1, TextRead
  <2>. QED
    BY <1>1, <1>2, <1>5, <2>1, <2>2
<1>6. CASE kind = "Integer"
  <2>1. x = integer_of(r) /\ x # None
    BY <1>6 DEF validate_field, parsed
  <2>2. node.tag = "scalar"
    BY <1>3, <2>1 DEF integer_of
  <2>3. ~Misread(node) => json.value = 2 * x \/ (x = IntMin /\ json.value < 2 * x)
    BY <1>4, <2>1, <2>2, IntegerRead
  <2>. QED
    BY <1>1, <1>6, <2>1, <2>3
<1>7. CASE kind = "Number"
  <2>1. x = number_of(r) /\ x # None
    BY <1>7 DEF validate_field, parsed
  <2>2. node.tag = "scalar"
    BY <1>3, <2>1 DEF number_of
  <2>3. ~Misread(node) => x = Compared("number", json)
    BY <1>4, <2>1, <2>2, NumberRead
  <2>. QED
    BY <1>1, <1>7, <2>1, <2>3
<1>8. CASE kind = "Boolean"
  <2>1. r.kind = "Bool" /\ x = node.text.value
    BY <1>3, <1>8 DEF validate_field, parsed, If
  <2>2. ~Misread(node) => json.value = node.text.value
    BY <1>3, <1>4, <2>1, TextRead
  <2>. QED
    BY <1>1, <1>2, <1>8, <2>1, <2>2
<1>9. CASE kind = "I2cAddress"
  <2>1. x = i2c_address_of(r) /\ x # None
    BY <1>9 DEF validate_field, parsed, If
  <2>2. node.tag = "scalar"
    <3>1. r.kind # "NonScalar"
      BY <2>1 DEF i2c_address_of, integer_of
    <3>. QED
      BY <1>3, <3>1
  <2>3. ~Misread(node) => x = IF json.type = "number" THEN json.value \div 2 ELSE node.text.value
    <3>. HAVE ~Misread(node)
    <3>1. /\ x \in kI2cAddressMin..kI2cAddressMax
          /\ \/ json.type = "number" /\ json.value = 2 * x
             \/ json.type = "string" /\ node.text.value = x
      BY <1>4, <2>1, <2>2, AddressRead
    <3>2. x \in Int
      BY <3>1
    <3>3. (2 * x) \div 2 = x
      BY <3>2
    <3>. QED
      BY <3>1, <3>3
  <2>. QED
    BY <1>1, <1>9, <2>1, <2>3
<1>. QED
  BY <1>5, <1>6, <1>7, <1>8, <1>9 DEF Kinds

(* Without an error there is none at any place that is reached. *)
LEMMA NoErrorAt ==
  ASSUME NEW tree, NEW document, validate(tree, document) = {},
         NEW at \in Reached(tree, document)
  PROVE  ErrorsAt(tree, at[1], document, at[2]) = {}
BY DEF validate

(* What is reached is a part and a node, at places of one depth. *)
LEMMA ReachedPlaces ==
  ASSUME NEW tree, NEW document, NEW at \in Reached(tree, document)
  PROVE  /\ at[1] \in DOMAIN tree /\ at[2] \in DOMAIN document /\ Len(at[1]) = Len(at[2])
         /\ at = <<at[1], at[2]>>
BY DEF Reached

(* With the invariant, what was accepted can be extracted. *)
LEMMA ExtractionHolds == ConfigInv => ExtractionCannotFail
<1>. SUFFICES ASSUME ConfigInv, pc = "checked", errors = {}, NEW at \in Reached(root, doc),
                     root[at[1]].kind = "Scalar"
              PROVE  LET kind == root[at[1]].spec.kind
                         node == doc[at[2]]
                         x == extract(kind, node)
                         json == ScalarToJson(node)
                     IN  /\ x # None
                         /\ ~Misread(node) =>
                              CASE kind = "Integer" -> json.value = 2 * x \/ (x = IntMin /\ json.value < 2 * x)
                                [] kind = "Number" -> x = Compared("number", json)
                                [] kind = "I2cAddress" ->
                                     x = IF json.type = "number" THEN json.value \div 2 ELSE node.text.value
                                [] OTHER -> x = json.value
  BY DEF ExtractionCannotFail
<1>. DEFINE spec == root[at[1]].spec
            node == doc[at[2]]
<1>1. IsDeclaration(root) /\ IsYaml(doc) /\ validate(root, doc) = {}
  BY DEF ConfigInv
<1>2. at[1] \in DOMAIN root /\ at[2] \in DOMAIN doc
  BY ReachedPlaces
<1>3. IsNode(node)
  BY <1>1, <1>2 DEF IsYaml
<1>4. PICK kind \in Kinds : spec \in SpecsOf(kind)
  BY <1>1, <1>2 DEF IsDeclaration, IsPart
<1>5. spec.kind = kind
  BY <1>4, SpecIs
<1>6. Errors(at[2], validate_field(spec, node)) = {}
  BY <1>1, NoErrorAt DEF ErrorsAt
<1>7. validate_field(spec, node) = {}
  <2>. HIDE DEF spec, node
  <2>. QED
    BY <1>6 DEF Errors
<1>. HIDE DEF spec, node
<1>8. LET x == extract(kind, node)
          json == ScalarToJson(node) IN
      /\ x # None
      /\ ~Misread(node) =>
           CASE kind = "Integer" -> json.value = 2 * x \/ (x = IntMin /\ json.value < 2 * x)
             [] kind = "Number" -> x = Compared("number", json)
             [] kind = "I2cAddress" ->
                  x = IF json.type = "number" THEN json.value \div 2 ELSE node.text.value
             [] OTHER -> x = json.value
  BY <1>3, <1>5, <1>7, AcceptedExtracts
<1>. QED
  BY <1>5, <1>8 DEF spec, node

-----------------------------------------------------------------------------
(* The validator and the schema go the same way *)

(* The first position of a key that is there is a position of the map. *)
LEMMA FirstIs ==
  ASSUME NEW node, IsNode(node), NEW key \in KeysIn(node)
  PROVE  /\ First(node, key) \in 1..node.size /\ First(node, key) \in Nat
         /\ node.tag = "map"
<1>1. node.keys \in Seq(STRING) /\ node.size \in Nat
      /\ Len(node.keys) = IF node.tag = "map" THEN node.size ELSE 0
  BY DEF IsNode
<1>2. PICK i \in DOMAIN node.keys : node.keys[i] = key
  BY DEF KeysIn
<1>3. DOMAIN node.keys = 1..Len(node.keys) /\ Len(node.keys) \in Nat
  BY <1>1
<1>. DEFINE T == {j \in DOMAIN node.keys : node.keys[j] = key}
<1>4. T \subseteq Nat /\ T # {}
  BY <1>2, <1>3
<1>5. First(node, key) \in T
  BY <1>4, LeastIs DEF First
<1>. QED
  BY <1>1, <1>2, <1>3, <1>5

(* What is emitted for a part is at the part's place. *)
LEMMA EmittedAt ==
  ASSUME NEW tree, NEW d \in DOMAIN tree
  PROVE  /\ DOMAIN emitted(tree) = DOMAIN tree
         /\ tree[d].kind = "Scalar" => emitted(tree)[d] = emit_field(tree[d].spec)
         /\ tree[d].kind = "Array" => emitted(tree)[d] = emit_array(tree, d)
         /\ tree[d].kind = "Object" => emitted(tree)[d] = emit_object(tree, d)
BY DEF emitted

FieldKeywords ==
  {"type", "const", "oneOf", "enum", "pattern", "minLength", "not", "minimum", "maximum",
   "exclusiveMinimum", "exclusiveMaximum", "anolisType", "anyOf", "anolisUnique"}

(* A field's schema has no other keywords than a field's, and anolisUnique *)
(* just when the field is unique.                                          *)
LEMMA FieldKeywordsAre ==
  ASSUME NEW kind \in Kinds, NEW spec, spec.kind = kind
  PROVE  LET s == emit_field(spec) IN
         /\ DOMAIN s \subseteq FieldKeywords
         /\ "anolisUnique" \in DOMAIN s <=> spec.unique
<1>1. CASE kind = "String"
  BY <1>1, StringKeywords DEF emit_field, FieldKeywords
<1>2. CASE kind = "Integer"
  BY <1>2, NumberKeywords DEF emit_field, FieldKeywords
<1>3. CASE kind = "Number"
  BY <1>3, NumberKeywords DEF emit_field, FieldKeywords
<1>4. CASE kind = "Boolean"
  BY <1>4, BooleanKeywords DEF emit_field, FieldKeywords
<1>5. CASE kind = "I2cAddress"
  BY <1>5, AddressKeywords DEF emit_field, FieldKeywords
<1>. QED
  BY <1>1, <1>2, <1>3, <1>4, <1>5 DEF Kinds

(* The keywords of an array, with their arguments. *)
LEMMA ArrayKeywords ==
  ASSUME NEW tree, NEW d, NEW s, s = emit_array(tree, d)
  PROVE  LET array == tree[d].spec IN
         /\ DOMAIN s \subseteq {"type", "items", "minItems", "maxItems", "uniqueItems", "anolisUnique"}
         /\ "type" \in DOMAIN s /\ s["type"] = "array"
         /\ "items" \in DOMAIN s /\ s["items"] = ItemAt(d)
         /\ "minItems" \in DOMAIN s <=> array.min_items # None
         /\ "minItems" \in DOMAIN s => s["minItems"] = array.min_items
         /\ "maxItems" \in DOMAIN s <=> array.max_items # None
         /\ "maxItems" \in DOMAIN s => s["maxItems"] = array.max_items
         /\ "uniqueItems" \in DOMAIN s <=> array.unique
         /\ "anolisUnique" \in DOMAIN s <=> array.unique
BY DEF emit_array, If

(* The keywords of an object. *)
LEMMA ObjectKeywords ==
  ASSUME NEW tree, NEW d, NEW s, s = emit_object(tree, d)
  PROVE  /\ DOMAIN s \subseteq {"type", "properties", "required", "additionalProperties",
                               "dependentRequired", "allOf"}
         /\ "type" \in DOMAIN s
         /\ "properties" \in DOMAIN s <=> MembersAt(tree, d) # {}
         /\ "required" \in DOMAIN s <=> RequiredAt(tree, d) # {}
         /\ "additionalProperties" \in DOMAIN s <=> tree[d].spec.openness = "Closed"
         /\ "dependentRequired" \in DOMAIN s <=> tree[d].spec.dependent_required # <<>>
         /\ "allOf" \in DOMAIN s <=> tree[d].spec.conditionals # <<>>
<1>. DEFINE K == {"type"} \cup If(MembersAt(tree, d) # {}, "properties")
                   \cup If(RequiredAt(tree, d) # {}, "required")
                   \cup If(tree[d].spec.openness = "Closed", "additionalProperties")
                   \cup If(tree[d].spec.dependent_required # <<>>, "dependentRequired")
                   \cup If(tree[d].spec.conditionals # <<>>, "allOf")
<1>1. DOMAIN s = K
  BY DEF emit_object
<1>2. /\ K \subseteq {"type", "properties", "required", "additionalProperties",
                      "dependentRequired", "allOf"}
      /\ "type" \in K
      /\ "properties" \in K <=> MembersAt(tree, d) # {}
      /\ "required" \in K <=> RequiredAt(tree, d) # {}
      /\ "additionalProperties" \in K <=> tree[d].spec.openness = "Closed"
      /\ "dependentRequired" \in K <=> tree[d].spec.dependent_required # <<>>
      /\ "allOf" \in K <=> tree[d].spec.conditionals # <<>>
  BY DEF If
<1>. HIDE DEF K
<1>. QED
  BY <1>1, <1>2

(* Their arguments. *)
LEMMA ObjectArguments ==
  ASSUME NEW tree, NEW d, NEW s, s = emit_object(tree, d)
  PROVE  /\ s["type"] = "object"
         /\ "properties" \in DOMAIN s =>
              DOMAIN s["properties"] = KeysAt(tree, d)
         /\ "required" \in DOMAIN s => s["required"] = RequiredAt(tree, d)
         /\ "additionalProperties" \in DOMAIN s => s["additionalProperties"] = FALSE
         /\ "dependentRequired" \in DOMAIN s => s["dependentRequired"] = tree[d].spec.dependent_required
<1>1. "type" \in DOMAIN s
  BY ObjectKeywords
<1>. DEFINE f == [key \in KeysAt(tree, d) |-> MemberAt(tree, d, key)]
<1>2. "properties" \in DOMAIN s => s["properties"] = f
  BY DEF emit_object
<1>3. DOMAIN f = KeysAt(tree, d)
  OBVIOUS
<1>. HIDE DEF f
<1>4. /\ s["type"] = "object"
      /\ "required" \in DOMAIN s => s["required"] = RequiredAt(tree, d)
      /\ "additionalProperties" \in DOMAIN s => s["additionalProperties"] = FALSE
      /\ "dependentRequired" \in DOMAIN s => s["dependentRequired"] = tree[d].spec.dependent_required
  BY <1>1 DEF emit_object
<1>. QED
  BY <1>2, <1>3, <1>4

(* The property of a key stands for the member of that key. *)
LEMMA PropertyIs ==
  ASSUME NEW tree, NEW d, NEW key \in KeysAt(tree, d)
  PROVE  LET s == emit_object(tree, d) IN
         "properties" \in DOMAIN s /\ s["properties"][key] = MemberAt(tree, d, key)
<1>. DEFINE f == [k \in KeysAt(tree, d) |-> MemberAt(tree, d, k)]
            s == emit_object(tree, d)
<1>1. MembersAt(tree, d) # {}
  BY DEF KeysAt
<1>2. "properties" \in DOMAIN s
  <2>. HIDE DEF s
  <2>1. s = emit_object(tree, d)
    BY DEF s
  <2>. QED
    BY <1>1, <2>1, ObjectKeywords
<1>3. s["properties"] = f
  BY <1>2 DEF emit_object
<1>4. f[key] = MemberAt(tree, d, key)
  OBVIOUS
<1>. HIDE DEF f, s
<1>. QED
  BY <1>2, <1>3, <1>4 DEF s

(* allOf has an if and a then for each conditional. *)
LEMMA AllOfArguments ==
  ASSUME NEW tree, NEW d, NEW s, s = emit_object(tree, d), "allOf" \in DOMAIN s
  PROVE  /\ DOMAIN s["allOf"] = DOMAIN tree[d].spec.conditionals
         /\ \A i \in DOMAIN tree[d].spec.conditionals :
              s["allOf"][i] = [if |-> emit_if(tree[d].spec.conditionals[i]),
                               then |-> emit_then(tree[d].spec.conditionals[i])]
<1>. DEFINE f == [i \in DOMAIN tree[d].spec.conditionals |->
                    [if |-> emit_if(tree[d].spec.conditionals[i]),
                     then |-> emit_then(tree[d].spec.conditionals[i])]]
<1>1. s["allOf"] = f
  BY DEF emit_object
<1>2. /\ DOMAIN f = DOMAIN tree[d].spec.conditionals
      /\ \A i \in DOMAIN tree[d].spec.conditionals :
           f[i] = [if |-> emit_if(tree[d].spec.conditionals[i]),
                   then |-> emit_then(tree[d].spec.conditionals[i])]
  OBVIOUS
<1>. HIDE DEF f
<1>. QED
  BY <1>1, <1>2

(* A member is the member of its key, as insert_member lets no two have *)
(* one.                                                                 *)
LEMMA MemberAtIs ==
  ASSUME NEW tree, NEW d, insert_member(tree, d), NEW m \in MembersAt(tree, d)
  PROVE  tree[m].key \in KeysAt(tree, d) /\ MemberAt(tree, d, tree[m].key) = m
BY DEF KeysAt, MemberAt, insert_member

(* The member of a key has that key. *)
LEMMA MemberOfKey ==
  ASSUME NEW tree, NEW d, insert_member(tree, d), NEW key \in KeysAt(tree, d)
  PROVE  /\ MemberAt(tree, d, key) \in MembersAt(tree, d)
         /\ tree[MemberAt(tree, d, key)].key = key
BY DEF KeysAt, MemberAt, insert_member

(* Each object of a schema has passed insert_member and check_object. *)
LEMMA ObjectBuilt ==
  ASSUME NEW tree, IsSchema(tree), NEW d \in DOMAIN tree, tree[d].kind = "Object"
  PROVE  insert_member(tree, d) /\ check_object(tree, d)
BY DEF IsSchema, IsBuilt, PlacesOf

(* From a part and a node, validate() goes on to a part further in just *)
(* when the schema of the one applies that of the other.                *)
LEMMA LeadsApplies ==
  ASSUME NEW tree, IsDeclaration(tree), IsSchema(tree),
         NEW b \in DOMAIN tree, b # <<>>, NEW node, NEW i
  PROVE  /\ Front(b) \in DOMAIN tree
         /\ Leads(tree, Front(b), b, node, i) <=> Applies(emitted(tree)[Front(b)], b, node, i)
<1>. DEFINE d == Front(b)
            s == emitted(tree)[d]
<1>1. /\ d \in DOMAIN tree /\ tree[d].kind \in {"Object", "Array"}
      /\ tree[d].kind = "Object" => b \in MembersAt(tree, d)
      /\ tree[d].kind = "Array" => b = ItemAt(d)
  BY PartIs
<1>. HIDE DEF d
<1>2. CASE tree[d].kind = "Object"
  <2>1. insert_member(tree, d)
    BY <1>1, <1>2, ObjectBuilt
  <2>2. s = emit_object(tree, d)
    BY <1>1, <1>2, EmittedAt
  <2>. HIDE DEF s
  <2>3. /\ "items" \notin DOMAIN s /\ "properties" \in DOMAIN s
        /\ DOMAIN s["properties"] = KeysAt(tree, d)
        /\ \A key \in KeysAt(tree, d) : s["properties"][key] = MemberAt(tree, d, key)
    <3>1. MembersAt(tree, d) # {}
      BY <1>1, <1>2
    <3>2. "items" \notin DOMAIN s /\ "properties" \in DOMAIN s
      BY <2>2, <3>1, ObjectKeywords
    <3>3. DOMAIN s["properties"] = KeysAt(tree, d)
      BY <2>2, <3>2, ObjectArguments
    <3>4. \A key \in KeysAt(tree, d) : s["properties"][key] = MemberAt(tree, d, key)
      BY <2>2, PropertyIs
    <3>. QED
      BY <3>2, <3>3, <3>4
  <2>4. tree[b].key \in KeysAt(tree, d) /\ MemberAt(tree, d, tree[b].key) = b
    BY <1>1, <1>2, <2>1, MemberAtIs
  <2>5. \A key \in KeysAt(tree, d) : MemberAt(tree, d, key) = b => key = tree[b].key
    BY <2>1, MemberOfKey
  <2>. HIDE DEF s
  <2>6. Applies(s, b, node, i) <=>
          node.tag = "map" /\ \E key \in KeysAt(tree, d) \cap KeysIn(node) :
                                 b = MemberAt(tree, d, key) /\ i = First(node, key)
    BY <2>3 DEF Applies
  <2>7. Leads(tree, d, b, node, i) <=>
          node.tag = "map" /\ tree[b].key \in KeysIn(node) /\ i = First(node, tree[b].key)
    BY <1>2 DEF Leads
  <2>. QED
    BY <1>1, <2>4, <2>5, <2>6, <2>7 DEF s, d
<1>3. CASE tree[d].kind = "Array"
  <2>2. s = emit_array(tree, d)
    BY <1>1, <1>3, EmittedAt
  <2>. HIDE DEF s
  <2>3. "properties" \notin DOMAIN s /\ "items" \in DOMAIN s /\ s["items"] = b
    <3>1. b = ItemAt(d)
      BY <1>1, <1>3
    <3>. QED
      BY <2>2, <3>1, ArrayKeywords
  <2>. HIDE DEF s
  <2>4. Applies(s, b, node, i) <=> node.tag = "seq"
    BY <2>3 DEF Applies
  <2>5. Leads(tree, d, b, node, i) <=> node.tag = "seq"
    BY <1>3 DEF Leads
  <2>. QED
    BY <1>1, <2>4, <2>5 DEF s, d
<1>. QED
  BY <1>1, <1>2, <1>3

(* The first positions of a place. *)
LEMMA UptoIs ==
  ASSUME NEW p \in Seq(Nat), NEW k \in 0..Len(p)
  PROVE  /\ Upto(p, k) \in Seq(Nat) /\ Len(Upto(p, k)) = k
         /\ \A i \in 1..k : Upto(p, k)[i] = p[i]
<1>1. Len(p) \in Nat /\ k \in Nat /\ k <= Len(p) /\ k - 1 + 1 = k
  OBVIOUS
<1>2. \A i \in 1..k : p[i] \in Nat /\ 1 + i - 1 = i
  BY <1>1
<1>3. /\ SubSeq(p, 1, k) \in Seq(Nat) /\ Len(SubSeq(p, 1, k)) = IF 1 <= k THEN k - 1 + 1 ELSE 0
      /\ \A i \in 1..(k - 1 + 1) : SubSeq(p, 1, k)[i] = p[1 + i - 1]
  BY <1>1, <1>2, SubSeqProperties
<1>. QED
  BY <1>1, <1>2, <1>3 DEF Upto

(* The one before the last of them. *)
LEMMA UptoFront ==
  ASSUME NEW p \in Seq(Nat), NEW k \in 1..Len(p)
  PROVE  Upto(p, k) # <<>> /\ Front(Upto(p, k)) = Upto(p, k - 1)
<1>. DEFINE q == Upto(p, k)
<1>0. Len(p) \in Nat /\ k \in 0..Len(p) /\ k - 1 \in 0..Len(p) /\ k \in Nat /\ k > 0
  OBVIOUS
<1>1. q \in Seq(Nat) /\ Len(q) = k /\ \A i \in 1..k : q[i] = p[i]
  BY <1>0, UptoIs
<1>2. /\ Upto(p, k - 1) \in Seq(Nat) /\ Len(Upto(p, k - 1)) = k - 1
      /\ \A i \in 1..(k - 1) : Upto(p, k - 1)[i] = p[i]
  BY <1>0, UptoIs
<1>. HIDE DEF q
<1>3. q # <<>>
  BY <1>0, <1>1
<1>4. Front(q) = Upto(q, k - 1) /\ k - 1 \in 0..Len(q)
  BY <1>0, <1>1 DEF Front, Upto
<1>5. /\ Upto(q, k - 1) \in Seq(Nat) /\ Len(Upto(q, k - 1)) = k - 1
      /\ \A i \in 1..(k - 1) : Upto(q, k - 1)[i] = q[i]
  BY <1>1, <1>4, UptoIs
<1>6. ASSUME NEW i \in 1..(k - 1) PROVE Upto(q, k - 1)[i] = Upto(p, k - 1)[i]
  <2>1. i \in 1..k
    BY <1>0
  <2>. QED
    BY <1>1, <1>2, <1>5, <2>1
<1>7. Upto(q, k - 1) = Upto(p, k - 1)
  BY <1>2, <1>5, <1>6, SameSequence
<1>. QED
  BY <1>3, <1>4, <1>7 DEF q

(* All of them. *)
LEMMA UptoAll ==
  ASSUME NEW p \in Seq(Nat) PROVE Upto(p, Len(p)) = p
BY SubSeqFull DEF Upto

(* With a place its outer places are in a declaration. *)
LEMMA OuterPlaces ==
  ASSUME NEW tree, IsDeclaration(tree), NEW d \in DOMAIN tree
  PROVE  \A k \in 0..Len(d) : Upto(d, k) \in DOMAIN tree
<1>. DEFINE n == Len(d)
            S == {j \in Nat : j <= n => Upto(d, n - j) \in DOMAIN tree}
<1>0. d \in Seq(Nat) /\ n \in Nat
  BY DEF IsDeclaration
<1>1. 0 \in S
  <2>1. n - 0 = n
    BY <1>0
  <2>. QED
    BY <1>0, <2>1, UptoAll
<1>2. \A j \in Nat : j \in S => j + 1 \in S
  <2>. SUFFICES ASSUME NEW j \in Nat, j \in S, j + 1 <= n PROVE Upto(d, n - (j + 1)) \in DOMAIN tree
    OBVIOUS
  <2>. DEFINE k == n - j
  <2>1. k \in 1..n /\ n - (j + 1) = k - 1 /\ j <= n
    BY <1>0
  <2>2. Upto(d, k) \in DOMAIN tree
    BY <2>1
  <2>. HIDE DEF k
  <2>3. Upto(d, k) # <<>> /\ Front(Upto(d, k)) = Upto(d, k - 1)
    BY <1>0, <2>1, UptoFront
  <2>4. Upto(d, k - 1) \in DOMAIN tree
    BY <2>2, <2>3, PartIs
  <2>. QED
    BY <2>1, <2>4
<1>3. \A j \in Nat : j \in S
  <2>. HIDE DEF S
  <2>. QED
    BY <1>1, <1>2, NatSetInduction
<1>4. ASSUME NEW k \in 0..n PROVE Upto(d, k) \in DOMAIN tree
  <2>1. n - k \in Nat /\ n - k <= n /\ n - (n - k) = k
    BY <1>0
  <2>2. n - k \in S
    <3>. HIDE DEF S
    <3>. QED
      BY <1>3, <2>1
  <2>. QED
    BY <2>1, <2>2
<1>. QED
  BY <1>4

(* validate() gets to the parts whose schemas the emitted schema applies, *)
(* with the same nodes.                                                   *)
LEMMA ReachedIsApplied ==
  ASSUME NEW tree, IsDeclaration(tree), IsSchema(tree), NEW y
  PROVE  Reached(tree, y) = AppliedTo(emitted(tree), y)
<1>1. DOMAIN emitted(tree) = DOMAIN tree
  BY DEF emitted
<1>2. ASSUME NEW d \in DOMAIN tree, NEW k \in 1..Len(d), NEW node, NEW i
      PROVE  Leads(tree, Upto(d, k - 1), Upto(d, k), node, i) <=>
               Applies(emitted(tree)[SubSeq(d, 1, k - 1)], SubSeq(d, 1, k), node, i)
  <2>1. d \in Seq(Nat) /\ Len(d) \in Nat /\ k \in 0..Len(d)
    BY DEF IsDeclaration
  <2>2. Upto(d, k) \in DOMAIN tree
    BY <2>1, OuterPlaces
  <2>3. Upto(d, k) # <<>> /\ Front(Upto(d, k)) = Upto(d, k - 1)
    BY <2>1, UptoFront
  <2>4. Leads(tree, Upto(d, k - 1), Upto(d, k), node, i) <=>
          Applies(emitted(tree)[Upto(d, k - 1)], Upto(d, k), node, i)
    BY <2>2, <2>3, LeadsApplies
  <2>. QED
    BY <2>4 DEF Upto
<1>3. ASSUME NEW at \in (DOMAIN tree) \X (DOMAIN y)
      PROVE  (\A k \in 1..Len(at[1]) :
                Leads(tree, Upto(at[1], k - 1), Upto(at[1], k), y[Upto(at[2], k - 1)], at[2][k])) <=>
             (\A k \in 1..Len(at[1]) :
                Applies(emitted(tree)[SubSeq(at[1], 1, k - 1)], SubSeq(at[1], 1, k),
                        y[SubSeq(at[2], 1, k - 1)], at[2][k]))
  <2>1. at[1] \in DOMAIN tree
    OBVIOUS
  <2>2. \A k : Upto(at[2], k - 1) = SubSeq(at[2], 1, k - 1)
    BY DEF Upto
  <2>. QED
    BY <1>2, <2>1, <2>2
<1>. QED
  BY <1>1, <1>3 DEF Reached, AppliedTo

-----------------------------------------------------------------------------
(* From a place that is reached to one further in *)

(* A position further in leaves the outer ones as they are. *)
LEMMA UptoAppend ==
  ASSUME NEW p \in Seq(Nat), NEW i \in Nat, NEW k \in 0..Len(p)
  PROVE  Upto(Append(p, i), k) = Upto(p, k)
<1>. DEFINE q == Append(p, i)
<1>0. k \in Nat
  OBVIOUS
<1>1. q \in Seq(Nat) /\ Len(q) = Len(p) + 1 /\ \A j \in 1..Len(p) : q[j] = p[j]
  OBVIOUS
<1>2. k \in 0..Len(q)
  BY <1>1
<1>. HIDE DEF q
<1>3. /\ Upto(q, k) \in Seq(Nat) /\ Len(Upto(q, k)) = k
      /\ \A j \in 1..k : Upto(q, k)[j] = q[j]
  BY <1>1, <1>2, UptoIs
<1>4. /\ Upto(p, k) \in Seq(Nat) /\ Len(Upto(p, k)) = k
      /\ \A j \in 1..k : Upto(p, k)[j] = p[j]
  BY UptoIs
<1>5. ASSUME NEW j \in 1..k PROVE Upto(q, k)[j] = Upto(p, k)[j]
  <2>1. j \in 1..Len(p)
    OBVIOUS
  <2>. QED
    BY <1>1, <1>3, <1>4, <2>1
<1>6. Upto(q, k) = Upto(p, k)
  BY <1>3, <1>4, <1>5, SameSequence
<1>. QED
  BY <1>6 DEF q

(* Where validate() is at a part and a node, it gets to the parts that these lead to. *)
LEMMA ReachedExtends ==
  ASSUME NEW tree, IsDeclaration(tree), NEW y, IsYaml(y),
         NEW d, NEW p, <<d, p>> \in Reached(tree, y),
         NEW b \in DOMAIN tree, b # <<>>, Front(b) = d,
         NEW i \in Nat, Append(p, i) \in DOMAIN y, Leads(tree, d, b, y[p], i)
  PROVE  <<b, Append(p, i)>> \in Reached(tree, y)
<1>. DEFINE q == Append(p, i)
            x == Last(b)
            at == <<b, q>>
<1>1. /\ d \in DOMAIN tree /\ p \in DOMAIN y /\ Len(d) = Len(p)
      /\ \A k \in 1..Len(d) :
           Leads(tree, Upto(d, k - 1), Upto(d, k), y[Upto(p, k - 1)], p[k])
  BY DEF Reached
<1>2. d \in Seq(Nat) /\ b \in Seq(Nat) /\ p \in Seq(Nat) /\ Len(d) \in Nat
  BY <1>1 DEF IsDeclaration, IsYaml
<1>3. b = Append(d, x) /\ x \in Nat
  BY <1>2, FrontAndLast
<1>4. Len(b) = Len(d) + 1 /\ Len(q) = Len(b) /\ b \in Seq(Nat) /\ q \in Seq(Nat)
  <2>1. Len(Append(d, x)) = Len(d) + 1 /\ Len(Append(p, i)) = Len(p) + 1 /\ Append(p, i) \in Seq(Nat)
    BY <1>2, <1>3
  <2>. QED
    BY <1>1, <1>2, <1>3, <2>1
<1>5. ASSUME NEW k \in 1..Len(d)
      PROVE  Leads(tree, Upto(b, k - 1), Upto(b, k), y[Upto(q, k - 1)], q[k])
  <2>1. k \in 0..Len(d) /\ k - 1 \in 0..Len(d) /\ k \in 0..Len(p) /\ k - 1 \in 0..Len(p)
    BY <1>1, <1>2
  <2>2. Upto(b, k - 1) = Upto(d, k - 1) /\ Upto(b, k) = Upto(d, k)
    <3>. HIDE DEF x
    <3>1. /\ Upto(Append(d, x), k - 1) = Upto(d, k - 1)
          /\ Upto(Append(d, x), k) = Upto(d, k)
      BY <1>2, <1>3, <2>1, UptoAppend
    <3>. QED
      BY <1>3, <3>1
  <2>4. Upto(q, k - 1) = Upto(p, k - 1)
    BY <1>2, <2>1, UptoAppend
  <2>3. q[k] = p[k]
    BY <1>1, <1>2
  <2>. HIDE DEF q
  <2>. QED
    BY <1>1, <2>2, <2>3, <2>4
<1>6. Leads(tree, Upto(b, Len(b) - 1), Upto(b, Len(b)), y[Upto(q, Len(b) - 1)], q[Len(b)])
  <2>1. Upto(b, Len(b)) = b
    BY <1>2, UptoAll
  <2>2. Len(b) - 1 = Len(d) /\ Len(d) \in 0..Len(d) /\ Len(d) \in 0..Len(p) /\ Len(d) = Len(p)
    BY <1>1, <1>2, <1>4
  <2>3. Upto(b, Len(d)) = d /\ Upto(q, Len(d)) = p
    <3>1. Upto(b, Len(d)) = Upto(d, Len(d)) /\ Upto(q, Len(d)) = Upto(p, Len(d))
      BY <1>2, <1>3, <2>2, UptoAppend
    <3>. QED
      BY <1>1, <1>2, <3>1, UptoAll
  <2>4. q[Len(b)] = i
    BY <1>1, <1>2, <1>4
  <2>. QED
    BY <2>1, <2>2, <2>3, <2>4
<1>. HIDE DEF q
<1>7. ASSUME NEW k \in 1..Len(b)
      PROVE  Leads(tree, Upto(b, k - 1), Upto(b, k), y[Upto(q, k - 1)], q[k])
  <2>1. k \in 1..Len(d) \/ k = Len(b)
    BY <1>2, <1>4
  <2>. QED
    BY <1>5, <1>6, <2>1
<1>8. at[1] = b /\ at[2] = q /\ at \in (DOMAIN tree) \X (DOMAIN y)
  BY DEF q
<1>. HIDE DEF at
<1>9. at \in Reached(tree, y)
  BY <1>4, <1>7, <1>8 DEF Reached
<1>. QED
  BY <1>9 DEF at, q

(* To a member of an object that is reached, and to an array's item. *)
LEMMA MemberReached ==
  ASSUME NEW tree, IsDeclaration(tree), NEW y, IsYaml(y),
         NEW d, NEW p, <<d, p>> \in Reached(tree, y), tree[d].kind = "Object",
         NEW m \in MembersAt(tree, d), tree[m].key \in KeysIn(y[p])
  PROVE  /\ <<m, Append(p, First(y[p], tree[m].key))>> \in Reached(tree, y)
         /\ IsNode(ValueAt(y, p, tree[m].key)) /\ m \in DOMAIN tree
<1>. DEFINE key == tree[m].key
            i == First(y[p], key)
<1>1. d \in DOMAIN tree /\ p \in DOMAIN y /\ d \in Seq(Nat) /\ IsNode(y[p])
  BY DEF Reached, IsDeclaration, IsYaml
<1>2. i \in 1..y[p].size /\ i \in Nat /\ y[p].tag = "map"
  BY <1>1, FirstIs
<1>3. PICK j \in 1..tree[d].spec.size : m = Append(d, j)
  BY DEF MembersAt
<1>4. SizeOf(tree[d]) = tree[d].spec.size
  BY DEF SizeOf
<1>5. m \in DOMAIN tree
  BY <1>1, <1>3, <1>4 DEF IsDeclaration
<1>6. j \in Nat
  <2>1. tree[d].spec.size \in Nat
    BY <1>1 DEF IsDeclaration, IsPart, Objects
  <2>. QED
    BY <2>1
<1>7. m # <<>> /\ Front(m) = d
  BY <1>1, <1>3, <1>6, FrontOfAppend
<1>8. Append(p, i) \in DOMAIN y /\ IsNode(y[Append(p, i)])
  BY <1>1, <1>2 DEF IsYaml
<1>9. Leads(tree, d, m, y[p], i)
  BY <1>2 DEF Leads
<1>. HIDE DEF i, key
<1>10. <<m, Append(p, i)>> \in Reached(tree, y)
  BY <1>2, <1>5, <1>7, <1>8, <1>9, ReachedExtends
<1>. QED
  BY <1>5, <1>8, <1>10 DEF ValueAt, i, key

(* From an array's to each item's. *)
LEMMA ItemReached ==
  ASSUME NEW tree, IsDeclaration(tree), NEW y, IsYaml(y),
         NEW d, NEW p, <<d, p>> \in Reached(tree, y), tree[d].kind = "Array",
         y[p].tag = "seq", NEW i \in 1..y[p].size
  PROVE  /\ <<ItemAt(d), Append(p, i)>> \in Reached(tree, y)
         /\ IsNode(y[Append(p, i)]) /\ ItemAt(d) \in DOMAIN tree
<1>1. d \in DOMAIN tree /\ p \in DOMAIN y /\ d \in Seq(Nat) /\ IsNode(y[p])
  BY DEF Reached, IsDeclaration, IsYaml
<1>2. i \in Nat
  <2>1. y[p].size \in Nat
    BY <1>1 DEF IsNode
  <2>. QED
    BY <2>1
<1>3. ItemAt(d) \in DOMAIN tree
  <2>1. SizeOf(tree[d]) = 1
    BY DEF SizeOf
  <2>2. 1 \in 1..SizeOf(tree[d])
    BY <2>1
  <2>. QED
    BY <1>1, <2>2 DEF IsDeclaration, ItemAt
<1>4. ItemAt(d) # <<>> /\ Front(ItemAt(d)) = d
  BY <1>1, FrontOfAppend DEF ItemAt
<1>5. Append(p, i) \in DOMAIN y /\ IsNode(y[Append(p, i)])
  BY <1>1 DEF IsYaml
<1>6. Leads(tree, d, ItemAt(d), y[p], i)
  BY DEF Leads
<1>. QED
  BY <1>2, <1>3, <1>4, <1>5, <1>6, ReachedExtends

-----------------------------------------------------------------------------
(* What has to be unique *)

(* Of values that a field accepts, the reader of the schema compares what the *)
(* validator compares: an integer and an address in halves.                   *)
LEMMA ParsedIs ==
  ASSUME NEW kind \in Kinds, NEW spec \in SpecsOf(kind), NEW node, IsNode(node), ~Misread(node),
         validate_field(spec, node) = {}
  PROVE  LET c == canonical_value(kind, node) IN
         /\ c # None
         /\ ParsedJson(emit_field(spec), ToJson(node)) =
              IF kind \in {"Integer", "I2cAddress"} THEN 2 * c ELSE c
         /\ kind \in {"Integer", "I2cAddress"} => c \in Int
<1>. DEFINE r == resolve_scalar(node)
            v == ToJson(node)
            c == canonical_value(kind, node)
            s == emit_field(spec)
<1>1. spec.kind = kind /\ None \notin Int /\ None \notin ScalarTexts
  BY SpecIs, NoneAssumption
<1>2. c = parsed(kind, r)
  BY DEF canonical_value
<1>3. CASE kind = "String"
  <2>1. r.kind = "String" /\ c = r.value
    BY <1>1, <1>2, <1>3 DEF validate_field, parsed
  <2>2. v.type = "string" /\ r.value = node.text /\ v.value = node.text /\ node.text \in ScalarTexts
    BY <2>1, TextRead
  <2>3. "anolisType" \notin DOMAIN s
    BY <1>1, <1>3, StringKeywords DEF emit_field
  <2>. HIDE DEF s, v, c, r
  <2>4. ParsedJson(s, v) = v.value
    BY <2>2, <2>3 DEF ParsedJson
  <2>. QED
    BY <1>1, <1>3, <2>1, <2>2, <2>4 DEF s, v, c
<1>4. CASE kind = "Integer"
  <2>1. c = integer_of(r) /\ c # None
    BY <1>1, <1>2, <1>4 DEF validate_field, parsed
  <2>2. v.type = "number" /\ 2 * c = Compared("integer", v) /\ c \in Int
    BY <2>1, IntegerRead
  <2>3. "anolisType" \notin DOMAIN s /\ "type" \in DOMAIN s /\ s["type"] = "integer"
    BY <1>1, <1>4, NumberKeywords DEF emit_field
  <2>. HIDE DEF s, v, c, r
  <2>4. ParsedJson(s, v) = Compared("integer", v)
    BY <2>2, <2>3 DEF ParsedJson
  <2>. QED
    BY <1>4, <2>1, <2>2, <2>4 DEF s, v, c
<1>5. CASE kind = "Number"
  <2>1. c = number_of(r) /\ c # None
    BY <1>1, <1>2, <1>5 DEF validate_field, parsed
  <2>2. v.type = "number" /\ c = Compared("number", v)
    BY <2>1, NumberRead
  <2>3. "anolisType" \notin DOMAIN s /\ "type" \in DOMAIN s /\ s["type"] = "number"
    BY <1>1, <1>5, NumberKeywords DEF emit_field
  <2>. HIDE DEF s, v, c, r
  <2>4. ParsedJson(s, v) = Compared("number", v)
    BY <2>2, <2>3 DEF ParsedJson
  <2>. QED
    BY <1>5, <2>1, <2>2, <2>4 DEF s, v, c
<1>6. CASE kind = "Boolean"
  <2>1. r.kind = "Bool" /\ c = r.value
    BY <1>1, <1>2, <1>6 DEF validate_field, parsed, If
  <2>2. v.type = "boolean" /\ r.value = node.text.value /\ v.value = node.text.value
        /\ node.text.value \in Int
    BY <2>1, TextRead
  <2>3. "anolisType" \notin DOMAIN s
    BY <1>1, <1>6, BooleanKeywords DEF emit_field
  <2>. HIDE DEF s, v, c, r
  <2>4. ParsedJson(s, v) = v.value
    BY <2>2, <2>3 DEF ParsedJson
  <2>. QED
    BY <1>1, <1>6, <2>1, <2>2, <2>4 DEF s, v, c
<1>7. CASE kind = "I2cAddress"
  <2>1. c = i2c_address_of(r) /\ c # None
    BY <1>1, <1>2, <1>7 DEF validate_field, parsed, If
  <2>2. /\ c \in kI2cAddressMin..kI2cAddressMax
        /\ \/ v.type = "number" /\ v.value = 2 * c
           \/ v.type = "string" /\ node.text.value = c
    BY <2>1, AddressRead
  <2>3. "anolisType" \in DOMAIN s /\ "type" \notin DOMAIN s
    BY <1>1, <1>7, AddressKeywords DEF emit_field
  <2>4. v.type = "string" => v.value = node.text
    BY TextRead
  <2>. HIDE DEF s, v, c, r
  <2>5. CASE v.type = "number"
    <3>1. ParsedJson(s, v) = v.value
      BY <2>3, <2>5 DEF ParsedJson
    <3>. QED
      BY <1>7, <2>1, <2>2, <2>5, <3>1 DEF s, v, c
  <2>6. CASE v.type = "string"
    <3>1. ParsedJson(s, v) = 2 * v.value.value
      BY <2>3, <2>6 DEF ParsedJson
    <3>. QED
      BY <1>7, <2>1, <2>2, <2>4, <2>6, <3>1 DEF s, v, c
  <2>. QED
    BY <2>2, <2>5, <2>6
<1>. QED
  BY <1>3, <1>4, <1>5, <1>6, <1>7 DEF Kinds

(* Two values that a field accepts are the same to the reader of the schema *)
(* just when the validator's canonical values are equal.                    *)
LEMMA SameParsedIs ==
  ASSUME NEW kind \in Kinds, NEW spec \in SpecsOf(kind),
         NEW a, IsNode(a), ~Misread(a), validate_field(spec, a) = {},
         NEW b, IsNode(b), ~Misread(b), validate_field(spec, b) = {}
  PROVE  /\ canonical_value(kind, a) # None
         /\ SameParsed(emit_field(spec), ToJson(a), ToJson(b)) <=>
              canonical_value(kind, a) = canonical_value(kind, b)
<1>. DEFINE s == emit_field(spec)
            x == canonical_value(kind, a)
            y == canonical_value(kind, b)
            Half == kind \in {"Integer", "I2cAddress"}
<1>1. FieldAccepts(s, ToJson(a)) /\ FieldAccepts(s, ToJson(b))
  BY FieldAgrees
<1>2. /\ x # None /\ ParsedJson(s, ToJson(a)) = IF Half THEN 2 * x ELSE x
      /\ Half => x \in Int
  BY ParsedIs
<1>3. /\ ParsedJson(s, ToJson(b)) = IF Half THEN 2 * y ELSE y
      /\ Half => y \in Int
  BY ParsedIs
<1>. HIDE DEF s, x, y
<1>4. ParsedJson(s, ToJson(a)) = ParsedJson(s, ToJson(b)) <=> x = y
  <2>1. CASE Half
    BY <1>2, <1>3, <2>1
  <2>2. CASE ~Half
    BY <1>2, <1>3, <2>2
  <2>. QED
    BY <2>1, <2>2
<1>. QED
  BY <1>1, <1>2, <1>4 DEF SameParsed, s, x, y

(* No value repeats an earlier one just when no two of them are the same. *)
LEMMA RepeatsIs ==
  ASSUME NEW kind \in Kinds, NEW spec \in SpecsOf(kind),
         NEW D, D \subseteq Nat, NEW values, DOMAIN values = D,
         \A i \in D : /\ IsNode(values[i]) /\ ~Misread(values[i])
                      /\ validate_field(spec, values[i]) = {}
  PROVE  Repeats(kind, values) = {} <=>
           \A i, j \in D :
             i # j => ~SameParsed(emit_field(spec), ToJson(values[i]), ToJson(values[j]))
<1>. DEFINE c(i) == canonical_value(kind, values[i])
            Same(i, j) == SameParsed(emit_field(spec), ToJson(values[i]), ToJson(values[j]))
<1>1. ASSUME NEW i \in D, NEW j \in D PROVE c(i) # None /\ (Same(i, j) <=> c(i) = c(j))
  BY SameParsedIs
<1>. HIDE DEF c, Same
<1>2. Repeats(kind, values) = {i \in D : c(i) # None /\ \E j \in D : j < i /\ c(j) = c(i)}
  BY DEF Repeats, c
<1>3. ASSUME Repeats(kind, values) = {}, NEW i \in D, NEW j \in D, i # j PROVE ~Same(i, j)
  <2>1. i < j \/ j < i
    <3>1. i \in Nat /\ j \in Nat
      OBVIOUS
    <3>. QED
      BY <1>3, <3>1
  <2>. QED
    BY <1>1, <1>2, <1>3, <2>1
<1>4. ASSUME \A i, j \in D : i # j => ~Same(i, j), NEW i \in Repeats(kind, values) PROVE FALSE
  <2>1. PICK j \in D : i \in D /\ j < i /\ c(j) = c(i)
    BY <1>2, <1>4
  <2>2. i # j
    <3>1. i \in Nat /\ j \in Nat
      BY <2>1
    <3>. QED
      BY <2>1, <3>1
  <2>. QED
    BY <1>1, <1>4, <2>1, <2>2
<1>. QED
  BY <1>3, <1>4 DEF Same

-----------------------------------------------------------------------------
(* A part and a node: the validator finds nothing where the schema holds *)

Held(tree, d, y, p) ==
  \A k \in DOMAIN emitted(tree)[d] : Holds(k, emitted(tree), d, y, p)

(* No node that is reached is a literal read as another value, and every one *)
(* that is to be a scalar is as its field has it.                            *)
ReadAlike(tree, y) == \A at \in Reached(tree, y) : ~Misread(y[at[2]])
ScalarsFit(tree, y) ==
  \A at \in Reached(tree, y) :
    tree[at[1]].kind = "Scalar" => validate_field(tree[at[1]].spec, y[at[2]]) = {}

(* A sequence is an array, a map an object, and nothing else is. *)
LEMMA JsonTypeIs ==
  ASSUME NEW node, IsNode(node)
  PROVE  /\ ToJson(node).type = "array" <=> node.tag = "seq"
         /\ ToJson(node).type = "object" <=> node.tag = "map"
<1>1. node.tag \in {"scalar", "seq", "map"}
  BY DEF IsNode
<1>2. ScalarToJson(node).type \notin {"array", "object"}
  BY DEF ScalarToJson, Json
<1>3. CASE node.tag = "scalar"
  BY <1>2, <1>3 DEF ToJson
<1>4. CASE node.tag = "seq"
  BY <1>4 DEF ToJson, Json
<1>5. CASE node.tag = "map"
  BY <1>5 DEF ToJson, Json
<1>. QED
  BY <1>1, <1>3, <1>4, <1>5

(* What a place that is reached has: a part and a node of the right shape. *)
LEMMA ReachedAt ==
  ASSUME NEW tree, IsDeclaration(tree), NEW y, IsYaml(y),
         NEW d, NEW p, <<d, p>> \in Reached(tree, y)
  PROVE  /\ d \in DOMAIN tree /\ p \in DOMAIN y /\ IsPart(tree[d]) /\ IsNode(y[p])
         /\ d \in Seq(Nat) /\ p \in Seq(Nat)
         /\ tree[d].kind = "Scalar" => \E kind \in Kinds : tree[d].spec \in SpecsOf(kind)
BY DEF Reached, IsDeclaration, IsYaml, IsPart

(* A field: no error just when its schema holds. *)
LEMMA ScalarHeld ==
  ASSUME NEW tree, IsDeclaration(tree), NEW y, IsYaml(y), ReadAlike(tree, y),
         NEW d, NEW p, <<d, p>> \in Reached(tree, y), tree[d].kind = "Scalar"
  PROVE  /\ ErrorsAt(tree, d, y, p) = {} <=> validate_field(tree[d].spec, y[p]) = {}
         /\ Held(tree, d, y, p) <=> validate_field(tree[d].spec, y[p]) = {}
<1>. DEFINE spec == tree[d].spec
            s == emitted(tree)[d]
            v == y[p]
<1>1. /\ d \in DOMAIN tree /\ IsNode(v) /\ ~Misread(v)
      /\ \E kind \in Kinds : spec \in SpecsOf(kind)
  <2>1. <<d, p>>[2] = p
    OBVIOUS
  <2>. QED
    BY <2>1, ReachedAt DEF ReadAlike
<1>2. PICK kind \in Kinds : spec \in SpecsOf(kind)
  BY <1>1
<1>3. spec.kind = kind
  BY <1>2, SpecIs
<1>4. s = emit_field(spec)
  BY <1>1, EmittedAt
<1>5. validate_field(spec, v) = {} <=> FieldAccepts(emit_field(spec), ToJson(v))
  <2>. HIDE DEF spec, v
  <2>. QED
    BY <1>1, <1>2, FieldAgrees
<1>6. DOMAIN s \subseteq FieldKeywords
  <2>. HIDE DEF spec
  <2>. QED
    BY <1>3, <1>4, FieldKeywordsAre
<1>7. ASSUME NEW k \in FieldKeywords PROVE Holds(k, emitted(tree), d, y, p) <=> Composed(k, s, ToJson(v))
  BY DEF FieldKeywords, Holds
<1>8. Held(tree, d, y, p) <=> FieldAccepts(s, ToJson(v))
  BY <1>6, <1>7 DEF Held, FieldAccepts
<1>9. ErrorsAt(tree, d, y, p) = {} <=> validate_field(spec, v) = {}
  BY DEF ErrorsAt, Errors
<1>. QED
  BY <1>4, <1>5, <1>8, <1>9

(* The items of an array of scalars, and what its schema says of them. *)
LEMMA ItemsUnique ==
  ASSUME NEW tree, IsDeclaration(tree), NEW y, IsYaml(y),
         ReadAlike(tree, y), ScalarsFit(tree, y),
         NEW d, NEW p, <<d, p>> \in Reached(tree, y), tree[d].kind = "Array",
         y[p].tag = "seq", tree[ItemAt(d)].kind = "Scalar"
  PROVE  Repeats(tree[ItemAt(d)].spec.kind, [i \in 1..y[p].size |-> y[Append(p, i)]]) = {} <=>
           UniqueItems(emitted(tree)[ItemAt(d)], y, p)
<1>. DEFINE spec == tree[ItemAt(d)].spec
            s == emitted(tree)[ItemAt(d)]
            D == 1..y[p].size
            values == [i \in D |-> y[Append(p, i)]]
<1>1. CASE D = {}
  BY <1>1 DEF Repeats, UniqueItems
<1>2. CASE D # {}
  <2>1. /\ ItemAt(d) \in DOMAIN tree
        /\ \A i \in D : IsNode(values[i]) /\ ~Misread(values[i]) /\ validate_field(spec, values[i]) = {}
    <3>1. ASSUME NEW i \in D
          PROVE  /\ ItemAt(d) \in DOMAIN tree
                 /\ IsNode(values[i]) /\ ~Misread(values[i]) /\ validate_field(spec, values[i]) = {}
      <4>. DEFINE at == <<ItemAt(d), Append(p, i)>>
      <4>1. at \in Reached(tree, y) /\ IsNode(y[Append(p, i)]) /\ ItemAt(d) \in DOMAIN tree
        BY ItemReached
      <4>2. at[1] = ItemAt(d) /\ at[2] = Append(p, i) /\ values[i] = y[Append(p, i)]
        OBVIOUS
      <4>. HIDE DEF at, values
      <4>. QED
        BY <4>1, <4>2 DEF ReadAlike, ScalarsFit
    <3>. QED
      BY <1>2, <3>1
  <2>2. PICK kind \in Kinds : spec \in SpecsOf(kind)
    BY <2>1 DEF IsDeclaration, IsPart
  <2>3. spec.kind = kind
    BY <2>2, SpecIs
  <2>4. s = emit_field(spec)
    BY <2>1, EmittedAt
  <2>5. D \subseteq Nat /\ DOMAIN values = D
    <3>1. y[p].size \in Nat
      BY ReachedAt DEF IsNode
    <3>. QED
      BY <3>1
  <2>6. UniqueItems(s, y, p) <=>
          \A i, j \in D : i # j => ~SameParsed(s, ToJson(values[i]), ToJson(values[j]))
    BY DEF UniqueItems
  <2>. HIDE DEF spec, values, s, D
  <2>7. Repeats(kind, values) = {} <=> UniqueItems(s, y, p)
    BY <2>1, <2>2, <2>4, <2>5, <2>6, RepeatsIs
  <2>. QED
    BY <2>3, <2>7 DEF spec, values, s, D
<1>. QED
  BY <1>1, <1>2

(* Values that are the same JSON are the same to whoever parses them. *)
LEMMA SameJsonParsed ==
  ASSUME NEW s, NEW a, IsNode(a), NEW b, IsNode(b),
         FieldAccepts(s, ToJson(a)), FieldAccepts(s, ToJson(b)), SameJson(ToJson(a), ToJson(b))
  PROVE  SameParsed(s, ToJson(a), ToJson(b))
<1>1. \A n : IsNode(n) => ToJson(n) = [type |-> ToJson(n).type, value |-> ToJson(n).value]
  BY DEF ToJson, ScalarToJson, Json, IsNode
<1>2. ToJson(a) = ToJson(b)
  BY <1>1 DEF SameJson
<1>. QED
  BY <1>2 DEF SameParsed

(* A field of an array's objects that is to be unique. *)
LEMMA MemberUnique ==
  ASSUME NEW tree, IsDeclaration(tree), NEW y, IsYaml(y),
         ReadAlike(tree, y), ScalarsFit(tree, y),
         NEW d, NEW p, <<d, p>> \in Reached(tree, y), tree[d].kind = "Array",
         y[p].tag = "seq", tree[ItemAt(d)].kind = "Object",
         NEW m \in MembersAt(tree, ItemAt(d)), m \in DOMAIN tree, tree[m].kind = "Scalar"
  PROVE  Repeats(tree[m].spec.kind, ValuesOf(y, p, tree[m].key)) = {} <=>
           UniqueAmong(emitted(tree)[m], tree[m].key, y, p)
<1>. DEFINE key == tree[m].key
            spec == tree[m].spec
            s == emitted(tree)[m]
            D == Having(y, p, key)
            values == ValuesOf(y, p, key)
<1>1. D \subseteq 1..y[p].size /\ y[p].size \in Nat
  BY ReachedAt DEF Having, IsNode
<1>2. DOMAIN values = D /\ \A i \in D : values[i] = ValueAt(y, Append(p, i), key)
  BY DEF ValuesOf
<1>3. ASSUME NEW i \in D
      PROVE  IsNode(values[i]) /\ ~Misread(values[i]) /\ validate_field(spec, values[i]) = {}
  <2>. DEFINE q == Append(p, i)
              at == <<m, Append(q, First(y[q], key))>>
  <2>1. i \in 1..y[p].size /\ key \in KeysIn(y[q])
    BY <1>1 DEF Having
  <2>2. <<ItemAt(d), q>> \in Reached(tree, y)
    BY <2>1, ItemReached
  <2>. HIDE DEF q
  <2>3. at \in Reached(tree, y) /\ IsNode(ValueAt(y, q, key))
    BY <2>1, <2>2, MemberReached
  <2>4. at[1] = m /\ at[2] = Append(q, First(y[q], key))
    OBVIOUS
  <2>5. values[i] = ValueAt(y, q, key) /\ ValueAt(y, q, key) = y[at[2]]
    BY <1>2, <2>4 DEF ValueAt, q
  <2>. HIDE DEF at, values
  <2>. QED
    BY <2>3, <2>4, <2>5 DEF ReadAlike, ScalarsFit
<1>4. PICK kind \in Kinds : spec \in SpecsOf(kind)
  BY DEF IsDeclaration, IsPart
<1>5. spec.kind = kind
  BY <1>4, SpecIs
<1>6. s = emit_field(spec)
  BY EmittedAt
<1>7. UniqueAmong(s, key, y, p) <=>
        \A i, j \in D : i # j => ~SameParsed(s, ToJson(values[i]), ToJson(values[j]))
  <2>1. D = {x \in 1..y[p].size :
               y[Append(p, x)].tag = "map" /\ key \in KeysIn(y[Append(p, x)])}
    BY DEF Having
  <2>. HIDE DEF D, values, s, key
  <2>. QED
    BY <1>2, <2>1 DEF UniqueAmong
<1>8. D \subseteq Nat
  BY <1>1
<1>. HIDE DEF spec, values, s, D, key
<1>9. Repeats(kind, values) = {} <=> UniqueAmong(s, key, y, p)
  BY <1>2, <1>3, <1>4, <1>6, <1>7, <1>8, RepeatsIs
<1>. QED
  BY <1>5, <1>9 DEF spec, values, s, D, key

(* The members of an object are parts of the declaration. *)
LEMMA MemberIn ==
  ASSUME NEW tree, IsDeclaration(tree), NEW d \in DOMAIN tree, tree[d].kind = "Object",
         NEW m \in MembersAt(tree, d)
  PROVE  m \in DOMAIN tree
BY DEF MembersAt, IsDeclaration, SizeOf

(* So is the item of an array, and it is no array. *)
LEMMA ItemIn ==
  ASSUME NEW tree, IsDeclaration(tree), NEW d \in DOMAIN tree, tree[d].kind = "Array"
  PROVE  /\ ItemAt(d) \in DOMAIN tree /\ tree[ItemAt(d)].kind \in {"Scalar", "Object"}
<1>1. SizeOf(tree[d]) = 1
  BY DEF SizeOf
<1>2. 1 \in 1..SizeOf(tree[d])
  BY <1>1
<1>3. ItemAt(d) \in DOMAIN tree
  BY <1>2 DEF ItemAt, IsDeclaration
<1>4. tree[ItemAt(d)].kind # "Array"
  BY DEF ItemAt, IsDeclaration
<1>. QED
  BY <1>3, <1>4 DEF IsDeclaration, IsPart

(* Which members a schema says anolisUnique of, among those without items. *)
LEMMA UniqueMemberIs ==
  ASSUME NEW tree, IsDeclaration(tree), NEW m \in DOMAIN tree
  PROVE  LET s == emitted(tree)[m] IN
         "anolisUnique" \in DOMAIN s /\ "items" \notin DOMAIN s <=>
           tree[m].kind = "Scalar" /\ tree[m].spec.unique
<1>. DEFINE s == emitted(tree)[m]
<1>1. CASE tree[m].kind = "Scalar"
  <2>1. PICK kind \in Kinds : tree[m].spec \in SpecsOf(kind)
    BY <1>1 DEF IsDeclaration, IsPart
  <2>2. tree[m].spec.kind = kind
    BY <2>1, SpecIs
  <2>3. s = emit_field(tree[m].spec)
    BY <1>1, EmittedAt
  <2>4. DOMAIN s \subseteq FieldKeywords /\ ("anolisUnique" \in DOMAIN s <=> tree[m].spec.unique)
    BY <2>2, <2>3, FieldKeywordsAre
  <2>5. "items" \notin FieldKeywords
    BY DEF FieldKeywords
  <2>. QED
    BY <1>1, <2>4, <2>5
<1>2. CASE tree[m].kind = "Array"
  <2>1. s = emit_array(tree, m)
    BY <1>2, EmittedAt
  <2>2. "items" \in DOMAIN s
    BY <2>1, ArrayKeywords
  <2>. QED
    BY <1>2, <2>2
<1>3. CASE tree[m].kind = "Object"
  <2>1. s = emit_object(tree, m)
    BY <1>3, EmittedAt
  <2>. HIDE DEF s
  <2>2. "anolisUnique" \notin DOMAIN s
    BY <2>1, ObjectKeywords
  <2>. QED
    BY <1>3, <2>2 DEF s
<1>. QED
  BY <1>1, <1>2, <1>3 DEF IsDeclaration, IsPart

(* The fields that are compared between an array's objects are those of which *)
(* their schema says so.                                                      *)
LEMMA MembersUnique ==
  ASSUME NEW tree, IsDeclaration(tree), IsSchema(tree), NEW y, IsYaml(y),
         ReadAlike(tree, y), ScalarsFit(tree, y),
         NEW d, NEW p, <<d, p>> \in Reached(tree, y), tree[d].kind = "Array",
         y[p].tag = "seq", tree[ItemAt(d)].kind = "Object"
  PROVE  LET S == emitted(tree)
             s == S[ItemAt(d)] IN
         (\A m \in UniqueMembers(tree, d) :
            Repeats(tree[m].spec.kind, ValuesOf(y, p, tree[m].key)) = {}) <=>
         ("properties" \in DOMAIN s =>
            \A key \in DOMAIN s.properties :
              "anolisUnique" \in DOMAIN S[s.properties[key]] /\ "items" \notin DOMAIN S[s.properties[key]]
              => UniqueAmong(S[s.properties[key]], key, y, p))
<1>. DEFINE e == ItemAt(d)
            S == emitted(tree)
            s == S[e]
            Once(m) == Repeats(tree[m].spec.kind, ValuesOf(y, p, tree[m].key)) = {}
            Marked(m) == "anolisUnique" \in DOMAIN S[m] /\ "items" \notin DOMAIN S[m]
            Among(m, key) == UniqueAmong(S[m], key, y, p)
<1>1. d \in DOMAIN tree /\ e \in DOMAIN tree /\ insert_member(tree, e)
  BY ReachedAt, ItemIn, ObjectBuilt
<1>2. \A m \in MembersAt(tree, e) : m \in DOMAIN tree
  BY <1>1, MemberIn
<1>3. \A m \in MembersAt(tree, e) : Marked(m) <=> m \in UniqueMembers(tree, d)
  <2>1. \A m \in DOMAIN tree : Marked(m) <=> tree[m].kind = "Scalar" /\ tree[m].spec.unique
    BY UniqueMemberIs
  <2>. HIDE DEF Marked
  <2>. QED
    BY <1>2, <2>1 DEF UniqueMembers
<1>4. UniqueMembers(tree, d) \subseteq MembersAt(tree, e)
  BY DEF UniqueMembers
<1>5. ASSUME NEW m \in UniqueMembers(tree, d) PROVE Once(m) <=> Among(m, tree[m].key)
  <2>1. m \in MembersAt(tree, ItemAt(d)) /\ m \in DOMAIN tree /\ tree[m].kind = "Scalar"
    BY <1>2, <1>4 DEF UniqueMembers
  <2>. QED
    BY <2>1, MemberUnique
<1>6. s = emit_object(tree, e)
  BY <1>1, EmittedAt
<1>7. "properties" \in DOMAIN s <=> MembersAt(tree, e) # {}
  <2>. HIDE DEF s
  <2>. QED
    BY <1>6, ObjectKeywords
<1>8. "properties" \in DOMAIN s =>
        /\ DOMAIN s["properties"] = KeysAt(tree, e)
        /\ \A key \in KeysAt(tree, e) : s["properties"][key] = MemberAt(tree, e, key)
  <2>1. "properties" \in DOMAIN s => DOMAIN s["properties"] = KeysAt(tree, e)
    <3>. HIDE DEF s
    <3>. QED
      BY <1>6, ObjectArguments
  <2>2. \A key \in KeysAt(tree, e) : s["properties"][key] = MemberAt(tree, e, key)
    BY <1>6, PropertyIs
  <2>. QED
    BY <2>1, <2>2
<1>9. \A m \in MembersAt(tree, e) :
        tree[m].key \in KeysAt(tree, e) /\ MemberAt(tree, e, tree[m].key) = m
  BY <1>1, MemberAtIs
<1>10. \A key \in KeysAt(tree, e) :
         MemberAt(tree, e, key) \in MembersAt(tree, e) /\ tree[MemberAt(tree, e, key)].key = key
  BY <1>1, MemberOfKey
<1>. HIDE DEF e, Once, Marked, Among, s
<1>11. (\A m \in UniqueMembers(tree, d) : Once(m)) <=>
         \A key \in KeysAt(tree, e) : Marked(MemberAt(tree, e, key)) => Among(MemberAt(tree, e, key), key)
  <2>1. ASSUME \A m \in UniqueMembers(tree, d) : Once(m), NEW key \in KeysAt(tree, e),
               Marked(MemberAt(tree, e, key))
        PROVE  Among(MemberAt(tree, e, key), key)
    BY <1>3, <1>5, <1>10, <2>1
  <2>2. ASSUME \A key \in KeysAt(tree, e) :
                 Marked(MemberAt(tree, e, key)) => Among(MemberAt(tree, e, key), key),
               NEW m \in UniqueMembers(tree, d)
        PROVE  Once(m)
    BY <1>3, <1>4, <1>5, <1>9, <2>2
  <2>. QED
    BY <2>1, <2>2
<1>12. KeysAt(tree, e) = {} <=> MembersAt(tree, e) = {}
  BY DEF KeysAt
<1>13. (\A m \in UniqueMembers(tree, d) : Once(m)) <=>
         ("properties" \in DOMAIN s =>
            \A key \in DOMAIN s["properties"] :
              Marked(s["properties"][key]) => Among(s["properties"][key], key))
  <2>1. CASE MembersAt(tree, e) = {}
    BY <1>4, <1>7, <2>1
  <2>2. CASE MembersAt(tree, e) # {}
    BY <1>7, <1>8, <1>11, <2>2
  <2>. QED
    BY <2>1, <2>2
<1>. QED
  BY <1>13 DEF Once, Marked, Among, e, s

(* An array: no error just when its schema holds, the scalars it has being *)
(* right. uniqueItems says nothing that anolisUnique does not.             *)
LEMMA ArrayHeld ==
  ASSUME NEW tree, IsDeclaration(tree), IsSchema(tree), NEW y, IsYaml(y),
         ReadAlike(tree, y), ScalarsFit(tree, y),
         NEW d, NEW p, <<d, p>> \in Reached(tree, y), tree[d].kind = "Array"
  PROVE  ErrorsAt(tree, d, y, p) = {} <=> Held(tree, d, y, p)
<1>. DEFINE S == emitted(tree)
            s == S[d]
            v == y[p]
            e == ItemAt(d)
            array == tree[d].spec
            item == tree[e]
            H(k) == Holds(k, S, d, y, p)
            Few == array.min_items # None /\ v.size < array.min_items
            Many == array.max_items # None /\ v.size > array.max_items
            values == [i \in 1..v.size |-> y[Append(p, i)]]
            Once == \A m \in UniqueMembers(tree, d) :
                      Repeats(tree[m].spec.kind, ValuesOf(y, p, tree[m].key)) = {}
            Lonely == \A i, j \in 1..v.size :
                        i # j => ~SameJson(ToJson(y[Append(p, i)]), ToJson(y[Append(p, j)]))
            Members == "properties" \in DOMAIN S[e] =>
                         \A key \in DOMAIN S[e].properties :
                           "anolisUnique" \in DOMAIN S[S[e].properties[key]]
                             /\ "items" \notin DOMAIN S[S[e].properties[key]]
                           => UniqueAmong(S[S[e].properties[key]], key, y, p)
<1>1. d \in DOMAIN tree /\ IsNode(v) /\ v.size \in Nat /\ array \in Arrays
  <2>1. d \in DOMAIN tree /\ IsNode(v) /\ IsPart(tree[d])
    BY ReachedAt
  <2>2. v.size \in Nat
    BY <2>1 DEF IsNode
  <2>3. array \in Arrays
    BY <2>1 DEF IsPart
  <2>. QED
    BY <2>1, <2>2, <2>3
<1>2. s = emit_array(tree, d)
  BY <1>1, EmittedAt
<1>3. /\ DOMAIN s \subseteq {"type", "items", "minItems", "maxItems", "uniqueItems", "anolisUnique"}
      /\ "type" \in DOMAIN s /\ s["type"] = "array"
      /\ "items" \in DOMAIN s /\ s["items"] = e
      /\ "minItems" \in DOMAIN s <=> array.min_items # None
      /\ "minItems" \in DOMAIN s => s["minItems"] = array.min_items
      /\ "maxItems" \in DOMAIN s <=> array.max_items # None
      /\ "maxItems" \in DOMAIN s => s["maxItems"] = array.max_items
      /\ "uniqueItems" \in DOMAIN s <=> array.unique
      /\ "anolisUnique" \in DOMAIN s <=> array.unique
  <2>. HIDE DEF s, S
  <2>. QED
    BY <1>2 DEF emit_array, If
<1>4. H("type") <=> v.tag = "seq"
  <2>. HIDE DEF S, v
  <2>1. H("type") <=> ToJson(v).type = s["type"]
    BY <1>3 DEF Holds, Composed, Plain, v
  <2>. QED
    BY <1>1, <1>3, <2>1, JsonTypeIs
<1>5. ErrorsAt(tree, d, y, p) = validate_array(tree, d, y, p)
  BY DEF ErrorsAt
<1>6. CASE v.tag # "seq"
  <2>1. validate_array(tree, d, y, p) # {}
    BY <1>6 DEF validate_array, Errors
  <2>2. ~Held(tree, d, y, p)
    BY <1>3, <1>4, <1>6 DEF Held
  <2>. QED
    BY <1>5, <2>1, <2>2
<1>7. CASE v.tag = "seq"
  <2>1. e \in DOMAIN tree /\ item.kind \in {"Scalar", "Object"} /\ (array.unique => item.kind = "Scalar")
    <3>1. UniqueAllowed(tree, d)
      BY <1>1 DEF IsSchema, IsBuilt, PlacesOf
    <3>. QED
      BY <1>1, <3>1, ItemIn DEF UniqueAllowed
  <2>2. validate_array(tree, d, y, p) = {} <=>
          /\ ~Few /\ ~Many /\ Once
          /\ array.unique => Repeats(item.spec.kind, values) = {}
    <3>. DEFINE A == Errors(p, If(Few, "minItems") \cup If(Many, "maxItems"))
                R == IF item.kind = "Scalar" /\ array.unique THEN Repeats(item.spec.kind, values) ELSE {}
                B == {<<Append(p, i), "", "unique">> : i \in R}
                Again(m) == Repeats(tree[m].spec.kind, ValuesOf(y, p, tree[m].key))
                Twice(m) == {<<Append(p, i), tree[m].key, "unique">> : i \in Again(m)}
                C == UNION {Twice(m) : m \in UniqueMembers(tree, d)}
    <3>1. validate_array(tree, d, y, p) = A \cup B \cup C
      BY <1>7 DEF validate_array
    <3>2. A = {} <=> ~Few /\ ~Many
      <4>. HIDE DEF Few, Many
      <4>. QED
        BY DEF Errors, If
    <3>3. B = {} <=> R = {}
      <4>. HIDE DEF R
      <4>. QED
        OBVIOUS
    <3>4. R = {} <=> (array.unique => Repeats(item.spec.kind, values) = {})
      BY <2>1
    <3>5. C = {} <=> Once
      <4>1. \A m : Twice(m) = {} <=> Again(m) = {}
        <5>. HIDE DEF Again
        <5>. QED
          OBVIOUS
      <4>2. Once <=> \A m \in UniqueMembers(tree, d) : Again(m) = {}
        OBVIOUS
      <4>. HIDE DEF Again, Twice, Once
      <4>. QED
        BY <4>1, <4>2
    <3>. HIDE DEF A, B, C, R, Few, Many, Once, values, array, item
    <3>. QED
      BY <3>1, <3>2, <3>3, <3>4, <3>5
  <2>3. Few <=> "minItems" \in DOMAIN s /\ ~H("minItems")
    <3>1. "minItems" \in DOMAIN s => (H("minItems") <=> v.size >= array.min_items)
      BY <1>3, <1>7 DEF Holds
    <3>2. array.min_items # None => array.min_items \in Nat
      BY <1>1 DEF Arrays
    <3>. HIDE DEF H, v, array, s
    <3>. QED
      BY <1>1, <1>3, <3>1, <3>2
  <2>4. Many <=> "maxItems" \in DOMAIN s /\ ~H("maxItems")
    <3>1. "maxItems" \in DOMAIN s => (H("maxItems") <=> v.size <= array.max_items)
      BY <1>3, <1>7 DEF Holds
    <3>2. array.max_items # None => array.max_items \in Nat
      BY <1>1 DEF Arrays
    <3>. HIDE DEF H, v, array, s
    <3>. QED
      BY <1>1, <1>3, <3>1, <3>2
  <2>5. H("items") <=> Members /\ (array.unique => UniqueItems(S[e], y, p))
    <3>1. H("items") <=>
            /\ "properties" \in DOMAIN S[s["items"]] =>
                 \A key \in DOMAIN S[s["items"]].properties :
                   /\ "anolisUnique" \in DOMAIN S[S[s["items"]].properties[key]]
                   /\ "items" \notin DOMAIN S[S[s["items"]].properties[key]]
                   => UniqueAmong(S[S[s["items"]].properties[key]], key, y, p)
            /\ "anolisUnique" \in DOMAIN s => UniqueItems(S[s["items"]], y, p)
      <4>. HIDE DEF S
      <4>. QED
        BY <1>7 DEF Holds
    <3>2. s["items"] = e
      BY <1>3
    <3>. HIDE DEF s, S, e, H
    <3>. QED
      BY <1>3, <3>1, <3>2
  <2>6. Members <=> Once
    <3>1. CASE item.kind = "Object"
      BY <1>7, <3>1, MembersUnique
    <3>2. CASE item.kind = "Scalar"
      <4>1. Once
        BY <3>2 DEF UniqueMembers
      <4>2. "properties" \notin DOMAIN S[e]
        <5>1. PICK kind \in Kinds : item.spec \in SpecsOf(kind)
          BY <2>1, <3>2 DEF IsDeclaration, IsPart
        <5>2. item.spec.kind = kind
          BY <5>1, SpecIs
        <5>3. S[e] = emit_field(item.spec)
          BY <2>1, <3>2, EmittedAt
        <5>4. DOMAIN S[e] \subseteq FieldKeywords
          BY <5>2, <5>3, FieldKeywordsAre
        <5>. QED
          BY <5>4 DEF FieldKeywords
      <4>. QED
        BY <4>1, <4>2
    <3>. QED
      BY <2>1, <3>1, <3>2
  <2>7. array.unique => (Repeats(item.spec.kind, values) = {} <=> UniqueItems(S[e], y, p))
    BY <1>7, <2>1, ItemsUnique
  <2>8. "uniqueItems" \in DOMAIN s => (H("uniqueItems") <=> Lonely)
    BY <1>7 DEF Holds
  <2>9. array.unique /\ UniqueItems(S[e], y, p) => Lonely
    <3>. SUFFICES ASSUME array.unique, UniqueItems(S[e], y, p), NEW i \in 1..v.size, NEW j \in 1..v.size,
                         i # j, SameJson(ToJson(y[Append(p, i)]), ToJson(y[Append(p, j)]))
                  PROVE  FALSE
      OBVIOUS
    <3>1. item.kind = "Scalar"
      BY <2>1
    <3>2. PICK kind \in Kinds : item.spec \in SpecsOf(kind)
      BY <2>1, <3>1 DEF IsDeclaration, IsPart
    <3>3. S[e] = emit_field(item.spec)
      BY <2>1, <3>1, EmittedAt
    <3>4. ASSUME NEW x \in 1..v.size
          PROVE  IsNode(y[Append(p, x)]) /\ FieldAccepts(S[e], ToJson(y[Append(p, x)]))
      <4>. DEFINE at == <<e, Append(p, x)>>
      <4>1. at \in Reached(tree, y) /\ IsNode(y[Append(p, x)])
        BY <1>7, ItemReached
      <4>2. at[1] = e /\ at[2] = Append(p, x)
        OBVIOUS
      <4>3. ~Misread(y[Append(p, x)]) /\ validate_field(item.spec, y[Append(p, x)]) = {}
        <5>. HIDE DEF at, e
        <5>. QED
          BY <3>1, <4>1, <4>2 DEF ReadAlike, ScalarsFit
      <4>. QED
        BY <3>2, <3>3, <4>1, <4>3, FieldAgrees
    <3>5. SameParsed(S[e], ToJson(y[Append(p, i)]), ToJson(y[Append(p, j)]))
      <4>. HIDE DEF S, e
      <4>. QED
        BY <3>4, SameJsonParsed
    <3>. QED
      BY <3>5 DEF UniqueItems
  <2>10. "anolisUnique" \in DOMAIN s => H("anolisUnique")
    BY DEF Holds, Composed, Plain
  <2>11. Held(tree, d, y, p) <=> \A k \in DOMAIN s : H(k)
    BY DEF Held
  <2>. HIDE DEF H, s, S, Few, Many, Once, Members, Lonely, values, array, item, e
  <2>12. (\A k \in DOMAIN s : H(k)) <=>
           /\ ~Few /\ ~Many /\ Members
           /\ array.unique => UniqueItems(S[e], y, p)
    BY <1>3, <1>4, <1>7, <2>3, <2>4, <2>5, <2>8, <2>9, <2>10
  <2>. QED
    BY <1>5, <2>2, <2>6, <2>7, <2>11, <2>12
<1>. QED
  BY <1>6, <1>7

(* The two branches of a conditional. *)
LEMMA IfSelects ==
  ASSUME NEW c, NEW y, NEW p, y[p].tag = "map",
         c.key \in KeysIn(y[p]) =>
           IsNode(ValueAt(y, p, c.key)) /\ ~Misread(ValueAt(y, p, c.key))
  PROVE  BranchAccepts(emit_if(c), y, p) <=> Selected(c, y, p)
<1>. DEFINE s == emit_if(c)
            v == ValueAt(y, p, c.key)
<1>1. /\ DOMAIN s = {"properties", "required"} /\ s.required = {c.key}
      /\ DOMAIN s.properties = {c.key} /\ s.properties[c.key] = Constant(c.equals)
  BY DEF emit_if
<1>2. BranchAccepts(s, y, p) <=>
        /\ c.key \in KeysIn(y[p])
        /\ \A key \in {c.key} \cap KeysIn(y[p]) : Fits(s.properties[key], ToJson(ValueAt(y, p, key)))
  <2>. HIDE DEF s
  <2>. QED
    BY <1>1 DEF BranchAccepts
<1>3. CASE c.key \notin KeysIn(y[p])
  BY <1>2, <1>3 DEF Selected
<1>4. CASE c.key \in KeysIn(y[p])
  <2>1. BranchAccepts(s, y, p) <=> Fits(Constant(c.equals), ToJson(v))
    <3>. HIDE DEF s
    <3>. QED
      BY <1>1, <1>2, <1>4
  <2>2. Fits(Constant(c.equals), ToJson(v)) <=> ToJson(v).type = "string" /\ ToJson(v).value = c.equals
    BY ConstantFits
  <2>3. /\ resolve_scalar(v).kind = "String" <=> ToJson(v).type = "string"
        /\ ToJson(v).type = "string" => resolve_scalar(v).value = ToJson(v).value
    BY <1>4, TextRead
  <2>4. Selected(c, y, p) <=> resolve_scalar(v).kind = "String" /\ resolve_scalar(v).value = c.equals
    BY <1>4 DEF Selected
  <2>. HIDE DEF s, v
  <2>. QED
    BY <2>1, <2>2, <2>3, <2>4 DEF s
<1>. QED
  BY <1>3, <1>4

(* A branch's then is its requires and forbids. *)
LEMMA ThenHolds ==
  ASSUME NEW c, NEW y, NEW p, y[p].tag = "map"
  PROVE  BranchAccepts(emit_then(c), y, p) <=>
           Range(c.require) \subseteq KeysIn(y[p]) /\ Range(c.forbid) \cap KeysIn(y[p]) = {}
<1>. DEFINE s == emit_then(c)
            required == Range(c.require)
            forbidden == Range(c.forbid)
            f == [key \in forbidden |-> [false |-> TRUE]]
            K == If(required # {}, "required") \cup If(forbidden # {}, "properties")
<1>1. /\ "required" \in DOMAIN s <=> required # {}
      /\ "required" \in DOMAIN s => s.required = required
      /\ "properties" \in DOMAIN s <=> forbidden # {}
      /\ "properties" \in DOMAIN s => s.properties = f
  <2>1. s = [k \in K |-> IF k = "required" THEN required ELSE f]
    BY DEF emit_then
  <2>2. /\ "required" \in K <=> required # {}
        /\ "properties" \in K <=> forbidden # {}
    <3>. HIDE DEF required, forbidden
    <3>. QED
      BY DEF If
  <2>. HIDE DEF f, s, K, required, forbidden
  <2>. QED
    BY <2>1, <2>2
<1>2. \A v : ~Fits([false |-> TRUE], v)
  BY DEF Fits, Plain
<1>. HIDE DEF required, forbidden
<1>3. DOMAIN f = forbidden /\ \A key \in forbidden : \A v : ~Fits(f[key], v)
  BY <1>2
<1>. HIDE DEF s, f
<1>4. BranchAccepts(s, y, p) <=>
        /\ required # {} => required \subseteq KeysIn(y[p])
        /\ forbidden # {} => forbidden \cap KeysIn(y[p]) = {}
  BY <1>1, <1>3 DEF BranchAccepts
<1>. QED
  BY <1>4 DEF s, required, forbidden

(* Apart from duplicate keys, and deprecated ones on an open object. *)
KeysClear(object, node) ==
  Duplicates(node) = {} /\ (object.openness = "Open" => object.deprecated_keys \cap KeysIn(node) = {})

(* An object has no errors just when each of the six rules has none. *)
LEMMA NoObjectErrors ==
  ASSUME NEW tree, NEW d, NEW y, NEW p, y[p].tag = "map"
  PROVE  LET object == tree[d].spec
             keys == KeysIn(y[p])
             deprecated == keys \cap object.deprecated_keys
             unknown == IF object.openness = "Closed" THEN keys \ KeysAt(tree, d) ELSE {} IN
         validate_object(tree, d, y, p) = {} <=>
           /\ Duplicates(y[p]) = {} /\ deprecated = {} /\ unknown \ deprecated = {}
           /\ RequiredAt(tree, d) \subseteq keys
           /\ \A c \in Range(object.conditionals) :
                Selected(c, y, p) => Range(c.require) \subseteq keys /\ Range(c.forbid) \cap keys = {}
           /\ \A r \in Range(object.dependent_required) :
                r.key \in keys => Range(r.also_required) \subseteq keys
<1>. DEFINE object == tree[d].spec
            keys == KeysIn(y[p])
            deprecated == keys \cap object.deprecated_keys
            closed == IF object.openness = "Closed" THEN keys \ KeysAt(tree, d) ELSE {}
            unknown == closed \ deprecated
            missing == RequiredAt(tree, d) \ keys
            Of(c) == KeyErrors(p, Range(c.require) \ keys, "required")
                       \cup KeyErrors(p, Range(c.forbid) \cap keys, "forbidden")
            C == UNION {Of(c) : c \in {x \in Range(object.conditionals) : Selected(x, y, p)}}
            With(r) == KeyErrors(p, Range(r.also_required) \ keys, "required")
            D == UNION {With(r) : r \in {x \in Range(object.dependent_required) : x.key \in keys}}
<1>1. validate_object(tree, d, y, p) =
        KeyErrors(p, Duplicates(y[p]), "duplicate")
          \cup KeyErrors(p, deprecated, "deprecated")
          \cup KeyErrors(p, unknown, "unknown")
          \cup KeyErrors(p, missing, "required")
          \cup C \cup D
  BY DEF validate_object
<1>2. ASSUME NEW K, NEW rule PROVE KeyErrors(p, K, rule) = {} <=> K = {}
  BY DEF KeyErrors
<1>3. C = {} <=> \A c \in Range(object.conditionals) :
                   Selected(c, y, p) => Range(c.require) \subseteq keys /\ Range(c.forbid) \cap keys = {}
  <2>1. ASSUME NEW c PROVE Of(c) = {} <=> Range(c.require) \subseteq keys /\ Range(c.forbid) \cap keys = {}
    <3>1. KeyErrors(p, Range(c.require) \ keys, "required") = {} <=> Range(c.require) \ keys = {}
      BY <1>2
    <3>2. KeyErrors(p, Range(c.forbid) \cap keys, "forbidden") = {} <=> Range(c.forbid) \cap keys = {}
      BY <1>2
    <3>. QED
      BY <3>1, <3>2
  <2>. HIDE DEF Of, keys, object
  <2>. QED
    BY <2>1
<1>4. D = {} <=> \A r \in Range(object.dependent_required) :
                   r.key \in keys => Range(r.also_required) \subseteq keys
  <2>1. ASSUME NEW r PROVE With(r) = {} <=> Range(r.also_required) \subseteq keys
    <3>1. KeyErrors(p, Range(r.also_required) \ keys, "required") = {} <=> Range(r.also_required) \ keys = {}
      BY <1>2
    <3>. QED
      BY <3>1
  <2>. HIDE DEF With, keys, object
  <2>. QED
    BY <2>1
<1>5. /\ KeyErrors(p, Duplicates(y[p]), "duplicate") = {} <=> Duplicates(y[p]) = {}
      /\ KeyErrors(p, deprecated, "deprecated") = {} <=> deprecated = {}
      /\ KeyErrors(p, unknown, "unknown") = {} <=> unknown = {}
      /\ KeyErrors(p, missing, "required") = {} <=> missing = {}
  BY <1>2
<1>6. missing = {} <=> RequiredAt(tree, d) \subseteq keys
  OBVIOUS
<1>. HIDE DEF C, D, deprecated, unknown, closed, missing, keys, object
<1>. QED
  BY <1>1, <1>3, <1>4, <1>5, <1>6 DEF object, keys, deprecated, unknown, closed

(* Its keys being clear, that is five conditions of the keys. *)
LEMMA ObjectErrors ==
  ASSUME NEW tree, NEW d, NEW y, NEW p, tree[d].kind = "Object", y[p].tag = "map",
         tree[d].spec \in Objects, check_object(tree, d), KeysClear(tree[d].spec, y[p])
  PROVE  LET object == tree[d].spec
             keys == KeysIn(y[p]) IN
         ErrorsAt(tree, d, y, p) = {} <=>
           /\ object.openness = "Closed" => keys \subseteq KeysAt(tree, d)
           /\ RequiredAt(tree, d) \subseteq keys
           /\ \A i \in DOMAIN object.conditionals :
                Selected(object.conditionals[i], y, p) =>
                  /\ Range(object.conditionals[i].require) \subseteq keys
                  /\ Range(object.conditionals[i].forbid) \cap keys = {}
           /\ \A i \in DOMAIN object.dependent_required :
                object.dependent_required[i].key \in keys =>
                  Range(object.dependent_required[i].also_required) \subseteq keys
<1>. DEFINE object == tree[d].spec
            keys == KeysIn(y[p])
            deprecated == keys \cap object.deprecated_keys
            closed == IF object.openness = "Closed" THEN keys \ KeysAt(tree, d) ELSE {}
            unknown == closed \ deprecated
            Kept(c) == Selected(c, y, p) => Range(c.require) \subseteq keys /\ Range(c.forbid) \cap keys = {}
            With(r) == r.key \in keys => Range(r.also_required) \subseteq keys
<1>1. ErrorsAt(tree, d, y, p) = validate_object(tree, d, y, p)
  BY DEF ErrorsAt
<1>2. validate_object(tree, d, y, p) = {} <=>
        /\ Duplicates(y[p]) = {} /\ deprecated = {} /\ unknown = {}
        /\ RequiredAt(tree, d) \subseteq keys
        /\ \A c \in Range(object.conditionals) : Kept(c)
        /\ \A r \in Range(object.dependent_required) : With(r)
  BY NoObjectErrors
<1>3. deprecated = {} /\ unknown = {} <=>
        (object.openness = "Closed" => keys \subseteq KeysAt(tree, d))
  <2>1. object.openness \in {"Open", "Closed"}
    BY DEF Objects
  <2>2. object.deprecated_keys \cap KeysAt(tree, d) = {}
    BY DEF check_object
  <2>. QED
    BY <2>1, <2>2 DEF KeysClear
<1>4. Duplicates(y[p]) = {}
  BY DEF KeysClear
<1>5. (\A c \in Range(object.conditionals) : Kept(c)) <=>
        \A i \in DOMAIN object.conditionals : Kept(object.conditionals[i])
  <2>. HIDE DEF Kept
  <2>. QED
    BY DEF Range
<1>6. (\A r \in Range(object.dependent_required) : With(r)) <=>
        \A i \in DOMAIN object.dependent_required : With(object.dependent_required[i])
  <2>. HIDE DEF With
  <2>. QED
    BY DEF Range
<1>. HIDE DEF deprecated, unknown
<1>. QED
  BY <1>1, <1>2, <1>3, <1>4, <1>5, <1>6

(* An object: no error just when its schema holds, its keys being clear. *)
LEMMA ObjectHeld ==
  ASSUME NEW tree, IsDeclaration(tree), IsSchema(tree), NEW y, IsYaml(y), ReadAlike(tree, y),
         NEW d, NEW p, <<d, p>> \in Reached(tree, y), tree[d].kind = "Object",
         y[p].tag = "map" => KeysClear(tree[d].spec, y[p])
  PROVE  ErrorsAt(tree, d, y, p) = {} <=> Held(tree, d, y, p)
<1>. DEFINE S == emitted(tree)
            s == S[d]
            v == y[p]
            object == tree[d].spec
            keys == KeysIn(v)
            H(k) == Holds(k, S, d, y, p)
            Conditional(i) ==
              Selected(object.conditionals[i], y, p) =>
                /\ Range(object.conditionals[i].require) \subseteq keys
                /\ Range(object.conditionals[i].forbid) \cap keys = {}
            Dependent(i) ==
              object.dependent_required[i].key \in keys =>
                Range(object.dependent_required[i].also_required) \subseteq keys
<1>1. d \in DOMAIN tree /\ IsNode(v) /\ object \in Objects
  <2>1. d \in DOMAIN tree /\ IsNode(v) /\ IsPart(tree[d])
    BY ReachedAt
  <2>2. object \in Objects
    BY <2>1 DEF IsPart
  <2>. QED
    BY <2>1, <2>2
<1>2. s = emit_object(tree, d)
  BY <1>1, EmittedAt
<1>8. insert_member(tree, d) /\ check_object(tree, d)
  BY <1>1, ObjectBuilt
<1>. HIDE DEF s, S
<1>3. /\ DOMAIN s \subseteq {"type", "properties", "required", "additionalProperties",
                            "dependentRequired", "allOf"}
      /\ "type" \in DOMAIN s
      /\ "properties" \in DOMAIN s <=> MembersAt(tree, d) # {}
      /\ "required" \in DOMAIN s <=> RequiredAt(tree, d) # {}
      /\ "additionalProperties" \in DOMAIN s <=> tree[d].spec.openness = "Closed"
      /\ "dependentRequired" \in DOMAIN s <=> tree[d].spec.dependent_required # <<>>
      /\ "allOf" \in DOMAIN s <=> tree[d].spec.conditionals # <<>>
  BY <1>2, ObjectKeywords
<1>4. /\ s["type"] = "object"
      /\ "properties" \in DOMAIN s => DOMAIN s["properties"] = KeysAt(tree, d)
      /\ "required" \in DOMAIN s => s["required"] = RequiredAt(tree, d)
      /\ "dependentRequired" \in DOMAIN s => s["dependentRequired"] = tree[d].spec.dependent_required
  <2>1. s["type"] = "object"
    BY <1>2, ObjectArguments
  <2>2. "properties" \in DOMAIN s => DOMAIN s["properties"] = KeysAt(tree, d)
    BY <1>2, ObjectArguments
  <2>3. "required" \in DOMAIN s => s["required"] = RequiredAt(tree, d)
    BY <1>2, ObjectArguments
  <2>4. "dependentRequired" \in DOMAIN s => s["dependentRequired"] = tree[d].spec.dependent_required
    BY <1>2 DEF emit_object
  <2>. QED
    BY <2>1, <2>2, <2>3, <2>4
<1>5. H("type") <=> v.tag = "map"
  <2>1. H("type") <=> ToJson(v).type = s["type"]
    BY <1>4 DEF Holds, Composed, Plain, s, S
  <2>. HIDE DEF S, v
  <2>. QED
    BY <1>1, <1>4, <2>1, JsonTypeIs
<1>6. CASE v.tag # "map"
  <2>1. ErrorsAt(tree, d, y, p) = validate_object(tree, d, y, p)
    BY DEF ErrorsAt
  <2>2. validate_object(tree, d, y, p) # {}
    BY <1>6 DEF validate_object, Errors
  <2>3. ~Held(tree, d, y, p)
    BY <1>3, <1>5, <1>6 DEF Held, s, S
  <2>. QED
    BY <2>1, <2>2, <2>3
<1>7. CASE v.tag = "map"
  <2>1. ErrorsAt(tree, d, y, p) = {} <=>
          /\ object.openness = "Closed" => keys \subseteq KeysAt(tree, d)
          /\ RequiredAt(tree, d) \subseteq keys
          /\ \A i \in DOMAIN object.conditionals : Conditional(i)
          /\ \A i \in DOMAIN object.dependent_required : Dependent(i)
    BY <1>1, <1>7, <1>8, ObjectErrors
  <2>2. "additionalProperties" \in DOMAIN s => (H("additionalProperties") <=> keys \subseteq KeysAt(tree, d))
    <3>1. H("additionalProperties") <=>
            keys \subseteq IF "properties" \in DOMAIN s THEN DOMAIN s["properties"] ELSE {}
      BY <1>7 DEF Holds, s, S
    <3>2. MembersAt(tree, d) = {} => KeysAt(tree, d) = {}
      BY DEF KeysAt
    <3>. HIDE DEF H, keys
    <3>. QED
      BY <1>3, <1>4, <3>1, <3>2
  <2>3. "required" \in DOMAIN s => (H("required") <=> RequiredAt(tree, d) \subseteq keys)
    <3>1. H("required") <=> s["required"] \subseteq keys
      BY <1>7 DEF Holds, s, S
    <3>. QED
      BY <1>4, <3>1
  <2>4. "dependentRequired" \in DOMAIN s =>
          (H("dependentRequired") <=> \A i \in DOMAIN object.dependent_required : Dependent(i))
    <3>1. H("dependentRequired") <=>
            \A i \in DOMAIN s["dependentRequired"] :
              s["dependentRequired"][i].key \in keys =>
                Range(s["dependentRequired"][i].also_required) \subseteq keys
      BY <1>7 DEF Holds, s, S
    <3>. QED
      BY <1>4, <3>1
  <2>5. ASSUME NEW i \in DOMAIN object.conditionals
        PROVE  (BranchAccepts(emit_if(object.conditionals[i]), y, p) =>
                  BranchAccepts(emit_then(object.conditionals[i]), y, p)) <=> Conditional(i)
    <3>. DEFINE c == object.conditionals[i]
    <3>1. c.key \in KeysAt(tree, d)
      BY <1>8 DEF check_object, check_conditional
    <3>2. ASSUME c.key \in keys PROVE IsNode(ValueAt(y, p, c.key)) /\ ~Misread(ValueAt(y, p, c.key))
      <4>. DEFINE m == MemberAt(tree, d, c.key)
                  at == <<m, Append(p, First(v, c.key))>>
      <4>1. m \in MembersAt(tree, d) /\ tree[m].key = c.key
        BY <1>8, <3>1, MemberOfKey
      <4>. HIDE DEF m, c
      <4>2. at \in Reached(tree, y) /\ IsNode(ValueAt(y, p, c.key))
        BY <3>2, <4>1, MemberReached
      <4>3. at[2] = Append(p, First(v, c.key))
        OBVIOUS
      <4>4. ValueAt(y, p, c.key) = y[at[2]]
        BY <4>3 DEF ValueAt
      <4>. HIDE DEF at
      <4>. QED
        BY <4>2, <4>4 DEF ReadAlike
    <3>. HIDE DEF c
    <3>3. BranchAccepts(emit_if(c), y, p) <=> Selected(c, y, p)
      BY <1>7, <3>2, IfSelects
    <3>4. BranchAccepts(emit_then(c), y, p) <=>
            Range(c.require) \subseteq keys /\ Range(c.forbid) \cap keys = {}
      BY <1>7, ThenHolds
    <3>. QED
      BY <3>3, <3>4 DEF c
  <2>6. "allOf" \in DOMAIN s =>
          (H("allOf") <=> \A i \in DOMAIN object.conditionals : Conditional(i))
    <3>. HAVE "allOf" \in DOMAIN s
    <3>1. H("allOf") <=>
            \A i \in DOMAIN s["allOf"] :
              BranchAccepts(s["allOf"][i].if, y, p) => BranchAccepts(s["allOf"][i].then, y, p)
      BY DEF Holds, s, S
    <3>2. /\ DOMAIN s["allOf"] = DOMAIN object.conditionals
          /\ \A i \in DOMAIN object.conditionals :
               s["allOf"][i] = [if |-> emit_if(object.conditionals[i]),
                                then |-> emit_then(object.conditionals[i])]
      BY <1>2, AllOfArguments
    <3>3. \A i \in DOMAIN object.conditionals :
            /\ s["allOf"][i].if = emit_if(object.conditionals[i])
            /\ s["allOf"][i].then = emit_then(object.conditionals[i])
      <4>. TAKE i \in DOMAIN object.conditionals
      <4>. DEFINE x == s["allOf"][i]
      <4>1. x = [if |-> emit_if(object.conditionals[i]), then |-> emit_then(object.conditionals[i])]
        BY <3>2
      <4>2. x.if = emit_if(object.conditionals[i]) /\ x.then = emit_then(object.conditionals[i])
        <5>. HIDE DEF x, object
        <5>. QED
          BY <4>1
      <4>. QED
        BY <4>2
    <3>. HIDE DEF H, Conditional, object
    <3>. QED
      BY <2>5, <3>1, <3>2, <3>3 DEF object
  <2>7. object.conditionals = <<>> => \A i \in DOMAIN object.conditionals : Conditional(i)
    OBVIOUS
  <2>8. object.dependent_required = <<>> =>
          \A i \in DOMAIN object.dependent_required : Dependent(i)
    OBVIOUS
  <2>9. H("properties")
    BY DEF Holds
  <2>10. Held(tree, d, y, p) <=> \A k \in DOMAIN s : H(k)
    BY DEF Held, s, S
  <2>. DEFINE AllConditionals == \A i \in DOMAIN object.conditionals : Conditional(i)
              AllDependents == \A i \in DOMAIN object.dependent_required : Dependent(i)
  <2>11. (\A k \in DOMAIN s : H(k)) <=>
           /\ object.openness = "Closed" => keys \subseteq KeysAt(tree, d)
           /\ RequiredAt(tree, d) \subseteq keys
           /\ AllConditionals /\ AllDependents
    <3>. HIDE DEF H, Conditional, Dependent, keys, AllConditionals, AllDependents
    <3>1. RequiredAt(tree, d) = {} => RequiredAt(tree, d) \subseteq keys
      OBVIOUS
    <3>2. AllConditionals <=> \A i \in DOMAIN object.conditionals : Conditional(i)
      BY DEF AllConditionals
    <3>3. AllDependents <=> \A i \in DOMAIN object.dependent_required : Dependent(i)
      BY DEF AllDependents
    <3>. HIDE DEF object
    <3>. QED
      BY <1>3, <1>5, <1>7, <2>2, <2>3, <2>4, <2>6, <2>7, <2>8, <2>9, <3>1, <3>2, <3>3 DEF object
  <2>. QED
    BY <2>1, <2>10, <2>11
<1>. QED
  BY <1>6, <1>7

-----------------------------------------------------------------------------
(* The whole document *)

(* Duplicate keys and deprecated ones are refused by validate(), whatever *)
(* the schema says.                                                       *)
LEMMA DoubtfulRefused ==
  ASSUME NEW tree, NEW y, NEW at \in Reached(tree, y),
         tree[at[1]].kind = "Object", y[at[2]].tag = "map", ~KeysClear(tree[at[1]].spec, y[at[2]])
  PROVE  validate(tree, y) # {}
<1>. DEFINE d == at[1]
            p == at[2]
<1>1. ErrorsAt(tree, d, y, p) = validate_object(tree, d, y, p)
  BY DEF ErrorsAt
<1>2. validate_object(tree, d, y, p) = {} =>
        Duplicates(y[p]) = {} /\ KeysIn(y[p]) \cap tree[d].spec.deprecated_keys = {}
  <2>. HIDE DEF d, p
  <2>. QED
    BY NoObjectErrors DEF d, p
<1>3. validate_object(tree, d, y, p) # {}
  BY <1>2 DEF KeysClear
<1>. QED
  BY <1>1, <1>3, NoErrorAt

(* The schema accepts just what the validator accepts. *)
LEMMA SchemaAgrees ==
  ASSUME NEW tree, IsDeclaration(tree), IsSchema(tree), NEW y, IsYaml(y), ReadAlike(tree, y),
         \A at \in Reached(tree, y) :
           tree[at[1]].kind = "Object" /\ y[at[2]].tag = "map" => KeysClear(tree[at[1]].spec, y[at[2]])
  PROVE  validate(tree, y) = {} <=> Accepts(emitted(tree), y)
<1>. DEFINE R == Reached(tree, y)
<1>1. validate(tree, y) = {} <=> \A at \in R : ErrorsAt(tree, at[1], y, at[2]) = {}
  BY DEF validate
<1>2. Accepts(emitted(tree), y) <=> \A at \in R : Held(tree, at[1], y, at[2])
  BY ReachedIsApplied DEF Accepts, Held
<1>3. ASSUME NEW at \in R, tree[at[1]].kind = "Scalar"
      PROVE  /\ ErrorsAt(tree, at[1], y, at[2]) = {} <=> validate_field(tree[at[1]].spec, y[at[2]]) = {}
             /\ Held(tree, at[1], y, at[2]) <=> validate_field(tree[at[1]].spec, y[at[2]]) = {}
  <2>1. <<at[1], at[2]>> \in R
    BY ReachedPlaces
  <2>. QED
    BY <1>3, <2>1, ScalarHeld
<1>4. ASSUME ScalarsFit(tree, y), NEW at \in R
      PROVE  ErrorsAt(tree, at[1], y, at[2]) = {} <=> Held(tree, at[1], y, at[2])
  <2>1. <<at[1], at[2]>> \in R /\ at[1] \in DOMAIN tree
    BY ReachedPlaces
  <2>2. tree[at[1]].kind \in {"Scalar", "Object", "Array"}
    BY <2>1, PartIs
  <2>3. CASE tree[at[1]].kind = "Scalar"
    BY <1>3, <2>3
  <2>4. CASE tree[at[1]].kind = "Array"
    BY <1>4, <2>1, <2>4, ArrayHeld
  <2>5. CASE tree[at[1]].kind = "Object"
    BY <2>1, <2>5, ObjectHeld
  <2>. QED
    BY <2>2, <2>3, <2>4, <2>5
<1>5. (\A at \in R : ErrorsAt(tree, at[1], y, at[2]) = {}) => ScalarsFit(tree, y)
  BY <1>3 DEF ScalarsFit
<1>6. (\A at \in R : Held(tree, at[1], y, at[2])) => ScalarsFit(tree, y)
  BY <1>3 DEF ScalarsFit
<1>. HIDE DEF R
<1>. QED
  BY <1>1, <1>2, <1>4, <1>5, <1>6

(* With the invariant, the schema and the validator agree. *)
LEMMA AgreementHolds == ConfigInv => SchemaAndValidatorAgree
<1>. SUFFICES ASSUME ConfigInv, pc = "checked" PROVE SchemaAndValidatorAgree
  BY DEF SchemaAndValidatorAgree
<1>. DEFINE R == Reached(root, doc)
            Doubtful(at) ==
              /\ root[at[1]].kind = "Object" /\ doc[at[2]].tag = "map"
              /\ \/ Duplicates(doc[at[2]]) # {}
                 \/ /\ root[at[1]].spec.openness = "Open"
                    /\ root[at[1]].spec.deprecated_keys \cap KeysIn(doc[at[2]]) # {}
<1>1. IsDeclaration(root) /\ IsSchema(root) /\ IsYaml(doc) /\ errors = validate(root, doc)
  BY DEF ConfigInv
<1>2. \A at : Doubtful(at) <=>
        root[at[1]].kind = "Object" /\ doc[at[2]].tag = "map"
          /\ ~KeysClear(root[at[1]].spec, doc[at[2]])
  BY DEF KeysClear
<1>3. (\E at \in R : Doubtful(at)) => errors # {}
  BY <1>1, <1>2, DoubtfulRefused
<1>4. ~(\E at \in R : Doubtful(at)) /\ ReadAlike(root, doc) =>
        (errors = {} <=> Accepts(emitted(root), doc))
  <2>. HAVE ~(\E at \in R : Doubtful(at)) /\ ReadAlike(root, doc)
  <2>1. \A at \in R :
          root[at[1]].kind = "Object" /\ doc[at[2]].tag = "map" => KeysClear(root[at[1]].spec, doc[at[2]])
    <3>. HIDE DEF Doubtful
    <3>. QED
      BY <1>2
  <2>. QED
    BY <1>1, <2>1, SchemaAgrees
<1>5. SchemaAndValidatorAgree <=>
        IF \E at \in R : Doubtful(at) THEN errors # {}
        ELSE ReadAlike(root, doc) => (errors = {} <=> Accepts(emitted(root), doc))
  BY DEF SchemaAndValidatorAgree, ReadAlike
<1>. HIDE DEF Doubtful, R
<1>. QED
  BY <1>3, <1>4, <1>5

-----------------------------------------------------------------------------
(* The properties *)

(* What is declared has been checked by Schema, and what is checked has been *)
(* validated.                                                                *)
LEMMA ConfigInvariant == Spec => []ConfigInv
BY ConfigInitial, ConfigStep, PTL DEF Spec

(* An accepted document accepts the values that the declaration itself names, *)
(* and its unique fields are compared.                                        *)
THEOREM DeclarationPromises == Spec => []DeclarationsKeepPromises
BY ConfigInvariant, PromisesHold, PTL

(* What validate() accepted can be extracted, and is what the document says. *)
THEOREM ExtractionSucceeds == Spec => []ExtractionCannotFail
BY ConfigInvariant, ExtractionHolds, PTL

(* The emitted schema and validate() accept the same documents. *)
THEOREM SchemaAgreement == Spec => []SchemaAndValidatorAgree
BY ConfigInvariant, AgreementHolds, PTL

=============================================================================
