-------------------------- MODULE ProviderMain_proofs --------------------------
(***************************************************************************)
(* What a provider prints reads back as what it was given, whatever the    *)
(* declared texts and the bytes of the host are.                           *)
(*                                                                         *)
(* The proof goes from the inside out: which bytes are UTF-8, and that the *)
(* two checks of it agree with Unicode; one escape and what a reader makes *)
(* of it; a string literal; lists, objects and arrays, by the depth of     *)
(* their brackets; the two documents; what main prints.                    *)
(***************************************************************************)
EXTENDS ProviderMain, ConfigValidate_proofs

-----------------------------------------------------------------------------
(* Loops over the bytes of a text *)

(* A loop over n places that only goes on, and not beyond the place after   *)
(* the last.                                                                *)
Forward(step, n) ==
  step \in [1..(n + 1) -> Nat] /\ \A i \in 1..(n + 1) : i + step[i] <= n + 1

(* Such a loop has one place to stop at from every place. *)
LEMMA StopExists ==
  ASSUME NEW n \in Nat, NEW step, Forward(step, n)
  PROVE  \E f : f = [i \in 1..(n + 1) |-> IF step[i] = 0 THEN i ELSE f[i + step[i]]]
<1>. DEFINE Body(f, i) == IF step[i] = 0 THEN i ELSE f[i + step[i]]
            Good(k, f) == f = [i \in k..(n + 1) |-> Body(f, i)]
            S == {m \in Nat : m <= n => \E f : Good(n + 1 - m, f)}
<1>0. step \in [1..(n + 1) -> Nat] /\ \A i \in 1..(n + 1) : i + step[i] <= n + 1
  BY DEF Forward
<1>1. 0 \in S
  <2>. DEFINE f == [i \in (n + 1)..(n + 1) |-> i]
  <2>1. \A i \in (n + 1)..(n + 1) : i \in 1..(n + 1) /\ i = n + 1 /\ step[i] = 0
    BY <1>0
  <2>2. Good(n + 1, f)
    BY <2>1
  <2>. QED
    BY <2>2
<1>2. ASSUME NEW m \in Nat, m \in S PROVE m + 1 \in S
  <2>. SUFFICES ASSUME m + 1 <= n PROVE \E g : Good(n + 1 - (m + 1), g)
    OBVIOUS
  <2>. DEFINE k == n + 1 - m
  <2>1. PICK f : Good(k, f)
    BY <1>2
  <2>2. k \in 2..(n + 1) /\ n + 1 - (m + 1) = k - 1
    OBVIOUS
  <2>. DEFINE g == [i \in (k - 1)..(n + 1) |-> IF i = k - 1 THEN Body(f, i) ELSE f[i]]
  <2>. HIDE DEF k
  <2>3. ASSUME NEW i \in (k - 1)..(n + 1) PROVE g[i] = Body(g, i)
    <3>1. i \in 1..(n + 1) /\ step[i] \in Nat /\ i + step[i] <= n + 1
      BY <2>2, <1>0
    <3>2. step[i] # 0 => i + step[i] \in k..(n + 1) /\ g[i + step[i]] = f[i + step[i]]
      BY <2>2, <3>1
    <3>3. i # k - 1 => i \in k..(n + 1) /\ f[i] = Body(f, i) /\ g[i] = f[i]
      BY <2>1, <2>2
    <3>. QED
      BY <3>1, <3>2, <3>3
  <2>4. Good(k - 1, g)
    BY <2>3
  <2>. QED
    BY <2>2, <2>4
<1>. HIDE DEF S
<1>3. \A m \in Nat : m \in S
  BY <1>1, <1>2, NatSetInduction
<1>. QED
  <2>1. n \in S
    BY <1>3
  <2>2. n + 1 - n = 1
    OBVIOUS
  <2>. QED
    BY <2>1, <2>2 DEF S

Glued(a, b) == a \o b
(* What the loop puts together, written so that the provers keep the step   *)
(* in one piece.                                                            *)
IsJoined(f, n, step, piece) ==
  f = [i \in 1..(n + 1) |-> IF step[i] = 0 THEN <<>> ELSE Glued(piece[i], f[i + step[i]])]

(* Such a loop puts one sequence together from every place. *)
LEMMA JoinedExists ==
  ASSUME NEW n \in Nat, NEW step, NEW piece, Forward(step, n)
  PROVE  \E f : IsJoined(f, n, step, piece)
<1>. DEFINE Body(f, i) == IF step[i] = 0 THEN <<>> ELSE Glued(piece[i], f[i + step[i]])
            Good(k, f) == f = [i \in k..(n + 1) |-> Body(f, i)]
            S == {m \in Nat : m <= n => \E f : Good(n + 1 - m, f)}
<1>0. step \in [1..(n + 1) -> Nat] /\ \A i \in 1..(n + 1) : i + step[i] <= n + 1
  BY DEF Forward
<1>1. 0 \in S
  <2>. DEFINE f == [i \in (n + 1)..(n + 1) |-> <<>>]
  <2>1. \A i \in (n + 1)..(n + 1) : i \in 1..(n + 1) /\ i = n + 1 /\ step[i] = 0
    BY <1>0
  <2>2. Good(n + 1, f)
    BY <2>1
  <2>. QED
    BY <2>2
<1>2. ASSUME NEW m \in Nat, m \in S PROVE m + 1 \in S
  <2>. SUFFICES ASSUME m + 1 <= n PROVE \E g : Good(n + 1 - (m + 1), g)
    OBVIOUS
  <2>. DEFINE k == n + 1 - m
  <2>1. PICK f : Good(k, f)
    BY <1>2
  <2>2. k \in 2..(n + 1) /\ n + 1 - (m + 1) = k - 1
    OBVIOUS
  <2>. DEFINE g == [i \in (k - 1)..(n + 1) |-> IF i = k - 1 THEN Body(f, i) ELSE f[i]]
  <2>. HIDE DEF k
  <2>3. ASSUME NEW i \in (k - 1)..(n + 1) PROVE g[i] = Body(g, i)
    <3>1. i \in 1..(n + 1) /\ step[i] \in Nat /\ i + step[i] <= n + 1
      BY <2>2, <1>0
    <3>2. step[i] # 0 => i + step[i] \in k..(n + 1) /\ g[i + step[i]] = f[i + step[i]]
      BY <2>2, <3>1
    <3>3. i # k - 1 => i \in k..(n + 1) /\ f[i] = Body(f, i) /\ g[i] = f[i]
      BY <2>1, <2>2
    <3>. QED
      BY <3>1, <3>2, <3>3
  <2>4. Good(k - 1, g)
    BY <2>3
  <2>. QED
    BY <2>2, <2>4
<1>. HIDE DEF S
<1>3. \A m \in Nat : m \in S
  BY <1>1, <1>2, NatSetInduction
<1>. QED
  <2>1. n \in S
    BY <1>3
  <2>2. n + 1 - n = 1
    OBVIOUS
  <2>. QED
    BY <2>1, <2>2 DEF S, IsJoined


(* What holds where the loop stops, and at a place when it holds at the     *)
(* next, holds everywhere.                                                  *)
LEMMA WalkInduction ==
  ASSUME NEW n \in Nat, NEW step, Forward(step, n), NEW T,
         \A i \in 1..(n + 1) : step[i] = 0 => i \in T,
         \A i \in 1..(n + 1) : step[i] # 0 /\ i + step[i] \in T => i \in T
  PROVE  \A i \in 1..(n + 1) : i \in T
<1>. DEFINE S == {m \in Nat : \A i \in 1..(n + 1) : n + 1 - i <= m => i \in T}
<1>0. step \in [1..(n + 1) -> Nat] /\ \A i \in 1..(n + 1) : i + step[i] <= n + 1
  BY DEF Forward
<1>1. 0 \in S
  <2>. SUFFICES ASSUME NEW i \in 1..(n + 1), n + 1 - i <= 0 PROVE i \in T
    OBVIOUS
  <2>1. i = n + 1 /\ step[i] = 0
    BY <1>0
  <2>. QED
    BY <2>1
<1>2. ASSUME NEW m \in Nat, m \in S PROVE m + 1 \in S
  <2>. SUFFICES ASSUME NEW i \in 1..(n + 1), n + 1 - i <= m + 1 PROVE i \in T
    OBVIOUS
  <2>1. CASE step[i] = 0
    BY <2>1
  <2>2. CASE step[i] # 0
    <3>1. i + step[i] \in 1..(n + 1) /\ n + 1 - (i + step[i]) <= m
      BY <1>0, <2>2, SMTT(40)
    <3>2. i + step[i] \in T
      BY <1>2, <3>1
    <3>. QED
      BY <2>2, <3>2
  <2>. QED
    BY <2>1, <2>2
<1>. HIDE DEF S
<1>3. \A m \in Nat : m \in S
  BY <1>1, <1>2, NatSetInduction
<1>4. n \in S
  BY <1>3
<1>. QED
  BY <1>4 DEF S

(* Stop goes on to where no step is left, within the places. *)
LEMMA StopIs ==
  ASSUME NEW n \in Nat, NEW step, Forward(step, n)
  PROVE  \A i \in 1..(n + 1) :
           /\ Stop(step)[i] = IF step[i] = 0 THEN i ELSE Stop(step)[i + step[i]]
           /\ Stop(step)[i] \in i..(n + 1) /\ step[Stop(step)[i]] = 0
<1>0. step \in [1..(n + 1) -> Nat] /\ \A i \in 1..(n + 1) : i + step[i] <= n + 1
  BY DEF Forward
<1>1. \E f : f = [i \in 1..(n + 1) |-> IF step[i] = 0 THEN i ELSE f[i + step[i]]]
  BY StopExists
<1>. DEFINE g == CHOOSE f : f = [i \in 1..(n + 1) |-> IF step[i] = 0 THEN i ELSE f[i + step[i]]]
<1>2. Stop(step) = g
  BY <1>0 DEF Stop
<1>3. g = [i \in 1..(n + 1) |-> IF step[i] = 0 THEN i ELSE g[i + step[i]]]
  BY <1>1
<1>. HIDE DEF g
<1>4. \A i \in 1..(n + 1) : g[i] = IF step[i] = 0 THEN i ELSE g[i + step[i]]
  BY <1>3
<1>. DEFINE T == {i \in 1..(n + 1) : g[i] \in i..(n + 1) /\ step[g[i]] = 0}
<1>5. \A i \in 1..(n + 1) : step[i] = 0 => i \in T
  BY <1>4
<1>6. ASSUME NEW i \in 1..(n + 1), step[i] # 0, i + step[i] \in T PROVE i \in T
  <2>1. g[i] = g[i + step[i]] /\ step[i] \in Nat
    BY <1>0, <1>4, <1>6
  <2>. QED
    BY <1>6, <2>1
<1>. HIDE DEF T
<1>7. \A i \in 1..(n + 1) : i \in T
  BY <1>5, <1>6, WalkInduction
<1>. QED
  BY <1>2, <1>4, <1>7 DEF T

(* Joined is its piece and what is joined from the next place. *)
LEMMA JoinedIs ==
  ASSUME NEW n \in Nat, NEW step, NEW V, NEW piece \in [1..(n + 1) -> Seq(V)], Forward(step, n)
  PROVE  \A i \in 1..(n + 1) :
           /\ Joined(step, piece)[i] =
                IF step[i] = 0 THEN <<>> ELSE piece[i] \o Joined(step, piece)[i + step[i]]
           /\ Joined(step, piece)[i] \in Seq(V)
<1>0. step \in [1..(n + 1) -> Nat] /\ \A i \in 1..(n + 1) : i + step[i] <= n + 1
  BY DEF Forward
<1>1. \E f : IsJoined(f, n, step, piece)
  BY JoinedExists
<1>. DEFINE g == CHOOSE f : IsJoined(f, n, step, piece)
<1>2. Joined(step, piece) = g
  BY <1>0 DEF Joined, Glued, IsJoined
<1>3. g = [i \in 1..(n + 1) |-> IF step[i] = 0 THEN <<>> ELSE Glued(piece[i], g[i + step[i]])]
  BY <1>1 DEF IsJoined
<1>. HIDE DEF g
<1>4. \A i \in 1..(n + 1) : g[i] = IF step[i] = 0 THEN <<>> ELSE Glued(piece[i], g[i + step[i]])
  BY <1>3
<1>. DEFINE T == {i \in 1..(n + 1) : g[i] \in Seq(V)}
<1>5. \A i \in 1..(n + 1) : step[i] = 0 => i \in T
  BY <1>4, EmptySeq
<1>6. ASSUME NEW i \in 1..(n + 1), step[i] # 0, i + step[i] \in T PROVE i \in T
  <2>1. g[i] = piece[i] \o g[i + step[i]]
    BY <1>4, <1>6 DEF Glued
  <2>2. piece[i] \in Seq(V) /\ g[i + step[i]] \in Seq(V)
    BY <1>6
  <2>. HIDE DEF g
  <2>3. g[i] \in Seq(V)
    BY <2>1, <2>2, ConcatProperties
  <2>. QED
    BY <2>3
<1>. HIDE DEF T
<1>7. \A i \in 1..(n + 1) : i \in T
  BY <1>5, <1>6, WalkInduction
<1>. QED
  BY <1>2, <1>4, <1>7 DEF T, Glued

-----------------------------------------------------------------------------
(* Code points and their bytes *)

(* Quotient and remainder are the only ones. *)
LEMMA Parts ==
  ASSUME NEW k \in Nat, k > 0, NEW q \in Int, NEW r \in Int, 0 <= r, r < k, NEW g, g = k * q + r
  PROVE  g \in Int /\ g \div k = q /\ g % k = r
BY SMT

(* The second bytes by the first, in numbers. *)
LEMMA SecondBytesIs ==
  ASSUME NEW a \in Nat, NEW b \in Nat
  PROVE  b \in SecondBytes(a) <=>
           /\ 128 <= b /\ b <= 191
           /\ (a = 224 => b >= 160) /\ (a = 237 => b <= 159)
           /\ (a = 240 => b >= 144) /\ (a = 244 => b <= 143)
<1>1. a = 224 => SecondBytes(a) = 160..191
  BY SMT DEF SecondBytes
<1>2. a = 237 => SecondBytes(a) = 128..159
  BY SMT DEF SecondBytes
<1>3. a = 240 => SecondBytes(a) = 144..191
  BY SMT DEF SecondBytes
<1>4. a = 244 => SecondBytes(a) = 128..143
  BY SMT DEF SecondBytes
<1>5. a # 224 /\ a # 237 /\ a # 240 /\ a # 244 => SecondBytes(a) = 128..191
  BY SMT DEF SecondBytes
<1>. QED
  BY <1>1, <1>2, <1>3, <1>4, <1>5, SMT

(* The parts of a number of two, three and four groups of six bits. *)
LEMMA FourParts ==
  ASSUME NEW p \in Int, NEW x \in Int, NEW y \in Int, NEW z \in Int, NEW g \in Int,
         0 <= x, x <= 63, 0 <= y, y <= 63, 0 <= z, z <= 63,
         g = 262144 * p + 4096 * x + 64 * y + z
  PROVE  /\ p = g \div 262144 /\ x = (g \div 4096) % 64
         /\ y = (g \div 64) % 64 /\ z = g % 64
BY SMT

(* The same of three groups. *)
LEMMA ThreeParts ==
  ASSUME NEW p \in Int, NEW x \in Int, NEW y \in Int, NEW g \in Int,
         0 <= x, x <= 63, 0 <= y, y <= 63, g = 4096 * p + 64 * x + y
  PROVE  p = g \div 4096 /\ x = (g \div 64) % 64 /\ y = g % 64
BY SMT

(* The same of two. *)
LEMMA TwoParts ==
  ASSUME NEW p \in Int, NEW x \in Int, NEW g \in Int, 0 <= x, x <= 63, g = 64 * p + x
  PROVE  p = g \div 64 /\ x = g % 64
BY SMT

(* How long an encoding is goes by the range of the code point. *)
LEMMA EncodedIs ==
  ASSUME NEW g \in Int
  PROVE  /\ g < 128 => Encoded(g) = <<g>>
         /\ 128 <= g /\ g < 2048 => Encoded(g) = TwoBytes(g)
         /\ 2048 <= g /\ g < 65536 => Encoded(g) = ThreeBytes(g)
         /\ 65536 <= g => Encoded(g) = FourBytes(g)
BY SMT DEF Encoded

(* A byte that follows holds six bits. *)
LEMMA SixBits ==
  ASSUME NEW g \in Int
  PROVE  /\ TailByte(g) = 128 + (g % 64) /\ 128 <= TailByte(g) /\ TailByte(g) <= 191
         /\ g \div 64 \in Int /\ g \div 4096 \in Int /\ g \div 262144 \in Int
BY SMT DEF TailByte

(* Code points by the length of their encoding, first bytes by that length, *)
(* and the code that the bytes of a character stand for.                    *)
IsTwo(g) == 128 <= g /\ g < 2048
IsThree(g) == 2048 <= g /\ g < 65536
IsFour(g) == 65536 <= g

Follows(b) == 128 <= b /\ b <= 191
LeadsTwo(a) == 194 <= a /\ a <= 223
LeadsThree(a, b) ==
  224 <= a /\ a <= 239 /\ (a = 224 => b >= 160) /\ (a = 237 => b <= 159)
LeadsFour(a, b) ==
  240 <= a /\ a <= 244 /\ (a = 240 => b >= 144) /\ (a = 244 => b <= 143)
CodeTwo(a, b) == 64 * (a - 192) + (b - 128)
CodeThree(a, b, c) == 4096 * (a - 224) + 64 * (b - 128) + (c - 128)
CodeFour(a, b, c, d) ==
  262144 * (a - 240) + 4096 * (b - 128) + 64 * (c - 128) + (d - 128)
NoSurrogate(g) == g < 55296 \/ g > 57343

(* The code of two bytes, and its bytes. *)
LEMMA TwoDecode ==
  ASSUME NEW a \in Nat, NEW b \in Nat, NEW g \in Int, g = CodeTwo(a, b)
  PROVE  /\ Follows(b) => <<a, b>> = TwoBytes(g)
         /\ Follows(b) => (IsTwo(g) <=> LeadsTwo(a))
         /\ <<a, b>> = TwoBytes(g) => Follows(b)
<1>0. g = 64 * (a - 192) + (b - 128)
  BY SMT DEF CodeTwo
<1>1. ASSUME Follows(b) PROVE a = 192 + g \div 64 /\ b = TailByte(g)
  <2>0. 128 <= b /\ b <= 191
    BY <1>1, SMT DEF Follows
  <2>1. a - 192 = g \div 64 /\ b - 128 = g % 64
    BY <1>0, <2>0, TwoParts, SMT
  <2>. QED
    BY <2>1, SMT DEF TailByte
<1>2. Follows(b) => (IsTwo(g) <=> LeadsTwo(a))
  BY <1>0, SMT DEF Follows, IsTwo, LeadsTwo
<1>3. <<a, b>> = TwoBytes(g) => Follows(b)
  BY SixBits, SMT DEF TwoBytes, Follows
<1>4. Follows(b) => <<a, b>> = TwoBytes(g)
  BY <1>1, SMT DEF TwoBytes
<1>. QED
  BY <1>2, <1>3, <1>4

(* The code of three bytes, and its bytes: a surrogate has no first and     *)
(* second byte.                                                             *)
LEMMA ThreeDecode ==
  ASSUME NEW a \in Nat, NEW b \in Nat, NEW c \in Nat, NEW g \in Int, g = CodeThree(a, b, c)
  PROVE  /\ Follows(b) /\ Follows(c) => <<a, b, c>> = ThreeBytes(g)
         /\ Follows(b) /\ Follows(c) => (IsThree(g) /\ NoSurrogate(g) <=> LeadsThree(a, b))
         /\ <<a, b, c>> = ThreeBytes(g) => Follows(b) /\ Follows(c)
<1>0. g = 4096 * (a - 224) + 64 * (b - 128) + (c - 128)
  BY SMT DEF CodeThree
<1>1. ASSUME Follows(b), Follows(c)
      PROVE  a = 224 + g \div 4096 /\ b = TailByte(g \div 64) /\ c = TailByte(g)
  <2>0. 128 <= b /\ b <= 191 /\ 128 <= c /\ c <= 191
    BY <1>1, SMT DEF Follows
  <2>1. a - 224 = g \div 4096 /\ b - 128 = (g \div 64) % 64 /\ c - 128 = g % 64
    BY <1>0, <2>0, ThreeParts, SMT
  <2>. QED
    BY <2>1, SMT DEF TailByte
<1>2. Follows(b) /\ Follows(c) => (IsThree(g) /\ NoSurrogate(g) <=> LeadsThree(a, b))
  BY <1>0, SMT DEF Follows, IsThree, NoSurrogate, LeadsThree
<1>3. <<a, b, c>> = ThreeBytes(g) => Follows(b) /\ Follows(c)
  BY SixBits, SMT DEF ThreeBytes, Follows
<1>4. Follows(b) /\ Follows(c) => <<a, b, c>> = ThreeBytes(g)
  BY <1>1, SMT DEF ThreeBytes
<1>. QED
  BY <1>2, <1>3, <1>4

(* The code of four bytes, and its bytes: beyond 10FFFF there is no first   *)
(* byte.                                                                    *)
LEMMA FourDecode ==
  ASSUME NEW a \in Nat, NEW b \in Nat, NEW c \in Nat, NEW d \in Nat, NEW g \in Int,
         g = CodeFour(a, b, c, d)
  PROVE  /\ Follows(b) /\ Follows(c) /\ Follows(d) => <<a, b, c, d>> = FourBytes(g)
         /\ Follows(b) /\ Follows(c) /\ Follows(d) =>
              (IsFour(g) /\ IsScalarValue(g) <=> LeadsFour(a, b))
         /\ <<a, b, c, d>> = FourBytes(g) => Follows(b) /\ Follows(c) /\ Follows(d)
<1>0. g = 262144 * (a - 240) + 4096 * (b - 128) + 64 * (c - 128) + (d - 128)
  BY SMT DEF CodeFour
<1>1. ASSUME Follows(b), Follows(c), Follows(d)
      PROVE  a = 240 + g \div 262144 /\ b = TailByte(g \div 4096) /\ c = TailByte(g \div 64) /\ d = TailByte(g)
  <2>0. 128 <= b /\ b <= 191 /\ 128 <= c /\ c <= 191 /\ 128 <= d /\ d <= 191
    BY <1>1, SMT DEF Follows
  <2>1. /\ a - 240 = g \div 262144 /\ b - 128 = (g \div 4096) % 64
        /\ c - 128 = (g \div 64) % 64 /\ d - 128 = g % 64
    BY <1>0, <2>0, FourParts, SMT
  <2>. QED
    BY <2>1, SMT DEF TailByte
<1>2. Follows(b) /\ Follows(c) /\ Follows(d) =>
        (IsFour(g) /\ IsScalarValue(g) <=> LeadsFour(a, b))
  BY <1>0, SMT DEF Follows, IsFour, IsScalarValue, LeadsFour
<1>3. <<a, b, c, d>> = FourBytes(g) => Follows(b) /\ Follows(c) /\ Follows(d)
  <2>1. g \div 64 \in Int /\ g \div 4096 \in Int
    BY SixBits, SMT
  <2>2. /\ 128 <= TailByte(g) /\ TailByte(g) <= 191
        /\ 128 <= TailByte(g \div 64) /\ TailByte(g \div 64) <= 191
        /\ 128 <= TailByte(g \div 4096) /\ TailByte(g \div 4096) <= 191
    BY ONLY <2>1, g \in Int, SixBits, SMT
  <2>. DEFINE x == 240 + g \div 262144
              y == TailByte(g \div 4096)
              z == TailByte(g \div 64)
              w == TailByte(g)
  <2>3. FourBytes(g) = <<x, y, z, w>>
    BY SMT DEF FourBytes
  <2>. HIDE DEF x, y, z, w
  <2>4. <<a, b, c, d>> = <<x, y, z, w>> => b = y /\ c = z /\ d = w
    BY ONLY SMT
  <2>. QED
    BY <2>2, <2>3, <2>4, SMT DEF y, z, w, Follows
<1>4. Follows(b) /\ Follows(c) /\ Follows(d) => <<a, b, c, d>> = FourBytes(g)
  BY <1>1, SMT DEF FourBytes
<1>. QED
  BY <1>2, <1>3, <1>4

(* Tuples of different lengths differ. *)
LEMMA TupleLengths ==
  ASSUME NEW a, NEW b, NEW c, NEW d, NEW e, NEW f, NEW g, NEW h
  PROVE  /\ <<a>> # <<b, c>> /\ <<a>> # <<b, c, d>> /\ <<a>> # <<b, c, d, e>>
         /\ <<a, b>> # <<c, d, e>> /\ <<a, b>> # <<c, d, e, f>>
         /\ <<a, b, c>> # <<d, e, f, g>>
BY SMT

(* What is encoded in two bytes. *)
LEMMA EncodedTwo ==
  ASSUME NEW g \in Int, NEW a, NEW b
  PROVE  Encoded(g) = <<a, b>> <=> IsTwo(g) /\ <<a, b>> = TwoBytes(g)
<1>1. <<g>> # <<a, b>> /\ ThreeBytes(g) # <<a, b>> /\ FourBytes(g) # <<a, b>>
  BY TupleLengths, SMT DEF ThreeBytes, FourBytes
<1>. QED
  BY <1>1, EncodedIs, SMT DEF IsTwo

(* What is encoded in three bytes. *)
LEMMA EncodedThree ==
  ASSUME NEW g \in Int, NEW a, NEW b, NEW c
  PROVE  Encoded(g) = <<a, b, c>> <=> IsThree(g) /\ <<a, b, c>> = ThreeBytes(g)
<1>1. <<g>> # <<a, b, c>> /\ TwoBytes(g) # <<a, b, c>> /\ FourBytes(g) # <<a, b, c>>
  BY TupleLengths, SMT DEF TwoBytes, FourBytes
<1>. QED
  BY <1>1, EncodedIs, SMT DEF IsThree

(* What is encoded in four bytes. *)
LEMMA EncodedFour ==
  ASSUME NEW g \in Int, NEW a, NEW b, NEW c, NEW d
  PROVE  Encoded(g) = <<a, b, c, d>> <=> IsFour(g) /\ <<a, b, c, d>> = FourBytes(g)
<1>1. <<g>> # <<a, b, c, d>> /\ TwoBytes(g) # <<a, b, c, d>> /\ ThreeBytes(g) # <<a, b, c, d>>
  BY TupleLengths, SMT DEF TwoBytes, ThreeBytes
<1>. QED
  BY <1>1, EncodedIs, SMT DEF IsFour

(* The first bytes of a piece, one by one. *)
LEMMA Pieces ==
  ASSUME NEW s \in Seq(Nat), NEW i \in 1..Len(s)
  PROVE  /\ i + 1 <= Len(s) => SubSeq(s, i, i + 1) = <<s[i], s[i + 1]>>
         /\ i + 2 <= Len(s) => SubSeq(s, i, i + 2) = <<s[i], s[i + 1], s[i + 2]>>
         /\ i + 3 <= Len(s) => SubSeq(s, i, i + 3) = <<s[i], s[i + 1], s[i + 2], s[i + 3]>>
         /\ SubSeq(s, i, i) = <<s[i]>>
<1>1. ASSUME NEW n \in 0..3, i + n <= Len(s)
      PROVE  /\ SubSeq(s, i, i + n) \in Seq(Nat) /\ Len(SubSeq(s, i, i + n)) = n + 1
             /\ \A k \in 1..(n + 1) : SubSeq(s, i, i + n)[k] = s[i + k - 1]
  <2>1. \A k \in i..(i + n) : s[k] \in Nat
    BY <1>1
  <2>2. i \in Int /\ i + n \in Int /\ i <= i + n /\ (i + n) - i + 1 = n + 1
    OBVIOUS
  <2>. QED
    BY <2>1, <2>2, SubSeqProperties, SMTT(40)
<1>2. ASSUME NEW t \in Seq(Nat), NEW u \in Seq(Nat), Len(t) = Len(u),
             \A k \in 1..Len(t) : t[k] = u[k]
      PROVE  t = u
  BY <1>2, SeqEqual
<1>3. SubSeq(s, i, i) = <<s[i]>>
  <2>. DEFINE t == <<s[i]>>
              u == SubSeq(s, i, i)
  <2>1. t \in Seq(Nat) /\ Len(t) = 1 /\ t[1] = s[i]
    OBVIOUS
  <2>2. u \in Seq(Nat) /\ Len(u) = 1 /\ u[1] = s[i]
    <3>1. i + 0 = i /\ 0 \in 0..3 /\ i <= Len(s)
      OBVIOUS
    <3>2. SubSeq(s, i, i + 0) = SubSeq(s, i, i)
      BY <3>1
    <3>3. /\ SubSeq(s, i, i + 0) \in Seq(Nat) /\ Len(SubSeq(s, i, i + 0)) = 0 + 1
          /\ \A k \in 1..(0 + 1) : SubSeq(s, i, i + 0)[k] = s[i + k - 1]
      BY <1>1, <3>1
    <3>4. u \in Seq(Nat) /\ Len(u) = 0 + 1 /\ \A k \in 1..(0 + 1) : u[k] = s[i + k - 1]
      BY <3>2, <3>3
    <3>. HIDE DEF u
    <3>. QED
      BY <3>4
  <2>. HIDE DEF t, u
  <2>3. \A k \in 1..Len(t) : t[k] = u[k]
    BY <2>1, <2>2
  <2>4. t = u
    BY <1>2, <2>1, <2>2, <2>3
  <2>. QED
    BY <2>4 DEF t, u
<1>4. ASSUME i + 1 <= Len(s) PROVE SubSeq(s, i, i + 1) = <<s[i], s[i + 1]>>
  <2>. DEFINE t == <<s[i], s[i + 1]>>
              u == SubSeq(s, i, i + 1)
  <2>1. t \in Seq(Nat) /\ Len(t) = 2 /\ t[1] = s[i] /\ t[2] = s[i + 1]
    BY <1>4
  <2>2. u \in Seq(Nat) /\ Len(u) = 2 /\ u[1] = s[i] /\ u[2] = s[i + 1]
    BY <1>1, <1>4
  <2>. HIDE DEF t, u
  <2>3. \A k \in 1..Len(t) : t[k] = u[k]
    BY <2>1, <2>2
  <2>4. t = u
    BY <1>2, <2>1, <2>2, <2>3
  <2>. QED
    BY <2>4 DEF t, u
<1>5. ASSUME i + 2 <= Len(s) PROVE SubSeq(s, i, i + 2) = <<s[i], s[i + 1], s[i + 2]>>
  <2>. DEFINE t == <<s[i], s[i + 1], s[i + 2]>>
              u == SubSeq(s, i, i + 2)
  <2>1. t \in Seq(Nat) /\ Len(t) = 3 /\ t[1] = s[i] /\ t[2] = s[i + 1] /\ t[3] = s[i + 2]
    BY <1>5
  <2>2. u \in Seq(Nat) /\ Len(u) = 3 /\ u[1] = s[i] /\ u[2] = s[i + 1] /\ u[3] = s[i + 2]
    BY <1>1, <1>5
  <2>. HIDE DEF t, u
  <2>3. \A k \in 1..Len(t) : t[k] = u[k]
    BY <2>1, <2>2, SMTT(40)
  <2>4. t = u
    BY <1>2, <2>1, <2>2, <2>3
  <2>. QED
    BY <2>4 DEF t, u
<1>6. ASSUME i + 3 <= Len(s) PROVE SubSeq(s, i, i + 3) = <<s[i], s[i + 1], s[i + 2], s[i + 3]>>
  <2>. DEFINE t == <<s[i], s[i + 1], s[i + 2], s[i + 3]>>
              u == SubSeq(s, i, i + 3)
  <2>1. /\ t \in Seq(Nat) /\ Len(t) = 4
        /\ t[1] = s[i] /\ t[2] = s[i + 1] /\ t[3] = s[i + 2] /\ t[4] = s[i + 3]
    BY <1>6, SMTT(40)
  <2>2. /\ u \in Seq(Nat) /\ Len(u) = 4
        /\ u[1] = s[i] /\ u[2] = s[i + 1] /\ u[3] = s[i + 2] /\ u[4] = s[i + 3]
    BY <1>1, <1>6
  <2>. HIDE DEF t, u
  <2>3. \A k \in 1..Len(t) : t[k] = u[k]
    <3>1. \A k \in 1..4 : k = 1 \/ k = 2 \/ k = 3 \/ k = 4
      OBVIOUS
    <3>. QED
      BY <2>1, <2>2, <3>1
  <2>4. t = u
    BY <1>2, <2>1, <2>2, <2>3
  <2>. QED
    BY <2>4 DEF t, u
<1>. QED
  BY <1>3, <1>4, <1>5, <1>6

(* Two bytes are a character exactly if the first leads two and the second  *)
(* follows.                                                                 *)
LEMMA TwoMean ==
  ASSUME NEW a \in Nat, NEW b \in Nat
  PROVE  IsScalarValue(CodeTwo(a, b)) /\ Encoded(CodeTwo(a, b)) = <<a, b>> <=>
           LeadsTwo(a) /\ Follows(b)
<1>. DEFINE g == CodeTwo(a, b)
<1>1. g \in Int
  BY SMT DEF CodeTwo
<1>. HIDE DEF g
<1>2. g = CodeTwo(a, b)
  BY DEF g
<1>3. Encoded(g) = <<a, b>> <=> IsTwo(g) /\ <<a, b>> = TwoBytes(g)
  BY <1>1, EncodedTwo
<1>4. IsTwo(g) => IsScalarValue(g)
  BY <1>1, SMT DEF IsScalarValue, IsTwo
<1>. QED
  BY <1>1, <1>2, <1>3, <1>4, TwoDecode

(* Three bytes are a character exactly if the first two lead three and the  *)
(* others follow.                                                           *)
LEMMA ThreeMean ==
  ASSUME NEW a \in Nat, NEW b \in Nat, NEW c \in Nat
  PROVE  IsScalarValue(CodeThree(a, b, c)) /\ Encoded(CodeThree(a, b, c)) = <<a, b, c>> <=>
           LeadsThree(a, b) /\ Follows(b) /\ Follows(c)
<1>. DEFINE g == CodeThree(a, b, c)
<1>1. g \in Int
  BY SMT DEF CodeThree
<1>. HIDE DEF g
<1>2. g = CodeThree(a, b, c)
  BY DEF g
<1>3. Encoded(g) = <<a, b, c>> <=> IsThree(g) /\ <<a, b, c>> = ThreeBytes(g)
  BY <1>1, EncodedThree
<1>4. IsThree(g) => (IsScalarValue(g) <=> NoSurrogate(g))
  BY <1>1, SMT DEF IsScalarValue, IsThree, NoSurrogate
<1>. QED
  BY <1>1, <1>2, <1>3, <1>4, ThreeDecode

(* Four bytes are a character exactly if the first two lead four and the    *)
(* others follow.                                                           *)
LEMMA FourMean ==
  ASSUME NEW a \in Nat, NEW b \in Nat, NEW c \in Nat, NEW d \in Nat
  PROVE  IsScalarValue(CodeFour(a, b, c, d)) /\ Encoded(CodeFour(a, b, c, d)) = <<a, b, c, d>> <=>
           LeadsFour(a, b) /\ Follows(b) /\ Follows(c) /\ Follows(d)
<1>. DEFINE g == CodeFour(a, b, c, d)
<1>1. g \in Int
  BY SMT DEF CodeFour
<1>. HIDE DEF g
<1>2. g = CodeFour(a, b, c, d)
  BY DEF g
<1>3. Encoded(g) = <<a, b, c, d>> <=> IsFour(g) /\ <<a, b, c, d>> = FourBytes(g)
  BY <1>1, EncodedFour
<1>. QED
  BY <1>1, <1>2, <1>3, FourDecode, SMTT(40)

(* How many bytes are a character, and which. *)
LEMMA CharTwo ==
  ASSUME NEW s \in Seq(Nat), NEW i \in 1..Len(s)
  PROVE  IsChar(s, i, 2) <=> i + 1 <= Len(s) /\ LeadsTwo(s[i]) /\ Follows(s[i + 1])
<1>1. CASE i + 1 <= Len(s)
  <2>1. s[i] \in Nat /\ s[i + 1] \in Nat
    BY <1>1
  <2>2. Guess(s, i, 2) = CodeTwo(s[i], s[i + 1])
    BY SMT DEF Guess, CodeTwo
  <2>3. i + 2 - 1 = i + 1
    OBVIOUS
  <2>4. SubSeq(s, i, i + 1) = <<s[i], s[i + 1]>>
    BY <1>1, Pieces
  <2>5. IsChar(s, i, 2) <=>
          IsScalarValue(CodeTwo(s[i], s[i + 1])) /\ Encoded(CodeTwo(s[i], s[i + 1])) = <<s[i], s[i + 1]>>
    BY <1>1, <2>2, <2>3, <2>4 DEF IsChar
  <2>. QED
    BY <1>1, <2>1, <2>5, TwoMean
<1>2. CASE ~(i + 1 <= Len(s))
  BY <1>2 DEF IsChar
<1>. QED
  BY <1>1, <1>2

(* Which three bytes of a text are a character. *)
LEMMA CharThree ==
  ASSUME NEW s \in Seq(Nat), NEW i \in 1..Len(s)
  PROVE  IsChar(s, i, 3) <=>
           /\ i + 2 <= Len(s) /\ LeadsThree(s[i], s[i + 1])
           /\ Follows(s[i + 1]) /\ Follows(s[i + 2])
<1>1. CASE i + 2 <= Len(s)
  <2>1. s[i] \in Nat /\ s[i + 1] \in Nat /\ s[i + 2] \in Nat
    BY <1>1
  <2>2. Guess(s, i, 3) = CodeThree(s[i], s[i + 1], s[i + 2])
    BY SMT DEF Guess, CodeThree
  <2>3. i + 3 - 1 = i + 2
    OBVIOUS
  <2>4. SubSeq(s, i, i + 2) = <<s[i], s[i + 1], s[i + 2]>>
    BY <1>1, Pieces
  <2>5. IsChar(s, i, 3) <=>
          IsScalarValue(CodeThree(s[i], s[i + 1], s[i + 2])) /\ Encoded(CodeThree(s[i], s[i + 1], s[i + 2])) = <<s[i], s[i + 1], s[i + 2]>>
    BY <1>1, <2>2, <2>3, <2>4 DEF IsChar
  <2>. QED
    BY <1>1, <2>1, <2>5, ThreeMean
<1>2. CASE ~(i + 2 <= Len(s))
  BY <1>2 DEF IsChar
<1>. QED
  BY <1>1, <1>2

(* Which four bytes of a text are a character. *)
LEMMA CharFour ==
  ASSUME NEW s \in Seq(Nat), NEW i \in 1..Len(s)
  PROVE  IsChar(s, i, 4) <=>
           /\ i + 3 <= Len(s) /\ LeadsFour(s[i], s[i + 1])
           /\ Follows(s[i + 1]) /\ Follows(s[i + 2]) /\ Follows(s[i + 3])
<1>1. CASE i + 3 <= Len(s)
  <2>1. s[i] \in Nat /\ s[i + 1] \in Nat /\ s[i + 2] \in Nat /\ s[i + 3] \in Nat
    BY <1>1, SMTT(40)
  <2>2. Guess(s, i, 4) = CodeFour(s[i], s[i + 1], s[i + 2], s[i + 3])
    BY SMT DEF Guess, CodeFour
  <2>3. i + 4 - 1 = i + 3
    OBVIOUS
  <2>4. SubSeq(s, i, i + 3) = <<s[i], s[i + 1], s[i + 2], s[i + 3]>>
    BY <1>1, Pieces
  <2>5. IsChar(s, i, 4) <=>
          IsScalarValue(CodeFour(s[i], s[i + 1], s[i + 2], s[i + 3])) /\ Encoded(CodeFour(s[i], s[i + 1], s[i + 2], s[i + 3])) = <<s[i], s[i + 1], s[i + 2], s[i + 3]>>
    BY <1>1, <2>2, <2>3, <2>4 DEF IsChar
  <2>. DEFINE a == s[i]
              b == s[i + 1]
              c == s[i + 2]
              d == s[i + 3]
  <2>6. a \in Nat /\ b \in Nat /\ c \in Nat /\ d \in Nat
    BY <2>1
  <2>. HIDE DEF a, b, c, d
  <2>7. IsScalarValue(CodeFour(a, b, c, d)) /\ Encoded(CodeFour(a, b, c, d)) = <<a, b, c, d>> <=>
          LeadsFour(a, b) /\ Follows(b) /\ Follows(c) /\ Follows(d)
    BY <2>6, FourMean
  <2>. QED
    BY <1>1, <2>5, <2>7 DEF a, b, c, d
<1>2. CASE ~(i + 3 <= Len(s))
  BY <1>2 DEF IsChar
<1>. QED
  BY <1>1, <1>2

-----------------------------------------------------------------------------
(* The two checks of UTF-8 *)

(* The bytes that follow, as a range. *)
LEMMA FollowsIs ==
  ASSUME NEW x \in Nat
  PROVE  x \in 128..191 <=> Follows(x)
BY SMT DEF Follows

(* How many bytes a first byte asks for. *)
LEMMA LeadLengthIs ==
  ASSUME NEW a \in Nat
  PROVE  /\ LeadLength(a) \in {0, 2, 3, 4}
         /\ LeadLength(a) = 2 <=> LeadsTwo(a)
         /\ LeadLength(a) = 3 <=> 224 <= a /\ a <= 239
         /\ LeadLength(a) = 4 <=> 240 <= a /\ a <= 244
BY SMT DEF LeadLength, LeadsTwo

(* The length of a character is the one that fits, and only one can. *)
LEMMA CharAtIs ==
  ASSUME NEW s \in Seq(Nat), NEW i \in 1..Len(s)
  PROVE  /\ Ascii(s[i]) => CharAt(s, i) = 1
         /\ ~Ascii(s[i]) => CharAt(s, i) \in {0, 2, 3, 4}
         /\ \A n \in 2..4 : ~Ascii(s[i]) => (CharAt(s, i) = n <=> IsChar(s, i, n))
<1>. DEFINE two == IsChar(s, i, 2)
            three == IsChar(s, i, 3)
            four == IsChar(s, i, 4)
<1>1. s[i] \in Nat
  OBVIOUS
<1>2. (two => LeadsTwo(s[i])) /\ (three => LeadsThree(s[i], s[i + 1])) /\ (four => LeadsFour(s[i], s[i + 1]))
  BY CharTwo, CharThree, CharFour
<1>3. ~(two /\ three) /\ ~(two /\ four) /\ ~(three /\ four)
  <2>. HIDE DEF two, three, four
  <2>. QED
    BY <1>1, <1>2, SMT DEF LeadsTwo, LeadsThree, LeadsFour
<1>4. \A n \in 2..4 : n = 2 \/ n = 3 \/ n = 4
  OBVIOUS
<1>5. \A m, n \in 2..4 : IsChar(s, i, m) /\ IsChar(s, i, n) => m = n
  BY <1>3, <1>4
<1>6. ASSUME NEW n \in 2..4, IsChar(s, i, n), ~Ascii(s[i]) PROVE CharAt(s, i) = n
  BY <1>5, <1>6 DEF CharAt
<1>7. ASSUME ~\E n \in 2..4 : IsChar(s, i, n), ~Ascii(s[i]) PROVE CharAt(s, i) = 0
  BY <1>7 DEF CharAt
<1>8. Ascii(s[i]) => CharAt(s, i) = 1
  BY DEF CharAt
<1>9. ~Ascii(s[i]) => CharAt(s, i) \in {0, 2, 3, 4}
  BY <1>4, <1>6, <1>7
<1>10. ASSUME NEW n \in 2..4, ~Ascii(s[i]), CharAt(s, i) = n PROVE IsChar(s, i, n)
  <2>1. \E m \in 2..4 : IsChar(s, i, m)
    BY <1>7, <1>10
  <2>. QED
    BY <1>6, <1>10, <2>1
<1>. QED
  BY <1>6, <1>8, <1>9, <1>10

(* The bytes behind the second follow. *)
Rest(s, i, n) == \A k \in 2..(n - 1) : s[i + k] \in 128..191

(* How far is_valid_utf8 of config.cpp goes at one character. *)
LEMMA SequenceAtIs ==
  ASSUME NEW s \in Seq(Nat), NEW i \in 1..Len(s), ~Ascii(s[i])
  PROVE  /\ SequenceAt(s, i) \in {0, 2, 3, 4}
         /\ \A n \in 2..4 : SequenceAt(s, i) = n <=>
              LeadLength(s[i]) = n /\ i + n - 1 <= Len(s) /\ s[i + 1] \in SecondBytes(s[i]) /\ Rest(s, i, n)
<1>. DEFINE m == LeadLength(s[i])
            Whole_ == i + m - 1 <= Len(s) /\ s[i + 1] \in SecondBytes(s[i]) /\ Rest(s, i, m)
<1>1. m \in {0, 2, 3, 4}
  BY LeadLengthIs
<1>. HIDE DEF m
<1>2. SequenceAt(s, i) = IF m > 0 /\ Whole_ THEN m ELSE 0
  BY DEF SequenceAt, m, Rest
<1>. HIDE DEF Whole_
<1>3. SequenceAt(s, i) \in {0, 2, 3, 4}
  BY <1>1, <1>2
<1>4. ASSUME NEW n \in 2..4 PROVE SequenceAt(s, i) = n <=> m = n /\ Whole_
  BY <1>1, <1>2
<1>. QED
  BY <1>3, <1>4 DEF m, Whole_

(* What is_valid_utf8 asks of the bytes of a character is what makes them   *)
(* one.                                                                     *)
LEMMA SequenceIsChar ==
  ASSUME NEW s \in Seq(Nat), NEW i \in 1..Len(s), NEW n \in 2..4
  PROVE  LeadLength(s[i]) = n /\ i + n - 1 <= Len(s) /\ s[i + 1] \in SecondBytes(s[i]) /\ Rest(s, i, n)
           <=> IsChar(s, i, n)
<1>. DEFINE a == s[i]
            b == s[i + 1]
<1>1. n = 2 \/ n = 3 \/ n = 4
  OBVIOUS
<1>2. ASSUME i + 1 <= Len(s)
      PROVE  /\ a \in Nat /\ b \in Nat
             /\ b \in SecondBytes(a) <=> 
                  /\ Follows(b)
                  /\ (a = 224 => b >= 160) /\ (a = 237 => b <= 159)
                  /\ (a = 240 => b >= 144) /\ (a = 244 => b <= 143)
  <2>1. a \in Nat /\ b \in Nat
    BY <1>2
  <2>. HIDE DEF a, b
  <2>. QED
    BY <2>1, SecondBytesIs, SMT DEF Follows
<1>. HIDE DEF a, b
<1>3. a \in Nat
  BY DEF a
<1>4. CASE n = 2
  <2>1. Rest(s, i, 2)
    BY DEF Rest
  <2>2. i + 2 - 1 = i + 1
    OBVIOUS
  <2>3. ASSUME i + 1 <= Len(s) 
        PROVE LeadLength(a) = 2 /\ b \in SecondBytes(a) <=> LeadsTwo(a) /\ Follows(b)
    BY <1>2, <1>3, <2>3, LeadLengthIs, SMT DEF LeadsTwo
  <2>. QED
    BY <1>4, <2>1, <2>2, <2>3, CharTwo DEF a, b
<1>5. CASE n = 3
  <2>1. ASSUME i + 2 <= Len(s) PROVE Rest(s, i, 3) <=> Follows(s[i + 2])
    <3>1. \A k \in 2..(3 - 1) : k = 2
      OBVIOUS
    <3>2. 2 \in 2..(3 - 1) /\ s[i + 2] \in Nat
      BY <2>1
    <3>3. Rest(s, i, 3) <=> s[i + 2] \in 128..191
      BY <3>1, <3>2 DEF Rest
    <3>. QED
      BY <3>2, <3>3, FollowsIs
  <2>2. i + 3 - 1 = i + 2 /\ (i + 2 <= Len(s) => i + 1 <= Len(s))
    OBVIOUS
  <2>3. ASSUME i + 1 <= Len(s) 
        PROVE LeadLength(a) = 3 /\ b \in SecondBytes(a) <=> LeadsThree(a, b) /\ Follows(b)
    BY <1>2, <1>3, <2>3, LeadLengthIs, SMT DEF LeadsThree
  <2>. QED
    BY <1>5, <2>1, <2>2, <2>3, CharThree DEF a, b
<1>6. CASE n = 4
  <2>1. ASSUME i + 3 <= Len(s) PROVE Rest(s, i, 4) <=> Follows(s[i + 2]) /\ Follows(s[i + 3])
    <3>1. \A k \in 2..(4 - 1) : k = 2 \/ k = 3
      OBVIOUS
    <3>2. 2 \in 2..(4 - 1) /\ 3 \in 2..(4 - 1) /\ s[i + 2] \in Nat /\ s[i + 3] \in Nat
      BY <2>1
    <3>3. Rest(s, i, 4) <=> s[i + 2] \in 128..191 /\ s[i + 3] \in 128..191
      BY <3>1, <3>2 DEF Rest
    <3>. QED
      BY <3>2, <3>3, FollowsIs
  <2>2. i + 4 - 1 = i + 3 /\ (i + 3 <= Len(s) => i + 1 <= Len(s))
    OBVIOUS
  <2>3. ASSUME i + 1 <= Len(s) 
        PROVE LeadLength(a) = 4 /\ b \in SecondBytes(a) <=> LeadsFour(a, b) /\ Follows(b)
    BY <1>2, <1>3, <2>3, LeadLengthIs, SMT DEF LeadsFour
  <2>. QED
    BY <1>6, <2>1, <2>2, <2>3, CharFour DEF a, b
<1>. QED
  BY <1>1, <1>4, <1>5, <1>6

(* is_valid_utf8 steps over characters only, and over every one. *)
LEMMA SequenceExact ==
  ASSUME NEW s \in Seq(Nat), NEW i \in 1..Len(s)
  PROVE  SequenceAt(s, i) = CharAt(s, i)
<1>1. CASE Ascii(s[i])
  BY <1>1, CharAtIs DEF SequenceAt
<1>2. CASE ~Ascii(s[i])
  <2>1. \A n \in 2..4 : SequenceAt(s, i) = n <=> CharAt(s, i) = n
    BY <1>2, SequenceAtIs, SequenceIsChar, CharAtIs
  <2>2. SequenceAt(s, i) \in {0, 2, 3, 4} /\ CharAt(s, i) \in {0, 2, 3, 4}
    BY <1>2, SequenceAtIs, CharAtIs
  <2>. QED
    BY <2>1, <2>2
<1>. QED
  BY <1>1, <1>2

(* The bits that host_check.cpp takes out of a byte. *)
LEMMA HostCode ==
  ASSUME NEW x \in Nat
  PROVE  /\ LeadsTwo(x) => x % 32 = x - 192
         /\ 224 <= x /\ x <= 239 => x % 16 = x - 224
         /\ 240 <= x /\ x <= 244 => x % 8 = x - 240
         /\ Follows(x) => x % 64 = x - 128
BY SMT DEF LeadsTwo, Follows

(* No three bytes have a code of four. *)
LEMMA HostThreeBelow ==
  ASSUME NEW a \in Nat, NEW b \in Nat, NEW c \in Nat, a <= 239, Follows(b), Follows(c)
  PROVE  ~IsFour(CodeThree(a, b, c))
BY SMT DEF CodeThree, Follows, IsFour

(* utf8_sequence_length of host_check.cpp, by the length it returns. *)
LEMMA HostSequence ==
  ASSUME NEW s \in Seq(Nat), NEW i \in 1..Len(s)
  PROVE  /\ utf8_sequence_length(s, i) \in {0, 2, 3, 4}
         /\ \A n \in 2..4 : utf8_sequence_length(s, i) = n <=> IsChar(s, i, n)
<1>. DEFINE n == LeadLength(s[i])
            tail(k) == s[i + k] % 64
            code == CASE n = 2 -> 64 * (s[i] % 32) + tail(1)
                      [] n = 3 -> 64 * (64 * (s[i] % 16) + tail(1)) + tail(2)
                      [] n = 4 -> 64 * (64 * (64 * (s[i] % 8) + tail(1)) + tail(2)) + tail(3)
            Enough == /\ i + n - 1 <= Len(s)
                      /\ \A k \in 1..(n - 1) : s[i + k] \in 128..191
                      /\ InRange(code, n)
<1>1. utf8_sequence_length(s, i) = IF n > 0 /\ Enough THEN n ELSE 0
  <2>1. utf8_sequence_length(s, i) = IF /\ n > 0 /\ i + n - 1 <= Len(s)
                                        /\ \A k \in 1..(n - 1) : s[i + k] \in 128..191
                                        /\ InRange(code, n) THEN n ELSE 0
    BY ONLY DEF utf8_sequence_length
  <2>. QED
    BY ONLY <2>1
<1>2. n \in {0, 2, 3, 4} /\ s[i] \in Nat
  BY LeadLengthIs
<1>3. /\ n = 2 => code = 64 * (s[i] % 32) + tail(1)
      /\ n = 3 => code = 64 * (64 * (s[i] % 16) + tail(1)) + tail(2)
      /\ n = 4 => code = 64 * (64 * (64 * (s[i] % 8) + tail(1)) + tail(2)) + tail(3)
  OBVIOUS
<1>. HIDE DEF code
<1>4. ASSUME n = 2 PROVE Enough <=> IsChar(s, i, 2)
  <2>1. i + 2 - 1 = i + 1 /\ \A k \in 1..(2 - 1) : k = 1
    OBVIOUS
  <2>2. ASSUME i + 1 <= Len(s) PROVE s[i + 1] \in 128..191 <=> Follows(s[i + 1])
    <3>1. s[i + 1] \in Nat
      BY <2>2
    <3>. QED
      BY <3>1, FollowsIs
  <2>3. Enough <=> i + 1 <= Len(s) /\ Follows(s[i + 1]) /\ InRange(code, 2)
    <3>1. 1 \in 1..(2 - 1)
      OBVIOUS
    <3>. QED
      BY <1>4, <2>1, <2>2, <3>1
  <2>4. LeadsTwo(s[i])
    BY <1>2, <1>4, LeadLengthIs
  <2>5. ASSUME i + 1 <= Len(s), Follows(s[i + 1]) PROVE InRange(code, 2)
    <3>1. s[i + 1] \in Nat
      BY <2>5
    <3>2. s[i] % 32 = s[i] - 192 /\ tail(1) = s[i + 1] - 128
      BY <1>2, <2>4, <2>5, <3>1, HostCode, SMTT(40)
    <3>3. code = CodeTwo(s[i], s[i + 1])
      BY <1>3, <1>4, <3>2 DEF CodeTwo
    <3>4. code \in Int
      BY <1>2, <3>1, <3>3, SMT DEF CodeTwo
    <3>5. IsTwo(code)
      BY <1>2, <2>4, <2>5, <3>1, <3>3, <3>4, TwoDecode
    <3>. QED
      BY <3>4, <3>5, SMT DEF IsTwo, InRange, LeastCode
  <2>. QED
    BY <2>3, <2>4, <2>5, CharTwo
<1>5. ASSUME n = 3 PROVE Enough <=> IsChar(s, i, 3)
  <2>1. i + 3 - 1 = i + 2 /\ \A k \in 1..(3 - 1) : k = 1 \/ k = 2
    OBVIOUS
  <2>2. ASSUME i + 2 <= Len(s)
        PROVE  /\ s[i + 1] \in Nat /\ s[i + 2] \in Nat
               /\ s[i + 1] \in 128..191 <=> Follows(s[i + 1])
               /\ s[i + 2] \in 128..191 <=> Follows(s[i + 2])
    <3>1. s[i + 1] \in Nat /\ s[i + 2] \in Nat
      BY <2>2
    <3>. QED
      BY <3>1, FollowsIs
  <2>3. Enough <=> i + 2 <= Len(s) /\ Follows(s[i + 1]) /\ Follows(s[i + 2]) /\ InRange(code, 3)
    <3>1. 1 \in 1..(3 - 1) /\ 2 \in 1..(3 - 1)
      OBVIOUS
    <3>. QED
      BY <1>5, <2>1, <2>2, <3>1
  <2>4. 224 <= s[i] /\ s[i] <= 239
    BY <1>2, <1>5, LeadLengthIs
  <2>5. ASSUME i + 2 <= Len(s), Follows(s[i + 1]), Follows(s[i + 2])
        PROVE  InRange(code, 3) <=> LeadsThree(s[i], s[i + 1])
    <3>1. s[i] % 16 = s[i] - 224
      BY <1>2, <2>4, HostCode
    <3>2. tail(1) = s[i + 1] - 128
      BY <2>2, <2>5, HostCode
    <3>6. tail(2) = s[i + 2] - 128
      BY <2>2, <2>5, HostCode
    <3>7. code = 64 * (64 * (s[i] % 16) + tail(1)) + tail(2)
      BY <1>3, <1>5
    <3>8. code = CodeThree(s[i], s[i + 1], s[i + 2]) /\ code \in Int
      <4>. DEFINE x == s[i] % 16
                  y == tail(1)
                  z == tail(2)
                  a == s[i]
                  b == s[i + 1]
                  c == s[i + 2]
      <4>1. a \in Nat /\ b \in Nat /\ c \in Nat
        BY <1>2, <2>2, <2>5
      <4>2. x = a - 224 /\ y = b - 128 /\ z = c - 128 /\ code = 64 * (64 * x + y) + z
        BY <3>1, <3>2, <3>6, <3>7
      <4>. HIDE DEF x, y, z, a, b, c
      <4>3. code = CodeThree(a, b, c) /\ code \in Int
        BY ONLY <4>1, <4>2, SMT DEF CodeThree
      <4>. QED
        BY <4>3 DEF a, b, c
    <3>3. code \in Int
      BY <3>8
    <3>4. IsThree(code) /\ NoSurrogate(code) <=> LeadsThree(s[i], s[i + 1])
      BY <1>2, <2>2, <2>5, <3>8, <3>3, ThreeDecode
    <3>5. ~IsFour(code)
      BY <1>2, <2>2, <2>4, <2>5, <3>8, HostThreeBelow
    <3>. QED
      BY <3>3, <3>4, <3>5, SMT DEF IsThree, IsFour, NoSurrogate, InRange, LeastCode
  <2>. QED
    BY <2>3, <2>4, <2>5, CharThree DEF LeadsThree
<1>6. ASSUME n = 4 PROVE Enough <=> IsChar(s, i, 4)
  <2>1. i + 4 - 1 = i + 3 /\ \A k \in 1..(4 - 1) : k = 1 \/ k = 2 \/ k = 3
    OBVIOUS
  <2>2. ASSUME i + 3 <= Len(s)
        PROVE  /\ s[i + 1] \in Nat /\ s[i + 2] \in Nat /\ s[i + 3] \in Nat
               /\ s[i + 1] \in 128..191 <=> Follows(s[i + 1])
               /\ s[i + 2] \in 128..191 <=> Follows(s[i + 2])
               /\ s[i + 3] \in 128..191 <=> Follows(s[i + 3])
    <3>1. s[i + 1] \in Nat /\ s[i + 2] \in Nat /\ s[i + 3] \in Nat
      BY <2>2
    <3>. QED
      BY <3>1, FollowsIs
  <2>3. Enough <=> /\ i + 3 <= Len(s) /\ Follows(s[i + 1]) /\ Follows(s[i + 2]) /\ Follows(s[i + 3])
                 /\ InRange(code, 4)
    <3>1. 1 \in 1..(4 - 1) /\ 2 \in 1..(4 - 1) /\ 3 \in 1..(4 - 1)
      OBVIOUS
    <3>. QED
      BY <1>6, <2>1, <2>2, <3>1
  <2>4. 240 <= s[i] /\ s[i] <= 244
    BY <1>2, <1>6, LeadLengthIs
  <2>5. ASSUME i + 3 <= Len(s), Follows(s[i + 1]), Follows(s[i + 2]), Follows(s[i + 3])
        PROVE  InRange(code, 4) <=> LeadsFour(s[i], s[i + 1])
    <3>1. s[i] % 8 = s[i] - 240
      BY <1>2, <2>4, HostCode
    <3>2. tail(1) = s[i + 1] - 128
      <4>1. s[i + 1] \in Nat
        BY <2>2, <2>5
      <4>. QED
        BY <2>5, <4>1, HostCode
    <3>5. tail(2) = s[i + 2] - 128
      BY <2>2, <2>5, HostCode, SMTT(40)
    <3>6. tail(3) = s[i + 3] - 128
      BY <2>2, <2>5, HostCode, SMTT(40)
    <3>7. code = 64 * (64 * (64 * (s[i] % 8) + tail(1)) + tail(2)) + tail(3)
      BY <1>3, <1>6
    <3>8. code = CodeFour(s[i], s[i + 1], s[i + 2], s[i + 3]) /\ code \in Int
      <4>. DEFINE x == s[i] % 8
                  y == tail(1)
                  z == tail(2)
                  w == tail(3)
                  a == s[i]
                  b == s[i + 1]
                  c == s[i + 2]
                  d == s[i + 3]
      <4>1. a \in Nat /\ b \in Nat /\ c \in Nat /\ d \in Nat
        BY <1>2, <2>2, <2>5
      <4>2. /\ x = a - 240 /\ y = b - 128 /\ z = c - 128 /\ w = d - 128
            /\ code = 64 * (64 * (64 * x + y) + z) + w
        BY <3>1, <3>2, <3>5, <3>6, <3>7
      <4>. HIDE DEF x, y, z, w, a, b, c, d
      <4>3. code = CodeFour(a, b, c, d) /\ code \in Int
        BY ONLY <4>1, <4>2, SMT DEF CodeFour
      <4>. QED
        BY <4>3 DEF a, b, c, d
    <3>3. code \in Int
      BY <3>8
    <3>4. IsFour(code) /\ IsScalarValue(code) <=> LeadsFour(s[i], s[i + 1])
      BY <1>2, <2>2, <2>5, <3>8, <3>3, FourDecode
    <3>. QED
      BY <3>3, <3>4, SMT DEF IsFour, IsScalarValue, InRange, LeastCode
  <2>. QED
    BY <2>3, <2>4, <2>5, CharFour DEF LeadsFour
<1>7. \A m \in 2..4 : IsChar(s, i, m) => n = m
  <2>1. \A m \in 2..4 : m = 2 \/ m = 3 \/ m = 4
    OBVIOUS
  <2>. QED
    BY <1>2, <2>1, SequenceIsChar
<1>. HIDE DEF n, Enough
<1>. QED
  <2>1. utf8_sequence_length(s, i) \in {0, 2, 3, 4}
    BY <1>1, <1>2
  <2>2. ASSUME NEW m \in 2..4 PROVE utf8_sequence_length(s, i) = m <=> IsChar(s, i, m)
    <3>1. m = 2 \/ m = 3 \/ m = 4
      OBVIOUS
    <3>2. n = m => (Enough <=> IsChar(s, i, m))
      BY <1>4, <1>5, <1>6, <3>1
    <3>3. m > 0 /\ m # 0
      OBVIOUS
    <3>4. n # m => utf8_sequence_length(s, i) # m
      BY <1>1, <3>3
    <3>. QED
      BY <1>1, <1>7, <3>2, <3>3, <3>4
  <2>. QED
    BY <2>1, <2>2

(* utf8_sequence_length is the length of the character, or 0 where there is *)
(* none.                                                                    *)
LEMMA HostSequenceExact ==
  ASSUME NEW s \in Seq(Nat), NEW i \in 1..Len(s), ~Ascii(s[i])
  PROVE  utf8_sequence_length(s, i) = CharAt(s, i)
<1>1. \A n \in 2..4 : utf8_sequence_length(s, i) = n <=> CharAt(s, i) = n
  BY HostSequence, CharAtIs
<1>2. utf8_sequence_length(s, i) \in {0, 2, 3, 4} /\ CharAt(s, i) \in {0, 2, 3, 4}
  BY HostSequence, CharAtIs
<1>. QED
  BY <1>1, <1>2

-----------------------------------------------------------------------------
(* The texts that are accepted *)

(* A character ends within the text. *)
LEMMA CharAtFits ==
  ASSUME NEW s \in Seq(Nat), NEW i \in 1..Len(s)
  PROVE  CharAt(s, i) \in Nat /\ CharAt(s, i) <= 4 /\ i + CharAt(s, i) <= Len(s) + 1
<1>1. CASE Ascii(s[i])
  BY <1>1, CharAtIs
<1>2. CASE ~Ascii(s[i])
  <2>1. CharAt(s, i) \in {0, 2, 3, 4}
    BY <1>2, CharAtIs
  <2>2. ASSUME NEW n \in 2..4, CharAt(s, i) = n PROVE i + n - 1 <= Len(s)
    BY <1>2, <2>2, CharAtIs DEF IsChar
  <2>. QED
    BY <2>1, <2>2
<1>. QED
  BY <1>1, <1>2

(* The loop over characters goes on. *)
LEMMA CharsForward ==
  ASSUME NEW s \in Seq(Nat)
  PROVE  Forward(Chars(s), Len(s))
BY CharAtFits DEF Forward, Chars, Positions

(* is_valid_utf8 accepts exactly the texts: what Unicode calls UTF-8,       *)
(* without overlong forms, surrogates and codes beyond 10FFFF, for every    *)
(* sequence of bytes.                                                       *)
THEOREM Utf8Exact ==
  \A s \in Seq(Nat) : is_valid_utf8(s) <=> IsText(s)
<1>. SUFFICES ASSUME NEW s \in Seq(Nat) PROVE is_valid_utf8(s) <=> IsText(s)
  OBVIOUS
<1>1. Chars(s) = [i \in Positions(s) |-> IF i <= Len(s) THEN SequenceAt(s, i) ELSE 0]
  BY SequenceExact DEF Chars, Positions
<1>. QED
  BY <1>1 DEF IsText, is_valid_utf8

(* The document has x from the place q on. *)
Sits(D, q, x) ==
  /\ q \in Nat /\ q >= 1 /\ q + Len(x) <= Len(D) + 1
  /\ \A k \in 1..Len(x) : D[q + k - 1] = x[k]

(* Two pieces sit one behind the other. *)
LEMMA SitsConcat ==
  ASSUME NEW D \in Seq(Nat), NEW q \in Nat, NEW x \in Seq(Nat), NEW y \in Seq(Nat)
  PROVE  Sits(D, q, x \o y) <=> Sits(D, q, x) /\ Sits(D, q + Len(x), y)
<1>1. /\ x \o y \in Seq(Nat) /\ Len(x \o y) = Len(x) + Len(y)
      /\ \A k \in 1..(Len(x) + Len(y)) : (x \o y)[k] = IF k <= Len(x) THEN x[k] ELSE y[k - Len(x)]
  BY ConcatProperties
<1>2. Len(x) \in Nat /\ Len(y) \in Nat /\ Len(D) \in Nat
  OBVIOUS
<1>. DEFINE z == x \o y
            m == Len(x)
            n == Len(y)
<1>. HIDE DEF z
<1>3. ASSUME Sits(D, q, z) PROVE Sits(D, q, x)
  <2>1. ASSUME NEW k \in 1..m PROVE D[q + k - 1] = x[k]
    <3>1. k \in 1..(m + n) /\ k <= m
      BY <1>2
    <3>2. z[k] = x[k]
      BY <1>1, <3>1 DEF z
    <3>3. D[q + k - 1] = z[k]
      BY <1>1, <1>3, <3>1 DEF Sits, z
    <3>. QED
      BY <3>2, <3>3
  <2>. QED
    BY <1>1, <1>2, <1>3, <2>1 DEF Sits, z
<1>4. ASSUME Sits(D, q, z) PROVE Sits(D, q + m, y)
  <2>1. ASSUME NEW k \in 1..n PROVE D[(q + m) + k - 1] = y[k]
    <3>1. m + k \in 1..(m + n) /\ ~(m + k <= m) /\ (m + k) - m = k
      BY <1>2
    <3>2. z[m + k] = y[k]
      BY <1>1, <3>1 DEF z
    <3>3. D[q + (m + k) - 1] = z[m + k]
      BY <1>1, <1>4, <3>1 DEF Sits, z
    <3>4. q + (m + k) - 1 = (q + m) + k - 1
      BY <1>2
    <3>. QED
      BY <3>2, <3>3, <3>4
  <2>. QED
    BY <1>1, <1>2, <1>4, <2>1 DEF Sits, z
<1>5. ASSUME Sits(D, q, x), Sits(D, q + m, y) PROVE Sits(D, q, z)
  <2>1. ASSUME NEW k \in 1..(m + n), k <= m PROVE D[q + k - 1] = z[k]
    BY <1>1, <1>2, <1>5, <2>1 DEF Sits, z
  <2>2. ASSUME NEW k \in 1..(m + n), ~(k <= m) PROVE D[q + k - 1] = z[k]
    <3>1. k - m \in 1..n /\ (q + m) + (k - m) - 1 = q + k - 1
      BY <1>2, <2>2
    <3>2. z[k] = y[k - m]
      BY <1>1, <2>2 DEF z
    <3>3. D[(q + m) + (k - m) - 1] = y[k - m]
      BY <1>5, <3>1 DEF Sits
    <3>. QED
      BY <3>1, <3>2, <3>3
  <2>3. \A k \in 1..Len(z) : D[q + k - 1] = z[k]
    BY <1>1, <2>1, <2>2 DEF z
  <2>. QED
    BY <1>1, <1>2, <1>5, <2>3, SMTT(40) DEF Sits, z
<1>. QED
  BY <1>3, <1>4, <1>5 DEF z

(* One byte sits where it is. *)
LEMMA SitsOne ==
  ASSUME NEW D \in Seq(Nat), NEW q \in Nat, NEW c
  PROVE  Sits(D, q, <<c>>) <=> q \in 1..Len(D) /\ D[q] = c
<1>1. Len(<<c>>) = 1 /\ <<c>>[1] = c
  OBVIOUS
<1>2. Len(D) \in Nat /\ q + 1 - 1 = q /\ \A k \in 1..1 : k = 1
  OBVIOUS
<1>. DEFINE t == <<c>>
<1>. HIDE DEF t
<1>3. Len(t) = 1 /\ t[1] = c
  BY <1>1 DEF t
<1>4. Sits(D, q, t) <=> q \in 1..Len(D) /\ D[q] = c
  BY <1>2, <1>3 DEF Sits
<1>. QED
  BY <1>4 DEF t

(* A piece of a text that sits in a document. *)
LEMMA SitsPiece ==
  ASSUME NEW D \in Seq(Nat), NEW q \in Nat, NEW s \in Seq(Nat), NEW i \in 1..Len(s),
         NEW n \in Nat, n >= 1, i + n - 1 <= Len(s), Sits(D, q, SubSeq(s, i, i + n - 1))
  PROVE  /\ q \in 1..Len(D) /\ q + n - 1 <= Len(D)
         /\ \A k \in 0..(n - 1) : D[q + k] = s[i + k]
         /\ SubSeq(D, q, q + n - 1) = SubSeq(s, i, i + n - 1)
         /\ Len(SubSeq(s, i, i + n - 1)) = n
<1>. DEFINE x == SubSeq(s, i, i + n - 1)
            y == SubSeq(D, q, q + n - 1)
<1>1. x \in Seq(Nat) /\ Len(x) = n /\ \A k \in 1..n : x[k] = s[i + k - 1]
  <2>1. \A k \in i..(i + n - 1) : s[k] \in Nat
    OBVIOUS
  <2>2. i \in Int /\ i + n - 1 \in Int /\ i <= i + n - 1 /\ (i + n - 1) - i + 1 = n
    OBVIOUS
  <2>. QED
    BY <2>1, <2>2, SubSeqProperties
<1>. HIDE DEF x
<1>2. Sits(D, q, x)
  BY DEF x
<1>3. q \in 1..Len(D) /\ q + n - 1 <= Len(D) /\ \A k \in 1..n : D[q + k - 1] = x[k]
  BY <1>1, <1>2 DEF Sits
<1>4. y \in Seq(Nat) /\ Len(y) = n /\ \A k \in 1..n : y[k] = D[q + k - 1]
  <2>1. \A k \in q..(q + n - 1) : D[k] \in Nat
    BY <1>3, SMTT(40)
  <2>2. q \in Int /\ q + n - 1 \in Int /\ q <= q + n - 1 /\ (q + n - 1) - q + 1 = n
    OBVIOUS
  <2>. QED
    BY <2>1, <2>2, SubSeqProperties
<1>. HIDE DEF y
<1>5. x = y
  <2>1. Len(x) = Len(y) /\ \A k \in 1..Len(x) : x[k] = y[k]
    BY <1>1, <1>3, <1>4
  <2>. QED
    BY <1>1, <1>4, <2>1, SeqEqual
<1>6. ASSUME NEW k \in 0..(n - 1) PROVE D[q + k] = s[i + k]
  <2>1. k + 1 \in 1..n /\ q + (k + 1) - 1 = q + k /\ i + (k + 1) - 1 = i + k
    OBVIOUS
  <2>. QED
    BY <1>1, <1>3, <2>1
<1>. QED
  BY <1>1, <1>3, <1>5, <1>6 DEF x, y

-----------------------------------------------------------------------------
(* One unit of a string: what is written, and what is read *)

(* What a reader of D makes of y in one step. *)
Unit(D, y, m) ==
  /\ y \in Seq(Nat) /\ Len(y) >= 1 /\ m \in Seq(Nat)
  /\ \A q \in Nat : Sits(D, q, y) => StringStep(D, q) = Len(y) /\ StringPiece(D, q) = m

(* A character of ASCII that needs no escape is read as itself. *)
LEMMA PlainUnit ==
  ASSUME NEW D \in Seq(Nat), NEW c \in Nat, Ascii(c), c >= 32, c # 34, c # 92
  PROVE  Unit(D, <<c>>, <<c>>)
<1>1. ASSUME NEW q \in Nat, Sits(D, q, <<c>>)
      PROVE  StringStep(D, q) = 1 /\ StringPiece(D, q) = <<c>>
  <2>1. q \in 1..Len(D) /\ D[q] = c
    BY <1>1, SitsOne
  <2>2. CharAt(D, q) = 1
    BY <2>1, CharAtIs
  <2>3. ~(q > Len(D)) /\ ~(D[q] < 32) /\ D[q] # 34 /\ D[q] # 92
    BY <2>1
  <2>4. StringStep(D, q) = 1
    BY <2>2, <2>3 DEF StringStep
  <2>5. SubSeq(D, q, q) = <<c>> /\ q + 1 - 1 = q
    BY <2>1, Pieces
  <2>. QED
    BY <2>2, <2>3, <2>4, <2>5 DEF StringPiece
<1>2. <<c>> \in Seq(Nat) /\ Len(<<c>>) = 1
  OBVIOUS
<1>. QED
  BY <1>1, <1>2 DEF Unit

(* A character beyond ASCII is read as itself. *)
LEMMA CharUnit ==
  ASSUME NEW D \in Seq(Nat), NEW s \in Seq(Nat), NEW i \in 1..Len(s), ~Ascii(s[i]),
         CharAt(s, i) # 0
  PROVE  Unit(D, SubSeq(s, i, i + CharAt(s, i) - 1), SubSeq(s, i, i + CharAt(s, i) - 1))
<1>. DEFINE n == CharAt(s, i)
            y == SubSeq(s, i, i + n - 1)
<1>1. n \in 2..4
  BY CharAtIs
<1>. HIDE DEF n
<1>2. n \in Nat /\ n >= 1
  BY <1>1
<1>3. i + n - 1 <= Len(s) /\ LeadLength(s[i]) = n /\ s[i + 1] \in SecondBytes(s[i]) /\ Rest(s, i, n)
  BY <1>1, CharAtIs, SequenceIsChar DEF n
<1>4. ASSUME NEW q \in Nat, Sits(D, q, y)
      PROVE  StringStep(D, q) = n /\ StringPiece(D, q) = y
  <2>1. /\ q \in 1..Len(D) /\ q + n - 1 <= Len(D)
        /\ \A k \in 0..(n - 1) : D[q + k] = s[i + k]
        /\ SubSeq(D, q, q + n - 1) = y
    <3>1. Sits(D, q, SubSeq(s, i, i + n - 1))
      BY <1>4
    <3>2. i + n - 1 <= Len(s)
      BY <1>3
    <3>3. /\ q \in 1..Len(D) /\ q + n - 1 <= Len(D)
          /\ \A k \in 0..(n - 1) : D[q + k] = s[i + k]
          /\ SubSeq(D, q, q + n - 1) = SubSeq(s, i, i + n - 1)
          /\ Len(SubSeq(s, i, i + n - 1)) = n
      BY ONLY <1>2, <3>1, <3>2, q \in Nat, D \in Seq(Nat), s \in Seq(Nat), i \in 1..Len(s), SitsPiece, ZenonT(60)
    <3>. QED
      BY <3>3
  <2>2. D[q] = s[i] /\ D[q + 1] = s[i + 1]
    <3>1. 0 \in 0..(n - 1) /\ 1 \in 0..(n - 1) /\ q + 0 = q /\ i + 0 = i
      BY <1>1
    <3>2. D[q + 0] = s[i + 0] /\ D[q + 1] = s[i + 1]
      BY <2>1, <3>1
    <3>. QED
      BY <3>1, <3>2
  <2>3. Rest(D, q, n)
    <3>1. \A k \in 2..(n - 1) : k \in 0..(n - 1)
      BY <1>1
    <3>. QED
      BY <1>3, <2>1, <3>1 DEF Rest
  <2>4. IsChar(D, q, n)
    BY <1>1, <1>3, <2>1, <2>2, <2>3, SequenceIsChar
  <2>5. CharAt(D, q) = n
    BY <1>1, <2>1, <2>2, <2>4, CharAtIs
  <2>6. s[i] \in Nat /\ s[i] >= 128
    BY DEF Ascii
  <2>7. ~(q > Len(D)) /\ ~(D[q] < 32) /\ D[q] # 34 /\ D[q] # 92
    <3>1. q \in Nat /\ Len(D) \in Nat /\ q <= Len(D)
      BY <2>1
    <3>2. D[q] \in Nat /\ D[q] >= 128
      BY <2>2, <2>6
    <3>. QED
      BY ONLY <3>1, <3>2
  <2>. QED
    BY <2>1, <2>5, <2>7 DEF StringStep, StringPiece
<1>5. y \in Seq(Nat) /\ Len(y) = n
  <2>1. \A k \in i..(i + n - 1) : s[k] \in Nat
    BY <1>2, <1>3
  <2>2. i \in Int /\ i + n - 1 \in Int /\ i <= i + n - 1 /\ (i + n - 1) - i + 1 = n
    BY <1>2
  <2>. QED
    BY <2>1, <2>2, SubSeqProperties
<1>. HIDE DEF y
<1>6. Unit(D, y, y)
  BY <1>2, <1>4, <1>5 DEF Unit
<1>. QED
  BY <1>6 DEF y, n

(* An escape, from what its letter and what follows stand for. *)
LEMMA EscapeStep ==
  ASSUME NEW D \in Seq(Nat), NEW q \in 1..Len(D), D[q] = 92, q < Len(D),
         NEW n \in Nat, n > 0, EscapedChar(D, q + 1).length = n
  PROVE  StringStep(D, q) = 1 + n /\ StringPiece(D, q) = EscapedChar(D, q + 1).bytes
<1>1. ~(q > Len(D)) /\ ~(D[q] < 32) /\ D[q] # 34
  OBVIOUS
<1>2. StringStep(D, q) = 1 + n
  BY <1>1 DEF StringStep
<1>. QED
  BY <1>2 DEF StringPiece

(* An escape by a letter is read as what the letter means. *)
LEMMA LetterUnit ==
  ASSUME NEW D \in Seq(Nat), NEW l \in Letters
  PROVE  Unit(D, <<92, l>>, <<Meant(l)>>)
<1>0. l \in Nat /\ Meant(l) \in Nat
  BY SMT DEF Letters, Meant
<1>1. ASSUME NEW q \in Nat, Sits(D, q, <<92, l>>)
      PROVE  StringStep(D, q) = 2 /\ StringPiece(D, q) = <<Meant(l)>>
  <2>. DEFINE y == <<92, l>>
  <2>1. Len(y) = 2 /\ y[1] = 92 /\ y[2] = l
    OBVIOUS
  <2>. HIDE DEF y
  <2>2. Sits(D, q, y)
    BY <1>1 DEF y
  <2>3. q \in 1..Len(D) /\ q < Len(D) /\ D[q] = 92 /\ D[q + 1] = l
    <3>1. 1 \in 1..2 /\ 2 \in 1..2 /\ q + 1 - 1 = q /\ q + 2 - 1 = q + 1
      OBVIOUS
    <3>. QED
      BY <2>1, <2>2, <3>1 DEF Sits
  <2>. DEFINE digits == [k \in 1..4 |-> IF (q + 1) + k > Len(D) THEN -1 ELSE HexValue(D[(q + 1) + k])]
              sum == 4096 * digits[1] + 256 * digits[2] + 16 * digits[3] + digits[4]
              plain == D[q + 1] = 117 /\ (\A k \in 1..4 : digits[k] >= 0) /\ IsScalarValue(sum)
  <2>4. EscapedChar(D, q + 1) =
          CASE D[q + 1] \in Letters -> [bytes |-> <<Meant(D[q + 1])>>, length |-> 1]
            [] plain -> [bytes |-> Encoded(sum), length |-> 5]
            [] OTHER -> [bytes |-> <<>>, length |-> 0]
    BY DEF EscapedChar
  <2>5. l \in Letters /\ ~plain
    BY <2>3 DEF Letters
  <2>. HIDE DEF digits, sum, plain
  <2>6. EscapedChar(D, q + 1) = [bytes |-> <<Meant(l)>>, length |-> 1]
    BY <2>3, <2>4, <2>5
  <2>7. EscapedChar(D, q + 1).length = 1 /\ EscapedChar(D, q + 1).bytes = <<Meant(l)>>
    BY <2>6
  <2>8. 1 \in Nat /\ 1 > 0 /\ 1 + 1 = 2
    OBVIOUS
  <2>9. StringStep(D, q) = 1 + 1 /\ StringPiece(D, q) = EscapedChar(D, q + 1).bytes
    BY <2>3, <2>7, <2>8, EscapeStep
  <2>. QED
    BY <2>7, <2>8, <2>9
<1>2. <<92, l>> \in Seq(Nat) /\ Len(<<92, l>>) = 2 /\ <<Meant(l)>> \in Seq(Nat)
  BY <1>0
<1>. QED
  BY <1>1, <1>2 DEF Unit

(* The code of four hexadecimal digits. *)
HexCode(d, e, f, g) ==
  4096 * HexValue(d) + 256 * HexValue(e) + 16 * HexValue(f) + HexValue(g)
(* An escape by number is read as the encoding of the number. *)
LEMMA UnicodeUnit ==
  ASSUME NEW D \in Seq(Nat), NEW d \in Nat, NEW e \in Nat, NEW f \in Nat, NEW g \in Nat, NEW code \in Nat,
         HexValue(d) >= 0, HexValue(e) >= 0, HexValue(f) >= 0, HexValue(g) >= 0,
         code = HexCode(d, e, f, g),
         IsScalarValue(code), Encoded(code) \in Seq(Nat)
  PROVE  Unit(D, <<92, 117, d, e, f, g>>, Encoded(code))
<1>. DEFINE y == <<92, 117, d, e, f, g>>
<1>1. /\ y \in Seq(Nat) /\ Len(y) = 6
      /\ y[1] = 92 /\ y[2] = 117 /\ y[3] = d /\ y[4] = e /\ y[5] = f /\ y[6] = g
  OBVIOUS
<1>. HIDE DEF y
<1>2. ASSUME NEW q \in Nat, Sits(D, q, y)
      PROVE  StringStep(D, q) = 6 /\ StringPiece(D, q) = Encoded(code)
  <2>1. /\ q \in 1..Len(D) /\ q + 5 <= Len(D)
        /\ \A k \in 1..6 : D[q + k - 1] = y[k]
    <3>1. q >= 1 /\ q + 6 <= Len(D) + 1 /\ \A k \in 1..6 : D[q + k - 1] = y[k]
      BY <1>1, <1>2 DEF Sits
    <3>2. q \in 1..Len(D) /\ q + 5 <= Len(D)
      <4>1. q >= 1 /\ q + 6 <= Len(D) + 1
        BY <3>1
      <4>. QED
        BY ONLY <4>1, q \in Nat, D \in Seq(Nat)
    <3>. QED
      BY <3>1, <3>2
  <2>2. /\ q + 1 - 1 = q /\ q + 2 - 1 = q + 1 /\ q + 3 - 1 = (q + 1) + 1 /\ q + 4 - 1 = (q + 1) + 2
        /\ q + 5 - 1 = (q + 1) + 3 /\ q + 6 - 1 = (q + 1) + 4
        /\ 1 \in 1..6 /\ 2 \in 1..6 /\ 3 \in 1..6 /\ 4 \in 1..6 /\ 5 \in 1..6 /\ 6 \in 1..6
    OBVIOUS
  <2>3. /\ D[q] = 92 /\ D[q + 1] = 117 /\ D[(q + 1) + 1] = d /\ D[(q + 1) + 2] = e
        /\ D[(q + 1) + 3] = f /\ D[(q + 1) + 4] = g
    BY <1>1, <2>1, <2>2
  <2>. DEFINE digits == [k \in 1..4 |-> IF (q + 1) + k > Len(D) THEN -1 ELSE HexValue(D[(q + 1) + k])]
  <2>4. /\ digits[1] = HexValue(d) /\ digits[2] = HexValue(e)
        /\ digits[3] = HexValue(f) /\ digits[4] = HexValue(g)
    <3>1. /\ ~((q + 1) + 1 > Len(D)) /\ ~((q + 1) + 2 > Len(D)) /\ ~((q + 1) + 3 > Len(D))
          /\ ~((q + 1) + 4 > Len(D)) /\ 1 \in 1..4 /\ 2 \in 1..4 /\ 3 \in 1..4 /\ 4 \in 1..4
      <4>1. q + 5 <= Len(D)
        BY <2>1
      <4>. QED
        BY ONLY <4>1, q \in Nat, D \in Seq(Nat)
    <3>2. digits[1] = HexValue(D[(q + 1) + 1]) /\ digits[2] = HexValue(D[(q + 1) + 2])
      BY <3>1
    <3>3. digits[3] = HexValue(D[(q + 1) + 3]) /\ digits[4] = HexValue(D[(q + 1) + 4])
      BY <3>1
    <3>. QED
      BY <2>3, <3>2, <3>3
  <2>. HIDE DEF digits
  <2>5. \A k \in 1..4 : digits[k] >= 0
    <3>1. \A k \in 1..4 : k = 1 \/ k = 2 \/ k = 3 \/ k = 4
      OBVIOUS
    <3>. QED
      BY <2>4, <3>1
  <2>6. code = 4096 * digits[1] + 256 * digits[2] + 16 * digits[3] + digits[4]
    BY ONLY <2>4, code = HexCode(d, e, f, g), SMT DEF HexCode
  <2>7. D[q + 1] \notin Letters
    BY <2>3 DEF Letters
  <2>. DEFINE sum == 4096 * digits[1] + 256 * digits[2] + 16 * digits[3] + digits[4]
  <2>8. EscapedChar(D, q + 1) =
          CASE D[q + 1] \in Letters -> [bytes |-> <<Meant(D[q + 1])>>, length |-> 1]
            [] D[q + 1] = 117 /\ (\A k \in 1..4 : digits[k] >= 0) /\ IsScalarValue(sum) ->
                 [bytes |-> Encoded(sum), length |-> 5]
            [] OTHER -> [bytes |-> <<>>, length |-> 0]
    BY DEF EscapedChar, digits
  <2>. HIDE DEF sum
  <2>9. sum = code
    BY <2>6 DEF sum
  <2>10. EscapedChar(D, q + 1) = [bytes |-> Encoded(code), length |-> 5]
    BY <2>3, <2>5, <2>7, <2>8, <2>9
  <2>11. EscapedChar(D, q + 1).length = 5 /\ EscapedChar(D, q + 1).bytes = Encoded(code)
    BY <2>10
  <2>12. q < Len(D) /\ 5 \in Nat /\ 5 > 0 /\ 1 + 5 = 6
    BY <2>1
  <2>13. StringStep(D, q) = 1 + 5 /\ StringPiece(D, q) = EscapedChar(D, q + 1).bytes
    <3>1. q \in 1..Len(D) /\ D[q] = 92
      BY <2>1, <2>3
    <3>. QED
      BY ONLY <3>1, <2>11, <2>12, D \in Seq(Nat), EscapeStep
  <2>. QED
    BY <2>11, <2>12, <2>13
<1>3. Unit(D, y, Encoded(code))
  BY <1>1, <1>2 DEF Unit
<1>. QED
  BY <1>3 DEF y

(* The escape that host_check.cpp writes for a stray byte is read as        *)
(* U+FFFD.                                                                  *)
LEMMA ReplacementUnit ==
  ASSUME NEW D \in Seq(Nat)
  PROVE  Unit(D, <<92, 117, 102, 102, 102, 100>>, Encoded(65533))
<1>1. HexValue(102) = 15 /\ HexValue(100) = 13
  BY SMT DEF HexValue
<1>2. IsScalarValue(65533)
  BY SMT DEF IsScalarValue
<1>3. Encoded(65533) \in Seq(Nat)
  BY SMT DEF Encoded, ThreeBytes, TailByte
<1>. DEFINE code == 65533
            f == 102
            g == 100
<1>4. /\ code \in Nat /\ f \in Nat /\ g \in Nat /\ HexValue(f) >= 0 /\ HexValue(g) >= 0
      /\ code = HexCode(f, f, f, g)
  BY <1>1, SMT DEF HexCode
<1>5. IsScalarValue(code) /\ Encoded(code) \in Seq(Nat)
  BY <1>2, <1>3, SMT
<1>. HIDE DEF code, f, g
<1>6. Unit(D, <<92, 117, f, f, f, g>>, Encoded(code))
  BY <1>4, <1>5, UnicodeUnit
<1>. QED
  BY <1>6, SMT DEF code, f, g

(* A hexadecimal digit is read as the value it was written for. *)
LEMMA HexBack ==
  ASSUME NEW d \in 0..15
  PROVE  HexDigit(d) \in Nat /\ HexValue(HexDigit(d)) = d
BY SMT DEF HexDigit, HexValue

(* The escape of a control character is read as that character. *)
LEMMA ControlUnit ==
  ASSUME NEW D \in Seq(Nat), NEW c \in Nat, c < 32
  PROVE  Unit(D, UnicodeEscape(c), <<c>>)
<1>. DEFINE f == HexDigit(c \div 16)
            g == HexDigit(c % 16)
            z == 48
<1>0. c \div 16 \in 0..15 /\ c % 16 \in 0..15 /\ c = 16 * (c \div 16) + (c % 16)
  BY SMT
<1>1. /\ f \in Nat /\ g \in Nat /\ HexValue(f) = c \div 16 /\ HexValue(g) = c % 16
      /\ HexValue(f) >= 0 /\ HexValue(g) >= 0
  <2>1. f \in Nat /\ g \in Nat /\ HexValue(f) = c \div 16 /\ HexValue(g) = c % 16
    BY <1>0, HexBack
  <2>. QED
    BY <1>0, <2>1
<1>2. z \in Nat /\ HexValue(z) = 0
  BY SMT DEF HexValue
<1>3. IsScalarValue(c) /\ Encoded(c) = <<c>> /\ <<c>> \in Seq(Nat)
  BY SMT DEF IsScalarValue, Encoded
<1>4. UnicodeEscape(c) = <<92, 117, z, z, f, g>>
  BY DEF UnicodeEscape
<1>. HIDE DEF f, g, z
<1>5. c = HexCode(z, z, f, g)
  BY <1>0, <1>1, <1>2, SMT DEF HexCode
<1>6. HexValue(z) >= 0
  BY <1>2
<1>7. Unit(D, <<92, 117, z, z, f, g>>, Encoded(c))
  <2>1. z \in Nat /\ f \in Nat /\ g \in Nat
    BY <1>1, <1>2
  <2>2. HexValue(f) >= 0 /\ HexValue(g) >= 0
    BY <1>1
  <2>3. IsScalarValue(c) /\ Encoded(c) \in Seq(Nat)
    BY <1>3
  <2>. QED
    BY ONLY <2>1, <2>2, <2>3, <1>5, <1>6, c \in Nat, D \in Seq(Nat), UnicodeUnit
<1>. QED
  BY <1>3, <1>4, <1>7

(* What the two writers make of one byte of ASCII. *)
LEMMA ConfigEscapeUnit ==
  ASSUME NEW D \in Seq(Nat), NEW c \in Nat, Ascii(c)
  PROVE  Unit(D, ConfigEscape(c), <<c>>)
<1>0. CASE c = 34
  <2>1. ConfigEscape(c) = <<92, 34>> /\ 34 \in Letters /\ Meant(34) = c
    BY <1>0, SMT DEF ConfigEscape, Letters, Meant
  <2>. QED
    BY <2>1, LetterUnit
<1>1. CASE c = 92
  <2>1. ConfigEscape(c) = <<92, 92>> /\ 92 \in Letters /\ Meant(92) = c
    BY <1>1, SMT DEF ConfigEscape, Letters, Meant
  <2>. QED
    BY <2>1, LetterUnit
<1>2. CASE c = 8
  <2>1. ConfigEscape(c) = <<92, 98>> /\ 98 \in Letters /\ Meant(98) = c
    BY <1>2, SMT DEF ConfigEscape, Letters, Meant
  <2>. QED
    BY <2>1, LetterUnit
<1>3. CASE c = 12
  <2>1. ConfigEscape(c) = <<92, 102>> /\ 102 \in Letters /\ Meant(102) = c
    BY <1>3, SMT DEF ConfigEscape, Letters, Meant
  <2>. QED
    BY <2>1, LetterUnit
<1>4. CASE c = 10
  <2>1. ConfigEscape(c) = <<92, 110>> /\ 110 \in Letters /\ Meant(110) = c
    BY <1>4, SMT DEF ConfigEscape, Letters, Meant
  <2>. QED
    BY <2>1, LetterUnit
<1>5. CASE c = 13
  <2>1. ConfigEscape(c) = <<92, 114>> /\ 114 \in Letters /\ Meant(114) = c
    BY <1>5, SMT DEF ConfigEscape, Letters, Meant
  <2>. QED
    BY <2>1, LetterUnit
<1>6. CASE c = 9
  <2>1. ConfigEscape(c) = <<92, 116>> /\ 116 \in Letters /\ Meant(116) = c
    BY <1>6, SMT DEF ConfigEscape, Letters, Meant
  <2>. QED
    BY <2>1, LetterUnit
<1>7. CASE c < 32 /\ c \notin {8, 9, 10, 12, 13}
  <2>1. c \in (0..31) \ {8, 9, 10, 12, 13} /\ c # 34 /\ c # 92
    BY <1>7
  <2>2. ConfigEscape(c) = UnicodeEscape(c)
    BY <2>1 DEF ConfigEscape
  <2>. QED
    BY <1>7, <2>2, ControlUnit
<1>8. CASE c >= 32 /\ c # 34 /\ c # 92
  <2>1. c \notin (0..31) \ {8, 9, 10, 12, 13} /\ c \notin {34, 92, 8, 9, 10, 12, 13}
    BY <1>8
  <2>2. ConfigEscape(c) = <<c>>
    BY <2>1 DEF ConfigEscape
  <2>. QED
    BY <1>8, <2>2, PlainUnit
<1>. QED
  BY <1>0, <1>1, <1>2, <1>3, <1>4, <1>5, <1>6, <1>7, <1>8

(* The same of host_check.cpp. *)
LEMMA HostEscapeUnit ==
  ASSUME NEW D \in Seq(Nat), NEW c \in Nat, Ascii(c)
  PROVE  Unit(D, HostEscape(c), <<c>>)
<1>1. c \in {8, 12} => c < 32
  OBVIOUS
<1>. QED
  BY <1>1, ControlUnit, ConfigEscapeUnit DEF HostEscape

(* Encodings are bytes. *)
LEMMA EncodedType ==
  ASSUME NEW g \in Int, IsScalarValue(g)
  PROVE  Encoded(g) \in Seq(Nat)
<1>0. g >= 0
  BY SMT DEF IsScalarValue
<1>1. /\ g \in Nat /\ 192 + g \div 64 \in Nat /\ 224 + g \div 4096 \in Nat
      /\ 240 + g \div 262144 \in Nat
      /\ TailByte(g) \in Nat /\ TailByte(g \div 64) \in Nat /\ TailByte(g \div 4096) \in Nat
  BY <1>0, SMT DEF TailByte
<1>2. /\ <<g>> \in Seq(Nat) /\ TwoBytes(g) \in Seq(Nat) /\ ThreeBytes(g) \in Seq(Nat)
      /\ FourBytes(g) \in Seq(Nat)
  BY <1>1, SMT DEF TwoBytes, ThreeBytes, FourBytes
<1>. QED
  BY <1>2, SMT DEF Encoded

(* Four digits of base 16, kept in one piece. *)
HexSum(a, b, c, d) == 4096 * a + 256 * b + 16 * c + d
(* A number. *)
LEMMA HexSumInt ==
  ASSUME NEW a \in Int, NEW b \in Int, NEW c \in Int, NEW d \in Int
  PROVE  HexSum(a, b, c, d) \in Int
BY SMT DEF HexSum

(* An escape ends within the text. *)
LEMMA EscapedCharIs ==
  ASSUME NEW s \in Seq(Nat), NEW i \in 1..Len(s)
  PROVE  /\ EscapedChar(s, i).length \in {0, 1, 5}
         /\ EscapedChar(s, i).length = 5 => i + 4 <= Len(s)
         /\ EscapedChar(s, i).bytes \in Seq(Nat)
<1>. DEFINE digits == [k \in 1..4 |-> IF i + k > Len(s) THEN -1 ELSE HexValue(s[i + k])]
            sum == 4096 * digits[1] + 256 * digits[2] + 16 * digits[3] + digits[4]
            plain == s[i] = 117 /\ (\A k \in 1..4 : digits[k] >= 0) /\ IsScalarValue(sum)
<1>1. EscapedChar(s, i) =
        CASE s[i] \in Letters -> [bytes |-> <<Meant(s[i])>>, length |-> 1]
          [] plain -> [bytes |-> Encoded(sum), length |-> 5]
          [] OTHER -> [bytes |-> <<>>, length |-> 0]
  BY DEF EscapedChar
<1>2. \A k \in 1..4 : digits[k] \in Int
  <2>1. \A c \in Nat : HexValue(c) \in Int
    BY SMT DEF HexValue
  <2>2. ASSUME NEW k \in 1..4, ~(i + k > Len(s)) PROVE s[i + k] \in Nat
    BY <2>2
  <2>3. -1 \in Int
    OBVIOUS
  <2>. QED
    BY <2>1, <2>2, <2>3
<1>3. sum \in Int
  <2>1. digits[1] \in Int /\ digits[2] \in Int /\ digits[3] \in Int /\ digits[4] \in Int
    BY <1>2
  <2>2. HexSum(digits[1], digits[2], digits[3], digits[4]) \in Int
    <3>. HIDE DEF digits
    <3>. QED
      BY <2>1, HexSumInt
  <2>3. sum = HexSum(digits[1], digits[2], digits[3], digits[4])
    <3>. HIDE DEF digits
    <3>. QED
      BY SMT DEF HexSum
  <2>. HIDE DEF sum
  <2>. QED
    BY <2>2, <2>3
<1>4. plain => i + 4 <= Len(s)
  <2>1. digits[4] = IF i + 4 > Len(s) THEN -1 ELSE HexValue(s[i + 4])
    OBVIOUS
  <2>2. 4 \in 1..4 /\ ~(-1 >= 0)
    OBVIOUS
  <2>3. plain => digits[4] >= 0
    BY <2>2
  <2>4. plain => ~(i + 4 > Len(s))
    BY <2>1, <2>2, <2>3
  <2>. QED
    BY <2>4
<1>5. plain => Encoded(sum) \in Seq(Nat)
  BY <1>3, EncodedType
<1>6. s[i] \in Letters => <<Meant(s[i])>> \in Seq(Nat)
  <2>1. \A l \in Letters : Meant(l) \in Nat
    BY SMT DEF Letters, Meant
  <2>. QED
    BY <2>1
<1>7. s[i] \in Letters => s[i] # 117
  BY DEF Letters
<1>8. <<>> \in Seq(Nat)
  OBVIOUS
<1>. HIDE DEF digits, sum
<1>9. CASE s[i] \in Letters
  <2>1. ~plain
    BY <1>7, <1>9
  <2>2. EscapedChar(s, i) = [bytes |-> <<Meant(s[i])>>, length |-> 1]
    BY <1>1, <1>9, <2>1
  <2>3. EscapedChar(s, i).length = 1 /\ EscapedChar(s, i).bytes = <<Meant(s[i])>>
    BY <2>2
  <2>4. 1 # 5 /\ 1 \in {0, 1, 5}
    OBVIOUS
  <2>. QED
    BY <1>6, <1>9, <2>3, <2>4
<1>10. CASE s[i] \notin Letters /\ plain
  <2>2. EscapedChar(s, i) = [bytes |-> Encoded(sum), length |-> 5]
    BY <1>1, <1>10
  <2>3. EscapedChar(s, i).length = 5 /\ EscapedChar(s, i).bytes = Encoded(sum)
    BY <2>2
  <2>. QED
    BY <1>4, <1>5, <1>10, <2>3
<1>11. CASE s[i] \notin Letters /\ ~plain
  <2>2. EscapedChar(s, i) = [bytes |-> <<>>, length |-> 0]
    BY <1>1, <1>11
  <2>3. EscapedChar(s, i).length = 0 /\ EscapedChar(s, i).bytes = <<>>
    BY <2>2
  <2>4. 0 # 5 /\ 0 \in {0, 1, 5}
    OBVIOUS
  <2>. QED
    BY <1>8, <2>3, <2>4
<1>. QED
  BY <1>9, <1>10, <1>11

(* A step of a reader of strings ends within the text. *)
LEMMA StringStepIs ==
  ASSUME NEW s \in Seq(Nat), NEW i \in 1..(Len(s) + 1)
  PROVE  /\ StringStep(s, i) \in Nat /\ i + StringStep(s, i) <= Len(s) + 1
         /\ StringStep(s, i) > 0 => StringPiece(s, i) \in Seq(Nat)
<1>1. CASE i > Len(s)
  <2>1. StringStep(s, i) = 0
    BY <1>1 DEF StringStep
  <2>. QED
    BY <2>1
<1>2. CASE i <= Len(s) /\ (s[i] < 32 \/ s[i] = 34)
  <2>1. StringStep(s, i) = 0
    BY <1>2 DEF StringStep
  <2>. QED
    BY <2>1
<1>3. CASE i <= Len(s) /\ ~(s[i] < 32 \/ s[i] = 34) /\ s[i] = 92
  <2>. DEFINE e == EscapedChar(s, i + 1)
  <2>1. StringStep(s, i) = IF i < Len(s) /\ e.length > 0 THEN 1 + e.length ELSE 0
    BY <1>3 DEF StringStep
  <2>2. StringPiece(s, i) = e.bytes
    BY <1>3 DEF StringPiece
  <2>3. CASE i < Len(s) /\ e.length > 0
    <3>1. i + 1 \in 1..Len(s)
      BY <2>3
    <3>2. e.length \in {0, 1, 5} /\ (e.length = 5 => (i + 1) + 4 <= Len(s)) /\ e.bytes \in Seq(Nat)
      BY <3>1, EscapedCharIs
    <3>. HIDE DEF e
    <3>. QED
      BY <2>1, <2>2, <2>3, <3>2
  <2>4. CASE ~(i < Len(s) /\ e.length > 0)
    <3>1. StringStep(s, i) = 0
      BY <2>1, <2>4
    <3>. QED
      BY <3>1
  <2>. QED
    BY <2>3, <2>4
<1>4. CASE i <= Len(s) /\ ~(s[i] < 32 \/ s[i] = 34) /\ s[i] # 92
  <2>1. ~(i > Len(s))
    BY <1>4
  <2>2. StringStep(s, i) = CharAt(s, i)
    BY <1>4, <2>1 DEF StringStep
  <2>3. i \in 1..Len(s)
    BY <1>4
  <2>4. CharAt(s, i) \in Nat /\ i + CharAt(s, i) <= Len(s) + 1
    BY <2>3, CharAtFits
  <2>5. StringPiece(s, i) = SubSeq(s, i, i + CharAt(s, i) - 1)
    BY <1>4 DEF StringPiece
  <2>6. \A k \in i..(i + CharAt(s, i) - 1) : s[k] \in Nat
    BY <2>4
  <2>7. SubSeq(s, i, i + CharAt(s, i) - 1) \in Seq(Nat)
    BY <2>4, <2>6, SubSeqProperties
  <2>. QED
    BY <2>2, <2>4, <2>5, <2>7
<1>. QED
  BY <1>1, <1>2, <1>3, <1>4

(* The reader of strings goes on. *)
LEMMA StringForward ==
  ASSUME NEW s \in Seq(Nat)
  PROVE  /\ Forward(StringSteps(s), Len(s))
         /\ StringPieces(s) \in [1..(Len(s) + 1) -> Seq(Nat)]
<1>1. Forward(StringSteps(s), Len(s))
  BY StringStepIs DEF Forward, StringSteps, Positions
<1>2. <<>> \in Seq(Nat)
  OBVIOUS
<1>. QED
  BY <1>1, <1>2, StringStepIs DEF StringPieces, Positions

-----------------------------------------------------------------------------
(* Strings: units up to the closing quote *)

(* The type and the length of a concatenation. *)
LEMMA ConcatNat ==
  ASSUME NEW x \in Seq(Nat), NEW y \in Seq(Nat)
  PROVE  /\ x \o y \in Seq(Nat) /\ Len(x \o y) = Len(x) + Len(y)
         /\ Len(x) \in Nat /\ Len(y) \in Nat
<1>1. /\ x \o y \in Seq(Nat) /\ Len(x \o y) = Len(x) + Len(y)
      /\ \A k \in 1..(Len(x) + Len(y)) : (x \o y)[k] = IF k <= Len(x) THEN x[k] ELSE y[k - Len(x)]
  BY ConcatProperties
<1>. QED
  BY <1>1, LenProperties

(* Sums may be bracketed either way. *)
LEMMA AddThree ==
  ASSUME NEW a \in Nat, NEW b \in Nat, NEW c \in Nat
  PROVE  (a + b) + c = a + (b + c)
OBVIOUS

(* Concatenations may be bracketed either way. *)
LEMMA ConcatThree ==
  ASSUME NEW x \in Seq(Nat), NEW y \in Seq(Nat), NEW z \in Seq(Nat)
  PROVE  (x \o y) \o z = x \o (y \o z)
BY ConcatAssociative, SMTT(40)

(* A loop that puts units together, and what they are read as. *)
Units(D, n, step, piece, meant) ==
  /\ Forward(step, n)
  /\ piece \in [1..(n + 1) -> Seq(Nat)] /\ meant \in [1..(n + 1) -> Seq(Nat)]
  /\ \A i \in 1..(n + 1) : step[i] # 0 => Unit(D, piece[i], meant[i])

(* Text that a loop puts together from units, up to the closing quote. *)
LEMMA UnitsRead ==
  ASSUME NEW D \in Seq(Nat), NEW n \in Nat, NEW step, NEW piece, NEW meant,
         Units(D, n, step, piece, meant)
  PROVE  \A i \in 1..(n + 1) : \A q \in Nat :
           Sits(D, q, Joined(step, piece)[i] \o <<34>>) =>
             /\ Stop(StringSteps(D))[q] = q + Len(Joined(step, piece)[i])
             /\ Joined(StringSteps(D), StringPieces(D))[q] = Joined(step, meant)[i]
<1>. DEFINE W == Joined(step, piece)
            M == Joined(step, meant)
            m == Len(D)
            stop == Stop(StringSteps(D))
            text == Joined(StringSteps(D), StringPieces(D))
<1>0. /\ Forward(step, n)
      /\ piece \in [1..(n + 1) -> Seq(Nat)] /\ meant \in [1..(n + 1) -> Seq(Nat)]
  BY DEF Units
<1>1. \A i \in 1..(n + 1) :
        W[i] \in Seq(Nat) /\ W[i] = IF step[i] = 0 THEN <<>> ELSE piece[i] \o W[i + step[i]]
  BY <1>0, JoinedIs, ZenonT(60)
<1>2. \A i \in 1..(n + 1) :
        M[i] \in Seq(Nat) /\ M[i] = IF step[i] = 0 THEN <<>> ELSE meant[i] \o M[i + step[i]]
  BY <1>0, JoinedIs, ZenonT(60)
<1>3. m \in Nat /\ Forward(StringSteps(D), m) /\ StringPieces(D) \in [1..(m + 1) -> Seq(Nat)]
  BY StringForward
<1>4. \A q \in 1..(m + 1) :
        /\ StringSteps(D)[q] = StringStep(D, q)
        /\ StringPieces(D)[q] = IF StringStep(D, q) > 0 THEN StringPiece(D, q) ELSE <<>>
  BY DEF StringSteps, StringPieces, Positions
<1>5. \A q \in 1..(m + 1) :
        stop[q] = IF StringStep(D, q) = 0 THEN q ELSE stop[q + StringStep(D, q)]
  <2>1. \A q \in 1..(m + 1) :
          stop[q] = IF StringSteps(D)[q] = 0 THEN q ELSE stop[q + StringSteps(D)[q]]
    BY <1>3, StopIs
  <2>. HIDE DEF stop, m
  <2>. QED
    BY <1>4, <2>1
<1>6. \A q \in 1..(m + 1) :
        text[q] = IF StringStep(D, q) = 0 THEN <<>>
                  ELSE StringPieces(D)[q] \o text[q + StringStep(D, q)]
  <2>1. \A q \in 1..(m + 1) :
          text[q] = IF StringSteps(D)[q] = 0 THEN <<>> ELSE StringPieces(D)[q] \o text[q + StringSteps(D)[q]]
    <3>1. StringPieces(D) \in [1..(m + 1) -> Seq(Nat)] /\ m \in Nat /\ Forward(StringSteps(D), m)
      BY <1>3
    <3>. HIDE DEF m
    <3>. QED
      <4>1. \A q \in 1..(m + 1) :
              /\ Joined(StringSteps(D), StringPieces(D))[q] =
                   IF StringSteps(D)[q] = 0 THEN <<>>
                   ELSE StringPieces(D)[q] \o Joined(StringSteps(D), StringPieces(D))[q + StringSteps(D)[q]]
              /\ Joined(StringSteps(D), StringPieces(D))[q] \in Seq(Nat)
        BY ONLY <3>1, JoinedIs
      <4>. QED
        BY <4>1 DEF text
  <2>. HIDE DEF text, m
  <2>. QED
    BY <1>4, <2>1
<1>7. step \in [1..(n + 1) -> Nat] /\ \A i \in 1..(n + 1) : i + step[i] <= n + 1
  BY <1>0 DEF Forward
<1>. HIDE DEF W, M, stop, text
<1>. DEFINE Reads(i, q) == stop[q] = q + Len(W[i]) /\ text[q] = M[i]
            T == {i \in 1..(n + 1) : \A q \in Nat : Sits(D, q, W[i] \o <<34>>) => Reads(i, q)}
<1>8. ASSUME NEW i \in 1..(n + 1), step[i] = 0 PROVE i \in T
  <2>. SUFFICES ASSUME NEW q \in Nat, Sits(D, q, W[i] \o << 34 >>) PROVE Reads(i, q)
    OBVIOUS
  <2>1. W[i] = <<>> /\ M[i] = <<>> /\ <<>> \o <<34>> = <<34>> /\ Len(<<>>) = 0
    BY <1>1, <1>2, <1>8
  <2>2. q \in 1..m /\ D[q] = 34
    BY <2>1, SitsOne
  <2>3. StringStep(D, q) = 0
    <3>1. ~(q > Len(D)) /\ q <= Len(D)
      BY <2>2
    <3>. QED
      BY <2>2, <3>1 DEF StringStep
  <2>4. stop[q] = q /\ text[q] = <<>>
    <3>1. q \in 1..(m + 1)
      BY <1>3, <2>2
    <3>. HIDE DEF m
    <3>. QED
      BY <1>5, <1>6, <2>3, <3>1
  <2>. QED
    BY <2>1, <2>4
<1>9. ASSUME NEW i \in 1..(n + 1), step[i] # 0, i + step[i] \in T PROVE i \in T
  <2>. SUFFICES ASSUME NEW q \in Nat, Sits(D, q, W[i] \o << 34 >>) PROVE Reads(i, q)
    OBVIOUS
  <2>. DEFINE j == i + step[i]
              x == piece[i]
              y == W[j] \o <<34>>
  <2>1. j \in 1..(n + 1) /\ W[i] = x \o W[j] /\ M[i] = meant[i] \o M[j]
    BY <1>1, <1>2, <1>7, <1>9
  <2>2. /\ x \in Seq(Nat) /\ W[j] \in Seq(Nat) /\ <<34>> \in Seq(Nat)
        /\ Len(x) \in Nat /\ Len(W[j]) \in Nat /\ Len(W[i]) = Len(x) + Len(W[j])
    <3>1. x \in Seq(Nat) /\ W[j] \in Seq(Nat) /\ <<34>> \in Seq(Nat)
      <4>1. <<34>> \in Seq(Nat) /\ step[i] \in Nat
        BY <1>7
      <4>2. x \in Seq(Nat)
        BY <1>0
      <4>. QED
        BY <1>1, <2>1, <4>1, <4>2
    <3>. HIDE DEF x, j
    <3>. QED
      BY ONLY <2>1, <3>1, ConcatNat
  <2>3. W[i] \o <<34>> = x \o y
    <3>1. x \in Seq(Nat) /\ W[j] \in Seq(Nat) /\ <<34>> \in Seq(Nat) /\ W[i] = x \o W[j]
      BY <2>1, <2>2
    <3>. HIDE DEF x, j
    <3>. QED
      <4>1. (x \o W[j]) \o <<34>> = x \o (W[j] \o <<34>>)
        BY ONLY <3>1, ConcatThree
      <4>. QED
        BY <3>1, <4>1
  <2>4. y \in Seq(Nat)
    BY <2>2, ConcatProperties
  <2>5. Sits(D, q, x) /\ Sits(D, q + Len(x), y)
    <3>1. Sits(D, q, x \o y)
      BY <2>3
    <3>. HIDE DEF x, y
    <3>. QED
      BY <2>2, <2>4, <3>1, SitsConcat
  <2>6. Unit(D, x, meant[i])
    BY <1>9 DEF Units
  <2>7. StringStep(D, q) = Len(x) /\ StringPiece(D, q) = meant[i] /\ Len(x) >= 1
    BY <2>5, <2>6 DEF Unit
  <2>8. q \in 1..(m + 1)
    BY <2>2, <2>5, <1>3, <2>7 DEF Sits
  <2>9. Reads(j, q + Len(x))
    <3>1. q + Len(x) \in Nat
      BY <2>2
    <3>. QED
      BY <1>9, <2>5, <3>1
  <2>10. StringStep(D, q) # 0 /\ StringStep(D, q) > 0
    BY <2>7, <2>2
  <2>11. stop[q] = stop[q + Len(x)] /\ text[q] = meant[i] \o text[q + Len(x)]
    BY <1>4, <1>5, <1>6, <2>7, <2>8, <2>10
  <2>. HIDE DEF x, y, j
  <2>12. stop[q] = q + Len(W[i])
    <3>1. stop[q] = (q + Len(x)) + Len(W[j])
      BY <2>9, <2>11
    <3>. QED
      <4>1. Len(x) \in Nat /\ Len(W[j]) \in Nat /\ Len(W[i]) = Len(x) + Len(W[j])
        BY <2>2
      <4>. QED
        <5>1. (q + Len(x)) + Len(W[j]) = q + (Len(x) + Len(W[j]))
          BY ONLY <4>1, q \in Nat, AddThree
        <5>2. (q + Len(x)) + Len(W[j]) = q + Len(W[i])
          BY ONLY <4>1, <5>1
        <5>. QED
          BY ONLY <3>1, <5>2
  <2>. QED
    BY <2>1, <2>9, <2>11, <2>12
<1>. HIDE DEF T
<1>10. \A i \in 1..(n + 1) : i \in T
  BY <1>0, <1>8, <1>9, WalkInduction
<1>. QED
  BY <1>10 DEF T, W, M, stop, text

(* A literal that a reader of D takes for the text t. *)
StringAs(D, x, t) ==
  /\ x \in Seq(Nat) /\ Len(x) >= 2 /\ x[1] = 34 /\ t \in Seq(Nat)
  /\ \A p \in Nat : Sits(D, p, x) => ReadString(D, p) = Read(JText(t), p + Len(x))

(* Between quotes such a text is a string, and means what its units mean. *)
LEMMA UnitsAreString ==
  ASSUME NEW D \in Seq(Nat), NEW n \in Nat, NEW step, NEW piece, NEW meant,
         Units(D, n, step, piece, meant)
  PROVE  StringAs(D, <<34>> \o Joined(step, piece)[1] \o <<34>>, Joined(step, meant)[1])
<1>. DEFINE w == Joined(step, piece)[1]
            t == Joined(step, meant)[1]
            quote == <<34>>
            x == quote \o w \o quote
<1>1. 1 \in 1..(n + 1)
  OBVIOUS
<1>0. /\ Forward(step, n)
      /\ piece \in [1..(n + 1) -> Seq(Nat)] /\ meant \in [1..(n + 1) -> Seq(Nat)]
  BY DEF Units
<1>2. w \in Seq(Nat) /\ t \in Seq(Nat)
  BY <1>0, <1>1, JoinedIs
<1>3. \A q \in Nat : Sits(D, q, w \o quote) =>
        /\ Stop(StringSteps(D))[q] = q + Len(w)
        /\ Joined(StringSteps(D), StringPieces(D))[q] = t
  <2>1. \A i \in 1..(n + 1) : \A q \in Nat :
          Sits(D, q, Joined(step, piece)[i] \o <<34>>) =>
            /\ Stop(StringSteps(D))[q] = q + Len(Joined(step, piece)[i])
            /\ Joined(StringSteps(D), StringPieces(D))[q] = Joined(step, meant)[i]
    BY UnitsRead
  <2>. QED
    BY <1>1, <2>1
<1>. HIDE DEF w, t
<1>4. quote \in Seq(Nat) /\ Len(quote) = 1 /\ quote[1] = 34
  OBVIOUS
<1>. HIDE DEF quote
<1>5. w \o quote \in Seq(Nat) /\ Len(w \o quote) = Len(w) + 1
  <2>. HIDE DEF quote
  <2>. QED
    <3>1. w \in Seq(Nat) /\ quote \in Seq(Nat)
      BY <1>2, <1>4
    <3>2. w \o quote \in Seq(Nat) /\ Len(w \o quote) = Len(w) + Len(quote)
      BY ONLY <3>1, ConcatNat
    <3>3. Len(quote) = 1
      BY <1>4
    <3>. QED
      BY ONLY <3>2, <3>3
<1>6. x = quote \o (w \o quote)
  <2>. HIDE DEF quote
  <2>. QED
    <3>1. w \in Seq(Nat) /\ quote \in Seq(Nat)
      BY <1>2, <1>4
    <3>. QED
      BY ONLY <3>1, ConcatThree
<1>7. x \in Seq(Nat) /\ Len(x) = Len(w) + 2 /\ x[1] = 34
  <2>. HIDE DEF x
  <2>1. /\ x \in Seq(Nat) /\ Len(x) = 1 + Len(w \o quote)
        /\ \A k \in 1..Len(x) : x[k] = IF k <= 1 THEN quote[k] ELSE (w \o quote)[k - 1]
    BY <1>4, <1>5, <1>6, ConcatProperties, SMTT(40)
  <2>2. Len(x) = Len(w) + 2 /\ 1 \in 1..Len(x)
    BY <1>2, <1>5, <2>1
  <2>. QED
    BY <1>4, <2>1, <2>2
<1>8. ASSUME NEW p \in Nat, Sits(D, p, x) PROVE ReadString(D, p) = Read(JText(t), p + Len(x))
  <2>1. Sits(D, p + 1, w \o quote)
    BY <1>4, <1>5, <1>6, <1>8, SitsConcat
  <2>2. Sits(D, (p + 1) + Len(w), quote)
    BY <1>2, <1>4, <2>1, SitsConcat
  <2>. DEFINE q == (p + 1) + Len(w)
  <2>3. q \in Nat
    BY <1>2
  <2>4. At(D, q, 34)
    BY <2>2, <2>3, SitsOne DEF At, quote
  <2>5. Stop(StringSteps(D))[p + 1] = q /\ Joined(StringSteps(D), StringPieces(D))[p + 1] = t
    BY <1>3, <2>1
  <2>6. q + 1 = p + Len(x)
    BY <1>2, <1>7
  <2>. HIDE DEF q
  <2>. QED
    BY <2>4, <2>5, <2>6 DEF ReadString
<1>9. Len(x) >= 2
  BY <1>2, <1>7
<1>10. StringAs(D, x, t)
  <2>. HIDE DEF x
  <2>. QED
    BY <1>2, <1>7, <1>8, <1>9 DEF StringAs
<1>. QED
  BY <1>10 DEF x, quote, w, t

-----------------------------------------------------------------------------
(* The two writers of strings *)

(* A byte that follows is none of ASCII. *)
LEMMA AtLeast ==
  ASSUME NEW b, b \in 128..191
  PROVE  b >= 128
OBVIOUS

(* A piece of bytes is bytes. *)
LEMMA SubSeqNat ==
  ASSUME NEW s \in Seq(Nat), NEW i \in 1..(Len(s) + 1), NEW n \in Nat, i + n <= Len(s) + 1
  PROVE  SubSeq(s, i, i + n - 1) \in Seq(Nat)
<1>1. \A k \in i..(i + n - 1) : s[k] \in Nat
  OBVIOUS
<1>2. i \in Int /\ i + n - 1 \in Int
  OBVIOUS
<1>. QED
  BY <1>1, <1>2, SubSeqProperties

(* A text is a piece of it and the rest. *)
LEMMA SubSeqGlued ==
  ASSUME NEW s \in Seq(Nat), NEW i \in 1..(Len(s) + 1), NEW n \in Nat, i + n <= Len(s) + 1
  PROVE  SubSeq(s, i, Len(s)) = SubSeq(s, i, i + n - 1) \o SubSeq(s, i + n, Len(s))
<1>. DEFINE m == Len(s)
            k == i + n - 1
<1>1. /\ i \in 1..(m + 1) /\ k \in (i - 1)..m /\ m \in k..m /\ k + 1 = i + n
  OBVIOUS
<1>2. SubSeq(s, i, k) \o SubSeq(s, k + 1, m) = SubSeq(s, i, m)
  BY <1>1, ConcatAdjacentSubSeq
<1>. QED
  BY <1>1, <1>2

(* The loop over single bytes goes on. *)
LEMMA EachForward ==
  ASSUME NEW s, NEW n \in Nat, Len(s) = n
  PROVE  Forward(Each(s), n)
BY DEF Forward, Each, Positions

(* A loop by single bytes over bytes that stay what they are. *)
LEMMA Copies ==
  ASSUME NEW s \in Seq(Nat), NEW piece \in [1..(Len(s) + 1) -> Seq(Nat)]
  PROVE  \A k \in Nat : \A i \in 1..(Len(s) + 1) :
           (i + k <= Len(s) + 1 /\ \A j \in i..(i + k - 1) : piece[j] = <<s[j]>>)
             => Joined(Each(s), piece)[i] = SubSeq(s, i, i + k - 1) \o Joined(Each(s), piece)[i + k]
<1>. DEFINE n == Len(s)
            J == Joined(Each(s), piece)
            Copied(i, k) == \A j \in i..(i + k - 1) : piece[j] = <<s[j]>>
            S == {k \in Nat : \A i \in 1..(n + 1) : i + k <= n + 1 /\ Copied(i, k) =>
                                J[i] = SubSeq(s, i, i + k - 1) \o J[i + k]}
<1>0. n \in Nat
  OBVIOUS
<1>1. \A i \in 1..(n + 1) :
        J[i] \in Seq(Nat) /\ J[i] = IF Each(s)[i] = 0 THEN <<>> ELSE piece[i] \o J[i + Each(s)[i]]
  <2>1. Forward(Each(s), n)
    BY <1>0, EachForward
  <2>. QED
    BY <1>0, <2>1, JoinedIs
<1>2. \A i \in 1..n : Each(s)[i] = 1 /\ ~(Each(s)[i] = 0) /\ i \in 1..(n + 1)
  BY DEF Each, Positions
<1>3. \A i \in 1..n : J[i] = piece[i] \o J[i + 1]
  <2>. HIDE DEF J, n
  <2>. QED
    BY <1>1, <1>2
<1>. HIDE DEF J
<1>4. 0 \in S
  <2>. SUFFICES ASSUME NEW i \in 1..(n + 1) PROVE J[i] = SubSeq(s, i, i + 0 - 1) \o J[i + 0]
    OBVIOUS
  <2>1. i + 0 - 1 \in Int /\ i \in Int /\ i + 0 - 1 < i /\ i + 0 = i
    OBVIOUS
  <2>2. SubSeq(s, i, i + 0 - 1) = <<>>
    BY <2>1, SubSeqEmpty
  <2>3. <<>> \o J[i] = J[i]
    BY <1>1, ConcatEmptySeq
  <2>. QED
    BY <2>1, <2>2, <2>3
<1>5. ASSUME NEW k \in Nat, k \in S PROVE k + 1 \in S
  <2>. SUFFICES ASSUME NEW i \in 1..(n + 1), i + (k + 1) <= n + 1, Copied(i, k + 1)
                PROVE  J[i] = SubSeq(s, i, i + (k + 1) - 1) \o J[i + (k + 1)]
    <3>1. k + 1 \in Nat
      OBVIOUS
    <3>. HIDE DEF Copied, J, n
    <3>. QED
      BY <3>1
  <2>1. i \in 1..n /\ i + 1 \in 1..(n + 1) /\ (i + 1) + k = i + (k + 1) /\ (i + 1) + k <= n + 1
    OBVIOUS
  <2>2. Copied(i + 1, k)
    <3>1. \A j \in (i + 1)..((i + 1) + k - 1) : j \in i..(i + (k + 1) - 1)
      OBVIOUS
    <3>. QED
      BY <3>1
  <2>3. J[i + 1] = SubSeq(s, i + 1, (i + 1) + k - 1) \o J[(i + 1) + k]
    BY <1>5, <2>1, <2>2
  <2>4. piece[i] = <<s[i]>>
    <3>1. i \in i..(i + (k + 1) - 1)
      OBVIOUS
    <3>. QED
      BY <3>1
  <2>5. J[i] = <<s[i]>> \o (SubSeq(s, i + 1, (i + 1) + k - 1) \o J[i + (k + 1)])
    BY <1>3, <2>1, <2>3, <2>4
  <2>6. SubSeq(s, i, i + (k + 1) - 1) = <<s[i]>> \o SubSeq(s, i + 1, (i + 1) + k - 1)
    <3>1. i \in 1..n /\ (i + 1) + k - 1 \in i..n /\ (i + 1) + k - 1 = i + (k + 1) - 1
      OBVIOUS
    <3>. QED
      BY <3>1, SubSeqRecursiveFirst
  <2>. DEFINE y == SubSeq(s, i + 1, (i + 1) + k - 1)
              z == J[i + (k + 1)]
  <2>7. y \in Seq(Nat)
    BY <2>1, SubSeqNat
  <2>8. z \in Seq(Nat)
    <3>1. i + (k + 1) \in 1..(n + 1)
      OBVIOUS
    <3>. QED
      BY <1>1, <3>1
  <2>9. <<s[i]>> \in Seq(Nat)
    BY <2>1
  <2>. HIDE DEF y, z
  <2>10. (<<s[i]>> \o y) \o z = <<s[i]>> \o (y \o z)
    BY ONLY <2>7, <2>8, <2>9, ConcatThree
  <2>. QED
    BY <2>5, <2>6, <2>10 DEF y, z
<1>. HIDE DEF S
<1>6. \A k \in Nat : k \in S
  BY <1>4, <1>5, NatSetInduction
<1>. QED
  BY <1>6 DEF S, J

(* What the writer of the configuration schema makes of a character. *)
CharEscape(s, i) ==
  IF Ascii(s[i]) THEN ConfigEscape(s[i]) ELSE SubSeq(s, i, i + CharAt(s, i) - 1)

(* A byte beyond ASCII is written as it is. *)
LEMMA ConfigEscapeType ==
  ASSUME NEW c \in Nat
  PROVE  ConfigEscape(c) \in Seq(Nat) /\ (c >= 128 => ConfigEscape(c) = <<c>>)
<1>1. CASE c >= 128
  <2>1. c \notin (0..31) \ {8, 9, 10, 12, 13} /\ c \notin {34, 92} /\ c # 8 /\ c # 9 /\ c # 10 /\ c # 12 /\ c # 13
    BY <1>1
  <2>2. ConfigEscape(c) = <<c>>
    BY <2>1 DEF ConfigEscape
  <2>. QED
    BY <2>2
<1>2. CASE c < 128
  <2>1. Ascii(c)
    BY <1>2 DEF Ascii
  <2>. DEFINE none == <<>>
  <2>2. none \in Seq(Nat)
    OBVIOUS
  <2>. HIDE DEF none
  <2>3. Unit(none, ConfigEscape(c), <<c>>)
    BY <2>1, <2>2, ConfigEscapeUnit
  <2>. QED
    BY <1>2, <2>3 DEF Unit
<1>. QED
  BY <1>1, <1>2

(* What escape_json makes of each byte, and of each character, of a text. *)
Escapes(s) == [i \in 1..(Len(s) + 1) |-> IF i <= Len(s) THEN ConfigEscape(s[i]) ELSE <<>>]
CharEscapes(s) == [i \in 1..(Len(s) + 1) |-> IF i <= Len(s) THEN CharEscape(s, i) ELSE <<>>]

(* Of a text, escape_json by bytes makes what it would make by characters. *)
LEMMA ByCharacters ==
  ASSUME NEW s \in Seq(Nat)
  PROVE  /\ CharEscapes(s) \in [1..(Len(s) + 1) -> Seq(Nat)]
         /\ \A i \in 1..(Len(s) + 1) : Stop(Chars(s))[i] > Len(s) =>
              Joined(Each(s), Escapes(s))[i] = Joined(Chars(s), CharEscapes(s))[i]
<1>. DEFINE piece == Escapes(s)
            bychar == CharEscapes(s)
            n == Len(s)
            J == Joined(Each(s), piece)
            C == Joined(Chars(s), bychar)
<1>0. n \in Nat /\ Forward(Chars(s), n) /\ Forward(Each(s), n)
  BY CharsForward, EachForward
<1>1. piece \in [1..(n + 1) -> Seq(Nat)]
  <2>1. ASSUME NEW i \in 1..(n + 1), i <= n PROVE ConfigEscape(s[i]) \in Seq(Nat)
    <3>1. s[i] \in Nat
      BY <2>1
    <3>. QED
      BY <3>1, ConfigEscapeType
  <2>2. <<>> \in Seq(Nat)
    OBVIOUS
  <2>. QED
    BY <2>1, <2>2 DEF Escapes
<1>2. bychar \in [1..(n + 1) -> Seq(Nat)]
  <2>1. ASSUME NEW i \in 1..(n + 1), i <= n PROVE CharEscape(s, i) \in Seq(Nat)
    <3>1. i \in 1..n /\ s[i] \in Nat
      BY <2>1
    <3>2. ConfigEscape(s[i]) \in Seq(Nat)
      BY <3>1, ConfigEscapeType
    <3>3. CharAt(s, i) \in Nat /\ i + CharAt(s, i) <= n + 1
      BY <3>1, CharAtFits
    <3>4. SubSeq(s, i, i + CharAt(s, i) - 1) \in Seq(Nat)
      BY <3>3, SubSeqNat
    <3>. QED
      BY <3>2, <3>4 DEF CharEscape
  <2>2. <<>> \in Seq(Nat)
    OBVIOUS
  <2>. QED
    BY <2>1, <2>2 DEF CharEscapes
<1>3. \A i \in 1..(n + 1) : J[i] \in Seq(Nat) /\ J[i] = IF Each(s)[i] = 0 THEN <<>> ELSE piece[i] \o J[i + Each(s)[i]]
  <2>. HIDE DEF n
  <2>. QED
    BY ONLY <1>0, <1>1, JoinedIs, ZenonT(60) DEF J
<1>4. \A i \in 1..(n + 1) :
        C[i] \in Seq(Nat) /\ C[i] = IF Chars(s)[i] = 0 THEN <<>> ELSE bychar[i] \o C[i + Chars(s)[i]]
  <2>. HIDE DEF n
  <2>. QED
    BY ONLY <1>0, <1>2, JoinedIs DEF C
<1>5. \A k \in Nat : \A i \in 1..(n + 1) :
        (i + k <= n + 1 /\ \A j \in i..(i + k - 1) : piece[j] = <<s[j]>>)
          => J[i] = SubSeq(s, i, i + k - 1) \o J[i + k]
  BY <1>1, Copies
<1>6. \A i \in 1..(n + 1) :
        Stop(Chars(s))[i] = IF Chars(s)[i] = 0 THEN i ELSE Stop(Chars(s))[i + Chars(s)[i]]
  <2>1. \A i \in 1..(n + 1) :
          /\ Stop(Chars(s))[i] = IF Chars(s)[i] = 0 THEN i ELSE Stop(Chars(s))[i + Chars(s)[i]]
          /\ Stop(Chars(s))[i] \in i..(n + 1) /\ Chars(s)[Stop(Chars(s))[i]] = 0
    BY <1>0, StopIs
  <2>. QED
    BY <2>1
<1>7. \A i \in 1..n : i \in 1..(n + 1) /\ Chars(s)[i] = CharAt(s, i) /\ Each(s)[i] = 1
                      /\ piece[i] = ConfigEscape(s[i]) /\ bychar[i] = CharEscape(s, i)
  BY DEF Chars, Each, Positions, Escapes, CharEscapes
<1>8. Chars(s)[n + 1] = 0 /\ Each(s)[n + 1] = 0 /\ n + 1 \in 1..(n + 1)
  BY DEF Chars, Each, Positions
<1>. HIDE DEF J, C, piece, bychar
<1>. DEFINE T == {i \in 1..(n + 1) : Stop(Chars(s))[i] > n => J[i] = C[i]}
<1>9. ASSUME NEW i \in 1..(n + 1), Chars(s)[i] = 0 PROVE i \in T
  <2>. SUFFICES ASSUME Stop(Chars(s))[i] > n PROVE J[i] = C[i]
    OBVIOUS
  <2>1. Stop(Chars(s))[i] = i
    BY <1>6, <1>9
  <2>2. i = n + 1
    BY <2>1, <1>0
  <2>. QED
    BY <1>3, <1>4, <1>8, <2>2
<1>10. ASSUME NEW i \in 1..(n + 1), Chars(s)[i] # 0, i + Chars(s)[i] \in T PROVE i \in T
  <2>. SUFFICES ASSUME Stop(Chars(s))[i] > n PROVE J[i] = C[i]
    OBVIOUS
  <2>. DEFINE c == CharAt(s, i)
  <2>1. i \in 1..n /\ i # n + 1 /\ s[i] \in Nat
    BY <1>8, <1>10
  <2>2. Chars(s)[i] = c /\ Each(s)[i] = 1 /\ piece[i] = ConfigEscape(s[i]) /\ bychar[i] = CharEscape(s, i)
    BY <1>7, <2>1
  <2>3. c \in Nat /\ i + c <= n + 1 /\ c # 0
    BY <1>10, <2>1, <2>2, CharAtFits
  <2>4. J[i + c] = C[i + c] /\ C[i] = CharEscape(s, i) \o C[i + c]
    <3>1. Stop(Chars(s))[i + c] > n
      BY <1>6, <1>10, <2>2
    <3>2. J[i + c] = C[i + c]
      BY <1>10, <2>2, <3>1
    <3>. QED
      BY <1>4, <2>2, <2>3, <3>2
  <2>5. CASE Ascii(s[i])
    <3>1. c = 1
      BY <2>1, <2>5, CharAtIs
    <3>2. J[i] = ConfigEscape(s[i]) \o J[i + 1]
      <4>1. ~(Each(s)[i] = 0)
        BY <2>2
      <4>. QED
        BY <1>3, <2>2, <4>1
    <3>. QED
      BY <2>4, <2>5, <3>1, <3>2 DEF CharEscape
  <2>6. CASE ~Ascii(s[i])
    <3>1. c \in 2..4 /\ IsChar(s, i, c)
      <4>1. c \in {0, 2, 3, 4}
        BY <2>1, <2>6, CharAtIs
      <4>2. c \in 2..4
        BY <2>3, <4>1
      <4>. QED
        BY <2>1, <2>6, <4>2, CharAtIs
    <3>. HIDE DEF c
    <3>2. s[i + 1] \in SecondBytes(s[i]) /\ Rest(s, i, c)
      BY <2>1, <3>1, SequenceIsChar
    <3>3. s[i + 1] >= 128
      <4>1. s[i + 1] \in Nat
        <5>1. i + 1 \in 1..n
          BY <2>1, <2>3, <3>1
        <5>. QED
          BY <5>1
      <4>2. 128 <= s[i + 1]
        BY <2>1, <3>2, <4>1, SecondBytesIs
      <4>. QED
        BY ONLY <4>1, <4>2
    <3>4. ASSUME NEW j \in i..(i + c - 1) PROVE piece[j] = <<s[j]>>
      <4>1. j \in 1..n
        BY <2>1, <2>3
      <4>2. s[j] >= 128
        <5>1. CASE j = i
          BY <2>1, <2>6, <5>1 DEF Ascii
        <5>2. CASE j = i + 1
          BY <3>2, <3>3, <5>2
        <5>3. CASE j # i /\ j # i + 1
          <6>1. j - i \in 2..(c - 1) /\ i + (j - i) = j
            BY <2>1, <2>3, <5>3
          <6>2. s[i + (j - i)] \in 128..191
            BY <3>2, <6>1 DEF Rest
          <6>3. s[j] \in 128..191
            BY <6>1, <6>2
          <6>. QED
            BY <6>3, AtLeast
        <5>. QED
          BY <5>1, <5>2, <5>3
      <4>3. s[j] \in Nat /\ piece[j] = ConfigEscape(s[j])
        BY <1>7, <4>1
      <4>. QED
        BY <4>2, <4>3, ConfigEscapeType
    <3>5. J[i] = SubSeq(s, i, i + c - 1) \o J[i + c]
      BY <1>5, <2>3, <3>4
    <3>. QED
      BY <2>4, <2>6, <3>5 DEF CharEscape, c
  <2>. QED
    BY <2>5, <2>6
<1>. HIDE DEF T
<1>11. \A i \in 1..(n + 1) : i \in T
  BY <1>0, <1>9, <1>10, WalkInduction
<1>. QED
  BY <1>2, <1>11 DEF T, J, C, piece, bychar

(* The characters of a text, joined, are the text. *)
LEMMA CharactersJoined ==
  ASSUME NEW s \in Seq(Nat), NEW own,
         own = [i \in 1..(Len(s) + 1) |-> SubSeq(s, i, i + Chars(s)[i] - 1)]
  PROVE  /\ own \in [1..(Len(s) + 1) -> Seq(Nat)]
         /\ IsText(s) => Joined(Chars(s), own)[1] = s
<1>. DEFINE n == Len(s)
            C == Joined(Chars(s), own)
<1>0. n \in Nat /\ Forward(Chars(s), n)
  BY CharsForward
<1>1. Chars(s) \in [1..(n + 1) -> Nat] /\ \A i \in 1..(n + 1) : i + Chars(s)[i] <= n + 1
  BY <1>0 DEF Forward
<1>2. own \in [1..(n + 1) -> Seq(Nat)]
  <2>1. ASSUME NEW i \in 1..(n + 1) PROVE SubSeq(s, i, i + Chars(s)[i] - 1) \in Seq(Nat)
    BY <1>1, SubSeqNat
  <2>. QED
    BY <2>1
<1>3. \A i \in 1..(n + 1) : own[i] = SubSeq(s, i, i + Chars(s)[i] - 1)
  OBVIOUS
<1>4. \A i \in 1..(n + 1) :
        C[i] \in Seq(Nat) /\ C[i] = IF Chars(s)[i] = 0 THEN <<>> ELSE own[i] \o C[i + Chars(s)[i]]
  <2>. HIDE DEF n
  <2>. QED
    BY ONLY <1>0, <1>2, JoinedIs DEF C
<1>5. \A i \in 1..(n + 1) :
        Stop(Chars(s))[i] = IF Chars(s)[i] = 0 THEN i ELSE Stop(Chars(s))[i + Chars(s)[i]]
  <2>1. \A i \in 1..(n + 1) :
          /\ Stop(Chars(s))[i] = IF Chars(s)[i] = 0 THEN i ELSE Stop(Chars(s))[i + Chars(s)[i]]
          /\ Stop(Chars(s))[i] \in i..(n + 1) /\ Chars(s)[Stop(Chars(s))[i]] = 0
    BY <1>0, StopIs
  <2>. QED
    BY <2>1
<1>. HIDE DEF C
<1>. DEFINE T == {i \in 1..(n + 1) : Stop(Chars(s))[i] > n => C[i] = SubSeq(s, i, n)}
<1>6. ASSUME NEW i \in 1..(n + 1), Chars(s)[i] = 0 PROVE i \in T
  <2>. SUFFICES ASSUME Stop(Chars(s))[i] > n PROVE C[i] = SubSeq(s, i, n)
    OBVIOUS
  <2>1. Stop(Chars(s))[i] = i
    BY <1>5, <1>6
  <2>2. n < i /\ i \in Int /\ n \in Int
    BY <2>1, <1>0
  <2>3. SubSeq(s, i, n) = <<>>
    BY <2>2, SubSeqEmpty
  <2>. QED
    BY <1>4, <1>6, <2>3
<1>7. ASSUME NEW i \in 1..(n + 1), Chars(s)[i] # 0, i + Chars(s)[i] \in T PROVE i \in T
  <2>. SUFFICES ASSUME Stop(Chars(s))[i] > n PROVE C[i] = SubSeq(s, i, n)
    OBVIOUS
  <2>1. Stop(Chars(s))[i + Chars(s)[i]] > n
    BY <1>5, <1>7
  <2>2. C[i + Chars(s)[i]] = SubSeq(s, i + Chars(s)[i], n)
    BY <1>7, <2>1
  <2>3. C[i] = SubSeq(s, i, i + Chars(s)[i] - 1) \o SubSeq(s, i + Chars(s)[i], n)
    BY <1>3, <1>4, <1>7, <2>2
  <2>. QED
    BY <1>1, <2>3, SubSeqGlued
<1>. HIDE DEF T
<1>8. \A i \in 1..(n + 1) : i \in T
  BY <1>0, <1>6, <1>7, WalkInduction
<1>9. IsText(s) => C[1] = s
  <2>1. 1 \in T
    BY <1>0, <1>8
  <2>2. SubSeq(s, 1, n) = s
    BY SubSeqFull
  <2>. QED
    BY <2>1, <2>2 DEF T, IsText
<1>. QED
  BY <1>2, <1>9 DEF C

(* What is written for a character is read as the character. *)
LEMMA CharEscapeUnit ==
  ASSUME NEW D \in Seq(Nat), NEW s \in Seq(Nat), NEW i \in 1..Len(s), CharAt(s, i) # 0
  PROVE  Unit(D, CharEscape(s, i), SubSeq(s, i, i + CharAt(s, i) - 1))
<1>1. CASE Ascii(s[i])
  <2>1. SubSeq(s, i, i) = <<s[i]>> /\ s[i] \in Nat /\ CharAt(s, i) = 1 /\ i + 1 - 1 = i
    BY <1>1, CharAtIs, Pieces
  <2>2. Unit(D, ConfigEscape(s[i]), <<s[i]>>)
    BY <1>1, <2>1, ConfigEscapeUnit
  <2>. QED
    BY <1>1, <2>1, <2>2 DEF CharEscape
<1>2. CASE ~Ascii(s[i])
  BY <1>2, CharUnit DEF CharEscape
<1>. QED
  BY <1>1, <1>2

(* A reader takes what escape_json makes of a text for the text. *)
THEOREM EscapeReadsBack ==
  ASSUME NEW D \in Seq(Nat), NEW s \in Seq(Nat), IsText(s)
  PROVE  StringAs(D, escape_json(s), s)
<1>. DEFINE n == Len(s)
            piece == Escapes(s)
            bychar == CharEscapes(s)
            own == [i \in 1..(n + 1) |-> SubSeq(s, i, i + Chars(s)[i] - 1)]
<1>0. n \in Nat /\ 1 \in 1..(n + 1) /\ Forward(Chars(s), n)
  BY CharsForward
<1>1. \A i \in 1..(n + 1) : Chars(s)[i] = IF i <= n THEN CharAt(s, i) ELSE 0
  BY DEF Chars, Positions
<1>2. bychar \in [1..(n + 1) -> Seq(Nat)] /\ Joined(Each(s), piece)[1] = Joined(Chars(s), bychar)[1]
  <2>1. /\ bychar \in [1..(n + 1) -> Seq(Nat)]
        /\ \A i \in 1..(n + 1) : Stop(Chars(s))[i] > n => Joined(Each(s), piece)[i] = Joined(Chars(s), bychar)[i]
    BY ByCharacters
  <2>. HIDE DEF n, piece, bychar
  <2>. QED
    BY <1>0, <2>1 DEF IsText, n
<1>3. own \in [1..(n + 1) -> Seq(Nat)] /\ Joined(Chars(s), own)[1] = s
  BY CharactersJoined
<1>4. ASSUME NEW i \in 1..(n + 1), Chars(s)[i] # 0 PROVE Unit(D, bychar[i], own[i])
  <2>1. i \in 1..n /\ Chars(s)[i] = CharAt(s, i)
    BY <1>1, <1>4
  <2>2. bychar[i] = CharEscape(s, i) /\ own[i] = SubSeq(s, i, i + CharAt(s, i) - 1)
    <3>1. i \in 1..(n + 1) /\ i <= n
      BY <2>1
    <3>2. bychar[i] = CharEscape(s, i)
      BY <3>1 DEF CharEscapes
    <3>. QED
      BY <2>1, <3>1, <3>2
  <2>. QED
    BY <1>4, <2>1, <2>2, CharEscapeUnit
<1>5. escape_json(s) = <<34>> \o Joined(Each(s), piece)[1] \o <<34>>
  BY DEF escape_json, Positions, Escapes
<1>. HIDE DEF piece, bychar, own
<1>6. Units(D, n, Chars(s), bychar, own)
  BY <1>0, <1>2, <1>3, <1>4 DEF Units
<1>. HIDE DEF n
<1>7. StringAs(D, <<34>> \o Joined(Chars(s), bychar)[1] \o <<34>>, Joined(Chars(s), own)[1])
  BY <1>0, <1>6, UnitsAreString
<1>. QED
  BY <1>2, <1>3, <1>5, <1>7

(* A reader takes what json_string makes of any bytes for their repair. *)
THEOREM HostStringReadsBack ==
  ASSUME NEW D \in Seq(Nat), NEW s \in Seq(Nat)
  PROVE  StringAs(D, json_string(s), Repaired(s))
<1>. DEFINE n == Len(s)
            bad(i) == i <= Len(s) /\ CharAt(s, i) = 0
            step == [i \in 1..(n + 1) |-> IF i <= n THEN HostLength(s, i) ELSE 0]
            piece == [i \in 1..(n + 1) |-> IF i <= n THEN HostPiece(s, i) ELSE <<>>]
            good == [i \in 1..(n + 1) |-> IF bad(i) THEN 1 ELSE Chars(s)[i]]
            own == [i \in 1..(n + 1) |-> IF bad(i) THEN Encoded(65533) ELSE SubSeq(s, i, i + Chars(s)[i] - 1)]
<1>0. n \in Nat /\ Forward(Chars(s), n)
  BY CharsForward
<1>1. \A i \in 1..(n + 1) : Chars(s)[i] = IF i <= n THEN CharAt(s, i) ELSE 0
  BY DEF Chars, Positions
<1>2. Chars(s) \in [1..(n + 1) -> Nat] /\ \A i \in 1..(n + 1) : i + Chars(s)[i] <= n + 1
  BY <1>0 DEF Forward
<1>3. Repaired(s) = Joined(good, own)[1]
  BY DEF Repaired, Positions
<1>4. json_string(s) = <<34>> \o Joined(step, piece)[1] \o <<34>>
  BY DEF json_string, Positions
<1>5. ASSUME NEW i \in 1..n
      PROVE  /\ step[i] = good[i] /\ good[i] \in Nat /\ i + good[i] <= n + 1
             /\ Unit(D, piece[i], own[i])
  <2>1. /\ step[i] = HostLength(s, i) /\ piece[i] = HostPiece(s, i) /\ s[i] \in Nat
        /\ Chars(s)[i] = CharAt(s, i) /\ CharAt(s, i) \in Nat /\ i + CharAt(s, i) <= n + 1
    BY <1>1, CharAtFits
  <2>2. good[i] = IF CharAt(s, i) = 0 THEN 1 ELSE CharAt(s, i)
    BY <2>1
  <2>3. own[i] = IF CharAt(s, i) = 0 THEN Encoded(65533) ELSE SubSeq(s, i, i + CharAt(s, i) - 1)
    <3>. DEFINE replacement == Encoded(65533)
    <3>1. own[i] = IF CharAt(s, i) = 0 THEN replacement ELSE SubSeq(s, i, i + CharAt(s, i) - 1)
      <4>1. i <= Len(s) /\ i \in 1..(n + 1)
        OBVIOUS
      <4>. HIDE DEF replacement
      <4>. QED
        BY <2>1, <4>1 DEF replacement
    <3>. QED
      BY <3>1
  <2>. HIDE DEF step, piece, good, own
  <2>4. CASE Ascii(s[i])
    <3>1. CharAt(s, i) = 1 /\ CharAt(s, i) # 0 /\ SubSeq(s, i, i) = <<s[i]>> /\ i + 1 - 1 = i
      BY <2>4, CharAtIs, Pieces
    <3>2. HostLength(s, i) = 1 /\ HostPiece(s, i) = HostEscape(s[i])
      BY <2>4 DEF HostLength, HostPiece
    <3>3. own[i] = <<s[i]>> /\ good[i] = 1 /\ step[i] = 1
      BY <2>1, <2>2, <2>3, <3>1, <3>2
    <3>4. Unit(D, HostEscape(s[i]), <<s[i]>>)
      BY <2>1, <2>4, HostEscapeUnit
    <3>. QED
      BY <2>1, <3>2, <3>3, <3>4
  <2>5. CASE ~Ascii(s[i])
    <3>1. utf8_sequence_length(s, i) = CharAt(s, i)
      BY <2>5, HostSequenceExact
    <3>2. CASE CharAt(s, i) = 0
      <4>1. HostLength(s, i) = 1 /\ HostPiece(s, i) = <<92, 117, 102, 102, 102, 100>>
        BY <2>5, <3>1, <3>2 DEF HostLength, HostPiece
      <4>2. Unit(D, <<92, 117, 102, 102, 102, 100>>, Encoded(65533))
        BY ReplacementUnit
      <4>3. good[i] = 1 /\ i + 1 <= n + 1
        BY <2>2, <3>2
      <4>. DEFINE escape == <<92, 117, 102, 102, 102, 100>>
                  replacement == Encoded(65533)
      <4>4. own[i] = replacement /\ Unit(D, escape, replacement) /\ piece[i] = escape
        BY <2>1, <2>3, <3>2, <4>1, <4>2
      <4>. HIDE DEF escape, replacement
      <4>. QED
        <5>1. step[i] = good[i]
          BY <2>1, <4>1, <4>3
        <5>2. Unit(D, piece[i], own[i])
          BY <4>4
        <5>. QED
          BY <4>3, <5>1, <5>2
    <3>3. CASE CharAt(s, i) # 0
      <4>1. HostLength(s, i) = CharAt(s, i) /\ HostPiece(s, i) = SubSeq(s, i, i + CharAt(s, i) - 1)
        BY <2>5, <3>1, <3>3 DEF HostLength, HostPiece
      <4>2. Unit(D, SubSeq(s, i, i + CharAt(s, i) - 1), SubSeq(s, i, i + CharAt(s, i) - 1))
        BY <2>5, <3>3, CharUnit
      <4>. QED
        BY <2>1, <2>2, <2>3, <3>3, <4>1, <4>2
    <3>. QED
      BY <3>2, <3>3
  <2>. QED
    BY <2>4, <2>5
<1>6. /\ n + 1 \in 1..(n + 1) /\ step[n + 1] = 0 /\ good[n + 1] = 0 /\ piece[n + 1] = <<>>
      /\ own[n + 1] \in Seq(Nat)
  <2>. DEFINE replacement == Encoded(65533)
  <2>1. n + 1 \in 1..(n + 1) /\ ~(n + 1 <= n) /\ Chars(s)[n + 1] = 0
    BY <1>1
  <2>2. SubSeq(s, n + 1, (n + 1) + 0 - 1) \in Seq(Nat)
    BY SubSeqNat
  <2>. HIDE DEF replacement
  <2>. QED
    BY <2>1, <2>2 DEF replacement
<1>7. step = good
  <2>1. \A i \in 1..(n + 1) : i = n + 1 \/ i \in 1..n
    BY <1>0
  <2>2. \A i \in 1..(n + 1) : step[i] = good[i]
    <3>1. \A i \in 1..n : step[i] = good[i]
      <4>. HIDE DEF step, good, piece, own
      <4>. QED
        BY <1>5
    <3>. HIDE DEF step, good
    <3>. QED
      BY <2>1, <3>1, <1>6
  <2>3. DOMAIN step = 1..(n + 1) /\ DOMAIN good = 1..(n + 1) /\ step = [i \in 1..(n + 1) |-> step[i]]
        /\ good = [i \in 1..(n + 1) |-> good[i]]
    OBVIOUS
  <2>. HIDE DEF step, good
  <2>. QED
    BY <2>2, <2>3
<1>8. Forward(step, n)
  <2>1. ASSUME NEW i \in 1..(n + 1) PROVE step[i] \in Nat /\ i + step[i] <= n + 1
    <3>. HIDE DEF step, good, piece, own
    <3>1. CASE i = n + 1
      BY <1>0, <1>6, <3>1
    <3>2. CASE i \in 1..n
      <4>1. step[i] = good[i] /\ good[i] \in Nat /\ i + good[i] <= n + 1
        BY <1>5, <3>2
      <4>. QED
        BY <4>1
    <3>. QED
      BY <3>1, <3>2
  <2>2. step = [i \in 1..(n + 1) |-> step[i]]
    OBVIOUS
  <2>. HIDE DEF step
  <2>. QED
    BY <2>1, <2>2 DEF Forward
<1>9. ASSUME NEW i \in 1..(n + 1)
      PROVE  /\ piece[i] \in Seq(Nat) /\ own[i] \in Seq(Nat)
             /\ step[i] # 0 => Unit(D, piece[i], own[i])
  <2>. HIDE DEF step, good, piece, own
  <2>1. CASE i = n + 1
    <3>1. <<>> \in Seq(Nat)
      OBVIOUS
    <3>. QED
      BY <1>6, <2>1, <3>1
  <2>2. CASE i \in 1..n
    <3>1. Unit(D, piece[i], own[i])
      BY <1>5, <2>2
    <3>. QED
      BY <3>1 DEF Unit
  <2>. QED
    BY <2>1, <2>2
<1>10. Units(D, n, step, piece, own)
  <2>1. piece = [i \in 1..(n + 1) |-> piece[i]] /\ own = [i \in 1..(n + 1) |-> own[i]]
    <3>. DEFINE replacement == Encoded(65533)
                made == [i \in 1..(n + 1) |-> IF bad(i) THEN replacement ELSE SubSeq(s, i, i + Chars(s)[i] - 1)]
    <3>. HIDE DEF replacement
    <3>1. made = [i \in 1..(n + 1) |-> made[i]]
      OBVIOUS
    <3>2. own = made
      BY DEF replacement
    <3>. HIDE DEF own, made
    <3>. QED
      BY <3>1, <3>2
  <2>. HIDE DEF step, piece, own
  <2>2. piece \in [1..(n + 1) -> Seq(Nat)] /\ own \in [1..(n + 1) -> Seq(Nat)]
    BY <1>9, <2>1
  <2>. QED
    BY <1>8, <1>9, <2>2 DEF Units
<1>. HIDE DEF step, good, piece, own, n
<1>11. StringAs(D, <<34>> \o Joined(step, piece)[1] \o <<34>>, Joined(step, own)[1])
  BY <1>0, <1>10, UnitsAreString
<1>. QED
  BY <1>3, <1>4, <1>7, <1>11

-----------------------------------------------------------------------------
(* Lists: items with commas between them *)

(* A sequence, of whatever. *)
Listed(v) == \E S : v \in Seq(S)

(* Concatenations are sequences. *)
LEMMA ConcatListed ==
  ASSUME NEW x, NEW y, Listed(x), Listed(y)
  PROVE  Listed(x \o y)
<1>1. PICK A : x \in Seq(A)
  BY DEF Listed
<1>2. PICK B : y \in Seq(B)
  BY DEF Listed
<1>3. x \in Seq(A \cup B) /\ y \in Seq(A \cup B)
  BY <1>1, <1>2
<1>4. x \o y \in Seq(A \cup B)
  BY <1>3, ConcatProperties
<1>. QED
  BY <1>4 DEF Listed

(* They may be bracketed either way. *)
LEMMA ConcatRight ==
  ASSUME NEW x, NEW y, NEW z, Listed(x), Listed(y), Listed(z)
  PROVE  (x \o y) \o z = x \o (y \o z)
<1>1. PICK A : x \in Seq(A)
  BY DEF Listed
<1>2. PICK B : y \in Seq(B)
  BY DEF Listed
<1>3. PICK C : z \in Seq(C)
  BY DEF Listed
<1>. DEFINE S == A \cup B \cup C
<1>4. x \in Seq(S) /\ y \in Seq(S) /\ z \in Seq(S)
  BY <1>1, <1>2, <1>3
<1>. HIDE DEF S
<1>. QED
  BY <1>4, ConcatAssociative

(* One element is a sequence. *)
LEMMA OneListed ==
  ASSUME NEW v
  PROVE  Listed(<<v>>)
<1>1. <<v>> \in Seq({v})
  OBVIOUS
<1>. QED
  BY <1>1 DEF Listed

(* The empty sequence adds nothing. *)
LEMMA NoneConcat ==
  ASSUME NEW x, Listed(x)
  PROVE  <<>> \o x = x /\ x \o <<>> = x
<1>1. PICK A : x \in Seq(A)
  BY DEF Listed
<1>. QED
  BY <1>1, ConcatEmptySeq

(* A piece of a document that `item` reads as v, wherever it sits. *)
ItemAs(D, item, x, v) ==
  /\ x \in Seq(Nat) /\ Len(x) >= 1
  /\ \A p \in Nat : Sits(D, p, x) => item[p] = Read(v, p + Len(x))

(* Where a list ends, and the values up to there. *)
ListStop(D, item) == Stop(ListSteps(D, item))
ListValues(D, item) == Joined(ListSteps(D, item), [j \in Positions(D) |-> <<item[j].value>>])

(* A reader of lists goes on, behind each comma. *)
LEMMA ListStepIs ==
  ASSUME NEW D \in Seq(Nat), NEW item
  PROVE  /\ Forward(ListSteps(D, item), Len(D))
         /\ \A i \in 1..(Len(D) + 1) : ListSteps(D, item)[i] =
              IF item[i].next > i /\ At(D, item[i].next, 44) THEN item[i].next + 1 - i ELSE 0
<1>1. \A i \in 1..(Len(D) + 1) : ListSteps(D, item)[i] =
        IF item[i].next > i /\ At(D, item[i].next, 44) THEN item[i].next + 1 - i ELSE 0
  BY DEF ListSteps, Positions
<1>2. ASSUME NEW i \in 1..(Len(D) + 1)
      PROVE  ListSteps(D, item)[i] \in Nat /\ i + ListSteps(D, item)[i] <= Len(D) + 1
  <2>. DEFINE next == item[i].next
  <2>1. ListSteps(D, item)[i] = IF next > i /\ At(D, next, 44) THEN next + 1 - i ELSE 0
    BY <1>1
  <2>2. At(D, next, 44) => next \in 1..Len(D)
    BY DEF At
  <2>. HIDE DEF next
  <2>. QED
    BY <2>1, <2>2
<1>3. ListSteps(D, item) = [i \in 1..(Len(D) + 1) |-> ListSteps(D, item)[i]]
  BY DEF ListSteps, Positions
<1>. QED
  BY <1>1, <1>2, <1>3 DEF Forward

(* One item, and the list behind its comma. *)
LEMMA ListIs ==
  ASSUME NEW D \in Seq(Nat), NEW item, NEW i \in 1..(Len(D) + 1)
  PROVE  /\ ListStop(D, item)[i] =
              IF ListSteps(D, item)[i] = 0 THEN i ELSE ListStop(D, item)[i + ListSteps(D, item)[i]]
         /\ ListValues(D, item)[i] =
              IF ListSteps(D, item)[i] = 0 THEN <<>>
              ELSE <<item[i].value>> \o ListValues(D, item)[i + ListSteps(D, item)[i]]
         /\ Listed(ListValues(D, item)[i])
<1>. DEFINE n == Len(D)
            step == ListSteps(D, item)
            V == {item[j].value : j \in 1..(n + 1)}
            piece == [j \in 1..(n + 1) |-> <<item[j].value>>]
<1>1. n \in Nat /\ Forward(step, n)
  BY ListStepIs
<1>2. piece \in [1..(n + 1) -> Seq(V)]
  <2>1. ASSUME NEW j \in 1..(n + 1) PROVE <<item[j].value>> \in Seq(V)
    <3>1. item[j].value \in V
      OBVIOUS
    <3>. HIDE DEF V
    <3>. QED
      BY <3>1
  <2>. QED
    BY <2>1
<1>3. ListValues(D, item) = Joined(step, piece)
  BY DEF ListValues, Positions
<1>4. piece[i] = <<item[i].value>>
  OBVIOUS
<1>. HIDE DEF n, step, V, piece
<1>5. \A j \in 1..(n + 1) :
        /\ Joined(step, piece)[j] = IF step[j] = 0 THEN <<>> ELSE piece[j] \o Joined(step, piece)[j + step[j]]
        /\ Joined(step, piece)[j] \in Seq(V)
  BY <1>1, <1>2, JoinedIs
<1>6. i \in 1..(n + 1)
  BY DEF n
<1>7. Stop(step)[i] = IF step[i] = 0 THEN i ELSE Stop(step)[i + step[i]]
  BY <1>1, <1>6, StopIs
<1>8. Listed(Joined(step, piece)[i])
  BY <1>5, <1>6 DEF Listed
<1>. QED
  BY <1>3, <1>4, <1>5, <1>6, <1>7, <1>8 DEF step, ListStop

(* From i a list goes on behind the comma at q, or ends at q; so far it has vals. *)
ListFrom(D, item, i, q, vals) ==
  /\ At(D, q, 44) => /\ ListStop(D, item)[i] = ListStop(D, item)[q + 1]
                     /\ ListValues(D, item)[i] = vals \o ListValues(D, item)[q + 1]
  /\ ~At(D, q, 44) => /\ item[ListStop(D, item)[i]].next = q
                      /\ ListValues(D, item)[i] \o <<item[ListStop(D, item)[i]].value>> = vals

(* Text of items with commas between them. *)
ItemsAs(D, item, x, vals) ==
  /\ x \in Seq(Nat) /\ Listed(vals)
  /\ \A i \in Nat : Sits(D, i, x) => ListFrom(D, item, i, i + Len(x), vals)

(* An item is a list of one. *)
LEMMA OneItem ==
  ASSUME NEW D \in Seq(Nat), NEW item, NEW x, NEW v, ItemAs(D, item, x, v)
  PROVE  ItemsAs(D, item, x, <<v>>)
<1>1. x \in Seq(Nat) /\ Len(x) \in Nat /\ Len(x) >= 1 /\ Listed(<<v>>)
  BY OneListed DEF ItemAs
<1>2. ASSUME NEW i \in Nat, Sits(D, i, x) PROVE ListFrom(D, item, i, i + Len(x), <<v>>)
  <2>. DEFINE q == i + Len(x)
  <2>1. q \in Nat /\ q > i /\ i \in 1..(Len(D) + 1)
    BY <1>1, <1>2 DEF Sits
  <2>2. item[i] = Read(v, q)
    BY <1>2 DEF ItemAs
  <2>3. item[i].next = q /\ item[i].value = v
    BY <2>2 DEF Read
  <2>. HIDE DEF q
  <2>4. ListSteps(D, item)[i] = IF At(D, q, 44) THEN q + 1 - i ELSE 0
    BY <2>1, <2>3, ListStepIs
  <2>5. CASE At(D, q, 44)
    <3>1. ListSteps(D, item)[i] # 0 /\ i + ListSteps(D, item)[i] = q + 1
      BY <2>1, <2>4, <2>5
    <3>2. /\ ListStop(D, item)[i] = ListStop(D, item)[i + ListSteps(D, item)[i]]
          /\ ListValues(D, item)[i] = <<item[i].value>> \o ListValues(D, item)[i + ListSteps(D, item)[i]]
      BY <2>1, <3>1, ListIs
    <3>3. /\ ListStop(D, item)[i] = ListStop(D, item)[q + 1]
          /\ ListValues(D, item)[i] = <<v>> \o ListValues(D, item)[q + 1]
      BY <2>3, <3>1, <3>2
    <3>. QED
      BY <2>5, <3>3 DEF ListFrom, q
  <2>6. CASE ~At(D, q, 44)
    <3>1. ListSteps(D, item)[i] = 0
      BY <2>4, <2>6
    <3>2. ListStop(D, item)[i] = i /\ ListValues(D, item)[i] = <<>>
      BY <2>1, <3>1, ListIs
    <3>3. <<>> \o <<v>> = <<v>>
      BY <1>1, NoneConcat
    <3>4. /\ item[ListStop(D, item)[i]].next = q
          /\ ListValues(D, item)[i] \o <<item[ListStop(D, item)[i]].value>> = <<v>>
      BY <2>3, <3>2, <3>3
    <3>. QED
      BY <2>6, <3>4 DEF ListFrom, q
  <2>. QED
    BY <2>5, <2>6 DEF q
<1>. QED
  BY <1>1, <1>2 DEF ItemsAs

(* Two lists with a comma between them are one. *)
LEMMA MoreItems ==
  ASSUME NEW D \in Seq(Nat), NEW item, NEW x, NEW v, NEW y, NEW w,
         ItemsAs(D, item, x, v), ItemsAs(D, item, y, w)
  PROVE  ItemsAs(D, item, x \o (<<44>> \o y), v \o w)
<1>1. x \in Seq(Nat) /\ y \in Seq(Nat) /\ <<44>> \in Seq(Nat) /\ Listed(v) /\ Listed(w) /\ Len(<<44>>) = 1
  BY DEF ItemsAs
<1>. DEFINE comma == <<44>>
            z == x \o (comma \o y)
<1>. HIDE DEF comma
<1>2. comma \o y \in Seq(Nat) /\ Len(comma \o y) = 1 + Len(y) /\ Len(y) \in Nat /\ Len(x) \in Nat
  <2>1. comma \in Seq(Nat) /\ y \in Seq(Nat) /\ Len(comma) = 1 /\ x \in Seq(Nat)
    BY <1>1 DEF comma
  <2>2. comma \o y \in Seq(Nat) /\ Len(comma \o y) = Len(comma) + Len(y)
    BY ONLY <2>1, ConcatNat
  <2>3. Len(y) \in Nat /\ Len(x) \in Nat
    BY <2>1
  <2>. QED
    BY <2>1, <2>2, <2>3
<1>3. z \in Seq(Nat) /\ Len(z) = Len(x) + (1 + Len(y))
  <2>1. x \in Seq(Nat) /\ comma \o y \in Seq(Nat) /\ Len(comma \o y) = 1 + Len(y)
    BY <1>1, <1>2
  <2>2. z \in Seq(Nat) /\ Len(z) = Len(x) + Len(comma \o y)
    BY ONLY <2>1, ConcatNat DEF z
  <2>. QED
    BY <2>1, <2>2
<1>4. Listed(v \o w)
  BY <1>1, ConcatListed
<1>5. ASSUME NEW i \in Nat, Sits(D, i, z) PROVE ListFrom(D, item, i, i + Len(z), v \o w)
  <2>. DEFINE q == i + Len(x)
              r == (q + 1) + Len(y)
  <2>1. q \in Nat /\ r \in Nat /\ r = i + Len(z)
    BY <1>2, <1>3
  <2>2. Sits(D, i, x) /\ Sits(D, q, comma \o y)
    BY <1>1, <1>2, <1>5, SitsConcat
  <2>3. Sits(D, q, comma) /\ Sits(D, q + 1, y)
    <3>1. comma \in Seq(Nat) /\ Len(comma) = 1
      BY <1>1 DEF comma
    <3>. HIDE DEF q
    <3>. QED
      BY <1>1, <2>1, <2>2, <3>1, SitsConcat
  <2>4. At(D, q, 44)
    BY <2>1, <2>3, SitsOne DEF comma, At
  <2>5. ListFrom(D, item, i, q, v)
    BY <2>2 DEF ItemsAs
  <2>6. ListFrom(D, item, q + 1, r, w)
    BY <2>1, <2>3 DEF ItemsAs
  <2>. HIDE DEF q, r
  <2>7. /\ ListStop(D, item)[i] = ListStop(D, item)[q + 1]
        /\ ListValues(D, item)[i] = v \o ListValues(D, item)[q + 1]
    BY <2>4, <2>5 DEF ListFrom
  <2>8. CASE At(D, r, 44)
    <3>1. /\ ListStop(D, item)[q + 1] = ListStop(D, item)[r + 1]
          /\ ListValues(D, item)[q + 1] = w \o ListValues(D, item)[r + 1]
      BY <2>6, <2>8 DEF ListFrom
    <3>2. r + 1 \in 1..(Len(D) + 1)
      BY <2>1, <2>8 DEF At
    <3>3. Listed(ListValues(D, item)[r + 1])
      BY <3>2, ListIs
    <3>4. v \o (w \o ListValues(D, item)[r + 1]) = (v \o w) \o ListValues(D, item)[r + 1]
      <4>. DEFINE l == ListValues(D, item)[r + 1]
      <4>1. Listed(v) /\ Listed(w) /\ Listed(l)
        BY <1>1, <3>3
      <4>. HIDE DEF l
      <4>2. (v \o w) \o l = v \o (w \o l)
        BY ONLY <4>1, ConcatRight
      <4>. QED
        BY <4>2 DEF l
    <3>. QED
      BY <2>1, <2>7, <2>8, <3>1, <3>4 DEF ListFrom
  <2>9. CASE ~At(D, r, 44)
    <3>. DEFINE last == item[ListStop(D, item)[q + 1]]
    <3>1. last.next = r /\ ListValues(D, item)[q + 1] \o <<last.value>> = w
      BY <2>6, <2>9 DEF ListFrom
    <3>2. q + 1 \in 1..(Len(D) + 1)
      BY <2>1, <2>3 DEF Sits
    <3>3. Listed(ListValues(D, item)[q + 1]) /\ Listed(<<last.value>>)
      BY <3>2, ListIs, OneListed
    <3>4. (v \o ListValues(D, item)[q + 1]) \o <<last.value>> = v \o w
      <4>. DEFINE l == ListValues(D, item)[q + 1]
                  e == <<last.value>>
      <4>0. Listed(v) /\ Listed(l) /\ Listed(e)
        BY <1>1, <3>3
      <4>. HIDE DEF l, e
      <4>1. (v \o l) \o e = v \o (l \o e)
        BY ONLY <4>0, ConcatRight, SMTT(40)
      <4>. QED
        BY <3>1, <4>1 DEF l, e
    <3>. QED
      BY <2>1, <2>7, <2>9, <3>1, <3>4 DEF ListFrom
  <2>. QED
    BY <2>8, <2>9
<1>. HIDE DEF z
<1>6. ItemsAs(D, item, z, v \o w)
  BY <1>3, <1>4, <1>5 DEF ItemsAs
<1>. QED
  BY <1>6 DEF z, comma

(* Up to the closing bracket, a list is read as its values. *)
LEMMA ItemsRead ==
  ASSUME NEW D \in Seq(Nat), NEW item, NEW x, NEW vals, ItemsAs(D, item, x, vals),
         NEW close \in Nat, close # 44, NEW i \in Nat, Sits(D, i, x \o <<close>>)
  PROVE  ReadList(D, i, item, close) = Read(vals, i + Len(x) + 1)
<1>. DEFINE q == i + Len(x)
            last == item[ListStop(D, item)[i]]
<1>1. x \in Seq(Nat) /\ Len(x) \in Nat /\ q \in Nat /\ <<close>> \in Seq(Nat)
  BY DEF ItemsAs
<1>2. Sits(D, i, x) /\ Sits(D, q, <<close>>)
  BY <1>1, SitsConcat
<1>3. q \in 1..Len(D) /\ D[q] = close
  BY <1>1, <1>2, SitsOne
<1>4. At(D, q, close) /\ ~At(D, q, 44) /\ q > 0
  BY <1>3 DEF At
<1>5. last.next = q /\ ListValues(D, item)[i] \o <<last.value>> = vals
  BY <1>2, <1>4 DEF ItemsAs, ListFrom
<1>. HIDE DEF q
<1>. QED
  BY <1>4, <1>5 DEF ReadList, ListStop, ListValues, q

-----------------------------------------------------------------------------
(* Values by depth *)

(* What is read at one depth from what is read at the depth below; at the   *)
(* bottom, nothing.                                                         *)
NothingRead(D) == [j \in Positions(D) |-> Fails]
ReadLevel(D, inner) == [i \in Positions(D) |-> ReadValue(D, i, inner)]
Inside(D, n, f) == IF n = 0 THEN NothingRead(D) ELSE f[n - 1]

(* The readings of all depths exist. *)
LEMMA ReadingExists ==
  ASSUME NEW D, NEW n \in Nat
  PROVE  \E f : f = [k \in 0..n |-> ReadLevel(D, Inside(D, k, f))]
<1>. DEFINE Good(m, f) == f = [k \in 0..m |-> ReadLevel(D, Inside(D, k, f))]
            S == {m \in Nat : \E f : Good(m, f)}
<1>1. 0 \in S
  <2>. DEFINE f == [k \in 0..0 |-> ReadLevel(D, NothingRead(D))]
  <2>1. \A k \in 0..0 : Inside(D, k, f) = NothingRead(D)
    BY DEF Inside
  <2>2. Good(0, f)
    <3>. HIDE DEF f
    <3>1. f = [k \in 0..0 |-> ReadLevel(D, NothingRead(D))]
      BY DEF f
    <3>. QED
      BY <2>1, <3>1
  <2>. QED
    BY <2>2
<1>2. ASSUME NEW m \in Nat, m \in S PROVE m + 1 \in S
  <2>1. PICK f : Good(m, f)
    BY <1>2
  <2>. DEFINE g == [k \in 0..(m + 1) |-> IF k = m + 1 THEN ReadLevel(D, f[m]) ELSE f[k]]
  <2>2. \A k \in 0..m : f[k] = ReadLevel(D, Inside(D, k, f))
    BY <2>1
  <2>3. \A k \in 0..m : k \in 0..(m + 1) /\ k # m + 1 /\ g[k] = f[k]
    OBVIOUS
  <2>4. g[m + 1] = ReadLevel(D, f[m])
    OBVIOUS
  <2>5. g = [k \in 0..(m + 1) |-> g[k]]
    OBVIOUS
  <2>. HIDE DEF g
  <2>6. ASSUME NEW k \in 0..(m + 1) PROVE g[k] = ReadLevel(D, Inside(D, k, g))
    <3>1. CASE k = m + 1
      <4>1. k # 0 /\ k - 1 = m /\ m \in 0..m
        BY <3>1
      <4>2. Inside(D, k, g) = f[m]
        BY <2>3, <4>1 DEF Inside
      <4>. QED
        BY <2>4, <3>1, <4>2
    <3>2. CASE k \in 0..m
      <4>1. k # 0 => k - 1 \in 0..m
        BY <3>2
      <4>2. Inside(D, k, g) = Inside(D, k, f)
        BY <2>3, <4>1 DEF Inside
      <4>. QED
        BY <2>2, <2>3, <3>2, <4>2
    <3>. QED
      BY <3>1, <3>2
  <2>7. Good(m + 1, g)
    BY <2>5, <2>6
  <2>. QED
    BY <2>7
<1>. HIDE DEF S
<1>3. \A m \in Nat : m \in S
  BY <1>1, <1>2, NatSetInduction
<1>. QED
  BY <1>3 DEF S

(* The reading at a depth is made from the one below. *)
LEMMA ReadingIs ==
  ASSUME NEW D \in Seq(Nat), NEW n \in 0..Len(D)
  PROVE  Reading(D)[n] = ReadLevel(D, Inside(D, n, Reading(D)))
<1>. DEFINE g == CHOOSE f : f = [k \in 0..Len(D) |-> ReadLevel(D, Inside(D, k, f))]
<1>1. Reading(D) = g
  BY DEF Reading, ReadLevel, Inside, NothingRead
<1>2. g = [k \in 0..Len(D) |-> ReadLevel(D, Inside(D, k, g))]
  <2>1. Len(D) \in Nat
    OBVIOUS
  <2>. QED
    BY <2>1, ReadingExists
<1>. HIDE DEF g
<1>3. g[n] = ReadLevel(D, Inside(D, n, g))
  BY <1>2
<1>. QED
  BY <1>1, <1>3

(* What ReadValue reads everywhere is an item. *)
LEMMA LevelAs ==
  ASSUME NEW D \in Seq(Nat), NEW inner, NEW x \in Seq(Nat), Len(x) >= 1, NEW v,
         \A p \in Nat : Sits(D, p, x) => ReadValue(D, p, inner) = Read(v, p + Len(x))
  PROVE  ItemAs(D, ReadLevel(D, inner), x, v)
<1>1. ASSUME NEW p \in Nat, Sits(D, p, x) PROVE ReadLevel(D, inner)[p] = Read(v, p + Len(x))
  <2>1. p \in Positions(D)
    BY <1>1 DEF Sits, Positions
  <2>. QED
    BY <1>1, <2>1 DEF ReadLevel
<1>. QED
  BY <1>1 DEF ItemAs

(* What begins with c. *)
LEMMA SitsFirst ==
  ASSUME NEW D \in Seq(Nat), NEW p \in Nat, NEW x \in Seq(Nat), Len(x) >= 1, Sits(D, p, x)
  PROVE  p \in 1..Len(D) /\ D[p] = x[1]
<1>1. p >= 1 /\ p + Len(x) <= Len(D) + 1 /\ \A k \in 1..Len(x) : D[p + k - 1] = x[k]
  BY DEF Sits
<1>2. 1 \in 1..Len(x) /\ p + 1 - 1 = p
  OBVIOUS
<1>3. D[p] = x[1]
  BY <1>1, <1>2
<1>4. p >= 1 /\ p + Len(x) <= Len(D) + 1
  BY <1>1
<1>. QED
  BY <1>3, <1>4

(* A string is an item at every depth. *)
LEMMA StringRead ==
  ASSUME NEW D \in Seq(Nat), NEW inner, NEW x, NEW t, StringAs(D, x, t)
  PROVE  ItemAs(D, ReadLevel(D, inner), x, JText(t))
<1>1. x \in Seq(Nat) /\ Len(x) >= 1 /\ x[1] = 34
  BY DEF StringAs
<1>2. ASSUME NEW p \in Nat, Sits(D, p, x) PROVE ReadValue(D, p, inner) = Read(JText(t), p + Len(x))
  <2>1. At(D, p, 34)
    BY <1>1, <1>2, SitsFirst DEF At
  <2>2. ReadString(D, p) = Read(JText(t), p + Len(x))
    BY <1>2 DEF StringAs
  <2>3. ~At(D, p, 123) /\ ~At(D, p, 91) /\ ~(p \in DOMAIN D /\ D[p] > 255)
    BY <2>1 DEF At
  <2>. QED
    BY <2>1, <2>2, <2>3 DEF ReadValue
<1>. QED
  BY <1>1, <1>2, LevelAs

(* So is a numeral. *)
LEMMA NumeralRead ==
  ASSUME NEW D \in Seq(Nat), NEW inner, NEW c \in Nat, c > 255
  PROVE  ItemAs(D, ReadLevel(D, inner), <<c>>, JNumber(c))
<1>1. <<c>> \in Seq(Nat) /\ Len(<<c>>) = 1 /\ Len(<<c>>) >= 1
  OBVIOUS
<1>2. ASSUME NEW p \in Nat, Sits(D, p, <<c>>)
      PROVE  ReadValue(D, p, inner) = Read(JNumber(c), p + Len(<<c>>))
  <2>1. p \in DOMAIN D /\ D[p] = c
    BY <1>2, SitsOne
  <2>2. ~At(D, p, 34) /\ ~At(D, p, 123) /\ ~At(D, p, 91) /\ D[p] > 255
    BY <2>1 DEF At
  <2>3. ReadValue(D, p, inner) = Read(JNumber(c), p + 1)
    BY <2>1, <2>2 DEF ReadValue
  <2>. QED
    BY <1>1, <2>3
<1>. DEFINE y == <<c>>
<1>. HIDE DEF y
<1>3. ItemAs(D, ReadLevel(D, inner), y, JNumber(c))
  BY <1>1, <1>2, LevelAs DEF y
<1>. QED
  BY <1>3 DEF y

(* The entries of objects that are read at one depth. *)
EntryLevel(D, inner) == [j \in Positions(D) |-> ReadEntry(D, j, inner)]

(* The length of what is in brackets. *)
LEMMA BracketsType ==
  ASSUME NEW open \in Nat, NEW close \in Nat, NEW x \in Seq(Nat)
  PROVE  /\ <<open>> \o x \o <<close>> \in Seq(Nat)
         /\ Len(<<open>> \o x \o <<close>>) = Len(x) + 2 /\ Len(x) \in Nat
<1>. DEFINE a == <<open>>
            b == <<close>>
<1>1. a \in Seq(Nat) /\ b \in Seq(Nat) /\ Len(a) = 1 /\ Len(b) = 1
  OBVIOUS
<1>. HIDE DEF a, b
<1>2. a \o x \in Seq(Nat) /\ Len(a \o x) = Len(a) + Len(x) /\ Len(x) \in Nat
  BY ONLY <1>1, x \in Seq(Nat), ConcatNat
<1>3. (a \o x) \o b \in Seq(Nat) /\ Len((a \o x) \o b) = Len(a \o x) + Len(b)
  BY ONLY <1>1, <1>2, ConcatNat
<1>4. Len((a \o x) \o b) = Len(x) + 2
  BY <1>1, <1>2, <1>3
<1>. QED
  BY <1>2, <1>3, <1>4 DEF a, b

(* What is in brackets sits between them. *)
LEMMA BracketsSit ==
  ASSUME NEW D \in Seq(Nat), NEW open \in Nat, NEW close \in Nat, NEW x \in Seq(Nat), NEW p \in Nat,
         Sits(D, p, <<open>> \o x \o <<close>>)
  PROVE  /\ At(D, p, open) /\ Sits(D, p + 1, x \o <<close>>)
         /\ Len(<<open>> \o x \o <<close>>) = Len(x) + 2
         /\ Len(x) >= 1 => At(D, p + 1, x[1])
<1>. DEFINE a == <<open>>
            b == <<close>>
<1>1. a \in Seq(Nat) /\ b \in Seq(Nat) /\ Len(a) = 1 /\ Len(b) = 1 /\ x \in Seq(Nat) /\ Len(x) \in Nat
  OBVIOUS
<1>. HIDE DEF a, b
<1>2. x \o b \in Seq(Nat) /\ Len(x \o b) = Len(x) + Len(b)
  BY ONLY <1>1, ConcatNat
<1>3. (a \o x) \o b = a \o (x \o b)
  BY ONLY <1>1, ConcatThree
<1>4. a \o (x \o b) \in Seq(Nat) /\ Len(a \o (x \o b)) = Len(a) + Len(x \o b)
  BY ONLY <1>1, <1>2, ConcatNat
<1>5. Sits(D, p, a \o (x \o b))
  BY <1>3 DEF a, b
<1>6. Sits(D, p, a) /\ Sits(D, p + 1, x \o b)
  BY <1>1, <1>2, <1>5, SitsConcat
<1>7. At(D, p, open)
  BY <1>6, SitsOne DEF At, a
<1>8. Len(x) >= 1 => At(D, p + 1, x[1])
  <2>1. p + 1 \in Nat
    OBVIOUS
  <2>2. Sits(D, p + 1, x)
    BY <1>1, <1>6, <2>1, SitsConcat
  <2>. QED
    BY <2>1, <2>2, SitsFirst, SMTT(40) DEF At
<1>9. Len(a \o (x \o b)) = Len(x) + 2
  BY <1>1, <1>2, <1>4
<1>. QED
  BY <1>3, <1>6, <1>7, <1>8, <1>9 DEF a, b

(* Entries with different keys in braces are an object. *)
LEMMA ObjectRead ==
  ASSUME NEW D \in Seq(Nat), NEW inner, NEW x, NEW vals, ItemsAs(D, EntryLevel(D, inner), x, vals),
         Len(x) >= 1, x[1] = 34, KeysDiffer(vals)
  PROVE  ItemAs(D, ReadLevel(D, inner), <<123>> \o x \o <<125>>, JObject(vals))
<1>. DEFINE y == <<123>> \o x \o <<125>>
            entry == [j \in Positions(D) |-> ReadEntry(D, j, inner)]
<1>1. x \in Seq(Nat) /\ Len(x) \in Nat
  BY DEF ItemsAs
<1>2. y \in Seq(Nat) /\ Len(y) = Len(x) + 2
  <2>1. 123 \in Nat /\ 125 \in Nat
    OBVIOUS
  <2>. QED
    BY ONLY <1>1, <2>1, BracketsType
<1>3. ASSUME NEW p \in Nat, Sits(D, p, y) PROVE ReadValue(D, p, inner) = Read(JObject(vals), p + Len(y))
  <2>0. 123 \in Nat /\ 125 \in Nat /\ 125 # 44
    OBVIOUS
  <2>1. At(D, p, 123) /\ Sits(D, p + 1, x \o <<125>>) /\ At(D, p + 1, 34)
    BY <1>1, <1>3, <2>0, BracketsSit
  <2>2. ~At(D, p, 34) /\ ~At(D, p, 91) /\ ~(p \in DOMAIN D /\ D[p] > 255) /\ ~At(D, p + 1, 125)
    BY <2>1 DEF At
  <2>. DEFINE list == ReadList(D, p + 1, entry, 125)
  <2>3. list = Read(vals, (p + 1) + Len(x) + 1)
    <3>1. ItemsAs(D, entry, x, vals) /\ p + 1 \in Nat
      BY DEF EntryLevel
    <3>. HIDE DEF entry
    <3>. QED
      BY <2>0, <2>1, <3>1, ItemsRead
  <2>4. list.next = p + Len(y) /\ list.value = vals
    <3>1. (p + 1) + Len(x) + 1 = p + Len(y)
      BY <1>1, <1>2
    <3>. HIDE DEF list, y
    <3>. QED
      BY <2>3, <3>1 DEF Read
  <2>5. list.next > 0
    <3>1. p + Len(y) > 0
      BY <1>1, <1>2
    <3>. HIDE DEF list, y
    <3>. QED
      BY <2>4, <3>1
  <2>6. ReadValue(D, p, inner) =
          IF list.next > 0 /\ KeysDiffer(list.value) THEN Read(JObject(list.value), list.next) ELSE Fails
    <3>1. ReadValue(D, p, inner) =
            CASE At(D, p, 34) -> ReadString(D, p)
              [] At(D, p, 123) /\ At(D, p + 1, 125) -> Read(JObject(<<>>), p + 2)
              [] At(D, p, 123) /\ ~At(D, p + 1, 125) -> ObjectOf(list)
              [] At(D, p, 91) /\ At(D, p + 1, 93) -> Read(JArray(<<>>), p + 2)
              [] At(D, p, 91) /\ ~At(D, p + 1, 93) -> ArrayOf(ReadList(D, p + 1, inner, 93))
              [] p \in DOMAIN D /\ D[p] > 255 -> Read(JNumber(D[p]), p + 1)
              [] OTHER -> Fails
      BY DEF ReadValue
    <3>. HIDE DEF list
    <3>. QED
      BY <2>1, <2>2, <3>1 DEF ObjectOf
  <2>. HIDE DEF list, y
  <2>. QED
    BY <2>4, <2>5, <2>6
<1>4. Len(y) >= 1
  BY <1>1, <1>2
<1>. HIDE DEF y
<1>5. ItemAs(D, ReadLevel(D, inner), y, JObject(vals))
  BY <1>2, <1>3, <1>4, LevelAs
<1>. QED
  BY <1>5 DEF y

(* Objects in brackets are an array. *)
LEMMA ArrayRead ==
  ASSUME NEW D \in Seq(Nat), NEW inner, NEW x, NEW vals, ItemsAs(D, inner, x, vals),
         Len(x) >= 1, x[1] \in {34, 123}
  PROVE  ItemAs(D, ReadLevel(D, inner), <<91>> \o x \o <<93>>, JArray(vals))
<1>. DEFINE y == <<91>> \o x \o <<93>>
<1>1. x \in Seq(Nat) /\ Len(x) \in Nat
  BY DEF ItemsAs
<1>2. y \in Seq(Nat) /\ Len(y) = Len(x) + 2
  <2>1. 91 \in Nat /\ 93 \in Nat
    OBVIOUS
  <2>. QED
    BY ONLY <1>1, <2>1, BracketsType
<1>3. ASSUME NEW p \in Nat, Sits(D, p, y) PROVE ReadValue(D, p, inner) = Read(JArray(vals), p + Len(y))
  <2>0. 91 \in Nat /\ 93 \in Nat /\ 93 # 44
    OBVIOUS
  <2>1. At(D, p, 91) /\ Sits(D, p + 1, x \o <<93>>) /\ At(D, p + 1, x[1])
    BY <1>1, <1>3, <2>0, BracketsSit
  <2>2. ~At(D, p, 34) /\ ~At(D, p, 123) /\ ~(p \in DOMAIN D /\ D[p] > 255) /\ ~At(D, p + 1, 93)
    BY <2>1 DEF At
  <2>. DEFINE list == ReadList(D, p + 1, inner, 93)
  <2>3. list = Read(vals, (p + 1) + Len(x) + 1)
    <3>. DEFINE q == p + 1
    <3>1. q \in Nat /\ Sits(D, q, x \o <<93>>) /\ ItemsAs(D, inner, x, vals)
      BY <2>1
    <3>. HIDE DEF q
    <3>2. ReadList(D, q, inner, 93) = Read(vals, q + Len(x) + 1)
      BY ONLY <2>0, <3>1, D \in Seq(Nat), ItemsRead
    <3>. QED
      BY <3>2 DEF q
  <2>4. list.next = p + Len(y) /\ list.value = vals
    <3>1. (p + 1) + Len(x) + 1 = p + Len(y)
      BY <1>1, <1>2
    <3>. HIDE DEF list, y
    <3>. QED
      BY <2>3, <3>1 DEF Read
  <2>5. list.next > 0
    <3>1. p + Len(y) > 0
      BY <1>1, <1>2
    <3>. HIDE DEF list, y
    <3>. QED
      BY <2>4, <3>1
  <2>. DEFINE object == ReadList(D, p + 1, [j \in Positions(D) |-> ReadEntry(D, j, inner)], 125)
  <2>6. ReadValue(D, p, inner) = IF list.next > 0 THEN Read(JArray(list.value), list.next) ELSE Fails
    <3>1. ReadValue(D, p, inner) =
            CASE At(D, p, 34) -> ReadString(D, p)
              [] At(D, p, 123) /\ At(D, p + 1, 125) -> Read(JObject(<<>>), p + 2)
              [] At(D, p, 123) /\ ~At(D, p + 1, 125) -> ObjectOf(object)
              [] At(D, p, 91) /\ At(D, p + 1, 93) -> Read(JArray(<<>>), p + 2)
              [] At(D, p, 91) /\ ~At(D, p + 1, 93) -> ArrayOf(list)
              [] p \in DOMAIN D /\ D[p] > 255 -> Read(JNumber(D[p]), p + 1)
              [] OTHER -> Fails
      BY DEF ReadValue
    <3>. HIDE DEF list, object
    <3>. QED
      BY <2>1, <2>2, <3>1 DEF ArrayOf
  <2>. HIDE DEF list, y
  <2>. QED
    BY <2>4, <2>5, <2>6
<1>4. Len(y) >= 1
  BY <1>1, <1>2
<1>. HIDE DEF y
<1>5. ItemAs(D, ReadLevel(D, inner), y, JArray(vals))
  BY <1>2, <1>3, <1>4, LevelAs
<1>. QED
  BY <1>5 DEF y

(* What a concatenation begins with. *)
LEMMA ConcatFirst ==
  ASSUME NEW x \in Seq(Nat), NEW y \in Seq(Nat), Len(x) >= 1
  PROVE  (x \o y)[1] = x[1] /\ Len(x \o y) >= 1
<1>1. /\ x \o y \in Seq(Nat) /\ Len(x \o y) = Len(x) + Len(y)
      /\ \A k \in 1..(Len(x) + Len(y)) : (x \o y)[k] = IF k <= Len(x) THEN x[k] ELSE y[k - Len(x)]
  BY ConcatProperties
<1>2. Len(x) \in Nat /\ Len(y) \in Nat
  OBVIOUS
<1>3. 1 \in 1..(Len(x) + Len(y)) /\ 1 <= Len(x)
  BY <1>2
<1>4. (x \o y)[1] = x[1]
  BY <1>1, <1>3
<1>5. Len(x \o y) = Len(x) + Len(y)
  BY <1>1
<1>. QED
  BY <1>2, <1>4, <1>5

(* A key, a colon and a value are an entry. *)
LEMMA EntryRead ==
  ASSUME NEW D \in Seq(Nat), NEW inner, NEW key, NEW t, NEW x, NEW v,
         StringAs(D, key, t), ItemAs(D, inner, x, v)
  PROVE  /\ ItemAs(D, EntryLevel(D, inner), key \o <<58>> \o x, <<t, v>>)
         /\ (key \o <<58>> \o x)[1] = 34
<1>. DEFINE colon == <<58>>
            y == key \o colon \o x
<1>1. /\ key \in Seq(Nat) /\ colon \in Seq(Nat) /\ x \in Seq(Nat) /\ Len(colon) = 1
      /\ Len(key) \in Nat /\ Len(x) \in Nat
  BY DEF StringAs, ItemAs
<1>2. Len(key) >= 2 /\ key[1] = 34 /\ Len(x) >= 1
  BY DEF StringAs, ItemAs
<1>. HIDE DEF colon
<1>3. colon \o x \in Seq(Nat) /\ Len(colon \o x) = Len(colon) + Len(x)
  BY ONLY <1>1, ConcatNat
<1>4. y = key \o (colon \o x)
  BY ONLY <1>1, ConcatThree
<1>5. y \in Seq(Nat) /\ Len(y) = Len(key) + Len(colon \o x)
  <2>. DEFINE z == colon \o x
  <2>1. key \in Seq(Nat) /\ z \in Seq(Nat)
    BY <1>1, <1>3
  <2>. HIDE DEF z
  <2>2. key \o z \in Seq(Nat) /\ Len(key \o z) = Len(key) + Len(z)
    BY ONLY <2>1, ConcatNat
  <2>. QED
    BY <1>4, <2>2 DEF z
<1>6. Len(y) = Len(key) + 1 + Len(x)
  BY <1>1, <1>3, <1>5
<1>7. y[1] = 34
  <2>1. Len(key) >= 1
    BY <1>1, <1>2
  <2>. HIDE DEF y
  <2>. QED
    BY <1>1, <1>2, <1>3, <1>4, <2>1, ConcatFirst
<1>8. ASSUME NEW p \in Nat, Sits(D, p, y)
      PROVE  EntryLevel(D, inner)[p] = Read(<<t, v>>, p + Len(y))
  <2>. DEFINE q == p + Len(key)
  <2>1. q \in Nat /\ q > 0 /\ q + 1 \in Nat
    BY <1>1, <1>2
  <2>2. Sits(D, p, key) /\ Sits(D, q, colon \o x)
    <3>1. Sits(D, p, key \o (colon \o x))
      BY <1>4, <1>8
    <3>. QED
      BY <1>1, <1>3, <3>1, SitsConcat
  <2>. HIDE DEF q
  <2>3. Sits(D, q, colon) /\ Sits(D, q + 1, x)
    BY <1>1, <2>1, <2>2, SitsConcat
  <2>4. At(D, p, 34)
    <3>1. Len(key) >= 1
      BY <1>1, <1>2
    <3>. QED
      BY <1>1, <1>2, <2>2, <3>1, SitsFirst, SMTT(40) DEF At
  <2>5. At(D, q, 58)
    BY <2>1, <2>3, SitsOne DEF colon, At
  <2>. DEFINE first == ReadString(D, p)
              value == inner[q + 1]
              r == (q + 1) + Len(x)
  <2>6. first = Read(JText(t), q)
    BY <2>2 DEF StringAs, q
  <2>7. value = Read(v, r)
    BY <2>1, <2>3 DEF ItemAs
  <2>8. r > 0 /\ r = p + Len(y)
    BY <1>1, <1>6, <2>1 DEF q
  <2>. HIDE DEF first, value, r
  <2>9. first.next = q /\ first.value.text = t /\ value.next = r /\ value.value = v
    BY <2>6, <2>7 DEF Read, JText
  <2>10. ReadEntry(D, p, inner) = Read(<<t, v>>, r)
    <3>1. ReadEntry(D, p, inner) =
            LET k == IF At(D, p, 34) THEN first ELSE Fails
                w == IF k.next > 0 /\ At(D, k.next, 58) THEN inner[k.next + 1] ELSE Fails
            IN  IF w.next > 0 THEN Read(<<k.value.text, w.value>>, w.next) ELSE Fails
      BY DEF ReadEntry, AfterKey, EntryOf, first
    <3>2. (IF At(D, p, 34) THEN first ELSE Fails) = first
      BY <2>4
    <3>3. (IF first.next > 0 /\ At(D, first.next, 58) THEN inner[first.next + 1] ELSE Fails) = value
      BY <2>1, <2>5, <2>9 DEF value
    <3>4. ReadEntry(D, p, inner) =
            IF value.next > 0 THEN Read(<<first.value.text, value.value>>, value.next) ELSE Fails
      BY <3>1, <3>2, <3>3
    <3>. QED
      BY <2>8, <2>9, <3>4
  <2>11. p \in Positions(D)
    BY <1>8 DEF Sits, Positions
  <2>. HIDE DEF y
  <2>. QED
    BY <2>8, <2>10, <2>11 DEF EntryLevel
<1>9. Len(y) >= 1
  BY <1>1, <1>2, <1>6
<1>. HIDE DEF y
<1>10. ItemAs(D, EntryLevel(D, inner), y, <<t, v>>)
  BY <1>5, <1>8, <1>9 DEF ItemAs
<1>. QED
  BY <1>7, <1>10 DEF y, colon

(* Empty brackets. *)
LEMMA EmptyRead ==
  ASSUME NEW D \in Seq(Nat), NEW inner
  PROVE  /\ ItemAs(D, ReadLevel(D, inner), <<123>> \o <<>> \o <<125>>, JObject(<<>>))
         /\ ItemAs(D, ReadLevel(D, inner), <<91>> \o <<>> \o <<93>>, JArray(<<>>))
<1>. DEFINE none == <<>>
            object == <<123>> \o none \o <<125>>
            array == <<91>> \o none \o <<93>>
<1>1. none \in Seq(Nat) /\ Len(none) = 0
  OBVIOUS
<1>2. object \in Seq(Nat) /\ Len(object) = 2 /\ array \in Seq(Nat) /\ Len(array) = 2
  <2>1. 123 \in Nat /\ 125 \in Nat /\ 91 \in Nat /\ 93 \in Nat
    OBVIOUS
  <2>. HIDE DEF none
  <2>2. object \in Seq(Nat) /\ Len(object) = Len(none) + 2
    BY ONLY <1>1, <2>1, BracketsType
  <2>3. array \in Seq(Nat) /\ Len(array) = Len(none) + 2
    BY ONLY <1>1, <2>1, BracketsType
  <2>. QED
    BY <1>1, <2>2, <2>3
<1>. HIDE DEF none
<1>3. none \o <<125>> = <<125>> /\ none \o <<93>> = <<93>>
  BY DEF none
<1>4. ASSUME NEW p \in Nat, Sits(D, p, object)
      PROVE  ReadValue(D, p, inner) = Read(JObject(<<>>), p + Len(object))
  <2>1. At(D, p, 123) /\ Sits(D, p + 1, <<125>>)
    <3>1. 123 \in Nat /\ 125 \in Nat /\ none \in Seq(Nat)
      BY <1>1
    <3>2. Sits(D, p, <<123>> \o none \o <<125>>)
      BY <1>4
    <3>3. At(D, p, 123) /\ Sits(D, p + 1, none \o <<125>>)
      BY ONLY <3>1, <3>2, D \in Seq(Nat), p \in Nat, BracketsSit
    <3>. QED
      BY <1>3, <3>3
  <2>2. At(D, p + 1, 125)
    <3>1. p + 1 \in Nat
      OBVIOUS
    <3>. QED
      BY <2>1, <3>1, SitsOne DEF At
  <2>3. ~At(D, p, 34) /\ ~At(D, p, 91) /\ ~(p \in DOMAIN D /\ D[p] > 255)
    BY <2>1 DEF At
  <2>4. ReadValue(D, p, inner) = Read(JObject(<<>>), p + 2)
    BY <2>1, <2>2, <2>3 DEF ReadValue
  <2>. QED
    BY <1>2, <2>4
<1>5. ASSUME NEW p \in Nat, Sits(D, p, array)
      PROVE  ReadValue(D, p, inner) = Read(JArray(<<>>), p + Len(array))
  <2>1. At(D, p, 91) /\ Sits(D, p + 1, <<93>>)
    <3>1. 91 \in Nat /\ 93 \in Nat /\ none \in Seq(Nat)
      BY <1>1
    <3>2. Sits(D, p, <<91>> \o none \o <<93>>)
      BY <1>5
    <3>3. At(D, p, 91) /\ Sits(D, p + 1, none \o <<93>>)
      BY ONLY <3>1, <3>2, D \in Seq(Nat), p \in Nat, BracketsSit
    <3>. QED
      BY <1>3, <3>3
  <2>2. At(D, p + 1, 93)
    <3>1. p + 1 \in Nat
      OBVIOUS
    <3>. QED
      BY <2>1, <3>1, SitsOne DEF At
  <2>3. ~At(D, p, 34) /\ ~At(D, p, 123) /\ ~(p \in DOMAIN D /\ D[p] > 255)
    BY <2>1 DEF At
  <2>4. ReadValue(D, p, inner) = Read(JArray(<<>>), p + 2)
    BY <2>1, <2>2, <2>3 DEF ReadValue
  <2>. QED
    BY <1>2, <2>4
<1>6. Len(object) >= 1 /\ Len(array) >= 1
  BY <1>2
<1>. HIDE DEF object, array
<1>7. ItemAs(D, ReadLevel(D, inner), object, JObject(<<>>)) /\ ItemAs(D, ReadLevel(D, inner), array, JArray(<<>>))
  <2>1. object \in Seq(Nat) /\ array \in Seq(Nat)
    BY <1>2
  <2>. QED
    BY <1>4, <1>5, <1>6, <2>1, LevelAs
<1>. QED
  BY <1>7 DEF object, array, none

(* Items with commas between them are a list. *)
LEMMA CommasRead ==
  ASSUME NEW D \in Seq(Nat), NEW item, NEW parts \in Seq(Seq(Nat)), Len(parts) >= 1,
         NEW V, NEW vals \in Seq(V), Len(vals) = Len(parts),
         \A k \in 1..Len(parts) : ItemAs(D, item, parts[k], vals[k])
  PROVE  /\ ItemsAs(D, item, Commas(parts), vals)
         /\ Len(Commas(parts)) >= 1 /\ Commas(parts)[1] = parts[1][1]
         /\ Len(parts) # 1 => Len(Commas(parts)) >= Len(parts[1]) + 1
<1>. DEFINE n == Len(parts)
            step == Each(parts)
            piece == [k \in 1..(n + 1) |->
                        CASE k < n -> parts[k] \o <<44>> [] k = n -> parts[k] [] OTHER -> <<>>]
            J == Joined(step, piece)
<1>0. n \in Nat /\ n >= 1 /\ Forward(step, n) /\ \A k \in 1..n : parts[k] \in Seq(Nat)
  BY EachForward
<1>1. Commas(parts) = J[1]
  BY DEF Commas, Positions
<1>2. /\ \A k \in 1..n : step[k] = 1 /\ ~(step[k] = 0)
      /\ step[n + 1] = 0
  BY DEF Each, Positions
<1>3. /\ \A k \in 1..n : k < n => piece[k] = parts[k] \o <<44>>
      /\ piece[n] = parts[n] /\ piece[n + 1] = <<>>
  <2>1. n \in 1..(n + 1) /\ n + 1 \in 1..(n + 1) /\ ~(n < n) /\ ~(n + 1 < n) /\ n + 1 # n
    BY <1>0
  <2>2. \A k \in 1..n : k < n => k \in 1..(n + 1) /\ k # n
    BY <1>0
  <2>. HIDE DEF n
  <2>. QED
    BY <2>1, <2>2
<1>4. piece \in [1..(n + 1) -> Seq(Nat)]
  <2>1. ASSUME NEW k \in 1..(n + 1) PROVE piece[k] \in Seq(Nat)
    <3>. HIDE DEF piece
    <3>1. CASE k < n
      <4>1. k \in 1..n /\ <<44>> \in Seq(Nat)
        BY <3>1
      <4>2. parts[k] \in Seq(Nat)
        BY <1>0, <4>1
      <4>3. parts[k] \o <<44>> \in Seq(Nat)
        BY ONLY <4>1, <4>2, ConcatNat
      <4>. QED
        BY <1>3, <3>1, <4>1, <4>3
    <3>2. CASE k = n
      <4>1. n \in 1..n
        BY <1>0
      <4>. QED
        BY <1>0, <1>3, <3>2, <4>1
    <3>3. CASE k = n + 1
      BY <1>3, <3>3, EmptySeq
    <3>. QED
      BY <1>0, <3>1, <3>2, <3>3
  <2>2. piece = [k \in 1..(n + 1) |-> piece[k]]
    OBVIOUS
  <2>. HIDE DEF piece, n
  <2>. QED
    BY <2>1, <2>2
<1>5. \A k \in 1..(n + 1) :
        /\ J[k] = IF step[k] = 0 THEN <<>> ELSE piece[k] \o J[k + step[k]]
        /\ J[k] \in Seq(Nat)
  <2>. HIDE DEF n, step, piece
  <2>. QED
    BY ONLY <1>0, <1>4, JoinedIs DEF J
<1>. HIDE DEF n, step, piece, J
<1>6. \A k \in 1..n : J[k] = piece[k] \o J[k + 1] /\ J[k + 1] \in Seq(Nat) /\ J[k] \in Seq(Nat)
  <2>. SUFFICES ASSUME NEW k \in 1..n
                PROVE  J[k] = piece[k] \o J[k + 1] /\ J[k + 1] \in Seq(Nat) /\ J[k] \in Seq(Nat)
    OBVIOUS
  <2>1. k \in 1..(n + 1) /\ k + 1 \in 1..(n + 1)
    BY <1>0
  <2>. QED
    BY <1>2, <1>5, <2>1
<1>7. J[n + 1] = <<>>
  <2>1. n + 1 \in 1..(n + 1)
    BY <1>0
  <2>. QED
    BY <1>2, <1>5, <2>1
<1>8. n = Len(vals) /\ \A k \in 1..n : ItemAs(D, item, parts[k], vals[k])
  BY DEF n
<1>. DEFINE T == {k \in 1..(n + 1) : k <= n => ItemsAs(D, item, J[k], SubSeq(vals, k, n))}
<1>9. ASSUME NEW k \in 1..(n + 1), step[k] = 0 PROVE k \in T
  <2>1. k \notin 1..n
    BY <1>2, <1>9
  <2>2. ~(k <= n)
    BY <1>0, <2>1
  <2>. QED
    BY <2>2
<1>10. ASSUME NEW k \in 1..(n + 1), step[k] # 0, k + step[k] \in T PROVE k \in T
  <2>1. k \in 1..n
    <3>1. k # n + 1
      BY <1>2, <1>10
    <3>. QED
      BY <1>0, <3>1
  <2>2. step[k] = 1
    BY <1>2, <2>1
  <2>3. SubSeq(vals, k, n) = <<vals[k]>> \o SubSeq(vals, k + 1, n)
    <3>1. k \in 1..Len(vals) /\ n \in k..Len(vals)
      BY <1>0, <1>8, <2>1
    <3>. QED
      BY <3>1, SubSeqRecursiveFirst
  <2>4. ItemsAs(D, item, parts[k], <<vals[k]>>)
    BY <1>8, <2>1, OneItem
  <2>5. CASE k = n
    <3>1. J[k] = parts[k]
      <4>1. J[k] = parts[k] \o <<>> /\ parts[k] \in Seq(Nat)
        BY <1>0, <1>3, <1>6, <1>7, <2>1, <2>5
      <4>. QED
        BY <4>1, ConcatEmptySeq
    <3>2. SubSeq(vals, k + 1, n) = <<>>
      <4>1. k + 1 \in Int /\ n \in Int /\ n < k + 1
        BY <1>0, <2>5
      <4>. QED
        BY <4>1, SubSeqEmpty
    <3>3. <<vals[k]>> \o <<>> = <<vals[k]>>
      BY OneListed, NoneConcat
    <3>. QED
      BY <2>3, <2>4, <3>1, <3>2, <3>3
  <2>6. CASE k # n
    <3>1. k < n /\ k + 1 <= n
      BY <1>0, <2>1, <2>6
    <3>2. ItemsAs(D, item, J[k + 1], SubSeq(vals, k + 1, n))
      BY <1>10, <2>2, <3>1
    <3>3. ItemsAs(D, item, parts[k] \o (<<44>> \o J[k + 1]), <<vals[k]>> \o SubSeq(vals, k + 1, n))
      BY <2>4, <3>2, MoreItems
    <3>4. J[k] = parts[k] \o (<<44>> \o J[k + 1])
      <4>. DEFINE comma == <<44>>
                  x == parts[k]
                  y == J[k + 1]
      <4>1. x \in Seq(Nat) /\ comma \in Seq(Nat) /\ y \in Seq(Nat)
        <5>1. <<44>> \in Seq(Nat)
          OBVIOUS
        <5>2. parts[k] \in Seq(Nat) /\ J[k + 1] \in Seq(Nat)
          BY <1>0, <1>6, <2>1
        <5>. QED
          BY <5>1, <5>2
      <4>2. J[k] = (x \o comma) \o y
        BY <1>3, <1>6, <2>1, <3>1
      <4>. HIDE DEF comma, x, y
      <4>3. (x \o comma) \o y = x \o (comma \o y)
        BY ONLY <4>1, ConcatThree
      <4>. QED
        BY <4>2, <4>3 DEF comma, x, y
    <3>. QED
      BY <2>3, <3>3, <3>4
  <2>. QED
    BY <2>5, <2>6
<1>. HIDE DEF T
<1>11. \A k \in 1..(n + 1) : k \in T
  BY <1>0, <1>9, <1>10, WalkInduction
<1>12. ItemsAs(D, item, J[1], vals)
  <2>1. 1 \in 1..(n + 1) /\ 1 <= n
    BY <1>0
  <2>2. ItemsAs(D, item, J[1], SubSeq(vals, 1, n))
    BY <1>11, <2>1 DEF T
  <2>3. SubSeq(vals, 1, n) = vals
    BY <1>8, SubSeqFull
  <2>. QED
    BY <2>2, <2>3
<1>13. Len(J[1]) >= 1 /\ J[1][1] = parts[1][1] /\ (n # 1 => Len(J[1]) >= Len(parts[1]) + 1)
  <2>1. 1 \in 1..n
    BY <1>0
  <2>2. ItemAs(D, item, parts[1], vals[1])
    BY <1>8, <2>1
  <2>3. parts[1] \in Seq(Nat) /\ Len(parts[1]) >= 1
    BY <2>2 DEF ItemAs
  <2>4. /\ piece[1] \in Seq(Nat) /\ Len(piece[1]) >= 1 /\ piece[1][1] = parts[1][1]
        /\ n # 1 => Len(piece[1]) = Len(parts[1]) + 1
    <3>1. CASE n = 1
      BY <1>3, <2>3, <3>1
    <3>2. CASE n # 1
      <4>1. 1 < n /\ <<44>> \in Seq(Nat)
        BY <1>0, <3>2
      <4>2. piece[1] = parts[1] \o <<44>>
        BY <1>3, <2>1, <4>1
      <4>3. /\ parts[1] \o <<44>> \in Seq(Nat)
            /\ Len(parts[1] \o <<44>>) = Len(parts[1]) + 1
        <5>. DEFINE comma == <<44>>
        <5>1. Len(comma) = 1 /\ comma \in Seq(Nat)
          BY <4>1
        <5>. HIDE DEF comma
        <5>2. parts[1] \o comma \in Seq(Nat) /\ Len(parts[1] \o comma) = Len(parts[1]) + Len(comma)
          BY ONLY <2>3, <5>1, ConcatNat
        <5>. QED
          BY <5>1, <5>2 DEF comma
      <4>4. (parts[1] \o <<44>>)[1] = parts[1][1] /\ Len(parts[1] \o <<44>>) >= 1
        BY ONLY <2>3, <4>1, ConcatFirst
      <4>. QED
        BY <4>2, <4>3, <4>4
    <3>. QED
      BY <3>1, <3>2
  <2>5. J[1] = piece[1] \o J[2] /\ J[2] \in Seq(Nat)
    <3>1. 1 + 1 = 2
      OBVIOUS
    <3>. QED
      BY <1>6, <2>1, <3>1
  <2>. DEFINE a == piece[1]
              b == J[2]
  <2>6. a \in Seq(Nat) /\ b \in Seq(Nat) /\ Len(a) >= 1
    BY <2>4, <2>5
  <2>. HIDE DEF a, b
  <2>7. (a \o b)[1] = a[1] /\ Len(a \o b) >= 1
    BY ONLY <2>6, ConcatFirst
  <2>8. Len(a \o b) = Len(a) + Len(b) /\ Len(b) \in Nat /\ Len(a) \in Nat
    BY ONLY <2>6, ConcatNat
  <2>9. Len(J[1]) >= Len(piece[1])
    <3>1. Len(a \o b) >= Len(a)
      BY <2>8
    <3>. QED
      BY <2>5, <3>1 DEF a, b
  <2>10. Len(parts[1]) \in Nat /\ Len(piece[1]) \in Nat
    BY <2>3, <2>4, LenProperties
  <2>. QED
    BY <2>4, <2>5, <2>7, <2>9, <2>10 DEF a, b
<1>14. Len(parts) = n
  BY <1>8
<1>. QED
  BY <1>1, <1>12, <1>13, <1>14

-----------------------------------------------------------------------------
(* Values at every depth from some depth on *)

(* The elements of a concatenation. *)
LEMMA ListedConcat ==
  ASSUME NEW x, NEW y, Listed(x), Listed(y)
  PROVE  /\ Listed(x \o y) /\ Len(x) \in Nat /\ Len(y) \in Nat /\ Len(x \o y) = Len(x) + Len(y)
         /\ DOMAIN x = 1..Len(x) /\ DOMAIN y = 1..Len(y) /\ DOMAIN (x \o y) = 1..(Len(x) + Len(y))
         /\ \A k \in 1..(Len(x) + Len(y)) : (x \o y)[k] = IF k <= Len(x) THEN x[k] ELSE y[k - Len(x)]
<1>0. Listed(x \o y)
  BY ConcatListed
<1>1. PICK A : x \in Seq(A)
  BY DEF Listed
<1>2. PICK B : y \in Seq(B)
  BY DEF Listed
<1>. DEFINE S == A \cup B
<1>3. x \in Seq(S) /\ y \in Seq(S)
  BY <1>1, <1>2
<1>. HIDE DEF S
<1>4. /\ x \o y \in Seq(S) /\ Len(x \o y) = Len(x) + Len(y)
      /\ \A k \in 1..(Len(x) + Len(y)) : (x \o y)[k] = IF k <= Len(x) THEN x[k] ELSE y[k - Len(x)]
  BY <1>3, ConcatProperties
<1>5. Len(x) \in Nat /\ Len(y) \in Nat /\ DOMAIN x = 1..Len(x) /\ DOMAIN y = 1..Len(y)
  BY <1>3, LenProperties
<1>6. DOMAIN (x \o y) = 1..Len(x \o y)
  BY <1>4, LenProperties
<1>. QED
  BY <1>0, <1>4, <1>5, <1>6

(* Entries whose keys differ among each other and from the others'. *)
LEMMA KeysApart ==
  ASSUME NEW x, NEW y, Listed(x), Listed(y), KeysDiffer(x), KeysDiffer(y),
         \A i \in 1..Len(x), j \in 1..Len(y) : x[i][1] # y[j][1]
  PROVE  KeysDiffer(x \o y)
<1>. DEFINE z == x \o y
            m == Len(x)
            n == Len(y)
<1>1. /\ m \in Nat /\ n \in Nat /\ DOMAIN x = 1..m /\ DOMAIN y = 1..n /\ DOMAIN z = 1..(m + n)
      /\ \A k \in 1..(m + n) : z[k] = IF k <= m THEN x[k] ELSE y[k - m]
  BY ListedConcat
<1>2. \A i \in 1..m, j \in 1..n : x[i][1] # y[j][1]
  OBVIOUS
<1>3. /\ \A i, j \in 1..m : x[i][1] = x[j][1] => i = j
      /\ \A i, j \in 1..n : y[i][1] = y[j][1] => i = j
  BY <1>1 DEF KeysDiffer
<1>. HIDE DEF z, m, n
<1>4. ASSUME NEW i \in 1..(m + n), NEW j \in 1..(m + n), z[i][1] = z[j][1] PROVE i = j
  <2>1. \A k \in 1..(m + n) : (k <= m => k \in 1..m /\ z[k] = x[k])
                              /\ (~(k <= m) => k - m \in 1..n /\ z[k] = y[k - m])
    BY <1>1
  <2>2. CASE i <= m /\ j <= m
    BY <1>3, <1>4, <2>1, <2>2
  <2>3. CASE i <= m /\ ~(j <= m)
    BY <1>2, <1>4, <2>1, <2>3
  <2>4. CASE ~(i <= m) /\ j <= m
    BY <1>2, <1>4, <2>1, <2>4
  <2>5. CASE ~(i <= m) /\ ~(j <= m)
    <3>1. i - m = j - m
      BY <1>3, <1>4, <2>1, <2>5
    <3>2. i \in Int /\ j \in Int /\ m \in Int
      BY <1>1
    <3>. QED
      BY ONLY <3>1, <3>2
  <2>. QED
    BY <2>2, <2>3, <2>4, <2>5
<1>5. DOMAIN z = 1..(m + n)
  BY <1>1
<1>6. KeysDiffer(z)
  BY <1>4, <1>5 DEF KeysDiffer
<1>. QED
  BY <1>6 DEF z

(* A single entry. *)
LEMMA OneKey ==
  ASSUME NEW e
  PROVE  KeysDiffer(<<e>>) /\ Listed(<<e>>) /\ Len(<<e>>) = 1 /\ <<e>>[1] = e
<1>1. DOMAIN <<e>> = {1}
  OBVIOUS
<1>. QED
  BY <1>1, OneListed DEF KeysDiffer

(* No entry. *)
LEMMA NoKeys == KeysDiffer(<<>>) /\ Listed(<<>>) /\ Len(<<>>) = 0
<1>1. DOMAIN <<>> = {} /\ <<>> \in Seq({}) /\ Len(<<>>) = 0
  OBVIOUS
<1>. QED
  BY <1>1 DEF KeysDiffer, Listed

(* What is read at every depth from n on. *)
ValueAs(D, n, x, v) ==
  /\ n \in Nat /\ x \in Seq(Nat) /\ Len(x) >= 1
  /\ \A m \in n..Len(D) : ItemAs(D, Reading(D)[m], x, v)
(* An entry at every depth from n on, and a list of them. *)
EntryAs(D, n, x, e) ==
  /\ n \in Nat /\ x \in Seq(Nat) /\ Len(x) >= 1 /\ x[1] = 34
  /\ \A m \in n..Len(D) : ItemAs(D, EntryLevel(D, Reading(D)[m]), x, e)
MembersAs(D, n, x, vals) ==
  /\ n \in Nat /\ x \in Seq(Nat) /\ Len(x) >= 1 /\ x[1] = 34 /\ Listed(vals)
  /\ \A m \in n..Len(D) : ItemsAs(D, EntryLevel(D, Reading(D)[m]), x, vals)

(* What needs no depth is a value at every depth. *)
LEMMA AnyDepth ==
  ASSUME NEW D \in Seq(Nat), NEW x \in Seq(Nat), Len(x) >= 1, NEW v,
         \A inner : ItemAs(D, ReadLevel(D, inner), x, v), NEW n \in Nat
  PROVE  ValueAs(D, n, x, v)
<1>1. ASSUME NEW m \in n..Len(D) PROVE ItemAs(D, Reading(D)[m], x, v)
  <2>1. m \in 0..Len(D)
    OBVIOUS
  <2>2. Reading(D)[m] = ReadLevel(D, Inside(D, m, Reading(D)))
    BY <2>1, ReadingIs
  <2>. QED
    BY <2>2
<1>. QED
  BY <1>1 DEF ValueAs

(* What holds values of one depth is a value of the next. *)
LEMMA NextDepth ==
  ASSUME NEW D \in Seq(Nat), NEW x \in Seq(Nat), Len(x) >= 1, NEW v, NEW n \in Nat,
         \A m \in n..Len(D) : ItemAs(D, ReadLevel(D, Reading(D)[m]), x, v)
  PROVE  ValueAs(D, n + 1, x, v)
<1>1. ASSUME NEW m \in (n + 1)..Len(D) PROVE ItemAs(D, Reading(D)[m], x, v)
  <2>1. m \in 0..Len(D) /\ m # 0 /\ m - 1 \in n..Len(D)
    OBVIOUS
  <2>2. Reading(D)[m] = ReadLevel(D, Reading(D)[m - 1])
    BY <2>1, ReadingIs DEF Inside
  <2>. QED
    BY <2>1, <2>2
<1>. QED
  BY <1>1 DEF ValueAs

(* A string is a value. *)
LEMMA LiteralValue ==
  ASSUME NEW D \in Seq(Nat), NEW x, NEW t, StringAs(D, x, t), NEW n \in Nat
  PROVE  ValueAs(D, n, x, JText(t))
<1>1. x \in Seq(Nat) /\ Len(x) >= 1
  BY DEF StringAs
<1>2. \A inner : ItemAs(D, ReadLevel(D, inner), x, JText(t))
  BY StringRead
<1>. QED
  BY <1>1, <1>2, AnyDepth

(* A numeral is a value. *)
LEMMA NumberValue ==
  ASSUME NEW D \in Seq(Nat), NEW c \in Nat, c > 255, NEW n \in Nat
  PROVE  ValueAs(D, n, <<c>>, JNumber(c))
<1>. DEFINE x == <<c>>
<1>1. x \in Seq(Nat) /\ Len(x) >= 1
  OBVIOUS
<1>2. \A inner : ItemAs(D, ReadLevel(D, inner), x, JNumber(c))
  BY NumeralRead
<1>. HIDE DEF x
<1>3. ValueAs(D, n, x, JNumber(c))
  BY <1>1, <1>2, AnyDepth
<1>. QED
  BY <1>3 DEF x

(* A key, a colon and a value are an entry. *)
LEMMA EntryValue ==
  ASSUME NEW D \in Seq(Nat), NEW n, NEW key, NEW t, StringAs(D, key, t), NEW x, NEW v, ValueAs(D, n, x, v)
  PROVE  EntryAs(D, n, key \o <<58>> \o x, <<t, v>>)
<1>. DEFINE y == key \o <<58>> \o x
<1>1. \A m \in n..Len(D) : ItemAs(D, EntryLevel(D, Reading(D)[m]), y, <<t, v>>)
  BY EntryRead DEF ValueAs
<1>2. y[1] = 34 /\ y \in Seq(Nat) /\ Len(y) >= 1
  <2>1. x \in Seq(Nat) /\ Len(x) >= 1 /\ key \in Seq(Nat) /\ Len(key) >= 2 /\ key[1] = 34
    BY DEF ValueAs, StringAs
  <2>2. Len(key) >= 1
    <3>1. Len(key) \in Nat /\ Len(key) >= 2
      BY <2>1
    <3>. QED
      BY <3>1
  <2>3. <<58>> \in Seq(Nat)
    OBVIOUS
  <2>. DEFINE colon == <<58>>
  <2>. HIDE DEF colon
  <2>4. colon \o x \in Seq(Nat)
    BY ONLY <2>1, <2>3, ConcatNat DEF colon
  <2>5. (key \o colon) \o x = key \o (colon \o x)
    BY ONLY <2>1, <2>3, ConcatThree, ZenonT(60) DEF colon
  <2>6. key \o (colon \o x) \in Seq(Nat)
    BY ONLY <2>1, <2>4, ConcatNat
  <2>7. (key \o (colon \o x))[1] = key[1] /\ Len(key \o (colon \o x)) >= 1
    BY ONLY <2>1, <2>2, <2>4, ConcatFirst
  <2>. QED
    BY <2>1, <2>5, <2>6, <2>7 DEF colon
<1>3. n \in Nat
  BY DEF ValueAs
<1>. HIDE DEF y
<1>4. EntryAs(D, n, y, <<t, v>>)
  BY <1>1, <1>2, <1>3 DEF EntryAs
<1>. QED
  BY <1>4 DEF y

(* An entry is a list of one. *)
LEMMA OneMember ==
  ASSUME NEW D \in Seq(Nat), NEW n, NEW x, NEW e, EntryAs(D, n, x, e)
  PROVE  MembersAs(D, n, x, <<e>>)
<1>1. \A m \in n..Len(D) : ItemsAs(D, EntryLevel(D, Reading(D)[m]), x, <<e>>)
  BY OneItem DEF EntryAs
<1>. QED
  BY <1>1, OneListed DEF EntryAs, MembersAs

(* Two lists of entries with a comma between them are one. *)
LEMMA MoreMembers ==
  ASSUME NEW D \in Seq(Nat), NEW n, NEW x, NEW v, NEW y, NEW w, MembersAs(D, n, x, v), MembersAs(D, n, y, w)
  PROVE  MembersAs(D, n, x \o (<<44>> \o y), v \o w)
<1>. DEFINE comma == <<44>>
            z == x \o (comma \o y)
<1>1. \A m \in n..Len(D) : ItemsAs(D, EntryLevel(D, Reading(D)[m]), z, v \o w)
  BY MoreItems DEF MembersAs
<1>2. z \in Seq(Nat) /\ z[1] = 34 /\ Len(z) >= 1
  <2>1. x \in Seq(Nat) /\ y \in Seq(Nat) /\ comma \in Seq(Nat) /\ Len(x) >= 1 /\ x[1] = 34
    BY DEF MembersAs
  <2>. HIDE DEF comma
  <2>2. comma \o y \in Seq(Nat)
    BY ONLY <2>1, ConcatNat
  <2>3. x \o (comma \o y) \in Seq(Nat)
    BY ONLY <2>1, <2>2, ConcatNat
  <2>4. (x \o (comma \o y))[1] = x[1] /\ Len(x \o (comma \o y)) >= 1
    BY ONLY <2>1, <2>2, ConcatFirst
  <2>. QED
    BY <2>1, <2>3, <2>4
<1>3. Listed(v \o w) /\ n \in Nat
  BY ConcatListed DEF MembersAs
<1>. HIDE DEF z
<1>4. MembersAs(D, n, z, v \o w)
  BY <1>1, <1>2, <1>3 DEF MembersAs
<1>. QED
  BY <1>4 DEF z, comma

(* In braces, entries with different keys are an object. *)
LEMMA MembersValue ==
  ASSUME NEW D \in Seq(Nat), NEW n, NEW x, NEW vals, MembersAs(D, n, x, vals), KeysDiffer(vals)
  PROVE  ValueAs(D, n + 1, <<123>> \o x \o <<125>>, JObject(vals))
<1>. DEFINE y == <<123>> \o x \o <<125>>
<1>1. n \in Nat /\ x \in Seq(Nat) /\ Len(x) >= 1 /\ x[1] = 34
  BY DEF MembersAs
<1>2. \A m \in n..Len(D) : ItemAs(D, ReadLevel(D, Reading(D)[m]), y, JObject(vals))
  BY ObjectRead DEF MembersAs
<1>3. y \in Seq(Nat) /\ Len(y) >= 1
  <2>1. 123 \in Nat /\ 125 \in Nat
    OBVIOUS
  <2>2. y \in Seq(Nat) /\ Len(y) = Len(x) + 2 /\ Len(x) \in Nat
    BY ONLY <1>1, <2>1, BracketsType
  <2>. QED
    BY <2>2
<1>. HIDE DEF y
<1>4. ValueAs(D, n + 1, y, JObject(vals))
  BY <1>1, <1>2, <1>3, NextDepth
<1>. QED
  BY <1>4 DEF y

(* The document as a whole. *)
LEMMA DocumentIs ==
  ASSUME NEW D \in Seq(Nat), NEW n, NEW v, n <= Len(D), ValueAs(D, n, D, v)
  PROVE  IsDocument(D) /\ Document(D) = v
<1>1. n \in Nat /\ Len(D) \in Nat /\ Len(D) \in n..Len(D)
  BY DEF ValueAs
<1>2. ItemAs(D, Reading(D)[Len(D)], D, v)
  BY <1>1 DEF ValueAs
<1>3. Sits(D, 1, D)
  <2>1. \A k \in 1..Len(D) : 1 + k - 1 = k
    OBVIOUS
  <2>2. 1 \in Nat /\ 1 >= 1 /\ 1 + Len(D) <= Len(D) + 1
    BY <1>1
  <2>. QED
    BY <2>1, <2>2 DEF Sits
<1>4. Reading(D)[Len(D)][1] = Read(v, 1 + Len(D))
  BY <1>2, <1>3 DEF ItemAs
<1>5. 1 + Len(D) = Len(D) + 1
  BY <1>1
<1>6. Whole(D).next = Len(D) + 1 /\ Whole(D).value = v
  BY <1>4, <1>5 DEF Whole, Read
<1>. QED
  BY <1>6 DEF IsDocument, Document

-----------------------------------------------------------------------------
(* Objects and arrays as they are written *)

(* The entries of write_object, and what a reader should make of them. *)
EntryText(e) == escape_json(e[1]) \o <<58>> \o e[2]
(* Entries, by their texts and by their values. *)
EntriesAs(D, n, entries, vals) ==
  /\ n \in Nat /\ Listed(entries) /\ Listed(vals) /\ Len(entries) = Len(vals)
  /\ \A k \in 1..Len(entries) : EntryAs(D, n, EntryText(entries[k]), vals[k])

(* The places of a sequence. *)
LEMMA ListedLength ==
  ASSUME NEW x, Listed(x)
  PROVE  Len(x) \in Nat /\ DOMAIN x = 1..Len(x)
<1>1. PICK S : x \in Seq(S)
  BY DEF Listed
<1>. QED
  BY <1>1, LenProperties

(* A function on the first numbers is a sequence. *)
LEMMA FunctionListed ==
  ASSUME NEW n \in Nat, NEW f, DOMAIN f = 1..n, f = [k \in 1..n |-> f[k]]
  PROVE  Listed(f) /\ Len(f) = n
<1>. DEFINE S == {f[k] : k \in 1..n}
<1>1. f \in Seq(S) /\ Len(f) = n
  OBVIOUS
<1>. QED
  BY <1>1 DEF Listed

(* One entry of a key that is text. *)
LEMMA OneEntry ==
  ASSUME NEW D \in Seq(Nat), NEW n, NEW key \in Seq(Nat), IsText(key), NEW x, NEW v, ValueAs(D, n, x, v)
  PROVE  EntriesAs(D, n, <<<<key, x>>>>, <<<<key, v>>>>)
<1>. DEFINE e == <<key, x>>
            w == <<key, v>>
<1>1. StringAs(D, escape_json(key), key)
  BY EscapeReadsBack
<1>2. EntryAs(D, n, escape_json(key) \o <<58>> \o x, <<key, v>>)
  BY <1>1, EntryValue
<1>3. EntryText(e) = escape_json(key) \o <<58>> \o x
  BY DEF EntryText
<1>4. EntryAs(D, n, EntryText(e), w)
  BY <1>2, <1>3
<1>. HIDE DEF e, w
<1>5. /\ Listed(<<e>>) /\ Listed(<<w>>) /\ Len(<<e>>) = 1 /\ Len(<<w>>) = 1
      /\ <<e>>[1] = e /\ <<w>>[1] = w
  BY OneKey
<1>6. n \in Nat
  BY DEF ValueAs
<1>7. EntriesAs(D, n, <<e>>, <<w>>)
  <2>1. \A k \in 1..1 : k = 1
    OBVIOUS
  <2>. QED
    BY <1>4, <1>5, <1>6, <2>1 DEF EntriesAs
<1>. QED
  BY <1>7 DEF e, w

(* No entry. *)
LEMMA NoEntries ==
  ASSUME NEW D, NEW n \in Nat
  PROVE  EntriesAs(D, n, <<>>, <<>>)
<1>1. \A k \in 1..0 : FALSE
  OBVIOUS
<1>. QED
  BY <1>1, NoKeys DEF EntriesAs

(* Two lists of entries. *)
LEMMA MoreEntries ==
  ASSUME NEW D, NEW n, NEW x, NEW v, NEW y, NEW w, EntriesAs(D, n, x, v), EntriesAs(D, n, y, w)
  PROVE  EntriesAs(D, n, x \o y, v \o w)
<1>. DEFINE a == Len(x)
            b == Len(y)
            z == x \o y
            u == v \o w
<1>1. /\ Listed(x) /\ Listed(y) /\ Listed(v) /\ Listed(w) /\ Len(v) = a /\ Len(w) = b /\ n \in Nat
      /\ \A k \in 1..a : EntryAs(D, n, EntryText(x[k]), v[k])
      /\ \A k \in 1..b : EntryAs(D, n, EntryText(y[k]), w[k])
  BY DEF EntriesAs
<1>2. /\ Listed(z) /\ a \in Nat /\ b \in Nat /\ Len(z) = a + b
      /\ \A k \in 1..(a + b) : z[k] = IF k <= a THEN x[k] ELSE y[k - a]
  BY <1>1, ListedConcat
<1>3. /\ Listed(u) /\ Len(u) = a + b
      /\ \A k \in 1..(a + b) : u[k] = IF k <= a THEN v[k] ELSE w[k - a]
  BY <1>1, ListedConcat
<1>. HIDE DEF a, b, z, u
<1>4. ASSUME NEW k \in 1..(a + b) PROVE EntryAs(D, n, EntryText(z[k]), u[k])
  <2>1. CASE k <= a
    <3>1. k \in 1..a
      BY <1>2, <2>1
    <3>. QED
      BY <1>1, <1>2, <1>3, <2>1, <3>1
  <2>2. CASE ~(k <= a)
    <3>1. k - a \in 1..b
      BY <1>2, <2>2
    <3>. QED
      BY <1>1, <1>2, <1>3, <2>2, <3>1
  <2>. QED
    BY <2>1, <2>2
<1>5. EntriesAs(D, n, z, u)
  BY <1>1, <1>2, <1>3, <1>4 DEF EntriesAs
<1>. QED
  BY <1>5 DEF z, u

(* write_object puts the object around them. *)
LEMMA ObjectValue ==
  ASSUME NEW D \in Seq(Nat), NEW n, NEW entries, NEW vals, EntriesAs(D, n, entries, vals),
         Len(entries) >= 1, KeysDiffer(vals), n <= Len(D)
  PROVE  /\ ValueAs(D, n + 1, write_object(entries), JObject(vals))
         /\ Len(write_object(entries)) >= 3 /\ write_object(entries)[1] = 123
         /\ Len(entries) # 1 => Len(write_object(entries)) >= Len(EntryText(entries[1])) + 3
<1>. DEFINE parts == [k \in DOMAIN entries |-> EntryText(entries[k])]
            l == Len(entries)
<1>1. /\ Listed(entries) /\ Listed(vals) /\ Len(vals) = l /\ n \in Nat
      /\ \A k \in 1..l : EntryAs(D, n, EntryText(entries[k]), vals[k])
  BY DEF EntriesAs
<1>2. l \in Nat /\ DOMAIN entries = 1..l
  BY <1>1, ListedLength
<1>3. \A k \in 1..l : parts[k] = EntryText(entries[k])
  BY <1>2
<1>4. ASSUME NEW k \in 1..l PROVE parts[k] \in Seq(Nat) /\ parts[k][1] = 34
  BY <1>1, <1>3 DEF EntryAs
<1>5. parts \in Seq(Seq(Nat)) /\ Len(parts) = l
  <2>1. parts = [k \in 1..l |-> parts[k]]
    BY <1>2
  <2>2. \A k \in 1..l : parts[k] \in Seq(Nat)
    BY <1>4
  <2>. HIDE DEF parts, l
  <2>3. parts \in [1..l -> Seq(Nat)]
    BY <2>1, <2>2
  <2>. QED
    BY <1>2, <2>3
<1>6. PICK V : vals \in Seq(V)
  BY <1>1 DEF Listed
<1>7. write_object(entries) = <<123>> \o Commas(parts) \o <<125>>
  BY DEF write_object, EntryText
<1>. HIDE DEF parts
<1>8. ASSUME NEW m \in n..Len(D)
      PROVE  /\ ItemsAs(D, EntryLevel(D, Reading(D)[m]), Commas(parts), vals)
             /\ Len(Commas(parts)) >= 1 /\ Commas(parts)[1] = parts[1][1]
             /\ l # 1 => Len(Commas(parts)) >= Len(parts[1]) + 1
  <2>. DEFINE item == EntryLevel(D, Reading(D)[m])
  <2>1. \A k \in 1..l : ItemAs(D, item, parts[k], vals[k])
    BY <1>1, <1>3 DEF EntryAs
  <2>. HIDE DEF item, l
  <2>2. l >= 1
    BY DEF l
  <2>3. /\ ItemsAs(D, item, Commas(parts), vals)
        /\ Len(Commas(parts)) >= 1 /\ Commas(parts)[1] = parts[1][1]
        /\ l # 1 => Len(Commas(parts)) >= Len(parts[1]) + 1
    BY <1>1, <1>5, <1>6, <2>1, <2>2, CommasRead
  <2>. QED
    BY <2>3 DEF item
<1>9. 1 \in 1..l
  BY <1>2
<1>10. n \in n..Len(D)
  BY <1>1
<1>11. Commas(parts) \in Seq(Nat) /\ Len(Commas(parts)) >= 1 /\ Commas(parts)[1] = 34
  BY <1>4, <1>8, <1>9, <1>10 DEF ItemsAs
<1>12. MembersAs(D, n, Commas(parts), vals)
  BY <1>1, <1>8, <1>11 DEF MembersAs
<1>13. ValueAs(D, n + 1, <<123>> \o Commas(parts) \o <<125>>, JObject(vals))
  BY <1>12, MembersValue
<1>14. /\ Len(<<123>> \o Commas(parts) \o <<125>>) >= 3
       /\ (<<123>> \o Commas(parts) \o <<125>>)[1] = 123
       /\ l # 1 => Len(<<123>> \o Commas(parts) \o <<125>>) >= Len(parts[1]) + 3
  <2>. DEFINE x == Commas(parts)
  <2>. HIDE DEF x
  <2>1. 123 \in Nat /\ 125 \in Nat /\ x \in Seq(Nat)
    BY <1>11 DEF x
  <2>2. Len(<<123>> \o x \o <<125>>) = Len(x) + 2 /\ Len(x) \in Nat
    BY ONLY <2>1, BracketsType
  <2>3. Len(x) >= 1
    BY <1>11 DEF x
  <2>. DEFINE open == <<123>>
              close == <<125>>
  <2>4. open \in Seq(Nat) /\ close \in Seq(Nat) /\ Len(open) >= 1 /\ open[1] = 123
    OBVIOUS
  <2>. HIDE DEF open, close
  <2>5. open \o x \in Seq(Nat) /\ (open \o x)[1] = open[1] /\ Len(open \o x) >= 1
    BY ONLY <2>1, <2>4, ConcatNat, ConcatFirst
  <2>6. ((open \o x) \o close)[1] = (open \o x)[1]
    BY ONLY <2>4, <2>5, ConcatFirst
  <2>7. l # 1 => Len(x) >= Len(parts[1]) + 1
    BY <1>8, <1>10 DEF x
  <2>8. Len(parts[1]) \in Nat
    BY <1>4, <1>9, LenProperties
  <2>9. l # 1 => Len(<<123>> \o x \o <<125>>) >= Len(parts[1]) + 3
    BY <2>2, <2>7, <2>8
  <2>. QED
    BY <2>2, <2>3, <2>4, <2>5, <2>6, <2>9 DEF x, open, close
<1>15. parts[1] = EntryText(entries[1])
  BY <1>3, <1>9
<1>. QED
  BY <1>7, <1>13, <1>14, <1>15

(* No part, no comma. *)
LEMMA NoCommas ==
  ASSUME NEW parts, Len(parts) = 0
  PROVE  Commas(parts) = <<>>
<1>. DEFINE step == Each(parts)
            piece == [k \in Positions(parts) |->
                        CASE k < Len(parts) -> parts[k] \o <<44>> [] k = Len(parts) -> parts[k] [] OTHER -> <<>>]
            blank == [k \in 1..(0 + 1) |-> <<>>]
<1>1. Positions(parts) = 1..(0 + 1) /\ Forward(step, 0)
  BY EachForward DEF Positions
<1>2. piece = blank
  <2>1. \A k \in 1..(0 + 1) : ~(k < Len(parts)) /\ k # Len(parts)
    OBVIOUS
  <2>2. piece = [k \in 1..(0 + 1) |-> piece[k]]
    BY <1>1
  <2>3. \A k \in 1..(0 + 1) : piece[k] = <<>>
    BY <1>1, <2>1
  <2>. QED
    BY <2>2, <2>3
<1>3. step[1] = 0
  BY <1>1 DEF Each
<1>4. blank \in [1..(0 + 1) -> Seq(Nat)]
  OBVIOUS
<1>5. Commas(parts) = Joined(step, piece)[1]
  BY DEF Commas
<1>. HIDE DEF step, piece, blank
<1>6. 0 \in Nat /\ 1 \in 1..(0 + 1)
  OBVIOUS
<1>7. \A i \in 1..(0 + 1) :
        /\ Joined(step, blank)[i] =
             IF step[i] = 0 THEN <<>> ELSE blank[i] \o Joined(step, blank)[i + step[i]]
        /\ Joined(step, blank)[i] \in Seq(Nat)
  BY ONLY <1>1, <1>4, <1>6, JoinedIs
<1>. QED
  BY <1>2, <1>3, <1>5, <1>6, <1>7

(* Empty brackets are values. *)
LEMMA BracketsValue ==
  ASSUME NEW D \in Seq(Nat), NEW n \in Nat
  PROVE  /\ ValueAs(D, n, write_object(<<>>), JObject(<<>>))
         /\ ValueAs(D, n, <<91>> \o <<>> \o <<93>>, JArray(<<>>))
<1>. DEFINE none == <<>>
            object == <<123>> \o none \o <<125>>
            array == <<91>> \o none \o <<93>>
<1>1. /\ \A inner : ItemAs(D, ReadLevel(D, inner), object, JObject(<<>>))
      /\ \A inner : ItemAs(D, ReadLevel(D, inner), array, JArray(<<>>))
  BY EmptyRead
<1>2. object \in Seq(Nat) /\ Len(object) >= 1 /\ array \in Seq(Nat) /\ Len(array) >= 1
  <2>1. none \in Seq(Nat) /\ Len(none) = 0 /\ 123 \in Nat /\ 125 \in Nat /\ 91 \in Nat /\ 93 \in Nat
    OBVIOUS
  <2>. HIDE DEF none
  <2>2. /\ <<123>> \o none \o <<125>> \in Seq(Nat) /\ Len(<<123>> \o none \o <<125>>) = Len(none) + 2
        /\ <<91>> \o none \o <<93>> \in Seq(Nat) /\ Len(<<91>> \o none \o <<93>>) = Len(none) + 2
    BY ONLY <2>1, BracketsType
  <2>. QED
    BY <2>1, <2>2
<1>3. write_object(<<>>) = object
  <2>. DEFINE parts == [k \in DOMAIN <<>> |-> escape_json(<<>>[k][1]) \o <<58>> \o <<>>[k][2]]
  <2>1. Len(parts) = 0
    OBVIOUS
  <2>2. write_object(<<>>) = <<123>> \o Commas(parts) \o <<125>>
    BY DEF write_object
  <2>. HIDE DEF parts
  <2>3. Commas(parts) = <<>>
    BY <2>1, NoCommas
  <2>. QED
    BY <2>2, <2>3
<1>. HIDE DEF object, array
<1>4. ValueAs(D, n, object, JObject(<<>>)) /\ ValueAs(D, n, array, JArray(<<>>))
  BY <1>1, <1>2, AnyDepth
<1>. QED
  BY <1>3, <1>4 DEF array

(* An array of objects or of strings. *)
LEMMA ArrayValue ==
  ASSUME NEW D \in Seq(Nat), NEW n \in Nat, n <= Len(D), NEW parts, Listed(parts), NEW vals, Listed(vals),
         Len(parts) = Len(vals),
         \A k \in 1..Len(parts) : ValueAs(D, n, parts[k], vals[k]) /\ parts[k][1] \in {34, 123}
  PROVE  ValueAs(D, n + 1, <<91>> \o Commas(parts) \o <<93>>, JArray(vals))
<1>. DEFINE l == Len(parts)
<1>1. l \in Nat /\ DOMAIN parts = 1..l /\ DOMAIN vals = 1..l /\ Len(vals) = l
  BY ListedLength
<1>2. PICK V : vals \in Seq(V)
  BY DEF Listed
<1>3. PICK W : parts \in Seq(W)
  BY DEF Listed
<1>4. \A k \in 1..l : ValueAs(D, n, parts[k], vals[k]) /\ parts[k][1] \in {34, 123}
  OBVIOUS
<1>. HIDE DEF l
<1>5. CASE l = 0
  <2>1. Commas(parts) = <<>> /\ vals = <<>>
    BY <1>1, <1>2, <1>5, NoCommas DEF l
  <2>2. n + 1 \in Nat
    OBVIOUS
  <2>. QED
    BY <2>1, <2>2, BracketsValue
<1>6. CASE l >= 1
  <2>. DEFINE x == Commas(parts)
  <2>1. \A k \in 1..l : parts[k] \in Seq(Nat)
    BY <1>4 DEF ValueAs
  <2>2. parts \in Seq(Seq(Nat))
    <3>1. parts \in [1..l -> W]
      BY <1>1, <1>3, LenProperties
    <3>2. parts \in [1..l -> Seq(Nat)]
      BY <2>1, <3>1
    <3>. QED
      BY <1>1, <3>2
  <2>3. ASSUME NEW m \in n..Len(D)
        PROVE  ItemsAs(D, Reading(D)[m], x, vals) /\ Len(x) >= 1 /\ x[1] = parts[1][1]
    <3>. DEFINE item == Reading(D)[m]
    <3>1. \A k \in 1..l : ItemAs(D, item, parts[k], vals[k])
      BY <1>4 DEF ValueAs
    <3>. HIDE DEF item
    <3>2. /\ ItemsAs(D, item, Commas(parts), vals)
          /\ Len(Commas(parts)) >= 1 /\ Commas(parts)[1] = parts[1][1]
      <4>1. /\ Len(parts) >= 1 /\ Len(vals) = Len(parts)
            /\ \A k \in 1..Len(parts) : ItemAs(D, item, parts[k], vals[k])
        BY <1>1, <1>6, <3>1 DEF l
      <4>. QED
        BY ONLY <1>2, <2>2, <4>1, D \in Seq(Nat), CommasRead
    <3>. QED
      BY <3>2 DEF item
  <2>4. n \in n..Len(D) /\ 1 \in 1..l
    BY <1>1, <1>6
  <2>5. x \in Seq(Nat) /\ Len(x) >= 1 /\ x[1] \in {34, 123}
    BY <1>4, <2>3, <2>4 DEF ItemsAs
  <2>. HIDE DEF x
  <2>6. ASSUME NEW m \in n..Len(D)
        PROVE  ItemAs(D, ReadLevel(D, Reading(D)[m]), <<91>> \o x \o <<93>>, JArray(vals))
    BY <2>3, <2>5, ArrayRead
  <2>7. <<91>> \o x \o <<93>> \in Seq(Nat) /\ Len(<<91>> \o x \o <<93>>) >= 1
    <3>1. 91 \in Nat /\ 93 \in Nat
      OBVIOUS
    <3>2. /\ <<91>> \o x \o <<93>> \in Seq(Nat) /\ Len(<<91>> \o x \o <<93>>) = Len(x) + 2
          /\ Len(x) \in Nat
      BY ONLY <2>5, <3>1, BracketsType
    <3>. QED
      BY <3>2
  <2>. DEFINE y == <<91>> \o x \o <<93>>
  <2>. HIDE DEF y
  <2>8. ValueAs(D, n + 1, y, JArray(vals))
    BY <2>6, <2>7, NextDepth DEF y
  <2>. QED
    BY <2>8 DEF x, y
<1>. QED
  BY <1>1, <1>5, <1>6

(* A value at one depth is one at every greater depth. *)
LEMMA DeeperValue ==
  ASSUME NEW D \in Seq(Nat), NEW n, NEW m \in Nat, NEW x, NEW v, ValueAs(D, n, x, v), n <= m
  PROVE  ValueAs(D, m, x, v)
<1>1. n \in Nat /\ Len(D) \in Nat
  BY DEF ValueAs
<1>2. \A k \in m..Len(D) : k \in n..Len(D)
  BY <1>1
<1>. QED
  BY <1>2 DEF ValueAs

-----------------------------------------------------------------------------
(* The fixed words *)

(* The fixed words are texts, different ones, and none of them a quote or a *)
(* bracket.                                                                 *)
LEMMA WordsApart ==
  ASSUME NEW w \in WordNames
  PROVE  /\ Words[w] \in Seq(Nat) /\ Len(Words[w]) = 1 /\ IsText(Words[w])
         /\ Words[w][1] \in Nat /\ Words[w][1] > 255 /\ Words[w] = <<Words[w][1]>>
         /\ \A v \in WordNames : Words[v] = Words[w] => v = w
<1>1. /\ Words[w] \in Seq(Nat) /\ Len(Words[w]) = 1 /\ Words[w][1] > 255
      /\ \A v \in WordNames : Words[v] = Words[w] => v = w
  BY WordsAssumption
<1>. DEFINE s == Words[w]
            c == s[1]
<1>2. s \in Seq(Nat) /\ Len(s) = 1 /\ c > 255
  BY <1>1
<1>. HIDE DEF s
<1>3. c \in Nat /\ s = <<c>> /\ 1 \in 1..Len(s)
  <2>1. c \in Nat /\ 1 \in 1..Len(s)
    BY <1>2
  <2>2. <<c>> \in Seq(Nat) /\ Len(<<c>>) = 1 /\ <<c>>[1] = c
    BY <2>1
  <2>3. \A i \in 1..1 : i = 1
    OBVIOUS
  <2>. DEFINE t == <<c>>
  <2>. HIDE DEF t
  <2>4. \A i \in 1..Len(s) : s[i] = t[i]
    BY <1>2, <2>2, <2>3 DEF t
  <2>5. s = t
    BY <1>2, <2>2, <2>4, SeqEqual DEF t
  <2>. QED
    BY <2>1, <2>5 DEF t
<1>4. Ascii(s[1]) /\ CharAt(s, 1) = 1
  BY <1>2 DEF Ascii, CharAt
<1>5. Forward(Chars(s), 1)
  BY <1>2, CharsForward
<1>6. Chars(s)[1] = 1 /\ Chars(s)[2] = 0
  BY <1>2, <1>4 DEF Chars, Positions
<1>7. Stop(Chars(s))[1] = 2
  <2>1. \A i \in 1..(1 + 1) : Stop(Chars(s))[i] =
          IF Chars(s)[i] = 0 THEN i ELSE Stop(Chars(s))[i + Chars(s)[i]]
    BY <1>5, StopIs
  <2>2. 1 \in 1..(1 + 1) /\ 2 \in 1..(1 + 1) /\ 1 + 1 = 2 /\ ~(1 = 0)
    OBVIOUS
  <2>. QED
    BY <1>6, <2>1, <2>2
<1>8. IsText(s)
  BY <1>2, <1>7 DEF IsText
<1>. QED
  BY <1>1, <1>2, <1>3, <1>8 DEF s

(* A word is no worse for being repaired. *)
LEMMA WordRepaired ==
  ASSUME NEW w \in WordNames
  PROVE  Repaired(Words[w]) = Words[w]
<1>. DEFINE s == Words[w]
            bad(i) == i <= Len(s) /\ CharAt(s, i) = 0
            step == [i \in Positions(s) |-> IF bad(i) THEN 1 ELSE Chars(s)[i]]
            piece == [i \in Positions(s) |-> IF bad(i) THEN Encoded(65533)
                                            ELSE SubSeq(s, i, i + Chars(s)[i] - 1)]
<1>1. s \in Seq(Nat) /\ Len(s) = 1 /\ s[1] > 255 /\ s[1] \in Nat /\ s = <<s[1]>>
  BY WordsApart
<1>2. Repaired(s) = Joined(step, piece)[1]
  BY DEF Repaired
<1>. HIDE DEF s
<1>3. Ascii(s[1]) /\ CharAt(s, 1) = 1
  BY <1>1 DEF Ascii, CharAt
<1>4. Positions(s) = 1..(1 + 1) /\ 1 \in 1..(1 + 1) /\ 2 \in 1..(1 + 1) /\ \A i \in 1..(1 + 1) : i = 1 \/ i = 2
  BY <1>1 DEF Positions
<1>5. Chars(s)[1] = 1 /\ Chars(s)[2] = 0
  BY <1>1, <1>3, <1>4 DEF Chars
<1>6. ~bad(1) /\ ~bad(2)
  BY <1>1, <1>3
<1>. HIDE DEF bad
<1>7. step[1] = 1 /\ step[2] = 0 /\ DOMAIN step = 1..(1 + 1) /\ step = [i \in 1..(1 + 1) |-> step[i]]
  BY <1>4, <1>5, <1>6
<1>8. piece[1] = s /\ piece[2] = <<>>
  <2>1. piece[1] = SubSeq(s, 1, 1 + 1 - 1) /\ piece[2] = SubSeq(s, 2, 2 + 0 - 1)
    BY <1>4, <1>5, <1>6
  <2>2. SubSeq(s, 1, 1) = s /\ SubSeq(s, 2, 1) = <<>>
    BY <1>1
  <2>3. 1 + 1 - 1 = 1 /\ 2 + 0 - 1 = 1
    OBVIOUS
  <2>. HIDE DEF piece
  <2>. QED
    BY <2>1, <2>2, <2>3
<1>9. piece \in [1..(1 + 1) -> Seq(Nat)]
  <2>1. piece = [i \in 1..(1 + 1) |-> piece[i]]
    BY <1>4
  <2>. HIDE DEF piece
  <2>2. \A i \in 1..(1 + 1) : piece[i] \in Seq(Nat)
    <3>1. <<>> \in Seq(Nat)
      OBVIOUS
    <3>. QED
      BY <1>1, <1>4, <1>8, <3>1
  <2>. QED
    BY <2>1, <2>2
<1>. HIDE DEF step, piece
<1>10. Forward(step, 1)
  BY <1>4, <1>7 DEF Forward
<1>11. \A i \in 1..(1 + 1) :
         /\ Joined(step, piece)[i] =
              IF step[i] = 0 THEN <<>> ELSE piece[i] \o Joined(step, piece)[i + step[i]]
         /\ Joined(step, piece)[i] \in Seq(Nat)
  BY <1>9, <1>10, JoinedIs
<1>12. Joined(step, piece)[2] = <<>> /\ Joined(step, piece)[1] = s \o Joined(step, piece)[2]
  <2>1. 1 + 1 = 2 /\ ~(1 = 0)
    OBVIOUS
  <2>. QED
    BY <1>4, <1>7, <1>8, <1>11, <2>1
<1>13. Listed(s)
  BY <1>1 DEF Listed
<1>14. s \o <<>> = s
  BY <1>13, NoneConcat
<1>. QED
  BY <1>2, <1>12, <1>14 DEF s

-----------------------------------------------------------------------------
(* Entries by their keys *)

(* Entries by their keys. *)
Keyed(vals, K) ==
  /\ Listed(vals) /\ KeysDiffer(vals)
  /\ \A k \in 1..Len(vals) : vals[k][1] \in K

(* Two lists of entries with no key in common. *)
LEMMA KeyedConcat ==
  ASSUME NEW x, NEW y, NEW J, NEW K, Keyed(x, J), Keyed(y, K), J \cap K = {}
  PROVE  Keyed(x \o y, J \cup K)
<1>. DEFINE a == Len(x)
            b == Len(y)
            z == x \o y
<1>1. /\ Listed(x) /\ Listed(y) /\ KeysDiffer(x) /\ KeysDiffer(y)
      /\ \A k \in 1..a : x[k][1] \in J
      /\ \A k \in 1..b : y[k][1] \in K
  BY DEF Keyed
<1>2. /\ Listed(z) /\ a \in Nat /\ b \in Nat /\ Len(z) = a + b
      /\ \A k \in 1..(a + b) : z[k] = IF k <= a THEN x[k] ELSE y[k - a]
  BY <1>1, ListedConcat
<1>3. \A i \in 1..a, j \in 1..b : x[i][1] # y[j][1]
  BY <1>1
<1>4. KeysDiffer(z)
  BY <1>1, <1>3, KeysApart
<1>. HIDE DEF a, b, z
<1>5. ASSUME NEW k \in 1..(a + b)
      PROVE  \/ k \in 1..a /\ z[k] = x[k]
             \/ k - a \in 1..b /\ z[k] = y[k - a]
  <2>1. CASE k <= a
    BY <1>2, <2>1
  <2>2. CASE ~(k <= a)
    BY <1>2, <2>2
  <2>. QED
    BY <2>1, <2>2
<1>6. \A k \in 1..(a + b) : z[k][1] \in J \cup K
  BY <1>1, <1>5
<1>7. Keyed(z, J \cup K)
  BY <1>2, <1>4, <1>6 DEF Keyed
<1>. QED
  BY <1>7 DEF z

(* The same of one key more. *)
LEMMA KeyedTwo ==
  ASSUME NEW x, NEW y, NEW J, NEW key, NEW L, Keyed(x, J), Keyed(y, {key}), key \notin J, L = J \cup {key}
  PROVE  Keyed(x \o y, L)
<1>1. J \cap {key} = {}
  OBVIOUS
<1>. QED
  BY <1>1, KeyedConcat

(* One entry. *)
LEMMA KeyedOne ==
  ASSUME NEW key, NEW v
  PROVE  Keyed(<<<<key, v>>>>, {key})
<1>. DEFINE e == <<key, v>>
            s == <<e>>
<1>1. e[1] = key
  OBVIOUS
<1>. HIDE DEF e
<1>2. KeysDiffer(s) /\ Listed(s) /\ Len(s) = 1 /\ s[1] = e
  BY OneKey
<1>. HIDE DEF s
<1>3. Keyed(s, {key})
  <2>1. \A k \in 1..1 : k = 1
    OBVIOUS
  <2>. QED
    BY <1>1, <1>2, <2>1 DEF Keyed
<1>. QED
  BY <1>3 DEF s, e

(* No entry. *)
LEMMA KeyedNone ==
  ASSUME NEW K
  PROVE  Keyed(<<>>, K)
<1>1. \A k \in 1..0 : FALSE
  OBVIOUS
<1>. QED
  BY <1>1, NoKeys DEF Keyed

-----------------------------------------------------------------------------
(* Parts of objects *)

(* An entry whose key is a fixed word. *)
LEMMA WordEntry ==
  ASSUME NEW D \in Seq(Nat), NEW w \in WordNames, NEW n, NEW x, NEW v, ValueAs(D, n, x, v)
  PROVE  EntriesAs(D, n, <<KeyValue(w, x)>>, <<<<Words[w], v>>>>)
<1>1. Words[w] \in Seq(Nat) /\ IsText(Words[w])
  BY WordsApart
<1>2. EntriesAs(D, n, <<<<Words[w], x>>>>, <<<<Words[w], v>>>>)
  BY <1>1, OneEntry
<1>. QED
  BY <1>2 DEF KeyValue

(* What escape_json writes is a value. *)
LEMMA EscapedValue ==
  ASSUME NEW D \in Seq(Nat), NEW s \in Seq(Nat), IsText(s), NEW n \in Nat
  PROVE  ValueAs(D, n, escape_json(s), JText(s))
<1>1. StringAs(D, escape_json(s), s)
  BY EscapeReadsBack
<1>. QED
  BY <1>1, LiteralValue

(* A part of an object whose keys are fixed words: its entries as they are  *)
(* written, what they say, and the words.                                   *)
Fixed(W) == {Words[w] : w \in W}
PartAs(D, n, entries, vals, W) ==
  W \subseteq WordNames /\ EntriesAs(D, n, entries, vals) /\ Keyed(vals, Fixed(W))

(* A part of one entry. *)
LEMMA OnePart ==
  ASSUME NEW D \in Seq(Nat), NEW w \in WordNames, NEW n, NEW x, NEW v, ValueAs(D, n, x, v)
  PROVE  /\ PartAs(D, n, <<KeyValue(w, x)>>, <<<<Words[w], v>>>>, {w})
         /\ Len(<<KeyValue(w, x)>>) = 1
<1>1. EntriesAs(D, n, <<KeyValue(w, x)>>, <<<<Words[w], v>>>>)
  BY WordEntry
<1>2. Keyed(<<<<Words[w], v>>>>, {Words[w]})
  BY KeyedOne
<1>3. Fixed({w}) = {Words[w]} /\ {w} \subseteq WordNames
  BY DEF Fixed
<1>4. Len(<<KeyValue(w, x)>>) = 1
  OBVIOUS
<1>. QED
  BY <1>1, <1>2, <1>3, <1>4 DEF PartAs

(* A part of none. *)
LEMMA NoPart ==
  ASSUME NEW D, NEW n \in Nat, NEW W, W \subseteq WordNames
  PROVE  PartAs(D, n, <<>>, <<>>, W)
BY NoEntries, KeyedNone DEF PartAs

(* Two parts without a word in common. *)
LEMMA MorePart ==
  ASSUME NEW D, NEW n, NEW x, NEW v, NEW V, NEW y, NEW u, NEW U,
         PartAs(D, n, x, v, V), PartAs(D, n, y, u, U), V \cap U = {}
  PROVE  /\ PartAs(D, n, x \o y, v \o u, V \cup U)
         /\ Len(x) >= 1 \/ Len(y) >= 1 => Len(x \o y) >= 1
<1>1. /\ V \subseteq WordNames /\ U \subseteq WordNames
      /\ EntriesAs(D, n, x, v) /\ EntriesAs(D, n, y, u)
      /\ Keyed(v, Fixed(V)) /\ Keyed(u, Fixed(U))
  BY DEF PartAs
<1>2. EntriesAs(D, n, x \o y, v \o u)
  BY <1>1, MoreEntries
<1>3. Fixed(V) \cap Fixed(U) = {}
  <2>1. ASSUME NEW a \in V, NEW b \in U PROVE Words[a] # Words[b]
    <3>1. a \in WordNames /\ b \in WordNames /\ a # b
      BY <1>1
    <3>. QED
      BY <3>1, WordsApart
  <2>. QED
    BY <2>1 DEF Fixed
<1>4. Keyed(v \o u, Fixed(V) \cup Fixed(U))
  BY <1>1, <1>3, KeyedConcat
<1>5. Fixed(V \cup U) = Fixed(V) \cup Fixed(U)
  BY DEF Fixed
<1>6. Listed(x) /\ Listed(y)
  BY <1>1 DEF EntriesAs
<1>7. Len(x \o y) = Len(x) + Len(y) /\ Len(x) \in Nat /\ Len(y) \in Nat
  BY <1>6, ListedConcat
<1>8. Len(x) >= 1 \/ Len(y) >= 1 => Len(x \o y) >= 1
  BY <1>7
<1>9. PartAs(D, n, x \o y, v \o u, V \cup U)
  BY <1>1, <1>2, <1>4, <1>5 DEF PartAs
<1>. QED
  BY <1>8, <1>9

(* A part of one word more. *)
LEMMA NextPart ==
  ASSUME NEW D, NEW n, NEW x, NEW v, NEW V, NEW y, NEW u, NEW w, NEW W,
         PartAs(D, n, x, v, V), PartAs(D, n, y, u, {w}), w \notin V, W = V \cup {w}, Len(x) >= 1
  PROVE  PartAs(D, n, x \o y, v \o u, W) /\ Len(x \o y) >= 1
<1>1. V \cap {w} = {}
  OBVIOUS
<1>. QED
  BY <1>1, MorePart

(* The whole object. *)
LEMMA PartsValue ==
  ASSUME NEW D \in Seq(Nat), NEW n, n <= Len(D), NEW x, NEW v, NEW V, PartAs(D, n, x, v, V),
         Len(x) >= 1
  PROVE  ValueAs(D, n + 1, write_object(x), JObject(v)) /\ write_object(x)[1] = 123
<1>1. EntriesAs(D, n, x, v) /\ KeysDiffer(v)
  BY DEF PartAs, Keyed
<1>. QED
  BY <1>1, ObjectValue

(* The optional texts are said if they are given, and not otherwise. *)
LEMMA TextPart ==
  ASSUME NEW D \in Seq(Nat), NEW n \in Nat, NEW w \in WordNames, NEW text \in Seq(Nat) \cup {None},
         text # None => IsText(text)
  PROVE  /\ PartAs(D, n, OptionalText(w, text), SaysIfGiven(w, text), {w})
         /\ PartAs(D, n, NonEmptyText(w, text), SaysIfAny(w, text), {w})
<1>. DEFINE one == <<KeyValue(w, escape_json(text))>>
            said1 == <<<<Words[w], JText(text)>>>>
            none == <<>>
<1>1. ASSUME text # None PROVE PartAs(D, n, one, said1, {w})
  <2>1. text \in Seq(Nat) /\ IsText(text)
    BY <1>1
  <2>2. ValueAs(D, n, escape_json(text), JText(text))
    BY <2>1, EscapedValue
  <2>. QED
    BY <2>2, OnePart
<1>2. PartAs(D, n, none, none, {w})
  BY NoPart
<1>3. /\ OptionalText(w, text) = IF text = None THEN none ELSE one
      /\ SaysIfGiven(w, text) = IF text = None THEN none ELSE said1
      /\ NonEmptyText(w, text) = IF text \in {None, <<>>} THEN none ELSE one
      /\ SaysIfAny(w, text) = IF text \in {None, <<>>} THEN none ELSE said1
  BY DEF OptionalText, SaysIfGiven, NonEmptyText, SaysIfAny, Says
<1>. HIDE DEF one, said1, none
<1>. QED
  BY <1>1, <1>2, <1>3

(* A list of texts, left out when it is empty. *)
LEMMA ListPart ==
  ASSUME NEW D \in Seq(Nat), NEW n \in Nat, n >= 1, NEW w \in WordNames, NEW texts \in Seq(Seq(Nat)),
         \A k \in 1..Len(texts) : IsText(texts[k])
  PROVE  /\ PartAs(D, n, NonEmptyList(w, texts), ListsIfAny(w, texts), {w})
         /\ texts # <<>> => Len(NonEmptyList(w, texts)) = 1
<1>. DEFINE l == Len(texts)
            parts == [k \in DOMAIN texts |-> escape_json(texts[k])]
            vals == [k \in DOMAIN texts |-> JText(texts[k])]
            x == <<91>> \o Commas(parts) \o <<93>>
<1>1. l \in Nat /\ DOMAIN texts = 1..l /\ \A k \in 1..l : texts[k] \in Seq(Nat) /\ IsText(texts[k])
  BY LenProperties, ElementOfSeq
<1>2. /\ DOMAIN parts = 1..l /\ parts = [k \in 1..l |-> parts[k]]
      /\ \A k \in 1..l : parts[k] = escape_json(texts[k])
  BY <1>1
<1>3. /\ DOMAIN vals = 1..l /\ vals = [k \in 1..l |-> vals[k]]
      /\ \A k \in 1..l : vals[k] = JText(texts[k])
  BY <1>1
<1>4. write_array(parts) = x
  BY DEF write_array
<1>. HIDE DEF l, parts, vals
<1>5. Listed(parts) /\ Len(parts) = l /\ Listed(vals) /\ Len(vals) = l
  BY <1>1, <1>2, <1>3, FunctionListed
<1>6. ASSUME NEW k \in 1..l PROVE ValueAs(D, 0, parts[k], vals[k]) /\ parts[k][1] \in {34, 123}
  <2>1. texts[k] \in Seq(Nat) /\ IsText(texts[k]) /\ 0 \in Nat
    BY <1>1
  <2>2. ValueAs(D, 0, escape_json(texts[k]), JText(texts[k])) /\ StringAs(D, escape_json(texts[k]), texts[k])
    BY <2>1, EscapedValue, EscapeReadsBack
  <2>. QED
    BY <1>2, <1>3, <2>2 DEF StringAs
<1>7. ValueAs(D, 0 + 1, <<91>> \o Commas(parts) \o <<93>>, JArray(vals))
  <2>1. \A k \in 1..Len(parts) : ValueAs(D, 0, parts[k], vals[k]) /\ parts[k][1] \in {34, 123}
    BY <1>5, <1>6
  <2>2. 0 \in Nat /\ 0 <= Len(D) /\ Len(parts) = Len(vals)
    BY <1>5
  <2>. QED
    BY ONLY <1>5, <2>1, <2>2, D \in Seq(Nat), ArrayValue
<1>8. ValueAs(D, n, x, JArray(vals))
  <2>1. 0 + 1 = 1 /\ 1 <= n
    OBVIOUS
  <2>2. ValueAs(D, 1, x, JArray(vals))
    BY <1>7, <2>1
  <2>. HIDE DEF x
  <2>. QED
    BY <2>1, <2>2, DeeperValue
<1>9. /\ PartAs(D, n, <<KeyValue(w, x)>>, <<<<Words[w], JArray(vals)>>>>, {w})
      /\ Len(<<KeyValue(w, x)>>) = 1
  BY <1>8, OnePart
<1>10. PartAs(D, n, <<>>, <<>>, {w})
  BY NoPart
<1>11. /\ NonEmptyList(w, texts) = IF texts = <<>> THEN <<>> ELSE <<KeyValue(w, x)>>
       /\ ListsIfAny(w, texts) = IF texts = <<>> THEN <<>> ELSE <<<<Words[w], JArray(vals)>>>>
  BY <1>4 DEF NonEmptyList, ListsIfAny, parts, vals
<1>. HIDE DEF x
<1>. QED
  BY <1>9, <1>10, <1>11

(* Entries with keys of an author's: l of them, with the keys, with the     *)
(* texts and with what they say.                                            *)
OwnAs(D, n, l, es, vals, key, x, v) ==
  /\ DOMAIN es = 1..l /\ es = [k \in 1..l |-> es[k]]
  /\ DOMAIN vals = 1..l /\ vals = [k \in 1..l |-> vals[k]]
  /\ \A k \in 1..l : es[k] = <<key[k], x[k]>> /\ vals[k] = <<key[k], v[k]>>
  /\ \A k \in 1..l : key[k] \in Seq(Nat) /\ IsText(key[k]) /\ ValueAs(D, n, x[k], v[k])
  /\ \A j, k \in 1..l : key[j] = key[k] => j = k

KeySet(key, l) == {key[k] : k \in 1..l}

LEMMA OwnEntries ==
  ASSUME NEW D \in Seq(Nat), NEW n \in Nat, NEW l \in Nat, NEW es, NEW vals, NEW key, NEW x, NEW v,
         OwnAs(D, n, l, es, vals, key, x, v)
  PROVE  /\ EntriesAs(D, n, es, vals) /\ Len(es) = l
         /\ Keyed(vals, KeySet(key, l))
<1>0. /\ DOMAIN es = 1..l /\ es = [k \in 1..l |-> es[k]]
      /\ DOMAIN vals = 1..l /\ vals = [k \in 1..l |-> vals[k]]
      /\ \A k \in 1..l : es[k] = <<key[k], x[k]>> /\ vals[k] = <<key[k], v[k]>>
      /\ \A k \in 1..l : key[k] \in Seq(Nat) /\ IsText(key[k]) /\ ValueAs(D, n, x[k], v[k])
      /\ \A j, k \in 1..l : key[j] = key[k] => j = k
  BY DEF OwnAs
<1>1. Listed(es) /\ Len(es) = l /\ Listed(vals) /\ Len(vals) = l
  BY <1>0, FunctionListed
<1>2. ASSUME NEW k \in 1..l PROVE EntryAs(D, n, EntryText(es[k]), vals[k])
  <2>. DEFINE y == key[k]
              z == x[k]
              u == v[k]
  <2>1. y \in Seq(Nat) /\ IsText(y) /\ ValueAs(D, n, z, u)
    BY <1>0
  <2>2. es[k] = <<y, z>> /\ vals[k] = <<y, u>>
    BY <1>0
  <2>. HIDE DEF y, z, u
  <2>3. StringAs(D, escape_json(y), y)
    BY <2>1, EscapeReadsBack
  <2>4. EntryAs(D, n, escape_json(y) \o <<58>> \o z, <<y, u>>)
    BY <2>1, <2>3, EntryValue
  <2>5. EntryText(es[k]) = escape_json(y) \o <<58>> \o z
    <3>1. es[k][1] = y /\ es[k][2] = z
      BY <2>2
    <3>. QED
      BY <3>1 DEF EntryText
  <2>. QED
    BY <2>2, <2>4, <2>5
<1>3. EntriesAs(D, n, es, vals)
  BY <1>1, <1>2 DEF EntriesAs
<1>4. \A k \in 1..l : vals[k][1] = key[k]
  BY <1>0
<1>5. KeysDiffer(vals)
  BY <1>0, <1>4 DEF KeysDiffer
<1>6. Keyed(vals, KeySet(key, l))
  BY <1>1, <1>4, <1>5 DEF Keyed, KeySet
<1>. QED
  BY <1>1, <1>3, <1>6

-----------------------------------------------------------------------------
(* Fields and conditionals *)

(* A field whose texts are UTF-8 is written as an object that says them. *)
LEMMA FieldValue ==
  ASSUME NEW D \in Seq(Nat), 7 <= Len(D), NEW m \in Fields, \A text \in FieldTexts(m) : IsText(text)
  PROVE  ValueAs(D, 2, field_text(m), FieldSaid(m))
<1>. DEFINE e1 == <<KeyValue("type", escape_json(Words["string"]))>>
            e2 == NonEmptyText("title", m.title)
            e3 == NonEmptyText("description", m.description)
            e4 == NonEmptyList("enum", m.enum_values)
            e5 == OptionalText("pattern", m.pattern)
            e6 == NonEmptyText("placeholder", m.placeholder)
            v1 == <<<<Words["type"], JText(Words["string"])>>>>
            v2 == SaysIfAny("title", m.title)
            v3 == SaysIfAny("description", m.description)
            v4 == ListsIfAny("enum", m.enum_values)
            v5 == SaysIfGiven("pattern", m.pattern)
            v6 == SaysIfAny("placeholder", m.placeholder)
<1>1. /\ {"type", "string", "title", "description", "enum", "pattern", "placeholder"} \subseteq WordNames
      /\ 1 \in Nat /\ 1 >= 1 /\ 1 <= Len(D)
  BY DEF WordNames
<1>2. /\ m.title \in Seq(Nat) /\ m.description \in Seq(Nat) /\ m.placeholder \in Seq(Nat)
      /\ m.pattern \in Seq(Nat) \cup {None} /\ m.enum_values \in Seq(Seq(Nat))
  BY DEF Fields
<1>3. /\ IsText(m.title) /\ IsText(m.description) /\ IsText(m.placeholder)
      /\ m.pattern # None => IsText(m.pattern)
      /\ \A k \in 1..Len(m.enum_values) : IsText(m.enum_values[k])
  <2>1. /\ {m.title, m.description, m.placeholder} \subseteq FieldTexts(m)
        /\ m.pattern # None => m.pattern \in FieldTexts(m)
        /\ Range(m.enum_values) \subseteq FieldTexts(m)
    BY DEF FieldTexts
  <2>. DEFINE y == m.enum_values
  <2>2. y \in Seq(Seq(Nat))
    BY <1>2
  <2>3. \A k \in 1..Len(y) : y[k] \in Range(y)
    <3>. HIDE DEF y
    <3>1. DOMAIN y = 1..Len(y)
      BY <2>2, LenProperties
    <3>. QED
      BY <3>1 DEF Range
  <2>. QED
    BY <2>1, <2>3
<1>4. PartAs(D, 1, e1, v1, {"type"}) /\ Len(e1) = 1
  <2>1. Words["string"] \in Seq(Nat) /\ IsText(Words["string"])
    BY <1>1, WordsApart
  <2>2. ValueAs(D, 1, escape_json(Words["string"]), JText(Words["string"]))
    BY <1>1, <2>1, EscapedValue
  <2>. QED
    BY <1>1, <2>2, OnePart
<1>5. PartAs(D, 1, e2, v2, {"title"})
  BY <1>1, <1>2, <1>3, TextPart
<1>6. PartAs(D, 1, e3, v3, {"description"})
  BY <1>1, <1>2, <1>3, TextPart
<1>7. PartAs(D, 1, e4, v4, {"enum"})
  BY <1>1, <1>2, <1>3, ListPart
<1>8. PartAs(D, 1, e5, v5, {"pattern"})
  BY <1>1, <1>2, <1>3, TextPart
<1>9. PartAs(D, 1, e6, v6, {"placeholder"})
  BY <1>1, <1>2, <1>3, TextPart
<1>. DEFINE x2 == e1 \o e2
            x3 == x2 \o e3
            x4 == x3 \o e4
            x5 == x4 \o e5
            x6 == x5 \o e6
            y2 == v1 \o v2
            y3 == y2 \o v3
            y4 == y3 \o v4
            y5 == y4 \o v5
            y6 == y5 \o v6
<1>10. field_text(m) = write_object(x6) /\ FieldSaid(m) = JObject(y6)
  BY DEF field_text, FieldSaid, Says
<1>. HIDE DEF e1, e2, e3, e4, e5, e6, v1, v2, v3, v4, v5, v6
<1>. DEFINE W1 == {"type"}
            W2 == W1 \cup {"title"}
            W3 == W2 \cup {"description"}
            W4 == W3 \cup {"enum"}
            W5 == W4 \cup {"pattern"}
            W6 == W5 \cup {"placeholder"}
<1>11. /\ "title" \notin W1 /\ "description" \notin W2 /\ "enum" \notin W3 /\ "pattern" \notin W4
       /\ "placeholder" \notin W5
  OBVIOUS
<1>12. PartAs(D, 1, e1, v1, W1) /\ Len(e1) >= 1
  BY <1>4
<1>. HIDE DEF W1
<1>13. PartAs(D, 1, x2, y2, W2) /\ Len(x2) >= 1
  BY <1>5, <1>11, <1>12, NextPart
<1>. HIDE DEF W2, x2, y2
<1>14. PartAs(D, 1, x3, y3, W3) /\ Len(x3) >= 1
  BY <1>6, <1>11, <1>13, NextPart
<1>. HIDE DEF W3, x3, y3
<1>15. PartAs(D, 1, x4, y4, W4) /\ Len(x4) >= 1
  BY <1>7, <1>11, <1>14, NextPart
<1>. HIDE DEF W4, x4, y4
<1>16. PartAs(D, 1, x5, y5, W5) /\ Len(x5) >= 1
  BY <1>8, <1>11, <1>15, NextPart
<1>. HIDE DEF W5, x5, y5
<1>17. PartAs(D, 1, x6, y6, W6) /\ Len(x6) >= 1
  BY <1>9, <1>11, <1>16, NextPart
<1>. HIDE DEF W6, x6, y6
<1>18. ValueAs(D, 1 + 1, write_object(x6), JObject(y6))
  BY <1>1, <1>17, PartsValue
<1>19. 1 + 1 = 2
  OBVIOUS
<1>. QED
  BY <1>10, <1>18, <1>19

(* A conditional whose texts are UTF-8, that has something to require or to *)
(* forbid, and that forbids no key twice.                                   *)
BranchFine(c) ==
  /\ c \in Whens /\ IsText(c.equals) /\ (\A key \in BranchKeys(c) : IsText(key))
  /\ c.require # <<>> \/ c.forbid # <<>>
  /\ IsInjective(c.forbid)

(* What it holds. *)
LEMMA BranchTypes ==
  ASSUME NEW c, BranchFine(c)
  PROVE  /\ c.key \in Seq(Nat) /\ IsText(c.key) /\ c.equals \in Seq(Nat) /\ IsText(c.equals)
         /\ c.require \in Seq(Seq(Nat)) /\ \A k \in 1..Len(c.require) : IsText(c.require[k])
         /\ Len(c.forbid) \in Nat /\ DOMAIN c.forbid = 1..Len(c.forbid)
         /\ c.forbid # <<>> => Len(c.forbid) >= 1
         /\ \A k \in 1..Len(c.forbid) : c.forbid[k] \in Seq(Nat) /\ IsText(c.forbid[k])
         /\ \A j, k \in 1..Len(c.forbid) : c.forbid[j] = c.forbid[k] => j = k
<1>1. /\ c.key \in Seq(Nat) /\ c.equals \in Seq(Nat)
      /\ c.require \in Seq(Seq(Nat)) /\ c.forbid \in Seq(Seq(Nat))
  BY DEF BranchFine, Whens
<1>. DEFINE r == c.require
            f == c.forbid
<1>2. IsText(c.equals) /\ IsText(c.key) /\ (\A key \in Range(r) \cup Range(f) : IsText(key))
  BY DEF BranchFine, BranchKeys
<1>3. r \in Seq(Seq(Nat)) /\ f \in Seq(Seq(Nat)) /\ IsInjective(f)
  BY <1>1 DEF BranchFine
<1>. HIDE DEF r, f
<1>4. /\ Len(r) \in Nat /\ DOMAIN r = 1..Len(r)
      /\ Len(f) \in Nat /\ DOMAIN f = 1..Len(f) /\ (f # <<>> => Len(f) >= 1)
      /\ \A k \in 1..Len(f) : f[k] \in Seq(Nat)
  <2>1. f # <<>> => Len(f) # 0
    BY <1>3
  <2>. QED
    BY <1>3, <2>1, LenProperties, ElementOfSeq
<1>5. \A k \in 1..Len(r) : r[k] \in Range(r)
  BY <1>4 DEF Range
<1>6. \A k \in 1..Len(f) : f[k] \in Range(f)
  BY <1>4 DEF Range
<1>7. \A j, k \in 1..Len(f) : f[j] = f[k] => j = k
  BY <1>3, <1>4 DEF IsInjective
<1>. QED
  BY <1>1, <1>2, <1>4, <1>5, <1>6, <1>7 DEF r, f

(* The condition. *)
LEMMA IfValue ==
  ASSUME NEW D \in Seq(Nat), 7 <= Len(D), NEW c, BranchFine(c)
  PROVE  ValueAs(D, 3, if_text(c), IfSaid(c))
<1>. DEFINE constant == <<KeyValue("const", escape_json(c.equals))>>
            saidConstant == <<<<Words["const"], JText(c.equals)>>>>
            inner == write_object(constant)
            saidInner == JObject(saidConstant)
            key == <<<<c.key, inner>>>>
            saidKey == <<<<c.key, saidInner>>>>
            e1 == <<KeyValue("properties", write_object(key))>>
            v1 == <<<<Words["properties"], JObject(saidKey)>>>>
            e2 == NonEmptyList("required", <<c.key>>)
            v2 == ListsIfAny("required", <<c.key>>)
<1>1. {"const", "properties", "required"} \subseteq WordNames
  BY DEF WordNames
<1>2. c.key \in Seq(Nat) /\ IsText(c.key) /\ c.equals \in Seq(Nat) /\ IsText(c.equals)
  BY BranchTypes
<1>3. /\ 0 \in Nat /\ 1 \in Nat /\ 2 \in Nat /\ 0 <= Len(D) /\ 1 <= Len(D) /\ 2 <= Len(D)
      /\ 0 + 1 = 1 /\ 1 + 1 = 2 /\ 2 + 1 = 3 /\ 1 >= 1 /\ 2 >= 1
  OBVIOUS
<1>4. ValueAs(D, 1, inner, saidInner)
  <2>1. ValueAs(D, 0, escape_json(c.equals), JText(c.equals))
    BY <1>2, <1>3, EscapedValue
  <2>2. PartAs(D, 0, constant, saidConstant, {"const"}) /\ Len(constant) = 1
    BY <1>1, <2>1, OnePart
  <2>. HIDE DEF constant, saidConstant
  <2>3. Len(constant) >= 1
    BY <2>2
  <2>4. ValueAs(D, 0 + 1, write_object(constant), JObject(saidConstant))
    BY <1>3, <2>2, <2>3, PartsValue
  <2>. QED
    BY <1>3, <2>4
<1>. HIDE DEF inner, saidInner
<1>5. ValueAs(D, 2, write_object(key), JObject(saidKey))
  <2>1. EntriesAs(D, 1, key, saidKey)
    BY <1>2, <1>4, OneEntry
  <2>2. Len(key) = 1 /\ KeysDiffer(saidKey)
    BY OneKey
  <2>. HIDE DEF key, saidKey
  <2>3. Len(key) >= 1
    BY <2>2
  <2>4. ValueAs(D, 1 + 1, write_object(key), JObject(saidKey))
    BY <1>3, <2>1, <2>2, <2>3, ObjectValue
  <2>. QED
    BY <1>3, <2>4
<1>6. PartAs(D, 2, e1, v1, {"properties"}) /\ Len(e1) = 1
  <2>. HIDE DEF key, saidKey
  <2>. QED
    BY <1>1, <1>5, OnePart
<1>7. PartAs(D, 2, e2, v2, {"required"})
  <2>. DEFINE texts == <<c.key>>
  <2>1. texts \in Seq(Seq(Nat)) /\ Len(texts) = 1 /\ texts[1] = c.key /\ \A k \in 1..1 : k = 1
    BY <1>2
  <2>. HIDE DEF texts
  <2>2. \A k \in 1..Len(texts) : IsText(texts[k])
    BY <1>2, <2>1
  <2>3. PartAs(D, 2, NonEmptyList("required", texts), ListsIfAny("required", texts), {"required"})
    BY <1>1, <1>3, <2>1, <2>2, ListPart
  <2>. QED
    BY <2>3 DEF texts
<1>8. if_text(c) = write_object(e1 \o e2) /\ IfSaid(c) = JObject(v1 \o v2)
  BY DEF if_text, IfSaid, Says, inner, saidInner
<1>. HIDE DEF e1, e2, v1, v2
<1>9. {"properties"} \cap {"required"} = {} /\ Len(e1) >= 1
  BY <1>6
<1>10. /\ PartAs(D, 2, e1 \o e2, v1 \o v2, {"properties"} \cup {"required"})
       /\ Len(e1 \o e2) >= 1
  BY <1>6, <1>7, <1>9, MorePart
<1>11. ValueAs(D, 2 + 1, write_object(e1 \o e2), JObject(v1 \o v2))
  BY <1>3, <1>10, PartsValue
<1>. QED
  BY <1>3, <1>8, <1>11

(* What follows. *)
LEMMA ThenValue ==
  ASSUME NEW D \in Seq(Nat), 7 <= Len(D), NEW c, BranchFine(c)
  PROVE  ValueAs(D, 3, then_text(c), ThenSaid(c))
<1>. DEFINE f == c.forbid
            l == Len(f)
            es == [k \in DOMAIN f |-> <<f[k], Words["false"]>>]
            vals == Forbidden(c)
            one == <<KeyValue("properties", write_object(es))>>
            saidOne == <<<<Words["properties"], JObject(vals)>>>>
            none == <<>>
            e1 == NonEmptyList("required", c.require)
            v1 == ListsIfAny("required", c.require)
            e2 == IF f = none THEN none ELSE one
            v2 == IF f = none THEN none ELSE saidOne
<1>1. {"false", "properties", "required"} \subseteq WordNames
  BY DEF WordNames
<1>2. /\ c.require \in Seq(Seq(Nat)) /\ \A k \in 1..Len(c.require) : IsText(c.require[k])
      /\ l \in Nat /\ DOMAIN f = 1..l /\ (f # <<>> => l >= 1)
      /\ \A k \in 1..l : f[k] \in Seq(Nat) /\ IsText(f[k])
      /\ \A j, k \in 1..l : f[j] = f[k] => j = k
  BY BranchTypes
<1>3. /\ 0 \in Nat /\ 2 \in Nat /\ 0 <= Len(D) /\ 2 <= Len(D)
      /\ 0 + 1 = 1 /\ 2 + 1 = 3 /\ 1 <= 2 /\ 2 >= 1
  OBVIOUS
<1>4. PartAs(D, 2, e1, v1, {"required"}) /\ (c.require # <<>> => Len(e1) = 1)
  BY <1>1, <1>2, <1>3, ListPart
<1>5. c.require # <<>> \/ f # <<>>
  BY DEF BranchFine
<1>6. EntriesAs(D, 0, es, vals) /\ Len(es) = l /\ KeysDiffer(vals)
  <2>. DEFINE no == Words["false"]
              never == JNumber(no[1])
              x == [k \in 1..l |-> no]
              v == [k \in 1..l |-> never]
  <2>1. no = <<no[1]>> /\ no[1] \in Nat /\ no[1] > 255
    BY <1>1, WordsApart
  <2>2. ValueAs(D, 0, no, never)
    BY <1>3, <2>1, NumberValue
  <2>3. /\ DOMAIN es = 1..l /\ es = [k \in 1..l |-> es[k]] /\ \A k \in 1..l : es[k] = <<f[k], no>>
    BY <1>2
  <2>4. /\ DOMAIN vals = 1..l /\ vals = [k \in 1..l |-> vals[k]] /\ \A k \in 1..l : vals[k] = <<f[k], never>>
    BY <1>2 DEF Forbidden
  <2>. HIDE DEF no, never, es, vals, l, f
  <2>5. \A k \in 1..l : x[k] = no /\ v[k] = never
    OBVIOUS
  <2>. HIDE DEF x, v
  <2>6. \A k \in 1..l : es[k] = <<f[k], x[k]>> /\ vals[k] = <<f[k], v[k]>>
    BY <2>3, <2>4, <2>5
  <2>7. \A k \in 1..l : f[k] \in Seq(Nat) /\ IsText(f[k]) /\ ValueAs(D, 0, x[k], v[k])
    BY <1>2, <2>2, <2>5
  <2>8. OwnAs(D, 0, l, es, vals, f, x, v)
    BY <1>2, <2>3, <2>4, <2>6, <2>7 DEF OwnAs
  <2>9. EntriesAs(D, 0, es, vals) /\ Len(es) = l /\ Keyed(vals, KeySet(f, l))
    BY <1>2, <1>3, <2>8, OwnEntries
  <2>. QED
    BY <2>9 DEF Keyed
<1>7. ASSUME f # <<>>
      PROVE  PartAs(D, 2, one, saidOne, {"properties"}) /\ Len(one) = 1
  <2>. HIDE DEF es, vals, l, f
  <2>1. Len(es) >= 1
    BY <1>2, <1>6, <1>7
  <2>2. ValueAs(D, 0 + 1, write_object(es), JObject(vals))
    BY <1>3, <1>6, <2>1, ObjectValue
  <2>3. ValueAs(D, 1, write_object(es), JObject(vals))
    BY <1>3, <2>2
  <2>4. ValueAs(D, 2, write_object(es), JObject(vals))
    BY <1>3, <2>3, DeeperValue
  <2>. QED
    BY <1>1, <2>4, OnePart
<1>8. PartAs(D, 2, none, none, {"properties"})
  BY <1>1, <1>3, NoPart
<1>9. then_text(c) = write_object(e1 \o e2) /\ ThenSaid(c) = JObject(v1 \o v2)
  BY DEF then_text, ThenSaid
<1>10. PartAs(D, 2, e2, v2, {"properties"}) /\ (f # <<>> => Len(e2) = 1)
  <2>. HIDE DEF one, saidOne, f
  <2>. QED
    BY <1>7, <1>8
<1>. HIDE DEF e1, e2, v1, v2, f
<1>11. {"required"} \cap {"properties"} = {} /\ (Len(e1) >= 1 \/ Len(e2) >= 1)
  <2>1. {"required"} \cap {"properties"} = {}
    OBVIOUS
  <2>2. Len(e1) = 1 \/ Len(e2) = 1
    BY <1>4, <1>5, <1>10
  <2>3. \A n : n = 1 => n >= 1
    OBVIOUS
  <2>. QED
    BY <2>1, <2>2, <2>3
<1>12. /\ PartAs(D, 2, e1 \o e2, v1 \o v2, {"required"} \cup {"properties"})
       /\ Len(e1 \o e2) >= 1
  BY <1>4, <1>10, <1>11, MorePart
<1>13. ValueAs(D, 2 + 1, write_object(e1 \o e2), JObject(v1 \o v2))
  BY <1>3, <1>12, PartsValue
<1>. QED
  BY <1>3, <1>9, <1>13

(* Both. *)
LEMMA BranchValue ==
  ASSUME NEW D \in Seq(Nat), 7 <= Len(D), NEW c, BranchFine(c)
  PROVE  ValueAs(D, 4, branch_text(c), BranchSaid(c)) /\ branch_text(c)[1] = 123
<1>. DEFINE e1 == <<KeyValue("if", if_text(c))>>
            v1 == <<<<Words["if"], IfSaid(c)>>>>
            e2 == <<KeyValue("then", then_text(c))>>
            v2 == <<<<Words["then"], ThenSaid(c)>>>>
<1>1. {"if", "then"} \subseteq WordNames /\ 3 <= Len(D) /\ 3 + 1 = 4
  BY DEF WordNames
<1>2. ValueAs(D, 3, if_text(c), IfSaid(c)) /\ ValueAs(D, 3, then_text(c), ThenSaid(c))
  BY IfValue, ThenValue
<1>3. /\ PartAs(D, 3, e1, v1, {"if"}) /\ Len(e1) = 1
      /\ PartAs(D, 3, e2, v2, {"then"})
  BY <1>1, <1>2, OnePart
<1>. DEFINE e == e1 \o e2
            v == v1 \o v2
<1>4. branch_text(c) = write_object(e) /\ BranchSaid(c) = JObject(v)
  BY DEF branch_text, BranchSaid
<1>. HIDE DEF e1, e2, v1, v2
<1>5. {"if"} \cap {"then"} = {} /\ Len(e1) >= 1
  BY <1>3
<1>6. PartAs(D, 3, e, v, {"if"} \cup {"then"}) /\ Len(e) >= 1
  BY <1>3, <1>5, MorePart
<1>. HIDE DEF e, v
<1>7. ValueAs(D, 3 + 1, write_object(e), JObject(v)) /\ write_object(e)[1] = 123
  BY <1>1, <1>6, PartsValue
<1>. QED
  BY <1>1, <1>4, <1>7

-----------------------------------------------------------------------------
(* The schema and its envelope *)

(* What can be given. *)
LEMMA TextsType ==
  ASSUME NEW t \in Texts
  PROVE  /\ t.id \in Seq(Nat) \cup {None} /\ t.title \in Seq(Nat) \cup {None}
         /\ t.description \in Seq(Nat) \cup {None} /\ t.provider \in Seq(Nat) /\ t.provider # None
         /\ Len(t.members) \in Nat /\ DOMAIN t.members = 1..Len(t.members)
         /\ t.members # <<>> => Len(t.members) >= 1
         /\ \A k \in 1..Len(t.members) : t.members[k] \in Fields
         /\ Len(t.conditionals) \in Nat /\ DOMAIN t.conditionals = 1..Len(t.conditionals)
         /\ \A k \in 1..Len(t.conditionals) : t.conditionals[k] \in Whens
         /\ Len(t.extra) \in Nat /\ DOMAIN t.extra = 1..Len(t.extra)
         /\ \A k \in 1..Len(t.extra) : t.extra[k][1] \in Seq(Nat) /\ t.extra[k][2] \in Seq(Nat)
<1>1. /\ None \notin Seq(Nat)
      /\ t \in [id : Seq(Nat) \cup {None}, title : Seq(Nat) \cup {None},
                description : Seq(Nat) \cup {None}, members : Seq(Fields),
                conditionals : Seq(Whens), provider : Seq(Nat),
                extra : Seq(Seq(Nat) \X Seq(Nat))]
  BY TextsAssumption
<1>2. /\ t.id \in Seq(Nat) \cup {None} /\ t.title \in Seq(Nat) \cup {None}
      /\ t.description \in Seq(Nat) \cup {None} /\ t.provider \in Seq(Nat)
      /\ t.members \in Seq(Fields) /\ t.conditionals \in Seq(Whens)
      /\ t.extra \in Seq(Seq(Nat) \X Seq(Nat))
  BY <1>1
<1>. DEFINE x == t.extra
            y == t.members
            z == t.conditionals
            S == Seq(Nat) \X Seq(Nat)
<1>3. \A e \in S : e[1] \in Seq(Nat) /\ e[2] \in Seq(Nat)
  OBVIOUS
<1>4. x \in Seq(S) /\ y \in Seq(Fields) /\ z \in Seq(Whens)
  BY <1>2
<1>. HIDE DEF x, y, z, S
<1>5. Len(x) \in Nat /\ DOMAIN x = 1..Len(x) /\ (\A k \in 1..Len(x) : x[k] \in S)
  BY <1>4, LenProperties, ElementOfSeq
<1>6. /\ Len(y) \in Nat /\ DOMAIN y = 1..Len(y) /\ (\A k \in 1..Len(y) : y[k] \in Fields)
      /\ y # <<>> => Len(y) >= 1
  <2>1. y # <<>> => Len(y) # 0
    BY <1>4
  <2>. QED
    BY <1>4, <2>1, LenProperties, ElementOfSeq
<1>7. Len(z) \in Nat /\ DOMAIN z = 1..Len(z) /\ (\A k \in 1..Len(z) : z[k] \in Whens)
  BY <1>4, LenProperties, ElementOfSeq
<1>. QED
  BY <1>1, <1>2, <1>3, <1>5, <1>6, <1>7 DEF x, y, z

(* The keys that the envelope has of its own. *)
TakenKeys == {Words[w] : w \in {"config_schema_version", "schema", "provider"}}

(* WellSaid, place by place. *)
HeadWell(t) ==
  /\ \A text \in {t.id, t.title, t.description} : text # None => IsText(text)
  /\ IsText(t.provider)
MembersWell(t) ==
  /\ \A k \in 1..Len(t.members) : t.members[k].key # <<>>
  /\ \A k \in 1..Len(t.members) : \A text \in FieldTexts(t.members[k]) : IsText(text)
  /\ \A j, k \in 1..Len(t.members) : t.members[j].key = t.members[k].key => j = k
BranchesWell(t) ==
  \A k \in 1..Len(t.conditionals) :
    /\ IsText(t.conditionals[k].equals) /\ BranchKeys(t.conditionals[k]) \subseteq KeysOf(t)
    /\ t.conditionals[k].require # <<>> \/ t.conditionals[k].forbid # <<>>
ExtrasWell(t) ==
  /\ \A k \in 1..Len(t.extra) : IsText(t.extra[k][1]) /\ IsText(t.extra[k][2])
  /\ \A k \in 1..Len(t.extra) : t.extra[k][1] \notin TakenKeys
  /\ \A j, k \in 1..Len(t.extra) : t.extra[j][1] = t.extra[k][1] => j = k

LEMMA WellMeans ==
  ASSUME NEW t \in Texts
  PROVE  WellSaid(t) <=> HeadWell(t) /\ MembersWell(t) /\ BranchesWell(t) /\ ExtrasWell(t)
<1>. DEFINE x == t.extra
            y == t.members
            z == t.conditionals
            keys == KeysOf(t)
            head == {t.id, t.title, t.description, t.provider} \ {None}
<1>1. /\ DOMAIN x = 1..Len(x) /\ DOMAIN y = 1..Len(y) /\ DOMAIN z = 1..Len(z) /\ t.provider # None
  BY TextsType
<1>2. /\ Range(x) = {x[k] : k \in 1..Len(x)} /\ Range(y) = {y[k] : k \in 1..Len(y)}
      /\ Range(z) = {z[k] : k \in 1..Len(z)}
  BY <1>1 DEF Range
<1>. DEFINE A == UNION {FieldTexts(m) : m \in Range(y)}
            B == {c.equals : c \in Range(z)}
            C == UNION {{e[1], e[2]} : e \in Range(x)}
<1>3. GivenTexts(t) = head \cup A \cup B \cup C
  BY DEF GivenTexts
<1>4. keys = {m.key : m \in Range(y)}
  BY DEF KeysOf
<1>5. WellSaid(t) <=>
        /\ \A text \in GivenTexts(t) : IsText(text)
        /\ \A j, k \in 1..Len(y) : y[j].key = y[k].key => j = k
        /\ \A j, k \in 1..Len(x) : x[j][1] = x[k][1] => j = k
        /\ <<>> \notin keys /\ \A e \in Range(x) : e[1] \notin TakenKeys
        /\ \A c \in Range(z) : BranchKeys(c) \subseteq keys /\ (c.require # <<>> \/ c.forbid # <<>>)
  BY <1>1 DEF WellSaid, TakenKeys
<1>6. /\ HeadWell(t) <=> \A text \in head : IsText(text)
  BY <1>1 DEF HeadWell
<1>7. MembersWell(t) <=>
        /\ \A k \in 1..Len(y) : y[k].key # <<>>
        /\ \A k \in 1..Len(y) : \A text \in FieldTexts(y[k]) : IsText(text)
        /\ \A j, k \in 1..Len(y) : y[j].key = y[k].key => j = k
  BY DEF MembersWell
<1>8. BranchesWell(t) <=>
        \A k \in 1..Len(z) : /\ IsText(z[k].equals) /\ BranchKeys(z[k]) \subseteq keys
                             /\ z[k].require # <<>> \/ z[k].forbid # <<>>
  BY DEF BranchesWell
<1>9. ExtrasWell(t) <=>
        /\ \A k \in 1..Len(x) : IsText(x[k][1]) /\ IsText(x[k][2])
        /\ \A k \in 1..Len(x) : x[k][1] \notin TakenKeys
        /\ \A j, k \in 1..Len(x) : x[j][1] = x[k][1] => j = k
  BY DEF ExtrasWell
<1>. HIDE DEF x, y, z, keys, head
<1>10. (\A text \in GivenTexts(t) : IsText(text)) <=>
         /\ \A text \in head : IsText(text)
         /\ \A k \in 1..Len(y) : \A text \in FieldTexts(y[k]) : IsText(text)
         /\ \A k \in 1..Len(z) : IsText(z[k].equals)
         /\ \A k \in 1..Len(x) : IsText(x[k][1]) /\ IsText(x[k][2])
  <2>1. (\A text \in UNION {FieldTexts(m) : m \in Range(y)} : IsText(text)) <=>
          \A k \in 1..Len(y) : \A text \in FieldTexts(y[k]) : IsText(text)
    BY <1>2
  <2>2. (\A text \in {c.equals : c \in Range(z)} : IsText(text)) <=>
          \A k \in 1..Len(z) : IsText(z[k].equals)
    BY <1>2
  <2>3. (\A text \in UNION {{e[1], e[2]} : e \in Range(x)} : IsText(text)) <=>
          \A k \in 1..Len(x) : IsText(x[k][1]) /\ IsText(x[k][2])
    BY <1>2
  <2>. HIDE DEF A, B, C
  <2>4. (\A text \in GivenTexts(t) : IsText(text)) <=>
          /\ \A text \in head : IsText(text)
          /\ \A text \in A : IsText(text)
          /\ \A text \in B : IsText(text)
          /\ \A text \in C : IsText(text)
    BY <1>3
  <2>. QED
    BY <2>1, <2>2, <2>3, <2>4 DEF A, B, C
<1>11. <<>> \notin keys <=> \A k \in 1..Len(y) : y[k].key # <<>>
  BY <1>2, <1>4
<1>12. (\A e \in Range(x) : e[1] \notin TakenKeys) <=> \A k \in 1..Len(x) : x[k][1] \notin TakenKeys
  BY <1>2
<1>13. (\A c \in Range(z) : BranchKeys(c) \subseteq keys /\ (c.require # <<>> \/ c.forbid # <<>>)) <=>
         \A k \in 1..Len(z) :
           BranchKeys(z[k]) \subseteq keys /\ (z[k].require # <<>> \/ z[k].forbid # <<>>)
  BY <1>2
<1>. QED
  BY <1>5, <1>6, <1>7, <1>8, <1>9, <1>10, <1>11, <1>12, <1>13

(* No key is an earlier one's if different places have different keys. *)
LEMMA EarlierOrLater ==
  ASSUME NEW l \in Nat, NEW key
  PROVE  (\A j, k \in 1..l : key[j] = key[k] => j = k) <=>
           ~\E k \in 1..l : \E j \in 1..(k - 1) : key[j] = key[k]
<1>1. ASSUME \A j, k \in 1..l : key[j] = key[k] => j = k, NEW k \in 1..l, NEW j \in 1..(k - 1)
      PROVE  key[j] # key[k]
  <2>1. j \in 1..l /\ j # k
    OBVIOUS
  <2>. QED
    BY <1>1, <2>1
<1>2. ASSUME \A k \in 1..l : \A j \in 1..(k - 1) : key[j] # key[k],
             NEW j \in 1..l, NEW k \in 1..l, key[j] = key[k]
      PROVE  j = k
  <2>1. CASE j < k
    <3>1. j \in 1..(k - 1)
      BY <2>1
    <3>. QED
      BY <1>2, <3>1
  <2>2. CASE k < j
    <3>1. k \in 1..(j - 1)
      BY <2>2
    <3>. QED
      BY <1>2, <3>1
  <2>. QED
    BY <2>1, <2>2
<1>. QED
  BY <1>1, <1>2

(* The schema is refused for what is not well said of it. *)
LEMMA SchemaThrowsIf ==
  ASSUME NEW t \in Texts, \A text \in {t.id, t.title, t.description} : text # None => IsText(text)
  PROVE  SchemaThrows(t) <=> ~(MembersWell(t) /\ BranchesWell(t))
<1>. DEFINE y == t.members
            z == t.conditionals
            l == Len(y)
            key == [k \in 1..l |-> y[k].key]
<1>1. /\ t.id \in Seq(Nat) \cup {None} /\ t.title \in Seq(Nat) \cup {None}
      /\ t.description \in Seq(Nat) \cup {None}
      /\ l \in Nat /\ DOMAIN y = 1..l /\ \A k \in 1..l : y[k] \in Fields
      /\ DOMAIN z = 1..Len(z) /\ \A k \in 1..Len(z) : z[k] \in Whens
  BY TextsType
<1>2. \A text \in {t.id, t.title, t.description} : text # None => is_valid_utf8(text)
  BY <1>1, Utf8Exact
<1>3. ASSUME NEW k \in 1..l, NEW text \in FieldTexts(y[k]) PROVE is_valid_utf8(text) <=> IsText(text)
  <2>. DEFINE m == y[k]
  <2>1. m \in Fields
    BY <1>1
  <2>2. FieldTexts(m) = {m.key, m.title, m.description, m.placeholder}
                          \cup ({m.pattern} \ {None}) \cup Range(m.enum_values)
    BY DEF FieldTexts
  <2>3. /\ m.key \in Seq(Nat) /\ m.title \in Seq(Nat) /\ m.description \in Seq(Nat)
        /\ m.placeholder \in Seq(Nat) /\ m.pattern \in Seq(Nat) \cup {None}
        /\ m.enum_values \in Seq(Seq(Nat))
    BY <2>1 DEF Fields
  <2>. DEFINE values == m.enum_values
  <2>4. values \in Seq(Seq(Nat))
    BY <2>3
  <2>5. Range(values) \subseteq Seq(Nat)
    <3>. HIDE DEF values
    <3>1. DOMAIN values = 1..Len(values) /\ \A j \in 1..Len(values) : values[j] \in Seq(Nat)
      BY <2>4, LenProperties, ElementOfSeq
    <3>. QED
      BY <3>1 DEF Range
  <2>6. text \in Seq(Nat)
    BY <2>2, <2>3, <2>5
  <2>. QED
    BY <2>6, Utf8Exact
<1>4. ASSUME NEW k \in 1..Len(z) PROVE is_valid_utf8(z[k].equals) <=> IsText(z[k].equals)
  <2>1. z[k].equals \in Seq(Nat)
    BY <1>1 DEF Whens
  <2>. QED
    BY <2>1, Utf8Exact
<1>5. SchemaThrows(t) <=> \/ \E k \in 1..l : FieldRefused(t, k)
                          \/ \E k \in 1..Len(z) : BranchRefused(t, z[k])
  BY <1>1, <1>2 DEF SchemaThrows
<1>6. \A k \in 1..l : FieldRefused(t, k) <=>
        \/ y[k].key = <<>> \/ \E j \in 1..(k - 1) : y[j].key = y[k].key
        \/ \E text \in FieldTexts(y[k]) : ~is_valid_utf8(text)
  BY DEF FieldRefused
<1>7. \A k \in 1..Len(z) : BranchRefused(t, z[k]) <=>
        \/ z[k].require = <<>> /\ z[k].forbid = <<>>
        \/ ~is_valid_utf8(z[k].equals) \/ ~(BranchKeys(z[k]) \subseteq KeysOf(t))
  BY DEF BranchRefused
<1>8. MembersWell(t) <=>
        /\ \A k \in 1..l : y[k].key # <<>>
        /\ \A k \in 1..l : \A text \in FieldTexts(y[k]) : IsText(text)
        /\ \A j, k \in 1..l : y[j].key = y[k].key => j = k
  BY DEF MembersWell
<1>9. BranchesWell(t) <=>
        \A k \in 1..Len(z) : /\ IsText(z[k].equals) /\ BranchKeys(z[k]) \subseteq KeysOf(t)
                             /\ z[k].require # <<>> \/ z[k].forbid # <<>>
  BY DEF BranchesWell
<1>. HIDE DEF y, z, l
<1>10. (\A j, k \in 1..l : y[j].key = y[k].key => j = k) <=>
         ~\E k \in 1..l : \E j \in 1..(k - 1) : y[j].key = y[k].key
  <2>1. (\A j, k \in 1..l : key[j] = key[k] => j = k) <=>
          ~\E k \in 1..l : \E j \in 1..(k - 1) : key[j] = key[k]
    <3>. HIDE DEF key
    <3>. QED
      BY <1>1, EarlierOrLater
  <2>2. \A k \in 1..l : key[k] = y[k].key /\ \A j \in 1..(k - 1) : j \in 1..l
    BY <1>1
  <2>. HIDE DEF key
  <2>3. \A k \in 1..l : \A j \in 1..(k - 1) : key[j] = y[j].key
    BY <2>2
  <2>. QED
    BY <2>1, <2>2, <2>3
<1>11. (\E k \in 1..l : FieldRefused(t, k)) <=> ~MembersWell(t)
  BY <1>3, <1>6, <1>8, <1>10
<1>12. (\E k \in 1..Len(z) : BranchRefused(t, z[k])) <=> ~BranchesWell(t)
  BY <1>4, <1>7, <1>9
<1>. QED
  BY <1>5, <1>11, <1>12

(* Nothing else throws. *)
LEMMA WellIs ==
  ASSUME NEW t \in Texts
  PROVE  WellSaid(t) <=> ~SchemaThrows(t) /\ ~EnvelopeThrows(t)
<1>. DEFINE x == t.extra
            l == Len(x)
            key == [k \in 1..l |-> x[k][1]]
<1>1. /\ t.id \in Seq(Nat) \cup {None} /\ t.title \in Seq(Nat) \cup {None}
      /\ t.description \in Seq(Nat) \cup {None} /\ t.provider \in Seq(Nat)
      /\ l \in Nat /\ DOMAIN x = 1..l
      /\ \A k \in 1..l : x[k][1] \in Seq(Nat) /\ x[k][2] \in Seq(Nat)
  BY TextsType
<1>2. (~\A text \in {t.id, t.title, t.description} : text # None => IsText(text)) => SchemaThrows(t)
  BY <1>1, Utf8Exact DEF SchemaThrows
<1>3. (\A text \in {t.id, t.title, t.description} : text # None => IsText(text)) =>
        (SchemaThrows(t) <=> ~(MembersWell(t) /\ BranchesWell(t)))
  BY SchemaThrowsIf
<1>4. is_valid_utf8(t.provider) <=> IsText(t.provider)
  BY <1>1, Utf8Exact
<1>5. \A k \in 1..l : /\ is_valid_utf8(x[k][1]) <=> IsText(x[k][1])
                      /\ is_valid_utf8(x[k][2]) <=> IsText(x[k][2])
  BY <1>1, Utf8Exact
<1>6. EnvelopeThrows(t) <=>
        \/ ~is_valid_utf8(t.provider)
        \/ \E k \in 1..l : ~is_valid_utf8(x[k][1]) \/ ~is_valid_utf8(x[k][2]) \/ KeyRefused(t, k)
  BY <1>1 DEF EnvelopeThrows
<1>7. \A k \in 1..l : KeyRefused(t, k) <=>
        x[k][1] \in TakenKeys \/ \E j \in 1..(k - 1) : x[j][1] = x[k][1]
  BY DEF KeyRefused, TakenKeys
<1>8. ExtrasWell(t) <=>
        /\ \A k \in 1..l : IsText(x[k][1]) /\ IsText(x[k][2])
        /\ \A k \in 1..l : x[k][1] \notin TakenKeys
        /\ \A j, k \in 1..l : x[j][1] = x[k][1] => j = k
  BY DEF ExtrasWell
<1>. HIDE DEF l, x
<1>9. (\A j, k \in 1..l : x[j][1] = x[k][1] => j = k) <=>
        ~\E k \in 1..l : \E j \in 1..(k - 1) : x[j][1] = x[k][1]
  <2>1. (\A j, k \in 1..l : key[j] = key[k] => j = k) <=>
          ~\E k \in 1..l : \E j \in 1..(k - 1) : key[j] = key[k]
    <3>. HIDE DEF key
    <3>. QED
      BY <1>1, EarlierOrLater
  <2>2. \A k \in 1..l : key[k] = x[k][1] /\ \A j \in 1..(k - 1) : j \in 1..l
    BY <1>1
  <2>. HIDE DEF key
  <2>3. \A k \in 1..l : \A j \in 1..(k - 1) : key[j] = x[j][1]
    BY <2>2
  <2>. QED
    BY <2>1, <2>2, <2>3
<1>10. EnvelopeThrows(t) <=> ~(IsText(t.provider) /\ ExtrasWell(t))
  BY <1>4, <1>5, <1>6, <1>7, <1>8, <1>9
<1>11. WellSaid(t) <=> HeadWell(t) /\ MembersWell(t) /\ BranchesWell(t) /\ ExtrasWell(t)
  BY WellMeans
<1>. QED
  BY <1>2, <1>3, <1>10, <1>11 DEF HeadWell

(* A declaration that is well said and forbids no key twice in a branch. *)
Fine(t) == WellSaid(t) /\ \A c \in Range(t.conditionals) : IsInjective(c.forbid)

LEMMA FineMeans ==
  ASSUME NEW t \in Texts, Fine(t)
  PROVE  /\ HeadWell(t) /\ MembersWell(t) /\ ExtrasWell(t)
         /\ \A k \in 1..Len(t.conditionals) : BranchFine(t.conditionals[k])
<1>. DEFINE z == t.conditionals
            y == t.members
<1>1. /\ HeadWell(t) /\ MembersWell(t) /\ BranchesWell(t) /\ ExtrasWell(t)
      /\ \A c \in Range(z) : IsInjective(c.forbid)
  BY WellMeans DEF Fine
<1>2. /\ DOMAIN z = 1..Len(z) /\ \A k \in 1..Len(z) : z[k] \in Whens
      /\ DOMAIN y = 1..Len(y)
  BY TextsType
<1>3. \A key \in KeysOf(t) : IsText(key)
  <2>1. KeysOf(t) = {m.key : m \in Range(y)}
    BY DEF KeysOf
  <2>2. \A k \in 1..Len(y) : \A text \in FieldTexts(y[k]) : IsText(text)
    BY <1>1 DEF MembersWell
  <2>. HIDE DEF y
  <2>3. Range(y) = {y[k] : k \in 1..Len(y)}
    BY <1>2 DEF Range
  <2>4. \A m : m.key \in FieldTexts(m)
    BY DEF FieldTexts
  <2>. QED
    BY <2>1, <2>2, <2>3, <2>4
<1>4. \A k \in 1..Len(z) : /\ IsText(z[k].equals) /\ BranchKeys(z[k]) \subseteq KeysOf(t)
                           /\ z[k].require # <<>> \/ z[k].forbid # <<>>
  BY <1>1 DEF BranchesWell
<1>. HIDE DEF z, y
<1>5. \A k \in 1..Len(z) : IsInjective(z[k].forbid)
  BY <1>1, <1>2 DEF Range
<1>6. \A k \in 1..Len(z) : BranchFine(z[k])
  BY <1>2, <1>3, <1>4, <1>5 DEF BranchFine
<1>. QED
  BY <1>1, <1>6 DEF z

(* The fields, by their keys. *)
LEMMA PropertiesPart ==
  ASSUME NEW D \in Seq(Nat), 7 <= Len(D), NEW t \in Texts, Fine(t)
  PROVE  PartAs(D, 5, properties_text(t),
                IF t.members = <<>> THEN <<>> ELSE <<<<Words["properties"], JObject(Properties(t))>>>>,
                {"properties"})
<1>. DEFINE y == t.members
            l == Len(y)
            es == [k \in DOMAIN y |-> <<y[k].key, field_text(y[k])>>]
            vals == Properties(t)
            key == [k \in 1..l |-> y[k].key]
            x == [k \in 1..l |-> field_text(y[k])]
            v == [k \in 1..l |-> FieldSaid(y[k])]
            one == <<KeyValue("properties", write_object(es))>>
            saidOne == <<<<Words["properties"], JObject(vals)>>>>
            none == <<>>
<1>1. /\ l \in Nat /\ DOMAIN y = 1..l /\ (\A k \in 1..l : y[k] \in Fields) /\ (y # <<>> => l >= 1)
  BY TextsType
<1>2. /\ \A k \in 1..l : \A text \in FieldTexts(y[k]) : IsText(text)
      /\ \A j, k \in 1..l : y[j].key = y[k].key => j = k
  BY FineMeans DEF MembersWell
<1>3. /\ "properties" \in WordNames /\ 2 \in Nat /\ 5 \in Nat /\ 2 <= Len(D) /\ 2 + 1 = 3 /\ 3 <= 5
  BY DEF WordNames
<1>4. /\ DOMAIN es = 1..l /\ es = [k \in 1..l |-> es[k]]
      /\ \A k \in 1..l : es[k] = <<y[k].key, field_text(y[k])>>
  BY <1>1
<1>5. /\ DOMAIN vals = 1..l /\ vals = [k \in 1..l |-> vals[k]]
      /\ \A k \in 1..l : vals[k] = <<y[k].key, FieldSaid(y[k])>>
  BY <1>1 DEF Properties
<1>6. properties_text(t) = IF y = none THEN none ELSE one
  BY DEF properties_text
<1>. HIDE DEF y, l, es, vals
<1>7. \A k \in 1..l : key[k] = y[k].key /\ x[k] = field_text(y[k]) /\ v[k] = FieldSaid(y[k])
  OBVIOUS
<1>. HIDE DEF key, x, v
<1>8. \A k \in 1..l : es[k] = <<key[k], x[k]>> /\ vals[k] = <<key[k], v[k]>>
  BY <1>4, <1>5, <1>7
<1>9. ASSUME NEW k \in 1..l PROVE key[k] \in Seq(Nat) /\ IsText(key[k]) /\ ValueAs(D, 2, x[k], v[k])
  <2>1. y[k] \in Fields /\ \A text \in FieldTexts(y[k]) : IsText(text)
    BY <1>1, <1>2
  <2>2. ValueAs(D, 2, field_text(y[k]), FieldSaid(y[k]))
    BY <2>1, FieldValue
  <2>3. y[k].key \in Seq(Nat) /\ IsText(y[k].key)
    BY <2>1 DEF Fields, FieldTexts
  <2>. QED
    BY <1>7, <2>2, <2>3
<1>10. \A j, k \in 1..l : key[j] = key[k] => j = k
  BY <1>2, <1>7
<1>11. EntriesAs(D, 2, es, vals) /\ Len(es) = l /\ KeysDiffer(vals)
  <2>1. \A k \in 1..l : key[k] \in Seq(Nat) /\ IsText(key[k]) /\ ValueAs(D, 2, x[k], v[k])
    BY <1>9
  <2>2. OwnAs(D, 2, l, es, vals, key, x, v)
    BY <1>4, <1>5, <1>8, <1>10, <2>1 DEF OwnAs
  <2>3. EntriesAs(D, 2, es, vals) /\ Len(es) = l /\ Keyed(vals, KeySet(key, l))
    BY <1>1, <1>3, <2>2, OwnEntries
  <2>. QED
    BY <2>3 DEF Keyed
<1>12. ASSUME y # none PROVE PartAs(D, 5, one, saidOne, {"properties"})
  <2>1. Len(es) >= 1
    BY <1>1, <1>11, <1>12
  <2>2. ValueAs(D, 2 + 1, write_object(es), JObject(vals))
    BY <1>3, <1>11, <2>1, ObjectValue
  <2>3. ValueAs(D, 3, write_object(es), JObject(vals))
    BY <1>3, <2>2
  <2>4. ValueAs(D, 5, write_object(es), JObject(vals))
    BY <1>3, <2>3, DeeperValue
  <2>. QED
    BY <1>3, <2>4, OnePart
<1>13. PartAs(D, 5, none, none, {"properties"})
  BY <1>3, NoPart
<1>14. PartAs(D, 5, IF y = none THEN none ELSE one, IF y = none THEN none ELSE saidOne, {"properties"})
  <2>. HIDE DEF one, saidOne, none
  <2>. QED
    BY <1>12, <1>13
<1>. QED
  BY <1>6, <1>14 DEF y, vals

(* The conditionals, in order. *)
LEMMA AllOfPart ==
  ASSUME NEW D \in Seq(Nat), 7 <= Len(D), NEW t \in Texts, Fine(t)
  PROVE  PartAs(D, 5, allOf_text(t),
                IF t.conditionals = <<>> THEN <<>>
                ELSE <<<<Words["allOf"], JArray([k \in DOMAIN t.conditionals |->
                                                   BranchSaid(t.conditionals[k])])>>>>,
                {"allOf"})
<1>. DEFINE z == t.conditionals
            l == Len(z)
            parts == [k \in DOMAIN z |-> branch_text(z[k])]
            vals == [k \in DOMAIN z |-> BranchSaid(z[k])]
            x == <<91>> \o Commas(parts) \o <<93>>
            one == <<KeyValue("allOf", x)>>
            saidOne == <<<<Words["allOf"], JArray(vals)>>>>
            none == <<>>
<1>1. l \in Nat /\ DOMAIN z = 1..l
  BY TextsType
<1>2. \A k \in 1..l : BranchFine(z[k])
  BY FineMeans
<1>3. "allOf" \in WordNames /\ 4 \in Nat /\ 5 \in Nat /\ 4 <= Len(D) /\ 4 + 1 = 5
  BY DEF WordNames
<1>4. /\ DOMAIN parts = 1..l /\ parts = [k \in 1..l |-> parts[k]]
      /\ \A k \in 1..l : parts[k] = branch_text(z[k])
  BY <1>1
<1>5. /\ DOMAIN vals = 1..l /\ vals = [k \in 1..l |-> vals[k]]
      /\ \A k \in 1..l : vals[k] = BranchSaid(z[k])
  BY <1>1
<1>6. allOf_text(t) = IF z = none THEN none ELSE one
  BY DEF allOf_text, write_array
<1>. HIDE DEF z, l, parts, vals
<1>7. Listed(parts) /\ Len(parts) = l /\ Listed(vals) /\ Len(vals) = l
  BY <1>1, <1>4, <1>5, FunctionListed
<1>8. ASSUME NEW k \in 1..l PROVE ValueAs(D, 4, parts[k], vals[k]) /\ parts[k][1] \in {34, 123}
  <2>1. ValueAs(D, 4, branch_text(z[k]), BranchSaid(z[k])) /\ branch_text(z[k])[1] = 123
    BY <1>2, BranchValue
  <2>. QED
    BY <1>4, <1>5, <2>1
<1>9. ValueAs(D, 4 + 1, <<91>> \o Commas(parts) \o <<93>>, JArray(vals))
  <2>1. \A k \in 1..Len(parts) : ValueAs(D, 4, parts[k], vals[k]) /\ parts[k][1] \in {34, 123}
    BY <1>7, <1>8
  <2>2. Len(parts) = Len(vals)
    BY <1>7
  <2>. QED
    BY ONLY <1>3, <1>7, <2>1, <2>2, D \in Seq(Nat), ArrayValue
<1>10. PartAs(D, 5, one, saidOne, {"allOf"})
  <2>1. ValueAs(D, 5, x, JArray(vals))
    BY <1>3, <1>9
  <2>. HIDE DEF x
  <2>. QED
    BY <1>3, <2>1, OnePart
<1>11. PartAs(D, 5, none, none, {"allOf"})
  BY <1>3, NoPart
<1>12. PartAs(D, 5, IF z = none THEN none ELSE one, IF z = none THEN none ELSE saidOne, {"allOf"})
  <2>. HIDE DEF one, saidOne, none
  <2>. QED
    BY <1>10, <1>11
<1>. QED
  BY <1>6, <1>12 DEF z, vals

(* emit_schema writes an object that says what was declared. *)
LEMMA SchemaValue ==
  ASSUME NEW D \in Seq(Nat), 7 <= Len(D), NEW t \in Texts, Fine(t)
  PROVE  ValueAs(D, 6, emit_schema(t), SchemaSaid(t))
<1>. DEFINE e1 == <<KeyValue("dialect", escape_json(Words["draft"]))>>
            e2 == OptionalText("id", t.id)
            e3 == <<KeyValue("type", escape_json(Words["object"]))>>
            e4 == NonEmptyText("title", t.title)
            e5 == NonEmptyText("description", t.description)
            e6 == properties_text(t)
            e7 == allOf_text(t)
            v1 == <<<<Words["dialect"], JText(Words["draft"])>>>>
            v2 == SaysIfGiven("id", t.id)
            v3 == <<<<Words["type"], JText(Words["object"])>>>>
            v4 == SaysIfAny("title", t.title)
            v5 == SaysIfAny("description", t.description)
            v6 == IF t.members = <<>> THEN <<>> ELSE <<<<Words["properties"], JObject(Properties(t))>>>>
            v7 == IF t.conditionals = <<>> THEN <<>>
                  ELSE <<<<Words["allOf"], JArray([k \in DOMAIN t.conditionals |->
                                                     BranchSaid(t.conditionals[k])])>>>>
<1>1. /\ {"dialect", "draft", "id", "type", "object", "title", "description"} \subseteq WordNames
      /\ 5 \in Nat /\ 5 <= Len(D)
  BY DEF WordNames
<1>2. /\ t.id \in Seq(Nat) \cup {None} /\ t.title \in Seq(Nat) \cup {None}
      /\ t.description \in Seq(Nat) \cup {None}
      /\ (t.id # None => IsText(t.id)) /\ (t.title # None => IsText(t.title))
      /\ (t.description # None => IsText(t.description))
  BY TextsType, FineMeans DEF HeadWell
<1>3. \A w \in {"draft", "object"} : ValueAs(D, 5, escape_json(Words[w]), JText(Words[w]))
  BY <1>1, WordsApart, EscapedValue
<1>4. /\ PartAs(D, 5, e1, v1, {"dialect"}) /\ Len(e1) = 1
      /\ PartAs(D, 5, e3, v3, {"type"})
  BY <1>1, <1>3, OnePart
<1>5. PartAs(D, 5, e2, v2, {"id"})
  BY <1>1, <1>2, TextPart
<1>6. PartAs(D, 5, e4, v4, {"title"})
  BY <1>1, <1>2, TextPart
<1>7. PartAs(D, 5, e5, v5, {"description"})
  BY <1>1, <1>2, TextPart
<1>8. PartAs(D, 5, e6, v6, {"properties"}) /\ PartAs(D, 5, e7, v7, {"allOf"})
  BY PropertiesPart, AllOfPart
<1>. DEFINE x2 == e1 \o e2
            x3 == x2 \o e3
            x4 == x3 \o e4
            x5 == x4 \o e5
            x6 == x5 \o e6
            x7 == x6 \o e7
            y2 == v1 \o v2
            y3 == y2 \o v3
            y4 == y3 \o v4
            y5 == y4 \o v5
            y6 == y5 \o v6
            y7 == y6 \o v7
<1>9. emit_schema(t) = write_object(x7) /\ SchemaSaid(t) = JObject(y7)
  BY DEF emit_schema, SchemaSaid, Says
<1>. HIDE DEF e1, e2, e3, e4, e5, e6, e7, v1, v2, v3, v4, v5, v6, v7
<1>. DEFINE W1 == {"dialect"}
            W2 == W1 \cup {"id"}
            W3 == W2 \cup {"type"}
            W4 == W3 \cup {"title"}
            W5 == W4 \cup {"description"}
            W6 == W5 \cup {"properties"}
            W7 == W6 \cup {"allOf"}
<1>10. /\ "id" \notin W1 /\ "type" \notin W2 /\ "title" \notin W3 /\ "description" \notin W4
       /\ "properties" \notin W5 /\ "allOf" \notin W6
  OBVIOUS
<1>11. PartAs(D, 5, e1, v1, W1) /\ Len(e1) >= 1
  BY <1>4
<1>. HIDE DEF W1
<1>12. PartAs(D, 5, x2, y2, W2) /\ Len(x2) >= 1
  BY <1>5, <1>10, <1>11, NextPart
<1>. HIDE DEF W2, x2, y2
<1>13. PartAs(D, 5, x3, y3, W3) /\ Len(x3) >= 1
  BY <1>4, <1>10, <1>12, NextPart
<1>. HIDE DEF W3, x3, y3
<1>14. PartAs(D, 5, x4, y4, W4) /\ Len(x4) >= 1
  BY <1>6, <1>10, <1>13, NextPart
<1>. HIDE DEF W4, x4, y4
<1>15. PartAs(D, 5, x5, y5, W5) /\ Len(x5) >= 1
  BY <1>7, <1>10, <1>14, NextPart
<1>. HIDE DEF W5, x5, y5
<1>16. PartAs(D, 5, x6, y6, W6) /\ Len(x6) >= 1
  BY <1>8, <1>10, <1>15, NextPart
<1>. HIDE DEF W6, x6, y6
<1>17. PartAs(D, 5, x7, y7, W7) /\ Len(x7) >= 1
  BY <1>8, <1>10, <1>16, NextPart
<1>. HIDE DEF W7, x7, y7
<1>18. ValueAs(D, 5 + 1, write_object(x7), JObject(y7))
  BY <1>1, <1>17, PartsValue
<1>19. 5 + 1 = 6
  OBVIOUS
<1>. QED
  BY <1>9, <1>18, <1>19

(* The extra entries. *)
LEMMA ExtraEntries ==
  ASSUME NEW D \in Seq(Nat), NEW n \in Nat, NEW t \in Texts, Fine(t), NEW vals,
         vals = [k \in DOMAIN t.extra |-> <<t.extra[k][1], JText(t.extra[k][2])>>]
  PROVE  /\ EntriesAs(D, n, [k \in DOMAIN t.extra |-> <<t.extra[k][1], escape_json(t.extra[k][2])>>], vals)
         /\ Keyed(vals, {t.extra[k][1] : k \in 1..Len(t.extra)})
         /\ {t.extra[k][1] : k \in 1..Len(t.extra)} \cap TakenKeys = {}
<1>. DEFINE y == t.extra
            l == Len(y)
            es == [k \in DOMAIN y |-> <<y[k][1], escape_json(y[k][2])>>]
            key == [k \in 1..l |-> y[k][1]]
            x == [k \in 1..l |-> escape_json(y[k][2])]
            v == [k \in 1..l |-> JText(y[k][2])]
<1>1. /\ l \in Nat /\ DOMAIN y = 1..l
      /\ \A k \in 1..l : y[k][1] \in Seq(Nat) /\ y[k][2] \in Seq(Nat)
  BY TextsType
<1>2. /\ \A k \in 1..l : IsText(y[k][1]) /\ IsText(y[k][2])
      /\ \A k \in 1..l : y[k][1] \notin TakenKeys
      /\ \A j, k \in 1..l : y[j][1] = y[k][1] => j = k
  BY FineMeans DEF ExtrasWell
<1>3. /\ DOMAIN es = 1..l /\ es = [k \in 1..l |-> es[k]]
      /\ \A k \in 1..l : es[k] = <<y[k][1], escape_json(y[k][2])>>
  BY <1>1
<1>4. vals = [k \in DOMAIN y |-> <<y[k][1], JText(y[k][2])>>]
  OBVIOUS
<1>5. /\ DOMAIN vals = 1..l /\ vals = [k \in 1..l |-> vals[k]]
      /\ \A k \in 1..l : vals[k] = <<y[k][1], JText(y[k][2])>>
  <2>. HIDE DEF y, l
  <2>. QED
    BY <1>1, <1>4
<1>. HIDE DEF y, l, es
<1>6. \A k \in 1..l : key[k] = y[k][1] /\ x[k] = escape_json(y[k][2]) /\ v[k] = JText(y[k][2])
  OBVIOUS
<1>. HIDE DEF key, x, v
<1>7. \A k \in 1..l : es[k] = <<key[k], x[k]>> /\ vals[k] = <<key[k], v[k]>>
  BY <1>3, <1>5, <1>6
<1>8. ASSUME NEW k \in 1..l PROVE key[k] \in Seq(Nat) /\ IsText(key[k]) /\ ValueAs(D, n, x[k], v[k])
  <2>. DEFINE text == y[k][2]
  <2>1. text \in Seq(Nat) /\ IsText(text) /\ y[k][1] \in Seq(Nat) /\ IsText(y[k][1])
    BY <1>1, <1>2
  <2>2. x[k] = escape_json(text) /\ v[k] = JText(text) /\ key[k] = y[k][1]
    BY <1>6
  <2>. HIDE DEF text
  <2>3. ValueAs(D, n, escape_json(text), JText(text))
    BY <2>1, EscapedValue
  <2>. QED
    BY <2>1, <2>2, <2>3
<1>9. \A j, k \in 1..l : key[j] = key[k] => j = k
  BY <1>2, <1>6
<1>10. EntriesAs(D, n, es, vals) /\ Keyed(vals, KeySet(key, l))
  <2>1. \A k \in 1..l : key[k] \in Seq(Nat) /\ IsText(key[k]) /\ ValueAs(D, n, x[k], v[k])
    BY <1>8
  <2>2. OwnAs(D, n, l, es, vals, key, x, v)
    BY <1>3, <1>5, <1>7, <1>9, <2>1 DEF OwnAs
  <2>. QED
    BY <1>1, <2>2, OwnEntries
<1>11. KeySet(key, l) = {y[k][1] : k \in 1..l}
  BY <1>6 DEF KeySet
<1>12. {y[k][1] : k \in 1..l} \cap TakenKeys = {}
  BY <1>2
<1>13. Keyed(vals, {y[k][1] : k \in 1..l})
  BY <1>10, <1>11
<1>. QED
  BY <1>10, <1>12, <1>13 DEF es, y, l

(* The envelope in any document; and by itself. *)
LEMMA EnvelopeValue ==
  ASSUME NEW D \in Seq(Nat), 7 <= Len(D), NEW t \in Texts, Fine(t)
  PROVE  /\ ValueAs(D, 7, config_schema_envelope(t), EnvelopeSaid(t))
         /\ Len(config_schema_envelope(t)) >= 7
<1>. DEFINE version == Words["config_schema_version"]
            provider == Words["provider"]
            schema == Words["schema"]
            number == Words["1"]
            K == {t.extra[k][1] : k \in 1..Len(t.extra)}
            e1 == <<KeyValue("config_schema_version", number)>>
            e2 == NonEmptyText("provider", t.provider)
            e3 == [k \in DOMAIN t.extra |-> <<t.extra[k][1], escape_json(t.extra[k][2])>>]
            e4 == <<KeyValue("schema", emit_schema(t))>>
            v1 == <<<<version, JNumber(number[1])>>>>
            v2 == SaysIfAny("provider", t.provider)
            v3 == [k \in DOMAIN t.extra |-> <<t.extra[k][1], JText(t.extra[k][2])>>]
            v4 == <<<<schema, SchemaSaid(t)>>>>
<1>1. {"config_schema_version", "provider", "schema", "1"} \subseteq WordNames /\ 6 \in Nat /\ 6 <= Len(D)
  BY DEF WordNames
<1>2. t.provider \in Seq(Nat) /\ IsText(t.provider)
  BY TextsType, FineMeans DEF HeadWell
<1>3. EntriesAs(D, 6, e1, v1)
  <2>1. number = <<number[1]>> /\ number[1] \in Nat /\ number[1] > 255
    BY <1>1, WordsApart
  <2>2. ValueAs(D, 6, number, JNumber(number[1]))
    BY <1>1, <2>1, NumberValue
  <2>. QED
    BY <1>1, <2>2, WordEntry
<1>4. EntriesAs(D, 6, e2, v2) /\ Keyed(v2, {provider})
  <2>1. PartAs(D, 6, e2, v2, {"provider"})
    BY <1>1, <1>2, TextPart
  <2>2. Fixed({"provider"}) = {provider}
    BY DEF Fixed
  <2>. QED
    BY <2>1, <2>2 DEF PartAs
<1>5. EntriesAs(D, 6, e3, v3) /\ Keyed(v3, K) /\ K \cap TakenKeys = {}
  BY <1>1, ExtraEntries
<1>6. EntriesAs(D, 6, e4, v4)
  <2>1. ValueAs(D, 6, emit_schema(t), SchemaSaid(t))
    BY SchemaValue
  <2>. QED
    BY <1>1, <2>1, WordEntry
<1>7. Keyed(v1, {version}) /\ Keyed(v4, {schema})
  BY KeyedOne
<1>8. version # provider /\ version # schema /\ provider # schema
  BY <1>1, WordsApart
<1>9. version \notin K /\ provider \notin K /\ schema \notin K
  BY <1>5 DEF TakenKeys
<1>10. /\ config_schema_envelope(t) = write_object(e1 \o e2 \o e3 \o e4)
       /\ EnvelopeSaid(t) = JObject(v1 \o v2 \o v3 \o v4)
  BY DEF config_schema_envelope, EnvelopeSaid
<1>11. Len(e1) = 1 /\ Len(e4) = 1 /\ e1[1] = <<version, number>>
  BY DEF KeyValue
<1>12. Len(EntryText(e1[1])) >= 4
  <2>. DEFINE x == escape_json(version)
              colon == <<58>>
  <2>1. version \in Seq(Nat) /\ IsText(version) /\ number \in Seq(Nat) /\ Len(number) = 1
    BY <1>1, WordsApart
  <2>2. StringAs(D, x, version)
    BY <2>1, EscapeReadsBack
  <2>3. x \in Seq(Nat) /\ Len(x) >= 2 /\ colon \in Seq(Nat) /\ Len(colon) = 1
    BY <2>2 DEF StringAs
  <2>4. EntryText(e1[1]) = (x \o colon) \o number
    <3>1. e1[1][1] = version /\ e1[1][2] = number
      BY <1>11
    <3>. QED
      BY <3>1 DEF EntryText
  <2>. HIDE DEF x, colon, number, version
  <2>5. x \o colon \in Seq(Nat) /\ Len(x \o colon) = Len(x) + Len(colon) /\ Len(x) \in Nat
    BY ONLY <2>3, ConcatNat
  <2>6. Len((x \o colon) \o number) = Len(x \o colon) + Len(number)
    BY ONLY <2>1, <2>5, ConcatNat
  <2>. QED
    BY <2>1, <2>3, <2>4, <2>5, <2>6
<1>. HIDE DEF version, provider, schema, number, K, e1, e2, e3, e4, v1, v2, v3, v4
<1>. DEFINE e == e1 \o e2 \o e3 \o e4
            v == v1 \o v2 \o v3 \o v4
            x2 == v1 \o v2
            x3 == x2 \o v3
            K2 == {version, provider}
            K3 == K2 \cup K
            K4 == K3 \cup {schema}
<1>13. EntriesAs(D, 6, e, v)
  <2>1. EntriesAs(D, 6, e1 \o e2, v1 \o v2)
    BY <1>3, <1>4, MoreEntries
  <2>2. EntriesAs(D, 6, e1 \o e2 \o e3, v1 \o v2 \o v3)
    BY <1>5, <2>1, MoreEntries
  <2>. QED
    BY <1>6, <2>2, MoreEntries
<1>14. Keyed(x2, K2)
  <2>1. provider \notin {version} /\ K2 = {version} \cup {provider}
    BY <1>8
  <2>2. Keyed(v1, {version}) /\ Keyed(v2, {provider})
    BY <1>4, <1>7
  <2>. HIDE DEF K2
  <2>3. Keyed(v1 \o v2, K2)
    BY ONLY <2>1, <2>2, KeyedTwo
  <2>. QED
    BY <2>3
<1>15. Keyed(x3, K3)
  <2>1. K2 \cap K = {}
    BY <1>9
  <2>. HIDE DEF K2, x2
  <2>2. Keyed(x2, K2) /\ Keyed(v3, K)
    BY <1>5, <1>14
  <2>3. Keyed(x2 \o v3, K2 \cup K)
    BY ONLY <2>1, <2>2, KeyedConcat, ZenonT(60)
  <2>. QED
    BY <2>3
<1>16. Keyed(v, K4)
  <2>1. schema \notin K3
    BY <1>8, <1>9
  <2>. HIDE DEF K3, x3
  <2>2. Keyed(x3, K3) /\ Keyed(v4, {schema}) /\ K4 = K3 \cup {schema}
    BY <1>7, <1>15
  <2>. HIDE DEF K4
  <2>3. Keyed(x3 \o v4, K4)
    BY ONLY <2>1, <2>2, KeyedTwo
  <2>. QED
    BY <2>3 DEF x3
<1>17. Len(e) >= 2 /\ e[1] = e1[1]
  <2>1. Listed(e1) /\ Listed(e2) /\ Listed(e3) /\ Listed(e4)
    BY <1>3, <1>4, <1>5, <1>6 DEF EntriesAs
  <2>2. \A x, y : Listed(x) /\ Listed(y) /\ Len(x) >= 1 =>
          /\ Listed(x \o y) /\ Len(x \o y) >= 1 /\ (x \o y)[1] = x[1]
          /\ Len(y) = 1 => Len(x \o y) >= 2
    <3>. SUFFICES ASSUME NEW x, NEW y, Listed(x), Listed(y), Len(x) >= 1
                  PROVE  /\ Listed(x \o y) /\ Len(x \o y) >= 1 /\ (x \o y)[1] = x[1]
                         /\ Len(y) = 1 => Len(x \o y) >= 2
      OBVIOUS
    <3>1. /\ Listed(x \o y) /\ Len(x) \in Nat /\ Len(y) \in Nat /\ Len(x \o y) = Len(x) + Len(y)
          /\ \A k \in 1..(Len(x) + Len(y)) : (x \o y)[k] = IF k <= Len(x) THEN x[k] ELSE y[k - Len(x)]
      BY ListedConcat
    <3>2. 1 \in 1..(Len(x) + Len(y)) /\ 1 <= Len(x)
      BY <3>1
    <3>3. (x \o y)[1] = x[1]
      BY <3>1, <3>2
    <3>4. Len(x \o y) >= 1 /\ (Len(y) = 1 => Len(x \o y) >= 2)
      BY ONLY <3>1, <3>2
    <3>. QED
      BY <3>1, <3>3, <3>4
  <2>3. Len(e1) >= 1
    BY <1>11
  <2>. DEFINE p == e1 \o e2
              q == p \o e3
  <2>4. Listed(p) /\ Len(p) >= 1 /\ p[1] = e1[1]
    BY <2>1, <2>2, <2>3
  <2>. HIDE DEF p
  <2>5. Listed(q) /\ Len(q) >= 1 /\ q[1] = p[1]
    BY <2>1, <2>2, <2>4
  <2>. HIDE DEF q
  <2>6. Len(q \o e4) >= 2 /\ (q \o e4)[1] = q[1]
    BY <1>11, <2>1, <2>2, <2>5
  <2>. QED
    BY <2>4, <2>5, <2>6 DEF p, q
<1>. HIDE DEF e, v
<1>18. Len(e) \in Nat /\ Len(e) >= 1 /\ Len(e) # 1
  <2>1. Listed(e)
    BY <1>13 DEF EntriesAs
  <2>2. Len(e) \in Nat
    BY <2>1, ListedLength
  <2>3. \A n \in Nat : n >= 2 => n >= 1 /\ n # 1
    OBVIOUS
  <2>. QED
    BY <1>17, <2>2, <2>3
<1>19. ValueAs(D, 7, write_object(e), JObject(v)) /\ Len(write_object(e)) >= 7
  <2>1. KeysDiffer(v) /\ 6 + 1 = 7
    BY <1>16 DEF Keyed
  <2>2. /\ ValueAs(D, 6 + 1, write_object(e), JObject(v))
        /\ Len(write_object(e)) >= Len(EntryText(e[1])) + 3
    BY <1>1, <1>13, <1>18, <2>1, ObjectValue
  <2>3. EntryText(e[1]) \in Seq(Nat)
    <3>1. 1 \in 1..Len(e)
      BY <1>18
    <3>2. EntryAs(D, 6, EntryText(e[1]), v[1])
      BY <1>13, <3>1 DEF EntriesAs
    <3>. QED
      BY <3>2 DEF EntryAs
  <2>4. Len(EntryText(e[1])) \in Nat /\ Len(EntryText(e[1])) >= 4
    BY <1>12, <1>17, <2>3, LenProperties
  <2>5. write_object(e) \in Seq(Nat)
    BY <2>2 DEF ValueAs
  <2>6. Len(write_object(e)) \in Nat
    BY <2>5, LenProperties
  <2>7. Len(write_object(e)) >= 7
    BY <2>2, <2>4, <2>6
  <2>. QED
    BY <2>1, <2>2, <2>7
<1>20. config_schema_envelope(t) = write_object(e) /\ EnvelopeSaid(t) = JObject(v)
  BY <1>10 DEF e, v
<1>. QED
  BY <1>19, <1>20

(* As a document of its own, the envelope is read as what was given. *)
LEMMA EnvelopeReadsBack ==
  ASSUME NEW t \in Texts, Fine(t)
  PROVE  /\ IsDocument(config_schema_envelope(t))
         /\ Document(config_schema_envelope(t)) = EnvelopeSaid(t)
<1>. DEFINE D == config_schema_envelope(t)
            v == EnvelopeSaid(t)
            some == <<0, 0, 0, 0, 0, 0, 0>>
<1>1. some \in Seq(Nat) /\ 7 <= Len(some)
  OBVIOUS
<1>. HIDE DEF some
<1>2. ValueAs(some, 7, config_schema_envelope(t), EnvelopeSaid(t)) /\ Len(D) >= 7
  BY <1>1, EnvelopeValue
<1>3. D \in Seq(Nat)
  BY <1>2 DEF ValueAs
<1>4. Len(D) \in Nat /\ 7 <= Len(D)
  <2>1. Len(D) \in Nat
    BY <1>3, LenProperties
  <2>. HIDE DEF D
  <2>. QED
    BY <1>2, <2>1
<1>5. ValueAs(D, 7, config_schema_envelope(t), EnvelopeSaid(t))
  BY <1>3, <1>4, EnvelopeValue
<1>6. ValueAs(D, 7, D, v)
  BY <1>5
<1>. HIDE DEF D, v
<1>7. IsDocument(D) /\ Document(D) = v
  BY <1>3, <1>4, <1>6, DocumentIs
<1>. QED
  BY <1>7 DEF D, v

-----------------------------------------------------------------------------
(* The host check and its envelope *)

(* A pair is two elements. *)
LEMMA PairIs ==
  ASSUME NEW a, NEW b
  PROVE  <<a, b>> = <<a>> \o <<b>>
<1>. DEFINE S == {a, b}
            x == <<a>>
            y == <<b>>
            z == <<a, b>>
<1>1. /\ x \in Seq(S) /\ y \in Seq(S) /\ z \in Seq(S)
      /\ Len(x) = 1 /\ Len(y) = 1 /\ Len(z) = 2 /\ x[1] = a /\ y[1] = b /\ z[1] = a /\ z[2] = b
  OBVIOUS
<1>. HIDE DEF x, y, z, S
<1>2. /\ x \o y \in Seq(S) /\ Len(x \o y) = Len(x) + Len(y)
      /\ \A k \in 1..(Len(x) + Len(y)) : (x \o y)[k] = IF k <= Len(x) THEN x[k] ELSE y[k - Len(x)]
  BY <1>1, ConcatProperties
<1>3. 1 \in 1..2 /\ 2 \in 1..2 /\ 1 + 1 = 2 /\ 1 <= 1 /\ ~(2 <= 1) /\ 2 - 1 = 1 /\ \A k \in 1..2 : k = 1 \/ k = 2
  OBVIOUS
<1>4. Len(x \o y) = 2 /\ (x \o y)[1] = a /\ (x \o y)[2] = b
  BY <1>1, <1>2, <1>3
<1>5. \A k \in 1..Len(z) : z[k] = (x \o y)[k]
  BY <1>1, <1>3, <1>4
<1>6. z = x \o y
  BY <1>1, <1>2, <1>4, <1>5, SeqEqual
<1>. QED
  BY <1>6 DEF x, y, z

(* The members that the host check writes by hand. *)
LEMMA MemberRead ==
  ASSUME NEW D \in Seq(Nat), NEW n \in Nat, NEW w \in WordNames, NEW text \in Seq(Nat)
  PROVE  MembersAs(D, n, Member(w, text), <<Tells(w, text)>>)
<1>1. Words[w] \in Seq(Nat) /\ IsText(Words[w])
  BY WordsApart
<1>2. StringAs(D, escape_json(Words[w]), Words[w])
  BY <1>1, EscapeReadsBack
<1>3. StringAs(D, json_string(text), Repaired(text))
  BY HostStringReadsBack
<1>4. ValueAs(D, n, json_string(text), JText(Repaired(text)))
  BY <1>3, LiteralValue
<1>5. EntryAs(D, n, escape_json(Words[w]) \o <<58>> \o json_string(text), <<Words[w], JText(Repaired(text))>>)
  BY <1>2, <1>4, EntryValue
<1>6. EntryAs(D, n, Member(w, text), Tells(w, text))
  BY <1>5 DEF Member, Tells
<1>. QED
  BY <1>6, OneMember

(* A member that is left out when it is empty. *)
LEMMA MemberIfAny ==
  ASSUME NEW D \in Seq(Nat), NEW n, NEW x, NEW v, MembersAs(D, n, x, v),
         NEW w \in WordNames, NEW text \in Seq(Nat)
  PROVE  MembersAs(D, n, x \o OptionalMember(w, text), v \o TellsIfAny(w, text))
<1>1. n \in Nat /\ x \in Seq(Nat) /\ Listed(v) /\ Listed(x)
  BY DEF MembersAs, Listed
<1>2. CASE text = <<>>
  <2>1. OptionalMember(w, text) = <<>> /\ TellsIfAny(w, text) = <<>>
    BY <1>2 DEF OptionalMember, TellsIfAny
  <2>2. x \o <<>> = x /\ v \o <<>> = v
    BY <1>1, NoneConcat
  <2>. QED
    BY <2>1, <2>2
<1>3. CASE text # <<>>
  <2>1. MembersAs(D, n, Member(w, text), <<Tells(w, text)>>)
    BY <1>1, MemberRead
  <2>2. MembersAs(D, n, x \o (<<44>> \o Member(w, text)), v \o <<Tells(w, text)>>)
    BY <2>1, MoreMembers
  <2>3. OptionalMember(w, text) = <<44>> \o Member(w, text) /\ TellsIfAny(w, text) = <<Tells(w, text)>>
    BY <1>3 DEF OptionalMember, TellsIfAny
  <2>. QED
    BY <2>2, <2>3
<1>. QED
  BY <1>2, <1>3

(* Its key. *)
LEMMA ToldIfAny ==
  ASSUME NEW w \in WordNames, NEW text
  PROVE  Keyed(TellsIfAny(w, text), {Words[w]}) /\ Keyed(<<Tells(w, text)>>, {Words[w]})
<1>1. Keyed(<<>>, {Words[w]}) /\ Keyed(<<Tells(w, text)>>, {Words[w]})
  BY KeyedNone, KeyedOne DEF Tells
<1>. QED
  BY <1>1 DEF TellsIfAny

(* Members are bytes. *)
LEMMA OptionalType ==
  ASSUME NEW w \in WordNames, NEW text \in Seq(Nat)
  PROVE  Member(w, text) \in Seq(Nat) /\ OptionalMember(w, text) \in Seq(Nat)
<1>. DEFINE some == <<0>>
            comma == <<44>>
<1>1. some \in Seq(Nat) /\ 0 \in Nat /\ comma \in Seq(Nat) /\ <<>> \in Seq(Nat)
  OBVIOUS
<1>. HIDE DEF some, comma
<1>2. Member(w, text) \in Seq(Nat)
  BY <1>1, MemberRead DEF MembersAs
<1>3. comma \o Member(w, text) \in Seq(Nat)
  BY ONLY <1>1, <1>2, ConcatNat
<1>. QED
  BY <1>1, <1>2, <1>3 DEF OptionalMember, comma

(* A requirement. *)
Requirements == [id : Seq(Nat), status : {"met", "unmet", "unknown"}, detail : Seq(Nat), remedy : Seq(Nat)]
(* The object that envelope() writes for a requirement. *)
RequirementText(r) ==
  <<123>> \o Member("id", r.id) \o <<44>> \o Member("status", Words[r.status])
    \o OptionalMember("detail", r.detail) \o OptionalMember("remedy", r.remedy) \o <<125>>

(* It is read as the requirement, its strings repaired. *)
LEMMA RequirementRead ==
  ASSUME NEW D \in Seq(Nat), NEW r \in Requirements
  PROVE  /\ ValueAs(D, 1, RequirementText(r), Told(r))
         /\ RequirementText(r)[1] = 123
<1>. DEFINE open == <<123>>
            comma == <<44>>
            close == <<125>>
            i == Member("id", r.id)
            s == Member("status", Words[r.status])
            d == OptionalMember("detail", r.detail)
            m == OptionalMember("remedy", r.remedy)
            ti == <<Tells("id", r.id)>>
            ts == <<Tells("status", Words[r.status])>>
            td == TellsIfAny("detail", r.detail)
            tm == TellsIfAny("remedy", r.remedy)
            x == ((i \o (comma \o s)) \o d) \o m
            v == ((ti \o ts) \o td) \o tm
<1>1. /\ r.id \in Seq(Nat) /\ r.detail \in Seq(Nat) /\ r.remedy \in Seq(Nat)
      /\ r.status \in {"met", "unmet", "unknown"}
  BY DEF Requirements
<1>2. /\ {"id", "status", "detail", "remedy", "met", "unmet", "unknown"} \subseteq WordNames
      /\ r.status \in WordNames /\ 0 \in Nat
  BY <1>1 DEF WordNames
<1>3. Words[r.status] \in Seq(Nat) /\ Repaired(Words[r.status]) = Words[r.status]
  BY <1>2, WordsApart, WordRepaired
<1>4. MembersAs(D, 0, x, v)
  <2>1. MembersAs(D, 0, i, ti) /\ MembersAs(D, 0, s, ts)
    BY <1>1, <1>2, <1>3, MemberRead
  <2>2. MembersAs(D, 0, i \o (<<44>> \o s), ti \o ts)
    <3>. HIDE DEF i, s, ti, ts
    <3>. QED
      BY <2>1, MoreMembers
  <2>. DEFINE y == i \o (comma \o s)
              w == ti \o ts
  <2>. HIDE DEF y, w
  <2>3. MembersAs(D, 0, y \o d, w \o td)
    BY <1>1, <1>2, <2>2, MemberIfAny DEF y, w
  <2>4. MembersAs(D, 0, (y \o d) \o m, (w \o td) \o tm)
    BY <1>1, <1>2, <2>3, MemberIfAny
  <2>. QED
    BY <2>4 DEF y, w
<1>5. KeysDiffer(v)
  <2>1. /\ Keyed(ti, {Words["id"]}) /\ Keyed(ts, {Words["status"]})
        /\ Keyed(td, {Words["detail"]}) /\ Keyed(tm, {Words["remedy"]})
    BY <1>2, ToldIfAny
  <2>. DEFINE K1 == {Words["id"]}
              K2 == K1 \cup {Words["status"]}
              K3 == K2 \cup {Words["detail"]}
              K4 == K3 \cup {Words["remedy"]}
  <2>2. Words["status"] \notin K1 /\ Words["detail"] \notin K2 /\ Words["remedy"] \notin K3
    <3>1. \A a, b \in {"id", "status", "detail", "remedy"} : a # b => Words[a] # Words[b]
      BY <1>2, WordsApart
    <3>. QED
      BY <3>1
  <2>. HIDE DEF ti, ts, td, tm
  <2>3. Keyed(ti \o ts, K2)
    <3>1. Keyed(ti, K1) /\ K2 = K1 \cup {Words["status"]}
      BY <2>1
    <3>. HIDE DEF K1, K2
    <3>. QED
      BY <2>1, <2>2, <3>1, KeyedTwo
  <2>. HIDE DEF K1, K2
  <2>4. Keyed((ti \o ts) \o td, K3)
    BY <2>1, <2>2, <2>3, KeyedTwo
  <2>. HIDE DEF K3
  <2>5. Keyed(((ti \o ts) \o td) \o tm, K4)
    BY <2>1, <2>2, <2>4, KeyedTwo
  <2>. QED
    BY <2>5 DEF Keyed
<1>6. Told(r) = JObject(v)
  <2>1. Tells("status", Words[r.status]) = <<Words["status"], JText(Words[r.status])>>
    BY <1>3 DEF Tells
  <2>2. <<Tells("id", r.id), <<Words["status"], JText(Words[r.status])>>>> = ti \o ts
    BY <2>1, PairIs
  <2>. QED
    BY <2>2 DEF Told
<1>7. /\ i \in Seq(Nat) /\ s \in Seq(Nat) /\ d \in Seq(Nat) /\ m \in Seq(Nat)
      /\ open \in Seq(Nat) /\ comma \in Seq(Nat) /\ close \in Seq(Nat)
      /\ Len(open) >= 1 /\ open[1] = 123
  BY <1>1, <1>2, <1>3, OptionalType
<1>8. RequirementText(r) = (((((open \o i) \o comma) \o s) \o d) \o m) \o close
  BY DEF RequirementText
<1>. HIDE DEF open, comma, close, i, s, d, m, v
<1>9. ((((open \o i) \o comma) \o s) \o d) \o m = open \o x
  <2>. DEFINE first == open \o i
              last == comma \o s
              both == i \o last
              three == both \o d
  <2>1. open \in Seq(Nat) /\ i \in Seq(Nat) /\ comma \in Seq(Nat) /\ s \in Seq(Nat)
    BY <1>7
  <2>2. d \in Seq(Nat) /\ m \in Seq(Nat)
    BY <1>7
  <2>3. last \in Seq(Nat) /\ first \in Seq(Nat)
    BY ONLY <2>1, ConcatNat
  <2>. HIDE DEF last
  <2>4. first \o last = open \o both
    <3>1. open \in Seq(Nat) /\ i \in Seq(Nat) /\ last \in Seq(Nat)
      BY <2>1, <2>3
    <3>. QED
      BY ONLY <3>1, ConcatThree DEF first, both
  <2>5. both \in Seq(Nat)
    BY ONLY <2>1, <2>3, ConcatNat
  <2>. HIDE DEF first, both
  <2>6. (first \o comma) \o s = first \o (comma \o s)
    <3>1. first \in Seq(Nat) /\ comma \in Seq(Nat) /\ s \in Seq(Nat)
      BY <2>1, <2>3
    <3>. QED
      BY ONLY <3>1, ConcatThree
  <2>7. (open \o both) \o d = open \o three
    <3>1. open \in Seq(Nat) /\ both \in Seq(Nat) /\ d \in Seq(Nat)
      BY <2>1, <2>2, <2>5
    <3>. QED
      BY ONLY <3>1, ConcatThree DEF three
  <2>8. three \in Seq(Nat)
    BY ONLY <2>2, <2>5, ConcatNat
  <2>. HIDE DEF three
  <2>9. (open \o three) \o m = open \o (three \o m)
    <3>1. open \in Seq(Nat) /\ three \in Seq(Nat) /\ m \in Seq(Nat)
      BY <2>1, <2>2, <2>8
    <3>. QED
      BY ONLY <3>1, ConcatThree
  <2>. QED
    BY <2>4, <2>6, <2>7, <2>9 DEF first, last, both, three
<1>. HIDE DEF x
<1>10. RequirementText(r) = open \o x \o close
  BY <1>8, <1>9
<1>11. ValueAs(D, 0 + 1, <<123>> \o x \o <<125>>, JObject(v))
  BY <1>4, <1>5, MembersValue
<1>12. x \in Seq(Nat)
  BY <1>4 DEF MembersAs
<1>13. (open \o x \o close)[1] = 123
  <2>1. (open \o x)[1] = open[1] /\ Len(open \o x) >= 1
    BY ONLY <1>7, <1>12, ConcatFirst
  <2>2. open \o x \in Seq(Nat)
    BY ONLY <1>7, <1>12, ConcatNat
  <2>3. (open \o x \o close)[1] = (open \o x)[1]
    BY ONLY <1>7, <2>1, <2>2, ConcatFirst
  <2>. QED
    BY <1>7, <2>1, <2>3
<1>14. 0 + 1 = 1
  OBVIOUS
<1>. QED
  BY <1>6, <1>10, <1>11, <1>13, <1>14 DEF open, close

(* A row of texts; and how the brackets around the envelope's move. *)
InRow(w, a, b, c, d, e, f, g) ==
  /\ w \in Seq(Nat) /\ a \in Seq(Nat) /\ b \in Seq(Nat) /\ c \in Seq(Nat)
  /\ d \in Seq(Nat) /\ e \in Seq(Nat) /\ f \in Seq(Nat) /\ g \in Seq(Nat)
(* Three texts, for the one law that moves a bracket. *)
Texts3(a, b, c) == a \in Seq(Nat) /\ b \in Seq(Nat) /\ c \in Seq(Nat)

(* The law. *)
LEMMA MovedIs ==
  ASSUME NEW a, NEW b, NEW c, Texts3(a, b, c)
  PROVE  (a \o b) \o c = a \o (b \o c)
<1>1. a \in Seq(Nat) /\ b \in Seq(Nat) /\ c \in Seq(Nat)
  BY DEF Texts3
<1>. QED
  BY ONLY <1>1, ConcatThree

(* What it moves is bytes. *)
LEMMA MovedType ==
  ASSUME NEW a, NEW b, a \in Seq(Nat), b \in Seq(Nat)
  PROVE  a \o b \in Seq(Nat)
BY ConcatNat

(* The brackets as envelope() appends, and as they are read. *)
RowMoves(w, a, b, c, d, e, f, g) ==
  ((((w \o a) \o b) \o (c \o d)) \o e) \o (f \o g)
    = (w \o (a \o ((b \o c) \o ((d \o e) \o f)))) \o g

(* The one is the other. *)
LEMMA RowMoved ==
  ASSUME NEW w, NEW a, NEW b, NEW c, NEW d, NEW e, NEW f, NEW g, InRow(w, a, b, c, d, e, f, g)
  PROVE  RowMoves(w, a, b, c, d, e, f, g)
<1>. DEFINE bc == b \o c
            de == d \o e
            arr == de \o f
            m == bc \o arr
            am == a \o m
            w1 == w \o a
            w2 == w1 \o b
            cd == c \o d
            w3 == w2 \o c
            w4 == w3 \o d
            w5 == w4 \o e
            w6 == w5 \o f
<1>1. /\ w \in Seq(Nat) /\ a \in Seq(Nat) /\ b \in Seq(Nat) /\ c \in Seq(Nat)
      /\ d \in Seq(Nat) /\ e \in Seq(Nat) /\ f \in Seq(Nat) /\ g \in Seq(Nat)
  BY DEF InRow
<1>2. bc \in Seq(Nat) /\ de \in Seq(Nat) /\ w1 \in Seq(Nat)
  BY <1>1, MovedType
<1>3. arr \in Seq(Nat) /\ w2 \in Seq(Nat)
  <2>. HIDE DEF de, w1
  <2>. QED
    BY <1>1, <1>2, MovedType
<1>4. m \in Seq(Nat) /\ w3 \in Seq(Nat)
  <2>. HIDE DEF bc, arr, w2
  <2>. QED
    BY <1>1, <1>2, <1>3, MovedType
<1>5. w4 \in Seq(Nat)
  <2>. HIDE DEF w3
  <2>. QED
    BY <1>1, <1>4, MovedType
<1>6. w5 \in Seq(Nat)
  <2>. HIDE DEF w4
  <2>. QED
    BY <1>1, <1>5, MovedType
<1>. HIDE DEF bc, de, arr, m, am, w1, w2, cd, w3, w4, w5, w6
<1>7. /\ Texts3(w2, c, d) /\ Texts3(w1, b, c) /\ Texts3(w, a, m) /\ Texts3(w1, bc, arr)
      /\ Texts3(w3, de, f) /\ Texts3(w3, d, e) /\ Texts3(w5, f, g)
  BY <1>1, <1>2, <1>3, <1>4, <1>6 DEF Texts3
<1>8. (w2 \o c) \o d = w2 \o (c \o d)
  BY <1>7, MovedIs
<1>9. (w1 \o b) \o c = w1 \o (b \o c)
  BY <1>7, MovedIs
<1>10. (w \o a) \o m = w \o (a \o m)
  BY <1>7, MovedIs
<1>11. (w1 \o bc) \o arr = w1 \o (bc \o arr)
  BY <1>7, MovedIs
<1>12. (w3 \o de) \o f = w3 \o (de \o f)
  BY <1>7, MovedIs
<1>13. (w3 \o d) \o e = w3 \o (d \o e)
  BY <1>7, MovedIs
<1>14. (w5 \o f) \o g = w5 \o (f \o g)
  BY <1>7, MovedIs
<1>15. w6 = w1 \o m
  <2>1. w6 = ((w3 \o d) \o e) \o f
    BY DEF w6, w5, w4
  <2>2. w6 = (w3 \o de) \o f
    BY <1>13, <2>1 DEF de
  <2>3. w6 = w3 \o arr
    BY <1>12, <2>2 DEF arr
  <2>4. w3 = w1 \o bc
    BY <1>9 DEF w3, w2, bc
  <2>5. w6 = (w1 \o bc) \o arr
    BY <2>3, <2>4
  <2>. QED
    BY <1>11, <2>5 DEF m
<1>16. w4 = w2 \o (c \o d)
  BY <1>8 DEF w4, w3
<1>17. (w2 \o (c \o d)) \o e = w5
  BY <1>16 DEF w5
<1>18. w5 \o (f \o g) = w6 \o g
  BY <1>14 DEF w6
<1>19. w \o am = w1 \o m
  BY <1>10 DEF am, w1
<1>20. ((((w \o a) \o b) \o (c \o d)) \o e) \o (f \o g) = (w \o am) \o g
  <2>1. w2 = (w \o a) \o b
    BY DEF w2, w1
  <2>. QED
    BY <1>15, <1>17, <1>18, <1>19, <2>1
<1>. QED
  BY <1>20 DEF RowMoves, am, m, bc, arr, de

(* What a reader of the host check should find. *)
HostSaid(name, report) ==
  <<<<Words["check_host_version"], JNumber(Words["1"][1])>>>> \o TellsIfAny("provider", name)
    \o <<<<Words["requirements"], JArray([k \in DOMAIN report |-> Told(report[k])])>>>>
(* The requirements as they are written. *)
RequirementTexts(report) == [k \in DOMAIN report |-> RequirementText(report[k])]

(* What a check can report. *)
LEMMA ReportsType ==
  ASSUME NEW r \in Reports
  PROVE  /\ r.provider \in Seq(Nat) /\ Listed(r.report)
         /\ DOMAIN r.report = 1..Len(r.report) /\ Len(r.report) \in Nat
         /\ \A k \in 1..Len(r.report) : r.report[k] \in Requirements
<1>1. r \in [provider : Seq(Nat), report : Seq(Requirements)]
  BY ReportsAssumption DEF Requirements
<1>2. r.provider \in Seq(Nat) /\ r.report \in Seq(Requirements)
  BY <1>1
<1>. DEFINE x == r.report
            S == Requirements
<1>3. x \in Seq(S)
  BY <1>2
<1>. HIDE DEF x, S
<1>4. Len(x) \in Nat /\ DOMAIN x = 1..Len(x) /\ (\A k \in 1..Len(x) : x[k] \in S) /\ Listed(x)
  BY <1>3, LenProperties, ElementOfSeq DEF Listed
<1>. QED
  BY <1>2, <1>4 DEF x, S

(* Parts with commas between them are bytes. *)
LEMMA CommasType ==
  ASSUME NEW parts \in Seq(Seq(Nat)), \A k \in 1..Len(parts) : Len(parts[k]) >= 1
  PROVE  Commas(parts) \in Seq(Nat)
<1>. DEFINE D == <<>>
            item == <<>>
            l == Len(parts)
<1>1. D \in Seq(Nat) /\ Len(D) = 0 /\ l \in Nat /\ parts \in [1..l -> Seq(Nat)]
  BY LenProperties
<1>. HIDE DEF D, item
<1>2. CASE l = 0
  BY <1>1, <1>2, NoCommas DEF D
<1>3. CASE l >= 1
  <2>1. ASSUME NEW k \in 1..l PROVE ItemAs(D, item, parts[k], parts[k])
    <3>1. parts[k] \in Seq(Nat) /\ Len(parts[k]) >= 1 /\ Len(parts[k]) \in Nat
      BY <1>1, LenProperties
    <3>2. \A p \in Nat : ~Sits(D, p, parts[k])
      BY <1>1, <3>1 DEF Sits
    <3>. QED
      BY <3>1, <3>2 DEF ItemAs
  <2>2. \A k \in 1..Len(parts) : ItemAs(D, item, parts[k], parts[k])
    BY <2>1
  <2>3. /\ ItemsAs(D, item, Commas(parts), parts)
        /\ Len(Commas(parts)) >= 1 /\ Commas(parts)[1] = parts[1][1]
    <3>1. Len(parts) >= 1 /\ parts \in Seq(Seq(Nat)) /\ Len(parts) = Len(parts)
      BY <1>3
    <3>. QED
      BY ONLY <1>1, <2>2, <3>1, CommasRead
  <2>. QED
    BY <2>3 DEF ItemsAs
<1>. QED
  BY <1>1, <1>2, <1>3

(* The report is an array of the requirements. *)
LEMMA ReportValue ==
  ASSUME NEW D \in Seq(Nat), 1 <= Len(D), NEW r \in Reports
  PROVE  /\ ValueAs(D, 2, <<91>> \o Commas(RequirementTexts(r.report)) \o <<93>>,
                    JArray([k \in DOMAIN r.report |-> Told(r.report[k])]))
         /\ Commas(RequirementTexts(r.report)) \in Seq(Nat)
<1>. DEFINE x == r.report
            l == Len(x)
            parts == RequirementTexts(x)
            vals == [k \in DOMAIN x |-> Told(x[k])]
<1>1. l \in Nat /\ DOMAIN x = 1..l /\ \A k \in 1..l : x[k] \in Requirements
  BY ReportsType
<1>2. /\ DOMAIN parts = 1..l /\ parts = [k \in 1..l |-> parts[k]]
      /\ \A k \in 1..l : parts[k] = RequirementText(x[k])
  BY <1>1 DEF RequirementTexts
<1>3. /\ DOMAIN vals = 1..l /\ vals = [k \in 1..l |-> vals[k]]
      /\ \A k \in 1..l : vals[k] = Told(x[k])
  BY <1>1
<1>. HIDE DEF x, l, parts, vals
<1>4. Listed(parts) /\ Len(parts) = l /\ Listed(vals) /\ Len(vals) = l
  BY <1>1, <1>2, <1>3, FunctionListed
<1>5. ASSUME NEW k \in 1..l PROVE ValueAs(D, 1, parts[k], vals[k]) /\ parts[k][1] = 123
  BY <1>1, <1>2, <1>3, RequirementRead
<1>6. ValueAs(D, 1 + 1, <<91>> \o Commas(parts) \o <<93>>, JArray(vals))
  <2>1. \A k \in 1..Len(parts) : ValueAs(D, 1, parts[k], vals[k]) /\ parts[k][1] \in {34, 123}
    BY <1>4, <1>5
  <2>2. 1 \in Nat /\ Len(parts) = Len(vals)
    BY <1>4
  <2>. QED
    BY ONLY <1>4, <2>1, <2>2, D \in Seq(Nat), 1 <= Len(D), ArrayValue
<1>7. 1 + 1 = 2
  OBVIOUS
<1>8. Commas(parts) \in Seq(Nat)
  <2>1. \A k \in 1..l : parts[k] \in Seq(Nat) /\ Len(parts[k]) >= 1
    BY <1>5 DEF ValueAs
  <2>2. parts \in [1..l -> Seq(Nat)]
    BY <1>2, <2>1
  <2>3. parts \in Seq(Seq(Nat))
    BY <1>1, <2>2
  <2>. QED
    BY <1>4, <2>1, <2>3, CommasType
<1>. QED
  BY <1>6, <1>7, <1>8 DEF parts, vals, x

(* envelope() writes an object that tells the version, the provider and the *)
(* requirements.                                                            *)
LEMMA HostEnvelopeValue ==
  ASSUME NEW D \in Seq(Nat), 1 <= Len(D), NEW r \in Reports
  PROVE  /\ ValueAs(D, 3, envelope(r.provider, r.report), JObject(HostSaid(r.provider, r.report)))
         /\ Len(envelope(r.provider, r.report)) >= 3
<1>. DEFINE open == <<123>>
            comma == <<44>>
            colon == <<58>>
            square == <<91>>
            end == <<93>>
            close == <<125>>
            a == escape_json(Words["check_host_version"])
            n == Words["1"]
            p == OptionalMember("provider", r.provider)
            q == escape_json(Words["requirements"])
            c == Commas(RequirementTexts(r.report))
            array == (square \o c) \o end
            first == (a \o colon) \o n
            more == first \o p
            last == (q \o colon) \o array
            x == more \o (comma \o last)
            w == open \o more
            told == JArray([k \in DOMAIN r.report |-> Told(r.report[k])])
            v1 == <<<<Words["check_host_version"], JNumber(Words["1"][1])>>>>
            v2 == TellsIfAny("provider", r.provider)
            v3 == <<<<Words["requirements"], told>>>>
            v == (v1 \o v2) \o v3
<1>1. {"check_host_version", "provider", "requirements", "1"} \subseteq WordNames
  BY DEF WordNames
<1>2. r.provider \in Seq(Nat)
  BY ReportsType
<1>3. ValueAs(D, 2, array, told)
  BY ReportValue
<1>4. /\ StringAs(D, a, Words["check_host_version"]) /\ StringAs(D, q, Words["requirements"])
  BY <1>1, WordsApart, EscapeReadsBack
<1>5. /\ ValueAs(D, 2, n, JNumber(Words["1"][1]))
      /\ n \in Seq(Nat)
  <2>1. n = <<Words["1"][1]>> /\ Words["1"][1] \in Nat /\ Words["1"][1] > 255 /\ n \in Seq(Nat)
    BY <1>1, WordsApart
  <2>2. ValueAs(D, 2, <<Words["1"][1]>>, JNumber(Words["1"][1]))
    BY <2>1, NumberValue
  <2>. QED
    BY <2>1, <2>2
<1>6. /\ envelope(r.provider, r.report) =
           ((((((((open \o a) \o colon) \o n) \o p) \o comma) \o q) \o <<58, 91>>) \o c) \o <<93, 125>>
      /\ HostSaid(r.provider, r.report) = v
  BY DEF envelope, HostSaid, RequirementTexts, RequirementText
<1>7. /\ <<58, 91>> = colon \o square /\ <<93, 125>> = end \o close
  BY PairIs
<1>8. /\ open \in Seq(Nat) /\ comma \in Seq(Nat) /\ colon \in Seq(Nat) /\ square \in Seq(Nat)
      /\ end \in Seq(Nat) /\ close \in Seq(Nat)
  OBVIOUS
<1>9. a \in Seq(Nat) /\ q \in Seq(Nat) /\ p \in Seq(Nat)
  BY <1>1, <1>2, <1>4, OptionalType DEF StringAs
<1>10. KeysDiffer(v)
  <2>. DEFINE K1 == {Words["check_host_version"]}
              K2 == K1 \cup {Words["provider"]}
              K3 == K2 \cup {Words["requirements"]}
  <2>1. Keyed(v1, K1) /\ Keyed(v2, {Words["provider"]}) /\ Keyed(v3, {Words["requirements"]})
    BY <1>1, KeyedOne, ToldIfAny
  <2>2. Words["provider"] \notin K1 /\ Words["requirements"] \notin K2
    BY <1>1, WordsApart
  <2>. HIDE DEF K1, v1, v2, v3
  <2>3. Keyed(v1 \o v2, K2)
    BY <2>1, <2>2, KeyedTwo
  <2>. HIDE DEF K2
  <2>4. Keyed((v1 \o v2) \o v3, K3)
    BY <2>1, <2>2, <2>3, KeyedTwo
  <2>. QED
    BY <2>4 DEF Keyed
<1>11. c \in Seq(Nat)
  BY ReportValue
<1>12. MembersAs(D, 2, first, v1)
  <2>1. EntryAs(D, 2, first, <<Words["check_host_version"], JNumber(Words["1"][1])>>)
    BY <1>4, <1>5, EntryValue
  <2>. QED
    BY <2>1, OneMember
<1>13. MembersAs(D, 2, last, v3)
  <2>1. EntryAs(D, 2, last, <<Words["requirements"], told>>)
    BY <1>3, <1>4, EntryValue
  <2>. QED
    BY <2>1, OneMember
<1>. HIDE DEF open, comma, colon, square, end, close, a, n, p, q, c, v1, v3
<1>14. MembersAs(D, 2, more, v1 \o v2)
  <2>. HIDE DEF first
  <2>. QED
    BY <1>1, <1>2, <1>12, MemberIfAny DEF p
<1>15. MembersAs(D, 2, x, v)
  <2>. DEFINE u == v1 \o v2
  <2>. HIDE DEF more, last, u
  <2>1. MembersAs(D, 2, more \o (<<44>> \o last), u \o v3)
    BY <1>13, <1>14, MoreMembers DEF u
  <2>. QED
    BY <2>1 DEF comma, u
<1>16. first \in Seq(Nat) /\ more \in Seq(Nat) /\ x \in Seq(Nat) /\ Len(x) >= 1
  BY <1>12, <1>14, <1>15 DEF MembersAs
<1>17. ((open \o a) \o colon) \o n = open \o first
  <2>. DEFINE oa == open \o a
              ac == a \o colon
  <2>1. oa \in Seq(Nat) /\ ac \in Seq(Nat)
    BY <1>8, <1>9, MovedType
  <2>2. Texts3(open, a, colon)
    BY <1>8, <1>9 DEF Texts3
  <2>3. (open \o a) \o colon = open \o (a \o colon)
    BY <2>2, MovedIs
  <2>. HIDE DEF ac
  <2>4. Texts3(open, ac, n)
    BY <1>5, <1>8, <2>1 DEF Texts3, n
  <2>5. (open \o ac) \o n = open \o (ac \o n)
    BY <2>4, MovedIs
  <2>. QED
    BY <2>3, <2>5 DEF ac
<1>18. (open \o first) \o p = w
  <2>. HIDE DEF first
  <2>1. Texts3(open, first, p)
    BY <1>8, <1>9, <1>16 DEF Texts3
  <2>. QED
    BY <2>1, MovedIs
<1>19. w \in Seq(Nat)
  <2>. HIDE DEF more
  <2>. QED
    BY <1>8, <1>16, MovedType
<1>20. ((((w \o comma) \o q) \o (colon \o square)) \o c) \o (end \o close)
         = (w \o (comma \o ((q \o colon) \o array))) \o close
  <2>. HIDE DEF w
  <2>1. InRow(w, comma, q, colon, square, c, end, close)
    BY <1>8, <1>9, <1>11, <1>19 DEF InRow
  <2>2. RowMoves(w, comma, q, colon, square, c, end, close)
    BY ONLY <2>1, RowMoved
  <2>. QED
    BY <2>2 DEF RowMoves, array
<1>21. w \o (comma \o last) = open \o x
  <2>. HIDE DEF more, last
  <2>1. last \in Seq(Nat)
    BY <1>13 DEF MembersAs
  <2>2. comma \o last \in Seq(Nat)
    BY <1>8, <2>1, MovedType
  <2>. DEFINE cl == comma \o last
  <2>. HIDE DEF cl
  <2>3. Texts3(open, more, cl)
    BY <1>8, <1>16, <2>2 DEF Texts3, cl
  <2>4. (open \o more) \o cl = open \o (more \o cl)
    BY <2>3, MovedIs
  <2>. QED
    BY <2>4 DEF cl
<1>22. envelope(r.provider, r.report) = (open \o x) \o close
  <2>. HIDE DEF first, w, x, array
  <2>. QED
    BY <1>6, <1>7, <1>17, <1>18, <1>20, <1>21 DEF last
<1>. HIDE DEF x, v
<1>23. ValueAs(D, 2 + 1, <<123>> \o x \o <<125>>, JObject(v))
  BY <1>10, <1>15, MembersValue
<1>24. Len(<<123>> \o x \o <<125>>) >= 3
  <2>1. 123 \in Nat /\ 125 \in Nat
    OBVIOUS
  <2>2. Len(<<123>> \o x \o <<125>>) = Len(x) + 2 /\ Len(x) \in Nat
    BY ONLY <1>16, <2>1, BracketsType
  <2>. QED
    BY <1>16, <2>2
<1>25. 2 + 1 = 3
  OBVIOUS
<1>. QED
  BY <1>6, <1>22, <1>23, <1>24, <1>25 DEF open, close

-----------------------------------------------------------------------------
(* What main prints *)

(* As a document of its own, the envelope is read as what was found. *)
LEMMA HostEnvelopeReadsBack ==
  ASSUME NEW r \in Reports
  PROVE  /\ IsDocument(envelope(r.provider, r.report))
         /\ Document(envelope(r.provider, r.report)) = JObject(HostSaid(r.provider, r.report))
<1>. DEFINE D == envelope(r.provider, r.report)
            v == JObject(HostSaid(r.provider, r.report))
            some == <<0>>
<1>1. some \in Seq(Nat) /\ 1 <= Len(some)
  OBVIOUS
<1>. HIDE DEF some
<1>2. ValueAs(some, 3, D, v) /\ Len(D) >= 3
  BY <1>1, HostEnvelopeValue
<1>3. D \in Seq(Nat)
  BY <1>2 DEF ValueAs
<1>4. Len(D) \in Nat /\ 1 <= Len(D) /\ 3 <= Len(D)
  <2>1. Len(D) \in Nat
    BY <1>3, LenProperties
  <2>. HIDE DEF D
  <2>. QED
    BY <1>2, <2>1
<1>5. ValueAs(D, 3, envelope(r.provider, r.report), v)
  BY <1>3, <1>4, HostEnvelopeValue
<1>6. ValueAs(D, 3, D, v)
  BY <1>5
<1>. HIDE DEF D, v
<1>7. IsDocument(D) /\ Document(D) = v
  BY <1>3, <1>4, <1>6, DocumentIs
<1>. QED
  BY <1>7 DEF D, v

(* What is printed is what the verb's function made of what it was given. *)
SchemaPrinted ==
  /\ said \in Texts
  /\ IF SchemaThrows(said) \/ EnvelopeThrows(said) THEN pc = "threw" /\ stdout = <<>>
     ELSE pc = "exited" /\ exit = 0 /\ stdout = config_schema_envelope(said)
(* The same of the host check: a provider that could not read its           *)
(* configuration prints nothing.                                            *)
HostCheckPrinted ==
  pc = "exited" =>
    IF errors # {} THEN exit = 2 /\ stdout = <<>>
    ELSE /\ said \in Reports /\ exit = exit_code(said.report)
         /\ stdout = envelope(said.provider, said.report)

(* Nothing is printed without a verb, and what is printed is printed once   *)
(* and whole.                                                               *)
MainInv ==
  /\ ConfigInv
  /\ verb = None => stdout = <<>> /\ pc # "exited"
  /\ verb # None => pc \in {"threw", "exited"}
  /\ verb = "--config-schema" => SchemaPrinted
  /\ verb = "--check-host" => HostCheckPrinted

(* It holds before a verb is given. *)
LEMMA MainInitial == MainInit => MainInv
<1>. SUFFICES ASSUME MainInit PROVE MainInv
  OBVIOUS
<1>1. ConfigInv
  BY ConfigInitial DEF MainInit
<1>2. verb = None /\ stdout = <<>> /\ pc = "field" /\ None \notin {"--config-schema", "--check-host"}
  BY VerbAssumption DEF MainInit, Init, Verbs
<1>. QED
  BY <1>1, <1>2 DEF MainInv

(* Every verb keeps it: both print what they made of what they were given. *)
LEMMA MainStep == MainInv /\ [MainNext]_<<vars, mainVars>> => MainInv'
<1>. SUFFICES ASSUME MainInv, [MainNext]_<<vars, mainVars>> PROVE MainInv'
  OBVIOUS
<1>0. None \notin {"--config-schema", "--check-config", "--check-host"}
  BY VerbAssumption DEF Verbs
<1>1. CASE UNCHANGED <<vars, mainVars>>
  <2>1. ConfigInv'
    BY <1>1, ConfigStep DEF MainInv
  <2>2. /\ verb' = verb /\ said' = said /\ stdout' = stdout /\ exit' = exit /\ pc' = pc /\ errors' = errors
    BY <1>1 DEF vars, mainVars
  <2>. QED
    BY <2>1, <2>2 DEF MainInv, SchemaPrinted, HostCheckPrinted
<1>2. CASE Next /\ UNCHANGED mainVars
  <2>1. ConfigInv'
    BY <1>2, ConfigStep DEF MainInv
  <2>2. /\ verb' = verb /\ said' = said /\ stdout' = stdout /\ exit' = exit
    BY <1>2 DEF mainVars
  <2>3. CASE Done
    <3>1. pc' = pc /\ errors' = errors
      BY <2>3 DEF Done, vars
    <3>. QED
      BY <2>1, <2>2, <3>1 DEF MainInv, SchemaPrinted, HostCheckPrinted
  <2>4. CASE ~Done
    <3>1. pc \notin {"threw", "exited"} /\ pc' # "exited"
      BY <1>2, <2>4 DEF Next, CallSetter, Declare, CheckConfig
    <3>2. verb = None
      BY <3>1 DEF MainInv
    <3>. QED
      BY <1>0, <2>1, <2>2, <3>1, <3>2 DEF MainInv
  <2>. QED
    BY <2>3, <2>4
<1>3. CASE PrintSchema
  <2>1. /\ pc = "declared" /\ verb' = "--config-schema" /\ said' \in Texts
        /\ root' = root /\ doc' = doc /\ errors' = errors
        /\ \/ /\ SchemaThrows(said') \/ EnvelopeThrows(said')
              /\ pc' = "threw" /\ stdout' = stdout
           \/ /\ ~SchemaThrows(said') /\ ~EnvelopeThrows(said')
              /\ pc' = "exited" /\ exit' = 0 /\ stdout' = config_schema_envelope(said')
    BY <1>3 DEF PrintSchema
  <2>2. verb = None /\ stdout = <<>>
    BY <2>1 DEF MainInv
  <2>3. ConfigInv'
    BY <2>1 DEF ConfigInv
  <2>4. SchemaPrinted'
    BY <2>1, <2>2 DEF SchemaPrinted
  <2>. QED
    BY <1>0, <2>1, <2>3, <2>4 DEF MainInv
<1>4. CASE RefuseConfig
  <2>1. /\ pc = "checked" /\ errors # {} /\ verb' \in {"--check-config", "--check-host"}
        /\ pc' = "exited" /\ exit' = IF verb' = "--check-host" THEN 2 ELSE 1
        /\ root' = root /\ doc' = doc /\ errors' = errors /\ stdout' = stdout
    BY <1>4 DEF RefuseConfig
  <2>2. stdout = <<>>
    BY <2>1 DEF MainInv
  <2>3. ConfigInv'
    BY <2>1 DEF ConfigInv
  <2>4. (verb = "--check-host" => HostCheckPrinted)'
    BY <2>1, <2>2 DEF HostCheckPrinted
  <2>. QED
    BY <1>0, <2>1, <2>3, <2>4 DEF MainInv
<1>5. CASE AcceptConfig
  <2>1. /\ verb' = "--check-config" /\ pc' = "exited" /\ pc = "checked"
        /\ root' = root /\ doc' = doc /\ errors' = errors
    BY <1>5 DEF AcceptConfig
  <2>2. ConfigInv'
    BY <2>1 DEF ConfigInv
  <2>. QED
    BY <1>0, <2>1, <2>2 DEF MainInv
<1>6. CASE PrintHostCheck
  <2>1. /\ pc = "checked" /\ errors = {} /\ verb' = "--check-host" /\ said' \in Reports
        /\ root' = root /\ doc' = doc /\ errors' = errors
        /\ \/ pc' = "threw"
           \/ /\ pc' = "exited" /\ exit' = exit_code(said'.report)
              /\ stdout' = envelope(said'.provider, said'.report)
    BY <1>6 DEF PrintHostCheck
  <2>2. ConfigInv'
    BY <2>1 DEF ConfigInv
  <2>3. HostCheckPrinted'
    BY <2>1 DEF HostCheckPrinted
  <2>. QED
    BY <1>0, <2>1, <2>2, <2>3 DEF MainInv
<1>7. CASE Exited
  BY <1>1, <1>7 DEF Exited
<1>. QED
  BY <1>1, <1>2, <1>3, <1>4, <1>5, <1>6, <1>7 DEF MainNext

(* MainInv holds in every run of a provider's main. *)
THEOREM MainInvariant == MainSpec => []MainInv
<1>1. MainInit => MainInv
  BY MainInitial
<1>2. MainInv /\ [MainNext]_<<vars, mainVars>> => MainInv'
  BY MainStep
<1>. QED
  BY <1>1, <1>2, PTL DEF MainSpec

(* What --config-schema printed is read as what was declared. *)
LEMMA SchemaHolds == MainInv => SchemaReadsBack
<1>. SUFFICES ASSUME MainInv, verb = "--config-schema" PROVE SchemaReadsBack
  BY DEF SchemaReadsBack
<1>. DEFINE t == said
<1>1. SchemaPrinted
  BY DEF MainInv
<1>2. t \in Texts
  BY <1>1 DEF SchemaPrinted
<1>3. WellSaid(t) <=> ~SchemaThrows(t) /\ ~EnvelopeThrows(t)
  BY <1>2, WellIs
<1>4. CASE ~WellSaid(t)
  <2>1. pc = "threw" /\ stdout = <<>>
    BY <1>1, <1>3, <1>4 DEF SchemaPrinted
  <2>. QED
    BY <1>4, <2>1 DEF SchemaReadsBack
<1>5. CASE WellSaid(t)
  <2>1. pc = "exited" /\ exit = 0 /\ stdout = config_schema_envelope(t)
    BY <1>1, <1>3, <1>5 DEF SchemaPrinted
  <2>2. ASSUME \A c \in Range(t.conditionals) : IsInjective(c.forbid)
        PROVE  IsDocument(stdout) /\ Document(stdout) = EnvelopeSaid(t)
    <3>1. Fine(t)
      BY <1>5, <2>2 DEF Fine
    <3>. QED
      BY <1>2, <2>1, <3>1, EnvelopeReadsBack
  <2>. QED
    BY <1>5, <2>1, <2>2 DEF SchemaReadsBack
<1>. QED
  BY <1>4, <1>5

(* What --check-host printed is read as what was found. *)
LEMMA HostCheckHolds == MainInv => HostCheckReadsBack
<1>. SUFFICES ASSUME MainInv, verb = "--check-host", pc = "exited" PROVE HostCheckReadsBack
  BY DEF HostCheckReadsBack
<1>1. IF errors # {} THEN exit = 2 /\ stdout = <<>>
      ELSE /\ said \in Reports /\ exit = exit_code(said.report)
           /\ stdout = envelope(said.provider, said.report)
  BY DEF MainInv, HostCheckPrinted
<1>2. CASE errors # {}
  BY <1>1, <1>2 DEF HostCheckReadsBack
<1>3. CASE errors = {}
  <2>1. IsDocument(stdout) /\ Document(stdout) = JObject(HostSaid(said.provider, said.report))
    BY <1>1, <1>3, HostEnvelopeReadsBack
  <2>2. exit = IF \E r \in Range(said.report) : r.status = "unmet" THEN 1 ELSE 0
    BY <1>1, <1>3 DEF exit_code, Range
  <2>. QED
    BY <1>3, <2>1, <2>2 DEF HostCheckReadsBack, HostSaid
<1>. QED
  BY <1>2, <1>3

(* --config-schema throws exactly when a text is no UTF-8 or a key is taken, *)
(* empty or no member's.  Otherwise it prints, and unless a branch forbids a *)
(* key twice, what it prints is one document, with no key twice in any of    *)
(* its objects, that reads back as the texts of the schema, of its String    *)
(* fields, of its conditionals and of its envelope.                          *)
THEOREM SchemaPrints == MainSpec => []SchemaReadsBack
BY MainInvariant, SchemaHolds, PTL

(* --check-host prints a document that reads back as the requirements       *)
(* found, whatever bytes the host put in them, with the invalid ones        *)
(* replaced.                                                                *)
THEOREM HostCheckPrints == MainSpec => []HostCheckReadsBack
BY MainInvariant, HostCheckHolds, PTL

(* Adding the verbs leaves the promises of the configuration what they are. *)
THEOREM MainKeepsConfig ==
  MainSpec => [](SchemaAndValidatorAgree /\ ExtractionCannotFail /\ DeclarationsKeepPromises)
<1>1. MainInv => SchemaAndValidatorAgree /\ ExtractionCannotFail /\ DeclarationsKeepPromises
  BY AgreementHolds, ExtractionHolds, PromisesHold DEF MainInv
<1>. QED
  BY <1>1, MainInvariant, PTL

=============================================================================
