------------------------------ MODULE DataLemmas ------------------------------
(***************************************************************************)
(* What SetToSeq, FlattenSeq and SumFunctionOnSet of the community modules  *)
(* compute, for every finite set and every sequence, and that the folds     *)
(* FoldLeft is made of exist.  The library's induction theorems are about   *)
(* operators; NatSetInduction says the same of a set, which the provers can *)
(* instantiate.                                                             *)
(***************************************************************************)
EXTENDS Integers, SequencesExt, FiniteSetTheorems, TLAPS

(* A set that has 0, and with a number the next, has all natural numbers. *)
LEMMA NatSetInduction ==
  ASSUME NEW S, 0 \in S, \A n \in Nat : n \in S => n + 1 \in S
  PROVE  \A n \in Nat : n \in S
<1>. DEFINE T == Nat \ S
<1>. SUFFICES ASSUME T # {} PROVE FALSE
  OBVIOUS
<1>1. PICK m \in T : \A k \in T : ~(<<k, m>> \in OpToRel(<, Nat))
  BY NatLessThanWellFounded, WFMin
<1>2. m \in Nat /\ m # 0 /\ m \notin S
  OBVIOUS
<1>3. m - 1 \in Nat /\ (m - 1) + 1 = m
  BY <1>2
<1>4. m - 1 \in T
  BY <1>2, <1>3
<1>5. <<m - 1, m>> \in OpToRel(<, Nat)
  BY <1>2, <1>3 DEF OpToRel
<1>. QED
  BY <1>1, <1>4, <1>5

(* The greatest of a set of positions that has one: a set of the form      *)
(* {j : j >= i} that is minimal among them.                                *)
LEMMA MaxOfPositions ==
  ASSUME NEW n \in Nat, NEW T, T \subseteq 0..n, T # {}
  PROVE  Max(T) \in T /\ \A y \in T : y <= Max(T)
<1>. DEFINE Above(a) == {b \in T : b >= a}
            Tops == {Above(x) : x \in T}
<1>0. IsFiniteSet(0..n)
  BY FS_Interval
<1>1. Tops \subseteq FiniteSubsetsOf(0..n)
  <2>. SUFFICES ASSUME NEW x \in T PROVE Above(x) \in FiniteSubsetsOf(0..n)
    OBVIOUS
  <2>1. Above(x) \subseteq 0..n
    OBVIOUS
  <2>. QED
    BY <1>0, <2>1, FS_FiniteSubsetsOfFinite
<1>2. Tops # {}
  OBVIOUS
<1>3. PICK m \in Tops :
        \A X \in Tops : ~(<<X, m>> \in StrictSubsetOrdering(0..n))
  BY <1>1, <1>2, FS_StrictSubsetOrderingWellFounded, WFMin
<1>4. PICK x \in T : m = Above(x)
  BY <1>3
<1>5. \A y \in T : y <= x
  <2>. SUFFICES ASSUME NEW y \in T, y > x PROVE FALSE
    OBVIOUS
  <2>1. \A z \in T : z \in Nat
    OBVIOUS
  <2>2. x \in Above(x) /\ x \notin Above(y)
    BY <2>1
  <2>3. Above(y) \subseteq Above(x)
    <3>. SUFFICES ASSUME NEW z \in Above(y) PROVE z \in Above(x)
      OBVIOUS
    <3>1. z \in T /\ z >= y /\ z \in Nat
      BY <2>1
    <3>. QED
      BY <2>1, <3>1
  <2>4. Above(y) \in Tops /\ Above(y) \subseteq 0..n /\ m \subseteq 0..n
    BY <1>4
  <2>5. <<Above(y), m>> \in StrictSubsetOrdering(0..n)
    BY <1>4, <2>2, <2>3, <2>4 DEF StrictSubsetOrdering
  <2>. QED
    BY <1>3, <2>4, <2>5
<1>6. \A y \in T : x >= y
  <2>1. \A z \in T : z \in Nat
    OBVIOUS
  <2>. QED
    BY <1>5, <2>1
<1>7. Max(T) \in T /\ \A y \in T : Max(T) >= y
  BY <1>4, <1>6 DEF Max
<1>. QED
  BY <1>7

-----------------------------------------------------------------------------
(* SetToSeq: the elements of a finite set in some order.  The handlers take  *)
(* what the provider lists (list_device_ids, the default signals) in an      *)
(* order that they do not choose.                                           *)

(* Every element comes, and comes once. *)
LEMMA SetToSeqLists ==
  ASSUME NEW S, IsFiniteSet(S)
  PROVE  /\ SetToSeq(S) \in Seq(S)
         /\ Len(SetToSeq(S)) = Cardinality(S) /\ Cardinality(S) \in Nat
         /\ IsInjective(SetToSeq(S))
         /\ Range(SetToSeq(S)) = S
<1>. DEFINE n == Cardinality(S)
            f == SetToSeq(S)
<1>1. n \in Nat /\ Bijection(1..n, S) # {}
  BY FS_CardinalityType DEF ExistsBijection
<1>2. \E g \in [1..n -> S] : IsInjective(g)
  BY <1>1 DEF Bijection, Injection
<1>3. f \in [1..n -> S] /\ IsInjective(f)
  BY <1>2 DEF SetToSeq
<1>4. f \in Injection(1..n, S)
  BY <1>3 DEF Injection
<1>5. f \in Surjection(1..n, S)
  <2>1. Cardinality(1..n) = n
    BY <1>1, FS_Interval
  <2>. HIDE DEF f
  <2>. QED
    BY <1>4, <2>1, FS_Injection
<1>. HIDE DEF f
<1>6. f \in Seq(S) /\ Len(f) = n
  BY <1>1, <1>3
<1>7. Range(f) = S
  BY <1>3, <1>5 DEF Surjection, Range
<1>. QED
  BY <1>1, <1>3, <1>6, <1>7 DEF f

(* Two sets that have nothing in common, one after the other. *)
LEMMA DisjointListed ==
  ASSUME NEW S, NEW T, IsFiniteSet(S), IsFiniteSet(T), S \cap T = {}
  PROVE  LET both == SetToSeq(S) \o SetToSeq(T) IN
         /\ both \in Seq(S \cup T)
         /\ Len(both) = Cardinality(S \cup T)
         /\ IsInjective(both)
         /\ Range(both) = S \cup T
<1>. DEFINE s == SetToSeq(S)
            t == SetToSeq(T)
            both == s \o t
<1>1. s \in Seq(S) /\ Len(s) = Cardinality(S) /\ IsInjective(s) /\ Range(s) = S
  BY SetToSeqLists
<1>2. t \in Seq(T) /\ Len(t) = Cardinality(T) /\ IsInjective(t) /\ Range(t) = T
  BY SetToSeqLists
<1>3. Len(both) = Cardinality(S \cup T)
  <2>1. Cardinality(S \cup T) = Cardinality(S) + Cardinality(T) - Cardinality(S \cap T)
    BY FS_Union
  <2>2. Cardinality(S \cap T) = 0
    BY FS_EmptySet
  <2>3. Cardinality(S) \in Nat /\ Cardinality(T) \in Nat
    BY FS_CardinalityType
  <2>. HIDE DEF s, t
  <2>4. Len(both) = Len(s) + Len(t)
    BY <1>1, <1>2
  <2>. QED
    BY <1>1, <1>2, <2>1, <2>2, <2>3, <2>4
<1>. HIDE DEF s, t
<1>4. both \in Seq(S \cup T)
  BY <1>1, <1>2
<1>5. /\ DOMAIN both = 1..(Len(s) + Len(t))
      /\ \A i \in 1..(Len(s) + Len(t)) :
           both[i] = IF i <= Len(s) THEN s[i] ELSE t[i - Len(s)]
  BY <1>1, <1>2
<1>6. /\ Len(s) \in Nat /\ DOMAIN s = 1..Len(s) /\ \A i \in 1..Len(s) : s[i] \in S
      /\ Len(t) \in Nat /\ DOMAIN t = 1..Len(t) /\ \A i \in 1..Len(t) : t[i] \in T
  BY <1>1, <1>2
<1>. HIDE DEF both
<1>7. IsInjective(both)
  <2>. SUFFICES ASSUME NEW a \in 1..(Len(s) + Len(t)), NEW b \in 1..(Len(s) + Len(t)),
                       both[a] = both[b]
                PROVE  a = b
    BY <1>5 DEF IsInjective
  <2>1. CASE a <= Len(s) /\ b <= Len(s)
    BY <2>1, <1>1, <1>5, <1>6 DEF IsInjective
  <2>2. CASE ~(a <= Len(s)) /\ ~(b <= Len(s))
    <3>1. a - Len(s) \in 1..Len(t) /\ b - Len(s) \in 1..Len(t)
      BY <2>2, <1>6
    <3>2. t[a - Len(s)] = t[b - Len(s)]
      BY <2>2, <1>5
    <3>3. a - Len(s) = b - Len(s)
      BY <3>1, <3>2, <1>2, <1>6 DEF IsInjective
    <3>. QED
      BY <3>3, <1>6
  <2>3. CASE a <= Len(s) /\ ~(b <= Len(s))
    <3>1. both[a] \in S /\ both[b] \in T
      BY <2>3, <1>5, <1>6
    <3>. QED
      BY <3>1
  <2>4. CASE ~(a <= Len(s)) /\ b <= Len(s)
    <3>1. both[a] \in T /\ both[b] \in S
      BY <2>4, <1>5, <1>6
    <3>. QED
      BY <3>1
  <2>. QED
    BY <2>1, <2>2, <2>3, <2>4
<1>8. Range(both) = S \cup T
  <2>1. ASSUME NEW x \in S PROVE x \in Range(both)
    <3>1. PICK i \in 1..Len(s) : s[i] = x
      BY <1>1, <1>6 DEF Range
    <3>2. i \in 1..(Len(s) + Len(t)) /\ both[i] = x
      BY <3>1, <1>5, <1>6
    <3>. QED
      BY <3>2, <1>5 DEF Range
  <2>2. ASSUME NEW x \in T PROVE x \in Range(both)
    <3>1. PICK i \in 1..Len(t) : t[i] = x
      BY <1>2, <1>6 DEF Range
    <3>2. /\ i + Len(s) \in 1..(Len(s) + Len(t))
          /\ ~(i + Len(s) <= Len(s)) /\ (i + Len(s)) - Len(s) = i
      BY <3>1, <1>6
    <3>3. both[i + Len(s)] = x
      BY <3>1, <3>2, <1>5
    <3>. QED
      BY <3>2, <3>3, <1>5 DEF Range
  <2>3. ASSUME NEW x \in Range(both) PROVE x \in S \cup T
    BY <1>4, <1>5 DEF Range
  <2>. QED
    BY <2>1, <2>2, <2>3
<1>. QED
  BY <1>3, <1>4, <1>7, <1>8 DEF both, s, t

-----------------------------------------------------------------------------
(* FlattenSeq: the bytes of one frame after the other. *)

(* f is what FlattenSeq computes along the first n sequences of q. *)
Flattens(f, q, n) ==
  f = [i \in 1..n |-> IF i = 1 THEN q[i] ELSE f[i - 1] \o q[i]]

(* There is one such function at most ... *)
LEMMA FlattenUnique ==
  ASSUME NEW q, NEW f, NEW g, NEW n \in Nat, Flattens(f, q, n), Flattens(g, q, n)
  PROVE  f = g
<1>. DEFINE S == {i \in Nat : i \in 1..n => f[i] = g[i]}
<1>1. 0 \in S
  OBVIOUS
<1>2. ASSUME NEW i \in Nat, i \in S
      PROVE  i + 1 \in S
  <2>. SUFFICES ASSUME i + 1 \in 1..n PROVE f[i + 1] = g[i + 1]
    OBVIOUS
  <2>0. i + 1 \in 1..n /\ (i + 1) - 1 = i
    OBVIOUS
  <2>1. /\ f[i + 1] = IF i + 1 = 1 THEN q[i + 1] ELSE f[i] \o q[i + 1]
        /\ g[i + 1] = IF i + 1 = 1 THEN q[i + 1] ELSE g[i] \o q[i + 1]
    BY <2>0 DEF Flattens
  <2>2. i + 1 # 1 => f[i] = g[i]
    BY <1>2
  <2>. QED
    BY <2>1, <2>2
<1>. HIDE DEF S
<1>3. \A i \in Nat : i \in S
  BY <1>1, <1>2, NatSetInduction
<1>4. \A i \in 1..n : f[i] = g[i]
  BY <1>3 DEF S
<1>5. /\ f = [i \in DOMAIN f |-> f[i]] /\ DOMAIN f = 1..n
      /\ g = [i \in DOMAIN g |-> g[i]] /\ DOMAIN g = 1..n
  BY DEF Flattens
<1>. QED
  BY <1>4, <1>5

(* ... and one at least, of sequences. *)
LEMMA FlattenExists ==
  ASSUME NEW B, NEW q, NEW k \in Nat, \A i \in 1..k : q[i] \in Seq(B)
  PROVE  \E f : Flattens(f, q, k) /\ f \in [1..k -> Seq(B)]
<1>. DEFINE S == {n \in Nat : n <= k => \E f : Flattens(f, q, n) /\ f \in [1..n -> Seq(B)]}
<1>1. 0 \in S
  <2>. DEFINE f == [i \in 1..0 |-> IF i = 1 THEN q[i] ELSE <<>>]
  <2>1. Flattens(f, q, 0) /\ f \in [1..0 -> Seq(B)]
    BY DEF Flattens
  <2>. QED
    BY <2>1
<1>2. ASSUME NEW n \in Nat, n \in S
      PROVE  n + 1 \in S
  <2>. SUFFICES ASSUME n + 1 <= k
                PROVE  \E f : Flattens(f, q, n + 1) /\ f \in [1..(n + 1) -> Seq(B)]
    OBVIOUS
  <2>1. PICK f : Flattens(f, q, n) /\ f \in [1..n -> Seq(B)]
    BY <1>2
  <2>. DEFINE g == [i \in 1..(n + 1) |-> IF i <= n THEN f[i]
                                       ELSE IF n = 0 THEN q[i] ELSE f[n] \o q[i]]
  <2>2. ASSUME NEW i \in 1..(n + 1)
        PROVE  /\ g[i] = IF i = 1 THEN q[i] ELSE g[i - 1] \o q[i]
               /\ g[i] \in Seq(B)
    <3>0. q[i] \in Seq(B)
      OBVIOUS
    <3>1. CASE i <= n
      <4>1. i \in 1..n /\ g[i] = f[i]
        BY <3>1
      <4>2. f[i] = IF i = 1 THEN q[i] ELSE f[i - 1] \o q[i]
        BY <4>1, <2>1 DEF Flattens
      <4>3. i # 1 => g[i - 1] = f[i - 1]
        BY <3>1
      <4>4. f[i] \in Seq(B)
        BY <2>1, <4>1
      <4>. HIDE DEF g
      <4>. QED
        BY <4>1, <4>2, <4>3, <4>4
    <3>2. CASE ~(i <= n)
      <4>1. i = n + 1 /\ i - 1 = n
        BY <3>2
      <4>2. g[i] = IF n = 0 THEN q[i] ELSE f[n] \o q[i]
        BY <3>2
      <4>3. n # 0 => g[n] = f[n] /\ f[n] \in Seq(B)
        BY <2>1
      <4>. HIDE DEF g
      <4>4. g[i] = IF i = 1 THEN q[i] ELSE g[i - 1] \o q[i]
        BY <4>1, <4>2, <4>3
      <4>5. g[i] \in Seq(B)
        BY <3>0, <4>2, <4>3
      <4>. QED
        BY <4>4, <4>5
    <3>. QED
      BY <3>1, <3>2
  <2>3. g = [i \in 1..(n + 1) |-> g[i]] /\ DOMAIN g = 1..(n + 1)
    OBVIOUS
  <2>. HIDE DEF g
  <2>4. Flattens(g, q, n + 1)
    BY <2>2, <2>3 DEF Flattens
  <2>5. g \in [1..(n + 1) -> Seq(B)]
    BY <2>2, <2>3
  <2>. QED
    BY <2>4, <2>5
<1>. HIDE DEF S
<1>3. k \in S
  BY <1>1, <1>2, NatSetInduction
<1>. QED
  BY <1>3 DEF S

(* FlattenSeq ends with it. *)
LEMMA FlattenIs ==
  ASSUME NEW B, NEW q \in Seq(Seq(B)), Len(q) # 0
  PROVE  \E f : /\ Flattens(f, q, Len(q)) /\ f \in [1..Len(q) -> Seq(B)]
                /\ FlattenSeq(q) = f[Len(q)]
<1>. DEFINE f == CHOOSE f : Flattens(f, q, Len(q))
<1>0. Len(q) \in Nat /\ Len(q) <= Len(q) /\ \A i \in 1..Len(q) : q[i] \in Seq(B)
  OBVIOUS
<1>1. \E g : Flattens(g, q, Len(q)) /\ g \in [1..Len(q) -> Seq(B)]
  BY <1>0, FlattenExists
<1>2. PICK g : Flattens(g, q, Len(q)) /\ g \in [1..Len(q) -> Seq(B)]
  BY <1>1
<1>3. Flattens(f, q, Len(q))
  BY <1>1
<1>4. FlattenSeq(q) = f[Len(q)]
  BY DEF FlattenSeq, Flattens
<1>. HIDE DEF f
<1>5. f = g
  BY <1>0, <1>2, <1>3, FlattenUnique
<1>. QED
  BY <1>2, <1>4, <1>5

(* One more sequence comes at the end. *)
LEMMA FlattenAppend ==
  ASSUME NEW B, NEW q \in Seq(Seq(B)), NEW x \in Seq(B)
  PROVE  /\ FlattenSeq(q) \in Seq(B)
         /\ FlattenSeq(Append(q, x)) = FlattenSeq(q) \o x
<1>. DEFINE n == Len(q)
            r == Append(q, x)
<1>0. /\ n \in Nat /\ r \in Seq(Seq(B)) /\ Len(r) = n + 1 /\ r[n + 1] = x
      /\ \A i \in 1..n : r[i] = q[i]
  OBVIOUS
<1>. HIDE DEF r
<1>1. PICK g : /\ Flattens(g, r, n + 1) /\ g \in [1..(n + 1) -> Seq(B)]
               /\ FlattenSeq(r) = g[n + 1]
  <2>1. Len(r) # 0
    BY <1>0
  <2>. QED
    BY <1>0, <2>1, FlattenIs
<1>2. g[n + 1] = IF n + 1 = 1 THEN r[n + 1] ELSE g[n] \o r[n + 1]
  <2>1. n + 1 \in 1..(n + 1) /\ (n + 1) - 1 = n
    BY <1>0
  <2>. QED
    BY <1>1, <2>1 DEF Flattens
<1>3. CASE n = 0
  <2>1. q = <<>> /\ FlattenSeq(q) = <<>>
    BY <1>3 DEF FlattenSeq
  <2>2. FlattenSeq(r) = x /\ q \o x = x
    BY <1>0, <1>1, <1>2, <1>3, <2>1
  <2>3. <<>> \in Seq(B)
    OBVIOUS
  <2>4. FlattenSeq(q) \in Seq(B)
    BY <2>1, <2>3, Zenon
  <2>. QED
    BY <2>1, <2>2, <2>4 DEF r
<1>4. CASE n # 0
  <2>1. PICK f : /\ Flattens(f, q, n) /\ f \in [1..n -> Seq(B)]
                 /\ FlattenSeq(q) = f[n]
    BY <1>4, FlattenIs
  <2>2. f[n] = g[n]
    <3>. DEFINE h == [i \in 1..n |-> g[i]]
    <3>1. ASSUME NEW i \in 1..n
          PROVE  h[i] = IF i = 1 THEN q[i] ELSE h[i - 1] \o q[i]
      <4>1. i \in 1..(n + 1) /\ r[i] = q[i] /\ (i # 1 => i - 1 \in 1..n)
        BY <1>0
      <4>2. g[i] = IF i = 1 THEN q[i] ELSE g[i - 1] \o q[i]
        BY <1>1, <4>1 DEF Flattens
      <4>. QED
        BY <4>1, <4>2
    <3>2. h = [i \in 1..n |-> h[i]]
      OBVIOUS
    <3>3. n \in 1..n /\ h[n] = g[n]
      BY <1>0, <1>4
    <3>. HIDE DEF h, n
    <3>4. Flattens(h, q, n)
      BY <3>1, <3>2 DEF Flattens
    <3>5. h = f
      BY <1>0, <2>1, <3>4, FlattenUnique
    <3>. QED
      BY <3>3, <3>5
  <2>3. n \in 1..n /\ n + 1 # 1
    BY <1>0, <1>4
  <2>. QED
    BY <1>0, <1>1, <1>2, <2>1, <2>2, <2>3 DEF r
<1>. QED
  BY <1>3, <1>4

-----------------------------------------------------------------------------
(* SumFunctionOnSet *)

(* h is what SumFunctionOnSet computes for the subsets of S that have at *)
(* most n elements.                                                      *)
Some(s) == CHOOSE x \in s : TRUE
UpTo(S, n) == {s \in SUBSET S : Cardinality(s) <= n}
Sums(h, fun, S, n) ==
  h = [s \in UpTo(S, n) |-> IF s = {} THEN 0 ELSE fun[Some(s)] + h[s \ {Some(s)}]]

(* A subset without one element of it. *)
LEMMA OneLess ==
  ASSUME NEW S, IsFiniteSet(S), NEW s \in SUBSET S, NEW x \in s
  PROVE  /\ s \ {x} \in SUBSET S /\ Cardinality(s) \in Nat /\ Cardinality(s) # 0
         /\ Cardinality(s \ {x}) = Cardinality(s) - 1
<1>1. IsFiniteSet(s)
  BY FS_Subset
<1>. QED
  BY <1>1, FS_RemoveElement, FS_CardinalityType, FS_EmptySet

(* CHOOSE takes an element. *)
LEMMA SomeIn == ASSUME NEW s, s # {} PROVE Some(s) \in s
BY DEF Some

(* Such a function exists. *)
LEMMA SumExists ==
  ASSUME NEW S, IsFiniteSet(S), NEW fun, NEW k \in Nat
  PROVE  \E h : Sums(h, fun, S, k)
<1>. DEFINE T == {n \in Nat : \E h : Sums(h, fun, S, n)}
<1>1. 0 \in T
  <2>. DEFINE h == [s \in UpTo(S, 0) |-> 0]
  <2>1. ASSUME NEW s \in UpTo(S, 0) PROVE s = {}
    <3>1. IsFiniteSet(s) /\ Cardinality(s) <= 0 /\ Cardinality(s) \in Nat
      BY FS_Subset, FS_CardinalityType DEF UpTo
    <3>. QED
      BY <3>1, FS_EmptySet
  <2>2. Sums(h, fun, S, 0)
    BY <2>1 DEF Sums
  <2>. QED
    BY <2>2
<1>2. ASSUME NEW n \in Nat, n \in T
      PROVE  n + 1 \in T
  <2>1. PICK h : Sums(h, fun, S, n)
    BY <1>2
  <2>. DEFINE g == [s \in UpTo(S, n + 1) |->
                     IF s = {} THEN 0 ELSE fun[Some(s)] + h[s \ {Some(s)}]]
  <2>2. ASSUME NEW s \in UpTo(S, n) PROVE s \in UpTo(S, n + 1) /\ h[s] = g[s]
    <3>1. s \in SUBSET S /\ Cardinality(s) <= n /\ Cardinality(s) \in Nat
      BY FS_Subset, FS_CardinalityType DEF UpTo
    <3>2. s \in UpTo(S, n + 1)
      BY <3>1 DEF UpTo
    <3>. QED
      BY <3>2, <2>1 DEF Sums
  <2>3. ASSUME NEW s \in UpTo(S, n + 1), s # {}
        PROVE  s \ {Some(s)} \in UpTo(S, n)
    <3>1. s \in SUBSET S /\ Cardinality(s) <= n + 1 /\ Some(s) \in s
      BY <2>3, SomeIn DEF UpTo
    <3>. QED
      BY <3>1, OneLess DEF UpTo
  <2>4. g = [s \in UpTo(S, n + 1) |->
              IF s = {} THEN 0 ELSE fun[Some(s)] + g[s \ {Some(s)}]]
    <3>. HIDE DEF g
    <3>1. \A s \in UpTo(S, n + 1) : s # {} => h[s \ {Some(s)}] = g[s \ {Some(s)}]
      BY <2>2, <2>3
    <3>. QED
      BY <3>1, Zenon DEF g
  <2>. HIDE DEF g
  <2>5. Sums(g, fun, S, n + 1)
    BY <2>4 DEF Sums
  <2>. QED
    BY <2>5
<1>. HIDE DEF T
<1>3. k \in T
  BY <1>1, <1>2, NatSetInduction
<1>. QED
  BY <1>3 DEF T

(* The sum does not depend on which element is taken first. *)
LEMMA SumTakes ==
  ASSUME NEW S, IsFiniteSet(S), NEW fun, \A x \in S : fun[x] \in Int,
         NEW k \in Nat, NEW h, Sums(h, fun, S, k)
  PROVE  \A s \in UpTo(S, k) :
           /\ h[s] \in Int
           /\ \A x \in s : s \ {x} \in UpTo(S, k) /\ h[s] = fun[x] + h[s \ {x}]
<1>. DEFINE Good(s) == /\ h[s] \in Int
                       /\ \A x \in s : s \ {x} \in UpTo(S, k) /\ h[s] = fun[x] + h[s \ {x}]
            T == {n \in Nat : \A s \in UpTo(S, k) : Cardinality(s) <= n => Good(s)}
<1>0. \A s \in UpTo(S, k) : /\ s \in SUBSET S /\ IsFiniteSet(s) /\ Cardinality(s) <= k
                            /\ Cardinality(s) \in Nat /\ (Cardinality(s) = 0 <=> s = {})
  BY FS_Subset, FS_CardinalityType, FS_EmptySet DEF UpTo
<1>1. \A s \in UpTo(S, k) :
        h[s] = IF s = {} THEN 0 ELSE fun[Some(s)] + h[s \ {Some(s)}]
  BY DEF Sums
<1>2. ASSUME NEW s \in UpTo(S, k), NEW x \in s
      PROVE  /\ s \ {x} \in UpTo(S, k) /\ Cardinality(s \ {x}) = Cardinality(s) - 1
             /\ x \in S
  <2>1. s \in SUBSET S /\ Cardinality(s) <= k
    BY <1>0
  <2>2. /\ s \ {x} \in SUBSET S /\ Cardinality(s) \in Nat
        /\ Cardinality(s \ {x}) = Cardinality(s) - 1
    BY <2>1, OneLess
  <2>. QED
    BY <2>1, <2>2 DEF UpTo
<1>3. 0 \in T
  <2>. SUFFICES ASSUME NEW s \in UpTo(S, k), Cardinality(s) <= 0 PROVE Good(s)
    OBVIOUS
  <2>1. s = {}
    BY <1>0
  <2>. QED
    BY <2>1, <1>1
<1>4. ASSUME NEW n \in Nat, n \in T
      PROVE  n + 1 \in T
  <2>. SUFFICES ASSUME NEW s \in UpTo(S, k), Cardinality(s) <= n + 1 PROVE Good(s)
    OBVIOUS
  <2>1. CASE s = {}
    BY <2>1, <1>1
  <2>2. CASE s # {}
    <3>. DEFINE y == Some(s)
    <3>1. y \in s
      BY <2>2, SomeIn
    <3>. HIDE DEF y
    <3>2. \A x \in s : Good(s \ {x})
      <4>. SUFFICES ASSUME NEW x \in s PROVE Good(s \ {x})
        OBVIOUS
      <4>1. s \ {x} \in UpTo(S, k) /\ Cardinality(s \ {x}) = Cardinality(s) - 1
        BY <1>2
      <4>2. Cardinality(s) \in Nat
        BY <1>0
      <4>3. Cardinality(s \ {x}) <= n
        BY <4>1, <4>2
      <4>. HIDE DEF Good
      <4>. QED
        BY <4>1, <4>3, <1>4
    <3>3. h[s] = fun[y] + h[s \ {y}]
      BY <1>1, <2>2 DEF y
    <3>4. h[s] \in Int
      <4>1. h[s \ {y}] \in Int /\ fun[y] \in Int
        BY <3>1, <3>2, <1>2
      <4>. QED
        BY <3>3, <4>1
    <3>5. ASSUME NEW x \in s PROVE h[s] = fun[x] + h[s \ {x}]
      <4>1. CASE x = y
        BY <4>1, <3>3
      <4>2. CASE x # y
        <5>1. x \in s \ {y} /\ y \in s \ {x}
          BY <4>2, <3>1
        <5>2. h[s \ {y}] = fun[x] + h[(s \ {y}) \ {x}]
          BY <3>1, <3>2, <5>1
        <5>3. h[s \ {x}] = fun[y] + h[(s \ {x}) \ {y}]
          BY <3>2, <5>1
        <5>4. (s \ {y}) \ {x} = (s \ {x}) \ {y}
          OBVIOUS
        <5>5. (s \ {x}) \ {y} \in UpTo(S, k)
          BY <3>2, <5>1
        <5>6. Cardinality((s \ {x}) \ {y}) <= n
          <6>1. s \ {x} \in UpTo(S, k) /\ Cardinality(s \ {x}) = Cardinality(s) - 1
            BY <1>2
          <6>2. Cardinality((s \ {x}) \ {y}) = Cardinality(s \ {x}) - 1
            BY <6>1, <5>1, <1>2
          <6>3. Cardinality(s) \in Nat
            BY <1>0
          <6>. QED
            BY <6>1, <6>2, <6>3
        <5>7. h[(s \ {x}) \ {y}] \in Int
          BY <5>5, <5>6, <1>4
        <5>8. fun[x] \in Int /\ fun[y] \in Int
          BY <3>1, <1>2
        <5>. QED
          BY <3>3, <5>2, <5>3, <5>4, <5>7, <5>8
      <4>. QED
        BY <4>1, <4>2
    <3>. QED
      BY <3>4, <3>5, <1>2
  <2>. QED
    BY <2>1, <2>2
<1>. HIDE DEF T
<1>5. k \in T
  BY <1>3, <1>4, NatSetInduction
<1>. QED
  BY <1>0, <1>5 DEF T

(* Two sums of the same numbers, whatever the sets they are taken in. *)
LEMMA SumAgree ==
  ASSUME NEW S, IsFiniteSet(S), NEW f, NEW g, \A x \in S : f[x] = g[x],
         NEW h, Sums(h, f, S, Cardinality(S)),
         NEW U, IsFiniteSet(U), S \subseteq U,
         NEW i, Sums(i, g, U, Cardinality(U))
  PROVE  h[S] = i[S]
<1>. DEFINE T == {n \in Nat : \A s \in SUBSET S : Cardinality(s) <= n => h[s] = i[s]}
<1>1. ASSUME NEW s \in SUBSET S
      PROVE  /\ s \in UpTo(S, Cardinality(S)) /\ s \in UpTo(U, Cardinality(U))
             /\ Cardinality(s) \in Nat /\ (Cardinality(s) = 0 <=> s = {})
  <2>1. s \in SUBSET U
    OBVIOUS
  <2>2. /\ Cardinality(s) <= Cardinality(S) /\ Cardinality(s) <= Cardinality(U)
        /\ IsFiniteSet(s)
    BY <2>1, FS_Subset
  <2>. QED
    BY <2>1, <2>2, FS_CardinalityType, FS_EmptySet DEF UpTo
<1>2. ASSUME NEW s \in SUBSET S
      PROVE  /\ h[s] = IF s = {} THEN 0 ELSE f[Some(s)] + h[s \ {Some(s)}]
             /\ i[s] = IF s = {} THEN 0 ELSE g[Some(s)] + i[s \ {Some(s)}]
  BY <1>1 DEF Sums
<1>3. 0 \in T
  BY <1>1, <1>2
<1>4. ASSUME NEW n \in Nat, n \in T
      PROVE  n + 1 \in T
  <2>. SUFFICES ASSUME NEW s \in SUBSET S, Cardinality(s) <= n + 1 PROVE h[s] = i[s]
    OBVIOUS
  <2>1. CASE s = {}
    BY <2>1, <1>2
  <2>2. CASE s # {}
    <3>. DEFINE y == Some(s)
    <3>1. y \in s
      BY <2>2, SomeIn
    <3>2. h[s] = f[y] + h[s \ {y}] /\ i[s] = g[y] + i[s \ {y}]
      BY <1>2, <2>2
    <3>. HIDE DEF y
    <3>3. s \ {y} \in SUBSET S /\ Cardinality(s \ {y}) <= n
      BY <3>1, OneLess, <1>1
    <3>4. f[y] = g[y]
      BY <3>1
    <3>5. h[s \ {y}] = i[s \ {y}]
      BY <3>3, <1>4
    <3>. QED
      BY <3>2, <3>4, <3>5
  <2>. QED
    BY <2>1, <2>2
<1>. HIDE DEF T
<1>5. Cardinality(S) \in T
  BY <1>3, <1>4, NatSetInduction, FS_CardinalityType
<1>6. S \in SUBSET S /\ Cardinality(S) <= Cardinality(S)
  BY FS_CardinalityType
<1>. QED
  BY <1>5, <1>6 DEF T

(* SumFunctionOnSet is its value for the whole set. *)
LEMMA SumIs ==
  ASSUME NEW S, IsFiniteSet(S), NEW fun
  PROVE  \E h : Sums(h, fun, S, Cardinality(S)) /\ SumFunctionOnSet(fun, S) = h[S]
<1>. DEFINE h == CHOOSE h : Sums(h, fun, S, Cardinality(S))
<1>1. UpTo(S, Cardinality(S)) = SUBSET S
  BY FS_Subset DEF UpTo
<1>2. Sums(h, fun, S, Cardinality(S))
  BY SumExists, FS_CardinalityType
<1>3. SumFunctionOnSet(fun, S) = h[S]
  BY <1>1 DEF SumFunctionOnSet, FoldFunctionOnSet, MapThenFoldSet, Sums, Some
<1>. HIDE DEF h
<1>. QED
  BY <1>2, <1>3

(* A sum of nothing is zero. *)
LEMMA SumOfNone == ASSUME NEW fun PROVE SumFunctionOnSet(fun, {}) = 0
<1>0. IsFiniteSet({}) /\ Cardinality({}) = 0
  BY FS_EmptySet
<1>1. PICK h : Sums(h, fun, {}, 0) /\ SumFunctionOnSet(fun, {}) = h[{}]
  BY <1>0, SumIs
<1>2. {} \in UpTo({}, 0)
  BY <1>0 DEF UpTo
<1>. QED
  BY <1>1, <1>2 DEF Sums

(* One element more or less. *)
LEMMA SumTake ==
  ASSUME NEW S, IsFiniteSet(S), NEW fun, \A x \in S : fun[x] \in Int, NEW x \in S
  PROVE  SumFunctionOnSet(fun, S) = fun[x] + SumFunctionOnSet(fun, S \ {x})
<1>. DEFINE U == S \ {x}
<1>0. IsFiniteSet(U) /\ U \subseteq S /\ Cardinality(S) \in Nat
  BY FS_RemoveElement, FS_CardinalityType
<1>1. PICK h : Sums(h, fun, S, Cardinality(S)) /\ SumFunctionOnSet(fun, S) = h[S]
  BY SumIs
<1>2. PICK i : Sums(i, fun, U, Cardinality(U)) /\ SumFunctionOnSet(fun, U) = i[U]
  BY <1>0, SumIs
<1>3. S \in UpTo(S, Cardinality(S))
  BY <1>0 DEF UpTo
<1>4. h[S] = fun[x] + h[U]
  BY <1>0, <1>1, <1>3, SumTakes
<1>5. i[U] = h[U]
  <2>1. \A y \in U : fun[y] = fun[y]
    OBVIOUS
  <2>. HIDE DEF U
  <2>. QED
    BY <1>0, <1>1, <1>2, <2>1, SumAgree
<1>. QED
  BY <1>1, <1>2, <1>4, <1>5

(* A sum of integers is one. *)
LEMMA SumType ==
  ASSUME NEW S, IsFiniteSet(S), NEW fun, \A x \in S : fun[x] \in Int
  PROVE  SumFunctionOnSet(fun, S) \in Int
<1>0. Cardinality(S) \in Nat
  BY FS_CardinalityType
<1>1. PICK h : Sums(h, fun, S, Cardinality(S)) /\ SumFunctionOnSet(fun, S) = h[S]
  BY SumIs
<1>2. S \in UpTo(S, Cardinality(S))
  BY <1>0 DEF UpTo
<1>. QED
  BY <1>0, <1>1, <1>2, SumTakes

(* A sum depends on the numbers that are summed only. *)
LEMMA SumSame ==
  ASSUME NEW S, IsFiniteSet(S), NEW f, NEW g, \A x \in S : f[x] = g[x]
  PROVE  SumFunctionOnSet(f, S) = SumFunctionOnSet(g, S)
<1>1. PICK h : Sums(h, f, S, Cardinality(S)) /\ SumFunctionOnSet(f, S) = h[S]
  BY SumIs
<1>2. PICK i : Sums(i, g, S, Cardinality(S)) /\ SumFunctionOnSet(g, S) = i[S]
  BY SumIs
<1>. QED
  BY <1>1, <1>2, SumAgree

(* Leaving numbers out makes a sum of natural numbers no greater. *)
LEMMA SumGrows ==
  ASSUME NEW S, IsFiniteSet(S), NEW fun, \A x \in S : fun[x] \in Nat, NEW T \in SUBSET S
  PROVE  SumFunctionOnSet(fun, T) <= SumFunctionOnSet(fun, S)
<1>. DEFINE Sum(s) == SumFunctionOnSet(fun, s)
            Least(s) == Sum(s) <= Sum(S)
            N == {n \in Nat : \A s \in SUBSET S : Cardinality(S \ s) = n => Least(s)}
<1>1. ASSUME NEW s \in SUBSET S
      PROVE  /\ IsFiniteSet(s) /\ IsFiniteSet(S \ s) /\ Cardinality(S \ s) \in Nat
             /\ Sum(s) \in Int /\ Sum(S) \in Int
  <2>1. IsFiniteSet(s) /\ IsFiniteSet(S \ s)
    BY FS_Subset
  <2>2. (\A x \in s : fun[x] \in Int) /\ (\A x \in S : fun[x] \in Int)
    OBVIOUS
  <2>. QED
    BY <2>1, <2>2, FS_CardinalityType, SumType
<1>2. 0 \in N
  <2>. SUFFICES ASSUME NEW s \in SUBSET S, Cardinality(S \ s) = 0 PROVE Least(s)
    OBVIOUS
  <2>1. S \ s = {}
    BY <1>1, FS_EmptySet
  <2>2. s = S
    BY <2>1
  <2>. QED
    BY <1>1, <2>2
<1>3. ASSUME NEW n \in Nat, n \in N PROVE n + 1 \in N
  <2>. SUFFICES ASSUME NEW s \in SUBSET S, Cardinality(S \ s) = n + 1 PROVE Least(s)
    OBVIOUS
  <2>0. Cardinality(S \ s) # 0
    OBVIOUS
  <2>1. PICK x \in S \ s : TRUE
    BY <1>1, <2>0, FS_EmptySet
  <2>. DEFINE r == s \cup {x}
  <2>2. r \in SUBSET S /\ x \in r /\ r \ {x} = s /\ S \ r = (S \ s) \ {x}
    BY <2>1
  <2>3. Cardinality(S \ r) = n
    <3>1. Cardinality((S \ s) \ {x}) = Cardinality(S \ s) - 1
      BY <1>1, <2>1, FS_RemoveElement
    <3>2. Cardinality(S \ r) = (n + 1) - 1
      BY <2>2, <3>1, Zenon
    <3>. QED
      BY <3>2
  <2>4. Sum(r) <= Sum(S)
    BY <1>3, <2>2, <2>3
  <2>5. Sum(r) = fun[x] + Sum(s)
    <3>1. IsFiniteSet(r)
      BY <1>1, <2>2
    <3>2. \A y \in r : fun[y] \in Int
      BY <2>2
    <3>. QED
      BY <2>2, <3>1, <3>2, SumTake
  <2>6. Sum(s) \in Int /\ Sum(r) \in Int /\ Sum(S) \in Int /\ fun[x] \in Nat
    BY <1>1, <2>1, <2>2
  <2>. HIDE DEF Sum, r
  <2>. QED
    BY <2>4, <2>5, <2>6
<1>. HIDE DEF N
<1>4. \A n \in Nat : n \in N
  BY <1>2, <1>3, NatSetInduction
<1>5. \A s \in SUBSET S : Least(s)
  BY <1>1, <1>4 DEF N
<1>. QED
  BY <1>5

(* A sum of natural numbers is one. *)
LEMMA SumIsNat ==
  ASSUME NEW S, IsFiniteSet(S), NEW fun, \A x \in S : fun[x] \in Nat
  PROVE  SumFunctionOnSet(fun, S) \in Nat
<1>1. SumFunctionOnSet(fun, S) \in Int
  <2>1. \A x \in S : fun[x] \in Int
    OBVIOUS
  <2>. QED
    BY <2>1, SumType
<1>2. SumFunctionOnSet(fun, {}) <= SumFunctionOnSet(fun, S)
  <2>1. {} \in SUBSET S
    OBVIOUS
  <2>. QED
    BY <2>1, SumGrows
<1>. QED
  BY <1>1, <1>2, SumOfNone

-----------------------------------------------------------------------------
(* FoldLeft: one element after the other, from the left.  The community      *)
(* module says so of the set of positions, of which it takes the greatest    *)
(* last; F is what is done at a position to what has been made so far.       *)

Folded(h, F, base, n) ==
  h = [s \in SUBSET (1..n) |-> IF s = {} THEN base ELSE F[Max(s)][h[s \ {Max(s)}]]]

(* All but the greatest of some positions. *)
LEMMA AllButGreatest ==
  ASSUME NEW n \in Nat, NEW s \in SUBSET (1..(n + 1)), s # {}
  PROVE  Max(s) \in s /\ s \ {Max(s)} \in SUBSET (1..n)
<1>1. Max(s) \in s /\ \A y \in s : y <= Max(s)
  <2>1. n + 1 \in Nat /\ s \subseteq 0..(n + 1)
    OBVIOUS
  <2>. QED
    BY <2>1, MaxOfPositions
<1>. DEFINE k == Max(s)
<1>2. k \in 1..(n + 1) /\ k \in s /\ \A y \in s : y <= k
  BY <1>1
<1>. HIDE DEF k
<1>3. s \ {k} \subseteq 1..n
  <2>. SUFFICES ASSUME NEW y \in s, y # k PROVE y \in 1..n
    OBVIOUS
  <2>1. y \in 1..(n + 1) /\ y <= k
    BY <1>2
  <2>. QED
    BY <1>2, <2>1
<1>. QED
  BY <1>2, <1>3 DEF k

(* There is such a fold, whatever is done at each position. *)
LEMMA FoldExists ==
  ASSUME NEW n \in Nat, NEW A, NEW F \in [1..n -> [A -> A]], NEW base \in A
  PROVE  \E h : Folded(h, F, base, n) /\ \A s \in SUBSET (1..n) : h[s] \in A
<1>. DEFINE Good(h, m) ==
              /\ Folded(h, F, base, m)
              /\ \A s \in SUBSET (1..m) : h[s] \in A
            T == {m \in Nat : m <= n => \E h : Good(h, m)}
<1>1. 0 \in T
  <2>. DEFINE h == [s \in SUBSET (1..0) |-> base]
  <2>1. \A s \in SUBSET (1..0) : s = {}
    OBVIOUS
  <2>2. Good(h, 0)
    BY <2>1 DEF Folded
  <2>. QED
    BY <2>2
<1>2. ASSUME NEW m \in Nat, m \in T PROVE m + 1 \in T
  <2>. SUFFICES ASSUME m + 1 <= n PROVE \E h : Good(h, m + 1)
    OBVIOUS
  <2>1. PICK h : Good(h, m)
    BY <1>2
  <2>. DEFINE g == [s \in SUBSET (1..(m + 1)) |->
                     IF s = {} THEN base ELSE F[Max(s)][h[s \ {Max(s)}]]]
  <2>2. ASSUME NEW s \in SUBSET (1..m) PROVE s \in SUBSET (1..(m + 1)) /\ h[s] = g[s]
    <3>1. s \in SUBSET (1..(m + 1))
      OBVIOUS
    <3>2. h[s] = IF s = {} THEN base ELSE F[Max(s)][h[s \ {Max(s)}]]
      BY <2>1 DEF Folded
    <3>. QED
      BY <3>1, <3>2
  <2>3. ASSUME NEW s \in SUBSET (1..(m + 1)), s # {}
        PROVE  s \ {Max(s)} \in SUBSET (1..m) /\ Max(s) \in 1..n
    <3>1. Max(s) \in s /\ s \ {Max(s)} \in SUBSET (1..m)
      BY <2>3, AllButGreatest
    <3>2. s \subseteq 1..n
      OBVIOUS
    <3>. QED
      BY <3>1, <3>2
  <2>4. \A s \in SUBSET (1..(m + 1)) :
          /\ g[s] = IF s = {} THEN base ELSE F[Max(s)][g[s \ {Max(s)}]]
          /\ g[s] \in A
    <3>. SUFFICES ASSUME NEW s \in SUBSET (1..(m + 1))
                  PROVE  /\ g[s] = IF s = {} THEN base ELSE F[Max(s)][g[s \ {Max(s)}]]
                         /\ g[s] \in A
      OBVIOUS
    <3>1. g[s] = IF s = {} THEN base ELSE F[Max(s)][h[s \ {Max(s)}]]
      OBVIOUS
    <3>. HIDE DEF g
    <3>2. CASE s = {}
      BY <3>1, <3>2
    <3>3. CASE s # {}
      <4>. DEFINE k == Max(s)
                  r == s \ {Max(s)}
      <4>1. r \in SUBSET (1..m) /\ k \in 1..n
        BY <2>3, <3>3
      <4>2. h[r] = g[r] /\ h[r] \in A
        BY <2>1, <2>2, <4>1
      <4>. HIDE DEF k, r
      <4>3. F[k][h[r]] \in A
        BY <4>1, <4>2
      <4>. QED
        BY <3>1, <3>3, <4>2, <4>3 DEF k, r
    <3>. QED
      BY <3>2, <3>3
  <2>5. Folded(g, F, base, m + 1)
    <3>1. g = [s \in SUBSET (1..(m + 1)) |-> g[s]]
      OBVIOUS
    <3>. HIDE DEF g
    <3>. QED
      BY <2>4, <3>1, Zenon DEF Folded
  <2>. HIDE DEF g
  <2>. QED
    BY <2>4, <2>5
<1>. HIDE DEF T
<1>3. n \in T
  BY <1>1, <1>2, NatSetInduction
<1>. QED
  BY <1>3 DEF T

(* Of the first positions the last is the greatest, and the others come    *)
(* before it.                                                              *)
LEMMA LastPosition ==
  ASSUME NEW n \in Nat, NEW k \in 0..(n - 1)
  PROVE  /\ 1..(k + 1) \in SUBSET (1..n) /\ 1..(k + 1) # {}
         /\ Max(1..(k + 1)) = k + 1 /\ (1..(k + 1)) \ {k + 1} = 1..k
<1>. DEFINE s == 1..(k + 1)
<1>1. s \in SUBSET (1..n) /\ s # {} /\ k + 1 \in s /\ \A y \in s : y \in 1..(k + 1)
  OBVIOUS
<1>0. s \ {k + 1} = 1..k
  OBVIOUS
<1>2. Max(s) = k + 1
  <2>1. Max(s) \in s /\ \A y \in s : y <= Max(s)
    <3>1. s \subseteq 0..(k + 1) /\ k + 1 \in Nat
      OBVIOUS
    <3>. HIDE DEF s
    <3>. QED
      BY <1>1, <3>1, MaxOfPositions
  <2>2. k + 1 <= Max(s) /\ Max(s) \in 1..(k + 1)
    BY <1>1, <2>1
  <2>. QED
    BY <2>2
<1>. HIDE DEF s
<1>. QED
  BY <1>0, <1>1, <1>2 DEF s

(* A list without repetition is as long as the set of its elements. *)
LEMMA DistinctListed ==
  ASSUME NEW S, NEW f \in Seq(S), IsInjective(f)
  PROVE  Cardinality(Range(f)) = Len(f)
<1>. DEFINE n == Len(f)
            T == Range(f)
<1>1. n \in Nat /\ f \in [1..n -> S] /\ DOMAIN f = 1..n
  OBVIOUS
<1>2. f \in [1..n -> T] /\ \A x \in T : \E i \in 1..n : f[i] = x
  BY <1>1 DEF Range
<1>3. f \in Injection(1..n, T) /\ f \in Surjection(1..n, T)
  BY <1>2 DEF Injection, Surjection
<1>4. IsFiniteSet(1..n) /\ Cardinality(1..n) = n
  BY <1>1, FS_Interval
<1>. HIDE DEF T, n
<1>. QED
  BY <1>3, <1>4, FS_Surjection DEF T, n

-----------------------------------------------------------------------------
(* Sequences of few elements. *)

(* Sequences are equal when they are as long and have the same elements. *)
LEMMA SameSequence ==
  ASSUME NEW S, NEW s \in Seq(S), NEW t \in Seq(S), Len(s) = Len(t),
         \A i \in 1..Len(s) : s[i] = t[i]
  PROVE  s = t
OBVIOUS

(* A sequence with one element more. *)
LEMMA OneElementMore ==
  ASSUME NEW S, NEW s \in Seq(S), NEW x \in S, NEW t \in Seq(S),
         Len(t) = Len(s) + 1, \A i \in 1..Len(s) : t[i] = s[i], t[Len(s) + 1] = x
  PROVE  s \o <<x>> = t
<1>. DEFINE app == Append(s, x)
<1>1. s \o <<x>> = app
  OBVIOUS
<1>2. /\ app \in Seq(S) /\ Len(app) = Len(s) + 1 /\ app[Len(s) + 1] = x
      /\ \A i \in 1..Len(s) : app[i] = s[i]
      /\ Len(s) \in Nat
  OBVIOUS
<1>. HIDE DEF app
<1>3. ASSUME NEW i \in 1..Len(app) PROVE app[i] = t[i]
  <2>1. i \in 1..Len(s) \/ i = Len(s) + 1
    BY <1>2
  <2>. QED
    BY <1>2, <2>1
<1>4. app = t
  BY <1>2, <1>3, SameSequence
<1>. QED
  BY <1>1, <1>4

(* Two elements and a third. *)
LEMMA TwoAndOne ==
  ASSUME NEW S, NEW a \in S, NEW b \in S, NEW c \in S
  PROVE  <<a, b>> \o <<c>> = <<a, b, c>>
<1>. DEFINE two == <<a, b>>
            three == <<a, b, c>>
<1>1. two \in Seq(S) /\ Len(two) = 2 /\ two[1] = a /\ two[2] = b
  OBVIOUS
<1>2. three \in Seq(S) /\ Len(three) = 3 /\ three[1] = a /\ three[2] = b /\ three[3] = c
  OBVIOUS
<1>. HIDE DEF two, three
<1>3. \A i \in 1..Len(two) : three[i] = two[i]
  <2>1. \A i \in 1..Len(two) : i = 1 \/ i = 2
    BY <1>1
  <2>. QED
    BY <1>1, <1>2, <2>1
<1>4. Len(three) = Len(two) + 1 /\ three[Len(two) + 1] = c
  BY <1>1, <1>2
<1>5. two \o <<c>> = three
  BY <1>1, <1>2, <1>3, <1>4, OneElementMore, Zenon
<1>. QED
  BY <1>5 DEF two, three

(* One element more in the range. *)
LEMMA RangeOfAppend ==
  ASSUME NEW S, NEW s \in Seq(S), NEW x \in S
  PROVE  /\ Append(s, x) \in Seq(S) /\ Range(Append(s, x)) = Range(s) \cup {x}
         /\ Append(s, x) # <<>>
<1>. DEFINE t == Append(s, x)
            n == Len(s)
<1>1. /\ t \in Seq(S) /\ n \in Nat /\ DOMAIN s = 1..n /\ DOMAIN t = 1..(n + 1)
      /\ t[n + 1] = x /\ \A i \in 1..n : t[i] = s[i]
  OBVIOUS
<1>2. t # <<>>
  <2>1. Len(t) = n + 1 /\ Len(<<>>) = 0
    OBVIOUS
  <2>. HIDE DEF t, n
  <2>. QED
    BY <1>1, <2>1
<1>. HIDE DEF t, n
<1>3. \A i \in 1..(n + 1) : i \in 1..n \/ i = n + 1
  BY <1>1
<1>4. \A i \in 1..n : i \in 1..(n + 1)
  BY <1>1
<1>5. n + 1 \in 1..(n + 1)
  BY <1>1
<1>6. Range(t) = Range(s) \cup {x}
  BY <1>1, <1>3, <1>4, <1>5 DEF Range
<1>. QED
  BY <1>1, <1>2, <1>6 DEF t
=============================================================================
