---------------------------- MODULE Codecs_proofs ----------------------------
(***************************************************************************)
(* What the codecs do, for every input: numbers in each of their forms,    *)
(* values of the old streams, items of Carbon, transactions of the old     *)
(* chain with those who sign them, and Carbon messages in their envelopes. *)
(*                                                                         *)
(* Nothing here is by an induction theorem of the library: those take a    *)
(* predicate as an operator, and no prover can instantiate it.  A claim    *)
(* about every number is a claim about the set of the numbers for which it *)
(* holds (SetInduction); a function defined by recursion is shown to exist *)
(* and to be unique (Recursion, RecursionUnique).                          *)
(*                                                                         *)
(* Bytes are compared by what they stand for: their Magnitude, their Value *)
(* in two's complement, and the word they fill up.  A reader is shown to   *)
(* give back what was written and to leave the bytes behind it; values one *)
(* after the other follow by induction on their number.                    *)
(***************************************************************************)
EXTENDS CodecSamples, SequenceTheorems, FiniteSetTheorems, WellFoundedInduction, TLAPS

-----------------------------------------------------------------------------
(* Recursion without an operator: a recursive function is the least there is. *)

\* Naturals below one another are well founded.
LEMMA LessIsWellFounded == IsWellFoundedOn({p \in Nat \X Nat : p[1] < p[2]}, Nat)
BY Zenon, NatLessThanWellFounded DEF OpToRel

\* A set of naturals that is not empty has a least element.
LEMMA LeastOf ==
  ASSUME NEW T \in SUBSET Nat, T # {}
  PROVE  \E x \in T : \A y \in T : x <= y
<1> DEFINE R == {p \in Nat \X Nat : p[1] < p[2]}
<1>1. PICK x \in T : \A y \in T : ~(<<y, x>> \in R)
  <2>1. IsWellFoundedOn(R, Nat)
    BY LessIsWellFounded
  <2> HIDE DEF R
  <2>. QED BY <2>1, WFMin
<1>2. \A y \in T : ~(y < x)
  BY <1>1
<1>. QED BY <1>2

\* Induction for a property that is a set.
LEMMA SetInduction ==
  ASSUME NEW T \in SUBSET Nat, 0 \in T, \A n \in T : n + 1 \in T
  PROVE  T = Nat
<1> SUFFICES ASSUME Nat \ T # {} PROVE FALSE
  OBVIOUS
<1>1. PICK x \in Nat \ T : \A y \in Nat \ T : x <= y
  BY LeastOf
<1>2. x # 0 /\ x - 1 \in Nat /\ ~(x <= x - 1)
  BY <1>1
<1>3. x - 1 \in T
  BY <1>1, <1>2
<1>4. (x - 1) + 1 = x
  BY <1>1
<1>. QED BY <1>1, <1>3, <1>4

\* f is recursive on L: b on the base B, else made by G from its value at p.
Recurs(f, L, B, b, p, G) == \A x \in L : f[x] = IF x \in B THEN b ELSE G[<<x, f[p[x]]>>]

\* Two functions by the same recursion agree where both are defined.
LEMMA RecursionUnique ==
  ASSUME NEW S, NEW m \in [S -> Nat], NEW p \in [S -> S], NEW B, NEW b, NEW G,
         NEW L \in SUBSET S, NEW M \in SUBSET S, NEW f, NEW g,
         \A x \in (L \cap M) \ B : p[x] \in L \cap M /\ m[p[x]] < m[x],
         Recurs(f, L, B, b, p, G), Recurs(g, M, B, b, p, G)
  PROVE  \A x \in L \cap M : f[x] = g[x]
<1> DEFINE T == {n \in Nat : \E x \in L \cap M : m[x] = n /\ f[x] # g[x]}
<1> SUFFICES ASSUME T # {} PROVE FALSE
  OBVIOUS
<1>1. PICK n \in T : \A k \in T : n <= k
  <2> HIDE DEF T
  <2>. QED BY LeastOf, T \in SUBSET Nat DEF T
<1>2. PICK x \in L \cap M : m[x] = n /\ f[x] # g[x]
  OBVIOUS
<1>3. x \notin B
  BY <1>2 DEF Recurs
<1>4. p[x] \in L \cap M /\ m[p[x]] < n /\ m[p[x]] \in Nat
  BY <1>2, <1>3
<1>5. ~(n <= m[p[x]])
  BY <1>4, <1>1
<1>6. f[p[x]] = g[p[x]]
  BY <1>4, <1>5, <1>1
<1>. QED BY <1>2, <1>3, <1>6 DEF Recurs

\* A function whose recursion lowers a measure exists.
LEMMA Recursion ==
  ASSUME NEW S, NEW V, NEW m \in [S -> Nat], NEW p \in [S -> S], NEW B, NEW b \in V,
         NEW G \in [S \X V -> V], \A x \in S \ B : m[p[x]] < m[x]
  PROVE  \E f \in [S -> V] : Recurs(f, S, B, b, p, G)
<1> DEFINE L(k) == {x \in S : m[x] < k}
           T == {k \in Nat : \E f \in [L(k) -> V] : Recurs(f, L(k), B, b, p, G)}
<1>0. \A k \in Nat : \A x \in L(k) \ B : p[x] \in L(k) /\ m[p[x]] < m[x]
  OBVIOUS
<1>1. 0 \in T
  <2>1. L(0) = {}
    OBVIOUS
  <2> DEFINE e == [x \in L(0) |-> b]
  <2>2. e \in [L(0) -> V] /\ Recurs(e, L(0), B, b, p, G)
    <3>1. e \in [L(0) -> V]
      OBVIOUS
    <3> HIDE DEF L, e
    <3>. QED BY <2>1, <3>1 DEF Recurs
  <2> HIDE DEF e
  <2>. QED BY <2>2
<1>2. ASSUME NEW k \in T PROVE k + 1 \in T
  <2>1. PICK f \in [L(k) -> V] : Recurs(f, L(k), B, b, p, G)
    OBVIOUS
  <2> DEFINE g == [x \in L(k + 1) |-> IF x \in B THEN b ELSE G[<<x, f[p[x]]>>]]
  <2>2. \A x \in L(k + 1) \ B : p[x] \in L(k) /\ p[x] \in L(k + 1)
    OBVIOUS
  <2>3. \A x \in L(k) : x \in L(k + 1) /\ g[x] = f[x]
    <3>1. \A x \in L(k) : x \in L(k + 1)
      OBVIOUS
    <3> HIDE DEF L
    <3>. QED BY <3>1, <2>1 DEF Recurs
  <2>3a. \A x \in L(k + 1) : x \in S
    OBVIOUS
  <2> HIDE DEF L
  <2>4. g \in [L(k + 1) -> V]
    <3>1. \A x \in L(k + 1) : (IF x \in B THEN b ELSE G[<<x, f[p[x]]>>]) \in V
      <4> SUFFICES ASSUME NEW x \in L(k + 1), x \notin B PROVE G[<<x, f[p[x]]>>] \in V
        OBVIOUS
      <4>1. f[p[x]] \in V
        BY <2>1, <2>2
      <4>. QED BY <4>1, <2>3a
    <3>. QED BY <3>1
  <2>5. Recurs(g, L(k + 1), B, b, p, G)
    <3> SUFFICES ASSUME NEW x \in L(k + 1)
                 PROVE  g[x] = IF x \in B THEN b ELSE G[<<x, g[p[x]]>>]
      BY DEF Recurs
    <3>1. x \notin B => g[p[x]] = f[p[x]]
      BY <2>2, <2>3
    <3>2. g[x] = IF x \in B THEN b ELSE G[<<x, f[p[x]]>>]
      OBVIOUS
    <3>. QED BY <3>1, <3>2
  <2> HIDE DEF g
  <2>. QED BY <2>4, <2>5
<1>3. T = Nat
  <2>1. T \in SUBSET Nat
    OBVIOUS
  <2> HIDE DEF T
  <2>. QED BY <1>1, <1>2, <2>1, SetInduction
<1> DEFINE At(k) == CHOOSE f \in [L(k) -> V] : Recurs(f, L(k), B, b, p, G)
<1>4. \A k \in Nat : At(k) \in [L(k) -> V] /\ Recurs(At(k), L(k), B, b, p, G)
  BY <1>3
<1>5. \A x \in S : m[x] + 1 \in Nat /\ x \in L(m[x] + 1)
  OBVIOUS
<1>6. \A k, j \in Nat : \A x \in L(k) \cap L(j) : At(k)[x] = At(j)[x]
  <2> SUFFICES ASSUME NEW k \in Nat, NEW j \in Nat
               PROVE \A x \in L(k) \cap L(j) : At(k)[x] = At(j)[x]
    OBVIOUS
  <2>0. L(k) \in SUBSET S /\ L(j) \in SUBSET S
    OBVIOUS
  <2>1. \A x \in (L(k) \cap L(j)) \ B : p[x] \in L(k) \cap L(j) /\ m[p[x]] < m[x]
    BY <1>0
  <2>2. Recurs(At(k), L(k), B, b, p, G) /\ Recurs(At(j), L(j), B, b, p, G)
    BY <1>4
  <2> HIDE DEF L, At
  <2>. QED BY <2>0, <2>1, <2>2, RecursionUnique
<1> DEFINE h == [x \in S |-> At(m[x] + 1)[x]]
<1>7. h \in [S -> V]
  <2>1. \A x \in S : At(m[x] + 1)[x] \in V
    <3> HIDE DEF L, At
    <3>. QED BY <1>4, <1>5
  <2> HIDE DEF At
  <2>. QED BY <2>1
<1>8. Recurs(h, S, B, b, p, G)
  <2> SUFFICES ASSUME NEW x \in S
               PROVE  h[x] = IF x \in B THEN b ELSE G[<<x, h[p[x]]>>]
    BY DEF Recurs
  <2> DEFINE k == m[x] + 1
             j == m[p[x]] + 1
  <2>1. k \in Nat /\ x \in L(k)
    BY <1>5
  <2>2. h[x] = At(k)[x]
    OBVIOUS
  <2>3. At(k)[x] = IF x \in B THEN b ELSE G[<<x, At(k)[p[x]]>>]
    <3> HIDE DEF L, At
    <3>. QED BY <1>4, <2>1 DEF Recurs
  <2>4. x \notin B => At(k)[p[x]] = h[p[x]]
    <3> SUFFICES ASSUME x \notin B PROVE At(k)[p[x]] = h[p[x]]
      OBVIOUS
    <3>1. p[x] \in S /\ j \in Nat /\ p[x] \in L(j)
      BY <1>5
    <3>2. p[x] \in L(k)
      BY <1>0, <2>1
    <3>3. h[p[x]] = At(j)[p[x]]
      BY <3>1
    <3> HIDE DEF L, At, h, k, j
    <3>. QED BY <1>6, <2>1, <3>1, <3>2, <3>3
  <2> HIDE DEF At, L, h, k
  <2>. QED BY <2>2, <2>3, <2>4, SMTT(30)
<1> HIDE DEF h
<1>. QED BY <1>7, <1>8

\* Power
LEMMA PowerDef ==
  /\ Power \in [Nat -> Nat \ {0}]
  /\ Power[0] = 1
  /\ \A n \in Nat : Power[n + 1] = Base * Power[n]
<1> DEFINE V == Nat \ {0}
           m == [n \in Nat |-> n]
           p == [n \in Nat |-> IF n = 0 THEN 0 ELSE n - 1]
           G == [x \in Nat \X V |-> Base * x[2]]
<1>1. \E f \in [Nat -> V] : Recurs(f, Nat, {0}, 1, p, G)
  <2>1. m \in [Nat -> Nat] /\ p \in [Nat -> Nat] /\ 1 \in V
    OBVIOUS
  <2>2. G \in [Nat \X V -> V]
    <3>1. \A v \in V : Base * v \in V
      BY NumbersAssumption
    <3> HIDE DEF V
    <3>. QED BY <3>1
  <2>3. \A x \in Nat \ {0} : m[p[x]] < m[x]
    OBVIOUS
  <2> HIDE DEF V, m, p, G
  <2>. QED BY <2>1, <2>2, <2>3, Recursion
<1>2. PICK f \in [Nat -> V] : Recurs(f, Nat, {0}, 1, p, G)
  BY <1>1
<1>3. \A n \in Nat : f[n] = IF n = 0 THEN 1 ELSE Base * f[n - 1]
  <2> SUFFICES ASSUME NEW n \in Nat PROVE f[n] = IF n = 0 THEN 1 ELSE Base * f[n - 1]
    OBVIOUS
  <2>1. f[n] = IF n \in {0} THEN 1 ELSE G[<<n, f[p[n]]>>]
    BY <1>2 DEF Recurs
  <2>2. n # 0 => p[n] = n - 1 /\ n - 1 \in Nat
    OBVIOUS
  <2>3. n # 0 => f[n - 1] \in V
    BY <2>2
  <2> HIDE DEF V
  <2>. QED BY <2>1, <2>2, <2>3
<1> DEFINE E(g) == [n \in Nat |-> IF n = 0 THEN 1 ELSE Base * g[n - 1]]
<1>4. f = E(f)
  BY <1>3
<1>5. Power = E(Power)
  <2>1. Power = CHOOSE g : g = E(g)
    BY DEF Power
  <2> HIDE DEF E
  <2>. QED BY <2>1, <1>4
<1>6. \A n \in Nat : Power[n] = IF n = 0 THEN 1 ELSE Base * Power[n - 1]
  BY <1>5
<1>7. \A x \in Nat : Power[x] = f[x]
  <2> DEFINE T == {n \in Nat : Power[n] = f[n]}
  <2>1. 0 \in T
    BY <1>3, <1>6
  <2>2. \A n \in T : n + 1 \in T
    <3> SUFFICES ASSUME NEW n \in T PROVE Power[n + 1] = f[n + 1]
      OBVIOUS
    <3>1. n + 1 \in Nat /\ n + 1 # 0 /\ (n + 1) - 1 = n /\ Power[n] = f[n]
      OBVIOUS
    <3>. QED BY <3>1, <1>3, <1>6
  <2>3. T = Nat
    <3>0. T \in SUBSET Nat
      OBVIOUS
    <3> HIDE DEF T
    <3>. QED BY <2>1, <2>2, <3>0, SetInduction
  <2>. QED BY <2>3
<1>8. Power \in [Nat -> V]
  <2>1. Power = [x \in Nat |-> Power[x]]
    <3> HIDE DEF E
    <3>1. DOMAIN E(Power) = Nat
      BY DEF E
    <3>2. E(Power) = [x \in Nat |-> E(Power)[x]]
      BY DEF E
    <3>. QED BY <1>5, <3>2
  <2>2. \A x \in Nat : Power[x] \in V
    BY <1>7
  <2> HIDE DEF V
  <2>. QED BY <2>1, <2>2
<1>9. \A n \in Nat : n + 1 \in Nat /\ n + 1 # 0 /\ (n + 1) - 1 = n
  OBVIOUS
<1>. QED BY <1>6, <1>8, <1>9

-----------------------------------------------------------------------------
(* Powers, digits and magnitudes.                                          *)

\* The bytes of a sequence.
LEMMA BytesAre ==
  ASSUME NEW s \in Seq(Byte)
  PROVE  /\ Len(s) \in Nat /\ DOMAIN s = 1..Len(s)
         /\ \A i \in 1..Len(s) : s[i] \in Byte /\ s[i] \in Int /\ 0 <= s[i] /\ s[i] < Base
BY NumbersAssumption, LenProperties DEF Byte

\* A power is a positive number, and the next one is Base times it.
LEMMA PowerNext ==
  ASSUME NEW n \in Nat
  PROVE  Power[n] \in Nat /\ Power[n] \in Int /\ Power[n] > 0 /\ Power[n + 1] = Base * Power[n]
<1>1. Power[n] \in Nat \ {0}
  BY PowerDef
<1>2. Power[n + 1] = Base * Power[n]
  BY PowerDef
<1>3. \A x \in Nat \ {0} : x \in Nat /\ x \in Int /\ x > 0
  OBVIOUS
<1>. QED BY <1>1, <1>2, <1>3

\* Division with remainder.
LEMMA Division ==
  ASSUME NEW n \in Int, NEW b \in Nat, b > 0
  PROVE  n = b * (n \div b) + (n % b) /\ n % b \in 0..(b - 1) /\ n \div b \in Int
OBVIOUS

\* Division by the base.
LEMMA ByBase ==
  ASSUME NEW n \in Int
  PROVE  /\ n = Base * (n \div Base) + (n % Base) /\ n % Base \in Byte /\ n \div Base \in Int
         /\ n >= 0 => n \div Base >= 0
         /\ n > 0 => n \div Base < n
         /\ n < 0 => n \div Base < 0
         /\ n < -1 => n < n \div Base
<1>1. n = Base * (n \div Base) + (n % Base) /\ n % Base \in 0..(Base - 1) /\ n \div Base \in Int
  BY Division, NumbersAssumption
<1>2. \A q \in Int, r \in 0..(Base - 1) : n = Base * q + r =>
        /\ n >= 0 => q >= 0
        /\ n > 0 => q < n
        /\ n < 0 => q < 0
        /\ n < -1 => n < q
  <2> SUFFICES ASSUME NEW q \in Int, NEW r \in 0..(Base - 1), n = Base * q + r
               PROVE  /\ n >= 0 => q >= 0
                      /\ n > 0 => q < n
                      /\ n < 0 => q < 0
                      /\ n < -1 => n < q
    OBVIOUS
  <2>1. n >= 0 => q >= 0
    BY NumbersAssumption
  <2>2. n > 0 => q < n
    BY NumbersAssumption
  <2>3. n < 0 => q < 0
    BY NumbersAssumption
  <2>4. n < -1 => n < q
    BY NumbersAssumption
  <2>. QED BY <2>1, <2>2, <2>3, <2>4
<1>. QED BY <1>1, <1>2 DEF Byte

\* Digits is what its recursion says, and gives bytes.
LEMMA DigitsDef ==
  /\ Digits[0] = <<>>
  /\ \A n \in Nat \ {0} : Digits[n] = <<n % Base>> \o Digits[n \div Base]
  /\ \A n \in Nat : Digits[n] \in Seq(Byte)
<1> DEFINE V == Seq(Byte)
           m == [n \in Nat |-> n]
           p == [n \in Nat |-> n \div Base]
           G == [x \in Nat \X V |-> <<x[1] % Base>> \o x[2]]
<1>0. \A n \in Nat : n \div Base \in Nat /\ n % Base \in Byte /\ (n # 0 => n \div Base < n)
  BY ByBase
<1>1. \E f \in [Nat -> V] : Recurs(f, Nat, {0}, <<>>, p, G)
  <2>1. m \in [Nat -> Nat] /\ p \in [Nat -> Nat] /\ <<>> \in V
    BY <1>0
  <2>2. G \in [Nat \X V -> V]
    <3>1. \A n \in Nat, v \in V : <<n % Base>> \o v \in V
      <4> SUFFICES ASSUME NEW n \in Nat, NEW v \in V PROVE <<n % Base>> \o v \in V
        OBVIOUS
      <4>1. <<n % Base>> \in Seq(Byte)
        BY <1>0
      <4>. QED BY <4>1, ConcatProperties
    <3> HIDE DEF V
    <3>. QED BY <3>1
  <2>3. \A x \in Nat \ {0} : m[p[x]] < m[x]
    BY <1>0
  <2> HIDE DEF V, m, p, G
  <2>. QED BY <2>1, <2>2, <2>3, Recursion
<1>2. PICK f \in [Nat -> V] : Recurs(f, Nat, {0}, <<>>, p, G)
  BY <1>1
<1>3. \A n \in Nat : f[n] = IF n = 0 THEN <<>> ELSE <<n % Base>> \o f[n \div Base]
  <2> SUFFICES ASSUME NEW n \in Nat PROVE f[n] = IF n = 0 THEN <<>> ELSE <<n % Base>> \o f[n \div Base]
    OBVIOUS
  <2>1. f[n] = IF n \in {0} THEN <<>> ELSE G[<<n, f[p[n]]>>]
    BY <1>2 DEF Recurs
  <2>3. f[n \div Base] \in V /\ p[n] = n \div Base
    BY <1>0
  <2> HIDE DEF V, p
  <2>. QED BY <2>1, <2>3
<1> DEFINE E(g) == [n \in Nat |-> IF n = 0 THEN <<>> ELSE <<n % Base>> \o g[n \div Base]]
<1>4. f = E(f)
  BY <1>3
<1>5. Digits = E(Digits)
  <2>1. Digits = CHOOSE g : g = E(g)
    BY DEF Digits
  <2> HIDE DEF E
  <2>. QED BY <2>1, <1>4
<1>6. \A n \in Nat : Digits[n] = IF n = 0 THEN <<>> ELSE <<n % Base>> \o Digits[n \div Base]
  BY <1>5
<1>7. \A x \in Nat : Digits[x] = f[x]
  <2> DEFINE T == {n \in Nat : Digits[n] # f[n]}
  <2> SUFFICES ASSUME T # {} PROVE FALSE
    OBVIOUS
  <2>1. PICK n \in T : \A k \in T : n <= k
    <3>0. T \in SUBSET Nat
      OBVIOUS
    <3> HIDE DEF T
    <3>. QED BY <3>0, LeastOf
  <2>2. n # 0
    BY <1>3, <1>6
  <2>3. n \div Base \in Nat /\ ~(n <= n \div Base)
    <3>1. \A q \in Nat : q < n => ~(n <= q)
      OBVIOUS
    <3>. QED BY <2>1, <2>2, <3>1, <1>0
  <2>4. Digits[n \div Base] = f[n \div Base]
    BY <2>1, <2>3
  <2>. QED BY <2>2, <2>4, <1>3, <1>6
<1>. QED BY <1>6, <1>7

\* LowDigits is what its recursion says, and gives bytes.
LEMMA LowDigitsDef ==
  /\ LowDigits[-1] = <<>>
  /\ \A n \in Int : n < -1 => LowDigits[n] = <<n % Base>> \o LowDigits[n \div Base]
  /\ \A n \in Int : LowDigits[n] \in Seq(Byte)
<1> DEFINE V == Seq(Byte)
           m == [n \in Int |-> IF n < 0 THEN -1 - n ELSE n]
           p == [n \in Int |-> n \div Base]
           G == [x \in Int \X V |-> <<x[1] % Base>> \o x[2]]
<1>0. \A n \in Int : n \div Base \in Int /\ n % Base \in Byte 
  BY ByBase
<1>0a. \A x \in Int \ {-1, 0} : m[p[x]] < m[x]
  <2> SUFFICES ASSUME NEW x \in Int \ {-1, 0} PROVE m[p[x]] < m[x]
    OBVIOUS
  <2>1. m[p[x]] = IF x \div Base < 0 THEN -1 - (x \div Base) ELSE x \div Base
    BY <1>0
  <2>2. CASE x > 0
    BY <2>1, <2>2, ByBase
  <2>3. CASE x < -1
    BY <2>1, <2>3, ByBase
  <2>. QED BY <2>2, <2>3
<1>1. \E f \in [Int -> V] : Recurs(f, Int, {-1, 0}, <<>>, p, G)
  <2>1. m \in [Int -> Nat] /\ p \in [Int -> Int] /\ <<>> \in V
    BY <1>0
  <2>2. G \in [Int \X V -> V]
    <3>1. \A n \in Int, v \in V : <<n % Base>> \o v \in V
      <4> SUFFICES ASSUME NEW n \in Int, NEW v \in V PROVE <<n % Base>> \o v \in V
        OBVIOUS
      <4>1. <<n % Base>> \in Seq(Byte)
        BY <1>0
      <4>. QED BY <4>1, ConcatProperties
    <3> HIDE DEF V
    <3>. QED BY <3>1
  <2> HIDE DEF V, m, p, G
  <2>. QED BY <2>1, <2>2, <1>0a, Recursion
<1>2. PICK f \in [Int -> V] : Recurs(f, Int, {-1, 0}, <<>>, p, G)
  BY <1>1
<1>3. \A n \in Int : f[n] = IF n \in {-1, 0} THEN <<>> ELSE <<n % Base>> \o f[n \div Base]
  <2> SUFFICES ASSUME NEW n \in Int PROVE f[n] = IF n \in {-1, 0} THEN <<>> ELSE <<n % Base>> \o f[n \div Base]
    OBVIOUS
  <2>1. f[n] = IF n \in {-1, 0} THEN <<>> ELSE G[<<n, f[p[n]]>>]
    BY <1>2 DEF Recurs
  <2>3. f[n \div Base] \in V /\ p[n] = n \div Base
    BY <1>0
  <2> HIDE DEF V, p
  <2>. QED BY <2>1, <2>3
<1> DEFINE E(g) == [n \in Int |-> IF n \in {-1, 0} THEN <<>> ELSE <<n % Base>> \o g[n \div Base]]
<1>4. f = E(f)
  BY <1>3
<1>5. LowDigits = E(LowDigits)
  <2>1. LowDigits = CHOOSE g : g = E(g)
    BY DEF LowDigits
  <2> HIDE DEF E
  <2>. QED BY <2>1, <1>4
<1>6. \A n \in Int : LowDigits[n] = IF n \in {-1, 0} THEN <<>> ELSE <<n % Base>> \o LowDigits[n \div Base]
  BY <1>5
<1>7. \A x \in Int : LowDigits[x] = f[x]
  <2> DEFINE T == {k \in Nat : \E n \in Int : m[n] = k /\ LowDigits[n] # f[n]}
  <2> SUFFICES ASSUME NEW y \in Int, LowDigits[y] # f[y] PROVE FALSE
    OBVIOUS
  <2>0. \A x \in Int : m[x] \in Nat
    OBVIOUS
  <2> HIDE DEF m
  <2>1. PICK k \in T : \A j \in T : k <= j
    <3>0. T \in SUBSET Nat /\ T # {}
      BY <2>0
    <3> HIDE DEF T
    <3>. QED BY <3>0, LeastOf
  <2>2. PICK n \in Int : m[n] = k /\ LowDigits[n] # f[n]
    BY <2>1
  <2>3. n \notin {-1, 0}
    BY <1>3, <1>6, <2>2
  <2>4. n \div Base \in Int /\ m[n \div Base] < m[n]
    BY <2>3, <1>0, <1>0a
  <2>5. ~(k <= m[n \div Base]) /\ m[n \div Base] \in Nat
    BY <2>0, <2>2, <2>4, SMTT(20)
  <2>6. LowDigits[n \div Base] = f[n \div Base]
    BY <2>1, <2>4, <2>5
  <2>. QED BY <2>2, <2>3, <2>6, <1>3, <1>6
<1>8. \A n \in Int : n < -1 => n \notin {-1, 0}
  OBVIOUS
<1>9. -1 \in Int
  OBVIOUS
<1>. QED BY <1>6, <1>7, <1>8, <1>9

\* The function inside Magnitude.
MagnitudeOf(s, g) ==
    /\ g \in [0..Len(s) -> Int]
    /\ \A i \in 0..Len(s) : g[i] = IF i = Len(s) THEN 0 ELSE s[i + 1] + Base * g[i + 1]

\* There is that function, and it gives the magnitude.
LEMMA MagnitudeDef ==
  ASSUME NEW s \in Seq(Byte)
  PROVE  /\ \E g : MagnitudeOf(s, g)
         /\ \A g : MagnitudeOf(s, g) => g[0] = Magnitude(s)
<1> DEFINE S == 0..Len(s)
           B == {Len(s)}
           m == [i \in S |-> Len(s) - i]
           p == [i \in S |-> IF i = Len(s) THEN i ELSE i + 1]
           G == [x \in S \X Int |-> IF x[1] = Len(s) THEN 0 ELSE s[x[1] + 1] + Base * x[2]]
<1>0. Len(s) \in Nat /\ \A i \in S : i # Len(s) => s[i + 1] \in Int /\ i + 1 \in S
  BY BytesAre
<1>0a. m \in [S -> Nat] /\ p \in [S -> S] /\ \A x \in S \ B : m[p[x]] < m[x]
  BY <1>0
<1>1. \E f \in [S -> Int] : Recurs(f, S, B, 0, p, G)
  <2>2. G \in [S \X Int -> Int]
    <3>1. \A i \in S, v \in Int : (IF i = Len(s) THEN 0 ELSE s[i + 1] + Base * v) \in Int
      BY <1>0, NumbersAssumption
    <3> HIDE DEF S
    <3>. QED BY <3>1
  <2> HIDE DEF S, m, p, G, B
  <2>. QED BY <2>2, <1>0a, Recursion, 0 \in Int
<1>2. \A f : MagnitudeOf(s, f) <=> f \in [S -> Int] /\ Recurs(f, S, B, 0, p, G)
  <2> SUFFICES ASSUME NEW f \in [S -> Int]
               PROVE  MagnitudeOf(s, f) <=> Recurs(f, S, B, 0, p, G)
    BY DEF MagnitudeOf
  <2>1. \A i \in S : (IF i \in B THEN 0 ELSE G[<<i, f[p[i]]>>])
                      = IF i = Len(s) THEN 0 ELSE s[i + 1] + Base * f[i + 1]
    <3> SUFFICES ASSUME NEW i \in S, i # Len(s)
                 PROVE  G[<<i, f[p[i]]>>] = s[i + 1] + Base * f[i + 1]
      OBVIOUS
    <3>1. p[i] = i + 1 /\ i + 1 \in S /\ f[i + 1] \in Int
      BY <1>0
    <3> HIDE DEF S, p
    <3>. QED BY <3>1
  <2>. QED BY <2>1 DEF MagnitudeOf, Recurs
<1>3. \E g : MagnitudeOf(s, g)
  <2> HIDE DEF S, B, m, p, G
  <2>. QED BY <1>1, <1>2
<1> DEFINE E(g) == [i \in 0..Len(s) |-> IF i = Len(s) THEN 0 ELSE s[i + 1] + Base * g[i + 1]]
           Of == CHOOSE g : g = E(g)
<1>4. PICK f : MagnitudeOf(s, f)
  BY <1>3
<1>5. f = E(f)
  BY <1>4 DEF MagnitudeOf
<1>6. Of = E(Of)
  <2> HIDE DEF E
  <2>. QED BY <1>5
<1>7. Magnitude(s) = Of[0]
  BY DEF Magnitude
<1> HIDE DEF Of
<1>8. \A i \in 0..Len(s) : Of[i] = f[i]
  <2> DEFINE T == {k \in Nat : \E i \in 0..Len(s) : k = Len(s) - i /\ Of[i] # f[i]}
  <2>0. \A i \in 0..Len(s) : Len(s) - i \in Nat
    BY <1>0
  <2> SUFFICES ASSUME T # {} PROVE FALSE
    BY <2>0
  <2>1. PICK k \in T : \A j \in T : k <= j
    <3>0. T \in SUBSET Nat
      OBVIOUS
    <3> HIDE DEF T
    <3>. QED BY <3>0, LeastOf
  <2>2. PICK i \in 0..Len(s) : k = Len(s) - i /\ Of[i] # f[i]
    OBVIOUS
  <2>3. i # Len(s)
    BY <1>5, <1>6, <2>2
  <2>4. i + 1 \in 0..Len(s) /\ Len(s) - (i + 1) \in Nat /\ ~(k <= Len(s) - (i + 1))
    BY <1>0, <2>2, <2>3
  <2>5. Of[i + 1] = f[i + 1]
    BY <2>1, <2>4
  <2>. QED BY <1>5, <1>6, <2>2, <2>3, <2>5
<1>9. ASSUME NEW g, MagnitudeOf(s, g) PROVE g[0] = f[0]
  <2>1. Recurs(g, S, B, 0, p, G) /\ Recurs(f, S, B, 0, p, G)
    BY <1>2, <1>4, <1>9
  <2>2. S \in SUBSET S /\ \A x \in (S \cap S) \ B : p[x] \in S \cap S /\ m[p[x]] < m[x]
    BY <1>0a
  <2>3. 0 \in S
    BY <1>0
  <2> HIDE DEF S, B, m, p, G
  <2>4. \A x \in S \cap S : g[x] = f[x]
    BY <1>0a, <2>1, <2>2, RecursionUnique, SMTT(20)
  <2>. QED BY <2>3, <2>4
<1>10. Of[0] = f[0]
  BY <1>0, <1>8
<1>. QED BY <1>3, <1>7, <1>9, <1>10

\* The magnitude of two parts.
LEMMA MagnitudeConcat ==
  ASSUME NEW s \in Seq(Byte), NEW t \in Seq(Byte)
  PROVE  Magnitude(s \o t) = Magnitude(s) + Power[Len(s)] * Magnitude(t)
<1>1. PICK g : MagnitudeOf(s, g)
  BY MagnitudeDef
<1>2. PICK h : MagnitudeOf(t, h)
  BY MagnitudeDef
<1> DEFINE n == Len(s)
           k == Len(t)
           f == [i \in 0..(n + k) |-> IF i <= n THEN g[i] + Power[n - i] * h[0] ELSE h[i - n]]
<1>3. n \in Nat /\ k \in Nat /\ s \o t \in Seq(Byte) /\ Len(s \o t) = n + k
  BY LenProperties, ConcatProperties
<1>4. \A i \in 1..(n + k) : (s \o t)[i] = IF i <= n THEN s[i] ELSE t[i - n]
  BY ConcatProperties
<1>5. (\A i \in 1..n : s[i] \in Int) /\ (\A i \in 1..k : t[i] \in Int)
  BY BytesAre
<1>6. h[0] \in Int /\ 0 \in 0..k /\ Base \in Int
  BY <1>2, <1>3, NumbersAssumption DEF MagnitudeOf
<1>7. \A i \in 0..n : Power[n - i] \in Int
  BY <1>3, PowerDef
<1>8. f \in [0..(n + k) -> Int]
  <2>1. \A i \in 0..(n + k) : i <= n => g[i] \in Int /\ Power[n - i] \in Int
    <3>1. \A i \in 0..(n + k) : i <= n => i \in 0..n
      BY <1>3
    <3>. QED BY <3>1, <1>1, <1>7 DEF MagnitudeOf
  <2>2. \A i \in 0..(n + k) : ~(i <= n) => h[i - n] \in Int
    <3>1. \A i \in 0..(n + k) : ~(i <= n) => i - n \in 0..k
      BY <1>3
    <3>. QED BY <3>1, <1>2 DEF MagnitudeOf
  <2>3. \A i \in 0..(n + k) : i <= n => g[i] + Power[n - i] * h[0] \in Int
    BY <2>1, <1>6
  <2>. QED BY <2>2, <2>3
<1>9. ASSUME NEW i \in 0..(n + k)
      PROVE  f[i] = IF i = n + k THEN 0 ELSE (s \o t)[i + 1] + Base * f[i + 1]
  <2>1. CASE i < n
    <3>1. i + 1 \in 1..(n + k) /\ i + 1 <= n /\ i \in 0..n /\ i + 1 \in 0..n /\ i # n /\ i # n + k
      BY <2>1, <1>3
    <3>2. n - (i + 1) \in Nat /\ n - i = (n - (i + 1)) + 1
      BY <2>1, <1>3
    <3>3. Power[n - i] = Base * Power[n - (i + 1)] /\ Power[n - (i + 1)] \in Int
      <4> DEFINE j == n - (i + 1)
      <4>1. Power[j + 1] = Base * Power[j] /\ Power[j] \in Int
        <5>1. j \in Nat
          BY <3>2
        <5> HIDE DEF j
        <5>. QED BY <5>1, PowerNext
      <4>. QED BY <4>1, <3>2
    <3>4. g[i] = s[i + 1] + Base * g[i + 1] /\ g[i + 1] \in Int
      BY <3>1, <1>1 DEF MagnitudeOf
    <3>5. f[i] = g[i] + Power[n - i] * h[0] /\ f[i + 1] = g[i + 1] + Power[n - (i + 1)] * h[0]
      BY <3>1, <2>1
    <3>6. (s \o t)[i + 1] = s[i + 1] /\ s[i + 1] \in Int
      BY <3>1, <1>4, <1>5
    <3>7. ASSUME NEW x \in Int, NEW a \in Int, NEW b \in Int, NEW c \in Int, NEW d \in Int
          PROVE  (a + b * c) + (b * x) * d = a + b * (c + x * d)
      OBVIOUS
    <3> HIDE DEF f
    <3>8. (s[i + 1] + Base * g[i + 1]) + (Base * Power[n - (i + 1)]) * h[0]
            = s[i + 1] + Base * (g[i + 1] + Power[n - (i + 1)] * h[0])
      <4>1. s[i + 1] \in Int /\ Base \in Int /\ g[i + 1] \in Int /\ Power[n - (i + 1)] \in Int /\ h[0] \in Int
        BY <3>3, <3>4, <3>6, <1>6
      <4>2. PICK a \in Int, c \in Int, x \in Int, d \in Int :
              a = s[i + 1] /\ c = g[i + 1] /\ x = Power[n - (i + 1)] /\ d = h[0]
        BY <4>1
      <4>3. (a + Base * c) + (Base * x) * d = a + Base * (c + x * d)
        BY <3>7, <4>1
      <4>. QED BY <4>2, <4>3
    <3>9. f[i] = s[i + 1] + Base * f[i + 1]
      BY <3>3, <3>4, <3>5, <3>8
    <3>. QED BY <3>1, <3>6, <3>9
  <2>2. CASE i = n
    <3>1. g[n] = 0 /\ Power[n - n] = 1
      BY <1>3, <1>1, PowerDef DEF MagnitudeOf
    <3>2. f[n] = h[0]
      <4>1. f[n] = g[n] + Power[n - n] * h[0]
        BY <1>3
      <4> HIDE DEF f
      <4>. QED BY <3>1, <4>1, <1>6
    <3>3. k = 0 => h[0] = 0
      BY <1>2, <1>3 DEF MagnitudeOf
    <3>4. k # 0 => h[0] = t[1] + Base * h[1]
      BY <1>2, <1>3 DEF MagnitudeOf
    <3>5. k # 0 => f[n + 1] = h[1] /\ (s \o t)[n + 1] = t[1]
      BY <1>3, <1>4
    <3>6. n = n + k <=> k = 0
      BY <1>3
    <3> HIDE DEF f
    <3>. QED BY <2>2, <3>2, <3>3, <3>4, <3>5, <3>6
  <2>3. CASE i > n
    <3>1. i - n \in 0..k /\ (i - n = k <=> i = n + k) /\ ~(i <= n)
      BY <2>3, <1>3
    <3>2. f[i] = h[i - n]
      BY <3>1
    <3>3. h[i - n] = IF i - n = k THEN 0 ELSE t[(i - n) + 1] + Base * h[(i - n) + 1]
      BY <3>1, <1>2 DEF MagnitudeOf
    <3>4. i # n + k => f[i + 1] = h[(i - n) + 1] /\ (s \o t)[i + 1] = t[(i - n) + 1]
      <4>1. i # n + k => i + 1 \in 1..(n + k) /\ i + 1 \in 0..(n + k) /\ ~(i + 1 <= n) /\ (i + 1) - n = (i - n) + 1
        BY <2>3, <1>3
      <4>. QED BY <4>1, <1>4
    <3> HIDE DEF f
    <3>. QED BY <3>1, <3>2, <3>3, <3>4
  <2>4. i < n \/ i = n \/ i > n
    BY <1>3
  <2>. QED BY <2>1, <2>2, <2>3, <2>4
<1>10. MagnitudeOf(s \o t, f)
  BY <1>3, <1>8, <1>9 DEF MagnitudeOf
<1>11. f[0] = Magnitude(s \o t)
  BY <1>3, <1>10, MagnitudeDef
<1>12. f[0] = g[0] + Power[n] * h[0]
  BY <1>3
<1>13. g[0] = Magnitude(s) /\ h[0] = Magnitude(t)
  BY <1>1, <1>2, MagnitudeDef
<1> HIDE DEF f
<1>. QED BY <1>11, <1>12, <1>13

-----------------------------------------------------------------------------
(* Bytes and their magnitudes.                                             *)

\* Base is twice a number over one.
LEMMA HalfBase ==
  \E h \in Nat : h >= 2 /\ Base = 2 * h /\ Base \div 2 = h
<1>1. Base \div 2 \in Nat /\ Base = 2 * (Base \div 2) /\ Base \div 2 >= 2
  BY NumbersAssumption
<1>. QED BY <1>1

\* The two fill bytes.
LEMMA FillFacts ==
  /\ 0 \in Byte /\ Full \in Byte /\ Full \in Int /\ Full = Base - 1 /\ Base \in Nat /\ Base > 0
  /\ SignBit(Full) /\ ~SignBit(0)
  /\ \A negative \in BOOLEAN : Fill(negative) \in Byte /\ (SignBit(Fill(negative)) <=> negative)
<1>1. PICK h \in Nat : h >= 2 /\ Base = 2 * h /\ Base \div 2 = h
  BY HalfBase
<1>2. 0 \in Byte /\ Full \in Byte /\ Full \in Int
  BY <1>1 DEF Byte, Full
<1>3. SignBit(Full) /\ ~SignBit(0)
  BY <1>1 DEF SignBit, Full
<1>4. Full = Base - 1 /\ Base \in Nat /\ Base > 0
  BY <1>1 DEF Full
<1>. QED BY <1>2, <1>3, <1>4 DEF Fill

\* No bytes are zero.
LEMMA MagnitudeEmpty == Magnitude(<<>>) = 0
<1> DEFINE g == [i \in 0..0 |-> 0]
<1>1. <<>> \in Seq(Byte) /\ Len(<<>>) = 0
  OBVIOUS
<1>2. MagnitudeOf(<<>>, g)
  BY <1>1 DEF MagnitudeOf
<1>3. g[0] = 0
  OBVIOUS
<1> HIDE DEF g
<1>. QED BY <1>1, <1>2, <1>3, MagnitudeDef

\* One byte is its own magnitude.
LEMMA MagnitudeOne ==
  ASSUME NEW d \in Byte
  PROVE  Magnitude(<<d>>) = d /\ <<d>> \in Seq(Byte) /\ Len(<<d>>) = 1
<1> DEFINE g == [i \in 0..1 |-> IF i = 0 THEN d ELSE 0]
<1>1. <<d>> \in Seq(Byte) /\ Len(<<d>>) = 1 /\ <<d>>[1] = d
  OBVIOUS
<1>2. d \in Int /\ Base \in Int
  BY NumbersAssumption DEF Byte
<1>3. g \in [0..1 -> Int] /\ g[0] = d /\ g[1] = 0
  BY <1>2
<1> HIDE DEF g
<1>4. \A i \in 0..1 : g[i] = IF i = 1 THEN 0 ELSE <<d>>[i + 1] + Base * g[i + 1]
  BY <1>2, <1>1, <1>3
<1>5. MagnitudeOf(<<d>>, g)
  BY <1>1, <1>3, <1>4 DEF MagnitudeOf
<1>. QED BY <1>1, <1>3, <1>5, MagnitudeDef

\* The first two powers.
LEMMA PowerSmall == Power[0] = 1 /\ Power[1] = Base
BY PowerDef, NumbersAssumption

\* A magnitude is a number.
LEMMA MagnitudeType == ASSUME NEW s \in Seq(Byte) PROVE Magnitude(s) \in Int
<1>1. PICK g : MagnitudeOf(s, g)
  BY MagnitudeDef
<1>2. g[0] = Magnitude(s) /\ 0 \in 0..Len(s)
  BY <1>1, MagnitudeDef, BytesAre
<1>. QED BY <1>1, <1>2 DEF MagnitudeOf

\* A byte put before others.
LEMMA FirstByte ==
  ASSUME NEW d \in Byte, NEW t \in Seq(Byte)
  PROVE  /\ <<d>> \o t \in Seq(Byte) /\ Len(<<d>> \o t) = Len(t) + 1
         /\ (<<d>> \o t)[1] = d /\ \A i \in 1..Len(t) : (<<d>> \o t)[i + 1] = t[i]
         /\ Magnitude(<<d>> \o t) = d + Base * Magnitude(t)
<1>1. Magnitude(<<d>>) = d /\ <<d>> \in Seq(Byte) /\ Len(<<d>>) = 1
  BY MagnitudeOne
<1>2. Magnitude(<<d>> \o t) = d + Base * Magnitude(t)
  BY <1>1, MagnitudeConcat, PowerSmall
<1>3. /\ <<d>> \o t \in Seq(Byte) /\ Len(<<d>> \o t) = 1 + Len(t)
      /\ \A i \in 1..(1 + Len(t)) : (<<d>> \o t)[i] = IF i <= 1 THEN <<d>>[i] ELSE t[i - 1]
  BY <1>1, ConcatProperties
<1>4. Len(t) \in Nat
  BY BytesAre
<1>5. (<<d>> \o t)[1] = d
  BY <1>3, <1>4
<1>6. \A i \in 1..Len(t) : (<<d>> \o t)[i + 1] = t[i]
  BY <1>4, <1>3
<1>. QED BY <1>2, <1>3, <1>4, <1>5, <1>6

\* The first byte and the others.
LEMMA SplitFirst ==
  ASSUME NEW s \in Seq(Byte), s # <<>>
  PROVE  /\ Len(s) \in Nat \ {0} /\ s[1] \in Byte /\ Tail(s) \in Seq(Byte) /\ Len(Tail(s)) = Len(s) - 1
         /\ s = <<s[1]>> \o Tail(s)
         /\ Magnitude(s) = s[1] + Base * Magnitude(Tail(s))
<1>1. /\ Tail(s) \in Seq(Byte) /\ Len(Tail(s)) = Len(s) - 1
      /\ \A i \in 1..Len(Tail(s)) : Tail(s)[i] = s[i + 1]
  BY HeadTailProperties
<1>2. Len(s) \in Nat \ {0}
  BY EmptySeq
<1>3. s[1] \in Byte
  BY <1>2, BytesAre
<1>4. s = <<s[1]>> \o Tail(s)
  <2> DEFINE t == <<s[1]>> \o Tail(s)
  <2>1. /\ t \in Seq(Byte) /\ Len(t) = (Len(s) - 1) + 1
        /\ t[1] = s[1] /\ \A i \in 1..Len(Tail(s)) : t[i + 1] = Tail(s)[i]
    BY <1>1, <1>3, FirstByte
  <2>2. \A i \in 1..Len(s) : i = 1 \/ (i - 1 \in 1..Len(Tail(s)) /\ (i - 1) + 1 = i)
    BY <1>1, <1>2
  <2> HIDE DEF t
  <2>3. \A i \in 1..Len(s) : s[i] = t[i]
    BY <2>1, <2>2, <1>1
  <2>4. Len(t) = Len(s)
    BY <2>1, <1>2
  <2>5. s = t
    BY <2>1, <2>3, <2>4, SeqEqual
  <2>. QED BY <2>5 DEF t
<1>5. Magnitude(<<s[1]>> \o Tail(s)) = s[1] + Base * Magnitude(Tail(s))
  BY <1>1, <1>3, FirstByte
<1>. QED BY <1>1, <1>2, <1>3, <1>4, <1>5

\* So many bytes hold a number below so high a power.
LEMMA MagnitudeBounds ==
  ASSUME NEW s \in Seq(Byte)
  PROVE  Magnitude(s) \in Nat /\ Magnitude(s) < Power[Len(s)]
<1> DEFINE T == {n \in Nat : \A t \in Seq(Byte) : Len(t) = n => Magnitude(t) \in Nat /\ Magnitude(t) < Power[n]}
<1>1. 0 \in T
  BY EmptySeq, MagnitudeEmpty, PowerSmall
<1>2. ASSUME NEW n \in T PROVE n + 1 \in T
  <2> SUFFICES ASSUME NEW t \in Seq(Byte), Len(t) = n + 1
               PROVE  Magnitude(t) \in Nat /\ Magnitude(t) < Power[n + 1]
    OBVIOUS
  <2>1. t # <<>>
    BY EmptySeq
  <2>2. t[1] \in Byte /\ Tail(t) \in Seq(Byte) /\ Len(Tail(t)) = n /\ Magnitude(t) = t[1] + Base * Magnitude(Tail(t))
    <3>1. (n + 1) - 1 = n
      BY n \in Nat
    <3>. QED BY <2>1, <3>1, SplitFirst
  <2>3. Magnitude(Tail(t)) \in Nat /\ Magnitude(Tail(t)) < Power[n]
    BY <2>2
  <2>4. Power[n] \in Nat /\ Power[n + 1] = Base * Power[n]
    BY PowerNext
  <2>5. \A d \in Byte, m, p \in Nat : m < p => d + Base * m \in Nat /\ d + Base * m < Base * p
    <3> SUFFICES ASSUME NEW d \in Byte, NEW m \in Nat, NEW p \in Nat, m < p
                 PROVE  d + Base * m \in Nat /\ d + Base * m < Base * p
      OBVIOUS
    <3>1. d \in Nat /\ d < Base /\ Base \in Nat
      BY NumbersAssumption DEF Byte
    <3>2. m + 1 <= p
      OBVIOUS
    <3>3. Base * (m + 1) <= Base * p /\ Base * (m + 1) = Base * m + Base /\ Base * m \in Nat
      BY <3>1, <3>2
    <3>4. Base * p \in Nat
      BY <3>1
    <3>. QED BY <3>1, <3>3, <3>4
  <2>. QED BY <2>2, <2>3, <2>4, <2>5
<1>3. T = Nat
  <2>1. T \in SUBSET Nat
    OBVIOUS
  <2> HIDE DEF T
  <2>. QED BY <1>1, <1>2, <2>1, SetInduction
<1>. QED BY <1>3, BytesAre

\* The lowest digit of a number and the rest of it are unique.
LEMMA DigitUnique ==
  ASSUME NEW d \in Byte, NEW e \in Byte, NEW m \in Int, NEW k \in Int, d + Base * m = e + Base * k
  PROVE  d = e /\ m = k
<1>1. d \in Int /\ e \in Int /\ 0 <= d /\ d < Base /\ 0 <= e /\ e < Base /\ Base \in Nat
  BY NumbersAssumption DEF Byte
<1>2. ASSUME NEW x \in Byte, NEW y \in Byte, NEW a \in Int, NEW b \in Int, x + Base * a = y + Base * b
      PROVE  ~(a < b)
  <2> SUFFICES ASSUME a < b PROVE FALSE
    OBVIOUS
  <2>1. x \in Int /\ y \in Int /\ x < Base /\ 0 <= y /\ Base \in Nat
    BY NumbersAssumption DEF Byte
  <2>2. Base * (a + 1) <= Base * b /\ Base * (a + 1) = Base * a + Base /\ Base * a \in Int /\ Base * b \in Int
    BY <2>1
  <2>. QED BY <2>1, <2>2, <1>2
<1>3. ~(m < k) /\ ~(k < m)
  BY <1>2
<1>4. m = k
  BY <1>3
<1>. QED BY <1>1, <1>4

\* Bytes of one length with one magnitude are the same.
LEMMA MagnitudeInjective ==
  ASSUME NEW s \in Seq(Byte), NEW t \in Seq(Byte), Len(s) = Len(t), Magnitude(s) = Magnitude(t)
  PROVE  s = t
<1> DEFINE T == {n \in Nat : \A u, v \in Seq(Byte) :
                    Len(u) = n /\ Len(v) = n /\ Magnitude(u) = Magnitude(v) => u = v}
<1>1. 0 \in T
  BY EmptySeq
<1>2. ASSUME NEW n \in T PROVE n + 1 \in T
  <2> SUFFICES ASSUME NEW u \in Seq(Byte), NEW v \in Seq(Byte), Len(u) = n + 1, Len(v) = n + 1,
                      Magnitude(u) = Magnitude(v)
               PROVE  u = v
    OBVIOUS
  <2>1. u # <<>> /\ v # <<>>
    BY EmptySeq
  <2>2. /\ u[1] \in Byte /\ Tail(u) \in Seq(Byte) /\ Len(Tail(u)) = n /\ u = <<u[1]>> \o Tail(u)
        /\ Magnitude(u) = u[1] + Base * Magnitude(Tail(u))
    BY <2>1, SplitFirst
  <2>3. /\ v[1] \in Byte /\ Tail(v) \in Seq(Byte) /\ Len(Tail(v)) = n /\ v = <<v[1]>> \o Tail(v)
        /\ Magnitude(v) = v[1] + Base * Magnitude(Tail(v))
    BY <2>1, SplitFirst
  <2>4. Magnitude(Tail(u)) \in Int /\ Magnitude(Tail(v)) \in Int
    BY <2>2, <2>3, MagnitudeType
  <2>5. u[1] = v[1] /\ Magnitude(Tail(u)) = Magnitude(Tail(v))
    <3>1. PICK d \in Byte, e \in Byte, m \in Int, k \in Int :
            d = u[1] /\ e = v[1] /\ m = Magnitude(Tail(u)) /\ k = Magnitude(Tail(v))
      BY <2>2, <2>3, <2>4
    <3>2. d + Base * m = e + Base * k
      BY <3>1, <2>2, <2>3
    <3>. QED BY <3>1, <3>2, DigitUnique
  <2>6. Tail(u) = Tail(v)
    BY <2>2, <2>3, <2>5
  <2>. QED BY <2>2, <2>3, <2>5, <2>6
<1>3. T = Nat
  <2>1. T \in SUBSET Nat
    OBVIOUS
  <2> HIDE DEF T
  <2>. QED BY <1>1, <1>2, <2>1, SetInduction
<1>. QED BY <1>3, BytesAre

\* A byte repeated.
LEMMA RepeatFacts ==
  ASSUME NEW b \in Byte, NEW n \in Nat
  PROVE  /\ Repeat(b, n) \in Seq(Byte) /\ Len(Repeat(b, n)) = n
         /\ \A i \in 1..n : Repeat(b, n)[i] = b
         /\ b = 0 => Magnitude(Repeat(b, n)) = 0
         /\ b = Full => Magnitude(Repeat(b, n)) = Power[n] - 1
<1>1. Repeat(b, n) \in Seq(Byte)
  BY IsASeq DEF Repeat
<1>2. Len(Repeat(b, n)) = n
  BY DEF Repeat
<1>3. \A i \in 1..n : Repeat(b, n)[i] = b
  BY DEF Repeat
<1> DEFINE r == Repeat(b, n)
           z == [i \in 0..n |-> 0]
           g == [i \in 0..n |-> Power[n - i] - 1]
<1>4. \A i \in 0..n : i # n => i + 1 \in 1..n /\ i + 1 \in 0..n
  OBVIOUS
<1>5. b = 0 => MagnitudeOf(r, z)
  <2>1. b = 0 => \A i \in 0..n : 0 = IF i = n THEN 0 ELSE r[i + 1] + Base * z[i + 1]
    <3>1. Base * 0 = 0
      BY NumbersAssumption
    <3> HIDE DEF r
    <3>. QED BY <1>3, <1>4, <3>1 DEF r
  <2>2. z \in [0..n -> Int]
    OBVIOUS
  <2>. QED BY <1>2, <2>1, <2>2 DEF MagnitudeOf
<1>6. b = Full => MagnitudeOf(r, g)
  <2>1. \A i \in 0..n : n - i \in Nat /\ (i # n => n - (i + 1) \in Nat /\ n - i = (n - (i + 1)) + 1)
    OBVIOUS
  <2>2. g \in [0..n -> Int]
    BY <2>1, PowerNext
  <2>3. ASSUME NEW i \in 0..n, b = Full
        PROVE  g[i] = IF i = n THEN 0 ELSE r[i + 1] + Base * g[i + 1]
    <3>1. CASE i = n
      BY <3>1, PowerSmall
    <3>2. CASE i # n
      <4> DEFINE j == n - (i + 1)
      <4>1. j \in Nat /\ n - i = j + 1 /\ r[i + 1] = Full /\ g[i + 1] = Power[j] - 1 /\ g[i] = Power[j + 1] - 1
        BY <3>2, <2>1, <2>3, <1>3, <1>4
      <4> HIDE DEF j, r, g
      <4>2. Power[j] \in Int /\ Power[j + 1] = Base * Power[j]
        BY <4>1, PowerNext
      <4>3. \A p \in Int : Base * p - 1 = (Base - 1) + Base * (p - 1)
        BY NumbersAssumption
      <4>. QED BY <3>2, <4>1, <4>2, <4>3 DEF Full
    <3>. QED BY <3>1, <3>2
  <2>. QED BY <1>2, <2>2, <2>3 DEF MagnitudeOf
<1>7. z[0] = 0 /\ g[0] = Power[n] - 1
  OBVIOUS
<1> HIDE DEF z, g
<1>8. /\ b = 0 => Magnitude(r) = 0
      /\ b = Full => Magnitude(r) = Power[n] - 1
  <2> HIDE DEF r
  <2>. QED BY <1>1, <1>5, <1>6, <1>7, MagnitudeDef DEF r
<1>. QED BY <1>1, <1>2, <1>3, <1>8

\* One step of inverting a number.
LEMMA TurnedOver ==
  ASSUME NEW b \in Int, NEW p \in Int, NEW x \in Int, NEW m \in Int
  PROVE  (b * p) - 1 - (x + b * m) = ((b - 1) - x) + b * (p - 1 - m)
OBVIOUS

\* Inverted bytes are the magnitude turned over.
LEMMA InvertedFacts ==
  ASSUME NEW s \in Seq(Byte)
  PROVE  /\ Inverted(s) \in Seq(Byte) /\ Len(Inverted(s)) = Len(s)
         /\ \A i \in 1..Len(s) : Inverted(s)[i] = Full - s[i]
         /\ Magnitude(Inverted(s)) = Power[Len(s)] - 1 - Magnitude(s)
<1> DEFINE n == Len(s)
           r == Inverted(s)
<1>0. n \in Nat /\ DOMAIN s = 1..n /\ (\A i \in 1..n : s[i] \in Int) /\ Full \in Int
  BY BytesAre, FillFacts
<1>1. r = [i \in 1..n |-> Full - s[i]]
  BY <1>0 DEF Inverted
<1>2. \A i \in 1..n : Full - s[i] \in Byte
  BY BytesAre, NumbersAssumption DEF Byte, Full
<1>3. r \in Seq(Byte) /\ Len(r) = n /\ \A i \in 1..n : r[i] = Full - s[i]
  <2>1. [i \in 1..n |-> Full - s[i]] \in Seq(Byte)
    BY <1>0, <1>2, IsASeq
  <2> HIDE DEF n
  <2>2. Len([i \in 1..n |-> Full - s[i]]) = n
    BY <1>0
  <2>. QED BY <1>1, <2>1, <2>2
<1>4. PICK f : MagnitudeOf(s, f)
  BY MagnitudeDef
<1> DEFINE g == [i \in 0..n |-> Power[n - i] - 1 - f[i]]
<1>5. \A i \in 0..n : n - i \in Nat /\ (i # n => n - (i + 1) \in Nat /\ n - i = (n - (i + 1)) + 1
                                                /\ i + 1 \in 1..n /\ i + 1 \in 0..n)
  <2> HIDE DEF n
  <2>. QED BY <1>0
<1>6. \A i \in 0..n : f[i] \in Int /\ Power[n - i] \in Int
  BY <1>4, <1>5, PowerNext DEF MagnitudeOf
<1>7. g \in [0..n -> Int]
  BY <1>6
<1>8. ASSUME NEW i \in 0..n
      PROVE  g[i] = IF i = n THEN 0 ELSE r[i + 1] + Base * g[i + 1]
  <2>1. CASE i = n
    <3>1. n - n = 0 /\ f[n] = 0
      <4>1. n - n = 0 /\ n \in 0..n
        BY <1>0, <2>1
      <4>. QED BY <4>1, <1>4 DEF MagnitudeOf
    <3>. QED BY <2>1, <3>1, PowerSmall
  <2>2. CASE i # n
    <3> DEFINE j == n - (i + 1)
    <3>1. /\ j \in Nat /\ n - i = j + 1 /\ i + 1 \in 0..n /\ i + 1 \in 1..n
          /\ g[i + 1] = Power[j] - 1 - f[i + 1] /\ g[i] = Power[j + 1] - 1 - f[i]
      BY <2>2, <1>5
    <3>2. r[i + 1] = Full - s[i + 1] /\ s[i + 1] \in Int
      BY <3>1, <1>0, <1>3, SMTT(30)
    <3>3. f[i] = s[i + 1] + Base * f[i + 1] /\ f[i + 1] \in Int
      BY <2>2, <3>1, <1>4, <1>6, Zenon DEF MagnitudeOf
    <3> HIDE DEF j, r, g, n
    <3>4. Power[j] \in Int /\ Power[j + 1] = Base * Power[j]
      BY <3>1, PowerNext
    <3>5. PICK b \in Int, p \in Int, x \in Int, m \in Int :
            b = Base /\ p = Power[j] /\ x = s[i + 1] /\ m = f[i + 1]
      BY <3>2, <3>3, <3>4, NumbersAssumption
    <3>6. (b * p) - 1 - (x + b * m) = ((b - 1) - x) + b * (p - 1 - m)
      BY TurnedOver
    <3>7. g[i] = (b * p) - 1 - (x + b * m)
      BY <3>1, <3>3, <3>4, <3>5
    <3>8. r[i + 1] + Base * g[i + 1] = ((b - 1) - x) + b * (p - 1 - m)
      BY <3>1, <3>2, <3>5 DEF Full
    <3>. QED BY <2>2, <3>6, <3>7, <3>8
  <2>. QED BY <2>1, <2>2
<1>9. MagnitudeOf(r, g)
  BY <1>3, <1>7, <1>8 DEF MagnitudeOf
<1>10. g[0] = Power[n] - 1 - f[0]
  BY <1>0
<1>11. f[0] = Magnitude(s) /\ g[0] = Magnitude(r)
  BY <1>3, <1>4, <1>9, MagnitudeDef
<1> HIDE DEF g
<1>. QED BY <1>3, <1>10, <1>11

\* Adding one adds one, unless every byte is full.
LEMMA PlusOneFacts ==
  ASSUME NEW s \in Seq(Byte), \E i \in 1..Len(s) : s[i] # Full
  PROVE  /\ PlusOne(s) \in Seq(Byte) /\ Len(PlusOne(s)) = Len(s)
         /\ Magnitude(PlusOne(s)) = Magnitude(s) + 1
<1> DEFINE n == Len(s)
           r == PlusOne(s)
           Carried(i) == \A j \in 1..(i - 1) : s[j] = Full
<1>0. n \in Nat /\ DOMAIN s = 1..n /\ \A i \in 1..n : s[i] \in Byte
  BY BytesAre
<1>1. r = [i \in 1..n |-> IF Carried(i) THEN (s[i] + 1) % Base ELSE s[i]]
  BY <1>0 DEF PlusOne
<1>2. \A b \in Byte : /\ (b + 1) % Base = IF b = Full THEN 0 ELSE b + 1
                      /\ (b + 1) % Base \in Byte
  <2> SUFFICES ASSUME NEW b \in Byte
               PROVE  (b + 1) % Base = IF b = Full THEN 0 ELSE b + 1
    BY FillFacts, ByBase DEF Byte
  <2>1. b \in Int /\ 0 <= b /\ b <= Base - 1 /\ Base \in Nat /\ Base > 0 /\ Full = Base - 1
    BY FillFacts DEF Byte
  <2>2. CASE b = Full
    BY <2>1, <2>2
  <2>3. CASE b # Full
    BY <2>1, <2>3
  <2>. QED BY <2>2, <2>3
<1>3. \A i \in 1..n : (IF Carried(i) THEN (s[i] + 1) % Base ELSE s[i]) \in Byte
  <2> HIDE DEF Carried
  <2>. QED BY <1>0, <1>2
<1>4. r \in Seq(Byte) /\ Len(r) = n /\ \A i \in 1..n : r[i] = IF Carried(i) THEN (s[i] + 1) % Base ELSE s[i]
  <2> HIDE DEF Carried, n
  <2>1. [i \in 1..n |-> IF Carried(i) THEN (s[i] + 1) % Base ELSE s[i]] \in Seq(Byte)
    BY <1>0, <1>3, IsASeq
  <2>2. Len([i \in 1..n |-> IF Carried(i) THEN (s[i] + 1) % Base ELSE s[i]]) = n
    BY <1>0
  <2>. QED BY <1>1, <2>1, <2>2
<1>5. PICK f : MagnitudeOf(s, f)
  BY MagnitudeDef
<1> DEFINE g == [i \in 0..n |-> IF Carried(i + 1) THEN f[i] + 1 ELSE f[i]]
<1>6. \A i \in 0..n : f[i] \in Int
  BY <1>5 DEF MagnitudeOf
<1>7. g \in [0..n -> Int]
  <2> HIDE DEF Carried
  <2>. QED BY <1>6
<1>8. ASSUME NEW i \in 0..n
      PROVE  g[i] = IF i = n THEN 0 ELSE r[i + 1] + Base * g[i + 1]
  <2>1. CASE i = n
    <3>1. f[n] = 0
      BY <1>0, <2>1, <1>5 DEF MagnitudeOf
    <3>2. ~Carried(n + 1)
      BY <1>0
    <3> HIDE DEF Carried
    <3>. QED BY <2>1, <3>1, <3>2, SMTT(30)
  <2>2. CASE i # n
    <3>1. i + 1 \in 0..n /\ i + 1 \in 1..n
      <4> HIDE DEF n
      <4>. QED BY <2>2, <1>0, SMTT(30)
    <3>2. f[i] = s[i + 1] + Base * f[i + 1] /\ f[i + 1] \in Int /\ s[i + 1] \in Byte
      BY <1>0, <2>2, <3>1, <1>5, <1>6, Zenon DEF MagnitudeOf
    <3>3. Carried((i + 1) + 1) <=> Carried(i + 1) /\ s[i + 1] = Full
      BY <1>0
    <3>4. r[i + 1] = IF Carried(i + 1) THEN (s[i + 1] + 1) % Base ELSE s[i + 1]
      BY <3>1, <1>4
    <3>5. /\ g[i] = IF Carried(i + 1) THEN f[i] + 1 ELSE f[i]
          /\ g[i + 1] = IF Carried((i + 1) + 1) THEN f[i + 1] + 1 ELSE f[i + 1]
      BY <3>1
    <3> HIDE DEF g, r, n, Carried
    <3>6. g[i] = r[i + 1] + Base * g[i + 1]
      <4>1. CASE ~Carried(i + 1)
        BY <4>1, <3>2, <3>3, <3>4, <3>5
      <4>2. CASE Carried(i + 1) /\ s[i + 1] # Full
        <5>1. r[i + 1] = s[i + 1] + 1 /\ g[i + 1] = f[i + 1] /\ g[i] = f[i] + 1
          BY <4>2, <1>2, <3>2, <3>3, <3>4, <3>5
        <5>2. Base * f[i + 1] \in Int /\ s[i + 1] \in Int
          BY <3>2, NumbersAssumption DEF Byte
        <5>. QED BY <5>1, <5>2, <3>2
      <4>3. CASE Carried(i + 1) /\ s[i + 1] = Full
        <5>1. r[i + 1] = 0 /\ g[i + 1] = f[i + 1] + 1 /\ g[i] = f[i] + 1
          BY <4>3, <1>2, <3>2, <3>3, <3>4, <3>5
        <5>2. Base * f[i + 1] \in Int /\ Base * (f[i + 1] + 1) = Base * f[i + 1] + Base
          BY <3>2, NumbersAssumption
        <5>. QED BY <4>3, <5>1, <5>2, <3>2, FillFacts
      <4>. QED BY <4>1, <4>2, <4>3
    <3>. QED BY <2>2, <3>6
  <2>. QED BY <2>1, <2>2
<1>9. MagnitudeOf(r, g)
  BY <1>4, <1>7, <1>8 DEF MagnitudeOf
<1>10. g[0] = f[0] + 1
  <2>1. Carried(0 + 1)
    OBVIOUS
  <2>2. 0 \in 0..n
    BY <1>0
  <2> HIDE DEF Carried
  <2>. QED BY <2>1, <2>2
<1>11. f[0] = Magnitude(s) /\ g[0] = Magnitude(r)
  BY <1>4, <1>5, <1>9, MagnitudeDef
<1> HIDE DEF g
<1>. QED BY <1>4, <1>10, <1>11

-----------------------------------------------------------------------------
(* Two's complement.                                                       *)

\* The last byte of a sequence, which carries its sign.
LEMMA LastByte ==
  ASSUME NEW s \in Seq(Byte), s # <<>>
  PROVE  \E f \in Seq(Byte), b \in Byte :
            /\ s = f \o <<b>> /\ Len(s) = Len(f) + 1 /\ b = s[Len(s)]
            /\ Magnitude(s) = Magnitude(f) + Power[Len(f)] * b
<1>1. PICK f \in Seq(Byte), b \in Byte : s = Append(f, b)
  BY SequenceEmptyOrAppend
<1>2. s = f \o <<b>> /\ Len(s) = Len(f) + 1 /\ s[Len(f) + 1] = b
  BY <1>1, AppendProperties, AppendIsConcat
<1>3. Magnitude(f \o <<b>>) = Magnitude(f) + Power[Len(f)] * Magnitude(<<b>>)
  BY MagnitudeOne, MagnitudeConcat
<1>4. Magnitude(<<b>>) = b
  BY MagnitudeOne
<1>. QED BY <1>2, <1>3, <1>4

\* A byte put behind others.
LEMMA AppendByte ==
  ASSUME NEW s \in Seq(Byte), NEW b \in Byte
  PROVE  /\ Append(s, b) \in Seq(Byte) /\ Append(s, b) # <<>> /\ Len(Append(s, b)) = Len(s) + 1
         /\ Append(s, b)[Len(Append(s, b))] = b
         /\ Append(s, b) = s \o <<b>>
         /\ Magnitude(Append(s, b)) = Magnitude(s) + Power[Len(s)] * b
<1>1. Append(s, b) = s \o <<b>>
  BY AppendIsConcat
<1>2. Magnitude(s \o <<b>>) = Magnitude(s) + Power[Len(s)] * Magnitude(<<b>>)
  BY MagnitudeOne, MagnitudeConcat
<1>3. Magnitude(<<b>>) = b
  BY MagnitudeOne
<1>. QED BY <1>1, <1>2, <1>3, AppendProperties

\* A number is negative when its natural number is in the upper half.
LEMMA NegativeIsUpperHalf ==
  ASSUME NEW s \in Seq(Byte), s # <<>>
  PROVE  Negative(s) <=> 2 * Magnitude(s) >= Power[Len(s)]
<1>1. PICK f \in Seq(Byte), b \in Byte :
            /\ Len(s) = Len(f) + 1 /\ b = s[Len(s)]
            /\ Magnitude(s) = Magnitude(f) + Power[Len(f)] * b
  BY LastByte
<1>2. PICK h \in Nat : h >= 2 /\ Base = 2 * h /\ Base \div 2 = h
  BY HalfBase
<1>3. Negative(s) <=> b >= h
  BY <1>1, <1>2 DEF Negative, SignBit
<1>4. Magnitude(f) \in Nat /\ Magnitude(f) < Power[Len(f)]
  BY MagnitudeBounds
<1>5. Power[Len(f)] \in Nat /\ Power[Len(f) + 1] = Base * Power[Len(f)]
  BY BytesAre, PowerNext
<1>6. b \in Nat
  BY FillFacts DEF Byte
<1>7. ASSUME NEW m \in Nat, NEW p \in Nat, m < p
      PROVE  b >= h <=> 2 * (m + p * b) >= (2 * h) * p
  <2>1. CASE b >= h
    BY <2>1, <1>6
  <2>2. CASE ~(b >= h)
    <3>1. b <= h - 1 /\ h - 1 \in Nat
      BY <2>2, <1>6, <1>2
    <3>2. p * b <= p * (h - 1) /\ p * (h - 1) = p * h - p /\ p * h \in Nat /\ p * b \in Nat /\ (2 * h) * p = 2 * (p * h)
      BY <3>1, <1>6, <1>2
    <3>3. PICK x \in Nat, y \in Nat : x = p * b /\ y = p * h
      BY <3>2
    <3>4. x <= y - p /\ (2 * h) * p = 2 * y
      BY <3>2, <3>3
    <3>4a. m + x < y
      BY <3>4, <1>7
    <3>4b. \A u, v \in Nat : u < v => ~(2 * u >= 2 * v)
      OBVIOUS
    <3>5. ~(2 * (m + x) >= 2 * y)
      BY <3>4a, <3>4b, m + x \in Nat
    <3>. QED BY <2>2, <3>3, <3>4, <3>5
  <2>. QED BY <2>1, <2>2
<1>8. PICK m \in Nat, p \in Nat : m = Magnitude(f) /\ p = Power[Len(f)] /\ m < p
  BY <1>4, <1>5
<1>. QED BY <1>1, <1>2, <1>3, <1>5, <1>7, <1>8

\* What the bytes stand for as two's complement.
Value(s) == IF Negative(s) THEN Magnitude(s) - Power[Len(s)] ELSE Magnitude(s)

\* The bounds of a value, and its sign.
LEMMA ValueFacts ==
  ASSUME NEW s \in Seq(Byte), s # <<>>
  PROVE  /\ Value(s) \in Int
         /\ Negative(s) <=> Value(s) < 0
         /\ -Power[Len(s)] <= 2 * Value(s) /\ 2 * Value(s) < Power[Len(s)]
<1>1. Magnitude(s) \in Nat /\ Magnitude(s) < Power[Len(s)] /\ Power[Len(s)] \in Nat
  BY MagnitudeBounds, BytesAre, PowerNext
<1>2. Negative(s) <=> 2 * Magnitude(s) >= Power[Len(s)]
  BY NegativeIsUpperHalf
<1>3. PICK m \in Nat, p \in Nat : m = Magnitude(s) /\ p = Power[Len(s)] /\ m < p
  BY <1>1
<1>4. CASE Negative(s)
  <2>1. Value(s) = m - p
    BY <1>3, <1>4 DEF Value
  <2>2. 2 * m >= p
    BY <1>2, <1>3, <1>4
  <2>3. m - p \in Int /\ m - p < 0 /\ -p <= 2 * (m - p) /\ 2 * (m - p) < p
    BY <2>2, <1>3
  <2>. QED BY <2>1, <2>3, <1>3, <1>4
<1>5. CASE ~Negative(s)
  <2>1. Value(s) = m
    BY <1>3, <1>5 DEF Value
  <2>2. ~(2 * m >= p)
    BY <1>2, <1>3, <1>5
  <2>3. m \in Int /\ ~(m < 0) /\ -p <= 2 * m /\ 2 * m < p
    BY <2>2, <1>3
  <2>. QED BY <2>1, <2>3, <1>3, <1>5
<1>. QED BY <1>4, <1>5

\* Both decoders of two's complement give the value.
LEMMA DecodersGiveValue ==
  ASSUME NEW s \in Seq(Byte), s # <<>>
  PROVE  /\ twosComplementLEToBigInt(s) = Value(s)
         /\ bigIntFromTwosComplementLE_phantasma(s) = Value(s)
<1>1. Len(s) \in Nat \ {0} /\ Magnitude(s) \in Int /\ Power[Len(s)] \in Int
  BY EmptySeq, MagnitudeType, PowerNext
<1>2. Inverted(s) \in Seq(Byte) /\ Len(Inverted(s)) = Len(s) /\ Magnitude(Inverted(s)) = Power[Len(s)] - 1 - Magnitude(s)
  BY InvertedFacts
<1>3. CASE Negative(s)
  <2>1. Len(s) \in 1..Len(s) /\ s[Len(s)] \in Int /\ s[Len(s)] # 0 /\ Inverted(s)[Len(s)] # Full
    <3>1. Len(s) \in 1..Len(s)
      BY <1>1
    <3>2. s[Len(s)] \in Int
      BY <3>1, BytesAre
    <3>3. s[Len(s)] # 0
      BY <1>3, FillFacts DEF Negative
    <3>4. Inverted(s)[Len(s)] = Full - s[Len(s)]
      BY <3>1, InvertedFacts
    <3>. QED BY <3>1, <3>2, <3>3, <3>4, FillFacts
  <2>2. \E i \in 1..Len(Inverted(s)) : Inverted(s)[i] # Full
    BY <2>1, <1>2
  <2>3. Magnitude(PlusOne(Inverted(s))) = Magnitude(Inverted(s)) + 1
    BY <1>2, <2>2, PlusOneFacts
  <2>4. -Magnitude(PlusOne(Inverted(s))) = Magnitude(s) - Power[Len(s)]
    BY <1>1, <1>2, <2>3
  <2>5. -1 - Magnitude(Inverted(s)) = Magnitude(s) - Power[Len(s)]
    BY <1>1, <1>2
  <2>. QED BY <1>3, <2>4, <2>5 DEF twosComplementLEToBigInt, bigIntFromTwosComplementLE_phantasma, Value
<1>4. CASE ~Negative(s)
  BY <1>4 DEF twosComplementLEToBigInt, bigIntFromTwosComplementLE_phantasma, Value
<1>. QED BY <1>3, <1>4

\* The sign is that of the last byte.
LEMMA NegativeAppend ==
  ASSUME NEW s \in Seq(Byte), NEW b \in Byte
  PROVE  Negative(Append(s, b)) <=> SignBit(b)
BY AppendByte DEF Negative

\* Sign extension keeps the value.
LEMMA ExtendOne ==
  ASSUME NEW s \in Seq(Byte), s # <<>>
  PROVE  Value(Append(s, Fill(Negative(s)))) = Value(s)
<1> DEFINE b == Fill(Negative(s))
<1>0. b \in Byte /\ (SignBit(b) <=> Negative(s))
  BY FillFacts DEF Fill
<1>1. Magnitude(Append(s, b)) = Magnitude(s) + Power[Len(s)] * b /\ Len(Append(s, b)) = Len(s) + 1
  BY <1>0, AppendByte
<1>2. Negative(Append(s, b)) <=> Negative(s)
  BY <1>0, NegativeAppend, FillFacts
<1>3. Power[Len(s)] \in Int /\ Power[Len(s) + 1] = Base * Power[Len(s)] /\ Magnitude(s) \in Int
  BY BytesAre, PowerNext, MagnitudeType
<1>4. CASE Negative(s)
  <2>1. b = Base - 1
    BY <1>4 DEF Fill, Full
  <2>2. \A m, p \in Int : (m + p * (Base - 1)) - Base * p = m - p
    BY NumbersAssumption
  <2> HIDE DEF b
  <2>3. Value(Append(s, b)) = Magnitude(Append(s, b)) - Power[Len(Append(s, b))]
    BY <1>2, <1>4 DEF Value
  <2>4. Value(s) = Magnitude(s) - Power[Len(s)]
    BY <1>4 DEF Value
  <2>. QED BY <1>1, <1>3, <2>1, <2>2, <2>3, <2>4, ZenonT(60) DEF b
<1>5. CASE ~Negative(s)
  <2>1. b = 0
    BY <1>5 DEF Fill
  <2>2. \A m, p \in Int : m + p * 0 = m
    OBVIOUS
  <2> HIDE DEF b
  <2>3. Value(Append(s, b)) = Magnitude(Append(s, b)) /\ Value(s) = Magnitude(s)
    BY <1>2, <1>5 DEF Value
  <2>. QED BY <1>1, <1>3, <2>1, <2>2, <2>3 DEF b
<1>. QED BY <1>4, <1>5

\* Digits.
LEMMA DigitsFacts ==
  ASSUME NEW n \in Nat
  PROVE  /\ Digits[n] \in Seq(Byte) /\ Magnitude(Digits[n]) = n
         /\ n > 0 => Digits[n] # <<>> /\ Len(Digits[n]) \in Nat \ {0} /\ Digits[n][Len(Digits[n])] # 0
<1> DEFINE P(k) == /\ Magnitude(Digits[k]) = k
                   /\ k > 0 => Digits[k] # <<>> /\ Digits[k][Len(Digits[k])] # 0
           T == {k \in Nat : ~P(k)}
<1>1. ASSUME T # {} PROVE FALSE
  <2>1. PICK k \in T : \A j \in T : k <= j
    <3>0. T \in SUBSET Nat
      OBVIOUS
    <3> HIDE DEF T
    <3>. QED BY <1>1, <3>0, LeastOf
  <2>2. k \in Nat /\ ~P(k)
    OBVIOUS
  <2>3. k # 0
    <3>1. Digits[0] = <<>>
      BY DigitsDef, Zenon
    <3>2. Magnitude(Digits[0]) = 0 /\ ~(0 > 0)
      BY <3>1, MagnitudeEmpty
    <3>. QED BY <2>2, <3>2
  <2> DEFINE q == k \div Base
             r == k % Base
  <2>4. k = Base * q + r /\ r \in Byte /\ q \in Nat /\ q < k
    BY <2>2, <2>3, ByBase
  <2>5. ~(k <= q)
    BY <2>2, <2>4
  <2>6. P(q)
    <3> HIDE DEF P, q
    <3>. QED BY <2>1, <2>4, <2>5
  <2>7. Digits[k] = <<r>> \o Digits[q] /\ Digits[q] \in Seq(Byte)
    BY <2>2, <2>3, <2>4, DigitsDef
  <2>8. /\ Magnitude(Digits[k]) = r + Base * Magnitude(Digits[q])
        /\ Digits[k] \in Seq(Byte) /\ Len(Digits[k]) = Len(Digits[q]) + 1
        /\ Digits[k][1] = r /\ \A i \in 1..Len(Digits[q]) : Digits[k][i + 1] = Digits[q][i]
    BY <2>4, <2>7, FirstByte
  <2>9. Magnitude(Digits[k]) = k
    <3> HIDE DEF q, r
    <3>1. Base * q \in Int /\ r \in Int
      BY <2>4, FillFacts DEF Byte
    <3>. QED BY <2>4, <2>6, <2>8, <3>1
  <2>10. Digits[k] # <<>> /\ Digits[k][Len(Digits[k])] # 0
    <3> HIDE DEF r
    <3>1. CASE q = 0
      <4>1. Len(Digits[q]) = 0 /\ k = r
        <5>1. Base * 0 + r = r
          BY <2>4, FillFacts DEF Byte
        <5>2. Len(Digits[0]) = 0
          <6>1. Digits[0] = <<>>
            BY DigitsDef, Zenon
          <6>. QED BY <6>1
        <5> HIDE DEF q
        <5>. QED BY <3>1, <5>1, <5>2, <2>4
      <4>2. Len(Digits[k]) = 1 /\ Digits[k][1] # 0
        BY <4>1, <2>3, <2>8
      <4>. QED BY <4>2
    <3>2. CASE q # 0
      <4> HIDE DEF q
      <4>1. Digits[q] # <<>> /\ Digits[q][Len(Digits[q])] # 0
        BY <2>4, <2>6, <3>2
      <4>2. Len(Digits[q]) \in Nat \ {0}
        BY <4>1, <2>7, EmptySeq
      <4>3. Len(Digits[q]) \in 1..Len(Digits[q])
        BY <4>2
      <4>4. Digits[k][Len(Digits[k])] = Digits[q][Len(Digits[q])]
        BY <4>3, <2>8
      <4>5. Len(Digits[k]) # 0
        BY <4>2, <2>8
      <4>. QED BY <4>1, <4>4, <4>5
    <3>. QED BY <3>1, <3>2
  <2>. QED BY <2>2, <2>9, <2>10
<1>2. P(n)
  BY <1>1
<1>3. Digits[n] \in Seq(Byte)
  BY DigitsDef
<1>4. Digits[n] # <<>> => Len(Digits[n]) \in Nat \ {0}
  BY <1>3, EmptySeq
<1>. QED BY <1>2, <1>3, <1>4

\* The low digits of a negative number hold it above the power of their length.
LEMMA LowDigitsFacts ==
  ASSUME NEW n \in Int, n < 0
  PROVE  /\ LowDigits[n] \in Seq(Byte)
         /\ Magnitude(LowDigits[n]) = n + Power[Len(LowDigits[n])]
         /\ LowDigits[n] # <<>> => LowDigits[n][Len(LowDigits[n])] # Full
<1> DEFINE P(k) == /\ Magnitude(LowDigits[k]) = k + Power[Len(LowDigits[k])]
                   /\ LowDigits[k] # <<>> => LowDigits[k][Len(LowDigits[k])] # Full
           T == {j \in Nat : ~P(-1 - j)}
<1>1. ASSUME T # {} PROVE FALSE
  <2>1. PICK j \in T : \A i \in T : j <= i
    <3>0. T \in SUBSET Nat
      OBVIOUS
    <3> HIDE DEF T
    <3>. QED BY <1>1, <3>0, LeastOf
  <2>1a. PICK k \in Int : k = -1 - j /\ k < 0
    OBVIOUS
  <2>2. k \in Int /\ k < 0 /\ ~P(k)
    BY <2>1a
  <2>3. k # -1
    <3>1. Magnitude(<<>>) = -1 + Power[0] /\ Len(<<>>) = 0
      BY MagnitudeEmpty, PowerSmall
    <3>. QED BY <2>2, <3>1, LowDigitsDef
  <2> DEFINE q == k \div Base
             r == k % Base
  <2>4. k = Base * q + r /\ r \in Byte /\ q \in Int /\ k < q /\ q < 0 /\ k < -1
    BY <2>2, <2>3, ByBase
  <2>5. -1 - q \in Nat /\ ~(j <= -1 - q) /\ -1 - (-1 - q) = q
    <3> HIDE DEF q
    <3>. QED BY <2>1a, <2>4
  <2>6. P(q)
    <3> HIDE DEF P, q
    <3>. QED BY <2>1, <2>5
  <2>7. LowDigits[k] = <<r>> \o LowDigits[q] /\ LowDigits[q] \in Seq(Byte)
    BY <2>2, <2>3, <2>4, LowDigitsDef
  <2>8. /\ Magnitude(LowDigits[k]) = r + Base * Magnitude(LowDigits[q])
        /\ LowDigits[k] \in Seq(Byte) /\ Len(LowDigits[k]) = Len(LowDigits[q]) + 1
        /\ LowDigits[k][1] = r /\ \A i \in 1..Len(LowDigits[q]) : LowDigits[k][i + 1] = LowDigits[q][i]
    BY <2>4, <2>7, FirstByte
  <2>9. Magnitude(LowDigits[k]) = k + Power[Len(LowDigits[k])]
    <3> HIDE DEF q, r
    <3>1. r \in Int /\ q \in Int
      BY <2>4, FillFacts DEF Byte
    <3>2. Power[Len(LowDigits[q])] \in Int /\ Power[Len(LowDigits[q]) + 1] = Base * Power[Len(LowDigits[q])]
      BY <2>7, BytesAre, PowerNext
    <3>3. ASSUME NEW p \in Int PROVE r + Base * (q + p) = (Base * q + r) + Base * p
      BY <3>1, NumbersAssumption
    <3>. QED BY <2>4, <2>6, <2>8, <3>2, <3>3
  <2>10. LowDigits[k][Len(LowDigits[k])] # Full
    <3> HIDE DEF r
    <3>1. CASE q = -1
      <4>1. Len(LowDigits[q]) = 0 /\ k = r - Base
        <5>1. Base * (-1) + r = r - Base
          BY <2>4, FillFacts DEF Byte
        <5> HIDE DEF q
        <5>. QED BY <3>1, <5>1, <2>4, LowDigitsDef
      <4>2. Len(LowDigits[k]) = 1 /\ LowDigits[k][1] = r
        BY <4>1, <2>8
      <4>3. r # Full
        BY FillFacts, <4>1, <2>3
      <4>. QED BY <4>2, <4>3
    <3>2. CASE q # -1
      <4> HIDE DEF q
      <4>0. q < -1
        BY <2>4, <3>2
      <4>1. LowDigits[q] # <<>>
        <5>1. LowDigits[q] = <<q % Base>> \o LowDigits[q \div Base] /\ LowDigits[q \div Base] \in Seq(Byte)
              /\ q % Base \in Byte
          BY <4>0, <2>4, ByBase, LowDigitsDef
        <5>2. Len(LowDigits[q]) = Len(LowDigits[q \div Base]) + 1 /\ Len(LowDigits[q \div Base]) \in Nat
          BY <5>1, FirstByte, BytesAre
        <5>. QED BY <5>2
      <4>1a. LowDigits[q][Len(LowDigits[q])] # Full
        BY <4>1, <2>6
      <4>2. Len(LowDigits[q]) \in Nat \ {0}
        BY <4>1, <2>7, EmptySeq
      <4>3. Len(LowDigits[q]) \in 1..Len(LowDigits[q])
        BY <4>2
      <4>4. LowDigits[k][Len(LowDigits[k])] = LowDigits[q][Len(LowDigits[q])]
        BY <4>3, <2>8
      <4>. QED BY <4>1a, <4>4
    <3>. QED BY <3>1, <3>2
  <2>. QED BY <2>2, <2>9, <2>10
<1>2. P(n)
  <2>1. -1 - n \in Nat /\ -1 - (-1 - n) = n
    OBVIOUS
  <2> HIDE DEF P
  <2>. QED BY <1>1, <2>1
<1>3. LowDigits[n] \in Seq(Byte)
  BY LowDigitsDef
<1>. QED BY <1>2, <1>3

\* Bytes that stand for a number in two's complement.
Encodes(s, n) == s \in Seq(Byte) /\ s # <<>> /\ Value(s) = n

\* The form of C# stands for its number.
LEMMA CsharpEncodes ==
  ASSUME NEW n \in Int
  PROVE  Encodes(bigIntToCsharpLE(n), n)
<1>1. CASE n = 0
  BY FillFacts, MagnitudeOne, <1>1 DEF Negative, bigIntToCsharpLE, Encodes, Value
<1>2. CASE n > 0
  <2> DEFINE bytes == Digits[n]
  <2>1. bytes \in Seq(Byte) /\ Magnitude(bytes) = n /\ bytes # <<>>
    BY <1>2, DigitsFacts
  <2>2. bigIntToCsharpLE(n) = IF Negative(bytes) THEN Append(bytes, 0) ELSE bytes
    BY <1>2 DEF bigIntToCsharpLE
  <2> HIDE DEF bytes
  <2>3. CASE Negative(bytes)
    <3>1. /\ Append(bytes, 0) \in Seq(Byte) /\ Append(bytes, 0) # <<>>
          /\ Magnitude(Append(bytes, 0)) = Magnitude(bytes) + Power[Len(bytes)] * 0
          /\ ~Negative(Append(bytes, 0))
      BY <2>1, FillFacts, AppendByte, NegativeAppend
    <3>2. Power[Len(bytes)] * 0 = 0
      BY <2>1, BytesAre, PowerNext, SMTT(20)
    <3>. QED BY <2>1, <2>2, <2>3, <3>1, <3>2 DEF Encodes, Value
  <2>4. CASE ~Negative(bytes)
    BY <2>1, <2>2, <2>4 DEF Encodes, Value
  <2>. QED BY <2>3, <2>4
<1>3. CASE n < 0
  <2> DEFINE bytes == Digits[-n]
             complement == PlusOne(Inverted(bytes))
  <2>0. -n \in Nat /\ -n > 0
    BY <1>3
  <2>1. /\ bytes \in Seq(Byte) /\ Magnitude(bytes) = -n /\ bytes # <<>> /\ Len(bytes) \in Nat \ {0}
        /\ bytes[Len(bytes)] # 0
    BY <2>0, DigitsFacts
  <2>2. bigIntToCsharpLE(n) = IF Negative(complement) THEN complement ELSE Append(complement, Full)
    BY <1>3 DEF bigIntToCsharpLE
  <2> HIDE DEF bytes
  <2>3. /\ Inverted(bytes) \in Seq(Byte) /\ Len(Inverted(bytes)) = Len(bytes)
        /\ Magnitude(Inverted(bytes)) = Power[Len(bytes)] - 1 - Magnitude(bytes)
        /\ \A i \in 1..Len(bytes) : Inverted(bytes)[i] = Full - bytes[i]
    BY <2>1, InvertedFacts
  <2>4. Len(bytes) \in 1..Len(bytes) /\ Inverted(bytes)[Len(bytes)] # Full
    BY <2>1, <2>3, BytesAre, FillFacts
  <2>5. \E i \in 1..Len(Inverted(bytes)) : Inverted(bytes)[i] # Full
    BY <2>3, <2>4
  <2>6. /\ complement \in Seq(Byte) /\ Len(complement) = Len(bytes)
        /\ Magnitude(complement) = Magnitude(Inverted(bytes)) + 1
    BY <2>3, <2>5, PlusOneFacts
  <2>7. Power[Len(bytes)] \in Int /\ Power[Len(bytes) + 1] = Base * Power[Len(bytes)]
    BY <2>1, PowerNext
  <2>8. complement # <<>>
    <3> HIDE DEF complement
    <3>. QED BY <2>1, <2>6
  <2> HIDE DEF complement
  <2>9. Magnitude(complement) = n + Power[Len(complement)]
    BY <2>1, <2>3, <2>6, <2>7
  <2>10. CASE Negative(complement)
    BY <2>6, <2>7, <2>9, <2>10, <2>2, <2>8 DEF Value, Encodes
  <2>11. CASE ~Negative(complement)
    <3> DEFINE s == Append(complement, Full)
    <3>1. /\ s \in Seq(Byte) /\ s # <<>> /\ Len(s) = Len(complement) + 1
          /\ Magnitude(s) = Magnitude(complement) + Power[Len(complement)] * Full
          /\ Negative(s)
      BY <2>6, FillFacts, AppendByte, NegativeAppend
    <3> HIDE DEF s
    <3>2. Value(s) = Magnitude(s) - Power[Len(s)]
      BY <3>1 DEF Value
    <3>3. \A p \in Int : (n + p + p * (Base - 1)) - Base * p = n
      BY NumbersAssumption
    <3>4. Value(s) = n
      BY <3>1, <3>2, <3>3, <2>6, <2>7, <2>9 DEF Full
    <3>. QED BY <2>2, <2>11, <3>1, <3>4 DEF Encodes, s
  <2>. QED BY <2>10, <2>11
<1>. QED BY <1>1, <1>2, <1>3

\* One more fill byte changes nothing.
LEMMA AppendFill ==
  ASSUME NEW n \in Int, NEW s, Encodes(s, n), NEW b, b = Fill(n < 0)
  PROVE  Encodes(Append(s, b), n)
<1>1. s \in Seq(Byte) /\ s # <<>> /\ Value(s) = n
  BY DEF Encodes
<1>2. Negative(s) <=> n < 0
  BY <1>1, ValueFacts
<1>3. b = Fill(Negative(s)) /\ b \in Byte
  BY <1>2, FillFacts DEF Fill
<1>4. Value(Append(s, b)) = n
  BY <1>1, <1>3, ExtendOne
<1>. QED BY <1>1, <1>3, <1>4, AppendByte DEF Encodes

\* The form of the old chain stands for its number.
LEMMA PhantasmaEncodes ==
  ASSUME NEW n \in Int
  PROVE  Encodes(bigIntToTwosComplementLE_phantasma(n), n)
<1> DEFINE cs == bigIntToCsharpLE(n)
<1>1. Encodes(cs, n)
  BY CsharpEncodes
<1>2. bigIntToTwosComplementLE_phantasma(n) =
        IF n < 0
        THEN IF Len(cs) = 1 THEN cs \o <<Full, Full>>
             ELSE IF cs[Len(cs)] = Full THEN Append(cs, Full)
             ELSE cs
        ELSE IF cs[Len(cs)] # 0 THEN Append(cs, 0) ELSE cs
  BY DEF bigIntToTwosComplementLE_phantasma
<1> HIDE DEF cs
<1>3. CASE n < 0
  <2>1. Fill(n < 0) = Full
    BY <1>3 DEF Fill
  <2>2. Encodes(Append(cs, Full), n)
    BY <1>1, <2>1, AppendFill
  <2>3. Encodes(Append(Append(cs, Full), Full), n)
    BY <2>1, <2>2, AppendFill
  <2>4. cs \o <<Full, Full>> = Append(Append(cs, Full), Full)
    BY <1>1, FillFacts DEF Encodes
  <2>. QED BY <1>1, <1>2, <1>3, <2>2, <2>3, <2>4
<1>4. CASE ~(n < 0)
  BY <1>4, <1>1, AppendFill, <1>2 DEF Fill
<1>. QED BY <1>3, <1>4

\* The shortest form stands for its number.
LEMMA ShortestEncodes ==
  ASSUME NEW n \in Int
  PROVE  Encodes(bigIntToTwosComplementLE(n), n)
<1>1. CASE n = 0
  BY FillFacts, MagnitudeOne, <1>1 DEF Negative, bigIntToTwosComplementLE, Encodes, Value
<1>2. CASE n > 0
  <2> DEFINE bytes == Digits[n]
  <2>1. bytes \in Seq(Byte) /\ Magnitude(bytes) = n /\ bytes # <<>>
    BY <1>2, DigitsFacts
  <2>2. bigIntToTwosComplementLE(n) = IF Negative(bytes) THEN Append(bytes, 0) ELSE bytes
    <3> HIDE DEF bytes
    <3>1. ~(n < 0) /\ n # 0
      BY <1>2
    <3>2. Fill(n < 0) = 0
      BY <3>1 DEF Fill
    <3>3. (Negative(bytes) # (n < 0)) <=> Negative(bytes)
      BY <3>1 DEF Negative, SignBit
    <3>4. bigIntToTwosComplementLE(n) =
             IF bytes = <<>> \/ Negative(bytes) # (n < 0) THEN Append(bytes, Fill(n < 0)) ELSE bytes
      BY <3>1 DEF bigIntToTwosComplementLE, bytes
    <3>. QED BY <2>1, <3>2, <3>3, <3>4
  <2> HIDE DEF bytes
  <2>3. CASE Negative(bytes)
    <3>1. /\ Append(bytes, 0) \in Seq(Byte) /\ Append(bytes, 0) # <<>>
          /\ Magnitude(Append(bytes, 0)) = Magnitude(bytes) + Power[Len(bytes)] * 0
          /\ ~Negative(Append(bytes, 0))
      BY <2>1, FillFacts, AppendByte, NegativeAppend
    <3>2. Power[Len(bytes)] * 0 = 0
      BY <2>1, BytesAre, PowerNext, SMTT(20)
    <3>. QED BY <2>1, <2>2, <2>3, <3>1, <3>2 DEF Encodes, Value
  <2>4. CASE ~Negative(bytes)
    BY <2>1, <2>2, <2>4 DEF Encodes, Value
  <2>. QED BY <2>3, <2>4
<1>3. CASE n < 0
  <2> DEFINE bytes == LowDigits[n]
  <2>1. bytes \in Seq(Byte) /\ Magnitude(bytes) = n + Power[Len(bytes)]
    BY <1>3, LowDigitsFacts
  <2>2. bigIntToTwosComplementLE(n) = IF bytes = <<>> \/ ~Negative(bytes) THEN Append(bytes, Full) ELSE bytes
    <3> HIDE DEF bytes
    <3>2. Fill(n < 0) = Full
      BY <1>3 DEF Fill
    <3>3. (Negative(bytes) # (n < 0)) <=> ~Negative(bytes)
      BY <1>3 DEF Negative, SignBit
    <3>4. bigIntToTwosComplementLE(n) =
             IF bytes = <<>> \/ Negative(bytes) # (n < 0) THEN Append(bytes, Fill(n < 0)) ELSE bytes
      BY <1>3 DEF bigIntToTwosComplementLE, bytes
    <3>. QED BY <3>2, <3>3, <3>4
  <2> HIDE DEF bytes
  <2>7. Power[Len(bytes)] \in Int /\ Power[Len(bytes) + 1] = Base * Power[Len(bytes)]
    BY <2>1, BytesAre, PowerNext
  <2>10. CASE bytes # <<>> /\ Negative(bytes)
    BY <2>1, <2>7, <2>10, <2>2 DEF Value, Encodes
  <2>11. CASE bytes = <<>> \/ ~Negative(bytes)
    <3> DEFINE s == Append(bytes, Full)
    <3>1. /\ s \in Seq(Byte) /\ s # <<>> /\ Len(s) = Len(bytes) + 1
          /\ Magnitude(s) = Magnitude(bytes) + Power[Len(bytes)] * Full
          /\ Negative(s)
      BY <2>1, FillFacts, AppendByte, NegativeAppend
    <3> HIDE DEF s
    <3>2. Value(s) = Magnitude(s) - Power[Len(s)]
      BY <3>1 DEF Value
    <3>3. \A p \in Int : (n + p + p * (Base - 1)) - Base * p = n
      BY NumbersAssumption
    <3>4. Value(s) = n
      BY <3>1, <3>2, <3>3, <2>1, <2>7 DEF Full
    <3>. QED BY <2>2, <2>11, <3>1, <3>4 DEF Encodes, s
  <2>. QED BY <2>10, <2>11
<1>. QED BY <1>1, <1>2, <1>3

\* Both decoders give the number back from each of the three forms.
LEMMA EncodedIsRead ==
  ASSUME NEW n \in Int
  PROVE  \A s \in {bigIntToCsharpLE(n), bigIntToTwosComplementLE_phantasma(n), bigIntToTwosComplementLE(n)} :
            /\ bigIntFromTwosComplementLE_phantasma(s) = n
            /\ twosComplementLEToBigInt(s) = n
<1>1. ASSUME NEW s, Encodes(s, n)
      PROVE  bigIntFromTwosComplementLE_phantasma(s) = n /\ twosComplementLEToBigInt(s) = n
  BY <1>1, DecodersGiveValue DEF Encodes
<1>. QED BY <1>1, CsharpEncodes, PhantasmaEncodes, ShortestEncodes

-----------------------------------------------------------------------------
(* Words.                                                                  *)

\* Powers of a sum.
LEMMA PowerAdd ==
  ASSUME NEW m \in Nat, NEW n \in Nat
  PROVE  Power[m + n] = Power[m] * Power[n]
<1> DEFINE T == {k \in Nat : Power[m + k] = Power[m] * Power[k]}
<1>1. 0 \in T
  BY PowerNext, PowerSmall
<1>2. ASSUME NEW k \in T PROVE k + 1 \in T
  <2>1. k \in Nat /\ Power[m + k] = Power[m] * Power[k] /\ m + (k + 1) = (m + k) + 1 /\ m + k \in Nat
    OBVIOUS
  <2>2. Power[(m + k) + 1] = Base * Power[m + k] /\ Power[k + 1] = Base * Power[k]
    BY <2>1, PowerNext
  <2>3. Power[m] \in Int /\ Power[k] \in Int /\ Base \in Int
    BY <2>1, PowerNext, FillFacts
  <2>4. \A b, p, q \in Int : b * (p * q) = p * (b * q)
    OBVIOUS
  <2>. QED BY <2>1, <2>2, <2>3, <2>4
<1>3. T = Nat
  <2>1. T \in SUBSET Nat
    OBVIOUS
  <2> HIDE DEF T
  <2>. QED BY <1>1, <1>2, <2>1, SetInduction
<1>. QED BY <1>3

\* Powers grow, and at least double.
LEMMA PowerOrder ==
  ASSUME NEW m \in Nat, NEW n \in Nat
  PROVE  /\ m <= n => Power[m] <= Power[n]
         /\ m < n => 2 * Power[m] <= Power[n]
<1>1. ASSUME m <= n PROVE Power[m] <= Power[n]
  <2>1. n - m \in Nat /\ m + (n - m) = n
    BY <1>1
  <2>2. Power[n] = Power[m] * Power[n - m]
    BY <2>1, PowerAdd
  <2>3. Power[m] \in Nat /\ Power[n - m] \in Nat /\ Power[n - m] > 0
    BY <2>1, PowerNext
  <2>4. ASSUME NEW p \in Nat, NEW q \in Nat, q > 0 PROVE p <= p * q
    <3>1. p * 1 <= p * q
      BY <2>4
    <3>. QED BY <3>1
  <2>. QED BY <2>2, <2>3, <2>4
<1>2. ASSUME m < n PROVE 2 * Power[m] <= Power[n]
  <2>1. n - 1 \in Nat /\ (n - 1) + 1 = n /\ n - 1 - m \in Nat /\ m + (n - 1 - m) = n - 1
    BY <1>2
  <2>2. Power[n] = Base * Power[n - 1] /\ Power[n - 1] \in Nat
    BY <2>1, PowerNext
  <2>3. Power[n - 1] = Power[m] * Power[n - 1 - m]
    BY <2>1, PowerAdd
  <2>4. Power[m] \in Nat /\ Power[n - 1 - m] \in Nat /\ Power[n - 1 - m] > 0
    BY <2>1, PowerNext
  <2>5. ASSUME NEW p \in Nat, NEW q \in Nat, q > 0 PROVE p <= p * q
    <3>1. p * 1 <= p * q
      BY <2>5
    <3>. QED BY <3>1
  <2>6. Power[m] <= Power[n - 1]
    BY <2>3, <2>4, <2>5
  <2>7. ASSUME NEW p \in Nat PROVE 2 * p <= Base * p
    BY NumbersAssumption
  <2>8. 2 * Power[n - 1] <= Base * Power[n - 1]
    BY <2>2, <2>7
  <2>9. \A a, b, c \in Nat : a <= b /\ 2 * b <= c => 2 * a <= c
    OBVIOUS
  <2>10. Power[n] \in Nat
    BY PowerNext
  <2>. QED BY <2>2, <2>4, <2>6, <2>8, <2>9, <2>10
<1>. QED BY <1>1, <1>2

\* All bytes are fill bytes.
LEMMA AllFill ==
  ASSUME NEW t \in Seq(Byte), NEW negative \in BOOLEAN
  PROVE  /\ (\A i \in 1..Len(t) : t[i] = Fill(negative)) <=> t = Repeat(Fill(negative), Len(t))
         /\ t = Repeat(Fill(negative), Len(t)) <=>
              Magnitude(t) = IF negative THEN Power[Len(t)] - 1 ELSE 0
<1> DEFINE r == Repeat(Fill(negative), Len(t))
<1>1. Len(t) \in Nat /\ Fill(negative) \in Byte
  BY BytesAre, FillFacts
<1>2. r \in Seq(Byte) /\ Len(r) = Len(t) /\ \A i \in 1..Len(t) : r[i] = Fill(negative)
  BY <1>1, RepeatFacts
<1>3. Magnitude(r) = IF negative THEN Power[Len(t)] - 1 ELSE 0
  <2>1. CASE negative
    BY <2>1, <1>1, RepeatFacts DEF Fill
  <2>2. CASE ~negative
    BY <2>2, <1>1, RepeatFacts DEF Fill
  <2>. QED BY <2>1, <2>2
<1> HIDE DEF r
<1>4. (\A i \in 1..Len(t) : t[i] = Fill(negative)) => t = r
  BY <1>2, SeqEqual
<1>5. Magnitude(t) = Magnitude(r) => t = r
  BY <1>2, MagnitudeInjective
<1>. QED BY <1>2, <1>3, <1>4, <1>5 DEF r

\* A sign is a Boolean.
LEMMA NegativeIsBoolean == ASSUME NEW s \in Seq(Byte), s # <<>> PROVE Negative(s) \in BOOLEAN
<1>1. s[Len(s)] \in Int
  BY EmptySeq, BytesAre
<1>2. PICK h \in Nat : Base \div 2 = h
  BY HalfBase
<1>. QED BY <1>1, <1>2 DEF Negative, SignBit

\* A sequence in two parts.
LEMMA TakeDrop ==
  ASSUME NEW s \in Seq(Byte), NEW n \in 0..Len(s)
  PROVE  /\ Take(s, n) \in Seq(Byte) /\ Len(Take(s, n)) = n /\ \A i \in 1..n : Take(s, n)[i] = s[i]
         /\ Drop(s, n) \in Seq(Byte) /\ Len(Drop(s, n)) = Len(s) - n
         /\ \A i \in 1..(Len(s) - n) : Drop(s, n)[i] = s[n + i]
         /\ s = Take(s, n) \o Drop(s, n)
         /\ Magnitude(s) = Magnitude(Take(s, n)) + Power[n] * Magnitude(Drop(s, n))
<1> DEFINE a == Take(s, n)
           b == Drop(s, n)
<1>0. Len(s) \in Nat /\ n \in Nat /\ \A i \in 1..Len(s) : s[i] \in Byte
  BY BytesAre
<1>1. a \in Seq(Byte) /\ Len(a) = n /\ \A i \in 1..n : a[i] = s[i]
  <2>1. \A i \in 1..n : s[i] \in Byte
    BY <1>0
  <2>2. /\ a \in Seq(Byte) /\ Len(a) = IF 1 <= n THEN n - 1 + 1 ELSE 0
        /\ \A i \in 1..(n - 1 + 1) : a[i] = s[1 + i - 1]
    BY <1>0, <2>1, SubSeqProperties, SMTT(30) DEF Take
  <2>3. n - 1 + 1 = n /\ (\A i \in 1..n : 1 + i - 1 = i) /\ (1 <= n \/ n = 0)
    BY <1>0
  <2> HIDE DEF a
  <2>. QED BY <2>2, <2>3
<1>2. b \in Seq(Byte) /\ Len(b) = Len(s) - n /\ \A i \in 1..(Len(s) - n) : b[i] = s[n + i]
  <2>1. \A i \in (n + 1)..Len(s) : s[i] \in Byte
    BY <1>0
  <2>2. /\ b \in Seq(Byte) /\ Len(b) = IF n + 1 <= Len(s) THEN Len(s) - (n + 1) + 1 ELSE 0
        /\ \A i \in 1..(Len(s) - (n + 1) + 1) : b[i] = s[(n + 1) + i - 1]
    BY <1>0, <2>1, SubSeqProperties DEF Drop
  <2>3. /\ Len(s) - (n + 1) + 1 = Len(s) - n /\ (\A i \in 1..(Len(s) - n) : (n + 1) + i - 1 = n + i)
        /\ (n + 1 <= Len(s) \/ Len(s) - n = 0)
    BY <1>0
  <2> HIDE DEF b
  <2>. QED BY <2>2, <2>3, Zenon
<1> HIDE DEF a, b
<1>3. s = a \o b
  <2>1. /\ a \o b \in Seq(Byte) /\ Len(a \o b) = n + (Len(s) - n)
        /\ \A i \in 1..(n + (Len(s) - n)) : (a \o b)[i] = IF i <= n THEN a[i] ELSE b[i - n]
    BY <1>1, <1>2, ConcatProperties
  <2>2. n + (Len(s) - n) = Len(s)
    BY <1>0
  <2>3. ASSUME NEW i \in 1..Len(s) PROVE (a \o b)[i] = s[i]
    <3>1. CASE i <= n
      BY <3>1, <1>0, <1>1, <2>1, <2>2
    <3>2. CASE ~(i <= n)
      <4>1. i - n \in 1..(Len(s) - n) /\ n + (i - n) = i
        BY <3>2, <1>0
      <4>2. (a \o b)[i] = b[i - n] /\ b[i - n] = s[n + (i - n)]
        BY <3>2, <4>1, <1>2, <2>1, <2>2
      <4>. QED BY <4>1, <4>2
    <3>. QED BY <3>1, <3>2
  <2>. QED BY <2>1, <2>2, <2>3, SeqEqual
<1>4. Magnitude(a \o b) = Magnitude(a) + Power[n] * Magnitude(b)
  BY <1>1, <1>2, MagnitudeConcat
<1>. QED BY <1>1, <1>2, <1>3, <1>4 DEF a, b

\* The fill bytes above p.
LEMMA Filled ==
  ASSUME NEW p \in Seq(Byte), NEW negative \in BOOLEAN, NEW n \in Nat
  PROVE  LET s == p \o Repeat(Fill(negative), n) IN
         /\ s \in Seq(Byte) /\ Len(s) = Len(p) + n
         /\ \A i \in 1..Len(p) : s[i] = p[i]
         /\ \A i \in (Len(p) + 1)..(Len(p) + n) : s[i] = Fill(negative)
         /\ Magnitude(s) = IF negative THEN Magnitude(p) - Power[Len(p)] + Power[Len(p) + n] ELSE Magnitude(p)
<1> DEFINE r == Repeat(Fill(negative), n)
           s == p \o r
<1>0. Len(p) \in Nat /\ Fill(negative) \in Byte
  BY BytesAre, FillFacts
<1>1. r \in Seq(Byte) /\ Len(r) = n /\ \A i \in 1..n : r[i] = Fill(negative)
  BY <1>0, RepeatFacts
<1>2. Magnitude(r) = IF negative THEN Power[n] - 1 ELSE 0
  BY <1>1, AllFill
<1> HIDE DEF r
<1>3. /\ s \in Seq(Byte) /\ Len(s) = Len(p) + n
      /\ \A i \in 1..(Len(p) + n) : s[i] = IF i <= Len(p) THEN p[i] ELSE r[i - Len(p)]
  BY <1>1, ConcatProperties
<1>4. \A i \in 1..Len(p) : s[i] = p[i]
  <2>1. \A i \in 1..Len(p) : i \in 1..(Len(p) + n) /\ i <= Len(p)
    BY <1>0
  <2> HIDE DEF s
  <2>. QED BY <2>1, <1>3
<1>5. \A i \in (Len(p) + 1)..(Len(p) + n) : s[i] = Fill(negative)
  <2>1. \A i \in (Len(p) + 1)..(Len(p) + n) : i \in 1..(Len(p) + n) /\ ~(i <= Len(p)) /\ i - Len(p) \in 1..n
    BY <1>0
  <2> HIDE DEF s
  <2>. QED BY <2>1, <1>1, <1>3
<1>6. Magnitude(s) = Magnitude(p) + Power[Len(p)] * Magnitude(r)
  BY <1>1, MagnitudeConcat
<1>7. Power[Len(p) + n] = Power[Len(p)] * Power[n] /\ Power[Len(p)] \in Int /\ Power[n] \in Int /\ Magnitude(p) \in Int
  BY <1>0, PowerAdd, PowerNext, MagnitudeType
<1>8. \A m, a, b \in Int : m + a * (b - 1) = m - a + a * b /\ m + a * 0 = m
  OBVIOUS
<1> HIDE DEF s
<1>9. Magnitude(s) = IF negative THEN Magnitude(p) - Power[Len(p)] + Power[Len(p) + n] ELSE Magnitude(p)
  BY <1>2, <1>6, <1>7, <1>8, SMTT(20)
<1>. QED BY <1>3, <1>4, <1>5, <1>9 DEF s, r

\* A number whose bits fit in a word, signed or not.
InWord(n) == -Power[WordSize] <= n /\ n < Power[WordSize]
\* The word of n: its low bits.
IsWord(word, n) ==
    /\ word \in Seq(Byte) /\ Len(word) = WordSize
    /\ Magnitude(word) = IF n < 0 THEN n + Power[WordSize] ELSE n

\* What normalizeBigIntWord makes of bytes that stand for a number.
LEMMA NormalizeGivesWord ==
  ASSUME NEW n \in Int, NEW s, Encodes(s, n)
  PROVE  /\ InWord(n) => IsWord(normalizeBigIntWord(s), n)
         /\ ~InWord(n) => normalizeBigIntWord(s) = Thrown
<1> DEFINE neg == Negative(s)
           fill == Fill(neg)
           L == Len(s)
<1>1. s \in Seq(Byte) /\ s # <<>> /\ Value(s) = n
  BY DEF Encodes
<1>2. neg \in BOOLEAN /\ (neg <=> n < 0)
  BY <1>1, NegativeIsBoolean, ValueFacts
<1>3. L \in Nat \ {0} /\ WordSize \in Nat
  BY <1>1, EmptySeq, NumbersAssumption
<1>4. Magnitude(s) = IF n < 0 THEN n + Power[L] ELSE n
  <2>1. Power[L] \in Int /\ Magnitude(s) \in Int
    BY <1>1, <1>3, PowerNext, MagnitudeType
  <2>. QED BY <1>1, <1>2, <2>1 DEF Value
<1>5. -Power[L] <= n /\ n < Power[L]
  <2>1. -Power[L] <= 2 * n /\ 2 * n < Power[L] /\ Power[L] \in Nat
    BY <1>1, <1>3, ValueFacts, PowerNext
  <2>. QED BY <2>1
<1>6. normalizeBigIntWord(s) =
        IF \E i \in (WordSize + 1)..L : s[i] # fill THEN Thrown
        ELSE IF L > WordSize THEN Take(s, WordSize)
        ELSE s \o Repeat(fill, WordSize - L)
  BY DEF normalizeBigIntWord
<1> HIDE DEF neg
<1>7. CASE L <= WordSize
  <2>1. WordSize - L \in Nat /\ L + (WordSize - L) = WordSize /\ ~(L > WordSize) /\ (WordSize + 1)..L = {}
    BY <1>3, <1>7
  <2>2. normalizeBigIntWord(s) = s \o Repeat(fill, WordSize - L)
    BY <1>6, <2>1
  <2>3. LET w == s \o Repeat(fill, WordSize - L) IN
        /\ w \in Seq(Byte) /\ Len(w) = L + (WordSize - L)
        /\ Magnitude(w) = IF neg THEN Magnitude(s) - Power[L] + Power[L + (WordSize - L)] ELSE Magnitude(s)
    BY <1>1, <1>2, <2>1, Filled, ZenonT(60)
  <2>4. Power[L] \in Int /\ Power[WordSize] \in Int /\ Power[L] <= Power[WordSize]
    BY <1>3, <1>7, PowerNext, PowerOrder
  <2>5. InWord(n)
    BY <1>5, <2>4 DEF InWord
  <2>6. IsWord(normalizeBigIntWord(s), n)
    <3> DEFINE w == s \o Repeat(fill, WordSize - L)
    <3>1. /\ w \in Seq(Byte) /\ Len(w) = WordSize
          /\ Magnitude(w) = IF neg THEN Magnitude(s) - Power[L] + Power[WordSize] ELSE Magnitude(s)
      BY <2>1, <2>3
    <3> HIDE DEF w
    <3>2. Magnitude(w) = IF n < 0 THEN n + Power[WordSize] ELSE n
      BY <3>1, <1>2, <1>4, <2>4
    <3>. QED BY <2>2, <3>1, <3>2 DEF IsWord, w
  <2>. QED BY <2>5, <2>6
<1>8. CASE ~(L <= WordSize)
  <2> DEFINE lo == Take(s, WordSize)
             hi == Drop(s, WordSize)
             k == L - WordSize
             p == Power[WordSize]
  <2>1. WordSize \in 0..L /\ k \in Nat /\ WordSize + k = L /\ L > WordSize
    BY <1>3, <1>8
  <2>2. /\ lo \in Seq(Byte) /\ Len(lo) = WordSize
        /\ hi \in Seq(Byte) /\ Len(hi) = k /\ \A i \in 1..k : hi[i] = s[WordSize + i]
        /\ Magnitude(s) = Magnitude(lo) + p * Magnitude(hi)
    BY <1>1, <2>1, TakeDrop, Zenon
  <2> HIDE DEF lo, hi, L, k
  <2>3. (\E i \in (WordSize + 1)..L : s[i] # fill) <=> ~(\A i \in 1..k : hi[i] = fill)
    <3>1. \A i \in 1..k : WordSize + i \in (WordSize + 1)..L
      BY <1>3, <2>1
    <3>2. \A i \in (WordSize + 1)..L : i - WordSize \in 1..k /\ WordSize + (i - WordSize) = i
      BY <1>3, <2>1
    <3>. QED BY <3>1, <3>2, <2>2
  <2>4. (\A i \in 1..k : hi[i] = fill) <=> Magnitude(hi) = IF neg THEN Power[k] - 1 ELSE 0
    BY <1>2, <2>2, AllFill
  <2>5. Magnitude(lo) \in Nat /\ Magnitude(lo) < p /\ Magnitude(hi) \in Nat /\ Magnitude(hi) < Power[k] /\ p \in Nat /\ Power[k] \in Nat /\ Power[L] = p * Power[k]
    BY <1>3, <2>1, <2>2, MagnitudeBounds, PowerNext, PowerAdd
  <2>6. PICK l \in Nat, h \in Nat, q \in Nat, P \in Nat :
          l = Magnitude(lo) /\ h = Magnitude(hi) /\ q = Power[k] /\ P = p
    BY <2>5
  <2>7. l < P /\ h < q /\ (IF n < 0 THEN n + P * q ELSE n) = l + P * h
    BY <1>4, <2>2, <2>5, <2>6
  <2>8. normalizeBigIntWord(s) = IF h = (IF neg THEN q - 1 ELSE 0) THEN lo ELSE Thrown
    BY <1>6, <2>1, <2>3, <2>4, <2>6 DEF lo
  <2>9. CASE n < 0
    <3>1. n = l + P * h - P * q
      BY <2>7, <2>9
    <3>2. CASE h = q - 1
      <4>1. P * (q - 1) = P * q - P /\ P * q \in Int
        OBVIOUS
      <4>2. n = l - P
        BY <3>1, <3>2, <4>1
      <4>3. InWord(n) /\ Magnitude(lo) = n + Power[WordSize]
        BY <4>2, <2>6, <2>7, <2>9 DEF InWord
      <4>. QED BY <4>3, <3>2, <2>2, <2>8, <2>9, <1>2 DEF IsWord
    <3>3. CASE h # q - 1
      <4>1. h <= q - 2 /\ q - 2 \in Int
        BY <3>3, <2>7
      <4>2. P * h <= P * (q - 2) /\ P * (q - 2) = P * q - 2 * P /\ P * q \in Int /\ P * h \in Int
        BY <4>1
      <4>3. n < -P
        BY <3>1, <4>2, <2>7
      <4>4. ~InWord(n)
        BY <4>3, <2>6 DEF InWord
      <4>. QED BY <4>4, <3>3, <2>8, <2>9, <1>2
    <3>. QED BY <3>2, <3>3
  <2>10. CASE ~(n < 0)
    <3>1. n = l + P * h
      BY <2>7, <2>10
    <3>2. CASE h = 0
      BY <3>1, <3>2, <2>6, <2>7, <2>10, <2>2, <2>8, <1>2 DEF InWord, IsWord
    <3>3. CASE h # 0
      <4>1. P * 1 <= P * h /\ P * 1 = P /\ P * h \in Int
        BY <3>3
      <4>3. n >= P
        BY <3>1, <4>1
      <4>4. ~InWord(n)
        BY <4>3, <2>6 DEF InWord
      <4>. QED BY <4>4, <3>3, <2>8, <2>10, <1>2
    <3>. QED BY <3>2, <3>3
  <2>. QED BY <2>9, <2>10
<1>. QED BY <1>7, <1>8

-----------------------------------------------------------------------------
(* The compact form.                                                       *)

\* The remainder of a multiple and a rest.
LEMMA Remainder ==
  ASSUME NEW b \in Int, NEW q \in Int, NEW r \in Int, b > 0, 0 <= r, r < b
  PROVE (b * q + r) % b = r
OBVIOUS

\* The word of a number.
LEMMA WordFacts ==
  ASSUME NEW n \in Int, NEW word, InWord(n), IsWord(word, n)
  PROVE  /\ word \in Seq(Byte) /\ word # <<>> /\ Len(word) = WordSize /\ word # Thrown
         /\ n % Power[WordSize] = Magnitude(word)
         /\ Negative(word) \in BOOLEAN
         /\ Value(word) = AsWord(n) /\ AsWord(n) \in Int
<1> DEFINE P == Power[WordSize]
<1>1. word \in Seq(Byte) /\ Len(word) = WordSize /\ Magnitude(word) = IF n < 0 THEN n + P ELSE n
  BY DEF IsWord
<1>2. WordSize \in Nat /\ WordSize # 0 /\ P \in Nat /\ P > 0
  BY NumbersAssumption, PowerNext
<1>3. word # <<>> /\ word # Thrown
  BY <1>1, <1>2, ThrownAssumption
<1>4. Magnitude(word) \in Nat /\ Magnitude(word) < P
  BY <1>1, MagnitudeBounds
<1>5. n % P = Magnitude(word)
  <2>1. PICK p \in Nat : p = P /\ p > 0
    BY <1>2
  <2>2. PICK m \in Nat : m = Magnitude(word) /\ m < p
    BY <1>4, <2>1
  <2>3. n = p * 0 + m \/ n = p * (-1) + m
    BY <1>1, <2>1, <2>2
  <2>4. (p * 0 + m) % p = m /\ (p * (-1) + m) % p = m
    <3>1. ASSUME NEW q \in Int PROVE (p * q + m) % p = m
      BY <2>1, <2>2, Remainder
    <3>. QED BY <3>1
  <2>. QED BY <2>1, <2>2, <2>3, <2>4
<1>6. PICK h \in Nat : P = 2 * h /\ P \div 2 = h
  <2>1. PICK b \in Nat : Base = 2 * b
    BY HalfBase
  <2>2. WordSize - 1 \in Nat /\ (WordSize - 1) + 1 = WordSize
    BY <1>2
  <2>3. Power[WordSize - 1] \in Nat /\ P = Base * Power[WordSize - 1]
    BY <2>2, PowerNext
  <2>4. b * Power[WordSize - 1] \in Nat /\ P = 2 * (b * Power[WordSize - 1])
    BY <2>1, <2>3
  <2>5. \A x \in Nat : (2 * x) \div 2 = x
    OBVIOUS
  <2>. QED BY <2>4, <2>5
<1>7. Negative(word) <=> ~(Magnitude(word) < P \div 2)
  BY <1>1, <1>3, NegativeIsUpperHalf, <1>4, <1>6
<1>8. AsWord(n) = IF Magnitude(word) < P \div 2 THEN Magnitude(word) ELSE Magnitude(word) - P
  BY <1>5 DEF AsWord
<1>9. Value(word) = IF Negative(word) THEN Magnitude(word) - P ELSE Magnitude(word)
  BY <1>1 DEF Value
<1>10. Value(word) = AsWord(n)
  BY <1>7, <1>8, <1>9
<1>11. Value(word) \in Int /\ Negative(word) \in BOOLEAN
  BY <1>1, <1>3, ValueFacts, NegativeIsBoolean
<1>. QED BY <1>1, <1>3, <1>5, <1>10, <1>11

\* The length of a word without its fill bytes.
LEMMA SerializedLength ==
  ASSUME NEW word \in Seq(Byte), Len(word) = WordSize, NEW fill
  PROVE  LET l == computeBigIntSerializedLength(word, fill) IN
         /\ l \in 0..WordSize
         /\ \A i \in (l + 1)..WordSize : word[i] = fill
         /\ l = 0 \/ word[l] # fill
<1> DEFINE Q(n) == \A i \in (n + 1)..WordSize : word[i] = fill
           T == {n \in 0..WordSize : Q(n)}
<1>0. WordSize \in Nat
  BY NumbersAssumption
<1>1. WordSize \in T
  BY <1>0
<1>2. PICK n \in T : \A k \in T : n <= k
  <2>1. T \in SUBSET Nat /\ T # {}
    BY <1>1
  <2> HIDE DEF T
  <2>. QED BY <2>1, LeastOf
<1>3. n \in 0..WordSize /\ Q(n)
  OBVIOUS
<1>4. n = 0 \/ word[n] # fill
  <2> SUFFICES ASSUME n # 0, word[n] = fill PROVE FALSE
    OBVIOUS
  <2>1. n - 1 \in 0..WordSize /\ ~(n <= n - 1)
    BY <1>0, <1>3
  <2>2. \A i \in ((n - 1) + 1)..WordSize : i = n \/ i \in (n + 1)..WordSize
    BY <1>0, <1>3
  <2>3. Q(n - 1)
    BY <1>3, <2>2
  <2>4. n - 1 \in T
    <3> HIDE DEF Q
    <3>. QED BY <2>1, <2>3
  <2>. QED BY <1>2, <2>1, <2>4
<1>5. \E l \in 0..WordSize : Q(l) /\ (l = 0 \/ word[l] # fill)
  <2> HIDE DEF Q
  <2>. QED BY <1>3, <1>4
<1>. QED BY <1>5 DEF computeBigIntSerializedLength

\* What writeBigInt gives for a number of a word.
LEMMA Written ==
  ASSUME NEW n \in Int, n # 0, InWord(n)
  PROVE  \E word, l :
            LET neg == Negative(word)
                fill == Fill(neg) IN
            /\ IsWord(word, n)
            /\ l \in 0..WordSize /\ (l = 0 \/ word[l] # fill)
            /\ word = Take(word, l) \o Repeat(fill, WordSize - l)
            /\ writeBigInt(n) = [header |-> Header(l, neg), payload |-> Take(word, l)]
<1> DEFINE word == normalizeBigIntWord(bigIntToTwosComplementLE(n))
           neg == Negative(word)
           fill == Fill(neg)
           l == computeBigIntSerializedLength(word, fill)
<1>1. IsWord(word, n)
  BY ShortestEncodes, NormalizeGivesWord
<1>2. writeBigInt(n) = IF word = Thrown THEN Thrown ELSE [header |-> Header(l, neg), payload |-> Take(word, l)]
  BY n # 0 DEF writeBigInt, Made
<1> HIDE DEF word
<1>3. word \in Seq(Byte) /\ word # <<>> /\ Len(word) = WordSize /\ word # Thrown /\ neg \in BOOLEAN
  BY <1>1, WordFacts
<1>4. l \in 0..WordSize /\ (\A i \in (l + 1)..WordSize : word[i] = fill) /\ (l = 0 \/ word[l] # fill)
  BY <1>3, SerializedLength
<1>5. word = Take(word, l) \o Repeat(fill, WordSize - l)
  <2> HIDE DEF l, neg
  <2> DEFINE hi == Drop(word, l)
  <2>0. WordSize \in Nat /\ WordSize - l \in Nat
    BY <1>4, NumbersAssumption
  <2>1. /\ hi \in Seq(Byte) /\ Len(hi) = WordSize - l /\ (\A i \in 1..(WordSize - l) : hi[i] = word[l + i])
        /\ word = Take(word, l) \o hi
    BY <1>3, <1>4, TakeDrop
  <2> HIDE DEF hi
  <2>2. \A i \in 1..(WordSize - l) : l + i \in (l + 1)..WordSize
    BY <2>0, <1>4
  <2>3. \A i \in 1..Len(hi) : hi[i] = fill
    BY <1>4, <2>1, <2>2
  <2>4. hi = Repeat(fill, WordSize - l)
    BY <1>3, <2>1, <2>3, AllFill
  <2>. QED BY <2>1, <2>4
<1> HIDE DEF l
<1>. QED BY <1>1, <1>2, <1>3, <1>4, <1>5

\* What readBigInt gives.
LEMMA Read ==
  ASSUME NEW l \in 0..WordSize, NEW negative \in BOOLEAN, NEW payload \in Seq(Byte), l <= Len(payload)
  PROVE  LET word == Take(payload, l) \o Repeat(Fill(negative), WordSize - l) IN
         /\ word \in Seq(Byte) /\ word # <<>> /\ Len(word) = WordSize
         /\ Magnitude(word) = IF negative THEN Magnitude(Take(payload, l)) - Power[l] + Power[WordSize]
                              ELSE Magnitude(Take(payload, l))
         /\ \A i \in (l + 1)..WordSize : word[i] = Fill(negative)
         /\ readBigInt(Header(l, negative), payload) =
              IF l = 0 /\ ~negative THEN 0
              ELSE IF Negative(word) # negative THEN Thrown
              ELSE Value(word)
<1> DEFINE p == Take(payload, l)
           word == p \o Repeat(Fill(negative), WordSize - l)
           header == Header(l, negative)
<1>0. WordSize \in Nat \ {0} /\ WordSize - l \in Nat /\ l + (WordSize - l) = WordSize /\ l \in 0..Len(payload) /\ Len(payload) \in Nat
  BY NumbersAssumption, BytesAre
<1>1. p \in Seq(Byte) /\ Len(p) = l
  BY <1>0, TakeDrop
<1>2. /\ word \in Seq(Byte) /\ Len(word) = WordSize
      /\ \A i \in (l + 1)..WordSize : word[i] = Fill(negative)
      /\ Magnitude(word) = IF negative THEN Magnitude(p) - Power[l] + Power[WordSize] ELSE Magnitude(p)
  <2> HIDE DEF p
  <2>1. LET s == p \o Repeat(Fill(negative), WordSize - l) IN
         /\ s \in Seq(Byte) /\ Len(s) = Len(p) + (WordSize - l)
         /\ \A i \in (Len(p) + 1)..(Len(p) + (WordSize - l)) : s[i] = Fill(negative)
         /\ Magnitude(s) = IF negative THEN Magnitude(p) - Power[Len(p)] + Power[Len(p) + (WordSize - l)] ELSE Magnitude(p)
    <3>1. PICK k \in Nat : k = WordSize - l
      BY <1>0
    <3>2. LET s == p \o Repeat(Fill(negative), k) IN
         /\ s \in Seq(Byte) /\ Len(s) = Len(p) + k
         /\ \A i \in 1..Len(p) : s[i] = p[i]
         /\ \A i \in (Len(p) + 1)..(Len(p) + k) : s[i] = Fill(negative)
         /\ Magnitude(s) = IF negative THEN Magnitude(p) - Power[Len(p)] + Power[Len(p) + k] ELSE Magnitude(p)
      BY <1>1, Filled, Zenon
    <3>. QED BY <3>1, <3>2
  <2>. QED BY <2>1, <1>0, <1>1
<1>3. header.length = l /\ header.negative = negative
  BY DEF Header
<1>4. header = ZeroHeader <=> l = 0 /\ ~negative
  BY DEF Header, ZeroHeader
<1>5. readBigInt(header, payload) =
        IF header = ZeroHeader THEN 0
        ELSE IF l > WordSize \/ Len(payload) < l THEN Thrown
        ELSE IF Negative(word) # negative THEN Thrown
        ELSE twosComplementLEToBigInt(word)
  <2> HIDE DEF header
  <2>. QED BY <1>3 DEF readBigInt
<1> HIDE DEF word, header, p
<1>6. ~(l > WordSize \/ Len(payload) < l)
  BY <1>0
<1>7. word # <<>>
  BY <1>0, <1>2
<1>8. twosComplementLEToBigInt(word) = Value(word)
  BY <1>2, <1>7, DecodersGiveValue
<1>9. readBigInt(header, payload) =
              IF l = 0 /\ ~negative THEN 0
              ELSE IF Negative(word) # negative THEN Thrown
              ELSE Value(word)
  BY <1>4, <1>5, <1>6, <1>8
<1>. QED BY <1>2, <1>7, <1>9 DEF word, header, p

-----------------------------------------------------------------------------
(* Reading the compact form.                                               *)

\* Zero is written as a header alone.
LEMMA WordOfZero ==
  /\ writeBigInt(0) = [header |-> ZeroHeader, payload |-> <<>>]
  /\ AsWord(0) = 0
  /\ InWord(0)
<1>1. writeBigInt(0) = [header |-> ZeroHeader, payload |-> <<>>]
  BY DEF writeBigInt
<1>2. Power[WordSize] \in Nat /\ 2 <= Power[WordSize]
  BY NumbersAssumption, PowerOrder, PowerNext, PowerSmall
<1>3. \A p \in Nat : 2 <= p => 0 % p = 0 /\ 0 < p \div 2
  OBVIOUS
<1>4. AsWord(0) = 0
  BY <1>2, <1>3 DEF AsWord
<1>5. InWord(0)
  BY <1>2 DEF InWord
<1>. QED BY <1>1, <1>4, <1>5

\* The reader gives the word back.
LEMMA CompactRead ==
  ASSUME NEW n \in Int, InWord(n)
  PROVE  LET w == writeBigInt(n) IN readBigInt(w.header, w.payload) = AsWord(n)
<1>1. CASE n = 0
  BY <1>1, WordOfZero DEF readBigInt
<1>2. CASE n # 0
  <2>1. PICK word, l :
            LET neg == Negative(word)
                fill == Fill(neg) IN
            /\ IsWord(word, n)
            /\ l \in 0..WordSize /\ (l = 0 \/ word[l] # fill)
            /\ word = Take(word, l) \o Repeat(fill, WordSize - l)
            /\ writeBigInt(n) = [header |-> Header(l, neg), payload |-> Take(word, l)]
    BY <1>2, Written
  <2> DEFINE neg == Negative(word)
             p == Take(word, l)
  <2>2. word \in Seq(Byte) /\ Len(word) = WordSize /\ neg \in BOOLEAN /\ Value(word) = AsWord(n)
    BY <2>1, WordFacts
  <2>3. p \in Seq(Byte) /\ Len(p) = l /\ l \in 0..Len(word)
    BY <2>1, <2>2, TakeDrop
  <2>4. Take(p, l) = p
    BY <2>3, SubSeqFull DEF Take
  <2>5. /\ Magnitude(word) = IF neg THEN Magnitude(p) - Power[l] + Power[WordSize] ELSE Magnitude(p)
        /\ readBigInt(Header(l, neg), p) =
             IF l = 0 /\ ~neg THEN 0 ELSE IF Negative(word) # neg THEN Thrown ELSE Value(word)
    <3> HIDE DEF neg, p
    <3>1. LET v == Take(p, l) \o Repeat(Fill(neg), WordSize - l) IN
            /\ Magnitude(v) = IF neg THEN Magnitude(Take(p, l)) - Power[l] + Power[WordSize] ELSE Magnitude(Take(p, l))
            /\ readBigInt(Header(l, neg), p) =
                 IF l = 0 /\ ~neg THEN 0 ELSE IF Negative(v) # neg THEN Thrown ELSE Value(v)
      <4>1. l \in 0..WordSize /\ l <= Len(p)
        BY <2>1, <2>3
      <4>. QED BY <4>1, <2>2, <2>3, Read
    <3>2. word = p \o Repeat(Fill(neg), WordSize - l)
      BY <2>1 DEF neg, p
    <3>. QED BY <3>1, <3>2, <2>4
  <2>6. l = 0 /\ ~neg => AsWord(n) = 0
    <3> SUFFICES ASSUME l = 0, ~neg PROVE Value(word) = 0
      BY <2>2
    <3>1. Magnitude(p) = 0
      <4>1. p = <<>>
        BY <2>3, EmptySeq
      <4>. QED BY <4>1, MagnitudeEmpty
    <3>2. Magnitude(word) = 0
      BY <2>5, <3>1
    <3>. QED BY <3>2 DEF Value
  <2>7. readBigInt(Header(l, neg), p) = AsWord(n)
    BY <2>2, <2>5, <2>6
  <2>8. writeBigInt(n) = [header |-> Header(l, neg), payload |-> p]
    BY <2>1
  <2> HIDE DEF neg, p
  <2>. QED BY <2>7, <2>8
<1>. QED BY <1>1, <1>2

\* A number that needs more bits than a word has is not written.
LEMMA CompactThrows ==
  ASSUME NEW n \in Int, ~InWord(n)
  PROVE  writeBigInt(n) = Thrown
BY WordOfZero, ShortestEncodes, NormalizeGivesWord DEF writeBigInt, Made

\* No shorter payload is read as the number.
LEMMA CompactShortest ==
  ASSUME NEW n \in Int
  PROVE  NumberShortest(n)
<1> SUFFICES ASSUME AsWord(n) = n
             PROVE  \A k \in 0..(writeBigInt(n).header.length - 1), negative \in BOOLEAN :
                       readBigInt(Header(k, negative), writeBigInt(n).payload) # n
  BY DEF NumberShortest
<1>1. CASE n = 0
  BY <1>1, WordOfZero DEF ZeroHeader, Header
<1>2. CASE n # 0
  <2>0. InWord(n)
    <3>1. PICK P \in Nat : P = Power[WordSize] /\ P > 0
      BY NumbersAssumption, PowerNext
    <3>2. n % P \in 0..(P - 1)
      BY <3>1, Division
    <3>3. PICK b \in 0..(P - 1) : b = n % P
      BY <3>2
    <3>4. n = b \/ n = b - P
      BY <3>1, <3>3 DEF AsWord
    <3>5. -P <= n /\ n < P
      BY <3>4
    <3>. QED BY <3>1, <3>5 DEF InWord
  <2>1. PICK word, l :
            LET neg == Negative(word)
                fill == Fill(neg) IN
            /\ IsWord(word, n)
            /\ l \in 0..WordSize /\ (l = 0 \/ word[l] # fill)
            /\ writeBigInt(n) = [header |-> Header(l, neg), payload |-> Take(word, l)]
    BY <1>2, <2>0, Written
  <2> DEFINE neg == Negative(word)
             p == Take(word, l)
  <2>2. word \in Seq(Byte) /\ word # <<>> /\ Len(word) = WordSize /\ neg \in BOOLEAN /\ Value(word) = n
    BY <2>0, <2>1, WordFacts
  <2>3. p \in Seq(Byte) /\ Len(p) = l /\ l \in 0..Len(word)
    BY <2>1, <2>2, TakeDrop
  <2>4. writeBigInt(n).header.length = l /\ writeBigInt(n).payload = p
    BY <2>1 DEF Header
  <2>5. ASSUME NEW k \in 0..(l - 1), NEW negative \in BOOLEAN
        PROVE  readBigInt(Header(k, negative), p) # n
    <3> DEFINE v == Take(p, k) \o Repeat(Fill(negative), WordSize - k)
    <3>0. l \in Nat /\ WordSize \in Nat /\ k \in 0..WordSize /\ k <= Len(p) /\ l \in (k + 1)..WordSize /\ l # 0
      <4>1. WordSize \in Nat
        BY NumbersAssumption
      <4> HIDE DEF p
      <4>. QED BY <4>1, <2>1, <2>3
    <3>1. /\ v \in Seq(Byte) /\ v # <<>> /\ Len(v) = WordSize
          /\ \A i \in (k + 1)..WordSize : v[i] = Fill(negative)
          /\ readBigInt(Header(k, negative), p) =
               IF k = 0 /\ ~negative THEN 0 ELSE IF Negative(v) # negative THEN Thrown ELSE Value(v)
      <4> HIDE DEF p
      <4>. QED BY <3>0, <2>3, Read
    <3> HIDE DEF v
    <3> SUFFICES ASSUME Negative(v) = negative, Value(v) = n PROVE FALSE
      BY <3>1, <1>2, ThrownAssumption
    <3>2. Magnitude(v) = Magnitude(word) /\ neg = negative
      <4>1. Negative(v) <=> Negative(word)
        BY <2>2, <3>1, ValueFacts
      <4>2. Power[WordSize] \in Int /\ Magnitude(v) \in Int /\ Magnitude(word) \in Int
        BY <2>2, <3>0, <3>1, PowerNext, MagnitudeType
      <4>. QED BY <4>1, <4>2, <2>2, <3>1 DEF Value
    <3>3. v = word
      BY <2>2, <3>1, <3>2, MagnitudeInjective
    <3>4. word[l] = Fill(neg)
      BY <3>0, <3>1, <3>2, <3>3
    <3>. QED BY <2>1, <3>0, <3>4
  <2> HIDE DEF p
  <2>. QED BY <2>4, <2>5
<1>. QED BY <1>1, <1>2

-----------------------------------------------------------------------------
(* IntX, and every number.                                                 *)

\* The bounds of a number of LongSize bytes, without the division.
LEMMA Safe ==
  ASSUME NEW n \in Int
  PROVE  is8ByteSafe(n) <=> -Power[LongSize] <= 2 * n /\ 2 * n < Power[LongSize]
<1>1. PICK b \in Nat : Base = 2 * b
  BY HalfBase
<1>2. LongSize - 1 \in Nat /\ (LongSize - 1) + 1 = LongSize
  BY NumbersAssumption
<1>3. Power[LongSize - 1] \in Nat /\ Power[LongSize] = Base * Power[LongSize - 1]
  BY <1>2, PowerNext
<1>4. PICK h \in Nat : Power[LongSize] = 2 * h
  BY <1>1, <1>3
<1>5. \A x \in Nat : (2 * x) \div 2 = x
  OBVIOUS
<1>6. Power[LongSize] \div 2 = h
  BY <1>4, <1>5
<1>7. is8ByteSafe(n) <=> -h <= n /\ n < h
  BY <1>6 DEF is8ByteSafe
<1>8. -h <= n /\ n < h <=> -(2 * h) <= 2 * n /\ 2 * n < 2 * h
  OBVIOUS
<1>. QED BY <1>4, <1>7, <1>8

\* A number below a power has no more digits than it.
LEMMA DigitsLength ==
  ASSUME NEW m \in Nat, NEW k \in Nat, m < Power[k]
  PROVE  Len(Digits[m]) <= k
<1> DEFINE s == Digits[m]
<1> SUFFICES ASSUME ~(Len(s) <= k) PROVE FALSE
  OBVIOUS
<1>0. s \in Seq(Byte) /\ Magnitude(s) = m /\ Len(s) \in Nat
  BY DigitsFacts, BytesAre
<1>1. s # <<>> /\ m > 0
  <2>1. Len(s) # 0
    BY <1>0
  <2>2. m # 0
    <3>1. Digits[0] = <<>>
      BY DigitsDef, Zenon
    <3>2. Len(Digits[0]) = 0
      BY <3>1
    <3>. QED BY <2>1, <3>2
  <2>. QED BY <2>1, <2>2
<1>2. s[Len(s)] # 0
  BY <1>1, DigitsFacts
<1> HIDE DEF s
<1>3. PICK f \in Seq(Byte), b \in Byte :
            /\ Len(s) = Len(f) + 1 /\ b = s[Len(s)]
            /\ Magnitude(s) = Magnitude(f) + Power[Len(f)] * b
  BY <1>0, <1>1, LastByte
<1>4. Len(f) \in Nat /\ k <= Len(f) /\ Magnitude(f) \in Nat
  BY <1>0, <1>3, BytesAre, MagnitudeBounds
<1>5. Power[k] <= Power[Len(f)] /\ Power[Len(f)] \in Nat /\ Power[k] \in Nat
  BY <1>4, PowerOrder, PowerNext
<1>6. b \in Nat /\ b >= 1
  BY <1>2, <1>3, FillFacts DEF Byte
<1>7. ASSUME NEW p \in Nat PROVE p <= p * b /\ p * b \in Nat
  BY <1>6
<1>8. Power[Len(f)] <= Power[Len(f)] * b /\ Power[Len(f)] * b \in Nat
  BY <1>5, <1>7
<1>. QED BY <1>0, <1>3, <1>4, <1>5, <1>8

\* The low bytes of a number.
LEMMA LowBytes ==
  ASSUME NEW m \in Nat, NEW k \in Nat, m < Power[k]
  PROVE  LET s == Digits[m] \o Repeat(0, k - Len(Digits[m])) IN
         s \in Seq(Byte) /\ Len(s) = k /\ Magnitude(s) = m
<1> DEFINE d == Digits[m]
           r == Repeat(0, k - Len(d))
<1>1. d \in Seq(Byte) /\ Magnitude(d) = m /\ Len(d) \in Nat /\ Len(d) <= k
  BY DigitsFacts, BytesAre, DigitsLength
<1>2. k - Len(d) \in Nat
  BY <1>1
<1>3. r \in Seq(Byte) /\ Len(r) = k - Len(d) /\ Magnitude(r) = 0
  BY <1>2, FillFacts, RepeatFacts, ZenonT(60)
<1> HIDE DEF r, d
<1>4. d \o r \in Seq(Byte) /\ Len(d \o r) = Len(d) + Len(r) /\ Magnitude(d \o r) = Magnitude(d) + Power[Len(d)] * Magnitude(r)
  BY <1>1, <1>3, ConcatProperties, MagnitudeConcat
<1>5. Power[Len(d)] * 0 = 0
  <2>1. Power[Len(d)] \in Int
    BY <1>1, PowerNext
  <2>2. \A x \in Int : x * 0 = 0
    OBVIOUS
  <2>. QED BY <2>1, <2>2
<1>6. Len(d \o r) = k /\ Magnitude(d \o r) = m
  BY <1>1, <1>3, <1>4, <1>5
<1>. QED BY <1>4, <1>6 DEF d, r

\* Eight bytes hold a number that is safe for them.
LEMMA Write8 ==
  ASSUME NEW n \in Int, is8ByteSafe(n)
  PROVE  /\ write8(n) \in Seq(Byte) /\ write8(n) # <<>> /\ Len(write8(n)) = LongSize
         /\ Value(write8(n)) = n
<1> DEFINE P == Power[LongSize]
           m == n % P
           s == write8(n)
<1>0. LongSize \in Nat \ {0} /\ P \in Nat /\ P > 0
  BY NumbersAssumption, PowerNext
<1>1. -P <= 2 * n /\ 2 * n < P
  BY Safe
<1>2. m = IF n < 0 THEN n + P ELSE n
  <2>1. PICK p \in Int : p = P /\ p > 0
    BY <1>0
  <2>2. CASE n < 0
    BY <2>1, <2>2, <1>1, Remainder
  <2>3. CASE ~(n < 0)
    BY <2>1, <2>3, <1>1, Remainder
  <2>. QED BY <2>2, <2>3
<1>3. m \in Nat /\ m < P
  <2> HIDE DEF m, P
  <2>. QED BY <1>0, <1>1, <1>2
<1>4. s = Digits[m] \o Repeat(0, LongSize - Len(Digits[m]))
  BY DEF write8
<1>5. s \in Seq(Byte) /\ Len(s) = LongSize /\ Magnitude(s) = m
  <2> HIDE DEF m
  <2>. QED BY <1>0, <1>3, <1>4, LowBytes, ZenonT(60)
<1> HIDE DEF s, m
<1>6. s # <<>>
  BY <1>0, <1>5
<1>7. Negative(s) <=> n < 0
  <2>1. Negative(s) <=> 2 * m >= P
    BY <1>5, <1>6, NegativeIsUpperHalf
  <2> HIDE DEF P
  <2>2. 2 * m >= P <=> n < 0
    BY <1>0, <1>1, <1>2
  <2>. QED BY <2>1, <2>2
<1>8. Value(s) = n
  <2>1. Value(s) = IF Negative(s) THEN m - P ELSE m
    BY <1>5 DEF Value
  <2> HIDE DEF P
  <2>. QED BY <2>1, <1>0, <1>2, <1>7
<1>. QED BY <1>5, <1>6, <1>8 DEF s

\* The length bits of a header are its length.
LEMMA BitsOfLength ==
  ASSUME NEW l \in 0..WordSize, NEW neg PROVE LengthBits(Header(l, neg)) = l
BY NumbersAssumption DEF LengthBits, Header

\* IntX gives back what fits a signed word.
LEMMA IntXRead ==
  ASSUME NEW n \in Int, InWord(n), AsWord(n) = n
  PROVE  LET x == IntX_write(n) IN IntX_read(x.header, x.payload) = n
<1>0. LongSize \in Nat \ {0} /\ WordSize \in Nat /\ LongSize < WordSize
  BY NumbersAssumption
<1>1. CASE is8ByteSafe(n)
  <2> DEFINE s == write8(n)
             neg == n < 0
  <2>1. s \in Seq(Byte) /\ s # <<>> /\ Len(s) = LongSize /\ Value(s) = n
    BY <1>1, Write8
  <2>2. IntX_write(n) = [header |-> Header(LongSize, neg), payload |-> s]
    BY <1>1 DEF IntX_write
  <2> HIDE DEF s
  <2>3. Take(s, LongSize) = s
    BY <2>1, SubSeqFull DEF Take
  <2>4. Negative(s) = neg
    BY <2>1, NegativeIsBoolean, ValueFacts
  <2>5. twosComplementLEToBigInt(s) = n
    BY <2>1, DecodersGiveValue
  <2>6. Header(LongSize, neg).length = LongSize /\ Header(LongSize, neg).negative = neg
    BY DEF Header
  <2> DEFINE header == Header(LongSize, neg)
  <2>7. IntX_read(header, s) = n
    <3> HIDE DEF header, neg
    <3>1. ~(LongSize < LongSize) /\ ~(Len(s) < LongSize) /\ LengthBits(header) = LongSize
      BY <1>0, <2>1, BitsOfLength DEF header
    <3>. QED BY <2>3, <2>4, <2>5, <2>6, <3>1 DEF IntX_read, header
  <2> HIDE DEF header, neg
  <2>. QED BY <2>2, <2>7 DEF header
<1>2. CASE ~is8ByteSafe(n)
  <2>0. n # 0
    BY <1>0, PowerNext, Safe, <1>2
  <2>1. PICK word, l :
            LET neg == Negative(word)
                fill == Fill(neg) IN
            /\ IsWord(word, n)
            /\ l \in 0..WordSize /\ (l = 0 \/ word[l] # fill)
            /\ word = Take(word, l) \o Repeat(fill, WordSize - l)
            /\ writeBigInt(n) = [header |-> Header(l, neg), payload |-> Take(word, l)]
    BY <2>0, Written
  <2> DEFINE neg == Negative(word)
             p == Take(word, l)
  <2>2. word \in Seq(Byte) /\ word # <<>> /\ Len(word) = WordSize /\ neg \in BOOLEAN /\ Value(word) = n
    BY <2>1, WordFacts
  <2>3. p \in Seq(Byte) /\ Len(p) = l /\ l \in 0..Len(word) /\ l \in Nat
    BY <2>1, <2>2, <1>0, TakeDrop
  <2>4. IntX_write(n) = [header |-> Header(l, neg), payload |-> p]
    BY <1>2, <2>1 DEF IntX_write
  <2>5. word = p \o Repeat(Fill(neg), WordSize - l)
    BY <2>1
  <2> HIDE DEF neg, p
  <2>6. n = IF neg THEN Magnitude(p) - Power[l] ELSE Magnitude(p)
    <3>1. Magnitude(word) = IF neg THEN Magnitude(p) - Power[l] + Power[WordSize] ELSE Magnitude(p)
      <4>1. PICK k \in Nat : k = WordSize - l /\ Len(p) + k = WordSize
        BY <1>0, <2>1, <2>3
      <4>2. LET s == p \o Repeat(Fill(neg), k) IN
         /\ s \in Seq(Byte) /\ Len(s) = Len(p) + k
         /\ \A i \in 1..Len(p) : s[i] = p[i]
         /\ \A i \in (Len(p) + 1)..(Len(p) + k) : s[i] = Fill(neg)
         /\ Magnitude(s) = IF neg THEN Magnitude(p) - Power[Len(p)] + Power[Len(p) + k] ELSE Magnitude(p)
        BY <2>2, <2>3, Filled, ZenonT(40)
      <4>. QED BY <2>3, <2>5, <4>1, <4>2
    <3>2. Value(word) = IF neg THEN Magnitude(word) - Power[WordSize] ELSE Magnitude(word)
      BY <2>2 DEF Value, neg
    <3>3. Magnitude(p) \in Int /\ Power[l] \in Int /\ Power[WordSize] \in Int
      BY <1>0, <2>3, MagnitudeType, PowerNext
    <3>. QED BY <2>2, <3>1, <3>2, <3>3
  <2>7. Magnitude(p) \in Nat /\ Magnitude(p) < Power[l] /\ Power[l] \in Nat /\ Power[LongSize] \in Nat
    BY <1>0, <2>3, MagnitudeBounds, PowerNext
  <2>8. ~(-Power[LongSize] <= 2 * n /\ 2 * n < Power[LongSize])
    BY <1>2, Safe
  <2>9. l >= LongSize
    <3> SUFFICES ASSUME l < LongSize PROVE FALSE
      BY <1>0, <2>3
    <3>1. 2 * Power[l] <= Power[LongSize]
      BY <1>0, <2>3, PowerOrder
    <3>. QED BY <2>6, <2>7, <2>8, <3>1
  <2>10. l = LongSize => Negative(p) # neg
    <3> SUFFICES ASSUME l = LongSize, Negative(p) = neg PROVE FALSE
      OBVIOUS
    <3>1. p # <<>>
      BY <1>0, <2>3
    <3>2. Value(p) = n
      BY <2>3, <2>6 DEF Value
    <3>3. -Power[LongSize] <= 2 * n /\ 2 * n < Power[LongSize]
      BY <2>3, <3>1, <3>2, ValueFacts
    <3>. QED BY <2>8, <3>3
  <2>11. twosComplementLEToBigInt(word) = n
    BY <2>2, DecodersGiveValue
  <2>12. Header(l, neg).length = l /\ Header(l, neg).negative = neg
    BY DEF Header
  <2> DEFINE header == Header(l, neg)
  <2>13. IntX_read(header, p) = n
    <3> HIDE DEF header
    <3>0. LengthBits(header) = l
      BY <2>1, BitsOfLength DEF header
    <3>1. ~(l < LongSize) /\ ~(Len(p) < LongSize) /\ LengthBits(header) = l
      BY <1>0, <2>3, <2>9, <3>0
    <3>2. CASE l = LongSize
      <4>1. Take(p, LongSize) = p
        BY <2>3, <3>2, SubSeqFull DEF Take
      <4>. QED BY <2>5, <2>10, <2>11, <2>12, <3>1, <3>2, <4>1 DEF IntX_read, header
    <3>3. CASE l # LongSize
      <4>1. IntX_read(header, p) = readBigInt(header, p)
        BY <2>12, <3>1, <3>3 DEF IntX_read, header
      <4>2. LET w == writeBigInt(n) IN readBigInt(w.header, w.payload) = AsWord(n)
        BY CompactRead
      <4>3. writeBigInt(n) = [header |-> header, payload |-> p]
        BY <2>1 DEF header, neg, p
      <4>. QED BY <4>1, <4>2, <4>3
    <3>. QED BY <3>2, <3>3
  <2> HIDE DEF header
  <2>. QED BY <2>4, <2>13 DEF header
<1>. QED BY <1>1, <1>2

\* IntX throws for a number beyond one bit more than a signed word has.
LEMMA IntXThrows ==
  ASSUME NEW n \in Int, ~InWord(n)
  PROVE  IntX_write(n) = Thrown
<1>1. ~is8ByteSafe(n)
  <2>1. Power[LongSize] \in Nat /\ Power[WordSize] \in Nat /\ Power[LongSize] <= Power[WordSize]
    BY NumbersAssumption, PowerNext, PowerOrder
  <2>2. ~(-Power[LongSize] <= 2 * n /\ 2 * n < Power[LongSize])
    BY <2>1 DEF InWord
  <2>. QED BY <2>2, Safe
<1>. QED BY <1>1, CompactThrows DEF IntX_write

\* Every form gives back a number of a signed word, whichever decoder reads it; one bit more
\* comes back from the compact form as the word of its low bits, and beyond that it throws.
THEOREM NumbersSurvive ==
  \A n \in Int : NumberSurvives(n)
<1> SUFFICES ASSUME NEW n \in Int PROVE NumberSurvives(n)
  OBVIOUS
<1>1. \A s \in {bigIntToCsharpLE(n), bigIntToTwosComplementLE_phantasma(n), bigIntToTwosComplementLE(n)} :
            /\ bigIntFromTwosComplementLE_phantasma(s) = n
            /\ twosComplementLEToBigInt(s) = n
  BY EncodedIsRead
<1> DEFINE w == writeBigInt(n)
           x == IntX_write(n)
<1>2. IF InWord(n)
      THEN /\ readBigInt(w.header, w.payload) = AsWord(n)
           /\ AsWord(n) = n => IntX_read(x.header, x.payload) = n
      ELSE w = Thrown /\ x = Thrown
  BY CompactRead, IntXRead, CompactThrows, IntXThrows
<1> HIDE DEF w, x
<1>. QED BY <1>1, <1>2 DEF NumberSurvives, InWord, w, x

-----------------------------------------------------------------------------
(* What readers give.                                                      *)

\* What a reader gives is no throw.
LEMMA Gotten ==
  ASSUME NEW v \in Readable, NEW rest \in Seq(Byte)
  PROVE  Got(v, rest) # Thrown /\ Got(v, rest).v = v /\ Got(v, rest).rest = rest
BY ThrownIsNoResult DEF Got

\* The kinds of values that are read.
LEMMA ReadableKinds ==
  /\ Int \subseteq Readable /\ Nat \subseteq Readable /\ Seq(Byte) \subseteq Readable
  /\ Signature \subseteq Readable /\ Seq(Signature) \subseteq Readable
  /\ Item \subseteq Readable /\ Seq(Item) \subseteq Readable
BY DEF Readable

\* The bytes at the front of others are taken from them.
LEMMA TakeFront ==
  ASSUME NEW s \in Seq(Byte), NEW t \in Seq(Byte)
  PROVE  /\ s \o t \in Seq(Byte) /\ Len(s) \in Nat /\ Len(s \o t) = Len(s) + Len(t)
         /\ Take(s \o t, Len(s)) = s /\ Drop(s \o t, Len(s)) = t
         /\ TakeBytes(s \o t, Len(s)) = Got(s, t)
<1>1. s \o t \in Seq(Byte) /\ Len(s \o t) = Len(s) + Len(t) /\ Len(s) \in Nat /\ Len(t) \in Nat
  BY ConcatProperties, LenProperties
<1>2. Take(s \o t, Len(s)) = s
  BY SubSeqOfConcat1, SubSeqFull, <1>1 DEF Take
<1>3. Drop(s \o t, Len(s)) = t
  BY SubSeqOfConcat2, SubSeqFull, <1>1 DEF Drop
<1>. QED BY <1>1, <1>2, <1>3 DEF TakeBytes

\* Bytes that end early are too few.
LEMMA TooFew ==
  ASSUME NEW s \in Seq(Byte), NEW n \in Nat, n > Len(s)
  PROVE  TakeBytes(s, n) = Thrown
BY DEF TakeBytes

\* So many low bytes of a number.
LEMMA FixedFacts ==
  ASSUME NEW n \in Int, NEW size \in Nat
  PROVE  /\ Fixed(n, size) \in Seq(Byte) /\ Len(Fixed(n, size)) = size
         /\ Magnitude(Fixed(n, size)) = n % Power[size]
<1>1. Power[size] \in Nat /\ Power[size] > 0
  BY PowerNext
<1>2. PICK m \in Nat : m = n % Power[size] /\ m < Power[size]
  BY <1>1
<1>3. /\ Digits[m] \o Repeat(0, size - Len(Digits[m])) \in Seq(Byte)
      /\ Len(Digits[m] \o Repeat(0, size - Len(Digits[m]))) = size
      /\ Magnitude(Digits[m] \o Repeat(0, size - Len(Digits[m]))) = m
  BY <1>2, LowBytes
<1>. QED BY <1>2, <1>3 DEF Fixed

\* A byte before others.
LEMMA Marked ==
  ASSUME NEW b \in Byte, NEW t \in Seq(Byte)
  PROVE  /\ <<b>> \o t \in Seq(Byte) /\ <<b>> \o t # <<>> /\ (<<b>> \o t)[1] = b /\ Tail(<<b>> \o t) = t
         /\ Len(<<b>> \o t) = Len(t) + 1
         /\ \A r \in Seq(Byte) : (<<b>> \o t) \o r = <<b>> \o (t \o r)
<1>1. <<b>> \in Seq(Byte) /\ Len(<<b>>) = 1
  BY MagnitudeOne
<1>2. <<b>> \o t \in Seq(Byte) /\ Len(<<b>> \o t) = Len(t) + 1 /\ (<<b>> \o t)[1] = b
  BY FirstByte
<1>3. <<b>> \o t # <<>>
  BY <1>2, LenProperties
<1>4. Tail(<<b>> \o t) = t
  BY <1>1, <1>2, <1>3, TailIsSubSeq, TakeFront DEF Drop
<1>5. \A r \in Seq(Byte) : (<<b>> \o t) \o r = <<b>> \o (t \o r)
  BY <1>1, ConcatAssociative
<1>. QED BY <1>2, <1>3, <1>4, <1>5

-----------------------------------------------------------------------------
(* The values of the old streams.                                          *)

\* The marks of a number in more than one byte.
LEMMA Marks ==
  /\ Base - 3 \in Byte /\ Base - 2 \in Byte /\ Base - 1 \in Byte
  /\ Base - 3 # Base - 2 /\ Base - 3 # Base - 1 /\ Base - 2 # Base - 1
  /\ 0 \in Byte /\ 1 \in Byte /\ 0 < Base - 3 /\ 1 < Base - 3
  /\ \A n \in Nat : n < Base - 3 => n \in Byte /\ n # Base - 3 /\ n # Base - 2 /\ n # Base - 1
BY PrimitivesAssumption, NumbersAssumption DEF Byte

\* A number that fits in the bytes it is given is the magnitude of them.
LEMMA FixedHolds ==
  ASSUME NEW size \in Nat, NEW n \in Nat, n < Power[size]
  PROVE  Fixed(n, size) \in Seq(Byte) /\ Len(Fixed(n, size)) = size /\ Magnitude(Fixed(n, size)) = n
<1>1. Power[size] \in Nat
  BY PowerNext
<1>2. n % Power[size] = n
  BY <1>1
<1>3. n \in Int
  OBVIOUS
<1>. QED BY <1>2, <1>3, FixedFacts

\* A number below the two bytes of a length comes back, and nothing of what follows is read.
LEMMA VarIntRead ==
  ASSUME NEW n \in Nat, n < Power[2], NEW rest \in Seq(Byte)
  PROVE  writeVarInt(n) \in Seq(Byte) /\ readVarInt(writeVarInt(n) \o rest) = Got(n, rest)
<1>1. CASE n < Base - 3
  <2>1. n \in Byte /\ n # Base - 3 /\ n # Base - 2 /\ n # Base - 1
    BY <1>1, Marks
  <2>2. writeVarInt(n) = <<n>> /\ <<n>> \in Seq(Byte)
    BY <1>1, <2>1, MagnitudeOne DEF writeVarInt
  <2> DEFINE s == <<n>> \o rest
  <2>3. s # <<>> /\ s[1] = n /\ Tail(s) = rest
    BY <2>1, Marked
  <2> HIDE DEF s
  <2>4. readVarInt(s) = Got(n, rest)
    BY <2>1, <2>3 DEF readVarInt
  <2>. QED BY <2>2, <2>4 DEF s
<1>2. CASE ~(n < Base - 3)
  <2> DEFINE t == Fixed(n, 2)
             s == <<Base - 3>> \o (t \o rest)
  <2>2. t \in Seq(Byte) /\ Len(t) = 2 /\ Magnitude(t) = n
    BY FixedHolds
  <2> HIDE DEF t
  <2>3. /\ writeVarInt(n) = <<Base - 3>> \o t /\ <<Base - 3>> \o t \in Seq(Byte)
        /\ writeVarInt(n) \o rest = s
    BY <1>2, <2>2, Marks, Marked, SMTT(20) DEF writeVarInt, t
  <2>4. t \o rest \in Seq(Byte) /\ TakeBytes(t \o rest, 2) = Got(t, rest)
    BY <2>2, TakeFront
  <2>5. s # <<>> /\ s[1] = Base - 3 /\ Tail(s) = t \o rest
    BY <2>4, Marks, Marked
  <2>6. Got(t, rest) # Thrown /\ Got(t, rest).v = t /\ Got(t, rest).rest = rest
    BY <2>2, Gotten, ReadableKinds
  <2> HIDE DEF s
  <2>7. readVarInt(s) = Mapped(TakeBytes(t \o rest, 2), Magnitude)
    BY <2>5, Marks DEF readVarInt
  <2>8. Mapped(TakeBytes(t \o rest, 2), Magnitude) = Got(n, rest)
    BY <2>2, <2>4, <2>6 DEF Mapped
  <2>. QED BY <2>3, <2>7, <2>8
<1>. QED BY <1>1, <1>2

\* Bytes behind their length come back.
LEMMA ByteArrayRead ==
  ASSUME NEW bytes \in Seq(Byte), Len(bytes) < Power[2], NEW rest \in Seq(Byte)
  PROVE  /\ writeByteArray(bytes) \in Seq(Byte)
         /\ readByteArray(writeByteArray(bytes) \o rest) = Got(bytes, rest)
<1> DEFINE w == writeVarInt(Len(bytes))
<1>1. Len(bytes) \in Nat /\ bytes \o rest \in Seq(Byte)
  BY LenProperties, ConcatProperties
<1>2. w \in Seq(Byte) /\ readVarInt(w \o (bytes \o rest)) = Got(Len(bytes), bytes \o rest)
  BY <1>1, VarIntRead
<1> HIDE DEF w
<1>3. writeByteArray(bytes) = w \o bytes /\ w \o bytes \in Seq(Byte)
  BY <1>2, ConcatProperties DEF writeByteArray, w
<1>4. writeByteArray(bytes) \o rest = w \o (bytes \o rest)
  BY <1>2, <1>3, ConcatAssociative, SMTT(20)
<1>5. /\ Got(Len(bytes), bytes \o rest) # Thrown /\ Got(Len(bytes), bytes \o rest).v = Len(bytes)
      /\ Got(Len(bytes), bytes \o rest).rest = bytes \o rest
  BY <1>1, Gotten, ReadableKinds
<1>6. TakeBytes(bytes \o rest, Len(bytes)) = Got(bytes, rest)
  BY TakeFront
<1>. QED BY <1>2, <1>3, <1>4, <1>5, <1>6 DEF readByteArray, Then

\* Four bytes hold a time of the wire.
LEMMA TimestampRead ==
  ASSUME NEW n \in Nat, n < Power[4], NEW rest \in Seq(Byte)
  PROVE  /\ writeTimestamp(n) \in Seq(Byte)
         /\ readTimestamp(writeTimestamp(n) \o rest) = Got(n, rest)
<1> DEFINE t == Fixed(n, 4)
<1>2. t \in Seq(Byte) /\ Len(t) = 4 /\ Magnitude(t) = n
  BY FixedHolds
<1>3. writeTimestamp(n) = t
  BY DEF writeTimestamp
<1> HIDE DEF t
<1>4. TakeBytes(t \o rest, 4) = Got(t, rest)
  BY <1>2, TakeFront
<1>5. Got(t, rest) # Thrown /\ Got(t, rest).v = t /\ Got(t, rest).rest = rest
  BY <1>2, Gotten, ReadableKinds
<1>. QED BY <1>2, <1>3, <1>4, <1>5 DEF readTimestamp, Mapped

\* A signature is dropped or comes back, by its kind.
LEMMA SignatureRead ==
  ASSUME NEW bytes \in Seq(Byte), Len(bytes) < Power[2], NEW rest \in Seq(Byte),
         NEW s \in {NoSignature, [kind |-> 1, bytes |-> bytes]}
  PROVE  /\ writeSignature(s) \in Seq(Byte)
         /\ readSignatureV2(writeSignature(s) \o rest) = Got(s, rest)
<1>1. CASE s = NoSignature
  <2>1. writeSignature(s) = <<0>> /\ <<0>> \in Seq(Byte)
    BY <1>1, Marks, MagnitudeOne DEF writeSignature
  <2> DEFINE d == <<0>> \o rest
  <2>2. d # <<>> /\ d[1] = 0 /\ Tail(d) = rest
    BY Marks, Marked
  <2> HIDE DEF d
  <2>2a. d[1] # 1
    BY <2>2
  <2>3. readSignatureV2(d) = Got(NoSignature, Tail(d))
    BY <2>2, <2>2a DEF readSignatureV2, Mapped
  <2>. QED BY <1>1, <2>1, <2>2, <2>3 DEF d
<1>2. CASE s # NoSignature
  <2> DEFINE w == writeByteArray(bytes)
  <2>1. w \in Seq(Byte) /\ readByteArray(w \o rest) = Got(bytes, rest)
    BY ByteArrayRead
  <2>2. s = [kind |-> 1, bytes |-> bytes] /\ writeSignature(s) = <<1>> \o w
    BY <1>2 DEF writeSignature
  <2> HIDE DEF w
  <2>3. <<1>> \o w \in Seq(Byte) /\ (<<1>> \o w) \o rest = <<1>> \o (w \o rest)
    BY <2>1, Marks, Marked, SMTT(30)
  <2>4. w \o rest \in Seq(Byte)
    BY <2>1, ConcatProperties
  <2> DEFINE d == <<1>> \o (w \o rest)
  <2>5. d # <<>> /\ d[1] = 1 /\ Tail(d) = w \o rest
    BY <2>4, Marks, Marked
  <2> HIDE DEF d
  <2>6. Got(bytes, rest) # Thrown /\ Got(bytes, rest).v = bytes /\ Got(bytes, rest).rest = rest
    BY Gotten, ReadableKinds
  <2>7. readSignatureV2(d) = Mapped(readByteArray(Tail(d)), LAMBDA b : [kind |-> 1, bytes |-> b])
    BY <2>5 DEF readSignatureV2, Mapped
  <2>8. Mapped(Got(bytes, rest), LAMBDA b : [kind |-> 1, bytes |-> b]) = Got(s, rest)
    BY <2>2, <2>6 DEF Mapped
  <2>. QED BY <2>1, <2>2, <2>3, <2>5, <2>7, <2>8 DEF d
<1>. QED BY <1>1, <1>2

\* The old streams: what PBinaryWriter writes, with lengths of up to two bytes,
\* PBinaryReader reads back and leaves the rest.
THEOREM LegacyValuesSurvive ==
  ASSUME NEW bytes \in Seq(Byte), Len(bytes) < Power[2], NEW n \in Nat, n < Power[2],
         NEW rest \in Seq(Byte)
  PROVE  LegacySurvives(bytes, n, rest)
<1>1. n < Power[4]
  <2>1. Power[2] <= Power[4]
    BY PowerOrder
  <2>2. Power[2] \in Nat /\ Power[4] \in Nat
    BY PowerNext
  <2>. QED BY <2>1, <2>2
<1>. QED BY <1>1, VarIntRead, ByteArrayRead, TimestampRead, SignatureRead DEF LegacySurvives

-----------------------------------------------------------------------------
(* Numbers, lengths and parts of Carbon.                                   *)

\* What is left of two parts that end early.
LEMMA TakeConcat ==
  ASSUME NEW s \in Seq(Byte), NEW t \in Seq(Byte), NEW k \in 0..(Len(s) + Len(t))
  PROVE  /\ k <= Len(s) => k \in 0..Len(s) /\ Take(s \o t, k) = Take(s, k)
         /\ k >= Len(s) => k - Len(s) \in 0..Len(t) /\ Take(s \o t, k) = s \o Take(t, k - Len(s))
<1>1. Len(s) \in Nat /\ Len(t) \in Nat
  BY TakeFront
<1>2. ASSUME k <= Len(s) PROVE k \in 0..Len(s) /\ Take(s \o t, k) = Take(s, k)
  <2>1. k \in 0..Len(s)
    BY <1>1, <1>2
  <2> DEFINE a == Take(s, k)
             b == Drop(s, k)
  <2>2. a \in Seq(Byte) /\ b \in Seq(Byte) /\ Len(a) = k /\ s = a \o b
    BY <2>1, TakeDrop
  <2> HIDE DEF a, b
  <2>3. b \o t \in Seq(Byte) /\ s \o t = a \o (b \o t)
    BY <2>2, ConcatProperties, ConcatAssociative, SMTT(20)
  <2>4. Take(a \o (b \o t), Len(a)) = a
    BY <2>2, <2>3, TakeFront
  <2>. QED BY <2>1, <2>2, <2>3, <2>4 DEF a
<1>3. ASSUME k >= Len(s) PROVE k - Len(s) \in 0..Len(t) /\ Take(s \o t, k) = s \o Take(t, k - Len(s))
  <2> DEFINE j == k - Len(s)
             a == Take(t, j)
             b == Drop(t, j)
  <2>1. j \in 0..Len(t) /\ Len(s) + j = k
    BY <1>1, <1>3
  <2> HIDE DEF j
  <2>2. a \in Seq(Byte) /\ b \in Seq(Byte) /\ Len(a) = j /\ t = a \o b
    BY <2>1, TakeDrop
  <2> HIDE DEF a, b
  <2>3. s \o a \in Seq(Byte) /\ Len(s \o a) = k /\ s \o t = (s \o a) \o b
    <3>1. s \o a \in Seq(Byte) /\ Len(s \o a) = Len(s) + Len(a)
      BY <2>2, ConcatProperties
    <3>2. (s \o a) \o b = s \o (a \o b)
      BY <2>2, ConcatAssociative, SMTT(20)
    <3>. QED BY <2>1, <2>2, <3>1, <3>2
  <2>4. Take((s \o a) \o b, Len(s \o a)) = s \o a
    BY <2>2, <2>3, TakeFront
  <2>. QED BY <2>1, <2>3, <2>4 DEF a, j
<1>. QED BY <1>2, <1>3

\* A signed number comes back from its low bytes.
LEMMA SignedBack ==
  ASSUME NEW size \in Nat \ {0}, NEW n \in Int,
         -(Power[size] \div 2) <= n, n < Power[size] \div 2
  PROVE  Signed(n % Power[size], size) = n
<1>1. size - 1 \in Nat /\ (size - 1) + 1 = size
  OBVIOUS
<1>2. Power[size] = Base * Power[size - 1] /\ Power[size - 1] \in Nat /\ Power[size - 1] > 0
  BY <1>1, PowerNext
<1>3. PICK b \in Nat : b >= 2 /\ Base = 2 * b
  BY HalfBase
<1>4. PICK p \in Nat : p > 0 /\ Power[size - 1] = p
  BY <1>2
<1>5. PICK h \in Nat : h > 0 /\ h = b * p
  BY <1>3, <1>4
<1>6. Power[size] = 2 * h
  BY <1>2, <1>3, <1>4, <1>5
<1>7. (2 * h) \div 2 = h
  OBVIOUS
<1>8. n >= 0 => n % (2 * h) = n
  BY <1>5, <1>6, <1>7
<1>9. n < 0 => n % (2 * h) = n + 2 * h
  <2>1. ASSUME n < 0 PROVE 0 <= n + 2 * h /\ n + 2 * h < 2 * h
    BY <1>5, <1>6, <1>7, <2>1
  <2>2. n = (2 * h) * (-1) + (n + 2 * h)
    OBVIOUS
  <2>. QED BY <1>5, <2>1, <2>2, Remainder
<1>. QED BY <1>5, <1>6, <1>7, <1>8, <1>9 DEF Signed

\* A number of Carbon within its size comes back; with a byte less it is not read.
LEMMA FixedRead ==
  ASSUME NEW size \in Nat \ {0}, NEW n \in Int,
         -(Power[size] \div 2) <= n, n < Power[size] \div 2
  PROVE  /\ writeFixed(n, size) \in Seq(Byte) /\ Len(writeFixed(n, size)) = size
         /\ \A rest \in Seq(Byte) : readFixed(size, writeFixed(n, size) \o rest) = Got(n, rest)
         /\ \A k \in 0..(size - 1) : readFixed(size, Take(writeFixed(n, size), k)) = Thrown
<1> DEFINE w == Fixed(n, size)
<1>0. writeFixed(n, size) = w
  BY DEF writeFixed
<1>1. w \in Seq(Byte) /\ Len(w) = size /\ Magnitude(w) = n % Power[size]
  BY FixedFacts
<1>2. Signed(Magnitude(w), size) = n
  BY <1>1, SignedBack
<1> HIDE DEF w
<1>3. ASSUME NEW rest \in Seq(Byte) PROVE readFixed(size, w \o rest) = Got(n, rest)
  BY <1>1, TakeFront, Gotten, ReadableKinds, <1>2 DEF readFixed, Mapped
<1>4. ASSUME NEW k \in 0..(size - 1) PROVE readFixed(size, Take(w, k)) = Thrown
  <2>1. k \in 0..Len(w) /\ k < size /\ size \in Nat
    BY <1>1
  <2>2. Take(w, k) \in Seq(Byte) /\ Len(Take(w, k)) = k
    BY <1>1, <2>1, TakeDrop
  <2>3. TakeBytes(Take(w, k), size) = Thrown
    BY <2>1, <2>2, TooFew
  <2>. QED BY <2>3 DEF readFixed, Mapped
<1>. QED BY <1>0, <1>1, <1>3, <1>4

\* A length comes back when there are at least as many bytes after it.
LEMMA LengthRead ==
  ASSUME NEW n \in Nat, n < Power[LengthSize] \div 2
  PROVE  /\ writeLength(n) \in Seq(Byte) /\ Len(writeLength(n)) = LengthSize
         /\ \A rest \in Seq(Byte) :
              readLength(1, writeLength(n) \o rest) = IF n <= Len(rest) THEN Got(n, rest) ELSE Thrown
         /\ \A k \in 0..(LengthSize - 1) : readLength(1, Take(writeLength(n), k)) = Thrown
<1>1. LengthSize \in Nat \ {0} /\ n \in Int
  BY PrimitivesAssumption
<1>2. -(Power[LengthSize] \div 2) <= n
  BY <1>1, PowerNext
<1> DEFINE w == writeLength(n)
<1>3. /\ w \in Seq(Byte) /\ Len(w) = LengthSize
      /\ \A rest \in Seq(Byte) : readFixed(LengthSize, w \o rest) = Got(n, rest)
      /\ \A k \in 0..(LengthSize - 1) : readFixed(LengthSize, Take(w, k)) = Thrown
  <2>1. w = writeFixed(n, LengthSize)
    BY DEF writeLength, writeFixed
  <2> HIDE DEF w
  <2>. QED BY <1>1, <1>2, <2>1, FixedRead
<1> HIDE DEF w
<1>4. ASSUME NEW rest \in Seq(Byte)
      PROVE  readLength(1, w \o rest) = IF n <= Len(rest) THEN Got(n, rest) ELSE Thrown
  <2>1. Got(n, rest) # Thrown /\ Got(n, rest).v = n /\ Got(n, rest).rest = rest
    BY Gotten, ReadableKinds
  <2>2. ~(n < 0) /\ n * 1 = n /\ Len(rest) \in Nat
    BY LenProperties
  <2>3. n * 1 > Len(rest) <=> ~(n <= Len(rest))
    BY <2>2
  <2>. QED BY <1>3, <2>1, <2>2, <2>3 DEF readLength, Then
<1>5. ASSUME NEW k \in 0..(LengthSize - 1) PROVE readLength(1, Take(w, k)) = Thrown
  BY <1>3, <1>5 DEF readLength, Then
<1>. QED BY <1>3, <1>4, <1>5 DEF w

-----------------------------------------------------------------------------
(* Sequences one after the other.                                          *)

\* The first n of some sequences, one after the other.
FlatOf(S, seqs, n, f) ==
    /\ f[0] = <<>>
    /\ \A i \in 1..n : f[i - 1] \in Seq(S) /\ f[i] \in Seq(S) /\ f[i] = f[i - 1] \o seqs[i]

\* There is that function for every sequence of sequences.
LEMMA FlatExists ==
  ASSUME NEW S, NEW seqs \in Seq(Seq(S))
  PROVE  \E f : FlatOf(S, seqs, Len(seqs), f)
<1> DEFINE T == {n \in Nat : n <= Len(seqs) => \E f : FlatOf(S, seqs, n, f)}
<1>1. Len(seqs) \in Nat /\ \A i \in 1..Len(seqs) : seqs[i] \in Seq(S)
  BY LenProperties
<1>2. 0 \in T
  <2>1. [i \in {0} |-> <<>>][0] = <<>>
    OBVIOUS
  <2>2. FlatOf(S, seqs, 0, [i \in {0} |-> <<>>])
    BY <2>1 DEF FlatOf
  <2>. QED BY <2>2
<1>3. ASSUME NEW n \in T PROVE n + 1 \in T
  <2> SUFFICES ASSUME n + 1 <= Len(seqs) PROVE \E f : FlatOf(S, seqs, n + 1, f)
    OBVIOUS
  <2>1. PICK f : FlatOf(S, seqs, n, f)
    BY <1>1
  <2>2. n \in Nat /\ n + 1 \in 1..Len(seqs) /\ seqs[n + 1] \in Seq(S)
    BY <1>1
  <2>3. f[n] \in Seq(S)
    <3>1. CASE n = 0
      <4>1. <<>> \in Seq(S)
        OBVIOUS
      <4>2. f[0] = <<>>
        BY <2>1 DEF FlatOf
      <4>. QED BY <3>1, <4>1, <4>2
    <3>2. CASE n # 0
      <4>1. n \in 1..n
        BY <2>2, <3>2
      <4>. QED BY <2>1, <4>1 DEF FlatOf
    <3>. QED BY <3>1, <3>2
  <2> DEFINE v == f[n] \o seqs[n + 1]
             g == [i \in 0..(n + 1) |-> IF i = n + 1 THEN v ELSE f[i]]
  <2>4. v \in Seq(S)
    BY <2>2, <2>3, ConcatProperties
  <2>5. g[n + 1] = v /\ \A i \in 0..n : g[i] = f[i]
    <3>1. n + 1 \in 0..(n + 1) /\ \A i \in 0..n : i \in 0..(n + 1) /\ i # n + 1
      BY <2>2
    <3> HIDE DEF v
    <3>. QED BY <3>1
  <2> HIDE DEF v, g
  <2>6. \A i \in 1..(n + 1) : i = n + 1 \/ (i \in 1..n /\ i \in 0..n /\ i - 1 \in 0..n)
    BY <2>2
  <2>7. (n + 1) - 1 = n /\ n \in 0..n /\ 0 \in 0..n
    BY <2>2
  <2>8. g[0] = <<>>
    BY <2>1, <2>5, <2>7 DEF FlatOf
  <2>9. ASSUME NEW i \in 1..(n + 1)
        PROVE  g[i - 1] \in Seq(S) /\ g[i] \in Seq(S) /\ g[i] = g[i - 1] \o seqs[i]
    <3>1. CASE i = n + 1
      BY <2>3, <2>4, <2>5, <2>7, <3>1 DEF v
    <3>2. CASE i \in 1..n /\ i \in 0..n /\ i - 1 \in 0..n
      BY <2>1, <2>5, <3>2 DEF FlatOf
    <3>. QED BY <2>6, <3>1, <3>2
  <2>10. FlatOf(S, seqs, n + 1, g)
    BY <2>8, <2>9 DEF FlatOf
  <2>. QED BY <2>10
<1>4. T = Nat
  <2>0. T \in SUBSET Nat
    OBVIOUS
  <2> HIDE DEF T
  <2>. QED BY <2>0, <1>2, <1>3, SetInduction
<1>. QED BY <1>1, <1>4

\* FlattenSeq gives its last value.
LEMMA FlatIs ==
  ASSUME NEW S, NEW seqs \in Seq(Seq(S)), NEW f, FlatOf(S, seqs, Len(seqs), f)
  PROVE  FlattenSeq(seqs) = f[Len(seqs)] /\ f[Len(seqs)] \in Seq(S)
<1> DEFINE n == Len(seqs)
<1>1. n \in Nat /\ \A i \in 1..n : seqs[i] \in Seq(S)
  BY LenProperties
<1>2. CASE n = 0
  BY <1>2, EmptySeq DEF FlattenSeq, FlatOf
<1>3. CASE n # 0
  <2> DEFINE E(g) == [i \in 1..n |-> IF i = 1 THEN seqs[i] ELSE g[i - 1] \o seqs[i]]
             flatten == CHOOSE g : g = E(g)
             k == [i \in 1..n |-> f[i]]
  <2>1. FlattenSeq(seqs) = flatten[n]
    BY <1>3 DEF FlattenSeq
  <2>2. f[0] = <<>> /\ \A i \in 1..n : f[i - 1] \in Seq(S) /\ f[i] \in Seq(S) /\ f[i] = f[i - 1] \o seqs[i]
    BY DEF FlatOf
  <2>3. \A i \in 1..n : i = 1 \/ i - 1 \in 1..n
    BY <1>1
  <2>3a. f[1] = seqs[1]
    <3>1. 1 \in 1..n /\ 1 - 1 = 0
      BY <1>1, <1>3
    <3>2. f[1] = <<>> \o seqs[1]
      BY <2>2, <3>1
    <3>. QED BY <1>1, <3>1, <3>2, ConcatEmptySeq
  <2> HIDE DEF n
  <2>4. k = E(k)
    <3>1. ASSUME NEW i \in 1..n PROVE k[i] = IF i = 1 THEN seqs[i] ELSE k[i - 1] \o seqs[i]
      <4>1. k[i] = f[i] /\ (i # 1 => k[i - 1] = f[i - 1])
        BY <2>3
      <4> HIDE DEF k
      <4>. QED BY <4>1, <2>2, <2>3a
    <3>. QED BY <3>1
  <2>5. flatten = E(flatten)
    <3> HIDE DEF E, k
    <3>. QED BY <2>4
  <2>6. \A i \in 1..n : flatten[i] = IF i = 1 THEN seqs[i] ELSE flatten[i - 1] \o seqs[i]
    <3> HIDE DEF flatten
    <3>. QED BY <2>5
  <2> HIDE DEF flatten, E, k
  <2> DEFINE T == {i \in Nat : i + 1 \in 1..n => flatten[i + 1] = f[i + 1]}
  <2>7. 0 \in T
    <3>1. 0 + 1 = 1
      OBVIOUS
    <3>. QED BY <2>3a, <2>6, <3>1
  <2>8. ASSUME NEW i \in T PROVE i + 1 \in T
    <3> SUFFICES ASSUME (i + 1) + 1 \in 1..n PROVE flatten[(i + 1) + 1] = f[(i + 1) + 1]
      OBVIOUS
    <3>1. (i + 1) + 1 # 1 /\ ((i + 1) + 1) - 1 = i + 1 /\ i + 1 \in 1..n
      BY <1>1
    <3>2. flatten[i + 1] = f[i + 1]
      BY <3>1
    <3> HIDE DEF T
    <3>3. flatten[(i + 1) + 1] = flatten[i + 1] \o seqs[(i + 1) + 1]
      BY <2>6, <3>1
    <3>4. f[(i + 1) + 1] = f[i + 1] \o seqs[(i + 1) + 1]
      BY <2>2, <3>1
    <3>. QED BY <3>2, <3>3, <3>4
  <2>9. T = Nat
    <3>0. T \in SUBSET Nat
      OBVIOUS
    <3> HIDE DEF T
    <3>. QED BY <3>0, <2>7, <2>8, SetInduction
  <2>10. n - 1 \in Nat /\ (n - 1) + 1 = n /\ n \in 1..n
    BY <1>1, <1>3 DEF n
  <2>11. flatten[n] = f[n]
    BY <2>9, <2>10
  <2>12. f[n] \in Seq(S)
    BY <2>2, <2>10
  <2>13. FlattenSeq(seqs) = f[n]
    BY <2>1, <2>11
  <2>. QED BY <2>12, <2>13 DEF n
<1>. QED BY <1>2, <1>3 DEF n

\* Sequences one after the other, and with one more behind them.
LEMMA FlattenAny ==
  ASSUME NEW S
  PROVE  /\ FlattenSeq(<<>>) = <<>>
         /\ \A seqs \in Seq(Seq(S)) : FlattenSeq(seqs) \in Seq(S)
         /\ \A seqs \in Seq(Seq(S)), t \in Seq(S) :
              FlattenSeq(Append(seqs, t)) = FlattenSeq(seqs) \o t
<1>1. FlattenSeq(<<>>) = <<>>
  BY DEF FlattenSeq
<1>2. ASSUME NEW seqs \in Seq(Seq(S)) PROVE FlattenSeq(seqs) \in Seq(S)
  BY FlatExists, FlatIs
<1>3. ASSUME NEW seqs \in Seq(Seq(S)), NEW t \in Seq(S)
      PROVE  FlattenSeq(Append(seqs, t)) = FlattenSeq(seqs) \o t
  <2> DEFINE n == Len(seqs)
             a == Append(seqs, t)
  <2>1. /\ a \in Seq(Seq(S)) /\ Len(a) = n + 1 /\ n \in Nat
        /\ (\A i \in 1..n : a[i] = seqs[i]) /\ a[n + 1] = t
    BY AppendProperties, LenProperties
  <2> HIDE DEF a
  <2>2. PICK f : FlatOf(S, a, n + 1, f)
    BY <2>1, FlatExists
  <2>3. FlattenSeq(a) = f[n + 1]
    BY <2>1, <2>2, FlatIs
  <2>4. \A i \in 1..n : i \in 1..(n + 1)
    BY <2>1
  <2>5. n + 1 \in 1..(n + 1) /\ (n + 1) - 1 = n
    BY <2>1
  <2>6. f[n + 1] = f[n] \o t
    BY <2>1, <2>2, <2>5 DEF FlatOf
  <2>7. FlatOf(S, seqs, n, f)
    BY <2>1, <2>2, <2>4 DEF FlatOf
  <2>8. FlattenSeq(seqs) = f[n]
    BY <2>7, FlatIs
  <2>. QED BY <2>3, <2>6, <2>8 DEF a
<1>. QED BY <1>1, <1>2, <1>3

\* The same for bytes.
LEMMA FlattenNext ==
  /\ FlattenSeq(<<>>) = <<>>
  /\ \A seqs \in Seq(Seq(Byte)) : FlattenSeq(seqs) \in Seq(Byte)
  /\ \A seqs \in Seq(Seq(Byte)), t \in Seq(Byte) :
       FlattenSeq(Append(seqs, t)) = FlattenSeq(seqs) \o t
BY FlattenAny

-----------------------------------------------------------------------------
(* Reading in step.                                                        *)

\* Joined bytes, as the provers see them without what sequences are made of.
Bytes == Seq(Byte)
\* Joined bytes.
Join(s, t) == s \o t

\* Joining is associative.
LEMMA JoinAgain ==
  /\ \A s, t \in Bytes : Join(s, t) \in Bytes
  /\ \A s, t, u \in Bytes : Join(Join(s, t), u) = Join(s, Join(t, u))
BY ConcatProperties, ConcatAssociative, SMTT(30) DEF Bytes, Join

\* Nothing is added by no bytes.
LEMMA JoinNothing == <<>> \in Bytes /\ \A s \in Bytes : Join(s, <<>>) = s /\ Join(<<>>, s) = s
BY ConcatEmptySeq DEF Bytes, Join

\* The lengths add up.
LEMMA JoinLength ==
  \A s, t \in Bytes :
    Join(s, t) \in Bytes /\ Len(s) \in Nat /\ Len(t) \in Nat /\ Len(Join(s, t)) = Len(s) + Len(t)
BY TakeFront DEF Bytes, Join

\* The first bytes of two parts are some of the first, or all of it and some of the second.
LEMMA JoinTake ==
  ASSUME NEW s \in Bytes, NEW t \in Bytes, NEW k \in 0..(Len(Join(s, t)) - 1)
  PROVE  \/ k \in 0..(Len(s) - 1) /\ Take(Join(s, t), k) = Take(s, k)
         \/ \E j \in 0..(Len(t) - 1) : Take(t, j) \in Bytes /\ Len(Take(t, j)) = j /\ Take(Join(s, t), k) = Join(s, Take(t, j))
<1>1. PICK m \in Nat, n \in Nat : m = Len(s) /\ n = Len(t) /\ Len(Join(s, t)) = m + n
  BY JoinLength
<1>2. k \in 0..(m + n - 1)
  BY <1>1
<1>3. CASE k < m
  <2>1. k \in 0..(m - 1) /\ k \in 0..(m + n) /\ k <= m
    BY <1>2, <1>3
  <2>2. Take(s \o t, k) = Take(s, k)
    BY <1>1, <2>1, TakeConcat DEF Bytes
  <2>. QED BY <1>1, <2>1, <2>2 DEF Join
<1>4. CASE k >= m
  <2>1. PICK j \in 0..(n - 1) : j = k - m
    BY <1>2, <1>4
  <2>2. k \in 0..(m + n) /\ j \in 0..n
    BY <1>2, <2>1
  <2>3. Take(s \o t, k) = s \o Take(t, j)
    BY <1>1, <1>4, <2>1, <2>2, TakeConcat DEF Bytes
  <2>4. Take(t, j) \in Seq(Byte) /\ Len(Take(t, j)) = j
    BY <1>1, <2>2, TakeDrop DEF Bytes
  <2>. QED BY <1>1, <2>1, <2>3, <2>4 DEF Join, Bytes
<1>. QED BY <1>2, <1>3, <1>4

\* A reader gives v for the bytes w, whatever follows, and nothing for fewer of them.
Leads(R, w, v) ==
    /\ w \in Bytes
    /\ \A rest \in Bytes : R[Join(w, rest)] = Got(v, rest)
    /\ \A k \in 0..(Len(w) - 1) : R[Take(w, k)] = Thrown

\* One reader goes on with another one behind the value v.
GoesOn(T, R, v, Q) ==
    /\ \A s \in Bytes : R[s] = Thrown => T[s] = Thrown
    /\ \A s, rest \in Bytes : R[s] = Got(v, rest) => T[s] = Q[rest]

\* Two readers one after the other.
LEMMA Sequel ==
  ASSUME NEW T, NEW R, NEW w, NEW v, Leads(R, w, v), NEW Q, NEW x, NEW u, Leads(Q, x, u), GoesOn(T, R, v, Q)
  PROVE  Leads(T, Join(w, x), u)
<1>1. w \in Bytes /\ x \in Bytes /\ Join(w, x) \in Bytes
  BY JoinAgain DEF Leads
<1>2. ASSUME NEW rest \in Bytes PROVE T[Join(Join(w, x), rest)] = Got(u, rest)
  <2>1. Join(Join(w, x), rest) = Join(w, Join(x, rest)) /\ Join(x, rest) \in Bytes /\ Join(w, Join(x, rest)) \in Bytes
    BY <1>1, JoinAgain
  <2>2. R[Join(w, Join(x, rest))] = Got(v, Join(x, rest)) /\ Q[Join(x, rest)] = Got(u, rest)
    BY <2>1 DEF Leads
  <2>. QED BY <2>1, <2>2 DEF GoesOn
<1>3. ASSUME NEW k \in 0..(Len(Join(w, x)) - 1) PROVE T[Take(Join(w, x), k)] = Thrown
  <2>1. CASE k \in 0..(Len(w) - 1) /\ Take(Join(w, x), k) = Take(w, k)
    BY <1>1, <2>1, JoinLength, TakeDrop DEF Bytes, Leads, GoesOn
  <2>2. ASSUME NEW j \in 0..(Len(x) - 1), Take(x, j) \in Bytes, Take(Join(w, x), k) = Join(w, Take(x, j))
        PROVE  T[Take(Join(w, x), k)] = Thrown
    <3>1. R[Join(w, Take(x, j))] = Got(v, Take(x, j)) /\ Q[Take(x, j)] = Thrown /\ Join(w, Take(x, j)) \in Bytes
      BY <1>1, <2>2, JoinAgain DEF Leads
    <3>. QED BY <2>2, <3>1 DEF GoesOn
  <2>. QED BY <1>1, <2>1, <2>2, JoinTake
<1>. QED BY <1>1, <1>2, <1>3 DEF Leads

\* A reader that makes u of what another one reads as v.
Turns(T, R, v, u) ==
    /\ \A s \in Bytes : R[s] = Thrown => T[s] = Thrown
    /\ \A s, rest \in Bytes : R[s] = Got(v, rest) => T[s] = Got(u, rest)

\* It reads the same bytes.
LEMMA Turned ==
  ASSUME NEW T, NEW R, NEW w, NEW v, Leads(R, w, v), NEW u, Turns(T, R, v, u)
  PROVE  Leads(T, w, u)
<1>1. w \in Bytes
  BY DEF Leads
<1>2. ASSUME NEW rest \in Bytes PROVE T[Join(w, rest)] = Got(u, rest)
  BY <1>1, JoinAgain DEF Leads, Turns
<1>3. ASSUME NEW k \in 0..(Len(w) - 1) PROVE T[Take(w, k)] = Thrown
  BY <1>1, JoinLength, TakeDrop DEF Bytes, Leads, Turns
<1>. QED BY <1>1, <1>2, <1>3 DEF Leads

\* What a reader gives for some value is no throw.
Distinct(V) == \A v \in V, rest \in Bytes : Got(v, rest) # Thrown

\* The values after one more.
NextOf(R, r) == Then(r, LAMBDA vs, left : Mapped(R[left], LAMBDA v : Append(vs, v)))
\* What is read of each number of values.
RunOf(read, s, n, f) == f[0] = Got(<<>>, s) /\ \A i \in 1..n : f[i] = NextOf(read[i], f[i - 1])

\* There is what is read of each number of values.
LEMMA RunExists ==
  ASSUME NEW read, NEW s, NEW count \in Nat
  PROVE  \E f : RunOf(read, s, count, f)
<1> DEFINE T == {n \in Nat : \E f : RunOf(read, s, n, f)}
<1>1. 0 \in T
  <2>1. [i \in {0} |-> Got(<<>>, s)][0] = Got(<<>>, s)
    OBVIOUS
  <2>2. RunOf(read, s, 0, [i \in {0} |-> Got(<<>>, s)])
    BY <2>1 DEF RunOf
  <2>. QED BY <2>2
<1>2. ASSUME NEW n \in T PROVE n + 1 \in T
  <2>1. PICK f : RunOf(read, s, n, f)
    OBVIOUS
  <2> DEFINE v == NextOf(read[n + 1], f[n])
             g == [i \in 0..(n + 1) |-> IF i = n + 1 THEN v ELSE f[i]]
  <2>2. n \in Nat
    OBVIOUS
  <2>3. n + 1 \in 0..(n + 1) /\ (\A i \in 0..n : i \in 0..(n + 1) /\ i # n + 1) /\ n \in 0..n /\ 0 \in 0..n
    BY <2>2
  <2>4. \A i \in 1..(n + 1) : (i = n + 1 /\ i - 1 = n) \/ (i \in 1..n /\ i \in 0..n /\ i - 1 \in 0..n)
    BY <2>2
  <2>5. g[n + 1] = v /\ \A i \in 0..n : g[i] = f[i]
    <3> HIDE DEF v
    <3>. QED BY <2>3
  <2> HIDE DEF g
  <2>6. ASSUME NEW i \in 1..(n + 1) PROVE g[i] = NextOf(read[i], g[i - 1])
    <3>1. CASE i = n + 1 /\ i - 1 = n
      BY <2>3, <2>5, <3>1
    <3>2. CASE i \in 1..n /\ i \in 0..n /\ i - 1 \in 0..n
      BY <2>1, <2>5, <3>2 DEF RunOf
    <3>. QED BY <2>4, <3>1, <3>2
  <2>7. g[0] = Got(<<>>, s)
    BY <2>1, <2>3, <2>5 DEF RunOf
  <2>8. RunOf(read, s, n + 1, g)
    BY <2>6, <2>7 DEF RunOf
  <2>. QED BY <2>2, <2>8
<1>3. T = Nat
  <2>0. T \in SUBSET Nat
    OBVIOUS
  <2> HIDE DEF T
  <2>. QED BY <2>0, <1>1, <1>2, SetInduction
<1>. QED BY <1>3

\* ReadAll gives it.
LEMMA RunIs ==
  ASSUME NEW read, NEW s, NEW count \in Nat, NEW f, RunOf(read, s, count, f)
  PROVE  ReadAll(read, count, s) = f[count]
<1> DEFINE E(g) == [i \in 0..count |-> IF i = 0 THEN Got(<<>>, s) ELSE NextOf(read[i], g[i - 1])]
           After == CHOOSE g : g = E(g)
           k == [i \in 0..count |-> f[i]]
<1>1. ReadAll(read, count, s) = After[count]
  BY DEF ReadAll, NextOf, Then, Mapped
<1>2. f[0] = Got(<<>>, s) /\ \A i \in 1..count : f[i] = NextOf(read[i], f[i - 1])
  BY DEF RunOf
<1>3. \A i \in 0..count : i = 0 \/ (i \in 1..count /\ i - 1 \in 0..count)
  OBVIOUS
<1>4. k = E(k)
  <2>1. ASSUME NEW i \in 0..count PROVE k[i] = IF i = 0 THEN Got(<<>>, s) ELSE NextOf(read[i], k[i - 1])
    <3>1. k[i] = f[i] /\ (i # 0 => k[i - 1] = f[i - 1])
      BY <1>3
    <3> HIDE DEF k
    <3>. QED BY <3>1, <1>2, <1>3
  <2>. QED BY <2>1
<1>5. After = E(After)
  <2> HIDE DEF E, k
  <2>. QED BY <1>4
<1>6. \A i \in 0..count : After[i] = IF i = 0 THEN Got(<<>>, s) ELSE NextOf(read[i], After[i - 1])
  <2> HIDE DEF After
  <2>. QED BY <1>5
<1> HIDE DEF After, E, k
<1> DEFINE T == {i \in Nat : i \in 0..count => After[i] = f[i]}
<1>7. 0 \in T
  BY <1>2, <1>6
<1>8. ASSUME NEW i \in T PROVE i + 1 \in T
  <2> SUFFICES ASSUME i + 1 \in 0..count PROVE After[i + 1] = f[i + 1]
    OBVIOUS
  <2>1. i + 1 # 0 /\ (i + 1) - 1 = i /\ i \in 0..count /\ i + 1 \in 1..count
    OBVIOUS
  <2>2. After[i] = f[i]
    BY <2>1
  <2> HIDE DEF T
  <2>. QED BY <1>2, <1>6, <2>1, <2>2
<1>9. T = Nat
  <2>0. T \in SUBSET Nat
    OBVIOUS
  <2> HIDE DEF T
  <2>. QED BY <2>0, <1>7, <1>8, SetInduction
<1>10. After[count] = f[count]
  BY <1>9
<1>. QED BY <1>1, <1>10

\* One value more is read behind the others.
LEMMA ReadAllNext ==
  ASSUME NEW read, NEW s, NEW n \in Nat
  PROVE  /\ ReadAll(read, 0, s) = Got(<<>>, s)
         /\ ReadAll(read, n + 1, s) = NextOf(read[n + 1], ReadAll(read, n, s))
<1>1. PICK f : RunOf(read, s, n + 1, f)
  BY RunExists, n + 1 \in Nat
<1>2. n + 1 \in 1..(n + 1) /\ (n + 1) - 1 = n /\ 0 \in Nat /\ n + 1 \in Nat
  OBVIOUS
<1>3. RunOf(read, s, n, f) /\ RunOf(read, s, 0, f)
  BY <1>1 DEF RunOf
<1>4. ReadAll(read, n + 1, s) = f[n + 1] /\ ReadAll(read, n, s) = f[n] /\ ReadAll(read, 0, s) = f[0]
  BY <1>1, <1>2, <1>3, RunIs
<1>5. f[n + 1] = NextOf(read[n + 1], f[n])
  BY <1>1, <1>2 DEF RunOf
<1>. QED BY <1>1, <1>4, <1>5 DEF RunOf

\* The reader of n values.
Reads(read, n) == [s \in Bytes |-> ReadAll(read, n, s)]

\* Any number of values, each read from its bytes, are read from all the bytes.
LEMMA AllInStep ==
  ASSUME NEW V, Distinct(V), Distinct(Seq(V)), NEW read,
         NEW vs \in Seq(V), NEW ws \in Seq(Bytes), Len(ws) = Len(vs),
         \A i \in 1..Len(vs) : Leads(read[i], ws[i], vs[i])
  PROVE  Leads(Reads(read, Len(vs)), FlattenSeq(ws), vs)
<1> DEFINE Each(s, t) == \A i \in 1..Len(s) : Leads(read[i], t[i], s[i])
           T == {n \in Nat : \A s \in Seq(V), t \in Seq(Bytes) : Len(s) = n /\ Len(t) = n /\ Each(s, t) =>
                               Leads(Reads(read, n), FlattenSeq(t), s)}
<1>1. 0 \in T
  <2> SUFFICES ASSUME NEW s \in Seq(V), NEW t \in Seq(Bytes), Len(s) = 0, Len(t) = 0
               PROVE  Leads(Reads(read, 0), FlattenSeq(t), s)
    OBVIOUS
  <2>1. s = <<>> /\ t = <<>>
    BY EmptySeq
  <2>2. FlattenSeq(t) = <<>>
    BY <2>1, FlattenNext
  <2>3. \A r \in Bytes : Reads(read, 0)[r] = Got(<<>>, r)
    BY ReadAllNext, 0 \in Nat DEF Reads
  <2>4. Len(<<>>) = 0 /\ 0..(0 - 1) = {}
    OBVIOUS
  <2>. QED BY <2>1, <2>2, <2>3, <2>4, JoinNothing DEF Leads
<1>2. ASSUME NEW n \in T PROVE n + 1 \in T
  <2> SUFFICES ASSUME NEW s \in Seq(V), NEW t \in Seq(Bytes), Len(s) = n + 1, Len(t) = n + 1, Each(s, t)
               PROVE  Leads(Reads(read, n + 1), FlattenSeq(t), s)
    OBVIOUS
  <2>0. n \in Nat
    OBVIOUS
  <2>1. s # <<>> /\ t # <<>>
    BY <2>0, EmptySeq
  <2>2. PICK f \in Seq(V), v \in V : s = Append(f, v)
    BY <2>1, SequenceEmptyOrAppend
  <2>3. PICK g \in Seq(Bytes), w \in Bytes : t = Append(g, w)
    BY <2>1, SequenceEmptyOrAppend
  <2>4. Len(f) = n /\ s[n + 1] = v /\ \A i \in 1..n : s[i] = f[i]
    BY <2>0, <2>2, AppendProperties, LenProperties
  <2>5. Len(g) = n /\ t[n + 1] = w /\ \A i \in 1..n : t[i] = g[i]
    BY <2>0, <2>3, AppendProperties, LenProperties
  <2>6. Each(f, g) /\ Leads(read[n + 1], w, v)
    BY <2>0, <2>4, <2>5
  <2>7. Leads(Reads(read, n), FlattenSeq(g), f)
    BY <2>4, <2>5, <2>6
  <2>8. FlattenSeq(t) = Join(FlattenSeq(g), w)
    BY <2>3, FlattenNext DEF Join, Bytes
  <2> HIDE DEF T, Each
  <2> DEFINE Q == [r \in Bytes |-> IF read[n + 1][r] = Thrown THEN Thrown
                                   ELSE Got(Append(f, read[n + 1][r].v), read[n + 1][r].rest)]
  <2>9. \A r \in Bytes : Got(v, r) # Thrown /\ Got(v, r).v = v /\ Got(v, r).rest = r
    BY DEF Distinct, Got
  <2>10. \A r \in Bytes : Got(f, r) # Thrown /\ Got(f, r).v = f /\ Got(f, r).rest = r
    BY DEF Distinct, Got
  <2>11. Leads(Q, w, s)
    <3>1. Turns(Q, read[n + 1], v, s)
      BY <2>2, <2>9 DEF Turns
    <3> HIDE DEF Q
    <3>. QED BY <2>6, <3>1, Turned
  <2>12. GoesOn(Reads(read, n + 1), Reads(read, n), f, Q)
    <3>1. \A b \in Bytes : Reads(read, n + 1)[b] = NextOf(read[n + 1], Reads(read, n)[b])
      BY <2>0, ReadAllNext DEF Reads
    <3>2. NextOf(read[n + 1], Thrown) = Thrown
      BY DEF NextOf, Then
    <3>3. ASSUME NEW r \in Bytes PROVE NextOf(read[n + 1], Got(f, r)) = Q[r]
      BY <2>10 DEF NextOf, Then, Mapped
    <3> HIDE DEF Q
    <3>. QED BY <3>1, <3>2, <3>3 DEF GoesOn
  <2> HIDE DEF Q
  <2>. QED BY <2>7, <2>8, <2>11, <2>12, Sequel
<1>3. T = Nat
  <2>0. T \in SUBSET Nat
    OBVIOUS
  <2> HIDE DEF T
  <2>. QED BY <2>0, <1>1, <1>2, SetInduction
<1>4. Len(vs) \in Nat
  BY LenProperties
<1>. QED BY <1>3, <1>4

-----------------------------------------------------------------------------
(* Compact numbers in a stream.                                            *)

\* A number that a word stands for fits in one.
LEMMA AsWordInWord ==
  ASSUME NEW n \in Int, AsWord(n) = n
  PROVE  InWord(n)
<1>1. PICK P \in Nat : P = Power[WordSize] /\ P > 0
  BY NumbersAssumption, PowerNext
<1>2. n % P \in 0..(P - 1)
  BY <1>1, Division
<1>3. PICK b \in 0..(P - 1) : b = n % P
  BY <1>2
<1>4. n = b \/ n = b - P
  BY <1>1, <1>3 DEF AsWord
<1>5. -P <= n /\ n < P
  BY <1>4
<1>. QED BY <1>1, <1>5 DEF InWord

\* The header and the payload of a number.
LEMMA WrittenParted ==
  ASSUME NEW n \in Int, InWord(n)
  PROVE  \E l, neg, p :
           /\ l \in 0..WordSize /\ neg \in BOOLEAN /\ p \in Seq(Byte) /\ Len(p) = l
           /\ writeBigInt(n) = [header |-> Header(l, neg), payload |-> p]
<1>1. CASE n = 0
  <2>1. 0 \in 0..WordSize /\ FALSE \in BOOLEAN /\ <<>> \in Seq(Byte) /\ Len(<<>>) = 0
    BY NumbersAssumption
  <2>2. writeBigInt(n) = [header |-> Header(0, FALSE), payload |-> <<>>]
    BY <1>1, WordOfZero DEF ZeroHeader
  <2>. QED BY <2>1, <2>2
<1>2. CASE n # 0
  <2>1. PICK word, l :
            LET neg == Negative(word)
                fill == Fill(neg) IN
            /\ IsWord(word, n)
            /\ l \in 0..WordSize /\ (l = 0 \/ word[l] # fill)
            /\ word = Take(word, l) \o Repeat(fill, WordSize - l)
            /\ writeBigInt(n) = [header |-> Header(l, neg), payload |-> Take(word, l)]
    BY <1>2, Written
  <2>2. word \in Seq(Byte) /\ Len(word) = WordSize /\ Negative(word) \in BOOLEAN
    BY <2>1, WordFacts
  <2>3. Take(word, l) \in Seq(Byte) /\ Len(Take(word, l)) = l
    BY <2>1, <2>2, TakeDrop
  <2>. QED BY <2>1, <2>2, <2>3
<1>. QED BY <1>1, <1>2

\* What follows the payload does not matter.
LEMMA OnlyThePayload ==
  ASSUME NEW l \in 0..WordSize, NEW neg \in BOOLEAN, NEW p \in Seq(Byte), Len(p) = l, NEW rest \in Seq(Byte)
  PROVE  readBigInt(Header(l, neg), p \o rest) = readBigInt(Header(l, neg), p)
<1> DEFINE q == p \o rest
           header == Header(l, neg)
<1>1. Take(q, l) = p /\ Len(q) >= l /\ Len(p) = l
  BY TakeFront, LenProperties
<1>2. Take(p, l) = p
  BY SubSeqFull DEF Take
<1>3. header.length = l
  BY DEF Header
<1>4. ~(Len(q) < l) /\ ~(Len(p) < l)
  BY <1>1, TakeFront
<1> HIDE DEF q, header
<1>. QED BY <1>1, <1>2, <1>3, <1>4 DEF readBigInt, q, header

\* Fewer bytes than the header says are refused.
LEMMA TooShort ==
  ASSUME NEW l \in 0..WordSize, NEW neg \in BOOLEAN, NEW r \in Seq(Byte), Len(r) < l
  PROVE  readBigInt(Header(l, neg), r) = Thrown
<1>1. l # 0 /\ Header(l, neg).length = l
  BY LenProperties DEF Header
<1>2. Header(l, neg) # ZeroHeader
  BY <1>1 DEF Header, ZeroHeader
<1>. QED BY <1>1, <1>2 DEF readBigInt

\* A header byte gives its header back.
LEMMA HeaderRead ==
  ASSUME NEW l \in 0..WordSize, NEW neg \in BOOLEAN
  PROVE  LET b == HeaderByte(Header(l, neg)) IN
         /\ b \in Byte /\ Header(b % (Base \div 2), SignBit(b)) = Header(l, neg)
         /\ Header(l, neg).length = l
<1>1. PICK h \in Nat : h >= 2 /\ Base = 2 * h /\ Base \div 2 = h
  BY HalfBase
<1>2. WordSize \in Nat /\ WordSize < h
  BY <1>1, NumbersAssumption, PrimitivesAssumption
<1> DEFINE b == l + (IF neg THEN h ELSE 0)
<1>3. l \in Nat /\ l < h
  BY <1>2
<1>4. b \in 0..(Base - 1) /\ b % h = l /\ (b >= h <=> neg)
  BY <1>3, <1>1
<1>5. HeaderByte(Header(l, neg)) = b
  BY <1>1 DEF HeaderByte, Header
<1> HIDE DEF b
<1>6. (b >= h) = neg
  BY <1>4
<1>7. Header(b % (Base \div 2), SignBit(b)) = Header(l, neg)
  BY <1>1, <1>4, <1>6 DEF Header, SignBit
<1>8. Header(l, neg).length = l
  BY DEF Header
<1>. QED BY <1>4, <1>5, <1>7, <1>8 DEF Byte

\* A number behind its header comes back, when its payload gives it back and less does not.
LEMMA HeadedLeads ==
  ASSUME NEW n \in Int, NEW b \in Byte, NEW p \in Bytes, NEW R, NEW Q, R[<<>>] = Thrown,
         \A r \in Bytes : R[Join(<<b>>, r)] = IF Q[r] = Thrown THEN Thrown ELSE Got(Q[r], Drop(r, Len(p))),
         \A r \in Bytes : Q[Join(p, r)] = n,
         \A k \in 0..(Len(p) - 1) : Q[Take(p, k)] = Thrown
  PROVE  Leads(R, Join(<<b>>, p), n)
<1>1. <<b>> \in Bytes /\ Len(<<b>>) = 1 /\ Join(<<b>>, p) \in Bytes
  BY MagnitudeOne, JoinAgain DEF Bytes
<1>2. ASSUME NEW r \in Bytes PROVE R[Join(Join(<<b>>, p), r)] = Got(n, r)
  <2>1. Join(Join(<<b>>, p), r) = Join(<<b>>, Join(p, r)) /\ Join(p, r) \in Bytes
    BY <1>1, JoinAgain
  <2>2. Drop(Join(p, r), Len(p)) = r
    BY TakeFront DEF Bytes, Join
  <2>3. n # Thrown
    BY ThrownAssumption
  <2>. QED BY <2>1, <2>2, <2>3
<1>3. ASSUME NEW k \in 0..(Len(Join(<<b>>, p)) - 1) PROVE R[Take(Join(<<b>>, p), k)] = Thrown
  <2>1. CASE k \in 0..(Len(<<b>>) - 1) /\ Take(Join(<<b>>, p), k) = Take(<<b>>, k)
    <3>1. k = 0
      BY <1>1, <2>1
    <3>2. Take(<<b>>, 0) = <<>>
      BY DEF Take
    <3>. QED BY <2>1, <3>1, <3>2
  <2>2. ASSUME NEW j \in 0..(Len(p) - 1), Take(p, j) \in Bytes, Take(Join(<<b>>, p), k) = Join(<<b>>, Take(p, j))
        PROVE  R[Take(Join(<<b>>, p), k)] = Thrown
    BY <2>2
  <2>. QED BY <1>1, <2>1, <2>2, JoinTake, ZenonT(60)
<1>. QED BY <1>1, <1>2, <1>3 DEF Leads

\* What a headed number is read from.
LEMMA HeadedStep ==
  ASSUME NEW b \in Byte, NEW r \in Bytes
  PROVE  /\ Join(<<b>>, r) \in Bytes /\ Join(<<b>>, r) # <<>>
         /\ Join(<<b>>, r)[1] = b /\ Tail(Join(<<b>>, r)) = r
BY Marked DEF Bytes, Join

\* The reader of compact numbers.
CompactReader == [s \in Bytes |-> readCompact(s)]

\* A number of Carbon in its compact form comes back; with a byte less it is not read.
LEMMA CompactLeads ==
  ASSUME NEW n \in Int, AsWord(n) = n
  PROVE  Leads(CompactReader, writeCompact(n), n)
<1>1. InWord(n)
  BY AsWordInWord
<1>2. PICK l, neg, p :
        /\ l \in 0..WordSize /\ neg \in BOOLEAN /\ p \in Seq(Byte) /\ Len(p) = l
        /\ writeBigInt(n) = [header |-> Header(l, neg), payload |-> p]
  BY <1>1, WrittenParted
<1> DEFINE header == Header(l, neg)
           b == HeaderByte(header)
           Q == [r \in Bytes |-> readBigInt(header, r)]
<1>3. b \in Byte /\ Header(b % (Base \div 2), SignBit(b)) = header /\ header.length = l
  BY <1>2, HeaderRead
<1>4. writeCompact(n) = Join(<<b>>, p)
  <2>1. l \in Nat
    BY <1>2, NumbersAssumption
  <2>2. [header |-> header, payload |-> p] \in [header : [length : Nat, negative : BOOLEAN], payload : Seq(Byte)]
    BY <1>2, <2>1 DEF Header
  <2>3. writeBigInt(n) # Thrown
    BY <1>2, <2>2, ThrownIsNoResult
  <2> HIDE DEF header
  <2>4. writeBigInt(n) = [header |-> header, payload |-> p]
    BY <1>2 DEF header
  <2>. QED BY <2>3, <2>4 DEF writeCompact, Headed, Made, Join
<1>5. CompactReader[<<>>] = Thrown
  BY JoinNothing DEF CompactReader, readCompact, readHeaded
<1>6. \A r \in Bytes : CompactReader[Join(<<b>>, r)] = IF Q[r] = Thrown THEN Thrown ELSE Got(Q[r], Drop(r, Len(p)))
  <2> SUFFICES ASSUME NEW r \in Bytes
               PROVE  CompactReader[Join(<<b>>, r)] = IF Q[r] = Thrown THEN Thrown ELSE Got(Q[r], Drop(r, Len(p)))
    OBVIOUS
  <2> HIDE DEF header, b
  <2>1. Join(<<b>>, r) \in Bytes /\ Join(<<b>>, r) # <<>> /\ Join(<<b>>, r)[1] = b /\ Tail(Join(<<b>>, r)) = r
    BY <1>3, HeadedStep
  <2>2. Q[r] = readBigInt(header, r)
    OBVIOUS
  <2> HIDE DEF Q
  <2>3. CompactReader[Join(<<b>>, r)] = readHeaded(readBigInt, Join(<<b>>, r))
    BY <2>1 DEF CompactReader, readCompact
  <2>. QED BY <1>2, <1>3, <2>1, <2>2, <2>3 DEF readHeaded, Made
<1>7. \A r \in Bytes : Q[Join(p, r)] = n
  <2> SUFFICES ASSUME NEW r \in Bytes PROVE Q[Join(p, r)] = n
    OBVIOUS
  <2>1. readBigInt(header, p \o r) = readBigInt(header, p)
    BY <1>2, OnlyThePayload DEF Bytes
  <2>2. readBigInt(header, p) = n
    BY <1>1, <1>2, CompactRead
  <2>3. Join(p, r) \in Bytes
    BY <1>2, JoinAgain DEF Bytes
  <2> HIDE DEF header
  <2>. QED BY <2>1, <2>2, <2>3 DEF Join
<1>8. \A k \in 0..(Len(p) - 1) : Q[Take(p, k)] = Thrown
  <2> SUFFICES ASSUME NEW k \in 0..(Len(p) - 1) PROVE Q[Take(p, k)] = Thrown
    OBVIOUS
  <2>1. k \in 0..Len(p) /\ k < Len(p)
    BY <1>2, LenProperties
  <2>2. Take(p, k) \in Seq(Byte) /\ Len(Take(p, k)) = k
    BY <1>2, <2>1, TakeDrop
  <2>3. readBigInt(header, Take(p, k)) = Thrown
    BY <1>2, <2>1, <2>2, TooShort
  <2> HIDE DEF header
  <2>. QED BY <2>2, <2>3 DEF Bytes
<1> HIDE DEF b, header, Q
<1>. QED BY <1>2, <1>3, <1>4, <1>5, <1>6, <1>7, <1>8, HeadedLeads DEF Bytes

\* What a reader reads, in terms of its operator.
LEMMA CompactBytes ==
  ASSUME NEW n \in Int, AsWord(n) = n
  PROVE  /\ writeCompact(n) \in Seq(Byte)
         /\ \A rest \in Seq(Byte) : readCompact(writeCompact(n) \o rest) = Got(n, rest)
         /\ \A k \in 0..(Len(writeCompact(n)) - 1) : readCompact(Take(writeCompact(n), k)) = Thrown
<1> DEFINE w == writeCompact(n)
<1>1. Leads(CompactReader, w, n)
  BY CompactLeads
<1> HIDE DEF w
<1>2. w \in Bytes
  BY <1>1 DEF Leads
<1>3. \A rest \in Bytes : Join(w, rest) \in Bytes
  BY <1>2, JoinAgain
<1>4. \A k \in 0..(Len(w) - 1) : Take(w, k) \in Bytes
  <2>1. \A k \in 0..(Len(w) - 1) : k \in 0..Len(w)
    BY <1>2, JoinLength
  <2>. QED BY <1>2, <2>1, TakeDrop DEF Bytes
<1>5. \A s \in Bytes : CompactReader[s] = readCompact(s)
  BY DEF CompactReader
<1>6. \A rest \in Bytes : readCompact(Join(w, rest)) = Got(n, rest)
  BY <1>1, <1>3, <1>5 DEF Leads
<1>7. \A k \in 0..(Len(w) - 1) : readCompact(Take(w, k)) = Thrown
  BY <1>1, <1>4, <1>5 DEF Leads
<1>. QED BY <1>2, <1>6, <1>7 DEF w, Bytes, Join

-----------------------------------------------------------------------------
(* Texts, arrays and items of Carbon.                                      *)

\* A text without a zero comes back; without the zero that ends it, it is not read.
LEMMA SzBytes ==
  ASSUME NEW text \in Seq(Byte), 0 \notin ToSet(text)
  PROVE  /\ writeSz(text) \in Seq(Byte)
         /\ \A rest \in Seq(Byte) : readSz(writeSz(text) \o rest) = Got(text, rest)
         /\ \A k \in 0..(Len(writeSz(text)) - 1) : readSz(Take(writeSz(text), k)) = Thrown
<1>1. Len(text) \in Nat /\ DOMAIN text = 1..Len(text) /\ \A i \in 1..Len(text) : text[i] # 0
  BY LenProperties DEF ToSet
<1> DEFINE w == Append(text, 0)
           m == Len(text) + 1
<1>2. writeSz(text) = w
  BY DEF writeSz
<1>3. /\ w \in Seq(Byte) /\ w = text \o <<0>> /\ Len(w) = m /\ w[m] = 0
      /\ \A i \in 1..Len(text) : w[i] = text[i]
  <2>1. 0 \in Byte
    BY Marks
  <2>2. w \in Seq(Byte) /\ w = text \o <<0>> /\ Len(w) = m /\ w[Len(w)] = 0
    BY <2>1, AppendByte
  <2>3. \A i \in 1..Len(text) : w[i] = text[i]
    BY <2>1, AppendProperties
  <2>. QED BY <2>2, <2>3
<1>4. m \in Nat /\ m \in 1..m /\ m - 1 = Len(text) /\ \A i \in 1..m : i = m \/ i \in 1..Len(text)
  BY <1>1
<1> HIDE DEF w, m
<1>5. ASSUME NEW rest \in Seq(Byte) PROVE readSz(w \o rest) = Got(text, rest)
  <2> DEFINE s == w \o rest
             Ends(i) == s[i] = 0 /\ \A j \in 1..(i - 1) : s[j] # 0
  <2>1. s \in Seq(Byte) /\ Len(s) = m + Len(rest) /\ Len(rest) \in Nat /\ \A i \in 1..m : s[i] = w[i]
    BY <1>3, <1>4, ConcatProperties, LenProperties
  <2>2. DOMAIN s = 1..(m + Len(rest)) /\ m \in DOMAIN s
    BY <2>1, <1>4, LenProperties
  <2>3. Take(s, m) = w /\ Drop(s, m) = rest
    BY <1>3, TakeFront
  <2>4. Take(s, m - 1) = text
    <3>1. s = text \o (<<0>> \o rest) /\ <<0>> \o rest \in Seq(Byte)
      <4>1. <<0>> \in Seq(Byte)
        BY Marks, MagnitudeOne
      <4>. QED BY <1>3, <4>1, ConcatAssociative, ConcatProperties
    <3> HIDE DEF s
    <3>. QED BY <3>1, <1>4, TakeFront
  <2> HIDE DEF s
  <2>5. \A j \in 1..(m - 1) : s[j] # 0
    <3>1. \A j \in 1..(m - 1) : j \in 1..m /\ j \in 1..Len(text)
      BY <1>4
    <3>. QED BY <1>1, <1>3, <2>1, <3>1
  <2>6. Ends(m)
    BY <1>3, <1>4, <2>1, <2>5
  <2>7. ASSUME NEW i \in DOMAIN s, Ends(i) PROVE i = m
    <3>1. i \in 1..(m + Len(rest)) /\ s[i] = 0 /\ \A j \in 1..(i - 1) : s[j] # 0
      BY <2>2, <2>7
    <3>2. CASE i < m
      <4>1. i \in 1..(m - 1)
        BY <1>4, <2>1, <3>1, <3>2
      <4>. QED BY <2>5, <3>1, <4>1
    <3>3. CASE i > m
      <4>1. m \in 1..(i - 1)
        BY <1>4, <2>1, <3>1, <3>3
      <4>. QED BY <2>6, <3>1, <4>1
    <3>. QED BY <1>4, <2>1, <3>1, <3>2, <3>3
  <2>8. (CHOOSE i \in DOMAIN s : Ends(i)) = m
    <3> HIDE DEF Ends
    <3>. QED BY <2>2, <2>6, <2>7
  <2>9. 0 \in ToSet(s)
    BY <2>2, <2>6 DEF ToSet
  <2>10. readSz(s) = LET end == CHOOSE i \in DOMAIN s : s[i] = 0 /\ \A j \in 1..(i - 1) : s[j] # 0
                     IN Got(Take(s, end - 1), Drop(s, end))
    BY <2>9 DEF readSz
  <2>11. readSz(s) = Got(Take(s, m - 1), Drop(s, m))
    BY <2>8, <2>10
  <2>. QED BY <2>3, <2>4, <2>11 DEF s
<1>6. ASSUME NEW k \in 0..(Len(w) - 1) PROVE readSz(Take(w, k)) = Thrown
  <2>1. k \in 0..Len(text) /\ k \in 0..Len(w)
    BY <1>3, <1>4
  <2> DEFINE r == Take(w, k)
  <2>2. r \in Seq(Byte) /\ Len(r) = k /\ \A i \in 1..k : r[i] = w[i]
    BY <1>3, <2>1, TakeDrop
  <2> HIDE DEF r
  <2>3. \A i \in 1..k : i \in 1..Len(text)
    BY <1>1, <2>1
  <2>4. DOMAIN r = 1..k
    BY <2>2, LenProperties
  <2>5. \A i \in DOMAIN r : r[i] # 0
    BY <1>1, <1>3, <2>2, <2>3, <2>4
  <2>6. 0 \notin ToSet(r)
    BY <2>5 DEF ToSet
  <2>. QED BY <2>6 DEF readSz, r
<1>. QED BY <1>2, <1>5, <1>6, <1>3

\* Bytes of Carbon behind their length come back; with a byte less they are not read.
LEMMA ArrayBytes ==
  ASSUME NEW bytes \in Seq(Byte), Len(bytes) < Power[LengthSize] \div 2
  PROVE  /\ writeArray(bytes) \in Seq(Byte)
         /\ \A rest \in Seq(Byte) : readArray(writeArray(bytes) \o rest) = Got(bytes, rest)
         /\ \A k \in 0..(Len(writeArray(bytes)) - 1) : readArray(Take(writeArray(bytes), k)) = Thrown
<1> DEFINE n == Len(bytes)
           w == writeLength(n)
<1>1. n \in Nat /\ LengthSize \in Nat
  BY LenProperties, PrimitivesAssumption
<1>2. /\ w \in Seq(Byte) /\ Len(w) = LengthSize
      /\ \A rest \in Seq(Byte) : readLength(1, w \o rest) = IF n <= Len(rest) THEN Got(n, rest) ELSE Thrown
      /\ \A k \in 0..(LengthSize - 1) : readLength(1, Take(w, k)) = Thrown
  BY <1>1, LengthRead
<1>3. writeArray(bytes) = w \o bytes
  BY DEF writeArray
<1>4. w \o bytes \in Seq(Byte) /\ Len(w \o bytes) = LengthSize + n
  BY <1>2, ConcatProperties
<1> HIDE DEF w, n
<1>5. ASSUME NEW rest \in Seq(Byte) PROVE readArray((w \o bytes) \o rest) = Got(bytes, rest)
  <2>1. (w \o bytes) \o rest = w \o (bytes \o rest)
    BY <1>2, ConcatAssociative, SMTT(20)
  <2>2. bytes \o rest \in Seq(Byte) /\ n <= Len(bytes \o rest) /\ TakeBytes(bytes \o rest, n) = Got(bytes, rest)
    BY TakeFront DEF n
  <2>3. readLength(1, w \o (bytes \o rest)) = Got(n, bytes \o rest)
    BY <1>2, <2>2
  <2>4. Got(n, bytes \o rest) # Thrown /\ Got(n, bytes \o rest).v = n /\ Got(n, bytes \o rest).rest = bytes \o rest
    BY <1>1, <2>2, Gotten, ReadableKinds
  <2>. QED BY <2>1, <2>2, <2>3, <2>4 DEF readArray, Then
<1>6. ASSUME NEW k \in 0..(Len(w \o bytes) - 1) PROVE readArray(Take(w \o bytes, k)) = Thrown
  <2>0. k \in 0..(Len(w) + Len(bytes)) /\ k < LengthSize + n /\ Len(bytes) = n
    BY <1>1, <1>2, <1>4 DEF n
  <2>1. CASE k < Len(w)
    <3>1. Take(w \o bytes, k) = Take(w, k)
      BY <1>2, <2>0, <2>1, TakeConcat
    <3>2. k \in 0..(LengthSize - 1)
      BY <1>1, <1>2, <2>0, <2>1
    <3>. QED BY <1>2, <3>1, <3>2 DEF readArray, Then
  <2>2. CASE k >= Len(w)
    <3> DEFINE r == Take(bytes, k - Len(w))
    <3>1. k - Len(w) \in 0..Len(bytes) /\ Take(w \o bytes, k) = w \o r
      BY <1>2, <2>0, <2>2, TakeConcat
    <3>2. r \in Seq(Byte) /\ Len(r) = k - Len(w)
      BY <3>1, TakeDrop
    <3> HIDE DEF r
    <3>3. ~(n <= Len(r))
      BY <1>1, <1>2, <2>0, <3>2
    <3>4. readLength(1, w \o r) = Thrown
      BY <1>2, <3>2, <3>3
    <3>. QED BY <3>1, <3>4 DEF readArray, Then
  <2>. QED BY <1>1, <1>2, <2>0, <2>1, <2>2
<1>. QED BY <1>3, <1>4, <1>5, <1>6

\* The type of an item, which is what its reader is given.
TypeOfItem(x) == [x EXCEPT !.v = 0]

\* An item comes back by its type; with a byte less it is not read.
LEMMA ItemBytes ==
  ASSUME NEW x \in Item, Fits(x)
  PROVE  /\ writeItem(x) \in Seq(Byte)
         /\ \A rest \in Seq(Byte) : readItem(TypeOfItem(x), writeItem(x) \o rest) = Got(x, rest)
         /\ \A k \in 0..(Len(writeItem(x)) - 1) : readItem(TypeOfItem(x), Take(writeItem(x), k)) = Thrown
<1> DEFINE type == TypeOfItem(x)
<1>0. /\ type.t = x.t /\ [type EXCEPT !.v = x.v] = x
      /\ x.t = "int" => type.size = x.size
      /\ x.t \in {"int", "compact", "sz", "array"}
  BY DEF Item, TypeOfItem
<1> HIDE DEF type
<1>1. CASE x.t = "int"
  <2>1. x.size \in Nat \ {0} /\ x.v \in Int /\ -(Power[x.size] \div 2) <= x.v /\ x.v < Power[x.size] \div 2
    BY <1>1 DEF Item, Fits
  <2> DEFINE w == writeFixed(x.v, x.size)
  <2>2. /\ w \in Seq(Byte) /\ Len(w) = x.size
        /\ \A rest \in Seq(Byte) : readFixed(x.size, w \o rest) = Got(x.v, rest)
        /\ \A k \in 0..(x.size - 1) : readFixed(x.size, Take(w, k)) = Thrown
    BY <2>1, FixedRead
  <2>3. writeItem(x) = w
    BY <1>1 DEF writeItem
  <2> HIDE DEF w
  <2>4. \A s : readItem(type, s) = 
                    IF readFixed(x.size, s) = Thrown THEN Thrown ELSE Got([type EXCEPT !.v = readFixed(x.size, s).v], readFixed(x.size, s).rest)
    BY <1>0, <1>1 DEF readItem, Mapped
  <2>5. \A rest \in Seq(Byte) : Got(x.v, rest) # Thrown /\ Got(x.v, rest).v = x.v /\ Got(x.v, rest).rest = rest
    BY <2>1, Gotten, ReadableKinds
  <2>6. \A rest \in Seq(Byte) : readItem(type, w \o rest) = Got(x, rest)
    BY <1>0, <2>2, <2>4, <2>5
  <2>7. \A k \in 0..(Len(w) - 1) : readItem(type, Take(w, k)) = Thrown
    BY <2>2, <2>4
  <2>. QED BY <2>2, <2>3, <2>6, <2>7 DEF type
<1>2. CASE x.t = "compact"
  <2>1. x.v \in Int /\ AsWord(x.v) = x.v
    BY <1>2 DEF Item, Fits
  <2> DEFINE w == writeCompact(x.v)
  <2>2. /\ w \in Seq(Byte)
        /\ \A rest \in Seq(Byte) : readCompact(w \o rest) = Got(x.v, rest)
        /\ \A k \in 0..(Len(w) - 1) : readCompact(Take(w, k)) = Thrown
    BY <2>1, CompactBytes
  <2>3. writeItem(x) = w
    BY <1>2 DEF writeItem
  <2> HIDE DEF w
  <2>4. \A s : readItem(type, s) = 
                    IF readCompact(s) = Thrown THEN Thrown ELSE Got([type EXCEPT !.v = readCompact(s).v], readCompact(s).rest)
    BY <1>0, <1>2 DEF readItem, Mapped
  <2>5. \A rest \in Seq(Byte) : Got(x.v, rest) # Thrown /\ Got(x.v, rest).v = x.v /\ Got(x.v, rest).rest = rest
    BY <2>1, Gotten, ReadableKinds
  <2>6. \A rest \in Seq(Byte) : readItem(type, w \o rest) = Got(x, rest)
    BY <1>0, <2>2, <2>4, <2>5
  <2>7. \A k \in 0..(Len(w) - 1) : readItem(type, Take(w, k)) = Thrown
    BY <2>2, <2>4
  <2>. QED BY <2>2, <2>3, <2>6, <2>7 DEF type
<1>3. CASE x.t = "sz"
  <2>1. x.v \in Seq(Byte) /\ 0 \notin ToSet(x.v)
    BY <1>3 DEF Item, Fits
  <2> DEFINE w == writeSz(x.v)
  <2>2. /\ w \in Seq(Byte)
        /\ \A rest \in Seq(Byte) : readSz(w \o rest) = Got(x.v, rest)
        /\ \A k \in 0..(Len(w) - 1) : readSz(Take(w, k)) = Thrown
    BY <2>1, SzBytes
  <2>3. writeItem(x) = w
    BY <1>3 DEF writeItem
  <2> HIDE DEF w
  <2>4. \A s : readItem(type, s) = 
                    IF readSz(s) = Thrown THEN Thrown ELSE Got([type EXCEPT !.v = readSz(s).v], readSz(s).rest)
    BY <1>0, <1>3 DEF readItem, Mapped
  <2>5. \A rest \in Seq(Byte) : Got(x.v, rest) # Thrown /\ Got(x.v, rest).v = x.v /\ Got(x.v, rest).rest = rest
    BY <2>1, Gotten, ReadableKinds
  <2>6. \A rest \in Seq(Byte) : readItem(type, w \o rest) = Got(x, rest)
    BY <1>0, <2>2, <2>4, <2>5
  <2>7. \A k \in 0..(Len(w) - 1) : readItem(type, Take(w, k)) = Thrown
    BY <2>2, <2>4
  <2>. QED BY <2>2, <2>3, <2>6, <2>7 DEF type
<1>4. CASE x.t = "array"
  <2>1. x.v \in Seq(Byte) /\ Len(x.v) < Power[LengthSize] \div 2
    BY <1>4 DEF Item, Fits
  <2> DEFINE w == writeArray(x.v)
  <2>2. /\ w \in Seq(Byte)
        /\ \A rest \in Seq(Byte) : readArray(w \o rest) = Got(x.v, rest)
        /\ \A k \in 0..(Len(w) - 1) : readArray(Take(w, k)) = Thrown
    BY <2>1, ArrayBytes
  <2>3. writeItem(x) = w
    BY <1>4 DEF writeItem
  <2> HIDE DEF w
  <2>4. \A s : readItem(type, s) = 
                    IF readArray(s) = Thrown THEN Thrown ELSE Got([type EXCEPT !.v = readArray(s).v], readArray(s).rest)
    BY <1>0, <1>4 DEF readItem, Mapped
  <2>5. \A rest \in Seq(Byte) : Got(x.v, rest) # Thrown /\ Got(x.v, rest).v = x.v /\ Got(x.v, rest).rest = rest
    BY <2>1, Gotten, ReadableKinds
  <2>6. \A rest \in Seq(Byte) : readItem(type, w \o rest) = Got(x, rest)
    BY <1>0, <2>2, <2>4, <2>5
  <2>7. \A k \in 0..(Len(w) - 1) : readItem(type, Take(w, k)) = Thrown
    BY <2>2, <2>4
  <2>. QED BY <2>2, <2>3, <2>6, <2>7 DEF type
<1>. QED BY <1>0, <1>1, <1>2, <1>3, <1>4

-----------------------------------------------------------------------------
(* Items one after the other.                                              *)

\* The items that fit the wire.
Fitting == {x \in Item : Fits(x)}
\* The bytes of each item, and the reader of each by its type.
BytesOfItems(items) == [i \in 1..Len(items) |-> writeItem(items[i])]
ReadersOfItems(items) == [i \in 1..Len(items) |-> [left \in Seq(Nat) |-> readItem(TypeOfItem(items[i]), left)]]

\* A sequence over a set is one over a larger set.
LEMMA SeqWider ==
  ASSUME NEW S, NEW R, S \subseteq R, NEW s \in Seq(S)
  PROVE  s \in Seq(R)
<1>1. Len(s) \in Nat /\ s = [i \in 1..Len(s) |-> s[i]] /\ \A i \in 1..Len(s) : s[i] \in R
  BY LenProperties
<1>2. [i \in 1..Len(s) |-> s[i]] \in Seq(R)
  BY <1>1, IsASeq
<1>. QED BY <1>1, <1>2

\* Bytes are natural numbers.
LEMMA BytesAreNumbers == Bytes \subseteq Seq(Nat)
<1>1. Byte \subseteq Nat
  BY NumbersAssumption DEF Byte
<1> SUFFICES ASSUME NEW s \in Bytes PROVE s \in Seq(Nat)
  OBVIOUS
<1>2. s \in Seq(Byte)
  BY DEF Bytes
<1> HIDE DEF Byte
<1>. QED BY <1>1, <1>2, SeqWider

\* The first bytes are bytes.
LEMMA TakenAreBytes ==
  ASSUME NEW w \in Bytes, NEW k \in 0..(Len(w) - 1)
  PROVE  Take(w, k) \in Bytes /\ Len(Take(w, k)) = k
<1>1. k \in 0..Len(w)
  BY JoinLength
<1>. QED BY <1>1, TakeDrop DEF Bytes

\* An item is read by its type.
LEMMA ItemLeads ==
  ASSUME NEW x \in Item, Fits(x)
  PROVE  Leads([left \in Seq(Nat) |-> readItem(TypeOfItem(x), left)], writeItem(x), x)
<1> DEFINE w == writeItem(x)
           type == TypeOfItem(x)
           R == [left \in Seq(Nat) |-> readItem(type, left)]
<1>1. /\ w \in Bytes
      /\ \A rest \in Bytes : readItem(type, Join(w, rest)) = Got(x, rest)
      /\ \A k \in 0..(Len(w) - 1) : readItem(type, Take(w, k)) = Thrown
  BY ItemBytes DEF Bytes, Join
<1> HIDE DEF w, type
<1>2. \A s \in Bytes : R[s] = readItem(type, s)
  BY BytesAreNumbers
<1> HIDE DEF R
<1>3. \A rest \in Bytes : Join(w, rest) \in Bytes
  BY <1>1, JoinAgain
<1>4. \A k \in 0..(Len(w) - 1) : Take(w, k) \in Bytes
  BY <1>1, TakenAreBytes
<1>5. Leads(R, w, x)
  BY <1>1, <1>2, <1>3, <1>4 DEF Leads
<1>. QED BY <1>5 DEF R, w, type

\* Items one after the other are read in step; bytes that end early never pass for all.
LEMMA ItemsLead ==
  ASSUME NEW items \in Seq(Fitting)
  PROVE  Leads(Reads(ReadersOfItems(items), Len(items)), FlattenSeq(BytesOfItems(items)), items)
<1> DEFINE n == Len(items)
           ws == BytesOfItems(items)
           read == ReadersOfItems(items)
<1>1. n \in Nat /\ \A i \in 1..n : items[i] \in Item /\ Fits(items[i])
  BY LenProperties DEF Fitting
<1>2. \A i \in 1..n : Leads(read[i], ws[i], items[i])
  <2> SUFFICES ASSUME NEW i \in 1..n PROVE Leads(read[i], ws[i], items[i])
    OBVIOUS
  <2>1. read[i] = [left \in Seq(Nat) |-> readItem(TypeOfItem(items[i]), left)] /\ ws[i] = writeItem(items[i])
    BY DEF ReadersOfItems, BytesOfItems
  <2> HIDE DEF read, ws, n
  <2>. QED BY <1>1, <2>1, ItemLeads
<1>3. ws \in Seq(Bytes) /\ Len(ws) = n
  <2>1. \A i \in 1..n : writeItem(items[i]) \in Bytes
    BY <1>1, ItemBytes DEF Bytes
  <2> HIDE DEF n
  <2>2. [i \in 1..n |-> writeItem(items[i])] \in Seq(Bytes) /\ Len([i \in 1..n |-> writeItem(items[i])]) = n
    BY <1>1, <2>1, IsASeq
  <2>. QED BY <2>2 DEF BytesOfItems, n
<1>4. items \in Seq(Item) /\ Distinct(Item) /\ Distinct(Seq(Item))
  <2>1. Fitting \subseteq Item
    BY DEF Fitting
  <2> HIDE DEF Fitting
  <2>2. items \in Seq(Item)
    BY <2>1, SeqWider
  <2>3. \A v \in Item \cup Seq(Item), rest \in Seq(Byte) : Got(v, rest) # Thrown
    BY Gotten, ReadableKinds
  <2>. QED BY <2>2, <2>3 DEF Distinct, Bytes
<1> HIDE DEF ws, read
<1>. QED BY <1>2, <1>3, <1>4, AllInStep DEF n, ws, read

\* Carbon: numbers, texts and byte arrays that fit, written one after the other, are read back
\* in step; bytes that end early never pass for all of them.
THEOREM ItemsSurvive ==
  ASSUME NEW items \in Seq(Item), \A i \in 1..Len(items) : Fits(items[i])
  PROVE  InStep(writeItem, readItem, items)
<1> DEFINE n == Len(items)
           s == FlattenSeq(BytesOfItems(items))
           types == [i \in DOMAIN items |-> [items[i] EXCEPT !.v = 0]]
<1>1. n \in Nat /\ items = [i \in 1..n |-> items[i]] /\ DOMAIN items = 1..n
  BY LenProperties
<1>2. items \in Seq(Fitting)
  <2>1. \A i \in 1..n : items[i] \in Fitting
    BY <1>1, LenProperties DEF Fitting
  <2> HIDE DEF Fitting, n
  <2>2. [i \in 1..n |-> items[i]] \in Seq(Fitting)
    BY <1>1, <2>1, IsASeq
  <2>. QED BY <1>1, <2>2
<1>3. Leads(Reads(ReadersOfItems(items), n), s, items)
  BY <1>2, ItemsLead
<1>4. s = FlattenSeq([i \in DOMAIN items |-> writeItem(items[i])])
  BY <1>1 DEF BytesOfItems
<1>5. \A bytes : ReadEach(readItem, types, bytes) = ReadAll(ReadersOfItems(items), n, bytes)
  <2>1. Len(types) = n /\ DOMAIN types = 1..n
    BY <1>1
  <2>2. [i \in DOMAIN types |-> [left \in Seq(Nat) |-> readItem(types[i], left)]] = ReadersOfItems(items)
    <3>1. \A i \in 1..n : types[i] = TypeOfItem(items[i])
      BY <1>1 DEF TypeOfItem
    <3> HIDE DEF types
    <3>2. \A i \in 1..n : [left \in Seq(Nat) |-> readItem(types[i], left)]
                          = [left \in Seq(Nat) |-> readItem(TypeOfItem(items[i]), left)]
      BY <3>1
    <3>. QED BY <2>1, <3>2 DEF ReadersOfItems
  <2> HIDE DEF types, n
  <2>. QED BY <2>1, <2>2 DEF ReadEach
<1> HIDE DEF s, types, n
<1>6. s \in Bytes /\ Join(s, <<>>) = s /\ <<>> \in Bytes
  BY <1>3, JoinNothing DEF Leads
<1>7. ReadEach(readItem, types, s) = Got(items, <<>>)
  BY <1>3, <1>5, <1>6 DEF Leads, Reads
<1>8. \A k \in 0..(Len(s) - 1) : ReadEach(readItem, types, Take(s, k)) = Thrown
  BY <1>3, <1>5, <1>6, TakenAreBytes DEF Leads, Reads
<1>. QED BY <1>4, <1>7, <1>8 DEF InStep, types

-----------------------------------------------------------------------------
(* Signatures of the old chain.                                            *)

\* The signatures after one more.
NextSignature(r) ==
    Then(r, LAMBDA sigs, left : Mapped(readSignatureV2(left),
              LAMBDA sig : IF sig = NoSignature THEN sigs ELSE Append(sigs, sig)))
\* What is read of each number of signatures.
SignaturesOf(s, n, f) == f[0] = Got(<<>>, s) /\ \A i \in 1..n : f[i] = NextSignature(f[i - 1])

\* There is what is read of each number of signatures.
LEMMA SignaturesExist ==
  ASSUME NEW s, NEW count \in Nat
  PROVE  \E f : SignaturesOf(s, count, f)
<1> DEFINE T == {n \in Nat : \E f : SignaturesOf(s, n, f)}
<1>1. 0 \in T
  <2>1. [i \in {0} |-> Got(<<>>, s)][0] = Got(<<>>, s)
    OBVIOUS
  <2>2. SignaturesOf(s, 0, [i \in {0} |-> Got(<<>>, s)])
    BY <2>1 DEF SignaturesOf
  <2>. QED BY <2>2
<1>2. ASSUME NEW n \in T PROVE n + 1 \in T
  <2>1. PICK f : SignaturesOf(s, n, f)
    OBVIOUS
  <2> DEFINE v == NextSignature(f[n])
             g == [i \in 0..(n + 1) |-> IF i = n + 1 THEN v ELSE f[i]]
  <2>2. n \in Nat
    OBVIOUS
  <2>3. n + 1 \in 0..(n + 1) /\ (\A i \in 0..n : i \in 0..(n + 1) /\ i # n + 1) /\ n \in 0..n /\ 0 \in 0..n
    BY <2>2
  <2>4. \A i \in 1..(n + 1) : (i = n + 1 /\ i - 1 = n) \/ (i \in 1..n /\ i \in 0..n /\ i - 1 \in 0..n)
    BY <2>2
  <2>5. g[n + 1] = v /\ \A i \in 0..n : g[i] = f[i]
    <3> HIDE DEF v
    <3>. QED BY <2>3
  <2> HIDE DEF g
  <2>6. ASSUME NEW i \in 1..(n + 1) PROVE g[i] = NextSignature(g[i - 1])
    <3>1. CASE i = n + 1 /\ i - 1 = n
      BY <2>3, <2>5, <3>1
    <3>2. CASE i \in 1..n /\ i \in 0..n /\ i - 1 \in 0..n
      BY <2>1, <2>5, <3>2 DEF SignaturesOf
    <3>. QED BY <2>4, <3>1, <3>2
  <2>7. g[0] = Got(<<>>, s)
    BY <2>1, <2>3, <2>5 DEF SignaturesOf
  <2>8. SignaturesOf(s, n + 1, g)
    BY <2>6, <2>7 DEF SignaturesOf
  <2>. QED BY <2>2, <2>8
<1>3. T = Nat
  <2>0. T \in SUBSET Nat
    OBVIOUS
  <2> HIDE DEF T
  <2>. QED BY <2>0, <1>1, <1>2, SetInduction
<1>. QED BY <1>3

\* ReadSignatures gives it.
LEMMA SignaturesAre ==
  ASSUME NEW s, NEW count \in Nat, NEW f, SignaturesOf(s, count, f)
  PROVE  ReadSignatures(count, s) = f[count]
<1> DEFINE E(g) == [i \in 0..count |-> IF i = 0 THEN Got(<<>>, s) ELSE NextSignature(g[i - 1])]
           After == CHOOSE g : g = E(g)
           k == [i \in 0..count |-> f[i]]
<1>1. ReadSignatures(count, s) = After[count]
  BY DEF ReadSignatures, NextSignature, Then, Mapped
<1>2. f[0] = Got(<<>>, s) /\ \A i \in 1..count : f[i] = NextSignature(f[i - 1])
  BY DEF SignaturesOf
<1>3. \A i \in 0..count : i = 0 \/ (i \in 1..count /\ i - 1 \in 0..count)
  OBVIOUS
<1>4. k = E(k)
  <2>1. ASSUME NEW i \in 0..count PROVE k[i] = IF i = 0 THEN Got(<<>>, s) ELSE NextSignature(k[i - 1])
    <3>1. k[i] = f[i] /\ (i # 0 => k[i - 1] = f[i - 1])
      BY <1>3
    <3> HIDE DEF k
    <3>. QED BY <3>1, <1>2, <1>3
  <2>. QED BY <2>1
<1>5. After = E(After)
  <2> HIDE DEF E, k
  <2>. QED BY <1>4
<1>6. \A i \in 0..count : After[i] = IF i = 0 THEN Got(<<>>, s) ELSE NextSignature(After[i - 1])
  <2> HIDE DEF After
  <2>. QED BY <1>5
<1> HIDE DEF After, E, k
<1> DEFINE T == {i \in Nat : i \in 0..count => After[i] = f[i]}
<1>7. 0 \in T
  BY <1>2, <1>6
<1>8. ASSUME NEW i \in T PROVE i + 1 \in T
  <2> SUFFICES ASSUME i + 1 \in 0..count PROVE After[i + 1] = f[i + 1]
    OBVIOUS
  <2>1. i + 1 # 0 /\ (i + 1) - 1 = i /\ i \in 0..count /\ i + 1 \in 1..count
    OBVIOUS
  <2>2. After[i] = f[i]
    BY <2>1
  <2> HIDE DEF T
  <2>. QED BY <1>2, <1>6, <2>1, <2>2
<1>9. T = Nat
  <2>0. T \in SUBSET Nat
    OBVIOUS
  <2> HIDE DEF T
  <2>. QED BY <2>0, <1>7, <1>8, SetInduction
<1>10. After[count] = f[count]
  BY <1>9
<1>. QED BY <1>1, <1>10

\* One signature more is read behind the others.
LEMMA ReadSignaturesNext ==
  ASSUME NEW s, NEW n \in Nat
  PROVE  /\ ReadSignatures(0, s) = Got(<<>>, s)
         /\ ReadSignatures(n + 1, s) = NextSignature(ReadSignatures(n, s))
<1>1. PICK f : SignaturesOf(s, n + 1, f)
  BY SignaturesExist, n + 1 \in Nat
<1>2. n + 1 \in 1..(n + 1) /\ (n + 1) - 1 = n /\ 0 \in Nat /\ n + 1 \in Nat
  OBVIOUS
<1>3. SignaturesOf(s, n, f) /\ SignaturesOf(s, 0, f)
  BY <1>1 DEF SignaturesOf
<1>4. ReadSignatures(n + 1, s) = f[n + 1] /\ ReadSignatures(n, s) = f[n] /\ ReadSignatures(0, s) = f[0]
  BY <1>1, <1>2, <1>3, SignaturesAre
<1>5. f[n + 1] = NextSignature(f[n])
  BY <1>1, <1>2 DEF SignaturesOf
<1>. QED BY <1>1, <1>4, <1>5 DEF SignaturesOf

\* A signature that is written and read again.
Plain(sig) == sig \in Signature /\ sig.kind = 1 /\ Len(sig.bytes) < Power[2]

\* The signatures written one after the other.
WrittenSignatures(sigs) == FlattenSeq([i \in DOMAIN sigs |-> writeSignature(sigs[i])])

\* A signature of the one kind comes back.
LEMMA PlainRead ==
  ASSUME NEW sig, Plain(sig), NEW rest \in Seq(Byte)
  PROVE  /\ writeSignature(sig) \in Seq(Byte) /\ sig # NoSignature
         /\ readSignatureV2(writeSignature(sig) \o rest) = Got(sig, rest)
<1>1. sig.bytes \in Seq(Byte) /\ sig = [kind |-> 1, bytes |-> sig.bytes] /\ Len(sig.bytes) < Power[2]
  BY DEF Plain, Signature
<1>2. sig \in {NoSignature, [kind |-> 1, bytes |-> sig.bytes]}
  BY <1>1
<1>3. sig # NoSignature
  BY <1>1 DEF NoSignature
<1>. QED BY <1>1, <1>2, <1>3, SignatureRead

\* One more signature is written behind the others.
LEMMA WrittenNext ==
  /\ WrittenSignatures(<<>>) = <<>>
  /\ \A sigs \in Seq(Signature), sig \in Signature :
       (\A i \in 1..Len(sigs) : Plain(sigs[i])) /\ Plain(sig) =>
         /\ WrittenSignatures(sigs) \in Seq(Byte)
         /\ WrittenSignatures(Append(sigs, sig)) = WrittenSignatures(sigs) \o writeSignature(sig)
<1>1. WrittenSignatures(<<>>) = <<>>
  BY FlattenNext DEF WrittenSignatures
<1>2. ASSUME NEW sigs \in Seq(Signature), NEW sig \in Signature,
             \A i \in 1..Len(sigs) : Plain(sigs[i]), Plain(sig)
      PROVE  /\ WrittenSignatures(sigs) \in Seq(Byte)
             /\ WrittenSignatures(Append(sigs, sig)) = WrittenSignatures(sigs) \o writeSignature(sig)
  <2> DEFINE n == Len(sigs)
             a == Append(sigs, sig)
             w == [i \in 1..n |-> writeSignature(sigs[i])]
             v == [i \in 1..(n + 1) |-> writeSignature(a[i])]
  <2>0. <<>> \in Seq(Byte)
    OBVIOUS
  <2>1. n \in Nat /\ DOMAIN sigs = 1..n
    BY LenProperties
  <2>2. /\ DOMAIN a = 1..(n + 1) /\ (\A i \in 1..n : a[i] = sigs[i]) /\ a[n + 1] = sig
    BY AppendProperties, LenProperties
  <2>3. writeSignature(sig) \in Seq(Byte) /\ \A i \in 1..n : writeSignature(sigs[i]) \in Seq(Byte)
    BY <1>2, <2>0, PlainRead
  <2>4. w \in Seq(Seq(Byte)) /\ Len(w) = n
    BY <2>1, <2>3, IsASeq
  <2>5. \A i \in 1..(n + 1) : a[i] = IF i = n + 1 THEN sig ELSE sigs[i]
    BY <2>1, <2>2
  <2>6. v = Append(w, writeSignature(sig))
    <3>1. ASSUME NEW i \in 1..(n + 1) PROVE v[i] = IF i = n + 1 THEN writeSignature(sig) ELSE w[i]
      <4>1. i # n + 1 => i \in 1..n
        BY <2>1
      <4> HIDE DEF a
      <4>. QED BY <2>5, <4>1
    <3>2. \A i \in 1..(n + 1) : i = n + 1 \/ i \in 1..n
      BY <2>1
    <3>3. v \in Seq(Seq(Byte)) /\ Len(v) = n + 1
      <4>1. \A i \in 1..(n + 1) : writeSignature(a[i]) \in Seq(Byte)
        BY <2>3, <2>5, <3>2
      <4>2. n + 1 \in Nat
        BY <2>1
      <4> HIDE DEF a
      <4>. QED BY <4>1, <4>2, IsASeq
    <3> DEFINE z == Append(w, writeSignature(sig))
    <3> HIDE DEF v, w
    <3>4. /\ z \in Seq(Seq(Byte)) /\ Len(z) = n + 1
          /\ (\A i \in 1..n : z[i] = w[i]) /\ z[n + 1] = writeSignature(sig)
      BY <2>3, <2>4, AppendProperties
    <3> HIDE DEF z, n
    <3>5. \A i \in 1..(n + 1) : v[i] = z[i]
      BY <3>1, <3>2, <3>4
    <3>6. v = z
      BY <3>3, <3>4, <3>5, SeqEqual
    <3>. QED BY <3>6 DEF z
  <2>7. WrittenSignatures(sigs) = FlattenSeq(w) /\ WrittenSignatures(a) = FlattenSeq(v)
    BY <2>1, <2>2 DEF WrittenSignatures
  <2> HIDE DEF w, v
  <2>8. FlattenSeq(w) \in Seq(Byte) /\ FlattenSeq(Append(w, writeSignature(sig))) = FlattenSeq(w) \o writeSignature(sig)
    BY <2>3, <2>4, FlattenNext
  <2>. QED BY <2>6, <2>7, <2>8
<1>. QED BY <1>1, <1>2

-----------------------------------------------------------------------------
(* The bytes of a transaction.                                             *)

\* A number of signatures is read back, and nothing of what follows.
LEMMA SignaturesRead ==
  ASSUME NEW sigs \in Seq(Signature), \A i \in 1..Len(sigs) : Plain(sigs[i]), NEW rest \in Seq(Byte)
  PROVE  /\ WrittenSignatures(sigs) \in Seq(Byte)
         /\ ReadSignatures(Len(sigs), WrittenSignatures(sigs) \o rest) = Got(sigs, rest)
<1> DEFINE Ok(s) == \A i \in 1..Len(s) : Plain(s[i])
           T == {n \in Nat : \A s \in Seq(Signature), r \in Seq(Byte) : Len(s) = n /\ Ok(s) =>
                   /\ WrittenSignatures(s) \in Seq(Byte)
                   /\ ReadSignatures(n, WrittenSignatures(s) \o r) = Got(s, r)}
<1>1. 0 \in T
  <2> SUFFICES ASSUME NEW s \in Seq(Signature), NEW r \in Seq(Byte), Len(s) = 0
               PROVE  /\ WrittenSignatures(s) \in Seq(Byte)
                      /\ ReadSignatures(0, WrittenSignatures(s) \o r) = Got(s, r)
    OBVIOUS
  <2>1. s = <<>> /\ <<>> \in Seq(Byte)
    BY EmptySeq
  <2>2. WrittenSignatures(<<>>) = <<>> /\ <<>> \o r = r
    BY WrittenNext, ConcatEmptySeq
  <2>. QED BY <2>1, <2>2, ReadSignaturesNext, 0 \in Nat
<1>2. ASSUME NEW n \in T PROVE n + 1 \in T
  <2> SUFFICES ASSUME NEW s \in Seq(Signature), NEW r \in Seq(Byte), Len(s) = n + 1, Ok(s)
               PROVE  /\ WrittenSignatures(s) \in Seq(Byte)
                      /\ ReadSignatures(n + 1, WrittenSignatures(s) \o r) = Got(s, r)
    OBVIOUS
  <2>0. n \in Nat
    OBVIOUS
  <2>1. s # <<>>
    BY <2>0, EmptySeq
  <2>2. PICK f \in Seq(Signature), x \in Signature : s = Append(f, x)
    BY <2>1, SequenceEmptyOrAppend
  <2>3. /\ Len(f) = n /\ (\A i \in 1..n : s[i] = f[i]) /\ s[n + 1] = x
    BY <2>0, <2>2, AppendProperties, LenProperties
  <2>4. Ok(f) /\ Plain(x)
    BY <2>0, <2>3
  <2> DEFINE w == WrittenSignatures(f)
             v == writeSignature(x)
  <2>5. WrittenSignatures(s) = w \o v /\ w \in Seq(Byte)
    BY <2>2, <2>4, WrittenNext
  <2>6. v \in Seq(Byte) /\ x # NoSignature /\ readSignatureV2(v \o r) = Got(x, r)
    BY <2>4, PlainRead
  <2>7. v \o r \in Seq(Byte)
    BY <2>6, ConcatProperties
  <2>8. ReadSignatures(n, w \o (v \o r)) = Got(f, v \o r)
    BY <2>3, <2>4, <2>7
  <2> HIDE DEF w, v, T, Ok
  <2>9. (w \o v) \o r = w \o (v \o r) /\ w \o v \in Seq(Byte)
    BY <2>5, <2>6, JoinAgain DEF Bytes, Join
  <2>10. /\ Got(f, v \o r) # Thrown /\ Got(f, v \o r).v = f /\ Got(f, v \o r).rest = v \o r
         /\ Got(x, r) # Thrown /\ Got(x, r).v = x /\ Got(x, r).rest = r
    BY <2>7, Gotten, ReadableKinds
  <2>11. NextSignature(Got(f, v \o r)) = Got(s, r)
    BY <2>2, <2>6, <2>10 DEF NextSignature, Then, Mapped
  <2>12. ReadSignatures(n + 1, w \o (v \o r)) = NextSignature(ReadSignatures(n, w \o (v \o r)))
    BY <2>0, ReadSignaturesNext
  <2>. QED BY <2>5, <2>8, <2>9, <2>11, <2>12
<1>3. T = Nat
  <2>0. T \in SUBSET Nat
    OBVIOUS
  <2> HIDE DEF T
  <2>. QED BY <2>0, <1>1, <1>2, SetInduction
<1>4. Len(sigs) \in Nat
  BY LenProperties
<1>. QED BY <1>3, <1>4

\* A transaction whose parts fit the wire: lengths of up to two bytes, a time of four.
Sent(tx) ==
    /\ tx \in [nexusName : Seq(Byte), chainName : Seq(Byte), script : Seq(Byte), expiration : Nat,
               payload : Seq(Byte), signatures : Seq(Signature)]
    /\ \A s \in {tx.nexusName, tx.chainName, tx.script, tx.payload, tx.signatures} : Len(s) < Power[2]
    /\ tx.expiration \div 1000 < Power[4]
    /\ \A i \in 1..Len(tx.signatures) : Plain(tx.signatures[i])

\* Six parts, joined from the left or from the right.
LEMMA JoinSix ==
  ASSUME NEW a \in Bytes, NEW b \in Bytes, NEW c \in Bytes, NEW d \in Bytes, NEW e \in Bytes, NEW f \in Bytes
  PROVE  /\ Join(e, f) \in Bytes /\ Join(d, Join(e, f)) \in Bytes /\ Join(c, Join(d, Join(e, f))) \in Bytes
         /\ Join(b, Join(c, Join(d, Join(e, f)))) \in Bytes
         /\ Join(Join(Join(Join(a, b), c), d), e) \in Bytes
         /\ Join(Join(Join(Join(Join(a, b), c), d), e), f) = Join(a, Join(b, Join(c, Join(d, Join(e, f)))))
<1>1. Join(e, f) \in Bytes /\ Join(a, b) \in Bytes
  BY JoinAgain
<1>2. Join(d, Join(e, f)) \in Bytes /\ Join(Join(a, b), c) \in Bytes
  BY <1>1, JoinAgain
<1>3. Join(c, Join(d, Join(e, f))) \in Bytes /\ Join(Join(Join(a, b), c), d) \in Bytes
  BY <1>2, JoinAgain
<1>4. Join(b, Join(c, Join(d, Join(e, f)))) \in Bytes /\ Join(Join(Join(Join(a, b), c), d), e) \in Bytes
  BY <1>3, JoinAgain
<1>5. Join(Join(Join(Join(Join(a, b), c), d), e), f) = Join(Join(Join(Join(a, b), c), d), Join(e, f))
  BY <1>3, JoinAgain
<1>6. Join(Join(Join(Join(a, b), c), d), Join(e, f)) = Join(Join(Join(a, b), c), Join(d, Join(e, f)))
  BY <1>1, <1>2, JoinAgain
<1>7. Join(Join(Join(a, b), c), Join(d, Join(e, f))) = Join(Join(a, b), Join(c, Join(d, Join(e, f))))
  BY <1>1, <1>2, JoinAgain
<1>8. Join(Join(a, b), Join(c, Join(d, Join(e, f)))) = Join(a, Join(b, Join(c, Join(d, Join(e, f)))))
  BY <1>3, JoinAgain
<1>. QED BY <1>1, <1>2, <1>3, <1>4, <1>5, <1>6, <1>7, <1>8

\* What comes back of a transaction, with some bytes behind the unsigned part.
ReadWith(tx, s) ==
    LET read == [Transaction(tx.nexusName, tx.chainName, tx.script,
                             1000 * (tx.expiration \div 1000), <<>>) EXCEPT !.payload = tx.payload]
    IN IF s = <<>> THEN Got(read, s)
       ELSE Then(readVarInt(s), LAMBDA count, left :
              Mapped(ReadSignatures(count, left), LAMBDA sigs : [read EXCEPT !.signatures = sigs]))

\* The unsigned part.
Unsigned(tx) ==
    Join(Join(Join(Join(writeByteArray(tx.nexusName), writeByteArray(tx.chainName)), writeByteArray(tx.script)),
              writeTimestamp(tx.expiration \div 1000)), writeByteArray(tx.payload))

\* The parts of a transaction that fits the wire.
LEMMA SentParts ==
  ASSUME NEW tx, Sent(tx)
  PROVE  /\ {tx.nexusName, tx.chainName, tx.script, tx.payload} \subseteq Seq(Byte)
         /\ \A t \in {tx.nexusName, tx.chainName, tx.script, tx.payload} : Len(t) < Power[2]
         /\ tx.expiration \div 1000 \in Nat /\ tx.expiration \div 1000 < Power[4]
         /\ tx.signatures \in Seq(Signature) /\ Len(tx.signatures) < Power[2]
         /\ \A i \in 1..Len(tx.signatures) : Plain(tx.signatures[i])
BY DEF Sent

\* The unsigned part is read, whatever is behind it.
LEMMA UnsignedRead ==
  ASSUME NEW tx, Sent(tx), NEW s \in Bytes
  PROVE  Unsigned(tx) \in Bytes /\ unserializeTransaction(Join(Unsigned(tx), s)) = ReadWith(tx, s)
<1> DEFINE a == writeByteArray(tx.nexusName)
           b == writeByteArray(tx.chainName)
           c == writeByteArray(tx.script)
           d == writeTimestamp(tx.expiration \div 1000)
           e == writeByteArray(tx.payload)
<1>1. \A t \in {tx.nexusName, tx.chainName, tx.script, tx.payload} :
        writeByteArray(t) \in Bytes /\ \A r \in Bytes : readByteArray(Join(writeByteArray(t), r)) = Got(t, r)
  <2>1. <<>> \in Seq(Byte)
    OBVIOUS
  <2>2. \A t \in Seq(Byte), r \in Seq(Byte) : Len(t) < Power[2] =>
          writeByteArray(t) \in Seq(Byte) /\ readByteArray(writeByteArray(t) \o r) = Got(t, r)
    BY ByteArrayRead
  <2>3. \A t \in Bytes, r \in Bytes : Len(t) < Power[2] =>
          writeByteArray(t) \in Bytes /\ readByteArray(Join(writeByteArray(t), r)) = Got(t, r)
    BY <2>2 DEF Bytes, Join
  <2>4. \A t \in {tx.nexusName, tx.chainName, tx.script, tx.payload} : t \in Bytes /\ Len(t) < Power[2]
    BY SentParts DEF Bytes
  <2>5. <<>> \in Bytes
    BY <2>1 DEF Bytes
  <2>. QED BY <2>3, <2>4, <2>5
<1>2. d \in Bytes /\ \A r \in Bytes : readTimestamp(Join(d, r)) = Got(tx.expiration \div 1000, r)
  <2>1. <<>> \in Seq(Byte)
    OBVIOUS
  <2>2. \A n \in Nat, r \in Seq(Byte) : n < Power[4] =>
          writeTimestamp(n) \in Seq(Byte) /\ readTimestamp(writeTimestamp(n) \o r) = Got(n, r)
    BY TimestampRead
  <2>3. tx.expiration \div 1000 \in Nat /\ tx.expiration \div 1000 < Power[4]
    BY SentParts
  <2> DEFINE T == tx.expiration \div 1000
  <2>4. writeTimestamp(T) \in Seq(Byte) /\ \A r \in Seq(Byte) : readTimestamp(writeTimestamp(T) \o r) = Got(T, r)
    <3>1. T \in Nat /\ T < Power[4]
      BY <2>3
    <3> HIDE DEF T
    <3>. QED BY <2>1, <2>2, <3>1
  <2> HIDE DEF T
  <2>5. writeTimestamp(T) \in Bytes /\ \A r \in Bytes : readTimestamp(Join(writeTimestamp(T), r)) = Got(T, r)
    BY <2>4 DEF Bytes, Join
  <2>. QED BY <2>5 DEF T
<1>3. a \in Bytes /\ b \in Bytes /\ c \in Bytes /\ e \in Bytes
  BY <1>1
<1> DEFINE s4 == Join(e, s)
           s3 == Join(d, s4)
           s2 == Join(c, s3)
           s1 == Join(b, s2)
           u == Join(a, s1)
<1>3a. Unsigned(tx) = Join(Join(Join(Join(a, b), c), d), e)
  BY DEF Unsigned
<1> HIDE DEF a, b, c, d, e
<1>4. /\ s1 \in Bytes /\ s2 \in Bytes /\ s3 \in Bytes /\ s4 \in Bytes
      /\ Unsigned(tx) \in Bytes /\ Join(Unsigned(tx), s) = u
  BY <1>2, <1>3, <1>3a, JoinSix
<1> HIDE DEF s1, s2, s3, s4, u
<1>5. /\ readByteArray(u) = Got(tx.nexusName, s1) /\ readByteArray(s1) = Got(tx.chainName, s2)
      /\ readByteArray(s2) = Got(tx.script, s3) /\ readByteArray(s4) = Got(tx.payload, s)
  BY <1>1, <1>4 DEF a, b, c, e, u, s1, s2, s4
<1>6. readTimestamp(s3) = Got(tx.expiration \div 1000, s4)
  BY <1>2, <1>4 DEF s3
<1>7. \A t \in {tx.nexusName, tx.chainName, tx.script, tx.payload, tx.expiration \div 1000},
         r \in {s1, s2, s3, s4, s} : Got(t, r) # Thrown /\ Got(t, r).v = t /\ Got(t, r).rest = r
  <2>1. {tx.nexusName, tx.chainName, tx.script, tx.payload, tx.expiration \div 1000} \subseteq Readable
    BY SentParts, ReadableKinds
  <2>2. {s1, s2, s3, s4, s} \subseteq Seq(Byte)
    BY <1>4 DEF Bytes
  <2>. QED BY <2>1, <2>2, Gotten
<1>8. unserializeTransaction(u) = ReadWith(tx, s)
  <2> DEFINE N == tx.nexusName
             C == tx.chainName
             S == tx.script
             P == tx.payload
             T == tx.expiration \div 1000
             read == [Transaction(N, C, S, 1000 * T, <<>>) EXCEPT !.payload = P]
             end == IF s = <<>> THEN Got(read, s)
                    ELSE Then(readVarInt(s), LAMBDA count, left :
                           Mapped(ReadSignatures(count, left), LAMBDA sigs : [read EXCEPT !.signatures = sigs]))
  <2>1. ReadWith(tx, s) = end
    BY DEF ReadWith
  <2>2. /\ readString(u) = Got(N, s1) /\ readString(s1) = Got(C, s2) /\ readByteArray(s2) = Got(S, s3)
        /\ readTimestamp(s3) = Got(T, s4) /\ readByteArray(s4) = Got(P, s)
    BY <1>5, <1>6 DEF readString
  <2>3. \A t \in {N, C, S, P, T}, r \in {s1, s2, s3, s4, s} :
          Got(t, r) # Thrown /\ Got(t, r).v = t /\ Got(t, r).rest = r
    BY <1>7
  <2> HIDE DEF N, C, S, P, T
  <2>4. /\ readString(u) # Thrown /\ readString(u).v = N /\ readString(u).rest = s1
        /\ readString(s1) # Thrown /\ readString(s1).v = C /\ readString(s1).rest = s2
        /\ readByteArray(s2) # Thrown /\ readByteArray(s2).v = S /\ readByteArray(s2).rest = s3
        /\ readTimestamp(s3) # Thrown /\ readTimestamp(s3).v = T /\ readTimestamp(s3).rest = s4
        /\ readByteArray(s4) # Thrown /\ readByteArray(s4).v = P /\ readByteArray(s4).rest = s
    BY <2>2, <2>3
  <2>5. unserializeTransaction(u) = end
    BY <2>4 DEF unserializeTransaction, Then, Mapped
  <2>. QED BY <2>1, <2>5, ZenonT(60)
<1>. QED BY <1>4, <1>8

-----------------------------------------------------------------------------
(* Transactions come back.                                                 *)

\* The bytes of the signed part.
SignedPart(tx) == Join(writeVarInt(Len(tx.signatures)), WrittenSignatures(tx.signatures))

\* The signed bytes are read back.
LEMMA SignedRead ==
  ASSUME NEW tx, Sent(tx)
  PROVE  /\ SignedPart(tx) \in Bytes /\ SignedPart(tx) # <<>>
         /\ writeVarInt(Len(tx.signatures)) \in Bytes /\ WrittenSignatures(tx.signatures) \in Bytes
         /\ readVarInt(SignedPart(tx)) = Got(Len(tx.signatures), WrittenSignatures(tx.signatures))
         /\ ReadSignatures(Len(tx.signatures), WrittenSignatures(tx.signatures)) = Got(tx.signatures, <<>>)
<1> DEFINE sigs == tx.signatures
           n == Len(sigs)
           w == WrittenSignatures(sigs)
           v == writeVarInt(n)
<1>1. sigs \in Seq(Signature) /\ (\A i \in 1..Len(sigs) : Plain(sigs[i])) /\ n < Power[2]
  BY SentParts
<1>2. n \in Nat /\ <<>> \in Seq(Byte)
  BY <1>1, LenProperties
<1> HIDE DEF sigs
<1>3. w \in Seq(Byte) /\ ReadSignatures(n, w \o <<>>) = Got(sigs, <<>>)
  BY <1>1, <1>2, SignaturesRead
<1> HIDE DEF n, w
<1>4. w \o <<>> = w
  BY <1>3, ConcatEmptySeq
<1>5. v \in Seq(Byte) /\ readVarInt(v \o w) = Got(n, w)
  BY <1>1, <1>2, <1>3, VarIntRead
<1>6. v \o w \in Seq(Byte)
  BY <1>3, <1>5, ConcatProperties
<1>7. v \o w # <<>>
  BY <1>2, <1>3, Gotten, ReadableKinds, <1>5 DEF readVarInt
<1>. QED BY <1>3, <1>4, <1>5, <1>6, <1>7 DEF SignedPart, Join, Bytes, sigs, n, w, v

\* The writers of a transaction write the unsigned part and, if they should, the signed one.
LEMMA WrittenParts ==
  ASSUME NEW tx, Sent(tx)
  PROVE  /\ toByteArray(tx, FALSE) = Unsigned(tx) /\ toByteArray(tx, TRUE) = Join(Unsigned(tx), SignedPart(tx))
         /\ serializeTransaction(tx) = Join(Unsigned(tx), SignedPart(tx)) /\ toString(tx) = Unsigned(tx)
<1>1. Unsigned(tx) \in Bytes
  BY UnsignedRead, JoinNothing
<1>2. toByteArray(tx, FALSE) = Join(Unsigned(tx), <<>>)
  BY DEF toByteArray, Join, Unsigned, writeString, appendHexEncoded, writeDateTime, writeByteArray, writeTimestamp
<1>3. toByteArray(tx, TRUE) = Join(Unsigned(tx), SignedPart(tx))
  BY DEF toByteArray, Join, Unsigned, writeString, appendHexEncoded, writeDateTime, writeByteArray,
         writeTimestamp, SignedPart, WrittenSignatures
<1>4. serializeTransaction(tx) = Join(Unsigned(tx), SignedPart(tx))
  <2>1. serializeTransaction(tx)
          = Join(Join(Unsigned(tx), writeVarInt(Len(tx.signatures))), WrittenSignatures(tx.signatures))
    BY DEF serializeTransaction, Join, Unsigned, writeString, writeDateTime, writeByteArray,
           writeTimestamp, WrittenSignatures
  <2>. QED BY <1>1, <2>1, SignedRead, JoinAgain DEF SignedPart
<1>5. toString(tx) = Unsigned(tx)
  <2> DEFINE a == writeByteArray(tx.nexusName)
             b == writeByteArray(tx.chainName)
             v == writeVarInt(Len(tx.script))
             d == writeTimestamp(tx.expiration \div 1000)
             x == writeVarInt(Len(tx.payload))
             S == tx.script
             P == tx.payload
             ab == Join(a, b)
  <2>1. toString(tx) = Join(Join(Join(Join(Join(ab, v), S), d), x), P)
    BY DEF toString, Join, emitVarString, emitVarInt, emitTimestamp, writeByteArray, writeTimestamp
  <2>2. Unsigned(tx) = Join(Join(Join(ab, Join(v, S)), d), Join(x, P))
    BY DEF Unsigned, Join, writeByteArray
  <2>3. S \in Seq(Byte) /\ P \in Seq(Byte) /\ Len(S) < Power[2] /\ Len(P) < Power[2]
    BY SentParts
  <2>4. S \in Bytes /\ P \in Bytes /\ v \in Bytes /\ x \in Bytes
    <3>1. \A t \in Seq(Byte) : Len(t) < Power[2] => writeVarInt(Len(t)) \in Seq(Byte)
      BY VarIntRead, LenProperties, <<>> \in Seq(Byte)
    <3>2. writeVarInt(Len(tx.script)) \in Seq(Byte) /\ writeVarInt(Len(tx.payload)) \in Seq(Byte)
      BY <2>3, <3>1
    <3>. QED BY <2>3, <3>2 DEF Bytes
  <2>5. ab \in Bytes /\ d \in Bytes
    <3>1. \A t \in Seq(Byte) : Len(t) < Power[2] => writeByteArray(t) \in Bytes
      BY ByteArrayRead, <<>> \in Seq(Byte) DEF Bytes
    <3>2. a \in Bytes /\ b \in Bytes
      BY SentParts, <3>1
    <3>3. tx.expiration \div 1000 \in Nat /\ tx.expiration \div 1000 < Power[4]
      BY SentParts
    <3>4. \A n \in Nat : n < Power[4] => writeTimestamp(n) \in Bytes
      BY TimestampRead, <<>> \in Seq(Byte) DEF Bytes
    <3>5. d \in Bytes
      <4> DEFINE T == tx.expiration \div 1000
      <4>1. T \in Nat /\ T < Power[4]
        BY <3>3
      <4> HIDE DEF T
      <4>2. writeTimestamp(T) \in Bytes
        BY <4>1, <3>4
      <4>. QED BY <4>2 DEF T
    <3> HIDE DEF a, b
    <3>. QED BY <3>2, <3>5, JoinAgain
  <2> HIDE DEF S, P, v, x, d, ab
  <2>6. Join(Join(ab, v), S) = Join(ab, Join(v, S)) /\ Join(v, S) \in Bytes
    BY <2>4, <2>5, JoinAgain
  <2>7. Join(Join(ab, Join(v, S)), d) \in Bytes
    BY <2>5, <2>6, JoinAgain
  <2>8. Join(Join(Join(Join(ab, Join(v, S)), d), x), P) = Join(Join(Join(ab, Join(v, S)), d), Join(x, P))
    BY <2>4, <2>7, JoinAgain
  <2>. QED BY <2>1, <2>2, <2>6, <2>8
<1>. QED BY <1>1, <1>2, <1>3, <1>4, <1>5, JoinNothing

\* What is read, but for the parts of a second and, without them, the signatures.
Seconds(tx) == [tx EXCEPT !.expiration = 1000 * (@ \div 1000)]

\* What the reader gives for both forms.
LEMMA PartsRead ==
  ASSUME NEW tx, Sent(tx)
  PROVE  /\ ReadWith(tx, <<>>) = Got([Seconds(tx) EXCEPT !.signatures = <<>>], <<>>)
         /\ ReadWith(tx, SignedPart(tx)) = Got(Seconds(tx), <<>>)
<1> DEFINE read == [Transaction(tx.nexusName, tx.chainName, tx.script,
                                1000 * (tx.expiration \div 1000), <<>>) EXCEPT !.payload = tx.payload]
<1>1. tx \in [nexusName : Seq(Byte), chainName : Seq(Byte), script : Seq(Byte), expiration : Nat,
              payload : Seq(Byte), signatures : Seq(Signature)]
  BY DEF Sent
<1>2. tx = [nexusName |-> tx.nexusName, chainName |-> tx.chainName, script |-> tx.script,
            expiration |-> tx.expiration, payload |-> tx.payload, signatures |-> tx.signatures]
  BY <1>1
<1>3. read = [nexusName |-> tx.nexusName, chainName |-> tx.chainName, script |-> tx.script,
              expiration |-> 1000 * (tx.expiration \div 1000), payload |-> tx.payload, signatures |-> <<>>]
  BY DEF Transaction
<1>4. Seconds(tx) = [nexusName |-> tx.nexusName, chainName |-> tx.chainName, script |-> tx.script,
                     expiration |-> 1000 * (tx.expiration \div 1000), payload |-> tx.payload,
                     signatures |-> tx.signatures]
  BY <1>2 DEF Seconds
<1>5. read = [Seconds(tx) EXCEPT !.signatures = <<>>] /\ [read EXCEPT !.signatures = tx.signatures] = Seconds(tx)
  <2> HIDE DEF read
  <2>. QED BY <1>3, <1>4
<1> HIDE DEF read
<1>6. ReadWith(tx, <<>>) = Got(read, <<>>)
  BY DEF ReadWith, read
<1>7. ReadWith(tx, SignedPart(tx)) = Got([read EXCEPT !.signatures = tx.signatures], <<>>)
  <2> DEFINE n == Len(tx.signatures)
             w == WrittenSignatures(tx.signatures)
             s == SignedPart(tx)
  <2>1. s # <<>> /\ readVarInt(s) = Got(n, w) /\ ReadSignatures(n, w) = Got(tx.signatures, <<>>) /\ w \in Bytes
    BY SignedRead
  <2>2. n \in Nat /\ tx.signatures \in Seq(Signature)
    BY SentParts, LenProperties
  <2> HIDE DEF n, w, s
  <2>3. Got(n, w) # Thrown /\ Got(n, w).v = n /\ Got(n, w).rest = w
    BY <2>1, <2>2, Gotten, ReadableKinds DEF Bytes
  <2>4. /\ Got(tx.signatures, <<>>) # Thrown /\ Got(tx.signatures, <<>>).v = tx.signatures
        /\ Got(tx.signatures, <<>>).rest = <<>>
    BY <2>2, Gotten, ReadableKinds, JoinNothing DEF Bytes
  <2>5. ReadWith(tx, s) = Then(readVarInt(s), LAMBDA count, left :
              Mapped(ReadSignatures(count, left), LAMBDA sigs : [read EXCEPT !.signatures = sigs]))
    BY <2>1 DEF ReadWith, read, Then, Mapped
  <2>6. ReadWith(tx, s) = Got([read EXCEPT !.signatures = tx.signatures], <<>>)
    BY <2>1, <2>3, <2>4, <2>5 DEF Then, Mapped
  <2>. QED BY <2>6 DEF s
<1>. QED BY <1>5, <1>6, <1>7

\* Transactions of the old chain: a transaction whose parts fit the wire comes back from its
\* bytes, signed or not; the two writers agree, and what is hashed is what is signed.
THEOREM TransactionsSurvive ==
  ASSUME NEW tx, Sent(tx)
  PROVE  TxSurvives(tx)
<1>1. Unsigned(tx) \in Bytes
  BY UnsignedRead, JoinNothing
<1>2. unserializeTransaction(Join(Unsigned(tx), SignedPart(tx))) = Got(Seconds(tx), <<>>)
  BY UnsignedRead, SignedRead, PartsRead
<1>3. unserializeTransaction(Unsigned(tx)) = Got([Seconds(tx) EXCEPT !.signatures = <<>>], <<>>)
  BY UnsignedRead, JoinNothing, <1>1, PartsRead
<1>4. /\ toByteArray(tx, FALSE) = Unsigned(tx) /\ toByteArray(tx, TRUE) = Join(Unsigned(tx), SignedPart(tx))
      /\ serializeTransaction(tx) = Join(Unsigned(tx), SignedPart(tx)) /\ toString(tx) = Unsigned(tx)
  BY WrittenParts
<1>5. TxSurvives(tx) <=>
        /\ unserializeTransaction(toByteArray(tx, TRUE)) = Got(Seconds(tx), <<>>)
        /\ unserializeTransaction(toByteArray(tx, FALSE)) = Got([Seconds(tx) EXCEPT !.signatures = <<>>], <<>>)
        /\ serializeTransaction(tx) = toByteArray(tx, TRUE)
        /\ toString(tx) = toByteArray(tx, FALSE)
  BY DEF TxSurvives, Seconds
<1>. QED BY <1>2, <1>3, <1>4, <1>5

-----------------------------------------------------------------------------
(* Lengths of a transaction.                                               *)

\* A transaction the code can hold: parts of bytes, a payload, the time of a date, and lengths
\* that leave room in two bytes for the signature of the whole.
Held(tx) ==
    /\ tx \in [nexusName : Seq(Byte), chainName : Seq(Byte), script : Seq(Byte), expiration : Nat,
               payload : Seq(Byte), signatures : Seq(Signature)]
    /\ tx.payload # <<>> /\ tx.expiration \div 1000 < Power[4]

\* The bytes of it, with room for what the writer puts before its parts and for a nonce.
Room(tx) == Len(tx.nexusName) + Len(tx.chainName) + Len(tx.script) + Len(tx.payload) + 32

\* The length of bytes behind their length.
LEMMA LengthOfParts ==
  ASSUME NEW t \in Seq(Byte), Len(t) < Power[2]
  PROVE  writeByteArray(t) \in Seq(Byte) /\ Len(writeByteArray(t)) <= Len(t) + 3
<1>1. Len(t) \in Nat /\ <<>> \in Seq(Byte)
  BY LenProperties
<1>2. writeVarInt(Len(t)) \in Seq(Byte) /\ Len(writeVarInt(Len(t))) <= 3
  <2>1. CASE Len(t) < Base - 3
    <3>1. Len(t) \in Byte
      BY <1>1, <2>1, Marks
    <3>2. writeVarInt(Len(t)) = <<Len(t)>>
      BY <2>1 DEF writeVarInt
    <3>3. <<Len(t)>> \in Seq(Byte) /\ Len(<<Len(t)>>) = 1
      BY <3>1, MagnitudeOne
    <3>. QED BY <3>2, <3>3
  <2>2. CASE ~(Len(t) < Base - 3)
    <3>1. writeVarInt(Len(t)) = <<Base - 3>> \o Fixed(Len(t), 2)
      BY <2>2 DEF writeVarInt
    <3>2. Fixed(Len(t), 2) \in Seq(Byte) /\ Len(Fixed(Len(t), 2)) = 2
      BY <1>1, FixedHolds
    <3> DEFINE f == Fixed(Len(t), 2)
    <3> HIDE DEF f
    <3>3. <<Base - 3>> \o f \in Seq(Byte) /\ Len(<<Base - 3>> \o f) = Len(f) + 1
      BY <3>2, Marks, Marked DEF f
    <3>. QED BY <3>1, <3>2, <3>3 DEF f
  <2>. QED BY <2>1, <2>2
<1> DEFINE v == writeVarInt(Len(t))
<1> HIDE DEF v
<1>3. v \o t \in Seq(Byte) /\ Len(v \o t) = Len(v) + Len(t)
  BY <1>2, ConcatProperties DEF v
<1>4. Len(v) \in Nat /\ Len(v) <= 3
  BY <1>2, LenProperties DEF v
<1>. QED BY <1>1, <1>3, <1>4 DEF writeByteArray, v

\* The unsigned part fits in the bytes of one signature.
LEMMA UnsignedLength ==
  ASSUME NEW tx, Held(tx), Room(tx) < Power[2] + 4
  PROVE  /\ {tx.nexusName, tx.chainName, tx.script, tx.payload} \subseteq Seq(Byte)
         /\ \A t \in {tx.nexusName, tx.chainName, tx.script, tx.payload} : Len(t) < Power[2]
         /\ Unsigned(tx) \in Bytes /\ Len(Unsigned(tx)) + 1 < Power[2]
<1>1. {tx.nexusName, tx.chainName, tx.script, tx.payload} \subseteq Seq(Byte)
  BY DEF Held
<1>2. tx.expiration \div 1000 \in Nat /\ tx.expiration \div 1000 < Power[4]
  BY DEF Held
<1>3. PICK n \in Nat, c \in Nat, s \in Nat, p \in Nat :
         n = Len(tx.nexusName) /\ c = Len(tx.chainName) /\ s = Len(tx.script) /\ p = Len(tx.payload)
  BY <1>1, LenProperties
<1>4. PICK b \in Nat : b = Power[2]
  BY PowerNext
<1>5. n + c + s + p + 28 < b
  <2>1. Room(tx) = n + c + s + p + 32
    BY <1>3 DEF Room
  <2>2. n + c + s + p + 32 < b + 4
    BY <1>4, <2>1
  <2>. QED BY <2>2
<1>6. n < b /\ c < b /\ s < b /\ p < b
  BY <1>5
<1>7. \A t \in {tx.nexusName, tx.chainName, tx.script, tx.payload} : Len(t) < Power[2]
  BY <1>3, <1>4, <1>6
<1> DEFINE x == writeByteArray(tx.nexusName)
           y == writeByteArray(tx.chainName)
           z == writeByteArray(tx.script)
           d == writeTimestamp(tx.expiration \div 1000)
           e == writeByteArray(tx.payload)
<1>8. /\ x \in Bytes /\ Len(x) <= n + 3 /\ y \in Bytes /\ Len(y) <= c + 3
      /\ z \in Bytes /\ Len(z) <= s + 3 /\ e \in Bytes /\ Len(e) <= p + 3
  BY <1>1, <1>3, <1>7, LengthOfParts DEF Bytes
<1>9. d \in Bytes /\ Len(d) = 4
  <2> DEFINE T == tx.expiration \div 1000
  <2>1. T \in Nat /\ T < Power[4]
    BY <1>2
  <2> HIDE DEF T
  <2>2. writeTimestamp(T) \in Bytes /\ Len(writeTimestamp(T)) = 4
    BY <2>1, FixedHolds, 4 \in Nat DEF writeTimestamp, Bytes
  <2>. QED BY <2>2 DEF T
<1>10. Unsigned(tx) = Join(Join(Join(Join(x, y), z), d), e)
  BY DEF Unsigned
<1> HIDE DEF x, y, z, d, e
<1> DEFINE xy == Join(x, y)
           xyz == Join(xy, z)
           xyzd == Join(xyz, d)
           u == Join(xyzd, e)
<1>11. xy \in Bytes /\ Len(xy) = Len(x) + Len(y) /\ Len(x) \in Nat /\ Len(y) \in Nat
  BY <1>8, JoinLength
<1> HIDE DEF xy
<1>12. xyz \in Bytes /\ Len(xyz) = Len(xy) + Len(z) /\ Len(xy) \in Nat /\ Len(z) \in Nat
  BY <1>8, <1>11, JoinLength
<1> HIDE DEF xyz
<1>13. xyzd \in Bytes /\ Len(xyzd) = Len(xyz) + Len(d) /\ Len(xyz) \in Nat /\ Len(d) \in Nat
  BY <1>9, <1>12, JoinLength
<1> HIDE DEF xyzd
<1>14. u \in Bytes /\ Len(u) = Len(xyzd) + Len(e) /\ Len(xyzd) \in Nat /\ Len(e) \in Nat
  BY <1>8, <1>13, JoinLength
<1> HIDE DEF u
<1>15. Unsigned(tx) = u
  BY <1>10 DEF xy, xyz, xyzd, u
<1>16. Len(u) <= (n + 3) + (c + 3) + (s + 3) + 4 + (p + 3) /\ Len(u) \in Nat
  BY <1>8, <1>9, <1>11, <1>12, <1>13, <1>14
<1>17. Len(u) + 1 < b
  BY <1>5, <1>16
<1>. QED BY <1>1, <1>4, <1>7, <1>14, <1>15, <1>17

-----------------------------------------------------------------------------
(* Mining, signing, and the history of calls.                              *)

\* The work changes the payload at most, to a nonce of four bytes, and is as hard as was asked for.
LEMMA Mined ==
  ASSUME NEW t, Held(t), NEW d \in Int, mineTransaction(t, d) # Thrown
  PROVE  \E p \in Seq(Byte) :
            /\ p # <<>> /\ (p = t.payload \/ Len(p) = 4)
            /\ mineTransaction(t, d) = [t EXCEPT !.payload = p]
            /\ d \in 0..HashBits => getDifficulty(Sha(toString([t EXCEPT !.payload = p]))) >= d
<1>1. /\ t \in [nexusName : Seq(Byte), chainName : Seq(Byte), script : Seq(Byte), expiration : Nat,
                payload : Seq(Byte), signatures : Seq(Signature)]
      /\ t.payload # <<>> /\ t.payload \in Seq(Byte)
  BY DEF Held
<1>2. CASE d < 0 \/ d > HashBits
  <2>1. mineTransaction(t, d) = t
    BY <1>2 DEF mineTransaction
  <2>2. t = [t EXCEPT !.payload = t.payload]
    BY <1>1
  <2>3. d \notin 0..HashBits
    BY <1>2, TransactionsAssumption
  <2>. QED BY <1>1, <2>1, <2>2, <2>3
<1>3. CASE ~(d < 0 \/ d > HashBits)
  <2> DEFINE copied == Transaction(t.nexusName, t.chainName, t.script, t.expiration, t.payload)
             Copy(nonce) == IF nonce = 0 THEN copied ELSE [copied EXCEPT !.payload = Fixed(nonce, 4)]
             Enough == {nonce \in 0..MaxNonce : getDifficulty(getHash(Copy(nonce))) >= d}
  <2>1. mineTransaction(t, d) = IF Enough = {} THEN Thrown ELSE [t EXCEPT !.payload = Copy(Min(Enough)).payload]
    BY <1>3 DEF mineTransaction
  <2>2. Enough # {} /\ Enough \in SUBSET Nat
    BY TransactionsAssumption, <2>1
  <2>3. Min(Enough) \in Enough
    <3> HIDE DEF Enough
    <3>1. \E x \in Enough : \A y \in Enough : x <= y
      BY <2>2, LeastOf
    <3>. QED BY <3>1 DEF Min
  <2> DEFINE m == Min(Enough)
             p == Copy(m).payload
  <2>4. getDifficulty(getHash(Copy(m))) >= d /\ m \in Nat
    BY <2>2, <2>3
  <2>5. mineTransaction(t, d) = [t EXCEPT !.payload = p]
    BY <2>1, <2>2
  <2> HIDE DEF m, Enough
  <2>6. copied = [nexusName |-> t.nexusName, chainName |-> t.chainName, script |-> t.script,
                  expiration |-> t.expiration, payload |-> t.payload, signatures |-> <<>>]
    BY <1>1 DEF Transaction
  <2> HIDE DEF copied
  <2>7. Fixed(m, 4) \in Seq(Byte) /\ Len(Fixed(m, 4)) = 4 /\ Fixed(m, 4) # <<>>
    <3>1. Fixed(m, 4) \in Seq(Byte) /\ Len(Fixed(m, 4)) = 4
      BY <2>4, FixedFacts, 4 \in Nat, m \in Int
    <3>. QED BY <3>1
  <2>8. p = IF m = 0 THEN t.payload ELSE Fixed(m, 4)
    BY <2>6
  <2>9. /\ Copy(m).nexusName = t.nexusName /\ Copy(m).chainName = t.chainName
        /\ Copy(m).script = t.script /\ Copy(m).expiration = t.expiration
    BY <2>6
  <2> DEFINE s == [t EXCEPT !.payload = p]
             c == Copy(m)
  <2>10. /\ s.nexusName = c.nexusName /\ s.chainName = c.chainName /\ s.script = c.script
         /\ s.expiration = c.expiration /\ s.payload = c.payload
    BY <1>1, <2>9
  <2> HIDE DEF s, c
  <2>11. toString(s) = toString(c)
    BY <2>10 DEF toString
  <2>12. getDifficulty(Sha(toString(s))) >= d
    BY <2>4, <2>11 DEF getHash, c
  <2> HIDE DEF p
  <2>. QED BY <1>1, <2>5, <2>7, <2>8, <2>12 DEF s
<1>. QED BY <1>2, <1>3

\* Ideal signatures are equal when key and message are.
LEMMA SignatureEqual ==
  ASSUME NEW key \in Byte, NEW k \in Byte, NEW msg \in Bytes, NEW m \in Bytes
  PROVE  SignatureOf(key, msg) = SignatureOf(k, m) <=> key = k /\ msg = m
<1>1. msg \in Seq(Byte) /\ m \in Seq(Byte)
  BY DEF Bytes
<1>2. /\ (<<key>> \o msg)[1] = key /\ Tail(<<key>> \o msg) = msg
      /\ (<<k>> \o m)[1] = k /\ Tail(<<k>> \o m) = m
  BY <1>1, Marked
<1>3. SignatureOf(key, msg).bytes = <<key>> \o msg /\ SignatureOf(k, m).bytes = <<k>> \o m
  BY DEF SignatureOf
<1>. QED BY <1>2, <1>3

\* A signature for short bytes fits the wire.
LEMMA SignaturePlain ==
  ASSUME NEW key \in Byte, NEW msg \in Bytes, Len(msg) + 1 < Power[2]
  PROVE  Plain(SignatureOf(key, msg)) /\ SignatureOf(key, msg) \in Signature
<1>1. msg \in Seq(Byte)
  BY DEF Bytes
<1>2. <<key>> \o msg \in Seq(Byte) /\ Len(<<key>> \o msg) = Len(msg) + 1
  BY <1>1, Marked
<1> DEFINE b == <<key>> \o msg
<1> HIDE DEF b
<1>3. SignatureOf(key, msg) = [kind |-> 1, bytes |-> b]
  BY DEF SignatureOf, b
<1>4. b \in Seq(Byte) /\ Len(b) < Power[2]
  BY <1>2 DEF b
<1>. QED BY <1>3, <1>4 DEF Plain, Signature

\* The transaction before the first call, at 0, and after each one.
HistoryOf(tx, steps, n, f) == f[0] = tx /\ \A i \in 1..n : f[i] = Applied(f[i - 1], steps[i])

\* There is the history of any calls.
LEMMA HistoryExists ==
  ASSUME NEW tx, NEW steps, NEW count \in Nat
  PROVE  \E f : HistoryOf(tx, steps, count, f)
<1> DEFINE T == {n \in Nat : \E f : HistoryOf(tx, steps, n, f)}
<1>1. 0 \in T
  <2>1. [i \in {0} |-> tx][0] = tx
    OBVIOUS
  <2>2. HistoryOf(tx, steps, 0, [i \in {0} |-> tx])
    BY <2>1 DEF HistoryOf
  <2>. QED BY <2>2
<1>2. ASSUME NEW n \in T PROVE n + 1 \in T
  <2>1. PICK f : HistoryOf(tx, steps, n, f)
    OBVIOUS
  <2> DEFINE v == Applied(f[n], steps[n + 1])
             g == [i \in 0..(n + 1) |-> IF i = n + 1 THEN v ELSE f[i]]
  <2>2. n \in Nat
    OBVIOUS
  <2>3. n + 1 \in 0..(n + 1) /\ (\A i \in 0..n : i \in 0..(n + 1) /\ i # n + 1) /\ n \in 0..n /\ 0 \in 0..n
    BY <2>2
  <2>4. \A i \in 1..(n + 1) : (i = n + 1 /\ i - 1 = n) \/ (i \in 1..n /\ i \in 0..n /\ i - 1 \in 0..n)
    BY <2>2
  <2>5. g[n + 1] = v /\ \A i \in 0..n : g[i] = f[i]
    <3> HIDE DEF v
    <3>. QED BY <2>3
  <2> HIDE DEF g
  <2>6. ASSUME NEW i \in 1..(n + 1) PROVE g[i] = Applied(g[i - 1], steps[i])
    <3>1. CASE i = n + 1 /\ i - 1 = n
      BY <2>3, <2>5, <3>1
    <3>2. CASE i \in 1..n /\ i \in 0..n /\ i - 1 \in 0..n
      BY <2>1, <2>5, <3>2 DEF HistoryOf
    <3>. QED BY <2>4, <3>1, <3>2
  <2>7. g[0] = tx
    BY <2>1, <2>3, <2>5 DEF HistoryOf
  <2>8. HistoryOf(tx, steps, n + 1, g)
    BY <2>6, <2>7 DEF HistoryOf
  <2>. QED BY <2>2, <2>8
<1>3. T = Nat
  <2>0. T \in SUBSET Nat
    OBVIOUS
  <2> HIDE DEF T
  <2>. QED BY <2>0, <1>1, <1>2, SetInduction
<1>. QED BY <1>3

\* History gives it.
LEMMA HistoryIs ==
  ASSUME NEW tx, NEW steps, Len(steps) \in Nat
  PROVE  HistoryOf(tx, steps, Len(steps), History(tx, steps))
<1> DEFINE n == Len(steps)
           E(g) == [i \in 0..n |-> IF i = 0 THEN tx ELSE Applied(g[i - 1], steps[i])]
           After == CHOOSE g : g = E(g)
<1>1. History(tx, steps) = After
  BY DEF History
<1>2. PICK f : HistoryOf(tx, steps, n, f)
  BY HistoryExists
<1> DEFINE k == [i \in 0..n |-> f[i]]
<1>3. \A i \in 0..n : i = 0 \/ (i \in 1..n /\ i - 1 \in 0..n)
  OBVIOUS
<1>4. k = E(k)
  <2>1. ASSUME NEW i \in 0..n PROVE k[i] = IF i = 0 THEN tx ELSE Applied(k[i - 1], steps[i])
    <3>1. k[i] = f[i] /\ (i # 0 => k[i - 1] = f[i - 1])
      BY <1>3
    <3> HIDE DEF k, n
    <3>. QED BY <3>1, <1>2, <1>3 DEF HistoryOf
  <2>. QED BY <2>1
<1>5. After = E(After)
  <2> HIDE DEF E, k
  <2>. QED BY <1>4
<1>6. \A i \in 0..n : After[i] = IF i = 0 THEN tx ELSE Applied(After[i - 1], steps[i])
  <2> HIDE DEF After
  <2>. QED BY <1>5
<1> HIDE DEF After, E, k
<1>7. 0 \in 0..n /\ \A i \in 1..n : i \in 0..n /\ i # 0
  OBVIOUS
<1>. QED BY <1>1, <1>6, <1>7 DEF HistoryOf

-----------------------------------------------------------------------------
(* The invariant of a history.                                             *)

\* A transaction that is held with few signatures fits the wire.
LEMMA HeldSent ==
  ASSUME NEW t, Held(t), Room(t) < Power[2] + 4, Len(t.signatures) < Power[2],
         \A j \in 1..Len(t.signatures) : Plain(t.signatures[j])
  PROVE  Sent(t)
BY UnsignedLength, SMTT(30) DEF Sent, Held

\* What the calls make of a transaction: another payload and signatures at most.
Descends(tx, t) ==
    /\ t.nexusName = tx.nexusName /\ t.chainName = tx.chainName /\ t.script = tx.script
    /\ t.expiration = tx.expiration /\ (t.payload = tx.payload \/ Len(t.payload) = 4)
    /\ Held(t)

\* A transaction takes as much room as the one it comes from, but for its payload.
LEMMA DescendsRoom ==
  ASSUME NEW tx, Held(tx), Room(tx) < Power[2], NEW t, Descends(tx, t)
  PROVE  Room(t) < Power[2] + 4
<1>1. PICK n \in Nat, c \in Nat, s \in Nat, p \in Nat, q \in Nat, b \in Nat :
         /\ n = Len(tx.nexusName) /\ c = Len(tx.chainName) /\ s = Len(tx.script) /\ p = Len(tx.payload)
         /\ q = Len(t.payload) /\ b = Power[2]
  <2>1. {tx.nexusName, tx.chainName, tx.script, tx.payload, t.payload} \subseteq Seq(Byte)
    BY DEF Held, Descends
  <2>2. \A x \in {tx.nexusName, tx.chainName, tx.script, tx.payload, t.payload} : Len(x) \in Nat
    BY <2>1, LenProperties
  <2>. QED BY <2>2, PowerNext, 2 \in Nat
<1>2. Room(tx) = n + c + s + p + 32 /\ Room(t) = n + c + s + q + 32
  BY <1>1 DEF Room, Descends
<1>3. q = p \/ q = 4
  BY <1>1 DEF Descends
<1>4. n + c + s + p + 32 < b
  BY <1>1, <1>2
<1>5. n + c + s + q + 32 < b + 4
  <2>1. CASE q = p
    BY <1>4, <2>1
  <2>2. CASE q = 4
    BY <1>4, <2>2
  <2>. QED BY <1>3, <2>1, <2>2
<1>. QED BY <1>1, <1>2, <1>5

\* The calls that are tried: work of any difficulty, and signatures by keys.
Called(steps) ==
    /\ steps \in Seq([do : {"mine", "sign"}, n : Int]) /\ Len(steps) < Power[2]
    /\ \A i \in 1..Len(steps) : steps[i].do = "sign" => steps[i].n \in Byte

\* The signatures are those of the calls so far, each of what was there when it was made.
SignedIn(steps, h, i) ==
    LET sigs == h[i].signatures
        Of(k) == SignatureOf(steps[k].n, Unsigned(h[k - 1]))
    IN /\ \A j \in 1..Len(sigs) : \E k \in 1..i : steps[k].do = "sign" /\ sigs[j] = Of(k)
       /\ \A k \in 1..i : steps[k].do = "sign" => \E j \in 1..Len(sigs) : sigs[j] = Of(k)

\* What holds after i of the calls.
HistoryInv(tx, steps, h, i) ==
    h[i] # Thrown =>
      /\ \A j \in 0..i : h[j] # Thrown
      /\ Descends(tx, h[i])
      /\ Len(h[i].signatures) <= i /\ \A j \in 1..Len(h[i].signatures) : Plain(h[i].signatures[j])
      /\ SignedIn(steps, h, i)

\* What a call of work leaves: the signatures, each with what it was made for.
LEMMA MinedKeeps ==
  ASSUME NEW tx, NEW t, Descends(tx, t), NEW d \in Int, mineTransaction(t, d) # Thrown
  PROVE  Descends(tx, mineTransaction(t, d)) /\ mineTransaction(t, d).signatures = t.signatures
<1>1. Held(t)
  BY DEF Descends
<1>2. PICK p \in Seq(Byte) :
         /\ p # <<>> /\ (p = t.payload \/ Len(p) = 4)
         /\ mineTransaction(t, d) = [t EXCEPT !.payload = p]
  BY <1>1, Mined
<1> DEFINE m == [t EXCEPT !.payload = p]
<1>3. t \in [nexusName : Seq(Byte), chainName : Seq(Byte), script : Seq(Byte), expiration : Nat,
             payload : Seq(Byte), signatures : Seq(Signature)]
  BY <1>1 DEF Held
<1>4. /\ m \in [nexusName : Seq(Byte), chainName : Seq(Byte), script : Seq(Byte), expiration : Nat,
                payload : Seq(Byte), signatures : Seq(Signature)]
      /\ m.nexusName = t.nexusName /\ m.chainName = t.chainName /\ m.script = t.script
      /\ m.expiration = t.expiration /\ m.signatures = t.signatures /\ m.payload = p
  BY <1>2, <1>3
<1> HIDE DEF m
<1>5. Held(m)
  BY <1>1, <1>2, <1>4 DEF Held
<1>6. Descends(tx, m)
  BY <1>2, <1>4, <1>5 DEF Descends
<1>. QED BY <1>2, <1>4, <1>6 DEF m

\* Signing keeps the transaction and adds one signature.
LEMMA SignedKeeps ==
  ASSUME NEW tx, NEW t, Descends(tx, t), Room(t) < Power[2] + 4, Len(t.signatures) < Power[2],
         \A j \in 1..Len(t.signatures) : Plain(t.signatures[j]), NEW key \in Byte
  PROVE  LET s == sign(t, key)
             sig == SignatureOf(key, Unsigned(t))
         IN /\ Descends(tx, s) /\ Plain(sig)
            /\ Len(s.signatures) = Len(t.signatures) + 1
            /\ \A j \in 1..Len(t.signatures) : s.signatures[j] = t.signatures[j]
            /\ s.signatures[Len(t.signatures) + 1] = sig
<1> DEFINE sig == SignatureOf(key, Unsigned(t))
           s == [t EXCEPT !.signatures = Append(@, sig)]
<1>1. Held(t) /\ Sent(t)
  BY HeldSent DEF Descends
<1>2. toByteArray(t, FALSE) = Unsigned(t) /\ Unsigned(t) \in Bytes /\ Len(Unsigned(t)) + 1 < Power[2]
  BY <1>1, WrittenParts, UnsignedLength
<1>3. sign(t, key) = s
  BY <1>2 DEF sign
<1>4. Plain(sig) /\ sig \in Signature
  BY <1>2, SignaturePlain
<1> HIDE DEF sig
<1>5. t \in [nexusName : Seq(Byte), chainName : Seq(Byte), script : Seq(Byte), expiration : Nat,
             payload : Seq(Byte), signatures : Seq(Signature)]
  BY <1>1 DEF Held
<1> DEFINE a == Append(t.signatures, sig)
<1>6. /\ a \in Seq(Signature) /\ Len(a) = Len(t.signatures) + 1
      /\ (\A j \in 1..Len(t.signatures) : a[j] = t.signatures[j]) /\ a[Len(t.signatures) + 1] = sig
  BY <1>4, <1>5, AppendProperties
<1>7. s = [t EXCEPT !.signatures = a]
  OBVIOUS
<1> HIDE DEF a, s
<1>8. /\ s \in [nexusName : Seq(Byte), chainName : Seq(Byte), script : Seq(Byte), expiration : Nat,
                payload : Seq(Byte), signatures : Seq(Signature)]
      /\ s.nexusName = t.nexusName /\ s.chainName = t.chainName /\ s.script = t.script
      /\ s.expiration = t.expiration /\ s.signatures = a /\ s.payload = t.payload
  BY <1>5, <1>6, <1>7
<1>9. Held(s)
  BY <1>1, <1>8 DEF Held
<1>10. Descends(tx, s)
  BY <1>8, <1>9 DEF Descends
<1>. QED BY <1>3, <1>4, <1>6, <1>8, <1>10 DEF sig

\* One more call keeps it.
LEMMA HistoryStep ==
  ASSUME NEW tx, Held(tx), Room(tx) < Power[2], NEW steps, Called(steps), NEW h,
         NEW i \in Nat, i + 1 <= Len(steps), HistoryInv(tx, steps, h, i),
         h[i + 1] = Applied(h[i], steps[i + 1]), h[i + 1] # Thrown
  PROVE  HistoryInv(tx, steps, h, i + 1)
<1> DEFINE t == h[i]
           s == steps[i + 1]
           m == Len(t.signatures)
<1>1. Len(steps) \in Nat /\ Len(steps) < Power[2] /\ i + 1 \in 1..Len(steps) /\ Power[2] \in Nat
  <2>1. steps \in Seq([do : {"mine", "sign"}, n : Int]) /\ Len(steps) < Power[2]
    BY DEF Called
  <2>2. Len(steps) \in Nat
    BY <2>1, LenProperties
  <2>3. Power[2] \in Nat
    BY PowerNext, 2 \in Nat
  <2>. QED BY <2>1, <2>2, <2>3
<1>2. s.do \in {"mine", "sign"} /\ s.n \in Int /\ (s.do = "sign" => s.n \in Byte)
  <2>1. steps \in Seq([do : {"mine", "sign"}, n : Int]) /\ (s.do = "sign" => s.n \in Byte)
    BY <1>1 DEF Called
  <2>2. s \in [do : {"mine", "sign"}, n : Int]
    BY <1>1, <2>1, LenProperties
  <2>. QED BY <2>1, <2>2
<1>3. t # Thrown
  BY DEF Applied
<1>4. /\ \A j \in 0..i : h[j] # Thrown
      /\ Descends(tx, t) /\ m <= i /\ \A j \in 1..m : Plain(t.signatures[j])
      /\ SignedIn(steps, h, i)
  BY <1>3 DEF HistoryInv
<1>5. m \in Nat
  BY <1>4, LenProperties DEF Descends, Held
<1>6. Room(t) < Power[2] + 4 /\ m < Power[2]
  BY <1>1, <1>4, <1>5, DescendsRoom
<1>7. \A j \in 0..(i + 1) : h[j] # Thrown
  BY <1>4
<1>8. (i + 1) - 1 = i /\ (\A k \in 1..(i + 1) : k \in 1..i \/ k = i + 1) /\ i + 1 \in 1..(i + 1)
      /\ \A k \in 1..i : k \in 1..(i + 1)
  OBVIOUS
<1> DEFINE Of(k) == SignatureOf(steps[k].n, Unsigned(h[k - 1]))
<1>9. /\ \A j \in 1..m : \E k \in 1..i : steps[k].do = "sign" /\ t.signatures[j] = Of(k)
      /\ \A k \in 1..i : steps[k].do = "sign" => \E j \in 1..m : t.signatures[j] = Of(k)
  BY <1>4 DEF SignedIn
<1>10. Of(i + 1) = SignatureOf(s.n, Unsigned(t))
  BY <1>8
<1> DEFINE u == h[i + 1]
           sigs == u.signatures
<1>11. CASE s.do = "mine"
  <2>1. u = mineTransaction(t, s.n)
    BY <1>3, <1>11 DEF Applied
  <2>2. Descends(tx, u) /\ u.signatures = t.signatures
    BY <1>2, <1>4, <2>1, MinedKeeps
  <2>3. s.do # "sign"
    BY <1>11
  <2> HIDE DEF Of, u
  <2>4. /\ \A j \in 1..Len(sigs) : \E k \in 1..(i + 1) : steps[k].do = "sign" /\ sigs[j] = Of(k)
        /\ \A k \in 1..(i + 1) : steps[k].do = "sign" => \E j \in 1..Len(sigs) : sigs[j] = Of(k)
    BY <1>8, <1>9, <2>2, <2>3
  <2>5. SignedIn(steps, h, i + 1)
    BY <2>4 DEF SignedIn, Of, u
  <2>6. Len(sigs) <= i + 1 /\ \A j \in 1..Len(sigs) : Plain(sigs[j])
    BY <1>4, <1>5, <2>2
  <2>. QED BY <1>7, <2>2, <2>5, <2>6 DEF HistoryInv, u
<1>12. CASE s.do = "sign"
  <2>1. u = sign(t, s.n)
    BY <1>3, <1>12 DEF Applied
  <2>2. LET v == sign(t, s.n)
            sig == SignatureOf(s.n, Unsigned(t))
        IN /\ Descends(tx, v) /\ Plain(sig)
           /\ Len(v.signatures) = Len(t.signatures) + 1
           /\ \A j \in 1..Len(t.signatures) : v.signatures[j] = t.signatures[j]
           /\ v.signatures[Len(t.signatures) + 1] = sig
    <3>1. s.n \in Byte
      BY <1>2, <1>12
    <3> HIDE DEF s
    <3>. QED BY <1>4, <1>6, <3>1, SignedKeeps
  <2>3. /\ Descends(tx, u) /\ Plain(Of(i + 1)) /\ Len(sigs) = m + 1
        /\ (\A j \in 1..m : sigs[j] = t.signatures[j]) /\ sigs[m + 1] = Of(i + 1)
    BY <1>10, <2>1, <2>2
  <2> HIDE DEF Of, u, t, s, m
  <2>4. (\A j \in 1..(m + 1) : j \in 1..m \/ j = m + 1) /\ m + 1 \in 1..(m + 1) /\ \A j \in 1..m : j \in 1..(m + 1)
    BY <1>5
  <2>5. ASSUME NEW j \in 1..Len(sigs)
        PROVE  Plain(sigs[j]) /\ \E k \in 1..(i + 1) : steps[k].do = "sign" /\ sigs[j] = Of(k)
    <3>1. CASE j \in 1..m
      <4>1. sigs[j] = t.signatures[j]
        BY <2>3, <3>1
      <4>2. PICK k \in 1..i : steps[k].do = "sign" /\ t.signatures[j] = Of(k)
        BY <1>9, <3>1
      <4>. QED BY <1>4, <1>8, <3>1, <4>1, <4>2
    <3>2. CASE j = m + 1
      BY <1>8, <1>12, <2>3, <3>2 DEF s
    <3>. QED BY <2>3, <2>4, <3>1, <3>2
  <2>6. ASSUME NEW k \in 1..(i + 1), steps[k].do = "sign"
        PROVE  \E j \in 1..Len(sigs) : sigs[j] = Of(k)
    <3>1. CASE k \in 1..i
      <4>1. PICK j \in 1..m : t.signatures[j] = Of(k)
        BY <1>9, <2>6, <3>1
      <4>2. sigs[j] = t.signatures[j] /\ j \in 1..Len(sigs)
        BY <2>3, <2>4
      <4>. QED BY <4>1, <4>2
    <3>2. CASE k = i + 1
      BY <2>3, <2>4, <3>2
    <3>. QED BY <1>8, <3>1, <3>2
  <2>7. SignedIn(steps, h, i + 1)
    BY <2>5, <2>6 DEF SignedIn, Of, u
  <2>8. Len(sigs) <= i + 1
    BY <1>4, <1>5, <2>3 DEF m
  <2>. QED BY <1>7, <2>3, <2>5, <2>7, <2>8 DEF HistoryInv, u
<1>. QED BY <1>2, <1>11, <1>12

\* It holds after every call.
LEMMA HistoryHolds ==
  ASSUME NEW tx, Held(tx), tx.signatures = <<>>, Room(tx) < Power[2], NEW steps, Called(steps),
         NEW i \in 0..Len(steps)
  PROVE  HistoryInv(tx, steps, History(tx, steps), i)
<1> DEFINE h == History(tx, steps)
           T == {k \in Nat : k <= Len(steps) => HistoryInv(tx, steps, h, k)}
<1>1. Len(steps) \in Nat
  BY LenProperties DEF Called
<1>2. HistoryOf(tx, steps, Len(steps), h)
  BY <1>1, HistoryIs
<1> HIDE DEF h
<1>3. 0 \in T
  <2>1. h[0] = tx
    BY <1>2 DEF HistoryOf
  <2>2. Descends(tx, tx)
    BY DEF Descends
  <2>3. Len(tx.signatures) = 0 /\ (\A j \in 1..0 : FALSE) /\ \A j \in 0..0 : j = 0
    OBVIOUS
  <2>4. SignedIn(steps, h, 0)
    BY <2>1, <2>3 DEF SignedIn
  <2>5. HistoryInv(tx, steps, h, 0)
    BY <2>1, <2>2, <2>3, <2>4 DEF HistoryInv
  <2>. QED BY <2>5
<1>4. ASSUME NEW k \in T PROVE k + 1 \in T
  <2> SUFFICES ASSUME k + 1 <= Len(steps) PROVE HistoryInv(tx, steps, h, k + 1)
    OBVIOUS
  <2>1. k \in Nat /\ HistoryInv(tx, steps, h, k) /\ k + 1 \in 1..Len(steps) /\ (k + 1) - 1 = k
    BY <1>1
  <2>2. h[k + 1] = Applied(h[k], steps[k + 1])
    BY <1>2, <2>1 DEF HistoryOf
  <2>3. CASE h[k + 1] = Thrown
    BY <2>3 DEF HistoryInv
  <2>4. CASE h[k + 1] # Thrown
    BY <2>1, <2>2, <2>4, HistoryStep
  <2>. QED BY <2>3, <2>4
<1>5. T = Nat
  <2>0. T \in SUBSET Nat
    OBVIOUS
  <2> HIDE DEF T
  <2>. QED BY <2>0, <1>3, <1>4, SetInduction
<1>. QED BY <1>1, <1>5 DEF h

-----------------------------------------------------------------------------
(* Who verifies.                                                           *)

\* Transactions of one origin have the same unsigned part when they have the same payload.
LEMMA UnsignedEqual ==
  ASSUME NEW tx, NEW a, NEW b, Descends(tx, a), Descends(tx, b), Sent(a), Sent(b)
  PROVE  Unsigned(a) = Unsigned(b) <=> a.payload = b.payload
<1>1. ASSUME a.payload = b.payload PROVE Unsigned(a) = Unsigned(b)
  BY <1>1 DEF Descends, Unsigned
<1>2. ASSUME Unsigned(a) = Unsigned(b) PROVE a.payload = b.payload
  <2> DEFINE x == [Seconds(a) EXCEPT !.signatures = <<>>]
             y == [Seconds(b) EXCEPT !.signatures = <<>>]
  <2>1. ReadWith(a, <<>>) = Got(x, <<>>) /\ ReadWith(b, <<>>) = Got(y, <<>>)
    BY PartsRead
  <2>2. unserializeTransaction(Join(Unsigned(a), <<>>)) = ReadWith(a, <<>>)
    BY UnsignedRead, JoinNothing
  <2>3. unserializeTransaction(Join(Unsigned(b), <<>>)) = ReadWith(b, <<>>)
    BY UnsignedRead, JoinNothing
  <2>4. Got(x, <<>>) = Got(y, <<>>)
    BY <1>2, <2>1, <2>2, <2>3
  <2>5. x = y
    BY <2>4 DEF Got
  <2>6. x.payload = a.payload /\ y.payload = b.payload
    BY DEF Seconds, Sent
  <2>. QED BY <2>5, <2>6
<1>. QED BY <1>1, <1>2

\* Without the parts of a second a transaction has the same unsigned part.
LEMMA SecondsSame ==
  ASSUME NEW t, Sent(t)
  PROVE  /\ Seconds(t).nexusName = t.nexusName /\ Seconds(t).chainName = t.chainName
         /\ Seconds(t).script = t.script /\ Seconds(t).payload = t.payload
         /\ Seconds(t).signatures = t.signatures
         /\ toByteArray(Seconds(t), FALSE) = Unsigned(t) /\ toString(Seconds(t)) = Unsigned(t)
<1>1. t \in [nexusName : Seq(Byte), chainName : Seq(Byte), script : Seq(Byte), expiration : Nat,
             payload : Seq(Byte), signatures : Seq(Signature)]
  BY DEF Sent
<1>2. \A e \in Nat : 1000 * (e \div 1000) \in Nat /\ (1000 * (e \div 1000)) \div 1000 = e \div 1000
  OBVIOUS
<1> DEFINE s == Seconds(t)
<1>3. /\ s \in [nexusName : Seq(Byte), chainName : Seq(Byte), script : Seq(Byte), expiration : Nat,
                payload : Seq(Byte), signatures : Seq(Signature)]
      /\ s.nexusName = t.nexusName /\ s.chainName = t.chainName /\ s.script = t.script
      /\ s.payload = t.payload /\ s.signatures = t.signatures
      /\ s.expiration = 1000 * (t.expiration \div 1000)
  <2> DEFINE e == 1000 * (t.expiration \div 1000)
  <2>1. e \in Nat
    BY <1>1, <1>2
  <2>2. s = [t EXCEPT !.expiration = e]
    BY DEF Seconds
  <2> HIDE DEF e, s
  <2>3. /\ s \in [nexusName : Seq(Byte), chainName : Seq(Byte), script : Seq(Byte), expiration : Nat,
                  payload : Seq(Byte), signatures : Seq(Signature)]
        /\ s.nexusName = t.nexusName /\ s.chainName = t.chainName /\ s.script = t.script
        /\ s.payload = t.payload /\ s.signatures = t.signatures /\ s.expiration = e
    BY <1>1, <2>1, <2>2
  <2>. QED BY <2>3 DEF e
<1>4. s.expiration \div 1000 = t.expiration \div 1000
  BY <1>1, <1>2, <1>3
<1> HIDE DEF s
<1>5. Sent(s)
  BY <1>3, <1>4 DEF Sent
<1>6. Unsigned(s) = Unsigned(t)
  BY <1>3, <1>4 DEF Unsigned
<1>. QED BY <1>3, <1>5, <1>6, WrittenParts, ZenonT(60) DEF s

\* A key verifies when it made one of the signatures of what is there now.
LEMMA Verifies ==
  ASSUME NEW tx, Held(tx), tx.signatures = <<>>, Room(tx) < Power[2], NEW steps, Called(steps),
         History(tx, steps)[Len(steps)] # Thrown, NEW key \in Byte
  PROVE  LET history == History(tx, steps)
             end == history[Len(steps)]
         IN /\ Sent(end)
            /\ verifySignature(end, key) <=>
                 \E i \in DOMAIN steps : /\ steps[i] = [do |-> "sign", n |-> key]
                                        /\ history[i - 1].payload = end.payload
<1> DEFINE h == History(tx, steps)
           n == Len(steps)
           end == h[n]
<1>1. /\ n \in Nat /\ DOMAIN steps = 1..n /\ n < Power[2] /\ Power[2] \in Nat
      /\ \A k \in 1..n : /\ steps[k] \in [do : {"mine", "sign"}, n : Int]
                         /\ steps[k].do = "sign" => steps[k].n \in Byte
  BY PowerNext, 2 \in Nat, LenProperties DEF Called
<1>2. \A i \in 0..n : HistoryInv(tx, steps, h, i)
  BY HistoryHolds
<1>3. end # Thrown
  OBVIOUS
<1> HIDE DEF h
<1>4. n \in 0..n /\ \A i \in 1..n : i - 1 \in 0..n
  BY <1>1
<1>5. \A j \in 0..n : h[j] # Thrown
  BY <1>2, <1>3, <1>4 DEF HistoryInv
<1> HIDE DEF n
<1>6. ASSUME NEW i \in 0..n PROVE Sent(h[i]) /\ Descends(tx, h[i]) /\ Unsigned(h[i]) \in Bytes
  <2> DEFINE t == h[i]
  <2>1. Descends(tx, t) /\ Len(t.signatures) <= i /\ \A j \in 1..Len(t.signatures) : Plain(t.signatures[j])
    BY <1>2, <1>5 DEF HistoryInv
  <2>2. Held(t) /\ Room(t) < Power[2] + 4
    BY <2>1, DescendsRoom DEF Descends
  <2>3. Len(t.signatures) \in Nat
    BY <2>2, LenProperties DEF Held
  <2>4. Len(t.signatures) < Power[2]
    BY <1>1, <2>1, <2>3
  <2> HIDE DEF t
  <2>5. Sent(t)
    BY <2>1, <2>2, <2>4, HeldSent
  <2>6. Unsigned(t) \in Bytes
    BY <2>5, UnsignedRead, JoinNothing
  <2>. QED BY <2>1, <2>5, <2>6 DEF t
<1>7. Sent(end) /\ Descends(tx, end) /\ Unsigned(end) \in Bytes /\ SignedIn(steps, h, n)
  BY <1>2, <1>4, <1>5, <1>6 DEF HistoryInv
<1>8. \A k \in 1..n : steps[k].do = "sign" =>
        (SignatureOf(key, Unsigned(end)) = SignatureOf(steps[k].n, Unsigned(h[k - 1]))
           <=> key = steps[k].n /\ Unsigned(end) = Unsigned(h[k - 1]))
  BY <1>1, <1>4, <1>6, <1>7, SignatureEqual
<1>9. \A k \in 1..n : Unsigned(end) = Unsigned(h[k - 1]) <=> h[k - 1].payload = end.payload
  <2> SUFFICES ASSUME NEW k \in 1..n
               PROVE  Unsigned(end) = Unsigned(h[k - 1]) <=> h[k - 1].payload = end.payload
    OBVIOUS
  <2>1. Sent(h[k - 1]) /\ Descends(tx, h[k - 1])
    BY <1>4, <1>6
  <2> HIDE DEF end
  <2>2. Unsigned(end) = Unsigned(h[k - 1]) <=> end.payload = h[k - 1].payload
    BY <1>7, <2>1, UnsignedEqual
  <2>. QED BY <2>2
<1>10. \A k \in 1..n : steps[k] = [do |-> "sign", n |-> key] <=> steps[k].do = "sign" /\ steps[k].n = key
  BY <1>1
<1> DEFINE sigs == end.signatures
           me == SignatureOf(key, Unsigned(end))
<1>11. /\ \A j \in 1..Len(sigs) : \E k \in 1..n : steps[k].do = "sign" /\ sigs[j] = SignatureOf(steps[k].n, Unsigned(h[k - 1]))
       /\ \A k \in 1..n : steps[k].do = "sign" =>
            \E j \in 1..Len(sigs) : sigs[j] = SignatureOf(steps[k].n, Unsigned(h[k - 1]))
  BY <1>7 DEF SignedIn
<1>12. verifySignature(end, key) <=> \E j \in 1..Len(sigs) : sigs[j] = me
  <2>1. DOMAIN sigs = 1..Len(sigs)
    BY <1>7, SentParts, LenProperties
  <2>2. toByteArray(end, FALSE) = Unsigned(end)
    BY <1>7, WrittenParts
  <2>. QED BY <2>1, <2>2 DEF verifySignature
<1> HIDE DEF sigs, me, end
<1>13. ASSUME NEW j \in 1..Len(sigs), sigs[j] = me
       PROVE  \E k \in 1..n : steps[k] = [do |-> "sign", n |-> key] /\ h[k - 1].payload = end.payload
  <2>1. PICK k \in 1..n : steps[k].do = "sign" /\ sigs[j] = SignatureOf(steps[k].n, Unsigned(h[k - 1]))
    BY <1>11
  <2>2. key = steps[k].n /\ Unsigned(end) = Unsigned(h[k - 1])
    BY <1>8, <1>13, <2>1 DEF me
  <2>. QED BY <1>9, <1>10, <2>1, <2>2
<1>14. ASSUME NEW k \in 1..n, steps[k] = [do |-> "sign", n |-> key], h[k - 1].payload = end.payload
       PROVE  \E j \in 1..Len(sigs) : sigs[j] = me
  <2>1. steps[k].do = "sign" /\ steps[k].n = key
    BY <1>14
  <2>2. me = SignatureOf(steps[k].n, Unsigned(h[k - 1]))
    BY <1>8, <1>9, <1>14, <2>1 DEF me
  <2>. QED BY <1>11, <2>1, <2>2
<1>. QED BY <1>1, <1>7, <1>12, <1>13, <1>14 DEF h, n, end

-----------------------------------------------------------------------------
(* Any calls, and what the helper builds.                                  *)

\* After any work and any signatures, the transaction and what its receiver reads verify for
\* exactly the keys that signed what is there now.
THEOREM StepsAreSound ==
  ASSUME NEW tx, Held(tx), tx.signatures = <<>>, Room(tx) < Power[2],
         NEW steps, Called(steps), NEW keys \in SUBSET Byte
  PROVE  StepsSound(tx, steps, keys)
<1> DEFINE history == History(tx, steps)
           end == history[Len(steps)]
           received == unserializeTransaction(toByteArray(end, TRUE)).v
           Signers == {key \in keys :
                         \E i \in DOMAIN steps : /\ steps[i] = [do |-> "sign", n |-> key]
                                                /\ history[i - 1].payload = end.payload}
<1> SUFFICES ASSUME end # Thrown
             PROVE  /\ TxSurvives(end)
                    /\ verifySignatures(end, keys) = [ok |-> Signers # {}, matched |-> Signers]
                    /\ {key \in keys : verifySignature(received, key)} = Signers
  BY DEF StepsSound
<1>1. \A key \in keys : verifySignature(end, key) <=> key \in Signers
  <2> SUFFICES ASSUME NEW key \in keys PROVE verifySignature(end, key) <=> key \in Signers
    OBVIOUS
  <2>1. key \in Byte
    OBVIOUS
  <2>2. verifySignature(end, key) <=>
          \E i \in DOMAIN steps : /\ steps[i] = [do |-> "sign", n |-> key]
                                 /\ history[i - 1].payload = end.payload
    BY <2>1, Verifies
  <2> HIDE DEF history, end
  <2>. QED BY <2>2
<1>2. Sent(end)
  BY Marks, Verifies
<1> HIDE DEF history, end, Signers
<1>3. TxSurvives(end)
  BY <1>2, TransactionsSurvive
<1>4. received = Seconds(end)
  <2>1. unserializeTransaction(toByteArray(end, TRUE)) = Got(Seconds(end), <<>>)
    <3> DEFINE e == end
    <3> HIDE DEF e
    <3>1. TxSurvives(e) <=>
            /\ unserializeTransaction(toByteArray(e, TRUE)) = Got(Seconds(e), <<>>)
            /\ unserializeTransaction(toByteArray(e, FALSE)) = Got([Seconds(e) EXCEPT !.signatures = <<>>], <<>>)
            /\ serializeTransaction(e) = toByteArray(e, TRUE)
            /\ toString(e) = toByteArray(e, FALSE)
      BY DEF TxSurvives, Seconds
    <3>. QED BY <1>3, <3>1 DEF e
  <2>2. Got(Seconds(end), <<>>).v = Seconds(end)
    BY DEF Got
  <2>. QED BY <2>1, <2>2
<1> HIDE DEF received
<1>5. \A key : verifySignature(received, key) <=> verifySignature(end, key)
  BY <1>2, <1>4, SecondsSame, WrittenParts DEF verifySignature
<1>6. {key \in keys : verifySignature(end, key)} = Signers /\ {key \in keys : verifySignature(received, key)} = Signers
  BY <1>1, <1>5 DEF Signers
<1>. QED BY <1>3, <1>6 DEF verifySignatures

\* A set of places has a last one.
LEMMA GreatestOf ==
  ASSUME NEW n \in Nat, NEW T \in SUBSET (1..n), T # {}
  PROVE  Max(T) \in T
<1> DEFINE U == {n - i : i \in T}
<1>1. U \in SUBSET Nat /\ U # {}
  <2>1. \A i \in 1..n : n - i \in Nat
    OBVIOUS
  <2>2. \A i \in T : n - i \in Nat
    BY <2>1
  <2>. QED BY <2>2
<1> HIDE DEF U
<1>2. PICK m \in U : \A k \in U : m <= k
  BY <1>1, LeastOf
<1>3. PICK x \in T : m = n - x
  BY DEF U
<1>4. ASSUME NEW y \in T PROVE x >= y
  <2>1. n - y \in U
    BY DEF U
  <2>2. n - x <= n - y
    BY <1>2, <1>3, <2>1
  <2>. QED BY <2>2
<1>. QED BY <1>4 DEF Max

\* And a first one.
LEMMA LeastIs ==
  ASSUME NEW n \in Nat, NEW T \in SUBSET (1..n), T # {}
  PROVE  Min(T) \in T /\ \A x \in T : Min(T) <= x
<1>1. T \in SUBSET Nat
  OBVIOUS
<1>2. \E x \in T : \A y \in T : x <= y
  BY <1>1, LeastOf
<1>. QED BY <1>2 DEF Min

\* Trimmed text is no longer than it was.
LEMMA TrimmedFacts ==
  ASSUME NEW text \in Seq(Byte)
  PROVE  Trimmed(text) \in Seq(Byte) /\ Len(Trimmed(text)) <= Len(text)
<1> DEFINE kept == {i \in DOMAIN text : text[i] # 32}
           n == Len(text)
<1>1. n \in Nat /\ DOMAIN text = 1..n /\ \A i \in 1..n : text[i] \in Byte
  BY LenProperties
<1>2. CASE kept = {}
  BY <1>2, <1>1 DEF Trimmed
<1>3. CASE kept # {}
  <2>1. Trimmed(text) = SubSeq(text, Min(kept), Max(kept))
    BY <1>3 DEF Trimmed
  <2>2. kept \subseteq 1..n
    BY <1>1
  <2> HIDE DEF kept
  <2>3. Min(kept) \in 1..n
    BY <1>1, <1>3, <2>2, LeastIs
  <2>4. Max(kept) \in 1..n
    BY <1>1, <1>3, <2>2, GreatestOf
  <2>5. PICK a \in 1..n, b \in 1..n : a = Min(kept) /\ b = Max(kept)
    BY <2>3, <2>4
  <2>6. \A i \in a..b : text[i] \in Byte
    BY <1>1
  <2>7. SubSeq(text, a, b) \in Seq(Byte) /\ Len(SubSeq(text, a, b)) = IF a <= b THEN b - a + 1 ELSE 0
    BY <2>6, SubSeqProperties
  <2>. QED BY <1>1, <2>1, <2>5, <2>7
<1>. QED BY <1>2, <1>3

\* What the helper is given: texts, a script, a payload or none, and any work.
Asked(p, script) ==
    /\ p \in [nexus : Seq(Byte), chain : Seq(Byte), expiration : Nat, payload : Seq(Byte), proofOfWork : Int]
    /\ script \in Seq(Byte) /\ p.expiration \div 1000 < Power[4]
    /\ Len(p.nexus) + Len(p.chain) + Len(script) + Len(p.payload) + Len(DefaultPayload) + 32 < Power[2]

\* What the helper builds fits the wire.
LEMMA BuiltHeld ==
  ASSUME NEW p, NEW script, Asked(p, script)
  PROVE  LET tx == Transaction(Trimmed(p.nexus), Trimmed(p.chain), script, p.expiration, p.payload)
         IN Held(tx) /\ tx.signatures = <<>> /\ tx.script = script /\ Room(tx) < Power[2]
<1> DEFINE x == Trimmed(p.nexus)
           y == Trimmed(p.chain)
           z == IF p.payload = <<>> THEN DefaultPayload ELSE p.payload
           tx == Transaction(x, y, script, p.expiration, p.payload)
<1>1. /\ p.nexus \in Seq(Byte) /\ p.chain \in Seq(Byte) /\ p.payload \in Seq(Byte) /\ p.expiration \in Nat
      /\ script \in Seq(Byte) /\ DefaultPayload \in Seq(Byte) /\ DefaultPayload # <<>>
  BY TransactionsAssumption DEF Asked
<1>2. x \in Seq(Byte) /\ Len(x) <= Len(p.nexus) /\ y \in Seq(Byte) /\ Len(y) <= Len(p.chain)
  BY <1>1, TrimmedFacts
<1>3. PICK a \in Nat, b \in Nat, s \in Nat, q \in Nat, d \in Nat, e \in Nat, f \in Nat, w \in Nat :
         /\ a = Len(p.nexus) /\ b = Len(p.chain) /\ s = Len(script) /\ q = Len(p.payload)
         /\ d = Len(DefaultPayload) /\ e = Len(x) /\ f = Len(y) /\ w = Power[2]
  BY <1>1, <1>2, LenProperties, PowerNext, 2 \in Nat
<1> HIDE DEF x, y
<1>4. z \in Seq(Byte) /\ z # <<>> /\ (Len(z) = q \/ Len(z) = d)
  BY <1>1, <1>3
<1>5. tx = [nexusName |-> x, chainName |-> y, script |-> script, expiration |-> p.expiration,
            payload |-> z, signatures |-> <<>>]
  BY DEF Transaction
<1> HIDE DEF z
<1>6. <<>> \in Seq(Signature)
  OBVIOUS
<1>7. Held(tx)
  BY <1>1, <1>2, <1>4, <1>5, <1>6 DEF Held, Asked
<1>8. Room(tx) = e + f + s + Len(z) + 32
  BY <1>3, <1>5 DEF Room
<1>9. a + b + s + q + d + 32 < w
  BY <1>3 DEF Asked
<1>10. e <= a /\ f <= b
  BY <1>2, <1>3
<1>11. e + f + s + Len(z) + 32 < w
  <2>1. CASE Len(z) = q
    BY <1>9, <1>10, <2>1
  <2>2. CASE Len(z) = d
    BY <1>9, <1>10, <2>2
  <2>. QED BY <1>4, <2>1, <2>2
<1>. QED BY <1>3, <1>5, <1>7, <1>8, <1>11 DEF x, y

-----------------------------------------------------------------------------
(* The properties.                                                         *)

\* One signature of what is there now, as the receiver sees it.
LEMMA OneSignature ==
  ASSUME NEW tx, NEW mined, Descends(tx, mined), Room(mined) < Power[2] + 4, mined.signatures = <<>>,
         NEW key \in Byte
  PROVE  LET received == unserializeTransaction(toByteArray(sign(mined, key), TRUE)).v
         IN /\ verifySignature(received, key) /\ toString(received) = toString(mined)
            /\ received.script = mined.script /\ received.payload = mined.payload
<1> DEFINE s == sign(mined, key)
           sig == SignatureOf(key, Unsigned(mined))
           received == unserializeTransaction(toByteArray(s, TRUE)).v
<1>1. Held(mined) /\ Len(mined.signatures) = 0 /\ 0 < Power[2] /\ \A j \in 1..0 : Plain(mined.signatures[j])
  BY PowerNext, 2 \in Nat DEF Descends
<1>2. Sent(mined)
  BY <1>1, HeldSent
<1>3. /\ Descends(tx, s) /\ Plain(sig) /\ Len(s.signatures) = 0 + 1 /\ s.signatures[0 + 1] = sig
  BY <1>1, SignedKeeps
<1>4. s = [mined EXCEPT !.signatures = Append(@, SignatureOf(key, toByteArray(mined, FALSE)))]
  BY DEF sign
<1> HIDE DEF s, sig
<1>5. /\ s.nexusName = mined.nexusName /\ s.chainName = mined.chainName /\ s.script = mined.script
      /\ s.expiration = mined.expiration /\ s.payload = mined.payload
  BY <1>1, <1>4 DEF Held
<1>6. Sent(s)
  <2>1. Held(s) /\ Len(s.signatures) = 1 /\ s.signatures[1] = sig
    BY <1>3 DEF Descends
  <2>2. Room(s) < Power[2] + 4
    BY <1>5 DEF Room
  <2>3. 1 < Power[2]
    <3>1. Power[1 + 1] = Base * Power[1] /\ Power[1] = Base
      BY PowerDef, PowerSmall, 1 \in Nat
    <3>2. Base \in Nat /\ Base >= 4
      BY NumbersAssumption
    <3>3. \A b \in Nat : b >= 4 => 1 < b * b
      <4> SUFFICES ASSUME NEW b \in Nat, b >= 4 PROVE 1 < b * b
        OBVIOUS
      <4>1. b * b >= 4 * b
        OBVIOUS
      <4>. QED BY <4>1
    <3>. QED BY <3>1, <3>2, <3>3
  <2>4. \A j \in 1..Len(s.signatures) : Plain(s.signatures[j])
    BY <1>3, <2>1
  <2>. QED BY <2>1, <2>2, <2>3, <2>4, HeldSent
<1>7. received = Seconds(s)
  <2>1. TxSurvives(s)
    BY <1>6, TransactionsSurvive
  <2>2. unserializeTransaction(toByteArray(s, TRUE)) = Got(Seconds(s), <<>>)
    <3>1. TxSurvives(s) <=>
            /\ unserializeTransaction(toByteArray(s, TRUE)) = Got(Seconds(s), <<>>)
            /\ unserializeTransaction(toByteArray(s, FALSE)) = Got([Seconds(s) EXCEPT !.signatures = <<>>], <<>>)
            /\ serializeTransaction(s) = toByteArray(s, TRUE)
            /\ toString(s) = toByteArray(s, FALSE)
      BY DEF TxSurvives, Seconds
    <3>. QED BY <2>1, <3>1
  <2>3. Got(Seconds(s), <<>>).v = Seconds(s)
    BY DEF Got
  <2>. QED BY <2>2, <2>3
<1> HIDE DEF received
<1>8. /\ received.script = mined.script /\ received.payload = mined.payload
      /\ received.signatures = s.signatures
      /\ toByteArray(received, FALSE) = Unsigned(s) /\ toString(received) = Unsigned(s)
  BY <1>5, <1>6, <1>7, SecondsSame
<1>9. Unsigned(s) = Unsigned(mined) /\ toString(mined) = Unsigned(mined)
  <2>1. Unsigned(s) = Unsigned(mined)
    BY <1>5 DEF Unsigned
  <2>2. toString(mined) = Unsigned(mined)
    BY <1>2, WrittenParts
  <2>. QED BY <2>1, <2>2
<1>10. verifySignature(received, key)
  <2>1. s.signatures \in Seq(Signature) /\ Len(s.signatures) = 1 /\ s.signatures[1] = sig
    BY <1>3, <1>6, SentParts
  <2>2. 1 \in DOMAIN s.signatures
    BY <2>1, LenProperties
  <2>3. received.signatures[1] = SignatureOf(key, toByteArray(received, FALSE)) /\ 1 \in DOMAIN received.signatures
    BY <1>8, <1>9, <2>1, <2>2 DEF sig
  <2>. QED BY <2>3 DEF verifySignature
<1>. QED BY <1>8, <1>9, <1>10 DEF received, s

\* What the helper hands over verifies for its signer at the receiver, and does the work that
\* was asked for.
THEOREM HelperIsSound ==
  ASSUME NEW p, NEW script, Asked(p, script), NEW key \in Byte
  PROVE  HelperSound(p, script, key)
<1> DEFINE tx == buildContractLifecycleTransaction(p, script)
           signed == IF tx = Thrown THEN Thrown ELSE signTransaction(tx, key, p.proofOfWork)
           received == unserializeTransaction(toByteArray(signed, TRUE)).v
           none == Trimmed(p.nexus) = <<>> \/ Trimmed(p.chain) = <<>>
<1>1. CASE none
  BY <1>1 DEF buildContractLifecycleTransaction, HelperSound
<1>2. CASE ~none
  <2> SUFFICES ASSUME signed # Thrown
               PROVE  /\ verifySignature(received, key)
                      /\ p.proofOfWork \in 1..HashBits => getDifficulty(getHash(received)) >= p.proofOfWork
                      /\ received.script = script /\ received.payload # <<>>
    BY <1>2 DEF HelperSound
  <2>1. tx = Transaction(Trimmed(p.nexus), Trimmed(p.chain), script, p.expiration, p.payload)
    BY <1>2 DEF buildContractLifecycleTransaction
  <2>2. Held(tx) /\ tx.signatures = <<>> /\ tx.script = script /\ Room(tx) < Power[2]
    BY <2>1, BuiltHeld
  <2> DEFINE d == p.proofOfWork
             mined == IF d > 0 THEN mineTransaction(tx, d) ELSE tx
  <2>3. tx # Thrown /\ mined # Thrown /\ signed = sign(mined, key) /\ d \in Int
    BY DEF signTransaction, Asked
  <2> HIDE DEF tx, signed, d
  <2>4. Descends(tx, tx)
    BY <2>2 DEF Descends
  <2>5. Descends(tx, mined) /\ mined.signatures = <<>>
    BY <2>2, <2>3, <2>4, MinedKeeps
  <2>6. d \in 1..HashBits => getDifficulty(Sha(toString(mined))) >= d
    <3> SUFFICES ASSUME d \in 1..HashBits PROVE getDifficulty(Sha(toString(mined))) >= d
      OBVIOUS
    <3>1. d > 0 /\ d \in 0..HashBits /\ mined = mineTransaction(tx, d)
      BY TransactionsAssumption
    <3>2. PICK x \in Seq(Byte) :
             /\ mineTransaction(tx, d) = [tx EXCEPT !.payload = x]
             /\ d \in 0..HashBits => getDifficulty(Sha(toString([tx EXCEPT !.payload = x]))) >= d
      BY <2>2, <2>3, <3>1, Mined
    <3>. QED BY <3>1, <3>2
  <2> HIDE DEF mined
  <2>7. Room(mined) < Power[2] + 4
    BY <2>2, <2>5, DescendsRoom
  <2>8. /\ verifySignature(received, key) /\ toString(received) = toString(mined)
        /\ received.script = mined.script /\ received.payload = mined.payload
    BY <2>3, <2>5, <2>7, OneSignature
  <2>9. mined.script = script /\ mined.payload # <<>>
    BY <2>2, <2>5 DEF Descends, Held
  <2>. QED BY <2>6, <2>8, <2>9 DEF getHash, d
<1>. QED BY <1>1, <1>2

\* TransactionsVerify holds of every transaction the code can hold, whatever is done to it,
\* and of everything the helper is asked for.
THEOREM TransactionsAreSound ==
  ASSUME sample.of = "steps" =>
           /\ Held(sample.v[1]) /\ sample.v[1].signatures = <<>> /\ Room(sample.v[1]) < Power[2]
           /\ Called(sample.v[2]),
         sample.of = "helped" => Asked(sample.v[1], sample.v[2]) /\ sample.v[3] \in Byte
  PROVE  TransactionsVerify
<1>1. {1, 2} \in SUBSET Byte
  BY Marks, PrimitivesAssumption, NumbersAssumption DEF Byte
<1>2. sample.of = "steps" => StepsSound(sample.v[1], sample.v[2], {1, 2})
  BY <1>1, StepsAreSound
<1>3. sample.of = "helped" => HelperSound(sample.v[1], sample.v[2], sample.v[3])
  BY HelperIsSound
<1>. QED BY <1>2, <1>3 DEF TransactionsVerify

\* NumbersSound holds of every number: those of a signed word survive the compact forms, one
\* bit more is cut to a word in silence, all others throw; the two older forms keep every one.
THEOREM NumbersAreSound ==
  ASSUME sample.of = "number" => sample.v \in Int
  PROVE  NumbersSound
BY NumbersSurvive, CompactShortest DEF NumbersSound

-----------------------------------------------------------------------------
(* Values behind each other.                                               *)

\* A throw is no result, no signed message, no answer of signers and no list.
ThrownIsNoRecord ==
    DOMAIN Thrown \notin {{"v", "rest"}, {"msg", "witnesses"}, {"signed", "asked"}} \cup {1..n : n \in Nat}

\* A result is no throw.
LEMMA GotIsApart ==
  ASSUME ThrownIsNoRecord
  PROVE  \A v, rest : Got(v, rest) # Thrown /\ Got(v, rest).v = v /\ Got(v, rest).rest = rest
BY DEF ThrownIsNoRecord, Got

\* The same reader by another name.
LEMMA SameReader ==
  ASSUME NEW R, NEW w, NEW v, Leads(R, w, v), NEW T, \A s \in Bytes : T[s] = R[s]
  PROVE  Leads(T, w, v)
BY JoinAgain, TakenAreBytes DEF Leads

\* Some values of any kind.
Listed(vs, n) == vs = [i \in 1..n |-> vs[i]]

\* A list is a sequence.
LEMMA ListedIs ==
  ASSUME NEW n \in Nat, NEW vs, Listed(vs, n)
  PROVE  /\ DOMAIN vs = 1..n /\ Len(vs) = n
         /\ \A S : (\A i \in 1..n : vs[i] \in S) => vs \in Seq(S)
<1> DEFINE f == [i \in 1..n |-> vs[i]]
<1>1. vs = f /\ DOMAIN f = 1..n
  BY DEF Listed
<1>2. ASSUME NEW S, \A i \in 1..n : vs[i] \in S PROVE f \in Seq(S) /\ Len(f) = n
  BY <1>2, IsASeq
<1>3. Len(f) = n
  BY <1>2
<1> HIDE DEF f
<1>. QED BY <1>1, <1>2, <1>3

\* A sequence is a list.
LEMMA SeqListed ==
  ASSUME NEW S, NEW vs \in Seq(S)
  PROVE  Len(vs) \in Nat /\ Listed(vs, Len(vs)) /\ \A i \in 1..Len(vs) : vs[i] \in S
BY LenProperties DEF Listed

\* Values of any kind behind each other are read in step.
LEMMA AnyInStep ==
  ASSUME ThrownIsNoRecord, NEW n \in Nat, NEW vs, Listed(vs, n), NEW ws, Listed(ws, n), NEW read,
         \A i \in 1..n : Leads(read[i], ws[i], vs[i])
  PROVE  Leads(Reads(read, n), FlattenSeq(ws), vs)
<1> DEFINE V == {vs[i] : i \in 1..n}
<1>1. vs \in Seq(V) /\ Len(vs) = n
  <2>1. \A i \in 1..n : vs[i] \in V
    OBVIOUS
  <2> HIDE DEF V
  <2>. QED BY <2>1, ListedIs
<1>2. ws \in Seq(Bytes) /\ Len(ws) = n
  BY ListedIs DEF Leads
<1> HIDE DEF V
<1>3. Distinct(V) /\ Distinct(Seq(V))
  BY GotIsApart DEF Distinct
<1>. QED BY <1>1, <1>2, <1>3, AllInStep

\* The reader of bytes in a number that is known.
TakeReader(n) == [s \in Bytes |-> TakeBytes(s, n)]

\* It reads that many.
LEMMA TakeLeads ==
  ASSUME NEW w \in Bytes
  PROVE  Leads(TakeReader(Len(w)), w, w)
<1>1. ASSUME NEW rest \in Bytes PROVE TakeReader(Len(w))[Join(w, rest)] = Got(w, rest)
  BY TakeFront, JoinAgain DEF TakeReader, Join, Bytes
<1>2. ASSUME NEW k \in 0..(Len(w) - 1) PROVE TakeReader(Len(w))[Take(w, k)] = Thrown
  <2>1. Len(w) \in Nat
    BY JoinLength
  <2>2. Take(w, k) \in Bytes /\ Len(Take(w, k)) = k
    BY TakenAreBytes
  <2>3. Len(w) > Len(Take(w, k))
    BY <2>1, <2>2
  <2>. QED BY <2>1, <2>2, <2>3, TooFew DEF TakeReader, Bytes
<1>. QED BY <1>1, <1>2 DEF Leads

\* The reader of numbers without a sign.
NaturalReader(size) == [s \in Bytes |-> Mapped(TakeBytes(s, size), Magnitude)]

\* It reads those that fit.
LEMMA NaturalLeads ==
  ASSUME ThrownIsNoRecord, NEW size \in Nat, NEW n \in Nat, n < Power[size]
  PROVE  Leads(NaturalReader(size), Fixed(n, size), n) /\ Len(Fixed(n, size)) = size
<1> DEFINE w == Fixed(n, size)
<1>1. w \in Bytes /\ Len(w) = size /\ Magnitude(w) = n
  BY FixedHolds DEF Bytes
<1> HIDE DEF w
<1>2. Leads(TakeReader(size), w, w)
  BY <1>1, TakeLeads
<1>3. Turns(NaturalReader(size), TakeReader(size), w, n)
  BY <1>1, GotIsApart DEF NaturalReader, Mapped, Turns, TakeReader
<1>. QED BY <1>1, <1>2, <1>3, Turned DEF w

\* The reader of numbers with a sign.
SignedReader(size) == [s \in Bytes |-> readFixed(size, s)]

\* It reads those that fit.
LEMMA SignedLeads ==
  ASSUME NEW size \in Nat \ {0}, NEW n \in Int, -(Power[size] \div 2) <= n, n < Power[size] \div 2
  PROVE  Leads(SignedReader(size), writeFixed(n, size), n) /\ Len(writeFixed(n, size)) = size
<1> DEFINE w == writeFixed(n, size)
<1>1. /\ w \in Bytes /\ Len(w) = size
      /\ \A rest \in Bytes : readFixed(size, Join(w, rest)) = Got(n, rest)
      /\ \A k \in 0..(size - 1) : readFixed(size, Take(w, k)) = Thrown
  BY FixedRead DEF Bytes, Join
<1> HIDE DEF w
<1>2. Leads(SignedReader(size), w, n)
  BY <1>1, JoinAgain, TakenAreBytes DEF Leads, SignedReader
<1>. QED BY <1>1, <1>2 DEF w

\* The reader of a byte.
ByteReader == [s \in Bytes |-> IF s = <<>> THEN Thrown ELSE Got(s[1], Tail(s))]

\* It reads one.
LEMMA ByteLeads ==
  ASSUME NEW b \in Byte
  PROVE  Leads(ByteReader, <<b>>, b) /\ Len(<<b>>) = 1
<1>1. <<b>> \in Bytes /\ Len(<<b>>) = 1
  BY MagnitudeOne DEF Bytes
<1>2. \A rest \in Bytes : ByteReader[Join(<<b>>, rest)] = Got(b, rest)
  BY HeadedStep DEF ByteReader
<1>3. \A k \in 0..(Len(<<b>>) - 1) : ByteReader[Take(<<b>>, k)] = Thrown
  <2>1. Take(<<b>>, 0) = <<>>
    BY DEF Take
  <2>2. \A k \in 0..(1 - 1) : k = 0
    OBVIOUS
  <2>. QED BY <1>1, <2>1, <2>2, JoinNothing DEF ByteReader
<1>. QED BY <1>1, <1>2, <1>3 DEF Leads

\* What stands behind its count is read if the count could be right.
LEMMA CountedLeads ==
  ASSUME ThrownIsNoRecord, NEW n \in Nat, n < Power[LengthSize] \div 2, NEW size \in Nat,
         NEW Q, NEW x, NEW u, Leads(Q, x, u), n * size <= Len(x), NEW T,
         \A s \in Bytes : readLength(size, s) = Thrown => T[s] = Thrown,
         \A s, rest \in Bytes : readLength(size, s) = Got(n, rest) => T[s] = Q[rest]
  PROVE  Leads(T, Join(writeLength(n), x), u)
<1> DEFINE R == SignedReader(LengthSize)
           P == [r \in Bytes |-> IF n * size > Len(r) THEN Thrown ELSE Q[r]]
<1>0. x \in Bytes /\ Len(x) \in Nat /\ n * size \in Nat
  BY JoinLength DEF Leads
<1>1. Leads(R, writeLength(n), n)
  <2>1. Power[LengthSize] \div 2 \in Nat /\ LengthSize \in Nat \ {0}
    <3>1. Power[LengthSize] \in Nat
      BY PowerNext, PrimitivesAssumption
    <3>. QED BY <3>1, PrimitivesAssumption
  <2>2. -(Power[LengthSize] \div 2) <= n
    BY <2>1
  <2>. QED BY <2>1, <2>2, SignedLeads DEF writeLength, writeFixed
<1>2. Leads(P, x, u)
  <2>1. ASSUME NEW rest \in Bytes PROVE P[Join(x, rest)] = Got(u, rest)
    BY <1>0, JoinLength DEF Leads
  <2>2. ASSUME NEW k \in 0..(Len(x) - 1) PROVE P[Take(x, k)] = Thrown
    BY <1>0, TakenAreBytes DEF Leads
  <2>. QED BY <1>0, <2>1, <2>2 DEF Leads
<1>3. GoesOn(T, R, n, P)
  <2>1. ASSUME NEW s \in Bytes, R[s] = Thrown PROVE T[s] = Thrown
    BY <2>1 DEF SignedReader, readLength, Then
  <2>2. ASSUME NEW s \in Bytes, NEW rest \in Bytes, R[s] = Got(n, rest) PROVE T[s] = P[rest]
    BY <2>2, GotIsApart DEF SignedReader, readLength, Then
  <2>. QED BY <2>1, <2>2 DEF GoesOn
<1> HIDE DEF P, R
<1>. QED BY <1>1, <1>2, <1>3, Sequel

-----------------------------------------------------------------------------
(* Wide numbers.                                                           *)

\* A wide number is written as a header and its payload.
LEMMA WideParted ==
  ASSUME NEW n \in Int, InWord(n)
  PROVE  \E l, neg, p :
           /\ l \in 0..WordSize /\ neg \in BOOLEAN /\ p \in Seq(Byte) /\ Len(p) = l
           /\ IntX_write(n) = [header |-> Header(l, neg), payload |-> p]
<1>1. CASE is8ByteSafe(n)
  <2>1. write8(n) \in Seq(Byte) /\ Len(write8(n)) = LongSize
    BY <1>1, Write8
  <2>2. LongSize \in 0..WordSize /\ (n < 0) \in BOOLEAN
    BY NumbersAssumption
  <2>3. IntX_write(n) = [header |-> Header(LongSize, n < 0), payload |-> write8(n)]
    BY <1>1 DEF IntX_write
  <2>. QED BY <2>1, <2>2, <2>3
<1>2. CASE ~is8ByteSafe(n)
  BY <1>2, WrittenParted DEF IntX_write
<1>. QED BY <1>1, <1>2

\* What follows the payload does not matter, and fewer bytes are refused.
LEMMA OnlyTheWidePayload ==
  ASSUME NEW l \in 0..WordSize, NEW neg \in BOOLEAN, NEW p \in Seq(Byte), Len(p) = l
  PROVE  /\ \A rest \in Seq(Byte) : IntX_read(Header(l, neg), p \o rest) = IntX_read(Header(l, neg), p)
         /\ \A r \in Seq(Byte) : Len(r) < l => IntX_read(Header(l, neg), r) = Thrown
<1>0. l \in Nat /\ LongSize \in Nat /\ LongSize > 0 /\ LengthBits(Header(l, neg)) = l
  BY NumbersAssumption, BitsOfLength
<1> DEFINE header == Header(l, neg)
<1>1. ASSUME NEW rest \in Seq(Byte) PROVE IntX_read(header, p \o rest) = IntX_read(header, p)
  <2> DEFINE q == p \o rest
  <2>1. Take(q, l) = p /\ Len(q) = l + Len(rest) /\ Len(rest) \in Nat
    BY TakeFront
  <2>2. Take(p, l) = p
    BY SubSeqFull DEF Take
  <2>3. ~(Len(q) < l) /\ ~(Len(p) < l)
    BY <1>0, <2>1
  <2>4. readBigInt(header, q) = readBigInt(header, p)
    BY OnlyThePayload
  <2> HIDE DEF q
  <2>. QED BY <1>0, <2>1, <2>2, <2>3, <2>4 DEF IntX_read, q
<1>2. ASSUME NEW r \in Seq(Byte), Len(r) < l PROVE IntX_read(header, r) = Thrown
  <2>1. readBigInt(header, r) = Thrown
    BY <1>2, TooShort
  <2> HIDE DEF header
  <2>. QED BY <1>0, <1>2, <2>1 DEF IntX_read, header
<1>. QED BY <1>1, <1>2

\* The reader of wide numbers.
WideReader == [s \in Bytes |-> readIntX(s)]

\* A wide number comes back.
LEMMA WideLeads ==
  ASSUME NEW n \in Int, AsWord(n) = n
  PROVE  Leads(WideReader, writeIntX(n), n) /\ Len(writeIntX(n)) >= 1
<1>1. InWord(n)
  BY AsWordInWord
<1>2. PICK l, neg, p :
        /\ l \in 0..WordSize /\ neg \in BOOLEAN /\ p \in Seq(Byte) /\ Len(p) = l
        /\ IntX_write(n) = [header |-> Header(l, neg), payload |-> p]
  BY <1>1, WideParted
<1> DEFINE header == Header(l, neg)
           b == HeaderByte(header)
           Q == [r \in Bytes |-> IntX_read(header, r)]
<1>3. b \in Byte /\ Header(b % (Base \div 2), SignBit(b)) = header /\ header.length = l
  BY <1>2, HeaderRead
<1>4. writeIntX(n) = Join(<<b>>, p)
  <2>1. l \in Nat
    BY <1>2, NumbersAssumption
  <2>2. [header |-> header, payload |-> p] \in [header : [length : Nat, negative : BOOLEAN], payload : Seq(Byte)]
    BY <1>2, <2>1 DEF Header
  <2>3. IntX_write(n) # Thrown
    BY <1>2, <2>2, ThrownIsNoResult
  <2> HIDE DEF header
  <2>4. IntX_write(n) = [header |-> header, payload |-> p]
    BY <1>2 DEF header
  <2>. QED BY <2>3, <2>4 DEF writeIntX, Headed, Made, Join
<1>5. WideReader[<<>>] = Thrown
  BY JoinNothing DEF WideReader, readIntX, readHeaded
<1>6. \A r \in Bytes : WideReader[Join(<<b>>, r)] = IF Q[r] = Thrown THEN Thrown ELSE Got(Q[r], Drop(r, Len(p)))
  <2> SUFFICES ASSUME NEW r \in Bytes
               PROVE  WideReader[Join(<<b>>, r)] = IF Q[r] = Thrown THEN Thrown ELSE Got(Q[r], Drop(r, Len(p)))
    OBVIOUS
  <2> HIDE DEF header, b
  <2>1. Join(<<b>>, r) \in Bytes /\ Join(<<b>>, r) # <<>> /\ Join(<<b>>, r)[1] = b /\ Tail(Join(<<b>>, r)) = r
    BY <1>3, HeadedStep
  <2>2. Q[r] = IntX_read(header, r)
    OBVIOUS
  <2> HIDE DEF Q
  <2>3. WideReader[Join(<<b>>, r)] = readHeaded(IntX_read, Join(<<b>>, r))
    BY <2>1 DEF WideReader, readIntX
  <2>. QED BY <1>2, <1>3, <2>1, <2>2, <2>3 DEF readHeaded, Made
<1>7. \A r \in Bytes : Q[Join(p, r)] = n
  <2> SUFFICES ASSUME NEW r \in Bytes PROVE Q[Join(p, r)] = n
    OBVIOUS
  <2>1. IntX_read(header, p \o r) = IntX_read(header, p)
    BY <1>2, OnlyTheWidePayload DEF Bytes
  <2>2. IntX_read(header, p) = n
    BY <1>1, <1>2, IntXRead
  <2>3. Join(p, r) \in Bytes
    BY <1>2, JoinAgain DEF Bytes
  <2> HIDE DEF header
  <2>. QED BY <2>1, <2>2, <2>3 DEF Join
<1>8. \A k \in 0..(Len(p) - 1) : Q[Take(p, k)] = Thrown
  <2> SUFFICES ASSUME NEW k \in 0..(Len(p) - 1) PROVE Q[Take(p, k)] = Thrown
    OBVIOUS
  <2>1. k \in 0..Len(p) /\ k < Len(p)
    BY <1>2, LenProperties
  <2>2. Take(p, k) \in Seq(Byte) /\ Len(Take(p, k)) = k
    BY <1>2, <2>1, TakeDrop
  <2>3. IntX_read(header, Take(p, k)) = Thrown
    BY <1>2, <2>1, <2>2, OnlyTheWidePayload
  <2> HIDE DEF header
  <2>. QED BY <2>2, <2>3 DEF Bytes
<1> HIDE DEF b, header, Q
<1>9. Leads(WideReader, Join(<<b>>, p), n)
  BY <1>2, <1>3, <1>5, <1>6, <1>7, <1>8, HeadedLeads DEF Bytes
<1>10. Len(Join(<<b>>, p)) >= 1
  <2>1. <<b>> \in Bytes /\ Len(<<b>>) = 1 /\ p \in Bytes
    BY <1>2, <1>3, MagnitudeOne DEF Bytes
  <2>2. Len(Join(<<b>>, p)) = Len(<<b>>) + Len(p) /\ Len(p) \in Nat
    BY <2>1, JoinLength
  <2>. QED BY <2>1, <2>2
<1>. QED BY <1>4, <1>9, <1>10

-----------------------------------------------------------------------------
(* The fields of messages.                                                 *)

\* The limit of what a length can say.
Half == Power[LengthSize] \div 2

\* A section of arguments that fits the wire: an offset below zero, or bytes.
Section == [registerOffset : Int, args : Seq(Byte)]
SectionFits(x) ==
    \/ x.registerOffset < 0 /\ -Half <= x.registerOffset /\ x.args = <<>>
    \/ x.registerOffset = 0 /\ Len(x.args) < Half

\* Arguments that fit the wire.
ArgsFit(a) ==
    \/ \E bytes \in Seq(Byte) : a = Arguments(bytes) /\ Len(bytes) < Half
    \/ \E sections \in Seq(Section) :
         /\ a = Sections(sections) /\ sections # <<>> /\ Len(sections) <= Half
         /\ \A i \in 1..Len(sections) : SectionFits(sections[i])

\* What a field holds: a number of its size, a key or a signature, or bytes whose length
\* can be written.
FieldFits(f, v) ==
    \/ f.kind = "byte" /\ v \in Byte
    \/ f.kind = "u32" /\ v \in Nat /\ v < Power[LengthSize]
    \/ f.kind = "u64" /\ v \in Nat /\ v < Power[LongSize]
    \/ f.kind = "i64" /\ v \in Int /\ -(Power[LongSize] \div 2) <= v /\ v < Power[LongSize] \div 2
    \/ /\ f.kind = "u64s" /\ v \in Seq(Nat) /\ Len(v) < Half
       /\ \A i \in 1..Len(v) : v[i] < Power[LongSize]
    \/ f.kind = "intx" /\ v \in Int /\ AsWord(v) = v
    \/ f.kind = "key" /\ v \in Seq(Byte) /\ Len(v) = KeySize
    \/ f.kind = "signature" /\ v \in Seq(Byte) /\ Len(v) = SignatureSize
    \/ f.kind = "small" /\ v \in Seq(Byte) /\ Len(v) < Base
    \/ f.kind = "array" /\ v \in Seq(Byte) /\ Len(v) < Half
    \/ f.kind = "args" /\ ArgsFit(v)

\* The limits are numbers.
LEMMA Limits ==
  /\ Half \in Nat /\ LengthSize \in Nat \ {0} /\ LongSize \in Nat \ {0}
  /\ KeySize \in Nat \ {0} /\ SignatureSize \in Nat \ {0}
  /\ Power[LengthSize] \in Nat /\ Power[LongSize] \in Nat /\ Half <= Power[LengthSize]
<1>1. Power[LengthSize] \in Nat /\ Power[LongSize] \in Nat
  BY PowerNext, PrimitivesAssumption, NumbersAssumption
<1>. QED BY <1>1, PrimitivesAssumption, NumbersAssumption, MessagesAssumption DEF Half

\* The reader of a field.
FieldReader(f) == [s \in Bytes |-> ReadField(f, s)]

\* Numbers in fields come back.
LEMMA NumberFieldLeads ==
  ASSUME ThrownIsNoRecord, NEW f, NEW v, FieldFits(f, v), f.kind \in {"byte", "u32", "u64", "i64", "intx"}
  PROVE  Leads(FieldReader(f), WriteField(f, v), v) /\ Len(WriteField(f, v)) >= 1
<1>1. CASE f.kind = "byte"
  <2>1. v \in Nat /\ v < Power[1] /\ 1 \in Nat
    <3>1. v \in Byte
      BY <1>1 DEF FieldFits
    <3>. QED BY <3>1, PowerSmall, NumbersAssumption DEF Byte
  <2>2. Leads(NaturalReader(1), Fixed(v, 1), v) /\ Len(Fixed(v, 1)) = 1
    BY <2>1, NaturalLeads
  <2>3. \A s \in Bytes : FieldReader(f)[s] = NaturalReader(1)[s]
    BY <1>1 DEF FieldReader, ReadField, NaturalReader
  <2>4. WriteField(f, v) = Fixed(v, 1)
    BY <1>1 DEF WriteField
  <2>. QED BY <2>2, <2>3, <2>4, SameReader
<1>2. CASE f.kind = "u32"
  <2>1. v \in Nat /\ v < Power[LengthSize]
    BY <1>2 DEF FieldFits
  <2>2. Leads(NaturalReader(LengthSize), Fixed(v, LengthSize), v) /\ Len(Fixed(v, LengthSize)) = LengthSize
    BY <2>1, Limits, NaturalLeads
  <2>3. \A s \in Bytes : FieldReader(f)[s] = NaturalReader(LengthSize)[s]
    BY <1>2 DEF FieldReader, ReadField, NaturalReader
  <2>4. WriteField(f, v) = Fixed(v, LengthSize)
    BY <1>2 DEF WriteField, writeFixed
  <2>. QED BY <2>2, <2>3, <2>4, SameReader, Limits
<1>3. CASE f.kind = "u64"
  <2>1. v \in Nat /\ v < Power[LongSize]
    BY <1>3 DEF FieldFits
  <2>2. Leads(NaturalReader(LongSize), Fixed(v, LongSize), v) /\ Len(Fixed(v, LongSize)) = LongSize
    BY <2>1, Limits, NaturalLeads
  <2>3. \A s \in Bytes : FieldReader(f)[s] = NaturalReader(LongSize)[s]
    BY <1>3 DEF FieldReader, ReadField, readU64, NaturalReader
  <2>4. WriteField(f, v) = Fixed(v, LongSize)
    BY <1>3 DEF WriteField, writeFixed
  <2>. QED BY <2>2, <2>3, <2>4, SameReader, Limits
<1>4. CASE f.kind = "i64"
  <2>1. v \in Int /\ -(Power[LongSize] \div 2) <= v /\ v < Power[LongSize] \div 2
    BY <1>4 DEF FieldFits
  <2>2. Leads(SignedReader(LongSize), writeFixed(v, LongSize), v) /\ Len(writeFixed(v, LongSize)) = LongSize
    BY <2>1, Limits, SignedLeads
  <2>3. \A s \in Bytes : FieldReader(f)[s] = SignedReader(LongSize)[s]
    BY <1>4 DEF FieldReader, ReadField, SignedReader
  <2>4. WriteField(f, v) = writeFixed(v, LongSize)
    BY <1>4 DEF WriteField
  <2>. QED BY <2>2, <2>3, <2>4, SameReader, Limits
<1>5. CASE f.kind = "intx"
  <2>1. v \in Int /\ AsWord(v) = v
    BY <1>5 DEF FieldFits
  <2>2. Leads(WideReader, writeIntX(v), v) /\ Len(writeIntX(v)) >= 1
    BY <2>1, WideLeads
  <2>3. \A s \in Bytes : FieldReader(f)[s] = WideReader[s]
    BY <1>5 DEF FieldReader, ReadField, WideReader
  <2>4. WriteField(f, v) = writeIntX(v)
    BY <1>5 DEF WriteField
  <2>. QED BY <2>2, <2>3, <2>4, SameReader
<1>. QED BY <1>1, <1>2, <1>3, <1>4, <1>5

\* Keys, signatures, texts and bytes in fields come back.
LEMMA ByteFieldLeads ==
  ASSUME ThrownIsNoRecord, NEW f, NEW v, FieldFits(f, v), f.kind \in {"key", "signature", "small", "array"}
  PROVE  Leads(FieldReader(f), WriteField(f, v), v) /\ Len(WriteField(f, v)) >= 1
<1>0. v \in Bytes /\ Len(v) \in Nat
  <2>1. v \in Seq(Byte)
    BY DEF FieldFits
  <2>. QED BY <2>1, JoinLength DEF Bytes
<1>1. CASE f.kind \in {"key", "signature"}
  <2>1. Leads(TakeReader(Len(v)), v, v)
    BY <1>0, TakeLeads
  <2>2. \A s \in Bytes : FieldReader(f)[s] = TakeReader(Len(v))[s]
    BY <1>1 DEF FieldFits, FieldReader, ReadField, TakeReader
  <2>3. WriteField(f, v) = v
    BY <1>1 DEF WriteField
  <2>4. Len(v) >= 1
    BY <1>1, Limits DEF FieldFits
  <2>. QED BY <2>1, <2>2, <2>3, <2>4, SameReader
<1>2. CASE f.kind = "small"
  <2> DEFINE b == Len(v)
             Q == TakeReader(b)
  <2>1. b \in Byte
    BY <1>0, <1>2, NumbersAssumption DEF FieldFits, Byte
  <2>2. Leads(ByteReader, <<b>>, b) /\ Leads(Q, v, v)
    BY <1>0, <2>1, ByteLeads, TakeLeads
  <2>3. WriteField(f, v) = Join(<<b>>, v)
    BY <1>2 DEF WriteField, SmallString_write, Join
  <2>4. GoesOn(FieldReader(f), ByteReader, b, Q)
    <3>1. \A s \in Bytes : FieldReader(f)[s] = IF s = <<>> THEN Thrown ELSE TakeBytes(Tail(s), s[1])
      BY <1>2 DEF FieldReader, ReadField, SmallString_read
    <3>2. \A s \in Bytes : ByteReader[s] = IF s = <<>> THEN Thrown ELSE Got(s[1], Tail(s))
      BY DEF ByteReader
    <3>3. \A s \in Bytes : s # <<>> => Got(s[1], Tail(s)) # Thrown
      BY GotIsApart
    <3>4. \A x, y, r, t : Got(x, r) = Got(y, t) => x = y /\ r = t
      BY DEF Got
    <3>5. \A r \in Bytes : Q[r] = TakeBytes(r, b)
      BY DEF TakeReader
    <3>6. \A r : Got(b, r) # Thrown
      BY GotIsApart
    <3> HIDE DEF Q, b
    <3>. QED BY <3>1, <3>2, <3>3, <3>4, <3>5, <3>6 DEF GoesOn
  <2>5. Len(Join(<<b>>, v)) >= 1
    <3>1. <<b>> \in Bytes /\ Len(<<b>>) = 1
      BY <2>1, MagnitudeOne DEF Bytes
    <3>2. Len(Join(<<b>>, v)) = Len(<<b>>) + Len(v)
      BY <1>0, <3>1, JoinLength
    <3>. QED BY <1>0, <3>1, <3>2
  <2> HIDE DEF b, Q
  <2>. QED BY <2>2, <2>3, <2>4, <2>5, Sequel
<1>3. CASE f.kind = "array"
  <2> DEFINE n == Len(v)
             Q == TakeReader(n)
  <2>1. n \in Nat /\ n < Power[LengthSize] \div 2 /\ n * 1 <= Len(v) /\ 1 \in Nat
    BY <1>0, <1>3 DEF FieldFits, Half
  <2>2. Leads(Q, v, v)
    BY <1>0, TakeLeads
  <2>3. WriteField(f, v) = Join(writeLength(n), v)
    BY <1>3 DEF WriteField, writeArray, Join
  <2>4. \A s \in Bytes : readLength(1, s) = Thrown => FieldReader(f)[s] = Thrown
    BY <1>3 DEF FieldReader, ReadField, readArray, Then
  <2>5. \A s, rest \in Bytes : readLength(1, s) = Got(n, rest) => FieldReader(f)[s] = Q[rest]
    <3> SUFFICES ASSUME NEW s \in Bytes, NEW rest \in Bytes, readLength(1, s) = Got(n, rest)
                 PROVE  FieldReader(f)[s] = Q[rest]
      OBVIOUS
    <3>1. FieldReader(f)[s] = TakeBytes(rest, n)
      BY <1>3, GotIsApart DEF FieldReader, ReadField, readArray, Then
    <3>. QED BY <3>1 DEF TakeReader
  <2> DEFINE T == FieldReader(f)
  <2>6. Len(Join(writeLength(n), v)) >= 1
    <3>1. writeLength(n) \in Bytes /\ Len(writeLength(n)) = LengthSize
      BY <2>1, Limits, FixedFacts DEF writeLength, Bytes
    <3>2. Len(Join(writeLength(n), v)) = LengthSize + Len(v)
      BY <1>0, <3>1, JoinLength
    <3>. QED BY <1>0, <3>2, Limits
  <2> HIDE DEF n, Q, T
  <2>7. Leads(T, Join(writeLength(n), v), v)
    BY <2>1, <2>2, <2>4, <2>5, CountedLeads DEF T
  <2>. QED BY <2>3, <2>6, <2>7 DEF T
<1>. QED BY <1>1, <1>2, <1>3

\* Parts of some length are together no shorter than they are many.
LEMMA FlatLength ==
  ASSUME NEW size \in Nat, NEW ws \in Seq(Bytes), \A i \in 1..Len(ws) : Len(ws[i]) >= size
  PROVE  FlattenSeq(ws) \in Bytes /\ Len(FlattenSeq(ws)) >= Len(ws) * size
<1> DEFINE Wide(t) == \A i \in 1..Len(t) : Len(t[i]) >= size
           T == {n \in Nat : \A t \in Seq(Bytes) : Len(t) = n /\ Wide(t) => Len(FlattenSeq(t)) >= n * size}
<1>1. 0 \in T
  <2> SUFFICES ASSUME NEW t \in Seq(Bytes), Len(t) = 0 PROVE Len(FlattenSeq(t)) >= 0 * size
    OBVIOUS
  <2>1. t = <<>>
    BY EmptySeq
  <2>2. FlattenSeq(t) = <<>>
    BY <2>1, FlattenNext
  <2>. QED BY <2>2
<1>2. ASSUME NEW n \in T PROVE n + 1 \in T
  <2> SUFFICES ASSUME NEW t \in Seq(Bytes), Len(t) = n + 1, Wide(t) PROVE Len(FlattenSeq(t)) >= (n + 1) * size
    OBVIOUS
  <2>0. n \in Nat
    OBVIOUS
  <2>1. t # <<>>
    BY <2>0, EmptySeq
  <2>2. PICK g \in Seq(Bytes), w \in Bytes : t = Append(g, w)
    BY <2>1, SequenceEmptyOrAppend
  <2>3. Len(g) = n /\ t[n + 1] = w /\ \A i \in 1..n : t[i] = g[i]
    BY <2>0, <2>2, AppendProperties, LenProperties
  <2>4. Wide(g) /\ Len(w) >= size
    BY <2>0, <2>3
  <2>5. FlattenSeq(t) = Join(FlattenSeq(g), w) /\ FlattenSeq(g) \in Bytes
    BY <2>2, FlattenNext DEF Join, Bytes
  <2>6. Len(FlattenSeq(g)) >= n * size
    BY <2>3, <2>4
  <2>7. Len(FlattenSeq(t)) = Len(FlattenSeq(g)) + Len(w) /\ Len(FlattenSeq(g)) \in Nat /\ Len(w) \in Nat
    BY <2>5, JoinLength
  <2>8. (n + 1) * size = n * size + size /\ n * size \in Nat
    BY <2>0
  <2> HIDE DEF T, Wide
  <2>. QED BY <2>4, <2>6, <2>7, <2>8
<1>3. T = Nat
  <2>0. T \in SUBSET Nat
    OBVIOUS
  <2> HIDE DEF T
  <2>. QED BY <2>0, <1>1, <1>2, SetInduction
<1>4. Len(ws) \in Nat /\ FlattenSeq(ws) \in Bytes
  BY LenProperties, FlattenNext DEF Bytes
<1>. QED BY <1>3, <1>4

\* Repeating gives a list of one value.
LEMMA Repeated ==
  ASSUME NEW x, NEW n \in Nat
  PROVE  DOMAIN Repeat(x, n) = 1..n /\ Len(Repeat(x, n)) = n /\ \A i \in 1..n : Repeat(x, n)[i] = x
BY ListedIs DEF Listed, Repeat

\* The same reader n times.
Often(R, n) == [i \in 1..n |-> R]

\* Lists of wide natural numbers come back.
LEMMA NumbersFieldLeads ==
  ASSUME ThrownIsNoRecord, NEW f, NEW v, FieldFits(f, v), f.kind = "u64s"
  PROVE  Leads(FieldReader(f), WriteField(f, v), v) /\ Len(WriteField(f, v)) >= 1
<1>1. v \in Seq(Nat) /\ Len(v) < Half /\ \A i \in 1..Len(v) : v[i] < Power[LongSize]
  BY DEF FieldFits
<1> DEFINE n == Len(v)
           ws == [i \in 1..n |-> writeFixed(v[i], LongSize)]
           read == [i \in 1..n |-> [left \in Seq(Nat) |-> readUnsigned(0, left)]]
           x == FlattenSeq(ws)
           Q == Reads(read, n)
<1>2. n \in Nat /\ Listed(v, n) /\ DOMAIN v = 1..n /\ \A i \in 1..n : v[i] \in Nat
  BY <1>1, SeqListed, LenProperties
<1> HIDE DEF n
<1>3. \A i \in 1..n : Leads(read[i], ws[i], v[i]) /\ Len(ws[i]) >= LongSize
  <2> SUFFICES ASSUME NEW i \in 1..n PROVE Leads(read[i], ws[i], v[i]) /\ Len(ws[i]) >= LongSize
    OBVIOUS
  <2>1. Leads(NaturalReader(LongSize), Fixed(v[i], LongSize), v[i]) /\ Len(Fixed(v[i], LongSize)) = LongSize
    BY <1>1, <1>2, Limits, NaturalLeads DEF n
  <2>2. \A s \in Bytes : read[i][s] = NaturalReader(LongSize)[s]
    BY BytesAreNumbers DEF readUnsigned, readU64, NaturalReader
  <2>3. ws[i] = Fixed(v[i], LongSize)
    BY DEF writeFixed
  <2> HIDE DEF read, ws
  <2>. QED BY <2>1, <2>2, <2>3, SameReader, Limits
<1>4. Listed(ws, n)
  BY DEF Listed
<1> HIDE DEF ws, read
<1>5. Leads(Q, x, v)
  BY <1>2, <1>3, <1>4, AnyInStep
<1>6. n * LongSize <= Len(x) /\ x \in Bytes
  <2>1. ws \in Seq(Bytes) /\ Len(ws) = n
    BY <1>3, <1>2, <1>4, ListedIs DEF Leads
  <2>2. LongSize \in Nat
    BY Limits
  <2>. QED BY <1>3, <2>1, <2>2, FlatLength
<1>7. WriteField(f, v) = Join(writeLength(n), x)
  BY <1>2 DEF WriteField, Join, n, ws
<1>8. \A r : ReadEach(readUnsigned, Repeat(0, n), r) = ReadAll(read, n, r)
  <2>1. DOMAIN Repeat(0, n) = 1..n /\ Len(Repeat(0, n)) = n /\ \A i \in 1..n : Repeat(0, n)[i] = 0
    BY <1>2, Repeated
  <2>2. [i \in DOMAIN Repeat(0, n) |-> [left \in Seq(Nat) |-> readUnsigned(Repeat(0, n)[i], left)]] = read
    BY <2>1 DEF read
  <2>. QED BY <2>1, <2>2 DEF ReadEach
<1> DEFINE T == FieldReader(f)
<1>9. \A s \in Bytes : readLength(LongSize, s) = Thrown => T[s] = Thrown
  BY DEF FieldReader, ReadField, Then
<1>10. \A s, rest \in Bytes : readLength(LongSize, s) = Got(n, rest) => T[s] = Q[rest]
  <2> SUFFICES ASSUME NEW s \in Bytes, NEW rest \in Bytes, readLength(LongSize, s) = Got(n, rest)
               PROVE  T[s] = Q[rest]
    OBVIOUS
  <2>1. T[s] = ReadEach(readUnsigned, Repeat(0, n), rest)
    BY GotIsApart DEF FieldReader, ReadField, Then
  <2>. QED BY <1>8, <2>1 DEF Reads
<1> HIDE DEF x, Q, T
<1>11. Leads(T, Join(writeLength(n), x), v)
  <2>1. n < Power[LengthSize] \div 2 /\ LongSize \in Nat
    BY <1>1, Limits DEF n, Half
  <2>. QED BY <1>2, <1>5, <1>6, <1>9, <1>10, <2>1, CountedLeads, SMTT(30)
<1>12. Len(Join(writeLength(n), x)) >= 1
  <2>1. writeLength(n) \in Bytes /\ Len(writeLength(n)) = LengthSize
    BY <1>2, Limits, FixedFacts DEF writeLength, Bytes
  <2>2. Len(Join(writeLength(n), x)) = LengthSize + Len(x) /\ Len(x) \in Nat
    BY <1>6, <2>1, JoinLength
  <2>. QED BY <2>2, Limits
<1>. QED BY <1>7, <1>11, <1>12 DEF T

-----------------------------------------------------------------------------
(* Arguments of calls.                                                     *)

\* How a section is written, and the reader of one.
SectionBytes(x) == IF x.registerOffset < 0 THEN writeLength(x.registerOffset) ELSE writeArray(x.args)
SectionReader == [left \in Seq(Nat) |-> readSection(0, left)]

\* Lengths of either sign come back.
LEMMA LengthLeads ==
  ASSUME NEW n \in Int, -Half <= n, n < Half
  PROVE  /\ Leads(SignedReader(LengthSize), writeLength(n), n)
         /\ writeLength(n) \in Bytes /\ Len(writeLength(n)) = LengthSize
BY Limits, SignedLeads DEF Half, writeLength, writeFixed, Leads

\* A section comes back.
LEMMA SectionLeads ==
  ASSUME ThrownIsNoRecord, NEW x \in Section, SectionFits(x)
  PROVE  Leads(SectionReader, SectionBytes(x), x)
<1>0. \A s \in Bytes : SectionReader[s] = readSection(0, s) /\ SignedReader(LengthSize)[s] = readFixed(LengthSize, s)
  BY BytesAreNumbers DEF SectionReader, SignedReader
<1>1. CASE x.registerOffset < 0
  <2>1. x.registerOffset \in Int /\ -Half <= x.registerOffset /\ x.registerOffset < Half /\ x.args = <<>>
    BY <1>1, Limits DEF SectionFits, Section
  <2>2. x = [registerOffset |-> x.registerOffset, args |-> <<>>]
    BY <2>1 DEF Section
  <2>3. Leads(SignedReader(LengthSize), writeLength(x.registerOffset), x.registerOffset)
    BY <2>1, LengthLeads
  <2>4. Turns(SectionReader, SignedReader(LengthSize), x.registerOffset, x)
    <3>1. \A s \in Bytes : readFixed(LengthSize, s) = Thrown => readSection(0, s) = Thrown
      BY DEF readSection, Then
    <3>2. \A s, rest \in Bytes : readFixed(LengthSize, s) = Got(x.registerOffset, rest) => readSection(0, s) = Got(x, rest)
      BY <1>1, <2>2, GotIsApart DEF readSection, Then, Mapped
    <3>. QED BY <1>0, <3>1, <3>2 DEF Turns
  <2>. QED BY <1>1, <2>3, <2>4, Turned DEF SectionBytes
<1>2. CASE x.registerOffset = 0
  <2> DEFINE n == Len(x.args)
             v == x.args
             P == [r \in Bytes |-> Mapped(TakeBytes(r, n), LAMBDA b : [registerOffset |-> 0, args |-> b])]
  <2>1. v \in Bytes /\ n \in Nat /\ -Half <= n /\ n < Half
    <3>1. v \in Seq(Byte) /\ n < Half
      BY <1>2, Limits DEF SectionFits, Section
    <3>2. n \in Nat
      BY <3>1, LenProperties
    <3> HIDE DEF v, n
    <3>. QED BY <3>1, <3>2, Limits DEF Bytes
  <2>2. x = [registerOffset |-> 0, args |-> v]
    BY <1>2 DEF Section
  <2>3. Leads(SignedReader(LengthSize), writeLength(n), n) /\ Leads(TakeReader(n), v, v)
    BY <2>1, LengthLeads, TakeLeads
  <2>4. Turns(P, TakeReader(n), v, x)
    <3> HIDE DEF v, n
    <3>. QED BY <2>2, GotIsApart DEF Turns, TakeReader, Mapped
  <2>5. GoesOn(SectionReader, SignedReader(LengthSize), n, P)
    <3> HIDE DEF v, n
    <3>1. \A s \in Bytes : readFixed(LengthSize, s) = Thrown => readSection(0, s) = Thrown
      BY DEF readSection, Then
    <3>2. \A s, rest \in Bytes : readFixed(LengthSize, s) = Got(n, rest) => readSection(0, s) = P[rest]
      <4>1. ~(n < 0)
        BY <2>1
      <4>. QED BY <4>1, GotIsApart DEF readSection, Then, Mapped
    <3> HIDE DEF P
    <3>. QED BY <1>0, <3>1, <3>2 DEF GoesOn
  <2>6. SectionBytes(x) = Join(writeLength(n), v)
    BY <1>2 DEF SectionBytes, writeArray, Join
  <2> HIDE DEF v, n, P
  <2>7. Leads(P, v, x)
    BY <2>3, <2>4, Turned
  <2>. QED BY <2>3, <2>5, <2>6, <2>7, Sequel
<1>. QED BY <1>1, <1>2 DEF SectionFits

\* Plain arguments come back.
LEMMA PlainArgsLead ==
  ASSUME ThrownIsNoRecord, NEW v \in Bytes, Len(v) < Half, NEW T,
         \A s \in Bytes : T[s] = TxMsgCall_readArgs(s)
  PROVE  Leads(T, TxMsgCall_writeArgs(Arguments(v)), Arguments(v)) /\ Len(TxMsgCall_writeArgs(Arguments(v))) >= 1
<1> DEFINE n == Len(v)
           R == SignedReader(LengthSize)
           P == [r \in Bytes |-> Mapped(TakeBytes(r, n), Arguments)]
<1>1. n \in Nat /\ -Half <= n /\ n < Half
  BY JoinLength, Limits
<1> HIDE DEF n
<1>2. Leads(R, writeLength(n), n) /\ writeLength(n) \in Bytes /\ Len(writeLength(n)) = LengthSize
  BY <1>1, LengthLeads
<1>3. Leads(TakeReader(n), v, v)
  BY TakeLeads DEF n
<1>4. Turns(P, TakeReader(n), v, Arguments(v))
  BY GotIsApart DEF Turns, TakeReader, Mapped
<1>5. GoesOn(T, R, n, P)
  <2>1. \A s \in Bytes : readFixed(LengthSize, s) = Thrown => TxMsgCall_readArgs(s) = Thrown
    BY DEF TxMsgCall_readArgs, Then
  <2>2. \A s, rest \in Bytes : readFixed(LengthSize, s) = Got(n, rest) => TxMsgCall_readArgs(s) = P[rest]
    <3>1. n >= 0
      BY <1>1
    <3>. QED BY <3>1, GotIsApart DEF TxMsgCall_readArgs, Then
  <2> HIDE DEF P
  <2>. QED BY <2>1, <2>2 DEF GoesOn, SignedReader
<1>6. TxMsgCall_writeArgs(Arguments(v)) = Join(writeLength(n), v)
  BY DEF TxMsgCall_writeArgs, Arguments, writeArray, Join, n
<1> HIDE DEF P, R
<1>7. Leads(P, v, Arguments(v))
  BY <1>3, <1>4, Turned
<1>8. Leads(T, Join(writeLength(n), v), Arguments(v))
  BY <1>2, <1>5, <1>7, Sequel
<1>9. Len(Join(writeLength(n), v)) >= 1
  BY <1>2, JoinLength, Limits
<1>. QED BY <1>6, <1>8, <1>9

\* Arguments in sections come back.
LEMMA SectionArgsLead ==
  ASSUME ThrownIsNoRecord, NEW sections \in Seq(Section), sections # <<>>, Len(sections) <= Half,
         \A i \in 1..Len(sections) : SectionFits(sections[i]), NEW T,
         \A s \in Bytes : T[s] = TxMsgCall_readArgs(s)
  PROVE  LET a == Sections(sections) IN
         Leads(T, TxMsgCall_writeArgs(a), a) /\ Len(TxMsgCall_writeArgs(a)) >= 1
<1> DEFINE a == Sections(sections)
           n == Len(sections)
           R == SignedReader(LengthSize)
           ws == [i \in 1..n |-> SectionBytes(sections[i])]
           x == FlattenSeq(ws)
           read == Often(SectionReader, n)
           Q == Reads(read, n)
           P == [r \in Bytes |-> Mapped(readWithCount(-n, r), Sections)]
<1>1. n \in Nat /\ n > 0 /\ Listed(sections, n) /\ DOMAIN sections = 1..n /\ \A i \in 1..n : sections[i] \in Section
  BY SeqListed, EmptySeq, LenProperties
<1>2. -n \in Int /\ -Half <= -n /\ -n < Half /\ -n < 0 /\ -(-n) = n
  <2>1. PICK m \in Nat, h \in Nat : m = n /\ h = Half /\ m > 0 /\ m <= h
    BY <1>1, Limits
  <2>2. -m \in Int /\ -h <= -m /\ -m < h /\ -m < 0 /\ -(-m) = m
    BY <2>1
  <2> HIDE DEF n
  <2>. QED BY <2>1, <2>2, SMTT(30)
<1>3. TxMsgCall_writeArgs(a) = Join(writeLength(-n), x)
  BY <1>1 DEF Sections, SectionBytes, TxMsgCall_writeArgs, MsgCallArgSections_write, Join
<1>4. \A i \in 1..n : SectionFits(sections[i])
  OBVIOUS
<1> HIDE DEF n
<1>5. \A i \in 1..n : Leads(read[i], ws[i], sections[i])
  <2> SUFFICES ASSUME NEW i \in 1..n PROVE Leads(read[i], ws[i], sections[i])
    OBVIOUS
  <2>1. Leads(SectionReader, SectionBytes(sections[i]), sections[i])
    BY <1>1, <1>4, SectionLeads
  <2>. QED BY <2>1 DEF Often
<1>6. Listed(ws, n)
  BY DEF Listed
<1> HIDE DEF ws, read
<1>7. Leads(Q, x, sections)
  BY <1>1, <1>5, <1>6, AnyInStep
<1>8. \A r : readWithCount(-n, r) = ReadAll(read, n, r)
  <2>1. DOMAIN Repeat(0, n) = 1..n /\ Len(Repeat(0, n)) = n /\ \A i \in 1..n : Repeat(0, n)[i] = 0
    BY <1>1, Repeated
  <2>2. [i \in DOMAIN Repeat(0, n) |-> [left \in Seq(Nat) |-> readSection(Repeat(0, n)[i], left)]] = read
    BY <2>1 DEF SectionReader, read, Often
  <2>. QED BY <1>2, <2>1, <2>2 DEF ReadEach, readWithCount
<1>9. Turns(P, Q, sections, a)
  <2>1. \A r \in Bytes : Q[r] = readWithCount(-n, r)
    BY <1>8 DEF Reads
  <2> HIDE DEF Q
  <2>. QED BY <2>1, GotIsApart DEF Turns, Mapped
<1>10. GoesOn(T, R, -n, P)
  <2>1. \A s \in Bytes : readFixed(LengthSize, s) = Thrown => TxMsgCall_readArgs(s) = Thrown
    BY DEF TxMsgCall_readArgs, Then
  <2>2. \A s, rest \in Bytes : readFixed(LengthSize, s) = Got(-n, rest) => TxMsgCall_readArgs(s) = P[rest]
    <3>1. ~(-n >= 0)
      BY <1>1
    <3>. QED BY <3>1, GotIsApart DEF TxMsgCall_readArgs, Then
  <2> HIDE DEF P
  <2>. QED BY <2>1, <2>2 DEF GoesOn, SignedReader
<1>11. Leads(R, writeLength(-n), -n) /\ writeLength(-n) \in Bytes /\ Len(writeLength(-n)) = LengthSize
  BY <1>2, LengthLeads
<1> HIDE DEF P, R, Q, x, a
<1>12. Leads(P, x, a)
  BY <1>7, <1>9, Turned
<1>13. Leads(T, Join(writeLength(-n), x), a)
  BY <1>10, <1>11, <1>12, Sequel
<1>14. Len(Join(writeLength(-n), x)) >= 1
  BY <1>12, <1>11, JoinLength, Limits DEF Leads
<1>. QED BY <1>3, <1>13, <1>14 DEF a

\* Every field comes back.
LEMMA FieldLeads ==
  ASSUME ThrownIsNoRecord, NEW f, NEW v, FieldFits(f, v)
  PROVE  Leads(FieldReader(f), WriteField(f, v), v) /\ Len(WriteField(f, v)) >= 1
<1>1. CASE f.kind = "args"
  <2>1. \A s \in Bytes : FieldReader(f)[s] = TxMsgCall_readArgs(s)
    BY <1>1 DEF FieldReader, ReadField
  <2>2. WriteField(f, v) = TxMsgCall_writeArgs(v)
    BY <1>1 DEF WriteField
  <2>3. ArgsFit(v)
    BY <1>1 DEF FieldFits
  <2> DEFINE T == FieldReader(f)
  <2> HIDE DEF T
  <2>4. ASSUME NEW bytes \in Seq(Byte), v = Arguments(bytes), Len(bytes) < Half
        PROVE  Leads(T, TxMsgCall_writeArgs(v), v) /\ Len(TxMsgCall_writeArgs(v)) >= 1
    BY <2>1, <2>4, PlainArgsLead DEF T, Bytes
  <2>5. ASSUME NEW sections \in Seq(Section), v = Sections(sections), sections # <<>>, Len(sections) <= Half,
               \A i \in 1..Len(sections) : SectionFits(sections[i])
        PROVE  Leads(T, TxMsgCall_writeArgs(v), v) /\ Len(TxMsgCall_writeArgs(v)) >= 1
    BY <2>1, <2>5, SectionArgsLead DEF T
  <2>. QED BY <2>2, <2>3, <2>4, <2>5 DEF ArgsFit, T
<1>2. CASE f.kind # "args"
  BY <1>2, NumberFieldLeads, ByteFieldLeads, NumbersFieldLeads DEF FieldFits
<1>. QED BY <1>1, <1>2

-----------------------------------------------------------------------------
(* Blobs.                                                                  *)

\* A layout has fields, in a list.
Laid(layout) == Len(layout) \in Nat /\ Len(layout) >= 1 /\ DOMAIN layout = 1..Len(layout)
\* The fields of a blob, and nothing else of it.
NamesOf(layout) == {layout[i].name : i \in DOMAIN layout}
Part(layout, blob) == [name \in NamesOf(layout) |-> blob[name]]

\* Where a name is in a layout.
PlaceOf(layout, name) == CHOOSE i \in DOMAIN layout : layout[i].name = name
\* The blob of what a reader gives.
BlobFrom(layout, r) == IF r = Thrown THEN Thrown ELSE Got(BlobOf(layout, r.v), r.rest)

\* A blob comes back when its fields do.
LEMMA LayoutLeads ==
  ASSUME ThrownIsNoRecord, NEW layout, Laid(layout), NEW blob,
         NEW ws, Listed(ws, Len(layout)), NEW read, NEW T,
         \A i \in 1..Len(layout) : Leads(read[i], ws[i], blob[layout[i].name]) /\ Len(ws[i]) >= 1,
         \A s \in Bytes : T[s] = BlobFrom(layout, ReadAll(read, Len(layout), s))
  PROVE  Leads(T, FlattenSeq(ws), Part(layout, blob)) /\ FlattenSeq(ws) \in Bytes /\ Len(FlattenSeq(ws)) >= 1
<1> DEFINE n == Len(layout)
           vs == [i \in 1..n |-> blob[layout[i].name]]
           Q == Reads(read, n)
<1>1. n \in Nat /\ n >= 1 /\ DOMAIN layout = 1..n
  BY DEF Laid
<1> HIDE DEF n
<1>2. Listed(vs, n) /\ \A i \in 1..n : vs[i] = blob[layout[i].name]
  BY DEF Listed
<1>3. BlobOf(layout, vs) = Part(layout, blob)
  <2>1. ASSUME NEW name \in NamesOf(layout)
        PROVE  vs[PlaceOf(layout, name)] = blob[name]
    <3>1. \E i \in DOMAIN layout : layout[i].name = name
      BY DEF NamesOf
    <3>2. PICK i \in DOMAIN layout : layout[i].name = name /\ i = PlaceOf(layout, name)
      BY <3>1 DEF PlaceOf
    <3> HIDE DEF vs
    <3>. QED BY <1>1, <1>2, <3>2
  <2> HIDE DEF vs
  <2>2. BlobOf(layout, vs) = [name \in NamesOf(layout) |-> vs[PlaceOf(layout, name)]]
    BY Zenon DEF BlobOf, PlaceOf, NamesOf
  <2>. QED BY <2>1, <2>2 DEF Part
<1> HIDE DEF vs
<1>4. Leads(Q, FlattenSeq(ws), vs)
  BY <1>1, <1>2, AnyInStep DEF n
<1>5. Turns(T, Q, vs, Part(layout, blob))
  <2>1. \A s \in Bytes : T[s] = IF Q[s] = Thrown THEN Thrown ELSE Got(BlobOf(layout, Q[s].v), Q[s].rest)
    BY DEF Reads, BlobFrom, n
  <2> HIDE DEF Q
  <2>. QED BY <1>3, <2>1, GotIsApart DEF Turns
<1> HIDE DEF Q
<1>6. Leads(T, FlattenSeq(ws), Part(layout, blob))
  BY <1>4, <1>5, Turned
<1>7. FlattenSeq(ws) \in Bytes /\ Len(FlattenSeq(ws)) >= n * 1
  <2>1. \A i \in 1..n : ws[i] \in Bytes /\ Len(ws[i]) >= 1
    BY DEF Leads, n
  <2>2. ws \in Seq(Bytes) /\ Len(ws) = n
    BY <1>1, <2>1, ListedIs DEF n
  <2>3. 1 \in Nat
    OBVIOUS
  <2>. QED BY <2>1, <2>2, <2>3, FlatLength
<1>8. Len(FlattenSeq(ws)) \in Nat
  BY <1>7, JoinLength
<1>. QED BY <1>1, <1>6, <1>7, <1>8

\* The reader of flat blobs.
FlatReader(layout) == [s \in Bytes |-> ReadFlat(layout, s)]
\* The fields of a flat blob fit the wire.
FlatFits(layout, blob) ==
    Laid(layout) /\ blob = Part(layout, blob) /\ \A i \in 1..Len(layout) : FieldFits(layout[i], blob[layout[i].name])

\* Flat blobs come back.
LEMMA FlatLeads ==
  ASSUME ThrownIsNoRecord, NEW layout, NEW blob, FlatFits(layout, blob)
  PROVE  /\ Leads(FlatReader(layout), WriteFlat(layout, blob), blob)
         /\ WriteFlat(layout, blob) \in Bytes /\ Len(WriteFlat(layout, blob)) >= 1
<1> DEFINE n == Len(layout)
           ws == [i \in 1..n |-> WriteField(layout[i], blob[layout[i].name])]
           read == [i \in 1..n |-> [left \in Seq(Nat) |-> ReadField(layout[i], left)]]
           T == FlatReader(layout)
<1>1. Laid(layout) /\ blob = Part(layout, blob) /\ DOMAIN layout = 1..n
  BY DEF FlatFits, Laid
<1>2. Listed(ws, n)
  BY DEF Listed
<1>3. \A i \in 1..n : Leads(read[i], ws[i], blob[layout[i].name]) /\ Len(ws[i]) >= 1
  <2> SUFFICES ASSUME NEW i \in 1..n PROVE Leads(read[i], ws[i], blob[layout[i].name]) /\ Len(ws[i]) >= 1
    OBVIOUS
  <2> DEFINE f == layout[i]
             v == blob[layout[i].name]
  <2>1. FieldFits(f, v)
    BY DEF FlatFits
  <2>2. ws[i] = WriteField(f, v) /\ \A s \in Bytes : read[i][s] = FieldReader(f)[s]
    BY BytesAreNumbers DEF FieldReader
  <2> HIDE DEF f, v, read, ws
  <2>3. Leads(FieldReader(f), WriteField(f, v), v) /\ Len(WriteField(f, v)) >= 1
    BY <2>1, FieldLeads
  <2>4. Leads(read[i], ws[i], v) /\ Len(ws[i]) >= 1
    BY <2>2, <2>3, SameReader
  <2>. QED BY <2>4 DEF v
<1>4. \A s \in Bytes : T[s] = BlobFrom(layout, ReadAll(read, n, s))
  BY <1>1 DEF FlatReader, ReadFlat, ReadEach, Mapped, BlobFrom
<1>5. WriteFlat(layout, blob) = FlattenSeq(ws)
  BY <1>1 DEF WriteFlat
<1> HIDE DEF read, ws, T
<1>6. Leads(T, FlattenSeq(ws), Part(layout, blob)) /\ FlattenSeq(ws) \in Bytes /\ Len(FlattenSeq(ws)) >= 1
  BY <1>1, <1>2, <1>3, <1>4, LayoutLeads, ZenonT(60)
<1>. QED BY <1>1, <1>5, <1>6 DEF T

\* The reader of lists of flat blobs.
BlobsReader(layout) == [s \in Bytes |-> readArrayBlob(layout, s)]
\* A list of flat blobs that fits the wire.
BlobsFit(layout, blobs) ==
    /\ Laid(layout) /\ Len(blobs) \in Nat /\ Len(blobs) < Half /\ Listed(blobs, Len(blobs))
    /\ \A i \in 1..Len(blobs) : FlatFits(layout, blobs[i])

\* Lists of flat blobs come back.
LEMMA BlobsLead ==
  ASSUME ThrownIsNoRecord, NEW layout, NEW blobs, BlobsFit(layout, blobs)
  PROVE  /\ Leads(BlobsReader(layout), writeArrayBlob(layout, blobs), blobs)
         /\ writeArrayBlob(layout, blobs) \in Bytes /\ Len(writeArrayBlob(layout, blobs)) >= 1
<1> DEFINE n == Len(blobs)
           ws == [i \in 1..n |-> WriteFlat(layout, blobs[i])]
           read == [i \in 1..n |-> [left \in Seq(Nat) |-> ReadFlat(layout, left)]]
           x == FlattenSeq(ws)
           Q == Reads(read, n)
           T == BlobsReader(layout)
<1>1. n \in Nat /\ n < Half /\ Listed(blobs, n)
  BY DEF BlobsFit
<1>2. DOMAIN blobs = 1..n
  BY <1>1, ListedIs
<1>3. \A i \in 1..n : FlatFits(layout, blobs[i])
  BY DEF BlobsFit
<1> HIDE DEF n
<1>4. \A i \in 1..n : Leads(read[i], ws[i], blobs[i]) /\ ws[i] \in Bytes /\ Len(ws[i]) >= 1
  <2> SUFFICES ASSUME NEW i \in 1..n PROVE Leads(read[i], ws[i], blobs[i]) /\ ws[i] \in Bytes /\ Len(ws[i]) >= 1
    OBVIOUS
  <2>1. ws[i] = WriteFlat(layout, blobs[i]) /\ \A s \in Bytes : read[i][s] = FlatReader(layout)[s]
    BY BytesAreNumbers DEF FlatReader
  <2> DEFINE w == WriteFlat(layout, blobs[i])
  <2>2. Leads(FlatReader(layout), w, blobs[i]) /\ w \in Bytes /\ Len(w) >= 1
    BY <1>3, FlatLeads
  <2> HIDE DEF w, ws, read
  <2>3. Leads(read[i], w, blobs[i])
    BY <2>1, <2>2, SameReader
  <2>. QED BY <2>1, <2>2, <2>3 DEF w
<1>5. Listed(ws, n)
  BY DEF Listed
<1>6. \A r : ReadEach(ReadFlat, Repeat(layout, n), r) = ReadAll(read, n, r)
  <2>1. DOMAIN Repeat(layout, n) = 1..n /\ Len(Repeat(layout, n)) = n /\ \A i \in 1..n : Repeat(layout, n)[i] = layout
    BY <1>1, Repeated
  <2>2. [i \in DOMAIN Repeat(layout, n) |-> [left \in Seq(Nat) |-> ReadFlat(Repeat(layout, n)[i], left)]] = read
    BY <2>1
  <2>. QED BY <2>1, <2>2 DEF ReadEach
<1>7. writeArrayBlob(layout, blobs) = Join(writeLength(n), x)
  BY <1>2 DEF writeArrayBlob, Join, n
<1> HIDE DEF ws, read
<1>8. Leads(Q, x, blobs)
  BY <1>1, <1>4, <1>5, AnyInStep
<1>9. n * 1 <= Len(x) /\ x \in Bytes
  BY <1>1, <1>4, <1>5, ListedIs, FlatLength
<1>10. \A s \in Bytes : readLength(1, s) = Thrown => T[s] = Thrown
  BY DEF BlobsReader, readArrayBlob, Then
<1>11. \A s, rest \in Bytes : readLength(1, s) = Got(n, rest) => T[s] = Q[rest]
  <2> SUFFICES ASSUME NEW s \in Bytes, NEW rest \in Bytes, readLength(1, s) = Got(n, rest)
               PROVE  T[s] = Q[rest]
    OBVIOUS
  <2>1. T[s] = ReadEach(ReadFlat, Repeat(layout, n), rest)
    BY GotIsApart DEF BlobsReader, readArrayBlob, Then
  <2>. QED BY <1>6, <2>1 DEF Reads
<1> HIDE DEF x, Q, T
<1>12. Leads(T, Join(writeLength(n), x), blobs)
  BY <1>1, <1>8, <1>9, <1>10, <1>11, CountedLeads DEF Half
<1>13. Join(writeLength(n), x) \in Bytes /\ Len(Join(writeLength(n), x)) >= 1
  <2>1. writeLength(n) \in Bytes /\ Len(writeLength(n)) = LengthSize
    BY <1>1, Limits, FixedFacts DEF writeLength, Bytes
  <2>2. Len(Join(writeLength(n), x)) = LengthSize + Len(x) /\ Len(x) \in Nat
    BY <1>9, <2>1, JoinLength
  <2>. QED BY <1>9, <2>1, <2>2, Limits, JoinAgain
<1>. QED BY <1>7, <1>12, <1>13 DEF T

\* The reader of a field that may hold blobs.
MemberReader(f) == [s \in Bytes |-> ReadMember(f, s)]
\* What such a field holds fits the wire.
MemberFits(f, v) == IF f.kind = "blobs" THEN BlobsFit(f.of, v) ELSE FieldFits(f, v)

\* Such a field comes back.
LEMMA MemberLeads ==
  ASSUME ThrownIsNoRecord, NEW f, NEW v, MemberFits(f, v)
  PROVE  Leads(MemberReader(f), WriteMember(f, v), v) /\ Len(WriteMember(f, v)) >= 1
<1>1. CASE f.kind = "blobs"
  <2> DEFINE layout == f.of
  <2>1. BlobsFit(layout, v)
    BY <1>1 DEF MemberFits
  <2>2. WriteMember(f, v) = writeArrayBlob(layout, v) /\ \A s \in Bytes : MemberReader(f)[s] = BlobsReader(layout)[s]
    BY <1>1 DEF WriteMember, MemberReader, BlobsReader, ReadMember
  <2> HIDE DEF layout
  <2>. QED BY <2>1, <2>2, BlobsLead, SameReader
<1>2. CASE f.kind # "blobs"
  BY <1>2, FieldLeads, SameReader DEF MemberFits, WriteMember, MemberReader, FieldReader, ReadMember
<1>. QED BY <1>1, <1>2

\* The reader of blobs.
BlobReader(layout) == [s \in Bytes |-> ReadBlob(layout, s)]
\* The fields of a blob that the layout names fit the wire.
PartFits(layout, blob) == Laid(layout) /\ \A i \in 1..Len(layout) : MemberFits(layout[i], blob[layout[i].name])

\* What the layout names of a blob comes back.
LEMMA BlobLeads ==
  ASSUME ThrownIsNoRecord, NEW layout, NEW blob, PartFits(layout, blob)
  PROVE  /\ Leads(BlobReader(layout), WriteBlob(layout, blob), Part(layout, blob))
         /\ WriteBlob(layout, blob) \in Bytes /\ Len(WriteBlob(layout, blob)) >= 1
<1> DEFINE n == Len(layout)
           ws == [i \in 1..n |-> WriteMember(layout[i], blob[layout[i].name])]
           read == [i \in 1..n |-> [left \in Seq(Nat) |-> ReadMember(layout[i], left)]]
           T == BlobReader(layout)
<1>1. Laid(layout) /\ DOMAIN layout = 1..n
  BY DEF PartFits, Laid
<1>2. Listed(ws, n)
  BY DEF Listed
<1>3. \A i \in 1..n : Leads(read[i], ws[i], blob[layout[i].name]) /\ Len(ws[i]) >= 1
  <2> SUFFICES ASSUME NEW i \in 1..n PROVE Leads(read[i], ws[i], blob[layout[i].name]) /\ Len(ws[i]) >= 1
    OBVIOUS
  <2> DEFINE f == layout[i]
             v == blob[layout[i].name]
  <2>1. MemberFits(f, v)
    BY DEF PartFits
  <2>2. ws[i] = WriteMember(f, v) /\ \A s \in Bytes : read[i][s] = MemberReader(f)[s]
    BY BytesAreNumbers DEF MemberReader
  <2> HIDE DEF f, v, read, ws
  <2>3. Leads(MemberReader(f), WriteMember(f, v), v) /\ Len(WriteMember(f, v)) >= 1
    BY <2>1, MemberLeads
  <2>4. Leads(read[i], ws[i], v) /\ Len(ws[i]) >= 1
    BY <2>2, <2>3, SameReader
  <2>. QED BY <2>4 DEF v
<1>4. \A s \in Bytes : T[s] = BlobFrom(layout, ReadAll(read, n, s))
  BY <1>1 DEF BlobReader, ReadBlob, ReadEach, Mapped, BlobFrom
<1>5. WriteBlob(layout, blob) = FlattenSeq(ws)
  BY <1>1 DEF WriteBlob
<1> HIDE DEF read, ws, T
<1>6. Leads(T, FlattenSeq(ws), Part(layout, blob)) /\ FlattenSeq(ws) \in Bytes /\ Len(FlattenSeq(ws)) >= 1
  BY <1>1, <1>2, <1>3, <1>4, LayoutLeads, ZenonT(60)
<1>. QED BY <1>1, <1>5, <1>6 DEF T

-----------------------------------------------------------------------------
(* Messages.                                                               *)

\* Every layout is a list of fields.
LEMMA PayloadsLaid ==
  /\ DOMAIN TxTypes = 1..17 /\ Len(TxTypes) = 17 /\ DOMAIN Payloads = 1..17
  /\ \A i \in 1..17 : Laid(Payloads[i])
<1>1. DOMAIN TxTypes = 1..17 /\ Len(TxTypes) = 17
  BY DEF TxTypes
<1>2. DOMAIN Payloads = 1..17
  BY DEF Payloads
<1>3. /\ Laid(TxMsgCall) /\ Laid(TxMsgCallMulti) /\ Laid(TxMsgTrade) /\ Laid(TxMsgTransferFungible)
      /\ Laid(TxMsgTransferFungibleGasPayer) /\ Laid(TxMsgTransferNonFungibleSingle)
  BY DEF Laid, TxMsgCall, TxMsgCallMulti, TxMsgTrade, TxMsgTransferFungible, TxMsgTransferFungibleGasPayer,
         TxMsgTransferNonFungibleSingle
<1>4. /\ Laid(TxMsgTransferNonFungibleSingleGasPayer) /\ Laid(TxMsgTransferNonFungibleMulti)
      /\ Laid(TxMsgTransferNonFungibleMultiGasPayer) /\ Laid(TxMsgMintFungible) /\ Laid(TxMsgBurnFungible)
      /\ Laid(TxMsgBurnFungibleGasPayer)
  BY DEF Laid, TxMsgTransferNonFungibleSingleGasPayer, TxMsgTransferNonFungibleMulti,
         TxMsgTransferNonFungibleMultiGasPayer, TxMsgMintFungible, TxMsgBurnFungible, TxMsgBurnFungibleGasPayer
<1>5. /\ Laid(TxMsgMintNonFungible) /\ Laid(TxMsgBurnNonFungible) /\ Laid(TxMsgBurnNonFungibleGasPayer)
      /\ Laid(TxMsgPhantasma) /\ Laid(TxMsgPhantasmaRaw)
  BY DEF Laid, TxMsgMintNonFungible, TxMsgBurnNonFungible, TxMsgBurnNonFungibleGasPayer, TxMsgPhantasma,
         TxMsgPhantasmaRaw
<1>6. \A i \in 1..17 : Laid(Payloads[i])
  BY <1>3, <1>4, <1>5 DEF Payloads
<1>. QED BY <1>1, <1>2, <1>6

\* The names of what every message begins with.
LEMMA HeadNames ==
  Laid(TxMsgHead) /\ NamesOf(TxMsgHead) = {"expiry", "maxGas", "maxData", "gasFrom", "payload"}
<1>1. DOMAIN TxMsgHead = 1..5 /\ Len(TxMsgHead) = 5
  BY DEF TxMsgHead
<1>2. /\ TxMsgHead[1].name = "expiry" /\ TxMsgHead[2].name = "maxGas" /\ TxMsgHead[3].name = "maxData"
      /\ TxMsgHead[4].name = "gasFrom" /\ TxMsgHead[5].name = "payload"
  BY DEF TxMsgHead, I64, U64, Key, Short, Field
<1>3. \A i \in 1..5 : i = 1 \/ i = 2 \/ i = 3 \/ i = 4 \/ i = 5
  OBVIOUS
<1>. QED BY <1>1, <1>2, <1>3 DEF Laid, NamesOf

\* Every type has a code of its own, which is a byte.
LEMMA CodeIs ==
  ASSUME NEW i \in 1..17
  PROVE  CodeOf(TxTypes[i]) = i /\ i - 1 \in Byte
<1>1. \A j, k \in 1..17 : TxTypes[j] = TxTypes[k] => j = k
  BY DEF TxTypes
<1>2. CodeOf(TxTypes[i]) = i
  BY <1>1, PayloadsLaid DEF CodeOf
<1>3. i - 1 \in Byte
  BY PayloadsLaid, CodesAssumption, NumbersAssumption DEF Byte
<1>. QED BY <1>2, <1>3

\* A message whose fields fit the wire, and that has no others.
MsgFits(msg) ==
    LET layout == Payloads[CodeOf(msg.type)]
    IN /\ \E i \in 1..17 : msg.type = TxTypes[i]
       /\ msg = TxMsg(msg.type, msg, msg.msg) /\ PartFits(TxMsgHead, msg)
       /\ msg.msg = Part(layout, msg.msg) /\ PartFits(layout, msg.msg)

\* The reader of messages.
MsgReader == [s \in Bytes |-> TxMsg_read(s)]

\* Messages of all types come back, whatever follows them, and no beginning of one is read.
THEOREM MessagesSurvive ==
  ASSUME ThrownIsNoRecord, NEW msg, MsgFits(msg)
  PROVE  Leads(MsgReader, TxMsg_write(msg), msg) /\ TxMsg_write(msg) \in Bytes
<1>1. PICK c \in 1..17 : msg.type = TxTypes[c] /\ CodeOf(msg.type) = c /\ c - 1 \in Byte
  BY CodeIs DEF MsgFits
<1> DEFINE layout == Payloads[c]
           head == Part(TxMsgHead, msg)
           b == c - 1
           h == WriteBlob(TxMsgHead, msg)
           p == WriteBlob(layout, msg.msg)
           P2 == [r \in Bytes |-> Mapped(ReadBlob(layout, r), LAMBDA payload : TxMsg(TxTypes[c], head, payload))]
           P1 == [r \in Bytes |-> Then(ReadBlob(TxMsgHead, r), LAMBDA hd, rest :
                    Mapped(ReadBlob(layout, rest), LAMBDA payload : TxMsg(TxTypes[c], hd, payload)))]
<1>2. /\ msg = TxMsg(msg.type, msg, msg.msg) /\ PartFits(TxMsgHead, msg)
      /\ msg.msg = Part(layout, msg.msg) /\ PartFits(layout, msg.msg)
  BY <1>1 DEF MsgFits
<1>3. TxMsg(TxTypes[c], head, msg.msg) = msg
  <2>1. /\ head.expiry = msg.expiry /\ head.maxGas = msg.maxGas /\ head.maxData = msg.maxData
        /\ head.gasFrom = msg.gasFrom /\ head.payload = msg.payload
    BY HeadNames DEF Part
  <2> HIDE DEF head
  <2>2. TxMsg(msg.type, head, msg.msg) = TxMsg(msg.type, msg, msg.msg)
    BY <2>1 DEF TxMsg
  <2>. QED BY <1>1, <1>2, <2>2
<1>4. Leads(BlobReader(TxMsgHead), h, head) /\ h \in Bytes
  BY <1>2, BlobLeads
<1>5. Leads(BlobReader(layout), p, msg.msg) /\ p \in Bytes
  <2> HIDE DEF layout
  <2>. QED BY <1>2, BlobLeads
<1>6. Leads(ByteReader, <<b>>, b) /\ <<b>> \in Bytes
  BY <1>1, ByteLeads DEF Leads
<1>7. TxMsg_write(msg) = Join(<<b>>, Join(h, p))
  <2>1. TxMsg_write(msg) = Join(Join(<<b>>, h), p)
    BY <1>1 DEF TxMsg_write, Join
  <2> HIDE DEF b, h, p
  <2>. QED BY <2>1, <1>4, <1>5, <1>6, JoinAgain
<1> HIDE DEF h, p, head
<1>8. Turns(P2, BlobReader(layout), msg.msg, msg)
  BY <1>3, GotIsApart DEF Turns, BlobReader, Mapped
<1>9. GoesOn(P1, BlobReader(TxMsgHead), head, P2)
  BY GotIsApart DEF GoesOn, BlobReader, Then, Mapped
<1>10. GoesOn(MsgReader, ByteReader, b, P1)
  <2>0. \A s \in Bytes : /\ s = <<>> => ByteReader[s] = Thrown
                         /\ s # <<>> => ByteReader[s] = Got(s[1], Tail(s)) /\ ByteReader[s] # Thrown
    BY GotIsApart DEF ByteReader
  <2>1. \A s \in Bytes : ByteReader[s] = Thrown => MsgReader[s] = Thrown
    <3>1. \A s \in Bytes : s = <<>> => MsgReader[s] = Thrown
      BY DEF MsgReader, TxMsg_read
    <3> HIDE DEF P1, P2, layout, b
    <3>. QED BY <2>0, <3>1
  <2>2. ASSUME NEW s \in Bytes, NEW rest \in Bytes, ByteReader[s] = Got(b, rest) PROVE MsgReader[s] = P1[rest]
    <3>1. s # <<>> /\ s[1] = b /\ Tail(s) = rest
      <4> HIDE DEF b, P1, P2, layout
      <4>1. Got(b, rest) # Thrown
        BY GotIsApart
      <4>2. s # <<>>
        BY <2>0, <2>2, <4>1
      <4>3. Got(s[1], Tail(s)) = Got(b, rest)
        BY <2>0, <2>2, <4>2
      <4>4. s[1] = b /\ Tail(s) = rest
        <5> DEFINE x == s[1]
                   t == Tail(s)
        <5>1. Got(x, t) = Got(b, rest)
          BY <4>3
        <5> HIDE DEF x, t
        <5>2. x = b /\ t = rest
          BY <5>1 DEF Got
        <5>. QED BY <5>2 DEF x, t
      <4>. QED BY <4>2, <4>4
    <3>2. s[1] + 1 = c /\ c \in DOMAIN Payloads
      BY <3>1, PayloadsLaid
    <3>. QED BY <3>1, <3>2 DEF MsgReader, TxMsg_read, Then, Mapped
  <2>. QED BY <2>1, <2>2 DEF GoesOn
<1> HIDE DEF b, layout, P1, P2
<1>11. Leads(P2, p, msg)
  BY <1>5, <1>8, Turned
<1>12. Leads(P1, Join(h, p), msg)
  BY <1>4, <1>9, <1>11, Sequel
<1>13. Leads(MsgReader, Join(<<b>>, Join(h, p)), msg)
  BY <1>6, <1>10, <1>12, Sequel
<1>14. Join(<<b>>, Join(h, p)) \in Bytes
  BY <1>4, <1>5, <1>6, JoinAgain
<1>. QED BY <1>7, <1>13, <1>14

-----------------------------------------------------------------------------
(* Lengths that do not depend on what is written.                          *)

\* Two parts of the same lengths are together of the same length.
LEMMA JoinSame ==
  ASSUME NEW s \in Bytes, NEW t \in Bytes, NEW u \in Bytes, NEW v \in Bytes, Len(s) = Len(u), Len(t) = Len(v)
  PROVE  Len(Join(s, t)) = Len(Join(u, v))
<1>1. Len(Join(s, t)) = Len(s) + Len(t)
  BY JoinLength
<1>2. Len(Join(u, v)) = Len(u) + Len(v)
  BY JoinLength
<1>. QED BY <1>1, <1>2

\* Parts of the same lengths are together of the same length.
LEMMA SameLengths ==
  ASSUME NEW n \in Nat, NEW ws, Listed(ws, n), NEW xs, Listed(xs, n),
         \A i \in 1..n : ws[i] \in Bytes /\ xs[i] \in Bytes /\ Len(ws[i]) = Len(xs[i])
  PROVE  Len(FlattenSeq(ws)) = Len(FlattenSeq(xs))
<1> DEFINE Same(s, t) == \A i \in 1..Len(s) : Len(s[i]) = Len(t[i])
           T == {m \in Nat : \A s, t \in Seq(Bytes) :
                               Len(s) = m /\ Len(t) = m /\ Same(s, t) => Len(FlattenSeq(s)) = Len(FlattenSeq(t))}
<1>1. 0 \in T
  <2> SUFFICES ASSUME NEW s \in Seq(Bytes), NEW t \in Seq(Bytes), Len(s) = 0, Len(t) = 0
               PROVE  Len(FlattenSeq(s)) = Len(FlattenSeq(t))
    OBVIOUS
  <2>1. s = <<>> /\ t = <<>>
    BY EmptySeq
  <2>. QED BY <2>1
<1>2. ASSUME NEW m \in T PROVE m + 1 \in T
  <2> SUFFICES ASSUME NEW s \in Seq(Bytes), NEW t \in Seq(Bytes), Len(s) = m + 1, Len(t) = m + 1, Same(s, t)
               PROVE  Len(FlattenSeq(s)) = Len(FlattenSeq(t))
    OBVIOUS
  <2>0. m \in Nat
    OBVIOUS
  <2>1. s # <<>> /\ t # <<>>
    BY <2>0, EmptySeq
  <2>2. PICK f \in Seq(Bytes), v \in Bytes : s = Append(f, v)
    BY <2>1, SequenceEmptyOrAppend
  <2>3. PICK g \in Seq(Bytes), w \in Bytes : t = Append(g, w)
    BY <2>1, SequenceEmptyOrAppend
  <2>4. Len(f) = m /\ s[m + 1] = v /\ \A i \in 1..m : s[i] = f[i]
    BY <2>0, <2>2, AppendProperties, LenProperties
  <2>5. Len(g) = m /\ t[m + 1] = w /\ \A i \in 1..m : t[i] = g[i]
    BY <2>0, <2>3, AppendProperties, LenProperties
  <2>6. Same(f, g) /\ Len(v) = Len(w)
    <3>1. m + 1 \in 1..(m + 1) /\ \A i \in 1..m : i \in 1..(m + 1)
      BY <2>0
    <3>2. \A i \in 1..(m + 1) : Len(s[i]) = Len(t[i])
      OBVIOUS
    <3>3. Len(v) = Len(w)
      BY <3>1, <3>2, <2>4, <2>5
    <3>4. \A i \in 1..m : Len(f[i]) = Len(g[i])
      BY <3>1, <3>2, <2>4, <2>5
    <3>. QED BY <3>3, <3>4, <2>4
  <2>7. Len(FlattenSeq(f)) = Len(FlattenSeq(g))
    BY <2>4, <2>5, <2>6
  <2>8. /\ FlattenSeq(s) = Join(FlattenSeq(f), v) /\ FlattenSeq(f) \in Bytes
        /\ FlattenSeq(t) = Join(FlattenSeq(g), w) /\ FlattenSeq(g) \in Bytes
    BY <2>2, <2>3, FlattenNext DEF Join, Bytes
  <2> HIDE DEF T, Same
  <2>. QED BY <2>6, <2>7, <2>8, JoinSame
<1>3. T = Nat
  <2>0. T \in SUBSET Nat
    OBVIOUS
  <2> HIDE DEF T
  <2>. QED BY <2>0, <1>1, <1>2, SetInduction
<1>4. ws \in Seq(Bytes) /\ Len(ws) = n /\ xs \in Seq(Bytes) /\ Len(xs) = n
  BY ListedIs
<1>5. Same(ws, xs)
  BY <1>4
<1> HIDE DEF Same
<1>. QED BY <1>3, <1>4, <1>5

\* A field of a fixed width has one length.
Steady(f) == f.kind \in {"byte", "u32", "u64", "i64", "key", "signature"}
\* It is as many bytes as its kind says.
LEMMA SteadyLength ==
  ASSUME NEW f, Steady(f), NEW v, NEW u, FieldFits(f, v), FieldFits(f, u)
  PROVE  Len(WriteField(f, v)) = Len(WriteField(f, u))
<1>1. \A size \in Nat, n \in Int : Len(Fixed(n, size)) = size
  BY FixedFacts
<1>2. CASE f.kind \in {"key", "signature"}
  BY <1>2 DEF FieldFits, WriteField
<1>3. CASE f.kind = "byte"
  BY <1>3, <1>1 DEF FieldFits, Byte, WriteField
<1>4. CASE f.kind \in {"u32", "u64", "i64"}
  <2>1. v \in Int /\ u \in Int
    BY <1>4 DEF FieldFits
  <2>. QED BY <1>1, <1>4, <2>1, Limits DEF WriteField, writeFixed
<1>. QED BY <1>2, <1>3, <1>4 DEF Steady

\* The length of a message does not depend on its limits.
LEMMA OfferLength ==
  ASSUME ThrownIsNoRecord, NEW msg, MsgFits(msg), NEW gas \in Nat, gas < Power[LongSize],
         NEW data \in Nat, data < Power[LongSize]
  PROVE  LET offered == [msg EXCEPT !.maxGas = gas, !.maxData = data]
         IN MsgFits(offered) /\ Len(TxMsg_write(offered)) = Len(TxMsg_write(msg))
<1> DEFINE offered == [msg EXCEPT !.maxGas = gas, !.maxData = data]
           layout == Payloads[CodeOf(msg.type)]
           H(m) == [i \in 1..5 |-> WriteMember(TxMsgHead[i], m[TxMsgHead[i].name])]
<1>1. /\ msg = TxMsg(msg.type, msg, msg.msg) /\ PartFits(TxMsgHead, msg)
      /\ msg.msg = Part(layout, msg.msg) /\ PartFits(layout, msg.msg)
  BY DEF MsgFits
<1>2. /\ offered.type = msg.type /\ offered.msg = msg.msg /\ offered.maxGas = gas
      /\ offered.expiry = msg.expiry /\ offered.maxData = data /\ offered.gasFrom = msg.gasFrom
      /\ offered.payload = msg.payload
      /\ offered = TxMsg(offered.type, offered, offered.msg)
  <2> DEFINE half == [msg EXCEPT !.maxGas = gas]
  <2>1. /\ half.type = msg.type /\ half.msg = msg.msg /\ half.maxGas = gas
        /\ half.expiry = msg.expiry /\ half.gasFrom = msg.gasFrom /\ half.payload = msg.payload
        /\ half = TxMsg(half.type, half, half.msg)
    BY <1>1 DEF TxMsg
  <2>2. offered = [half EXCEPT !.maxData = data]
    OBVIOUS
  <2> HIDE DEF half, offered
  <2>. QED BY <2>1, <2>2 DEF TxMsg
<1>3. /\ Len(TxMsgHead) = 5 /\ DOMAIN TxMsgHead = 1..5
      /\ \A i \in 1..5 : i = 1 \/ i = 2 \/ i = 3 \/ i = 4 \/ i = 5
      /\ TxMsgHead[1].name = "expiry" /\ TxMsgHead[2].name = "maxGas" /\ TxMsgHead[3].name = "maxData"
      /\ TxMsgHead[4].name = "gasFrom" /\ TxMsgHead[5].name = "payload"
      /\ TxMsgHead[2].kind = "u64" /\ TxMsgHead[3].kind = "u64"
  BY DEF TxMsgHead, I64, U64, Key, Short, Field
<1> HIDE DEF offered
<1>4. \A i \in 1..5 : i \notin {2, 3} => offered[TxMsgHead[i].name] = msg[TxMsgHead[i].name]
  BY <1>2, <1>3
<1>5. \A i \in {2, 3} : MemberFits(TxMsgHead[i], offered[TxMsgHead[i].name]) /\ Steady(TxMsgHead[i])
  BY <1>2, <1>3 DEF MemberFits, FieldFits, Steady
<1>6. PartFits(TxMsgHead, offered)
  BY <1>1, <1>2, <1>3, <1>4, <1>5 DEF PartFits
<1>7. MsgFits(offered)
  BY <1>1, <1>2, <1>6 DEF MsgFits
<1>8. WriteBlob(TxMsgHead, msg) = FlattenSeq(H(msg)) /\ WriteBlob(TxMsgHead, offered) = FlattenSeq(H(offered))
  BY <1>3 DEF WriteBlob
<1>9. \A i \in 1..5 : H(msg)[i] \in Bytes /\ H(offered)[i] \in Bytes /\ Len(H(msg)[i]) = Len(H(offered)[i])
  <2> SUFFICES ASSUME NEW i \in 1..5
               PROVE  H(msg)[i] \in Bytes /\ H(offered)[i] \in Bytes /\ Len(H(msg)[i]) = Len(H(offered)[i])
    OBVIOUS
  <2> DEFINE f == TxMsgHead[i]
             v == msg[TxMsgHead[i].name]
             u == offered[TxMsgHead[i].name]
  <2>1. MemberFits(f, v) /\ MemberFits(f, u)
    BY <1>1, <1>3, <1>6 DEF PartFits
  <2>2. H(msg)[i] = WriteMember(f, v) /\ H(offered)[i] = WriteMember(f, u)
    OBVIOUS
  <2>3. i \notin {2, 3} => v = u
    BY <1>4
  <2>4. i \in {2, 3} => Steady(f) /\ FieldFits(f, v) /\ FieldFits(f, u) /\ WriteMember(f, v) = WriteField(f, v) /\ WriteMember(f, u) = WriteField(f, u)
    BY <1>5, <2>1 DEF MemberFits, WriteMember, Steady
  <2> HIDE DEF f, v, u, H
  <2>5. WriteMember(f, v) \in Bytes /\ WriteMember(f, u) \in Bytes
    BY <2>1, MemberLeads DEF Leads
  <2>6. Len(WriteMember(f, v)) = Len(WriteMember(f, u))
    BY <2>3, <2>4, SteadyLength
  <2>. QED BY <2>2, <2>5, <2>6
<1>10. Listed(H(msg), 5) /\ Listed(H(offered), 5)
  BY DEF Listed
<1> HIDE DEF H
<1>11. Len(WriteBlob(TxMsgHead, msg)) = Len(WriteBlob(TxMsgHead, offered))
  BY <1>8, <1>9, <1>10, SameLengths, 5 \in Nat, SMTT(30)
<1>12. PICK c \in 1..17 : CodeOf(msg.type) = c /\ c - 1 \in Byte
  BY CodeIs DEF MsgFits
<1> DEFINE h == WriteBlob(TxMsgHead, msg)
           g == WriteBlob(TxMsgHead, offered)
           p == WriteBlob(layout, msg.msg)
           b == <<c - 1>>
<1>13. h \in Bytes /\ g \in Bytes /\ p \in Bytes
  <2> HIDE DEF layout
  <2>. QED BY <1>1, <1>6, BlobLeads
<1>14. b \in Bytes /\ Len(b) = 1
  BY <1>12, MagnitudeOne DEF Bytes
<1>15. TxMsg_write(msg) = Join(Join(b, h), p) /\ TxMsg_write(offered) = Join(Join(b, g), p)
  BY <1>2, <1>12 DEF TxMsg_write, Join
<1> HIDE DEF h, g, p, b
<1>16. Len(h) = Len(g)
  BY <1>11 DEF h, g
<1>17. Len(TxMsg_write(msg)) = Len(TxMsg_write(offered))
  <2>1. Join(b, h) \in Bytes /\ Join(b, g) \in Bytes
    BY <1>13, <1>14, JoinAgain
  <2>2. Len(Join(b, h)) = Len(Join(b, g))
    BY <1>13, <1>14, <1>16, JoinSame
  <2>3. Len(Join(Join(b, h), p)) = Len(Join(Join(b, g), p))
    BY <1>13, <2>1, <2>2, JoinSame
  <2>. QED BY <1>15, <2>3
<1>. QED BY <1>7, <1>17 DEF offered

-----------------------------------------------------------------------------
(* Envelopes.                                                              *)

\* Addresses, and signatures.
Accounts == {key \in Bytes : Len(key) = KeySize}
Signatures == {sig \in Bytes : Len(sig) = SignatureSize}

\* Witnesses that fit the wire.
WitnessFits(w) ==
    w = [address |-> w.address, signature |-> w.signature] /\ w.address \in Accounts /\ w.signature \in Signatures
WitnessesFit(ws) ==
    Len(ws) \in Nat /\ Len(ws) < Half /\ Listed(ws, Len(ws)) /\ \A i \in 1..Len(ws) : WitnessFits(ws[i])

\* No bytes, and no byte more.
LEMMA EmptyListed ==
  ASSUME NEW vs
  PROVE  Listed(vs, 0) <=> vs = <<>>
BY DEF Listed

\* One value is a list.
LEMMA SingleListed ==
  ASSUME NEW S, NEW a \in S
  PROVE  Listed(<<a>>, 1) /\ Len(<<a>>) = 1 /\ <<a>>[1] = a
<1>1. <<a>> \in Seq(S) /\ Len(<<a>>) = 1 /\ <<a>>[1] = a
  OBVIOUS
<1>2. \A vs \in Seq(S) : Listed(vs, Len(vs))
  BY SeqListed
<1>. QED BY <1>1, <1>2

\* A list is no throw.
LEMMA ListIsApart ==
  ASSUME ThrownIsNoRecord, NEW n \in Nat, NEW vs, Listed(vs, n)
  PROVE  vs # Thrown
<1>1. DOMAIN vs = 1..n
  BY ListedIs
<1>. QED BY <1>1 DEF ThrownIsNoRecord

\* Whole witnesses fit their layout.
LEMMA WholeWitness ==
  ASSUME NEW w, WitnessFits(w)
  PROVE  FlatFits(Witness, w)
<1>1. DOMAIN Witness = 1..2 /\ Len(Witness) = 2
  BY DEF Witness
<1>2. /\ Witness[1].name = "address" /\ Witness[1].kind = "key"
      /\ Witness[2].name = "signature" /\ Witness[2].kind = "signature"
      /\ \A i \in 1..2 : i = 1 \/ i = 2
  BY DEF Witness, Key, Sig, Field
<1>3. NamesOf(Witness) = {"address", "signature"}
  BY <1>1, <1>2 DEF NamesOf
<1>4. Part(Witness, w) = w
  <2>1. PICK a, s : a = w.address /\ s = w.signature /\ w = [address |-> a, signature |-> s]
    BY DEF WitnessFits
  <2>2. Part(Witness, w) = [name \in {"address", "signature"} |-> w[name]]
    BY <1>3 DEF Part
  <2>. QED BY <2>1, <2>2
<1>5. FieldFits(Witness[1], w.address) /\ FieldFits(Witness[2], w.signature)
  BY <1>2 DEF FieldFits, WitnessFits, Accounts, Signatures, Bytes
<1>. QED BY <1>1, <1>2, <1>4, <1>5 DEF FlatFits, Laid

\* The witnesses of bare signatures, whose addresses are known.
SlotOf(addresses, sigs) == [i \in DOMAIN addresses |-> [address |-> addresses[i], signature |-> sigs[i]]]
SlotsFrom(addresses, r) == IF r = Thrown THEN Thrown ELSE Got(SlotOf(addresses, r.v), r.rest)
SlotsReader(addresses) ==
    [s \in Bytes |-> SlotsFrom(addresses, ReadEach(ReadField, [i \in DOMAIN addresses |-> Sig("signature")], s))]

\* Bare signatures come back as the witnesses they are of.
LEMMA BareLead ==
  ASSUME ThrownIsNoRecord, NEW ws, WitnessesFit(ws)
  PROVE  Leads(SlotsReader(Addresses(ws)), Bare(ws), ws) /\ Bare(ws) \in Bytes
<1> DEFINE n == Len(ws)
           addresses == Addresses(ws)
           sigs == [i \in 1..n |-> ws[i].signature]
           read == [i \in 1..n |-> [left \in Seq(Nat) |-> ReadField(Sig("signature"), left)]]
           Q == Reads(read, n)
           T == SlotsReader(addresses)
<1>1. n \in Nat /\ Listed(ws, n) /\ DOMAIN ws = 1..n
  BY ListedIs DEF WitnessesFit
<1>2. \A i \in 1..n : WitnessFits(ws[i])
  BY DEF WitnessesFit
<1> HIDE DEF n
<1>3. \A i \in 1..n : Leads(read[i], sigs[i], sigs[i]) /\ sigs[i] \in Bytes
  <2> SUFFICES ASSUME NEW i \in 1..n PROVE Leads(read[i], sigs[i], sigs[i]) /\ sigs[i] \in Bytes
    OBVIOUS
  <2> DEFINE w == sigs[i]
             f == Sig("signature")
  <2>1. w \in Bytes /\ Len(w) = SignatureSize /\ f.kind = "signature"
    BY <1>2 DEF WitnessFits, Signatures, Sig, Field
  <2>2. \A s \in Bytes : read[i][s] = TakeReader(Len(w))[s]
    BY <2>1, BytesAreNumbers DEF ReadField, TakeReader
  <2> HIDE DEF w, f, read
  <2>3. Leads(read[i], w, w)
    BY <2>1, <2>2, TakeLeads, SameReader
  <2>. QED BY <2>1, <2>3 DEF w
<1>4. Listed(sigs, n)
  BY DEF Listed
<1>5. Bare(ws) = FlattenSeq(sigs)
  BY <1>1 DEF Bare
<1>6. DOMAIN addresses = 1..n /\ \A i \in 1..n : addresses[i] = ws[i].address
  BY <1>1 DEF Addresses
<1>7. SlotOf(addresses, sigs) = ws
  <2>1. \A i \in 1..n : [address |-> addresses[i], signature |-> sigs[i]] = ws[i]
    BY <1>2, <1>6 DEF WitnessFits
  <2> HIDE DEF addresses, sigs
  <2>. QED BY <1>1, <1>6, <2>1 DEF SlotOf, Listed
<1>8. \A s \in Bytes : T[s] = SlotsFrom(addresses, Q[s])
  <2>1. Listed([i \in 1..n |-> Sig("signature")], n)
    BY DEF Listed
  <2>2. Len([i \in 1..n |-> Sig("signature")]) = n /\ DOMAIN [i \in 1..n |-> Sig("signature")] = 1..n
    BY <1>1, <2>1, ListedIs
  <2>3. [i \in 1..n |-> [left \in Seq(Nat) |-> ReadField([j \in 1..n |-> Sig("signature")][i], left)]] = read
    OBVIOUS
  <2> HIDE DEF addresses, read
  <2>4. \A s \in Bytes : ReadEach(ReadField, [i \in DOMAIN addresses |-> Sig("signature")], s) = ReadAll(read, n, s)
    BY <1>6, <2>2, <2>3 DEF ReadEach
  <2>. QED BY <2>4 DEF SlotsReader, Reads
<1> HIDE DEF sigs, addresses, read
<1>9. Leads(Q, FlattenSeq(sigs), sigs)
  BY <1>1, <1>3, <1>4, AnyInStep
<1>10. Turns(T, Q, sigs, ws)
  <2> HIDE DEF Q, T
  <2>. QED BY <1>7, <1>8, GotIsApart DEF Turns, SlotsFrom
<1> HIDE DEF Q, T
<1>11. Leads(T, FlattenSeq(sigs), ws)
  BY <1>9, <1>10, Turned
<1>. QED BY <1>5, <1>11 DEF Leads, T, addresses

\* Who pays is an account.
LEMMA PayerIs ==
  ASSUME NEW msg, MsgFits(msg)
  PROVE  msg.gasFrom \in Accounts
<1>1. TxMsgHead[4].name = "gasFrom" /\ TxMsgHead[4].kind = "key" /\ 4 \in 1..Len(TxMsgHead)
  BY DEF TxMsgHead, Key, Field
<1>2. PartFits(TxMsgHead, msg)
  BY DEF MsgFits
<1>3. FieldFits(TxMsgHead[4], msg.gasFrom)
  BY <1>1, <1>2 DEF PartFits, MemberFits
<1>. QED BY <1>1, <1>3 DEF FieldFits, Accounts, Bytes

\* And so is the owner, where the message has one.
LEMMA OwnerIs ==
  ASSUME NEW msg, MsgFits(msg), msg.type \in GasPayerTypes
  PROVE  gasPayerOwner(msg) \in Accounts
<1>1. PICK c \in 1..17 : msg.type = TxTypes[c] /\ CodeOf(msg.type) = c
  BY CodeIs DEF MsgFits
<1>2. c \in {5, 7, 9, 12, 15}
  BY <1>1 DEF GasPayerTypes, TxTypes
<1>3. Payloads[c][2].name = "from" /\ Payloads[c][2].kind = "key" /\ 2 \in 1..Len(Payloads[c])
  <2>1. CASE c = 5
    BY <2>1 DEF Payloads, TxMsgTransferFungibleGasPayer, Key, Field
  <2>2. CASE c = 7
    BY <2>2 DEF Payloads, TxMsgTransferNonFungibleSingleGasPayer, Key, Field
  <2>3. CASE c = 9
    BY <2>3 DEF Payloads, TxMsgTransferNonFungibleMultiGasPayer, Key, Field
  <2>4. CASE c = 12
    BY <2>4 DEF Payloads, TxMsgBurnFungibleGasPayer, Key, Field
  <2>5. CASE c = 15
    BY <2>5 DEF Payloads, TxMsgBurnNonFungibleGasPayer, Key, Field
  <2>. QED BY <1>2, <2>1, <2>2, <2>3, <2>4, <2>5
<1> DEFINE layout == Payloads[c]
<1>4. PartFits(layout, msg.msg)
  BY <1>1 DEF MsgFits
<1> HIDE DEF layout
<1>5. FieldFits(layout[2], msg.msg.from) /\ layout[2].kind = "key"
  BY <1>3, <1>4 DEF PartFits, MemberFits, layout
<1>. QED BY <1>5 DEF FieldFits, Accounts, Bytes, gasPayerOwner

\* The addresses a message fixes.
LEMMA RequiredIs ==
  ASSUME NEW msg, MsgFits(msg)
  PROVE  /\ msg.type \in OpenTypes => requiredWitnesses(msg) = NotGiven
         /\ msg.type \notin OpenTypes =>
              \E n \in 0..2 :
                /\ Listed(requiredWitnesses(msg), n) /\ Len(requiredWitnesses(msg)) = n
                /\ requiredWitnesses(msg) # NotGiven
                /\ \A i \in 1..n : requiredWitnesses(msg)[i] \in Accounts
         /\ msg.type \in GasPayerTypes =>
              msg.type \notin OpenTypes /\ requiredWitnesses(msg) = <<msg.gasFrom, gasPayerOwner(msg)>>
         /\ msg.type = "Phantasma_Raw" => msg.type \notin OpenTypes /\ requiredWitnesses(msg) = <<>>
         /\ msg.type \notin OpenTypes \cup GasPayerTypes \cup {"Phantasma_Raw"} =>
              requiredWitnesses(msg) = <<msg.gasFrom>>
<1>1. CASE msg.type \in OpenTypes
  BY <1>1 DEF OpenTypes, GasPayerTypes, requiredWitnesses
<1>2. CASE msg.type \in GasPayerTypes
  <2>0. PICK a \in Accounts, b \in Accounts : a = msg.gasFrom /\ b = gasPayerOwner(msg)
    BY <1>2, PayerIs, OwnerIs
  <2>1. msg.type \notin OpenTypes /\ msg.type # "Phantasma_Raw"
    BY <1>2 DEF OpenTypes, GasPayerTypes
  <2>2. PICK r : r = requiredWitnesses(msg) /\ r = <<a, b>>
    BY <1>2, <2>0, <2>1 DEF requiredWitnesses
  <2>3. r \in Seq(Seq(Byte)) /\ Len(r) = 2
    BY <2>2 DEF Accounts, Bytes
  <2>4. Listed(r, 2) /\ \A i \in 1..2 : r[i] \in Accounts
    <3>1. Listed(r, 2)
      BY <2>3, SeqListed
    <3>. QED BY <2>2, <3>1
  <2>5. r # NotGiven /\ 2 \in 0..2
    BY <2>3, MessagesAssumption
  <2>6. \E n \in 0..2 : Listed(r, n) /\ Len(r) = n /\ r # NotGiven /\ \A i \in 1..n : r[i] \in Accounts
    BY <2>3, <2>4, <2>5
  <2>7. requiredWitnesses(msg) = <<msg.gasFrom, gasPayerOwner(msg)>>
    BY <2>0, <2>2
  <2>. QED BY <1>2, <2>1, <2>2, <2>6, <2>7
<1>3. CASE msg.type = "Phantasma_Raw"
  <2>1. msg.type \notin OpenTypes /\ msg.type \notin GasPayerTypes
    BY <1>3 DEF OpenTypes, GasPayerTypes
  <2>2. requiredWitnesses(msg) = <<>>
    BY <1>3, <2>1 DEF requiredWitnesses
  <2>3. <<>> # NotGiven /\ Listed(<<>>, 0) /\ Len(<<>>) = 0
    <3>1. <<>> \in Seq(Seq(Byte)) /\ Len(<<>>) = 0
      OBVIOUS
    <3>2. <<>> # NotGiven
      BY <3>1, MessagesAssumption
    <3>. QED BY <3>1, <3>2, EmptyListed
  <2>. QED BY <1>3, <2>1, <2>2, <2>3
<1>4. CASE msg.type \notin OpenTypes \cup GasPayerTypes \cup {"Phantasma_Raw"}
  <2> DEFINE a == msg.gasFrom
  <2>2. requiredWitnesses(msg) = <<a>>
    BY <1>4 DEF requiredWitnesses
  <2>3. a \in Accounts
    BY PayerIs
  <2> HIDE DEF a
  <2>4. Listed(<<a>>, 1) /\ Len(<<a>>) = 1 /\ <<a>>[1] = a
    BY <2>3, SingleListed
  <2>5. <<a>> \in Seq(Seq(Byte))
    BY <2>3 DEF Accounts, Bytes
  <2>6. \A i \in 1..1 : <<a>>[i] \in Accounts
    BY <2>3, <2>4
  <2>7. <<a>> # NotGiven
    BY <2>5, MessagesAssumption
  <2>. QED BY <1>4, <2>2, <2>4, <2>6, <2>7 DEF a
<1>. QED BY <1>1, <1>2, <1>3, <1>4

-----------------------------------------------------------------------------
(* Signed messages on the wire.                                            *)

\* A signed message that fits the wire.
SignedFits(signed) ==
    /\ signed = [msg |-> signed.msg, witnesses |-> signed.witnesses]
    /\ MsgFits(signed.msg) /\ WitnessesFit(signed.witnesses)
\* It has the witnesses its message asks for.
Right(signed) ==
    IF signed.msg.type \in OpenTypes THEN signed.msg.gasFrom \in ToSet(Addresses(signed.witnesses))
    ELSE Addresses(signed.witnesses) = requiredWitnesses(signed.msg)
\* Its bytes.
WitnessBytes(msg, ws) == IF msg.type \in OpenTypes THEN writeArrayBlob(Witness, ws) ELSE Bare(ws)
SignedBytes(signed) == Join(TxMsg_write(signed.msg), WitnessBytes(signed.msg, signed.witnesses))

\* The addresses of witnesses.
LEMMA AddressesAre ==
  ASSUME NEW ws, WitnessesFit(ws)
  PROVE  /\ DOMAIN ws = 1..Len(ws) /\ DOMAIN Addresses(ws) = 1..Len(ws)
         /\ Listed(Addresses(ws), Len(ws)) /\ Len(Addresses(ws)) = Len(ws)
         /\ \A i \in 1..Len(ws) : Addresses(ws)[i] = ws[i].address /\ ws[i].address \in Accounts
         /\ ToSet(Addresses(ws)) = {ws[i].address : i \in 1..Len(ws)}
<1> DEFINE n == Len(ws)
<1>1. n \in Nat /\ Listed(ws, n) /\ DOMAIN ws = 1..n /\ \A i \in 1..n : ws[i].address \in Accounts
  BY ListedIs DEF WitnessesFit, WitnessFits
<1> HIDE DEF n
<1>2. DOMAIN Addresses(ws) = 1..n /\ Listed(Addresses(ws), n) /\ \A i \in 1..n : Addresses(ws)[i] = ws[i].address
  BY <1>1 DEF Addresses, Listed
<1>3. Len(Addresses(ws)) = n
  BY <1>1, <1>2, ListedIs
<1>4. ToSet(Addresses(ws)) = {ws[i].address : i \in 1..n}
  BY <1>2 DEF ToSet
<1>. QED BY <1>1, <1>2, <1>3, <1>4 DEF n

\* It is written when its witnesses are those, and only then.
LEMMA SignedWritten ==
  ASSUME NEW signed, SignedFits(signed)
  PROVE  SignedTxMsg_write(signed) = IF Right(signed) THEN SignedBytes(signed) ELSE Thrown
<1> DEFINE msg == signed.msg
           ws == signed.witnesses
           right == CASE msg.type \in OpenTypes -> msg.gasFrom \in ToSet(Addresses(ws))
                      [] msg.type \in GasPayerTypes -> Addresses(ws) = <<msg.gasFrom, gasPayerOwner(msg)>>
                      [] msg.type = "Phantasma_Raw" -> ws = <<>>
                      [] OTHER -> Addresses(ws) = <<msg.gasFrom>>
<1>0. MsgFits(msg) /\ WitnessesFit(ws)
  BY DEF SignedFits
<1>1. right <=> Right(signed)
  <2>1. CASE msg.type \in OpenTypes
    BY <2>1 DEF OpenTypes, GasPayerTypes, Right
  <2>2. CASE msg.type \in GasPayerTypes
    <3>1. msg.type \notin OpenTypes /\ msg.type # "Phantasma_Raw"
      BY <2>2 DEF OpenTypes, GasPayerTypes
    <3>2. requiredWitnesses(msg) = <<msg.gasFrom, gasPayerOwner(msg)>>
      BY <1>0, <2>2, RequiredIs
    <3>3. right <=> Addresses(ws) = <<msg.gasFrom, gasPayerOwner(msg)>>
      BY <2>2, <3>1
    <3>4. Right(signed) <=> Addresses(ws) = requiredWitnesses(msg)
      BY <3>1 DEF Right
    <3> HIDE DEF right
    <3>. QED BY <3>2, <3>3, <3>4, Zenon
  <2>3. CASE msg.type = "Phantasma_Raw"
    <3>1. msg.type \notin OpenTypes /\ msg.type \notin GasPayerTypes
      BY <2>3 DEF OpenTypes, GasPayerTypes
    <3>2. requiredWitnesses(msg) = <<>>
      BY <1>0, <2>3, RequiredIs
    <3>3. right <=> ws = <<>>
      BY <2>3, <3>1
    <3>4. Right(signed) <=> Addresses(ws) = requiredWitnesses(msg)
      BY <3>1 DEF Right
    <3>5. Addresses(ws) = <<>> <=> Len(ws) = 0
      BY <1>0, AddressesAre, EmptyListed
    <3>6. ws = <<>> <=> Len(ws) = 0
      BY <1>0, EmptyListed DEF WitnessesFit
    <3> HIDE DEF right
    <3>. QED BY <3>2, <3>3, <3>4, <3>5, <3>6, Zenon
  <2>4. CASE msg.type \notin OpenTypes \cup GasPayerTypes \cup {"Phantasma_Raw"}
    <3>2. requiredWitnesses(msg) = <<msg.gasFrom>>
      BY <1>0, <2>4, RequiredIs
    <3>3. right <=> Addresses(ws) = <<msg.gasFrom>>
      BY <2>4
    <3>4. Right(signed) <=> Addresses(ws) = requiredWitnesses(msg)
      BY <2>4 DEF Right
    <3> HIDE DEF right
    <3>. QED BY <3>2, <3>3, <3>4, Zenon
  <2>. QED BY <2>1, <2>2, <2>3, <2>4
<1>2. SignedTxMsg_write(signed) = IF ~right THEN Thrown
                                  ELSE Join(TxMsg_write(msg), WitnessBytes(msg, ws))
  BY DEF SignedTxMsg_write, WitnessBytes, Join
<1> HIDE DEF right
<1>. QED BY <1>1, <1>2 DEF SignedBytes

\* The reader of signed messages.
EnvelopeReader == [s \in Bytes |-> SignedTxMsg_read(s)]

\* Lists of whole witnesses come back.
LEMMA WholeLead ==
  ASSUME ThrownIsNoRecord, NEW ws, WitnessesFit(ws)
  PROVE  Leads(BlobsReader(Witness), writeArrayBlob(Witness, ws), ws) /\ writeArrayBlob(Witness, ws) \in Bytes
BY WholeWitness, BlobsLead DEF Laid, Witness, BlobsFit, WitnessesFit

\* The reader of the witnesses of a message.
WitnessReader(msg) == IF msg.type \in OpenTypes THEN BlobsReader(Witness) ELSE SlotsReader(requiredWitnesses(msg))

\* How a signed message is read: the message, then its witnesses.
LEMMA EnvelopeRead ==
  ASSUME ThrownIsNoRecord, NEW msg, MsgFits(msg), NEW s \in Bytes, NEW rest \in Bytes,
         TxMsg_read(s) = Got(msg, rest)
  PROVE  SignedTxMsg_read(s) =
           LET r == WitnessReader(msg)[rest]
           IN IF r = Thrown THEN Thrown ELSE Got([msg |-> msg, witnesses |-> r.v], r.rest)
<1> DEFINE Slots(addresses) ==
             Mapped(ReadEach(ReadField, [i \in DOMAIN addresses |-> Sig("signature")], rest),
                    LAMBDA sigs : [i \in DOMAIN addresses |->
                                     [address |-> addresses[i], signature |-> sigs[i]]])
           chosen == CASE msg.type \in OpenTypes -> readArrayBlob(Witness, rest)
                       [] msg.type \in GasPayerTypes -> Slots(<<msg.gasFrom, gasPayerOwner(msg)>>)
                       [] msg.type = "Phantasma_Raw" -> Got(<<>>, rest)
                       [] OTHER -> Slots(<<msg.gasFrom>>)
<1>1. Got(msg, rest) # Thrown /\ Got(msg, rest).v = msg /\ Got(msg, rest).rest = rest
  BY GotIsApart
<1>2. SignedTxMsg_read(s) = IF chosen = Thrown THEN Thrown ELSE Got([msg |-> msg, witnesses |-> chosen.v], chosen.rest)
  BY <1>1 DEF SignedTxMsg_read, Then, Mapped
<1>3. \A addresses : Slots(addresses) = SlotsReader(addresses)[rest]
  BY DEF SlotsReader, SlotsFrom, SlotOf, Mapped
<1> HIDE DEF Slots
<1>4. chosen = WitnessReader(msg)[rest]
  <2>1. CASE msg.type \in OpenTypes
    BY <2>1 DEF OpenTypes, GasPayerTypes, WitnessReader, BlobsReader
  <2>2. CASE msg.type \in GasPayerTypes
    <3>1. msg.type \notin OpenTypes /\ msg.type # "Phantasma_Raw"
      BY <2>2 DEF OpenTypes, GasPayerTypes
    <3>2. requiredWitnesses(msg) = <<msg.gasFrom, gasPayerOwner(msg)>>
      BY <2>2, RequiredIs
    <3>3. chosen = Slots(<<msg.gasFrom, gasPayerOwner(msg)>>)
      BY <2>2, <3>1
    <3>4. WitnessReader(msg) = SlotsReader(requiredWitnesses(msg))
      BY <3>1 DEF WitnessReader
    <3> HIDE DEF chosen
    <3>. QED BY <1>3, <3>2, <3>3, <3>4, Zenon
  <2>3. CASE msg.type = "Phantasma_Raw"
    <3>1. msg.type \notin OpenTypes /\ msg.type \notin GasPayerTypes
      BY <2>3 DEF OpenTypes, GasPayerTypes
    <3>2. requiredWitnesses(msg) = <<>>
      BY <2>3, RequiredIs
    <3>3. chosen = Got(<<>>, rest)
      BY <2>3, <3>1
    <3>4. SlotsReader(<<>>)[rest] = Got(<<>>, rest)
      <4>1. DOMAIN <<>> = {} /\ [i \in {} |-> Sig("signature")] = <<>> /\ Len(<<>>) = 0
        OBVIOUS
      <4>2. \A f : ReadAll(f, 0, rest) = Got(<<>>, rest)
        BY ReadAllNext, 0 \in Nat
      <4>3. ReadEach(ReadField, [i \in DOMAIN <<>> |-> Sig("signature")], rest) = Got(<<>>, rest)
        BY <4>1, <4>2 DEF ReadEach
      <4>4. SlotOf(<<>>, <<>>) = <<>>
        BY <4>1 DEF SlotOf
      <4>. QED BY <4>3, <4>4, GotIsApart DEF SlotsReader, SlotsFrom
    <3>5. WitnessReader(msg) = SlotsReader(requiredWitnesses(msg))
      BY <3>1 DEF WitnessReader
    <3> HIDE DEF chosen
    <3>. QED BY <3>2, <3>3, <3>4, <3>5, Zenon
  <2>4. CASE msg.type \notin OpenTypes \cup GasPayerTypes \cup {"Phantasma_Raw"}
    <3>2. requiredWitnesses(msg) = <<msg.gasFrom>>
      BY <2>4, RequiredIs
    <3>3. chosen = Slots(<<msg.gasFrom>>)
      BY <2>4
    <3>4. WitnessReader(msg) = SlotsReader(requiredWitnesses(msg))
      BY <2>4 DEF WitnessReader
    <3> HIDE DEF chosen
    <3>. QED BY <1>3, <3>2, <3>3, <3>4, Zenon
  <2>. QED BY <2>1, <2>2, <2>3, <2>4
<1> HIDE DEF chosen
<1>. QED BY <1>2, <1>4

\* Signed messages come back.
LEMMA EnvelopeLeads ==
  ASSUME ThrownIsNoRecord, NEW signed, SignedFits(signed), Right(signed)
  PROVE  Leads(EnvelopeReader, SignedBytes(signed), signed) /\ SignedBytes(signed) \in Bytes
<1> DEFINE msg == signed.msg
           ws == signed.witnesses
           W == WitnessReader(msg)
           b == WitnessBytes(msg, ws)
           P == [r \in Bytes |-> IF W[r] = Thrown THEN Thrown ELSE Got([msg |-> msg, witnesses |-> W[r].v], W[r].rest)]
<1>1. MsgFits(msg) /\ WitnessesFit(ws) /\ signed = [msg |-> msg, witnesses |-> ws]
  BY DEF SignedFits
<1>2. Leads(W, b, ws) /\ b \in Bytes
  <2>1. CASE msg.type \in OpenTypes
    BY <1>1, <2>1, WholeLead DEF WitnessReader, WitnessBytes
  <2>2. CASE msg.type \notin OpenTypes
    <3>1. W = SlotsReader(Addresses(ws)) /\ b = Bare(ws)
      BY <2>2 DEF WitnessReader, WitnessBytes, Right
    <3> HIDE DEF W, b
    <3>. QED BY <1>1, <3>1, BareLead
  <2>. QED BY <2>1, <2>2
<1>3. Leads(MsgReader, TxMsg_write(msg), msg) /\ TxMsg_write(msg) \in Bytes
  BY <1>1, MessagesSurvive
<1> HIDE DEF W, b
<1>4. Turns(P, W, ws, signed)
  <2>1. \A r : Got(ws, r) # Thrown /\ Got(ws, r).v = ws /\ Got(ws, r).rest = r
    BY GotIsApart
  <2> HIDE DEF msg, ws
  <2>. QED BY <1>1, <2>1 DEF Turns
<1>5. GoesOn(EnvelopeReader, MsgReader, msg, P)
  <2>1. \A s \in Bytes : TxMsg_read(s) = Thrown => SignedTxMsg_read(s) = Thrown
    BY DEF SignedTxMsg_read, Then
  <2>2. \A s, rest \in Bytes : TxMsg_read(s) = Got(msg, rest) => SignedTxMsg_read(s) = P[rest]
    BY <1>1, EnvelopeRead DEF W
  <2> HIDE DEF P
  <2>. QED BY <2>1, <2>2 DEF GoesOn, EnvelopeReader, MsgReader
<1> HIDE DEF P
<1>6. Leads(P, b, signed)
  BY <1>2, <1>4, Turned
<1>7. Leads(EnvelopeReader, Join(TxMsg_write(msg), b), signed)
  BY <1>3, <1>5, <1>6, Sequel
<1>. QED BY <1>2, <1>3, <1>7, JoinAgain DEF SignedBytes, b

-----------------------------------------------------------------------------
(* The length of an envelope, before anybody signs.                        *)

\* A length can say at least how many witnesses a message fixes.
LEMMA HalfIsEnough == Half \in Nat /\ 2 < Half /\ 7 \in Byte
BY NumbersAssumption, CodesAssumption, PayloadsLaid, PowerSmall, PowerOrder, Limits, 1 \in Nat DEF Half, Byte

\* As many witnesses are written as long.
LEMMA WitnessLength ==
  ASSUME ThrownIsNoRecord, NEW ws, WitnessesFit(ws), NEW us, WitnessesFit(us), Len(ws) = Len(us)
  PROVE  /\ Len(Bare(ws)) = Len(Bare(us))
         /\ Len(writeArrayBlob(Witness, ws)) = Len(writeArrayBlob(Witness, us))
<1> DEFINE n == Len(ws)
           S(vs) == [i \in 1..n |-> vs[i].signature]
           F(vs) == [i \in 1..n |-> WriteFlat(Witness, vs[i])]
<1>1. /\ n \in Nat /\ DOMAIN ws = 1..n /\ DOMAIN us = 1..n
      /\ \A i \in 1..n : WitnessFits(ws[i]) /\ WitnessFits(us[i])
  BY AddressesAre DEF WitnessesFit
<1>2. /\ Bare(ws) = FlattenSeq(S(ws)) /\ Bare(us) = FlattenSeq(S(us))
      /\ writeArrayBlob(Witness, ws) = Join(writeLength(n), FlattenSeq(F(ws)))
      /\ writeArrayBlob(Witness, us) = Join(writeLength(n), FlattenSeq(F(us)))
  BY <1>1 DEF Bare, writeArrayBlob, Join
<1>3. Listed(S(ws), n) /\ Listed(S(us), n) /\ Listed(F(ws), n) /\ Listed(F(us), n)
  BY DEF Listed
<1> HIDE DEF n
<1>4. \A i \in 1..n : S(ws)[i] \in Bytes /\ S(us)[i] \in Bytes /\ Len(S(ws)[i]) = Len(S(us)[i])
  BY <1>1 DEF WitnessFits, Signatures
<1>5. Len(Bare(ws)) = Len(Bare(us))
  <2> HIDE DEF S, F
  <2>. QED BY <1>1, <1>2, <1>3, <1>4, SameLengths
<1>6. \A w, u : WitnessFits(w) /\ WitnessFits(u) =>
        /\ WriteFlat(Witness, w) \in Bytes /\ WriteFlat(Witness, u) \in Bytes
        /\ Len(WriteFlat(Witness, w)) = Len(WriteFlat(Witness, u))
  <2> SUFFICES ASSUME NEW w, NEW u, WitnessFits(w), WitnessFits(u)
               PROVE  /\ WriteFlat(Witness, w) \in Bytes /\ WriteFlat(Witness, u) \in Bytes
                      /\ Len(WriteFlat(Witness, w)) = Len(WriteFlat(Witness, u))
    OBVIOUS
  <2> DEFINE G(v) == [i \in 1..2 |-> WriteField(Witness[i], v[Witness[i].name])]
  <2>1. FlatFits(Witness, w) /\ FlatFits(Witness, u)
    BY WholeWitness
  <2>2. DOMAIN Witness = 1..2 /\ Len(Witness) = 2
    BY DEF Witness
  <2>3. \A i \in 1..2 : Steady(Witness[i])
    BY DEF Witness, Key, Sig, Field, Steady
  <2>4. WriteFlat(Witness, w) = FlattenSeq(G(w)) /\ WriteFlat(Witness, u) = FlattenSeq(G(u))
    BY <2>2 DEF WriteFlat
  <2>5. Listed(G(w), 2) /\ Listed(G(u), 2)
    BY DEF Listed
  <2>6. \A i \in 1..2 : G(w)[i] \in Bytes /\ G(u)[i] \in Bytes /\ Len(G(w)[i]) = Len(G(u)[i])
    <3> SUFFICES ASSUME NEW i \in 1..2
                 PROVE  G(w)[i] \in Bytes /\ G(u)[i] \in Bytes /\ Len(G(w)[i]) = Len(G(u)[i])
      OBVIOUS
    <3> DEFINE f == Witness[i]
               x == w[Witness[i].name]
               y == u[Witness[i].name]
    <3>1. FieldFits(f, x) /\ FieldFits(f, y) /\ Steady(f)
      BY <2>1, <2>2, <2>3 DEF FlatFits
    <3>2. G(w)[i] = WriteField(f, x) /\ G(u)[i] = WriteField(f, y)
      OBVIOUS
    <3> HIDE DEF f, x, y, G
    <3>3. WriteField(f, x) \in Bytes /\ WriteField(f, y) \in Bytes
      BY <3>1, FieldLeads DEF Leads
    <3>. QED BY <3>1, <3>2, <3>3, SteadyLength
  <2>7. WriteFlat(Witness, w) \in Bytes /\ WriteFlat(Witness, u) \in Bytes
    BY <2>1, FlatLeads
  <2> HIDE DEF G
  <2>. QED BY <2>4, <2>5, <2>6, <2>7, SameLengths, 2 \in Nat
<1>7. \A i \in 1..n : F(ws)[i] \in Bytes /\ F(us)[i] \in Bytes /\ Len(F(ws)[i]) = Len(F(us)[i])
  <2> SUFFICES ASSUME NEW i \in 1..n
               PROVE  F(ws)[i] \in Bytes /\ F(us)[i] \in Bytes /\ Len(F(ws)[i]) = Len(F(us)[i])
    OBVIOUS
  <2>1. F(ws)[i] = WriteFlat(Witness, ws[i]) /\ F(us)[i] = WriteFlat(Witness, us[i])
    OBVIOUS
  <2>2. WitnessFits(ws[i]) /\ WitnessFits(us[i])
    BY <1>1
  <2> HIDE DEF F
  <2>. QED BY <1>6, <2>1, <2>2
<1>8. Len(writeArrayBlob(Witness, ws)) = Len(writeArrayBlob(Witness, us))
  <2> DEFINE x == FlattenSeq(F(ws))
             y == FlattenSeq(F(us))
  <2>1. Len(x) = Len(y)
    <3> HIDE DEF F
    <3>. QED BY <1>1, <1>3, <1>7, SameLengths
  <2>2. x \in Bytes /\ y \in Bytes
    <3> HIDE DEF F
    <3>1. F(ws) \in Seq(Bytes) /\ F(us) \in Seq(Bytes)
      BY <1>1, <1>3, <1>7, ListedIs
    <3>. QED BY <3>1, FlattenNext DEF Bytes
  <2>3. writeLength(n) \in Bytes
    BY <1>1, Limits, FixedFacts DEF writeLength, Bytes
  <2>4. writeArrayBlob(Witness, ws) = Join(writeLength(n), x) /\ writeArrayBlob(Witness, us) = Join(writeLength(n), y)
    BY <1>2
  <2> HIDE DEF x, y
  <2>. QED BY <2>1, <2>2, <2>3, <2>4, JoinSame
<1>. QED BY <1>5, <1>8

\* Witnesses that have not signed.
Unsigned0(addresses) == [i \in DOMAIN addresses |-> [address |-> addresses[i], signature |-> Repeat(0, SignatureSize)]]

\* Zeros are bytes.
LEMMA ZerosAreBytes ==
  ASSUME NEW n \in Nat
  PROVE  Repeat(0, n) \in Bytes /\ Len(Repeat(0, n)) = n
<1>1. Listed(Repeat(0, n), n)
  BY DEF Listed, Repeat
<1>2. DOMAIN Repeat(0, n) = 1..n /\ Len(Repeat(0, n)) = n /\ \A i \in 1..n : Repeat(0, n)[i] = 0
  BY Repeated
<1>3. 0 \in Byte
  BY NumbersAssumption DEF Byte
<1>. QED BY <1>1, <1>2, <1>3, ListedIs DEF Bytes

\* They fit the wire.
LEMMA UnsignedFit ==
  ASSUME NEW n \in Nat, n < Half, NEW addresses, Listed(addresses, n), \A i \in 1..n : addresses[i] \in Accounts
  PROVE  LET ws == Unsigned0(addresses) IN WitnessesFit(ws) /\ Len(ws) = n /\ Addresses(ws) = addresses
<1> DEFINE ws == Unsigned0(addresses)
<1>1. DOMAIN addresses = 1..n
  BY ListedIs
<1>2. Listed(ws, n) /\ DOMAIN ws = 1..n
  BY <1>1 DEF Listed, Unsigned0
<1>3. Len(ws) = n
  BY <1>2, ListedIs
<1>4. Repeat(0, SignatureSize) \in Signatures
  BY ZerosAreBytes, Limits DEF Signatures
<1>5. \A i \in 1..n : WitnessFits(ws[i]) /\ ws[i].address = addresses[i]
  BY <1>1, <1>4 DEF WitnessFits, Unsigned0
<1>6. Addresses(ws) = addresses
  <2> HIDE DEF ws
  <2>. QED BY <1>2, <1>5 DEF Addresses, Listed
<1>. QED BY <1>2, <1>3, <1>5, <1>6 DEF WitnessesFit

\* Where the message leaves it open, the payer and others that are not known.
LEMMA OpenPlaces ==
  ASSUME NEW msg, MsgFits(msg), NEW n \in Nat, n >= 1
  PROVE  /\ Listed(openWitnessPlaceholders(msg, n), n) /\ openWitnessPlaceholders(msg, n)[1] = msg.gasFrom
         /\ \A i \in 1..n : openWitnessPlaceholders(msg, n)[i] \in Accounts
<1> DEFINE a == msg.gasFrom
           r == Repeat(EmptyKey, n - 1)
           s == <<a>>
<1>1. a \in Accounts
  BY PayerIs
<1>2. EmptyKey \in Accounts
  BY ZerosAreBytes, Limits DEF Accounts, EmptyKey
<1>3. n - 1 \in Nat
  OBVIOUS
<1>4. r \in Seq(Accounts) /\ Len(r) = n - 1
  <2>1. Listed(r, n - 1)
    BY DEF Listed, Repeat
  <2>2. Len(r) = n - 1 /\ \A i \in 1..(n - 1) : r[i] = EmptyKey
    BY <1>3, Repeated
  <2> HIDE DEF r
  <2>. QED BY <1>2, <1>3, <2>1, <2>2, ListedIs
<1> HIDE DEF a, r
<1>5. s \in Seq(Accounts) /\ Len(s) = 1 /\ s[1] = a
  BY <1>1
<1> HIDE DEF s
<1>6. s \o r \in Seq(Accounts) /\ Len(s \o r) = n /\ (s \o r)[1] = a
  <2>1. /\ s \o r \in Seq(Accounts) /\ Len(s \o r) = Len(s) + Len(r)
        /\ \A i \in 1..(Len(s) + Len(r)) : (s \o r)[i] = IF i <= Len(s) THEN s[i] ELSE r[i - Len(s)]
    BY <1>4, <1>5, ConcatProperties
  <2>2. Len(s) + Len(r) = n /\ 1 \in 1..n /\ 1 <= Len(s)
    BY <1>4, <1>5
  <2>. QED BY <1>5, <2>1, <2>2
<1>7. Listed(s \o r, n) /\ \A i \in 1..n : (s \o r)[i] \in Accounts
  BY <1>6, SeqListed
<1>. QED BY <1>6, <1>7 DEF openWitnessPlaceholders, s, r, a

\* The length is that of the envelope of any witnesses in those places.
LEMMA PlannedLength ==
  ASSUME ThrownIsNoRecord, NEW msg, MsgFits(msg), NEW ws, WitnessesFit(ws),
         IF msg.type \in OpenTypes THEN Len(ws) >= 1 ELSE Len(ws) = Len(requiredWitnesses(msg))
  PROVE  /\ envelopeBytes(msg, IF msg.type \in OpenTypes THEN Len(ws) ELSE NotGiven)
              = Len(Join(TxMsg_write(msg), WitnessBytes(msg, ws)))
         /\ Join(TxMsg_write(msg), WitnessBytes(msg, ws)) \in Bytes
<1> DEFINE n == Len(ws)
           required == requiredWitnesses(msg)
           open == msg.type \in OpenTypes
           count == IF open THEN n ELSE NotGiven
           places == IF open THEN openWitnessPlaceholders(msg, n) ELSE required
           us == Unsigned0(places)
           empty == [msg |-> msg, witnesses |-> us]
<1>1. n \in Nat /\ n < Half /\ NotGiven \notin Nat
  BY MessagesAssumption DEF WitnessesFit
<1>2. open <=> required = NotGiven
  BY RequiredIs
<1>3. Listed(places, n) /\ (\A i \in 1..n : places[i] \in Accounts) /\ (open => n >= 1 /\ places[1] = msg.gasFrom)
  <2>1. CASE open
    <3> HIDE DEF n
    <3>. QED BY <1>1, <2>1, OpenPlaces DEF n
  <2>2. CASE ~open
    <3>1. PICK m \in 0..2 : Listed(required, m) /\ Len(required) = m /\ \A i \in 1..m : required[i] \in Accounts
      BY <2>2, RequiredIs
    <3>2. m = n
      BY <2>2, <3>1
    <3> HIDE DEF n, required
    <3>. QED BY <2>2, <3>1, <3>2
  <2>. QED BY <2>1, <2>2
<1>4. envelopeBytes(msg, count) = IF SignedTxMsg_write(empty) = Thrown THEN Thrown ELSE Len(SignedTxMsg_write(empty))
  <2>1. CASE open
    BY <1>1, <1>2, <1>3, <2>1 DEF envelopeBytes, Made, Unsigned0
  <2>2. CASE ~open
    BY <1>2, <2>2 DEF envelopeBytes, Made, Unsigned0
  <2>. QED BY <2>1, <2>2
<1> HIDE DEF count, places
<1>5. WitnessesFit(us) /\ Len(us) = n /\ Addresses(us) = places
  <2> HIDE DEF n
  <2>. QED BY <1>1, <1>3, UnsignedFit
<1> HIDE DEF us
<1>6. SignedFits(empty)
  BY <1>5 DEF SignedFits
<1>7. Right(empty)
  <2>1. CASE open
    <3>1. ToSet(Addresses(us)) = {us[i].address : i \in 1..Len(us)} /\ \A i \in 1..Len(us) : Addresses(us)[i] = us[i].address
      BY <1>5, AddressesAre
    <3>2. 1 \in 1..n
      BY <1>1, <1>3, <2>1
    <3>3. msg.gasFrom = us[1].address
      BY <1>3, <1>5, <2>1, <3>1, <3>2
    <3>. QED BY <1>5, <2>1, <3>1, <3>2, <3>3 DEF Right
  <2>2. CASE ~open
    BY <2>2, <1>5 DEF places, Right
  <2>. QED BY <2>1, <2>2
<1>8. SignedTxMsg_write(empty) = SignedBytes(empty) /\ SignedBytes(empty) \in Bytes
  <2> HIDE DEF empty
  <2>. QED BY <1>6, <1>7, SignedWritten, EnvelopeLeads
<1>9. SignedBytes(empty) # Thrown
  BY <1>8, ThrownAssumption DEF Bytes
<1> DEFINE b == TxMsg_write(msg)
           x == WitnessBytes(msg, ws)
           y == WitnessBytes(msg, us)
<1>10. SignedBytes(empty) = Join(b, y)
  BY DEF SignedBytes
<1>11. b \in Bytes /\ x \in Bytes /\ y \in Bytes
  BY MessagesSurvive, <1>5, BareLead, WholeLead DEF WitnessBytes
<1>12. Len(x) = Len(y)
  BY <1>5, WitnessLength DEF WitnessBytes
<1> HIDE DEF empty, b, x, y
<1>13. envelopeBytes(msg, count) = Len(Join(b, y))
  BY <1>4, <1>8, <1>9, <1>10
<1>14. Len(Join(b, x)) = Len(Join(b, y)) /\ Join(b, x) \in Bytes
  <2>1. Len(Join(b, x)) = Len(Join(b, y))
    BY <1>11, <1>12, JoinSame
  <2>. QED BY <1>11, <2>1, JoinAgain
<1>. QED BY <1>13, <1>14 DEF count, b, x

\* A signed message is delivered: read back whole, never from less, and as long as counted.
LEMMA EnvelopeDelivered ==
  ASSUME ThrownIsNoRecord, NEW signed, SignedFits(signed), Right(signed)
  PROVE  Delivered(signed, SignedBytes(signed))
<1> DEFINE s == SignedBytes(signed)
           msg == signed.msg
           ws == signed.witnesses
<1>1. s \in Bytes /\ Leads(EnvelopeReader, s, signed)
  BY EnvelopeLeads
<1>2. MsgFits(msg) /\ WitnessesFit(ws)
  BY DEF SignedFits
<1>3. IF msg.type \in OpenTypes THEN Len(ws) >= 1 ELSE Len(ws) = Len(requiredWitnesses(msg))
  <2>1. CASE msg.type \in OpenTypes
    <3>1. ToSet(Addresses(ws)) = {ws[i].address : i \in 1..Len(ws)} /\ Len(ws) \in Nat
      BY <1>2, AddressesAre DEF WitnessesFit
    <3>2. msg.gasFrom \in ToSet(Addresses(ws))
      BY <2>1 DEF Right
    <3>3. PICK i \in 1..Len(ws) : msg.gasFrom = ws[i].address
      BY <3>1, <3>2
    <3>. QED BY <2>1, <3>1, <3>3
  <2>2. CASE msg.type \notin OpenTypes
    BY <1>2, <2>2, AddressesAre DEF Right
  <2>. QED BY <2>1, <2>2
<1>4. envelopeBytes(msg, IF msg.type \in OpenTypes THEN Len(ws) ELSE NotGiven) = Len(s)
  BY <1>2, <1>3, PlannedLength DEF SignedBytes
<1> HIDE DEF s
<1>5. SignedTxMsg_read(s) = Got(signed, <<>>)
  BY <1>1, JoinNothing DEF Leads, EnvelopeReader
<1>6. SignedTxMsg_read(Append(s, 7)) = Got(signed, <<7>>)
  <2>1. Append(s, 7) = Join(s, <<7>>)
    BY <1>1, HalfIsEnough DEF Join, Bytes
  <2>2. <<7>> \in Bytes
    BY HalfIsEnough DEF Bytes
  <2>3. Join(s, <<7>>) \in Bytes
    BY <1>1, <2>2, JoinAgain
  <2>. QED BY <1>1, <2>1, <2>2, <2>3 DEF Leads, EnvelopeReader
<1>7. \A n \in 0..(Len(s) - 1) : SignedTxMsg_read(Take(s, n)) = Thrown
  BY <1>1, TakenAreBytes DEF Leads, EnvelopeReader
<1>. QED BY <1>4, <1>5, <1>6, <1>7 DEF Delivered, s

-----------------------------------------------------------------------------
(* Who signs.                                                              *)

\* Some signers, each with the key of an account.
GivenSigners(signers) ==
    /\ Len(signers) \in Nat /\ Len(signers) < Half /\ Listed(signers, Len(signers))
    /\ \A i \in 1..Len(signers) : signers[i].key \in Accounts
\* What is signed is a signature.
SignsKeys == \A key \in Accounts, bytes \in Bytes : Ed25519(key, bytes) \in Signatures

\* The places of an envelope, each with a signer who has the key of its address.
PlacesFor(slots, n, signers) ==
    /\ n \in Nat /\ n < Half /\ Listed(slots, n)
    /\ \A i \in 1..n : /\ slots[i].signer \in ToSet(signers) /\ slots[i].signer.key = slots[i].address
                       /\ slots[i].address \in Accounts
    /\ {slots[i].address : i \in 1..n} = KeysOf(signers)

\* Those who must sign are those who were given.
Complete(msg, signers) ==
    msg.type \notin OpenTypes => KeysOf(signers) = ToSet(requiredWitnesses(msg))

\* The keys of signers.
LEMMA KeysAre ==
  ASSUME NEW signers, GivenSigners(signers)
  PROVE  /\ DOMAIN signers = 1..Len(signers) /\ KeysOf(signers) = {signers[i].key : i \in 1..Len(signers)}
         /\ ToSet(signers) = {signers[i] : i \in 1..Len(signers)}
         /\ KeysOf(signers) \subseteq Accounts
         /\ KeysOf(signers) = {} <=> signers = <<>>
<1> DEFINE n == Len(signers)
<1>1. n \in Nat /\ DOMAIN signers = 1..n /\ Listed(signers, n)
  BY ListedIs DEF GivenSigners
<1>2. \A i \in 1..n : signers[i].key \in Accounts
  BY DEF GivenSigners
<1>3. signers = <<>> <=> n = 0
  <2>1. Len(<<>>) = 0
    OBVIOUS
  <2>. QED BY <1>1, <2>1, EmptyListed
<1> HIDE DEF n
<1>4. KeysOf(signers) = {signers[i].key : i \in 1..n}
  BY <1>1 DEF KeysOf
<1>5. n # 0 => 1 \in 1..n
  BY <1>1
<1>6. KeysOf(signers) = {} <=> n = 0
  <2>1. n = 0 => 1..n = {}
    BY <1>1
  <2>. QED BY <1>4, <1>5, <2>1
<1>. QED BY <1>1, <1>2, <1>3, <1>4, <1>6 DEF n, ToSet

\* The last signer of a key has it.
LEMMA ByAddressIs ==
  ASSUME NEW signers, GivenSigners(signers), NEW key \in KeysOf(signers)
  PROVE  ByAddress(signers, key) \in ToSet(signers) /\ ByAddress(signers, key).key = key
<1> DEFINE T == {i \in DOMAIN signers : signers[i].key = key}
<1>1. DOMAIN signers = 1..Len(signers) /\ Len(signers) \in Nat
  BY KeysAre DEF GivenSigners
<1>2. T \in SUBSET (1..Len(signers)) /\ T # {}
  BY <1>1 DEF KeysOf
<1>3. ByAddress(signers, key) = signers[Max(T)]
  BY DEF ByAddress
<1> DEFINE i == Max(T)
<1>4. i \in T
  <2> HIDE DEF T
  <2>. QED BY <1>1, <1>2, GreatestOf
<1> HIDE DEF i
<1>5. i \in DOMAIN signers /\ signers[i].key = key
  BY <1>4
<1>. QED BY <1>3, <1>5 DEF i, ToSet

\* The places of a message, when those who must sign are given.
LEMMA SlotsAre ==
  ASSUME ThrownIsNoRecord, NEW msg, MsgFits(msg), NEW signers, GivenSigners(signers)
  PROVE  LET slots == witnessSlots(msg, signers)
         IN /\ ~Complete(msg, signers) => slots = Thrown
            /\ Complete(msg, signers) =>
                 \E n \in Nat :
                   /\ PlacesFor(slots, n, signers) /\ slots # Thrown
                   /\ msg.type \in OpenTypes => n = Len(signers)
                   /\ msg.type \notin OpenTypes =>
                        n = Len(requiredWitnesses(msg)) /\ \A i \in 1..n : slots[i].address = requiredWitnesses(msg)[i]
<1> DEFINE slots == witnessSlots(msg, signers)
           required == requiredWitnesses(msg)
           open == msg.type \in OpenTypes
<1>1. open <=> required = NotGiven
  BY RequiredIs
<1>2. /\ DOMAIN signers = 1..Len(signers) /\ KeysOf(signers) = {signers[i].key : i \in 1..Len(signers)}
      /\ ToSet(signers) = {signers[i] : i \in 1..Len(signers)} /\ Len(signers) \in Nat /\ Len(signers) < Half
      /\ \A i \in 1..Len(signers) : signers[i].key \in Accounts
  BY KeysAre DEF GivenSigners
<1>3. CASE open
  <2> DEFINE n == Len(signers)
             given == [i \in 1..n |-> [address |-> signers[i].key, signer |-> signers[i]]]
  <2>1. slots = given
    BY <1>1, <1>2, <1>3 DEF witnessSlots
  <2>2. Listed(given, n) /\ \A i \in 1..n : given[i].address = signers[i].key /\ given[i].signer = signers[i]
    BY DEF Listed
  <2> HIDE DEF n, given
  <2>3. {given[i].address : i \in 1..n} = KeysOf(signers)
    BY <1>2, <2>2 DEF n
  <2>4. PlacesFor(given, n, signers)
    BY <1>2, <2>2, <2>3 DEF PlacesFor, n
  <2>5. given # Thrown
    BY <1>2, <2>2, ListIsApart DEF n
  <2>6. Complete(msg, signers) /\ n \in Nat
    BY <1>2, <1>3 DEF Complete, n
  <2> HIDE DEF slots
  <2>. QED BY <1>3, <2>1, <2>4, <2>5, <2>6 DEF n, slots
<1>4. CASE ~open
  <2>1. PICK n \in 0..2 : Listed(required, n) /\ Len(required) = n /\ \A i \in 1..n : required[i] \in Accounts
    BY <1>4, RequiredIs
  <2>2. n \in Nat /\ n < Half /\ DOMAIN required = 1..n
    BY <2>1, HalfIsEnough, ListedIs
  <2>3. ToSet(required) = {required[i] : i \in 1..n}
    BY <2>2 DEF ToSet
  <2> DEFINE found == [i \in 1..n |-> [address |-> required[i], signer |-> ByAddress(signers, required[i])]]
  <2>4. slots = IF Complete(msg, signers) THEN found ELSE Thrown
    <3>1. CASE msg.type = "Phantasma_Raw"
      <4>1. required = <<>>
        BY <3>1, RequiredIs
      <4>2. n = 0 /\ 1..n = {}
        BY <2>1, <4>1
      <4>3. Complete(msg, signers) <=> signers = <<>>
        BY <2>3, <4>2, <1>4, KeysAre DEF Complete
      <4>4. found = <<>>
        BY <4>2
      <4>5. slots = IF signers = <<>> THEN <<>> ELSE Thrown
        BY <1>1, <1>4, <3>1 DEF witnessSlots
      <4> HIDE DEF slots, found
      <4>. QED BY <4>3, <4>4, <4>5
    <3>2. CASE msg.type # "Phantasma_Raw"
      <4>1. slots = IF KeysOf(signers) # ToSet(required) THEN Thrown ELSE found
        BY <1>1, <1>4, <2>2, <3>2 DEF witnessSlots
      <4>2. Complete(msg, signers) <=> KeysOf(signers) = ToSet(required)
        BY <1>4 DEF Complete
      <4> HIDE DEF slots, found, required
      <4>. QED BY <4>1, <4>2
    <3>. QED BY <3>1, <3>2
  <2>5. ASSUME Complete(msg, signers)
        PROVE  PlacesFor(found, n, signers) /\ found # Thrown /\ \A i \in 1..n : found[i].address = required[i]
    <3>1. KeysOf(signers) = ToSet(required)
      BY <1>4, <2>5 DEF Complete
    <3>2. Listed(found, n) /\ \A i \in 1..n : found[i].address = required[i] /\ found[i].signer = ByAddress(signers, required[i])
      BY DEF Listed
    <3> HIDE DEF found, required
    <3>3. \A i \in 1..n : required[i] \in KeysOf(signers)
      BY <2>3, <3>1
    <3>4. \A i \in 1..n : found[i].signer \in ToSet(signers) /\ found[i].signer.key = found[i].address
      BY <3>2, <3>3, ByAddressIs
    <3>5. {found[i].address : i \in 1..n} = KeysOf(signers)
      BY <2>3, <3>1, <3>2
    <3>6. found # Thrown
      BY <2>2, <3>2, ListIsApart
    <3>. QED BY <2>1, <2>2, <3>2, <3>4, <3>5, <3>6 DEF PlacesFor
  <2> HIDE DEF slots, found
  <2>. QED BY <1>4, <2>1, <2>2, <2>4, <2>5 DEF slots
<1>. QED BY <1>3, <1>4

\* The first place of an address.
LEMMA FirstIs ==
  ASSUME NEW n \in Nat, NEW slots, NEW i \in 1..n
  PROVE  /\ FirstOf(slots, i) \in 1..i /\ slots[FirstOf(slots, i)].address = slots[i].address
         /\ FirstOf(slots, i) = i <=> \A j \in 1..(i - 1) : slots[j].address # slots[i].address
<1> DEFINE T == {j \in 1..i : slots[j].address = slots[i].address}
<1>1. T \in SUBSET (1..i) /\ i \in T /\ i \in Nat
  OBVIOUS
<1>2. \A j : j \in T <=> j \in 1..i /\ slots[j].address = slots[i].address
  OBVIOUS
<1> HIDE DEF T
<1>3. Min(T) \in T /\ \A j \in T : Min(T) <= j
  BY <1>1, LeastIs
<1>4. FirstOf(slots, i) = Min(T)
  BY DEF FirstOf, T
<1>5. \A j : j \in 1..i <=> (j = i \/ j \in 1..(i - 1))
  BY <1>1
<1>6. \A j \in 1..(i - 1) : j # i /\ ~(i <= j)
  BY <1>1
<1>7. Min(T) = i <=> \A j \in 1..(i - 1) : j \notin T
  BY <1>1, <1>2, <1>3, <1>5, <1>6
<1>. QED BY <1>2, <1>3, <1>4, <1>5, <1>7

-----------------------------------------------------------------------------
(* What is signed.                                                         *)

\* Those who are first, in order.
Firsts(n, first, who) == FlattenSeq([i \in 1..n |-> IF first[i] THEN <<who[i]>> ELSE <<>>])

\* The keys there are.
KeysUpTo(n, key) == {key[i] : i \in 1..n}

\* Who is first of a key.
FirstsAre(n, S, key, who, first) ==
    \A i \in 1..n : who[i] \in S /\ (first[i] <=> \A j \in 1..(i - 1) : key[j] # key[i])

\* Every value once, where it is first: as many as there are.
LEMMA OncePerKey ==
  ASSUME NEW n \in Nat, NEW S, NEW key, NEW who, NEW first, FirstsAre(n, S, key, who, first)
  PROVE  LET once == Firsts(n, first, who)
         IN /\ once \in Seq(S) /\ Len(once) = Cardinality(KeysUpTo(n, key))
            /\ \A x : (\E k \in 1..Len(once) : once[k] = x) <=> \E i \in 1..n : first[i] /\ who[i] = x
<1> DEFINE all == [i \in 1..n |-> IF first[i] THEN <<who[i]>> ELSE <<>>]
           W(m) == [i \in 1..m |-> all[i]]
           K(m) == {key[i] : i \in 1..m}
           Holds(m) == /\ W(m) \in Seq(Seq(S)) /\ Len(W(m)) = m
                       /\ FlattenSeq(W(m)) \in Seq(S) /\ IsFiniteSet(K(m))
                       /\ Len(FlattenSeq(W(m))) = Cardinality(K(m))
                       /\ \A x : (\E k \in 1..Len(FlattenSeq(W(m))) : FlattenSeq(W(m))[k] = x)
                                   <=> \E i \in 1..m : first[i] /\ who[i] = x
           T == {m \in Nat : m <= n => Holds(m)}
<1>0. \A i \in 1..n : all[i] = IF first[i] THEN <<who[i]>> ELSE <<>>
  OBVIOUS
<1>00. W(n) = all
  OBVIOUS
<1> HIDE DEF all
<1>1. 0 \in T
  <2>1. W(0) = <<>> /\ K(0) = {}
    OBVIOUS
  <2>2. <<>> \in Seq(Seq(S)) /\ <<>> \in Seq(S) /\ Len(<<>>) = 0 /\ 1..0 = {}
    OBVIOUS
  <2>3. FlattenSeq(<<>>) = <<>>
    BY FlattenAny
  <2> HIDE DEF W, K
  <2>4. FlattenSeq(W(0)) = <<>>
    BY <2>1, <2>3
  <2>5. IsFiniteSet(K(0)) /\ Cardinality(K(0)) = 0
    BY <2>1, FS_EmptySet
  <2>6. W(0) \in Seq(Seq(S)) /\ Len(W(0)) = 0 /\ FlattenSeq(W(0)) \in Seq(S) /\ Len(FlattenSeq(W(0))) = 0
    BY <2>1, <2>2, <2>4
  <2>7. Holds(0)
    BY <2>2, <2>5, <2>6
  <2> HIDE DEF Holds
  <2>. QED BY <2>7
<1>2. ASSUME NEW m \in T PROVE m + 1 \in T
  <2> SUFFICES ASSUME m + 1 <= n PROVE Holds(m + 1)
    <3> HIDE DEF Holds
    <3>. QED OBVIOUS
  <2>m. m \in Nat /\ (m <= n => Holds(m))
    <3> HIDE DEF Holds
    <3>. QED OBVIOUS
  <2> HIDE DEF T
  <2>0. m \in Nat /\ m + 1 \in 1..n /\ (\A i \in 1..m : i \in 1..n) /\ (m + 1) - 1 = m /\ m <= n
    BY <2>m
  <2>1. Holds(m)
    <3> HIDE DEF Holds
    <3>. QED BY <2>m, <2>0
  <2> DEFINE v == all[m + 1]
             f == FlattenSeq(W(m))
  <2>2. v \in Seq(S) /\ v = IF first[m + 1] THEN <<who[m + 1]>> ELSE <<>>
    <3>1. v = IF first[m + 1] THEN <<who[m + 1]>> ELSE <<>>
      BY <1>0, <2>0
    <3>2. who[m + 1] \in S
      BY <2>0 DEF FirstsAre
    <3>. QED BY <3>1, <3>2
  <2>3. W(m + 1) = Append(W(m), v) /\ W(m + 1) \in Seq(Seq(S)) /\ Len(W(m + 1)) = m + 1
    <3>1. \A i \in 1..m : W(m)[i] = all[i]
      OBVIOUS
    <3>2. W(m) \in Seq(Seq(S)) /\ Len(W(m)) = m
      BY <2>1
    <3>3. W(m + 1) = [i \in 1..(m + 1) |-> all[i]]
      OBVIOUS
    <3> DEFINE a == Append(W(m), v)
    <3> HIDE DEF W, v
    <3>4. a \in Seq(Seq(S)) /\ Len(a) = m + 1 /\ (\A i \in 1..m : a[i] = W(m)[i]) /\ a[m + 1] = v
      BY <2>0, <2>2, <3>2, AppendProperties
    <3>5. a = [i \in 1..(m + 1) |-> a[i]]
      BY <3>4, SeqListed DEF Listed
    <3> HIDE DEF a
    <3>6. \A i \in 1..(m + 1) : i = m + 1 \/ i \in 1..m
      BY <2>0
    <3>7. \A i \in 1..(m + 1) : a[i] = all[i]
      BY <3>1, <3>4, <3>6 DEF v
    <3>8. W(m + 1) = a
      BY <3>3, <3>5, <3>7
    <3>. QED BY <3>4, <3>8 DEF a
  <2>4. K(m + 1) = K(m) \cup {key[m + 1]}
    BY <2>0
  <2>5. first[m + 1] <=> key[m + 1] \notin K(m)
    BY <2>0 DEF FirstsAre
  <2> HIDE DEF K, v, W
  <2>6. FlattenSeq(W(m + 1)) = f \o v
    <3>1. W(m) \in Seq(Seq(S)) /\ v \in Seq(S) /\ W(m + 1) = Append(W(m), v)
      BY <2>1, <2>2, <2>3
    <3>2. \A seqs \in Seq(Seq(S)), t \in Seq(S) : FlattenSeq(Append(seqs, t)) = FlattenSeq(seqs) \o t
      BY FlattenAny
    <3>. QED BY <3>1, <3>2
  <2>7. IsFiniteSet(K(m + 1)) /\ Cardinality(K(m + 1)) = IF key[m + 1] \in K(m) THEN Cardinality(K(m)) ELSE Cardinality(K(m)) + 1
    <3>1. IsFiniteSet(K(m))
      BY <2>1
    <3>. QED BY <2>4, <3>1, FS_AddElement
  <2>8. \A i : i \in 1..(m + 1) <=> i \in 1..m \/ i = m + 1
    BY <2>0
  <2>9. f \in Seq(S) /\ Len(f) = Cardinality(K(m)) /\ Len(f) \in Nat
        /\ \A x : (\E k \in 1..Len(f) : f[k] = x) <=> \E i \in 1..m : first[i] /\ who[i] = x
    BY <2>1, LenProperties
  <2> HIDE DEF f
  <2>10. CASE first[m + 1]
    <3> DEFINE y == who[m + 1]
    <3>1. v = <<y>> /\ y \in S
      BY <2>0, <2>2, <2>10 DEF FirstsAre
    <3> HIDE DEF y
    <3>2. f \o v = Append(f, y)
      BY <2>9, <3>1
    <3> DEFINE g == Append(f, y)
    <3>3. g \in Seq(S) /\ Len(g) = Len(f) + 1 /\ (\A k \in 1..Len(f) : g[k] = f[k]) /\ g[Len(f) + 1] = y
      BY <2>9, <3>1, AppendProperties
    <3> HIDE DEF g
    <3>4. \A k : k \in 1..Len(g) <=> k \in 1..Len(f) \/ k = Len(f) + 1
      BY <2>9, <3>3
    <3>5. \A x : (\E k \in 1..Len(g) : g[k] = x) <=> (\E k \in 1..Len(f) : f[k] = x) \/ x = y
      BY <3>3, <3>4
    <3>6. \A x : (\E i \in 1..(m + 1) : first[i] /\ who[i] = x) <=> (\E i \in 1..m : first[i] /\ who[i] = x) \/ x = y
      BY <2>8, <2>10 DEF y
    <3>7. FlattenSeq(W(m + 1)) = g
      BY <2>6, <3>2 DEF g
    <3>8. \A x : (\E k \in 1..Len(g) : g[k] = x) <=> \E i \in 1..(m + 1) : first[i] /\ who[i] = x
      BY <2>9, <3>5, <3>6
    <3>9. Len(g) = Cardinality(K(m + 1))
      BY <2>5, <2>7, <2>9, <2>10, <3>3
    <3>. QED BY <2>3, <2>7, <3>3, <3>7, <3>8, <3>9
  <2>11. CASE ~first[m + 1]
    <3>1. v = <<>>
      BY <2>2, <2>11
    <3>2. FlattenSeq(W(m + 1)) = f
      BY <2>6, <2>9, <3>1, ConcatEmptySeq
    <3>3. \A x : (\E i \in 1..(m + 1) : first[i] /\ who[i] = x) <=> (\E i \in 1..m : first[i] /\ who[i] = x)
      BY <2>8, <2>11
    <3>4. Len(f) = Cardinality(K(m + 1))
      BY <2>5, <2>7, <2>9, <2>11
    <3>. QED BY <2>3, <2>7, <2>9, <3>2, <3>3, <3>4
  <2>. QED BY <2>10, <2>11
<1>3. T = Nat
  <2>0. T \in SUBSET Nat
    OBVIOUS
  <2> HIDE DEF T
  <2>. QED BY <2>0, <1>1, <1>2, SetInduction
<1> HIDE DEF Holds
<1>4. Holds(n)
  BY <1>3
<1>5. Firsts(n, first, who) = FlattenSeq(W(n))
  BY <1>00 DEF Firsts, all
<1>. QED BY <1>4, <1>5 DEF Holds, KeysUpTo

\* The witnesses of the places, each signed with the key of its signer.
WitnessesOf(msg, slots) ==
    [i \in DOMAIN slots |-> [address |-> slots[i].address,
                             signature |-> Ed25519(slots[i].signer.key, TxMsg_write(msg))]]

\* They fit the wire, and are signed by whose they are.
LEMMA WitnessesAre ==
  ASSUME ThrownIsNoRecord, SignsKeys, NEW msg, MsgFits(msg), NEW signers, NEW slots, NEW n, PlacesFor(slots, n, signers)
  PROVE  LET ws == WitnessesOf(msg, slots)
         IN /\ WitnessesFit(ws) /\ Len(ws) = n
            /\ \A i \in 1..n : ws[i].address = slots[i].address /\ ws[i].signature = Ed25519(ws[i].address, TxMsg_write(msg))
            /\ ToSet(Addresses(ws)) = KeysOf(signers)
<1> DEFINE ws == WitnessesOf(msg, slots)
           b == TxMsg_write(msg)
<1>1. n \in Nat /\ n < Half /\ DOMAIN slots = 1..n
  BY ListedIs DEF PlacesFor
<1>2. b \in Bytes
  BY MessagesSurvive
<1> HIDE DEF b
<1>3. Listed(ws, n) /\ \A i \in 1..n : ws[i] = [address |-> slots[i].address, signature |-> Ed25519(slots[i].signer.key, b)]
  BY <1>1 DEF Listed, WitnessesOf, b
<1> HIDE DEF ws
<1>4. \A i \in 1..n : /\ ws[i].address = slots[i].address /\ ws[i].signature = Ed25519(ws[i].address, b)
                      /\ ws[i].address \in Accounts /\ ws[i].signature \in Signatures
                      /\ ws[i] = [address |-> ws[i].address, signature |-> ws[i].signature]
  <2> SUFFICES ASSUME NEW i \in 1..n
               PROVE  /\ ws[i].address = slots[i].address /\ ws[i].signature = Ed25519(ws[i].address, b)
                      /\ ws[i].address \in Accounts /\ ws[i].signature \in Signatures
                      /\ ws[i] = [address |-> ws[i].address, signature |-> ws[i].signature]
    OBVIOUS
  <2> DEFINE a == slots[i].address
  <2>1. slots[i].signer.key = a /\ a \in Accounts
    BY DEF PlacesFor
  <2> DEFINE sig == Ed25519(a, b)
  <2>2. sig \in Signatures
    BY <1>2, <2>1 DEF SignsKeys
  <2>3. ws[i] = [address |-> a, signature |-> sig]
    BY <1>3, <2>1
  <2> HIDE DEF a, sig
  <2>4. ws[i].address = a /\ ws[i].signature = sig
    BY <2>3
  <2>. QED BY <2>1, <2>2, <2>3, <2>4 DEF a, sig
<1>5. Len(ws) = n
  BY <1>1, <1>3, ListedIs
<1>6. WitnessesFit(ws)
  BY <1>1, <1>3, <1>4, <1>5 DEF WitnessesFit, WitnessFits
<1>7. ToSet(Addresses(ws)) = KeysOf(signers)
  <2>1. ToSet(Addresses(ws)) = {ws[i].address : i \in 1..n}
    BY <1>5, <1>6, AddressesAre
  <2>2. {ws[i].address : i \in 1..n} = {slots[i].address : i \in 1..n}
    BY <1>4
  <2>. QED BY <2>1, <2>2 DEF PlacesFor
<1>. QED BY <1>4, <1>5, <1>6, <1>7 DEF ws, b

\* The offer is a number.
LEMMA OfferIs ==
  ASSUME NEW msg, MsgFits(msg)
  PROVE  msg.maxGas \in Nat /\ (assertPlanned(msg) <=> msg.maxGas > 0)
<1>1. TxMsgHead[2].name = "maxGas" /\ TxMsgHead[2].kind = "u64" /\ 2 \in 1..Len(TxMsgHead)
  BY DEF TxMsgHead, U64, Field
<1>2. PartFits(TxMsgHead, msg)
  BY DEF MsgFits
<1>3. FieldFits(TxMsgHead[2], msg.maxGas)
  BY <1>1, <1>2 DEF PartFits, MemberFits
<1>4. msg.maxGas \in Nat
  BY <1>1, <1>3 DEF FieldFits
<1>. QED BY <1>4 DEF assertPlanned

\* Signed with keys: written when the payer is one of those who sign.
LEMMA LocalIs ==
  ASSUME ThrownIsNoRecord, SignsKeys, NEW msg, MsgFits(msg), NEW signers, GivenSigners(signers)
  PROVE  LET local == signWithKeys(msg, signers)
             slots == witnessSlots(msg, signers)
             planned == msg.maxGas > 0 /\ Complete(msg, signers)
             signed == [msg |-> msg, witnesses |-> WitnessesOf(msg, slots)]
         IN /\ ~planned => local = Thrown /\ Serialized(local) = Thrown
            /\ planned =>
                 /\ local = signed /\ local # Thrown /\ SignedFits(signed)
                 /\ Right(signed) <=> (msg.type \in OpenTypes => msg.gasFrom \in KeysOf(signers))
                 /\ Serialized(local) = IF Right(signed) THEN SignedBytes(signed) ELSE Thrown
<1> DEFINE local == signWithKeys(msg, signers)
           slots == witnessSlots(msg, signers)
           ws == WitnessesOf(msg, slots)
           signed == [msg |-> msg, witnesses |-> ws]
<1>1. assertPlanned(msg) <=> msg.maxGas > 0
  BY OfferIs
<1>2. local = IF ~assertPlanned(msg) \/ slots = Thrown THEN Thrown ELSE signed
  BY DEF signWithKeys, WitnessesOf
<1>3. signed # Thrown
  <2>1. DOMAIN signed = {"msg", "witnesses"}
    OBVIOUS
  <2> HIDE DEF signed
  <2>. QED BY <2>1 DEF ThrownIsNoRecord
<1>4. ~Complete(msg, signers) => slots = Thrown
  BY SlotsAre
<1>5. CASE ~(msg.maxGas > 0 /\ Complete(msg, signers))
  BY <1>1, <1>2, <1>4, <1>5 DEF Serialized, Made
<1>6. CASE msg.maxGas > 0 /\ Complete(msg, signers)
  <2>1. PICK n \in Nat :
          /\ PlacesFor(slots, n, signers) /\ slots # Thrown
          /\ msg.type \notin OpenTypes =>
               n = Len(requiredWitnesses(msg)) /\ \A i \in 1..n : slots[i].address = requiredWitnesses(msg)[i]
    BY <1>6, SlotsAre
  <2>2. local = signed
    BY <1>1, <1>2, <1>6, <2>1
  <2> HIDE DEF slots, local
  <2>3. /\ WitnessesFit(ws) /\ Len(ws) = n
        /\ \A i \in 1..n : ws[i].address = slots[i].address
        /\ ToSet(Addresses(ws)) = KeysOf(signers)
    BY <2>1, WitnessesAre
  <2> HIDE DEF ws
  <2>4. SignedFits(signed) /\ signed.msg = msg /\ signed.witnesses = ws
    BY <2>3 DEF SignedFits
  <2>5. Right(signed) <=> (msg.type \in OpenTypes => msg.gasFrom \in KeysOf(signers))
    <3>1. CASE msg.type \in OpenTypes
      BY <2>3, <2>4, <3>1 DEF Right
    <3>2. CASE msg.type \notin OpenTypes
      <4>1. PICK m \in 0..2 : Listed(requiredWitnesses(msg), m) /\ Len(requiredWitnesses(msg)) = m
        BY <3>2, RequiredIs
      <4>2. m = n
        BY <2>1, <3>2, <4>1
      <4>3. Listed(Addresses(ws), n) /\ \A i \in 1..n : Addresses(ws)[i] = requiredWitnesses(msg)[i]
        BY <2>1, <2>3, <3>2, AddressesAre
      <4>4. Addresses(ws) = requiredWitnesses(msg)
        BY <4>1, <4>2, <4>3 DEF Listed
      <4>. QED BY <2>4, <3>2, <4>4 DEF Right
    <3>. QED BY <3>1, <3>2
  <2> HIDE DEF signed
  <2>6. SignedTxMsg_write(signed) = IF Right(signed) THEN SignedBytes(signed) ELSE Thrown
    BY <2>4, SignedWritten
  <2>7. Serialized(local) = SignedTxMsg_write(signed)
    BY <1>3, <2>2 DEF Serialized, Made
  <2>. QED BY <1>3, <1>6, <2>2, <2>4, <2>5, <2>6, <2>7 DEF signed, ws, local, slots
<1>. QED BY <1>5, <1>6

-----------------------------------------------------------------------------
(* Remote signers, and the envelope that goes out.                         *)

\* Remote signers sign what keys sign, each key asked once.
LEMMA RemoteIs ==
  ASSUME ThrownIsNoRecord, SignsKeys, NEW msg, MsgFits(msg), NEW signers, GivenSigners(signers)
  PROVE  LET remote == signWith(msg, signers)
             slots == witnessSlots(msg, signers)
             planned == msg.maxGas > 0 /\ Complete(msg, signers)
         IN /\ ~planned => remote = Thrown
            /\ planned =>
                 /\ remote # Thrown
                 /\ remote.signed = [msg |-> msg, witnesses |-> WitnessesOf(msg, slots)]
                 /\ KeysOf(remote.asked) = KeysOf(signers)
                 /\ Len(remote.asked) = Cardinality(KeysOf(signers))
                 /\ ToSet(remote.asked) \subseteq ToSet(signers)
<1> DEFINE remote == signWith(msg, signers)
           slots == witnessSlots(msg, signers)
           b == TxMsg_write(msg)
           ws == [i \in DOMAIN slots |-> [address |-> slots[i].address,
                                          signature |-> Ed25519(slots[FirstOf(slots, i)].signer.key, b)]]
           parts == [i \in DOMAIN slots |-> IF FirstOf(slots, i) = i THEN <<slots[i].signer>> ELSE <<>>]
           asked == FlattenSeq(parts)
           answer == [signed |-> [msg |-> msg, witnesses |-> ws], asked |-> asked]
<1>1. assertPlanned(msg) <=> msg.maxGas > 0
  BY OfferIs
<1>2. remote = IF ~assertPlanned(msg) \/ slots = Thrown THEN Thrown ELSE answer
  BY DEF signWith
<1>3. CASE ~(msg.maxGas > 0 /\ Complete(msg, signers))
  <2>1. ~Complete(msg, signers) => slots = Thrown
    BY SlotsAre
  <2> HIDE DEF answer, slots, remote
  <2>2. remote = Thrown
    BY <1>1, <1>2, <1>3, <2>1
  <2>. QED BY <1>3, <2>2 DEF remote
<1>4. CASE msg.maxGas > 0 /\ Complete(msg, signers)
  <2>1. PICK n \in Nat : PlacesFor(slots, n, signers) /\ slots # Thrown
    BY <1>4, SlotsAre
  <2>2. DOMAIN slots = 1..n
    BY <2>1, ListedIs DEF PlacesFor
  <2>3. remote = answer
    <3> HIDE DEF answer, slots, remote
    <3>. QED BY <1>1, <1>2, <1>4, <2>1
  <2> HIDE DEF slots, remote
  <2>4. answer # Thrown /\ answer.signed = [msg |-> msg, witnesses |-> ws] /\ answer.asked = asked
    <3> HIDE DEF ws, asked
    <3>1. DOMAIN answer = {"signed", "asked"}
      OBVIOUS
    <3>2. answer.signed = [msg |-> msg, witnesses |-> ws] /\ answer.asked = asked
      OBVIOUS
    <3> HIDE DEF answer
    <3>. QED BY <3>1, <3>2 DEF ThrownIsNoRecord
  <2>5. ws = WitnessesOf(msg, slots)
    <3>1. ASSUME NEW i \in 1..n PROVE slots[FirstOf(slots, i)].signer.key = slots[i].signer.key
      <4>1. PICK j : j = FirstOf(slots, i)
        OBVIOUS
      <4>2. j \in 1..i /\ slots[j].address = slots[i].address
        BY <2>1, <4>1, FirstIs
      <4>3. j \in 1..n
        BY <4>2
      <4>4. slots[j].signer.key = slots[j].address /\ slots[i].signer.key = slots[i].address
        BY <2>1, <4>3 DEF PlacesFor
      <4>. QED BY <4>1, <4>2, <4>4
    <3>2. \A i \in 1..n : [address |-> slots[i].address, signature |-> Ed25519(slots[FirstOf(slots, i)].signer.key, b)]
                            = [address |-> slots[i].address, signature |-> Ed25519(slots[i].signer.key, b)]
      BY <3>1
    <3>. QED BY <2>2, <3>2 DEF WitnessesOf
  <2>6. /\ KeysOf(asked) = KeysOf(signers) /\ Len(asked) = Cardinality(KeysOf(signers))
        /\ ToSet(asked) \subseteq ToSet(signers)
    <3> DEFINE key == [i \in 1..n |-> slots[i].address]
               who == [i \in 1..n |-> slots[i].signer]
               first == [i \in 1..n |-> FirstOf(slots, i) = i]
    <3>1. \A i \in 1..n : key[i] = slots[i].address /\ who[i] = slots[i].signer /\ (first[i] <=> FirstOf(slots, i) = i)
      OBVIOUS
    <3>2. parts = [i \in 1..n |-> IF first[i] THEN <<who[i]>> ELSE <<>>]
      BY <2>2
    <3> HIDE DEF key, who, first
    <3>3. \A i \in 1..n : first[i] <=> \A j \in 1..(i - 1) : key[j] # key[i]
      <4> SUFFICES ASSUME NEW i \in 1..n PROVE first[i] <=> \A j \in 1..(i - 1) : key[j] # key[i]
        OBVIOUS
      <4>1. FirstOf(slots, i) = i <=> \A j \in 1..(i - 1) : slots[j].address # slots[i].address
        BY <2>1, FirstIs
      <4>2. \A j \in 1..(i - 1) : j \in 1..n
        OBVIOUS
      <4>. QED BY <3>1, <4>1, <4>2
    <3>4. \A i \in 1..n : who[i] \in ToSet(signers)
      BY <2>1, <3>1 DEF PlacesFor
    <3>5. /\ asked \in Seq(ToSet(signers)) /\ Len(asked) = Cardinality(KeysUpTo(n, key))
          /\ \A x : (\E k \in 1..Len(asked) : asked[k] = x) <=> \E i \in 1..n : first[i] /\ who[i] = x
      <4> DEFINE S == ToSet(signers)
                 once == Firsts(n, first, who)
      <4>1. asked = once
        BY <3>2 DEF Firsts
      <4> HIDE DEF S, parts, asked
      <4>2. FirstsAre(n, S, key, who, first)
        BY <3>3, <3>4 DEF FirstsAre, S
      <4>3. /\ once \in Seq(S) /\ Len(once) = Cardinality(KeysUpTo(n, key))
            /\ \A x : (\E k \in 1..Len(once) : once[k] = x) <=> \E i \in 1..n : first[i] /\ who[i] = x
        BY <4>2, OncePerKey
      <4> HIDE DEF once
      <4>. QED BY <4>1, <4>3 DEF S
    <3> HIDE DEF asked
    <3>6. KeysUpTo(n, key) = KeysOf(signers)
      BY <3>1, <2>1 DEF PlacesFor, KeysUpTo
    <3>7. ToSet(asked) \subseteq ToSet(signers) /\ DOMAIN asked = 1..Len(asked)
      BY <3>5, LenProperties DEF ToSet
    <3>8. KeysOf(asked) = {asked[k].key : k \in 1..Len(asked)}
      BY <3>7 DEF KeysOf
    <3>9. ASSUME NEW i \in 1..n PROVE \E j \in 1..n : first[j] /\ key[j] = key[i]
      <4>1. PICK j : j = FirstOf(slots, i)
        OBVIOUS
      <4>2. j \in 1..i /\ slots[j].address = slots[i].address
        BY <2>1, <4>1, FirstIs
      <4>3. j \in 1..n /\ FirstOf(slots, j) \in 1..j /\ slots[FirstOf(slots, j)].address = slots[j].address
        BY <4>2, <2>1, FirstIs
      <4>4. FirstOf(slots, j) = j
        <5> DEFINE T == {k \in 1..i : slots[k].address = slots[i].address}
                   h == FirstOf(slots, j)
        <5>1. h \in 1..i /\ h <= j
          BY <4>2, <4>3
        <5>2. h \in T /\ T \in SUBSET (1..i) /\ i \in Nat /\ i \in T
          BY <4>2, <4>3, <5>1
        <5>3. j = Min(T)
          BY <4>1 DEF FirstOf
        <5> HIDE DEF T, h
        <5>4. Min(T) <= h
          BY <5>2, LeastIs
        <5>. QED BY <4>2, <5>1, <5>3, <5>4 DEF h
      <4>. QED BY <3>1, <4>2, <4>3, <4>4
    <3>10. \A i \in 1..n : who[i].key = key[i]
      BY <2>1, <3>1 DEF PlacesFor
    <3>11. \A a : a \in KeysOf(asked) <=> a \in KeysUpTo(n, key)
      <4>1. ASSUME NEW k \in 1..Len(asked) PROVE asked[k].key \in {key[i] : i \in 1..n}
        <5>1. PICK i \in 1..n : first[i] /\ who[i] = asked[k]
          BY <3>5
        <5>. QED BY <3>10, <5>1
      <4>2. ASSUME NEW i \in 1..n PROVE \E k \in 1..Len(asked) : asked[k].key = key[i]
        <5>1. PICK j \in 1..n : first[j] /\ key[j] = key[i]
          BY <3>9
        <5>2. PICK k \in 1..Len(asked) : asked[k] = who[j]
          BY <3>5, <5>1
        <5>. QED BY <3>10, <5>1, <5>2
      <4>. QED BY <3>8, <4>1, <4>2 DEF KeysUpTo
    <3>. QED BY <3>5, <3>6, <3>7, <3>11
  <2> HIDE DEF answer, ws, asked
  <2>. QED BY <1>4, <2>3, <2>4, <2>5, <2>6 DEF remote, slots
<1>. QED BY <1>3, <1>4

\* Who must sign, by the type of the message.
LEMMA CompleteIs ==
  ASSUME NEW msg, MsgFits(msg), NEW signers, GivenSigners(signers)
  PROVE  LET named == {msg.gasFrom} \cup (IF msg.type \in GasPayerTypes THEN {gasPayerOwner(msg)} ELSE {})
         IN /\ Complete(msg, signers) /\ (msg.type \in OpenTypes => msg.gasFrom \in KeysOf(signers)) <=>
                 CASE msg.type \in OpenTypes -> msg.gasFrom \in KeysOf(signers)
                   [] msg.type = "Phantasma_Raw" -> signers = <<>>
                   [] OTHER -> KeysOf(signers) = named
            /\ msg.type \notin OpenTypes \cup {"Phantasma_Raw"} => ToSet(requiredWitnesses(msg)) = named
<1> DEFINE a == msg.gasFrom
           o == gasPayerOwner(msg)
           required == requiredWitnesses(msg)
<1>1. CASE msg.type \in OpenTypes
  BY <1>1 DEF OpenTypes, Complete
<1>2. CASE msg.type = "Phantasma_Raw"
  <2>1. msg.type \notin OpenTypes /\ required = <<>>
    BY <1>2, RequiredIs
  <2>2. ToSet(required) = {}
    BY <2>1 DEF ToSet
  <2>3. KeysOf(signers) = {} <=> signers = <<>>
    BY KeysAre
  <2> HIDE DEF required
  <2>. QED BY <1>2, <2>1, <2>2, <2>3 DEF Complete, required
<1>3. CASE msg.type \in GasPayerTypes
  <2>1. msg.type \notin OpenTypes /\ msg.type # "Phantasma_Raw"
    BY <1>3 DEF OpenTypes, GasPayerTypes
  <2>2. required = <<a, o>>
    BY <1>3, RequiredIs
  <2>3. ToSet(<<a, o>>) = {a, o}
    <3> HIDE DEF a, o
    <3>1. DOMAIN <<a, o>> = {1, 2} /\ <<a, o>>[1] = a /\ <<a, o>>[2] = o
      OBVIOUS
    <3>. QED BY <3>1 DEF ToSet
  <2>4. ToSet(required) = {a} \cup {o}
    <3> HIDE DEF a, o, required
    <3>. QED BY <2>2, <2>3
  <2> HIDE DEF a, o, required
  <2>. QED BY <1>3, <2>1, <2>4 DEF Complete, a, o, required
<1>4. CASE msg.type \notin OpenTypes \cup GasPayerTypes \cup {"Phantasma_Raw"}
  <2>1. required = <<a>>
    BY <1>4, RequiredIs
  <2>2. ToSet(<<a>>) = {a}
    <3> HIDE DEF a
    <3>1. DOMAIN <<a>> = {1} /\ <<a>>[1] = a
      OBVIOUS
    <3>. QED BY <3>1 DEF ToSet
  <2>3. ToSet(required) = {a}
    <3> HIDE DEF a, required
    <3>. QED BY <2>1, <2>2
  <2> HIDE DEF a, required
  <2>. QED BY <1>4, <2>3 DEF Complete, a, required
<1>. QED BY <1>1, <1>2, <1>3, <1>4

-----------------------------------------------------------------------------
(* Envelopes that go out.                                                  *)

\* Those whom the message names have signed what was sent.
LEMMA SignedByThem ==
  ASSUME ThrownIsNoRecord, SignsKeys, NEW msg, MsgFits(msg), NEW signers, NEW slots, NEW n, PlacesFor(slots, n, signers),
         Right([msg |-> msg, witnesses |-> WitnessesOf(msg, slots)])
  PROVE  SignedBy([msg |-> msg, witnesses |-> WitnessesOf(msg, slots)])
<1> DEFINE ws == WitnessesOf(msg, slots)
           signed == [msg |-> msg, witnesses |-> ws]
<1>1. /\ WitnessesFit(ws) /\ Len(ws) = n
      /\ \A i \in 1..n : ws[i].signature = Ed25519(ws[i].address, TxMsg_write(msg))
  BY WitnessesAre
<1>2. Right(signed)
  OBVIOUS
<1> HIDE DEF ws
<1>3. signed.msg = msg /\ signed.witnesses = ws
  OBVIOUS
<1> HIDE DEF signed
<1>4. DOMAIN ws = 1..n
  BY <1>1, AddressesAre
<1>5. msg.type # "Phantasma_Raw" => msg.gasFrom \in ToSet(Addresses(ws))
  <2>1. CASE msg.type \in OpenTypes
    BY <1>2, <1>3, <2>1 DEF Right
  <2>2. CASE msg.type \notin OpenTypes /\ msg.type # "Phantasma_Raw"
    <3>1. Addresses(ws) = requiredWitnesses(msg)
      BY <1>2, <1>3, <2>2 DEF Right
    <3> DEFINE a == msg.gasFrom
               o == gasPayerOwner(msg)
               r == requiredWitnesses(msg)
    <3>2. r = <<a, o>> \/ r = <<a>>
      BY <2>2, RequiredIs
    <3> HIDE DEF a, o, r
    <3>3. DOMAIN <<a, o>> = {1, 2} /\ <<a, o>>[1] = a /\ DOMAIN <<a>> = {1} /\ <<a>>[1] = a
      OBVIOUS
    <3>4. 1 \in DOMAIN r /\ r[1] = a
      BY <3>2, <3>3
    <3>. QED BY <3>1, <3>4 DEF ToSet, a, r
  <2>. QED BY <2>1, <2>2
<1>6. msg.type \in GasPayerTypes => Addresses(ws) = <<msg.gasFrom, gasPayerOwner(msg)>>
  <2> SUFFICES ASSUME msg.type \in GasPayerTypes PROVE Addresses(ws) = <<msg.gasFrom, gasPayerOwner(msg)>>
    OBVIOUS
  <2>1. msg.type \notin OpenTypes /\ requiredWitnesses(msg) = <<msg.gasFrom, gasPayerOwner(msg)>>
    BY RequiredIs
  <2>2. Addresses(ws) = requiredWitnesses(msg)
    BY <1>2, <1>3, <2>1 DEF Right
  <2>. QED BY <2>1, <2>2, Zenon
<1>. QED BY <1>1, <1>3, <1>4, <1>5, <1>6 DEF SignedBy, signed, ws

\* Signed alone: the same envelope as with that one key, or none.
LEMMA AloneIs ==
  ASSUME ThrownIsNoRecord, SignsKeys, NEW msg, MsgFits(msg), NEW signers, GivenSigners(signers), Len(signers) = 1
  PROVE  Serialized(signAlone(msg, signers[1])) \in {Serialized(signWithKeys(msg, signers)), Thrown}
<1> DEFINE signer == signers[1]
           b == TxMsg_write(msg)
           w == [address |-> signer.key, signature |-> Ed25519(signer.key, b)]
           signed == [msg |-> msg, witnesses |-> <<w>>]
           local == signWithKeys(msg, signers)
           s == Serialized(signAlone(msg, signer))
           slots == witnessSlots(msg, signers)
<1>1. assertPlanned(msg) <=> msg.maxGas > 0
  BY OfferIs
<1>2. CASE ~assertPlanned(msg)
  BY <1>2 DEF signAlone, Serialized, Made
<1>3. CASE assertPlanned(msg)
  <2>1. signed # Thrown
    <3>1. DOMAIN signed = {"msg", "witnesses"}
      OBVIOUS
    <3> HIDE DEF signed
    <3>. QED BY <3>1 DEF ThrownIsNoRecord
  <2>2. signAlone(msg, signer) = signed
    BY <1>3 DEF signAlone
  <2>3. s = SignedTxMsg_write(signed)
    <3> HIDE DEF signed
    <3>. QED BY <2>1, <2>2 DEF Serialized, Made
  <2> HIDE DEF s
  <2>4. signer.key \in Accounts /\ b \in Bytes
    BY MessagesSurvive DEF GivenSigners
  <2> HIDE DEF signer, b
  <2>5. WitnessFits(w)
    <3> DEFINE a == signer.key
               sig == Ed25519(a, b)
    <3>1. sig \in Signatures /\ a \in Accounts /\ w = [address |-> a, signature |-> sig]
      BY <2>4 DEF SignsKeys
    <3> HIDE DEF a, sig
    <3>. QED BY <3>1 DEF WitnessFits
  <2>6. w.address = signer.key
    OBVIOUS
  <2>7. PICK ws : ws = <<w>>
    OBVIOUS
  <2>7a. signed = [msg |-> msg, witnesses |-> ws]
    BY <2>7
  <2> HIDE DEF w
  <2>8. Listed(ws, 1) /\ Len(ws) = 1 /\ ws[1] = w
    BY <2>7, SingleListed, w \in {w}
  <2>9. WitnessesFit(ws)
    BY HalfIsEnough, <2>5, <2>8 DEF WitnessesFit
  <2>10. signed.msg = msg /\ signed.witnesses = ws
    BY <2>7a
  <2> HIDE DEF signed
  <2>11. SignedFits(signed)
    BY <2>7a, <2>9, <2>10 DEF SignedFits
  <2>12. s = IF Right(signed) THEN SignedBytes(signed) ELSE Thrown
    BY <2>3, <2>11, SignedWritten
  <2>13. CASE ~Right(signed)
    BY <2>12, <2>13 DEF s, signer
  <2>14. CASE Right(signed)
    <3>1. /\ DOMAIN Addresses(ws) = 1..1 /\ Listed(Addresses(ws), 1) /\ Len(Addresses(ws)) = 1
          /\ Addresses(ws)[1] = signer.key
      BY <2>6, <2>8, <2>9, AddressesAre
    <3>2. KeysOf(signers) = {signer.key}
      BY KeysAre DEF signer
    <3>3. Complete(msg, signers)
      <4> SUFFICES ASSUME msg.type \notin OpenTypes PROVE KeysOf(signers) = ToSet(requiredWitnesses(msg))
        BY DEF Complete
      <4>1. Addresses(ws) = requiredWitnesses(msg)
        BY <2>10, <2>14 DEF Right
      <4>2. 1..1 = {1}
        OBVIOUS
      <4>3. ToSet(Addresses(ws)) = {signer.key}
        BY <3>1, <4>2 DEF ToSet
      <4>. QED BY <3>2, <4>1, <4>3
    <3>4. PICK n \in Nat :
            /\ PlacesFor(slots, n, signers)
            /\ msg.type \in OpenTypes => n = Len(signers)
            /\ msg.type \notin OpenTypes => n = Len(requiredWitnesses(msg))
      BY <3>3, SlotsAre
    <3>5. n = 1
      BY <2>10, <2>14, <3>1, <3>4 DEF Right
    <3> HIDE DEF slots
    <3>6. slots[1].address = signer.key /\ slots[1].signer.key = signer.key /\ DOMAIN slots = 1..1
      <4>1. 1 \in 1..1 /\ slots[1].address \in {slots[i].address : i \in 1..1}
        OBVIOUS
      <4>. QED BY <3>2, <3>4, <3>5, <4>1, ListedIs DEF PlacesFor
    <3> DEFINE vs == WitnessesOf(msg, slots)
    <3>7. Listed(vs, 1) /\ vs[1] = w
      <4>1. vs = [i \in 1..1 |-> [address |-> slots[i].address, signature |-> Ed25519(slots[i].signer.key, b)]]
        BY <3>6 DEF WitnessesOf, b
      <4>2. vs[1] = [address |-> slots[1].address, signature |-> Ed25519(slots[1].signer.key, b)]
        BY <4>1
      <4>3. vs[1] = w
        BY <3>6, <4>2 DEF w
      <4>4. Listed(vs, 1)
        BY <4>1 DEF Listed
      <4>. QED BY <4>3, <4>4
    <3> HIDE DEF vs
    <3>8. vs = ws
      BY <2>8, <3>7 DEF Listed
    <3>9. Serialized(local) = IF Right([msg |-> msg, witnesses |-> vs]) THEN SignedBytes([msg |-> msg, witnesses |-> vs]) ELSE Thrown
      BY <1>1, <1>3, <3>3, LocalIs DEF vs, slots
    <3>10. Serialized(local) = SignedBytes(signed)
      BY <2>7a, <2>14, <3>8, <3>9
    <3>. QED BY <2>12, <2>14, <3>10 DEF s, signer
  <2>. QED BY <2>13, <2>14
<1>. QED BY <1>2, <1>3

\* An envelope goes out exactly when those who must sign were given, signed by them, and
\* no remote signer is asked twice or for nothing.
LEMMA EnvelopeIsSound ==
  ASSUME ThrownIsNoRecord, SignsKeys, NEW msg, MsgFits(msg), NEW signers, GivenSigners(signers)
  PROVE  EnvelopeSound(msg, signers)
<1> DEFINE local == signWithKeys(msg, signers)
           remote == signWith(msg, signers)
           s == Serialized(local)
           slots == witnessSlots(msg, signers)
           signed == [msg |-> msg, witnesses |-> WitnessesOf(msg, slots)]
           planned == msg.maxGas > 0 /\ Complete(msg, signers)
           named == {msg.gasFrom} \cup (IF msg.type \in GasPayerTypes THEN {gasPayerOwner(msg)} ELSE {})
           given == CASE msg.type \in OpenTypes -> msg.gasFrom \in KeysOf(signers)
                      [] msg.type = "Phantasma_Raw" -> signers = <<>>
                      [] OTHER -> KeysOf(signers) = named
<1>1. /\ ~planned => local = Thrown /\ s = Thrown
      /\ planned =>
           /\ local = signed /\ local # Thrown /\ SignedFits(signed)
           /\ Right(signed) <=> (msg.type \in OpenTypes => msg.gasFrom \in KeysOf(signers))
           /\ s = IF Right(signed) THEN SignedBytes(signed) ELSE Thrown
  <2> HIDE DEF s, local, signed
  <2>. QED BY LocalIs DEF s, local, signed
<1>2. given <=> Complete(msg, signers) /\ (msg.type \in OpenTypes => msg.gasFrom \in KeysOf(signers))
  BY CompleteIs
<1>3. /\ ~planned => remote = Thrown
      /\ planned =>
           /\ remote # Thrown /\ remote.signed = signed
           /\ KeysOf(remote.asked) = KeysOf(signers) /\ Len(remote.asked) = Cardinality(KeysOf(signers))
           /\ ToSet(remote.asked) \subseteq ToSet(signers)
  <2> HIDE DEF remote, signed
  <2>. QED BY RemoteIs DEF remote, signed
<1>4. planned /\ Right(signed) => SignedBytes(signed) # Thrown
  <2> HIDE DEF signed
  <2>. QED BY <1>1, EnvelopeLeads, ThrownAssumption DEF Bytes
<1>5. planned /\ Right(signed) => SignedBy(signed)
  <2> SUFFICES ASSUME planned, Right(signed) PROVE SignedBy(signed)
    OBVIOUS
  <2>1. PICK n \in Nat : PlacesFor(slots, n, signers)
    BY SlotsAre
  <2> HIDE DEF slots
  <2>. QED BY <2>1, SignedByThem
<1>6. planned /\ Right(signed) => Delivered(signed, SignedBytes(signed))
  <2> HIDE DEF signed
  <2>. QED BY <1>1, EnvelopeDelivered
<1>7. Len(signers) = 1 => Serialized(signAlone(msg, signers[1])) \in {s, Thrown}
  BY AloneIs
<1> HIDE DEF local, remote, s, signed, given
<1>8. s # Thrown <=> msg.maxGas > 0 /\ given
  BY <1>1, <1>2, <1>4
<1>9. s # Thrown => SignedBy(local) /\ Delivered(local, s)
  BY <1>1, <1>4, <1>5, <1>6
<1>10. local = Thrown <=> remote = Thrown
  BY <1>1, <1>3
<1>11. remote # Thrown =>
         /\ remote.signed = local
         /\ KeysOf(remote.asked) = KeysOf(signers)
         /\ Len(remote.asked) = Cardinality(KeysOf(signers))
         /\ ToSet(remote.asked) \subseteq ToSet(signers)
  BY <1>1, <1>3
<1>12. EnvelopeSound(msg, signers) <=>
         \A l \in {local}, r \in {remote} : \A t \in {Serialized(l)} :
           /\ t # Thrown <=> msg.maxGas > 0 /\ given
           /\ t # Thrown => SignedBy(l) /\ Delivered(l, t)
           /\ l = Thrown <=> r = Thrown
           /\ r # Thrown =>
                /\ r.signed = l
                /\ KeysOf(r.asked) = KeysOf(signers)
                /\ Len(r.asked) = Cardinality(KeysOf(signers))
                /\ ToSet(r.asked) \subseteq ToSet(signers)
           /\ Len(signers) = 1 => Serialized(signAlone(msg, signers[1])) \in {t, Thrown}
  BY DEF EnvelopeSound, local, remote, given
<1>. QED BY <1>7, <1>8, <1>9, <1>10, <1>11, <1>12 DEF s

-----------------------------------------------------------------------------
(* Planned and signed in one call.                                         *)

\* How many will sign, as a plan counts them.
Counted(msg, signers) == IF msg.type \in OpenTypes THEN Len(signers) ELSE NotGiven
\* The estimate for an envelope of that length, if there is one, is of limits a message can carry.
OfferFits(msg, signers) ==
    LET quote == Quote(msg, envelopeBytes(msg, Counted(msg, signers)))
    IN msg.maxGas = 0 /\ quote # Thrown =>
         \A n \in {quote.maxGas, quote.maxData} : n \in Nat /\ n < Power[LongSize]

\* What an envelope says when it is read, and how long it is.
SentAs(msg, signers, s, ws) ==
    /\ SignedTxMsg_read(s) = Got([msg |-> msg, witnesses |-> ws], <<>>)
    /\ SignedBy([msg |-> msg, witnesses |-> ws]) /\ WitnessesFit(ws)
    /\ Len(s) = Len(Join(TxMsg_write(msg), WitnessBytes(msg, ws)))
    /\ IF msg.type \in OpenTypes THEN Len(ws) = Len(signers) /\ Len(ws) >= 1
       ELSE Len(ws) = Len(requiredWitnesses(msg))

\* An envelope says who signed what.
LEMMA SentIs ==
  ASSUME ThrownIsNoRecord, SignsKeys, NEW msg, MsgFits(msg), NEW signers, GivenSigners(signers),
         NEW s, s = Serialized(signWithKeys(msg, signers)), s # Thrown
  PROVE  \E ws : SentAs(msg, signers, s, ws)
<1> DEFINE slots == witnessSlots(msg, signers)
           ws == WitnessesOf(msg, slots)
           signed == [msg |-> msg, witnesses |-> ws]
           local == signWithKeys(msg, signers)
<1>1. /\ msg.maxGas > 0 /\ Complete(msg, signers) /\ SignedFits(signed) /\ Right(signed) /\ s = SignedBytes(signed)
      /\ msg.type \in OpenTypes => msg.gasFrom \in KeysOf(signers)
  <2> HIDE DEF signed
  <2>. QED BY LocalIs DEF signed
<1>2. PICK n \in Nat : /\ PlacesFor(slots, n, signers)
                       /\ msg.type \in OpenTypes => n = Len(signers)
                       /\ msg.type \notin OpenTypes => n = Len(requiredWitnesses(msg))
  BY <1>1, SlotsAre
<1> HIDE DEF slots
<1>3. WitnessesFit(ws) /\ Len(ws) = n
  BY <1>2, WitnessesAre
<1>4. SignedBy(signed)
  BY <1>1, <1>2, SignedByThem
<1>5. msg.type \in OpenTypes => n >= 1
  <2> SUFFICES ASSUME msg.type \in OpenTypes, n = 0 PROVE FALSE
    OBVIOUS
  <2>1. {slots[i].address : i \in 1..0} = {}
    OBVIOUS
  <2>2. msg.gasFrom \in KeysOf(signers)
    BY <1>1
  <2>. QED BY <1>2, <2>1, <2>2 DEF PlacesFor
<1> HIDE DEF ws
<1>6. signed.msg = msg /\ signed.witnesses = ws
  OBVIOUS
<1> HIDE DEF signed
<1>7. SignedTxMsg_read(s) = Got(signed, <<>>)
  BY <1>1, EnvelopeDelivered DEF Delivered
<1>8. s = Join(TxMsg_write(msg), WitnessBytes(msg, ws))
  BY <1>1, <1>6 DEF SignedBytes
<1>. QED BY <1>2, <1>3, <1>4, <1>5, <1>7, <1>8 DEF signed, SentAs

\* A plan made before anybody signs is for the envelope that goes out.
LEMMA PlansFit ==
  ASSUME ThrownIsNoRecord, SignsKeys, NEW msg, MsgFits(msg), NEW signers, GivenSigners(signers), OfferFits(msg, signers)
  PROVE  PlanFits(msg, signers)
<1> DEFINE count == Counted(msg, signers)
           length == envelopeBytes(msg, count)
           offer == IF msg.type = "Phantasma_Raw" \/ length = Thrown THEN Thrown ELSE Quote(msg, length)
           plan == planAndSignWithKeys(msg, signers, NotGiven)
           quote == Quote(msg, Len(plan))
<1>1. msg.maxGas \in Nat
  BY OfferIs
<1>2. requiredWitnesses(msg) = NotGiven <=> msg.type \in OpenTypes
  BY RequiredIs
<1>3a. planFees(msg, count) = offer
  BY DEF planFees, Made
<1> HIDE DEF offer
<1>3. plan = IF msg.maxGas # 0 THEN Serialized(signWithKeys(msg, signers))
             ELSE IF offer = Thrown THEN Thrown ELSE Serialized(signWithKeys(apply(msg, offer), signers))
  BY <1>2, <1>3a DEF planAndSignWithKeys, Made, Counted, apply
<1> HIDE DEF plan, length, count
<1> SUFFICES ASSUME plan # Thrown, NEW read, read = SignedTxMsg_read(plan)
             PROVE  /\ read.rest = <<>> /\ SignedBy(read.v)
                    /\ msg.maxGas # 0 => read.v.msg = msg
                    /\ msg.maxGas = 0 =>
                         /\ msg.type # "Phantasma_Raw" /\ quote # Thrown
                         /\ read.v.msg = [msg EXCEPT !.maxGas = quote.maxGas, !.maxData = quote.maxData]
  BY DEF PlanFits, plan
<1> HIDE DEF quote
<1>5. CASE msg.maxGas # 0
  <2>2. PICK ws : SignedTxMsg_read(plan) = Got([msg |-> msg, witnesses |-> ws], <<>>) /\ SignedBy([msg |-> msg, witnesses |-> ws])
    BY <1>3, <1>5, SentIs DEF SentAs
  <2> DEFINE signed == [msg |-> msg, witnesses |-> ws]
  <2>3. signed.msg = msg
    OBVIOUS
  <2> HIDE DEF signed
  <2>4. read.rest = <<>> /\ read.v = signed
    BY <2>2, GotIsApart DEF signed
  <2>. QED BY <1>5, <2>2, <2>3, <2>4 DEF signed
<1>6. CASE msg.maxGas = 0
  <2> DEFINE m == [msg EXCEPT !.maxGas = offer.maxGas, !.maxData = offer.maxData]
  <2>1. /\ length # Thrown /\ offer = Quote(msg, length) /\ offer # Thrown
        /\ msg.type # "Phantasma_Raw" /\ plan = Serialized(signWithKeys(m, signers))
    <3>1. m = apply(msg, offer)
      BY DEF apply
    <3> HIDE DEF m
    <3>. QED BY <1>3, <1>6, <3>1 DEF offer
  <2>2. \A n \in {offer.maxGas, offer.maxData} : n \in Nat /\ n < Power[LongSize]
    BY <1>6, <2>1 DEF OfferFits, length, count
  <2>3. MsgFits(m) /\ Len(TxMsg_write(m)) = Len(TxMsg_write(msg))
    BY <2>2, OfferLength
  <2>4. m.type = msg.type /\ m.gasFrom = msg.gasFrom /\ m.msg = msg.msg
    BY DEF MsgFits, TxMsg
  <2>5. requiredWitnesses(m) = requiredWitnesses(msg)
    <3> HIDE DEF m
    <3>. QED BY <2>4 DEF requiredWitnesses, gasPayerOwner
  <2>7. m = [msg EXCEPT !.maxGas = offer.maxGas, !.maxData = offer.maxData]
    OBVIOUS
  <2> HIDE DEF m
  <2>8a. PICK ws : SentAs(m, signers, plan, ws)
    BY <2>1, <2>3, SentIs
  <2>8. /\ SignedTxMsg_read(plan) = Got([msg |-> m, witnesses |-> ws], <<>>)
        /\ SignedBy([msg |-> m, witnesses |-> ws]) /\ WitnessesFit(ws)
        /\ Len(plan) = Len(Join(TxMsg_write(m), WitnessBytes(m, ws)))
        /\ IF m.type \in OpenTypes THEN Len(ws) = Len(signers) /\ Len(ws) >= 1
           ELSE Len(ws) = Len(requiredWitnesses(m))
    BY <2>8a DEF SentAs
  <2>9. Len(plan) = length
    <3>1. IF msg.type \in OpenTypes THEN Len(ws) >= 1 ELSE Len(ws) = Len(requiredWitnesses(msg))
      BY <2>4, <2>5, <2>8
    <3>2. count = IF msg.type \in OpenTypes THEN Len(ws) ELSE NotGiven
      BY <2>4, <2>8 DEF count, Counted
    <3>3. length = Len(Join(TxMsg_write(msg), WitnessBytes(msg, ws)))
      BY <2>8, <3>1, <3>2, PlannedLength DEF length
    <3>4. WitnessBytes(m, ws) = WitnessBytes(msg, ws)
      BY <2>4 DEF WitnessBytes
    <3> DEFINE a == TxMsg_write(m)
               b == TxMsg_write(msg)
               c == WitnessBytes(msg, ws)
    <3>5. a \in Bytes /\ b \in Bytes /\ c \in Bytes /\ Len(a) = Len(b)
      BY <2>3, <2>8, MessagesSurvive, BareLead, WholeLead DEF WitnessBytes
    <3> HIDE DEF a, b, c
    <3>6. Len(Join(a, c)) = Len(Join(b, c))
      BY <3>5, JoinSame
    <3>. QED BY <2>8, <3>3, <3>4, <3>6 DEF a, b, c
  <2> DEFINE signed == [msg |-> m, witnesses |-> ws]
  <2>10. signed.msg = m
    OBVIOUS
  <2> HIDE DEF signed
  <2>11. read.rest = <<>> /\ read.v = signed
    BY <2>8, GotIsApart DEF signed
  <2>12. quote = offer
    BY <2>1, <2>9 DEF quote
  <2>. QED BY <1>6, <2>1, <2>7, <2>8, <2>10, <2>11, <2>12 DEF signed
<1>. QED BY <1>5, <1>6

-----------------------------------------------------------------------------
(* Messages that are built.                                                *)

\* What a builder is given: accounts, numbers that fit their fields, instances.
ParamsFit(p) ==
    /\ p.from \in Accounts /\ p.to \in Accounts /\ p.gasPayer \in Accounts \cup {Nobody}
    /\ \A n \in {p.tokenId, p.amount, p.maxGas, p.maxData} : n \in Nat /\ n < Power[LongSize]
    /\ p.expiry \in Int /\ -(Power[LongSize] \div 2) <= p.expiry /\ p.expiry < Power[LongSize] \div 2
    /\ p.instanceIds \in Seq(Nat) /\ p.instanceIds # <<>> /\ Len(p.instanceIds) < Half
    /\ \A i \in 1..Len(p.instanceIds) : p.instanceIds[i] < Power[LongSize]

\* All of it that a payload may name.
Named(p) == [to |-> p.to, from |-> p.from, tokenId |-> p.tokenId, amount |-> p.amount,
             instanceId |-> p.instanceIds[1], instanceIds |-> p.instanceIds]
\* The fields of those payloads.
NamedFields == {Key("to"), Key("from"), U64("tokenId"), U64("amount"), Big("amount"), U64("instanceId"),
                U64s("instanceIds")}

\* They fit.
LEMMA NamedFit ==
  ASSUME NEW p, ParamsFit(p), NEW f \in NamedFields
  PROVE  MemberFits(f, Named(p)[f.name])
<1> DEFINE v == Named(p)
<1>1. /\ v.to = p.to /\ v.from = p.from /\ v.tokenId = p.tokenId /\ v.amount = p.amount
      /\ v.instanceId = p.instanceIds[1] /\ v.instanceIds = p.instanceIds
  BY DEF Named
<1> HIDE DEF v
<1>2. p.to \in Seq(Byte) /\ Len(p.to) = KeySize /\ p.from \in Seq(Byte) /\ Len(p.from) = KeySize
  BY DEF ParamsFit, Accounts, Bytes
<1>3. p.tokenId \in Nat /\ p.tokenId < Power[LongSize] /\ p.amount \in Nat /\ p.amount < Power[LongSize]
  BY DEF ParamsFit
<1>4. p.instanceIds[1] \in Nat /\ p.instanceIds[1] < Power[LongSize]
  <2>1. p.instanceIds \in Seq(Nat) /\ p.instanceIds # <<>>
    BY DEF ParamsFit
  <2>2. Len(p.instanceIds) \in Nat /\ Len(p.instanceIds) # 0 /\ \A i \in 1..Len(p.instanceIds) : p.instanceIds[i] \in Nat
    BY <2>1, LenProperties, EmptySeq
  <2>3. 1 \in 1..Len(p.instanceIds)
    BY <2>2
  <2>. QED BY <2>2, <2>3 DEF ParamsFit
<1>5. AsWord(p.amount) = p.amount
  <2>1. LongSize \in Nat /\ WordSize \in Nat /\ LongSize + 1 <= WordSize
    BY NumbersAssumption
  <2>2. Power[LongSize + 1] = Base * Power[LongSize] /\ Power[LongSize + 1] \in Nat /\ Power[LongSize] \in Nat
    BY <2>1, PowerNext
  <2>3. Power[LongSize + 1] <= Power[WordSize] /\ Power[WordSize] \in Nat
    BY <2>1, PowerOrder, PowerNext
  <2> DEFINE x == p.amount
             b == Power[LongSize]
             w == Power[WordSize]
  <2>4. x \in Nat /\ x < b /\ b \in Nat /\ w \in Nat
    BY <1>3, <2>2, <2>3
  <2>5. 4 * b <= w
    <3>1. Base \in Nat /\ Base >= 4
      BY NumbersAssumption
    <3>2. \A c, d \in Nat : c >= 4 => c * d >= 4 * d
      OBVIOUS
    <3>3. Base * b >= 4 * b
      BY <2>4, <3>1, <3>2
    <3>. QED BY <2>2, <2>3, <3>3
  <2> HIDE DEF x, b, w
  <2>6. x < w /\ x < w \div 2 /\ w > 0
    BY <2>4, <2>5
  <2>7. x % w = x
    BY <2>4, <2>6, Remainder
  <2>. QED BY <2>4, <2>6, <2>7 DEF AsWord, x, w
<1>6. CASE f \in {Key("to"), Key("from")}
  <2>1. f.kind = "key" /\ f.name \in {"to", "from"}
    BY <1>6 DEF Key, Field
  <2>. QED BY <1>1, <1>2, <2>1 DEF MemberFits, FieldFits, v
<1>7. CASE f \in {U64("tokenId"), U64("amount"), U64("instanceId")}
  <2>1. f.kind = "u64" /\ f.name \in {"tokenId", "amount", "instanceId"}
    BY <1>7 DEF U64, Field
  <2>. QED BY <1>1, <1>3, <1>4, <2>1 DEF MemberFits, FieldFits, v
<1>8. CASE f = Big("amount")
  <2>1. f.kind = "intx" /\ f.name = "amount"
    BY <1>8 DEF Big, Field
  <2>. QED BY <1>1, <1>3, <1>5, <2>1 DEF MemberFits, FieldFits, v
<1>9. CASE f = U64s("instanceIds")
  <2>1. f.kind = "u64s" /\ f.name = "instanceIds"
    BY <1>9 DEF U64s, Field
  <2>. QED BY <1>1, <2>1 DEF MemberFits, FieldFits, ParamsFit, v
<1>. QED BY <1>6, <1>7, <1>8, <1>9 DEF NamedFields, v

\* A layout of such fields.
OfNamed(layout) == Laid(layout) /\ \A i \in 1..Len(layout) : layout[i] \in NamedFields

\* A payload of them fits, and is what its layout names.
LEMMA PayloadFits ==
  ASSUME NEW p, ParamsFit(p), NEW layout, OfNamed(layout)
  PROVE  LET payload == Part(layout, Named(p))
         IN payload = Part(layout, payload) /\ PartFits(layout, payload)
<1> DEFINE v == Named(p)
           payload == Part(layout, v)
<1>1. \A name \in NamesOf(layout) : payload[name] = v[name]
  BY DEF Part
<1>2. payload = Part(layout, payload)
  <2>1. payload = [name \in NamesOf(layout) |-> payload[name]]
    BY DEF Part
  <2> HIDE DEF payload
  <2>. QED BY <2>1 DEF Part
<1> HIDE DEF v, payload
<1>3. \A i \in 1..Len(layout) : layout[i].name \in NamesOf(layout) /\ MemberFits(layout[i], v[layout[i].name])
  BY NamedFit DEF OfNamed, Laid, NamesOf, v
<1>4. PartFits(layout, payload)
  BY <1>1, <1>3 DEF PartFits, OfNamed
<1>. QED BY <1>2, <1>4 DEF payload, v

\* What the builders promise of a message.
BuiltFine(p, msg) ==
    LET payer == IF p.gasPayer = Nobody \/ msg.type = "MintFungible" THEN p.from ELSE p.gasPayer
    IN /\ ToSet(requiredWitnesses(msg)) = {payer, p.from}
       /\ requiredWitnesses(msg)[1] = payer
       /\ TxMsg_read(TxMsg_write(msg)) = Got(msg, <<>>)

\* A message with such a payload fits the wire.
LEMMA BaseFits ==
  ASSUME NEW p, ParamsFit(p), NEW payer \in Accounts, NEW c \in 1..17, OfNamed(Payloads[c])
  PROVE  LET msg == base(TxTypes[c], payer, p, Part(Payloads[c], Named(p)))
         IN MsgFits(msg) /\ msg.type = TxTypes[c] /\ msg.gasFrom = payer /\ msg.msg = Part(Payloads[c], Named(p))
<1> DEFINE payload == Part(Payloads[c], Named(p))
           msg == base(TxTypes[c], payer, p, payload)
<1>1. CodeOf(TxTypes[c]) = c
  BY CodeIs
<1>2. payload = Part(Payloads[c], payload) /\ PartFits(Payloads[c], payload)
  BY PayloadFits
<1> HIDE DEF payload
<1>3. /\ msg.type = TxTypes[c] /\ msg.expiry = p.expiry /\ msg.maxGas = p.maxGas /\ msg.maxData = p.maxData
      /\ msg.gasFrom = payer /\ msg.payload = <<>> /\ msg.msg = payload
      /\ msg = TxMsg(msg.type, msg, msg.msg)
  BY DEF base, TxMsg, applyTxLimits
<1> HIDE DEF msg
<1>4. PartFits(TxMsgHead, msg)
  <2>1. /\ Len(TxMsgHead) = 5 /\ \A i \in 1..5 : i = 1 \/ i = 2 \/ i = 3 \/ i = 4 \/ i = 5
        /\ TxMsgHead[1].name = "expiry" /\ TxMsgHead[2].name = "maxGas" /\ TxMsgHead[3].name = "maxData"
        /\ TxMsgHead[4].name = "gasFrom" /\ TxMsgHead[5].name = "payload"
        /\ TxMsgHead[1].kind = "i64" /\ TxMsgHead[2].kind = "u64" /\ TxMsgHead[3].kind = "u64"
        /\ TxMsgHead[4].kind = "key" /\ TxMsgHead[5].kind = "small"
    BY DEF TxMsgHead, I64, U64, Key, Short, Field
  <2>2. MemberFits(TxMsgHead[1], msg.expiry)
    BY <1>3, <2>1 DEF ParamsFit, MemberFits, FieldFits
  <2>3. MemberFits(TxMsgHead[2], msg.maxGas) /\ MemberFits(TxMsgHead[3], msg.maxData)
    BY <1>3, <2>1 DEF ParamsFit, MemberFits, FieldFits
  <2>4. MemberFits(TxMsgHead[4], msg.gasFrom)
    BY <1>3, <2>1 DEF Accounts, Bytes, MemberFits, FieldFits
  <2>5. MemberFits(TxMsgHead[5], msg.payload)
    <3>1. <<>> \in Seq(Byte) /\ Len(<<>>) = 0 /\ 0 < Base
      BY NumbersAssumption
    <3>. QED BY <1>3, <2>1, <3>1 DEF MemberFits, FieldFits
  <2>. QED BY <2>1, <2>2, <2>3, <2>4, <2>5, HeadNames DEF PartFits
<1>5. MsgFits(msg)
  BY <1>1, <1>2, <1>3, <1>4 DEF MsgFits
<1>. QED BY <1>3, <1>5 DEF msg, payload

\* Such a message is read back.
LEMMA BuiltIsRead ==
  ASSUME ThrownIsNoRecord, NEW msg, MsgFits(msg)
  PROVE  TxMsg_read(TxMsg_write(msg)) = Got(msg, <<>>)
<1> DEFINE s == TxMsg_write(msg)
<1>1. Leads(MsgReader, s, msg) /\ s \in Bytes
  BY MessagesSurvive
<1> HIDE DEF s
<1>2. Join(s, <<>>) = s /\ <<>> \in Bytes
  BY <1>1, JoinNothing
<1>. QED BY <1>1, <1>2 DEF Leads, MsgReader, s

\* The account whose tokens move pays, and signs alone.
LEMMA AlonePays ==
  ASSUME ThrownIsNoRecord, NEW p, ParamsFit(p), NEW c \in {4, 6, 8, 10, 11, 14}, OfNamed(Payloads[c]),
         p.gasPayer = Nobody \/ c = 10
  PROVE  BuiltFine(p, base(TxTypes[c], p.from, p, Part(Payloads[c], Named(p))))
<1> DEFINE msg == base(TxTypes[c], p.from, p, Part(Payloads[c], Named(p)))
<1>1. p.from \in Accounts /\ c \in 1..17
  BY DEF ParamsFit
<1>2. MsgFits(msg) /\ msg.type = TxTypes[c] /\ msg.gasFrom = p.from
  BY <1>1, BaseFits
<1> HIDE DEF msg
<1>3. msg.type \notin OpenTypes \cup GasPayerTypes \cup {"Phantasma_Raw"} /\ (c = 10 => msg.type = "MintFungible")
  BY <1>2 DEF TxTypes, OpenTypes, GasPayerTypes
<1> DEFINE a == p.from
           r == requiredWitnesses(msg)
<1>4. r = <<a>>
  BY <1>2, <1>3, RequiredIs
<1> HIDE DEF a, r
<1>5. DOMAIN <<a>> = {1} /\ <<a>>[1] = a
  OBVIOUS
<1>6. ToSet(r) = {a} /\ r[1] = a
  BY <1>4, <1>5 DEF ToSet
<1>7. TxMsg_read(TxMsg_write(msg)) = Got(msg, <<>>)
  BY <1>2, BuiltIsRead
<1>. QED BY <1>3, <1>6, <1>7 DEF BuiltFine, a, r, msg

\* Another account pays, and signs first.
LEMMA AnotherPays ==
  ASSUME ThrownIsNoRecord, NEW p, ParamsFit(p), NEW c \in {5, 7, 9, 12, 15}, OfNamed(Payloads[c]),
         "from" \in NamesOf(Payloads[c]), p.gasPayer # Nobody
  PROVE  BuiltFine(p, base(TxTypes[c], p.gasPayer, p, Part(Payloads[c], Named(p))))
<1> DEFINE payload == Part(Payloads[c], Named(p))
           msg == base(TxTypes[c], p.gasPayer, p, payload)
<1>1. p.gasPayer \in Accounts /\ c \in 1..17
  BY DEF ParamsFit
<1>2. MsgFits(msg) /\ msg.type = TxTypes[c] /\ msg.gasFrom = p.gasPayer /\ msg.msg = payload
  BY <1>1, BaseFits
<1>3. payload.from = p.from
  BY DEF Part, Named
<1> HIDE DEF msg, payload
<1>4. msg.type \in GasPayerTypes /\ msg.type # "MintFungible"
  BY <1>2 DEF TxTypes, GasPayerTypes
<1> DEFINE a == p.gasPayer
           o == p.from
           r == requiredWitnesses(msg)
<1>5. r = <<a, o>>
  <2>1. r = <<msg.gasFrom, gasPayerOwner(msg)>>
    BY <1>2, <1>4, RequiredIs
  <2>2. gasPayerOwner(msg) = o /\ msg.gasFrom = a
    BY <1>2, <1>3 DEF gasPayerOwner
  <2> HIDE DEF r, a, o
  <2>. QED BY <2>1, <2>2, Zenon
<1> HIDE DEF a, o, r
<1>6. DOMAIN <<a, o>> = {1, 2} /\ <<a, o>>[1] = a /\ <<a, o>>[2] = o
  OBVIOUS
<1>7. ToSet(r) = {a, o} /\ r[1] = a
  BY <1>5, <1>6 DEF ToSet
<1>8. TxMsg_read(TxMsg_write(msg)) = Got(msg, <<>>)
  BY <1>2, BuiltIsRead
<1>. QED BY <1>4, <1>7, <1>8 DEF BuiltFine, a, o, r, msg, payload

\* A builder with a form for each of them.
LEMMA PairedIs ==
  ASSUME ThrownIsNoRecord, NEW p, ParamsFit(p), NEW c \in {4, 6, 8, 11, 14}, OfNamed(Payloads[c]), OfNamed(Payloads[c + 1]),
         NamesOf(Payloads[c + 1]) = NamesOf(Payloads[c]) \cup {"from"}
  PROVE  BuiltFine(p, Paired(<<TxTypes[c], TxTypes[c + 1]>>, p, Part(Payloads[c], Named(p))))
<1> DEFINE types == <<TxTypes[c], TxTypes[c + 1]>>
           d == c + 1
           v == Named(p)
           payload == Part(Payloads[c], v)
           paid == [name \in DOMAIN payload \cup {"from"} |-> IF name = "from" THEN p.from ELSE payload[name]]
<1>d. d \in {5, 7, 9, 12, 15} /\ types[1] = TxTypes[c] /\ types[2] = TxTypes[d]
  OBVIOUS
<1> HIDE DEF types, d
<1>1. Paired(types, p, payload) = IF p.gasPayer = Nobody THEN base(TxTypes[c], p.from, p, payload)
                                  ELSE base(TxTypes[d], p.gasPayer, p, paid)
  BY <1>d DEF Paired
<1>2. paid = Part(Payloads[d], v)
  <2>1. v.from = p.from
    BY DEF Named
  <2> HIDE DEF v
  <2>2. DOMAIN payload = NamesOf(Payloads[c]) /\ \A name \in NamesOf(Payloads[c]) : payload[name] = v[name]
    BY DEF Part
  <2> HIDE DEF payload
  <2>3. DOMAIN payload \cup {"from"} = NamesOf(Payloads[d])
    BY <2>2 DEF d
  <2>4. \A name \in NamesOf(Payloads[d]) : (IF name = "from" THEN p.from ELSE payload[name]) = v[name]
    BY <2>1, <2>2 DEF d
  <2>. QED BY <2>3, <2>4 DEF Part
<1> HIDE DEF paid
<1>3. p.gasPayer = Nobody => BuiltFine(p, base(TxTypes[c], p.from, p, payload))
  BY AlonePays
<1>4. p.gasPayer # Nobody => BuiltFine(p, base(TxTypes[d], p.gasPayer, p, paid))
  BY <1>d, <1>2, AnotherPays DEF d
<1> HIDE DEF payload
<1>. QED BY <1>1, <1>3, <1>4 DEF payload, v, types, d

-----------------------------------------------------------------------------
(* The builders.                                                           *)

\* What a layout of two such fields names.
LEMMA LayoutOfTwo ==
  ASSUME NEW a \in NamedFields, NEW b \in NamedFields, Laid(<<a, b>>)
  PROVE  OfNamed(<<a, b>>) /\ NamesOf(<<a, b>>) = {a.name, b.name}
BY DEF OfNamed, NamesOf

\* One of three.
LEMMA LayoutOfThree ==
  ASSUME NEW a \in NamedFields, NEW b \in NamedFields, NEW c \in NamedFields, Laid(<<a, b, c>>)
  PROVE  OfNamed(<<a, b, c>>) /\ NamesOf(<<a, b, c>>) = {a.name, b.name, c.name}
BY DEF OfNamed, NamesOf

\* One of four.
LEMMA LayoutOfFour ==
  ASSUME NEW a \in NamedFields, NEW b \in NamedFields, NEW c \in NamedFields, NEW d \in NamedFields, Laid(<<a, b, c, d>>)
  PROVE  OfNamed(<<a, b, c, d>>) /\ NamesOf(<<a, b, c, d>>) = {a.name, b.name, c.name, d.name}
BY DEF OfNamed, NamesOf

\* The layouts of what is built.
LEMMA Layouts ==
  /\ OfNamed(Payloads[4]) /\ NamesOf(Payloads[4]) = {"to", "tokenId", "amount"}
  /\ OfNamed(Payloads[5]) /\ NamesOf(Payloads[5]) = {"to", "from", "tokenId", "amount"}
  /\ OfNamed(Payloads[6]) /\ NamesOf(Payloads[6]) = {"to", "tokenId", "instanceId"}
  /\ OfNamed(Payloads[7]) /\ NamesOf(Payloads[7]) = {"to", "from", "tokenId", "instanceId"}
  /\ OfNamed(Payloads[8]) /\ NamesOf(Payloads[8]) = {"to", "tokenId", "instanceIds"}
  /\ OfNamed(Payloads[9]) /\ NamesOf(Payloads[9]) = {"to", "from", "tokenId", "instanceIds"}
  /\ OfNamed(Payloads[10]) /\ NamesOf(Payloads[10]) = {"tokenId", "to", "amount"}
  /\ OfNamed(Payloads[11]) /\ NamesOf(Payloads[11]) = {"tokenId", "amount"}
  /\ OfNamed(Payloads[12]) /\ NamesOf(Payloads[12]) = {"tokenId", "from", "amount"}
  /\ OfNamed(Payloads[14]) /\ NamesOf(Payloads[14]) = {"tokenId", "instanceId"}
  /\ OfNamed(Payloads[15]) /\ NamesOf(Payloads[15]) = {"tokenId", "from", "instanceId"}
<1> DEFINE to == Key("to")
           from == Key("from")
           token == U64("tokenId")
           amount == U64("amount")
           large == Big("amount")
           one == U64("instanceId")
           many == U64s("instanceIds")
<1>f. /\ to \in NamedFields /\ from \in NamedFields /\ token \in NamedFields /\ amount \in NamedFields
      /\ large \in NamedFields /\ one \in NamedFields /\ many \in NamedFields
      /\ to.name = "to" /\ from.name = "from" /\ token.name = "tokenId" /\ amount.name = "amount"
      /\ large.name = "amount" /\ one.name = "instanceId" /\ many.name = "instanceIds"
  BY DEF NamedFields, Key, U64, U64s, Big, Field
<1>p. /\ Payloads[4] = <<to, token, amount>>
      /\ Payloads[5] = <<to, from, token, amount>>
      /\ Payloads[6] = <<to, token, one>>
      /\ Payloads[7] = <<to, from, token, one>>
      /\ Payloads[8] = <<to, token, many>>
      /\ Payloads[9] = <<to, from, token, many>>
      /\ Payloads[10] = <<token, to, large>>
      /\ Payloads[11] = <<token, large>>
      /\ Payloads[12] = <<token, from, large>>
      /\ Payloads[14] = <<token, one>>
      /\ Payloads[15] = <<token, from, one>>
  BY DEF Payloads, TxMsgTransferFungible, TxMsgTransferFungibleGasPayer, TxMsgTransferNonFungibleSingle, TxMsgTransferNonFungibleSingleGasPayer, TxMsgTransferNonFungibleMulti, TxMsgTransferNonFungibleMultiGasPayer, TxMsgMintFungible, TxMsgBurnFungible, TxMsgBurnFungibleGasPayer, TxMsgBurnNonFungible, TxMsgBurnNonFungibleGasPayer
<1> HIDE DEF to, from, token, amount, large, one, many
<1>1. OfNamed(Payloads[4]) /\ NamesOf(Payloads[4]) = {"to", "tokenId", "amount"}
  BY <1>f, <1>p, LayoutOfThree, PayloadsLaid, SMTT(30)
<1>2. OfNamed(Payloads[5]) /\ NamesOf(Payloads[5]) = {"to", "from", "tokenId", "amount"}
  <2>1. Payloads[5] = <<to, from, token, amount>> /\ Laid(<<to, from, token, amount>>)
    BY <1>p, PayloadsLaid
  <2>2. OfNamed(<<to, from, token, amount>>) /\ NamesOf(<<to, from, token, amount>>) = {to.name, from.name, token.name, amount.name}
    BY <1>f, <2>1, LayoutOfFour
  <2>. QED BY <1>f, <2>1, <2>2
<1>3. OfNamed(Payloads[6]) /\ NamesOf(Payloads[6]) = {"to", "tokenId", "instanceId"}
  BY <1>f, <1>p, LayoutOfThree, PayloadsLaid, SMTT(30)
<1>4. OfNamed(Payloads[7]) /\ NamesOf(Payloads[7]) = {"to", "from", "tokenId", "instanceId"}
  <2>1. Payloads[7] = <<to, from, token, one>> /\ Laid(<<to, from, token, one>>)
    BY <1>p, PayloadsLaid
  <2>2. OfNamed(<<to, from, token, one>>) /\ NamesOf(<<to, from, token, one>>) = {to.name, from.name, token.name, one.name}
    BY <1>f, <2>1, LayoutOfFour
  <2>. QED BY <1>f, <2>1, <2>2
<1>5. OfNamed(Payloads[8]) /\ NamesOf(Payloads[8]) = {"to", "tokenId", "instanceIds"}
  BY <1>f, <1>p, LayoutOfThree, PayloadsLaid, SMTT(30)
<1>6. OfNamed(Payloads[9]) /\ NamesOf(Payloads[9]) = {"to", "from", "tokenId", "instanceIds"}
  <2>1. Payloads[9] = <<to, from, token, many>> /\ Laid(<<to, from, token, many>>)
    BY <1>p, PayloadsLaid
  <2>2. OfNamed(<<to, from, token, many>>) /\ NamesOf(<<to, from, token, many>>) = {to.name, from.name, token.name, many.name}
    BY <1>f, <2>1, LayoutOfFour
  <2>. QED BY <1>f, <2>1, <2>2
<1>7. OfNamed(Payloads[10]) /\ NamesOf(Payloads[10]) = {"tokenId", "to", "amount"}
  BY <1>f, <1>p, LayoutOfThree, PayloadsLaid, SMTT(30)
<1>8. OfNamed(Payloads[11]) /\ NamesOf(Payloads[11]) = {"tokenId", "amount"}
  BY <1>f, <1>p, LayoutOfTwo, PayloadsLaid
<1>9. OfNamed(Payloads[12]) /\ NamesOf(Payloads[12]) = {"tokenId", "from", "amount"}
  BY <1>f, <1>p, LayoutOfThree, PayloadsLaid, SMTT(30)
<1>10. OfNamed(Payloads[14]) /\ NamesOf(Payloads[14]) = {"tokenId", "instanceId"}
  BY <1>f, <1>p, LayoutOfTwo, PayloadsLaid
<1>11. OfNamed(Payloads[15]) /\ NamesOf(Payloads[15]) = {"tokenId", "from", "instanceId"}
  BY <1>f, <1>p, LayoutOfThree, PayloadsLaid, SMTT(30)
<1>. QED BY <1>1, <1>2, <1>3, <1>4, <1>5, <1>6, <1>7, <1>8, <1>9, <1>10, <1>11

\* A built message needs who pays, and whose tokens move, and is read back.
LEMMA BuiltIsSound ==
  ASSUME ThrownIsNoRecord, NEW p, ParamsFit(p)
  PROVE  BuiltSound(p)
<1> DEFINE Fine(c) == BuiltFine(p, Paired(<<TxTypes[c], TxTypes[c + 1]>>, p, Part(Payloads[c], Named(p))))
<1>1. Fine(4) /\ Fine(6) /\ Fine(8) /\ Fine(11) /\ Fine(14)
  BY Layouts, PairedIs
<1>2. BuiltFine(p, base(TxTypes[10], p.from, p, Part(Payloads[10], Named(p))))
  BY Layouts, AlonePays
<1>3. /\ Part(Payloads[4], Named(p)) = [to |-> p.to, tokenId |-> p.tokenId, amount |-> p.amount]
      /\ Part(Payloads[6], Named(p)) = [to |-> p.to, tokenId |-> p.tokenId, instanceId |-> p.instanceIds[1]]
      /\ Part(Payloads[8], Named(p)) = [to |-> p.to, tokenId |-> p.tokenId, instanceIds |-> p.instanceIds]
      /\ Part(Payloads[10], Named(p)) = [tokenId |-> p.tokenId, to |-> p.to, amount |-> p.amount]
      /\ Part(Payloads[11], Named(p)) = [tokenId |-> p.tokenId, amount |-> p.amount]
      /\ Part(Payloads[14], Named(p)) = [tokenId |-> p.tokenId, instanceId |-> p.instanceIds[1]]
  BY Layouts DEF Part, Named
<1>4. Fine(4) = BuiltFine(p, transferFungible(p))
  BY <1>3 DEF transferFungible, TxTypes
<1>5. Fine(11) = BuiltFine(p, burnFungible(p)) /\ Fine(14) = BuiltFine(p, burnNonFungible(p))
  BY <1>3 DEF burnFungible, burnNonFungible, TxTypes
<1>6. BuiltFine(p, mintFungible(p))
  BY <1>2, <1>3 DEF mintFungible, TxTypes
<1>7. BuiltFine(p, transferNonFungible(p))
  <2>1. p.instanceIds # <<>> /\ (Len(p.instanceIds) = 1 \/ Len(p.instanceIds) > 1)
    <3> DEFINE n == Len(p.instanceIds)
    <3>1. n \in Nat /\ n # 0
      BY LenProperties, EmptySeq DEF ParamsFit
    <3> HIDE DEF n
    <3>2. n = 1 \/ n > 1
      BY <3>1
    <3>. QED BY <3>2 DEF ParamsFit, n
  <2>2. CASE Len(p.instanceIds) = 1
    BY <1>1, <1>3, <2>1, <2>2 DEF transferNonFungible, TxTypes
  <2>3. CASE Len(p.instanceIds) > 1
    BY <1>1, <1>3, <2>1, <2>3 DEF transferNonFungible, TxTypes
  <2>. QED BY <2>1, <2>2, <2>3
<1> HIDE DEF Fine
<1>. QED BY <1>1, <1>4, <1>5, <1>6, <1>7 DEF BuiltSound, BuiltFine

\* EnvelopesSound holds of every message that fits the wire and of any signers: who must sign
\* does, the envelope is read back as it was signed and never from less, a plan made before
\* offers the gas and the storage of its length, and a raw message has no plan; and of every
\* message the builders make.
THEOREM EnvelopesAreSound ==
  ASSUME ThrownIsNoRecord, SignsKeys,
         sample.of = "message" =>
           MsgFits(sample.v[1]) /\ GivenSigners(sample.v[2]) /\ OfferFits(sample.v[1], sample.v[2]),
         sample.of = "built" => ParamsFit(sample.v)
  PROVE  EnvelopesSound
BY EnvelopeIsSound, PlansFit, BuiltIsSound DEF EnvelopesSound
=============================================================================
