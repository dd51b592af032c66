---------------------------- MODULE SetInduction ----------------------------
(***************************************************************************)
(* Induction and recursion, stated with sets instead of operators, as the  *)
(* provers cannot instantiate an operator; division by a symbolic modulus; *)
(* and sums over finite sets.                                              *)
(***************************************************************************)
EXTENDS Integers, FiniteSets, FiniteSetsExt, FiniteSetTheorems, WellFoundedInduction, TLAPS

-----------------------------------------------------------------------------
(* Induction and recursion. *)

\* A set of natural numbers has a least element.
LEMMA Least ==
  ASSUME NEW T \in SUBSET Nat, T # {}
  PROVE  \E x \in T : \A y \in T : x <= y
<1> DEFINE R == OpToRel(<, Nat)
<1>1. \A x, y \in Nat : <<x, y>> \in R <=> x < y
  BY DEF OpToRel
<1>2. IsWellFoundedOn(R, Nat)
  BY NatLessThanWellFounded
<1> HIDE DEF R
<1>3. PICK x \in T : \A y \in T : ~(<<y, x>> \in R)
  BY <1>2, WFMin
<1>4. ASSUME NEW y \in T PROVE x <= y
  <2>1. ~(<<y, x>> \in R) /\ x \in Nat /\ y \in Nat
    BY <1>3
  <2>2. <<y, x>> \in R <=> y < x
    BY <1>1, <2>1
  <2> QED
    BY <2>1, <2>2
<1> QED
  BY <1>4

\* Min is that element.
LEMMA MinOf ==
  ASSUME NEW S \in SUBSET Nat, S # {}
  PROVE  Min(S) \in S
BY Least DEF Min

\* Induction on a measure, over sets instead of properties.
LEMMA MeasureInduction ==
  ASSUME NEW D, NEW m \in [D -> Nat], NEW G,
         \A x \in D : (\A y \in D : m[y] < m[x] => y \in G) => x \in G
  PROVE  D \subseteq G
<1> DEFINE T == {m[x] : x \in D \ G}
<1>1. SUFFICES ASSUME D \ G # {} PROVE FALSE
  OBVIOUS
<1>2. T \in SUBSET Nat /\ T # {}
  BY <1>1
<1>3. PICK n \in T : \A k \in T : n <= k
  BY <1>2, Least
<1>4. PICK x \in D \ G : n = m[x]
  BY <1>3
<1>5. ASSUME NEW y \in D, m[y] < m[x] PROVE y \in G
  <2>1. y \notin G => m[x] <= m[y]
    BY <1>3, <1>4
  <2>2. m[x] \in Nat /\ m[y] \in Nat
    BY <1>4
  <2> QED
    BY <1>5, <2>1, <2>2
<1> QED
  BY <1>4, <1>5

\* Induction over the natural numbers.
LEMMA NatSetInduction ==
  ASSUME NEW G, 0 \in G, \A n \in Nat : n \in G => n + 1 \in G
  PROVE  Nat \subseteq G
<1> DEFINE m == [n \in Nat |-> n]
<1>1. ASSUME NEW n \in Nat, \A k \in Nat : m[k] < m[n] => k \in G
      PROVE  n \in G
  <2>1. CASE n = 0
    BY <2>1
  <2>2. CASE n # 0
    <3>1. n - 1 \in Nat /\ m[n - 1] < m[n] /\ n = (n - 1) + 1
      BY <2>2
    <3>2. n - 1 \in G
      BY <1>1, <3>1
    <3> QED
      BY <3>1, <3>2
  <2> QED
    BY <2>1, <2>2
<1>2. m \in [Nat -> Nat]
  OBVIOUS
<1> HIDE DEF m
<1> QED
  BY <1>1, <1>2, MeasureInduction

\* The body B of a recursive function from D to T uses the function for smaller
\* arguments only.
Descending(B, D, T, m) ==
  /\ m \in [D -> Nat] /\ T # {}
  /\ B \in [[D -> T] \X D -> T]
  /\ \A f, g \in [D -> T], x \in D :
       (\A y \in D : m[y] < m[x] => f[y] = g[y]) => B[<<f, x>>] = B[<<g, x>>]

\* The functions from D to T that B is the body of.
Defines(B, D, T) == {f \in [D -> T] : \A x \in D : f[x] = B[<<f, x>>]}

\* Such a function exists.
LEMMA Recursion ==
  ASSUME NEW D, NEW T, NEW m, NEW B, Descending(B, D, T, m)
  PROVE  Defines(B, D, T) # {}
<1> PICK t \in T : TRUE
  BY DEF Descending
<1>a. /\ m \in [D -> Nat]
      /\ B \in [[D -> T] \X D -> T]
  BY DEF Descending
<1>b. \A f, g \in [D -> T], x \in D :
        (\A y \in D : m[y] < m[x] => f[y] = g[y]) => B[<<f, x>>] = B[<<g, x>>]
  BY DEF Descending
<1> USE <1>a
<1> DEFINE Upto(n, f) == f \in [D -> T] /\ \A x \in D : m[x] < n => f[x] = B[<<f, x>>]
           G == {n \in Nat : \E f \in [D -> T] : Upto(n, f)}
           Some(n) == CHOOSE f : Upto(n, f)
           h == [x \in D |-> Some(m[x] + 1)[x]]
<1>1. 0 \in G
  <2> DEFINE f == [x \in D |-> t]
  <2>1. f \in [D -> T] /\ \A x \in D : ~(m[x] < 0)
    OBVIOUS
  <2> QED
    BY <2>1
<1>2. ASSUME NEW n \in Nat, n \in G PROVE n + 1 \in G
  <2>1. PICK f \in [D -> T] : Upto(n, f)
    BY <1>2
  <2> DEFINE g == [x \in D |-> IF m[x] < n THEN f[x] ELSE B[<<f, x>>]]
  <2>2. g \in [D -> T]
    <3>1. ASSUME NEW x \in D PROVE f[x] \in T /\ B[<<f, x>>] \in T
      BY <2>1
    <3> QED
      BY <3>1
  <2>3. ASSUME NEW x \in D, m[x] < n + 1 PROVE g[x] = B[<<g, x>>]
    <3>1. \A y \in D : m[y] < m[x] => f[y] = g[y]
      <4>1. m[x] \in Nat /\ \A y \in D : m[y] \in Nat
        OBVIOUS
      <4>2. \A y \in D : m[y] < m[x] => m[y] < n
        BY <2>3, <4>1
      <4> QED
        BY <4>2
    <3>2. B[<<f, x>>] = B[<<g, x>>]
      BY <1>b, <2>1, <2>2, <3>1
    <3>3. g[x] = B[<<f, x>>]
      BY <2>1
    <3> QED
      BY <3>2, <3>3
  <2> HIDE DEF g
  <2>4. Upto(n + 1, g)
    BY <2>2, <2>3
  <2> QED
    BY <2>2, <2>4
<1> HIDE DEF G, Upto
<1>3. Nat \subseteq G
  BY <1>1, <1>2, NatSetInduction
<1>4. ASSUME NEW n \in Nat PROVE Upto(n, Some(n))
  <2>1. n \in G
    BY <1>3
  <2>2. \E f : Upto(n, f)
    BY <2>1 DEF G
  <2> QED
    BY <2>2
<1> HIDE DEF Some
<1> USE DEF Upto
<1>5. ASSUME NEW n \in Nat, NEW k \in Nat
      PROVE  \A x \in D : m[x] < n /\ m[x] < k => Some(n)[x] = Some(k)[x]
  <2> DEFINE A == {x \in D : m[x] < n /\ m[x] < k => Some(n)[x] = Some(k)[x]}
  <2>1. ASSUME NEW x \in D, \A y \in D : m[y] < m[x] => y \in A
        PROVE  x \in A
    <3>1. SUFFICES ASSUME m[x] < n, m[x] < k PROVE Some(n)[x] = Some(k)[x]
      OBVIOUS
    <3>2. m[x] \in Nat /\ \A y \in D : m[y] \in Nat
      OBVIOUS
    <3>3. \A y \in D : m[y] < m[x] => m[y] < n /\ m[y] < k
      BY <3>1, <3>2
    <3>4. \A y \in D : m[y] < m[x] => Some(n)[y] = Some(k)[y]
      BY <2>1, <3>3
    <3>5. B[<<Some(n), x>>] = B[<<Some(k), x>>]
      BY <1>b, <1>4, <3>4
    <3> QED
      BY <1>4, <3>1, <3>5
  <2> HIDE DEF A
  <2>2. D \subseteq A
    BY <2>1, MeasureInduction
  <2> QED
    BY <2>2 DEF A
<1>6. h \in [D -> T]
  <2>1. ASSUME NEW x \in D PROVE Some(m[x] + 1)[x] \in T
    <3>1. m[x] + 1 \in Nat
      OBVIOUS
    <3>2. Some(m[x] + 1) \in [D -> T]
      BY <1>4, <3>1
    <3> QED
      BY <3>2
  <2> QED
    BY <2>1
<1>7. ASSUME NEW x \in D PROVE h[x] = B[<<h, x>>]
  <2> DEFINE f == Some(m[x] + 1)
  <2>1. f \in [D -> T] /\ f[x] = B[<<f, x>>]
    <3>1. m[x] + 1 \in Nat /\ m[x] < m[x] + 1
      OBVIOUS
    <3> QED
      BY <1>4, <3>1
  <2>2. ASSUME NEW y \in D, m[y] < m[x] PROVE f[y] = h[y]
    <3>1. m[x] + 1 \in Nat /\ m[y] + 1 \in Nat /\ m[y] < m[x] + 1 /\ m[y] < m[y] + 1
      <4>1. m[x] \in Nat /\ m[y] \in Nat
        OBVIOUS
      <4> QED
        BY <2>2, <4>1
    <3>2. Some(m[x] + 1)[y] = Some(m[y] + 1)[y]
      BY <1>5, <3>1
    <3> QED
      BY <3>2
  <2>3. h[x] = f[x]
    OBVIOUS
  <2> HIDE DEF f, h
  <2>4. B[<<f, x>>] = B[<<h, x>>]
    BY <1>b, <1>6, <2>1, <2>2
  <2> QED
    BY <2>1, <2>3, <2>4
<1> HIDE DEF h
<1> QED
  BY <1>6, <1>7 DEF Defines

\* Induction over a finite set.
LEMMA FiniteInduction ==
  ASSUME NEW S, IsFiniteSet(S), NEW G, {} \in G,
         \A T \in SUBSET S : \A x \in S \ T : T \in G => T \cup {x} \in G
  PROVE  S \in G
<1> DEFINE D == SUBSET S
           m == [T \in D |-> Cardinality(T)]
<1>1. m \in [D -> Nat] /\ \A T \in D : m[T] = Cardinality(T)
  <2>1. \A T \in D : Cardinality(T) \in Nat
    BY FS_Subset, FS_CardinalityType
  <2> QED
    BY <2>1
<1> HIDE DEF m
<1>2. ASSUME NEW T \in D, \A U \in D : m[U] < m[T] => U \in G PROVE T \in G
  <2>1. CASE T = {}
    BY <2>1
  <2>2. CASE T # {}
    <3>1. PICK x \in T : TRUE
      BY <2>2
    <3>2. IsFiniteSet(T) /\ Cardinality(T) \in Nat
      BY FS_Subset, FS_CardinalityType
    <3>3. Cardinality(T \ {x}) = Cardinality(T) - 1
      BY <3>1, <3>2, FS_RemoveElement
    <3>4. T \ {x} \in D /\ m[T \ {x}] < m[T]
      BY <1>1, <3>2, <3>3
    <3>5. T \ {x} \in G
      BY <1>2, <3>4
    <3>6. T \ {x} \in SUBSET S /\ x \in S \ (T \ {x}) /\ T = (T \ {x}) \cup {x}
      BY <3>1
    <3> QED
      BY <3>5, <3>6
  <2> QED
    BY <2>1, <2>2
<1>3. D \subseteq G
  <2> HIDE DEF D
  <2> QED
    BY <1>1, <1>2, MeasureInduction
<1> QED
  BY <1>3

\* A function p from T to T, and what applying it again and again yields from x on.
Maps(T) == [T -> T]

Repeats(p, x, T) == {g \in [Nat -> T] : g[0] = x /\ \A n \in Nat : g[n + 1] = p[g[n]]}

\* There is such a sequence.
LEMMA Iterates ==
  ASSUME NEW T, NEW p \in Maps(T), NEW x \in T
  PROVE  Repeats(p, x, T) # {}
<1> USE DEF Maps
<1> DEFINE D == Nat
           m == [n \in D |-> n]
           B == [q \in [D -> T] \X D |-> IF q[2] = 0 THEN x ELSE p[q[1][q[2] - 1]]]
<1>1. \A n \in D : n # 0 => n - 1 \in D /\ m[n - 1] < m[n]
  OBVIOUS
<1>2. m \in [D -> Nat]
  OBVIOUS
<1> HIDE DEF m, D
<1>3. Descending(B, D, T, m)
  <2>1. T # {}
    OBVIOUS
  <2>2. ASSUME NEW f \in [D -> T], NEW n \in D
        PROVE  (IF n = 0 THEN x ELSE p[f[n - 1]]) \in T
    BY <1>1
  <2>3. B \in [[D -> T] \X D -> T]
    BY <2>2
  <2>4. ASSUME NEW f \in [D -> T], NEW g \in [D -> T], NEW n \in D,
               \A k \in D : m[k] < m[n] => f[k] = g[k]
        PROVE  B[<<f, n>>] = B[<<g, n>>]
    <3>1. n # 0 => f[n - 1] = g[n - 1]
      BY <1>1, <2>4
    <3>2. /\ B[<<f, n>>] = IF n = 0 THEN x ELSE p[f[n - 1]]
          /\ B[<<g, n>>] = IF n = 0 THEN x ELSE p[g[n - 1]]
      OBVIOUS
    <3> QED
      BY <3>1, <3>2
  <2> HIDE DEF B
  <2> QED
    BY <1>2, <2>1, <2>3, <2>4 DEF Descending
<1>4. PICK g \in Defines(B, D, T) : TRUE
  <2> HIDE DEF B
  <2> QED
    BY <1>3, Recursion
<1>5. g \in [D -> T] /\ \A n \in D : g[n] = IF n = 0 THEN x ELSE p[g[n - 1]]
  <2>1. g \in [D -> T] /\ \A n \in D : g[n] = B[<<g, n>>]
    BY <1>4 DEF Defines
  <2>2. \A n \in D : B[<<g, n>>] = IF n = 0 THEN x ELSE p[g[n - 1]]
    BY <2>1
  <2> HIDE DEF B
  <2> QED
    BY <2>1, <2>2
<1> USE DEF D
<1>6. g[0] = x
  BY <1>5
<1>7. ASSUME NEW n \in Nat PROVE g[n + 1] = p[g[n]]
  <2>1. n + 1 \in Nat /\ n + 1 # 0 /\ (n + 1) - 1 = n
    OBVIOUS
  <2> QED
    BY <1>5, <2>1
<1> QED
  BY <1>5, <1>6, <1>7 DEF Repeats

\* What n steps make of x, when F is what each step does.
Stages(F, x, n, T) ==
  {f \in [0 .. n -> T] : \A j \in 0 .. n : f[j] = IF j = 0 THEN x ELSE F[<<f[j - 1], j - 1>>]}

\* There is such a sequence.
LEMMA Stepwise ==
  ASSUME NEW T, NEW n \in Nat, NEW x \in T, NEW F \in [T \X (0 .. n - 1) -> T]
  PROVE  Stages(F, x, n, T) # {}
<1> DEFINE S == T \X Nat
           p == [s \in S |-> <<IF s[2] < n THEN F[s] ELSE s[1], s[2] + 1>>]
<1>1. p \in Maps(S)
  <2>1. ASSUME NEW t \in T, NEW j \in Nat
        PROVE  (IF j < n THEN F[<<t, j>>] ELSE t) \in T /\ j + 1 \in Nat
    <3>1. j < n => <<t, j>> \in T \X (0 .. n - 1)
      OBVIOUS
    <3> QED
      BY <3>1
  <2> QED
    BY <2>1 DEF Maps
<1>2. <<x, 0>> \in S
  OBVIOUS
<1>3. PICK g \in Repeats(p, <<x, 0>>, S) : TRUE
  <2> HIDE DEF p, S
  <2> QED
    BY <1>1, <1>2, Iterates
<1>4. g \in [Nat -> S] /\ g[0] = <<x, 0>> /\ \A j \in Nat : g[j + 1] = p[g[j]]
  BY <1>3 DEF Repeats
<1>5. \A s \in S : p[s] = <<IF s[2] < n THEN F[s] ELSE s[1], s[2] + 1>>
  OBVIOUS
<1>6. \A j \in Nat : g[j] \in T \X Nat /\ g[j + 1] = <<IF g[j][2] < n THEN F[g[j]] ELSE g[j][1], g[j][2] + 1>>
  BY <1>4, <1>5
<1> HIDE DEF p, S
<1> DEFINE G == {j \in Nat : g[j][2] = j}
<1>7. Nat \subseteq G
  <2>1. 0 \in G
    BY <1>4
  <2>2. \A j \in Nat : j \in G => j + 1 \in G
    BY <1>6
  <2> HIDE DEF G
  <2> QED
    BY <2>1, <2>2, NatSetInduction
<1>8. \A j \in Nat : g[j] = <<g[j][1], j>> /\ g[j][1] \in T
  <2>1. \A j \in Nat : g[j][2] = j
    BY <1>7
  <2> QED
    BY <1>6, <2>1
<1> DEFINE f == [j \in 0 .. n |-> g[j][1]]
<1>9. f \in [0 .. n -> T]
  BY <1>8
<1>10. ASSUME NEW j \in 0 .. n PROVE f[j] = IF j = 0 THEN x ELSE F[<<f[j - 1], j - 1>>]
  <2>1. CASE j = 0
    BY <1>4, <2>1
  <2>2. CASE j # 0
    <3>1. j - 1 \in 0 .. n /\ j - 1 \in Nat /\ j - 1 < n /\ (j - 1) + 1 = j
      BY <2>2
    <3>2. g[j - 1] = <<f[j - 1], j - 1>>
      BY <1>8, <3>1
    <3>3. g[j] = <<F[g[j - 1]], (j - 1) + 1>>
      <4>1. g[j - 1][2] = j - 1
        BY <1>7, <3>1
      <4>2. g[(j - 1) + 1] = <<IF g[j - 1][2] < n THEN F[g[j - 1]] ELSE g[j - 1][1], g[j - 1][2] + 1>>
        BY <1>6, <3>1
      <4> QED
        BY <3>1, <4>1, <4>2
    <3>4. f[j] = g[j][1]
      OBVIOUS
    <3> HIDE DEF f
    <3> QED
      BY <2>2, <3>2, <3>3, <3>4
  <2> QED
    BY <2>1, <2>2
<1> HIDE DEF f
<1> QED
  BY <1>9, <1>10 DEF Stages

-----------------------------------------------------------------------------
(* Division, and numbers on a ring of M. *)

\* Division with remainder by a symbolic modulus.
LEMMA Divides ==
  ASSUME NEW M \in Nat, M > 0
  PROVE  \A a \in Int : /\ a % M \in 0 .. M - 1
                        /\ a \div M \in Int
                        /\ a = M * (a \div M) + (a % M)
BY SMTT(30)

\* A number has one quotient and one remainder.
LEMMA DividesOnce ==
  ASSUME NEW M \in Nat, M > 0, NEW q \in Int, NEW p \in Int,
         NEW r \in 0 .. M - 1, NEW s \in 0 .. M - 1, M * q + r = M * p + s
  PROVE  q = p /\ r = s
BY SMTT(30)

\* Adding on the ring is adding on the line and then wrapping.
LEMMA RemainderOfSum ==
  ASSUME NEW M \in Nat, M > 0, NEW a \in Int, NEW n \in Int
  PROVE  ((a % M) + n) % M = (a + n) % M
<1> DEFINE b  == (a % M) + n
           qa == a \div M
           qb == b \div M
           qc == (a + n) \div M
           rb == b % M
           rc == (a + n) % M
           ra == a % M
<1>1. ra \in 0 .. M - 1 /\ qa \in Int /\ a = M * qa + ra
  BY Divides
<1>2. b \in Int /\ b = ra + n
  BY <1>1
<1>3. rb \in 0 .. M - 1 /\ qb \in Int /\ b = M * qb + rb
  BY <1>2, Divides
<1>4. rc \in 0 .. M - 1 /\ qc \in Int /\ a + n = M * qc + rc
  BY Divides
<1> HIDE DEF b, qa, qb, qc, rb, rc, ra
<1>5. M * (qa + qb) + rb = M * qc + rc
  BY <1>1, <1>2, <1>3, <1>4, SMTT(30)
<1>6. qa + qb \in Int
  BY <1>1, <1>3
<1>7. rb = rc
  BY <1>3, <1>4, <1>5, <1>6, DividesOnce, ZenonT(30)
<1> QED
  BY <1>7 DEF rb, rc, b

\* Two positions less than a full turn apart have different numbers.
LEMMA RemainderInjective ==
  ASSUME NEW M \in Nat, M > 0, NEW a \in Int, NEW b \in Int,
         a - b < M, b - a < M, a % M = b % M
  PROVE  a = b
<1> DEFINE q == a \div M  p == b \div M  r == a % M
<1>1. /\ q \in Int /\ p \in Int /\ r \in Int
      /\ a = M * q + r /\ b = M * p + r
  BY Divides
<1> HIDE DEF q, p, r
<1>2. a - b = M * (q - p)
  BY <1>1, SMTT(30)
<1>3. q - p < 1 /\ p - q < 1
  BY <1>1, <1>2, SMTT(30)
<1> QED
  BY <1>1, <1>3, SMTT(30)

\* The ring orders the positions around b as the line does: fewer than half a
\* turn behind it is less, up to half a turn ahead of it (or at it) is not.
LEMMA RemainderOrder ==
  ASSUME NEW H \in Nat, H > 0, NEW M, M = 2 * H,
         NEW a \in Int, NEW b \in Int, b - a < H, a - b \leq H
  PROVE  a < b <=> \/ a % M < b % M /\ (b % M) - (a % M) < H
                   \/ a % M > b % M /\ (a % M) - (b % M) > H
<1> DEFINE q == a \div M  p == b \div M  r == a % M  s == b % M
<1>1. /\ M \in Nat /\ M > 0
      /\ q \in Int /\ p \in Int /\ r \in 0 .. M - 1 /\ s \in 0 .. M - 1
      /\ a = M * q + r /\ b = M * p + s
  <2>1. M \in Nat /\ M > 0
    OBVIOUS
  <2> QED
    BY <2>1, Divides
<1> HIDE DEF q, p, r, s
<1>2. a - b = M * (q - p) + (r - s)
  BY <1>1, SMTT(30)
<1>3. q - p \in {-1, 0, 1}
  <2>1. M * (q - p) < 2 * M /\ M * (p - q) < 2 * M
    BY <1>1, <1>2, SMTT(30)
  <2>2. q - p < 2 /\ p - q < 2
    BY <1>1, <2>1, SMTT(30)
  <2> QED
    BY <1>1, <2>2
<1>4. (a < b) <=> (r < s /\ s - r < H) \/ (r > s /\ r - s > H)
  <2>1. CASE q - p = 0
    <3>1. a - b = r - s
      BY <1>1, <1>2, <2>1, SMTT(30)
    <3> QED
      BY <1>1, <3>1, SMTT(30)
  <2>2. CASE q - p = 1
    <3>1. a - b = M + r - s
      BY <1>1, <1>2, <2>2, SMTT(30)
    <3> QED
      BY <1>1, <3>1, SMTT(30)
  <2>3. CASE q - p = -1
    <3>1. a - b = r - s - M
      BY <1>1, <1>2, <2>3, SMTT(30)
    <3> QED
      BY <1>1, <3>1, SMTT(30)
  <2> QED
    BY <1>3, <2>1, <2>2, <2>3
<1> QED
  BY <1>4 DEF r, s

-----------------------------------------------------------------------------
(* Sums. *)

SumOver(f, S) == MapThenSumSet(LAMBDA x : f[x], S)

OneOf(S) == CHOOSE x \in S : TRUE

\* The numbers f[x] of the elements of S.
Summable(f, S) == IsFiniteSet(S) /\ \A x \in S : f[x] \in Int

\* The partial sums that MapThenSumSet builds.
PartialSums(f, S) ==
  CHOOSE g : g = [s \in SUBSET S |-> IF s = {} THEN 0 ELSE f[OneOf(s)] + g[s \ {OneOf(s)}]]

\* SumOver is the last of them.
LEMMA SumOverIs ==
  ASSUME NEW f, NEW S
  PROVE  SumOver(f, S) = PartialSums(f, S)[S]
BY DEF SumOver, PartialSums, OneOf, MapThenSumSet, MapThenFoldSet

\* They satisfy their equation.
LEMMA PartialSumsAre ==
  ASSUME NEW f, NEW S, Summable(f, S)
  PROVE  /\ PartialSums(f, S) \in [SUBSET S -> Int]
         /\ \A s \in SUBSET S :
              PartialSums(f, S)[s] =
                IF s = {} THEN 0 ELSE f[OneOf(s)] + PartialSums(f, S)[s \ {OneOf(s)}]
<1> DEFINE D == SUBSET S
           m == [s \in D |-> Cardinality(s)]
           B == [p \in [D -> Int] \X D |->
                   IF p[2] = {} THEN 0 ELSE f[OneOf(p[2])] + p[1][p[2] \ {OneOf(p[2])}]]
<1>1. \A s \in D : /\ IsFiniteSet(s) /\ Cardinality(s) \in Nat
                   /\ s # {} => /\ OneOf(s) \in s /\ s \ {OneOf(s)} \in D
                                /\ Cardinality(s \ {OneOf(s)}) = Cardinality(s) - 1
                                /\ f[OneOf(s)] \in Int
  <2> SUFFICES ASSUME NEW s \in D
               PROVE  /\ IsFiniteSet(s) /\ Cardinality(s) \in Nat
                      /\ s # {} => /\ OneOf(s) \in s /\ s \ {OneOf(s)} \in D
                                   /\ Cardinality(s \ {OneOf(s)}) = Cardinality(s) - 1
                                   /\ f[OneOf(s)] \in Int
    OBVIOUS
  <2>1. IsFiniteSet(s) /\ Cardinality(s) \in Nat
    BY FS_Subset, FS_CardinalityType DEF Summable
  <2>2. s # {} => OneOf(s) \in s
    BY DEF OneOf
  <2>3. s # {} => Cardinality(s \ {OneOf(s)}) = Cardinality(s) - 1
    BY <2>1, <2>2, FS_RemoveElement
  <2> QED
    BY <2>1, <2>2, <2>3 DEF Summable
<1>a. m \in [D -> Nat]
  <2>1. \A s \in D : Cardinality(s) \in Nat
    BY <1>1
  <2> QED
    BY <2>1
<1>b. ASSUME NEW s \in D, s # {}
      PROVE  s \ {OneOf(s)} \in D /\ m[s \ {OneOf(s)}] < m[s] /\ f[OneOf(s)] \in Int
  <2>1. s \ {OneOf(s)} \in D /\ f[OneOf(s)] \in Int
    BY <1>1, <1>b
  <2>2. /\ Cardinality(s \ {OneOf(s)}) = Cardinality(s) - 1 /\ Cardinality(s) \in Nat
    BY <1>1, <1>b
  <2>3. m[s \ {OneOf(s)}] = Cardinality(s \ {OneOf(s)}) /\ m[s] = Cardinality(s)
    BY <2>1
  <2> QED
    BY <2>1, <2>2, <2>3
<1> HIDE DEF m
<1>2. Descending(B, D, Int, m)
  <2>2. B \in [[D -> Int] \X D -> Int]
    <3>1. ASSUME NEW g \in [D -> Int], NEW s \in D
          PROVE  (IF s = {} THEN 0 ELSE f[OneOf(s)] + g[s \ {OneOf(s)}]) \in Int
      <4>1. CASE s = {}
        BY <4>1
      <4>2. CASE s # {}
        <5>1. g[s \ {OneOf(s)}] \in Int /\ f[OneOf(s)] \in Int
          BY <1>b, <4>2
        <5> QED
          BY <4>2, <5>1
      <4> QED
        BY <4>1, <4>2
    <3> HIDE DEF D
    <3> QED
      BY <3>1
  <2>3. ASSUME NEW g \in [D -> Int], NEW h \in [D -> Int], NEW s \in D,
               \A t \in D : m[t] < m[s] => g[t] = h[t]
        PROVE  B[<<g, s>>] = B[<<h, s>>]
    <3>1. B[<<g, s>>] = IF s = {} THEN 0 ELSE f[OneOf(s)] + g[s \ {OneOf(s)}]
      OBVIOUS
    <3>2. B[<<h, s>>] = IF s = {} THEN 0 ELSE f[OneOf(s)] + h[s \ {OneOf(s)}]
      OBVIOUS
    <3> HIDE DEF B, D
    <3>3. s # {} => g[s \ {OneOf(s)}] = h[s \ {OneOf(s)}]
      BY <1>b, <2>3
    <3> QED
      BY <3>1, <3>2, <3>3
  <2>4. 0 \in Int
    OBVIOUS
  <2> HIDE DEF B, D
  <2> QED
    BY <1>a, <2>2, <2>3, <2>4 DEF Descending
<1>3. PICK g \in Defines(B, D, Int) : TRUE
  <2> HIDE DEF B, D, m
  <2> QED
    BY <1>2, Recursion
<1>4. g = [s \in SUBSET S |-> IF s = {} THEN 0 ELSE f[OneOf(s)] + g[s \ {OneOf(s)}]]
  <2>1. g \in [D -> Int] /\ \A s \in D : g[s] = B[<<g, s>>]
    BY <1>3 DEF Defines
  <2>2. \A s \in D : B[<<g, s>>] = IF s = {} THEN 0 ELSE f[OneOf(s)] + g[s \ {OneOf(s)}]
    BY <2>1
  <2> HIDE DEF B
  <2> QED
    BY <2>1, <2>2
<1> DEFINE P == PartialSums(f, S)
<1>5. P = [s \in SUBSET S |-> IF s = {} THEN 0 ELSE f[OneOf(s)] + P[s \ {OneOf(s)}]]
  BY <1>4 DEF PartialSums
<1> HIDE DEF P
<1>7. \A s \in D : P[s] \in Int
  <2> DEFINE G == {s \in D : P[s] \in Int}
  <2>2. ASSUME NEW s \in D, \A t \in D : m[t] < m[s] => t \in G PROVE s \in G
    <3>1. s # {} => m[s \ {OneOf(s)}] < m[s] /\ s \ {OneOf(s)} \in D /\ f[OneOf(s)] \in Int
      BY <1>b
    <3>2. s # {} => P[s \ {OneOf(s)}] \in Int
      BY <2>2, <3>1
    <3>3. P[s] = IF s = {} THEN 0 ELSE f[OneOf(s)] + P[s \ {OneOf(s)}]
      BY <1>5
    <3> QED
      BY <3>1, <3>2, <3>3
  <2> HIDE DEF D, m, G
  <2>3. D \subseteq G
    BY <1>a, <2>2, MeasureInduction
  <2> QED
    BY <2>3 DEF G
<1> QED
  BY <1>5, <1>7 DEF P

\* The partial sums are the sums of the parts.
LEMMA PartialSumsAgree ==
  ASSUME NEW f, NEW S, Summable(f, S), NEW s \in SUBSET S
  PROVE  SumOver(f, s) = PartialSums(f, S)[s]
<1> DEFINE D == SUBSET s
           m == [t \in D |-> Cardinality(t)]
           g == PartialSums(f, s)
           h == PartialSums(f, S)
           G == {t \in D : g[t] = h[t]}
<1>1. Summable(f, s)
  BY FS_Subset DEF Summable
<1>2. \A t \in D : g[t] = IF t = {} THEN 0 ELSE f[OneOf(t)] + g[t \ {OneOf(t)}]
  BY <1>1, PartialSumsAre
<1>3. \A t \in D : h[t] = IF t = {} THEN 0 ELSE f[OneOf(t)] + h[t \ {OneOf(t)}]
  <2>1. \A t \in SUBSET S : PartialSums(f, S)[t] =
          IF t = {} THEN 0 ELSE f[OneOf(t)] + PartialSums(f, S)[t \ {OneOf(t)}]
    BY PartialSumsAre, ZenonT(30)
  <2>2. \A t \in D : t \in SUBSET S
    OBVIOUS
  <2> HIDE DEF D
  <2> QED
    BY <2>1, <2>2
<1>4. m \in [D -> Nat]
  <2>1. \A t \in D : Cardinality(t) \in Nat
    BY <1>1, FS_Subset, FS_CardinalityType DEF Summable
  <2> QED
    BY <2>1
<1>5. \A t \in D : t # {} => t \ {OneOf(t)} \in D /\ m[t \ {OneOf(t)}] < m[t]
  <2> SUFFICES ASSUME NEW t \in D, t # {}
               PROVE  t \ {OneOf(t)} \in D /\ m[t \ {OneOf(t)}] < m[t]
    OBVIOUS
  <2>1. OneOf(t) \in t /\ t \ {OneOf(t)} \in D
    BY DEF OneOf
  <2>2. IsFiniteSet(t) /\ Cardinality(t) \in Nat
    BY <1>1, FS_Subset, FS_CardinalityType DEF Summable
  <2>3. Cardinality(t \ {OneOf(t)}) = Cardinality(t) - 1
    BY <2>1, <2>2, FS_RemoveElement
  <2>4. m[t \ {OneOf(t)}] = Cardinality(t \ {OneOf(t)}) /\ m[t] = Cardinality(t)
    BY <2>1
  <2> QED
    BY <2>1, <2>2, <2>3, <2>4
<1> HIDE DEF m, g, h
<1>6. ASSUME NEW t \in D, \A u \in D : m[u] < m[t] => u \in G PROVE t \in G
  <2>1. t # {} => g[t \ {OneOf(t)}] = h[t \ {OneOf(t)}]
    BY <1>5, <1>6
  <2> QED
    BY <1>2, <1>3, <2>1
<1>7. s \in D
  OBVIOUS
<1> HIDE DEF D
<1>8. D \subseteq G
  <2> HIDE DEF G
  <2> QED
    BY <1>4, <1>6, MeasureInduction
<1>9. SumOver(f, s) = g[s]
  BY SumOverIs DEF g
<1> QED
  BY <1>7, <1>8, <1>9 DEF h

\* A sum is taken over one element after the other,
LEMMA SumOverStep ==
  ASSUME NEW f, NEW S, Summable(f, S)
  PROVE  /\ SumOver(f, S) \in Int
         /\ S = {} => SumOver(f, S) = 0
         /\ S # {} => SumOver(f, S) = f[OneOf(S)] + SumOver(f, S \ {OneOf(S)})
<1> DEFINE g == PartialSums(f, S)
<1>1. SumOver(f, S) = g[S]
  BY SumOverIs
<1>2. S \in SUBSET S
  OBVIOUS
<1>3. /\ g \in [SUBSET S -> Int]
      /\ g[S] = IF S = {} THEN 0 ELSE f[OneOf(S)] + g[S \ {OneOf(S)}]
  <2>1. PartialSums(f, S) \in [SUBSET S -> Int]
    BY PartialSumsAre
  <2>2. \A s \in SUBSET S : PartialSums(f, S)[s] =
          IF s = {} THEN 0 ELSE f[OneOf(s)] + PartialSums(f, S)[s \ {OneOf(s)}]
    BY PartialSumsAre
  <2> QED
    BY <1>2, <2>1, <2>2
<1>4. S \ {OneOf(S)} \in SUBSET S
  OBVIOUS
<1>5. SumOver(f, S \ {OneOf(S)}) = g[S \ {OneOf(S)}]
  BY <1>4, PartialSumsAgree
<1> HIDE DEF g
<1> QED
  BY <1>1, <1>2, <1>3, <1>5

\* and it does not matter which comes first.
LEMMA SumOverTakes ==
  ASSUME NEW f, NEW S, Summable(f, S)
  PROVE  \A x \in S : SumOver(f, S) = f[x] + SumOver(f, S \ {x})
<1> DEFINE D == SUBSET S
           m == [s \in D |-> Cardinality(s)]
           G == {s \in D : \A x \in s : SumOver(f, s) = f[x] + SumOver(f, s \ {x})}
<1>1. \A s \in D : /\ Summable(f, s) /\ Cardinality(s) \in Nat
                   /\ \A x \in s : Cardinality(s \ {x}) = Cardinality(s) - 1
  BY FS_Subset, FS_CardinalityType, FS_RemoveElement DEF Summable
<1>2. m \in [D -> Nat]
  BY <1>1
<1>3. \A s \in D : \A x \in s : s \ {x} \in D /\ m[s \ {x}] < m[s]
  <2> SUFFICES ASSUME NEW s \in D, NEW x \in s
               PROVE  s \ {x} \in D /\ m[s \ {x}] < m[s]
    OBVIOUS
  <2>1. s \ {x} \in D
    OBVIOUS
  <2>2. m[s \ {x}] = Cardinality(s \ {x}) /\ m[s] = Cardinality(s)
    BY <2>1
  <2> QED
    BY <1>1, <2>1, <2>2
<1> HIDE DEF m
<1>4. ASSUME NEW s \in D, \A t \in D : m[t] < m[s] => t \in G PROVE s \in G
  <2> SUFFICES ASSUME NEW x \in s
               PROVE  SumOver(f, s) = f[x] + SumOver(f, s \ {x})
    OBVIOUS
  <2> DEFINE p == OneOf(s)
             r == (s \ {p}) \ {x}
  <2>1. p \in s
    BY DEF OneOf
  <2>2. SumOver(f, s) = f[p] + SumOver(f, s \ {p})
    BY <1>1, <2>1, SumOverStep
  <2>3. CASE x = p
    BY <2>2, <2>3
  <2>4. CASE x # p
    <3>1. s \ {p} \in G /\ s \ {x} \in G
      BY <1>3, <1>4, <2>1
    <3>2. x \in s \ {p} /\ p \in s \ {x} /\ r = (s \ {x}) \ {p}
      BY <2>1, <2>4
    <3>3. SumOver(f, s \ {p}) = f[x] + SumOver(f, r)
      BY <3>1, <3>2
    <3>4. SumOver(f, s \ {x}) = f[p] + SumOver(f, r)
      BY <3>1, <3>2
    <3>5. f[x] \in Int /\ f[p] \in Int
      BY <2>1 DEF Summable
    <3>6. SumOver(f, r) \in Int
      <4>1. r \in D
        OBVIOUS
      <4> QED
        BY <1>1, <4>1, SumOverStep
    <3> HIDE DEF r, p
    <3> QED
      BY <2>2, <3>3, <3>4, <3>5, <3>6
  <2> QED
    BY <2>3, <2>4
<1>5. S \in D
  OBVIOUS
<1> HIDE DEF D
<1>6. D \subseteq G
  <2> HIDE DEF G
  <2> QED
    BY <1>2, <1>4, MeasureInduction
<1> QED
  BY <1>5, <1>6

\* A sum with one element more.
LEMMA SumOverAdds ==
  ASSUME NEW f, NEW S, NEW x, x \notin S, Summable(f, S), f[x] \in Int
  PROVE  Summable(f, S \cup {x}) /\ SumOver(f, S \cup {x}) = f[x] + SumOver(f, S)
<1>1. Summable(f, S \cup {x})
  BY FS_AddElement DEF Summable
<1>2. (S \cup {x}) \ {x} = S /\ x \in S \cup {x}
  OBVIOUS
<1> QED
  BY <1>1, <1>2, SumOverTakes

\* Only the numbers of its elements matter.
LEMMA SumOverSame ==
  ASSUME NEW f, NEW g, NEW S, Summable(f, S), \A x \in S : g[x] = f[x]
  PROVE  SumOver(g, S) = SumOver(f, S)
<1> DEFINE G == {T \in SUBSET S : SumOver(g, T) = SumOver(f, T)}
<1>1. \A T \in SUBSET S : Summable(f, T) /\ Summable(g, T)
  BY FS_Subset DEF Summable
<1>2. {} \in G
  BY <1>1, SumOverStep
<1>3. ASSUME NEW T \in SUBSET S, NEW x \in S \ T, T \in G PROVE T \cup {x} \in G
  <2>1. f[x] \in Int /\ g[x] = f[x] /\ x \notin T /\ Summable(f, T) /\ Summable(g, T)
    BY <1>1 DEF Summable
  <2>2. SumOver(f, T \cup {x}) = f[x] + SumOver(f, T)
    BY <2>1, SumOverAdds
  <2>3. SumOver(g, T \cup {x}) = g[x] + SumOver(g, T)
    BY <2>1, SumOverAdds
  <2> QED
    BY <1>3, <2>1, <2>2, <2>3
<1>4. IsFiniteSet(S)
  BY DEF Summable
<1> HIDE DEF G
<1>5. S \in G
  BY <1>2, <1>3, <1>4, FiniteInduction
<1> QED
  BY <1>5 DEF G

\* The numbers g[x] are k times the numbers f[x].
Multiples(f, g, k, M) == \A x \in M : f[x] \in Int /\ g[x] = k * f[x]

\* Elements that count for nothing can be left out.
LEMMA SumOverPart ==
  ASSUME NEW f, NEW g, NEW S, IsFiniteSet(S), NEW M \in SUBSET S, NEW k \in Int,
         Multiples(f, g, k, M), \A x \in S \ M : g[x] = 0
  PROVE  SumOver(g, S) = k * SumOver(f, M)
<1> USE DEF Multiples
<1> DEFINE G == {T \in SUBSET S : SumOver(g, T) = k * SumOver(f, T \cap M)}
<1>1. \A T \in SUBSET S : Summable(f, T \cap M) /\ Summable(g, T)
  BY FS_Subset DEF Summable
<1>2. {} \in G
  <2>1. {} \cap M = {} /\ {} \in SUBSET S
    OBVIOUS
  <2>2. Summable(g, {}) /\ Summable(f, {})
    BY <1>1, <2>1
  <2>3. SumOver(g, {}) = 0 /\ SumOver(f, {}) = 0
    BY <2>2, SumOverStep
  <2> QED
    BY <2>1, <2>3
<1>3. ASSUME NEW T \in SUBSET S, NEW x \in S \ T, T \in G PROVE T \cup {x} \in G
  <2>0. g[x] \in Int
    <3>1. CASE x \in M
      <4>1. f[x] \in Int /\ g[x] = k * f[x]
        BY <3>1
      <4> DEFINE a == f[x]
      <4>2. a \in Int => k * a \in Int
        <5> HIDE DEF a
        <5> QED
          OBVIOUS
      <4> QED
        BY <4>1, <4>2
    <3>2. CASE x \notin M
      BY <3>2
    <3> QED
      BY <3>1, <3>2
  <2>1. x \notin T /\ g[x] \in Int /\ Summable(g, T) /\ Summable(f, T \cap M)
    BY <1>1, <2>0
  <2>2. SumOver(g, T \cup {x}) = g[x] + SumOver(g, T)
    BY <2>1, SumOverAdds
  <2>3. SumOver(f, T \cap M) \in Int
    BY <2>1, SumOverStep
  <2>4. CASE x \in M
    <3>1. (T \cup {x}) \cap M = (T \cap M) \cup {x} /\ x \notin T \cap M /\ f[x] \in Int
      BY <2>1, <2>4
    <3>2. SumOver(f, (T \cap M) \cup {x}) = f[x] + SumOver(f, T \cap M)
      BY <2>1, <3>1, SumOverAdds
    <3>3. SumOver(f, (T \cup {x}) \cap M) = f[x] + SumOver(f, T \cap M)
      BY <3>1, <3>2
    <3>4. g[x] = k * f[x] /\ SumOver(g, T) = k * SumOver(f, T \cap M)
      BY <1>3, <2>4
    <3> DEFINE a == f[x]
               b == SumOver(f, T \cap M)
    <3>5. k * a + k * b = k * (a + b)
      <4>1. a \in Int /\ b \in Int
        BY <2>3, <3>1
      <4> HIDE DEF a, b
      <4> QED
        BY <4>1
    <3> QED
      BY <2>2, <3>3, <3>4, <3>5
  <2>5. CASE x \notin M
    <3>1. (T \cup {x}) \cap M = T \cap M /\ g[x] = 0
      BY <2>1, <2>5
    <3>2. SumOver(g, T) \in Int
      BY <2>1, SumOverStep
    <3>3. SumOver(g, T) = k * SumOver(f, T \cap M)
      BY <1>3
    <3>4. SumOver(g, T \cup {x}) = SumOver(g, T)
      BY <2>2, <3>1, <3>2
    <3>5. SumOver(g, T \cup {x}) = k * SumOver(f, (T \cup {x}) \cap M)
      BY <3>1, <3>3, <3>4
    <3>6. T \cup {x} \in SUBSET S
      OBVIOUS
    <3> QED
      BY <3>5, <3>6
  <2> QED
    BY <2>4, <2>5
<1> HIDE DEF G
<1>4. S \in G
  BY <1>2, <1>3, FiniteInduction
<1>5. S \cap M = M
  OBVIOUS
<1> QED
  BY <1>4, <1>5 DEF G

\* Ones add up to the size of the set.
LEMMA SumOverOnes ==
  ASSUME NEW f, NEW S, IsFiniteSet(S), \A x \in S : f[x] = 1
  PROVE  SumOver(f, S) = Cardinality(S)
<1> DEFINE G == {T \in SUBSET S : SumOver(f, T) = Cardinality(T)}
<1>1. \A T \in SUBSET S : IsFiniteSet(T) /\ Summable(f, T)
  BY FS_Subset DEF Summable
<1>2. {} \in G
  BY <1>1, SumOverStep, FS_EmptySet
<1>3. ASSUME NEW T \in SUBSET S, NEW x \in S \ T, T \in G PROVE T \cup {x} \in G
  <2>1. SumOver(f, T \cup {x}) = f[x] + SumOver(f, T)
    <3>1. x \notin T /\ f[x] \in Int /\ Summable(f, T)
      BY <1>1
    <3> QED
      BY <3>1, SumOverAdds
  <2>2. Cardinality(T \cup {x}) = Cardinality(T) + 1
    BY <1>1, FS_AddElement
  <2>3. Cardinality(T) \in Nat
    BY <1>1, FS_CardinalityType
  <2> QED
    BY <1>3, <2>1, <2>2, <2>3
<1> HIDE DEF G
<1>4. S \in G
  BY <1>2, <1>3, FiniteInduction
<1> QED
  BY <1>4 DEF G

\* One element's number changes.
LEMMA SumOverChanges ==
  ASSUME NEW f, NEW g, NEW S, Summable(f, S), NEW x \in S, g[x] \in Int,
         \A y \in S \ {x} : g[y] = f[y]
  PROVE  Summable(g, S) /\ SumOver(g, S) = SumOver(f, S) - f[x] + g[x]
<1>1. Summable(g, S) /\ Summable(f, S \ {x})
  BY FS_Subset DEF Summable
<1>2. SumOver(g, S) = g[x] + SumOver(g, S \ {x})
  BY <1>1, SumOverTakes
<1>3. SumOver(f, S) = f[x] + SumOver(f, S \ {x})
  BY SumOverTakes
<1>4. SumOver(g, S \ {x}) = SumOver(f, S \ {x})
  BY <1>1, SumOverSame
<1>5. SumOver(f, S \ {x}) \in Int /\ f[x] \in Int
  BY <1>1, SumOverStep DEF Summable
<1> QED
  BY <1>1, <1>2, <1>3, <1>4, <1>5
=============================================================================
