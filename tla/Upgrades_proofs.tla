---------------------------- MODULE Upgrades_proofs ----------------------------
(***************************************************************************)
(* Proofs about Upgrades, for any segments, features, policies and         *)
(* brightness factors.  The scores are calculated in fractions, so the     *)
(* first sections prove what the operations of Rational compute.           *)
(* Induction takes a least counterexample: finite sets of numbers are      *)
(* well founded by inclusion.                                              *)
(***************************************************************************)
EXTENDS Upgrades, FiniteSetTheorems, TLAPS

-----------------------------------------------------------------------------
\* Whole numbers: the greatest common divisor.

\* A set of numbers has a least one.
LEMMA LeastNumber ==
  ASSUME NEW T \in SUBSET Nat, T # {}
  PROVE  \E n \in T : \A m \in T : n <= m
<1> DEFINE R == StrictSubsetOrdering(Nat)
           I == {0..n : n \in T}
<1>1. IsWellFoundedOn(R, FiniteSubsetsOf(Nat))
  BY FS_StrictSubsetOrderingWellFounded
<1>2. I # {}
  OBVIOUS
<1>3. I \subseteq FiniteSubsetsOf(Nat)
  <2> SUFFICES ASSUME NEW n \in T PROVE 0..n \in FiniteSubsetsOf(Nat)
    OBVIOUS
  <2>1. 0..n \subseteq Nat OBVIOUS
  <2>2. IsFiniteSet(0..n) BY FS_Interval
  <2> QED BY <2>1, <2>2 DEF FiniteSubsetsOf
<1>4. PICK s \in I : \A t \in I : ~ (<<t, s>> \in R)
  <2> HIDE DEF R, I
  <2> QED BY <1>1, <1>2, <1>3, WFMin
<1>5. PICK n \in T : s = 0..n
  OBVIOUS
<1>6. ASSUME NEW m \in T, m < n PROVE FALSE
  <2>1. 0..m \subseteq 0..n /\ 0..m # 0..n  BY <1>6
  <2>2. <<0..m, 0..n>> \in R
     BY <2>1 DEF StrictSubsetOrdering
  <2> QED BY <1>4, <1>5, <2>2
<1> QED
  BY <1>6

\* Remainders.
LEMMA ModLess ==
  ASSUME NEW a \in Nat, NEW b \in Nat, b # 0 PROVE a % b \in Nat /\ a % b < b
  OBVIOUS

\* A number is made of its quotient and its remainder.
LEMMA DivMod ==
  ASSUME NEW a \in Nat, NEW b \in Nat, b # 0 PROVE a \div b \in Nat /\ a = b * (a \div b) + (a % b)
  OBVIOUS

\* Division without a remainder.
LEMMA DivExact ==
  ASSUME NEW n \in Int, NEW g \in Nat, g # 0, NEW i \in Int, n = g * i PROVE n \div g = i
  OBVIOUS

\* The tables of GcdWith up to n, for which its recursion holds.
GcdUpTo(n) ==
  {g \in [0..n -> [Nat -> Nat]] :
     \A b \in 0..n, a \in Nat : g[b][a] = IF b = 0 THEN a ELSE g[a % b][b]}

\* There is such a table, for every n.
LEMMA GcdUpToExists == \A n \in Nat : GcdUpTo(n) # {}
<1> DEFINE T == {n \in Nat : GcdUpTo(n) = {}}
<1> SUFFICES ASSUME T # {} PROVE FALSE
  OBVIOUS
<1>1. PICK n \in T : \A m \in T : n <= m
  <2> HIDE DEF T
  <2> T \in SUBSET Nat BY DEF T
  <2> QED BY LeastNumber
<1> n \in Nat /\ GcdUpTo(n) = {}
  OBVIOUS
<1>2. CASE n = 0
  <2> DEFINE h == [b \in 0..0 |-> [a \in Nat |-> a]]
  <2>3. h \in GcdUpTo(0)
    BY DEF GcdUpTo
  <2> QED BY <1>2, <2>3
<1>3. CASE n # 0
  <2>1. n - 1 \in Nat /\ n - 1 \notin T
    BY <1>1, <1>3
  <2>2. PICK g : g \in GcdUpTo(n - 1)
    BY <2>1
  <2> DEFINE h == [b \in 0..n |-> IF b = n THEN [a \in Nat |-> g[a % n][n]] ELSE g[b]]
  <2> HIDE DEF T
  <2>3. /\ g \in [0..(n-1) -> [Nat -> Nat]] 
        /\ \A b \in 0..(n-1), a \in Nat : g[b][a] = IF b = 0 THEN a ELSE g[a % b][b]
    BY <2>2 DEF GcdUpTo
  <2>4. \A a \in Nat : a % n \in 0..(n-1)
    BY ModLess, <1>3
  <2>7. h \in [0..n -> [Nat -> Nat]]
    <3>1. ASSUME NEW b \in 0..n
          PROVE (IF b = n THEN [a \in Nat |-> g[a % n][n]] ELSE g[b]) \in [Nat -> Nat]
      <4>1. \A a \in Nat : g[a % n][n] \in Nat
        BY <2>3, <2>4
      <4>2. b # n => b \in 0..(n-1)
        OBVIOUS
      <4> QED BY <4>1, <4>2, <2>3
    <3> QED BY <3>1
  <2>8. ASSUME NEW a \in Nat, NEW b \in 0..n PROVE h[b][a] = IF b = 0 THEN a ELSE h[a % b][b]
    <3>0. ASSUME NEW c \in 0..(n-1) PROVE h[c] = g[c]
      BY <3>0
    <3>1. CASE b = n
      <4>1. h[b][a] = g[a % n][n]
        BY <3>1
      <4> QED BY <3>1, <2>4, <1>3, <4>1, <3>0
    <3>2. CASE b # n /\ b = 0
      <4>1. b \in 0..(n-1) BY <3>2
      <4> HIDE DEF h
      <4> QED BY <3>2, <2>3, <3>0, <4>1
    <3>3. CASE b # n /\ b # 0
      <4>1. b \in 0..(n-1) BY <3>3
      <4>2. a % b \in 0..(n-1) /\ a % b # n BY <4>1, <3>3, ModLess
      <4> HIDE DEF h
      <4> QED BY <4>1, <4>2, <3>3, <2>3, <3>0
    <3> QED BY <3>1, <3>2, <3>3
  <2>9. h \in GcdUpTo(n) 
    <3> HIDE DEF h
    <3> QED BY <2>7, <2>8 DEF GcdUpTo
  <2> QED BY <2>9
<1> QED BY <1>2, <1>3

\* Tables agree where both are defined.
LEMMA GcdUpToAgree ==
  ASSUME NEW m \in Nat, NEW n \in Nat, NEW g \in GcdUpTo(m), NEW h \in GcdUpTo(n), 
         NEW b \in Nat, b <= m, b <= n, NEW a \in Nat
  PROVE  g[b][a] = h[b][a]
<1> DEFINE T == {k \in Nat : k <= m /\ k <= n /\ \E c \in Nat : g[k][c] # h[k][c]}
<1> SUFFICES ASSUME T # {} PROVE FALSE
  OBVIOUS
<1>1. PICK k \in T : \A j \in T : k <= j
  <2> HIDE DEF T
  <2> T \in SUBSET Nat BY DEF T
  <2> QED BY LeastNumber
<1>2. PICK c \in Nat : g[k][c] # h[k][c]
  OBVIOUS
<1> k \in Nat /\ k \in 0..m /\ k \in 0..n
  OBVIOUS
<1>3. /\ g[k][c] = IF k = 0 THEN c ELSE g[c % k][k]
      /\ h[k][c] = IF k = 0 THEN c ELSE h[c % k][k]
  BY DEF GcdUpTo
<1>4. k # 0 /\ g[c % k][k] # h[c % k][k]
  BY <1>2, <1>3
<1>5. c % k \in T
  BY <1>4, ModLess
<1> QED BY <1>1, <1>4, <1>5, ModLess

\* The recursion of GcdWith, which is Euclid's algorithm: its function exists.
LEMMA GcdDef ==
  ASSUME NEW a \in Nat, NEW b \in Nat
  PROVE  /\ Gcd(a, b) \in Nat
         /\ Gcd(a, b) = IF b = 0 THEN a ELSE Gcd(b, a % b)
<1> DEFINE upTo(n) == CHOOSE g : g \in GcdUpTo(n)
           f == [n \in Nat |-> upTo(n)[n]]
<1>1. ASSUME NEW n \in Nat PROVE upTo(n) \in GcdUpTo(n)
  BY GcdUpToExists
<1>2. ASSUME NEW n \in Nat, NEW c \in Nat 
      PROVE f[n] \in [Nat -> Nat] /\ f[n][c] = IF n = 0 THEN c ELSE f[c % n][n]
  <2> HIDE DEF upTo
  <2>0. upTo(n) \in GcdUpTo(n) BY <1>1
  <2>a. f[n] = upTo(n)[n]
    OBVIOUS
  <2>b. n \in 0..n
    OBVIOUS
  <2> HIDE DEF f
  <2>1. f[n] \in [Nat -> Nat] /\ f[n][c] = IF n = 0 THEN c ELSE upTo(n)[c % n][n]
    BY <2>0, <2>a, <2>b DEF GcdUpTo
  <2>2. CASE n # 0
    <3>1. c % n \in Nat /\ c % n <= n BY <2>2, ModLess
    <3>3. upTo(c % n) \in GcdUpTo(c % n) BY <1>1, <3>1
    <3>2. upTo(n)[c % n][n] = upTo(c % n)[c % n][n] 
      BY <2>0, <3>1, <3>3, GcdUpToAgree
    <3>4. f[c % n] = upTo(c % n)[c % n]
      BY <3>1 DEF f
    <3> QED BY <2>1, <2>2, <3>1, <3>2, <3>4
  <2> QED BY <2>1, <2>2
<1> DEFINE G(h) == [n \in Nat |-> [c \in Nat |-> IF n = 0 THEN c ELSE h[c % n][n]]]
<1>3. f = G(f)
  <2>1. ASSUME NEW n \in Nat PROVE f[n] = [c \in Nat |-> IF n = 0 THEN c ELSE f[c % n][n]]
    <3> HIDE DEF f
    <3>1. f[n] = [c \in Nat |-> f[n][c]]
      BY <1>2
    <3> QED BY <1>2, <3>1
  <2>2. f = [n \in Nat |-> f[n]] OBVIOUS
  <2> HIDE DEF f
  <2> QED BY <2>1, <2>2
<1>4. GcdWith = G(GcdWith)
  <2> HIDE DEF f
  <2> QED BY <1>3 DEF GcdWith
<1> HIDE DEF f
<1>5. \A n \in Nat, c \in Nat : GcdWith[n][c] = IF n = 0 THEN c ELSE GcdWith[c % n][n]
  BY <1>4, ZenonT(30)
<1>6. \A n \in Nat, c \in Nat : GcdWith[n][c] \in Nat
  <2> DEFINE T == {n \in Nat : \E c \in Nat : GcdWith[n][c] \notin Nat}
  <2> SUFFICES ASSUME T # {} PROVE FALSE
    OBVIOUS
  <2>1. PICK n \in T : \A m \in T : n <= m
    <3> HIDE DEF T
    <3> T \in SUBSET Nat BY DEF T
    <3> QED BY LeastNumber
  <2>2. PICK c \in Nat : GcdWith[n][c] \notin Nat
    OBVIOUS
  <2>3. n # 0 /\ c % n \in T
    BY <1>5, <2>2, ModLess
  <2> QED BY <2>1, <2>3, ModLess
<1> QED BY <1>5, <1>6, ModLess DEF Gcd

\* It divides both numbers, and is a combination of them.
LEMMA GcdDivides ==
  ASSUME NEW a \in Nat, NEW b \in Nat
  PROVE  /\ \E x, y \in Int : Gcd(a, b) = a * x + b * y
         /\ \E i, j \in Nat : a = Gcd(a, b) * i /\ b = Gcd(a, b) * j
<1> DEFINE Bezout(c, n) ==
       /\ \E x, y \in Int : Gcd(c, n) = c * x + n * y
       /\ \E i, j \in Nat : c = Gcd(c, n) * i /\ n = Gcd(c, n) * j
    T == {n \in Nat : \E c \in Nat : ~Bezout(c, n)}
<1> SUFFICES ASSUME T # {} PROVE FALSE
  OBVIOUS
<1>1. PICK n \in T : \A m \in T : n <= m
  <2> HIDE DEF T
  <2> T \in SUBSET Nat BY DEF T
  <2> QED BY LeastNumber
<1>2. n \in Nat /\ \A m \in Nat : m < n => \A c \in Nat : Bezout(c, m)
  <2> HIDE DEF Bezout
  <2> QED BY <1>1
<1>3. PICK c \in Nat : ~Bezout(c, n)
  OBVIOUS
<1> HIDE DEF T
<1>4. CASE n = 0
  <2>1. Gcd(c, n) = c
    BY <1>4, GcdDef
  <2>2. Gcd(c, n) = c * 1 + n * 0 /\ c = Gcd(c, n) * 1 /\ n = Gcd(c, n) * 0
    BY <1>4, <2>1
  <2> QED BY <1>3, <2>2
<1>5. CASE n # 0
  <2> DEFINE g == Gcd(n, c % n)
             q == c \div n
             r == c % n
  <2>1. q \in Nat /\ r \in Nat /\ r < n /\ c = n * q + r
    BY <1>2, <1>5, ModLess, DivMod
  <2>2. g \in Nat /\ Gcd(c, n) = g
    BY <1>2, <1>5, <2>1, GcdDef
  <2>3. Bezout(n, r)
    BY <1>2, <2>1
  <2>4. PICK x \in Int, y \in Int : g = n * x + r * y
    BY <2>3
  <2>5. PICK i \in Nat, j \in Nat : n = g * i /\ r = g * j
    BY <2>3
  <2> HIDE DEF g, q, r
  <2>6. g = c * y + n * (x - q * y)
    BY <2>1, <2>2, <2>4, <1>2
  <2>7. c = g * (i * q + j)
    BY <2>1, <2>2, <2>5, <1>2
  <2>8. y \in Int /\ x - q * y \in Int /\ i * q + j \in Nat
    BY <2>1
  <2>9. Bezout(c, n)
    BY <2>2, <2>5, <2>6, <2>7, <2>8
  <2> QED BY <1>3, <2>9
<1> QED BY <1>4, <1>5

\* Bezout's identity, which stands for being in lowest terms.
Coprime(a, b) == \E x, y \in Int : a * x + b * y = 1

\* Positive factors cancel.
LEMMA Cancel ==
  ASSUME NEW a \in Int, NEW b \in Int, NEW k \in Int, k > 0
  PROVE  (a <= b <=> a * k <= b * k) /\ (a = b <=> a * k = b * k)
  OBVIOUS

-----------------------------------------------------------------------------
\* Fractions: their operations compute their values.

\* Fractions are the pairs that are coprime.
LEMMA FractionCoprime ==
  Fraction = {q \in Int \X Int : q[2] > 0 /\ Coprime(q[1], q[2])}
<1> SUFFICES ASSUME NEW n \in Int, NEW d \in Nat, d > 0
             PROVE  Gcd(Abs(n), d) = 1 <=> Coprime(n, d)
  BY DEF Fraction
<1> DEFINE g == Gcd(Abs(n), d)
<1>1. Abs(n) \in Nat /\ (Abs(n) = n \/ Abs(n) = -n)
  BY DEF Abs
<1>2. g \in Nat
  BY <1>1, GcdDef
<1>3. PICK x, y \in Int : g = Abs(n) * x + d * y
  BY <1>1, GcdDivides
<1>4. PICK i, j \in Nat : Abs(n) = g * i /\ d = g * j
  BY <1>1, GcdDivides
<1> HIDE DEF g
<1>5. ASSUME g = 1 PROVE Coprime(n, d)
  <2>1. CASE Abs(n) = n
    BY <1>3, <1>5, <2>1 DEF Coprime
  <2>2. CASE Abs(n) = -n
    <3>1. n = -Abs(n)
      BY <2>2
    <3>2. (-Abs(n)) * (-x) = Abs(n) * x
      BY <1>1
    <3>3. n * (-x) + d * y = 1 /\ -x \in Int
      BY <1>3, <1>5, <3>1, <3>2
    <3> QED BY <3>3 DEF Coprime
  <2> QED BY <1>1, <2>1, <2>2
<1>6. ASSUME Coprime(n, d) PROVE g = 1
  <2>1. PICK u, v \in Int : n * u + d * v = 1
    BY <1>6 DEF Coprime
  <2>2. PICK m \in Int : n = g * m
    <3>1. CASE Abs(n) = n
      BY <1>4, <3>1
    <3>2. CASE Abs(n) = -n
      <4>1. n = -(g * i) /\ g * (-i) = -(g * i) /\ -i \in Int
        BY <1>2, <1>4, <3>2
      <4> QED BY <4>1
    <3> QED BY <1>1, <3>1, <3>2
  <2>3. g * (m * u + j * v) = 1
    <3>1. g * (m * u + j * v) = (g * m) * u + (g * j) * v
      BY <1>2
    <3> QED BY <1>4, <2>1, <2>2, <3>1
  <2>4. m * u + j * v \in Int
    OBVIOUS
  <2> QED BY <1>2, <2>3, <2>4
<1> QED BY <1>5, <1>6 DEF g

\* The parts of a fraction are integers.
LEMMA FractionParts ==
  ASSUME NEW q \in Fraction
  PROVE  q = << q[1], q[2] >> /\ q[1] \in Int /\ q[2] \in Int /\ q[2] > 0
  BY FractionCoprime

\* Frac brings a ratio to lowest terms.
LEMMA FracValue ==
  ASSUME NEW n \in Int, NEW d \in Int, d > 0
  PROVE  /\ Frac(n, d) \in Fraction
         /\ \E k \in Int : k > 0 /\ n = k * Frac(n, d)[1] /\ d = k * Frac(n, d)[2]
         /\ Frac(n, d)[1] * d = n * Frac(n, d)[2]
<1> DEFINE g == Gcd(Abs(n), d)
<1>1. Abs(n) \in Nat /\ (Abs(n) = n \/ Abs(n) = -n)
  BY DEF Abs
<1>2. g \in Nat
  BY <1>1, GcdDef
<1> d \in Nat
  OBVIOUS
<1>3. PICK x, y \in Int : g = Abs(n) * x + d * y
  BY <1>1, GcdDivides
<1>4. PICK i, j \in Nat : Abs(n) = g * i /\ d = g * j
  BY <1>1, GcdDivides
<1> HIDE DEF g
<1>5. g > 0 /\ j > 0
  BY <1>2, <1>4
<1>6. PICK m, u \in Int : n = g * m /\ g = n * u + d * y
  <2>1. CASE Abs(n) = n
    <3>1. n = g * i /\ g = n * x + d * y
      BY <1>3, <1>4, <2>1
    <3> QED BY <3>1
  <2>2. CASE Abs(n) = -n
    <3>0. n = -(g * i) /\ n * (-x) = Abs(n) * x /\ g * (-i) = -(g * i)
      <4>1. n = -Abs(n)
        BY <1>1, <2>2
      <4>2. (-Abs(n)) * (-x) = Abs(n) * x
        BY <1>1
      <4> QED BY <4>1, <4>2, <1>2, <1>4
    <3>1. n = g * (-i) /\ g = n * (-x) + d * y
      BY <3>0, <1>3
    <3>2. -i \in Int /\ -x \in Int
      OBVIOUS
    <3> QED BY <3>1, <3>2
  <2> QED BY <1>1, <2>1, <2>2
<1>7. Frac(n, d) = << m, j >>
  <2>1. n \div g = m
    BY <1>2, <1>5, <1>6, DivExact
  <2>2. d \div g = j
    BY <1>2, <1>4, <1>5, DivExact
  <2> QED BY <2>1, <2>2 DEF Frac, g
<1>8. m * d = n * j
  <2>1. m * d = m * (g * j) /\ n * j = (g * m) * j
    BY <1>4, <1>6
  <2> QED BY <2>1, <1>2
<1>9. m * u + j * y = 1
  <2>1. g = (g * m) * u + (g * j) * y
    BY <1>4, <1>6
  <2>2. g * 1 = g * (m * u + j * y)
    BY <2>1, <1>2
  <2> QED BY <2>2, <1>2, <1>5
<1>10. << m, j >> \in Fraction
  <2>1. Coprime(m, j)
    BY <1>9 DEF Coprime
  <2>2. << m, j >> \in Int \X Int /\ << m, j >>[1] = m /\ << m, j >>[2] = j
    OBVIOUS
  <2> QED BY <1>5, <2>1, <2>2, FractionCoprime
<1>11. \E k \in Int : k > 0 /\ n = k * m /\ d = k * j
  <2>1. g \in Int /\ g > 0 /\ n = g * m /\ d = g * j
    BY <1>2, <1>4, <1>5, <1>6
  <2> QED BY <2>1
<1> QED BY <1>7, <1>8, <1>10, <1>11

\* Fractions that are equal in value are equal.
LEMMA SameFraction ==
  ASSUME NEW p \in Fraction, NEW q \in Fraction, p[1] * q[2] = q[1] * p[2]
  PROVE  p = q
<1> DEFINE a == p[1]  b == p[2]  c == q[1]  d == q[2]
<1>0. a \in Int /\ b \in Int /\ c \in Int /\ d \in Int /\ b > 0 /\ d > 0 /\ a * d = c * b
  BY FractionParts
<1>1. PICK x \in Int, y \in Int : a * x + b * y = 1
  BY FractionCoprime DEF Coprime
<1>2. PICK u \in Int, v \in Int : c * u + d * v = 1
  BY FractionCoprime DEF Coprime
<1>a. p = << a, b >> /\ q = << c, d >>
  BY FractionParts
<1> HIDE DEF a, b, c, d
<1> DEFINE k == c * x + d * y
           m == a * u + b * v
<1>3. c = a * k /\ d = b * k
  <2>1. c * 1 = c * (a * x + b * y) /\ d * 1 = d * (a * x + b * y)
    BY <1>1
  <2>2. c * (a * x + b * y) = a * (c * x) + (c * b) * y
    BY <1>0
  <2>3. d * (a * x + b * y) = (a * d) * x + b * (d * y)
    BY <1>0
  <2>4. /\ a * (c * x) + (a * d) * y = a * (c * x + d * y)
        /\ (c * b) * x + b * (d * y) = b * (c * x + d * y)
    BY <1>0
  <2> QED BY <1>0, <2>1, <2>2, <2>3, <2>4
<1>4. a = c * m /\ b = d * m
  <2>1. a * 1 = a * (c * u + d * v) /\ b * 1 = b * (c * u + d * v)
    BY <1>2
  <2>2. a * (c * u + d * v) = c * (a * u) + (a * d) * v
    BY <1>0
  <2>3. b * (c * u + d * v) = (c * b) * u + d * (b * v)
    BY <1>0
  <2>4. /\ c * (a * u) + (c * b) * v = c * (a * u + b * v)
        /\ (a * d) * u + d * (b * v) = d * (a * u + b * v)
    BY <1>0
  <2> QED BY <1>0, <2>1, <2>2, <2>3, <2>4
<1>5. k \in Int /\ m \in Int
  BY <1>0
<1> HIDE DEF k, m
<1>6. k > 0 /\ m > 0
  BY <1>0, <1>3, <1>4, <1>5
<1>7. b <= d /\ d <= b
  BY <1>0, <1>3, <1>4, <1>5, <1>6
<1>8. k = 1
  BY <1>0, <1>3, <1>5, <1>7
<1> QED BY <1>a, <1>0, <1>3, <1>8

\* Being coprime is symmetric.
LEMMA CoprimeSym ==
  ASSUME NEW a \in Int, NEW b \in Int, Coprime(a, b) PROVE Coprime(b, a)
<1>1. PICK x, y \in Int : a * x + b * y = 1
  BY DEF Coprime
<1>2. b * y + a * x = 1
  BY <1>1
<1> QED BY <1>2 DEF Coprime

\* What is coprime to two numbers is coprime to their product.
LEMMA CoprimeProduct ==
  ASSUME NEW a \in Int, NEW b \in Int, NEW c \in Int, Coprime(a, b), Coprime(a, c)
  PROVE  Coprime(a, b * c)
<1>1. PICK s, t \in Int : a * s + b * t = 1
  BY DEF Coprime
<1>2. PICK u, v \in Int : a * u + c * v = 1
  BY DEF Coprime
<1> DEFINE x == s * (a * u + c * v) + b * t * u
           y == t * v
<1>3. a * x + (b * c) * y = (a * s + b * t) * (a * u + c * v)
  OBVIOUS
<1>4. a * x + (b * c) * y = 1
  BY <1>1, <1>2, <1>3
<1>5. x \in Int /\ y \in Int
  OBVIOUS
<1> HIDE DEF x, y
<1> QED BY <1>4, <1>5 DEF Coprime

\* Divisors of coprime numbers are coprime.
LEMMA CoprimeDivisor ==
  ASSUME NEW a \in Int, NEW b \in Int, NEW k \in Int, NEW l \in Int, Coprime(k * a, l * b)
  PROVE  Coprime(a, b)
<1>1. PICK x, y \in Int : (k * a) * x + (l * b) * y = 1
  BY DEF Coprime
<1>2. a * (k * x) + b * (l * y) = 1
  BY <1>1
<1>3. k * x \in Int /\ l * y \in Int
  OBVIOUS
<1> QED BY <1>2, <1>3 DEF Coprime

\* Times multiplies, and its result is in lowest terms although nothing reduces it.
LEMMA TimesValue ==
  ASSUME NEW p \in Fraction, NEW q \in Fraction
  PROVE  /\ Times(p, q) \in Fraction
         /\ Times(p, q)[1] * (p[2] * q[2]) = (p[1] * q[1]) * Times(p, q)[2]
<1> DEFINE a == Frac(p[1], q[2])  b == Frac(q[1], p[2])
<1>0. p[1] \in Int /\ p[2] \in Int /\ p[2] > 0 /\ q[1] \in Int /\ q[2] \in Int /\ q[2] > 0
  BY FractionParts
<1>1. a \in Fraction /\ b \in Fraction
  BY <1>0, FracValue
<1>2. PICK k \in Int : k > 0 /\ p[1] = k * a[1] /\ q[2] = k * a[2]
  BY <1>0, FracValue
<1>3. PICK l \in Int : l > 0 /\ q[1] = l * b[1] /\ p[2] = l * b[2]
  BY <1>0, FracValue
<1>4. a[1] \in Int /\ a[2] \in Int /\ a[2] > 0 /\ b[1] \in Int /\ b[2] \in Int /\ b[2] > 0
  BY <1>1, FractionParts
<1>5. Times(p, q) = << a[1] * b[1], a[2] * b[2] >>
  BY DEF Times
<1> HIDE DEF a, b
<1>6. Coprime(a[1], a[2]) /\ Coprime(b[1], b[2])
  BY <1>1, FractionCoprime
<1>7. Coprime(a[1], b[2])
  <2>1. Coprime(p[1], p[2])
    BY FractionCoprime
  <2> QED BY <1>2, <1>3, <1>4, <2>1, CoprimeDivisor
<1>8. Coprime(b[1], a[2])
  <2>1. Coprime(q[1], q[2])
    BY FractionCoprime
  <2> QED BY <1>2, <1>3, <1>4, <2>1, CoprimeDivisor
<1>9. Coprime(a[1], a[2] * b[2]) /\ Coprime(b[1], a[2] * b[2])
  BY <1>4, <1>6, <1>7, <1>8, CoprimeProduct
<1>10. Coprime(a[1] * b[1], a[2] * b[2])
  <2> DEFINE d == a[2] * b[2]
  <2>1. d \in Int
    BY <1>4
  <2> HIDE DEF d
  <2>2. Coprime(a[1], d) /\ Coprime(b[1], d)
    BY <1>9 DEF d
  <2>3. Coprime(d, a[1] * b[1])
    BY <1>4, <2>1, <2>2, CoprimeSym, CoprimeProduct
  <2>4. a[1] * b[1] \in Int
    BY <1>4
  <2>5. Coprime(a[1] * b[1], d)
    BY <2>1, <2>3, <2>4, CoprimeSym
  <2> QED BY <2>5 DEF d
<1>11. a[2] * b[2] > 0 /\ a[2] * b[2] \in Int /\ a[1] * b[1] \in Int
  BY <1>4
<1>12. Times(p, q) \in Fraction
  BY <1>5, <1>10, <1>11, FractionCoprime
<1>13. (a[1] * b[1]) * (p[2] * q[2]) = (p[1] * q[1]) * (a[2] * b[2])
  <2> DEFINE a1 == a[1]  a2 == a[2]  b1 == b[1]  b2 == b[2]
  <2>1. (a1 * b1) * ((l * b2) * (k * a2)) = ((k * a1) * (l * b1)) * (a2 * b2)
    <3> a1 \in Int /\ a2 \in Int /\ b1 \in Int /\ b2 \in Int
      BY <1>4
    <3> HIDE DEF a1, a2, b1, b2
    <3> QED OBVIOUS
  <2> QED BY <1>2, <1>3, <2>1
<1> QED BY <1>5, <1>12, <1>13

\* Plus adds.
LEMMA PlusValue ==
  ASSUME NEW p \in Fraction, NEW q \in Fraction
  PROVE  /\ Plus(p, q) \in Fraction
         /\ Plus(p, q)[1] * (p[2] * q[2]) = (p[1] * q[2] + q[1] * p[2]) * Plus(p, q)[2]
<1> DEFINE p1 == p[1]  p2 == p[2]  q1 == q[1]  q2 == q[2]  g == Gcd(p2, q2)
<1>0. p1 \in Int /\ p2 \in Int /\ p2 > 0 /\ q1 \in Int /\ q2 \in Int /\ q2 > 0
  BY FractionParts
<1>1. p2 \in Nat /\ q2 \in Nat
  BY <1>0
<1>2. g \in Nat
  BY <1>1, GcdDef
<1>3. PICK i, j \in Nat : p2 = g * i /\ q2 = g * j
  BY <1>1, GcdDivides
<1> HIDE DEF g, p1, p2, q1, q2
<1>4. g > 0 /\ i > 0 /\ j > 0
  BY <1>0, <1>2, <1>3
<1>5. q2 \div g = j /\ p2 \div g = i
  BY <1>0, <1>2, <1>3, <1>4, DivExact
<1> DEFINE n == p1 * j + q1 * i
           r == Frac(n, i * q2)
<1>6. Plus(p, q) = r
  BY <1>5 DEF Plus, g, p1, p2, q1, q2
<1>7. n \in Int /\ i * q2 \in Int /\ i * q2 > 0
  BY <1>0, <1>4
<1>8. r \in Fraction /\ r[1] * (i * q2) = n * r[2]
  <2> HIDE DEF n
  <2> QED BY <1>7, FracValue
<1>9. r[1] \in Int /\ r[2] \in Int
  BY <1>8, FractionParts
<1> HIDE DEF r
<1>10. r[1] * (p2 * q2) = (p1 * q2 + q1 * p2) * r[2]
  <2> DEFINE r1 == r[1]  r2 == r[2]
  <2>0. r1 \in Int /\ r2 \in Int /\ r1 * (i * q2) = (p1 * j + q1 * i) * r2
    BY <1>8, <1>9
  <2> HIDE DEF r1, r2
  <2>1. r1 * ((g * i) * q2) = g * (r1 * (i * q2))
    BY <1>0, <1>2, <2>0
  <2>2. (p1 * (g * j) + q1 * (g * i)) * r2 = g * ((p1 * j + q1 * i) * r2)
    BY <1>0, <1>2, <2>0
  <2>3. r1 * (p2 * q2) = (p1 * q2 + q1 * p2) * r2
    BY <1>3, <2>0, <2>1, <2>2
  <2> QED BY <2>3 DEF r1, r2
<1> QED BY <1>6, <1>8, <1>10 DEF p1, p2, q1, q2

-----------------------------------------------------------------------------
\* Fractions: their order.

\* Two fractions compare as any two ratios of the same values do.
LEMMA LeqValue ==
  ASSUME NEW p \in Fraction, NEW q \in Fraction,
         NEW n \in Int, NEW d \in Int, d > 0, p[1] * d = n * p[2],
         NEW m \in Int, NEW e \in Int, e > 0, q[1] * e = m * q[2]
  PROVE  Leq(p, q) <=> n * e <= m * d
<1> DEFINE p1 == p[1]  p2 == p[2]  q1 == q[1]  q2 == q[2]
<1>0. /\ p1 \in Int /\ p2 \in Int /\ p2 > 0 /\ q1 \in Int /\ q2 \in Int /\ q2 > 0
      /\ p1 * d = n * p2 /\ q1 * e = m * q2
  BY FractionParts
<1>1. Leq(p, q) <=> p1 * q2 <= q1 * p2
  BY DEF Leq
<1> HIDE DEF p1, p2, q1, q2
<1>2. (p1 * q2) * (d * e) = (n * e) * (p2 * q2)
  <2>1. (p1 * q2) * (d * e) = (p1 * d) * (q2 * e)
    BY <1>0
  <2>2. (n * e) * (p2 * q2) = (n * p2) * (q2 * e)
    BY <1>0
  <2> QED BY <1>0, <2>1, <2>2
<1>3. (q1 * p2) * (d * e) = (m * d) * (p2 * q2)
  <2>1. (q1 * p2) * (d * e) = (q1 * e) * (p2 * d)
    BY <1>0
  <2>2. (m * d) * (p2 * q2) = (m * q2) * (p2 * d)
    BY <1>0
  <2> QED BY <1>0, <2>1, <2>2
<1>4. /\ p1 * q2 \in Int /\ q1 * p2 \in Int /\ n * e \in Int /\ m * d \in Int
      /\ d * e \in Int /\ d * e > 0 /\ p2 * q2 \in Int /\ p2 * q2 > 0
  BY <1>0
<1>5. p1 * q2 <= q1 * p2 <=> (p1 * q2) * (d * e) <= (q1 * p2) * (d * e)
  BY <1>4, Cancel
<1>6. n * e <= m * d <=> (n * e) * (p2 * q2) <= (m * d) * (p2 * q2)
  BY <1>4, Cancel
<1> QED BY <1>1, <1>2, <1>3, <1>5, <1>6

\* Any two fractions compare.
LEMMA LeqTotal ==
  ASSUME NEW p \in Fraction, NEW q \in Fraction
  PROVE  Leq(p, q) \/ Leq(q, p)
<1>1. p[1] * q[2] \in Int /\ q[1] * p[2] \in Int
  BY FractionParts
<1> QED BY <1>1 DEF Leq

\* The order is transitive.
LEMMA LeqTransitive ==
  ASSUME NEW p \in Fraction, NEW q \in Fraction, NEW r \in Fraction, Leq(p, q), Leq(q, r)
  PROVE  Leq(p, r)
<1> DEFINE p1 == p[1]  p2 == p[2]  q1 == q[1]  q2 == q[2]  r1 == r[1]  r2 == r[2]
<1>0. /\ p1 \in Int /\ p2 \in Int /\ p2 > 0 /\ q1 \in Int /\ q2 \in Int /\ q2 > 0
      /\ r1 \in Int /\ r2 \in Int /\ r2 > 0
      /\ p1 * q2 <= q1 * p2 /\ q1 * r2 <= r1 * q2
  BY FractionParts DEF Leq
<1>1. Leq(p, r) <=> p1 * r2 <= r1 * p2
  BY DEF Leq
<1> HIDE DEF p1, p2, q1, q2, r1, r2
<1>2. (p1 * q2) * r2 <= (q1 * p2) * r2 /\ (q1 * r2) * p2 <= (r1 * q2) * p2
  BY <1>0
<1>3. (p1 * r2) * q2 <= (r1 * p2) * q2
  BY <1>0, <1>2
<1>4. p1 * r2 \in Int /\ r1 * p2 \in Int
  BY <1>0
<1>5. p1 * r2 <= r1 * p2
  BY <1>0, <1>3, <1>4, Cancel
<1> QED BY <1>1, <1>5

\* Fractions that compare both ways are the same pair.
LEMMA LeqAntisymmetric ==
  ASSUME NEW p \in Fraction, NEW q \in Fraction, Leq(p, q), Leq(q, p)
  PROVE  p = q
<1>1. p[1] * q[2] \in Int /\ q[1] * p[2] \in Int
  BY FractionParts
<1>2. p[1] * q[2] = q[1] * p[2]
  BY <1>1 DEF Leq
<1> QED BY <1>2, SameFraction

\* Sums of larger fractions are larger.
LEMMA PlusMonotone ==
  ASSUME NEW p \in Fraction, NEW q \in Fraction, NEW r \in Fraction, NEW s \in Fraction,
         Leq(p, q), Leq(r, s)
  PROVE  Leq(Plus(p, r), Plus(q, s))
<1> DEFINE p1 == p[1]  p2 == p[2]  q1 == q[1]  q2 == q[2]
           r1 == r[1]  r2 == r[2]  s1 == s[1]  s2 == s[2]
           n == p1 * r2 + r1 * p2
           m == q1 * s2 + s1 * q2
<1>0. /\ p1 \in Int /\ p2 \in Int /\ p2 > 0 /\ q1 \in Int /\ q2 \in Int /\ q2 > 0
      /\ r1 \in Int /\ r2 \in Int /\ r2 > 0 /\ s1 \in Int /\ s2 \in Int /\ s2 > 0
      /\ p1 * q2 <= q1 * p2 /\ r1 * s2 <= s1 * r2
  BY FractionParts DEF Leq
<1>1. /\ Plus(p, r) \in Fraction /\ Plus(p, r)[1] * (p2 * r2) = n * Plus(p, r)[2]
      /\ Plus(q, s) \in Fraction /\ Plus(q, s)[1] * (q2 * s2) = m * Plus(q, s)[2]
  BY PlusValue
<1> HIDE DEF p1, p2, q1, q2, r1, r2, s1, s2
<1>2. /\ n \in Int /\ m \in Int /\ p2 * r2 \in Int /\ p2 * r2 > 0
      /\ q2 * s2 \in Int /\ q2 * s2 > 0
  BY <1>0
<1>3. n * (q2 * s2) <= m * (p2 * r2)
  <2>1. n * (q2 * s2) = (p1 * q2) * (r2 * s2) + (r1 * s2) * (p2 * q2)
    BY <1>0
  <2>2. m * (p2 * r2) = (q1 * p2) * (r2 * s2) + (s1 * r2) * (p2 * q2)
    BY <1>0
  <2>3. r2 * s2 > 0 /\ p2 * q2 > 0 /\ r2 * s2 \in Int /\ p2 * q2 \in Int
    BY <1>0
  <2>4. (p1 * q2) * (r2 * s2) <= (q1 * p2) * (r2 * s2)
    BY <1>0, <2>3, Cancel
  <2>5. (r1 * s2) * (p2 * q2) <= (s1 * r2) * (p2 * q2)
    BY <1>0, <2>3, Cancel
  <2> QED BY <1>0, <2>1, <2>2, <2>4, <2>5
<1> HIDE DEF n, m
<1> QED BY <1>1, <1>2, <1>3, LeqValue

\* Products of larger fractions are larger, above zero.
LEMMA TimesMonotone ==
  ASSUME NEW p \in Fraction, NEW q \in Fraction, NEW r \in Fraction, NEW s \in Fraction,
         Leq(p, q), Leq(r, s), 0 <= p[1], 0 <= r[1]
  PROVE  Leq(Times(p, r), Times(q, s)) /\ 0 <= Times(p, r)[1]
<1> DEFINE p1 == p[1]  p2 == p[2]  q1 == q[1]  q2 == q[2]
           r1 == r[1]  r2 == r[2]  s1 == s[1]  s2 == s[2]
           n == p1 * r1
           m == q1 * s1
<1>0. /\ p1 \in Int /\ p2 \in Int /\ p2 > 0 /\ q1 \in Int /\ q2 \in Int /\ q2 > 0
      /\ r1 \in Int /\ r2 \in Int /\ r2 > 0 /\ s1 \in Int /\ s2 \in Int /\ s2 > 0
      /\ p1 * q2 <= q1 * p2 /\ r1 * s2 <= s1 * r2 /\ 0 <= p1 /\ 0 <= r1
  BY FractionParts DEF Leq
<1>1. /\ Times(p, r) \in Fraction /\ Times(p, r)[1] * (p2 * r2) = n * Times(p, r)[2]
      /\ Times(q, s) \in Fraction /\ Times(q, s)[1] * (q2 * s2) = m * Times(q, s)[2]
  BY TimesValue
<1>a. Times(p, r)[1] \in Int /\ Times(p, r)[2] \in Int /\ Times(p, r)[2] > 0
  BY <1>1, FractionParts
<1> HIDE DEF p1, p2, q1, q2, r1, r2, s1, s2
<1>2. /\ n \in Int /\ m \in Int /\ p2 * r2 \in Int /\ p2 * r2 > 0
      /\ q2 * s2 \in Int /\ q2 * s2 > 0
  BY <1>0
<1>3. n * (q2 * s2) <= m * (p2 * r2)
  <2> DEFINE x == p1 * q2  y == q1 * p2  u == r1 * s2  v == s1 * r2
  <2>1. n * (q2 * s2) = x * u
    BY <1>0
  <2>2. m * (p2 * r2) = y * v
    BY <1>0
  <2>3. /\ x \in Int /\ y \in Int /\ u \in Int /\ v \in Int
        /\ 0 <= x /\ 0 <= u /\ x <= y /\ u <= v
    BY <1>0
  <2> HIDE DEF x, y, u, v
  <2>4. x * u <= y * u /\ y * u <= y * v
    BY <2>3
  <2> QED BY <2>1, <2>2, <2>3, <2>4
<1>4. 0 <= n
  BY <1>0
<1>5. 0 <= Times(p, r)[1]
  <2> DEFINE t == Times(p, r)[1]  b == Times(p, r)[2]  d == p2 * r2
  <2>0. t \in Int /\ b \in Int /\ b > 0 /\ d \in Int /\ d > 0 /\ t * d = n * b /\ n \in Int
    BY <1>1, <1>2, <1>a
  <2> HIDE DEF t, b, d, n
  <2> 0 <= n * b
    BY <2>0, <1>4
  <2> 0 <= t
    BY <2>0
  <2> QED BY DEF t
<1> HIDE DEF n, m
<1> QED BY <1>1, <1>2, <1>3, <1>5, LeqValue

\* Fractions that are not negative.
Amount == {q \in Fraction : 0 <= q[1]}

\* Whole numbers are fractions.
LEMMA WholeFraction ==
  ASSUME NEW n \in Int
  PROVE  Whole(n) \in Fraction /\ Whole(n)[1] = n /\ Whole(n)[2] = 1
<1>1. n * 0 + 1 * 1 = 1
  OBVIOUS
<1>2. Coprime(n, 1)
  BY <1>1 DEF Coprime
<1> QED BY <1>2, FractionCoprime DEF Whole

\* Ratios of numbers are amounts.
LEMMA FracAmount ==
  ASSUME NEW n \in Nat, NEW d \in Int, d > 0
  PROVE  Frac(n, d) \in Amount
<1>1. Frac(n, d) \in Fraction /\ Frac(n, d)[1] * d = n * Frac(n, d)[2]
  BY FracValue
<1> DEFINE a == Frac(n, d)[1]  b == Frac(n, d)[2]
<1>2. a \in Int /\ b \in Int /\ b > 0 /\ a * d = n * b
  BY <1>1, FractionParts
<1> HIDE DEF a, b
<1>3. 0 <= n * b
  BY <1>2
<1>4. 0 <= a
  BY <1>2, <1>3
<1> QED BY <1>1, <1>4 DEF Amount, a

\* Fractions of integers compare as cross products.
LEMMA LeqFrac ==
  ASSUME NEW n \in Int, NEW d \in Int, d > 0, NEW m \in Int, NEW e \in Int, e > 0
  PROVE  Leq(Frac(n, d), Frac(m, e)) <=> n * e <= m * d
  BY FracValue, LeqValue

\* The constants.
LEMMA ZeroOne ==
  /\ Zero \in Amount /\ One \in Amount /\ Leq(Zero, One)
  /\ Zero[1] = 0 /\ Zero[2] = 1 /\ One[1] = 1 /\ One[2] = 1
  /\ Whole(100) \in Amount /\ Leq(Zero, Whole(100))
  BY WholeFraction DEF Zero, One, Amount, Leq

\* Amounts are what zero does not exceed.
LEMMA LeqZero ==
  ASSUME NEW p \in Fraction PROVE Leq(Zero, p) <=> p \in Amount
  BY ZeroOne, FractionParts DEF Leq, Amount

\* A fraction does not exceed itself.
LEMMA LeqReflexive ==
  ASSUME NEW p \in Fraction PROVE Leq(p, p)
  BY LeqTotal

\* What is above an amount is an amount.
LEMMA AboveAmount ==
  ASSUME NEW p \in Amount, NEW q \in Fraction, Leq(p, q) PROVE q \in Amount
<1>1. p \in Fraction /\ Leq(Zero, p) /\ Zero \in Fraction
  BY LeqZero, ZeroOne DEF Amount
<1> QED BY <1>1, LeqTransitive, LeqZero

\* A negated fraction is in lowest terms.
LEMMA NegationFraction ==
  ASSUME NEW q \in Fraction PROVE << -q[1], q[2] >> \in Fraction
<1>1. q[1] \in Int /\ q[2] \in Int /\ q[2] > 0 /\ Coprime(q[1], q[2])
  BY FractionCoprime
<1>2. PICK x, y \in Int : q[1] * x + q[2] * y = 1
  BY <1>1 DEF Coprime
<1>3. (-q[1]) * (-x) + q[2] * y = 1 /\ -x \in Int
  BY <1>1, <1>2
<1>4. Coprime(-q[1], q[2])
  BY <1>3 DEF Coprime
<1> QED BY <1>1, <1>4, FractionCoprime

\* A difference grows with what it is taken from.
LEMMA MinusAntitone ==
  ASSUME NEW p \in Fraction, NEW q \in Fraction, NEW r \in Fraction, NEW s \in Fraction,
         Leq(p, q), Leq(r, s)
  PROVE  Leq(Minus(p, s), Minus(q, r))
<1>1. << -s[1], s[2] >> \in Fraction /\ << -r[1], r[2] >> \in Fraction
  BY NegationFraction
<1>2. Leq(<< -s[1], s[2] >>, << -r[1], r[2] >>)
  BY FractionParts DEF Leq
<1> QED BY <1>1, <1>2, PlusMonotone DEF Minus

\* Differences are fractions.
LEMMA MinusFraction ==
  ASSUME NEW p \in Fraction, NEW q \in Fraction
  PROVE  Minus(p, q) \in Fraction
  BY NegationFraction, PlusValue DEF Minus

\* An inverted fraction is in lowest terms.
LEMMA InverseFraction ==
  ASSUME NEW q \in Fraction, q[1] > 0 PROVE << q[2], q[1] >> \in Fraction
<1>1. q[1] \in Int /\ q[2] \in Int /\ q[2] > 0 /\ Coprime(q[1], q[2])
  BY FractionCoprime
<1>2. Coprime(q[2], q[1])
  BY <1>1, CoprimeSym
<1> QED BY <1>1, <1>2, FractionCoprime

\* A quotient grows with what is divided.
LEMMA OverMonotone ==
  ASSUME NEW p \in Amount, NEW q \in Fraction, Leq(p, q), NEW r \in Fraction, r[1] > 0
  PROVE  Over(p, r) \in Amount /\ Leq(Over(p, r), Over(q, r))
<1> DEFINE i == << r[2], r[1] >>
<1>1. i \in Fraction /\ 0 <= i[1] /\ p \in Fraction /\ 0 <= p[1]
  BY InverseFraction, FractionParts DEF Amount
<1>2. Leq(i, i)
  BY <1>1, LeqReflexive
<1> HIDE DEF i
<1>3. Leq(Times(p, i), Times(q, i)) /\ 0 <= Times(p, i)[1] /\ Times(p, i) \in Fraction
  BY <1>1, <1>2, TimesMonotone, TimesValue
<1> QED BY <1>3 DEF Over, i, Amount

\* Products of amounts are amounts.
LEMMA TimesAmount ==
  ASSUME NEW p \in Amount, NEW q \in Amount
  PROVE  Times(p, q) \in Amount
  BY TimesValue, TimesMonotone, LeqReflexive DEF Amount

\* Sums of amounts are amounts.
LEMMA PlusAmount ==
  ASSUME NEW p \in Amount, NEW q \in Amount
  PROVE  Plus(p, q) \in Amount
<1>1. p \in Fraction /\ q \in Fraction /\ Leq(Zero, p) /\ Leq(Zero, q) /\ Zero \in Fraction
  BY LeqZero, ZeroOne DEF Amount
<1>2. /\ Leq(Plus(Zero, Zero), Plus(p, q))
      /\ Plus(p, q) \in Fraction /\ Plus(Zero, Zero) \in Fraction
  BY <1>1, PlusMonotone, PlusValue
<1>3. Plus(Zero, Zero)[1] * 1 = 0
  <2>1. Plus(Zero, Zero)[1] * (1 * 1) = (0 * 1 + 0 * 1) * Plus(Zero, Zero)[2]
    BY <1>1, ZeroOne, PlusValue
  <2> QED BY <2>1, <1>2, FractionParts
<1>4. Plus(Zero, Zero) \in Amount
  BY <1>2, <1>3, FractionParts DEF Amount
<1> QED BY <1>2, <1>4, AboveAmount

-----------------------------------------------------------------------------
\* Fractions: calculating with numbers.

\* Fractions above zero.
Positive == {q \in Fraction : 0 < q[1]}

\* A fraction has the value of a ratio.
Value(p, n, d) == p \in Fraction /\ n \in Int /\ d \in Int /\ d > 0 /\ p[1] * d = n * p[2]

\* A fraction has its own value.
LEMMA ValueOwn ==
  ASSUME NEW p \in Fraction PROVE Value(p, p[1], p[2])
  BY FractionParts DEF Value

\* Ratios and whole numbers have the value they are written with.
LEMMA ValueFrac ==
  ASSUME NEW n \in Int, NEW d \in Int, d > 0
  PROVE  Value(Frac(n, d), n, d) /\ Value(Whole(n), n, 1)
  BY FracValue, WholeFraction DEF Value

\* The value of a product.
LEMMA ValueTimes ==
  ASSUME NEW p, NEW q, NEW n \in Int, NEW d \in Int, NEW m \in Int, NEW e \in Int,
         Value(p, n, d), Value(q, m, e),
         NEW k \in Int, NEW l \in Int, k = n * m, l = d * e
  PROVE  Value(Times(p, q), k, l)
<1> DEFINE t == Times(p, q)
           p1 == p[1]  p2 == p[2]  q1 == q[1]  q2 == q[2]  t1 == t[1]  t2 == t[2]
<1>1. p \in Fraction /\ q \in Fraction /\ t \in Fraction
  BY TimesValue DEF Value
<1>2. /\ p1 \in Int /\ p2 \in Int /\ p2 > 0 /\ q1 \in Int /\ q2 \in Int /\ q2 > 0
      /\ t1 \in Int /\ t2 \in Int /\ t2 > 0 /\ d > 0 /\ e > 0
      /\ p1 * d = n * p2 /\ q1 * e = m * q2 /\ t1 * (p2 * q2) = (p1 * q1) * t2
  BY <1>1, FractionParts, TimesValue DEF Value
<1>3. SUFFICES t1 * (d * e) = (n * m) * t2 /\ d * e > 0
  BY <1>1 DEF Value
<1> HIDE DEF p1, p2, q1, q2, t1, t2
<1>4. (t1 * (d * e)) * (p2 * q2) = ((n * m) * t2) * (p2 * q2)
  <2>1. (t1 * (d * e)) * (p2 * q2) = (t1 * (p2 * q2)) * (d * e)
    BY <1>2
  <2>2. ((p1 * q1) * t2) * (d * e) = ((p1 * d) * (q1 * e)) * t2
    BY <1>2
  <2>3. ((n * p2) * (m * q2)) * t2 = ((n * m) * t2) * (p2 * q2)
    BY <1>2
  <2> QED BY <1>2, <2>1, <2>2, <2>3
<1>5. /\ t1 * (d * e) \in Int /\ (n * m) * t2 \in Int
      /\ p2 * q2 \in Int /\ p2 * q2 > 0 /\ d * e > 0
  BY <1>2
<1> QED BY <1>4, <1>5, Cancel

\* The value of a sum.
LEMMA ValuePlus ==
  ASSUME NEW p, NEW q, NEW n \in Int, NEW d \in Int, NEW m \in Int, NEW e \in Int,
         Value(p, n, d), Value(q, m, e),
         NEW k \in Int, NEW l \in Int, k = n * e + m * d, l = d * e
  PROVE  Value(Plus(p, q), k, l)
<1> DEFINE t == Plus(p, q)
           p1 == p[1]  p2 == p[2]  q1 == q[1]  q2 == q[2]  t1 == t[1]  t2 == t[2]
<1>1. p \in Fraction /\ q \in Fraction /\ t \in Fraction
  BY PlusValue DEF Value
<1>2. /\ p1 \in Int /\ p2 \in Int /\ p2 > 0 /\ q1 \in Int /\ q2 \in Int /\ q2 > 0
      /\ t1 \in Int /\ t2 \in Int /\ t2 > 0 /\ d > 0 /\ e > 0
      /\ p1 * d = n * p2 /\ q1 * e = m * q2 /\ t1 * (p2 * q2) = (p1 * q2 + q1 * p2) * t2
  BY <1>1, FractionParts, PlusValue DEF Value
<1>3. SUFFICES t1 * (d * e) = (n * e + m * d) * t2 /\ d * e > 0
  BY <1>1 DEF Value
<1> HIDE DEF p1, p2, q1, q2, t1, t2
<1>4. (t1 * (d * e)) * (p2 * q2) = ((n * e + m * d) * t2) * (p2 * q2)
  <2>1. (t1 * (d * e)) * (p2 * q2) = (t1 * (p2 * q2)) * (d * e)
    BY <1>2
  <2>2. ((p1 * q2 + q1 * p2) * t2) * (d * e)
        = ((p1 * d) * (q2 * e) + (q1 * e) * (p2 * d)) * t2
    BY <1>2
  <2>3. ((n * p2) * (q2 * e) + (m * q2) * (p2 * d)) * t2
        = ((n * e + m * d) * t2) * (p2 * q2)
    BY <1>2
  <2> QED BY <1>2, <2>1, <2>2, <2>3
<1>5. /\ t1 * (d * e) \in Int /\ (n * e + m * d) * t2 \in Int
      /\ p2 * q2 \in Int /\ p2 * q2 > 0 /\ d * e > 0
  BY <1>2
<1> QED BY <1>4, <1>5, Cancel

\* The value of a difference.
LEMMA ValueMinus ==
  ASSUME NEW p, NEW q, NEW n \in Int, NEW d \in Int, NEW m \in Int, NEW e \in Int,
         Value(p, n, d), Value(q, m, e),
         NEW k \in Int, NEW l \in Int, k = n * e - m * d, l = d * e
  PROVE  Value(Minus(p, q), k, l)
<1> DEFINE r == << -q[1], q[2] >>
<1>1. Value(r, -m, e)
  <2>1. q \in Fraction /\ r \in Fraction /\ r[1] = -q[1] /\ r[2] = q[2] /\ e > 0
    BY NegationFraction DEF Value
  <2>2. q[1] * e = m * q[2] /\ q[1] \in Int /\ q[2] \in Int
    BY <2>1, FractionParts DEF Value
  <2>3. (-q[1]) * e = (-m) * q[2]
    <3>1. (-q[1]) * e = -(q[1] * e) /\ (-m) * q[2] = -(m * q[2])
      BY <2>2
    <3> QED BY <2>2, <3>1
  <2> QED BY <2>1, <2>3 DEF Value
<1> HIDE DEF r
<1>2. Value(Plus(p, r), n * e + (-m) * d, d * e)
  BY <1>1, ValuePlus
<1>3. n * e + (-m) * d = n * e - m * d
  OBVIOUS
<1> QED BY <1>2, <1>3 DEF Minus, r

\* The value of a quotient.
LEMMA ValueOver ==
  ASSUME NEW p, NEW q, NEW n \in Int, NEW d \in Int, NEW m \in Int, NEW e \in Int,
         Value(p, n, d), Value(q, m, e), m > 0,
         NEW k \in Int, NEW l \in Int, k = n * e, l = d * m
  PROVE  Value(Over(p, q), k, l)
<1> DEFINE a == q[1]  b == q[2]  i == << b, a >>
<1>1. q \in Fraction /\ a \in Int /\ b \in Int /\ b > 0 /\ e > 0 /\ a * e = m * b
  BY FractionParts DEF Value
<1>2. a > 0
  <2> HIDE DEF a, b
  <2>1. 0 < m * b
    BY <1>1
  <2> QED BY <1>1, <2>1
<1>3. Value(i, e, m)
  <2>1. i \in Fraction /\ i[1] = b /\ i[2] = a
    BY <1>1, <1>2, InverseFraction
  <2> HIDE DEF a, b, i
  <2>2. b * m = e * a
    BY <1>1
  <2> QED BY <1>1, <2>1, <2>2 DEF Value
<1> HIDE DEF i
<1>4. Value(Times(p, i), k, l)
  BY <1>1, <1>3, ValueTimes
<1> QED BY <1>4 DEF Over, i

\* A value is the same in other terms.
LEMMA ValueLowest ==
  ASSUME NEW p, NEW n \in Int, NEW d \in Int, Value(p, n, d),
         NEW m \in Int, NEW e \in Int, e > 0, n * e = m * d
  PROVE  Value(p, m, e)
<1> DEFINE a == p[1]  b == p[2]
<1>1. a \in Int /\ b \in Int /\ d > 0 /\ a * d = n * b /\ p \in Fraction
  BY FractionParts DEF Value
<1> SUFFICES a * e = m * b
  BY <1>1 DEF Value
<1> HIDE DEF a, b
<1>2. (a * e) * d = (m * b) * d
  <2>1. (a * e) * d = (a * d) * e /\ (n * b) * e = (n * e) * b /\ (m * d) * b = (m * b) * d
    BY <1>1
  <2> QED BY <1>1, <2>1
<1>3. a * e \in Int /\ m * b \in Int
  BY <1>1
<1> QED BY <1>1, <1>2, <1>3, Cancel

\* Fractions compare as their values.
LEMMA ValueLeq ==
  ASSUME NEW p, NEW q, NEW n \in Int, NEW d \in Int, NEW m \in Int, NEW e \in Int,
         Value(p, n, d), Value(q, m, e)
  PROVE  Leq(p, q) <=> n * e <= m * d
  BY LeqValue DEF Value

\* The sign of a value.
LEMMA ValueAmount ==
  ASSUME NEW p, NEW n \in Int, NEW d \in Int, Value(p, n, d)
  PROVE  (p \in Amount <=> 0 <= n) /\ (p \in Positive <=> 0 < n)
<1> DEFINE a == p[1]  b == p[2]
<1>1. p \in Fraction /\ a \in Int /\ b \in Int /\ b > 0 /\ d > 0 /\ a * d = n * b
  BY FractionParts DEF Value
<1>2. SUFFICES (0 <= a <=> 0 <= n) /\ (0 < a <=> 0 < n)
  BY <1>1 DEF Amount, Positive
<1> HIDE DEF a, b
<1>3. ASSUME 0 < a PROVE 0 < n
  <2>1. 0 < a * d
    BY <1>1, <1>3
  <2> QED BY <1>1, <2>1
<1>4. ASSUME 0 < n PROVE 0 < a
  <2>1. 0 < n * b
    BY <1>1, <1>4
  <2> QED BY <1>1, <2>1
<1>5. a = 0 <=> n = 0
  BY <1>1
<1> QED BY <1>1, <1>3, <1>4, <1>5

\* The kinds of fractions include each other.
LEMMA PositiveAmount ==
  Positive \subseteq Amount /\ Amount \subseteq Fraction
<1> SUFFICES ASSUME NEW q \in Positive PROVE q \in Amount
  BY DEF Amount
<1> QED BY FractionParts DEF Positive, Amount

\* Quotients by what is positive.
LEMMA OverFraction ==
  ASSUME NEW q \in Positive
  PROVE  /\ \A p \in Fraction : Over(p, q) \in Fraction
         /\ \A p \in Amount : Over(p, q) \in Amount
         /\ \A p \in Positive : Over(p, q) \in Positive
<1>1. << q[2], q[1] >> \in Positive
  BY InverseFraction, FractionParts DEF Positive
<1> DEFINE i == << q[2], q[1] >>
<1> HIDE DEF i
<1>2. ASSUME NEW p \in Positive, NEW r \in Positive PROVE Times(p, r) \in Positive
  <2>1. /\ Value(p, p[1], p[2]) /\ Value(r, r[1], r[2])
        /\ p[1] \in Int /\ p[2] \in Int /\ r[1] \in Int /\ r[2] \in Int /\ 0 < p[1] /\ 0 < r[1]
    BY ValueOwn, FractionParts DEF Positive
  <2>2. 0 < p[1] * r[1] /\ p[1] * r[1] \in Int /\ p[2] * r[2] \in Int
    BY <2>1
  <2>3. Value(Times(p, r), p[1] * r[1], p[2] * r[2])
    BY <2>1, <2>2, ValueTimes
  <2> QED BY <2>2, <2>3, ValueAmount
<1>3. i \in Fraction /\ i \in Amount /\ i \in Positive
  BY <1>1, PositiveAmount DEF i
<1> QED BY <1>2, <1>3, TimesValue, TimesAmount DEF Over, i

\* Rounding up reaches a value by less than one.
LEMMA CeilBounds ==
  ASSUME NEW p, NEW n \in Int, NEW d \in Int, Value(p, n, d)
  PROVE  Ceil(p) \in Int /\ n <= Ceil(p) * d /\ Ceil(p) * d < n + d
<1> DEFINE a == p[1]  b == p[2]  c == (-a) \div b
<1>1. a \in Int /\ b \in Int /\ b > 0 /\ d > 0 /\ a * d = n * b
  BY FractionParts DEF Value
<1>2. Ceil(p) = -c
  BY DEF Ceil
<1> HIDE DEF a, b
<1>3. c \in Int /\ b * c <= -a /\ -a < b * c + b
  <2> DEFINE m == -a
  <2>1. m \in Int /\ b \in Nat /\ b # 0
    BY <1>1
  <2> HIDE DEF m
  <2>2. m \div b \in Int /\ b * (m \div b) <= m /\ m < b * (m \div b) + b
    BY <2>1
  <2> QED BY <2>2 DEF m
<1> HIDE DEF c
<1> DEFINE u == -c
<1>4. u \in Int /\ a <= b * u /\ b * u < a + b
  <2>1. b * (-c) = -(b * c)
    BY <1>1, <1>3
  <2> QED BY <1>1, <1>3, <2>1
<1> HIDE DEF u
<1>5. n <= u * d
  <2>1. a * d <= (b * u) * d
    BY <1>1, <1>4
  <2>2. (b * u) * d = (u * d) * b /\ u * d \in Int
    BY <1>1, <1>4
  <2>3. n * b <= (u * d) * b
    BY <1>1, <2>1, <2>2
  <2> QED BY <1>1, <2>2, <2>3, Cancel
<1>6. u * d < n + d
  <2>1. (b * u) * d < (a + b) * d
    BY <1>1, <1>4
  <2>2. (b * u) * d = (u * d) * b /\ (a + b) * d = a * d + b * d /\ u * d \in Int
    BY <1>1, <1>4
  <2>3. (n + d) * b = n * b + b * d /\ n + d \in Int
    BY <1>1
  <2>4. (u * d) * b < (n + d) * b
    BY <1>1, <2>1, <2>2, <2>3
  <2>5. ~((n + d) * b <= (u * d) * b)
    <3> DEFINE y == (u * d) * b  z == (n + d) * b
    <3>1. y \in Int /\ z \in Int /\ y < z
      BY <1>1, <2>2, <2>3, <2>4
    <3> HIDE DEF y, z
    <3>2. ~(z <= y)
      BY <3>1
    <3> QED BY <3>2 DEF y, z
  <2>6. ~(n + d <= u * d)
    BY <1>1, <2>2, <2>3, <2>5, Cancel
  <2> QED BY <2>2, <2>3, <2>6
<1> QED BY <1>2, <1>4, <1>5, <1>6 DEF u

-----------------------------------------------------------------------------
\* Clamping and rounding.

\* A clamped value lies between its bounds.
LEMMA ClampFraction ==
  ASSUME NEW v \in Fraction, NEW lo \in Fraction, NEW hi \in Fraction, Leq(lo, hi)
  PROVE  Clamp(v, lo, hi) \in Fraction /\ Leq(lo, Clamp(v, lo, hi)) /\ Leq(Clamp(v, lo, hi), hi)
  BY LeqReflexive DEF Clamp, Less

\* Clamping keeps the order.
LEMMA ClampMonotone ==
  ASSUME NEW v \in Fraction, NEW w \in Fraction, Leq(v, w),
         NEW lo \in Fraction, NEW hi \in Fraction, Leq(lo, hi)
  PROVE  Leq(Clamp(v, lo, hi), Clamp(w, lo, hi))
  BY LeqReflexive, LeqTotal, LeqTransitive DEF Clamp, Less

\* A clamped value exceeds what the value and the upper bound exceed.
LEMMA ClampAbove ==
  ASSUME NEW v \in Fraction, NEW w \in Fraction, NEW lo \in Fraction, NEW hi \in Fraction,
         Leq(w, v), Leq(w, hi)
  PROVE  Leq(w, Clamp(v, lo, hi))
<1>1. Less(v, lo) => Leq(w, lo)
  BY LeqTotal, LeqTransitive DEF Less
<1> QED BY <1>1 DEF Clamp

\* A clamped value stays below what the value and the lower bound stay below.
LEMMA ClampBelow ==
  ASSUME NEW v \in Fraction, NEW w \in Fraction, NEW lo \in Fraction, NEW hi \in Fraction,
         Leq(v, w), Leq(lo, w)
  PROVE  Leq(Clamp(v, lo, hi), w)
<1>1. Less(hi, v) => Leq(hi, w)
  BY LeqTotal, LeqTransitive DEF Less
<1> QED BY <1>1 DEF Clamp

\* max(lo, min(hi, v)) is the clamp of the backend.
LEMMA ClampsAgree ==
  ASSUME NEW v \in Fraction, NEW lo \in Fraction, NEW hi \in Fraction, Leq(lo, hi)
  PROVE  clamp(v, lo, hi) = Clamp(v, lo, hi)
<1>1. CASE ~Leq(lo, v)
  <2>1. Leq(v, lo)
    BY <1>1, LeqTotal
  <2>2. Leq(v, hi)
    BY <2>1, LeqTransitive
  <2>3. ~Leq(hi, v)
    BY <1>1, <2>2, LeqTransitive
  <2>4. Clamp(v, lo, hi) = lo
    BY <1>1 DEF Clamp, Less
  <2>5. clamp(v, lo, hi) = lo
    BY <2>1, <2>3 DEF clamp, Less
  <2> QED BY <2>4, <2>5
<1>2. CASE Leq(lo, v) /\ ~Leq(v, hi)
  <2>1. Leq(hi, v)
    BY <1>2, LeqTotal
  <2>2. Clamp(v, lo, hi) = hi
    BY <1>2 DEF Clamp, Less
  <2>3. clamp(v, lo, hi) = IF Leq(hi, lo) THEN lo ELSE hi
    BY <2>1 DEF clamp, Less
  <2>4. Leq(hi, lo) => hi = lo
    BY LeqAntisymmetric
  <2> QED BY <2>2, <2>3, <2>4
<1>3. CASE Leq(lo, v) /\ Leq(v, hi)
  <2>1. Clamp(v, lo, hi) = v
    BY <1>3 DEF Clamp, Less
  <2>2. Leq(hi, v) => hi = v
    BY <1>3, LeqAntisymmetric
  <2>3. Leq(v, lo) => v = lo
    BY <1>3, LeqAntisymmetric
  <2>4. clamp(v, lo, hi) = v
    BY <2>2, <2>3 DEF clamp, Less
  <2> QED BY <2>1, <2>4
<1> QED BY <1>1, <1>2, <1>3

\* Clamped to [0, 1].
LEMMA UnitFraction ==
  ASSUME NEW v \in Fraction
  PROVE  Unit(v) \in Amount /\ Leq(Unit(v), One) /\ Leq(Zero, Unit(v))
  BY ZeroOne, ClampFraction, LeqZero DEF Unit, Amount

\* Clamped to [0, 100].
LEMMA PercentFraction ==
  ASSUME NEW v \in Fraction
  PROVE  Percent(v) \in Amount /\ Leq(Percent(v), Whole(100)) /\ Leq(Zero, Percent(v))
  BY ZeroOne, ClampFraction, LeqZero DEF Percent, Amount

\* Clamping to [0, 1] and to [0, 100] keeps the order.
LEMMA UnitMonotone ==
  ASSUME NEW v \in Fraction, NEW w \in Fraction, Leq(v, w)
  PROVE  Leq(Unit(v), Unit(w)) /\ Leq(Percent(v), Percent(w))
  BY ZeroOne, ClampMonotone DEF Unit, Percent, Amount

\* Clamping to [0, 1] does not exceed what the value does not exceed.
LEMMA UnitBelow ==
  ASSUME NEW v \in Fraction, NEW w \in Amount, Leq(v, w), Leq(w, One)
  PROVE  Leq(Unit(v), w)
<1>1. Leq(Zero, w) /\ w \in Fraction
  BY LeqZero DEF Amount
<1>2. Unit(w) = w
  BY <1>1 DEF Unit, Clamp, Less
<1> QED BY <1>1, <1>2, UnitMonotone

\* An amount is rounded the same way by both implementations, as half a digit counts up
\* in both where nothing is negative.
LEMMA RoundAmount ==
  ASSUME NEW v \in Amount, NEW k \in Int, k > 0
  PROVE  Round(v, k) \in Amount /\ round(v, k) = Round(v, k)
<1>1. v[1] \in Int /\ v[2] \in Int /\ v[2] > 0 /\ 0 <= v[1]
  BY FractionParts DEF Amount
<1> DEFINE n == (2 * v[1] * k + v[2]) \div (2 * v[2])
<1>2. Round(v, k) = Frac(n, k) /\ round(v, k) = Frac(n, k)
  BY <1>1 DEF Round, round
<1>3. n \in Nat
  <2> DEFINE a == 2 * v[1] * k + v[2]  b == 2 * v[2]
  <2>1. a \in Nat /\ b \in Nat /\ b # 0
    <3>1. v[1] * k >= 0 /\ v[1] * k \in Int
      BY <1>1
    <3>2. 2 * v[1] * k = 2 * (v[1] * k)
      BY <1>1
    <3> QED BY <1>1, <3>1, <3>2
  <2> HIDE DEF a, b
  <2>2. a \div b \in Nat
    BY <2>1, DivMod
  <2> QED BY <2>2 DEF a, b
<1> HIDE DEF n
<1> QED BY <1>2, <1>3, FracAmount

\* Rounding keeps the order.
LEMMA RoundMonotone ==
  ASSUME NEW v \in Amount, NEW w \in Amount, Leq(v, w), NEW k \in Int, k > 0
  PROVE  Leq(Round(v, k), Round(w, k))
<1> DEFINE a == v[1]  b == v[2]  c == w[1]  d == w[2]
           m == (2 * a * k + b) \div (2 * b)
           n == (2 * c * k + d) \div (2 * d)
<1>1. /\ a \in Int /\ b \in Int /\ b > 0 /\ 0 <= a
      /\ c \in Int /\ d \in Int /\ d > 0 /\ 0 <= c /\ a * d <= c * b
  BY FractionParts DEF Amount, Leq
<1>2. Round(v, k) = Frac(m, k) /\ Round(w, k) = Frac(n, k)
  BY <1>1 DEF Round
<1> HIDE DEF a, b, c, d
<1>3. /\ m \in Int /\ (2 * b) * m <= 2 * a * k + b
      /\ n \in Int /\ 2 * c * k + d < (2 * d) * n + 2 * d
  <2> DEFINE e == 2 * a * k + b  f == 2 * b  g == 2 * c * k + d  h == 2 * d
  <2>1. e \in Int /\ f \in Nat /\ f # 0 /\ g \in Int /\ h \in Nat /\ h # 0
    BY <1>1
  <2> HIDE DEF e, f, g, h
  <2>2. e \div f \in Int /\ f * (e \div f) <= e /\ g \div h \in Int /\ g < h * (g \div h) + h
    BY <2>1
  <2> QED BY <2>2 DEF e, f, g, h
<1> HIDE DEF m, n
<1>4. m < n + 1
  <2>1. ((2 * b) * m) * d <= (2 * a * k + b) * d
    BY <1>1, <1>3
  <2>2. (2 * a * k + b) * d = 2 * ((a * d) * k) + b * d
    BY <1>1
  <2>3. (a * d) * k <= (c * b) * k
    BY <1>1
  <2>4. (2 * c * k + d) * b < ((2 * d) * n + 2 * d) * b
    BY <1>1, <1>3
  <2>5. (2 * c * k + d) * b = 2 * ((c * b) * k) + b * d
    BY <1>1
  <2>6. /\ ((2 * b) * m) * d = (2 * (b * d)) * m
        /\ ((2 * d) * n + 2 * d) * b = (2 * (b * d)) * (n + 1)
    BY <1>1, <1>3
  <2>7. 2 * (b * d) \in Int /\ 2 * (b * d) > 0
    BY <1>1
  <2>8. (2 * (b * d)) * m < (2 * (b * d)) * (n + 1)
    <3> DEFINE x == (a * d) * k  y == (c * b) * k  z == b * d  s == ((2 * b) * m) * d
               t == ((2 * d) * n + 2 * d) * b
    <3>1. x \in Int /\ y \in Int /\ z \in Int /\ s \in Int /\ t \in Int
      BY <1>1, <1>3
    <3>2. s <= 2 * x + z /\ x <= y /\ 2 * y + z < t
      BY <2>1, <2>2, <2>3, <2>4, <2>5
    <3> HIDE DEF x, y, z, s, t
    <3>3. s < t
      BY <3>1, <3>2
    <3> QED BY <3>3, <2>6 DEF s, t
  <2> QED BY <1>3, <2>7, <2>8
<1>5. m * k <= n * k
  BY <1>3, <1>4
<1> QED BY <1>2, <1>3, <1>5, LeqFrac

\* Rounding keeps to the side of a value that has as many digits.
LEMMA RoundBounds ==
  ASSUME NEW v \in Amount, NEW k \in Int, k > 0, NEW n \in Nat
  PROVE  /\ Leq(Frac(n, k), v) => Leq(Frac(n, k), Round(v, k))
         /\ Leq(v, Frac(n, k)) => Leq(Round(v, k), Frac(n, k))
<1> DEFINE a == v[1]  b == v[2]  m == (2 * a * k + b) \div (2 * b)
<1>1. a \in Int /\ b \in Int /\ b > 0 /\ 0 <= a /\ v \in Fraction
  BY FractionParts DEF Amount
<1>2. Round(v, k) = Frac(m, k)
  BY <1>1 DEF Round
<1>3. /\ Leq(Frac(n, k), v) <=> n * b <= a * k
      /\ Leq(v, Frac(n, k)) <=> a * k <= n * b
  BY <1>1, ValueFrac, ValueOwn, ValueLeq
<1> HIDE DEF a, b
<1>4. m \in Int /\ (2 * b) * m <= 2 * a * k + b /\ 2 * a * k + b < (2 * b) * m + 2 * b
  <2> DEFINE e == 2 * a * k + b  f == 2 * b
  <2>1. e \in Int /\ f \in Nat /\ f # 0
    BY <1>1
  <2> HIDE DEF e, f
  <2>2. e \div f \in Int /\ f * (e \div f) <= e /\ e < f * (e \div f) + f
    BY <2>1
  <2> QED BY <2>2 DEF e, f
<1> HIDE DEF m
<1>5. 2 * a * k = 2 * (a * k) /\ a * k \in Int /\ n * b \in Int
  BY <1>1
<1>6. ASSUME n * b <= a * k PROVE n <= m
  <2>1. (2 * b) * n < (2 * b) * (m + 1)
    <3>1. (2 * b) * n = 2 * (n * b) /\ (2 * b) * (m + 1) = (2 * b) * m + 2 * b
      BY <1>1, <1>4
    <3> QED BY <1>1, <1>4, <1>5, <1>6, <3>1
  <2> QED BY <1>1, <1>4, <2>1
<1>7. ASSUME a * k <= n * b PROVE m <= n
  <2>1. (2 * b) * m < (2 * b) * (n + 1)
    <3>1. (2 * b) * (n + 1) = 2 * (n * b) + 2 * b
      BY <1>1
    <3>2. (2 * b) * m <= 2 * (n * b) + b
      BY <1>1, <1>4, <1>5, <1>7
    <3> QED BY <1>1, <1>4, <1>5, <3>1, <3>2
  <2> QED BY <1>1, <1>4, <2>1
<1>8. (n <= m => n * k <= m * k) /\ (m <= n => m * k <= n * k)
  BY <1>4
<1> QED BY <1>2, <1>3, <1>4, <1>6, <1>7, <1>8, LeqFrac

-----------------------------------------------------------------------------
\* The parts of the scores, in both implementations.

\* The tables of both implementations are the same, for every road.
LEMMA RoadValues ==
  ASSUME NEW road
  PROVE  /\ RecommendedDensityFor(road) \in Positive
         /\ RoadWidthFor(road) \in Positive
         /\ recommended_density(road) = RecommendedDensityFor(road)
         /\ road_width(road) = RoadWidthFor(road)
<1>1. \A n, d \in Int : n > 0 /\ d > 0 => Frac(n, d) \in Positive /\ Whole(n) \in Positive
  <2> SUFFICES ASSUME NEW n \in Int, NEW d \in Int, n > 0, d > 0
               PROVE  Frac(n, d) \in Positive /\ Whole(n) \in Positive
    OBVIOUS
  <2>1. Value(Frac(n, d), n, d) /\ Value(Whole(n), n, 1)
    BY ValueFrac
  <2> QED BY <2>1, ValueAmount
<1>2. RECOMMENDED_DENSITY = RecommendedDensity /\ ROAD_WIDTH = RoadWidth
  BY DEF RECOMMENDED_DENSITY, RecommendedDensity, ROAD_WIDTH, RoadWidth
<1>3. DOMAIN RecommendedDensity = Roads /\ DOMAIN RoadWidth = Roads
  BY DEF RecommendedDensity, RoadWidth, Roads
<1>4. /\ recommended_density(road) = RecommendedDensityFor(road)
      /\ road_width(road) = RoadWidthFor(road)
  BY <1>2, <1>3
     DEF recommended_density, RecommendedDensityFor, road_width, RoadWidthFor, DefaultRoad
<1>5. \A r \in Roads : RecommendedDensity[r] \in Positive
  BY <1>1 DEF RecommendedDensity, Roads
<1>6. \A r \in Roads : RoadWidth[r] \in Positive
  BY <1>1 DEF RoadWidth, Roads
<1>7. DefaultRoad \in Roads
  BY DEF DefaultRoad, Roads
<1> QED BY <1>4, <1>5, <1>6, <1>7 DEF RecommendedDensityFor, RoadWidthFor

\* The kinds of the features.
LEMMA FeatureTypes ==
  ASSUME NEW f \in Features
  PROVE  /\ f.lamps \in Nat /\ f.poles \in Nat /\ f.trees \in Nat
         /\ f.length \in Fraction /\ f.night \in Fraction /\ f.width \in Fraction
         /\ f.vegetation \in Fraction /\ f.building \in Fraction
         /\ f.sidewalk \in Fraction /\ f.brightness \in Fraction
  BY DEF Features

\* What stands for a value that is not positive.
LEMMA OrElsePositive ==
  ASSUME NEW v \in Fraction, NEW w \in Positive
  PROVE  OrElse(v, w) \in Positive /\ OrElse(v, w) = (IF Less(Zero, v) THEN v ELSE w)
<1>1. Leq(v, Zero) <=> v[1] <= 0
  BY ZeroOne, FractionParts DEF Leq
<1> QED BY <1>1, FractionParts DEF OrElse, Less, Positive

\* The constants that are divided by.
LEMMA Hundred ==
  /\ Whole(100) \in Positive /\ One \in Positive
  BY WholeFraction, ZeroOne DEF Positive, Amount

\* The parts of a score before they are rounded.
LengthOf(f) == OrElse(f.length, Whole(100))
DensityOf(f) == LightingDensity(f.lamps, LengthOf(f))
AdequacyOf(f) ==
  Unit(Over(Times(DensityOf(f), OrElse(f.brightness, One)), RecommendedDensityFor(f.road)))
OverallOf(lss, occ, ias) == Percent(Weighted(50, lss, 30, Minus(Whole(100), occ), 20, ias))
Overall(f) ==
  OverallOf(Sufficiency(f, AdequacyOf(f)), Occlusion(f),
            Infrastructure(f, LengthOf(f), AdequacyOf(f)))
RiskOf(f) == Percent(Minus(Whole(100), Overall(f)))

\* Weighted sums of amounts are amounts.
LEMMA WeightedAmount ==
  ASSUME NEW a \in Nat, NEW b \in Nat, NEW c \in Nat,
         NEW v \in Amount, NEW w \in Amount, NEW x \in Amount
  PROVE  Weighted(a, v, b, w, c, x) \in Amount
<1>1. Frac(a, 100) \in Amount /\ Frac(b, 100) \in Amount /\ Frac(c, 100) \in Amount
  BY FracAmount
<1> QED BY <1>1, TimesAmount, PlusAmount DEF Weighted

\* The density of lamps, whose length is never zero.
LEMMA DensityAmount ==
  ASSUME NEW f \in Features
  PROVE  LengthOf(f) \in Positive /\ DensityOf(f) \in Amount
<1>1. LengthOf(f) \in Positive
  BY FeatureTypes, Hundred, OrElsePositive DEF LengthOf
<1>2. Over(LengthOf(f), Whole(100)) \in Positive
  BY <1>1, Hundred, OverFraction
<1>3. Whole(f.lamps) \in Amount
  BY FeatureTypes, WholeFraction DEF Amount
<1>4. Over(Whole(f.lamps), Over(LengthOf(f), Whole(100))) \in Amount
  BY <1>2, <1>3, OverFraction
<1> QED BY <1>1, <1>4, ZeroOne DEF DensityOf, LightingDensity

\* The adequacy lies between 0 and 1.
LEMMA AdequacyUnit ==
  ASSUME NEW f \in Features
  PROVE  AdequacyOf(f) \in Amount /\ Leq(AdequacyOf(f), One)
<1>1. OrElse(f.brightness, One) \in Amount
  BY FeatureTypes, Hundred, OrElsePositive, PositiveAmount
<1>2. Times(DensityOf(f), OrElse(f.brightness, One)) \in Amount
  BY <1>1, DensityAmount, TimesAmount
<1>3. Over(Times(DensityOf(f), OrElse(f.brightness, One)), RecommendedDensityFor(f.road))
        \in Fraction
  BY <1>2, RoadValues, OverFraction, PositiveAmount
<1> QED BY <1>3, UnitFraction DEF AdequacyOf

\* What is left to one.
LEMMA OneMinus ==
  ASSUME NEW v \in Fraction, Leq(v, One)
  PROVE  Minus(One, v) \in Amount
<1>1. Value(One, 1, 1) /\ Value(v, v[1], v[2]) /\ v[1] \in Int /\ v[2] \in Int
  BY ValueFrac, ValueOwn, FractionParts DEF One
<1> DEFINE a == v[1]  b == v[2]
<1> HIDE DEF a, b
<1>2. Value(Minus(One, v), b - a, b)
  <2>1. a \in Int /\ b \in Int /\ b - a \in Int /\ b - a = 1 * b - a * 1 /\ b = 1 * b
    BY <1>1 DEF a, b
  <2>2. Value(One, 1, 1) /\ Value(v, a, b)
    BY <1>1 DEF a, b
  <2> QED BY <2>1, <2>2, ValueMinus
<1>3. a <= b /\ a \in Int /\ b \in Int
  BY <1>1, ValueLeq, FractionParts DEF a, b
<1> QED BY <1>2, <1>3, ValueAmount

\* Products within [0, 1].
LEMMA TimesUnit ==
  ASSUME NEW v \in Amount, NEW w \in Amount, Leq(v, One), Leq(w, One)
  PROVE  Times(v, w) \in Amount /\ Leq(Times(v, w), One)
<1>1. Leq(Times(v, w), Times(One, One))
  BY TimesMonotone, ZeroOne DEF Amount
<1>2. Value(One, 1, 1)
  BY ValueFrac DEF One
<1>3. Value(Times(One, One), 1, 1)
  BY <1>2, ValueTimes
<1>4. Leq(Times(One, One), One)
  BY <1>2, <1>3, ValueLeq
<1>5. Times(One, One) \in Fraction /\ Times(v, w) \in Amount /\ One \in Fraction
  BY <1>3, TimesAmount, ZeroOne DEF Value, Amount
<1> QED BY <1>1, <1>4, <1>5, LeqTransitive DEF Amount

\* How much darkness takes off.
NightOf(f, adequacy) ==
  Minus(One, Times(Times(Frac(15, 100), Unit(f.night)), Minus(One, adequacy)))

\* It never takes off more than everything.
LEMMA NightAmount ==
  ASSUME NEW f \in Features, NEW adequacy \in Amount, Leq(adequacy, One)
  PROVE  NightOf(f, adequacy) \in Amount
<1>1. Unit(f.night) \in Amount /\ Leq(Unit(f.night), One)
  BY FeatureTypes, UnitFraction
<1>2. Frac(15, 100) \in Amount /\ Leq(Frac(15, 100), One)
  <2>1. Value(Frac(15, 100), 15, 100) /\ Value(One, 1, 1)
    BY ValueFrac DEF One
  <2> QED BY <2>1, ValueLeq, ValueAmount
<1>3. Minus(One, adequacy) \in Amount /\ Leq(Minus(One, adequacy), One)
  <2>1. Minus(One, adequacy) \in Amount
    BY OneMinus, PositiveAmount
  <2>2. Leq(Minus(One, adequacy), Minus(One, Zero))
    BY MinusAntitone, LeqReflexive, LeqZero, ZeroOne DEF Amount
  <2>3. Value(One, 1, 1) /\ Value(Zero, 0, 1)
    BY ValueFrac DEF One, Zero
  <2>4. Value(Minus(One, Zero), 1, 1)
    BY <2>3, ValueMinus
  <2>5. Leq(Minus(One, Zero), One)
    BY <2>3, <2>4, ValueLeq
  <2>6. Minus(One, Zero) \in Fraction /\ One \in Fraction /\ Minus(One, adequacy) \in Fraction
    BY <2>1, <2>3, <2>4 DEF Value, Amount
  <2> QED BY <2>1, <2>2, <2>5, <2>6, LeqTransitive
<1>4. /\ Times(Frac(15, 100), Unit(f.night)) \in Amount
      /\ Leq(Times(Frac(15, 100), Unit(f.night)), One)
  BY <1>1, <1>2, TimesUnit
<1>5. /\ Times(Times(Frac(15, 100), Unit(f.night)), Minus(One, adequacy)) \in Amount
      /\ Leq(Times(Times(Frac(15, 100), Unit(f.night)), Minus(One, adequacy)), One)
  BY <1>3, <1>4, TimesUnit
<1> QED BY <1>5, OneMinus DEF NightOf, Amount

\* The demand of a road's width lies between 0.7 and 1.8.
DemandOf(f) ==
  Clamp(Over(OrElse(f.width, RoadWidthFor(f.road)), RoadWidthFor(f.road)),
        Frac(7, 10), Frac(18, 10))

\* The demand is never zero.
LEMMA DemandPositive ==
  ASSUME NEW f \in Features
  PROVE  /\ DemandOf(f) \in Positive
         /\ Over(OrElse(f.width, RoadWidthFor(f.road)), RoadWidthFor(f.road)) \in Fraction
         /\ Frac(7, 10) \in Fraction /\ Frac(18, 10) \in Fraction
         /\ Leq(Frac(7, 10), Frac(18, 10))
<1>1. Value(Frac(7, 10), 7, 10) /\ Value(Frac(18, 10), 18, 10) /\ Value(Zero, 0, 1)
  BY ValueFrac DEF Zero
<1>2. Leq(Frac(7, 10), Frac(18, 10)) /\ Frac(7, 10) \in Positive
  BY <1>1, ValueLeq, ValueAmount
<1>3. Over(OrElse(f.width, RoadWidthFor(f.road)), RoadWidthFor(f.road)) \in Fraction
  BY FeatureTypes, RoadValues, OrElsePositive, OverFraction, PositiveAmount
<1>4. DemandOf(f) \in Fraction /\ Leq(Frac(7, 10), DemandOf(f))
  BY <1>1, <1>2, <1>3, ClampFraction DEF DemandOf, Value
<1>5. ASSUME NEW p \in Positive, NEW q \in Fraction, Leq(p, q) PROVE q \in Positive
  <2>1. /\ p[1] \in Int /\ p[2] \in Int /\ p[2] > 0 /\ q[1] \in Int /\ q[2] \in Int /\ q[2] > 0
        /\ 0 < p[1] /\ p[1] * q[2] <= q[1] * p[2]
    BY <1>5, FractionParts DEF Positive, Leq
  <2>2. 0 < p[1] * q[2]
    BY <2>1
  <2>3. 0 < q[1]
    BY <2>1, <2>2
  <2> QED BY <2>3 DEF Positive
<1> QED BY <1>1, <1>2, <1>3, <1>4, <1>5 DEF Value

\* Lamps that meet the demand.
EffectiveOf(f, adequacy) == Unit(Over(adequacy, DemandOf(f)))

\* Sufficiency, part by part.
LEMMA SufficiencyParts ==
  ASSUME NEW f \in Features, NEW adequacy \in Amount, Leq(adequacy, One)
  PROVE  /\ EffectiveOf(f, adequacy) \in Amount
         /\ Over(adequacy, DemandOf(f)) \in Fraction
         /\ Times(EffectiveOf(f, adequacy), Whole(100)) \in Amount
         /\ Times(Times(EffectiveOf(f, adequacy), Whole(100)), NightOf(f, adequacy)) \in Amount
         /\ Sufficiency(f, adequacy)
              = Percent(Times(Times(EffectiveOf(f, adequacy), Whole(100)), NightOf(f, adequacy)))
         /\ Sufficiency(f, adequacy) \in Amount /\ Leq(Sufficiency(f, adequacy), Whole(100))
<1>1. Over(adequacy, DemandOf(f)) \in Amount
  BY DemandPositive, OverFraction
<1>2. EffectiveOf(f, adequacy) \in Amount
  BY <1>1, UnitFraction DEF EffectiveOf, Amount
<1>3. Times(EffectiveOf(f, adequacy), Whole(100)) \in Amount
  BY <1>2, ZeroOne, TimesAmount
<1>4. Times(Times(EffectiveOf(f, adequacy), Whole(100)), NightOf(f, adequacy)) \in Amount
  BY <1>3, NightAmount, TimesAmount
<1>5. Sufficiency(f, adequacy)
        = Percent(Times(Times(EffectiveOf(f, adequacy), Whole(100)), NightOf(f, adequacy)))
  BY DEF Sufficiency, EffectiveOf, DemandOf, NightOf
<1> QED BY <1>1, <1>2, <1>3, <1>4, <1>5, PercentFraction, PositiveAmount

\* Both implementations compute the same sufficiency.
LEMMA SufficienciesAgree ==
  ASSUME NEW f \in Features, NEW adequacy \in Amount, Leq(adequacy, One)
  PROVE  lighting_sufficiency(f, adequacy) = Sufficiency(f, adequacy)
<1>1. clamp(f.night, Zero, One) = Unit(f.night)
  BY FeatureTypes, ZeroOne, ClampsAgree DEF Unit, Amount
<1>2. (IF Less(Zero, f.width) THEN f.width ELSE road_width(f.road))
        = OrElse(f.width, RoadWidthFor(f.road))
  BY FeatureTypes, RoadValues, OrElsePositive
<1>3. clamp(Over(OrElse(f.width, RoadWidthFor(f.road)), RoadWidthFor(f.road)),
            Frac(7, 10), Frac(18, 10)) = DemandOf(f)
  BY DemandPositive, ClampsAgree DEF DemandOf
<1>4. clamp(Over(adequacy, DemandOf(f)), Zero, One) = EffectiveOf(f, adequacy)
  BY SufficiencyParts, ZeroOne, ClampsAgree DEF EffectiveOf, Unit, Amount
<1> DEFINE v == Times(Times(EffectiveOf(f, adequacy), Whole(100)), NightOf(f, adequacy))
<1>5. clamp(v, Zero, Whole(100)) = Percent(v)
  BY SufficiencyParts, ZeroOne, ClampsAgree DEF Percent, Amount
<1>6. lighting_sufficiency(f, adequacy) = clamp(v, Zero, Whole(100))
  BY <1>1, <1>2, <1>3, <1>4, RoadValues DEF lighting_sufficiency, NightOf
<1> QED BY <1>5, <1>6, SufficiencyParts

\* Occlusion, part by part.
LEMMA OcclusionParts ==
  ASSUME NEW f \in Features
  PROVE  /\ Frac(f.trees, 8) \in Amount
         /\ Weighted(55, Unit(f.vegetation), 25, Unit(Frac(f.trees, 8)), 20, Unit(f.building))
              \in Amount
         /\ Occlusion(f) \in Amount /\ Leq(Occlusion(f), Whole(100))
<1> DEFINE v == Weighted(55, Unit(f.vegetation), 25, Unit(Frac(f.trees, 8)), 20, Unit(f.building))
<1>1. Frac(f.trees, 8) \in Amount
  BY FeatureTypes, FracAmount
<1>2. v \in Amount
  BY <1>1, FeatureTypes, UnitFraction, WeightedAmount, PositiveAmount
<1>3. Unit(v) \in Amount /\ Leq(Unit(v), One)
  BY <1>2, UnitFraction, PositiveAmount
<1>4. Occlusion(f) = Times(Unit(v), Whole(100))
  BY DEF Occlusion
<1> HIDE DEF v
<1>5. Leq(Times(Unit(v), Whole(100)), Times(One, Whole(100)))
  BY <1>3, ZeroOne, TimesMonotone, LeqReflexive DEF Amount
<1>6. Value(One, 1, 1) /\ Value(Whole(100), 100, 1)
  BY ValueFrac DEF One
<1>7. Value(Times(One, Whole(100)), 100, 1)
  BY <1>6, ValueTimes
<1>8. Leq(Times(One, Whole(100)), Whole(100))
  BY <1>6, <1>7, ValueLeq
<1>9. Times(Unit(v), Whole(100)) \in Amount
  BY <1>3, ZeroOne, TimesAmount
<1>10. Leq(Occlusion(f), Whole(100))
  BY <1>4, <1>5, <1>6, <1>7, <1>8, <1>9, LeqTransitive DEF Value, Amount
<1> QED BY <1>1, <1>2, <1>4, <1>9, <1>10 DEF v

\* Both implementations compute the same occlusion.
LEMMA OcclusionsAgree ==
  ASSUME NEW f \in Features
  PROVE  occlusion(f) = Occlusion(f)
<1>1. /\ clamp(f.vegetation, Zero, One) = Unit(f.vegetation)
      /\ clamp(Frac(f.trees, 8), Zero, One) = Unit(Frac(f.trees, 8))
      /\ clamp(f.building, Zero, One) = Unit(f.building)
  BY FeatureTypes, OcclusionParts, ZeroOne, ClampsAgree DEF Unit, Amount
<1> DEFINE v == Weighted(55, Unit(f.vegetation), 25, Unit(Frac(f.trees, 8)), 20, Unit(f.building))
<1>2. clamp(v, Zero, One) = Unit(v)
  BY OcclusionParts, ZeroOne, ClampsAgree DEF Unit, Amount
<1> QED BY <1>1, <1>2 DEF occlusion, Occlusion, Weighted

\* The support of poles, and the coverage of the infrastructure score.
ExpectedOf(f, length) == Ceil(Times(RecommendedDensityFor(f.road), Over(length, Whole(100))))
SupportOf(f, length) ==
  IF ExpectedOf(f, length) > 0 THEN Unit(Frac(f.poles, ExpectedOf(f, length))) ELSE Zero

\* The support of poles is never negative.
LEMMA SupportAmount ==
  ASSUME NEW f \in Features, NEW length \in Positive
  PROVE  /\ ExpectedOf(f, length) \in Int
         /\ ExpectedOf(f, length) > 0 => Frac(f.poles, ExpectedOf(f, length)) \in Amount
         /\ SupportOf(f, length) \in Amount
<1> DEFINE t == Times(RecommendedDensityFor(f.road), Over(length, Whole(100)))
<1>1. t \in Fraction
  BY RoadValues, Hundred, OverFraction, TimesValue, PositiveAmount
<1>2. Ceil(t) \in Int
  BY <1>1, FractionParts DEF Ceil
<1>3. ExpectedOf(f, length) \in Int
  BY <1>2 DEF ExpectedOf
<1>4. ExpectedOf(f, length) > 0 => Frac(f.poles, ExpectedOf(f, length)) \in Amount
  BY <1>3, FeatureTypes, FracAmount
<1>5. SupportOf(f, length) \in Amount
  BY <1>4, UnitFraction, ZeroOne, PositiveAmount DEF SupportOf
<1> QED BY <1>3, <1>4, <1>5

\* Infrastructure, part by part.
LEMMA InfrastructureParts ==
  ASSUME NEW f \in Features, NEW length \in Positive, NEW adequacy \in Amount
  PROVE  /\ Weighted(55, adequacy, 25, Unit(f.sidewalk), 20, SupportOf(f, length)) \in Amount
         /\ Infrastructure(f, length, adequacy)
              = Times(Unit(Weighted(55, adequacy, 25, Unit(f.sidewalk),
                                    20, SupportOf(f, length))), Whole(100))
         /\ Infrastructure(f, length, adequacy) \in Amount
<1> DEFINE v == Weighted(55, adequacy, 25, Unit(f.sidewalk), 20, SupportOf(f, length))
<1>1. v \in Amount
  BY SupportAmount, FeatureTypes, UnitFraction, WeightedAmount
<1>2. Infrastructure(f, length, adequacy) = Times(Unit(v), Whole(100))
  BY DEF Infrastructure, SupportOf, ExpectedOf
<1> HIDE DEF v
<1>3. Times(Unit(v), Whole(100)) \in Amount
  BY <1>1, UnitFraction, ZeroOne, TimesAmount, PositiveAmount
<1> QED BY <1>1, <1>2, <1>3 DEF v

\* Both implementations compute the same infrastructure.
LEMMA InfrastructuresAgree ==
  ASSUME NEW f \in Features, NEW length \in Positive, NEW adequacy \in Amount
  PROVE  infrastructure(f, length, adequacy) = Infrastructure(f, length, adequacy)
<1>1. clamp(f.sidewalk, Zero, One) = Unit(f.sidewalk)
  BY FeatureTypes, ZeroOne, ClampsAgree DEF Unit, Amount
<1>2. ExpectedOf(f, length) > 0 =>
        clamp(Frac(f.poles, ExpectedOf(f, length)), Zero, One)
          = Unit(Frac(f.poles, ExpectedOf(f, length)))
  BY SupportAmount, ZeroOne, ClampsAgree DEF Unit, Amount
<1> DEFINE v == Weighted(55, adequacy, 25, Unit(f.sidewalk), 20, SupportOf(f, length))
<1>3. clamp(v, Zero, One) = Unit(v)
  BY InfrastructureParts, ZeroOne, ClampsAgree DEF Unit, Amount
<1>4. recommended_density(f.road) = RecommendedDensityFor(f.road)
  BY RoadValues
<1>5. infrastructure(f, length, adequacy) = Times(clamp(v, Zero, One), Whole(100))
  BY <1>1, <1>2, <1>4 DEF infrastructure, Weighted, SupportOf, ExpectedOf
<1> QED BY <1>3, <1>5, InfrastructureParts

\* The levels that one implementation chooses by cases are those the other tries in turn.
LEMMA LevelsAgree ==
  ASSUME NEW r \in Fraction
  PROVE  risk_level(r) = RiskLevelFor(r)
<1>1. r[1] \in Int /\ r[2] \in Int /\ r[2] > 0
  BY FractionParts
<1>2. \A n \in Int : Leq(Whole(n), r) <=> n * r[2] <= r[1]
  BY <1>1 DEF Leq, Whole
<1>3. /\ Leq(Whole(75), r) => Leq(Whole(50), r)
      /\ Leq(Whole(50), r) => Leq(Whole(25), r)
  BY <1>1, <1>2
<1> DEFINE a == Leq(Whole(75), r)  b == Leq(Whole(50), r)  c == Leq(Whole(25), r)
           is(level) == \/ level = "critical" /\ a
                        \/ level = "high" /\ b /\ ~a
                        \/ level = "medium" /\ c /\ ~b
                        \/ level = "low" /\ ~c
<1>4. risk_level(r) = CHOOSE level \in {"critical", "high", "medium", "low"} : is(level)
  BY DEF risk_level, Less
<1>5. RiskLevelFor(r)
        = IF a THEN "critical" ELSE IF b THEN "high" ELSE IF c THEN "medium" ELSE "low"
  BY DEF RiskLevelFor
<1> HIDE DEF a, b, c
<1>6. (a => b) /\ (b => c)
  BY <1>3 DEF a, b, c
<1>7. RiskLevelFor(r) \in {"critical", "high", "medium", "low"} /\ is(RiskLevelFor(r))
  BY <1>5, <1>6
<1>8. \A level \in {"critical", "high", "medium", "low"} : is(level) => level = RiskLevelFor(r)
  BY <1>5, <1>6
<1> HIDE DEF is
<1> QED BY <1>4, <1>7, <1>8

\* No part of a score is negative, so that rounding agrees.
LEMMA OverallAmount ==
  ASSUME NEW f \in Features
  PROVE  /\ Sufficiency(f, AdequacyOf(f)) \in Amount
         /\ Occlusion(f) \in Amount
         /\ Minus(Whole(100), Occlusion(f)) \in Amount
         /\ Infrastructure(f, LengthOf(f), AdequacyOf(f)) \in Amount
         /\ Overall(f) \in Amount /\ Leq(Overall(f), Whole(100))
         /\ Minus(Whole(100), Overall(f)) \in Amount
         /\ RiskOf(f) \in Amount
<1>1. AdequacyOf(f) \in Amount /\ Leq(AdequacyOf(f), One) /\ LengthOf(f) \in Positive
  BY AdequacyUnit, DensityAmount
<1>2. Sufficiency(f, AdequacyOf(f)) \in Amount
  BY <1>1, SufficiencyParts
<1>3. Infrastructure(f, LengthOf(f), AdequacyOf(f)) \in Amount
  BY <1>1, InfrastructureParts
<1>4. ASSUME NEW v \in Amount, Leq(v, Whole(100)) PROVE Minus(Whole(100), v) \in Amount
  <2>1. v[1] \in Int /\ v[2] \in Int /\ v[2] > 0 /\ v[1] <= 100 * v[2]
    BY <1>4, FractionParts DEF Leq, Whole, Amount
  <2> DEFINE a == v[1]  b == v[2]
  <2> HIDE DEF a, b
  <2>2. Value(Whole(100), 100, 1) /\ Value(v, a, b)
    BY ValueFrac, ValueOwn, PositiveAmount DEF a, b
  <2>3. /\ a \in Int /\ b \in Int /\ 100 * b - a \in Int
        /\ 100 * b - a = 100 * b - a * 1 /\ b = 1 * b /\ 0 <= 100 * b - a
    BY <2>1 DEF a, b
  <2>4. Value(Minus(Whole(100), v), 100 * b - a, b)
    BY <2>2, <2>3, ValueMinus
  <2> QED BY <2>3, <2>4, ValueAmount
<1>5. Minus(Whole(100), Occlusion(f)) \in Amount
  BY <1>4, OcclusionParts
<1>6. Overall(f) \in Amount /\ Leq(Overall(f), Whole(100))
  <2> DEFINE v == Weighted(50, Sufficiency(f, AdequacyOf(f)), 30, Minus(Whole(100), Occlusion(f)),
                           20, Infrastructure(f, LengthOf(f), AdequacyOf(f)))
  <2>1. v \in Fraction
    BY <1>2, <1>3, <1>5, WeightedAmount, PositiveAmount
  <2>2. Percent(v) \in Amount /\ Leq(Percent(v), Whole(100))
    BY <2>1, PercentFraction
  <2> QED BY <2>2 DEF Overall, OverallOf
<1>7. Minus(Whole(100), Overall(f)) \in Amount
  BY <1>4, <1>6
<1> QED BY <1>2, <1>3, <1>5, <1>6, <1>7, OcclusionParts, PercentFraction,
   PositiveAmount DEF RiskOf

\* ScoreEnv, part by part.
LEMMA ScoreParts ==
  ASSUME NEW f
  PROVE  ScoreEnv(f) =
    [density |-> Round(DensityOf(f), 1000), recommended |-> RecommendedDensityFor(f.road),
     adequacy |-> Round(AdequacyOf(f), 1000),
     sufficiency |-> Round(Sufficiency(f, AdequacyOf(f)), 10),
     occlusion |-> Round(Occlusion(f), 10),
     infrastructure |-> Round(Infrastructure(f, LengthOf(f), AdequacyOf(f)), 10),
     overall |-> Round(Overall(f), 10), risk |-> Round(RiskOf(f), 10),
     level |-> RiskLevelFor(RiskOf(f))]
  BY DEF ScoreEnv, DensityOf, AdequacyOf, LengthOf, Overall, OverallOf, RiskOf

\* ScoreEnv of the backend and score_env of the pipeline compute the same scores, for all
\* features whatever.
THEOREM ScoresAgree ==
  ASSUME NEW f \in Features
  PROVE  ScoreEnv(f) = score_env(f)
<1> DEFINE lss == Sufficiency(f, AdequacyOf(f))
           occ == Occlusion(f)
           ias == Infrastructure(f, LengthOf(f), AdequacyOf(f))
           raw == Weighted(50, lss, 30, Minus(Whole(100), occ), 20, ias)
<1>1. (IF Less(Zero, f.length) THEN f.length ELSE Whole(100)) = LengthOf(f)
  BY FeatureTypes, Hundred, OrElsePositive DEF LengthOf
<1>2. (IF Less(Zero, f.brightness) THEN f.brightness ELSE One) = OrElse(f.brightness, One)
  BY FeatureTypes, Hundred, OrElsePositive
<1>3. lighting_density(f.lamps, LengthOf(f)) = DensityOf(f)
  BY DEF lighting_density, DensityOf, LightingDensity
<1>4. recommended_density(f.road) = RecommendedDensityFor(f.road)
  BY RoadValues
<1> DEFINE ade == Over(Times(DensityOf(f), OrElse(f.brightness, One)), RecommendedDensityFor(f.road))
<1>5. clamp(ade, Zero, One) = AdequacyOf(f)
  <2>1. ade \in Fraction
    BY FeatureTypes, Hundred, OrElsePositive, DensityAmount, TimesValue, RoadValues,
       OverFraction, PositiveAmount
  <2> QED BY <2>1, ZeroOne, ClampsAgree DEF AdequacyOf, Unit, Amount
<1>6. AdequacyOf(f) \in Amount /\ Leq(AdequacyOf(f), One) /\ LengthOf(f) \in Positive
  BY AdequacyUnit, DensityAmount
<1>7. /\ lighting_sufficiency(f, AdequacyOf(f)) = lss
      /\ occlusion(f) = occ
      /\ infrastructure(f, LengthOf(f), AdequacyOf(f)) = ias
  BY <1>6, SufficienciesAgree, OcclusionsAgree, InfrastructuresAgree
<1>8. clamp(raw, Zero, Whole(100)) = Overall(f)
  <2>1. raw \in Fraction
    BY OverallAmount, WeightedAmount, PositiveAmount
  <2>2. clamp(raw, Zero, Whole(100)) = Percent(raw)
    BY <2>1, ZeroOne, ClampsAgree DEF Percent, Amount
  <2> QED BY <2>2 DEF Overall, OverallOf
<1>9. clamp(Minus(Whole(100), Overall(f)), Zero, Whole(100)) = RiskOf(f)
  BY OverallAmount, ZeroOne, ClampsAgree, PositiveAmount DEF RiskOf, Percent, Amount
<1> HIDE DEF lss, occ, ias, ade
<1>10. score_env(f) =
    [density |-> round(DensityOf(f), 1000), recommended |-> RecommendedDensityFor(f.road),
     adequacy |-> round(AdequacyOf(f), 1000), sufficiency |-> round(lss, 10),
     occlusion |-> round(occ, 10), infrastructure |-> round(ias, 10),
     overall |-> round(Overall(f), 10), risk |-> round(RiskOf(f), 10),
     level |-> risk_level(RiskOf(f))]
  BY <1>1, <1>2, <1>3, <1>4, <1>5, <1>7, <1>8, <1>9 DEF score_env, Weighted, ade
<1>11. \A v \in Amount : round(v, 10) = Round(v, 10) /\ round(v, 1000) = Round(v, 1000)
  BY RoundAmount
<1>12. risk_level(RiskOf(f)) = RiskLevelFor(RiskOf(f))
  BY OverallAmount, LevelsAgree, PositiveAmount
<1> QED BY <1>6, <1>10, <1>11, <1>12, ScoreParts, OverallAmount, DensityAmount
   DEF lss, occ, ias

\* The scores that are stored.
LEMMA ScoreTypes ==
  ASSUME NEW f \in Features
  PROVE  /\ ScoreEnv(f).overall \in Amount /\ ScoreEnv(f).occlusion \in Amount
         /\ ScoreEnv(f).risk \in Amount /\ ScoreEnv(f).adequacy \in Amount
         /\ ScoreEnv(f).level \in {"critical", "high", "medium", "low"}
  BY ScoreParts, OverallAmount, AdequacyUnit, RoundAmount DEF RiskLevelFor

-----------------------------------------------------------------------------
\* Better features score higher.

\* Weighted sums of larger amounts are larger.
LEMMA WeightedMonotone ==
  ASSUME NEW a \in Nat, NEW b \in Nat, NEW c \in Nat,
         NEW v \in Amount, NEW w \in Amount, NEW x \in Amount,
         NEW v2 \in Amount, NEW w2 \in Amount, NEW x2 \in Amount,
         Leq(v, v2), Leq(w, w2), Leq(x, x2)
  PROVE  Leq(Weighted(a, v, b, w, c, x), Weighted(a, v2, b, w2, c, x2))
<1>1. \A n \in Nat : Frac(n, 100) \in Amount /\ Leq(Frac(n, 100), Frac(n, 100))
  BY FracAmount, LeqReflexive DEF Amount
<1>2. \A n \in Nat, y \in Amount, z \in Amount :
        Leq(y, z) => /\ Leq(Times(Frac(n, 100), y), Times(Frac(n, 100), z))
                     /\ Times(Frac(n, 100), y) \in Amount /\ Times(Frac(n, 100), z) \in Amount
  <2> SUFFICES ASSUME NEW n \in Nat, NEW y \in Amount, NEW z \in Amount, Leq(y, z)
               PROVE  /\ Leq(Times(Frac(n, 100), y), Times(Frac(n, 100), z))
                      /\ Times(Frac(n, 100), y) \in Amount /\ Times(Frac(n, 100), z) \in Amount
    OBVIOUS
  <2>1. Frac(n, 100) \in Amount /\ Leq(Frac(n, 100), Frac(n, 100))
    BY <1>1
  <2>2. Leq(Times(Frac(n, 100), y), Times(Frac(n, 100), z))
    BY <2>1, TimesMonotone DEF Amount
  <2> QED BY <2>1, <2>2, TimesAmount
<1>3. \A y \in Amount, z \in Amount, y2 \in Amount, z2 \in Amount :
        Leq(y, y2) /\ Leq(z, z2) =>
          Leq(Plus(y, z), Plus(y2, z2)) /\ Plus(y, z) \in Amount /\ Plus(y2, z2) \in Amount
  BY PlusMonotone, PlusAmount DEF Amount
<1> QED BY <1>2, <1>3 DEF Weighted

\* Percentages keep the order.
LEMMA HundredTimesMonotone ==
  ASSUME NEW v \in Amount, NEW w \in Amount, Leq(v, w)
  PROVE  Leq(Times(v, Whole(100)), Times(w, Whole(100)))
  BY ZeroOne, TimesMonotone, LeqReflexive DEF Amount

\* More lamps light a road better.
LEMMA SufficiencyMonotone ==
  ASSUME NEW f \in Features, NEW g \in Features,
         f.night = g.night, f.width = g.width, f.road = g.road,
         NEW a \in Amount, NEW b \in Amount, Leq(a, b), Leq(b, One)
  PROVE  Leq(Sufficiency(f, a), Sufficiency(g, b))
<1>1. Leq(a, One)
  BY LeqTransitive, ZeroOne DEF Amount
<1>2. DemandOf(f) = DemandOf(g) /\ DemandOf(f) \in Positive
  BY DemandPositive DEF DemandOf
<1>3. Leq(EffectiveOf(f, a), EffectiveOf(g, b))
  <2>1. Leq(Over(a, DemandOf(f)), Over(b, DemandOf(f)))
    BY <1>2, OverMonotone DEF Positive, Amount
  <2>2. Over(a, DemandOf(f)) \in Fraction /\ Over(b, DemandOf(f)) \in Fraction
    BY <1>2, OverFraction DEF Amount
  <2> QED BY <1>2, <2>1, <2>2, UnitMonotone DEF EffectiveOf
<1>4. Leq(NightOf(f, a), NightOf(g, b))
  <2> DEFINE s == Times(Frac(15, 100), Unit(f.night))
  <2>1. s \in Amount
    BY FeatureTypes, UnitFraction, FracAmount, TimesAmount
  <2>2. /\ Leq(Minus(One, b), Minus(One, a))
        /\ Minus(One, a) \in Amount /\ Minus(One, b) \in Amount
    BY <1>1, ZeroOne, MinusAntitone, LeqReflexive, OneMinus DEF Amount
  <2> HIDE DEF s
  <2>3. /\ Leq(Times(s, Minus(One, b)), Times(s, Minus(One, a)))
        /\ Times(s, Minus(One, a)) \in Fraction /\ Times(s, Minus(One, b)) \in Fraction
    BY <2>1, <2>2, TimesMonotone, TimesAmount, LeqReflexive DEF Amount
  <2>4. Leq(Minus(One, Times(s, Minus(One, a))), Minus(One, Times(s, Minus(One, b))))
    BY <2>3, ZeroOne, MinusAntitone, LeqReflexive DEF Amount
  <2> QED BY <2>4 DEF NightOf, s
<1>5. /\ EffectiveOf(f, a) \in Amount /\ EffectiveOf(g, b) \in Amount
      /\ Times(EffectiveOf(f, a), Whole(100)) \in Amount
      /\ Times(EffectiveOf(g, b), Whole(100)) \in Amount
      /\ NightOf(f, a) \in Amount /\ NightOf(g, b) \in Amount
  BY <1>1, SufficiencyParts, NightAmount
<1>6. Leq(Times(EffectiveOf(f, a), Whole(100)), Times(EffectiveOf(g, b), Whole(100)))
  BY <1>3, <1>5, HundredTimesMonotone
<1>7. Leq(Times(Times(EffectiveOf(f, a), Whole(100)), NightOf(f, a)),
          Times(Times(EffectiveOf(g, b), Whole(100)), NightOf(g, b)))
  BY <1>4, <1>5, <1>6, TimesMonotone DEF Amount
<1>8. /\ Times(Times(EffectiveOf(f, a), Whole(100)), NightOf(f, a)) \in Fraction
      /\ Times(Times(EffectiveOf(g, b), Whole(100)), NightOf(g, b)) \in Fraction
  BY <1>5, TimesAmount DEF Amount
<1> QED BY <1>1, <1>7, <1>8, UnitMonotone, SufficiencyParts

\* Trees and vegetation that are pruned block less light.
LEMMA OcclusionMonotone ==
  ASSUME NEW f \in Features, NEW g \in Features, f.trees <= g.trees,
         Leq(Unit(f.vegetation), Unit(g.vegetation)), f.building = g.building
  PROVE  Leq(Occlusion(f), Occlusion(g))
<1>1. Leq(Frac(f.trees, 8), Frac(g.trees, 8))
  <2>1. f.trees \in Int /\ g.trees \in Int /\ f.trees * 8 <= g.trees * 8
    BY FeatureTypes
  <2> QED BY <2>1, LeqFrac
<1>2. Leq(Unit(Frac(f.trees, 8)), Unit(Frac(g.trees, 8)))
  BY <1>1, OcclusionParts, UnitMonotone, PositiveAmount
<1> DEFINE v(h) == Weighted(55, Unit(h.vegetation), 25, Unit(Frac(h.trees, 8)), 20, Unit(h.building))
<1>3. \A h \in Features :
        /\ Unit(h.vegetation) \in Amount /\ Unit(Frac(h.trees, 8)) \in Amount
        /\ Unit(h.building) \in Amount /\ v(h) \in Amount
  BY FeatureTypes, UnitFraction, OcclusionParts, PositiveAmount
<1>4. Leq(Unit(f.building), Unit(g.building))
  BY <1>3, LeqReflexive DEF Amount
<1>5. Leq(v(f), v(g))
  BY <1>2, <1>3, <1>4, WeightedMonotone
<1>6. \A h \in Features : Occlusion(h) = Times(Unit(v(h)), Whole(100))
  BY DEF Occlusion
<1> HIDE DEF v
<1>7. Leq(Unit(v(f)), Unit(v(g))) /\ Unit(v(f)) \in Amount /\ Unit(v(g)) \in Amount
  BY <1>3, <1>5, UnitMonotone, UnitFraction, PositiveAmount
<1> QED BY <1>6, <1>7, HundredTimesMonotone

\* More poles and lamps are a better infrastructure.
LEMMA InfrastructureMonotone ==
  ASSUME NEW f \in Features, NEW g \in Features, f.poles <= g.poles,
         f.road = g.road, f.sidewalk = g.sidewalk, NEW length \in Positive,
         NEW a \in Amount, NEW b \in Amount, Leq(a, b)
  PROVE  Leq(Infrastructure(f, length, a), Infrastructure(g, length, b))
<1>1. ExpectedOf(f, length) = ExpectedOf(g, length)
  BY DEF ExpectedOf
<1>2. Leq(SupportOf(f, length), SupportOf(g, length))
  <2>1. CASE ExpectedOf(f, length) > 0
    <3> DEFINE e == ExpectedOf(f, length)
    <3>1. e \in Int /\ e > 0 /\ f.poles \in Int /\ g.poles \in Int
      BY <2>1, SupportAmount, FeatureTypes
    <3>2. /\ SupportOf(f, length) = Unit(Frac(f.poles, e))
          /\ SupportOf(g, length) = Unit(Frac(g.poles, e))
      BY <1>1, <2>1 DEF SupportOf
    <3>3. Frac(f.poles, e) \in Fraction /\ Frac(g.poles, e) \in Fraction
      BY <3>1, FracValue
    <3> HIDE DEF e
    <3>4. Leq(Frac(f.poles, e), Frac(g.poles, e))
      BY <3>1, LeqFrac
    <3> QED BY <3>2, <3>3, <3>4, UnitMonotone
  <2>2. CASE ~(ExpectedOf(f, length) > 0)
    BY <1>1, <2>2, ZeroOne, LeqReflexive DEF SupportOf, Amount
  <2> QED BY <2>1, <2>2
<1>3. /\ Unit(f.sidewalk) \in Amount /\ Leq(Unit(f.sidewalk), Unit(g.sidewalk))
      /\ Unit(g.sidewalk) \in Amount
  BY FeatureTypes, UnitFraction, LeqReflexive DEF Amount
<1> DEFINE v(h, c) == Weighted(55, c, 25, Unit(h.sidewalk), 20, SupportOf(h, length))
<1>4. Leq(v(f, a), v(g, b))
  BY <1>2, <1>3, SupportAmount, WeightedMonotone
<1>5. /\ v(f, a) \in Amount /\ v(g, b) \in Amount
      /\ Infrastructure(f, length, a) = Times(Unit(v(f, a)), Whole(100))
      /\ Infrastructure(g, length, b) = Times(Unit(v(g, b)), Whole(100))
  BY InfrastructureParts
<1> HIDE DEF v
<1>6. Leq(Unit(v(f, a)), Unit(v(g, b))) /\ Unit(v(f, a)) \in Amount /\ Unit(v(g, b)) \in Amount
  BY <1>4, <1>5, UnitMonotone, UnitFraction, PositiveAmount
<1> QED BY <1>5, <1>6, HundredTimesMonotone

\* The overall score grows with its parts, and falls with occlusion.
LEMMA OverallMonotone ==
  ASSUME NEW l \in Amount, NEW l2 \in Amount, Leq(l, l2),
         NEW o \in Fraction, NEW o2 \in Fraction, Leq(o2, o),
         NEW i \in Amount, NEW i2 \in Amount, Leq(i, i2),
         Minus(Whole(100), o) \in Amount, Minus(Whole(100), o2) \in Amount
  PROVE  Leq(OverallOf(l, o, i), OverallOf(l2, o2, i2))
<1>1. Leq(Minus(Whole(100), o), Minus(Whole(100), o2))
  BY ZeroOne, MinusAntitone, LeqReflexive DEF Amount
<1>2. Leq(Weighted(50, l, 30, Minus(Whole(100), o), 20, i),
          Weighted(50, l2, 30, Minus(Whole(100), o2), 20, i2))
  BY <1>1, WeightedMonotone, ZenonT(30)
<1>3. /\ Weighted(50, l, 30, Minus(Whole(100), o), 20, i) \in Fraction
      /\ Weighted(50, l2, 30, Minus(Whole(100), o2), 20, i2) \in Fraction
  BY WeightedAmount, PositiveAmount
<1> QED BY <1>2, <1>3, UnitMonotone DEF OverallOf

\* More lamps are more adequate.
LEMMA AdequacyMonotone ==
  ASSUME NEW f \in Features, NEW g \in Features, f.lamps <= g.lamps,
         f.length = g.length, f.brightness = g.brightness, f.road = g.road
  PROVE  Leq(AdequacyOf(f), AdequacyOf(g))
<1> DEFINE c == Over(LengthOf(f), Whole(100))
           r == RecommendedDensityFor(f.road)
           b == OrElse(f.brightness, One)
<1>1. c \in Positive /\ r \in Positive /\ b \in Amount /\ LengthOf(f) \in Positive
  BY DensityAmount, Hundred, OverFraction, RoadValues, FeatureTypes, OrElsePositive,
     PositiveAmount
<1>2. LengthOf(f) = LengthOf(g)
  BY DEF LengthOf
<1>3. Leq(DensityOf(f), DensityOf(g))
  <2>1. /\ Whole(f.lamps) \in Amount /\ Whole(g.lamps) \in Amount
        /\ Leq(Whole(f.lamps), Whole(g.lamps))
    BY FeatureTypes, WholeFraction DEF Amount, Leq
  <2>2. Leq(Over(Whole(f.lamps), c), Over(Whole(g.lamps), c))
    BY <1>1, <2>1, OverMonotone DEF Positive, Amount
  <2>3. DensityOf(f) = IF Leq(LengthOf(f), Zero) THEN Zero ELSE Over(Whole(f.lamps), c)
    BY DEF DensityOf, LightingDensity
  <2>4. DensityOf(g) = IF Leq(LengthOf(f), Zero) THEN Zero ELSE Over(Whole(g.lamps), c)
    BY <1>2 DEF DensityOf, LightingDensity
  <2> QED BY <2>2, <2>3, <2>4, ZeroOne, LeqReflexive DEF Amount
<1>4. DensityOf(f) \in Amount /\ DensityOf(g) \in Amount
  BY DensityAmount
<1>5. /\ AdequacyOf(f) = Unit(Over(Times(DensityOf(f), b), r))
      /\ AdequacyOf(g) = Unit(Over(Times(DensityOf(g), b), r))
  BY DEF AdequacyOf
<1> HIDE DEF c, r, b
<1>6. /\ Leq(Times(DensityOf(f), b), Times(DensityOf(g), b))
      /\ Times(DensityOf(f), b) \in Amount /\ Times(DensityOf(g), b) \in Amount
  BY <1>1, <1>3, <1>4, TimesMonotone, TimesAmount, LeqReflexive DEF Amount
<1>7. /\ Leq(Over(Times(DensityOf(f), b), r), Over(Times(DensityOf(g), b), r))
      /\ Over(Times(DensityOf(f), b), r) \in Fraction
      /\ Over(Times(DensityOf(g), b), r) \in Fraction
  BY <1>1, <1>6, OverMonotone, OverFraction DEF Positive, Amount
<1> QED BY <1>5, <1>7, UnitMonotone

\* A segment that has more lamps and poles and less that blocks the light, all else
\* being equal, never scores lower in ScoreEnv, whatever is clamped and rounded.
THEOREM MoreIsBetter ==
  ASSUME NEW f \in Features, NEW g \in Features,
         f.lamps <= g.lamps, f.poles <= g.poles, g.trees <= f.trees,
         Leq(Unit(g.vegetation), Unit(f.vegetation)),
         f.road = g.road, f.length = g.length, f.night = g.night, f.width = g.width,
         f.building = g.building, f.sidewalk = g.sidewalk, f.brightness = g.brightness
  PROVE  Leq(ScoreEnv(f).overall, ScoreEnv(g).overall)
<1> DEFINE a == AdequacyOf(f)  b == AdequacyOf(g)
<1>1. a \in Amount /\ b \in Amount /\ Leq(a, b) /\ Leq(b, One)
  BY AdequacyUnit, AdequacyMonotone
<1>2. LengthOf(f) = LengthOf(g) /\ LengthOf(f) \in Positive
  BY DensityAmount DEF LengthOf
<1>3. Leq(Sufficiency(f, a), Sufficiency(g, b))
  BY <1>1, SufficiencyMonotone
<1>4. Leq(Occlusion(g), Occlusion(f))
  BY OcclusionMonotone
<1>5. Leq(Infrastructure(f, LengthOf(f), a), Infrastructure(g, LengthOf(f), b))
  BY <1>1, <1>2, InfrastructureMonotone
<1> HIDE DEF a, b
<1>6. Leq(Overall(f), Overall(g))
  BY <1>2, <1>3, <1>4, <1>5, OverallAmount, OverallMonotone, PositiveAmount DEF Overall, a, b
<1>7. Leq(Round(Overall(f), 10), Round(Overall(g), 10))
  BY <1>6, OverallAmount, RoundMonotone
<1> QED BY <1>7, ScoreParts

-----------------------------------------------------------------------------
\* Interventions and recommendations.

\* Interventions leave features.
LEMMA InterventionFeatures ==
  ASSUME NEW f \in Features
  PROVE  /\ \A n \in Nat : Installed(f, n) \in Features
         /\ Trimmed(f) \in Features
         /\ \A factor \in Fraction : Brightened(f, factor) \in Features
<1>1. \A n \in Nat : f.lamps + n \in Nat /\ f.poles + n \in Nat
  BY FeatureTypes
<1>2. (f.trees + 1) \div 2 \in Nat
  BY FeatureTypes
<1>3. Unit(Times(f.vegetation, Frac(4, 10))) \in Fraction
  BY FeatureTypes, FracAmount, TimesValue, UnitFraction, PositiveAmount
<1> QED BY <1>1, <1>2, <1>3 DEF Installed, Trimmed, Brightened, Features

\* What installing lamps changes, and what it leaves.
LEMMA InstalledFields ==
  ASSUME NEW f \in Features, NEW n \in Nat
  PROVE  /\ Installed(f, n).lamps = f.lamps + n /\ Installed(f, n).poles = f.poles + n
         /\ Installed(f, n).trees = f.trees /\ Installed(f, n).road = f.road
         /\ Installed(f, n).length = f.length /\ Installed(f, n).night = f.night
         /\ Installed(f, n).width = f.width /\ Installed(f, n).vegetation = f.vegetation
         /\ Installed(f, n).building = f.building /\ Installed(f, n).sidewalk = f.sidewalk
         /\ Installed(f, n).brightness = f.brightness
  BY DEF Features, Installed

\* What pruning changes, and what it leaves.
LEMMA TrimmedFields ==
  ASSUME NEW f \in Features
  PROVE  /\ Trimmed(f).vegetation = Unit(Times(f.vegetation, Frac(4, 10)))
         /\ Trimmed(f).trees = (f.trees + 1) \div 2
         /\ Trimmed(f).lamps = f.lamps /\ Trimmed(f).poles = f.poles
         /\ Trimmed(f).road = f.road /\ Trimmed(f).length = f.length
         /\ Trimmed(f).night = f.night /\ Trimmed(f).width = f.width
         /\ Trimmed(f).building = f.building /\ Trimmed(f).sidewalk = f.sidewalk
         /\ Trimmed(f).brightness = f.brightness
  BY DEF Features, Trimmed

\* What brightening changes, and what it leaves.
LEMMA BrightenedFields ==
  ASSUME NEW f \in Features, NEW factor \in Fraction
  PROVE  /\ Brightened(f, factor).brightness = factor /\ Brightened(f, factor).lamps = f.lamps
         /\ Brightened(f, factor).poles = f.poles /\ Brightened(f, factor).trees = f.trees
         /\ Brightened(f, factor).road = f.road /\ Brightened(f, factor).length = f.length
         /\ Brightened(f, factor).night = f.night /\ Brightened(f, factor).width = f.width
         /\ Brightened(f, factor).vegetation = f.vegetation
         /\ Brightened(f, factor).building = f.building
         /\ Brightened(f, factor).sidewalk = f.sidewalk
  BY DEF Features, Brightened

\* The brightness that is recommended counts as one that is sent.
LEMMA BrighterPositive ==
  Brighter \in Fraction /\ Less(Zero, Brighter) /\ ~Less(Zero, Zero) /\ Less(Zero, One)
<1>1. Value(Brighter, 13, 10) /\ Value(Zero, 0, 1) /\ Value(One, 1, 1)
  BY ValueFrac DEF Brighter, Zero, One
<1> QED BY <1>1, ValueLeq DEF Less, Value

\* An intervention never takes a lamp away, and leaves the road as it is.
LEMMA ProjectFeatures ==
  ASSUME NEW f \in Features, NEW n \in Nat, NEW trim \in BOOLEAN, NEW factor \in Fraction
  PROVE  /\ Project(f, n, trim, factor) \in Features
         /\ Project(f, n, trim, factor).lamps = f.lamps + n
         /\ Project(f, n, trim, factor).road = f.road
         /\ Project(f, n, trim, factor).length = f.length
         /\ Project(f, n, trim, factor).trees
              = IF trim THEN (f.trees + 1) \div 2 ELSE f.trees
         /\ Project(f, n, trim, factor).vegetation
              = IF trim THEN Unit(Times(f.vegetation, Frac(4, 10))) ELSE f.vegetation
         /\ Project(f, n, trim, factor).brightness
              = IF Less(Zero, factor) THEN factor ELSE f.brightness
<1> DEFINE g == IF n > 0 THEN Installed(f, n) ELSE f
           h == IF trim THEN Trimmed(g) ELSE g
<1>1. /\ g \in Features /\ g.lamps = f.lamps + n /\ g.road = f.road /\ g.length = f.length
      /\ g.trees = f.trees /\ g.vegetation = f.vegetation /\ g.brightness = f.brightness
  BY InterventionFeatures, InstalledFields, FeatureTypes
<1> HIDE DEF g
<1>2. /\ h \in Features /\ h.lamps = g.lamps /\ h.road = g.road /\ h.length = g.length
      /\ h.trees = IF trim THEN (g.trees + 1) \div 2 ELSE g.trees
      /\ h.vegetation = IF trim THEN Unit(Times(g.vegetation, Frac(4, 10))) ELSE g.vegetation
      /\ h.brightness = g.brightness
  BY <1>1, InterventionFeatures, TrimmedFields
<1>3. Project(f, n, trim, factor) = IF Less(Zero, factor) THEN Brightened(h, factor) ELSE h
  BY DEF Project, g
<1> HIDE DEF h
<1> QED BY <1>1, <1>2, <1>3, InterventionFeatures, BrightenedFields

\* The lamps a target asks for.
LEMMA FixturesInt ==
  ASSUME NEW f \in Features, NEW target \in Fraction
  PROVE  FixturesFor(target, f) \in Int
<1>1. Times(Times(target, RecommendedDensityFor(f.road)), Over(f.length, Whole(100))) \in Fraction
  BY FeatureTypes, RoadValues, Hundred, OverFraction, TimesValue, PositiveAmount
<1> QED BY <1>1, FractionParts DEF FixturesFor, Ceil

\* The lamps of a recommendation: 85 of 100 of what the road asks for.
Needed(f) == FixturesFor(Frac(85, 100), f)

\* They are the lamps that lampsToReachTarget counts from.
LEMMA NeededInt ==
  ASSUME NEW f \in Features
  PROVE  /\ Needed(f) \in Int /\ f.lamps \in Nat
         /\ LampsToReachTarget(f) = IF Needed(f) > f.lamps THEN Needed(f) - f.lamps ELSE 0
  BY FixturesInt, FracValue, FeatureTypes DEF Needed, LampsToReachTarget

\* They depend on the road alone.
LEMMA NeededSame ==
  ASSUME NEW f, NEW g, f.road = g.road, f.length = g.length
  PROVE  Needed(f) = Needed(g)
  BY DEF Needed, FixturesFor

\* A recommendation is one of four kinds.
Actions == {"install_lamps", "trim_vegetation", "increase_brightness", "schedule_inspection"}

\* What recommend says of a row, by the kind of the recommendation.
LEMMA RecommendParts ==
  ASSUME NEW f \in Features, NEW rec \in Recommend(Scored(f))
  PROVE  /\ rec.action \in Actions /\ rec.lamps \in Nat
         /\ rec.lamps > 0 <=> rec.action = "install_lamps"
         /\ rec.action = "install_lamps" =>
              /\ Needed(f) = f.lamps + rec.lamps
              /\ rec.projected = ScoreEnv(Installed(f, rec.lamps)).overall
         /\ rec.action = "trim_vegetation" =>
              /\ Leq(Whole(35), ScoreEnv(f).occlusion) \/ Leq(Frac(3, 10), f.vegetation)
              /\ rec.projected = ScoreEnv(Trimmed(f)).overall
         /\ rec.action = "increase_brightness" =>
              /\ Leq(One, Minus(rec.projected, ScoreEnv(f).overall))
              /\ rec.projected = ScoreEnv(Brightened(f, Brighter)).overall
         /\ rec.action = "schedule_inspection" => rec.projected = ScoreEnv(f).overall
<1> DEFINE row == Scored(f)
<1>1. row.f = f /\ row.s = ScoreEnv(f)
  BY DEF Scored
<1>2. PICK m \in Install(row) \union Trim(row) \union Brighten(row) \union Inspect(row) :
         rec = Advice(m) /\ Worthwhile(rec, row)
  BY DEF Recommend
<1> HIDE DEF row
<1>3. rec.action = m.action /\ rec.lamps = m.lamps /\ rec.projected = ScoreEnv(m.f).overall
  BY <1>2 DEF Advice
<1>4. CASE m \in Install(row)
  <2>1. /\ LampsToReachTarget(f) > 0
        /\ m = Measure("install_lamps", LampsToReachTarget(f), Installed(f, LampsToReachTarget(f)))
    BY <1>1, <1>4 DEF Install
  <2>2. LampsToReachTarget(f) = Needed(f) - f.lamps /\ Needed(f) \in Int /\ f.lamps \in Nat
    BY <2>1, NeededInt
  <2>3. /\ m.action = "install_lamps" /\ m.lamps = LampsToReachTarget(f)
        /\ m.f = Installed(f, LampsToReachTarget(f))
    BY <2>1 DEF Measure
  <2> QED BY <1>3, <2>1, <2>2, <2>3 DEF Actions
<1>5. CASE m \in Trim(row)
  <2>1. /\ Leq(Whole(35), ScoreEnv(f).occlusion) \/ Leq(Frac(3, 10), f.vegetation)
        /\ m.action = "trim_vegetation" /\ m.lamps = 0 /\ m.f = Trimmed(f)
    BY <1>1, <1>5 DEF Trim, Measure
  <2> QED BY <1>3, <2>1 DEF Actions
<1>6. CASE m \in Brighten(row)
  <2>1. m.action = "increase_brightness" /\ m.lamps = 0 /\ m.f = Brightened(f, Brighter)
    BY <1>1, <1>6 DEF Brighten, Measure
  <2>2. Leq(One, Minus(rec.projected, ScoreEnv(f).overall))
    BY <1>1, <1>2, <1>3, <2>1 DEF Worthwhile
  <2> QED BY <1>3, <2>1, <2>2 DEF Actions
<1>7. CASE m \in Inspect(row)
  <2>1. m.action = "schedule_inspection" /\ m.lamps = 0 /\ m.f = f
    BY <1>1, <1>7 DEF Inspect, Measure
  <2> QED BY <1>3, <2>1 DEF Actions
<1> QED BY <1>2, <1>4, <1>5, <1>6, <1>7

-----------------------------------------------------------------------------
\* The inductive invariant.

\* Every row is stored with the scores of its features.
RowInv == net \in [Segments -> {Scored(f) : f \in Features}]

\* Every recommendation before the planner asks for lamps in its own kind alone, and for
\* all the row lacks at least; outside the panel it is one for the row as it is.
AdviceInv ==
  /\ DOMAIN advice = Segments
  /\ \A x \in Segments : \A rec \in advice[x] :
       /\ rec.action \in Actions /\ rec.lamps \in Nat
       /\ rec.lamps > 0 <=> rec.action = "install_lamps"
       /\ rec.lamps > 0 => Needed(net[x].f) \in 1..(net[x].f.lamps + rec.lamps)
       /\ ~Panel => rec \in Recommend(net[x])

\* The inductive invariant.
UpgradesInv == RowInv /\ AdviceInv /\ adjusted \in Nat /\ followed \in [Segments -> Nat]

\* A row has features and their scores.
LEMMA RowParts ==
  ASSUME RowInv, NEW x \in Segments
  PROVE  net[x].f \in Features /\ net[x] = Scored(net[x].f) /\ net[x].s = ScoreEnv(net[x].f)
<1>1. PICK f \in Features : net[x] = Scored(f)
  BY DEF RowInv
<1> QED BY <1>1 DEF Scored

\* Recommendations for a row as it is keep the invariant.
LEMMA FreshAdvice ==
  ASSUME RowInv, NEW x \in Segments, NEW rec \in Recommend(net[x])
  PROVE  /\ rec.action \in Actions /\ rec.lamps \in Nat
         /\ rec.lamps > 0 <=> rec.action = "install_lamps"
         /\ rec.lamps > 0 => Needed(net[x].f) \in 1..(net[x].f.lamps + rec.lamps)
<1> DEFINE f == net[x].f
<1>1. f \in Features /\ rec \in Recommend(Scored(f))
  BY RowParts
<1> HIDE DEF f
<1>2. /\ rec.action \in Actions /\ rec.lamps \in Nat /\ f.lamps \in Nat
      /\ rec.lamps > 0 <=> rec.action = "install_lamps"
      /\ rec.action = "install_lamps" => Needed(f) = f.lamps + rec.lamps
  BY <1>1, RecommendParts, FeatureTypes
<1> QED BY <1>2 DEF f

\* What follows from a recommendation that is followed.
LEMMA ObeyedFeatures ==
  ASSUME UpgradesInv, NEW x \in Segments, NEW rec \in advice[x]
  PROVE  /\ Factor(rec) \in Fraction /\ rec.lamps \in Nat
         /\ Obeyed(net[x].f, rec) \in Features
         /\ Obeyed(net[x].f, rec).road = net[x].f.road
         /\ Obeyed(net[x].f, rec).length = net[x].f.length
         /\ Obeyed(net[x].f, rec).lamps = net[x].f.lamps + rec.lamps
<1>1. Factor(rec) \in Fraction
  BY BrighterPositive, ZeroOne DEF Factor, Amount
<1>2. net[x].f \in Features /\ rec.lamps \in Nat
  BY RowParts DEF UpgradesInv, AdviceInv
<1> DEFINE f == net[x].f  n == rec.lamps  trim == rec.action = "trim_vegetation"
           factor == Factor(rec)
<1>3. Obeyed(f, rec) = Project(f, n, trim, factor) /\ trim \in BOOLEAN
  BY DEF Obeyed
<1> HIDE DEF f, n, trim, factor
<1>4. /\ Project(f, n, trim, factor) \in Features
      /\ Project(f, n, trim, factor).lamps = f.lamps + n
      /\ Project(f, n, trim, factor).road = f.road
      /\ Project(f, n, trim, factor).length = f.length
  <2>1. f \in Features /\ n \in Nat /\ factor \in Fraction
    BY <1>1, <1>2 DEF f, n, factor
  <2> QED BY <1>3, <2>1, ProjectFeatures
<1> QED BY <1>1, <1>2, <1>3, <1>4 DEF f, n, factor

\* The invariant holds of detected segments.
LEMMA UpgradesInitInv == Init => UpgradesInv
<1> SUFFICES ASSUME Init PROVE UpgradesInv
  OBVIOUS
<1> USE UpgradeAssumption
<1>1. PICK f \in [Segments -> UNION {Detected[x] : x \in Segments}] :
        (\A x \in Segments : f[x] \in Detected[x]) /\ net = [x \in Segments |-> Scored(f[x])]
  BY DEF Init
<1>2. RowInv
  BY <1>1 DEF RowInv
<1>3. AdviceInv /\ adjusted \in Nat /\ followed \in [Segments -> Nat]
  BY DEF Init, AdviceInv
<1> QED BY <1>2, <1>3 DEF UpgradesInv

\* A request that scores a segment again keeps the invariant, whatever is sent.
LEMMA PersistInv ==
  ASSUME UpgradesInv, NEW x \in Segments, NEW f \in Features,
         f.road = net[x].f.road, f.length = net[x].f.length, f.lamps >= net[x].f.lamps,
         Persist(x, f), Answered(x)
  PROVE  RowInv' /\ AdviceInv'
<1>1. net' = [net EXCEPT ![x] = Scored(f)] /\ RowInv /\ AdviceInv
  BY DEF Persist, UpgradesInv
<1>2. RowInv'
  BY <1>1 DEF RowInv
<1>3. net'[x].f = f /\ \A y \in Segments \ {x} : net'[y] = net[y]
  BY <1>1 DEF RowInv, Scored
<1>4. /\ DOMAIN advice' = Segments
      /\ advice'[x] = IF Panel THEN Recommend(net[x]) ELSE {}
      /\ \A y \in Segments \ {x} : advice'[y] = advice[y]
  BY <1>1 DEF Answered, AdviceInv
<1>5. ASSUME NEW y \in Segments, NEW rec \in advice'[y]
      PROVE  /\ rec.action \in Actions /\ rec.lamps \in Nat
             /\ rec.lamps > 0 <=> rec.action = "install_lamps"
             /\ rec.lamps > 0 => Needed(net'[y].f) \in 1..(net'[y].f.lamps + rec.lamps)
             /\ ~Panel => rec \in Recommend(net'[y])
  <2>1. CASE y = x
    <3>1. Panel /\ rec \in Recommend(net[x])
      BY <1>4, <1>5, <2>1
    <3>2. Needed(f) = Needed(net[x].f)
      BY NeededSame
    <3>3. f.lamps \in Nat /\ net[x].f.lamps \in Nat
      BY <1>1, RowParts, FeatureTypes
    <3>4. /\ rec.action \in Actions /\ rec.lamps \in Nat
          /\ rec.lamps > 0 <=> rec.action = "install_lamps"
          /\ rec.lamps > 0 => Needed(net[x].f) \in 1..(net[x].f.lamps + rec.lamps)
      BY <1>1, <3>1, FreshAdvice
    <3> QED BY <1>3, <2>1, <3>1, <3>2, <3>3, <3>4
  <2>2. CASE y # x
    BY <1>1, <1>3, <1>4, <1>5, <2>2 DEF AdviceInv
  <2> QED BY <2>1, <2>2
<1>6. AdviceInv'
  BY <1>4, <1>5 DEF AdviceInv
<1> QED BY <1>2, <1>6

\* Every step keeps the invariant.
LEMMA UpgradesStepInv == UpgradesInv /\ [Next]_vars => UpgradesInv'
<1> SUFFICES ASSUME UpgradesInv, [Next]_vars PROVE UpgradesInv'
  OBVIOUS
<1> USE UpgradeAssumption
<1>1. ASSUME NEW x \in Segments, Ask(x) PROVE UpgradesInv'
  <2>1. RowInv /\ RowInv' /\ net' = net /\ adjusted' = adjusted /\ followed' = followed
    BY <1>1 DEF Ask, UpgradesInv, RowInv
  <2>2. DOMAIN advice' = Segments
    BY <1>1 DEF Ask, UpgradesInv, AdviceInv
  <2>3. ASSUME NEW y \in Segments, NEW rec \in advice'[y]
        PROVE  /\ rec.action \in Actions /\ rec.lamps \in Nat
               /\ rec.lamps > 0 <=> rec.action = "install_lamps"
               /\ rec.lamps > 0 => Needed(net[y].f) \in 1..(net[y].f.lamps + rec.lamps)
               /\ ~Panel => rec \in Recommend(net[y])
    <3>1. CASE y = x
      <4>1. rec \in Recommend(net[x])
        BY <1>1, <2>3, <3>1 DEF Ask, UpgradesInv, AdviceInv
      <4> QED BY <2>1, <3>1, <4>1, FreshAdvice
    <3>2. CASE y # x
      <4>1. advice'[y] = advice[y]
        BY <1>1, <3>2 DEF Ask, UpgradesInv, AdviceInv
      <4> QED BY <2>3, <4>1 DEF UpgradesInv, AdviceInv
    <3> QED BY <3>1, <3>2
  <2>4. AdviceInv'
    BY <2>1, <2>2, <2>3 DEF AdviceInv
  <2> QED BY <2>1, <2>4 DEF UpgradesInv
<1>2. ASSUME NEW x \in Segments, Follow(x) PROVE UpgradesInv'
  <2>1. PICK rec \in advice[x] : Persist(x, Obeyed(net[x].f, rec))
    BY <1>2 DEF Follow
  <2>2. RowInv' /\ AdviceInv'
    <3>1. net[x].f.lamps \in Nat
      BY RowParts, FeatureTypes DEF UpgradesInv
    <3> QED BY <1>2, <2>1, <3>1, ObeyedFeatures, PersistInv DEF Follow
  <2>3. adjusted' \in Nat /\ followed' \in [Segments -> Nat]
    BY <1>2 DEF Follow, UpgradesInv
  <2> QED BY <2>2, <2>3 DEF UpgradesInv
<1>3. ASSUME NEW x \in Segments, Adjust(x) PROVE UpgradesInv'
  <2>1. PICK n \in 0..1, trim \in BOOLEAN, factor \in Brightness :
          Persist(x, Project(net[x].f, n, trim, factor))
    BY <1>3 DEF Adjust
  <2>2. RowInv' /\ AdviceInv'
    <3>1. net[x].f \in Features /\ net[x].f.lamps \in Nat /\ n \in Nat /\ factor \in Fraction
      BY RowParts, FeatureTypes DEF UpgradesInv
    <3> DEFINE f == Project(net[x].f, n, trim, factor)
    <3>2. /\ f \in Features /\ f.road = net[x].f.road /\ f.length = net[x].f.length
          /\ f.lamps = net[x].f.lamps + n
      BY <3>1, ProjectFeatures, SMTT(30)
    <3> HIDE DEF f
    <3>3. Persist(x, f) /\ Answered(x)
      BY <1>3, <2>1 DEF Adjust, f
    <3> QED BY <3>1, <3>2, <3>3, PersistInv
  <2>3. adjusted' \in Nat /\ followed' \in [Segments -> Nat]
    BY <1>3 DEF Adjust, UpgradesInv
  <2> QED BY <2>2, <2>3 DEF UpgradesInv
<1>4. CASE UNCHANGED vars
  BY <1>4 DEF vars, UpgradesInv, RowInv, AdviceInv
<1> QED BY <1>1, <1>2, <1>3, <1>4 DEF Next

\* Whatever planners do, rows are scored and recommendations ask for no more lamps than
\* the row lacks.
THEOREM UpgradesInvariant == Spec => []UpgradesInv
  BY UpgradesInitInv, UpgradesStepInv, PTL DEF Spec

\* PythonAgrees: the scores the backend stores are those the pipeline computes, through
\* any history of interventions.
THEOREM PythonAgreesCorrect == Spec => []PythonAgrees
<1>1. UpgradesInv => PythonAgrees
  BY RowParts, ScoresAgree DEF UpgradesInv, PythonAgrees
<1> QED BY <1>1, UpgradesInvariant, PTL

-----------------------------------------------------------------------------
\* Recommendations that are followed.

\* Only following a recommendation counts one up, and it stores what was obeyed.
LEMMA FollowedStep ==
  ASSUME UpgradesInv, [Next]_vars, NEW x \in Segments, followed'[x] = followed[x] + 1
  PROVE  /\ Follow(x) /\ net'[x].s = ScoreEnv(net'[x].f)
         /\ \E rec \in advice[x] :
              /\ rec.action # "schedule_inspection"
              /\ net'[x].f = Obeyed(net[x].f, rec)
<1>1. followed \in [Segments -> Nat] /\ net \in [Segments -> {Scored(f) : f \in Features}]
  BY DEF UpgradesInv, RowInv
<1>2. followed'[x] # followed[x]
  BY <1>1
<1>3. ASSUME NEW y \in Segments, Ask(y) PROVE FALSE
  BY <1>2, <1>3 DEF Ask
<1>4. ASSUME NEW y \in Segments, Adjust(y) PROVE FALSE
  <2>1. followed' = [followed EXCEPT ![y] = 0]
    BY <1>4 DEF Adjust
  <2>2. followed'[x] = 0 \/ followed'[x] = followed[x]
    BY <1>1, <2>1
  <2> QED BY <1>1, <1>2, <2>2
<1>5. PICK y \in Segments : Follow(y)
  BY <1>2, <1>3, <1>4 DEF Next, vars
<1>6. y = x
  BY <1>1, <1>2, <1>5 DEF Follow
<1>7. PICK rec \in advice[x] :
        rec.action # "schedule_inspection" /\ Persist(x, Obeyed(net[x].f, rec))
  BY <1>5, <1>6 DEF Follow
<1>8. net'[x] = Scored(Obeyed(net[x].f, rec))
  BY <1>1, <1>7 DEF Persist
<1> QED BY <1>5, <1>6, <1>7, <1>8 DEF Scored

\* Pruning leaves less that blocks the light.
LEMMA TrimmedLess ==
  ASSUME NEW f \in Features
  PROVE  /\ Trimmed(f).trees <= f.trees
         /\ Leq(Unit(Trimmed(f).vegetation), Unit(f.vegetation))
<1> DEFINE v == f.vegetation  t == Times(v, Frac(4, 10))
<1>1. Trimmed(f).trees <= f.trees
  BY TrimmedFields, FeatureTypes
<1>2. v \in Fraction /\ Frac(4, 10) \in Amount /\ t \in Fraction /\ Leq(Frac(4, 10), One)
  <2>1. Value(Frac(4, 10), 4, 10) /\ Value(One, 1, 1)
    BY ValueFrac DEF One
  <2>2. Leq(Frac(4, 10), One) /\ Frac(4, 10) \in Amount
    BY <2>1, ValueLeq, ValueAmount
  <2> QED BY <2>2, FeatureTypes, TimesValue, PositiveAmount
<1>3. Leq(t, v) \/ (Leq(v, Zero) /\ Leq(t, Zero))
  <2> DEFINE a == v[1]  b == v[2]
  <2>1. a \in Int /\ b \in Int /\ b > 0
    BY <1>2, FractionParts
  <2>2. Value(v, a, b) /\ Value(Frac(4, 10), 4, 10) /\ Value(Zero, 0, 1)
    BY <1>2, ValueOwn, ValueFrac DEF Zero
  <2> HIDE DEF a, b, v
  <2>3. Value(t, a * 4, b * 10)
    BY <2>1, <2>2, ValueTimes
  <2>4. a * 4 \in Int /\ b * 10 \in Int
    BY <2>1
  <2>5. Leq(t, v) <=> (a * 4) * b <= a * (b * 10)
    BY <2>1, <2>2, <2>3, <2>4, ValueLeq
  <2>6. (Leq(v, Zero) <=> a * 1 <= 0 * b) /\ (Leq(t, Zero) <=> (a * 4) * 1 <= 0 * (b * 10))
    BY <2>1, <2>2, <2>3, <2>4, ValueLeq
  <2>7. a <= 0 => Leq(v, Zero) /\ Leq(t, Zero)
    BY <2>1, <2>6
  <2>8. 0 <= a => Leq(t, v)
    <3>1. (a * 4) * b = 4 * (a * b) /\ a * (b * 10) = 10 * (a * b) /\ a * b \in Int
      BY <2>1
    <3>2. 0 <= a => 0 <= a * b
      BY <2>1
    <3> QED BY <2>5, <3>1, <3>2
  <2> QED BY <2>1, <2>7, <2>8
<1>4. Leq(Unit(t), Unit(v))
  <2>1. CASE Leq(t, v)
    BY <1>2, <2>1, UnitMonotone
  <2>2. CASE Leq(v, Zero) /\ Leq(t, Zero)
    <3>1. Leq(Unit(t), Unit(Zero))
      BY <1>2, <2>2, ZeroOne, UnitMonotone DEF Amount
    <3>2. Unit(Zero) = Zero
      BY ZeroOne, LeqReflexive DEF Unit, Clamp, Less, Amount
    <3>3. Leq(Zero, Unit(v)) /\ Unit(v) \in Fraction /\ Unit(t) \in Fraction
      BY <1>2, UnitFraction, PositiveAmount
    <3> QED BY <3>1, <3>2, <3>3, ZeroOne, LeqTransitive DEF Amount
  <2> QED BY <1>3, <2>1, <2>2
<1>5. Unit(Unit(t)) = Unit(t)
  <2>1. Leq(Zero, Unit(t)) /\ Leq(Unit(t), One)
    BY <1>2, UnitFraction
  <2>2. \A w : Leq(Zero, w) /\ Leq(w, One) => Unit(w) = w
    BY DEF Unit, Clamp, Less
  <2> QED BY <2>1, <2>2
<1> QED BY <1>1, <1>4, <1>5, TrimmedFields

\* A brightness that is set to what it is.
LEMMA SameBrightness ==
  ASSUME NEW f \in Features, f.brightness = One
  PROVE  Brightened(f, One) = f
  BY DEF Brightened, Features

\* Obeying a recommendation that fits sets nothing it does not speak of.
LEMMA ObeyedPlain ==
  ASSUME NEW f \in Features, NEW rec \in Recommend(Scored(f)), StillFits(rec, Scored(f)),
         rec.action # "increase_brightness"
  PROVE  Obeyed(f, rec) = Project(f, rec.lamps, rec.action = "trim_vegetation", Zero)
<1> DEFINE g == IF rec.lamps > 0 THEN Installed(f, rec.lamps) ELSE f
           h == IF rec.action = "trim_vegetation" THEN Trimmed(g) ELSE g
<1>1. Project(f, rec.lamps, rec.action = "trim_vegetation", Zero) = h
  BY BrighterPositive DEF Project
<1>2. CASE ~Panel
  BY <1>2 DEF Obeyed, Factor
<1>3. CASE Panel
  <2>1. f.brightness = One /\ rec.lamps \in Nat
    BY <1>3, RecommendParts DEF StillFits, Scored
  <2>2. g \in Features /\ g.brightness = One
    BY <2>1, InterventionFeatures, InstalledFields
  <2>3. h \in Features /\ h.brightness = One
    <3> HIDE DEF g
    <3> QED BY <2>2, InterventionFeatures, TrimmedFields
  <2>4. Obeyed(f, rec) = Brightened(h, One)
    BY <1>3, BrighterPositive DEF Obeyed, Project, Factor
  <2> HIDE DEF h
  <2> QED BY <1>1, <2>3, <2>4, SameBrightness
<1> QED BY <1>2, <1>3

\* What is obeyed is what was projected.
LEMMA ObeyedProjection ==
  ASSUME NEW f \in Features, NEW rec \in Recommend(Scored(f)), StillFits(rec, Scored(f))
  PROVE  /\ rec.projected = ScoreEnv(Obeyed(f, rec)).overall
         /\ rec.action = "install_lamps" =>
              Obeyed(f, rec) = Installed(f, rec.lamps) /\ Needed(f) = f.lamps + rec.lamps
         /\ rec.action = "trim_vegetation" => Obeyed(f, rec) = Trimmed(f)
         /\ rec.action = "increase_brightness" => Obeyed(f, rec) = Brightened(f, Brighter)
         /\ rec.action = "schedule_inspection" => Obeyed(f, rec) = f
<1>1. /\ rec.action \in Actions /\ rec.lamps \in Nat
      /\ rec.lamps > 0 <=> rec.action = "install_lamps"
  BY RecommendParts
<1>2. CASE rec.action = "install_lamps"
  <2>1. Obeyed(f, rec) = Installed(f, rec.lamps)
    BY <1>1, <1>2, ObeyedPlain, BrighterPositive DEF Project
  <2> QED BY <1>2, <2>1, RecommendParts
<1>3. CASE rec.action = "trim_vegetation"
  <2>1. Obeyed(f, rec) = Trimmed(f)
    BY <1>1, <1>3, ObeyedPlain, BrighterPositive DEF Project
  <2> QED BY <1>3, <2>1, RecommendParts
<1>4. CASE rec.action = "increase_brightness"
  <2>1. Obeyed(f, rec) = Brightened(f, Brighter)
    BY <1>1, <1>4, BrighterPositive DEF Obeyed, Project, Factor
  <2> QED BY <1>4, <2>1, RecommendParts
<1>5. CASE rec.action = "schedule_inspection"
  <2>1. Obeyed(f, rec) = f
    BY <1>1, <1>5, ObeyedPlain, BrighterPositive DEF Project
  <2> QED BY <1>5, <2>1, RecommendParts
<1> QED BY <1>1, <1>2, <1>3, <1>4, <1>5 DEF Actions

\* A gain of a point is a gain.
LEMMA GainIsMore ==
  ASSUME NEW p \in Fraction, NEW q \in Fraction, Leq(One, Minus(p, q))
  PROVE  Leq(q, p) /\ ~Leq(p, q)
<1> DEFINE a == p[1]  b == p[2]  c == q[1]  d == q[2]
<1>1. a \in Int /\ b \in Int /\ b > 0 /\ c \in Int /\ d \in Int /\ d > 0
  BY FractionParts
<1>2. Value(p, a, b) /\ Value(q, c, d) /\ Value(One, 1, 1)
  BY ValueOwn, ValueFrac DEF One
<1> HIDE DEF a, b, c, d
<1>3. a * d - c * b \in Int /\ b * d \in Int /\ b * d > 0 /\ a * d \in Int /\ c * b \in Int
  BY <1>1
<1>4. Value(Minus(p, q), a * d - c * b, b * d)
  BY <1>1, <1>2, <1>3, ValueMinus
<1>5. 1 * (b * d) <= (a * d - c * b) * 1
  BY <1>2, <1>3, <1>4, ValueLeq
<1>6. (Leq(q, p) <=> c * b <= a * d) /\ (Leq(p, q) <=> a * d <= c * b)
  BY <1>1, <1>2, ValueLeq
<1> QED BY <1>3, <1>5, <1>6

\* A recommendation is never for the worse.
LEMMA ObeyedImproves ==
  ASSUME NEW f \in Features, NEW rec \in Recommend(Scored(f)), StillFits(rec, Scored(f))
  PROVE  Leq(ScoreEnv(f).overall, ScoreEnv(Obeyed(f, rec)).overall)
<1>1. rec.action \in Actions /\ rec.lamps \in Nat
  BY RecommendParts
<1>2. Leq(Unit(f.vegetation), Unit(f.vegetation))
  BY FeatureTypes, UnitFraction, LeqReflexive, PositiveAmount
<1>3. CASE rec.action = "install_lamps"
  <2> DEFINE g == Installed(f, rec.lamps)
  <2>1. /\ g \in Features /\ f.lamps <= g.lamps /\ f.poles <= g.poles /\ g.trees <= f.trees
    <3>1. g \in Features
      BY <1>1, InterventionFeatures
    <3>2. /\ f.lamps \in Nat /\ f.poles \in Nat /\ f.trees \in Nat /\ g.trees = f.trees
          /\ g.lamps = f.lamps + rec.lamps /\ g.poles = f.poles + rec.lamps
      BY <1>1, InstalledFields, FeatureTypes
    <3> HIDE DEF g
    <3> QED BY <1>1, <3>1, <3>2
  <2>2. Leq(ScoreEnv(f).overall, ScoreEnv(g).overall)
    BY <1>1, <1>2, <2>1, InstalledFields, MoreIsBetter
  <2> QED BY <1>3, <2>2, ObeyedProjection
<1>4. CASE rec.action = "trim_vegetation"
  <2> DEFINE g == Trimmed(f)
  <2>1. g \in Features /\ f.lamps <= g.lamps /\ f.poles <= g.poles
    <3>1. g \in Features
      BY InterventionFeatures
    <3>2. /\ f.lamps \in Nat /\ f.poles \in Nat
          /\ g.lamps = f.lamps /\ g.poles = f.poles
      BY TrimmedFields, FeatureTypes
    <3> HIDE DEF g
    <3> QED BY <3>1, <3>2
  <2>2. Leq(ScoreEnv(f).overall, ScoreEnv(g).overall)
    BY <2>1, TrimmedLess, TrimmedFields, MoreIsBetter
  <2> QED BY <1>4, <2>2, ObeyedProjection
<1>5. CASE rec.action = "increase_brightness"
  <2>1. Leq(One, Minus(rec.projected, ScoreEnv(f).overall))
    BY <1>5, RecommendParts
  <2>2. Obeyed(f, rec) \in Features /\ rec.projected = ScoreEnv(Obeyed(f, rec)).overall
    BY <1>5, ObeyedProjection, InterventionFeatures, BrighterPositive
  <2> QED BY <2>1, <2>2, ScoreTypes, GainIsMore, PositiveAmount
<1>6. CASE rec.action = "schedule_inspection"
  BY <1>6, ObeyedProjection, ScoreTypes, LeqReflexive, PositiveAmount
<1> QED BY <1>1, <1>3, <1>4, <1>5, <1>6 DEF Actions

\* AdviceKept: a recommendation that still fits the row and is followed brings the
\* score it projected and never a lower one, in the panel and elsewhere.
THEOREM AdviceKeptCorrect == Spec => AdviceKept
<1>1. ASSUME UpgradesInv, [Next]_vars, NEW x \in Segments, NEW rec \in advice[x],
             followed'[x] = followed[x] + 1, net'[x].f = Obeyed(net[x].f, rec),
             StillFits(rec, net[x])
      PROVE  /\ net'[x].s.overall = rec.projected
             /\ Leq(net[x].s.overall, net'[x].s.overall)
  <2>1. net'[x].s = ScoreEnv(Obeyed(net[x].f, rec))
    BY <1>1, FollowedStep
  <2>2. /\ net[x].f \in Features /\ net[x].s = ScoreEnv(net[x].f)
        /\ net[x] = Scored(net[x].f)
    BY <1>1, RowParts DEF UpgradesInv
  <2>3. rec \in Recommend(net[x])
    BY <1>1 DEF UpgradesInv, AdviceInv, StillFits
  <2> QED BY <1>1, <2>1, <2>2, <2>3, ObeyedProjection, ObeyedImproves
<1>2. UpgradesInv /\ [Next]_vars =>
        [\A x \in Segments : \A rec \in advice[x] :
           /\ followed'[x] = followed[x] + 1 /\ net'[x].f = Obeyed(net[x].f, rec)
           /\ StillFits(rec, net[x])
           => /\ net'[x].s.overall = rec.projected
              /\ Leq(net[x].s.overall, net'[x].s.overall)]_vars
  BY <1>1
<1> QED BY <1>2, UpgradesInvariant, PTL DEF Spec, AdviceKept

-----------------------------------------------------------------------------
\* Installing as recommended.

\* Without a length no lamps are asked for.
LEMMA NeededMeasured ==
  ASSUME NEW f \in Features, Needed(f) > 0
  PROVE  Less(Zero, f.length)
<1> DEFINE r == RecommendedDensityFor(f.road)
           rn == r[1]  rd == r[2]  ln == f.length[1]  ld == f.length[2]
<1>1. r \in Positive /\ r \in Fraction /\ f.length \in Fraction
  BY RoadValues, FeatureTypes, PositiveAmount
<1>2. /\ rn \in Int /\ rd \in Int /\ rd > 0 /\ rn > 0
      /\ ln \in Int /\ ld \in Int /\ ld > 0
      /\ Value(r, rn, rd) /\ Value(f.length, ln, ld)
      /\ Value(Frac(85, 100), 85, 100) /\ Value(Whole(100), 100, 1)
  BY <1>1, FractionParts, ValueOwn, ValueFrac DEF Positive
<1> HIDE DEF rn, rd, ln, ld
<1> DEFINE p == Times(Times(Frac(85, 100), r), Over(f.length, Whole(100)))
           n == (85 * rn) * ln
           d == (100 * rd) * (ld * 100)
<1>3. n \in Int /\ d \in Int /\ Value(p, n, d)
  <2>1. Value(Over(f.length, Whole(100)), ln, ld * 100)
    BY <1>2, ValueOver
  <2>2. 85 * rn \in Int /\ 100 * rd \in Int /\ ld * 100 \in Int
    BY <1>2
  <2>3. Value(Times(Frac(85, 100), r), 85 * rn, 100 * rd)
    BY <1>2, <2>2, ValueTimes
  <2>4. n \in Int /\ d \in Int
    BY <1>2, <2>2
  <2> QED BY <1>2, <2>1, <2>2, <2>3, <2>4, ValueTimes
<1>4. Needed(f) = Ceil(p)
  BY DEF Needed, FixturesFor
<1> HIDE DEF p
<1>5. Ceil(p) \in Int /\ Ceil(p) * d < n + d /\ d > 0
  BY <1>3, CeilBounds DEF Value
<1>6. n > 0
  <2> DEFINE c == Ceil(p)
  <2>1. c \in Int /\ c > 0 /\ c * d < n + d
    BY <1>4, <1>5
  <2> HIDE DEF c, n, d
  <2>2. d <= c * d
    BY <1>3, <1>5, <2>1
  <2> QED BY <1>3, <1>5, <2>1, <2>2
<1>7. ln > 0
  <2>1. 85 * rn > 0 /\ 85 * rn \in Int
    BY <1>2
  <2> QED BY <1>2, <1>6, <2>1
<1> QED BY <1>2, <1>7, ZeroOne DEF Less, Leq, ln, ld

\* As many lamps as a target asks for reach it, at nominal output.
LEMMA FixturesEnough ==
  ASSUME NEW f \in Features, NEW target \in Positive, Leq(target, One),
         Less(Zero, f.length), Leq(One, OrElse(f.brightness, One)),
         FixturesFor(target, f) <= f.lamps
  PROVE  Leq(target, AdequacyOf(f))
<1> DEFINE r == RecommendedDensityFor(f.road)
           c == Over(f.length, Whole(100))
           b == OrElse(f.brightness, One)
           tn == target[1]  td == target[2]  rn == r[1]  rd == r[2]
           cn == c[1]  cd == c[2]  bn == b[1]  bd == b[2]
           n == f.lamps
<1>1. f.length \in Positive /\ LengthOf(f) = f.length
  <2>1. f.length \in Fraction /\ f.length[1] * 1 > 0 * f.length[2]
    BY FeatureTypes, ZeroOne, FractionParts DEF Less, Leq
  <2>2. ~Leq(f.length, Zero)
    BY <2>1, ZeroOne, FractionParts DEF Leq
  <2> QED BY <2>1, <2>2, FractionParts DEF Positive, LengthOf, OrElse
<1>2. r \in Positive /\ c \in Positive /\ b \in Positive
  BY <1>1, RoadValues, Hundred, OverFraction, FeatureTypes, OrElsePositive
<1>3. /\ tn \in Int /\ td \in Int /\ td > 0 /\ tn > 0 /\ Value(target, tn, td)
      /\ rn \in Int /\ rd \in Int /\ rd > 0 /\ rn > 0 /\ Value(r, rn, rd)
      /\ cn \in Int /\ cd \in Int /\ cd > 0 /\ cn > 0 /\ Value(c, cn, cd)
      /\ bn \in Int /\ bd \in Int /\ bd > 0 /\ bn > 0 /\ Value(b, bn, bd)
      /\ Value(One, 1, 1)
  BY <1>2, FractionParts, ValueOwn, ValueFrac DEF Positive, One
<1>4. n \in Nat /\ Value(Whole(n), n, 1)
  BY FeatureTypes, ValueFrac
<1>5. bd <= bn
  BY <1>3, ValueLeq
<1> DEFINE p == Times(Times(target, r), c)
           x == Over(Times(Over(Whole(n), c), b), r)
<1>6. FixturesFor(target, f) = Ceil(p)
  BY DEF FixturesFor
<1>7. AdequacyOf(f) = Unit(x)
  <2>1. ~Leq(LengthOf(f), Zero)
    BY <1>1, ZeroOne, FractionParts DEF Leq, Positive
  <2> QED BY <1>1, <2>1 DEF AdequacyOf, DensityOf, LightingDensity
<1> HIDE DEF r, c, b, tn, td, rn, rd, cn, cd, bn, bd, n
<1>8. /\ (tn * rn) * cn \in Int /\ (td * rd) * cd \in Int /\ (td * rd) * cd > 0
      /\ Value(p, (tn * rn) * cn, (td * rd) * cd)
  <2>1. tn * rn \in Int /\ td * rd \in Int /\ td * rd > 0
    BY <1>3
  <2>2. Value(Times(target, r), tn * rn, td * rd)
    BY <1>3, <2>1, ValueTimes
  <2>3. (tn * rn) * cn \in Int /\ (td * rd) * cd \in Int /\ (td * rd) * cd > 0
    BY <1>3, <2>1
  <2> QED BY <1>3, <2>1, <2>2, <2>3, ValueTimes
<1>9. /\ ((n * cd) * bn) * rd \in Int /\ (cn * bd) * rn \in Int
      /\ Value(x, ((n * cd) * bn) * rd, (cn * bd) * rn)
  <2>1. n * cd \in Int /\ cn \in Int /\ cn = 1 * cn
    BY <1>3, <1>4
  <2>2. Value(Over(Whole(n), c), n * cd, cn)
    BY <1>3, <1>4, <2>1, ValueOver
  <2>3. (n * cd) * bn \in Int /\ cn * bd \in Int
    BY <1>3, <2>1
  <2>4. Value(Times(Over(Whole(n), c), b), (n * cd) * bn, cn * bd)
    BY <1>3, <2>1, <2>2, <2>3, ValueTimes
  <2>5. ((n * cd) * bn) * rd \in Int /\ (cn * bd) * rn \in Int
    BY <1>3, <2>3
  <2> QED BY <1>3, <2>3, <2>4, <2>5, ValueOver
<1> HIDE DEF p, x
<1>10. (tn * rn) * cn <= n * ((td * rd) * cd)
  <2> DEFINE u == Ceil(p)  s == (tn * rn) * cn  d == (td * rd) * cd
  <2>1. u \in Int /\ s <= u * d /\ u <= n /\ s \in Int /\ d \in Int /\ d > 0
    BY <1>6, <1>8, CeilBounds DEF n
  <2> HIDE DEF u, s, d
  <2>2. u * d <= n * d
    BY <1>4, <2>1
  <2>3. s <= n * d
    BY <1>4, <2>1, <2>2
  <2> QED BY <2>3 DEF s, d
<1>11. tn * ((cn * bd) * rn) <= (((n * cd) * bn) * rd) * td
  <2> DEFINE s == (tn * rn) * cn  d == n * ((td * rd) * cd)
  <2>1. s \in Int /\ d \in Int /\ 0 <= d /\ s <= d
    <3>1. 0 <= n * ((td * rd) * cd)
      BY <1>4, <1>8
    <3> QED BY <1>4, <1>8, <1>10, <3>1
  <2>2. tn * ((cn * bd) * rn) = s * bd
    BY <1>3
  <2>3. (((n * cd) * bn) * rd) * td = d * bn
    BY <1>3, <1>4
  <2> HIDE DEF s, d
  <2>4. s * bd <= d * bd /\ d * bd <= d * bn
    BY <1>3, <1>5, <2>1
  <2>5. s * bd <= d * bn
    BY <1>3, <2>1, <2>4
  <2> QED BY <2>2, <2>3, <2>5
<1>12. Leq(target, x)
  BY <1>3, <1>9, <1>11, ValueLeq
<1>13. x \in Fraction /\ target \in Fraction /\ Leq(Zero, target)
  BY <1>9, LeqZero, PositiveAmount DEF Value
<1>14. Unit(target) = target
  BY <1>13 DEF Unit, Clamp, Less
<1> QED BY <1>7, <1>12, <1>13, <1>14, UnitMonotone

\* As many lamps as recommended are adequate at nominal output, after rounding too.
LEMMA TargetReached ==
  ASSUME NEW f \in Features, Needed(f) > 0, Needed(f) <= f.lamps, Leq(One, f.brightness)
  PROVE  Leq(Frac(85, 100), ScoreEnv(f).adequacy)
<1>1. /\ Value(Frac(85, 100), 85, 100) /\ Value(Frac(850, 1000), 850, 1000)
      /\ Value(One, 1, 1) /\ Value(Zero, 0, 1)
  BY ValueFrac DEF One, Zero
<1>2. /\ Frac(85, 100) \in Positive /\ Frac(850, 1000) \in Fraction
      /\ Leq(Frac(85, 100), One) /\ Leq(Frac(85, 100), Frac(850, 1000))
      /\ Leq(Frac(850, 1000), Frac(85, 100)) /\ ~Leq(One, Zero)
  BY <1>1, ValueLeq, ValueAmount DEF Value
<1>3. Leq(One, OrElse(f.brightness, One))
  <2>1. ~Leq(f.brightness, Zero)
    BY <1>2, FeatureTypes, ZeroOne, LeqTransitive DEF Amount
  <2> QED BY <2>1 DEF OrElse
<1>4. Leq(Frac(85, 100), AdequacyOf(f))
  BY <1>2, <1>3, NeededMeasured, FixturesEnough DEF Needed
<1>5. AdequacyOf(f) \in Amount
  BY AdequacyUnit
<1>6. Leq(Frac(850, 1000), AdequacyOf(f))
  BY <1>2, <1>4, <1>5, LeqTransitive, PositiveAmount
<1>7. /\ Leq(Frac(850, 1000), Round(AdequacyOf(f), 1000))
      /\ Round(AdequacyOf(f), 1000) \in Fraction
  BY <1>5, <1>6, RoundBounds, RoundAmount, PositiveAmount
<1>8. Leq(Frac(85, 100), Round(AdequacyOf(f), 1000))
  BY <1>2, <1>7, LeqTransitive, PositiveAmount
<1> QED BY <1>8, ScoreParts

\* InstallReachesTarget: lamps that are installed as recommended are enough, in the panel
\* too, where the recommendations are those of the row before.
THEOREM InstallReachesTargetCorrect == Spec => InstallReachesTarget
<1>1. ASSUME UpgradesInv, [Next]_vars, NEW x \in Segments, NEW old \in advice[x],
             followed'[x] = followed[x] + 1, net'[x].f.lamps > net[x].f.lamps
      PROVE  /\ LampsToReachTarget(net'[x].f) = 0
             /\ Leq(One, net'[x].f.brightness) => Leq(Frac(85, 100), net'[x].s.adequacy)
  <2>1. PICK rec \in advice[x] : net'[x].f = Obeyed(net[x].f, rec)
    BY <1>1, FollowedStep
  <2> DEFINE f == net[x].f  g == net'[x].f
  <2>2. /\ g \in Features /\ g.road = f.road /\ g.length = f.length
        /\ g.lamps = f.lamps + rec.lamps /\ rec.lamps \in Nat
    BY <1>1, <2>1, ObeyedFeatures
  <2>3. f \in Features /\ f.lamps \in Nat /\ net'[x].s = ScoreEnv(g)
    BY <1>1, RowParts, FeatureTypes, FollowedStep DEF UpgradesInv
  <2>4. rec.lamps > 0
    BY <1>1, <2>2, <2>3
  <2>5. Needed(f) \in 1..(f.lamps + rec.lamps)
    BY <1>1, <2>4 DEF UpgradesInv, AdviceInv
  <2>6. Needed(g) = Needed(f)
    BY <2>2, NeededSame
  <2> HIDE DEF f, g
  <2>7. Needed(g) > 0 /\ Needed(g) <= g.lamps
    BY <2>2, <2>3, <2>5, <2>6
  <2>8. LampsToReachTarget(g) = 0
    BY <2>2, <2>7, NeededInt
  <2> QED BY <2>2, <2>3, <2>7, <2>8, TargetReached DEF g
<1>2. UpgradesInv /\ [Next]_vars =>
        [\A x \in Segments : \A rec \in advice[x] :
           rec.action = "install_lamps" /\ followed'[x] = followed[x] + 1
           /\ net'[x].f.lamps > net[x].f.lamps =>
             /\ LampsToReachTarget(net'[x].f) = 0
             /\ Leq(One, net'[x].f.brightness) => Leq(Frac(85, 100), net'[x].s.adequacy)]_vars
  BY <1>1
<1> QED BY <1>2, UpgradesInvariant, PTL DEF Spec, InstallReachesTarget

-----------------------------------------------------------------------------
\* Advice comes to an end.

\* A segment as it is after k prunings, from 24 trees or less.
Pruned(k, f) ==
  \/ k = 0 /\ f.trees <= 24 /\ Leq(f.vegetation, One)
  \/ k = 1 /\ f.trees <= 12 /\ Leq(f.vegetation, Frac(40, 100))
  \/ k = 2 /\ f.trees <= 6 /\ Leq(f.vegetation, Frac(160, 1000))
  \/ k = 3 /\ f.trees <= 3 /\ Leq(f.vegetation, Frac(640, 10000))

\* Pruning leaves two fifths of the vegetation.
LEMMA LessGreen ==
  ASSUME NEW f \in Features, NEW n \in Nat, NEW d \in Int, d > 0, n <= d,
         Leq(f.vegetation, Frac(n, d))
  PROVE  Leq(Trimmed(f).vegetation, Frac(n * 4, d * 10))
<1> DEFINE v == f.vegetation  a == v[1]  b == v[2]
<1>1. /\ v \in Fraction /\ a \in Int /\ b \in Int /\ b > 0
      /\ n * 4 \in Nat /\ d * 10 \in Int /\ d * 10 > 0
  BY FeatureTypes, FractionParts
<1>2. /\ Value(v, a, b) /\ Value(Frac(n, d), n, d) /\ Value(Frac(4, 10), 4, 10)
      /\ Value(Frac(n * 4, d * 10), n * 4, d * 10) /\ Value(One, 1, 1)
  BY <1>1, ValueOwn, ValueFrac DEF One
<1> HIDE DEF a, b
<1>3. a * d <= n * b
  BY <1>1, <1>2, ValueLeq
<1>4. Value(Times(v, Frac(4, 10)), a * 4, b * 10) /\ a * 4 \in Int /\ b * 10 \in Int
  BY <1>1, <1>2, ValueTimes
<1>5. Leq(Times(v, Frac(4, 10)), Frac(n * 4, d * 10))
  <2>1. (a * 4) * (d * 10) = 40 * (a * d) /\ (n * 4) * (b * 10) = 40 * (n * b)
    BY <1>1
  <2>2. a * d \in Int /\ n * b \in Int
    BY <1>1
  <2>3. (a * 4) * (d * 10) <= (n * 4) * (b * 10)
    BY <1>3, <2>1, <2>2
  <2> QED BY <1>1, <1>2, <1>4, <2>3, ValueLeq
<1>6. Frac(n * 4, d * 10) \in Amount /\ Leq(Frac(n * 4, d * 10), One)
  BY <1>1, <1>2, ValueLeq, ValueAmount
<1> QED BY <1>4, <1>5, <1>6, UnitBelow, TrimmedFields DEF Value

\* A pruning counts.
LEMMA PruneOnce ==
  ASSUME NEW f \in Features, NEW k \in 0..2, Pruned(k, f)
  PROVE  Pruned(k + 1, Trimmed(f))
<1>1. Trimmed(f).trees = (f.trees + 1) \div 2 /\ f.trees \in Nat
  BY TrimmedFields, FeatureTypes
<1>2. CASE k = 0
  <2>1. f.trees <= 24 /\ Leq(f.vegetation, One)
    BY <1>2 DEF Pruned
  <2>2. Value(One, 1, 1) /\ Value(Frac(10, 10), 10, 10)
    BY ValueFrac DEF One
  <2>3. Leq(f.vegetation, Frac(10, 10))
    <3>1. Leq(One, Frac(10, 10))
      BY <2>2, ValueLeq
    <3> QED BY <2>1, <2>2, <3>1, FeatureTypes, LeqTransitive DEF Value
  <2>4. Leq(Trimmed(f).vegetation, Frac(10 * 4, 10 * 10))
    BY <2>3, LessGreen
  <2> QED BY <1>1, <1>2, <2>1, <2>4 DEF Pruned
<1>3. CASE k = 1
  <2>1. f.trees <= 12 /\ Leq(f.vegetation, Frac(40, 100))
    BY <1>3 DEF Pruned
  <2>2. Leq(Trimmed(f).vegetation, Frac(40 * 4, 100 * 10))
    BY <2>1, LessGreen
  <2> QED BY <1>1, <1>3, <2>1, <2>2 DEF Pruned
<1>4. CASE k = 2
  <2>1. f.trees <= 6 /\ Leq(f.vegetation, Frac(160, 1000))
    BY <1>4 DEF Pruned
  <2>2. Leq(Trimmed(f).vegetation, Frac(160 * 4, 1000 * 10))
    BY <2>1, LessGreen
  <2> QED BY <1>1, <1>4, <2>1, <2>2 DEF Pruned
<1> QED BY <1>2, <1>3, <1>4

\* A segment that was pruned has no more than one that was not.
LEMMA PrunedAtAll ==
  ASSUME NEW f \in Features, NEW k \in 0..3, Pruned(k, f)
  PROVE  Pruned(0, f)
<1>1. /\ Value(One, 1, 1) /\ Value(Frac(40, 100), 40, 100)
      /\ Value(Frac(160, 1000), 160, 1000) /\ Value(Frac(640, 10000), 640, 10000)
  BY ValueFrac DEF One
<1>2. /\ One \in Fraction /\ Frac(40, 100) \in Fraction /\ Leq(Frac(40, 100), One)
      /\ Frac(160, 1000) \in Fraction /\ Leq(Frac(160, 1000), One)
      /\ Frac(640, 10000) \in Fraction /\ Leq(Frac(640, 10000), One)
  BY <1>1, ValueLeq DEF Value
<1>3. f.trees \in Nat /\ f.vegetation \in Fraction
  BY FeatureTypes
<1> QED BY <1>2, <1>3, LeqTransitive DEF Pruned

\* The first pruning keeps to the bounds of a segment that was not pruned.
LEMMA TrimmedAtAll ==
  ASSUME NEW f \in Features, Pruned(0, f)
  PROVE  Pruned(0, Trimmed(f))
  BY PruneOnce, PrunedAtAll, InterventionFeatures

\* After three prunings nothing is left to prune.
LEMMA NothingToTrim ==
  ASSUME NEW f \in Features, Pruned(3, f)
  PROVE  ~Leq(Whole(35), ScoreEnv(f).occlusion) /\ ~Leq(Frac(3, 10), f.vegetation)
<1>1. /\ f.trees <= 3 /\ Leq(f.vegetation, Frac(640, 10000))
      /\ f.trees \in Nat /\ f.vegetation \in Fraction
  BY FeatureTypes DEF Pruned
<1>2. /\ Value(One, 1, 1) /\ Value(Frac(640, 10000), 640, 10000) /\ Value(Frac(3, 8), 3, 8)
      /\ Value(Frac(3, 10), 3, 10) /\ Value(Whole(35), 35, 1) /\ Value(Whole(100), 100, 1)
      /\ Value(Frac(349, 10), 349, 10) /\ Value(Frac(55, 100), 55, 100)
      /\ Value(Frac(1, 10), 1, 10)
      /\ Value(Frac(25, 100), 25, 100) /\ Value(Frac(20, 100), 20, 100)
  BY ValueFrac DEF One
<1>3. ~Leq(Frac(3, 10), f.vegetation)
  <2>1. ~Leq(Frac(3, 10), Frac(640, 10000))
    BY <1>2, ValueLeq
  <2> QED BY <1>1, <1>2, <2>1, LeqTransitive DEF Value
<1> DEFINE v == Unit(f.vegetation)  t == Unit(Frac(f.trees, 8))  b == Unit(f.building)
           w == Weighted(55, v, 25, t, 20, b)
           m == Weighted(55, Frac(1, 10), 25, Frac(3, 8), 20, One)
<1>4. v \in Amount /\ t \in Amount /\ b \in Amount /\ Leq(b, One)
  BY FeatureTypes, UnitFraction, OcclusionParts, PositiveAmount
<1>5. /\ Frac(1, 10) \in Amount /\ Leq(Frac(1, 10), One)
      /\ Frac(3, 8) \in Amount /\ Leq(Frac(3, 8), One) /\ One \in Amount
  BY <1>2, ValueLeq, ValueAmount
<1>6. Leq(v, Frac(1, 10))
  <2>1. Leq(Frac(640, 10000), Frac(1, 10))
    BY <1>2, ValueLeq
  <2>2. Leq(f.vegetation, Frac(1, 10))
    BY <1>1, <1>2, <2>1, LeqTransitive DEF Value
  <2> QED BY <1>1, <1>5, <2>2, UnitBelow
<1>7. Leq(t, Frac(3, 8))
  <2>1. Leq(Frac(f.trees, 8), Frac(3, 8)) /\ Frac(f.trees, 8) \in Fraction
    BY <1>1, LeqFrac, FracValue
  <2> QED BY <1>5, <2>1, UnitBelow
<1>8. Leq(w, m) /\ w \in Amount /\ m \in Amount
  BY <1>4, <1>5, <1>6, <1>7, WeightedMonotone, WeightedAmount, ZenonT(30)
<1>9. Value(m, 279, 800)
  <2>1. /\ Value(Times(Frac(55, 100), Frac(1, 10)), 55, 1000)
        /\ Value(Times(Frac(25, 100), Frac(3, 8)), 75, 800)
        /\ Value(Times(Frac(20, 100), One), 20, 100)
    BY <1>2, ValueTimes
  <2>2. /\ Value(Times(Frac(55, 100), Frac(1, 10)), 11, 200)
        /\ Value(Times(Frac(25, 100), Frac(3, 8)), 3, 32)
        /\ Value(Times(Frac(20, 100), One), 1, 5)
    BY <2>1, ValueLowest
  <2>3. Value(Plus(Times(Frac(55, 100), Frac(1, 10)), Times(Frac(25, 100), Frac(3, 8))), 952, 6400)
    BY <2>2, ValuePlus
  <2>4. Value(Plus(Times(Frac(55, 100), Frac(1, 10)), Times(Frac(25, 100), Frac(3, 8))), 119, 800)
    BY <2>3, ValueLowest
  <2>5. Value(m, 1395, 4000)
    BY <2>2, <2>4, ValuePlus DEF Weighted
  <2> HIDE DEF m
  <2> QED BY <2>5, ValueLowest
<1> HIDE DEF v, t, b, m
<1>10. Leq(m, One)
  BY <1>2, <1>9, ValueLeq
<1>11. Leq(Unit(w), m) /\ Unit(w) \in Amount
  BY <1>8, <1>10, UnitBelow, UnitFraction, PositiveAmount
<1>12. Leq(Times(Unit(w), Whole(100)), Times(m, Whole(100)))
  BY <1>8, <1>11, HundredTimesMonotone
<1>13. Value(Times(m, Whole(100)), 27900, 800)
  BY <1>2, <1>9, ValueTimes
<1>14. Leq(Times(m, Whole(100)), Frac(349, 10))
  BY <1>2, <1>13, ValueLeq
<1>15. Occlusion(f) = Times(Unit(w), Whole(100)) /\ Occlusion(f) \in Amount
  BY OcclusionParts DEF Occlusion, v, t, b
<1> HIDE DEF w
<1>16. Leq(Occlusion(f), Frac(349, 10))
  BY <1>2, <1>12, <1>13, <1>14, <1>15, LeqTransitive, PositiveAmount DEF Value
<1>17. Leq(Round(Occlusion(f), 10), Frac(349, 10)) /\ Round(Occlusion(f), 10) \in Fraction
  BY <1>15, <1>16, RoundBounds, RoundAmount, PositiveAmount
<1>18. ~Leq(Whole(35), Frac(349, 10))
  BY <1>2, ValueLeq
<1>19. ~Leq(Whole(35), Round(Occlusion(f), 10))
  BY <1>2, <1>17, <1>18, LeqTransitive DEF Value
<1> QED BY <1>3, <1>19, ScoreParts

\* What is left to do besides pruning.
Pending(f) ==
  (IF Needed(f) > f.lamps THEN 1 ELSE 0) + (IF f.brightness = Brighter THEN 0 ELSE 1)

\* No more than an installation and a brightening.
LEMMA PendingTwo == \A f : Pending(f) \in 0..2
  BY DEF Pending

\* A recommendation is used up when it is followed.
LEMMA UsedUp ==
  ASSUME ~Panel, NEW f \in Features, NEW rec \in Recommend(Scored(f)),
         rec.action # "schedule_inspection", NEW k \in 0..3, Pruned(k, f)
  PROVE  \E j \in 0..3 :
           /\ Pruned(j, Obeyed(f, rec))
           /\ Pending(Obeyed(f, rec)) + (3 - j) + 1 <= Pending(f) + (3 - k)
<1>1. rec.action \in Actions /\ rec.lamps \in Nat /\ (rec.lamps > 0 <=> rec.action = "install_lamps")
  BY RecommendParts
<1>2. Needed(f) \in Int /\ f.lamps \in Nat /\ StillFits(rec, Scored(f))
  BY NeededInt DEF StillFits
<1>3. CASE rec.action = "install_lamps"
  <2> DEFINE g == Installed(f, rec.lamps)
  <2>1. Obeyed(f, rec) = g /\ Needed(f) = f.lamps + rec.lamps
    BY <1>2, <1>3, ObeyedProjection
  <2>2. /\ g.lamps = f.lamps + rec.lamps /\ g.brightness = f.brightness
        /\ g.trees = f.trees /\ g.vegetation = f.vegetation /\ Needed(g) = Needed(f)
    BY <1>1, InstalledFields, NeededSame
  <2> HIDE DEF g
  <2>3. Pruned(k, g)
    BY <2>2 DEF Pruned
  <2>4. Pending(g) + 1 = Pending(f)
    BY <1>1, <1>2, <1>3, <2>1, <2>2 DEF Pending
  <2>5. Pending(g) \in Int
    BY DEF Pending
  <2> QED BY <2>1, <2>3, <2>4, <2>5
<1>4. CASE rec.action = "trim_vegetation"
  <2> DEFINE g == Trimmed(f)
  <2>1. Obeyed(f, rec) = g
    BY <1>2, <1>4, ObeyedProjection
  <2>2. k # 3
    BY <1>4, RecommendParts, NothingToTrim
  <2>3. Pruned(k + 1, g) /\ k + 1 \in 0..3
    BY <2>2, PruneOnce
  <2>4. g.lamps = f.lamps /\ g.brightness = f.brightness /\ Needed(g) = Needed(f)
    BY TrimmedFields, NeededSame
  <2> HIDE DEF g
  <2>5. Pending(g) = Pending(f) /\ Pending(f) \in Int
    BY <2>4 DEF Pending
  <2>6. Pending(g) + (3 - (k + 1)) + 1 <= Pending(f) + (3 - k)
    BY <2>5
  <2> QED BY <2>1, <2>3, <2>6
<1>5. CASE rec.action = "increase_brightness"
  <2> DEFINE g == Brightened(f, Brighter)
  <2>1. Obeyed(f, rec) = g
    BY <1>2, <1>5, ObeyedProjection
  <2>2. f.brightness # Brighter
    <3>1. SUFFICES ASSUME f.brightness = Brighter PROVE FALSE
      OBVIOUS
    <3>2. g = f
      BY <3>1 DEF Brightened, Features
    <3>3. Leq(One, Minus(ScoreEnv(g).overall, ScoreEnv(f).overall))
      BY <1>5, RecommendParts
    <3> QED BY <3>2, <3>3, ScoreTypes, GainIsMore, PositiveAmount
  <2>3. /\ g.lamps = f.lamps /\ g.brightness = Brighter /\ Needed(g) = Needed(f)
        /\ g.trees = f.trees /\ g.vegetation = f.vegetation
    BY BrighterPositive, BrightenedFields, NeededSame
  <2> HIDE DEF g
  <2>4. Pruned(k, g)
    BY <2>3 DEF Pruned
  <2>5. Pending(g) + 1 = Pending(f) /\ Pending(g) \in Int
    BY <2>2, <2>3 DEF Pending
  <2> QED BY <2>1, <2>4, <2>5
<1> QED BY <1>1, <1>3, <1>4, <1>5 DEF Actions

\* Detected with 24 trees or less, and no more vegetation than a full cover.
Modest(x) == \A f \in Detected[x] : f.trees <= 24 /\ Leq(f.vegetation, One)

\* Recommendations that were followed and those still to come are five at most.
EndsInv ==
  \A x \in Segments : Modest(x) =>
    \E k \in 0..3 : Pruned(k, net[x].f) /\ followed[x] + Pending(net[x].f) + (3 - k) <= 5

\* It holds of detected segments.
LEMMA EndsInit == Init => EndsInv
<1> SUFFICES ASSUME Init, NEW x \in Segments, Modest(x)
             PROVE  \E k \in 0..3 : Pruned(k, net[x].f)
                                    /\ followed[x] + Pending(net[x].f) + (3 - k) <= 5
  BY DEF EndsInv
<1>1. net[x].f \in Detected[x] /\ followed[x] = 0
  <2>1. PICK f \in [Segments -> UNION {Detected[y] : y \in Segments}] :
          (\A y \in Segments : f[y] \in Detected[y]) /\ net = [y \in Segments |-> Scored(f[y])]
    BY DEF Init
  <2> QED BY <2>1 DEF Init, Scored
<1>2. Pruned(0, net[x].f)
  BY <1>1 DEF Modest, Pruned
<1>3. followed[x] + Pending(net[x].f) + (3 - 0) <= 5
  BY <1>1, PendingTwo
<1> QED BY <1>2, <1>3

\* Every step keeps it outside the panel.
LEMMA EndsStep ==
  ASSUME ~Panel, UpgradesInv, EndsInv, [Next]_vars
  PROVE  EndsInv'
<1> USE UpgradeAssumption
<1> SUFFICES ASSUME NEW x \in Segments, Modest(x)
             PROVE  \E k \in 0..3 : Pruned(k, net'[x].f)
                                    /\ followed'[x] + Pending(net'[x].f) + (3 - k) <= 5
  BY DEF EndsInv, Modest
<1> DEFINE f == net[x].f
           Kept == \E k \in 0..3 : Pruned(k, net'[x].f)
                                   /\ followed'[x] + Pending(net'[x].f) + (3 - k) <= 5
<1>1. PICK k \in 0..3 : Pruned(k, f) /\ followed[x] + Pending(f) + (3 - k) <= 5
  BY DEF EndsInv
<1>2. f \in Features /\ net[x] = Scored(f) /\ followed[x] \in Nat
  BY RowParts DEF UpgradesInv
<1>3. CASE net'[x] = net[x] /\ followed'[x] = followed[x]
  BY <1>1, <1>3
<1>4. ASSUME Follow(x) PROVE Kept
  <2>1. followed'[x] = followed[x] + 1
    BY <1>4 DEF Follow, UpgradesInv
  <2>2. PICK rec \in advice[x] :
          rec.action # "schedule_inspection" /\ net'[x].f = Obeyed(f, rec)
    BY <2>1, FollowedStep
  <2>3. rec \in Recommend(Scored(f))
    BY <1>2 DEF UpgradesInv, AdviceInv
  <2> HIDE DEF f
  <2>4. PICK j \in 0..3 : /\ Pruned(j, Obeyed(f, rec))
                          /\ Pending(Obeyed(f, rec)) + (3 - j) + 1 <= Pending(f) + (3 - k)
    BY <1>1, <1>2, <2>2, <2>3, UsedUp
  <2>5. followed'[x] + Pending(Obeyed(f, rec)) + (3 - j) <= 5
    <3> DEFINE p == Pending(f)  q == Pending(Obeyed(f, rec))
    <3>1. p \in Int /\ q \in Int
      BY PendingTwo
    <3>2. q + (3 - j) + 1 <= p + (3 - k) /\ followed[x] + p + (3 - k) <= 5
      BY <1>1, <2>4
    <3> HIDE DEF p, q
    <3>3. (followed[x] + 1) + q + (3 - j) <= 5
      BY <1>2, <3>1, <3>2
    <3> QED BY <2>1, <3>3 DEF q
  <2> QED BY <2>2, <2>4, <2>5
<1>5. ASSUME Adjust(x) PROVE Kept
  <2>1. PICK n \in 0..1, trim \in BOOLEAN, factor \in Brightness :
          Persist(x, Project(f, n, trim, factor))
    BY <1>5 DEF Adjust
  <2> DEFINE g == Project(f, n, trim, factor)
  <2>2. net'[x].f = g
    BY <2>1 DEF Persist, UpgradesInv, RowInv, Scored
  <2>3. followed'[x] = 0
    BY <1>5 DEF Adjust, UpgradesInv
  <2> HIDE DEF f
  <2>4. Pruned(0, f) /\ Pruned(0, Trimmed(f))
    BY <1>1, <1>2, PrunedAtAll, TrimmedAtAll
  <2>5. /\ g.trees = IF trim THEN Trimmed(f).trees ELSE f.trees
        /\ g.vegetation = IF trim THEN Trimmed(f).vegetation ELSE f.vegetation
    <3>1. f \in Features /\ n \in Nat /\ factor \in Fraction
      BY <1>2
    <3>2. /\ g.trees = IF trim THEN (f.trees + 1) \div 2 ELSE f.trees
          /\ g.vegetation = IF trim THEN Unit(Times(f.vegetation, Frac(4, 10))) ELSE f.vegetation
      BY <3>1, ProjectFeatures
    <3> HIDE DEF g
    <3> QED BY <3>1, <3>2, TrimmedFields
  <2> HIDE DEF g
  <2>6. Pruned(0, g)
    BY <2>4, <2>5 DEF Pruned
  <2>7. followed'[x] + Pending(g) + (3 - 0) <= 5
    BY <2>3, PendingTwo
  <2> QED BY <2>2, <2>6, <2>7
<1>6. CASE UNCHANGED vars
  BY <1>3, <1>6 DEF vars
<1>7. ASSUME NEW y \in Segments, y # x, Follow(y) \/ Adjust(y) PROVE Kept
  <2>1. net'[x] = net[x] /\ followed'[x] = followed[x]
    BY <1>7 DEF Follow, Adjust, Persist, UpgradesInv, RowInv
  <2> QED BY <2>1, <1>3
<1>8. ASSUME NEW y \in Segments, Ask(y) PROVE Kept
  BY <1>3, <1>8 DEF Ask
<1> QED BY <1>4, <1>5, <1>6, <1>7, <1>8 DEF Next

\* AdviceEnds, outside the panel: whoever follows recommendations has at most one
\* installation, one brightening and three prunings before him.
THEOREM AdviceEndsCorrect ==
  ASSUME ~Panel
  PROVE  Spec => []AdviceEnds
<1>1. UpgradesInv /\ EndsInv => AdviceEnds
  <2> SUFFICES ASSUME UpgradesInv, EndsInv, NEW x \in Segments, Modest(x)
               PROVE  followed[x] <= 5
    BY DEF AdviceEnds, Modest
  <2>1. PICK k \in 0..3 : followed[x] + Pending(net[x].f) + (3 - k) <= 5
    BY DEF EndsInv
  <2>2. followed[x] \in Nat /\ Pending(net[x].f) \in 0..2
    BY PendingTwo DEF UpgradesInv
  <2> QED BY <2>1, <2>2
<1>2. UpgradesInv /\ EndsInv /\ [Next]_vars => EndsInv'
  BY EndsStep
<1> QED BY <1>1, <1>2, EndsInit, UpgradesInvariant, PTL DEF Spec

-----------------------------------------------------------------------------
\* Sums over the segments.

\* The sums of Total, by the order in which it takes the segments.
ChosenOf(T) == CHOOSE x \in T : TRUE
SumsOf(value) ==
  CHOOSE h : h = [T \in SUBSET Segments |->
                    IF T = {} THEN Zero
                    ELSE Plus(value[ChosenOf(T)], h[T \ {ChosenOf(T)}])]

\* The sums of n segments or less, for which the recursion holds.
UpTo(n) == {T \in SUBSET Segments : Cardinality(T) <= n}
SumsUpTo(value, n) ==
  {g \in [UpTo(n) -> Fraction] :
     \A T \in UpTo(n) :
       g[T] = IF T = {} THEN Zero ELSE Plus(value[ChosenOf(T)], g[T \ {ChosenOf(T)}])}

\* A sum is taken of one segment less.
LEMMA SmallerRest ==
  ASSUME NEW T \in SUBSET Segments, T # {}
  PROVE  /\ ChosenOf(T) \in T /\ T \ {ChosenOf(T)} \in SUBSET Segments
         /\ Cardinality(T) \in Nat /\ Cardinality(T) > 0
         /\ Cardinality(T \ {ChosenOf(T)}) = Cardinality(T) - 1
<1>1. ChosenOf(T) \in T
  BY DEF ChosenOf
<1>2. IsFiniteSet(T)
  BY UpgradeAssumption, FS_Subset
<1>3. Cardinality(T) \in Nat /\ Cardinality(T) # 0
  BY <1>2, FS_CardinalityType, FS_EmptySet
<1>4. Cardinality(T \ {ChosenOf(T)}) = Cardinality(T) - 1
  BY <1>1, <1>2, FS_RemoveElement
<1>5. Cardinality(T) > 0
  BY <1>3
<1> QED BY <1>1, <1>3, <1>4, <1>5

\* There are such sums, for every n.
LEMMA SumsExist ==
  ASSUME NEW value \in [Segments -> Fraction]
  PROVE  \A n \in Nat : SumsUpTo(value, n) # {}
<1> DEFINE B == {n \in Nat : SumsUpTo(value, n) = {}}
<1> SUFFICES ASSUME B # {} PROVE FALSE
  OBVIOUS
<1>1. PICK n \in B : \A m \in B : n <= m
  <2> HIDE DEF B
  <2> B \in SUBSET Nat BY DEF B
  <2> QED BY LeastNumber
<1>2. n \in Nat /\ SumsUpTo(value, n) = {}
  OBVIOUS
<1>3. CASE n = 0
  <2> DEFINE h == [T \in UpTo(0) |-> Zero]
  <2>1. \A T \in UpTo(0) : T = {}
    <3> SUFFICES ASSUME NEW T \in UpTo(0), T # {} PROVE FALSE
      OBVIOUS
    <3>1. T \in SUBSET Segments /\ Cardinality(T) <= 0
      BY DEF UpTo
    <3>2. Cardinality(T) \in Nat /\ Cardinality(T) > 0
      BY <3>1, SmallerRest
    <3> QED BY <3>1, <3>2
  <2>2. h \in SumsUpTo(value, 0)
    BY <2>1, ZeroOne DEF SumsUpTo, Amount
  <2> QED BY <1>2, <1>3, <2>2
<1>4. CASE n # 0
  <2>1. n - 1 \in Nat /\ SumsUpTo(value, n - 1) # {}
    BY <1>1, <1>2, <1>4
  <2>2. PICK g : g \in SumsUpTo(value, n - 1)
    BY <2>1
  <2> HIDE DEF B
  <2>3. /\ g \in [UpTo(n - 1) -> Fraction]
        /\ \A T \in UpTo(n - 1) :
             g[T] = IF T = {} THEN Zero ELSE Plus(value[ChosenOf(T)], g[T \ {ChosenOf(T)}])
    BY <2>2 DEF SumsUpTo
  <2> DEFINE e(T) == IF T = {} THEN Zero ELSE Plus(value[ChosenOf(T)], g[T \ {ChosenOf(T)}])
             h == [T \in UpTo(n) |-> e(T)]
  <2>4. \A T \in UpTo(n) : T # {} => T \ {ChosenOf(T)} \in UpTo(n - 1)
    <3> SUFFICES ASSUME NEW T \in UpTo(n), T # {} PROVE T \ {ChosenOf(T)} \in UpTo(n - 1)
      OBVIOUS
    <3>1. T \in SUBSET Segments /\ Cardinality(T) <= n
      BY DEF UpTo
    <3>2. /\ T \ {ChosenOf(T)} \in SUBSET Segments /\ Cardinality(T) \in Nat
          /\ Cardinality(T \ {ChosenOf(T)}) = Cardinality(T) - 1
      BY <3>1, SmallerRest
    <3>3. Cardinality(T \ {ChosenOf(T)}) <= n - 1
      BY <1>2, <3>1, <3>2
    <3> QED BY <3>2, <3>3 DEF UpTo
  <2>5. \A T \in UpTo(n - 1) : T \in UpTo(n) /\ g[T] = e(T)
    <3> SUFFICES ASSUME NEW T \in UpTo(n - 1) PROVE T \in UpTo(n) /\ g[T] = e(T)
      OBVIOUS
    <3>1. T \in SUBSET Segments /\ Cardinality(T) <= n - 1 /\ Cardinality(T) \in Nat
      BY UpgradeAssumption, FS_Subset, FS_CardinalityType DEF UpTo
    <3>2. Cardinality(T) <= n
      BY <1>2, <3>1
    <3> QED BY <2>3, <3>1, <3>2 DEF UpTo
  <2>6. \A T \in UpTo(n) : e(T) \in Fraction
    <3> SUFFICES ASSUME NEW T \in UpTo(n), T # {} PROVE e(T) \in Fraction
      BY ZeroOne DEF Amount
    <3>1. T \in SUBSET Segments
      BY DEF UpTo
    <3>2. value[ChosenOf(T)] \in Fraction
      BY <3>1, SmallerRest
    <3>3. g[T \ {ChosenOf(T)}] \in Fraction
      BY <2>3, <2>4
    <3> QED BY <3>2, <3>3, PlusValue
  <2>7. \A T \in UpTo(n) : h[T] = e(T)
    OBVIOUS
  <2>8. h \in [UpTo(n) -> Fraction]
    <3> HIDE DEF e
    <3> QED BY <2>6
  <2>9. \A T \in UpTo(n) :
          h[T] = IF T = {} THEN Zero ELSE Plus(value[ChosenOf(T)], h[T \ {ChosenOf(T)}])
    <3> SUFFICES ASSUME NEW T \in UpTo(n), T # {}
                 PROVE  e(T) = Plus(value[ChosenOf(T)], h[T \ {ChosenOf(T)}])
      BY <2>7
    <3>1. h[T \ {ChosenOf(T)}] = g[T \ {ChosenOf(T)}]
      <4>1. T \ {ChosenOf(T)} \in UpTo(n - 1)
        BY <2>4
      <4> HIDE DEF e, h
      <4> QED BY <2>5, <2>7, <4>1
    <3> QED BY <3>1
  <2>10. h \in SumsUpTo(value, n)
    <3> HIDE DEF h
    <3> QED BY <2>8, <2>9 DEF SumsUpTo
  <2> QED BY <1>2, <2>10
<1> QED BY <1>3, <1>4

\* The recursion of Total: its function exists.
LEMMA SumsDef ==
  ASSUME NEW value \in [Segments -> Fraction]
  PROVE  /\ Total(value) = SumsOf(value)[Segments]
         /\ \A T \in SUBSET Segments :
              SumsOf(value)[T] = IF T = {} THEN Zero
                                 ELSE Plus(value[ChosenOf(T)], SumsOf(value)[T \ {ChosenOf(T)}])
<1>1. Total(value) = SumsOf(value)[Segments]
  BY DEF Total, MapThenFoldSet, SumsOf, ChosenOf
<1> DEFINE G(h) == [T \in SUBSET Segments |->
                      IF T = {} THEN Zero ELSE Plus(value[ChosenOf(T)], h[T \ {ChosenOf(T)}])]
<1>2. \E h : h = G(h)
  <2> DEFINE n == Cardinality(Segments)
  <2>1. n \in Nat /\ UpTo(n) = SUBSET Segments
    BY UpgradeAssumption, FS_CardinalityType, FS_Subset DEF UpTo
  <2>2. PICK g : g \in SumsUpTo(value, n)
    BY <2>1, SumsExist
  <2> HIDE DEF n
  <2>3. g \in [SUBSET Segments -> Fraction]
    BY <2>1, <2>2 DEF SumsUpTo
  <2>4. \A T \in SUBSET Segments :
          g[T] = IF T = {} THEN Zero ELSE Plus(value[ChosenOf(T)], g[T \ {ChosenOf(T)}])
    BY <2>1, <2>2 DEF SumsUpTo
  <2>5. g = [T \in SUBSET Segments |-> g[T]]
    BY <2>3
  <2>6. g = G(g)
    BY <2>4, <2>5
  <2> QED BY <2>6
<1>3. SumsOf(value) = G(SumsOf(value))
  <2>1. SumsOf(value) = CHOOSE h : h = G(h)
    BY DEF SumsOf
  <2> HIDE DEF G
  <2> QED BY <1>2, <2>1
<1> QED BY <1>1, <1>3

\* A sum of larger values is larger.
LEMMA TotalMonotone ==
  ASSUME NEW u \in [Segments -> Fraction], NEW v \in [Segments -> Fraction],
         \A x \in Segments : Leq(u[x], v[x])
  PROVE  Total(u) \in Fraction /\ Total(v) \in Fraction /\ Leq(Total(u), Total(v))
<1> DEFINE good(T) == /\ SumsOf(u)[T] \in Fraction /\ SumsOf(v)[T] \in Fraction
                      /\ Leq(SumsOf(u)[T], SumsOf(v)[T])
           B == {n \in Nat : \E T \in SUBSET Segments : Cardinality(T) = n /\ ~good(T)}
<1>1. B = {}
  <2> SUFFICES ASSUME B # {} PROVE FALSE
    OBVIOUS
  <2>1. PICK n \in B : \A m \in B : n <= m
    <3> HIDE DEF B
    <3> B \in SUBSET Nat BY DEF B
    <3> QED BY LeastNumber
  <2>2. PICK T \in SUBSET Segments : Cardinality(T) = n /\ ~good(T)
    OBVIOUS
  <2>3. T # {}
    <3>1. Zero \in Fraction /\ Leq(Zero, Zero)
      BY ZeroOne, LeqReflexive DEF Amount
    <3>2. T = {} => SumsOf(u)[T] = Zero /\ SumsOf(v)[T] = Zero
      BY SumsDef
    <3> QED BY <2>2, <3>1, <3>2
  <2> DEFINE c == ChosenOf(T)  R == T \ {c}
  <2>4. /\ c \in Segments /\ R \in SUBSET Segments /\ n \in Nat /\ n > 0
        /\ Cardinality(R) = n - 1
    BY <2>2, <2>3, SmallerRest
  <2>5. good(R)
    <3> HIDE DEF good
    <3>1. n - 1 \in Nat /\ n - 1 \notin B
      BY <2>1, <2>4
    <3> QED BY <2>4, <3>1
  <2>6. /\ SumsOf(u)[T] = Plus(u[c], SumsOf(u)[R])
        /\ SumsOf(v)[T] = Plus(v[c], SumsOf(v)[R])
    BY <2>3, SumsDef
  <2>7. u[c] \in Fraction /\ v[c] \in Fraction /\ Leq(u[c], v[c])
    BY <2>4
  <2> HIDE DEF B, c, R
  <2>8. good(T)
    BY <2>5, <2>6, <2>7, PlusMonotone, PlusValue
  <2> QED BY <2>2, <2>8
<1>2. good(Segments)
  <2>1. Cardinality(Segments) \in Nat /\ Segments \in SUBSET Segments
    BY UpgradeAssumption, FS_CardinalityType
  <2> HIDE DEF good
  <2> QED BY <1>1, <2>1
<1> QED BY <1>2, SumsDef

\* A sum of amounts is an amount.
LEMMA TotalAmount ==
  ASSUME NEW v \in [Segments -> Amount]
  PROVE  Total(v) \in Amount
<1> DEFINE B == {n \in Nat : \E T \in SUBSET Segments : Cardinality(T) = n /\ SumsOf(v)[T] \notin Amount}
<1>0. v \in [Segments -> Fraction]
  BY PositiveAmount
<1>1. B = {}
  <2> SUFFICES ASSUME B # {} PROVE FALSE
    OBVIOUS
  <2>1. PICK n \in B : \A m \in B : n <= m
    <3> HIDE DEF B
    <3> B \in SUBSET Nat BY DEF B
    <3> QED BY LeastNumber
  <2>2. PICK T \in SUBSET Segments : Cardinality(T) = n /\ SumsOf(v)[T] \notin Amount
    OBVIOUS
  <2>3. T # {}
    BY <1>0, <2>2, SumsDef, ZeroOne
  <2> DEFINE c == ChosenOf(T)  R == T \ {c}
  <2>4. /\ c \in Segments /\ R \in SUBSET Segments /\ n \in Nat /\ n > 0
        /\ Cardinality(R) = n - 1
    BY <2>2, <2>3, SmallerRest
  <2>5. SumsOf(v)[R] \in Amount
    <3>1. n - 1 \in Nat /\ n - 1 \notin B
      BY <2>1, <2>4
    <3> QED BY <2>4, <3>1
  <2>6. SumsOf(v)[T] = Plus(v[c], SumsOf(v)[R])
    BY <1>0, <2>3, SumsDef
  <2> QED BY <2>2, <2>4, <2>5, <2>6, PlusAmount
<1>2. Cardinality(Segments) \in Nat /\ Segments \in SUBSET Segments
  BY UpgradeAssumption, FS_CardinalityType
<1>3. SumsOf(v)[Segments] \in Amount
  BY <1>1, <1>2
<1> QED BY <1>0, <1>3, SumsDef

\* An average of larger amounts is larger, after rounding too.
LEMMA AverageMonotone ==
  ASSUME NEW u \in [Segments -> Amount], NEW v \in [Segments -> Amount],
         \A x \in Segments : Leq(u[x], v[x])
  PROVE  Leq(Average(u), Average(v))
<1> DEFINE n == IF Segments = {} THEN 1 ELSE Cardinality(Segments)
<1>1. n \in Int /\ n > 0
  BY UpgradeAssumption, FS_CardinalityType, FS_EmptySet
<1>2. /\ Average(u) = Round(Over(Total(u), Whole(n)), 10)
      /\ Average(v) = Round(Over(Total(v), Whole(n)), 10)
  BY DEF Average
<1> HIDE DEF n
<1>3. Whole(n) \in Positive
  BY <1>1, WholeFraction DEF Positive
<1>4. Total(u) \in Amount /\ Total(v) \in Amount /\ Leq(Total(u), Total(v))
  BY TotalAmount, TotalMonotone, PositiveAmount
<1>5. /\ Over(Total(u), Whole(n)) \in Amount /\ Over(Total(v), Whole(n)) \in Amount
      /\ Leq(Over(Total(u), Whole(n)), Over(Total(v), Whole(n)))
  BY <1>3, <1>4, OverMonotone, OverFraction DEF Positive, Amount
<1> QED BY <1>2, <1>5, RoundMonotone

-----------------------------------------------------------------------------
\* The network simulation.

\* A segment as the network simulation scores it: lamps and road alone.
Bare(n, f) ==
  [lamps |-> n, poles |-> 0, length |-> f.length, road |-> f.road, night |-> f.night,
   width |-> Zero, trees |-> 0, vegetation |-> Zero, building |-> Zero,
   sidewalk |-> Zero, brightness |-> Zero]

\* It has features of its own.
LEMMA BareFields ==
  ASSUME NEW f \in Features, NEW n \in Nat
  PROVE  /\ Bare(n, f) \in Features
         /\ ScoreSegment(n, f.length, f.road, f.night) = ScoreEnv(Bare(n, f))
         /\ Bare(n, f).lamps = n /\ Bare(n, f).poles = 0 /\ Bare(n, f).trees = 0
         /\ Bare(n, f).length = f.length /\ Bare(n, f).road = f.road
         /\ Bare(n, f).night = f.night /\ Bare(n, f).width = Zero
         /\ Bare(n, f).vegetation = Zero /\ Bare(n, f).building = Zero
         /\ Bare(n, f).sidewalk = Zero /\ Bare(n, f).brightness = Zero
<1>1. /\ f.road \in STRING /\ f.length \in Fraction /\ f.night \in Fraction
      /\ Zero \in Fraction /\ 0 \in Nat
  BY ZeroOne DEF Features, Amount
<1> QED BY <1>1 DEF Bare, Features, ScoreSegment

\* Nothing blocks its light.
LEMMA BareOcclusion ==
  ASSUME NEW f \in Features, NEW n \in Nat
  PROVE  Leq(Occlusion(Bare(n, f)), Zero)
<1> DEFINE u == Unit(Frac(0, 8))
           v == Weighted(55, Unit(Zero), 25, u, 20, Unit(Zero))
           w == Weighted(55, Zero, 25, Zero, 20, Zero)
<1>1. Value(Zero, 0, 1) /\ Value(Whole(100), 100, 1) /\ Value(Frac(0, 8), 0, 8)
  BY ValueFrac DEF Zero
<1>2. Zero \in Amount /\ Frac(0, 8) \in Fraction /\ Leq(Frac(0, 8), Zero) /\ Leq(Zero, Zero)
  <2>1. Leq(Frac(0, 8), Zero) /\ Leq(Zero, Zero)
    BY <1>1, ValueLeq
  <2> QED BY <1>1, <2>1, ZeroOne DEF Value
<1>3. Leq(Unit(Zero), Zero) /\ Leq(u, Zero)
  BY <1>2, ZeroOne, UnitBelow DEF Amount
<1>4. Unit(Zero) \in Amount /\ u \in Amount
  BY <1>2, UnitFraction, PositiveAmount
<1>5. Leq(v, w) /\ v \in Amount /\ w \in Amount
  <2> HIDE DEF u
  <2> QED BY <1>2, <1>3, <1>4, WeightedMonotone, WeightedAmount
<1>6. Value(w, 0, 1)
  <2>1. /\ Value(Frac(55, 100), 55, 100) /\ Value(Frac(25, 100), 25, 100)
        /\ Value(Frac(20, 100), 20, 100)
    BY ValueFrac
  <2>2. /\ Value(Times(Frac(55, 100), Zero), 0, 100)
        /\ Value(Times(Frac(25, 100), Zero), 0, 100)
        /\ Value(Times(Frac(20, 100), Zero), 0, 100)
    BY <1>1, <2>1, ValueTimes
  <2>3. Value(Plus(Times(Frac(55, 100), Zero), Times(Frac(25, 100), Zero)), 0, 10000)
    BY <2>2, ValuePlus
  <2>4. Value(w, 0, 1000000)
    BY <2>2, <2>3, ValuePlus DEF Weighted
  <2> QED BY <2>4, ValueLowest
<1>7. Occlusion(Bare(n, f)) = Times(Unit(v), Whole(100))
  BY BareFields DEF Occlusion
<1> HIDE DEF v, w, u
<1>8. w = Zero
  BY <1>1, <1>5, <1>6, ValueLeq, LeqAntisymmetric, PositiveAmount DEF Value
<1>9. Leq(Unit(v), Zero) /\ Unit(v) \in Amount
  BY <1>2, <1>5, <1>8, ZeroOne, UnitBelow, UnitFraction, PositiveAmount
<1>10. Leq(Times(Unit(v), Whole(100)), Times(Zero, Whole(100)))
  BY <1>2, <1>9, HundredTimesMonotone
<1>11. Value(Times(Zero, Whole(100)), 0, 1)
  BY <1>1, ValueTimes
<1>12. Leq(Times(Zero, Whole(100)), Zero)
  BY <1>1, <1>11, ValueLeq
<1>13. Times(Unit(v), Whole(100)) \in Fraction
  BY <1>9, ZeroOne, TimesAmount, PositiveAmount
<1> QED BY <1>1, <1>7, <1>10, <1>11, <1>12, <1>13, LeqTransitive DEF Value

\* Where two fifths of the recommended lamps stand, they light it to 36.4 of 100 or more.
LEMMA BareSufficiency ==
  ASSUME NEW f \in Features, NEW n \in Nat, NEW a \in Amount, Leq(a, One), Leq(Frac(2, 5), a)
  PROVE  Leq(Frac(182, 5), Sufficiency(Bare(n, f), a))
<1> DEFINE g == Bare(n, f)  t == Frac(2, 5)  base == RoadWidthFor(f.road)
<1>1. /\ Value(t, 2, 5) /\ Value(One, 1, 1) /\ Value(Whole(100), 100, 1)
      /\ Value(Frac(7, 10), 7, 10) /\ Value(Frac(18, 10), 18, 10)
      /\ Value(Frac(15, 100), 15, 100)
      /\ Value(Frac(182, 5), 182, 5)
  BY ValueFrac DEF One
<1>2. t \in Amount /\ t \in Fraction /\ Leq(t, One) /\ g \in Features
  <2>1. Leq(t, One)
    BY <1>1, ValueLeq
  <2>2. t \in Amount /\ t \in Fraction
    BY <1>1, ValueAmount, PositiveAmount
  <2> QED BY <2>1, <2>2, BareFields
<1>3. Value(DemandOf(g), 1, 1)
  <2> DEFINE x == Over(base, base)
  <2>1. base \in Positive /\ Leq(Zero, Zero)
    BY RoadValues, ZeroOne, LeqReflexive DEF Amount
  <2>2. OrElse(g.width, RoadWidthFor(g.road)) = base /\ RoadWidthFor(g.road) = base
    BY <2>1, BareFields DEF OrElse
  <2>3. DemandOf(g) = Clamp(x, Frac(7, 10), Frac(18, 10))
    BY <2>2 DEF DemandOf
  <2> DEFINE bn == base[1]  bd == base[2]
  <2>4. Value(base, bn, bd) /\ bn \in Int /\ bd \in Int /\ bn > 0
    BY <2>1, ValueOwn, FractionParts DEF Positive
  <2> HIDE DEF base, bn, bd
  <2>5. bn * bd \in Int /\ bd * bn \in Int /\ (bn * bd) * 1 = 1 * (bd * bn)
    BY <2>4
  <2>6. Value(x, bn * bd, bd * bn)
    BY <2>4, <2>5, ValueOver
  <2>7. Value(x, 1, 1)
    BY <2>5, <2>6, ValueLowest
  <2> HIDE DEF x
  <2>8. Leq(Frac(7, 10), x) /\ Leq(x, Frac(18, 10))
    BY <1>1, <2>7, ValueLeq
  <2> QED BY <2>3, <2>7, <2>8 DEF Clamp, Less
<1>4. Leq(t, EffectiveOf(g, t))
  <2>1. Value(Over(t, DemandOf(g)), 2, 5)
    BY <1>1, <1>3, ValueOver
  <2>2. Leq(t, Over(t, DemandOf(g))) /\ Over(t, DemandOf(g)) \in Fraction
    BY <1>1, <2>1, ValueLeq DEF Value
  <2> HIDE DEF t
  <2> QED BY <1>2, <2>2, ClampAbove, ZeroOne DEF EffectiveOf, Unit, Amount
<1> DEFINE s == Times(Frac(15, 100), Unit(f.night))
           most == Times(Times(Frac(15, 100), One), Minus(One, t))
<1>5. Leq(Minus(One, most), NightOf(g, t)) /\ Value(Minus(One, most), 455, 500)
  <2>1. Value(Minus(One, t), 3, 5)
    BY <1>1, ValueMinus
  <2>2. Value(Times(Frac(15, 100), One), 15, 100)
    BY <1>1, ValueTimes
  <2>3. Value(most, 45, 500)
    BY <2>1, <2>2, ValueTimes
  <2>4. Value(Minus(One, most), 455, 500)
    BY <1>1, <2>3, ValueMinus
  <2>5. /\ Unit(f.night) \in Amount /\ Leq(Unit(f.night), One) /\ Frac(15, 100) \in Amount
        /\ One \in Amount
    BY FeatureTypes, UnitFraction, FracAmount, ZeroOne
  <2>6. Leq(s, Times(Frac(15, 100), One)) /\ s \in Amount
    BY <2>5, TimesMonotone, TimesAmount, LeqReflexive DEF Amount
  <2>7. Minus(One, t) \in Amount /\ Times(Frac(15, 100), One) \in Amount
    BY <2>1, <2>5, ValueAmount, TimesAmount
  <2> HIDE DEF s, t
  <2>8. Leq(Times(s, Minus(One, t)), most) /\ Times(s, Minus(One, t)) \in Amount
    BY <2>6, <2>7, TimesMonotone, TimesAmount, LeqReflexive DEF Amount
  <2>9. Leq(Minus(One, most), Minus(One, Times(s, Minus(One, t))))
    BY <2>3, <2>5, <2>8, MinusAntitone, LeqReflexive DEF Amount, Value
  <2>10. NightOf(g, t) = Minus(One, Times(s, Minus(One, t)))
    BY BareFields DEF NightOf, s
  <2> QED BY <2>4, <2>9, <2>10
<1> DEFINE low == Times(Times(t, Whole(100)), Minus(One, most))
           all == Times(Times(EffectiveOf(g, t), Whole(100)), NightOf(g, t))
<1>6. Value(low, 182, 5)
  <2>1. Value(Times(t, Whole(100)), 200, 5)
    BY <1>1, ValueTimes
  <2>2. Value(low, 91000, 2500)
    BY <1>5, <2>1, ValueTimes
  <2> QED BY <2>2, ValueLowest
<1>7. Leq(low, all) /\ all \in Fraction
  <2>1. Minus(One, most) \in Amount /\ NightOf(g, t) \in Amount /\ EffectiveOf(g, t) \in Amount
    BY <1>2, <1>5, ValueAmount, NightAmount, SufficiencyParts
  <2>2. Leq(Times(t, Whole(100)), Times(EffectiveOf(g, t), Whole(100)))
    BY <1>2, <1>4, <2>1, HundredTimesMonotone
  <2>3. Times(t, Whole(100)) \in Amount /\ Times(EffectiveOf(g, t), Whole(100)) \in Amount
    BY <1>2, <2>1, ZeroOne, TimesAmount
  <2> HIDE DEF t, g, most
  <2> QED BY <1>5, <2>1, <2>2, <2>3, TimesMonotone, TimesAmount DEF Amount
<1>8. Leq(low, Percent(all))
  <2>1. Leq(low, Whole(100)) /\ low \in Fraction
    BY <1>1, <1>6, ValueLeq DEF Value
  <2> HIDE DEF low, all
  <2> QED BY <1>7, <2>1, ClampAbove, ZeroOne DEF Percent, Amount
<1>9. Sufficiency(g, t) = Percent(all) /\ Sufficiency(g, t) \in Fraction
  BY <1>2, SufficiencyParts, PositiveAmount
<1>10. Leq(Sufficiency(g, t), Sufficiency(g, a)) /\ Sufficiency(g, a) \in Fraction
  <2> HIDE DEF g
  <2> QED BY <1>2, SufficiencyMonotone, SufficiencyParts, PositiveAmount
<1> HIDE DEF t, low, all, g
<1>11. Leq(Frac(182, 5), low) /\ low \in Fraction /\ Frac(182, 5) \in Fraction
  BY <1>1, <1>6, ValueLeq DEF Value
<1>12. Leq(low, Sufficiency(g, a))
  BY <1>8, <1>9, <1>10, <1>11, LeqTransitive
<1>13. Leq(Frac(182, 5), Sufficiency(g, a))
  BY <1>10, <1>11, <1>12, LeqTransitive
<1> QED BY <1>13 DEF g

\* Their infrastructure is 22 of 100 or more.
LEMMA BareInfrastructure ==
  ASSUME NEW f \in Features, NEW n \in Nat, NEW a \in Amount, Leq(Frac(2, 5), a),
         NEW length \in Positive
  PROVE  Leq(Whole(22), Infrastructure(Bare(n, f), length, a))
<1> DEFINE g == Bare(n, f)  t == Frac(2, 5)
           low == Weighted(55, t, 25, Zero, 20, Zero)
           all == Weighted(55, a, 25, Unit(g.sidewalk), 20, SupportOf(g, length))
<1>1. /\ Value(t, 2, 5) /\ Value(Zero, 0, 1) /\ Value(Frac(55, 100), 55, 100)
      /\ Value(Frac(25, 100), 25, 100) /\ Value(Frac(20, 100), 20, 100)
      /\ Value(One, 1, 1) /\ Value(Whole(100), 100, 1) /\ Value(Whole(22), 22, 1)
  BY ValueFrac DEF Zero, One
<1>2. Value(low, 11, 50)
  <2>1. /\ Value(Times(Frac(55, 100), t), 110, 500)
        /\ Value(Times(Frac(25, 100), Zero), 0, 100)
        /\ Value(Times(Frac(20, 100), Zero), 0, 100)
    BY <1>1, ValueTimes
  <2>2. Value(Plus(Times(Frac(55, 100), t), Times(Frac(25, 100), Zero)), 11000, 50000)
    BY <2>1, ValuePlus
  <2>3. Value(Plus(Times(Frac(55, 100), t), Times(Frac(25, 100), Zero)), 11, 50)
    BY <2>2, ValueLowest
  <2>4. Value(low, 1100, 5000)
    BY <2>1, <2>3, ValuePlus DEF Weighted
  <2> QED BY <2>4, ValueLowest
<1>3. g \in Features /\ t \in Amount /\ Zero \in Amount
  BY <1>1, BareFields, ValueAmount, ZeroOne
<1>4. Leq(low, all) /\ low \in Amount /\ all \in Amount
  <2>1. Unit(g.sidewalk) \in Amount /\ SupportOf(g, length) \in Amount
    BY <1>3, FeatureTypes, UnitFraction, SupportAmount
  <2>2. Leq(Zero, Unit(g.sidewalk)) /\ Leq(Zero, SupportOf(g, length))
    BY <2>1, LeqZero, PositiveAmount
  <2>3. Leq(t, a)
    OBVIOUS
  <2> HIDE DEF t, g
  <2>4. low \in Amount /\ all \in Amount
    BY <1>3, <2>1, WeightedAmount
  <2>5. Leq(low, all)
    BY <1>3, <2>1, <2>2, <2>3, WeightedMonotone
  <2> QED BY <2>4, <2>5
<1>5. Infrastructure(g, length, a) = Times(Unit(all), Whole(100))
  BY <1>3, InfrastructureParts
<1> HIDE DEF low, all, g
<1>6. Leq(low, Unit(all)) /\ Unit(all) \in Amount
  <2>1. Leq(low, One)
    BY <1>1, <1>2, ValueLeq
  <2> QED BY <1>4, <2>1, ClampAbove, UnitFraction, ZeroOne DEF Unit, Amount
<1>7. Leq(Times(low, Whole(100)), Times(Unit(all), Whole(100)))
  BY <1>4, <1>6, HundredTimesMonotone
<1>8. Value(Times(low, Whole(100)), 1100, 50)
  BY <1>1, <1>2, ValueTimes
<1>9. Leq(Whole(22), Times(low, Whole(100)))
  BY <1>1, <1>8, ValueLeq
<1>10. Times(Unit(all), Whole(100)) \in Fraction
  BY <1>6, ZeroOne, TimesAmount, PositiveAmount
<1>11. Leq(Whole(22), Times(Unit(all), Whole(100)))
  BY <1>1, <1>7, <1>8, <1>9, <1>10, LeqTransitive DEF Value
<1> QED BY <1>5, <1>11 DEF g

\* It scores 50 or more.
LEMMA BareOverall ==
  ASSUME NEW f \in Features, NEW n \in Nat, Leq(Frac(2, 5), AdequacyOf(Bare(n, f)))
  PROVE  Leq(Whole(50), Overall(Bare(n, f)))
<1> DEFINE g == Bare(n, f)
           l == Sufficiency(g, AdequacyOf(g))  o == Minus(Whole(100), Occlusion(g))
           i == Infrastructure(g, LengthOf(g), AdequacyOf(g))
           low == Weighted(50, Frac(182, 5), 30, Whole(100), 20, Whole(22))
           all == Weighted(50, l, 30, o, 20, i)
<1>1. /\ Value(Frac(182, 5), 182, 5) /\ Value(Whole(100), 100, 1) /\ Value(Whole(22), 22, 1)
      /\ Value(Frac(50, 100), 50, 100) /\ Value(Frac(30, 100), 30, 100)
      /\ Value(Frac(20, 100), 20, 100) /\ Value(Whole(50), 50, 1) /\ Value(Zero, 0, 1)
  BY ValueFrac DEF Zero
<1>2. Value(low, 1315, 25)
  <2>1. /\ Value(Times(Frac(50, 100), Frac(182, 5)), 9100, 500)
        /\ Value(Times(Frac(30, 100), Whole(100)), 3000, 100)
        /\ Value(Times(Frac(20, 100), Whole(22)), 440, 100)
    BY <1>1, ValueTimes
  <2>2. /\ Value(Times(Frac(50, 100), Frac(182, 5)), 91, 5)
        /\ Value(Times(Frac(30, 100), Whole(100)), 30, 1)
        /\ Value(Times(Frac(20, 100), Whole(22)), 22, 5)
    BY <2>1, ValueLowest
  <2>3. Value(Plus(Times(Frac(50, 100), Frac(182, 5)), Times(Frac(30, 100), Whole(100))), 241, 5)
    BY <2>2, ValuePlus
  <2> QED BY <2>2, <2>3, ValuePlus DEF Weighted
<1>3. /\ g \in Features /\ AdequacyOf(g) \in Amount
      /\ Leq(AdequacyOf(g), One) /\ LengthOf(g) \in Positive
  BY BareFields, AdequacyUnit, DensityAmount
<1>4. l \in Amount /\ o \in Amount /\ i \in Amount /\ Occlusion(g) \in Amount
  BY <1>3, OverallAmount
<1>5. Leq(Frac(182, 5), l) /\ Leq(Whole(22), i)
  BY <1>3, BareSufficiency, BareInfrastructure
<1>6. Leq(Whole(100), o)
  <2>1. Leq(Minus(Whole(100), Zero), o)
    <3>1. Leq(Whole(100), Whole(100)) /\ Leq(Occlusion(g), Zero)
      BY LeqReflexive, ZeroOne, BareOcclusion, PositiveAmount
    <3> HIDE DEF g
    <3> QED BY <1>4, <3>1, MinusAntitone, ZeroOne, PositiveAmount
  <2>2. Value(Minus(Whole(100), Zero), 100, 1)
    BY <1>1, ValueMinus
  <2>3. Leq(Whole(100), Minus(Whole(100), Zero))
    BY <1>1, <2>2, ValueLeq
  <2> HIDE DEF o
  <2> QED BY <1>1, <1>4, <2>1, <2>2, <2>3, LeqTransitive, PositiveAmount DEF Value
<1>7. Overall(g) = Percent(all)
  BY DEF Overall, OverallOf
<1> HIDE DEF l, o, i, g
<1>8. Leq(low, all) /\ all \in Fraction /\ low \in Fraction
  <2>1. Frac(182, 5) \in Amount /\ Whole(100) \in Amount /\ Whole(22) \in Amount
    BY <1>1, ValueAmount
  <2>2. Leq(low, all)
    BY <1>4, <1>5, <1>6, <2>1, WeightedMonotone, ZenonT(30)
  <2>3. all \in Fraction
    BY <1>4, WeightedAmount, PositiveAmount
  <2> QED BY <1>2, <2>2, <2>3 DEF Value
<1> HIDE DEF low, all
<1>9. Leq(Whole(50), low) /\ Leq(Whole(50), Whole(100)) /\ Whole(50) \in Fraction
  <2>1. Leq(Whole(50), low) /\ Leq(Whole(50), Whole(100))
    BY <1>1, <1>2, ValueLeq
  <2> QED BY <1>1, <2>1 DEF Value
<1>10. Leq(Whole(50), all)
  BY <1>8, <1>9, LeqTransitive
<1>11. Leq(Whole(50), Percent(all))
  BY <1>8, <1>9, <1>10, ClampAbove, ZeroOne, PositiveAmount DEF Percent
<1> QED BY <1>7, <1>11 DEF g

\* The risk that is simulated for it is 50 or less.
LEMMA BareRisk ==
  ASSUME NEW f \in Features, NEW n \in Nat, Leq(Frac(2, 5), AdequacyOf(Bare(n, f)))
  PROVE  Leq(ScoreSegment(n, f.length, f.road, f.night).risk, Frac(500, 10))
<1> DEFINE g == Bare(n, f)
<1>1. g \in Features /\ ScoreSegment(n, f.length, f.road, f.night) = ScoreEnv(g)
  BY BareFields
<1>2. Leq(Whole(50), Overall(g))
  BY BareOverall
<1> HIDE DEF g
<1>3. /\ Value(Whole(100), 100, 1) /\ Value(Whole(50), 50, 1) /\ Value(Frac(500, 10), 500, 10)
      /\ Value(Zero, 0, 1)
  BY ValueFrac DEF Zero
<1>4. Value(Minus(Whole(100), Whole(50)), 50, 1)
  BY <1>3, ValueMinus
<1>5. Leq(Minus(Whole(100), Whole(50)), Frac(500, 10)) /\ Leq(Zero, Frac(500, 10))
  BY <1>3, <1>4, ValueLeq
<1>6. /\ Overall(g) \in Fraction
      /\ Minus(Whole(100), Overall(g)) \in Fraction /\ RiskOf(g) \in Amount
  BY <1>1, OverallAmount, PositiveAmount
<1>7. Leq(Minus(Whole(100), Overall(g)), Minus(Whole(100), Whole(50)))
  BY <1>2, <1>3, <1>6, MinusAntitone, LeqReflexive DEF Value
<1>8. Leq(Minus(Whole(100), Overall(g)), Frac(500, 10))
  BY <1>3, <1>4, <1>5, <1>6, <1>7, LeqTransitive DEF Value
<1>9. Leq(RiskOf(g), Frac(500, 10))
  BY <1>3, <1>5, <1>6, <1>8, ClampBelow, ZeroOne, PositiveAmount DEF RiskOf, Percent, Value
<1>10. Leq(Round(RiskOf(g), 10), Frac(500, 10))
  BY <1>6, <1>9, RoundBounds
<1> QED BY <1>1, <1>10, ScoreParts

\* The risk that is stored with a high or critical level is 50 or more.
LEMMA StoredRisk ==
  ASSUME NEW f \in Features, ScoreEnv(f).level \in {"critical", "high"}
  PROVE  Leq(Frac(500, 10), ScoreEnv(f).risk)
<1>1. RiskOf(f) \in Amount /\ RiskOf(f) \in Fraction
  BY OverallAmount, PositiveAmount
<1>2. /\ Value(Whole(75), 75, 1) /\ Value(Whole(50), 50, 1) /\ Value(Frac(500, 10), 500, 10)
  BY ValueFrac
<1>3. Leq(Whole(50), Whole(75)) /\ Leq(Frac(500, 10), Whole(50))
  BY <1>2, ValueLeq
<1>4. Leq(Whole(75), RiskOf(f)) \/ Leq(Whole(50), RiskOf(f))
  BY ScoreParts DEF RiskLevelFor
<1>5. Leq(Frac(500, 10), RiskOf(f))
  BY <1>1, <1>2, <1>3, <1>4, LeqTransitive DEF Value
<1>6. Leq(Frac(500, 10), Round(RiskOf(f), 10))
  BY <1>1, <1>5, RoundBounds
<1> QED BY <1>6, ScoreParts

\* What a policy asks for, with its defaults.
LEMMA NormalizedPolicy ==
  ASSUME NEW policy \in Policies
  PROVE  /\ Normalize(policy).target \in Positive /\ Leq(Normalize(policy).target, One)
         /\ Normalize(policy).dimming \in Fraction
<1>1. policy.target \in Fraction /\ policy.dimming \in Fraction
  BY DEF Policies
<1>2. /\ Normalize(policy).dimming = policy.dimming
      /\ Normalize(policy).target
           = IF Leq(policy.target, Zero) THEN Frac(8, 10)
             ELSE IF Less(One, policy.target) THEN One ELSE policy.target
  BY DEF Policies, Normalize
<1>3. Value(Frac(8, 10), 8, 10) /\ Value(One, 1, 1)
  BY ValueFrac DEF One
<1>4. Frac(8, 10) \in Positive /\ Leq(Frac(8, 10), One) /\ One \in Positive /\ Leq(One, One)
  BY <1>3, ValueLeq, ValueAmount
<1>5. ~Leq(policy.target, Zero) => policy.target \in Positive
  BY <1>1, OrElsePositive, Hundred DEF OrElse
<1> QED BY <1>1, <1>2, <1>4, <1>5 DEF Less

\* The fixtures a policy leaves a segment with.
LEMMA Proposed ==
  ASSUME NEW f \in Features, NEW p, p.target \in Fraction
  PROVE  /\ ProposedFixtures(Scored(f), p) \in Nat
         /\ f.lamps <= ProposedFixtures(Scored(f), p)
         /\ Targeted(Scored(f), p) =>
              FixturesFor(p.target, f) <= ProposedFixtures(Scored(f), p)
<1>1. f.lamps \in Nat /\ FixturesFor(p.target, f) \in Int /\ Scored(f).f = f
  BY FeatureTypes, FixturesInt DEF Scored
<1> QED BY <1>1 DEF ProposedFixtures

\* The simulation reports no segment with a higher risk than is stored, although it
\* scores upgraded segments without their surroundings.
LEMMA ProposedRiskLower ==
  ASSUME NEW f \in Features, NEW policy \in Policies, RiskPolicy(Normalize(policy)),
         Targeted(Scored(f), Normalize(policy)) => Less(Zero, f.length)
  PROVE  /\ ProposedRisk(Scored(f), Normalize(policy)) \in Amount
         /\ Leq(ProposedRisk(Scored(f), Normalize(policy)), Scored(f).s.risk)
<1> DEFINE row == Scored(f)  p == Normalize(policy)
<1>1. row.f = f /\ row.s = ScoreEnv(f) /\ row.s.risk \in Amount
  BY ScoreTypes DEF Scored
<1>2. CASE ~Targeted(row, p)
  BY <1>1, <1>2, LeqReflexive, PositiveAmount DEF ProposedRisk
<1>3. CASE Targeted(row, p)
  <2> DEFINE n == ProposedFixtures(row, p)  g == Bare(n, f)
  <2>1. p.target \in Positive /\ p.target \in Fraction /\ Leq(p.target, One)
    BY NormalizedPolicy, PositiveAmount
  <2>2. n \in Nat /\ FixturesFor(p.target, f) <= n
    BY <1>3, <2>1, Proposed
  <2>3. ScoreEnv(f).level \in {"critical", "high"} /\ Leq(Frac(2, 5), p.target)
    BY <1>1, <1>3 DEF Targeted, RiskPolicy
  <2>4. ProposedRisk(row, p) = ScoreSegment(n, f.length, f.road, f.night).risk
    BY <1>1, <1>3 DEF ProposedRisk
  <2> HIDE DEF n, p, row
  <2>5. /\ g \in Features /\ g.length = f.length /\ g.road = f.road /\ g.lamps = n
        /\ g.brightness = Zero /\ ScoreSegment(n, f.length, f.road, f.night) = ScoreEnv(g)
    BY <2>2, BareFields
  <2>6. Less(Zero, f.length)
    BY <1>3 DEF row, p
  <2> HIDE DEF g
  <2>7. OrElse(g.brightness, One) = One /\ Leq(One, One)
    BY <2>5, ZeroOne, LeqReflexive, PositiveAmount DEF OrElse
  <2>8. FixturesFor(p.target, g) <= g.lamps
    BY <2>2, <2>5 DEF FixturesFor
  <2>9. Leq(p.target, AdequacyOf(g)) /\ AdequacyOf(g) \in Fraction
    BY <2>1, <2>5, <2>6, <2>7, <2>8, FixturesEnough, AdequacyUnit, PositiveAmount
  <2>10. Leq(Frac(2, 5), AdequacyOf(g))
    <3>1. Frac(2, 5) \in Fraction
      BY FracValue
    <3> QED BY <2>1, <2>3, <2>9, <3>1, LeqTransitive
  <2>11. /\ Leq(ScoreSegment(n, f.length, f.road, f.night).risk, Frac(500, 10))
         /\ Leq(Frac(500, 10), ScoreEnv(f).risk)
    BY <2>2, <2>3, <2>10, BareRisk, StoredRisk DEF g
  <2>12. /\ ScoreEnv(g).risk \in Amount /\ Frac(500, 10) \in Fraction
         /\ ScoreEnv(f).risk \in Fraction
    BY <2>5, ScoreTypes, FracValue, PositiveAmount
  <2>13. Leq(ScoreEnv(g).risk, ScoreEnv(f).risk)
    BY <2>5, <2>11, <2>12, LeqTransitive, PositiveAmount
  <2> QED BY <1>1, <2>4, <2>5, <2>12, <2>13 DEF p, row
<1> QED BY <1>2, <1>3

\* The energy of a segment grows with its fixtures alone, and falls with dimming alone.
LEMMA ProposedEnergyBounds ==
  ASSUME NEW f \in Features, NEW policy \in Policies
  PROVE  /\ Whole(f.lamps) \in Fraction
         /\ ProposedEnergy(Scored(f), Normalize(policy)) \in Fraction
         /\ ~Dimmed(Scored(f), Normalize(policy)) =>
              Leq(Whole(f.lamps), ProposedEnergy(Scored(f), Normalize(policy)))
         /\ ProposedFixtures(Scored(f), Normalize(policy)) <= f.lamps =>
              Leq(ProposedEnergy(Scored(f), Normalize(policy)), Whole(f.lamps))
<1> DEFINE row == Scored(f)  p == Normalize(policy)  k == f.lamps
           n == ProposedFixtures(row, p)  dim == Times(p.dimming, Frac(1, 200))
           factor == IF Dimmed(row, p) THEN Minus(One, dim) ELSE One
<1>1. p.dimming \in Fraction /\ p.target \in Fraction
  BY NormalizedPolicy, PositiveAmount
<1>2. n \in Nat /\ k \in Nat /\ k <= n
  BY <1>1, Proposed, FeatureTypes
<1>3. ProposedEnergy(row, p) = Times(Whole(n), factor)
  BY DEF ProposedEnergy
<1>4. Value(One, 1, 1) /\ One \in Fraction /\ Leq(One, One) /\ Frac(1, 200) \in Amount
  BY ValueFrac, LeqReflexive, FracAmount DEF One, Value
<1>5. factor \in Fraction /\ Leq(factor, One)
  <2>1. CASE ~Dimmed(row, p)
    BY <1>4, <2>1
  <2>2. CASE Dimmed(row, p)
    <3>1. Less(Zero, p.dimming)
      BY <2>2 DEF Dimmed
    <3>2. p.dimming \in Amount
      <4>1. Leq(Zero, p.dimming)
        BY <1>1, <3>1, LeqTotal, ZeroOne, PositiveAmount DEF Less
      <4> QED BY <1>1, <4>1, LeqZero
    <3>3. dim \in Amount
      BY <1>4, <3>2, TimesAmount
    <3> HIDE DEF dim
    <3>4. Leq(Zero, dim) /\ dim \in Fraction /\ Zero \in Fraction
      BY <3>3, LeqZero, ZeroOne, PositiveAmount
    <3>5. Leq(Minus(One, dim), Minus(One, Zero)) /\ Minus(One, dim) \in Fraction
      BY <1>4, <3>4, MinusAntitone, MinusFraction
    <3>6. Value(Zero, 0, 1)
      BY ValueFrac DEF Zero
    <3>7. Value(Minus(One, Zero), 1, 1)
      BY <1>4, <3>6, ValueMinus
    <3>8. Leq(Minus(One, Zero), One) /\ Minus(One, Zero) \in Fraction
      BY <1>4, <3>7, ValueLeq DEF Value
    <3> QED BY <1>4, <2>2, <3>5, <3>8, LeqTransitive
  <2> QED BY <2>1, <2>2
<1>6. ~Dimmed(row, p) => factor = One
  OBVIOUS
<1> HIDE DEF row, p, k, n, factor
<1> DEFINE a == factor[1]  b == factor[2]
<1>7. Value(factor, a, b) /\ a \in Int /\ b \in Int /\ b > 0
  BY <1>5, ValueOwn, FractionParts
<1> HIDE DEF a, b
<1>8. a <= b /\ (factor = One => a = b)
  <2>1. a * 1 <= 1 * b
    BY <1>4, <1>5, <1>7, ValueLeq
  <2>2. factor = One => 1 * b <= a * 1
    BY <1>4, <1>5, <1>7, ValueLeq
  <2> QED BY <1>7, <2>1, <2>2
<1>9. Value(Whole(n), n, 1) /\ Value(Whole(k), k, 1)
  BY <1>2, ValueFrac
<1>10. Value(Times(Whole(n), factor), n * a, b) /\ n * a \in Int
  <2>1. n * a \in Int /\ b = 1 * b
    BY <1>2, <1>7
  <2> QED BY <1>2, <1>7, <1>9, <2>1, ValueTimes
<1>11. ASSUME factor = One PROVE Leq(Whole(k), Times(Whole(n), factor))
  <2>1. a = b
    BY <1>8, <1>11
  <2>2. k * b <= (n * a) * 1
    BY <1>2, <1>7, <2>1
  <2> QED BY <1>2, <1>7, <1>9, <1>10, <2>2, ValueLeq
<1>12. ASSUME n <= k PROVE Leq(Times(Whole(n), factor), Whole(k))
  <2>1. n = k
    BY <1>2, <1>12
  <2>2. (n * a) * 1 <= k * b
    BY <1>2, <1>7, <1>8, <2>1
  <2> QED BY <1>2, <1>7, <1>9, <1>10, <2>2, ValueLeq
<1>13. Whole(k) \in Fraction /\ Times(Whole(n), factor) \in Fraction
  BY <1>9, <1>10 DEF Value
<1> QED BY <1>3, <1>6, <1>11, <1>12, <1>13 DEF row, p, k, n

\* UpgradesReduceRisk: a policy that upgrades high and critical segments to two fifths or
\* more never raises the reported risk; energy is saved by dimming alone, and costed by
\* upgrades alone.
THEOREM UpgradesReduceRiskCorrect == Spec => []UpgradesReduceRisk
<1>1. ASSUME UpgradesInv, NEW policy \in Scenarios
      PROVE  /\ RiskPolicy(Normalize(policy))
                /\ (\A x \in Segments : Targeted(net[x], Normalize(policy)) => Less(Zero, net[x].f.length))
                => Leq(Simulate(policy).proposedRisk, Simulate(policy).baselineRisk)
             /\ Simulate(policy).dimmed = {} =>
                  Leq(Simulate(policy).baselineEnergy, Simulate(policy).proposedEnergy)
             /\ Simulate(policy).upgraded = {} =>
                  Leq(Simulate(policy).proposedEnergy, Simulate(policy).baselineEnergy)
  <2> DEFINE p == Normalize(policy)
             stored == [x \in Segments |-> net[x].s.risk]
             proposed == [x \in Segments |-> ProposedRisk(net[x], p)]
             lamps == [x \in Segments |-> Whole(net[x].f.lamps)]
             energy == [x \in Segments |-> ProposedEnergy(net[x], p)]
  <2>1. /\ Simulate(policy).proposedRisk = Average(proposed)
        /\ Simulate(policy).baselineRisk = Average(stored)
        /\ Simulate(policy).baselineEnergy = Total(lamps)
        /\ Simulate(policy).proposedEnergy = Total(energy)
        /\ Simulate(policy).dimmed = {x \in Segments : Dimmed(net[x], p)}
        /\ Simulate(policy).upgraded
             = {x \in Segments : ProposedFixtures(net[x], p) > net[x].f.lamps}
    BY DEF Simulate
  <2>2. policy \in Policies
    BY UpgradeAssumption
  <2>3. \A x \in Segments : /\ net[x].f \in Features /\ net[x] = Scored(net[x].f)
                           /\ net[x].s = ScoreEnv(net[x].f)
    BY <1>1, RowParts DEF UpgradesInv
  <2>4. ASSUME RiskPolicy(p), \A x \in Segments : Targeted(net[x], p) => Less(Zero, net[x].f.length)
        PROVE  Leq(Average(proposed), Average(stored))
    <3>1. \A x \in Segments : /\ ProposedRisk(net[x], p) \in Amount /\ net[x].s.risk \in Amount
                             /\ Leq(ProposedRisk(net[x], p), net[x].s.risk)
      BY <2>2, <2>3, <2>4, ProposedRiskLower, ScoreTypes
    <3>2. /\ proposed \in [Segments -> Amount] /\ stored \in [Segments -> Amount]
          /\ \A x \in Segments : Leq(proposed[x], stored[x])
      BY <3>1
    <3> QED BY <3>2, AverageMonotone
  <2>5. \A x \in Segments :
          /\ Whole(net[x].f.lamps) \in Fraction /\ ProposedEnergy(net[x], p) \in Fraction
          /\ ~Dimmed(net[x], p) => Leq(Whole(net[x].f.lamps), ProposedEnergy(net[x], p))
          /\ ProposedFixtures(net[x], p) <= net[x].f.lamps =>
               Leq(ProposedEnergy(net[x], p), Whole(net[x].f.lamps))
          /\ ProposedFixtures(net[x], p) \in Nat /\ net[x].f.lamps \in Nat
    <3>1. p.target \in Fraction
      BY <2>2, NormalizedPolicy, PositiveAmount
    <3>2. \A x \in Segments : ProposedFixtures(net[x], p) \in Nat /\ net[x].f.lamps \in Nat
      BY <2>3, <3>1, Proposed, FeatureTypes
    <3> QED BY <2>2, <2>3, <3>2, ProposedEnergyBounds
  <2>6. /\ lamps \in [Segments -> Fraction] /\ energy \in [Segments -> Fraction]
        /\ \A x \in Segments : lamps[x] = Whole(net[x].f.lamps) /\ energy[x] = ProposedEnergy(net[x], p)
    BY <2>5
  <2>7. ASSUME Simulate(policy).dimmed = {} PROVE Leq(Total(lamps), Total(energy))
    <3>1. \A x \in Segments : ~Dimmed(net[x], p)
      BY <2>1, <2>7
    <3>2. \A x \in Segments : Leq(lamps[x], energy[x])
      BY <2>5, <2>6, <3>1
    <3> HIDE DEF lamps, energy
    <3> QED BY <2>6, <3>2, TotalMonotone
  <2>8. ASSUME Simulate(policy).upgraded = {} PROVE Leq(Total(energy), Total(lamps))
    <3>1. \A x \in Segments : ~(ProposedFixtures(net[x], p) > net[x].f.lamps)
      BY <2>1, <2>8
    <3>2. \A x \in Segments : ProposedFixtures(net[x], p) <= net[x].f.lamps
      BY <2>5, <3>1
    <3>3. \A x \in Segments : Leq(energy[x], lamps[x])
      BY <2>5, <2>6, <3>2
    <3> HIDE DEF lamps, energy
    <3> QED BY <2>6, <3>3, TotalMonotone
  <2> QED BY <2>1, <2>4, <2>7, <2>8
<1>2. UpgradesInv => UpgradesReduceRisk
  BY <1>1 DEF UpgradesReduceRisk
<1> QED BY <1>2, UpgradesInvariant, PTL

=============================================================================
