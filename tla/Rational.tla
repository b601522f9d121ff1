------------------------------ MODULE Rational ------------------------------
(***************************************************************************)
(* Fractions << n, d >> in lowest terms with d > 0: float64 without its    *)
(* rounding.                                                               *)
(***************************************************************************)
EXTENDS Integers

\* GcdWith[b][a]: the greatest common divisor, by Euclid's algorithm.
GcdWith[b \in Nat] == [a \in Nat |-> IF b = 0 THEN a ELSE GcdWith[a % b][b]]
Gcd(a, b) == GcdWith[b][a]

Abs(n) == IF n < 0 THEN -n ELSE n
Frac(n, d) == LET g == Gcd(Abs(n), d) IN << n \div g, d \div g >>
Fraction == {q \in Int \X Nat : q[2] > 0 /\ Gcd(Abs(q[1]), q[2]) = 1}
Whole(n) == << n, 1 >>
Zero == Whole(0)
One == Whole(1)

Plus(p, q) ==
  LET g == Gcd(p[2], q[2]) IN
  Frac(p[1] * (q[2] \div g) + q[1] * (p[2] \div g), (p[2] \div g) * q[2])
Minus(p, q) == Plus(p, << -q[1], q[2] >>)

Times(p, q) ==
  LET a == Frac(p[1], q[2])
      b == Frac(q[1], p[2]) IN << a[1] * b[1], a[2] * b[2] >>
Over(p, q) == Times(p, << q[2], q[1] >>)    \* q > 0

Leq(p, q) == p[1] * q[2] <= q[1] * p[2]
Less(p, q) == ~Leq(q, p)

Floor(p) == p[1] \div p[2]
Ceil(p) == -((-p[1]) \div p[2])
=============================================================================
