------------------------------ MODULE Fractions ------------------------------
(***************************************************************************)
(* Exact fractions, the lengths and weights of the layout modules.  The    *)
(* program computes with floats and compares with a tolerance of 1e-6 mm;  *)
(* exact arithmetic with no tolerance is what that tolerance stands for.   *)
(* A fraction is the pair <<n, d>> in lowest terms with d > 0, so equal    *)
(* fractions are equal values.                                             *)
(***************************************************************************)
EXTENDS Integers

Gcd[p \in Nat \X Nat] == IF p[2] = 0 THEN p[1] ELSE Gcd[<<p[2], p[1] % p[2]>>]

Abs(n) == IF n < 0 THEN -n ELSE n

\* n/d in lowest terms, for d # 0.
Frac(n, d) ==
    LET g == IF d = 1 THEN 1 ELSE Gcd[<<Abs(n), Abs(d)>>]
        s == IF d < 0 THEN -1 ELSE 1
    IN  <<(s * n) \div g, (s * d) \div g>>

Whole(n) == <<n, 1>>
Zero == Whole(0)
One == Whole(1)

p ++ q == Frac(p[1] * q[2] + q[1] * p[2], p[2] * q[2])
p -- q == Frac(p[1] * q[2] - q[1] * p[2], p[2] * q[2])
p ** q == Frac(p[1] * q[1], p[2] * q[2])
p // q == Frac(p[1] * q[2], p[2] * q[1])

p \prec q == p[1] * q[2] < q[1] * p[2]
p \preceq q == p[1] * q[2] <= q[1] * p[2]

Square(p) == p ** p

Least(p, q) == IF p \preceq q THEN p ELSE q
Greatest(p, q) == IF p \preceq q THEN q ELSE p

IsFraction(p) ==
    /\ p \in Int \X (Nat \ {0})
    /\ p = Frac(p[1], p[2])
==============================================================================
