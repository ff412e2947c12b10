------------------------------ MODULE FoldTheorems ------------------------------
(***************************************************************************)
(* What SequencesExt's FoldLeft computes: an instance with the folded      *)
(* operator for Op and a predicate for P gives the invariant of that fold. *)
(* A theorem with an operator among its assumptions cannot be cited, but   *)
(* one of an instance can: it speaks of the operators of the instance.     *)
(* c and d stand for whatever else Op and P depend on.                     *)
(***************************************************************************)
EXTENDS Integers, SequencesExt, WellFoundedInduction, TLAPS

CONSTANTS Op(_, _, _), P(_, _, _)

Fold(c, base, s) == FoldLeft(LAMBDA u, x : Op(c, u, x), base, s)

\* The recursive function on the subsets of D by which FoldLeft is defined.
Recursion(c, base, s, f, D) ==
    f = [t \in SUBSET D |-> IF t = {} THEN base ELSE Op(c, f[t \ {Max(t)}], s[Max(t)])]

\* A set that holds zero and with each number the next holds them all: the
\* least number outside it would follow one that is inside.
LEMMA Induction ==
    ASSUME NEW T, 0 \in T, \A n \in Nat : n \in T => n + 1 \in T
    PROVE  Nat \subseteq T
<1> DEFINE R == Nat \ T
<1> SUFFICES ASSUME R # {} PROVE FALSE
  OBVIOUS
<1>1. PICK n \in R : \A m \in R : ~(<<m, n>> \in OpToRel(<, Nat))
  <2>1. R \subseteq Nat
    OBVIOUS
  <2> HIDE DEF R
  <2> QED
    BY <2>1, NatLessThanWellFounded, WFMin
<1>2. n # 0
  OBVIOUS
<1>3. n - 1 \in Nat /\ n - 1 \notin R
  <2>1. n - 1 \in Nat /\ n \in Nat /\ n - 1 < n
    BY <1>2
  <2>2. <<n - 1, n>> \in OpToRel(<, Nat)
    BY <2>1, Zenon DEF OpToRel
  <2> QED
    BY <2>1, <2>2, <1>1
<1>4. (n - 1) + 1 \in T /\ (n - 1) + 1 = n
  BY <1>3
<1> QED
  BY <1>4

\* FoldLeft (SequencesExt) is the value of that function at the whole domain.
LEMMA FoldIs ==
    ASSUME NEW c, NEW base, NEW s
    PROVE  Fold(c, base, s) = (CHOOSE f : Recursion(c, base, s, f, DOMAIN s))[DOMAIN s]
BY DEF Fold, FoldLeft, MapThenFoldSet, Recursion

\* Max (FiniteSetsExt) of a set of places that holds the last one.
LEMMA MaxIsLast ==
    ASSUME NEW n \in Nat, NEW t \in SUBSET (1 .. n + 1), n + 1 \in t
    PROVE  Max(t) = n + 1
<1> DEFINE M == Max(t)
<1>1. \A y \in t : n + 1 >= y
  OBVIOUS
<1>2. M \in t /\ \A y \in t : M >= y
  BY <1>1 DEF Max
<1>3. M >= n + 1 /\ M \in 1 .. n + 1
  BY <1>2
<1> HIDE DEF M
<1>4. M = n + 1
  BY <1>3
<1> QED
  BY <1>4 DEF M

\* There is such a function, by induction on the last place: the next one
\* folds one member more where its place is in the set.
LEMMA RecursionExists ==
    ASSUME NEW c, NEW base, NEW s
    PROVE  \A n \in Nat : \E f : Recursion(c, base, s, f, 1 .. n)
<1> DEFINE Has(n) == \E f : Recursion(c, base, s, f, 1 .. n)
           T == {n \in Nat : Has(n)}
<1>1. Has(0)
  <2> DEFINE f == [t \in SUBSET (1 .. 0) |-> base]
  <2>1. 1 .. 0 = {}
    OBVIOUS
  <2>2. \A t \in SUBSET (1 .. 0) : t = {}
    BY <2>1
  <2>3. Recursion(c, base, s, f, 1 .. 0)
    BY <2>2 DEF Recursion
  <2> QED
    BY <2>3
<1>2. ASSUME NEW n \in Nat, Has(n)
      PROVE  Has(n + 1)
  <2>1. PICK f : Recursion(c, base, s, f, 1 .. n)
    BY <1>2
  <2> DEFINE g == [t \in SUBSET (1 .. n + 1) |->
                      IF n + 1 \in t THEN Op(c, f[t \ {n + 1}], s[n + 1]) ELSE f[t]]
             h == [t \in SUBSET (1 .. n + 1) |->
                      IF t = {} THEN base ELSE Op(c, g[t \ {Max(t)}], s[Max(t)])]
  <2>2. \A t \in SUBSET (1 .. n + 1) : n + 1 \notin t => t \in SUBSET (1 .. n)
    OBVIOUS
  <2>3. ASSUME NEW t \in SUBSET (1 .. n + 1)
        PROVE  g[t] = h[t]
    <3>1. CASE n + 1 \in t
      <4>1. Max(t) = n + 1
        BY <3>1, MaxIsLast
      <4>2. t \ {n + 1} \in SUBSET (1 .. n + 1) /\ n + 1 \notin t \ {n + 1}
        OBVIOUS
      <4>3. g[t \ {n + 1}] = f[t \ {n + 1}]
        BY <4>2
      <4>4. g[t] = Op(c, f[t \ {n + 1}], s[n + 1])
        BY <3>1
      <4>5. t # {}
        BY <3>1
      <4> QED
        BY <4>1, <4>3, <4>4, <4>5
    <3>2. CASE n + 1 \notin t
      <4>1. t \in SUBSET (1 .. n)
        BY <3>2, <2>2
      <4>2. f[t] = IF t = {} THEN base ELSE Op(c, f[t \ {Max(t)}], s[Max(t)])
        BY <4>1, <2>1 DEF Recursion
      <4>3. t \ {Max(t)} \in SUBSET (1 .. n + 1) /\ n + 1 \notin t \ {Max(t)}
        BY <3>2
      <4>4. g[t \ {Max(t)}] = f[t \ {Max(t)}]
        BY <4>3
      <4>5. g[t] = f[t]
        BY <3>2
      <4> QED
        BY <4>2, <4>4, <4>5
    <3> QED
      BY <3>1, <3>2
  <2>4. /\ g = [t \in SUBSET (1 .. n + 1) |-> g[t]]
        /\ h = [t \in SUBSET (1 .. n + 1) |-> h[t]]
    OBVIOUS
  <2>5. g = h
    <3> HIDE DEF g, h
    <3> QED
      BY <2>3, <2>4
  <2>6. Recursion(c, base, s, g, 1 .. n + 1)
    <3> HIDE DEF g
    <3> QED
      BY <2>5 DEF Recursion
  <2> QED
    BY <2>6
<1>3. Nat \subseteq T
  <2> HIDE DEF Has
  <2>1. 0 \in T /\ \A n \in Nat : n \in T => n + 1 \in T
    BY <1>1, <1>2
  <2> QED
    BY <2>1, Induction
<1> QED
  BY <1>3

\* What holds of the base and of no member folded, and passes from k - 1
\* members to k whatever was folded so far, holds of the fold.
THEOREM FoldInvariant ==
    ASSUME NEW c, NEW d, NEW base, NEW S, NEW s \in Seq(S), P(d, 0, base),
           \A k \in 1 .. Len(s) : \A u : P(d, k - 1, u) => P(d, k, Op(c, u, s[k]))
    PROVE  P(d, Len(s), Fold(c, base, s))
<1> DEFINE D == DOMAIN s
           it == CHOOSE f : Recursion(c, base, s, f, D)
           Holds(n) == n <= Len(s) => P(d, n, it[1 .. n])
           T == {n \in Nat : Holds(n)}
<1>1. D = 1 .. Len(s) /\ Len(s) \in Nat
  OBVIOUS
<1>2. Recursion(c, base, s, it, D)
  BY <1>1, RecursionExists
<1>3. \A t \in SUBSET D : it[t] = IF t = {} THEN base
                                  ELSE Op(c, it[t \ {Max(t)}], s[Max(t)])
  <2> HIDE DEF it
  <2> QED
    BY <1>2 DEF Recursion
<1> HIDE DEF it, D
<1>5. Holds(0)
  <2>1. 1 .. 0 = {} /\ {} \in SUBSET D
    OBVIOUS
  <2>2. it[{}] = base
    BY <1>3, <2>1
  <2> QED
    BY <2>1, <2>2, <1>1
<1>6. ASSUME NEW n \in Nat, Holds(n)
      PROVE  Holds(n + 1)
  <2> SUFFICES ASSUME n + 1 <= Len(s)
               PROVE  P(d, n + 1, it[1 .. n + 1])
    OBVIOUS
  <2>1. P(d, n, it[1 .. n])
    BY <1>6, <1>1
  <2>2. 1 .. n + 1 \in SUBSET D /\ 1 .. n + 1 # {} /\ n + 1 \in 1 .. n + 1
    <3>1. \A i \in 1 .. n + 1 : i \in 1 .. Len(s)
      BY <1>1
    <3>2. n + 1 \in 1 .. n + 1
      OBVIOUS
    <3> QED
      BY <3>1, <3>2, <1>1
  <2>3. Max(1 .. n + 1) = n + 1
    BY <2>2, MaxIsLast
  <2>4. (1 .. n + 1) \ {n + 1} = 1 .. n
    OBVIOUS
  <2>5. it[1 .. n + 1] = Op(c, it[1 .. n], s[n + 1])
    BY <1>3, <2>2, <2>3, <2>4
  <2>6. n + 1 \in 1 .. Len(s) /\ (n + 1) - 1 = n
    BY <1>1
  <2> QED
    BY <2>1, <2>5, <2>6
<1>7. \A n \in Nat : Holds(n)
  <2> HIDE DEF Holds
  <2>1. 0 \in T /\ \A n \in Nat : n \in T => n + 1 \in T
    BY <1>5, <1>6
  <2>2. Nat \subseteq T
    BY <2>1, Induction
  <2> QED
    BY <2>2
<1>8. P(d, Len(s), it[1 .. Len(s)])
  BY <1>7, <1>1
<1>9. Fold(c, base, s) = it[D]
  BY FoldIs DEF it, D
<1> QED
  BY <1>8, <1>9, <1>1

\* What is folded after each member: a run of values from the base on, each made of the
\* one before it.
IsTrail(c, base, s, n, trail) ==
    trail[0] = base /\ \A k \in 1 .. n : trail[k] = Op(c, trail[k - 1], s[k])

\* There is such a run.
LEMMA TrailExists ==
    ASSUME NEW c, NEW base, NEW s, NEW n \in Nat
    PROVE  \E trail : IsTrail(c, base, s, n, trail)
<1>1. PICK f : Recursion(c, base, s, f, 1 .. n)
  BY RecursionExists
<1>2. \A t \in SUBSET (1 .. n) : f[t] = IF t = {} THEN base
                                        ELSE Op(c, f[t \ {Max(t)}], s[Max(t)])
  BY <1>1 DEF Recursion
<1> DEFINE trail == [k \in 0 .. n |-> f[1 .. k]]
<1>3. trail[0] = base
  <2>1. 1 .. 0 = {} /\ {} \in SUBSET (1 .. n) /\ 0 \in 0 .. n
    OBVIOUS
  <2>2. f[{}] = base
    BY <1>2, <2>1
  <2> QED
    BY <2>1, <2>2
<1>4. ASSUME NEW k \in 1 .. n
      PROVE  trail[k] = Op(c, trail[k - 1], s[k])
  <2>1. PICK m \in Nat : m = k - 1
    OBVIOUS
  <2>2. k = m + 1 /\ k \in 0 .. n /\ k - 1 \in 0 .. n /\ m \in 0 .. n
    BY <2>1
  <2>3. 1 .. k \in SUBSET (1 .. n) /\ 1 .. k # {} /\ m + 1 \in 1 .. m + 1
    OBVIOUS
  <2>4. Max(1 .. m + 1) = m + 1
    BY <2>3, MaxIsLast
  <2>5. (1 .. k) \ {k} = 1 .. m
    BY <2>2
  <2>6. f[1 .. k] = Op(c, f[1 .. m], s[k])
    BY <1>2, <2>2, <2>3, <2>4, <2>5
  <2> QED
    BY <2>1, <2>2, <2>6
<1> HIDE DEF trail
<1> QED
  BY <1>3, <1>4 DEF IsTrail
================================================================================
