--------------------------- MODULE ViewEditorProofs ---------------------------
(***************************************************************************)
(* Between any two steps, for every set of boards and every bound, the     *)
(* drawing is current or its redraw is queued, the two selections hold the *)
(* same boards or the follow-up is queued, a typed size lands where it was *)
(* typed, a padlock turns the lock it shows and the Delete key removes what*)
(* is drawn selected.                                                      *)
(*                                                                         *)
(* First the row the editor works on: what removing a board, splitting an  *)
(* opening, reading the row back after an Undo and following a selection make*)
(* of a row that is well formed; a fold is proved about by giving FoldTheorems*)
(* its step and its invariant as operators.  Then the editor's inductive   *)
(* invariant, Good, and what the parts of a handler (queueing, selecting,  *)
(* redrawing, settling, editing) do to it.  Good is kept by every handler, *)
(* then by every action, and each property follows from it.                *)
(***************************************************************************)
EXTENDS ViewEditor, SequenceTheorems, FiniteSetTheorems, WellFoundedInduction, TLAPS

\* The fold of Within, with its invariant.
KeepIn(T, t, x) == IF x \in T THEN Append(t, x) ELSE t
KeptSoFar(d, n, t) ==
    /\ t \in Seq(d.range)
    /\ \A i \in DOMAIN t : \E j \in 1 .. n : t[i] = d.s[j] /\ t[i] \in d.T
    /\ IsInjective(d.s) => IsInjective(t)
    /\ (ToSet(d.s) \subseteq d.T) => Len(t) = n /\ \A i \in 1 .. n : t[i] = d.s[i]
Keeping == INSTANCE FoldTheorems WITH Op <- KeepIn, P <- KeptSoFar

\* Picking the members of a list that are in a set (Present, SelectedBoards, the
\* boards a deletion keeps) gives a list of them, repeats none the list did not
\* repeat, and gives the list itself where all are in the set.
LEMMA WithinFacts ==
    ASSUME NEW S, NEW s \in Seq(S), NEW T
    PROVE  /\ Within(s, T) \in Seq(S)
           /\ ToSet(Within(s, T)) \subseteq ToSet(s) \cap T
           /\ IsInjective(s) => IsInjective(Within(s, T))
           /\ ToSet(s) \subseteq T => Within(s, T) = s
<1> DEFINE d == [s |-> s, T |-> T, range |-> S]
           t == Within(s, T)
<1>1. Within(s, T) = Keeping!Fold(T, << >>, s)
  BY DEF Within, KeepIn, Keeping!Fold, FoldLeft, Keeping!FoldLeft, MapThenFoldSet,
         Keeping!MapThenFoldSet, Max, Keeping!Max
<1>2. KeptSoFar(d, 0, << >>)
  BY DEF KeptSoFar, IsInjective
<1>3. ASSUME NEW k \in 1 .. Len(s), NEW u, KeptSoFar(d, k - 1, u)
      PROVE  KeptSoFar(d, k, KeepIn(T, u, s[k]))
  <2>1. /\ u \in Seq(S)
        /\ \A i \in DOMAIN u : \E j \in 1 .. k - 1 : u[i] = s[j] /\ u[i] \in T
        /\ IsInjective(s) => IsInjective(u)
        /\ (ToSet(s) \subseteq T) => Len(u) = k - 1 /\ \A i \in 1 .. k - 1 : u[i] = s[i]
    BY <1>3 DEF KeptSoFar
  <2>2. k \in DOMAIN s /\ s[k] \in S /\ k \in Nat
    OBVIOUS
  <2>3. CASE s[k] \in T
    <3> DEFINE v == Append(u, s[k])
    <3>1. /\ v \in Seq(S) /\ Len(v) = Len(u) + 1 /\ DOMAIN v = 1 .. Len(u) + 1
          /\ DOMAIN u = 1 .. Len(u) /\ Len(u) \in Nat
          /\ v[Len(u) + 1] = s[k] /\ \A i \in DOMAIN u : v[i] = u[i]
      BY <2>1, <2>2
    <3> HIDE DEF v
    <3>2. \A i \in DOMAIN v : \E j \in 1 .. k : v[i] = s[j] /\ v[i] \in T
      <4> SUFFICES ASSUME NEW i \in DOMAIN v PROVE \E j \in 1 .. k : v[i] = s[j] /\ v[i] \in T
        OBVIOUS
      <4>1. CASE i = Len(u) + 1 BY <4>1, <3>1, <2>2, <2>3
      <4>2. CASE i \in DOMAIN u BY <4>2, <3>1, <2>1
      <4> QED BY <4>1, <4>2, <3>1
    <3>3. ASSUME IsInjective(s) PROVE IsInjective(v)
      <4>1. \A i \in DOMAIN u : u[i] # s[k]
        BY <2>1, <2>2, <3>3, SMTT(40) DEF IsInjective
      <4> QED BY <4>1, <3>1, <3>3, <2>1 DEF IsInjective
    <3>4. ASSUME ToSet(s) \subseteq T PROVE Len(v) = k /\ \A i \in 1 .. k : v[i] = s[i]
      <4>1. Len(u) = k - 1 /\ \A i \in 1 .. k - 1 : u[i] = s[i] BY <3>4, <2>1
      <4>2. Len(v) = k /\ v[k] = s[k] BY <4>1, <3>1, <2>2
      <4>3. \A i \in 1 .. k - 1 : v[i] = s[i] BY <4>1, <3>1, <2>2
      <4> QED BY <4>2, <4>3, <2>2
    <3>5. KeepIn(T, u, s[k]) = v BY <2>3 DEF KeepIn, v
    <3> QED BY <3>1, <3>2, <3>3, <3>4, <3>5 DEF KeptSoFar
  <2>4. CASE s[k] \notin T
    <3>1. KeepIn(T, u, s[k]) = u BY <2>4 DEF KeepIn
    <3>2. ~(ToSet(s) \subseteq T) BY <2>4, <2>2 DEF ToSet
    <3> QED BY <3>1, <3>2, <2>1 DEF KeptSoFar
  <2> QED BY <2>3, <2>4
<1> HIDE DEF t
<1>4. KeptSoFar(d, Len(s), t)
  <2> HIDE DEF d
  <2> QED BY <1>1, <1>2, <1>3, Keeping!FoldInvariant DEF t
<1>5. /\ t \in Seq(S)
      /\ \A i \in DOMAIN t : \E j \in 1 .. Len(s) : t[i] = s[j] /\ t[i] \in T
      /\ IsInjective(s) => IsInjective(t)
      /\ (ToSet(s) \subseteq T) => Len(t) = Len(s) /\ \A i \in 1 .. Len(s) : t[i] = s[i]
  BY <1>4 DEF KeptSoFar
<1>6. ToSet(t) \subseteq ToSet(s) \cap T
  BY <1>5 DEF ToSet
<1>7. ASSUME ToSet(s) \subseteq T PROVE t = s
  BY <1>5, <1>7, SeqEqual
<1> QED BY <1>5, <1>6, <1>7 DEF t

\* A list has finitely many members.
LEMMA ToSetIsFinite ==
    ASSUME NEW S, NEW s \in Seq(S) PROVE IsFiniteSet(ToSet(s)) /\ ToSet(s) \subseteq S
<1>1. s \in Seq(ToSet(s))
  <2>1. s \in [1 .. Len(s) -> ToSet(s)] /\ Len(s) \in Nat
    BY DEF ToSet
  <2> QED BY <2>1
<1>2. \A x \in ToSet(s) : \E n \in 1 .. Len(s) : s[n] = x
  BY DEF ToSet
<1>3. IsFiniteSet(ToSet(s))
  <2> HIDE DEF ToSet
  <2> QED BY <1>1, <1>2 DEF IsFiniteSet
<1>4. ToSet(s) \subseteq S BY DEF ToSet
<1> QED BY <1>3, <1>4

\* new_id() gives an id that none in use is.
LEMMA NewIdIsNew ==
    ASSUME NEW used, IsFiniteSet(used)
    PROVE  NewId(used) \in Ids \ used
<1> DEFINE n == Cardinality(used) + 1
           T == {i \in 1 .. n : i \notin used}
<1>1. n \in Nat \ {0} BY FS_CardinalityType
<1>2. T # {}
  <2> SUFFICES ASSUME T = {} PROVE FALSE OBVIOUS
  <2>1. 1 .. n \in SUBSET used OBVIOUS
  <2>2. Cardinality(1 .. n) <= Cardinality(used)
    <3> HIDE DEF n
    <3> QED BY <2>1, FS_Subset
  <2>3. Cardinality(1 .. n) = n
    <3> HIDE DEF n
    <3>1. 1 \in Int /\ n \in Int /\ ~(1 > n) BY <1>1
    <3>2. n - 1 + 1 = n BY <1>1
    <3> QED BY <3>1, <3>2, FS_Interval
  <2> QED BY <2>2, <2>3, FS_CardinalityType
<1>3. PICK i \in T : \A j \in T : ~(<<j, i>> \in OpToRel(<, Nat))
  <2>1. T \subseteq Nat BY <1>1
  <2> HIDE DEF T
  <2> QED BY <1>2, <2>1, NatLessThanWellFounded, WFMin
<1>4. \A j \in 1 .. i - 1 : j \in used
  <2> SUFFICES ASSUME NEW j \in 1 .. i - 1, j \notin used PROVE FALSE OBVIOUS
  <2>1. i \in 1 .. n /\ j \in Nat /\ i \in Nat /\ j < i BY <1>1
  <2>2. j \in T BY <2>1, <1>1
  <2>3. <<j, i>> \in OpToRel(<, Nat) BY <2>1, Zenon DEF OpToRel
  <2> QED BY <2>2, <2>3, <1>3
<1>5. NewId(used) \in 1 .. n /\ NewId(used) \notin used
  <2> DEFINE Fresh(j) == j \notin used /\ \A l \in 1 .. j - 1 : l \in used
  <2>1. i \in 1 .. n /\ Fresh(i) BY <1>4
  <2>2. NewId(used) = CHOOSE j \in 1 .. n : Fresh(j) BY DEF NewId
  <2>3. NewId(used) \in 1 .. n /\ Fresh(NewId(used))
    <3> HIDE DEF n, Fresh
    <3> QED BY <2>1, <2>2
  <2> QED BY <2>3
<1> QED BY <1>5, <1>1 DEF Ids

\* The fold of NewIds, with its invariant.
AddNewId(used, ids, k) == Append(ids, NewId(used \cup ToSet(ids)))
NewSoFar(used, n, ids) ==
    /\ ids \in Seq(Ids) /\ Len(ids) = n /\ IsInjective(ids)
    /\ ToSet(ids) \cap used = {}
Naming == INSTANCE FoldTheorems WITH Op <- AddNewId, P <- NewSoFar

\* Ids asked for one after another differ from each other and from all in use.
LEMMA NewIdsFacts ==
    ASSUME NEW used, IsFiniteSet(used), NEW n \in Nat
    PROVE  /\ NewIds(used, n) \in Seq(Ids) /\ Len(NewIds(used, n)) = n
           /\ IsInjective(NewIds(used, n)) /\ ToSet(NewIds(used, n)) \cap used = {}
<1> DEFINE s == [k \in 1 .. n |-> k]
<1>1. NewIds(used, n) = Naming!Fold(used, << >>, s)
  BY DEF NewIds, AddNewId, Naming!Fold, FoldLeft, Naming!FoldLeft, MapThenFoldSet,
         Naming!MapThenFoldSet, Max, Naming!Max
<1>2. s \in Seq(Nat) /\ Len(s) = n OBVIOUS
<1>3. NewSoFar(used, 0, << >>)
  BY DEF NewSoFar, IsInjective, ToSet
<1>4. ASSUME NEW k \in 1 .. Len(s), NEW ids, NewSoFar(used, k - 1, ids)
      PROVE  NewSoFar(used, k, AddNewId(used, ids, s[k]))
  <2>1. ids \in Seq(Ids) /\ Len(ids) = k - 1 /\ IsInjective(ids) /\ ToSet(ids) \cap used = {}
    BY <1>4 DEF NewSoFar
  <2> DEFINE id == NewId(used \cup ToSet(ids))
             v == Append(ids, id)
  <2>2. id \in Ids /\ id \notin used /\ id \notin ToSet(ids)
    <3>1. IsFiniteSet(ToSet(ids)) BY <2>1, ToSetIsFinite
    <3>2. IsFiniteSet(used \cup ToSet(ids)) BY <3>1, FS_Union
    <3> QED BY <3>2, NewIdIsNew
  <2> HIDE DEF id
  <2>3. /\ v \in Seq(Ids) /\ Len(v) = k /\ DOMAIN v = 1 .. k /\ DOMAIN ids = 1 .. k - 1
        /\ v[k] = id /\ \A i \in 1 .. k - 1 : v[i] = ids[i]
    BY <2>1, <2>2, <1>2
  <2> HIDE DEF v
  <2>4. \A i \in 1 .. k - 1 : ids[i] # id /\ ids[i] \notin used
    BY <2>1, <2>2, <2>3 DEF ToSet
  <2>5. k \in Nat /\ \A i \in 1 .. k : i = k \/ i \in 1 .. k - 1 BY <1>2
  <2>6. IsInjective(v)
    BY <2>1, <2>3, <2>4, <2>5 DEF IsInjective
  <2>7. ToSet(v) \cap used = {}
    BY <2>2, <2>3, <2>4, <2>5 DEF ToSet
  <2>8. AddNewId(used, ids, s[k]) = v BY DEF AddNewId, v, id
  <2> QED BY <2>3, <2>6, <2>7, <2>8 DEF NewSoFar
<1>5. NewSoFar(used, Len(s), Naming!Fold(used, << >>, s))
  <2> HIDE DEF s
  <2> QED BY <1>2, <1>3, <1>4, Naming!FoldInvariant
<1> QED BY <1>1, <1>2, <1>5 DEF NewSoFar

\* Removing the k-th member moves the later ones down by one.
LEMMA RemoveAtFacts ==
    ASSUME NEW S, NEW s \in Seq(S), NEW k \in 1 .. Len(s)
    PROVE  /\ RemoveAt(s, k) \in Seq(S) /\ Len(RemoveAt(s, k)) = Len(s) - 1
           /\ \A i \in 1 .. Len(s) - 1 : RemoveAt(s, k)[i] = IF i < k THEN s[i] ELSE s[i + 1]
<1> DEFINE a == SubSeq(s, 1, k - 1)
           b == SubSeq(s, k + 1, Len(s))
<1>1. a \in Seq(S) /\ Len(a) = k - 1 /\ \A i \in 1 .. k - 1 : a[i] = s[i]
  <2>1. \A i \in 1 .. k - 1 : s[i] \in S OBVIOUS
  <2>2. 1 \in Int /\ k - 1 \in Int OBVIOUS
  <2> QED BY <2>1, <2>2, SubSeqProperties
<1>2. b \in Seq(S) /\ Len(b) = Len(s) - k /\ \A i \in 1 .. Len(s) - k : b[i] = s[k + i]
  <2>1. \A i \in k + 1 .. Len(s) : s[i] \in S OBVIOUS
  <2>2. k + 1 \in Int /\ Len(s) \in Int OBVIOUS
  <2>3. /\ b \in Seq(S) /\ Len(b) = IF k + 1 <= Len(s) THEN Len(s) - (k + 1) + 1 ELSE 0
        /\ \A i \in 1 .. Len(s) - (k + 1) + 1 : b[i] = s[k + 1 + i - 1]
    BY <2>1, <2>2, SubSeqProperties
  <2> HIDE DEF b
  <2> QED BY <2>3
<1> HIDE DEF a, b
<1>3. /\ a \o b \in Seq(S) /\ Len(a \o b) = Len(a) + Len(b)
      /\ \A i \in 1 .. Len(a) + Len(b) : (a \o b)[i] = IF i <= Len(a) THEN a[i] ELSE b[i - Len(a)]
  BY <1>1, <1>2, ConcatProperties
<1>4. RemoveAt(s, k) = a \o b
  BY DEF RemoveAt, a, b
<1> DEFINE r == a \o b
<1>5. r \in Seq(S) /\ Len(r) = Len(s) - 1
  BY <1>1, <1>2, <1>3
<1>6. ASSUME NEW i \in 1 .. Len(s) - 1
      PROVE  r[i] = IF i < k THEN s[i] ELSE s[i + 1]
  <2>1. CASE i < k
    BY <2>1, <1>1, <1>2, <1>3
  <2>2. CASE ~(i < k)
    <3>1. i - (k - 1) \in 1 .. Len(s) - k /\ i \in 1 .. Len(a) + Len(b) /\ ~(i <= Len(a))
      BY <2>2, <1>1, <1>2
    <3>2. r[i] = b[i - (k - 1)]
      BY <3>1, <1>1, <1>3
    <3>3. b[i - (k - 1)] = s[k + (i - (k - 1))]
      BY <3>1, <1>2
    <3>4. k + (i - (k - 1)) = i + 1
      OBVIOUS
    <3> QED
      BY <3>2, <3>3, <3>4, <2>2
  <2> QED
    BY <2>1, <2>2
<1> QED
  BY <1>4, <1>5, <1>6

\* A list without repeats has none after a removal, and loses that member alone.
LEMMA RemoveAtInjective ==
    ASSUME NEW S, NEW s \in Seq(S), NEW k \in 1 .. Len(s), IsInjective(s)
    PROVE  IsInjective(RemoveAt(s, k)) /\ ToSet(RemoveAt(s, k)) = ToSet(s) \ {s[k]}
<1> DEFINE r == RemoveAt(s, k)
<1>a. /\ r \in Seq(S) /\ Len(r) = Len(s) - 1
      /\ \A i \in 1 .. Len(s) - 1 : r[i] = IF i < k THEN s[i] ELSE s[i + 1]
  BY RemoveAtFacts
<1> HIDE DEF r
<1>1. /\ DOMAIN r = 1 .. Len(s) - 1 /\ DOMAIN s = 1 .. Len(s) /\ Len(s) \in Nat
      /\ \A i \in 1 .. Len(s) - 1 : r[i] = IF i < k THEN s[i] ELSE s[i + 1]
  BY <1>a
<1>2. IsInjective(r)
  BY <1>1, SMTT(40) DEF IsInjective
<1>3. ASSUME NEW i \in DOMAIN r PROVE \E j \in DOMAIN s : j # k /\ r[i] = s[j]
  <2>1. CASE i < k BY <2>1, <1>1
  <2>2. CASE ~(i < k)
    <3>1. i + 1 \in DOMAIN s /\ i + 1 # k /\ r[i] = s[i + 1] BY <2>2, <1>1
    <3> QED BY <3>1
  <2> QED BY <2>1, <2>2
<1>4. ASSUME NEW j \in DOMAIN s, j # k PROVE \E i \in DOMAIN r : r[i] = s[j]
  <2>1. CASE j < k BY <2>1, <1>1
  <2>2. CASE j > k
    <3>1. j - 1 \in DOMAIN r /\ ~(j - 1 < k) /\ (j - 1) + 1 = j BY <2>2, <1>1
    <3> QED BY <3>1, <1>1
  <2> QED BY <2>1, <2>2, <1>1, <1>4
<1>5. \A j \in DOMAIN s : s[j] = s[k] => j = k
  BY <1>1 DEF IsInjective
<1>6. ToSet(r) = ToSet(s) \ {s[k]}
  BY <1>3, <1>4, <1>5 DEF ToSet
<1> QED BY <1>2, <1>6 DEF r

\* Inserting at k moves the members from k on up by one.
LEMMA InsertAtFacts ==
    ASSUME NEW S, NEW s \in Seq(S), NEW k \in 1 .. Len(s) + 1, NEW e \in S
    PROVE  /\ InsertAt(s, k, e) \in Seq(S) /\ Len(InsertAt(s, k, e)) = Len(s) + 1
           /\ \A i \in 1 .. Len(s) + 1 : InsertAt(s, k, e)[i] =
                IF i < k THEN s[i] ELSE IF i = k THEN e ELSE s[i - 1]
<1> DEFINE a == SubSeq(s, 1, k - 1)
           b == SubSeq(s, k, Len(s))
           m == <<e>>
           h == a \o m
           r == h \o b
<1>1. a \in Seq(S) /\ Len(a) = k - 1 /\ \A i \in 1 .. k - 1 : a[i] = s[i]
  <2>1. \A i \in 1 .. k - 1 : s[i] \in S OBVIOUS
  <2>2. 1 \in Int /\ k - 1 \in Int OBVIOUS
  <2> QED BY <2>1, <2>2, SubSeqProperties
<1>2. b \in Seq(S) /\ Len(b) = Len(s) - k + 1 /\ \A i \in 1 .. Len(s) - k + 1 : b[i] = s[k + i - 1]
  <2>1. \A i \in k .. Len(s) : s[i] \in S OBVIOUS
  <2>2. k \in Int /\ Len(s) \in Int OBVIOUS
  <2> QED BY <2>1, <2>2, SubSeqProperties
<1>3. m \in Seq(S) /\ Len(m) = 1 /\ m[1] = e
  OBVIOUS
<1>4. InsertAt(s, k, e) = r
  BY DEF InsertAt
<1> HIDE DEF a, b, m
<1>c. /\ h \in Seq(S) /\ Len(h) = Len(a) + Len(m)
      /\ \A i \in 1 .. Len(a) + Len(m) : h[i] = IF i <= Len(a) THEN a[i] ELSE m[i - Len(a)]
  <2>1. a \in Seq(S) /\ m \in Seq(S) BY <1>1, <1>3
  <2> QED BY <2>1, ConcatProperties
<1>5. /\ h \in Seq(S) /\ Len(h) = k
      /\ \A i \in 1 .. k : h[i] = IF i <= k - 1 THEN a[i] ELSE m[i - (k - 1)]
  <2>1. Len(a) + Len(m) = k BY <1>1, <1>3
  <2> HIDE DEF h
  <2> QED BY <2>1, <1>c, <1>1
<1> HIDE DEF h
<1>d. /\ r \in Seq(S) /\ Len(r) = Len(h) + Len(b)
      /\ \A i \in 1 .. Len(h) + Len(b) : r[i] = IF i <= Len(h) THEN h[i] ELSE b[i - Len(h)]
  <2>1. h \in Seq(S) /\ b \in Seq(S) BY <1>2, <1>5
  <2> QED BY <2>1, ConcatProperties
<1> HIDE DEF r
<1>6. /\ r \in Seq(S) /\ Len(r) = Len(s) + 1
      /\ \A i \in 1 .. Len(s) + 1 : r[i] = IF i <= k THEN h[i] ELSE b[i - k]
  <2>1. Len(h) + Len(b) = Len(s) + 1 BY <1>2, <1>5
  <2> QED BY <2>1, <1>d, <1>5
<1> HIDE DEF r
<1>7. ASSUME NEW i \in 1 .. Len(s) + 1
      PROVE  r[i] = IF i < k THEN s[i] ELSE IF i = k THEN e ELSE s[i - 1]
  <2>1. CASE i < k BY <2>1, <1>1, <1>5, <1>6, SMTT(40)
  <2>2. CASE i = k
    <3>1. i - (k - 1) = 1 /\ ~(i <= k - 1) BY <2>2
    <3> QED BY <3>1, <2>2, <1>3, <1>5, <1>6
  <2>3. CASE i > k
    <3>1. i - k \in 1 .. Len(s) - k + 1 /\ k + (i - k) - 1 = i - 1 BY <2>3
    <3>2. b[i - k] = s[i - 1] BY <3>1, <1>2
    <3> QED BY <3>2, <2>3, <1>6
  <2> QED BY <2>1, <2>2, <2>3
<1> QED BY <1>4, <1>6, <1>7

\* _split_halves_rules(): the k-th member gives way to two, and the later ones
\* move up by one.
LEMMA HalvedFacts ==
    ASSUME NEW S, NEW s \in Seq(S), NEW k \in 1 .. Len(s), NEW low \in S, NEW high \in S
    PROVE  /\ Halved(s, k, low, high) \in Seq(S) /\ Len(Halved(s, k, low, high)) = Len(s) + 1
           /\ \A i \in 1 .. Len(s) + 1 : Halved(s, k, low, high)[i] =
                IF i < k THEN s[i] ELSE IF i = k THEN low ELSE IF i = k + 1 THEN high ELSE s[i - 1]
<1> DEFINE a == SubSeq(s, 1, k - 1)
           b == SubSeq(s, k + 1, Len(s))
           m == <<low, high>>
           h == a \o m
           r == h \o b
<1>1. a \in Seq(S) /\ Len(a) = k - 1 /\ \A i \in 1 .. k - 1 : a[i] = s[i]
  <2>1. \A i \in 1 .. k - 1 : s[i] \in S OBVIOUS
  <2>2. 1 \in Int /\ k - 1 \in Int OBVIOUS
  <2> QED BY <2>1, <2>2, SubSeqProperties
<1>2. b \in Seq(S) /\ Len(b) = Len(s) - k /\ \A i \in 1 .. Len(s) - k : b[i] = s[k + i]
  <2>1. \A i \in k + 1 .. Len(s) : s[i] \in S OBVIOUS
  <2>2. k + 1 \in Int /\ Len(s) \in Int OBVIOUS
  <2>3. /\ b \in Seq(S) /\ Len(b) = IF k + 1 <= Len(s) THEN Len(s) - (k + 1) + 1 ELSE 0
        /\ \A i \in 1 .. Len(s) - (k + 1) + 1 : b[i] = s[k + 1 + i - 1]
    BY <2>1, <2>2, SubSeqProperties
  <2> HIDE DEF b
  <2> QED BY <2>3
<1>3. m \in Seq(S) /\ Len(m) = 2 /\ m[1] = low /\ m[2] = high
  OBVIOUS
<1>4. Halved(s, k, low, high) = r
  BY DEF Halved
<1> HIDE DEF a, b, m
<1>c. /\ h \in Seq(S) /\ Len(h) = Len(a) + Len(m)
      /\ \A i \in 1 .. Len(a) + Len(m) : h[i] = IF i <= Len(a) THEN a[i] ELSE m[i - Len(a)]
  <2>1. a \in Seq(S) /\ m \in Seq(S) BY <1>1, <1>3
  <2> QED BY <2>1, ConcatProperties
<1>5. /\ h \in Seq(S) /\ Len(h) = k + 1
      /\ \A i \in 1 .. k + 1 : h[i] = IF i <= k - 1 THEN a[i] ELSE m[i - (k - 1)]
  <2>1. Len(a) + Len(m) = k + 1 BY <1>1, <1>3
  <2> HIDE DEF h
  <2> QED BY <2>1, <1>c, <1>1
<1> HIDE DEF h
<1>d. /\ r \in Seq(S) /\ Len(r) = Len(h) + Len(b)
      /\ \A i \in 1 .. Len(h) + Len(b) : r[i] = IF i <= Len(h) THEN h[i] ELSE b[i - Len(h)]
  <2>1. h \in Seq(S) /\ b \in Seq(S) BY <1>2, <1>5
  <2> QED BY <2>1, ConcatProperties
<1> HIDE DEF r
<1>6. /\ r \in Seq(S) /\ Len(r) = Len(s) + 1
      /\ \A i \in 1 .. Len(s) + 1 : r[i] = IF i <= k + 1 THEN h[i] ELSE b[i - (k + 1)]
  <2>1. Len(h) + Len(b) = Len(s) + 1 BY <1>2, <1>5
  <2> QED BY <2>1, <1>d, <1>5
<1> HIDE DEF r
<1>7. ASSUME NEW i \in 1 .. Len(s) + 1
      PROVE  r[i] = IF i < k THEN s[i] ELSE IF i = k THEN low
                    ELSE IF i = k + 1 THEN high ELSE s[i - 1]
  <2>1. CASE i < k BY <2>1, <1>1, <1>5, <1>6
  <2>2. CASE i = k
    <3>1. i - (k - 1) = 1 /\ ~(i <= k - 1) BY <2>2
    <3> QED BY <3>1, <2>2, <1>3, <1>5, <1>6
  <2>3. CASE i = k + 1
    <3>1. /\ i - (k - 1) = 2 /\ ~(i <= k - 1) /\ ~(i < k)
          /\ i # k /\ i <= k + 1 /\ i \in 1 .. k + 1
      BY <2>3
    <3>2. r[i] = h[i] /\ h[i] = m[2] BY <3>1, <1>5, <1>6
    <3> QED BY <3>1, <3>2, <2>3, <1>3
  <2>4. CASE i > k + 1
    <3>1. i - (k + 1) \in 1 .. Len(s) - k /\ k + (i - (k + 1)) = i - 1 BY <2>4
    <3>2. b[i - (k + 1)] = s[i - 1] BY <3>1, <1>2
    <3> QED BY <3>2, <2>4, <1>6
  <2> QED BY <2>1, <2>2, <2>3, <2>4
<1> QED BY <1>4, <1>6, <1>7

\* A row of boards with an opening on either side of each, sizes of at most n edits.
RowLike(r, n) ==
    /\ r.boards \in Seq(Boards) /\ IsInjective(r.boards) /\ Len(r.boards) < MaxOpenings
    /\ r.locked \in Seq(BOOLEAN) /\ Len(r.locked) = Len(r.boards) + 1
    /\ r.mm \in Seq(0 .. n) /\ Len(r.mm) = Len(r.boards) + 1
\* A row as the document stores it: without ids.
Stored(r, n) == RowLike(r, n) /\ r = Bare(r)
\* A row as the session holds it: every opening has an id of its own.
UnitOK(u, n) ==
    /\ DOMAIN u = {"boards", "locked", "mm", "ids"} /\ RowLike(u, n)
    /\ u.ids \in Seq(Ids) /\ Len(u.ids) = Len(u.boards) + 1 /\ IsInjective(u.ids)

\* One more edit leaves a well-formed row well formed.
LEMMA UnitGrows ==
    ASSUME NEW n \in Nat, NEW u
    PROVE  /\ UnitOK(u, n) => UnitOK(u, n + 1)
           /\ Stored(u, n) => Stored(u, n + 1)
<1>1. 0 .. n \subseteq 0 .. n + 1
  OBVIOUS
<1>2. u.mm \in Seq(0 .. n) => u.mm \in Seq(0 .. n + 1)
  BY <1>1, SeqMonotonic
<1> QED
  BY <1>2 DEF UnitOK, Stored, RowLike

\* What is stored of a well-formed row (rules_to_json drops the ids) is well formed.
LEMMA BareIsStored ==
    ASSUME NEW n, NEW u, UnitOK(u, n)
    PROVE  Stored(Bare(u), n)
BY DEF UnitOK, Stored, RowLike, Bare

\* An edit stamps the sizes it sets, and leaves the others.
LEMMA StampedFacts ==
    ASSUME NEW w, w.session.edits \in Nat, NEW mm \in Seq(0 .. w.session.edits + 1), NEW places
    PROVE  /\ Stamped(w, mm, places) \in Seq(0 .. w.session.edits + 1)
           /\ Len(Stamped(w, mm, places)) = Len(mm)
           /\ \A k \in 1 .. Len(mm) : Stamped(w, mm, places)[k] =
                IF k \in places THEN w.session.edits + 1 ELSE mm[k]
<1> DEFINE n == w.session.edits
           t == Stamped(w, mm, places)
<1>1. t = [k \in 1 .. Len(mm) |-> IF k \in places THEN n + 1 ELSE mm[k]]
  BY DEF Stamped
<1>2. \A k \in 1 .. Len(mm) : (IF k \in places THEN n + 1 ELSE mm[k]) \in 0 .. n + 1
  BY SMTT(40)
<1>3. Len(mm) \in Nat
  OBVIOUS
<1> HIDE DEF t, n
<1> QED
  BY <1>1, <1>2, <1>3 DEF t, n

\* PlaceOf and PlaceOfBoard find the one place there is.
LEMMA PlaceFacts ==
    ASSUME NEW n, NEW u, UnitOK(u, n)
    PROVE  /\ \A id \in ToSet(u.ids) : PlaceOf(u, id) \in 1 .. Len(u.ids)
                                      /\ u.ids[PlaceOf(u, id)] = id
           /\ \A k \in 1 .. Len(u.ids) : PlaceOf(u, u.ids[k]) = k
           /\ \A b \in ToSet(u.boards) : PlaceOfBoard(u, b) \in 1 .. Len(u.boards)
                                        /\ u.boards[PlaceOfBoard(u, b)] = b
<1>1. DOMAIN u.ids = 1 .. Len(u.ids) /\ DOMAIN u.boards = 1 .. Len(u.boards)
  BY DEF UnitOK, RowLike
<1>2. \A id \in ToSet(u.ids) : PlaceOf(u, id) \in 1 .. Len(u.ids) /\ u.ids[PlaceOf(u, id)] = id
  BY <1>1 DEF ToSet, PlaceOf, Places
<1>3. \A b \in ToSet(u.boards) : PlaceOfBoard(u, b) \in 1 .. Len(u.boards)
                                 /\ u.boards[PlaceOfBoard(u, b)] = b
  BY <1>1 DEF ToSet, PlaceOfBoard
<1>4. \A k \in 1 .. Len(u.ids) : u.ids[k] \in ToSet(u.ids)
  BY <1>1 DEF ToSet
<1>5. \A k, l \in 1 .. Len(u.ids) : u.ids[k] = u.ids[l] => k = l
  BY <1>1 DEF UnitOK, IsInjective
<1>6. \A k \in 1 .. Len(u.ids) : PlaceOf(u, u.ids[k]) = k
  BY <1>2, <1>4, <1>5
<1> QED
  BY <1>2, <1>3, <1>6

\* merge_at() takes one board and one opening from a well-formed row.
LEMMA MergedFacts ==
    ASSUME NEW w, w.session.edits \in Nat, NEW u, UnitOK(u, w.session.edits + 1),
           NEW b \in ToSet(u.boards)
    PROVE  /\ UnitOK(Merged(w, u, b), w.session.edits + 1)
           /\ \A x : x \in ToSet(Merged(w, u, b).boards) <=> x \in ToSet(u.boards) /\ x # b
           /\ Len(Merged(w, u, b).boards) = Len(u.boards) - 1
<1> DEFINE n == w.session.edits
           k == PlaceOfBoard(u, b)
           locked == [u.locked EXCEPT ![k] = @ /\ u.locked[k + 1]]
           mm == Stamped(w, u.mm, {k})
           v == Merged(w, u, b)
<1>1. k \in 1 .. Len(u.boards) /\ u.boards[k] = b
  BY PlaceFacts
<1>2. /\ u.boards \in Seq(Boards) /\ IsInjective(u.boards) /\ Len(u.boards) < MaxOpenings
      /\ u.locked \in Seq(BOOLEAN) /\ Len(u.locked) = Len(u.boards) + 1
      /\ u.mm \in Seq(0 .. n + 1) /\ Len(u.mm) = Len(u.boards) + 1
      /\ u.ids \in Seq(Ids) /\ Len(u.ids) = Len(u.boards) + 1 /\ IsInjective(u.ids)
      /\ Len(u.boards) \in Nat
  BY DEF UnitOK, RowLike
<1>3. v = [boards |-> RemoveAt(u.boards, k), ids |-> RemoveAt(u.ids, k + 1),
           locked |-> RemoveAt(locked, k + 1), mm |-> RemoveAt(mm, k + 1)]
  BY DEF Merged
<1> HIDE DEF k
<1>4. locked \in Seq(BOOLEAN) /\ Len(locked) = Len(u.boards) + 1
  BY <1>1, <1>2
<1>5. mm \in Seq(0 .. n + 1) /\ Len(mm) = Len(u.boards) + 1
  <2> HIDE DEF mm
  <2> QED BY <1>2, StampedFacts DEF mm
<1> HIDE DEF locked, mm, v
<1>6. /\ RemoveAt(u.boards, k) \in Seq(Boards) /\ Len(RemoveAt(u.boards, k)) = Len(u.boards) - 1
      /\ IsInjective(RemoveAt(u.boards, k))
      /\ ToSet(RemoveAt(u.boards, k)) = ToSet(u.boards) \ {b}
  BY <1>1, <1>2, RemoveAtFacts, RemoveAtInjective
<1>7. k + 1 \in 1 .. Len(u.boards) + 1
  BY <1>1, <1>2
<1>8. /\ RemoveAt(u.ids, k + 1) \in Seq(Ids) /\ Len(RemoveAt(u.ids, k + 1)) = Len(u.boards)
      /\ IsInjective(RemoveAt(u.ids, k + 1))
  <2>1. k + 1 \in 1 .. Len(u.ids) BY <1>7, <1>2
  <2>2. Len(RemoveAt(u.ids, k + 1)) = Len(u.ids) - 1 BY <2>1, <1>2, RemoveAtFacts
  <2> QED BY <2>1, <2>2, <1>2, RemoveAtFacts, RemoveAtInjective
<1>9. RemoveAt(locked, k + 1) \in Seq(BOOLEAN) /\ Len(RemoveAt(locked, k + 1)) = Len(u.boards)
  <2>1. k + 1 \in 1 .. Len(locked) BY <1>7, <1>4
  <2>2. Len(RemoveAt(locked, k + 1)) = Len(locked) - 1 BY <2>1, <1>4, RemoveAtFacts
  <2> QED BY <2>1, <2>2, <1>2, <1>4, RemoveAtFacts
<1>10. RemoveAt(mm, k + 1) \in Seq(0 .. n + 1) /\ Len(RemoveAt(mm, k + 1)) = Len(u.boards)
  <2>1. k + 1 \in 1 .. Len(mm) BY <1>7, <1>5
  <2>2. Len(RemoveAt(mm, k + 1)) = Len(mm) - 1 BY <2>1, <1>5, RemoveAtFacts
  <2> QED BY <2>1, <2>2, <1>2, <1>5, RemoveAtFacts
<1>11. Len(u.boards) - 1 < MaxOpenings /\ Len(u.boards) = (Len(u.boards) - 1) + 1
  BY <1>2, BoundAssumption
<1>12. /\ DOMAIN v = {"boards", "locked", "mm", "ids"}
       /\ v.boards = RemoveAt(u.boards, k) /\ v.ids = RemoveAt(u.ids, k + 1)
       /\ v.locked = RemoveAt(locked, k + 1) /\ v.mm = RemoveAt(mm, k + 1)
  BY <1>3
<1>13. UnitOK(v, n + 1)
  BY <1>6, <1>8, <1>9, <1>10, <1>11, <1>12 DEF UnitOK, RowLike
<1> QED
  BY <1>6, <1>12, <1>13 DEF v

\* The fold of Remaining, with its invariant.
MergeIn(w, u, b) == IF b \in ToSet(u.boards) THEN Merged(w, u, b) ELSE u
RemainsSoFar(d, k, u) ==
    LET whole == d.world.session.unit
    IN  /\ UnitOK(u, d.world.session.edits + 1)
        /\ ToSet(u.boards) \subseteq ToSet(whole.boards)
        /\ ToSet(whole.boards) \ ToSet(d.taken) \subseteq ToSet(u.boards)
        /\ u = whole \/ Len(u.boards) < Len(whole.boards)
        /\ \A i \in 1 .. k : d.taken[i] \notin ToSet(u.boards)
Removing == INSTANCE FoldTheorems WITH Op <- MergeIn, P <- RemainsSoFar

\* remove_boards() takes the boards asked for and no other, and leaves a
\* well-formed row.
LEMMA RemainingFacts ==
    ASSUME NEW w, w.session.edits \in Nat, UnitOK(w.session.unit, w.session.edits),
           NEW S, NEW bs \in Seq(S)
    PROVE  LET u == w.session.unit
               v == Remaining(w, bs)
           IN  /\ UnitOK(v, w.session.edits + 1)
               /\ ToSet(v.boards) \subseteq ToSet(u.boards)
               /\ ToSet(u.boards) \ ToSet(bs) \subseteq ToSet(v.boards)
               /\ v = u \/ Len(v.boards) < Len(u.boards)
               /\ \A x \in ToSet(bs) : x \notin ToSet(v.boards)
<1> DEFINE d == [world |-> w, taken |-> bs]
           u == w.session.unit
<1>1. Remaining(w, bs) = Removing!Fold(w, u, bs)
  BY DEF Remaining, MergeIn, Removing!Fold, FoldLeft, Removing!FoldLeft, MapThenFoldSet,
         Removing!MapThenFoldSet, Max, Removing!Max
<1>2. RemainsSoFar(d, 0, u)
  BY UnitGrows DEF RemainsSoFar
<1>3. ASSUME NEW k \in 1 .. Len(bs), NEW v, RemainsSoFar(d, k - 1, v)
      PROVE  RemainsSoFar(d, k, MergeIn(w, v, bs[k]))
  <2>1. /\ UnitOK(v, w.session.edits + 1)
        /\ ToSet(v.boards) \subseteq ToSet(u.boards)
        /\ ToSet(u.boards) \ ToSet(bs) \subseteq ToSet(v.boards)
        /\ v = u \/ Len(v.boards) < Len(u.boards)
        /\ \A i \in 1 .. k - 1 : bs[i] \notin ToSet(v.boards)
    BY <1>3 DEF RemainsSoFar
  <2>2. CASE bs[k] \in ToSet(v.boards)
    <3> DEFINE m == Merged(w, v, bs[k])
    <3>1. /\ UnitOK(m, w.session.edits + 1)
          /\ \A x : x \in ToSet(m.boards) <=> x \in ToSet(v.boards) /\ x # bs[k]
          /\ Len(m.boards) = Len(v.boards) - 1
      <4>1. UnitOK(v, w.session.edits + 1) /\ w.session.edits \in Nat
        BY <2>1
      <4>2. PICK b : b = bs[k]
        OBVIOUS
      <4>3. b \in ToSet(v.boards)
        BY <4>2, <2>2
      <4>4. UnitOK(Merged(w, v, b), w.session.edits + 1)
        BY <4>1, <4>3, MergedFacts
      <4>5. \A x : x \in ToSet(Merged(w, v, b).boards) <=> x \in ToSet(v.boards) /\ x # b
        BY <4>1, <4>3, MergedFacts, Zenon
      <4>6. Len(Merged(w, v, b).boards) = Len(v.boards) - 1
        BY <4>1, <4>3, MergedFacts, Zenon
      <4> QED
        BY <4>2, <4>4, <4>5, <4>6 DEF m
    <3>2. bs[k] \in ToSet(bs)
      BY DEF ToSet
    <3>3. Len(v.boards) \in Nat /\ Len(u.boards) \in Nat
      BY <2>1 DEF UnitOK, RowLike
    <3>4. MergeIn(w, v, bs[k]) = m
      BY <2>2 DEF MergeIn
    <3> HIDE DEF m
    <3>5. Len(m.boards) < Len(u.boards)
      BY <2>1, <3>1, <3>3
    <3>6. \A i \in 1 .. k : bs[i] \notin ToSet(m.boards)
      <4> SUFFICES ASSUME NEW i \in 1 .. k PROVE bs[i] \notin ToSet(m.boards)
        OBVIOUS
      <4>1. i \in 1 .. k - 1 \/ i = k
        OBVIOUS
      <4> QED
        BY <4>1, <2>1, <3>1
    <3> QED
      BY <2>1, <3>1, <3>2, <3>4, <3>5, <3>6 DEF RemainsSoFar
  <2>3. CASE bs[k] \notin ToSet(v.boards)
    <3>1. \A i \in 1 .. k : bs[i] \notin ToSet(v.boards)
      <4> SUFFICES ASSUME NEW i \in 1 .. k PROVE bs[i] \notin ToSet(v.boards)
        OBVIOUS
      <4>1. i \in 1 .. k - 1 \/ i = k
        OBVIOUS
      <4> QED
        BY <4>1, <2>1, <2>3
    <3> QED
      BY <2>1, <2>3, <3>1 DEF MergeIn, RemainsSoFar
  <2> QED
    BY <2>2, <2>3
<1>4. RemainsSoFar(d, Len(bs), Removing!Fold(w, u, bs))
  <2> HIDE DEF d, u
  <2> QED
    BY <1>2, <1>3, Removing!FoldInvariant
<1>5. \A x \in ToSet(bs) : \E i \in 1 .. Len(bs) : x = bs[i]
  BY DEF ToSet
<1> QED
  BY <1>1, <1>4, <1>5 DEF RemainsSoFar

\* A list without repeats has none after a new member is inserted.
LEMMA InsertAtInjective ==
    ASSUME NEW S, NEW s \in Seq(S), NEW k \in 1 .. Len(s) + 1, NEW e \in S,
           IsInjective(s), e \notin ToSet(s)
    PROVE  IsInjective(InsertAt(s, k, e)) /\ ToSet(InsertAt(s, k, e)) = ToSet(s) \cup {e}
<1> DEFINE r == InsertAt(s, k, e)
<1>1. /\ r \in Seq(S) /\ Len(r) = Len(s) + 1
      /\ \A i \in 1 .. Len(s) + 1 : r[i] =
            IF i < k THEN s[i] ELSE IF i = k THEN e ELSE s[i - 1]
  BY InsertAtFacts
<1> HIDE DEF r
<1>2. DOMAIN r = 1 .. Len(s) + 1 /\ DOMAIN s = 1 .. Len(s) /\ Len(s) \in Nat
  BY <1>1
<1>3. \A i \in 1 .. Len(s) : s[i] # e
  BY <1>2 DEF ToSet
<1>4. \A i, j \in 1 .. Len(s) : s[i] = s[j] => i = j
  BY <1>2 DEF IsInjective
<1> DEFINE from(i) == IF i < k THEN i ELSE i - 1
<1>5. \A i \in 1 .. Len(s) + 1 : \/ i # k /\ from(i) \in 1 .. Len(s) /\ r[i] = s[from(i)]
                                 \/ i = k /\ r[i] = e
  BY <1>1, <1>2
<1>6. \A i, j \in 1 .. Len(s) + 1 : i # k /\ j # k /\ from(i) = from(j) => i = j
  BY <1>2
<1>7. \A i \in 1 .. Len(s) : \E j \in 1 .. Len(s) + 1 : j # k /\ from(j) = i
  <2> SUFFICES ASSUME NEW i \in 1 .. Len(s)
               PROVE  \E j \in 1 .. Len(s) + 1 : j # k /\ from(j) = i
    OBVIOUS
  <2>1. CASE i < k
    <3>1. i \in 1 .. Len(s) + 1 /\ i # k /\ from(i) = i BY <2>1, <1>2
    <3> QED BY <3>1
  <2>2. CASE ~(i < k)
    <3>1. i + 1 \in 1 .. Len(s) + 1 /\ i + 1 # k /\ from(i + 1) = i BY <2>2, <1>2
    <3> QED BY <3>1
  <2> QED BY <2>1, <2>2
<1> HIDE DEF from
<1>8. ASSUME NEW i \in 1 .. Len(s) + 1, NEW j \in 1 .. Len(s) + 1, r[i] = r[j]
      PROVE  i = j
  <2>1. CASE i # k /\ j # k
    <3>1. from(i) = from(j) BY <2>1, <1>4, <1>5, <1>8
    <3> QED BY <3>1, <2>1, <1>6
  <2>2. CASE i = k /\ j # k BY <2>2, <1>3, <1>5, <1>8
  <2>3. CASE i # k /\ j = k BY <2>3, <1>3, <1>5, <1>8
  <2> QED BY <2>1, <2>2, <2>3
<1>9. IsInjective(r)
  BY <1>2, <1>8 DEF IsInjective
<1>10. \A i \in 1 .. Len(s) : \E j \in 1 .. Len(s) + 1 : r[j] = s[i]
  BY <1>5, <1>7
<1>11. r[k] = e
  BY <1>5
<1>12. ToSet(r) = ToSet(s) \cup {e}
  <2>1. \A i \in 1 .. Len(s) + 1 : r[i] \in ToSet(s) \cup {e}
    BY <1>2, <1>5 DEF ToSet
  <2>2. \A i \in 1 .. Len(s) : s[i] \in ToSet(r)
    BY <1>2, <1>10 DEF ToSet
  <2>3. e \in ToSet(r)
    BY <1>2, <1>11 DEF ToSet
  <2> QED
    BY <2>1, <2>2, <2>3, <1>2 DEF ToSet
<1> QED
  BY <1>9, <1>12 DEF r

\* A list without repeats has none after two new members replace one.
LEMMA HalvedInjective ==
    ASSUME NEW S, NEW s \in Seq(S), NEW k \in 1 .. Len(s), NEW low \in S, NEW high \in S,
           IsInjective(s), low \notin ToSet(s), high \notin ToSet(s), low # high
    PROVE  IsInjective(Halved(s, k, low, high))
<1> DEFINE r == Halved(s, k, low, high)
<1>1. /\ r \in Seq(S) /\ Len(r) = Len(s) + 1
      /\ \A i \in 1 .. Len(s) + 1 : r[i] =
            IF i < k THEN s[i] ELSE IF i = k THEN low ELSE IF i = k + 1 THEN high ELSE s[i - 1]
  BY HalvedFacts
<1> HIDE DEF r
<1>2. DOMAIN r = 1 .. Len(s) + 1 /\ DOMAIN s = 1 .. Len(s) /\ Len(s) \in Nat
  BY <1>1
<1>3. \A i \in 1 .. Len(s) : s[i] # low /\ s[i] # high
  BY <1>2 DEF ToSet
<1>4. \A i, j \in 1 .. Len(s) : s[i] = s[j] => i = j
  BY <1>2 DEF IsInjective
<1> DEFINE from(i) == IF i < k THEN i ELSE i - 1
<1>5. \A i \in 1 .. Len(s) + 1 : \/ i \notin {k, k + 1} /\ from(i) \in 1 .. Len(s)
                                    /\ r[i] = s[from(i)]
                                 \/ i = k /\ r[i] = low
                                 \/ i = k + 1 /\ r[i] = high
  BY <1>1, <1>2
<1>6. \A i, j \in 1 .. Len(s) + 1 :
         i \notin {k, k + 1} /\ j \notin {k, k + 1} /\ from(i) = from(j) => i = j
  BY <1>2
<1> HIDE DEF from
<1>7. ASSUME NEW i \in 1 .. Len(s) + 1, NEW j \in 1 .. Len(s) + 1, r[i] = r[j]
      PROVE  i = j
  <2>1. CASE i \notin {k, k + 1} /\ j \notin {k, k + 1}
    <3>1. from(i) = from(j) BY <2>1, <1>4, <1>5, <1>7
    <3> QED BY <3>1, <2>1, <1>6
  <2>2. CASE i \in {k, k + 1} /\ j \notin {k, k + 1} BY <2>2, <1>3, <1>5, <1>7
  <2>3. CASE i \notin {k, k + 1} /\ j \in {k, k + 1} BY <2>3, <1>3, <1>5, <1>7
  <2>4. CASE i \in {k, k + 1} /\ j \in {k, k + 1} BY <2>4, <1>5, <1>7
  <2> QED BY <2>1, <2>2, <2>3, <2>4
<1>8. IsInjective(r)
  BY <1>2, <1>7 DEF IsInjective
<1> QED
  BY <1>8 DEF r

\* The row after an opening is split by a board, its halves with new ids.
SplitRow(u, n, k, b, ids) ==
    [boards |-> InsertAt(u.boards, k, b),
     ids |-> Halved(u.ids, k, ids[1], ids[2]),
     locked |-> Halved(u.locked, k, u.locked[k], u.locked[k]),
     mm |-> Halved(u.mm, k, n, n)]

\* v has the boards of u and one more.
OneMore(u, v) ==
    Len(v.boards) = Len(u.boards) + 1 /\ ToSet(u.boards) \subseteq ToSet(v.boards)

\* A split gives the row one opening more, both halves with new ids.
LEMMA SplitFacts ==
    ASSUME NEW n \in Nat, NEW u, UnitOK(u, n), NEW k \in 1 .. Len(u.ids),
           Len(u.ids) < MaxOpenings, NEW b \in Boards, b \notin ToSet(u.boards),
           NEW ids \in Seq(Ids), Len(ids) = 2, IsInjective(ids),
           ToSet(ids) \cap ToSet(u.ids) = {}
    PROVE  LET v == SplitRow(u, n + 1, k, b, ids)
           IN  UnitOK(v, n + 1) /\ OneMore(u, v)
<1> DEFINE v == SplitRow(u, n + 1, k, b, ids)
<1>1. UnitOK(u, n + 1)
  BY UnitGrows
<1>2. PICK bo, is, lo, mm : bo = u.boards /\ is = u.ids /\ lo = u.locked /\ mm = u.mm
  OBVIOUS
<1>3. /\ bo \in Seq(Boards) /\ IsInjective(bo) /\ Len(bo) \in Nat /\ Len(bo) + 1 < MaxOpenings
      /\ lo \in Seq(BOOLEAN) /\ Len(lo) = Len(bo) + 1
      /\ mm \in Seq(0 .. n + 1) /\ Len(mm) = Len(bo) + 1
      /\ is \in Seq(Ids) /\ Len(is) = Len(bo) + 1 /\ IsInjective(is)
  BY <1>1, <1>2 DEF UnitOK, RowLike
<1>4. PICK low, high : low = ids[1] /\ high = ids[2]
  OBVIOUS
<1>5. DOMAIN ids = {1, 2}
  OBVIOUS
<1>6. low \in Ids /\ high \in Ids /\ low # high /\ low \in ToSet(ids) /\ high \in ToSet(ids)
  <2>1. 1 \in 1 .. Len(ids) /\ 2 \in 1 .. Len(ids)
    OBVIOUS
  <2>4. ids[1] \in Ids /\ ids[2] \in Ids
    BY <2>1, ElementOfSeq
  <2>2. ids[1] # ids[2]
    BY <1>5 DEF IsInjective
  <2>3. ids[1] \in ToSet(ids) /\ ids[2] \in ToSet(ids)
    BY <1>5 DEF ToSet
  <2> QED
    BY <2>2, <2>3, <2>4, <1>4
<1>7. low \notin ToSet(is) /\ high \notin ToSet(is)
  BY <1>2, <1>6
<1>8. k \in 1 .. Len(bo) + 1 /\ b \notin ToSet(bo) /\ lo[k] \in BOOLEAN
  BY <1>2, <1>3
<1>9. /\ InsertAt(bo, k, b) \in Seq(Boards) /\ Len(InsertAt(bo, k, b)) = Len(bo) + 1
      /\ IsInjective(InsertAt(bo, k, b)) /\ ToSet(InsertAt(bo, k, b)) = ToSet(bo) \cup {b}
  BY <1>3, <1>8, InsertAtFacts, InsertAtInjective
<1>10. /\ Halved(is, k, low, high) \in Seq(Ids)
       /\ Len(Halved(is, k, low, high)) = Len(bo) + 2
       /\ IsInjective(Halved(is, k, low, high))
  <2>1. k \in 1 .. Len(is) BY <1>3, <1>8
  <2>2. Len(Halved(is, k, low, high)) = Len(is) + 1 BY <2>1, <1>3, <1>6, HalvedFacts
  <2> QED BY <2>1, <2>2, <1>3, <1>6, <1>7, HalvedFacts, HalvedInjective
<1>11. /\ Halved(lo, k, lo[k], lo[k]) \in Seq(BOOLEAN)
       /\ Len(Halved(lo, k, lo[k], lo[k])) = Len(bo) + 2
  <2>1. k \in 1 .. Len(lo) BY <1>3, <1>8
  <2>2. Len(Halved(lo, k, lo[k], lo[k])) = Len(lo) + 1 BY <2>1, <1>3, <1>8, HalvedFacts
  <2> QED BY <2>1, <2>2, <1>3, <1>8, HalvedFacts
<1>12. /\ Halved(mm, k, n + 1, n + 1) \in Seq(0 .. n + 1)
       /\ Len(Halved(mm, k, n + 1, n + 1)) = Len(bo) + 2
  <2>1. PICK S, x : S = 0 .. n + 1 /\ x = n + 1 OBVIOUS
  <2>2. x \in S /\ mm \in Seq(S) BY <2>1, <1>3
  <2>3. k \in 1 .. Len(mm) BY <1>3, <1>8
  <2>4. Halved(mm, k, x, x) \in Seq(S) /\ Len(Halved(mm, k, x, x)) = Len(mm) + 1
    BY <2>2, <2>3, HalvedFacts
  <2> QED BY <2>1, <2>4, <1>3
<1>13. /\ DOMAIN v = {"boards", "locked", "mm", "ids"}
       /\ v.boards = InsertAt(bo, k, b) /\ v.ids = Halved(is, k, low, high)
       /\ v.locked = Halved(lo, k, lo[k], lo[k]) /\ v.mm = Halved(mm, k, n + 1, n + 1)
  BY <1>2, <1>4 DEF SplitRow
<1> HIDE DEF v
<1>14. Len(v.boards) < MaxOpenings /\ Len(v.boards) + 1 = Len(bo) + 2
  BY <1>3, <1>9, <1>13
<1>15. UnitOK(v, n + 1)
  BY <1>9, <1>10, <1>11, <1>12, <1>13, <1>14 DEF UnitOK, RowLike
<1> QED
  BY <1>2, <1>9, <1>13, <1>15 DEF v, OneMore

\* The fold of Followed, with its invariant.
FollowIn(w, bs, e) ==
    IF e.name \in ToSet(bs) \cup (Names(w, TRUE) \cap Names(w, FALSE))
    THEN bs ELSE Append(bs, e.name)
FollowedSoFar(d, n, bs) ==
    LET entries == d.world.picked
    IN  /\ bs \in Seq(d.names) /\ IsInjective(bs)
        /\ \A i \in DOMAIN bs : \E j \in 1 .. n : bs[i] = entries[j].name
        /\ Names(d.world, FALSE) = {} =>
              Len(bs) = n /\ \A i \in 1 .. n : bs[i] = entries[i].name
FollowingPicks == INSTANCE FoldTheorems WITH Op <- FollowIn, P <- FollowedSoFar

\* Followed gives names of what is picked, none twice; where no part is picked
\* it gives them all, in the order picked.
LEMMA FollowedFacts ==
    ASSUME NEW w, NEW N, w.picked \in Seq([name : N, whole : BOOLEAN]), IsInjective(w.picked)
    PROVE  /\ Followed(w) \in Seq(N) /\ IsInjective(Followed(w))
           /\ \A x \in ToSet(Followed(w)) : \E e \in ToSet(w.picked) : x = e.name
           /\ Names(w, FALSE) = {} =>
                w.picked = [k \in DOMAIN Followed(w) |-> Entry(Followed(w)[k], TRUE)]
<1> DEFINE d == [world |-> w, names |-> N]
           s == w.picked
           f == Followed(w)
           S == [name : N, whole : BOOLEAN]
<1>1. f = FollowingPicks!Fold(w, << >>, s)
  BY DEF Followed, FollowIn, FollowingPicks!Fold, FoldLeft, FollowingPicks!FoldLeft, MapThenFoldSet,
         FollowingPicks!MapThenFoldSet, Max, FollowingPicks!Max
<1>2. FollowedSoFar(d, 0, << >>)
  BY DEF FollowedSoFar, IsInjective
<1> HIDE DEF f
<1>3. \A k \in 1 .. Len(s) : s[k] \in S /\ s[k] = [name |-> s[k].name, whole |-> s[k].whole]
                             /\ s[k].name \in N /\ s[k].whole \in BOOLEAN
  <2> SUFFICES ASSUME NEW k \in 1 .. Len(s)
               PROVE  s[k] \in S /\ s[k] = [name |-> s[k].name, whole |-> s[k].whole]
                      /\ s[k].name \in N /\ s[k].whole \in BOOLEAN
    OBVIOUS
  <2>1. s[k] \in S BY ElementOfSeq
  <2> QED BY <2>1
<1>4. DOMAIN s = 1 .. Len(s) /\ Len(s) \in Nat
  BY LenProperties
<1>5. Names(w, FALSE) = {} => \A k \in 1 .. Len(s) : s[k].whole
  <2> SUFFICES ASSUME NEW k \in 1 .. Len(s), ~s[k].whole PROVE Names(w, FALSE) # {}
    OBVIOUS
  <2>1. s[k] \in ToSet(w.picked) /\ s[k].whole = FALSE
    BY <1>3, <1>4 DEF ToSet
  <2> QED BY <2>1 DEF Names
<1>6. Names(w, FALSE) = {} => \A k, l \in 1 .. Len(s) : s[k].name = s[l].name => k = l
  <2> SUFFICES ASSUME Names(w, FALSE) = {}, NEW k \in 1 .. Len(s), NEW l \in 1 .. Len(s),
                      s[k].name = s[l].name
               PROVE  k = l
    OBVIOUS
  <2>1. s[k].whole = TRUE /\ s[l].whole = TRUE
    BY <1>3, <1>5
  <2>2. s[k] = s[l]
    BY <1>3, <2>1
  <2> QED
    BY <2>2, <1>4 DEF IsInjective
<1>7. ASSUME NEW k \in 1 .. Len(s), NEW u, FollowedSoFar(d, k - 1, u)
      PROVE  FollowedSoFar(d, k, FollowIn(w, u, s[k]))
  <2>1. /\ u \in Seq(N) /\ IsInjective(u)
        /\ \A i \in DOMAIN u : \E j \in 1 .. k - 1 : u[i] = s[j].name
        /\ Names(w, FALSE) = {} => Len(u) = k - 1 /\ \A i \in 1 .. k - 1 : u[i] = s[i].name
    BY <1>7 DEF FollowedSoFar
  <2>2. DOMAIN u = 1 .. Len(u) /\ Len(u) \in Nat BY <2>1
  <2>3. CASE s[k].name \in ToSet(u) \cup (Names(w, TRUE) \cap Names(w, FALSE))
    <3>1. FollowIn(w, u, s[k]) = u BY <2>3 DEF FollowIn
    <3>2. Names(w, FALSE) # {}
      <4> SUFFICES ASSUME Names(w, FALSE) = {} PROVE FALSE OBVIOUS
      <4>1. s[k].name \in ToSet(u) BY <2>3
      <4>2. PICK i \in 1 .. Len(u) : u[i] = s[k].name BY <4>1, <2>2 DEF ToSet
      <4>3. i \in 1 .. k - 1 /\ s[i].name = s[k].name BY <4>2, <2>1
      <4>4. i \in 1 .. Len(s) /\ i # k BY <4>3, <1>4
      <4> QED BY <4>3, <4>4, <1>6
    <3>3. \A i \in DOMAIN u : \E j \in 1 .. k : u[i] = s[j].name BY <2>1
    <3> QED BY <3>1, <3>2, <3>3, <2>1 DEF FollowedSoFar
  <2>4. CASE s[k].name \notin ToSet(u) \cup (Names(w, TRUE) \cap Names(w, FALSE))
    <3> DEFINE v == Append(u, s[k].name)
    <3>1. /\ v \in Seq(N) /\ Len(v) = Len(u) + 1 /\ DOMAIN v = 1 .. Len(u) + 1
          /\ v[Len(u) + 1] = s[k].name /\ \A i \in 1 .. Len(u) : v[i] = u[i]
      <4>1. PICK x : x = s[k].name OBVIOUS
      <4>2. x \in N BY <4>1, <1>3
      <4>3. u \in Seq(N) BY <2>1
      <4> QED BY <4>1, <4>2, <4>3
    <3>2. FollowIn(w, u, s[k]) = v BY <2>4 DEF FollowIn
    <3> HIDE DEF v
    <3>3. \A i \in 1 .. Len(u) : u[i] # s[k].name BY <2>4, <2>2 DEF ToSet
    <3>4. \A i \in DOMAIN v : i = Len(u) + 1 \/ i \in 1 .. Len(u) BY <3>1, <2>2
    <3>5. IsInjective(v) BY <2>1, <2>2, <3>1, <3>3, <3>4 DEF IsInjective
    <3>6. \A i \in DOMAIN v : \E j \in 1 .. k : v[i] = s[j].name
      <4> SUFFICES ASSUME NEW i \in DOMAIN v PROVE \E j \in 1 .. k : v[i] = s[j].name OBVIOUS
      <4>1. CASE i = Len(u) + 1 BY <4>1, <3>1
      <4>2. CASE i \in 1 .. Len(u) BY <4>2, <3>1, <2>1, <2>2
      <4> QED BY <4>1, <4>2, <3>4
    <3>7. Names(w, FALSE) = {} => Len(v) = k /\ \A i \in 1 .. k : v[i] = s[i].name
      <4> SUFFICES ASSUME Names(w, FALSE) = {}
                   PROVE  Len(v) = k /\ \A i \in 1 .. k : v[i] = s[i].name
        OBVIOUS
      <4>1. Len(u) = k - 1 /\ \A i \in 1 .. k - 1 : u[i] = s[i].name BY <2>1
      <4>2. Len(v) = k /\ v[k] = s[k].name BY <4>1, <3>1
      <4>3. \A i \in 1 .. k - 1 : v[i] = s[i].name BY <4>1, <3>1
      <4> QED BY <4>2, <4>3
    <3> QED BY <3>1, <3>2, <3>5, <3>6, <3>7 DEF FollowedSoFar
  <2> QED BY <2>3, <2>4
<1>8. FollowedSoFar(d, Len(s), f)
  <2> HIDE DEF d
  <2>1. s \in Seq(S) OBVIOUS
  <2> HIDE DEF s
  <2> QED BY <1>1, <1>2, <1>7, <2>1, FollowingPicks!FoldInvariant
<1>9. /\ f \in Seq(N) /\ IsInjective(f)
      /\ \A i \in DOMAIN f : \E j \in 1 .. Len(s) : f[i] = s[j].name
      /\ Names(w, FALSE) = {} => Len(f) = Len(s) /\ \A i \in 1 .. Len(s) : f[i] = s[i].name
  BY <1>8 DEF FollowedSoFar
<1>10. \A x \in ToSet(f) : \E e \in ToSet(s) : x = e.name
  BY <1>4, <1>9, ZenonT(40) DEF ToSet
<1>11. ASSUME Names(w, FALSE) = {}
       PROVE  s = [k \in DOMAIN f |-> Entry(f[k], TRUE)]
  <2>1. DOMAIN f = 1 .. Len(s)
    <3>1. f \in Seq(N) /\ Len(f) = Len(s) BY <1>9, <1>11
    <3> QED BY <3>1, LenProperties
  <2>2. \A k \in 1 .. Len(s) : s[k] = [name |-> f[k], whole |-> TRUE]
    BY <1>3, <1>5, <1>9, <1>11
  <2>3. s = [k \in 1 .. Len(s) |-> s[k]] BY <1>4
  <2> QED BY <2>1, <2>2, <2>3 DEF Entry
<1> QED
  BY <1>9, <1>10, <1>11 DEF f

\* The ids something still mentions are finitely many.
LEMMA MentionedIsFinite ==
    ASSUME NEW w, NEW A, NEW B, NEW C, NEW D, w.session.unit.ids \in Seq(A),
           w.session.selection \in Seq(B), w.editor.drawn.unit.ids \in Seq(C), w.jobs \in Seq(D)
    PROVE  IsFiniteSet(Mentioned(w))
<1> DEFINE opens == {j \in ToSet(w.jobs) : j.kind = "open"}
           ids == {j.id : j \in opens}
           f == [j \in opens |-> j.id]
<1>1. IsFiniteSet(opens)
  <2>1. IsFiniteSet(ToSet(w.jobs)) BY ToSetIsFinite
  <2> QED BY <2>1, FS_Subset
<1>2. f \in Surjection(opens, ids)
  BY DEF Surjection
<1>3. IsFiniteSet(ids)
  <2> HIDE DEF opens, ids, f
  <2> QED BY <1>1, <1>2, FS_Surjection
<1>4. /\ IsFiniteSet(ToSet(w.session.unit.ids)) /\ IsFiniteSet(ToSet(w.session.selection))
      /\ IsFiniteSet(ToSet(w.editor.drawn.unit.ids))
  BY ToSetIsFinite
<1>5. IsFiniteSet(IF w.editor.field = Nothing THEN {} ELSE {w.editor.field.region})
  BY FS_EmptySet, FS_Singleton
<1> DEFINE a == ToSet(w.session.unit.ids) \cup ToSet(w.session.selection)
           b == a \cup ToSet(w.editor.drawn.unit.ids)
           c == b \cup ids
<1>6. IsFiniteSet(a) BY <1>4, FS_Union
<1>7. IsFiniteSet(b) BY <1>4, <1>6, FS_Union
<1>8. IsFiniteSet(c)
  <2> HIDE DEF b, ids
  <2> QED BY <1>3, <1>7, FS_Union
<1>9. Mentioned(w) = c \cup (IF w.editor.field = Nothing THEN {} ELSE {w.editor.field.region})
  BY DEF Mentioned
<1> HIDE DEF c
<1> QED
  BY <1>5, <1>8, <1>9, FS_Union

\* A row read back, with ids that nothing mentions.
LEMMA ReadFacts ==
    ASSUME NEW n, NEW row, Stored(row, n), NEW used, IsFiniteSet(used)
    PROVE  LET u == [boards |-> row.boards, locked |-> row.locked, mm |-> row.mm,
                     ids |-> NewIds(used, Len(row.locked))]
           IN  UnitOK(u, n) /\ Bare(u) = row /\ ToSet(u.ids) \cap used = {}
<1> DEFINE ids == NewIds(used, Len(row.locked))
           u == [boards |-> row.boards, locked |-> row.locked, mm |-> row.mm, ids |-> ids]
<1>1. Len(row.locked) \in Nat /\ Len(row.locked) = Len(row.boards) + 1
  BY DEF Stored, RowLike
<1>2. /\ ids \in Seq(Ids) /\ Len(ids) = Len(row.locked) /\ IsInjective(ids)
      /\ ToSet(ids) \cap used = {}
  BY <1>1, NewIdsFacts
<1> HIDE DEF ids
<1>3. UnitOK(u, n)
  BY <1>1, <1>2 DEF UnitOK, RowLike, Stored
<1>4. Bare(u) = row
  BY DEF Stored, Bare
<1> QED
  BY <1>2, <1>3, <1>4 DEF ids

\* Every set of naturals has a least member, and one with a bound a greatest.
LEMMA MinFacts ==
    ASSUME NEW T, T \subseteq Nat, T # {}
    PROVE  Min(T) \in T
<1>1. PICK i \in T : \A j \in T : ~(<<j, i>> \in OpToRel(<, Nat))
  BY NatLessThanWellFounded, WFMin
<1>2. \A j \in T : j \in Nat /\ i \in Nat
  OBVIOUS
<1>3. \A j \in T : ~(j < i)
  <2> SUFFICES ASSUME NEW j \in T, j < i PROVE FALSE
    OBVIOUS
  <2>1. <<j, i>> \in OpToRel(<, Nat)
    BY <1>2, Zenon DEF OpToRel
  <2> QED
    BY <2>1, <1>1
<1>4. \A j \in T : i <= j
  BY <1>2, <1>3
<1> QED
  BY <1>4 DEF Min

\* A bounded set of positive naturals that is not empty has a greatest member.
LEMMA MaxFacts ==
    ASSUME NEW n \in Nat, NEW T, T \subseteq 1 .. n, T # {}
    PROVE  Max(T) \in T
<1> DEFINE U == {n - i : i \in T}
<1>1. U \subseteq Nat /\ U # {}
  <2>1. \A i \in T : n - i \in Nat
    OBVIOUS
  <2>2. PICK x : x \in T
    OBVIOUS
  <2>3. n - x \in U
    BY <2>2
  <2> QED
    BY <2>1, <2>3
<1>2. PICK m \in U : \A j \in U : ~(<<j, m>> \in OpToRel(<, Nat))
  <2> HIDE DEF U
  <2> QED
    BY <1>1, NatLessThanWellFounded, WFMin
<1>3. \A j \in U : ~(j < m)
  <2> SUFFICES ASSUME NEW j \in U, j < m PROVE FALSE
    OBVIOUS
  <2>1. j \in Nat /\ m \in Nat
    BY <1>1
  <2>2. <<j, m>> \in OpToRel(<, Nat)
    BY <2>1, Zenon DEF OpToRel
  <2> QED
    BY <2>2, <1>2
<1>4. PICK i \in T : m = n - i
  OBVIOUS
<1>5. \A j \in T : i >= j
  <2> SUFFICES ASSUME NEW j \in T PROVE i >= j
    OBVIOUS
  <2>1. n - j \in U
    OBVIOUS
  <2>2. ~(n - j < n - i)
    BY <2>1, <1>3, <1>4
  <2>3. i \in Nat /\ j \in Nat
    OBVIOUS
  <2> QED
    BY <2>2, <2>3
<1> QED
  BY <1>5 DEF Max

\* An edit of sizes and locks alone leaves a well-formed row.
LEMMA SameRowIsUnit ==
    ASSUME NEW n \in Nat, NEW u, UnitOK(u, n), NEW v, DOMAIN v = DOMAIN u,
           v.boards = u.boards, v.ids = u.ids,
           v.locked \in Seq(BOOLEAN), Len(v.locked) = Len(u.locked),
           v.mm \in Seq(0 .. n + 1), Len(v.mm) = Len(u.mm)
    PROVE  UnitOK(v, n + 1)
BY DEF UnitOK, RowLike

------------------------------------------------------------------------------
(* The invariant: what holds of the session, the document, the two selections, *)
(* the queue and the drawing between any two steps.                          *)

\* The callbacks the editor hands to Qt, by what queues them.
Kinds == {"settle", "refresh", "follow", "click", "open", "closeField", "delete", "side"}
\* What the session may hold selected as a board.
BoardNames == Boards \cup {Shell}
\* A list, of whatever.
IsSeq(s) == \E S : s \in Seq(S)
\* A callback of this kind is queued.
HasJob(w, kind) == \E j \in ToSet(w.jobs) : j.kind = kind

\* A world has the parts the editor, the session and the document have.
Shaped(w) ==
    /\ DOMAIN w = {"session", "document", "picked", "jobs", "editor", "view"}
    /\ DOMAIN w.session = {"unit", "selection", "drag", "edits", "open"}
    /\ DOMAIN w.document = {"row", "past", "pending"}
    /\ DOMAIN w.editor = {"closed", "field", "focus", "drawn", "boards", "arrow", "held", "bar",
                          "dragging", "followQueued", "refreshQueued", "sideQueued"}
    /\ DOMAIN w.view = {"side", "gone"}
    /\ IsSeq(w.jobs)

\* A flag that a callback is queued is never up without the callback: were it,
\* no later change would queue one (_queue_change returns while the flag is up).
Flagged(w) ==
    /\ w.editor.followQueued => HasJob(w, "follow")
    /\ w.editor.refreshQueued => HasJob(w, "refresh")
    /\ w.editor.sideQueued => HasJob(w, "side")

\* The session's unit and every row of the document's history are well formed,
\* and but for an Undo not yet read back the document stores the session's unit.
Rows(w) ==
    /\ w.session.edits \in Nat
    /\ UnitOK(w.session.unit, w.session.edits)
    /\ Stored(w.document.row, w.session.edits)
    /\ IsSeq(w.document.past)
    /\ \A r \in ToSet(w.document.past) : Stored(r, w.session.edits)
    /\ w.document.pending \/ w.document.row = Bare(w.session.unit)

\* The session has boards or openings selected, never both; an opening may be gone,
\* a board not.
Selection(w) ==
    /\ w.session.selection \in Seq(Ids \cup BoardNames)
    /\ \/ ToSet(w.session.selection) \subseteq BoardIds(w.session.unit)
       \/ ToSet(w.session.selection) \subseteq Ids

\* What is queued is a callback of the editor's; a field is opened on an opening.
Waiting(w) == \A j \in ToSet(w.jobs) : j.kind \in Kinds /\ (j.kind = "open" => j.id \in Ids)

\* A size field, once opened.
Fields == [region : Ids, text : {"shown", "typed", "unreadable"}, applied : BOOLEAN]

\* A field stands only while the editor is open, and has the focus only if it
\* stands; what is drawn over the unit names its boards.
Attributes(w) ==
    /\ w.editor.drawn.unit.ids \in Seq(Ids)
    /\ w.editor.field # Nothing => w.editor.field \in Fields /\ ~w.editor.closed
    /\ w.editor.focus => w.editor.field # Nothing
    /\ w.editor.boards \subseteq BoardNames
    /\ w.editor.arrow \in Boards \cup {Nothing} /\ w.editor.held \in Boards \cup {Nothing}
    /\ w.session.drag # Nothing => DOMAIN w.session.drag = {"board", "moved"}

\* FreeCAD has objects of the document selected, none twice, and of them only what
\* _BoardGate admits.
Picks(w) ==
    /\ w.picked \in Seq([name : BoardNames \cup {Aside}, whole : BOOLEAN])
    /\ IsInjective(w.picked)
    /\ \A e \in ToSet(w.picked) :
          InDocument(w, e.name) /\ e.name \in BoardIds(w.session.unit) \cup {Aside}

\* What holds between any two steps of a handler, not only between two events.
Base(w) ==
    /\ Shaped(w) /\ Flagged(w) /\ Rows(w) /\ Selection(w)
    /\ Waiting(w) /\ Attributes(w) /\ Picks(w)

\* The drawing shows the unit's boards and openings under the ids they have, so
\* that a label or a board clicked is what it looks like.
Shown(w) ==
    \/ w.editor.closed
    \/ /\ w.editor.drawn.selection = w.session.selection
       /\ w.editor.drawn.unit.boards = w.session.unit.boards
       /\ w.editor.drawn.unit.ids = w.session.unit.ids
       /\ w.editor.drawn.unit.locked = w.session.unit.locked
       /\ w.editor.boards = BoardIds(w.session.unit)

\* The drawing shows the session's unit and selection, or its redraw is queued.
Current(w) ==
    \/ w.editor.closed \/ w.view.gone \/ w.editor.dragging \/ w.editor.refreshQueued
    \/ /\ w.editor.drawn.unit = w.session.unit
       /\ w.editor.drawn.selection = w.session.selection
       /\ w.editor.sideQueued \/ w.editor.drawn.side = w.view.side
       /\ w.editor.boards = BoardIds(w.session.unit)
       /\ w.editor.arrow = ArrowFor(w)
       /\ w.editor.held = HeldFor(w)
       /\ w.editor.bar = BarFor(w)

\* FreeCAD's selection is still to be followed, or holds what no board is.
FollowsOn(w) ==
    \/ HasJob(w, "follow")
    \/ Entry(Aside, TRUE) \in ToSet(w.picked) \/ Entry(Aside, FALSE) \in ToSet(w.picked)
\* The session's boards are FreeCAD's selection, in the same order.
Held(w) ==
    \/ w.editor.closed \/ FollowsOn(w)
    \/ SelectedBoards(w) = << >>
    \/ w.picked = [k \in DOMAIN SelectedBoards(w) |-> Entry(SelectedBoards(w)[k], TRUE)]

\* While the mouse drags no click or focus of its own is waiting.
HandsFree(w) == w.editor.dragging => ~HasJob(w, "open") /\ ~HasJob(w, "click") /\ ~w.editor.focus
\* The board dragged is none of the unit's: an Undo took it.
Loose(w) == w.session.drag = Nothing \/ w.session.drag.board \notin ToSet(w.session.unit.boards)
\* A drag ends with what it began with: the board is all that is selected, and no
\* Undo waits to be read back.
DragHolds(w) ==
    \/ w.session.drag = Nothing
    \/ /\ ~w.document.pending /\ w.editor.dragging
       /\ \/ Loose(w)
          \/ ~HasJob(w, "follow") /\ w.session.selection = <<w.session.drag.board>>
\* The two of an open editor.
Drag(w) == w.editor.closed \/ (HandsFree(w) /\ DragHolds(w))

\* What an edit's handler needs of the world before it draws.
Core(w) == Base(w) /\ Held(w) /\ Drag(w)
\* The inductive invariant.
Good(w) == Core(w) /\ Shown(w) /\ Current(w)

(***************************************************************************)
(* The queue and FreeCAD's selection.                                      *)
(***************************************************************************)
\* A list with one callback more holds that one and those before.
LEMMA AppendIsSeq ==
    ASSUME NEW s, NEW x, IsSeq(s)
    PROVE  IsSeq(Append(s, x)) /\ ToSet(Append(s, x)) = ToSet(s) \cup {x}
<1>1. PICK S : s \in Seq(S)
  BY DEF IsSeq
<1>2. s \in Seq(S \cup {x})
  BY <1>1
<1> DEFINE t == Append(s, x)
<1>3. /\ t \in Seq(S \cup {x}) /\ DOMAIN t = DOMAIN s \cup {Len(s) + 1}
      /\ t[Len(s) + 1] = x /\ \A k \in DOMAIN s : t[k] = s[k]
  BY <1>2
<1> HIDE DEF t
<1>4. ToSet(t) = ToSet(s) \cup {x}
  BY <1>3 DEF ToSet
<1> QED
  BY <1>3, <1>4 DEF t, IsSeq

\* Everything but the flag of a queued change is as it was.
SameEditor(w, v) ==
    /\ DOMAIN v.editor = DOMAIN w.editor
    /\ v.editor.closed = w.editor.closed /\ v.editor.field = w.editor.field
    /\ v.editor.focus = w.editor.focus /\ v.editor.drawn = w.editor.drawn
    /\ v.editor.boards = w.editor.boards /\ v.editor.arrow = w.editor.arrow
    /\ v.editor.held = w.editor.held /\ v.editor.bar = w.editor.bar
    /\ v.editor.dragging = w.editor.dragging
    /\ v.editor.refreshQueued = w.editor.refreshQueued
    /\ v.editor.sideQueued = w.editor.sideQueued

\* Nothing but "follow" is queued, and the flag says so.
FollowQueued(w, v) ==
    /\ DOMAIN v = DOMAIN w /\ v.view = w.view /\ SameEditor(w, v)
    /\ IsSeq(v.jobs)
    /\ ToSet(w.jobs) \subseteq ToSet(v.jobs)
    /\ ToSet(v.jobs) \subseteq ToSet(w.jobs) \cup {Job("follow")}
    /\ v.editor.followQueued => HasJob(v, "follow")

\* freecad_selection_changed() queues the follow-up and changes nothing else.
LEMMA SelectionChangedFacts ==
    ASSUME NEW w, Shaped(w), Flagged(w)
    PROVE  LET v == SelectionChanged(w)
           IN  /\ FollowQueued(w, v)
               /\ v.session = w.session /\ v.document = w.document /\ v.picked = w.picked
               /\ w.editor.closed \/ HasJob(v, "follow")
<1> DEFINE v == SelectionChanged(w)
<1>1. CASE w.editor.closed \/ w.editor.followQueued
  <2>1. v = w
    BY <1>1 DEF SelectionChanged
  <2> QED
    BY <2>1, <1>1 DEF Shaped, Flagged, FollowQueued, SameEditor
<1>2. CASE ~(w.editor.closed \/ w.editor.followQueued)
  <2>1. v = Queue([w EXCEPT !.editor.followQueued = TRUE], Job("follow"))
    BY <1>2 DEF SelectionChanged
  <2>2. /\ v.jobs = Append(w.jobs, Job("follow")) /\ v.session = w.session
        /\ v.document = w.document /\ v.picked = w.picked /\ v.view = w.view
        /\ DOMAIN v = DOMAIN w /\ SameEditor(w, v)
    BY <2>1 DEF Queue, Shaped, SameEditor
  <2>3. IsSeq(v.jobs) /\ ToSet(v.jobs) = ToSet(w.jobs) \cup {Job("follow")}
    BY <2>2, AppendIsSeq DEF Shaped
  <2>4. HasJob(v, "follow")
    <3>1. Job("follow") \in ToSet(v.jobs)
      BY <2>3
    <3>2. Job("follow").kind = "follow"
      BY DEF Job
    <3> QED
      BY <3>1, <3>2 DEF HasJob
  <2> QED
    BY <2>2, <2>3, <2>4 DEF FollowQueued
<1> QED
  BY <1>1, <1>2

\* A change of FreeCAD's selection is followed, if the editor is open.
LEMMA PickFacts ==
    ASSUME NEW w, Shaped(w), Flagged(w), NEW entries
    PROVE  LET v == Pick(w, entries)
           IN  /\ FollowQueued(w, v)
               /\ v.session = w.session /\ v.document = w.document /\ v.picked = entries
               /\ v = w \/ w.editor.closed \/ HasJob(v, "follow")
               /\ entries = w.picked => v = w
<1> DEFINE x == [w EXCEPT !.picked = entries]
           v == Pick(w, entries)
<1>1. CASE entries = w.picked
  BY <1>1 DEF Pick, Shaped, Flagged, FollowQueued, SameEditor
<1>2. CASE entries # w.picked
  <2>1. v = SelectionChanged(x)
    BY <1>2 DEF Pick
  <2>2. /\ x.session = w.session /\ x.document = w.document /\ x.picked = entries
        /\ x.jobs = w.jobs /\ x.editor = w.editor /\ x.view = w.view /\ DOMAIN x = DOMAIN w
    BY DEF Shaped
  <2> HIDE DEF x, v
  <2>3. Shaped(x) /\ Flagged(x)
    BY <2>2 DEF Shaped, Flagged, HasJob
  <2>4. /\ FollowQueued(x, v)
        /\ v.session = x.session /\ v.document = x.document /\ v.picked = x.picked
        /\ x.editor.closed \/ HasJob(v, "follow")
    BY <2>1, <2>3, SelectionChangedFacts
  <2> QED
    BY <2>2, <2>4, <1>2 DEF FollowQueued, SameEditor, v
<1> QED
  BY <1>1, <1>2

\* The selection that names what is given, as whole objects.
Wanted(names) == [k \in DOMAIN names |-> Entry(names[k], TRUE)]

\* select_in_freecad() leaves FreeCAD's selection as asked, or as much of it as
\* the document has, and then the follow-up is queued.
LEMMA SelectInFreeCADFacts ==
    ASSUME NEW w, Shaped(w), Flagged(w), NEW names
    PROVE  LET v == SelectInFreeCAD(w, names)
           IN  /\ FollowQueued(w, v)
               /\ v.session = w.session /\ v.document = w.document
               /\ \/ v = w /\ w.picked = Wanted(names)
                  \/ /\ w.picked # Wanted(names) /\ v.picked = Present(w, Wanted(names))
                     /\ w.editor.closed \/ HasJob(v, "follow")
<1> DEFINE x == [w EXCEPT !.picked = Present(w, Wanted(names))]
           v == SelectInFreeCAD(w, names)
<1>1. CASE Wanted(names) = w.picked
  <2>1. v = w
    BY <1>1 DEF SelectInFreeCAD, Wanted
  <2> QED
    BY <2>1, <1>1 DEF Shaped, Flagged, FollowQueued, SameEditor
<1>2. CASE Wanted(names) # w.picked
  <2>1. v = SelectionChanged(x)
    BY <1>2 DEF SelectInFreeCAD, Wanted
  <2>2. /\ x.session = w.session /\ x.document = w.document
        /\ x.picked = Present(w, Wanted(names))
        /\ x.jobs = w.jobs /\ x.editor = w.editor /\ x.view = w.view /\ DOMAIN x = DOMAIN w
    BY DEF Shaped
  <2> HIDE DEF x, v
  <2>3. Shaped(x) /\ Flagged(x)
    BY <2>2 DEF Shaped, Flagged, HasJob
  <2>4. /\ FollowQueued(x, v)
        /\ v.session = x.session /\ v.document = x.document /\ v.picked = x.picked
        /\ x.editor.closed \/ HasJob(v, "follow")
    BY <2>1, <2>3, SelectionChangedFacts
  <2> QED
    BY <2>2, <2>4, <1>2 DEF FollowQueued, SameEditor, v
<1> QED
  BY <1>1, <1>2

\* A change of the document takes what it deletes out of FreeCAD's selection, and
\* the follow-up is queued if anything went.
LEMMA RewriteFacts ==
    ASSUME NEW w, Shaped(w), Flagged(w), NEW row
    PROVE  LET v == Rewrite(w, row)
           IN  /\ FollowQueued(w, v) /\ v.session = w.session
               /\ v.document = [w.document EXCEPT !.row = row]
               /\ v.picked = Present(v, w.picked)
               /\ \/ v.picked = w.picked /\ v.jobs = w.jobs
                     /\ v.editor.followQueued = w.editor.followQueued
                  \/ w.editor.closed \/ HasJob(v, "follow")
               /\ v.picked = w.picked => v.jobs = w.jobs
<1> DEFINE x == [w EXCEPT !.document.row = row]
           v == Rewrite(w, row)
           now == Present(x, w.picked)
<1>1. v = Pick(x, now)
  BY DEF Rewrite, Shaped
<1>2. /\ x.session = w.session /\ x.document = [w.document EXCEPT !.row = row]
      /\ x.picked = w.picked /\ x.jobs = w.jobs /\ x.editor = w.editor /\ x.view = w.view
      /\ DOMAIN x = DOMAIN w
  BY DEF Shaped
<1> HIDE DEF x, v, now
<1>3. Shaped(x) /\ Flagged(x)
  BY <1>2 DEF Shaped, Flagged, HasJob
<1>4. /\ FollowQueued(x, v)
      /\ v.session = x.session /\ v.document = x.document /\ v.picked = now
      /\ v = x \/ x.editor.closed \/ HasJob(v, "follow")
      /\ now = x.picked => v = x
  BY <1>1, <1>3, PickFacts
<1>5. now = Present(v, w.picked)
  BY <1>4 DEF now, Present, InDocument
<1>6. FollowQueued(w, v)
  BY <1>2, <1>4 DEF FollowQueued, SameEditor
<1> QED
  BY <1>2, <1>4, <1>5, <1>6 DEF v

\* No name is an id, and no two names are the same.
LEMMA NamesAreNoIds == BoardNames \cap Ids = {} /\ Nothing \notin BoardNames \cup Ids
<1>1. \A name \in Boards \cup {Shell, Aside, Nothing} : name \notin Nat
  BY NamesAssumption
<1> QED
  BY <1>1, NamesAssumption DEF BoardNames, Ids

\* What is selected is whole boards of the unit, or openings.
LEMMA SelectedBoardsFacts ==
    ASSUME NEW w, Rows(w), Selection(w)
    PROVE  /\ ToSet(w.session.selection) \subseteq BoardIds(w.session.unit)
                => SelectedBoards(w) = w.session.selection
           /\ ToSet(w.session.selection) \subseteq Ids => SelectedBoards(w) = << >>
           /\ BoardIds(w.session.unit) \subseteq BoardNames
<1> DEFINE s == w.session.selection
           T == BoardIds(w.session.unit)
           S == Ids \cup BoardNames
<1>1. s \in Seq(S)
  BY DEF Selection
<1>2. /\ SelectedBoards(w) \in Seq(S) /\ ToSet(SelectedBoards(w)) \subseteq ToSet(s) \cap T
      /\ ToSet(s) \subseteq T => SelectedBoards(w) = s
  <2> HIDE DEF s, T, S
  <2> QED
    BY <1>1, WithinFacts DEF SelectedBoards, s, T
<1>3. T \subseteq BoardNames
  <2>1. w.session.unit.boards \in Seq(Boards)
    BY DEF Rows, UnitOK, RowLike
  <2>2. ToSet(w.session.unit.boards) \subseteq Boards
    BY <2>1, ToSetIsFinite
  <2> QED
    BY <2>2 DEF BoardIds, BoardNames
<1>4. ASSUME ToSet(s) \subseteq Ids
      PROVE  SelectedBoards(w) = << >>
  <2>1. ToSet(SelectedBoards(w)) = {}
    BY <1>2, <1>3, <1>4, NamesAreNoIds
  <2>2. DOMAIN SelectedBoards(w) = {}
    BY <2>1 DEF ToSet
  <2> QED
    BY <1>2, <2>2, EmptySeq
<1> QED
  BY <1>2, <1>3, <1>4

\* Queueing "follow" and nothing else keeps what holds, where FreeCAD's
\* selection stays one of what there is.
LEMMA FollowQueuedKeeps ==
    ASSUME NEW w, NEW v, Base(w), FollowQueued(w, v), v.session = w.session,
           v.document = w.document, Picks(v)
    PROVE  /\ Base(v)
           /\ Shown(w) => Shown(v)
           /\ Current(w) => Current(v)
           /\ HandsFree(w) => HandsFree(v)
           /\ Loose(w) /\ DragHolds(w) => Loose(v) /\ DragHolds(v)
           /\ ToSet(v.jobs) = ToSet(w.jobs) /\ DragHolds(w) => DragHolds(v)
<1>1. \A j \in ToSet(v.jobs) : j \in ToSet(w.jobs) \/ j.kind = "follow"
  BY DEF FollowQueued, Job
<1>2. \A kind : HasJob(w, kind) => HasJob(v, kind)
  BY DEF FollowQueued, HasJob
<1>3. \A kind : HasJob(v, kind) => kind = "follow" \/ HasJob(w, kind)
  BY <1>1 DEF HasJob
<1>4. Shaped(v)
  BY DEF Base, Shaped, FollowQueued, SameEditor
<1>5. Flagged(v)
  BY <1>2 DEF Base, Flagged, FollowQueued, SameEditor
<1>6. Rows(v) /\ Selection(v)
  BY DEF Base, Rows, Selection
<1>7. Waiting(v)
  <2>1. \A j \in ToSet(v.jobs) : j \in ToSet(w.jobs) \/ (j.kind \in Kinds /\ j.kind # "open")
    BY <1>1 DEF Kinds
  <2> QED
    BY <2>1 DEF Base, Waiting
<1>8. Attributes(v)
  BY DEF Base, Attributes, FollowQueued, SameEditor
<1>9. Shown(w) => Shown(v)
  BY DEF Shown, FollowQueued, SameEditor
<1>10. ArrowFor(v) = ArrowFor(w) /\ HeldFor(v) = HeldFor(w) /\ BarFor(v) = BarFor(w)
  BY DEF ArrowFor, HeldFor, BarFor, SelectedInner, SelectedId
<1>11. Current(w) => Current(v)
  BY <1>10 DEF Current, FollowQueued, SameEditor
<1>12. HandsFree(w) => HandsFree(v)
  BY <1>3 DEF HandsFree, FollowQueued, SameEditor
<1>13. Loose(w) /\ DragHolds(w) => Loose(v) /\ DragHolds(v)
  BY DEF Loose, DragHolds, FollowQueued, SameEditor
<1>14. ToSet(v.jobs) = ToSet(w.jobs) /\ DragHolds(w) => DragHolds(v)
  BY DEF DragHolds, Loose, FollowQueued, SameEditor, HasJob
<1> QED
  BY <1>4, <1>5, <1>6, <1>7, <1>8, <1>9, <1>11, <1>12, <1>13, <1>14 DEF Base

\* What FreeCAD's selection may hold.
Entries == [name : BoardNames \cup {Aside}, whole : BOOLEAN]

\* FreeCAD selects what the document has of what it is asked to select.
LEMMA PresentFacts ==
    ASSUME NEW w, NEW entries \in Seq(Entries), IsInjective(entries)
    PROVE  LET now == Present(w, entries)
           IN  /\ now \in Seq(Entries) /\ IsInjective(now)
               /\ \A e \in ToSet(now) : e \in ToSet(entries) /\ InDocument(w, e.name)
               /\ (\A e \in ToSet(entries) : InDocument(w, e.name)) => now = entries
<1> DEFINE T == {e \in ToSet(entries) : InDocument(w, e.name)}
           now == Present(w, entries)
<1>1. now = Within(entries, T)
  BY DEF Present
<1> HIDE DEF now
<1>2. /\ now \in Seq(Entries) /\ ToSet(now) \subseteq ToSet(entries) \cap T
      /\ IsInjective(now) /\ (ToSet(entries) \subseteq T => now = entries)
  <2> HIDE DEF T
  <2> QED
    BY <1>1, WithinFacts
<1> QED
  BY <1>2 DEF now

\* Names without repeats make entries without repeats.
LEMMA WantedFacts ==
    ASSUME NEW S, S \subseteq BoardNames, NEW names \in Seq(S), IsInjective(names)
    PROVE  /\ Wanted(names) \in Seq(Entries) /\ IsInjective(Wanted(names))
           /\ \A e \in ToSet(Wanted(names)) : e.name \in S
<1> DEFINE t == Wanted(names)
<1>1. DOMAIN names = 1 .. Len(names) /\ Len(names) \in Nat
  BY LenProperties
<1>2. t = [k \in 1 .. Len(names) |-> [name |-> names[k], whole |-> TRUE]]
  BY <1>1 DEF Wanted, Entry
<1>3. \A k \in 1 .. Len(names) : names[k] \in S
  BY ElementOfSeq
<1>4. \A k \in 1 .. Len(names) : [name |-> names[k], whole |-> TRUE] \in Entries
  BY <1>3 DEF Entries
<1> HIDE DEF t
<1>5. t \in Seq(Entries) /\ DOMAIN t = 1 .. Len(names)
  BY <1>1, <1>2, <1>4
<1>6. \A k \in 1 .. Len(names) : t[k].name = names[k]
  BY <1>2
<1>7. IsInjective(t)
  BY <1>1, <1>5, <1>6 DEF IsInjective
<1>8. \A e \in ToSet(t) : e.name \in S
  BY <1>3, <1>5, <1>6 DEF ToSet
<1> QED
  BY <1>5, <1>7, <1>8 DEF t

\* Boards of the unit are selected in FreeCAD, or all but those the document has
\* no more, in which case the editor is still to follow.
LEMMA SelectInFreeCADKeeps ==
    ASSUME NEW w, Base(w), NEW names \in Seq(BoardIds(w.session.unit)), IsInjective(names)
    PROVE  LET v == SelectInFreeCAD(w, names)
           IN  /\ Base(v) /\ FollowQueued(w, v)
               /\ v.session = w.session /\ v.document = w.document
               /\ w.editor.closed \/ HasJob(v, "follow") \/ (v = w /\ v.picked = Wanted(names))
               /\ HandsFree(w) => HandsFree(v)
               /\ Loose(w) /\ DragHolds(w) => DragHolds(v)
               /\ Shown(w) => Shown(v)
               /\ Current(w) => Current(v)
<1> DEFINE v == SelectInFreeCAD(w, names)
           T == BoardIds(w.session.unit)
<1>1. Shaped(w) /\ Flagged(w) /\ Rows(w) /\ Selection(w) /\ Picks(w)
  BY DEF Base
<1>2. T \subseteq BoardNames
  BY <1>1, SelectedBoardsFacts
<1>3. /\ FollowQueued(w, v) /\ v.session = w.session /\ v.document = w.document
      /\ \/ v = w /\ w.picked = Wanted(names)
         \/ /\ v.picked = Present(w, Wanted(names))
            /\ w.editor.closed \/ HasJob(v, "follow")
  BY <1>1, SelectInFreeCADFacts
<1> HIDE DEF v
<1>4. /\ Wanted(names) \in Seq(Entries) /\ IsInjective(Wanted(names))
      /\ \A e \in ToSet(Wanted(names)) : e.name \in T
  <2> HIDE DEF T
  <2>1. names \in Seq(T)
    BY DEF T
  <2> QED
    BY <1>2, <2>1, WantedFacts
<1>5. Picks(v)
  <2>1. CASE v = w
    BY <2>1, <1>1
  <2>2. CASE v.picked = Present(w, Wanted(names))
    <3>1. /\ v.picked \in Seq(Entries) /\ IsInjective(v.picked)
          /\ \A e \in ToSet(v.picked) : e \in ToSet(Wanted(names)) /\ InDocument(w, e.name)
      BY <2>2, <1>4, PresentFacts
    <3> QED
      BY <3>1, <1>3, <1>4 DEF Picks, Entries, InDocument
  <2> QED
    BY <2>1, <2>2, <1>3
<1>6. /\ Base(v) /\ (HandsFree(w) => HandsFree(v)) /\ (Loose(w) /\ DragHolds(w) => DragHolds(v))
      /\ (Shown(w) => Shown(v)) /\ (Current(w) => Current(v))
  BY <1>3, <1>5, FollowQueuedKeeps
<1>7. w.editor.closed \/ HasJob(v, "follow") \/ (v = w /\ v.picked = Wanted(names))
  BY <1>3
<1> QED
  BY <1>3, <1>6, <1>7 DEF v

(***************************************************************************)
(* Drawing.                                                                *)
(***************************************************************************)
\* What stands over the unit is told from its boards and what is selected alone.
LEMMA DrawnForSession ==
    ASSUME NEW w, NEW v, v.session.unit = w.session.unit,
           v.session.selection = w.session.selection
    PROVE  ArrowFor(v) = ArrowFor(w) /\ HeldFor(v) = HeldFor(w) /\ BarFor(v) = BarFor(w)
           /\ SelectedBoards(v) = SelectedBoards(w)
BY DEF ArrowFor, HeldFor, BarFor, SelectedInner, SelectedId, SelectedBoards

\* close() leaves the session and the queue, and a closed editor owes nothing.
LEMMA CloseFacts ==
    ASSUME NEW w, Base(w)
    PROVE  LET v == Close(w)
           IN  /\ Good(v) /\ v.editor.closed
               /\ v.session = w.session /\ v.document = w.document /\ v.view = w.view
               /\ v.jobs = w.jobs
               /\ w.editor.closed => v = w
<1> DEFINE v == Close(w)
<1>1. Shaped(w) /\ Flagged(w) /\ Rows(w) /\ Selection(w) /\ Waiting(w) /\ Attributes(w) /\ Picks(w)
  BY DEF Base
<1>2. CASE w.editor.closed
  <2>1. v = w
    BY <1>2 DEF Close
  <2>2. Good(w)
    BY <1>2 DEF Good, Core, Held, Drag, Shown, Current
  <2> QED
    BY <2>1, <2>2, <1>2
<1>3. CASE ~w.editor.closed
  <2>1. /\ v.editor = [NewEditor EXCEPT !.closed = TRUE] /\ v.picked = << >>
        /\ v.session = w.session /\ v.document = w.document /\ v.view = w.view
        /\ v.jobs = w.jobs /\ DOMAIN v = DOMAIN w
    BY <1>1, <1>3 DEF Close, Shaped
  <2> HIDE DEF v
  <2>2. /\ v.editor.closed /\ v.editor.field = Nothing /\ ~v.editor.focus
        /\ v.editor.drawn.unit.ids = << >> /\ v.editor.boards = {}
        /\ v.editor.arrow = Nothing /\ v.editor.held = Nothing /\ ~v.editor.dragging
        /\ ~v.editor.followQueued /\ ~v.editor.refreshQueued /\ ~v.editor.sideQueued
    BY <2>1 DEF NewEditor
  <2>3. Shaped(v)
    BY <1>1, <2>1 DEF Shaped, NewEditor
  <2>4. Flagged(v)
    BY <2>2 DEF Flagged
  <2>7. Attributes(v)
    <3>1. << >> \in Seq(Ids)
      OBVIOUS
    <3> QED
      BY <1>1, <2>1, <2>2, <3>1 DEF Attributes
  <2>5. Rows(v) /\ Selection(v) /\ Waiting(v)
    BY <1>1, <2>1 DEF Rows, Selection, Waiting
  <2>6. Picks(v)
    BY <2>1 DEF Picks, IsInjective, ToSet
  <2>8. Good(v)
    BY <2>2, <2>3, <2>4, <2>5, <2>6, <2>7
       DEF Good, Core, Base, Held, Drag, Shown, Current
  <2> QED
    BY <2>1, <2>2, <2>8, <1>3 DEF v
<1> QED
  BY <1>2, <1>3

\* _close_field() takes the field away and nothing else.
LEMMA CloseFieldFacts ==
    ASSUME NEW w, Base(w)
    PROVE  LET v == CloseField(w)
           IN  /\ Base(v) /\ v.editor.field = Nothing /\ ~v.editor.focus
               /\ v.session = w.session /\ v.document = w.document /\ v.view = w.view
               /\ v.jobs = w.jobs /\ v.picked = w.picked
               /\ v.editor.closed = w.editor.closed /\ v.editor.dragging = w.editor.dragging
               /\ v.editor.drawn = w.editor.drawn /\ v.editor.boards = w.editor.boards
               /\ v.editor.arrow = w.editor.arrow /\ v.editor.held = w.editor.held
               /\ Held(w) => Held(v)
               /\ HandsFree(w) => HandsFree(v)
               /\ DragHolds(w) => DragHolds(v)
               /\ Drag(w) => Drag(v)
               /\ Shown(w) => Shown(v)
               /\ Current(w) => Current(v)
<1> DEFINE v == CloseField(w)
<1>1. Shaped(w) /\ Flagged(w) /\ Rows(w) /\ Selection(w) /\ Waiting(w) /\ Attributes(w) /\ Picks(w)
  BY DEF Base
<1>2. /\ v.editor.field = Nothing /\ ~v.editor.focus
      /\ v.session = w.session /\ v.document = w.document /\ v.view = w.view
      /\ v.jobs = w.jobs /\ v.picked = w.picked /\ DOMAIN v = DOMAIN w
      /\ DOMAIN v.editor = DOMAIN w.editor
      /\ v.editor.closed = w.editor.closed /\ v.editor.drawn = w.editor.drawn
      /\ v.editor.boards = w.editor.boards /\ v.editor.arrow = w.editor.arrow
      /\ v.editor.held = w.editor.held /\ v.editor.bar = w.editor.bar
      /\ v.editor.dragging = w.editor.dragging
      /\ v.editor.followQueued = w.editor.followQueued
      /\ v.editor.refreshQueued = w.editor.refreshQueued
      /\ v.editor.sideQueued = w.editor.sideQueued
  BY <1>1 DEF CloseField, Shaped
<1> HIDE DEF v
<1>3. Shaped(v) /\ Flagged(v)
  BY <1>1, <1>2 DEF Shaped, Flagged, HasJob
<1>4. Rows(v) /\ Selection(v) /\ Waiting(v) /\ Attributes(v)
  BY <1>1, <1>2 DEF Rows, Selection, Waiting, Attributes
<1>5. Picks(v)
  BY <1>1, <1>2 DEF Picks, InDocument
<1>6. ArrowFor(v) = ArrowFor(w) /\ HeldFor(v) = HeldFor(w) /\ BarFor(v) = BarFor(w)
      /\ SelectedBoards(v) = SelectedBoards(w)
  BY <1>2, DrawnForSession
<1>7. /\ Held(w) => Held(v)
      /\ HandsFree(w) => HandsFree(v)
      /\ DragHolds(w) => DragHolds(v)
  BY <1>2, <1>6 DEF Held, FollowsOn, HasJob, HandsFree, DragHolds, Loose
<1>8. (Shown(w) => Shown(v)) /\ (Current(w) => Current(v))
  BY <1>2, <1>6 DEF Shown, Current
<1> QED
  BY <1>2, <1>3, <1>4, <1>5, <1>7, <1>8 DEF v, Base, Drag

\* rebuild() makes the drawing current, or closes the editor of a view that is gone.
LEMMA RebuildFacts ==
    ASSUME NEW w, Base(w)
    PROVE  LET v == Rebuild(w)
           IN  /\ Base(v) /\ Shown(v) /\ Current(v)
               /\ v.session = w.session /\ v.document = w.document /\ v.view = w.view
               /\ v.jobs = w.jobs
               /\ \/ v.editor.closed
                  \/ /\ ~w.editor.closed /\ v.picked = w.picked
                     /\ v.editor.dragging = w.editor.dragging
                     /\ v.editor.field = w.editor.field /\ v.editor.focus = w.editor.focus
               /\ w.editor.closed => v = w
               /\ Held(w) => Held(v)
               /\ Drag(w) => Drag(v)
<1> DEFINE v == Rebuild(w)
<1>1. Shaped(w) /\ Flagged(w) /\ Rows(w) /\ Selection(w) /\ Waiting(w) /\ Attributes(w) /\ Picks(w)
  BY DEF Base
<1>2. CASE w.editor.closed
  BY <1>2 DEF Rebuild, Shown, Current
<1>3. CASE ~w.editor.closed /\ w.view.gone
  <2>1. v = Close(w)
    BY <1>3 DEF Rebuild
  <2>2. /\ Good(v) /\ v.editor.closed /\ v.session = w.session /\ v.document = w.document
        /\ v.view = w.view /\ v.jobs = w.jobs
    BY <2>1, CloseFacts
  <2> HIDE DEF v
  <2> QED
    BY <2>2, <1>3 DEF v, Good, Core
<1>4. CASE ~w.editor.closed /\ ~w.view.gone
  <2> DEFINE d == [w EXCEPT !.editor.drawn =
                                      [unit |-> w.session.unit, side |-> w.view.side,
                                       selection |-> w.session.selection],
                            !.editor.boards = BoardIds(w.session.unit)]
  <2>1. v = IF w.editor.dragging THEN d
            ELSE [d EXCEPT !.editor.arrow = ArrowFor(w), !.editor.held = HeldFor(w),
                           !.editor.bar = BarFor(w)]
    BY <1>4 DEF Rebuild
  <2>2. /\ DOMAIN d = DOMAIN w /\ d.session = w.session /\ d.view = w.view /\ d.jobs = w.jobs
        /\ d.document = w.document /\ d.picked = w.picked /\ DOMAIN d.editor = DOMAIN w.editor
        /\ d.editor.drawn.unit = w.session.unit /\ d.editor.drawn.side = w.view.side
        /\ d.editor.drawn.selection = w.session.selection
        /\ d.editor.boards = BoardIds(w.session.unit)
        /\ d.editor.closed = w.editor.closed /\ d.editor.field = w.editor.field
        /\ d.editor.focus = w.editor.focus /\ d.editor.arrow = w.editor.arrow
        /\ d.editor.held = w.editor.held
        /\ d.editor.dragging = w.editor.dragging /\ d.editor.followQueued = w.editor.followQueued
        /\ d.editor.refreshQueued = w.editor.refreshQueued
        /\ d.editor.sideQueued = w.editor.sideQueued
    BY <1>1 DEF Shaped
  <2> HIDE DEF d, v
  <2>3. /\ DOMAIN v = DOMAIN w /\ v.session = w.session /\ v.view = w.view /\ v.jobs = w.jobs
        /\ v.document = w.document /\ v.picked = w.picked /\ DOMAIN v.editor = DOMAIN w.editor
        /\ v.editor.drawn = d.editor.drawn
        /\ v.editor.boards = BoardIds(w.session.unit)
        /\ v.editor.closed = w.editor.closed /\ v.editor.field = w.editor.field
        /\ v.editor.focus = w.editor.focus
        /\ v.editor.dragging = w.editor.dragging /\ v.editor.followQueued = w.editor.followQueued
        /\ v.editor.refreshQueued = w.editor.refreshQueued
        /\ v.editor.sideQueued = w.editor.sideQueued
    BY <1>1, <2>1, <2>2 DEF Shaped
  <2>4. /\ w.editor.dragging \/ /\ v.editor.arrow = ArrowFor(w) /\ v.editor.held = HeldFor(w)
                                /\ v.editor.bar = BarFor(w)
        /\ w.editor.dragging => v.editor.arrow = w.editor.arrow /\ v.editor.held = w.editor.held
    BY <1>1, <2>1, <2>2 DEF Shaped
  <2>5. ArrowFor(w) \in Boards \cup {Nothing} /\ HeldFor(w) \in Boards \cup {Nothing}
    <3>1. ToSet(w.session.unit.boards) \subseteq Boards
      BY <1>1, ToSetIsFinite DEF Rows, UnitOK, RowLike
    <3> QED
      BY <3>1 DEF ArrowFor, HeldFor, SelectedInner
  <2>6. ArrowFor(v) = ArrowFor(w) /\ HeldFor(v) = HeldFor(w) /\ BarFor(v) = BarFor(w)
        /\ SelectedBoards(v) = SelectedBoards(w)
    BY <2>3, DrawnForSession
  <2>7. Shaped(v) /\ Flagged(v)
    BY <1>1, <2>3 DEF Shaped, Flagged, HasJob
  <2>8. Rows(v) /\ Selection(v) /\ Waiting(v)
    BY <1>1, <2>3 DEF Rows, Selection, Waiting
  <2>9. Picks(v)
    BY <1>1, <2>3 DEF Picks, InDocument
  <2>10. Attributes(v)
    <3>1. BoardIds(w.session.unit) \subseteq BoardNames
      BY <1>1, SelectedBoardsFacts
    <3>2. w.session.unit.ids \in Seq(Ids)
      BY <1>1 DEF Rows, UnitOK
    <3>3. v.editor.arrow \in Boards \cup {Nothing} /\ v.editor.held \in Boards \cup {Nothing}
      BY <1>1, <2>4, <2>5 DEF Attributes
    <3> QED
      BY <3>1, <3>2, <3>3, <2>2, <2>3, <1>1 DEF Attributes
  <2>11. Shown(v) /\ Current(v)
    BY <2>2, <2>3, <2>4, <2>6 DEF Shown, Current
  <2>12. (Held(w) => Held(v)) /\ (Drag(w) => Drag(v))
    BY <2>3, <2>6 DEF Held, FollowsOn, Drag, HandsFree, DragHolds, Loose, HasJob
  <2> QED
    BY <1>4, <2>3, <2>7, <2>8, <2>9, <2>10, <2>11, <2>12 DEF v, Base
<1> QED
  BY <1>2, <1>3, <1>4, SMTT(40)

(***************************************************************************)
(* Reading an Undo back.                                                   *)
(***************************************************************************)
\* reload(): an id is kept as it is, or as the opening between the same boards.
KeptBy(old, new, i) ==
    \/ i \in BoardIds(new)
    \/ i \in ToSet(old.ids) /\ Key(old, PlaceOf(old, i)) \in Keys(new)
\* The id that a kept one has after an Undo.
NowOf(old, new, i) ==
    IF i \in BoardIds(new) THEN i ELSE new.ids[AtKey(new, Key(old, PlaceOf(old, i)))]
\* What an Undo leaves selected, under the ids it gives.
ReadSelection(old, new, s) ==
    LET kept == Within(s, {i \in ToSet(s) : KeptBy(old, new, i)})
    IN  [k \in DOMAIN kept |-> NowOf(old, new, kept[k])]

\* Selected boards stay selected where there still are such boards, and openings
\* become openings of the new unit with the same boards beside them.
LEMMA ReadSelectionFacts ==
    ASSUME NEW n, NEW old, UnitOK(old, n), NEW m, NEW new, UnitOK(new, m),
           NEW s \in Seq(Ids \cup BoardNames)
    PROVE  LET t == ReadSelection(old, new, s)
           IN  /\ t \in Seq(Ids \cup BoardNames)
               /\ ToSet(s) \subseteq BoardIds(old) =>
                     /\ ToSet(t) \subseteq BoardIds(new) \cap ToSet(s)
                     /\ ToSet(s) \subseteq BoardIds(new) => t = s
               /\ ToSet(s) \subseteq Ids =>
                     /\ ToSet(t) \subseteq ToSet(new.ids)
                     /\ \A k \in DOMAIN t : \E i \in ToSet(s) :
                           /\ i \in ToSet(old.ids)
                           /\ Key(old, PlaceOf(old, i)) = Key(new, PlaceOf(new, t[k]))
<1> DEFINE T == {i \in ToSet(s) : KeptBy(old, new, i)}
           kept == Within(s, T)
           t == ReadSelection(old, new, s)
           S == Ids \cup BoardNames
<1>1. /\ kept \in Seq(S) /\ ToSet(kept) \subseteq ToSet(s) \cap T
      /\ (ToSet(s) \subseteq T => kept = s)
  <2> HIDE DEF T, S
  <2>1. s \in Seq(S)
    BY DEF S
  <2> QED
    BY <2>1, WithinFacts
<1>2. t = [k \in DOMAIN kept |-> NowOf(old, new, kept[k])]
  BY DEF ReadSelection
<1> HIDE DEF kept, t
<1>3. BoardIds(old) \subseteq BoardNames /\ BoardIds(new) \subseteq BoardNames
  <2>1. old.boards \in Seq(Boards) /\ new.boards \in Seq(Boards)
    BY DEF UnitOK, RowLike
  <2>2. ToSet(old.boards) \subseteq Boards /\ ToSet(new.boards) \subseteq Boards
    BY <2>1, ToSetIsFinite
  <2> QED
    BY <2>2 DEF BoardIds, BoardNames
<1>4. /\ ToSet(old.ids) \subseteq Ids /\ ToSet(new.ids) \subseteq Ids
      /\ DOMAIN new.ids = 1 .. Len(new.ids)
  <2>1. old.ids \in Seq(Ids) /\ new.ids \in Seq(Ids)
    BY DEF UnitOK
  <2> QED
    BY <2>1, ToSetIsFinite
\* An opening that is kept: the place with its key.
<1>5. ASSUME NEW i \in T, i \notin BoardIds(new)
      PROVE  /\ i \in ToSet(old.ids) /\ NowOf(old, new, i) \in ToSet(new.ids)
             /\ Key(old, PlaceOf(old, i)) = Key(new, PlaceOf(new, NowOf(old, new, i)))
  <2> DEFINE key == Key(old, PlaceOf(old, i))
             k == AtKey(new, key)
  <2>1. i \in ToSet(old.ids) /\ key \in Keys(new)
    BY <1>5 DEF KeptBy
  <2>2. k \in Places(new) /\ Key(new, k) = key
    <3> HIDE DEF key
    <3> QED
      BY <2>1 DEF Keys, AtKey
  <2>3. NowOf(old, new, i) = new.ids[k]
    BY <1>5 DEF NowOf
  <2> HIDE DEF k, key
  <2>4. k \in 1 .. Len(new.ids)
    BY <2>2, <1>4 DEF Places
  <2>5. PlaceOf(new, new.ids[k]) = k
    BY <2>4, PlaceFacts
  <2>6. new.ids[k] \in ToSet(new.ids)
    BY <2>4, <1>4 DEF ToSet
  <2> QED
    BY <2>1, <2>2, <2>3, <2>5, <2>6 DEF key
<1>6. \A k \in DOMAIN kept : kept[k] \in T
  BY <1>1 DEF ToSet
<1>7. DOMAIN t = DOMAIN kept /\ \A k \in DOMAIN t : t[k] = NowOf(old, new, kept[k])
  BY <1>2
<1>8. \A i \in T : NowOf(old, new, i) \in S
  <2> SUFFICES ASSUME NEW i \in T PROVE NowOf(old, new, i) \in S
    OBVIOUS
  <2>1. CASE i \in BoardIds(new)
    BY <2>1, <1>3 DEF NowOf
  <2>2. CASE i \notin BoardIds(new)
    BY <2>2, <1>4, <1>5
  <2> QED
    BY <2>1, <2>2
<1>9. t \in Seq(S)
  <2>1. DOMAIN kept = 1 .. Len(kept) /\ Len(kept) \in Nat
    BY <1>1, LenProperties
  <2>2. \A k \in 1 .. Len(kept) : NowOf(old, new, kept[k]) \in S
    BY <1>6, <1>8, <2>1
  <2> HIDE DEF S
  <2> QED
    BY <1>2, <2>1, <2>2
<1>10. ASSUME ToSet(s) \subseteq BoardIds(old)
       PROVE  /\ ToSet(t) \subseteq BoardIds(new) \cap ToSet(s)
              /\ ToSet(s) \subseteq BoardIds(new) => t = s
  <2>1. \A i \in T : i \in BoardIds(new) /\ i \in ToSet(s)
    <3>1. \A i \in T : i \in BoardIds(new) \/ i \in ToSet(old.ids)
      BY DEF KeptBy
    <3> QED
      BY <3>1, <1>3, <1>4, <1>10, NamesAreNoIds
  <2>2. \A k \in DOMAIN t : t[k] = kept[k]
    BY <1>6, <1>7, <2>1 DEF NowOf
  <2>3. ToSet(t) \subseteq BoardIds(new) \cap ToSet(s)
    BY <1>6, <1>7, <2>1, <2>2 DEF ToSet
  <2>4. ASSUME ToSet(s) \subseteq BoardIds(new)
        PROVE  t = s
    <3>1. ToSet(s) \subseteq T
      BY <2>4 DEF KeptBy
    <3>2. kept = s
      BY <3>1, <1>1
    <3>3. t = [k \in DOMAIN s |-> t[k]] /\ s = [k \in DOMAIN s |-> s[k]]
      BY <3>2, <1>2
    <3> HIDE DEF T
    <3> QED
      BY <3>2, <3>3, <2>2, <1>7
  <2> QED
    BY <2>3, <2>4
<1>11. ASSUME ToSet(s) \subseteq Ids
       PROVE  /\ ToSet(t) \subseteq ToSet(new.ids)
              /\ \A k \in DOMAIN t : \E i \in ToSet(s) :
                   /\ i \in ToSet(old.ids)
                   /\ Key(old, PlaceOf(old, i)) = Key(new, PlaceOf(new, t[k]))
  <2>1. \A i \in T : i \notin BoardIds(new) /\ i \in ToSet(s)
    BY <1>3, <1>11, NamesAreNoIds
  <2>2. \A k \in DOMAIN t : /\ kept[k] \in T /\ kept[k] \notin BoardIds(new)
                            /\ kept[k] \in ToSet(s) /\ t[k] = NowOf(old, new, kept[k])
    BY <1>6, <1>7, <2>1
  <2>3. \A k \in DOMAIN t :
            /\ kept[k] \in ToSet(s) /\ kept[k] \in ToSet(old.ids) /\ t[k] \in ToSet(new.ids)
            /\ Key(old, PlaceOf(old, kept[k])) = Key(new, PlaceOf(new, t[k]))
    BY <1>5, <2>2
  <2> QED
    BY <2>3 DEF ToSet
<1> QED
  BY <1>9, <1>10, <1>11 DEF t

\* The row as an Undo left it, its openings with ids nothing mentions.
NewUnit(w) ==
    [boards |-> w.document.row.boards, locked |-> w.document.row.locked,
     mm |-> w.document.row.mm, ids |-> NewIds(Mentioned(w), Len(w.document.row.locked))]
\* reload() before its redraw.
ReadBack(w) ==
    [w EXCEPT !.document.pending = FALSE, !.session.unit = NewUnit(w),
              !.session.selection = ReadSelection(w.session.unit, NewUnit(w), @)]

\* Reload is its reading back and its redraw, one after the other.
LEMMA ReloadIs ==
    ASSUME NEW w
    PROVE  Reload(w) = Rebuild(IF ReadBack(w).editor.closed THEN ReadBack(w)
                               ELSE IF ReadBack(w).view.gone THEN Close(ReadBack(w))
                               ELSE CloseField(ReadBack(w)))
BY DEF Reload, Refresh, ReadBack, NewUnit, ReadSelection, KeptBy, NowOf

\* Reading an Undo back leaves the session with a well-formed unit, the selection
\* that is left of its own, and ids no queued click or open field mentions.
LEMMA ReadBackFacts ==
    ASSUME NEW w, Base(w), w.document.pending
    PROVE  LET v == ReadBack(w)
           IN  /\ Base(v) /\ ~v.document.pending
               /\ v.document.row = w.document.row /\ v.document.past = w.document.past
               /\ v.session.edits = w.session.edits /\ v.session.drag = w.session.drag
               /\ v.session.open = w.session.open
               /\ v.session.unit = NewUnit(w) /\ UnitOK(NewUnit(w), w.session.edits)
               /\ Bare(NewUnit(w)) = w.document.row
               /\ ToSet(NewUnit(w).ids) \cap Mentioned(w) = {}
               /\ v.session.selection =
                     ReadSelection(w.session.unit, NewUnit(w), w.session.selection)
               /\ v.picked = w.picked /\ v.jobs = w.jobs /\ v.editor = w.editor /\ v.view = w.view
               /\ Held(w) => Held(v)
               /\ Drag(w) => Drag(v)
<1> DEFINE v == ReadBack(w)
           old == w.session.unit
           new == NewUnit(w)
           n == w.session.edits
           s == w.session.selection
           t == ReadSelection(old, new, s)
<1>1. Shaped(w) /\ Flagged(w) /\ Rows(w) /\ Selection(w) /\ Waiting(w) /\ Attributes(w) /\ Picks(w)
  BY DEF Base
<1>2. /\ v.document.pending = FALSE /\ v.document.row = w.document.row
      /\ v.document.past = w.document.past /\ DOMAIN v.document = DOMAIN w.document
      /\ v.session.edits = n /\ v.session.drag = w.session.drag
      /\ v.session.open = w.session.open /\ DOMAIN v.session = DOMAIN w.session
      /\ v.session.unit = new /\ v.session.selection = t
      /\ v.picked = w.picked /\ v.jobs = w.jobs /\ v.editor = w.editor /\ v.view = w.view
      /\ DOMAIN v = DOMAIN w
  BY <1>1 DEF ReadBack, Shaped
<1>3. IsFiniteSet(Mentioned(w))
  <2>1. PICK D : w.jobs \in Seq(D)
    BY <1>1 DEF Shaped, IsSeq
  <2>2. /\ old.ids \in Seq(Ids) /\ s \in Seq(Ids \cup BoardNames)
        /\ w.editor.drawn.unit.ids \in Seq(Ids)
    BY <1>1 DEF Rows, UnitOK, Selection, Attributes
  <2> QED
    BY <2>1, <2>2, MentionedIsFinite
<1>4. UnitOK(new, n) /\ Bare(new) = w.document.row /\ ToSet(new.ids) \cap Mentioned(w) = {}
  <2>1. Stored(w.document.row, n)
    BY <1>1 DEF Rows
  <2> QED
    BY <1>3, <2>1, ReadFacts DEF NewUnit
<1>5. UnitOK(old, n) /\ s \in Seq(Ids \cup BoardNames)
      /\ (ToSet(s) \subseteq BoardIds(old) \/ ToSet(s) \subseteq Ids)
  BY <1>1 DEF Rows, Selection
<1> HIDE DEF v, new, t
<1>6. /\ t \in Seq(Ids \cup BoardNames)
      /\ ToSet(s) \subseteq BoardIds(old) =>
            /\ ToSet(t) \subseteq BoardIds(new) \cap ToSet(s)
            /\ ToSet(s) \subseteq BoardIds(new) => t = s
      /\ ToSet(s) \subseteq Ids => ToSet(t) \subseteq ToSet(new.ids)
  <2> HIDE DEF old, s
  <2> QED
    BY <1>4, <1>5, ReadSelectionFacts DEF t
<1>7. ToSet(new.ids) \subseteq Ids
  <2>1. new.ids \in Seq(Ids)
    BY <1>4 DEF UnitOK
  <2> QED
    BY <2>1, ToSetIsFinite
<1>8. Shaped(v) /\ Flagged(v) /\ Waiting(v)
  BY <1>1, <1>2 DEF Shaped, Flagged, Waiting, HasJob
<1>9. Attributes(v)
  BY <1>1, <1>2 DEF Attributes
<1>10. Rows(v)
  BY <1>1, <1>2, <1>4 DEF Rows
<1>11. Selection(v)
  BY <1>2, <1>5, <1>6, <1>7 DEF Selection
<1>12. new.boards = w.document.row.boards
  BY DEF new, NewUnit
<1>13. Picks(v)
  BY <1>1, <1>2, <1>12 DEF Picks, InDocument, BoardIds
<1>14. ASSUME Held(w)
       PROVE  Held(v)
  <2>1. CASE w.editor.closed \/ FollowsOn(w)
    BY <2>1, <1>2 DEF Held, FollowsOn, HasJob
  <2>2. CASE ToSet(s) \subseteq Ids
    <3>1. SelectedBoards(v) = << >>
      BY <2>2, <1>2, <1>6, <1>7, <1>10, <1>11, SelectedBoardsFacts
    <3> QED
      BY <3>1 DEF Held
  <2>3. CASE /\ ~w.editor.closed /\ ~FollowsOn(w)
             /\ ToSet(s) \subseteq BoardIds(old) /\ ~(ToSet(s) \subseteq Ids)
    <3>1. SelectedBoards(w) = s
      BY <2>3, <1>1, SelectedBoardsFacts
    <3>2. s # << >>
      BY <2>3 DEF ToSet
    <3>3. w.picked = Wanted(s)
      BY <1>14, <2>3, <3>1, <3>2 DEF Held, Wanted
    <3>4. \A k \in DOMAIN s : s[k] \in BoardIds(new)
      <4> SUFFICES ASSUME NEW k \in DOMAIN s PROVE s[k] \in BoardIds(new)
        OBVIOUS
      <4>1. k \in DOMAIN w.picked /\ w.picked[k].name = s[k]
        BY <3>3 DEF Wanted, Entry
      <4>2. InDocument(w, s[k])
        BY <4>1, <1>1 DEF Picks, ToSet
      <4>3. s[k] \in BoardIds(old)
        BY <2>3 DEF ToSet
      <4>4. s[k] # Aside
        BY <4>3, <1>1, SelectedBoardsFacts, NamesAssumption DEF BoardNames
      <4> QED
        BY <4>2, <4>4, <1>12 DEF InDocument, BoardIds
    <3>5. ToSet(s) \subseteq BoardIds(new)
      BY <3>4 DEF ToSet
    <3>6. t = s
      BY <2>3, <3>5, <1>6
    <3>7. SelectedBoards(v) = s
      BY <3>5, <3>6, <1>2, <1>10, <1>11, SelectedBoardsFacts
    <3> QED
      BY <3>3, <3>7, <1>2 DEF Held, Wanted
  <2> QED
    BY <2>1, <2>2, <2>3, <1>5
<1>15. Drag(w) => Drag(v)
  BY <1>2 DEF Drag, HandsFree, DragHolds, Loose, HasJob
<1> QED
  BY <1>2, <1>4, <1>8, <1>9, <1>10, <1>11, <1>13, <1>14, <1>15 DEF v, new, t, Base

\* A settled world: what an Undo left to read back is read.
LEMMA SettleFacts ==
    ASSUME NEW w, Base(w)
    PROVE  LET v == Settle(w)
               old == w.session.unit
               new == v.session.unit
           IN  /\ Base(v) /\ ~v.document.pending
               /\ v.document.row = w.document.row /\ v.document.row = Bare(new)
               /\ v.document.past = w.document.past
               /\ v.session.edits = w.session.edits /\ v.session.drag = w.session.drag
               /\ v.session.open = w.session.open
               /\ v.jobs = w.jobs /\ v.view = w.view
               /\ ~w.document.pending => v = w
               /\ w.document.pending =>
                     /\ Shown(v) /\ Current(v)
                     /\ ToSet(new.ids) \cap Mentioned(w) = {}
                     /\ v.session.selection = ReadSelection(old, new, w.session.selection)
                     /\ ~v.editor.closed => v.editor.field = Nothing
               /\ \/ v.editor.closed
                  \/ /\ ~w.editor.closed /\ v.picked = w.picked
                     /\ v.editor.dragging = w.editor.dragging
               /\ w.editor.closed => v.editor.closed
               /\ Shown(w) => Shown(v)
               /\ Current(w) => Current(v)
               /\ Held(w) => Held(v)
               /\ Drag(w) => Drag(v)
<1> DEFINE v == Settle(w)
<1>1. CASE ~w.document.pending
  <2>1. v = w
    BY <1>1 DEF Settle
  <2>2. w.document.row = Bare(w.session.unit)
    BY <1>1 DEF Base, Rows
  <2> QED
    BY <2>1, <2>2, <1>1
<1>2. CASE w.document.pending
  <2> DEFINE r == ReadBack(w)
             x == IF r.editor.closed THEN r ELSE IF r.view.gone THEN Close(r) ELSE CloseField(r)
  <2>1. v = Rebuild(x)
    BY <1>2, ReloadIs DEF Settle
  <2>2. /\ Base(r) /\ ~r.document.pending
        /\ r.document.row = w.document.row /\ r.document.past = w.document.past
        /\ r.session.edits = w.session.edits /\ r.session.drag = w.session.drag
        /\ r.session.open = w.session.open
        /\ r.document.row = Bare(r.session.unit)
        /\ ToSet(r.session.unit.ids) \cap Mentioned(w) = {}
        /\ r.session.selection =
              ReadSelection(w.session.unit, r.session.unit, w.session.selection)
        /\ r.picked = w.picked /\ r.jobs = w.jobs /\ r.editor = w.editor /\ r.view = w.view
        /\ Held(w) => Held(r)
        /\ Drag(w) => Drag(r)
    BY <1>2, ReadBackFacts
  <2> HIDE DEF r, v
  <2>3. /\ Base(x) /\ x.session = r.session /\ x.document = r.document /\ x.view = r.view
        /\ x.jobs = r.jobs /\ (r.editor.closed => x.editor.closed)
        /\ (Held(r) => Held(x)) /\ (Drag(r) => Drag(x))
        /\ \/ x.editor.closed
           \/ /\ ~r.editor.closed /\ x.picked = r.picked
              /\ x.editor.dragging = r.editor.dragging
              /\ x.editor.field = Nothing
    <3>1. CASE r.editor.closed
      BY <3>1, <2>2
    <3>2. CASE ~r.editor.closed /\ r.view.gone
      <4>1. x = Close(r)
        BY <3>2
      <4> HIDE DEF x
      <4> QED
        BY <4>1, <2>2, <3>2, CloseFacts DEF Good, Core
    <3>3. CASE ~r.editor.closed /\ ~r.view.gone
      <4>1. x = CloseField(r)
        BY <3>3
      <4> HIDE DEF x
      <4> QED
        BY <4>1, <2>2, <3>3, CloseFieldFacts
    <3> QED
      BY <3>1, <3>2, <3>3
  <2> HIDE DEF x
  <2>4. /\ Base(v) /\ Shown(v) /\ Current(v)
        /\ v.session = x.session /\ v.document = x.document /\ v.view = x.view /\ v.jobs = x.jobs
        /\ \/ v.editor.closed
           \/ /\ ~x.editor.closed /\ v.picked = x.picked
              /\ v.editor.dragging = x.editor.dragging
              /\ v.editor.field = x.editor.field /\ v.editor.focus = x.editor.focus
        /\ x.editor.closed => v = x
        /\ Held(x) => Held(v)
        /\ Drag(x) => Drag(v)
    BY <2>1, <2>3, RebuildFacts
  <2> QED
    BY <2>2, <2>3, <2>4, <1>2 DEF v
<1> QED
  BY <1>1, <1>2

(***************************************************************************)
(* The edits.                                                              *)
(***************************************************************************)
\* What an accepted edit makes of a world: u is the unit after it, s what it
\* leaves selected.
Edited(w, v, u, s) ==
    /\ Base(v) /\ FollowQueued(w, v)
    /\ v.session.unit = u /\ v.session.selection = s
    /\ v.session.edits = w.session.edits + 1
    /\ v.session.drag = w.session.drag /\ v.session.open = w.session.open
    /\ v.document.row = Bare(u) /\ v.document.pending = w.document.pending
    /\ w.editor.closed \/ HasJob(v, "follow") \/ v.picked = w.picked
    /\ u.boards = w.session.unit.boards => v.picked = w.picked /\ v.jobs = w.jobs
    /\ HandsFree(w) => HandsFree(v)

\* _apply() writes the unit to the document, selects what it is told, and lets the
\* follow-up be queued where the document's change cost FreeCAD's selection.
LEMMA ApplyFacts ==
    ASSUME NEW w, Base(w), ~w.document.pending, NEW u, UnitOK(u, w.session.edits + 1),
           NEW s \in Seq(Ids \cup BoardNames),
           ToSet(s) \subseteq BoardIds(u) \/ ToSet(s) \subseteq Ids, NEW joins
    PROVE  Edited(w, Apply(w, u, s, joins), u, s)
<1> DEFINE n == w.session.edits
           past == IF joins THEN w.document.past ELSE Append(w.document.past, w.document.row)
           x == [w EXCEPT !.session.unit = u, !.session.selection = s,
                          !.session.edits = @ + 1, !.document.past = past]
           v == Apply(w, u, s, joins)
<1>1. Shaped(w) /\ Flagged(w) /\ Rows(w) /\ Selection(w) /\ Waiting(w) /\ Attributes(w) /\ Picks(w)
  BY DEF Base
<1>2. v = Rewrite(x, Bare(u))
  BY DEF Apply
<1>3. IsSeq(past) /\ \A r \in ToSet(past) : Stored(r, n)
  <2>1. IsSeq(w.document.past) /\ \A r \in ToSet(w.document.past) : Stored(r, n)
    BY <1>1 DEF Rows
  <2>2. Stored(w.document.row, n)
    BY <1>1 DEF Rows
  <2>3. /\ IsSeq(Append(w.document.past, w.document.row))
        /\ ToSet(Append(w.document.past, w.document.row))
              = ToSet(w.document.past) \cup {w.document.row}
    BY <2>1, AppendIsSeq
  <2>4. past = w.document.past \/ past = Append(w.document.past, w.document.row)
    OBVIOUS
  <2> HIDE DEF past
  <2> QED
    BY <2>1, <2>2, <2>3, <2>4
<1> HIDE DEF past
<1>4. /\ x.session.unit = u /\ x.session.selection = s /\ x.session.edits = n + 1
      /\ x.session.drag = w.session.drag /\ x.session.open = w.session.open
      /\ x.document.past = past /\ x.document.pending = w.document.pending
      /\ DOMAIN x.session = DOMAIN w.session /\ DOMAIN x.document = DOMAIN w.document
      /\ x.picked = w.picked /\ x.jobs = w.jobs /\ x.editor = w.editor /\ x.view = w.view
      /\ DOMAIN x = DOMAIN w
  BY <1>1 DEF Shaped
<1> HIDE DEF x, v
<1>5. Shaped(x) /\ Flagged(x)
  BY <1>1, <1>4 DEF Shaped, Flagged, HasJob
<1>6. /\ FollowQueued(x, v) /\ v.session = x.session
      /\ v.document = [x.document EXCEPT !.row = Bare(u)]
      /\ v.picked = Present(v, x.picked)
      /\ \/ v.picked = x.picked /\ v.jobs = x.jobs
            /\ v.editor.followQueued = x.editor.followQueued
         \/ x.editor.closed \/ HasJob(v, "follow")
      /\ v.picked = x.picked => v.jobs = x.jobs
  BY <1>2, <1>5, RewriteFacts
<1>7. v.document.row = Bare(u) /\ v.document.past = past
      /\ v.document.pending = w.document.pending /\ DOMAIN v.document = DOMAIN w.document
  BY <1>1, <1>4, <1>6 DEF Shaped
<1>8. FollowQueued(w, v)
  BY <1>4, <1>6 DEF FollowQueued, SameEditor
<1>9. /\ v.picked \in Seq(Entries) /\ IsInjective(v.picked)
      /\ \A e \in ToSet(v.picked) : e \in ToSet(w.picked) /\ InDocument(v, e.name)
      /\ (\A e \in ToSet(w.picked) : InDocument(v, e.name)) => v.picked = w.picked
  <2>1. w.picked \in Seq(Entries) /\ IsInjective(w.picked)
    BY <1>1 DEF Picks, Entries
  <2> QED
    BY <2>1, <1>4, <1>6, PresentFacts
<1>10. \A name : InDocument(v, name) <=> name \in BoardIds(u) \cup {Aside}
  BY <1>7 DEF InDocument, Bare, BoardIds
<1>11. Picks(v)
  BY <1>4, <1>6, <1>9, <1>10 DEF Picks, Entries
<1>12. Rows(v)
  <2>1. n \in Nat
    BY <1>1 DEF Rows
  <2>2. \A r \in ToSet(past) : Stored(r, n + 1)
    BY <1>3, <2>1, UnitGrows
  <2>3. Stored(Bare(u), n + 1)
    BY BareIsStored
  <2> QED
    BY <2>1, <2>2, <2>3, <1>3, <1>4, <1>6, <1>7 DEF Rows
<1>13. Selection(v)
  BY <1>4, <1>6 DEF Selection
<1>14. Shaped(v) /\ Flagged(v)
  <2>1. \A kind : HasJob(w, kind) => HasJob(v, kind)
    BY <1>8 DEF FollowQueued, HasJob
  <2> QED
    BY <2>1, <1>1, <1>4, <1>6, <1>7, <1>8 DEF Shaped, Flagged, FollowQueued, SameEditor
<1>15. \A j \in ToSet(v.jobs) : j \in ToSet(w.jobs) \/ j.kind = "follow"
  BY <1>8 DEF FollowQueued, Job
<1>16. Waiting(v)
  <2>1. \A j \in ToSet(v.jobs) : j \in ToSet(w.jobs) \/ (j.kind \in Kinds /\ j.kind # "open")
    BY <1>15 DEF Kinds
  <2> QED
    BY <2>1, <1>1 DEF Waiting
<1>17. Attributes(v)
  BY <1>1, <1>4, <1>6, <1>8 DEF Attributes, FollowQueued, SameEditor
<1>18. u.boards = w.session.unit.boards => v.picked = w.picked /\ v.jobs = w.jobs
  <2> SUFFICES ASSUME u.boards = w.session.unit.boards
               PROVE  v.picked = w.picked /\ v.jobs = w.jobs
    OBVIOUS
  <2>1. BoardIds(u) = BoardIds(w.session.unit)
    BY DEF BoardIds
  <2>2. \A e \in ToSet(w.picked) : InDocument(v, e.name)
    BY <2>1, <1>1, <1>10 DEF Picks
  <2> QED
    BY <2>2, <1>4, <1>6, <1>9
<1>19. HandsFree(w) => HandsFree(v)
  BY <1>8, <1>15 DEF HandsFree, HasJob, FollowQueued, SameEditor
<1>20. w.editor.closed \/ HasJob(v, "follow") \/ v.picked = w.picked
  BY <1>4, <1>6
<1> QED
  BY <1>4, <1>6, <1>7, <1>8, <1>11, <1>12, <1>13, <1>14, <1>16, <1>17, <1>18, <1>19, <1>20
     DEF v, Edited, Base

\* Where an edit leaves no board selected, or the same boards in the same row,
\* they are held as before.
LEMMA EditedHolds ==
    ASSUME NEW w, NEW v, NEW u, NEW s, Base(w), Edited(w, v, u, s), Held(w),
           \/ ToSet(s) \subseteq Ids
           \/ s = w.session.selection /\ u.boards = w.session.unit.boards
    PROVE  Held(v)
<1>1. Rows(v) /\ Selection(v) /\ v.session.unit = u /\ v.session.selection = s
  BY DEF Edited, Base
<1>2. CASE ToSet(s) \subseteq Ids
  BY <1>1, <1>2, SelectedBoardsFacts DEF Held
<1>3. CASE s = w.session.selection /\ u.boards = w.session.unit.boards
  <2>1. SelectedBoards(v) = SelectedBoards(w)
    BY <1>1, <1>3 DEF SelectedBoards, BoardIds
  <2>2. v.picked = w.picked /\ v.jobs = w.jobs /\ v.editor.closed = w.editor.closed
    BY <1>3 DEF Edited, FollowQueued, SameEditor
  <2> QED
    BY <2>1, <2>2 DEF Held, FollowsOn, HasJob
<1> QED
  BY <1>2, <1>3

\* No locked opening of the row has a size of the next edit.
NoStamp(w, u) ==
    u.boards = w.document.row.boards =>
        \A k \in Places(u) : u.locked[k] => ~(u.mm[k] > w.session.edits)

\* The unit of a settled world, part by part.
LEMMA UnitFacts ==
    ASSUME NEW w, Base(w)
    PROVE  LET u == w.session.unit
               n == w.session.edits
           IN  /\ n \in Nat /\ UnitOK(u, n) /\ DOMAIN u = {"boards", "locked", "mm", "ids"}
               /\ u.boards \in Seq(Boards) /\ Len(u.boards) \in Nat
               /\ u.locked \in Seq(BOOLEAN) /\ Len(u.locked) = Len(u.boards) + 1
               /\ u.mm \in Seq(0 .. n) /\ u.mm \in Seq(0 .. n + 1) /\ Len(u.mm) = Len(u.boards) + 1
               /\ u.ids \in Seq(Ids) /\ Len(u.ids) = Len(u.boards) + 1
               /\ Places(u) = 1 .. Len(u.boards) + 1
               /\ \A k \in Places(u) : ~(u.mm[k] > n)
               /\ w.session.selection \in Seq(Ids \cup BoardNames)
               /\ \/ ToSet(w.session.selection) \subseteq BoardIds(w.session.unit)
                  \/ ToSet(w.session.selection) \subseteq Ids
<1> DEFINE u == w.session.unit
           n == w.session.edits
<1>1. n \in Nat /\ UnitOK(u, n)
  BY DEF Base, Rows
<1>2. UnitOK(u, n + 1)
  BY <1>1, UnitGrows
<1>3. /\ DOMAIN u = {"boards", "locked", "mm", "ids"}
      /\ u.boards \in Seq(Boards)
      /\ u.locked \in Seq(BOOLEAN) /\ Len(u.locked) = Len(u.boards) + 1
      /\ u.mm \in Seq(0 .. n) /\ u.mm \in Seq(0 .. n + 1) /\ Len(u.mm) = Len(u.boards) + 1
      /\ u.ids \in Seq(Ids) /\ Len(u.ids) = Len(u.boards) + 1
  BY <1>1, <1>2 DEF UnitOK, RowLike
<1>4. Len(u.boards) \in Nat /\ Places(u) = 1 .. Len(u.boards) + 1
  BY <1>3 DEF Places
<1>5. ASSUME NEW k \in Places(u)
      PROVE  ~(u.mm[k] > n)
  <2>1. u.mm[k] \in 0 .. n
    BY <1>3, <1>4, <1>5, ElementOfSeq
  <2> QED
    BY <2>1, <1>1
<1>6. /\ w.session.selection \in Seq(Ids \cup BoardNames)
      /\ \/ ToSet(w.session.selection) \subseteq BoardIds(w.session.unit)
         \/ ToSet(w.session.selection) \subseteq Ids
  BY DEF Base, Selection
<1> HIDE DEF u, n
<1> QED
  BY <1>1, <1>3, <1>4, <1>5, <1>6 DEF u, n

\* Stamping places of which none is locked after stamps no locked opening.
LEMMA StampIsFree ==
    ASSUME NEW w, Base(w), NEW places, NEW u, u.mm = Stamped(w, w.session.unit.mm, places),
           Places(u) = Places(w.session.unit), \A k \in places \cap Places(u) : ~u.locked[k]
    PROVE  NoStamp(w, u)
<1> DEFINE n == w.session.edits
           old == w.session.unit
<1>1. /\ n \in Nat /\ old.mm \in Seq(0 .. n + 1) /\ Places(old) = 1 .. Len(old.mm)
      /\ \A k \in Places(old) : ~(old.mm[k] > n)
  BY UnitFacts
<1>2. \A k \in 1 .. Len(old.mm) : u.mm[k] = IF k \in places THEN n + 1 ELSE old.mm[k]
  BY <1>1, StampedFacts
<1> HIDE DEF n, old
<1>3. ASSUME NEW k \in Places(u), u.locked[k]
      PROVE  ~(u.mm[k] > n)
  <2>1. k \notin places /\ k \in 1 .. Len(old.mm)
    BY <1>1, <1>3 DEF old
  <2>2. u.mm[k] = old.mm[k]
    BY <2>1, <1>2
  <2> QED
    BY <2>1, <2>2, <1>1
<1> QED
  BY <1>3 DEF NoStamp, n

------------------------------------------------------------------------------
(* What each operation of the session makes of the world.                    *)

\* An edit that leaves the row's boards and openings as they are.
RowEdit(w, u, places) ==
    /\ DOMAIN u = DOMAIN w.session.unit
    /\ u.boards = w.session.unit.boards /\ u.ids = w.session.unit.ids
    /\ u.locked \in Seq(BOOLEAN) /\ Len(u.locked) = Len(w.session.unit.locked)
    /\ u.mm = w.session.unit.mm \/ u.mm = Stamped(w, w.session.unit.mm, places)

\* An edit that moves no board is applied, and stamps only the sizes it sets.
LEMMA RowEditFacts ==
    ASSUME NEW w, Base(w), ~w.document.pending, NEW places, NEW u, RowEdit(w, u, places),
           NEW s \in Seq(Ids \cup BoardNames),
           ToSet(s) \subseteq BoardIds(w.session.unit) \/ ToSet(s) \subseteq Ids, NEW joins
    PROVE  /\ Edited(w, Apply(w, u, s, joins), u, s)
           /\ Places(u) = Places(w.session.unit)
           /\ \A k \in Places(u) : k \notin places => ~(u.mm[k] > w.session.edits)
<1> DEFINE n == w.session.edits
           old == w.session.unit
<1>1. /\ n \in Nat /\ UnitOK(old, n) /\ old.mm \in Seq(0 .. n + 1)
      /\ Places(old) = 1 .. Len(old.mm) /\ \A k \in Places(old) : ~(old.mm[k] > n)
  BY UnitFacts
<1>2. /\ Stamped(w, old.mm, places) \in Seq(0 .. n + 1)
      /\ Len(Stamped(w, old.mm, places)) = Len(old.mm)
      /\ \A k \in 1 .. Len(old.mm) : Stamped(w, old.mm, places)[k] =
            IF k \in places THEN n + 1 ELSE old.mm[k]
  <2>1. PICK mm : mm = old.mm
    OBVIOUS
  <2>2. w.session.edits \in Nat /\ mm \in Seq(0 .. w.session.edits + 1)
    BY <1>1, <2>1
  <2>3. /\ Stamped(w, mm, places) \in Seq(0 .. w.session.edits + 1)
        /\ Len(Stamped(w, mm, places)) = Len(mm)
        /\ \A k \in 1 .. Len(mm) : Stamped(w, mm, places)[k] =
            IF k \in places THEN w.session.edits + 1 ELSE mm[k]
    BY <2>2, StampedFacts
  <2> QED
    BY <2>1, <2>3
<1>3. u.mm \in Seq(0 .. n + 1) /\ Len(u.mm) = Len(old.mm)
  BY <1>1, <1>2 DEF RowEdit
<1> HIDE DEF n, old
<1>4. UnitOK(u, n + 1)
  BY <1>1, <1>3, SameRowIsUnit DEF RowEdit, old
<1>5. Edited(w, Apply(w, u, s, joins), u, s)
  <2>1. BoardIds(u) = BoardIds(w.session.unit)
    BY DEF RowEdit, BoardIds
  <2> QED
    BY <1>4, <2>1, ApplyFacts DEF n
<1>6. Places(u) = Places(old)
  BY DEF RowEdit, old, Places
<1>7. ASSUME NEW k \in Places(u), k \notin places
      PROVE  ~(u.mm[k] > n)
  <2>1. k \in 1 .. Len(old.mm) /\ ~(old.mm[k] > n)
    BY <1>1, <1>6, <1>7
  <2>2. u.mm = old.mm \/ u.mm = Stamped(w, old.mm, places)
    BY DEF RowEdit, old
  <2>3. Stamped(w, old.mm, places)[k] = old.mm[k]
    BY <2>1, <1>2, <1>7
  <2> QED
    BY <2>1, <2>2, <2>3
<1> QED
  BY <1>5, <1>6, <1>7 DEF n, old

\* The unit after an edit that was accepted, and what it leaves selected.
EditedTo(w, v, s) == Edited(w, v, v.session.unit, s)

\* set_size() is refused, or sizes the selected opening and no other.
LEMMA SetSizeFacts ==
    ASSUME NEW w, Base(w), ~w.document.pending
    PROVE  LET v == SetSizeNow(w).world
               id == SelectedId(w)
               u == w.session.unit
           IN  \/ v = w
               \/ /\ EditedTo(w, v, <<id>>) /\ id \in ToSet(u.ids) /\ id \in Ids
                  /\ v.session.unit.boards = u.boards /\ v.session.unit.ids = u.ids
                  /\ \A k \in Places(v.session.unit) :
                        k # PlaceOf(u, id) => ~(v.session.unit.mm[k] > w.session.edits)
<1> DEFINE u == w.session.unit
           id == SelectedId(w)
           k == PlaceOf(u, id)
           new == [u EXCEPT !.mm = Stamped(w, @, {k}), !.locked[k] = TRUE]
           v == Apply(w, new, <<u.ids[k]>>, FALSE)
<1>1. CASE ~(id \in ToSet(u.ids) /\ CanFix(u, k))
  BY <1>1, Zenon DEF SetSizeNow, Refused
<1>2. CASE id \in ToSet(u.ids) /\ CanFix(u, k)
  <2>1. SetSizeNow(w).world = v
    BY <1>2 DEF SetSizeNow, Did
  <2>2. /\ DOMAIN u = {"boards", "locked", "mm", "ids"} /\ u.locked \in Seq(BOOLEAN)
        /\ u.ids \in Seq(Ids) /\ UnitOK(u, w.session.edits) /\ Len(u.locked) = Len(u.ids)
    BY UnitFacts
  <2>3. k \in 1 .. Len(u.ids) /\ u.ids[k] = id /\ id \in Ids
    <3>1. ToSet(u.ids) \subseteq Ids
      BY <2>2, ToSetIsFinite
    <3>2. k \in 1 .. Len(u.ids) /\ u.ids[k] = id
      <4> HIDE DEF u, id
      <4> QED
        BY <1>2, <2>2, PlaceFacts
    <3> QED
      BY <3>1, <3>2, <1>2
  <2> HIDE DEF k
  <2>4. RowEdit(w, new, {k})
    BY <2>2, <2>3 DEF RowEdit
  <2>5. <<id>> \in Seq(Ids \cup BoardNames) /\ ToSet(<<id>>) \subseteq Ids
    BY <2>3 DEF ToSet
  <2>6. v = Apply(w, new, <<id>>, FALSE)
    BY <2>3
  <2> HIDE DEF new, u, id, v
  <2>7. /\ Edited(w, v, new, <<id>>)
        /\ \A l \in Places(new) : l \notin {k} => ~(new.mm[l] > w.session.edits)
    BY <2>4, <2>5, <2>6, RowEditFacts
  <2>8. v.session.unit = new
    BY <2>7 DEF Edited
  <2>9. new.boards = u.boards /\ new.ids = u.ids
    BY <2>4 DEF RowEdit, u
  <2> QED
    BY <1>2, <2>1, <2>3, <2>7, <2>8, <2>9 DEF EditedTo, k, id, u
<1> QED
  BY <1>1, <1>2, SMTT(40)

\* The lock of one opening is as asked, and the rest of the row as it was.
Relocked(w, v, id, locked) ==
    LET u == w.session.unit
        k == PlaceOf(u, id)
    IN  /\ EditedTo(w, v, w.session.selection) /\ NoStamp(w, v.session.unit)
        /\ id \in ToSet(u.ids) /\ k \in Places(u) /\ u.ids[k] = id
        /\ v.session.unit.boards = u.boards /\ v.session.unit.ids = u.ids
        /\ v.session.unit.locked[k] = locked
        /\ \A l \in Places(u) : l # k => v.session.unit.locked[l] = u.locked[l]

\* set_lock() is refused, or turns one lock and sizes nothing.
LEMMA SetLockFacts ==
    ASSUME NEW w, Base(w), ~w.document.pending, NEW id, NEW locked \in BOOLEAN
    PROVE  \/ SetLockNow(w, id, locked).world = w
           \/ Relocked(w, SetLockNow(w, id, locked).world, id, locked)
<1> DEFINE u == w.session.unit
           k == PlaceOf(u, id)
           new == [u EXCEPT !.locked[k] = locked]
           s == w.session.selection
           v == Apply(w, new, s, FALSE)
<1>1. CASE ~(id \in ToSet(u.ids) /\ (locked => CanFix(u, k)))
  BY <1>1 DEF SetLockNow, Refused
<1>2. CASE id \in ToSet(u.ids) /\ (locked => CanFix(u, k))
  <2>1. SetLockNow(w, id, locked).world = v
    BY <1>2 DEF SetLockNow, Did
  <2>2. /\ DOMAIN u = {"boards", "locked", "mm", "ids"} /\ u.locked \in Seq(BOOLEAN)
        /\ UnitOK(u, w.session.edits) /\ Len(u.locked) = Len(u.ids)
        /\ Places(u) = 1 .. Len(u.ids)
        /\ s \in Seq(Ids \cup BoardNames)
        /\ (ToSet(s) \subseteq BoardIds(u) \/ ToSet(s) \subseteq Ids)
    BY UnitFacts
  <2>3. k \in 1 .. Len(u.ids) /\ u.ids[k] = id
    <3> HIDE DEF u
    <3> QED
      BY <1>2, <2>2, PlaceFacts
  <2> HIDE DEF k
  <2>4. RowEdit(w, new, {}) /\ new.locked[k] = locked
        /\ \A l \in Places(u) : l # k => new.locked[l] = u.locked[l]
    BY <2>2, <2>3 DEF RowEdit
  <2> HIDE DEF new
  <2>5. /\ Edited(w, v, new, s)
        /\ \A l \in Places(new) : ~(new.mm[l] > w.session.edits)
    <3>1. PICK none : none = {}
      OBVIOUS
    <3>2. RowEdit(w, new, none)
      BY <2>4, <3>1
    <3>3. /\ Edited(w, v, new, s)
          /\ \A l \in Places(new) : l \notin none => ~(new.mm[l] > w.session.edits)
      BY <2>2, <3>2, RowEditFacts
    <3> QED
      BY <3>1, <3>3
  <2> HIDE DEF v
  <2>6. v.session.unit = new
    BY <2>5 DEF Edited
  <2>7. new.boards = u.boards /\ new.ids = u.ids
    BY <2>4 DEF RowEdit
  <2>8. NoStamp(w, new)
    BY <2>5 DEF NoStamp
  <2>9. EditedTo(w, v, s)
    BY <2>5, <2>6 DEF EditedTo
  <2> QED
    BY <1>2, <2>1, <2>2, <2>3, <2>4, <2>6, <2>7, <2>8, <2>9 DEF k, Relocked
<1> QED
  BY <1>1, <1>2

\* unlock_holders() is refused, or unlocks the board's sides and moves none.
LEMMA UnlockHoldersFacts ==
    ASSUME NEW w, Base(w), ~w.document.pending, NEW b
    PROVE  LET v == UnlockHoldersNow(w, b).world
           IN  \/ v = w
               \/ /\ EditedTo(w, v, w.session.selection) /\ NoStamp(w, v.session.unit)
                  /\ v.session.unit.boards = w.session.unit.boards
<1> DEFINE u == w.session.unit
           free == HoldersOf(u, b)
           new == [u EXCEPT !.locked = [k \in DOMAIN @ |-> k \notin free /\ @[k]]]
           s == w.session.selection
           v == Apply(w, new, s, FALSE)
<1>1. CASE ~(b \in ToSet(u.boards) /\ free # {})
  BY <1>1 DEF UnlockHoldersNow, Refused
<1>2. CASE b \in ToSet(u.boards) /\ free # {}
  <2>1. UnlockHoldersNow(w, b).world = v
    BY <1>2 DEF UnlockHoldersNow, Did
  <2>2. /\ DOMAIN u = {"boards", "locked", "mm", "ids"} /\ u.locked \in Seq(BOOLEAN)
        /\ s \in Seq(Ids \cup BoardNames)
        /\ (ToSet(s) \subseteq BoardIds(u) \/ ToSet(s) \subseteq Ids)
    BY UnitFacts
  <2> HIDE DEF free
  <2>3. new.locked \in Seq(BOOLEAN) /\ Len(new.locked) = Len(u.locked)
    <3> DEFINE t == [k \in DOMAIN u.locked |-> k \notin free /\ u.locked[k]]
    <3>1. new.locked = t
      BY <2>2
    <3>2. DOMAIN u.locked = 1 .. Len(u.locked) /\ Len(u.locked) \in Nat
      BY <2>2
    <3>3. t \in Seq(BOOLEAN) /\ Len(t) = Len(u.locked)
      BY <3>2
    <3> QED
      BY <3>1, <3>3
  <2>4. RowEdit(w, new, {})
    BY <2>2, <2>3 DEF RowEdit
  <2> HIDE DEF new
  <2>5. /\ Edited(w, v, new, s)
        /\ \A l \in Places(new) : ~(new.mm[l] > w.session.edits)
    <3>1. PICK none : none = {}
      OBVIOUS
    <3>2. RowEdit(w, new, none)
      BY <2>4, <3>1
    <3>3. /\ Edited(w, v, new, s)
          /\ \A l \in Places(new) : l \notin none => ~(new.mm[l] > w.session.edits)
      BY <2>2, <3>2, RowEditFacts
    <3> QED
      BY <3>1, <3>3
  <2> HIDE DEF v
  <2>6. v.session.unit = new /\ new.boards = u.boards
    BY <2>4, <2>5 DEF Edited, RowEdit
  <2>7. NoStamp(w, new)
    BY <2>5 DEF NoStamp
  <2> QED
    BY <2>1, <2>5, <2>6, <2>7 DEF EditedTo
<1> QED
  BY <1>1, <1>2, SMTT(40)

\* resize() stamps no locked opening and moves no board.
LEMMA ResizeFacts ==
    ASSUME NEW w, Base(w), ~w.document.pending
    PROVE  LET v == ResizeNow(w)
           IN  /\ EditedTo(w, v, w.session.selection) /\ NoStamp(w, v.session.unit)
               /\ v.session.unit.boards = w.session.unit.boards
<1> DEFINE u == w.session.unit
           free == {k \in Places(u) : ~u.locked[k]}
           new == [u EXCEPT !.mm = Stamped(w, @, free)]
           s == w.session.selection
           v == ResizeNow(w)
<1>1. v = Apply(w, new, s, FALSE)
  BY DEF ResizeNow
<1>2. /\ DOMAIN u = {"boards", "locked", "mm", "ids"} /\ u.locked \in Seq(BOOLEAN)
      /\ s \in Seq(Ids \cup BoardNames)
      /\ (ToSet(s) \subseteq BoardIds(u) \/ ToSet(s) \subseteq Ids)
  BY UnitFacts
<1>3. new.locked = u.locked /\ new.boards = u.boards /\ new.ids = u.ids
      /\ new.mm = Stamped(w, u.mm, free) /\ DOMAIN new = DOMAIN u
  BY <1>2
<1> HIDE DEF new, v
<1>4. RowEdit(w, new, free)
  BY <1>2, <1>3 DEF RowEdit
<1>5. Edited(w, v, new, s) /\ Places(new) = Places(u)
  BY <1>1, <1>2, <1>4, RowEditFacts
<1>6. NoStamp(w, new)
  BY <1>3, <1>5, StampIsFree
<1>7. v.session.unit = new
  BY <1>5 DEF Edited
<1> QED
  BY <1>3, <1>5, <1>6, <1>7 DEF EditedTo, v

\* delete_boards() is refused, or takes the boards asked for and selects nothing.
LEMMA RemoveFacts ==
    ASSUME NEW w, Base(w), ~w.document.pending, NEW S, NEW bs \in Seq(S)
    PROVE  LET v == RemoveNow(w, bs).world
               old == w.session.unit
               new == v.session.unit
           IN  \/ v = w /\ RemoveNow(w, bs) = Refused(w)
               \/ /\ EditedTo(w, v, << >>) /\ NoStamp(w, new)
                  /\ RemoveNow(w, bs) = Did(v)
                  /\ ToSet(new.boards) \subseteq ToSet(old.boards)
                  /\ ToSet(old.boards) \ ToSet(bs) \subseteq ToSet(new.boards)
                  /\ \A x \in ToSet(bs) : x \notin ToSet(new.boards)
<1> DEFINE u == w.session.unit
           new == Remaining(w, bs)
           v == Apply(w, new, << >>, FALSE)
<1>1. CASE ~(bs # << >> /\ Shell \notin ToSet(bs))
  BY <1>1 DEF RemoveNow, Refused
<1>2. CASE bs # << >> /\ Shell \notin ToSet(bs)
  <2>1. RemoveNow(w, bs) = Did(v) /\ Did(v).world = v
    BY <1>2 DEF RemoveNow, Did
  <2>2. /\ w.session.edits \in Nat /\ UnitOK(u, w.session.edits)
        /\ \A k \in Places(u) : ~(u.mm[k] > w.session.edits)
    BY UnitFacts
  <2>3. /\ UnitOK(new, w.session.edits + 1)
        /\ ToSet(new.boards) \subseteq ToSet(u.boards)
        /\ ToSet(u.boards) \ ToSet(bs) \subseteq ToSet(new.boards)
        /\ new = u \/ Len(new.boards) < Len(u.boards)
        /\ \A x \in ToSet(bs) : x \notin ToSet(new.boards)
    BY <2>2, RemainingFacts
  <2>4. << >> \in Seq(Ids \cup BoardNames) /\ ToSet(<< >>) \subseteq Ids
    BY DEF ToSet
  <2> HIDE DEF new
  <2>5. Edited(w, v, new, << >>)
    BY <2>3, <2>4, ApplyFacts
  <2> HIDE DEF v
  <2>6. v.session.unit = new
    BY <2>5 DEF Edited
  <2>7. NoStamp(w, new)
    <3>1. w.document.row.boards = u.boards
      BY DEF Base, Rows, Bare
    <3>2. CASE new = u
      BY <3>2, <2>2 DEF NoStamp
    <3>3. CASE Len(new.boards) < Len(u.boards)
      <4>1. new.boards # u.boards
        <5>1. Len(u.boards) \in Nat
          BY UnitFacts
        <5> QED
          BY <5>1, <3>3
      <4> QED
        BY <4>1, <3>1 DEF NoStamp
    <3> QED
      BY <3>2, <3>3, <2>3
  <2> QED
    BY <2>1, <2>3, <2>5, <2>6, <2>7 DEF EditedTo
<1> QED
  BY <1>1, <1>2

\* A row with room for one more opening leaves a board's name unused.
LEMMA NameIsLeft ==
    ASSUME NEW n, NEW u, UnitOK(u, n), Len(u.ids) < MaxOpenings
    PROVE  \E b \in Boards : b \notin ToSet(u.boards)
<1>1. /\ u.boards \in Seq(Boards) /\ Len(u.boards) \in Nat /\ Len(u.ids) = Len(u.boards) + 1
      /\ DOMAIN u.boards = 1 .. Len(u.boards)
  BY DEF UnitOK, RowLike
<1>2. u.boards \in Surjection(1 .. Len(u.boards), ToSet(u.boards))
  BY <1>1 DEF Surjection, ToSet
<1>3. Cardinality(ToSet(u.boards)) <= Len(u.boards)
  <2>1. ExistsSurjection(1 .. Len(u.boards), ToSet(u.boards))
    BY <1>2 DEF ExistsSurjection
  <2> QED
    BY <1>1, <2>1, FS_SurjCardinalityBound
<1>4. IsFiniteSet(Boards) /\ MaxOpenings <= Cardinality(Boards) + 1 /\ MaxOpenings \in Nat
  BY NamesAssumption, BoundAssumption
<1>5. Cardinality(Boards) \in Nat
  BY <1>4, FS_CardinalityType
<1>6. ToSet(u.boards) \subseteq Boards
  BY <1>1, ToSetIsFinite
<1>7. ToSet(u.boards) # Boards
  BY <1>1, <1>3, <1>4, <1>5
<1> QED
  BY <1>6, <1>7

\* split() is refused, or keeps every board, and selects nothing.
LEMMA SplitNowFacts ==
    ASSUME NEW w, Base(w), ~w.document.pending
    PROVE  LET v == SplitNow(w).world
               old == w.session.unit
               new == v.session.unit
           IN  \/ v = w /\ SplitNow(w) = Refused(w)
               \/ /\ EditedTo(w, v, << >>) /\ NoStamp(w, new)
                  /\ SplitNow(w) = Did(v)
                  /\ ToSet(old.boards) \subseteq ToSet(new.boards)
<1> DEFINE u == w.session.unit
           n == w.session.edits
           id == SelectedId(w)
           k == PlaceOf(u, id)
           ids == NewIds(Mentioned(w), 2)
           b == CHOOSE b \in Boards : b \notin ToSet(u.boards)
           new == SplitRow(u, n + 1, k, b, ids)
           v == Apply(w, new, << >>, FALSE)
<1>1. CASE ~(id \in ToSet(u.ids) /\ Len(u.ids) < MaxOpenings)
  BY <1>1, Zenon DEF SplitNow, Refused
<1>2. CASE id \in ToSet(u.ids) /\ Len(u.ids) < MaxOpenings
  <2>1. SplitNow(w) = Did(v) /\ Did(v).world = v
    BY <1>2 DEF SplitNow, Did, SplitRow
  <2>2. /\ n \in Nat /\ UnitOK(u, n) /\ u.ids \in Seq(Ids) /\ Len(u.boards) \in Nat
    BY UnitFacts
  <2>3. k \in 1 .. Len(u.ids)
    <3> HIDE DEF u, id
    <3> QED
      BY <1>2, <2>2, PlaceFacts
  <2>4. b \in Boards /\ b \notin ToSet(u.boards)
    BY <1>2, <2>2, NameIsLeft
  <2>5. /\ ids \in Seq(Ids) /\ Len(ids) = 2 /\ IsInjective(ids)
        /\ ToSet(ids) \cap Mentioned(w) = {}
    <3>1. IsFiniteSet(Mentioned(w))
      <4>1. PICK D : w.jobs \in Seq(D)
        BY DEF Base, Shaped, IsSeq
      <4>2. /\ w.session.unit.ids \in Seq(Ids) /\ w.session.selection \in Seq(Ids \cup BoardNames)
            /\ w.editor.drawn.unit.ids \in Seq(Ids)
        BY UnitFacts DEF Base, Attributes
      <4> QED
        BY <4>1, <4>2, MentionedIsFinite
    <3> QED
      BY <3>1, NewIdsFacts
  <2>6. ToSet(ids) \cap ToSet(u.ids) = {}
    <3>1. ToSet(u.ids) \subseteq Mentioned(w)
      BY DEF Mentioned
    <3> QED
      BY <2>5, <3>1
  <2> HIDE DEF k, b, ids, u
  <2>7. /\ UnitOK(new, n + 1) /\ Len(new.boards) = Len(u.boards) + 1
        /\ ToSet(u.boards) \subseteq ToSet(new.boards)
    <3>1. Len(u.ids) < MaxOpenings
      BY <1>2
    <3> HIDE DEF n, id
    <3> QED
      <4>1. n \in Nat /\ UnitOK(u, n) /\ Len(u.ids) < MaxOpenings
        BY <2>2, <3>1
      <4>2. ids \in Seq(Ids) /\ Len(ids) = 2 /\ IsInjective(ids)
        BY <2>5
      <4>3. UnitOK(new, n + 1) /\ OneMore(u, new)
        BY <4>1, <4>2, <2>3, <2>4, <2>6, SplitFacts, Zenon
      <4> HIDE DEF new
      <4> QED
        BY <4>3 DEF OneMore
  <2>8. << >> \in Seq(Ids \cup BoardNames) /\ ToSet(<< >>) \subseteq Ids
    BY DEF ToSet
  <2> HIDE DEF new
  <2>9. Edited(w, v, new, << >>)
    BY <2>7, <2>8, ApplyFacts
  <2> HIDE DEF v
  <2>10. v.session.unit = new
    BY <2>9 DEF Edited
  <2>11. NoStamp(w, new)
    <3>1. w.document.row.boards = u.boards
      BY DEF Base, Rows, Bare, u
    <3>2. new.boards # u.boards
      BY <2>2, <2>7
    <3> QED
      BY <3>1, <3>2 DEF NoStamp
  <2> QED
    BY <2>1, <2>7, <2>9, <2>10, <2>11 DEF EditedTo, u
<1> QED
  BY <1>1, <1>2, SMTT(40)

\* drag_to() is refused, or moves the dragged board between the boards it was at.
LEMMA DragToFacts ==
    ASSUME NEW w, Base(w), ~w.document.pending, w.session.drag # Nothing
    PROVE  LET drag == w.session.drag
               v == DragTo(w, drag)
           IN  \/ v = w
               \/ \E x : /\ v = [x EXCEPT !.session.drag.moved = TRUE]
                         /\ EditedTo(w, x, <<drag.board>>) /\ NoStamp(w, x.session.unit)
                         /\ x.session.unit.boards = w.session.unit.boards
                         /\ x.session.unit.ids = w.session.unit.ids
                         /\ x.session.unit.locked = w.session.unit.locked
                         /\ drag.board \in ToSet(w.session.unit.boards)
<1> DEFINE drag == w.session.drag
           u == w.session.unit
           n == w.session.edits
           k == PlaceOfBoard(u, drag.board)
           left == Free(u, 1 .. k)
           right == Free(u, k + 1 .. Len(u.ids))
           places == {Max(left), Min(right)}
           new == [u EXCEPT !.mm = Stamped(w, @, places)]
           s == <<drag.board>>
           x == Apply(w, new, s, drag.moved)
           v == DragTo(w, drag)
<1>1. CASE drag.board \notin ToSet(u.boards) \/ HoldersOf(u, drag.board) # {}
  BY <1>1, Zenon DEF DragTo
<1>2. CASE drag.board \in ToSet(u.boards) /\ HoldersOf(u, drag.board) = {}
  <2>1. v = [x EXCEPT !.session.drag.moved = TRUE]
    BY <1>2 DEF DragTo
  <2>2. /\ n \in Nat /\ UnitOK(u, n) /\ Len(u.boards) \in Nat /\ u.boards \in Seq(Boards)
        /\ Len(u.ids) = Len(u.boards) + 1 /\ u.locked \in Seq(BOOLEAN)
        /\ DOMAIN u = {"boards", "locked", "mm", "ids"}
    BY UnitFacts
  <2>3. k \in 1 .. Len(u.boards)
    <3>1. PICK b : b = drag.board
      OBVIOUS
    <3>2. b \in ToSet(u.boards)
      BY <3>1, <1>2
    <3> HIDE DEF u, n, drag
    <3>3. PlaceOfBoard(u, b) \in 1 .. Len(u.boards)
      BY <3>2, <2>2, PlaceFacts
    <3> QED
      BY <3>1, <3>3
  <2>4. left # {} /\ right # {}
    <3>1. \E l \in 1 .. k : ~u.locked[l]
      BY <1>2 DEF HoldersOf
    <3>2. \E l \in k + 1 .. Len(u.ids) : ~u.locked[l]
      BY <1>2 DEF HoldersOf
    <3> QED
      BY <3>1, <3>2 DEF Free
  <2> HIDE DEF k
  <2>5. Max(left) \in left
    <3>1. left \subseteq 1 .. k /\ k \in Nat
      BY <2>3 DEF Free
    <3> HIDE DEF left
    <3> QED
      BY <2>4, <3>1, MaxFacts
  <2>6. Min(right) \in right
    <3>1. right \subseteq Nat
      BY <2>2, <2>3 DEF Free
    <3> HIDE DEF right
    <3> QED
      BY <2>4, <3>1, MinFacts
  <2>7. \A l \in places : ~u.locked[l]
    BY <2>5, <2>6 DEF Free
  <2> HIDE DEF left, right, places
  <2>8. new.locked = u.locked /\ new.boards = u.boards /\ new.ids = u.ids
        /\ new.mm = Stamped(w, u.mm, places) /\ DOMAIN new = DOMAIN u
    BY <2>2
  <2> HIDE DEF new
  <2>9. RowEdit(w, new, places)
    BY <2>2, <2>8 DEF RowEdit
  <2>10. s \in Seq(Ids \cup BoardNames) /\ ToSet(s) \subseteq BoardIds(u)
    <3>1. ToSet(u.boards) \subseteq Boards
      BY <2>2, ToSetIsFinite
    <3>2. drag.board \in Boards /\ drag.board \in BoardIds(u)
      BY <3>1, <1>2 DEF BoardIds
    <3>3. Boards \subseteq Ids \cup BoardNames
      BY DEF BoardNames
    <3> HIDE DEF drag, u
    <3> QED
      BY <3>2, <3>3 DEF ToSet
  <2> HIDE DEF s
  <2>11. Edited(w, x, new, s) /\ Places(new) = Places(u)
    BY <2>9, <2>10, RowEditFacts
  <2>12. NoStamp(w, new)
    BY <2>7, <2>8, <2>11, StampIsFree
  <2> HIDE DEF x, v, drag
  <2>13. x.session.unit = new
    BY <2>11 DEF Edited
  <2> QED
    BY <1>2, <2>1, <2>8, <2>11, <2>12, <2>13 DEF EditedTo, v, s, drag
<1> QED
  BY <1>1, <1>2, Zenon

------------------------------------------------------------------------------
(* A step leaves the world fine: good, with no new size behind a lock.       *)

\* What a step makes of a good world: one as good, in which no locked opening
\* has a new size.
Fine(w, v) == Good(v) /\ NoStamp(w, v.session.unit)

\* Where no edit was made no size is new.
LEMMA QuietFacts ==
    ASSUME NEW w, NEW v, Base(v), v.session.edits = w.session.edits
    PROVE  NoStamp(w, v.session.unit)
<1>1. \A k \in Places(v.session.unit) : ~(v.session.unit.mm[k] > v.session.edits)
  BY UnitFacts
<1> QED
  BY <1>1 DEF NoStamp

\* _refresh() draws what an edit left.
LEMMA RefreshGood ==
    ASSUME NEW w, Core(w)
    PROVE  Good(Refresh(w)) /\ Refresh(w).session = w.session
<1> DEFINE v == Refresh(w)
<1>1. v = Rebuild(w)
  BY DEF Refresh
<1> HIDE DEF v
<1>2. Base(v) /\ Shown(v) /\ Current(v) /\ v.session = w.session /\ Held(v) /\ Drag(v)
  BY <1>1, RebuildFacts DEF Core
<1> QED
  BY <1>2 DEF v, Good, Core

\* Queueing a callback changes nothing else, and frees no hand.
LEMMA QueueFacts ==
    ASSUME NEW w, Base(w), NEW job, job.kind \in Kinds, job.kind = "open" => job.id \in Ids
    PROVE  LET v == Queue(w, job)
           IN  /\ Base(v)
               /\ v.session = w.session /\ v.document = w.document /\ v.picked = w.picked
               /\ v.editor = w.editor /\ v.view = w.view
               /\ ToSet(v.jobs) = ToSet(w.jobs) \cup {job}
               /\ Held(w) => Held(v)
               /\ Shown(w) => Shown(v)
               /\ Current(w) => Current(v)
               /\ HandsFree(w) /\ (w.editor.dragging => job.kind \notin {"open", "click"})
                     => HandsFree(v)
               /\ DragHolds(w) /\ job.kind # "follow" => DragHolds(v)
<1> DEFINE v == Queue(w, job)
<1>1. Shaped(w) /\ Flagged(w) /\ Rows(w) /\ Selection(w) /\ Waiting(w) /\ Attributes(w) /\ Picks(w)
  BY DEF Base
<1>2. /\ v.session = w.session /\ v.document = w.document /\ v.picked = w.picked
      /\ v.editor = w.editor /\ v.view = w.view /\ DOMAIN v = DOMAIN w
      /\ v.jobs = Append(w.jobs, job)
  BY <1>1 DEF Queue, Shaped
<1> HIDE DEF v
<1>3. IsSeq(v.jobs) /\ ToSet(v.jobs) = ToSet(w.jobs) \cup {job}
  BY <1>1, <1>2, AppendIsSeq DEF Shaped
<1>4. \A kind : HasJob(v, kind) <=> HasJob(w, kind) \/ kind = job.kind
  BY <1>3 DEF HasJob
<1>5. Shaped(v) /\ Flagged(v)
  BY <1>1, <1>2, <1>3, <1>4 DEF Shaped, Flagged
<1>6. Rows(v) /\ Selection(v) /\ Attributes(v)
  BY <1>1, <1>2 DEF Rows, Selection, Attributes
<1>7. Waiting(v)
  BY <1>1, <1>3 DEF Waiting
<1>8. Picks(v)
  BY <1>1, <1>2 DEF Picks, InDocument
<1>9. ArrowFor(v) = ArrowFor(w) /\ HeldFor(v) = HeldFor(w) /\ BarFor(v) = BarFor(w)
      /\ SelectedBoards(v) = SelectedBoards(w)
  BY <1>2, DrawnForSession
<1>10. Held(w) => Held(v)
  BY <1>2, <1>4, <1>9 DEF Held, FollowsOn
<1>11. (Shown(w) => Shown(v)) /\ (Current(w) => Current(v))
  BY <1>2, <1>9 DEF Shown, Current
<1>12. HandsFree(w) /\ (w.editor.dragging => job.kind \notin {"open", "click"}) => HandsFree(v)
  BY <1>2, <1>4 DEF HandsFree
<1>13. DragHolds(w) /\ job.kind # "follow" => DragHolds(v)
  BY <1>2, <1>4 DEF DragHolds, Loose
<1> QED
  BY <1>2, <1>3, <1>5, <1>6, <1>7, <1>8, <1>10, <1>11, <1>12, <1>13 DEF v, Base

\* A world that differs from w in its first callback and in flags alone, which
\* are down where that callback was what they told of.
Pops(w, v) ==
    /\ DOMAIN v = DOMAIN w /\ DOMAIN v.editor = DOMAIN w.editor
    /\ v.session = w.session /\ v.document = w.document /\ v.picked = w.picked
    /\ v.view = w.view /\ v.jobs = Tail(w.jobs) /\ w.jobs # << >>
    /\ v.editor.closed = w.editor.closed /\ v.editor.field = w.editor.field
    /\ v.editor.focus = w.editor.focus /\ v.editor.drawn = w.editor.drawn
    /\ v.editor.boards = w.editor.boards /\ v.editor.arrow = w.editor.arrow
    /\ v.editor.held = w.editor.held /\ v.editor.bar = w.editor.bar
    /\ v.editor.dragging = w.editor.dragging
    /\ v.editor.followQueued => w.editor.followQueued /\ Head(w.jobs).kind # "follow"
    /\ v.editor.refreshQueued => w.editor.refreshQueued /\ Head(w.jobs).kind # "refresh"
    /\ v.editor.sideQueued => w.editor.sideQueued /\ Head(w.jobs).kind # "side"

\* Taking the first callback off the queue, with its flag, keeps what is known.
LEMMA PopFacts ==
    ASSUME NEW w, Base(w), NEW v, Pops(w, v)
    PROVE  /\ Base(v)
           /\ Held(w) /\ Head(w.jobs).kind # "follow" => Held(v)
           /\ Shown(w) => Shown(v)
           /\ Current(w) /\ v.editor.refreshQueued = w.editor.refreshQueued
                 /\ v.editor.sideQueued = w.editor.sideQueued => Current(v)
           /\ HandsFree(w) => HandsFree(v)
           /\ DragHolds(w) => DragHolds(v)
           /\ Loose(w) => Loose(v)
           /\ Head(w.jobs) \in ToSet(w.jobs)
<1>1. Shaped(w) /\ Flagged(w) /\ Rows(w) /\ Selection(w) /\ Waiting(w) /\ Attributes(w) /\ Picks(w)
  BY DEF Base
<1>2. IsSeq(v.jobs) /\ ToSet(w.jobs) = {Head(w.jobs)} \cup ToSet(v.jobs)
  <2>1. PICK S : w.jobs \in Seq(S)
    BY <1>1 DEF Shaped, IsSeq
  <2>2. PICK s : s = w.jobs
    OBVIOUS
  <2>3. s \in Seq(S) /\ s # << >> /\ v.jobs = Tail(s)
    BY <2>1, <2>2 DEF Pops
  <2>4. /\ Len(s) \in Nat /\ Len(s) >= 1 /\ DOMAIN s = 1 .. Len(s)
        /\ Tail(s) \in Seq(S) /\ Len(Tail(s)) = Len(s) - 1
        /\ DOMAIN Tail(s) = 1 .. Len(s) - 1
        /\ \A i \in 1 .. Len(s) - 1 : Tail(s)[i] = s[i + 1]
        /\ Head(s) = s[1]
    BY <2>3
  <2>5. ToSet(Tail(s)) \subseteq ToSet(s) /\ Head(s) \in ToSet(s)
    BY <2>4 DEF ToSet
  <2>6. ASSUME NEW i \in 1 .. Len(s) PROVE s[i] = Head(s) \/ s[i] \in ToSet(Tail(s))
    <3>1. CASE i = 1
      BY <3>1, <2>4
    <3>2. CASE i # 1
      <4>1. i - 1 \in 1 .. Len(s) - 1 /\ s[i] = Tail(s)[i - 1]
        BY <3>2, <2>4
      <4> QED
        BY <4>1, <2>4 DEF ToSet
    <3> QED
      BY <3>1, <3>2
  <2>7. ToSet(s) = {Head(s)} \cup ToSet(Tail(s))
    BY <2>4, <2>5, <2>6 DEF ToSet
  <2> QED
    BY <2>2, <2>3, <2>4, <2>7 DEF IsSeq
<1>3. \A kind : HasJob(w, kind) <=> HasJob(v, kind) \/ kind = Head(w.jobs).kind
  BY <1>2 DEF HasJob
<1>4. Shaped(v)
  BY <1>1, <1>2 DEF Shaped, Pops
<1>5. Flagged(v)
  BY <1>1, <1>3 DEF Flagged, Pops
<1>6. Rows(v) /\ Selection(v) /\ Attributes(v)
  BY <1>1 DEF Rows, Selection, Attributes, Pops
<1>7. Waiting(v)
  BY <1>1, <1>2 DEF Waiting
<1>8. Picks(v)
  BY <1>1 DEF Picks, InDocument, Pops
<1>9. ArrowFor(v) = ArrowFor(w) /\ HeldFor(v) = HeldFor(w) /\ BarFor(v) = BarFor(w)
      /\ SelectedBoards(v) = SelectedBoards(w)
  BY DrawnForSession DEF Pops
<1>10. Held(w) /\ Head(w.jobs).kind # "follow" => Held(v)
  BY <1>3, <1>9 DEF Held, FollowsOn, Pops
<1>11. Shown(w) => Shown(v)
  BY DEF Shown, Pops
<1>12. Current(w) /\ v.editor.refreshQueued = w.editor.refreshQueued
          /\ v.editor.sideQueued = w.editor.sideQueued => Current(v)
  BY <1>9 DEF Current, Pops
<1>13. (HandsFree(w) => HandsFree(v)) /\ (DragHolds(w) => DragHolds(v)) /\ (Loose(w) => Loose(v))
  BY <1>3 DEF HandsFree, DragHolds, Loose, Pops
<1> QED
  BY <1>2, <1>4, <1>5, <1>6, <1>7, <1>8, <1>10, <1>11, <1>12, <1>13 DEF Base

\* An edit leaves a core as good, where nothing is dragged or what is has left
\* the unit.
LEMMA EditedCore ==
    ASSUME NEW w, NEW v, NEW s, Core(w), EditedTo(w, v, s),
           \/ ToSet(s) \subseteq Ids
           \/ s = w.session.selection /\ v.session.unit.boards = w.session.unit.boards,
           w.session.drag = Nothing \/ w.editor.closed \/ Loose(v)
    PROVE  Core(v)
<1>1. Edited(w, v, v.session.unit, s) /\ Base(w) /\ Held(w) /\ Drag(w)
  BY DEF EditedTo, Core
<1>2. Base(v)
  BY <1>1 DEF Edited
<1>3. Held(v)
  BY <1>1, EditedHolds
<1>4. Drag(v)
  BY <1>1 DEF Drag, DragHolds, Loose, Edited, FollowQueued, SameEditor
<1> QED
  BY <1>2, <1>3, <1>4 DEF Core

\* No board is dragged where the mouse drags none.
LEMMA Still ==
    ASSUME NEW w, Core(w), w.editor.closed \/ ~w.editor.dragging
    PROVE  w.editor.closed \/ w.session.drag = Nothing
BY DEF Core, Drag, DragHolds

(***************************************************************************)
(* The two selections.                                                     *)
(***************************************************************************)
\* A world but for what the session has selected.
Selecting(w, s) == [w EXCEPT !.session.selection = s]

\* Another selection of the session's leaves the rest as known.
LEMMA SelectingFacts ==
    ASSUME NEW w, Base(w), NEW s \in Seq(Ids \cup BoardNames),
           ToSet(s) \subseteq BoardIds(w.session.unit) \/ ToSet(s) \subseteq Ids
    PROVE  LET v == Selecting(w, s)
           IN  /\ Base(v)
               /\ v.session.unit = w.session.unit /\ v.session.selection = s
               /\ v.session.edits = w.session.edits /\ v.session.drag = w.session.drag
               /\ v.session.open = w.session.open
               /\ v.document = w.document /\ v.picked = w.picked /\ v.jobs = w.jobs
               /\ v.editor = w.editor /\ v.view = w.view
               /\ HandsFree(w) => HandsFree(v)
               /\ Loose(w) /\ DragHolds(w) => Loose(v) /\ DragHolds(v)
<1> DEFINE v == Selecting(w, s)
<1>1. Shaped(w) /\ Flagged(w) /\ Rows(w) /\ Selection(w) /\ Waiting(w) /\ Attributes(w) /\ Picks(w)
  BY DEF Base
<1>2. /\ v.session.unit = w.session.unit /\ v.session.selection = s
      /\ v.session.edits = w.session.edits /\ v.session.drag = w.session.drag
      /\ v.session.open = w.session.open /\ DOMAIN v.session = DOMAIN w.session
      /\ v.document = w.document /\ v.picked = w.picked /\ v.jobs = w.jobs
      /\ v.editor = w.editor /\ v.view = w.view /\ DOMAIN v = DOMAIN w
  BY <1>1 DEF Selecting, Shaped
<1> HIDE DEF v
<1>3. Shaped(v) /\ Flagged(v)
  BY <1>1, <1>2 DEF Shaped, Flagged, HasJob
<1>4. Rows(v) /\ Waiting(v) /\ Attributes(v)
  BY <1>1, <1>2 DEF Rows, Waiting, Attributes
<1>5. Selection(v)
  BY <1>2 DEF Selection
<1>6. Picks(v)
  BY <1>1, <1>2 DEF Picks, InDocument
<1>7. (HandsFree(w) => HandsFree(v)) /\ (Loose(w) /\ DragHolds(w) => Loose(v) /\ DragHolds(v))
  BY <1>2 DEF HandsFree, Loose, DragHolds, HasJob
<1> QED
  BY <1>2, <1>3, <1>4, <1>5, <1>6, <1>7 DEF v, Base

\* Nothing being dragged holds the session's selection.
AtLarge(w) == w.editor.closed \/ (HandsFree(w) /\ Loose(w) /\ DragHolds(w))

\* Where no hand drags, nothing holds the selection.
LEMMA AtLargeFacts ==
    ASSUME NEW w, Core(w), w.editor.closed \/ ~w.editor.dragging \/ Loose(w)
    PROVE  AtLarge(w)
BY DEF Core, Drag, DragHolds, AtLarge, Loose

\* Boards selected in the session and in FreeCAD at once are held, unless the
\* editor is still to follow.
LEMMA SelectBothFacts ==
    ASSUME NEW w, Base(w), AtLarge(w), ~w.editor.closed, NEW s \in Seq(Ids \cup BoardNames),
           NEW names \in Seq(BoardIds(w.session.unit)), IsInjective(names),
           \/ s = names
           \/ ToSet(s) \subseteq Ids
    PROVE  LET x == SelectInFreeCAD(Selecting(w, s), names)
               v == Refresh(x)
           IN  /\ Good(v) /\ v.session = Selecting(w, s).session
               /\ v.document = w.document /\ v.view = w.view
               /\ \A j \in ToSet(v.jobs) : j \in ToSet(w.jobs) \/ j.kind = "follow"
               /\ v.editor.closed \/ v.editor.dragging = w.editor.dragging
<1> DEFINE y == Selecting(w, s)
           x == SelectInFreeCAD(y, names)
           v == Refresh(x)
           T == BoardIds(w.session.unit)
<1>1. ToSet(names) \subseteq T
  <2> HIDE DEF T
  <2>1. names \in Seq(T)
    BY DEF T
  <2> QED
    BY <2>1, ToSetIsFinite
<1>2. ToSet(s) \subseteq T \/ ToSet(s) \subseteq Ids
  BY <1>1
<1>3. /\ Base(y)
      /\ y.session.unit = w.session.unit /\ y.session.selection = s
      /\ y.session.drag = w.session.drag
      /\ y.document = w.document /\ y.picked = w.picked /\ y.jobs = w.jobs
      /\ y.editor = w.editor /\ y.view = w.view
      /\ HandsFree(w) => HandsFree(y)
      /\ Loose(w) /\ DragHolds(w) => Loose(y) /\ DragHolds(y)
  BY <1>2, SelectingFacts
<1> HIDE DEF y
<1>4. /\ Base(x) /\ FollowQueued(y, x)
      /\ x.session = y.session /\ x.document = y.document
      /\ y.editor.closed \/ HasJob(x, "follow") \/ (x = y /\ x.picked = Wanted(names))
      /\ HandsFree(y) => HandsFree(x)
      /\ Loose(y) /\ DragHolds(y) => DragHolds(x)
  <2>1. names \in Seq(BoardIds(y.session.unit))
    BY <1>3
  <2> QED
    BY <1>3, <2>1, SelectInFreeCADKeeps
<1> HIDE DEF x
<1>5. Held(x)
  <2>1. CASE ToSet(s) \subseteq Ids
    <3>1. SelectedBoards(x) = << >>
      BY <2>1, <1>3, <1>4, SelectedBoardsFacts DEF Base
    <3> QED
      BY <3>1 DEF Held
  <2>2. CASE s = names
    <3>1. SelectedBoards(x) = names
      BY <2>2, <1>1, <1>3, <1>4, SelectedBoardsFacts DEF Base
    <3> QED
      BY <3>1, <1>3, <1>4 DEF Held, FollowsOn, Wanted
  <2> QED
    BY <2>1, <2>2
<1>6. Drag(x)
  BY <1>3, <1>4 DEF Drag, AtLarge
<1>7. /\ Base(v) /\ Shown(v) /\ Current(v)
      /\ v.session = x.session /\ v.document = x.document /\ v.view = x.view /\ v.jobs = x.jobs
      /\ v.editor.closed \/ v.editor.dragging = x.editor.dragging
      /\ Held(v) /\ Drag(v)
  <2>1. v = Rebuild(x)
    BY DEF Refresh
  <2> HIDE DEF v
  <2> QED
    BY <2>1, <1>4, <1>5, <1>6, RebuildFacts
<1> HIDE DEF v
<1>8. \A j \in ToSet(v.jobs) : j \in ToSet(w.jobs) \/ j.kind = "follow"
  BY <1>3, <1>4, <1>7 DEF FollowQueued, Job
<1> QED
  BY <1>3, <1>4, <1>7, <1>8 DEF Good, Core, v, x, y, FollowQueued, SameEditor

\* select() and select_boards() leave both selections with the same boards.
LEMMA SelectFacts ==
    ASSUME NEW w, Base(w), AtLarge(w),
           w.editor.closed \/ w.editor.boards = BoardIds(w.session.unit),
           NEW id, id = Nothing \/ id \in Ids \/ id \in BoardIds(w.session.unit)
    PROVE  LET v == Select(w, id)
           IN  /\ Good(v) /\ v.session.unit = w.session.unit
               /\ v.session.edits = w.session.edits
               /\ v.document = w.document /\ v.view = w.view
               /\ w.editor.closed => v = w
               /\ v.editor.closed \/ v.editor.dragging = w.editor.dragging
<1> DEFINE v == Select(w, id)
<1>1. CASE w.editor.closed
  <2>1. v = w
    BY <1>1 DEF Select
  <2>2. Good(w)
    BY <1>1 DEF Good, Core, Held, Drag, Shown, Current
  <2> QED
    BY <2>1, <2>2
<1>2. CASE ~w.editor.closed
  <2> DEFINE T == BoardIds(w.session.unit)
             s == IF id = Nothing THEN << >> ELSE <<id>>
             names == IF id \in T THEN <<id>> ELSE << >>
  <2>1. v = Refresh(SelectInFreeCAD(Selecting(w, s), names))
    BY <1>2 DEF Select, Selecting
  <2>2. T \subseteq BoardNames
    BY SelectedBoardsFacts DEF Base
  <2>3. Nothing \notin T /\ T \cap Ids = {}
    BY <2>2, NamesAreNoIds
  <2> HIDE DEF T, v
  <2>4. /\ s \in Seq(Ids \cup BoardNames) /\ names \in Seq(T) /\ IsInjective(names)
        /\ s = names \/ ToSet(s) \subseteq Ids
    <3>1. CASE id \in T
      <4>1. s = <<id>> /\ names = <<id>>
        BY <3>1, <2>3
      <4> HIDE DEF s, names
      <4> QED
        BY <4>1, <3>1, <2>2 DEF IsInjective
    <3>2. CASE id = Nothing
      <4>1. s = << >> /\ names = << >>
        BY <3>2, <2>3
      <4> HIDE DEF s, names
      <4> QED
        BY <4>1 DEF IsInjective
    <3>3. CASE id \in Ids
      <4>1. s = <<id>> /\ names = << >>
        BY <3>3, <2>3, NamesAreNoIds
      <4> HIDE DEF s, names
      <4> QED
        BY <4>1, <3>3 DEF IsInjective, ToSet
    <3> QED
      BY <3>1, <3>2, <3>3 DEF T
  <2> HIDE DEF s, names
  <2>5. /\ Good(v) /\ v.session = Selecting(w, s).session
        /\ v.document = w.document /\ v.view = w.view
        /\ v.editor.closed \/ v.editor.dragging = w.editor.dragging
    BY <2>1, <2>4, <1>2, SelectBothFacts DEF T
  <2>6. v.session.unit = w.session.unit /\ v.session.edits = w.session.edits
    BY <2>5 DEF Selecting, Base, Shaped
  <2> QED
    BY <2>5, <2>6, <1>2 DEF v
<1> QED
  BY <1>1, <1>2

\* selected_id() is the one thing selected, an opening or a board of the unit.
LEMMA SelectedIdFacts ==
    ASSUME NEW w, Base(w)
    PROVE  \/ SelectedId(w) = Nothing
           \/ /\ w.session.selection = <<SelectedId(w)>>
              /\ SelectedId(w) \in Ids \/ SelectedId(w) \in BoardIds(w.session.unit)
<1> DEFINE s == w.session.selection
           id == SelectedId(w)
<1>1. /\ s \in Seq(Ids \cup BoardNames)
      /\ ToSet(s) \subseteq BoardIds(w.session.unit) \/ ToSet(s) \subseteq Ids
  BY UnitFacts
<1>2. CASE Len(s) # 1
  BY <1>2 DEF SelectedId
<1>3. CASE Len(s) = 1
  <2>1. id = s[1]
    BY <1>3 DEF SelectedId
  <2> HIDE DEF s, id
  <2>2. s = <<s[1]>>
    BY <1>1, <1>3
  <2>3. s[1] \in ToSet(s)
    BY <1>1, <1>3 DEF ToSet
  <2> QED
    BY <2>1, <2>2, <2>3, <1>1 DEF s, id
<1> QED
  BY <1>2, <1>3

\* What both selections have become is what Take asks for.
LEMMA TakeFacts ==
    ASSUME NEW w, Base(w), AtLarge(w), ~w.editor.closed, Shown(w), Current(w),
           NEW bs \in Seq(BoardIds(w.session.unit)), HasJob(w, "follow") \/ w.picked = Wanted(bs)
    PROVE  LET v == Take(w, bs)
           IN  /\ Good(v) /\ v.session.unit = w.session.unit
               /\ v.session.edits = w.session.edits /\ v.document = w.document
<1> DEFINE T == BoardIds(w.session.unit)
           v == Take(w, bs)
<1>1. w.editor.boards = T /\ T \subseteq BoardNames
  BY SelectedBoardsFacts DEF Shown, Base
<1>2. bs \in Seq(T) /\ ToSet(bs) \subseteq T /\ bs \in Seq(Ids \cup BoardNames)
  <2> HIDE DEF T
  <2>1. bs \in Seq(T)
    BY DEF T
  <2>2. ToSet(bs) \subseteq T
    BY <2>1, ToSetIsFinite
  <2>3. T \subseteq Ids \cup BoardNames
    BY <1>1
  <2>4. bs \in Seq(Ids \cup BoardNames)
    BY <2>1, <2>3, SeqMonotonic
  <2> QED
    BY <2>1, <2>2, <2>4
<1> HIDE DEF T, v
<1>7. PICK n \in Nat : n = Len(bs) /\ (n = 0 <=> bs = << >>)
  BY <1>2, EmptySeq
<1>3. CASE bs = << >> /\ SelectedBoards(w) # << >>
  <2>1. v = Select(w, Nothing)
    BY <1>3 DEF Take, v
  <2> QED
    BY <2>1, <1>1, SelectFacts DEF v, T
<1>4. CASE Len(bs) = 1 /\ bs[1] # SelectedId(w)
  <2>1. v = Select(w, bs[1])
    <3>1. bs # << >>
      BY <1>2, <1>4
    <3> QED
      BY <1>4, <3>1 DEF Take, v
  <2>2. bs[1] \in T
    <3>1. 1 \in 1 .. Len(bs)
      BY <1>4
    <3> QED
      BY <1>2, <3>1, ElementOfSeq
  <2> QED
    BY <2>1, <2>2, <1>1, SelectFacts DEF v, T
<1>5. CASE Len(bs) > 1 /\ bs # SelectedBoards(w)
  <2> DEFINE x == Selecting(w, bs)
  <2>1. v = Refresh(x)
    <3>1. bs # << >> /\ Len(bs) # 1
      <4>1. n > 1
        BY <1>5, <1>7
      <4>2. n # 0 /\ n # 1
        BY <4>1
      <4> QED
        BY <4>2, <1>7
    <3> QED
      BY <1>5, <3>1 DEF Take, Selecting, v
  <2>2. /\ Base(x)
        /\ x.session.unit = w.session.unit /\ x.session.selection = bs
        /\ x.session.edits = w.session.edits
        /\ x.document = w.document /\ x.picked = w.picked /\ x.jobs = w.jobs
        /\ x.editor = w.editor
        /\ HandsFree(w) => HandsFree(x)
        /\ Loose(w) /\ DragHolds(w) => Loose(x) /\ DragHolds(x)
    BY <1>2, SelectingFacts DEF T
  <2> HIDE DEF x
  <2>3. Held(x)
    <3>1. SelectedBoards(x) = bs
      BY <2>2, <1>2, SelectedBoardsFacts DEF Base, T
    <3> QED
      BY <2>2, <3>1 DEF Held, FollowsOn, HasJob, Wanted
  <2>4. Drag(x)
    BY <2>2 DEF Drag, AtLarge
  <2>5. Core(x)
    BY <2>2, <2>3, <2>4 DEF Core
  <2>6. Good(v) /\ v.session = x.session /\ v.document = x.document
    <3>1. v = Rebuild(x)
      BY <2>1 DEF Refresh
    <3> QED
      BY <2>1, <3>1, <2>2, <2>5, RefreshGood, RebuildFacts
  <2> QED
    BY <2>2, <2>6 DEF v
<1>6. CASE /\ ~(bs = << >> /\ SelectedBoards(w) # << >>)
           /\ ~(Len(bs) = 1 /\ bs[1] # SelectedId(w))
           /\ ~(Len(bs) > 1 /\ bs # SelectedBoards(w))
  <2>1. v = w
    BY <1>6 DEF Take, v
  <2>2. SelectedBoards(w) = bs
    <3>1. CASE bs = << >>
      BY <3>1, <1>6
    <3>2. CASE Len(bs) > 1
      BY <3>2, <1>6
    <3>3. CASE Len(bs) = 1
      <4>1. bs[1] \in T
        <5>1. 1 \in 1 .. Len(bs)
          BY <3>3
        <5> QED
          BY <1>2, <5>1, ElementOfSeq
      <4>2. SelectedId(w) = bs[1] /\ SelectedId(w) # Nothing
        BY <4>1, <1>1, <1>6, <3>3, NamesAreNoIds
      <4>3. w.session.selection = <<SelectedId(w)>>
        BY <4>2, SelectedIdFacts
      <4>4. bs = <<bs[1]>>
        BY <1>2, <3>3
      <4>5. w.session.selection = bs
        BY <4>2, <4>3, <4>4
      <4> QED
        BY <4>5, <1>2, SelectedBoardsFacts DEF Base, T
    <3>4. n = 0 \/ n = 1 \/ n > 1
      OBVIOUS
    <3> QED
      BY <3>1, <3>2, <3>3, <3>4, <1>7
  <2>3. Held(w)
    BY <2>2 DEF Held, FollowsOn, Wanted
  <2>4. Drag(w)
    BY DEF Drag, AtLarge
  <2> QED
    BY <2>1, <2>3, <2>4 DEF Good, Core, v
<1> QED
  BY <1>3, <1>4, <1>5, <1>6

\* _follow_freecad() gives the session what FreeCAD holds, and edits nothing.
LEMMA FollowNowFacts ==
    ASSUME NEW w, Base(w), AtLarge(w), Shown(w), Current(w)
    PROVE  LET v == FollowNow(w)
           IN  /\ Good(v) /\ v.session.unit = w.session.unit
               /\ v.session.edits = w.session.edits /\ v.document = w.document
<1> DEFINE T == BoardIds(w.session.unit)
           v == FollowNow(w)
<1>1. CASE w.editor.closed
  <2>1. v = w
    BY <1>1 DEF FollowNow
  <2> QED
    BY <2>1, <1>1 DEF Good, Core, Held, Drag
<1>2. CASE ~w.editor.closed /\ \E e \in ToSet(w.picked) : e.name \notin w.editor.boards
  <2>1. v = w
    BY <1>2 DEF FollowNow
  <2>2. PICK e \in ToSet(w.picked) : e.name \notin w.editor.boards
    BY <1>2
  <2>3. w.picked \in Seq(Entries) /\ e.name \in T \cup {Aside} /\ w.editor.boards = T
    BY <1>2 DEF Base, Picks, Entries, Shown
  <2>4. e \in Entries
    <3>1. ToSet(w.picked) \subseteq Entries
      BY <2>3, ToSetIsFinite
    <3> QED
      BY <3>1
  <2>5. e = Entry(Aside, TRUE) \/ e = Entry(Aside, FALSE)
    BY <2>2, <2>3, <2>4 DEF Entries, Entry
  <2>6. Held(w)
    BY <2>5 DEF Held, FollowsOn
  <2> QED
    BY <2>1, <2>6 DEF Good, Core, Drag, AtLarge
<1>3. CASE ~w.editor.closed /\ \A e \in ToSet(w.picked) : e.name \in w.editor.boards
  <2> DEFINE bs == Followed(w)
             x == IF Names(w, FALSE) = {} THEN w ELSE SelectInFreeCAD(w, bs)
  <2>1. v = Take(x, bs)
    BY <1>3 DEF FollowNow
  <2>2. w.editor.boards = T /\ T \subseteq BoardNames
    BY <1>3, SelectedBoardsFacts DEF Shown, Base
  <2>3. /\ bs \in Seq(BoardNames \cup {Aside}) /\ IsInjective(bs)
        /\ \A y \in ToSet(bs) : \E e \in ToSet(w.picked) : y = e.name
        /\ Names(w, FALSE) = {} =>
             w.picked = [k \in DOMAIN bs |-> Entry(bs[k], TRUE)]
    <3>1. /\ w.picked \in Seq([name : BoardNames \cup {Aside}, whole : BOOLEAN])
          /\ IsInjective(w.picked)
      BY DEF Base, Picks
    <3> QED
      BY <3>1, FollowedFacts
  <2> HIDE DEF bs, v, T
  <2>4. bs \in Seq(T)
    <3>1. ToSet(bs) \subseteq T
      BY <1>3, <2>2, <2>3
    <3>2. Len(bs) \in Nat /\ DOMAIN bs = 1 .. Len(bs) /\ bs = [k \in DOMAIN bs |-> bs[k]]
      BY <2>3
    <3>3. \A k \in 1 .. Len(bs) : bs[k] \in T
      BY <3>1, <3>2 DEF ToSet
    <3> QED
      BY <3>2, <3>3
  <2>5. /\ Base(x) /\ x.session = w.session /\ x.document = w.document
        /\ HasJob(x, "follow") \/ x.picked = Wanted(bs)
        /\ AtLarge(x) /\ ~x.editor.closed /\ Shown(x) /\ Current(x)
    <3>1. CASE Names(w, FALSE) = {}
      BY <3>1, <2>3, <1>3 DEF Wanted
    <3>2. CASE Names(w, FALSE) # {}
      <4>1. x = SelectInFreeCAD(w, bs)
        BY <3>2
      <4> HIDE DEF x
      <4>2. /\ Base(x) /\ FollowQueued(w, x)
            /\ x.session = w.session /\ x.document = w.document
            /\ w.editor.closed \/ HasJob(x, "follow") \/ (x = w /\ x.picked = Wanted(bs))
            /\ HandsFree(w) => HandsFree(x)
            /\ Loose(w) /\ DragHolds(w) => DragHolds(x)
            /\ Shown(w) => Shown(x)
            /\ Current(w) => Current(x)
        BY <4>1, <2>3, <2>4, SelectInFreeCADKeeps DEF T
      <4> QED
        BY <4>2, <1>3 DEF AtLarge, Loose, FollowQueued, SameEditor
    <3> QED
      BY <3>1, <3>2
  <2> HIDE DEF x
  <2>6. bs \in Seq(BoardIds(x.session.unit))
    BY <2>4, <2>5 DEF T
  <2>7. Good(v) /\ v.session.unit = x.session.unit
        /\ v.session.edits = x.session.edits /\ v.document = x.document
    BY <2>1, <2>5, <2>6, TakeFacts
  <2> QED
    BY <2>5, <2>7 DEF v
<1> QED
  BY <1>1, <1>2, <1>3

\* The flag down, and no callback gone: _click runs _follow_freecad by itself.
LEMMA FollowFacts ==
    ASSUME NEW w, Base(w), AtLarge(w), Shown(w), Current(w)
    PROVE  LET v == FollowFreeCAD(w)
           IN  /\ Good(v) /\ v.session.unit = w.session.unit
               /\ v.session.edits = w.session.edits /\ v.document = w.document
<1> DEFINE x == [w EXCEPT !.editor.followQueued = FALSE]
<1>1. /\ x.session = w.session /\ x.document = w.document /\ x.picked = w.picked
      /\ x.jobs = w.jobs /\ x.view = w.view /\ DOMAIN x = DOMAIN w
      /\ SameEditor(w, x) /\ x.editor.followQueued = FALSE
  BY DEF Base, Shaped, SameEditor
<1>2. FollowFreeCAD(w) = FollowNow(x)
  BY DEF FollowFreeCAD
<1> HIDE DEF x
<1>3. FollowQueued(w, x) /\ Picks(x)
  BY <1>1 DEF FollowQueued, Base, Shaped, Picks, InDocument
<1>4. /\ Base(x) /\ (Shown(w) => Shown(x)) /\ (Current(w) => Current(x))
      /\ (HandsFree(w) => HandsFree(x))
      /\ (Loose(w) /\ DragHolds(w) => Loose(x) /\ DragHolds(x))
  BY <1>1, <1>3, FollowQueuedKeeps
<1>5. AtLarge(x)
  BY <1>1, <1>4 DEF AtLarge, SameEditor
<1> QED
  BY <1>1, <1>2, <1>4, <1>5, FollowNowFacts

(***************************************************************************)
(* The editor's handlers.                                                  *)
(***************************************************************************)
\* A good editor stays good without its field.
LEMMA CloseFieldGood ==
    ASSUME NEW w, Good(w)
    PROVE  Fine(w, CloseField(w))
<1> DEFINE v == CloseField(w)
<1>1. Base(w) /\ Held(w) /\ Drag(w) /\ Shown(w) /\ Current(w)
  BY DEF Good, Core
<1>2. Base(v) /\ Held(v) /\ Drag(v) /\ Shown(v) /\ Current(v) /\ v.session = w.session
  BY <1>1, CloseFieldFacts
<1> HIDE DEF v
<1>3. NoStamp(w, v.session.unit)
  BY <1>2, QuietFacts
<1> QED
  BY <1>2, <1>3 DEF Fine, Good, Core, v

\* An opening of the unit has an id.
LEMMA PlaceIsId ==
    ASSUME NEW w, Base(w), NEW k \in Places(w.session.unit)
    PROVE  w.session.unit.ids[k] \in Ids
<1>1. w.session.unit.ids \in Seq(Ids)
  BY UnitFacts
<1> QED
  BY <1>1 DEF Places

\* _click() selects, and edits nothing.
LEMMA ClickFacts ==
    ASSUME NEW w, Good(w), w.editor.closed \/ ~w.editor.dragging, NEW at, NEW adding
    PROVE  Fine(w, Click(w, at, adding))
<1> DEFINE x == IF w.editor.closed THEN w ELSE CloseField(w)
           v == Click(w, at, adding)
<1>1. v = IF w.editor.closed \/ w.view.gone THEN x ELSE ClickNow(x, at, adding)
  BY DEF Click
<1>2. /\ Good(x) /\ x.session = w.session /\ x.document = w.document
      /\ x.editor.closed = w.editor.closed /\ x.view = w.view
      /\ x.editor.closed \/ ~x.editor.dragging
  <2>1. CASE w.editor.closed
    BY <2>1
  <2>2. CASE ~w.editor.closed
    BY <2>2, CloseFieldFacts, CloseFieldGood DEF Good, Core, Fine
  <2> QED
    BY <2>1, <2>2
<1> HIDE DEF x, v
<1>3. AtLarge(x) /\ Base(x) /\ Shown(x) /\ Current(x) /\ Core(x)
  BY <1>2, AtLargeFacts DEF Good, Core
<1>4. Good(v) /\ v.session.edits = x.session.edits
  <2>1. CASE x.editor.closed \/ x.view.gone
    <3>1. v = x
      BY <2>1, <1>1, <1>2
    <3> QED
      BY <3>1, <1>2
  <2>2. CASE ~(x.editor.closed \/ x.view.gone) /\ at \in x.editor.boards
    <3>1. v = FollowFreeCAD(x)
      BY <2>2, <1>1, <1>2 DEF ClickNow
    <3> QED
      BY <3>1, <1>3, FollowFacts
  <2>3. CASE /\ ~(x.editor.closed \/ x.view.gone) /\ at \notin x.editor.boards /\ adding
             /\ \E e \in ToSet(x.picked) : e.name \in x.editor.boards
    <3> DEFINE T == {e \in ToSet(x.picked) : e.name \in x.editor.boards}
               now == Within(x.picked, T)
    <3>1. v = Pick(x, now)
      BY <2>3, <1>1, <1>2 DEF ClickNow
    <3>2. x.picked \in Seq(Entries) /\ IsInjective(x.picked)
      BY <1>3 DEF Base, Picks, Entries
    <3>3. /\ now \in Seq(Entries) /\ ToSet(now) \subseteq ToSet(x.picked) /\ IsInjective(now)
      <4> HIDE DEF T
      <4> QED
        BY <3>2, WithinFacts
    <3> HIDE DEF now
    <3>4. /\ FollowQueued(x, v)
          /\ v.session = x.session /\ v.document = x.document /\ v.picked = now
          /\ v = x \/ x.editor.closed \/ HasJob(v, "follow")
      BY <3>1, <1>3, PickFacts DEF Base
    <3>5. Picks(v)
      BY <3>3, <3>4, <1>3 DEF Base, Picks, Entries, InDocument
    <3>6. /\ Base(v) /\ Shown(v) /\ Current(v)
          /\ (HandsFree(x) => HandsFree(v))
          /\ (Loose(x) /\ DragHolds(x) => Loose(v) /\ DragHolds(v))
      BY <3>4, <3>5, <1>3, FollowQueuedKeeps
    <3>7. Held(v)
      BY <3>4, <1>3 DEF Held, FollowsOn, Core, FollowQueued, SameEditor
    <3>8. Drag(v)
      BY <3>4, <3>6, <1>3 DEF Drag, AtLarge, FollowQueued, SameEditor
    <3> QED
      BY <3>4, <3>6, <3>7, <3>8 DEF Good, Core
  <2>4. CASE /\ ~(x.editor.closed \/ x.view.gone) /\ at \notin x.editor.boards
             /\ ~(adding /\ \E e \in ToSet(x.picked) : e.name \in x.editor.boards)
    <3> DEFINE id == RegionAt(x, at)
    <3>1. v = Select(x, id)
      BY <2>4, <1>1, <1>2 DEF ClickNow
    <3>2. id = Nothing \/ id \in Ids
      BY <1>3, PlaceIsId DEF RegionAt
    <3> HIDE DEF id
    <3> QED
      BY <3>1, <3>2, <2>4, <1>3, SelectFacts DEF Shown
  <2> QED
    BY <2>1, <2>2, <2>3, <2>4
<1>5. NoStamp(w, v.session.unit)
  BY <1>2, <1>4, QuietFacts DEF Good, Core
<1> QED
  BY <1>4, <1>5 DEF Fine, v

\* The field's own attributes count for nothing but that no hand is on the arrow.
FieldOnly(w, v) ==
    /\ DOMAIN v = DOMAIN w /\ DOMAIN v.editor = DOMAIN w.editor
    /\ v.session = w.session /\ v.document = w.document /\ v.picked = w.picked
    /\ v.jobs = w.jobs /\ v.view = w.view
    /\ v.editor.closed = w.editor.closed /\ v.editor.drawn = w.editor.drawn
    /\ v.editor.boards = w.editor.boards /\ v.editor.arrow = w.editor.arrow
    /\ v.editor.held = w.editor.held /\ v.editor.bar = w.editor.bar
    /\ v.editor.dragging = w.editor.dragging
    /\ v.editor.followQueued = w.editor.followQueued
    /\ v.editor.refreshQueued = w.editor.refreshQueued
    /\ v.editor.sideQueued = w.editor.sideQueued

\* Another field keeps what is known, if it stands in an open editor and takes the
\* focus from no drag.
LEMMA FieldOnlyFacts ==
    ASSUME NEW w, NEW v, Base(w), FieldOnly(w, v),
           v.editor.field # Nothing => v.editor.field \in Fields /\ ~v.editor.closed,
           v.editor.focus => v.editor.field # Nothing,
           v.editor.focus => w.editor.closed \/ ~w.editor.dragging \/ w.editor.focus
    PROVE  /\ Base(v)
           /\ Held(w) => Held(v)
           /\ Drag(w) => Drag(v)
           /\ Shown(w) => Shown(v)
           /\ Current(w) => Current(v)
<1>1. Shaped(w) /\ Flagged(w) /\ Rows(w) /\ Selection(w) /\ Waiting(w) /\ Attributes(w) /\ Picks(w)
  BY DEF Base
<1>2. Shaped(v) /\ Flagged(v)
  BY <1>1 DEF Shaped, Flagged, HasJob, FieldOnly
<1>3. Rows(v) /\ Selection(v) /\ Waiting(v)
  BY <1>1 DEF Rows, Selection, Waiting, FieldOnly
<1>4. Attributes(v)
  BY <1>1 DEF Attributes, FieldOnly
<1>5. Picks(v)
  BY <1>1 DEF Picks, InDocument, FieldOnly
<1>6. ArrowFor(v) = ArrowFor(w) /\ HeldFor(v) = HeldFor(w) /\ BarFor(v) = BarFor(w)
      /\ SelectedBoards(v) = SelectedBoards(w)
  BY DrawnForSession DEF FieldOnly
<1>7. (Held(w) => Held(v)) /\ (Drag(w) => Drag(v))
  BY <1>6 DEF Held, FollowsOn, HasJob, Drag, HandsFree, DragHolds, Loose, FieldOnly
<1>8. (Shown(w) => Shown(v)) /\ (Current(w) => Current(v))
  BY <1>6 DEF Shown, Current, FieldOnly
<1> QED
  BY <1>2, <1>3, <1>4, <1>5, <1>7, <1>8 DEF Base

\* No field is None.
LEMMA FieldIsSomething == Nothing \notin Fields
<1>1. Fields \subseteq [region : Nat, text : {"shown", "typed", "unreadable"}, applied : BOOLEAN]
  BY DEF Fields, Ids
<1> QED
  BY <1>1, NamesAssumption

\* open_field() puts one field in place of another and edits nothing.
LEMMA WithFieldFacts ==
    ASSUME NEW w, Good(w), w.editor.closed \/ ~w.editor.dragging, NEW id
    PROVE  Good(WithField(w, id)) /\ WithField(w, id).session = w.session
<1> DEFINE v == WithField(w, id)
<1>1. CASE w.editor.closed \/ id \notin ToSet(w.session.unit.ids)
  BY <1>1 DEF WithField
<1>2. CASE ~(w.editor.closed \/ id \notin ToSet(w.session.unit.ids))
  <2>1. v = [w EXCEPT !.editor.focus = TRUE,
                !.editor.field = [region |-> id, text |-> "shown", applied |-> FALSE]]
    BY <1>2 DEF WithField
  <2>2. FieldOnly(w, v) /\ v.editor.field = [region |-> id, text |-> "shown", applied |-> FALSE]
    <3>1. Shaped(w)
      BY DEF Good, Core, Base
    <3>2. PICK f : f = [region |-> id, text |-> "shown", applied |-> FALSE]
      OBVIOUS
    <3>3. v = [w EXCEPT !.editor.focus = TRUE, !.editor.field = f]
      BY <2>1, <3>2
    <3> HIDE DEF v
    <3>4. FieldOnly(w, v) /\ v.editor.field = f
      BY <3>1, <3>3 DEF FieldOnly, Shaped
    <3> QED
      BY <3>2, <3>4
  <2> HIDE DEF v
  <2>3. id \in Ids
    <3>1. w.session.unit.ids \in Seq(Ids)
      BY UnitFacts DEF Good, Core
    <3> QED
      BY <3>1, <1>2, ToSetIsFinite
  <2>4. v.editor.field \in Fields /\ ~v.editor.closed
    BY <2>2, <2>3, <1>2 DEF FieldOnly, Fields
  <2>5. v.editor.field # Nothing
    BY <2>4, FieldIsSomething
  <2>6. Good(v)
    BY <2>2, <2>4, <2>5, FieldOnlyFacts DEF Good, Core
  <2> QED
    BY <2>2, <2>6 DEF v, FieldOnly
<1> QED
  BY <1>1, <1>2

\* open_field() selects the opening it opens on.
LEMMA OpenFieldFacts ==
    ASSUME NEW w, Good(w), w.editor.closed \/ ~w.editor.dragging, NEW id \in Ids
    PROVE  Fine(w, OpenField(w, id))
<1> DEFINE v == OpenField(w, id)
           x == CloseField(w)
           y == Select(x, id)
<1>1. CASE w.editor.closed
  <2>1. v = w
    BY <1>1 DEF OpenField
  <2> QED
    BY <2>1, QuietFacts DEF Fine, Good, Core
<1>2. CASE ~w.editor.closed
  <2>1. v = WithField(y, id)
    BY <1>2 DEF OpenField
  <2>2. /\ Good(x) /\ x.session = w.session
        /\ x.editor.closed \/ ~x.editor.dragging
    BY <1>2, CloseFieldFacts, CloseFieldGood DEF Good, Core, Fine
  <2> HIDE DEF x
  <2>3. AtLarge(x) /\ Base(x) /\ Shown(x)
    BY <2>2, AtLargeFacts DEF Good, Core
  <2>4. Good(y) /\ y.session.edits = x.session.edits
        /\ (y.editor.closed \/ ~y.editor.dragging)
    BY <2>2, <2>3, SelectFacts DEF Shown
  <2> HIDE DEF y
  <2>5. Good(v) /\ v.session = y.session
    BY <2>1, <2>4, WithFieldFacts
  <2> HIDE DEF v
  <2>6. NoStamp(w, v.session.unit)
    BY <2>2, <2>4, <2>5, QuietFacts DEF Good, Core
  <2> QED
    BY <2>5, <2>6 DEF Fine, v
<1> QED
  BY <1>1, <1>2

\* A locked opening has a size of this very step.
NewlySized(w, v, k) ==
    /\ v.session.unit.boards = w.document.row.boards
    /\ v.session.unit.locked[k] /\ v.session.unit.mm[k] > w.session.edits
\* It is where region was, by the boards beside it.
AtRegion(w, v, region, k) ==
    /\ region \in ToSet(w.session.unit.ids)
    /\ Key(w.session.unit, PlaceOf(w.session.unit, region)) = Key(v.session.unit, k)

\* A step that stamps no locked opening sizes none.
LEMMA StampOnly ==
    ASSUME NEW w, NEW v, NoStamp(w, v.session.unit)
    PROVE  \A k \in Places(v.session.unit) : ~NewlySized(w, v, k)
BY DEF NoStamp, NewlySized

\* _field_size() before its redraw.
Sized(w) ==
    SetSize([w EXCEPT !.editor.field.applied = TRUE,
                      !.session.selection = <<w.editor.field.region>>]).world

\* _field_size() sizes the opening the field was opened on, or that Undo made of
\* it, or is refused.
LEMMA SizedFacts ==
    ASSUME NEW w, Core(w), w.editor.field # Nothing, w.editor.closed \/ ~w.editor.dragging
    PROVE  LET v == Sized(w)
           IN  /\ Core(v) /\ (v.editor.closed \/ ~v.editor.dragging)
               /\ \A k \in Places(v.session.unit) :
                     NewlySized(w, v, k) => AtRegion(w, v, w.editor.field.region, k)
<1> DEFINE region == w.editor.field.region
           f == [w EXCEPT !.editor.field.applied = TRUE]
           x == Selecting(f, <<region>>)
           y == Settle(x)
           v == Sized(w)
           id == SelectedId(y)
           u == y.session.unit
<1>1. Base(w) /\ Held(w) /\ Drag(w) /\ Shaped(w) /\ Attributes(w)
  BY DEF Core, Base
<1>2. ~w.editor.closed /\ ~w.editor.dragging /\ region \in Ids /\ w.editor.field \in Fields
  BY <1>1 DEF Attributes, Fields
<1>3. v = SetSizeNow(y).world
  BY <1>1, <1>2 DEF Sized, SetSize, Selecting, Shaped
<1>4. /\ FieldOnly(w, f) /\ f.editor.field = [w.editor.field EXCEPT !.applied = TRUE]
      /\ f.editor.focus = w.editor.focus
  BY <1>1, <1>2 DEF FieldOnly, Shaped
<1> HIDE DEF f
<1>5. Base(f)
  <2>1. f.editor.field \in Fields
    BY <1>2, <1>4 DEF Fields
  <2>2. f.editor.field # Nothing
    BY <2>1, FieldIsSomething
  <2> QED
    BY <1>1, <1>2, <1>4, <2>1, <2>2, FieldOnlyFacts DEF FieldOnly
<1>6. <<region>> \in Seq(Ids \cup BoardNames) /\ ToSet(<<region>>) = {region}
  <2> HIDE DEF region
  <2> QED
    BY <1>2 DEF ToSet
<1>7. /\ Base(x)
      /\ x.session.unit = w.session.unit /\ x.session.selection = <<region>>
      /\ x.session.edits = w.session.edits /\ x.session.drag = w.session.drag
      /\ x.document = w.document /\ x.editor = f.editor
  <2>1. /\ Base(x)
        /\ x.session.unit = f.session.unit /\ x.session.selection = <<region>>
        /\ x.session.edits = f.session.edits /\ x.session.drag = f.session.drag
        /\ x.document = f.document /\ x.editor = f.editor
    <3>1. ToSet(<<region>>) \subseteq Ids
      BY <1>2, <1>6
    <3> HIDE DEF region
    <3> QED
      BY <1>5, <1>6, <3>1, SelectingFacts
  <2> QED
    BY <2>1, <1>4 DEF FieldOnly
<1> HIDE DEF x, region
<1>8. w.session.drag = Nothing
  BY <1>1, <1>2 DEF Drag, DragHolds
<1>9. Held(x) /\ Drag(x)
  <2>1. SelectedBoards(x) = << >>
    BY <1>2, <1>6, <1>7, SelectedBoardsFacts DEF Base
  <2>2. ~x.editor.dragging
    BY <1>2, <1>4, <1>7 DEF FieldOnly
  <2> QED
    BY <2>1, <2>2, <1>7, <1>8 DEF Held, Drag, HandsFree, DragHolds
<1>10. /\ Base(y) /\ ~y.document.pending /\ Held(y) /\ Drag(y)
       /\ y.document.row = w.document.row
       /\ y.session.edits = w.session.edits /\ y.session.drag = Nothing
       /\ y.editor.closed \/ ~y.editor.dragging
       /\ ~w.document.pending => y = x
       /\ w.document.pending =>
             y.session.selection = ReadSelection(w.session.unit, u, <<region>>)
  <2> HIDE DEF y
  <2>1. y = Settle(x)
    BY DEF y
  <2>2. ~x.editor.dragging
    BY <1>2, <1>4, <1>7 DEF FieldOnly
  <2> QED
    BY <1>7, <1>8, <1>9, <2>1, <2>2, SettleFacts
<1> HIDE DEF y
<1>11. \/ v = y
       \/ /\ EditedTo(y, v, <<id>>) /\ id \in ToSet(u.ids) /\ id \in Ids
          /\ v.session.unit.boards = u.boards /\ v.session.unit.ids = u.ids
          /\ \A k \in Places(v.session.unit) :
                k # PlaceOf(u, id) => ~(v.session.unit.mm[k] > y.session.edits)
  BY <1>3, <1>10, SetSizeFacts
<1> HIDE DEF v
<1>12. CASE v = y
  <2>1. NoStamp(w, v.session.unit)
    BY <1>10, <1>12, QuietFacts
  <2> QED
    BY <2>1, <1>10, <1>12, StampOnly DEF Core, v
<1>13. CASE /\ EditedTo(y, v, <<id>>) /\ id \in ToSet(u.ids) /\ id \in Ids
            /\ v.session.unit.boards = u.boards /\ v.session.unit.ids = u.ids
            /\ \A k \in Places(v.session.unit) :
                  k # PlaceOf(u, id) => ~(v.session.unit.mm[k] > y.session.edits)
  <2>1. Core(v)
    <3>1. Core(y)
      BY <1>10 DEF Core
    <3>2. ToSet(<<id>>) \subseteq Ids
      <4> HIDE DEF id
      <4> QED
        BY <1>13 DEF ToSet
    <3> HIDE DEF id
    <3> QED
      BY <1>10, <1>13, <3>1, <3>2, EditedCore
  <2>2. v.editor.closed \/ ~v.editor.dragging
    BY <1>10, <1>13 DEF EditedTo, Edited, FollowQueued, SameEditor
  <2>3. AtRegion(w, y, region, PlaceOf(u, id))
    <3>1. y.session.selection = <<id>>
      <4>1. id # Nothing
        BY <1>13, NamesAreNoIds
      <4> QED
        BY <4>1, <1>10, SelectedIdFacts
    <3>2. CASE ~w.document.pending
      <4>1. y.session.unit = w.session.unit /\ <<id>> = <<region>>
        BY <3>1, <3>2, <1>7, <1>10
      <4>2. id = region
        BY <4>1
      <4> QED
        BY <4>1, <4>2, <1>13 DEF AtRegion
    <3>3. CASE w.document.pending
      <4> DEFINE t == ReadSelection(w.session.unit, u, <<region>>)
      <4>1. /\ UnitOK(w.session.unit, w.session.edits) /\ UnitOK(u, y.session.edits)
        BY <1>1, <1>10, UnitFacts
      <4>2. ToSet(<<region>>) \subseteq Ids
        BY <1>2, <1>6
      <4>3. \A k \in DOMAIN t : \E i \in ToSet(<<region>>) :
                /\ i \in ToSet(w.session.unit.ids)
                /\ Key(w.session.unit, PlaceOf(w.session.unit, i)) = Key(u, PlaceOf(u, t[k]))
        <5> HIDE DEF u
        <5> QED
          BY <4>1, <4>2, <1>6, ReadSelectionFacts
      <4> HIDE DEF t
      <4>4. t = <<id>>
        BY <3>1, <3>3, <1>10 DEF t
      <4>5. 1 \in DOMAIN t /\ t[1] = id
        <5> HIDE DEF id
        <5> QED
          BY <4>4
      <4>6. PICK i \in ToSet(<<region>>) :
                /\ i \in ToSet(w.session.unit.ids)
                /\ Key(w.session.unit, PlaceOf(w.session.unit, i)) = Key(u, PlaceOf(u, id))
        BY <4>3, <4>5
      <4>7. i = region
        BY <1>6, <4>6
      <4> QED
        BY <4>6, <4>7 DEF AtRegion
    <3> QED
      BY <3>2, <3>3
  <2>4. \A k : Key(v.session.unit, k) = Key(u, k)
    BY <1>13 DEF Key
  <2>5. ASSUME NEW k \in Places(v.session.unit), NewlySized(w, v, k)
        PROVE  AtRegion(w, v, region, k)
    <3>1. k = PlaceOf(u, id)
      BY <2>5, <1>10, <1>13 DEF NewlySized
    <3> HIDE DEF id
    <3> QED
      BY <3>1, <2>3, <2>4 DEF AtRegion
  <2> QED
    BY <2>1, <2>2, <2>5 DEF v, region
<1> QED
  BY <1>11, <1>12, <1>13

\* A size lands where its field was opened, from a value typed and not yet taken.
Lands(w, v) ==
    \A k \in Places(v.session.unit) : NewlySized(w, v, k) =>
        /\ w.editor.field # Nothing
        /\ w.editor.field.text = "typed" /\ ~w.editor.field.applied
        /\ AtRegion(w, v, w.editor.field.region, k)

\* _field_size() applies a value once, where it was typed, and draws the unit.
LEMMA FieldSizeFacts ==
    ASSUME NEW w, Core(w), w.editor.closed \/ ~w.editor.dragging, NoStamp(w, w.session.unit),
           Good(w) \/ (w.editor.field # Nothing /\ ~w.editor.field.applied)
    PROVE  LET v == FieldSize(w)
           IN  /\ Good(v)
               /\ \A k \in Places(v.session.unit) : NewlySized(w, v, k) =>
                     /\ w.editor.field # Nothing /\ ~w.editor.field.applied
                     /\ AtRegion(w, v, w.editor.field.region, k)
<1> DEFINE v == FieldSize(w)
<1>1. CASE w.editor.field = Nothing \/ w.editor.field.applied
  <2>1. v = w
    BY <1>1 DEF FieldSize
  <2> QED
    BY <2>1, <1>1, StampOnly
<1>2. CASE ~(w.editor.field = Nothing \/ w.editor.field.applied)
  <2> DEFINE x == Sized(w)
             y == Queue(x, Job("closeField"))
  <2>1. v = Refresh(y)
    BY <1>2 DEF FieldSize, Sized
  <2>2. /\ Core(x) /\ (x.editor.closed \/ ~x.editor.dragging)
        /\ \A k \in Places(x.session.unit) :
              NewlySized(w, x, k) => AtRegion(w, x, w.editor.field.region, k)
    BY <1>2, SizedFacts
  <2> HIDE DEF x
  <2>3. Core(y) /\ y.session = x.session
    <3>1. Job("closeField").kind = "closeField" /\ "closeField" \in Kinds
      BY DEF Job, Kinds
    <3>2. PICK job : job = Job("closeField")
      OBVIOUS
    <3>3. /\ Base(y) /\ y.session = x.session /\ y.editor = x.editor
          /\ (Held(x) => Held(y))
          /\ (HandsFree(x) /\ (x.editor.dragging => job.kind \notin {"open", "click"})
                => HandsFree(y))
          /\ (DragHolds(x) /\ job.kind # "follow" => DragHolds(y))
      BY <2>2, <3>1, <3>2, QueueFacts DEF Core
    <3> HIDE DEF y
    <3> QED
      BY <2>2, <3>1, <3>2, <3>3 DEF Core, Drag
  <2> HIDE DEF y
  <2>4. Good(v) /\ v.session = y.session
    BY <2>1, <2>3, RefreshGood
  <2> HIDE DEF v
  <2>5. v.session.unit = x.session.unit
    BY <2>3, <2>4
  <2>6. \A k \in Places(v.session.unit) :
            NewlySized(w, v, k) => AtRegion(w, v, w.editor.field.region, k)
    BY <2>2, <2>5 DEF NewlySized, AtRegion
  <2> QED
    BY <2>4, <2>6, <1>2 DEF v
<1> QED
  BY <1>1, <1>2

\* Return gives the field's value, if it is one.
LEMMA FinishFacts ==
    ASSUME NEW w, Good(w), w.editor.closed \/ ~w.editor.dragging
    PROVE  Good(Finish(w)) /\ Lands(w, Finish(w))
<1>1. NoStamp(w, w.session.unit) /\ Core(w)
  BY QuietFacts DEF Good, Core
<1>2. CASE w.editor.field # Nothing /\ w.editor.field.text = "typed"
  <2>1. Finish(w) = FieldSize(w)
    BY <1>2 DEF Finish
  <2> QED
    BY <2>1, <1>1, <1>2, FieldSizeFacts DEF Lands
<1>3. CASE ~(w.editor.field # Nothing /\ w.editor.field.text = "typed")
  <2>1. Finish(w) = w
    BY <1>3 DEF Finish
  <2> QED
    BY <2>1, <1>1, StampOnly DEF Lands
<1> QED
  BY <1>2, <1>3

\* Leaving the field gives its value, unless that cannot be read and is put back.
LEMMA LeaveFieldFacts ==
    ASSUME NEW w, Good(w)
    PROVE  Good(LeaveField(w)) /\ Lands(w, LeaveField(w))
<1> DEFINE v == LeaveField(w)
<1>0. Base(w) /\ Shaped(w) /\ Attributes(w) /\ Drag(w) /\ Core(w) /\ NoStamp(w, w.session.unit)
  BY QuietFacts DEF Good, Core, Base
<1>1. CASE ~w.editor.focus
  <2>1. v = w
    BY <1>1 DEF LeaveField
  <2> QED
    BY <2>1, <1>0, StampOnly DEF Lands
<1>2. CASE w.editor.focus /\ w.editor.field.text = "unreadable"
  <2>1. v = [w EXCEPT !.editor.focus = FALSE, !.editor.field.text = "shown"]
    BY <1>2 DEF LeaveField
  <2>2. FieldOnly(w, v) /\ ~v.editor.focus
        /\ v.editor.field = [w.editor.field EXCEPT !.text = "shown"]
    <3> DEFINE y == [w EXCEPT !.editor.focus = FALSE]
               z == [y EXCEPT !.editor.field.text = "shown"]
    <3>1. v = z
      BY <2>1
    <3>2. FieldOnly(w, y) /\ ~y.editor.focus /\ y.editor.field = w.editor.field
      BY <1>0 DEF FieldOnly, Shaped
    <3> HIDE DEF y
    <3>3. FieldOnly(y, z) /\ z.editor.focus = y.editor.focus
          /\ z.editor.field = [y.editor.field EXCEPT !.text = "shown"]
      BY <3>2, <1>0 DEF FieldOnly, Shaped
    <3> HIDE DEF z, v
    <3> QED
      BY <3>1, <3>2, <3>3 DEF FieldOnly
  <2> HIDE DEF v
  <2>6. v.editor.field \in Fields
    BY <1>0, <1>2, <2>2 DEF Attributes, Fields
  <2>7. ~w.editor.closed
    BY <1>0, <1>2 DEF Attributes
  <2>3. Good(v)
    BY <1>0, <2>2, <2>6, <2>7, FieldOnlyFacts DEF Good, Core, FieldOnly
  <2>4. v.session.unit = w.session.unit
    BY <2>2 DEF FieldOnly
  <2>5. Lands(w, v)
    BY <1>0, <2>4, StampOnly DEF Lands
  <2> QED
    BY <2>3, <2>5 DEF v
<1>3. CASE w.editor.focus /\ w.editor.field.text # "unreadable"
  <2> DEFINE x == [w EXCEPT !.editor.focus = FALSE]
  <2>1. v = Finish(x)
    BY <1>3 DEF LeaveField
  <2>2. FieldOnly(w, x) /\ ~x.editor.focus /\ x.editor.field = w.editor.field
    BY <1>0 DEF FieldOnly, Shaped
  <2> HIDE DEF v, x
  <2>3. Good(x)
    BY <1>0, <2>2, FieldOnlyFacts DEF Good, Core, Attributes, FieldOnly
  <2>4. x.editor.closed \/ ~x.editor.dragging
    BY <1>0, <1>3, <2>2 DEF Drag, HandsFree, FieldOnly
  <2>5. Good(v) /\ Lands(x, v)
    BY <2>1, <2>3, <2>4, FinishFacts
  <2>6. Lands(w, v)
    BY <2>2, <2>5 DEF Lands, NewlySized, AtRegion, FieldOnly
  <2> QED
    BY <2>5, <2>6 DEF v
<1> QED
  BY <1>1, <1>2, <1>3

\* An edit made where nothing is dragged, and drawn.
LEMMA RefreshedEdit ==
    ASSUME NEW w, NEW v, NEW s, Core(w), EditedTo(w, v, s), NoStamp(w, v.session.unit),
           \/ ToSet(s) \subseteq Ids
           \/ s = w.session.selection /\ v.session.unit.boards = w.session.unit.boards,
           w.session.drag = Nothing \/ w.editor.closed \/ Loose(v)
    PROVE  Fine(w, Refresh(v)) /\ Refresh(v).session = v.session
<1>1. Core(v)
  BY EditedCore
<1>2. Good(Refresh(v)) /\ Refresh(v).session = v.session
  BY <1>1, RefreshGood
<1> QED
  BY <1>2 DEF Fine

\* What an edit's handler starts from: the field closed, the Undo read back.
LEMMA SettledFacts ==
    ASSUME NEW w, Good(w), w.editor.closed \/ ~w.editor.dragging
    PROVE  LET x == CloseField(w)
               y == Settle(x)
           IN  /\ Core(y) /\ ~y.document.pending /\ y.document.row = w.document.row
               /\ y.document.row = Bare(y.session.unit)
               /\ y.session.edits = w.session.edits
               /\ y.editor.closed \/ ~y.editor.dragging
               /\ y.editor.closed \/ y.session.drag = Nothing
               /\ ~w.document.pending => y.session.unit = w.session.unit
               /\ w.document.pending =>
                     ToSet(y.session.unit.ids) \cap ToSet(w.editor.drawn.unit.ids) = {}
<1> DEFINE x == CloseField(w)
           y == Settle(x)
<1>1. /\ Base(x) /\ Held(x) /\ Drag(x)
      /\ x.session = w.session /\ x.document = w.document
      /\ x.editor.closed = w.editor.closed /\ x.editor.dragging = w.editor.dragging
      /\ x.editor.drawn = w.editor.drawn
  BY CloseFieldFacts DEF Good, Core
<1> HIDE DEF x
<1>2. /\ Base(y) /\ Held(y) /\ Drag(y) /\ ~y.document.pending
      /\ y.document.row = x.document.row /\ y.document.row = Bare(y.session.unit)
      /\ y.session.edits = x.session.edits
      /\ y.editor.closed \/ ~y.editor.dragging
      /\ ~x.document.pending => y = x
      /\ x.document.pending => ToSet(y.session.unit.ids) \cap Mentioned(x) = {}
  BY <1>1, SettleFacts
<1> HIDE DEF y
<1>3. Core(y)
  BY <1>2 DEF Core
<1>4. y.editor.closed \/ y.session.drag = Nothing
  BY <1>2, <1>3, Still
<1>5. ToSet(w.editor.drawn.unit.ids) \subseteq Mentioned(x)
  BY <1>1 DEF Mentioned
<1> QED
  BY <1>1, <1>2, <1>3, <1>4, <1>5 DEF x, y

\* A row's labels, one for each opening.
LEMMA LabelFacts ==
    ASSUME NEW w, Good(w), ~w.editor.closed, NEW k \in DOMAIN PadlockLabels(w)
    PROVE  LET u == w.session.unit
               label == PadlockLabels(w)[k]
           IN  /\ k \in Places(u) /\ ~(k > Len(PadlockLabels(w)))
               /\ label.id = u.ids[k] /\ label.key = Key(u, k) /\ label.locked = u.locked[k]
               /\ label.locked \in BOOLEAN /\ label.id \in ToSet(w.editor.drawn.unit.ids)
<1> DEFINE u == w.session.unit
           d == w.editor.drawn.unit
           n == Len(u.boards) + 1
<1>1. d.boards = u.boards /\ d.ids = u.ids /\ d.locked = u.locked
  BY DEF Good, Shown
<1>2. /\ u.ids \in Seq(Ids) /\ u.locked \in Seq(BOOLEAN) /\ Places(u) = 1 .. n
      /\ Len(u.boards) \in Nat /\ Len(u.locked) = n
  BY UnitFacts DEF Good, Core
<1>3. Places(d) = 1 .. n
  BY <1>1, <1>2 DEF Places
<1> HIDE DEF u, d, n
<1>4. PadlockLabels(w) = Labels(d)
  BY DEF PadlockLabels, d
<1>5. Labels(d) = [i \in 1 .. n |-> Label(d, i)]
  BY <1>3 DEF Labels
<1>6. k \in 1 .. n /\ Labels(d)[k] = Label(d, k)
  BY <1>4, <1>5
<1>7. n \in Nat
  BY <1>2 DEF n
<1>8. Len(Labels(d)) = n
  <2>1. PICK f : f = [i \in 1 .. n |-> Label(d, i)]
    OBVIOUS
  <2>2. Len(f) = n
    BY <1>7, <2>1
  <2> QED
    BY <1>5, <2>1, <2>2
<1>9. Key(d, k) = Key(u, k)
  BY <1>1 DEF Key
<1>10. u.locked[k] \in BOOLEAN
  BY <1>2, <1>6
<1>11. d.ids[k] \in ToSet(d.ids)
  BY <1>3, <1>6 DEF ToSet, Places
<1> QED
  BY <1>1, <1>2, <1>4, <1>6, <1>7, <1>8, <1>9, <1>10, <1>11 DEF Label, u, d, n

\* _toggle_lock() turns the lock its padlock shows or, refused or stale, none.
LEMMA ToggleLockFacts ==
    ASSUME NEW w, Good(w), ~w.editor.closed, ~w.editor.dragging,
           NEW k \in DOMAIN PadlockLabels(w)
    PROVE  LET v == ToggleLock(w, k)
               label == PadlockLabels(w)[k]
           IN  /\ Fine(w, v)
               /\ \A l \in Places(v.session.unit) :
                     v.session.unit.locked[l] # w.document.row.locked[l] =>
                        /\ Key(v.session.unit, l) = label.key
                        /\ v.session.unit.locked[l] # label.locked
<1> DEFINE label == PadlockLabels(w)[k]
           y == Settle(CloseField(w))
           z == SetLockNow(y, label.id, ~label.locked).world
           v == ToggleLock(w, k)
<1>1. /\ k \in Places(w.session.unit) /\ ~(k > Len(PadlockLabels(w)))
      /\ label.id = w.session.unit.ids[k] /\ label.key = Key(w.session.unit, k)
      /\ label.locked \in BOOLEAN /\ label.id \in ToSet(w.editor.drawn.unit.ids)
  BY LabelFacts
<1> HIDE DEF label
<1>2. v = Refresh(z)
  BY <1>1 DEF ToggleLock, SetLock, label
<1>3. /\ Core(y) /\ ~y.document.pending /\ y.document.row = w.document.row
      /\ y.document.row = Bare(y.session.unit)
      /\ y.session.edits = w.session.edits
      /\ y.editor.closed \/ y.session.drag = Nothing
      /\ ~w.document.pending => y.session.unit = w.session.unit
      /\ w.document.pending =>
            ToSet(y.session.unit.ids) \cap ToSet(w.editor.drawn.unit.ids) = {}
  BY SettledFacts
<1> HIDE DEF y
<1> DEFINE u == y.session.unit
           p == PlaceOf(u, label.id)
<1>4. z = y \/ Relocked(y, z, label.id, ~label.locked)
  <2>1. Base(y)
    BY <1>3 DEF Core
  <2>2. PICK locked : locked = ~label.locked /\ locked \in BOOLEAN
    OBVIOUS
  <2>3. \/ SetLockNow(y, label.id, locked).world = y
        \/ Relocked(y, SetLockNow(y, label.id, locked).world, label.id, locked)
    BY <1>3, <2>1, <2>2, SetLockFacts, Zenon
  <2> QED
    BY <2>2, <2>3
<1> HIDE DEF z, v
<1>5. w.document.row.locked = u.locked
  BY <1>3 DEF Bare
<1>6. CASE z = y
  <2>1. Good(v) /\ v.session = y.session
    BY <1>2, <1>3, <1>6, RefreshGood
  <2>2. NoStamp(w, v.session.unit)
    BY <1>3, <2>1, QuietFacts DEF Good, Core
  <2> QED
    BY <1>5, <2>1, <2>2 DEF Fine, v
<1>7. CASE Relocked(y, z, label.id, ~label.locked)
  <2>0. /\ EditedTo(y, z, y.session.selection) /\ NoStamp(y, z.session.unit)
        /\ label.id \in ToSet(u.ids) /\ p \in Places(u) /\ u.ids[p] = label.id
        /\ z.session.unit.boards = u.boards /\ z.session.unit.ids = u.ids
        /\ z.session.unit.locked[p] = ~label.locked
        /\ \A l \in Places(u) : l # p => z.session.unit.locked[l] = u.locked[l]
    BY <1>7 DEF Relocked
  <2>1. Fine(y, v) /\ v.session = z.session
    BY <1>2, <1>3, <2>0, RefreshedEdit
  <2>2. Fine(w, v)
    BY <1>3, <2>1, SMTT(40) DEF Fine, NoStamp
  <2>3. u = w.session.unit
    BY <1>1, <1>3, <2>0
  <2>4. p = k
    <3>1. UnitOK(u, w.session.edits) /\ Places(u) = DOMAIN u.ids /\ u.ids \in Seq(Ids)
      BY <1>3, UnitFacts DEF Core, Places
    <3>2. k \in 1 .. Len(u.ids)
      BY <1>1, <2>3, <3>1
    <3> HIDE DEF u
    <3>3. PlaceOf(u, u.ids[k]) = k
      BY <3>1, <3>2, PlaceFacts
    <3> QED
      BY <1>1, <2>3, <3>3
  <2>5. Places(v.session.unit) = Places(u) /\ Key(v.session.unit, k) = Key(u, k)
    BY <2>0, <2>1 DEF Places, Key
  <2>6. ASSUME NEW l \in Places(v.session.unit),
               v.session.unit.locked[l] # w.document.row.locked[l]
        PROVE  l = k /\ v.session.unit.locked[l] # label.locked
    <3>1. l = p
      BY <1>5, <2>0, <2>1, <2>5, <2>6
    <3> QED
      BY <1>1, <2>0, <2>1, <2>4, <3>1
  <2> QED
    BY <1>1, <2>2, <2>3, <2>5, <2>6 DEF v, label
<1> QED
  BY <1>4, <1>6, <1>7

\* _unlock_held() keeps a good editor good and sizes nothing.
LEMMA UnlockHeldFacts ==
    ASSUME NEW w, Good(w), w.editor.closed \/ ~w.editor.dragging
    PROVE  Fine(w, UnlockHeld(w))
<1> DEFINE y == Settle(CloseField(w))
           z == UnlockHoldersNow(y, w.editor.held).world
           v == UnlockHeld(w)
<1>1. CASE w.editor.closed \/ w.editor.held = Nothing
  <2>1. v = w
    BY <1>1 DEF UnlockHeld
  <2> QED
    BY <2>1, QuietFacts DEF Fine, Good, Core
<1>2. CASE ~(w.editor.closed \/ w.editor.held = Nothing)
  <2>1. v = Refresh(z)
    BY <1>2 DEF UnlockHeld, UnlockHolders, CloseField
  <2>2. /\ Core(y) /\ ~y.document.pending /\ y.document.row = w.document.row
        /\ y.session.edits = w.session.edits
        /\ y.editor.closed \/ y.session.drag = Nothing
    BY SettledFacts
  <2> HIDE DEF y
  <2>3. \/ z = y
        \/ /\ EditedTo(y, z, y.session.selection) /\ NoStamp(y, z.session.unit)
           /\ z.session.unit.boards = y.session.unit.boards
    BY <2>2, UnlockHoldersFacts DEF Core
  <2> HIDE DEF z, v
  <2>4. CASE z = y
    <3>1. Good(v) /\ v.session = y.session
      BY <2>1, <2>2, <2>4, RefreshGood
    <3>2. NoStamp(w, v.session.unit)
      BY <2>2, <3>1, QuietFacts DEF Good, Core
    <3> QED
      BY <3>1, <3>2 DEF Fine, v
  <2>5. CASE /\ EditedTo(y, z, y.session.selection) /\ NoStamp(y, z.session.unit)
             /\ z.session.unit.boards = y.session.unit.boards
    <3>1. Fine(y, v)
      BY <2>1, <2>2, <2>5, RefreshedEdit
    <3> QED
      BY <2>2, <3>1 DEF Fine, NoStamp, v
  <2> QED
    BY <2>3, <2>4, <2>5
<1> QED
  BY <1>1, <1>2

\* The panel's _resize() keeps a good editor good and sizes no locked opening.
LEMMA ResizePanelFacts ==
    ASSUME NEW w, Good(w), w.editor.closed \/ ~w.editor.dragging
    PROVE  Fine(w, Resize(w))
<1> DEFINE y == Settle(w)
           z == ResizeNow(y)
           v == Resize(w)
<1>1. v = Refresh(z)
  BY DEF Resize
<1>2. /\ Core(y) /\ ~y.document.pending /\ y.document.row = w.document.row
      /\ y.session.edits = w.session.edits
      /\ y.editor.closed \/ ~y.editor.dragging
  BY SettleFacts DEF Good, Core
<1> HIDE DEF y
<1>3. y.editor.closed \/ y.session.drag = Nothing
  BY <1>2, Still
<1>4. /\ EditedTo(y, z, y.session.selection) /\ NoStamp(y, z.session.unit)
      /\ z.session.unit.boards = y.session.unit.boards
  BY <1>2, ResizeFacts DEF Core
<1> HIDE DEF z, v
<1>5. Fine(y, v)
  BY <1>1, <1>2, <1>3, <1>4, RefreshedEdit
<1> QED
  BY <1>2, <1>5 DEF Fine, NoStamp, v

\* An Undo read back leaves a good editor, and stamps no size.
LEMMA SettleGood ==
    ASSUME NEW w, Good(w)
    PROVE  Fine(w, Settle(w))
<1> DEFINE v == Settle(w)
<1>1. /\ Base(v) /\ v.session.edits = w.session.edits
      /\ Shown(v) /\ Current(v) /\ Held(v) /\ Drag(v)
  BY SettleFacts DEF Good, Core
<1> HIDE DEF v
<1>2. NoStamp(w, v.session.unit)
  BY <1>1, QuietFacts
<1> QED
  BY <1>1, <1>2 DEF v, Fine, Good, Core

\* The editor has taken in what boards the unit has.
Knowing(w) == [w EXCEPT !.editor.boards = BoardIds(w.session.unit)]

\* Knowing the boards is all that changes.
LEMMA KnowingFacts ==
    ASSUME NEW w, Base(w), AtLarge(w)
    PROVE  LET v == Knowing(w)
           IN  /\ Base(v) /\ AtLarge(v)
               /\ v.session = w.session /\ v.document = w.document
               /\ v.editor.boards = BoardIds(v.session.unit)
               /\ v.editor.closed = w.editor.closed
<1> DEFINE v == Knowing(w)
<1>1. Shaped(w) /\ Flagged(w) /\ Rows(w) /\ Selection(w) /\ Waiting(w) /\ Attributes(w) /\ Picks(w)
  BY DEF Base
<1>2. BoardIds(w.session.unit) \subseteq BoardNames
  BY <1>1, SelectedBoardsFacts
<1>3. /\ v.session = w.session /\ v.document = w.document /\ v.picked = w.picked
      /\ v.jobs = w.jobs /\ v.view = w.view /\ DOMAIN v = DOMAIN w
      /\ DOMAIN v.editor = DOMAIN w.editor
      /\ v.editor.closed = w.editor.closed /\ v.editor.field = w.editor.field
      /\ v.editor.focus = w.editor.focus /\ v.editor.drawn = w.editor.drawn
      /\ v.editor.boards = BoardIds(w.session.unit) /\ v.editor.arrow = w.editor.arrow
      /\ v.editor.held = w.editor.held /\ v.editor.dragging = w.editor.dragging
      /\ v.editor.followQueued = w.editor.followQueued
      /\ v.editor.refreshQueued = w.editor.refreshQueued
      /\ v.editor.sideQueued = w.editor.sideQueued
  BY <1>1 DEF Knowing, Shaped
<1> HIDE DEF v
<1>4. Shaped(v) /\ Flagged(v)
  BY <1>1, <1>3 DEF Shaped, Flagged, HasJob
<1>5. Rows(v) /\ Selection(v) /\ Waiting(v) /\ Picks(v)
  BY <1>1, <1>3 DEF Rows, Selection, Waiting, Picks, InDocument
<1>6. Attributes(v)
  BY <1>1, <1>2, <1>3 DEF Attributes
<1>7. AtLarge(v)
  BY <1>3 DEF AtLarge, HandsFree, Loose, DragHolds, HasJob
<1> QED
  BY <1>3, <1>4, <1>5, <1>6, <1>7 DEF v, Base

\* _add_board() keeps a good editor good, with the board it added selected.
LEMMA AddBoardFacts ==
    ASSUME NEW w, Good(w), w.editor.closed \/ ~w.editor.dragging
    PROVE  Fine(w, AddBoard(w))
<1> DEFINE y == Settle(w)
           split == SplitNow(y)
           v == AddBoard(w)
<1>1. v = Added(w, split)
  BY DEF AddBoard, Split
<1>2. /\ Core(y) /\ ~y.document.pending /\ y.document.row = w.document.row
      /\ y.session.edits = w.session.edits
      /\ y.editor.closed \/ ~y.editor.dragging
  BY SettleFacts DEF Good, Core
<1> HIDE DEF y
<1>3. y.editor.closed \/ y.session.drag = Nothing
  BY <1>2, Still
<1> DEFINE x == split.world
<1>4. \/ x = y /\ split = Refused(y)
      \/ /\ EditedTo(y, x, << >>) /\ NoStamp(y, x.session.unit) /\ split = Did(x)
  BY <1>2, SplitNowFacts DEF Core
<1> HIDE DEF split, v
<1>5. CASE x = y /\ split = Refused(y)
  <2>1. ~split.done
    BY <1>5 DEF Refused
  <2>2. v = Refresh(y)
    BY <1>1, <1>5, <2>1 DEF Added
  <2>3. Good(v) /\ v.session = y.session
    BY <1>2, <2>2, RefreshGood
  <2>4. NoStamp(w, v.session.unit)
    BY <1>2, <2>3, QuietFacts DEF Good, Core
  <2> QED
    BY <2>3, <2>4 DEF Fine, v
<1>6. CASE /\ EditedTo(y, x, << >>) /\ NoStamp(y, x.session.unit) /\ split = Did(x)
  <2> DEFINE new == BoardIds(x.session.unit) \ BoardIds(w.session.unit)
             id == IF Cardinality(new) = 1 THEN CHOOSE b \in new : TRUE ELSE Nothing
  <2>1. split.done
    BY <1>6 DEF Did
  <2>2. v = Select(Knowing(x), id)
    BY <1>1, <2>1 DEF Added, Knowing
  <2>3. id = Nothing \/ id \in BoardIds(x.session.unit)
    <3>1. Cardinality(new) = 1 => new # {}
      <4>1. Cardinality({}) = 0
        BY FS_EmptySet
      <4> QED
        BY <4>1
    <3>2. new # {} => (CHOOSE b \in new : TRUE) \in new
      OBVIOUS
    <3> QED
      BY <3>1, <3>2
  <2> HIDE DEF id, x
  <2>4. Core(x)
    <3>1. ToSet(<< >>) \subseteq Ids
      BY DEF ToSet
    <3>2. y.session.drag = Nothing \/ y.editor.closed \/ Loose(x)
      BY <1>3
    <3>3. PICK s : s = << >>
      OBVIOUS
    <3> QED
      BY <1>2, <1>6, <3>1, <3>2, <3>3, EditedCore
  <2>5. x.editor.closed \/ ~x.editor.dragging
    BY <1>2, <1>6 DEF EditedTo, Edited, FollowQueued, SameEditor
  <2>6. Base(x) /\ AtLarge(x)
    BY <2>4, <2>5, AtLargeFacts DEF Core
  <2> DEFINE k == Knowing(x)
  <2>7. /\ Base(k) /\ AtLarge(k) /\ k.session = x.session
        /\ k.editor.boards = BoardIds(k.session.unit)
    BY <2>6, KnowingFacts
  <2> HIDE DEF k
  <2>8. Good(v) /\ v.session.unit = x.session.unit
    <3>1. v = Select(k, id)
      BY <2>2 DEF k
    <3>2. id = Nothing \/ id \in Ids \/ id \in BoardIds(k.session.unit)
      BY <2>3, <2>7
    <3> QED
      BY <2>7, <3>1, <3>2, SelectFacts
  <2> QED
    BY <1>2, <1>6, <2>8 DEF Fine, NoStamp, v
<1> QED
  BY <1>4, <1>5, <1>6

\* What DeleteSelected removes is what the drawing shows selected.
DrawnGoes(w, v) ==
    ToSet(w.document.row.boards) \ ToSet(v.document.row.boards)
      \subseteq ToSet(w.editor.drawn.selection)

\* _delete_selected() removes what is drawn selected, and nothing else.
LEMMA DeleteSelectedFacts ==
    ASSUME NEW w, Good(w)
    PROVE  Fine(w, DeleteSelected(w)) /\ DrawnGoes(w, DeleteSelected(w))
<1> DEFINE y == Settle(w)
           bs == SelectedBoards(y)
           removed == RemoveNow(y, bs)
           x == removed.world
           v == DeleteSelected(w)
<1>0. Base(w) /\ Shown(w) /\ Drag(w) /\ Rows(w) /\ Selection(w)
  BY DEF Good, Core, Base
<1>1. CASE w.editor.closed \/ SelectedBoards(w) = << >>
  <2>1. v = w
    BY <1>1 DEF DeleteSelected
  <2>2. NoStamp(w, w.session.unit)
    BY <1>0, QuietFacts
  <2> QED
    BY <2>1, <2>2 DEF Fine, DrawnGoes
<1>2. CASE ~(w.editor.closed \/ SelectedBoards(w) = << >>)
  <2>1. v = Deleted(removed)
    BY <1>2 DEF DeleteSelected, DeleteBoards, RemoveSelected
  <2>2. /\ Core(y) /\ ~y.document.pending /\ y.document.row = w.document.row
        /\ y.document.row = Bare(y.session.unit)
        /\ y.session.edits = w.session.edits /\ y.session.drag = w.session.drag
        /\ ~w.document.pending => y = w
        /\ w.document.pending => y.session.selection =
              ReadSelection(w.session.unit, y.session.unit, w.session.selection)
        /\ y.editor.closed \/ y.editor.dragging = w.editor.dragging
    BY SettleFacts DEF Good, Core
  <2> HIDE DEF y
  <2>3. ToSet(w.session.selection) \subseteq BoardIds(w.session.unit)
    BY <1>0, <1>2, SelectedBoardsFacts DEF Selection
  <2>4. w.editor.drawn.selection = w.session.selection
    BY <1>0, <1>2 DEF Shown
  <2>5. Base(y) /\ UnitOK(y.session.unit, y.session.edits) /\ Rows(y) /\ Selection(y)
    BY <2>2 DEF Core, Base, Rows
  <2>6. ToSet(y.session.selection) \subseteq ToSet(w.session.selection)
    <3>1. CASE ~w.document.pending
      BY <2>2, <3>1
    <3>2. CASE w.document.pending
      <4>1. /\ UnitOK(w.session.unit, w.session.edits)
            /\ w.session.selection \in Seq(Ids \cup BoardNames)
        BY <1>0 DEF Rows, Selection
      <4>2. PICK t : t = ReadSelection(w.session.unit, y.session.unit, w.session.selection)
        OBVIOUS
      <4>3. ToSet(t) \subseteq BoardIds(y.session.unit) \cap ToSet(w.session.selection)
        BY <2>3, <2>5, <4>1, <4>2, ReadSelectionFacts
      <4> QED
        BY <2>2, <3>2, <4>2, <4>3
    <3> QED
      BY <3>1, <3>2
  <2>7. y.session.selection \in Seq(Ids \cup BoardNames) /\ bs \in Seq(Ids \cup BoardNames)
        /\ ToSet(bs) \subseteq ToSet(y.session.selection)
    <3>1. y.session.selection \in Seq(Ids \cup BoardNames)
      BY <2>5 DEF Selection
    <3>2. PICK T : T = BoardIds(y.session.unit)
      OBVIOUS
    <3>3. bs = Within(y.session.selection, T)
      BY <3>2 DEF SelectedBoards
    <3> QED
      BY <3>1, <3>3, WithinFacts
  <2> HIDE DEF bs
  <2>8. \/ x = y /\ removed = Refused(y)
        \/ /\ EditedTo(y, x, << >>) /\ NoStamp(y, x.session.unit) /\ removed = Did(x)
           /\ ToSet(x.session.unit.boards) \subseteq ToSet(y.session.unit.boards)
           /\ ToSet(y.session.unit.boards) \ ToSet(bs) \subseteq ToSet(x.session.unit.boards)
           /\ \A b \in ToSet(bs) : b \notin ToSet(x.session.unit.boards)
    BY <2>2, <2>5, <2>7, RemoveFacts
  <2> HIDE DEF removed, v
  <2>9. CASE x = y /\ removed = Refused(y)
    <3>1. ~removed.done
      BY <2>9 DEF Refused
    <3>2. v = Rebuild(y) /\ v = Refresh(y)
      BY <2>1, <2>9, <3>1 DEF Deleted, Refresh
    <3>3. Good(v) /\ v.session = y.session
      BY <2>2, <3>2, RefreshGood
    <3>4. v.document = y.document
      BY <2>5, <3>2, RebuildFacts
    <3>5. NoStamp(w, v.session.unit)
      BY <2>2, <3>3, QuietFacts DEF Good, Core
    <3> QED
      BY <2>2, <3>3, <3>4, <3>5 DEF Fine, DrawnGoes, v
  <2>10. CASE /\ EditedTo(y, x, << >>) /\ NoStamp(y, x.session.unit) /\ removed = Did(x)
              /\ ToSet(x.session.unit.boards) \subseteq ToSet(y.session.unit.boards)
              /\ ToSet(y.session.unit.boards) \ ToSet(bs) \subseteq ToSet(x.session.unit.boards)
              /\ \A b \in ToSet(bs) : b \notin ToSet(x.session.unit.boards)
    <3> HIDE DEF x
    <3>1. removed.done
      BY <2>10 DEF Did
    <3>2. v = Select(Knowing(x), SelectedId(x))
      BY <2>1, <3>1 DEF Deleted, Knowing, x
    <3>3. /\ x.session.selection = << >> /\ x.session.drag = y.session.drag
          /\ x.document.row = Bare(x.session.unit)
          /\ x.editor.closed = y.editor.closed /\ x.editor.dragging = y.editor.dragging
      BY <2>10 DEF EditedTo, Edited, FollowQueued, SameEditor
    <3>4. SelectedId(x) = Nothing
      <4>1. Len(<< >>) # 1
        OBVIOUS
      <4> QED
        BY <3>3, <4>1 DEF SelectedId
    <3>5. y.session.drag = Nothing \/ y.editor.closed \/ Loose(x)
      <4>1. CASE w.document.pending
        <5>1. w.session.drag = Nothing
          BY <1>0, <1>2, <4>1 DEF Drag, DragHolds
        <5> QED
          BY <2>2, <5>1
      <4>2. CASE ~w.document.pending /\ ~Loose(w)
        <5>1. w.session.selection = <<w.session.drag.board>>
          BY <1>0, <1>2, <4>2 DEF Drag, DragHolds, Loose
        <5>2. SelectedBoards(w) = w.session.selection
          BY <1>0, <2>3, SelectedBoardsFacts
        <5>3. bs = <<w.session.drag.board>>
          BY <2>2, <4>2, <5>1, <5>2 DEF bs
        <5>4. w.session.drag.board \in ToSet(bs)
          BY <5>3 DEF ToSet
        <5> QED
          BY <2>2, <2>10, <3>3, <4>2, <5>4 DEF Loose
      <4>3. CASE ~w.document.pending /\ Loose(w)
        BY <2>2, <2>10, <3>3, <4>3 DEF Loose
      <4> QED
        BY <4>1, <4>2, <4>3
    <3>6. Core(x)
      <4>1. ToSet(<< >>) \subseteq Ids
        BY DEF ToSet
      <4>2. PICK s : s = << >>
        OBVIOUS
      <4> QED
        BY <2>2, <2>10, <3>5, <4>1, <4>2, EditedCore
    <3>7. Base(x) /\ AtLarge(x)
      <4>1. x.editor.closed \/ ~x.editor.dragging \/ Loose(x)
        <5>1. x.session.drag = Nothing => Loose(x)
          BY DEF Loose
        <5> QED
          BY <3>3, <3>5, <5>1
      <4> QED
        BY <3>6, <4>1, AtLargeFacts DEF Core
    <3> DEFINE k == Knowing(x)
    <3>8. /\ Base(k) /\ AtLarge(k) /\ k.session = x.session /\ k.document = x.document
          /\ k.editor.boards = BoardIds(k.session.unit)
      BY <3>7, KnowingFacts
    <3> HIDE DEF k
    <3>9. Good(v) /\ v.session.unit = x.session.unit /\ v.document = x.document
      <4>1. v = Select(k, Nothing)
        BY <3>2, <3>4 DEF k
      <4> QED
        BY <3>8, <4>1, SelectFacts
    <3>10. DrawnGoes(w, v)
      <4>1. /\ v.document.row.boards = x.session.unit.boards
            /\ w.document.row.boards = y.session.unit.boards
        BY <2>2, <3>3, <3>9 DEF Bare
      <4> QED
        BY <2>4, <2>6, <2>7, <2>10, <4>1 DEF DrawnGoes
    <3> QED
      BY <2>2, <2>10, <3>9, <3>10 DEF Fine, NoStamp, v
  <2> QED
    BY <2>8, <2>9, <2>10
<1> QED
  BY <1>1, <1>2

\* The parts of what is known of a good world.
LEMMA GoodParts ==
    ASSUME NEW w, Good(w)
    PROVE  /\ Base(w) /\ Core(w) /\ Held(w) /\ Drag(w) /\ Shown(w) /\ Current(w)
           /\ Shaped(w) /\ Flagged(w) /\ Rows(w) /\ Selection(w)
           /\ Waiting(w) /\ Attributes(w) /\ Picks(w)
BY DEF Good, Core, Base

\* A good world in which no edit was made is fine.
LEMMA QuietIsFine ==
    ASSUME NEW w, NEW v, Good(v), v.session.edits = w.session.edits
    PROVE  Fine(w, v)
<1>1. Base(v)
  BY GoodParts
<1> QED
  BY <1>1, QuietFacts DEF Fine

\* A redraw put off to the next pass of the event loop.
LEMMA QueueChangeFacts ==
    ASSUME NEW w, Base(w), Held(w), Drag(w), Shown(w)
    PROVE  Good(QueueChange(w)) /\ QueueChange(w).session = w.session
<1> DEFINE x == [w EXCEPT !.editor.refreshQueued = TRUE]
           v == QueueChange(w)
<1>1. Shaped(w) /\ Flagged(w) /\ Rows(w) /\ Selection(w) /\ Waiting(w) /\ Attributes(w) /\ Picks(w)
  BY DEF Base
<1>2. CASE w.editor.refreshQueued
  <2>1. v = w
    BY <1>2 DEF QueueChange
  <2>2. Current(w)
    BY <1>2 DEF Current
  <2> QED
    BY <2>1, <2>2 DEF Good, Core
<1>3. CASE ~w.editor.refreshQueued
  <2>1. v = Queue(x, Job("refresh"))
    BY <1>3 DEF QueueChange
  <2>2. /\ v.session = w.session /\ v.document = w.document /\ v.picked = w.picked
        /\ v.view = w.view /\ v.jobs = Append(w.jobs, Job("refresh")) /\ DOMAIN v = DOMAIN w
        /\ DOMAIN v.editor = DOMAIN w.editor
        /\ v.editor.closed = w.editor.closed /\ v.editor.field = w.editor.field
        /\ v.editor.focus = w.editor.focus /\ v.editor.drawn = w.editor.drawn
        /\ v.editor.boards = w.editor.boards /\ v.editor.arrow = w.editor.arrow
        /\ v.editor.held = w.editor.held /\ v.editor.dragging = w.editor.dragging
        /\ v.editor.followQueued = w.editor.followQueued
        /\ v.editor.refreshQueued
        /\ v.editor.sideQueued = w.editor.sideQueued
    BY <1>1, <2>1 DEF Queue, Shaped
  <2> HIDE DEF x, v
  <2>3. IsSeq(v.jobs) /\ ToSet(v.jobs) = ToSet(w.jobs) \cup {Job("refresh")}
    BY <1>1, <2>2, AppendIsSeq DEF Shaped
  <2>4. \A kind : HasJob(v, kind) <=> HasJob(w, kind) \/ kind = "refresh"
    <3>1. PICK job : job = Job("refresh")
      OBVIOUS
    <3>2. job.kind = "refresh"
      BY <3>1 DEF Job
    <3> QED
      BY <2>3, <3>1, <3>2, Zenon DEF HasJob
  <2>5. Shaped(v)
    BY <1>1, <2>2, <2>3 DEF Shaped
  <2>6. Flagged(v)
    BY <1>1, <2>2, <2>4 DEF Flagged
  <2>7. Rows(v) /\ Selection(v) /\ Attributes(v)
    BY <1>1, <2>2 DEF Rows, Selection, Attributes
  <2>8. Picks(v)
    BY <1>1, <2>2 DEF Picks, InDocument
  <2>9. Waiting(v)
    BY <1>1, <2>3 DEF Waiting, Kinds, Job
  <2>10. SelectedBoards(v) = SelectedBoards(w)
    BY <2>2, DrawnForSession
  <2>11. Held(v)
    BY <2>2, <2>4, <2>10 DEF Held, FollowsOn
  <2>12. Drag(v)
    BY <2>2, <2>4 DEF Drag, HandsFree, DragHolds, Loose
  <2>13. Shown(v)
    BY <2>2 DEF Shown
  <2>14. Current(v)
    BY <2>2 DEF Current
  <2> QED
    BY <2>2, <2>5, <2>6, <2>7, <2>8, <2>9, <2>11, <2>12, <2>13, <2>14 DEF v, Good, Core, Base
<1> QED
  BY <1>2, <1>3

\* A session and an editor that differ in what is dragged, and no more.
DragOnly(w, v) ==
    /\ DOMAIN v = DOMAIN w /\ DOMAIN v.editor = DOMAIN w.editor
    /\ DOMAIN v.session = DOMAIN w.session
    /\ v.session.unit = w.session.unit /\ v.session.selection = w.session.selection
    /\ v.session.edits = w.session.edits
    /\ v.document = w.document /\ v.picked = w.picked
    /\ v.jobs = w.jobs /\ v.view = w.view
    /\ v.editor.closed = w.editor.closed /\ v.editor.field = w.editor.field
    /\ v.editor.focus = w.editor.focus /\ v.editor.drawn = w.editor.drawn
    /\ v.editor.boards = w.editor.boards /\ v.editor.arrow = w.editor.arrow
    /\ v.editor.held = w.editor.held
    /\ v.editor.followQueued = w.editor.followQueued
    /\ v.editor.refreshQueued = w.editor.refreshQueued
    /\ v.editor.sideQueued = w.editor.sideQueued

\* The end or the start of a drag keeps what holds of the rest.
LEMMA DragOnlyFacts ==
    ASSUME NEW w, NEW v, Base(w), DragOnly(w, v),
           v.session.drag # Nothing => DOMAIN v.session.drag = {"board", "moved"}
    PROVE  /\ Base(v)
           /\ Held(w) => Held(v)
           /\ Shown(w) => Shown(v)
<1>1. Shaped(w) /\ Flagged(w) /\ Rows(w) /\ Selection(w) /\ Waiting(w) /\ Attributes(w) /\ Picks(w)
  BY DEF Base
<1>2. Shaped(v) /\ Flagged(v)
  BY <1>1 DEF Shaped, Flagged, HasJob, DragOnly
<1>3. Rows(v) /\ Selection(v) /\ Attributes(v)
  BY <1>1 DEF Rows, Selection, Attributes, DragOnly
<1>4. Picks(v) /\ Waiting(v)
  BY <1>1 DEF Picks, InDocument, Waiting, DragOnly
<1>5. SelectedBoards(v) = SelectedBoards(w)
  BY DrawnForSession DEF DragOnly
<1>6. Held(w) => Held(v)
  BY <1>5 DEF Held, FollowsOn, HasJob, DragOnly
<1>7. Shown(w) => Shown(v)
  BY DEF Shown, DragOnly
<1> QED
  BY <1>2, <1>3, <1>4, <1>6, <1>7 DEF Base

\* A drag begins with its board selected, and with nothing waiting that would
\* select another.
LEMMA DragStartedFacts ==
    ASSUME NEW w, Good(w), ~w.view.gone, ~w.editor.dragging, ~w.editor.focus,
           ~HasJob(w, "follow"), ~HasJob(w, "click"), ~HasJob(w, "open"), ~HasJob(w, "refresh")
    PROVE  Fine(w, DragStarted(w))
<1> DEFINE b == w.editor.arrow
           y == Settle(w)
           u == y.session.unit
           v == DragStarted(w)
<1>0. Base(w) /\ Shown(w) /\ Current(w) /\ Flagged(w) /\ Rows(w) /\ Selection(w)
  BY GoodParts
<1>1. CASE w.editor.closed \/ b = Nothing
  <2>1. v = w
    BY <1>1 DEF DragStarted
  <2> QED
    BY <2>1, QuietIsFine
<1>2. CASE ~(w.editor.closed \/ b = Nothing)
  <2>1. v = BeginDrag(y, b)
    BY <1>2 DEF DragStarted
  <2>2. Fine(w, y)
    BY SettleGood
  <2>3. /\ Base(y) /\ ~y.document.pending /\ y.session.edits = w.session.edits
        /\ y.jobs = w.jobs /\ y.document.row = Bare(u)
        /\ ~w.document.pending => y = w
        /\ w.document.pending =>
              /\ y.session.selection =
                    ReadSelection(w.session.unit, u, w.session.selection)
              /\ ~y.editor.closed => y.editor.field = Nothing
    BY <1>0, SettleFacts
  <2> HIDE DEF y
  <2>4. Shaped(y) /\ Attributes(y) /\ Rows(y) /\ Held(y) /\ Shown(y) /\ Good(y)
    BY <2>2, GoodParts DEF Fine
  <2>5. CASE b \notin ToSet(u.boards) \/ HoldersOf(u, b) # {}
    <3>1. v = y
      BY <2>1, <2>5 DEF BeginDrag
    <3> QED
      BY <2>2, <3>1
  <2>6. CASE b \in ToSet(u.boards) /\ HoldersOf(u, b) = {}
    <3>1. v = [y EXCEPT !.session.drag = [board |-> b, moved |-> FALSE],
                        !.editor.dragging = TRUE, !.editor.bar = FALSE]
      BY <2>1, <2>6 DEF BeginDrag
    <3>2. PICK drag : drag = [board |-> b, moved |-> FALSE]
      OBVIOUS
    <3>3. DOMAIN drag = {"board", "moved"} /\ drag.board = b
      BY <3>2
    <3>4. v = [y EXCEPT !.session.drag = drag, !.editor.dragging = TRUE, !.editor.bar = FALSE]
      BY <3>1, <3>2
    <3>5. DragOnly(y, v) /\ v.session.drag = drag /\ v.editor.dragging
      <4>1. PICK dragging : dragging = TRUE
        OBVIOUS
      <4>2. PICK bar : bar = FALSE
        OBVIOUS
      <4>3. PICK s : s = [y.session EXCEPT !.drag = drag]
        OBVIOUS
      <4>4. PICK e : e = [y.editor EXCEPT !.dragging = dragging, !.bar = bar]
        OBVIOUS
      <4>5. v = [y EXCEPT !.session = s, !.editor = e]
        BY <2>4, <3>4, <4>1, <4>2, <4>3, <4>4 DEF Shaped
      <4> HIDE DEF v
      <4>6. /\ v.session = s /\ v.editor = e /\ DOMAIN v = DOMAIN y
            /\ v.document = y.document /\ v.picked = y.picked
            /\ v.jobs = y.jobs /\ v.view = y.view
        BY <2>4, <4>5 DEF Shaped
      <4> QED
        BY <2>4, <4>1, <4>3, <4>4, <4>6 DEF DragOnly, Shaped
    <3> HIDE DEF v
    <3>6. Base(v) /\ Held(v) /\ Shown(v)
      BY <2>3, <2>4, <3>3, <3>5, DragOnlyFacts
    <3>7. Current(v)
      BY <3>5 DEF Current
    <3>8. SelectedId(w) = b /\ b \in ToSet(w.session.unit.boards)
      <4>1. ~w.editor.refreshQueued
        BY <1>0 DEF Flagged
      <4>2. b = ArrowFor(w)
        BY <1>0, <1>2, <4>1 DEF Current
      <4> QED
        BY <1>2, <4>2 DEF ArrowFor, SelectedInner
    <3>9. w.session.selection = <<b>>
      BY <1>0, <1>2, <3>8, SelectedIdFacts
    <3>10. y.session.selection = <<b>>
      <4>1. CASE ~w.document.pending
        BY <2>3, <3>9, <4>1
      <4>2. CASE w.document.pending
        <5>1. UnitOK(w.session.unit, w.session.edits) /\ UnitOK(u, y.session.edits)
              /\ w.session.selection \in Seq(Ids \cup BoardNames)
          BY <1>0, <2>4 DEF Rows, Selection
        <5>2. PICK s : s = w.session.selection
          OBVIOUS
        <5>3. ToSet(s) = {b}
          BY <3>9, <5>2 DEF ToSet
        <5>4. b \in BoardIds(w.session.unit) /\ b \in BoardIds(u)
          BY <2>6, <3>8 DEF BoardIds
        <5>5. PICK t : t = ReadSelection(w.session.unit, u, s)
          OBVIOUS
        <5>6. ToSet(s) \subseteq BoardIds(w.session.unit) /\ ToSet(s) \subseteq BoardIds(u)
          BY <5>3, <5>4
        <5>7. t = s
          BY <5>1, <5>2, <5>5, <5>6, ReadSelectionFacts
        <5> QED
          BY <2>3, <3>9, <4>2, <5>2, <5>5, <5>7
      <4> QED
        BY <4>1, <4>2
    <3>11. HandsFree(v) \/ v.editor.closed
      <4>1. ~y.editor.closed => ~y.editor.focus
        BY <2>3, <2>4 DEF Attributes
      <4> QED
        BY <2>3, <3>5, <4>1 DEF HandsFree, HasJob, DragOnly
    <3>12. DragHolds(v)
      BY <2>3, <3>3, <3>5, <3>10 DEF DragHolds, Loose, HasJob, DragOnly
    <3>13. Good(v)
      BY <3>6, <3>7, <3>11, <3>12 DEF Good, Core, Drag
    <3>14. v.session.edits = w.session.edits
      BY <2>3, <3>5 DEF DragOnly
    <3> QED
      BY <3>13, <3>14, QuietIsFine DEF v
  <2> QED
    BY <2>5, <2>6
<1> QED
  BY <1>1, <1>2

\* A move of the board, as an edit of the unit.
Moved(w, x, z, b) ==
    /\ x = [z EXCEPT !.session.drag.moved = TRUE]
    /\ EditedTo(w, z, <<b>>) /\ NoStamp(w, z.session.unit)
    /\ z.session.unit.boards = w.session.unit.boards
    /\ z.session.unit.ids = w.session.unit.ids
    /\ z.session.unit.locked = w.session.unit.locked
    /\ b \in ToSet(w.session.unit.boards)

\* A drag's move leaves the selection and the boards as they were.
LEMMA DragMovedFacts ==
    ASSUME NEW w, Good(w), ~w.editor.closed
    PROVE  Fine(w, DragMoved(w))
<1> DEFINE drag == w.session.drag
           x == DragTo(w, drag)
           v == DragMoved(w)
<1>0. Base(w) /\ Held(w) /\ Drag(w) /\ Shown(w) /\ Shaped(w) /\ Attributes(w)
  BY GoodParts
<1>1. CASE ~w.editor.dragging \/ w.editor.arrow = Nothing \/ drag = Nothing
  <2>1. v = w
    BY <1>1 DEF DragMoved
  <2> QED
    BY <2>1, QuietIsFine
<1>2. CASE ~(~w.editor.dragging \/ w.editor.arrow = Nothing \/ drag = Nothing)
  <2>1. v = QueueChange(x)
    BY <1>2 DEF DragMoved
  <2>2. ~w.document.pending /\ HandsFree(w) /\ DragHolds(w)
    BY <1>0, <1>2 DEF Drag, DragHolds
  <2>3. x = w \/ \E z : Moved(w, x, z, drag.board)
    BY <1>0, <1>2, <2>2, DragToFacts DEF Moved
  <2> HIDE DEF x, v, drag
  <2>4. CASE x = w
    <3>1. Good(v) /\ v.session = w.session
      BY <1>0, <2>1, <2>4, QueueChangeFacts
    <3> QED
      BY <3>1, QuietIsFine DEF v
  <2>5. ASSUME NEW z, Moved(w, x, z, drag.board)
        PROVE  Fine(w, v)
    <3>0. /\ x = [z EXCEPT !.session.drag.moved = TRUE]
          /\ EditedTo(w, z, <<drag.board>>) /\ NoStamp(w, z.session.unit)
          /\ z.session.unit.boards = w.session.unit.boards
          /\ z.session.unit.ids = w.session.unit.ids
          /\ z.session.unit.locked = w.session.unit.locked
          /\ drag.board \in ToSet(w.session.unit.boards)
      BY <2>5 DEF Moved
    <3>1. /\ Base(z) /\ FollowQueued(w, z) /\ z.session.selection = <<drag.board>>
          /\ z.session.drag = drag /\ ~z.document.pending
          /\ z.picked = w.picked /\ z.jobs = w.jobs
      BY <2>2, <3>0 DEF EditedTo, Edited, drag
    <3>2. SameEditor(w, z)
      BY <3>1 DEF FollowQueued
    <3>3. Shaped(z) /\ DOMAIN drag = {"board", "moved"}
      BY <1>0, <1>2, <3>1 DEF Base, Attributes, drag
    <3>4. PICK moved : moved = [drag EXCEPT !.moved = TRUE]
      OBVIOUS
    <3>5. DOMAIN moved = {"board", "moved"} /\ moved.board = drag.board
      BY <3>3, <3>4
    <3>6. x = [z EXCEPT !.session.drag = moved]
      BY <3>0, <3>1, <3>3, <3>4 DEF Shaped
    <3>7. /\ DOMAIN x = DOMAIN z /\ DOMAIN x.session = DOMAIN z.session
          /\ x.session.drag = moved /\ x.session.unit = z.session.unit
          /\ x.session.selection = z.session.selection /\ x.session.edits = z.session.edits
          /\ x.document = z.document /\ x.picked = z.picked
          /\ x.jobs = z.jobs /\ x.editor = z.editor /\ x.view = z.view
      BY <3>3, <3>6 DEF Shaped
    <3>8. DragOnly(z, x)
      BY <3>7 DEF DragOnly
    <3>9. w.session.selection = <<drag.board>> /\ ~HasJob(w, "follow")
      BY <1>2, <2>2, <3>0 DEF DragHolds, Loose, drag
    <3>10. Base(x)
      BY <3>1, <3>5, <3>7, <3>8, DragOnlyFacts
    <3>11. BoardIds(x.session.unit) = BoardIds(w.session.unit)
      BY <3>0, <3>7 DEF BoardIds
    <3>12. SelectedBoards(x) = SelectedBoards(w)
      BY <3>1, <3>7, <3>9, <3>11 DEF SelectedBoards
    <3>13. Held(x)
      BY <1>0, <3>1, <3>2, <3>7, <3>12 DEF Held, FollowsOn, HasJob, SameEditor
    <3>14. Shown(x)
      BY <1>0, <3>0, <3>1, <3>2, <3>7, <3>9, <3>11, ZenonT(40) DEF Shown, SameEditor
    <3>15. Drag(x)
      <4>1. HandsFree(x)
        BY <2>2, <3>1, <3>2, <3>7 DEF HandsFree, HasJob, SameEditor
      <4>2. DragHolds(x)
        BY <1>2, <3>1, <3>2, <3>5, <3>7, <3>9 DEF DragHolds, HasJob, SameEditor
      <4> QED
        BY <4>1, <4>2 DEF Drag
    <3>16. Good(v) /\ v.session = x.session
      BY <2>1, <3>10, <3>13, <3>14, <3>15, QueueChangeFacts
    <3> QED
      BY <3>0, <3>7, <3>16 DEF Fine, v
  <2> QED
    BY <2>3, <2>4, <2>5 DEF v
<1> QED
  BY <1>1, <1>2

\* A drag's release leaves a good editor, its redraw queued.
LEMMA DragFinishedFacts ==
    ASSUME NEW w, Good(w)
    PROVE  Fine(w, DragFinished(w))
<1> DEFINE x == [w EXCEPT !.editor.dragging = FALSE, !.session.drag = Nothing]
           v == DragFinished(w)
<1>0. Base(w) /\ Held(w) /\ Shown(w) /\ Shaped(w)
  BY GoodParts
<1>1. CASE ~w.editor.dragging
  <2>1. v = w
    BY <1>1 DEF DragFinished
  <2> QED
    BY <2>1, QuietIsFine
<1>2. CASE w.editor.dragging
  <2>1. v = QueueChange(x)
    BY <1>2 DEF DragFinished
  <2>2. DragOnly(w, x) /\ x.session.drag = Nothing /\ ~x.editor.dragging
    BY <1>0 DEF DragOnly, Shaped
  <2> HIDE DEF x, v
  <2>3. Base(x) /\ Held(x) /\ Shown(x)
    BY <1>0, <2>2, DragOnlyFacts
  <2>4. Drag(x)
    BY <2>2 DEF Drag, HandsFree, DragHolds
  <2>5. Good(v) /\ v.session = x.session
    BY <2>1, <2>3, <2>4, QueueChangeFacts
  <2>6. v.session.edits = w.session.edits
    BY <2>2, <2>5 DEF DragOnly
  <2> QED
    BY <2>5, <2>6, QuietIsFine DEF v
<1> QED
  BY <1>1, <1>2

(***************************************************************************)
(* The callbacks.                                                          *)
(***************************************************************************)
\* The world after the queue gave up its first callback.
Popped(w) == [w EXCEPT !.jobs = Tail(@)]

\* What a callback stamps is told from the world before it was taken.
LEMMA FineFrom ==
    ASSUME NEW w, NEW x, NEW v, Fine(x, v),
           x.document = w.document, x.session.edits = w.session.edits
    PROVE  Fine(w, v)
BY DEF Fine, NoStamp

\* A callback without a flag leaves a good world as it is taken.
LEMMA PoppedFacts ==
    ASSUME NEW w, Good(w), w.jobs # << >>,
           Head(w.jobs).kind \notin {"follow", "refresh", "side"}
    PROVE  LET x == Popped(w)
           IN  /\ Good(x) /\ x.document = w.document /\ x.session = w.session
               /\ x.editor = w.editor
<1> DEFINE x == Popped(w)
<1>1. Base(w) /\ Shaped(w) /\ Held(w) /\ Drag(w) /\ Shown(w) /\ Current(w)
  BY GoodParts
<1>2. /\ x.document = w.document /\ x.session = w.session /\ x.editor = w.editor
      /\ x.picked = w.picked /\ x.view = w.view /\ x.jobs = Tail(w.jobs)
      /\ DOMAIN x = DOMAIN w
  BY <1>1 DEF Popped, Shaped
<1> HIDE DEF x
<1>3. Pops(w, x)
  BY <1>2 DEF Pops
<1>4. /\ Base(x) /\ Held(x) /\ Shown(x) /\ Current(x)
      /\ HandsFree(w) => HandsFree(x)
      /\ DragHolds(w) => DragHolds(x)
  BY <1>1, <1>2, <1>3, PopFacts
<1>5. Drag(x)
  BY <1>1, <1>2, <1>4 DEF Drag
<1> QED
  BY <1>2, <1>4, <1>5 DEF x, Good, Core

\* The queued redraw, if the editor is still open.
LEMMA RefreshJobFacts ==
    ASSUME NEW w, Good(w), w.jobs # << >>, Head(w.jobs).kind = "refresh"
    PROVE  Fine(w, RunQueuedChange(Popped(w)))
<1> DEFINE y == [Popped(w) EXCEPT !.editor.refreshQueued = FALSE]
           v == RunQueuedChange(Popped(w))
<1>1. Base(w) /\ Shaped(w) /\ Held(w) /\ Drag(w)
  BY GoodParts
<1>2. Pops(w, y) /\ y.editor.closed = w.editor.closed /\ y.session = w.session
  BY <1>1 DEF Pops, Popped, Shaped
<1>3. v = Refresh(y)
  BY DEF RunQueuedChange
<1> HIDE DEF y, v
<1>4. /\ Base(y) /\ Held(y)
      /\ HandsFree(w) => HandsFree(y)
      /\ DragHolds(w) => DragHolds(y)
  BY <1>1, <1>2, PopFacts
<1>5. Core(y)
  BY <1>1, <1>2, <1>4 DEF Core, Drag
<1>6. Good(v) /\ v.session = y.session
  BY <1>3, <1>5, RefreshGood
<1> QED
  BY <1>2, <1>6, QuietIsFine DEF v

\* The queued turn of the drawing to the camera's side.
LEMMA SideJobFacts ==
    ASSUME NEW w, Good(w), w.jobs # << >>, Head(w.jobs).kind = "side"
    PROVE  Fine(w, SwitchSide(Popped(w)))
<1> DEFINE y == [Popped(w) EXCEPT !.editor.sideQueued = FALSE]
           v == SwitchSide(Popped(w))
<1>1. Base(w) /\ Shaped(w) /\ Held(w) /\ Drag(w) /\ Shown(w)
  BY GoodParts
<1>2. Pops(w, y) /\ y.editor.closed = w.editor.closed /\ y.session = w.session
  BY <1>1 DEF Pops, Popped, Shaped
<1>3. v = SwitchSideNow(y)
  BY DEF SwitchSide
<1> HIDE DEF y, v
<1>4. /\ Base(y) /\ Held(y) /\ Shown(y)
      /\ HandsFree(w) => HandsFree(y)
      /\ DragHolds(w) => DragHolds(y)
  BY <1>1, <1>2, PopFacts
<1>5. Core(y)
  BY <1>1, <1>2, <1>4 DEF Core, Drag
<1>6. CASE y.editor.closed \/ y.editor.dragging
  <2>1. v = y
    BY <1>3, <1>6 DEF SwitchSideNow
  <2>2. Current(y)
    BY <1>6 DEF Current
  <2>3. Good(v)
    BY <1>4, <1>5, <2>1, <2>2 DEF Good
  <2> QED
    BY <1>2, <2>1, <2>3, QuietIsFine DEF v
<1>7. CASE ~(y.editor.closed \/ y.editor.dragging)
  <2>1. v = Refresh(CloseField(y))
    BY <1>3, <1>7 DEF SwitchSideNow, Refresh
  <2>2. Core(CloseField(y)) /\ CloseField(y).session = y.session
    BY <1>4, <1>5, CloseFieldFacts DEF Core
  <2>3. Good(v) /\ v.session = CloseField(y).session
    BY <2>1, <2>2, RefreshGood
  <2> QED
    BY <1>2, <2>2, <2>3, QuietIsFine DEF v
<1> QED
  BY <1>6, <1>7

\* The queued following of FreeCAD's selection.
LEMMA FollowJobFacts ==
    ASSUME NEW w, Good(w), w.jobs # << >>, Head(w.jobs).kind = "follow"
    PROVE  Fine(w, FollowFreeCAD(Popped(w)))
<1> DEFINE y == [Popped(w) EXCEPT !.editor.followQueued = FALSE]
           v == FollowFreeCAD(Popped(w))
<1>1. Base(w) /\ Shaped(w) /\ Held(w) /\ Drag(w) /\ Shown(w) /\ Current(w)
  BY GoodParts
<1>2. /\ Pops(w, y) /\ y.editor.closed = w.editor.closed /\ y.session = w.session
      /\ y.editor.refreshQueued = w.editor.refreshQueued
      /\ y.editor.sideQueued = w.editor.sideQueued
  BY <1>1 DEF Pops, Popped, Shaped
<1>3. v = FollowNow(y)
  BY DEF FollowFreeCAD
<1> HIDE DEF y, v
<1>4. /\ Base(y) /\ Shown(y) /\ Current(y)
      /\ HandsFree(w) => HandsFree(y)
      /\ DragHolds(w) => DragHolds(y)
      /\ Loose(w) => Loose(y)
      /\ Head(w.jobs) \in ToSet(w.jobs)
  BY <1>1, <1>2, PopFacts
<1>5. HasJob(w, "follow")
  BY <1>4 DEF HasJob
<1>6. w.editor.closed \/ Loose(w)
  BY <1>1, <1>5 DEF Drag, DragHolds, Loose
<1>7. AtLarge(y)
  BY <1>1, <1>2, <1>4, <1>6 DEF AtLarge, Drag
<1>8. Good(v) /\ v.session.edits = y.session.edits
  BY <1>3, <1>4, <1>7, FollowNowFacts
<1> QED
  BY <1>2, <1>8, QuietIsFine DEF v

\* Every callback leaves a good editor and stamps no size, and the one for the
\* Delete key removes what is drawn selected.
LEMMA RunFacts ==
    ASSUME NEW w, Good(w), w.jobs # << >>
    PROVE  LET job == Head(w.jobs)
               v == Run(Popped(w), job)
           IN  /\ Fine(w, v)
               /\ job.kind = "delete" => DrawnGoes(w, v)
<1> DEFINE job == Head(w.jobs)
           x == Popped(w)
           v == Run(x, job)
<1>0. Base(w) /\ Waiting(w) /\ Drag(w) /\ Shaped(w)
  BY GoodParts
<1>1. job \in ToSet(w.jobs)
  <2>1. PICK S : w.jobs \in Seq(S)
    BY <1>0 DEF Shaped, IsSeq
  <2>2. 1 \in DOMAIN w.jobs /\ w.jobs[1] = job
    BY <2>1
  <2> QED
    BY <2>2 DEF ToSet
<1>2. job.kind \in Kinds /\ (job.kind = "open" => job.id \in Ids)
  BY <1>0, <1>1 DEF Waiting
<1>3. job.kind \in {"open", "click"} => w.editor.closed \/ ~w.editor.dragging
  BY <1>0, <1>1 DEF Drag, HandsFree, HasJob
<1> HIDE DEF job, x
<1>4. CASE job.kind = "refresh"
  <2>1. v = RunQueuedChange(x)
    BY <1>4 DEF Run
  <2> QED
    BY <1>4, <2>1, RefreshJobFacts DEF x, job
<1>5. CASE job.kind = "side"
  <2>1. v = SwitchSide(x)
    BY <1>5 DEF Run
  <2> QED
    BY <1>5, <2>1, SideJobFacts DEF x, job
<1>6. CASE job.kind = "follow"
  <2>1. v = FollowFreeCAD(x)
    BY <1>6 DEF Run
  <2> QED
    BY <1>6, <2>1, FollowJobFacts DEF x, job
<1>7. CASE job.kind \notin {"refresh", "side", "follow"}
  <2>1. Good(x) /\ x.document = w.document /\ x.session = w.session /\ x.editor = w.editor
    BY <1>7, PoppedFacts DEF x, job
  <2>2. x.session.edits = w.session.edits
    BY <2>1
  <2>3. \A y : Fine(x, y) => Fine(w, y)
    BY <2>1, <2>2, FineFrom
  <2>4. CASE job.kind = "settle"
    <3>1. v = Settle(x) \/ v = x
      BY <2>4 DEF Run
    <3>2. Fine(x, Settle(x)) /\ Fine(x, x)
      BY <2>1, SettleGood, QuietIsFine
    <3> QED
      BY <2>3, <2>4, <3>1, <3>2 DEF x, job
  <2>5. CASE job.kind = "click"
    <3>1. v = Click(x, job.at, job.adding)
      BY <2>5 DEF Run
    <3>2. Fine(x, v)
      BY <1>3, <2>1, <2>5, <3>1, ClickFacts
    <3> QED
      BY <2>3, <2>5, <3>2 DEF x, job
  <2>6. CASE job.kind = "open"
    <3>1. v = OpenField(x, job.id)
      BY <2>6 DEF Run
    <3>2. Fine(x, v)
      BY <1>2, <1>3, <2>1, <2>6, <3>1, OpenFieldFacts
    <3> QED
      BY <2>3, <2>6, <3>2 DEF x, job
  <2>7. CASE job.kind = "closeField"
    <3>1. v = CloseField(x)
      BY <2>7 DEF Run
    <3>2. Fine(x, v)
      BY <2>1, <3>1, CloseFieldGood
    <3> QED
      BY <2>3, <2>7, <3>2 DEF x, job
  <2>8. CASE job.kind = "delete"
    <3>1. v = DeleteSelected(x)
      BY <2>8 DEF Run
    <3>2. Fine(x, v) /\ DrawnGoes(x, v)
      BY <2>1, <3>1, DeleteSelectedFacts
    <3>3. DrawnGoes(w, v)
      BY <2>1, <3>2 DEF DrawnGoes
    <3> QED
      BY <2>3, <3>2, <3>3 DEF x, job
  <2> QED
    BY <1>2, <1>7, <2>4, <2>5, <2>6, <2>7, <2>8 DEF Kinds
<1> QED
  BY <1>4, <1>5, <1>6, <1>7

(***************************************************************************)
(* What the user does.                                                     *)
(***************************************************************************)
\* What FreeCAD's selection may become.
MayBePicked(w, entries) ==
    /\ entries \in Seq(Entries) /\ IsInjective(entries)
    /\ \A e \in ToSet(entries) :
          InDocument(w, e.name) /\ e.name \in BoardIds(w.session.unit) \cup {Aside}

\* A change of FreeCAD's selection leaves a good editor.
LEMMA PickGood ==
    ASSUME NEW w, Good(w), w.editor.closed \/ ~w.editor.dragging,
           NEW entries, MayBePicked(w, entries)
    PROVE  Fine(w, Pick(w, entries))
<1> DEFINE v == Pick(w, entries)
<1>0. /\ Base(w) /\ Shaped(w) /\ Flagged(w) /\ Held(w) /\ Drag(w) /\ Shown(w) /\ Current(w)
      /\ Core(w)
  BY GoodParts
<1>1. /\ FollowQueued(w, v) /\ v.session = w.session /\ v.document = w.document
      /\ v.picked = entries
      /\ v = w \/ w.editor.closed \/ HasJob(v, "follow")
  BY <1>0, PickFacts
<1> HIDE DEF v
<1>2. Picks(v)
  BY <1>1 DEF Picks, MayBePicked, Entries, InDocument
<1>3. /\ Base(v) /\ Shown(v) /\ Current(v)
      /\ HandsFree(w) => HandsFree(v)
      /\ Loose(w) /\ DragHolds(w) => Loose(v) /\ DragHolds(v)
  BY <1>0, <1>1, <1>2, FollowQueuedKeeps
<1>4. v.editor.closed = w.editor.closed
  BY <1>1 DEF FollowQueued, SameEditor
<1>5. Held(v)
  BY <1>0, <1>1, <1>4 DEF Held, FollowsOn
<1>6. Drag(v)
  <2>1. w.editor.closed \/ w.session.drag = Nothing
    BY <1>0, Still
  <2> QED
    BY <1>0, <1>3, <1>4, <2>1 DEF Drag, Loose
<1> QED
  BY <1>1, <1>3, <1>5, <1>6, QuietIsFine DEF v, Good, Core

\* A click on what the gate admits leaves FreeCAD a selection it may have.
LEMMA ClickedFacts ==
    ASSUME NEW w, MayBePicked(w, w.picked), NEW e \in Entries, NEW adding \in BOOLEAN,
           InDocument(w, e.name), e.name \in BoardIds(w.session.unit) \cup {Aside}
    PROVE  MayBePicked(w, Clicked(w.picked, e, adding))
<1> DEFINE s == w.picked
           v == Clicked(s, e, adding)
<1>1. s \in Seq(Entries) /\ IsInjective(s)
  BY DEF MayBePicked
<1>2. CASE ~adding
  <2>1. v = <<e>>
    BY <1>2 DEF Clicked
  <2>2. <<e>> \in Seq(Entries) /\ IsInjective(<<e>>) /\ ToSet(<<e>>) = {e}
    BY DEF IsInjective, ToSet
  <2> HIDE DEF v
  <2>3. MayBePicked(w, v)
    BY <2>1, <2>2 DEF MayBePicked
  <2> QED
    BY <2>3 DEF v
<1>3. CASE adding /\ e \in ToSet(s)
  <2>1. v = Within(s, ToSet(s) \ {e})
    BY <1>3 DEF Clicked
  <2>2. PICK T : T = ToSet(s) \ {e}
    OBVIOUS
  <2> HIDE DEF v, s
  <2>3. v \in Seq(Entries) /\ IsInjective(v) /\ ToSet(v) \subseteq ToSet(s)
    BY <1>1, <2>1, <2>2, WithinFacts
  <2>4. MayBePicked(w, v)
    BY <2>3 DEF MayBePicked, s
  <2> QED
    BY <2>4 DEF v, s
<1>4. CASE adding /\ e \notin ToSet(s)
  <2>1. v = Append(s, e)
    BY <1>4 DEF Clicked
  <2> HIDE DEF v, s
  <2>2. ToSet(v) = ToSet(s) \cup {e}
    BY <1>1, <2>1, AppendIsSeq DEF IsSeq
  <2>3. v \in Seq(Entries) /\ DOMAIN v = 1 .. Len(s) + 1 /\ DOMAIN s = 1 .. Len(s)
        /\ Len(s) \in Nat
        /\ v[Len(s) + 1] = e /\ \A k \in 1 .. Len(s) : v[k] = s[k]
    BY <1>1, <2>1
  <2>4. \A k \in 1 .. Len(s) : s[k] # e
    BY <1>4, <2>3 DEF ToSet
  <2>5. IsInjective(v)
    <3>1. \A i, j \in 1 .. Len(s) : s[i] = s[j] => i = j
      BY <1>1, <2>3 DEF IsInjective
    <3>2. ASSUME NEW i \in 1 .. Len(s) + 1, NEW j \in 1 .. Len(s) + 1, v[i] = v[j]
          PROVE  i = j
      BY <2>3, <2>4, <3>1, <3>2
    <3> QED
      BY <2>3, <3>2 DEF IsInjective
  <2>6. MayBePicked(w, v)
    BY <2>2, <2>3, <2>5 DEF MayBePicked, s
  <2> QED
    BY <2>6 DEF v, s
<1> QED
  BY <1>2, <1>3, <1>4

\* A job of the user's own, which no drag is on to see.
LEMMA QueueGood ==
    ASSUME NEW w, Good(w), NEW job, job.kind \in Kinds \ {"follow"},
           job.kind = "open" => job.id \in Ids,
           job.kind \in {"open", "click"} => w.editor.closed \/ ~w.editor.dragging
    PROVE  LET v == Queue(w, job)
           IN  /\ Fine(w, v) /\ v.session = w.session /\ v.document = w.document
               /\ v.picked = w.picked /\ v.editor = w.editor
<1> DEFINE v == Queue(w, job)
<1>0. Base(w) /\ Held(w) /\ Drag(w) /\ Shown(w) /\ Current(w)
  BY GoodParts
<1>1. /\ Base(v)
      /\ v.session = w.session /\ v.document = w.document /\ v.picked = w.picked
      /\ v.editor = w.editor
      /\ Held(v) /\ Shown(v) /\ Current(v)
      /\ HandsFree(w) /\ (w.editor.dragging => job.kind \notin {"open", "click"})
            => HandsFree(v)
      /\ DragHolds(w) /\ job.kind # "follow" => DragHolds(v)
  BY <1>0, QueueFacts
<1> HIDE DEF v
<1>2. Drag(v)
  BY <1>0, <1>1 DEF Drag
<1> QED
  BY <1>1, <1>2, QuietIsFine DEF v, Good, Core

\* A click queues the editor's, and then changes FreeCAD's selection.
LEMMA ClickAtFacts ==
    ASSUME NEW w, Good(w), w.editor.closed \/ ~w.editor.dragging, NEW at, NEW adding,
           NEW entries, MayBePicked(w, entries)
    PROVE  Fine(w, Pick(Queue(w, [kind |-> "click", at |-> at, adding |-> adding]), entries))
<1> DEFINE job == [kind |-> "click", at |-> at, adding |-> adding]
           x == Queue(w, job)
           v == Pick(x, entries)
<1>1. job.kind = "click"
  OBVIOUS
<1> HIDE DEF job
<1>2. /\ Fine(w, x) /\ x.session = w.session /\ x.document = w.document
      /\ x.picked = w.picked /\ x.editor = w.editor
  BY <1>1, QueueGood DEF Kinds
<1> HIDE DEF x
<1>3. MayBePicked(x, entries)
  BY <1>2 DEF MayBePicked, InDocument
<1>4. Fine(x, v)
  BY <1>2, <1>3, PickGood DEF Fine
<1> HIDE DEF v
<1>5. Fine(w, v)
  BY <1>2, <1>4, FineFrom
<1> QED
  BY <1>5 DEF v, x, job

\* What Undo gives back is in the row's history, and so is all that is left.
LEMMA UndoneRow ==
    ASSUME NEW w, Rows(w), w.document.past # << >>
    PROVE  LET past == w.document.past
           IN  /\ IsSeq(Front(past)) /\ ToSet(Front(past)) \subseteq ToSet(past)
               /\ Last(past) \in ToSet(past)
<1>1. PICK S : w.document.past \in Seq(S)
  BY DEF Rows, IsSeq
<1>2. PICK past : past = w.document.past
  OBVIOUS
<1>3. past \in Seq(S) /\ Len(past) \in Nat /\ Len(past) >= 1 /\ DOMAIN past = 1 .. Len(past)
  BY <1>1, <1>2
<1> DEFINE front == SubSeq(past, 1, Len(past) - 1)
<1>4. /\ front \in Seq(S) /\ DOMAIN front = 1 .. Len(past) - 1
      /\ \A k \in 1 .. Len(past) - 1 : front[k] = past[k]
  BY <1>3
<1>5. front = Front(past) /\ Last(past) = past[Len(past)]
  BY DEF Front, Last
<1> HIDE DEF front
<1>6. ToSet(front) \subseteq ToSet(past)
  BY <1>3, <1>4 DEF ToSet
<1>7. Last(past) \in ToSet(past)
  BY <1>3, <1>5 DEF ToSet
<1> QED
  BY <1>2, <1>4, <1>5, <1>6, <1>7 DEF IsSeq

\* The world right after an Undo, before anything is read back.
Undone(w) ==
    Rewrite([w EXCEPT !.document.past = Front(@), !.document.pending = TRUE,
                      !.session.drag = Nothing], Last(w.document.past))

\* An Undo changes the document, and leaves the session to be read back.
LEMMA UndoneFacts ==
    ASSUME NEW w, Good(w), w.document.past # << >>
    PROVE  Fine(w, Undone(w))
<1> DEFINE past == w.document.past
           x == [w EXCEPT !.document.past = Front(@), !.document.pending = TRUE,
                          !.session.drag = Nothing]
           v == Undone(w)
<1>0. /\ Base(w) /\ Shaped(w) /\ Flagged(w) /\ Rows(w) /\ Selection(w)
      /\ Waiting(w) /\ Attributes(w) /\ Picks(w)
      /\ Held(w) /\ Drag(w) /\ Shown(w) /\ Current(w)
  BY GoodParts
<1>1. /\ IsSeq(Front(past)) /\ ToSet(Front(past)) \subseteq ToSet(past)
      /\ Last(past) \in ToSet(past)
  BY <1>0, UndoneRow
<1>2. v = Rewrite(x, Last(past))
  BY DEF Undone
<1>3. /\ DOMAIN x = DOMAIN w /\ DOMAIN x.document = DOMAIN w.document
      /\ DOMAIN x.session = DOMAIN w.session
      /\ x.document.past = Front(past) /\ x.document.pending /\ x.session.drag = Nothing
      /\ x.session.unit = w.session.unit /\ x.session.selection = w.session.selection
      /\ x.session.edits = w.session.edits
      /\ x.picked = w.picked /\ x.jobs = w.jobs /\ x.editor = w.editor /\ x.view = w.view
  <2>1. PICK pending : pending = TRUE
    OBVIOUS
  <2>2. PICK d : d = [w.document EXCEPT !.past = Front(past), !.pending = pending]
    OBVIOUS
  <2>3. PICK s : s = [w.session EXCEPT !.drag = Nothing]
    OBVIOUS
  <2>4. x = [w EXCEPT !.document = d, !.session = s]
    BY <1>0, <2>1, <2>2, <2>3 DEF Shaped
  <2> HIDE DEF x
  <2>5. /\ x.document = d /\ x.session = s /\ DOMAIN x = DOMAIN w
        /\ x.picked = w.picked /\ x.jobs = w.jobs /\ x.editor = w.editor /\ x.view = w.view
    BY <1>0, <2>4 DEF Shaped
  <2>6. /\ DOMAIN d = DOMAIN w.document /\ d.past = Front(past) /\ d.pending
    BY <1>0, <2>1, <2>2 DEF Shaped
  <2>7. /\ DOMAIN s = DOMAIN w.session /\ s.drag = Nothing /\ s.unit = w.session.unit
        /\ s.selection = w.session.selection /\ s.edits = w.session.edits
    BY <1>0, <2>3 DEF Shaped
  <2> QED
    BY <2>5, <2>6, <2>7
<1> HIDE DEF x, v, past
<1>4. Shaped(x) /\ Flagged(x)
  BY <1>0, <1>3 DEF Shaped, Flagged, HasJob
<1>5. /\ FollowQueued(x, v) /\ v.session = x.session
      /\ v.document = [x.document EXCEPT !.row = Last(past)]
      /\ v.picked = Present(v, x.picked)
      /\ \/ v.picked = x.picked /\ v.jobs = x.jobs
            /\ v.editor.followQueued = x.editor.followQueued
         \/ x.editor.closed \/ HasJob(v, "follow")
  BY <1>2, <1>4, RewriteFacts
<1>6. /\ v.document.row = Last(past) /\ v.document.past = Front(past) /\ v.document.pending
      /\ DOMAIN v.document = DOMAIN x.document
  BY <1>4, <1>5, <1>3 DEF Shaped
<1>7. DOMAIN v = DOMAIN x /\ v.view = x.view /\ SameEditor(x, v) /\ IsSeq(v.jobs)
  BY <1>5 DEF FollowQueued
<1>8. Shaped(v)
  BY <1>3, <1>4, <1>5, <1>6, <1>7 DEF Shaped, SameEditor
<1>9. \A j \in ToSet(v.jobs) : j \in ToSet(w.jobs) \/ j.kind = "follow"
  BY <1>3, <1>5 DEF FollowQueued, Job
<1>10. \A kind : HasJob(w, kind) => HasJob(v, kind)
  BY <1>3, <1>5 DEF FollowQueued, HasJob
<1>11. \A kind : HasJob(v, kind) => kind = "follow" \/ HasJob(w, kind)
  BY <1>9 DEF HasJob
<1>12. Flagged(v)
  BY <1>0, <1>3, <1>5, <1>10 DEF Flagged, FollowQueued, SameEditor
<1>13. Rows(v)
  BY <1>0, <1>1, <1>3, <1>5, <1>6 DEF Rows, past
<1>14. Selection(v)
  BY <1>0, <1>3, <1>5 DEF Selection
<1>15. Waiting(v)
  <2>1. \A j \in ToSet(v.jobs) : j \in ToSet(w.jobs) \/ (j.kind \in Kinds /\ j.kind # "open")
    BY <1>9 DEF Kinds
  <2> QED
    BY <1>0, <2>1 DEF Waiting
<1>16. Attributes(v)
  BY <1>0, <1>3, <1>5, <1>7 DEF Attributes, SameEditor
<1>17. Picks(v)
  <2>1. w.picked \in Seq(Entries) /\ IsInjective(w.picked)
    BY <1>0 DEF Picks, Entries
  <2>2. PICK s : s = w.picked
    OBVIOUS
  <2>3. PICK now : now = Present(v, s)
    OBVIOUS
  <2>4. /\ now \in Seq(Entries) /\ IsInjective(now)
        /\ \A e \in ToSet(now) : e \in ToSet(s) /\ InDocument(v, e.name)
    BY <2>1, <2>2, <2>3, PresentFacts
  <2>5. v.picked = now
    BY <1>3, <1>5, <2>2, <2>3
  <2>6. \A e \in ToSet(s) : e.name \in BoardIds(w.session.unit) \cup {Aside}
    BY <1>0, <2>2 DEF Picks
  <2> QED
    BY <1>3, <1>5, <2>4, <2>5, <2>6 DEF Picks, Entries
<1>18. /\ ArrowFor(v) = ArrowFor(w) /\ HeldFor(v) = HeldFor(w) /\ BarFor(v) = BarFor(w)
       /\ SelectedBoards(v) = SelectedBoards(w)
  BY <1>3, <1>5, DrawnForSession
<1>19. Held(v)
  <2>1. w.editor.closed \/ HasJob(v, "follow") \/ v.picked = w.picked
    BY <1>3, <1>5
  <2>2. v.picked = w.picked /\ FollowsOn(w) => FollowsOn(v)
    BY <1>10 DEF FollowsOn
  <2>3. HasJob(v, "follow") => FollowsOn(v)
    BY DEF FollowsOn
  <2>4. v.editor.closed = w.editor.closed
    BY <1>3, <1>7 DEF SameEditor
  <2> QED
    BY <1>0, <1>18, <2>1, <2>2, <2>3, <2>4 DEF Held
<1>20. Drag(v)
  BY <1>0, <1>3, <1>5, <1>7, <1>11 DEF Drag, HandsFree, DragHolds, SameEditor
<1>21. Shown(v)
  BY <1>0, <1>3, <1>5, <1>7 DEF Shown, SameEditor
<1>22. Current(v)
  BY <1>0, <1>3, <1>5, <1>7, <1>18 DEF Current, SameEditor
<1>23. Good(v)
  BY <1>8, <1>12, <1>13, <1>14, <1>15, <1>16, <1>17, <1>19, <1>20, <1>21, <1>22
     DEF Good, Core, Base
<1>24. v.session.edits = w.session.edits
  BY <1>3, <1>5
<1> QED
  BY <1>23, <1>24, QuietIsFine DEF v

\* Only what the view is told of changes: its side, or that it is gone.
LEMMA ViewOnly ==
    ASSUME NEW w, NEW v, Base(w), DOMAIN v = DOMAIN w,
           v.session = w.session, v.document = w.document, v.picked = w.picked,
           v.jobs = w.jobs, v.editor = w.editor, DOMAIN v.view = DOMAIN w.view
    PROVE  /\ Base(v)
           /\ Held(w) => Held(v)
           /\ Drag(w) => Drag(v)
           /\ Shown(w) => Shown(v)
           /\ ArrowFor(v) = ArrowFor(w) /\ HeldFor(v) = HeldFor(w) /\ BarFor(v) = BarFor(w)
<1>1. Shaped(w) /\ Flagged(w) /\ Rows(w) /\ Selection(w) /\ Waiting(w) /\ Attributes(w) /\ Picks(w)
  BY DEF Base
<1>2. Shaped(v) /\ Flagged(v)
  BY <1>1 DEF Shaped, Flagged, HasJob
<1>3. Rows(v) /\ Selection(v) /\ Attributes(v)
  BY <1>1 DEF Rows, Selection, Attributes
<1>4. Picks(v) /\ Waiting(v)
  BY <1>1 DEF Picks, InDocument, Waiting
<1>5. ArrowFor(v) = ArrowFor(w) /\ HeldFor(v) = HeldFor(w) /\ BarFor(v) = BarFor(w)
      /\ SelectedBoards(v) = SelectedBoards(w)
  BY DrawnForSession
<1>6. Held(w) => Held(v)
  BY <1>5 DEF Held, FollowsOn, HasJob
<1>7. Drag(w) => Drag(v)
  BY DEF Drag, HandsFree, DragHolds, Loose, HasJob
<1>8. Shown(w) => Shown(v)
  BY DEF Shown
<1> QED
  BY <1>2, <1>3, <1>4, <1>5, <1>6, <1>7, <1>8 DEF Base

\* The window's end leaves the editor to find out by itself.
LEMMA CloseViewFacts ==
    ASSUME NEW w, Good(w)
    PROVE  Fine(w, [w EXCEPT !.view.gone = TRUE])
<1> DEFINE v == [w EXCEPT !.view.gone = TRUE]
<1>0. Base(w) /\ Held(w) /\ Drag(w) /\ Shown(w) /\ Shaped(w)
  BY GoodParts
<1>1. /\ DOMAIN v = DOMAIN w /\ DOMAIN v.view = DOMAIN w.view /\ v.view.gone
      /\ v.session = w.session /\ v.document = w.document /\ v.picked = w.picked
      /\ v.jobs = w.jobs /\ v.editor = w.editor
  BY <1>0 DEF Shaped
<1> HIDE DEF v
<1>2. Base(v) /\ Held(v) /\ Drag(v) /\ Shown(v)
  BY <1>0, <1>1, ViewOnly
<1>3. Current(v)
  BY <1>1 DEF Current
<1> QED
  BY <1>1, <1>2, <1>3, QuietIsFine DEF v, Good, Core

\* The camera turned to the other side, which is drawn on the next pass.
LEMMA CameraMovedFacts ==
    ASSUME NEW w, Good(w), NEW side
    PROVE  Fine(w, CameraMoved([w EXCEPT !.view.side = side]))
<1> DEFINE x == [w EXCEPT !.view.side = side]
           y == [x EXCEPT !.editor.sideQueued = TRUE]
           v == CameraMoved(x)
<1>0. Base(w) /\ Held(w) /\ Drag(w) /\ Shown(w) /\ Current(w) /\ Shaped(w)
  BY GoodParts
<1>1. /\ DOMAIN x = DOMAIN w /\ DOMAIN x.view = DOMAIN w.view
      /\ x.view.gone = w.view.gone /\ x.view.side = side
      /\ x.session = w.session /\ x.document = w.document /\ x.picked = w.picked
      /\ x.jobs = w.jobs /\ x.editor = w.editor
  BY <1>0 DEF Shaped
<1> HIDE DEF x
<1>2. /\ Base(x) /\ Held(x) /\ Drag(x) /\ Shown(x)
      /\ ArrowFor(x) = ArrowFor(w) /\ HeldFor(x) = HeldFor(w) /\ BarFor(x) = BarFor(w)
  BY <1>0, <1>1, ViewOnly
<1>3. CASE \/ x.editor.closed \/ x.editor.dragging \/ x.editor.sideQueued
           \/ x.view.side = x.editor.drawn.side
  <2>1. v = x
    BY <1>3 DEF CameraMoved
  <2>2. Current(x)
    BY <1>0, <1>1, <1>2, <1>3 DEF Current
  <2> QED
    BY <1>1, <1>2, <2>1, <2>2, QuietIsFine DEF Good, Core, x
<1>4. CASE ~(\/ x.editor.closed \/ x.editor.dragging \/ x.editor.sideQueued
             \/ x.view.side = x.editor.drawn.side)
  <2>1. v = Queue(y, Job("side"))
    BY <1>4 DEF CameraMoved
  <2>2. Shaped(x) /\ Flagged(x) /\ Rows(x) /\ Selection(x) /\ Waiting(x) /\ Attributes(x)
        /\ Picks(x)
    BY <1>2 DEF Base
  <2>3. /\ v.session = x.session /\ v.document = x.document /\ v.picked = x.picked
        /\ v.view = x.view /\ v.jobs = Append(x.jobs, Job("side")) /\ DOMAIN v = DOMAIN x
        /\ DOMAIN v.editor = DOMAIN x.editor
        /\ v.editor.closed = x.editor.closed /\ v.editor.field = x.editor.field
        /\ v.editor.focus = x.editor.focus /\ v.editor.drawn = x.editor.drawn
        /\ v.editor.boards = x.editor.boards /\ v.editor.arrow = x.editor.arrow
        /\ v.editor.held = x.editor.held /\ v.editor.bar = x.editor.bar
        /\ v.editor.dragging = x.editor.dragging
        /\ v.editor.followQueued = x.editor.followQueued
        /\ v.editor.refreshQueued = x.editor.refreshQueued
        /\ v.editor.sideQueued
    BY <2>1, <2>2 DEF Queue, Shaped
  <2> HIDE DEF y, v
  <2>4. IsSeq(v.jobs) /\ ToSet(v.jobs) = ToSet(x.jobs) \cup {Job("side")}
    BY <2>2, <2>3, AppendIsSeq DEF Shaped
  <2>5. \A kind : HasJob(v, kind) <=> HasJob(x, kind) \/ kind = "side"
    <3>1. PICK job : job = Job("side")
      OBVIOUS
    <3>2. job.kind = "side"
      BY <3>1 DEF Job
    <3> QED
      BY <2>4, <3>1, <3>2, Zenon DEF HasJob
  <2>6. Shaped(v)
    BY <2>2, <2>3, <2>4 DEF Shaped
  <2>7. Flagged(v)
    BY <2>2, <2>3, <2>5 DEF Flagged
  <2>8. Rows(v) /\ Selection(v) /\ Attributes(v)
    BY <2>2, <2>3 DEF Rows, Selection, Attributes
  <2>9. Picks(v)
    BY <2>2, <2>3 DEF Picks, InDocument
  <2>10. Waiting(v)
    BY <2>2, <2>4 DEF Waiting, Kinds, Job
  <2>11. /\ ArrowFor(v) = ArrowFor(x) /\ HeldFor(v) = HeldFor(x) /\ BarFor(v) = BarFor(x)
         /\ SelectedBoards(v) = SelectedBoards(x)
    BY <2>3, DrawnForSession
  <2>12. Held(v)
    BY <1>2, <2>3, <2>5, <2>11 DEF Held, FollowsOn
  <2>13. Drag(v)
    BY <1>2, <2>3, <2>5 DEF Drag, HandsFree, DragHolds, Loose
  <2>14. Shown(v)
    BY <1>2, <2>3 DEF Shown
  <2>15. Current(v)
    BY <1>0, <1>1, <1>2, <2>3, <2>11 DEF Current
  <2>16. Good(v)
    BY <2>6, <2>7, <2>8, <2>9, <2>10, <2>12, <2>13, <2>14, <2>15 DEF Good, Core, Base
  <2> QED
    BY <1>1, <2>3, <2>16, QuietIsFine DEF v, x
<1> QED
  BY <1>3, <1>4

\* The panel's end closes the editor, and the session with it.
LEMMA ClosePanelFacts ==
    ASSUME NEW w, Good(w)
    PROVE  Fine(w, [Close(w) EXCEPT !.session.open = FALSE, !.session.drag = Nothing])
<1> DEFINE x == Close(w)
           v == [x EXCEPT !.session.open = FALSE, !.session.drag = Nothing]
<1>1. Good(x) /\ x.editor.closed /\ x.session = w.session
  BY GoodParts, CloseFacts
<1> HIDE DEF x
<1>2. Base(x) /\ Shaped(x)
  BY <1>1, GoodParts
<1>3. DragOnly(x, v) /\ v.session.drag = Nothing /\ v.editor = x.editor
  BY <1>2 DEF DragOnly, Shaped
<1> HIDE DEF v
<1>4. Base(v)
  BY <1>2, <1>3, DragOnlyFacts
<1>5. Held(v) /\ Drag(v) /\ Shown(v) /\ Current(v)
  BY <1>1, <1>3 DEF Held, Drag, Shown, Current
<1>6. v.session.edits = w.session.edits
  BY <1>1, <1>3 DEF DragOnly
<1> QED
  BY <1>4, <1>5, <1>6, QuietIsFine DEF v, x, Good, Core

\* A row of the panel's stock list.
LEMMA SelectStockFacts ==
    ASSUME NEW w, Good(w), w.editor.closed \/ ~w.editor.dragging
    PROVE  Fine(w, SelectBoards(w, Append(w.session.unit.boards, Shell)))
<1> DEFINE bs == w.session.unit.boards
           s == Append(bs, Shell)
           v == SelectBoards(w, s)
<1>0. Base(w) /\ Core(w)
  BY GoodParts
<1>1. CASE w.editor.closed
  <2>1. v = w
    BY <1>1 DEF SelectBoards
  <2> QED
    BY <2>1, QuietIsFine
<1>2. CASE ~w.editor.closed
  <2>1. v = Refresh(SelectInFreeCAD(Selecting(w, s), s))
    BY <1>2 DEF SelectBoards, Selecting
  <2>2. bs \in Seq(Boards) /\ IsInjective(bs)
    BY <1>0, UnitFacts DEF UnitOK, RowLike
  <2>3. Shell \notin Boards
    BY NamesAssumption
  <2>4. BoardIds(w.session.unit) = ToSet(bs) \cup {Shell}
    BY DEF BoardIds
  <2> HIDE DEF bs, v
  <2>5. Len(bs) \in Nat /\ DOMAIN bs = 1 .. Len(bs) /\ \A k \in 1 .. Len(bs) : bs[k] \in Boards
    BY <2>2, LenProperties, ElementOfSeq
  <2>6. /\ s \in Seq(BoardNames) /\ DOMAIN s = 1 .. Len(bs) + 1 /\ Len(s) = Len(bs) + 1
        /\ s[Len(bs) + 1] = Shell
        /\ \A k \in 1 .. Len(bs) : s[k] = bs[k]
    <3>1. bs \in Seq(BoardNames)
      BY <2>2 DEF BoardNames
    <3>2. Shell \in BoardNames
      BY DEF BoardNames
    <3> QED
      BY <3>1, <3>2
  <2>7. ToSet(s) = ToSet(bs) \cup {Shell}
    BY <2>2, AppendIsSeq DEF IsSeq
  <2> HIDE DEF s
  <2>8. IsInjective(s)
    <3>1. \A i, j \in 1 .. Len(bs) : bs[i] = bs[j] => i = j
      BY <2>2, <2>5 DEF IsInjective
    <3>2. ASSUME NEW i \in 1 .. Len(bs) + 1, NEW j \in 1 .. Len(bs) + 1, s[i] = s[j]
          PROVE  i = j
      BY <2>3, <2>5, <2>6, <3>1, <3>2
    <3> QED
      BY <2>6, <3>2 DEF IsInjective
  <2>9. s \in Seq(BoardIds(w.session.unit)) /\ s \in Seq(Ids \cup BoardNames)
    <3>1. \A k \in 1 .. Len(s) : s[k] \in BoardIds(w.session.unit)
      BY <2>4, <2>6, <2>7 DEF ToSet
    <3>2. \A k \in 1 .. Len(s) : s[k] \in Ids \cup BoardNames
      BY <2>6, ElementOfSeq
    <3>3. s = [k \in 1 .. Len(s) |-> s[k]] /\ Len(s) \in Nat
      BY <2>6
    <3> QED
      BY <3>1, <3>2, <3>3
  <2>10. AtLarge(w)
    BY <1>0, AtLargeFacts
  <2>11. Good(v) /\ v.session = Selecting(w, s).session
    BY <1>0, <1>2, <2>1, <2>8, <2>9, <2>10, SelectBothFacts
  <2>12. v.session.edits = w.session.edits
    <3>1. Selecting(w, s).session.edits = w.session.edits
      BY <1>0 DEF Selecting, Base, Shaped
    <3> QED
      BY <2>11, <3>1
  <2> QED
    BY <2>11, <2>12, QuietIsFine DEF v, s, bs
<1> QED
  BY <1>1, <1>2

(***************************************************************************)
(* The specification.                                                      *)
(***************************************************************************)
\* Two worlds of the same parts.
SameWorld(v, x) ==
    /\ DOMAIN x = {"session", "document", "picked", "jobs", "editor", "view"}
    /\ x.session = v.session /\ x.document = v.document /\ x.picked = v.picked
    /\ x.jobs = v.jobs /\ x.editor = v.editor /\ x.view = v.view

\* Good tells worlds apart by their parts alone.
LEMMA SameWorldIsGood ==
    ASSUME NEW v, NEW x, Good(v), SameWorld(v, x)
    PROVE  Good(x)
<1>1. /\ Shaped(v) /\ Flagged(v) /\ Rows(v) /\ Selection(v)
      /\ Waiting(v) /\ Attributes(v) /\ Picks(v)
      /\ Held(v) /\ Drag(v) /\ Shown(v) /\ Current(v)
  BY GoodParts
<1>2. Shaped(x) /\ Flagged(x)
  BY <1>1 DEF Shaped, Flagged, HasJob, SameWorld
<1>3. Rows(x) /\ Selection(x) /\ Waiting(x)
  BY <1>1 DEF Rows, Selection, Waiting, SameWorld
<1>4. Attributes(x) /\ Picks(x)
  BY <1>1 DEF Attributes, Picks, InDocument, SameWorld
<1>5. /\ ArrowFor(x) = ArrowFor(v) /\ HeldFor(x) = HeldFor(v) /\ BarFor(x) = BarFor(v)
      /\ SelectedBoards(x) = SelectedBoards(v)
  BY DrawnForSession DEF SameWorld
<1>6. Held(x)
  BY <1>1, <1>5 DEF Held, FollowsOn, HasJob, SameWorld
<1>7. Drag(x)
  BY <1>1 DEF Drag, HandsFree, DragHolds, Loose, HasJob, SameWorld
<1>8. Shown(x)
  BY <1>1 DEF Shown, SameWorld
<1>9. Current(x)
  BY <1>1, <1>5 DEF Current, SameWorld
<1> QED
  BY <1>2, <1>3, <1>4, <1>6, <1>7, <1>8, <1>9 DEF Good, Core, Base

\* The invariant of the specification's variables.
Inv == Good(World)

\* The editor as __init__ leaves it is good.
LEMMA InitIsGood == Init => Inv
<1> SUFFICES ASSUME Init PROVE Good(World)
  BY DEF Inv
<1> DEFINE b == CHOOSE b \in Boards : TRUE
           row == [boards |-> <<b>>, locked |-> <<FALSE, FALSE>>, mm |-> <<0, 0>>]
           unit == [boards |-> row.boards, locked |-> row.locked, mm |-> row.mm, ids |-> <<1, 2>>]
           w == World
<1>1. b \in Boards
  BY NamesAssumption
<1>2. /\ w.session.unit = unit /\ w.session.selection = << >> /\ w.session.drag = Nothing
      /\ w.session.edits = 0
      /\ w.document = [row |-> row, past |-> << >>, pending |-> FALSE]
      /\ w.picked = << >> /\ w.jobs = << >>
      /\ w.editor = [NewEditor EXCEPT !.drawn.unit = unit, !.boards = BoardIds(unit)]
      /\ w.view = [side |-> "front", gone |-> FALSE]
      /\ DOMAIN w = {"session", "document", "picked", "jobs", "editor", "view"}
      /\ DOMAIN w.session = {"unit", "selection", "drag", "edits", "open"}
  BY DEF Init, World
<1> HIDE DEF b, w
<1>3. /\ unit.boards = <<b>> /\ unit.locked = <<FALSE, FALSE>> /\ unit.mm = <<0, 0>>
      /\ unit.ids = <<1, 2>> /\ DOMAIN unit = {"boards", "locked", "mm", "ids"}
      /\ Bare(unit) = row /\ Bare(row) = row
  BY DEF Bare
<1>4. row.boards = <<b>> /\ row.locked = <<FALSE, FALSE>> /\ row.mm = <<0, 0>>
  OBVIOUS
<1> HIDE DEF unit, row
<1>5. <<b>> \in Seq(Boards) /\ IsInjective(<<b>>) /\ Len(<<b>>) = 1 /\ ToSet(<<b>>) = {b}
  BY <1>1 DEF IsInjective, ToSet
<1>6. 1 < MaxOpenings
  BY BoundAssumption
<1>7. RowLike(unit, 0) /\ RowLike(row, 0)
  <2>1. <<FALSE, FALSE>> \in Seq(BOOLEAN) /\ Len(<<FALSE, FALSE>>) = 2
    OBVIOUS
  <2>2. <<0, 0>> \in Seq(0 .. 0) /\ Len(<<0, 0>>) = 2
    OBVIOUS
  <2> QED
    BY <1>3, <1>4, <1>5, <1>6, <2>1, <2>2 DEF RowLike
<1>8. UnitOK(unit, 0) /\ Stored(row, 0)
  <2>1. <<1, 2>> \in Seq(Ids) /\ Len(<<1, 2>>) = 2 /\ IsInjective(<<1, 2>>)
    BY DEF Ids, IsInjective
  <2> QED
    BY <1>3, <1>5, <1>7, <2>1 DEF UnitOK, Stored
<1>9. /\ ~w.editor.closed /\ w.editor.field = Nothing /\ ~w.editor.focus
      /\ w.editor.drawn.unit = unit /\ w.editor.drawn.side = "front"
      /\ w.editor.drawn.selection = << >>
      /\ w.editor.boards = BoardIds(unit) /\ w.editor.arrow = Nothing
      /\ w.editor.held = Nothing /\ w.editor.bar = FALSE /\ ~w.editor.dragging
      /\ ~w.editor.followQueued /\ ~w.editor.refreshQueued /\ ~w.editor.sideQueued
      /\ DOMAIN w.editor = {"closed", "field", "focus", "drawn", "boards", "arrow", "held", "bar",
                            "dragging", "followQueued", "refreshQueued", "sideQueued"}
  BY <1>2 DEF NewEditor
<1>10. \A S : << >> \in Seq(S)
  OBVIOUS
<1>11. ToSet(<< >>) = {} /\ IsInjective(<< >>)
  BY DEF ToSet, IsInjective
<1>12. Shaped(w) /\ Flagged(w)
  BY <1>2, <1>9, <1>10 DEF Shaped, Flagged, IsSeq
<1>13. Rows(w)
  BY <1>2, <1>3, <1>8, <1>10, <1>11 DEF Rows, IsSeq
<1>14. Selection(w) /\ Waiting(w) /\ Picks(w)
  BY <1>2, <1>10, <1>11 DEF Selection, Waiting, Picks
<1>15. Attributes(w)
  <2>1. BoardIds(unit) \subseteq BoardNames
    BY <1>1, <1>3, <1>5, SMTT(40) DEF BoardIds, BoardNames
  <2>2. unit.ids \in Seq(Ids)
    BY <1>8 DEF UnitOK
  <2> QED
    BY <1>2, <1>9, <2>1, <2>2 DEF Attributes
<1>16. SelectedId(w) = Nothing
  <2>1. Len(<< >>) # 1
    OBVIOUS
  <2> QED
    BY <1>2, <2>1 DEF SelectedId
<1>17. ArrowFor(w) = Nothing /\ HeldFor(w) = Nothing /\ BarFor(w) = FALSE
  <2>1. Nothing \notin ToSet(unit.boards)
    BY <1>1, <1>3, <1>5, NamesAssumption
  <2>2. Nothing \notin ToSet(unit.ids)
    <3>1. ToSet(unit.ids) \subseteq Ids
      BY <1>8, ToSetIsFinite DEF UnitOK
    <3> QED
      BY <3>1, NamesAreNoIds
  <2> QED
    BY <1>2, <1>16, <2>1, <2>2 DEF ArrowFor, HeldFor, BarFor, SelectedInner
<1>18. SelectedBoards(w) = << >>
  <2>1. Rows(w) /\ Selection(w) /\ ToSet(w.session.selection) \subseteq Ids
    BY <1>2, <1>11, <1>13, <1>14
  <2> QED
    BY <2>1, SelectedBoardsFacts
<1>19. Held(w) /\ Drag(w) /\ Shown(w)
  BY <1>2, <1>9, <1>18 DEF Held, Drag, HandsFree, DragHolds, Shown
<1>20. Current(w)
  <2>1. w.editor.drawn.side = w.view.side
    BY <1>2, <1>9
  <2>2. w.editor.drawn.unit = w.session.unit /\ w.editor.drawn.selection = w.session.selection
        /\ w.editor.boards = BoardIds(w.session.unit)
    BY <1>2, <1>9
  <2>3. w.editor.arrow = ArrowFor(w) /\ w.editor.held = HeldFor(w)
    BY <1>9, <1>17
  <2>4. w.editor.bar = BarFor(w)
    BY <1>9, <1>17, Zenon
  <2> QED
    BY <2>1, <2>2, <2>3, <2>4, Zenon DEF Current
<1> QED
  BY <1>12, <1>13, <1>14, <1>15, <1>19, <1>20 DEF w, Good, Core, Base

\* What every step does: the invariant stays, and a size lands where it was typed.
Sound ==
    /\ Inv'
    /\ \A k \in Places(session.unit') : Typed(k) => Landed(k)

\* World has the specification's variables as its parts.
LEMMA WorldParts ==
    /\ World.session = session /\ World.document = document /\ World.picked = picked
    /\ World.jobs = jobs /\ World.editor = editor /\ World.view = view
    /\ DOMAIN World = {"session", "document", "picked", "jobs", "editor", "view"}
BY DEF World

\* A step to a good world makes the variables its parts.
LEMMA Carried ==
    ASSUME NEW v, Good(v), Becomes(v)
    PROVE  /\ Inv'
           /\ session' = v.session /\ document' = v.document /\ picked' = v.picked
           /\ jobs' = v.jobs /\ editor' = v.editor /\ view' = v.view
<1>1. /\ session' = v.session /\ document' = v.document /\ picked' = v.picked
      /\ jobs' = v.jobs /\ editor' = v.editor /\ view' = v.view
  BY DEF Becomes
<1>2. PICK x : x = [session |-> session', document |-> document', picked |-> picked',
                    jobs |-> jobs', editor |-> editor', view |-> view']
  OBVIOUS
<1>3. SameWorld(v, x)
  BY <1>1, <1>2 DEF SameWorld
<1>4. Good(x)
  BY <1>3, SameWorldIsGood
<1>5. World' = x
  BY <1>2 DEF World
<1>6. Inv'
  BY <1>4, <1>5 DEF Inv
<1> QED
  BY <1>1, <1>6

\* A step that stamps no size is sound.
LEMMA FineIsSound ==
    ASSUME NEW v, Fine(World, v), Becomes(v)
    PROVE  Sound
<1>1. Good(v) /\ NoStamp(World, v.session.unit)
  BY DEF Fine
<1>2. Inv' /\ session' = v.session
  BY <1>1, Carried
<1>3. \A k \in Places(v.session.unit) : ~NewlySized(World, v, k)
  BY <1>1, StampOnly
<1>4. ASSUME NEW k \in Places(session.unit'), Typed(k)
      PROVE  FALSE
  <2>1. k \in Places(v.session.unit)
    BY <1>2
  <2>2. NewlySized(World, v, k)
    BY <1>2, <1>4, WorldParts DEF NewlySized, Typed
  <2> QED
    BY <1>3, <2>1, <2>2
<1> QED
  BY <1>2, <1>4 DEF Sound

\* A step of the field's: the size lands on the opening the field stands at.
LEMMA LandsIsSound ==
    ASSUME NEW v, Good(World), Good(v), Lands(World, v), Becomes(v), session.open
    PROVE  Sound
<1>1. Inv' /\ session' = v.session
  BY Carried
<1>2. Attributes(World)
  BY GoodParts
<1>3. ASSUME NEW k \in Places(session.unit'), Typed(k)
      PROVE  Landed(k)
  <2>1. k \in Places(v.session.unit)
    BY <1>1
  <2>2. NewlySized(World, v, k)
    BY <1>1, <1>3, WorldParts DEF NewlySized, Typed
  <2>3. /\ editor.field # Nothing
        /\ editor.field.text = "typed" /\ ~editor.field.applied
        /\ AtRegion(World, v, editor.field.region, k)
    BY <2>1, <2>2, WorldParts DEF Lands
  <2>4. ~editor.closed
    BY <1>2, <2>3, WorldParts DEF Attributes
  <2> QED
    BY <1>1, <2>3, <2>4, WorldParts DEF Landed, AtRegion
<1> QED
  BY <1>1, <1>3 DEF Sound

\* FreeCAD's selection is one it may be.
LEMMA PickedIsChoice ==
    ASSUME NEW w, Good(w)
    PROVE  MayBePicked(w, w.picked) /\ MayBePicked(w, << >>)
<1>1. Picks(w)
  BY GoodParts
<1>2. << >> \in Seq(Entries) /\ IsInjective(<< >>) /\ ToSet(<< >>) = {}
  BY DEF IsInjective, ToSet
<1> QED
  BY <1>1, <1>2 DEF Picks, MayBePicked, Entries

\* A hand on the drawing finds it open, current in its boards and undragged.
LEMMA PointerFacts ==
    ASSUME Inv, Pointer
    PROVE  /\ Good(World) /\ World.editor.closed = editor.closed /\ ~World.editor.closed
           /\ ~World.editor.dragging /\ ~World.view.gone
           /\ editor.boards = BoardIds(session.unit)
<1>1. Good(World)
  BY DEF Inv
<1>2. Shown(World)
  BY <1>1, GoodParts
<1> QED
  BY <1>1, <1>2, WorldParts DEF Pointer, Shown

\* A click on the view, whatever FreeCAD's selection makes of it.
LEMMA ClickAtIsSound ==
    ASSUME Inv, NEW at, NEW adding, NEW now, MayBePicked(World, now), ClickAt(at, adding, now)
    PROVE  Sound
<1>1. Good(World) /\ ~World.editor.dragging
  BY PointerFacts DEF ClickAt
<1>2. PICK v : v = Pick(Queue(World, [kind |-> "click", at |-> at, adding |-> adding]), now)
  OBVIOUS
<1>3. Fine(World, v)
  BY <1>1, <1>2, ClickAtFacts
<1>4. Becomes(v)
  BY <1>2 DEF ClickAt
<1> QED
  BY <1>3, <1>4, FineIsSound

\* A click on a board.
LEMMA ClickBoardIsSound ==
    ASSUME Inv, ClickBoard
    PROVE  Sound
<1>1. PICK b \in editor.boards, adding \in BOOLEAN :
        /\ InDocument(World, b)
        /\ ClickAt(b, adding, Clicked(picked, Entry(b, FALSE), adding))
  BY DEF ClickBoard
<1>2. Good(World) /\ editor.boards = BoardIds(session.unit)
  BY <1>1, PointerFacts DEF ClickAt
<1>3. b \in BoardIds(World.session.unit) /\ Entry(b, FALSE) \in Entries /\ Entry(b, FALSE).name = b
  <2>1. Rows(World) /\ Selection(World)
    BY <1>2, GoodParts
  <2>2. BoardIds(World.session.unit) \subseteq BoardNames
    BY <2>1, SelectedBoardsFacts
  <2> QED
    BY <1>1, <1>2, <2>2, WorldParts DEF Entry, Entries
<1>4. PICK e : e = Entry(b, FALSE)
  OBVIOUS
<1>5. PICK now : now = Clicked(picked, e, adding)
  OBVIOUS
<1>6. MayBePicked(World, now)
  <2>1. MayBePicked(World, World.picked)
    BY <1>2, PickedIsChoice
  <2>2. MayBePicked(World, Clicked(World.picked, e, adding))
    BY <1>1, <1>3, <1>4, <2>1, ClickedFacts
  <2> QED
    BY <1>5, <2>2, WorldParts
<1>7. ClickAt(b, adding, now)
  BY <1>1, <1>4, <1>5
<1> QED
  BY <1>6, <1>7, ClickAtIsSound

\* A click on an opening.
LEMMA ClickOpeningIsSound ==
    ASSUME Inv, ClickOpening
    PROVE  Sound
<1>1. PICK k \in Places(editor.drawn.unit), adding \in BOOLEAN :
        ClickAt(k, adding, IF adding THEN picked ELSE << >>)
  BY DEF ClickOpening
<1>2. Good(World)
  BY DEF Inv
<1>3. PICK now : now = IF adding THEN picked ELSE << >>
  OBVIOUS
<1>4. MayBePicked(World, now)
  BY <1>2, <1>3, PickedIsChoice, WorldParts
<1>5. ClickAt(k, adding, now)
  BY <1>1, <1>3
<1> QED
  BY <1>4, <1>5, ClickAtIsSound

\* What the scan set aside is in the document, and is no board of the unit.
LEMMA AsideIsChoice ==
    ASSUME NEW w, NEW whole \in BOOLEAN
    PROVE  /\ Entry(Aside, whole) \in Entries /\ Entry(Aside, whole).name = Aside
           /\ InDocument(w, Aside)
BY DEF Entry, Entries, InDocument

\* A click on what the scan set aside.
LEMMA ClickAsideIsSound ==
    ASSUME Inv, ClickAside
    PROVE  Sound
<1>1. PICK k \in Places(editor.drawn.unit), adding \in BOOLEAN :
        ClickAt(k, adding, Clicked(picked, Entry(Aside, FALSE), adding))
  BY DEF ClickAside
<1>2. Good(World)
  BY DEF Inv
<1>3. PICK e : e = Entry(Aside, FALSE)
  OBVIOUS
<1>4. e \in Entries /\ e.name = Aside /\ InDocument(World, e.name)
  BY <1>3, AsideIsChoice
<1>5. PICK now : now = Clicked(picked, e, adding)
  OBVIOUS
<1>6. MayBePicked(World, now)
  <2>1. MayBePicked(World, World.picked)
    BY <1>2, PickedIsChoice
  <2>2. MayBePicked(World, Clicked(World.picked, e, adding))
    BY <1>1, <1>4, <2>1, ClickedFacts
  <2> QED
    BY <1>5, <2>2, WorldParts
<1>7. ClickAt(k, adding, now)
  BY <1>1, <1>3, <1>5
<1> QED
  BY <1>6, <1>7, ClickAtIsSound

\* A press on a dimension, which queues its field.
LEMMA PressLabelIsSound ==
    ASSUME Inv, PressLabel
    PROVE  Sound
<1>1. PICK k \in Places(editor.drawn.unit) :
        /\ Pointer
        /\ Becomes(Queue(World, [kind |-> "open", id |-> editor.drawn.unit.ids[k]]))
  BY DEF PressLabel
<1>2. Good(World) /\ ~World.editor.dragging
  BY <1>1, PointerFacts
<1>3. editor.drawn.unit.ids[k] \in Ids
  <2>1. editor.drawn.unit.ids \in Seq(Ids)
    BY <1>2, GoodParts, WorldParts DEF Attributes
  <2> QED
    BY <1>1, <2>1 DEF Places
<1>4. PICK id \in Ids : id = editor.drawn.unit.ids[k]
  BY <1>3
<1>5. PICK job : job = [kind |-> "open", id |-> id]
  OBVIOUS
<1>6. job.kind = "open" /\ job.id = id
  BY <1>5
<1>7. PICK v : v = Queue(World, job)
  OBVIOUS
<1>8. Fine(World, v)
  BY <1>2, <1>4, <1>6, <1>7, QueueGood DEF Kinds
<1>9. Becomes(v)
  BY <1>1, <1>4, <1>5, <1>7
<1> QED
  BY <1>8, <1>9, FineIsSound

\* A press on a padlock: every lock it turns is of the opening the padlock stands
\* at, and was as the padlock shows.
LEMMA PressPadlockIsSound ==
    ASSUME Inv, NEW k, PressPadlock(k)
    PROVE  /\ Sound
           /\ \A l \in Places(session.unit') :
                 session.unit'.locked[l] # document.row.locked[l] =>
                    /\ Key(session.unit', l) = PadlockLabels(World)[k].key
                    /\ session.unit'.locked[l] # PadlockLabels(World)[k].locked
<1>1. Good(World) /\ ~World.editor.closed /\ ~World.editor.dragging
  BY PointerFacts DEF PressPadlock
<1>2. k \in DOMAIN PadlockLabels(World) /\ Becomes(ToggleLock(World, k))
  BY DEF PressPadlock
<1>3. PICK v : v = ToggleLock(World, k)
  OBVIOUS
<1>4. /\ Fine(World, v)
      /\ \A l \in Places(v.session.unit) :
            v.session.unit.locked[l] # World.document.row.locked[l] =>
               /\ Key(v.session.unit, l) = PadlockLabels(World)[k].key
               /\ v.session.unit.locked[l] # PadlockLabels(World)[k].locked
  BY <1>1, <1>2, <1>3, ToggleLockFacts
<1>5. Becomes(v)
  BY <1>2, <1>3
<1>6. Sound
  BY <1>4, <1>5, FineIsSound
<1>7. session' = v.session
  BY <1>4, <1>5, Carried DEF Fine
<1> QED
  BY <1>4, <1>6, <1>7, WorldParts

\* A press on the padlock of a held board.
LEMMA PressHeldIsSound ==
    ASSUME Inv, PressHeld
    PROVE  Sound
<1>1. Good(World) /\ ~World.editor.dragging
  BY PointerFacts DEF PressHeld
<1>2. PICK v : v = UnlockHeld(World)
  OBVIOUS
<1>3. Fine(World, v)
  BY <1>1, <1>2, UnlockHeldFacts
<1>4. Becomes(v)
  BY <1>2 DEF PressHeld
<1> QED
  BY <1>3, <1>4, FineIsSound

\* A press on an add button.
LEMMA PressAddIsSound ==
    ASSUME Inv, PressAdd
    PROVE  Sound
<1>1. Good(World) /\ ~World.editor.dragging
  BY PointerFacts DEF PressAdd
<1>2. PICK v : v = AddBoard(World)
  OBVIOUS
<1>3. Fine(World, v)
  BY <1>1, <1>2, AddBoardFacts
<1>4. Becomes(v)
  BY <1>2 DEF PressAdd
<1> QED
  BY <1>3, <1>4, FineIsSound

\* A drag, from its start to its end.
LEMMA DragIsSound ==
    ASSUME Inv, DragStart \/ DragMove \/ DragEnd
    PROVE  Sound
<1>0. Good(World)
  BY DEF Inv
<1>1. CASE DragStart
  <2>1. ~World.editor.dragging /\ ~World.view.gone
    BY <1>1, PointerFacts DEF DragStart
  <2>2. ~World.editor.focus
    BY <1>1, WorldParts DEF DragStart
  <2>3. /\ ~HasJob(World, "follow") /\ ~HasJob(World, "click") /\ ~HasJob(World, "open")
        /\ ~HasJob(World, "refresh")
    BY <1>1, WorldParts DEF DragStart, Unanswered, HasJob
  <2>4. PICK v : v = DragStarted(World)
    OBVIOUS
  <2>5. Fine(World, v)
    BY <1>0, <2>1, <2>2, <2>3, <2>4, DragStartedFacts
  <2>6. Becomes(v)
    BY <1>1, <2>4 DEF DragStart
  <2> QED
    BY <2>5, <2>6, FineIsSound
<1>2. CASE DragMove
  <2>1. ~World.editor.closed
    BY <1>2, WorldParts DEF DragMove, Dragging
  <2>2. PICK v : v = DragMoved(World)
    OBVIOUS
  <2>3. Fine(World, v)
    BY <1>0, <2>1, <2>2, DragMovedFacts
  <2>4. Becomes(v)
    BY <1>2, <2>2 DEF DragMove, Dragging
  <2> QED
    BY <2>3, <2>4, FineIsSound
<1>3. CASE DragEnd
  <2>1. PICK v : v = DragFinished(World)
    OBVIOUS
  <2>2. Fine(World, v)
    BY <1>0, <2>1, DragFinishedFacts
  <2>3. Becomes(v)
    BY <1>3, <2>1 DEF DragEnd, Dragging
  <2> QED
    BY <2>2, <2>3, FineIsSound
<1> QED
  BY <1>1, <1>2, <1>3

\* A choice in FreeCAD's tree.
LEMMA PickInTreeIsSound ==
    ASSUME Inv, PickInTree
    PROVE  Sound
<1>1. PICK name \in editor.boards \cup {Aside}, adding \in BOOLEAN :
        /\ ~editor.closed /\ ~editor.dragging /\ InDocument(World, name)
        /\ Becomes(Pick(World, Clicked(picked, Entry(name, TRUE), adding)))
  BY DEF PickInTree
<1>2. Good(World) /\ ~World.editor.dragging
  BY <1>1, WorldParts DEF Inv
<1>3. /\ name \in BoardIds(World.session.unit) \cup {Aside}
      /\ BoardIds(World.session.unit) \subseteq BoardNames
  <2>1. Rows(World) /\ Selection(World) /\ Shown(World)
    BY <1>2, GoodParts
  <2>2. BoardIds(World.session.unit) \subseteq BoardNames
    BY <2>1, SelectedBoardsFacts
  <2>3. editor.boards = BoardIds(World.session.unit)
    BY <1>1, <2>1, WorldParts DEF Shown
  <2> QED
    BY <1>1, <2>2, <2>3
<1>4. PICK e : e = Entry(name, TRUE)
  OBVIOUS
<1>5. e \in Entries /\ e.name = name
  BY <1>3, <1>4 DEF Entry, Entries
<1>6. PICK now : now = Clicked(picked, e, adding)
  OBVIOUS
<1>7. MayBePicked(World, now)
  <2>1. MayBePicked(World, World.picked)
    BY <1>2, PickedIsChoice
  <2>2. MayBePicked(World, Clicked(World.picked, e, adding))
    BY <1>1, <1>3, <1>5, <2>1, ClickedFacts
  <2> QED
    BY <1>6, <2>2, WorldParts
<1>8. PICK v : v = Pick(World, now)
  OBVIOUS
<1>9. Fine(World, v)
  BY <1>2, <1>7, <1>8, PickGood
<1>10. Becomes(v)
  BY <1>1, <1>4, <1>6, <1>8
<1> QED
  BY <1>9, <1>10, FineIsSound

\* The field's own changes, while the focus is in it or comes to it.
LEMMA FieldIsSound ==
    ASSUME Inv, FocusField \/ Type
    PROVE  Sound
<1>0. Good(World) /\ Base(World) /\ Held(World) /\ Drag(World) /\ Shown(World) /\ Current(World)
      /\ Attributes(World) /\ Shaped(World)
  BY GoodParts DEF Inv
<1>1. PICK e : /\ editor' = e /\ DOMAIN e = DOMAIN editor
               /\ e.focus
               /\ e.field \in Fields /\ ~e.closed
               /\ ~editor.dragging \/ editor.focus
               /\ e.closed = editor.closed /\ e.drawn = editor.drawn
               /\ e.boards = editor.boards /\ e.arrow = editor.arrow
               /\ e.held = editor.held /\ e.bar = editor.bar
               /\ e.dragging = editor.dragging
               /\ e.followQueued = editor.followQueued
               /\ e.refreshQueued = editor.refreshQueued
               /\ e.sideQueued = editor.sideQueued
  <2>0. /\ editor.field # Nothing => editor.field \in Fields /\ ~editor.closed
        /\ editor.focus => editor.field # Nothing
        /\ DOMAIN editor = {"closed", "field", "focus", "drawn", "boards", "arrow", "held", "bar",
                          "dragging", "followQueued", "refreshQueued", "sideQueued"}
    BY <1>0, WorldParts DEF Attributes, Shaped
  <2>1. CASE FocusField
    <3>1. /\ editor.field \in Fields /\ ~editor.closed /\ ~editor.dragging
          /\ editor' = [editor EXCEPT !.focus = TRUE]
      BY <2>0, <2>1 DEF FocusField, Pointer
    <3>2. PICK focus : focus = TRUE
      OBVIOUS
    <3>3. PICK e : e = [editor EXCEPT !.focus = focus]
      OBVIOUS
    <3> QED
      BY <2>0, <3>1, <3>2, <3>3
  <2>2. CASE Type
    <3>1. PICK text \in {"typed", "unreadable"} :
            editor.focus /\ editor' = [editor EXCEPT !.field.text = text]
      BY <2>2 DEF Type
    <3>2. editor.field \in Fields /\ ~editor.closed
      BY <2>0, <3>1
    <3>3. PICK field : field = [editor.field EXCEPT !.text = text]
      OBVIOUS
    <3>4. field \in Fields
      BY <3>2, <3>3 DEF Fields
    <3>5. PICK e : e = [editor EXCEPT !.field = field]
      OBVIOUS
    <3>6. editor' = e
      BY <3>1, <3>3, <3>5
    <3> QED
      BY <2>0, <3>1, <3>2, <3>4, <3>5, <3>6
  <2> QED
    BY <2>1, <2>2
<1>2. PICK v : v = [World EXCEPT !.editor = e]
  OBVIOUS
<1>3. FieldOnly(World, v) /\ v.editor = e
  BY <1>1, <1>2, WorldParts DEF FieldOnly
<1>4. Base(v) /\ Held(v) /\ Drag(v) /\ Shown(v) /\ Current(v)
  <2>1. v.editor.focus => World.editor.closed \/ ~World.editor.dragging \/ World.editor.focus
    BY <1>1, WorldParts
  <2>2. v.editor.field # Nothing => v.editor.field \in Fields /\ ~v.editor.closed
    BY <1>1, <1>3
  <2>3. v.editor.focus => v.editor.field # Nothing
    BY <1>1, <1>3, FieldIsSomething
  <2> QED
    BY <1>0, <1>3, <2>1, <2>2, <2>3, FieldOnlyFacts
<1>5. Good(v)
  BY <1>4 DEF Good, Core
<1>6. Fine(World, v)
  BY <1>3, <1>5, QuietIsFine DEF FieldOnly
<1>7. Becomes(v)
  <2>1. UNCHANGED <<session, document, picked, jobs, view>>
    BY DEF FocusField, Type
  <2> QED
    BY <1>1, <1>3, <2>1, WorldParts DEF Becomes, FieldOnly
<1> QED
  BY <1>6, <1>7, FineIsSound

\* What the field gives is applied, by Return or as the focus leaves it.
LEMMA FieldGivesIsSound ==
    ASSUME Inv, Return \/ FocusOut
    PROVE  Sound
<1>0. Good(World) /\ Drag(World) /\ session.open
  BY GoodParts DEF Inv, Return, FocusOut
<1>1. CASE Return
  <2>1. World.editor.closed \/ ~World.editor.dragging
    BY <1>0, <1>1, WorldParts DEF Return, Drag, HandsFree
  <2>2. PICK v : v = Finish(World)
    OBVIOUS
  <2>3. Good(v) /\ Lands(World, v)
    BY <1>0, <2>1, <2>2, FinishFacts
  <2>4. Becomes(v)
    BY <1>1, <2>2 DEF Return
  <2> QED
    BY <1>0, <2>3, <2>4, LandsIsSound
<1>2. CASE FocusOut
  <2>1. PICK v : v = LeaveField(World)
    OBVIOUS
  <2>2. Good(v) /\ Lands(World, v)
    BY <1>0, <2>1, LeaveFieldFacts
  <2>3. Becomes(v)
    BY <1>2, <2>1 DEF FocusOut
  <2> QED
    BY <1>0, <2>2, <2>3, LandsIsSound
<1> QED
  BY <1>1, <1>2

\* The Escape key in the field, the Delete key on the view.
LEMMA KeysAreSound ==
    ASSUME Inv, Escape \/ DeleteKey
    PROVE  Sound
<1>1. PICK kind \in {"closeField", "delete"} : Becomes(Queue(World, Job(kind)))
  BY DEF Escape, DeleteKey
<1>2. Good(World)
  BY DEF Inv
<1>3. PICK job : job = Job(kind)
  OBVIOUS
<1>4. job.kind = kind
  BY <1>3 DEF Job
<1>5. PICK v : v = Queue(World, job)
  OBVIOUS
<1>6. Fine(World, v)
  BY <1>2, <1>4, <1>5, QueueGood DEF Kinds
<1>7. Becomes(v)
  BY <1>1, <1>3, <1>5
<1> QED
  BY <1>6, <1>7, FineIsSound

\* FreeCAD's Undo.
LEMMA UndoIsSound ==
    ASSUME Inv, Undo
    PROVE  Sound
<1>1. /\ document.past # << >>
      /\ Becomes(IF document.pending THEN Undone(World) ELSE Queue(Undone(World), Job("settle")))
  BY WorldParts DEF Undo, Undone
<1>2. PICK x : x = Undone(World)
  OBVIOUS
<1>3. Fine(World, x)
  BY <1>1, <1>2, UndoneFacts, WorldParts DEF Inv
<1>4. CASE document.pending
  <2>1. Becomes(x)
    BY <1>1, <1>2, <1>4
  <2> QED
    BY <1>3, <2>1, FineIsSound
<1>5. CASE ~document.pending
  <2>1. PICK job : job = Job("settle")
    OBVIOUS
  <2>2. job.kind = "settle"
    BY <2>1 DEF Job
  <2>3. PICK v : v = Queue(x, job)
    OBVIOUS
  <2>4. Fine(x, v) /\ v.session = x.session
    BY <1>3, <2>2, <2>3, QueueGood DEF Fine, Kinds
  <2>5. Fine(World, v)
    BY <1>3, <2>4 DEF Fine
  <2>6. Becomes(v)
    BY <1>1, <1>2, <1>5, <2>1, <2>3
  <2> QED
    BY <2>5, <2>6, FineIsSound
<1> QED
  BY <1>4, <1>5

\* What the panel's own widgets do.
LEMMA PanelIsSound ==
    ASSUME Inv, ResizeUnit \/ SelectStock \/ ClosePanel
    PROVE  Sound
<1>0. Good(World)
  BY DEF Inv
<1>1. CASE ResizeUnit
  <2>1. ~World.editor.dragging
    BY <1>1, WorldParts DEF ResizeUnit
  <2>2. PICK v : v = Resize(World)
    OBVIOUS
  <2>3. Fine(World, v)
    BY <1>0, <2>1, <2>2, ResizePanelFacts
  <2>4. Becomes(v)
    BY <1>1, <2>2 DEF ResizeUnit
  <2> QED
    BY <2>3, <2>4, FineIsSound
<1>2. CASE SelectStock
  <2>1. ~World.editor.dragging
    BY <1>2, WorldParts DEF SelectStock
  <2>2. PICK v : v = SelectBoards(World, Append(World.session.unit.boards, Shell))
    OBVIOUS
  <2>3. Fine(World, v)
    BY <1>0, <2>1, <2>2, SelectStockFacts
  <2>4. Becomes(v)
    BY <1>2, <2>2, WorldParts DEF SelectStock
  <2> QED
    BY <2>3, <2>4, FineIsSound
<1>3. CASE ClosePanel
  <2>1. PICK v : v = [Close(World) EXCEPT !.session.open = FALSE, !.session.drag = Nothing]
    OBVIOUS
  <2>2. Fine(World, v)
    BY <1>0, <2>1, ClosePanelFacts
  <2>3. Becomes(v)
    BY <1>3, <2>1 DEF ClosePanel
  <2> QED
    BY <2>2, <2>3, FineIsSound
<1> QED
  BY <1>1, <1>2, <1>3

\* The camera's turns and the view's end.
LEMMA ViewIsSound ==
    ASSUME Inv, TurnCamera \/ CloseView
    PROVE  Sound
<1>0. Good(World)
  BY DEF Inv
<1>1. CASE TurnCamera
  <2>1. PICK side : side = IF view.side = "front" THEN "back" ELSE "front"
    OBVIOUS
  <2>2. PICK x : x = [World EXCEPT !.view.side = side]
    OBVIOUS
  <2>3. PICK v : v = CameraMoved(x)
    OBVIOUS
  <2>4. Fine(World, v)
    BY <1>0, <2>2, <2>3, CameraMovedFacts
  <2>5. x = [World EXCEPT !.view.side = IF @ = "front" THEN "back" ELSE "front"]
    BY <2>1, <2>2, WorldParts
  <2>6. Becomes(v)
    BY <1>1, <2>3, <2>5 DEF TurnCamera
  <2> QED
    BY <2>4, <2>6, FineIsSound
<1>2. CASE CloseView
  <2>1. PICK v : v = [World EXCEPT !.view.gone = TRUE]
    OBVIOUS
  <2>2. Fine(World, v)
    BY <1>0, <2>1, CloseViewFacts
  <2>3. Becomes(v)
    <3>1. /\ v.session = session /\ v.document = document /\ v.picked = picked
          /\ v.jobs = jobs /\ v.editor = editor /\ v.view = [view EXCEPT !.gone = TRUE]
      BY <2>1, WorldParts
    <3> QED
      BY <1>2, <3>1 DEF CloseView, Becomes
  <2> QED
    BY <2>2, <2>3, FineIsSound
<1> QED
  BY <1>1, <1>2

\* The callback that runs next.
LEMMA RunJobIsSound ==
    ASSUME Inv, RunJob
    PROVE  /\ Sound
           /\ Head(jobs).kind = "delete" =>
                 ToSet(document.row.boards) \ ToSet(document.row'.boards)
                   \subseteq ToSet(editor.drawn.selection)
<1>0. Good(World) /\ World.jobs # << >>
  BY WorldParts DEF Inv, RunJob
<1>1. PICK v : v = Run(Popped(World), Head(World.jobs))
  OBVIOUS
<1>2. /\ Fine(World, v)
      /\ Head(World.jobs).kind = "delete" => DrawnGoes(World, v)
  BY <1>0, <1>1, RunFacts
<1>3. Becomes(v)
  BY <1>1, WorldParts DEF RunJob, Popped
<1>4. Sound
  BY <1>2, <1>3, FineIsSound
<1>5. document' = v.document
  BY <1>2, <1>3, Carried DEF Fine
<1>6. document.row'.boards = v.document.row.boards
  BY <1>5
<1> QED
  BY <1>2, <1>4, <1>6, WorldParts DEF DrawnGoes

\* Every step keeps the invariant and gives no size but where it was typed.
LEMMA NextIsSound ==
    ASSUME Inv, Next
    PROVE  Sound
<1>1. CASE RunJob
  BY <1>1, RunJobIsSound
<1>2. ASSUME NEW k \in 1 .. MaxOpenings, PressPadlock(k)
      PROVE  Sound
  BY <1>2, PressPadlockIsSound
<1>3. CASE User
  BY <1>2, <1>3, ClickBoardIsSound, ClickOpeningIsSound, ClickAsideIsSound, PressLabelIsSound,
     PressHeldIsSound, PressAddIsSound, DragIsSound, PickInTreeIsSound, FieldIsSound,
     FieldGivesIsSound, KeysAreSound, UndoIsSound, PanelIsSound, ViewIsSound, Zenon DEF User
<1> QED
  BY <1>1, <1>3 DEF Next

\* The invariant is inductive.
LEMMA StepKeepsInv == Inv /\ [Next]_vars => Inv'
<1>1. CASE Inv /\ Next
  BY <1>1, NextIsSound DEF Sound
<1>2. CASE Inv /\ UNCHANGED vars
  <2>1. World' = World
    BY <1>2 DEF vars, World
  <2> QED
    BY <1>2, <2>1 DEF Inv
<1> QED
  BY <1>1, <1>2

\* Between any two steps of the editor, of FreeCAD or of a callback the invariant
\* holds: every flag has its callback, the document stores the session's unit, both
\* selections agree or are about to, the drawing is current or about to be, and a
\* drag keeps its board (view_editor.py, session.py).
THEOREM EditorIsGood == Spec => []Inv
<1> QED
  BY InitIsGood, StepKeepsInv, PTL DEF Spec

------------------------------------------------------------------------------
(* The theorems.                                                             *)

\* The invariant has the variables in their types.
LEMMA InvGivesTypeOK == Inv => TypeOK
<1> SUFFICES ASSUME Inv PROVE TypeOK
  OBVIOUS
<1>1. /\ Good(World) /\ Base(World) /\ Rows(World) /\ Selection(World) /\ Attributes(World)
      /\ Picks(World)
  BY GoodParts DEF Inv
<1> DEFINE u == session.unit
           n == session.edits
<1>2. UnitOK(u, n)
  BY <1>1, WorldParts DEF Rows
<1>3. /\ u.ids \in Seq(Ids) /\ IsInjective(u.ids) /\ Len(u.ids) = Len(u.boards) + 1
      /\ u.boards \in Seq(Boards) /\ IsInjective(u.boards) /\ Len(u.boards) < MaxOpenings
  BY <1>2 DEF UnitOK, RowLike
<1> HIDE DEF u
<1>4. ToSet(u.ids) \subseteq Ids /\ ToSet(u.boards) \subseteq Boards
  BY <1>3, ToSetIsFinite
<1>5. Len(u.ids) \in 1 .. MaxOpenings /\ Len(u.boards) = Len(u.ids) - 1
  <2>1. Len(u.boards) \in Nat
    BY <1>3
  <2> QED
    BY <1>3, <2>1, BoundAssumption
<1>6. ToSet(session.selection) \subseteq Ids \cup Boards \cup {Shell}
  <2>1. session.selection \in Seq(Ids \cup BoardNames)
    BY <1>1, WorldParts DEF Selection
  <2>2. PICK s : s = session.selection
    OBVIOUS
  <2>3. ToSet(s) \subseteq Ids \cup BoardNames
    BY <2>1, <2>2, ToSetIsFinite
  <2> QED
    BY <2>2, <2>3 DEF BoardNames
<1>7. ToSet(picked) \subseteq [name : Boards \cup {Shell, Aside}, whole : BOOLEAN]
  <2>1. picked \in Seq([name : BoardNames \cup {Aside}, whole : BOOLEAN])
    BY <1>1, WorldParts DEF Picks
  <2>2. ToSet(picked) \subseteq [name : BoardNames \cup {Aside}, whole : BOOLEAN]
    BY <2>1, ToSetIsFinite
  <2>3. BoardNames \cup {Aside} = Boards \cup {Shell, Aside}
    BY DEF BoardNames
  <2> QED
    BY <2>2, <2>3
<1>8. /\ editor.boards \subseteq Boards \cup {Shell}
      /\ editor.arrow \in Boards \cup {Nothing} /\ editor.held \in Boards \cup {Nothing}
      /\ editor.focus => editor.field # Nothing
  BY <1>1, WorldParts DEF Attributes, BoardNames
<1>9. ~document.pending => document.row = Bare(session.unit)
  BY <1>1, WorldParts DEF Rows
<1> QED
  BY <1>3, <1>4, <1>5, <1>6, <1>7, <1>8, <1>9 DEF TypeOK, u

\* The unit, the document's row, the selections, the queue and the editor's
\* attributes stay what the classes of session.py and view_editor.py hold.
THEOREM EditorIsTyped == Spec => []TypeOK
<1> QED
  BY EditorIsGood, InvGivesTypeOK, PTL

\* An open editor that is not dragging shows the session's unit, its selection and
\* the buttons they call for, or has its redraw queued (view_editor.py: rebuild,
\* _queue_change), for every number of openings and every order of callbacks.
THEOREM DrawingStaysCurrent == Spec => []DrawingIsCurrent
<1>1. Inv => DrawingIsCurrent
  <2>1. Inv => Current(World)
    BY GoodParts DEF Inv
  <2> QED
    BY <2>1, WorldParts DEF Current, DrawingIsCurrent
<1> QED
  BY <1>1, EditorIsGood, PTL

\* The boards the session has selected are those FreeCAD has selected, or the
\* follow-up is queued (view_editor.py: _follow_freecad, select_in_freecad): the two
\* never drift apart, and neither undoes the other's later choice.
THEOREM BoardsStayHeld == Spec => []BoardsAreHeld
<1>1. Inv => BoardsAreHeld
  <2>1. Inv => Held(World)
    BY GoodParts DEF Inv
  <2> QED
    BY <2>1, WorldParts DEF Held, FollowsOn, HasJob, Following, BoardsAreHeld
<1> QED
  BY <1>1, EditorIsGood, PTL

\* A flag that says a callback is queued is never left behind: the callback is.
FlagsHaveCallbacks ==
    /\ editor.followQueued => \E j \in ToSet(jobs) : j.kind = "follow"
    /\ editor.refreshQueued => \E j \in ToSet(jobs) : j.kind = "refresh"
    /\ editor.sideQueued => \E j \in ToSet(jobs) : j.kind = "side"

\* _queue_change never finds its flag up with nothing queued: a change is never lost
\* because an earlier callback went without taking its flag down.
THEOREM FlagsKeepCallbacks == Spec => []FlagsHaveCallbacks
<1>1. Inv => FlagsHaveCallbacks
  <2>1. Inv => Flagged(World)
    BY GoodParts DEF Inv
  <2> QED
    BY <2>1, WorldParts DEF Flagged, HasJob, FlagsHaveCallbacks
<1> QED
  BY <1>1, EditorIsGood, PTL

\* A size that a step sets on a locked opening was typed into the open field and not
\* yet applied, and lands on the opening it was typed for, or on the one that an Undo
\* made of it (view_editor.py: _field_size; fields.py: _finished).
THEOREM TypedSizesStayPut == Spec => TypedSizesLand
<1>1. Inv /\ [Next]_vars => [\A k \in Places(session.unit') : Typed(k) => Landed(k)]_vars
  <2>1. CASE Inv /\ Next
    BY <2>1, NextIsSound DEF Sound
  <2> QED
    BY <2>1
<1> QED
  BY <1>1, EditorIsGood, PTL DEF Spec, TypedSizesLand

\* A press on a padlock changes no lock but that of the opening it stands at, by the
\* boards beside it, and only away from what it shows, whatever was undone since the
\* drawing (view_editor.py: _toggle_lock, _update_padlocks).
THEOREM PadlocksAreTrue == Spec => PadlocksDoWhatTheyShow
<1>1. Inv /\ [Next]_vars =>
        [\A k \in 1 .. MaxOpenings : PressPadlock(k) =>
           \A l \in Places(session.unit') :
              session.unit'.locked[l] # document.row.locked[l] =>
                  /\ Key(session.unit', l) = PadlockLabels(World)[k].key
                  /\ session.unit'.locked[l] # PadlockLabels(World)[k].locked]_vars
  BY PressPadlockIsSound
<1> QED
  BY <1>1, EditorIsGood, PTL DEF Spec, PadlocksDoWhatTheyShow

\* The Delete key's callback removes no board but those drawn selected, whatever was
\* selected, undone or dragged between the key and the callback (view_editor.py:
\* _DeleteKeys, _delete_selected).
THEOREM DeletesStayDrawn == Spec => DeletesWhatIsDrawn
<1>1. Inv /\ [Next]_vars =>
        [RunJob /\ Head(jobs).kind = "delete" =>
           ToSet(document.row.boards) \ ToSet(document.row'.boards)
             \subseteq ToSet(editor.drawn.selection)]_vars
  BY RunJobIsSound
<1> QED
  BY <1>1, EditorIsGood, PTL DEF Spec, DeletesWhatIsDrawn
===============================================================================
