------------------------------ MODULE SizeProofs ------------------------------
(***************************************************************************)
(* Sizes in a layout.  Each edit hands the solver a layout it can place, and*)
(* so the unit of a session is always one that is placed.  Then what an edit*)
(* leaves where it was: a run whose rules show the sizes its members have  *)
(* gives them the rooms they had, down the tree; and what splits and drags *)
(* keep and move.                                                          *)
(***************************************************************************)
EXTENDS LayoutProofs

\* What the joined region takes is above zero (edit.py _merged_rule).
LEMMA MergedIsSound ==
    ASSUME NEW u, Sized(u), NEW b, CanMerge(u, b)
    PROVE  IsRule(MergedRule(u, b), FALSE)
<1>1. PICK i, h, d, k : /\ i = Beside(u, b).low /\ h = Beside(u, b).high
                        /\ d = RunOf(u, b) /\ k = PlaceOf(u, b)
  OBVIOUS
<1>2. /\ Struct(u) /\ b \in Boards(u) /\ i \in Regions(u) /\ h \in Regions(u)
      /\ k \in 2 .. Len(u.items[d]) - 1 /\ i = u.items[d][k - 1] /\ h = u.items[d][k + 1]
  BY <1>1 DEF CanMerge, Beside, Sized
<1>3. b \in Nodes(u) \ {u.root}
  BY <1>2 DEF Struct, Regions
<1>4. d \in Divisions(u)
  BY <1>1, <1>2, <1>3, PlaceFacts
<1>5. /\ DOMAIN u.items[d] = 1 .. Len(u.items[d]) /\ Len(u.items[d]) \in Nat
      /\ \A x \in DOMAIN u.items[d] : u.items[d][x] \in Nodes(u) \ {u.root}
  BY <1>2, <1>4, RunIsTyped DEF Sized
<1>6. i \in Nodes(u) \ {u.root} /\ h \in Nodes(u) \ {u.root}
  <2>1. k - 1 \in DOMAIN u.items[d] /\ k + 1 \in DOMAIN u.items[d]
    BY <1>2, <1>5
  <2> QED
    BY <1>2, <1>5, <2>1
<1>7. PICK p, q, r : p = Extent(u, i) /\ q = Extent(u, b) /\ r = Extent(u, h)
  OBVIOUS
<1>8. /\ IsFraction(p) /\ IsFraction(q) /\ IsFraction(r)
      /\ Zero \prec p /\ Zero \prec q /\ Zero \prec r
  BY <1>3, <1>6, <1>7, ExtentFacts
<1>9. PICK pq : pq = p ++ q
  OBVIOUS
<1>10. IsFraction(Zero)
  BY WholeIsFrac DEF Zero
<1>11. Zero \preceq q /\ Zero \preceq r
  BY <1>8, <1>10, OrderFacts
<1>12. IsFraction(pq) /\ Zero \prec pq
  BY <1>8, <1>9, <1>11, AddFacts, PositiveSum
<1>13. PICK mm : mm = pq ++ r
  OBVIOUS
<1>14. IsFraction(mm) /\ Zero \prec mm
  BY <1>8, <1>11, <1>12, <1>13, AddFacts, PositiveSum
<1>15. PICK K : K = k - 1 .. k + 1
  OBVIOUS
<1>16. MergedRule(u, b) = IF Locked(u, i) /\ Locked(u, h) THEN Fixed(mm, "clear")
                          ELSE SharingRule(u, d, K, mm)
  BY <1>1, <1>7, <1>9, <1>13, <1>15 DEF MergedRule
<1>17. IsRule(SharingRule(u, d, K, mm), FALSE)
  BY <1>4, <1>14, SharingIsSound
<1>18. IsRule(Fixed(mm, "clear"), FALSE)
  BY <1>14 DEF IsRule, Fixed, Bases
<1> QED
  BY <1>16, <1>17, <1>18

\* The rules of the members that join the run above (edit.py _splice_collapsed_child).
LEMMA SplicedAreSound ==
    ASSUME NEW u, Sized(u), NEW p \in Divisions(u), NEW k, NEW i \in Divisions(u)
    PROVE  \A y \in DOMAIN SplicedRules(u, p, k, i) :
              IsRule(SplicedRules(u, p, k, i)[y], y \in Boards(u))
<1>1. SUFFICES ASSUME NEW y \in Range(u.items[i])
               PROVE  IsRule(SplicedRules(u, p, k, i)[y], y \in Boards(u))
  BY SplicedRulesFacts
<1>2. Struct(u) /\ Ruled(u)
  BY DEF Sized
<1>3. y \in Nodes(u) \ {u.root}
  BY <1>2, RunFacts DEF Struct
<1>4. PICK e : e = Extent(u, y)
  OBVIOUS
<1>5. IsFraction(e) /\ Zero \prec e
  BY <1>3, <1>4, ExtentFacts
<1>6. IsRule(SharingRule(u, p, {k}, e), FALSE)
  BY <1>5, SharingIsSound
<1>7. IsRule(u.rule[y], y \in Boards(u))
  BY <1>2, <1>3 DEF Ruled
<1>8. Driven(u, y) => ~(y \in Boards(u))
  BY <1>7 DEF IsRule, Driven
<1>9. SplicedRules(u, p, k, i)[y] =
         IF Driven(u, y) /\ DrivenPlaces(u, p) \ {k} # {} THEN SharingRule(u, p, {k}, e)
         ELSE u.rule[y]
  BY <1>4 DEF SplicedRules
<1>10. CASE Driven(u, y) /\ DrivenPlaces(u, p) \ {k} # {}
  <2>1. SplicedRules(u, p, k, i)[y] = SharingRule(u, p, {k}, e)
    BY <1>9, <1>10
  <2> QED
    BY <1>6, <1>8, <1>10, <2>1 DEF IsRule
<1>11. CASE ~(Driven(u, y) /\ DrivenPlaces(u, p) \ {k} # {})
  BY <1>7, <1>9, <1>11
<1> QED
  BY <1>10, <1>11

\* So a removal keeps rules sound, with all that it collapses and splices (edit.py
\* merge_at).
LEMMA MergeIsSound ==
    ASSUME NEW u, Sized(u), NEW b, CanMerge(u, b)
    PROVE  Ruled(MergeAt(u, b))
<1>0. Struct(u) /\ Ruled(u) /\ Fields \subseteq DOMAIN u /\ Soundly(u)
  BY SoundlyIsRuled DEF Sized, Struct
<1>1. PICK d, i, left : d = RunOf(u, b) /\ i = Beside(u, b).low /\ left = LeftOf(u, b)
  OBVIOUS
<1>2. PICK j : j = JoinedAt(u, b)
  OBVIOUS
<1>3. MergeAt(u, b) = IF Len(left) > 1 THEN j ELSE Promoted(u, j, d, i)
  BY <1>1, <1>2 DEF MergeAt, LeftOf, JoinedAt
<1>4. /\ Keeps(u, j) /\ JoinDone(u, j, d, i)
      /\ ~(Len(left) > 1) => Range(j.items[d]) = {i}
  <2>1. /\ Keeps(u, JoinedAt(u, b))
        /\ JoinDone(u, JoinedAt(u, b), RunOf(u, b), Beside(u, b).low)
        /\ ~(Len(LeftOf(u, b)) > 1) =>
              Range(JoinedAt(u, b).items[RunOf(u, b)]) = {Beside(u, b).low}
    BY <1>0, JoinedFacts
  <2> QED
    BY <1>1, <1>2, <2>1
<1>5. i \in Regions(u) /\ i \notin Boards(u)
  BY <1>1 DEF CanMerge, Regions
<1>6. PICK rule : rule = MergedRule(u, b)
  OBVIOUS
<1>7. IsRule(rule, FALSE)
  BY <1>6, MergedIsSound
<1>8. PICK x : x = WithRule(u, i, rule)
  OBVIOUS
<1>9. Fields \subseteq DOMAIN x /\ Soundly(x)
  BY <1>0, <1>5, <1>7, <1>8, OperatorsAreSound DEF WithRule
<1>10. PICK items : items = [x.items EXCEPT ![d] = left]
  OBVIOUS
<1>11. PICK y : y = [x EXCEPT !.items = items]
  OBVIOUS
<1>12. Fields \subseteq DOMAIN y /\ Soundly(y)
  BY <1>9, <1>11, OperatorsAreSound
<1>13. j = Without(y, {b} \cup Subtree(u, Beside(u, b).high))
  BY <1>1, <1>2, <1>6, <1>8, <1>10, <1>11 DEF JoinedAt
<1>14. Soundly(j)
  BY <1>12, <1>13, OperatorsAreSound
<1>15. Struct(j) /\ Struct(MergeAt(u, b))
  BY <1>0, <1>4, MergeFacts DEF Keeps
<1>16. CASE Len(left) > 1
  BY <1>3, <1>14, <1>15, <1>16, SoundlyIsRuled
<1>17. CASE ~(Len(left) > 1)
  <2>1. PICK v : v = Promoted(u, j, d, i)
    OBVIOUS
  <2>2. MergeAt(u, b) = v
    BY <1>3, <1>17, <2>1
  <2>3. Range(j.items[d]) = {i} /\ d \in Divisions(j) /\ i # d /\ Boards(j) = Boards(u) \cap Nodes(j)
        /\ d \in Divisions(u)
    BY <1>4, <1>17 DEF JoinDone
  <2>4. IsRule(u.rule[d], FALSE) /\ d \in Nodes(u)
    BY <1>0, <2>3, RegionsRule DEF Struct, Regions
  <2>5. i \notin Boards(j)
    BY <1>5, <2>3
  <2>6. PICK a : a = WithRule(j, i, u.rule[d])
    OBVIOUS
  <2>7. Fields \subseteq DOMAIN j
    BY <1>15 DEF Struct
  <2>8. /\ Fields \subseteq DOMAIN a /\ Soundly(a) /\ a.thick = j.thick
    BY <1>14, <2>4, <2>5, <2>6, <2>7, OperatorsAreSound DEF WithRule, Fields
  <2>9. PICK alone : alone = Without(a, {d})
    OBVIOUS
  <2>10. IsWithout(a, {d}, alone) /\ Soundly(alone) /\ Fields \subseteq DOMAIN alone
    <3>1. IsWithout(a, {d}, alone)
      BY <2>8, <2>9, WithoutFacts
    <3>2. Soundly(alone)
      BY <2>8, <2>9, OperatorsAreSound
    <3> QED
      BY <3>1, <3>2 DEF IsWithout
  <2>11. DOMAIN alone.thick \subseteq Boards(u)
    BY <2>3, <2>8, <2>10 DEF IsWithout, Boards
  <2>12. d \notin Boards(u)
    BY <1>0, <2>3 DEF Struct, Regions
  <2>13. PICK p, k : p = RunOf(u, d) /\ k = PlaceOf(u, d)
    OBVIOUS
  <2>14. CASE d = u.root
    <3>1. v = [alone EXCEPT !.root = i]
      BY <2>1, <2>6, <2>9, <2>14 DEF Promoted
    <3>2. Soundly(v)
      BY <2>10, <3>1, OperatorsAreSound
    <3> QED
      BY <1>15, <2>2, <3>2, SoundlyIsRuled
  <2>15. CASE d # u.root /\ (i \notin Divisions(u) \/ u.axis[i] # u.axis[p])
    <3>1. PICK z : z = [alone.items EXCEPT ![p][k] = i]
      OBVIOUS
    <3>2. v = [alone EXCEPT !.items = z]
      BY <2>1, <2>6, <2>9, <2>13, <2>15, <3>1 DEF Promoted
    <3>3. Soundly(v)
      BY <2>10, <3>2, OperatorsAreSound
    <3> QED
      BY <1>15, <2>2, <3>3, SoundlyIsRuled
  <2>16. CASE d # u.root /\ i \in Divisions(u) /\ u.axis[i] = u.axis[p]
    <3>1. PICK f, z : f = SplicedRules(u, p, k, i) /\ z = [alone.items EXCEPT ![p] = Splice(@, k, 1, u.items[i])]
      OBVIOUS
    <3>2. PICK w : w = [alone EXCEPT !.items = z]
      OBVIOUS
    <3>3. PICK y2 : y2 = [w EXCEPT !.rule = Over(@, f)]
      OBVIOUS
    <3>4. v = Without(y2, {i})
      <4>1. y2 = [alone EXCEPT !.items[p] = Splice(@, k, 1, u.items[i]), !.rule = Over(@, f)]
        BY <3>1, <3>2, <3>3
      <4> QED
        BY <2>1, <2>6, <2>9, <2>13, <2>16, <3>1, <4>1 DEF Promoted
    <3>5. Fields \subseteq DOMAIN w /\ Soundly(w) /\ w.thick = alone.thick
      BY <2>10, <3>2, OperatorsAreSound DEF Fields
    <3>6. \A n \in DOMAIN f : IsRule(f[n], n \in DOMAIN w.thick)
      <4>1. SUFFICES ASSUME NEW n \in DOMAIN f PROVE IsRule(f[n], n \in DOMAIN w.thick)
        OBVIOUS
      <4>2. p \in Divisions(u)
        BY <1>0, <2>4, <2>13, <2>16, PlaceFacts
      <4>3. IsRule(f[n], n \in Boards(u))
        BY <2>16, <3>1, <4>2, SplicedAreSound
      <4>4. n \in Range(u.items[i])
        BY <3>1, SplicedRulesFacts
      <4>5. i \in Nodes(j) /\ i \in Divisions(j)
        <5>1. Range(j.items[d]) \subseteq Nodes(j)
          BY <1>15, <2>3, RunFacts DEF Struct
        <5>2. Divisions(j) = Divisions(u) \cap Nodes(j)
          BY <1>4 DEF JoinDone
        <5> QED
          BY <2>3, <2>16, <5>1, <5>2
      <4>6. j.items[i] = u.items[i]
        BY <1>4, <2>3, <4>5 DEF JoinDone
      <4>7. n \in Nodes(j)
        BY <1>15, <4>4, <4>5, <4>6, RunFacts DEF Struct
      <4>8. n # d
        <5>1. Collapses(j, d, i)
          BY <2>3, <2>5, <4>5 DEF Collapses, Regions
        <5> QED
          BY <1>15, <4>4, <4>5, <4>6, <5>1, CollapseFacts
      <4>9. (n \in DOMAIN w.thick) <=> (n \in Boards(u))
        BY <2>3, <2>8, <2>10, <3>5, <4>7, <4>8 DEF IsWithout, Boards
      <4> QED
        BY <4>3, <4>9 DEF IsRule
    <3>7. Soundly(y2) /\ Fields \subseteq DOMAIN y2
      BY <3>3, <3>5, <3>6, OperatorsAreSound
    <3>8. Soundly(v)
      BY <3>4, <3>7, OperatorsAreSound
    <3> QED
      BY <1>15, <2>2, <3>8, SoundlyIsRuled
  <2> QED
    BY <2>14, <2>15, <2>16
<1> QED
  BY <1>16, <1>17

------------------------------------------------------------------------------
(* Edits of one rule.                                                      *)

\* Another rule for a region, that is sound.
LEMMA OneRuleIsSound ==
    ASSUME NEW u, Struct(u), Ruled(u), NEW r \in Regions(u), NEW rule, IsRule(rule, FALSE)
    PROVE  Ruled(WithRule(u, r, rule))
<1>1. Fields \subseteq DOMAIN u /\ Soundly(u) /\ r \notin Boards(u)
  BY SoundlyIsRuled DEF Struct, Regions
<1>2. Struct(WithRule(u, r, rule))
  BY WithRuleFacts DEF IsWithRule
<1>3. Soundly(WithRule(u, r, rule))
  BY <1>1, OperatorsAreSound
<1> QED
  BY <1>2, <1>3, SoundlyIsRuled

\* What no other node's rule says stays.
LEMMA OtherPlaces ==
    ASSUME NEW u, NEW v, v.items = u.items, v.thick = u.thick, NEW r,
           \A j \in Nodes(u) : j # r => v.rule[j] = u.rule[j],
           NEW d, NEW k \in DOMAIN u.items[d], u.items[d][k] \in Nodes(u), u.items[d][k] # r
    PROVE  /\ (k \in DrivenPlaces(v, d)) <=> (k \in DrivenPlaces(u, d))
           /\ WeightAt(v, d, k) = WeightAt(u, d, k)
           /\ Resolves(v, d, k) <=> Resolves(u, d, k)
           /\ FixedMm(v, d, k) = FixedMm(u, d, k)
<1>1. v.rule[u.items[d][k]] = u.rule[u.items[d][k]]
  OBVIOUS
<1>2. Resolves(v, d, k) <=> Resolves(u, d, k)
  BY <1>1 DEF Resolves, Boards
<1>3. FixedMm(v, d, k) = FixedMm(u, d, k)
  BY <1>1, <1>2 DEF FixedMm
<1> QED
  BY <1>1, <1>2, <1>3 DEF DrivenPlaces, Driven, WeightAt

\* The place of a node in its run, and that no other place is its.
LEMMA PlaceInRun ==
    ASSUME NEW u, Struct(u), NEW i \in Nodes(u) \ {u.root}
    PROVE  /\ RunOf(u, i) \in Divisions(u)
           /\ PlaceOf(u, i) \in DOMAIN u.items[RunOf(u, i)]
           /\ PlaceOf(u, i) \in 1 .. Len(u.items[RunOf(u, i)])
           /\ u.items[RunOf(u, i)][PlaceOf(u, i)] = i
           /\ \A d \in Divisions(u) : \A k \in DOMAIN u.items[d] :
                 u.items[d][k] = i => d = RunOf(u, i) /\ k = PlaceOf(u, i)
<1>1. /\ RunOf(u, i) \in Divisions(u) /\ PlaceOf(u, i) \in 1 .. Len(u.items[RunOf(u, i)])
      /\ u.items[RunOf(u, i)][PlaceOf(u, i)] = i
  BY PlaceFacts
<1>2. \A d \in Divisions(u) : IsRun(u.items[d], Nodes(u) \ {u.root})
  BY DEF Struct
<1>3. \A d \in Divisions(u) : DOMAIN u.items[d] = 1 .. Len(u.items[d])
  BY <1>2, RunFacts
<1>4. ASSUME NEW d \in Divisions(u), NEW k \in DOMAIN u.items[d], u.items[d][k] = i
      PROVE  d = RunOf(u, i) /\ k = PlaceOf(u, i)
  <2>1. i \in Range(u.items[d])
    BY <1>4 DEF Range
  <2>2. d = RunOf(u, i)
    BY <2>1, PlaceFacts
  <2> QED
    BY <1>1, <1>2, <1>3, <1>4, <2>2 DEF IsRun, IsInjective
<1> QED
  BY <1>1, <1>3, <1>4

\* At the scale the rule gives the size that is shown.
Shows(u, v, r, rule, scale) ==
    /\ IsFraction(scale) /\ Zero \prec scale
    /\ \/ RulesShow(u, RunOf(u, r), ShownSizes(u, RunOf(u, r)), scale)
       \/ DrivenPlaces(u, RunOf(u, r)) \subseteq {PlaceOf(u, r)}
    /\ rule.kind = "driven" => scale ** rule.weight = Extent(u, r)
    /\ rule.kind # "driven" => /\ FixedMm(v, RunOf(u, r), PlaceOf(u, r)) = Extent(u, r)
                               /\ Resolves(v, RunOf(u, r), PlaceOf(u, r))

\* Another rule for a region, that gives the size the region has, moves nothing.
LEMMA SameSizeRule ==
    ASSUME NEW u, Sized(u), NEW r \in Regions(u) \ {u.root}, NEW rule, IsRule(rule, FALSE),
           NEW v, v = WithRule(u, r, rule), NEW scale, Shows(u, v, r, rule, scale)
    PROVE  Sized(Solved(v)) /\ Solved(v).space = u.space
<1>1. Struct(u) /\ Ruled(u) /\ IsFramed(u) /\ r \in Nodes(u) \ {u.root}
  BY DEF Sized, Regions
<1>2. IsWithRule(u, r, rule, v) /\ Ruled(v)
  BY <1>1, WithRuleFacts, OneRuleIsSound
<1>3. v.low = u.low /\ v.size = u.size /\ v.pinned = u.pinned /\ v.fixed = u.fixed
  BY <1>1 DEF WithRule, Struct, Fields
<1>4. IsFramed(v)
  BY <1>1, <1>3 DEF IsFramed
<1>5. /\ Struct(v) /\ Nodes(v) = Nodes(u) /\ v.items = u.items /\ v.axis = u.axis
      /\ v.root = u.root /\ v.thick = u.thick /\ v.rule[r] = rule
      /\ \A j \in Nodes(u) : j # r => v.rule[j] = u.rule[j]
  BY <1>2 DEF IsWithRule
<1>6. ASSUME NEW e \in Divisions(u), NEW x \in DOMAIN u.items[e], u.items[e][x] # r
      PROVE  /\ (x \in DrivenPlaces(v, e)) <=> (x \in DrivenPlaces(u, e))
             /\ WeightAt(v, e, x) = WeightAt(u, e, x)
             /\ Resolves(v, e, x) <=> Resolves(u, e, x)
             /\ FixedMm(v, e, x) = FixedMm(u, e, x)
  <2>1. u.items[e][x] \in Nodes(u)
    BY <1>1, RunIsTyped
  <2> QED
    BY <1>5, <1>6, <2>1, OtherPlaces
<1>7. PICK d, k : d = RunOf(u, r) /\ k = PlaceOf(u, r)
  OBVIOUS
<1>8. /\ d \in Divisions(u) /\ k \in DOMAIN u.items[d] /\ u.items[d][k] = r
      /\ \A e \in Divisions(u) : \A x \in DOMAIN u.items[e] : u.items[e][x] = r => e = d /\ x = k
  BY <1>1, <1>7, PlaceInRun
<1>9. PICK mm : mm = ShownSizes(u, d)
  OBVIOUS
<1>10. mm[k] = Extent(u, r)
  BY <1>8, <1>9, SizedRun
<1>11. (k \in DrivenPlaces(v, d)) <=> rule.kind = "driven"
  BY <1>5, <1>8 DEF DrivenPlaces, Driven
<1>12. rule.kind = "driven" => WeightAt(v, d, k) = rule.weight
  BY <1>5, <1>8 DEF WeightAt
<1>13. RulesShow(v, d, mm, scale)
  <2>1. ASSUME NEW x \in DOMAIN u.items[d]
        PROVE  mm[x] = IF x \in DrivenPlaces(v, d) THEN scale ** WeightAt(v, d, x)
                       ELSE FixedMm(v, d, x)
    <3>1. CASE x = k
      BY <1>7, <1>10, <1>11, <1>12, <3>1 DEF Shows
    <3>2. CASE x # k
      <4>1. u.items[d][x] # r
        BY <1>8, <3>2
      <4>2. CASE RulesShow(u, d, mm, scale)
        BY <1>6, <1>8, <4>1, <4>2 DEF RulesShow
      <4>3. CASE DrivenPlaces(u, d) \subseteq {k}
        <5>1. x \notin DrivenPlaces(u, d)
          BY <3>2, <4>3
        <5>2. \E s : RulesShow(u, d, mm, s)
          BY <1>8, <1>9, SizedRun
        <5>3. mm[x] = FixedMm(u, d, x)
          BY <5>1, <5>2 DEF RulesShow
        <5> QED
          BY <1>6, <1>8, <4>1, <5>1, <5>3
      <4> QED
        BY <1>7, <1>9, <4>2, <4>3 DEF Shows
    <3> QED
      BY <3>1, <3>2
  <2> QED
    BY <1>5, <2>1 DEF RulesShow, Shows
<1>14. ASSUME NEW e \in Divisions(u) PROVE \E s : RulesShow(v, e, ShownSizes(u, e), s)
  <2>1. CASE e = d
    BY <1>9, <1>13, <2>1
  <2>2. CASE e # d
    <3>1. PICK s : RulesShow(u, e, ShownSizes(u, e), s)
      BY SizedRun
    <3>2. \A x \in DOMAIN u.items[e] : u.items[e][x] # r
      BY <1>8, <2>2
    <3>3. RulesShow(v, e, ShownSizes(u, e), s)
      BY <1>5, <1>6, <3>1, <3>2 DEF RulesShow
    <3> QED
      BY <3>3
  <2> QED
    BY <2>1, <2>2
<1>15. ASSUME NEW e \in Divisions(u), NEW x \in DOMAIN u.items[e] PROVE Resolves(v, e, x)
  <2>1. Resolves(u, e, x)
    BY SizedRun
  <2>2. CASE u.items[e][x] # r
    BY <1>6, <2>1, <2>2
  <2>3. CASE u.items[e][x] = r
    <3>1. e = d /\ x = k
      BY <1>8, <2>3
    <3>2. CASE rule.kind = "driven"
      BY <1>5, <1>8, <3>1, <3>2 DEF Resolves
    <3>3. CASE rule.kind # "driven"
      BY <1>7, <3>1, <3>3 DEF Shows
    <3> QED
      BY <3>2, <3>3
  <2> QED
    BY <2>2, <2>3
<1> QED
  BY <1>2, <1>3, <1>4, <1>5, <1>14, <1>15, SameGeometry

\* A weight worked out against an anchor gives the size it is worked out from.
LEMMA SharedScale ==
    ASSUME NEW x, NEW w, NEW s, IsFraction(x), IsFraction(w), IsFraction(s),
           Zero \prec w, Zero \prec s
    PROVE  s ** ((x ** w) // (s ** w)) = x
<1>1. PICK e, p : e = s ** w /\ p = x ** w
  OBVIOUS
<1>2. IsFraction(e) /\ Zero \prec e /\ IsFraction(p)
  BY <1>1, ProductFacts
<1>3. PICK q : q = p // e
  OBVIOUS
<1>4. IsFraction(q) /\ q ** e = p
  BY <1>2, <1>3, QuotientLaws
<1>5. PICK y : y = s ** q
  OBVIOUS
<1>6. IsFraction(y) /\ y = q ** s
  BY <1>4, <1>5, ProductFacts
<1>7. y ** w = q ** (s ** w)
  BY <1>4, <1>6, ProductLaws
<1>8. y ** w = x ** w
  BY <1>1, <1>4, <1>7
<1>9. (y ** w) // w = y /\ (x ** w) // w = x
  BY <1>6, QuotientLaws
<1> QED
  BY <1>1, <1>3, <1>5, <1>8, <1>9

\* What a region's sharing rule gives it, when it is weighed at its own size.
LEMMA SharingShows ==
    ASSUME NEW u, Sized(u), NEW r \in Regions(u) \ {u.root},
           NEW rule, rule = SharingRule(u, RunOf(u, r), {PlaceOf(u, r)}, Extent(u, r)), NEW v
    PROVE  \E scale : Shows(u, v, r, rule, scale)
<1>1. Struct(u) /\ r \in Nodes(u) \ {u.root}
  BY DEF Sized, Regions
<1>2. PICK d, k, x, mm : /\ d = RunOf(u, r) /\ k = PlaceOf(u, r) /\ x = Extent(u, r)
                         /\ mm = ShownSizes(u, d)
  OBVIOUS
<1>3. d \in Divisions(u) /\ k \in DOMAIN u.items[d]
  BY <1>1, <1>2, PlaceInRun
<1>4. IsFraction(x) /\ Zero \prec x
  BY <1>1, <1>2, ExtentFacts
<1>5. rule.kind = "driven"
  BY SharingIsDriven
<1> DEFINE anchors == DrivenPlaces(u, d) \ {k}
<1>6. CASE anchors = {}
  <2>1. rule = Weighted(One)
    BY <1>2, <1>6 DEF SharingRule, Fill
  <2>2. x ** One = x
    <3>1. IsFraction(One)
      BY <1>4, ProductFacts
    <3> QED
      BY <1>4, <3>1, ProductFacts
  <2>3. Shows(u, v, r, rule, x)
    BY <1>2, <1>4, <1>5, <1>6, <2>1, <2>2 DEF Shows, Weighted
  <2> QED
    BY <2>3
<1>7. CASE anchors # {}
  <2>1. PICK s : RulesShow(u, d, mm, s)
    BY <1>2, <1>3, SizedRun
  <2>2. PICK m : m = Min(anchors)
    OBVIOUS
  <2>3. /\ DOMAIN u.items[d] = 1 .. Len(u.items[d]) /\ Len(u.items[d]) \in Nat
        /\ RunTyped(u, d)
    BY <1>1, <1>3, RunIsTyped DEF Sized
  <2>4. anchors \in SUBSET (1 .. Len(u.items[d]))
    BY <2>3 DEF DrivenPlaces
  <2>5. m \in anchors
    BY <1>7, <2>2, <2>3, <2>4, MinIsFirst
  <2>6. m \in DrivenPlaces(u, d) /\ m \in DOMAIN u.items[d]
    BY <2>5 DEF DrivenPlaces
  <2>7. PICK w : w = WeightAt(u, d, m)
    OBVIOUS
  <2>8. IsFraction(w) /\ Zero \prec w /\ IsFraction(s) /\ Zero \prec s
    BY <2>1, <2>3, <2>6, <2>7 DEF RunTyped, RulesShow
  <2>9. Extent(u, u.items[d][m]) = s ** w
    BY <1>2, <1>3, <2>1, <2>6, <2>7, SizedRun DEF RulesShow
  <2>10. rule = Weighted((x ** w) // (s ** w))
    BY <1>2, <1>7, <2>2, <2>7, <2>9 DEF SharingRule, WeightAt
  <2>11. s ** rule.weight = x
    BY <1>4, <2>8, <2>10, SharedScale DEF Weighted
  <2> QED
    BY <1>2, <1>5, <2>1, <2>8, <2>11 DEF Shows
<1> QED
  BY <1>6, <1>7

\* Unlocking a region moves nothing (edit.py unlock).
LEMMA UnlockMovesNothing ==
    ASSUME NEW u, Sized(u), NEW r \in Regions(u) \ {u.root}
    PROVE  Sized(Solved(Unlock(u, r))) /\ Solved(Unlock(u, r)).space = u.space
<1>1. Struct(u) /\ r \in Nodes(u) \ {u.root}
  BY DEF Sized, Regions
<1>2. PICK rule : rule = SharingRule(u, RunOf(u, r), {PlaceOf(u, r)}, Extent(u, r))
  OBVIOUS
<1>3. PICK x, d : x = Extent(u, r) /\ d = RunOf(u, r)
  OBVIOUS
<1>4. IsFraction(x) /\ Zero \prec x /\ d \in Divisions(u)
  BY <1>1, <1>3, ExtentFacts, PlaceInRun
<1>5. IsRule(rule, FALSE)
  BY <1>2, <1>3, <1>4, SharingIsSound
<1>6. PICK v : v = WithRule(u, r, rule)
  OBVIOUS
<1>7. PICK scale : Shows(u, v, r, rule, scale)
  BY <1>2, SharingShows
<1>8. Unlock(u, r) = v
  BY <1>2, <1>6 DEF Unlock
<1> QED
  BY <1>5, <1>6, <1>7, <1>8, SameSizeRule

\* A region given a fixed size in a basis it can be measured in.
LEMMA FixedShows ==
    ASSUME NEW u, Sized(u), NEW r \in Regions(u) \ {u.root}, NEW basis \in Bases,
           Measures(u, r, basis), NEW mm, mm = SizeInBasis(u, r, Extent(u, r), basis),
           NEW v, v = WithRule(u, r, Fixed(mm, basis))
    PROVE  /\ IsRule(Fixed(mm, basis), FALSE)
           /\ \E scale : Shows(u, v, r, Fixed(mm, basis), scale)
<1>1. Struct(u) /\ Ruled(u) /\ r \in Nodes(u) \ {u.root}
  BY DEF Sized, Regions
<1>2. PICK d, k, x : d = RunOf(u, r) /\ k = PlaceOf(u, r) /\ x = Extent(u, r)
  OBVIOUS
<1>3. d \in Divisions(u) /\ k \in DOMAIN u.items[d] /\ u.items[d][k] = r
  BY <1>1, <1>2, PlaceInRun
<1>4. IsFraction(x) /\ Zero \prec x
  BY <1>1, <1>2, ExtentFacts
<1>5. PICK rule : rule = Fixed(mm, basis)
  OBVIOUS
<1>6. /\ v.items = u.items /\ v.thick = u.thick /\ v.rule[r] = rule /\ Boards(v) = Boards(u)
  BY <1>1, <1>5, WithRuleFacts DEF IsWithRule
<1>7. rule.kind = "fixed" /\ rule.mm = mm /\ rule.basis = basis
  BY <1>5 DEF Fixed
<1>8. PICK s : RulesShow(u, d, ShownSizes(u, d), s)
  BY <1>3, SizedRun
<1>9. IsFraction(s) /\ Zero \prec s
  BY <1>8 DEF RulesShow
<1>10. Resolves(v, d, k)
  BY <1>2, <1>3, <1>6, <1>7 DEF Resolves, Measures
<1>11. CASE basis = "clear"
  <2>1. mm = x
    BY <1>2, <1>11, Zenon DEF SizeInBasis
  <2>2. FixedMm(v, d, k) = x
    BY <1>3, <1>6, <1>7, <1>11, <2>1, Zenon DEF FixedMm
  <2>3. Shows(u, v, r, rule, s)
    BY <1>2, <1>7, <1>8, <1>9, <1>10, <2>2 DEF Shows
  <2>4. IsRule(rule, FALSE)
    BY <1>4, <1>7, <2>1 DEF IsRule
  <2> QED
    BY <1>5, <2>3, <2>4
<1>12. CASE basis = "with_next"
  <2>1. PICK t : t = u.thick[u.items[d][k + 1]]
    OBVIOUS
  <2>2. IsFraction(t) /\ Zero \prec t
    BY <1>1, <1>2, <1>12, <2>1 DEF Measures, Ruled
  <2>3. mm = x ++ t
    BY <1>2, <1>12, <2>1 DEF SizeInBasis
  <2>4. IsFraction(mm) /\ mm -- t = x /\ Zero \prec mm
    <3>1. IsFraction(Zero)
      BY WholeIsFrac DEF Zero
    <3>2. Zero \preceq t
      BY <2>2, <3>1, OrderFacts, SMTT(40)
    <3> QED
      BY <1>4, <2>2, <2>3, <3>2, AddFacts, PositiveSum
  <2>5. FixedMm(v, d, k) = x
    BY <1>3, <1>6, <1>7, <1>10, <1>12, <2>1, <2>4, ZenonT(40) DEF FixedMm
  <2>6. Shows(u, v, r, rule, s)
    BY <1>2, <1>7, <1>8, <1>9, <1>10, <2>5 DEF Shows
  <2>7. IsRule(rule, FALSE)
    BY <1>7, <1>12, <2>4 DEF IsRule
  <2> QED
    BY <1>5, <2>6, <2>7
<1> QED
  BY <1>11, <1>12 DEF Bases

\* Changing what a size measures moves nothing (edit.py set_basis),
LEMMA SetBasisMovesNothing ==
    ASSUME NEW u, Sized(u), NEW r \in Regions(u) \ {u.root}, NEW basis \in Bases,
           Measures(u, r, basis)
    PROVE  Sized(Solved(SetBasis(u, r, basis))) /\ Solved(SetBasis(u, r, basis)).space = u.space
<1>1. PICK mm : mm = SizeInBasis(u, r, Extent(u, r), basis)
  OBVIOUS
<1>2. PICK rule : rule = Fixed(mm, basis)
  OBVIOUS
<1>3. PICK v : v = WithRule(u, r, rule)
  OBVIOUS
<1>4. SetBasis(u, r, basis) = v
  BY <1>1, <1>2, <1>3 DEF SetBasis, SetSize
<1>5. IsRule(rule, FALSE) /\ \E scale : Shows(u, v, r, rule, scale)
  BY <1>1, <1>2, <1>3, FixedShows
<1> QED
  BY <1>3, <1>4, <1>5, SameSizeRule

\* nor does locking one (edit.py lock).
LEMMA LockMovesNothing ==
    ASSUME NEW u, Sized(u), NEW r \in Regions(u) \ {u.root}
    PROVE  Sized(Solved(Lock(u, r))) /\ Solved(Lock(u, r)).space = u.space
<1>1. "clear" \in Bases /\ Measures(u, r, "clear")
  BY DEF Bases, Measures
<1>2. Lock(u, r) = SetBasis(u, r, "clear")
  BY DEF Lock, SetBasis, SizeInBasis
<1> QED
  BY <1>1, <1>2, SetBasisMovesNothing

------------------------------------------------------------------------------
(* Edits of the frame and of several rules.                                *)

\* The fixed point is no size (session.py set_fixed_side).
LEMMA FixedSideMovesNothing ==
    ASSUME NEW u, Sized(u), NEW v, Fields \subseteq DOMAIN v,
           v.root = u.root, v.items = u.items, v.axis = u.axis, v.rule = u.rule,
           v.thick = u.thick, v.voids = u.voids, v.pinned = u.pinned, v.low = u.low,
           v.size = u.size, v.fixed \in [Axes -> Sides]
    PROVE  Sized(Solved(v)) /\ Solved(v).space = u.space
<1>1. Struct(u) /\ Ruled(u) /\ IsFramed(u)
  BY DEF Sized
<1>3. Struct(v)
  BY <1>1, SameRuns
<1>4. IsFramed(v) /\ Ruled(v) /\ Nodes(v) = Nodes(u)
  BY <1>1, <1>3 DEF IsFramed, Ruled, Nodes, Boards, Divisions
<1>s. /\ \A d, k : Resolves(v, d, k) = Resolves(u, d, k)
      /\ \A d, k : FixedMm(v, d, k) = FixedMm(u, d, k)
      /\ \A d : DrivenPlaces(v, d) = DrivenPlaces(u, d)
      /\ \A d, k : WeightAt(v, d, k) = WeightAt(u, d, k)
  <2>1. \A d, k : WeightAt(v, d, k) = WeightAt(u, d, k)
    BY DEF WeightAt
  <2> QED
    BY <2>1, SameSolver
<1>5. ASSUME NEW d \in Divisions(u) PROVE \E s : RulesShow(v, d, ShownSizes(u, d), s)
  <2>1. PICK mm : mm = ShownSizes(u, d)
    OBVIOUS
  <2>2. PICK s : RulesShow(u, d, mm, s)
    BY <2>1, SizedRun
  <2>3. RulesShow(v, d, mm, s)
    BY <1>s, <2>2 DEF RulesShow
  <2> QED
    BY <2>1, <2>3
<1>6. ASSUME NEW d \in Divisions(u), NEW k \in DOMAIN u.items[d] PROVE Resolves(v, d, k)
  <2>1. Resolves(u, d, k)
    BY SizedRun
  <2> QED
    BY <1>s, <2>1, Zenon
<1> QED
  BY <1>1, <1>3, <1>4, <1>5, <1>6, SameGeometry

\* What holds of a unit after n holders of its board are unlocked.
UnmovedSoFar(d, n, v) ==
    /\ Sized(v) /\ v.space = d.space /\ KeepsNodes(d, v) /\ v.root = d.root
\* The fold of these.
Loosening == INSTANCE FoldTheorems WITH Op <- Freed, P <- UnmovedSoFar

\* What holds a board is in its run.
LEMMA HoldersInRun ==
    ASSUME NEW u, Struct(u), NEW b \in Boards(u), Freeable(u, b)
    PROVE  Holders(u, b) \in Seq(Regions(u) \ {u.root})
<1>1. PICK run : run = u.items[RunOf(u, b)]
  OBVIOUS
<1>2. PICK low, high : low = Past(u, b).low /\ high = Past(u, b).high
  OBVIOUS
<1>3. IsSide(u, run, low) /\ IsSide(u, run, high)
  BY <1>1, <1>2, PastFacts
<1>4. Len(run) \in Nat /\ \A x \in 1 .. Len(run) : run[x] # u.root
  <2>1. RunOf(u, b) \in Divisions(u)
    BY BoardsRun
  <2>2. IsRun(run, Nodes(u) \ {u.root})
    BY <1>1, <2>1 DEF Struct
  <2> QED
    BY <2>2, RunFacts
<1>5. PICK R : R = Regions(u) \ {u.root}
  OBVIOUS
<1>6. low.free = {} => run[Max(low.locked)] \in R
  BY <1>3, <1>4, <1>5, MaxExists DEF IsSide
<1>7. high.free = {} => run[Min(high.locked)] \in R
  BY <1>3, <1>4, <1>5, MinExists DEF IsSide
<1>8. PICK s : s = IF low.free = {} THEN <<run[Max(low.locked)]>> ELSE << >>
  OBVIOUS
<1>9. PICK t : t = IF high.free = {} THEN <<run[Min(high.locked)]>> ELSE << >>
  OBVIOUS
<1>10. Holders(u, b) = s \o t
  BY <1>1, <1>2, <1>8, <1>9 DEF Holders
<1>11. s \in Seq(R) /\ t \in Seq(R)
  BY <1>6, <1>7, <1>8, <1>9
<1>12. s \o t \in Seq(R)
  BY <1>11
<1> QED
  BY <1>5, <1>10, <1>12

\* Freeing a board moves nothing, each unlock taken on the unit the one before it
\* left and solved (session.py unlock_board).
LEMMA UnlockHoldersMovesNothing ==
    ASSUME NEW u, Sized(u), NEW b \in Boards(u), Freeable(u, b)
    PROVE  LET v == UnlockHolders(u, b)
           IN  Sized(v) /\ v.space = u.space
<1>0. Struct(u)
  BY DEF Sized
<1>1. PICK s : s = Holders(u, b)
  OBVIOUS
<1>2. s \in Seq(Regions(u) \ {u.root})
  BY <1>0, <1>1, HoldersInRun
<1>3. UnlockHolders(u, b) = Loosening!Fold(0, u, s)
  BY <1>1 DEF UnlockHolders, Freed, Loosening!Fold, FoldLeft, Loosening!FoldLeft, MapThenFoldSet,
         Loosening!MapThenFoldSet, Max, Loosening!Max
<1>4. UnmovedSoFar(u, 0, u)
  BY <1>0, KeepsItself DEF UnmovedSoFar, KeepsNodes
<1>5. ASSUME NEW k \in 1 .. Len(s), NEW v, UnmovedSoFar(u, k - 1, v)
      PROVE  UnmovedSoFar(u, k, Freed(0, v, s[k]))
  <2>1. PICK r : r = s[k]
    OBVIOUS
  <2>2. r \in Regions(u) \ {u.root}
    BY <1>2, <2>1
  <2>3. Sized(v) /\ v.space = u.space /\ KeepsNodes(u, v) /\ v.root = u.root /\ Struct(v)
    BY <1>5 DEF UnmovedSoFar, Sized
  <2>4. r \in Regions(v) \ {v.root}
    BY <2>2, <2>3 DEF KeepsNodes, Regions
  <2>5. PICK w : w = Unlock(v, r)
    OBVIOUS
  <2>6. PICK x : x = Solved(w)
    OBVIOUS
  <2>7. Sized(x) /\ x.space = v.space
    BY <2>3, <2>4, <2>5, <2>6, UnlockMovesNothing
  <2>8. KeepsNodes(v, w) /\ Struct(w)
    BY <2>3, <2>4, <2>5, UnlockFacts DEF KeepsNodes, Keeps
  <2>9. KeepsNodes(w, x) /\ x.root = w.root
    BY <2>6, <2>8, SolvedFacts, SolvedIs DEF KeepsNodes
  <2>10. w.root = v.root
    BY <2>3, <2>5 DEF Unlock, WithRule, Struct, Fields
  <2>11. KeepsNodes(u, x)
    BY <2>3, <2>8, <2>9, KeepsIsTransitive DEF KeepsNodes
  <2>12. Freed(0, v, r) = x
    BY <2>5, <2>6 DEF Freed
  <2> QED
    BY <2>1, <2>3, <2>7, <2>9, <2>10, <2>11, <2>12 DEF UnmovedSoFar
<1>6. UnmovedSoFar(u, Len(s), Loosening!Fold(0, u, s))
  BY <1>2, <1>4, <1>5, Loosening!FoldInvariant
<1> QED
  BY <1>3, <1>6 DEF UnmovedSoFar

------------------------------------------------------------------------------
(* Drags and removals.                                                     *)

\* The lesser and the greater of two fractions.
LEMMA LeastFacts ==
    ASSUME NEW p, NEW q, IsFraction(p), IsFraction(q)
    PROVE  /\ IsFraction(Least(p, q)) /\ IsFraction(Greatest(p, q))
           /\ Least(p, q) \preceq p /\ Least(p, q) \preceq q
           /\ p \preceq Greatest(p, q) /\ q \preceq Greatest(p, q)
           /\ Least(p, q) = p \/ Least(p, q) = q
           /\ Greatest(p, q) = p \/ Greatest(p, q) = q
           /\ Zero \prec p /\ Zero \prec q => Zero \prec Least(p, q)
<1>1. p \preceq p /\ q \preceq q
  BY OrderFacts
<1>2. CASE p \preceq q
  BY <1>1, <1>2 DEF Least, Greatest
<1>3. CASE ~(p \preceq q)
  <2>1. q \preceq p
    BY <1>3, OrderFacts
  <2> QED
    BY <1>1, <1>3, <2>1 DEF Least, Greatest
<1> QED
  BY <1>2, <1>3

\* Between two fractions, in either direction.
LEMMA Transitive ==
    ASSUME NEW p, NEW q, NEW r, IsFraction(p), IsFraction(q), IsFraction(r)
    PROVE  /\ p \preceq q /\ q \preceq r => p \preceq r
           /\ p \prec q /\ q \preceq r => p \prec r
           /\ p \preceq q /\ q \prec r => p \prec r
<1>1. /\ p \preceq q <=> (p \prec q \/ p = q)
      /\ q \preceq r <=> (q \prec r \/ q = r)
      /\ p \preceq r <=> (p \prec r \/ p = r)
  BY OrderFacts
<1>2. p \prec q /\ q \prec r => p \prec r
  BY OrderLaws
<1> QED
  BY <1>1, <1>2

\* Bounds of a sum and of a difference.
LEMMA ShiftLaws ==
    ASSUME NEW p, NEW q, NEW r, IsFraction(p), IsFraction(q), IsFraction(r)
    PROVE  /\ q -- p \preceq r => q \preceq p ++ r
           /\ r \preceq p -- q => q \preceq p -- r
<1>1. PICK d, l, m, n : Over3(p, q, r, d, l, m, n)
  BY OverOne
<1>2. /\ d \in Nat /\ d # 0 /\ l \in Int /\ m \in Int /\ n \in Int
      /\ p = Frac(l, d) /\ q = Frac(m, d) /\ r = Frac(n, d)
  BY <1>1 DEF Over3
<1>3. PICK a \in Int, b \in Int, c \in Int, e \in Int :
         a = m - l /\ b = l + n /\ c = l - m /\ e = l - n
  BY <1>2
<1>4. /\ q -- p = Frac(a, d) /\ p ++ r = Frac(b, d)
      /\ p -- q = Frac(c, d) /\ p -- r = Frac(e, d)
  BY <1>2, <1>3, OverOneDenominator
<1>5. q -- p \preceq r <=> a <= n
  <2>1. Frac(a, d) \preceq Frac(n, d) <=> a <= n
    BY <1>2, OverOneDenominator
  <2> QED
    BY <1>2, <1>4, <2>1
<1>6. q \preceq p ++ r <=> m <= b
  <2>1. Frac(m, d) \preceq Frac(b, d) <=> m <= b
    BY <1>2, OverOneDenominator
  <2> QED
    BY <1>2, <1>4, <2>1
<1>7. r \preceq p -- q <=> n <= c
  <2>1. Frac(n, d) \preceq Frac(c, d) <=> n <= c
    BY <1>2, OverOneDenominator
  <2> QED
    BY <1>2, <1>4, <2>1
<1>8. q \preceq p -- r <=> m <= e
  <2>1. Frac(m, d) \preceq Frac(e, d) <=> m <= e
    BY <1>2, OverOneDenominator
  <2> QED
    BY <1>2, <1>4, <2>1
<1>9. (a <= n <=> m <= b) /\ (n <= c <=> m <= e)
  BY <1>2, <1>3
<1> QED
  BY <1>5, <1>6, <1>7, <1>8, <1>9

\* A drag leaves both regions a size: the smaller of 5 mm and what they had.
LEMMA ShiftFacts ==
    ASSUME NEW wanted, NEW low, NEW high, IsFraction(wanted), IsFraction(low),
           IsFraction(high), Zero \prec low, Zero \prec high,
           NEW shift, shift = Shift(wanted, low, high)
    PROVE  /\ IsFraction(shift) /\ IsFraction(low ++ shift) /\ IsFraction(high -- shift)
           /\ Zero \prec low ++ shift /\ Zero \prec high -- shift
           /\ Least(MinDragGap, low) \preceq low ++ shift
           /\ Least(MinDragGap, high) \preceq high -- shift
<1>1. IsFraction(Zero) /\ IsFraction(MinDragGap) /\ Zero \prec MinDragGap
  BY WholeIsFrac DEF Zero, MinDragGap, \prec, Whole
<1>2. PICK l, h : l = Least(MinDragGap, low) /\ h = Least(MinDragGap, high)
  OBVIOUS
<1>3. /\ IsFraction(l) /\ IsFraction(h) /\ Zero \prec l /\ Zero \prec h
      /\ l \preceq low /\ h \preceq high
  BY <1>1, <1>2, LeastFacts
<1>4. PICK p, q : p = l -- low /\ q = high -- h
  OBVIOUS
<1>5. IsFraction(p) /\ IsFraction(q)
  BY <1>3, <1>4, AddFacts
<1>6. p \preceq Zero /\ Zero \preceq q
  <2>1. Zero \preceq q
    BY <1>3, <1>4, OrderFacts
  <2>2. Zero \preceq low -- l
    BY <1>3, OrderFacts
  <2>3. PICK n : n = low -- l
    OBVIOUS
  <2>4. IsFraction(n) /\ n ++ l = low
    BY <1>3, <2>3, AddFacts
  <2>5. p ++ n = Zero
    <3>1. PICK d, x, y, z : Over3(l, low, Zero, d, x, y, z)
      BY <1>1, <1>3, OverOne
    <3>2. /\ d \in Nat /\ d # 0 /\ x \in Int /\ y \in Int
          /\ l = Frac(x, d) /\ low = Frac(y, d)
      BY <3>1 DEF Over3
    <3>3. x - y \in Int /\ y - x \in Int
      BY <3>2
    <3>4. p = Frac(x - y, d) /\ n = Frac(y - x, d)
      BY <1>4, <2>3, <3>2, OverOneDenominator
    <3>5. p ++ n = Frac((x - y) + (y - x), d)
      BY <3>2, <3>3, <3>4, OverOneDenominator
    <3>6. (x - y) + (y - x) = 0
      BY <3>2
    <3> QED
      BY <3>2, <3>5, <3>6, ZeroIsFrac
  <2>6. p = Zero -- n
    BY <1>5, <2>4, <2>5, AddFacts
  <2>7. PICK d, x, y, z : Over3(p, n, Zero, d, x, y, z)
    BY <1>1, <1>5, <2>4, OverOne
  <2>8. /\ d \in Nat /\ d # 0 /\ x \in Int /\ y \in Int /\ z \in Int
        /\ p = Frac(x, d) /\ n = Frac(y, d) /\ Zero = Frac(z, d)
    BY <2>7 DEF Over3
  <2>9. x = z - y
    <3>1. PICK e \in Int : e = z - y
      BY <2>8
    <3>2. Frac(z, d) -- Frac(y, d) = Frac(z - y, d)
      BY <2>8, OverOneDenominator
    <3>3. Frac(x, d) = Frac(e, d)
      BY <2>6, <2>8, <3>1, <3>2
    <3> QED
      BY <2>8, <3>1, <3>3, OverOneDenominator
  <2>10. z <= y
    BY <2>2, <2>3, <2>8, OverOneDenominator
  <2>11. z = 0
    BY <2>8, ZeroIsFrac, OverOneDenominator
  <2>12. x <= z
    BY <2>8, <2>9, <2>10, <2>11
  <2> QED
    BY <2>1, <2>8, <2>12, OverOneDenominator
<1>7. PICK g : g = Greatest(wanted, p)
  OBVIOUS
<1>8. IsFraction(g) /\ p \preceq g
  BY <1>5, <1>7, LeastFacts
<1>9. shift = Least(g, q)
  BY <1>2, <1>4, <1>7 DEF Shift
<1>10. IsFraction(shift) /\ shift \preceq q /\ (shift = g \/ shift = q)
  BY <1>5, <1>8, <1>9, LeastFacts
<1>11. p \preceq q
  BY <1>1, <1>5, <1>6, Transitive
<1>12. p \preceq shift
  BY <1>8, <1>10, <1>11
<1>13. l \preceq low ++ shift
  BY <1>3, <1>4, <1>10, <1>12, ShiftLaws
<1>14. h \preceq high -- shift
  BY <1>3, <1>4, <1>10, ShiftLaws
<1>15. PICK s, t : s = low ++ shift /\ t = high -- shift
  OBVIOUS
<1>16. IsFraction(s) /\ IsFraction(t)
  BY <1>10, <1>15, AddFacts
<1>17. Zero \prec s /\ Zero \prec t
  BY <1>1, <1>3, <1>13, <1>14, <1>15, <1>16, Transitive
<1> QED
  BY <1>2, <1>10, <1>13, <1>14, <1>15, <1>16, <1>17

\* A board that nothing holds has an unlocked region on either side.
LEMMA FreeSides ==
    ASSUME NEW u, Struct(u), NEW b \in Boards(u), Movable(u, b)
    PROVE  Past(u, b).low.free # {} /\ Past(u, b).high.free # {}
<1>1. PICK run, low, high : /\ run = u.items[RunOf(u, b)]
                            /\ low = Past(u, b).low /\ high = Past(u, b).high
  OBVIOUS
<1>2. PICK s, t : /\ s = (IF low.free = {} THEN <<run[Max(low.locked)]>> ELSE << >>)
                  /\ t = (IF high.free = {} THEN <<run[Min(high.locked)]>> ELSE << >>)
  OBVIOUS
<1>3. s \o t = << >>
  BY <1>1, <1>2 DEF Movable, Holders
<1>4. PICK S : s \in Seq(S) /\ t \in Seq(S)
  <2>1. PICK x, y : x = run[Max(low.locked)] /\ y = run[Min(high.locked)]
    OBVIOUS
  <2>2. PICK S : S = {x, y}
    OBVIOUS
  <2>3. /\ s = << >> \/ s = <<x>>
        /\ t = << >> \/ t = <<y>>
    BY <1>2, <2>1
  <2>4. << >> \in Seq(S) /\ <<x>> \in Seq(S) /\ <<y>> \in Seq(S)
    BY <2>2
  <2> QED
    BY <2>3, <2>4
<1>5. Len(s) = 0 /\ Len(t) = 0
  <2>1. Len(s \o t) = Len(s) + Len(t) /\ Len(s) \in Nat /\ Len(t) \in Nat
    BY <1>4
  <2> QED
    BY <1>3, <2>1
<1> QED
  BY <1>1, <1>2, <1>5

\* The two regions a drag resizes.
LEMMA BesideFacts ==
    ASSUME NEW u, Struct(u), NEW b \in Boards(u), Movable(u, b)
    PROVE  /\ FreeBeside(u, b).low \in Regions(u) \ {u.root}
           /\ FreeBeside(u, b).high \in Regions(u) \ {u.root}
<1>1. FreeBeside(u, b).low \in Regions(u) /\ FreeBeside(u, b).high \in Regions(u)
  BY HoldersFacts DEF Movable
<1>2. PICK run : run = u.items[RunOf(u, b)]
  OBVIOUS
<1>3. PICK low, high : low = Past(u, b).low /\ high = Past(u, b).high
  OBVIOUS
<1>4. IsSide(u, run, low) /\ IsSide(u, run, high)
  BY <1>2, <1>3, PastFacts DEF Movable
<1>5. Len(run) \in Nat /\ \A x \in 1 .. Len(run) : run[x] # u.root
  <2>1. RunOf(u, b) \in Divisions(u)
    BY BoardsRun
  <2>2. IsRun(run, Nodes(u) \ {u.root})
    BY <1>2, <2>1 DEF Struct
  <2> QED
    BY <2>2, RunFacts
<1>6. low.free # {} /\ high.free # {}
  BY <1>3, FreeSides
<1>7. Max(low.free) \in 1 .. Len(run) /\ Min(high.free) \in 1 .. Len(run)
  BY <1>4, <1>5, <1>6, MaxExists, MinExists DEF IsSide
<1>8. FreeBeside(u, b) = [low |-> run[Max(low.free)], high |-> run[Min(high.free)]]
  BY <1>2, <1>3 DEF FreeBeside
<1> QED
  BY <1>1, <1>5, <1>7, <1>8

\* A drag gives both regions a size above zero, so their weights are (edit.py
\* move_board).
LEMMA MoveIsSound ==
    ASSUME NEW u, Sized(u), NEW b \in Boards(u), Movable(u, b), NEW mm, IsFraction(mm)
    PROVE  Ruled(MoveBoard(u, b, mm))
<1>0. Struct(u) /\ Ruled(u) /\ u.space = Spaces(u) /\ b \in Nodes(u) \ {u.root}
  BY DEF Sized, Struct, Regions
<1>1. PICK d : d = RunOf(u, b)
  OBVIOUS
<1>2. d \in Divisions(u) /\ u.axis[d] \in Axes
  BY <1>0, <1>1, PlaceInRun DEF Ruled
<1>3. PICK l, h : l = FreeBeside(u, b).low /\ h = FreeBeside(u, b).high
  OBVIOUS
<1>4. l \in Regions(u) \ {u.root} /\ h \in Regions(u) \ {u.root}
  BY <1>0, <1>3, BesideFacts
<1>5. PICK p, q : p = Extent(u, l) /\ q = Extent(u, h)
  OBVIOUS
<1>6. IsFraction(p) /\ IsFraction(q) /\ Zero \prec p /\ Zero \prec q
  BY <1>4, <1>5, ExtentFacts DEF Regions
<1>7. PICK x : x = u.space[b].low[u.axis[d]]
  OBVIOUS
<1>8. IsFraction(x)
  BY <1>0, <1>2, <1>7, RoomsFacts DEF Sized, IsRoom
<1>9. PICK wanted : wanted = mm -- x
  OBVIOUS
<1>10. IsFraction(wanted)
  BY <1>8, <1>9, AddFacts
<1>11. PICK shift : shift = Shift(wanted, p, q)
  OBVIOUS
<1>12. PICK s, t : s = p ++ shift /\ t = q -- shift
  OBVIOUS
<1>13. IsFraction(s) /\ IsFraction(t) /\ Zero \prec s /\ Zero \prec t
  BY <1>6, <1>10, <1>11, <1>12, ShiftFacts
<1>14. PICK f, g : f = SharingRule(u, d, {}, s) /\ g = SharingRule(u, d, {}, t)
  OBVIOUS
<1>15. IsRule(f, FALSE) /\ IsRule(g, FALSE)
  BY <1>2, <1>13, <1>14, SharingIsSound
<1>16. PICK v : v = WithRule(u, l, f)
  OBVIOUS
<1>17. Ruled(v) /\ Struct(v) /\ h \in Regions(v)
  <2>1. Ruled(v)
    BY <1>0, <1>4, <1>15, <1>16, OneRuleIsSound
  <2>2. Struct(v) /\ Nodes(v) = Nodes(u) /\ Boards(v) = Boards(u)
    BY <1>0, <1>4, <1>16, WithRuleFacts DEF IsWithRule
  <2> QED
    BY <1>4, <2>1, <2>2 DEF Regions
<1>18. Ruled(WithRule(v, h, g))
  BY <1>15, <1>17, OneRuleIsSound, Zenon
<1>19. MoveBoard(u, b, mm) = WithRule(v, h, g)
  BY <1>1, <1>3, <1>5, <1>7, <1>9, <1>11, <1>12, <1>14, <1>16, Zenon DEF MoveBoard, Resized, AxisOf
<1> QED
  BY <1>18, <1>19

\* What the session's unit is but for solving: a framed tree with sound rules, its
\* nodes where solve() puts them.
LaidOut(u) == Struct(u) /\ IsFramed(u) /\ Ruled(u) /\ u.space = Spaces(u)

\* Solving makes such a unit of one whose rules are sound.
LEMMA SolvedIsLaidOut ==
    ASSUME NEW u, Struct(u), IsFramed(u), Ruled(u)
    PROVE  LaidOut(Solved(u))
BY SolvedIs DEF LaidOut

\* What holds of a removal's record.
LaidOutSoFar(d, n, r) == DOMAIN r = {"unit", "outcome"} /\ LaidOut(r.unit)
\* The fold of these.
Clearing == INSTANCE FoldTheorems WITH Op <- Removal, P <- LaidOutSoFar

\* Removing boards keeps the rules sound: each removal merges a unit that solves
\* (edit.py remove_boards).
LEMMA RemovalsAreSound ==
    ASSUME NEW u, Sized(u), NEW S, NEW bs \in Seq(S)
    PROVE  LaidOut(RemoveBoards(u, bs).unit)
<1> DEFINE base == [unit |-> u, outcome |-> "done"]
           v == Clearing!Fold(0, base, bs)
<1>1. RemoveBoards(u, bs) = v
  BY DEF RemoveBoards, Removal, Clearing!Fold, FoldLeft, Clearing!FoldLeft, MapThenFoldSet,
         Clearing!MapThenFoldSet, Max, Clearing!Max
<1>2. LaidOutSoFar(u, 0, base)
  BY DEF LaidOutSoFar, LaidOut, Sized
<1>3. ASSUME NEW k \in 1 .. Len(bs), NEW r, LaidOutSoFar(u, k - 1, r)
      PROVE  LaidOutSoFar(u, k, Removal(0, r, bs[k]))
  <2>1. PICK b, w : b = bs[k] /\ w = r.unit
    OBVIOUS
  <2>2. DOMAIN r = {"unit", "outcome"} /\ LaidOut(w)
    BY <1>3, <2>1 DEF LaidOutSoFar
  <2>3. PICK m : m = Solved(MergeAt(w, b))
    OBVIOUS
  <2>4. Solves(w) /\ CanMerge(w, b) => LaidOut(m)
    <3>1. SUFFICES ASSUME Solves(w), CanMerge(w, b) PROVE LaidOut(m)
      OBVIOUS
    <3>2. Sized(w) /\ Struct(w) /\ IsFramed(w) /\ Fields \subseteq DOMAIN w
      BY <2>2, <3>1 DEF LaidOut, Sized, Struct
    <3>3. PICK c : c = MergeAt(w, b)
      OBVIOUS
    <3>4. Ruled(c)
      BY <3>1, <3>2, <3>3, MergeIsSound
    <3>5. Struct(c)
      BY <3>1, <3>2, <3>3, MergeFacts DEF Keeps
    <3>6. IsFramed(c)
      BY <3>2, <3>3, MergeFrame DEF SameFrame, IsFramed
    <3> QED
      BY <2>3, <3>3, <3>4, <3>5, <3>6, SolvedIsLaidOut
  <2>5. PICK c : c = Removal(0, r, b)
    OBVIOUS
  <2>6. \/ c = r
        \/ c = [r EXCEPT !.outcome = "raised"]
        \/ c = [r EXCEPT !.outcome = "refused"]
        \/ (Solves(w) /\ CanMerge(w, b) /\ c = [r EXCEPT !.unit = m])
    BY <2>1, <2>3, <2>5 DEF Removal
  <2>7. /\ DOMAIN c = {"unit", "outcome"}
        /\ (c.unit = w) \/ (Solves(w) /\ CanMerge(w, b) /\ c.unit = m)
    <3>1. DOMAIN r = {"unit", "outcome"} /\ r.unit = w
      BY <2>1, <2>2
    <3>2. CASE c = r
      BY <3>1, <3>2
    <3>3. CASE c = [r EXCEPT !.outcome = "raised"]
      <4>1. DOMAIN c = {"unit", "outcome"} /\ c.unit = w
        BY <3>1, <3>3
      <4> QED
        BY <4>1
    <3>4. CASE c = [r EXCEPT !.outcome = "refused"]
      <4>1. DOMAIN c = {"unit", "outcome"} /\ c.unit = w
        BY <3>1, <3>4
      <4> QED
        BY <4>1
    <3>5. CASE Solves(w) /\ CanMerge(w, b) /\ c = [r EXCEPT !.unit = m]
      <4>1. DOMAIN c = {"unit", "outcome"} /\ c.unit = m
        BY <3>1, <3>5
      <4> QED
        BY <3>5, <4>1
    <3> QED
      BY <2>6, <3>2, <3>3, <3>4, <3>5
  <2> QED
    BY <2>1, <2>2, <2>4, <2>5, <2>7 DEF LaidOutSoFar
<1>4. LaidOutSoFar(u, Len(bs), v)
  <2> HIDE DEF base
  <2> QED
    BY <1>2, <1>3, Clearing!FoldInvariant
<1> QED
  BY <1>1, <1>4 DEF LaidOutSoFar

------------------------------------------------------------------------------
(* The steps of the session.                                               *)

\* Thicknesses above zero leave the rules sound (edit.py set_thickness).
LEMMA ThicknessIsSound ==
    ASSUME NEW u, Struct(u), Ruled(u), NEW bs, NEW mm, IsFraction(mm), Zero \prec mm
    PROVE  Ruled(SetThickness(u, bs, mm))
<1>1. PICK t : t = [b \in DOMAIN u.thick |-> IF b \in bs THEN mm ELSE u.thick[b]]
  OBVIOUS
<1>2. PICK v : v = SetThickness(u, bs, mm)
  OBVIOUS
<1>3. v = [u EXCEPT !.thick = t]
  BY <1>1, <1>2 DEF SetThickness
<1>4. v.thick = t /\ v.rule = u.rule /\ v.items = u.items /\ v.axis = u.axis
  BY <1>3 DEF Struct, Fields
<1>5. DOMAIN t = DOMAIN u.thick /\ \A b \in DOMAIN u.thick : IsFraction(t[b]) /\ Zero \prec t[b]
  BY <1>1 DEF Ruled, Boards
<1> QED
  BY <1>2, <1>4, <1>5 DEF Ruled, Nodes, Boards, Divisions

\* A new outer size is no rule (edit.py set_unit_size).
LEMMA UnitSizeIsSound ==
    ASSUME NEW u, Struct(u), Ruled(u), NEW a, NEW mm
    PROVE  Ruled(SetUnitSize(u, a, mm))
<1>1. PICK v, x : v = SetUnitSize(u, a, mm) /\ x = FixedPoint(u, a) -- FixedOffset(u, a, mm)
  OBVIOUS
<1>2. v = [u EXCEPT !.size[a] = mm, !.low[a] = x]
  BY <1>1 DEF SetUnitSize
<1>3. v.thick = u.thick /\ v.rule = u.rule /\ v.items = u.items /\ v.axis = u.axis
  BY <1>2 DEF Struct, Fields
<1> QED
  BY <1>1, <1>3 DEF Ruled, Nodes, Boards, Divisions

\* v is the solved layout of an edit that is sound.
Accepted(v) == \E c : Struct(c) /\ Ruled(c) /\ v = Solved(c) /\ Solves(v)

\* There are identifiers for a split.
LEMMA RoomForSplit ==
    ASSUME Inv
    PROVE  Room(unit)
<1>1. PICK n : n = Cardinality(Nodes(unit))
  OBVIOUS
<1>2. n \in Nat
  BY <1>1, FS_CardinalityType DEF Inv, Struct
<1>3. MaxEdits \in Nat /\ edits \in 0 .. MaxEdits
  BY BoundAssumption DEF Inv
<1>4. n + 4 <= n + 4 * (MaxEdits + 1 - edits)
  BY <1>2, <1>3
<1>5. ASSUME IsFiniteSet(Ids) PROVE n + 4 <= Cardinality(Ids)
  <2>1. n + 4 * (MaxEdits + 1 - edits) <= Cardinality(Ids)
    BY <1>1, <1>5 DEF Inv, EnoughIds
  <2>2. Cardinality(Ids) \in Nat
    BY <1>5, FS_CardinalityType
  <2> QED
    BY <1>2, <1>3, <1>4, <2>1, <2>2
<1> QED
  BY <1>1, <1>5 DEF Room, EnoughIds

\* An edit of the session's unit makes a sized one, or raises and leaves it.
LEMMA EditIsSound ==
    ASSUME Inv, Sized(unit), edits < MaxEdits, Edit
    PROVE  unit' = unit \/ Accepted(unit')
<1> USE DEF Apply
<1>0. Struct(unit) /\ Ruled(unit) /\ Fields \subseteq DOMAIN unit /\ Boards(unit) \subseteq Nodes(unit)
  BY DEF Inv, Sized, Struct
<1>a. ASSUME NEW c, Sized(Solved(c)), unit' = Solved(c), Solves(unit') PROVE Accepted(unit')
  <2>1. PICK v : v = Solved(c)
    OBVIOUS
  <2>2. Struct(v) /\ Ruled(v) /\ v.space = Spaces(v)
    BY <1>a, <2>1 DEF Sized
  <2>3. Solved(v) = v
    <3>1. PICK s : s = Spaces(c)
      OBVIOUS
    <3>2. v = [c EXCEPT !.space = s]
      BY <2>1, <3>1 DEF Solved
    <3>3. v.space = s
      BY <2>2, <3>2 DEF Struct, Fields
    <3>4. Solved(v) = [v EXCEPT !.space = s]
      BY <2>2, <3>3 DEF Solved
    <3> QED
      BY <3>2, <3>4
  <2> QED
    BY <1>a, <2>1, <2>2, <2>3 DEF Accepted
<1>1. ASSUME NEW r \in Bays(unit), NEW a \in Axes, Split(r, a) PROVE Accepted(unit')
  <2>1. Room(unit) /\ CanSplit(unit, r, a)
    BY <1>1, RoomForSplit DEF Split
  <2>2. PICK c : c = SplitRegion(unit, r, a)
    OBVIOUS
  <2>3. Struct(c) /\ Ruled(c)
    BY <1>0, <2>1, <2>2, SplitFacts, SplitIsSound DEF Keeps
  <2> QED
    BY <1>1, <2>2, <2>3 DEF Split, Accepted
<1>2. ASSUME NEW bs \in Selections(unit), DeleteBoards(bs) PROVE unit' = unit \/ Accepted(unit')
  <2>1. PICK r : r = RemoveBoards(unit, bs)
    OBVIOUS
  <2>2. bs \in Seq(Boards(unit))
    BY DEF Selections, SeqOf
  <2>3. Struct(r.unit) /\ Ruled(r.unit)
    BY <2>1, <2>2, RemovalsAreSound DEF LaidOut
  <2> QED
    BY <1>2, <2>1, <2>3 DEF DeleteBoards, Removed, Accepted
<1>3. ASSUME NEW bs \in Selections(unit), NEW mm \in Thicknesses, SwapStock(bs, mm)
      PROVE  Accepted(unit')
  <2>1. PICK c : c = SetThickness(unit, Range(bs), mm)
    OBVIOUS
  <2>2. IsFraction(mm) /\ Zero \prec mm
    BY RulesAssumption
  <2>3. Struct(c) /\ Ruled(c)
    BY <1>0, <2>1, <2>2, SizeFacts, ThicknessIsSound DEF KeepsNodes, Keeps
  <2> QED
    BY <1>3, <2>1, <2>3 DEF SwapStock, Accepted
<1>4. ASSUME NEW r \in Regions(unit), NEW mm \in Sizes, TypeSize(r, mm) PROVE Accepted(unit')
  <2>1. PICK basis : basis = MeasuredBasis(unit, r)
    OBVIOUS
  <2>2. basis \in Bases
    BY <1>0, <2>1, RegionsRule DEF MeasuredBasis, Locked, IsRule, Bases
  <2>3. IsFraction(mm) /\ Zero \prec mm
    BY RulesAssumption
  <2>4. PICK rule : rule = Fixed(mm, basis)
    OBVIOUS
  <2>5. IsRule(rule, FALSE)
    BY <2>2, <2>3, <2>4 DEF IsRule, Fixed
  <2>6. PICK c : c = WithRule(unit, r, rule)
    OBVIOUS
  <2>7. c = SetSize(unit, r, mm, basis)
    BY <2>4, <2>6 DEF SetSize
  <2>8. Struct(c) /\ Ruled(c)
    BY <1>0, <2>5, <2>6, WithRuleFacts, OneRuleIsSound DEF IsWithRule
  <2> QED
    BY <1>4, <2>1, <2>7, <2>8 DEF TypeSize, Accepted
<1>5. ASSUME NEW r \in Regions(unit), NEW basis \in Bases, ChangeBasis(r, basis)
      PROVE  Accepted(unit')
  BY <1>5, <1>a, SetBasisMovesNothing DEF ChangeBasis, CanSetSize, CanFix, Sizable
<1>6. ASSUME NEW r \in Regions(unit), SetLock(r) PROVE Accepted(unit')
  BY <1>6, <1>a, LockMovesNothing DEF SetLock, CanFix, Sizable
<1>7. ASSUME NEW r \in Regions(unit), ClearLock(r) PROVE Accepted(unit')
  BY <1>7, <1>a, UnlockMovesNothing DEF ClearLock, Sizable
<1>8. ASSUME NEW b \in Boards(unit), FreeBoard(b) PROVE Accepted(unit')
  <2>1. PICK c : c = UnlockHolders(unit, b)
    OBVIOUS
  <2>2. Struct(c) /\ Ruled(c)
    BY <1>8, <2>1, UnlockHoldersMovesNothing DEF FreeBoard, Sized
  <2> QED
    BY <1>8, <2>1, <2>2 DEF FreeBoard, Accepted
<1>9. ASSUME NEW b \in Boards(unit), NEW mm \in LowFaces, DragTo(b, mm) PROVE Accepted(unit')
  <2>1. PICK c : c = MoveBoard(unit, b, mm)
    OBVIOUS
  <2>2. Movable(unit, b) /\ IsFraction(mm)
    BY <1>9, RulesAssumption DEF DragTo
  <2>3. Struct(c) /\ Ruled(c)
    BY <1>0, <2>1, <2>2, MoveFacts, MoveIsSound DEF KeepsNodes, Keeps
  <2> QED
    BY <1>9, <2>1, <2>3 DEF DragTo, Accepted
<1>10. ASSUME NEW a \in Axes, NEW mm \in UnitSizes, Resize(a, mm) PROVE Accepted(unit')
  <2>1. PICK c : c = SetUnitSize(unit, a, mm)
    OBVIOUS
  <2>2. Struct(c) /\ Ruled(c)
    BY <1>0, <2>1, SizeFacts, UnitSizeIsSound DEF KeepsNodes, Keeps
  <2> QED
    BY <1>10, <2>1, <2>2 DEF Resize, Accepted
<1>11. ASSUME NEW a \in Axes, NEW side \in Sides, SetFixedSide(a, side) PROVE Accepted(unit')
  <2>1. PICK c : c = [unit EXCEPT !.fixed[a] = side]
    OBVIOUS
  <2>2. Struct(c)
    BY <1>0, <2>1, SizeFacts DEF KeepsNodes, Keeps
  <2>3. c.rule = unit.rule /\ c.thick = unit.thick /\ c.items = unit.items /\ c.axis = unit.axis
    BY <1>0, <2>1 DEF Fields
  <2>4. Ruled(c)
    BY <1>0, <2>3 DEF Ruled, Nodes, Boards, Divisions
  <2> QED
    BY <1>11, <2>1, <2>2, <2>4 DEF SetFixedSide, Accepted
<1> QED
  BY <1>1, <1>2, <1>3, <1>4, <1>5, <1>6, <1>7, <1>8, <1>9, <1>10, <1>11 DEF Edit

\* The inductive invariant: a sound layout in a frame, with sound rules, that solves
\* and is where solve() puts it.
SizedInv == FrameInv /\ Sized(unit)

\* Every step keeps it,
LEMMA SizedStep ==
    ASSUME SizedInv, [Next]_vars
    PROVE  SizedInv'
<1>1. FrameInv'
  BY FrameStep DEF SizedInv
<1>2. CASE Next
  <2>1. unit' = unit \/ Accepted(unit')
    BY <1>2, EditIsSound DEF Next, SizedInv, FrameInv
  <2>2. PICK v : v = unit'
    OBVIOUS
  <2>3. IsFramed(v)
    BY <1>1, <2>2 DEF FrameInv, IsFramed
  <2>4. ASSUME NEW c, Struct(c), Ruled(c), v = Solved(c), Solves(v) PROVE Sized(v)
    <3>1. IsFramed(c)
      BY <2>3, <2>4, SolvedIs
    <3> QED
      BY <2>4, <3>1, SolvedIsSized
  <2>5. Sized(v)
    BY <2>1, <2>2, <2>4 DEF Accepted, SizedInv
  <2> QED
    BY <1>1, <2>2, <2>5 DEF SizedInv
<1>3. CASE UNCHANGED vars
  BY <1>1, <1>3 DEF SizedInv, vars
<1> QED
  BY <1>2, <1>3

\* and a session opens with it.
LEMMA SizedStart ==
    ASSUME Init
    PROVE  SizedInv
<1>1. PICK u \in StartUnits : unit = Solved(u)
  BY DEF Init
<1>2. Struct(u) /\ IsFramed(u) /\ Ruled(u) /\ Solves(Solved(u))
  BY StartAssumption, FrameAssumption, RulesAssumption, LayoutIsStruct
<1>3. Sized(Solved(u))
  BY <1>2, SolvedIsSized
<1> QED
  BY <1>1, <1>3, FrameStart DEF SizedInv

\* Through every edit the unit is one that solve() takes, every node where solve()
\* puts it, every size, weight and thickness above zero (session.py _apply).
THEOREM UnitIsSized == Spec => []SizedInv
<1>1. Init => SizedInv
  BY SizedStart
<1>2. SizedInv /\ [Next]_vars => SizedInv'
  BY SizedStep
<1> QED
  BY <1>1, <1>2, PTL DEF Spec

\* The unit is one tree of finitely many nodes, framed, its rules sound and every node
\* in its place, however many edits came before (session.py _apply; edit.py).
THEOREM UnitIsTyped == Spec => []TypeOK
<1>1. SizedInv => TypeOK
  BY StructIsLayout DEF SizedInv, FrameInv, Inv, Sized, AllPlaced, TypeOK
<1> QED
  BY <1>1, UnitIsSized, PTL

------------------------------------------------------------------------------
(* What an edit leaves where it was.                                       *)

\* The run of d in v is like that of e in u: place for place the same rule, and a board
\* of the same thickness where there is one.
Alike(u, e, v, d) ==
    /\ DOMAIN v.items[d] = DOMAIN u.items[e] /\ Len(v.items[d]) = Len(u.items[e])
    /\ \A k \in DOMAIN u.items[e] :
          /\ v.rule[v.items[d][k]] = u.rule[u.items[e][k]]
          /\ v.items[d][k] \in Boards(v) <=> u.items[e][k] \in Boards(u)
          /\ u.items[e][k] \in Boards(u) => v.thick[v.items[d][k]] = u.thick[u.items[e][k]]

\* The solver does the same with it.
LEMMA AlikeFacts ==
    ASSUME NEW u, Struct(u), Ruled(u), NEW e \in Divisions(u), NEW v, NEW d, Alike(u, e, v, d)
    PROVE  /\ DrivenPlaces(v, d) = DrivenPlaces(u, e)
           /\ \A k \in DOMAIN u.items[e] : /\ WeightAt(v, d, k) = WeightAt(u, e, k)
                                           /\ Resolves(v, d, k) <=> Resolves(u, e, k)
                                           /\ FixedMm(v, d, k) = FixedMm(u, e, k)
           /\ \A mm, scale : RulesShow(u, e, mm, scale) => RulesShow(v, d, mm, scale)
<1>1. /\ DOMAIN u.items[e] = 1 .. Len(u.items[e]) /\ Len(u.items[e]) \in Nat
      /\ \A k \in DOMAIN u.items[e] : u.items[e][k] \in Nodes(u) \ {u.root}
  BY RunIsTyped
<1>2. DrivenPlaces(v, d) = DrivenPlaces(u, e)
  BY DEF Alike, DrivenPlaces, Driven
<1>3. \A k \in DOMAIN u.items[e] : WeightAt(v, d, k) = WeightAt(u, e, k)
  BY DEF Alike, WeightAt
<1>4. ASSUME NEW k \in DOMAIN u.items[e] PROVE Resolves(v, d, k) <=> Resolves(u, e, k)
  <2>1. k < Len(u.items[e]) => k + 1 \in DOMAIN u.items[e]
    BY <1>1
  <2>2. k < Len(u.items[e]) => (v.items[d][k + 1] \in Boards(v) <=> u.items[e][k + 1] \in Boards(u))
    BY <2>1 DEF Alike
  <2> QED
    BY <2>2 DEF Alike, Resolves
<1>5. ASSUME NEW k \in DOMAIN u.items[e] PROVE FixedMm(v, d, k) = FixedMm(u, e, k)
  <2>1. PICK rule : rule = u.rule[u.items[e][k]]
    OBVIOUS
  <2>2. v.rule[v.items[d][k]] = rule /\ IsRule(rule, u.items[e][k] \in Boards(u))
    BY <1>1, <2>1 DEF Alike, Ruled
  <2>3. CASE rule.kind = "own"
    <3>1. u.items[e][k] \in Boards(u)
      BY <2>2, <2>3 DEF IsRule
    <3>2. v.thick[v.items[d][k]] = u.thick[u.items[e][k]]
      BY <3>1 DEF Alike
    <3> QED
      BY <2>1, <2>2, <2>3, <3>2 DEF FixedMm
  <2>4. CASE rule.kind = "driven"
    BY <2>1, <2>2, <2>4 DEF FixedMm
  <2>5. CASE rule.kind = "fixed" /\ rule.basis = "clear"
    BY <2>1, <2>2, <2>5 DEF FixedMm
  <2>6. CASE rule.kind = "fixed" /\ rule.basis = "with_next"
    <3>1. CASE Resolves(u, e, k)
      <4>1. k < Len(u.items[e]) /\ u.items[e][k + 1] \in Boards(u)
        BY <2>1, <2>6, <3>1 DEF Resolves
      <4>2. k + 1 \in DOMAIN u.items[e]
        BY <1>1, <4>1
      <4>3. v.thick[v.items[d][k + 1]] = u.thick[u.items[e][k + 1]]
        BY <4>1, <4>2 DEF Alike
      <4> QED
        BY <1>4, <2>1, <2>2, <2>6, <3>1, <4>3 DEF FixedMm
    <3>2. CASE ~Resolves(u, e, k)
      BY <1>4, <2>1, <2>2, <2>6, <3>2 DEF FixedMm
    <3> QED
      BY <3>1, <3>2
  <2> QED
    BY <2>2, <2>3, <2>4, <2>5, <2>6 DEF IsRule, Bases
<1>6. ASSUME NEW mm, NEW scale, RulesShow(u, e, mm, scale) PROVE RulesShow(v, d, mm, scale)
  <2>1. DOMAIN v.items[d] = DOMAIN u.items[e]
    BY DEF Alike
  <2>2. \A k \in DOMAIN u.items[e] :
           mm[k] = IF k \in DrivenPlaces(u, e) THEN scale ** WeightAt(u, e, k)
                   ELSE FixedMm(u, e, k)
    BY <1>6 DEF RulesShow
  <2> QED
    BY <1>2, <1>3, <1>5, <1>6, <2>1, <2>2 DEF RulesShow
<1> QED
  BY <1>2, <1>3, <1>4, <1>5, <1>6

\* Where the k-th member of a run is, and that it has a room of its own.
IsBox(x) ==
    /\ x = [low |-> x.low, size |-> x.size]
    /\ x.low = [c \in Axes |-> x.low[c]] /\ x.size = [c \in Axes |-> x.size[c]]

\* Two rooms with the same places and sizes are one room.
LEMMA BoxesAgree ==
    ASSUME NEW x, NEW y, IsBox(x), IsBox(y),
           \A c \in Axes : x.low[c] = y.low[c] /\ x.size[c] = y.size[c]
    PROVE  x = y
<1>1. x.low = y.low
  <2>1. x.low = [c \in Axes |-> x.low[c]] /\ y.low = [c \in Axes |-> y.low[c]]
    BY DEF IsBox
  <2> QED
    BY <2>1
<1>2. x.size = y.size
  <2>1. x.size = [c \in Axes |-> x.size[c]] /\ y.size = [c \in Axes |-> y.size[c]]
    BY SMTT(40) DEF IsBox
  <2> QED
    BY <2>1
<1> QED
  BY <1>1, <1>2 DEF IsBox

\* The room of the k-th member of a run whose sizes are mm, in room w along a.
AtPlace(x, w, a, k, mm) ==
    /\ IsRoom(x) /\ IsBox(x)
    /\ x.size[a] = mm[k] /\ x.low[a] = w.low[a] ++ Sum(mm, 1 .. k - 1)
    /\ \A c \in Axes \ {a} : x.size[c] = w.size[c] /\ x.low[c] = w.low[c]

\* Every member of a run has the room the solver gives its place.
LEMMA RoomAlong ==
    ASSUME NEW u, Struct(u), IsFramed(u), Ruled(u), NEW d \in Divisions(u)
    PROVE  LET a == u.axis[d]
               w == Spaces(u)[d]
               mm == Distribute(u, d, w.size[a])
           IN  /\ a \in Axes /\ IsRoom(w) /\ RunTyped(u, d) /\ Fractional(mm, DOMAIN u.items[d])
               /\ DOMAIN mm = DOMAIN u.items[d] /\ mm = [k \in DOMAIN mm |-> mm[k]]
               /\ DOMAIN u.items[d] = 1 .. Len(u.items[d]) /\ Len(u.items[d]) \in Nat
               /\ \A k \in DOMAIN u.items[d] : AtPlace(Spaces(u)[u.items[d][k]], w, a, k, mm)
<1>1. PICK a, w, mm : /\ a = u.axis[d] /\ w = Spaces(u)[d]
                      /\ mm = Distribute(u, d, w.size[a])
  OBVIOUS
<1>2. a \in Axes /\ d \in Nodes(u)
  BY <1>1 DEF Ruled, Struct, Regions
<1>3. IsRoom(w)
  BY <1>1, <1>2, RoomsFacts
<1>4. /\ RunTyped(u, d) /\ DOMAIN u.items[d] = 1 .. Len(u.items[d]) /\ Len(u.items[d]) \in Nat
  BY RunIsTyped
<1>5. Fractional(mm, DOMAIN u.items[d])
  BY <1>1, <1>2, <1>3, <1>4, DistributeTyped DEF IsRoom
<1>6. mm = [k \in DOMAIN u.items[d] |-> mm[k]] /\ DOMAIN mm = DOMAIN u.items[d]
  BY <1>1 DEF Distribute
<1>7. ASSUME NEW k \in DOMAIN u.items[d]
      PROVE  AtPlace(Spaces(u)[u.items[d][k]], w, a, k, mm)
  <2>1. PICK x : x = InRun(w, a, k, mm)
    OBVIOUS
  <2>2. Spaces(u)[u.items[d][k]] = x
    BY <1>1, <2>1, MemberRoom
  <2>3. /\ IsRoom(x) /\ x.size[a] = mm[k] /\ x.low[a] = w.low[a] ++ Sum(mm, 1 .. k - 1)
        /\ \A c \in Axes \ {a} : x.size[c] = w.size[c] /\ x.low[c] = w.low[c]
    BY <1>2, <1>3, <1>4, <1>5, <2>1, InRunFacts
  <2>4. IsBox(x)
    <3>1. PICK y, z : y = w.low[a] ++ Sum(mm, 1 .. k - 1) /\ z = mm[k]
      OBVIOUS
    <3>2. x = [low |-> [w.low EXCEPT ![a] = y], size |-> [w.size EXCEPT ![a] = z]]
      BY <2>1, <3>1, SMTT(40) DEF InRun
    <3> QED
      BY <1>3, <3>2 DEF IsBox, IsRoom
  <2> QED
    BY <2>2, <2>3, <2>4 DEF AtPlace
<1> QED
  BY <1>1, <1>2, <1>3, <1>4, <1>5, <1>6, <1>7, Zenon

\* The rules of the run of d give the sizes mm, all above zero, at some scale.
ShowsRun(u, d, mm) ==
    /\ mm = [k \in DOMAIN u.items[d] |-> mm[k]]
    /\ \A k \in DOMAIN u.items[d] :
          IsFraction(mm[k]) /\ Zero \prec mm[k] /\ Resolves(u, d, k)
    /\ \E scale : RulesShow(u, d, mm, scale)

\* Every run of a sized unit does.
LEMMA SizedShows ==
    ASSUME NEW u, Sized(u), NEW d \in Divisions(u)
    PROVE  LET mm == ShownSizes(u, d)
               w == u.space[d]
               a == u.axis[d]
           IN  /\ ShowsRun(u, d, mm) /\ Sum(mm, DOMAIN u.items[d]) = w.size[a]
               /\ a \in Axes /\ IsRoom(w) /\ Fractional(mm, DOMAIN u.items[d])
               /\ DOMAIN u.items[d] = 1 .. Len(u.items[d]) /\ Len(u.items[d]) \in Nat
               /\ \A k \in DOMAIN u.items[d] : /\ AtPlace(u.space[u.items[d][k]], w, a, k, mm)
                                               /\ mm[k] = Extent(u, u.items[d][k])
<1>1. PICK mm, w, a : mm = ShownSizes(u, d) /\ w = u.space[d] /\ a = u.axis[d]
  OBVIOUS
<1>2. /\ a \in Axes /\ IsRoom(w) /\ Sum(mm, DOMAIN u.items[d]) = w.size[a]
      /\ \E scale : RulesShow(u, d, mm, scale)
      /\ mm = Distribute(u, d, w.size[a])
      /\ \A k \in DOMAIN u.items[d] : /\ IsFraction(mm[k]) /\ Zero \prec mm[k] /\ Resolves(u, d, k)
                                      /\ mm[k] = Extent(u, u.items[d][k])
  BY <1>1, SizedRun, SMTT(40)
<1>3. mm = [k \in DOMAIN u.items[d] |-> mm[k]]
  BY <1>1 DEF ShownSizes
<1>4. u.space = Spaces(u) /\ Struct(u) /\ IsFramed(u) /\ Ruled(u)
  BY DEF Sized
<1>5. /\ \A k \in DOMAIN u.items[d] : AtPlace(u.space[u.items[d][k]], w, a, k, mm)
      /\ Fractional(mm, DOMAIN u.items[d])
      /\ DOMAIN u.items[d] = 1 .. Len(u.items[d]) /\ Len(u.items[d]) \in Nat
  <2>1. LET b == u.axis[d]
            x == Spaces(u)[d]
            y == Distribute(u, d, x.size[b])
        IN  /\ Fractional(y, DOMAIN u.items[d])
            /\ DOMAIN u.items[d] = 1 .. Len(u.items[d]) /\ Len(u.items[d]) \in Nat
            /\ \A k \in DOMAIN u.items[d] : AtPlace(Spaces(u)[u.items[d][k]], x, b, k, y)
    BY <1>4, RoomAlong, Zenon
  <2>2. Spaces(u)[d] = w /\ u.axis[d] = a /\ Distribute(u, d, w.size[a]) = mm
    BY <1>1, <1>2, <1>4, Zenon
  <2>3. \A k \in DOMAIN u.items[d] : Spaces(u)[u.items[d][k]] = u.space[u.items[d][k]]
    BY <1>4
  <2> QED
    BY <2>1, <2>2, <2>3
<1> QED
  BY <1>1, <1>2, <1>3, <1>5, Zenon DEF ShowsRun

\* So does a run like one that does.
LEMMA AlikeShows ==
    ASSUME NEW u, Struct(u), Ruled(u), NEW e \in Divisions(u), NEW v, NEW d, Alike(u, e, v, d),
           NEW mm, ShowsRun(u, e, mm)
    PROVE  ShowsRun(v, d, mm)
<1>1. DOMAIN v.items[d] = DOMAIN u.items[e]
  BY DEF Alike
<1>2. PICK scale : RulesShow(u, e, mm, scale)
  BY DEF ShowsRun
<1>3. RulesShow(v, d, mm, scale)
  BY <1>2, AlikeFacts
<1>4. \A k \in DOMAIN u.items[e] :
         IsFraction(mm[k]) /\ Zero \prec mm[k] /\ Resolves(u, e, k)
  BY DEF ShowsRun
<1>5. \A k \in DOMAIN u.items[e] : Resolves(v, d, k)
  BY <1>4, AlikeFacts
<1> QED
  BY <1>1, <1>3, <1>4, <1>5 DEF ShowsRun

\* The sizes are then what distributing their sum gives, with nothing below zero left
\* over.
LEMMA ShownFills ==
    ASSUME NEW v, Struct(v), Ruled(v), NEW d \in Divisions(v), NEW mm, ShowsRun(v, d, mm),
           NEW span, Sum(mm, DOMAIN v.items[d]) = span
    PROVE  /\ Distribute(v, d, span) = mm
           /\ Zero \preceq Slack(v, d, span)
           /\ DrivenPlaces(v, d) = {} => Slack(v, d, span) = Zero
<1>1. RunTyped(v, d)
  BY RunIsTyped
<1>2. PICK scale : RulesShow(v, d, mm, scale)
  BY DEF ShowsRun
<1>3. /\ \A k \in DOMAIN v.items[d] : Distribute(v, d, span)[k] = mm[k]
      /\ Zero \preceq Slack(v, d, span)
      /\ DrivenPlaces(v, d) = {} => Slack(v, d, span) = Zero
  BY <1>1, <1>2, ShownIsDistributed
<1>4. PICK x : x = Distribute(v, d, span)
  BY SMTT(40)
<1>5. x = [k \in DOMAIN v.items[d] |-> x[k]] /\ mm = [k \in DOMAIN v.items[d] |-> mm[k]]
  BY <1>4 DEF Distribute, ShowsRun
<1>6. x = mm
  BY <1>3, <1>4, <1>5
<1> QED
  BY <1>3, <1>4, <1>6

\* The runs of the nodes K show the rooms their members of K have in u.
KeepsRooms(u, v, K) ==
    \A d \in Divisions(v) \cap K :
        \E mm : /\ ShowsRun(v, d, mm)
                /\ Sum(mm, DOMAIN v.items[d]) = u.space[d].size[v.axis[d]]
                /\ \A k \in DOMAIN v.items[d] : v.items[d][k] \in K =>
                      AtPlace(u.space[v.items[d][k]], u.space[d], v.axis[d], k, mm)

\* Then solve() leaves them where they are.
LEMMA KeptRooms ==
    ASSUME NEW u, NEW v, Struct(v), IsFramed(v), Ruled(v), NEW K,
           v.root \in K => u.space[v.root] = OuterSpace(v),
           \A d \in Divisions(v) : \A k \in DOMAIN v.items[d] : v.items[d][k] \in K => d \in K,
           KeepsRooms(u, v, K)
    PROVE  \A i \in Nodes(v) \cap K : Spaces(v)[i] = u.space[i]
<1> DEFINE T == {i \in Nodes(v) : i \in K => Spaces(v)[i] = u.space[i]}
<1>1. v.root \in T
  <2>1. v.root \in Nodes(v)
    BY DEF Struct, Regions
  <2>2. Spaces(v)[v.root] = OuterSpace(v)
    BY <2>1, SpacesFacts DEF Places
  <2> QED
    BY <2>1, <2>2
<1>2. ASSUME NEW d \in Divisions(v), d \in T, NEW i \in Range(v.items[d])
      PROVE  i \in T
  <2>1. PICK k \in DOMAIN v.items[d] : i = v.items[d][k]
    BY DEF Range
  <2>2. i \in Nodes(v)
    BY <2>1, RunIsTyped
  <2>3. SUFFICES ASSUME i \in K PROVE Spaces(v)[i] = u.space[i]
    BY <2>2
  <2>4. d \in K
    BY <2>1, <2>3
  <2>5. PICK w, a : w = u.space[d] /\ a = v.axis[d]
    OBVIOUS
  <2>6. Spaces(v)[d] = w
    BY <1>2, <2>4, <2>5
  <2>7. PICK mm : /\ ShowsRun(v, d, mm) /\ Sum(mm, DOMAIN v.items[d]) = w.size[a]
                  /\ AtPlace(u.space[i], w, a, k, mm)
    BY <2>1, <2>3, <2>4, <2>5 DEF KeepsRooms
  <2>8. Distribute(v, d, w.size[a]) = mm
    BY <2>7, ShownFills, SMTT(40)
  <2>9. AtPlace(Spaces(v)[i], w, a, k, mm)
    BY <2>1, <2>5, <2>6, <2>8, RoomAlong
  <2>10. \A c \in Axes : /\ Spaces(v)[i].low[c] = u.space[i].low[c]
                         /\ Spaces(v)[i].size[c] = u.space[i].size[c]
    BY <2>7, <2>9 DEF AtPlace
  <2> QED
    BY <2>7, <2>9, <2>10, BoxesAgree DEF AtPlace
<1> HIDE DEF T
<1>3. Nodes(v) \subseteq T
  BY <1>1, <1>2, TreeInduction
<1> QED
  BY <1>3 DEF T

\* A run does what solve() asks, its division in room w.
RunSolves(v, d, w) ==
    LET span == w.size[v.axis[d]]
    IN  /\ \A k \in DOMAIN v.items[d] :
              Resolves(v, d, k) /\ Zero \prec Distribute(v, d, span)[k]
        /\ Zero \preceq Slack(v, d, span)
        /\ DrivenPlaces(v, d) = {} => Slack(v, d, span) = Zero

\* A run whose rules show sizes above zero that fill its division does.
LEMMA ShownSolves ==
    ASSUME NEW v, Struct(v), Ruled(v), NEW d \in Divisions(v), NEW mm, ShowsRun(v, d, mm),
           NEW w, Sum(mm, DOMAIN v.items[d]) = w.size[v.axis[d]]
    PROVE  RunSolves(v, d, w)
BY ShownFills DEF RunSolves, ShowsRun

\* Where every run does, and the pinned boards have their sizes, the unit solves.
LEMMA RunsSolve ==
    ASSUME NEW v, Struct(v), IsFramed(v), Ruled(v),
           \A d \in Divisions(v) : RunSolves(v, d, Spaces(v)[d]),
           \A b \in DOMAIN v.pinned : Spaces(v)[b].size = v.pinned[b]
    PROVE  Solves(Solved(v))
<1>1. PICK x : x = Solved(v)
  OBVIOUS
<1>2. /\ x.items = v.items /\ x.axis = v.axis /\ x.rule = v.rule /\ x.thick = v.thick
      /\ x.pinned = v.pinned /\ x.root = v.root /\ x.space = Spaces(v)
      /\ Nodes(x) = Nodes(v) /\ Divisions(x) = Divisions(v)
  BY <1>1, SolvedIs
<1>3. ASSUME NEW d \in Divisions(v)
      PROVE  LET slack == Slack(x, d, Spaces(v)[d].size[v.axis[d]])
             IN  /\ \A k \in DOMAIN v.items[d] : Resolves(x, d, k)
                 /\ Zero \preceq slack
                 /\ DrivenPlaces(x, d) = {} => slack = Zero
  BY <1>2, SameSolver, SMTT(40) DEF RunSolves
<1>4. ASSUME NEW i \in Nodes(v) \ {v.root} PROVE Zero \prec Extent(x, i)
  <2>1. Extent(x, i) = Spaces(v)[i].size[v.axis[RunOf(v, i)]]
    BY <1>2 DEF Extent, AxisOf, RunOf, Divisions
  <2>2. PICK d, k : d = RunOf(v, i) /\ k = PlaceOf(v, i)
    OBVIOUS
  <2>3. d \in Divisions(v) /\ k \in DOMAIN v.items[d] /\ v.items[d][k] = i
    BY <2>2, PlaceInRun
  <2>4. Spaces(v)[i].size[v.axis[d]] = Distribute(v, d, Spaces(v)[d].size[v.axis[d]])[k]
    <3>1. LET b == v.axis[d]
              z == Spaces(v)[d]
              y == Distribute(v, d, z.size[b])
          IN  \A l \in DOMAIN v.items[d] : AtPlace(Spaces(v)[v.items[d][l]], z, b, l, y)
      BY <2>3, RoomAlong
    <3>2. PICK b, z, y : b = v.axis[d] /\ z = Spaces(v)[d] /\ y = Distribute(v, d, z.size[b])
      OBVIOUS
    <3>3. AtPlace(Spaces(v)[i], z, b, k, y)
      BY <2>3, <3>1, <3>2
    <3> QED
      BY <3>2, <3>3 DEF AtPlace
  <2> QED
    BY <2>1, <2>2, <2>3, <2>4 DEF RunSolves
<1> QED
  BY <1>1, <1>2, <1>3, <1>4 DEF Solves

------------------------------------------------------------------------------
(* What an edit moves.                                                      *)

\* Locking, unlocking, changing a basis and choosing the fixed point move nothing
\* (edit.py lock, unlock and set_basis; session.py unlock_board, set_fixed_side).
LEMMA RulesStep ==
    ASSUME Sized(unit), Edit
    PROVE  RulesMoveNothing
<1> DEFINE Still == unit'.space = unit.space
<1>0. Struct(unit)
  BY DEF Sized
<1>1. ASSUME NEW r \in Bays(unit), NEW a \in Axes, Split(r, a) PROVE RulesMoveNothing
  BY <1>1 DEF Split, Apply, Returns, RulesMoveNothing
<1>2. ASSUME NEW bs, DeleteBoards(bs) PROVE RulesMoveNothing
  <2>1. step'.name = "Delete Boards"
    <3>1. PICK r : Removed(bs, r)
      BY <1>2 DEF DeleteBoards
    <3>2. step' = [name |-> "Delete Boards", of |-> bs, outcome |-> "returned"]
          \/ step' = [name |-> "Delete Boards", of |-> bs, outcome |-> "raised"]
      BY <3>1 DEF Removed, Apply, Returns
    <3>3. CASE step' = [name |-> "Delete Boards", of |-> bs, outcome |-> "returned"]
      BY <3>3
    <3>4. CASE step' = [name |-> "Delete Boards", of |-> bs, outcome |-> "raised"]
      BY <3>4
    <3> QED
      BY <3>2, <3>3, <3>4
  <2> QED
    BY <2>1 DEF RulesMoveNothing
<1>3. ASSUME NEW bs, NEW mm, SwapStock(bs, mm) PROVE RulesMoveNothing
  BY <1>3 DEF SwapStock, Apply, Returns, RulesMoveNothing
<1>4. ASSUME NEW r, NEW mm, TypeSize(r, mm) PROVE RulesMoveNothing
  BY <1>4 DEF TypeSize, Apply, Returns, RulesMoveNothing
<1>5. ASSUME NEW r \in Regions(unit), NEW basis \in Bases, ChangeBasis(r, basis) PROVE Still
  <2>1. r \in Regions(unit) \ {unit.root} /\ Measures(unit, r, basis)
    BY <1>5 DEF ChangeBasis, CanSetSize, CanFix, Sizable
  <2> QED
    BY <1>5, <2>1, SetBasisMovesNothing DEF ChangeBasis, Apply
<1>6. ASSUME NEW r \in Regions(unit), SetLock(r) PROVE Still
  <2>1. r \in Regions(unit) \ {unit.root}
    BY <1>6 DEF SetLock, CanFix, Sizable
  <2> QED
    BY <1>6, <2>1, LockMovesNothing DEF SetLock, Apply
<1>7. ASSUME NEW r \in Regions(unit), ClearLock(r) PROVE Still
  <2>1. r \in Regions(unit) \ {unit.root}
    BY <1>7 DEF ClearLock, Sizable
  <2> QED
    BY <1>7, <2>1, UnlockMovesNothing DEF ClearLock, Apply
<1>8. ASSUME NEW b \in Boards(unit), FreeBoard(b) PROVE Still
  <2>1. PICK v : v = UnlockHolders(unit, b)
    OBVIOUS
  <2>2. Sized(v) /\ v.space = unit.space
    BY <1>8, <2>1, UnlockHoldersMovesNothing DEF FreeBoard
  <2>3. Solved(v).space = Spaces(v)
    BY <2>2, SolvedIs DEF Sized
  <2> QED
    BY <1>8, <2>1, <2>2, <2>3 DEF FreeBoard, Apply, Sized
<1>9. ASSUME NEW b, NEW mm, DragTo(b, mm) PROVE RulesMoveNothing
  BY <1>9 DEF DragTo, Apply, Returns, RulesMoveNothing
<1>10. ASSUME NEW a, NEW mm, Resize(a, mm) PROVE RulesMoveNothing
  BY <1>10 DEF Resize, Apply, Returns, RulesMoveNothing
<1>11. ASSUME NEW a \in Axes, NEW side \in Sides, SetFixedSide(a, side) PROVE Still
  <2>1. PICK v : v = [unit EXCEPT !.fixed[a] = side]
    OBVIOUS
  <2>2. /\ Fields \subseteq DOMAIN v
        /\ v.root = unit.root /\ v.items = unit.items /\ v.axis = unit.axis
        /\ v.rule = unit.rule /\ v.thick = unit.thick /\ v.voids = unit.voids
        /\ v.pinned = unit.pinned /\ v.low = unit.low /\ v.size = unit.size
        /\ v.fixed \in [Axes -> Sides]
    BY <1>0, <2>1 DEF Struct, Fields, Sized, IsFramed
  <2> QED
    BY <1>11, <2>1, <2>2, FixedSideMovesNothing DEF SetFixedSide, Apply
<1> HIDE DEF Still
<1>12. Still => RulesMoveNothing
  BY DEF RulesMoveNothing, Still
<1> QED
  BY <1>1, <1>2, <1>3, <1>4, <1>5, <1>6, <1>7, <1>8, <1>9, <1>10, <1>11, <1>12 DEF Edit

\* Two units of the same runs and rules lie alike along an axis where they have the
\* same place and size on it.
LEMMA SameAlong ==
    ASSUME NEW u, Struct(u), IsFramed(u), Ruled(u), NEW v, Struct(v), IsFramed(v), Ruled(v),
           v.root = u.root, v.items = u.items, v.axis = u.axis, v.rule = u.rule,
           v.thick = u.thick, NEW c \in Axes, v.low[c] = u.low[c], v.size[c] = u.size[c]
    PROVE  \A i \in Nodes(u) : /\ Spaces(v)[i].low[c] = Spaces(u)[i].low[c]
                               /\ Spaces(v)[i].size[c] = Spaces(u)[i].size[c]
<1> DEFINE T == {i \in Nodes(u) : /\ Spaces(v)[i].low[c] = Spaces(u)[i].low[c]
                                  /\ Spaces(v)[i].size[c] = Spaces(u)[i].size[c]}
<1>0. Nodes(v) = Nodes(u) /\ Divisions(v) = Divisions(u)
  BY DEF Nodes, Divisions
<1>1. u.root \in T
  <2>1. u.root \in Nodes(u)
    BY DEF Struct, Regions
  <2>2. Spaces(u)[u.root] = OuterSpace(u) /\ Spaces(v)[u.root] = OuterSpace(v)
    BY <1>0, <2>1, SpacesFacts DEF Places
  <2> QED
    BY <2>1, <2>2 DEF OuterSpace
<1>2. ASSUME NEW d \in Divisions(u), d \in T, NEW i \in Range(u.items[d])
      PROVE  i \in T
  <2>1. PICK k \in DOMAIN u.items[d] : i = u.items[d][k]
    BY DEF Range
  <2>2. i \in Nodes(u)
    BY <2>1, RunIsTyped
  <2>3. PICK w, a, mm : /\ a = u.axis[d] /\ w = Spaces(u)[d]
                        /\ mm = Distribute(u, d, w.size[a])
    OBVIOUS
  <2>4. PICK x, nn : x = Spaces(v)[d] /\ nn = Distribute(v, d, x.size[a])
    OBVIOUS
  <2>5. AtPlace(Spaces(u)[i], w, a, k, mm)
    <3>1. LET b == u.axis[d]
              z == Spaces(u)[d]
              y == Distribute(u, d, z.size[b])
          IN  \A l \in DOMAIN u.items[d] : AtPlace(Spaces(u)[u.items[d][l]], z, b, l, y)
      BY RoomAlong
    <3> QED
      BY <2>1, <2>3, <3>1
  <2>6. AtPlace(Spaces(v)[i], x, a, k, nn)
    <3>1. LET b == v.axis[d]
              z == Spaces(v)[d]
              y == Distribute(v, d, z.size[b])
          IN  \A l \in DOMAIN v.items[d] : AtPlace(Spaces(v)[v.items[d][l]], z, b, l, y)
      BY <1>0, RoomAlong
    <3> QED
      BY <2>1, <2>3, <2>4, <3>1
  <2>7. x.low[c] = w.low[c] /\ x.size[c] = w.size[c]
    BY <1>2, <2>3, <2>4
  <2>8. CASE c = a
    <3>1. nn = mm
      BY <2>3, <2>4, <2>7, <2>8, SameSolver
    <3> QED
      BY <2>2, <2>5, <2>6, <2>7, <2>8, <3>1 DEF AtPlace
  <2>9. CASE c # a
    BY <2>2, <2>5, <2>6, <2>7, <2>9 DEF AtPlace
  <2> QED
    BY <2>8, <2>9
<1> HIDE DEF T
<1>3. Nodes(u) \subseteq T
  BY <1>1, <1>2, TreeInduction
<1> QED
  BY <1>3 DEF T

\* A resize leaves the place on an axis whose size it leaves.
LEMMA ResizedLow ==
    ASSUME NEW u, Fields \subseteq DOMAIN u, IsFramed(u), NEW a \in Axes, NEW mm,
           NEW c \in Axes, SetUnitSize(u, a, mm).size[c] = u.size[c]
    PROVE  SetUnitSize(u, a, mm).low[c] = u.low[c]
<1>1. PICK v, y : v = SetUnitSize(u, a, mm) /\ y = FixedPoint(u, a) -- FixedOffset(u, a, mm)
  OBVIOUS
<1>2. v.low = [u.low EXCEPT ![a] = y] /\ v.size = [u.size EXCEPT ![a] = mm]
  BY <1>1 DEF SetUnitSize, Fields
<1>3. CASE c # a
  BY <1>1, <1>2, <1>3 DEF IsFramed
<1>4. CASE c = a
  <2>1. mm = u.size[a]
    BY <1>1, <1>2, <1>4 DEF IsFramed
  <2>2. PICK o : o = FixedOffset(u, a, mm)
    OBVIOUS
  <2>3. IsFraction(u.low[a]) /\ IsFraction(u.size[a])
    BY DEF IsFramed
  <2>4. IsFraction(o)
    <3>1. IsFraction(Zero)
      BY <2>3, AddFacts, WholeIsFrac DEF Zero
    <3>2. IsFraction(Whole(2)) /\ Zero \prec Whole(2)
      BY WholeIsFrac DEF Whole, Zero, \prec
    <3>3. IsFraction(mm // Whole(2))
      BY <2>1, <2>3, <3>2, QuotientLaws
    <3>4. u.fixed[a] \in {"min", "center", "max"}
      BY DEF IsFramed, Sides
    <3> QED
      BY <2>1, <2>2, <2>3, <3>1, <3>3, <3>4 DEF FixedOffset
  <2>5. y = (u.low[a] ++ o) -- o
    BY <1>1, <2>1, <2>2 DEF FixedPoint
  <2>6. y = u.low[a]
    BY <2>3, <2>4, <2>5, AddFacts
  <2> QED
    BY <1>1, <1>2, <1>4, <2>6 DEF IsFramed
<1> QED
  BY <1>3, <1>4

\* A resize moves nothing along an axis whose size it leaves (edit.py set_unit_size).
LEMMA ResizeStep ==
    ASSUME Sized(unit), NEW a \in Axes, NEW mm \in UnitSizes, Resize(a, mm), IsFramed(unit')
    PROVE  ResizesAreOfOneAxis
<1>1. PICK c : c = SetUnitSize(unit, a, mm)
  OBVIOUS
<1>2. Struct(unit) /\ IsFramed(unit) /\ Ruled(unit) /\ unit.space = Spaces(unit)
  BY DEF Sized
<1>3. Struct(c) /\ Ruled(c)
  BY <1>1, <1>2, SizeFacts, UnitSizeIsSound DEF KeepsNodes, Keeps
<1>4. /\ c.root = unit.root /\ c.items = unit.items /\ c.axis = unit.axis
      /\ c.rule = unit.rule /\ c.thick = unit.thick
  BY <1>1, <1>2 DEF SetUnitSize, Struct, Fields
<1>5. PICK v : v = unit'
  OBVIOUS
<1>6. v = Solved(c)
  BY <1>1, <1>5 DEF Resize, Apply
<1>7. /\ v.size = c.size /\ v.space = Spaces(c) /\ IsFramed(c)
  BY <1>3, <1>5, <1>6, SolvedIs
<1>8. ASSUME NEW x \in Axes, v.size[x] = unit.size[x]
      PROVE  \A i \in Nodes(unit) : /\ v.space[i].low[x] = unit.space[i].low[x]
                                    /\ v.space[i].size[x] = unit.space[i].size[x]
  <2>1. c.size[x] = unit.size[x]
    BY <1>7, <1>8
  <2>2. c.low[x] = unit.low[x]
    BY <1>1, <1>2, <2>1, ResizedLow DEF Struct
  <2> QED
    BY <1>2, <1>3, <1>4, <1>7, <2>1, <2>2, SameAlong
<1> QED
  BY <1>5, <1>8 DEF ResizesAreOfOneAxis

------------------------------------------------------------------------------
(* A run some of whose members others take the place of.                    *)

\* What is where in a spliced sequence.
SplicedPlaces(s, k, n, t, v) ==
    /\ Len(v) = Len(s) - n + Len(t) /\ DOMAIN v = 1 .. Len(s) - n + Len(t)
    /\ \A x \in 1 .. k - 1 : v[x] = s[x]
    /\ \A y \in 1 .. Len(t) : v[k - 1 + y] = t[y]
    /\ \A x \in k + n .. Len(s) : v[x - n + Len(t)] = s[x]

\* A part of a sequence.
LEMMA PartFacts ==
    ASSUME NEW S, NEW s \in Seq(S), NEW i \in Nat, i >= 1, NEW j \in Nat, j <= Len(s), i <= j + 1
    PROVE  LET p == SubSeq(s, i, j)
           IN  /\ p \in Seq(S) /\ Len(p) = j - i + 1
               /\ \A x \in 1 .. j - i + 1 : p[x] = s[i + x - 1]
<1>1. Len(s) \in Nat /\ DOMAIN s = 1 .. Len(s)
  BY LenProperties
<1>2. \A x \in i .. j : s[x] \in S
  BY <1>1
<1>3. i \in Int /\ j \in Int
  OBVIOUS
<1>4. /\ SubSeq(s, i, j) \in Seq(S) /\ Len(SubSeq(s, i, j)) = IF i <= j THEN j - i + 1 ELSE 0
      /\ \A x \in 1 .. j - i + 1 : SubSeq(s, i, j)[x] = s[i + x - 1]
  BY <1>2, <1>3, SubSeqProperties, SMTT(40)
<1>5. Len(SubSeq(s, i, j)) = j - i + 1
  BY <1>4
<1> QED
  BY <1>4, <1>5

\* It is in a spliced sequence what Splice says.
LEMMA SplicePlaces ==
    ASSUME NEW S, NEW s \in Seq(S), NEW t \in Seq(S), NEW k \in 1 .. Len(s), NEW n \in Nat,
           k + n - 1 <= Len(s)
    PROVE  SplicedPlaces(s, k, n, t, Splice(s, k, n, t))
<1>0. PICK l, m : l = Len(s) /\ m = Len(t) /\ l \in Nat /\ m \in Nat
  BY LenProperties
<1>1. PICK p, q, i, j : /\ p = SubSeq(s, 1, j) /\ q = SubSeq(s, i, l)
                        /\ j = k - 1 /\ i = k + n
  OBVIOUS
<1>a. i \in Nat /\ j \in Nat /\ i >= 1 /\ j <= l /\ i <= l + 1 /\ 1 <= j + 1
  BY <1>0, <1>1
<1>2. /\ p \in Seq(S) /\ Len(p) = j /\ \A x \in 1 .. j : p[x] = s[x]
  <2>1. /\ p \in Seq(S) /\ Len(p) = j - 1 + 1 /\ \A x \in 1 .. j - 1 + 1 : p[x] = s[1 + x - 1]
    BY <1>0, <1>1, <1>a, PartFacts
  <2>2. j - 1 + 1 = j /\ \A x \in 1 .. j : 1 + x - 1 = x
    BY <1>a
  <2> QED
    BY <2>1, <2>2
<1>3. /\ q \in Seq(S) /\ Len(q) = l - i + 1 /\ \A x \in 1 .. l - i + 1 : q[x] = s[i + x - 1]
  <2>1. l <= Len(s) /\ l \in Nat /\ i \in Nat /\ i >= 1 /\ i <= l + 1
    BY <1>0, <1>a
  <2>2. LET x == SubSeq(s, i, l)
        IN  x \in Seq(S) /\ Len(x) = l - i + 1 /\ \A y \in 1 .. l - i + 1 : x[y] = s[i + y - 1]
    BY <2>1, PartFacts
  <2> QED
    BY <1>1, <2>2
<1>4. PICK v, r : v = r \o q /\ r = p \o t
  OBVIOUS
<1>5. v = Splice(s, k, n, t)
  BY <1>0, <1>1, <1>4 DEF Splice
<1>7. /\ r \in Seq(S) /\ Len(r) = j + m
      /\ \A x \in 1 .. j + m : r[x] = IF x <= j THEN p[x] ELSE t[x - j]
  BY <1>0, <1>2, <1>4, ConcatProperties, ZenonT(40)
<1>8. /\ v \in Seq(S) /\ Len(v) = j + m + (l - i + 1)
      /\ \A x \in 1 .. j + m + (l - i + 1) : v[x] = IF x <= j + m THEN r[x] ELSE q[x - (j + m)]
  <2>1. /\ v \in Seq(S) /\ Len(v) = Len(r) + Len(q)
        /\ \A x \in 1 .. Len(r) + Len(q) : v[x] = IF x <= Len(r) THEN r[x] ELSE q[x - Len(r)]
    <3>1. r \in Seq(S) /\ q \in Seq(S) /\ v = r \o q
      BY <1>3, <1>4, <1>7
    <3> QED
      BY <3>1, ConcatProperties
  <2> QED
    BY <1>3, <1>7, <2>1
<1>b. j + m + (l - i + 1) = l - n + m
  BY <1>0, <1>1
<1>c. DOMAIN v = 1 .. Len(v)
  BY <1>8, LenProperties
<1>9. ASSUME NEW x \in k + n .. l PROVE v[x - n + m] = s[x]
  <2>1. PICK y, z : y = x - i + 1 /\ z = x - n + m
    OBVIOUS
  <2>2. /\ y \in 1 .. l - i + 1 /\ z \in 1 .. j + m + (l - i + 1) /\ ~(z <= j + m)
        /\ z - (j + m) = y /\ i + y - 1 = x
    BY <1>0, <1>1, <1>a, <2>1
  <2>3. v[z] = q[y]
    BY <1>8, <2>2
  <2> QED
    BY <1>3, <2>1, <2>2, <2>3
<1>10. ASSUME NEW y \in 1 .. m PROVE v[k - 1 + y] = t[y]
  <2>1. PICK z : z = k - 1 + y
    OBVIOUS
  <2>2. z \in 1 .. j + m /\ z \in 1 .. j + m + (l - i + 1) /\ ~(z <= j) /\ z - j = y
    BY <1>0, <1>1, <1>a, <2>1
  <2>3. v[z] = r[z] /\ r[z] = t[y]
    BY <1>7, <1>8, <2>2
  <2> QED
    BY <2>1, <2>3
<1>11. ASSUME NEW x \in 1 .. k - 1 PROVE v[x] = s[x]
  <2>1. x \in 1 .. j /\ x \in 1 .. j + m /\ x \in 1 .. j + m + (l - i + 1)
    BY <1>0, <1>1, <1>a
  <2> QED
    BY <1>2, <1>7, <1>8, <2>1
<1> QED
  BY <1>0, <1>5, <1>8, <1>b, <1>c, <1>9, <1>10, <1>11 DEF SplicedPlaces

\* The sums up to a place, one place on.
LEMMA SumNext ==
    ASSUME NEW f, NEW n \in Nat, NEW k \in Nat, k < n, Fractional(f, 1 .. n)
    PROVE  /\ IsFraction(Sum(f, 1 .. k)) /\ IsFraction(f[k + 1])
           /\ Sum(f, 1 .. k + 1) = f[k + 1] ++ Sum(f, 1 .. k)
<1>1. IsFiniteSet(1 .. k)
  BY FS_Interval
<1>2. 1 .. k + 1 = (1 .. k) \cup {k + 1} /\ k + 1 \notin 1 .. k
  OBVIOUS
<1>3. Fractional(f, 1 .. k) /\ Fractional(f, (1 .. k) \cup {k + 1}) /\ IsFraction(f[k + 1])
  BY DEF Fractional
<1>4. Sum(f, (1 .. k) \cup {k + 1}) = f[k + 1] ++ Sum(f, 1 .. k)
  BY <1>1, <1>2, <1>3, SumAdds
<1>5. IsFraction(Sum(f, 1 .. k))
  BY <1>1, <1>3, SumIsFraction
<1> QED
  BY <1>2, <1>3, <1>4, <1>5

\* Two runs of sizes, alike before place k, and from place k + m of the one and place
\* k + p of the other on.
Splices(f, n, g, k, m, p) ==
    /\ n \in Nat /\ m \in Nat /\ p \in Nat /\ k \in 1 .. n /\ k + m - 1 <= n
    /\ Fractional(f, 1 .. n) /\ Fractional(g, 1 .. n - m + p)
    /\ \A x \in 1 .. k - 1 : g[x] = f[x]
    /\ \A x \in k + m .. n : g[x - m + p] = f[x]
    /\ Sum(g, k .. k + p - 1) = Sum(f, k .. k + m - 1)

\* They add up alike outside those places.
LEMMA SplicedSums ==
    ASSUME NEW f, NEW n, NEW g, NEW k, NEW m, NEW p, Splices(f, n, g, k, m, p)
    PROVE  /\ \A x \in 1 .. k : Sum(g, 1 .. x - 1) = Sum(f, 1 .. x - 1)
           /\ \A x \in k + m - 1 .. n : Sum(g, 1 .. x - m + p) = Sum(f, 1 .. x)
<1>0. n \in Nat /\ m \in Nat /\ p \in Nat /\ k \in 1 .. n /\ k + m - 1 <= n
  BY DEF Splices
<1>1. ASSUME NEW x \in 1 .. k PROVE Sum(g, 1 .. x - 1) = Sum(f, 1 .. x - 1)
  <2>1. IsFiniteSet(1 .. x - 1)
    BY <1>0, FS_Interval
  <2>2. \A y \in 1 .. x - 1 : g[y] = f[y]
    BY <1>0 DEF Splices
  <2> QED
    BY <2>1, <2>2, SumSame
<1> DEFINE T == {j \in Nat : k + m - 1 + j <= n =>
                    Sum(g, 1 .. k + p - 1 + j) = Sum(f, 1 .. k + m - 1 + j)}
<1>2. 0 \in T
  <2>1. /\ IsFiniteSet(1 .. k - 1) /\ IsFiniteSet(k .. k + m - 1) /\ IsFiniteSet(k .. k + p - 1)
    BY <1>0, FS_Interval
  <2>2. /\ 1 .. k + m - 1 = (1 .. k - 1) \cup (k .. k + m - 1)
        /\ 1 .. k + p - 1 = (1 .. k - 1) \cup (k .. k + p - 1)
        /\ (1 .. k - 1) \cap (k .. k + m - 1) = {} /\ (1 .. k - 1) \cap (k .. k + p - 1) = {}
    BY <1>0
  <2>3. /\ Fractional(f, (1 .. k - 1) \cup (k .. k + m - 1))
        /\ Fractional(g, (1 .. k - 1) \cup (k .. k + p - 1))
    BY <1>0 DEF Splices, Fractional
  <2>4. /\ Sum(f, (1 .. k - 1) \cup (k .. k + m - 1)) = Sum(f, 1 .. k - 1) ++ Sum(f, k .. k + m - 1)
        /\ Sum(g, (1 .. k - 1) \cup (k .. k + p - 1)) = Sum(g, 1 .. k - 1) ++ Sum(g, k .. k + p - 1)
    BY <2>1, <2>2, <2>3, SumOfParts, ZenonT(40)
  <2>5. Sum(g, 1 .. k - 1) = Sum(f, 1 .. k - 1)
    BY <1>0, <1>1
  <2>6. Sum(g, k .. k + p - 1) = Sum(f, k .. k + m - 1)
    BY DEF Splices
  <2>7. Sum(g, 1 .. k + p - 1) = Sum(f, 1 .. k + m - 1)
    BY <2>2, <2>4, <2>5, <2>6
  <2>8. k + p - 1 + 0 = k + p - 1 /\ k + m - 1 + 0 = k + m - 1
    BY <1>0
  <2> QED
    BY <2>7, <2>8
<1>3. ASSUME NEW j \in Nat, j \in T PROVE j + 1 \in T
  <2>1. SUFFICES ASSUME k + m - 1 + (j + 1) <= n
                 PROVE  Sum(g, 1 .. k + p - 1 + (j + 1)) = Sum(f, 1 .. k + m - 1 + (j + 1))
    OBVIOUS
  <2>2. PICK x, y : x = k + m - 1 + j /\ y = k + p - 1 + j
    OBVIOUS
  <2>3. /\ x \in Nat /\ y \in Nat /\ x < n /\ y < n - m + p /\ n - m + p \in Nat
        /\ k + m - 1 + (j + 1) = x + 1 /\ k + p - 1 + (j + 1) = y + 1
        /\ x + 1 \in k + m .. n /\ x + 1 - m + p = y + 1
    BY <1>0, <2>1, <2>2
  <2>4. Sum(g, 1 .. y) = Sum(f, 1 .. x)
    BY <1>0, <1>3, <2>1, <2>2
  <2>5. g[y + 1] = f[x + 1]
    BY <2>3 DEF Splices
  <2>6. Sum(f, 1 .. x + 1) = f[x + 1] ++ Sum(f, 1 .. x)
    BY <1>0, <2>3, SumNext DEF Splices
  <2>7. Sum(g, 1 .. y + 1) = g[y + 1] ++ Sum(g, 1 .. y)
    BY <2>3, SumNext DEF Splices
  <2> QED
    BY <2>3, <2>4, <2>5, <2>6, <2>7
<1>4. \A j \in Nat : (\A i \in Nat : i < j => i \in T) => j \in T
  <2>1. ASSUME NEW j \in Nat, \A i \in Nat : i < j => i \in T PROVE j \in T
    <3>1. CASE j = 0
      BY <1>2, <3>1
    <3>2. CASE j # 0
      <4>1. PICK i \in Nat : j = i + 1
        BY <3>2
      <4>2. i \in T
        BY <2>1, <4>1
      <4> QED
        BY <1>3, <4>1, <4>2
    <3> QED
      BY <3>1, <3>2
  <2> QED
    BY <2>1
<1> HIDE DEF T
<1>5. Nat \subseteq T
  BY <1>4, StrongInduction
<1>6. ASSUME NEW x \in k + m - 1 .. n PROVE Sum(g, 1 .. x - m + p) = Sum(f, 1 .. x)
  <2>1. PICK j : j = x - (k + m - 1)
    OBVIOUS
  <2>2. j \in Nat /\ k + m - 1 + j = x /\ k + p - 1 + j = x - m + p /\ x <= n
    BY <1>0, <2>1
  <2>3. j \in T
    BY <1>5, <2>2
  <2> QED
    BY <2>2, <2>3 DEF T
<1> QED
  BY <1>1, <1>6

\* The member at place y of the run of d in v is like that at place x of e in u.
SameMember(u, e, x, v, d, y) ==
    LET i == u.items[e][x]
        j == v.items[d][y]
    IN  /\ v.rule[j] = u.rule[i]
        /\ j \in Boards(v) <=> i \in Boards(u)
        /\ i \in Boards(u) => v.thick[j] = u.thick[i]

\* And so is the board after it, where there is one.
SameNext(u, e, x, v, d, y) ==
    x < Len(u.items[e]) /\ u.items[e][x + 1] \in Boards(u)
        => y < Len(v.items[d]) /\ SameMember(u, e, x + 1, v, d, y + 1)

\* The solver does the same with both.
LEMMA MemberFacts ==
    ASSUME NEW u, Struct(u), Ruled(u), NEW e \in Divisions(u), NEW x \in DOMAIN u.items[e],
           Resolves(u, e, x), NEW v, NEW d, NEW y \in DOMAIN v.items[d],
           SameMember(u, e, x, v, d, y), SameNext(u, e, x, v, d, y)
    PROVE  /\ y \in DrivenPlaces(v, d) <=> x \in DrivenPlaces(u, e)
           /\ WeightAt(v, d, y) = WeightAt(u, e, x)
           /\ Resolves(v, d, y) /\ FixedMm(v, d, y) = FixedMm(u, e, x)
<1>1. PICK i, j : i = u.items[e][x] /\ j = v.items[d][y]
  OBVIOUS
<1>2. i \in Nodes(u)
  BY <1>1, RunIsTyped
<1>3. PICK rule : rule = u.rule[i]
  OBVIOUS
<1>4. /\ v.rule[j] = rule /\ IsRule(rule, i \in Boards(u))
      /\ j \in Boards(v) <=> i \in Boards(u)
      /\ i \in Boards(u) => v.thick[j] = u.thick[i]
  BY <1>1, <1>2, <1>3 DEF SameMember, Ruled
<1>5. (y \in DrivenPlaces(v, d) <=> x \in DrivenPlaces(u, e)) /\ WeightAt(v, d, y) = WeightAt(u, e, x)
  BY <1>1, <1>3, <1>4 DEF DrivenPlaces, Driven, WeightAt
<1>6. CASE rule.kind = "fixed" /\ rule.basis = "with_next"
  <2>1. x < Len(u.items[e]) /\ u.items[e][x + 1] \in Boards(u)
    BY <1>1, <1>3, <1>6 DEF Resolves
  <2>2. y < Len(v.items[d]) /\ SameMember(u, e, x + 1, v, d, y + 1)
    BY <2>1 DEF SameNext
  <2>3. v.items[d][y + 1] \in Boards(v) /\ v.thick[v.items[d][y + 1]] = u.thick[u.items[e][x + 1]]
    BY <2>1, <2>2 DEF SameMember
  <2>4. Resolves(v, d, y)
    BY <1>1, <1>4, <2>2, <2>3 DEF Resolves
  <2>5. FixedMm(v, d, y) = rule.mm -- v.thick[v.items[d][y + 1]]
    BY <1>1, <1>4, <1>6, <2>4 DEF FixedMm
  <2>6. FixedMm(u, e, x) = rule.mm -- u.thick[u.items[e][x + 1]]
    BY <1>1, <1>3, <1>6 DEF FixedMm
  <2> QED
    BY <1>5, <2>3, <2>4, <2>5, <2>6
<1>7. CASE ~(rule.kind = "fixed" /\ rule.basis = "with_next")
  <2>1. Resolves(v, d, y)
    BY <1>1, <1>4, <1>7 DEF Resolves
  <2>2. CASE rule.kind = "own" /\ i \in Boards(u)
    BY <1>1, <1>3, <1>4, <1>5, <2>1, <2>2 DEF FixedMm
  <2>3. CASE rule.kind = "driven"
    BY <1>1, <1>3, <1>4, <1>5, <2>1, <2>3 DEF FixedMm
  <2>4. CASE rule.kind = "fixed" /\ rule.basis = "clear"
    BY <1>1, <1>3, <1>4, <1>5, <2>1, <2>4 DEF FixedMm
  <2> QED
    BY <1>4, <1>7, <2>2, <2>3, <2>4 DEF IsRule, Bases
<1> QED
  BY <1>6, <1>7

\* The run of d in v is that of e in u with p members instead of the m from place k on,
\* the first of which was no board.
SplicedRun(u, e, v, d, k, m, p) ==
    /\ m \in Nat /\ p \in Nat /\ m >= 1
    /\ k \in 1 .. Len(u.items[e]) /\ k + m - 1 <= Len(u.items[e])
    /\ u.items[e][k] \notin Boards(u)
    /\ DOMAIN v.items[d] = 1 .. Len(u.items[e]) - m + p
    /\ Len(v.items[d]) = Len(u.items[e]) - m + p
    /\ \A x \in 1 .. k - 1 : SameMember(u, e, x, v, d, x)
    /\ \A x \in k + m .. Len(u.items[e]) : SameMember(u, e, x, v, d, x - m + p)

\* The rules give the driven members of the run of e outside the places S their sizes
\* at this scale.
ShowsOff(u, e, S, scale) ==
    /\ IsFraction(scale) /\ Zero \prec scale
    /\ \A x \in DrivenPlaces(u, e) \ S : ShownSizes(u, e)[x] = scale ** WeightAt(u, e, x)

\* The rule of the member at place y gives it the size mm at this scale.
MemberShows(v, d, y, mm, scale) ==
    /\ IsFraction(mm) /\ Zero \prec mm /\ Resolves(v, d, y)
    /\ mm = IF y \in DrivenPlaces(v, d) THEN scale ** WeightAt(v, d, y) ELSE FixedMm(v, d, y)

\* The sizes of a spliced run, h those of the new members.
SplicedSizes(f, n, k, m, p, h) ==
    [x \in 1 .. n - m + p |->
        IF x < k THEN f[x] ELSE IF x < k + p THEN h[x] ELSE f[x - p + m]]

\* The members that stay keep their sizes,
LEMMA OthersShow ==
    ASSUME NEW u, Sized(u), NEW e \in Divisions(u), NEW v, NEW d, NEW k, NEW m, NEW p,
           SplicedRun(u, e, v, d, k, m, p), NEW scale, ShowsOff(u, e, k .. k + m - 1, scale)
    PROVE  /\ \A x \in 1 .. k - 1 : MemberShows(v, d, x, ShownSizes(u, e)[x], scale)
           /\ \A x \in k + m .. Len(u.items[e]) :
                 MemberShows(v, d, x - m + p, ShownSizes(u, e)[x], scale)
<1>0. Struct(u) /\ Ruled(u)
  BY DEF Sized
<1>1. PICK n : n = Len(u.items[e])
  OBVIOUS
<1>2. n \in Nat /\ DOMAIN u.items[e] = 1 .. n
  BY <1>0, <1>1, RunIsTyped
<1>3. /\ m \in Nat /\ p \in Nat /\ m >= 1 /\ k \in 1 .. n /\ k + m - 1 <= n
      /\ u.items[e][k] \notin Boards(u) /\ DOMAIN v.items[d] = 1 .. n - m + p
      /\ Len(v.items[d]) = n - m + p
  BY <1>1 DEF SplicedRun
<1>4. PICK mm : mm = ShownSizes(u, e)
  BY SMTT(40)
<1>5. ASSUME NEW x \in 1 .. n, x \notin k .. k + m - 1, NEW y \in 1 .. n - m + p,
             SameMember(u, e, x, v, d, y), SameNext(u, e, x, v, d, y)
      PROVE  MemberShows(v, d, y, mm[x], scale)
  <2>1. /\ mm[x] = Distribute(u, e, u.space[e].size[u.axis[e]])[x]
        /\ IsFraction(mm[x]) /\ Zero \prec mm[x] /\ Resolves(u, e, x)
    BY <1>2, <1>4, SizedRun
  <2>2. x \notin DrivenPlaces(u, e) => mm[x] = FixedMm(u, e, x)
    BY <1>2, <2>1, DistributeIs, Zenon
  <2>3. x \in DrivenPlaces(u, e) => mm[x] = scale ** WeightAt(u, e, x)
    BY <1>4, <1>5 DEF ShowsOff
  <2>4. /\ y \in DrivenPlaces(v, d) <=> x \in DrivenPlaces(u, e)
        /\ WeightAt(v, d, y) = WeightAt(u, e, x)
        /\ Resolves(v, d, y) /\ FixedMm(v, d, y) = FixedMm(u, e, x)
    <3>1. x \in DOMAIN u.items[e] /\ y \in DOMAIN v.items[d] /\ Resolves(u, e, x)
      BY <1>2, <1>3, <2>1, Zenon
    <3> QED
      BY <1>0, <1>5, <3>1, MemberFacts
  <2> QED
    BY <2>1, <2>2, <2>3, <2>4, Zenon DEF MemberShows
<1>6. ASSUME NEW x \in 1 .. k - 1 PROVE MemberShows(v, d, x, mm[x], scale)
  <2>1. x \in 1 .. n /\ x \notin k .. k + m - 1 /\ x \in 1 .. n - m + p
    BY <1>2, <1>3
  <2>2. SameMember(u, e, x, v, d, x)
    BY DEF SplicedRun
  <2>3. SameNext(u, e, x, v, d, x)
    <3>1. CASE x = k - 1
      <4>1. x + 1 = k
        BY <1>3, <3>1
      <4>2. u.items[e][x + 1] \notin Boards(u)
        BY <1>3, <4>1
      <4> QED
        BY <4>2 DEF SameNext
    <3>2. CASE x # k - 1
      <4>0. /\ k \in Nat /\ m \in Nat /\ p \in Nat /\ n \in Nat /\ x \in Nat
            /\ m >= 1 /\ k + m - 1 <= n /\ 1 <= x /\ x <= k - 1
        BY <1>2, <1>3
      <4>1. x + 1 \in 1 .. k - 1 /\ x < n - m + p
        BY ONLY <4>0, <3>2
      <4>2. SameMember(u, e, x + 1, v, d, x + 1)
        BY <4>1 DEF SplicedRun
      <4> QED
        BY <1>3, <4>1, <4>2 DEF SameNext
    <3> QED
      BY <3>1, <3>2
  <2> QED
    BY <1>5, <2>1, <2>2, <2>3
<1>7. ASSUME NEW x \in k + m .. n PROVE MemberShows(v, d, x - m + p, mm[x], scale)
  <2>1. PICK y : y = x - m + p
    OBVIOUS
  <2>2. x \in 1 .. n /\ x \notin k .. k + m - 1 /\ y \in 1 .. n - m + p
    BY <1>2, <1>3, <2>1
  <2>3. SameMember(u, e, x, v, d, y)
    BY <1>1, <2>1 DEF SplicedRun
  <2>4. SameNext(u, e, x, v, d, y)
    <3>1. SUFFICES ASSUME x < n, u.items[e][x + 1] \in Boards(u)
                   PROVE  y < n - m + p /\ SameMember(u, e, x + 1, v, d, y + 1)
      BY <1>1, <1>3 DEF SameNext
    <3>2. x + 1 \in k + m .. n /\ x + 1 - m + p = y + 1 /\ y < n - m + p
      BY <1>2, <1>3, <2>1, <3>1
    <3>3. SameMember(u, e, x + 1, v, d, x + 1 - m + p)
      BY <1>1, <3>2 DEF SplicedRun
    <3> QED
      BY <3>2, <3>3
  <2> QED
    BY <1>5, <2>1, <2>2, <2>3, <2>4
<1> QED
  BY <1>1, <1>4, <1>6, <1>7

\* So the spliced run shows its sizes, which are where they were outside the places that
\* changed.
LEMMA SplicedShows ==
    ASSUME NEW u, Sized(u), NEW e \in Divisions(u), NEW v, NEW d, NEW k, NEW m, NEW p,
           SplicedRun(u, e, v, d, k, m, p), NEW scale, ShowsOff(u, e, k .. k + m - 1, scale),
           NEW h, \A y \in k .. k + p - 1 : MemberShows(v, d, y, h[y], scale),
           NEW mm, mm = ShownSizes(u, e), Sum(h, k .. k + p - 1) = Sum(mm, k .. k + m - 1),
           NEW n, n = Len(u.items[e]), NEW g, g = SplicedSizes(mm, n, k, m, p, h)
    PROVE  ShowsRun(v, d, g) /\ Splices(mm, n, g, k, m, p)
<1>0. Struct(u) /\ Ruled(u)
  BY DEF Sized
<1>1. n \in Nat /\ DOMAIN u.items[e] = 1 .. n
  BY <1>0, RunIsTyped
<1>2. /\ m \in Nat /\ p \in Nat /\ m >= 1 /\ k \in 1 .. n /\ k + m - 1 <= n
      /\ DOMAIN v.items[d] = 1 .. n - m + p
  BY DEF SplicedRun
<1>3. \A x \in 1 .. k - 1 : MemberShows(v, d, x, mm[x], scale)
  BY OthersShow
<1>4. \A x \in k + m .. n : MemberShows(v, d, x - m + p, mm[x], scale)
  BY OthersShow
<1>5. \A x \in 1 .. n - m + p :
         g[x] = IF x < k THEN mm[x] ELSE IF x < k + p THEN h[x] ELSE mm[x - p + m]
  BY DEF SplicedSizes
<1>6. DOMAIN g = 1 .. n - m + p /\ g = [x \in 1 .. n - m + p |-> g[x]]
  BY DEF SplicedSizes
<1>7. ASSUME NEW y \in 1 .. n - m + p PROVE MemberShows(v, d, y, g[y], scale)
  <2>1. CASE y < k
    <3>1. y \in 1 .. k - 1
      BY <1>1, <1>2, <2>1
    <3> QED
      BY <1>3, <1>5, <2>1, <3>1
  <2>2. CASE ~(y < k) /\ y < k + p
    <3>1. y \in k .. k + p - 1
      BY <1>1, <1>2, <2>2
    <3> QED
      BY <1>5, <2>2, <3>1
  <2>3. CASE ~(y < k) /\ ~(y < k + p)
    <3>1. PICK x : x = y - p + m
      OBVIOUS
    <3>2. x \in k + m .. n /\ x - m + p = y
      BY <1>1, <1>2, <2>3, <3>1
    <3>3. g[y] = mm[x]
      BY <1>5, <2>3, <3>1
    <3>4. MemberShows(v, d, x - m + p, mm[x], scale)
      BY <1>4, <3>2
    <3> QED
      BY <3>2, <3>3, <3>4
  <2> QED
    BY <2>1, <2>2, <2>3
<1>8. ShowsRun(v, d, g)
  <2>1. IsFraction(scale) /\ Zero \prec scale
    BY DEF ShowsOff
  <2>2. RulesShow(v, d, g, scale)
    BY <1>2, <1>7, <2>1 DEF RulesShow, MemberShows
  <2> QED
    BY <1>2, <1>6, <1>7, <2>2 DEF ShowsRun, MemberShows
<1>9. Fractional(mm, 1 .. n)
  BY <1>1, SizedRun DEF Fractional
<1>10. Fractional(g, 1 .. n - m + p)
  BY <1>7 DEF Fractional, MemberShows
<1>11. \A x \in 1 .. k - 1 : g[x] = mm[x]
  <2>1. \A x \in 1 .. k - 1 : x \in 1 .. n - m + p /\ x < k
    BY <1>1, <1>2, SMTT(40)
  <2> QED
    BY <1>5, <2>1
<1>12. ASSUME NEW x \in k + m .. n PROVE g[x - m + p] = mm[x]
  <2>1. PICK y : y = x - m + p
    OBVIOUS
  <2>2. y \in 1 .. n - m + p /\ ~(y < k) /\ ~(y < k + p) /\ y - p + m = x
    BY <1>1, <1>2, <2>1
  <2> QED
    BY <1>5, <2>1, <2>2
<1>13. Sum(g, k .. k + p - 1) = Sum(h, k .. k + p - 1)
  <2>1. IsFiniteSet(k .. k + p - 1)
    BY <1>1, <1>2, FS_Interval
  <2>2. \A y \in k .. k + p - 1 : y \in 1 .. n - m + p /\ ~(y < k) /\ y < k + p
    BY <1>1, <1>2, SMTT(40)
  <2>3. \A y \in k .. k + p - 1 : g[y] = h[y]
    BY <1>5, <2>2
  <2>4. PICK S : S = k .. k + p - 1
    OBVIOUS
  <2>5. IsFiniteSet(S) /\ \A y \in S : g[y] = h[y]
    BY <2>1, <2>3, <2>4
  <2>6. Sum(g, S) = Sum(h, S)
    BY <2>5, SumSame
  <2> QED
    BY <2>4, <2>6
<1> QED
  BY <1>1, <1>2, <1>8, <1>9, <1>10, <1>11, <1>12, <1>13 DEF Splices

\* The members of such a run outside the places that changed have the rooms they had.
OthersStay(u, e, g, k, m, p) ==
    /\ \A x \in 1 .. k - 1 :
          AtPlace(u.space[u.items[e][x]], u.space[e], u.axis[e], x, g)
    /\ \A x \in k + m .. Len(u.items[e]) :
          AtPlace(u.space[u.items[e][x]], u.space[e], u.axis[e], x - m + p, g)

\* They do, where the sizes in the changed places add up to what they did.
LEMMA SplicedStay ==
    ASSUME NEW u, Sized(u), NEW e \in Divisions(u), NEW k, NEW m, NEW p, m >= 1,
           NEW mm, mm = ShownSizes(u, e), NEW n, n = Len(u.items[e]),
           NEW g, Splices(mm, n, g, k, m, p)
    PROVE  /\ OthersStay(u, e, g, k, m, p)
           /\ Sum(g, 1 .. n - m + p) = u.space[e].size[u.axis[e]]
<1>0. n \in Nat /\ m \in Nat /\ p \in Nat /\ k \in 1 .. n /\ k + m - 1 <= n
  BY DEF Splices
<1>1. PICK w, a : w = u.space[e] /\ a = u.axis[e]
  OBVIOUS
<1>2. /\ DOMAIN u.items[e] = 1 .. n
      /\ Sum(mm, 1 .. n) = w.size[a]
      /\ \A x \in 1 .. n : AtPlace(u.space[u.items[e][x]], w, a, x, mm)
  <2>1. LET f == ShownSizes(u, e)
            r == u.space[e]
            c == u.axis[e]
        IN  /\ Sum(f, DOMAIN u.items[e]) = r.size[c]
            /\ DOMAIN u.items[e] = 1 .. Len(u.items[e])
            /\ \A x \in DOMAIN u.items[e] : AtPlace(u.space[u.items[e][x]], r, c, x, f)
    BY SizedShows
  <2> QED
    BY <1>1, <2>1
<1>3. \A x \in 1 .. k : Sum(g, 1 .. x - 1) = Sum(mm, 1 .. x - 1)
  BY SplicedSums
<1>4. \A x \in k + m - 1 .. n : Sum(g, 1 .. x - m + p) = Sum(mm, 1 .. x)
  BY SplicedSums, SMTT(40)
<1>5. ASSUME NEW x \in 1 .. k - 1 PROVE AtPlace(u.space[u.items[e][x]], w, a, x, g)
  <2>1. x \in 1 .. n /\ x \in 1 .. k
    BY <1>0
  <2>2. g[x] = mm[x] /\ Sum(g, 1 .. x - 1) = Sum(mm, 1 .. x - 1)
    BY <1>3, <2>1 DEF Splices
  <2>3. AtPlace(u.space[u.items[e][x]], w, a, x, mm)
    BY <1>2, <2>1, SMTT(40)
  <2> QED
    BY <2>2, <2>3, Zenon DEF AtPlace
<1>6. ASSUME NEW x \in k + m .. n
      PROVE  AtPlace(u.space[u.items[e][x]], w, a, x - m + p, g)
  <2>1. PICK y, z : y = x - m + p /\ z = x - 1
    OBVIOUS
  <2>2. x \in 1 .. n /\ z \in k + m - 1 .. n /\ z - m + p = y - 1
    BY <1>0, <2>1
  <2>3. g[y] = mm[x]
    BY <2>1 DEF Splices
  <2>4. Sum(g, 1 .. y - 1) = Sum(mm, 1 .. x - 1)
    BY <1>4, <2>1, <2>2
  <2>5. AtPlace(u.space[u.items[e][x]], w, a, x, mm)
    BY <1>2, <2>2
  <2> QED
    BY <2>1, <2>3, <2>4, <2>5, Zenon DEF AtPlace
<1>7. Sum(g, 1 .. n - m + p) = w.size[a]
  <2>1. n \in k + m - 1 .. n
    BY <1>0
  <2> QED
    BY <1>2, <1>4, <2>1
<1> QED
  BY <1>1, <1>5, <1>6, <1>7 DEF OthersStay

------------------------------------------------------------------------------
(* What a split makes.                                                      *)

\* At this scale sharing a size gives that size, whatever it is.
SharesAt(u, d, excluded, scale) ==
    \A mm : IsFraction(mm) /\ Zero \prec mm
               => scale ** SharingRule(u, d, excluded, mm).weight = mm

\* Where a driven member is left, the scale at which the rules show their sizes is one.
LEMMA SharingAtEvery ==
    ASSUME NEW u, Sized(u), NEW d \in Divisions(u), NEW excluded,
           DrivenPlaces(u, d) \ excluded # {}
    PROVE  \E scale : ShowsOff(u, d, {}, scale) /\ SharesAt(u, d, excluded, scale)
<1>1. PICK f : f = ShownSizes(u, d)
  OBVIOUS
<1> DEFINE anchors == DrivenPlaces(u, d) \ excluded
<1>2. PICK s : RulesShow(u, d, f, s)
  BY <1>1, SizedRun
<1>3. PICK m : m = Min(anchors)
  OBVIOUS
<1>4. /\ DOMAIN u.items[d] = 1 .. Len(u.items[d]) /\ Len(u.items[d]) \in Nat
      /\ RunTyped(u, d)
  BY RunIsTyped DEF Sized
<1>5. anchors \in SUBSET (1 .. Len(u.items[d]))
  BY <1>4 DEF DrivenPlaces
<1>6. m \in anchors
  BY <1>3, <1>4, <1>5, MinIsFirst
<1>7. m \in DrivenPlaces(u, d) /\ m \in DOMAIN u.items[d]
  BY <1>6 DEF DrivenPlaces
<1>8. PICK w : w = WeightAt(u, d, m)
  OBVIOUS
<1>9. IsFraction(w) /\ Zero \prec w /\ IsFraction(s) /\ Zero \prec s
  BY <1>2, <1>4, <1>7, <1>8 DEF RunTyped, RulesShow
<1>10. Extent(u, u.items[d][m]) = s ** w
  BY <1>1, <1>2, <1>7, <1>8, SizedRun DEF RulesShow
<1>11. ASSUME NEW mm, IsFraction(mm), Zero \prec mm
       PROVE  s ** SharingRule(u, d, excluded, mm).weight = mm
  <2>1. SharingRule(u, d, excluded, mm) = Weighted((mm ** w) // (s ** w))
    BY <1>3, <1>8, <1>10 DEF SharingRule, WeightAt
  <2> QED
    BY <1>9, <1>11, <2>1, SharedScale DEF Weighted
<1>12. ShowsOff(u, d, {}, s)
  BY <1>1, <1>2, <1>9 DEF ShowsOff, RulesShow, DrivenPlaces
<1> QED
  BY <1>11, <1>12 DEF SharesAt

\* Where none is, the member takes all that is left, at any scale.
LEMMA SharingAtScale ==
    ASSUME NEW u, Sized(u), NEW d \in Divisions(u), NEW excluded,
           NEW mm, IsFraction(mm), Zero \prec mm
    PROVE  \E scale : /\ ShowsOff(u, d, excluded, scale)
                      /\ scale ** SharingRule(u, d, excluded, mm).weight = mm
<1>1. CASE DrivenPlaces(u, d) \ excluded = {}
  <2>1. SharingRule(u, d, excluded, mm) = Weighted(One)
    BY <1>1 DEF SharingRule, Fill
  <2>2. mm ** One = mm
    <3>1. IsFraction(One)
      BY ProductFacts
    <3> QED
      BY <3>1, ProductFacts
  <2>3. ShowsOff(u, d, excluded, mm)
    BY <1>1 DEF ShowsOff
  <2> QED
    BY <2>1, <2>2, <2>3 DEF Weighted
<1>2. CASE DrivenPlaces(u, d) \ excluded # {}
  <2>1. PICK s : ShowsOff(u, d, {}, s) /\ SharesAt(u, d, excluded, s)
    BY <1>2, SharingAtEvery
  <2>2. ShowsOff(u, d, excluded, s)
    BY <2>1 DEF ShowsOff
  <2> QED
    BY <2>1, <2>2 DEF SharesAt
<1> QED
  BY <1>1, <1>2

\* The rest of what a split does to the fields of a unit.
HalfCut(u, w, r, a, b) ==
    /\ w.thick[b] = u.thick[SourceBoard(u, r, a)]
    /\ \A i \in Boards(u) : w.thick[i] = u.thick[i]
    /\ DOMAIN w.pinned = DOMAIN u.pinned \ {r}
    /\ \A i \in DOMAIN w.pinned : w.pinned[i] = u.pinned[i]

\* That is what it does.
LEMMA HalvedCuts ==
    ASSUME NEW u, Struct(u), NEW r \in Bays(u), NEW a, NEW half, NEW new, NEW b,
           b = new.board, b \notin Nodes(u)
    PROVE  HalfCut(u, Halved(u, r, a, new, half), r, a, b)
<1>1. PICK y : y = u.thick[SourceBoard(u, r, a)]
  OBVIOUS
<1>2. PICK thick, rule : /\ thick = Over(u.thick, Single(b, y))
                         /\ rule = Over(u.rule, [i \in {new.board, new.low, new.high} |->
                                                   IF i = new.board THEN Own ELSE half])
  OBVIOUS
<1>3. PICK x : x = [u EXCEPT !.thick = thick, !.rule = rule]
  OBVIOUS
<1>4. PICK w : w = Halved(u, r, a, new, half)
  OBVIOUS
<1>5. w = Without(x, {r})
  BY <1>1, <1>2, <1>3, <1>4 DEF Halved
<1>6. Fields \subseteq DOMAIN x /\ x.thick = thick /\ x.pinned = u.pinned
  BY <1>3 DEF Struct, Fields
<1>7. w.thick = Less(thick, {r}) /\ w.pinned = Less(u.pinned, {r})
  BY <1>5, <1>6 DEF Without, Fields
<1>8. PICK f, s : f = u.thick /\ s = Single(b, y)
  OBVIOUS
<1>9. DOMAIN s = {b} /\ s[b] = y
  BY <1>8, SingleFacts
<1>10. /\ DOMAIN thick = DOMAIN f \cup {b} /\ thick[b] = y
       /\ \A i \in DOMAIN f \ {b} : thick[i] = f[i]
  <2>1. thick = Over(f, s)
    BY <1>2, <1>8
  <2>2. /\ DOMAIN Over(f, s) = DOMAIN f \cup DOMAIN s
        /\ \A i \in DOMAIN s : Over(f, s)[i] = s[i]
        /\ \A i \in DOMAIN f \ DOMAIN s : Over(f, s)[i] = f[i]
    BY OverFacts
  <2> QED
    BY <1>9, <2>1, <2>2
<1>11. r \in Nodes(u) /\ r \notin Boards(u) /\ b # r /\ b \notin Boards(u)
  BY DEF Bays, Regions, Struct
<1>12. \A i \in DOMAIN thick \ {r} : w.thick[i] = thick[i]
  <2>1. \A i \in DOMAIN thick \ {r} : Less(thick, {r})[i] = thick[i]
    BY LessFacts
  <2> QED
    BY <1>7, <2>1
<1>13. DOMAIN w.pinned = DOMAIN u.pinned \ {r} /\ \A i \in DOMAIN w.pinned : w.pinned[i] = u.pinned[i]
  <2>1. PICK g : g = u.pinned
    OBVIOUS
  <2>2. /\ DOMAIN Less(g, {r}) = DOMAIN g \ {r}
        /\ \A i \in DOMAIN g \ {r} : Less(g, {r})[i] = g[i]
    BY LessFacts
  <2> QED
    BY <1>7, <2>1, <2>2
<1>14. w.thick[b] = y
  BY <1>10, <1>11, <1>12
<1>15. \A i \in Boards(u) : w.thick[i] = u.thick[i]
  BY <1>8, <1>10, <1>11, <1>12 DEF Boards
<1> QED
  BY <1>1, <1>4, <1>13, <1>14, <1>15 DEF HalfCut

\* v is u with the board b between the bays l and h instead of r: in its run, or in a
\* division n of their own that takes its place there.
IsSplit(u, v, r, a, b, l, h, n, half) ==
    /\ {b, l, h, n} \cap Nodes(u) = {} /\ b # l /\ b # h /\ l # h /\ n \notin {b, l, h}
    /\ v.root = u.root /\ v.low = u.low /\ v.size = u.size
    /\ Boards(v) = Boards(u) \cup {b} /\ HalfCut(u, v, r, a, b)
    /\ v.rule[b] = Own /\ v.rule[l] = half /\ v.rule[h] = half
    /\ \A i \in Nodes(u) \ {r} : v.rule[i] = u.rule[i]
    /\ \A e \in Divisions(u) : /\ v.axis[e] = u.axis[e]
                               /\ e # RunOf(u, r) => v.items[e] = u.items[e]

\* The first of these,
SplitsRun(u, v, r, a, b, l, h, half) ==
    /\ u.axis[RunOf(u, r)] = a /\ half = HalfRule(u, r, HalfMm(u, r, a))
    /\ Nodes(v) = (Nodes(u) \ {r}) \cup {b, l, h} /\ Divisions(v) = Divisions(u)
    /\ v.items[RunOf(u, r)] = Splice(u.items[RunOf(u, r)], PlaceOf(u, r), 1, <<l, b, h>>)

\* and the second.
SplitsBay(u, v, r, a, b, l, h, n, half) ==
    /\ u.axis[RunOf(u, r)] # a /\ half = Fill
    /\ Nodes(v) = (Nodes(u) \ {r}) \cup {b, l, h, n} /\ Divisions(v) = Divisions(u) \cup {n}
    /\ v.items[RunOf(u, r)] = [u.items[RunOf(u, r)] EXCEPT ![PlaceOf(u, r)] = n]
    /\ v.items[n] = <<l, b, h>> /\ v.axis[n] = a /\ v.rule[n] = u.rule[r]

\* A split makes one of these (edit.py split_region).
LEMMA SplitMakes ==
    ASSUME NEW u, Struct(u), Room(u), NEW r, NEW a, CanSplit(u, r, a),
           NEW v, v = SplitRegion(u, r, a)
    PROVE  \E b, l, h, n, half : /\ IsSplit(u, v, r, a, b, l, h, n, half)
                                 /\ \/ SplitsRun(u, v, r, a, b, l, h, half)
                                    \/ SplitsBay(u, v, r, a, b, l, h, n, half)
<1>1. PICK new, d, k : new = NewNodes(u) /\ d = RunOf(u, r) /\ k = PlaceOf(u, r)
  OBVIOUS
<1>2. PICK b, l, h, n : b = new.board /\ l = new.low /\ h = new.high /\ n = new.division
  OBVIOUS
<1>3. {b, l, h, n} \cap Nodes(u) = {} /\ b # l /\ b # h /\ l # h /\ n \notin {b, l, h}
  BY <1>1, <1>2, NewNodesFacts
<1>4. r \in Bays(u) /\ r # u.root /\ r \in Nodes(u) \ {u.root}
  BY DEF CanSplit, Bays, Regions
<1>5. d \in Divisions(u) /\ k \in DOMAIN u.items[d]
  BY <1>1, <1>4, PlaceInRun
<1>6. /\ Boards(u) \subseteq Nodes(u) /\ Divisions(u) \subseteq Nodes(u)
  BY DEF Struct, Regions
<1>7. PICK half : half = IF u.axis[d] = a THEN HalfRule(u, r, HalfMm(u, r, a)) ELSE Fill
  OBVIOUS
<1>8. PICK w : w = Halved(u, r, a, new, half)
  OBVIOUS
<1>9. HalfDone(u, w, r, b, l, h, half)
  BY <1>2, <1>3, <1>4, <1>8, HalvedFacts
<1>10. HalfCut(u, w, r, a, b)
  BY <1>2, <1>3, <1>4, <1>8, HalvedCuts
<1>11. v.root = u.root /\ v.low = u.low /\ v.size = u.size
  <2>1. SameFrame(u, v)
    BY SplitFrame DEF Struct
  <2>2. v.root = w.root
    BY <1>1, <1>2, <1>7, <1>8 DEF SplitRegion
  <2> QED
    BY <1>9, <2>1, <2>2 DEF SameFrame, HalfDone
<1>12. CASE u.axis[d] = a
  <2>1. PICK s : s = Splice(w.items[d], k, 1, <<l, b, h>>)
    OBVIOUS
  <2>2. v = [w EXCEPT !.items[d] = s]
    BY <1>1, <1>2, <1>7, <1>8, <1>12, <2>1 DEF SplitRegion
  <2>3. /\ v.rule = w.rule /\ v.thick = w.thick /\ v.pinned = w.pinned /\ v.axis = w.axis
        /\ v.items = [w.items EXCEPT ![d] = s]
    BY <1>9, <2>2 DEF HalfDone, Fields
  <2>4. /\ w.items[d] = u.items[d] /\ Divisions(w) = Divisions(u)
        /\ \A e \in Divisions(u) : w.items[e] = u.items[e] /\ w.axis[e] = u.axis[e]
    BY <1>5, <1>9 DEF HalfDone
  <2>5. /\ v.items[d] = s /\ Divisions(v) = Divisions(u)
        /\ \A e \in Divisions(u) : e # d => v.items[e] = u.items[e]
    BY <1>5, <2>3, <2>4 DEF Divisions
  <2>6. Nodes(v) = (Nodes(u) \ {r}) \cup {b, l, h} /\ Boards(v) = Boards(u) \cup {b}
    BY <1>9, <2>3 DEF HalfDone, Nodes, Boards
  <2>7. HalfCut(u, v, r, a, b)
    BY <1>10, <2>3 DEF HalfCut
  <2>8. /\ v.rule[b] = Own /\ v.rule[l] = half /\ v.rule[h] = half
        /\ \A i \in Nodes(u) \ {r} : v.rule[i] = u.rule[i]
    BY <1>9, <2>3 DEF HalfDone
  <2>9. IsSplit(u, v, r, a, b, l, h, n, half)
    BY <1>1, <1>3, <1>11, <2>3, <2>4, <2>5, <2>6, <2>7, <2>8 DEF IsSplit
  <2>10. SplitsRun(u, v, r, a, b, l, h, half)
    BY <1>1, <1>7, <1>12, <2>1, <2>4, <2>5, <2>6 DEF SplitsRun
  <2> QED
    BY <2>9, <2>10
<1>13. CASE u.axis[d] # a
  <2>1. PICK rule, items, axis :
           /\ rule = Over(w.rule, Single(n, u.rule[r]))
           /\ items = Over([w.items EXCEPT ![d][k] = n], Single(n, <<l, b, h>>))
           /\ axis = Over(w.axis, Single(n, a))
    OBVIOUS
  <2>2. v = [w EXCEPT !.rule = rule, !.items = items, !.axis = axis]
    BY <1>1, <1>2, <1>7, <1>8, <1>13, <2>1 DEF SplitRegion
  <2>3. /\ v.rule = rule /\ v.thick = w.thick /\ v.pinned = w.pinned /\ v.axis = axis
        /\ v.items = items
    BY <1>9, <2>2 DEF HalfDone, Fields
  <2>4. /\ w.items[d] = u.items[d] /\ Divisions(w) = Divisions(u) /\ DOMAIN w.axis = Divisions(u)
        /\ \A e \in Divisions(u) : w.items[e] = u.items[e] /\ w.axis[e] = u.axis[e]
    BY <1>5, <1>9 DEF HalfDone
  <2>5. ASSUME NEW f, NEW y
        PROVE  /\ DOMAIN Over(f, Single(n, y)) = DOMAIN f \cup {n}
               /\ Over(f, Single(n, y))[n] = y
               /\ \A x \in DOMAIN f \ {n} : Over(f, Single(n, y))[x] = f[x]
    <3>1. PICK g : g = Single(n, y)
      OBVIOUS
    <3>2. DOMAIN g = {n} /\ g[n] = y
      BY <3>1, SingleFacts
    <3>3. /\ DOMAIN Over(f, g) = DOMAIN f \cup DOMAIN g
          /\ \A x \in DOMAIN g : Over(f, g)[x] = g[x]
          /\ \A x \in DOMAIN f \ DOMAIN g : Over(f, g)[x] = f[x]
      BY OverFacts
    <3> QED
      BY <3>1, <3>2, <3>3
  <2>6. /\ DOMAIN rule = DOMAIN w.rule \cup {n} /\ rule[n] = u.rule[r]
        /\ \A x \in DOMAIN w.rule \ {n} : rule[x] = w.rule[x]
    <3>1. PICK f, y : f = w.rule /\ y = u.rule[r]
      OBVIOUS
    <3>2. rule = Over(f, Single(n, y))
      BY <2>1, <3>1
    <3>3. /\ DOMAIN Over(f, Single(n, y)) = DOMAIN f \cup {n} /\ Over(f, Single(n, y))[n] = y
          /\ \A x \in DOMAIN f \ {n} : Over(f, Single(n, y))[x] = f[x]
      BY <2>5
    <3> QED
      BY <3>1, <3>2, <3>3
  <2>7. /\ DOMAIN axis = DOMAIN w.axis \cup {n} /\ axis[n] = a
        /\ \A x \in DOMAIN w.axis \ {n} : axis[x] = w.axis[x]
    <3>1. PICK f, y : f = w.axis /\ y = a
      OBVIOUS
    <3>2. axis = Over(f, Single(n, y))
      BY <2>1, <3>1
    <3>3. /\ DOMAIN Over(f, Single(n, y)) = DOMAIN f \cup {n} /\ Over(f, Single(n, y))[n] = y
          /\ \A x \in DOMAIN f \ {n} : Over(f, Single(n, y))[x] = f[x]
      BY <2>5
    <3> QED
      BY <3>1, <3>2, <3>3
  <2>8. PICK c, z : c = [w.items EXCEPT ![d] = z] /\ z = [u.items[d] EXCEPT ![k] = n]
    OBVIOUS
  <2>9. [w.items EXCEPT ![d][k] = n] = c
    BY <2>4, <2>8
  <2>10. /\ DOMAIN items = DOMAIN c \cup {n} /\ items[n] = <<l, b, h>>
         /\ \A x \in DOMAIN c \ {n} : items[x] = c[x]
    <3>1. items = Over(c, Single(n, <<l, b, h>>))
      BY <2>1, <2>9
    <3> QED
      BY <2>5, <3>1
  <2>11. DOMAIN c = Divisions(u) /\ c[d] = z /\ \A e \in Divisions(u) : e # d => c[e] = u.items[e]
    BY <1>5, <2>4, <2>8 DEF Divisions
  <2>12. n \notin Divisions(u) /\ n \notin Nodes(u)
    BY <1>3, <1>6
  <2>13. /\ v.items[d] = z /\ v.items[n] = <<l, b, h>> /\ Divisions(v) = Divisions(u) \cup {n}
         /\ \A e \in Divisions(u) : e # d => v.items[e] = u.items[e]
    BY <1>5, <2>3, <2>10, <2>11, <2>12 DEF Divisions
  <2>14. \A e \in Divisions(u) : v.axis[e] = u.axis[e]
    BY <2>3, <2>4, <2>7, <2>12
  <2>15. /\ Nodes(v) = (Nodes(u) \ {r}) \cup {b, l, h, n} /\ Boards(v) = Boards(u) \cup {b}
    BY <1>9, <2>3, <2>6 DEF HalfDone, Nodes, Boards
  <2>16. HalfCut(u, v, r, a, b)
    BY <1>10, <2>3 DEF HalfCut
  <2>17. /\ v.rule[b] = Own /\ v.rule[l] = half /\ v.rule[h] = half
         /\ \A i \in Nodes(u) \ {r} : v.rule[i] = u.rule[i]
    BY <1>3, <1>9, <2>3, <2>6, <2>12 DEF HalfDone, Nodes
  <2>18. IsSplit(u, v, r, a, b, l, h, n, half)
    BY <1>1, <1>3, <1>11, <2>13, <2>14, <2>15, <2>16, <2>17 DEF IsSplit
  <2>19. SplitsBay(u, v, r, a, b, l, h, n, half)
    BY <1>1, <1>7, <1>13, <2>3, <2>6, <2>7, <2>8, <2>13, <2>15 DEF SplitsBay
  <2> QED
    BY <2>18, <2>19
<1> QED
  BY <1>12, <1>13

\* A unit with the place, the size and the fixed point of a framed one is framed.
LEMMA FrameIsSame ==
    ASSUME NEW u, IsFramed(u), NEW v, SameFrame(u, v)
    PROVE  IsFramed(v) /\ OuterSpace(v) = OuterSpace(u)
BY DEF SameFrame, IsFramed, OuterSpace

\* One member, and three, add up.
LEMMA SumOfOne ==
    ASSUME NEW f, NEW k \in Nat, IsFraction(f[k])
    PROVE  Sum(f, k .. k) = f[k]
<1>1. Sum(f, {} \cup {k}) = f[k] ++ Sum(f, {}) /\ Sum(f, {}) = Zero
  <2>1. IsFiniteSet({}) /\ k \notin {} /\ Fractional(f, {} \cup {k})
    BY FS_EmptySet DEF Fractional
  <2> QED
    BY <2>1, SumAdds
<1>2. {} \cup {k} = k .. k
  OBVIOUS
<1>3. f[k] ++ Zero = f[k]
  BY AddFacts
<1> QED
  BY <1>1, <1>2, <1>3

\* The sum of three places in a row.
LEMMA SumOfThree ==
    ASSUME NEW f, NEW k \in Nat,
           IsFraction(f[k]), IsFraction(f[k + 1]), IsFraction(f[k + 2])
    PROVE  Sum(f, k .. k + 2) = f[k] ++ (f[k + 1] ++ f[k + 2])
<1>1. PICK l, m : l = k + 1 /\ m = k + 2
  OBVIOUS
<1>2. k \in Nat /\ l \in Nat /\ m \in Nat /\ k .. k + 2 = {m, l} \cup {k}
      /\ {m, l} = {m} \cup {l} /\ l \notin {m} /\ k \notin {m, l}
  BY <1>1
<1>3. Sum(f, {m}) = f[m]
  <2>1. {m} = m .. m
    BY <1>2
  <2> QED
    BY <1>1, <1>2, <2>1, SumOfOne
<1>4. Sum(f, {m} \cup {l}) = f[l] ++ Sum(f, {m})
  <2>1. IsFiniteSet({m}) /\ Fractional(f, {m} \cup {l})
    BY <1>1, FS_Singleton DEF Fractional
  <2> QED
    BY <1>2, <2>1, SumAdds
<1>5. Sum(f, {m, l} \cup {k}) = f[k] ++ Sum(f, {m, l})
  <2>1. IsFiniteSet({m, l}) /\ Fractional(f, {m, l} \cup {k})
    <3>1. IsFiniteSet({m} \cup {l})
      BY FS_Singleton, FS_Union
    <3> QED
      BY <1>1, <1>2, <3>1 DEF Fractional
  <2> QED
    BY <1>2, <2>1, SumAdds
<1> QED
  BY <1>1, <1>2, <1>3, <1>4, <1>5

\* A board and two halves of what it leaves fill a bay.
LEMMA HalvesFill ==
    ASSUME NEW x, NEW t, IsFraction(x), IsFraction(t), NEW mm, mm = (x -- t) // Whole(2)
    PROVE  /\ IsFraction(mm) /\ mm ++ (t ++ mm) = x
           /\ t \prec x => Zero \prec mm
<1>1. IsFraction(Whole(2)) /\ Zero \prec Whole(2) /\ IsFraction(One)
  BY WholeIsFrac DEF \prec, Zero, One, Whole
<1>2. PICK y : y = x -- t
  OBVIOUS
<1>3. IsFraction(y) /\ y ++ t = x
  BY <1>2, AddFacts
<1>4. IsFraction(mm) /\ mm ** Whole(2) = y
  BY <1>1, <1>2, <1>3, QuotientLaws
<1>5. One ++ One = Whole(2)
  <2>1. One = Frac(1, 1) /\ Whole(2) = Frac(2, 1)
    BY WholeIsFrac DEF One
  <2>2. Frac(1, 1) ++ Frac(1, 1) = Frac(2, 1)
    BY OverOneDenominator
  <2> QED
    BY <2>1, <2>2
<1>6. mm ++ mm = y
  <2>1. mm ** (One ++ One) = (mm ** One) ++ (mm ** One)
    BY <1>1, <1>4, ProductLaws
  <2>2. mm ** One = mm
    BY <1>1, <1>4, ProductFacts
  <2> QED
    BY <1>4, <1>5, <2>1, <2>2
<1>7. mm ++ (t ++ mm) = x
  <2>1. t ++ mm = mm ++ t
    BY <1>4, AddFacts
  <2>2. (mm ++ mm) ++ t = mm ++ (mm ++ t)
    BY <1>4, SumLaws
  <2> QED
    BY <1>3, <1>6, <2>1, <2>2
<1>8. ASSUME t \prec x PROVE Zero \prec mm
  <2>1. Zero \prec y
    BY <1>2, <1>8, OrderFacts
  <2> QED
    BY <1>1, <1>2, <1>3, <2>1, QuotientLaws
<1> QED
  BY <1>4, <1>7, <1>8

\* A run like one of u has the rooms that run has.
LEMMA AlikeKeeps ==
    ASSUME NEW u, Sized(u), NEW e \in Divisions(u), NEW v, NEW d, Alike(u, e, v, d),
           NEW mm, mm = ShownSizes(u, e), NEW w, w = u.space[e], NEW a, a = u.axis[e]
    PROVE  /\ ShowsRun(v, d, mm) /\ Sum(mm, DOMAIN v.items[d]) = w.size[a]
           /\ \A k \in DOMAIN v.items[d] : AtPlace(u.space[u.items[e][k]], w, a, k, mm)
<1>1. LET f == ShownSizes(u, e)
          x == u.space[e]
          c == u.axis[e]
      IN  /\ ShowsRun(u, e, f) /\ Sum(f, DOMAIN u.items[e]) = x.size[c]
          /\ \A k \in DOMAIN u.items[e] : AtPlace(u.space[u.items[e][k]], x, c, k, f)
  BY SizedShows
<1>2. ShowsRun(u, e, mm)
  BY <1>1
<1>3. ShowsRun(v, d, mm)
  BY <1>2, AlikeShows DEF Sized
<1>4. DOMAIN v.items[d] = DOMAIN u.items[e]
  BY DEF Alike
<1> QED
  BY <1>1, <1>3, <1>4

\* Every run of u is as it was in v but for the one of d.
LEMMA UntouchedRun ==
    ASSUME NEW u, Struct(u), NEW r \in Nodes(u) \ {u.root}, NEW e \in Divisions(u),
           e # RunOf(u, r), NEW v, v.items[e] = u.items[e],
           \A i \in Nodes(u) \ {r} : /\ v.rule[i] = u.rule[i]
                                     /\ i \in Boards(v) <=> i \in Boards(u)
                                     /\ i \in Boards(u) => v.thick[i] = u.thick[i]
    PROVE  Alike(u, e, v, e)
<1>1. IsRun(u.items[e], Nodes(u) \ {u.root})
  BY DEF Struct
<1>2. ASSUME NEW k \in DOMAIN u.items[e] PROVE u.items[e][k] \in Nodes(u) \ {r}
  <2>1. u.items[e][k] \in Nodes(u)
    BY <1>1, RunFacts
  <2>2. u.items[e][k] # r
    BY PlaceInRun
  <2> QED
    BY <2>1, <2>2
<1> QED
  BY <1>2 DEF Alike

\* What is in u and in v is in one place.
StaysIn(u, v) == \A i \in Nodes(u) \cap Nodes(v) : Spaces(v)[i] = u.space[i]

\* A split leaves all rooms but that of the bay (edit.py split_region).
LEMMA SplitKeeps ==
    ASSUME NEW u, Sized(u), Room(u), NEW r, NEW a \in Axes, CanSplit(u, r, a),
           NEW v, v = SplitRegion(u, r, a)
    PROVE  /\ Struct(v) /\ IsFramed(v) /\ Ruled(v) /\ OuterSpace(v) = OuterSpace(u)
           /\ KeepsRooms(u, v, Nodes(u) \ {r}) /\ StaysIn(u, v)
<1>0. Struct(u) /\ IsFramed(u) /\ Ruled(u) /\ u.space = Spaces(u)
  BY DEF Sized
<1>1. Struct(v)
  BY <1>0, SplitFacts DEF Keeps
<1>2. Ruled(v)
  BY SplitIsSound
<1>3. IsFramed(v) /\ OuterSpace(v) = OuterSpace(u)
  BY <1>0, SplitFrame, FrameIsSame DEF Struct
<1>4. PICK b, l, h, n, half : /\ IsSplit(u, v, r, a, b, l, h, n, half)
                              /\ \/ SplitsRun(u, v, r, a, b, l, h, half)
                                 \/ SplitsBay(u, v, r, a, b, l, h, n, half)
  BY <1>0, SplitMakes
<1>5. PICK d, k, K : d = RunOf(u, r) /\ k = PlaceOf(u, r) /\ K = Nodes(u) \ {r}
  OBVIOUS
<1>6. r \in Bays(u) /\ r \in Nodes(u) \ {u.root} /\ r \notin Boards(u) /\ r \notin Divisions(u)
  BY DEF CanSplit, Bays, Regions
<1>7. /\ d \in Divisions(u) /\ k \in DOMAIN u.items[d] /\ u.items[d][k] = r
      /\ \A e \in Divisions(u) : \A x \in DOMAIN u.items[e] :
            u.items[e][x] = r => e = d /\ x = k
  BY <1>0, <1>5, <1>6, PlaceInRun
<1>8. PICK N : N = Len(u.items[d])
  OBVIOUS
<1>9. /\ N \in Nat /\ DOMAIN u.items[d] = 1 .. N
      /\ \A x \in 1 .. N : u.items[d][x] \in Nodes(u) \ {u.root}
  BY <1>0, <1>7, <1>8, RunIsTyped
<1>10. /\ {b, l, h, n} \cap Nodes(u) = {} /\ b # l /\ b # h /\ l # h /\ n \notin {b, l, h}
       /\ v.root = u.root /\ Boards(v) = Boards(u) \cup {b}
       /\ v.rule[b] = Own /\ v.rule[l] = half /\ v.rule[h] = half
       /\ \A i \in Nodes(u) \ {r} : v.rule[i] = u.rule[i]
       /\ \A e \in Divisions(u) : v.axis[e] = u.axis[e] /\ (e # d => v.items[e] = u.items[e])
       /\ v.thick[b] = u.thick[SourceBoard(u, r, a)]
       /\ \A i \in Boards(u) : v.thick[i] = u.thick[i]
  BY <1>4, <1>5 DEF IsSplit, HalfCut
<1>11. Boards(u) \subseteq Nodes(u) /\ Divisions(u) \subseteq Nodes(u)
  BY <1>0 DEF Struct, Regions
<1>12. \A i \in Nodes(u) \ {r} : /\ v.rule[i] = u.rule[i]
                                 /\ i \in Boards(v) <=> i \in Boards(u)
                                 /\ i \in Boards(u) => v.thick[i] = u.thick[i]
  BY <1>10
<1> DEFINE Given(e, mm) ==
      /\ ShowsRun(v, e, mm) /\ Sum(mm, DOMAIN v.items[e]) = u.space[e].size[v.axis[e]]
      /\ \A x \in DOMAIN v.items[e] : v.items[e][x] \in K =>
            AtPlace(u.space[v.items[e][x]], u.space[e], v.axis[e], x, mm)
<1>13. ASSUME NEW e \in Divisions(u), e # d PROVE \E mm : Given(e, mm)
  <2>1. v.items[e] = u.items[e] /\ v.axis[e] = u.axis[e]
    BY <1>10, <1>13
  <2>2. Alike(u, e, v, e)
    BY <1>0, <1>5, <1>6, <1>12, <1>13, <2>1, UntouchedRun
  <2>3. PICK mm, w, c : mm = ShownSizes(u, e) /\ w = u.space[e] /\ c = u.axis[e]
    OBVIOUS
  <2>4. /\ ShowsRun(v, e, mm) /\ Sum(mm, DOMAIN v.items[e]) = w.size[c]
        /\ \A x \in DOMAIN v.items[e] : AtPlace(u.space[u.items[e][x]], w, c, x, mm)
    BY <2>2, <2>3, AlikeKeeps
  <2>5. Given(e, mm)
    BY <2>1, <2>3, <2>4
  <2> QED
    BY <2>5
<1>14. \E mm : Given(d, mm)
  <2>1. PICK mm, w, c : mm = ShownSizes(u, d) /\ w = u.space[d] /\ c = u.axis[d]
    OBVIOUS
  <2>2. v.axis[d] = c
    BY <1>7, <1>10, <2>1
  <2>3. CASE SplitsBay(u, v, r, a, b, l, h, n, half)
    <3>1. v.items[d] = [u.items[d] EXCEPT ![k] = n] /\ v.rule[n] = u.rule[r]
      BY <1>5, <2>3 DEF SplitsBay
    <3>2. DOMAIN v.items[d] = DOMAIN u.items[d] /\ v.items[d][k] = n
          /\ \A x \in DOMAIN u.items[d] : x # k => v.items[d][x] = u.items[d][x]
      BY <1>7, <3>1
    <3>3. Len(v.items[d]) = Len(u.items[d])
      <4>1. DOMAIN v.items[d] = 1 .. Len(u.items[d]) /\ Len(u.items[d]) \in Nat
        BY <1>8, <1>9, <3>2
      <4>2. d \in Divisions(v)
        BY <1>5, <1>7, <2>3 DEF SplitsBay
      <4>3. DOMAIN v.items[d] = 1 .. Len(v.items[d]) /\ Len(v.items[d]) \in Nat
        BY <1>1, <1>2, <4>2, RunIsTyped
      <4> QED
        BY <4>1, <4>3
    <3>4. n \notin Boards(v)
      BY <1>10, <1>11
    <3>5. Alike(u, d, v, d)
      <4>1. ASSUME NEW x \in DOMAIN u.items[d]
            PROVE  /\ v.rule[v.items[d][x]] = u.rule[u.items[d][x]]
                   /\ v.items[d][x] \in Boards(v) <=> u.items[d][x] \in Boards(u)
                   /\ u.items[d][x] \in Boards(u) =>
                         v.thick[v.items[d][x]] = u.thick[u.items[d][x]]
        <5>1. CASE x = k
          BY <1>6, <1>7, <3>1, <3>2, <3>4, <5>1
        <5>2. CASE x # k
          <6>1. u.items[d][x] \in Nodes(u) \ {r} /\ v.items[d][x] = u.items[d][x]
            BY <1>7, <1>9, <3>2, <5>2
          <6> QED
            BY <1>12, <6>1
        <5> QED
          BY <5>1, <5>2
      <4> QED
        BY <3>2, <3>3, <4>1 DEF Alike
    <3>6. /\ ShowsRun(v, d, mm) /\ Sum(mm, DOMAIN v.items[d]) = w.size[c]
          /\ \A x \in DOMAIN v.items[d] : AtPlace(u.space[u.items[d][x]], w, c, x, mm)
      BY <1>7, <2>1, <3>5, AlikeKeeps
    <3>7. \A x \in DOMAIN v.items[d] : v.items[d][x] \in K => v.items[d][x] = u.items[d][x]
      BY <1>5, <1>10, <3>2
    <3>8. Given(d, mm)
      BY <2>1, <2>2, <3>6, <3>7
    <3> QED
      BY <3>8
  <2>4. CASE SplitsRun(u, v, r, a, b, l, h, half)
    <3>1. PICK t : t = <<l, b, h>>
      OBVIOUS
    <3>2. /\ c = a /\ half = HalfRule(u, r, HalfMm(u, r, a)) /\ Divisions(v) = Divisions(u)
          /\ v.items[d] = Splice(u.items[d], k, 1, t)
      BY <1>5, <2>1, <2>4, <3>1 DEF SplitsRun
    <3>3. PICK src, x, y, z : /\ src = SourceBoard(u, r, a) /\ x = Extent(u, r)
                              /\ y = u.thick[src] /\ z = HalfMm(u, r, a)
      OBVIOUS
    <3>4. IsFraction(x) /\ IsFraction(y) /\ Zero \prec y
      <4>1. src \in Boards(u)
        BY <1>6, <3>3, SourceIsBoard DEF CanSplit
      <4> QED
        BY <1>0, <1>6, <3>3, <4>1, ExtentFacts DEF Ruled
    <3>5. z = (x -- y) // Whole(2) /\ Zero \prec z
      <4>1. AxisOf(u, r) = a
        BY <1>5, <2>1, <3>2 DEF AxisOf
      <4> QED
        BY <3>3, <4>1 DEF HalfMm, CanSplit
    <3>6. IsFraction(z) /\ z ++ (y ++ z) = x
      BY <3>4, <3>5, HalvesFill
    <3>7. PICK scale : /\ ShowsOff(u, d, {k}, scale)
                       /\ scale ** SharingRule(u, d, {k}, z).weight = z
      BY <1>7, <3>5, <3>6, SharingAtScale
    <3>8. SplicedPlaces(u.items[d], k, 1, t, v.items[d]) /\ Len(t) = 3
          /\ t[1] = l /\ t[2] = b /\ t[3] = h
      <4>1. PICK S : S = Nodes(u) \cup {l, b, h}
        OBVIOUS
      <4>2. t \in Seq(S)
        BY <3>1, <4>1
      <4>3. u.items[d] \in Seq(S)
        <5>1. u.items[d] \in Seq(Nodes(u) \ {u.root})
          BY <1>0, <1>7 DEF Struct, IsRun
        <5> QED
          BY <4>1, <5>1
      <4>4. k \in 1 .. Len(u.items[d]) /\ 1 \in Nat /\ k + 1 - 1 <= Len(u.items[d])
        BY <1>7, <1>8, <1>9
      <4>5. SplicedPlaces(u.items[d], k, 1, t, Splice(u.items[d], k, 1, t))
        BY <4>2, <4>3, <4>4, SplicePlaces
      <4> QED
        BY <3>1, <3>2, <4>5
    <3>9. /\ Len(v.items[d]) = N - 1 + 3 /\ DOMAIN v.items[d] = 1 .. N - 1 + 3
          /\ \A p \in 1 .. k - 1 : v.items[d][p] = u.items[d][p]
          /\ v.items[d][k] = l /\ v.items[d][k + 1] = b /\ v.items[d][k + 2] = h
          /\ \A p \in k + 1 .. N : v.items[d][p - 1 + 3] = u.items[d][p]
      <4>1. /\ k - 1 + 1 = k /\ k - 1 + 2 = k + 1 /\ k - 1 + 3 = k + 2
            /\ 1 \in 1 .. 3 /\ 2 \in 1 .. 3 /\ 3 \in 1 .. 3
        BY <1>7, <1>9
      <4>2. /\ v.items[d][k - 1 + 1] = t[1] /\ v.items[d][k - 1 + 2] = t[2]
            /\ v.items[d][k - 1 + 3] = t[3]
        BY <3>8, <4>1 DEF SplicedPlaces
      <4> QED
        BY <1>8, <3>8, <4>1, <4>2 DEF SplicedPlaces
    <3>10. SplicedRun(u, d, v, d, k, 1, 3)
      <4>1. k \in 1 .. N /\ k + 1 - 1 <= N
        BY <1>7, <1>9
      <4>2. ASSUME NEW p \in 1 .. N, p # k, NEW q, v.items[d][q] = u.items[d][p]
            PROVE  SameMember(u, d, p, v, d, q)
        <5>1. u.items[d][p] \in Nodes(u) \ {r}
          BY <1>7, <1>9, <4>2
        <5> QED
          BY <1>12, <4>2, <5>1 DEF SameMember
      <4>3. ASSUME NEW p \in 1 .. k - 1 PROVE SameMember(u, d, p, v, d, p)
        <5>1. p \in 1 .. N /\ p # k
          BY <1>9, <4>1
        <5> QED
          BY <3>9, <4>2, <5>1
      <4>4. ASSUME NEW p \in k + 1 .. N PROVE SameMember(u, d, p, v, d, p - 1 + 3)
        <5>1. p \in 1 .. N /\ p # k
          BY <4>1
        <5> QED
          BY <3>9, <4>2, <5>1
      <4> QED
        BY <1>6, <1>7, <1>8, <3>9, <4>1, <4>3, <4>4 DEF SplicedRun
    <3>11. PICK f : f = [p \in k .. k + 2 |-> IF p = k + 1 THEN y ELSE z]
      OBVIOUS
    <3>12. f[k] = z /\ f[k + 1] = y /\ f[k + 2] = z /\ k .. k + 3 - 1 = k .. k + 2
           /\ \A p \in k .. k + 2 : p = k \/ p = k + 1 \/ p = k + 2
      BY <1>7, <1>9, <3>11, SMTT(40)
    <3>13. /\ k \in DOMAIN v.items[d] /\ k + 1 \in DOMAIN v.items[d]
           /\ k + 2 \in DOMAIN v.items[d]
      BY <1>7, <1>9, <3>9
    <3>14. ASSUME NEW p \in DOMAIN v.items[d], v.rule[v.items[d][p]] = half
           PROVE  MemberShows(v, d, p, z, scale)
      <4>1. CASE Locked(u, r)
        <5>1. half = Fixed(z, "clear")
          BY <3>2, <3>3, <4>1 DEF HalfRule
        <5>2. p \notin DrivenPlaces(v, d) /\ Resolves(v, d, p) /\ FixedMm(v, d, p) = z
          BY <3>14, <5>1 DEF DrivenPlaces, Driven, Resolves, FixedMm, Fixed
        <5> QED
          BY <3>5, <3>6, <5>2 DEF MemberShows
      <4>2. CASE ~Locked(u, r)
        <5>1. half = SharingRule(u, d, {k}, z)
          BY <1>5, <3>2, <3>3, <4>2 DEF HalfRule
        <5>2. half.kind = "driven" /\ scale ** half.weight = z
          BY <3>7, <5>1, SharingIsDriven
        <5>3. p \in DrivenPlaces(v, d) /\ Resolves(v, d, p) /\ WeightAt(v, d, p) = half.weight
          BY <3>14, <5>2 DEF DrivenPlaces, Driven, Resolves, WeightAt
        <5> QED
          BY <3>5, <3>6, <5>2, <5>3 DEF MemberShows
      <4> QED
        BY <4>1, <4>2
    <3>15. MemberShows(v, d, k + 1, y, scale)
      <4>1. v.rule[v.items[d][k + 1]] = Own /\ v.thick[v.items[d][k + 1]] = y
        BY <1>10, <3>3, <3>9
      <4>2. /\ k + 1 \notin DrivenPlaces(v, d) /\ Resolves(v, d, k + 1)
            /\ FixedMm(v, d, k + 1) = y
        BY <4>1 DEF DrivenPlaces, Driven, Resolves, FixedMm, Own
      <4> QED
        BY <3>4, <4>2 DEF MemberShows
    <3>16. \A p \in k .. k + 3 - 1 : MemberShows(v, d, p, f[p], scale)
      BY <1>10, <3>9, <3>12, <3>13, <3>14, <3>15, SMTT(40)
    <3>17. Sum(f, k .. k + 3 - 1) = Sum(mm, k .. k + 1 - 1)
      <4>1. Sum(f, k .. k + 2) = x
        <5>1. k \in Nat
          BY <1>7, <1>9
        <5> QED
          BY <3>4, <3>6, <3>12, <5>1, SumOfThree
      <4>2. mm[k] = x /\ k \in Nat
        BY <1>7, <1>9, <2>1, <3>3, SizedRun
      <4>3. Sum(mm, k .. k) = x
        BY <3>4, <4>2, SumOfOne
      <4>4. k .. k + 1 - 1 = k .. k
        BY <4>2
      <4> QED
        BY <3>12, <4>1, <4>3, <4>4
    <3>18. PICK g : g = SplicedSizes(mm, N, k, 1, 3, f)
      OBVIOUS
    <3>19. ShowsRun(v, d, g) /\ Splices(mm, N, g, k, 1, 3)
      <4>1. k .. k + 1 - 1 = {k}
        BY <1>7, <1>9
      <4>2. ShowsOff(u, d, k .. k + 1 - 1, scale)
        BY <3>7, <4>1
      <4> QED
        BY <1>7, <1>8, <2>1, <3>10, <3>16, <3>17, <3>18, <4>2, SplicedShows
    <3>20. OthersStay(u, d, g, k, 1, 3) /\ Sum(g, 1 .. N - 1 + 3) = w.size[c]
      BY <1>7, <1>8, <2>1, <3>19, SplicedStay
    <3>21. ASSUME NEW p \in DOMAIN v.items[d], v.items[d][p] \in K
           PROVE  AtPlace(u.space[v.items[d][p]], w, c, p, g)
      <4>1. p # k /\ p # k + 1 /\ p # k + 2
        BY <1>5, <1>10, <3>9, <3>21
      <4>2. CASE p < k
        <5>1. p \in 1 .. k - 1
          BY <1>7, <1>9, <3>9, <4>2
        <5> QED
          BY <2>1, <3>9, <3>20, <5>1 DEF OthersStay
      <4>3. CASE ~(p < k)
        <5>1. PICK q : q = p - 3 + 1
          OBVIOUS
        <5>2. q \in k + 1 .. N /\ q - 1 + 3 = p
          <6>1. N \in Nat /\ k \in 1 .. N /\ p \in 1 .. N - 1 + 3
            BY <1>7, <1>9, <3>9, <3>21
          <6> QED
            BY <4>1, <4>3, <5>1, <6>1
        <5>3. v.items[d][p] = u.items[d][q]
          BY <3>9, <5>2
        <5>4. AtPlace(u.space[u.items[d][q]], w, c, q - 1 + 3, g)
          BY <1>8, <2>1, <3>20, <5>2 DEF OthersStay
        <5> QED
          BY <5>2, <5>3, <5>4
      <4> QED
        BY <4>2, <4>3
    <3>22. Given(d, g)
      BY <2>1, <2>2, <3>9, <3>19, <3>20, <3>21
    <3> QED
      BY <3>22
  <2> QED
    BY <1>4, <2>3, <2>4
<1>15. Divisions(v) \cap K \subseteq Divisions(u)
  BY <1>4, <1>5, <1>10, <1>11 DEF SplitsRun, SplitsBay
<1>16. KeepsRooms(u, v, K)
  BY <1>13, <1>14, <1>15 DEF KeepsRooms
<1>17. \A e \in Divisions(v) : \A x \in DOMAIN v.items[e] : v.items[e][x] \in K => e \in K
  <2>1. Divisions(u) \subseteq K
    BY <1>5, <1>6, <1>11
  <2>2. CASE SplitsRun(u, v, r, a, b, l, h, half)
    BY <2>1, <2>2 DEF SplitsRun
  <2>3. CASE SplitsBay(u, v, r, a, b, l, h, n, half)
    <3>1. \A x \in DOMAIN <<l, b, h>> : <<l, b, h>>[x] \in {l, b, h}
      OBVIOUS
    <3>2. \A x \in DOMAIN v.items[n] : v.items[n][x] \notin K
      BY <1>5, <1>10, <2>3, <3>1 DEF SplitsBay
    <3> QED
      BY <2>1, <2>3, <3>2 DEF SplitsBay
  <2> QED
    BY <1>4, <2>2, <2>3
<1>18. u.space[v.root] = OuterSpace(v)
  <2>1. u.root \in Nodes(u)
    BY <1>0 DEF Struct, Regions
  <2>2. Spaces(u)[u.root] = OuterSpace(u)
    BY <1>0, <2>1, SpacesFacts DEF Places
  <2> QED
    BY <1>0, <1>3, <1>10, <2>2
<1>19. \A i \in Nodes(v) \cap K : Spaces(v)[i] = u.space[i]
  BY <1>1, <1>2, <1>3, <1>16, <1>17, <1>18, KeptRooms
<1>20. r \notin Nodes(v)
  BY <1>4, <1>6, <1>10 DEF SplitsRun, SplitsBay
<1>21. \A i \in Nodes(u) \cap Nodes(v) : i \in K
  BY <1>5, <1>20
<1>22. StaysIn(u, v)
  BY <1>19, <1>21 DEF StaysIn
<1> QED
  BY <1>1, <1>2, <1>3, <1>5, <1>16, <1>22

------------------------------------------------------------------------------
(* What a drag makes.                                                      *)

\* A split moves nothing that was there (edit.py split_region).
LEMMA SplitStep ==
    ASSUME Sized(unit), Room(unit), NEW r, NEW a \in Axes, Split(r, a)
    PROVE  SplitsMoveNothing
<1>1. PICK u : u = unit
  OBVIOUS
<1>2. PICK v : v = SplitRegion(u, r, a)
  OBVIOUS
<1>3. CanSplit(u, r, a) /\ unit' = Solved(v)
  BY <1>1, <1>2 DEF Split, Apply
<1>4. Struct(v) /\ StaysIn(u, v)
  <2>1. Sized(u) /\ Room(u)
    BY <1>1
  <2> QED
    BY <1>2, <1>3, <2>1, SplitKeeps
<1>5. PICK w : w = unit'
  OBVIOUS
<1>6. Nodes(w) = Nodes(v) /\ w.space = Spaces(v)
  BY <1>3, <1>4, <1>5, SolvedIs
<1>7. \A i \in Nodes(u) \cap Nodes(w) : w.space[i] = u.space[i]
  BY <1>4, <1>6 DEF StaysIn
<1> QED
  BY <1>1, <1>5, <1>7 DEF SplitsMoveNothing, Kept, Unmoved

\* What a size more in one place and less in another does to a sum.
LEMMA ShiftAlgebra ==
    ASSUME NEW p, NEW q, NEW s, IsFraction(p), IsFraction(q), IsFraction(s)
    PROVE  /\ (p ++ s) ++ q = (p ++ q) ++ s
           /\ (p -- s) ++ q = (p ++ q) -- s
           /\ (p ++ s) ++ (q -- s) = p ++ q
           /\ (q ++ (p ++ s)) -- (q ++ p) = s
           /\ (p ++ q) -- p = q
<1>1. PICK d, l, m, n : Over3(p, q, s, d, l, m, n)
  BY OverOne
<1>2. /\ d \in Nat /\ d # 0 /\ l \in Int /\ m \in Int /\ n \in Int
      /\ p = Frac(l, d) /\ q = Frac(m, d) /\ s = Frac(n, d)
  BY <1>1 DEF Over3
<1>3. PICK a \in Int, b \in Int, c \in Int, e \in Int, f \in Int, g \in Int :
         /\ a = l + n /\ b = l + m /\ c = l - n /\ e = m - n /\ f = m + a /\ g = m + l
  BY <1>2
<1>4. /\ p ++ s = Frac(a, d) /\ p ++ q = Frac(b, d)
      /\ p -- s = Frac(c, d) /\ q -- s = Frac(e, d) /\ q ++ p = Frac(g, d)
  BY <1>2, <1>3, OverOneDenominator
<1>5. /\ Frac(a, d) ++ Frac(m, d) = Frac(a + m, d)
      /\ Frac(b, d) ++ Frac(n, d) = Frac(b + n, d)
      /\ Frac(c, d) ++ Frac(m, d) = Frac(c + m, d)
      /\ Frac(b, d) -- Frac(n, d) = Frac(b - n, d)
      /\ Frac(a, d) ++ Frac(e, d) = Frac(a + e, d)
      /\ Frac(m, d) ++ Frac(a, d) = Frac(m + a, d)
      /\ Frac(f, d) -- Frac(g, d) = Frac(f - g, d)
      /\ Frac(b, d) -- Frac(l, d) = Frac(b - l, d)
  <2>1. Frac(a, d) ++ Frac(m, d) = Frac(a + m, d)
    BY <1>2, <1>3, OverOneDenominator
  <2>2. Frac(b, d) ++ Frac(n, d) = Frac(b + n, d)
    BY <1>2, <1>3, OverOneDenominator
  <2>3. Frac(c, d) ++ Frac(m, d) = Frac(c + m, d)
    BY <1>2, <1>3, OverOneDenominator
  <2>4. Frac(b, d) -- Frac(n, d) = Frac(b - n, d)
    BY <1>2, <1>3, OverOneDenominator
  <2>5. Frac(a, d) ++ Frac(e, d) = Frac(a + e, d)
    BY <1>2, <1>3, OverOneDenominator
  <2>6. Frac(m, d) ++ Frac(a, d) = Frac(m + a, d)
    BY <1>2, <1>3, OverOneDenominator
  <2>7. Frac(f, d) -- Frac(g, d) = Frac(f - g, d)
    BY <1>2, <1>3, OverOneDenominator
  <2>8. Frac(b, d) -- Frac(l, d) = Frac(b - l, d)
    BY <1>2, <1>3, OverOneDenominator
  <2> QED
    BY <2>1, <2>2, <2>3, <2>4, <2>5, <2>6, <2>7, <2>8
<1>6. /\ a + m = b + n /\ c + m = b - n /\ a + e = b /\ m + a = f /\ f - g = n /\ b - l = m
  BY <1>2, <1>3
<1> QED
  BY <1>2, <1>4, <1>5, <1>6

\* The sizes g are f with s more in place x and s less in place y, further on.
Shifts(f, g, n, x, y, s) ==
    /\ n \in Nat /\ x \in 1 .. n /\ y \in 1 .. n /\ x < y
    /\ Fractional(f, 1 .. n) /\ IsFraction(s)
    /\ g[x] = f[x] ++ s /\ g[y] = f[y] -- s
    /\ \A k \in 1 .. n : k # x /\ k # y => g[k] = f[k]

\* They add up alike but for what lies between.
LEMMA ShiftedSums ==
    ASSUME NEW f, NEW g, NEW n, NEW x, NEW y, NEW s, Shifts(f, g, n, x, y, s),
           NEW j \in 0 .. n
    PROVE  /\ IsFraction(Sum(f, 1 .. j))
           /\ x <= j /\ j < y => Sum(g, 1 .. j) = Sum(f, 1 .. j) ++ s
           /\ ~(x <= j /\ j < y) => Sum(g, 1 .. j) = Sum(f, 1 .. j)
<1>1. /\ n \in Nat /\ x \in 1 .. n /\ y \in 1 .. n /\ x < y
      /\ IsFraction(s) /\ g[x] = f[x] ++ s /\ g[y] = f[y] -- s
  BY DEF Shifts
<1>2. PICK S : S = 1 .. j
  OBVIOUS
<1>3. IsFiniteSet(S) /\ S \subseteq 1 .. n /\ (x \in S <=> x <= j) /\ (y \in S <=> y <= j)
  BY <1>1, <1>2, FS_Interval
<1>4. /\ \A k \in S : IsFraction(f[k]) /\ (k # x /\ k # y => g[k] = f[k])
      /\ IsFraction(f[x]) /\ IsFraction(f[y])
  BY <1>1, <1>3 DEF Shifts, Fractional
<1>5. \A k \in S : IsFraction(f[k]) /\ IsFraction(g[k])
  <2>1. IsFraction(f[x] ++ s) /\ IsFraction(f[y] -- s)
    BY <1>1, <1>4, AddFacts
  <2> QED
    BY <1>1, <1>4, <2>1
<1>6. IsFraction(Sum(f, S))
  BY <1>3, <1>4, SumIsFraction DEF Fractional
<1>7. PICK R, T : R = S \ {x} /\ T = R \ {y}
  OBVIOUS
<1>8. /\ IsFiniteSet(R) /\ IsFiniteSet(T)
      /\ R \subseteq S /\ T \subseteq S
  BY <1>3, <1>7, FS_RemoveElement
<1>9. \A k \in T : g[k] = f[k]
  BY <1>4, <1>7
<1>10. Sum(g, T) = Sum(f, T) /\ IsFraction(Sum(f, T)) /\ IsFraction(Sum(f, R))
  <2>1. Sum(g, T) = Sum(f, T)
    BY <1>8, <1>9, SumSame
  <2>2. IsFraction(Sum(f, T)) /\ IsFraction(Sum(f, R))
    BY <1>4, <1>8, SumIsFraction DEF Fractional
  <2> QED
    BY <2>1, <2>2
<1>11. x \in S => Sum(f, S) = f[x] ++ Sum(f, R) /\ Sum(g, S) = g[x] ++ Sum(g, R)
  <2>0. IsFiniteSet(S) /\ Fractional(f, S) /\ Fractional(g, S)
    BY <1>3, <1>5 DEF Fractional
  <2>1. ASSUME x \in S PROVE Sum(f, S) = f[x] ++ Sum(f, S \ {x})
    BY <2>0, <2>1, SumFacts
  <2>2. ASSUME x \in S PROVE Sum(g, S) = g[x] ++ Sum(g, S \ {x})
    BY <2>0, <2>2, SumFacts
  <2> QED
    BY <1>7, <2>1, <2>2
<1>12. x \notin S => R = S
  BY <1>7
<1>13. y \in R => Sum(f, R) = f[y] ++ Sum(f, T) /\ Sum(g, R) = g[y] ++ Sum(g, T)
  BY <1>5, <1>7, <1>8, SumFacts DEF Fractional
<1>14. y \notin R => T = R
  BY <1>7
<1>15. y \in R <=> y <= j
  BY <1>1, <1>3, <1>7
<1>16. CASE x <= j /\ j < y
  <2>1. y \notin R /\ x \in S
    <3>1. ~(y <= j)
      BY <1>1, <1>16
    <3> QED
      BY <1>3, <1>15, <1>16, <3>1
  <2>2. Sum(g, S) = (f[x] ++ s) ++ Sum(f, R)
    BY <1>1, <1>10, <1>11, <1>14, <2>1
  <2>3. Sum(g, S) = (f[x] ++ Sum(f, R)) ++ s
    <3>1. PICK p, q : p = f[x] /\ q = Sum(f, R)
      OBVIOUS
    <3>2. IsFraction(p) /\ IsFraction(q)
      BY <1>4, <1>10, <3>1
    <3>3. (p ++ s) ++ q = (p ++ q) ++ s
      BY <1>1, <3>2, ShiftAlgebra
    <3> QED
      BY <2>2, <3>1, <3>3
  <2> QED
    BY <1>2, <1>6, <1>11, <1>16, <2>1, <2>3
<1>17. CASE ~(x <= j)
  <2>1. x \notin S /\ y \notin R
    <3>1. ~(y <= j)
      BY <1>1, <1>17
    <3> QED
      BY <1>3, <1>15, <1>17, <3>1
  <2>2. Sum(g, S) = Sum(f, S)
    BY <1>10, <1>12, <1>14, <2>1
  <2> QED
    BY <1>2, <1>6, <1>17, <2>2
<1>18. CASE y <= j
  <2>1. x \in S /\ y \in R
    <3>1. x <= j
      BY <1>1, <1>18
    <3> QED
      BY <1>3, <1>15, <1>18, <3>1
  <2>2. PICK t : t = Sum(f, T)
    OBVIOUS
  <2>3. PICK r : r = f[y] ++ t
    OBVIOUS
  <2>4. IsFraction(t) /\ IsFraction(r) /\ Sum(f, R) = r
    BY <1>4, <1>10, <1>13, <2>1, <2>2, <2>3, AddFacts
  <2>5. Sum(g, R) = r -- s
    <3>1. Sum(g, R) = (f[y] -- s) ++ t
      BY <1>1, <1>10, <1>13, <2>1, <2>2
    <3> QED
      BY <1>1, <1>4, <2>3, <2>4, <3>1, ShiftAlgebra
  <2>6. Sum(g, S) = (f[x] ++ s) ++ (r -- s)
    BY <1>1, <1>11, <2>1, <2>5
  <2>7. Sum(g, S) = f[x] ++ r
    BY <1>1, <1>4, <2>4, <2>6, ShiftAlgebra
  <2> QED
    BY <1>1, <1>2, <1>6, <1>11, <1>18, <2>1, <2>4, <2>7
<1> QED
  BY <1>1, <1>16, <1>17, <1>18

\* The places x and y of the regions a drag of b resizes (edit.py move_board, _side).
DragsBetween(u, b, x, y) ==
    LET d == RunOf(u, b)
        k == PlaceOf(u, b)
    IN  /\ x \in 1 .. k - 1 /\ y \in k + 1 .. Len(u.items[d])
        /\ x \in DrivenPlaces(u, d) /\ y \in DrivenPlaces(u, d)
        /\ u.items[d][x] = FreeBeside(u, b).low /\ u.items[d][y] = FreeBeside(u, b).high

\* There are two such places, where the board is free on both sides.
LEMMA BesidePlaces ==
    ASSUME NEW u, Struct(u), Ruled(u), NEW b \in Boards(u), Movable(u, b)
    PROVE  \E x, y : DragsBetween(u, b, x, y)
<1>1. PICK d, run, k, n : /\ d = RunOf(u, b) /\ run = u.items[d]
                          /\ k = PlaceOf(u, b) /\ n = Len(run)
  OBVIOUS
<1>2. /\ n \in Nat /\ k \in 1 .. n /\ d \in Divisions(u) /\ DOMAIN run = 1 .. n
      /\ \A l \in 1 .. n : run[l] \in Nodes(u)
  <2>1. b \in Nodes(u) \ {u.root}
    BY DEF Struct, Regions
  <2> QED
    BY <1>1, <2>1, BoardsRun, RunIsTyped
<1>3. PICK p, q : p = Past(u, b).low.free /\ q = Past(u, b).high.free
  OBVIOUS
<1>4. /\ p = {l \in 1 .. k - 1 : Unlocked(u, run[l])}
      /\ q = {l \in k + 1 .. n : Unlocked(u, run[l])}
  BY <1>1, <1>3 DEF Past
<1>5. p # {} /\ q # {}
  BY <1>3, FreeSides
<1>6. PICK x, y : x = Max(p) /\ y = Min(q)
  OBVIOUS
<1>7. x \in p /\ y \in q
  <2>1. p \in SUBSET (1 .. n) /\ q \in SUBSET (1 .. n)
    BY <1>2, <1>4
  <2> QED
    BY <1>2, <1>5, <1>6, <2>1, MaxExists, MinExists
<1>8. x \in 1 .. k - 1 /\ y \in k + 1 .. n /\ Unlocked(u, run[x]) /\ Unlocked(u, run[y])
  BY <1>4, <1>7
<1>9. ASSUME NEW l \in 1 .. n, Unlocked(u, run[l]) PROVE l \in DrivenPlaces(u, d)
  <2>1. run[l] \in Regions(u) /\ u.rule[run[l]].kind # "fixed"
    BY <1>2, <1>9 DEF Unlocked, Locked, Regions
  <2>2. u.rule[run[l]].kind = "driven"
    <3>1. IsRule(u.rule[run[l]], FALSE)
      BY <2>1, RegionsRule
    <3> QED
      BY <2>1, <3>1 DEF IsRule
  <2> QED
    BY <1>1, <1>2, <2>2 DEF DrivenPlaces, Driven
<1>10. x \in 1 .. n /\ y \in 1 .. n
  BY <1>2, <1>8
<1>11. FreeBeside(u, b) = [low |-> run[x], high |-> run[y]]
  BY <1>1, <1>3, <1>6 DEF FreeBeside
<1>12. DragsBetween(u, b, x, y)
  BY <1>1, <1>8, <1>9, <1>10, <1>11 DEF DragsBetween
<1> QED
  BY <1>12

\* v is u with the rules of a drag in places x and y of the run of d, s more in the one
\* and less in the other.
IsDrag(u, v, d, x, y, s) ==
    LET run == u.items[d]
        mm == ShownSizes(u, d)
    IN  /\ d \in Divisions(u) /\ x \in DrivenPlaces(u, d) /\ y \in DrivenPlaces(u, d) /\ x < y
        /\ IsFraction(s) /\ Zero \prec mm[x] ++ s /\ Zero \prec mm[y] -- s
        /\ v.root = u.root /\ v.items = u.items /\ v.axis = u.axis /\ v.thick = u.thick
        /\ Nodes(v) = Nodes(u) /\ v.pinned = u.pinned
        /\ v.rule[run[x]] = SharingRule(u, d, {}, mm[x] ++ s)
        /\ v.rule[run[y]] = SharingRule(u, d, {}, mm[y] -- s)
        /\ \A i \in Nodes(u) \ {run[x], run[y]} : v.rule[i] = u.rule[i]

\* That is what a drag makes, and neither region ends below the smaller of 5 mm and its
\* old size.
LEMMA DragMakes ==
    ASSUME NEW u, Sized(u), NEW b \in Boards(u), Movable(u, b), NEW mm, IsFraction(mm),
           NEW x, NEW y, DragsBetween(u, b, x, y),
           NEW d, d = RunOf(u, b), NEW f, f = ShownSizes(u, d)
    PROVE  \E s : /\ IsDrag(u, MoveBoard(u, b, mm), d, x, y, s)
                  /\ Least(MinDragGap, f[x]) \preceq f[x] ++ s
                  /\ Least(MinDragGap, f[y]) \preceq f[y] -- s
                  /\ s = Shift(mm -- u.space[b].low[AxisOf(u, b)], f[x], f[y])
<1>0. Struct(u) /\ Ruled(u) /\ u.space = Spaces(u) /\ b \in Nodes(u) \ {u.root}
  BY DEF Sized, Struct, Regions
<1>1. /\ d \in Divisions(u) /\ u.axis[d] \in Axes
      /\ PlaceOf(u, b) \in 1 .. Len(u.items[d]) /\ Len(u.items[d]) \in Nat
      /\ DOMAIN u.items[d] = 1 .. Len(u.items[d])
  BY <1>0, PlaceInRun, RunIsTyped DEF Ruled
<1>2. PICK l, h : l = FreeBeside(u, b).low /\ h = FreeBeside(u, b).high
  OBVIOUS
<1>3. l \in Regions(u) \ {u.root} /\ h \in Regions(u) \ {u.root}
  BY <1>0, <1>2, BesideFacts
<1>4. /\ x \in DrivenPlaces(u, d) /\ y \in DrivenPlaces(u, d) /\ x < y
      /\ u.items[d][x] = l /\ u.items[d][y] = h
      /\ x \in DOMAIN u.items[d] /\ y \in DOMAIN u.items[d]
  <2>1. /\ x \in 1 .. PlaceOf(u, b) - 1 /\ y \in PlaceOf(u, b) + 1 .. Len(u.items[d])
        /\ x \in DrivenPlaces(u, d) /\ y \in DrivenPlaces(u, d)
        /\ u.items[d][x] = l /\ u.items[d][y] = h
    BY <1>2 DEF DragsBetween
  <2>2. x < y
    BY <1>1, <2>1
  <2> QED
    BY <2>1, <2>2 DEF DrivenPlaces
<1>5. l # h
  <2>1. \A z \in DOMAIN u.items[d] : u.items[d][z] = l => z = PlaceOf(u, l)
    BY <1>0, <1>1, <1>3, PlaceInRun DEF Regions
  <2>2. x = PlaceOf(u, l) /\ (h = l => y = PlaceOf(u, l))
    BY <1>4, <2>1
  <2>3. x # y
    BY <1>1, <1>4
  <2> QED
    BY <2>2, <2>3
<1>6. Extent(u, l) = f[x] /\ Extent(u, h) = f[y]
  BY <1>1, <1>4, SizedRun
<1>7. /\ IsFraction(f[x]) /\ IsFraction(f[y]) /\ Zero \prec f[x] /\ Zero \prec f[y]
  BY <1>3, <1>6, ExtentFacts DEF Regions
<1>8. PICK o : o = u.space[b].low[u.axis[d]]
  OBVIOUS
<1>9. IsFraction(o)
  BY <1>0, <1>1, <1>8, RoomsFacts DEF Sized, IsRoom
<1>10. PICK wanted : wanted = mm -- o
  OBVIOUS
<1>11. IsFraction(wanted)
  BY <1>9, <1>10, AddFacts
<1>12. PICK s : s = Shift(wanted, f[x], f[y])
  OBVIOUS
<1>13. PICK p, q : p = f[x] /\ q = f[y]
  OBVIOUS
<1>14. /\ IsFraction(s) /\ Zero \prec p ++ s /\ Zero \prec q -- s
       /\ Least(MinDragGap, p) \preceq p ++ s
       /\ Least(MinDragGap, q) \preceq q -- s
  BY <1>7, <1>11, <1>12, <1>13, ShiftFacts
<1>15. PICK g, k : g = SharingRule(u, d, {}, p ++ s) /\ k = SharingRule(u, d, {}, q -- s)
  OBVIOUS
<1>16. PICK w : w = WithRule(u, l, g)
  OBVIOUS
<1>17. PICK v : v = WithRule(w, h, k)
  BY SMTT(40)
<1>18. MoveBoard(u, b, mm) = v
  BY <1>2, <1>6, <1>8, <1>10, <1>12, <1>13, <1>15, <1>16, <1>17, Zenon DEF MoveBoard, Resized, AxisOf
<1>19. IsWithRule(u, l, g, w) /\ h \in Regions(w)
  <2>1. IsWithRule(u, l, g, w)
    BY <1>0, <1>3, <1>16, WithRuleFacts
  <2> QED
    BY <1>3, <2>1 DEF IsWithRule, Regions
<1>20. IsWithRule(w, h, k, v)
  BY <1>17, <1>19, WithRuleFacts DEF IsWithRule
<1>21. v.pinned = u.pinned
  <2>1. w.pinned = u.pinned /\ Fields \subseteq DOMAIN w
    BY <1>0, <1>16, <1>19 DEF WithRule, Struct, Fields, IsWithRule
  <2> QED
    BY <1>17, <2>1 DEF WithRule, Fields
<1>22. IsDrag(u, v, d, x, y, s)
  <2>1. /\ v.root = u.root /\ v.items = u.items /\ v.axis = u.axis /\ v.thick = u.thick
        /\ Nodes(v) = Nodes(u) /\ v.rule[h] = k
        /\ \A i \in Nodes(u) : i # h => v.rule[i] = w.rule[i]
        /\ \A i \in Nodes(u) : i # l => w.rule[i] = u.rule[i]
        /\ w.rule[l] = g
    BY <1>19, <1>20 DEF IsWithRule
  <2>2. l \in Nodes(u)
    BY <1>3 DEF Regions
  <2>3. v.rule[l] = g /\ \A i \in Nodes(u) \ {l, h} : v.rule[i] = u.rule[i]
    BY <1>5, <2>1, <2>2
  <2> QED
    BY <1>1, <1>4, <1>13, <1>14, <1>15, <1>21, <2>1, <2>3 DEF IsDrag
<1>23. s = Shift(mm -- u.space[b].low[AxisOf(u, b)], f[x], f[y])
  BY <1>8, <1>10, <1>12 DEF AxisOf
<1> QED
  BY <1>13, <1>14, <1>18, <1>22, <1>23

\* The sizes of a run after a drag.
DragSizes(f, x, y, s) ==
    [k \in DOMAIN f |-> IF k = x THEN f[x] ++ s ELSE IF k = y THEN f[y] -- s ELSE f[k]]

\* The run of a drag shows them: the anchor's weight stands for its size, so that the two
\* new weights give the sizes they are worked out from and no other member's size changes.
LEMMA DragShows ==
    ASSUME NEW u, Sized(u), NEW v, Struct(v), Ruled(v), NEW d, NEW x, NEW y, NEW s,
           IsDrag(u, v, d, x, y, s), NEW f, f = ShownSizes(u, d),
           NEW g, g = DragSizes(f, x, y, s), NEW n, n = Len(u.items[d])
    PROVE  /\ ShowsRun(v, d, g) /\ Shifts(f, g, n, x, y, s)
           /\ Sum(g, DOMAIN v.items[d]) = Sum(f, DOMAIN u.items[d])
<1>0. Struct(u) /\ Ruled(u)
  BY DEF Sized
<1>1. /\ d \in Divisions(u) /\ x \in DrivenPlaces(u, d) /\ y \in DrivenPlaces(u, d) /\ x < y
      /\ IsFraction(s) /\ Zero \prec f[x] ++ s /\ Zero \prec f[y] -- s
      /\ v.items = u.items /\ v.thick = u.thick
      /\ v.rule[u.items[d][x]] = SharingRule(u, d, {}, f[x] ++ s)
      /\ v.rule[u.items[d][y]] = SharingRule(u, d, {}, f[y] -- s)
      /\ \A i \in Nodes(u) \ {u.items[d][x], u.items[d][y]} : v.rule[i] = u.rule[i]
  BY DEF IsDrag
<1>2. n \in Nat /\ DOMAIN u.items[d] = 1 .. n /\ DOMAIN v.items[d] = 1 .. n
      /\ \A k \in 1 .. n : u.items[d][k] \in Nodes(u) \ {u.root}
  BY <1>0, <1>1, RunIsTyped
<1>3. x \in 1 .. n /\ y \in 1 .. n
  BY <1>1, <1>2 DEF DrivenPlaces
<1>4. /\ DOMAIN f = 1 .. n
      /\ \A k \in 1 .. n : /\ IsFraction(f[k]) /\ Zero \prec f[k] /\ Resolves(u, d, k)
                           /\ f[k] = Distribute(u, d, u.space[d].size[u.axis[d]])[k]
  <2>1. \A k \in DOMAIN u.items[d] :
           /\ ShownSizes(u, d)[k] = Distribute(u, d, u.space[d].size[u.axis[d]])[k]
           /\ IsFraction(ShownSizes(u, d)[k]) /\ Zero \prec ShownSizes(u, d)[k]
           /\ Resolves(u, d, k)
    BY <1>1, SizedRun, SMTT(40)
  <2>2. DOMAIN f = DOMAIN u.items[d]
    BY ZenonT(40) DEF ShownSizes
  <2> QED
    BY <1>2, <2>1, <2>2, SMTT(40)
<1>5. /\ DOMAIN g = 1 .. n /\ g = [k \in 1 .. n |-> g[k]]
      /\ g[x] = f[x] ++ s /\ g[y] = f[y] -- s
      /\ \A k \in 1 .. n : k # x /\ k # y => g[k] = f[k]
  BY <1>1, <1>3, <1>4 DEF DragSizes
<1>6. PICK c : ShowsOff(u, d, {}, c) /\ SharesAt(u, d, {}, c)
  <2>1. DrivenPlaces(u, d) \ {} # {}
    BY <1>1
  <2> QED
    BY <1>1, <2>1, SharingAtEvery
<1>7. \A k, l \in 1 .. n : u.items[d][k] = u.items[d][l] => k = l
  BY <1>0, <1>1, <1>2, PlaceInRun
<1>8. ASSUME NEW k \in 1 .. n, NEW mm, IsFraction(mm), Zero \prec mm,
             v.rule[u.items[d][k]] = SharingRule(u, d, {}, mm)
      PROVE  MemberShows(v, d, k, mm, c)
  <2>1. PICK rule : rule = SharingRule(u, d, {}, mm)
    OBVIOUS
  <2>2. rule.kind = "driven" /\ c ** rule.weight = mm
    BY <1>6, <1>8, <2>1, SharingIsDriven DEF SharesAt
  <2>3. k \in DrivenPlaces(v, d) /\ Resolves(v, d, k) /\ WeightAt(v, d, k) = rule.weight
    BY <1>1, <1>2, <1>8, <2>1, <2>2 DEF DrivenPlaces, Driven, Resolves, WeightAt
  <2> QED
    BY <1>8, <2>2, <2>3 DEF MemberShows
<1>9. IsFraction(f[x] ++ s) /\ IsFraction(f[y] -- s)
  BY <1>1, <1>3, <1>4, AddFacts
<1>10. MemberShows(v, d, x, g[x], c) /\ MemberShows(v, d, y, g[y], c)
  BY <1>1, <1>3, <1>5, <1>8, <1>9
<1>11. ASSUME NEW k \in 1 .. n, k # x, k # y PROVE MemberShows(v, d, k, g[k], c)
  <2>1. ASSUME NEW l \in 1 .. n, l # x, l # y PROVE SameMember(u, d, l, v, d, l)
    <3>1. u.items[d][l] \in Nodes(u) \ {u.items[d][x], u.items[d][y]}
      BY <1>2, <1>3, <1>7, <2>1
    <3> QED
      BY <1>1, <3>1 DEF SameMember, Boards
  <2>2. SameMember(u, d, k, v, d, k)
    BY <1>11, <2>1
  <2>3. SameNext(u, d, k, v, d, k)
    <3>1. SUFFICES ASSUME k < n, u.items[d][k + 1] \in Boards(u)
                   PROVE  SameMember(u, d, k + 1, v, d, k + 1)
      BY <1>1 DEF SameNext
    <3>2. k + 1 \in 1 .. n
      BY <1>2, <3>1, SMTT(40)
    <3>3. ASSUME NEW l \in DrivenPlaces(u, d) PROVE u.items[d][l] \notin Boards(u)
      <4>1. u.items[d][l] \in Nodes(u) /\ u.rule[u.items[d][l]].kind = "driven"
        BY <1>2 DEF DrivenPlaces, Driven
      <4>2. IsRule(u.rule[u.items[d][l]], u.items[d][l] \in Boards(u))
        BY <1>0, <4>1 DEF Ruled
      <4> QED
        BY <4>1, <4>2 DEF IsRule
    <3>4. k + 1 # x /\ k + 1 # y
      BY <1>1, <3>1, <3>3
    <3> QED
      BY <2>1, <3>2, <3>4
  <2>4. /\ k \in DrivenPlaces(v, d) <=> k \in DrivenPlaces(u, d)
        /\ WeightAt(v, d, k) = WeightAt(u, d, k)
        /\ Resolves(v, d, k) /\ FixedMm(v, d, k) = FixedMm(u, d, k)
    <3>1. k \in DOMAIN u.items[d] /\ k \in DOMAIN v.items[d] /\ Resolves(u, d, k)
      BY <1>2, <1>4
    <3> QED
      BY <1>0, <1>1, <2>2, <2>3, <3>1, MemberFacts
  <2>5. k \notin DrivenPlaces(u, d) => f[k] = FixedMm(u, d, k)
    BY <1>2, <1>4, DistributeIs
  <2>6. k \in DrivenPlaces(u, d) => f[k] = c ** WeightAt(u, d, k)
    BY <1>6 DEF ShowsOff
  <2> QED
    BY <1>4, <1>5, <1>11, <2>4, <2>5, <2>6 DEF MemberShows
<1>12. \A k \in 1 .. n : MemberShows(v, d, k, g[k], c)
  BY <1>10, <1>11
<1>13. ShowsRun(v, d, g)
  <2>1. RulesShow(v, d, g, c)
    BY <1>2, <1>6, <1>12, SMTT(40) DEF MemberShows, RulesShow, ShowsOff
  <2> QED
    BY <1>2, <1>5, <1>12, <2>1 DEF MemberShows, ShowsRun
<1>14. Shifts(f, g, n, x, y, s)
  BY <1>1, <1>2, <1>3, <1>4, <1>5 DEF Shifts, Fractional
<1>15. Sum(g, 1 .. n) = Sum(f, 1 .. n)
  <2>1. n \in 0 .. n /\ ~(x <= n /\ n < y)
    BY <1>2, <1>3
  <2> QED
    BY <1>14, <2>1, ShiftedSums
<1> QED
  BY <1>2, <1>13, <1>14, <1>15

\* A drag leaves every room but those in the division of the board, and gives the
\* members of its run the new sizes.
LEMMA DragPlaces ==
    ASSUME NEW u, Sized(u), NEW v, Struct(v), Ruled(v), IsFramed(v), OuterSpace(v) = OuterSpace(u),
           NEW d, NEW x, NEW y, NEW s, IsDrag(u, v, d, x, y, s),
           NEW g, g = DragSizes(ShownSizes(u, d), x, y, s),
           NEW w, w = u.space[d], NEW a, a = u.axis[d]
    PROVE  /\ Spaces(v)[d] = w
           /\ \A k \in DOMAIN u.items[d] : AtPlace(Spaces(v)[u.items[d][k]], w, a, k, g)
<1>0. Struct(u) /\ Ruled(u) /\ u.space = Spaces(u)
  BY DEF Sized
<1>1. /\ d \in Divisions(u) /\ x \in DrivenPlaces(u, d) /\ y \in DrivenPlaces(u, d)
      /\ v.root = u.root /\ v.items = u.items /\ v.axis = u.axis /\ v.thick = u.thick
      /\ Nodes(v) = Nodes(u)
      /\ \A i \in Nodes(u) \ {u.items[d][x], u.items[d][y]} : v.rule[i] = u.rule[i]
  BY DEF IsDrag
<1>2. Divisions(v) = Divisions(u) /\ Boards(v) = Boards(u) /\ d \in Nodes(u)
      /\ Divisions(u) \subseteq Nodes(u)
  BY <1>0, <1>1 DEF Divisions, Boards, Struct, Regions
<1>3. PICK K : K = (Nodes(u) \ Subtree(u, d)) \cup {d}
  OBVIOUS
<1>4. /\ d \in Subtree(u, d)
      /\ \A e \in Divisions(u) : \A i \in Range(u.items[e]) :
            i \in Subtree(u, d) <=> i = d \/ e \in Subtree(u, d)
      /\ \A rank : Ranks(u, rank) => \A j \in Subtree(u, d) : j = d \/ rank[d] < rank[j]
  BY <1>0, <1>2, SubtreeFacts
<1>5. PICK rank : Ranks(u, rank)
  BY <1>0 DEF Struct
<1>6. \A e \in Divisions(u) : \A k \in DOMAIN u.items[e] :
         /\ u.items[e][k] \in Nodes(u) \ {u.root} /\ u.items[e][k] \in Range(u.items[e])
         /\ rank[e] \in Int /\ rank[u.items[e][k]] \in Int /\ rank[e] < rank[u.items[e][k]]
  <2>1. ASSUME NEW e \in Divisions(u), NEW k \in DOMAIN u.items[e]
        PROVE  /\ u.items[e][k] \in Nodes(u) \ {u.root} /\ u.items[e][k] \in Range(u.items[e])
               /\ rank[e] \in Int /\ rank[u.items[e][k]] \in Int
               /\ rank[e] < rank[u.items[e][k]]
    <3>1. u.items[e][k] \in Nodes(u) \ {u.root} /\ u.items[e][k] \in Range(u.items[e])
      BY <1>0, RunIsTyped
    <3> QED
      BY <1>2, <1>5, <3>1 DEF Ranks
  <2> QED
    BY <2>1
<1>7. \A e \in Divisions(v) : \A k \in DOMAIN v.items[e] : v.items[e][k] \in K => e \in K
  <2>1. SUFFICES ASSUME NEW e \in Divisions(u), NEW k \in DOMAIN u.items[e],
                        u.items[e][k] \in K, e \notin K
                 PROVE  FALSE
    BY <1>1, <1>2
  <2>2. PICK i : i = u.items[e][k]
    OBVIOUS
  <2>3. e \in Subtree(u, d) /\ e # d
    BY <1>2, <1>3, <2>1
  <2>4. i \in Subtree(u, d) /\ rank[e] < rank[i] /\ rank[d] < rank[e]
        /\ rank[d] \in Int /\ rank[e] \in Int /\ rank[i] \in Int
    BY <1>2, <1>4, <1>5, <1>6, <2>2, <2>3 DEF Ranks
  <2>5. i = d
    BY <1>3, <2>1, <2>2, <2>4
  <2> QED
    BY <2>4, <2>5
<1>8. ASSUME NEW k \in DOMAIN u.items[d] PROVE u.items[d][k] \notin K
  <2>1. u.items[d][k] \in Subtree(u, d)
    BY <1>1, <1>4, <1>6
  <2>2. u.items[d][k] # d
    BY <1>1, <1>6
  <2> QED
    BY <1>3, <2>1, <2>2
<1>9. PICK f : f = ShownSizes(u, d)
  OBVIOUS
<1>10. ShowsRun(v, d, g) /\ Sum(g, DOMAIN v.items[d]) = w.size[a]
  <2>1. ShowsRun(v, d, g) /\ Sum(g, DOMAIN v.items[d]) = Sum(f, DOMAIN u.items[d])
    <3>1. PICK n : n = Len(u.items[d])
      OBVIOUS
    <3> QED
      BY <1>9, <3>1, DragShows
  <2>2. Sum(f, DOMAIN u.items[d]) = w.size[a]
    BY <1>1, <1>9, SizedRun
  <2> QED
    BY <2>1, <2>2
<1> DEFINE Given(e, mm) ==
      /\ ShowsRun(v, e, mm) /\ Sum(mm, DOMAIN v.items[e]) = u.space[e].size[v.axis[e]]
      /\ \A k \in DOMAIN v.items[e] : v.items[e][k] \in K =>
            AtPlace(u.space[v.items[e][k]], u.space[e], v.axis[e], k, mm)
<1>11. Given(d, g)
  BY <1>1, <1>8, <1>10
<1>12. ASSUME NEW e \in Divisions(u), e # d PROVE \E mm : Given(e, mm)
  <2>1. Alike(u, e, v, e)
    <3>1. ASSUME NEW k \in DOMAIN u.items[e], NEW z \in {x, y}
          PROVE  u.items[e][k] # u.items[d][z]
      <4>1. z \in DOMAIN u.items[d]
        BY <1>1 DEF DrivenPlaces
      <4> QED
        BY <1>0, <1>1, <1>6, <1>12, <4>1, PlaceInRun
    <3>2. ASSUME NEW k \in DOMAIN u.items[e] PROVE v.rule[u.items[e][k]] = u.rule[u.items[e][k]]
      BY <1>1, <1>6, <3>1
    <3> QED
      BY <1>1, <1>2, <3>2 DEF Alike
  <2>2. PICK mm, z, c : mm = ShownSizes(u, e) /\ z = u.space[e] /\ c = u.axis[e]
    OBVIOUS
  <2>3. /\ ShowsRun(v, e, mm) /\ Sum(mm, DOMAIN v.items[e]) = z.size[c]
        /\ \A k \in DOMAIN v.items[e] : AtPlace(u.space[u.items[e][k]], z, c, k, mm)
    BY <2>1, <2>2, AlikeKeeps
  <2>4. Given(e, mm)
    BY <1>1, <2>2, <2>3
  <2> QED
    BY <2>4
<1>13. KeepsRooms(u, v, K)
  BY <1>2, <1>11, <1>12 DEF KeepsRooms
<1>14. u.space[v.root] = OuterSpace(v)
  <2>1. u.root \in Nodes(u)
    BY <1>0 DEF Struct, Regions
  <2>2. Spaces(u)[u.root] = OuterSpace(u)
    BY <1>0, <2>1, SpacesFacts DEF Places
  <2> QED
    BY <1>0, <1>1, <2>2
<1>15. \A i \in Nodes(v) \cap K : Spaces(v)[i] = u.space[i]
  BY <1>7, <1>13, <1>14, KeptRooms
<1>16. Spaces(v)[d] = w
  BY <1>1, <1>2, <1>3, <1>15
<1>17. Distribute(v, d, w.size[a]) = g
  BY <1>1, <1>2, <1>10, ShownFills
<1>18. ASSUME NEW k \in DOMAIN u.items[d]
       PROVE  AtPlace(Spaces(v)[u.items[d][k]], w, a, k, g)
  <2>1. LET c == v.axis[d]
            z == Spaces(v)[d]
            mm == Distribute(v, d, z.size[c])
        IN  \A l \in DOMAIN v.items[d] : AtPlace(Spaces(v)[v.items[d][l]], z, c, l, mm)
    BY <1>1, <1>2, RoomAlong
  <2> QED
    BY <1>1, <1>16, <1>17, <2>1
<1> QED
  BY <1>16, <1>18

\* A drag resizes two regions and carries what lies between them (edit.py move_board).
LEMMA DragStep ==
    ASSUME Sized(unit), NEW b \in Boards(unit), NEW mm \in LowFaces, DragTo(b, mm), IsFramed(unit')
    PROVE  DragsAreLocal
<1>1. PICK u : u = unit
  OBVIOUS
<1>2. /\ Sized(u) /\ b \in Boards(u) /\ Struct(u) /\ Ruled(u) /\ u.space = Spaces(u)
      /\ IsFramed(u)
  BY <1>1 DEF Sized
<1>3. PICK c : c = MoveBoard(u, b, mm)
  OBVIOUS
<1>4. Movable(u, b) /\ unit' = Solved(c) /\ step'.of[1] = b
  BY <1>1, <1>3 DEF DragTo, Apply, Returns
<1>5. IsFraction(mm)
  BY RulesAssumption
<1>6. Struct(c) /\ Ruled(c) /\ SameFrame(u, c)
  <2>1. Struct(c)
    BY <1>2, <1>3, <1>4, MoveFacts DEF KeepsNodes, Keeps
  <2>2. Ruled(c)
    BY <1>2, <1>3, <1>4, <1>5, MoveIsSound
  <2>3. SameFrame(u, c)
    BY <1>2, <1>3, MoveFrame
  <2> QED
    BY <2>1, <2>2, <2>3
<1>7. IsFramed(c) /\ OuterSpace(c) = OuterSpace(u)
  BY <1>2, <1>6, FrameIsSame
<1>8. PICK d, a, w, run, n, k, f : /\ d = RunOf(u, b) /\ a = u.axis[d] /\ w = u.space[d]
                                   /\ run = u.items[d] /\ n = Len(run) /\ k = PlaceOf(u, b)
                                   /\ f = ShownSizes(u, d)
  OBVIOUS
<1>9. PICK x, y : DragsBetween(u, b, x, y)
  BY <1>2, <1>4, BesidePlaces
<1>10. PICK s : /\ IsDrag(u, c, d, x, y, s)
                /\ Least(MinDragGap, f[x]) \preceq f[x] ++ s
                /\ Least(MinDragGap, f[y]) \preceq f[y] -- s
  BY <1>2, <1>3, <1>4, <1>5, <1>8, <1>9, DragMakes
<1>11. /\ d \in Divisions(u) /\ IsFraction(s) /\ c.items = u.items /\ c.axis = u.axis
       /\ Nodes(c) = Nodes(u)
  BY <1>10 DEF IsDrag
<1>12. b \in Nodes(u) \ {u.root}
  BY <1>2 DEF Struct, Regions
<1>13. /\ n \in Nat /\ DOMAIN run = 1 .. n /\ k \in 1 .. n /\ run[k] = b
       /\ \A l \in 1 .. n : run[l] \in Nodes(u) \ {u.root}
       /\ \A l \in 1 .. n : d = RunOf(u, run[l]) /\ l = PlaceOf(u, run[l])
  <2>1. n \in Nat /\ DOMAIN run = 1 .. n /\ \A l \in 1 .. n : run[l] \in Nodes(u) \ {u.root}
    BY <1>2, <1>8, <1>11, RunIsTyped
  <2>2. k \in 1 .. n /\ run[k] = b
    BY <1>2, <1>8, <1>12, PlaceInRun
  <2>3. ASSUME NEW l \in 1 .. n PROVE d = RunOf(u, run[l]) /\ l = PlaceOf(u, run[l])
    BY <1>2, <1>8, <1>11, <2>1, PlaceInRun
  <2> QED
    BY <2>1, <2>2, <2>3
<1>14. PICK l, h : l = FreeBeside(u, b).low /\ h = FreeBeside(u, b).high
  OBVIOUS
<1>15. /\ x \in 1 .. k - 1 /\ y \in k + 1 .. n /\ run[x] = l /\ run[y] = h
  BY <1>8, <1>9, <1>14 DEF DragsBetween
<1>16. x \in 1 .. n /\ y \in 1 .. n /\ x < k /\ k < y
  BY <1>13, <1>15
<1>17. FreeBeside(u, b) = [low |-> l, high |-> h] /\ Range(FreeBeside(u, b)) = {l, h}
  <2>1. FreeBeside(u, b) = [low |-> l, high |-> h]
    BY <1>14 DEF FreeBeside
  <2> QED
    BY <2>1 DEF Range
<1>18. PICK g : g = DragSizes(f, x, y, s)
  OBVIOUS
<1>19. \A j \in 1 .. n : AtPlace(Spaces(c)[run[j]], w, a, j, g)
  <2>1. \A j \in DOMAIN u.items[d] : AtPlace(Spaces(c)[u.items[d][j]], w, a, j, g)
    BY <1>2, <1>6, <1>7, <1>8, <1>10, <1>18, DragPlaces
  <2> QED
    BY <1>8, <1>13, <2>1
<1>20. Shifts(f, g, n, x, y, s)
  BY <1>2, <1>6, <1>8, <1>10, <1>18, DragShows
<1>21. \A j \in 1 .. n : AtPlace(u.space[run[j]], w, a, j, f) /\ f[j] = Extent(u, run[j])
  <2>1. LET e == ShownSizes(u, d)
            z == u.space[d]
            o == u.axis[d]
        IN  \A j \in DOMAIN u.items[d] : /\ AtPlace(u.space[u.items[d][j]], z, o, j, e)
                                         /\ e[j] = Extent(u, u.items[d][j])
    BY <1>2, <1>11, SizedShows
  <2> QED
    BY <1>8, <1>13, <2>1
<1>22. a \in Axes /\ IsRoom(w)
  BY <1>2, <1>8, <1>11, RoomsFacts DEF Ruled, Struct, Regions
<1>23. \A j \in 1 .. n : /\ g[x] = f[x] ++ s /\ g[y] = f[y] -- s
                         /\ (j # x /\ j # y => g[j] = f[j])
  BY <1>20 DEF Shifts
<1>24. PICK v : v = unit'
  OBVIOUS
<1>25. /\ v.space = Spaces(c) /\ v.items = u.items /\ v.axis = u.axis
  BY <1>4, <1>6, <1>11, <1>24, SolvedIs
<1> DEFINE Moved(i) == v.space[i].low[a] -- u.space[i].low[a]
<1>26. ASSUME NEW j \in x + 1 .. y - 1
       PROVE  v.space[run[j]].size = u.space[run[j]].size /\ Moved(run[j]) = s
  <2>1. j \in 1 .. n /\ j # x /\ j # y /\ j - 1 \in 0 .. n /\ x <= j - 1 /\ j - 1 < y
    BY <1>13, <1>16, <1>26
  <2>2. AtPlace(v.space[run[j]], w, a, j, g) /\ AtPlace(u.space[run[j]], w, a, j, f)
    BY <1>19, <1>21, <1>25, <2>1
  <2>3. g[j] = f[j]
    BY <1>23, <2>1
  <2>4. v.space[run[j]].size = u.space[run[j]].size
    <3>1. PICK p, q : p = v.space[run[j]].size /\ q = u.space[run[j]].size
      BY SMTT(40)
    <3>2. p = [o \in Axes |-> p[o]] /\ q = [o \in Axes |-> q[o]]
      BY <2>2, <3>1, Zenon DEF AtPlace, IsBox
    <3>3. \A o \in Axes : p[o] = q[o]
      BY <1>22, <2>2, <2>3, <3>1 DEF AtPlace
    <3> QED
      BY <3>1, <3>2, <3>3
  <2>5. PICK m : m = Sum(f, 1 .. j - 1)
    OBVIOUS
  <2>6. IsFraction(m) /\ Sum(g, 1 .. j - 1) = m ++ s
    BY <1>20, <2>1, <2>5, ShiftedSums
  <2>7. PICK o : o = w.low[a]
    OBVIOUS
  <2>8. v.space[run[j]].low[a] = o ++ (m ++ s) /\ u.space[run[j]].low[a] = o ++ m
    BY <2>2, <2>5, <2>6, <2>7 DEF AtPlace
  <2>9. IsFraction(o)
    BY <1>22, <2>7 DEF IsRoom
  <2>10. (o ++ (m ++ s)) -- (o ++ m) = s
    BY <1>11, <2>6, <2>9, ShiftAlgebra, SMTT(40)
  <2> QED
    BY <2>4, <2>8, <2>10
<1>27. ASSUME NEW j \in 1 .. n, j < x \/ j > y
       PROVE  v.space[run[j]] = u.space[run[j]]
  <2>1. j # x /\ j # y /\ j - 1 \in 0 .. n /\ ~(x <= j - 1 /\ j - 1 < y)
    BY <1>13, <1>16, <1>27
  <2>2. AtPlace(v.space[run[j]], w, a, j, g) /\ AtPlace(u.space[run[j]], w, a, j, f)
    BY <1>19, <1>21, <1>25
  <2>3. g[j] = f[j]
    BY <1>23, <2>1
  <2>4. Sum(g, 1 .. j - 1) = Sum(f, 1 .. j - 1)
    BY <1>20, <2>1, ShiftedSums
  <2>5. \A o \in Axes : /\ v.space[run[j]].low[o] = u.space[run[j]].low[o]
                        /\ v.space[run[j]].size[o] = u.space[run[j]].size[o]
    BY <1>22, <2>2, <2>3, <2>4 DEF AtPlace
  <2> QED
    BY <2>2, <2>5, BoxesAgree DEF AtPlace
<1>28. ASSUME NEW j \in {x, y} PROVE Least(MinDragGap, Extent(u, run[j])) \preceq Extent(v, run[j])
  <2>1. j \in 1 .. n
    BY <1>16
  <2>2. Extent(v, run[j]) = g[j]
    <3>1. RunOf(v, run[j]) = d
      BY <1>13, <1>25, <2>1 DEF RunOf, Divisions
    <3>2. AxisOf(v, run[j]) = a
      BY <1>8, <1>25, <3>1 DEF AxisOf
    <3>3. AtPlace(v.space[run[j]], w, a, j, g)
      BY <1>19, <1>25, <2>1
    <3> QED
      BY <3>2, <3>3 DEF Extent, AtPlace
  <2>3. Extent(u, run[j]) = f[j]
    BY <1>21, <2>1
  <2> QED
    BY <1>10, <1>16, <1>23, <2>2, <2>3
<1>29. Moved(b) = s /\ k \in x + 1 .. y - 1
  <2>1. k \in x + 1 .. y - 1
    BY <1>13, <1>16
  <2> QED
    BY <1>13, <1>26, <2>1
<1>30. PlaceOf(u, l) = x /\ PlaceOf(u, h) = y
  BY <1>13, <1>15, <1>16
<1>31. PICK S : S = x + 1 .. y - 1
  OBVIOUS
<1>32. \A j \in S : v.space[run[j]].size = u.space[run[j]].size /\ Moved(run[j]) = Moved(b)
  BY <1>26, <1>29, <1>31
<1>33. \A i \in Range(run) \ ({l, h} \cup {run[j] : j \in S}) : v.space[i] = u.space[i]
  <2>1. SUFFICES ASSUME NEW i \in Range(run), i # l, i # h, i \notin {run[j] : j \in S}
                 PROVE  v.space[i] = u.space[i]
    OBVIOUS
  <2>2. PICK j \in 1 .. n : i = run[j]
    BY <1>13 DEF Range
  <2>3. j # x /\ j # y /\ j \notin S
    BY <1>15, <2>1, <2>2
  <2>4. j < x \/ j > y
    BY <1>13, <1>16, <1>31, <2>3
  <2> QED
    BY <1>27, <2>2, <2>4
<1>34. \A i \in {l, h} : Least(MinDragGap, Extent(u, i)) \preceq Extent(v, i)
  BY <1>15, <1>28
<1> HIDE DEF Moved
<1>35. AxisOf(u, b) = a
  BY <1>8, SMTT(40) DEF AxisOf
<1>36. DragsAreLocal
  <2>1. /\ FreeBeside(unit, b).low = l /\ FreeBeside(unit, b).high = h
        /\ PlaceOf(unit, l) + 1 .. PlaceOf(unit, h) - 1 = S
        /\ Range(FreeBeside(unit, b)) = {l, h} /\ unit.items[RunOf(unit, b)] = run
        /\ AxisOf(unit, b) = a
    BY <1>1, <1>8, <1>14, <1>17, <1>30, <1>31, <1>35
  <2>2. /\ \A j \in S : /\ unit'.space[run[j]].size = unit.space[run[j]].size
                        /\ unit'.space[run[j]].low[a] -- unit.space[run[j]].low[a]
                              = unit'.space[b].low[a] -- unit.space[b].low[a]
        /\ \A i \in Range(run) \ ({l, h} \cup {run[j] : j \in S}) : unit'.space[i] = unit.space[i]
        /\ \A i \in {l, h} : Least(MinDragGap, Extent(unit, i)) \preceq Extent(unit', i)
    <3>1. \A i \in {l, h} : Least(MinDragGap, Extent(unit, i)) \preceq Extent(unit', i)
      BY <1>1, <1>24, <1>34, Zenon DEF Extent, AxisOf, RunOf, Divisions
    <3> QED
      BY <1>1, <1>24, <1>32, <1>33, <3>1 DEF Moved
  <2> QED
    <3>1. LET r == unit.items[RunOf(unit, b)]
              o == AxisOf(unit, b)
              ends == FreeBeside(unit, b)
              between == PlaceOf(unit, ends.low) + 1 .. PlaceOf(unit, ends.high) - 1
              Off(i) == unit'.space[i].low[o] -- unit.space[i].low[o]
              SameSize(i) == unit'.space[i].size = unit.space[i].size
          IN  /\ \A j \in between : SameSize(r[j]) /\ Off(r[j]) = Off(b)
              /\ \A i \in Range(r) \ (Range(ends) \cup {r[j] : j \in between}) :
                    unit'.space[i] = unit.space[i]
              /\ \A i \in Range(ends) :
                    Least(MinDragGap, Extent(unit, i)) \preceq Extent(unit', i)
      <4>1. PICK r, ends, o, T, between :
               /\ r = unit.items[RunOf(unit, b)] /\ ends = FreeBeside(unit, b)
               /\ o = AxisOf(unit, b) /\ T = Range(ends)
               /\ between = PlaceOf(unit, ends.low) + 1 .. PlaceOf(unit, ends.high) - 1
        OBVIOUS
      <4>2. r = run /\ o = a /\ T = {l, h} /\ between = S
        BY <2>1, <4>1
      <4> QED
        BY <2>2, <4>1, <4>2, ZenonT(40)
    <3> QED
      BY <1>4, <3>1, ZenonT(40) DEF DragsAreLocal, Unmoved
<1> QED
  BY <1>36
===============================================================================
