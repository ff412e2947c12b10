----------------------------- MODULE LayoutProofs -----------------------------
(***************************************************************************)
(* What the edits of Layout make of a unit, whatever the unit.  They keep it*)
(* one tree, with an unlocked region in every run and no division in a run *)
(* along its own axis.  Struct is the layout of the proofs, and Keeps(u, v)*)
(* says that v is one if u is, with no division in a run along its own axis*)
(* and an unlocked region in every run if u has them.                      *)
(*                                                                         *)
(* Then what the solver of Tree computes: Fractions computes with fractions,*)
(* for Frac finds the lowest terms by Euclid's algorithm and the laws of the*)
(* operations follow from those of the integers over a common denominator; *)
(* Sum adds up a finite set in any order; and distributing a span over a run*)
(* gives sizes that add up to it, each its weight's share of what the others*)
(* leave, so that weights taken from the sizes give the sizes back.  Last the*)
(* frame of a unit and the rules an edit writes.                           *)
(***************************************************************************)
EXTENDS Layout, FiniteSetTheorems, SequenceTheorems, WellFoundedInduction, TLAPS

\* A run of distinct members of S, one at least.
IsRun(s, S) == s \in Seq(S) /\ IsInjective(s) /\ s # << >>
\* Going down the tree the ranks rise: nothing is above itself.
Ranks(u, rank) ==
    /\ rank \in [Nodes(u) -> Nat]
    /\ \A d \in Divisions(u) : \A i \in Range(u.items[d]) : rank[d] < rank[i]

\* IsLayout as the proofs take it, with ranks instead of paths: every clause speaks
\* of one run, so that an edit of a run is seen to keep it.
Struct(u) ==
    /\ Fields \subseteq DOMAIN u
    /\ IsFiniteSet(Nodes(u))
    /\ Boards(u) \subseteq Nodes(u) /\ Divisions(u) \subseteq Regions(u) /\ u.root \in Regions(u)
    /\ DOMAIN u.axis = Divisions(u)
    /\ u.voids \subseteq Regions(u) \ Divisions(u)
    /\ \A d \in Divisions(u) : IsRun(u.items[d], Nodes(u) \ {u.root})
    /\ \A i \in Nodes(u) \ {u.root} : \E d \in Divisions(u) : i \in Range(u.items[d])
    /\ \A d, e \in Divisions(u) : d # e => Range(u.items[d]) \cap Range(u.items[e]) = {}
    /\ \E rank : Ranks(u, rank)

\* RunsKeepOneUnlocked of any layout.
RunsUnlocked(u) == \A d \in Divisions(u) : \E i \in Range(u.items[d]) : Unlocked(u, i)
\* NoSameAxisNesting of any layout, said from the run above.
Flat(u) == \A d, e \in Divisions(u) : d \in Range(u.items[e]) => u.axis[d] # u.axis[e]

\* RunOf and PlaceOf find the one place there is.
LEMMA PlaceFacts ==
    ASSUME NEW u, Struct(u)
    PROVE  /\ \A d \in Divisions(u) : \A i \in Range(u.items[d]) : RunOf(u, i) = d
           /\ \A i \in Nodes(u) \ {u.root} :
                 /\ RunOf(u, i) \in Divisions(u) /\ i \in Range(u.items[RunOf(u, i)])
                 /\ PlaceOf(u, i) \in 1 .. Len(u.items[RunOf(u, i)])
                 /\ u.items[RunOf(u, i)][PlaceOf(u, i)] = i
<1>1. ASSUME NEW d \in Divisions(u), NEW i \in Range(u.items[d])
      PROVE  RunOf(u, i) = d
  <2>1. \A e \in Divisions(u) : i \in Range(u.items[e]) => e = d
    BY <1>1 DEF Struct
  <2> QED
    BY <1>1, <2>1 DEF RunOf
<1>2. ASSUME NEW i \in Nodes(u) \ {u.root}
      PROVE  /\ RunOf(u, i) \in Divisions(u) /\ i \in Range(u.items[RunOf(u, i)])
             /\ PlaceOf(u, i) \in 1 .. Len(u.items[RunOf(u, i)])
             /\ u.items[RunOf(u, i)][PlaceOf(u, i)] = i
  <2>1. PICK d \in Divisions(u) : i \in Range(u.items[d])
    BY <1>2 DEF Struct
  <2>2. RunOf(u, i) = d
    BY <1>1, <2>1
  <2>3. DOMAIN u.items[d] = 1 .. Len(u.items[d])
    BY DEF Struct, IsRun
  <2>4. \E k \in DOMAIN u.items[d] : u.items[d][k] = i
    BY <2>1 DEF Range
  <2>5. PlaceOf(u, i) \in DOMAIN u.items[d] /\ u.items[d][PlaceOf(u, i)] = i
    BY <2>2, <2>4 DEF PlaceOf
  <2> QED
    BY <2>1, <2>2, <2>3, <2>5
<1> QED
  BY <1>1, <1>2

\* What PathOf is defined by.
Steps(u, f) ==
    f = [j \in Nodes(u) |-> IF j = u.root THEN {j} ELSE {j} \cup f[RunOf(u, j)]]

\* There is such a function: the least set that holds a node and, with each
\* but the root, the division above it.
LEMMA StepsExist ==
    ASSUME NEW u, Struct(u)
    PROVE  \E f : Steps(u, f)
<1> DEFINE Closed(S) == \A x \in S \ {u.root} : RunOf(u, x) \in S
           f == [j \in Nodes(u) |-> {h \in Nodes(u) : \A S \in SUBSET Nodes(u) :
                                        j \in S /\ Closed(S) => h \in S}]
<1>1. \A j \in Nodes(u) \ {u.root} : RunOf(u, j) \in Nodes(u)
  BY PlaceFacts DEF Struct, Regions
<1>2. u.root \in Nodes(u)
  BY DEF Struct, Regions
<1>3. ASSUME NEW j \in Nodes(u) PROVE j \in f[j] /\ Closed(f[j]) /\ f[j] \in SUBSET Nodes(u)
  <2>1. j \in f[j] /\ f[j] \in SUBSET Nodes(u)
    OBVIOUS
  <2>2. ASSUME NEW x \in f[j] \ {u.root} PROVE RunOf(u, x) \in f[j]
    <3>1. RunOf(u, x) \in Nodes(u)
      BY <1>1, <2>2
    <3>2. ASSUME NEW S \in SUBSET Nodes(u), j \in S, Closed(S) PROVE RunOf(u, x) \in S
      <4>1. x \in S
        BY <2>2, <3>2
      <4> QED
        BY <4>1, <3>2
    <3> QED
      BY <3>1, <3>2
  <2> QED
    BY <2>1, <2>2
<1>4. ASSUME NEW j \in Nodes(u)
      PROVE  f[j] = IF j = u.root THEN {j} ELSE {j} \cup f[RunOf(u, j)]
  <2>1. CASE j = u.root
    <3>1. {j} \in SUBSET Nodes(u) /\ Closed({j})
      BY <2>1
    <3>2. f[j] \subseteq {j}
      BY <3>1
    <3> QED
      BY <3>2, <1>3, <2>1
  <2>2. CASE j # u.root
    <3> DEFINE p == RunOf(u, j)
    <3>1. p \in Nodes(u)
      BY <1>1, <2>2
    <3> HIDE DEF p
    <3>2. p \in f[p] /\ Closed(f[p]) /\ f[p] \in SUBSET Nodes(u)
      BY <1>3, <3>1
    <3>3. f[p] \subseteq f[j]
      <4>1. SUFFICES ASSUME NEW h \in f[p], NEW S \in SUBSET Nodes(u), j \in S, Closed(S)
                     PROVE  h \in S
        BY <3>1
      <4>2. p \in S
        BY <4>1, <2>2 DEF p
      <4> QED
        BY <4>1, <4>2, <3>1
    <3>4. f[j] \subseteq {j} \cup f[p]
      <4> DEFINE S == {j} \cup f[p]
      <4>1. S \in SUBSET Nodes(u) /\ j \in S
        BY <3>2
      <4>2. Closed(S)
        BY <3>2 DEF p
      <4> HIDE DEF S
      <4>3. f[j] \subseteq S
        BY <4>1, <4>2
      <4> QED
        BY <4>3 DEF S
    <3> QED
      BY <3>3, <3>4, <1>3, <2>2 DEF p
  <2> QED
    BY <2>1, <2>2
<1>5. Steps(u, f)
  <2> HIDE DEF f
  <2>1. f = [j \in Nodes(u) |-> f[j]]
    BY DEF f
  <2> QED
    BY <2>1, <1>4 DEF Steps
<1> QED
  BY <1>5

\* The path of a node is the node and the path of the division above it.
LEMMA PathStep ==
    ASSUME NEW u, Struct(u), NEW j \in Nodes(u)
    PROVE  PathOf(u, j) = IF j = u.root THEN {j} ELSE {j} \cup PathOf(u, RunOf(u, j))
<1> DEFINE f == CHOOSE f : Steps(u, f)
<1>1. \A i : PathOf(u, i) = f[i]
  BY DEF PathOf, Steps
<1>2. Steps(u, f)
  BY StepsExist
<1> HIDE DEF f
<1>3. f[j] = IF j = u.root THEN {j} ELSE {j} \cup f[RunOf(u, j)]
  BY <1>2 DEF Steps
<1> QED
  BY <1>1, <1>3

\* An edit keeps the unit one tree, a few nodes larger at most, no division in a
\* run along its own axis and an unlocked region in every run.
Keeps(u, v) ==
    /\ Struct(v)
    /\ Flat(u) => Flat(v)
    /\ RunsUnlocked(u) => RunsUnlocked(v)

\* v has the fields of a unit, and the outer size, the place and the fixed point of u.
SameFrame(u, v) ==
    /\ Fields \subseteq DOMAIN v
    /\ v.low = u.low /\ v.size = u.size /\ v.fixed = u.fixed

\* Two edits that leave it, one after the other, leave it.
LEMMA SameFrameIsTransitive ==
    ASSUME NEW u, NEW v, NEW w, SameFrame(u, v), SameFrame(v, w)
    PROVE  SameFrame(u, w)
BY DEF SameFrame

\* So has a unit with another tree, or other rules.
LEMMA FieldFacts ==
    ASSUME NEW u, Fields \subseteq DOMAIN u
    PROVE  /\ SameFrame(u, u)
           /\ \A x : /\ SameFrame(u, [u EXCEPT !.root = x])
                     /\ SameFrame(u, [u EXCEPT !.items = x])
                     /\ SameFrame(u, [u EXCEPT !.axis = x])
                     /\ SameFrame(u, [u EXCEPT !.rule = x])
                     /\ SameFrame(u, [u EXCEPT !.thick = x])
                     /\ SameFrame(u, [u EXCEPT !.pinned = x])
                     /\ SameFrame(u, [u EXCEPT !.voids = x])
                     /\ SameFrame(u, [u EXCEPT !.space = x])
BY DEF SameFrame, Fields

\* So do the operators the edits are made of,
LEMMA OperatorFrames ==
    ASSUME NEW u, Fields \subseteq DOMAIN u
    PROVE  /\ SameFrame(u, Solved(u))
           /\ \A i, rule : SameFrame(u, WithRule(u, i, rule))
           /\ \A gone : SameFrame(u, Without(u, gone))
           /\ \A bs, mm : SameFrame(u, SetThickness(u, bs, mm))
<1>1. SameFrame(u, Solved(u))
  BY FieldFacts DEF Solved
<1>2. ASSUME NEW i, NEW rule PROVE SameFrame(u, WithRule(u, i, rule))
  BY FieldFacts DEF WithRule
<1>3. ASSUME NEW gone PROVE SameFrame(u, Without(u, gone))
  BY DEF Without, SameFrame, Fields
<1>4. ASSUME NEW bs, NEW mm PROVE SameFrame(u, SetThickness(u, bs, mm))
  BY DEF SetThickness, SameFrame, Fields
<1> QED
  BY <1>1, <1>2, <1>3, <1>4

\* a split,
LEMMA SplitFrame ==
    ASSUME NEW u, Fields \subseteq DOMAIN u, NEW r, NEW a
    PROVE  SameFrame(u, SplitRegion(u, r, a))
<1>1. ASSUME NEW new, NEW half PROVE SameFrame(u, Halved(u, r, a, new, half))
  <2>1. PICK x : x = [u EXCEPT !.thick = Over(@, Single(new.board, @[SourceBoard(u, r, a)])),
                      !.rule = Over(@, [i \in {new.board, new.low, new.high} |->
                                           IF i = new.board THEN Own ELSE half])]
    OBVIOUS
  <2>2. SameFrame(u, x)
    BY <2>1 DEF SameFrame, Fields
  <2>3. SameFrame(x, Without(x, {r}))
    BY <2>2, OperatorFrames DEF SameFrame
  <2>4. SameFrame(u, Without(x, {r}))
    BY <2>2, <2>3, SameFrameIsTransitive
  <2> QED
    BY <2>1, <2>4 DEF Halved
<1>2. ASSUME NEW h, SameFrame(u, h), NEW d, NEW x PROVE SameFrame(u, [h EXCEPT !.items[d] = x])
  BY <1>2 DEF SameFrame, Fields
<1>3. PICK new : new = NewNodes(u)
  OBVIOUS
<1>4. PICK half : half = HalfRule(u, r, HalfMm(u, r, a))
  OBVIOUS
<1>5. PICK h : h = Halved(u, r, a, new, half)
  OBVIOUS
<1>6. PICK g : g = Halved(u, r, a, new, Fill)
  OBVIOUS
<1>7. PICK d : d = RunOf(u, r)
  OBVIOUS
<1>8. PICK k : k = PlaceOf(u, r)
  OBVIOUS
<1>9. SameFrame(u, h) /\ SameFrame(u, g)
  BY <1>1, <1>5, <1>6
<1>10. PICK run : run = <<new.low, new.board, new.high>>
  OBVIOUS
<1>11. PICK v : v = [h EXCEPT !.items[d] = Splice(@, k, 1, run)]
  OBVIOUS
<1>12. PICK w : w = [g EXCEPT !.rule = Over(@, Single(new.division, u.rule[r])),
                              !.items = Over([@ EXCEPT ![d][k] = new.division],
                                             Single(new.division, run)),
                              !.axis = Over(@, Single(new.division, a))]
  OBVIOUS
<1>13. SameFrame(u, v)
  BY <1>2, <1>9, <1>11
<1>14. SameFrame(u, w)
  BY <1>9, <1>12 DEF SameFrame, Fields
<1>15. SplitRegion(u, r, a) = IF u.axis[d] = a THEN v ELSE w
  BY <1>3, <1>4, <1>5, <1>6, <1>7, <1>8, <1>10, <1>11, <1>12 DEF SplitRegion
<1> QED
  BY <1>13, <1>14, <1>15

\* and a merge, with what it collapses.
LEMMA MergeFrame ==
    ASSUME NEW u, Fields \subseteq DOMAIN u, NEW b
    PROVE  SameFrame(u, MergeAt(u, b))
<1>1. ASSUME NEW h, SameFrame(u, h), NEW d, NEW x PROVE SameFrame(u, [h EXCEPT !.items[d] = x])
  BY <1>1 DEF SameFrame, Fields
<1>2. ASSUME NEW h, SameFrame(u, h), NEW gone PROVE SameFrame(u, Without(h, gone))
  <2>1. SameFrame(h, Without(h, gone))
    BY <1>2, OperatorFrames DEF SameFrame
  <2> QED
    BY <2>1, <1>2, SameFrameIsTransitive
<1>3. ASSUME NEW h, SameFrame(u, h), NEW i, NEW rule PROVE SameFrame(u, WithRule(h, i, rule))
  <2>1. SameFrame(h, WithRule(h, i, rule))
    BY <1>3, OperatorFrames DEF SameFrame
  <2> QED
    BY <2>1, <1>3, SameFrameIsTransitive
<1>4. SameFrame(u, u)
  BY FieldFacts
<1>5. ASSUME NEW j, SameFrame(u, j), NEW d, NEW i PROVE SameFrame(u, Promoted(u, j, d, i))
  <2>1. PICK p : p = RunOf(u, d)
    OBVIOUS
  <2>2. PICK k : k = PlaceOf(u, d)
    OBVIOUS
  <2>3. PICK x : x = Without(WithRule(j, i, u.rule[d]), {d})
    OBVIOUS
  <2>4. SameFrame(u, x)
    BY <2>3, <1>2, <1>3, <1>5
  <2>5. PICK top : top = [x EXCEPT !.root = i]
    OBVIOUS
  <2>6. PICK here : here = [x EXCEPT !.items[p][k] = i]
    OBVIOUS
  <2>7. PICK in : in = [x EXCEPT !.items[p] = Splice(@, k, 1, u.items[i]),
                                 !.rule = Over(@, SplicedRules(u, p, k, i))]
    OBVIOUS
  <2>8. SameFrame(u, top) /\ SameFrame(u, here)
    BY <2>4, <2>5, <2>6 DEF SameFrame, Fields
  <2>9. SameFrame(u, in)
    BY <2>4, <2>7 DEF SameFrame, Fields
  <2>10. PICK out : out = Without(in, {i})
    OBVIOUS
  <2>11. SameFrame(u, out)
    BY <2>9, <2>10, <1>2
  <2>12. PICK v : v = Promoted(u, j, d, i)
    OBVIOUS
  <2>13. v = CASE d = u.root -> top
               [] d # u.root /\ (i \notin Divisions(u) \/ u.axis[i] # u.axis[p]) -> here
               [] d # u.root /\ i \in Divisions(u) /\ u.axis[i] = u.axis[p] -> out
    BY <2>1, <2>2, <2>3, <2>5, <2>6, <2>7, <2>10, <2>12 DEF Promoted
  <2>14. v = top \/ v = here \/ v = out
    BY <2>13
  <2> QED
    BY <2>8, <2>11, <2>12, <2>14
<1>6. PICK d : d = RunOf(u, b)
  OBVIOUS
<1>7. PICK i : i = Beside(u, b).low
  OBVIOUS
<1>8. PICK left : left = Splice(u.items[d], PlaceOf(u, b) - 1, 3, <<i>>)
  OBVIOUS
<1>9. PICK x : x = [WithRule(u, i, MergedRule(u, b)) EXCEPT !.items[d] = left]
  OBVIOUS
<1>10. SameFrame(u, x)
  BY <1>1, <1>3, <1>4, <1>9
<1>11. PICK j : j = Without(x, {b} \cup Subtree(u, Beside(u, b).high))
  OBVIOUS
<1>12. SameFrame(u, j)
  BY <1>2, <1>10, <1>11
<1>13. MergeAt(u, b) = IF Len(left) > 1 THEN j ELSE Promoted(u, j, d, i)
  BY <1>6, <1>7, <1>8, <1>9, <1>11 DEF MergeAt
<1> QED
  BY <1>5, <1>12, <1>13

\* The fold of RemoveBoards (RemoveBoards above, and its invariant).
Removal(c, r, b) ==
    CASE r.outcome # "done" \/ b \notin Boards(r.unit) -> r
      [] r.outcome = "done" /\ b \in Boards(r.unit) ->
            CASE ~Solves(r.unit) -> [r EXCEPT !.outcome = "raised"]
              [] Solves(r.unit) /\ CanMerge(r.unit, b) ->
                    [r EXCEPT !.unit = Solved(MergeAt(r.unit, b))]
              [] Solves(r.unit) /\ ~CanMerge(r.unit, b) ->
                    [r EXCEPT !.outcome = "refused"]
\* What holds of a removal's record after n boards, d the layout it began with.
RemovedSoFar(d, n, r) ==
    /\ DOMAIN r = {"unit", "outcome"} /\ Keeps(d, r.unit) /\ Nodes(r.unit) \subseteq Nodes(d)
    /\ SameFrame(d, r.unit)
\* The fold of these.
Removing == INSTANCE FoldTheorems WITH Op <- Removal, P <- RemovedSoFar

\* The places and members of a run.
LEMMA RunFacts ==
    ASSUME NEW S, NEW s, IsRun(s, S)
    PROVE  /\ DOMAIN s = 1 .. Len(s) /\ Len(s) \in Nat /\ Len(s) >= 1
           /\ Range(s) \subseteq S /\ \A k \in 1 .. Len(s) : s[k] \in Range(s)
BY LenProperties, EmptySeq DEF IsRun, Range

\* Going up a path the ranks fall, to the root.
LEMMA PathFacts ==
    ASSUME NEW u, Struct(u), NEW rank, Ranks(u, rank), NEW j \in Nodes(u)
    PROVE  /\ j \in PathOf(u, j) /\ PathOf(u, j) \subseteq Nodes(u) /\ u.root \in PathOf(u, j)
           /\ \A h \in PathOf(u, j) : h = j \/ rank[h] < rank[j]
<1> DEFINE Fine(x) == /\ PathOf(u, x) \subseteq Nodes(u) /\ u.root \in PathOf(u, x)
                      /\ \A h \in PathOf(u, x) : h = x \/ rank[h] < rank[x]
           T == {n \in Nat : \A x \in Nodes(u) : rank[x] < n => Fine(x)}
<1>1. 0 \in T
  BY DEF Ranks
<1>2. ASSUME NEW n \in Nat, n \in T PROVE n + 1 \in T
  <2>1. SUFFICES ASSUME NEW x \in Nodes(u), rank[x] < n + 1 PROVE Fine(x)
    OBVIOUS
  <2>2. PathOf(u, x) = IF x = u.root THEN {x} ELSE {x} \cup PathOf(u, RunOf(u, x))
    BY PathStep
  <2>3. CASE x = u.root
    BY <2>2, <2>3
  <2>4. CASE x # u.root
    <3> DEFINE p == RunOf(u, x)
    <3>1. p \in Divisions(u) /\ x \in Range(u.items[p]) /\ p \in Nodes(u)
      BY <2>4, PlaceFacts DEF Struct, Regions
    <3>2. rank[p] < rank[x] /\ rank[p] \in Nat /\ rank[x] \in Nat
      BY <3>1 DEF Ranks
    <3> HIDE DEF p
    <3>3. rank[p] < n
      BY <3>2, <2>1
    <3>4. Fine(p)
      BY <3>1, <3>3, <1>2
    <3>5. PathOf(u, x) = {x} \cup PathOf(u, p)
      BY <2>2, <2>4 DEF p
    <3>6. ASSUME NEW h \in PathOf(u, p) PROVE rank[h] < rank[x]
      <4>1. rank[h] \in Nat
        BY <3>4, <3>6 DEF Ranks
      <4> QED
        BY <3>2, <3>4, <4>1
    <3> QED
      BY <3>4, <3>5, <3>6
  <2> QED
    BY <2>3, <2>4
<1>3. Nat \subseteq T
  <2> HIDE DEF T
  <2> QED
    BY <1>1, <1>2, Removing!Induction
<1>4. rank[j] \in Nat
  BY DEF Ranks
<1>5. Fine(j)
  <2>1. rank[j] + 1 \in T /\ rank[j] < rank[j] + 1
    BY <1>3, <1>4
  <2> QED
    BY <2>1
<1>6. j \in PathOf(u, j)
  BY PathStep
<1> QED
  BY <1>5, <1>6

\* What a layout of the proofs is by its paths (IsTree).
LEMMA StructIsTree ==
    ASSUME NEW u, Struct(u)
    PROVE  IsTree(u)
<1>1. \A d \in Divisions(u) : u.items[d] # << >> /\ IsInjective(u.items[d])
  BY DEF Struct, IsRun
<1>2. ASSUME NEW i \in Nodes(u) \ {u.root}
      PROVE  \E d \in Divisions(u) : /\ i \in Range(u.items[d])
                                     /\ \A e \in Divisions(u) \ {d} : i \notin Range(u.items[e])
  <2>1. PICK d \in Divisions(u) : i \in Range(u.items[d])
    BY DEF Struct
  <2>2. \A e \in Divisions(u) \ {d} : i \notin Range(u.items[e])
    BY <2>1 DEF Struct
  <2> QED
    BY <2>1, <2>2
<1>3. \A i \in Nodes(u) : u.root \in PathOf(u, i)
  <2>1. PICK rank : Ranks(u, rank)
    BY DEF Struct
  <2> QED
    BY <2>1, PathFacts
<1> QED
  BY <1>1, <1>2, <1>3 DEF Struct, IsTree

\* What goes with the member h of a run: h and all that is in it.
LEMMA SubtreeFacts ==
    ASSUME NEW u, Struct(u), NEW h \in Nodes(u)
    PROVE  /\ h \in Subtree(u, h) /\ Subtree(u, h) \subseteq Nodes(u)
           /\ \A rank : Ranks(u, rank) =>
                 \A j \in Subtree(u, h) : j = h \/ rank[h] < rank[j]
           /\ \A d \in Divisions(u) : \A i \in Range(u.items[d]) :
                 i \in Subtree(u, h) <=> i = h \/ d \in Subtree(u, h)
           /\ u.root \in Subtree(u, h) => h = u.root
<1>1. PICK rank : Ranks(u, rank)
  BY DEF Struct
<1>2. h \in Subtree(u, h) /\ Subtree(u, h) \subseteq Nodes(u)
  BY <1>1, PathFacts DEF Subtree
<1>3. ASSUME NEW r, Ranks(u, r), NEW j \in Subtree(u, h)
      PROVE  j = h \/ r[h] < r[j]
  BY <1>3, PathFacts DEF Subtree
<1>4. ASSUME NEW d \in Divisions(u), NEW i \in Range(u.items[d])
      PROVE  i \in Subtree(u, h) <=> i = h \/ d \in Subtree(u, h)
  <2>1. i \in Nodes(u) \ {u.root} /\ RunOf(u, i) = d /\ d \in Nodes(u)
    <3>1. i \in Nodes(u) \ {u.root} /\ d \in Nodes(u)
      BY RunFacts DEF Struct, Regions
    <3> QED
      BY <3>1, PlaceFacts
  <2>2. PathOf(u, i) = {i} \cup PathOf(u, d)
    BY <2>1, PathStep
  <2> QED
    BY <2>1, <2>2 DEF Subtree
<1>5. u.root \in Subtree(u, h) => h = u.root
  <2>1. PathOf(u, u.root) = {u.root}
    BY PathStep DEF Struct, Regions
  <2> QED
    BY <2>1 DEF Subtree
<1> QED
  BY <1>2, <1>3, <1>4, <1>5

\* A run with the n members from place k on replaced by another.
LEMMA SpliceFacts ==
    ASSUME NEW S, NEW s \in Seq(S), NEW t \in Seq(S), NEW k \in 1 .. Len(s), NEW n \in Nat,
           k + n - 1 <= Len(s), IsInjective(s), IsInjective(t),
           \A x \in 1 .. Len(s) : s[x] \in Range(t) => x \in k .. k + n - 1
    PROVE  /\ Splice(s, k, n, t) \in Seq(S) /\ IsInjective(Splice(s, k, n, t))
           /\ Len(Splice(s, k, n, t)) = Len(s) - n + Len(t)
           /\ Range(Splice(s, k, n, t)) =
                 {s[x] : x \in (1 .. Len(s)) \ (k .. k + n - 1)} \cup Range(t)
<1> DEFINE low == SubSeq(s, 1, k - 1)
           high == SubSeq(s, k + n, Len(s))
           v == Splice(s, k, n, t)
           m == Len(t)
<1>1. Len(s) \in Nat /\ m \in Nat /\ DOMAIN s = 1 .. Len(s) /\ DOMAIN t = 1 .. m
  BY LenProperties
<1>2. low \in Seq(S) /\ Len(low) = k - 1 /\ \A x \in 1 .. k - 1 : low[x] = s[x]
  BY <1>1, SubSeqProperties
<1>3. /\ high \in Seq(S) /\ Len(high) = Len(s) - (k + n) + 1
      /\ \A x \in 1 .. Len(s) - (k + n) + 1 : high[x] = s[x + k + n - 1]
  <2>1. PICK j \in Int : j = k + n
    BY <1>1
  <2>a. Len(s) \in Int /\ Len(s) \in Nat
    BY <1>1
  <2>2. PICK l : l = Len(s) /\ l \in Nat
    BY <2>a
  <2>3. \A x \in j .. l : s[x] \in S
    BY <1>1, <2>1, <2>2
  <2>4. high = SubSeq(s, j, l)
    BY <2>1, <2>2
  <2> HIDE DEF high
  <2>b. /\ SubSeq(s, j, l) \in Seq(S)
        /\ Len(SubSeq(s, j, l)) = IF j <= l THEN l - j + 1 ELSE 0
        /\ \A x \in 1 .. l - j + 1 : SubSeq(s, j, l)[x] = s[j + x - 1]
    <3>1. l \in Int
      BY <2>2
    <3> QED
      BY <3>1, <2>3, SubSeqProperties
  <2>5. /\ high \in Seq(S) /\ Len(high) = IF j <= l THEN l - j + 1 ELSE 0
        /\ \A x \in 1 .. l - j + 1 : high[x] = s[j + x - 1]
    BY <2>b, <2>4
  <2>6. \A x \in 1 .. l - j + 1 : j + x - 1 = x + k + n - 1
    BY <1>1, <2>1
  <2>7. Len(high) = Len(s) - (k + n) + 1
    <3>1. j <= l + 1
      BY <2>1, <2>2
    <3>2. Len(high) = l - j + 1
      BY <2>b, <2>4, <3>1, <2>1, <2>2
    <3> QED
      BY <3>2, <2>1, <2>2
  <2>8. \A x \in 1 .. Len(s) - (k + n) + 1 : x \in 1 .. l - j + 1 /\ j + x - 1 = x + k + n - 1
    BY <2>1, <2>2, <1>1
  <2>9. ASSUME NEW x \in 1 .. Len(s) - (k + n) + 1 PROVE high[x] = s[x + k + n - 1]
    BY <2>5, <2>8, <2>9
  <2> QED
    BY <2>5, <2>7, <2>9
<1> HIDE DEF low, high
<1>4. v = (low \o t) \o high
  BY DEF Splice, low, high
<1> DEFINE h == low \o t
<1>c. /\ h \in Seq(S) /\ Len(h) = Len(low) + m
      /\ \A x \in 1 .. Len(low) + m : h[x] = IF x <= Len(low) THEN low[x] ELSE t[x - Len(low)]
  BY <1>2, ConcatProperties
<1> HIDE DEF h
<1>5. /\ h \in Seq(S) /\ Len(h) = k - 1 + m
      /\ \A x \in 1 .. k - 1 + m : h[x] = IF x <= k - 1 THEN low[x] ELSE t[x - (k - 1)]
  BY <1>c, <1>2
<1> HIDE DEF v, m
<1>d. /\ v \in Seq(S) /\ Len(v) = Len(h) + Len(high)
      /\ \A x \in 1 .. Len(h) + Len(high) : v[x] = IF x <= Len(h) THEN h[x] ELSE high[x - Len(h)]
  <2>1. v = h \o high
    BY <1>4 DEF h
  <2> QED
    BY <2>1, <1>5, <1>3, ConcatProperties
<1>6. /\ v \in Seq(S) /\ Len(v) = k - 1 + m + (Len(s) - (k + n) + 1)
      /\ \A x \in 1 .. Len(v) : v[x] = IF x <= k - 1 + m THEN h[x]
                                      ELSE high[x - (k - 1 + m)]
  BY <1>d, <1>3, <1>5
<1>7. Len(v) = Len(s) - n + m
  BY <1>1, <1>6
<1>8. ASSUME NEW x \in 1 .. Len(v)
      PROVE  v[x] = IF x < k THEN s[x] ELSE IF x < k + m THEN t[x - k + 1] ELSE s[x - m + n]
  <2>1. CASE x < k
    BY <2>1, <1>1, <1>2, <1>5, <1>6
  <2>2. CASE ~(x < k) /\ x < k + m
    <3>1. x - (k - 1) = x - k + 1 /\ ~(x <= k - 1) /\ x <= k - 1 + m
      BY <2>2, <1>1
    <3> QED
      BY <2>2, <3>1, <1>1, <1>5, <1>6
  <2>3. CASE ~(x < k + m)
    <3>1. /\ x - (k - 1 + m) \in 1 .. Len(s) - (k + n) + 1 /\ ~(x <= k - 1 + m)
          /\ x - (k - 1 + m) + k + n - 1 = x - m + n /\ ~(x < k)
      BY <2>3, <1>1, <1>7
    <3> QED
      BY <2>3, <3>1, <1>3, <1>6
  <2> QED
    BY <2>1, <2>2, <2>3
<1>9. ASSUME NEW x \in 1 .. Len(v), NEW y \in 1 .. Len(v), x < y, v[x] = v[y]
      PROVE  FALSE
  <2> DEFINE At(z) == IF z < k THEN z ELSE z - m + n
  <2>1. ASSUME NEW z \in 1 .. Len(v), ~(z \in k .. k + m - 1)
        PROVE  At(z) \in 1 .. Len(s) /\ ~(At(z) \in k .. k + n - 1) /\ v[z] = s[At(z)]
    BY <2>1, <1>1, <1>7, <1>8
  <2>2. ASSUME NEW z \in k .. k + m - 1, z \in 1 .. Len(v)
        PROVE  z - k + 1 \in 1 .. m /\ v[z] = t[z - k + 1] /\ v[z] \in Range(t)
    <3>1. z - k + 1 \in 1 .. m /\ v[z] = t[z - k + 1]
      BY <2>2, <1>1, <1>8
    <3> QED
      BY <3>1, <1>1 DEF Range, m
  <2>3. CASE ~(x \in k .. k + m - 1) /\ ~(y \in k .. k + m - 1)
    <3>1. At(x) = At(y)
      BY <2>1, <2>3, <1>9, <1>1 DEF IsInjective
    <3> QED
      BY <3>1, <2>3, <1>9, <1>1
  <2>4. CASE x \in k .. k + m - 1 /\ y \in k .. k + m - 1
    <3>1. x - k + 1 = y - k + 1
      BY <2>2, <2>4, <1>9, <1>1, ZenonT(40) DEF IsInjective, m
    <3> QED
      BY <3>1, <1>9, <1>1
  <2>5. CASE x \in k .. k + m - 1 /\ ~(y \in k .. k + m - 1)
    BY <2>1, <2>2, <2>5, <1>9
  <2>6. CASE ~(x \in k .. k + m - 1) /\ y \in k .. k + m - 1
    BY <2>1, <2>2, <2>6, <1>9
  <2> QED
    BY <2>3, <2>4, <2>5, <2>6
<1>10. DOMAIN v = 1 .. Len(v) /\ Len(v) \in Nat
  BY <1>6, LenProperties
<1>11. IsInjective(v)
  <2>1. SUFFICES ASSUME NEW x \in 1 .. Len(v), NEW y \in 1 .. Len(v), v[x] = v[y], x # y
                 PROVE  FALSE
    BY <1>10 DEF IsInjective
  <2>2. x < y \/ y < x
    BY <2>1, <1>10
  <2> QED
    BY <2>1, <2>2, <1>9
<1>12. Range(v) = {s[x] : x \in (1 .. Len(s)) \ (k .. k + n - 1)} \cup Range(t)
  <2>1. ASSUME NEW x \in 1 .. Len(v)
        PROVE  v[x] \in {s[z] : z \in (1 .. Len(s)) \ (k .. k + n - 1)} \cup Range(t)
    <3>1. CASE x < k
      <4>1. x \in (1 .. Len(s)) \ (k .. k + n - 1) /\ v[x] = s[x]
        BY <3>1, <1>1, <1>8
      <4> QED
        BY <4>1
    <3>2. CASE ~(x < k) /\ x < k + m
      <4>1. x - k + 1 \in DOMAIN t /\ v[x] = t[x - k + 1]
        BY <3>2, <1>1, <1>8 DEF m
      <4> QED
        BY <4>1 DEF Range
    <3>3. CASE ~(x < k + m)
      <4>1. x - m + n \in (1 .. Len(s)) \ (k .. k + n - 1) /\ v[x] = s[x - m + n]
        BY <3>3, <1>1, <1>7, <1>8
      <4> QED
        BY <4>1
    <3> QED
      BY <3>1, <3>2, <3>3
  <2>2. ASSUME NEW z \in (1 .. Len(s)) \ (k .. k + n - 1) PROVE s[z] \in Range(v)
    <3>1. CASE z < k
      <4>1. z \in 1 .. Len(v) /\ v[z] = s[z]
        BY <3>1, <1>1, <1>7, <1>8
      <4> QED
        BY <4>1, <1>10 DEF Range
    <3>2. CASE ~(z < k)
      <4>1. z - n + m \in 1 .. Len(v) /\ ~(z - n + m < k + m) /\ (z - n + m) - m + n = z
            /\ ~(z - n + m < k)
        BY <3>2, <1>1, <1>7
      <4>2. v[z - n + m] = s[z]
        BY <4>1, <1>8
      <4> QED
        BY <4>1, <4>2, <1>10 DEF Range
    <3> QED
      BY <3>1, <3>2
  <2>3. ASSUME NEW y \in Range(t) PROVE y \in Range(v)
    <3>1. PICK z \in 1 .. m : t[z] = y
      BY <1>1 DEF Range, m
    <3>2. /\ z + k - 1 \in 1 .. Len(v) /\ ~(z + k - 1 < k) /\ z + k - 1 < k + m
          /\ (z + k - 1) - k + 1 = z
      BY <1>1, <1>7
    <3>3. v[z + k - 1] = y
      BY <3>1, <3>2, <1>8
    <3> QED
      BY <3>2, <3>3, <1>10 DEF Range
  <2> QED
    BY <2>1, <2>2, <2>3, <1>10 DEF Range
<1> QED
  BY <1>6, <1>7, <1>11, <1>12 DEF v, m

\* Where the nodes and the runs stay, and no region is locked.
LEMMA SameRuns ==
    ASSUME NEW u, Struct(u), NEW v, Fields \subseteq DOMAIN v,
           v.root = u.root, v.items = u.items, v.axis = u.axis, v.voids = u.voids,
           DOMAIN v.rule = DOMAIN u.rule, DOMAIN v.thick = DOMAIN u.thick
    PROVE  /\ Struct(v) /\ Nodes(v) = Nodes(u) /\ Boards(v) = Boards(u)
           /\ Flat(u) => Flat(v)
           /\ (\A i \in Nodes(u) : Unlocked(u, i) => Unlocked(v, i)) => Keeps(u, v)
           /\ (\A i \in Nodes(u) : v.rule[i] = u.rule[i]) => Keeps(u, v)
<1>1. /\ Nodes(v) = Nodes(u) /\ Boards(v) = Boards(u) /\ Divisions(v) = Divisions(u)
      /\ Regions(v) = Regions(u)
  BY DEF Nodes, Boards, Divisions, Regions
<1>2. Struct(v)
  <2>1. \A rank : Ranks(u, rank) => Ranks(v, rank)
    BY <1>1 DEF Ranks
  <2> QED
    BY <1>1, <2>1 DEF Struct
<1>3. Flat(u) => Flat(v)
  BY <1>1 DEF Flat
<1>4. \A d \in Divisions(u) : Range(u.items[d]) \subseteq Nodes(u)
  BY RunFacts DEF Struct
<1>5. (\A i \in Nodes(u) : Unlocked(u, i) => Unlocked(v, i)) => Keeps(u, v)
  <2>1. SUFFICES ASSUME \A i \in Nodes(u) : Unlocked(u, i) => Unlocked(v, i), RunsUnlocked(u)
                 PROVE  RunsUnlocked(v)
    BY <1>2, <1>3 DEF Keeps
  <2> QED
    BY <2>1, <1>1, <1>4 DEF RunsUnlocked
<1>6. (\A i \in Nodes(u) : v.rule[i] = u.rule[i]) =>
          \A i \in Nodes(u) : Unlocked(u, i) => Unlocked(v, i)
  BY <1>1 DEF Unlocked, Locked
<1> QED
  BY <1>1, <1>2, <1>3, <1>5, <1>6

\* Two edits that keep, one after the other, keep.
LEMMA KeepsIsTransitive ==
    ASSUME NEW u, NEW v, NEW w, Keeps(u, v), Keeps(v, w)
    PROVE  Keeps(u, w)
BY DEF Keeps

\* solve() places the nodes and changes no other field.
LEMMA SolvedFacts ==
    ASSUME NEW u, Struct(u)
    PROVE  /\ Keeps(u, Solved(u)) /\ Nodes(Solved(u)) = Nodes(u)
           /\ Boards(Solved(u)) = Boards(u) /\ Solved(u).rule = u.rule
           /\ Solved(u).items = u.items
<1>1. PICK s : s = Spaces(u)
  OBVIOUS
<1>2. Solved(u) = [u EXCEPT !.space = s]
  BY <1>1 DEF Solved
<1> DEFINE v == [u EXCEPT !.space = s]
<1>3. /\ Fields \subseteq DOMAIN v /\ v.root = u.root /\ v.items = u.items /\ v.axis = u.axis
      /\ v.voids = u.voids /\ v.rule = u.rule /\ v.thick = u.thick
  BY DEF Struct, Fields
<1> HIDE DEF v
<1> QED
  BY <1>2, <1>3, SameRuns DEF v

\* A rule worked out from an anchor, or Fill with none, locks nothing
\* (edit.py _other_driven_anchor and the rules weighed against it).
LEMMA SharingIsDriven ==
    ASSUME NEW u, NEW d, NEW excluded, NEW mm
    PROVE  SharingRule(u, d, excluded, mm).kind = "driven"
BY DEF SharingRule, Fill, Weighted

\* One region's rule is another.
\* v is u with another rule for i.
IsWithRule(u, i, rule, v) ==
    /\ Struct(v) /\ Nodes(v) = Nodes(u) /\ Boards(v) = Boards(u)
    /\ Fields \subseteq DOMAIN v
    /\ v.items = u.items /\ v.axis = u.axis /\ v.root = u.root /\ v.thick = u.thick
    /\ v.voids = u.voids
    /\ v.rule[i] = rule
    /\ \A j \in Nodes(u) : j # i => v.rule[j] = u.rule[j]
    /\ Flat(u) => Flat(v)

\* Giving a region another rule keeps every run unlocked where the rule locks
\* nothing, and where _refuse_last_unlocked lets it pass (CanFix).
LEMMA WithRuleFacts ==
    ASSUME NEW u, Struct(u), NEW i \in Regions(u), NEW rule
    PROVE  /\ IsWithRule(u, i, rule, WithRule(u, i, rule))
           /\ rule.kind # "fixed" => Keeps(u, WithRule(u, i, rule))
           /\ CanFix(u, i) => Keeps(u, WithRule(u, i, rule))
<1> DEFINE v == WithRule(u, i, rule)
<1>1. /\ Fields \subseteq DOMAIN v /\ v.root = u.root /\ v.items = u.items /\ v.axis = u.axis
      /\ v.voids = u.voids /\ v.rule = [u.rule EXCEPT ![i] = rule] /\ v.thick = u.thick
  BY DEF WithRule, Struct, Fields
<1>2. i \in DOMAIN u.rule /\ i \notin Boards(u)
  BY DEF Regions, Nodes
<1> HIDE DEF v
<1>3. /\ DOMAIN v.rule = DOMAIN u.rule /\ v.rule[i] = rule
      /\ \A j \in Nodes(u) : j # i => v.rule[j] = u.rule[j]
  BY <1>1, <1>2
<1>4. /\ Struct(v) /\ Nodes(v) = Nodes(u) /\ Boards(v) = Boards(u)
      /\ Flat(u) => Flat(v)
      /\ (\A j \in Nodes(u) : Unlocked(u, j) => Unlocked(v, j)) => Keeps(u, v)
  BY <1>1, <1>3, SameRuns
<1>5. \A j \in Nodes(u) : j # i => (Unlocked(u, j) <=> Unlocked(v, j))
  BY <1>3, <1>4 DEF Unlocked, Locked
<1>6. rule.kind # "fixed" => Keeps(u, v)
  <2>1. rule.kind # "fixed" => Unlocked(v, i)
    BY <1>2, <1>3, <1>4 DEF Unlocked, Locked
  <2> QED
    BY <2>1, <1>4, <1>5
<1>7. CanFix(u, i) => Keeps(u, v)
  <2>1. CASE Locked(u, i)
    BY <2>1, <1>4, <1>5 DEF Unlocked
  <2>2. CASE CanFix(u, i) /\ ~Locked(u, i)
    <3>1. PICK w \in Range(u.items[RunOf(u, i)]) \ {i} : Unlocked(u, w)
      BY <2>2 DEF CanFix
    <3>2. i \in Nodes(u) \ {u.root}
      BY <2>2 DEF CanFix, Sizable, Regions
    <3>3. RunOf(u, i) \in Divisions(u)
      BY <3>2, PlaceFacts
    <3>4. ASSUME RunsUnlocked(u), NEW d \in Divisions(v)
          PROVE  \E x \in Range(v.items[d]) : Unlocked(v, x)
      <4>1. d \in Divisions(u) /\ v.items[d] = u.items[d] /\ Range(u.items[d]) \subseteq Nodes(u)
        BY <3>4, <1>1, RunFacts DEF Divisions, Struct
      <4>2. CASE d = RunOf(u, i)
        BY <4>1, <4>2, <3>1, <1>5
      <4>3. CASE d # RunOf(u, i)
        <5>1. PICK x \in Range(u.items[d]) : Unlocked(u, x)
          BY <3>4, <4>1 DEF RunsUnlocked
        <5>2. x # i
          BY <5>1, <4>1, <4>3, PlaceFacts
        <5> QED
          BY <5>1, <5>2, <4>1, <1>5
      <4> QED
        BY <4>2, <4>3
    <3> QED
      BY <3>4, <1>4 DEF Keeps, RunsUnlocked
  <2> QED
    BY <2>1, <2>2
<1> QED
  BY <1>1, <1>3, <1>4, <1>6, <1>7 DEF v, IsWithRule

\* There are ids left for a split's nodes.
Room(u) == EnoughIds(Cardinality(Nodes(u)) + 4)

\* While the nodes are fewer than the identifiers, there is a new one.
LEMMA NewIdIsNew ==
    ASSUME NEW used, IsFiniteSet(used), NEW n \in Nat, EnoughIds(n), Cardinality(used) < n
    PROVE  NewId(used) \in Ids \ used
<1>1. ~(Ids \subseteq used)
  <2>1. SUFFICES ASSUME Ids \subseteq used PROVE FALSE
    OBVIOUS
  <2>2. IsFiniteSet(Ids) /\ Cardinality(Ids) <= Cardinality(used)
    BY <2>1, FS_Subset
  <2>3. Cardinality(used) \in Nat /\ Cardinality(Ids) \in Nat
    BY <2>2, FS_CardinalityType
  <2> QED
    BY <2>2, <2>3 DEF EnoughIds
<1> QED
  BY <1>1 DEF NewId

\* Adding one to a finite set.
LEMMA OneMoreNode ==
    ASSUME NEW S, IsFiniteSet(S), NEW x
    PROVE  /\ IsFiniteSet(S \cup {x}) /\ Cardinality(S) \in Nat
           /\ Cardinality(S \cup {x}) \in Nat /\ Cardinality(S \cup {x}) <= Cardinality(S) + 1
BY FS_AddElement, FS_CardinalityType

\* The nodes a split makes are four that were none.
LEMMA NewNodesFacts ==
    ASSUME NEW u, Struct(u), Room(u)
    PROVE  LET new == NewNodes(u)
               S == {new.board, new.low, new.high, new.division}
           IN  /\ S \cap Nodes(u) = {}
               /\ new.board # new.low /\ new.board # new.high /\ new.low # new.high
               /\ new.division \notin {new.board, new.low, new.high}
               /\ IsFiniteSet(Nodes(u) \cup S)
               /\ Cardinality(Nodes(u) \cup S) <= Cardinality(Nodes(u)) + 4
<1> DEFINE N == Nodes(u)
           b == NewId(N)
           l == NewId(N \cup {b})
           h == NewId(N \cup {b, l})
           d == NewId(N \cup {b, l, h})
<1>n. NewNodes(u) = [board |-> b, low |-> l, high |-> h, division |-> d]
  BY DEF NewNodes
<1>0. IsFiniteSet(N) /\ Cardinality(N) \in Nat /\ EnoughIds(Cardinality(N) + 4)
  BY FS_CardinalityType DEF Struct, Room
<1> HIDE DEF N, b, l, h, d
<1>k. PICK n : n = Cardinality(N) + 4
  OBVIOUS
<1>m. n \in Nat /\ EnoughIds(n)
  BY <1>0, <1>k
<1>1. PICK B : B = N \cup {b}
  OBVIOUS
<1>2. PICK L : L = B \cup {l}
  OBVIOUS
<1>3. PICK H : H = L \cup {h}
  OBVIOUS
<1>4. L = N \cup {b, l} /\ H = N \cup {b, l, h} /\ H \cup {d} = N \cup {b, l, h, d}
  BY <1>1, <1>2, <1>3
<1>5. /\ IsFiniteSet(B) /\ Cardinality(N) \in Nat /\ Cardinality(B) \in Nat
      /\ Cardinality(B) <= Cardinality(N) + 1
  BY <1>0, <1>1, OneMoreNode
<1>6. IsFiniteSet(L) /\ Cardinality(L) \in Nat /\ Cardinality(L) <= Cardinality(B) + 1
  BY <1>2, <1>5, OneMoreNode
<1>7. IsFiniteSet(H) /\ Cardinality(H) \in Nat /\ Cardinality(H) <= Cardinality(L) + 1
  BY <1>3, <1>6, OneMoreNode
<1>8. /\ IsFiniteSet(H \cup {d}) /\ Cardinality(H \cup {d}) <= Cardinality(H) + 1
      /\ Cardinality(H \cup {d}) \in Nat
  BY <1>7, OneMoreNode
<1>9. b \notin N
  BY <1>0, <1>5, <1>k, <1>m, NewIdIsNew DEF b
<1>10. l \notin B
  BY <1>0, <1>1, <1>5, <1>k, <1>m, NewIdIsNew DEF l
<1>11. h \notin L
  <2>1. h = NewId(L)
    BY <1>4 DEF h
  <2> QED
    BY <2>1, <1>0, <1>5, <1>6, <1>k, <1>m, NewIdIsNew
<1>12. d \notin H
  <2>1. d = NewId(H)
    BY <1>4 DEF d
  <2> QED
    BY <2>1, <1>0, <1>5, <1>6, <1>7, <1>k, <1>m, NewIdIsNew
<1>13. Cardinality(H \cup {d}) <= Cardinality(N) + 4
  BY <1>5, <1>6, <1>7, <1>8
<1>14. /\ {b, l, h, d} \cap N = {} /\ b # l /\ b # h /\ l # h /\ d \notin {b, l, h}
       /\ IsFiniteSet(N \cup {b, l, h, d})
       /\ Cardinality(N \cup {b, l, h, d}) <= Cardinality(N) + 4
  BY <1>1, <1>2, <1>3, <1>4, <1>8, <1>9, <1>10, <1>11, <1>12, <1>13
<1> QED
  BY <1>14, <1>n DEF N

\* The values of one function over another,
LEMMA OverFacts ==
    ASSUME NEW f, NEW g
    PROVE  /\ DOMAIN Over(f, g) = DOMAIN f \cup DOMAIN g
           /\ \A x \in DOMAIN g : Over(f, g)[x] = g[x]
           /\ \A x \in DOMAIN f \ DOMAIN g : Over(f, g)[x] = f[x]
BY DEF Over

\* of a function less some of its arguments,
LEMMA LessFacts ==
    ASSUME NEW f, NEW gone
    PROVE  /\ DOMAIN Less(f, gone) = DOMAIN f \ gone
           /\ \A x \in DOMAIN f \ gone : Less(f, gone)[x] = f[x]
BY DEF Less, Restrict

\* and of a function of one value.
LEMMA SingleFacts ==
    ASSUME NEW i, NEW x
    PROVE  DOMAIN Single(i, x) = {i} /\ Single(i, x)[i] = x
BY DEF Single

\* v is u without the nodes `gone'.
IsWithout(u, gone, v) ==
    /\ Fields \subseteq DOMAIN v /\ v.root = u.root
    /\ Nodes(v) = Nodes(u) \ gone /\ Boards(v) = Boards(u) \ gone
    /\ Divisions(v) = Divisions(u) \ gone /\ DOMAIN v.axis = DOMAIN u.axis \ gone
    /\ v.voids = u.voids \ gone
    /\ \A i \in Nodes(v) : v.rule[i] = u.rule[i]
    /\ \A d \in Divisions(v) : v.items[d] = u.items[d]
    /\ \A d \in DOMAIN v.axis : v.axis[d] = u.axis[d]

\* Without takes the nodes away and nothing else.
LEMMA WithoutFacts ==
    ASSUME NEW u, Fields \subseteq DOMAIN u, NEW gone
    PROVE  IsWithout(u, gone, Without(u, gone))
<1> DEFINE v == Without(u, gone)
<1>1. /\ Fields \subseteq DOMAIN v /\ v.root = u.root /\ v.rule = Less(u.rule, gone)
      /\ v.items = Less(u.items, gone) /\ v.axis = Less(u.axis, gone)
      /\ v.thick = Less(u.thick, gone) /\ v.voids = u.voids \ gone
  BY DEF Without, Fields
<1> HIDE DEF v
<1>2. DOMAIN v.rule = DOMAIN u.rule \ gone /\ \A x \in DOMAIN v.rule : v.rule[x] = u.rule[x]
  <2>1. PICK f : f = u.rule
    OBVIOUS
  <2>2. /\ DOMAIN Less(f, gone) = DOMAIN f \ gone
        /\ \A x \in DOMAIN f \ gone : Less(f, gone)[x] = f[x]
    BY LessFacts
  <2>3. PICK g : g = Less(f, gone)
    OBVIOUS
  <2>4. v.rule = g /\ DOMAIN g = DOMAIN f \ gone /\ \A x \in DOMAIN f \ gone : g[x] = f[x]
    BY <1>1, <2>1, <2>2, <2>3
  <2> QED
    BY <2>1, <2>4
<1>3. DOMAIN v.items = DOMAIN u.items \ gone /\ \A x \in DOMAIN v.items : v.items[x] = u.items[x]
  <2>1. PICK f : f = u.items
    OBVIOUS
  <2>2. /\ DOMAIN Less(f, gone) = DOMAIN f \ gone
        /\ \A x \in DOMAIN f \ gone : Less(f, gone)[x] = f[x]
    BY LessFacts
  <2>3. PICK g : g = Less(f, gone)
    OBVIOUS
  <2>4. v.items = g /\ DOMAIN g = DOMAIN f \ gone /\ \A x \in DOMAIN f \ gone : g[x] = f[x]
    BY <1>1, <2>1, <2>2, <2>3
  <2> QED
    BY <2>1, <2>4
<1>4. DOMAIN v.axis = DOMAIN u.axis \ gone /\ \A x \in DOMAIN v.axis : v.axis[x] = u.axis[x]
  <2>1. PICK f : f = u.axis
    OBVIOUS
  <2>2. /\ DOMAIN Less(f, gone) = DOMAIN f \ gone
        /\ \A x \in DOMAIN f \ gone : Less(f, gone)[x] = f[x]
    BY LessFacts
  <2>3. PICK g : g = Less(f, gone)
    OBVIOUS
  <2>4. v.axis = g /\ DOMAIN g = DOMAIN f \ gone /\ \A x \in DOMAIN f \ gone : g[x] = f[x]
    BY <1>1, <2>1, <2>2, <2>3
  <2> QED
    BY <2>1, <2>4
<1>5. DOMAIN v.thick = DOMAIN u.thick \ gone /\ \A x \in DOMAIN v.thick : v.thick[x] = u.thick[x]
  <2>1. PICK f : f = u.thick
    OBVIOUS
  <2>2. /\ DOMAIN Less(f, gone) = DOMAIN f \ gone
        /\ \A x \in DOMAIN f \ gone : Less(f, gone)[x] = f[x]
    BY LessFacts
  <2>3. PICK g : g = Less(f, gone)
    OBVIOUS
  <2>4. v.thick = g /\ DOMAIN g = DOMAIN f \ gone /\ \A x \in DOMAIN f \ gone : g[x] = f[x]
    BY <1>1, <2>1, <2>2, <2>3
  <2> QED
    BY <2>1, <2>4
<1> QED
  BY <1>1, <1>2, <1>3, <1>4, <1>5 DEF Nodes, Boards, Divisions, IsWithout, v

\* w has the nodes of a split of r, before they have their place in a run.
HalfDone(u, w, r, b, l, h, half) ==
    /\ Fields \subseteq DOMAIN w /\ w.root = u.root
    /\ Nodes(w) = (Nodes(u) \ {r}) \cup {b, l, h}
    /\ Boards(w) = Boards(u) \cup {b}
    /\ Divisions(w) = Divisions(u) /\ DOMAIN w.axis = Divisions(u)
    /\ w.voids = u.voids
    /\ w.rule[l] = half /\ w.rule[h] = half /\ w.rule[b] = Own
    /\ \A i \in Nodes(u) \ {r} : w.rule[i] = u.rule[i]
    /\ \A d \in Divisions(u) : w.items[d] = u.items[d] /\ w.axis[d] = u.axis[d]

\* Halved makes what HalfDone says.
LEMMA HalvedFacts ==
    ASSUME NEW u, Struct(u), NEW r \in Bays(u), NEW a, NEW half, NEW new, NEW b, NEW l, NEW h,
           b = new.board, l = new.low, h = new.high,
           {b, l, h} \cap Nodes(u) = {}, b # l, b # h, l # h
    PROVE  HalfDone(u, Halved(u, r, a, new, half), r, b, l, h, half)
<1> DEFINE
           thick == Over(u.thick, Single(b, u.thick[SourceBoard(u, r, a)]))
           g == [i \in {b, l, h} |-> IF i = b THEN Own ELSE half]
           rule == Over(u.rule, g)
           x == [u EXCEPT !.thick = thick, !.rule = rule]
           v == Halved(u, r, a, new, half)
<1>1. v = Without(x, {r})
  BY DEF Halved
<1>2. DOMAIN g = {b, l, h} /\ g[b] = Own /\ g[l] = half /\ g[h] = half
  OBVIOUS
<1>3. DOMAIN thick = DOMAIN u.thick \cup {b}
  <2>1. PICK f : f = u.thick
    OBVIOUS
  <2>2. PICK y : y = u.thick[SourceBoard(u, r, a)]
    OBVIOUS
  <2>3. DOMAIN Over(f, Single(b, y)) = DOMAIN f \cup {b}
    <3>1. PICK s : s = Single(b, y)
      OBVIOUS
    <3>2. DOMAIN s = {b}
      BY <3>1, SingleFacts
    <3>3. DOMAIN Over(f, s) = DOMAIN f \cup DOMAIN s
      BY OverFacts
    <3> QED
      BY <3>1, <3>2, <3>3
  <2> QED
    BY <2>1, <2>2, <2>3
<1> HIDE DEF g, thick
<1>4. /\ DOMAIN rule = DOMAIN u.rule \cup {b, l, h}
      /\ rule[b] = Own /\ rule[l] = half /\ rule[h] = half
      /\ \A i \in DOMAIN u.rule \ {b, l, h} : rule[i] = u.rule[i]
  <2>1. PICK f : f = u.rule
    OBVIOUS
  <2>2. /\ DOMAIN Over(f, g) = DOMAIN f \cup DOMAIN g
        /\ \A y \in DOMAIN g : Over(f, g)[y] = g[y]
        /\ \A y \in DOMAIN f \ DOMAIN g : Over(f, g)[y] = f[y]
    BY OverFacts
  <2> QED
    BY <2>1, <2>2, <1>2
<1> HIDE DEF rule
<1>5. /\ Fields \subseteq DOMAIN x /\ x.root = u.root /\ x.items = u.items /\ x.axis = u.axis
      /\ x.voids = u.voids /\ x.rule = rule /\ x.thick = thick
  BY DEF Struct, Fields
<1> HIDE DEF x, v
<1>6. /\ Fields \subseteq DOMAIN v /\ v.root = x.root
      /\ Nodes(v) = Nodes(x) \ {r} /\ Boards(v) = Boards(x) \ {r}
      /\ Divisions(v) = Divisions(x) \ {r} /\ DOMAIN v.axis = DOMAIN x.axis \ {r}
      /\ v.voids = x.voids \ {r}
      /\ \A i \in Nodes(v) : v.rule[i] = x.rule[i]
      /\ \A d \in Divisions(v) : v.items[d] = x.items[d]
      /\ \A d \in DOMAIN v.axis : v.axis[d] = x.axis[d]
  <2>1. IsWithout(x, {r}, v)
    BY <1>1, <1>5, WithoutFacts
  <2> QED
    BY <2>1 DEF IsWithout
<1>7. /\ r \in Nodes(u) /\ r \notin Boards(u) /\ r \notin Divisions(u) /\ r \notin u.voids
      /\ r # b /\ r # l /\ r # h
  BY DEF Bays, Regions
<1>8. DOMAIN u.axis = Divisions(u) /\ Divisions(u) = DOMAIN u.items
  BY DEF Struct, Divisions
<1>9. Nodes(v) = (Nodes(u) \ {r}) \cup {b, l, h} /\ Boards(v) = Boards(u) \cup {b}
  BY <1>3, <1>4, <1>5, <1>6, <1>7 DEF Nodes, Boards
<1>10. Divisions(v) = Divisions(u) /\ DOMAIN v.axis = Divisions(u)
  BY <1>5, <1>6, <1>7, <1>8 DEF Divisions
<1>11. v.voids = u.voids /\ v.root = u.root /\ Fields \subseteq DOMAIN v
  BY <1>5, <1>6, <1>7
<1>12. v.rule[l] = half /\ v.rule[h] = half /\ v.rule[b] = Own
  BY <1>4, <1>5, <1>6, <1>9
<1>13. \A i \in Nodes(u) \ {r} : v.rule[i] = u.rule[i]
  BY <1>4, <1>5, <1>6, <1>9 DEF Nodes
<1>14. \A d \in Divisions(u) : v.items[d] = u.items[d] /\ v.axis[d] = u.axis[d]
  BY <1>5, <1>6, <1>10
<1> QED
  BY <1>9, <1>10, <1>11, <1>12, <1>13, <1>14 DEF v, HalfDone

\* The run of a fresh division: low half, board, high half.
LEMMA ThreeFacts ==
    ASSUME NEW S, NEW l \in S, NEW b \in S, NEW h \in S, b # l, b # h, l # h
    PROVE  /\ <<l, b, h>> \in Seq(S) /\ IsInjective(<<l, b, h>>) /\ Len(<<l, b, h>>) = 3
           /\ Range(<<l, b, h>>) = {l, b, h}
<1>1. /\ <<l, b, h>> \in Seq(S) /\ Len(<<l, b, h>>) = 3 /\ DOMAIN <<l, b, h>> = 1 .. 3
      /\ <<l, b, h>>[1] = l /\ <<l, b, h>>[2] = b /\ <<l, b, h>>[3] = h
  OBVIOUS
<1>2. PICK s : s = <<l, b, h>>
  OBVIOUS
<1>3. /\ s \in Seq(S) /\ Len(s) = 3 /\ DOMAIN s = 1 .. 3 /\ s[1] = l /\ s[2] = b /\ s[3] = h
  BY <1>1, <1>2
<1>4. \A x \in 1 .. 3 : x = 1 \/ x = 2 \/ x = 3
  OBVIOUS
<1>5. IsInjective(s)
  BY <1>3, <1>4 DEF IsInjective
<1>6. Range(s) = {l, b, h}
  <2>1. \A x \in DOMAIN s : s[x] \in {l, b, h}
    BY <1>3, <1>4
  <2>2. l \in Range(s) /\ b \in Range(s) /\ h \in Range(s)
    BY <1>3 DEF Range
  <2> QED
    BY <2>1, <2>2 DEF Range
<1> QED
  BY <1>2, <1>3, <1>5, <1>6

\* Three nodes are finitely many.
LEMMA FinitePlusThree ==
    ASSUME NEW x, NEW y, NEW z
    PROVE  IsFiniteSet({x, y, z})
<1>1. IsFiniteSet({x}) /\ IsFiniteSet({y}) /\ IsFiniteSet({z})
  BY FS_Singleton
<1>2. IsFiniteSet({x} \cup {y})
  BY <1>1, FS_Union
<1>3. IsFiniteSet(({x} \cup {y}) \cup {z})
  BY <1>1, <1>2, FS_Union
<1>4. ({x} \cup {y}) \cup {z} = {x, y, z}
  OBVIOUS
<1> QED
  BY <1>3, <1>4

\* Where a node of a run is, and what is in the rest of it.
LEMMA RunWithout ==
    ASSUME NEW S, NEW s, IsRun(s, S), NEW k \in 1 .. Len(s), NEW t \in Seq(S), IsInjective(t),
           Range(t) \cap Range(s) \subseteq {s[k]}
    PROVE  /\ IsRun(Splice(s, k, 1, t), S) \/ Len(t) = 0
           /\ Splice(s, k, 1, t) \in Seq(S) /\ IsInjective(Splice(s, k, 1, t))
           /\ Range(Splice(s, k, 1, t)) = (Range(s) \ {s[k]}) \cup Range(t)
<1>1. /\ DOMAIN s = 1 .. Len(s) /\ Len(s) \in Nat /\ \A x \in 1 .. Len(s) : s[x] \in Range(s)
      /\ s \in Seq(S) /\ IsInjective(s)
  BY RunFacts DEF IsRun
<1>2. ASSUME NEW x \in 1 .. Len(s), s[x] = s[k] PROVE x = k
  BY <1>1, <1>2 DEF IsInjective
<1>3. k + 1 - 1 <= Len(s) /\ k .. k + 1 - 1 = {k}
  BY <1>1
<1>4. \A x \in 1 .. Len(s) : s[x] \in Range(t) => x \in k .. k + 1 - 1
  BY <1>1, <1>2, <1>3
<1>5. PICK n \in Nat : n = 1
  OBVIOUS
<1>a. k + n - 1 <= Len(s) /\ \A x \in 1 .. Len(s) : s[x] \in Range(t) => x \in k .. k + n - 1
  BY <1>3, <1>4, <1>5
<1> HIDE <1>5
<1>6. /\ Splice(s, k, n, t) \in Seq(S) /\ IsInjective(Splice(s, k, n, t))
      /\ Len(Splice(s, k, n, t)) = Len(s) - n + Len(t)
      /\ Range(Splice(s, k, n, t)) =
            {s[x] : x \in (1 .. Len(s)) \ (k .. k + n - 1)} \cup Range(t)
  BY <1>1, <1>a, SpliceFacts
<1>7. {s[x] : x \in (1 .. Len(s)) \ {k}} = Range(s) \ {s[k]}
  BY <1>1, <1>2 DEF Range
<1>8. PICK v : v = Splice(s, k, 1, t)
  OBVIOUS
<1>9. /\ v \in Seq(S) /\ IsInjective(v) /\ Len(v) = Len(s) - 1 + Len(t)
      /\ Range(v) = (Range(s) \ {s[k]}) \cup Range(t)
  BY <1>3, <1>5, <1>6, <1>7, <1>8
<1>10. Len(t) \in Nat /\ Len(v) \in Nat
  BY <1>9, LenProperties
<1>11. Len(t) # 0 => v # << >>
  BY <1>1, <1>9, <1>10, EmptySeq
<1> QED
  BY <1>8, <1>9, <1>11 DEF IsRun

\* The layout w with the members t in r's place.
Along(u, w, r, t) ==
    [w EXCEPT !.items[RunOf(u, r)] = Splice(@, PlaceOf(u, r), 1, t)]

\* A split along the run: the halves and the board between them take r's place.
LEMMA SplitAlong ==
    ASSUME NEW u, Struct(u), NEW r \in Bays(u), r # u.root, NEW b, NEW l, NEW h,
           {b, l, h} \cap Nodes(u) = {}, b # l, b # h, l # h, NEW half, NEW w,
           HalfDone(u, w, r, b, l, h, half), half.kind = "fixed" => Locked(u, r)
    PROVE  LET v == Along(u, w, r, <<l, b, h>>)
           IN  Keeps(u, v) /\ Nodes(v) = Nodes(w)
<1> DEFINE d == RunOf(u, r)
           k == PlaceOf(u, r)
           s == u.items[d]
           new == Splice(s, k, 1, <<l, b, h>>)
           v == [w EXCEPT !.items[d] = Splice(@, k, 1, <<l, b, h>>)]
<1>1. /\ r \in Nodes(u) \ {u.root} /\ r \notin Boards(u) /\ r \notin Divisions(u)
      /\ r \notin u.voids
  BY DEF Bays, Regions
<1>2. d \in Divisions(u) /\ k \in 1 .. Len(s) /\ s[k] = r
  BY <1>1, PlaceFacts
<1> HIDE DEF d, k
<1>3. w.items[d] = s /\ d \in DOMAIN w.items
  BY <1>2 DEF HalfDone, Divisions
<1>4. /\ Fields \subseteq DOMAIN v /\ v.root = u.root /\ v.rule = w.rule /\ v.thick = w.thick
      /\ v.axis = w.axis /\ v.voids = u.voids /\ v.items = [w.items EXCEPT ![d] = new]
  BY <1>3 DEF HalfDone, Fields
<1>v. v = Along(u, w, r, <<l, b, h>>)
  BY DEF Along, d, k
<1> HIDE DEF v, new
<1>5. /\ Nodes(v) = (Nodes(u) \ {r}) \cup {b, l, h} /\ Boards(v) = Boards(u) \cup {b}
      /\ Divisions(v) = Divisions(u) /\ DOMAIN v.axis = Divisions(u) /\ v.items[d] = new
      /\ \A e \in Divisions(u) : e # d => v.items[e] = u.items[e]
      /\ \A e \in Divisions(u) : v.axis[e] = u.axis[e]
      /\ Nodes(v) = Nodes(w)
  BY <1>3, <1>4 DEF HalfDone, Nodes, Boards, Divisions
<1>6. u.root \in Regions(u) /\ Boards(u) \subseteq Nodes(u) /\ Divisions(u) \subseteq Regions(u)
  BY DEF Struct
<1>7. IsRun(s, Nodes(u) \ {u.root})
  BY <1>2 DEF Struct
<1>8. ASSUME NEW e \in Divisions(u)
      PROVE  IsRun(u.items[e], Nodes(u) \ {u.root}) /\ Range(u.items[e]) \subseteq Nodes(u) \ {u.root}
  <2>1. PICK t : t = u.items[e]
    OBVIOUS
  <2>2. IsRun(t, Nodes(u) \ {u.root})
    BY <1>8, <2>1 DEF Struct
  <2>3. Range(t) \subseteq Nodes(u) \ {u.root}
    BY <2>2, RunFacts
  <2> QED
    BY <2>1, <2>2, <2>3
<1>9. r \in Range(s) /\ \A e \in Divisions(u) : e # d => r \notin Range(u.items[e])
  <2>1. r \in Range(s)
    BY <1>2, <1>7, RunFacts
  <2> QED
    BY <2>1, <1>2 DEF Struct
<1>10. /\ IsRun(new, Nodes(v) \ {u.root})
       /\ Range(new) = (Range(s) \ {r}) \cup {l, b, h}
  <2> DEFINE S == (Nodes(u) \cup {b, l, h}) \ {u.root}
  <2>1. l \in S /\ b \in S /\ h \in S /\ Nodes(u) \ {u.root} \subseteq S
    BY <1>6 DEF Regions
  <2>2. IsRun(s, S)
    BY <1>7, <2>1 DEF IsRun
  <2>3. /\ <<l, b, h>> \in Seq(S) /\ IsInjective(<<l, b, h>>) /\ Len(<<l, b, h>>) = 3
        /\ Range(<<l, b, h>>) = {l, b, h}
    <3> HIDE DEF S
    <3> QED
      BY <2>1, ThreeFacts
  <2>4. Range(<<l, b, h>>) \cap Range(s) \subseteq {s[k]}
    BY <2>3, <1>2, <1>8
  <2> HIDE DEF S
  <2>5. /\ IsRun(new, S) \/ Len(<<l, b, h>>) = 0
        /\ Range(new) = (Range(s) \ {s[k]}) \cup Range(<<l, b, h>>)
    <3>1. PICK t : t = <<l, b, h>>
      OBVIOUS
    <3>2. /\ t \in Seq(S) /\ IsInjective(t) /\ Range(t) \cap Range(s) \subseteq {s[k]}
          /\ k \in 1 .. Len(s)
      BY <3>1, <2>3, <2>4, <1>2
    <3>3. PICK q : q = s
      OBVIOUS
    <3>4. /\ IsRun(q, S) /\ t \in Seq(S) /\ IsInjective(t)
          /\ Range(t) \cap Range(q) \subseteq {q[k]} /\ k \in 1 .. Len(q)
      BY <3>2, <3>3, <2>2
    <3>5. /\ IsRun(Splice(q, k, 1, t), S) \/ Len(t) = 0
          /\ Range(Splice(q, k, 1, t)) = (Range(q) \ {q[k]}) \cup Range(t)
      BY <3>4, RunWithout
    <3>6. new = Splice(q, k, 1, t)
      BY <3>1, <3>3 DEF new
    <3> QED
      BY <3>1, <3>3, <3>5, <3>6
  <2>6. IsRun(new, S) /\ Range(new) = (Range(s) \ {r}) \cup {l, b, h}
    BY <2>3, <2>5, <1>2
  <2>7. Range(new) \subseteq Nodes(v) \ {u.root}
    BY <2>6, <2>1, <1>1, <1>2, <1>5, <1>8 DEF S
  <2>8. \A x \in 1 .. Len(new) : new[x] \in Nodes(v) \ {u.root}
    BY <2>6, <2>7, RunFacts
  <2>9. new \in Seq(Nodes(v) \ {u.root})
    BY <2>6, <2>8, RunFacts DEF IsRun
  <2> QED
    BY <2>6, <2>9 DEF IsRun
<1>11. ASSUME NEW e \in Divisions(u)
       PROVE  /\ IsRun(v.items[e], Nodes(v) \ {v.root})
              /\ e # d => Range(v.items[e]) \subseteq Nodes(u) \ {r}
  <2>1. CASE e = d
    BY <2>1, <1>4, <1>5, <1>10
  <2>2. CASE e # d
    <3>1. v.items[e] = u.items[e] /\ Range(u.items[e]) \subseteq Nodes(v) \ {u.root}
      BY <2>2, <1>5, <1>8, <1>9
    <3>2. \A x \in 1 .. Len(u.items[e]) : u.items[e][x] \in Nodes(v) \ {u.root}
      BY <3>1, <1>8, RunFacts
    <3>3. u.items[e] \in Seq(Nodes(v) \ {u.root})
      BY <3>2, <1>8, RunFacts DEF IsRun
    <3> QED
      BY <2>2, <3>1, <3>3, <1>4, <1>8, <1>9 DEF IsRun
  <2> QED
    BY <2>1, <2>2
<1>12. \A i \in Nodes(v) \ {v.root} : \E e \in Divisions(v) : i \in Range(v.items[e])
  <2>1. SUFFICES ASSUME NEW i \in Nodes(v) \ {u.root}
                 PROVE  \E e \in Divisions(u) : i \in Range(v.items[e])
    BY <1>4, <1>5
  <2>2. CASE i \in {b, l, h}
    BY <2>2, <1>2, <1>5, <1>10
  <2>3. CASE i \in Nodes(u) \ {r}
    <3>1. PICK e \in Divisions(u) : i \in Range(u.items[e])
      BY <2>1, <2>3 DEF Struct
    <3> QED
      BY <3>1, <2>3, <1>5, <1>10
  <2> QED
    BY <2>1, <2>2, <2>3, <1>5
<1>13. \A e, f \in Divisions(v) : e # f => Range(v.items[e]) \cap Range(v.items[f]) = {}
  <2>1. \A e, f \in Divisions(u) : e # f => Range(u.items[e]) \cap Range(u.items[f]) = {}
    BY DEF Struct
  <2>2. \A f \in Divisions(u) : f # d => Range(new) \cap Range(u.items[f]) = {}
    BY <2>1, <1>2, <1>8, <1>10
  <2> QED
    BY <2>1, <2>2, <1>5
<1>14. \E rank : Ranks(v, rank)
  <2>1. PICK rank : Ranks(u, rank)
    BY DEF Struct
  <2> DEFINE mine == [i \in Nodes(v) |-> IF i \in {b, l, h} THEN rank[r] ELSE rank[i]]
  <2>2. rank \in [Nodes(u) -> Nat]
        /\ \A e \in Divisions(u) : \A i \in Range(u.items[e]) : rank[e] < rank[i]
    BY <2>1 DEF Ranks
  <2>3. mine \in [Nodes(v) -> Nat]
    BY <2>2, <1>1, <1>5
  <2>4. \A e \in Divisions(u) : mine[e] = rank[e]
    BY <1>1, <1>5, <1>6 DEF Regions
  <2>5. \A i \in Nodes(u) \ {r} : mine[i] = rank[i]
    BY <1>5
  <2>6. mine[b] = rank[r] /\ mine[l] = rank[r] /\ mine[h] = rank[r]
    BY <1>5
  <2> HIDE DEF mine
  <2>7. ASSUME NEW e \in Divisions(u), NEW i \in Range(v.items[e]) PROVE mine[e] < mine[i]
    <3>1. CASE i \in {b, l, h}
      <4>1. e = d
        BY <3>1, <2>7, <1>11
      <4>2. rank[d] < rank[r]
        BY <2>2, <1>2, <1>9
      <4> QED
        BY <4>1, <4>2, <2>4, <2>6, <3>1
    <3>2. CASE i \notin {b, l, h}
      <4>1. i \in Range(u.items[e]) /\ i # r /\ i \in Nodes(u)
        BY <3>2, <2>7, <1>5, <1>8, <1>9, <1>10
      <4> QED
        BY <4>1, <2>2, <2>4, <2>5
    <3> QED
      BY <3>1, <3>2
  <2> QED
    BY <2>3, <2>7, <1>5 DEF Ranks
<1>15. Struct(v)
  <2>1. IsFiniteSet(Nodes(v))
    <3>1. IsFiniteSet(Nodes(u)) /\ IsFiniteSet({b, l, h})
      BY FinitePlusThree DEF Struct
    <3>2. IsFiniteSet(Nodes(u) \cup {b, l, h}) /\ Nodes(v) \subseteq Nodes(u) \cup {b, l, h}
      BY <3>1, <1>5, FS_Union
    <3> QED
      BY <3>2, FS_Subset
  <2>2. /\ Boards(v) \subseteq Nodes(v) /\ Divisions(v) \subseteq Regions(v)
        /\ v.root \in Regions(v) /\ v.voids \subseteq Regions(v) \ Divisions(v)
    <3>1. u.voids \subseteq Regions(u) \ Divisions(u)
      BY DEF Struct
    <3> QED
      BY <3>1, <1>1, <1>4, <1>5, <1>6 DEF Regions
  <2>3. \A e \in Divisions(v) : IsRun(v.items[e], Nodes(v) \ {v.root})
    BY <1>5, <1>11
  <2> QED
    BY <2>1, <2>2, <2>3, <1>4, <1>5, <1>12, <1>13, <1>14 DEF Struct
<1>16. Flat(u) => Flat(v)
  <2>1. \A e, f \in Divisions(u) : e \in Range(v.items[f]) => e \in Range(u.items[f])
    BY <1>1, <1>5, <1>6, <1>10 DEF Regions
  <2> QED
    BY <2>1, <1>5 DEF Flat
<1>17. RunsUnlocked(u) => RunsUnlocked(v)
  <2>1. \A i \in Nodes(u) \ {r} : Unlocked(u, i) => Unlocked(v, i)
    <3>1. \A i \in Nodes(u) \ {r} : v.rule[i] = u.rule[i] /\ (i \in Boards(v) <=> i \in Boards(u))
      BY <1>4, <1>5 DEF HalfDone
    <3> QED
      BY <3>1 DEF Unlocked, Locked
  <2>2. SUFFICES ASSUME RunsUnlocked(u), NEW e \in Divisions(u)
                 PROVE  \E i \in Range(v.items[e]) : Unlocked(v, i)
    BY <1>5 DEF RunsUnlocked
  <2>3. PICK i \in Range(u.items[e]) : Unlocked(u, i)
    BY <2>2 DEF RunsUnlocked
  <2>4. i \in Nodes(u)
    BY <2>3, <1>8
  <2>5. CASE i # r
    <3>1. i \in Range(v.items[e])
      BY <2>3, <2>5, <1>5, <1>10
    <3>2. Unlocked(v, i)
      BY <2>1, <2>3, <2>4, <2>5
    <3> QED
      BY <3>1, <3>2
  <2>6. CASE i = r
    <3>1. half.kind # "fixed" /\ e = d
      BY <2>3, <2>6, <1>9 DEF Unlocked
    <3>2. v.rule[l] = half /\ l \notin Boards(v)
      BY <1>4, <1>5, <1>6 DEF HalfDone
    <3>3. Unlocked(v, l) /\ l \in Range(v.items[e])
      BY <3>1, <3>2, <1>5, <1>10 DEF Unlocked, Locked
    <3> QED
      BY <3>3
  <2> QED
    BY <2>5, <2>6
<1>18. Keeps(u, v) /\ Nodes(v) = Nodes(w)
  BY <1>5, <1>15, <1>16, <1>17 DEF Keeps
<1> QED
  BY <1>18, <1>v

\* v is the run s with the member x in place k.
Replaces(v, s, k, x) == v = [s EXCEPT ![k] = x]

\* A run stays one when another node takes a member's place.
LEMMA ReplacedRun ==
    ASSUME NEW S, NEW s, IsRun(s, S), NEW k \in 1 .. Len(s), NEW x \in S, x \notin Range(s),
           NEW v, Replaces(v, s, k, x)
    PROVE  IsRun(v, S) /\ Range(v) = (Range(s) \ {s[k]}) \cup {x}
<1>1. /\ DOMAIN s = 1 .. Len(s) /\ Len(s) \in Nat /\ s \in Seq(S) /\ IsInjective(s)
      /\ Range(s) \subseteq S /\ \A y \in 1 .. Len(s) : s[y] \in Range(s)
  BY RunFacts DEF IsRun
<1>2. /\ v \in Seq(S) /\ Len(v) = Len(s) /\ DOMAIN v = 1 .. Len(s)
      /\ v[k] = x /\ \A y \in 1 .. Len(s) : y # k => v[y] = s[y]
  BY <1>1, ExceptSeq DEF Replaces
<1>3. IsInjective(v)
  <2>1. SUFFICES ASSUME NEW y \in 1 .. Len(s), NEW z \in 1 .. Len(s), v[y] = v[z]
                 PROVE  y = z
    BY <1>2 DEF IsInjective
  <2>2. CASE y # k /\ z # k
    BY <2>1, <2>2, <1>1, <1>2 DEF IsInjective
  <2>3. CASE y = k \/ z = k
    BY <2>1, <2>3, <1>1, <1>2
  <2> QED
    BY <2>2, <2>3
<1>4. v # << >>
  BY <1>1, <1>2, EmptySeq, RunFacts
<1>5. Range(v) = (Range(s) \ {s[k]}) \cup {x}
  <2>1. ASSUME NEW y \in 1 .. Len(s) PROVE v[y] \in (Range(s) \ {s[k]}) \cup {x}
    <3>1. CASE y = k
      BY <3>1, <1>2
    <3>2. CASE y # k
      <4>1. s[y] # s[k]
        BY <3>2, <1>1 DEF IsInjective
      <4> QED
        BY <3>2, <4>1, <1>1, <1>2
    <3> QED
      BY <3>1, <3>2
  <2>2. ASSUME NEW y \in 1 .. Len(s), s[y] # s[k] PROVE s[y] \in Range(v)
    <3>1. y # k /\ v[y] = s[y] /\ y \in DOMAIN v
      BY <2>2, <1>2
    <3> QED
      BY <3>1 DEF Range
  <2>3. x \in Range(v)
    BY <1>2 DEF Range
  <2> QED
    BY <2>1, <2>2, <2>3, <1>1, <1>2 DEF Range
<1> QED
  BY <1>2, <1>3, <1>4, <1>5 DEF IsRun

\* The layout w with a division n in r's place, its axis a and its run t.
Across(u, w, r, a, n, t) ==
    [w EXCEPT !.rule = Over(@, Single(n, u.rule[r])),
              !.items = Over([@ EXCEPT ![RunOf(u, r)][PlaceOf(u, r)] = n], Single(n, t)),
              !.axis = Over(@, Single(n, a))]

\* A split across the run: a division n takes r's place, and has the halves
\* and the board between them for its run.
SplitsAcross(u, r, a, b, l, h, n) ==
    /\ r \in Bays(u) /\ r # u.root /\ {b, l, h, n} \cap Nodes(u) = {}
    /\ b # l /\ b # h /\ l # h /\ n \notin {b, l, h}
    /\ u.axis[RunOf(u, r)] # a

\* Such a split keeps the layout, and the new division lies across its run
\* (edit.py split_region, the fresh division).
LEMMA SplitAcross ==
    ASSUME NEW u, Struct(u), NEW r, NEW a, NEW b, NEW l, NEW h, NEW n,
           SplitsAcross(u, r, a, b, l, h, n), NEW half, half.kind # "fixed", NEW w,
           HalfDone(u, w, r, b, l, h, half)
    PROVE  LET v == Across(u, w, r, a, n, <<l, b, h>>)
           IN  Keeps(u, v) /\ Nodes(v) = Nodes(w) \cup {n}
<1> DEFINE d == RunOf(u, r)
           k == PlaceOf(u, r)
           s == u.items[d]
           new == [s EXCEPT ![k] = n]
           rule == Over(w.rule, Single(n, u.rule[r]))
           items == Over([w.items EXCEPT ![d][k] = n], Single(n, <<l, b, h>>))
           axis == Over(w.axis, Single(n, a))
           v == [w EXCEPT !.rule = rule, !.items = items, !.axis = axis]
<1>0. /\ r \in Bays(u) /\ r # u.root /\ {b, l, h, n} \cap Nodes(u) = {}
      /\ b # l /\ b # h /\ l # h /\ n \notin {b, l, h}
      /\ u.axis[d] # a
  BY DEF SplitsAcross
<1>1. /\ r \in Nodes(u) \ {u.root} /\ r \notin Boards(u) /\ r \notin Divisions(u)
      /\ r \notin u.voids
  BY <1>0 DEF Bays, Regions
<1>2. d \in Divisions(u) /\ k \in 1 .. Len(s) /\ s[k] = r
  BY <1>1, PlaceFacts
<1>v. v = Across(u, w, r, a, n, <<l, b, h>>)
  BY DEF Across
<1> HIDE DEF d, k
<1>3. w.items[d] = s /\ d \in DOMAIN w.items
  BY <1>2 DEF HalfDone, Divisions
<1>6. u.root \in Regions(u) /\ Boards(u) \subseteq Nodes(u) /\ Divisions(u) \subseteq Regions(u)
  BY DEF Struct
<1>r. /\ DOMAIN rule = DOMAIN w.rule \cup {n} /\ rule[n] = u.rule[r]
      /\ \A i \in DOMAIN w.rule \ {n} : rule[i] = w.rule[i]
  <2>1. PICK f : f = Single(n, u.rule[r])
    OBVIOUS
  <2>2. DOMAIN f = {n} /\ f[n] = u.rule[r]
    BY <2>1, SingleFacts
  <2>3. PICK g : g = w.rule
    OBVIOUS
  <2>4. /\ DOMAIN Over(g, f) = DOMAIN g \cup DOMAIN f
        /\ \A x \in DOMAIN f : Over(g, f)[x] = f[x]
        /\ \A x \in DOMAIN g \ DOMAIN f : Over(g, f)[x] = g[x]
    BY OverFacts
  <2> QED
    BY <2>1, <2>2, <2>3, <2>4
<1>x. /\ DOMAIN axis = DOMAIN w.axis \cup {n} /\ axis[n] = a
      /\ \A e \in DOMAIN w.axis \ {n} : axis[e] = w.axis[e]
  <2>1. PICK f : f = Single(n, a)
    OBVIOUS
  <2>2. DOMAIN f = {n} /\ f[n] = a
    BY <2>1, SingleFacts
  <2>3. PICK g : g = w.axis
    OBVIOUS
  <2>4. /\ DOMAIN Over(g, f) = DOMAIN g \cup DOMAIN f
        /\ \A x \in DOMAIN f : Over(g, f)[x] = f[x]
        /\ \A x \in DOMAIN g \ DOMAIN f : Over(g, f)[x] = g[x]
    BY OverFacts
  <2> QED
    BY <2>1, <2>2, <2>3, <2>4
<1>i. /\ DOMAIN items = DOMAIN w.items \cup {n} /\ items[n] = <<l, b, h>>
      /\ d # n => items[d] = new
      /\ \A e \in DOMAIN w.items \ {n, d} : items[e] = w.items[e]
  <2>1. PICK f : f = Single(n, <<l, b, h>>)
    OBVIOUS
  <2>2. DOMAIN f = {n} /\ f[n] = <<l, b, h>>
    BY <2>1, SingleFacts
  <2>3. PICK g : g = [w.items EXCEPT ![d][k] = n]
    OBVIOUS
  <2>4. /\ DOMAIN Over(g, f) = DOMAIN g \cup DOMAIN f
        /\ \A x \in DOMAIN f : Over(g, f)[x] = f[x]
        /\ \A x \in DOMAIN g \ DOMAIN f : Over(g, f)[x] = g[x]
    BY OverFacts
  <2>5. PICK c : c = w.items
    OBVIOUS
  <2>6. g = [c EXCEPT ![d] = [c[d] EXCEPT ![k] = n]]
    BY <2>3, <2>5
  <2>7. DOMAIN g = DOMAIN c /\ g[d] = [c[d] EXCEPT ![k] = n]
        /\ \A e \in DOMAIN c \ {d} : g[e] = c[e]
    BY <2>6, <2>5, <1>3
  <2>8. c[d] = s
    BY <2>5, <1>3
  <2>9. items = Over(g, f)
    BY <2>1, <2>3
  <2> HIDE DEF items
  <2> QED
    BY <2>2, <2>4, <2>5, <2>7, <2>8, <2>9, <1>3
<1> HIDE DEF rule, items, axis
<1>4. /\ Fields \subseteq DOMAIN v /\ v.root = u.root /\ v.rule = rule /\ v.thick = w.thick
      /\ v.axis = axis /\ v.voids = u.voids /\ v.items = items
  BY DEF HalfDone, Fields
<1> HIDE DEF v, new
<1>n. /\ n \notin Nodes(u) /\ n \notin Divisions(u) /\ n \notin Boards(u) /\ n # d /\ n # u.root
      /\ n \notin {b, l, h} /\ b \notin Nodes(u) /\ l \notin Nodes(u) /\ h \notin Nodes(u)
      /\ n # r
  BY <1>0, <1>1, <1>2, <1>6 DEF Regions
<1>5. /\ Nodes(v) = (Nodes(u) \ {r}) \cup {b, l, h, n} /\ Boards(v) = Boards(u) \cup {b}
      /\ Divisions(v) = Divisions(u) \cup {n} /\ DOMAIN v.axis = Divisions(u) \cup {n}
      /\ v.items[d] = new /\ v.items[n] = <<l, b, h>> /\ v.axis[n] = a
      /\ \A e \in Divisions(u) : e # d => v.items[e] = u.items[e]
      /\ \A e \in Divisions(u) : v.axis[e] = u.axis[e]
      /\ Nodes(v) = Nodes(w) \cup {n}
  <2>1. Nodes(v) = Nodes(w) \cup {n} /\ Boards(v) = Boards(w)
    BY <1>4, <1>r DEF Nodes, Boards
  <2>2. Divisions(v) = Divisions(w) \cup {n} /\ DOMAIN v.axis = DOMAIN w.axis \cup {n}
    BY <1>4, <1>i, <1>x DEF Divisions
  <2>3. v.items[d] = new /\ v.items[n] = <<l, b, h>> /\ v.axis[n] = a
    BY <1>4, <1>i, <1>x, <1>n
  <2>4. \A e \in Divisions(u) : e # d => v.items[e] = u.items[e]
    BY <1>4, <1>i, <1>n DEF HalfDone, Divisions
  <2>5. \A e \in Divisions(u) : v.axis[e] = u.axis[e]
    BY <1>4, <1>x, <1>n DEF HalfDone, Divisions
  <2> QED
    BY <2>1, <2>2, <2>3, <2>4, <2>5 DEF HalfDone
<1>u. \A i \in Nodes(u) \ {r} : v.rule[i] = u.rule[i]
  BY <1>4, <1>r, <1>n DEF HalfDone, Nodes
<1>8. ASSUME NEW e \in Divisions(u)
      PROVE  IsRun(u.items[e], Nodes(u) \ {u.root}) /\ Range(u.items[e]) \subseteq Nodes(u) \ {u.root}
  <2>1. PICK t : t = u.items[e]
    OBVIOUS
  <2>2. IsRun(t, Nodes(u) \ {u.root})
    BY <1>8, <2>1 DEF Struct
  <2>3. Range(t) \subseteq Nodes(u) \ {u.root}
    BY <2>2, RunFacts
  <2> QED
    BY <2>1, <2>2, <2>3
<1>7. IsRun(s, Nodes(u) \ {u.root})
  BY <1>2, <1>8
<1>9. r \in Range(s) /\ \A e \in Divisions(u) : e # d => r \notin Range(u.items[e])
  <2>1. r \in Range(s)
    BY <1>2, <1>7, RunFacts
  <2> QED
    BY <2>1, <1>2 DEF Struct
<1>10. /\ IsRun(new, Nodes(v) \ {u.root})
       /\ Range(new) = (Range(s) \ {r}) \cup {n}
  <2> DEFINE S == (Nodes(u) \cup {n}) \ {u.root}
  <2>1. n \in S /\ Nodes(u) \ {u.root} \subseteq S
    BY <1>n
  <2>2. IsRun(s, S)
    BY <1>7, <2>1 DEF IsRun
  <2>3. n \notin Range(s)
    BY <1>n, <1>2, <1>8
  <2> HIDE DEF S
  <2>4. PICK q : q = s
    OBVIOUS
  <2>5. /\ IsRun(q, S) /\ k \in 1 .. Len(q) /\ n \in S /\ n \notin Range(q)
        /\ Replaces(new, q, k, n)
    BY <2>1, <2>2, <2>3, <2>4, <1>2 DEF new, Replaces
  <2>6. IsRun(new, S) /\ Range(new) = (Range(q) \ {q[k]}) \cup {n}
    BY <2>5, ReplacedRun
  <2>8. IsRun(new, S) /\ Range(new) = (Range(s) \ {r}) \cup {n}
    BY <2>4, <2>6, <1>2
  <2>9. Range(new) \subseteq Nodes(v) \ {u.root}
    BY <2>8, <1>2, <1>5, <1>8, <1>n
  <2>10. \A x \in 1 .. Len(new) : new[x] \in Nodes(v) \ {u.root}
    BY <2>8, <2>9, RunFacts
  <2>11. new \in Seq(Nodes(v) \ {u.root})
    BY <2>8, <2>10, RunFacts DEF IsRun
  <2> QED
    BY <2>8, <2>11 DEF IsRun
<1>t. /\ IsRun(<<l, b, h>>, Nodes(v) \ {u.root}) /\ Range(<<l, b, h>>) = {l, b, h}
  <2> DEFINE S == Nodes(v) \ {u.root}
  <2>1. l \in S /\ b \in S /\ h \in S
    BY <1>5, <1>6, <1>n DEF Regions
  <2> HIDE DEF S
  <2>2. <<l, b, h>> \in Seq(S) /\ IsInjective(<<l, b, h>>) /\ Range(<<l, b, h>>) = {l, b, h}
    BY <2>1, <1>0, ThreeFacts
  <2>3. <<l, b, h>> # << >>
    OBVIOUS
  <2> QED
    BY <2>2, <2>3 DEF IsRun, S
<1>11. ASSUME NEW e \in Divisions(u)
       PROVE  /\ IsRun(v.items[e], Nodes(v) \ {v.root})
              /\ e # d => Range(v.items[e]) \subseteq Nodes(u) \ {r}
  <2>1. CASE e = d
    BY <2>1, <1>4, <1>5, <1>10
  <2>2. CASE e # d
    <3>1. v.items[e] = u.items[e] /\ Range(u.items[e]) \subseteq Nodes(v) \ {u.root}
      BY <2>2, <1>5, <1>8, <1>9
    <3>2. \A x \in 1 .. Len(u.items[e]) : u.items[e][x] \in Nodes(v) \ {u.root}
      BY <3>1, <1>8, RunFacts
    <3>3. u.items[e] \in Seq(Nodes(v) \ {u.root})
      BY <3>2, <1>8, RunFacts DEF IsRun
    <3> QED
      BY <2>2, <3>1, <3>3, <1>4, <1>8, <1>9 DEF IsRun
  <2> QED
    BY <2>1, <2>2
<1>12. \A i \in Nodes(v) \ {v.root} : \E e \in Divisions(v) : i \in Range(v.items[e])
  <2>1. SUFFICES ASSUME NEW i \in Nodes(v) \ {u.root}
                 PROVE  \E e \in Divisions(u) \cup {n} : i \in Range(v.items[e])
    BY <1>4, <1>5
  <2>2. CASE i \in {b, l, h}
    BY <2>2, <1>5, <1>t
  <2>3. CASE i = n
    BY <2>3, <1>2, <1>5, <1>10
  <2>4. CASE i \in Nodes(u) \ {r}
    <3>1. PICK e \in Divisions(u) : i \in Range(u.items[e])
      BY <2>1, <2>4 DEF Struct
    <3> QED
      BY <3>1, <2>4, <1>5, <1>10
  <2> QED
    BY <2>1, <2>2, <2>3, <2>4, <1>5
<1>13. \A e, f \in Divisions(v) : e # f => Range(v.items[e]) \cap Range(v.items[f]) = {}
  <2>1. \A e, f \in Divisions(u) : e # f => Range(u.items[e]) \cap Range(u.items[f]) = {}
    BY DEF Struct
  <2>2. \A f \in Divisions(u) : f # d => Range(new) \cap Range(u.items[f]) = {}
    BY <2>1, <1>2, <1>8, <1>10, <1>n
  <2>3. \A f \in Divisions(u) : Range(v.items[f]) \cap {l, b, h} = {}
    BY <1>5, <1>8, <1>10, <1>n, <1>2
  <2>4. SUFFICES ASSUME NEW e \in Divisions(u) \cup {n}, NEW f \in Divisions(u) \cup {n}, e # f
                 PROVE  Range(v.items[e]) \cap Range(v.items[f]) = {}
    BY <1>5
  <2>5. CASE e = n
    BY <2>3, <2>4, <2>5, <1>5, <1>t
  <2>6. CASE f = n
    BY <2>3, <2>4, <2>6, <1>5, <1>t
  <2>7. CASE e # n /\ f # n
    BY <2>1, <2>2, <2>4, <2>7, <1>5
  <2> QED
    BY <2>5, <2>6, <2>7
<1>14. \E rank : Ranks(v, rank)
  <2>1. PICK rank : Ranks(u, rank)
    BY DEF Struct
  <2> DEFINE mine == [i \in Nodes(v) |-> IF i \in {b, l, h} THEN rank[r] + 1
                                         ELSE IF i = n THEN rank[r] ELSE rank[i]]
  <2>2. rank \in [Nodes(u) -> Nat]
        /\ \A e \in Divisions(u) : \A i \in Range(u.items[e]) : rank[e] < rank[i]
    BY <2>1 DEF Ranks
  <2>3. mine \in [Nodes(v) -> Nat]
    BY <2>2, <1>1, <1>5
  <2>5. \A i \in Nodes(u) \ {r} : mine[i] = rank[i]
    BY <1>5, <1>n
  <2>4. \A e \in Divisions(u) : mine[e] = rank[e]
    BY <2>5, <1>1, <1>6 DEF Regions
  <2>6. /\ mine[b] = rank[r] + 1 /\ mine[l] = rank[r] + 1 /\ mine[h] = rank[r] + 1
        /\ mine[n] = rank[r] /\ rank[r] \in Nat
    BY <1>1, <1>5, <1>n, <2>2
  <2> HIDE DEF mine
  <2>7. ASSUME NEW e \in Divisions(u), NEW i \in Range(v.items[e]) PROVE mine[e] < mine[i]
    <3>1. CASE i = n
      <4>1. e = d
        BY <3>1, <2>7, <1>11, <1>n
      <4>2. rank[d] < rank[r]
        BY <2>2, <1>2, <1>9
      <4> QED
        BY <4>1, <4>2, <2>4, <2>6, <3>1
    <3>2. CASE i # n
      <4>1. i \in Range(u.items[e]) /\ i # r /\ i \in Nodes(u)
        BY <3>2, <2>7, <1>5, <1>8, <1>9, <1>10
      <4> QED
        BY <4>1, <2>2, <2>4, <2>5
    <3> QED
      BY <3>1, <3>2
  <2>8. ASSUME NEW i \in Range(v.items[n]) PROVE mine[n] < mine[i]
    BY <2>6, <2>8, <1>5, <1>t
  <2> QED
    BY <2>3, <2>7, <2>8, <1>5 DEF Ranks
<1>15. Struct(v)
  <2>1. IsFiniteSet(Nodes(v))
    <3>1. IsFiniteSet(Nodes(u)) /\ IsFiniteSet({b, l, h}) /\ IsFiniteSet({n})
      BY FinitePlusThree, FS_Singleton DEF Struct
    <3>2. IsFiniteSet((Nodes(u) \cup {b, l, h}) \cup {n})
      BY <3>1, FS_Union
    <3>3. Nodes(v) \subseteq (Nodes(u) \cup {b, l, h}) \cup {n}
      BY <1>5
    <3> QED
      BY <3>2, <3>3, FS_Subset
  <2>2. /\ Boards(v) \subseteq Nodes(v) /\ Divisions(v) \subseteq Regions(v)
        /\ v.root \in Regions(v) /\ v.voids \subseteq Regions(v) \ Divisions(v)
    <3>1. u.voids \subseteq Regions(u) \ Divisions(u)
      BY DEF Struct
    <3> QED
      BY <3>1, <1>1, <1>4, <1>5, <1>6, <1>n DEF Regions
  <2>3. \A e \in Divisions(v) : IsRun(v.items[e], Nodes(v) \ {v.root})
    BY <1>4, <1>5, <1>11, <1>t
  <2> QED
    BY <2>1, <2>2, <2>3, <1>4, <1>5, <1>12, <1>13, <1>14 DEF Struct
<1>16. Flat(u) => Flat(v)
  <2>1. SUFFICES ASSUME Flat(u), NEW e \in Divisions(v), NEW f \in Divisions(v),
                        e \in Range(v.items[f])
                 PROVE  v.axis[e] # v.axis[f]
    BY DEF Flat
  <2>2. CASE e = n
    <3>1. f = d
      BY <2>1, <2>2, <1>5, <1>11, <1>n, <1>t
    <3> QED
      BY <2>2, <3>1, <1>0, <1>2, <1>5
  <2>3. CASE e # n
    <3>1. e \in Divisions(u) /\ f # n
      BY <2>1, <2>3, <1>5, <1>6, <1>t, <1>n DEF Regions
    <3>2. f \in Divisions(u) /\ e \in Range(u.items[f])
      BY <2>1, <2>3, <3>1, <1>5, <1>10
    <3> QED
      BY <2>1, <3>1, <3>2, <1>5 DEF Flat
  <2> QED
    BY <2>2, <2>3
<1>17. RunsUnlocked(u) => RunsUnlocked(v)
  <2>1. \A i \in Nodes(u) \ {r} : Unlocked(u, i) => Unlocked(v, i)
    <3>1. \A i \in Nodes(u) \ {r} : v.rule[i] = u.rule[i] /\ (i \in Boards(v) <=> i \in Boards(u))
      BY <1>5, <1>u, <1>n
    <3> QED
      BY <3>1 DEF Unlocked, Locked
  <2>2. SUFFICES ASSUME RunsUnlocked(u), NEW e \in Divisions(u) \cup {n}
                 PROVE  \E i \in Range(v.items[e]) : Unlocked(v, i)
    BY <1>5 DEF RunsUnlocked
  <2>3. CASE e = n
    <3>1. v.rule[l] = half /\ l \notin Boards(v)
      BY <1>0, <1>4, <1>5, <1>6, <1>r, <1>n DEF HalfDone, Nodes, Regions
    <3>2. Unlocked(v, l) /\ l \in Range(v.items[n])
      BY <3>1, <1>5, <1>t DEF Unlocked, Locked
    <3> QED
      BY <2>3, <3>2
  <2>4. CASE e \in Divisions(u)
    <3>1. PICK i \in Range(u.items[e]) : Unlocked(u, i)
      BY <2>2, <2>4 DEF RunsUnlocked
    <3>2. i \in Nodes(u)
      BY <3>1, <2>4, <1>8
    <3>3. CASE i # r
      <4>1. i \in Range(v.items[e])
        BY <3>1, <3>3, <2>4, <1>5, <1>10
      <4>2. Unlocked(v, i)
        BY <2>1, <3>1, <3>2, <3>3
      <4> QED
        BY <4>1, <4>2
    <3>4. CASE i = r
      <4>1. u.rule[r].kind # "fixed" /\ e = d
        BY <3>1, <3>4, <2>4, <1>9 DEF Unlocked, Locked
      <4>2. v.rule[n] = u.rule[r] /\ n \notin Boards(v)
        BY <1>4, <1>5, <1>r, <1>n
      <4>3. Unlocked(v, n) /\ n \in Range(v.items[e])
        BY <4>1, <4>2, <1>5, <1>10 DEF Unlocked, Locked
      <4> QED
        BY <4>3
    <3> QED
      BY <3>3, <3>4
  <2> QED
    BY <2>2, <2>3, <2>4
<1>18. Keeps(u, v) /\ Nodes(v) = Nodes(w) \cup {n}
  BY <1>5, <1>15, <1>16, <1>17 DEF Keeps
<1> HIDE DEF d, k
<1> QED
  BY <1>18, <1>v

\* A split keeps the layout and makes four nodes at most (edit.py split_region).
LEMMA SplitFacts ==
    ASSUME NEW u, Struct(u), Room(u), NEW r, NEW a, CanSplit(u, r, a)
    PROVE  /\ Keeps(u, SplitRegion(u, r, a))
           /\ Cardinality(Nodes(SplitRegion(u, r, a))) <= Cardinality(Nodes(u)) + 4
<1> DEFINE N == Nodes(u)
           new == NewNodes(u)
           b == new.board
           l == new.low
           h == new.high
           n == new.division
           v == SplitRegion(u, r, a)
           along == HalfRule(u, r, HalfMm(u, r, a))
           wa == Halved(u, r, a, new, along)
           wf == Halved(u, r, a, new, Fill)
<1>1. r \in Bays(u) /\ r # u.root
  BY DEF CanSplit
<1>2. new = [board |-> b, low |-> l, high |-> h, division |-> n]
  BY DEF NewNodes
<1>3. /\ {b, l, h, n} \cap N = {} /\ b # l /\ b # h /\ l # h /\ n \notin {b, l, h}
      /\ IsFiniteSet(N \cup {b, l, h, n})
      /\ Cardinality(N \cup {b, l, h, n}) <= Cardinality(N) + 4
  BY NewNodesFacts
<1>v. v = IF u.axis[RunOf(u, r)] = a THEN Along(u, wa, r, <<l, b, h>>)
          ELSE Across(u, wf, r, a, n, <<l, b, h>>)
  BY DEF SplitRegion, Along, Across
<1>c. ASSUME Nodes(v) \subseteq N \cup {b, l, h, n}
      PROVE  Cardinality(Nodes(v)) <= Cardinality(N) + 4
  <2>1. PICK S : S = N \cup {b, l, h, n}
    OBVIOUS
  <2>2. PICK T : T = Nodes(v)
    OBVIOUS
  <2>3. IsFiniteSet(S) /\ T \subseteq S /\ Cardinality(S) <= Cardinality(N) + 4
    BY <2>1, <2>2, <1>3, <1>c
  <2>4. Cardinality(T) <= Cardinality(S) /\ IsFiniteSet(T)
    BY <2>3, FS_Subset
  <2>5. Cardinality(T) \in Nat /\ Cardinality(S) \in Nat /\ Cardinality(N) \in Nat
    BY <2>3, <2>4, FS_CardinalityType DEF Struct
  <2> QED
    BY <2>2, <2>3, <2>4, <2>5
<1> HIDE DEF new, v, wa, wf, along, b, l, h, n
<1>4. ASSUME NEW half PROVE HalfDone(u, Halved(u, r, a, new, half), r, b, l, h, half)
  <2>1. /\ {b, l, h} \cap Nodes(u) = {} /\ b # l /\ b # h /\ l # h
        /\ b = new.board /\ l = new.low /\ h = new.high
    BY <1>3 DEF b, l, h
  <2> QED
    BY <2>1, <1>1, HalvedFacts
<1>5. CASE u.axis[RunOf(u, r)] = a
  <2>1. along.kind = "fixed" => Locked(u, r)
    BY SharingIsDriven DEF along, HalfRule
  <2>2. HalfDone(u, wa, r, b, l, h, along)
    BY <1>4 DEF wa
  <2>4. {b, l, h} \cap Nodes(u) = {} /\ b # l /\ b # h /\ l # h
    BY <1>3
  <2>5. Keeps(u, v) /\ Nodes(v) = Nodes(wa)
    BY <2>1, <2>2, <2>4, <1>1, <1>v, <1>5, SplitAlong
  <2>6. Nodes(v) \subseteq N \cup {b, l, h, n}
    BY <2>2, <2>5 DEF HalfDone
  <2> QED
    BY <2>5, <2>6, <1>c DEF v
<1>6. CASE u.axis[RunOf(u, r)] # a
  <2>1. Fill.kind # "fixed"
    BY DEF Fill, Weighted
  <2>2. HalfDone(u, wf, r, b, l, h, Fill)
    BY <1>4 DEF wf
  <2>5. Keeps(u, v) /\ Nodes(v) = Nodes(wf) \cup {n}
    <3>1. Keeps(u, Across(u, wf, r, a, n, <<l, b, h>>))
          /\ Nodes(Across(u, wf, r, a, n, <<l, b, h>>)) = Nodes(wf) \cup {n}
      <4>1. SplitsAcross(u, r, a, b, l, h, n)
        BY <1>1, <1>3, <1>6 DEF SplitsAcross
      <4>2. PICK w : w = wf
        OBVIOUS
      <4>3. PICK half : half = Fill
        OBVIOUS
      <4>4. half.kind # "fixed" /\ HalfDone(u, w, r, b, l, h, half)
        BY <2>1, <2>2, <4>2, <4>3
      <4>5. Keeps(u, Across(u, w, r, a, n, <<l, b, h>>))
            /\ Nodes(Across(u, w, r, a, n, <<l, b, h>>)) = Nodes(w) \cup {n}
        BY <4>1, <4>4, SplitAcross
      <4> QED
        BY <4>2, <4>5
    <3> QED
      BY <3>1, <1>v, <1>6
  <2>6. Nodes(v) \subseteq N \cup {b, l, h, n}
    BY <2>2, <2>5 DEF HalfDone
  <2> QED
    BY <2>5, <2>6, <1>c DEF v
<1> QED
  BY <1>5, <1>6

\* What SpliceFacts asks for.
SpliceFits(S, s, k, n, t) ==
    /\ s \in Seq(S) /\ t \in Seq(S) /\ k \in 1 .. Len(s) /\ n \in Nat
    /\ k + n - 1 <= Len(s) /\ IsInjective(s) /\ IsInjective(t)
    /\ \A x \in 1 .. Len(s) : s[x] \in Range(t) => x \in k .. k + n - 1

\* What SpliceFacts says of the run v.
SpliceIs(S, s, k, n, t, v) ==
    /\ v \in Seq(S) /\ IsInjective(v) /\ Len(v) = Len(s) - n + Len(t)
    /\ Range(v) = {s[x] : x \in (1 .. Len(s)) \ (k .. k + n - 1)} \cup Range(t)

\* SpliceFacts in these words.
LEMMA SpliceFitted ==
    ASSUME NEW S, NEW s, NEW k, NEW n, NEW t, SpliceFits(S, s, k, n, t)
    PROVE  SpliceIs(S, s, k, n, t, Splice(s, k, n, t))
<1>1. /\ s \in Seq(S) /\ t \in Seq(S) /\ k \in 1 .. Len(s) /\ n \in Nat
      /\ k + n - 1 <= Len(s) /\ IsInjective(s) /\ IsInjective(t)
      /\ \A x \in 1 .. Len(s) : s[x] \in Range(t) => x \in k .. k + n - 1
  BY DEF SpliceFits
<1> QED
  BY <1>1, SpliceFacts, SMTT(40) DEF SpliceIs

\* The three members of a run about its place k, and the run with the middle
\* one and the one after it taken out.
LEMMA JoinedRun ==
    ASSUME NEW S, NEW s, IsRun(s, S), NEW k \in 2 .. Len(s) - 1, NEW q, q = s[k - 1],
           NEW new, new = Splice(s, k - 1, 3, <<q>>)
    PROVE  /\ IsRun(new, S) /\ Range(new) = Range(s) \ {s[k], s[k + 1]}
           /\ s[k] # s[k + 1] /\ s[k] # q /\ s[k + 1] # q
           /\ q \in Range(s) /\ s[k] \in Range(s) /\ s[k + 1] \in Range(s)
           /\ ~(Len(new) > 1) => Range(new) = {q}
<1>1. /\ DOMAIN s = 1 .. Len(s) /\ Len(s) \in Nat /\ s \in Seq(S) /\ IsInjective(s)
      /\ Range(s) \subseteq S /\ \A y \in 1 .. Len(s) : s[y] \in Range(s)
  BY RunFacts DEF IsRun
<1>2. k - 1 \in 1 .. Len(s) /\ k \in 1 .. Len(s) /\ k + 1 \in 1 .. Len(s)
  BY <1>1
<1>3. PICK j \in 1 .. Len(s) : j = k - 1
  BY <1>2
<1>4. PICK n \in Nat : n = 3
  OBVIOUS
<1>5. PICK t : t = <<q>>
  OBVIOUS
<1>6. t \in Seq(S) /\ IsInjective(t) /\ Range(t) = {q} /\ Len(t) = 1 /\ q \in Range(s)
  <2>1. q \in S /\ q \in Range(s)
    BY <1>1, <1>2
  <2>2. t \in Seq(S) /\ Len(t) = 1 /\ DOMAIN t = {1} /\ t[1] = q
    BY <2>1, <1>5
  <2> QED
    BY <2>1, <2>2 DEF Range, IsInjective
<1>7. /\ j + n - 1 <= Len(s)
      /\ \A x \in 1 .. Len(s) : s[x] \in Range(t) => x \in j .. j + n - 1
  <2>1. \A x \in 1 .. Len(s) : s[x] = q => x = k - 1
    BY <1>1, <1>2 DEF IsInjective
  <2>2. k - 1 \in j .. j + n - 1 /\ j + n - 1 <= Len(s)
    BY <1>1, <1>3, <1>4
  <2> QED
    BY <2>1, <2>2, <1>6
<1>8. SpliceIs(S, s, j, n, t, new)
  <2>1. SpliceFits(S, s, j, n, t)
    BY <1>1, <1>6, <1>7 DEF SpliceFits
  <2> QED
    BY <2>1, <1>3, <1>4, <1>5, SpliceFitted
<1>9. /\ new \in Seq(S) /\ IsInjective(new) /\ Len(new) = Len(s) - 2
      /\ Range(new) = {s[x] : x \in (1 .. Len(s)) \ (j .. j + n - 1)} \cup {q}
  <2>2. Len(s) - n + Len(t) = Len(s) - 2
    BY <1>1, <1>4, <1>6
  <2> QED
    BY <2>2, <1>6, <1>8 DEF SpliceIs
<1>10. j .. j + n - 1 = {k - 1, k, k + 1}
  BY <1>1, <1>3, <1>4
<1>11. \A x, y \in 1 .. Len(s) : s[x] = s[y] => x = y
  BY <1>1 DEF IsInjective
<1>12. s[k] # s[k + 1] /\ s[k] # q /\ s[k + 1] # q
  BY <1>1, <1>2, <1>11
<1>13. Range(new) = Range(s) \ {s[k], s[k + 1]}
  <2>1. Range(s) = {s[x] : x \in 1 .. Len(s)}
    BY <1>1 DEF Range
  <2>2. Range(new) \subseteq Range(s) \ {s[k], s[k + 1]}
    BY <2>1, <1>2, <1>6, <1>9, <1>10, <1>11, <1>12
  <2>3. ASSUME NEW y \in Range(s), y # s[k], y # s[k + 1] PROVE y \in Range(new)
    <3>1. PICK x \in 1 .. Len(s) : y = s[x]
      BY <2>1, <2>3
    <3>2. CASE x = k - 1
      BY <3>1, <3>2, <1>9
    <3>3. CASE x # k - 1
      <4>1. x \in (1 .. Len(s)) \ (j .. j + n - 1)
        BY <3>1, <3>3, <2>3, <1>10
      <4> QED
        BY <3>1, <4>1, <1>9
    <3> QED
      BY <3>2, <3>3
  <2> QED
    BY <2>2, <2>3
<1>14. new # << >>
  <2>1. Len(s) >= 3 /\ Len(new) # 0
    <3>1. k \in Int /\ k >= 2 /\ k <= Len(s) - 1 /\ Len(s) \in Int
      BY <1>1
    <3>2. Len(s) >= 3
      BY <3>1
    <3>3. Len(new) = Len(s) - 2
      BY <1>9
    <3> QED
      BY <3>1, <3>2, <3>3
  <2> QED
    BY <2>1, <1>9, EmptySeq
<1>15. ASSUME ~(Len(new) > 1) PROVE Range(new) = {q}
  <2>1. Len(s) = 3 /\ k = 2
    <3>1. Len(new) \in Nat /\ Len(new) <= 1
      BY <1>15, <1>9, LenProperties
    <3>2. k \in Int /\ k >= 2 /\ k <= Len(s) - 1 /\ Len(s) \in Int
      BY <1>1
    <3>3. Len(new) = Len(s) - 2
      BY <1>9
    <3>4. PICK m \in Nat, c \in Int : m = Len(new) /\ c = Len(s)
      BY <3>1, <3>2
    <3>5. m <= 1 /\ k >= 2 /\ k <= c - 1 /\ k \in Int /\ m = c - 2
      BY <3>1, <3>2, <3>3, <3>4
    <3>6. c = 3 /\ k = 2
      BY <3>5
    <3> QED
      BY <3>4, <3>6
  <2>2. (1 .. Len(s)) \ (j .. j + n - 1) = {}
    BY <2>1, <1>10
  <2> QED
    BY <2>2, <1>9
<1> QED
  BY <1>1, <1>2, <1>6, <1>9, <1>12, <1>13, <1>14, <1>15, Zenon DEF IsRun

\* The layout merge_at has before it collapses a division of one member.
LeftOf(u, b) ==
    Splice(u.items[RunOf(u, b)], PlaceOf(u, b) - 1, 3, <<Beside(u, b).low>>)
\* The layout with the joined region and without what it replaces.
JoinedAt(u, b) ==
    Without([WithRule(u, Beside(u, b).low, MergedRule(u, b))
               EXCEPT !.items[RunOf(u, b)] = LeftOf(u, b)],
            {b} \cup Subtree(u, Beside(u, b).high))

\* j is u without some nodes, the run of d without some members and the rule
\* of i another; what is gone is no member of another run.
JoinDone(u, j, d, i) ==
    /\ Fields \subseteq DOMAIN j /\ j.root = u.root
    /\ Nodes(j) \subseteq Nodes(u) /\ Boards(j) = Boards(u) \cap Nodes(j)
    /\ Divisions(j) = Divisions(u) \cap Nodes(j)
    /\ \A e \in Divisions(j) : j.axis[e] = u.axis[e] /\ (e # d => j.items[e] = u.items[e])
    /\ \A x \in Nodes(j) : x # i => j.rule[x] = u.rule[x]
    /\ d \in Divisions(j) /\ i \in Range(j.items[d]) /\ i # d
    /\ \A e \in Divisions(u) : \A x \in Range(u.items[e]) : x \in Nodes(j) => e \in Nodes(j)

\* A merge, before it collapses anything, keeps all but the unlocked region of the
\* run it shortens: the joined region is locked only if both were (_merged_rule).
LEMMA JoinedFacts ==
    ASSUME NEW u, Struct(u), NEW b, CanMerge(u, b)
    PROVE  LET j == JoinedAt(u, b)
               d == RunOf(u, b)
               i == Beside(u, b).low
           IN  /\ Keeps(u, j) /\ JoinDone(u, j, d, i)
               /\ ~(Len(LeftOf(u, b)) > 1) => Range(j.items[d]) = {i}
<1> DEFINE d == RunOf(u, b)
           i == Beside(u, b).low
           h == Beside(u, b).high
           k == PlaceOf(u, b)
           s == u.items[d]
           left == LeftOf(u, b)
           gone == {b} \cup Subtree(u, h)
           rule == MergedRule(u, b)
           w == WithRule(u, i, rule)
           x == [w EXCEPT !.items[d] = left]
           j == JoinedAt(u, b)
<1>1. /\ b \in Boards(u) /\ k \in 2 .. Len(s) - 1 /\ i \in Regions(u) /\ h \in Regions(u)
      /\ i = s[k - 1] /\ h = s[k + 1]
  BY DEF CanMerge, Beside
<1>2. b \in Nodes(u) \ {u.root} /\ b \notin Regions(u) /\ b \notin Divisions(u)
  BY <1>1 DEF Struct, Regions
<1>3. d \in Divisions(u) /\ s[k] = b /\ IsRun(s, Nodes(u) \ {u.root})
  BY <1>2, PlaceFacts DEF Struct
<1>j. j = Without(x, gone)
  BY DEF JoinedAt
<1>4. left = Splice(s, k - 1, 3, <<i>>)
  BY DEF LeftOf
<1>r. (Locked(u, i) /\ Locked(u, h)) \/ rule.kind # "fixed"
  <2>1. PICK mm : mm = Extent(u, i) ++ Extent(u, b) ++ Extent(u, h)
    OBVIOUS
  <2>2. PICK K : K = k - 1 .. k + 1
    OBVIOUS
  <2>3. rule = IF Locked(u, i) /\ Locked(u, h) THEN Fixed(mm, "clear")
               ELSE SharingRule(u, d, K, mm)
    BY <2>1, <2>2 DEF MergedRule
  <2>4. SharingRule(u, d, K, mm).kind = "driven"
    BY SharingIsDriven
  <2> HIDE DEF rule
  <2> QED
    BY <2>3, <2>4
<1> HIDE DEF d, i, h, k, left, gone, rule, w, x, j
<1>5. /\ IsRun(left, Nodes(u) \ {u.root}) /\ Range(left) = Range(s) \ {b, h}
      /\ b # h /\ b # i /\ h # i /\ i \in Range(s) /\ b \in Range(s) /\ h \in Range(s)
      /\ ~(Len(left) > 1) => Range(left) = {i}
  <2>1. PICK S : S = Nodes(u) \ {u.root}
    OBVIOUS
  <2>2. PICK q : q = s
    OBVIOUS
  <2>3. /\ IsRun(q, S) /\ k \in 2 .. Len(q) - 1 /\ i = q[k - 1]
        /\ left = Splice(q, k - 1, 3, <<i>>)
    BY <2>1, <2>2, <1>1, <1>3, <1>4
  <2>4. /\ IsRun(left, S) /\ Range(left) = Range(q) \ {q[k], q[k + 1]}
        /\ q[k] # q[k + 1] /\ q[k] # i /\ q[k + 1] # i
        /\ i \in Range(q) /\ q[k] \in Range(q) /\ q[k + 1] \in Range(q)
        /\ ~(Len(left) > 1) => Range(left) = {i}
    BY <2>3, JoinedRun
  <2> QED
    BY <2>1, <2>2, <2>4, <1>1, <1>3
<1>6. /\ h \in Subtree(u, h) /\ Subtree(u, h) \subseteq Nodes(u)
      /\ \A rank : Ranks(u, rank) =>
            \A y \in Subtree(u, h) : y = h \/ rank[h] < rank[y]
      /\ \A e \in Divisions(u) : \A y \in Range(u.items[e]) :
            y \in Subtree(u, h) <=> y = h \/ e \in Subtree(u, h)
      /\ u.root \in Subtree(u, h) => h = u.root
  <2>1. h \in Nodes(u)
    BY <1>1 DEF Regions
  <2> QED
    BY <2>1, SubtreeFacts
<1>7. \A e \in Divisions(u) : Range(u.items[e]) \subseteq Nodes(u) \ {u.root}
  <2>1. SUFFICES ASSUME NEW e \in Divisions(u)
                 PROVE  Range(u.items[e]) \subseteq Nodes(u) \ {u.root}
    OBVIOUS
  <2>2. PICK t : t = u.items[e]
    OBVIOUS
  <2>3. IsRun(t, Nodes(u) \ {u.root})
    BY <2>2 DEF Struct
  <2> QED
    BY <2>2, <2>3, RunFacts
<1>8. /\ u.root \notin gone /\ d \notin gone /\ i \notin gone /\ b \in gone /\ h \in gone
      /\ \A e \in Divisions(u) : \A y \in Range(u.items[e]) :
            y \in gone <=> y = b \/ y = h \/ e \in gone
  <2>1. PICK rank : Ranks(u, rank)
    BY DEF Struct
  <2>2. rank[d] < rank[h] /\ rank[d] \in Nat /\ rank[h] \in Nat
    <3>1. d \in Nodes(u) /\ h \in Nodes(u)
      BY <1>1, <1>3 DEF Struct, Regions
    <3> QED
      BY <2>1, <3>1, <1>3, <1>5 DEF Ranks
  <2>3. d \notin Subtree(u, h)
    BY <2>1, <2>2, <1>6
  <2>4. u.root \notin gone
    BY <1>2, <1>5, <1>6, <1>7, <1>3 DEF gone
  <2>5. i \notin Subtree(u, h)
    BY <2>3, <1>3, <1>5, <1>6
  <2>6. d # b
    BY <1>2, <1>3
  <2> QED
    BY <2>3, <2>4, <2>5, <2>6, <1>2, <1>5, <1>6 DEF gone
<1>9. /\ Fields \subseteq DOMAIN w /\ w.items = u.items /\ w.axis = u.axis /\ w.root = u.root
      /\ w.thick = u.thick /\ Nodes(w) = Nodes(u) /\ Boards(w) = Boards(u) /\ w.rule[i] = rule
      /\ \A y \in Nodes(u) : y # i => w.rule[y] = u.rule[y]
  <2>1. IsWithRule(u, i, rule, WithRule(u, i, rule))
    BY <1>1, WithRuleFacts
  <2> QED
    BY <2>1 DEF w, IsWithRule
<1>w. w.voids = u.voids
  BY DEF w, WithRule, Struct, Fields
<1>10. /\ Fields \subseteq DOMAIN x /\ x.root = u.root /\ x.rule = w.rule /\ x.thick = u.thick
       /\ x.axis = u.axis /\ x.voids = u.voids /\ x.items = [u.items EXCEPT ![d] = left]
  BY <1>9, <1>w DEF x, Fields
<1>11. /\ Fields \subseteq DOMAIN j /\ j.root = u.root
       /\ Nodes(j) = Nodes(u) \ gone /\ Boards(j) = Boards(u) \ gone
       /\ Divisions(j) = Divisions(u) \ gone /\ DOMAIN j.axis = Divisions(u) \ gone
       /\ j.voids = u.voids \ gone
       /\ \A y \in Nodes(j) : j.rule[y] = w.rule[y]
       /\ \A e \in Divisions(j) : /\ j.axis[e] = u.axis[e]
                                  /\ j.items[e] = IF e = d THEN left ELSE u.items[e]
  <2>1. /\ Fields \subseteq DOMAIN j /\ j.root = x.root
        /\ Nodes(j) = Nodes(x) \ gone /\ Boards(j) = Boards(x) \ gone
        /\ Divisions(j) = Divisions(x) \ gone /\ DOMAIN j.axis = DOMAIN x.axis \ gone
        /\ j.voids = x.voids \ gone
        /\ \A y \in Nodes(j) : j.rule[y] = x.rule[y]
        /\ \A e \in Divisions(j) : j.items[e] = x.items[e]
        /\ \A e \in DOMAIN j.axis : j.axis[e] = x.axis[e]
    <3>1. Fields \subseteq DOMAIN x
      BY <1>10
    <3>2. IsWithout(x, gone, j)
      BY <3>1, <1>j, WithoutFacts
    <3> QED
      BY <3>2 DEF IsWithout
  <2>2. Nodes(x) = Nodes(u) /\ Boards(x) = Boards(u) /\ Divisions(x) = Divisions(u)
    BY <1>9, <1>10 DEF Nodes, Boards, Divisions
  <2>3. DOMAIN u.axis = Divisions(u)
    BY DEF Struct
  <2>4. \A e \in Divisions(u) : x.items[e] = IF e = d THEN left ELSE u.items[e]
    BY <1>3, <1>10 DEF Divisions
  <2> QED
    BY <2>1, <2>2, <2>3, <2>4, <1>10
<1>12. /\ u.root \in Regions(u) /\ Boards(u) \subseteq Nodes(u)
       /\ Divisions(u) \subseteq Regions(u) /\ IsFiniteSet(Nodes(u))
       /\ u.voids \subseteq Regions(u) \ Divisions(u)
  BY DEF Struct
<1>13. d \in Divisions(j) /\ j.items[d] = left
  BY <1>3, <1>8, <1>11
<1>14. \A e \in Divisions(u) : \A y \in Range(u.items[e]) : y \in Nodes(j) => e \in Nodes(j)
  BY <1>8, <1>11, <1>12 DEF Regions
<1>15. \A e \in Divisions(j) : Range(j.items[e]) = Range(u.items[e]) \ gone
  <2>1. SUFFICES ASSUME NEW e \in Divisions(j)
                 PROVE  Range(j.items[e]) = Range(u.items[e]) \ gone
    OBVIOUS
  <2>2. e \in Divisions(u) /\ e \notin gone
    BY <2>1, <1>11
  <2>3. CASE e = d
    <3>1. \A y \in Range(s) : y \in gone <=> y = b \/ y = h
      BY <1>3, <1>8
    <3>2. Range(left) = Range(s) \ gone
      BY <3>1, <1>5
    <3> QED
      BY <2>3, <3>2, <1>13
  <2>4. CASE e # d
    <3>1. j.items[e] = u.items[e]
      BY <2>1, <2>4, <1>11
    <3>2. b \notin Range(u.items[e]) /\ h \notin Range(u.items[e])
      <4>1. Range(u.items[e]) \cap Range(s) = {}
        BY <2>2, <2>4, <1>3 DEF Struct
      <4> QED
        BY <4>1, <1>5
    <3>3. \A y \in Range(u.items[e]) : y \notin gone
      BY <2>2, <3>2, <1>8
    <3> QED
      BY <3>1, <3>3
  <2> QED
    BY <2>3, <2>4
<1>16. Struct(j)
  <2>1. IsFiniteSet(Nodes(j))
    BY <1>11, <1>12, FS_Subset
  <2>2. /\ Boards(j) \subseteq Nodes(j) /\ Divisions(j) \subseteq Regions(j)
        /\ j.root \in Regions(j) /\ j.voids \subseteq Regions(j) \ Divisions(j)
    BY <1>8, <1>11, <1>12 DEF Regions
  <2>3. ASSUME NEW e \in Divisions(j) PROVE IsRun(j.items[e], Nodes(j) \ {j.root})
    <3>1. PICK t : t = j.items[e]
      OBVIOUS
    <3>2. IsRun(t, Nodes(u) \ {u.root})
      <4>1. CASE e = d
        BY <4>1, <3>1, <1>5, <1>13
      <4>2. CASE e # d
        BY <4>2, <2>3, <3>1, <1>11 DEF Struct
      <4> QED
        BY <4>1, <4>2
    <3>3. Range(t) \subseteq Nodes(j) \ {j.root}
      BY <2>3, <3>1, <3>2, <1>7, <1>11, <1>15
    <3>4. \A y \in 1 .. Len(t) : t[y] \in Nodes(j) \ {j.root}
      BY <3>2, <3>3, RunFacts
    <3>5. t \in Seq(Nodes(j) \ {j.root})
      BY <3>2, <3>4, RunFacts DEF IsRun
    <3> QED
      BY <3>1, <3>2, <3>5 DEF IsRun
  <2>4. \A y \in Nodes(j) \ {j.root} : \E e \in Divisions(j) : y \in Range(j.items[e])
    <3>1. SUFFICES ASSUME NEW y \in Nodes(j) \ {j.root}
                   PROVE  \E e \in Divisions(j) : y \in Range(j.items[e])
      OBVIOUS
    <3>2. PICK e \in Divisions(u) : y \in Range(u.items[e])
      BY <3>1, <1>11 DEF Struct
    <3>3. e \in Divisions(j)
      BY <3>1, <3>2, <1>11, <1>14
    <3> QED
      BY <3>1, <3>2, <3>3, <1>11, <1>15
  <2>5. \A e, f \in Divisions(j) : e # f => Range(j.items[e]) \cap Range(j.items[f]) = {}
    <3>1. \A e, f \in Divisions(u) : e # f => Range(u.items[e]) \cap Range(u.items[f]) = {}
      BY DEF Struct
    <3> QED
      BY <3>1, <1>11, <1>15
  <2>6. \E rank : Ranks(j, rank)
    <3>1. PICK rank : Ranks(u, rank)
      BY DEF Struct
    <3> DEFINE mine == [y \in Nodes(j) |-> rank[y]]
    <3>2. mine \in [Nodes(j) -> Nat] /\ \A y \in Nodes(j) : mine[y] = rank[y]
      BY <3>1, <1>11 DEF Ranks
    <3> HIDE DEF mine
    <3>3. ASSUME NEW e \in Divisions(j), NEW y \in Range(j.items[e]) PROVE mine[e] < mine[y]
      <4>1. e \in Divisions(u) /\ y \in Range(u.items[e]) /\ rank[e] < rank[y]
        BY <3>1, <3>3, <1>11, <1>15 DEF Ranks
      <4>2. e \in Nodes(j) /\ y \in Nodes(j)
        BY <3>3, <4>1, <1>7, <1>11, <1>12, <1>15 DEF Regions
      <4> QED
        BY <4>1, <4>2, <3>2
    <3> QED
      BY <3>2, <3>3 DEF Ranks
  <2> QED
    BY <2>1, <2>2, <2>3, <2>4, <2>5, <2>6, <1>11 DEF Struct
<1>17. Flat(u) => Flat(j)
  BY <1>11, <1>15 DEF Flat
<1>18. RunsUnlocked(u) => RunsUnlocked(j)
  <2>1. \A y \in Nodes(j) : y # i /\ Unlocked(u, y) => Unlocked(j, y)
    BY <1>9, <1>11 DEF Unlocked, Locked
  <2>2. SUFFICES ASSUME RunsUnlocked(u), NEW e \in Divisions(j)
                 PROVE  \E y \in Range(j.items[e]) : Unlocked(j, y)
    BY DEF RunsUnlocked
  <2>3. PICK y \in Range(u.items[e]) : Unlocked(u, y)
    BY <2>2, <1>11 DEF RunsUnlocked
  <2>4. CASE y # i /\ y # h
    <3>1. y # b
      BY <2>3, <1>1 DEF Unlocked
    <3>2. y \in Range(j.items[e]) /\ y \in Nodes(j)
      BY <2>2, <2>3, <2>4, <3>1, <1>7, <1>8, <1>11, <1>15
    <3> QED
      BY <2>1, <2>3, <2>4, <3>2
  <2>5. CASE y = i \/ y = h
    <3>1. e = d
      <4>1. \A f \in Divisions(u) : f # d => Range(u.items[f]) \cap Range(s) = {}
        BY <1>3 DEF Struct
      <4> QED
        BY <4>1, <2>2, <2>3, <2>5, <1>5, <1>11
    <3>2. rule.kind # "fixed"
      BY <2>3, <2>5, <1>r DEF Unlocked
    <3>3. i \in Nodes(j) /\ i \notin Boards(j) /\ j.rule[i] = rule
      BY <1>1, <1>8, <1>9, <1>11 DEF Regions
    <3>4. Unlocked(j, i)
      BY <3>2, <3>3 DEF Unlocked, Locked
    <3>5. i \in Range(j.items[e])
      BY <3>1, <1>3, <1>5, <1>8, <1>13, <1>15
    <3> QED
      BY <3>4, <3>5
  <2> QED
    BY <2>4, <2>5
<1>19. JoinDone(u, j, d, i)
  <2>1. /\ Nodes(j) \subseteq Nodes(u) /\ Boards(j) = Boards(u) \cap Nodes(j)
        /\ Divisions(j) = Divisions(u) \cap Nodes(j)
    BY <1>11, <1>12 DEF Regions
  <2>2. \A e \in Divisions(j) : j.axis[e] = u.axis[e] /\ (e # d => j.items[e] = u.items[e])
    BY <1>11
  <2>3. \A y \in Nodes(j) : y # i => j.rule[y] = u.rule[y]
    BY <1>9, <1>11
  <2>4. i \in Range(j.items[d])
    BY <1>3, <1>5, <1>8, <1>13, <1>15
  <2>5. i # d
    <3>1. PICK rank : Ranks(u, rank)
      BY DEF Struct
    <3>2. rank[d] < rank[i] /\ rank[d] \in Nat
      BY <3>1, <1>3, <1>5, <1>12 DEF Ranks, Regions
    <3> QED
      BY <3>2
  <2> QED
    BY <2>1, <2>2, <2>3, <2>4, <2>5, <1>11, <1>13, <1>14 DEF JoinDone
<1>20. ~(Len(left) > 1) => Range(j.items[d]) = {i}
  BY <1>5, <1>13
<1>21. Keeps(u, j)
  BY <1>16, <1>17, <1>18 DEF Keeps
<1> QED
  BY <1>19, <1>20, <1>21 DEF j, d, i, left

\* The run of d has the one member i.
Collapses(j, d, i) ==
    d \in Divisions(j) /\ i \in Regions(j) /\ i # d /\ Range(j.items[d]) = {i}

\* x is j without d, and i has the rule `rule'.
IsAlone(j, d, i, rule, x) ==
    /\ Fields \subseteq DOMAIN x /\ x.root = j.root
    /\ Nodes(x) = Nodes(j) \ {d} /\ Boards(x) = Boards(j)
    /\ Divisions(x) = Divisions(j) \ {d} /\ DOMAIN x.axis = Divisions(j) \ {d}
    /\ x.voids = j.voids
    /\ x.rule[i] = rule /\ \A y \in Nodes(x) : y # i => x.rule[y] = j.rule[y]
    /\ \A e \in Divisions(x) : x.items[e] = j.items[e] /\ x.axis[e] = j.axis[e]

\* How Promoted makes it.
Alone(j, d, i, rule) == Without(WithRule(j, i, rule), {d})

\* And that it does.
LEMMA AloneFacts ==
    ASSUME NEW j, Struct(j), NEW d, NEW i, Collapses(j, d, i), NEW rule
    PROVE  IsAlone(j, d, i, rule, Alone(j, d, i, rule))
<1> DEFINE w == WithRule(j, i, rule)
           x == Alone(j, d, i, rule)
<1>1. x = Without(w, {d})
  BY DEF Alone
<1>2. IsWithRule(j, i, rule, w)
  BY WithRuleFacts DEF Collapses
<1> HIDE DEF w, x
<1>3. Fields \subseteq DOMAIN w
  BY <1>2 DEF IsWithRule
<1>4. IsWithout(w, {d}, x)
  BY <1>1, <1>3, WithoutFacts
<1>5. d \in Divisions(j) /\ i \in Nodes(j) /\ i # d /\ d \notin Boards(j) /\ d \notin j.voids
  BY DEF Collapses, Struct, Regions
<1>6. DOMAIN j.axis = Divisions(j) /\ Divisions(w) = Divisions(j)
  BY <1>2 DEF Struct, IsWithRule, Divisions
<1>7. IsAlone(j, d, i, rule, x)
  BY <1>2, <1>4, <1>5, <1>6 DEF IsAlone, IsWithRule, IsWithout
<1> QED
  BY <1>7 DEF x

\* In a layout that is one tree, d above i above what is in it.
LEMMA CollapseFacts ==
    ASSUME NEW j, Struct(j), NEW d, NEW i, Collapses(j, d, i)
    PROVE  /\ d \in Divisions(j) /\ d \in Nodes(j) /\ d \notin Boards(j) /\ i \in Nodes(j)
           /\ i \notin Boards(j) /\ i # j.root
           /\ \A e \in Divisions(j) : e # d => i \notin Range(j.items[e])
           /\ \A e \in Divisions(j) : Range(j.items[e]) \subseteq Nodes(j) \ {j.root}
           /\ i \in Divisions(j) => d \notin Range(j.items[i]) /\ i \notin Range(j.items[i])
<1>1. d \in Divisions(j) /\ i \in Regions(j) /\ i # d /\ Range(j.items[d]) = {i}
  BY DEF Collapses
<1>2. \A e \in Divisions(j) : Range(j.items[e]) \subseteq Nodes(j) \ {j.root}
  <2>1. SUFFICES ASSUME NEW e \in Divisions(j)
                 PROVE  Range(j.items[e]) \subseteq Nodes(j) \ {j.root}
    OBVIOUS
  <2>2. PICK t : t = j.items[e]
    OBVIOUS
  <2>3. IsRun(t, Nodes(j) \ {j.root})
    BY <2>2 DEF Struct
  <2> QED
    BY <2>2, <2>3, RunFacts
<1>3. d \in Nodes(j) /\ d \notin Boards(j) /\ i \in Nodes(j) /\ i \notin Boards(j)
  BY <1>1 DEF Struct, Regions
<1>4. i # j.root
  BY <1>1, <1>2
<1>5. \A e \in Divisions(j) : e # d => i \notin Range(j.items[e])
  BY <1>1 DEF Struct
<1>6. i \in Divisions(j) => d \notin Range(j.items[i]) /\ i \notin Range(j.items[i])
  <2>1. PICK rank : Ranks(j, rank)
    BY DEF Struct
  <2>2. rank[d] < rank[i] /\ rank[d] \in Nat /\ rank[i] \in Nat
    BY <1>1, <1>3, <2>1 DEF Ranks
  <2>3. SUFFICES ASSUME i \in Divisions(j)
                 PROVE  d \notin Range(j.items[i]) /\ i \notin Range(j.items[i])
    OBVIOUS
  <2>4. \A y \in Range(j.items[i]) : rank[i] < rank[y]
    BY <2>1, <2>3 DEF Ranks
  <2> QED
    BY <2>2, <2>4
<1> QED
  BY <1>1, <1>2, <1>3, <1>4, <1>5, <1>6

\* A run of one set of nodes is one of any that has its members.
LEMMA SameRun ==
    ASSUME NEW S, NEW T, NEW s, IsRun(s, S), Range(s) \subseteq T
    PROVE  IsRun(s, T)
<1>1. /\ DOMAIN s = 1 .. Len(s) /\ \A y \in 1 .. Len(s) : s[y] \in Range(s)
      /\ s \in Seq(S) /\ IsInjective(s) /\ s # << >>
  BY RunFacts DEF IsRun
<1>2. \A y \in 1 .. Len(s) : s[y] \in T
  BY <1>1
<1>3. s \in Seq(T)
  BY <1>1, <1>2
<1> QED
  BY <1>1, <1>3 DEF IsRun

\* The root gives way to its one member.
LEMMA PromotedToRoot ==
    ASSUME NEW j, Struct(j), NEW d, NEW i, Collapses(j, d, i), NEW rule, d = j.root,
           NEW x, IsAlone(j, d, i, rule, x)
    PROVE  Keeps(j, [x EXCEPT !.root = i]) /\ Nodes([x EXCEPT !.root = i]) \subseteq Nodes(j)
<1> DEFINE v == [x EXCEPT !.root = i]
<1>1. /\ d \in Divisions(j) /\ d \in Nodes(j) /\ d \notin Boards(j) /\ i \in Nodes(j)
      /\ i \notin Boards(j) /\ i # j.root
      /\ \A e \in Divisions(j) : e # d => i \notin Range(j.items[e])
      /\ \A e \in Divisions(j) : Range(j.items[e]) \subseteq Nodes(j) \ {j.root}
  BY CollapseFacts
<1>2. /\ Fields \subseteq DOMAIN v /\ v.root = i /\ v.rule = x.rule /\ v.thick = x.thick
      /\ v.axis = x.axis /\ v.items = x.items /\ v.voids = j.voids
  BY DEF IsAlone, Fields
<1> HIDE DEF v
<1>3. /\ Nodes(v) = Nodes(j) \ {d} /\ Boards(v) = Boards(j)
      /\ Divisions(v) = Divisions(j) \ {d} /\ DOMAIN v.axis = Divisions(j) \ {d}
      /\ \A y \in Nodes(v) : y # i => v.rule[y] = j.rule[y]
      /\ \A e \in Divisions(v) : v.items[e] = j.items[e] /\ v.axis[e] = j.axis[e]
  BY <1>2 DEF IsAlone, Nodes, Boards, Divisions
<1>4. \A e \in Divisions(v) : Range(v.items[e]) \subseteq Nodes(v) \ {i}
  BY <1>1, <1>3
<1>5. Struct(v)
  <2>1. IsFiniteSet(Nodes(v))
    BY <1>3, FS_Subset DEF Struct
  <2>2. /\ Boards(v) \subseteq Nodes(v) /\ Divisions(v) \subseteq Regions(v)
        /\ v.root \in Regions(v) /\ v.voids \subseteq Regions(v) \ Divisions(v)
    BY <1>1, <1>2, <1>3 DEF Struct, Regions
  <2>3. ASSUME NEW e \in Divisions(v) PROVE IsRun(v.items[e], Nodes(v) \ {v.root})
    <3>1. PICK t : t = v.items[e]
      OBVIOUS
    <3>2. IsRun(t, Nodes(j) \ {j.root}) /\ Range(t) \subseteq Nodes(v) \ {v.root}
      BY <2>3, <3>1, <1>2, <1>3, <1>4 DEF Struct
    <3> QED
      BY <3>1, <3>2, SameRun
  <2>4. \A y \in Nodes(v) \ {v.root} : \E e \in Divisions(v) : y \in Range(v.items[e])
    <3>1. SUFFICES ASSUME NEW y \in Nodes(j), y # d, y # i
                   PROVE  \E e \in Divisions(v) : y \in Range(v.items[e])
      BY <1>2, <1>3
    <3>2. PICK e \in Divisions(j) : y \in Range(j.items[e])
      BY <3>1 DEF Struct
    <3>3. e # d
      BY <3>1, <3>2 DEF Collapses
    <3> QED
      BY <3>2, <3>3, <1>3
  <2>5. \A e, f \in Divisions(v) : e # f => Range(v.items[e]) \cap Range(v.items[f]) = {}
    BY <1>3 DEF Struct
  <2>6. \E rank : Ranks(v, rank)
    <3>1. PICK rank : Ranks(j, rank)
      BY DEF Struct
    <3> DEFINE mine == [y \in Nodes(v) |-> rank[y]]
    <3>2. mine \in [Nodes(v) -> Nat] /\ \A y \in Nodes(v) : mine[y] = rank[y]
      BY <3>1, <1>3 DEF Ranks
    <3> HIDE DEF mine
    <3>3. ASSUME NEW e \in Divisions(v), NEW y \in Range(v.items[e]) PROVE mine[e] < mine[y]
      <4>1. e \in Divisions(j) /\ y \in Range(j.items[e]) /\ rank[e] < rank[y]
        BY <3>1, <3>3, <1>3 DEF Ranks
      <4>2. e \in Nodes(v) /\ y \in Nodes(v)
        BY <3>3, <2>2, <1>4 DEF Regions
      <4> QED
        BY <4>1, <4>2, <3>2
    <3> QED
      BY <3>2, <3>3 DEF Ranks
  <2> QED
    BY <2>1, <2>2, <2>3, <2>4, <2>5, <2>6, <1>2, <1>3 DEF Struct
<1>6. Flat(j) => Flat(v)
  BY <1>3 DEF Flat
<1>7. RunsUnlocked(j) => RunsUnlocked(v)
  <2>1. \A y \in Nodes(v) : y # i /\ Unlocked(j, y) => Unlocked(v, y)
    BY <1>3 DEF Unlocked, Locked
  <2>2. SUFFICES ASSUME RunsUnlocked(j), NEW e \in Divisions(v)
                 PROVE  \E y \in Range(v.items[e]) : Unlocked(v, y)
    BY DEF RunsUnlocked
  <2>3. PICK y \in Range(j.items[e]) : Unlocked(j, y)
    BY <2>2, <1>3 DEF RunsUnlocked
  <2>4. y \in Range(v.items[e]) /\ y \in Nodes(v) /\ y # i
    BY <2>2, <2>3, <1>3, <1>4
  <2> QED
    BY <2>1, <2>3, <2>4
<1>8. Keeps(j, v) /\ Nodes(v) \subseteq Nodes(j)
  BY <1>3, <1>5, <1>6, <1>7 DEF Keeps
<1> QED
  BY <1>8 DEF v

\* Where d was in its run is i.
LEMMA PromotedInPlace ==
    ASSUME NEW j, Struct(j), NEW d, NEW i, Collapses(j, d, i), NEW rule, d # j.root,
           NEW x, IsAlone(j, d, i, rule, x), rule.kind = "fixed" => Locked(j, d),
           i \notin Divisions(j) \/ j.axis[i] # j.axis[RunOf(j, d)],
           NEW v, v = [x EXCEPT !.items[RunOf(j, d)][PlaceOf(j, d)] = i]
    PROVE  Keeps(j, v) /\ Nodes(v) \subseteq Nodes(j)
<1> DEFINE p == RunOf(j, d)
           k == PlaceOf(j, d)
           s == j.items[p]
           new == [s EXCEPT ![k] = i]
<1>1. /\ d \in Divisions(j) /\ d \in Nodes(j) /\ d \notin Boards(j) /\ i \in Nodes(j)
      /\ i \notin Boards(j) /\ i # j.root /\ i # d /\ Range(j.items[d]) = {i}
      /\ \A e \in Divisions(j) : e # d => i \notin Range(j.items[e])
      /\ \A e \in Divisions(j) : Range(j.items[e]) \subseteq Nodes(j) \ {j.root}
  BY CollapseFacts DEF Collapses
<1>2. p \in Divisions(j) /\ d \in Range(s) /\ k \in 1 .. Len(s) /\ s[k] = d
  BY <1>1, PlaceFacts
<1>3. p # d
  BY <1>1, <1>2
<1>a. i \notin Divisions(j) \/ j.axis[i] # j.axis[p]
  OBVIOUS
<1>v. v = [x EXCEPT !.items[p][k] = i]
  OBVIOUS
<1> HIDE DEF p, k
<1>4. x.items[p] = s /\ p \in DOMAIN x.items /\ d \notin DOMAIN x.items
  BY <1>2, <1>3 DEF IsAlone, Divisions
<1>5. /\ Fields \subseteq DOMAIN v /\ v.root = j.root /\ v.rule = x.rule /\ v.thick = x.thick
      /\ v.axis = x.axis /\ v.voids = j.voids /\ v.items = [x.items EXCEPT ![p] = new]
  BY <1>v, <1>4 DEF IsAlone, Fields
<1> HIDE <1>v
<1> HIDE DEF new
<1>6. /\ Nodes(v) = Nodes(j) \ {d} /\ Boards(v) = Boards(j)
      /\ Divisions(v) = Divisions(j) \ {d} /\ DOMAIN v.axis = Divisions(j) \ {d}
      /\ v.rule[i] = rule /\ \A y \in Nodes(v) : y # i => v.rule[y] = j.rule[y]
      /\ \A e \in Divisions(v) : /\ v.axis[e] = j.axis[e]
                                 /\ v.items[e] = IF e = p THEN new ELSE j.items[e]
  BY <1>4, <1>5 DEF IsAlone, Nodes, Boards, Divisions
<1>7. IsRun(new, Nodes(j) \ {j.root}) /\ Range(new) = (Range(s) \ {d}) \cup {i}
  <2>1. PICK S : S = Nodes(j) \ {j.root}
    OBVIOUS
  <2>2. PICK q : q = s
    OBVIOUS
  <2>3. IsRun(q, S) /\ k \in 1 .. Len(q) /\ i \in S /\ i \notin Range(q) /\ Replaces(new, q, k, i)
    BY <2>1, <2>2, <1>1, <1>2, <1>3 DEF Struct, Replaces, new
  <2>4. IsRun(new, S) /\ Range(new) = (Range(q) \ {q[k]}) \cup {i}
    BY <2>3, ReplacedRun
  <2> QED
    BY <2>1, <2>2, <2>4, <1>2
<1>8. /\ \A e \in Divisions(j) : e # p => d \notin Range(j.items[e])
      /\ \A e, f \in Divisions(j) : e # f => Range(j.items[e]) \cap Range(j.items[f]) = {}
  BY <1>2 DEF Struct
<1>9. \A e \in Divisions(v) : Range(v.items[e]) \subseteq Nodes(v) \ {j.root}
  BY <1>1, <1>2, <1>6, <1>7, <1>8, SMTT(40)
<1>10. Struct(v)
  <2>1. IsFiniteSet(Nodes(v))
    BY <1>6, FS_Subset DEF Struct
  <2>2. /\ Boards(v) \subseteq Nodes(v) /\ Divisions(v) \subseteq Regions(v)
        /\ v.root \in Regions(v) /\ v.voids \subseteq Regions(v) \ Divisions(v)
    BY <1>1, <1>5, <1>6 DEF Struct, Regions
  <2>3. ASSUME NEW e \in Divisions(v) PROVE IsRun(v.items[e], Nodes(v) \ {v.root})
    <3>1. PICK t : t = v.items[e]
      OBVIOUS
    <3>2. IsRun(t, Nodes(j) \ {j.root}) /\ Range(t) \subseteq Nodes(v) \ {v.root}
      <4>1. Range(t) \subseteq Nodes(v) \ {v.root}
        BY <2>3, <3>1, <1>5, <1>9
      <4>2. IsRun(t, Nodes(j) \ {j.root})
        BY <2>3, <3>1, <1>6, <1>7, ZenonT(40) DEF Struct
      <4> QED
        BY <4>1, <4>2
    <3> QED
      BY <3>1, <3>2, SameRun
  <2>4. \A y \in Nodes(v) \ {v.root} : \E e \in Divisions(v) : y \in Range(v.items[e])
    <3>1. SUFFICES ASSUME NEW y \in Nodes(j), y # d, y # j.root
                   PROVE  \E e \in Divisions(v) : y \in Range(v.items[e])
      BY <1>5, <1>6
    <3>2. CASE y = i
      BY <3>2, <1>2, <1>3, <1>6, <1>7
    <3>3. CASE y # i
      <4>1. PICK e \in Divisions(j) : y \in Range(j.items[e])
        BY <3>1 DEF Struct
      <4>2. e # d
        BY <3>3, <4>1, <1>1
      <4> QED
        BY <3>1, <4>1, <4>2, <1>6, <1>7
    <3> QED
      BY <3>2, <3>3
  <2>5. \A e, f \in Divisions(v) : e # f => Range(v.items[e]) \cap Range(v.items[f]) = {}
    <3>1. \A f \in Divisions(v) : f # p => Range(new) \cap Range(j.items[f]) = {}
      BY <1>1, <1>2, <1>6, <1>7, <1>8, ZenonT(40)
    <3> QED
      BY <3>1, <1>6, <1>8
  <2>6. \E rank : Ranks(v, rank)
    <3>1. PICK rank : Ranks(j, rank)
      BY DEF Struct
    <3> DEFINE mine == [y \in Nodes(v) |-> rank[y]]
    <3>2. mine \in [Nodes(v) -> Nat] /\ \A y \in Nodes(v) : mine[y] = rank[y]
      BY <3>1, <1>6 DEF Ranks
    <3> HIDE DEF mine
    <3>3. ASSUME NEW e \in Divisions(v), NEW y \in Range(v.items[e]) PROVE mine[e] < mine[y]
      <4>1. e \in Nodes(v) /\ y \in Nodes(v) /\ e \in Divisions(j)
        BY <3>3, <2>2, <1>6, <1>9 DEF Regions
      <4>2. \A f \in Divisions(j) : \A z \in Range(j.items[f]) : rank[f] < rank[z]
        BY <3>1 DEF Ranks
      <4>3. CASE y \in Range(j.items[e])
        BY <4>1, <4>2, <4>3, <3>2
      <4>4. CASE y \notin Range(j.items[e])
        <5>1. e = p /\ y = i
          BY <4>4, <3>3, <1>6, <1>7
        <5>2. rank[p] < rank[d] /\ rank[d] < rank[i]
          BY <4>2, <1>1, <1>2
        <5>3. rank[p] \in Nat /\ rank[d] \in Nat /\ rank[i] \in Nat
          BY <3>1, <4>1, <5>1, <1>1, <1>6 DEF Ranks
        <5> QED
          BY <5>1, <5>2, <5>3, <4>1, <3>2
      <4> QED
        BY <4>3, <4>4
    <3> QED
      BY <3>2, <3>3 DEF Ranks
  <2> QED
    BY <2>1, <2>2, <2>3, <2>4, <2>5, <2>6, <1>5, <1>6 DEF Struct
<1>11. Flat(j) => Flat(v)
  <2>1. SUFFICES ASSUME Flat(j), NEW e \in Divisions(v), NEW f \in Divisions(v),
                        e \in Range(v.items[f])
                 PROVE  v.axis[e] # v.axis[f]
    BY DEF Flat
  <2>2. CASE e \in Range(j.items[f])
    BY <2>1, <2>2, <1>6 DEF Flat
  <2>3. CASE e \notin Range(j.items[f])
    <3>1. f = p /\ e = i
      BY <2>1, <2>3, <1>6, <1>7
    <3> QED
      BY <2>1, <3>1, <1>a, <1>6
  <2> QED
    BY <2>2, <2>3
<1>12. RunsUnlocked(j) => RunsUnlocked(v)
  <2>1. \A y \in Nodes(v) : y # i /\ Unlocked(j, y) => Unlocked(v, y)
    BY <1>6 DEF Unlocked, Locked
  <2>2. SUFFICES ASSUME RunsUnlocked(j), NEW e \in Divisions(v)
                 PROVE  \E y \in Range(v.items[e]) : Unlocked(v, y)
    BY DEF RunsUnlocked
  <2>3. PICK y \in Range(j.items[e]) : Unlocked(j, y)
    BY <2>2, <1>6 DEF RunsUnlocked
  <2>4. CASE y # d
    <3>1. y \in Range(v.items[e])
      BY <2>2, <2>3, <2>4, <1>6, <1>7
    <3>2. y \in Nodes(v) /\ y # i
      BY <2>2, <2>3, <2>4, <1>1, <1>6
    <3> QED
      BY <2>1, <2>3, <3>1, <3>2
  <2>5. CASE y = d
    <3>1. e = p
      BY <2>2, <2>3, <2>5, <1>6, <1>8
    <3>2. rule.kind # "fixed"
      BY <2>3, <2>5 DEF Unlocked
    <3>3. Unlocked(v, i)
      BY <3>2, <1>1, <1>6 DEF Unlocked, Locked
    <3>4. i \in Range(v.items[e])
      BY <3>1, <2>2, <1>6, <1>7
    <3> QED
      BY <3>3, <3>4
  <2> QED
    BY <2>4, <2>5
<1> QED
  BY <1>6, <1>10, <1>11, <1>12 DEF Keeps

\* x with the members of the run of i, under the rules f, in d's place, and
\* without i.
Spliced(j, d, i, x, f) ==
    Without([x EXCEPT !.items[RunOf(j, d)] = Splice(@, PlaceOf(j, d), 1, j.items[i]),
                      !.rule = Over(@, f)], {i})

\* In d's place in its run are the members of i's, under the rules f.
LEMMA PromotedSpliced ==
    ASSUME NEW j, Struct(j), NEW d, NEW i, Collapses(j, d, i), NEW rule, d # j.root,
           NEW x, IsAlone(j, d, i, rule, x), i \in Divisions(j),
           j.axis[i] = j.axis[RunOf(j, d)],
           NEW f, DOMAIN f = Range(j.items[i]),
           \A y \in DOMAIN f : f[y].kind = "fixed" => j.rule[y].kind = "fixed",
           NEW v, v = Spliced(j, d, i, x, f)
    PROVE  Keeps(j, v) /\ Nodes(v) \subseteq Nodes(j)
<1> DEFINE p == RunOf(j, d)
           k == PlaceOf(j, d)
           s == j.items[p]
           t == j.items[i]
           rules == Over(x.rule, f)
           new == Splice(s, k, 1, t)
           z == [x EXCEPT !.items[p] = new, !.rule = rules]
<1>1. /\ d \in Divisions(j) /\ d \in Nodes(j) /\ d \notin Boards(j) /\ i \in Nodes(j)
      /\ i \notin Boards(j) /\ i # j.root /\ i # d /\ Range(j.items[d]) = {i}
      /\ \A e \in Divisions(j) : e # d => i \notin Range(j.items[e])
      /\ \A e \in Divisions(j) : Range(j.items[e]) \subseteq Nodes(j) \ {j.root}
      /\ d \notin Range(t) /\ i \notin Range(t)
  BY CollapseFacts DEF Collapses
<1>2. p \in Divisions(j) /\ d \in Range(s) /\ k \in 1 .. Len(s) /\ s[k] = d
  BY <1>1, PlaceFacts
<1>3. p # d /\ p # i
  BY <1>1, <1>2
<1>4. x.items[p] = s /\ p \in DOMAIN x.items
  BY <1>2, <1>3 DEF IsAlone, Divisions
<1>a. j.axis[i] = j.axis[p]
  OBVIOUS
<1>z. z = [x EXCEPT !.items[p] = Splice(@, k, 1, t), !.rule = Over(@, f)]
  BY <1>4
<1>v. v = Without(z, {i})
  BY <1>z DEF Spliced
<1> HIDE DEF p, k
<1>r. /\ DOMAIN rules = DOMAIN x.rule \cup DOMAIN f
      /\ \A y \in DOMAIN f : rules[y] = f[y]
      /\ \A y \in DOMAIN x.rule \ DOMAIN f : rules[y] = x.rule[y]
  <2>1. PICK g : g = x.rule
    OBVIOUS
  <2>2. /\ DOMAIN Over(g, f) = DOMAIN g \cup DOMAIN f
        /\ \A y \in DOMAIN f : Over(g, f)[y] = f[y]
        /\ \A y \in DOMAIN g \ DOMAIN f : Over(g, f)[y] = g[y]
    BY OverFacts
  <2> QED
    BY <2>1, <2>2
<1>5. /\ Fields \subseteq DOMAIN z /\ z.root = j.root /\ z.rule = rules /\ z.thick = x.thick
      /\ z.axis = x.axis /\ z.voids = j.voids /\ z.items = [x.items EXCEPT ![p] = new]
  BY <1>4 DEF IsAlone, Fields
<1>s. new = Splice(s, k, 1, t)
  OBVIOUS
<1> HIDE DEF rules, new, z
<1>6. IsWithout(z, {i}, v)
  BY <1>5, <1>v, WithoutFacts
<1>7. DOMAIN rules = Nodes(j) \ {d} /\ Range(t) \subseteq Nodes(j) \ {d, i, j.root}
  BY <1>1, <1>r DEF IsAlone, Nodes
<1>8. /\ Fields \subseteq DOMAIN v /\ v.root = j.root
      /\ Nodes(v) = Nodes(j) \ {d, i} /\ Boards(v) = Boards(j)
      /\ Divisions(v) = Divisions(j) \ {d, i} /\ DOMAIN v.axis = Divisions(j) \ {d, i}
      /\ v.voids = j.voids
      /\ \A y \in Nodes(v) : y \notin Range(t) => v.rule[y] = j.rule[y]
      /\ \A y \in Range(t) : v.rule[y] = f[y]
      /\ \A e \in Divisions(v) : /\ v.axis[e] = j.axis[e]
                                 /\ v.items[e] = IF e = p THEN new ELSE j.items[e]
  <2>1. Nodes(z) = Nodes(j) \ {d} /\ Boards(z) = Boards(j) /\ Divisions(z) = Divisions(j) \ {d}
    BY <1>5, <1>4, <1>7 DEF IsAlone, Nodes, Boards, Divisions
  <2>2. i \notin j.voids
    BY DEF Struct
  <2>3. /\ Nodes(v) = Nodes(j) \ {d, i} /\ Boards(v) = Boards(j)
        /\ Divisions(v) = Divisions(j) \ {d, i} /\ DOMAIN v.axis = Divisions(j) \ {d, i}
        /\ v.voids = j.voids
    BY <2>1, <2>2, <1>1, <1>5, <1>6 DEF IsWithout, IsAlone
  <2>4. \A y \in Nodes(v) : v.rule[y] = rules[y]
    BY <1>5, <1>6 DEF IsWithout
  <2>5. \A y \in Nodes(v) : y \notin Range(t) => v.rule[y] = j.rule[y]
    BY <2>3, <2>4, <1>r, <1>7 DEF IsAlone, Nodes
  <2>6. \A y \in Range(t) : v.rule[y] = f[y]
    BY <2>3, <2>4, <1>r, <1>7
  <2>7. \A e \in Divisions(v) : v.axis[e] = j.axis[e]
    BY <2>3, <1>5, <1>6 DEF IsWithout, IsAlone
  <2>8. \A e \in Divisions(v) : v.items[e] = IF e = p THEN new ELSE j.items[e]
    BY <2>3, <1>4, <1>5, <1>6 DEF IsWithout, IsAlone, Divisions
  <2> QED
    BY <2>3, <2>5, <2>6, <2>7, <2>8, <1>5, <1>6 DEF IsWithout
<1>9. /\ \A e \in Divisions(j) : e # p => d \notin Range(j.items[e])
      /\ \A e, g \in Divisions(j) : e # g => Range(j.items[e]) \cap Range(j.items[g]) = {}
  BY <1>2 DEF Struct
<1>10. IsRun(new, Nodes(j) \ {j.root}) /\ Range(new) = (Range(s) \ {d}) \cup Range(t)
  <2>1. PICK S : S = Nodes(j) \ {j.root}
    OBVIOUS
  <2>2. PICK q, y : q = s /\ y = t
    OBVIOUS
  <2>3. IsRun(q, S) /\ IsRun(y, S) /\ k \in 1 .. Len(q)
    BY <2>1, <2>2, <1>2 DEF Struct
  <2>4. y \in Seq(S) /\ IsInjective(y) /\ Len(y) # 0
    BY <2>3, RunFacts, EmptySeq DEF IsRun
  <2>5. Range(y) \cap Range(q) \subseteq {q[k]}
    BY <2>2, <1>2, <1>3, <1>9
  <2>6. /\ IsRun(Splice(q, k, 1, y), S) \/ Len(y) = 0
        /\ Range(Splice(q, k, 1, y)) = (Range(q) \ {q[k]}) \cup Range(y)
    BY <2>3, <2>4, <2>5, RunWithout
  <2>7. new = Splice(q, k, 1, y)
    BY <2>2, <1>s
  <2> QED
    BY <2>1, <2>2, <2>4, <2>6, <2>7, <1>2
<1>11. \A e \in Divisions(v) : Range(v.items[e]) \subseteq Nodes(v) \ {j.root}
  <2>1. SUFFICES ASSUME NEW e \in Divisions(v) PROVE Range(v.items[e]) \subseteq Nodes(v) \ {j.root}
    OBVIOUS
  <2>2. CASE e = p
    BY <2>1, <2>2, <1>1, <1>2, <1>3, <1>7, <1>8, <1>10
  <2>3. CASE e # p
    BY <2>1, <2>3, <1>1, <1>8, <1>9
  <2> QED
    BY <2>2, <2>3
<1>12. Struct(v)
  <2>1. IsFiniteSet(Nodes(v))
    BY <1>8, FS_Subset DEF Struct
  <2>2. /\ Boards(v) \subseteq Nodes(v) /\ Divisions(v) \subseteq Regions(v)
        /\ v.root \in Regions(v) /\ v.voids \subseteq Regions(v) \ Divisions(v)
    BY <1>1, <1>8 DEF Struct, Regions
  <2>3. ASSUME NEW e \in Divisions(v) PROVE IsRun(v.items[e], Nodes(v) \ {v.root})
    <3>1. PICK q : q = v.items[e]
      OBVIOUS
    <3>2. Range(q) \subseteq Nodes(v) \ {v.root}
      BY <2>3, <3>1, <1>8, <1>11
    <3>3. IsRun(q, Nodes(j) \ {j.root})
      BY <2>3, <3>1, <1>8, <1>10 DEF Struct
    <3> QED
      BY <3>1, <3>2, <3>3, SameRun
  <2>4. \A y \in Nodes(v) \ {v.root} : \E e \in Divisions(v) : y \in Range(v.items[e])
    <3>1. SUFFICES ASSUME NEW y \in Nodes(j), y # d, y # i, y # j.root
                   PROVE  \E e \in Divisions(v) : y \in Range(v.items[e])
      BY <1>8
    <3>2. PICK e \in Divisions(j) : y \in Range(j.items[e])
      BY <3>1 DEF Struct
    <3>3. e # d
      BY <3>1, <3>2, <1>1
    <3>4. CASE e = i
      BY <3>2, <3>4, <1>2, <1>3, <1>8, <1>10
    <3>5. CASE e # i
      BY <3>1, <3>2, <3>3, <3>5, <1>8, <1>10
    <3> QED
      BY <3>4, <3>5
  <2>5. \A e, g \in Divisions(v) : e # g => Range(v.items[e]) \cap Range(v.items[g]) = {}
    <3>1. \A g \in Divisions(v) : g # p => Range(new) \cap Range(j.items[g]) = {}
      BY <1>2, <1>8, <1>9, <1>10
    <3> QED
      BY <3>1, <1>8, <1>9
  <2>6. \E rank : Ranks(v, rank)
    <3>1. PICK rank : Ranks(j, rank)
      BY DEF Struct
    <3> DEFINE mine == [y \in Nodes(v) |-> rank[y]]
    <3>2. mine \in [Nodes(v) -> Nat] /\ \A y \in Nodes(v) : mine[y] = rank[y]
      BY <3>1, <1>8 DEF Ranks
    <3> HIDE DEF mine
    <3>3. ASSUME NEW e \in Divisions(v), NEW y \in Range(v.items[e]) PROVE mine[e] < mine[y]
      <4>1. e \in Nodes(v) /\ y \in Nodes(v) /\ e \in Divisions(j) /\ y \in Nodes(j)
            /\ e \in Nodes(j)
        BY <3>3, <2>2, <1>8, <1>11 DEF Regions
      <4>2. \A g \in Divisions(j) : \A c \in Range(j.items[g]) : rank[g] < rank[c]
        BY <3>1 DEF Ranks
      <4>3. CASE y \in Range(j.items[e])
        BY <4>1, <4>2, <4>3, <3>2
      <4>4. CASE y \notin Range(j.items[e])
        <5>1. e = p /\ y \in Range(t)
          BY <4>4, <3>3, <1>8, <1>10
        <5>2. rank[p] < rank[d] /\ rank[d] < rank[i] /\ rank[i] < rank[y]
          BY <4>2, <5>1, <1>1, <1>2
        <5>3. rank[p] \in Nat /\ rank[d] \in Nat /\ rank[i] \in Nat /\ rank[y] \in Nat
          BY <3>1, <4>1, <5>1, <1>1 DEF Ranks
        <5> QED
          BY <5>1, <5>2, <5>3, <4>1, <3>2
      <4> QED
        BY <4>3, <4>4
    <3> QED
      BY <3>2, <3>3 DEF Ranks
  <2> QED
    BY <2>1, <2>2, <2>3, <2>4, <2>5, <2>6, <1>8 DEF Struct
<1>13. Flat(j) => Flat(v)
  <2>1. SUFFICES ASSUME Flat(j), NEW e \in Divisions(v), NEW g \in Divisions(v),
                        e \in Range(v.items[g])
                 PROVE  v.axis[e] # v.axis[g]
    BY DEF Flat
  <2>2. CASE e \in Range(j.items[g])
    BY <2>1, <2>2, <1>8 DEF Flat
  <2>3. CASE e \notin Range(j.items[g])
    <3>1. g = p /\ e \in Range(t)
      BY <2>1, <2>3, <1>8, <1>10
    <3>2. j.axis[e] # j.axis[i]
      BY <2>1, <3>1, <1>8 DEF Flat
    <3> QED
      BY <2>1, <3>1, <3>2, <1>a, <1>8
  <2> QED
    BY <2>2, <2>3
<1>14. RunsUnlocked(j) => RunsUnlocked(v)
  <2>1. \A y \in Nodes(v) : Unlocked(j, y) => Unlocked(v, y)
    <3>1. SUFFICES ASSUME NEW y \in Nodes(v), Unlocked(j, y) PROVE Unlocked(v, y)
      OBVIOUS
    <3>2. y \notin Boards(v) /\ j.rule[y].kind # "fixed"
      BY <3>1, <1>8 DEF Unlocked, Locked
    <3>3. v.rule[y].kind # "fixed"
      BY <3>1, <3>2, <1>8
    <3> QED
      BY <3>2, <3>3 DEF Unlocked, Locked
  <2>2. SUFFICES ASSUME RunsUnlocked(j), NEW e \in Divisions(v)
                 PROVE  \E y \in Range(v.items[e]) : Unlocked(v, y)
    BY DEF RunsUnlocked
  <2>3. CASE e # p
    <3>1. PICK y \in Range(j.items[e]) : Unlocked(j, y)
      BY <2>2, <1>8 DEF RunsUnlocked
    <3>2. y \in Range(v.items[e]) /\ y \in Nodes(v)
      BY <2>2, <2>3, <3>1, <1>8, <1>11
    <3> QED
      BY <2>1, <3>1, <3>2
  <2>4. CASE e = p
    <3>1. PICK y \in Range(t) : Unlocked(j, y)
      BY <2>2 DEF RunsUnlocked
    <3>2. y \in Range(v.items[e]) /\ y \in Nodes(v)
      BY <2>2, <2>4, <3>1, <1>7, <1>8, <1>10
    <3> QED
      BY <2>1, <3>1, <3>2
  <2> QED
    BY <2>3, <2>4
<1> QED
  BY <1>8, <1>12, <1>13, <1>14 DEF Keeps

\* Members spliced into the run above are locked only if they were.
LEMMA SplicedRulesFacts ==
    ASSUME NEW u, NEW p, NEW k, NEW i
    PROVE  /\ DOMAIN SplicedRules(u, p, k, i) = Range(u.items[i])
           /\ \A y \in Range(u.items[i]) :
                 SplicedRules(u, p, k, i)[y].kind = "fixed" => u.rule[y].kind = "fixed"
<1> DEFINE f == SplicedRules(u, p, k, i)
           K == {k}
           Moves(y) == Driven(u, y) /\ DrivenPlaces(u, p) \ K # {}
           R(y) == SharingRule(u, p, K, Extent(u, y))
<1>1. f = [y \in Range(u.items[i]) |-> IF Moves(y) THEN R(y) ELSE u.rule[y]]
  BY DEF SplicedRules
<1>2. \A y : R(y).kind = "driven"
  <2>1. SUFFICES ASSUME NEW y PROVE R(y).kind = "driven"
    OBVIOUS
  <2>2. PICK mm : mm = Extent(u, y)
    OBVIOUS
  <2>3. SharingRule(u, p, K, mm).kind = "driven"
    BY SharingIsDriven
  <2> QED
    BY <2>2, <2>3
<1> HIDE DEF f, R, Moves
<1>3. DOMAIN f = Range(u.items[i])
  BY <1>1
<1>4. ASSUME NEW y \in Range(u.items[i]), f[y].kind = "fixed" PROVE u.rule[y].kind = "fixed"
  <2>1. f[y] = IF Moves(y) THEN R(y) ELSE u.rule[y]
    BY <1>1
  <2>2. R(y).kind = "driven"
    BY <1>2
  <2> QED
    BY <2>1, <2>2, <1>4
<1> QED
  BY <1>3, <1>4 DEF f

\* A division of one member gives way to it.
LEMMA PromotedFacts ==
    ASSUME NEW u, Struct(u), NEW j, Struct(j), NEW d, NEW i, i \in Regions(u),
           JoinDone(u, j, d, i), Range(j.items[d]) = {i}
    PROVE  Keeps(j, Promoted(u, j, d, i)) /\ Nodes(Promoted(u, j, d, i)) \subseteq Nodes(j)
<1> DEFINE p == RunOf(u, d)
           k == PlaceOf(u, d)
           rule == u.rule[d]
           x == Alone(j, d, i, rule)
           f == SplicedRules(u, p, k, i)
           v == Promoted(u, j, d, i)
           here == [x EXCEPT !.items[p][k] = i]
           in == Without([x EXCEPT !.items[p] = Splice(@, k, 1, u.items[i]),
                                   !.rule = Over(@, f)], {i})
           top == [x EXCEPT !.root = i]
<1>v. v = CASE d = u.root -> top
            [] d # u.root /\ (i \notin Divisions(u) \/ u.axis[i] # u.axis[p]) -> here
            [] d # u.root /\ i \in Divisions(u) /\ u.axis[i] = u.axis[p] -> in
  BY DEF Promoted, Alone
<1>1. /\ j.root = u.root /\ Nodes(j) \subseteq Nodes(u) /\ Boards(j) = Boards(u) \cap Nodes(j)
      /\ Divisions(j) = Divisions(u) \cap Nodes(j)
      /\ \A e \in Divisions(j) : j.axis[e] = u.axis[e] /\ (e # d => j.items[e] = u.items[e])
      /\ \A y \in Nodes(j) : y # i => j.rule[y] = u.rule[y]
      /\ d \in Divisions(j) /\ i \in Range(j.items[d]) /\ i # d
      /\ \A e \in Divisions(u) : \A y \in Range(u.items[e]) : y \in Nodes(j) => e \in Nodes(j)
  BY DEF JoinDone
<1>2. i \in Nodes(j) /\ d \in Nodes(j)
  <2>1. PICK t : t = j.items[d]
    OBVIOUS
  <2>2. IsRun(t, Nodes(j) \ {j.root})
    BY <2>1, <1>1 DEF Struct
  <2>3. Range(t) \subseteq Nodes(j) \ {j.root}
    BY <2>2, RunFacts
  <2> QED
    BY <2>1, <2>3, <1>1
<1>3. Collapses(j, d, i)
  BY <1>1, <1>2 DEF Collapses, Regions
<1>4. j.rule[d] = rule /\ d \notin Boards(j)
  BY <1>1, <1>2, <1>3, CollapseFacts
<1> HIDE DEF v, x, f, here, in, top
<1>5. IsAlone(j, d, i, rule, x)
  BY <1>3, AloneFacts DEF x
<1>6. rule.kind = "fixed" => Locked(j, d)
  BY <1>4 DEF Locked
<1> HIDE DEF rule
<1>7. CASE d = u.root
  <2>1. Keeps(j, top) /\ Nodes(top) \subseteq Nodes(j)
    BY <1>1, <1>3, <1>5, <1>7, PromotedToRoot DEF top
  <2> QED
    BY <2>1, <1>v, <1>7 DEF v
<1>8. CASE d # u.root
  <2>1. d \in Nodes(u) \ {u.root}
    BY <1>1, <1>2, <1>8
  <2>2. p \in Divisions(u) /\ d \in Range(u.items[p])
    BY <2>1, PlaceFacts
  <2>3. p \in Divisions(j)
    BY <2>2, <1>1, <1>2
  <2>4. p # d
    <3>1. PICK rank : Ranks(u, rank)
      BY DEF Struct
    <3>2. rank[p] < rank[d] /\ rank[d] \in Nat
      BY <3>1, <2>1, <2>2 DEF Ranks
    <3> QED
      BY <3>2
  <2>5. j.items[p] = u.items[p] /\ j.axis[p] = u.axis[p]
    BY <2>3, <2>4, <1>1
  <2>6. RunOf(j, d) = p
    <3>1. d \in Range(j.items[p])
      BY <2>2, <2>5
    <3> QED
      BY <3>1, <2>3, PlaceFacts
  <2>7. PlaceOf(j, d) = k
    BY <2>5, <2>6 DEF PlaceOf
  <2>8. i \in Divisions(j) <=> i \in Divisions(u)
    BY <1>1, <1>2
  <2>9. i \in Divisions(j) => j.axis[i] = u.axis[i] /\ j.items[i] = u.items[i]
    BY <1>1
  <2> HIDE DEF p, k
  <2>10. CASE i \notin Divisions(u) \/ u.axis[i] # u.axis[p]
    <3>1. i \notin Divisions(j) \/ j.axis[i] # j.axis[RunOf(j, d)]
      BY <2>5, <2>6, <2>8, <2>9, <2>10
    <3>2. here = [x EXCEPT !.items[RunOf(j, d)][PlaceOf(j, d)] = i]
      BY <2>6, <2>7 DEF here
    <3>3. d # j.root
      BY <1>1, <1>8
    <3>4. Keeps(j, here) /\ Nodes(here) \subseteq Nodes(j)
      BY <3>1, <3>2, <3>3, <1>3, <1>5, <1>6, PromotedInPlace
    <3>5. v = here
      BY <1>v, <1>8, <2>10
    <3> QED
      BY <3>4, <3>5 DEF v
  <2>11. CASE i \in Divisions(u) /\ u.axis[i] = u.axis[p]
    <3>1. i \in Divisions(j) /\ j.axis[i] = j.axis[RunOf(j, d)]
      BY <2>5, <2>6, <2>8, <2>9, <2>11
    <3>2. in = Spliced(j, d, i, x, f)
      BY <2>6, <2>7, <2>9, <3>1 DEF in, Spliced
    <3>3. d # j.root
      BY <1>1, <1>8
    <3>4. DOMAIN f = Range(j.items[i])
      BY <2>9, <3>1, SplicedRulesFacts DEF f
    <3>5. ASSUME NEW y \in DOMAIN f, f[y].kind = "fixed" PROVE j.rule[y].kind = "fixed"
      <4>1. y \in Range(u.items[i]) /\ y \in Range(j.items[i])
        BY <3>4, <3>5, <2>9, <3>1
      <4>2. u.rule[y].kind = "fixed"
        BY <4>1, <3>5, SplicedRulesFacts DEF f
      <4>3. i \notin Range(j.items[i]) /\ Range(j.items[i]) \subseteq Nodes(j) \ {j.root}
        BY <1>3, <3>1, CollapseFacts
      <4> QED
        BY <4>1, <4>2, <4>3, <1>1
    <3>6. Keeps(j, in) /\ Nodes(in) \subseteq Nodes(j)
      BY <3>1, <3>2, <3>3, <3>4, <3>5, <1>3, <1>5, PromotedSpliced
    <3>7. v = in
      BY <1>v, <1>8, <2>11
    <3> QED
      BY <3>6, <3>7 DEF v
  <2> QED
    BY <2>10, <2>11
<1> QED
  BY <1>7, <1>8

\* merge_at() keeps the unit a tree, no run doubled and every run unlocked.
LEMMA MergeFacts ==
    ASSUME NEW u, Struct(u), NEW b, CanMerge(u, b)
    PROVE  Keeps(u, MergeAt(u, b)) /\ Nodes(MergeAt(u, b)) \subseteq Nodes(u)
<1> DEFINE d == RunOf(u, b)
           i == Beside(u, b).low
           left == LeftOf(u, b)
           j == JoinedAt(u, b)
           v == MergeAt(u, b)
<1>1. v = IF Len(left) > 1 THEN j ELSE Promoted(u, j, d, i)
  BY DEF MergeAt, LeftOf, JoinedAt
<1>2. /\ Keeps(u, j) /\ JoinDone(u, j, d, i)
      /\ ~(Len(left) > 1) => Range(j.items[d]) = {i}
  BY JoinedFacts
<1>3. i \in Regions(u)
  BY DEF CanMerge
<1> HIDE DEF d, i, left, j, v
<1>4. Struct(j) /\ Nodes(j) \subseteq Nodes(u)
  BY <1>2 DEF Keeps, JoinDone
<1>5. CASE Len(left) > 1
  BY <1>1, <1>2, <1>4, <1>5 DEF v
<1>6. CASE ~(Len(left) > 1)
  <2>1. Keeps(j, Promoted(u, j, d, i)) /\ Nodes(Promoted(u, j, d, i)) \subseteq Nodes(j)
    BY <1>2, <1>3, <1>4, <1>6, PromotedFacts
  <2>2. Keeps(j, v) /\ Nodes(v) \subseteq Nodes(j)
    BY <2>1, <1>1, <1>6
  <2>3. Keeps(u, v)
    BY <2>2, <1>2, KeepsIsTransitive
  <2> QED
    BY <2>2, <2>3, <1>4 DEF v
<1> QED
  BY <1>5, <1>6

\* To do nothing keeps.
LEMMA KeepsItself ==
    ASSUME NEW u, Struct(u)
    PROVE  Keeps(u, u)
BY DEF Keeps

\* Removing any boards in any order keeps the layout, each removal on the layout
\* the one before it left (edit.py remove_boards).
LEMMA RemovalFacts ==
    ASSUME NEW u, Struct(u), NEW S, NEW bs \in Seq(S)
    PROVE  /\ Keeps(u, RemoveBoards(u, bs).unit)
           /\ Nodes(RemoveBoards(u, bs).unit) \subseteq Nodes(u)
           /\ SameFrame(u, RemoveBoards(u, bs).unit)
<1> DEFINE base == [unit |-> u, outcome |-> "done"]
           v == Removing!Fold(0, base, bs)
<1>1. RemoveBoards(u, bs) = v
  BY DEF RemoveBoards, Removal, Removing!Fold, FoldLeft, Removing!FoldLeft, MapThenFoldSet,
         Removing!MapThenFoldSet, Max, Removing!Max
<1>2. RemovedSoFar(u, 0, base)
  BY KeepsItself, FieldFacts DEF RemovedSoFar, Struct
<1>3. ASSUME NEW k \in 1 .. Len(bs), NEW r, RemovedSoFar(u, k - 1, r)
      PROVE  RemovedSoFar(u, k, Removal(0, r, bs[k]))
  <2>1. /\ DOMAIN r = {"unit", "outcome"} /\ Keeps(u, r.unit) /\ Nodes(r.unit) \subseteq Nodes(u)
        /\ SameFrame(u, r.unit)
    BY <1>3 DEF RemovedSoFar
  <2>2. PICK b : b = bs[k]
    OBVIOUS
  <2>3. PICK w : w = r.unit
    OBVIOUS
  <2>4. PICK m : m = Solved(MergeAt(w, b))
    OBVIOUS
  <2>5. CanMerge(w, b) => Keeps(u, m) /\ Nodes(m) \subseteq Nodes(u)
    <3>1. SUFFICES ASSUME CanMerge(w, b) PROVE Keeps(u, m) /\ Nodes(m) \subseteq Nodes(u)
      OBVIOUS
    <3>2. Struct(w) /\ Keeps(u, w) /\ Nodes(w) \subseteq Nodes(u)
      BY <2>1, <2>3 DEF Keeps
    <3>3. PICK c : c = MergeAt(w, b)
      OBVIOUS
    <3>4. Keeps(w, c) /\ Nodes(c) \subseteq Nodes(w)
      BY <3>1, <3>2, <3>3, MergeFacts
    <3>5. Struct(c)
      BY <3>4 DEF Keeps
    <3>6. Keeps(c, m) /\ Nodes(m) = Nodes(c)
      BY <3>3, <3>5, <2>4, SolvedFacts
    <3>7. Keeps(w, m)
      BY <3>4, <3>6, KeepsIsTransitive
    <3> QED
      BY <3>2, <3>4, <3>6, <3>7, KeepsIsTransitive
  <2>6. PICK c : c = Removal(0, r, b)
    OBVIOUS
  <2>7. \/ c = r
        \/ c = [r EXCEPT !.outcome = "raised"]
        \/ c = [r EXCEPT !.outcome = "refused"]
        \/ (CanMerge(w, b) /\ c = [r EXCEPT !.unit = m])
    BY <2>3, <2>4, <2>6 DEF Removal
  <2>8. /\ DOMAIN c = {"unit", "outcome"}
        /\ (c.unit = w) \/ (CanMerge(w, b) /\ c.unit = m)
    <3>1. DOMAIN r = {"unit", "outcome"} /\ r.unit = w
      BY <2>1, <2>3
    <3>2. CASE c = [r EXCEPT !.outcome = "raised"]
      <4>1. DOMAIN c = {"unit", "outcome"} /\ c.unit = w
        BY <3>1, <3>2
      <4> QED
        BY <4>1
    <3>3. CASE c = [r EXCEPT !.outcome = "refused"]
      <4>1. DOMAIN c = {"unit", "outcome"} /\ c.unit = w
        BY <3>1, <3>3
      <4> QED
        BY <4>1
    <3>4. CASE c = r
      <4>1. DOMAIN c = {"unit", "outcome"} /\ c.unit = w
        BY <3>1, <3>4
      <4> QED
        BY <4>1
    <3>6. CASE CanMerge(w, b) /\ c = [r EXCEPT !.unit = m]
      <4>1. DOMAIN c = {"unit", "outcome"} /\ c.unit = m
        BY <3>1, <3>6
      <4> QED
        BY <4>1, <3>6
    <3> QED
      BY <2>7, <3>2, <3>3, <3>4, <3>6
  <2>9. SameFrame(u, m)
    <3>1. PICK c1 : c1 = MergeAt(w, b)
      OBVIOUS
    <3>2. SameFrame(w, c1)
      BY <2>1, <2>3, <3>1, MergeFrame DEF SameFrame
    <3>3. SameFrame(c1, m)
      BY <2>4, <3>1, <3>2, OperatorFrames DEF SameFrame
    <3> QED
      BY <2>1, <2>3, <3>2, <3>3, SameFrameIsTransitive
  <2> QED
    BY <2>1, <2>2, <2>3, <2>5, <2>6, <2>8, <2>9 DEF RemovedSoFar
<1>4. RemovedSoFar(u, Len(bs), v)
  <2> HIDE DEF base
  <2> QED
    BY <1>2, <1>3, Removing!FoldInvariant
<1> QED
  BY <1>1, <1>4 DEF RemovedSoFar

\* A set of places that is not empty has a last one,
LEMMA MaxExists ==
    ASSUME NEW n \in Nat, NEW S \in SUBSET (1 .. n), S # {}
    PROVE  Max(S) \in S
<1> DEFINE Has(m) == \A R \in SUBSET (1 .. m) : R # {} => \E x \in R : \A y \in R : x >= y
           T == {m \in Nat : Has(m)}
<1>1. Has(0)
  BY 1 .. 0 = {}
<1>2. ASSUME NEW m \in Nat, Has(m) PROVE Has(m + 1)
  <2>1. SUFFICES ASSUME NEW R \in SUBSET (1 .. m + 1), R # {}
                 PROVE  \E x \in R : \A y \in R : x >= y
    OBVIOUS
  <2>2. CASE m + 1 \in R
    <3>1. \A y \in R : m + 1 >= y
      OBVIOUS
    <3> QED
      BY <2>2, <3>1
  <2>3. CASE m + 1 \notin R
    <3>1. R \in SUBSET (1 .. m)
      BY <2>3
    <3> QED
      BY <3>1, <2>1, <1>2
  <2> QED
    BY <2>2, <2>3
<1>3. Nat \subseteq T
  <2> HIDE DEF Has
  <2>1. 0 \in T /\ \A m \in Nat : m \in T => m + 1 \in T
    BY <1>1, <1>2
  <2> QED
    BY <2>1, Removing!Induction
<1>4. \E x \in S : \A y \in S : x >= y
  BY <1>3
<1> QED
  BY <1>4 DEF Max

\* and a first one.
LEMMA MinExists ==
    ASSUME NEW n \in Nat, NEW S \in SUBSET (1 .. n), S # {}
    PROVE  Min(S) \in S
<1>1. S \subseteq Nat
  OBVIOUS
<1>2. PICK x \in S : \A y \in S : ~(<<y, x>> \in OpToRel(<, Nat))
  BY <1>1, NatLessThanWellFounded, WFMin
<1>3. \A y \in S : x =< y
  <2>1. SUFFICES ASSUME NEW y \in S, y < x PROVE FALSE
    BY <1>1
  <2>2. <<y, x>> \in OpToRel(<, Nat)
    BY <1>1, <2>1, Zenon DEF OpToRel
  <2> QED
    BY <2>2, <1>2
<1> QED
  BY <1>3 DEF Min

\* A side of a board holds places of regions of its run.
IsSide(u, run, side) ==
    /\ side.free \in SUBSET (1 .. Len(run)) /\ side.locked \in SUBSET (1 .. Len(run))
    /\ \A x \in side.free \cup side.locked : run[x] \in Regions(u)
    /\ side.free \cup side.locked # {}

\* The run of a board, as Past reads it.
LEMMA BoardsRun ==
    ASSUME NEW u, Struct(u), NEW b \in Boards(u)
    PROVE  /\ RunOf(u, b) \in Divisions(u)
           /\ Len(u.items[RunOf(u, b)]) \in Nat
           /\ PlaceOf(u, b) \in 1 .. Len(u.items[RunOf(u, b)])
           /\ \A x \in 1 .. Len(u.items[RunOf(u, b)]) : u.items[RunOf(u, b)][x] \in Nodes(u)
<1>1. b \in Nodes(u) \ {u.root}
  BY DEF Struct, Regions
<1>2. RunOf(u, b) \in Divisions(u) /\ PlaceOf(u, b) \in 1 .. Len(u.items[RunOf(u, b)])
  BY <1>1, PlaceFacts
<1>3. PICK s : s = u.items[RunOf(u, b)]
  OBVIOUS
<1>4. IsRun(s, Nodes(u) \ {u.root})
  BY <1>2, <1>3 DEF Struct
<1>5. Len(s) \in Nat /\ Range(s) \subseteq Nodes(u) /\ \A k \in 1 .. Len(s) : s[k] \in Range(s)
  BY <1>4, RunFacts
<1> QED
  BY <1>2, <1>3, <1>5

\* Both sides of a board an unlock may free hold a region (edit.py held_by).
LEMMA PastFacts ==
    ASSUME NEW u, Struct(u), NEW b \in Boards(u), Freeable(u, b)
    PROVE  /\ IsSide(u, u.items[RunOf(u, b)], Past(u, b).low)
           /\ IsSide(u, u.items[RunOf(u, b)], Past(u, b).high)
<1>1. PICK run : run = u.items[RunOf(u, b)]
  OBVIOUS
<1>2. PICK k : k = PlaceOf(u, b)
  OBVIOUS
<1>3. /\ Len(run) \in Nat /\ k \in 1 .. Len(run)
      /\ \A x \in 1 .. Len(run) : run[x] \in Nodes(u)
  BY <1>1, <1>2, BoardsRun
<1>4. PICK p : p = Past(u, b)
  OBVIOUS
<1>5. p = [low |-> [free |-> {l \in 1 .. k - 1 : Unlocked(u, run[l])},
                    locked |-> {l \in 1 .. k - 1 : Locked(u, run[l])}],
           high |-> [free |-> {l \in k + 1 .. Len(run) : Unlocked(u, run[l])},
                     locked |-> {l \in k + 1 .. Len(run) : Locked(u, run[l])}]]
  BY <1>1, <1>2, <1>4 DEF Past
<1>6. \A side \in Range(p) : side.free \cup side.locked # {}
  BY <1>4 DEF Freeable
<1>7. p.low \in Range(p) /\ p.high \in Range(p)
  BY <1>5 DEF Range
<1>8. 1 .. k - 1 \subseteq 1 .. Len(run) /\ k + 1 .. Len(run) \subseteq 1 .. Len(run)
  BY <1>3
<1>9. \A i : Unlocked(u, i) \/ Locked(u, i) => i \notin Boards(u)
  BY DEF Unlocked, Locked
<1>10. /\ p.low.free \subseteq 1 .. Len(run) /\ p.low.locked \subseteq 1 .. Len(run)
       /\ p.high.free \subseteq 1 .. Len(run) /\ p.high.locked \subseteq 1 .. Len(run)
  BY <1>5, <1>8
<1>11. /\ \A x \in p.low.free \cup p.low.locked : run[x] \in Regions(u)
       /\ \A x \in p.high.free \cup p.high.locked : run[x] \in Regions(u)
  <2>1. /\ \A x \in p.low.free \cup p.low.locked : run[x] \notin Boards(u)
        /\ \A x \in p.high.free \cup p.high.locked : run[x] \notin Boards(u)
    BY <1>5, <1>9
  <2> QED
    BY <2>1, <1>3, <1>10 DEF Regions
<1> QED
  BY <1>1, <1>4, <1>6, <1>7, <1>10, <1>11 DEF IsSide

\* What holds a board are regions, and beside a board nothing holds are two to
\* resize (edit.py held_by, _side).
LEMMA HoldersFacts ==
    ASSUME NEW u, Struct(u), NEW b \in Boards(u), Freeable(u, b)
    PROVE  /\ Holders(u, b) \in Seq(Regions(u))
           /\ Holders(u, b) = << >> =>
                 FreeBeside(u, b).low \in Regions(u) /\ FreeBeside(u, b).high \in Regions(u)
<1>1. PICK run : run = u.items[RunOf(u, b)]
  OBVIOUS
<1>2. PICK low : low = Past(u, b).low
  OBVIOUS
<1>3. PICK high : high = Past(u, b).high
  OBVIOUS
<1>4. IsSide(u, run, low) /\ IsSide(u, run, high)
  BY <1>1, <1>2, <1>3, PastFacts
<1>5. Len(run) \in Nat
  BY <1>1, BoardsRun
<1>6. low.free = {} => run[Max(low.locked)] \in Regions(u)
  BY <1>4, <1>5, MaxExists DEF IsSide
<1>7. high.free = {} => run[Min(high.locked)] \in Regions(u)
  BY <1>4, <1>5, MinExists DEF IsSide
<1>8. low.free # {} => run[Max(low.free)] \in Regions(u)
  BY <1>4, <1>5, MaxExists DEF IsSide
<1>9. high.free # {} => run[Min(high.free)] \in Regions(u)
  BY <1>4, <1>5, MinExists DEF IsSide
<1>10. PICK s : s = IF low.free = {} THEN <<run[Max(low.locked)]>> ELSE << >>
  OBVIOUS
<1>11. PICK t : t = IF high.free = {} THEN <<run[Min(high.locked)]>> ELSE << >>
  OBVIOUS
<1>12. Holders(u, b) = s \o t
  BY <1>1, <1>2, <1>3, <1>10, <1>11 DEF Holders
<1>13. s \in Seq(Regions(u)) /\ t \in Seq(Regions(u))
  BY <1>6, <1>7, <1>10, <1>11
<1>14. s \o t \in Seq(Regions(u))
  BY <1>13
<1>15. s \o t = << >> => low.free # {} /\ high.free # {}
  <2>1. Len(s \o t) = Len(s) + Len(t) /\ Len(s) \in Nat /\ Len(t) \in Nat
    BY <1>13
  <2>2. s \o t = << >> => Len(s) = 0 /\ Len(t) = 0
    BY <2>1
  <2>3. (low.free = {} => Len(s) = 1) /\ (high.free = {} => Len(t) = 1)
    BY <1>10, <1>11
  <2> QED
    BY <2>2, <2>3
<1>16. FreeBeside(u, b) = [low |-> run[Max(low.free)], high |-> run[Min(high.free)]]
  BY <1>1, <1>2, <1>3 DEF FreeBeside
<1> QED
  BY <1>8, <1>9, <1>12, <1>14, <1>15, <1>16

\* The nodes stay, and what an edit keeps.
KeepsNodes(u, v) == Keeps(u, v) /\ Nodes(v) = Nodes(u) /\ Boards(v) = Boards(u)

\* A region that shares the slack with a rule of its own.
LEMMA ShareFacts ==
    ASSUME NEW u, Struct(u), NEW i \in Regions(u), NEW d, NEW excluded, NEW mm
    PROVE  KeepsNodes(u, WithRule(u, i, SharingRule(u, d, excluded, mm)))
<1>1. PICK rule : rule = SharingRule(u, d, excluded, mm)
  OBVIOUS
<1>2. rule.kind # "fixed"
  BY <1>1, SharingIsDriven
<1>3. PICK v : v = WithRule(u, i, rule)
  OBVIOUS
<1>4. IsWithRule(u, i, rule, v) /\ Keeps(u, v)
  BY <1>2, <1>3, WithRuleFacts
<1> QED
  BY <1>1, <1>3, <1>4 DEF KeepsNodes, IsWithRule

\* Unlocking a region keeps (edit.py unlock).
LEMMA UnlockFacts ==
    ASSUME NEW u, Struct(u), NEW i \in Regions(u)
    PROVE  KeepsNodes(u, Unlock(u, i))
BY ShareFacts DEF Unlock

\* The fold of UnlockHolders, and its invariant.
Freed(c, v, r) == Solved(Unlock(v, r))
\* What holds after n of them.
FreedSoFar(d, n, v) == KeepsNodes(d, v) /\ SameFrame(d, v)
\* The fold of these.
Freeing == INSTANCE FoldTheorems WITH Op <- Freed, P <- FreedSoFar

\* Unlocking all that holds a board keeps (session.py unlock_board).
LEMMA UnlockHoldersFacts ==
    ASSUME NEW u, Struct(u), NEW b \in Boards(u), Freeable(u, b)
    PROVE  KeepsNodes(u, UnlockHolders(u, b)) /\ SameFrame(u, UnlockHolders(u, b))
<1>1. PICK s : s = Holders(u, b)
  OBVIOUS
<1>2. s \in Seq(Regions(u))
  BY <1>1, HoldersFacts
<1>3. UnlockHolders(u, b) = Freeing!Fold(0, u, s)
  BY <1>1 DEF UnlockHolders, Freed, Freeing!Fold, FoldLeft, Freeing!FoldLeft, MapThenFoldSet,
         Freeing!MapThenFoldSet, Max, Freeing!Max
<1>4. FreedSoFar(u, 0, u)
  BY KeepsItself, FieldFacts DEF FreedSoFar, KeepsNodes, Struct
<1>5. ASSUME NEW k \in 1 .. Len(s), NEW v, FreedSoFar(u, k - 1, v)
      PROVE  FreedSoFar(u, k, Freed(0, v, s[k]))
  <2>1. PICK r : r = s[k]
    OBVIOUS
  <2>2. r \in Regions(u)
    BY <1>2, <2>1
  <2>3. KeepsNodes(u, v) /\ SameFrame(u, v)
    BY <1>5 DEF FreedSoFar
  <2>4. Struct(v) /\ r \in Regions(v)
    BY <2>2, <2>3 DEF KeepsNodes, Keeps, Regions
  <2>5. PICK w : w = Unlock(v, r)
    OBVIOUS
  <2>6. KeepsNodes(v, w)
    BY <2>4, <2>5, UnlockFacts
  <2>7. Struct(w)
    BY <2>6 DEF KeepsNodes, Keeps
  <2>8. PICK x : x = Solved(w)
    OBVIOUS
  <2>9. KeepsNodes(w, x)
    BY <2>7, <2>8, SolvedFacts DEF KeepsNodes
  <2>10. Keeps(u, x)
    BY <2>3, <2>6, <2>9, KeepsIsTransitive DEF KeepsNodes
  <2>11. KeepsNodes(u, x)
    BY <2>3, <2>6, <2>9, <2>10 DEF KeepsNodes
  <2>12. SameFrame(u, x)
    <3>1. SameFrame(v, w)
      BY <2>3, <2>5, OperatorFrames DEF Unlock, SameFrame
    <3>2. SameFrame(w, x)
      BY <2>8, <3>1, OperatorFrames DEF SameFrame
    <3> QED
      BY <2>3, <3>1, <3>2, SameFrameIsTransitive
  <2> QED
    BY <2>1, <2>5, <2>8, <2>11, <2>12 DEF FreedSoFar, Freed
<1>6. FreedSoFar(u, Len(s), Freeing!Fold(0, u, s))
  BY <1>2, <1>4, <1>5, Freeing!FoldInvariant
<1> QED
  BY <1>3, <1>6 DEF FreedSoFar

\* A drag gives two regions driven rules, and keeps (edit.py move_board).
LEMMA MoveFacts ==
    ASSUME NEW u, Struct(u), NEW b \in Boards(u), Movable(u, b), NEW mm
    PROVE  KeepsNodes(u, MoveBoard(u, b, mm))
<1>1. PICK sides : sides = FreeBeside(u, b)
  OBVIOUS
<1>2. sides.low \in Regions(u) /\ sides.high \in Regions(u)
  BY <1>1, HoldersFacts DEF Movable
<1>3. PICK shift : shift = Shift(mm -- u.space[b].low[AxisOf(u, b)],
                                 Extent(u, sides.low), Extent(u, sides.high))
  OBVIOUS
<1>4. PICK d : d = RunOf(u, b)
  OBVIOUS
<1>5. MoveBoard(u, b, mm) = Resized(u, d, sides, shift)
  BY <1>1, <1>3, <1>4 DEF MoveBoard
<1>6. PICK lowmm : lowmm = Extent(u, sides.low) ++ shift
  OBVIOUS
<1>7. PICK highmm : highmm = Extent(u, sides.high) -- shift
  OBVIOUS
<1>8. PICK v : v = WithRule(u, sides.low, SharingRule(u, d, {}, lowmm))
  OBVIOUS
<1>9. PICK rule : rule = SharingRule(u, d, {}, highmm)
  OBVIOUS
<1>10. PICK w : w = WithRule(v, sides.high, rule)
  OBVIOUS
<1>11. Resized(u, d, sides, shift) = w
  BY <1>6, <1>7, <1>8, <1>9, <1>10 DEF Resized
<1>12. KeepsNodes(u, v)
  BY <1>2, <1>8, ShareFacts
<1>13. Struct(v) /\ sides.high \in Regions(v)
  BY <1>2, <1>12 DEF KeepsNodes, Keeps, Regions
<1>14. rule.kind # "fixed"
  BY <1>9, SharingIsDriven
<1>15. IsWithRule(v, sides.high, rule, w) /\ Keeps(v, w)
  BY <1>10, <1>13, <1>14, WithRuleFacts
<1>16. Keeps(u, w)
  BY <1>12, <1>15, KeepsIsTransitive DEF KeepsNodes
<1> QED
  BY <1>5, <1>11, <1>12, <1>15, <1>16 DEF KeepsNodes, IsWithRule

\* A layout of the model is Struct: the nodes on a path rank its last one.
LEMMA LayoutIsStruct ==
    ASSUME NEW u, IsLayout(u)
    PROVE  Struct(u)
<1> DEFINE path(i) == PathOf(u, i) \cap Nodes(u)
           rank == [i \in Nodes(u) |-> Cardinality(path(i))]
<1>1. \A i : IsFiniteSet(path(i)) /\ Cardinality(path(i)) \in Nat
  <2>1. ASSUME NEW i PROVE IsFiniteSet(path(i)) /\ Cardinality(path(i)) \in Nat
    <3>1. IsFiniteSet(Nodes(u)) /\ path(i) \in SUBSET Nodes(u)
      BY DEF IsLayout
    <3> HIDE DEF path
    <3> QED
      BY <3>1, FS_Subset, FS_CardinalityType
  <2> QED
    BY <2>1
<1>2. \A d \in Divisions(u) : IsRun(u.items[d], Nodes(u) \ {u.root})
  BY DEF IsLayout, IsTree, IsRun
<1>3. ASSUME NEW d \in Divisions(u), NEW i \in Range(u.items[d])
      PROVE  rank[d] < rank[i]
  <2>1. i \in Nodes(u) /\ d \in Nodes(u)
    BY <1>2, RunFacts DEF IsLayout, IsTree, Regions
  <2>2. path(i) = path(d) \cup {i} /\ i \notin path(d)
    BY <1>3, <2>1 DEF IsLayout
  <2>3. PICK S : S = path(d)
    OBVIOUS
  <2>4. PICK T : T = path(i)
    OBVIOUS
  <2>5. T = S \cup {i} /\ i \notin S /\ IsFiniteSet(S) /\ Cardinality(S) \in Nat
    BY <1>1, <2>2, <2>3, <2>4
  <2>6. Cardinality(T) = Cardinality(S) + 1
    BY <2>5, FS_AddElement
  <2> QED
    BY <2>1, <2>3, <2>4, <2>5, <2>6
<1>4. Ranks(u, rank)
  <2>1. rank \in [Nodes(u) -> Nat]
    BY <1>1
  <2> HIDE DEF rank
  <2> QED
    BY <2>1, <1>3 DEF Ranks
<1>5. ASSUME NEW d \in Divisions(u), NEW e \in Divisions(u), d # e
      PROVE  Range(u.items[d]) \cap Range(u.items[e]) = {}
  <2>1. SUFFICES ASSUME NEW i \in Range(u.items[d]), i \in Range(u.items[e]) PROVE FALSE
    OBVIOUS
  <2>2. i \in Nodes(u) \ {u.root}
    BY <1>2, <2>1, RunFacts
  <2>3. PICK c \in Divisions(u) : \A x \in Divisions(u) \ {c} : i \notin Range(u.items[x])
    BY <2>2 DEF IsLayout, IsTree
  <2> QED
    BY <1>5, <2>1, <2>3
<1>6. \A i \in Nodes(u) \ {u.root} : \E d \in Divisions(u) : i \in Range(u.items[d])
  BY DEF IsLayout, IsTree
<1> HIDE DEF rank
<1> QED
  BY <1>2, <1>4, <1>5, <1>6 DEF Struct, IsLayout, IsTree

\* And the reverse.
LEMMA StructIsLayout ==
    ASSUME NEW u, Struct(u)
    PROVE  IsLayout(u)
<1>1. PICK rank : Ranks(u, rank)
  BY DEF Struct
<1>2. ASSUME NEW d \in Divisions(u), NEW i \in Range(u.items[d])
      PROVE  PathOf(u, i) = PathOf(u, d) \cup {i} /\ i \notin PathOf(u, d)
  <2>1. IsRun(u.items[d], Nodes(u) \ {u.root})
    BY DEF Struct
  <2>2. i \in Nodes(u) \ {u.root} /\ d \in Nodes(u)
    BY <2>1, RunFacts DEF Struct, Regions
  <2>3. RunOf(u, i) = d
    BY PlaceFacts
  <2>4. PathOf(u, i) = {i} \cup PathOf(u, d)
    BY <2>2, <2>3, PathStep
  <2>5. \A h \in PathOf(u, d) : h = d \/ rank[h] < rank[d]
    BY <1>1, <2>2, PathFacts
  <2>6. rank[d] < rank[i] /\ rank[d] \in Nat /\ rank[i] \in Nat
    BY <1>1, <2>2 DEF Ranks
  <2>7. i \notin PathOf(u, d)
    BY <2>5, <2>6
  <2> QED
    BY <2>4, <2>7
<1>3. \A d \in Divisions(u) : u.items[d] \in Seq(Nodes(u) \ {u.root})
  BY DEF Struct, IsRun
<1>4. IsTree(u)
  BY StructIsTree
<1> QED
  BY <1>2, <1>3, <1>4 DEF IsLayout, Struct

\* What a step does to the unit.
Grows(u, v) == Keeps(u, v) /\ Cardinality(Nodes(v)) <= Cardinality(Nodes(u)) + 4
\* Every node has a place.
AllPlaced(u) == DOMAIN u.space = Nodes(u)

\* An edit that makes no node grows nothing.
LEMMA NoMoreNodes ==
    ASSUME NEW u, Struct(u), NEW v, Keeps(u, v), Nodes(v) \subseteq Nodes(u)
    PROVE  Grows(u, v)
<1>1. IsFiniteSet(Nodes(u))
  BY DEF Struct
<1>2. PICK S : S = Nodes(u)
  OBVIOUS
<1>3. PICK T : T = Nodes(v)
  OBVIOUS
<1>4. IsFiniteSet(S) /\ T \in SUBSET S
  BY <1>1, <1>2, <1>3
<1>5. IsFiniteSet(T) /\ Cardinality(T) <= Cardinality(S)
  BY <1>4, FS_Subset
<1>6. Cardinality(S) \in Nat /\ Cardinality(T) \in Nat
  BY <1>4, <1>5, FS_CardinalityType
<1>7. Cardinality(T) <= Cardinality(S) + 4
  BY <1>5, <1>6
<1> QED
  BY <1>2, <1>3, <1>7 DEF Grows

\* solve() places every node.
LEMMA SolvedIsPlaced ==
    ASSUME NEW u, Struct(u)
    PROVE  AllPlaced(Solved(u))
<1>1. PICK s : s = Spaces(u)
  OBVIOUS
<1>2. DOMAIN s = Nodes(u)
  BY <1>1 DEF Spaces
<1>3. Solved(u) = [u EXCEPT !.space = s]
  BY <1>1 DEF Solved
<1>4. Solved(u).space = s
  BY <1>3 DEF Struct, Fields
<1> QED
  BY <1>2, <1>4, SolvedFacts DEF AllPlaced

\* _apply solves what the edit made, and keeps what it kept.
LEMMA ApplyFacts ==
    ASSUME NEW u, NEW c, Grows(u, c)
    PROVE  Grows(u, Solved(c)) /\ AllPlaced(Solved(c))
<1>1. Keeps(u, c) /\ Struct(c)
  BY DEF Grows, Keeps
<1>2. PICK v : v = Solved(c)
  OBVIOUS
<1>3. Keeps(c, v) /\ Nodes(v) = Nodes(c) /\ AllPlaced(v)
  BY <1>1, <1>2, SolvedFacts, SolvedIsPlaced
<1>4. Keeps(u, v)
  BY <1>1, <1>3, KeepsIsTransitive
<1> QED
  BY <1>2, <1>3, <1>4 DEF Grows

\* The edits that size the unit, its boards' stock or its fixed point leave
\* the tree and the rules.
LEMMA SizeFacts ==
    ASSUME NEW u, Struct(u)
    PROVE  /\ \A bs, mm : KeepsNodes(u, SetThickness(u, bs, mm))
           /\ \A a, mm : KeepsNodes(u, SetUnitSize(u, a, mm))
           /\ \A a, side : KeepsNodes(u, [u EXCEPT !.fixed[a] = side])
<1>1. ASSUME NEW bs, NEW mm PROVE KeepsNodes(u, SetThickness(u, bs, mm))
  <2>1. PICK f : f = [b \in DOMAIN u.thick |-> IF b \in bs THEN mm ELSE u.thick[b]]
    OBVIOUS
  <2>2. DOMAIN f = DOMAIN u.thick
    BY <2>1
  <2> DEFINE v == [u EXCEPT !.thick = f]
  <2>3. SetThickness(u, bs, mm) = v
    BY <2>1 DEF SetThickness, Struct, Fields
  <2>4. /\ Fields \subseteq DOMAIN v /\ v.root = u.root /\ v.items = u.items /\ v.axis = u.axis
        /\ v.voids = u.voids /\ v.rule = u.rule /\ DOMAIN v.thick = DOMAIN u.thick
    BY <2>2 DEF Struct, Fields
  <2> HIDE DEF v
  <2> QED
    BY <2>3, <2>4, SameRuns DEF KeepsNodes
<1>2. ASSUME NEW a, NEW mm PROVE KeepsNodes(u, SetUnitSize(u, a, mm))
  <2>1. PICK x : x = FixedPoint(u, a) -- FixedOffset(u, a, mm)
    OBVIOUS
  <2> DEFINE v == [u EXCEPT !.size[a] = mm, !.low[a] = x]
  <2>2. SetUnitSize(u, a, mm) = v
    BY <2>1 DEF SetUnitSize
  <2>3. /\ Fields \subseteq DOMAIN v /\ v.root = u.root /\ v.items = u.items /\ v.axis = u.axis
        /\ v.voids = u.voids /\ v.rule = u.rule /\ v.thick = u.thick
    BY DEF Struct, Fields
  <2> HIDE DEF v
  <2> QED
    BY <2>2, <2>3, SameRuns DEF KeepsNodes
<1>3. ASSUME NEW a, NEW side PROVE KeepsNodes(u, [u EXCEPT !.fixed[a] = side])
  <2> DEFINE v == [u EXCEPT !.fixed[a] = side]
  <2>1. /\ Fields \subseteq DOMAIN v /\ v.root = u.root /\ v.items = u.items /\ v.axis = u.axis
        /\ v.voids = u.voids /\ v.rule = u.rule /\ v.thick = u.thick
    BY DEF Struct, Fields
  <2> HIDE DEF v
  <2>2. KeepsNodes(u, v)
    BY <2>1, SameRuns DEF KeepsNodes
  <2> QED
    BY <2>2 DEF v
<1> QED
  BY <1>1, <1>2, <1>3

\* An edit of rules and sizes makes no node.
LEMMA KeepsNodesGrows ==
    ASSUME NEW u, Struct(u), NEW v, KeepsNodes(u, v)
    PROVE  Grows(u, v)
BY NoMoreNodes DEF KeepsNodes

\* An accepted edit's candidate is the unit it leaves, solved.
Becomes(u, v) == v = u \/ \E c : Grows(u, c) /\ v = Solved(c)

\* So every step keeps the layout and places its nodes.
LEMMA BecomesFacts ==
    ASSUME NEW u, Struct(u), AllPlaced(u), NEW v, Becomes(u, v)
    PROVE  Grows(u, v) /\ AllPlaced(v)
<1>1. CASE v = u
  BY <1>1, KeepsItself, NoMoreNodes
<1>2. CASE \E c : Grows(u, c) /\ v = Solved(c)
  BY <1>2, ApplyFacts
<1> QED
  BY <1>1, <1>2 DEF Becomes

\* The inductive invariant: the unit is one tree, every node of it placed, and
\* there are identifiers for the edits to come.
Inv ==
    /\ Struct(unit) /\ AllPlaced(unit)
    /\ edits \in 0 .. MaxEdits
    /\ EnoughIds(Cardinality(Nodes(unit)) + 4 * (MaxEdits + 1 - edits))

\* A region with a size of its own.
LEMMA SetSizeFacts ==
    ASSUME NEW u, Struct(u), NEW r, NEW mm, NEW basis, CanFix(u, r)
    PROVE  Grows(u, SetSize(u, r, mm, basis))
<1>1. r \in Regions(u)
  BY DEF CanFix, Sizable
<1>2. PICK rule : rule = Fixed(mm, basis)
  OBVIOUS
<1>3. PICK v : v = WithRule(u, r, rule)
  OBVIOUS
<1>4. IsWithRule(u, r, rule, v) /\ Keeps(u, v)
  BY <1>1, <1>3, WithRuleFacts
<1>5. KeepsNodes(u, v)
  BY <1>4 DEF IsWithRule, KeepsNodes
<1> QED
  BY <1>2, <1>3, <1>5, KeepsNodesGrows DEF SetSize

\* Every edit of the session makes its layout by one of the operators above.
LEMMA EditFacts ==
    ASSUME Inv, edits < MaxEdits, Edit
    PROVE  Becomes(unit, unit')
<1> USE DEF Apply, Becomes
<1>0. Struct(unit)
  BY DEF Inv
<1>1. ASSUME NEW r \in Bays(unit), NEW a \in Axes, Split(r, a) PROVE Becomes(unit, unit')
  <2>1. Room(unit)
    <3>1. PICK n : n = Cardinality(Nodes(unit))
      OBVIOUS
    <3>2. n \in Nat
      BY <1>0, <3>1, FS_CardinalityType DEF Struct
    <3>3. MaxEdits \in Nat /\ edits \in 0 .. MaxEdits /\ edits < MaxEdits
      BY BoundAssumption DEF Inv
    <3>4. n + 4 <= n + 4 * (MaxEdits + 1 - edits)
      BY <3>2, <3>3
    <3>5. ASSUME IsFiniteSet(Ids) PROVE n + 4 <= Cardinality(Ids)
      <4>1. n + 4 * (MaxEdits + 1 - edits) <= Cardinality(Ids)
        BY <3>1, <3>5 DEF Inv, EnoughIds
      <4>2. Cardinality(Ids) \in Nat
        BY <3>5, FS_CardinalityType
      <4> QED
        BY <3>2, <3>3, <3>4, <4>1, <4>2
    <3> QED
      BY <3>1, <3>5 DEF Room, EnoughIds
  <2>2. CanSplit(unit, r, a)
    BY <1>1 DEF Split
  <2>3. Grows(unit, SplitRegion(unit, r, a))
    BY <1>0, <2>1, <2>2, SplitFacts DEF Grows
  <2> QED
    BY <1>1, <2>3 DEF Split
<1>2. ASSUME NEW bs \in Selections(unit), DeleteBoards(bs) PROVE Becomes(unit, unit')
  <2>1. PICK r : r = RemoveBoards(unit, bs)
    OBVIOUS
  <2>2. bs \in Seq(Boards(unit))
    BY DEF Selections, SeqOf
  <2>3. Grows(unit, r.unit)
    BY <1>0, <2>1, <2>2, RemovalFacts, NoMoreNodes
  <2> QED
    BY <1>2, <2>1, <2>3 DEF DeleteBoards, Removed
<1>3. ASSUME NEW bs \in Selections(unit), NEW mm \in Thicknesses, SwapStock(bs, mm)
      PROVE  Becomes(unit, unit')
  BY <1>0, <1>3, SizeFacts, KeepsNodesGrows DEF SwapStock
<1>4. ASSUME NEW r \in Regions(unit), NEW mm \in Sizes, TypeSize(r, mm)
      PROVE  Becomes(unit, unit')
  BY <1>0, <1>4, SetSizeFacts DEF TypeSize, CanSetSize
<1>5. ASSUME NEW r \in Regions(unit), NEW basis \in Bases, ChangeBasis(r, basis)
      PROVE  Becomes(unit, unit')
  BY <1>0, <1>5, SetSizeFacts DEF ChangeBasis, CanSetSize, SetBasis
<1>6. ASSUME NEW r \in Regions(unit), SetLock(r) PROVE Becomes(unit, unit')
  BY <1>0, <1>6, SetSizeFacts DEF SetLock, Lock
<1>7. ASSUME NEW r \in Regions(unit), ClearLock(r) PROVE Becomes(unit, unit')
  BY <1>0, <1>7, UnlockFacts, KeepsNodesGrows DEF ClearLock
<1>8. ASSUME NEW b \in Boards(unit), FreeBoard(b) PROVE Becomes(unit, unit')
  BY <1>0, <1>8, UnlockHoldersFacts, KeepsNodesGrows DEF FreeBoard
<1>9. ASSUME NEW b \in Boards(unit), NEW mm \in LowFaces, DragTo(b, mm)
      PROVE  Becomes(unit, unit')
  BY <1>0, <1>9, MoveFacts, KeepsNodesGrows DEF DragTo
<1>10. ASSUME NEW a \in Axes, NEW mm \in UnitSizes, Resize(a, mm) PROVE Becomes(unit, unit')
  BY <1>0, <1>10, SizeFacts, KeepsNodesGrows DEF Resize
<1>11. ASSUME NEW a \in Axes, NEW side \in Sides, SetFixedSide(a, side)
       PROVE  Becomes(unit, unit')
  BY <1>0, <1>11, SizeFacts, KeepsNodesGrows DEF SetFixedSide
<1> QED
  BY <1>1, <1>2, <1>3, <1>4, <1>5, <1>6, <1>7, <1>8, <1>9, <1>10, <1>11 DEF Edit

\* Where node i is, the division above it being at w.
PlacedIn(u, i, w) ==
    LET d == RunOf(u, i)
        k == PlaceOf(u, i)
        a == u.axis[d]
    IN  InRun(w, a, k, Distribute(u, d, w.size[a]))

\* Where the root is: it fills the unit.
OuterSpace(u) == [low |-> u.low, size |-> u.size]

\* What Spaces is defined by, on the nodes D.
Places(u, D, f) ==
    f = [i \in D |-> IF i = u.root THEN OuterSpace(u) ELSE PlacedIn(u, i, f[RunOf(u, i)])]

\* The nodes down to a depth.
Above(u, n) == {i \in Nodes(u) : Cardinality(PathOf(u, i)) <= n}

\* The depth of a node is that of the division above it and one.
LEMMA DepthFacts ==
    ASSUME NEW u, Struct(u), NEW i \in Nodes(u)
    PROVE  /\ Cardinality(PathOf(u, i)) \in 1 .. Cardinality(Nodes(u))
           /\ i # u.root => /\ RunOf(u, i) \in Nodes(u)
                            /\ Cardinality(PathOf(u, RunOf(u, i))) + 1 = Cardinality(PathOf(u, i))
<1>1. PICK rank : Ranks(u, rank)
  BY DEF Struct
<1>2. IsFiniteSet(Nodes(u))
  BY DEF Struct
<1>3. ASSUME NEW j \in Nodes(u)
      PROVE  /\ PathOf(u, j) \subseteq Nodes(u) /\ j \in PathOf(u, j)
             /\ IsFiniteSet(PathOf(u, j)) /\ Cardinality(PathOf(u, j)) \in Nat
             /\ \A h \in PathOf(u, j) : h = j \/ rank[h] < rank[j]
  <2>1. /\ PathOf(u, j) \subseteq Nodes(u) /\ j \in PathOf(u, j)
        /\ \A h \in PathOf(u, j) : h = j \/ rank[h] < rank[j]
    BY <1>1, PathFacts
  <2>2. PICK S : S = PathOf(u, j)
    OBVIOUS
  <2>3. IsFiniteSet(S) /\ Cardinality(S) \in Nat
    BY <1>2, <2>1, <2>2, FS_Subset, FS_CardinalityType
  <2> QED
    BY <2>1, <2>2, <2>3
<1>4. PICK S : S = PathOf(u, i)
  OBVIOUS
<1>5. S \subseteq Nodes(u) /\ i \in S /\ IsFiniteSet(S)
  BY <1>3, <1>4
<1>6. Cardinality(S) \in 1 .. Cardinality(Nodes(u))
  <2>1. Cardinality(S) <= Cardinality(Nodes(u)) /\ Cardinality(Nodes(u)) \in Nat /\ Cardinality(S) \in Nat
    BY <1>2, <1>5, FS_Subset, FS_CardinalityType
  <2>2. Cardinality(S) # 0
    BY <1>5, FS_EmptySet
  <2> QED
    BY <2>1, <2>2
<1>7. ASSUME i # u.root
      PROVE  /\ RunOf(u, i) \in Nodes(u)
             /\ Cardinality(PathOf(u, RunOf(u, i))) + 1 = Cardinality(PathOf(u, i))
  <2>1. PICK d : d = RunOf(u, i)
    OBVIOUS
  <2>2. d \in Divisions(u) /\ i \in Range(u.items[d]) /\ d \in Nodes(u)
    BY <1>7, <2>1, PlaceFacts DEF Struct, Regions
  <2>3. PICK T : T = PathOf(u, d)
    OBVIOUS
  <2>4. S = {i} \cup T
    BY <1>4, <1>7, <2>1, <2>3, PathStep
  <2>5. IsFiniteSet(T) /\ Cardinality(T) \in Nat
    BY <1>3, <2>2, <2>3
  <2>6. i \notin T
    <3>1. rank[d] < rank[i] /\ rank[d] \in Nat /\ rank[i] \in Nat
      BY <1>1, <2>2 DEF Ranks
    <3>2. \A h \in T : h = d \/ rank[h] < rank[d]
      BY <1>3, <2>2, <2>3
    <3> QED
      BY <3>1, <3>2
  <2>7. Cardinality(S) = Cardinality(T) + 1
    <3>1. S = T \cup {i}
      BY <2>4
    <3> QED
      BY <3>1, <2>5, <2>6, FS_AddElement
  <2> QED
    BY <1>4, <2>1, <2>2, <2>3, <2>7
<1> QED
  BY <1>4, <1>6, <1>7

\* There is a place for every node, by the depth: what places the nodes of one
\* depth places those of the next.
LEMMA PlacesExist ==
    ASSUME NEW u, Struct(u)
    PROVE  \E f : Places(u, Nodes(u), f)
<1> DEFINE T == {n \in Nat : \E f : Places(u, Above(u, n), f)}
<1>1. 0 \in T
  <2>1. Above(u, 0) = {}
    <3>1. ASSUME NEW i \in Nodes(u) PROVE ~(Cardinality(PathOf(u, i)) <= 0)
      <4>1. Cardinality(Nodes(u)) \in Nat
        BY FS_CardinalityType DEF Struct
      <4> QED
        BY <4>1, DepthFacts
    <3> QED
      BY <3>1 DEF Above
  <2>2. Places(u, {}, [i \in {} |-> i])
    BY DEF Places
  <2> QED
    BY <2>1, <2>2
<1>2. ASSUME NEW n \in Nat, n \in T PROVE n + 1 \in T
  <2>1. PICK f : Places(u, Above(u, n), f)
    BY <1>2
  <2> DEFINE F(g, i) == IF i = u.root THEN OuterSpace(u) ELSE PlacedIn(u, i, g[RunOf(u, i)])
             g == [i \in Above(u, n + 1) |-> F(f, i)]
  <2>2. f = [i \in Above(u, n) |-> F(f, i)]
    BY <2>1 DEF Places
  <2>3. Above(u, n) \subseteq Above(u, n + 1)
    <3>1. ASSUME NEW i \in Nodes(u), Cardinality(PathOf(u, i)) <= n
          PROVE  Cardinality(PathOf(u, i)) <= n + 1
      <4>1. Cardinality(Nodes(u)) \in Nat
        BY FS_CardinalityType DEF Struct
      <4>2. Cardinality(PathOf(u, i)) \in 1 .. Cardinality(Nodes(u))
        BY DepthFacts
      <4> QED
        BY <4>1, <4>2, <3>1
    <3> QED
      BY <3>1 DEF Above
  <2>4. ASSUME NEW i \in Above(u, n + 1), i # u.root PROVE RunOf(u, i) \in Above(u, n)
    <3>1. i \in Nodes(u) /\ Cardinality(PathOf(u, i)) <= n + 1
      BY DEF Above
    <3>2. RunOf(u, i) \in Nodes(u) /\ Cardinality(PathOf(u, RunOf(u, i))) + 1 = Cardinality(PathOf(u, i))
      BY <2>4, <3>1, DepthFacts
    <3>3. Cardinality(PathOf(u, RunOf(u, i))) \in Int
      BY <3>2, DepthFacts
    <3> QED
      BY <3>1, <3>2, <3>3 DEF Above
  <2>5. \A i \in Above(u, n) : g[i] = f[i]
    <3> HIDE DEF F
    <3> QED
      BY <2>2, <2>3
  <2>6. \A i \in Above(u, n + 1) : F(f, i) = F(g, i)
    <3> HIDE DEF g
    <3> QED
      BY <2>4, <2>5
  <2>7. g = [i \in Above(u, n + 1) |-> F(g, i)]
    <3>1. \A i \in Above(u, n + 1) : g[i] = F(f, i)
      <4> HIDE DEF F
      <4> QED
        OBVIOUS
    <3>2. g = [i \in Above(u, n + 1) |-> g[i]]
      <4> HIDE DEF F
      <4> QED
        OBVIOUS
    <3> HIDE DEF F, g
    <3> QED
      BY <3>1, <3>2, <2>6
  <2>8. Places(u, Above(u, n + 1), g)
    <3> HIDE DEF g
    <3> QED
      BY <2>7 DEF Places
  <2> QED
    BY <2>8
<1>3. Nat \subseteq T
  <2> HIDE DEF T
  <2> QED
    BY <1>1, <1>2, Removing!Induction
<1>4. PICK c \in Nat : c = Cardinality(Nodes(u))
  BY FS_CardinalityType DEF Struct
<1>5. Above(u, c) = Nodes(u)
  BY <1>4, DepthFacts DEF Above
<1>6. c \in T
  BY <1>3
<1> QED
  BY <1>5, <1>6

\* So solve() places every node in the division above it.
LEMMA SpacesFacts ==
    ASSUME NEW u, Struct(u)
    PROVE  Places(u, Nodes(u), Spaces(u))
<1> DEFINE f == CHOOSE f : Places(u, Nodes(u), f)
<1>1. Spaces(u) = [i \in Nodes(u) |-> f[i]]
  BY DEF Spaces, Places, PlacedIn, OuterSpace
<1>2. Places(u, Nodes(u), f)
  BY PlacesExist
<1> HIDE DEF f
<1>3. f = [i \in Nodes(u) |-> f[i]]
  BY <1>2 DEF Places
<1> QED
  BY <1>1, <1>2, <1>3

RootPlaced(u) == u.space[u.root] = OuterSpace(u)

\* solve() places the root so.
LEMMA SolvedRoot ==
    ASSUME NEW u, Struct(u)
    PROVE  RootPlaced(Solved(u))
<1>1. PICK s : s = Spaces(u)
  OBVIOUS
<1>2. Solved(u) = [u EXCEPT !.space = s]
  BY <1>1 DEF Solved
<1>3. PICK v : v = Solved(u)
  OBVIOUS
<1>4. v.space = s /\ v.root = u.root /\ v.low = u.low /\ v.size = u.size
  BY <1>2, <1>3 DEF Struct, Fields
<1>5. u.root \in Nodes(u)
  BY DEF Struct, Regions
<1>6. s[u.root] = [low |-> u.low, size |-> u.size]
  BY <1>1, <1>5, SpacesFacts DEF Places, OuterSpace
<1> QED
  BY <1>3, <1>4, <1>6 DEF RootPlaced, OuterSpace

\* A drag gives two regions other rules.
LEMMA MoveFrame ==
    ASSUME NEW u, Struct(u), NEW b, NEW mm
    PROVE  SameFrame(u, MoveBoard(u, b, mm))
<1>1. ASSUME NEW i, NEW r, NEW j, NEW q
      PROVE  SameFrame(u, WithRule(WithRule(u, i, r), j, q))
  <2>1. PICK v : v = WithRule(u, i, r)
    OBVIOUS
  <2>2. SameFrame(u, v)
    BY <2>1, OperatorFrames DEF Struct
  <2>3. SameFrame(v, WithRule(v, j, q))
    BY <2>2, OperatorFrames DEF SameFrame
  <2> QED
    BY <2>1, <2>2, <2>3, SameFrameIsTransitive
<1> QED
  BY <1>1 DEF MoveBoard, Resized

\* What an edit makes of the outer size, the place and the fixed point.
Reframes(u, v) ==
    \/ SameFrame(u, v)
    \/ \E a \in Axes, mm \in UnitSizes : v = Solved(SetUnitSize(u, a, mm))
    \/ \E a \in Axes, side \in Sides : v = Solved([u EXCEPT !.fixed[a] = side])

\* Every edit but two leaves all three.
LEMMA EditFrames ==
    ASSUME Struct(unit), Edit
    PROVE  Reframes(unit, unit')
<1>1. ASSUME NEW c, SameFrame(unit, c) PROVE SameFrame(unit, Solved(c))
  <2>1. SameFrame(c, Solved(c))
    BY <1>1, OperatorFrames DEF SameFrame
  <2> QED
    BY <1>1, <2>1, SameFrameIsTransitive
<1>2. Fields \subseteq DOMAIN unit
  BY DEF Struct
<1> USE DEF Apply, Reframes
<1>3. ASSUME NEW r, NEW a, Split(r, a) PROVE Reframes(unit, unit')
  BY <1>1, <1>2, <1>3, SplitFrame DEF Split
<1>4. ASSUME NEW bs \in Selections(unit), DeleteBoards(bs) PROVE Reframes(unit, unit')
  <2>1. PICK r : r = RemoveBoards(unit, bs)
    OBVIOUS
  <2>2. bs \in Seq(Boards(unit))
    BY DEF Selections, SeqOf
  <2>3. SameFrame(unit, r.unit)
    BY <2>1, <2>2, RemovalFacts
  <2>4. SameFrame(unit, unit)
    BY <1>2, FieldFacts
  <2> QED
    BY <1>1, <1>4, <2>1, <2>3, <2>4 DEF DeleteBoards, Removed
<1>5. ASSUME NEW bs, NEW mm, SwapStock(bs, mm) PROVE Reframes(unit, unit')
  BY <1>1, <1>2, <1>5, OperatorFrames DEF SwapStock
<1>6. ASSUME NEW r, NEW mm, TypeSize(r, mm) PROVE Reframes(unit, unit')
  BY <1>1, <1>2, <1>6, OperatorFrames DEF TypeSize, SetSize
<1>7. ASSUME NEW r, NEW basis, ChangeBasis(r, basis) PROVE Reframes(unit, unit')
  BY <1>1, <1>2, <1>7, OperatorFrames DEF ChangeBasis, SetBasis, SetSize
<1>8. ASSUME NEW r, SetLock(r) PROVE Reframes(unit, unit')
  BY <1>1, <1>2, <1>8, OperatorFrames DEF SetLock, Lock, SetSize
<1>9. ASSUME NEW r, ClearLock(r) PROVE Reframes(unit, unit')
  BY <1>1, <1>2, <1>9, OperatorFrames DEF ClearLock, Unlock
<1>10. ASSUME NEW b \in Boards(unit), FreeBoard(b) PROVE Reframes(unit, unit')
  BY <1>1, <1>10, UnlockHoldersFacts DEF FreeBoard
<1>11. ASSUME NEW b, NEW mm, DragTo(b, mm) PROVE Reframes(unit, unit')
  BY <1>1, <1>11, MoveFrame DEF DragTo
<1>12. ASSUME NEW a \in Axes, NEW mm \in UnitSizes, Resize(a, mm) PROVE Reframes(unit, unit')
  BY <1>12 DEF Resize
<1>13. ASSUME NEW a \in Axes, NEW side \in Sides, SetFixedSide(a, side)
       PROVE  Reframes(unit, unit')
  BY <1>13 DEF SetFixedSide
<1> QED
  BY <1>3, <1>4, <1>5, <1>6, <1>7, <1>8, <1>9, <1>10, <1>11, <1>12, <1>13 DEF Edit

\* A step of the session keeps the invariant and the layout.
LEMMA StepFacts ==
    ASSUME Inv, [Next]_vars
    PROVE  Inv' /\ Keeps(unit, unit')
<1>0. Struct(unit) /\ AllPlaced(unit)
  BY DEF Inv
<1>1. CASE Next
  <2>1. edits < MaxEdits /\ edits' = edits + 1 /\ Edit
    BY <1>1 DEF Next
  <2>2. Becomes(unit, unit')
    BY <2>1, EditFacts
  <2>3. PICK v : v = unit'
    OBVIOUS
  <2>4. Grows(unit, v) /\ AllPlaced(v)
    BY <1>0, <2>2, <2>3, BecomesFacts
  <2>5. Keeps(unit, v) /\ Struct(v)
    BY <2>4 DEF Grows, Keeps
  <2>6. PICK m : m = Cardinality(Nodes(unit))
    OBVIOUS
  <2>7. PICK n : n = Cardinality(Nodes(v))
    OBVIOUS
  <2>8. m \in Nat /\ n \in Nat /\ n <= m + 4
    BY <1>0, <2>4, <2>5, <2>6, <2>7, FS_CardinalityType DEF Struct, Grows
  <2>9. /\ MaxEdits \in Nat /\ edits \in 0 .. MaxEdits
        /\ EnoughIds(m + 4 * (MaxEdits + 1 - edits))
    BY <2>6, BoundAssumption DEF Inv
  <2>10. edits' \in 0 .. MaxEdits
    BY <2>1, <2>9
  <2>11. ASSUME IsFiniteSet(Ids)
         PROVE  n + 4 * (MaxEdits + 1 - edits') <= Cardinality(Ids)
    <3>1. m + 4 * (MaxEdits + 1 - edits) <= Cardinality(Ids) /\ Cardinality(Ids) \in Nat
      BY <2>9, <2>11, FS_CardinalityType DEF EnoughIds
    <3> QED
      BY <3>1, <2>1, <2>8, <2>9
  <2>12. EnoughIds(n + 4 * (MaxEdits + 1 - edits'))
    BY <2>11 DEF EnoughIds
  <2> QED
    BY <2>3, <2>4, <2>5, <2>7, <2>10, <2>12 DEF Inv
<1>2. CASE UNCHANGED vars
  <2>1. unit' = unit /\ edits' = edits
    BY <1>2 DEF vars
  <2>2. Keeps(unit, unit')
    BY <1>0, <2>1, KeepsItself
  <2> QED
    BY <2>1, <2>2 DEF Inv, Struct, AllPlaced, EnoughIds, Nodes, Boards, Divisions, Regions, Ranks
<1> QED
  BY <1>1, <1>2

\* So does opening a unit: solve() changes no rule.
LEMMA StartFacts ==
    ASSUME Init
    PROVE  /\ Inv
           /\ \E u \in StartUnits : Struct(u) /\ Keeps(u, unit)
<1>1. PICK u \in StartUnits : unit = Solved(u)
  BY DEF Init
<1>2. IsLayout(u) /\ EnoughIds(Cardinality(Nodes(u)) + 4 * (MaxEdits + 1))
  BY StartAssumption
<1>3. Struct(u)
  BY <1>2, LayoutIsStruct
<1>4. Keeps(u, unit) /\ Nodes(unit) = Nodes(u) /\ AllPlaced(unit)
  BY <1>1, <1>3, SolvedFacts, SolvedIsPlaced
<1>5. edits = 0 /\ MaxEdits \in Nat
  BY BoundAssumption DEF Init
<1>6. edits \in 0 .. MaxEdits /\ MaxEdits + 1 - edits = MaxEdits + 1
  BY <1>5
<1> QED
  BY <1>2, <1>3, <1>4, <1>6 DEF Inv, Keeps

\* Through every step the layout is sound.
THEOREM UnitIsSound == Spec => []Inv
<1>1. Init => Inv
  BY StartFacts
<1>2. Inv /\ [Next]_vars => Inv'
  BY StepFacts
<1> QED
  BY <1>1, <1>2, PTL DEF Spec

\* The unit of a session is always one tree of finitely many nodes: every node but
\* the root in one place of one run, none above itself, the voids among the leaves
\* (edit.py split_region, merge_at, remove_boards and the edits of rules).
THEOREM UnitIsLayout == Spec => [](IsLayout(unit))
<1>1. Inv => IsLayout(unit)
  BY StructIsLayout DEF Inv
<1> QED
  BY <1>1, UnitIsSound, PTL

\* In a layout of the proofs the two ways to say it are one.
LEMMA FlatIsNoNesting ==
    ASSUME Inv
    PROVE  Flat(unit) <=> NoSameAxisNesting
<1>0. Struct(unit)
  BY DEF Inv
<1>1. ASSUME Flat(unit) PROVE NoSameAxisNesting
  <2>1. SUFFICES ASSUME NEW d \in Divisions(unit) \ {unit.root}
                 PROVE  AxisOf(unit, d) # unit.axis[d]
    BY DEF NoSameAxisNesting
  <2>2. d \in Nodes(unit) \ {unit.root}
    BY <1>0 DEF Struct, Regions
  <2>3. RunOf(unit, d) \in Divisions(unit) /\ d \in Range(unit.items[RunOf(unit, d)])
    BY <1>0, <2>2, PlaceFacts
  <2> QED
    BY <1>1, <2>1, <2>3 DEF Flat, AxisOf
<1>2. ASSUME NoSameAxisNesting PROVE Flat(unit)
  <2>1. SUFFICES ASSUME NEW d \in Divisions(unit), NEW e \in Divisions(unit),
                        d \in Range(unit.items[e])
                 PROVE  unit.axis[d] # unit.axis[e]
    BY DEF Flat
  <2>2. RunOf(unit, d) = e
    BY <1>0, <2>1, PlaceFacts
  <2>3. IsRun(unit.items[e], Nodes(unit) \ {unit.root})
    BY <1>0 DEF Struct
  <2>4. d # unit.root
    BY <2>1, <2>3, RunFacts
  <2> QED
    BY <1>2, <2>2, <2>4 DEF NoSameAxisNesting, AxisOf
<1> QED
  BY <1>1, <1>2

\* Whatever layout a session opens with, and it may open with a run that is all
\* locked (record.py with_stored_rules), no edit locks the last unlocked region of a
\* run, and none nests a division in a run along its own axis.
THEOREM EditsKeepRuns ==
    Spec => [][/\ RunsKeepOneUnlocked => RunsKeepOneUnlocked'
               /\ NoSameAxisNesting => NoSameAxisNesting']_vars
<1>1. Inv /\ [Next]_vars =>
        [/\ RunsKeepOneUnlocked => RunsKeepOneUnlocked'
         /\ NoSameAxisNesting => NoSameAxisNesting']_vars
  <2>1. SUFFICES ASSUME Inv, [Next]_vars
                 PROVE  /\ RunsKeepOneUnlocked => RunsKeepOneUnlocked'
                        /\ NoSameAxisNesting => NoSameAxisNesting'
    OBVIOUS
  <2>2. Inv' /\ Keeps(unit, unit')
    BY <2>1, StepFacts
  <2>3. RunsKeepOneUnlocked => RunsKeepOneUnlocked'
    BY <2>2 DEF Keeps, RunsUnlocked, RunsKeepOneUnlocked
  <2>4. (Flat(unit) <=> NoSameAxisNesting) /\ (Flat(unit) <=> NoSameAxisNesting)'
    BY <2>1, <2>2, FlatIsNoNesting, PTL
  <2>5. NoSameAxisNesting => NoSameAxisNesting'
    BY <2>2, <2>4 DEF Keeps
  <2> QED
    BY <2>3, <2>5
<1> QED
  BY <1>1, UnitIsSound, PTL DEF Spec

\* Opened with an unlocked region in every run, the unit keeps one there through
\* every sequence of edits (edit.py _refuse_last_unlocked, _merged_rule,
\* _splice_collapsed_child and the rules a split and a drag write).
THEOREM RunsStayUnlocked ==
    ASSUME \A u \in StartUnits : RunsUnlocked(u)
    PROVE  Spec => []RunsKeepOneUnlocked
<1>1. Init => Inv /\ RunsUnlocked(unit)
  BY StartFacts DEF Keeps
<1>2. Inv /\ RunsUnlocked(unit) /\ [Next]_vars => (Inv /\ RunsUnlocked(unit))'
  BY StepFacts DEF Keeps
<1>3. RunsUnlocked(unit) => RunsKeepOneUnlocked
  BY DEF RunsUnlocked, RunsKeepOneUnlocked
<1> QED
  BY <1>1, <1>2, <1>3, PTL DEF Spec

\* Opened with no division in a run along its own axis, the unit never comes to
\* have one (bug-006; edit.py split_region and merge_at).
THEOREM NestingNeverComes ==
    ASSUME \A u \in StartUnits : Flat(u)
    PROVE  Spec => []NoSameAxisNesting
<1>1. Init => Inv /\ Flat(unit)
  BY StartFacts DEF Keeps
<1>2. Inv /\ Flat(unit) /\ [Next]_vars => (Inv /\ Flat(unit))'
  BY StepFacts DEF Keeps
<1>3. Inv /\ Flat(unit) => NoSameAxisNesting
  BY FlatIsNoNesting
<1> QED
  BY <1>1, <1>2, <1>3, PTL DEF Spec

------------------------------------------------------------------------------
(* The solver.                                                             *)

------------------------------------------------------------------------------
(* Euclid's algorithm.                                                     *)

\* What holds of each number where it holds of all below holds of all.
LEMMA StrongInduction ==
    ASSUME NEW T, \A n \in Nat : (\A m \in Nat : m < n => m \in T) => n \in T
    PROVE  Nat \subseteq T
<1> DEFINE R == Nat \ T
<1> SUFFICES ASSUME R # {} PROVE FALSE
  OBVIOUS
<1>1. PICK n \in R : \A m \in R : ~(<<m, n>> \in OpToRel(<, Nat))
  <2>1. R \subseteq Nat
    OBVIOUS
  <2> HIDE DEF R
  <2> QED
    BY <2>1, NatLessThanWellFounded, WFMin
<1>2. ASSUME NEW m \in Nat, m < n PROVE m \in T
  <2>1. <<m, n>> \in OpToRel(<, Nat)
    BY <1>2, Zenon DEF OpToRel
  <2> QED
    BY <2>1, <1>1
<1> QED
  BY <1>2

Divides(d, n) == \E k \in Int : n = d * k

\* g divides both a and b, and is made of them, so that it is the greatest to.
IsGcd(g, a, b) ==
    /\ g \in Nat /\ Divides(g, a) /\ Divides(g, b)
    /\ \E x, y \in Int : a * x + b * y = g

\* What a division leaves.
LEMMA Remainder ==
    ASSUME NEW a \in Nat, NEW b \in Nat, b # 0
    PROVE  /\ a % b \in Nat /\ a % b < b /\ a \div b \in Nat
           /\ a = b * (a \div b) + (a % b)
  OBVIOUS

\* One step of the algorithm.
LEMMA GcdStep ==
    ASSUME NEW a \in Nat, NEW b \in Nat, b # 0, NEW g
    PROVE  IsGcd(g, a, b) <=> IsGcd(g, b, a % b)
<1> DEFINE q == a \div b
           r == a % b
<1>1. q \in Int /\ r \in Int /\ a = b * q + r
  BY Remainder
<1> HIDE DEF q, r
<1>2. ASSUME IsGcd(g, a, b) PROVE IsGcd(g, b, r)
  <2>1. PICK k \in Int, l \in Int : a = g * k /\ b = g * l
    BY <1>2 DEF IsGcd, Divides
  <2>2. g \in Int
    BY <1>2 DEF IsGcd
  <2>3. r = g * (k - l * q)
    <3>1. r = g * k - (g * l) * q
      BY <1>1, <2>1
    <3> QED
      BY <1>1, <2>1, <2>2, <3>1
  <2>4. Divides(g, r)
    BY <1>1, <2>1, <2>3 DEF Divides
  <2>5. PICK x \in Int, y \in Int : a * x + b * y = g
    BY <1>2 DEF IsGcd
  <2>6. b * (q * x + y) + r * x = g
    <3>1. (b * q + r) * x + b * y = g
      BY <1>1, <2>5
    <3> QED
      BY <1>1, <2>5, <3>1
  <2>7. q * x + y \in Int
    BY <1>1
  <2> QED
    BY <1>2, <2>4, <2>6, <2>7 DEF IsGcd
<1>3. ASSUME IsGcd(g, b, r) PROVE IsGcd(g, a, b)
  <2>1. PICK k \in Int, l \in Int : b = g * k /\ r = g * l
    BY <1>3 DEF IsGcd, Divides
  <2>2. g \in Int
    BY <1>3 DEF IsGcd
  <2>3. a = g * (k * q + l)
    <3>1. a = (g * k) * q + g * l
      BY <1>1, <2>1
    <3> QED
      BY <1>1, <2>1, <2>2, <3>1
  <2>4. Divides(g, a)
    BY <1>1, <2>1, <2>3 DEF Divides
  <2>5. PICK x \in Int, y \in Int : b * x + r * y = g
    BY <1>3 DEF IsGcd
  <2>6. a * y + b * (x - q * y) = g
    <3>1. r = a - b * q
      BY <1>1
    <3>2. b * x + (a - b * q) * y = g
      BY <2>5, <3>1
    <3> QED
      BY <1>1, <2>5, <3>2
  <2>7. x - q * y \in Int
    BY <1>1
  <2> QED
    BY <1>3, <2>4, <2>6, <2>7 DEF IsGcd
<1> QED
  BY <1>2, <1>3 DEF r

\* And its end.
LEMMA GcdEnd ==
    ASSUME NEW a \in Nat, NEW g
    PROVE  IsGcd(g, a, 0) <=> g = a
<1>1. ASSUME IsGcd(g, a, 0) PROVE g = a
  <2>1. PICK k \in Int : a = g * k
    BY <1>1 DEF IsGcd, Divides
  <2>2. PICK x \in Int, y \in Int : a * x + 0 * y = g
    BY <1>1 DEF IsGcd
  <2>3. a * x = g /\ g \in Nat
    BY <2>2, <1>1 DEF IsGcd
  <2>4. CASE a = 0
    BY <2>3, <2>4
  <2>5. CASE a # 0
    <3>1. a * (x * k) = a
      BY <2>1, <2>3
    <3>2. x * k = 1
      BY <2>5, <3>1
    <3>3. k > 0 /\ x > 0
      <4>1. g > 0
        BY <2>1, <2>3, <2>5
      <4> QED
        BY <4>1, <2>1, <2>3, <2>5
    <3>4. x = 1
      BY <3>2, <3>3
    <3> QED
      BY <2>3, <3>4
  <2> QED
    BY <2>4, <2>5
<1>2. IsGcd(a, a, 0)
  <2>1. a = a * 1 /\ 0 = a * 0 /\ a * 1 + 0 * 0 = a
    OBVIOUS
  <2> QED
    BY <2>1 DEF IsGcd, Divides
<1> QED
  BY <1>1, <1>2

\* What Gcd is defined by.
IsEuclid(f) ==
    f = [p \in Nat \X Nat |-> IF p[2] = 0 THEN p[1] ELSE f[<<p[2], p[1] % p[2]>>]]

\* There is such a function, that of the greatest common divisors themselves.
LEMMA EuclidExists == \E f : IsEuclid(f)
<1> DEFINE g(p) == CHOOSE g : IsGcd(g, p[1], p[2])
           f == [p \in Nat \X Nat |-> g(p)]
<1>1. ASSUME NEW p \in Nat \X Nat, p[2] = 0 PROVE g(p) = p[1]
  BY <1>1, GcdEnd
<1>2. ASSUME NEW p \in Nat \X Nat, p[2] # 0
      PROVE  /\ <<p[2], p[1] % p[2]>> \in Nat \X Nat
             /\ g(p) = g(<<p[2], p[1] % p[2]>>)
  <2> DEFINE r == p[1] % p[2]
  <2>1. p[1] \in Nat /\ p[2] \in Nat /\ r \in Nat
    BY <1>2, Remainder
  <2>2. \A h : IsGcd(h, p[1], p[2]) <=> IsGcd(h, p[2], r)
    BY <1>2, <2>1, GcdStep
  <2> HIDE DEF r
  <2>3. <<p[2], r>>[1] = p[2] /\ <<p[2], r>>[2] = r
    OBVIOUS
  <2>4. g(p) = g(<<p[2], r>>)
    BY <2>2, <2>3, Zenon
  <2> QED
    BY <2>1, <2>4 DEF r
<1> HIDE DEF g
<1>3. \A p \in Nat \X Nat : f[p] = IF p[2] = 0 THEN p[1] ELSE f[<<p[2], p[1] % p[2]>>]
  BY <1>1, <1>2
<1>4. f = [p \in Nat \X Nat |-> f[p]]
  OBVIOUS
<1> HIDE DEF f
<1>5. IsEuclid(f)
  BY <1>3, <1>4 DEF IsEuclid
<1> QED
  BY <1>5

\* Gcd finds the greatest common divisor.
LEMMA GcdFacts ==
    ASSUME NEW a \in Nat, NEW b \in Nat
    PROVE  IsGcd(Gcd[<<a, b>>], a, b)
<1>1. Gcd = CHOOSE f : IsEuclid(f)
  BY DEF Gcd, IsEuclid
<1>2. IsEuclid(Gcd)
  BY <1>1, EuclidExists, Zenon
<1>3. \A p \in Nat \X Nat : Gcd[p] = IF p[2] = 0 THEN p[1] ELSE Gcd[<<p[2], p[1] % p[2]>>]
  BY <1>2 DEF IsEuclid
<1> DEFINE T == {d \in Nat : \A c \in Nat : IsGcd(Gcd[<<c, d>>], c, d)}
<1>4. ASSUME NEW d \in Nat, \A e \in Nat : e < d => e \in T PROVE d \in T
  <2>1. SUFFICES ASSUME NEW c \in Nat PROVE IsGcd(Gcd[<<c, d>>], c, d)
    OBVIOUS
  <2>2. <<c, d>> \in Nat \X Nat /\ <<c, d>>[1] = c /\ <<c, d>>[2] = d
    OBVIOUS
  <2>3. CASE d = 0
    <3>1. Gcd[<<c, d>>] = c
      BY <1>3, <2>2, <2>3
    <3> QED
      BY <3>1, <2>3, GcdEnd
  <2>4. CASE d # 0
    <3>1. c % d \in Nat /\ c % d < d
      BY <2>4, Remainder
    <3>2. IsGcd(Gcd[<<d, c % d>>], d, c % d)
      BY <3>1, <1>4
    <3>3. Gcd[<<c, d>>] = Gcd[<<d, c % d>>]
      BY <1>3, <2>2, <2>4
    <3> QED
      BY <2>4, <3>2, <3>3, GcdStep
  <2> QED
    BY <2>3, <2>4
<1>5. Nat \subseteq T
  <2> HIDE DEF T
  <2> QED
    BY <1>4, StrongInduction
<1> QED
  BY <1>5

------------------------------------------------------------------------------
(* Lowest terms.                                                           *)

\* A pair in lowest terms.
IsReduced(p) ==
    /\ p \in Int \X (Nat \ {0})
    /\ \E x, y \in Int : p[1] * x + p[2] * y = 1

\* A division without remainder.
LEMMA DivExact ==
    ASSUME NEW g \in Nat, g # 0, NEW k \in Int
    PROVE  (g * k) \div g = k
<1>1. PICK q : q = (g * k) \div g
  OBVIOUS
<1>2. q \in Int /\ g * q <= g * k /\ g * k < g * q + g
  <2>1. PICK n \in Int : n = g * k
    OBVIOUS
  <2>2. n \div g \in Int /\ g * (n \div g) <= n /\ n < g * (n \div g) + g
    <3>1. n \div g \in Int /\ n % g \in 0 .. g - 1 /\ n = g * (n \div g) + (n % g)
      OBVIOUS
    <3> QED
      BY <3>1
  <2> QED
    BY <1>1, <2>1, <2>2
<1>3. g * (k - q) >= 0 /\ g * (k - q) < g
  BY <1>2
<1>4. k - q >= 0
  BY <1>2, <1>3
<1>5. k - q < 1
  BY <1>2, <1>3, <1>4
<1> QED
  BY <1>1, <1>2, <1>4, <1>5

\* Frac reduces and keeps the value.
LEMMA FracFacts ==
    ASSUME NEW n \in Int, NEW d \in Int, d # 0
    PROVE  IsReduced(Frac(n, d)) /\ Frac(n, d)[1] * d = n * Frac(n, d)[2]
<1> DEFINE g == IF d = 1 THEN 1 ELSE Gcd[<<Abs(n), Abs(d)>>]
           s == IF d < 0 THEN -1 ELSE 1
           t == IF n < 0 THEN -1 ELSE 1
<1>1. Abs(n) = t * n /\ Abs(d) = s * d /\ s * s = 1 /\ t * t = 1 /\ s \in Int /\ t \in Int
  BY DEF Abs
<1>2. Abs(n) \in Nat /\ Abs(d) \in Nat /\ Abs(d) # 0
  BY DEF Abs
<1>3. IsGcd(g, Abs(n), Abs(d))
  <2>1. CASE d = 1
    <3>1. Abs(n) = 1 * Abs(n) /\ Abs(d) = 1 * 1 /\ Abs(n) * 0 + Abs(d) * 1 = 1
      BY <1>2, <2>1 DEF Abs
    <3> QED
      BY <1>2, <2>1, <3>1 DEF IsGcd, Divides
  <2>2. CASE d # 1
    BY <1>2, <2>2, GcdFacts
  <2> QED
    BY <2>1, <2>2
<1>4. Frac(n, d) = <<(s * n) \div g, (s * d) \div g>>
  BY DEF Frac
<1> HIDE DEF g, s, t
<1>5. PICK k \in Int, l \in Int : Abs(n) = g * k /\ Abs(d) = g * l
  BY <1>3 DEF IsGcd, Divides
<1>6. g \in Nat /\ g # 0
  BY <1>2, <1>3, <1>5 DEF IsGcd
<1>7. s * n = g * (s * t * k) /\ s * d = g * l
  <2>1. n = t * (g * k)
    <3>1. t * (t * n) = t * (g * k)
      BY <1>1, <1>5
    <3>2. t * (t * n) = (t * t) * n
      BY <1>1
    <3> QED
      BY <1>1, <3>1, <3>2
  <2>2. s * (t * (g * k)) = g * (s * t * k)
    BY <1>1, <1>5, <1>6
  <2> QED
    BY <1>1, <1>5, <2>1, <2>2
<1>8. PICK a \in Int : a = s * t * k
  BY <1>1
<1>9. Frac(n, d) = <<a, l>>
  BY <1>4, <1>6, <1>7, <1>8, DivExact
<1>10. l > 0
  BY <1>2, <1>5, <1>6
<1>11. PICK x \in Int, y \in Int : Abs(n) * x + Abs(d) * y = g
  BY <1>3 DEF IsGcd
<1>12. a * (s * t * x) + l * y = 1
  <2>1. g * (k * x + l * y) = g
    BY <1>5, <1>6, <1>11
  <2>2. k * x + l * y = 1
    BY <1>6, <2>1
  <2>3. a * (s * t * x) = ((s * s) * (t * t)) * (k * x)
    BY <1>1, <1>8
  <2> QED
    BY <1>1, <2>2, <2>3
<1>13. s * t * x \in Int
  BY <1>1
<1>14. a * d = n * l
  <2>1. d = s * (g * l) /\ n = s * (g * a)
    <3>1. s * (s * d) = s * (g * l) /\ s * (s * n) = s * (g * a)
      BY <1>7, <1>8
    <3>2. s * (s * d) = (s * s) * d /\ s * (s * n) = (s * s) * n
      BY <1>1
    <3> QED
      BY <1>1, <3>1, <3>2
  <2>2. a * (s * (g * l)) = (s * (g * a)) * l
    BY <1>1, <1>6
  <2> QED
    BY <2>1, <2>2
<1>15. <<a, l>>[1] = a /\ <<a, l>>[2] = l /\ <<a, l>> \in Int \X (Nat \ {0})
  BY <1>10
<1> QED
  BY <1>9, <1>12, <1>13, <1>14, <1>15 DEF IsReduced

\* Two pairs in lowest terms are one where their cross products are.
LEMMA ReducedEqual ==
    ASSUME NEW p, IsReduced(p), NEW q, IsReduced(q), p[1] * q[2] = q[1] * p[2]
    PROVE  p = q
<1>1. PICK a \in Int, b \in Nat \ {0} : p = <<a, b>>
  BY DEF IsReduced
<1>2. PICK c \in Int, d \in Nat \ {0} : q = <<c, d>>
  BY DEF IsReduced
<1>3. PICK x \in Int, y \in Int : a * x + b * y = 1
  BY <1>1 DEF IsReduced
<1>4. PICK z \in Int, w \in Int : c * z + d * w = 1
  BY <1>2 DEF IsReduced
<1>5. a * d = c * b
  BY <1>1, <1>2
<1>6. d = b * (c * x + d * y)
  <2>1. d * (a * x + b * y) = d
    BY <1>3
  <2>2. (a * d) * x + b * d * y = d
    BY <2>1, <1>3
  <2>3. (c * b) * x + b * d * y = d
    BY <1>5, <2>2
  <2> QED
    BY <2>3, <1>3
<1>7. b = d * (a * z + b * w)
  <2>1. b * (c * z + d * w) = b
    BY <1>4
  <2>2. (c * b) * z + d * b * w = b
    BY <2>1, <1>4
  <2>3. (a * d) * z + d * b * w = b
    BY <1>5, <2>2
  <2> QED
    BY <2>3, <1>4
<1>8. PICK m \in Int : m = c * x + d * y
  BY <1>3
<1>9. PICK n \in Int : n = a * z + b * w
  BY <1>4
<1>10. d = b * m /\ b = d * n
  BY <1>6, <1>7, <1>8, <1>9
<1>11. m > 0 /\ n > 0
  BY <1>10
<1>12. d >= b /\ b >= d
  <2>1. b * m >= b /\ d * n >= d
    BY <1>11
  <2> QED
    BY <1>10, <2>1
<1>13. b = d
  BY <1>12
<1>14. a = c
  BY <1>5, <1>13
<1> QED
  BY <1>1, <1>2, <1>13, <1>14

\* So Frac is equal where the values are.
LEMMA FracEqual ==
    ASSUME NEW m \in Int, NEW d \in Int, d # 0, NEW n \in Int, NEW e \in Int, e # 0
    PROVE  Frac(m, d) = Frac(n, e) <=> m * e = n * d
<1>1. PICK p : p = Frac(m, d)
  OBVIOUS
<1>2. PICK q : q = Frac(n, e)
  OBVIOUS
<1>3. IsReduced(p) /\ p[1] * d = m * p[2]
  BY <1>1, FracFacts
<1>4. IsReduced(q) /\ q[1] * e = n * q[2]
  BY <1>2, FracFacts
<1>5. PICK a \in Int, b \in Nat \ {0} : p = <<a, b>>
  BY <1>3 DEF IsReduced
<1>6. PICK c \in Int, f \in Nat \ {0} : q = <<c, f>>
  BY <1>4 DEF IsReduced
<1>7. a * d = m * b /\ c * e = n * f
  BY <1>3, <1>4, <1>5, <1>6
<1>8. ASSUME p = q PROVE m * e = n * d
  <2>1. a = c /\ b = f
    BY <1>5, <1>6, <1>8
  <2>2. b * (m * e) = (a * d) * e
    BY <1>7
  <2>3. b * (n * d) = (a * e) * d
    BY <1>7, <2>1
  <2>4. b * (m * e) = b * (n * d)
    BY <2>2, <2>3
  <2>5. b * (m * e - n * d) = 0
    BY <2>4
  <2> QED
    BY <2>5
<1>9. ASSUME m * e = n * d PROVE p = q
  <2>1. (a * f) * (d * e) = (c * b) * (d * e)
    <3>1. (a * f) * (d * e) = (a * d) * (f * e)
      OBVIOUS
    <3>2. (c * b) * (d * e) = (c * e) * (b * d)
      OBVIOUS
    <3>3. (m * b) * (f * e) = (m * e) * (b * f)
      OBVIOUS
    <3>4. (n * f) * (b * d) = (n * d) * (b * f)
      OBVIOUS
    <3> QED
      BY <3>1, <3>2, <3>3, <3>4, <1>7, <1>9
  <2>2. d * e # 0
    OBVIOUS
  <2>3. PICK z \in Int : z = d * e
    OBVIOUS
  <2>4. PICK s \in Int, t \in Int : s = a * f /\ t = c * b
    OBVIOUS
  <2>5. s * z = t * z /\ z # 0
    BY <2>1, <2>2, <2>3, <2>4
  <2>6. s = t
    BY <2>5
  <2>7. p[1] * q[2] = q[1] * p[2]
    BY <2>4, <2>6, <1>5, <1>6
  <2> QED
    BY <2>7, <1>3, <1>4, ReducedEqual
<1> QED
  BY <1>1, <1>2, <1>8, <1>9

\* What IsFraction says is that a pair is in lowest terms.
LEMMA FractionIsReduced ==
    ASSUME NEW p
    PROVE  IsFraction(p) <=> IsReduced(p)
<1>1. ASSUME IsFraction(p) PROVE IsReduced(p)
  <2>1. PICK a \in Int, b \in Nat \ {0} : p = <<a, b>>
    BY <1>1 DEF IsFraction
  <2>2. p = Frac(a, b)
    BY <2>1, <1>1 DEF IsFraction
  <2> QED
    BY <2>2, FracFacts
<1>2. ASSUME IsReduced(p) PROVE IsFraction(p)
  <2>1. PICK a \in Int, b \in Nat \ {0} : p = <<a, b>>
    BY <1>2 DEF IsReduced
  <2>2. PICK q : q = Frac(a, b)
    OBVIOUS
  <2>3. IsReduced(q) /\ q[1] * b = a * q[2]
    BY <2>2, FracFacts
  <2>4. p[1] * q[2] = q[1] * p[2]
    BY <2>1, <2>3 DEF IsReduced
  <2>5. p = q
    BY <1>2, <2>3, <2>4, ReducedEqual
  <2>6. p = Frac(p[1], p[2])
    BY <2>1, <2>2, <2>5
  <2> QED
    BY <2>6, <1>2 DEF IsFraction, IsReduced
<1> QED
  BY <1>1, <1>2

\* So what Frac gives is a fraction,
LEMMA FracIsFraction ==
    ASSUME NEW n \in Int, NEW d \in Int, d # 0
    PROVE  IsFraction(Frac(n, d))
BY FracFacts, FractionIsReduced

\* and a whole number, over one, is one.
LEMMA WholeIsFrac ==
    ASSUME NEW n \in Int
    PROVE  Whole(n) = Frac(n, 1) /\ IsFraction(Whole(n))
<1>1. (1 * n) \div 1 = n /\ (1 * 1) \div 1 = 1
  BY DivExact
<1>2. Frac(n, 1) = <<n, 1>>
  BY <1>1 DEF Frac
<1> QED
  BY <1>2, FracIsFraction DEF Whole

\* A fraction, as its numerator over its denominator.
LEMMA FractionParts ==
    ASSUME NEW p, IsFraction(p)
    PROVE  p = <<p[1], p[2]>> /\ p[1] \in Int /\ p[2] \in Nat \ {0} /\ p = Frac(p[1], p[2])
BY DEF IsFraction

------------------------------------------------------------------------------
(* The operations over a common denominator.                               *)

\* A sum, a difference and a comparison.
LEMMA OverOneDenominator ==
    ASSUME NEW m \in Int, NEW n \in Int, NEW d \in Nat, d # 0
    PROVE  /\ Frac(m, d) ++ Frac(n, d) = Frac(m + n, d)
           /\ Frac(m, d) -- Frac(n, d) = Frac(m - n, d)
           /\ Frac(m, d) \prec Frac(n, d) <=> m < n
           /\ Frac(m, d) \preceq Frac(n, d) <=> m <= n
           /\ Frac(m, d) = Frac(n, d) <=> m = n
<1>1. PICK p : p = Frac(m, d)
  OBVIOUS
<1>2. PICK q : q = Frac(n, d)
  OBVIOUS
<1>3. PICK a \in Int, b \in Nat \ {0} : p = <<a, b>>
  BY <1>1, FracFacts DEF IsReduced
<1>4. PICK c \in Int, e \in Nat \ {0} : q = <<c, e>>
  BY <1>2, FracFacts DEF IsReduced
<1>5. a * d = m * b /\ c * d = n * e
  <2>1. p[1] * d = m * p[2]
    BY <1>1, FracFacts
  <2>2. q[1] * d = n * q[2]
    BY <1>2, FracFacts
  <2> QED
    BY <2>1, <2>2, <1>3, <1>4
<1>6. p ++ q = Frac(m + n, d)
  <2>1. PICK x \in Int, y \in Int : x = a * e + c * b /\ y = b * e
    OBVIOUS
  <2>2. y # 0
    BY <2>1
  <2>3. x * d = (m + n) * y
    <3>1. (a * e + c * b) * d = (a * d) * e + (c * d) * b
      OBVIOUS
    <3>2. (m + n) * (b * e) = (m * b) * e + (n * e) * b
      OBVIOUS
    <3> QED
      BY <3>1, <3>2, <2>1, <1>5
  <2>4. p ++ q = Frac(x, y)
    BY <1>3, <1>4, <2>1 DEF ++
  <2> QED
    BY <2>2, <2>3, <2>4, FracEqual
<1>7. p -- q = Frac(m - n, d)
  <2>1. PICK x \in Int, y \in Int : x = a * e - c * b /\ y = b * e
    OBVIOUS
  <2>2. y # 0
    BY <2>1
  <2>3. x * d = (m - n) * y
    <3>1. (a * e - c * b) * d = (a * d) * e - (c * d) * b
      OBVIOUS
    <3>2. (m - n) * (b * e) = (m * b) * e - (n * e) * b
      OBVIOUS
    <3> QED
      BY <3>1, <3>2, <2>1, <1>5
  <2>4. p -- q = Frac(x, y)
    BY <1>3, <1>4, <2>1 DEF --
  <2> QED
    BY <2>2, <2>3, <2>4, FracEqual
<1>8. (a * e - c * b) * d = (m - n) * (b * e)
  <2>1. (a * e - c * b) * d = (a * d) * e - (c * d) * b
    OBVIOUS
  <2>2. (m - n) * (b * e) = (m * b) * e - (n * e) * b
    OBVIOUS
  <2> QED
    BY <2>1, <2>2, <1>5
<1>9. PICK x \in Int, y \in Int, z \in Int : x = a * e - c * b /\ y = b * e /\ z = m - n
  OBVIOUS
<1>10. x * d = z * y /\ y > 0 /\ d > 0
  BY <1>8, <1>9
<1>11. (x < 0 <=> z < 0) /\ (x <= 0 <=> z <= 0)
  BY <1>10
<1>12. p \prec q <=> m < n
  <2>1. p \prec q <=> a * e < c * b
    BY <1>3, <1>4 DEF \prec
  <2> QED
    BY <2>1, <1>9, <1>11
<1>13. p \preceq q <=> m <= n
  <2>1. p \preceq q <=> a * e <= c * b
    BY <1>3, <1>4 DEF \preceq
  <2> QED
    BY <2>1, <1>9, <1>11
<1>14. p = q <=> m = n
  <2>1. m * d = n * d <=> m = n
    <3>1. m * d = n * d <=> (m - n) * d = 0
      OBVIOUS
    <3> QED
      BY <3>1
  <2> QED
    BY <2>1, <1>1, <1>2, FracEqual
<1> QED
  BY <1>1, <1>2, <1>6, <1>7, <1>12, <1>13, <1>14

\* A product, and a quotient.
LEMMA OverTwoDenominators ==
    ASSUME NEW m \in Int, NEW n \in Int, NEW d \in Nat, d # 0, NEW e \in Nat, e # 0
    PROVE  /\ Frac(m, d) ** Frac(n, e) = Frac(m * n, d * e)
           /\ n # 0 => Frac(m, d) // Frac(n, e) = Frac(m * e, d * n)
<1>1. PICK p : p = Frac(m, d)
  OBVIOUS
<1>2. PICK q : q = Frac(n, e)
  OBVIOUS
<1>3. PICK a \in Int, b \in Nat \ {0} : p = <<a, b>>
  BY <1>1, FracFacts DEF IsReduced
<1>4. PICK c \in Int, f \in Nat \ {0} : q = <<c, f>>
  BY <1>2, FracFacts DEF IsReduced
<1>5. a * d = m * b /\ c * e = n * f
  <2>1. p[1] * d = m * p[2]
    BY <1>1, FracFacts
  <2>2. q[1] * e = n * q[2]
    BY <1>2, FracFacts
  <2> QED
    BY <2>1, <2>2, <1>3, <1>4
<1>6. p ** q = Frac(m * n, d * e)
  <2>1. PICK x \in Int, y \in Int, z \in Int, w \in Int :
            x = a * c /\ y = b * f /\ z = m * n /\ w = d * e
    OBVIOUS
  <2>2. y # 0 /\ w # 0
    BY <2>1
  <2>3. x * w = z * y
    <3>1. (a * c) * (d * e) = (a * d) * (c * e)
      OBVIOUS
    <3>2. (m * n) * (b * f) = (m * b) * (n * f)
      OBVIOUS
    <3> QED
      BY <3>1, <3>2, <2>1, <1>5
  <2>4. p ** q = Frac(x, y)
    BY <1>3, <1>4, <2>1 DEF **
  <2>5. Frac(x, y) = Frac(z, w)
    BY <2>2, <2>3, FracEqual
  <2> QED
    BY <2>1, <2>4, <2>5
<1>7. ASSUME n # 0 PROVE p // q = Frac(m * e, d * n)
  <2>0. c # 0
    BY <1>5, <1>7
  <2>1. PICK x \in Int, y \in Int, z \in Int, w \in Int :
            x = a * f /\ y = b * c /\ z = m * e /\ w = d * n
    OBVIOUS
  <2>2. y # 0 /\ w # 0
    BY <2>0, <2>1, <1>7
  <2>3. x * w = z * y
    <3>1. (a * f) * (d * n) = (a * d) * (n * f)
      OBVIOUS
    <3>2. (m * e) * (b * c) = (m * b) * (c * e)
      OBVIOUS
    <3> QED
      BY <3>1, <3>2, <2>1, <1>5
  <2>4. p // q = Frac(x, y)
    BY <1>3, <1>4, <2>1 DEF //
  <2>5. Frac(x, y) = Frac(z, w)
    BY <2>2, <2>3, FracEqual
  <2> QED
    BY <2>1, <2>4, <2>5
<1> QED
  BY <1>1, <1>2, <1>6, <1>7

\* A fraction over a multiple of its denominator.
LEMMA Expanded ==
    ASSUME NEW m \in Int, NEW d \in Int, d # 0, NEW k \in Int, k # 0
    PROVE  Frac(m * k, d * k) = Frac(m, d)
<1>1. PICK x \in Int, y \in Int : x = m * k /\ y = d * k
  OBVIOUS
<1>2. y # 0
  BY <1>1
<1>3. x * d = m * y
  <2>1. (m * k) * d = m * (d * k)
    OBVIOUS
  <2> QED
    BY <2>1, <1>1
<1>4. Frac(x, y) = Frac(m, d)
  BY <1>2, <1>3, FracEqual
<1> QED
  BY <1>1, <1>4

\* Three fractions over one denominator; of two of them that leaves halves.
AreOver(p, q, r, d, l, s, m) ==
    /\ d \in Nat \ {0} /\ l \in Int /\ s \in Int /\ m \in Int
    /\ p = Frac(l, d) /\ q = Frac(2 * s, d) /\ r = Frac(2 * m, d)

\* There always is one.
LEMMA CommonDenominator ==
    ASSUME NEW p, NEW q, NEW r, IsFraction(p), IsFraction(q), IsFraction(r)
    PROVE  \E d, l, s, m : AreOver(p, q, r, d, l, s, m)
<1>1. PICK m \in Int, e \in Nat \ {0} : p = Frac(m, e)
  BY DEF IsFraction
<1>2. PICK n \in Int, f \in Nat \ {0} : q = Frac(n, f)
  BY DEF IsFraction
<1>3. PICK l \in Int, g \in Nat \ {0} : r = Frac(l, g)
  BY DEF IsFraction
<1>4. PICK d \in Nat : d = 2 * (e * f * g)
  OBVIOUS
<1>5. d # 0
  <2>1. PICK x \in Nat \ {0} : x = e * f
    OBVIOUS
  <2>2. PICK y \in Nat \ {0} : y = x * g
    OBVIOUS
  <2>3. d = 2 * y
    BY <1>4, <2>1, <2>2
  <2> QED
    BY <2>3
<1>6. PICK x \in Int : x = f * g * 2
  OBVIOUS
<1>7. PICK y \in Int : y = e * g * 2
  OBVIOUS
<1>8. PICK z \in Int : z = e * f * 2
  OBVIOUS
<1>9. x # 0 /\ y # 0 /\ z # 0 /\ d = e * x /\ d = f * y /\ d = g * z
  <2>1. d = e * x /\ d = f * y /\ d = g * z
    BY <1>4, <1>6, <1>7, <1>8
  <2> QED
    BY <2>1, <1>5
<1>10. p = Frac(m * x, d) /\ q = Frac(n * y, d) /\ r = Frac(l * z, d)
  <2>0. /\ e \in Int /\ e # 0 /\ f \in Int /\ f # 0 /\ g \in Int /\ g # 0
        /\ x # 0 /\ y # 0 /\ z # 0
    BY <1>9
  <2>1. Frac(m * x, e * x) = Frac(m, e)
    BY ONLY <2>0, m \in Int, x \in Int, Expanded
  <2>2. Frac(n * y, f * y) = Frac(n, f)
    BY ONLY <2>0, n \in Int, y \in Int, Expanded
  <2>3. Frac(l * z, g * z) = Frac(l, g)
    BY ONLY <2>0, l \in Int, z \in Int, Expanded
  <2> QED
    BY <2>1, <2>2, <2>3, <1>9, <1>1, <1>2, <1>3
<1>11. n * y = 2 * (n * e * g) /\ l * z = 2 * (l * e * f)
  BY <1>7, <1>8
<1>12. n * e * g \in Int /\ l * e * f \in Int /\ m * x \in Int
  OBVIOUS
<1>13. AreOver(p, q, r, d, m * x, n * e * g, l * e * f)
  BY <1>5, <1>10, <1>11, <1>12 DEF AreOver
<1> QED
  BY <1>13

------------------------------------------------------------------------------
(* The laws of fractions.                                                  *)

\* Three fractions over one denominator.
Over3(p, q, r, d, l, m, n) ==
    /\ d \in Nat /\ d # 0 /\ l \in Int /\ m \in Int /\ n \in Int
    /\ p = Frac(l, d) /\ q = Frac(m, d) /\ r = Frac(n, d)

\* There is a denominator for any three fractions.
LEMMA OverOne ==
    ASSUME NEW p, NEW q, NEW r, IsFraction(p), IsFraction(q), IsFraction(r)
    PROVE  \E d, l, m, n : Over3(p, q, r, d, l, m, n)
<1>1. PICK d, l, s, t : AreOver(p, q, r, d, l, s, t)
  BY CommonDenominator
<1>2. PICK m \in Int, n \in Int : m = 2 * s /\ n = 2 * t
  BY <1>1 DEF AreOver
<1>3. Over3(p, q, r, d, l, m, n)
  BY <1>1, <1>2 DEF AreOver, Over3
<1> QED
  BY <1>3

\* Zero over any denominator.
LEMMA ZeroIsFrac ==
    ASSUME NEW d \in Nat, d # 0
    PROVE  Zero = Frac(0, d) /\ IsFraction(Zero)
<1>1. Zero = Frac(0, 1) /\ IsFraction(Zero)
  BY WholeIsFrac DEF Zero
<1>2. Frac(0, 1) = Frac(0, d)
  BY FracEqual
<1> QED
  BY <1>1, <1>2

\* The sign of a fraction is that of its numerator.
LEMMA SignOver ==
    ASSUME NEW m \in Int, NEW d \in Nat, d # 0
    PROVE  /\ Zero \prec Frac(m, d) <=> 0 < m
           /\ Zero \preceq Frac(m, d) <=> 0 <= m
<1>1. Zero = Frac(0, d) /\ 0 \in Int
  BY ZeroIsFrac
<1>2. /\ Frac(0, d) \prec Frac(m, d) <=> 0 < m
      /\ Frac(0, d) \preceq Frac(m, d) <=> 0 <= m
  BY ONLY m \in Int, d \in Nat, d # 0, 0 \in Int, OverOneDenominator
<1> QED
  BY <1>1, <1>2

\* Sums and differences.
LEMMA SumLaws ==
    ASSUME NEW p, NEW q, NEW r, IsFraction(p), IsFraction(q), IsFraction(r)
    PROVE  /\ IsFraction(p ++ q) /\ IsFraction(p -- q) /\ IsFraction(Zero)
           /\ p ++ q = q ++ p
           /\ (p ++ q) ++ r = p ++ (q ++ r)
           /\ p ++ Zero = p /\ Zero ++ p = p /\ p -- p = Zero /\ p -- Zero = p
           /\ (p ++ q) -- q = p /\ (p -- q) ++ q = p
           /\ p -- (q ++ r) = (p -- q) -- r
<1>1. PICK d, l, m, n : Over3(p, q, r, d, l, m, n)
  BY OverOne
<1> USE <1>1 DEF Over3
<1>2. PICK x \in Int, y \in Int, z \in Int, w \in Int :
          x = l + m /\ y = l - m /\ z = m + n /\ w = x + n
  OBVIOUS
<1>3. p ++ q = Frac(x, d) /\ p -- q = Frac(y, d) /\ q ++ r = Frac(z, d)
  BY <1>2, OverOneDenominator
<1>4. q ++ p = Frac(x, d)
  BY <1>2, OverOneDenominator, m + l = l + m
<1>5. (p ++ q) ++ r = Frac(w, d)
  BY <1>2, <1>3, OverOneDenominator
<1>6. p ++ (q ++ r) = Frac(w, d)
  BY <1>2, <1>3, OverOneDenominator, l + z = w
<1>7. Zero = Frac(0, d) /\ IsFraction(Zero)
  BY ZeroIsFrac
<1>8. p ++ Zero = p /\ Zero ++ p = p /\ p -- p = Zero /\ p -- Zero = p
  BY <1>7, OverOneDenominator, l + 0 = l, 0 + l = l, l - l = 0, l - 0 = l
<1>9. (p ++ q) -- q = p /\ (p -- q) ++ q = p
  <2>1. Frac(x, d) -- Frac(m, d) = Frac(x - m, d) /\ x - m = l
    BY <1>2, OverOneDenominator
  <2>2. Frac(y, d) ++ Frac(m, d) = Frac(y + m, d) /\ y + m = l
    BY <1>2, OverOneDenominator
  <2> QED
    BY <2>1, <2>2, <1>3
<1>10. p -- (q ++ r) = (p -- q) -- r
  BY <1>2, <1>3, OverOneDenominator, l - z = y - n
<1> QED
  BY <1>2, <1>3, <1>4, <1>5, <1>6, <1>7, <1>8, <1>9, <1>10, FracIsFraction

\* The same of two only.
LEMMA AddFacts ==
    ASSUME NEW p, NEW q, IsFraction(p), IsFraction(q)
    PROVE  /\ IsFraction(p ++ q) /\ IsFraction(p -- q)
           /\ p ++ q = q ++ p
           /\ p ++ Zero = p /\ Zero ++ p = p /\ p -- p = Zero /\ p -- Zero = p
           /\ (p ++ q) -- q = p /\ (p -- q) ++ q = p
<1>1. ASSUME NEW r, r = p, IsFraction(r)
      PROVE  /\ IsFraction(p ++ q) /\ IsFraction(p -- q)
             /\ p ++ q = q ++ p
             /\ p ++ Zero = p /\ Zero ++ p = p /\ p -- p = Zero /\ p -- Zero = p
             /\ (p ++ q) -- q = p /\ (p -- q) ++ q = p
             /\ (p ++ q) ++ r = p ++ (q ++ r)
  BY <1>1, SumLaws
<1> QED
  BY <1>1

\* Comparisons.
LEMMA OrderLaws ==
    ASSUME NEW p, NEW q, NEW r, IsFraction(p), IsFraction(q), IsFraction(r)
    PROVE  /\ p \preceq q <=> (p \prec q \/ p = q)
           /\ ~(p \prec p) /\ (p \prec q \/ p = q \/ q \prec p)
           /\ p \prec q /\ q \prec r => p \prec r
           /\ p \prec q => p \preceq q /\ ~(q \prec p) /\ ~(q \preceq p)
           /\ Zero \prec q => p \prec p ++ q
           /\ p \prec q <=> Zero \prec q -- p
           /\ p \preceq q <=> Zero \preceq q -- p
           /\ Zero \prec p /\ Zero \preceq q => Zero \prec p ++ q
           /\ Zero \preceq p /\ Zero \preceq q => Zero \preceq p ++ q
<1>1. PICK d, l, m, n : Over3(p, q, r, d, l, m, n)
  BY OverOne
<1> USE <1>1 DEF Over3
<1>2. PICK x \in Int, y \in Int : x = l + m /\ y = m - l
  OBVIOUS
<1>3. p ++ q = Frac(x, d) /\ q -- p = Frac(y, d) /\ Zero = Frac(0, d)
  BY <1>2, OverOneDenominator, ZeroIsFrac
<1>4. /\ p \prec q <=> l < m
      /\ p \preceq q <=> l <= m
      /\ p = q <=> l = m
      /\ q \preceq p <=> m <= l
      /\ q \prec p <=> m < l
  BY OverOneDenominator, ZenonT(40)
<1>5. /\ q \prec r <=> m < n
      /\ p \prec r <=> l < n
      /\ p \prec p <=> l < l
  BY OverOneDenominator
<1>6. /\ Zero \prec p <=> 0 < l
      /\ Zero \prec q <=> 0 < m
      /\ Zero \preceq p <=> 0 <= l
      /\ Zero \preceq q <=> 0 <= m
  BY SignOver
<1>7. /\ Zero \prec q -- p <=> 0 < y
      /\ Zero \preceq q -- p <=> 0 <= y
      /\ Zero \prec p ++ q <=> 0 < x
      /\ Zero \preceq p ++ q <=> 0 <= x
  BY <1>3, SignOver
<1>8. p \prec p ++ q <=> l < x
  <2>1. Frac(l, d) \prec Frac(x, d) <=> l < x
    BY OverOneDenominator
  <2> QED
    BY <2>1, <1>3
<1> QED
  BY <1>2, <1>4, <1>5, <1>6, <1>7, <1>8

\* The same of two only.
LEMMA OrderFacts ==
    ASSUME NEW p, NEW q, IsFraction(p), IsFraction(q)
    PROVE  /\ p \preceq q <=> (p \prec q \/ p = q)
           /\ ~(p \prec p) /\ (p \prec q \/ p = q \/ q \prec p)
           /\ p \prec q => p \preceq q /\ ~(q \prec p) /\ ~(q \preceq p)
           /\ Zero \prec q => p \prec p ++ q
           /\ p \prec q <=> Zero \prec q -- p
           /\ p \preceq q <=> Zero \preceq q -- p
BY OrderLaws

\* Sums of fractions above zero, or not below it.
LEMMA PositiveSum ==
    ASSUME NEW p, NEW q, IsFraction(p), IsFraction(q)
    PROVE  /\ Zero \prec p /\ Zero \preceq q => Zero \prec p ++ q /\ Zero \preceq p ++ q
           /\ Zero \preceq p /\ Zero \preceq q => Zero \preceq p ++ q
<1>1. PICK z : z = p ++ q
  OBVIOUS
<1>2. IsFraction(z) /\ IsFraction(Zero)
  BY <1>1, AddFacts, WholeIsFrac DEF Zero
<1>3. Zero \prec z => Zero \preceq z
  BY <1>2, OrderFacts
<1>4. /\ Zero \prec p /\ Zero \preceq q => Zero \prec z
      /\ Zero \preceq p /\ Zero \preceq q => Zero \preceq z
  BY <1>1, OrderLaws
<1> QED
  BY <1>1, <1>3, <1>4

\* Products.
LEMMA ProductLaws ==
    ASSUME NEW p, NEW q, NEW r, IsFraction(p), IsFraction(q), IsFraction(r)
    PROVE  /\ IsFraction(p ** q) /\ IsFraction(One) /\ Zero \prec One
           /\ p ** q = q ** p
           /\ (p ** q) ** r = p ** (q ** r)
           /\ p ** (q ++ r) = (p ** q) ++ (p ** r)
           /\ One ** p = p /\ p ** Zero = Zero
           /\ Zero \prec p /\ Zero \prec q => Zero \prec p ** q
           /\ Zero \prec p /\ Zero \prec p ** q => Zero \prec q
<1>1. PICK d, l, m, n : Over3(p, q, r, d, l, m, n)
  BY OverOne
<1> USE <1>1 DEF Over3
<1>2. PICK dd \in Nat, lm \in Int, mn \in Int, ln \in Int :
          dd = d * d /\ lm = l * m /\ mn = m * n /\ ln = l * n
  OBVIOUS
<1>3. dd # 0
  BY <1>2
<1>4. p ** q = Frac(lm, dd) /\ q ** r = Frac(mn, dd) /\ p ** r = Frac(ln, dd)
  BY <1>2, OverTwoDenominators
<1>5. q ** p = Frac(lm, dd)
  BY <1>2, OverTwoDenominators, m * l = l * m
<1>6. PICK e \in Nat, x \in Int : e = dd * d /\ x = lm * n
  OBVIOUS
<1>7. e = d * dd /\ x = l * mn
  BY <1>2, <1>6
<1>8. (p ** q) ** r = Frac(x, e)
  BY <1>3, <1>4, <1>6, OverTwoDenominators
<1>9. p ** (q ** r) = Frac(x, e)
  BY <1>3, <1>4, <1>7, OverTwoDenominators
<1>10. PICK z \in Int, w \in Int : z = m + n /\ w = lm + ln
  OBVIOUS
<1>11. q ++ r = Frac(z, d)
  BY <1>10, OverOneDenominator
<1>12. p ** (q ++ r) = Frac(w, dd)
  <2>1. l * z = w
    BY <1>2, <1>10
  <2> QED
    BY <2>1, <1>2, <1>10, <1>11, OverTwoDenominators
<1>13. (p ** q) ++ (p ** r) = Frac(w, dd)
  BY <1>3, <1>4, <1>10, OverOneDenominator
<1>14. One = Frac(1, 1) /\ Zero = Frac(0, 1) /\ Zero = Frac(0, d) /\ Zero = Frac(0, dd)
  BY <1>3, ZeroIsFrac, WholeIsFrac DEF One, Zero
<1>15. One ** p = p
  BY <1>14, OverTwoDenominators, 1 * l = l, 1 * d = d
<1>16. p ** Zero = Zero
  BY <1>14, OverTwoDenominators, l * 0 = 0, d * 1 = d
<1>17. Zero \prec One /\ IsFraction(One)
  <2>1. Zero \prec Frac(1, 1) /\ IsFraction(Frac(1, 1))
    BY SignOver, FracIsFraction, 1 \in Int, 1 \in Nat, 1 # 0, 0 < 1
  <2> QED
    BY <2>1, <1>14
<1>18. /\ Zero \prec p <=> 0 < l
       /\ Zero \prec q <=> 0 < m
       /\ Zero \prec p ** q <=> 0 < lm
  BY <1>3, <1>4, SignOver
<1>19. /\ 0 < l /\ 0 < m => 0 < lm
       /\ 0 < l /\ 0 < lm => 0 < m
  BY <1>2
<1> QED
  BY <1>3, <1>4, <1>5, <1>8, <1>9, <1>12, <1>13, <1>15, <1>16, <1>17, <1>18, <1>19,
     FracIsFraction

\* The same of two only.
LEMMA ProductFacts ==
    ASSUME NEW p, NEW q, IsFraction(p), IsFraction(q)
    PROVE  /\ IsFraction(p ** q) /\ p ** q = q ** p
           /\ One ** p = p /\ p ** Zero = Zero /\ IsFraction(One) /\ Zero \prec One
           /\ Zero \prec p /\ Zero \prec q => Zero \prec p ** q
           /\ Zero \prec p /\ Zero \prec p ** q => Zero \prec q
<1>1. ASSUME NEW r, r = p, IsFraction(r)
      PROVE  /\ IsFraction(p ** q) /\ p ** q = q ** p
             /\ One ** p = p /\ p ** Zero = Zero /\ IsFraction(One) /\ Zero \prec One
             /\ Zero \prec p /\ Zero \prec q => Zero \prec p ** q
             /\ Zero \prec p /\ Zero \prec p ** q => Zero \prec q
             /\ (p ** q) ** r = p ** (q ** r)
  BY <1>1, ProductLaws
<1> QED
  BY <1>1

\* Quotients.
LEMMA QuotientLaws ==
    ASSUME NEW p, NEW q, IsFraction(p), IsFraction(q), Zero \prec q
    PROVE  /\ IsFraction(p // q) /\ (p // q) ** q = p /\ (p ** q) // q = p
           /\ Zero \prec p => Zero \prec p // q
<1>1. PICK d, l, m, n : Over3(p, q, q, d, l, m, n)
  BY OverOne
<1> USE <1>1 DEF Over3
<1>3. 0 < m
  BY SignOver
<1>4. PICK x \in Int, y \in Nat : x = l * d /\ y = d * m
  BY <1>3
<1>5. y # 0
  BY <1>3, <1>4
<1>6. p // q = Frac(x, y)
  <2>1. Frac(l, d) // Frac(m, d) = Frac(l * d, d * m)
    <3>1. l \in Int /\ m \in Int /\ d \in Nat /\ d # 0 /\ m # 0
      BY <1>3
    <3> QED
      BY ONLY <3>1, OverTwoDenominators
  <2> QED
    BY <2>1, <1>4
<1>7. PICK z \in Int, w \in Nat : z = x * m /\ w = y * d
  OBVIOUS
<1>8. w # 0 /\ z * d = l * w
  <2>1. (l * d * m) * d = l * ((d * m) * d)
    OBVIOUS
  <2> QED
    BY <2>1, <1>4, <1>5, <1>7
<1>9. (p // q) ** q = Frac(z, w)
  <2>1. Frac(x, y) ** Frac(m, d) = Frac(x * m, y * d)
    <3>1. x \in Int /\ y \in Nat /\ y # 0 /\ m \in Int /\ d \in Nat /\ d # 0
      BY <1>5
    <3> QED
      BY ONLY <3>1, OverTwoDenominators
  <2> QED
    BY <2>1, <1>6, <1>7
<1>10. Frac(z, w) = Frac(l, d)
  BY <1>8, FracEqual
<1>11. PICK dd \in Nat, lm \in Int : dd = d * d /\ lm = l * m
  OBVIOUS
<1>12. dd # 0 /\ p ** q = Frac(lm, dd)
  <2>1. Frac(l, d) ** Frac(m, d) = Frac(l * m, d * d)
    <3>1. l \in Int /\ m \in Int /\ d \in Nat /\ d # 0
      OBVIOUS
    <3> QED
      BY ONLY <3>1, OverTwoDenominators
  <2>2. dd # 0
    BY <1>11
  <2> QED
    BY <2>1, <2>2, <1>11
<1>13. PICK s \in Int, t \in Nat : s = lm * d /\ t = dd * m
  BY <1>3
<1>14. t # 0 /\ s * d = l * t
  <2>1. ((l * m) * d) * d = l * ((d * d) * m)
    OBVIOUS
  <2> QED
    BY <2>1, <1>3, <1>11, <1>12, <1>13
<1>15. (p ** q) // q = Frac(s, t)
  <2>1. Frac(lm, dd) // Frac(m, d) = Frac(lm * d, dd * m)
    <3>1. lm \in Int /\ m \in Int /\ dd \in Nat /\ dd # 0 /\ d \in Nat /\ d # 0 /\ m # 0
      BY <1>3, <1>12
    <3> QED
      BY ONLY <3>1, OverTwoDenominators
  <2> QED
    BY <2>1, <1>12, <1>13
<1>16. Frac(s, t) = Frac(l, d)
  BY <1>14, FracEqual
<1>17. Zero \prec p <=> 0 < l
  BY SignOver
<1>19. Zero \prec p // q <=> 0 < x
  BY <1>5, <1>6, SignOver
<1>20. 0 < l => 0 < x
  BY <1>4
<1> QED
  BY <1>5, <1>6, <1>9, <1>10, <1>15, <1>16, <1>17, <1>19, <1>20, FracIsFraction

------------------------------------------------------------------------------
(* Sums over a finite set.                                                 *)

\* What holds of a set where it holds of the set without any one member holds of
\* every finite one.
LEMMA SetInduction ==
    ASSUME NEW S, IsFiniteSet(S), NEW T,
           \A s \in SUBSET S : (\A x \in s : s \ {x} \in T) => s \in T
    PROVE  SUBSET S \subseteq T
<1> DEFINE N == {n \in Nat : \A s \in SUBSET S : Cardinality(s) = n => s \in T}
<1>1. \A s \in SUBSET S : IsFiniteSet(s) /\ Cardinality(s) \in Nat
  BY FS_Subset, FS_CardinalityType
<1>2. ASSUME NEW n \in Nat, \A m \in Nat : m < n => m \in N
      PROVE  n \in N
  <2>1. SUFFICES ASSUME NEW s \in SUBSET S, Cardinality(s) = n PROVE s \in T
    OBVIOUS
  <2>2. ASSUME NEW x \in s PROVE s \ {x} \in T
    <3>1. Cardinality(s \ {x}) = n - 1 /\ Cardinality(s \ {x}) \in Nat
      BY <1>1, <2>1, FS_RemoveElement
    <3>2. n - 1 \in N
      BY <3>1, <1>2
    <3> QED
      BY <3>1, <3>2
  <2> QED
    BY <2>2
<1> HIDE DEF N
<1>3. Nat \subseteq N
  BY <1>2, StrongInduction
<1> QED
  BY <1>1, <1>3 DEF N

\* The recursive function on the subsets of S by which Sum is defined.
AnyOf(s) == CHOOSE x \in s : TRUE
SumsUpTo(f, D, g) ==
    g = [s \in D |-> IF s = {} THEN Zero ELSE f[AnyOf(s)] ++ g[s \ {AnyOf(s)}]]

\* Sum is that function at its set.
LEMMA SumIs ==
    ASSUME NEW f, NEW S
    PROVE  Sum(f, S) = (CHOOSE g : SumsUpTo(f, SUBSET S, g))[S]
BY DEF Sum, FoldFunctionOnSet, MapThenFoldSet, SumsUpTo, AnyOf

\* The member it picks is one.
LEMMA AnyOfFacts ==
    ASSUME NEW s, s # {}
    PROVE  AnyOf(s) \in s
BY DEF AnyOf

\* The subsets of S with n members at most.
Small(S, n) == {s \in SUBSET S : Cardinality(s) <= n}

\* There is such a function: from that on the sets of n members to that on those
\* of n + 1.
LEMMA SumsExist ==
    ASSUME NEW f, NEW S, IsFiniteSet(S)
    PROVE  \E g : SumsUpTo(f, SUBSET S, g)
<1> DEFINE T == {n \in Nat : \E g : SumsUpTo(f, Small(S, n), g)}
<1>1. \A s \in SUBSET S : IsFiniteSet(s) /\ Cardinality(s) \in Nat
  BY FS_Subset, FS_CardinalityType
<1>2. ASSUME NEW n \in Nat, \A m \in Nat : m < n => m \in T PROVE n \in T
  <2>1. CASE n = 0
    <3> DEFINE g == [s \in Small(S, n) |-> Zero]
    <3>1. \A s \in Small(S, n) : s = {}
      BY <1>1, <2>1, FS_EmptySet DEF Small
    <3>2. SumsUpTo(f, Small(S, n), g)
      BY <3>1 DEF SumsUpTo
    <3> QED
      BY <3>2
  <2>2. CASE n # 0
    <3>1. n - 1 \in Nat /\ n - 1 < n
      BY <2>2
    <3>2. PICK g : SumsUpTo(f, Small(S, n - 1), g)
      BY <3>1, <1>2
    <3> DEFINE h == [s \in Small(S, n) |->
                        IF s = {} THEN Zero ELSE f[AnyOf(s)] ++ g[s \ {AnyOf(s)}]]
               k == [s \in Small(S, n) |->
                        IF s = {} THEN Zero ELSE f[AnyOf(s)] ++ h[s \ {AnyOf(s)}]]
    <3>3. \A s \in Small(S, n - 1) : s \in Small(S, n) /\ g[s] = h[s]
      <4>1. \A s \in Small(S, n - 1) : s \in Small(S, n)
        BY <1>1 DEF Small
      <4>2. \A s \in Small(S, n - 1) :
                g[s] = IF s = {} THEN Zero ELSE f[AnyOf(s)] ++ g[s \ {AnyOf(s)}]
        BY <3>2 DEF SumsUpTo
      <4> QED
        BY <4>1, <4>2
    <3>4. ASSUME NEW s \in Small(S, n), s # {}
          PROVE  s \ {AnyOf(s)} \in Small(S, n - 1)
      <4>1. AnyOf(s) \in s
        BY <3>4, AnyOfFacts
      <4>2. Cardinality(s \ {AnyOf(s)}) = Cardinality(s) - 1
        BY <4>1, <1>1, FS_RemoveElement DEF Small
      <4> QED
        BY <4>2, <1>1 DEF Small
    <3>5. h = k
      BY <3>3, <3>4
    <3>6. SumsUpTo(f, Small(S, n), h)
      BY <3>5, Zenon DEF SumsUpTo
    <3> QED
      BY <3>6
  <2> QED
    BY <2>1, <2>2
<1>3. Nat \subseteq T
  <2> HIDE DEF T
  <2> QED
    BY <1>2, StrongInduction
<1>4. Cardinality(S) \in Nat /\ Small(S, Cardinality(S)) = SUBSET S
  BY FS_Subset, FS_CardinalityType DEF Small
<1> QED
  BY <1>3, <1>4

\* and one only, on any family of subsets.
LEMMA SumsAgree ==
    ASSUME NEW f, NEW S, IsFiniteSet(S), NEW R \in SUBSET S, NEW g, NEW h,
           SumsUpTo(f, SUBSET S, g), SumsUpTo(f, SUBSET R, h)
    PROVE  g[R] = h[R]
<1> DEFINE T == {s \in SUBSET R : g[s] = h[s]}
<1>1. IsFiniteSet(R)
  BY FS_Subset
<1>2. ASSUME NEW s \in SUBSET R, \A x \in s : s \ {x} \in T
      PROVE  s \in T
  <2>1. /\ g[s] = IF s = {} THEN Zero ELSE f[AnyOf(s)] ++ g[s \ {AnyOf(s)}]
        /\ h[s] = IF s = {} THEN Zero ELSE f[AnyOf(s)] ++ h[s \ {AnyOf(s)}]
    BY DEF SumsUpTo
  <2>2. s # {} => g[s \ {AnyOf(s)}] = h[s \ {AnyOf(s)}]
    BY <1>2, AnyOfFacts
  <2> QED
    BY <2>1, <2>2
<1> HIDE DEF T
<1>3. SUBSET R \subseteq T
  BY <1>1, <1>2, SetInduction
<1> QED
  BY <1>3 DEF T

\* A sum takes out one member after another.
LEMMA SumStep ==
    ASSUME NEW f, NEW S, IsFiniteSet(S)
    PROVE  Sum(f, S) = IF S = {} THEN Zero ELSE f[AnyOf(S)] ++ Sum(f, S \ {AnyOf(S)})
<1> DEFINE R == S \ {AnyOf(S)}
           g == CHOOSE k : SumsUpTo(f, SUBSET S, k)
           h == CHOOSE k : SumsUpTo(f, SUBSET R, k)
<1>1. IsFiniteSet(R) /\ R \in SUBSET S
  BY FS_Subset
<1>2. SumsUpTo(f, SUBSET S, g)
  BY SumsExist
<1>3. SumsUpTo(f, SUBSET R, h)
  BY <1>1, SumsExist
<1>4. g[R] = h[R]
  <2> HIDE DEF g, h, R
  <2> QED
    BY <1>1, <1>2, <1>3, SumsAgree
<1>5. Sum(f, S) = g[S] /\ Sum(f, R) = h[R]
  BY SumIs
<1>6. g[S] = IF S = {} THEN Zero ELSE f[AnyOf(S)] ++ g[R]
  <2> HIDE DEF g
  <2> QED
    BY <1>2 DEF SumsUpTo
<1> QED
  BY <1>4, <1>5, <1>6

\* All the values of f on S are fractions.
Fractional(f, S) == \A i \in S : IsFraction(f[i])

\* The sum of fractions is a fraction,
LEMMA SumIsFraction ==
    ASSUME NEW f, NEW S, IsFiniteSet(S), Fractional(f, S)
    PROVE  IsFraction(Sum(f, S))
<1> DEFINE T == {s \in SUBSET S : IsFraction(Sum(f, s))}
<1>1. ASSUME NEW s \in SUBSET S, \A x \in s : s \ {x} \in T
      PROVE  s \in T
  <2>1. IsFiniteSet(s)
    BY FS_Subset
  <2>2. Sum(f, s) = IF s = {} THEN Zero ELSE f[AnyOf(s)] ++ Sum(f, s \ {AnyOf(s)})
    BY <2>1, SumStep
  <2>3. CASE s = {}
    BY <2>2, <2>3, WholeIsFrac DEF Zero
  <2>4. CASE s # {}
    <3>1. PICK p, q : p = f[AnyOf(s)] /\ q = Sum(f, s \ {AnyOf(s)})
      OBVIOUS
    <3>2. IsFraction(p) /\ IsFraction(q)
      BY <2>4, <3>1, <1>1, AnyOfFacts DEF Fractional
    <3> QED
      BY <2>2, <2>4, <3>1, <3>2, AddFacts
  <2> QED
    BY <2>3, <2>4
<1> HIDE DEF T
<1>2. SUBSET S \subseteq T
  BY <1>1, SetInduction
<1> QED
  BY <1>2 DEF T

\* and any member may be taken out first.
LEMMA SumFacts ==
    ASSUME NEW f, NEW S, IsFiniteSet(S), Fractional(f, S), NEW z \in S
    PROVE  Sum(f, S) = f[z] ++ Sum(f, S \ {z})
<1> DEFINE T == {s \in SUBSET S : \A x \in s : Sum(f, s) = f[x] ++ Sum(f, s \ {x})}
<1>0. \A s \in SUBSET S : IsFiniteSet(s) /\ Fractional(f, s)
  BY FS_Subset DEF Fractional
<1>1. ASSUME NEW s \in SUBSET S, \A x \in s : s \ {x} \in T
      PROVE  s \in T
  <2>1. PICK y : y = AnyOf(s)
    OBVIOUS
  <2>2. Sum(f, s) = IF s = {} THEN Zero ELSE f[y] ++ Sum(f, s \ {y})
    BY <1>0, <2>1, SumStep
  <2>3. ASSUME NEW x \in s, x # y PROVE Sum(f, s) = f[x] ++ Sum(f, s \ {x})
    <3>1. y \in s
      BY <2>1, AnyOfFacts
    <3>2. PICK a, p, q : a = Sum(f, (s \ {y}) \ {x}) /\ p = f[x] /\ q = f[y]
      OBVIOUS
    <3>3. (s \ {y}) \ {x} = (s \ {x}) \ {y} /\ y \in s \ {x} /\ x \in s \ {y}
      BY <3>1, <2>3
    <3>4. s \ {x} \in T /\ s \ {y} \in T
      BY <1>1, <3>1
    <3>5. Sum(f, s \ {y}) = p ++ a /\ Sum(f, s \ {x}) = q ++ a
      BY <3>2, <3>3, <3>4
    <3>6. IsFraction(a) /\ IsFraction(p) /\ IsFraction(q)
      <4>1. (s \ {y}) \ {x} \in SUBSET S
        OBVIOUS
      <4>2. IsFraction(a)
        BY <4>1, <3>2, <1>0, SumIsFraction
      <4> QED
        BY <4>2, <3>1, <3>2, <1>0 DEF Fractional
    <3>7. q ++ (p ++ a) = p ++ (q ++ a)
      <4>1. (q ++ p) ++ a = q ++ (p ++ a) /\ (p ++ q) ++ a = p ++ (q ++ a) /\ q ++ p = p ++ q
        BY <3>6, SumLaws, AddFacts
      <4> QED
        BY <4>1
    <3> QED
      BY <2>2, <3>1, <3>2, <3>5, <3>7
  <2> QED
    BY <2>2, <2>3
<1> HIDE DEF T
<1>2. SUBSET S \subseteq T
  BY <1>0, <1>1, SetInduction
<1> QED
  BY <1>2 DEF T

\* Nothing adds up to zero, and a member more adds its value.
LEMMA SumAdds ==
    ASSUME NEW f
    PROVE  /\ Sum(f, {}) = Zero
           /\ \A S, x : IsFiniteSet(S) /\ x \notin S /\ Fractional(f, S \cup {x})
                 => Sum(f, S \cup {x}) = f[x] ++ Sum(f, S)
<1>1. Sum(f, {}) = Zero
  BY SumStep, FS_EmptySet
<1>2. ASSUME NEW S, NEW x, IsFiniteSet(S), x \notin S, Fractional(f, S \cup {x})
      PROVE  Sum(f, S \cup {x}) = f[x] ++ Sum(f, S)
  <2>1. IsFiniteSet(S \cup {x}) /\ x \in S \cup {x} /\ (S \cup {x}) \ {x} = S
    BY <1>2, FS_AddElement
  <2> QED
    BY <2>1, <1>2, SumFacts
<1> QED
  BY <1>1, <1>2

\* Sums of the same values are the same.
LEMMA SumSame ==
    ASSUME NEW f, NEW g, NEW S, IsFiniteSet(S), \A i \in S : f[i] = g[i]
    PROVE  Sum(f, S) = Sum(g, S)
<1> DEFINE T == {s \in SUBSET S : Sum(f, s) = Sum(g, s)}
<1>1. ASSUME NEW s \in SUBSET S, \A x \in s : s \ {x} \in T
      PROVE  s \in T
  <2>1. /\ Sum(f, s) = IF s = {} THEN Zero ELSE f[AnyOf(s)] ++ Sum(f, s \ {AnyOf(s)})
        /\ Sum(g, s) = IF s = {} THEN Zero ELSE g[AnyOf(s)] ++ Sum(g, s \ {AnyOf(s)})
    BY SumStep, FS_Subset
  <2>2. s # {} => /\ f[AnyOf(s)] = g[AnyOf(s)]
                  /\ Sum(f, s \ {AnyOf(s)}) = Sum(g, s \ {AnyOf(s)})
    BY <1>1, AnyOfFacts
  <2> QED
    BY <2>1, <2>2
<1> HIDE DEF T
<1>2. SUBSET S \subseteq T
  BY <1>1, SetInduction
<1> QED
  BY <1>2 DEF T

\* The sum over two sets with nothing in common.
LEMMA SumOfParts ==
    ASSUME NEW f, NEW S, IsFiniteSet(S), NEW R, IsFiniteSet(R), S \cap R = {},
           Fractional(f, S \cup R)
    PROVE  Sum(f, S \cup R) = Sum(f, S) ++ Sum(f, R)
<1> DEFINE T == {s \in SUBSET S : Sum(f, s \cup R) = Sum(f, s) ++ Sum(f, R)}
<1>0. /\ Fractional(f, R) /\ IsFraction(Sum(f, R))
      /\ \A s \in SUBSET S : /\ IsFiniteSet(s) /\ IsFiniteSet(s \cup R)
                             /\ Fractional(f, s) /\ Fractional(f, s \cup R)
                             /\ IsFraction(Sum(f, s))
  <2>1. Fractional(f, R) /\ \A s \in SUBSET S : Fractional(f, s) /\ Fractional(f, s \cup R)
    BY DEF Fractional
  <2>2. \A s \in SUBSET S : IsFiniteSet(s) /\ IsFiniteSet(s \cup R)
    BY FS_Subset, FS_Union
  <2> QED
    BY <2>1, <2>2, SumIsFraction
<1>1. ASSUME NEW s \in SUBSET S, \A x \in s : s \ {x} \in T
      PROVE  s \in T
  <2>1. CASE s = {}
    <3>1. Sum(f, s) = Zero /\ s \cup R = R
      BY <2>1, SumAdds
    <3> QED
      BY <3>1, <1>0, AddFacts
  <2>2. CASE s # {}
    <3>1. PICK x \in s : TRUE
      BY <2>2
    <3>2. PICK p, a, b : p = f[x] /\ a = Sum(f, s \ {x}) /\ b = Sum(f, R)
      OBVIOUS
    <3>3. Sum(f, s) = p ++ a
      <4>1. IsFiniteSet(s) /\ Fractional(f, s) /\ x \in s
        BY <1>0
      <4> QED
        BY <4>1, <3>2, SumFacts
    <3>4. x \in s \cup R /\ (s \cup R) \ {x} = (s \ {x}) \cup R
      OBVIOUS
    <3>5. Sum(f, s \cup R) = p ++ Sum(f, (s \ {x}) \cup R)
      BY <3>2, <3>4, <1>0, SumFacts, SMTT(40)
    <3>6. s \ {x} \in T
      BY <1>1
    <3>7. Sum(f, (s \ {x}) \cup R) = a ++ b
      BY <3>2, <3>6
    <3>8. IsFraction(p) /\ IsFraction(a) /\ IsFraction(b)
      BY <3>2, <1>0 DEF Fractional
    <3>9. (p ++ a) ++ b = p ++ (a ++ b)
      BY <3>8, SumLaws
    <3> QED
      BY <3>2, <3>3, <3>5, <3>7, <3>9
  <2> QED
    BY <2>1, <2>2
<1> HIDE DEF T
<1>2. SUBSET S \subseteq T
  BY <1>1, SetInduction
<1>3. S \in T
  BY <1>2
<1> QED
  BY <1>3 DEF T

\* The sum of multiples is the multiple of the sum.
LEMMA SumScaled ==
    ASSUME NEW f, NEW S, IsFiniteSet(S), Fractional(f, S), NEW c, IsFraction(c),
           NEW g, \A i \in S : g[i] = c ** f[i]
    PROVE  Sum(g, S) = c ** Sum(f, S)
<1> DEFINE T == {s \in SUBSET S : Sum(g, s) = c ** Sum(f, s)}
<1>0. Fractional(g, S)
  <2>1. ASSUME NEW i \in S PROVE IsFraction(g[i])
    <3>1. PICK q : q = f[i]
      OBVIOUS
    <3>2. IsFraction(q) /\ g[i] = c ** q
      BY <3>1 DEF Fractional
    <3>3. IsFraction(c ** q)
      BY <3>2, ProductFacts
    <3> QED
      BY <3>2, <3>3
  <2> QED
    BY <2>1 DEF Fractional
<1>1. \A s \in SUBSET S : /\ IsFiniteSet(s) /\ Fractional(f, s) /\ Fractional(g, s)
                          /\ IsFraction(Sum(f, s)) /\ IsFraction(Sum(g, s))
  <2>1. \A s \in SUBSET S : IsFiniteSet(s) /\ Fractional(f, s) /\ Fractional(g, s)
    BY <1>0, FS_Subset DEF Fractional
  <2> QED
    BY <2>1, SumIsFraction
<1>2. ASSUME NEW s \in SUBSET S, \A x \in s : s \ {x} \in T
      PROVE  s \in T
  <2>1. CASE s = {}
    <3>1. Sum(f, s) = Zero /\ Sum(g, s) = Zero
      BY <2>1, SumAdds
    <3>2. IsFraction(Zero)
      BY WholeIsFrac DEF Zero
    <3>3. c ** Zero = Zero
      BY <3>2, ProductFacts
    <3> QED
      BY <3>1, <3>3
  <2>2. CASE s # {}
    <3>1. PICK x \in s : TRUE
      BY <2>2
    <3>2. PICK p, a : p = f[x] /\ a = Sum(f, s \ {x})
      OBVIOUS
    <3>3. Sum(f, s) = p ++ a
      BY <3>2, <1>1, SumFacts
    <3>4. Sum(g, s) = (c ** p) ++ (c ** a)
      <4>1. s \ {x} \in T
        BY <1>2
      <4>2. Sum(g, s \ {x}) = c ** a
        BY <3>2, <4>1
      <4>3. Sum(g, s) = g[x] ++ Sum(g, s \ {x})
        BY <1>1, SumFacts
      <4> QED
        BY <3>2, <4>2, <4>3
    <3>5. IsFraction(p) /\ IsFraction(a)
      BY <3>2, <1>1 DEF Fractional
    <3>6. c ** (p ++ a) = (c ** p) ++ (c ** a)
      BY <3>5, ProductLaws
    <3> QED
      BY <3>3, <3>4, <3>6
  <2> QED
    BY <2>1, <2>2
<1> HIDE DEF T
<1>3. SUBSET S \subseteq T
  BY <1>2, SetInduction
<1>4. S \in T
  BY <1>3
<1> QED
  BY <1>4 DEF T

\* The sum of positive values is positive, and that of none below zero is not below.
LEMMA SumIsPositive ==
    ASSUME NEW f, NEW S, IsFiniteSet(S), Fractional(f, S), \A i \in S : Zero \prec f[i]
    PROVE  Zero \preceq Sum(f, S) /\ (S # {} => Zero \prec Sum(f, S))
<1> DEFINE T == {s \in SUBSET S : /\ Zero \preceq Sum(f, s)
                                  /\ s # {} => Zero \prec Sum(f, s)}
<1>1. \A s \in SUBSET S : /\ IsFiniteSet(s) /\ Fractional(f, s) /\ IsFraction(Sum(f, s))
  <2>1. \A s \in SUBSET S : IsFiniteSet(s) /\ Fractional(f, s)
    BY FS_Subset DEF Fractional
  <2> QED
    BY <2>1, SumIsFraction
<1>2. ASSUME NEW s \in SUBSET S, \A x \in s : s \ {x} \in T
      PROVE  s \in T
  <2>1. CASE s = {}
    <3>1. Sum(f, s) = Zero
      BY <2>1, SumAdds
    <3>2. Zero \preceq Zero
      BY DEF \preceq, Zero, Whole
    <3> QED
      BY <2>1, <3>1, <3>2
  <2>2. CASE s # {}
    <3>1. PICK x \in s : TRUE
      BY <2>2
    <3>2. PICK p, a : p = f[x] /\ a = Sum(f, s \ {x})
      OBVIOUS
    <3>3. Sum(f, s) = p ++ a
      BY <3>2, <1>1, SumFacts
    <3>4. s \ {x} \in T
      BY <1>2
    <3>5. Zero \prec p /\ Zero \preceq a /\ IsFraction(p) /\ IsFraction(a)
      BY <3>2, <3>4, <1>1 DEF Fractional
    <3>6. Zero \prec p ++ a /\ Zero \preceq p ++ a
      BY <3>5, PositiveSum
    <3> QED
      BY <3>3, <3>6
  <2> QED
    BY <2>1, <2>2
<1> HIDE DEF T
<1>3. SUBSET S \subseteq T
  BY <1>2, SetInduction
<1>4. S \in T
  BY <1>3
<1> QED
  BY <1>4 DEF T

------------------------------------------------------------------------------
(* Distributing a span over a run.                                         *)

\* A run whose fixed sizes are fractions and whose weights are positive ones.
WeightAt(u, d, k) == u.rule[u.items[d][k]].weight
RunTyped(u, d) ==
    /\ IsFiniteSet(DOMAIN u.items[d])
    /\ \A k \in DOMAIN u.items[d] : IsFraction(FixedMm(u, d, k))
    /\ \A k \in DrivenPlaces(u, d) :
          IsFraction(WeightAt(u, d, k)) /\ Zero \prec WeightAt(u, d, k)

FixedSizes(u, d) == [k \in DOMAIN u.items[d] |-> FixedMm(u, d, k)]
Weights(u, d) == [k \in DrivenPlaces(u, d) |-> WeightAt(u, d, k)]
TotalWeight(u, d) == Sum(Weights(u, d), DrivenPlaces(u, d))
Undriven(u, d) == DOMAIN u.items[d] \ DrivenPlaces(u, d)

\* The weights add up to more than zero,
LEMMA WeightFacts ==
    ASSUME NEW u, NEW d, RunTyped(u, d)
    PROVE  /\ IsFraction(TotalWeight(u, d))
           /\ DrivenPlaces(u, d) # {} => Zero \prec TotalWeight(u, d)
           /\ DrivenPlaces(u, d) \subseteq DOMAIN u.items[d]
           /\ IsFiniteSet(DrivenPlaces(u, d)) /\ IsFiniteSet(Undriven(u, d))
<1>1. DrivenPlaces(u, d) \subseteq DOMAIN u.items[d]
  BY DEF DrivenPlaces
<1>2. IsFiniteSet(DrivenPlaces(u, d)) /\ IsFiniteSet(Undriven(u, d))
  BY <1>1, FS_Subset DEF RunTyped, Undriven
<1>3. /\ Fractional(Weights(u, d), DrivenPlaces(u, d))
      /\ \A k \in DrivenPlaces(u, d) : Zero \prec Weights(u, d)[k]
  BY DEF RunTyped, Fractional, Weights
<1> QED
  BY <1>1, <1>2, <1>3, SumIsFraction, SumIsPositive DEF TotalWeight

\* and the slack is what the members that are not driven leave of the span.
LEMMA SlackIs ==
    ASSUME NEW u, NEW d, RunTyped(u, d), NEW span, IsFraction(span)
    PROVE  /\ IsFraction(Sum(FixedSizes(u, d), Undriven(u, d)))
           /\ Slack(u, d, span) = span -- Sum(FixedSizes(u, d), Undriven(u, d))
           /\ IsFraction(Slack(u, d, span))
<1> DEFINE f == FixedSizes(u, d)
           P == DrivenPlaces(u, d)
           R == Undriven(u, d)
           z == [k \in P |-> Zero]
<1>1. /\ DOMAIN u.items[d] = P \cup R /\ P \cap R = {} /\ IsFiniteSet(P) /\ IsFiniteSet(R)
  BY WeightFacts DEF Undriven
<1>2. Fractional(f, P \cup R) /\ Fractional(f, P) /\ Fractional(f, R)
  BY <1>1, SMTT(40) DEF Fractional, FixedSizes, RunTyped
<1>3. \A k \in P : f[k] = Zero
  BY Zenon DEF FixedSizes, FixedMm, DrivenPlaces, Driven
<1>4. Sum(f, P) = Zero
  <2>1. Fractional(z, P) /\ IsFraction(Zero)
    BY WholeIsFrac DEF Fractional, Zero
  <2>2. \A k \in P : f[k] = Zero ** z[k]
    BY <1>3, <2>1, ProductFacts
  <2>3. Sum(f, P) = Zero ** Sum(z, P) /\ IsFraction(Sum(z, P))
    BY <2>1, <2>2, <1>1, SumScaled, SumIsFraction
  <2>4. PICK x : x = Sum(z, P)
    OBVIOUS
  <2>5. Zero ** x = x ** Zero /\ x ** Zero = Zero
    BY <2>1, <2>3, <2>4, ProductFacts
  <2> QED
    BY <2>3, <2>4, <2>5
<1>5. IsFraction(Sum(f, R)) /\ Sum(f, P \cup R) = Sum(f, P) ++ Sum(f, R)
  BY <1>1, <1>2, SumOfParts, SumIsFraction
<1>6. PICK s : s = Sum(f, R)
  OBVIOUS
<1>7. Zero ++ s = s /\ IsFraction(span -- s)
  BY <1>5, <1>6, AddFacts
<1>8. Slack(u, d, span) = span -- Sum(f, P \cup R)
  BY <1>1 DEF Slack, FixedSizes
<1> QED
  BY <1>4, <1>5, <1>6, <1>7, <1>8

\* What distributing gives each member.
LEMMA DistributeIs ==
    ASSUME NEW u, NEW d, NEW span
    PROVE  /\ DOMAIN Distribute(u, d, span) = DOMAIN u.items[d]
           /\ \A k \in DOMAIN u.items[d] :
                 Distribute(u, d, span)[k] =
                    IF k \in DrivenPlaces(u, d)
                    THEN (WeightAt(u, d, k) // TotalWeight(u, d)) ** Slack(u, d, span)
                    ELSE FixedMm(u, d, k)
BY DEF Distribute, TotalWeight, Weights, WeightAt

\* Sizes mm that the rules of a run give at the scale: a weight of one is the scale.
RulesShow(u, d, mm, scale) ==
    /\ IsFraction(scale) /\ Zero \prec scale
    /\ \A k \in DOMAIN u.items[d] :
          mm[k] = IF k \in DrivenPlaces(u, d) THEN scale ** WeightAt(u, d, k)
                  ELSE FixedMm(u, d, k)

\* Sizes shown at a scale are those that distributing their sum gives.
LEMMA ShownIsDistributed ==
    ASSUME NEW u, NEW d, RunTyped(u, d), NEW mm, NEW scale, RulesShow(u, d, mm, scale)
    PROVE  LET span == Sum(mm, DOMAIN u.items[d])
           IN  /\ \A k \in DOMAIN u.items[d] : Distribute(u, d, span)[k] = mm[k]
               /\ Zero \preceq Slack(u, d, span)
               /\ DrivenPlaces(u, d) = {} => Slack(u, d, span) = Zero
               /\ IsFraction(span) /\ Fractional(mm, DOMAIN u.items[d])
<1> DEFINE f == FixedSizes(u, d)
           w == Weights(u, d)
           P == DrivenPlaces(u, d)
           R == Undriven(u, d)
           span == Sum(mm, DOMAIN u.items[d])
           t == TotalWeight(u, d)
<1>1. /\ DOMAIN u.items[d] = P \cup R /\ P \cap R = {} /\ IsFiniteSet(P) /\ IsFiniteSet(R)
      /\ IsFraction(t)
  BY WeightFacts DEF Undriven
<1>2. \A k \in P : mm[k] = scale ** w[k] /\ IsFraction(w[k]) /\ Zero \prec w[k]
  BY <1>1 DEF RulesShow, Weights, RunTyped
<1>3. \A k \in R : mm[k] = f[k]
  BY <1>1 DEF RulesShow, FixedSizes
<1>4. IsFraction(scale) /\ Zero \prec scale
  BY DEF RulesShow
<1>5. Fractional(w, P) /\ Fractional(f, R)
  BY <1>1, <1>2 DEF Fractional, RunTyped, FixedSizes
<1>6. Fractional(mm, P \cup R)
  <2>1. ASSUME NEW k \in P PROVE IsFraction(mm[k])
    <3>1. PICK x : x = w[k]
      OBVIOUS
    <3>2. IsFraction(scale ** x)
      BY <3>1, <1>2, <1>4, ProductFacts
    <3> QED
      BY <3>1, <3>2, <1>2
  <2> QED
    BY <2>1, <1>3, <1>5 DEF Fractional
<1>7. Sum(mm, P) = scale ** t
  BY <1>1, <1>2, <1>4, <1>5, SumScaled DEF TotalWeight
<1>8. Sum(mm, R) = Sum(f, R) /\ span = Sum(mm, P) ++ Sum(mm, R)
  BY <1>1, <1>3, <1>6, SumSame, SumOfParts
<1>9. PICK a, b, c : a = scale ** t /\ b = Sum(f, R) /\ c = a ++ b
  OBVIOUS
<1>10. IsFraction(a) /\ IsFraction(b) /\ IsFraction(c) /\ c = span
  BY <1>1, <1>4, <1>5, <1>7, <1>8, <1>9, ProductFacts, SumIsFraction, AddFacts
<1>11. Slack(u, d, span) = a
  <2>1. Slack(u, d, c) = c -- b
    BY <1>9, <1>10, SlackIs
  <2>2. (a ++ b) -- b = a
    BY <1>10, AddFacts
  <2> QED
    BY <2>1, <2>2, <1>9, <1>10
<1>12. ASSUME NEW k \in P
       PROVE  (WeightAt(u, d, k) // t) ** a = mm[k]
  <2>1. PICK x, y : x = w[k] /\ y = x // t
    OBVIOUS
  <2>2. Zero \prec t /\ x = WeightAt(u, d, k) /\ IsFraction(x)
    BY <2>1, <1>2, WeightFacts DEF Weights
  <2>3. IsFraction(y) /\ y ** t = x
    BY <2>1, <2>2, <1>1, QuotientLaws
  <2>4. y ** (t ** scale) = (y ** t) ** scale
    BY <2>3, <1>1, <1>4, ProductLaws
  <2>5. t ** scale = a /\ x ** scale = scale ** x
    BY <1>1, <1>4, <1>9, <2>2, ProductFacts
  <2> QED
    BY <2>1, <2>2, <2>3, <2>4, <2>5, <1>2
<1>13. P # {} => Zero \prec a
  BY <1>1, <1>4, <1>9, WeightFacts, ProductFacts
<1>14. P = {} => a = Zero
  BY <1>7, <1>9, SumAdds
<1>15. Zero \preceq a
  <2>1. Zero \preceq Zero /\ IsFraction(Zero)
    BY WholeIsFrac DEF \preceq, Zero, Whole
  <2>2. Zero \prec a => Zero \preceq a
    BY <2>1, <1>10, OrderFacts
  <2> QED
    BY <2>1, <2>2, <1>13, <1>14
<1>16. \A k \in DOMAIN u.items[d] : Distribute(u, d, span)[k] = mm[k]
  BY <1>1, <1>3, <1>11, <1>12, DistributeIs DEF FixedSizes
<1> QED
  BY <1>1, <1>6, <1>10, <1>11, <1>14, <1>15, <1>16

\* And what distributing gives is shown, and adds up to the span, where every member
\* comes out above zero and a run with none driven leaves nothing over.
LEMMA DistributedIsShown ==
    ASSUME NEW u, NEW d, RunTyped(u, d), NEW span, IsFraction(span),
           DrivenPlaces(u, d) = {} => Slack(u, d, span) = Zero,
           NEW mm, mm = Distribute(u, d, span),
           \A k \in DrivenPlaces(u, d) : Zero \prec mm[k]
    PROVE  /\ \E scale : RulesShow(u, d, mm, scale)
           /\ Sum(mm, DOMAIN u.items[d]) = span
<1> DEFINE P == DrivenPlaces(u, d)
           t == TotalWeight(u, d)
<1>1. PICK s : s = Slack(u, d, span)
  OBVIOUS
<1>2. IsFraction(s) /\ IsFraction(t) /\ P \subseteq DOMAIN u.items[d]
  BY <1>1, SlackIs, WeightFacts
<1>3. CASE P = {}
  <2>1. IsFraction(One) /\ Zero \prec One
    BY <1>2, ProductFacts
  <2>2. RulesShow(u, d, mm, One)
    BY <2>1, <1>3, DistributeIs DEF RulesShow
  <2>3. Sum(mm, DOMAIN u.items[d]) = span
    <3>1. Undriven(u, d) = DOMAIN u.items[d] /\ IsFiniteSet(DOMAIN u.items[d])
      BY <1>3 DEF Undriven, RunTyped
    <3>2. PICK b : b = Sum(FixedSizes(u, d), DOMAIN u.items[d])
      OBVIOUS
    <3>3. Sum(mm, DOMAIN u.items[d]) = b
      BY <1>3, <3>1, <3>2, DistributeIs, SumSame DEF FixedSizes
    <3>4. span -- b = Zero /\ IsFraction(b)
      BY <1>3, <3>1, <3>2, SlackIs
    <3>5. (span -- b) ++ b = span /\ Zero ++ b = b
      BY <3>4, AddFacts
    <3> QED
      BY <3>3, <3>4, <3>5
  <2> QED
    BY <2>2, <2>3
<1>4. CASE P # {}
  <2>1. PICK x : x = s // t
    OBVIOUS
  <2>2. Zero \prec t
    BY <1>4, WeightFacts
  <2>3. IsFraction(x) /\ x ** t = s
    BY <1>2, <2>1, <2>2, QuotientLaws
  <2>4. ASSUME NEW k \in P
        PROVE  mm[k] = x ** WeightAt(u, d, k)
    <3>1. PICK w : w = WeightAt(u, d, k)
      OBVIOUS
    <3>2. IsFraction(w)
      BY <3>1 DEF RunTyped
    <3>3. PICK y : y = w // t
      OBVIOUS
    <3>4. IsFraction(y) /\ y ** t = w
      BY <1>2, <2>2, <3>2, <3>3, QuotientLaws
    <3>5. mm[k] = y ** s
      BY <1>1, <1>2, <3>1, <3>3, DistributeIs
    <3>6. y ** s = x ** w
      <4>1. /\ y ** (x ** t) = (y ** x) ** t
            /\ x ** (y ** t) = (x ** y) ** t
        BY <1>2, <2>3, <3>4, ProductLaws
      <4>2. x ** y = y ** x
        BY <2>3, <3>4, ProductFacts
      <4> QED
        BY <4>1, <4>2, <2>3, <3>4
    <3> QED
      BY <3>1, <3>5, <3>6
  <2>5. Zero \prec x
    <3>1. PICK k \in P : TRUE
      BY <1>4
    <3>2. PICK w : w = WeightAt(u, d, k)
      OBVIOUS
    <3>3. IsFraction(w) /\ Zero \prec w /\ Zero \prec x ** w
      BY <3>1, <3>2, <2>4 DEF RunTyped
    <3>4. x ** w = w ** x /\ (Zero \prec w /\ Zero \prec w ** x => Zero \prec x)
      BY <3>3, <2>3, ProductFacts
    <3> QED
      BY <3>3, <3>4
  <2>6. RulesShow(u, d, mm, x)
    BY <2>3, <2>4, <2>5, DistributeIs DEF RulesShow
  <2>7. Sum(mm, DOMAIN u.items[d]) = span
    <3> DEFINE R == Undriven(u, d)
               f == FixedSizes(u, d)
    <3>1. DOMAIN u.items[d] = P \cup R /\ P \cap R = {} /\ IsFiniteSet(P) /\ IsFiniteSet(R)
      BY WeightFacts DEF Undriven
    <3>2. Fractional(mm, P \cup R)
      BY <2>6, <3>1, ShownIsDistributed
    <3>3. Sum(mm, P \cup R) = Sum(mm, P) ++ Sum(mm, R)
      BY <3>1, <3>2, SumOfParts
    <3>4. Sum(mm, P) = x ** t
      <4>1. Fractional(Weights(u, d), P) /\ \A k \in P : mm[k] = x ** Weights(u, d)[k]
        BY <2>4 DEF Fractional, Weights, RunTyped
      <4> QED
        BY <4>1, <3>1, <2>3, SumScaled DEF TotalWeight
    <3>5. Sum(mm, R) = Sum(f, R)
      BY <3>1, SumSame, DistributeIs DEF FixedSizes
    <3>6. PICK b : b = Sum(f, R)
      OBVIOUS
    <3>7. IsFraction(b) /\ s = span -- b
      BY <1>1, <3>6, SlackIs
    <3>8. (span -- b) ++ b = span
      BY <3>7, AddFacts
    <3> QED
      BY <3>1, <3>3, <3>4, <3>5, <3>6, <3>7, <3>8, <2>3
  <2> QED
    BY <2>6, <2>7
<1> QED
  BY <1>3, <1>4

------------------------------------------------------------------------------
(* The outer size, the place and the fixed point through the edits.        *)

\* What a new size m/d makes of a place l/d and a size s/d.
NewLow(side, l, s, m) ==
    CASE side = "min" -> l
      [] side = "center" -> (l + s) - m
      [] side = "max" -> (l + 2 * s) - 2 * m

\* v is u with size mm, p \over d where its place on that axis is.
IsResized(u, a, mm, p, v) ==
    /\ Fields \subseteq DOMAIN v
    /\ DOMAIN v.low = Axes /\ DOMAIN v.size = Axes /\ v.fixed = u.fixed
    /\ v.size[a] = mm /\ v.low[a] = p
    /\ \A c \in Axes \ {a} : v.low[c] = u.low[c] /\ v.size[c] = u.size[c]

\* Where a unit with a new size is.
LEMMA ResizedPlace ==
    ASSUME NEW u, Fields \subseteq DOMAIN u, IsFramed(u), NEW a \in Axes, NEW mm,
           NEW d, NEW l, NEW s, NEW m, AreOver(u.low[a], u.size[a], mm, d, l, s, m)
    PROVE  /\ NewLow(u.fixed[a], l, s, m) \in Int
           /\ IsResized(u, a, mm, Frac(NewLow(u.fixed[a], l, s, m), d), SetUnitSize(u, a, mm))
<1>0. /\ d \in Nat /\ d # 0 /\ l \in Int /\ s \in Int /\ m \in Int
      /\ u.low[a] = Frac(l, d) /\ u.size[a] = Frac(2 * s, d) /\ mm = Frac(2 * m, d)
  BY DEF AreOver
<1>t. PICK t \in Int : t = 2 * s
  BY <1>0
<1>n. PICK n \in Int : n = 2 * m
  BY <1>0
<1>1. PICK x : x = FixedPoint(u, a) -- FixedOffset(u, a, mm)
  OBVIOUS
<1>2. PICK v : v = SetUnitSize(u, a, mm)
  OBVIOUS
<1>3. v = [u EXCEPT !.size[a] = mm, !.low[a] = x]
  BY <1>1, <1>2 DEF SetUnitSize
<1>4. DOMAIN u.low = Axes /\ DOMAIN u.size = Axes /\ u.fixed[a] \in Sides
  BY DEF IsFramed
<1>5. /\ Fields \subseteq DOMAIN v /\ v.fixed = u.fixed
      /\ v.size = [u.size EXCEPT ![a] = mm] /\ v.low = [u.low EXCEPT ![a] = x]
  BY <1>3 DEF Fields
<1>6. ASSUME NEW y \in Int, NEW k \in Int, y = 2 * k PROVE Frac(y, d) // Whole(2) = Frac(k, d)
  <2>1. Whole(2) = Frac(2, 1)
    BY WholeIsFrac
  <2>2. Frac(y, d) // Frac(2, 1) = Frac(y * 1, d * 2)
    BY <1>0, OverTwoDenominators
  <2>3. y * 1 = y /\ y * d = k * (d * 2)
    BY <1>0, <1>6
  <2>4. d * 2 \in Int /\ d * 2 # 0
    BY <1>0
  <2>5. Frac(y, d * 2) = Frac(k, d)
    BY <1>0, <2>3, <2>4, FracEqual
  <2> QED
    BY <2>1, <2>2, <2>3, <2>5
<1>7. x = Frac(NewLow(u.fixed[a], l, s, m), d) /\ NewLow(u.fixed[a], l, s, m) \in Int
  <2>1. CASE u.fixed[a] = "min"
    <3>1. FixedPoint(u, a) = Frac(l, d) ++ Frac(0, d) /\ FixedOffset(u, a, mm) = Frac(0, d)
      BY <1>0, <2>1, ZeroIsFrac DEF FixedPoint, FixedOffset
    <3>2. PICK z \in Int : z = 0
      OBVIOUS
    <3>3. PICK y \in Int : y = l + z
      BY <1>0
    <3>4. Frac(l, d) ++ Frac(z, d) = Frac(y, d)
      BY <1>0, <3>3, OverOneDenominator
    <3>5. Frac(y, d) -- Frac(z, d) = Frac(y - z, d)
      BY <1>0, OverOneDenominator
    <3>6. y - z = l
      BY <1>0, <3>2, <3>3
    <3> QED
      BY <1>0, <1>1, <2>1, <3>1, <3>2, <3>4, <3>5, <3>6 DEF NewLow
  <2>2. CASE u.fixed[a] = "center"
    <3>1. FixedPoint(u, a) = Frac(l, d) ++ Frac(s, d) /\ FixedOffset(u, a, mm) = Frac(m, d)
      BY <1>0, <1>t, <1>n, <2>2, <1>6 DEF FixedPoint, FixedOffset
    <3>2. PICK y \in Int : y = l + s
      BY <1>0
    <3>3. Frac(l, d) ++ Frac(s, d) = Frac(y, d)
      BY <1>0, <3>2, OverOneDenominator
    <3>4. Frac(y, d) -- Frac(m, d) = Frac(y - m, d)
      BY <1>0, OverOneDenominator
    <3> QED
      BY <1>1, <2>2, <3>1, <3>2, <3>3, <3>4, <1>0, <1>t, <1>n DEF NewLow
  <2>3. CASE u.fixed[a] = "max"
    <3>1. FixedPoint(u, a) = Frac(l, d) ++ Frac(t, d) /\ FixedOffset(u, a, mm) = Frac(n, d)
      BY <1>0, <1>t, <1>n, <2>3 DEF FixedPoint, FixedOffset
    <3>2. PICK y \in Int : y = l + t
      BY <1>0
    <3>3. Frac(l, d) ++ Frac(t, d) = Frac(y, d)
      BY <1>0, <3>2, OverOneDenominator
    <3>4. Frac(y, d) -- Frac(n, d) = Frac(y - n, d)
      BY <1>0, OverOneDenominator
    <3> QED
      BY <1>1, <2>3, <3>1, <3>2, <3>3, <3>4, <1>0, <1>t, <1>n DEF NewLow
  <2> QED
    BY <1>4, <2>1, <2>2, <2>3 DEF Sides
<1>8. IsResized(u, a, mm, x, v)
  BY <1>4, <1>5 DEF IsResized
<1> QED
  BY <1>2, <1>7, <1>8

\* A frame is kept, or gets a size above zero or another fixed point.
LEMMA FramesStay ==
    ASSUME NEW u, Struct(u), IsFramed(u), NEW v, Reframes(u, v)
    PROVE  IsFramed(v)
<1>1. ASSUME NEW w, NEW x, IsFramed(w), SameFrame(w, x) PROVE IsFramed(x)
  BY <1>1 DEF IsFramed, SameFrame
<1>2. ASSUME NEW w, Fields \subseteq DOMAIN w, IsFramed(w) PROVE IsFramed(Solved(w))
  BY <1>1, <1>2, OperatorFrames
<1>3. Fields \subseteq DOMAIN u
  BY DEF Struct
<1>4. ASSUME NEW a \in Axes, NEW mm \in UnitSizes
      PROVE  /\ Fields \subseteq DOMAIN SetUnitSize(u, a, mm)
             /\ IsFramed(SetUnitSize(u, a, mm))
  <2>1. IsFraction(u.low[a]) /\ IsFraction(u.size[a]) /\ IsFraction(mm) /\ Zero \prec mm
    BY FrameAssumption DEF IsFramed
  <2>2. PICK d, l, s, m : AreOver(u.low[a], u.size[a], mm, d, l, s, m)
    BY <2>1, CommonDenominator
  <2>4. PICK w : w = SetUnitSize(u, a, mm)
    OBVIOUS
  <2>5. PICK y \in Int : IsResized(u, a, mm, Frac(y, d), w)
    <3>2. /\ NewLow(u.fixed[a], l, s, m) \in Int
          /\ IsResized(u, a, mm, Frac(NewLow(u.fixed[a], l, s, m), d), SetUnitSize(u, a, mm))
      BY <1>3, <2>2, ResizedPlace
    <3> QED
      BY <3>2, <2>4
  <2>6. IsFraction(w.low[a])
    BY <2>2, <2>5, FracIsFraction DEF IsResized, AreOver
  <2>7. IsFramed(w)
    BY <2>1, <2>5, <2>6 DEF IsFramed, IsResized
  <2> QED
    BY <2>4, <2>5, <2>7 DEF IsResized
<1>5. ASSUME NEW a \in Axes, NEW side \in Sides
      PROVE  /\ Fields \subseteq DOMAIN [u EXCEPT !.fixed[a] = side]
             /\ IsFramed([u EXCEPT !.fixed[a] = side])
  <2>1. PICK w : w = [u EXCEPT !.fixed[a] = side]
    OBVIOUS
  <2>2. /\ Fields \subseteq DOMAIN w /\ w.low = u.low /\ w.size = u.size
        /\ w.fixed = [u.fixed EXCEPT ![a] = side]
    BY <2>1, <1>3 DEF Fields
  <2>3. w.fixed \in [Axes -> Sides]
    BY <2>2 DEF IsFramed
  <2> QED
    BY <2>1, <2>2, <2>3 DEF IsFramed
<1> QED
  BY <1>1, <1>2, <1>4, <1>5, ZenonT(40) DEF Reframes

------------------------------------------------------------------------------
(* The steps.                                                              *)

\* The inductive invariant: a sound layout that fills a framed unit.
FrameInv == Inv /\ IsFramed(unit) /\ RootPlaced(unit)

\* Every step keeps it,
LEMMA FrameStep ==
    ASSUME FrameInv, [Next]_vars
    PROVE  FrameInv'
<1>1. Inv'
  BY StepFacts DEF FrameInv
<1>2. CASE Next
  <2>1. edits < MaxEdits /\ Edit /\ Struct(unit)
    BY <1>2 DEF Next, FrameInv, Inv
  <2>2. Becomes(unit, unit') /\ Reframes(unit, unit')
    BY <2>1, EditFacts, EditFrames DEF FrameInv
  <2>3. PICK v : v = unit'
    OBVIOUS
  <2>4. IsFramed(v)
    BY <2>1, <2>2, <2>3, FramesStay DEF FrameInv
  <2>5. RootPlaced(v)
    <3>1. CASE v = unit
      BY <3>1 DEF FrameInv
    <3>2. CASE \E c : Grows(unit, c) /\ v = Solved(c)
      BY <3>2, SolvedRoot DEF Grows, Keeps
    <3> QED
      BY <2>2, <2>3, <3>1, <3>2 DEF Becomes
  <2> QED
    BY <1>1, <2>3, <2>4, <2>5 DEF FrameInv, IsFramed, RootPlaced, OuterSpace
<1>3. CASE UNCHANGED vars
  BY <1>1, <1>3 DEF FrameInv, vars, IsFramed, RootPlaced, OuterSpace
<1> QED
  BY <1>2, <1>3

\* and opening a unit gives it.
LEMMA FrameStart ==
    ASSUME Init
    PROVE  FrameInv
<1>1. Inv
  BY StartFacts
<1>2. PICK u \in StartUnits : unit = Solved(u)
  BY DEF Init
<1>3. Struct(u) /\ IsFramed(u)
  BY <1>2, StartAssumption, FrameAssumption, LayoutIsStruct
<1>4. SameFrame(u, unit) /\ RootPlaced(unit)
  BY <1>2, <1>3, OperatorFrames, SolvedRoot DEF Struct
<1> QED
  BY <1>1, <1>3, <1>4 DEF FrameInv, IsFramed, SameFrame

\* Through every edit the unit fills its outer size, that size stays above zero
\* and every axis keeps a fixed point (edit.py set_unit_size; solver.py solve).
THEOREM UnitStaysFramed == Spec => []FrameInv
<1>1. Init => FrameInv
  BY FrameStart
<1>2. FrameInv /\ [Next]_vars => FrameInv'
  BY FrameStep
<1> QED
  BY <1>1, <1>2, PTL DEF Spec

------------------------------------------------------------------------------
(* Units with sound rules, and the room their nodes get.                   *)

\* Every run of such a unit can be distributed.
LEMMA RunIsTyped ==
    ASSUME NEW u, Struct(u), Ruled(u), NEW d \in Divisions(u)
    PROVE  /\ RunTyped(u, d)
           /\ DOMAIN u.items[d] = 1 .. Len(u.items[d]) /\ Len(u.items[d]) \in Nat
           /\ \A k \in DOMAIN u.items[d] :
                 u.items[d][k] \in Nodes(u) \ {u.root} /\ u.items[d][k] \in Range(u.items[d])
<1>1. IsRun(u.items[d], Nodes(u) \ {u.root})
  BY DEF Struct
<1>2. /\ DOMAIN u.items[d] = 1 .. Len(u.items[d]) /\ Len(u.items[d]) \in Nat
      /\ \A k \in DOMAIN u.items[d] :
            u.items[d][k] \in Nodes(u) \ {u.root} /\ u.items[d][k] \in Range(u.items[d])
  BY <1>1, RunFacts
<1>3. IsFiniteSet(DOMAIN u.items[d])
  BY <1>2, FS_Interval
<1>4. ASSUME NEW k \in DOMAIN u.items[d]
      PROVE  /\ IsFraction(FixedMm(u, d, k))
             /\ k \in DrivenPlaces(u, d) =>
                   IsFraction(WeightAt(u, d, k)) /\ Zero \prec WeightAt(u, d, k)
  <2>1. PICK i : i = u.items[d][k]
    OBVIOUS
  <2>2. IsRule(u.rule[i], i \in Boards(u))
    BY <1>2, <2>1 DEF Ruled
  <2>3. CASE u.rule[i].kind = "own"
    <3>1. i \in Boards(u)
      BY <2>2, <2>3 DEF IsRule
    <3>2. FixedMm(u, d, k) = u.thick[i]
      BY <2>1, <2>3, SMTT(40) DEF FixedMm
    <3> QED
      BY <3>1, <3>2, <2>1, <2>3 DEF Ruled, DrivenPlaces, Driven
  <2>4. CASE u.rule[i].kind = "driven"
    <3>1. FixedMm(u, d, k) = Zero
      BY <2>1, <2>4 DEF FixedMm
    <3>2. IsFraction(Zero)
      BY WholeIsFrac DEF Zero
    <3> QED
      BY <3>1, <3>2, <2>1, <2>2, <2>4 DEF IsRule, WeightAt
  <2>5. CASE u.rule[i].kind = "fixed"
    <3>1. u.rule[i].basis \in Bases /\ IsFraction(u.rule[i].mm)
      BY <2>2, <2>5 DEF IsRule
    <3>2. IsFraction(FixedMm(u, d, k))
      <4>1. CASE u.rule[i].basis = "clear"
        BY <2>1, <2>5, <3>1, <4>1 DEF FixedMm
      <4>2. CASE u.rule[i].basis = "with_next"
        <5>1. FixedMm(u, d, k) = IF Resolves(u, d, k)
                                 THEN u.rule[i].mm -- u.thick[u.items[d][k + 1]] ELSE Zero
          BY <2>1, <2>5, <4>2 DEF FixedMm
        <5>2. CASE Resolves(u, d, k)
          <6>1. u.items[d][k + 1] \in Boards(u)
            BY <2>1, <2>5, <4>2, <5>2 DEF Resolves
          <6>2. PICK p, q : p = u.rule[i].mm /\ q = u.thick[u.items[d][k + 1]]
            OBVIOUS
          <6>3. IsFraction(p -- q)
            BY <3>1, <6>1, <6>2, AddFacts DEF Ruled
          <6> QED
            BY <5>1, <5>2, <6>2, <6>3
        <5>3. CASE ~Resolves(u, d, k)
          BY <5>1, <5>3, WholeIsFrac DEF Zero
        <5> QED
          BY <5>2, <5>3
      <4> QED
        BY <3>1, <4>1, <4>2, SMTT(40) DEF Bases
    <3> QED
      BY <3>2, <2>1, <2>5 DEF DrivenPlaces, Driven
  <2> QED
    BY <2>2, <2>3, <2>4, <2>5 DEF IsRule
<1> QED
  BY <1>2, <1>3, <1>4 DEF RunTyped, DrivenPlaces

\* What is true of the root and passes from every division to its run is true of
\* every node.
LEMMA TreeInduction ==
    ASSUME NEW u, Struct(u), NEW T, u.root \in T,
           \A d \in Divisions(u) : d \in T => \A i \in Range(u.items[d]) : i \in T
    PROVE  Nodes(u) \subseteq T
<1> DEFINE N == {n \in Nat : \A i \in Nodes(u) : Cardinality(PathOf(u, i)) = n => i \in T}
<1>1. ASSUME NEW n \in Nat, \A m \in Nat : m < n => m \in N
      PROVE  n \in N
  <2>1. SUFFICES ASSUME NEW i \in Nodes(u), Cardinality(PathOf(u, i)) = n, i # u.root
                 PROVE  i \in T
    OBVIOUS
  <2>2. PICK d : d = RunOf(u, i)
    OBVIOUS
  <2>3. d \in Divisions(u) /\ i \in Range(u.items[d])
    BY <2>1, <2>2, PlaceFacts
  <2>4. /\ d \in Nodes(u) /\ Cardinality(PathOf(u, d)) + 1 = n
        /\ Cardinality(PathOf(u, d)) \in 1 .. Cardinality(Nodes(u))
    BY <2>1, <2>2, DepthFacts
  <2>5. Cardinality(PathOf(u, d)) \in N /\ Cardinality(PathOf(u, d)) \in Nat
    <3>1. Cardinality(Nodes(u)) \in Nat
      BY FS_CardinalityType DEF Struct
    <3> QED
      BY <2>4, <3>1, <1>1
  <2> QED
    BY <2>3, <2>4, <2>5
<1> HIDE DEF N
<1>2. Nat \subseteq N
  BY <1>1, StrongInduction
<1>3. \A i \in Nodes(u) : Cardinality(PathOf(u, i)) \in Nat
  <2>1. Cardinality(Nodes(u)) \in Nat
    BY FS_CardinalityType DEF Struct
  <2> QED
    BY <2>1, DepthFacts
<1> QED
  BY <1>2, <1>3 DEF N

\* A room: a place and a size on each axis.
IsRoom(w) ==
    /\ DOMAIN w.low = Axes /\ DOMAIN w.size = Axes
    /\ \A a \in Axes : IsFraction(w.low[a]) /\ IsFraction(w.size[a])

\* Distributing gives every member a fraction.
LEMMA DistributeTyped ==
    ASSUME NEW u, NEW d, RunTyped(u, d), NEW span, IsFraction(span)
    PROVE  Fractional(Distribute(u, d, span), DOMAIN u.items[d])
<1>1. SUFFICES ASSUME NEW k \in DOMAIN u.items[d] PROVE IsFraction(Distribute(u, d, span)[k])
  BY DEF Fractional
<1>2. CASE k \in DrivenPlaces(u, d)
  <2>1. PICK w, t, s : /\ w = WeightAt(u, d, k) /\ t = TotalWeight(u, d)
                       /\ s = Slack(u, d, span)
    OBVIOUS
  <2>2. IsFraction(w) /\ IsFraction(t) /\ Zero \prec t /\ IsFraction(s)
    BY <1>2, <2>1, WeightFacts, SlackIs DEF RunTyped
  <2>3. PICK q : q = w // t
    OBVIOUS
  <2>4. IsFraction(q)
    BY <2>2, <2>3, QuotientLaws
  <2>5. IsFraction(q ** s)
    BY <2>2, <2>4, ProductFacts
  <2> QED
    BY <1>2, <2>1, <2>3, <2>5, DistributeIs
<1>3. CASE k \notin DrivenPlaces(u, d)
  BY <1>3, DistributeIs DEF RunTyped
<1> QED
  BY <1>2, <1>3

\* A member's room in the room of its division.
LEMMA InRunFacts ==
    ASSUME NEW w, IsRoom(w), NEW a \in Axes, NEW n \in Nat, NEW k \in 1 .. n, NEW mm,
           Fractional(mm, 1 .. n)
    PROVE  /\ IsRoom(InRun(w, a, k, mm))
           /\ InRun(w, a, k, mm).size[a] = mm[k]
           /\ InRun(w, a, k, mm).low[a] = w.low[a] ++ Sum(mm, 1 .. k - 1)
           /\ \A c \in Axes \ {a} : /\ InRun(w, a, k, mm).size[c] = w.size[c]
                                    /\ InRun(w, a, k, mm).low[c] = w.low[c]
<1>1. PICK x, s, l : x = InRun(w, a, k, mm) /\ s = Sum(mm, 1 .. k - 1) /\ l = w.low[a]
  OBVIOUS
<1>2. x.low = [w.low EXCEPT ![a] = l ++ s] /\ x.size = [w.size EXCEPT ![a] = mm[k]]
  BY <1>1 DEF InRun
<1>3. IsFraction(s)
  <2>1. 1 .. k - 1 \subseteq 1 .. n /\ k - 1 \in Int
    OBVIOUS
  <2>2. IsFiniteSet(1 .. k - 1) /\ Fractional(mm, 1 .. k - 1)
    BY <2>1, FS_Interval DEF Fractional
  <2> QED
    BY <2>2, <1>1, SumIsFraction
<1>4. IsFraction(l ++ s) /\ IsFraction(mm[k])
  BY <1>1, <1>3, AddFacts DEF IsRoom, Fractional
<1> QED
  BY <1>1, <1>2, <1>4 DEF IsRoom

\* The room of a member of the run of d.
LEMMA MemberRoom ==
    ASSUME NEW u, Struct(u), NEW d \in Divisions(u), NEW k \in DOMAIN u.items[d]
    PROVE  Spaces(u)[u.items[d][k]] =
              InRun(Spaces(u)[d], u.axis[d], k,
                    Distribute(u, d, Spaces(u)[d].size[u.axis[d]]))
<1>1. PICK i : i = u.items[d][k]
  OBVIOUS
<1>2. IsRun(u.items[d], Nodes(u) \ {u.root})
  BY DEF Struct
<1>3. i \in Nodes(u) \ {u.root} /\ i \in Range(u.items[d])
  BY <1>1, <1>2, RunFacts
<1>4. RunOf(u, i) = d /\ u.items[d][PlaceOf(u, i)] = i /\ PlaceOf(u, i) \in DOMAIN u.items[d]
  BY <1>2, <1>3, PlaceFacts, RunFacts
<1>5. PlaceOf(u, i) = k
  BY <1>1, <1>2, <1>4 DEF IsRun, IsInjective
<1> QED
  BY <1>1, <1>3, <1>4, <1>5, SpacesFacts DEF Places, PlacedIn

\* Every node of a framed unit with sound rules has a room.
LEMMA RoomsFacts ==
    ASSUME NEW u, Struct(u), IsFramed(u), Ruled(u)
    PROVE  \A i \in Nodes(u) : IsRoom(Spaces(u)[i])
<1> DEFINE T == {i \in Nodes(u) : IsRoom(Spaces(u)[i])}
<1>1. u.root \in T
  <2>1. u.root \in Nodes(u)
    BY DEF Struct, Regions
  <2>2. Spaces(u)[u.root] = [low |-> u.low, size |-> u.size]
    BY <2>1, SpacesFacts DEF Places, OuterSpace
  <2> QED
    BY <2>1, <2>2 DEF IsRoom, IsFramed
<1>2. ASSUME NEW d \in Divisions(u), d \in T, NEW i \in Range(u.items[d])
      PROVE  i \in T
  <2>1. PICK k \in DOMAIN u.items[d] : i = u.items[d][k]
    BY DEF Range
  <2>2. /\ RunTyped(u, d) /\ DOMAIN u.items[d] = 1 .. Len(u.items[d])
        /\ Len(u.items[d]) \in Nat /\ i \in Nodes(u)
    BY <2>1, RunIsTyped
  <2>3. PICK w, a, mm : /\ w = Spaces(u)[d] /\ a = u.axis[d]
                        /\ mm = Distribute(u, d, w.size[a])
    OBVIOUS
  <2>4. IsRoom(w) /\ a \in Axes
    BY <1>2, <2>3 DEF Ruled
  <2>5. Fractional(mm, 1 .. Len(u.items[d]))
    BY <2>2, <2>3, <2>4, DistributeTyped DEF IsRoom
  <2>6. IsRoom(InRun(w, a, k, mm))
    BY <2>1, <2>2, <2>4, <2>5, InRunFacts
  <2> QED
    BY <2>1, <2>2, <2>3, <2>6, MemberRoom
<1> HIDE DEF T
<1>3. Nodes(u) \subseteq T
  BY <1>1, <1>2, TreeInduction
<1> QED
  BY <1>3 DEF T

\* The room each member of a run is shown to have along it.
ShownSizes(u, d) ==
    [k \in DOMAIN u.items[d] |-> u.space[u.items[d][k]].size[u.axis[d]]]

\* A framed unit with sound rules, solved.
Sized(u) ==
    /\ Struct(u) /\ IsFramed(u) /\ Ruled(u)
    /\ u.space = Spaces(u) /\ Solves(u)

\* The solver looks at the runs, the rules and the thicknesses.
LEMMA SameSolver ==
    ASSUME NEW u, NEW v, v.items = u.items, v.rule = u.rule, v.thick = u.thick
    PROVE  /\ \A d, k : Resolves(v, d, k) = Resolves(u, d, k)
           /\ \A d, k : FixedMm(v, d, k) = FixedMm(u, d, k)
           /\ \A d : DrivenPlaces(v, d) = DrivenPlaces(u, d)
           /\ \A d, span : Slack(v, d, span) = Slack(u, d, span)
           /\ \A d, span : Distribute(v, d, span) = Distribute(u, d, span)
<1>1. \A d, k : Resolves(v, d, k) = Resolves(u, d, k)
  BY DEF Resolves, Boards
<1>2. \A d, k : FixedMm(v, d, k) = FixedMm(u, d, k)
  BY <1>1 DEF FixedMm
<1>3. \A d : DrivenPlaces(v, d) = DrivenPlaces(u, d)
  BY DEF DrivenPlaces, Driven
<1>4. \A d, span : Slack(v, d, span) = Slack(u, d, span)
  <2>1. \A d : [k \in DOMAIN v.items[d] |-> FixedMm(v, d, k)]
               = [k \in DOMAIN u.items[d] |-> FixedMm(u, d, k)]
    BY <1>2
  <2> QED
    BY <2>1 DEF Slack
<1>5. ASSUME NEW d, NEW span PROVE Distribute(v, d, span) = Distribute(u, d, span)
  <2>1. [k \in DrivenPlaces(v, d) |-> v.rule[v.items[d][k]].weight]
        = [k \in DrivenPlaces(u, d) |-> u.rule[u.items[d][k]].weight]
    BY <1>3
  <2>2. TotalWeight(v, d) = TotalWeight(u, d)
    BY <1>3, <2>1 DEF TotalWeight, Weights, WeightAt
  <2>3. Distribute(u, d, span) =
          [k \in DOMAIN u.items[d] |->
             IF k \in DrivenPlaces(u, d)
             THEN (WeightAt(u, d, k) // TotalWeight(u, d)) ** Slack(u, d, span)
             ELSE FixedMm(u, d, k)]
    BY DEF Distribute, TotalWeight, Weights, WeightAt
  <2>4. Distribute(v, d, span) =
          [k \in DOMAIN v.items[d] |->
             IF k \in DrivenPlaces(v, d)
             THEN (WeightAt(v, d, k) // TotalWeight(v, d)) ** Slack(v, d, span)
             ELSE FixedMm(v, d, k)]
    BY DEF Distribute, TotalWeight, Weights, WeightAt
  <2>5. \A k : WeightAt(v, d, k) = WeightAt(u, d, k)
    BY DEF WeightAt
  <2> QED
    BY <1>2, <1>3, <1>4, <2>2, <2>3, <2>4, <2>5
<1> QED
  BY <1>1, <1>2, <1>3, <1>4, <1>5

\* Solving gives a unit its rooms and changes nothing else.
LEMMA SolvedIs ==
    ASSUME NEW u, Struct(u)
    PROVE  LET v == Solved(u)
           IN  /\ v.root = u.root /\ v.items = u.items /\ v.axis = u.axis /\ v.rule = u.rule
               /\ v.thick = u.thick /\ v.voids = u.voids /\ v.pinned = u.pinned
               /\ v.low = u.low /\ v.size = u.size /\ v.fixed = u.fixed
               /\ v.space = Spaces(u) /\ Struct(v) /\ Spaces(v) = Spaces(u)
               /\ Nodes(v) = Nodes(u) /\ Boards(v) = Boards(u) /\ Divisions(v) = Divisions(u)
               /\ Ruled(v) = Ruled(u) /\ IsFramed(v) = IsFramed(u)
<1>1. PICK s, v : s = Spaces(u) /\ v = Solved(u)
  OBVIOUS
<1>2. v = [u EXCEPT !.space = s]
  BY <1>1 DEF Solved
<1>3. /\ v.root = u.root /\ v.items = u.items /\ v.axis = u.axis /\ v.rule = u.rule
      /\ v.thick = u.thick /\ v.voids = u.voids /\ v.pinned = u.pinned
      /\ v.low = u.low /\ v.size = u.size /\ v.fixed = u.fixed /\ v.space = s
  BY <1>2 DEF Struct, Fields
<1>4. Struct(v) /\ Nodes(v) = Nodes(u) /\ Boards(v) = Boards(u) /\ Divisions(v) = Divisions(u)
  BY <1>1, <1>3, SolvedFacts DEF Keeps, Divisions
<1>5. Ruled(v) = Ruled(u) /\ IsFramed(v) = IsFramed(u)
  BY <1>3, <1>4 DEF Ruled, IsFramed
<1>6. Spaces(v) = Spaces(u)
  <2> DEFINE T == {i \in Nodes(u) : Spaces(v)[i] = Spaces(u)[i]}
  <2>1. u.root \in T
    <3>1. u.root \in Nodes(u)
      BY DEF Struct, Regions
    <3>2. Spaces(u)[u.root] = OuterSpace(u) /\ Spaces(v)[u.root] = OuterSpace(v)
      BY <1>3, <1>4, <3>1, SpacesFacts DEF Places
    <3> QED
      BY <1>3, <3>1, <3>2 DEF OuterSpace
  <2>2. ASSUME NEW d \in Divisions(u), d \in T, NEW i \in Range(u.items[d])
        PROVE  i \in T
    <3>1. PICK k \in DOMAIN u.items[d] : i = u.items[d][k]
      BY DEF Range
    <3>2. i \in Nodes(u)
      BY DEF Struct, IsRun, Range
    <3>3. Spaces(u)[i] = InRun(Spaces(u)[d], u.axis[d], k,
                               Distribute(u, d, Spaces(u)[d].size[u.axis[d]]))
      BY <3>1, MemberRoom
    <3>4. Spaces(v)[i] = InRun(Spaces(v)[d], v.axis[d], k,
                               Distribute(v, d, Spaces(v)[d].size[v.axis[d]]))
      BY <1>3, <1>4, <3>1, MemberRoom
    <3> QED
      BY <1>3, <2>2, <3>2, <3>3, <3>4, SameSolver
  <2> HIDE DEF T
  <2>3. Nodes(u) \subseteq T
    BY <2>1, <2>2, TreeInduction
  <2>4. \A i \in Nodes(u) : Spaces(v)[i] = Spaces(u)[i]
    BY <2>3 DEF T
  <2>5. /\ Spaces(u) = [i \in Nodes(u) |-> Spaces(u)[i]]
        /\ Spaces(v) = [i \in Nodes(u) |-> Spaces(v)[i]]
    BY <1>4, SpacesFacts DEF Places
  <2> QED
    BY <2>4, <2>5
<1> QED
  BY <1>1, <1>3, <1>4, <1>5, <1>6

\* So an edit whose candidate has a frame and sound rules, and solves, gives a sized
\* unit.
LEMMA SolvedIsSized ==
    ASSUME NEW u, Struct(u), IsFramed(u), Ruled(u), Solves(Solved(u))
    PROVE  Sized(Solved(u))
BY SolvedIs, SMTT(40) DEF Sized

\* In a sized unit the sizes of a run are above zero, are what its rules give at some
\* scale and add up to the size of the division.
LEMMA SizedRun ==
    ASSUME NEW u, Sized(u), NEW d \in Divisions(u)
    PROVE  LET mm == ShownSizes(u, d)
               span == u.space[d].size[u.axis[d]]
           IN  /\ RunTyped(u, d) /\ u.axis[d] \in Axes /\ IsRoom(u.space[d])
               /\ \A k \in DOMAIN u.items[d] :
                     /\ mm[k] = Distribute(u, d, span)[k]
                     /\ mm[k] = Extent(u, u.items[d][k])
                     /\ IsFraction(mm[k]) /\ Zero \prec mm[k]
                     /\ Resolves(u, d, k)
               /\ mm = Distribute(u, d, span)
               /\ \E scale : RulesShow(u, d, mm, scale)
               /\ Sum(mm, DOMAIN u.items[d]) = span
<1>1. PICK mm, span, a : /\ mm = ShownSizes(u, d) /\ a = u.axis[d]
                         /\ span = u.space[d].size[a]
  OBVIOUS
<1>2. /\ Struct(u) /\ Ruled(u) /\ IsFramed(u) /\ u.space = Spaces(u)
      /\ a \in Axes /\ d \in Nodes(u)
  BY <1>1 DEF Sized, Ruled, Struct, Regions
<1>3. /\ RunTyped(u, d) /\ DOMAIN u.items[d] = 1 .. Len(u.items[d]) /\ Len(u.items[d]) \in Nat
      /\ \A k \in DOMAIN u.items[d] :
            u.items[d][k] \in Nodes(u) \ {u.root} /\ u.items[d][k] \in Range(u.items[d])
  BY <1>2, RunIsTyped
<1>4. IsRoom(u.space[d]) /\ IsFraction(span)
  BY <1>1, <1>2, RoomsFacts DEF IsRoom
<1>5. PICK x : x = Distribute(u, d, span)
  OBVIOUS
<1>6. Fractional(x, DOMAIN u.items[d]) /\ DOMAIN x = DOMAIN u.items[d]
  BY <1>3, <1>4, <1>5, DistributeTyped, DistributeIs, SMTT(40)
<1>7. ASSUME NEW k \in DOMAIN u.items[d]
      PROVE  mm[k] = x[k] /\ mm[k] = Extent(u, u.items[d][k]) /\ Zero \prec mm[k]
  <2>1. PICK i : i = u.items[d][k]
    OBVIOUS
  <2>2. u.space[i] = InRun(u.space[d], a, k, x)
    BY <1>1, <1>2, <1>5, <2>1, MemberRoom
  <2>3. u.space[i].size[a] = x[k]
    BY <1>2, <1>3, <1>4, <1>6, <2>2, InRunFacts
  <2>4. RunOf(u, i) = d
    BY <1>2, <1>3, <2>1, PlaceFacts
  <2>5. Zero \prec Extent(u, i)
    BY <1>3, <2>1, SMTT(40) DEF Sized, Solves
  <2> QED
    BY <1>1, <2>1, <2>3, <2>4, <2>5, Zenon DEF ShownSizes, Extent, AxisOf
<1>8. DOMAIN mm = DOMAIN u.items[d] /\ mm = [k \in DOMAIN u.items[d] |-> mm[k]]
  BY <1>1 DEF ShownSizes
<1>9. x = [k \in DOMAIN u.items[d] |-> x[k]]
  BY <1>5 DEF Distribute
<1>10. mm = x
  BY <1>7, <1>8, <1>9
<1>11. DrivenPlaces(u, d) = {} => Slack(u, d, span) = Zero
  BY <1>1 DEF Sized, Solves
<1>12. \A k \in DrivenPlaces(u, d) : Zero \prec mm[k]
  BY <1>7 DEF DrivenPlaces
<1>13. (\E scale : RulesShow(u, d, mm, scale)) /\ Sum(mm, DOMAIN u.items[d]) = span
  BY <1>3, <1>4, <1>5, <1>10, <1>11, <1>12, DistributedIsShown
<1>14. \A k \in DOMAIN u.items[d] : Resolves(u, d, k)
  BY DEF Sized, Solves
<1>15. \A k \in DOMAIN u.items[d] : IsFraction(mm[k])
  BY <1>6, <1>10 DEF Fractional
<1> QED
  BY <1>1, <1>2, <1>3, <1>4, <1>5, <1>7, <1>10, <1>13, <1>14, <1>15, Zenon

\* A node's size along its run.
LEMMA ExtentFacts ==
    ASSUME NEW u, Sized(u), NEW i \in Nodes(u) \ {u.root}
    PROVE  IsFraction(Extent(u, i)) /\ Zero \prec Extent(u, i)
<1>1. PICK d, k : d = RunOf(u, i) /\ k = PlaceOf(u, i)
  OBVIOUS
<1>2. d \in Divisions(u) /\ k \in 1 .. Len(u.items[d]) /\ u.items[d][k] = i
  BY <1>1, PlaceFacts DEF Sized
<1>3. k \in DOMAIN u.items[d]
  BY <1>2, RunIsTyped DEF Sized
<1> QED
  BY <1>2, <1>3, SizedRun

\* An edit of rules that leaves every run's rules showing the sizes the unit has leaves
\* every room where it is, and solves.
LEMMA SameGeometry ==
    ASSUME NEW u, Sized(u), NEW v, Struct(v), Ruled(v), IsFramed(v),
           v.root = u.root, v.items = u.items, v.axis = u.axis, Nodes(v) = Nodes(u),
           v.low = u.low, v.size = u.size, v.pinned = u.pinned,
           \A d \in Divisions(u) : \E scale : RulesShow(v, d, ShownSizes(u, d), scale),
           \A d \in Divisions(u) : \A k \in DOMAIN u.items[d] : Resolves(v, d, k)
    PROVE  Spaces(v) = u.space /\ Sized(Solved(v)) /\ Solved(v).space = u.space
<1>0. Struct(u) /\ u.space = Spaces(u) /\ Divisions(v) = Divisions(u)
  BY DEF Sized, Divisions
<1>1. ASSUME NEW d \in Divisions(u)
      PROVE  LET span == u.space[d].size[u.axis[d]]
             IN  /\ Distribute(v, d, span) = ShownSizes(u, d)
                 /\ Zero \preceq Slack(v, d, span)
                 /\ DrivenPlaces(v, d) = {} => Slack(v, d, span) = Zero
  <2>1. PICK mm, span : mm = ShownSizes(u, d) /\ span = u.space[d].size[u.axis[d]]
    OBVIOUS
  <2>2. Sum(mm, DOMAIN v.items[d]) = span
    BY <2>1, SizedRun
  <2>3. RunTyped(v, d)
    BY <1>0, RunIsTyped
  <2>4. PICK scale : RulesShow(v, d, mm, scale)
    BY <2>1
  <2>5. /\ \A k \in DOMAIN v.items[d] : Distribute(v, d, span)[k] = mm[k]
        /\ Zero \preceq Slack(v, d, span)
        /\ DrivenPlaces(v, d) = {} => Slack(v, d, span) = Zero
    BY <2>2, <2>3, <2>4, ShownIsDistributed
  <2>6. PICK x : x = Distribute(v, d, span)
    BY SMTT(40)
  <2>7. x = [k \in DOMAIN v.items[d] |-> x[k]] /\ mm = [k \in DOMAIN u.items[d] |-> mm[k]]
    BY <2>1, <2>6, Zenon DEF Distribute, ShownSizes
  <2>8. x = mm
    BY <2>5, <2>6, <2>7
  <2> QED
    BY <2>1, <2>5, <2>6, <2>8
<1>2. Spaces(v) = u.space
  <2> DEFINE T == {i \in Nodes(u) : Spaces(v)[i] = u.space[i]}
  <2>1. u.root \in T
    <3>1. u.root \in Nodes(u)
      BY <1>0 DEF Struct, Regions
    <3>2. Spaces(u)[u.root] = OuterSpace(u) /\ Spaces(v)[u.root] = OuterSpace(v)
      BY <1>0, <3>1, SpacesFacts DEF Places
    <3> QED
      BY <1>0, <3>1, <3>2 DEF OuterSpace
  <2>2. ASSUME NEW d \in Divisions(u), d \in T, NEW i \in Range(u.items[d])
        PROVE  i \in T
    <3>1. PICK k \in DOMAIN u.items[d] : i = u.items[d][k]
      BY DEF Range
    <3>2. i \in Nodes(u)
      BY <1>0 DEF Struct, IsRun, Range
    <3>3. PICK s : s = u.space[d].size[u.axis[d]]
      OBVIOUS
    <3>4. u.space[i] = InRun(u.space[d], u.axis[d], k, Distribute(u, d, s))
      BY <1>0, <3>1, <3>3, MemberRoom
    <3>5. Spaces(v)[i] = InRun(u.space[d], u.axis[d], k, Distribute(v, d, s))
      BY <1>0, <2>2, <3>1, <3>3, MemberRoom
    <3>6. Distribute(v, d, s) = ShownSizes(u, d) /\ Distribute(u, d, s) = ShownSizes(u, d)
      BY <1>1, <3>3, SizedRun
    <3> QED
      BY <3>2, <3>4, <3>5, <3>6
  <2> HIDE DEF T
  <2>3. Nodes(u) \subseteq T
    BY <1>0, <2>1, <2>2, TreeInduction
  <2>4. \A i \in Nodes(u) : Spaces(v)[i] = u.space[i]
    BY <2>3 DEF T
  <2>5. /\ u.space = [i \in Nodes(u) |-> u.space[i]]
        /\ Spaces(v) = [i \in Nodes(u) |-> Spaces(v)[i]]
    BY <1>0, SpacesFacts DEF Places
  <2> QED
    BY <2>4, <2>5
<1>3. PICK w : w = Solved(v)
  OBVIOUS
<1>4. /\ w.root = u.root /\ w.items = u.items /\ w.axis = u.axis /\ w.rule = v.rule
      /\ w.thick = v.thick /\ w.pinned = u.pinned /\ w.space = u.space
      /\ Nodes(w) = Nodes(u) /\ Divisions(w) = Divisions(u)
  BY <1>0, <1>2, <1>3, SolvedIs
<1>5. Solves(w)
  <2>1. ASSUME NEW d \in Divisions(u)
        PROVE  LET slack == Slack(w, d, u.space[d].size[u.axis[d]])
               IN  /\ \A k \in DOMAIN u.items[d] : Resolves(w, d, k)
                   /\ Zero \preceq slack
                   /\ DrivenPlaces(w, d) = {} => slack = Zero
    BY <1>1, <1>4, SameSolver
  <2>2. \A i : Extent(w, i) = Extent(u, i)
    BY <1>4 DEF Extent, AxisOf, RunOf, Divisions
  <2>3. \A i \in Nodes(u) \ {u.root} : Zero \prec Extent(w, i)
    BY <2>2, ExtentFacts
  <2>4. \A b \in DOMAIN u.pinned : u.space[b].size = u.pinned[b]
    BY DEF Sized, Solves
  <2> QED
    BY <1>4, <2>1, <2>3, <2>4 DEF Solves
<1> QED
  BY <1>2, <1>3, <1>4, <1>5, SolvedIsSized

------------------------------------------------------------------------------
(* The stock of a new board: there is a board to cut it like.              *)

\* A set of places that is not empty has a first one, before the others.
LEMMA MinIsFirst ==
    ASSUME NEW n \in Nat, NEW S \in SUBSET (1 .. n), S # {}
    PROVE  Min(S) \in S /\ \A y \in S : y # Min(S) => Min(S) < y
<1>1. S \subseteq Nat
  OBVIOUS
<1>2. PICK x \in S : \A y \in S : ~(<<y, x>> \in OpToRel(<, Nat))
  BY <1>1, NatLessThanWellFounded, WFMin
<1>3. \A y \in S : x =< y
  <2>1. SUFFICES ASSUME NEW y \in S, y < x PROVE FALSE
    BY <1>1
  <2>2. <<y, x>> \in OpToRel(<, Nat)
    BY <1>1, <2>1, Zenon DEF OpToRel
  <2> QED
    BY <2>2, <1>2
<1>4. Min(S) \in S /\ \A y \in S : Min(S) =< y
  BY <1>3 DEF Min
<1>5. PICK m : m = Min(S)
  OBVIOUS
<1>6. m \in S /\ m \in Nat /\ \A y \in S : y \in Nat /\ m =< y
  BY <1>1, <1>4, <1>5
<1>7. \A y \in S : y # m => m < y
  BY <1>6
<1> QED
  BY <1>5, <1>6, <1>7

\* A node on the path of another has one of its members on it.
LEMMA PathGoesThrough ==
    ASSUME NEW u, Struct(u), NEW i, NEW j \in Nodes(u), i \in PathOf(u, j), i # j
    PROVE  /\ i \in Divisions(u)
           /\ \E k \in DOMAIN u.items[i] : u.items[i][k] \in PathOf(u, j)
<1> DEFINE Goes(x) == i \in PathOf(u, x) /\ i # x =>
                        /\ i \in Divisions(u)
                        /\ \E k \in DOMAIN u.items[i] : u.items[i][k] \in PathOf(u, x)
           N == {n \in Nat : \A x \in Nodes(u) : Cardinality(PathOf(u, x)) = n => Goes(x)}
<1>0. /\ Cardinality(Nodes(u)) \in Nat
      /\ \A x \in Nodes(u) : Cardinality(PathOf(u, x)) \in Nat
  <2>1. Cardinality(Nodes(u)) \in Nat
    BY FS_CardinalityType DEF Struct
  <2> QED
    BY <2>1, DepthFacts
<1>1. ASSUME NEW n \in Nat, \A m \in Nat : m < n => m \in N
      PROVE  n \in N
  <2>1. SUFFICES ASSUME NEW x \in Nodes(u), Cardinality(PathOf(u, x)) = n,
                        i \in PathOf(u, x), i # x
                 PROVE  /\ i \in Divisions(u)
                        /\ \E k \in DOMAIN u.items[i] : u.items[i][k] \in PathOf(u, x)
    OBVIOUS
  <2>2. PathOf(u, x) = IF x = u.root THEN {x} ELSE {x} \cup PathOf(u, RunOf(u, x))
    BY PathStep
  <2>3. x # u.root
    BY <2>1, <2>2
  <2>4. PICK p : p = RunOf(u, x)
    OBVIOUS
  <2>5. /\ p \in Divisions(u) /\ p \in Nodes(u) /\ x \in Range(u.items[p])
        /\ Cardinality(PathOf(u, p)) + 1 = n
    BY <2>1, <2>3, <2>4, PlaceFacts, DepthFacts
  <2>6. PathOf(u, x) = {x} \cup PathOf(u, p) /\ i \in PathOf(u, p)
    BY <2>1, <2>2, <2>3, <2>4
  <2>7. CASE i = p
    <3>1. PICK k \in DOMAIN u.items[p] : u.items[p][k] = x
      BY <2>5 DEF Range
    <3> QED
      BY <2>5, <2>6, <2>7, <3>1
  <2>8. CASE i # p
    <3>1. Cardinality(PathOf(u, p)) \in N
      BY <1>0, <1>1, <2>5
    <3>2. Goes(p)
      BY <2>5, <3>1
    <3> QED
      BY <2>6, <2>8, <3>2
  <2> QED
    BY <2>7, <2>8
<1> HIDE DEF N
<1>2. Nat \subseteq N
  BY <1>1, StrongInduction
<1>3. Goes(j)
  BY <1>0, <1>2 DEF N
<1> QED
  BY <1>3

\* The first of the boards S in the tree.
IsFirst(u, S, b) == b \in S /\ \A c \in S \ {b} : Precedes(u, Divisions(u), b, c)

\* There is one.
LEMMA FirstExists ==
    ASSUME NEW u, Struct(u), NEW S, S \subseteq Boards(u), S # {}
    PROVE  \E b : IsFirst(u, S, b)
<1> DEFINE Below(i) == {j \in Boards(u) : i \in PathOf(u, j)}
           HasFirst(i) == \A R \in SUBSET Below(i) : R # {} => \E b : IsFirst(u, R, b)
           Height(i) == Cardinality(Nodes(u)) - Cardinality(PathOf(u, i))
           N == {n \in Nat : \A i \in Nodes(u) : Height(i) = n => HasFirst(i)}
<1>0. \A i \in Nodes(u) : Height(i) \in Nat
  <2>1. Cardinality(Nodes(u)) \in Nat
    BY FS_CardinalityType DEF Struct
  <2> QED
    BY <2>1, DepthFacts
<1>b. Boards(u) \subseteq Nodes(u) /\ Boards(u) \cap Divisions(u) = {}
  BY DEF Struct, Regions
<1>1. ASSUME NEW n \in Nat, \A m \in Nat : m < n => m \in N
      PROVE  n \in N
  <2>1. SUFFICES ASSUME NEW i \in Nodes(u), Height(i) = n,
                        NEW R \in SUBSET Below(i), R # {}
                 PROVE  \E b : IsFirst(u, R, b)
    OBVIOUS
  <2>2. CASE i \notin Divisions(u)
    <3>1. R = {i}
      BY <1>b, <2>1, <2>2, PathGoesThrough
    <3> QED
      BY <3>1 DEF IsFirst
  <2>3. CASE i \in Divisions(u)
    <3>1. PICK run : run = u.items[i]
      OBVIOUS
    <3>2. IsRun(run, Nodes(u) \ {u.root})
      BY <2>3, <3>1 DEF Struct
    <3>3. /\ DOMAIN run = 1 .. Len(run) /\ Len(run) \in Nat
          /\ \A k \in 1 .. Len(run) : run[k] \in Range(run) /\ run[k] \in Nodes(u) \ {u.root}
      BY <3>2, RunFacts
    <3> DEFINE K == {k \in 1 .. Len(run) : \E j \in R : run[k] \in PathOf(u, j)}
    <3>4. \A j \in R : \E k \in K : run[k] \in PathOf(u, j)
      BY <1>b, <2>1, <2>3, <3>1, <3>3, PathGoesThrough
    <3>5. K # {}
      BY <2>1, <3>4
    <3>6. PICK m : m = Min(K)
      OBVIOUS
    <3>7. m \in K /\ \A k \in K : k # m => m < k
      BY <3>3, <3>5, <3>6, MinIsFirst
    <3>8. PICK c : c = run[m]
      OBVIOUS
    <3> DEFINE Q == {j \in R : c \in PathOf(u, j)}
    <3>9. Q \in SUBSET Below(c) /\ Q # {} /\ Q \subseteq R
      BY <3>7, <3>8
    <3>10. HasFirst(c)
      <4>1. c \in Nodes(u) \ {u.root} /\ c \in Range(run)
        BY <3>3, <3>7, <3>8
      <4>2. RunOf(u, c) = i
        BY <2>3, <3>1, <4>1, PlaceFacts
      <4>3. Cardinality(PathOf(u, i)) + 1 = Cardinality(PathOf(u, c))
        BY <4>1, <4>2, DepthFacts
      <4>4. Height(c) \in Nat /\ Height(i) \in Nat
        BY <1>0, <4>1
      <4>5. Cardinality(PathOf(u, i)) \in Int /\ Cardinality(PathOf(u, c)) \in Int
            /\ Cardinality(Nodes(u)) \in Int
        <5>1. Cardinality(Nodes(u)) \in Nat
          BY FS_CardinalityType DEF Struct
        <5> QED
          BY <5>1, <4>1, DepthFacts
      <4>6. Height(c) < n
        BY <2>1, <4>3, <4>4, <4>5
      <4>7. Height(c) \in N
        BY <1>1, <4>4, <4>6
      <4> QED
        BY <4>1, <4>7
    <3>11. PICK b : IsFirst(u, Q, b)
      BY <3>9, <3>10
    <3>12. ASSUME NEW j \in R \ {b} PROVE Precedes(u, Divisions(u), b, j)
      <4>1. CASE j \in Q
        BY <3>11, <3>12, <4>1 DEF IsFirst
      <4>2. CASE j \notin Q
        <5>1. PICK k \in K : run[k] \in PathOf(u, j)
          BY <3>4, <3>12
        <5>2. k # m /\ m < k
          BY <3>7, <3>8, <3>12, <4>2, <5>1
        <5>3. b \in Q
          BY <3>11 DEF IsFirst
        <5>4. /\ m < k /\ run[m] \in PathOf(u, b) /\ run[k] \in PathOf(u, j)
              /\ m \in DOMAIN run /\ k \in DOMAIN run
          BY <3>3, <3>7, <3>8, <5>1, <5>2, <5>3
        <5> QED
          BY <2>3, <3>1, <5>4 DEF Precedes
      <4> QED
        BY <4>1, <4>2
    <3>13. b \in R
      BY <3>11 DEF IsFirst
    <3> QED
      BY <3>12, <3>13 DEF IsFirst
  <2> QED
    BY <2>2, <2>3
<1> HIDE DEF N
<1>2. Nat \subseteq N
  BY <1>1, StrongInduction
<1>3. HasFirst(u.root)
  BY <1>0, <1>2 DEF N, Struct, Regions
<1>4. S \subseteq Below(u.root)
  <2>1. \A j \in Nodes(u) : u.root \in PathOf(u, j)
    BY StructIsTree DEF IsTree
  <2> QED
    BY <1>b, <2>1
<1> QED
  BY <1>3, <1>4

\* Of finitely many fractions one is the least.
LEMMA LeastExists ==
    ASSUME NEW f, NEW S, IsFiniteSet(S), S # {}, Fractional(f, S)
    PROVE  \E x \in S : \A y \in S : f[x] \preceq f[y]
<1> DEFINE T == {s \in SUBSET S : s # {} => \E x \in s : \A y \in s : f[x] \preceq f[y]}
<1>1. ASSUME NEW s \in SUBSET S, \A x \in s : s \ {x} \in T
      PROVE  s \in T
  <2>1. SUFFICES ASSUME s # {} PROVE \E x \in s : \A y \in s : f[x] \preceq f[y]
    OBVIOUS
  <2>2. PICK z \in s : TRUE
    BY <2>1
  <2>3. \A x \in s : IsFraction(f[x]) /\ f[x] \preceq f[x]
    BY OrderFacts DEF Fractional
  <2>4. CASE s \ {z} = {}
    BY <2>2, <2>3, <2>4
  <2>5. CASE s \ {z} # {}
    <3>1. PICK x \in s \ {z} : \A y \in s \ {z} : f[x] \preceq f[y]
      BY <1>1, <2>2, <2>5
    <3>2. PICK p, q : p = f[x] /\ q = f[z]
      OBVIOUS
    <3>3. IsFraction(p) /\ IsFraction(q)
      BY <2>2, <2>3, <3>1, <3>2
    <3>4. CASE p \preceq q
      BY <3>1, <3>2, <3>4
    <3>5. CASE ~(p \preceq q)
      <4>1. q \prec p
        BY <3>3, <3>5, OrderFacts
      <4>2. ASSUME NEW y \in s \ {z} PROVE q \preceq f[y]
        <5>1. PICK r : r = f[y]
          OBVIOUS
        <5>2. IsFraction(r) /\ p \preceq r
          BY <2>3, <3>1, <3>2, <4>2, <5>1
        <5>3. q \prec r
          BY <3>3, <4>1, <5>2, OrderLaws
        <5> QED
          BY <3>3, <5>1, <5>2, <5>3, OrderFacts
      <4> QED
        BY <2>2, <2>3, <3>2, <4>2
    <3> QED
      BY <3>4, <3>5
  <2> QED
    BY <2>4, <2>5
<1> HIDE DEF T
<1>2. SUBSET S \subseteq T
  BY <1>1, SetInduction
<1> QED
  BY <1>2 DEF T

\* So the nearest of some boards is one of them (stock.py source_board).
LEMMA NearestIsOne ==
    ASSUME NEW u, Struct(u), NEW bs, bs \subseteq Boards(u), bs # {}, NEW mm, Fractional(mm, bs)
    PROVE  Nearest(u, bs, mm) \in bs
<1>1. IsFiniteSet(bs)
  BY FS_Subset DEF Struct
<1>2. PICK x \in bs : \A y \in bs : mm[x] \preceq mm[y]
  BY <1>1, LeastExists
<1> DEFINE T == {y \in bs : mm[y] = mm[x]}
<1>3. T \subseteq Boards(u) /\ x \in T
  OBVIOUS
<1>4. PICK b : IsFirst(u, T, b)
  BY <1>3, FirstExists
<1>5. b \in bs /\ mm[b] = mm[x]
  BY <1>4 DEF IsFirst
<1>6. \A c \in bs \ {b} : /\ mm[b] \preceq mm[c]
                          /\ mm[b] = mm[c] => Precedes(u, Divisions(u), b, c)
  BY <1>2, <1>4, <1>5 DEF IsFirst
<1> QED
  BY <1>5, <1>6 DEF Nearest

\* In a sized unit the distance between two nodes is a number.
LEMMA DistanceIsFraction ==
    ASSUME NEW u, Sized(u), NEW i \in Nodes(u), NEW j \in Nodes(u)
    PROVE  IsFraction(Distance(u, i, j))
<1>1. IsRoom(u.space[i]) /\ IsRoom(u.space[j])
  BY RoomsFacts DEF Sized
<1> DEFINE Center(n, a) == u.space[n].low[a] ++ (u.space[n].size[a] // Whole(2))
<1>2. ASSUME NEW n, IsRoom(u.space[n]), NEW a \in Axes PROVE IsFraction(Center(n, a))
  <2>1. PICK l, s : l = u.space[n].low[a] /\ s = u.space[n].size[a]
    OBVIOUS
  <2>2. IsFraction(l) /\ IsFraction(s)
    BY <1>2, <2>1 DEF IsRoom
  <2>3. IsFraction(Whole(2)) /\ Zero \prec Whole(2)
    BY WholeIsFrac DEF \prec, Zero, Whole
  <2>4. PICK h : h = s // Whole(2)
    OBVIOUS
  <2>5. IsFraction(h)
    BY <2>2, <2>3, <2>4, QuotientLaws
  <2>6. IsFraction(l ++ h)
    BY <2>2, <2>5, AddFacts, SMTT(40)
  <2> QED
    BY <2>1, <2>4, <2>6
<1>3. ASSUME NEW a \in Axes PROVE IsFraction(Square(Center(i, a) -- Center(j, a)))
  <2>1. PICK p, q : p = Center(i, a) /\ q = Center(j, a)
    OBVIOUS
  <2>2. IsFraction(p) /\ IsFraction(q)
    BY <1>1, <1>2, <2>1
  <2>3. PICK e : e = p -- q
    OBVIOUS
  <2>4. IsFraction(e)
    BY <2>2, <2>3, AddFacts
  <2>5. IsFraction(e ** e)
    BY <2>4, ProductFacts
  <2> QED
    BY <2>1, <2>3, <2>5 DEF Square
<1>4. PICK x, y : /\ x = Square(Center(i, "h") -- Center(j, "h"))
                  /\ y = Square(Center(i, "v") -- Center(j, "v"))
  BY SMTT(40)
<1>5. IsFraction(x) /\ IsFraction(y)
  BY <1>3, <1>4 DEF Axes
<1>6. IsFraction(x ++ y)
  BY <1>5, AddFacts
<1>7. Distance(u, i, j) = x ++ y
  BY <1>4 DEF Distance
<1> QED
  BY <1>6, <1>7

\* Of four sets the first that is not empty is one of them.
LEMMA FirstNonemptyIsOne ==
    ASSUME NEW B, NEW p, NEW q, NEW r, NEW s, p \subseteq B, q \subseteq B, r \subseteq B,
           s \subseteq B, s # {}
    PROVE  FirstNonempty(<<p, q, r, s>>) \subseteq B /\ FirstNonempty(<<p, q, r, s>>) # {}
<1>1. PICK t : t = <<p, q, r, s>>
  OBVIOUS
<1>2. t[1] = p /\ t[2] = q /\ t[3] = r /\ t[4] = s /\ DOMAIN t = 1 .. 4
  BY <1>1
<1> DEFINE K == {i \in DOMAIN t : t[i] # {}}
<1>3. K \in SUBSET (1 .. 4) /\ K # {} /\ 4 \in Nat
  BY <1>2
<1>4. Min(K) \in K
  BY <1>3, MinIsFirst
<1>5. PICK m : m = Min(K)
  OBVIOUS
<1>6. t[m] # {} /\ m \in 1 .. 4
  BY <1>2, <1>4, <1>5
<1>7. m = 1 \/ m = 2 \/ m = 3 \/ m = 4
  BY <1>6
<1>8. FirstNonempty(t) = t[m]
  BY <1>5 DEF FirstNonempty
<1> QED
  BY <1>1, <1>2, <1>6, <1>7, <1>8

\* A unit with a board has one to cut the next one like (stock.py source_board).
LEMMA SourceIsBoard ==
    ASSUME NEW u, Sized(u), NEW r \in Nodes(u), NEW a, Boards(u) # {}
    PROVE  SourceBoard(u, r, a) \in Boards(u)
<1>1. Struct(u) /\ Boards(u) \subseteq Nodes(u)
  BY DEF Sized, Struct
<1> DEFINE parallel == {b \in Boards(u) : AxisOf(u, b) = a /\ u.rule[b] = Own}
           interior == {b \in parallel : ~Carcass(u, b)}
           sameRun == {b \in interior : RunOf(u, b) = RunOf(u, r)}
           tier == FirstNonempty(<<sameRun, interior, parallel, Boards(u)>>)
           mm == [b \in Boards(u) |-> Distance(u, b, r)]
<1>2. parallel \subseteq Boards(u) /\ interior \subseteq Boards(u) /\ sameRun \subseteq Boards(u)
  OBVIOUS
<1>3. SourceBoard(u, r, a) = Nearest(u, tier, mm)
  BY DEF SourceBoard
<1> HIDE DEF parallel, interior, sameRun
<1>4. tier \subseteq Boards(u) /\ tier # {}
  BY <1>2, FirstNonemptyIsOne
<1> HIDE DEF tier
<1>5. Fractional(mm, tier)
  <2>1. ASSUME NEW b \in tier PROVE IsFraction(mm[b])
    BY <1>1, <1>4, DistanceIsFraction
  <2> QED
    BY <2>1 DEF Fractional
<1> HIDE DEF mm
<1> QED
  BY <1>1, <1>3, <1>4, <1>5, NearestIsOne

------------------------------------------------------------------------------
(* Sound rules through the edits.                                          *)

\* A rule that shares the slack is sound: the size and the weight it is worked out
\* from are above zero, and so is the size it is worked out against (edit.py
\* _other_driven_anchor).
LEMMA SharingIsSound ==
    ASSUME NEW u, Sized(u), NEW d \in Divisions(u), NEW excluded, NEW mm,
           IsFraction(mm), Zero \prec mm
    PROVE  IsRule(SharingRule(u, d, excluded, mm), FALSE)
<1> DEFINE anchors == DrivenPlaces(u, d) \ excluded
           i == u.items[d][Min(anchors)]
<1>1. CASE anchors = {}
  <2>1. SharingRule(u, d, excluded, mm) = Weighted(One)
    BY <1>1 DEF SharingRule, Fill
  <2>2. IsFraction(One) /\ Zero \prec One
    BY WholeIsFrac, ProductFacts DEF Zero
  <2> QED
    BY <2>1, <2>2 DEF IsRule, Weighted
<1>2. CASE anchors # {}
  <2>1. PICK k : k = Min(anchors)
    OBVIOUS
  <2>2. /\ DOMAIN u.items[d] = 1 .. Len(u.items[d]) /\ Len(u.items[d]) \in Nat
        /\ RunTyped(u, d)
    BY RunIsTyped DEF Sized
  <2>3. anchors \in SUBSET (1 .. Len(u.items[d]))
    BY <2>2 DEF DrivenPlaces
  <2>4. k \in anchors
    BY <1>2, <2>1, <2>2, <2>3, MinIsFirst
  <2>5. k \in DrivenPlaces(u, d) /\ k \in DOMAIN u.items[d]
    BY <2>4 DEF DrivenPlaces
  <2>6. PICK w, e : w = u.rule[i].weight /\ e = Extent(u, i)
    OBVIOUS
  <2>7. IsFraction(w) /\ Zero \prec w
    BY <2>1, <2>2, <2>5, <2>6 DEF RunTyped, WeightAt
  <2>8. IsFraction(e) /\ Zero \prec e
    BY <2>1, <2>5, <2>6, SizedRun
  <2>9. PICK x : x = mm ** w
    OBVIOUS
  <2>10. IsFraction(x) /\ Zero \prec x
    BY <2>7, <2>9, ProductFacts
  <2>11. IsFraction(x // e) /\ Zero \prec x // e
    BY <2>8, <2>10, QuotientLaws, SMTT(40)
  <2>12. SharingRule(u, d, excluded, mm) = Weighted(x // e)
    BY <1>2, <2>6, <2>9 DEF SharingRule
  <2> QED
    BY <2>11, <2>12 DEF IsRule, Weighted
<1> QED
  BY <1>1, <1>2

\* Ruled, said of the fields.
Soundly(v) ==
    /\ \A i \in DOMAIN v.rule : IsRule(v.rule[i], i \in DOMAIN v.thick)
    /\ \A b \in DOMAIN v.thick : IsFraction(v.thick[b]) /\ Zero \prec v.thick[b]
    /\ \A d \in DOMAIN v.axis : v.axis[d] \in Axes

\* For a layout the two are one.
LEMMA SoundlyIsRuled ==
    ASSUME NEW v, Struct(v)
    PROVE  Soundly(v) <=> Ruled(v)
BY DEF Soundly, Ruled, Struct, Nodes, Boards, Divisions

\* The rule of a region is no board's.
LEMMA RegionsRule ==
    ASSUME NEW u, Ruled(u), NEW i \in Regions(u)
    PROVE  IsRule(u.rule[i], FALSE)
<1>1. i \in Nodes(u) /\ ~(i \in Boards(u))
  BY DEF Regions
<1>2. IsRule(u.rule[i], i \in Boards(u))
  BY <1>1 DEF Ruled
<1> QED
  BY <1>1, <1>2 DEF IsRule

\* What the edits are made of keeps rules sound.
LEMMA OperatorsAreSound ==
    ASSUME NEW u, Fields \subseteq DOMAIN u, Soundly(u)
    PROVE  /\ \A x : Soundly([u EXCEPT !.items = x]) /\ Soundly([u EXCEPT !.root = x])
           /\ \A gone : Soundly(Without(u, gone))
           /\ \A i, rule : i \notin Boards(u) /\ IsRule(rule, FALSE)
                             => Soundly(WithRule(u, i, rule))
           /\ \A f : (\A i \in DOMAIN f : IsRule(f[i], i \in DOMAIN u.thick))
                        => Soundly([u EXCEPT !.rule = Over(@, f)])
<1>1. ASSUME NEW x PROVE Soundly([u EXCEPT !.items = x]) /\ Soundly([u EXCEPT !.root = x])
  BY DEF Soundly, Fields
<1>2. ASSUME NEW gone PROVE Soundly(Without(u, gone))
  <2>1. PICK v : v = Without(u, gone)
    OBVIOUS
  <2>2. /\ v.rule = Less(u.rule, gone) /\ v.thick = Less(u.thick, gone)
        /\ v.axis = Less(u.axis, gone)
    BY <2>1 DEF Without, Fields
  <2>3. \A f : /\ DOMAIN Less(f, gone) = DOMAIN f \ gone
               /\ \A x \in DOMAIN f \ gone : Less(f, gone)[x] = f[x]
    BY LessFacts
  <2>4. /\ DOMAIN v.rule = DOMAIN u.rule \ gone
        /\ \A i \in DOMAIN v.rule : v.rule[i] = u.rule[i]
    BY <2>2, <2>3
  <2>5. /\ DOMAIN v.thick = DOMAIN u.thick \ gone
        /\ \A i \in DOMAIN v.thick : v.thick[i] = u.thick[i]
    BY <2>2, <2>3, ZenonT(40)
  <2>6. /\ DOMAIN v.axis = DOMAIN u.axis \ gone
        /\ \A i \in DOMAIN v.axis : v.axis[i] = u.axis[i]
    BY <2>2, <2>3
  <2>7. ASSUME NEW i \in DOMAIN v.rule PROVE IsRule(v.rule[i], i \in DOMAIN v.thick)
    <3>1. i \in DOMAIN u.rule /\ v.rule[i] = u.rule[i] /\ i \notin gone
      BY <2>4, <2>7
    <3>2. (i \in DOMAIN v.thick) <=> (i \in DOMAIN u.thick)
      BY <2>5, <3>1
    <3>3. IsRule(u.rule[i], i \in DOMAIN u.thick)
      BY <3>1 DEF Soundly
    <3> QED
      BY <3>1, <3>2, <3>3 DEF IsRule
  <2>8. Soundly(v)
    BY <2>5, <2>6, <2>7 DEF Soundly
  <2> QED
    BY <2>1, <2>8
<1>3. ASSUME NEW i, NEW rule, i \notin Boards(u), IsRule(rule, FALSE)
      PROVE  Soundly(WithRule(u, i, rule))
  <2>1. PICK v : v = WithRule(u, i, rule)
    OBVIOUS
  <2>2. v.rule = [u.rule EXCEPT ![i] = rule] /\ v.thick = u.thick /\ v.axis = u.axis
    BY <2>1 DEF WithRule, Fields
  <2>3. ASSUME NEW j \in DOMAIN v.rule PROVE IsRule(v.rule[j], j \in DOMAIN v.thick)
    <3>1. CASE j = i
      <4>1. v.rule[j] = rule /\ ~(j \in DOMAIN v.thick)
        BY <1>3, <2>2, <2>3, <3>1 DEF Boards
      <4> QED
        BY <1>3, <4>1 DEF IsRule
    <3>2. CASE j # i
      BY <2>2, <2>3, <3>2 DEF Soundly
    <3> QED
      BY <3>1, <3>2
  <2>4. Soundly(v)
    BY <2>2, <2>3 DEF Soundly
  <2> QED
    BY <2>1, <2>4
<1>4. ASSUME NEW f, \A i \in DOMAIN f : IsRule(f[i], i \in DOMAIN u.thick)
      PROVE  Soundly([u EXCEPT !.rule = Over(@, f)])
  <2>1. PICK v : v = [u EXCEPT !.rule = Over(@, f)]
    OBVIOUS
  <2>2. v.rule = Over(u.rule, f) /\ v.thick = u.thick /\ v.axis = u.axis
    BY <2>1 DEF Fields
  <2>3. \A j \in DOMAIN v.rule : IsRule(v.rule[j], j \in DOMAIN v.thick)
    BY <1>4, <2>2 DEF Soundly, Over
  <2>4. Soundly(v)
    BY <2>2, <2>3 DEF Soundly
  <2> QED
    BY <2>1, <2>4
<1> QED
  BY <1>1, <1>2, <1>3, <1>4

\* So does a split: the board is as thick as the one it is cut like, and the halves of
\* a bay split along its run have a size (edit.py split_region, _split_halves_rules).
LEMMA SplitIsSound ==
    ASSUME NEW u, Sized(u), Room(u), NEW r, NEW a \in Axes, CanSplit(u, r, a)
    PROVE  Ruled(SplitRegion(u, r, a))
<1>0. /\ Struct(u) /\ Ruled(u) /\ Fields \subseteq DOMAIN u
      /\ r \in Bays(u) /\ r # u.root /\ Boards(u) # {}
      /\ r \in Nodes(u) \ {u.root} /\ r \in Regions(u)
  BY DEF Sized, Struct, CanSplit, Bays, Regions
<1>1. PICK d : d = RunOf(u, r)
  OBVIOUS
<1>2. d \in Divisions(u) /\ u.axis[d] \in Axes
  BY <1>0, <1>1, PlaceFacts DEF Ruled
<1>3. PICK src : src = SourceBoard(u, r, a)
  OBVIOUS
<1>4. IsFraction(u.thick[src]) /\ Zero \prec u.thick[src]
  BY <1>0, <1>3, SourceIsBoard DEF Ruled
<1>5. PICK mm : mm = HalfMm(u, r, a)
  OBVIOUS
<1>6. ASSUME u.axis[d] = a PROVE IsRule(HalfRule(u, r, mm), FALSE)
  <2>1. Zero \prec mm
    BY <1>1, <1>5, <1>6 DEF CanSplit, AxisOf
  <2>2. IsFraction(mm)
    <3>1. PICK e, t : e = Extent(u, r) /\ t = u.thick[src]
      OBVIOUS
    <3>2. IsFraction(e) /\ IsFraction(t)
      BY <1>0, <1>4, <3>1, ExtentFacts
    <3>3. PICK x : x = e -- t
      OBVIOUS
    <3>4. IsFraction(x)
      BY <3>2, <3>3, AddFacts
    <3>5. IsFraction(Whole(2)) /\ Zero \prec Whole(2)
      BY WholeIsFrac DEF \prec, Zero, Whole
    <3>6. mm = x // Whole(2)
      BY <1>3, <1>5, <3>1, <3>3 DEF HalfMm
    <3> QED
      BY <3>4, <3>5, <3>6, QuotientLaws
  <2>3. IsRule(SharingRule(u, d, {PlaceOf(u, r)}, mm), FALSE)
    BY <1>2, <2>1, <2>2, SharingIsSound
  <2>4. IsRule(Fixed(mm, "clear"), FALSE)
    BY <2>1, <2>2 DEF IsRule, Fixed, Bases
  <2> QED
    BY <1>1, <2>3, <2>4 DEF HalfRule
<1>7. IsRule(Fill, FALSE)
  <2>1. IsFraction(One) /\ Zero \prec One
    BY WholeIsFrac, ProductFacts DEF Zero
  <2> QED
    BY <2>1 DEF IsRule, Fill, Weighted
<1>8. PICK new : new = NewNodes(u)
  OBVIOUS
<1>9. PICK b, l, h, n : b = new.board /\ l = new.low /\ h = new.high /\ n = new.division
  OBVIOUS
<1>10. /\ {b, l, h, n} \cap Nodes(u) = {} /\ b # l /\ b # h /\ l # h /\ n \notin {b, l, h}
  BY <1>0, <1>8, <1>9, NewNodesFacts
<1>11. ASSUME NEW half, IsRule(half, FALSE), NEW v, v = Halved(u, r, a, new, half)
       PROVE  Soundly(v) /\ Fields \subseteq DOMAIN v /\ DOMAIN v.thick \subseteq Boards(u) \cup {b}
  <2> DEFINE thick == Over(u.thick, Single(b, u.thick[src]))
             g == [i \in {b, l, h} |-> IF i = b THEN Own ELSE half]
             rule == Over(u.rule, g)
             x == [u EXCEPT !.thick = thick, !.rule = rule]
  <2>1. v = Without(x, {r})
    BY <1>3, <1>9, <1>11 DEF Halved
  <2>2. /\ DOMAIN thick = DOMAIN u.thick \cup {b}
        /\ \A i \in DOMAIN thick : thick[i] = IF i = b THEN u.thick[src] ELSE u.thick[i]
    BY DEF Over, Single
  <2>3. /\ DOMAIN rule = DOMAIN u.rule \cup {b, l, h}
        /\ \A i \in DOMAIN rule : rule[i] = IF i \in {b, l, h} THEN g[i] ELSE u.rule[i]
    BY DEF Over
  <2>4. /\ Fields \subseteq DOMAIN x /\ x.rule = rule /\ x.thick = thick /\ x.axis = u.axis
    BY <1>0 DEF Fields
  <2> HIDE DEF thick, rule, x
  <2>5. DOMAIN u.thick \subseteq DOMAIN u.rule /\ DOMAIN u.rule \cap {b, l, h} = {}
    BY <1>0, <1>10 DEF Struct, Nodes, Boards
  <2>6. ASSUME NEW i \in DOMAIN x.rule PROVE IsRule(x.rule[i], i \in DOMAIN x.thick)
    <3>1. CASE i = b
      <4>1. x.rule[i] = Own /\ i \in DOMAIN x.thick
        BY <2>2, <2>3, <2>4, <3>1
      <4> QED
        BY <4>1 DEF IsRule, Own
    <3>2. CASE i = l \/ i = h
      <4>1. x.rule[i] = half /\ i \notin DOMAIN x.thick
        BY <1>10, <2>2, <2>3, <2>4, <2>5, <3>2
      <4> QED
        BY <1>11, <4>1 DEF IsRule
    <3>3. CASE i \notin {b, l, h}
      <4>1. i \in DOMAIN u.rule /\ x.rule[i] = u.rule[i]
        BY <2>3, <2>4, <2>6, <3>3
      <4>2. (i \in DOMAIN x.thick) <=> (i \in DOMAIN u.thick)
        BY <2>2, <2>4, <3>3
      <4>3. IsRule(u.rule[i], i \in DOMAIN u.thick)
        BY <1>0, <4>1 DEF Ruled, Nodes, Boards
      <4> QED
        BY <4>1, <4>2, <4>3 DEF IsRule
    <3> QED
      BY <3>1, <3>2, <3>3
  <2>7. Soundly(x)
    <3>1. \A i \in DOMAIN x.thick : IsFraction(x.thick[i]) /\ Zero \prec x.thick[i]
      BY <1>0, <1>4, <2>2, <2>4 DEF Ruled, Boards
    <3>2. \A i \in DOMAIN x.axis : x.axis[i] \in Axes
      BY <1>0, <2>4 DEF Ruled, Struct
    <3> QED
      BY <2>6, <3>1, <3>2 DEF Soundly
  <2>8. Soundly(v)
    BY <2>1, <2>4, <2>7, OperatorsAreSound
  <2>9. IsWithout(x, {r}, v)
    BY <2>1, <2>4, WithoutFacts
  <2> QED
    BY <2>2, <2>4, <2>8, <2>9 DEF IsWithout, Boards
<1>12. PICK v : v = SplitRegion(u, r, a)
  OBVIOUS
<1>13. Struct(v)
  BY <1>0, <1>12, SplitFacts DEF Keeps
<1>14. CASE u.axis[d] = a
  <2>1. PICK w : w = Halved(u, r, a, new, HalfRule(u, r, mm))
    OBVIOUS
  <2>2. Soundly(w) /\ Fields \subseteq DOMAIN w
    BY <1>6, <1>11, <1>14, <2>1
  <2>3. PICK items : v = [w EXCEPT !.items = items]
    <3>1. PICK s : s = Splice(w.items[d], PlaceOf(u, r), 1, <<l, b, h>>)
      OBVIOUS
    <3>2. v = [w EXCEPT !.items = [w.items EXCEPT ![d] = s]]
      BY <1>1, <1>5, <1>8, <1>9, <1>12, <1>14, <2>1, <3>1 DEF SplitRegion
    <3> QED
      BY <3>2
  <2>4. Soundly(v)
    BY <2>2, <2>3, OperatorsAreSound
  <2> QED
    BY <1>12, <1>13, <2>4, SoundlyIsRuled
<1>15. CASE u.axis[d] # a
  <2>1. PICK w : w = Halved(u, r, a, new, Fill)
    OBVIOUS
  <2>2. /\ Soundly(w) /\ Fields \subseteq DOMAIN w
        /\ DOMAIN w.thick \subseteq Boards(u) \cup {b}
    BY <1>7, <1>11, <2>1
  <2>3. n \notin DOMAIN w.thick
    BY <1>0, <1>10, <2>2 DEF Struct
  <2>4. v = [w EXCEPT !.rule = Over(@, Single(n, u.rule[r])),
                      !.items = Over([@ EXCEPT ![d][PlaceOf(u, r)] = n],
                                     Single(n, <<l, b, h>>)),
                      !.axis = Over(@, Single(n, a))]
    BY <1>1, <1>8, <1>9, <1>12, <1>15, <2>1 DEF SplitRegion
  <2>5. /\ v.rule = Over(w.rule, Single(n, u.rule[r])) /\ v.thick = w.thick
        /\ v.axis = Over(w.axis, Single(n, a))
    BY <2>2, <2>4 DEF Fields
  <2>6. ASSUME NEW i \in DOMAIN v.rule PROVE IsRule(v.rule[i], i \in DOMAIN v.thick)
    <3>1. CASE i = n
      <4>1. v.rule[i] = u.rule[r] /\ i \notin DOMAIN v.thick
        BY <2>3, <2>5, <3>1 DEF Over, Single
      <4>2. IsRule(u.rule[r], FALSE)
        BY <1>0, RegionsRule
      <4> QED
        BY <4>1, <4>2 DEF IsRule
    <3>2. CASE i # n
      <4>1. i \in DOMAIN w.rule /\ v.rule[i] = w.rule[i]
        BY <2>5, <2>6, <3>2 DEF Over, Single
      <4> QED
        BY <2>2, <2>5, <4>1 DEF Soundly
    <3> QED
      BY <3>1, <3>2
  <2>7. \A e \in DOMAIN v.axis : v.axis[e] \in Axes
    BY <2>2, <2>5 DEF Soundly, Over, Single
  <2>8. Soundly(v)
    BY <2>2, <2>5, <2>6, <2>7 DEF Soundly
  <2> QED
    BY <1>12, <1>13, <2>8, SoundlyIsRuled
<1> QED
  BY <1>14, <1>15
===============================================================================
