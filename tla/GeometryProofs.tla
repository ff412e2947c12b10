---------------------------- MODULE GeometryProofs ----------------------------
(***************************************************************************)
(* What merges and removals keep and move, the locks an edit keeps, the    *)
(* lengths it pins, and the layouts it leaves the solver.                  *)
(***************************************************************************)
EXTENDS SizeProofs

------------------------------------------------------------------------------
(* What a removal makes.                                                    *)

\* v has boards of u, as thick, and the pinned ones among them are pinned to the same size.
SameStock(u, v) ==
    /\ Fields \subseteq DOMAIN v
    /\ Boards(v) \subseteq Boards(u) /\ \A b \in Boards(v) : v.thick[b] = u.thick[b]
    /\ DOMAIN v.pinned \subseteq DOMAIN u.pinned
    /\ \A b \in DOMAIN v.pinned : /\ v.pinned[b] = u.pinned[b]
                                  /\ b \in Boards(u) => b \in Boards(v)

\* Two edits that take boards away, one after the other, take boards away.
LEMMA SameStockIsTransitive ==
    ASSUME NEW u, NEW v, NEW w, SameStock(u, v), SameStock(v, w)
    PROVE  SameStock(u, w)
BY DEF SameStock

\* What a removal is made of.
LEMMA StockFacts ==
    ASSUME NEW u, Fields \subseteq DOMAIN u
    PROVE  /\ SameStock(u, u)
           /\ \A x : /\ SameStock(u, [u EXCEPT !.root = x])
                     /\ SameStock(u, [u EXCEPT !.items = x])
                     /\ SameStock(u, [u EXCEPT !.rule = x])
           /\ \A i, rule : SameStock(u, WithRule(u, i, rule))
           /\ \A gone : SameStock(u, Without(u, gone))
<1>1. SameStock(u, u)
  BY DEF SameStock
<1>2. ASSUME NEW x PROVE /\ SameStock(u, [u EXCEPT !.root = x])
                         /\ SameStock(u, [u EXCEPT !.items = x])
                         /\ SameStock(u, [u EXCEPT !.rule = x])
  BY DEF SameStock, Fields, Boards
<1>3. ASSUME NEW i, NEW rule PROVE SameStock(u, WithRule(u, i, rule))
  BY DEF SameStock, Fields, Boards, WithRule
<1>4. ASSUME NEW gone PROVE SameStock(u, Without(u, gone))
  <2>1. PICK t, p, w : t = Less(u.thick, gone) /\ p = Less(u.pinned, gone) /\ w = Without(u, gone)
    OBVIOUS
  <2>2. w.thick = t /\ w.pinned = p /\ Fields \subseteq DOMAIN w
    BY <2>1 DEF Without, Fields
  <2>3. /\ DOMAIN t = DOMAIN u.thick \ gone /\ \A x \in DOMAIN t : t[x] = u.thick[x]
        /\ DOMAIN p = DOMAIN u.pinned \ gone /\ \A x \in DOMAIN p : p[x] = u.pinned[x]
    <3>1. PICK f, g : f = u.thick /\ g = u.pinned
      OBVIOUS
    <3>2. t = Less(f, gone) /\ p = Less(g, gone)
      BY <2>1, <3>1
    <3>3. DOMAIN t = DOMAIN f \ gone /\ \A x \in DOMAIN f \ gone : t[x] = f[x]
      BY <3>2, LessFacts
    <3>4. DOMAIN p = DOMAIN g \ gone /\ \A x \in DOMAIN g \ gone : p[x] = g[x]
      BY <3>2, LessFacts
    <3> QED
      BY <3>1, <3>3, <3>4
  <2> QED
    BY <2>1, <2>2, <2>3 DEF SameStock, Boards
<1> QED
  BY <1>1, <1>2, <1>3, <1>4

\* A division gives way to its one member with the boards it had.
LEMMA PromotedStock ==
    ASSUME NEW u, NEW j, SameStock(u, j), NEW d, NEW i
    PROVE  SameStock(u, Promoted(u, j, d, i))
<1>1. ASSUME NEW x, SameStock(u, x), NEW y, SameStock(x, y) PROVE SameStock(u, y)
  BY <1>1, SameStockIsTransitive
<1>2. ASSUME NEW x, SameStock(u, x), NEW gone PROVE SameStock(u, Without(x, gone))
  BY <1>1, <1>2, StockFacts DEF SameStock
<1>3. ASSUME NEW x, SameStock(u, x), NEW i1, NEW rule PROVE SameStock(u, WithRule(x, i1, rule))
  BY <1>1, <1>3, StockFacts DEF SameStock
<1>4. PICK p, k : p = RunOf(u, d) /\ k = PlaceOf(u, d)
  OBVIOUS
<1>5. PICK x : x = Without(WithRule(j, i, u.rule[d]), {d})
  OBVIOUS
<1>6. SameStock(u, x)
  BY <1>2, <1>3, <1>5
<1>7. PICK top, here, in : /\ top = [x EXCEPT !.root = i] /\ here = [x EXCEPT !.items[p][k] = i]
                           /\ in = [x EXCEPT !.items[p] = Splice(@, k, 1, u.items[i]),
                                             !.rule = Over(@, SplicedRules(u, p, k, i))]
  OBVIOUS
<1>8. SameStock(u, top) /\ SameStock(u, here)
  BY <1>6, <1>7 DEF SameStock, Fields, Boards
<1>9. SameStock(u, in)
  BY <1>6, <1>7 DEF SameStock, Fields, Boards
<1>10. PICK out : out = Without(in, {i})
  OBVIOUS
<1>11. SameStock(u, out)
  BY <1>2, <1>9, <1>10
<1>12. PICK v : v = Promoted(u, j, d, i)
  BY SMTT(40)
<1>13. v = CASE d = u.root -> top
             [] d # u.root /\ (i \notin Divisions(u) \/ u.axis[i] # u.axis[p]) -> here
             [] d # u.root /\ i \in Divisions(u) /\ u.axis[i] = u.axis[p] -> out
  BY <1>4, <1>5, <1>7, <1>10, <1>12 DEF Promoted
<1>14. v = top \/ v = here \/ v = out
  BY <1>13
<1> QED
  BY <1>8, <1>11, <1>12, <1>14

\* A removal leaves the run of the board one member.
LeavesOne(u, b) == ~(Len(LeftOf(u, b)) > 1)

\* The layout of a removal before it collapses anything: the run and the rule that are
\* other than they were, and the boards that are left.
LEMMA JoinedIs ==
    ASSUME NEW u, Struct(u), NEW b, CanMerge(u, b), NEW j, j = JoinedAt(u, b),
           NEW d, d = RunOf(u, b), NEW i, i = Beside(u, b).low
    PROVE  /\ Struct(j) /\ JoinDone(u, j, d, i) /\ SameStock(u, j) /\ i \in Nodes(j)
           /\ j.items[d] = LeftOf(u, b) /\ j.rule[i] = MergedRule(u, b)
           /\ LeavesOne(u, b) => Range(j.items[d]) = {i}
<1>1. /\ Struct(j) /\ JoinDone(u, j, d, i)
      /\ LeavesOne(u, b) => Range(j.items[d]) = {i}
  <2>1. /\ Keeps(u, JoinedAt(u, b))
        /\ JoinDone(u, JoinedAt(u, b), RunOf(u, b), Beside(u, b).low)
        /\ ~(Len(LeftOf(u, b)) > 1) =>
              Range(JoinedAt(u, b).items[RunOf(u, b)]) = {Beside(u, b).low}
    BY JoinedFacts
  <2> QED
    BY <2>1 DEF Keeps, LeavesOne
<1>2. Fields \subseteq DOMAIN u
  BY DEF Struct
<1>3. PICK rule, left, gone : /\ rule = MergedRule(u, b) /\ left = LeftOf(u, b)
                              /\ gone = {b} \cup Subtree(u, Beside(u, b).high)
  OBVIOUS
<1>4. PICK x : x = WithRule(u, i, rule)
  OBVIOUS
<1>5. PICK items : items = [x.items EXCEPT ![d] = left]
  OBVIOUS
<1>6. PICK y : y = [x EXCEPT !.items = items]
  OBVIOUS
<1>7. j = Without(y, gone)
  BY <1>3, <1>4, <1>5, <1>6 DEF JoinedAt
<1>8. SameStock(u, x) /\ SameStock(x, y) /\ Fields \subseteq DOMAIN y
  <2>1. SameStock(u, x)
    BY <1>2, <1>4, StockFacts
  <2>2. Fields \subseteq DOMAIN x
    BY <2>1 DEF SameStock
  <2>3. SameStock(x, y)
    BY <2>2, <1>6, StockFacts
  <2> QED
    BY <2>1, <2>3 DEF SameStock
<1>9. SameStock(y, j)
  BY <1>7, <1>8, StockFacts
<1>10. SameStock(u, j)
  <2>1. SameStock(u, y)
    BY <1>8, SameStockIsTransitive
  <2> QED
    BY <2>1, <1>9, SameStockIsTransitive
<1>11. IsWithout(y, gone, j)
  BY <1>7, <1>8, WithoutFacts
<1>12. d \in Divisions(j) /\ i \in Range(j.items[d]) /\ d \in Divisions(u)
  BY <1>1 DEF JoinDone
<1>13. i \in Nodes(j)
  <2>1. IsRun(j.items[d], Nodes(j) \ {j.root})
    BY <1>1, <1>12 DEF Struct
  <2> QED
    BY <2>1, <1>12, RunFacts
<1>14. x.items = u.items /\ y.items = items /\ y.rule = x.rule
  BY <1>2, <1>4, <1>6, <1>8 DEF WithRule, Fields, SameStock
<1>15. items[d] = left
  BY <1>5, <1>12, <1>14 DEF Divisions
<1>16. i \in Nodes(u)
  BY <1>1, <1>13 DEF JoinDone
<1>17. x.rule[i] = rule
  BY <1>2, <1>4, <1>16 DEF WithRule, Fields, Nodes
<1>18. j.items[d] = left
  BY <1>11, <1>12, <1>14, <1>15 DEF IsWithout
<1>19. j.rule[i] = rule
  BY <1>11, <1>13, <1>14, <1>17 DEF IsWithout
<1> QED
  BY <1>1, <1>3, <1>10, <1>13, <1>18, <1>19

\* Nothing above a node is in it.
LEMMA AboveIsOutside ==
    ASSUME NEW u, Struct(u), NEW d \in Divisions(u), NEW i \in Range(u.items[d])
    PROVE  /\ i \in Nodes(u) /\ i # u.root /\ i # d /\ d \notin Subtree(u, i) /\ d \in Nodes(u)
           /\ d # u.root => RunOf(u, d) # d /\ RunOf(u, d) \notin Subtree(u, i)
                            /\ RunOf(u, d) \in Divisions(u) /\ d \in Range(u.items[RunOf(u, d)])
<1>1. IsRun(u.items[d], Nodes(u) \ {u.root}) /\ d \in Nodes(u)
  BY DEF Struct, Regions
<1>2. i \in Nodes(u) \ {u.root}
  BY <1>1, RunFacts
<1>3. PICK rank : Ranks(u, rank)
  BY DEF Struct
<1>4. rank[d] < rank[i] /\ rank[d] \in Nat /\ rank[i] \in Nat
  BY <1>1, <1>2, <1>3 DEF Ranks
<1>5. d \notin Subtree(u, i)
  <2>1. d \in Subtree(u, i) => d = i \/ rank[i] < rank[d]
    BY <1>2, <1>3, SubtreeFacts
  <2> QED
    BY <2>1, <1>4
<1>6. ASSUME d # u.root
      PROVE  /\ RunOf(u, d) # d /\ RunOf(u, d) \notin Subtree(u, i)
             /\ RunOf(u, d) \in Divisions(u) /\ d \in Range(u.items[RunOf(u, d)])
  <2>1. PICK p : p = RunOf(u, d)
    OBVIOUS
  <2>2. p \in Divisions(u) /\ d \in Range(u.items[p])
    BY <2>1, <1>1, <1>6, PlaceFacts
  <2>3. rank[p] < rank[d] /\ rank[p] \in Nat
    BY <2>2, <1>1, <1>3 DEF Ranks, Struct, Regions
  <2>4. d \in Subtree(u, i) <=> d = i \/ p \in Subtree(u, i)
    BY <2>2, <1>2, SubtreeFacts
  <2> QED
    BY <2>1, <2>2, <2>3, <2>4, <1>4, <1>5
<1> QED
  BY <1>1, <1>2, <1>4, <1>5, <1>6

\* v is u without some nodes and with other rules for i and what is in it.  Of the runs
\* that are left the one of t alone is another.
MergeLeaves(u, v, i, t) ==
    /\ t \in Divisions(v) /\ t \notin Subtree(u, i) /\ v.root = u.root
    /\ Nodes(v) \subseteq Nodes(u) /\ Boards(v) = Boards(u) \cap Nodes(v)
    /\ Divisions(v) \subseteq Divisions(u)
    /\ \A e \in Divisions(v) :
          v.axis[e] = u.axis[e] /\ (e # t => v.items[e] = u.items[e] /\ i \notin Range(u.items[e]))
    /\ \A x \in Nodes(v) \ Subtree(u, i) : v.rule[x] = u.rule[x]

\* The joined region is in the run of b,
JoinsRun(u, v, b, i, d) ==
    v.items[d] = LeftOf(u, b) /\ v.rule[i] = MergedRule(u, b)

\* in the place of its division d,
TakesPlace(u, v, d, i, p) ==
    /\ v.items[p] = [u.items[p] EXCEPT ![PlaceOf(u, d)] = i]
    /\ v.rule[i] = u.rule[d]

\* or is a division whose members are there.
GivesRun(u, v, d, i, p) ==
    /\ i \in Divisions(u) /\ u.axis[i] = u.axis[p]
    /\ v.items[p] = Splice(u.items[p], PlaceOf(u, d), 1, u.items[i])
    /\ \A x \in Range(u.items[i]) : v.rule[x] = SplicedRules(u, p, PlaceOf(u, d), i)[x]

\* A merge that collapses nothing makes the first,
LEMMA JoinLeaves ==
    ASSUME NEW u, Struct(u), NEW b, CanMerge(u, b), NEW j, j = JoinedAt(u, b),
           NEW d, d = RunOf(u, b), NEW i, i = Beside(u, b).low
    PROVE  MergeLeaves(u, j, i, d) /\ JoinsRun(u, j, b, i, d)
<1>1. /\ Struct(j) /\ JoinDone(u, j, d, i) /\ i \in Nodes(j)
      /\ j.items[d] = LeftOf(u, b) /\ j.rule[i] = MergedRule(u, b)
  BY JoinedIs
<1>2. d \in Divisions(u) /\ i \in Range(u.items[d])
  <2>1. /\ b \in Boards(u) /\ PlaceOf(u, b) \in 2 .. Len(u.items[RunOf(u, b)]) - 1
    BY DEF CanMerge
  <2>2. b \in Nodes(u) \ {u.root}
    BY <2>1 DEF Struct, Regions
  <2>3. PICK s, k : s = u.items[d] /\ k = PlaceOf(u, b)
    OBVIOUS
  <2>4. d \in Divisions(u) /\ IsRun(s, Nodes(u) \ {u.root})
    BY <2>2, <2>3, PlaceFacts DEF Struct
  <2>5. k \in 2 .. Len(s) - 1 /\ i = s[k - 1]
    BY <2>1, <2>3 DEF Beside
  <2>6. k - 1 \in 1 .. Len(s)
    BY <2>4, <2>5, RunFacts
  <2> QED
    BY <2>3, <2>4, <2>5, <2>6, RunFacts
<1>3. d \notin Subtree(u, i) /\ i \in Subtree(u, i)
  BY <1>2, AboveIsOutside, SubtreeFacts
<1>4. \A e \in Divisions(u) : e # d => i \notin Range(u.items[e])
  BY <1>2 DEF Struct
<1> QED
  BY <1>1, <1>2, <1>3, <1>4 DEF JoinDone, MergeLeaves, JoinsRun

\* one that collapses the division of the board one of the others.
LEMMA PromotedLeaves ==
    ASSUME NEW u, Struct(u), NEW j, Struct(j), NEW d, d # u.root, NEW i,
           d \in Divisions(u), i \in Regions(u), i \in Range(u.items[d]),
           JoinDone(u, j, d, i), Range(j.items[d]) = {i},
           NEW p, p = RunOf(u, d), NEW v, v = Promoted(u, j, d, i)
    PROVE  MergeLeaves(u, v, i, p) /\ (TakesPlace(u, v, d, i, p) \/ GivesRun(u, v, d, i, p))
<1>1. PICK k, rule : k = PlaceOf(u, d) /\ rule = u.rule[d]
  OBVIOUS
<1>2. PICK x : x = Alone(j, d, i, rule)
  OBVIOUS
<1>3. /\ j.root = u.root /\ Nodes(j) \subseteq Nodes(u) /\ Boards(j) = Boards(u) \cap Nodes(j)
      /\ Divisions(j) = Divisions(u) \cap Nodes(j)
      /\ \A e \in Divisions(j) : j.axis[e] = u.axis[e] /\ (e # d => j.items[e] = u.items[e])
      /\ \A y \in Nodes(j) : y # i => j.rule[y] = u.rule[y]
      /\ d \in Divisions(j) /\ i # d
      /\ \A e \in Divisions(u) : \A y \in Range(u.items[e]) : y \in Nodes(j) => e \in Nodes(j)
  BY DEF JoinDone
<1>4. /\ i \in Nodes(u) /\ i # u.root /\ d \notin Subtree(u, i) /\ p # d /\ p \notin Subtree(u, i)
      /\ p \in Divisions(u) /\ d \in Range(u.items[p]) /\ i \in Subtree(u, i)
  BY AboveIsOutside, SubtreeFacts
<1>5. i \in Nodes(j) /\ d \in Nodes(j)
  <2>1. IsRun(j.items[d], Nodes(j) \ {j.root})
    BY <1>3 DEF Struct
  <2> QED
    BY <2>1, <1>3, RunFacts
<1>6. Collapses(j, d, i) /\ p \in Divisions(j)
  BY <1>3, <1>4, <1>5 DEF Collapses, Regions
<1>7. IsAlone(j, d, i, rule, x)
  BY <1>2, <1>6, AloneFacts
<1>8. d \notin Boards(u)
  BY DEF Struct, Regions
<1>9. /\ Fields \subseteq DOMAIN x /\ x.root = u.root
      /\ Nodes(x) \subseteq Nodes(u) /\ Boards(x) = Boards(u) \cap Nodes(x)
      /\ Divisions(x) \subseteq Divisions(u) /\ p \in Divisions(x)
      /\ \A e \in Divisions(x) : x.axis[e] = u.axis[e] /\ x.items[e] = u.items[e]
      /\ x.rule[i] = rule /\ \A y \in Nodes(x) : y # i => x.rule[y] = u.rule[y]
      /\ i \in Nodes(x) /\ d \notin Divisions(x)
  BY <1>3, <1>4, <1>5, <1>6, <1>7, <1>8 DEF IsAlone
<1>a. \A e \in Divisions(x) : i \notin Range(u.items[e])
  BY <1>9, PlaceFacts
<1>10. i \in Divisions(u) => i \in Divisions(x)
  BY <1>3, <1>4, <1>5, <1>7, <1>6 DEF IsAlone
<1>11. PICK here, in : /\ here = [x EXCEPT !.items[p][k] = i]
                       /\ in = [x EXCEPT !.items[p] = Splice(@, k, 1, u.items[i]),
                                         !.rule = Over(@, SplicedRules(u, p, k, i))]
  OBVIOUS
<1>12. PICK out : out = Without(in, {i})
  OBVIOUS
<1>13. v = IF i \notin Divisions(u) \/ u.axis[i] # u.axis[p] THEN here ELSE out
  BY <1>1, <1>2, <1>11, <1>12 DEF Promoted, Alone
<1>14. CASE i \notin Divisions(u) \/ u.axis[i] # u.axis[p]
  <2>1. v = here
    BY <1>13, <1>14
  <2>2. PICK items : items = [x.items EXCEPT ![p] = [x.items[p] EXCEPT ![k] = i]]
    OBVIOUS
  <2>3. /\ v.items = items /\ v.rule = x.rule /\ v.axis = x.axis /\ v.thick = x.thick
        /\ v.root = x.root
    BY <2>1, <2>2, <1>9, <1>11 DEF Fields
  <2>4. DOMAIN items = Divisions(x) /\ items[p] = [u.items[p] EXCEPT ![k] = i]
        /\ \A e \in Divisions(x) : e # p => items[e] = u.items[e]
    BY <2>2, <1>9 DEF Divisions
  <2>5. Nodes(v) = Nodes(x) /\ Boards(v) = Boards(x) /\ Divisions(v) = Divisions(x)
    BY <2>3, <2>4 DEF Nodes, Boards, Divisions
  <2>6. MergeLeaves(u, v, i, p)
    BY <2>3, <2>4, <2>5, <1>4, <1>9, <1>a DEF MergeLeaves
  <2>7. TakesPlace(u, v, d, i, p)
    BY <2>3, <2>4, <1>1, <1>9 DEF TakesPlace
  <2> QED
    BY <2>6, <2>7
<1>15. CASE i \in Divisions(u) /\ u.axis[i] = u.axis[p]
  <2>1. v = out
    BY <1>13, <1>15
  <2>2. PICK f, items, rules : /\ f = SplicedRules(u, p, k, i)
                        /\ items = [x.items EXCEPT ![p] = Splice(x.items[p], k, 1, u.items[i])]
                        /\ rules = Over(x.rule, f)
    OBVIOUS
  <2>3. /\ in.items = items /\ in.rule = rules /\ in.axis = x.axis /\ in.thick = x.thick
        /\ in.root = x.root /\ Fields \subseteq DOMAIN in
    BY <2>2, <1>9, <1>11 DEF Fields
  <2>4. DOMAIN items = Divisions(x) /\ items[p] = Splice(u.items[p], k, 1, u.items[i])
        /\ \A e \in Divisions(x) : e # p => items[e] = u.items[e]
    BY <2>2, <1>9 DEF Divisions
  <2>5. DOMAIN f = Range(u.items[i])
    BY <2>2, SplicedRulesFacts
  <2>6. /\ DOMAIN rules = Nodes(x) \cup Range(u.items[i])
        /\ \A y \in Range(u.items[i]) : rules[y] = f[y]
        /\ \A y \in Nodes(x) \ Range(u.items[i]) : rules[y] = x.rule[y]
    <3>1. PICK g : g = x.rule
      OBVIOUS
    <3>2. rules = Over(g, f)
      BY <3>1, <2>2
    <3>3. /\ DOMAIN Over(g, f) = DOMAIN g \cup DOMAIN f
          /\ \A y \in DOMAIN f : Over(g, f)[y] = f[y]
          /\ \A y \in DOMAIN g \ DOMAIN f : Over(g, f)[y] = g[y]
      BY OverFacts
    <3>4. /\ DOMAIN rules = DOMAIN g \cup DOMAIN f
          /\ \A y \in DOMAIN f : rules[y] = f[y]
          /\ \A y \in DOMAIN g \ DOMAIN f : rules[y] = g[y]
      BY <3>2, <3>3
    <3> QED
      BY <3>1, <3>4, <2>5 DEF Nodes
  <2>7. ASSUME NEW y \in Range(u.items[i])
        PROVE  y \in Nodes(x) /\ y # i /\ y \in Subtree(u, i)
    <3>1. i \in Divisions(j) /\ j.items[i] = u.items[i]
      BY <1>15, <1>3, <1>5
    <3>2. IsRun(j.items[i], Nodes(j) \ {j.root})
      BY <3>1 DEF Struct
    <3>3. y \in Nodes(j)
      BY <3>1, <3>2, RunFacts
    <3>4. y \in Subtree(u, i) /\ y # i
      BY <1>4, <1>15, SubtreeFacts, AboveIsOutside
    <3>5. y # d
      BY <3>4, <1>4
    <3> QED
      BY <3>3, <3>4, <3>5, <1>7 DEF IsAlone
  <2>8. IsWithout(in, {i}, out)
    BY <2>3, <1>12, WithoutFacts
  <2>9. /\ Nodes(v) = Nodes(x) \ {i} /\ Boards(v) = Boards(x) \ {i} /\ Divisions(v) = Divisions(x) \ {i}
        /\ \A y \in Nodes(v) : v.rule[y] = rules[y]
        /\ \A e \in Divisions(v) : v.items[e] = items[e] /\ v.axis[e] = x.axis[e]
        /\ v.root = x.root
    <3>1. Nodes(in) = Nodes(x) /\ Boards(in) = Boards(x) /\ Divisions(in) = Divisions(x)
      BY <2>3, <2>4, <2>6, <2>7 DEF Nodes, Boards, Divisions
    <3>2. DOMAIN v.axis = Divisions(v)
      <4>1. DOMAIN v.axis = DOMAIN x.axis \ {i} /\ DOMAIN x.axis = Divisions(x)
        BY <2>1, <2>3, <2>8, <1>7 DEF IsWithout, IsAlone
      <4> QED
        BY <4>1, <3>1, <2>1, <2>8 DEF IsWithout
    <3> QED
      BY <3>1, <3>2, <2>1, <2>3, <2>8 DEF IsWithout
  <2>10. p # i
    BY <1>4
  <2>11. i \notin Boards(x)
    BY <1>9, <1>15 DEF Struct, Regions
  <2>12. MergeLeaves(u, v, i, p)
    <3>1. ASSUME NEW y \in Nodes(v) \ Subtree(u, i) PROVE v.rule[y] = u.rule[y]
      <4>1. y \notin Range(u.items[i]) /\ y # i
        BY <2>7, <1>4
      <4> QED
        BY <4>1, <2>6, <2>9, <1>9
    <3> QED
      BY <3>1, <2>4, <2>9, <2>10, <2>11, <1>4, <1>9, <1>a DEF MergeLeaves
  <2>13. GivesRun(u, v, d, i, p)
    <3>1. \A y \in Range(u.items[i]) : v.rule[y] = f[y]
      BY <2>6, <2>7, <2>9
    <3> QED
      BY <3>1, <2>2, <2>4, <2>9, <2>10, <1>1, <1>9, <1>15 DEF GivesRun
  <2> QED
    BY <2>12, <2>13
<1> QED
  BY <1>14, <1>15

\* Or the joined region becomes the root, and nothing is left but what is in it.
BecomesRoot(u, v, i) ==
    /\ v.root = i /\ Nodes(v) \subseteq Subtree(u, i) /\ Divisions(v) \subseteq Divisions(u)
    /\ \A e \in Divisions(v) : v.axis[e] = u.axis[e] /\ v.items[e] = u.items[e]

\* It does, where the division that is left with one member was the root.
LEMMA RootLeaves ==
    ASSUME NEW u, Struct(u), NEW j, Struct(j), NEW i,
           u.root \in Divisions(u), i \in Regions(u), i \in Range(u.items[u.root]),
           JoinDone(u, j, u.root, i), Range(j.items[u.root]) = {i},
           NEW v, v = Promoted(u, j, u.root, i), Struct(v)
    PROVE  BecomesRoot(u, v, i)
<1>1. PICK d, rule : d = u.root /\ rule = u.rule[d]
  OBVIOUS
<1>2. PICK x : x = Alone(j, d, i, rule)
  OBVIOUS
<1>3. v = [x EXCEPT !.root = i]
  BY <1>1, <1>2 DEF Promoted, Alone
<1>4. /\ Divisions(j) = Divisions(u) \cap Nodes(j)
      /\ \A e \in Divisions(j) : j.axis[e] = u.axis[e] /\ (e # d => j.items[e] = u.items[e])
      /\ d \in Divisions(j) /\ i \in Range(j.items[d]) /\ i # d
  BY <1>1 DEF JoinDone
<1>5. i \in Nodes(j)
  <2>1. IsRun(j.items[d], Nodes(j) \ {j.root})
    BY <1>4 DEF Struct
  <2> QED
    BY <2>1, <1>4, RunFacts
<1>6. i \in Nodes(u) /\ i \in Subtree(u, i) /\ i \notin Boards(u)
  BY SubtreeFacts DEF Regions
<1>7. Collapses(j, d, i)
  <2>1. Boards(j) = Boards(u) \cap Nodes(j)
    BY DEF JoinDone
  <2> QED
    BY <2>1, <1>1, <1>4, <1>5, <1>6 DEF Collapses, Regions
<1>8. IsAlone(j, d, i, rule, x)
  BY <1>2, <1>7, AloneFacts
<1>9. /\ v.root = i /\ Divisions(v) = Divisions(x) /\ v.items = x.items /\ v.axis = x.axis
  BY <1>3, <1>8 DEF IsAlone, Fields, Divisions
<1>10. \A e \in Divisions(v) : 
          e \in Divisions(u) /\ v.items[e] = u.items[e] /\ v.axis[e] = u.axis[e]
  BY <1>4, <1>8, <1>9 DEF IsAlone
<1>11. \A e \in Divisions(v) : e \in Subtree(u, i) =>
          \A y \in Range(v.items[e]) : y \in Subtree(u, i)
  BY <1>6, <1>10, SubtreeFacts
<1>12. Nodes(v) \subseteq Subtree(u, i)
  BY <1>6, <1>9, <1>11, TreeInduction
<1> QED
  BY <1>9, <1>10, <1>12 DEF BecomesRoot

\* What a removal makes (edit.py merge_at).
LEMMA MergeMakes ==
    ASSUME NEW u, Struct(u), NEW b, CanMerge(u, b), NEW v, v = MergeAt(u, b),
           NEW d, d = RunOf(u, b), NEW i, i = Beside(u, b).low
    PROVE  /\ Struct(v) /\ SameStock(u, v)
           /\ \/ d = u.root /\ BecomesRoot(u, v, i)
              \/ ~LeavesOne(u, b) /\ MergeLeaves(u, v, i, d) /\ JoinsRun(u, v, b, i, d)
              \/ /\ d # u.root /\ MergeLeaves(u, v, i, RunOf(u, d))
                 /\ TakesPlace(u, v, d, i, RunOf(u, d)) \/ GivesRun(u, v, d, i, RunOf(u, d))
<1>1. PICK j : j = JoinedAt(u, b)
  OBVIOUS
<1>2. /\ Struct(j) /\ JoinDone(u, j, d, i) /\ SameStock(u, j)
      /\ LeavesOne(u, b) => Range(j.items[d]) = {i}
  BY <1>1, JoinedIs
<1>3. v = IF LeavesOne(u, b) THEN Promoted(u, j, d, i) ELSE j
  BY <1>1 DEF MergeAt, LeftOf, JoinedAt, LeavesOne
<1>4. Struct(v)
  BY MergeFacts DEF Keeps
<1>5. /\ i \in Regions(u) /\ d \in Divisions(u) /\ i \in Range(u.items[d])
  <2>1. /\ b \in Boards(u) /\ PlaceOf(u, b) \in 2 .. Len(u.items[RunOf(u, b)]) - 1
        /\ i \in Regions(u)
    BY DEF CanMerge
  <2>2. b \in Nodes(u) \ {u.root}
    BY <2>1 DEF Struct, Regions
  <2>3. PICK s, k : s = u.items[d] /\ k = PlaceOf(u, b)
    OBVIOUS
  <2>4. d \in Divisions(u) /\ IsRun(s, Nodes(u) \ {u.root})
    BY <2>2, <2>3, PlaceFacts DEF Struct
  <2>5. k \in 2 .. Len(s) - 1 /\ i = s[k - 1]
    BY <2>1, <2>3 DEF Beside
  <2>6. k - 1 \in 1 .. Len(s)
    BY <2>4, <2>5, RunFacts
  <2> QED
    BY <2>1, <2>3, <2>4, <2>5, <2>6, RunFacts
<1>6. CASE ~LeavesOne(u, b)
  <2>1. v = j
    BY <1>3, <1>6
  <2>2. MergeLeaves(u, j, i, d) /\ JoinsRun(u, j, b, i, d)
    BY <1>1, JoinLeaves
  <2> QED
    BY <1>2, <1>4, <1>6, <2>1, <2>2
<1>7. CASE LeavesOne(u, b)
  <2>1. v = Promoted(u, j, d, i) /\ Range(j.items[d]) = {i}
    BY <1>2, <1>3, <1>7
  <2>2. SameStock(u, v)
    BY <1>2, <2>1, PromotedStock
  <2>3. CASE d = u.root
    <3>1. /\ u.root \in Divisions(u) /\ i \in Range(u.items[u.root]) /\ JoinDone(u, j, u.root, i)
          /\ Range(j.items[u.root]) = {i} /\ v = Promoted(u, j, u.root, i)
      BY <1>2, <1>5, <2>1, <2>3
    <3>2. BecomesRoot(u, v, i)
      BY <1>2, <1>4, <1>5, <3>1, RootLeaves
    <3> QED
      BY <1>4, <2>2, <2>3, <3>2
  <2>4. CASE d # u.root
    <3>1. /\ MergeLeaves(u, v, i, RunOf(u, d))
          /\ TakesPlace(u, v, d, i, RunOf(u, d)) \/ GivesRun(u, v, d, i, RunOf(u, d))
      BY <1>2, <1>5, <2>1, <2>4, PromotedLeaves
    <3> QED
      BY <1>4, <2>2, <2>4, <3>1
  <2> QED
    BY <2>3, <2>4
<1> QED
  BY <1>6, <1>7

------------------------------------------------------------------------------
(* What a removal leaves where it was.                                      *)

\* The run of d shows the rooms its members of K have in u (KeepsRooms).
RunKeeps(u, v, K, d) ==
    \E mm : /\ ShowsRun(v, d, mm)
            /\ Sum(mm, DOMAIN v.items[d]) = u.space[d].size[v.axis[d]]
            /\ \A k \in DOMAIN v.items[d] : v.items[d][k] \in K =>
                  AtPlace(u.space[v.items[d][k]], u.space[d], v.axis[d], k, mm)

\* It does, and gives the members at the p places from place k on the sizes h.
RunTakes(u, v, K, d, k, p, h) ==
    \E mm : /\ ShowsRun(v, d, mm)
            /\ Sum(mm, DOMAIN v.items[d]) = u.space[d].size[v.axis[d]]
            /\ \A y \in DOMAIN v.items[d] : v.items[d][y] \in K =>
                  AtPlace(u.space[v.items[d][y]], u.space[d], v.axis[d], y, mm)
            /\ \A y \in k .. k + p - 1 : mm[y] = h[y]

\* The second says the first.
LEMMA TakesKeeps ==
    ASSUME NEW u, NEW v, NEW K, NEW d, NEW k, NEW p, NEW h, RunTakes(u, v, K, d, k, p, h)
    PROVE  RunKeeps(u, v, K, d)
BY DEF RunTakes, RunKeeps

\* v is what a removal makes of u, K its nodes outside the joined region.
LeavesOutside(u, v, i, t, K) ==
    /\ Sized(u) /\ Struct(v) /\ Ruled(v) /\ SameStock(u, v) /\ MergeLeaves(u, v, i, t)
    /\ i \in Nodes(u) /\ K = Nodes(v) \ Subtree(u, i)

\* A node of K has the rule, and a board the thickness, it had.
LEMMA OutsideIsSame ==
    ASSUME NEW u, NEW v, NEW i, NEW t, NEW K, LeavesOutside(u, v, i, t, K), NEW x \in K
    PROVE  /\ x \in Nodes(v) /\ x \in Nodes(u) /\ x # i
           /\ v.rule[x] = u.rule[x] /\ (x \in Boards(v) <=> x \in Boards(u))
           /\ x \in Boards(u) => v.thick[x] = u.thick[x]
<1>1. Struct(u) /\ i \in Nodes(u)
  BY DEF LeavesOutside, Sized
<1>2. i \in Subtree(u, i)
  BY <1>1, SubtreeFacts
<1> QED
  BY <1>2 DEF LeavesOutside, MergeLeaves, SameStock

\* Every run but one is as it was.
LEMMA RestKeeps ==
    ASSUME NEW u, NEW v, NEW i, NEW t, NEW K, LeavesOutside(u, v, i, t, K),
           NEW e \in Divisions(v) \cap K, e # t
    PROVE  RunKeeps(u, v, K, e)
<1>1. /\ Sized(u) /\ Struct(u) /\ Struct(v) /\ Ruled(v) /\ i \in Nodes(u)
      /\ K = Nodes(v) \ Subtree(u, i)
  BY DEF LeavesOutside, Sized
<1>2. /\ e \in Divisions(u) /\ v.axis[e] = u.axis[e] /\ v.items[e] = u.items[e]
      /\ i \notin Range(u.items[e])
  BY DEF LeavesOutside, MergeLeaves
<1>3. DOMAIN v.items[e] = DOMAIN u.items[e] /\ Len(v.items[e]) = Len(u.items[e])
  BY <1>2
<1>4. ASSUME NEW x \in DOMAIN u.items[e] PROVE u.items[e][x] \in K
  <2>1. v.items[e][x] \in Nodes(v) /\ u.items[e][x] \in Range(u.items[e])
    BY <1>1, <1>2, <1>3, RunIsTyped
  <2>2. u.items[e][x] \notin Subtree(u, i)
    BY <1>1, <1>2, <2>1, SubtreeFacts
  <2> QED
    BY <1>1, <1>2, <2>1, <2>2
<1>5. ASSUME NEW x \in DOMAIN u.items[e]
      PROVE  /\ v.rule[v.items[e][x]] = u.rule[u.items[e][x]]
             /\ v.items[e][x] \in Boards(v) <=> u.items[e][x] \in Boards(u)
             /\ u.items[e][x] \in Boards(u) => v.thick[v.items[e][x]] = u.thick[u.items[e][x]]
  BY <1>2, <1>4, OutsideIsSame
<1>6. Alike(u, e, v, e)
  BY <1>3, <1>5 DEF Alike
<1>7. PICK mm, w, c : mm = ShownSizes(u, e) /\ w = u.space[e] /\ c = u.axis[e]
  OBVIOUS
<1>8. /\ ShowsRun(v, e, mm) /\ Sum(mm, DOMAIN v.items[e]) = w.size[c]
      /\ \A x \in DOMAIN v.items[e] : AtPlace(u.space[u.items[e][x]], w, c, x, mm)
  BY <1>1, <1>2, <1>6, <1>7, AlikeKeeps
<1> QED
  BY <1>2, <1>7, <1>8 DEF RunKeeps

\* The run in which the joined region takes its division's place shows the sizes it had.
LEMMA PlaceKeeps ==
    ASSUME NEW u, NEW v, NEW i, NEW d, NEW p, NEW K, LeavesOutside(u, v, i, p, K),
           d \in Nodes(u) \ {u.root}, p = RunOf(u, d), TakesPlace(u, v, d, i, p),
           i \notin Boards(u), d \notin Boards(u)
    PROVE  RunTakes(u, v, K, p, PlaceOf(u, d), 1, ShownSizes(u, p))
<1>1. /\ Sized(u) /\ Struct(u) /\ Struct(v) /\ Ruled(v) /\ Ruled(u) /\ i \in Nodes(u)
      /\ K = Nodes(v) \ Subtree(u, i)
  BY DEF LeavesOutside, Sized
<1>2. PICK k : k = PlaceOf(u, d)
  OBVIOUS
<1>3. /\ p \in Divisions(u) /\ k \in DOMAIN u.items[p] /\ u.items[p][k] = d
      /\ \A e \in Divisions(u) : \A x \in DOMAIN u.items[e] :
            u.items[e][x] = d => e = p /\ x = k
  BY <1>1, <1>2, PlaceInRun
<1>4. v.items[p] = [u.items[p] EXCEPT ![k] = i] /\ v.rule[i] = u.rule[d]
  BY <1>2 DEF TakesPlace
<1>5. p \in Divisions(v) /\ v.axis[p] = u.axis[p] /\ p \notin Subtree(u, i)
  BY DEF LeavesOutside, MergeLeaves
<1>6. /\ DOMAIN v.items[p] = DOMAIN u.items[p] /\ v.items[p][k] = i
      /\ \A x \in DOMAIN u.items[p] : x # k => v.items[p][x] = u.items[p][x]
  BY <1>3, <1>4
<1>7. Len(v.items[p]) = Len(u.items[p])
  <2>1. DOMAIN v.items[p] = 1 .. Len(u.items[p]) /\ Len(u.items[p]) \in Nat
    BY <1>1, <1>3, <1>6, RunIsTyped
  <2>2. DOMAIN v.items[p] = 1 .. Len(v.items[p]) /\ Len(v.items[p]) \in Nat
    BY <1>1, <1>5, RunIsTyped
  <2> QED
    BY <2>1, <2>2
<1>8. ASSUME NEW x \in DOMAIN u.items[p], x # k PROVE u.items[p][x] \in K
  <2>1. v.items[p][x] \in Nodes(v) /\ u.items[p][x] \in Range(u.items[p])
    BY <1>1, <1>3, <1>5, <1>6, RunIsTyped
  <2>2. u.items[p][x] \in Subtree(u, i) <=> u.items[p][x] = i
    BY <1>1, <1>3, <1>5, <2>1, SubtreeFacts
  <2>3. IsInjective(v.items[p])
    BY <1>1, <1>5 DEF Struct, IsRun
  <2>4. v.items[p][x] # i
    BY <1>3, <1>6, <1>8, <2>3 DEF IsInjective
  <2> QED
    BY <1>1, <1>6, <1>8, <2>1, <2>2, <2>4
<1>9. i \notin Boards(v)
  BY DEF LeavesOutside, MergeLeaves
<1>10. ASSUME NEW x \in DOMAIN u.items[p]
       PROVE  /\ v.rule[v.items[p][x]] = u.rule[u.items[p][x]]
              /\ v.items[p][x] \in Boards(v) <=> u.items[p][x] \in Boards(u)
              /\ u.items[p][x] \in Boards(u) => v.thick[v.items[p][x]] = u.thick[u.items[p][x]]
  <2>1. CASE x = k
    BY <1>3, <1>4, <1>6, <1>9, <2>1
  <2>2. CASE x # k
    <3>1. u.items[p][x] \in K /\ v.items[p][x] = u.items[p][x]
      BY <1>6, <1>8, <2>2
    <3> QED
      BY <3>1, OutsideIsSame
  <2> QED
    BY <2>1, <2>2
<1>11. Alike(u, p, v, p)
  BY <1>6, <1>7, <1>10 DEF Alike
<1>12. PICK mm, w, c : mm = ShownSizes(u, p) /\ w = u.space[p] /\ c = u.axis[p]
  OBVIOUS
<1>13. /\ ShowsRun(v, p, mm) /\ Sum(mm, DOMAIN v.items[p]) = w.size[c]
       /\ \A x \in DOMAIN v.items[p] : AtPlace(u.space[u.items[p][x]], w, c, x, mm)
  BY <1>1, <1>3, <1>11, <1>12, AlikeKeeps
<1>14. \A x \in DOMAIN v.items[p] : v.items[p][x] \in K => v.items[p][x] = u.items[p][x]
  <2>1. i \notin K
    BY <1>1, SubtreeFacts
  <2> QED
    BY <1>6, <2>1
<1> QED
  BY <1>2, <1>5, <1>12, <1>13, <1>14 DEF RunTakes

\* The members of a spliced run that stay are where they were, and the new ones are in
\* the joined region.
StaysAround(u, v, i, t, k, m, p) ==
    /\ \A x \in 1 .. k - 1 : v.items[t][x] = u.items[t][x]
    /\ \A y \in k .. k + p - 1 : v.items[t][y] \in Subtree(u, i)
    /\ \A x \in k + m .. Len(u.items[t]) : v.items[t][x - m + p] = u.items[t][x]

\* So the run shows the rooms of those that stay.
LEMMA SplicedKeeps ==
    ASSUME NEW u, NEW v, NEW i, NEW t, NEW K, LeavesOutside(u, v, i, t, K),
           t \in Divisions(u), NEW k, NEW m, NEW p, SplicedRun(u, t, v, t, k, m, p),
           StaysAround(u, v, i, t, k, m, p), NEW scale, ShowsOff(u, t, k .. k + m - 1, scale),
           NEW h, \A y \in k .. k + p - 1 : MemberShows(v, t, y, h[y], scale),
           NEW mm, mm = ShownSizes(u, t), Sum(h, k .. k + p - 1) = Sum(mm, k .. k + m - 1)
    PROVE  RunTakes(u, v, K, t, k, p, h)
<1>1. /\ Sized(u) /\ v.axis[t] = u.axis[t] /\ K = Nodes(v) \ Subtree(u, i)
  BY DEF LeavesOutside, MergeLeaves
<1>2. PICK n, g : n = Len(u.items[t]) /\ g = SplicedSizes(mm, n, k, m, p, h)
  OBVIOUS
<1>3. ShowsRun(v, t, g) /\ Splices(mm, n, g, k, m, p)
  BY <1>1, <1>2, SplicedShows
<1>4. /\ m >= 1 /\ m \in Nat /\ p \in Nat /\ k \in 1 .. n /\ n \in Nat /\ k + m - 1 <= n
      /\ DOMAIN v.items[t] = 1 .. n - m + p
  BY <1>1, <1>2, RunIsTyped DEF SplicedRun, Sized
<1>5. PICK w, c : w = u.space[t] /\ c = u.axis[t]
  OBVIOUS
<1>6. OthersStay(u, t, g, k, m, p) /\ Sum(g, 1 .. n - m + p) = w.size[c]
  <2>1. /\ OthersStay(u, t, g, k, m, p)
        /\ Sum(g, 1 .. n - m + p) = u.space[t].size[u.axis[t]]
    <3>1. Sized(u) /\ m >= 1 /\ n = Len(u.items[t])
      BY <1>1, <1>2, <1>4
    <3>2. mm = ShownSizes(u, t) /\ Splices(mm, n, g, k, m, p)
      BY <1>3
    <3> QED
      BY ONLY t \in Divisions(u), <3>1, <3>2, SplicedStay
  <2> QED
    BY <1>5, <2>1
<1>7. ASSUME NEW x \in DOMAIN v.items[t], v.items[t][x] \in K
      PROVE  AtPlace(u.space[v.items[t][x]], w, c, x, g)
  <2>1. x \in 1 .. n - m + p /\ x \notin k .. k + p - 1
    BY <1>1, <1>4, <1>7 DEF StaysAround
  <2>2. CASE x < k
    <3>1. x \in 1 .. k - 1
      BY <1>4, <2>1, <2>2
    <3> QED
      BY <1>5, <1>6, <3>1 DEF OthersStay, StaysAround
  <2>3. CASE ~(x < k)
    <3>1. PICK y : y = x - p + m
      OBVIOUS
    <3>2. y \in k + m .. n /\ y - m + p = x
      BY <1>4, <2>1, <2>3, <3>1
    <3>3. v.items[t][y - m + p] = u.items[t][y]
      BY <1>2, <3>2 DEF StaysAround
    <3>4. AtPlace(u.space[u.items[t][y]], w, c, y - m + p, g)
      BY <1>2, <1>5, <1>6, <3>2 DEF OthersStay
    <3> QED
      BY <3>2, <3>3, <3>4
  <2> QED
    BY <2>2, <2>3
<1>8. ASSUME NEW y \in k .. k + p - 1 PROVE g[y] = h[y]
  <2>1. y \in 1 .. n - m + p /\ ~(y < k) /\ y < k + p
    BY <1>4
  <2> QED
    BY <1>2, <2>1 DEF SplicedSizes
<1> QED
  BY <1>1, <1>3, <1>4, <1>5, <1>6, <1>7, <1>8 DEF RunTakes

\* A member of such a run that stays is the one it was.
LEMMA StayingMembers ==
    ASSUME NEW u, NEW v, NEW i, NEW t, NEW K, LeavesOutside(u, v, i, t, K),
           t \in Divisions(u), NEW x \in DOMAIN u.items[t], u.items[t][x] # i,
           NEW y \in DOMAIN v.items[t], v.items[t][y] = u.items[t][x]
    PROVE  SameMember(u, t, x, v, t, y)
<1>1. /\ Struct(u) /\ Ruled(u) /\ Struct(v) /\ Ruled(v) /\ i \in Nodes(u)
      /\ K = Nodes(v) \ Subtree(u, i) /\ t \in Divisions(v) /\ t \notin Subtree(u, i)
  BY DEF LeavesOutside, Sized, MergeLeaves
<1>2. u.items[t][x] \in Range(u.items[t]) /\ v.items[t][y] \in Nodes(v)
  BY <1>1, RunIsTyped
<1>3. u.items[t][x] \notin Subtree(u, i)
  BY <1>1, <1>2, SubtreeFacts
<1>4. u.items[t][x] \in K
  BY <1>1, <1>2, <1>3
<1> QED
  BY <1>4, OutsideIsSame DEF SameMember

\* The run of the board shows the sizes of its other members: what the joined region
\* takes is what the three it stands for took (edit.py _merged_rule).
LEMMA JoinKeeps ==
    ASSUME NEW u, NEW b, CanMerge(u, b), NEW d, d = RunOf(u, b), NEW i, i = Beside(u, b).low,
           NEW v, NEW K, LeavesOutside(u, v, i, d, K), JoinsRun(u, v, b, i, d),
           NEW q, q = (Extent(u, i) ++ Extent(u, b)) ++ Extent(u, Beside(u, b).high)
    PROVE  \E h : h[PlaceOf(u, b) - 1] = q /\ RunTakes(u, v, K, d, PlaceOf(u, b) - 1, 1, h)
<1>1. /\ Sized(u) /\ Struct(u) /\ Struct(v) /\ Ruled(v) /\ Ruled(u) /\ i \in Nodes(u)
      /\ d \in Divisions(v) /\ d \in Divisions(u) /\ i \notin Boards(v)
  <2>1. i \in Regions(u)
    BY DEF CanMerge
  <2> QED
    BY <2>1 DEF LeavesOutside, Sized, MergeLeaves, Regions
<1>2. PICK k, l, s, h : k = PlaceOf(u, b) /\ l = k - 1 /\ s = u.items[d] /\ h = Beside(u, b).high
  OBVIOUS
<1>3. PICK n : n = Len(s)
  OBVIOUS
<1>4. /\ n \in Nat /\ DOMAIN s = 1 .. n /\ k \in 2 .. n - 1 /\ s \in Seq(Nodes(u)) /\ IsInjective(s)
      /\ \A x \in 1 .. n : s[x] \in Nodes(u) \ {u.root}
  <2>1. IsRun(s, Nodes(u) \ {u.root})
    BY <1>1, <1>2, Zenon DEF Struct
  <2>2. k \in 2 .. n - 1
    BY <1>2, <1>3 DEF CanMerge
  <2>3. s \in Seq(Nodes(u) \ {u.root})
    BY <2>1 DEF IsRun
  <2> QED
    BY <1>1, <1>2, <1>3, <2>1, <2>2, <2>3, RunIsTyped DEF IsRun
<1>5. /\ l \in 1 .. n - 2 /\ l \in Nat /\ l + 1 = k /\ l + 2 = k + 1 /\ l + 3 - 1 = k + 1
      /\ l + 1 - 1 = l /\ l + 3 = k + 2 /\ l + 2 \in 1 .. n /\ l + 1 \in 1 .. n /\ l \in 1 .. n
      /\ l + 3 - 1 <= n /\ k + 1 \in 1 .. n /\ l .. l + 3 - 1 = l .. l + 2 /\ 3 \in Nat
  BY <1>2, <1>4
<1>6. s[l] = i /\ s[k] = b /\ s[k + 1] = h
  <2>1. s[k] = b
    <3>1. b \in Nodes(u) \ {u.root}
      BY <1>1 DEF CanMerge, Struct, Regions
    <3> QED
      BY <1>1, <1>2, <3>1, PlaceInRun
  <2>2. Beside(u, b).low = s[k - 1] /\ Beside(u, b).high = s[k + 1]
    BY <1>2 DEF Beside
  <2> QED
    BY <1>2, <2>1, <2>2
<1>7. PICK t : t = <<i>>
  OBVIOUS
<1>8. v.items[d] = Splice(s, l, 3, t) /\ v.rule[i] = MergedRule(u, b)
  BY <1>2, <1>7 DEF JoinsRun, LeftOf
<1>9. SplicedPlaces(s, l, 3, t, v.items[d]) /\ Len(t) = 1 /\ t[1] = i
  <2>1. t \in Seq(Nodes(u)) /\ Len(t) = 1 /\ t[1] = i
    BY <1>1, <1>7
  <2> QED
    BY <1>3, <1>4, <1>5, <1>8, <2>1, SplicePlaces
<1>10. /\ Len(v.items[d]) = n - 3 + 1 /\ DOMAIN v.items[d] = 1 .. n - 3 + 1
       /\ \A x \in 1 .. l - 1 : v.items[d][x] = s[x]
       /\ v.items[d][l] = i
       /\ \A x \in l + 3 .. n : v.items[d][x - 3 + 1] = s[x]
  <2>1. v.items[d][l - 1 + 1] = t[1] /\ l - 1 + 1 = l
    BY <1>5, <1>9 DEF SplicedPlaces
  <2> QED
    BY <1>3, <1>9, <2>1 DEF SplicedPlaces
<1>11. SplicedRun(u, d, v, d, l, 3, 1)
  <2>1. ASSUME NEW x \in 1 .. n, x # l, NEW y \in 1 .. n - 3 + 1, v.items[d][y] = s[x]
        PROVE  SameMember(u, d, x, v, d, y)
    <3>1. s[x] # i
      BY <1>4, <1>5, <1>6, <2>1 DEF IsInjective
    <3> QED
      BY <1>1, <1>2, <1>4, <1>10, <2>1, <3>1, StayingMembers, ZenonT(40)
  <2>2. ASSUME NEW x \in 1 .. l - 1 PROVE SameMember(u, d, x, v, d, x)
    <3>1. x \in 1 .. n /\ x # l /\ x \in 1 .. n - 3 + 1
      BY <1>4, <1>5
    <3> QED
      BY <1>10, <2>1, <3>1
  <2>3. ASSUME NEW x \in l + 3 .. n PROVE SameMember(u, d, x, v, d, x - 3 + 1)
    <3>1. x \in 1 .. n /\ x # l /\ x - 3 + 1 \in 1 .. n - 3 + 1
      BY <1>4, <1>5
    <3> QED
      BY <1>10, <2>1, <3>1
  <2>4. s[l] \notin Boards(u)
    <3>1. i \in Regions(u)
      BY DEF CanMerge
    <3> QED
      BY <1>6, <3>1 DEF Regions
  <2> QED
    BY <1>2, <1>3, <1>4, <1>5, <1>10, <2>2, <2>3, <2>4 DEF SplicedRun
<1>12. PICK mm : mm = ShownSizes(u, d)
  OBVIOUS
<1>13. PICK x, y, z : /\ x = Extent(u, i) /\ y = Extent(u, b) /\ z = Extent(u, h)
                      /\ q = (x ++ y) ++ z
  BY <1>2
<1>14. /\ mm[l] = x /\ mm[l + 1] = y /\ mm[l + 2] = z
       /\ IsFraction(x) /\ IsFraction(y) /\ IsFraction(z)
       /\ Zero \prec x /\ Zero \prec y /\ Zero \prec z
  <2>1. \A a \in DOMAIN u.items[d] : /\ ShownSizes(u, d)[a] = Extent(u, u.items[d][a])
                                     /\ IsFraction(ShownSizes(u, d)[a])
                                     /\ Zero \prec ShownSizes(u, d)[a]
    BY <1>1, SizedRun
  <2>2. \A a \in 1 .. n : mm[a] = Extent(u, s[a]) /\ IsFraction(mm[a]) /\ Zero \prec mm[a]
    BY <1>2, <1>4, <1>12, <2>1
  <2> QED
    BY <1>5, <1>6, <1>13, <2>2
<1>15. IsFraction(q) /\ Zero \prec q /\ q = x ++ (y ++ z)
  <2>0. Zero \preceq y /\ Zero \preceq z
    <3>1. IsFraction(Zero)
      BY WholeIsFrac DEF Zero
    <3> QED
      BY <1>14, <3>1, OrderFacts
  <2>1. IsFraction(x ++ y) /\ Zero \prec x ++ y
    BY <1>14, <2>0, AddFacts, PositiveSum
  <2>2. IsFraction(q) /\ Zero \prec q
    BY <1>13, <1>14, <2>0, <2>1, AddFacts, PositiveSum
  <2>3. (x ++ y) ++ z = x ++ (y ++ z)
    BY <1>14, SumLaws
  <2> QED
    BY <1>13, <2>2, <2>3
<1>16. PICK E : E = l .. l + 3 - 1
  OBVIOUS
<1>17. E = k - 1 .. k + 1
  BY <1>2, <1>5, <1>16
<1>18. PICK scale : ShowsOff(u, d, E, scale) /\ scale ** SharingRule(u, d, E, q).weight = q
  BY <1>1, <1>15, SharingAtScale
<1>19. v.rule[i] = IF Locked(u, i) /\ Locked(u, h) THEN Fixed(q, "clear") ELSE SharingRule(u, d, E, q)
  BY <1>2, <1>8, <1>13, <1>17 DEF MergedRule
<1>20. PICK f : f = [a \in l .. l |-> q]
  OBVIOUS
<1>21. f[l] = q /\ l .. l + 1 - 1 = {l} /\ l .. l = {l}
  BY <1>5, <1>20
<1>22. l \in DOMAIN v.items[d]
  BY <1>4, <1>5, <1>10
<1>23. MemberShows(v, d, l, q, scale)
  <2>1. CASE Locked(u, i) /\ Locked(u, h)
    <3>1. v.rule[v.items[d][l]] = Fixed(q, "clear")
      BY <1>10, <1>19, <2>1
    <3>2. l \notin DrivenPlaces(v, d) /\ Resolves(v, d, l) /\ FixedMm(v, d, l) = q
      BY <3>1 DEF DrivenPlaces, Driven, Resolves, FixedMm, Fixed
    <3> QED
      BY <1>15, <3>2 DEF MemberShows
  <2>2. CASE ~(Locked(u, i) /\ Locked(u, h))
    <3>1. PICK rule : rule = SharingRule(u, d, E, q)
      OBVIOUS
    <3>2. rule.kind = "driven" /\ scale ** rule.weight = q /\ v.rule[v.items[d][l]] = rule
      BY <1>10, <1>18, <1>19, <2>2, <3>1, SharingIsDriven
    <3>3. l \in DrivenPlaces(v, d) /\ Resolves(v, d, l) /\ WeightAt(v, d, l) = rule.weight
      BY <1>22, <3>2 DEF DrivenPlaces, Driven, Resolves, WeightAt
    <3> QED
      BY <1>15, <3>2, <3>3 DEF MemberShows
  <2> QED
    BY <2>1, <2>2
<1>24. \A a \in l .. l + 1 - 1 : MemberShows(v, d, a, f[a], scale)
  BY <1>21, <1>23
<1>25. Sum(f, l .. l + 1 - 1) = Sum(mm, l .. l + 3 - 1)
  <2>1. Sum(f, l .. l) = q
    BY <1>5, <1>15, <1>21, SumOfOne
  <2>2. Sum(mm, l .. l + 2) = x ++ (y ++ z)
    BY <1>5, <1>14, SumOfThree
  <2> QED
    BY <1>5, <1>15, <1>21, <2>1, <2>2
<1>26. StaysAround(u, v, i, d, l, 3, 1)
  <2>1. i \in Subtree(u, i)
    BY <1>1, SubtreeFacts
  <2> QED
    BY <1>2, <1>3, <1>10, <1>21, <2>1 DEF StaysAround
<1>27. RunTakes(u, v, K, d, l, 1, f)
  BY <1>1, <1>11, <1>12, <1>16, <1>18, <1>24, <1>25, <1>26, SplicedKeeps
<1> QED
  BY <1>2, <1>21, <1>27

\* Sizes further along a run add up as they did.
LEMMA SumShifted ==
    ASSUME NEW f, NEW n \in Nat, Fractional(f, 1 .. n), NEW k \in Nat, k >= 1,
           NEW h, \A y \in 1 .. n : h[k - 1 + y] = f[y]
    PROVE  Sum(h, k .. k + n - 1) = Sum(f, 1 .. n)
<1> DEFINE T == {j \in Nat : j <= n => Sum(h, k .. k + j - 1) = Sum(f, 1 .. j)}
<1>1. 0 \in T
  <2>1. k .. k + 0 - 1 = {} /\ 1 .. 0 = {}
    OBVIOUS
  <2>2. Sum(h, {}) = Zero /\ Sum(f, {}) = Zero
    BY SumAdds
  <2> QED
    BY <2>1, <2>2
<1>2. ASSUME NEW j \in Nat, j \in T PROVE j + 1 \in T
  <2>1. SUFFICES ASSUME j + 1 <= n
                 PROVE  Sum(h, k .. k + (j + 1) - 1) = Sum(f, 1 .. j + 1)
    OBVIOUS
  <2>2. PICK x, S : x = k + j /\ S = k .. k + j - 1
    OBVIOUS
  <2>3. /\ k .. k + (j + 1) - 1 = S \cup {x} /\ x \notin S /\ IsFiniteSet(S)
        /\ j + 1 \in 1 .. n /\ x = k - 1 + (j + 1) /\ j < n
    <3>1. IsFiniteSet(S)
      BY <2>2, FS_Interval
    <3>2. k .. k + (j + 1) - 1 = S \cup {x} /\ x \notin S
      BY <2>2
    <3> QED
      BY <2>1, <2>2, <3>1, <3>2
  <2>4. \A z \in S \cup {x} : IsFraction(h[z])
    <3>1. ASSUME NEW z \in S \cup {x} PROVE IsFraction(h[z])
      <4>1. PICK y : y = z - k + 1
        OBVIOUS
      <4>2. y \in 1 .. n /\ z = k - 1 + y
        BY <2>1, <2>2, <4>1
      <4> QED
        BY <4>2 DEF Fractional
    <3> QED
      BY <3>1
  <2>5. Sum(h, S \cup {x}) = h[x] ++ Sum(h, S)
    BY <2>3, <2>4, SumAdds DEF Fractional
  <2>6. Sum(f, 1 .. j + 1) = f[j + 1] ++ Sum(f, 1 .. j)
    BY <2>3, SumNext
  <2>7. Sum(h, S) = Sum(f, 1 .. j)
    BY <1>2, <2>1, <2>2
  <2>8. h[x] = f[j + 1]
    BY <2>3
  <2> QED
    BY <2>3, <2>5, <2>6, <2>7, <2>8
<1>3. \A j \in Nat : (\A i \in Nat : i < j => i \in T) => j \in T
  <2>1. ASSUME NEW j \in Nat, \A i \in Nat : i < j => i \in T PROVE j \in T
    <3>1. CASE j = 0
      BY <1>1, <3>1
    <3>2. CASE j # 0
      <4>1. PICK i \in Nat : j = i + 1
        BY <3>2
      <4>2. i \in T
        BY <2>1, <4>1
      <4> QED
        BY <1>2, <4>1, <4>2
    <3> QED
      BY <3>1, <3>2
  <2> QED
    BY <2>1
<1> HIDE DEF T
<1>4. Nat \subseteq T
  BY <1>3, StrongInduction
<1>5. n \in T
  BY <1>4
<1> QED
  BY <1>5 DEF T

\* A division across the run above fills its place there.
LEMMA MembersFillPlace ==
    ASSUME NEW u, Sized(u), NEW d \in Divisions(u), d # u.root, NEW p, p = RunOf(u, d),
           NEW i \in Divisions(u), i \in Range(u.items[d]),
           u.axis[i] = u.axis[p], u.axis[d] # u.axis[p],
           NEW f, f = ShownSizes(u, i), NEW mm, mm = ShownSizes(u, p)
    PROVE  Sum(f, DOMAIN u.items[i]) = mm[PlaceOf(u, d)]
<1>1. Struct(u) /\ d \in Nodes(u) \ {u.root}
  BY DEF Sized, Struct, Regions
<1>2. PICK k, a : k = PlaceOf(u, d) /\ a = u.axis[p]
  OBVIOUS
<1>3. p \in Divisions(u) /\ k \in DOMAIN u.items[p] /\ u.items[p][k] = d
  BY <1>1, <1>2, PlaceInRun, SMTT(40)
<1>4. mm[k] = u.space[d].size[a]
  BY <1>2, <1>3, Zenon DEF ShownSizes
<1>5. PICK y \in DOMAIN u.items[d] : u.items[d][y] = i
  BY DEF Range
<1>6. /\ u.axis[d] \in Axes
      /\ AtPlace(u.space[u.items[d][y]], u.space[d], u.axis[d], y, ShownSizes(u, d))
  BY <1>5, SizedShows
<1>7. a \in Axes
  BY <1>2, <1>3, SizedShows
<1>8. u.space[i].size[a] = u.space[d].size[a]
  BY <1>2, <1>5, <1>6, <1>7 DEF AtPlace
<1>9. Sum(f, DOMAIN u.items[i]) = u.space[i].size[u.axis[i]]
  BY SizedShows
<1> QED
  BY <1>2, <1>4, <1>8, <1>9

\* The scale at which a run that takes in the members of i shows its sizes and theirs.
LEMMA GivingScale ==
    ASSUME NEW u, Sized(u), NEW p \in Divisions(u), NEW k, NEW i \in Divisions(u),
           NEW f, f = ShownSizes(u, i), NEW A, A = DrivenPlaces(u, p) \ {k}
    PROVE  \E scale : /\ ShowsOff(u, p, {k}, scale)
                      /\ A # {} => SharesAt(u, p, {k}, scale)
                      /\ A = {} => RulesShow(u, i, f, scale)
<1>1. CASE A # {}
  <2>1. PICK scale : ShowsOff(u, p, {}, scale) /\ SharesAt(u, p, {k}, scale)
    BY <1>1, SharingAtEvery
  <2>2. ShowsOff(u, p, {k}, scale)
    BY <2>1 DEF ShowsOff
  <2> QED
    BY <1>1, <2>1, <2>2
<1>2. CASE A = {}
  <2>1. PICK scale : RulesShow(u, i, f, scale)
    BY SizedRun
  <2>2. ShowsOff(u, p, {k}, scale)
    BY <1>2, <2>1 DEF ShowsOff, RulesShow
  <2> QED
    BY <1>2, <2>1, <2>2
<1> QED
  BY <1>1, <1>2

\* The run that takes in the members of i shows the sizes it had, and theirs.
LEMMA GiveKeeps ==
    ASSUME NEW u, NEW v, NEW i, NEW d, NEW p, NEW K, LeavesOutside(u, v, i, p, K),
           d \in Divisions(u), d # u.root, p = RunOf(u, d), i \in Range(u.items[d]),
           u.axis[d] # u.axis[p], GivesRun(u, v, d, i, p)
    PROVE  \E h : /\ \A y \in 1 .. Len(u.items[i]) :
                        h[PlaceOf(u, d) - 1 + y] = ShownSizes(u, i)[y]
                  /\ RunTakes(u, v, K, p, PlaceOf(u, d), Len(u.items[i]), h)
<1>1. /\ Sized(u) /\ Struct(u) /\ Struct(v) /\ Ruled(v) /\ Ruled(u) /\ i \in Nodes(u)
      /\ p \in Divisions(v) /\ d \in Nodes(u) \ {u.root} /\ d \notin Boards(u)
      /\ Boards(v) = Boards(u) \cap Nodes(v) /\ \A b \in Boards(v) : v.thick[b] = u.thick[b]
  <2>1. Struct(u) /\ d \notin Boards(u) /\ d \in Nodes(u)
    BY DEF LeavesOutside, Sized, Struct, Regions
  <2> QED
    BY <2>1 DEF LeavesOutside, Sized, MergeLeaves, SameStock
<1>2. PICK k, s, t : k = PlaceOf(u, d) /\ s = u.items[p] /\ t = u.items[i]
  OBVIOUS
<1>3. PICK m, n : m = Len(s) /\ n = Len(t)
  OBVIOUS
<1>4. /\ p \in Divisions(u) /\ k \in DOMAIN u.items[p] /\ u.items[p][k] = d
      /\ \A e \in Divisions(u) : \A x \in DOMAIN u.items[e] :
            u.items[e][x] = d => e = p /\ x = k
  BY <1>1, <1>2, PlaceInRun
<1>5. /\ i \in Divisions(u) /\ u.axis[i] = u.axis[p]
      /\ v.items[p] = Splice(s, k, 1, t)
      /\ \A x \in Range(t) : v.rule[x] = SplicedRules(u, p, k, i)[x]
  BY <1>2 DEF GivesRun
<1>6. /\ m \in Nat /\ n \in Nat /\ DOMAIN s = 1 .. m /\ DOMAIN t = 1 .. n /\ k \in 1 .. m
      /\ s \in Seq(Nodes(u)) /\ t \in Seq(Nodes(u))
      /\ \A x \in 1 .. m : s[x] \in Nodes(u) \ {u.root} /\ s[x] \in Range(s)
      /\ \A y \in 1 .. n : t[y] \in Nodes(u) \ {u.root} /\ t[y] \in Range(t)
  <2>1. s \in Seq(Nodes(u) \ {u.root}) /\ t \in Seq(Nodes(u) \ {u.root})
    BY <1>1, <1>2, <1>4, <1>5 DEF Struct, IsRun
  <2>2. s \in Seq(Nodes(u)) /\ t \in Seq(Nodes(u))
    BY <2>1
  <2> QED
    BY <1>1, <1>2, <1>3, <1>4, <1>5, <2>2, RunIsTyped
<1>7. SplicedPlaces(s, k, 1, t, v.items[p])
  <2>1. k \in 1 .. Len(s) /\ 1 \in Nat /\ k + 1 - 1 <= Len(s)
    BY <1>3, <1>6
  <2> QED
    BY <1>5, <1>6, <2>1, SplicePlaces
<1>8. /\ Len(v.items[p]) = m - 1 + n /\ DOMAIN v.items[p] = 1 .. m - 1 + n
      /\ \A x \in 1 .. k - 1 : v.items[p][x] = s[x]
      /\ \A y \in 1 .. n : v.items[p][k - 1 + y] = t[y]
      /\ \A x \in k + 1 .. m : v.items[p][x - 1 + n] = s[x]
  BY <1>3, <1>7 DEF SplicedPlaces
<1>9. SplicedRun(u, p, v, p, k, 1, n)
  <2>0. \A x \in 1 .. m : s[x] # i
    <3>1. \A x \in DOMAIN u.items[p] : u.items[p][x] \in Range(u.items[p])
      BY DEF Range
    <3>2. p # d
      OBVIOUS
    <3>3. i \notin Range(u.items[p])
      BY <1>1, <1>4, <3>2, PlaceFacts
    <3> QED
      BY <1>2, <1>6, <3>1, <3>3
  <2>1. ASSUME NEW x \in 1 .. m, x # k, NEW y \in 1 .. m - 1 + n, v.items[p][y] = s[x]
        PROVE  SameMember(u, p, x, v, p, y)
    BY <1>1, <1>2, <1>4, <1>6, <1>8, <2>0, <2>1, StayingMembers, SMTT(40)
  <2>2. ASSUME NEW x \in 1 .. k - 1 PROVE SameMember(u, p, x, v, p, x)
    <3>1. x \in 1 .. m /\ x # k /\ x \in 1 .. m - 1 + n
      BY <1>6
    <3> QED
      BY <1>8, <2>1, <3>1
  <2>3. ASSUME NEW x \in k + 1 .. m PROVE SameMember(u, p, x, v, p, x - 1 + n)
    <3>1. x \in 1 .. m /\ x # k /\ x - 1 + n \in 1 .. m - 1 + n
      BY <1>6
    <3> QED
      BY <1>8, <2>1, <3>1
  <2>4. k + 1 - 1 <= m /\ 1 \in Nat /\ 1 >= 1
    BY <1>6
  <2> QED
    BY <1>1, <1>2, <1>3, <1>4, <1>6, <1>8, <2>2, <2>3, <2>4 DEF SplicedRun
<1>10. PICK f, mm, A : /\ f = ShownSizes(u, i) /\ mm = ShownSizes(u, p)
                       /\ A = DrivenPlaces(u, p) \ {k}
  OBVIOUS
<1>11. PICK scale : /\ ShowsOff(u, p, {k}, scale)
                    /\ A # {} => SharesAt(u, p, {k}, scale)
                    /\ A = {} => RulesShow(u, i, f, scale)
  BY <1>1, <1>4, <1>5, <1>10, GivingScale, ZenonT(40)
<1>12. /\ \A y \in 1 .. n : /\ f[y] = Extent(u, t[y]) /\ IsFraction(f[y]) /\ Zero \prec f[y]
                            /\ Resolves(u, i, y)
                            /\ y \notin DrivenPlaces(u, i) => f[y] = FixedMm(u, i, y)
  <2>1. \A y \in DOMAIN u.items[i] : /\ ShownSizes(u, i)[y] = Extent(u, u.items[i][y])
                                     /\ IsFraction(ShownSizes(u, i)[y])
                                     /\ Zero \prec ShownSizes(u, i)[y]
                                     /\ Resolves(u, i, y)
    BY <1>1, <1>5, SizedRun
  <2>2. PICK other : RulesShow(u, i, ShownSizes(u, i), other)
    BY <1>1, <1>5, SizedRun
  <2>3. \A y \in DOMAIN u.items[i] :
           y \notin DrivenPlaces(u, i) => ShownSizes(u, i)[y] = FixedMm(u, i, y)
    BY <2>2 DEF RulesShow
  <2> QED
    BY <1>2, <1>6, <1>10, <2>1, <2>3
<1>13. ASSUME NEW y \in 1 .. n
       PROVE  /\ k - 1 + y \in DOMAIN v.items[p]
              /\ t[y] \in Nodes(v)
              /\ v.rule[t[y]] = IF y \in DrivenPlaces(u, i) /\ A # {}
                                THEN SharingRule(u, p, {k}, f[y]) ELSE u.rule[t[y]]
  <2>1. k - 1 + y \in DOMAIN v.items[p] /\ v.items[p][k - 1 + y] = t[y]
    BY <1>6, <1>8
  <2>2. t[y] \in Nodes(v)
    BY <1>1, <2>1, RunIsTyped
  <2>3. Driven(u, t[y]) <=> y \in DrivenPlaces(u, i)
    BY <1>2, <1>6 DEF DrivenPlaces
  <2>4. PICK q : q = t[y]
    OBVIOUS
  <2>5. q \in Range(u.items[i])
    BY <1>2, <1>6, <2>4
  <2>6. SplicedRules(u, p, k, i)[q] =
           IF Driven(u, q) /\ DrivenPlaces(u, p) \ {k} # {} THEN SharingRule(u, p, {k}, Extent(u, q))
           ELSE u.rule[q]
    BY <2>5 DEF SplicedRules
  <2>7. v.rule[q] = SplicedRules(u, p, k, i)[q]
    BY <1>2, <1>5, <2>5
  <2>8. f[y] = Extent(u, q)
    BY <1>12, <2>4
  <2> QED
    BY <1>10, <2>1, <2>2, <2>3, <2>4, <2>6, <2>7, <2>8
<1>14. ASSUME NEW y \in 1 .. n, ~(y \in DrivenPlaces(u, i) /\ A # {})
       PROVE  SameMember(u, i, y, v, p, k - 1 + y)
  <2>1. v.items[p][k - 1 + y] = t[y] /\ v.rule[t[y]] = u.rule[t[y]] /\ t[y] \in Nodes(v)
    BY <1>8, <1>13, <1>14
  <2>2. t[y] \in Boards(v) <=> t[y] \in Boards(u)
    BY <1>1, <2>1
  <2>3. t[y] \in Boards(u) => v.thick[t[y]] = u.thick[t[y]]
    BY <1>1, <2>2
  <2> QED
    BY <1>2, <2>1, <2>2, <2>3 DEF SameMember
<1>15. ASSUME NEW y \in 1 .. n PROVE MemberShows(v, p, k - 1 + y, f[y], scale)
  <2>1. CASE y \in DrivenPlaces(u, i) /\ A # {}
    <3>1. PICK rule : rule = SharingRule(u, p, {k}, f[y])
      OBVIOUS
    <3>2. rule.kind = "driven" /\ scale ** rule.weight = f[y]
      BY <1>11, <1>12, <2>1, <3>1, SharingIsDriven DEF SharesAt
    <3>3. v.rule[v.items[p][k - 1 + y]] = rule
      BY <1>8, <1>13, <2>1, <3>1
    <3>4. /\ k - 1 + y \in DrivenPlaces(v, p) /\ Resolves(v, p, k - 1 + y)
          /\ WeightAt(v, p, k - 1 + y) = rule.weight
      BY <1>13, <3>2, <3>3 DEF DrivenPlaces, Driven, Resolves, WeightAt
    <3> QED
      BY <1>12, <3>2, <3>4 DEF MemberShows
  <2>2. CASE ~(y \in DrivenPlaces(u, i) /\ A # {})
    <3>1. SameMember(u, i, y, v, p, k - 1 + y)
      BY <1>14, <2>2
    <3>2. SameNext(u, i, y, v, p, k - 1 + y)
      <4>1. SUFFICES ASSUME y < n, t[y + 1] \in Boards(u)
                     PROVE  /\ k - 1 + y < m - 1 + n
                            /\ SameMember(u, i, y + 1, v, p, k - 1 + y + 1)
        BY <1>2, <1>3, <1>8 DEF SameNext
      <4>2. y + 1 \in 1 .. n /\ k - 1 + y < m - 1 + n /\ k - 1 + y + 1 = k - 1 + (y + 1)
        BY <1>6, <4>1
      <4>3. y + 1 \notin DrivenPlaces(u, i)
        <5>1. IsRule(u.rule[t[y + 1]], TRUE)
          BY <1>1, <1>6, <4>1, <4>2 DEF Ruled
        <5>2. u.rule[t[y + 1]].kind # "driven"
          BY <5>1 DEF IsRule
        <5> QED
          BY <1>2, <5>2 DEF DrivenPlaces, Driven
      <4> QED
        BY <1>14, <4>2, <4>3
    <3>3. y \in DOMAIN u.items[i] /\ k - 1 + y \in DOMAIN v.items[p] /\ Resolves(u, i, y)
      BY <1>2, <1>6, <1>12, <1>13
    <3>4. /\ k - 1 + y \in DrivenPlaces(v, p) <=> y \in DrivenPlaces(u, i)
          /\ WeightAt(v, p, k - 1 + y) = WeightAt(u, i, y)
          /\ Resolves(v, p, k - 1 + y) /\ FixedMm(v, p, k - 1 + y) = FixedMm(u, i, y)
      BY <1>1, <1>5, <3>1, <3>2, <3>3, MemberFacts
    <3>5. CASE y \in DrivenPlaces(u, i)
      <4>1. RulesShow(u, i, f, scale)
        BY <1>11, <2>2, <3>5
      <4>2. f[y] = scale ** WeightAt(u, i, y)
        BY <3>3, <3>5, <4>1 DEF RulesShow
      <4> QED
        BY <1>12, <3>4, <3>5, <4>2 DEF MemberShows
    <3>6. CASE y \notin DrivenPlaces(u, i)
      BY <1>12, <3>4, <3>6 DEF MemberShows
    <3> QED
      BY <3>5, <3>6
  <2> QED
    BY <2>1, <2>2
<1>16. PICK h : h = [x \in k .. k + n - 1 |-> f[x - k + 1]]
  OBVIOUS
<1>17. ASSUME NEW x \in k .. k + n - 1
       PROVE  \E y \in 1 .. n : x = k - 1 + y /\ h[x] = f[y]
  <2>1. PICK y : y = x - k + 1
    OBVIOUS
  <2>2. y \in 1 .. n /\ x = k - 1 + y
    BY <1>6, <2>1
  <2> QED
    BY <1>16, <2>1, <2>2
<1>18. ASSUME NEW x \in k .. k + n - 1
       PROVE  MemberShows(v, p, x, h[x], scale) /\ v.items[p][x] \in Subtree(u, i)
  <2>1. PICK y \in 1 .. n : x = k - 1 + y /\ h[x] = f[y]
    BY <1>17
  <2>2. t[y] \in Subtree(u, i)
    <3>1. i \in Subtree(u, i)
      BY <1>1, SubtreeFacts
    <3> QED
      BY <1>1, <1>2, <1>5, <1>6, <3>1, SubtreeFacts
  <2> QED
    BY <1>8, <1>15, <2>1, <2>2
<1>a. ASSUME NEW y \in 1 .. n PROVE h[k - 1 + y] = f[y]
  <2>1. PICK x : x = k - 1 + y
    OBVIOUS
  <2>2. x \in k .. k + n - 1 /\ x - k + 1 = y
    BY <1>6, <2>1
  <2> QED
    BY <1>16, <2>1, <2>2
<1>19. Sum(h, k .. k + n - 1) = Sum(mm, k .. k + 1 - 1)
  <2>2. k \in Nat /\ k >= 1 /\ Fractional(f, 1 .. n)
    BY <1>6, <1>12 DEF Fractional
  <2>3. Sum(h, k .. k + n - 1) = Sum(f, 1 .. n)
    BY <1>6, <1>a, <2>2, SumShifted
  <2>4. Sum(f, DOMAIN u.items[i]) = mm[k]
    BY <1>1, <1>2, <1>5, <1>10, MembersFillPlace
  <2>5. Sum(f, 1 .. n) = mm[k]
    BY <1>2, <1>6, <2>4
  <2>6. Sum(mm, k .. k) = mm[k]
    <3>1. IsFraction(mm[k])
      BY <1>1, <1>4, <1>10, SizedRun
    <3> QED
      BY <2>2, <3>1, SumOfOne
  <2>7. k .. k + 1 - 1 = k .. k
    BY <1>6
  <2> QED
    BY <2>3, <2>5, <2>6, <2>7
<1>20. ShowsOff(u, p, k .. k + 1 - 1, scale)
  <2>1. k .. k + 1 - 1 = {k}
    BY <1>6
  <2> QED
    BY <1>11, <2>1
<1>21. StaysAround(u, v, i, p, k, 1, n)
  BY <1>2, <1>3, <1>8, <1>18 DEF StaysAround
<1>22. \A x \in k .. k + n - 1 : MemberShows(v, p, x, h[x], scale)
  BY <1>18
<1>23. RunTakes(u, v, K, p, k, n, h)
  BY <1>4, <1>9, <1>10, <1>19, <1>20, <1>21, <1>22, SplicedKeeps
<1> QED
  BY <1>2, <1>3, <1>10, <1>23, <1>a

\* What is left outside the joined region is where it was.
LEMMA OutsideStays ==
    ASSUME NEW u, NEW v, NEW i, NEW t, NEW K, LeavesOutside(u, v, i, t, K),
           IsFramed(v), OuterSpace(v) = OuterSpace(u), RunKeeps(u, v, K, t)
    PROVE  KeepsRooms(u, v, K) /\ \A x \in K : Spaces(v)[x] = u.space[x]
<1>1. /\ Struct(u) /\ Ruled(u) /\ IsFramed(u) /\ u.space = Spaces(u)
      /\ Struct(v) /\ Ruled(v) /\ i \in Nodes(u) /\ K = Nodes(v) \ Subtree(u, i)
      /\ t \in Divisions(v) /\ t \notin Subtree(u, i) /\ v.root = u.root
      /\ Divisions(v) \subseteq Divisions(u)
      /\ \A e \in Divisions(v) : e # t => v.items[e] = u.items[e]
  BY DEF LeavesOutside, Sized, MergeLeaves
<1>2. \A e \in Divisions(v) \cap K : RunKeeps(u, v, K, e)
  BY RestKeeps
<1>3. KeepsRooms(u, v, K)
  BY <1>2 DEF KeepsRooms, RunKeeps
<1>4. u.space[v.root] = OuterSpace(v)
  <2>1. u.root \in Nodes(u)
    BY <1>1 DEF Struct, Regions
  <2>2. Spaces(u)[u.root] = OuterSpace(u)
    BY <1>1, <2>1, SpacesFacts DEF Places
  <2> QED
    BY <1>1, <2>2
<1>5. ASSUME NEW e \in Divisions(v), NEW x \in DOMAIN v.items[e], v.items[e][x] \in K
      PROVE  e \in K
  <2>1. e \in Nodes(v)
    BY <1>1 DEF Struct, Regions
  <2>2. CASE e = t
    BY <1>1, <2>1, <2>2
  <2>3. CASE e # t
    <3>1. v.items[e] = u.items[e] /\ e \in Divisions(u)
      BY <1>1, <2>3
    <3>2. u.items[e][x] \in Range(u.items[e]) /\ u.items[e][x] \notin Subtree(u, i)
      BY <1>1, <1>5, <3>1, RunIsTyped
    <3>3. e \notin Subtree(u, i)
      BY <1>1, <3>1, <3>2, SubtreeFacts
    <3> QED
      BY <1>1, <2>1, <3>3
  <2> QED
    BY <2>2, <2>3
<1>6. \A x \in Nodes(v) \cap K : Spaces(v)[x] = u.space[x]
  BY <1>1, <1>3, <1>4, <1>5, KeptRooms
<1> QED
  BY <1>1, <1>3, <1>6

\* The member before a board is one of its run.
LEMMA BesideIsMember ==
    ASSUME NEW u, Struct(u), NEW b, CanMerge(u, b), NEW d, d = RunOf(u, b),
           NEW i, i = Beside(u, b).low
    PROVE  /\ i \in Regions(u) /\ i \in Nodes(u) /\ i \notin Boards(u)
           /\ d \in Divisions(u) /\ i \in Range(u.items[d])
<1>1. /\ b \in Boards(u) /\ PlaceOf(u, b) \in 2 .. Len(u.items[RunOf(u, b)]) - 1
      /\ i \in Regions(u)
  BY DEF CanMerge
<1>2. b \in Nodes(u) \ {u.root}
  BY <1>1 DEF Struct, Regions
<1>3. PICK s, k : s = u.items[d] /\ k = PlaceOf(u, b)
  OBVIOUS
<1>4. d \in Divisions(u) /\ IsRun(s, Nodes(u) \ {u.root})
  BY <1>2, <1>3, PlaceFacts DEF Struct
<1>5. k \in 2 .. Len(s) - 1 /\ i = s[k - 1]
  BY <1>1, <1>3 DEF Beside
<1>6. k - 1 \in 1 .. Len(s)
  BY <1>4, <1>5, RunFacts
<1> QED
  BY <1>1, <1>3, <1>4, <1>5, <1>6, RunFacts DEF Regions

\* A removal leaves every room outside the region it joins (edit.py merge_at).
LEMMA MergeKeeps ==
    ASSUME NEW u, Sized(u), Flat(u), NEW b, CanMerge(u, b), NEW v, v = MergeAt(u, b),
           NEW i, i = Beside(u, b).low, NEW K, K = Nodes(v) \ Subtree(u, i)
    PROVE  /\ Struct(v) /\ IsFramed(v) /\ Ruled(v) /\ SameStock(u, v)
           /\ OuterSpace(v) = OuterSpace(u) /\ Nodes(v) \subseteq Nodes(u)
           /\ KeepsRooms(u, v, K) /\ \A x \in K : Spaces(v)[x] = u.space[x]
<1>0. Struct(u) /\ IsFramed(u) /\ Ruled(u) /\ Fields \subseteq DOMAIN u
  BY Zenon DEF Sized, Struct
<1>1. PICK d : d = RunOf(u, b)
  OBVIOUS
<1>2. /\ Struct(v) /\ SameStock(u, v)
      /\ \/ d = u.root /\ BecomesRoot(u, v, i)
         \/ MergeLeaves(u, v, i, d) /\ JoinsRun(u, v, b, i, d)
         \/ /\ d # u.root /\ MergeLeaves(u, v, i, RunOf(u, d))
            /\ TakesPlace(u, v, d, i, RunOf(u, d)) \/ GivesRun(u, v, d, i, RunOf(u, d))
  BY <1>0, <1>1, MergeMakes
<1>3. Ruled(v)
  BY MergeIsSound
<1>4. IsFramed(v) /\ OuterSpace(v) = OuterSpace(u)
  <2>1. SameFrame(u, v)
    BY <1>0, MergeFrame
  <2> QED
    BY <1>0, <2>1, FrameIsSame
<1>5. Nodes(v) \subseteq Nodes(u)
  BY <1>0, MergeFacts
<1>6. /\ i \in Nodes(u) /\ i \notin Boards(u) /\ d \in Divisions(u) /\ i \in Range(u.items[d])
  BY <1>0, <1>1, BesideIsMember
<1>7. ASSUME NEW t, MergeLeaves(u, v, i, t) PROVE LeavesOutside(u, v, i, t, K)
  BY <1>2, <1>3, <1>6, <1>7 DEF LeavesOutside
<1>8. CASE d = u.root /\ BecomesRoot(u, v, i)
  <2>1. K = {}
    BY <1>8 DEF BecomesRoot
  <2> QED
    BY <1>2, <1>3, <1>4, <1>5, <2>1 DEF KeepsRooms
<1>9. CASE MergeLeaves(u, v, i, d) /\ JoinsRun(u, v, b, i, d)
  <2>1. LeavesOutside(u, v, i, d, K)
    BY <1>7, <1>9
  <2>2. RunKeeps(u, v, K, d)
    BY <1>1, <1>9, <2>1, JoinKeeps, TakesKeeps
  <2>3. KeepsRooms(u, v, K) /\ \A x \in K : Spaces(v)[x] = u.space[x]
    BY <1>4, <2>1, <2>2, OutsideStays
  <2> QED
    BY <1>2, <1>3, <1>4, <1>5, <2>3
<1>10. CASE /\ d # u.root /\ MergeLeaves(u, v, i, RunOf(u, d))
            /\ TakesPlace(u, v, d, i, RunOf(u, d)) \/ GivesRun(u, v, d, i, RunOf(u, d))
  <2>1. PICK p : p = RunOf(u, d)
    OBVIOUS
  <2>2. LeavesOutside(u, v, i, p, K)
    BY <1>7, <1>10, <2>1
  <2>3. /\ d \in Nodes(u) \ {u.root} /\ d \notin Boards(u)
        /\ p \in Divisions(u) /\ d \in Range(u.items[p])
    BY <1>0, <1>6, <1>10, <2>1, PlaceFacts DEF Struct, Regions
  <2>4. u.axis[d] # u.axis[p]
    BY <1>6, <2>3 DEF Flat
  <2>5. RunKeeps(u, v, K, p)
    <3>1. CASE TakesPlace(u, v, d, i, p)
      BY <1>6, <2>1, <2>2, <2>3, <3>1, PlaceKeeps, TakesKeeps
    <3>2. CASE GivesRun(u, v, d, i, p)
      BY <1>6, <1>10, <2>1, <2>2, <2>4, <3>2, GiveKeeps, TakesKeeps
    <3> QED
      BY <1>10, <2>1, <3>1, <3>2
  <2>6. KeepsRooms(u, v, K) /\ \A x \in K : Spaces(v)[x] = u.space[x]
    BY <1>4, <2>2, <2>5, OutsideStays
  <2> QED
    BY <1>2, <1>3, <1>4, <1>5, <2>6
<1> QED
  BY <1>2, <1>8, <1>9, <1>10

------------------------------------------------------------------------------
(* Several removals, one after the other.                                  *)
\* r is what the first n members of a sequence fold to.
IsAt(trail, n, r) == r = trail[n]
\* The fold of removals.
Trail == INSTANCE FoldTheorems WITH Op <- Removal, P <- IsAt

\* Removing boards is removing one after the other (edit.py remove_boards).
LEMMA RemovalsTrail ==
    ASSUME NEW u, NEW S, NEW bs \in Seq(S)
    PROVE  \E trail : /\ trail[0] = [unit |-> u, outcome |-> "done"]
                      /\ \A k \in 1 .. Len(bs) : trail[k] = Removal(0, trail[k - 1], bs[k])
                      /\ \A k \in 0 .. Len(bs) : RemoveBoards(u, SubSeq(bs, 1, k)) = trail[k]
                      /\ RemoveBoards(u, bs) = trail[Len(bs)]
<1>1. PICK base : base = [unit |-> u, outcome |-> "done"]
  OBVIOUS
<1>2. PICK N \in Nat : N = Len(bs)
  OBVIOUS
<1>3. PICK trail : /\ trail[0] = base
                   /\ \A k \in 1 .. N : trail[k] = Removal(0, trail[k - 1], bs[k])
  <2>1. \E trail : Trail!IsTrail(0, base, bs, N, trail)
    BY Trail!TrailExists, Zenon
  <2> QED
    BY <2>1 DEF Trail!IsTrail
<1>4. ASSUME NEW t \in Seq(S) PROVE RemoveBoards(u, t) = Trail!Fold(0, base, t)
  BY <1>1 DEF RemoveBoards, Removal, Trail!Fold, FoldLeft, Trail!FoldLeft, MapThenFoldSet,
         Trail!MapThenFoldSet, Max, Trail!Max
<1>5. ASSUME NEW t \in Seq(S), Len(t) <= N, \A k \in 1 .. Len(t) : t[k] = bs[k]
      PROVE  RemoveBoards(u, t) = trail[Len(t)]
  <2>1. IsAt(trail, 0, base)
    BY <1>3 DEF IsAt
  <2>2. ASSUME NEW k \in 1 .. Len(t), NEW r, IsAt(trail, k - 1, r)
        PROVE  IsAt(trail, k, Removal(0, r, t[k]))
    <3>1. k \in 1 .. N /\ t[k] = bs[k] /\ r = trail[k - 1]
      BY <1>5, <2>2 DEF IsAt
    <3>2. trail[k] = Removal(0, trail[k - 1], bs[k])
      BY <1>3, <3>1
    <3> QED
      BY <3>1, <3>2 DEF IsAt
  <2>3. IsAt(trail, Len(t), Trail!Fold(0, base, t))
    BY <2>1, <2>2, Trail!FoldInvariant
  <2> QED
    BY <1>4, <2>3 DEF IsAt
<1>6. ASSUME NEW k \in 0 .. N PROVE RemoveBoards(u, SubSeq(bs, 1, k)) = trail[k]
  <2>1. PICK t : t = SubSeq(bs, 1, k)
    OBVIOUS
  <2>2. t \in Seq(S) /\ Len(t) = k /\ \A j \in 1 .. k : t[j] = bs[j]
    BY <1>2, <2>1
  <2>3. RemoveBoards(u, t) = trail[Len(t)]
    BY <1>5, <2>2
  <2> QED
    BY <2>1, <2>2, <2>3
<1>7. RemoveBoards(u, bs) = trail[N]
  BY <1>2, <1>5
<1> QED
  BY <1>1, <1>2, <1>3, <1>6, <1>7

\* One removal.
LEMMA OneRemoval ==
    ASSUME NEW u, Solves(u), NEW S, NEW bs \in Seq(S), Len(bs) = 1, bs[1] \in Boards(u)
    PROVE  RemoveBoards(u, bs) =
               IF CanMerge(u, bs[1]) THEN [unit |-> Solved(MergeAt(u, bs[1])), outcome |-> "done"]
               ELSE [unit |-> u, outcome |-> "refused"]
<1>1. PICK trail : /\ trail[0] = [unit |-> u, outcome |-> "done"]
                   /\ \A k \in 1 .. Len(bs) : trail[k] = Removal(0, trail[k - 1], bs[k])
                   /\ RemoveBoards(u, bs) = trail[Len(bs)]
  BY RemovalsTrail, SMTT(40)
<1>2. RemoveBoards(u, bs) = Removal(0, [unit |-> u, outcome |-> "done"], bs[1])
  BY <1>1
<1>3. PICK b : b = bs[1]
  OBVIOUS
<1> QED
  BY <1>2, <1>3 DEF Removal

\* Removing one board moves nothing outside the region it joins (edit.py merge_at).
LEMMA RemovalStep ==
    ASSUME Sized(unit), Flat(unit), NEW bs \in Selections(unit), DeleteBoards(bs)
    PROVE  RemovalsMoveNothing
<1>1. PICK u : u = unit
  OBVIOUS
<1>2. bs \in Seq(Boards(u)) /\ bs # << >>
  BY <1>1 DEF Selections, SeqOf
<1>3. PICK r : r = RemoveBoards(u, bs)
  OBVIOUS
<1>4. /\ step'.of = bs
      /\ unit' = u \/ (r.outcome = "done" /\ unit' = Solved(r.unit))
  <2>1. CASE r.outcome = "done" /\ Apply("Delete Boards", bs, r.unit)
    BY <2>1 DEF Apply, Returns
  <2>2. CASE ~(r.outcome = "done" /\ Apply("Delete Boards", bs, r.unit))
    <3>1. /\ step' = [name |-> "Delete Boards", of |-> bs, outcome |-> "raised"]
          /\ UNCHANGED unit
      BY <1>1, <1>3, <2>2 DEF DeleteBoards, Removed
    <3> QED
      BY <1>1, <3>1
  <2> QED
    BY <2>1, <2>2
<1>5. SUFFICES ASSUME Len(bs) = 1
               PROVE  \A i \in Kept \ Subtree(u, Beside(u, bs[1]).low) : Unmoved(i)
  BY <1>1, <1>4 DEF RemovalsMoveNothing
<1>6. CASE unit' = u
  BY <1>1, <1>6 DEF Kept, Unmoved
<1>7. CASE r.outcome = "done" /\ unit' = Solved(r.unit)
  <2>1. PICK b : b = bs[1]
    OBVIOUS
  <2>2. b \in Boards(u)
    BY <1>2, <1>5, <2>1
  <2>3. Solves(u) /\ Sized(u) /\ Flat(u)
    BY <1>1 DEF Sized
  <2>4. r = IF CanMerge(u, b) THEN [unit |-> Solved(MergeAt(u, b)), outcome |-> "done"]
            ELSE [unit |-> u, outcome |-> "refused"]
    BY <1>2, <1>3, <1>5, <2>1, <2>2, <2>3, OneRemoval
  <2>5. CanMerge(u, b) /\ r.unit = Solved(MergeAt(u, b))
    BY <1>7, <2>4
  <2>6. PICK v, i, K : /\ v = MergeAt(u, b) /\ i = Beside(u, b).low
                       /\ K = Nodes(v) \ Subtree(u, i)
    OBVIOUS
  <2>7. Struct(v) /\ \A x \in K : Spaces(v)[x] = u.space[x]
    BY <2>3, <2>5, <2>6, MergeKeeps
  <2>8. PICK w : w = Solved(v)
    OBVIOUS
  <2>9. Struct(w) /\ Nodes(w) = Nodes(v) /\ w.space = Spaces(v)
    BY <2>7, <2>8, SolvedIs
  <2>10. PICK z : z = unit'
    OBVIOUS
  <2>11. z = Solved(w)
    BY <1>7, <2>5, <2>6, <2>8, <2>10
  <2>12. Nodes(z) = Nodes(v) /\ z.space = Spaces(v)
    <3>1. Nodes(z) = Nodes(w) /\ z.space = Spaces(w)
      BY <2>9, <2>11, SolvedIs
    <3>2. Spaces(w) = Spaces(v)
      BY <2>7, <2>8, SolvedIs
    <3> QED
      BY <2>9, <3>1, <3>2
  <2>13. \A x \in (Nodes(u) \cap Nodes(z)) \ Subtree(u, i) : z.space[x] = u.space[x]
    BY <2>6, <2>7, <2>12, SMTT(40)
  <2> QED
    BY <1>1, <2>1, <2>6, <2>10, <2>13 DEF Kept, Unmoved
<1> QED
  BY <1>4, <1>6, <1>7

\* What an edit does by its name: one whose name is not that of a property of moves
\* meets it.
OtherMoves(names) ==
    /\ "Add Board" \notin names => SplitsMoveNothing
    /\ "Delete Boards" \notin names => RemovalsMoveNothing
    /\ "Move Board" \notin names => DragsAreLocal
    /\ "Resize Unit" \notin names => ResizesAreOfOneAxis

\* Each of the four is about steps of one name.
LEMMA NameIsEnough ==
    ASSUME NEW name, step'.name = name
    PROVE  OtherMoves({name})
BY Zenon DEF OtherMoves, SplitsMoveNothing, RemovalsMoveNothing, DragsAreLocal, ResizesAreOfOneAxis

\* An edit moves what it is of and nothing else.
LEMMA EditMoves ==
    ASSUME Sized(unit), Flat(unit), Room(unit), IsFramed(unit'), Edit
    PROVE  /\ RulesMoveNothing /\ SplitsMoveNothing /\ RemovalsMoveNothing
           /\ DragsAreLocal /\ ResizesAreOfOneAxis
<1>0. RulesMoveNothing
  BY RulesStep
<1> DEFINE All == /\ SplitsMoveNothing /\ RemovalsMoveNothing
                  /\ DragsAreLocal /\ ResizesAreOfOneAxis
<1>1. ASSUME NEW r \in Bays(unit), NEW a \in Axes, Split(r, a) PROVE All
  <2>1. step'.name = "Add Board"
    BY <1>1 DEF Split, Apply, Returns
  <2>2. SplitsMoveNothing
    BY <1>1, SplitStep
  <2> QED
    BY <2>1, <2>2, NameIsEnough DEF OtherMoves
<1>2. ASSUME NEW bs \in Selections(unit), DeleteBoards(bs) PROVE All
  <2>1. step'.name = "Delete Boards"
    <3>1. PICK r : Removed(bs, r)
      BY <1>2 DEF DeleteBoards
    <3>2. step' = [name |-> "Delete Boards", of |-> bs, outcome |-> "returned"]
          \/ step' = [name |-> "Delete Boards", of |-> bs, outcome |-> "raised"]
      BY <3>1 DEF Removed, Apply, Returns
    <3>3. CASE step' = [name |-> "Delete Boards", of |-> bs, outcome |-> "returned"]
      BY <3>3
    <3>4. CASE step' = [name |-> "Delete Boards", of |-> bs, outcome |-> "raised"]
      BY <3>4
    <3> QED
      BY <3>2, <3>3, <3>4
  <2>2. RemovalsMoveNothing
    BY <1>2, RemovalStep
  <2> QED
    BY <2>1, <2>2, NameIsEnough DEF OtherMoves
<1>3. ASSUME NEW name, step'.name = name,
             name \notin {"Add Board", "Delete Boards", "Move Board", "Resize Unit"}
      PROVE  All
  BY <1>3, NameIsEnough DEF OtherMoves
<1>4. ASSUME NEW bs, NEW mm, SwapStock(bs, mm) PROVE All
  <2>1. step'.name = "Change Stock"
    BY <1>4 DEF SwapStock, Apply, Returns
  <2> QED
    BY <1>3, <2>1
<1>5. ASSUME NEW r, NEW mm, TypeSize(r, mm) PROVE All
  <2>1. step'.name = "Set Size"
    BY <1>5 DEF TypeSize, Apply, Returns
  <2> QED
    BY <1>3, <2>1
<1>6. ASSUME NEW r, NEW basis, ChangeBasis(r, basis) PROVE All
  <2>1. step'.name = "Change Basis"
    BY <1>6 DEF ChangeBasis, Apply, Returns
  <2> QED
    BY <1>3, <2>1
<1>7. ASSUME NEW r, SetLock(r) \/ ClearLock(r) PROVE All
  <2>1. step'.name = "Lock Opening" \/ step'.name = "Unlock Opening"
    <3>1. CASE SetLock(r)
      BY <3>1 DEF SetLock, Apply, Returns
    <3>2. CASE ClearLock(r)
      BY <3>2 DEF ClearLock, Apply, Returns
    <3> QED
      BY <1>7, <3>1, <3>2
  <2> QED
    BY <1>3, <2>1
<1>8. ASSUME NEW b, FreeBoard(b) PROVE All
  <2>1. step'.name = "Unlock Board"
    BY <1>8 DEF FreeBoard, Apply, Returns
  <2> QED
    BY <1>3, <2>1
<1>9. ASSUME NEW b \in Boards(unit), NEW mm \in LowFaces, DragTo(b, mm) PROVE All
  <2>1. step'.name = "Move Board"
    BY <1>9 DEF DragTo, Apply, Returns
  <2>2. DragsAreLocal
    BY <1>9, DragStep
  <2> QED
    BY <2>1, <2>2, NameIsEnough DEF OtherMoves
<1>10. ASSUME NEW a \in Axes, NEW mm \in UnitSizes, Resize(a, mm) PROVE All
  <2>1. step'.name = "Resize Unit"
    BY <1>10 DEF Resize, Apply, Returns
  <2>2. ResizesAreOfOneAxis
    BY <1>10, ResizeStep
  <2> QED
    BY <2>1, <2>2, NameIsEnough DEF OtherMoves
<1>11. ASSUME NEW a, NEW side, SetFixedSide(a, side) PROVE All
  <2>1. step'.name = "Set Fixed Point"
    BY <1>11 DEF SetFixedSide, Apply, Returns
  <2> QED
    BY <1>3, <2>1
<1>12. All
  BY <1>1, <1>2, <1>4, <1>5, <1>6, <1>7, <1>8, <1>9, <1>10, <1>11 DEF Edit
<1> QED
  BY <1>0, <1>12

\* Opened with no division in a run along its own axis, a unit's edits move what they
\* are of and nothing else: locks, bases and the fixed point nothing, a split nothing that
\* was there, a removal nothing outside the region it joins, a drag only what lies
\* between the two regions it resizes, a resize nothing along the other axis (edit.py).
THEOREM EditsAreLocal ==
    ASSUME \A u \in StartUnits : Flat(u)
    PROVE  Spec => EditsMoveTheirOwn
<1>1. Init => SizedInv /\ Flat(unit)
  BY SizedStart, StartFacts DEF Keeps
<1>2. SizedInv /\ Flat(unit) /\ [Next]_vars => (SizedInv /\ Flat(unit))'
  <2>1. SUFFICES ASSUME SizedInv, Flat(unit), [Next]_vars PROVE (SizedInv /\ Flat(unit))'
    OBVIOUS
  <2>2. SizedInv'
    BY <2>1, SizedStep
  <2>3. Keeps(unit, unit')
    BY <2>1, StepFacts DEF SizedInv, FrameInv
  <2> QED
    BY <2>1, <2>2, <2>3 DEF Keeps
<1>3. SizedInv /\ Flat(unit) /\ SizedInv' /\ [Next]_vars =>
        [/\ RulesMoveNothing /\ SplitsMoveNothing /\ RemovalsMoveNothing
         /\ DragsAreLocal /\ ResizesAreOfOneAxis]_vars
  <2>1. SUFFICES ASSUME SizedInv, Flat(unit), SizedInv', Next
                 PROVE  /\ RulesMoveNothing /\ SplitsMoveNothing /\ RemovalsMoveNothing
                        /\ DragsAreLocal /\ ResizesAreOfOneAxis
    OBVIOUS
  <2>2. edits < MaxEdits /\ Edit
    BY <2>1 DEF Next
  <2>3. Sized(unit) /\ Inv
    BY <2>1 DEF SizedInv, FrameInv
  <2>4. Room(unit)
    BY <2>2, <2>3, RoomForSplit
  <2>5. IsFramed(unit')
    BY <2>1 DEF SizedInv, FrameInv
  <2> QED
    BY <2>1, <2>2, <2>3, <2>4, <2>5, EditMoves
<1> QED
  BY <1>1, <1>2, <1>3, PTL DEF Spec, EditsMoveTheirOwn

------------------------------------------------------------------------------
(* The rules a removal leaves.                                             *)
\* v has nodes of u, and of them i alone another rule, and what was in i where it is a
\* division whose members join another run.
MergeRules(u, v, i) ==
    /\ Nodes(v) \subseteq Nodes(u) /\ Boards(v) = Boards(u) \cap Nodes(v)
    /\ \A y \in Nodes(v) : y # i =>
          \/ v.rule[y] = u.rule[y]
          \/ /\ i \in Divisions(u) /\ i \notin Nodes(v) /\ y \in Range(u.items[i])
             /\ \E p, k : v.rule[y] = SplicedRules(u, p, k, i)[y]

\* A collapsed division leaves those.
LEMMA PromotedRules ==
    ASSUME NEW u, Struct(u), NEW j, Struct(j), NEW d, d \in Divisions(u),
           NEW i, i \in Regions(u), i \in Range(u.items[d]),
           JoinDone(u, j, d, i), Range(j.items[d]) = {i}, NEW v, v = Promoted(u, j, d, i)
    PROVE  MergeRules(u, v, i)
<1>1. PICK p, k, rule : p = RunOf(u, d) /\ k = PlaceOf(u, d) /\ rule = u.rule[d]
  OBVIOUS
<1>2. PICK x : x = Alone(j, d, i, rule)
  OBVIOUS
<1>3. /\ Nodes(j) \subseteq Nodes(u) /\ Boards(j) = Boards(u) \cap Nodes(j)
      /\ \A y \in Nodes(j) : y # i => j.rule[y] = u.rule[y]
      /\ d \in Divisions(j) /\ i # d /\ Divisions(j) = Divisions(u) \cap Nodes(j)
      /\ \A e \in Divisions(j) : e # d => j.items[e] = u.items[e]
  BY DEF JoinDone
<1>4. i \in Nodes(j) /\ d \in Nodes(j)
  <2>1. IsRun(j.items[d], Nodes(j) \ {j.root})
    BY <1>3 DEF Struct
  <2> QED
    BY <2>1, <1>3, RunFacts
<1>5. Collapses(j, d, i)
  BY <1>3, <1>4 DEF Collapses, Regions
<1>6. IsAlone(j, d, i, rule, x)
  BY <1>2, <1>5, AloneFacts
<1>7. d \notin Boards(u) /\ i \notin Boards(u) /\ i \in Nodes(u)
  BY DEF Struct, Regions
<1>8. /\ Fields \subseteq DOMAIN x
      /\ Nodes(x) \subseteq Nodes(u) /\ Boards(x) = Boards(u) \cap Nodes(x)
      /\ \A y \in Nodes(x) : y # i => x.rule[y] = u.rule[y]
  BY <1>3, <1>6, <1>7 DEF IsAlone
<1>9. PICK here, in : /\ here = [x EXCEPT !.items[p][k] = i]
                      /\ in = [x EXCEPT !.items[p] = Splice(@, k, 1, u.items[i]),
                                        !.rule = Over(@, SplicedRules(u, p, k, i))]
  OBVIOUS
<1>10. PICK out, top : out = Without(in, {i}) /\ top = [x EXCEPT !.root = i]
  OBVIOUS
<1>11. v = IF d = u.root THEN top
           ELSE IF i \notin Divisions(u) \/ u.axis[i] # u.axis[p] THEN here ELSE out
  BY <1>1, <1>2, <1>9, <1>10 DEF Promoted, Alone
<1>12. ASSUME v.rule = x.rule, v.thick = x.thick PROVE MergeRules(u, v, i)
  <2>1. Nodes(v) = Nodes(x) /\ Boards(v) = Boards(x)
    BY <1>12 DEF Nodes, Boards
  <2> QED
    BY <1>8, <1>12, <2>1 DEF MergeRules
<1>13. CASE d = u.root
  <2>1. v = top
    BY <1>11, <1>13
  <2>2. top.rule = x.rule /\ top.thick = x.thick
    BY <1>8, <1>10 DEF Fields
  <2> QED
    BY <1>12, <2>1, <2>2
<1>14. CASE d # u.root /\ (i \notin Divisions(u) \/ u.axis[i] # u.axis[p])
  <2>1. v = here
    BY <1>11, <1>14
  <2>2. here.rule = x.rule /\ here.thick = x.thick
    BY <1>8, <1>9 DEF Fields
  <2> QED
    BY <1>12, <2>1, <2>2
<1>15. CASE d # u.root /\ i \in Divisions(u) /\ u.axis[i] = u.axis[p]
  <2>1. v = out
    BY <1>11, <1>15
  <2>2. PICK f, g, rules : /\ f = SplicedRules(u, p, k, i) /\ g = x.rule
                           /\ rules = Over(g, f)
    OBVIOUS
  <2>3. in.rule = rules /\ in.thick = x.thick /\ Fields \subseteq DOMAIN in
    BY <2>2, <1>8, <1>9 DEF Fields
  <2>4. DOMAIN f = Range(u.items[i])
    BY <2>2, SplicedRulesFacts
  <2>5. /\ DOMAIN rules = DOMAIN g \cup DOMAIN f
        /\ \A y \in DOMAIN f : rules[y] = f[y]
        /\ \A y \in DOMAIN g \ DOMAIN f : rules[y] = g[y]
    <3>1. /\ DOMAIN Over(g, f) = DOMAIN g \cup DOMAIN f
          /\ \A y \in DOMAIN f : Over(g, f)[y] = f[y]
          /\ \A y \in DOMAIN g \ DOMAIN f : Over(g, f)[y] = g[y]
      BY OverFacts
    <3> QED
      BY <2>2, <3>1
  <2>6. Range(u.items[i]) \subseteq Nodes(x)
    <3>1. i \in Divisions(j) /\ j.items[i] = u.items[i]
      BY <1>15, <1>3, <1>4
    <3>2. IsRun(j.items[i], Nodes(j) \ {j.root})
      BY <3>1 DEF Struct
    <3>3. Range(u.items[i]) \subseteq Nodes(j)
      BY <3>1, <3>2, RunFacts
    <3>4. d \notin Range(u.items[i])
      BY <1>15, AboveIsOutside, SubtreeFacts
    <3> QED
      BY <3>3, <3>4, <1>6 DEF IsAlone
  <2>7. Nodes(in) = Nodes(x) /\ Boards(in) = Boards(x)
    BY <2>2, <2>3, <2>4, <2>5, <2>6 DEF Nodes, Boards
  <2>8. IsWithout(in, {i}, out)
    BY <2>3, <1>10, WithoutFacts
  <2>9. /\ Nodes(v) = Nodes(x) \ {i} /\ Boards(v) = Boards(x) \ {i}
        /\ \A y \in Nodes(v) : v.rule[y] = rules[y]
    BY <2>1, <2>3, <2>7, <2>8 DEF IsWithout
  <2>10. ASSUME NEW y \in Nodes(v), y # i
         PROVE  \/ v.rule[y] = u.rule[y]
                \/ /\ i \in Divisions(u) /\ i \notin Nodes(v) /\ y \in Range(u.items[i])
                   /\ \E q, l : v.rule[y] = SplicedRules(u, q, l, i)[y]
    <3>1. CASE y \in Range(u.items[i])
      <4>1. v.rule[y] = f[y]
        BY <2>4, <2>5, <2>9, <3>1
      <4>2. v.rule[y] = SplicedRules(u, p, k, i)[y]
        BY <2>2, <4>1
      <4> QED
        BY <1>15, <2>9, <3>1, <4>2
    <3>2. CASE y \notin Range(u.items[i])
      <4>1. y \in DOMAIN g \ DOMAIN f
        BY <2>2, <2>4, <2>9, <3>2 DEF Nodes
      <4> QED
        BY <1>8, <2>2, <2>5, <2>9, <2>10, <4>1
    <3> QED
      BY <3>1, <3>2
  <2> QED
    BY <1>7, <1>8, <2>9, <2>10 DEF MergeRules
<1> QED
  BY <1>13, <1>14, <1>15

\* So does a removal.
LEMMA RemovalRules ==
    ASSUME NEW u, Struct(u), NEW b, CanMerge(u, b), NEW v, v = MergeAt(u, b),
           NEW i, i = Beside(u, b).low
    PROVE  MergeRules(u, v, i)
<1>1. PICK j, d : j = JoinedAt(u, b) /\ d = RunOf(u, b)
  OBVIOUS
<1>2. /\ Struct(j) /\ JoinDone(u, j, d, i)
      /\ LeavesOne(u, b) => Range(j.items[d]) = {i}
  BY <1>1, JoinedIs
<1>3. v = IF LeavesOne(u, b) THEN Promoted(u, j, d, i) ELSE j
  BY <1>1 DEF MergeAt, LeftOf, JoinedAt, LeavesOne
<1>4. i \in Regions(u) /\ d \in Divisions(u) /\ i \in Range(u.items[d])
  BY <1>1, BesideIsMember
<1>5. CASE ~LeavesOne(u, b)
  <2>1. v = j
    BY <1>3, <1>5
  <2> QED
    BY <1>2, <2>1 DEF JoinDone, MergeRules
<1>6. CASE LeavesOne(u, b)
  BY <1>2, <1>3, <1>4, <1>6, PromotedRules
<1> QED
  BY <1>5, <1>6

------------------------------------------------------------------------------
(* Locks.                                                                  *)
\* The locked regions of u outside S that are in v have the rules they had.
HoldsOff(u, v, S) ==
    \A r \in (Nodes(u) \cap Nodes(v)) \ S :
        Locked(u, r) => Locked(v, r) /\ v.rule[r] = u.rule[r]

\* An edit that leaves rules and boards leaves locks,
LEMMA SameRulesHold ==
    ASSUME NEW u, NEW v, v.rule = u.rule, v.thick = u.thick, NEW S
    PROVE  HoldsOff(u, v, S)
BY DEF HoldsOff, Locked, Boards

\* and so do two, where the second makes no node the first took away.
LEMMA HoldsIsTransitive ==
    ASSUME NEW u, NEW v, NEW w, NEW S, HoldsOff(u, v, S), HoldsOff(v, w, S),
           Nodes(u) \cap Nodes(w) \subseteq Nodes(v)
    PROVE  HoldsOff(u, w, S)
BY DEF HoldsOff

\* Off fewer regions they leave more locks.
LEMMA HoldsOffMore ==
    ASSUME NEW u, NEW v, NEW S, NEW T, HoldsOff(u, v, S), S \subseteq T
    PROVE  HoldsOff(u, v, T)
BY DEF HoldsOff

\* A locked region shows the size it is locked at (solve.py distribute; edit.py
\* measure).
LEMMA LockShows ==
    ASSUME NEW u, Sized(u), NEW r \in Nodes(u) \ {u.root}, Locked(u, r)
    PROVE  LockedMm(u, r) = u.rule[r].mm
<1>1. Struct(u) /\ Ruled(u)
  BY DEF Sized
<1>2. PICK d, k, x, rule : d = RunOf(u, r) /\ k = PlaceOf(u, r) /\ x = Extent(u, r) /\ rule = u.rule[r]
  OBVIOUS
<1>3. d \in Divisions(u) /\ k \in DOMAIN u.items[d] /\ u.items[d][k] = r
  BY <1>1, <1>2, PlaceInRun
<1>4. rule.kind = "fixed" /\ IsFraction(rule.mm) /\ rule.basis \in Bases
  <2>1. IsRule(rule, FALSE) /\ rule.kind = "fixed"
    BY <1>1, <1>2, RegionsRule DEF Locked, Regions
  <2> QED
    BY <2>1 DEF IsRule
<1>5. x = FixedMm(u, d, k) /\ Resolves(u, d, k)
  <2>1. PICK mm, span : mm = ShownSizes(u, d) /\ span = u.space[d].size[u.axis[d]]
    OBVIOUS
  <2>2. /\ mm[k] = Distribute(u, d, span)[k] /\ mm[k] = Extent(u, u.items[d][k])
        /\ Resolves(u, d, k)
    BY <1>3, <2>1, SizedRun
  <2>3. k \notin DrivenPlaces(u, d)
    BY <1>2, <1>3, <1>4 DEF DrivenPlaces, Driven
  <2>4. Distribute(u, d, span)[k] = FixedMm(u, d, k)
    BY <1>3, <2>3 DEF Distribute
  <2> QED
    BY <1>2, <1>3, <2>2, <2>4
<1>6. CASE rule.basis = "clear"
  <2>1. FixedMm(u, d, k) = rule.mm
    BY <1>2, <1>3, <1>4, <1>6 DEF FixedMm
  <2> QED
    BY <1>2, <1>5, <1>6, <2>1 DEF LockedMm, SizeInBasis
<1>7. CASE rule.basis = "with_next"
  <2>1. PICK t : t = u.thick[u.items[d][k + 1]]
    OBVIOUS
  <2>2. u.items[d][k + 1] \in Boards(u)
    BY <1>2, <1>3, <1>4, <1>5, <1>7 DEF Resolves
  <2>3. IsFraction(t)
    BY <1>1, <2>1, <2>2, SMTT(40) DEF Ruled
  <2>4. x = rule.mm -- t
    BY <1>2, <1>3, <1>4, <1>5, <1>7, <2>1 DEF FixedMm
  <2>5. LockedMm(u, r) = x ++ t
    BY <1>2, <1>7, <2>1 DEF LockedMm, SizeInBasis
  <2> QED
    BY <1>2, <1>4, <2>3, <2>4, <2>5, AddFacts
<1> QED
  BY <1>4, <1>6, <1>7 DEF Bases

\* A removal leaves every lock but those of the two regions it joins.
LEMMA RemovalHolds ==
    ASSUME NEW u, Struct(u), NEW b, CanMerge(u, b), NEW v, v = MergeAt(u, b)
    PROVE  HoldsOff(u, v, Range(Beside(u, b)))
<1>1. PICK i : i = Beside(u, b).low
  OBVIOUS
<1>2. i \in Range(Beside(u, b))
  BY <1>1 DEF Beside, Range
<1>3. /\ Boards(v) = Boards(u) \cap Nodes(v)
      /\ \A y \in Nodes(v) : y # i =>
            \/ v.rule[y] = u.rule[y]
            \/ /\ y \in Range(u.items[i])
               /\ \E p, k : v.rule[y] = SplicedRules(u, p, k, i)[y]
  BY <1>1, RemovalRules DEF MergeRules
<1>4. ASSUME NEW r \in Nodes(v), r # i, Locked(u, r) PROVE v.rule[r] = u.rule[r]
  <2>1. ASSUME r \in Range(u.items[i]), NEW p, NEW k
        PROVE  SplicedRules(u, p, k, i)[r] = u.rule[r]
    BY <1>4, <2>1 DEF SplicedRules, Locked, Driven
  <2> QED
    BY <1>3, <1>4, <2>1
<1>5. ASSUME NEW r \in Nodes(v), r # i, Locked(u, r) PROVE Locked(v, r)
  BY <1>3, <1>4, <1>5 DEF Locked
<1> QED
  BY <1>2, <1>4, <1>5 DEF HoldsOff

\* What the n-th of several removals is beside.
BesideAt(u, bs, n) ==
    LET left == RemoveBoards(u, SubSeq(bs, 1, n - 1)).unit
    IN  IF CanMerge(left, bs[n]) THEN Range(Beside(left, bs[n])) ELSE {}

\* Several removals leave every lock but those beside one of them, in the layout those
\* before it left (edit.py remove_boards).
LEMMA RemovalsHold ==
    ASSUME NEW u, Sized(u), NEW S, NEW bs \in Seq(S),
           NEW T, T = UNION {BesideAt(u, bs, n) : n \in DOMAIN bs}
    PROVE  HoldsOff(u, RemoveBoards(u, bs).unit, T)
<1>0. Struct(u)
  BY DEF Sized
<1>1. PICK N \in Nat : N = Len(bs) /\ DOMAIN bs = 1 .. N
  OBVIOUS
<1>2. PICK trail : /\ trail[0] = [unit |-> u, outcome |-> "done"]
                   /\ \A k \in 1 .. N : trail[k] = Removal(0, trail[k - 1], bs[k])
                   /\ \A k \in 0 .. N : RemoveBoards(u, SubSeq(bs, 1, k)) = trail[k]
                   /\ RemoveBoards(u, bs) = trail[N]
  BY <1>1, RemovalsTrail
<1>3. ASSUME NEW k \in 0 .. N
      PROVE  Struct(trail[k].unit) /\ Nodes(trail[k].unit) \subseteq Nodes(u)
  <2>1. PICK t : t = SubSeq(bs, 1, k)
    OBVIOUS
  <2>2. t \in Seq(S)
    BY <1>1, <2>1
  <2>3. LaidOut(RemoveBoards(u, t).unit) /\ Nodes(RemoveBoards(u, t).unit) \subseteq Nodes(u)
    BY <1>0, <2>2, RemovalsAreSound, RemovalFacts
  <2> QED
    BY <1>2, <2>1, <2>3 DEF LaidOut
<1> DEFINE Upto(k) == k <= N => /\ DOMAIN trail[k] = {"unit", "outcome"}
                                /\ HoldsOff(u, trail[k].unit, T)
           All == {k \in Nat : Upto(k)}
<1>4. Upto(0)
  <2>1. trail[0].unit = u /\ DOMAIN trail[0] = {"unit", "outcome"}
    BY <1>2
  <2> QED
    BY <2>1, SameRulesHold
<1>5. ASSUME NEW k \in Nat, Upto(k) PROVE Upto(k + 1)
  <2>1. SUFFICES ASSUME k + 1 <= N
                 PROVE  /\ DOMAIN trail[k + 1] = {"unit", "outcome"}
                        /\ HoldsOff(u, trail[k + 1].unit, T)
    OBVIOUS
  <2>2. k \in 0 .. N /\ k + 1 \in 1 .. N /\ (k + 1) - 1 = k /\ k + 1 \in 0 .. N
    BY <2>1
  <2>3. PICK r, w, b, c : r = trail[k] /\ w = r.unit /\ b = bs[k + 1] /\ c = trail[k + 1]
    OBVIOUS
  <2>4. DOMAIN r = {"unit", "outcome"} /\ HoldsOff(u, w, T)
    BY <1>5, <2>1, <2>3
  <2>5. c = Removal(0, r, b)
    BY <1>2, <2>2, <2>3
  <2>6. PICK m : m = Solved(MergeAt(w, b))
    OBVIOUS
  <2>7. \/ c = r
        \/ c = [r EXCEPT !.outcome = "raised"]
        \/ c = [r EXCEPT !.outcome = "refused"]
        \/ (CanMerge(w, b) /\ c = [r EXCEPT !.unit = m])
    BY <2>3, <2>5, <2>6 DEF Removal
  <2>8. /\ DOMAIN c = {"unit", "outcome"}
        /\ (c.unit = w) \/ (CanMerge(w, b) /\ c.unit = m)
    <3>1. DOMAIN r = {"unit", "outcome"} /\ r.unit = w
      BY <2>3, <2>4
    <3>2. CASE c = r
      BY <3>1, <3>2
    <3>3. CASE c = [r EXCEPT !.outcome = "raised"]
      <4>1. DOMAIN c = {"unit", "outcome"} /\ c.unit = w
        BY <3>1, <3>3
      <4> QED
        BY <4>1
    <3>4. CASE c = [r EXCEPT !.outcome = "refused"]
      <4>1. DOMAIN c = {"unit", "outcome"} /\ c.unit = w
        BY <3>1, <3>4
      <4> QED
        BY <4>1
    <3>5. CASE CanMerge(w, b) /\ c = [r EXCEPT !.unit = m]
      <4>1. DOMAIN c = {"unit", "outcome"} /\ c.unit = m
        BY <3>1, <3>5
      <4> QED
        BY <3>5, <4>1
    <3> QED
      BY <2>7, <3>2, <3>3, <3>4, <3>5
  <2>9. ASSUME CanMerge(w, b) PROVE HoldsOff(u, m, T)
    <3>1. Struct(w) /\ Nodes(w) \subseteq Nodes(u)
      BY <1>3, <2>2, <2>3
    <3>2. PICK v : v = MergeAt(w, b)
      OBVIOUS
    <3>3. Struct(v) /\ Nodes(v) \subseteq Nodes(w)
      BY <2>9, <3>1, <3>2, MergeFacts DEF Keeps
    <3>4. HoldsOff(w, v, Range(Beside(w, b)))
      BY <2>9, <3>1, <3>2, RemovalHolds
    <3>5. Range(Beside(w, b)) \subseteq T
      <4>1. RemoveBoards(u, SubSeq(bs, 1, (k + 1) - 1)).unit = w
        BY <1>2, <2>2, <2>3
      <4>2. BesideAt(u, bs, k + 1) = Range(Beside(w, b))
        BY <2>3, <2>9, <4>1 DEF BesideAt
      <4> QED
        BY <1>1, <2>2, <4>2
    <3>6. HoldsOff(w, v, T)
      BY <3>4, <3>5, HoldsOffMore
    <3>7. HoldsOff(v, m, T) /\ Nodes(m) = Nodes(v)
      <4>1. m.rule = v.rule /\ m.thick = v.thick /\ Nodes(m) = Nodes(v)
        BY <2>6, <3>2, <3>3, SolvedIs
      <4> QED
        BY <4>1, SameRulesHold
    <3>8. HoldsOff(w, m, T)
      BY <3>6, <3>7, HoldsIsTransitive
    <3> QED
      BY <2>4, <3>3, <3>7, <3>8, HoldsIsTransitive
  <2> QED
    BY <2>3, <2>4, <2>8, <2>9
<1>6. Upto(N)
  <2> HIDE DEF Upto
  <2>1. 0 \in All /\ \A k \in Nat : k \in All => k + 1 \in All
    BY <1>4, <1>5
  <2>2. Nat \subseteq All
    BY <2>1, Trail!Induction
  <2> QED
    BY <2>2
<1> QED
  BY <1>2, <1>6

\* Another rule for one region leaves every other lock.
LEMMA OneRuleHolds ==
    ASSUME NEW u, Fields \subseteq DOMAIN u, NEW r \in Nodes(u), NEW rule,
           NEW v, v = Solved(WithRule(u, r, rule))
    PROVE  /\ HoldsOff(u, v, {r}) /\ Fields \subseteq DOMAIN v
           /\ Nodes(v) = Nodes(u)
<1>1. PICK w, s : w = WithRule(u, r, rule) /\ s = Spaces(w)
  OBVIOUS
<1>2. v = [w EXCEPT !.space = s]
  BY <1>1 DEF Solved
<1>3. w.rule = [u.rule EXCEPT ![r] = rule] /\ w.thick = u.thick /\ Fields \subseteq DOMAIN w
  BY <1>1 DEF WithRule, Fields
<1>4. v.rule = w.rule /\ v.thick = w.thick /\ Fields \subseteq DOMAIN v
  BY <1>2, <1>3 DEF Fields
<1>5. DOMAIN v.rule = DOMAIN u.rule /\ \A x \in DOMAIN u.rule : x # r => v.rule[x] = u.rule[x]
  BY <1>3, <1>4
<1> QED
  BY <1>3, <1>4, <1>5 DEF HoldsOff, Locked, Nodes, Boards

\* What holds of a unit after n holders of its board are unlocked, d the unit before and
\* what is unlocked.
HeldSoFar(d, n, v) ==
    HoldsOff(d[1], v, d[2]) /\ Fields \subseteq DOMAIN v /\ Nodes(v) = Nodes(d[1])
\* The fold of these.
Letting == INSTANCE FoldTheorems WITH Op <- Freed, P <- HeldSoFar

\* Freeing a board leaves every lock but those that held it (session.py unlock_board).
LEMMA FreeingHolds ==
    ASSUME NEW u, Struct(u), NEW b \in Boards(u), Freeable(u, b)
    PROVE  HoldsOff(u, UnlockHolders(u, b), Range(Holders(u, b)))
<1>1. PICK s, S, d : s = Holders(u, b) /\ S = Range(s) /\ d = <<u, S>>
  OBVIOUS
<1>2. s \in Seq(Regions(u) \ {u.root})
  BY <1>1, HoldersInRun
<1>3. UnlockHolders(u, b) = Letting!Fold(0, u, s)
  BY <1>1 DEF UnlockHolders, Freed, Letting!Fold, FoldLeft, Letting!FoldLeft, MapThenFoldSet,
         Letting!MapThenFoldSet, Max, Letting!Max
<1>4. d[1] = u /\ d[2] = S
  BY <1>1
<1>5. HeldSoFar(d, 0, u)
  <2>1. HoldsOff(u, u, S)
    BY SameRulesHold
  <2> QED
    BY <1>4, <2>1 DEF HeldSoFar, Struct
<1>6. ASSUME NEW k \in 1 .. Len(s), NEW v, HeldSoFar(d, k - 1, v)
      PROVE  HeldSoFar(d, k, Freed(0, v, s[k]))
  <2>1. PICK r : r = s[k]
    OBVIOUS
  <2>2. r \in Nodes(u) /\ r \in S
    <3>1. k \in DOMAIN s
      BY <1>2
    <3> QED
      BY <1>1, <1>2, <2>1, <3>1 DEF Regions, Range
  <2>3. HoldsOff(u, v, S) /\ Fields \subseteq DOMAIN v /\ Nodes(v) = Nodes(u)
    BY <1>4, <1>6 DEF HeldSoFar
  <2>4. PICK rule : rule = SharingRule(v, RunOf(v, r), {PlaceOf(v, r)}, Extent(v, r))
    OBVIOUS
  <2>5. PICK w : w = Solved(WithRule(v, r, rule))
    OBVIOUS
  <2>6. w = Freed(0, v, r)
    BY <2>4, <2>5 DEF Freed, Unlock
  <2>7. HoldsOff(v, w, {r}) /\ Fields \subseteq DOMAIN w /\ Nodes(w) = Nodes(v)
    <3>1. r \in Nodes(v) /\ Fields \subseteq DOMAIN v
      BY <2>2, <2>3
    <3> QED
      BY ONLY <2>5, <3>1, OneRuleHolds
  <2>8. HoldsOff(v, w, S)
    BY <2>2, <2>7, HoldsOffMore
  <2>9. HoldsOff(u, w, S)
    BY <2>3, <2>8, HoldsIsTransitive
  <2> QED
    BY <1>4, <2>1, <2>3, <2>6, <2>7, <2>9 DEF HeldSoFar
<1>7. HeldSoFar(d, Len(s), Letting!Fold(0, u, s))
  BY <1>2, <1>5, <1>6, Letting!FoldInvariant
<1> QED
  BY <1>1, <1>3, <1>4, <1>7 DEF HeldSoFar

\* A split leaves every lock but that of the bay,
LEMMA SplitHolds ==
    ASSUME NEW u, Struct(u), Room(u), NEW r, NEW a, CanSplit(u, r, a),
           NEW v, v = SplitRegion(u, r, a)
    PROVE  HoldsOff(u, v, {r})
<1>1. PICK b, l, h, n, half : IsSplit(u, v, r, a, b, l, h, n, half)
  BY SplitMakes
<1>2. /\ b \notin Nodes(u) /\ Boards(v) = Boards(u) \cup {b}
      /\ \A i \in Nodes(u) \ {r} : v.rule[i] = u.rule[i]
  BY <1>1 DEF IsSplit
<1> QED
  BY <1>2 DEF HoldsOff, Locked

\* and a drag every lock: it resizes what is unlocked.
LEMMA DragHolds ==
    ASSUME NEW u, Sized(u), NEW b \in Boards(u), Movable(u, b), NEW mm, IsFraction(mm),
           NEW v, v = MoveBoard(u, b, mm)
    PROVE  HoldsOff(u, v, {})
<1>0. Struct(u) /\ Ruled(u)
  BY DEF Sized
<1>1. PICK d, f : d = RunOf(u, b) /\ f = ShownSizes(u, d)
  OBVIOUS
<1>2. PICK x, y : DragsBetween(u, b, x, y)
  BY <1>0, BesidePlaces
<1>3. PICK s : IsDrag(u, v, d, x, y, s)
  BY <1>1, <1>2, DragMakes
<1>4. PICK i, j : i = u.items[d][x] /\ j = u.items[d][y]
  OBVIOUS
<1>5. /\ Driven(u, i) /\ Driven(u, j) /\ v.thick = u.thick
      /\ \A r \in Nodes(u) \ {i, j} : v.rule[r] = u.rule[r]
  BY <1>3, <1>4 DEF IsDrag, DrivenPlaces
<1> QED
  BY <1>5 DEF HoldsOff, Locked, Driven, Boards

\* Solving leaves every lock.
LEMMA SolvedHolds ==
    ASSUME NEW u, NEW v, Struct(v), NEW S, HoldsOff(u, v, S)
    PROVE  HoldsOff(u, Solved(v), S)
<1>1. PICK w : w = Solved(v)
  OBVIOUS
<1>2. w.rule = v.rule /\ w.thick = v.thick /\ Nodes(w) = Nodes(v)
  BY <1>1, SolvedIs
<1>3. HoldsOff(v, w, S)
  BY <1>2, SameRulesHold
<1> QED
  BY <1>1, <1>2, <1>3, HoldsIsTransitive

\* The regions an edit leaves the locks of: what it is not of.
EditHolds == \E S : HoldsOff(unit, unit', S) /\ \A r \in S : Concerned(r)

\* It does.
LEMMA EditsHold ==
    ASSUME Inv, Sized(unit), edits < MaxEdits, Edit
    PROVE  EditHolds
<1> USE DEF Apply, Returns
<1>0. Struct(unit) /\ Ruled(unit) /\ Fields \subseteq DOMAIN unit
  BY DEF Inv, Sized, Struct
<1>a. ASSUME NEW c, Struct(c), NEW S, HoldsOff(unit, c, S), unit' = Solved(c),
             \A r \in S : Concerned(r)
      PROVE  EditHolds
  BY <1>a, SolvedHolds DEF EditHolds
<1>b. ASSUME NEW c, c.rule = unit.rule, DOMAIN c.thick = DOMAIN unit.thick, Struct(c),
             unit' = Solved(c)
      PROVE  EditHolds
  <2>1. HoldsOff(unit, c, {})
    BY <1>b DEF HoldsOff, Locked, Boards
  <2> QED
    BY <1>a, <1>b, <2>1
<1>c. ASSUME NEW r \in Nodes(unit), NEW rule, unit' = Solved(WithRule(unit, r, rule)),
             step'.of = <<r>>
      PROVE  EditHolds
  <2>1. HoldsOff(unit, unit', {r})
    <3>1. PICK v : v = Solved(WithRule(unit, r, rule))
      OBVIOUS
    <3> QED
      BY <1>0, <1>c, <3>1, OneRuleHolds
  <2>2. r \in Range(step'.of)
    BY <1>c DEF Range
  <2>3. \A x \in {r} : Concerned(x)
    BY <2>2 DEF Concerned
  <2> QED
    BY <2>1, <2>3 DEF EditHolds
<1>1. ASSUME NEW r \in Bays(unit), NEW a \in Axes, Split(r, a) PROVE EditHolds
  <2>1. Room(unit) /\ CanSplit(unit, r, a)
    BY <1>1, RoomForSplit DEF Split
  <2>2. PICK c : c = SplitRegion(unit, r, a)
    OBVIOUS
  <2>3. Struct(c)
    BY <1>0, <2>1, <2>2, SplitFacts DEF Keeps
  <2>4. HoldsOff(unit, c, {r})
    BY <1>0, <2>1, <2>2, SplitHolds
  <2>5. step'.of = <<r>>
    BY <1>1 DEF Split
  <2>6. r \in Range(step'.of)
    BY <2>5 DEF Range
  <2>7. \A x \in {r} : Concerned(x)
    BY <2>6 DEF Concerned
  <2>8. unit' = Solved(c)
    BY <1>1, <2>2 DEF Split
  <2> QED
    BY ONLY <1>a, <2>3, <2>4, <2>7, <2>8
<1>2. ASSUME NEW bs \in Selections(unit), DeleteBoards(bs) PROVE EditHolds
  <2>1. PICK r : r = RemoveBoards(unit, bs)
    OBVIOUS
  <2>2. bs \in Seq(Boards(unit))
    BY DEF Selections, SeqOf
  <2>3. Struct(r.unit)
    BY <1>0, <2>1, <2>2, RemovalsAreSound DEF LaidOut
  <2>4. PICK T : T = UNION {BesideAt(unit, bs, n) : n \in DOMAIN bs}
    OBVIOUS
  <2>5. HoldsOff(unit, r.unit, T)
    BY <2>1, <2>2, <2>4, RemovalsHold
  <2>6. T = RemovedBeside(bs)
    BY <2>4, Zenon DEF RemovedBeside, BesideAt
  <2>7. step'.name = "Delete Boards" /\ step'.of = bs
    <3>1. \/ step' = [name |-> "Delete Boards", of |-> bs, outcome |-> "returned"]
          \/ step' = [name |-> "Delete Boards", of |-> bs, outcome |-> "raised"]
      BY <1>2 DEF DeleteBoards, Removed
    <3>2. CASE step' = [name |-> "Delete Boards", of |-> bs, outcome |-> "returned"]
      BY <3>2
    <3>3. CASE step' = [name |-> "Delete Boards", of |-> bs, outcome |-> "raised"]
      BY <3>3
    <3> QED
      BY <3>1, <3>2, <3>3
  <2>8. \A x \in T : Concerned(x)
    BY <2>6, <2>7 DEF Concerned
  <2>9. unit' = unit \/ unit' = Solved(r.unit)
    BY <1>2, <2>1 DEF DeleteBoards, Removed
  <2>10. CASE unit' = unit
    <3>1. HoldsOff(unit, unit', {})
      BY <2>10 DEF HoldsOff
    <3>2. \A x \in {} : Concerned(x)
      OBVIOUS
    <3> QED
      BY <3>1, <3>2 DEF EditHolds
  <2>11. CASE unit' = Solved(r.unit)
    BY <1>a, <2>3, <2>5, <2>8, <2>11
  <2> QED
    BY <2>9, <2>10, <2>11
<1>3. ASSUME NEW bs \in Selections(unit), NEW mm \in Thicknesses, SwapStock(bs, mm)
      PROVE  EditHolds
  <2>1. PICK c : c = SetThickness(unit, Range(bs), mm)
    OBVIOUS
  <2>2. Struct(c)
    BY <1>0, <2>1, SizeFacts DEF KeepsNodes, Keeps
  <2>3. c.rule = unit.rule /\ DOMAIN c.thick = DOMAIN unit.thick
    BY <1>0, <2>1 DEF SetThickness, Fields
  <2> QED
    BY <1>3, <1>b, <2>1, <2>2, <2>3 DEF SwapStock
<1>4. ASSUME NEW r \in Regions(unit), NEW mm, TypeSize(r, mm) PROVE EditHolds
  BY <1>4, <1>c DEF TypeSize, SetSize, Regions
<1>5. ASSUME NEW r \in Regions(unit), NEW basis, ChangeBasis(r, basis) PROVE EditHolds
  BY <1>5, <1>c DEF ChangeBasis, SetBasis, SetSize, Regions
<1>6. ASSUME NEW r \in Regions(unit), SetLock(r) PROVE EditHolds
  BY <1>6, <1>c DEF SetLock, Lock, SetSize, Regions
<1>7. ASSUME NEW r \in Regions(unit), ClearLock(r) PROVE EditHolds
  BY <1>7, <1>c DEF ClearLock, Unlock, Regions
<1>8. ASSUME NEW b \in Boards(unit), FreeBoard(b) PROVE EditHolds
  <2>1. PICK c : c = UnlockHolders(unit, b)
    OBVIOUS
  <2>2. Struct(c)
    BY <1>8, <2>1, UnlockHoldersMovesNothing DEF FreeBoard, Sized
  <2>3. HoldsOff(unit, c, Range(Holders(unit, b)))
    BY <1>0, <1>8, <2>1, FreeingHolds DEF FreeBoard
  <2>4. step'.name = "Unlock Board" /\ step'.of[1] = b
    BY <1>8 DEF FreeBoard
  <2>5. \A r \in Range(Holders(unit, b)) : Concerned(r)
    BY <2>4 DEF Concerned
  <2> QED
    BY <1>8, <1>a, <2>1, <2>2, <2>3, <2>5 DEF FreeBoard
<1>9. ASSUME NEW b \in Boards(unit), NEW mm \in LowFaces, DragTo(b, mm) PROVE EditHolds
  <2>1. PICK c : c = MoveBoard(unit, b, mm)
    OBVIOUS
  <2>2. Movable(unit, b) /\ IsFraction(mm)
    BY <1>9, RulesAssumption DEF DragTo
  <2>3. Struct(c)
    BY <1>0, <2>1, <2>2, MoveFacts DEF KeepsNodes, Keeps
  <2>4. HoldsOff(unit, c, {})
    BY <2>1, <2>2, DragHolds
  <2>5. \A x \in {} : Concerned(x)
    OBVIOUS
  <2>6. unit' = Solved(c)
    BY <1>9, <2>1 DEF DragTo
  <2> QED
    BY ONLY <1>a, <2>3, <2>4, <2>5, <2>6
<1>10. ASSUME NEW a \in Axes, NEW mm \in UnitSizes, Resize(a, mm) PROVE EditHolds
  <2>1. PICK c : c = SetUnitSize(unit, a, mm)
    OBVIOUS
  <2>2. Struct(c)
    BY <1>0, <2>1, SizeFacts DEF KeepsNodes, Keeps
  <2>3. c.rule = unit.rule /\ c.thick = unit.thick
    BY <1>0, <2>1 DEF SetUnitSize, Fields
  <2> QED
    BY <1>10, <1>b, <2>1, <2>2, <2>3 DEF Resize
<1>11. ASSUME NEW a \in Axes, NEW side \in Sides, SetFixedSide(a, side) PROVE EditHolds
  <2>1. PICK c : c = [unit EXCEPT !.fixed[a] = side]
    OBVIOUS
  <2>2. Struct(c)
    BY <1>0, <2>1, SizeFacts DEF KeepsNodes, Keeps
  <2>3. c.rule = unit.rule /\ c.thick = unit.thick
    BY <1>0, <2>1 DEF Fields
  <2> QED
    BY <1>11, <1>b, <2>1, <2>2, <2>3 DEF SetFixedSide
<1> QED
  BY <1>1, <1>2, <1>3, <1>4, <1>5, <1>6, <1>7, <1>8, <1>9, <1>10, <1>11 DEF Edit

\* Through every edit a locked region stays locked at the size it shows, but by an edit
\* of that region itself, or a removal beside it (edit.py; solver.py distribute).
THEOREM LocksAreKept == Spec => LocksHold
<1>1. SizedInv /\ SizedInv' /\ [Next]_vars =>
        [\A r \in Kept \ {unit.root, unit'.root} :
            Locked(unit, r) /\ ~Concerned(r)
              => Locked(unit', r) /\ LockedMm(unit', r) = LockedMm(unit, r)]_vars
  <2>1. SUFFICES ASSUME SizedInv, SizedInv', Next,
                        NEW r \in Kept \ {unit.root, unit'.root},
                        Locked(unit, r), ~Concerned(r)
                 PROVE  Locked(unit', r) /\ LockedMm(unit', r) = LockedMm(unit, r)
    OBVIOUS
  <2>2. Inv /\ Sized(unit) /\ edits < MaxEdits /\ Edit
    BY <2>1 DEF SizedInv, FrameInv, Next
  <2>3. PICK S : HoldsOff(unit, unit', S) /\ \A x \in S : Concerned(x)
    BY <2>2, EditsHold DEF EditHolds
  <2>4. PICK v : v = unit'
    OBVIOUS
  <2>5. Sized(v)
    BY <2>1, <2>4 DEF SizedInv
  <2>6. r \in (Nodes(unit) \cap Nodes(v)) \ S /\ r # unit.root /\ r # v.root
    BY <2>1, <2>3, <2>4 DEF Kept
  <2>7. Locked(v, r) /\ v.rule[r] = unit.rule[r]
    BY <2>1, <2>3, <2>4, <2>6 DEF HoldsOff
  <2>8. LockedMm(unit, r) = unit.rule[r].mm
    BY <2>1, <2>2, <2>6, LockShows
  <2>9. LockedMm(v, r) = v.rule[r].mm
    BY <2>5, <2>6, <2>7, LockShows
  <2> QED
    BY <2>4, <2>7, <2>8, <2>9
<1> QED
  BY <1>1, UnitIsSized, PTL DEF Spec, LocksHold

------------------------------------------------------------------------------
(* Pinned boards, and runs of one member.                                  *)

\* What is pinned is a board of the unit.
PinsBoards(u) == Fields \subseteq DOMAIN u /\ DOMAIN u.pinned \subseteq Boards(u)
\* No run has one member alone.
RunsOfTwo(u) == \A d \in Divisions(u) : Len(u.items[d]) > 1
\* v is a unit, and has these where u has them.
Tidies(u, v) ==
    /\ Fields \subseteq DOMAIN v
    /\ PinsBoards(u) => PinsBoards(v)
    /\ RunsOfTwo(u) => RunsOfTwo(v)

\* Rules, thicknesses, the outer size and the fixed point unpin nothing, and shorten no
\* run.
LEMMA EditsTidy ==
    ASSUME NEW u, Fields \subseteq DOMAIN u
    PROVE  /\ Tidies(u, Solved(u))
           /\ \A i, rule : Tidies(u, WithRule(u, i, rule))
           /\ \A bs, mm : Tidies(u, SetThickness(u, bs, mm))
           /\ \A a, mm : Tidies(u, SetUnitSize(u, a, mm))
           /\ \A a, side : Tidies(u, [u EXCEPT !.fixed[a] = side])
<1> USE DEF Tidies, PinsBoards, RunsOfTwo, Boards, Divisions, Fields
<1>1. ASSUME NEW x PROVE Tidies(u, [u EXCEPT !.space = x])
  OBVIOUS
<1>2. ASSUME NEW i, NEW rule PROVE Tidies(u, WithRule(u, i, rule))
  BY DEF WithRule
<1>3. ASSUME NEW bs, NEW mm PROVE Tidies(u, SetThickness(u, bs, mm))
  <2>1. PICK f : f = [b \in DOMAIN u.thick |-> IF b \in bs THEN mm ELSE u.thick[b]]
    OBVIOUS
  <2>2. DOMAIN f = DOMAIN u.thick
    BY <2>1
  <2>3. SetThickness(u, bs, mm) = [u EXCEPT !.thick = f]
    BY <2>1 DEF SetThickness
  <2> QED
    BY <2>2, <2>3
<1>4. ASSUME NEW a, NEW mm PROVE Tidies(u, SetUnitSize(u, a, mm))
  <2>1. PICK x : x = FixedPoint(u, a) -- FixedOffset(u, a, mm)
    OBVIOUS
  <2>2. SetUnitSize(u, a, mm) = [u EXCEPT !.size[a] = mm, !.low[a] = x]
    BY <2>1 DEF SetUnitSize
  <2> QED
    BY <2>2
<1>5. ASSUME NEW a, NEW side PROVE Tidies(u, [u EXCEPT !.fixed[a] = side])
  OBVIOUS
<1> QED
  BY <1>1, <1>2, <1>3, <1>4, <1>5 DEF Solved

\* Two edits that keep these, one after the other, keep them.
LEMMA TidiesIsTransitive ==
    ASSUME NEW u, NEW v, NEW w, Tidies(u, v), Tidies(v, w)
    PROVE  Tidies(u, w)
BY DEF Tidies

\* A split adds a board, pins none and makes a run longer or one of three (edit.py
\* split_region),
LEMMA SplitTidies ==
    ASSUME NEW u, Struct(u), Room(u), NEW r, NEW a, CanSplit(u, r, a)
    PROVE  Tidies(u, SplitRegion(u, r, a))
<1>1. PICK v : v = SplitRegion(u, r, a)
  OBVIOUS
<1>2. PICK b, l, h, n, half : /\ IsSplit(u, v, r, a, b, l, h, n, half)
                              /\ \/ SplitsRun(u, v, r, a, b, l, h, half)
                                 \/ SplitsBay(u, v, r, a, b, l, h, n, half)
  BY <1>1, SplitMakes
<1>3. PinsBoards(u) => PinsBoards(v)
  <2>1. r \notin Boards(u)
    BY DEF CanSplit, Bays, Regions
  <2>2. DOMAIN v.pinned = DOMAIN u.pinned \ {r} /\ Boards(v) = Boards(u) \cup {b}
    BY <1>2 DEF IsSplit, HalfCut
  <2>3. PinsBoards(u) => Fields \subseteq DOMAIN v
    BY <1>1, SplitFrame DEF PinsBoards, SameFrame
  <2> QED
    BY <2>1, <2>2, <2>3 DEF PinsBoards
<1>4. RunsOfTwo(u) => RunsOfTwo(v)
  <2>1. SUFFICES ASSUME RunsOfTwo(u), NEW e \in Divisions(v) PROVE Len(v.items[e]) > 1
    BY DEF RunsOfTwo
  <2>2. PICK d, k, s : d = RunOf(u, r) /\ k = PlaceOf(u, r) /\ s = u.items[d]
    OBVIOUS
  <2>3. r \in Nodes(u) \ {u.root}
    BY DEF CanSplit, Bays, Regions
  <2>4. d \in Divisions(u) /\ k \in 1 .. Len(s) /\ IsRun(s, Nodes(u) \ {u.root})
    BY <2>2, <2>3, PlaceFacts, Zenon DEF Struct
  <2>5. Len(s) \in Nat /\ Len(s) > 1 /\ s \in Seq(Nodes(u) \ {u.root})
    BY <2>1, <2>2, <2>4, RunFacts DEF RunsOfTwo, IsRun
  <2>6. CASE e \in Divisions(u) /\ e # d
    <3>1. v.items[e] = u.items[e]
      BY <1>2, <2>2, <2>6 DEF IsSplit
    <3> QED
      BY <2>1, <2>6, <3>1 DEF RunsOfTwo
  <2>7. CASE SplitsRun(u, v, r, a, b, l, h, half) /\ e = d
    <3>0. PICK t : t = <<l, b, h>>
      OBVIOUS
    <3>1. v.items[d] = Splice(s, k, 1, t)
      BY <2>2, <2>7, <3>0 DEF SplitsRun
    <3>2. PICK S : S = (Nodes(u) \ {u.root}) \cup {l, b, h}
      OBVIOUS
    <3>3. s \in Seq(S) /\ t \in Seq(S) /\ Len(t) = 3
      BY <2>5, <3>0, <3>2
    <3>4. SplicedPlaces(s, k, 1, t, Splice(s, k, 1, t))
      BY ONLY <2>4, <2>5, <3>3, SplicePlaces
    <3>5. Len(v.items[d]) = Len(s) - 1 + 3
      BY <3>1, <3>3, <3>4 DEF SplicedPlaces
    <3> QED
      BY <2>5, <2>7, <3>5
  <2>8. CASE SplitsBay(u, v, r, a, b, l, h, n, half) /\ e = d
    <3>1. v.items[d] = [s EXCEPT ![k] = n]
      BY <2>2, <2>8 DEF SplitsBay
    <3>2. Len([s EXCEPT ![k] = n]) = Len(s)
      BY <2>4, <2>5
    <3> QED
      BY <2>5, <2>8, <3>1, <3>2
  <2>9. CASE SplitsBay(u, v, r, a, b, l, h, n, half) /\ e = n
    <3>1. v.items[n] = <<l, b, h>>
      BY <2>9 DEF SplitsBay
    <3> QED
      BY <2>9, <3>1
  <2>10. \/ SplitsRun(u, v, r, a, b, l, h, half) /\ e \in Divisions(u)
         \/ SplitsBay(u, v, r, a, b, l, h, n, half) /\ e \in Divisions(u) \cup {n}
    BY <1>2 DEF SplitsRun, SplitsBay
  <2> QED
    BY <2>6, <2>7, <2>8, <2>9, <2>10
<1>5. Fields \subseteq DOMAIN v
  BY <1>1, SplitFrame DEF Struct, SameFrame
<1> QED
  BY <1>1, <1>3, <1>4, <1>5 DEF Tidies

\* and a removal takes a pin with its board, and a run with its last but one member
\* (edit.py merge_at).
LEMMA MergeTidies ==
    ASSUME NEW u, Struct(u), NEW b, CanMerge(u, b)
    PROVE  Tidies(u, MergeAt(u, b))
<1>1. PICK v, d, i : v = MergeAt(u, b) /\ d = RunOf(u, b) /\ i = Beside(u, b).low
  OBVIOUS
<1>2. /\ SameStock(u, v) /\ Struct(v)
      /\ \/ d = u.root /\ BecomesRoot(u, v, i)
         \/ ~LeavesOne(u, b) /\ MergeLeaves(u, v, i, d) /\ JoinsRun(u, v, b, i, d)
         \/ /\ d # u.root /\ MergeLeaves(u, v, i, RunOf(u, d))
            /\ TakesPlace(u, v, d, i, RunOf(u, d)) \/ GivesRun(u, v, d, i, RunOf(u, d))
  BY <1>1, MergeMakes
<1>3. PinsBoards(u) => PinsBoards(v)
  BY <1>2 DEF SameStock, PinsBoards
<1>4. RunsOfTwo(u) => RunsOfTwo(v)
  <2>1. SUFFICES ASSUME RunsOfTwo(u), NEW e \in Divisions(v) PROVE Len(v.items[e]) > 1
    BY DEF RunsOfTwo
  <2>2. CASE e \in Divisions(u) /\ v.items[e] = u.items[e]
    BY <2>1, <2>2 DEF RunsOfTwo
  <2>3. CASE BecomesRoot(u, v, i)
    BY <2>2, <2>3 DEF BecomesRoot
  <2>4. CASE ~LeavesOne(u, b) /\ MergeLeaves(u, v, i, d) /\ JoinsRun(u, v, b, i, d)
    <3>1. e # d => e \in Divisions(u) /\ v.items[e] = u.items[e]
      BY <2>4 DEF MergeLeaves
    <3>2. v.items[d] = LeftOf(u, b) /\ Len(LeftOf(u, b)) > 1
      BY <2>4 DEF JoinsRun, LeavesOne
    <3> QED
      BY <2>2, <3>1, <3>2
  <2>5. CASE /\ d # u.root /\ MergeLeaves(u, v, i, RunOf(u, d))
             /\ TakesPlace(u, v, d, i, RunOf(u, d)) \/ GivesRun(u, v, d, i, RunOf(u, d))
    <3>1. PICK p, k, s : p = RunOf(u, d) /\ k = PlaceOf(u, d) /\ s = u.items[p]
      OBVIOUS
    <3>2. e # p => e \in Divisions(u) /\ v.items[e] = u.items[e]
      BY <2>5, <3>1 DEF MergeLeaves
    <3>3. b \in Nodes(u) \ {u.root}
      BY DEF CanMerge, Struct, Regions
    <3>4. d \in Nodes(u) \ {u.root}
      BY <1>1, <2>5, <3>3, PlaceFacts DEF Struct, Regions
    <3>5. p \in Divisions(u) /\ k \in 1 .. Len(s) /\ IsRun(s, Nodes(u) \ {u.root})
      BY <3>1, <3>4, PlaceFacts DEF Struct
    <3>6. Len(s) \in Nat /\ Len(s) > 1 /\ s \in Seq(Nodes(u) \ {u.root})
      BY <2>1, <3>1, <3>5, RunFacts DEF RunsOfTwo, IsRun
    <3>7. CASE TakesPlace(u, v, d, i, p)
      <4>1. v.items[p] = [s EXCEPT ![k] = i]
        BY <3>1, <3>7 DEF TakesPlace
      <4>2. Len([s EXCEPT ![k] = i]) = Len(s)
        BY <3>5, <3>6
      <4>3. e = p => Len(v.items[e]) > 1
        BY <3>6, <4>1, <4>2
      <4> QED
        BY <2>2, <3>2, <4>3
    <3>8. CASE GivesRun(u, v, d, i, p)
      <4>1. PICK t : t = u.items[i]
        OBVIOUS
      <4>2. i \in Divisions(u) /\ v.items[p] = Splice(s, k, 1, t)
        BY <3>1, <3>8, <4>1 DEF GivesRun
      <4>3. IsRun(t, Nodes(u) \ {u.root})
        BY <4>1, <4>2 DEF Struct
      <4>4. Len(t) \in Nat /\ Len(t) > 1 /\ t \in Seq(Nodes(u) \ {u.root})
        BY <2>1, <4>1, <4>2, <4>3, RunFacts DEF RunsOfTwo, IsRun
      <4>5. SplicedPlaces(s, k, 1, t, Splice(s, k, 1, t))
        BY <3>5, <3>6, <4>4, SplicePlaces
      <4>6. Len(v.items[p]) = Len(s) - 1 + Len(t)
        BY <4>2, <4>5 DEF SplicedPlaces
      <4>7. e = p => Len(v.items[e]) > 1
        BY <3>6, <4>4, <4>6
      <4> QED
        BY <2>2, <3>2, <4>7
    <3> QED
      BY <2>5, <3>1, <3>7, <3>8
  <2> QED
    BY <1>2, <2>3, <2>4, <2>5
<1>5. Fields \subseteq DOMAIN v
  BY <1>2 DEF SameStock
<1> QED
  BY <1>1, <1>3, <1>4, <1>5 DEF Tidies

\* What holds of a removal's record.
TidiedSoFar(d, n, r) ==
    DOMAIN r = {"unit", "outcome"} /\ Struct(r.unit) /\ Tidies(d, r.unit)
\* The fold of these.
Tidying == INSTANCE FoldTheorems WITH Op <- Removal, P <- TidiedSoFar

\* So do several.
LEMMA RemovalsTidy ==
    ASSUME NEW u, Struct(u), NEW S, NEW bs \in Seq(S)
    PROVE  Tidies(u, RemoveBoards(u, bs).unit)
<1> DEFINE base == [unit |-> u, outcome |-> "done"]
           v == Tidying!Fold(0, base, bs)
<1>1. RemoveBoards(u, bs) = v
  BY DEF RemoveBoards, Removal, Tidying!Fold, FoldLeft, Tidying!FoldLeft, MapThenFoldSet,
         Tidying!MapThenFoldSet, Max, Tidying!Max
<1>2. TidiedSoFar(u, 0, base)
  BY DEF TidiedSoFar, Tidies, Struct
<1>3. ASSUME NEW k \in 1 .. Len(bs), NEW r, TidiedSoFar(u, k - 1, r)
      PROVE  TidiedSoFar(u, k, Removal(0, r, bs[k]))
  <2>1. PICK b, w : b = bs[k] /\ w = r.unit
    OBVIOUS
  <2>2. DOMAIN r = {"unit", "outcome"} /\ Struct(w) /\ Tidies(u, w)
    BY <1>3, <2>1 DEF TidiedSoFar
  <2>3. PICK m : m = Solved(MergeAt(w, b))
    OBVIOUS
  <2>4. CanMerge(w, b) => Struct(m) /\ Tidies(u, m)
    <3>1. SUFFICES ASSUME CanMerge(w, b) PROVE Struct(m) /\ Tidies(u, m)
      OBVIOUS
    <3>2. PICK c : c = MergeAt(w, b)
      OBVIOUS
    <3>3. Struct(c) /\ Tidies(w, c)
      BY <2>2, <3>1, <3>2, MergeFacts, MergeTidies DEF Keeps
    <3>4. Struct(Solved(c)) /\ Tidies(c, Solved(c))
      BY <3>3, SolvedIs, EditsTidy, Zenon DEF Struct
    <3>5. Tidies(u, c)
      BY <2>2, <3>3, TidiesIsTransitive
    <3>6. Tidies(u, Solved(c))
      BY <3>4, <3>5, TidiesIsTransitive
    <3> QED
      BY <2>3, <3>2, <3>4, <3>6
  <2>5. PICK c : c = Removal(0, r, b)
    OBVIOUS
  <2>6. \/ c = r
        \/ c = [r EXCEPT !.outcome = "raised"]
        \/ c = [r EXCEPT !.outcome = "refused"]
        \/ (CanMerge(w, b) /\ c = [r EXCEPT !.unit = m])
    BY <2>1, <2>3, <2>5 DEF Removal
  <2>7. /\ DOMAIN c = {"unit", "outcome"}
        /\ (c.unit = w) \/ (CanMerge(w, b) /\ c.unit = m)
    <3>1. DOMAIN r = {"unit", "outcome"} /\ r.unit = w
      BY <2>1, <2>2
    <3>2. CASE c = r
      BY <3>1, <3>2
    <3>3. CASE c = [r EXCEPT !.outcome = "raised"]
      <4>1. DOMAIN c = {"unit", "outcome"} /\ c.unit = w
        BY <3>1, <3>3
      <4> QED
        BY <4>1
    <3>4. CASE c = [r EXCEPT !.outcome = "refused"]
      <4>1. DOMAIN c = {"unit", "outcome"} /\ c.unit = w
        BY <3>1, <3>4
      <4> QED
        BY <4>1
    <3>5. CASE CanMerge(w, b) /\ c = [r EXCEPT !.unit = m]
      <4>1. DOMAIN c = {"unit", "outcome"} /\ c.unit = m
        BY <3>1, <3>5
      <4> QED
        BY <3>5, <4>1
    <3> QED
      BY <2>6, <3>2, <3>3, <3>4, <3>5
  <2> QED
    BY <2>1, <2>2, <2>4, <2>5, <2>7 DEF TidiedSoFar
<1>4. TidiedSoFar(u, Len(bs), v)
  <2> HIDE DEF base
  <2> QED
    BY <1>2, <1>3, Tidying!FoldInvariant
<1> QED
  BY <1>1, <1>4 DEF TidiedSoFar

\* What holds of a unit after n holders of its board are unlocked.
UntiedSoFar(d, n, v) == Tidies(d, v)
\* The fold of these.
Slackening == INSTANCE FoldTheorems WITH Op <- Freed, P <- UntiedSoFar

\* Freeing a board pins nothing (session.py unlock_board).
LEMMA FreeingTidies ==
    ASSUME NEW u, Struct(u), NEW b \in Boards(u), Freeable(u, b)
    PROVE  Tidies(u, UnlockHolders(u, b))
<1>1. PICK s : s = Holders(u, b)
  OBVIOUS
<1>2. s \in Seq(Regions(u) \ {u.root})
  BY <1>1, HoldersInRun
<1>3. UnlockHolders(u, b) = Slackening!Fold(0, u, s)
  BY <1>1 DEF UnlockHolders, Freed, Slackening!Fold, FoldLeft, Slackening!FoldLeft,
         MapThenFoldSet, Slackening!MapThenFoldSet, Max, Slackening!Max
<1>4. UntiedSoFar(u, 0, u)
  BY DEF UntiedSoFar, Tidies, Struct
<1>5. ASSUME NEW k \in 1 .. Len(s), NEW v, UntiedSoFar(u, k - 1, v)
      PROVE  UntiedSoFar(u, k, Freed(0, v, s[k]))
  <2>1. PICK w : w = Unlock(v, s[k])
    OBVIOUS
  <2>2. Fields \subseteq DOMAIN v /\ Tidies(u, v)
    BY <1>5 DEF UntiedSoFar, Tidies
  <2>3. Fields \subseteq DOMAIN w /\ Tidies(v, w)
    <3>1. \E i, rule : w = WithRule(v, i, rule)
      BY <2>1 DEF Unlock
    <3> QED
      BY <2>2, <3>1, EditsTidy DEF Tidies
  <2>4. Tidies(w, Solved(w))
    BY <2>3, EditsTidy
  <2>5. Tidies(u, Solved(w))
    BY <2>2, <2>3, <2>4, TidiesIsTransitive
  <2> QED
    BY <2>1, <2>4, <2>5 DEF Freed, UntiedSoFar
<1>6. UntiedSoFar(u, Len(s), Slackening!Fold(0, u, s))
  BY <1>2, <1>4, <1>5, Slackening!FoldInvariant
<1> QED
  BY <1>3, <1>6 DEF UntiedSoFar

\* Every edit leaves the pins to boards, and no run of one member.
LEMMA EditTidies ==
    ASSUME Inv, Sized(unit), edits < MaxEdits, Edit
    PROVE  Tidies(unit, unit')
<1> USE DEF Apply
<1>0. Struct(unit) /\ Fields \subseteq DOMAIN unit
  BY DEF Inv, Struct
<1>a. ASSUME NEW c, Tidies(unit, c), unit' = Solved(c) PROVE Tidies(unit, unit')
  <2>1. Tidies(c, Solved(c))
    BY <1>a, EditsTidy DEF Tidies
  <2>2. PICK v : v = unit'
    OBVIOUS
  <2>3. Tidies(unit, v)
    BY <1>a, <2>1, <2>2, TidiesIsTransitive
  <2> QED
    BY <2>2, <2>3
<1>b. ASSUME NEW r, NEW rule, unit' = Solved(WithRule(unit, r, rule)) PROVE Tidies(unit, unit')
  <2>1. Tidies(unit, WithRule(unit, r, rule))
    BY <1>0, EditsTidy
  <2> QED
    BY <1>a, <1>b, <2>1
<1>1. ASSUME NEW r \in Bays(unit), NEW a \in Axes, Split(r, a) PROVE Tidies(unit, unit')
  <2>1. Tidies(unit, SplitRegion(unit, r, a))
    BY <1>0, <1>1, RoomForSplit, SplitTidies DEF Split
  <2> QED
    BY <1>1, <1>a, <2>1 DEF Split
<1>2. ASSUME NEW bs \in Selections(unit), DeleteBoards(bs) PROVE Tidies(unit, unit')
  <2>1. PICK r : r = RemoveBoards(unit, bs)
    OBVIOUS
  <2>2. bs \in Seq(Boards(unit))
    BY DEF Selections, SeqOf
  <2>3. Tidies(unit, r.unit)
    BY <1>0, <2>1, <2>2, RemovalsTidy
  <2>4. unit' = unit \/ unit' = Solved(r.unit)
    BY <1>2, <2>1 DEF DeleteBoards, Removed
  <2>5. CASE unit' = unit
    <3>1. PICK v : v = unit'
      OBVIOUS
    <3>2. Tidies(unit, v)
      BY <1>0, <2>5, <3>1 DEF Tidies
    <3> QED
      BY <3>1, <3>2
  <2> QED
    BY <1>a, <2>3, <2>4, <2>5
<1>3. ASSUME NEW bs, NEW mm, SwapStock(bs, mm) PROVE Tidies(unit, unit')
  <2>1. Tidies(unit, SetThickness(unit, Range(bs), mm))
    BY <1>0, EditsTidy
  <2> QED
    BY <1>3, <1>a, <2>1 DEF SwapStock
<1>4. ASSUME NEW r, NEW mm, TypeSize(r, mm) PROVE Tidies(unit, unit')
  BY <1>4, <1>b DEF TypeSize, SetSize
<1>5. ASSUME NEW r, NEW basis, ChangeBasis(r, basis) PROVE Tidies(unit, unit')
  BY <1>5, <1>b DEF ChangeBasis, SetBasis, SetSize
<1>6. ASSUME NEW r, SetLock(r) PROVE Tidies(unit, unit')
  BY <1>6, <1>b DEF SetLock, Lock, SetSize
<1>7. ASSUME NEW r, ClearLock(r) PROVE Tidies(unit, unit')
  BY <1>7, <1>b DEF ClearLock, Unlock
<1>8. ASSUME NEW b \in Boards(unit), FreeBoard(b) PROVE Tidies(unit, unit')
  <2>1. Tidies(unit, UnlockHolders(unit, b))
    BY <1>0, <1>8, FreeingTidies DEF FreeBoard
  <2> QED
    BY <1>8, <1>a, <2>1 DEF FreeBoard
<1>9. ASSUME NEW b, NEW mm, DragTo(b, mm) PROVE Tidies(unit, unit')
  <2>1. \E l, p, h, q : MoveBoard(unit, b, mm) = WithRule(WithRule(unit, l, p), h, q)
    BY DEF MoveBoard, Resized
  <2>2. Tidies(unit, MoveBoard(unit, b, mm))
    <3>1. PICK l, p, h, q : MoveBoard(unit, b, mm) = WithRule(WithRule(unit, l, p), h, q)
      BY <2>1
    <3>2. PICK w : w = WithRule(unit, l, p)
      OBVIOUS
    <3>3. Tidies(unit, w)
      BY <1>0, <3>2, EditsTidy
    <3>4. Tidies(w, WithRule(w, h, q))
      BY <3>3, EditsTidy DEF Tidies
    <3> QED
      BY <3>1, <3>2, <3>3, <3>4, TidiesIsTransitive
  <2> QED
    BY <1>9, <1>a, <2>2 DEF DragTo
<1>10. ASSUME NEW a, NEW mm, Resize(a, mm) PROVE Tidies(unit, unit')
  <2>1. Tidies(unit, SetUnitSize(unit, a, mm))
    BY <1>0, EditsTidy
  <2> QED
    BY <1>10, <1>a, <2>1 DEF Resize
<1>11. ASSUME NEW a, NEW side, SetFixedSide(a, side) PROVE Tidies(unit, unit')
  <2>1. Tidies(unit, [unit EXCEPT !.fixed[a] = side])
    BY <1>0, EditsTidy
  <2> QED
    BY <1>11, <1>a, <2>1 DEF SetFixedSide
<1> QED
  BY <1>1, <1>2, <1>3, <1>4, <1>5, <1>6, <1>7, <1>8, <1>9, <1>10, <1>11 DEF Edit

\* So does a step of the session,
LEMMA TidyStep ==
    ASSUME SizedInv, [Next]_vars
    PROVE  Tidies(unit, unit')
<1>1. CASE Next
  BY <1>1, EditTidies DEF Next, SizedInv, FrameInv
<1>2. CASE UNCHANGED vars
  <2>1. PICK v : v = unit'
    OBVIOUS
  <2>2. v = unit /\ Fields \subseteq DOMAIN unit
    BY <1>2, <2>1 DEF vars, SizedInv, FrameInv, Inv, Struct
  <2> QED
    BY <2>1, <2>2 DEF Tidies
<1> QED
  BY <1>1, <1>2

\* and it opens with them so.
LEMMA TidyStart ==
    ASSUME Init
    PROVE  /\ PinsBoards(unit)
           /\ (\A u \in StartUnits : RunsOfTwo(u)) => RunsOfTwo(unit)
<1>1. PICK u \in StartUnits : unit = Solved(u)
  BY DEF Init
<1>2. IsLayout(u) /\ DOMAIN u.pinned \subseteq Boards(u)
  BY StartAssumption
<1>3. Fields \subseteq DOMAIN u /\ PinsBoards(u)
  BY <1>2 DEF PinsBoards, IsLayout
<1>4. Tidies(u, Solved(u))
  BY <1>3, EditsTidy
<1> QED
  BY <1>1, <1>3, <1>4 DEF Tidies

\* No edit leaves a run of one member: a division with one child left gives its place to
\* that child (edit.py _merge_at).
THEOREM RunsKeepTwo ==
    ASSUME \A u \in StartUnits : RunsOfTwo(u)
    PROVE  Spec => []RunsOfTwo(unit)
<1> DEFINE Paired == SizedInv /\ RunsOfTwo(unit)
<1>1. Init => Paired
  BY SizedStart, TidyStart
<1>2. Paired /\ [Next]_vars => Paired'
  <2>1. SUFFICES ASSUME SizedInv, RunsOfTwo(unit), [Next]_vars PROVE Paired'
    OBVIOUS
  <2>2. SizedInv'
    BY <2>1, SizedStep
  <2>3. RunsOfTwo(unit')
    BY <2>1, TidyStep DEF Tidies
  <2> QED
    BY <2>2, <2>3
<1>3. Paired => RunsOfTwo(unit)
  OBVIOUS
<1> QED
  BY <1>1, <1>2, <1>3, PTL DEF Spec

------------------------------------------------------------------------------
(* Edits that always solve.                                                *)

\* A lock, an unlock and a change of basis solve: they move nothing (edit.py lock, unlock
\* and set_basis).
LEMMA RulesSolve ==
    ASSUME NEW u, Sized(u), NEW r \in Regions(u) \ {u.root}
    PROVE  /\ Solves(Solved(Lock(u, r))) /\ Solves(Solved(Unlock(u, r)))
           /\ \A basis \in Bases :
                 CanSetSize(u, r, basis) => Solves(Solved(SetBasis(u, r, basis)))
<1>1. Sized(Solved(Lock(u, r))) /\ Sized(Solved(Unlock(u, r)))
  BY LockMovesNothing, UnlockMovesNothing
<1>2. ASSUME NEW basis \in Bases, CanSetSize(u, r, basis)
      PROVE  Sized(Solved(SetBasis(u, r, basis)))
  BY <1>2, SetBasisMovesNothing DEF CanSetSize
<1> QED
  BY <1>1, <1>2 DEF Sized

\* The run of a board t thick between two halves, in a bay of a size x above t.
IsBetween(v, n, l, b, h, t, x) ==
    /\ v.items[n] = <<l, b, h>> /\ v.thick[b] = t
    /\ v.rule[l] = Fill /\ v.rule[h] = Fill /\ v.rule[b] = Own
    /\ IsFraction(t) /\ IsFraction(x) /\ Zero \prec t /\ t \prec x

\* Its rules fill the bay.
LEMMA BetweenHalves ==
    ASSUME NEW v, NEW n, NEW l, NEW b, NEW h, NEW t, NEW x, IsBetween(v, n, l, b, h, t, x)
    PROVE  \E mm : ShowsRun(v, n, mm) /\ Sum(mm, DOMAIN v.items[n]) = x
<1>0. /\ v.items[n] = <<l, b, h>> /\ v.thick[b] = t
      /\ v.rule[l] = Fill /\ v.rule[h] = Fill /\ v.rule[b] = Own
      /\ IsFraction(t) /\ IsFraction(x) /\ Zero \prec t /\ t \prec x
  BY DEF IsBetween
<1>1. PICK z : z = (x -- t) // Whole(2)
  OBVIOUS
<1>2. IsFraction(z) /\ Zero \prec z /\ z ++ (t ++ z) = x
  BY <1>0, <1>1, HalvesFill
<1>3. PICK mm : mm = <<z, t, z>>
  OBVIOUS
<1>4. /\ mm[1] = z /\ mm[2] = t /\ mm[3] = z
      /\ mm = [k \in 1 .. 3 |-> mm[k]]
      /\ DOMAIN v.items[n] = 1 .. 3 /\ 1 .. 3 = {1, 2, 3}
      /\ v.items[n][1] = l /\ v.items[n][2] = b /\ v.items[n][3] = h
  BY <1>0, <1>3
<1>5. /\ Fill.kind = "driven" /\ Fill.weight = One /\ Own.kind = "own"
  BY DEF Fill, Weighted, Own
<1>6. /\ 1 \in DrivenPlaces(v, n) /\ 3 \in DrivenPlaces(v, n) /\ 2 \notin DrivenPlaces(v, n)
      /\ WeightAt(v, n, 1) = One /\ WeightAt(v, n, 3) = One
  BY <1>0, <1>4, <1>5 DEF DrivenPlaces, Driven, WeightAt
<1>7. Resolves(v, n, 1) /\ Resolves(v, n, 2) /\ Resolves(v, n, 3)
  BY <1>0, <1>4, <1>5 DEF Resolves
<1>8. FixedMm(v, n, 2) = t
  BY <1>0, <1>4, <1>5 DEF FixedMm
<1>9. z ** One = z
  BY <1>2, ProductFacts DEF One
<1>10. RulesShow(v, n, mm, z)
  <2>1. ASSUME NEW k \in DOMAIN v.items[n]
        PROVE  mm[k] = IF k \in DrivenPlaces(v, n) THEN z ** WeightAt(v, n, k)
                       ELSE FixedMm(v, n, k)
    <3>1. k = 1 \/ k = 2 \/ k = 3
      BY <1>4, <2>1
    <3> QED
      BY <1>4, <1>6, <1>8, <1>9, <3>1
  <2> QED
    BY <1>2, <2>1 DEF RulesShow
<1>11. ShowsRun(v, n, mm)
  <2>1. ASSUME NEW k \in DOMAIN v.items[n]
        PROVE  IsFraction(mm[k]) /\ Zero \prec mm[k] /\ Resolves(v, n, k)
    <3>1. k = 1 \/ k = 2 \/ k = 3
      BY <1>4, <2>1
    <3> QED
      BY <1>0, <1>2, <1>4, <1>7, <3>1
  <2> QED
    BY <1>4, <1>10, <2>1 DEF ShowsRun
<1>12. Sum(mm, 1 .. 3) = x
  <2>1. ASSUME NEW k \in Nat, IsFraction(mm[k]), IsFraction(mm[k + 1]), IsFraction(mm[k + 2])
        PROVE  Sum(mm, k .. k + 2) = mm[k] ++ (mm[k + 1] ++ mm[k + 2])
    BY <2>1, SumOfThree
  <2>2. IsFraction(mm[1]) /\ IsFraction(mm[1 + 1]) /\ IsFraction(mm[1 + 2])
    BY <1>0, <1>2, <1>4
  <2>3. Sum(mm, 1 .. 1 + 2) = mm[1] ++ (mm[1 + 1] ++ mm[1 + 2])
    BY <2>1, <2>2
  <2> QED
    BY <1>2, <1>4, <2>3
<1> QED
  BY <1>4, <1>11, <1>12

\* The division a split across the run makes is as wide along itself as the bay was.
LEMMA SplitDivision ==
    ASSUME NEW u, Sized(u), NEW v, Struct(v), IsFramed(v), Ruled(v), StaysIn(u, v),
           NEW r \in Nodes(u) \ {u.root}, NEW a \in Axes, NEW d, d = RunOf(u, r),
           u.axis[d] # a, v.axis[d] = u.axis[d], d \in Divisions(v), d \in Nodes(v),
           NEW n, NEW k, k = PlaceOf(u, r), k \in DOMAIN v.items[d], v.items[d][k] = n
    PROVE  Spaces(v)[n].size[a] = u.space[r].size[a] /\ IsFraction(u.space[r].size[a])
<1>1. /\ d \in Divisions(u) /\ k \in DOMAIN u.items[d] /\ u.items[d][k] = r
  BY PlaceInRun DEF Sized
<1>2. d \in Nodes(u)
  BY <1>1 DEF Sized, Struct, Regions
<1>3. Spaces(v)[d] = u.space[d]
  BY <1>2 DEF StaysIn
<1>4. \E mm : AtPlace(Spaces(v)[n], Spaces(v)[d], v.axis[d], k, mm)
  BY RoomAlong
<1>5. \E mm : AtPlace(u.space[r], u.space[d], u.axis[d], k, mm)
  BY <1>1, SizedShows
<1>6. Spaces(v)[n].size[a] = Spaces(v)[d].size[a]
  BY <1>4 DEF AtPlace
<1>7. u.space[r].size[a] = u.space[d].size[a] /\ IsFraction(u.space[r].size[a])
  BY <1>5 DEF AtPlace, IsRoom
<1> QED
  BY <1>3, <1>6, <1>7

\* A split solves, where the bay is wider than the board it is cut by (edit.py
\* split_region, _split_halves_rules).
LEMMA SplitSolves ==
    ASSUME NEW u, Sized(u), Room(u), PinsBoards(u), NEW r, NEW a \in Axes, CanSplit(u, r, a),
           AxisOf(u, r) # a => u.thick[SourceBoard(u, r, a)] \prec u.space[r].size[a]
    PROVE  Solves(Solved(SplitRegion(u, r, a)))
<1>1. PICK v : v = SplitRegion(u, r, a)
  OBVIOUS
<1>2. /\ Struct(v) /\ IsFramed(v) /\ Ruled(v)
      /\ KeepsRooms(u, v, Nodes(u) \ {r}) /\ StaysIn(u, v)
  BY <1>1, SplitKeeps
<1>3. PICK b, l, h, n, half : /\ IsSplit(u, v, r, a, b, l, h, n, half)
                              /\ \/ SplitsRun(u, v, r, a, b, l, h, half)
                                 \/ SplitsBay(u, v, r, a, b, l, h, n, half)
  BY <1>1, SplitMakes DEF Sized
<1>4. /\ r \in Nodes(u) \ {u.root} /\ r \notin Boards(u) /\ r \notin Divisions(u)
      /\ Boards(u) # {}
  BY DEF CanSplit, Bays, Regions
<1>5. Struct(u) /\ Boards(u) \subseteq Nodes(u) /\ Divisions(u) \subseteq Nodes(u)
  BY Zenon DEF Sized, Struct, Regions
<1>6. Boards(v) \subseteq Nodes(v) /\ Divisions(v) \subseteq Nodes(v)
  BY <1>2 DEF Struct, Regions
<1>7. ASSUME NEW d \in Divisions(v), d \in Nodes(u) \ {r} PROVE RunSolves(v, d, Spaces(v)[d])
  <2>1. PICK mm : ShowsRun(v, d, mm) /\ Sum(mm, DOMAIN v.items[d]) = u.space[d].size[v.axis[d]]
    BY <1>2, <1>7 DEF KeepsRooms
  <2>2. Spaces(v)[d] = u.space[d]
    BY <1>2, <1>6, <1>7 DEF StaysIn
  <2> QED
    BY <1>2, <2>1, <2>2, ShownSolves
<1>8. ASSUME NEW d \in Divisions(v), d \notin Nodes(u) \ {r} PROVE RunSolves(v, d, Spaces(v)[d])
  <2>1. SplitsBay(u, v, r, a, b, l, h, n, half) /\ d = n
    BY <1>3, <1>4, <1>5, <1>8 DEF SplitsRun, SplitsBay
  <2>2. PICK p, k : p = RunOf(u, r) /\ k = PlaceOf(u, r)
    OBVIOUS
  <2>3. p \in Divisions(u) /\ k \in DOMAIN u.items[p]
    BY <1>4, <1>5, <2>2, PlaceInRun
  <2>4. /\ u.axis[p] # a /\ v.axis[p] = u.axis[p] /\ p \in Divisions(v) /\ p \in Nodes(v)
        /\ k \in DOMAIN v.items[p] /\ v.items[p][k] = n
        /\ v.items[n] = <<l, b, h>> /\ v.axis[n] = a
        /\ v.rule[l] = Fill /\ v.rule[h] = Fill /\ v.rule[b] = Own
    BY <1>3, <1>6, <2>1, <2>2, <2>3 DEF SplitsBay, IsSplit
  <2>5. PICK x : x = u.space[r].size[a]
    OBVIOUS
  <2>6. Spaces(v)[n].size[a] = x /\ IsFraction(x)
    BY <1>2, <1>4, <2>2, <2>4, <2>5, SplitDivision
  <2>7. PICK t : t = u.thick[SourceBoard(u, r, a)]
    OBVIOUS
  <2>8. v.thick[b] = t /\ IsFraction(t) /\ Zero \prec t
    <3>1. SourceBoard(u, r, a) \in Boards(u)
      BY <1>4, SourceIsBoard
    <3> QED
      BY <1>3, <2>7, <3>1 DEF IsSplit, HalfCut, Sized, Ruled
  <2>9. t \prec x
    BY <2>2, <2>4, <2>5, <2>7 DEF AxisOf
  <2>10. PICK mm : ShowsRun(v, n, mm) /\ Sum(mm, DOMAIN v.items[n]) = x
    <3>1. IsBetween(v, n, l, b, h, t, x)
      BY <2>4, <2>6, <2>8, <2>9 DEF IsBetween
    <3> QED
      BY ONLY <3>1, BetweenHalves
  <2> QED
    BY <1>2, <2>1, <2>4, <2>6, <2>10, ShownSolves
<1>9. ASSUME NEW c \in DOMAIN v.pinned PROVE Spaces(v)[c].size = v.pinned[c]
  <2>1. c \in DOMAIN u.pinned /\ v.pinned[c] = u.pinned[c] /\ Boards(u) \subseteq Boards(v)
    BY <1>3 DEF IsSplit, HalfCut
  <2>2. c \in Nodes(u) \cap Nodes(v)
    BY <1>5, <1>6, <2>1 DEF PinsBoards
  <2>3. u.space[c].size = u.pinned[c]
    BY <2>1 DEF Sized, Solves
  <2> QED
    BY <1>2, <2>1, <2>2, <2>3 DEF StaysIn
<1> QED
  BY <1>1, <1>2, <1>7, <1>8, <1>9, RunsSolve

------------------------------------------------------------------------------
(* What a removal widens.                                                  *)

\* Scaling and taking away keep the order.
LEMMA OrderKept ==
    ASSUME NEW p, NEW q, NEW r, IsFraction(p), IsFraction(q), IsFraction(r), p \preceq q
    PROVE  /\ p -- r \preceq q -- r
           /\ Zero \prec r => r ** p \preceq r ** q
<1>1. PICK d, l, m, n : Over3(p, q, r, d, l, m, n)
  BY OverOne
<1>2. /\ d \in Nat /\ d # 0 /\ l \in Int /\ m \in Int /\ n \in Int
      /\ p = Frac(l, d) /\ q = Frac(m, d) /\ r = Frac(n, d)
  BY <1>1 DEF Over3
<1>3. l <= m
  <2>1. Frac(l, d) \preceq Frac(m, d)
    BY <1>2
  <2> QED
    BY <1>2, <2>1, OverOneDenominator
<1>4. p -- r \preceq q -- r
  <2>1. p -- r = Frac(l - n, d)
    BY <1>2, OverOneDenominator
  <2>2. q -- r = Frac(m - n, d)
    BY <1>2, OverOneDenominator
  <2>3. Frac(l - n, d) \preceq Frac(m - n, d)
    BY <1>2, <1>3, OverOneDenominator
  <2> QED
    BY <2>1, <2>2, <2>3
<1>5. ASSUME Zero \prec r PROVE r ** p \preceq r ** q
  <2>1. PICK s : s = q -- p
    OBVIOUS
  <2>2. IsFraction(s) /\ Zero \preceq s
    BY <2>1, AddFacts, OrderFacts
  <2>3. s ++ p = q /\ p ++ s = q
    BY <2>1, <2>2, AddFacts
  <2>4. r ** (p ++ s) = (r ** p) ++ (r ** s)
    BY <2>2, ProductLaws
  <2>5. IsFraction(r ** p) /\ IsFraction(r ** s)
    BY <2>2, ProductFacts
  <2>6. Zero \preceq r ** s
    <3>0. IsFraction(Zero)
      BY SumLaws
    <3>1. CASE Zero \prec s
      <4>1. Zero \prec r ** s
        BY <1>5, <2>2, <3>1, ProductFacts
      <4> QED
        BY <2>5, <3>0, <4>1, OrderFacts
    <3>2. CASE s = Zero
      <4>1. r ** s = Zero
        BY <3>0, <3>2, ProductFacts
      <4> QED
        BY <2>5, <3>0, <4>1, OrderFacts
    <3> QED
      BY <2>2, <3>0, <3>1, <3>2, OrderFacts
  <2>7. PICK x, y : x = r ** p /\ y = r ** s
    OBVIOUS
  <2>8. IsFraction(x) /\ IsFraction(y) /\ IsFraction(x ++ y) /\ (x ++ y) -- x = y
    <3>1. IsFraction(x) /\ IsFraction(y)
      BY <2>5, <2>7
    <3>2. IsFraction(x ++ y) /\ x ++ y = y ++ x
      BY <3>1, AddFacts
    <3>3. (y ++ x) -- x = y
      BY <3>1, AddFacts
    <3> QED
      BY <3>1, <3>2, <3>3
  <2>9. x \preceq x ++ y
    BY <2>6, <2>7, <2>8, OrderFacts
  <2> QED
    BY <2>3, <2>4, <2>7, <2>9
<1> QED
  BY <1>4, <1>5

\* A run with a driven member that fills a room fills a wider one, no member smaller.
LEMMA WiderSolves ==
    ASSUME NEW v, Struct(v), Ruled(v), NEW d \in Divisions(v), NEW mm, ShowsRun(v, d, mm),
           DrivenPlaces(v, d) # {}, NEW w, NEW span, span = w.size[v.axis[d]],
           IsFraction(span), Sum(mm, DOMAIN v.items[d]) \preceq span
    PROVE  /\ RunSolves(v, d, w)
           /\ \A k \in DOMAIN v.items[d] : mm[k] \preceq Distribute(v, d, span)[k]
<1>1. PICK s : s = Sum(mm, DOMAIN v.items[d])
  OBVIOUS
<1>2. /\ RunTyped(v, d)
      /\ \A k \in DOMAIN v.items[d] : IsFraction(mm[k]) /\ Zero \prec mm[k] /\ Resolves(v, d, k)
  BY RunIsTyped DEF ShowsRun
<1>3. IsFraction(s) /\ IsFraction(Zero)
  BY <1>1, <1>2, SumIsFraction, SumLaws DEF Fractional, RunTyped
<1>4. Distribute(v, d, s) = mm /\ Zero \preceq Slack(v, d, s)
  BY <1>1, ShownFills
<1>5. PICK f, x, y : /\ f = Sum(FixedSizes(v, d), Undriven(v, d))
                     /\ x = Slack(v, d, s) /\ y = Slack(v, d, span)
  OBVIOUS
<1>6. IsFraction(f) /\ x = s -- f /\ y = span -- f /\ IsFraction(x) /\ IsFraction(y)
  BY <1>2, <1>3, <1>5, SlackIs
<1>7. x \preceq y
  BY <1>1, <1>3, <1>6, OrderKept
<1>8. Zero \preceq y
  BY <1>3, <1>4, <1>5, <1>6, <1>7, Transitive
<1>9. ASSUME NEW k \in DOMAIN v.items[d]
      PROVE  mm[k] \preceq Distribute(v, d, span)[k] /\ Zero \prec Distribute(v, d, span)[k]
  <2>1. PICK z : z = Distribute(v, d, span)[k]
    OBVIOUS
  <2>2. CASE k \in DrivenPlaces(v, d)
    <3>1. PICK c : c = WeightAt(v, d, k) // TotalWeight(v, d)
      OBVIOUS
    <3>2. IsFraction(c) /\ Zero \prec c
      <4>1. IsFraction(TotalWeight(v, d)) /\ Zero \prec TotalWeight(v, d)
        BY <1>2, <2>2, WeightFacts
      <4>2. IsFraction(WeightAt(v, d, k)) /\ Zero \prec WeightAt(v, d, k)
        BY <1>2, <2>2 DEF RunTyped
      <4> QED
        BY <3>1, <4>1, <4>2, QuotientLaws
    <3>3. z = c ** y
      BY <1>5, <1>9, <2>1, <2>2, <3>1, DistributeIs
    <3>4. mm[k] = c ** x
      BY <1>4, <1>5, <1>9, <2>2, <3>1, DistributeIs
    <3>5. c ** x \preceq c ** y
      BY <1>6, <1>7, <3>2, OrderKept
    <3>6. IsFraction(z)
      BY <1>6, <3>2, <3>3, ProductFacts
    <3>7. mm[k] \preceq z
      BY <3>3, <3>4, <3>5
    <3>8. IsFraction(mm[k]) /\ Zero \prec mm[k]
      BY <1>2
    <3>9. Zero \prec z
      BY <1>3, <3>6, <3>7, <3>8, Transitive
    <3> QED
      BY <2>1, <3>7, <3>9
  <2>3. CASE k \notin DrivenPlaces(v, d)
    <3>1. z = FixedMm(v, d, k) /\ mm[k] = FixedMm(v, d, k)
      BY <1>4, <1>9, <2>1, <2>3, DistributeIs
    <3>2. mm[k] \preceq mm[k]
      BY <1>2, OrderFacts
    <3> QED
      BY <1>2, <2>1, <3>1, <3>2
  <2> QED
    BY <2>2, <2>3
<1>10. RunSolves(v, d, w)
  BY <1>2, <1>5, <1>8, <1>9 DEF RunSolves
<1> QED
  BY <1>9, <1>10

\* A node has the size it had, or more along a.
Widened(u, v, x, a) ==
    /\ u.space[x].size[a] \preceq Spaces(v)[x].size[a]
    /\ \A c \in Axes \ {a} : Spaces(v)[x].size[c] = u.space[x].size[c]

\* A run like the one it was, in a division with more along a, solves and leaves none of
\* its members less, if one is driven or it goes the other way.
LEMMA WidenedRun ==
    ASSUME NEW u, Sized(u), NEW v, Struct(v), IsFramed(v), Ruled(v),
           NEW e, e \in Divisions(u), e \in Divisions(v), Alike(u, e, v, e),
           v.items[e] = u.items[e], v.axis[e] = u.axis[e], NEW a \in Axes, Widened(u, v, e, a),
           u.axis[e] = a => DrivenPlaces(u, e) # {}
    PROVE  /\ RunSolves(v, e, Spaces(v)[e])
           /\ \A y \in Range(v.items[e]) : Widened(u, v, y, a)
<1>1. PICK f, w, g, c : /\ f = ShownSizes(u, e) /\ w = Spaces(v)[e] /\ c = u.axis[e]
                        /\ g = Distribute(v, e, w.size[c])
  OBVIOUS
<1>2. /\ ShowsRun(u, e, f) /\ Sum(f, DOMAIN u.items[e]) = u.space[e].size[c]
      /\ c \in Axes /\ IsRoom(u.space[e]) /\ Fractional(f, DOMAIN u.items[e])
      /\ \A k \in DOMAIN u.items[e] : AtPlace(u.space[u.items[e][k]], u.space[e], c, k, f)
  BY <1>1, SizedShows
<1>3. ShowsRun(v, e, f)
  BY <1>2, AlikeShows DEF Sized
<1>4. /\ IsRoom(w) /\ Fractional(g, DOMAIN v.items[e])
      /\ \A k \in DOMAIN v.items[e] : AtPlace(Spaces(v)[v.items[e][k]], w, c, k, g)
  BY <1>1, RoomAlong
<1>5. /\ u.space[e].size[a] \preceq w.size[a]
      /\ \A x \in Axes \ {a} : w.size[x] = u.space[e].size[x]
  BY <1>1 DEF Widened
<1>6. ASSUME \A k \in DOMAIN v.items[e] : Widened(u, v, v.items[e][k], a)
      PROVE  \A y \in Range(v.items[e]) : Widened(u, v, y, a)
  BY <1>6 DEF Range
<1>7. CASE c # a
  <2>1. Sum(f, DOMAIN v.items[e]) = w.size[v.axis[e]] /\ w.size[v.axis[e]] = w.size[c]
    BY <1>1, <1>2, <1>5, <1>7
  <2>2. RunSolves(v, e, w)
    BY <1>3, <2>1, ShownSolves
  <2>3. g = f
    BY <1>1, <1>3, <2>1, ShownFills
  <2>4. ASSUME NEW k \in DOMAIN v.items[e] PROVE Widened(u, v, v.items[e][k], a)
    <3>1. PICK y : y = v.items[e][k]
      OBVIOUS
    <3>2. AtPlace(Spaces(v)[y], w, c, k, g) /\ AtPlace(u.space[y], u.space[e], c, k, f)
      BY <1>2, <1>4, <2>4, <3>1
    <3>3. Spaces(v)[y].size[c] = u.space[y].size[c]
      BY <2>3, <3>2 DEF AtPlace
    <3>4. Spaces(v)[y].size[a] = w.size[a] /\ u.space[y].size[a] = u.space[e].size[a]
      BY <1>7, <3>2 DEF AtPlace
    <3>5. \A x \in Axes \ {a} : x = c
      BY <1>2, <1>7 DEF Axes
    <3> QED
      BY <1>5, <3>1, <3>3, <3>4, <3>5, Zenon DEF Widened
  <2> QED
    BY <1>1, <1>6, <2>2, <2>4
<1>8. CASE c = a
  <2>1. DrivenPlaces(v, e) # {}
    <3>1. DrivenPlaces(v, e) = DrivenPlaces(u, e)
      BY AlikeFacts DEF Sized
    <3> QED
      BY <1>1, <1>8, <3>1
  <2>2. PICK span : span = w.size[v.axis[e]]
    BY SMTT(40)
  <2>3. IsFraction(span) /\ span = w.size[c]
    BY <1>1, <1>2, <1>4, <2>2 DEF IsRoom
  <2>4. Sum(f, DOMAIN v.items[e]) \preceq span
    BY <1>2, <1>5, <1>8, <2>3
  <2>5. /\ RunSolves(v, e, w)
        /\ \A k \in DOMAIN v.items[e] : f[k] \preceq Distribute(v, e, span)[k]
    BY <1>3, <2>1, <2>2, <2>3, <2>4, WiderSolves
  <2>6. ASSUME NEW k \in DOMAIN v.items[e] PROVE Widened(u, v, v.items[e][k], a)
    <3>1. PICK y : y = v.items[e][k]
      OBVIOUS
    <3>2. AtPlace(Spaces(v)[y], w, c, k, g) /\ AtPlace(u.space[y], u.space[e], c, k, f)
      BY <1>2, <1>4, <2>6, <3>1
    <3>3. Spaces(v)[y].size[a] = g[k] /\ u.space[y].size[a] = f[k]
      BY <1>8, <3>2 DEF AtPlace
    <3>4. f[k] \preceq g[k]
      BY <1>1, <2>3, <2>5
    <3>5. ASSUME NEW x \in Axes \ {a} PROVE Spaces(v)[y].size[x] = u.space[y].size[x]
      <4>1. Spaces(v)[y].size[x] = w.size[x] /\ u.space[y].size[x] = u.space[e].size[x]
        BY <1>8, <3>2, <3>5 DEF AtPlace
      <4> QED
        BY <1>5, <3>5, <4>1
    <3> QED
      BY <3>1, <3>3, <3>4, <3>5, ZenonT(40) DEF Widened
  <2> QED
    BY <1>1, <1>6, <2>5, <2>6
<1> QED
  BY <1>7, <1>8

\* The runs in the joined region are as they were.
LEMMA JoinedAlike ==
    ASSUME NEW u, Sized(u), NEW b, CanMerge(u, b), NEW v, v = MergeAt(u, b),
           NEW i, i = Beside(u, b).low, NEW e, e \in Divisions(v), e \in Subtree(u, i)
    PROVE  /\ e \in Divisions(u) /\ v.axis[e] = u.axis[e] /\ v.items[e] = u.items[e]
           /\ Alike(u, e, v, e)
<1>0. Struct(u)
  BY DEF Sized
<1>1. PICK d : d = RunOf(u, b)
  OBVIOUS
<1>2. /\ Struct(v) /\ SameStock(u, v)
      /\ \/ d = u.root /\ BecomesRoot(u, v, i)
         \/ MergeLeaves(u, v, i, d) /\ JoinsRun(u, v, b, i, d)
         \/ /\ d # u.root /\ MergeLeaves(u, v, i, RunOf(u, d))
            /\ TakesPlace(u, v, d, i, RunOf(u, d)) \/ GivesRun(u, v, d, i, RunOf(u, d))
  BY <1>0, <1>1, MergeMakes
<1>3. MergeRules(u, v, i)
  BY <1>0, RemovalRules
<1>4. e \in Nodes(v)
  BY <1>2 DEF Struct, Regions
<1>5. /\ e \in Divisions(u) /\ v.axis[e] = u.axis[e] /\ v.items[e] = u.items[e]
      /\ i \notin Range(v.items[e])
  <2>1. CASE BecomesRoot(u, v, i)
    <3>1. Range(v.items[e]) \subseteq Nodes(v) \ {v.root}
      BY <1>2, RunFacts DEF Struct
    <3> QED
      BY <2>1, <3>1 DEF BecomesRoot
  <2>2. ASSUME NEW t, MergeLeaves(u, v, i, t)
        PROVE  /\ e \in Divisions(u) /\ v.axis[e] = u.axis[e] /\ v.items[e] = u.items[e]
               /\ i \notin Range(v.items[e])
    BY <2>2 DEF MergeLeaves
  <2> QED
    BY <1>2, <2>1, <2>2
<1>6. Range(v.items[e]) \subseteq Nodes(v) /\ DOMAIN v.items[e] = 1 .. Len(v.items[e])
  BY <1>2, RunFacts DEF Struct
<1>7. ASSUME NEW y \in Range(v.items[e]) PROVE v.rule[y] = u.rule[y]
  <2>1. y \in Nodes(v) /\ y # i
    BY <1>5, <1>6
  <2>2. ASSUME i \in Divisions(u), i \notin Nodes(v), y \in Range(u.items[i]) PROVE FALSE
    <3>1. y \in Range(u.items[e]) /\ e # i
      BY <1>4, <1>5, <2>2
    <3> QED
      BY <1>0, <1>5, <2>2, <3>1 DEF Struct
  <2> QED
    BY <1>3, <2>1, <2>2 DEF MergeRules
<1>8. Boards(v) = Boards(u) \cap Nodes(v) /\ \A y \in Boards(v) : v.thick[y] = u.thick[y]
  BY <1>2, <1>3 DEF MergeRules, SameStock
<1>9. ASSUME NEW k \in DOMAIN u.items[e]
      PROVE  /\ v.rule[v.items[e][k]] = u.rule[u.items[e][k]]
             /\ v.items[e][k] \in Boards(v) <=> u.items[e][k] \in Boards(u)
             /\ u.items[e][k] \in Boards(u) => v.thick[v.items[e][k]] = u.thick[u.items[e][k]]
  <2>1. PICK y : y = v.items[e][k]
    OBVIOUS
  <2>2. y = u.items[e][k] /\ y \in Range(v.items[e])
    BY <1>5, <1>9, <2>1 DEF Range
  <2>3. v.rule[y] = u.rule[y] /\ y \in Nodes(v)
    BY <1>6, <1>7, <2>2
  <2>4. y \in Boards(v) <=> y \in Boards(u)
    BY <1>8, <2>3
  <2> QED
    BY <1>8, <2>1, <2>2, <2>3, <2>4
<1> QED
  BY <1>5, <1>9 DEF Alike

\* A member is no longer along its run than its division, and as wide across it.
LEMMA MemberFits ==
    ASSUME NEW u, Sized(u), NEW d \in Divisions(u), NEW i \in Range(u.items[d]),
           NEW a, a = u.axis[d]
    PROVE  /\ u.space[i].size[a] \preceq u.space[d].size[a]
           /\ \A c \in Axes \ {a} : u.space[i].size[c] = u.space[d].size[c]
<1>1. PICK k \in DOMAIN u.items[d] : u.items[d][k] = i
  BY DEF Range
<1>2. PICK f, S : f = ShownSizes(u, d) /\ S = DOMAIN u.items[d]
  OBVIOUS
<1>3. /\ ShowsRun(u, d, f) /\ Sum(f, S) = u.space[d].size[a] /\ Fractional(f, S)
      /\ S = 1 .. Len(u.items[d]) /\ Len(u.items[d]) \in Nat
      /\ AtPlace(u.space[i], u.space[d], a, k, f)
  BY <1>1, <1>2, SizedShows
<1>4. u.space[i].size[a] = f[k] /\ \A c \in Axes \ {a} : u.space[i].size[c] = u.space[d].size[c]
  BY <1>3 DEF AtPlace
<1>5. IsFiniteSet(S) /\ IsFiniteSet(S \ {k})
  <2>1. IsFiniteSet(S)
    BY <1>2, RunIsTyped DEF RunTyped, Sized
  <2> QED
    BY <2>1, FS_Subset
<1>6. PICK x, y : x = f[k] /\ y = Sum(f, S \ {k})
  OBVIOUS
<1>7. Sum(f, S) = x ++ y
  <2>1. IsFiniteSet(S) /\ Fractional(f, S) /\ k \in S
    BY <1>1, <1>2, <1>3, <1>5
  <2>2. Sum(f, S) = f[k] ++ Sum(f, S \ {k})
    BY ONLY <2>1, SumFacts
  <2> QED
    BY <1>6, <2>2
<1>8. \A j \in S : IsFraction(f[j]) /\ Zero \prec f[j]
  BY <1>2, <1>3 DEF ShowsRun
<1>9. IsFraction(x) /\ IsFraction(y) /\ Zero \preceq y
  <2>1. Fractional(f, S \ {k}) /\ \A j \in S \ {k} : Zero \prec f[j]
    BY <1>8 DEF Fractional
  <2>2. IsFraction(y) /\ Zero \preceq y
    BY <1>5, <1>6, <2>1, SumIsFraction, SumIsPositive
  <2> QED
    BY <1>1, <1>2, <1>6, <1>8, <2>2
<1>10. x \preceq x ++ y
  <2>1. IsFraction(x ++ y) /\ x ++ y = y ++ x /\ (y ++ x) -- x = y
    BY <1>9, AddFacts
  <2> QED
    BY <1>9, <2>1, OrderFacts
<1> QED
  BY <1>2, <1>3, <1>4, <1>6, <1>7, <1>10

\* Room x is as long along a as mm, and as wide across it as w.
SizedAt(x, w, a, mm) == x.size[a] = mm /\ \A c \in Axes \ {a} : x.size[c] = w.size[c]

\* Going from a run that takes its sizes to the rooms of the members it takes in.
LEMMA TakenRooms ==
    ASSUME NEW u, NEW v, Struct(v), IsFramed(v), Ruled(v), NEW K, NEW t \in Divisions(v),
           NEW k \in Nat, NEW p \in Nat, NEW h, RunTakes(u, v, K, t, k, p, h),
           Spaces(v)[t] = u.space[t], NEW y \in DOMAIN v.items[t], k <= y, y <= k + p - 1
    PROVE  SizedAt(Spaces(v)[v.items[t][y]], u.space[t], v.axis[t], h[y])
<1>1. PICK a, w, f : a = v.axis[t] /\ w = u.space[t] /\ f = Distribute(v, t, w.size[a])
  OBVIOUS
<1>0. y \in k .. k + p - 1
  <2>1. y \in Nat
    BY RunFacts DEF Struct
  <2> QED
    BY <2>1
<1>2. PICK mm : /\ ShowsRun(v, t, mm) /\ Sum(mm, DOMAIN v.items[t]) = w.size[a]
                /\ \A z \in k .. k + p - 1 : mm[z] = h[z]
  BY <1>1 DEF RunTakes
<1>3. f = mm
  BY <1>1, <1>2, ShownFills
<1>4. AtPlace(Spaces(v)[v.items[t][y]], w, a, y, f)
  BY <1>1, RoomAlong
<1> QED
  BY <1>0, <1>1, <1>2, <1>3, <1>4, Zenon DEF AtPlace, SizedAt
===============================================================================
