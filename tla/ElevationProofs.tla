--------------------------- MODULE ElevationProofs ----------------------------
(***************************************************************************)
(* What the elevation shows of a unit and offers to do with it, for every  *)
(* unit the edits of Layout reach.  First that splits, locks, removals and *)
(* drags always solve; then, by integer arithmetic over a common           *)
(* denominator, that the side a size field says it keeps stays where it is *)
(* drawn, that a held board whose padlock is clicked has its arrow after,  *)
(* and that a drag along an arrow moves what the arrow is on.              *)
(***************************************************************************)
EXTENDS Elevation, GeometryProofs

\* The members of the run of b once its two neighbours are joined.
LEMMA JoinedMembers ==
    ASSUME NEW u, Struct(u), NEW b, CanMerge(u, b), NEW d, d = RunOf(u, b),
           NEW i, i = Beside(u, b).low, NEW r, r = LeftOf(u, b)
    PROVE  /\ PlaceOf(u, b) - 1 \in DOMAIN r /\ r[PlaceOf(u, b) - 1] = i
           /\ Range(r) \subseteq Range(u.items[d])
<1>1. PICK k, l, s, n : /\ k = PlaceOf(u, b) /\ l = k - 1 /\ s = u.items[d] /\ n = Len(s)
  OBVIOUS
<1>2. i \in Nodes(u) /\ d \in Divisions(u) /\ i \in Range(s)
  BY <1>1, BesideIsMember
<1>3. /\ n \in Nat /\ DOMAIN s = 1 .. n /\ k \in 2 .. n - 1 /\ s \in Seq(Nodes(u))
      /\ \A x \in 1 .. n : s[x] \in Range(s)
  <2>1. IsRun(s, Nodes(u) \ {u.root})
    BY <1>1, <1>2, Zenon DEF Struct
  <2>2. k \in 2 .. n - 1
    BY <1>1 DEF CanMerge
  <2>3. s \in Seq(Nodes(u) \ {u.root})
    BY <2>1 DEF IsRun
  <2> QED
    BY <1>1, <2>1, <2>2, <2>3, RunFacts, SMTT(40)
<1>4. /\ l \in 1 .. n /\ l + 3 - 1 <= n /\ 3 \in Nat /\ l - 1 + 1 = l
      /\ l \in 1 .. n - 3 + 1
  BY <1>1, <1>3, SMTT(40)
<1>5. PICK t : t = <<i>>
  OBVIOUS
<1>6. t \in Seq(Nodes(u)) /\ Len(t) = 1 /\ t[1] = i
  BY <1>2, <1>5
<1>7. SplicedPlaces(s, l, 3, t, r)
  <2>1. r = Splice(s, l, 3, t)
    BY <1>1, <1>5 DEF LeftOf
  <2> QED
    BY <1>1, <1>3, <1>4, <1>6, <2>1, SplicePlaces, SMTT(40)
<1>8. /\ DOMAIN r = 1 .. n - 3 + 1 /\ r[l] = i
      /\ \A x \in 1 .. l - 1 : r[x] = s[x]
      /\ \A x \in l + 3 .. n : r[x - 3 + 1] = s[x]
  <2>1. r[l - 1 + 1] = t[1]
    BY <1>6, <1>7 DEF SplicedPlaces
  <2> QED
    BY <1>1, <1>4, <1>6, <1>7, <2>1 DEF SplicedPlaces
<1>9. ASSUME NEW y \in 1 .. n - 3 + 1 PROVE r[y] \in Range(s)
  <2>1. CASE y \in 1 .. l - 1
    BY <1>3, <1>4, <1>8, <2>1
  <2>2. CASE y = l
    BY <1>2, <1>8, <2>2
  <2>3. CASE y > l
    <3>1. PICK x : x = y + 2
      OBVIOUS
    <3>2. x \in l + 3 .. n /\ x \in 1 .. n /\ x - 3 + 1 = y
      BY <1>3, <1>4, <1>9, <2>3, <3>1
    <3> QED
      BY <1>3, <1>8, <3>2
  <2> QED
    BY <1>3, <1>4, <1>9, <2>1, <2>2, <2>3
<1> QED
  BY <1>1, <1>4, <1>8, <1>9 DEF Range

\* The joined region is wider in the run of the board.
LEMMA EnterJoin ==
    ASSUME NEW u, Sized(u), NEW b, CanMerge(u, b), NEW d, d = RunOf(u, b),
           NEW i, i = Beside(u, b).low, NEW v, IsFramed(v), NEW K, LeavesOutside(u, v, i, d, K),
           JoinsRun(u, v, b, i, d), Spaces(v)[d] = u.space[d],
           NEW x \in Range(v.items[d]), x \in Subtree(u, i)
    PROVE  Widened(u, v, x, u.axis[d])
<1>1. /\ Struct(u) /\ Struct(v) /\ Ruled(v) /\ d \in Divisions(v) /\ d \notin Subtree(u, i)
      /\ v.axis[d] = u.axis[d] /\ v.items[d] = LeftOf(u, b)
  BY DEF LeavesOutside, Sized, MergeLeaves, JoinsRun
<1>2. i \in Nodes(u) /\ d \in Divisions(u) /\ i \in Range(u.items[d])
  BY <1>1, BesideIsMember
<1>3. PICK l, a : l = PlaceOf(u, b) - 1 /\ a = u.axis[d]
  OBVIOUS
<1>4. l \in DOMAIN v.items[d] /\ v.items[d][l] = i /\ Range(v.items[d]) \subseteq Range(u.items[d])
  BY <1>1, <1>3, JoinedMembers
<1>5. x = i
  BY <1>1, <1>2, <1>4, SubtreeFacts
<1>6. PICK p, q, z, h : /\ p = Extent(u, i) /\ q = Extent(u, b) /\ h = Beside(u, b).high
                        /\ z = Extent(u, h)
  OBVIOUS
<1>7. PICK w : w = (p ++ q) ++ z
  OBVIOUS
<1>8. /\ IsFraction(p) /\ IsFraction(q) /\ IsFraction(z) /\ Zero \prec q /\ Zero \prec z
      /\ p = u.space[i].size[a]
  <2>1. \A k \in DOMAIN u.items[d] : /\ ShownSizes(u, d)[k] = Extent(u, u.items[d][k])
                                     /\ IsFraction(ShownSizes(u, d)[k])
                                     /\ Zero \prec ShownSizes(u, d)[k]
    BY <1>2, SizedRun
  <2>2. \A y \in Range(u.items[d]) : IsFraction(Extent(u, y)) /\ Zero \prec Extent(u, y)
    BY <2>1 DEF Range
  <2>3. b \in Range(u.items[d]) /\ h \in Range(u.items[d])
    <3>1. b \in Nodes(u) \ {u.root}
      BY <1>1 DEF CanMerge, Struct, Regions
    <3>2. b \in Range(u.items[d])
      BY <1>1, <3>1, PlaceFacts
    <3>3. IsRun(u.items[d], Nodes(u) \ {u.root})
      BY <1>1, <1>2, Zenon DEF Struct
    <3>4. PlaceOf(u, b) + 1 \in 1 .. Len(u.items[d]) /\ h = u.items[d][PlaceOf(u, b) + 1]
      <4>1. PICK k, n : k = PlaceOf(u, b) /\ n = Len(u.items[d])
        OBVIOUS
      <4>2. k \in 2 .. n - 1 /\ n \in Nat
        BY <3>3, <4>1, RunFacts DEF CanMerge
      <4>3. k + 1 \in 1 .. n
        BY <4>2
      <4> QED
        BY <1>6, <4>1, <4>3 DEF Beside
    <3> QED
      BY <3>2, <3>3, <3>4, RunFacts
  <2>4. Extent(u, i) = u.space[i].size[a]
    <3>1. RunOf(u, i) = d
      BY <1>1, <1>2, PlaceFacts
    <3> QED
      BY <1>3, <3>1 DEF Extent, AxisOf
  <2> QED
    BY <1>2, <1>6, <2>2, <2>3, <2>4
<1>9. p \preceq w
  <2>1. IsFraction(p ++ q) /\ p \prec p ++ q
    BY <1>8, AddFacts, OrderFacts
  <2>2. IsFraction(w) /\ p ++ q \prec w
    BY <1>7, <1>8, <2>1, AddFacts, OrderFacts
  <2>3. p ++ q \preceq w
    BY <2>1, <2>2, OrderFacts
  <2>4. p \prec w
    BY <1>8, <2>1, <2>2, <2>3, Transitive
  <2> QED
    BY <1>8, <2>2, <2>4, OrderFacts
<1>10. PICK f : f[PlaceOf(u, b) - 1] = w /\ RunTakes(u, v, K, d, PlaceOf(u, b) - 1, 1, f)
  BY <1>6, <1>7, JoinKeeps
<1>11. f[l] = w /\ RunTakes(u, v, K, d, l, 1, f)
  BY <1>3, <1>10
<1>12. l <= l /\ l <= l + 1 - 1 /\ l \in Nat /\ 1 \in Nat
  <2>1. l \in Nat
    BY <1>1, <1>4, RunFacts DEF Struct
  <2> QED
    BY <2>1
<1>13. SizedAt(Spaces(v)[i], u.space[d], u.axis[d], w)
  <2>1. Struct(v) /\ Ruled(v) /\ d \in Divisions(v)
    BY <1>1
  <2>2. l \in DOMAIN v.items[d] /\ i = v.items[d][l]
    BY <1>4
  <2>3. RunTakes(u, v, K, d, l, 1, f)
    BY <1>11
  <2> QED
    <3>1. SizedAt(Spaces(v)[v.items[d][l]], u.space[d], v.axis[d], f[l])
      BY <1>12, <2>1, <2>2, <2>3, TakenRooms
    <3> QED
      BY <1>1, <1>11, <2>2, <3>1
<1>14. \A c \in Axes \ {a} : u.space[i].size[c] = u.space[d].size[c]
  BY <1>2, <1>3, MemberFits
<1> QED
  BY <1>1, <1>3, <1>5, <1>8, <1>9, <1>13, <1>14, ZenonT(40) DEF Widened, SizedAt

\* So it is in the place of its division,
LEMMA EnterPlace ==
    ASSUME NEW u, Sized(u), NEW d \in Divisions(u), d # u.root, NEW p, p = RunOf(u, d),
           NEW i \in Range(u.items[d]), i \notin Boards(u),
           NEW v, IsFramed(v), NEW K, LeavesOutside(u, v, i, p, K),
           TakesPlace(u, v, d, i, p), Spaces(v)[p] = u.space[p],
           NEW x \in Range(v.items[p]), x \in Subtree(u, i)
    PROVE  Widened(u, v, x, u.axis[d])
<1>1. /\ Struct(u) /\ Struct(v) /\ Ruled(v) /\ p \in Divisions(v) /\ p \notin Subtree(u, i)
      /\ v.axis[p] = u.axis[p] /\ i \in Nodes(u)
      /\ v.items[p] = [u.items[p] EXCEPT ![PlaceOf(u, d)] = i]
  BY DEF LeavesOutside, Sized, MergeLeaves, TakesPlace
<1>2. d \in Nodes(u) \ {u.root} /\ d \notin Boards(u)
  BY <1>1 DEF Struct, Regions
<1>3. PICK k, s : k = PlaceOf(u, d) /\ s = u.items[p]
  OBVIOUS
<1>4. p \in Divisions(u) /\ k \in 1 .. Len(s) /\ s[k] = d /\ DOMAIN s = 1 .. Len(s)
      /\ k \in Nat /\ d \in Range(s)
  <2>1. p \in Divisions(u) /\ k \in 1 .. Len(s) /\ s[k] = d /\ d \in Range(s)
    BY <1>1, <1>2, <1>3, PlaceFacts
  <2>2. IsRun(s, Nodes(u) \ {u.root})
    BY <1>1, <1>3, <2>1 DEF Struct
  <2> QED
    BY <2>1, <2>2, RunFacts
<1>5. k \in DOMAIN v.items[p] /\ v.items[p][k] = i
  BY <1>1, <1>3, <1>4
<1>6. x = i
  <2>1. PICK y \in DOMAIN v.items[p] : x = v.items[p][y]
    BY DEF Range
  <2>2. CASE y = k
    BY <1>5, <2>1, <2>2
  <2>3. CASE y # k
    <3>1. y \in DOMAIN s /\ x = s[y]
      BY <1>1, <1>3, <2>1, <2>3
    <3>2. x \in Range(u.items[p])
      BY <1>3, <3>1 DEF Range
    <3> QED
      BY <1>1, <1>4, <3>2, SubtreeFacts
  <2> QED
    BY <2>2, <2>3
<1>7. RunTakes(u, v, K, p, k, 1, ShownSizes(u, p))
  BY <1>2, <1>3, PlaceKeeps
<1>8. k <= k /\ k <= k + 1 - 1 /\ 1 \in Nat
  BY <1>4
<1>9. SizedAt(Spaces(v)[i], u.space[p], u.axis[p], ShownSizes(u, p)[k])
  <2>1. Struct(v) /\ Ruled(v) /\ p \in Divisions(v) /\ k \in Nat
    BY <1>1, <1>4
  <2>2. k \in DOMAIN v.items[p] /\ i = v.items[p][k]
    BY <1>5, SMTT(40)
  <2> QED
    <3>1. SizedAt(Spaces(v)[v.items[p][k]], u.space[p], v.axis[p], ShownSizes(u, p)[k])
      BY <1>7, <1>8, <2>1, <2>2, TakenRooms
    <3> QED
      BY <1>1, <2>2, <3>1
<1>10. ShownSizes(u, p)[k] = u.space[d].size[u.axis[p]]
  BY <1>3, <1>4, Zenon DEF ShownSizes
<1>11. \A c \in Axes \ {u.axis[p]} : u.space[d].size[c] = u.space[p].size[c]
  BY <1>3, <1>4, MemberFits
<1>12. \A c \in Axes : Spaces(v)[i].size[c] = u.space[d].size[c]
  BY <1>9, <1>10, <1>11 DEF SizedAt
<1>13. /\ u.space[i].size[u.axis[d]] \preceq u.space[d].size[u.axis[d]]
       /\ \A c \in Axes \ {u.axis[d]} : u.space[i].size[c] = u.space[d].size[c]
  BY MemberFits
<1>14. u.axis[d] \in Axes
  BY DEF Sized, Ruled
<1> QED
  BY <1>6, <1>12, <1>13, <1>14 DEF Widened

\* and so are its members in the run above.
LEMMA EnterGive ==
    ASSUME NEW u, Sized(u), NEW d \in Divisions(u), d # u.root, NEW p, p = RunOf(u, d),
           NEW i \in Range(u.items[d]), u.axis[d] # u.axis[p],
           NEW v, IsFramed(v), NEW K, LeavesOutside(u, v, i, p, K),
           GivesRun(u, v, d, i, p), Spaces(v)[p] = u.space[p],
           NEW x \in Range(v.items[p]), x \in Subtree(u, i)
    PROVE  Widened(u, v, x, u.axis[d])
<1>1. /\ Struct(u) /\ Struct(v) /\ Ruled(v) /\ p \in Divisions(v) /\ p \notin Subtree(u, i)
      /\ v.axis[p] = u.axis[p] /\ i \in Nodes(u) /\ i \in Divisions(u) /\ u.axis[i] = u.axis[p]
      /\ v.items[p] = Splice(u.items[p], PlaceOf(u, d), 1, u.items[i])
  BY DEF LeavesOutside, Sized, MergeLeaves, GivesRun
<1>2. PICK k, s, t, r : k = PlaceOf(u, d) /\ s = u.items[p] /\ t = u.items[i] /\ r = v.items[p]
  OBVIOUS
<1>3. /\ p \in Divisions(u) /\ k \in 1 .. Len(s) /\ s[k] = d /\ d \in Range(s)
      /\ DOMAIN s = 1 .. Len(s) /\ Len(s) \in Nat /\ DOMAIN t = 1 .. Len(t) /\ Len(t) \in Nat
      /\ s \in Seq(Nodes(u)) /\ t \in Seq(Nodes(u)) /\ p # d
      /\ \A y \in 1 .. Len(s) : s[y] \in Range(s)
  <2>1. d \in Nodes(u) \ {u.root}
    BY <1>1 DEF Struct, Regions
  <2>2. p \in Divisions(u) /\ k \in 1 .. Len(s) /\ s[k] = d /\ d \in Range(s)
    BY <1>1, <1>2, <2>1, PlaceFacts
  <2>3. IsRun(s, Nodes(u) \ {u.root}) /\ IsRun(t, Nodes(u) \ {u.root})
    BY <1>1, <1>2, <2>2, Zenon DEF Struct
  <2>4. s \in Seq(Nodes(u) \ {u.root}) /\ t \in Seq(Nodes(u) \ {u.root})
    BY <2>3 DEF IsRun
  <2>5. p # d
    OBVIOUS
  <2> QED
    BY <2>2, <2>3, <2>4, <2>5, RunFacts
<1>4. SplicedPlaces(s, k, 1, t, r)
  <2>1. r = Splice(s, k, 1, t) /\ 1 \in Nat /\ k + 1 - 1 <= Len(s)
    BY <1>1, <1>2, <1>3
  <2> QED
    BY <1>3, <2>1, SplicePlaces
<1>5. PICK n, m : n = Len(s) /\ m = Len(t)
  BY Zenon
<1>6. /\ DOMAIN r = 1 .. n - 1 + m
      /\ \A y \in 1 .. k - 1 : r[y] = s[y]
      /\ \A y \in 1 .. m : r[k - 1 + y] = t[y]
      /\ \A y \in k + 1 .. n : r[y - 1 + m] = s[y]
  BY <1>4, <1>5, Zenon DEF SplicedPlaces
<1>7. PICK y \in DOMAIN r : x = r[y]
  BY <1>2 DEF Range
<1>8. y \in k .. k + m - 1
  <2>1. x \notin Range(s)
    <3>1. i \notin Range(s)
      BY <1>1, <1>2, <1>3 DEF Struct
    <3> QED
      BY <1>1, <1>2, <1>3, <3>1, SubtreeFacts
  <2>2. ~(y \in 1 .. k - 1)
    BY <1>3, <1>5, <1>6, <1>7, <2>1
  <2>3. ~(y > k + m - 1)
    <3>1. SUFFICES ASSUME y > k + m - 1 PROVE FALSE
      OBVIOUS
    <3>2. PICK z : z = y + 1 - m
      OBVIOUS
    <3>3. z \in k + 1 .. n /\ z \in 1 .. n /\ z - 1 + m = y
      <4>1. n \in Nat /\ m \in Nat /\ k \in 1 .. n /\ y \in 1 .. n - 1 + m
        BY <1>3, <1>5, <1>6, <1>7
      <4> QED
        BY <3>1, <3>2, <4>1
    <3>4. r[y] = s[z]
      BY <1>6, <3>3
    <3> QED
      BY <1>3, <1>5, <1>7, <2>1, <3>3, <3>4
  <2> QED
    BY <1>3, <1>5, <1>6, <2>2, <2>3
<1>9. PICK h : /\ \A z \in 1 .. Len(u.items[i]) : h[PlaceOf(u, d) - 1 + z] = ShownSizes(u, i)[z]
               /\ RunTakes(u, v, K, p, PlaceOf(u, d), Len(u.items[i]), h)
  BY GiveKeeps
<1>10. RunTakes(u, v, K, p, k, m, h) /\ \A z \in 1 .. m : h[k - 1 + z] = ShownSizes(u, i)[z]
  BY <1>2, <1>5, <1>9
<1>11. PICK z : z = y - k + 1
  OBVIOUS
<1>12. z \in 1 .. m /\ k - 1 + z = y /\ k <= y /\ y <= k + m - 1 /\ k \in Nat /\ m \in Nat
  <2>1. k \in Nat /\ m \in Nat
    BY <1>3, <1>5
  <2> QED
    BY <1>8, <1>11, <2>1
<1>13. x = t[z] /\ x \in Range(u.items[i]) /\ h[y] = ShownSizes(u, i)[z] /\ z \in DOMAIN u.items[i]
  <2>1. x = t[z] /\ h[y] = ShownSizes(u, i)[z]
    BY <1>6, <1>7, <1>10, <1>12
  <2>2. z \in DOMAIN t
    BY <1>3, <1>5, <1>12
  <2> QED
    BY <1>2, <2>1, <2>2 DEF Range
<1>14. SizedAt(Spaces(v)[x], u.space[p], u.axis[p], h[y])
  <2>1. Struct(v) /\ Ruled(v) /\ p \in Divisions(v)
    BY <1>1
  <2>2. y \in DOMAIN v.items[p] /\ x = v.items[p][y]
    BY <1>2, <1>7
  <2>3. RunTakes(u, v, K, p, k, m, h)
    BY <1>10
  <2> QED
    <3>1. SizedAt(Spaces(v)[v.items[p][y]], u.space[p], v.axis[p], h[y])
      BY <1>12, <2>1, <2>2, <2>3, TakenRooms
    <3> QED
      BY <1>1, <2>2, <3>1
<1>15. PICK a, c : a = u.axis[d] /\ c = u.axis[p]
  OBVIOUS
<1>16. a \in Axes /\ c \in Axes /\ a # c /\ Axes \ {a} = {c} /\ Axes \ {c} = {a}
  <2>1. a \in Axes /\ c \in Axes /\ a # c
    BY <1>3, <1>15 DEF Sized, Ruled
  <2> QED
    BY <2>1 DEF Axes
<1>17. Spaces(v)[x].size[c] = u.space[x].size[c]
  <2>1. ShownSizes(u, i)[z] = u.space[x].size[c]
    BY <1>1, <1>2, <1>13, <1>15, Zenon DEF ShownSizes
  <2> QED
    BY <1>13, <1>14, <1>15, <2>1 DEF SizedAt
<1>18. u.space[x].size[a] \preceq Spaces(v)[x].size[a]
  <2>1. u.space[x].size[a] = u.space[i].size[a]
    BY <1>1, <1>13, <1>15, <1>16, MemberFits, SMTT(40)
  <2>2. u.space[i].size[a] \preceq u.space[d].size[a]
    BY <1>15, MemberFits
  <2>3. u.space[d].size[a] = u.space[p].size[a]
    BY <1>2, <1>3, <1>15, <1>16, MemberFits, SMTT(40)
  <2>4. Spaces(v)[x].size[a] = u.space[p].size[a]
    BY <1>14, <1>15, <1>16 DEF SizedAt
  <2> QED
    BY <2>1, <2>2, <2>3, <2>4
<1> QED
  BY <1>15, <1>16, <1>17, <1>18 DEF Widened

\* From what is outside the joined region one comes to nodes that are as wide as they
\* were, or wider along the run of the board.
LEMMA JoinedEnters ==
    ASSUME NEW u, Sized(u), Flat(u), NEW b, CanMerge(u, b), NEW v, v = MergeAt(u, b),
           NEW d, d = RunOf(u, b), NEW i, i = Beside(u, b).low
    PROVE  /\ v.root \in Subtree(u, i) => Widened(u, v, v.root, u.axis[d])
           /\ \A e \in Divisions(v) \ Subtree(u, i) : \A x \in Range(v.items[e]) :
                 x \in Subtree(u, i) => Widened(u, v, x, u.axis[d])
<1>0. Struct(u) /\ IsFramed(u) /\ Ruled(u)
  BY DEF Sized
<1>1. PICK K : K = Nodes(v) \ Subtree(u, i)
  OBVIOUS
<1>2. /\ Struct(v) /\ IsFramed(v) /\ Ruled(v) /\ SameStock(u, v)
      /\ OuterSpace(v) = OuterSpace(u) /\ \A x \in K : Spaces(v)[x] = u.space[x]
  BY <1>1, MergeKeeps
<1>3. \/ d = u.root /\ BecomesRoot(u, v, i)
      \/ MergeLeaves(u, v, i, d) /\ JoinsRun(u, v, b, i, d)
      \/ /\ d # u.root /\ MergeLeaves(u, v, i, RunOf(u, d))
         /\ TakesPlace(u, v, d, i, RunOf(u, d)) \/ GivesRun(u, v, d, i, RunOf(u, d))
  BY <1>0, MergeMakes
<1>4. /\ i \in Nodes(u) /\ i \notin Boards(u) /\ d \in Divisions(u) /\ i \in Range(u.items[d])
      /\ i # u.root
  <2>1. i \in Nodes(u) /\ i \notin Boards(u) /\ d \in Divisions(u) /\ i \in Range(u.items[d])
    BY <1>0, BesideIsMember
  <2> QED
    BY <1>0, <2>1, AboveIsOutside
<1>5. Divisions(v) \subseteq Nodes(v) /\ v.root \in Nodes(v)
  BY <1>2 DEF Struct, Regions
<1>6. CASE d = u.root /\ BecomesRoot(u, v, i)
  <2>1. v.root = i /\ Divisions(v) \subseteq Subtree(u, i)
    BY <1>5, <1>6 DEF BecomesRoot
  <2>2. Spaces(v)[i] = u.space[d]
    <3>1. Spaces(v)[v.root] = OuterSpace(v)
      BY <1>2, <1>5, SpacesFacts DEF Places
    <3>2. u.root \in Nodes(u) /\ u.space = Spaces(u)
      BY <1>0 DEF Struct, Regions, Sized
    <3>3. u.space[u.root] = OuterSpace(u)
      BY <1>0, <3>2, SpacesFacts DEF Places
    <3> QED
      BY <1>2, <1>6, <2>1, <3>1, <3>3
  <2>3. Widened(u, v, i, u.axis[d])
    BY <1>4, <2>2, MemberFits DEF Widened
  <2> QED
    BY <2>1, <2>3
<1>7. ASSUME NEW t, MergeLeaves(u, v, i, t),
             \A x \in Range(v.items[t]) : x \in Subtree(u, i) => Widened(u, v, x, u.axis[d])
      PROVE  /\ v.root \notin Subtree(u, i)
             /\ \A e \in Divisions(v) \ Subtree(u, i) : \A x \in Range(v.items[e]) :
                   x \in Subtree(u, i) => Widened(u, v, x, u.axis[d])
  <2>1. v.root \notin Subtree(u, i)
    BY <1>0, <1>4, <1>7, SubtreeFacts DEF MergeLeaves
  <2>2. ASSUME NEW e \in Divisions(v), e \notin Subtree(u, i), e # t
        PROVE  \A x \in Range(v.items[e]) : x \notin Subtree(u, i)
    <3>1. /\ e \in Divisions(u) /\ v.items[e] = u.items[e] /\ i \notin Range(u.items[e])
      BY <1>7, <2>2 DEF MergeLeaves
    <3> QED
      BY <1>0, <1>4, <2>2, <3>1, SubtreeFacts
  <2> QED
    BY <1>7, <2>1, <2>2
<1>8. ASSUME NEW t, MergeLeaves(u, v, i, t)
      PROVE  LeavesOutside(u, v, i, t, K) /\ Spaces(v)[t] = u.space[t]
  <2>1. LeavesOutside(u, v, i, t, K)
    BY <1>1, <1>2, <1>4, <1>8 DEF LeavesOutside
  <2>2. t \in K
    BY <1>1, <1>5, <1>8 DEF MergeLeaves
  <2> QED
    BY <1>2, <2>1, <2>2
<1>9. CASE MergeLeaves(u, v, i, d) /\ JoinsRun(u, v, b, i, d)
  <2>1. \A x \in Range(v.items[d]) : x \in Subtree(u, i) => Widened(u, v, x, u.axis[d])
    BY <1>2, <1>8, <1>9, EnterJoin
  <2> QED
    BY <1>7, <1>9, <2>1
<1>10. CASE /\ d # u.root /\ MergeLeaves(u, v, i, RunOf(u, d))
            /\ TakesPlace(u, v, d, i, RunOf(u, d)) \/ GivesRun(u, v, d, i, RunOf(u, d))
  <2>1. PICK p : p = RunOf(u, d)
    OBVIOUS
  <2>2. d \in Nodes(u) \ {u.root} /\ p \in Divisions(u) /\ d \in Range(u.items[p])
    BY <1>0, <1>4, <1>10, <2>1, PlaceFacts, Zenon DEF Struct, Regions
  <2>3. u.axis[d] # u.axis[p]
    BY <1>4, <2>2 DEF Flat
  <2>4. LeavesOutside(u, v, i, p, K) /\ Spaces(v)[p] = u.space[p]
    BY <1>8, <1>10, <2>1
  <2>5. \A x \in Range(v.items[p]) : x \in Subtree(u, i) => Widened(u, v, x, u.axis[d])
    <3>1. CASE TakesPlace(u, v, d, i, p)
      BY <1>2, <1>4, <1>10, <2>1, <2>4, <3>1, EnterPlace
    <3>2. CASE GivesRun(u, v, d, i, p)
      BY <1>2, <1>4, <1>10, <2>1, <2>3, <2>4, <3>2, EnterGive
    <3> QED
      BY <1>10, <2>1, <3>1, <3>2
  <2> QED
    BY <1>7, <1>10, <2>1, <2>5
<1> QED
  BY <1>3, <1>6, <1>9, <1>10

\* The divisions of the joined region that go the way of the board's run, each with a
\* member that shares its room.
CanWiden(u, i, a) ==
    \A e \in Divisions(u) \cap Subtree(u, i) : u.axis[e] = a => DrivenPlaces(u, e) # {}

\* Every node of the joined region is as wide as it was, or wider along the run of the
\* board, where every run in it that goes that way can be widened.
LEMMA JoinedWidens ==
    ASSUME NEW u, Sized(u), Flat(u), NEW b, CanMerge(u, b), NEW v, v = MergeAt(u, b),
           NEW i, i = Beside(u, b).low, NEW a, a = u.axis[RunOf(u, b)], CanWiden(u, i, a)
    PROVE  /\ \A x \in Nodes(v) \cap Subtree(u, i) : Widened(u, v, x, a)
           /\ \A e \in Divisions(v) \cap Subtree(u, i) : RunSolves(v, e, Spaces(v)[e])
<1>1. Struct(v) /\ IsFramed(v) /\ Ruled(v)
  BY MergeKeeps
<1>2. /\ v.root \in Subtree(u, i) => Widened(u, v, v.root, a)
      /\ \A e \in Divisions(v) \ Subtree(u, i) : \A x \in Range(v.items[e]) :
            x \in Subtree(u, i) => Widened(u, v, x, a)
  BY JoinedEnters
<1>3. a \in Axes
  <2>1. RunOf(u, b) \in Divisions(u)
    BY BesideIsMember DEF Sized
  <2> QED
    BY <2>1 DEF Sized, Ruled
<1>4. ASSUME NEW e \in Divisions(v), e \in Subtree(u, i), Widened(u, v, e, a)
      PROVE  /\ RunSolves(v, e, Spaces(v)[e])
             /\ \A y \in Range(v.items[e]) : Widened(u, v, y, a)
  <2>1. /\ e \in Divisions(u) /\ v.axis[e] = u.axis[e] /\ v.items[e] = u.items[e]
        /\ Alike(u, e, v, e)
    BY <1>4, JoinedAlike
  <2>2. u.axis[e] = a => DrivenPlaces(u, e) # {}
    BY <1>4, <2>1 DEF CanWiden
  <2> QED
    BY <1>1, <1>3, <1>4, <2>1, <2>2, WidenedRun
<1> DEFINE T == {x \in Nodes(v) : x \in Subtree(u, i) => Widened(u, v, x, a)}
<1>5. v.root \in T
  BY <1>1, <1>2 DEF Struct, Regions
<1>6. ASSUME NEW e \in Divisions(v), e \in T, NEW y \in Range(v.items[e]) PROVE y \in T
  <2>1. y \in Nodes(v)
    BY <1>1, RunFacts DEF Struct
  <2> QED
    BY <1>2, <1>4, <1>6, <2>1
<1> HIDE DEF T
<1>7. Nodes(v) \subseteq T
  BY <1>1, <1>5, <1>6, TreeInduction
<1>8. \A x \in Nodes(v) \cap Subtree(u, i) : Widened(u, v, x, a)
  BY <1>7 DEF T
<1> QED
  BY <1>1, <1>4, <1>8 DEF Struct, Regions

\* A removal solves, where every run it widens can be widened (edit.py merge_at).
LEMMA MergeSolves ==
    ASSUME NEW u, Sized(u), Flat(u), DOMAIN u.pinned = {}, NEW b, CanMerge(u, b),
           CanWiden(u, Beside(u, b).low, AxisOf(u, b))
    PROVE  Solves(Solved(MergeAt(u, b)))
<1>1. PICK v : v = MergeAt(u, b)
  OBVIOUS
<1>2. PICK i, a, K : /\ i = Beside(u, b).low /\ a = u.axis[RunOf(u, b)]
                     /\ K = Nodes(v) \ Subtree(u, i)
  OBVIOUS
<1>3. /\ Struct(v) /\ IsFramed(v) /\ Ruled(v) /\ SameStock(u, v)
      /\ KeepsRooms(u, v, K) /\ \A x \in K : Spaces(v)[x] = u.space[x]
  BY <1>1, <1>2, MergeKeeps
<1>4. ASSUME NEW e \in Divisions(v) PROVE RunSolves(v, e, Spaces(v)[e])
  <2>1. e \in Nodes(v)
    BY <1>3 DEF Struct, Regions
  <2>2. CASE e \in Subtree(u, i)
    <3>1. CanWiden(u, i, a)
      BY <1>2 DEF AxisOf
    <3> QED
      BY <1>1, <1>2, <2>2, <3>1, JoinedWidens
  <2>3. CASE e \notin Subtree(u, i)
    <3>1. e \in K
      BY <1>2, <2>1, <2>3
    <3>2. PICK mm : ShowsRun(v, e, mm) /\ Sum(mm, DOMAIN v.items[e]) = u.space[e].size[v.axis[e]]
      BY <1>3, <3>1 DEF KeepsRooms
    <3>3. Spaces(v)[e] = u.space[e]
      BY <1>3, <3>1
    <3> QED
      BY <1>3, <3>2, <3>3, ShownSolves
  <2> QED
    BY <2>2, <2>3
<1>5. DOMAIN v.pinned = {}
  BY <1>3, SMTT(40) DEF SameStock
<1> QED
  BY <1>1, <1>3, <1>4, <1>5, RunsSolve

------------------------------------------------------------------------------
(* What a drag resizes.                                                     *)
\* A run like the one it was, in a division as long as it was, solves and gives its
\* members the lengths they had.
LEMMA AlikeSolves ==
    ASSUME NEW u, Sized(u), NEW v, Struct(v), IsFramed(v), Ruled(v),
           NEW e, e \in Divisions(u), e \in Divisions(v), Alike(u, e, v, e),
           v.items[e] = u.items[e], v.axis[e] = u.axis[e], NEW a, a = u.axis[e],
           Spaces(v)[e].size[a] = u.space[e].size[a]
    PROVE  /\ RunSolves(v, e, Spaces(v)[e])
           /\ \A y \in Range(u.items[e]) :
                 /\ Spaces(v)[y].size[a] = u.space[y].size[a]
                 /\ \A c \in Axes \ {a} : /\ Spaces(v)[y].size[c] = Spaces(v)[e].size[c]
                                          /\ u.space[y].size[c] = u.space[e].size[c]
<1>1. PICK f, w, g : /\ f = ShownSizes(u, e) /\ w = Spaces(v)[e]
                     /\ g = Distribute(v, e, w.size[a])
  BY SMTT(40)
<1>2. /\ ShowsRun(u, e, f) /\ Sum(f, DOMAIN u.items[e]) = u.space[e].size[a]
      /\ \A k \in DOMAIN u.items[e] : AtPlace(u.space[u.items[e][k]], u.space[e], a, k, f)
  BY <1>1, SizedShows
<1>3. ShowsRun(v, e, f)
  BY <1>2, AlikeShows DEF Sized
<1>4. \A k \in DOMAIN v.items[e] : AtPlace(Spaces(v)[v.items[e][k]], w, a, k, g)
  BY <1>1, RoomAlong, Zenon
<1>5. Sum(f, DOMAIN v.items[e]) = w.size[v.axis[e]] /\ w.size[v.axis[e]] = w.size[a]
  BY <1>1, <1>2
<1>6. RunSolves(v, e, w)
  BY <1>3, <1>5, ShownSolves
<1>7. g = f
  BY <1>1, <1>3, <1>5, ShownFills
<1>8. ASSUME NEW y \in Range(u.items[e])
      PROVE  /\ Spaces(v)[y].size[a] = u.space[y].size[a]
             /\ \A c \in Axes \ {a} : /\ Spaces(v)[y].size[c] = w.size[c]
                                      /\ u.space[y].size[c] = u.space[e].size[c]
  <2>1. PICK k \in DOMAIN u.items[e] : y = u.items[e][k]
    BY DEF Range
  <2>2. AtPlace(Spaces(v)[y], w, a, k, f) /\ AtPlace(u.space[y], u.space[e], a, k, f)
    BY <1>2, <1>4, <1>7, <2>1
  <2> QED
    BY <2>2 DEF AtPlace
<1> QED
  BY <1>1, <1>6, <1>8

\* A drag leaves the other runs as they were.
LEMMA DragAlike ==
    ASSUME NEW u, Struct(u), NEW v, NEW d, NEW x, NEW y, NEW s, IsDrag(u, v, d, x, y, s),
           NEW e \in Divisions(u), e # d
    PROVE  /\ Alike(u, e, v, e) /\ e \in Divisions(v)
           /\ v.items[e] = u.items[e] /\ v.axis[e] = u.axis[e]
<1>1. /\ d \in Divisions(u) /\ x \in DOMAIN u.items[d] /\ y \in DOMAIN u.items[d]
      /\ v.items = u.items /\ v.axis = u.axis /\ v.thick = u.thick
      /\ \A i \in Nodes(u) \ {u.items[d][x], u.items[d][y]} : v.rule[i] = u.rule[i]
  BY DEF IsDrag, DrivenPlaces
<1>2. u.items[d][x] \in Range(u.items[d]) /\ u.items[d][y] \in Range(u.items[d])
  BY <1>1 DEF Range
<1>3. ASSUME NEW k \in DOMAIN u.items[e] PROVE v.rule[u.items[e][k]] = u.rule[u.items[e][k]]
  <2>1. u.items[e][k] \in Nodes(u) /\ u.items[e][k] \in Range(u.items[e])
    BY RunFacts DEF Struct
  <2> QED
    BY <1>1, <1>2, <2>1 DEF Struct
<1> QED
  BY <1>1, <1>3 DEF Alike, Boards, Divisions

\* A node is as wide as it was across a, and as long along it if it is not in one of two
\* regions.
KeptAcross(u, v, S, a, z) ==
    /\ \A c \in Axes \ {a} : Spaces(v)[z].size[c] = u.space[z].size[c]
    /\ z \notin S => Spaces(v)[z].size[a] = u.space[z].size[a]

\* What a drag resizes is in the two regions it resizes; every run solves, where none in
\* them goes along it.
LEMMA DragResizes ==
    ASSUME NEW u, Sized(u), NEW v, Struct(v), Ruled(v), IsFramed(v), OuterSpace(v) = OuterSpace(u),
           NEW d, NEW x, NEW y, NEW s, IsDrag(u, v, d, x, y, s), NEW a, a = u.axis[d],
           NEW S, S = Subtree(u, u.items[d][x]) \cup Subtree(u, u.items[d][y]),
           \A e \in Divisions(u) \cap S : u.axis[e] # a
    PROVE  \A e \in Divisions(v) : RunSolves(v, e, Spaces(v)[e])
<1>0. Struct(u) /\ Ruled(u) /\ IsFramed(u) /\ u.space = Spaces(u)
  BY DEF Sized
<1>1. /\ d \in Divisions(u) /\ x \in DOMAIN u.items[d] /\ y \in DOMAIN u.items[d]
      /\ v.root = u.root /\ v.items = u.items /\ v.axis = u.axis /\ Nodes(v) = Nodes(u)
  BY DEF IsDrag, DrivenPlaces
<1>2. Divisions(v) = Divisions(u) /\ u.root \in Nodes(u)
  BY <1>0, <1>1 DEF Divisions, Struct, Regions
<1>3. a \in Axes /\ \A e \in Divisions(u) : u.axis[e] \in Axes
  BY <1>0, <1>1 DEF Ruled
<1>4. PICK f, g, w : /\ f = ShownSizes(u, d) /\ g = DragSizes(f, x, y, s) /\ w = u.space[d]
  OBVIOUS
<1>5. /\ Spaces(v)[d] = w
      /\ \A k \in DOMAIN u.items[d] : AtPlace(Spaces(v)[u.items[d][k]], w, a, k, g)
  BY <1>4, DragPlaces
<1>6. /\ Sum(f, DOMAIN u.items[d]) = w.size[a] /\ DOMAIN f = DOMAIN u.items[d]
      /\ \A k \in DOMAIN u.items[d] : AtPlace(u.space[u.items[d][k]], w, a, k, f)
  BY <1>1, <1>4, SizedShows, ZenonT(40) DEF ShownSizes
<1>7. RunSolves(v, d, Spaces(v)[d])
  <2>1. ShowsRun(v, d, g) /\ Sum(g, DOMAIN v.items[d]) = Sum(f, DOMAIN u.items[d])
    <3>1. PICK n : n = Len(u.items[d])
      OBVIOUS
    <3> QED
      BY <1>4, <3>1, DragShows
  <2>2. Sum(g, DOMAIN v.items[d]) = w.size[v.axis[d]]
    BY <1>1, <1>6, <2>1
  <2> QED
    BY <1>1, <1>2, <1>5, <2>1, <2>2, ShownSolves
<1>8. ASSUME NEW i \in Range(u.items[d]) PROVE KeptAcross(u, v, S, a, i)
  <2>1. PICK k \in DOMAIN u.items[d] : i = u.items[d][k]
    BY DEF Range
  <2>2. AtPlace(Spaces(v)[i], w, a, k, g) /\ AtPlace(u.space[i], w, a, k, f)
    BY <1>5, <1>6, <2>1
  <2>3. ASSUME i \notin S PROVE g[k] = f[k]
    <3>1. i \in Subtree(u, i)
      <4>1. i \in Nodes(u)
        BY <1>0, <1>1, <2>1, RunIsTyped
      <4> QED
        BY <1>0, <4>1, SubtreeFacts
    <3>2. k # x /\ k # y
      BY <2>1, <2>3, <3>1
    <3> QED
      BY <1>4, <1>6, <3>2 DEF DragSizes
  <2> QED
    BY <2>2, <2>3 DEF AtPlace, KeptAcross
<1>9. ASSUME NEW e \in Divisions(u), e # d, KeptAcross(u, v, S, a, e)
      PROVE  /\ RunSolves(v, e, Spaces(v)[e])
             /\ \A i \in Range(u.items[e]) : KeptAcross(u, v, S, a, i)
  <2>1. /\ Alike(u, e, v, e) /\ e \in Divisions(v)
        /\ v.items[e] = u.items[e] /\ v.axis[e] = u.axis[e]
    BY <1>0, <1>9, DragAlike
  <2>2. PICK c : c = u.axis[e]
    OBVIOUS
  <2>3. c \in Axes /\ (c = a => e \notin S)
    BY <1>3, <1>9, <2>2
  <2>4. Spaces(v)[e].size[c] = u.space[e].size[c]
    BY <1>9, <2>3, SMTT(40) DEF KeptAcross
  <2>5. /\ RunSolves(v, e, Spaces(v)[e])
        /\ \A i \in Range(u.items[e]) :
              /\ Spaces(v)[i].size[c] = u.space[i].size[c]
              /\ \A z \in Axes \ {c} : /\ Spaces(v)[i].size[z] = Spaces(v)[e].size[z]
                                       /\ u.space[i].size[z] = u.space[e].size[z]
    BY <2>1, <2>2, <2>4, AlikeSolves, SMTT(40)
  <2>6. ASSUME NEW i \in Range(u.items[e]) PROVE KeptAcross(u, v, S, a, i)
    <3>1. i \notin S => e \notin S
      <4>1. u.items[d][x] \in Nodes(u) /\ u.items[d][y] \in Nodes(u)
        BY <1>0, <1>1, RunIsTyped
      <4> QED
        BY <1>0, <4>1, SubtreeFacts
    <3>2. ASSUME NEW z \in Axes, z # a \/ i \notin S
          PROVE  Spaces(v)[i].size[z] = u.space[i].size[z]
      <4>1. CASE z = c
        BY <2>5, <4>1
      <4>2. CASE z # c
        <5>1. Spaces(v)[e].size[z] = u.space[e].size[z]
          BY <1>9, <3>1, <3>2 DEF KeptAcross
        <5> QED
          BY <2>5, <4>2, <5>1
      <4> QED
        BY <4>1, <4>2
    <3> QED
      BY <1>3, <3>2 DEF KeptAcross
  <2> QED
    BY <2>5, <2>6
<1> DEFINE T == {z \in Nodes(v) : KeptAcross(u, v, S, a, z)}
<1>10. v.root \in T
  <2>1. Spaces(v)[v.root] = OuterSpace(v)
    BY <1>1, <1>2, SpacesFacts DEF Places
  <2>2. u.space[u.root] = OuterSpace(u)
    BY <1>0, <1>2, SpacesFacts DEF Places
  <2>3. Spaces(v)[u.root] = u.space[u.root]
    BY <1>1, <2>1, <2>2
  <2> QED
    BY <1>1, <1>2, <2>3 DEF KeptAcross
<1>11. ASSUME NEW e \in Divisions(v), e \in T, NEW i \in Range(v.items[e]) PROVE i \in T
  <2>1. i \in Nodes(v)
    BY RunFacts DEF Struct
  <2>2. e \in Divisions(u) /\ i \in Range(u.items[e])
    BY <1>1, <1>2, <1>11
  <2>3. KeptAcross(u, v, S, a, i)
    BY <1>8, <1>9, <1>11, <2>2
  <2> QED
    BY <2>1, <2>3
<1> HIDE DEF T
<1>12. Nodes(v) \subseteq T
  BY <1>10, <1>11, TreeInduction
<1>13. ASSUME NEW e \in Divisions(v) PROVE RunSolves(v, e, Spaces(v)[e])
  <2>1. e \in Nodes(v)
    BY DEF Struct, Regions
  <2>2. KeptAcross(u, v, S, a, e)
    BY <1>12, <2>1 DEF T
  <2> QED
    BY <1>2, <1>7, <1>9, <2>2
<1> QED
  BY <1>13

\* A drag solves, where no run in the regions it resizes goes along it (edit.py
\* move_board).
LEMMA DragSolves ==
    ASSUME NEW u, Sized(u), DOMAIN u.pinned = {}, NEW b \in Boards(u), Movable(u, b),
           NEW mm, IsFraction(mm),
           \A i \in Range(FreeBeside(u, b)) : \A e \in Divisions(u) \cap Subtree(u, i) :
               u.axis[e] # AxisOf(u, b)
    PROVE  Solves(Solved(MoveBoard(u, b, mm)))
<1>1. Struct(u) /\ Ruled(u) /\ IsFramed(u)
  BY DEF Sized
<1>2. PICK v : v = MoveBoard(u, b, mm)
  OBVIOUS
<1>3. Struct(v) /\ Ruled(v) /\ SameFrame(u, v)
  <2>1. Struct(v)
    BY <1>1, <1>2, MoveFacts DEF KeepsNodes, Keeps
  <2>2. Ruled(v)
    BY <1>2, MoveIsSound
  <2>3. SameFrame(u, v)
    BY <1>1, <1>2, MoveFrame
  <2> QED
    BY <2>1, <2>2, <2>3
<1>4. IsFramed(v) /\ OuterSpace(v) = OuterSpace(u)
  BY <1>1, <1>3, FrameIsSame
<1>5. PICK d, a : d = RunOf(u, b) /\ a = u.axis[d]
  OBVIOUS
<1>6. PICK x, y : DragsBetween(u, b, x, y)
  BY <1>1, BesidePlaces
<1>7. PICK s : IsDrag(u, v, d, x, y, s)
  <2>1. PICK f : f = ShownSizes(u, d)
    OBVIOUS
  <2> QED
    BY <1>2, <1>5, <1>6, <2>1, DragMakes
<1>8. PICK S : S = Subtree(u, u.items[d][x]) \cup Subtree(u, u.items[d][y])
  OBVIOUS
<1>9. \A e \in Divisions(u) \cap S : u.axis[e] # a
  <2>1. PICK l, h : l = FreeBeside(u, b).low /\ h = FreeBeside(u, b).high
    OBVIOUS
  <2>2. FreeBeside(u, b) = [low |-> l, high |-> h]
    BY <2>1 DEF FreeBeside
  <2>3. l \in Range(FreeBeside(u, b)) /\ h \in Range(FreeBeside(u, b))
    BY <2>2 DEF Range
  <2>4. u.items[d][x] = l /\ u.items[d][y] = h
    BY <1>5, <1>6, <2>1 DEF DragsBetween
  <2>5. a = AxisOf(u, b)
    BY <1>5 DEF AxisOf
  <2> QED
    BY <1>8, <2>3, <2>4, <2>5
<1>10. \A e \in Divisions(v) : RunSolves(v, e, Spaces(v)[e])
  BY <1>3, <1>4, <1>5, <1>7, <1>8, <1>9, DragResizes
<1>11. DOMAIN v.pinned = {}
  BY <1>7 DEF IsDrag
<1> QED
  BY <1>2, <1>3, <1>4, <1>10, <1>11, RunsSolve

\* The guarantees of GeometryEditsSolve for one layout.
LEMMA SolvesAll ==
    ASSUME Sized(unit), Flat(unit), PinsBoards(unit), Room(unit)
    PROVE  GeometryEditsSolve
<1>1. PICK u : u = unit
  OBVIOUS
<1>2. Sized(u) /\ Flat(u) /\ PinsBoards(u) /\ Room(u)
  BY <1>1
<1>3. ASSUME NEW r \in Bays(u), NEW a \in Axes, CanSplit(u, r, a),
             AxisOf(u, r) # a => u.thick[SourceBoard(u, r, a)] \prec u.space[r].size[a]
      PROVE  Solves(Solved(SplitRegion(u, r, a)))
  BY <1>2, <1>3, SplitSolves
<1>4. ASSUME NEW r \in Regions(u) \ {u.root}
      PROVE  /\ CanFix(u, r) => Solves(Solved(Lock(u, r)))
             /\ Locked(u, r) => Solves(Solved(Unlock(u, r)))
             /\ \A basis \in Bases :
                   CanSetSize(u, r, basis) => Solves(Solved(SetBasis(u, r, basis)))
  BY <1>2, RulesSolve
<1>5. ASSUME DOMAIN u.pinned = {}, NEW b \in Boards(u), CanMerge(u, b),
             \A d \in Divisions(u) \cap Subtree(u, Beside(u, b).low) :
                 u.axis[d] = AxisOf(u, b) => DrivenPlaces(u, d) # {}
      PROVE  Solves(Solved(MergeAt(u, b)))
  BY <1>2, <1>5, MergeSolves DEF CanWiden
<1>6. ASSUME DOMAIN u.pinned = {}, NEW b \in Boards(u), Movable(u, b), NEW mm \in LowFaces,
             \A i \in Range(FreeBeside(u, b)) : \A d \in Divisions(u) \cap Subtree(u, i) :
                 u.axis[d] # AxisOf(u, b)
      PROVE  Solves(Solved(MoveBoard(u, b, mm)))
  <2>1. IsFraction(mm)
    BY RulesAssumption
  <2> QED
    BY <1>2, <1>6, <2>1, DragSolves
<1>7. \A i, a : DividedAlong(i, a) = {d \in Divisions(u) \cap Subtree(u, i) : u.axis[d] = a}
  BY <1>1 DEF DividedAlong
<1>8. ASSUME DOMAIN u.pinned = {}, NEW b \in Boards(u)
      PROVE  /\ /\ CanMerge(u, b)
                /\ \A d \in DividedAlong(Beside(u, b).low, AxisOf(u, b)) : DrivenPlaces(u, d) # {}
                => Solves(Solved(MergeAt(u, b)))
             /\ /\ Movable(u, b)
                /\ \A i \in Range(FreeBeside(u, b)) : DividedAlong(i, AxisOf(u, b)) = {}
                => \A mm \in LowFaces : Solves(Solved(MoveBoard(u, b, mm)))
  <2>1. ASSUME CanMerge(u, b),
               \A d \in DividedAlong(Beside(u, b).low, AxisOf(u, b)) : DrivenPlaces(u, d) # {}
        PROVE  Solves(Solved(MergeAt(u, b)))
    <3>1. \A d \in Divisions(u) \cap Subtree(u, Beside(u, b).low) :
             u.axis[d] = AxisOf(u, b) => DrivenPlaces(u, d) # {}
      BY <1>7, <2>1
    <3> QED
      BY <1>5, <1>8, <2>1, <3>1
  <2>2. ASSUME Movable(u, b),
               \A i \in Range(FreeBeside(u, b)) : DividedAlong(i, AxisOf(u, b)) = {},
               NEW mm \in LowFaces
        PROVE  Solves(Solved(MoveBoard(u, b, mm)))
    <3>1. \A i \in Range(FreeBeside(u, b)) : \A d \in Divisions(u) \cap Subtree(u, i) :
             u.axis[d] # AxisOf(u, b)
      BY <1>7, <2>2
    <3> QED
      BY <1>6, <1>8, <2>2, <3>1
  <2> QED
    BY <2>1, <2>2
<1> QED
  BY <1>1, <1>3, <1>4, <1>8 DEF GeometryEditsSolve

\* Through every edit, an edit that keeps the geometry around it never fails the solve
\* (edit.py split_region, lock, set_basis, merge_at and move_board; session.py _apply).
THEOREM GeometryEditsAlwaysSolve ==
    ASSUME \A u \in StartUnits : Flat(u)
    PROVE  Spec => []GeometryEditsSolve
<1> DEFINE Keeping == SizedInv /\ Flat(unit) /\ PinsBoards(unit)
<1>1. Init => Keeping
  BY SizedStart, StartFacts, TidyStart DEF Keeps
<1>2. Keeping /\ [Next]_vars => Keeping'
  <2>1. SUFFICES ASSUME SizedInv, Flat(unit), PinsBoards(unit), [Next]_vars PROVE Keeping'
    OBVIOUS
  <2>2. SizedInv'
    BY <2>1, SizedStep
  <2>3. Keeps(unit, unit')
    BY <2>1, StepFacts DEF SizedInv, FrameInv
  <2>4. PinsBoards(unit')
    BY <2>1, TidyStep DEF Tidies
  <2> QED
    BY <2>1, <2>2, <2>3, <2>4 DEF Keeps
<1>3. Keeping => GeometryEditsSolve
  <2>1. SUFFICES ASSUME Keeping PROVE GeometryEditsSolve
    OBVIOUS
  <2>2. Sized(unit) /\ Inv
    BY <2>1 DEF SizedInv, FrameInv
  <2>3. Room(unit)
    BY <2>2, RoomForSplit
  <2> QED
    BY <2>1, <2>2, <2>3, SolvesAll
<1> QED
  BY <1>1, <1>2, <1>3, PTL DEF Spec

------------------------------------------------------------------------------
(* The drawing.                                                            *)

\* The sign of an axis drawn the other way.
Minus == Zero -- One

\* One leaves a length as it is and the other turns it round.
LEMMA SignFacts ==
    /\ One # Minus
    /\ \A n \in Int, d \in Nat \ {0} : /\ One ** Frac(n, d) = Frac(n, d)
                                       /\ Minus ** Frac(n, d) = Frac(-n, d)
<1>1. One = Frac(1, 1) /\ Zero = Frac(0, 1)
  BY WholeIsFrac DEF One, Zero
<1>2. Minus = Frac(0 - 1, 1)
  BY <1>1, OverOneDenominator DEF Minus
<1>3. One # Minus
  BY <1>1, <1>2, OverOneDenominator
<1>4. ASSUME NEW n \in Int, NEW d \in Nat \ {0}
      PROVE  One ** Frac(n, d) = Frac(n, d) /\ Minus ** Frac(n, d) = Frac(-n, d)
  <2>1. Frac(1, 1) ** Frac(n, d) = Frac(1 * n, 1 * d)
    BY OverTwoDenominators
  <2>2. Frac(0 - 1, 1) ** Frac(n, d) = Frac((0 - 1) * n, 1 * d)
    BY OverTwoDenominators
  <2>3. 1 * n = n /\ (0 - 1) * n = -n /\ 1 * d = d
    OBVIOUS
  <2> QED
    BY <1>1, <1>2, <2>1, <2>2, <2>3
<1> QED
  BY <1>3, <1>4

\* The ends of what is drawn, as rect() takes them.
LowEnd(E) == CHOOSE p \in E : \A q \in E : p \preceq q
HighEnd(E) == CHOOSE p \in E : \A q \in E : q \preceq p

\* The lower and the higher of two different fractions over one denominator.
LEMMA EndsFacts ==
    ASSUME NEW x \in Int, NEW y \in Int, x < y, NEW d \in Nat, d # 0,
           NEW E, E = {Frac(x, d), Frac(y, d)}
    PROVE  /\ LowEnd(E) = Frac(x, d)
           /\ HighEnd(E) = Frac(y, d)
<1>1. PICK p : p = Frac(x, d)
  OBVIOUS
<1>2. PICK q : q = Frac(y, d)
  OBVIOUS
<1>3. p \preceq q /\ ~(q \preceq p) /\ p \preceq p /\ q \preceq q
  BY <1>1, <1>2, OverOneDenominator
<1>4. E = {p, q}
  BY <1>1, <1>2
<1>5. \A z \in E : (\A w \in E : z \preceq w) <=> z = p
  BY <1>3, <1>4
<1>6. \A z \in E : (\A w \in E : w \preceq z) <=> z = q
  BY <1>3, <1>4
<1>7. p \in E /\ q \in E
  BY <1>4
<1>8. LowEnd(E) = p
  BY <1>5, <1>7 DEF LowEnd
<1>9. HighEnd(E) = q
  BY <1>6, <1>7 DEF HighEnd
<1> QED
  BY <1>1, <1>2, <1>8, <1>9

\* A space from l/d, s/d long, seen from o/d, on an axis that is drawn as it
\* is and on one drawn the other way.
LEMMA RectFacts ==
    ASSUME NEW f, NEW space, NEW a \in Axes, NEW d \in Nat, d # 0,
           NEW l \in Int, NEW s \in Int, NEW o \in Int, s > 0,
           space.low[a] = Frac(l, d), space.size[a] = Frac(s, d), f.origin[a] = Frac(o, d)
    PROVE  /\ f.sign[a] = One =>
                 /\ Rect(f, space).low[a] = Frac(l - o, d)
                 /\ Rect(f, space).high[a] = Frac((l + s) - o, d)
           /\ f.sign[a] = Minus =>
                 /\ Rect(f, space).low[a] = Frac(o - (l + s), d)
                 /\ Rect(f, space).high[a] = Frac(o - l, d)
<1> DEFINE Ends(c) == {FromUnit(f, c, space.low[c]),
                       FromUnit(f, c, space.low[c] ++ space.size[c])}
<1>1. PICK E : E = Ends(a)
  OBVIOUS
<1>2. Rect(f, space).low[a] = LowEnd(E) /\ Rect(f, space).high[a] = HighEnd(E)
  BY <1>1 DEF Rect, LowEnd, HighEnd
<1>3. E = {f.sign[a] ** Frac(l - o, d), f.sign[a] ** Frac((l + s) - o, d)}
  <2>1. Frac(l, d) ++ Frac(s, d) = Frac(l + s, d)
    BY OverOneDenominator
  <2>2. Frac(l, d) -- Frac(o, d) = Frac(l - o, d)
    BY OverOneDenominator
  <2>3. Frac(l + s, d) -- Frac(o, d) = Frac((l + s) - o, d)
    BY OverOneDenominator
  <2> QED
    BY <1>1, <2>1, <2>2, <2>3 DEF FromUnit
<1>4. CASE f.sign[a] = One
  <2>1. E = {Frac(l - o, d), Frac((l + s) - o, d)}
    BY <1>3, <1>4, SignFacts
  <2>2. l - o < (l + s) - o
    OBVIOUS
  <2>3. PICK x \in Int, y \in Int : x = l - o /\ y = (l + s) - o
    OBVIOUS
  <2>4. E = {Frac(x, d), Frac(y, d)} /\ x < y
    BY <2>1, <2>2, <2>3
  <2>5. LowEnd(E) = Frac(x, d) /\ HighEnd(E) = Frac(y, d)
    BY <2>4, EndsFacts
  <2> QED
    BY <1>2, <1>4, <2>3, <2>5, SignFacts
<1>5. CASE f.sign[a] = Minus
  <2>1. E = {Frac(-(l - o), d), Frac(-((l + s) - o), d)}
    BY <1>3, <1>5, SignFacts
  <2>2. PICK x \in Int, y \in Int : x = o - (l + s) /\ y = o - l
    OBVIOUS
  <2>3. -(l - o) = y /\ -((l + s) - o) = x /\ x < y
    BY <2>2
  <2>4. E = {Frac(x, d), Frac(y, d)} /\ x < y
    BY <2>1, <2>3
  <2>5. LowEnd(E) = Frac(x, d) /\ HighEnd(E) = Frac(y, d)
    BY <2>4, EndsFacts
  <2> QED
    BY <1>2, <1>5, <2>2, <2>5, SignFacts
<1> QED
  BY <1>4, <1>5

\* An axis of a rectangle is drawn from that axis of the space alone.
LEMMA RectAxis ==
    ASSUME NEW f, NEW s, NEW t, NEW a \in Axes, s.low[a] = t.low[a], s.size[a] = t.size[a]
    PROVE  Rect(f, s).low[a] = Rect(f, t).low[a] /\ Rect(f, s).high[a] = Rect(f, t).high[a]
BY DEF Rect

------------------------------------------------------------------------------
(* The side kept.                                                          *)

\* The axis the unit, seen from behind, has drawn the other way.
Turned(o, a) == a = "h" /\ Mirrored(o)

\* An axis is drawn as it is, or the other way from the far side of the unit.
LEMMA FrameFacts ==
    ASSUME NEW u, IsFramed(u), NEW o, NEW a \in Axes
    PROVE  /\ ~Turned(o, a) => Frame(u, o).sign[a] = One /\ Frame(u, o).origin[a] = u.low[a]
           /\ Turned(o, a) => /\ Frame(u, o).sign[a] = Minus
                              /\ Frame(u, o).origin[a] = u.low[a] ++ u.size[a]
BY DEF IsFramed, Frame, Minus, Axes, Turned

\* What is kept on the axis the unit is resized on,
LEMMA KeptOnAxis ==
    ASSUME NEW u, Struct(u), IsFramed(u), RootPlaced(u), NEW o, NEW a \in Axes,
           NEW side \in Sides, NEW mm \in UnitSizes
    PROVE  LET f == Frame(u, o)
               sized == SetUnitSize([u EXCEPT !.fixed[a] = side], a, mm)
               after == Rect(f, [low |-> sized.low, size |-> sized.size])
               was == Rect(f, u.space[u.root])
               choices == FixedChoices(o, a)
           IN  /\ side = choices.first => after.low[a] = was.low[a]
               /\ side = choices.last => after.high[a] = was.high[a]
               /\ side = choices.middle => after.low[a] ++ after.high[a] = was.low[a] ++ was.high[a]
<1>1. PICK v : v = [u EXCEPT !.fixed[a] = side]
  OBVIOUS
<1>2. Fields \subseteq DOMAIN v /\ v.low = u.low /\ v.size = u.size /\ v.fixed = [u.fixed EXCEPT ![a] = side]
  BY <1>1 DEF Struct, Fields
<1>3. IsFramed(v) /\ v.fixed[a] = side
  BY <1>2 DEF IsFramed
<1>4. IsFraction(u.low[a]) /\ IsFraction(u.size[a]) /\ IsFraction(mm) /\ Zero \prec mm
  BY FrameAssumption DEF IsFramed
<1>5. PICK d, l, s, m : AreOver(u.low[a], u.size[a], mm, d, l, s, m)
  BY <1>4, CommonDenominator
<1>6. /\ u.low[a] = Frac(l, d) /\ u.size[a] = Frac(2 * s, d) /\ mm = Frac(2 * m, d)
      /\ d \in Nat /\ d # 0 /\ l \in Int /\ s \in Int /\ m \in Int
  BY <1>5 DEF AreOver
<1>7. PICK t \in Int, n \in Int : t = 2 * s /\ n = 2 * m
  BY <1>6
<1>8. t > 0 /\ n > 0
  <2>1. Zero = Frac(0, d)
    BY <1>6, <1>7, ZeroIsFrac
  <2>2. PICK z \in Int : z = 0
    OBVIOUS
  <2>3. Frac(z, d) \prec Frac(t, d) /\ Frac(z, d) \prec Frac(n, d)
    BY <1>4, <1>6, <1>7, <2>1, <2>2 DEF IsFramed
  <2> QED
    BY <1>6, <1>7, <2>2, <2>3, OverOneDenominator
<1>9. PICK w : w = SetUnitSize(v, a, mm)
  OBVIOUS
<1>10. PICK y \in Int : y = NewLow(side, l, s, m) /\ IsResized(v, a, mm, Frac(y, d), w)
  <2>1. /\ NewLow(v.fixed[a], l, s, m) \in Int
        /\ IsResized(v, a, mm, Frac(NewLow(v.fixed[a], l, s, m), d), w)
    BY <1>2, <1>3, <1>5, <1>9, ResizedPlace
  <2> QED
    BY <2>1, <1>3
<1>11. PICK f : f = Frame(u, o)
  OBVIOUS
<1>12. PICK new : new = [low |-> w.low, size |-> w.size]
  OBVIOUS
<1>13. PICK old : old = u.space[u.root]
  OBVIOUS
<1>14. /\ new.low[a] = Frac(y, d) /\ new.size[a] = Frac(n, d)
       /\ old.low[a] = Frac(l, d) /\ old.size[a] = Frac(t, d)
  BY <1>6, <1>7, <1>10, <1>12, <1>13 DEF IsResized, RootPlaced, OuterSpace
<1>15. PICK after : after = Rect(f, new)
  OBVIOUS
<1>16. PICK was : was = Rect(f, old)
  OBVIOUS
<1>18. /\ ~Turned(o, a) => f.sign[a] = One /\ f.origin[a] = u.low[a]
       /\ Turned(o, a) => f.sign[a] = Minus /\ f.origin[a] = u.low[a] ++ u.size[a]
  BY <1>11, FrameFacts
<1>19. PICK choices : choices = FixedChoices(o, a)
  OBVIOUS
<1>20. /\ choices.middle = "center"
       /\ ~Turned(o, a) => choices.first = "min" /\ choices.last = "max"
       /\ Turned(o, a) => choices.first = "max" /\ choices.last = "min"
  BY <1>19 DEF FixedChoices, Turned
<1>21. PICK e \in Int : e = l + t
  BY <1>6
<1>22. Frac(l, d) ++ Frac(t, d) = Frac(e, d)
  BY <1>6, <1>7, <1>21, OverOneDenominator
<1>23. PICK g \in Int : g = y + n
  OBVIOUS
<1>24. CASE ~Turned(o, a)
  <2>1. f.sign[a] = One /\ f.origin[a] = Frac(l, d)
    BY <1>6, <1>18, <1>24
  <2>2. after.low[a] = Frac(y - l, d) /\ after.high[a] = Frac(g - l, d)
    BY <1>6, <1>7, <1>8, <1>14, <1>15, <1>23, <2>1, RectFacts
  <2>3. was.low[a] = Frac(l - l, d) /\ was.high[a] = Frac(e - l, d)
    BY <1>6, <1>7, <1>8, <1>14, <1>16, <1>21, <2>1, RectFacts
  <2>4. side = "min" => y - l = l - l
    BY <1>6, <1>10 DEF NewLow
  <2>5. side = "max" => g - l = e - l
    BY <1>6, <1>7, <1>10, <1>21, <1>23 DEF NewLow
  <2>6. side = "center" => (y - l) + (g - l) = (l - l) + (e - l)
    BY <1>6, <1>7, <1>10, <1>21, <1>23 DEF NewLow
  <2>7. side = "center" => after.low[a] ++ after.high[a] = was.low[a] ++ was.high[a]
    <3>1. PICK x1 \in Int, x2 \in Int, x3 \in Int, x4 \in Int :
              x1 = y - l /\ x2 = g - l /\ x3 = l - l /\ x4 = e - l
      BY <1>6
    <3>2. Frac(x1, d) ++ Frac(x2, d) = Frac(x1 + x2, d)
      BY <1>6, <1>7, OverOneDenominator
    <3>3. Frac(x3, d) ++ Frac(x4, d) = Frac(x3 + x4, d)
      BY <1>6, <1>7, OverOneDenominator
    <3> QED
      BY <2>2, <2>3, <2>6, <3>1, <3>2, <3>3
  <2>8. /\ side = choices.first => after.low[a] = was.low[a]
        /\ side = choices.last => after.high[a] = was.high[a]
        /\ side = choices.middle => after.low[a] ++ after.high[a] = was.low[a] ++ was.high[a]
    BY <1>20, <1>24, <2>2, <2>3, <2>4, <2>5, <2>7
  <2> QED
    BY <1>1, <1>9, <1>11, <1>12, <1>13, <1>15, <1>16, <1>19, <2>8
<1>25. CASE Turned(o, a)
  <2>1. f.sign[a] = Minus /\ f.origin[a] = Frac(e, d)
    BY <1>6, <1>7, <1>18, <1>22, <1>25
  <2>2. after.low[a] = Frac(e - g, d) /\ after.high[a] = Frac(e - y, d)
    BY <1>6, <1>7, <1>8, <1>14, <1>15, <1>23, <2>1, RectFacts
  <2>3. was.low[a] = Frac(e - e, d) /\ was.high[a] = Frac(e - l, d)
    BY <1>6, <1>7, <1>8, <1>14, <1>16, <1>21, <2>1, RectFacts
  <2>4. side = "max" => e - g = e - e
    BY <1>6, <1>7, <1>10, <1>21, <1>23 DEF NewLow
  <2>5. side = "min" => e - y = e - l
    BY <1>6, <1>10 DEF NewLow
  <2>6. side = "center" => (e - g) + (e - y) = (e - e) + (e - l)
    BY <1>6, <1>7, <1>10, <1>21, <1>23 DEF NewLow
  <2>7. side = "center" => after.low[a] ++ after.high[a] = was.low[a] ++ was.high[a]
    <3>1. PICK x1 \in Int, x2 \in Int, x3 \in Int, x4 \in Int :
              x1 = e - g /\ x2 = e - y /\ x3 = e - e /\ x4 = e - l
      BY <1>6
    <3>2. Frac(x1, d) ++ Frac(x2, d) = Frac(x1 + x2, d)
      BY <1>6, <1>7, OverOneDenominator
    <3>3. Frac(x3, d) ++ Frac(x4, d) = Frac(x3 + x4, d)
      BY <1>6, <1>7, OverOneDenominator
    <3> QED
      BY <2>2, <2>3, <2>6, <3>1, <3>2, <3>3
  <2>8. /\ side = choices.first => after.low[a] = was.low[a]
        /\ side = choices.last => after.high[a] = was.high[a]
        /\ side = choices.middle => after.low[a] ++ after.high[a] = was.low[a] ++ was.high[a]
    BY <1>20, <1>25, <2>2, <2>3, <2>4, <2>5, <2>7
  <2> QED
    BY <1>1, <1>9, <1>11, <1>12, <1>13, <1>15, <1>16, <1>19, <2>8
<1> QED
  BY <1>24, <1>25

\* and on the other, which is drawn as it was.
LEMMA SidesKept ==
    ASSUME NEW u, Struct(u), IsFramed(u), RootPlaced(u), NEW o, NEW a \in Axes,
           NEW mm \in UnitSizes
    PROVE  LET f == Frame(u, o)
               After(side) ==
                   LET sized == SetUnitSize([u EXCEPT !.fixed[a] = side], a, mm)
                   IN  Rect(f, [low |-> sized.low, size |-> sized.size])
               was == Rect(f, u.space[u.root])
               choices == FixedChoices(o, a)
           IN  /\ After(choices.first).low = was.low
               /\ After(choices.last).high = was.high
               /\ Middle(After(choices.middle), a) = Middle(was, a)
<1>1. PICK f : f = Frame(u, o)
  OBVIOUS
<1>2. PICK was : was = Rect(f, u.space[u.root])
  OBVIOUS
<1>3. PICK choices : choices = FixedChoices(o, a)
  OBVIOUS
<1> DEFINE Of(side) == SetUnitSize([u EXCEPT !.fixed[a] = side], a, mm)
           After(side) == Rect(f, [low |-> Of(side).low, size |-> Of(side).size])
<1>4. choices.first \in Sides /\ choices.middle \in Sides /\ choices.last \in Sides
  BY <1>3 DEF FixedChoices, Sides
<1>5. \A side \in Sides :
        /\ side = choices.first => After(side).low[a] = was.low[a]
        /\ side = choices.last => After(side).high[a] = was.high[a]
        /\ side = choices.middle =>
              After(side).low[a] ++ After(side).high[a] = was.low[a] ++ was.high[a]
  BY <1>1, <1>2, <1>3, KeptOnAxis, SMTT(40)
<1>6. ASSUME NEW side \in Sides, NEW c \in Axes \ {a}
      PROVE  After(side).low[c] = was.low[c] /\ After(side).high[c] = was.high[c]
  <2>1. PICK v : v = [u EXCEPT !.fixed[a] = side]
    BY Zenon
  <2>2. /\ Fields \subseteq DOMAIN v /\ v.low = u.low /\ v.size = u.size
        /\ v.fixed = [u.fixed EXCEPT ![a] = side]
    BY <2>1 DEF Struct, Fields
  <2>3. IsFramed(v)
    BY <2>2 DEF IsFramed
  <2>4. IsFraction(v.low[a]) /\ IsFraction(v.size[a]) /\ IsFraction(mm)
    BY <2>3, FrameAssumption DEF IsFramed
  <2>5. PICK d, l, s, m : AreOver(v.low[a], v.size[a], mm, d, l, s, m)
    BY <2>4, CommonDenominator
  <2>6. PICK w : w = SetUnitSize(v, a, mm)
    OBVIOUS
  <2>7. IsResized(v, a, mm, Frac(NewLow(v.fixed[a], l, s, m), d), w)
    BY <2>2, <2>3, <2>5, <2>6, ResizedPlace
  <2>8. w.low[c] = u.low[c] /\ w.size[c] = u.size[c]
    BY <2>2, <2>7 DEF IsResized
  <2>9. PICK new : new = [low |-> w.low, size |-> w.size]
    OBVIOUS
  <2>10. PICK old : old = u.space[u.root]
    OBVIOUS
  <2>11. new.low[c] = old.low[c] /\ new.size[c] = old.size[c]
    BY <2>8, <2>9, <2>10 DEF RootPlaced, OuterSpace
  <2>12. /\ Rect(f, new).low[c] = Rect(f, old).low[c]
         /\ Rect(f, new).high[c] = Rect(f, old).high[c]
    BY <2>11, RectAxis
  <2>13. After(side) = Rect(f, new)
    BY <2>1, <2>6, <2>9
  <2> QED
    BY <1>2, <2>10, <2>12, <2>13
<1> HIDE DEF After
<1>7. \A side : /\ DOMAIN After(side).low = Axes /\ DOMAIN After(side).high = Axes
                /\ After(side).low = [c \in Axes |-> After(side).low[c]]
                /\ After(side).high = [c \in Axes |-> After(side).high[c]]
  BY DEF After, Rect
<1>8. /\ was.low = [c \in Axes |-> was.low[c]]
      /\ was.high = [c \in Axes |-> was.high[c]]
  <2>1. PICK old : old = u.space[u.root]
    OBVIOUS
  <2>2. /\ Rect(f, old).low = [c \in Axes |-> Rect(f, old).low[c]]
        /\ Rect(f, old).high = [c \in Axes |-> Rect(f, old).high[c]]
    BY DEF Rect
  <2> QED
    BY <1>2, <2>1, <2>2
<1>9. After(choices.first).low = was.low
  <2>1. \A c \in Axes : After(choices.first).low[c] = was.low[c]
    BY <1>4, <1>5, <1>6
  <2> QED
    BY <2>1, <1>7, <1>8
<1>10. After(choices.last).high = was.high
  <2>1. \A c \in Axes : After(choices.last).high[c] = was.high[c]
    BY <1>4, <1>5, <1>6
  <2> QED
    BY <2>1, <1>7, <1>8
<1>11. Middle(After(choices.middle), a) = Middle(was, a)
  BY <1>4, <1>5 DEF Middle
<1> QED
  BY <1>1, <1>2, <1>3, <1>9, <1>10, <1>11 DEF After

------------------------------------------------------------------------------
(* The property.                                                           *)

\* Whichever way the unit faces and whatever the edits before, a resize keeps in
\* place on the screen the side, or the middle, its field says it keeps
\* (elevation.py fixed_choices; edit.py set_unit_size).
THEOREM SidesStay == Spec => []FixedSidesStay
<1>1. FrameInv => FixedSidesStay
  <2>1. SUFFICES ASSUME FrameInv PROVE FixedSidesStay
    OBVIOUS
  <2>2. Struct(unit) /\ IsFramed(unit) /\ RootPlaced(unit)
    BY <2>1 DEF FrameInv, Inv
  <2> QED
    BY <2>2, SidesKept, SMTT(40) DEF FixedSidesStay
<1> QED
  BY <1>1, UnitStaysFramed, PTL

------------------------------------------------------------------------------
(* The padlock of a held board.                                            *)

\* v is u with the rules of some regions for others, none of them a lock that u has not.
Loosens(u, v) ==
    /\ Fields \subseteq DOMAIN v /\ Nodes(v) = Nodes(u)
    /\ v.root = u.root /\ v.items = u.items /\ v.axis = u.axis /\ v.thick = u.thick
    /\ v.low = u.low /\ v.size = u.size
    /\ \A i \in Nodes(u) : Unlocked(u, i) => Unlocked(v, i)

\* What holds of a unit after n holders of its board are unlocked, d the unit before and
\* its holders.
LooseSoFar(d, n, v) == Loosens(d[1], v) /\ \A m \in 1 .. n : Unlocked(v, d[2][m])

\* The fold of these.
Releasing == INSTANCE FoldTheorems WITH Op <- Freed, P <- LooseSoFar

\* One unlock locks nothing.
LEMMA UnlockLoosens ==
    ASSUME NEW u, Fields \subseteq DOMAIN u, NEW r \in Regions(u), NEW v, v = Freed(0, u, r)
    PROVE  Loosens(u, v) /\ Unlocked(v, r)
<1>1. PICK rule : rule = SharingRule(u, RunOf(u, r), {PlaceOf(u, r)}, Extent(u, r))
  OBVIOUS
<1>2. rule.kind = "driven"
  BY <1>1, SharingIsDriven
<1>3. PICK w, s : w = WithRule(u, r, rule) /\ s = Spaces(w)
  OBVIOUS
<1>4. v = [w EXCEPT !.space = s]
  BY <1>1, <1>3 DEF Freed, Unlock, Solved
<1>5. /\ w.rule = [u.rule EXCEPT ![r] = rule] /\ Fields \subseteq DOMAIN w
      /\ w.root = u.root /\ w.items = u.items /\ w.axis = u.axis /\ w.thick = u.thick
      /\ w.low = u.low /\ w.size = u.size
  BY <1>3 DEF WithRule, Fields
<1>6. /\ v.rule = w.rule /\ Fields \subseteq DOMAIN v
      /\ v.root = w.root /\ v.items = w.items /\ v.axis = w.axis /\ v.thick = w.thick
      /\ v.low = w.low /\ v.size = w.size
  BY <1>4, <1>5 DEF Fields
<1>7. /\ DOMAIN v.rule = DOMAIN u.rule /\ \A x \in DOMAIN u.rule : x # r => v.rule[x] = u.rule[x]
      /\ r \in DOMAIN u.rule => v.rule[r] = rule
  BY <1>5, <1>6
<1>8. Boards(v) = Boards(u) /\ Nodes(v) = Nodes(u) /\ r \in DOMAIN u.rule /\ r \notin Boards(u)
  BY <1>5, <1>6, <1>7 DEF Boards, Nodes, Regions
<1>9. Unlocked(v, r)
  BY <1>2, <1>7, <1>8 DEF Unlocked, Locked
<1>10. \A i \in Nodes(u) : Unlocked(u, i) => Unlocked(v, i)
  BY <1>7, <1>8, <1>9 DEF Unlocked, Locked, Nodes
<1> QED
  BY <1>5, <1>6, <1>8, <1>9, <1>10 DEF Loosens

\* Unlocking what holds a board unlocks each of its holders, and locks nothing
\* (session.py unlock_board).
LEMMA HoldersAreLoosed ==
    ASSUME NEW u, Struct(u), NEW b \in Boards(u), Freeable(u, b),
           NEW s, s = Holders(u, b), NEW v, v = UnlockHolders(u, b)
    PROVE  Loosens(u, v) /\ \A m \in 1 .. Len(s) : Unlocked(v, s[m])
<1>1. PICK d : d = <<u, s>>
  BY Zenon
<1>2. s \in Seq(Regions(u) \ {u.root})
  BY HoldersInRun
<1>3. v = Releasing!Fold(0, u, s)
  BY DEF UnlockHolders, Freed, Releasing!Fold, FoldLeft, Releasing!FoldLeft, MapThenFoldSet,
         Releasing!MapThenFoldSet, Max, Releasing!Max
<1>4. d[1] = u /\ d[2] = s
  BY <1>1
<1>5. LooseSoFar(d, 0, u)
  BY <1>4 DEF LooseSoFar, Loosens, Struct
<1>6. ASSUME NEW k \in 1 .. Len(s), NEW w, LooseSoFar(d, k - 1, w)
      PROVE  LooseSoFar(d, k, Freed(0, w, s[k]))
  <2>1. PICK r, x : r = s[k] /\ x = Freed(0, w, r)
    OBVIOUS
  <2>2. Loosens(u, w) /\ \A m \in 1 .. k - 1 : Unlocked(w, s[m])
    BY <1>4, <1>6 DEF LooseSoFar
  <2>3. k \in DOMAIN s /\ \A m \in 1 .. k : s[m] \in Regions(u)
    BY <1>2
  <2>4. r \in Regions(w) /\ \A m \in 1 .. k : s[m] \in Nodes(w)
    BY <2>1, <2>2, <2>3 DEF Loosens, Regions, Boards, Divisions
  <2>5. Loosens(w, x) /\ Unlocked(x, r)
    BY <2>1, <2>2, <2>4, UnlockLoosens DEF Loosens
  <2>6. Loosens(u, x)
    BY <2>2, <2>5 DEF Loosens
  <2>7. \A m \in 1 .. k : Unlocked(x, s[m])
    <3>1. \A m \in 1 .. k - 1 : Unlocked(x, s[m])
      BY <2>2, <2>4, <2>5 DEF Loosens
    <3>2. \A m \in 1 .. k : m \in 1 .. k - 1 \/ m = k
      OBVIOUS
    <3> QED
      BY <2>1, <2>5, <3>1, <3>2
  <2> QED
    BY <1>4, <2>1, <2>6, <2>7 DEF LooseSoFar
<1>7. LooseSoFar(d, Len(s), Releasing!Fold(0, u, s))
  BY <1>2, <1>5, <1>6, Releasing!FoldInvariant
<1> QED
  BY <1>3, <1>4, <1>7 DEF LooseSoFar

\* Nothing holds the board then.
LEMMA LoosedIsMovable ==
    ASSUME NEW u, Struct(u), NEW b \in Boards(u), Freeable(u, b),
           NEW v, v = UnlockHolders(u, b)
    PROVE  Movable(v, b)
<1>1. PICK s : s = Holders(u, b)
  OBVIOUS
<1>2. Loosens(u, v) /\ \A m \in 1 .. Len(s) : Unlocked(v, s[m])
  BY <1>1, HoldersAreLoosed
<1>3. PICK run, k : run = u.items[RunOf(u, b)] /\ k = PlaceOf(u, b)
  OBVIOUS
<1>4. run = v.items[RunOf(v, b)] /\ k = PlaceOf(v, b) /\ b \in Boards(v)
  BY <1>2, <1>3 DEF Loosens, RunOf, PlaceOf, Divisions, Boards
<1>5. Len(run) \in Nat /\ \A x \in 1 .. Len(run) : run[x] \in Nodes(u)
  BY <1>3, BoardsRun
<1>6. PICK p, q : p = Past(u, b) /\ q = Past(v, b)
  OBVIOUS
<1>7. /\ p.low.free = {l \in 1 .. k - 1 : Unlocked(u, run[l])}
      /\ p.low.locked = {l \in 1 .. k - 1 : Locked(u, run[l])}
      /\ p.high.free = {l \in k + 1 .. Len(run) : Unlocked(u, run[l])}
      /\ p.high.locked = {l \in k + 1 .. Len(run) : Locked(u, run[l])}
  BY <1>3, <1>6 DEF Past
<1>8. /\ q.low.free = {l \in 1 .. k - 1 : Unlocked(v, run[l])}
      /\ q.high.free = {l \in k + 1 .. Len(run) : Unlocked(v, run[l])}
      /\ q = [low |-> q.low, high |-> q.high]
  BY <1>4, <1>6 DEF Past
<1>9. IsSide(u, run, p.low) /\ IsSide(u, run, p.high)
  BY <1>3, <1>6, PastFacts
<1>10. k \in Nat /\ k >= 1 /\ k <= Len(run)
  BY <1>3, BoardsRun
<1>11. \A x \in 1 .. Len(run) : Unlocked(u, run[x]) => Unlocked(v, run[x])
  BY <1>2, <1>5 DEF Loosens
<1>12. s = (IF p.low.free = {} THEN <<run[Max(p.low.locked)]>> ELSE << >>)
             \o (IF p.high.free = {} THEN <<run[Min(p.high.locked)]>> ELSE << >>)
  BY <1>1, <1>3, <1>6 DEF Holders
<1>13. q.low.free # {}
  <2>1. CASE p.low.free # {}
    BY <1>7, <1>8, <1>10, <1>11, <2>1
  <2>2. CASE p.low.free = {}
    <3>1. PICK m : m = Max(p.low.locked)
      OBVIOUS
    <3>2. m \in p.low.locked
      BY <1>5, <1>9, <2>2, <3>1, MaxExists DEF IsSide
    <3>3. s[1] = run[m] /\ 1 \in 1 .. Len(s)
      BY <1>12, <2>2, <3>1
    <3> QED
      BY <1>2, <1>7, <1>8, <3>2, <3>3
  <2> QED
    BY <2>1, <2>2
<1>14. q.high.free # {}
  <2>1. CASE p.high.free # {}
    BY <1>7, <1>8, <1>10, <1>11, <2>1
  <2>2. CASE p.high.free = {}
    <3>1. PICK m : m = Min(p.high.locked)
      OBVIOUS
    <3>2. m \in p.high.locked
      BY <1>5, <1>9, <2>2, <3>1, MinExists DEF IsSide
    <3>3. s[Len(s)] = run[m] /\ Len(s) \in 1 .. Len(s)
      BY <1>12, <2>2, <3>1
    <3> QED
      BY <1>2, <1>7, <1>8, <3>2, <3>3
  <2> QED
    BY <2>1, <2>2
<1>15. Freeable(v, b)
  <2>1. \A side \in Range(q) : side.free # {}
    BY <1>8, <1>13, <1>14 DEF Range
  <2> QED
    BY <1>4, <1>6, <2>1 DEF Freeable
<1>16. Holders(v, b) = << >>
  BY <1>6, <1>13, <1>14 DEF Holders
<1> QED
  BY <1>15, <1>16 DEF Movable

\* Where nothing moves and no run is another, an arrow stands where it would have stood
\* (elevation.py _arrow_place).
LEMMA ArrowStays ==
    ASSUME NEW u, NEW v, Loosens(u, v), v.space = u.space, NEW f, NEW b
    PROVE  ArrowPlace(v, f, b).at = ArrowPlace(u, f, b).at
<1>1. RunOf(v, b) = RunOf(u, b) /\ PlaceOf(v, b) = PlaceOf(u, b)
  BY DEF Loosens, RunOf, PlaceOf, Divisions
<1>2. /\ AxisOf(v, b) = AxisOf(u, b) /\ BeforeOf(v, b) = BeforeOf(u, b)
      /\ Longest(v) = Longest(u)
  BY <1>1 DEF Loosens, AxisOf, BeforeOf, Longest
<1> QED
  BY <1>2 DEF ArrowPlace

\* In every unit a session shows, a click on a padlock puts the arrow where it stood
\* (elevation.py held_padlock; session.py unlock_holders).
THEOREM PadlocksGiveArrows == Spec => []PadlockGivesArrow
<1>1. ASSUME SizedInv
      PROVE  PadlockGivesArrow
  <2>1. Sized(unit) /\ Struct(unit)
    BY <1>1 DEF SizedInv, Sized
  <2>2. ASSUME NEW b \in Boards(unit), ShowsPadlock(unit, b), NEW v, v = UnlockHolders(unit, b)
        PROVE  /\ ShowsArrow(v, b)
               /\ \A f \in Frames(unit) : ArrowPlace(v, f, b).at = ArrowPlace(unit, f, b).at
    <3>1. HasBefore(unit, b) /\ Freeable(unit, b)
      BY <2>2 DEF ShowsPadlock
    <3>2. Loosens(unit, v) /\ Movable(v, b) /\ v.space = unit.space
      BY <2>1, <2>2, <3>1, HoldersAreLoosed, LoosedIsMovable, UnlockHoldersMovesNothing
    <3>3. HasBefore(v, b)
      BY <3>1, <3>2 DEF HasBefore, Loosens, Boards, Regions, Nodes, Divisions, RunOf, PlaceOf
    <3> QED
      BY <3>2, <3>3, ArrowStays DEF ShowsArrow
  <2> QED
    BY <2>2 DEF PadlockGivesArrow
<1> QED
  BY <1>1, UnitIsSized, PTL

------------------------------------------------------------------------------
(* What an arrow moves.                                                    *)

\* Four fractions over one denominator.
Over4(p, q, r, s, d, j, k, l, m) ==
    /\ d \in Nat /\ d # 0 /\ j \in Int /\ k \in Int /\ l \in Int /\ m \in Int
    /\ p = Frac(j, d) /\ q = Frac(k, d) /\ r = Frac(l, d) /\ s = Frac(m, d)

\* There is a denominator for any four.
LEMMA OverFour ==
    ASSUME NEW p, NEW q, NEW r, NEW s,
           IsFraction(p), IsFraction(q), IsFraction(r), IsFraction(s)
    PROVE  \E d, j, k, l, m : Over4(p, q, r, s, d, j, k, l, m)
<1>1. PICK e, j, k, l : Over3(p, q, r, e, j, k, l)
  BY OverOne
<1>2. PICK m, f : m = s[1] /\ f = s[2]
  OBVIOUS
<1>3. s = Frac(m, f) /\ m \in Int /\ f \in Nat /\ f # 0
  BY <1>2, FractionParts
<1>4. /\ e \in Nat /\ e # 0 /\ j \in Int /\ k \in Int /\ l \in Int
      /\ p = Frac(j, e) /\ q = Frac(k, e) /\ r = Frac(l, e)
  BY <1>1 DEF Over3
<1>5. /\ Frac(j * f, e * f) = Frac(j, e) /\ Frac(k * f, e * f) = Frac(k, e)
      /\ Frac(l * f, e * f) = Frac(l, e) /\ Frac(m * e, f * e) = Frac(m, f)
  BY <1>3, <1>4, Expanded
<1>6. e * f = f * e /\ e * f \in Nat /\ e * f # 0
  BY <1>3, <1>4
<1>7. j * f \in Int /\ k * f \in Int /\ l * f \in Int /\ m * e \in Int
  BY <1>3, <1>4
<1>8. Over4(p, q, r, s, e * f, j * f, k * f, l * f, m * e)
  BY <1>3, <1>4, <1>5, <1>6, <1>7 DEF Over4
<1> QED
  BY <1>8

\* Where a place is seen, on an axis drawn as it is or the other way.
SeenAt(dir, origin, low, size) ==
    IF dir = One THEN low -- origin ELSE origin -- (low ++ size)

\* That is where the drawing has it.
LEMMA RectSees ==
    ASSUME NEW f, NEW a \in Axes, f.sign[a] \in {One, Minus}, IsFraction(f.origin[a]),
           NEW space, IsFraction(space.low[a]), IsFraction(space.size[a]),
           Zero \prec space.size[a]
    PROVE  Rect(f, space).low[a] = SeenAt(f.sign[a], f.origin[a], space.low[a], space.size[a])
<1>1. PICK p, q, r : p = space.low[a] /\ q = space.size[a] /\ r = f.origin[a]
  OBVIOUS
<1>2. PICK d, l, s, o : Over3(p, q, r, d, l, s, o)
  BY <1>1, OverOne
<1>3. /\ d \in Nat /\ d # 0 /\ l \in Int /\ s \in Int /\ o \in Int
      /\ p = Frac(l, d) /\ q = Frac(s, d) /\ r = Frac(o, d)
  BY <1>2 DEF Over3
<1>4. s > 0
  BY <1>1, <1>3, SignOver
<1>5. l + s \in Int
  BY <1>3
<1>6. p -- r = Frac(l - o, d) /\ p ++ q = Frac(l + s, d)
  BY <1>3, OverOneDenominator
<1>7. r -- (p ++ q) = Frac(o - (l + s), d)
  BY <1>3, <1>5, <1>6, OverOneDenominator
<1>8. /\ f.sign[a] = One => Rect(f, space).low[a] = Frac(l - o, d)
      /\ f.sign[a] = Minus => Rect(f, space).low[a] = Frac(o - (l + s), d)
  <2>1. /\ space.low[a] = Frac(l, d) /\ space.size[a] = Frac(s, d)
        /\ f.origin[a] = Frac(o, d)
    BY <1>1, <1>3
  <2> QED
    BY ONLY <1>3, <1>4, <2>1, a \in Axes, RectFacts
<1>9. /\ f.sign[a] = One => SeenAt(f.sign[a], r, p, q) = p -- r
      /\ f.sign[a] = Minus => SeenAt(f.sign[a], r, p, q) = r -- (p ++ q)
  BY SignFacts DEF SeenAt
<1>10. f.sign[a] = One \/ f.sign[a] = Minus
  OBVIOUS
<1> QED
  BY <1>1, <1>6, <1>7, <1>8, <1>9, <1>10

\* What goes by s in the unit goes by s, or back by s, on the screen.
LEMMA SeenMoves ==
    ASSUME NEW dir \in {One, Minus}, NEW o, NEW p, NEW z, NEW s,
           IsFraction(o), IsFraction(p), IsFraction(z), IsFraction(s)
    PROVE  SeenAt(dir, o, p ++ s, z) -- SeenAt(dir, o, p, z) = dir ** s
<1>1. PICK d, j, k, l, m : Over4(o, p, z, s, d, j, k, l, m)
  BY OverFour
<1>2. /\ d \in Nat /\ d # 0 /\ j \in Int /\ k \in Int /\ l \in Int /\ m \in Int
      /\ o = Frac(j, d) /\ p = Frac(k, d) /\ z = Frac(l, d) /\ s = Frac(m, d)
  BY <1>1 DEF Over4
<1>3. PICK km, kml, kl \in Int : km = k + m /\ kml = km + l /\ kl = k + l
  BY <1>2
<1>4. p ++ s = Frac(km, d) /\ p ++ z = Frac(kl, d) /\ (p ++ s) ++ z = Frac(kml, d)
  <2>1. /\ Frac(k, d) ++ Frac(m, d) = Frac(km, d)
        /\ Frac(k, d) ++ Frac(l, d) = Frac(kl, d)
        /\ Frac(km, d) ++ Frac(l, d) = Frac(kml, d)
    <3>1. d \in Nat /\ d # 0 /\ k \in Int /\ l \in Int /\ m \in Int /\ km \in Int
      BY <1>2, <1>3
    <3>2. /\ Frac(k, d) ++ Frac(m, d) = Frac(k + m, d)
          /\ Frac(k, d) ++ Frac(l, d) = Frac(k + l, d)
          /\ Frac(km, d) ++ Frac(l, d) = Frac(km + l, d)
      BY ONLY <3>1, OverOneDenominator
    <3> QED
      BY ONLY <1>3, <3>2
  <2> QED
    BY ONLY <1>2, <2>1
<1>5. CASE dir = One
  <2>1. PICK x, y \in Int : x = km - j /\ y = k - j
    BY <1>2, <1>3
  <2>2. (p ++ s) -- o = Frac(x, d) /\ p -- o = Frac(y, d)
    <3>1. d \in Nat /\ d # 0 /\ j \in Int /\ k \in Int
      BY <1>2
    <3>2. Frac(km, d) -- Frac(j, d) = Frac(km - j, d)
      BY ONLY <3>1, km \in Int, OverOneDenominator
    <3>3. Frac(k, d) -- Frac(j, d) = Frac(k - j, d)
      BY ONLY <3>1, OverOneDenominator
    <3> QED
      BY ONLY <1>2, <1>4, <2>1, <3>2, <3>3
  <2>3. Frac(x, d) -- Frac(y, d) = Frac(x - y, d)
    BY <1>2, <2>1, OverOneDenominator
  <2>4. x - y = m
    BY <1>2, <1>3, <2>1
  <2>5. One ** s = s
    BY <1>2, SignFacts
  <2> QED
    BY <1>2, <1>5, <2>2, <2>3, <2>4, <2>5 DEF SeenAt
<1>6. CASE dir = Minus
  <2>1. PICK x, y \in Int : x = j - kml /\ y = j - kl
    BY <1>2, <1>3
  <2>2. o -- ((p ++ s) ++ z) = Frac(x, d) /\ o -- (p ++ z) = Frac(y, d)
    <3>1. d \in Nat /\ d # 0 /\ j \in Int
      BY <1>2
    <3>2. Frac(j, d) -- Frac(kml, d) = Frac(j - kml, d)
      BY ONLY <3>1, kml \in Int, OverOneDenominator
    <3>3. Frac(j, d) -- Frac(kl, d) = Frac(j - kl, d)
      BY ONLY <3>1, kl \in Int, OverOneDenominator
    <3> QED
      BY ONLY <1>2, <1>4, <2>1, <3>2, <3>3
  <2>3. Frac(x, d) -- Frac(y, d) = Frac(x - y, d)
    BY <1>2, <2>1, OverOneDenominator
  <2>4. x - y = -m
    BY <1>2, <1>3, <2>1
  <2>5. Minus ** s = Frac(-m, d)
    BY <1>2, SignFacts
  <2> QED
    BY <1>2, <1>6, <2>2, <2>3, <2>4, <2>5, SignFacts DEF SeenAt
<1> QED
  BY <1>5, <1>6

\* Of two places the one further on is seen further on, or further back.
LEMMA SeenInOrder ==
    ASSUME NEW dir \in {One, Minus}, NEW o, NEW p, NEW y, NEW q, NEW z, IsFraction(o),
           IsFraction(p), IsFraction(y), IsFraction(q), IsFraction(z),
           p \prec q, p ++ y \prec q ++ z
    PROVE  IF dir = One THEN SeenAt(dir, o, p, y) \prec SeenAt(dir, o, q, z)
           ELSE SeenAt(dir, o, q, z) \prec SeenAt(dir, o, p, y)
<1>1. ASSUME NEW x, NEW w, IsFraction(x), IsFraction(w), x \prec w
      PROVE  x -- o \prec w -- o /\ o -- w \prec o -- x
  <2>1. PICK d, j, k, l : Over3(o, x, w, d, j, k, l)
    BY <1>1, OverOne
  <2>2. /\ d \in Nat /\ d # 0 /\ j \in Int /\ k \in Int /\ l \in Int
        /\ o = Frac(j, d) /\ x = Frac(k, d) /\ w = Frac(l, d)
    BY <2>1 DEF Over3
  <2>3. k < l
    BY <1>1, <2>2, OverOneDenominator
  <2>4. /\ x -- o = Frac(k - j, d) /\ w -- o = Frac(l - j, d)
        /\ o -- w = Frac(j - l, d) /\ o -- x = Frac(j - k, d)
    BY <2>2, OverOneDenominator
  <2>5. /\ Frac(k - j, d) \prec Frac(l - j, d) <=> k - j < l - j
        /\ Frac(j - l, d) \prec Frac(j - k, d) <=> j - l < j - k
    <3>1. k - j \in Int /\ l - j \in Int /\ j - l \in Int /\ j - k \in Int
      BY <2>2
    <3> QED
      BY <2>2, <3>1, OverOneDenominator
  <2> QED
    BY <2>2, <2>3, <2>4, <2>5
<1>2. IsFraction(p ++ y) /\ IsFraction(q ++ z)
  BY AddFacts
<1>3. CASE dir = One
  BY <1>1, <1>3 DEF SeenAt
<1>4. CASE dir # One
  BY <1>1, <1>2, <1>4 DEF SeenAt
<1> QED
  BY <1>3, <1>4

\* The arrow's middle is where its board is grabbed, so that what it goes by the board
\* is to go by (session.py begin_drag, drag_to).
LEMMA GrabCarries ==
    ASSUME NEW g, NEW p, NEW t, IsFraction(g), IsFraction(p), IsFraction(t)
    PROVE  ((g ++ t) -- (g -- p)) -- p = t /\ IsFraction((g ++ t) -- (g -- p))
<1>1. PICK d, j, k, l : Over3(g, p, t, d, j, k, l)
  BY OverOne
<1>2. /\ d \in Nat /\ d # 0 /\ j \in Int /\ k \in Int /\ l \in Int
      /\ g = Frac(j, d) /\ p = Frac(k, d) /\ t = Frac(l, d)
  BY <1>1 DEF Over3
<1>3. PICK x, y, z \in Int : x = j + l /\ y = j - k /\ z = x - y
  BY <1>2
<1>4. g ++ t = Frac(x, d) /\ g -- p = Frac(y, d)
  BY <1>2, <1>3, OverOneDenominator
<1>5. (g ++ t) -- (g -- p) = Frac(z, d)
  BY <1>2, <1>3, <1>4, OverOneDenominator
<1>6. Frac(z, d) -- p = Frac(z - k, d)
  BY <1>2, <1>3, OverOneDenominator
<1>7. z - k = l
  BY <1>2, <1>3
<1> QED
  BY <1>2, <1>3, <1>5, <1>6, <1>7, FracIsFraction

\* What the pointer goes by, and what the board does, on the screen and in the unit.
LEMMA Pulling ==
    ASSUME NEW dir \in {One, Minus}, NEW s, NEW offset, IsFraction(s), IsFraction(offset),
           NEW way, way = dir ** s, NEW w, w = dir ** offset
    PROVE  /\ IsFraction(w) /\ (s = w => way = offset)
           /\ way ** offset = s ** w /\ Square(way) = Square(s) /\ Square(offset) = Square(w)
           /\ dir = One => (Zero \prec offset <=> Zero \prec w)
           /\ dir = Minus => (Zero \prec offset <=> w \prec Zero)
<1>1. PICK d, m, n, z : Over3(s, offset, Zero, d, m, n, z)
  BY OverOne, AddFacts
<1>2. /\ d \in Nat /\ d # 0 /\ m \in Int /\ n \in Int
      /\ s = Frac(m, d) /\ offset = Frac(n, d) /\ Zero = Frac(0, d)
  BY <1>1, ZeroIsFrac DEF Over3
<1>3. CASE dir = One
  BY <1>2, <1>3, SignFacts DEF Square
<1>4. CASE dir = Minus
  <2>1. PICK x, y \in Int : x = -m /\ y = -n
    BY <1>2
  <2>2. way = Frac(x, d) /\ w = Frac(y, d)
    BY <1>2, <1>4, <2>1, SignFacts
  <2>3. /\ Frac(x, d) ** Frac(n, d) = Frac(x * n, d * d)
        /\ Frac(m, d) ** Frac(y, d) = Frac(m * y, d * d)
        /\ Frac(x, d) ** Frac(x, d) = Frac(x * x, d * d)
        /\ Frac(y, d) ** Frac(y, d) = Frac(y * y, d * d)
        /\ Frac(m, d) ** Frac(m, d) = Frac(m * m, d * d)
        /\ Frac(n, d) ** Frac(n, d) = Frac(n * n, d * d)
    <3>1. \A i \in {x, y, m, n}, k \in {x, y, m, n} : Frac(i, d) ** Frac(k, d) = Frac(i * k, d * d)
      <4>1. ASSUME NEW i \in Int, NEW k \in Int
            PROVE  Frac(i, d) ** Frac(k, d) = Frac(i * k, d * d)
        BY ONLY <1>2, <4>1, OverTwoDenominators
      <4> QED
        BY <1>2, <4>1
    <3> QED
      BY ONLY <3>1
  <2>4. x * n = m * y /\ x * x = m * m /\ y * y = n * n
    BY <1>2, <2>1
  <2>5. IsFraction(w)
    BY <1>2, <2>1, <2>2, FracIsFraction
  <2>6. s = w => way = offset
    <3>1. Frac(m, d) = Frac(y, d) <=> m = y
      BY <1>2, <2>1, OverOneDenominator, ZenonT(40)
    <3>2. m = y => x = n
      BY <1>2, <2>1
    <3> QED
      BY <1>2, <2>2, <3>1, <3>2
  <2>7. Zero \prec offset <=> w \prec Zero
    <3>0. 0 \in Int
      OBVIOUS
    <3>1. Frac(0, d) \prec Frac(n, d) <=> 0 < n
      BY ONLY <1>2, <3>0, OverOneDenominator
    <3>2. Frac(y, d) \prec Frac(0, d) <=> y < 0
      BY ONLY <1>2, y \in Int, <3>0, OverOneDenominator
    <3>3. 0 < n <=> y < 0
      BY <1>2, <2>1
    <3> QED
      BY ONLY <1>2, <2>2, <3>1, <3>2, <3>3
  <2> QED
    BY <1>2, <1>4, <2>2, <2>3, <2>4, <2>5, <2>6, <2>7, SignFacts DEF Square
<1> QED
  BY <1>3, <1>4

\* A drag goes all the way, or stops where the region it goes into is at its least.
LEMMA ShiftStops ==
    ASSUME NEW w, NEW p, NEW q, IsFraction(w), IsFraction(p), IsFraction(q),
           Zero \prec p, Zero \prec q, NEW s, s = Shift(w, p, q)
    PROVE  \/ s = w
           \/ Zero \preceq s /\ s \prec w /\ q -- s = Least(MinDragGap, q)
           \/ w \prec s /\ s \preceq Zero /\ p ++ s = Least(MinDragGap, p)
<1>1. PICK gap : gap = MinDragGap
  OBVIOUS
<1>2. IsFraction(gap) /\ Zero \prec gap
  BY <1>1, WholeIsFrac DEF Zero, MinDragGap, \prec, Whole
<1>3. PICK d, iw, ip, iq, ig : Over4(w, p, q, gap, d, iw, ip, iq, ig)
  BY <1>2, OverFour
<1>4. /\ d \in Nat /\ d # 0 /\ iw \in Int /\ ip \in Int /\ iq \in Int /\ ig \in Int
      /\ w = Frac(iw, d) /\ p = Frac(ip, d) /\ q = Frac(iq, d) /\ gap = Frac(ig, d)
  BY <1>3 DEF Over4
<1>5. 0 < ip /\ 0 < iq /\ 0 < ig
  BY <1>2, <1>4, SignOver
<1>6. PICK il \in Int, ih \in Int : /\ il = IF ig <= ip THEN ig ELSE ip
                                    /\ ih = IF ig <= iq THEN ig ELSE iq
  BY <1>4
<1>7. Least(gap, p) = Frac(il, d) /\ Least(gap, q) = Frac(ih, d)
  <2>1. (gap \preceq p <=> ig <= ip) /\ (gap \preceq q <=> ig <= iq)
    BY <1>4, OverOneDenominator
  <2> QED
    BY <1>4, <1>6, <2>1 DEF Least
<1>8. PICK x \in Int, y \in Int : x = il - ip /\ y = iq - ih
  BY <1>4
<1>9. d \in Nat /\ d # 0 /\ iw \in Int /\ ip \in Int /\ iq \in Int
  BY <1>4
<1>10. Frac(il, d) -- Frac(ip, d) = Frac(il - ip, d)
  BY ONLY <1>9, il \in Int, OverOneDenominator
<1>11. Frac(iq, d) -- Frac(ih, d) = Frac(iq - ih, d)
  BY ONLY <1>9, ih \in Int, OverOneDenominator
<1>12. PICK z \in Int : z = IF iw <= x THEN x ELSE iw
  BY <1>4
<1>13. Greatest(w, Frac(x, d)) = Frac(z, d)
  <2>1. Frac(iw, d) \preceq Frac(x, d) <=> iw <= x
    BY ONLY <1>9, x \in Int, OverOneDenominator
  <2> QED
    BY <1>4, <1>12, <2>1 DEF Greatest
<1>14. PICK t \in Int : t = IF z <= y THEN z ELSE y
  OBVIOUS
<1>15. Least(Frac(z, d), Frac(y, d)) = Frac(t, d)
  <2>1. Frac(z, d) \preceq Frac(y, d) <=> z <= y
    BY ONLY <1>9, y \in Int, z \in Int, OverOneDenominator
  <2> QED
    BY <1>14, <2>1 DEF Least
<1>16. s = Frac(t, d)
  <2>1. Least(gap, p) -- p = Frac(x, d)
    BY ONLY <1>4, <1>7, <1>8, <1>10
  <2>2. q -- Least(gap, q) = Frac(y, d)
    BY ONLY <1>4, <1>7, <1>8, <1>11
  <2>3. s = Least(Greatest(w, Least(gap, p) -- p), q -- Least(gap, q))
    BY <1>1 DEF Shift
  <2> QED
    BY ONLY <1>13, <1>15, <2>1, <2>2, <2>3
<1>17. x <= 0 /\ 0 <= y
  BY <1>4, <1>5, <1>6, <1>8
<1>18. \/ t = iw
       \/ 0 <= t /\ t < iw /\ iq - t = ih
       \/ iw < t /\ t <= 0 /\ ip + t = il
  BY <1>9, <1>6, <1>8, <1>12, <1>14, <1>17
<1>19. /\ Frac(iq, d) -- Frac(t, d) = Frac(iq - t, d)
       /\ Frac(ip, d) ++ Frac(t, d) = Frac(ip + t, d)
       /\ Frac(t, d) \prec Frac(iw, d) <=> t < iw
       /\ Frac(iw, d) \prec Frac(t, d) <=> iw < t
  BY ONLY <1>9, t \in Int, OverOneDenominator
<1>20. Zero \preceq Frac(t, d) <=> 0 <= t
  BY ONLY <1>9, t \in Int, SignOver
<1>21. Frac(t, d) \preceq Zero <=> t <= 0
  <2>1. Zero = Frac(0, d)
    BY ONLY <1>9, ZeroIsFrac
  <2>2. 0 \in Int
    OBVIOUS
  <2>3. Frac(t, d) \preceq Frac(0, d) <=> t <= 0
    BY ONLY <1>9, t \in Int, <2>2, OverOneDenominator
  <2> QED
    BY ONLY <2>1, <2>3
<1>22. CASE t = iw
  BY <1>4, <1>16, <1>22
<1>23. CASE 0 <= t /\ t < iw /\ iq - t = ih
  BY ONLY <1>1, <1>4, <1>7, <1>16, <1>19, <1>20, <1>23
<1>24. CASE iw < t /\ t <= 0 /\ ip + t = il
  BY ONLY <1>1, <1>4, <1>7, <1>16, <1>19, <1>21, <1>24
<1> QED
  BY <1>18, <1>22, <1>23, <1>24

\* What stops short goes the same way, and less far.
LEMMA StopsShort ==
    ASSUME NEW s, NEW w, IsFraction(s), IsFraction(w)
    PROVE  /\ Zero \preceq s /\ s \prec w => /\ Zero \prec w /\ Zero \preceq s ** w
                                             /\ Square(s) \prec Square(w)
           /\ w \prec s /\ s \preceq Zero => /\ w \prec Zero /\ Zero \preceq s ** w
                                             /\ Square(s) \prec Square(w)
<1>1. IsFraction(Zero)
  BY AddFacts
<1>2. PICK d, m, n, z : Over3(s, w, Zero, d, m, n, z)
  BY <1>1, OverOne
<1>3. /\ d \in Nat /\ d # 0 /\ m \in Int /\ n \in Int /\ z \in Int
      /\ s = Frac(m, d) /\ w = Frac(n, d) /\ Zero = Frac(z, d)
  BY <1>2 DEF Over3
<1>4. z = 0
  BY <1>3, ZeroIsFrac, OverOneDenominator
<1>5. /\ Zero \preceq s <=> 0 <= m
      /\ s \prec w <=> m < n
      /\ w \prec s <=> n < m
      /\ s \preceq Zero <=> m <= 0
      /\ Zero \prec w <=> 0 < n
      /\ w \prec Zero <=> n < 0
  BY <1>3, <1>4, OverOneDenominator
<1>6. PICK e \in Nat, mn \in Int, mm \in Int, nn \in Int :
         e = d * d /\ mn = m * n /\ mm = m * m /\ nn = n * n
  BY <1>3
<1>7. e # 0
  BY <1>3, <1>6
<1>8. d \in Nat /\ d # 0 /\ m \in Int /\ n \in Int
  BY <1>3
<1>9. /\ Frac(m, d) ** Frac(n, d) = Frac(m * n, d * d)
      /\ Frac(m, d) ** Frac(m, d) = Frac(m * m, d * d)
      /\ Frac(n, d) ** Frac(n, d) = Frac(n * n, d * d)
  <2>1. ASSUME NEW i \in Int, NEW k \in Int
        PROVE  Frac(i, d) ** Frac(k, d) = Frac(i * k, d * d)
    BY ONLY <1>8, <2>1, OverTwoDenominators
  <2> QED
    BY <1>8, <2>1
<1>10. s ** w = Frac(mn, e) /\ Square(s) = Frac(mm, e) /\ Square(w) = Frac(nn, e)
  BY <1>3, <1>6, <1>9 DEF Square
<1>11. Zero \preceq Frac(mn, e) <=> 0 <= mn
  BY ONLY <1>7, e \in Nat, mn \in Int, SignOver
<1>12. Frac(mm, e) \prec Frac(nn, e) <=> mm < nn
  BY ONLY <1>7, e \in Nat, mm \in Int, nn \in Int, OverOneDenominator
<1>13. 0 <= m /\ m < n => 0 <= mn /\ mm < nn
  <2>1. SUFFICES ASSUME 0 <= m, m < n PROVE 0 <= m * n /\ m * m < n * n
    BY <1>6
  <2>2. 0 <= m * n /\ m * m <= m * n
    BY <1>8, <2>1
  <2>3. m * n < n * n
    BY <1>8, <2>1
  <2> QED
    BY <1>8, <2>2, <2>3
<1>14. n < m /\ m <= 0 => 0 <= mn /\ mm < nn
  <2>1. SUFFICES ASSUME n < m, m <= 0 PROVE 0 <= m * n /\ m * m < n * n
    BY <1>6
  <2>2. PICK i \in Nat, j \in Nat : i = -m /\ j = -n
    BY <1>8, <2>1
  <2>3. i < j /\ m * n = i * j /\ m * m = i * i /\ n * n = j * j
    BY <1>8, <2>1, <2>2
  <2>4. 0 <= i * j /\ i * i <= i * j
    BY <2>3
  <2>5. i * j < j * j
    BY <2>3
  <2> QED
    BY <2>3, <2>4, <2>5
<1> QED
  BY <1>5, <1>8, <1>10, <1>11, <1>12, <1>13, <1>14

\* Of two places of a run whose sizes are above zero, the one further on begins and
\* ends further on.
LEMMA SumRises ==
    ASSUME NEW f, NEW n \in Nat, Fractional(f, 1 .. n), \A k \in 1 .. n : Zero \prec f[k],
           NEW i \in 1 .. n, NEW j \in 1 .. n, i < j,
           NEW p, NEW q, p = Sum(f, 1 .. i - 1), q = Sum(f, 1 .. j - 1)
    PROVE  /\ IsFraction(p) /\ IsFraction(q)
           /\ p \prec q /\ p ++ f[i] \prec q ++ f[j]
<1>1. \A k \in 0 .. n : IsFiniteSet(1 .. k) /\ Fractional(f, 1 .. k)
  <2>1. ASSUME NEW k \in 0 .. n PROVE IsFiniteSet(1 .. k) /\ Fractional(f, 1 .. k)
    <3>1. 1 \in Int /\ k \in Int
      OBVIOUS
    <3>2. IsFiniteSet(1 .. k)
      BY <3>1, FS_Interval
    <3>3. \A e \in 1 .. k : e \in 1 .. n
      OBVIOUS
    <3> QED
      BY <3>2, <3>3 DEF Fractional
  <2> QED
    BY <2>1
<1>2. \A k \in 0 .. n : IsFraction(Sum(f, 1 .. k))
  BY <1>1, SumIsFraction
<1>3. ASSUME NEW k \in 0 .. n, NEW l \in 0 .. n, k < l
      PROVE  Sum(f, 1 .. k) \prec Sum(f, 1 .. l)
  <2>1. PICK S, R : S = 1 .. k /\ R = k + 1 .. l
    OBVIOUS
  <2>2. S \cup R = 1 .. l /\ S \cap R = {} /\ R # {} /\ R \subseteq 1 .. n
    <3>1. k \in Int /\ l \in Int /\ n \in Int /\ 0 <= k /\ k < l /\ l <= n
      BY <1>3
    <3>2. k + 1 \in R
      BY <3>1, <2>1
    <3>3. \A e : e \in S \cup R <=> e \in 1 .. l
      BY <3>1, <2>1
    <3>4. \A e \in R : e \notin S /\ e \in 1 .. n
      BY <3>1, <2>1
    <3> QED
      BY <3>2, <3>3, <3>4
  <2>3. IsFiniteSet(S) /\ IsFiniteSet(R) /\ Fractional(f, S \cup R) /\ Fractional(f, R)
    <3>1. IsFiniteSet(R) /\ IsFiniteSet(S)
      BY <2>1, FS_Interval
    <3> QED
      BY <1>1, <2>2, <3>1 DEF Fractional
  <2>4. Sum(f, S \cup R) = Sum(f, S) ++ Sum(f, R)
    BY <2>2, <2>3, SumOfParts
  <2>5. Zero \prec Sum(f, R)
    BY <2>2, <2>3, SumIsPositive
  <2>6. PICK x, y : x = Sum(f, S) /\ y = Sum(f, R)
    OBVIOUS
  <2>7. IsFraction(x) /\ IsFraction(y)
    BY <1>2, <2>1, <2>3, <2>6, SumIsFraction
  <2>8. x \prec x ++ y
    BY <2>5, <2>6, <2>7, OrderFacts
  <2> QED
    BY <2>1, <2>2, <2>4, <2>6, <2>8
<1>4. ASSUME NEW k \in 1 .. n PROVE Sum(f, 1 .. k) = Sum(f, 1 .. k - 1) ++ f[k]
  <2>1. PICK S : S = 1 .. k - 1
    OBVIOUS
  <2>2. S \cup {k} = 1 .. k /\ k \notin S
    BY <2>1
  <2>3. IsFiniteSet(S) /\ Fractional(f, S \cup {k}) /\ k - 1 \in 0 .. n /\ k \in 0 .. n
    <3>1. k - 1 \in 0 .. n /\ k \in 0 .. n
      OBVIOUS
    <3>2. IsFiniteSet(1 .. k - 1) /\ Fractional(f, 1 .. k)
      BY <1>1, <3>1
    <3> QED
      BY <2>1, <2>2, <3>1, <3>2
  <2>4. Sum(f, S \cup {k}) = f[k] ++ Sum(f, S)
    BY <2>2, <2>3, SumAdds
  <2>5. PICK x, y : x = Sum(f, S) /\ y = f[k]
    OBVIOUS
  <2>6. IsFraction(x) /\ IsFraction(y)
    BY <1>2, <2>1, <2>3, <2>5 DEF Fractional
  <2>7. y ++ x = x ++ y
    BY <2>6, AddFacts
  <2> QED
    BY <2>1, <2>2, <2>4, <2>5, <2>7, Zenon
<1>5. i - 1 \in 0 .. n /\ j - 1 \in 0 .. n /\ i \in 0 .. n /\ j \in 0 .. n /\ i - 1 < j - 1
  OBVIOUS
<1>6. IsFraction(p) /\ IsFraction(q) /\ p \prec q
  BY <1>2, <1>3, <1>5
<1>7. Sum(f, 1 .. i) \prec Sum(f, 1 .. j)
  BY <1>3, <1>5
<1>8. Sum(f, 1 .. i) = p ++ f[i] /\ Sum(f, 1 .. j) = q ++ f[j]
  BY <1>4
<1> QED
  BY <1>6, <1>7, <1>8

\* So it is seen further on, or further back.
LEMMA RunIsSeenInOrder ==
    ASSUME NEW n \in Nat, NEW f, Fractional(f, 1 .. n), \A k \in 1 .. n : Zero \prec f[k],
           NEW w, NEW a \in Axes, IsFraction(w.low[a]),
           NEW i \in 1 .. n, NEW j \in 1 .. n, i < j,
           NEW s, NEW t, AtPlace(s, w, a, i, f), AtPlace(t, w, a, j, f),
           NEW dir \in {One, Minus}, NEW o, IsFraction(o),
           NEW x, NEW y, x = SeenAt(dir, o, s.low[a], s.size[a]),
           y = SeenAt(dir, o, t.low[a], t.size[a])
    PROVE  /\ dir = One => x \prec y
           /\ dir = Minus => y \prec x
<1>1. PICK m, p, q, fi, fj : /\ m = w.low[a] /\ p = Sum(f, 1 .. i - 1) /\ q = Sum(f, 1 .. j - 1)
                             /\ fi = f[i] /\ fj = f[j]
  OBVIOUS
<1>2. /\ IsFraction(m) /\ IsFraction(p) /\ IsFraction(q) /\ IsFraction(fi) /\ IsFraction(fj)
      /\ p \prec q /\ p ++ fi \prec q ++ fj
  <2>1. IsFraction(p) /\ IsFraction(q) /\ p \prec q /\ p ++ f[i] \prec q ++ f[j]
    BY <1>1, SumRises
  <2> QED
    BY <1>1, <2>1 DEF Fractional
<1>3. s.low[a] = m ++ p /\ s.size[a] = fi /\ t.low[a] = m ++ q /\ t.size[a] = fj
  BY <1>1 DEF AtPlace
<1>4. ASSUME NEW b, NEW c, IsFraction(b), IsFraction(c), b \prec c
      PROVE  m ++ b \prec m ++ c
  <2>1. PICK d, j1, j2, j3 : Over3(m, b, c, d, j1, j2, j3)
    BY <1>2, <1>4, OverOne
  <2>2. /\ d \in Nat /\ d # 0 /\ j1 \in Int /\ j2 \in Int /\ j3 \in Int
        /\ m = Frac(j1, d) /\ b = Frac(j2, d) /\ c = Frac(j3, d)
    BY <2>1 DEF Over3
  <2>3. j2 < j3
    BY <1>4, <2>2, OverOneDenominator
  <2>4. PICK x1 \in Int, x2 \in Int : x1 = j1 + j2 /\ x2 = j1 + j3
    BY <2>2
  <2>6. d \in Nat /\ d # 0 /\ j1 \in Int /\ j2 \in Int /\ j3 \in Int
    BY <2>2
  <2>5. m ++ b = Frac(x1, d) /\ m ++ c = Frac(x2, d) /\ x1 < x2
    <3>1. Frac(j1, d) ++ Frac(j2, d) = Frac(j1 + j2, d)
      BY ONLY <2>6, OverOneDenominator
    <3>2. Frac(j1, d) ++ Frac(j3, d) = Frac(j1 + j3, d)
      BY ONLY <2>6, OverOneDenominator
    <3>3. x1 < x2
      BY <2>3, <2>4, <2>6
    <3> QED
      BY <2>2, <2>4, <3>1, <3>2, <3>3
  <2>7. Frac(x1, d) \prec Frac(x2, d) <=> x1 < x2
    BY ONLY <2>6, x1 \in Int, x2 \in Int, OverOneDenominator
  <2> QED
    BY <2>5, <2>7
<1>5. m ++ p \prec m ++ q
  BY <1>2, <1>4
<1>6. PICK b, c : b = p ++ fi /\ c = q ++ fj
  OBVIOUS
<1>7. IsFraction(b) /\ IsFraction(c) /\ b \prec c
  BY <1>2, <1>6, AddFacts
<1>8. m ++ b \prec m ++ c
  BY <1>4, <1>7
<1>9. (m ++ p) ++ fi = m ++ b /\ (m ++ q) ++ fj = m ++ c
  BY <1>2, <1>6, SumLaws
<1>10. IsFraction(m ++ p) /\ IsFraction(m ++ q)
  BY <1>2, AddFacts
<1>11. PICK g, h : g = m ++ p /\ h = m ++ q
  OBVIOUS
<1>12. g \prec h /\ g ++ fi \prec h ++ fj /\ IsFraction(g) /\ IsFraction(h)
  BY <1>5, <1>8, <1>9, <1>10, <1>11
<1>13. IF dir = One THEN SeenAt(dir, o, g, fi) \prec SeenAt(dir, o, h, fj)
       ELSE SeenAt(dir, o, h, fj) \prec SeenAt(dir, o, g, fi)
  BY <1>2, <1>12, SeenInOrder
<1>14. x = SeenAt(dir, o, g, fi) /\ y = SeenAt(dir, o, h, fj)
  BY <1>3, <1>11
<1> QED
  BY <1>13, <1>14, SignFacts

\* The signs are fractions.
LEMMA SignIsFraction == IsFraction(Zero) /\ IsFraction(One) /\ IsFraction(Minus)
<1>1. IsFraction(Zero) /\ IsFraction(One)
  BY WholeIsFrac DEF Zero, One
<1> QED
  BY <1>1, AddFacts DEF Minus

\* Where a place is seen is a fraction too.
LEMMA SeenIsFraction ==
    ASSUME NEW dir, NEW o, NEW p, NEW z, IsFraction(o), IsFraction(p), IsFraction(z)
    PROVE  IsFraction(SeenAt(dir, o, p, z))
<1>1. IsFraction(p ++ z)
  BY AddFacts
<1>2. IsFraction(p -- o) /\ IsFraction(o -- (p ++ z))
  BY <1>1, AddFacts
<1> QED
  BY <1>2 DEF SeenAt

\* v is u with b, between l and h, gone by s, l as much longer and h as much shorter.
Lands(u, v, b, l, h, s) ==
    LET a == AxisOf(u, b)
    IN  /\ v.space[b].low[a] = u.space[b].low[a] ++ s
        /\ v.space[b].size[a] = u.space[b].size[a]
        /\ Extent(v, l) = Extent(u, l) ++ s /\ Extent(v, h) = Extent(u, h) -- s

\* That is what a drag to mm does (edit.py move_board).
LEMMA DragLands ==
    ASSUME NEW u, Sized(u), NEW b \in Boards(u), Movable(u, b), NEW mm, IsFraction(mm),
           NEW v, v = Solved(MoveBoard(u, b, mm)),
           NEW l, NEW h, l = FreeBeside(u, b).low, h = FreeBeside(u, b).high
    PROVE  Lands(u, v, b, l, h, Shift(mm -- u.space[b].low[AxisOf(u, b)],
                                      Extent(u, l), Extent(u, h)))
<1>2. /\ Struct(u) /\ Ruled(u) /\ u.space = Spaces(u) /\ IsFramed(u)
  BY DEF Sized
<1>3. PICK c : c = MoveBoard(u, b, mm)
  OBVIOUS
<1>4. v = Solved(c)
  BY <1>3
<1>6. Struct(c) /\ Ruled(c) /\ SameFrame(u, c)
  <2>1. Struct(c)
    BY <1>2, <1>3, MoveFacts DEF KeepsNodes, Keeps
  <2>2. Ruled(c)
    BY <1>3, MoveIsSound
  <2>3. SameFrame(u, c)
    BY <1>2, <1>3, MoveFrame
  <2> QED
    BY <2>1, <2>2, <2>3
<1>7. IsFramed(c) /\ OuterSpace(c) = OuterSpace(u)
  BY <1>2, <1>6, FrameIsSame
<1>8. PICK d, a, w, run, n, k, f : /\ d = RunOf(u, b) /\ a = u.axis[d] /\ w = u.space[d]
                                   /\ run = u.items[d] /\ n = Len(run) /\ k = PlaceOf(u, b)
                                   /\ f = ShownSizes(u, d)
  OBVIOUS
<1>9. PICK x, y : DragsBetween(u, b, x, y)
  BY <1>2, BesidePlaces
<1>10. PICK s : /\ IsDrag(u, c, d, x, y, s)
                /\ s = Shift(mm -- u.space[b].low[AxisOf(u, b)], f[x], f[y])
  BY <1>3, <1>8, <1>9, DragMakes
<1>11. /\ d \in Divisions(u) /\ IsFraction(s) /\ c.items = u.items /\ c.axis = u.axis
       /\ Nodes(c) = Nodes(u)
  BY <1>10 DEF IsDrag
<1>12. b \in Nodes(u) \ {u.root}
  BY <1>2 DEF Struct, Regions
<1>13. /\ n \in Nat /\ DOMAIN run = 1 .. n /\ k \in 1 .. n /\ run[k] = b
       /\ \A j \in 1 .. n : run[j] \in Nodes(u) \ {u.root}
       /\ \A j \in 1 .. n : d = RunOf(u, run[j]) /\ j = PlaceOf(u, run[j])
  <2>1. n \in Nat /\ DOMAIN run = 1 .. n /\ \A j \in 1 .. n : run[j] \in Nodes(u) \ {u.root}
    BY <1>2, <1>8, <1>11, RunIsTyped
  <2>2. k \in 1 .. n /\ run[k] = b
    BY <1>2, <1>8, <1>12, PlaceInRun
  <2>3. ASSUME NEW j \in 1 .. n PROVE d = RunOf(u, run[j]) /\ j = PlaceOf(u, run[j])
    BY <1>2, <1>8, <1>11, <2>1, PlaceInRun
  <2> QED
    BY <2>1, <2>2, <2>3
<1>15. /\ x \in 1 .. k - 1 /\ y \in k + 1 .. n /\ run[x] = l /\ run[y] = h
  BY <1>8, <1>9 DEF DragsBetween
<1>16. /\ x \in 1 .. n /\ y \in 1 .. n /\ x < k /\ k < y /\ k # x /\ k # y
       /\ k - 1 \in 0 .. n /\ x <= k - 1 /\ k - 1 < y
  BY <1>13, <1>15
<1>18. PICK g : g = DragSizes(f, x, y, s)
  OBVIOUS
<1>19. \A j \in 1 .. n : AtPlace(Spaces(c)[run[j]], w, a, j, g)
  <2>1. \A j \in DOMAIN u.items[d] : AtPlace(Spaces(c)[u.items[d][j]], w, a, j, g)
    BY <1>2, <1>6, <1>7, <1>8, <1>10, <1>18, DragPlaces
  <2> QED
    BY <1>8, <1>13, <2>1
<1>20. Shifts(f, g, n, x, y, s)
  BY <1>2, <1>6, <1>8, <1>10, <1>18, DragShows
<1>21. \A j \in 1 .. n : AtPlace(u.space[run[j]], w, a, j, f) /\ f[j] = Extent(u, run[j])
  <2>1. LET e == ShownSizes(u, d)
            z == u.space[d]
            o == u.axis[d]
        IN  \A j \in DOMAIN u.items[d] : /\ AtPlace(u.space[u.items[d][j]], z, o, j, e)
                                         /\ e[j] = Extent(u, u.items[d][j])
    BY <1>2, <1>11, SizedShows
  <2> QED
    BY <1>8, <1>13, <2>1
<1>22. a \in Axes /\ IsRoom(w)
  BY <1>2, <1>8, <1>11, RoomsFacts, Zenon DEF Ruled, Struct, Regions
<1>23. g[x] = f[x] ++ s /\ g[y] = f[y] -- s /\ g[k] = f[k]
  BY <1>13, <1>16, <1>20 DEF Shifts
<1>25. /\ v.space = Spaces(c) /\ v.items = u.items /\ v.axis = u.axis
  BY <1>4, <1>6, <1>11, SolvedIs
<1>26. v.space[b].size[a] = u.space[b].size[a] /\ v.space[b].low[a] = u.space[b].low[a] ++ s
  <2>2. AtPlace(v.space[b], w, a, k, g) /\ AtPlace(u.space[b], w, a, k, f)
    BY <1>13, <1>19, <1>21, <1>25
  <2>5. PICK m, o : m = Sum(f, 1 .. k - 1) /\ o = w.low[a]
    OBVIOUS
  <2>6. IsFraction(m) /\ Sum(g, 1 .. k - 1) = m ++ s
    BY <1>16, <1>20, <2>5, ShiftedSums
  <2>8. v.space[b].low[a] = o ++ (m ++ s) /\ u.space[b].low[a] = o ++ m
    BY <2>2, <2>5, <2>6 DEF AtPlace
  <2>9. IsFraction(o)
    BY <1>22, <2>5 DEF IsRoom
  <2>10. o ++ (m ++ s) = (o ++ m) ++ s
    BY <1>11, <2>6, <2>9, SumLaws
  <2> QED
    BY <1>23, <2>2, <2>8, <2>10 DEF AtPlace
<1>27. ASSUME NEW j \in {x, y} PROVE Extent(v, run[j]) = g[j] /\ Extent(u, run[j]) = f[j]
  <2>1. j \in 1 .. n
    BY <1>16
  <2>2. Extent(v, run[j]) = g[j]
    <3>1. RunOf(v, run[j]) = d
      BY <1>13, <1>25, <2>1 DEF RunOf, Divisions
    <3>2. AxisOf(v, run[j]) = a
      BY <1>8, <1>25, <3>1 DEF AxisOf
    <3>3. AtPlace(v.space[run[j]], w, a, j, g)
      BY <1>19, <1>25, <2>1
    <3> QED
      BY <3>2, <3>3 DEF Extent, AtPlace
  <2> QED
    BY <1>21, <2>1, <2>2
<1>28. /\ Extent(u, l) = f[x] /\ Extent(u, h) = f[y]
       /\ Extent(v, l) = f[x] ++ s /\ Extent(v, h) = f[y] -- s
  BY <1>15, <1>23, <1>27
<1>29. AxisOf(u, b) = a
  BY <1>8 DEF AxisOf
<1>30. s = Shift(mm -- u.space[b].low[AxisOf(u, b)], Extent(u, l), Extent(u, h))
  BY <1>10, <1>28
<1>31. Lands(u, v, b, l, h, s)
  BY <1>26, <1>28, <1>29 DEF Lands
<1> QED
  BY <1>30, <1>31

\* at is where the board b of the unit u and the two regions it is dragged between begin
\* on the screen, seen along the axis a from o.
SeesBeside(u, b, l, h, a, dir, o, at) ==
    /\ Sized(u) /\ b \in Boards(u) /\ Movable(u, b)
    /\ l = FreeBeside(u, b).low /\ h = FreeBeside(u, b).high
    /\ a = AxisOf(u, b) /\ dir \in {One, Minus} /\ IsFraction(o)
    /\ \A i \in {l, b, h} : at[i] = SeenAt(dir, o, u.space[i].low[a], u.space[i].size[a])

\* The three are seen in their order, and each takes a room.
BesideIsSeen(u, b, l, h, a, dir, at) ==
    /\ a \in Axes
    /\ \A i \in {l, b, h} : /\ IsFraction(u.space[i].low[a]) /\ IsFraction(u.space[i].size[a])
                             /\ Zero \prec u.space[i].size[a]
    /\ Extent(u, l) = u.space[l].size[a] /\ Extent(u, h) = u.space[h].size[a]
    /\ dir = One => at[l] \prec at[b] /\ at[b] \prec at[h]
    /\ dir = Minus => at[h] \prec at[b] /\ at[b] \prec at[l]

\* The regions a drag resizes are seen on the two sides of its board.
LEMMA SeenBeside ==
    ASSUME NEW u, NEW b, NEW l, NEW h, NEW a, NEW dir, NEW o, NEW at,
           SeesBeside(u, b, l, h, a, dir, o, at)
    PROVE  BesideIsSeen(u, b, l, h, a, dir, at)
<1> SUFFICES ASSUME Sized(u), b \in Boards(u), Movable(u, b),
                    l = FreeBeside(u, b).low, h = FreeBeside(u, b).high,
                    a = AxisOf(u, b), dir \in {One, Minus}, IsFraction(o),
                    \A i \in {l, b, h} :
                       at[i] = SeenAt(dir, o, u.space[i].low[a], u.space[i].size[a])
             PROVE  /\ a \in Axes
                    /\ \A i \in {l, b, h} :
                         /\ IsFraction(u.space[i].low[a]) /\ IsFraction(u.space[i].size[a])
                         /\ Zero \prec u.space[i].size[a]
                    /\ Extent(u, l) = u.space[l].size[a] /\ Extent(u, h) = u.space[h].size[a]
                    /\ dir = One => at[l] \prec at[b] /\ at[b] \prec at[h]
                    /\ dir = Minus => at[h] \prec at[b] /\ at[b] \prec at[l]
  BY DEF SeesBeside, BesideIsSeen
<1>1. Struct(u) /\ Ruled(u) /\ u.space = Spaces(u) /\ IsFramed(u)
  BY DEF Sized
<1>2. PICK d, w, run, n, k, f : /\ d = RunOf(u, b) /\ w = u.space[d]
                                /\ run = u.items[d] /\ n = Len(run) /\ k = PlaceOf(u, b)
                                /\ f = ShownSizes(u, d)
  OBVIOUS
<1>3. PICK x, y : DragsBetween(u, b, x, y)
  BY <1>1, BesidePlaces
<1>4. b \in Nodes(u) \ {u.root}
  BY <1>1 DEF Struct, Regions
<1>5. d \in Divisions(u) /\ k \in 1 .. n /\ run[k] = b
  BY <1>1, <1>2, <1>4, PlaceInRun
<1>6. n \in Nat /\ DOMAIN run = 1 .. n
  BY <1>1, <1>2, <1>5, RunIsTyped
<1>7. /\ x \in 1 .. k - 1 /\ y \in k + 1 .. n /\ run[x] = l /\ run[y] = h
  BY <1>2, <1>3 DEF DragsBetween
<1>8. x \in 1 .. n /\ y \in 1 .. n /\ x < k /\ k < y
  BY <1>5, <1>6, <1>7
<1>9. u.axis[d] = a
  BY <1>2, SMTT(40) DEF AxisOf
<1>10. LET e == ShownSizes(u, d)
           z == u.space[d]
           c == u.axis[d]
       IN  /\ ShowsRun(u, d, e) /\ c \in Axes /\ IsRoom(z) /\ Fractional(e, DOMAIN u.items[d])
           /\ \A j \in DOMAIN u.items[d] : /\ AtPlace(u.space[u.items[d][j]], z, c, j, e)
                                           /\ e[j] = Extent(u, u.items[d][j])
  BY ONLY Sized(u), <1>5, SizedShows
<1>11. /\ a \in Axes /\ IsFraction(w.low[a]) /\ Fractional(f, 1 .. n)
       /\ \A j \in 1 .. n : /\ Zero \prec f[j] /\ AtPlace(u.space[run[j]], w, a, j, f)
                            /\ f[j] = Extent(u, run[j])
  BY <1>2, <1>6, <1>9, <1>10, ZenonT(40) DEF ShowsRun, IsRoom
<1>12. \A i \in {l, b, h} : /\ IsFraction(u.space[i].low[a]) /\ IsFraction(u.space[i].size[a])
                            /\ Zero \prec u.space[i].size[a]
  <2>1. ASSUME NEW j \in 1 .. n
        PROVE  /\ IsFraction(u.space[run[j]].low[a]) /\ IsFraction(u.space[run[j]].size[a])
               /\ Zero \prec u.space[run[j]].size[a]
    BY ONLY <1>11, j \in 1 .. n DEF AtPlace, IsRoom
  <2> QED
    BY <1>5, <1>7, <1>8, <2>1
<1>13. Extent(u, l) = u.space[l].size[a] /\ Extent(u, h) = u.space[h].size[a]
  BY <1>7, <1>8, <1>11 DEF AtPlace
<1>14. /\ dir = One => at[l] \prec at[b]
       /\ dir = Minus => at[b] \prec at[l]
  <2>1. AtPlace(u.space[l], w, a, x, f) /\ AtPlace(u.space[b], w, a, k, f)
    BY <1>5, <1>7, <1>8, <1>11
  <2>2. PICK t1, t2 : t1 = u.space[l] /\ t2 = u.space[b]
    OBVIOUS
  <2>3. PICK x1, x2 : x1 = SeenAt(dir, o, t1.low[a], t1.size[a])
                      /\ x2 = SeenAt(dir, o, t2.low[a], t2.size[a])
    OBVIOUS
  <2>4. AtPlace(t1, w, a, x, f) /\ AtPlace(t2, w, a, k, f)
    BY <2>1, <2>2
  <2>5. n \in Nat /\ Fractional(f, 1 .. n) /\ (\A m \in 1 .. n : Zero \prec f[m])
        /\ a \in Axes /\ IsFraction(w.low[a]) /\ k \in 1 .. n /\ x \in 1 .. n /\ x < k
    BY <1>5, <1>6, <1>8, <1>11
  <2>6. dir \in {One, Minus} /\ IsFraction(o)
    OBVIOUS
  <2>7. (dir = One => x1 \prec x2) /\ (dir = Minus => x2 \prec x1)
    BY ONLY <2>3, <2>4, <2>5, <2>6, RunIsSeenInOrder
  <2>8. at[l] = x1 /\ at[b] = x2
    BY <2>2, <2>3
  <2> QED
    BY <2>7, <2>8
<1>15. /\ dir = One => at[b] \prec at[h]
       /\ dir = Minus => at[h] \prec at[b]
  <2>1. AtPlace(u.space[h], w, a, y, f) /\ AtPlace(u.space[b], w, a, k, f)
    BY <1>5, <1>7, <1>8, <1>11
  <2>2. PICK t1, t2 : t1 = u.space[b] /\ t2 = u.space[h]
    OBVIOUS
  <2>3. PICK x1, x2 : x1 = SeenAt(dir, o, t1.low[a], t1.size[a])
                      /\ x2 = SeenAt(dir, o, t2.low[a], t2.size[a])
    OBVIOUS
  <2>4. AtPlace(t1, w, a, k, f) /\ AtPlace(t2, w, a, y, f)
    BY <2>1, <2>2
  <2>5. n \in Nat /\ Fractional(f, 1 .. n) /\ (\A m \in 1 .. n : Zero \prec f[m])
        /\ a \in Axes /\ IsFraction(w.low[a]) /\ k \in 1 .. n /\ y \in 1 .. n /\ k < y
    BY <1>5, <1>6, <1>8, <1>11
  <2>6. dir \in {One, Minus} /\ IsFraction(o)
    OBVIOUS
  <2>7. (dir = One => x1 \prec x2) /\ (dir = Minus => x2 \prec x1)
    BY ONLY <2>3, <2>4, <2>5, <2>6, RunIsSeenInOrder
  <2>8. at[b] = x1 /\ at[h] = x2
    BY <2>2, <2>3
  <2> QED
    BY <2>7, <2>8
<1> QED
  BY <1>11, <1>12, <1>13, <1>14, <1>15, Zenon

\* What an arrow pulled by offset does to its board, in a unit seen from either end of
\* its depth (session.py begin_drag, drag_to; elevation.py _arrow_place).
LEMMA DragFollows ==
    ASSUME NEW u, Sized(u), NEW b \in Boards(u), Movable(u, b), NEW offset, IsFraction(offset),
           NEW o, NEW f, f = Frame(u, o), NEW arrow, arrow = ArrowPlace(u, f, b)
    PROVE  FollowsTo(u, f, b, arrow, offset)
<1>1. PICK a, dir, org, l, h : /\ a = AxisOf(u, b) /\ dir = f.sign[a] /\ org = f.origin[a]
                               /\ l = FreeBeside(u, b).low /\ h = FreeBeside(u, b).high
  OBVIOUS
<1>2. a \in Axes
  <2>1. b \in Nodes(u) \ {u.root}
    BY DEF Sized, Struct, Regions
  <2>2. RunOf(u, b) \in Divisions(u)
    BY <2>1, PlaceInRun DEF Sized
  <2>3. u.axis[RunOf(u, b)] \in Axes
    BY <2>2 DEF Sized, Ruled, Struct, Regions
  <2> QED
    BY <1>1, <2>3 DEF AxisOf
<1>3. dir \in {One, Minus} /\ IsFraction(org)
  <2>1. IsFramed(u)
    BY DEF Sized
  <2>2. IsFraction(u.low[a]) /\ IsFraction(u.size[a]) /\ IsFraction(u.low[a] ++ u.size[a])
    BY <1>2, <2>1, AddFacts DEF IsFramed
  <2> QED
    BY <1>1, <1>2, <2>1, <2>2, FrameFacts
<1>4. PICK at : \A i \in {l, b, h} :
         at[i] = SeenAt(dir, org, u.space[i].low[a], u.space[i].size[a])
  <2>1. \E at : at = [i \in {l, b, h} |-> SeenAt(dir, org, u.space[i].low[a], u.space[i].size[a])]
    BY Zenon
  <2> QED
    BY <2>1
<1>5. /\ \A i \in {l, b, h} : /\ IsFraction(u.space[i].low[a]) /\ IsFraction(u.space[i].size[a])
                              /\ Zero \prec u.space[i].size[a]
      /\ Extent(u, l) = u.space[l].size[a] /\ Extent(u, h) = u.space[h].size[a]
      /\ dir = One => at[l] \prec at[b] /\ at[b] \prec at[h]
      /\ dir = Minus => at[h] \prec at[b] /\ at[b] \prec at[l]
  <2>1. /\ Sized(u) /\ b \in Boards(u) /\ Movable(u, b) /\ a = AxisOf(u, b)
        /\ l = FreeBeside(u, b).low /\ h = FreeBeside(u, b).high
    BY <1>1
  <2>2. SeesBeside(u, b, l, h, a, dir, org, at)
    BY ONLY <1>3, <1>4, <2>1 DEF SeesBeside
  <2> QED
    BY ONLY <2>2, SeenBeside DEF BesideIsSeen
<1>6. ASSUME NEW i \in {l, b, h}
      PROVE  Rect(f, u.space[i]).low[a] = at[i]
  <2>1. PICK x : x = u.space[i]
    OBVIOUS
  <2>2. f.sign[a] \in {One, Minus} /\ IsFraction(f.origin[a])
    BY <1>1, <1>3
  <2>3. IsFraction(x.low[a]) /\ IsFraction(x.size[a]) /\ Zero \prec x.size[a]
    BY <1>5, <2>1
  <2>4. Rect(f, x).low[a] = SeenAt(f.sign[a], f.origin[a], x.low[a], x.size[a])
    BY <1>2, <2>2, <2>3, RectSees
  <2> QED
    BY <1>1, <1>4, <2>1, <2>4
\* What it is dragged to.
<1>7. PICK w, lb, sb : w = dir ** offset /\ lb = u.space[b].low[a] /\ sb = u.space[b].size[a]
  BY Zenon
<1>8. IsFraction(w) /\ IsFraction(lb) /\ IsFraction(sb) /\ Zero \prec sb
  BY <1>3, <1>5, <1>7, SignIsFraction, ProductFacts
<1>9. PICK g, mm : g = lb ++ (Extent(u, b) // Whole(2)) /\ mm = (g ++ w) -- (g -- lb)
  OBVIOUS
<1>10. mm -- lb = w /\ IsFraction(mm)
  <2>1. Extent(u, b) = sb
    BY <1>1, <1>7 DEF Extent
  <2>2. IsFraction(Whole(2)) /\ Zero \prec Whole(2)
    BY WholeIsFrac DEF Zero, \prec, Whole
  <2>3. IsFraction(sb // Whole(2))
    BY <1>8, <2>2, QuotientLaws
  <2>4. IsFraction(g)
    BY <1>8, <1>9, <2>1, <2>3, AddFacts
  <2> QED
    BY <1>8, <1>9, <2>4, GrabCarries
<1>11. arrow.axis = a /\ arrow.direction = dir /\ arrow.grab = g
  BY <1>1, <1>7, <1>9 DEF ArrowPlace
<1>12. PICK v : v = Dragged(u, b, arrow, offset)
  OBVIOUS
<1>13. v = Solved(MoveBoard(u, b, mm))
  BY <1>7, <1>9, <1>11, <1>12 DEF Dragged, DraggedTo
<1>14. PICK p, q, s : p = Extent(u, l) /\ q = Extent(u, h) /\ s = Shift(w, p, q)
  BY SMTT(40)
<1>15. IsFraction(p) /\ IsFraction(q) /\ Zero \prec p /\ Zero \prec q
  BY <1>5, <1>14
<1>16. IsFraction(s)
  BY <1>8, <1>14, <1>15, ShiftFacts
<1>17. /\ v.space[b].low[a] = lb ++ s /\ v.space[b].size[a] = sb
       /\ Extent(v, l) = p ++ s /\ Extent(v, h) = q -- s
  <2>1. Lands(u, v, b, l, h, Shift(mm -- u.space[b].low[AxisOf(u, b)],
                                   Extent(u, l), Extent(u, h)))
    BY <1>1, <1>10, <1>13, DragLands
  <2>2. Lands(u, v, b, l, h, s)
    BY <1>1, <1>7, <1>10, <1>14, <2>1
  <2> QED
    BY <1>1, <1>7, <1>14, <2>2 DEF Lands
\* Where it is seen to go.
<1>18. PICK way : way = dir ** s
  OBVIOUS
<1>19. Rect(f, v.space[b]).low[a] -- Rect(f, u.space[b]).low[a] = way
  <2>1. IsFraction(lb ++ s)
    BY <1>8, <1>16, AddFacts
  <2>2. Rect(f, v.space[b]).low[a] = SeenAt(dir, org, lb ++ s, sb)
    BY <1>1, <1>2, <1>3, <1>8, <1>17, <2>1, RectSees
  <2>3. Rect(f, u.space[b]).low[a] = SeenAt(dir, org, lb, sb)
    BY <1>4, <1>6, <1>7
  <2>4. SeenAt(dir, org, lb ++ s, sb) -- SeenAt(dir, org, lb, sb) = dir ** s
    BY <1>3, <1>8, <1>16, SeenMoves
  <2> QED
    BY <1>18, <2>2, <2>3, <2>4
<1>20. /\ IsFraction(w) /\ (s = w => way = offset)
       /\ way ** offset = s ** w /\ Square(way) = Square(s) /\ Square(offset) = Square(w)
       /\ dir = One => (Zero \prec offset <=> Zero \prec w)
       /\ dir = Minus => (Zero \prec offset <=> w \prec Zero)
  BY <1>3, <1>7, <1>16, <1>18, Pulling
\* The region it goes into.
<1> DEFINE Into(r) == IF Zero \prec offset
                         THEN Rect(f, u.space[b]).low[a] \prec Rect(f, u.space[r]).low[a]
                         ELSE Rect(f, u.space[r]).low[a] \prec Rect(f, u.space[b]).low[a]
<1>22. PICK S : S = Range(FreeBeside(u, b))
  OBVIOUS
<1>23. S = {l, h}
  BY <1>1, <1>22 DEF FreeBeside, Range
<1>24. IsFraction(at[l]) /\ IsFraction(at[b]) /\ IsFraction(at[h])
  BY <1>3, <1>4, <1>5, SeenIsFraction
<1>25. ~(at[l] \prec at[b] /\ at[b] \prec at[l]) /\ ~(at[h] \prec at[b] /\ at[b] \prec at[h])
  BY <1>24, OrderFacts
<1>26. PICK into : into = CHOOSE r \in S : Into(r)
  OBVIOUS
<1>27. Zero \prec w => into = h
  <2>1. SUFFICES ASSUME Zero \prec w PROVE into = h
    OBVIOUS
  <2>2. ~(w \prec Zero)
    BY <1>8, <2>1, SignIsFraction, OrderFacts, SMTT(40)
  <2>3. Into(h) /\ ~Into(l)
    BY <1>3, <1>5, <1>6, <1>20, <1>25, <2>1, <2>2
  <2> QED
    BY <1>23, <1>26, <2>3
<1>28. w \prec Zero => into = l
  <2>1. SUFFICES ASSUME w \prec Zero PROVE into = l
    OBVIOUS
  <2>2. ~(Zero \prec w)
    BY <1>8, <2>1, SignIsFraction, OrderFacts
  <2>3. Into(l) /\ ~Into(h)
    BY <1>3, <1>5, <1>6, <1>20, <1>25, <2>1, <2>2
  <2> QED
    BY <1>23, <1>26, <2>3
<1>29. \/ s = w
       \/ Zero \preceq s /\ s \prec w /\ q -- s = Least(MinDragGap, q)
       \/ w \prec s /\ s \preceq Zero /\ p ++ s = Least(MinDragGap, p)
  BY <1>8, <1>14, <1>15, ShiftStops
<1>30. \/ way = offset
       \/ /\ Zero \preceq (way ** offset) /\ Square(way) \prec Square(offset)
          /\ Extent(v, into) = Least(MinDragGap, Extent(u, into))
  <2>1. CASE s = w
    BY <1>20, <2>1
  <2>2. CASE Zero \preceq s /\ s \prec w /\ q -- s = Least(MinDragGap, q)
    <3>1. Zero \prec w /\ Zero \preceq s ** w /\ Square(s) \prec Square(w)
      BY <1>8, <1>16, <2>2, StopsShort
    <3> QED
      BY <1>14, <1>17, <1>20, <1>27, <2>2, <3>1
  <2>3. CASE w \prec s /\ s \preceq Zero /\ p ++ s = Least(MinDragGap, p)
    <3>1. w \prec Zero /\ Zero \preceq s ** w /\ Square(s) \prec Square(w)
      BY <1>8, <1>16, <2>3, StopsShort
    <3> QED
      BY <1>14, <1>17, <1>20, <1>28, <2>3, <3>1
  <2> QED
    BY <1>29, <2>1, <2>2, <2>3
<1> QED
  BY <1>11, <1>12, <1>19, <1>22, <1>26, <1>30 DEF FollowsTo

\* In every unit a session shows a board follows its arrow, whichever way the unit faces
\* (session.py begin_drag, drag_to; elevation.py _arrow_place, dragged_to_mm).
THEOREM DragsAreFollowed == Spec => []DragsFollowTheArrow
<1>1. ASSUME SizedInv
      PROVE  DragsFollowTheArrow
  <2>1. Sized(unit)
    BY <1>1 DEF SizedInv
  <2>2. ASSUME NEW o, NEW b \in Boards(unit), NEW offset \in Offsets, ShowsArrow(unit, b)
        PROVE  FollowsTo(unit, Frame(unit, o), b, ArrowPlace(unit, Frame(unit, o), b), offset)
    <3>1. PICK f, arrow : f = Frame(unit, o) /\ arrow = ArrowPlace(unit, f, b)
      OBVIOUS
    <3>2. IsFraction(offset) /\ Movable(unit, b)
      BY <2>2, OffsetsAssumption DEF ShowsArrow
    <3>3. FollowsTo(unit, f, b, arrow, offset)
      BY <2>1, <3>1, <3>2, DragFollows
    <3> QED
      BY <3>1, <3>3
  <2> QED
    BY <2>2 DEF DragsFollowTheArrow, Frames
<1> QED
  BY <1>1, UnitIsSized, PTL
===============================================================================
