---------------------------------- MODULE Tree ----------------------------------
(***************************************************************************)
(* The region tree of a unit (core/layout.py) and the solver that places   *)
(* it (core/solver.py).                                                    *)
(*                                                                         *)
(* The tree is flat: a node is an identifier, `items` gives the run of     *)
(* each division, and the other fields are functions on the nodes.  Only   *)
(* the two elevation axes are modelled: nothing divides the depth.         *)
(* Lengths and weights are exact fractions.                                *)
(***************************************************************************)
EXTENDS Fractions, FiniteSetsExt, SequencesExt

Axes == {"h", "v"}
Bases == {"clear", "with_next"}
Sides == {"min", "center", "max"}

(***************************************************************************)
(* Size rules.  `Fill' is `Weighted' with weight one; a board without a    *)
(* rule of its own takes its thickness.                                    *)
(***************************************************************************)
Fixed(mm, basis) == [kind |-> "fixed", mm |-> mm, basis |-> basis]
Weighted(weight) == [kind |-> "driven", weight |-> weight]
Fill == Weighted(One)
Own == [kind |-> "own"]

(***************************************************************************)
(* The tree.                                                               *)
(***************************************************************************)
Nodes(u) == DOMAIN u.rule
Boards(u) == DOMAIN u.thick
Divisions(u) == DOMAIN u.items
Regions(u) == Nodes(u) \ Boards(u)
Bays(u) == Regions(u) \ (Divisions(u) \cup u.voids)

\* The division whose run holds i, and the place of i there.
RunOf(u, i) == CHOOSE d \in Divisions(u) : i \in Range(u.items[d])
PlaceOf(u, i) == LET run == u.items[RunOf(u, i)]
                 IN  CHOOSE k \in DOMAIN run : run[k] = i
AxisOf(u, i) == u.axis[RunOf(u, i)]

\* The nodes from i up to the root, i and the root included.
PathOf(u, i) ==
    LET path[j \in Nodes(u)] ==
            IF j = u.root THEN {j} ELSE {j} \cup path[RunOf(u, j)]
    IN  path[i]
Subtree(u, i) == {j \in Nodes(u) : i \in PathOf(u, j)}

Driven(u, i) == u.rule[i].kind = "driven"
Locked(u, i) == i \notin Boards(u) /\ u.rule[i].kind = "fixed"
Unlocked(u, i) == i \notin Boards(u) /\ ~Locked(u, i)

(***************************************************************************)
(* The solver.                                                             *)
(***************************************************************************)
Sum(f, S) == FoldFunctionOnSet(++, Zero, f, S)

\* A spacing has the board it is measured through right after it.
Resolves(u, d, k) ==
    LET run == u.items[d]
        rule == u.rule[run[k]]
    IN  rule.kind = "fixed" /\ rule.basis = "with_next"
            => k < Len(run) /\ run[k + 1] \in Boards(u)

\* Mutant of FixedMm: a spacing is taken for a clear size.
SpacingAsClear(u, d, k) ==
    LET rule == u.rule[u.items[d][k]]
    IN  CASE rule.kind = "driven" -> Zero
          [] rule.kind = "own" -> u.thick[u.items[d][k]]
          [] rule.kind = "fixed" -> rule.mm

\* The clear size of a member that shares no slack; a driven one has none.
FixedMm(u, d, k) ==
    LET run == u.items[d]
        rule == u.rule[run[k]]
    IN  CASE rule.kind = "driven" -> Zero
          [] rule.kind = "own" -> u.thick[run[k]]
          [] rule.kind = "fixed" /\ rule.basis = "clear" -> rule.mm
          [] rule.kind = "fixed" /\ rule.basis = "with_next" ->
                IF Resolves(u, d, k) THEN rule.mm -- u.thick[run[k + 1]] ELSE Zero

DrivenPlaces(u, d) == {k \in DOMAIN u.items[d] : Driven(u, u.items[d][k])}

Slack(u, d, span) ==
    span -- Sum([k \in DOMAIN u.items[d] |-> FixedMm(u, d, k)], DOMAIN u.items[d])

\* distribute(): the size of every member of the run of d in a span.
Distribute(u, d, span) ==
    LET run == u.items[d]
        shares == DrivenPlaces(u, d)
        total == Sum([k \in shares |-> u.rule[run[k]].weight], shares)
        slack == Slack(u, d, span)
    IN  [k \in DOMAIN run |->
            IF k \in shares THEN (u.rule[run[k]].weight // total) ** slack
            ELSE FixedMm(u, d, k)]

\* Where the k-th member of a run is, their sizes being mm.
InRun(whole, a, k, mm) ==
    [low |-> [whole.low EXCEPT ![a] = @ ++ Sum(mm, 1 .. k - 1)],
     size |-> [whole.size EXCEPT ![a] = mm[k]]]

\* solve(): where every node is, `low' its low corner.
Spaces(u) ==
    LET space[i \in Nodes(u)] ==
            IF i = u.root THEN [low |-> u.low, size |-> u.size]
            ELSE LET d == RunOf(u, i)
                     k == PlaceOf(u, i)
                     a == u.axis[d]
                 IN  InRun(space[d], a, k, Distribute(u, d, space[d].size[a]))
    IN  [i \in Nodes(u) |-> space[i]]

Solved(u) == [u EXCEPT !.space = Spaces(u)]

\* The size of i along its run.
Extent(u, i) == u.space[i].size[AxisOf(u, i)]

\* solve() returns u.space rather than raise LayoutSolveError.
Solves(u) ==
    LET space == u.space
    IN  /\ \A d \in Divisions(u) :
              LET slack == Slack(u, d, space[d].size[u.axis[d]])
              IN  /\ \A k \in DOMAIN u.items[d] : Resolves(u, d, k)
                  /\ Zero \preceq slack
                  /\ DrivenPlaces(u, d) = {} => slack = Zero
        /\ \A i \in Nodes(u) \ {u.root} : Zero \prec Extent(u, i)
        /\ \A b \in DOMAIN u.pinned : space[b].size = u.pinned[b]
================================================================================
