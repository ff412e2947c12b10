-------------------------------- MODULE Layout --------------------------------
(***************************************************************************)
(* The layout of one unit: the choice of a new board's stock               *)
(* (core/stock.py) and the edits of the tree (core/edit.py), as the        *)
(* session calls them (editor/session.py, split ... drag_to).              *)
(***************************************************************************)
EXTENDS Tree

CONSTANTS
    Ids,          \* the node identifiers; a uuid4 never collides
    StartUnits,   \* the layouts a session may open with
    MaxEdits,     \* bound on the edits of a behaviour
    MaxSelected,  \* bound on the boards selected at once
    Sizes,        \* what may be typed for an opening
    Thicknesses,  \* what may be typed for a board's thickness
    UnitSizes,    \* what may be typed for the unit's size on either axis
    LowFaces      \* where the pointer may take the low face of a board

VARIABLES
    unit,         \* EditSession.unit, its field `space' EditSession.spaces
    step,         \* the last edit: the name of its undo step, the nodes it is
                  \* of, and whether it returned or let an exception escape
    edits         \* the edits so far, for MaxEdits

vars == <<unit, step, edits>>

ASSUME BoundAssumption == MaxEdits \in Nat /\ MaxSelected \in Nat \ {0}

(***************************************************************************)
(* The stock of a new board.                                               *)
(***************************************************************************)
\* i is before j in the run of one of the divisions ds.
Precedes(u, ds, i, j) ==
    LET from == PathOf(u, i)
        to == PathOf(u, j)
    IN  \E d \in ds : \E k, l \in DOMAIN u.items[d] :
            k < l /\ u.items[d][k] \in from /\ u.items[d][l] \in to

\* On one side of b, along its run's axis, the unit holds no bay to its edge.
Carcass(u, b) ==
    LET along == {d \in Divisions(u) : u.axis[d] = AxisOf(u, b)}
    IN  \/ \A r \in Bays(u) : ~Precedes(u, along, r, b)
        \/ \A r \in Bays(u) : ~Precedes(u, along, b, r)

\* The square of the distance of two centers.
Distance(u, i, j) ==
    LET Center(n, a) == u.space[n].low[a] ++ (u.space[n].size[a] // Whole(2))
    IN  Square(Center(i, "h") -- Center(j, "h")) ++ Square(Center(i, "v") -- Center(j, "v"))

\* The nearest of the boards bs by mm, the first of them in the tree on a tie.
Nearest(u, bs, mm) ==
    CHOOSE b \in bs : \A c \in bs \ {b} :
        /\ mm[b] \preceq mm[c]
        /\ mm[b] = mm[c] => Precedes(u, Divisions(u), b, c)

FirstNonempty(sets) == sets[Min({i \in DOMAIN sets : sets[i] # {}})]

\* source_board(): the board a new board on axis a splitting r is cut like.
SourceBoard(u, r, a) ==
    LET parallel == {b \in Boards(u) : AxisOf(u, b) = a /\ u.rule[b] = Own}
        interior == {b \in parallel : ~Carcass(u, b)}
        sameRun == {b \in interior : RunOf(u, b) = RunOf(u, r)}
        tier == FirstNonempty(<<sameRun, interior, parallel, Boards(u)>>)
    IN  Nearest(u, tier, [b \in Boards(u) |-> Distance(u, b, r)])

(***************************************************************************)
(* The edits: for each, the layouts it accepts and the layout it makes.    *)
(* Where the code raises EditError the condition fails.                    *)
(***************************************************************************)
\* A uuid4 is always new; where Ids is finite, it is for fewer nodes than n.
EnoughIds(n) == IsFiniteSet(Ids) => n <= Cardinality(Ids)
NewId(used) == CHOOSE i \in Ids : i \notin used

\* Mutant of NewNodes: one bay stands for both halves.
SharedHalf(u) ==
    LET board == NewId(Nodes(u))
        low == NewId(Nodes(u) \cup {board})
    IN  [board |-> board, low |-> low, high |-> low,
         division |-> NewId(Nodes(u) \cup {board, low})]

\* The nodes a split makes; a fresh run needs a division of its own.
NewNodes(u) ==
    LET board == NewId(Nodes(u))
        low == NewId(Nodes(u) \cup {board})
        high == NewId(Nodes(u) \cup {board, low})
    IN  [board |-> board, low |-> low, high |-> high,
         division |-> NewId(Nodes(u) \cup {board, low, high})]

\* f where g gives no value, and f without the values at `gone'.
Over(f, g) == [x \in DOMAIN f \cup DOMAIN g |-> IF x \in DOMAIN g THEN g[x] ELSE f[x]]
Less(f, gone) == Restrict(f, DOMAIN f \ gone)

\* The function with one value, x at i.
Single(i, x) == [j \in {i} |-> x]

\* s with the n members from place k on replaced by the sequence t.
Splice(s, k, n, t) == SubSeq(s, 1, k - 1) \o t \o SubSeq(s, k + n, Len(s))

WithRule(u, i, rule) == [u EXCEPT !.rule[i] = rule]

Without(u, gone) ==
    [u EXCEPT !.rule = Less(@, gone), !.items = Less(@, gone),
              !.axis = Less(@, gone), !.thick = Less(@, gone),
              !.pinned = Less(@, gone), !.voids = @ \ gone]

\* The rule under which a member of the run of d takes mm while the others
\* keep their sizes: weighed against the first driven member outside the
\* excluded places.  With none there the member takes all that is left.
SharingRule(u, d, excluded, mm) ==
    LET anchors == DrivenPlaces(u, d) \ excluded
        i == u.items[d][Min(anchors)]
    IN  IF anchors = {} THEN Fill
        ELSE Weighted((mm ** u.rule[i].weight) // Extent(u, i))

\* split_region()
HalfMm(u, r, a) ==
    (Extent(u, r) -- u.thick[SourceBoard(u, r, a)]) // Whole(2)

\* Mutant of CanSplit: a bay of any size is split.
CanSplitAny(u, r, a) == r \in Bays(u) \ {u.root} /\ Boards(u) # {}

CanSplit(u, r, a) ==
    /\ r \in Bays(u) \ {u.root}
    /\ Boards(u) # {}
    /\ AxisOf(u, r) = a => Zero \prec HalfMm(u, r, a)

\* Mutant of HalfRule: the halves of a locked bay come out unlocked.
HalfUnlocked(u, r, mm) == SharingRule(u, RunOf(u, r), {PlaceOf(u, r)}, mm)

HalfRule(u, r, mm) ==
    IF Locked(u, r) THEN Fixed(mm, "clear")
    ELSE SharingRule(u, RunOf(u, r), {PlaceOf(u, r)}, mm)

\* The nodes of a split, with the rule `half' for both halves, instead of r.
Halved(u, r, a, new, half) ==
    Without([u EXCEPT !.thick = Over(@, Single(new.board, @[SourceBoard(u, r, a)])),
                      !.rule = Over(@, [i \in {new.board, new.low, new.high} |->
                                           IF i = new.board THEN Own ELSE half])], {r})

SplitRegion(u, r, a) ==
    LET new == NewNodes(u)
        run == <<new.low, new.board, new.high>>
        d == RunOf(u, r)
        k == PlaceOf(u, r)
    IN  IF u.axis[d] = a
        THEN [Halved(u, r, a, new, HalfRule(u, r, HalfMm(u, r, a)))
                EXCEPT !.items[d] = Splice(@, k, 1, run)]
        ELSE [Halved(u, r, a, new, Fill)
                EXCEPT !.rule = Over(@, Single(new.division, u.rule[r])),
                       !.items = Over([@ EXCEPT ![d][k] = new.division],
                                      Single(new.division, run)),
                       !.axis = Over(@, Single(new.division, a))]

\* merge_at()
Beside(u, b) == [low |-> u.items[RunOf(u, b)][PlaceOf(u, b) - 1],
                 high |-> u.items[RunOf(u, b)][PlaceOf(u, b) + 1]]

CanMerge(u, b) ==
    /\ b \in Boards(u)
    /\ PlaceOf(u, b) \in 2 .. Len(u.items[RunOf(u, b)]) - 1
    /\ {Beside(u, b).low, Beside(u, b).high} \subseteq Regions(u)

MergedRule(u, b) ==
    LET low == Beside(u, b).low
        high == Beside(u, b).high
        mm == Extent(u, low) ++ Extent(u, b) ++ Extent(u, high)
        k == PlaceOf(u, b)
    IN  IF Locked(u, low) /\ Locked(u, high) THEN Fixed(mm, "clear")
        ELSE SharingRule(u, RunOf(u, b), k - 1 .. k + 1, mm)

\* Mutant of SplicedRules: the members share equally.
SplicedToFill(u, p, k, i) ==
    [j \in Range(u.items[i]) |-> IF Driven(u, j) THEN Fill ELSE u.rule[j]]

\* The members of division i join the run of p in the place of place k.
SplicedRules(u, p, k, i) ==
    LET Moves(j) == Driven(u, j) /\ DrivenPlaces(u, p) \ {k} # {}
    IN  [j \in Range(u.items[i]) |->
            IF Moves(j) THEN SharingRule(u, p, {k}, Extent(u, j))
            ELSE u.rule[j]]

\* Mutant of Promoted: a division along its new run's axis is nested in it.
PromotedWhole(u, joined, d, i) ==
    LET alone == Without(WithRule(joined, i, u.rule[d]), {d})
    IN  IF d = u.root THEN [alone EXCEPT !.root = i]
        ELSE [alone EXCEPT !.items[RunOf(u, d)][PlaceOf(u, d)] = i]

\* The division d of u, left with the one member i, gives way to it.
Promoted(u, joined, d, i) ==
    LET p == RunOf(u, d)
        k == PlaceOf(u, d)
        alone == Without(WithRule(joined, i, u.rule[d]), {d})
    IN  CASE d = u.root -> [alone EXCEPT !.root = i]
          [] d # u.root /\ (i \notin Divisions(u) \/ u.axis[i] # u.axis[p]) ->
                [alone EXCEPT !.items[p][k] = i]
          [] d # u.root /\ i \in Divisions(u) /\ u.axis[i] = u.axis[p] ->
                Without([alone EXCEPT !.items[p] = Splice(@, k, 1, u.items[i]),
                                      !.rule = Over(@, SplicedRules(u, p, k, i))], {i})

MergeAt(u, b) ==
    LET d == RunOf(u, b)
        i == Beside(u, b).low
        left == Splice(u.items[d], PlaceOf(u, b) - 1, 3, <<i>>)
        joined == Without([WithRule(u, i, MergedRule(u, b)) EXCEPT !.items[d] = left],
                          {b} \cup Subtree(u, Beside(u, b).high))
    IN  IF Len(left) > 1 THEN joined ELSE Promoted(u, joined, d, i)

\* remove_boards(): in the order selected, skipping what an earlier removal
\* discarded.  Each removal solves the layout the one before it left.
RemoveBoards(u, bs) ==
    LET Removal(r, b) ==
            CASE r.outcome # "done" \/ b \notin Boards(r.unit) -> r
              [] r.outcome = "done" /\ b \in Boards(r.unit) ->
                    CASE ~Solves(r.unit) -> [r EXCEPT !.outcome = "raised"]
                      [] Solves(r.unit) /\ CanMerge(r.unit, b) ->
                            [r EXCEPT !.unit = Solved(MergeAt(r.unit, b))]
                      [] Solves(r.unit) /\ ~CanMerge(r.unit, b) ->
                            [r EXCEPT !.outcome = "refused"]
    IN  FoldLeft(Removal, [unit |-> u, outcome |-> "done"], bs)

\* set_thickness(): bs are boards that take their thickness along their run.
CanSetThickness(u, bs) == \A b \in bs : b \in Boards(u) /\ u.rule[b] = Own
SetThickness(u, bs, mm) ==
    [u EXCEPT !.thick = [b \in DOMAIN @ |-> IF b \in bs THEN mm ELSE @[b]]]

\* _locate_region() and _refuse_last_unlocked(): r may be given a fixed size.
Sizable(u, r) == r \in Regions(u) \ {u.root}
\* Mutant of CanFix: the last unlocked region may be locked.
CanFixLast(u, r) == Sizable(u, r)

CanFix(u, r) ==
    /\ Sizable(u, r)
    /\ \/ Locked(u, r)
       \/ \E i \in Range(u.items[RunOf(u, r)]) \ {r} : Unlocked(u, i)

\* _next_board() and size_in_basis_mm()
Measures(u, r, basis) ==
    LET run == u.items[RunOf(u, r)]
        k == PlaceOf(u, r)
    IN  basis = "with_next" => k < Len(run) /\ run[k + 1] \in Boards(u)

SizeInBasis(u, r, mm, basis) ==
    IF basis = "clear" THEN mm
    ELSE mm ++ u.thick[u.items[RunOf(u, r)][PlaceOf(u, r) + 1]]

\* measure(): the basis a typed size is read in.
MeasuredBasis(u, r) == IF Locked(u, r) THEN u.rule[r].basis ELSE "clear"

CanSetSize(u, r, basis) == CanFix(u, r) /\ Measures(u, r, basis)
SetSize(u, r, mm, basis) == WithRule(u, r, Fixed(mm, basis))
SetBasis(u, r, basis) ==
    SetSize(u, r, SizeInBasis(u, r, Extent(u, r), basis), basis)

Lock(u, r) == SetSize(u, r, Extent(u, r), "clear")
Unlock(u, r) ==
    WithRule(u, r, SharingRule(u, RunOf(u, r), {PlaceOf(u, r)},
                               Extent(u, r)))

(***************************************************************************)
(* The drag of a board.                                                    *)
(***************************************************************************)
\* _side(): the places past b towards the low and the high end of its run
\* whose member is an unlocked, and a locked, region.
Past(u, b) ==
    LET run == u.items[RunOf(u, b)]
        k == PlaceOf(u, b)
        Where(S, Test(_)) == {l \in S : Test(run[l])}
        IsFree(i) == Unlocked(u, i)
        IsLocked(i) == Locked(u, i)
    IN  [low |-> [free |-> Where(1 .. k - 1, IsFree),
                  locked |-> Where(1 .. k - 1, IsLocked)],
         high |-> [free |-> Where(k + 1 .. Len(run), IsFree),
                   locked |-> Where(k + 1 .. Len(run), IsLocked)]]

\* held_by(): no unlock frees b where a side has no region at all.
Freeable(u, b) ==
    /\ b \in Boards(u)
    /\ \A side \in Range(Past(u, b)) : side.free \cup side.locked # {}

Holders(u, b) ==
    LET run == u.items[RunOf(u, b)]
        low == Past(u, b).low
        high == Past(u, b).high
    IN  (IF low.free = {} THEN <<run[Max(low.locked)]>> ELSE << >>)
          \o (IF high.free = {} THEN <<run[Min(high.locked)]>> ELSE << >>)

Movable(u, b) == Freeable(u, b) /\ Holders(u, b) = << >>

\* Mutant of UnlockHolders: only the first holder is unlocked.
UnlockFirstHolder(u, b) == Solved(Unlock(u, Holders(u, b)[1]))

UnlockHolders(u, b) == FoldLeft(LAMBDA v, r : Solved(Unlock(v, r)), u, Holders(u, b))

\* move_board(): b's low face goes to mm, or as near to it as leaves both
\* resized regions MIN_DRAG_GAP_MM, or their size where that is smaller.
MinDragGap == Whole(5)

FreeBeside(u, b) == [low |-> u.items[RunOf(u, b)][Max(Past(u, b).low.free)],
                     high |-> u.items[RunOf(u, b)][Min(Past(u, b).high.free)]]

Shift(wanted, low, high) ==
    Least(Greatest(wanted, Least(MinDragGap, low) -- low),
          high -- Least(MinDragGap, high))

Resized(u, d, sides, shift) ==
    LET Rule(mm) == SharingRule(u, d, {}, mm)
    IN  WithRule(WithRule(u, sides.low, Rule(Extent(u, sides.low) ++ shift)),
                 sides.high, Rule(Extent(u, sides.high) -- shift))

MoveBoard(u, b, mm) ==
    LET sides == FreeBeside(u, b)
        wanted == mm -- u.space[b].low[AxisOf(u, b)]
    IN  Resized(u, RunOf(u, b), sides,
                Shift(wanted, Extent(u, sides.low), Extent(u, sides.high)))

(***************************************************************************)
(* The unit's outer size.                                                  *)
(***************************************************************************)
\* _fixed_offset_mm() and fixed_point_mm(), on one axis.
FixedOffset(u, a, mm) ==
    CASE u.fixed[a] = "min" -> Zero
      [] u.fixed[a] = "center" -> mm // Whole(2)
      [] u.fixed[a] = "max" -> mm
FixedPoint(u, a) == u.low[a] ++ FixedOffset(u, a, u.size[a])

SetUnitSize(u, a, mm) ==
    [u EXCEPT !.size[a] = mm,
              !.low[a] = FixedPoint(u, a) -- FixedOffset(u, a, mm)]

(***************************************************************************)
(* The session's edits.  One that is refused changes nothing and is no     *)
(* step; the layout an accepted one makes must solve (_apply).             *)
(***************************************************************************)
Returns(name, of) == step' = [name |-> name, of |-> of, outcome |-> "returned"]

Apply(name, of, candidate) ==
    /\ unit' = Solved(candidate)
    /\ Solves(unit')
    /\ Returns(name, of)

Split(r, a) ==
    CanSplit(unit, r, a) /\ Apply("Add Board", <<r>>, SplitRegion(unit, r, a))

Removed(bs, r) ==
    \/ r.outcome = "done" /\ Apply("Delete Boards", bs, r.unit)
    \/ /\ r.outcome = "raised"
       /\ step' = [name |-> "Delete Boards", of |-> bs, outcome |-> "raised"]
       /\ UNCHANGED unit
DeleteBoards(bs) == Removed(bs, RemoveBoards(unit, bs))

SwapStock(bs, mm) ==
    /\ CanSetThickness(unit, Range(bs))
    /\ Apply("Change Stock", bs, SetThickness(unit, Range(bs), mm))

TypeSize(r, mm) ==
    LET basis == MeasuredBasis(unit, r)
    IN  CanSetSize(unit, r, basis) /\ Apply("Set Size", <<r>>, SetSize(unit, r, mm, basis))

ChangeBasis(r, basis) ==
    CanSetSize(unit, r, basis) /\ Apply("Change Basis", <<r>>, SetBasis(unit, r, basis))

SetLock(r) ==
    CanFix(unit, r) /\ ~Locked(unit, r) /\ Apply("Lock Opening", <<r>>, Lock(unit, r))

ClearLock(r) ==
    Sizable(unit, r) /\ Locked(unit, r) /\ Apply("Unlock Opening", <<r>>, Unlock(unit, r))

FreeBoard(b) ==
    /\ Freeable(unit, b)
    /\ Holders(unit, b) # << >>
    /\ Apply("Unlock Board", <<b>>, UnlockHolders(unit, b))

DragTo(b, mm) ==
    Movable(unit, b) /\ Apply("Move Board", <<b>>, MoveBoard(unit, b, mm))

Resize(a, mm) == Apply("Resize Unit", << >>, SetUnitSize(unit, a, mm))

SetFixedSide(a, side) ==
    unit.fixed[a] # side /\ Apply("Set Fixed Point", << >>, [unit EXCEPT !.fixed[a] = side])

\* The boards one edit names, in the order they were selected.
Selections(u) == {s \in SeqOf(Boards(u), MaxSelected) : s # << >> /\ IsInjective(s)}

Init ==
    /\ unit \in {Solved(u) : u \in StartUnits}
    /\ step = [name |-> "Open", of |-> << >>, outcome |-> "returned"]
    /\ edits = 0

Edit ==
    \/ \E r \in Bays(unit), a \in Axes : Split(r, a)
    \/ \E bs \in Selections(unit) : DeleteBoards(bs)
    \/ \E bs \in Selections(unit), mm \in Thicknesses : SwapStock(bs, mm)
    \/ \E r \in Regions(unit), mm \in Sizes : TypeSize(r, mm)
    \/ \E r \in Regions(unit), basis \in Bases : ChangeBasis(r, basis)
    \/ \E r \in Regions(unit) : SetLock(r) \/ ClearLock(r)
    \/ \E b \in Boards(unit) : FreeBoard(b)
    \/ \E b \in Boards(unit), mm \in LowFaces : DragTo(b, mm)
    \/ \E a \in Axes, mm \in UnitSizes : Resize(a, mm)
    \/ \E a \in Axes, side \in Sides : SetFixedSide(a, side)

Next == edits < MaxEdits /\ edits' = edits + 1 /\ Edit

Spec == Init /\ [][Next]_vars

(***************************************************************************)
(* Properties.                                                             *)
(***************************************************************************)
\* Every node but the root is in one place of one run.
IsTree(u) ==
    /\ u.root \in Regions(u)
    /\ Divisions(u) \subseteq Regions(u)
    /\ DOMAIN u.axis = Divisions(u)
    /\ \A d \in Divisions(u) : u.items[d] # << >> /\ IsInjective(u.items[d])
    /\ \A i \in Nodes(u) \ {u.root} :
          \E d \in Divisions(u) : /\ i \in Range(u.items[d])
                                  /\ \A e \in Divisions(u) \ {d} : i \notin Range(u.items[e])
    /\ \A i \in Nodes(u) : u.root \in PathOf(u, i)

\* A layout as the edits take it and make it: a tree of finitely many nodes,
\* nothing in it above itself, whose voids divide nothing.
Fields == {"root", "items", "axis", "rule", "thick", "voids", "pinned", "space",
           "low", "size", "fixed"}
IsLayout(u) ==
    /\ Fields \subseteq DOMAIN u
    /\ IsFiniteSet(Nodes(u))
    /\ Boards(u) \subseteq Nodes(u)
    /\ u.voids \subseteq Regions(u) \ Divisions(u)
    /\ IsTree(u)
    /\ \A d \in Divisions(u) :
          /\ u.items[d] \in Seq(Nodes(u) \ {u.root})
          /\ \A i \in Range(u.items[d]) : /\ PathOf(u, i) = PathOf(u, d) \cup {i}
                                         /\ i \notin PathOf(u, d)

\* A session opens with such a layout, and a uuid4 never runs out: there is one for
\* every node of one more split than the edits of a behaviour.
ASSUME StartAssumption ==
    \A u \in StartUnits :
        /\ IsLayout(u) /\ DOMAIN u.pinned \subseteq Boards(u)
        /\ EnoughIds(Cardinality(Nodes(u)) + 4 * (MaxEdits + 1))

\* What a unit has on each axis: a place, a size above zero, and the side or
\* the middle that stays in place when it is resized.
IsFramed(u) ==
    /\ DOMAIN u.low = Axes /\ DOMAIN u.size = Axes /\ u.fixed \in [Axes -> Sides]
    /\ \A a \in Axes :
          IsFraction(u.low[a]) /\ IsFraction(u.size[a]) /\ Zero \prec u.size[a]

ASSUME FrameAssumption ==
    /\ \A u \in StartUnits : IsFramed(u)
    /\ \A mm \in UnitSizes : IsFraction(mm) /\ Zero \prec mm

\* The rule of a region, or of a board, its size or its weight above zero
\* (core/layout.py, Fixed, Weighted and Board).
IsRule(rule, ofBoard) ==
    \/ rule.kind = "own" /\ ofBoard
    \/ rule.kind = "driven" /\ ~ofBoard /\ IsFraction(rule.weight) /\ Zero \prec rule.weight
    \/ rule.kind = "fixed" /\ IsFraction(rule.mm) /\ Zero \prec rule.mm /\ rule.basis \in Bases

\* Every node has a rule, every board a thickness above zero and every
\* division an axis.
Ruled(u) ==
    /\ \A i \in Nodes(u) : IsRule(u.rule[i], i \in Boards(u))
    /\ \A b \in Boards(u) : IsFraction(u.thick[b]) /\ Zero \prec u.thick[b]
    /\ \A d \in Divisions(u) : u.axis[d] \in Axes

\* A session opens with a layout that solves, and no edit takes a size or a
\* thickness that is not above zero.
ASSUME RulesAssumption ==
    /\ \A u \in StartUnits : Ruled(u) /\ Solves(Solved(u))
    /\ \A mm \in Sizes \cup Thicknesses : IsFraction(mm) /\ Zero \prec mm
    /\ \A mm \in LowFaces : IsFraction(mm)

\* The unit is one tree, and sizes, weights and thicknesses are above zero.
TypeOK ==
    /\ IsLayout(unit)
    /\ IsFramed(unit)
    /\ Ruled(unit)
    /\ DOMAIN unit.space = Nodes(unit)
    /\ edits \in 0 .. MaxEdits

\* Whatever the edits, every run keeps a region that can take up a change of
\* the unit's size (edit.py _refuse_last_unlocked): no lock, size, basis,
\* merge, collapse or splice ever leaves a run with locked regions only.
RunsKeepOneUnlocked ==
    \A d \in Divisions(unit) : \E i \in Range(unit.items[d]) : Unlocked(unit, i)

\* No division sits directly in a run along its own axis, the nesting a scan
\* reads back as one flat run (bug-006; edit.py split_region and merge_at).
NoSameAxisNesting ==
    \A d \in Divisions(unit) \ {unit.root} : AxisOf(unit, d) # unit.axis[d]

Kept == Nodes(unit) \cap Nodes(unit)'
Unmoved(i) == unit'.space[i] = unit.space[i]

\* Locking and unlocking an opening, unlocking what holds a board, changing
\* what a size measures and choosing the fixed point move nothing at all
\* (edit.py lock, unlock and set_basis; session.py set_fixed_side).
RulesMoveNothing ==
    step'.name \in {"Lock Opening", "Unlock Opening", "Unlock Board",
                    "Change Basis", "Set Fixed Point"}
        => unit'.space = unit.space

\* A split moves nothing that was there: the two halves share the room of
\* the bay they replace (edit.py _split_halves_rules).
SplitsMoveNothing ==
    step'.name = "Add Board" => \A i \in Kept : Unmoved(i)

\* Removing one board moves nothing outside the two regions it joins, even
\* where the removal collapses its division and splices what is left into
\* the run above (edit.py merge_at, _merged_rule, _splice_collapsed_child).
RemovalsMoveNothing ==
    step'.name = "Delete Boards" /\ Len(step'.of) = 1
        => \A i \in Kept \ Subtree(unit, Beside(unit, step'.of[1]).low) : Unmoved(i)

\* A drag resizes two regions and carries what lies between them: every
\* member between the first unlocked region on either side moves by one
\* distance at its size, every other member of the run stays where it was,
\* and neither resized region ends below the smaller of 5 mm and its old
\* size (edit.py move_board).
DragsAreLocal ==
    step'.name = "Move Board" =>
        LET b == step'.of[1]
            run == unit.items[RunOf(unit, b)]
            a == AxisOf(unit, b)
            ends == FreeBeside(unit, b)
            between == PlaceOf(unit, ends.low) + 1 .. PlaceOf(unit, ends.high) - 1
            Moved(i) == unit'.space[i].low[a] -- unit.space[i].low[a]
            SameSize(i) == unit'.space[i].size = unit.space[i].size
        IN  /\ \A k \in between : SameSize(run[k]) /\ Moved(run[k]) = Moved(b)
            /\ \A i \in Range(run) \ (Range(ends) \cup {run[k] : k \in between}) :
                  Unmoved(i)
            /\ \A i \in Range(ends) :
                  Least(MinDragGap, Extent(unit, i)) \preceq Extent(unit', i)

\* A resize moves and sizes nothing along the other axis (edit.py
\* set_unit_size).
ResizesAreOfOneAxis ==
    step'.name = "Resize Unit" =>
        \A a \in Axes : unit'.size[a] = unit.size[a] =>
            \A i \in Nodes(unit) : /\ unit'.space[i].low[a] = unit.space[i].low[a]
                                   /\ unit'.space[i].size[a] = unit.space[i].size[a]

\* An edit moves what it is of and nothing else, though the weights of its run
\* are worked out anew from the sizes on the screen (edit.py
\* _other_driven_anchor and the edits that call it).
EditsMoveTheirOwn ==
    [][/\ RulesMoveNothing /\ SplitsMoveNothing /\ RemovalsMoveNothing
       /\ DragsAreLocal /\ ResizesAreOfOneAxis]_vars

\* The size a locked region shows.
LockedMm(u, r) == SizeInBasis(u, r, Extent(u, r), u.rule[r].basis)

\* A locked region stays locked at the size it shows, whatever else is
\* edited: only its own size, basis or lock, a split of it, or a removal
\* beside it may change that; of several removals, one beside it in the
\* layout those before it left.
RemovedBeside(bs) ==
    UNION {LET left == RemoveBoards(unit, SubSeq(bs, 1, n - 1)).unit
           IN  IF CanMerge(left, bs[n]) THEN Range(Beside(left, bs[n])) ELSE {} :
              n \in DOMAIN bs}
Concerned(r) ==
    \/ r \in Range(step'.of)
    \/ step'.name = "Unlock Board" /\ r \in Range(Holders(unit, step'.of[1]))
    \/ step'.name = "Delete Boards" /\ r \in RemovedBeside(step'.of)
LocksHold ==
    [][\A r \in Kept \ {unit.root, unit'.root} :
          Locked(unit, r) /\ ~Concerned(r)
              => Locked(unit', r) /\ LockedMm(unit', r) = LockedMm(unit, r)]_vars

\* The divisions in region i along axis a.
DividedAlong(i, a) == {d \in Divisions(unit) \cap Subtree(unit, i) : unit.axis[d] = a}

\* An edit that keeps the geometry around it never fails the solve: the
\* session can refuse a lock, an unlock or a change of basis, and a split
\* along the run, only as an EditError, before it has begun a step (session.py
\* _apply).  A split across the run also needs the bay to be wider than the
\* board it is cut by, which split_region leaves to solve(); a removal, that
\* every run it widens has an unlocked region; a drag, that no run goes along
\* it in the two regions it resizes; and both, which reshape boards, that the
\* unit has no irregular one.
GeometryEditsSolve ==
    LET Fits(u) == Solves(Solved(u))
    IN  /\ \A r \in Bays(unit), a \in Axes :
              /\ CanSplit(unit, r, a)
              /\ AxisOf(unit, r) # a =>
                    unit.thick[SourceBoard(unit, r, a)] \prec unit.space[r].size[a]
              => Fits(SplitRegion(unit, r, a))
        /\ \A r \in Regions(unit) \ {unit.root} :
              /\ CanFix(unit, r) => Fits(Lock(unit, r))
              /\ Locked(unit, r) => Fits(Unlock(unit, r))
              /\ \A basis \in Bases :
                    CanSetSize(unit, r, basis) => Fits(SetBasis(unit, r, basis))
        /\ DOMAIN unit.pinned = {} => \A b \in Boards(unit) :
              /\ /\ CanMerge(unit, b)
                 /\ \A d \in DividedAlong(Beside(unit, b).low, AxisOf(unit, b)) :
                       DrivenPlaces(unit, d) # {}
                 => Fits(MergeAt(unit, b))
              /\ /\ Movable(unit, b)
                 /\ \A i \in Range(FreeBeside(unit, b)) :
                       DividedAlong(i, AxisOf(unit, b)) = {}
                 => \A mm \in LowFaces : Fits(MoveBoard(unit, b, mm))

\* The layout a split of r makes, and what becomes of it when the board the
\* split put in is removed.
SplitAt(r, a) == Solved(SplitRegion(unit, r, a))
Rejoined(cut) ==
    LET board == CHOOSE b \in Boards(cut) : b \notin Nodes(unit)
    IN  Solved(MergeAt(cut, board))
Joined(back) == CHOOSE i \in Nodes(back) : i \notin Nodes(unit)

\* `back' is the layout of the session, i standing where r stood.
IsUnitBut(back, i, r) ==
    LET Named(j) == IF j = r THEN i ELSE j
    IN  /\ Nodes(back) = {Named(j) : j \in Nodes(unit)}
        /\ \A j \in Nodes(unit) : back.space[Named(j)] = unit.space[j]
        /\ \A d \in Divisions(unit) : \A k \in DOMAIN unit.items[d] :
              back.items[d][k] = Named(unit.items[d][k])
        /\ \A j \in Nodes(unit) \ {r} : back.rule[j] = unit.rule[j]

\* Removing the board a split put in gives back the tree, the geometry and
\* every other rule, and the joined region is locked if the split bay was
\* (edit.py split_region and merge_at).
RestoresAllButRule(back, r) ==
    /\ IsUnitBut(back, Joined(back), r)
    /\ Locked(back, Joined(back)) = Locked(unit, r)
MergeRestoresSplit ==
    \A r \in Bays(unit), a \in Axes :
        CanSplit(unit, r, a) => RestoresAllButRule(Rejoined(SplitAt(r, a)), r)

\* delete_boards "returns an EditFailure, removing none, when ... any one is
\* refused" (session.py:575): it lets no exception escape.
DeletionReturns == step.outcome = "returned"
===============================================================================
