------------------------------- MODULE Elevation -------------------------------
(***************************************************************************)
(* What the editor draws over a unit and how a gesture on the drawing maps *)
(* back to the unit (editor/elevation.py): the frame of the face drawn,    *)
(* the names of the sides a resize keeps, the dimensions, the drag arrow   *)
(* and the padlock of a held board.                                        *)
(*                                                                         *)
(* The drawing has the two elevation axes of the unit, "v" up and "h" to   *)
(* the right or, seen from the other end of the depth, to the left.  The   *)
(* front and the back of a unit are drawn in one frame, at another depth,  *)
(* which is left out, and so are insets.  It keeps no state: everything is *)
(* worked out from the unit of Layout and its spaces.                      *)
(***************************************************************************)
EXTENDS Layout

CONSTANTS
    OuterRowMm,   \* how far apart the rows of outer dimensions are
    Offsets       \* how far the pointer may take an arrow

ASSUME RowAssumption == Zero \prec OuterRowMm
ASSUME OffsetsAssumption == \A mm \in Offsets : IsFraction(mm)

Other(a) == CHOOSE c \in Axes : c # a

(***************************************************************************)
(* The frame.                                                              *)
(***************************************************************************)
\* A unit's depth axis, and the end of it its front is at.
Orientations == [depth : {"x", "y", "z"}, front : {"min", "max", "unknown"}]

\* elevation_axes(): the drawing looks along the depth axis at its high end
\* where horizontal x vertical is that axis: y x z, x x z and x x y.
Natural(o) == IF o.depth = "y" THEN "min" ELSE "max"
Mirrored(o) == o.front # "unknown" /\ o.front # Natural(o)

\* elevation_frame()
Frame(u, o) ==
    [sign |-> [a \in Axes |-> IF a = "h" /\ Mirrored(o) THEN Zero -- One ELSE One],
     origin |-> IF Mirrored(o) THEN [u.low EXCEPT !["h"] = @ ++ u.size["h"]] ELSE u.low]
Frames(u) == {Frame(u, o) : o \in Orientations}

\* from_unit(), for one axis, and rect()
FromUnit(f, a, mm) == f.sign[a] ** (mm -- f.origin[a])
Rect(f, space) ==
    LET Ends(a) == {FromUnit(f, a, space.low[a]),
                    FromUnit(f, a, space.low[a] ++ space.size[a])}
    IN  [low |-> [a \in Axes |-> CHOOSE p \in Ends(a) : \A q \in Ends(a) : p \preceq q],
         high |-> [a \in Axes |-> CHOOSE p \in Ends(a) : \A q \in Ends(a) : q \preceq p]]
Shown(u, f) == [i \in Nodes(u) |-> Rect(f, u.space[i])]

\* Mutant of FixedChoices: the names go by the axis, not by the drawing.
ChoicesByAxis(o, a) == [first |-> "min", middle |-> "center", last |-> "max"]

\* fixed_choices(): "Left" or "Bottom", "Center", "Right" or "Top".
FixedChoices(o, a) ==
    LET turned == a = "h" /\ Mirrored(o)
    IN  [first |-> IF turned THEN "max" ELSE "min", middle |-> "center",
         last |-> IF turned THEN "min" ELSE "max"]

(***************************************************************************)
(* The dimensions.                                                         *)
(***************************************************************************)
\* _walk(): the nodes in the order of the tree.
Walk(u) ==
    LET walk[i \in Nodes(u)] ==
            IF i \in Divisions(u)
            THEN FoldLeft(LAMBDA s, j : s \o walk[j], <<i>>, u.items[i])
            ELSE <<i>>
    IN  walk[u.root]

\* Two spans with more than an end in common.
Overlap(p, q) == p.low \prec q.high /\ q.low \prec p.high
SpanOf(rect, a) == [low |-> rect.low[a], high |-> rect.high[a]]

\* only_boards_beyond(): no region is past r on that side, across its run.
OnlyBoardsBeyond(u, shown, r, side) ==
    LET a == AxisOf(u, r)
        c == Other(a)
        Beyond(q) == IF side = "low" THEN shown[q].high[c] \preceq shown[r].low[c]
                     ELSE shown[r].high[c] \preceq shown[q].low[c]
    IN  ~ \E q \in Regions(u) :
            Overlap(SpanOf(shown[q], a), SpanOf(shown[r], a)) /\ Beyond(q)

\* Where the dimension of r is: outside the unit only for a division.
PlacedAt(u, shown, r) ==
    CASE r \in Divisions(u) /\ OnlyBoardsBeyond(u, shown, r, "low") -> "low"
      [] r \in Divisions(u) /\ ~OnlyBoardsBeyond(u, shown, r, "low")
           /\ OnlyBoardsBeyond(u, shown, r, "high") -> "high"
      [] OTHER -> "inside"

\* Mutant of OuterRow: one row holds them all.
SameRow(drawn, c, side, span) == 1

\* _outer_row(): the first row out on that edge with room for the span.
OuterRow(drawn, c, side, span) ==
    LET taken == {d \in Range(drawn) : Other(d.axis) = c /\ d.at = side}
        Fits(n) == \A d \in taken : d.row = n => ~Overlap(d.span, span)
    IN  CHOOSE n \in 1 .. Cardinality(taken) + 1 :
            Fits(n) /\ \A m \in 1 .. n - 1 : ~Fits(m)

\* What a dimension spans: a spacing goes on over the board after it.
Spanned(u, shown, r) ==
    LET a == AxisOf(u, r)
        k == PlaceOf(u, r)
        own == SpanOf(shown[r], a)
        next == SpanOf(shown[u.items[RunOf(u, r)][k + 1]], a)
    IN  IF MeasuredBasis(u, r) = "with_next" /\ Measures(u, r, "with_next")
        THEN [low |-> Least(own.low, next.low), high |-> Greatest(own.high, next.high)]
        ELSE own

Placed(d, outer, inner, parts) ==
    LET c == Other(d.axis)
        row == Whole(d.row) ** OuterRowMm
        across == inner.high[c] -- inner.low[c]
    IN  CASE d.at = "low" -> outer.low[c] -- row
          [] d.at = "high" -> outer.high[c] ++ row
          [] d.at = "inside" -> inner.low[c] ++ (parts ** across)

\* labels(): an opening's line runs two thirds across it, a division's, where
\* it has to stay inside, a sixth.
Labelled(u, shown, drawn, r) ==
    LET a == AxisOf(u, r)
        at == PlacedAt(u, shown, r)
        span == Spanned(u, shown, r)
        d == [region |-> r, axis |-> a, at |-> at, span |-> span,
              row |-> IF at = "inside" THEN 0 ELSE OuterRow(drawn, Other(a), at, span)]
        parts == IF r \in Divisions(u) THEN Frac(1, 6) ELSE Frac(2, 3)
    IN  Append(drawn, d @@ [across |-> Placed(d, shown[u.root], shown[r], parts)])
Dimensions(u, shown) ==
    FoldLeft(LAMBDA drawn, d :
                FoldLeft(LAMBDA more, r : IF r \in Boards(u) THEN more
                                          ELSE Labelled(u, shown, more, r),
                         drawn, u.items[d]),
             << >>, SelectSeq(Walk(u), LAMBDA i : i \in Divisions(u)))

(***************************************************************************)
(* The arrow.                                                              *)
(***************************************************************************)
\* region_before(): the opening right before a board, whose dimension the
\* arrow sits beside.
HasBefore(u, b) ==
    b \in Boards(u) /\ PlaceOf(u, b) > 1
      /\ u.items[RunOf(u, b)][PlaceOf(u, b) - 1] \in Regions(u)
BeforeOf(u, b) == u.items[RunOf(u, b)][PlaceOf(u, b) - 1]

Middle(rect, a) == (rect.low[a] ++ rect.high[a]) // Whole(2)
Longest(u) == Greatest(u.size["h"], u.size["v"])

\* Mutant of ArrowPlace: the arrow points as the unit's axis does.
ArrowAlongAxis(u, f, b) ==
    [axis |-> AxisOf(u, b), direction |-> One,
     at |-> [a \in Axes |-> Middle(Rect(f, u.space[b]), a)],
     grab |-> u.space[b].low[AxisOf(u, b)] ++ (Extent(u, b) // Whole(2))]

\* _arrow_place(): the point the arrow sits on, the way in the unit a positive
\* drag goes, and the middle of the board, which it carries.
ArrowPlace(u, f, b) ==
    LET a == AxisOf(u, b)
        c == Other(a)
        before == Rect(f, u.space[BeforeOf(u, b)])
        beside == before.low[c] ++ (Frac(2, 3) ** (before.high[c] -- before.low[c]))
                    ++ (Frac(1, 25) ** Longest(u))
    IN  [axis |-> a, direction |-> f.sign[a],
         at |-> [e \in Axes |-> IF e = a THEN Middle(Rect(f, u.space[b]), a) ELSE beside],
         grab |-> u.space[b].low[a] ++ (Extent(u, b) // Whole(2))]

\* arrow_for() and held_padlock(): what the board shows when selected.
ShowsArrow(u, b) == HasBefore(u, b) /\ Movable(u, b)
ShowsPadlock(u, b) == HasBefore(u, b) /\ Freeable(u, b) /\ Holders(u, b) # << >>

\* dragged_to_mm(), and begin_drag() with the drag_to() that follows it.
DraggedTo(arrow, offset) == arrow.grab ++ (arrow.direction ** offset)
Dragged(u, b, arrow, offset) ==
    LET grabbed == arrow.grab -- u.space[b].low[arrow.axis]
    IN  Solved(MoveBoard(u, b, DraggedTo(arrow, offset) -- grabbed))

(***************************************************************************)
(* Properties, for every unit Layout reaches.                              *)
(***************************************************************************)
\* The side a size field says it keeps stays where it is drawn, whichever way
\* the unit faces: after a resize that keeps "Left", the left edge of the unit
\* is where it was on the screen (elevation.py fixed_choices with
\* edit.py set_unit_size and session.py set_fixed_side).
FixedSidesStay ==
    \A o \in Orientations, a \in Axes, mm \in UnitSizes :
        LET f == Frame(unit, o)
            After(side) ==
                LET sized == SetUnitSize([unit EXCEPT !.fixed[a] = side], a, mm)
                IN  Rect(f, [low |-> sized.low, size |-> sized.size])
            was == Rect(f, unit.space[unit.root])
            choices == FixedChoices(o, a)
        IN  /\ After(choices.first).low = was.low
            /\ After(choices.last).high = was.high
            /\ Middle(After(choices.middle), a) = Middle(was, a)

\* A board follows its arrow on the screen: the arrow pulled by some way takes
\* the board the same way, and stops short of it only where the opening it is
\* pulled into is down to 5 mm or was smaller, in a unit seen from either end
\* of its depth (elevation.py _arrow_place and dragged_to_mm, session.py
\* begin_drag and drag_to, edit.py move_board).
FollowsTo(u, f, b, arrow, offset) ==
    LET a == arrow.axis
        moved == Dragged(u, b, arrow, offset)
        Seen(v, i) == Rect(f, v.space[i])
        way == Seen(moved, b).low[a] -- Seen(u, b).low[a]
        into == CHOOSE r \in Range(FreeBeside(u, b)) :
                    IF Zero \prec offset THEN Seen(u, b).low[a] \prec Seen(u, r).low[a]
                    ELSE Seen(u, r).low[a] \prec Seen(u, b).low[a]
    IN  \/ way = offset
        \/ /\ Zero \preceq (way ** offset) /\ Square(way) \prec Square(offset)
           /\ Extent(moved, into) = Least(MinDragGap, Extent(u, into))
DragsFollowTheArrow ==
    \A f \in Frames(unit), b \in Boards(unit), offset \in Offsets :
        ShowsArrow(unit, b) => FollowsTo(unit, f, b, ArrowPlace(unit, f, b), offset)

\* The padlock of a held board stands where its arrow would, and a click on it
\* puts the arrow there (elevation.py held_padlock, "unlocking them would give
\* it an arrow"; edit.py held_by; session.py unlock_holders).
PadlockGivesArrow ==
    \A b \in Boards(unit) : ShowsPadlock(unit, b) =>
        LET freed == UnlockHolders(unit, b)
        IN  /\ ShowsArrow(freed, b)
            /\ \A f \in Frames(unit) : ArrowPlace(freed, f, b).at = ArrowPlace(unit, f, b).at

\* A dimension is as long as the size it shows, a spacing with the board it is
\* measured through, and no two dimensions of one direction lie over each
\* other, but for that of a division that has to stay inside: one a sixth across
\* can meet those of what it is divided into, once a region of these takes just
\* a quarter of it from its low edge (elevation.py _Planner.labels and
\* _outer_row).
CrossesItsOwn(d, e) == d.at = "inside" /\ d.region \in Divisions(unit)
                         /\ e.region \in Subtree(unit, d.region)
DimensionsAreTrue ==
    \A f \in Frames(unit) :
        LET drawn == Dimensions(unit, Shown(unit, f))
        IN  /\ \A k \in DOMAIN drawn :
                  LET r == drawn[k].region
                  IN  drawn[k].span.high -- drawn[k].span.low
                        = SizeInBasis(unit, r, Extent(unit, r), MeasuredBasis(unit, r))
            /\ \A k \in DOMAIN drawn : \A l \in DOMAIN drawn \ {k} :
                  \/ drawn[k].axis # drawn[l].axis
                  \/ drawn[k].across # drawn[l].across
                  \/ ~Overlap(drawn[k].span, drawn[l].span)
                  \/ CrossesItsOwn(drawn[k], drawn[l]) \/ CrossesItsOwn(drawn[l], drawn[k])
================================================================================
