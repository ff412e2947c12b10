---------------------------------- MODULE Scan ----------------------------------
(***************************************************************************)
(* Reading a unit from its boards (core/scan.py): which boxes are panels,  *)
(* which way the unit faces, the grid of the others, and the region tree   *)
(* cut from it.                                                            *)
(*                                                                         *)
(* A box has a low corner and a size on the two elevation axes and on the  *)
(* depth, which is given (a written unit stores its depth axis).  `boxes'  *)
(* maps the boards, by identifier, to theirs.  A span of grid lines is a   *)
(* pair of their indices, and a window a span on each elevation axis.      *)
(***************************************************************************)
EXTENDS Tree

CONSTANTS
    Snap,         \* edges this close are one line (DEFAULT_SNAP_MM)
    Clearance     \* a board may stop this far short (DEFAULT_CLEARANCE_MM)

ASSUME ToleranceAssumption == Zero \preceq Snap /\ Snap \prec Clearance

Dims == Axes \cup {"d"}
Across(a) == CHOOSE c \in Axes : c # a

High(box, a) == box.low[a] ++ box.size[a]

\* The members of a set in some order, and in the order of `Before'.
Listed(S) == FoldSet(LAMBDA x, s : Append(s, x), << >>, S)
Ordered(S, Before(_, _)) == SortSeq(Listed(S), Before)

LeastOf(S) == CHOOSE p \in S : \A q \in S : p \preceq q
GreatestOf(S) == CHOOSE p \in S : \A q \in S : q \preceq p

(***************************************************************************)
(* Panels and facing.                                                      *)
(***************************************************************************)
\* _classify_thin_axis(): the axes along which a box is thinnest.
ThinAxes(box) == {a \in Dims : \A c \in Dims : box.size[a] \preceq box.size[c]}
ThinAxis(box) == CHOOSE a \in Dims : a \in ThinAxes(box)

Panels(boxes) == {b \in DOMAIN boxes : ThinAxis(boxes[b]) = "d"}
Members(boxes) == DOMAIN boxes \ Panels(boxes)

DepthOf(boxes) ==
    [low |-> LeastOf({boxes[b].low["d"] : b \in Members(boxes)}),
     high |-> GreatestOf({High(boxes[b], "d") : b \in Members(boxes)})]

\* _backing_below_mm(): half the median thickness of the members.
BackingBelow(boxes) ==
    LET Thickness(b) == boxes[b].size[ThinAxis(boxes[b])]
        sorted == Ordered(Members(boxes), LAMBDA b, c : Thickness(b) \prec Thickness(c))
        n == Len(sorted)
        low == Thickness(sorted[(n + 1) \div 2])
        high == Thickness(sorted[n \div 2 + 1])
    IN  (low ++ high) // Whole(4)

\* Mutant of PanelReading: the end a panel lies past does not matter.
PanelReadingAlike(panel, depth, backing) ==
    [back |-> backing, front |-> IF backing THEN "min" ELSE "max"]

\* _panel_reading(): whether a panel is a back, and the end it says is the front.
PanelReading(panel, depth, backing) ==
    LET At(test) == IF test THEN "min" ELSE "max"
        below == High(panel, "d") \preceq depth.low
        above == depth.high \preceq panel.low["d"]
    IN  CASE below -> [back |-> backing, front |-> At(~backing)]
          [] ~below /\ above -> [back |-> backing, front |-> At(backing)]
          [] ~below /\ ~above ->
                [back |-> TRUE,
                 front |-> At(depth.low ++ depth.high
                                \prec panel.low["d"] ++ High(panel, "d"))]

Reading(boxes, b) ==
    PanelReading(boxes[b], DepthOf(boxes), boxes[b].size["d"] \prec BackingBelow(boxes))

\* infer_facing(): the panels' word if they agree, else the end the members
\* sit flush with is the back.
Facing(boxes) ==
    LET members == Members(boxes)
        depth == DepthOf(boxes)
        votes == {Reading(boxes, b).front : b \in Panels(boxes)}
        atMin == Sum([b \in members |-> boxes[b].low["d"] -- depth.low], members)
        atMax == Sum([b \in members |-> depth.high -- High(boxes[b], "d")], members)
    IN  CASE members = {} -> "unknown"
          [] members # {} /\ Cardinality(votes) = 1 -> CHOOSE v \in votes : TRUE
          [] members # {} /\ Cardinality(votes) # 1 ->
                IF Greatest(atMin -- atMax, atMax -- atMin) \preceq Snap THEN "unknown"
                ELSE IF atMax \prec atMin THEN "min" ELSE "max"

\* _backs(): the panels that read as backs and agree with the facing.
Backs(boxes, front) ==
    {b \in Panels(boxes) : Reading(boxes, b) = [back |-> TRUE, front |-> front]}

(***************************************************************************)
(* The grid.                                                               *)
(***************************************************************************)
\* _snap_lines(): a cluster reaches Snap from its own first value, and its
\* line is halfway between its first and its last.
SnapLines(values) ==
    LET Add(clusters, v) ==
            LET n == Len(clusters)
            IN  IF n > 0 /\ v -- clusters[n].first \preceq Snap
                THEN [clusters EXCEPT ![n].last = v]
                ELSE Append(clusters, [first |-> v, last |-> v])
        clusters == FoldLeft(Add, << >>, Ordered(values, LAMBDA p, q : p \prec q))
    IN  [k \in DOMAIN clusters |-> (clusters[k].first ++ clusters[k].last) // Whole(2)]

\* _index_of(): the nearest line, the lower of two.  None is ever farther than
\* half the snap, the case the code asserts.
IndexOf(lines, v) ==
    LET Off(k) == Greatest(lines[k] -- v, v -- lines[k])
    IN  CHOOSE k \in DOMAIN lines : \A l \in DOMAIN lines :
            Off(k) \preceq Off(l) /\ (Off(l) = Off(k) => k <= l)

\* The cells of a window, each named by its low lines.
Cells(w) == (w["h"][1] .. w["h"][2] - 1) \X (w["v"][1] .. w["v"][2] - 1)

\* Mutant of Neighbors: the outside comes in from the sides only.
Sideways(c) == {<<c[1] + 1, c[2]>>, <<c[1] - 1, c[2]>>}

Neighbors(c) == {<<c[1] + 1, c[2]>>, <<c[1] - 1, c[2]>>,
                 <<c[1], c[2] + 1>>, <<c[1], c[2] - 1>>}

\* The cells of `open' that a path of its cells joins to `reached'.
RECURSIVE Flood(_, _)
Flood(reached, open) ==
    LET next == UNION {Neighbors(c) : c \in reached} \cap (open \ reached)
    IN  IF next = {} THEN reached ELSE Flood(reached \cup next, open)

\* _Grid: the lines, the window of each member, the cells open to the outside.
Grid(boxes) ==
    LET members == Members(boxes)
        lines == [a \in Axes |->
                    SnapLines(UNION {{boxes[b].low[a], High(boxes[b], a)} : b \in members})]
        at == [b \in members |-> [a \in Axes |->
                    <<IndexOf(lines[a], boxes[b].low[a]),
                      IndexOf(lines[a], High(boxes[b], a))>>]]
        whole == [a \in Axes |-> <<1, Len(lines[a])>>]
        open == Cells(whole) \ UNION {Cells(at[b]) : b \in members}
        border == {c \in open : \/ c[1] \in {1, Len(lines["h"]) - 1}
                                \/ c[2] \in {1, Len(lines["v"]) - 1}}
    IN  [lines |-> lines, at |-> at, whole |-> whole, outside |-> Flood(border, open),
         thin |-> [b \in members |-> ThinAxis(boxes[b])]]

\* From line k to line l of an axis.
Between(g, a, k, l) == g.lines[a][l] -- g.lines[a][k]
Width(g, w, a) == Between(g, a, w[a][1], w[a][2])

(***************************************************************************)
(* The cuts.                                                               *)
(***************************************************************************)
\* _contained(): the members in a window, and those that cross its edge.
Inside(g, w) ==
    {b \in DOMAIN g.at : \A a \in Axes : g.at[b][a][1] < w[a][2] /\ w[a][1] < g.at[b][a][2]}
Straddlers(g, w) ==
    {b \in Inside(g, w) :
        ~ \A a \in Axes : w[a][1] <= g.at[b][a][1] /\ g.at[b][a][2] <= w[a][2]}

\* Board b straddles line k.
CrossedBy(g, b, a, k) == g.at[b][a][1] < k /\ k < g.at[b][a][2]

\* _clean_lines(): the faces inside a window that no board crosses.  Those
\* closer than Clearance are one joint, at the face of a board thin along the
\* cut if there is one; a joint at the window's own edge is none.
CleanLines(g, w, a) ==
    LET inside == Inside(g, w)
        faces == UNION {Range(g.at[b][a]) : b \in inside}
        preferred == UNION {Range(g.at[b][a]) : b \in {c \in inside : g.thin[c] = a}}
        clean == {k \in faces : /\ w[a][1] < k /\ k < w[a][2]
                                /\ ~ \E b \in inside : CrossedBy(g, b, a, k)}
        Joint(k, l) == Between(g, a, k, l) \preceq Clearance
        Keep(kept, k) ==
            CASE kept # << >> /\ Joint(Last(kept), k) ->
                    IF k \in preferred /\ Last(kept) \notin preferred
                    THEN Append(Front(kept), k) ELSE kept
              [] ~(kept # << >> /\ Joint(Last(kept), k)) ->
                    IF Joint(w[a][1], k) \/ Joint(k, w[a][2]) THEN kept
                    ELSE Append(kept, k)
    IN  FoldLeft(Keep, << >>, Ordered(clean, LAMBDA k, l : k < l))

\* _region(): the finer of the two partitions, the rows on a tie.
Cut(g, w) ==
    LET up == CleanLines(g, w, "v")
        across == CleanLines(g, w, "h")
    IN  IF up # << >> /\ Len(up) >= Len(across) THEN [axis |-> "v", lines |-> up]
        ELSE [axis |-> "h", lines |-> across]

\* The slabs of a window, none where no line crosses it.
SlabsOf(w, cut) ==
    LET bounds == <<w[cut.axis][1]>> \o cut.lines \o <<w[cut.axis][2]>>
    IN  IF cut.lines = << >> THEN << >>
        ELSE [k \in 1 .. Len(cut.lines) + 1 |->
                [w EXCEPT ![cut.axis] = <<bounds[k], bounds[k + 1]>>]]

\* _slab(): one board alone in a slab reaches across it on axis a, but for
\* Clearance at each end; what lies beyond an end holds no other board.
Reaches(g, w, a) ==
    /\ Cardinality(Inside(g, w)) = 1
    /\ \A b \in Inside(g, w) :
          /\ Between(g, a, w[a][1], g.at[b][a][1]) \preceq Clearance
          /\ Between(g, a, g.at[b][a][2], w[a][2]) \preceq Clearance

IsRegion(g, w, cut) == ~Reaches(g, w, Across(cut.axis))

\* The windows that are divisions: those given and the ones cut out of them.
RECURSIVE Divided(_, _)
Divided(g, ws) ==
    LET Parts(w, cut) == {s \in Range(SlabsOf(w, cut)) : Inside(g, s) # {}
                                                           /\ IsRegion(g, s, cut)}
    IN  IF ws = {} THEN {}
        ELSE ws \cup Divided(g, UNION {Parts(w, Cut(g, w)) : w \in ws})

(***************************************************************************)
(* The tree.                                                               *)
(***************************************************************************)
\* The runs: each division's window, with its axis and its items' windows.
Runs(g) ==
    [w \in Divided(g, {g.whole}) |->
        LET cut == Cut(g, w) IN [axis |-> cut.axis, items |-> SlabsOf(w, cut)]]

IsBoard(g, runs, w, s) == Reaches(g, s, Across(runs[w].axis))
BoardIn(g, s) == CHOOSE b \in DOMAIN g.at : Inside(g, s) = {b}
IsEmpty(g, s) == Inside(g, s) = {}
IsVoid(g, s) == IsEmpty(g, s) /\ Cells(s) \subseteq g.outside

\* _is_axis_wrap(): a division of one short board and the void past its end.
IsWrap(g, runs, s) ==
    /\ s \in DOMAIN runs
    /\ Len(runs[s].items) = 2
    /\ \E t \in Range(runs[s].items) :
          /\ IsBoard(g, runs, s, t)
          /\ g.thin[BoardIn(g, t)] # runs[s].axis
    /\ \E t \in Range(runs[s].items) : ~IsBoard(g, runs, s, t) /\ IsVoid(g, t)

\* The places of a run that share what is left: its bays and divisions, or
\* its voids where it has none.
Sharing(g, runs, w) ==
    LET items == runs[w].items
        regions == {k \in DOMAIN items : ~IsBoard(g, runs, w, items[k])
                                           /\ ~IsWrap(g, runs, items[k])}
        open == {k \in regions : ~IsVoid(g, items[k])}
    IN  IF open = {} THEN regions ELSE open

\* _finalize_items() and _recover_rules(): the rule of the item at place k.
ItemRule(g, runs, w, k, sharing) ==
    LET a == runs[w].axis
        items == runs[w].items
        mm(l) == Width(g, items[l], a)
        sizes == {mm(l) : l \in sharing}
        alike == GreatestOf(sizes) -- LeastOf(sizes) \preceq Snap
    IN  CASE k \in sharing -> IF alike THEN Fill ELSE Weighted(mm(k))
          [] k \notin sharing /\ IsBoard(g, runs, w, items[k])
                /\ g.thin[BoardIn(g, items[k])] = a -> Own
          [] k \notin sharing /\ ~(IsBoard(g, runs, w, items[k])
                /\ g.thin[BoardIn(g, items[k])] = a) -> Fixed(mm(k), "clear")

\* _gap(): how much of the gap past an end of b, along the lines it lies on,
\* is enclosed.
EnclosedGap(g, b, s, a, k) ==
    LET along == IF k = 1 THEN s[a][1] .. g.at[b][a][1] - 1
                 ELSE g.at[b][a][2] .. s[a][2] - 1
        Enclosed(l) == ~(Cells([g.at[b] EXCEPT ![a] = <<l, l + 1>>]) \subseteq g.outside)
        enclosed == {l \in along : Enclosed(l)}
    IN  Sum([l \in enclosed |-> Between(g, a, l, l + 1)], enclosed)

\* _make_board(): how far b stays inside its slab, on the axis across the run
\* and on the depth.
InsetsOf(g, boxes, depth, b, s, across) ==
    across :> [k \in {1, 2} |-> EnclosedGap(g, b, s, across, k)]
      @@ "d" :> <<boxes[b].low["d"] -- depth.low, depth.high -- High(boxes[b], "d")>>

\* The reasons scan() refuses boxes for.  Those of one line are looked for
\* only where no line above gives one.
Malformed(boxes) ==
    {reason \in {"nonpositive_extent", "no_thin_axis"} : \E b \in DOMAIN boxes :
        CASE reason = "nonpositive_extent" ->
                \E a \in Dims : boxes[b].size[a] \preceq Zero
          [] reason = "no_thin_axis" -> Cardinality(ThinAxes(boxes[b])) # 1}

Uncuttable(g) ==
    LET apart(b, c) == Cells(g.at[b]) \cap Cells(g.at[c]) = {}
    IN  {reason \in {"collapses_at_snap", "overlap"} :
            CASE reason = "collapses_at_snap" -> \E b \in DOMAIN g.at : Cells(g.at[b]) = {}
              [] reason = "overlap" ->
                    \E b \in DOMAIN g.at : \E c \in DOMAIN g.at \ {b} : ~apart(b, c)}

Unplaceable(g, runs) ==
    LET slabs == UNION {Range(runs[w].items) : w \in DOMAIN runs}
        empty == {s \in slabs : IsEmpty(g, s)}
    IN  {reason \in {"crosses_bay", "not_a_tree", "partly_enclosed", "no_enclosed_bay"} :
            CASE reason = "crosses_bay" ->
                    \E w \in slabs \cup DOMAIN runs : Straddlers(g, w) # {}
              [] reason = "not_a_tree" -> \E w \in DOMAIN runs : runs[w].items = << >>
              [] reason = "partly_enclosed" -> \E s \in empty :
                    ~IsVoid(g, s) /\ Cells(s) \cap g.outside # {}
              [] reason = "no_enclosed_bay" -> \A s \in empty : IsVoid(g, s)}

Refusals(boxes, g, runs) ==
    CASE Malformed(boxes) # {} -> Malformed(boxes)
      [] Malformed(boxes) = {} /\ Members(boxes) = {} ->
            {IF DOMAIN boxes = {} THEN "no_boxes" ELSE "no_elevation"}
      [] Malformed(boxes) = {} /\ Members(boxes) # {} ->
            IF Uncuttable(g) # {} THEN Uncuttable(g) ELSE Unplaceable(g, runs)

\* Every place of every run, and the board or the region that is there; the
\* regions' windows are given the identifiers `ids', the whole's the first.
Places(runs) == UNION {{w} \X DOMAIN runs[w].items : w \in DOMAIN runs}
Slab(runs, p) == runs[p[1]].items[p[2]]
BoardPlaces(g, runs) == {p \in Places(runs) : IsBoard(g, runs, p[1], Slab(runs, p))}
Named(g, runs, ids) ==
    LET windows == {Slab(runs, p) : p \in Places(runs) \ BoardPlaces(g, runs)}
        ordered == <<g.whole>> \o Listed(windows)
        fresh == Listed(ids)
    IN  [w \in Range(ordered) |-> fresh[CHOOSE k \in DOMAIN ordered : ordered[k] = w]]

\* scan(): the unit the runs make.
UnitOf(boxes, g, runs, name, fixed) ==
    LET at == [p \in Places(runs) |-> IF p \in BoardPlaces(g, runs) THEN BoardIn(g, Slab(runs, p))
                                      ELSE name[Slab(runs, p)]]
        of == [i \in Range(at) |-> CHOOSE p \in DOMAIN at : at[p] = i]
        window == [i \in {name[w] : w \in DOMAIN runs} |-> CHOOSE w \in DOMAIN runs : name[w] = i]
        boards == DOMAIN of \cap DOMAIN g.at
        along == [i \in DOMAIN of |-> runs[of[i][1]].axis]
        Slot(i) == Slab(runs, of[i])
        depth == DepthOf(boxes)
    IN  [root |-> name[g.whole],
         items |-> [d \in DOMAIN window |->
                      [k \in DOMAIN runs[window[d]].items |-> at[<<window[d], k>>]]],
         axis |-> [d \in DOMAIN window |-> runs[window[d]].axis],
         rule |-> name[g.whole] :> Fill @@ [i \in DOMAIN of |->
                    ItemRule(g, runs, of[i][1], of[i][2], Sharing(g, runs, of[i][1]))],
         thick |-> [b \in boards |-> IF g.thin[b] = along[b] THEN Width(g, Slot(b), along[b])
                                     ELSE boxes[b].size[g.thin[b]]],
         voids |-> {name[w] : w \in {v \in DOMAIN name : IsVoid(g, v)}},
         pinned |-> [b \in {c \in boards : boxes[c].irregular} |->
                       [a \in Axes |-> boxes[b].size[a]]],
         insets |-> [b \in boards |->
                       InsetsOf(g, boxes, depth, b, Slot(b), Across(along[b]))],
         depth |-> depth,
         low |-> [a \in Axes |-> g.lines[a][1]],
         size |-> [a \in Axes |-> Width(g, g.whole, a)],
         fixed |-> fixed, space |-> << >>]

\* What scan() answers: the reasons it refuses, or the unit.
FromRuns(boxes, ids, fixed, g, runs) ==
    LET refusals == Refusals(boxes, g, runs)
    IN  IF refusals # {} THEN [refusals |-> refusals]
        ELSE [refusals |-> {},
              unit |-> Solved(UnitOf(boxes, g, runs, Named(g, runs, ids \ DOMAIN boxes), fixed))]
FromGrid(boxes, ids, fixed, g) == FromRuns(boxes, ids, fixed, g, Runs(g))
Scanned(boxes, ids, fixed) == FromGrid(boxes, ids, fixed, Grid(boxes))

(***************************************************************************)
(* The boards of a solved unit (core/expand.py).                           *)
(***************************************************************************)
InsetOf(u, b, a) ==
    IF b \in DOMAIN u.insets /\ a # AxisOf(u, b) THEN u.insets[b][a] ELSE <<Zero, Zero>>

\* expand(): the box of each board, in the room its node is given.
Expand(u) ==
    LET Low(b, a) == IF a = "d" THEN u.depth.low ELSE u.space[b].low[a]
        Size(b, a) == IF a = "d" THEN u.depth.high -- u.depth.low ELSE u.space[b].size[a]
    IN  [b \in Boards(u) |->
            [low |-> [a \in Dims |-> Low(b, a) ++ InsetOf(u, b, a)[1]],
             size |-> [a \in Dims |->
                         Size(b, a) -- InsetOf(u, b, a)[1] -- InsetOf(u, b, a)[2]],
             irregular |-> b \in DOMAIN u.pinned]]
================================================================================
