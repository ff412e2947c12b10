------------------------------- MODULE MCLayout -------------------------------
(***************************************************************************)
(* Units TLC starts from.  Each is a layout a scan or the Create command   *)
(* makes, in millimetres small enough to read.                             *)
(***************************************************************************)
EXTENDS Layout, Integers

MCIds == 1 .. 30

mm(n) == Whole(n)
MCSizes == {mm(12)}
MCThicknesses == {mm(4)}
MCUnitSizes == {mm(90)}
MCLowFaces == {mm(-9), mm(20), mm(99)}

\* The layout with these runs, where a region is Fill and a board is 2 mm
\* thick unless `rules' says otherwise.
Tree(items, axis, boards, rules, voids, pinned) ==
    LET nodes == {1} \cup UNION {Range(items[d]) : d \in DOMAIN items}
        plain == [i \in nodes |-> IF i \in boards THEN Own ELSE Fill]
    IN  [root |-> 1, items |-> items, axis |-> axis,
         rule |-> Over(plain, rules), thick |-> [b \in boards |-> mm(2)],
         voids |-> voids, pinned |-> pinned, space |-> << >>,
         low |-> [a \in Axes |-> mm(3)],
         size |-> ("h" :> mm(70) @@ "v" :> mm(40)),
         fixed |-> [a \in Axes |-> "min"]]

\* What the Create command makes (unit_ops._default_unit).
Plain == Tree(1 :> <<2, 3, 4>> @@ 3 :> <<5, 6, 7>>, 1 :> "v" @@ 3 :> "h",
              {2, 4, 5, 7}, << >>, {}, << >>)

\* Three columns, the middle one with a shelf, some openings locked.
Columns(rules) ==
    Tree(1 :> <<2, 3, 4>> @@ 3 :> <<5, 6, 7, 8, 9, 10, 11>> @@ 8 :> <<12, 13, 14>>,
         1 :> "v" @@ 3 :> "h" @@ 8 :> "v",
         {2, 4, 5, 7, 9, 11, 13}, rules, {}, << >>)

Locks == 10 :> Fixed(mm(9), "clear") @@ 12 :> Fixed(mm(20), "with_next")

\* A tall column beside a short one: a void lies over the short column, and
\* over its side, which the scan wraps in a division of its own.
Stepped ==
    Tree(1 :> <<2, 3, 4, 5, 6>> @@ 3 :> <<7, 8, 9>> @@ 5 :> <<10, 11, 12, 13>>
           @@ 6 :> <<14, 15>>,
         1 :> "h" @@ 3 :> "v" @@ 5 :> "v" @@ 6 :> "v",
         {2, 4, 7, 9, 10, 12, 14},
         6 :> Fixed(mm(2), "clear") @@ 13 :> Fixed(mm(12), "clear")
           @@ 14 :> Fixed(mm(28), "clear"),
         {13, 15}, << >>)

\* A column with a notched shelf, its size pinned, and two open columns.
Notched ==
    Tree(1 :> <<2, 3, 4>> @@ 3 :> <<5, 6, 7, 8, 9, 10, 11>> @@ 6 :> <<12, 13, 14>>,
         1 :> "v" @@ 3 :> "h" @@ 6 :> "v",
         {2, 4, 5, 7, 9, 11, 13}, 6 :> Fixed(mm(20), "clear"), {},
         13 :> ("h" :> mm(20) @@ "v" :> mm(2)))

\* Shelves as wide as the unit, one compartment divided, every opening of
\* each run but one locked.
Shelves ==
    Tree(1 :> <<2, 3, 4>> @@ 3 :> <<5, 6, 7>> @@ 6 :> <<8, 9, 10, 11, 12>>
           @@ 8 :> <<13, 14, 15>>,
         1 :> "v" @@ 3 :> "h" @@ 6 :> "v" @@ 8 :> "h",
         {2, 4, 5, 7, 9, 11, 14},
         10 :> Fixed(mm(8), "with_next") @@ 13 :> Fixed(mm(20), "clear")
           @@ 12 :> Weighted(mm(3)) @@ 8 :> Weighted(mm(2)), {}, << >>)

\* Two boards slid together by hand: the rules stored for the openings left
\* lock all of them (record.py with_stored_rules), and no edit makes such a run.
Doubled ==
    Tree(1 :> <<2, 3, 4>> @@ 3 :> <<5, 6, 7, 8, 9, 10>>, 1 :> "v" @@ 3 :> "h",
         {2, 4, 5, 7, 9, 10},
         6 :> Fixed(mm(20), "clear") @@ 8 :> Fixed(mm(44), "with_next"), {}, << >>)

\* A column of compartments one of which is divided again, and a column
\* narrower than a board.
Nested ==
    Tree(1 :> <<2, 3, 4>> @@ 3 :> <<5, 6, 7, 8, 9>> @@ 6 :> <<10, 11, 12>>
           @@ 10 :> <<13, 14, 15>> @@ 8 :> <<16, 17, 18>>,
         1 :> "v" @@ 3 :> "h" @@ 6 :> "v" @@ 10 :> "h" @@ 8 :> "v",
         {2, 4, 5, 7, 9, 11, 14, 17},
         15 :> Fixed(mm(10), "clear") @@ 8 :> Fixed(One, "clear"), {}, << >>)

FewUnits == {Plain, Columns(Locks)}
AllUnits == {Plain, Columns(Locks), Columns(<< >>), Stepped, Notched, Shelves, Nested}
HandUnits == AllUnits \cup {Doubled}
===============================================================================
