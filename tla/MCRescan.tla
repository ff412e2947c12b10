------------------------------- MODULE MCRescan -------------------------------
(***************************************************************************)
(* The units of MCLayout at five times their size, so that their openings  *)
(* are wider than the clearance tolerance of the program.                  *)
(***************************************************************************)
EXTENDS Rescan, MCLayout

MCSnap == Frac(1, 2)
MCClearance == mm(3)

Times(p) == p ** mm(5)
Enlarged(u) ==
    [root |-> u.root, items |-> u.items, axis |-> u.axis, voids |-> u.voids,
     rule |-> [i \in DOMAIN u.rule |->
                IF u.rule[i].kind = "fixed" THEN [u.rule[i] EXCEPT !.mm = Times(@)]
                ELSE u.rule[i]],
     thick |-> [b \in DOMAIN u.thick |-> Times(u.thick[b])],
     pinned |-> [b \in DOMAIN u.pinned |-> [a \in Axes |-> Times(u.pinned[b][a])]],
     low |-> [a \in Axes |-> Times(u.low[a])],
     size |-> [a \in Axes |-> Times(u.size[a])],
     fixed |-> u.fixed, space |-> << >>, insets |-> << >>,
     depth |-> [low |-> Zero, high |-> mm(100)]]

\* Columns, its short shelf held 1 mm inside its compartment and 2 mm behind
\* the front.
Inset == [Enlarged(Columns(Locks)) EXCEPT
            !.insets = 13 :> ("h" :> <<mm(1), Zero>> @@ "d" :> <<mm(2), Zero>>)]

ScanUnits == {Enlarged(Plain), Inset, Enlarged(Stepped), Enlarged(Notched), Enlarged(Shelves)}

\* A door in front of the unit.
MCDoors == 31 :> [low |-> ("h" :> mm(15) @@ "v" :> mm(15) @@ "d" :> mm(-10)),
                  size |-> ("h" :> mm(350) @@ "v" :> mm(200) @@ "d" :> mm(10)),
                  irregular |-> FALSE]

ColumnsOnly == {Enlarged(Columns(Locks))}
MCNested == 13 :> mm(30)

MCSlides == {mm(20), Frac(1, 4)}
MCStretches == {mm(-2)}
MCScanSizes == {mm(60)}
MCScanThicknesses == {mm(20)}
MCScanUnitSizes == {mm(450)}
MCScanLowFaces == {mm(100)}
MCNowhere == << >>
MCScanIds == 1 .. 40
===============================================================================
