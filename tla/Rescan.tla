--------------------------------- MODULE Rescan ---------------------------------
(***************************************************************************)
(* A unit written to its document and read back: the edits of Layout, the  *)
(* boards they write (core/expand.py), the stored rules (core/record.py)   *)
(* and the scan that reads them (Scan), with the boards moved by hand in   *)
(* between (editor/session.py, _apply and reload).                         *)
(***************************************************************************)
EXTENDS Layout, Scan

CONSTANTS
    NoBoard,      \* NO_NEIGHBOR_SENTINEL
    Slides,       \* how far a hand moves a board
    Stretches,    \* how much longer a hand makes a board, at its high end
    Doors,        \* the panels beside the unit, by identifier
    Displaced,    \* the boards in a nested container, and how far along "h"
                  \* its placement carries them
    MaxChanges    \* bound on the edits and the changes by hand together

VARIABLES
    boxes,        \* the boxes read_container reads, by board
    record,       \* the rules property, a function on keys
    facing,       \* the facing property: the end of the depth the unit faces
    session,      \* "open", or "closed" when a reload could not read the unit
    stale,        \* boards have been changed by hand since the unit was read
    hands         \* the changes by hand so far, for MaxChanges

rescanVars == <<unit, step, edits, boxes, record, facing, session, stale, hands>>

ASSUME NoBoardAssumption == NoBoard \notin Ids

(***************************************************************************)
(* The stored rules.                                                       *)
(***************************************************************************)
\* rule_key(): the boards right before and right after a region in its run.
RuleKey(u, r) ==
    LET k == PlaceOf(u, r)
        run == u.items[RunOf(u, r)]
        Neighbor(l) == IF l \in DOMAIN run /\ run[l] \in Boards(u) THEN run[l] ELSE NoBoard
    IN  <<Neighbor(k - 1), Neighbor(k + 1)>>

Keyed(u) == Regions(u) \ {u.root}

\* The last of the nodes S in the order the tree is walked.
LastIn(u, S) ==
    CHOOSE i \in S : \A j \in S \ {i} :
        j \in PathOf(u, i) \/ Precedes(u, Divisions(u), j, i)

\* rules_to_json(): of the regions that share a key, the last one's rule.
RulesOf(u) ==
    [key \in {RuleKey(u, r) : r \in Keyed(u)} |->
        u.rule[LastIn(u, {r \in Keyed(u) : RuleKey(u, r) = key})]]

Stored(u, rules, r) ==
    IF RuleKey(u, r) \in DOMAIN rules THEN rules[RuleKey(u, r)] ELSE [kind |-> "none"]

\* _merged_rules(): the size one unit of weight stands for in the run of d,
\* after the first region whose scanned share stands.
RatePerWeight(u, d, rules) ==
    LET run == u.items[d]
        standing == {k \in DrivenPlaces(u, d) : Stored(u, rules, run[k]).kind # "fixed"}
        first == run[Min(standing)]
    IN  IF standing = {} THEN One ELSE Extent(u, first) // u.rule[first].weight

\* Mutants of MergedWith: the clear size is stored in whatever measure the lock
\* has, every locked size reads as a clear one, a lock lasts while its size does.
ClearInBasis(u, rules, r) ==
    LET stored == Stored(u, rules, r)
    IN  IF stored.kind = "fixed" THEN Fixed(Extent(u, r), stored.basis) ELSE u.rule[r]
ClearSize(u, rules, r) ==
    IF Stored(u, rules, r).kind = "fixed" THEN Fixed(Extent(u, r), "clear") ELSE u.rule[r]
LockedAtSize(u, rules, r) ==
    LET stored == Stored(u, rules, r)
    IN  IF stored.kind = "fixed" /\ SizeInBasis(u, r, Extent(u, r), stored.basis) = stored.mm
        THEN stored ELSE u.rule[r]

\* _merged_rules(): the lock and the basis of the record, at the scanned size.
MergedWith(u, rules, r) ==
    LET stored == Stored(u, rules, r)
        mm == Extent(u, r)
        basis == IF stored.kind = "fixed" /\ Measures(u, r, stored.basis)
                 THEN stored.basis ELSE "clear"
    IN  CASE stored.kind = "fixed" -> Fixed(SizeInBasis(u, r, mm, basis), basis)
          [] stored.kind = "driven" /\ ~Driven(u, r) ->
                Weighted(mm // RatePerWeight(u, RunOf(u, r), rules))
          [] stored.kind = "none" \/ (stored.kind = "driven" /\ Driven(u, r)) -> u.rule[r]

\* with_stored_rules(): the scanned unit itself when it does not solve.
WithStoredRules(u, rules) ==
    IF ~Solves(u) THEN u
    ELSE [u EXCEPT !.rule = [i \in DOMAIN @ |-> IF i \in Keyed(u) THEN MergedWith(u, rules, i)
                                                 ELSE @[i]]]

(***************************************************************************)
(* Writing and reading.                                                    *)
(***************************************************************************)
\* _write_geometry(): a board is put in its box, a pinned one at the size it was
\* measured.
Placed(u) ==
    LET box == Expand(u)
    IN  [b \in Boards(u) |->
            IF b \in DOMAIN u.pinned THEN [box[b] EXCEPT !.size = u.pinned[b] @@ @] ELSE box[b]]

\* _write_geometry(): a board's Placement is given its low corner in the
\* unit's frame, and read_container composes it with what Displaced stands for.
WrittenBoxes(u) ==
    LET Moved(b, box) == [box EXCEPT !.low["h"] = @ ++ Displaced[b]]
        placed == Placed(u)
    IN  Doors @@ [b \in DOMAIN placed |->
                    IF b \in DOMAIN Displaced THEN Moved(b, placed[b]) ELSE placed[b]]

\* _read_unit() and solve(): the unit, or what refuses it.
IfSolved(u) == IF Solves(u) THEN [refusals |-> {}, unit |-> u] ELSE [refusals |-> {"unsolvable"}]
WithRecord(scan, rules) ==
    IF scan.refusals # {} THEN scan ELSE IfSolved(Solved(WithStoredRules(scan.unit, rules)))
ReadUnit(read, rules, fixed) == WithRecord(Scanned(read, Ids, fixed), rules)

\* scan(): the facing stored, or, where none is, the one inferred.
FrontOf(read, stored) == IF stored = "unknown" THEN Facing(read) ELSE stored

\* An edit of the session and its write (_apply); one that lets an exception
\* out has written nothing.  A write that carries backs is Container's.
EditAndWrite ==
    /\ session = "open" /\ ~stale
    /\ Panels(boxes) = DOMAIN Doors
    /\ Backs(boxes, FrontOf(boxes, facing)) = {}
    /\ edits < MaxEdits /\ edits + hands < MaxChanges
    /\ Edit
    /\ edits' = edits + 1
    /\ IF step'.outcome = "returned"
       THEN /\ boxes' = WrittenBoxes(unit') /\ record' = RulesOf(unit')
            /\ facing' = FrontOf(boxes, facing)
       ELSE UNCHANGED <<boxes, record, facing>>
    /\ UNCHANGED <<session, stale, hands>>

\* A change by hand: the container's properties stay.
ByHand(changed) ==
    /\ edits + hands < MaxChanges
    /\ boxes' = changed
    /\ hands' = hands + 1
    /\ stale' = TRUE
    /\ UNCHANGED <<unit, step, edits, record, facing, session>>

HandSlides(b, a, mm) == ByHand([boxes EXCEPT ![b].low[a] = @ ++ mm])
HandStretches(b, a, mm) == ByHand([boxes EXCEPT ![b].size[a] = @ ++ mm])
HandDeletes(b) == ByHand([c \in DOMAIN boxes \ {b} |-> boxes[c]])

\* A board deleted and one just like it built in its place.
HandReplaces(b) ==
    LET new == NewId(DOMAIN boxes \cup Nodes(unit))
    IN  ByHand([c \in (DOMAIN boxes \ {b}) \cup {new} |-> boxes[IF c = new THEN b ELSE c]])

\* reload(), closing where the unit cannot be read.
Take(result) ==
    \/ result.refusals = {} /\ unit' = result.unit /\ session' = "open"
    \/ result.refusals # {} /\ session' = "closed" /\ UNCHANGED unit
Reload ==
    /\ session = "open"
    /\ Take(ReadUnit(boxes, record, unit.fixed))
    /\ stale' = FALSE
    /\ step' = [name |-> "Reload", of |-> << >>, outcome |-> "returned"]
    /\ UNCHANGED <<edits, boxes, record, facing, hands>>

Read(result) == result.refusals = {} /\ unit = result.unit

\* A unit with its rules stored, and the session that opens on it.
Open(u) ==
    /\ boxes = Doors @@ Placed(Solved(u))
    /\ record = RulesOf(Solved(u))
    /\ facing = Facing(boxes)
    /\ Read(ReadUnit(boxes, record, u.fixed))

RInit ==
    /\ \E u \in StartUnits : Open(u)
    /\ step = [name |-> "Open", of |-> << >>, outcome |-> "returned"]
    /\ edits = 0 /\ hands = 0
    /\ session = "open" /\ stale = FALSE

Hand ==
    \E b \in DOMAIN boxes :
        \/ \E a \in Dims, mm \in Slides : HandSlides(b, a, mm)
        \/ \E a \in Axes, mm \in Stretches : HandStretches(b, a, mm)
        \/ HandDeletes(b)
        \/ HandReplaces(b)

RNext == EditAndWrite \/ Hand \/ Reload

RSpec == RInit /\ [][RNext]_rescanVars

(***************************************************************************)
(* Properties.                                                             *)
(***************************************************************************)
Lockings(u, r) == IF Locked(u, r) THEN {u.rule[r].basis} ELSE {}

\* A unit without its identifiers and without its sizes: the boards, the
\* nesting, the voids, and what is locked in which measure.
Shape(u) ==
    LET shape[i \in Nodes(u)] ==
            CASE i \in Boards(u) -> <<"board", i>>
              [] i \in Divisions(u) ->
                    <<"division", u.axis[i], Lockings(u, i),
                      [k \in DOMAIN u.items[i] |-> shape[u.items[i][k]]]>>
              [] i \in u.voids -> <<"void", Lockings(u, i)>>
              [] i \in Bays(u) -> <<"bay", Lockings(u, i)>>
    IN  shape[u.root]

Reloads == step'.name = "Reload" /\ ~stale'

ReadsAsWritten == session' = "open" /\ Shape(unit') = Shape(unit)

\* Edits that move no board that was there.
MovesNothing == {"Open", "Reload", "Add Board", "Lock Opening", "Unlock Opening",
                 "Unlock Board", "Change Basis", "Set Fixed Point"}

\* Reading back a unit nobody touched gives the layout that was written: no
\* region is nested another way, turns into a void or loses its lock or its
\* measure (scan.py _region and _finalize_items, record.py).  In a unit with
\* voids, an edit that moves boards may open a bay to a void: the boards of a
\* stepped unit keep their own lengths (expand.py).
ReloadKeepsLayout ==
    [][Reloads /\ ~stale /\ (unit.voids = {} \/ step.name \in MovesNothing)
          => ReadsAsWritten]_rescanVars

Within(p, q, mm) == Greatest(p -- q, q -- p) \preceq mm

\* The unit read has every face of board b along a within mm of where it is.
Follows(read, b, a, mm) ==
    LET made == Placed(read)
    IN  /\ Within(made[b].low[a], boxes[b].low[a], mm)
        /\ Within(High(made[b], a), High(boxes[b], a), mm)

\* A board stays where the hand left it, whatever sizes are stored: the unit
\* read has its faces where the board's are, but for what the scan takes for
\* a joint (record.py _merged_rules; scan.py _clean_lines and _slab).
GeometryWins ==
    [][Reloads /\ session' = "open" =>
          \A b \in Boards(unit') : \A a \in Dims :
             Follows(unit', b, a, IF a = "d" THEN Snap ELSE Clearance ++ Snap)]_rescanVars

\* The regions of u that share their key with none.
Singled(u) == {r \in Keyed(u) : \A q \in Keyed(u) \ {r} : RuleKey(u, q) # RuleKey(u, r)}

\* An opening the hand left between the same boards keeps its lock and its
\* measure, and one that was not locked is not, where no other opening has its
\* key (record.py rule_key and _merged_rules).
IntentSurvives ==
    [][Reloads /\ session' = "open" =>
          \A r \in Singled(unit) : \A q \in Singled(unit') :
             RuleKey(unit, r) = RuleKey(unit', q) => Lockings(unit', q) = Lockings(unit, r)
      ]_rescanVars

\* "Locking or unlocking moves nothing" (README.md:76): the boards the session
\* writes with it are where they were, but for the snap.
LocksMoveNoBoard ==
    [][edits' # edits /\ step'.name \in {"Lock Opening", "Unlock Opening"} =>
          \A b \in DOMAIN boxes : \A a \in Dims :
             /\ Within(boxes'[b].low[a], boxes[b].low[a], Snap)
             /\ Within(High(boxes'[b], a), High(boxes[b], a), Snap)]_rescanVars

\* No window of the scan is crossed by a board or partly open to the outside
\* (test_scan.py:369 and :407: the recursion never makes one).
WindowsAreWhole ==
    LET g == Grid(boxes)
    IN  stale /\ Malformed(boxes) = {} /\ Members(boxes) # {} /\ Uncuttable(g) = {}
          => Unplaceable(g, Runs(g)) \cap {"crosses_bay", "partly_enclosed"} = {}

Mirrored(box) == [box EXCEPT !.low["d"] = Zero -- High(box, "d")]
Opposite(front) == CASE front = "min" -> "max"
                     [] front = "max" -> "min"
                     [] front = "unknown" -> "unknown"

\* Turning the unit round turns its facing round and no other way, but for a
\* panel right in the middle of the depth (scan.py infer_facing).
MirrorTurnsFacing ==
    LET depth == DepthOf(boxes)
        Middle(box) == box.low["d"] ++ High(box, "d") = depth.low ++ depth.high
    IN  Members(boxes) # {} /\ ~ (\E b \in Panels(boxes) : Middle(boxes[b]))
          => Facing([b \in DOMAIN boxes |-> Mirrored(boxes[b])]) = Opposite(Facing(boxes))
================================================================================
