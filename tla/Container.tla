------------------------------- MODULE Container -------------------------------
(***************************************************************************)
(* A unit's container in a document, and what writes and reads it: the     *)
(* write (container.py write_container), the read (read_container with     *)
(* core/scan.py and core/record.py), the backs (core/backs.py), and the    *)
(* open editing session that keeps the unit between two writes             *)
(* (editor/session.py).                                                    *)
(*                                                                         *)
(* The unit is one run of boards with a bay between each two, and a        *)
(* board's place is a slot: a write spreads the boards over the even       *)
(* slots, a hand may put one anywhere between.  What a board's identity,   *)
(* tags, label and stock, and a region's stored rule, come to does not     *)
(* depend on more of the geometry than that.                               *)
(***************************************************************************)
EXTENDS Integers, Functions, FiniteSetsExt, SequencesExt

CONSTANTS
    Docs,         \* the documents, by Uid
    Names,        \* the names a document gives its objects
    NewIds,       \* ids a layout gives a board before it has an object
    None,         \* no board, no tag
    Stocks,       \* material, grain and appearance of a board
    DefaultStock, \* what FreeCAD gives a new object
    HandStocks,   \* what a user gives a part
    HandSlots,    \* where a hand puts a board
    BackSpans,    \* where a hand puts a back
    NamesReturn,  \* whether a new object may get a deleted one's name
    MaxWrites,    \* bound on the writes
    MaxHands      \* bound on the changes made by hand

ASSUME ReturnAssumption == NamesReturn \in BOOLEAN
ASSUME HandAssumption == HandSlots \subseteq Int /\ BackSpans \subseteq Int \X Int
ASSUME BoundAssumption == MaxWrites \in Nat /\ MaxHands \in Nat
ASSUME StockAssumption == {DefaultStock} \cup HandStocks \subseteq Stocks
ASSUME IdAssumption ==
    None \notin Names \cup NewIds /\ Names \cap NewIds = {} /\ NewIds # {}

VARIABLES
    \* The document.
    doc,          \* the document the container is in
    objs,         \* the objects in the container, by name
    record,       \* ShelvingRules, by <<board before, board after>>
    given,        \* the names no new object can have
    \* The session.
    open,
    unit,         \* Session.unit
    untagged,     \* Session.untagged
    \* For the properties.
    stale,        \* the document changed and the session did not read it
    made,         \* the objects the workbench tagged in this document
    step,         \* what the last action wrote
    writes, hands

document == <<doc, objs, record, given>>
session == <<open, unit, untagged>>
vars == <<document, session, stale, made, step, writes, hands>>

(***************************************************************************)
(* Objects.  A board stands at one slot, a back spans two; a stray is any  *)
(* part a read sets aside because it cannot tell where it goes.            *)
(***************************************************************************)
Untagged == [as |-> None, in |-> None]
Tags(name, d) == [as |-> name, in |-> d]

Object(reads, low, high, stock) ==
    [reads |-> reads, low |-> low, high |-> high,
     tags |-> Untagged, label |-> "own", stock |-> stock]

BoardsOf(os) == {n \in DOMAIN os : os[n].reads = "board"}
BacksOf(os) == {n \in DOMAIN os : os[n].reads = "back"}

HasTags(os, n) == os[n].tags # Untagged
IsCopy(os, n, d) == HasTags(os, n) /\ os[n].tags # Tags(n, d)

(***************************************************************************)
(* The unit: its boards from low to high, the rule of each region between  *)
(* two of them, the backs with the board each edge follows, and the board  *)
(* a new one takes its stock from.                                         *)
(***************************************************************************)
Unlocked == "unlocked"
Rules == {Unlocked, "clear", "with_next"}
NoUnit == [row |-> << >>, rules |-> << >>, backs |-> << >>, from |-> << >>]

Regions(row) == 1 .. Len(row) - 1
RuleKey(row, k) == <<row[k], row[k + 1]>>

\* rules_to_json()
RecordOf(u) ==
    LET keys == {RuleKey(u.row, k) : k \in Regions(u.row)}
    IN  [key \in keys |-> u.rules[CHOOSE k \in Regions(u.row) : RuleKey(u.row, k) = key]]

\* with_stored_rules(): a scan locks nothing.
StoredRules(row, rec) ==
    [k \in Regions(row) |->
        IF RuleKey(row, k) \in DOMAIN rec THEN rec[RuleKey(row, k)] ELSE Unlocked]

\* An edge of a back follows the board it lies on, and keeps its distance
\* inside the unit's outer face for when that board is gone.
BackEdge(os, at, offset) ==
    LET under == {b \in BoardsOf(os) : os[b].low = at}
    IN  [follows |-> IF under = {} THEN None ELSE CHOOSE b \in under : TRUE,
         offset |-> offset]

\* scan()
Below(os, b) == {c \in BoardsOf(os) : os[c].low < os[b].low}
Row(os) ==
    [k \in 1 .. Cardinality(BoardsOf(os)) |->
        CHOOSE b \in BoardsOf(os) : Cardinality(Below(os, b)) = k - 1]
Overlaps(os) == \E m, n \in BoardsOf(os) : m # n /\ os[m].low = os[n].low
Scans(os) == Cardinality(BoardsOf(os)) > 1 /\ ~Overlaps(os)

ReadBacks(os, row) ==
    [n \in BacksOf(os) |->
        [low |-> BackEdge(os, os[n].low, os[n].low - os[row[1]].low),
         high |-> BackEdge(os, os[n].high, os[row[Len(row)]].low - os[n].high)]]

\* read_container() with scan() and with_stored_rules().
ReadUnit(os, rec) ==
    [row |-> Row(os), rules |-> StoredRules(Row(os), rec),
     backs |-> ReadBacks(os, Row(os)), from |-> << >>]

\* Mutant of Unplaced: every part set aside is listed, tagged or not.
SetAside(os, u) == DOMAIN os \ Range(u.row)

\* _unplaced(): what the next write keeps though it is no board.
Unplaced(os, u) ==
    {n \in DOMAIN os \ Range(u.row) : n \in DOMAIN u.backs \/ ~HasTags(os, n)}

(***************************************************************************)
(* The write.                                                              *)
(***************************************************************************)
SlotOf(row, b) == 2 * (CHOOSE k \in DOMAIN row : row[k] = b)

\* place_backs()
EdgeAt(edge, row, outer) ==
    IF edge.follows \in Range(row) THEN SlotOf(row, edge.follows) ELSE outer
BackLow(u, n) == EdgeAt(u.backs[n].low, u.row, 2 + u.backs[n].low.offset)
BackHigh(u, n) ==
    EdgeAt(u.backs[n].high, u.row, 2 * Len(u.row) - u.backs[n].high.offset)
BacksFit(u) == \A n \in DOMAIN u.backs : BackLow(u, n) < BackHigh(u, n)

\* renamed_board_ids() and renamed_back_boards(): `names' gives the boards
\* just created the names of their objects.
Rename(names, i) == IF i \in DOMAIN names THEN names[i] ELSE i
RenamedEdge(edge, names) == [edge EXCEPT !.follows = Rename(names, @)]
RenamedFrom(from, names) ==
    [n \in {Rename(names, i) : i \in DOMAIN from} |->
        from[CHOOSE i \in DOMAIN from : Rename(names, i) = n]]

\* Mutant of Renamed: the boards the backs follow keep their ids.
RenamedBoards(u, names) ==
    [u EXCEPT !.row = [k \in DOMAIN @ |-> Rename(names, @[k])],
              !.from = RenamedFrom(@, names)]

Renamed(u, names) ==
    [u EXCEPT !.row = [k \in DOMAIN @ |-> Rename(names, @[k])],
              !.from = RenamedFrom(@, names),
              !.backs = [n \in DOMAIN @ |->
                            [low |-> RenamedEdge(@[n].low, names),
                             high |-> RenamedEdge(@[n].high, names)]]]

Matched(os, u) == Range(u.row) \cap DOMAIN os
Missing(os, u) == Range(u.row) \ DOMAIN os
PlacedBacks(os, u) == (DOMAIN u.backs \cap DOMAIN os) \ Range(u.row)

Adopts(os, n, d) == ~HasTags(os, n) \/ IsCopy(os, n, d)

\* Mutant of UpdatedBoard: a copy keeps the tags of its original.
KeptTags(os, u, n, d) ==
    [os[n] EXCEPT !.reads = "board", !.low = SlotOf(u.row, n), !.high = SlotOf(u.row, n),
                  !.tags = IF HasTags(os, n) THEN @ ELSE Tags(n, d),
                  !.label = IF IsCopy(os, n, d) THEN "made" ELSE @]

\* A board with an object: its geometry, and tags and label as it needs them.
UpdatedBoard(os, u, n, d) ==
    [os[n] EXCEPT !.reads = "board", !.low = SlotOf(u.row, n), !.high = SlotOf(u.row, n),
                  !.tags = IF Adopts(os, n, d) THEN Tags(n, d) ELSE @,
                  !.label = IF IsCopy(os, n, d) THEN "made" ELSE @]

\* objects_by_id when every board exists: a new object has FreeCAD's stock.
ObjectStocks(os, u) ==
    [i \in DOMAIN os \cup Missing(os, u) |->
        IF i \in DOMAIN os THEN os[i].stock ELSE DefaultStock]

\* A new board takes the stock its source has by then.
CopyStock(os, u, stocks, i) ==
    IF i \in Missing(os, u) \cap DOMAIN u.from /\ u.from[i] \in DOMAIN stocks
        THEN [stocks EXCEPT ![i] = stocks[u.from[i]]]
        ELSE stocks

CreatedStock(os, u, i) ==
    FoldLeft(LAMBDA stocks, j : CopyStock(os, u, stocks, j), ObjectStocks(os, u), u.row)[i]

\* Mutant of CreatedBoard: tagged with the layout's id.
TaggedById(os, u, i, name, d) ==
    [reads |-> "board", low |-> SlotOf(u.row, i), high |-> SlotOf(u.row, i),
     tags |-> Tags(i, d), label |-> "made",
     stock |-> CreatedStock(os, u, i)]

\* Mutant of CreatedBoard: every new board looks as FreeCAD makes it.
PlainStock(os, u, i, name, d) ==
    [reads |-> "board", low |-> SlotOf(u.row, i), high |-> SlotOf(u.row, i),
     tags |-> Tags(name, d), label |-> "made", stock |-> DefaultStock]

\* _create_board(), and the copies of stock once every board exists.
CreatedBoard(os, u, i, name, d) ==
    [reads |-> "board", low |-> SlotOf(u.row, i), high |-> SlotOf(u.row, i),
     tags |-> Tags(name, d), label |-> "made",
     stock |-> CreatedStock(os, u, i)]

\* _write_back() moves and sizes a back, but turns none straight.
PlacedBack(os, u, n) ==
    [os[n] EXCEPT !.reads = IF @ = "stray" THEN @ ELSE "back",
                  !.low = BackLow(u, n), !.high = BackHigh(u, n)]

LeftAlone(os, u) ==
    {n \in DOMAIN os : ~HasTags(os, n)} \ (Matched(os, u) \cup PlacedBacks(os, u))

\* Mutant of Kept: a back with tags is deleted like any board not matched.
KeptBoards(os, u) == Matched(os, u) \cup {n \in DOMAIN os : ~HasTags(os, n)}

\* What no write deletes: the boards matched, the backs placed, and whatever
\* carries no tags.
Kept(os, u) == Matched(os, u) \cup PlacedBacks(os, u) \cup LeftAlone(os, u)

\* The objects once u is written, `names' naming the boards created.
Written(os, u, names, d) ==
    [n \in Kept(os, u) \cup Range(names) |->
        CASE n \in Matched(os, u) -> UpdatedBoard(os, u, n, d)
          [] n \in PlacedBacks(os, u) -> PlacedBack(os, u, n)
          [] n \in LeftAlone(os, u) -> os[n]
          [] n \in Range(names) ->
                CreatedBoard(os, u, CHOOSE i \in DOMAIN names : names[i] = n, n, d)]

\* A document gives each new object a name no other object has; one that is
\* deleted leaves its name free.
Given(os) == IF NamesReturn THEN DOMAIN os ELSE given \cup DOMAIN os
FreeNames == Names \ given
NewNames(os, u) == Injection(Missing(os, u), FreeNames)

\* Mutant of WriteContainer: rules are stored under the layout's ids.
StoreByIds(u, names) ==
    /\ writes < MaxWrites
    /\ BacksFit(u)
    /\ objs' = Written(objs, u, names, doc)
    /\ record' = RecordOf(u)
    /\ made' = (made \cap DOMAIN objs') \cup Range(names)
                  \cup {n \in Matched(objs, u) : Adopts(objs, n, doc)}
    /\ given' = Given(objs')
    /\ writes' = writes + 1
    /\ UNCHANGED <<doc, hands>>

\* write_container()
WriteContainer(u, names) ==
    /\ writes < MaxWrites
    /\ BacksFit(u)
    /\ objs' = Written(objs, u, names, doc)
    /\ record' = RecordOf(Renamed(u, names))
    /\ made' = (made \cap DOMAIN objs') \cup Range(names)
                  \cup {n \in Matched(objs, u) : Adopts(objs, n, doc)}
    /\ given' = Given(objs')
    /\ writes' = writes + 1
    /\ UNCHANGED <<doc, hands>>

(***************************************************************************)
(* The session.                                                            *)
(***************************************************************************)
\* _apply(): the session takes up what it wrote.
Apply(name, candidate) ==
    /\ open
    /\ \E names \in NewNames(objs, candidate) :
          /\ WriteContainer(candidate, names)
          /\ unit' = Renamed(candidate, names)
    /\ untagged' = LeftAlone(objs, candidate) \cup PlacedBacks(objs, candidate)
    /\ step' = name
    /\ UNCHANGED <<open, stale>>

Over(f, g) == [x \in DOMAIN f \cup DOMAIN g |-> IF x \in DOMAIN g THEN g[x] ELSE f[x]]
Half(rule) == IF rule = Unlocked THEN Unlocked ELSE "clear"

\* split(): a new board, cut like board s, between places k and k + 1.
Split(k, s) ==
    LET id == CHOOSE i \in NewIds : TRUE
        half == Half(unit.rules[k])
    IN  Apply("Edit",
              [unit EXCEPT !.row = InsertAt(@, k + 1, id),
                           !.rules = InsertAt([@ EXCEPT ![k] = half], k, half),
                           !.from = Over(@, [i \in {id} |-> s])])

Joined(low, high) == IF Unlocked \in {low, high} THEN Unlocked ELSE "clear"

\* delete_boards(): the board at place k goes, and its two regions join.
DeleteBoard(k) ==
    LET joined == Joined(unit.rules[k - 1], unit.rules[k])
    IN  Apply("Delete Boards",
              [unit EXCEPT !.row = RemoveAt(@, k),
                           !.rules = RemoveAt([@ EXCEPT ![k - 1] = joined], k),
                           !.from = Restrict(@, DOMAIN @ \ {unit.row[k]})])

\* set_lock() and set_basis(): the last unlocked region stays so.
SetRule(k, rule) ==
    /\ rule # unit.rules[k]
    /\ Unlocked \in {rule} \cup {unit.rules[j] : j \in Regions(unit.row) \ {k}}
          \/ unit.rules[k] # Unlocked
    /\ Apply("Edit", [unit EXCEPT !.rules[k] = rule])

\* Mutant of DeleteUntagged: the session's unit keeps the backs deleted.
DeleteListed(ns) ==
    /\ open
    /\ objs' = Restrict(objs, DOMAIN objs \ ns)
    /\ untagged' = untagged \ ns
    /\ made' = made \ ns
    /\ step' = "None"
    /\ given' = Given(objs')
    /\ UNCHANGED <<doc, record, open, unit, stale, writes, hands>>

\* delete_untagged()
DeleteUntagged(ns) ==
    /\ open
    /\ objs' = Restrict(objs, DOMAIN objs \ ns)
    /\ untagged' = untagged \ ns
    /\ unit' = [unit EXCEPT !.backs = Restrict(@, DOMAIN @ \ ns)]
    /\ made' = made \ ns
    /\ step' = "None"
    /\ given' = Given(objs')
    /\ UNCHANGED <<doc, record, open, stale, writes, hands>>

\* Session.__init__() and reload(): a unit that no longer scans is lost.
Read ==
    /\ open' = Scans(objs)
    /\ unit' = IF open' THEN ReadUnit(objs, record) ELSE NoUnit
    /\ untagged' = IF open' THEN Unplaced(objs, unit') ELSE {}
    /\ stale' = FALSE
    /\ step' = "None"
    /\ UNCHANGED <<document, made, writes, hands>>

Closed == open' = FALSE /\ unit' = NoUnit /\ untagged' = {} /\ stale' = FALSE

Close == open /\ Closed /\ step' = "None" /\ UNCHANGED <<document, made, writes, hands>>

\* create_unit(): two boards and a bay between them.
Create ==
    /\ objs = << >> /\ ~open
    /\ \E row \in [1 .. 2 -> NewIds] :
          /\ IsInjective(row)
          /\ LET new == [row |-> row, rules |-> <<Unlocked>>, backs |-> << >>, from |-> << >>]
             IN  \E names \in NewNames(objs, new) : WriteContainer(new, names)
    /\ step' = "Write"
    /\ UNCHANGED <<session, stale>>

\* rescan_unit(), which scripts call, with or without a session open.
Rescan ==
    /\ Scans(objs)
    /\ LET read == ReadUnit(objs, record)
       IN  \E names \in NewNames(objs, read) : WriteContainer(read, names)
    /\ stale' = open
    /\ step' = "Write"
    /\ UNCHANGED session

(***************************************************************************)
(* What a user does by hand.  A change made as a command is read back      *)
(* before the next edit (Read); one made by a script may not be.           *)
(***************************************************************************)
Hand(os) ==
    /\ hands < MaxHands
    /\ objs' = os
    /\ given' = Given(os)
    /\ made' = made \cap DOMAIN os
    /\ hands' = hands + 1
    /\ stale' = open
    /\ step' = "None"
    /\ UNCHANGED <<doc, record, session, writes>>

Spots == {[reads |-> "board", low |-> s, high |-> s] : s \in HandSlots}
            \cup {[reads |-> "back", low |-> b[1], high |-> b[2]] : b \in BackSpans}
            \cup {[reads |-> "stray", low |-> 0, high |-> 0]}
At(o, spot) == [o EXCEPT !.reads = spot.reads, !.low = spot.low, !.high = spot.high]

HandAdd(n, spot, stock) ==
    /\ n \in FreeNames
    /\ Hand(Over(objs, [x \in {n} |-> Object(spot.reads, spot.low, spot.high, stock)]))
HandCopy(o, n, spot) ==
    /\ n \in FreeNames
    /\ Hand(Over(objs, [x \in {n} |-> [At(objs[o], spot) EXCEPT !.label = "own"]]))
HandMove(n, spot) == At(objs[n], spot) # objs[n] /\ Hand([objs EXCEPT ![n] = At(@, spot)])
HandDelete(n) == Hand(Restrict(objs, DOMAIN objs \ {n}))
HandLabel(n) == objs[n].label = "made" /\ Hand([objs EXCEPT ![n].label = "own"])

\* The container is copied, and what follows is done to the copy: its objects
\* keep their names in another document, or have new ones.
CopyUnit(d, f) ==
    /\ hands < MaxHands /\ objs # << >>
    /\ doc' = d
    /\ objs' = [n \in Range(f) |-> objs[CHOOSE m \in DOMAIN f : f[m] = n]]
    /\ given' = Given(objs')
    /\ made' = {}
    /\ hands' = hands + 1
    /\ Closed
    /\ step' = "None"
    /\ UNCHANGED <<record, writes>>

CopyNames(d) ==
    Injection(DOMAIN objs, FreeNames)
        \cup (IF d = doc THEN {} ELSE {[n \in DOMAIN objs |-> n]})

Init ==
    /\ doc \in Docs
    /\ \/ objs = << >>
       \/ \E m, n \in Names, s \in HandStocks :
             /\ m # n
             /\ objs = [x \in {m, n} |-> LET slot == IF x = m THEN 2 ELSE 4
                                        IN  Object("board", slot, slot, s)]
    /\ record = << >> /\ given = DOMAIN objs
    /\ open = FALSE /\ unit = NoUnit /\ untagged = {}
    /\ stale = FALSE /\ made = {} /\ step = "None"
    /\ writes = 0 /\ hands = 0

Next ==
    \/ Create \/ Read \/ Close \/ Rescan
    \/ \E k \in Regions(unit.row), s \in Range(unit.row) : Split(k, s)
    \/ \E k \in 2 .. Len(unit.row) - 1 : DeleteBoard(k)
    \/ \E k \in Regions(unit.row), rule \in Rules : SetRule(k, rule)
    \/ \E ns \in (SUBSET (untagged \cap DOMAIN objs)) \ {{}} : DeleteUntagged(ns)
    \/ \E n \in Names, spot \in Spots, stock \in HandStocks : HandAdd(n, spot, stock)
    \/ \E o \in DOMAIN objs, n \in Names, spot \in Spots : HandCopy(o, n, spot)
    \/ \E n \in DOMAIN objs : HandDelete(n) \/ HandLabel(n)
    \/ \E n \in DOMAIN objs, spot \in Spots : HandMove(n, spot)
    \/ \E d \in Docs : \E f \in CopyNames(d) : CopyUnit(d, f)

Spec == Init /\ [][Next]_vars

(***************************************************************************)
(* Properties.                                                             *)
(***************************************************************************)
Edits == {"Edit", "Delete Boards"}
Writes == Edits \cup {"Write"}

TypeOK ==
    /\ doc \in Docs
    /\ DOMAIN objs \subseteq given /\ given \subseteq Names
    /\ \A n \in DOMAIN objs :
          /\ objs[n].reads \in {"board", "back", "stray"}
          /\ objs[n].low \in Int /\ objs[n].high \in Int
          /\ objs[n].tags \in [as : Names, in : Docs] \cup {Untagged}
          /\ objs[n].label \in {"own", "made"} /\ objs[n].stock \in Stocks
    /\ DOMAIN record \subseteq Names \X Names
    /\ \A key \in DOMAIN record : record[key] \in Rules
    /\ open \in BOOLEAN /\ stale \in BOOLEAN
    /\ Range(unit.row) \subseteq Names /\ IsInjective(unit.row)
    /\ open => Len(unit.row) > 1
    /\ Len(unit.rules) = Cardinality(Regions(unit.row)) /\ Range(unit.rules) \subseteq Rules
    /\ untagged \subseteq Names /\ made \subseteq DOMAIN objs
    /\ writes \in 0 .. MaxWrites /\ hands \in 0 .. MaxHands

\* What the session holds is what reading the document would give: the same
\* boards under the names they really have, the same rule for every region,
\* and every edge of a back still on its board.  Boards an edit took out of
\* the unit and left in the document, having no tags, are set aside here
\* (session.py _apply; record.py rules_to_json and with_stored_rules).
ReadsBack ==
    open /\ ~stale =>
        LET left == BoardsOf(objs) \ Range(unit.row)
            read == ReadUnit(Restrict(objs, DOMAIN objs \ left), record)
        IN  /\ \A n \in left : ~HasTags(objs, n)
            /\ read.row = unit.row /\ read.rules = unit.rules
            /\ DOMAIN read.backs = DOMAIN unit.backs
            /\ \A n \in DOMAIN read.backs : \A side \in {"low", "high"} :
                  unit.backs[n][side].follows \in Range(unit.row) =>
                      read.backs[n][side].follows = unit.backs[n][side].follows

\* "the editor deletes any other object only when you select it for deletion"
\* (scope-and-design.md:170): a board deleted in the editor is gone from the
\* document, whoever made it.
DeletedBoardsAreGone ==
    [][step' = "Delete Boards" =>
          Range(unit.row) \ Range(unit'.row) \subseteq Names \ DOMAIN objs']_vars

\* An edit leaves nothing for a second write to do, even one made on a stale
\* unit: it would create, adopt, move, relabel and delete nothing (bug-008:
\* boards written under ids that are not names would be deleted and made
\* again).
SecondWriteIsQuiet ==
    step \in Edits =>
        /\ Missing(objs, unit) = {}
        /\ Written(objs, unit, << >>, doc) = objs
        /\ record = RecordOf(unit)

\* What the panel lists as not the workbench's is what the next edit keeps:
\* no edit deletes a listed object, and every other object that is no board
\* of the unit it deletes (session.py _unplaced; container.py
\* write_container).
ListIsKept ==
    [][step' \in Edits /\ ~stale =>
          (DOMAIN objs \ DOMAIN objs') \cap untagged = {}
       /\ (DOMAIN objs \ Range(unit.row)) \cap DOMAIN objs' \subseteq untagged]_vars

\* A board the workbench tagged keeps the label it is given, however often
\* it is written: generated labels are for boards created and copies
\* adopted (container.py _derive_labels).
LabelsSurvive ==
    [][step' \in Writes =>
          \A n \in made \cap DOMAIN objs' : objs'[n].label = objs[n].label]_vars

\* A back loses the board it follows only when that board is deleted by an
\* edit, not when the write has to make the board again under another name
\* (backs.py renamed_back_boards).
BacksKeepTheirBoards ==
    [][step' \in Edits \ {"Delete Boards"} =>
          \A n \in DOMAIN unit.backs : \A side \in {"low", "high"} :
              unit.backs[n][side].follows \in Range(unit.row)
                  => unit'.backs[n][side].follows \in Range(unit'.row)]_vars

\* A new board has the stock of the board it is cut like, wherever that is
\* still in the container; a write changes no other board's stock
\* (container.py write_container; properties.py copy_stock).
StocksAreCopied ==
    [][step' \in Edits =>
          /\ \A n \in DOMAIN objs \cap DOMAIN objs' : objs'[n].stock = objs[n].stock
          /\ \A n \in DOMAIN unit'.from \ DOMAIN objs :
                unit'.from[n] \in DOMAIN objs => objs'[n].stock = objs[unit'.from[n]].stock]_vars
================================================================================
